-------------------------------- MODULE Flash --------------------------------
(***************************************************************************)
(* Flash memory (src/arduino/core/flash_memory.cpp) and persistent objects *)
(* (persistent_object.h).  An operation is started in the SoftDevice, and  *)
(* the caller then waits in a loop that runs the event scheduler, because  *)
(* only the scheduler delivers the operation's result.  The scheduler also *)
(* runs other events, whose listeners may use the flash themselves: the    *)
(* calls that are running form a stack.  The power may fail at any moment. *)
(***************************************************************************)
EXTENDS Integers, Sequences, FiniteSets

CONSTANTS NumWords,   \* the words of a persistent object
          Values,     \* the objects that are written
          QueueSize,  \* SCHEDULER_QUEUE_SIZE
          MaxJobs     \* bound: uses of the flash in one behaviour

ASSUME FlashAssumption ==
    NumWords \in Nat \ {0} /\ QueueSize \in Nat \ {0} /\ MaxJobs \in Nat

VARIABLES
    cells,    \* the words at the object's address
    device,   \* the SoftDevice's operation: position of its caller, or 0
    results,  \* SoC events that have not been fetched
    pending,  \* _b_pendingOperation
    status,   \* _s8_writeStatus
    queue,    \* the scheduler's queue
    stack,    \* the calls that the main thread is in, innermost last
    jobs,     \* uses of the flash so far
    halted    \* why an error check has stopped the system, or "no"

vars == <<cells, device, results, pending, status, queue, stack, jobs, halted>>

Words == 1 .. NumWords

Erased == "erased"  \* a word that has been erased
Mixed == "mixed"    \* ... of any content: written twice, or torn by a power failure
Contents == Values \union {Erased, Mixed}

Results == {"success", "error"}
SoftDevice == [call |-> "softdevice", value |-> Erased]

\* what a listener or the application does with the flash
Jobs == [call : {"write", "code"}, value : Values]
            \union [call : {"byte", "erase"}, value : {Erased}]

(* A call of app_sched_execute, or of writePersistentObject (in the data   *)
(* or, refused, in the code area), write or erasePage.  own: result of the *)
(* operation it waits for, failed says that one of its operations failed,  *)
(* overtaken that a younger operation was started before it returned, and  *)
(* alone that nothing else has used the words since it found them erased.  *)
Execution == [call |-> "execute"]
Uses == [call : {"write", "code", "byte", "erase"}, value : Values \union {Erased},
         word : Words, phase : {"call", "wait"}, own : Results \union {"none"},
         failed : BOOLEAN, overtaken : BOOLEAN, alone : BOOLEAN]

TypeOK ==
    /\ cells \in [Words -> Contents]
    /\ device \in 0 .. Len(stack)
    /\ results \in Seq(Results)
    /\ pending \in BOOLEAN
    /\ status \in Results
    /\ queue \in Seq(Jobs \union {SoftDevice}) /\ Len(queue) <= QueueSize
    /\ stack \in Seq({Execution} \union Uses)
    /\ jobs \in 0 .. MaxJobs
    /\ halted \in {"no", "queue", "flash"}

\* the memory keeps what earlier runs of the program have left in it
Init ==
    /\ cells \in [Words -> Values \union {Erased}]
    /\ device = 0 /\ results = <<>> /\ pending = FALSE /\ status = "success"
    /\ queue = <<>> /\ stack = <<>> /\ jobs = 0 /\ halted = "no"

-----------------------------------------------------------------------------
Running == halted = "no"

Top == stack[Len(stack)]

IsUse(k) == stack[k].call # "execute"

Below == SubSeq(stack, 1, Len(stack) - 1)

InCall(phase) == /\ Running /\ stack # <<>>
                 /\ IsUse(Len(stack)) /\ Top.phase = phase

Executing == Running /\ stack # <<>> /\ ~IsUse(Len(stack))

\* app_sched_event_put under APP_ERROR_CHECK
Put(event) ==
    IF Len(queue) < QueueSize
    THEN queue' = Append(queue, event) /\ UNCHANGED halted
    ELSE halted' = "queue" /\ UNCHANGED queue

\* the call begins at the first word
Enter(job) ==
    [call |-> job.call, value |-> job.value, word |-> 1, phase |-> "call",
     own |-> "none", failed |-> FALSE, overtaken |-> FALSE,
     alone |-> /\ job.call = "write" /\ cells = [w \in Words |-> Erased]
               /\ \A k \in 1 .. Len(stack) : ~IsUse(k)]

-----------------------------------------------------------------------------
(* The actors that start uses of the flash.                                *)

(* application_loop uses it ...                                            *)
LoopUses(job) ==
    /\ Running /\ stack = <<>> /\ jobs < MaxJobs
    /\ stack' = <<Enter(job)>>
    /\ jobs' = jobs + 1
    /\ UNCHANGED <<cells, device, results, pending, status, queue, halted>>

(* ... or polls the scheduler.                                             *)
ProcessEvent ==
    /\ Running /\ stack = <<>> /\ queue # <<>>
    /\ stack' = <<Execution>>
    /\ UNCHANGED <<cells, device, results, pending, status, queue, jobs, halted>>

(* An interrupt queues an event whose listener uses the flash.             *)
QueueEvent(job) ==
    /\ Running /\ jobs < MaxJobs
    /\ Put(job)
    /\ jobs' = jobs + 1
    /\ UNCHANGED <<cells, device, results, pending, status, stack>>

-----------------------------------------------------------------------------
(* writeLong, write and erasePage.                                         *)

Return == stack' = Below

(* An address inside the application's code, or an operation under way:    *)
(* INVALID_ADDRESS or BUSY, and writePersistentObject gives up.            *)
Refuse ==
    /\ InCall("call") /\ (Top.call = "code" \/ pending)
    /\ Return
    /\ UNCHANGED <<cells, device, results, pending, status, queue, jobs, halted>>

(* The operation starts: sd_flash_write or sd_flash_page_erase under an    *)
(* error check.                                                            *)
Start ==
    /\ InCall("call") /\ Top.call # "code" /\ ~pending
    /\ pending' = TRUE
    /\ IF device = 0
       THEN /\ device' = Len(stack)
            /\ stack' = [k \in 1 .. Len(stack) |->
                 IF k = Len(stack)
                 THEN [stack[k] EXCEPT !.phase = "wait", !.own = "none", !.overtaken = FALSE]
                 ELSE IF IsUse(k) THEN [stack[k] EXCEPT !.overtaken = TRUE, !.alone = FALSE]
                 ELSE stack[k]]
            /\ UNCHANGED halted
       ELSE halted' = "flash" /\ UNCHANGED <<device, stack>>
    /\ UNCHANGED <<cells, results, status, queue, jobs>>

\* the loop only sleeps
Wait_OnlySleeps ==
    /\ InCall("wait") /\ pending /\ queue # <<>>
    /\ UNCHANGED vars

(* The loop: sd_app_evt_wait returns when an interrupt has left something  *)
(* to do, and the scheduler is run.                                        *)
Wait ==
    /\ InCall("wait") /\ pending /\ queue # <<>>
    /\ stack' = Append(stack, Execution)
    /\ UNCHANGED <<cells, device, results, pending, status, queue, jobs, halted>>

NextWord ==
    stack' = [stack EXCEPT ![Len(stack)] = [Top EXCEPT !.phase = "call", !.word = @ + 1]]

\* the loop over the words goes one word too far
Finish_TooFar ==
    /\ InCall("wait") /\ ~pending
    /\ IF Top.call = "write" /\ status = "success" /\ Top.word <= NumWords
       THEN NextWord
       ELSE Return
    /\ UNCHANGED <<cells, device, results, pending, status, queue, jobs, halted>>

\* the result of a word's write is not looked at
Finish_IgnoresError ==
    /\ InCall("wait") /\ ~pending
    /\ IF Top.call = "write" /\ Top.word < NumWords THEN NextWord ELSE Return
    /\ UNCHANGED <<cells, device, results, pending, status, queue, jobs, halted>>

(* After the loop: the status decides on the next word or the return.      *)
Finish ==
    /\ InCall("wait") /\ ~pending
    /\ IF Top.call = "write" /\ status = "success" /\ Top.word < NumWords
       THEN NextWord
       ELSE Return
    /\ UNCHANGED <<cells, device, results, pending, status, queue, jobs, halted>>

-----------------------------------------------------------------------------
(* app_sched_execute.                                                      *)

\* an error does not end the operation
FlashHandler_OnlySuccess(result) ==
    /\ status' = result
    /\ pending' = IF result = "success" THEN FALSE ELSE pending

\* a success leaves the status of the operation before
FlashHandler_KeepsStatus(result) ==
    /\ status' = IF result = "error" THEN "error" ELSE status
    /\ pending' = FALSE

\* flash_handler
FlashHandler(result) == status' = result /\ pending' = FALSE

(* It takes the oldest event.  The SoftDevice's: the SoC events, if any,   *)
(* are fetched; at most one is there, as only one operation is under way.  *)
FetchSocEvents ==
    /\ Executing /\ queue # <<>> /\ Head(queue) = SoftDevice
    /\ queue' = Tail(queue)
    /\ IF results = <<>>
       THEN UNCHANGED <<results, status, pending>>
       ELSE FlashHandler(results[Len(results)]) /\ results' = <<>>
    /\ UNCHANGED <<cells, device, stack, jobs, halted>>

(* Another event: its listener uses the flash.                             *)
CallListener ==
    /\ Executing /\ queue # <<>> /\ Head(queue) # SoftDevice
    /\ queue' = Tail(queue)
    /\ stack' = Append(stack, Enter(Head(queue)))
    /\ UNCHANGED <<cells, device, results, pending, status, jobs, halted>>

(* The queue is empty.                                                     *)
ExecuteReturns ==
    /\ Executing /\ queue = <<>>
    /\ Return
    /\ UNCHANGED <<cells, device, results, pending, status, queue, jobs, halted>>

-----------------------------------------------------------------------------
(* The SoftDevice and the power supply.                                    *)

Written(old, value) == IF old \in {Erased, value} THEN value ELSE Mixed

\* the memory when the operation of the call is complete; write passes the
\* address of its one-byte parameter, and the word is what lies there
Completed(call) ==
    IF call.call = "erase" THEN [w \in Words |-> Erased]
    ELSE IF call.call = "byte" THEN [cells EXCEPT ![1] = Mixed]
    ELSE [cells EXCEPT ![call.word] = Written(@, call.value)]

(* The operation ends; one that fails may have changed the memory or not.  *)
DeviceEnds(result) ==
    /\ Running /\ device # 0
    /\ \/ cells' = Completed(stack[device])
       \/ result = "error" /\ UNCHANGED cells
    /\ results' = Append(results, result)
    /\ Put(SoftDevice)
    /\ stack' = [stack EXCEPT ![device] =
                    [stack[device] EXCEPT !.own = result, !.failed = @ \/ result = "error"]]
    /\ device' = 0
    /\ UNCHANGED <<pending, status, jobs>>

(* The power fails: the words of an operation under way are left as they   *)
(* were, complete, or torn.  Set-up starts with an idle flash.             *)
Reset ==
    /\ Running /\ stack # <<>>
    /\ IF device = 0 THEN UNCHANGED cells
       ELSE cells' \in {c \in [Words -> Contents] : \A w \in Words :
                            c[w] \in IF Completed(stack[device])[w] = cells[w] THEN {cells[w]}
                                     ELSE {cells[w], Completed(stack[device])[w], Mixed}}
    /\ device' = 0 /\ results' = <<>> /\ pending' = FALSE /\ status' = "success"
    /\ queue' = <<>> /\ stack' = <<>>
    /\ UNCHANGED <<jobs, halted>>

-----------------------------------------------------------------------------
MainThread == \/ ProcessEvent \/ Refuse \/ Start \/ Wait \/ Finish
              \/ FetchSocEvents \/ CallListener \/ ExecuteReturns

Device == \E result \in Results : DeviceEnds(result)

Next == \/ MainThread
        \/ Device
        \/ \E job \in Jobs : LoopUses(job) \/ QueueEvent(job)
        \/ Reset

(* The main thread is not stopped, and operations end.                     *)
Fairness == WF_vars(MainThread) /\ WF_vars(Device)

Safety == Init /\ [][Next]_vars

Spec == Safety /\ Fairness

-----------------------------------------------------------------------------
(* Properties.                                                             *)

(* However calls nest, the flag is set exactly while an operation is under *)
(* way or its result has not been delivered: one operation at a time, so   *)
(* that the SoftDevice never refuses one (and stops the system).           *)
PendingTracksDevice ==
    /\ halted # "flash"
    /\ Running => (pending <=> device # 0 \/ results # <<>>)
    /\ Len(results) + (IF device = 0 THEN 0 ELSE 1) <= 1

(* writeLong and erasePage report the result of their own operation, as    *)
(* long as no listener has started another before they returned: neither   *)
(* an older result nor that of an interrupted operation.                   *)
StatusIsOwn ==
    InCall("wait") /\ ~pending /\ ~Top.overtaken => status = Top.own

(* writePersistentObject, alone, fills an erased area from its beginning:  *)
(* wherever an error or a power failure stops it, the words before are     *)
(* written and those behind are untouched.                                 *)
AloneWritesInOrder ==
    \A k \in 1 .. Len(stack) : stack[k].call = "write" /\ stack[k].alone =>
        /\ \A w \in 1 .. stack[k].word - 1 : cells[w] = stack[k].value
        /\ \A w \in stack[k].word + 1 .. NumWords : cells[w] = Erased
        /\ stack[k].phase = "call" => cells[stack[k].word] = Erased

(* Every use of the flash ends, though its waiting loop itself has to      *)
(* deliver the result, and may run other uses first.                       *)
EveryCallReturns == stack # <<>> ~> stack = <<>> \/ ~Running

(* "@return number of bytes written": when writePersistentObject is about  *)
(* to return the size of the object, none of its words has failed.         *)
NumberReturnedWasWritten ==
    InCall("wait") /\ Top.call = "write" /\ Top.word = NumWords
        /\ ~pending /\ status = "success" => ~Top.failed
=============================================================================
