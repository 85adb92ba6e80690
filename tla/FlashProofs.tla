----------------------------- MODULE FlashProofs -----------------------------
(***************************************************************************)
(* Type correctness of Flash, the one operation at a time, whose result a  *)
(* call reports, and the order in which a lone object is written, for      *)
(* every size of object, queue and nesting.                                *)
(***************************************************************************)
EXTENDS Flash, TLAPS

Waits(k) == IsUse(k) /\ stack[k].phase = "wait"

(* The flag against the SoftDevice, and the owner of its operation.        *)
FlagInv ==
    /\ halted # "flash"
    /\ pending <=> device # 0 \/ results # <<>>
    /\ Len(results) + (IF device = 0 THEN 0 ELSE 1) <= 1
    /\ device # 0 => device \in 1 .. Len(stack) /\ Waits(device)

(* Among the calls that wait, only the youngest is not overtaken: its      *)
(* operation is under way, or its result is the one to be delivered, or    *)
(* has been.                                                               *)
ResultInv ==
    \A k \in 1 .. Len(stack) : Waits(k) /\ ~stack[k].overtaken =>
        IF device # 0 THEN device = k
        ELSE IF results # <<>> THEN results = <<stack[k].own>>
        ELSE status = stack[k].own

(* A call alone with its words has written those before the current one,   *)
(* and the current one if its operation has succeeded.                     *)
AloneInv ==
    \A k \in 1 .. Len(stack) : IsUse(k) /\ stack[k].alone =>
        /\ stack[k].call = "write"
        /\ ~stack[k].overtaken
        /\ device # 0 => device = k
        /\ \A w \in 1 .. stack[k].word - 1 : cells[w] = stack[k].value
        /\ \A w \in stack[k].word + 1 .. NumWords : cells[w] = Erased
        /\ stack[k].phase = "call" \/ device = k => cells[stack[k].word] = Erased
        /\ stack[k].phase = "wait" /\ device = 0 /\ stack[k].own = "success" =>
              cells[stack[k].word] = stack[k].value

Inv == TypeOK /\ FlagInv /\ ResultInv /\ AloneInv

-----------------------------------------------------------------------------
(* The stack.                                                              *)

\* a frame that is not an execution is a use
LEMMA UseType ==
    ASSUME TypeOK, NEW k \in 1 .. Len(stack), IsUse(k)
    PROVE  stack[k] \in Uses
  BY DEF TypeOK, IsUse, Execution

\* a push keeps the frames below
LEMMA Push ==
    ASSUME NEW S, NEW s \in Seq(S), NEW f \in S
    PROVE  /\ Append(s, f) \in Seq(S) /\ Len(Append(s, f)) = Len(s) + 1
           /\ \A k \in 1 .. Len(s) : Append(s, f)[k] = s[k]
           /\ Append(s, f)[Len(s) + 1] = f
  OBVIOUS

\* a sequence is as long as its domain is
LEMMA LenOfDomain ==
    ASSUME NEW S, NEW t \in Seq(S), NEW n \in Nat, DOMAIN t = 1 .. n
    PROVE  Len(t) = n
  OBVIOUS

\* one element of a sequence replaced
LEMMA Replace ==
    ASSUME NEW S, NEW s \in Seq(S), NEW i \in 1 .. Len(s), NEW e
    PROVE  LET t == [s EXCEPT ![i] = e]
           IN  /\ DOMAIN t = 1 .. Len(s) /\ t[i] = e
               /\ \A k \in 1 .. Len(s) : k # i => t[k] = s[k]
  OBVIOUS

\* so does a return
LEMMA Pop ==
    ASSUME TypeOK, stack # <<>>
    PROVE  /\ Below \in Seq({Execution} \union Uses) /\ Len(Below) = Len(stack) - 1
           /\ \A k \in 1 .. Len(stack) - 1 : Below[k] = stack[k]
           /\ Len(stack) \in 1 .. Len(stack) /\ Len(stack) \in Nat \ {0}
  <1> DEFINE S == {Execution} \union Uses
  <1>1. stack \in Seq(S) /\ Len(stack) \in Nat \ {0}
    BY DEF TypeOK
  <1> HIDE DEF S
  <1>2. QED
    BY <1>1 DEF Below, S

\* a use begins with what its job says
LEMMA EnterType ==
    ASSUME NEW job \in Jobs
    PROVE  /\ Enter(job) \in Uses /\ Enter(job).call # "execute"
           /\ Enter(job).phase = "call" /\ Enter(job).word = 1
           /\ Enter(job).overtaken = FALSE
           /\ Enter(job).alone <=> /\ Enter(job).call = "write"
                                   /\ cells = [w \in Words |-> Erased]
                                   /\ \A k \in 1 .. Len(stack) : ~IsUse(k)
  BY FlashAssumption DEF Jobs, Enter, Uses, Words

-----------------------------------------------------------------------------
(* Steps that only push or pop.                                            *)

(* An execution on top changes nothing for the uses below.                 *)
LEMMA PushExecution ==
    ASSUME Inv, stack' = Append(stack, Execution), TypeOK',
           UNCHANGED <<cells, device, results, pending, status, halted>>
    PROVE  Inv'
  <1>1. /\ Len(stack') = Len(stack) + 1 /\ Len(stack) \in Nat
        /\ \A k \in 1 .. Len(stack) : stack'[k] = stack[k]
        /\ stack'[Len(stack) + 1] = Execution
    BY Push DEF Inv, TypeOK
  <1>2. /\ \A k \in 1 .. Len(stack') : IsUse(k)' => k \in 1 .. Len(stack)
        /\ \A k \in 1 .. Len(stack) : (IsUse(k)' <=> IsUse(k)) /\ (Waits(k)' <=> Waits(k))
    BY <1>1 DEF IsUse, Waits, Execution
  <1>3. FlagInv'
    BY <1>1, <1>2 DEF Inv, FlagInv
  <1>4. ResultInv'
    BY <1>1, <1>2 DEF Inv, ResultInv, Waits
  <1>5. AloneInv'
    BY <1>1, <1>2 DEF Inv, AloneInv
  <1>6. QED
    BY <1>3, <1>4, <1>5 DEF Inv

(* A new use does not wait yet, and is alone only if there is no other.    *)
LEMMA PushUse ==
    ASSUME Inv, NEW job \in Jobs, stack' = Append(stack, Enter(job)), TypeOK',
           UNCHANGED <<cells, device, results, pending, status, halted>>
    PROVE  Inv'
  <1> DEFINE n == Len(stack) + 1
  <1>1. /\ Len(stack') = n /\ Len(stack) \in Nat
        /\ \A k \in 1 .. Len(stack) : stack'[k] = stack[k]
        /\ stack'[n] = Enter(job)
    BY Push, EnterType DEF Inv, TypeOK
  <1>2. /\ \A k \in 1 .. Len(stack) : (IsUse(k)' <=> IsUse(k)) /\ (Waits(k)' <=> Waits(k))
        /\ \A k \in 1 .. Len(stack') : Waits(k)' => k \in 1 .. Len(stack)
    <2>1. \A k \in 1 .. Len(stack) : (IsUse(k)' <=> IsUse(k)) /\ (Waits(k)' <=> Waits(k))
      BY <1>1 DEF IsUse, Waits
    <2>2. stack'[n].phase = "call"
      BY <1>1, EnterType
    <2>3. ASSUME NEW k \in 1 .. Len(stack'), Waits(k)'
          PROVE  k \in 1 .. Len(stack)
      BY <1>1, <2>2, <2>3 DEF Waits
    <2>4. QED
      BY <2>1, <2>3
  <1>3. FlagInv'
    BY <1>1, <1>2 DEF Inv, FlagInv
  <1>4. ResultInv'
    BY <1>1, <1>2 DEF Inv, ResultInv
  <1>5. ASSUME Enter(job).alone
        PROVE  /\ Enter(job).call = "write" /\ ~Enter(job).overtaken /\ device = 0
               /\ \A w \in Words : cells[w] = Erased
               /\ Enter(job).phase = "call" /\ Enter(job).word = 1
    BY <1>5, EnterType DEF Inv, FlagInv, Waits
  <1>6. AloneInv'
    <2> SUFFICES ASSUME NEW k \in 1 .. n, IsUse(k)', stack'[k].alone
                 PROVE  AloneInv!(k)'
      BY <1>1 DEF AloneInv
    <2>1. CASE k \in 1 .. Len(stack)
      BY <2>1, <1>1, <1>2 DEF Inv, AloneInv
    <2>2. CASE k = n
      BY <2>2, <1>1, <1>5, FlashAssumption DEF Words
    <2>3. QED
      BY <2>1, <2>2, <1>1
  <1>7. QED
    BY <1>3, <1>4, <1>6 DEF Inv

(* A call that waits for nothing leaves the rest as it is.                 *)
LEMMA PopAny ==
    ASSUME Inv, stack # <<>>, Return, device # Len(stack), TypeOK',
           UNCHANGED <<cells, device, results, pending, status, halted>>
    PROVE  Inv'
  <1>1. /\ Len(stack') = Len(stack) - 1 /\ Len(stack) \in Nat \ {0}
        /\ \A k \in 1 .. Len(stack) - 1 : stack'[k] = stack[k]
    BY Pop DEF Inv, TypeOK, Return
  <1>2. \A k \in 1 .. Len(stack) - 1 : (IsUse(k)' <=> IsUse(k)) /\ (Waits(k)' <=> Waits(k))
    BY <1>1 DEF IsUse, Waits
  <1>3. FlagInv'
    BY <1>1, <1>2 DEF Inv, FlagInv
  <1>4. ResultInv'
    BY <1>1, <1>2 DEF Inv, ResultInv
  <1>5. AloneInv'
    BY <1>1, <1>2 DEF Inv, AloneInv
  <1>6. QED
    BY <1>3, <1>4, <1>5 DEF Inv

-----------------------------------------------------------------------------
(* Steps of the flash and of the scheduler.                                *)

(* Start: the operation belongs to the top, everything below is overtaken. *)
LEMMA StartStep ==
    ASSUME Inv, Start, TypeOK'
    PROVE  Inv'
  <1> DEFINE S == {Execution} \union Uses
  <1>1. device = 0 /\ results = <<>> /\ pending' /\ results' = <<>>
    BY DEF Inv, FlagInv, Start
  <1>2. /\ Len(stack) \in Nat \ {0} /\ IsUse(Len(stack)) /\ Top \in Uses
        /\ Top.phase = "call"
    <2>1. stack # <<>> /\ IsUse(Len(stack)) /\ Top.phase = "call"
      BY DEF Start, InCall
    <2>2. Len(stack) \in 1 .. Len(stack) /\ Len(stack) \in Nat \ {0}
      BY <2>1, Pop DEF Inv
    <2>3. QED
      BY <2>1, <2>2, UseType DEF Inv, Top
  <1>3. /\ Len(stack') = Len(stack) /\ device' = Len(stack)
        /\ UNCHANGED <<cells, halted, status>>
    <2>1. DOMAIN stack' = 1 .. Len(stack)
      BY <1>1 DEF Start
    <2>2. stack' \in Seq(S)
      BY DEF TypeOK
    <2>3. Len(stack') = Len(stack)
      <3> HIDE DEF S
      <3> QED BY <1>2, <2>1, <2>2, LenOfDomain
    <2>4. QED
      BY <1>1, <2>3 DEF Start
  <1>4. /\ stack'[Len(stack)] = [Top EXCEPT !.phase = "wait", !.own = "none", !.overtaken = FALSE]
        /\ \A k \in 1 .. Len(stack) - 1 :
              stack'[k] = IF IsUse(k) THEN [stack[k] EXCEPT !.overtaken = TRUE, !.alone = FALSE]
                          ELSE stack[k]
    <2> DEFINE F(k) == IF k = Len(stack)
                       THEN [stack[k] EXCEPT !.phase = "wait", !.own = "none", !.overtaken = FALSE]
                       ELSE IF IsUse(k) THEN [stack[k] EXCEPT !.overtaken = TRUE, !.alone = FALSE]
                       ELSE stack[k]
    <2>1. stack' = [k \in 1 .. Len(stack) |-> F(k)]
      BY <1>1 DEF Start
    <2>2. F(Len(stack)) = [Top EXCEPT !.phase = "wait", !.own = "none", !.overtaken = FALSE]
      BY DEF Top
    <2>3. \A k \in 1 .. Len(stack) - 1 :
             F(k) = IF IsUse(k) THEN [stack[k] EXCEPT !.overtaken = TRUE, !.alone = FALSE]
                    ELSE stack[k]
      BY <1>2
    <2> HIDE DEF F
    <2>4. \A k \in 1 .. Len(stack) : stack'[k] = F(k)
      BY <2>1
    <2>5. \A k \in 1 .. Len(stack) - 1 : k \in 1 .. Len(stack)
      BY <1>2
    <2>6. stack'[Len(stack)] = F(Len(stack))
      BY <1>2, <2>4
    <2>7. \A k \in 1 .. Len(stack) - 1 : stack'[k] = F(k)
      BY <2>4, <2>5
    <2>8. QED
      BY <2>2, <2>3, <2>6, <2>7, Zenon
  <1>5. \A k \in 1 .. Len(stack) - 1 :
           IsUse(k)' => stack'[k].overtaken /\ ~stack'[k].alone
    <2> TAKE k \in 1 .. Len(stack) - 1
    <2>1. CASE IsUse(k)
      <3>1. stack[k] \in Uses /\ k \in 1 .. Len(stack)
        BY <2>1, <1>2, UseType DEF Inv
      <3>2. stack'[k] = [stack[k] EXCEPT !.overtaken = TRUE, !.alone = FALSE]
        BY <2>1, <1>4
      <3>3. QED
        BY <3>1, <3>2 DEF Uses
    <2>2. CASE ~IsUse(k)
      BY <2>2, <1>4 DEF IsUse
    <2>3. QED
      BY <2>1, <2>2
  <1>6. /\ stack'[Len(stack)].phase = "wait" /\ stack'[Len(stack)].own = "none"
        /\ stack'[Len(stack)].call = Top.call /\ stack'[Len(stack)].alone = Top.alone
        /\ stack'[Len(stack)].word = Top.word /\ stack'[Len(stack)].value = Top.value
        /\ stack'[Len(stack)].overtaken = FALSE
    BY <1>2, <1>4 DEF Uses
  <1>7. FlagInv'
    BY <1>1, <1>2, <1>3, <1>6 DEF Inv, FlagInv, Waits, IsUse, Top
  <1>8. ResultInv'
    BY <1>2, <1>3, <1>5 DEF ResultInv, Waits
  <1>9. AloneInv'
    BY <1>1, <1>2, <1>3, <1>5, <1>6 DEF Inv, AloneInv, IsUse, Top
  <1>10. QED
    BY <1>7, <1>8, <1>9 DEF Inv

(* Finish: the next word of an object whose last one is written.           *)
LEMMA NextWordStep ==
    ASSUME Inv, InCall("wait"), ~pending, status = "success", Top.call = "write",
           Top.word < NumWords, NextWord, TypeOK',
           UNCHANGED <<cells, device, results, pending, status, halted>>
    PROVE  Inv'
  <1>1. device = 0 /\ results = <<>>
    BY DEF Inv, FlagInv
  <1>2. /\ Len(stack) \in Nat \ {0} /\ Waits(Len(stack)) /\ Top \in Uses
        /\ Top = stack[Len(stack)]
    BY UseType DEF Inv, TypeOK, InCall, Top, Waits
  <1>3. /\ Len(stack') = Len(stack)
        /\ stack'[Len(stack)] = [Top EXCEPT !.phase = "call", !.word = @ + 1]
        /\ \A k \in 1 .. Len(stack) - 1 : stack'[k] = stack[k]
    <2>1. stack \in Seq({Execution} \union Uses) /\ stack' \in Seq({Execution} \union Uses)
      BY DEF Inv, TypeOK
    <2>2. Len(stack) \in 1 .. Len(stack) /\ Len(stack) \in Nat
      BY <1>2
    <2>3. /\ DOMAIN stack' = 1 .. Len(stack)
          /\ stack'[Len(stack)] = [Top EXCEPT !.phase = "call", !.word = @ + 1]
          /\ \A k \in 1 .. Len(stack) : k # Len(stack) => stack'[k] = stack[k]
      <3> DEFINE e == [Top EXCEPT !.phase = "call", !.word = @ + 1]
      <3>1. stack' = [stack EXCEPT ![Len(stack)] = e]
        BY DEF NextWord
      <3> HIDE DEF e
      <3>2. /\ DOMAIN stack' = 1 .. Len(stack) /\ stack'[Len(stack)] = e
            /\ \A k \in 1 .. Len(stack) : k # Len(stack) => stack'[k] = stack[k]
        BY <2>1, <2>2, <3>1, Replace
      <3>3. QED
        BY <3>2 DEF e
    <2>4. Len(stack') = Len(stack)
      BY <2>1, <2>2, <2>3, LenOfDomain
    <2>5. QED
      BY <2>2, <2>3, <2>4
  <1>4. \A k \in 1 .. Len(stack) - 1 : (IsUse(k)' <=> IsUse(k)) /\ (Waits(k)' <=> Waits(k))
    BY <1>3 DEF IsUse, Waits
  <1>5. /\ stack'[Len(stack)].phase = "call" /\ stack'[Len(stack)].call = Top.call
        /\ stack'[Len(stack)].alone = Top.alone /\ stack'[Len(stack)].value = Top.value
        /\ stack'[Len(stack)].overtaken = Top.overtaken
        /\ stack'[Len(stack)].word = Top.word + 1 /\ Top.word \in Words
    BY <1>2, <1>3 DEF Uses
  <1>6. FlagInv'
    BY <1>1 DEF Inv, FlagInv
  <1>7. ResultInv'
    <2>1. \A k \in 1 .. Len(stack) : Waits(k)' => k \in 1 .. Len(stack) - 1
      BY <1>2, <1>5 DEF Waits
    <2>2. QED
      BY <1>2, <1>3, <1>4, <2>1 DEF Inv, ResultInv
  <1>8. ASSUME Top.alone
        PROVE  /\ \A w \in 1 .. Top.word : cells[w] = Top.value
               /\ \A w \in Top.word + 1 .. NumWords : cells[w] = Erased
    <2>1. Top.own = "success"
      BY <1>1, <1>2, <1>8 DEF Inv, AloneInv, ResultInv, Waits
    <2>2. cells[Top.word] = Top.value
      BY <1>1, <1>2, <1>8, <2>1 DEF Inv, AloneInv, Waits
    <2>3. QED
      BY <1>2, <1>5, <1>8, <2>2, FlashAssumption DEF Inv, AloneInv, Waits, Words
  <1>9. AloneInv'
    <2> SUFFICES ASSUME NEW k \in 1 .. Len(stack), IsUse(k)', stack'[k].alone
                 PROVE  AloneInv!(k)'
      BY <1>3 DEF AloneInv
    <2>1. CASE k \in 1 .. Len(stack) - 1
      BY <2>1, <1>3, <1>4 DEF Inv, AloneInv
    <2>2. CASE k = Len(stack)
      <3>1. Top.alone /\ ~Top.overtaken
        BY <2>2, <1>2, <1>5 DEF Inv, AloneInv, Waits
      <3>2. QED
        BY <2>2, <3>1, <1>1, <1>5, <1>8, FlashAssumption DEF Words
    <2>3. QED
      BY <2>1, <2>2, <1>2
  <1>10. QED
    BY <1>6, <1>7, <1>9 DEF Inv

(* The result is delivered.                                                *)
LEMMA FetchSocEventsStep ==
    ASSUME Inv, FetchSocEvents, TypeOK'
    PROVE  Inv'
  <1>1. UNCHANGED <<cells, device, stack, halted>>
    BY DEF FetchSocEvents
  <1>2. CASE results = <<>>
    BY <1>1, <1>2 DEF Inv, FetchSocEvents, FlagInv, ResultInv, AloneInv, Waits, IsUse
  <1>3. CASE results # <<>>
    <2>1. /\ device = 0 /\ Len(results) = 1 /\ results = <<results[1]>>
      <3>1. results \in Seq(Results) /\ Len(results) \in Nat /\ device \in Nat
        BY DEF Inv, TypeOK
      <3>2. Len(results) # 0
        BY <1>3, <3>1
      <3>3. device = 0 /\ Len(results) = 1
        <4>1. Len(results) + (IF device = 0 THEN 0 ELSE 1) <= 1
          BY DEF Inv, FlagInv
        <4>2. device # 0 => Len(results) + 1 <= 1
          BY <4>1
        <4>3. device = 0 => Len(results) <= 1
          BY <3>1, <4>1
        <4>4. \A n \in Nat : n # 0 => ~(n + 1 <= 1) /\ (n <= 1 => n = 1)
          OBVIOUS
        <4>5. Len(results) \in Nat /\ Len(results) # 0
          BY <3>1, <3>2
        <4>6. QED
          BY <4>2, <4>3, <4>4, <4>5, Zenon
      <3>4. QED
        BY <3>1, <3>3
    <2>2. results' = <<>> /\ status' = results[1] /\ pending' = FALSE
      BY <1>3, <2>1 DEF FetchSocEvents, FlashHandler
    <2>3. FlagInv'
      BY <1>1, <2>1, <2>2 DEF Inv, FlagInv
    <2>4. \A own : results = <<own>> => results[1] = own
      OBVIOUS
    <2>5. ResultInv'
      BY <1>1, <1>3, <2>1, <2>2, <2>4 DEF Inv, ResultInv, Waits, IsUse
    <2>6. AloneInv'
      BY <1>1 DEF Inv, AloneInv, IsUse
    <2>7. QED
      BY <2>3, <2>5, <2>6 DEF Inv
  <1>4. QED
    BY <1>2, <1>3

(* The operation ends: only its own words and its own call change.         *)
LEMMA DeviceEndsStep ==
    ASSUME Inv, NEW result \in Results, DeviceEnds(result), TypeOK'
    PROVE  Inv'
  <1>1. /\ device \in 1 .. Len(stack) /\ Waits(device) /\ results = <<>> /\ pending
        /\ stack[device] \in Uses
    BY UseType DEF Inv, TypeOK, FlagInv, DeviceEnds, Waits
  <1>2. /\ device' = 0 /\ results' = <<result>> /\ UNCHANGED <<pending, status>>
        /\ halted' \in {halted, "queue"}
    BY <1>1 DEF DeviceEnds, Put
  <1>3. /\ Len(stack') = Len(stack)
        /\ \A k \in 1 .. Len(stack) : k # device => stack'[k] = stack[k]
        /\ stack'[device] = [stack[device] EXCEPT !.own = result,
                                !.failed = @ \/ result = "error"]
    <2>1. stack \in Seq({Execution} \union Uses) /\ stack' \in Seq({Execution} \union Uses)
      BY DEF Inv, TypeOK
    <2>2. /\ DOMAIN stack' = 1 .. Len(stack)
          /\ stack'[device] = [stack[device] EXCEPT !.own = result,
                                  !.failed = @ \/ result = "error"]
          /\ \A k \in 1 .. Len(stack) : k # device => stack'[k] = stack[k]
      <3> DEFINE e == [stack[device] EXCEPT !.own = result, !.failed = @ \/ result = "error"]
      <3>1. stack' = [stack EXCEPT ![device] = e]
        BY DEF DeviceEnds
      <3> HIDE DEF e
      <3>2. /\ DOMAIN stack' = 1 .. Len(stack) /\ stack'[device] = e
            /\ \A k \in 1 .. Len(stack) : k # device => stack'[k] = stack[k]
        BY <1>1, <2>1, <3>1, Replace
      <3>3. QED
        BY <3>2 DEF e
    <2>3. Len(stack') = Len(stack)
      BY <2>1, <2>2, LenOfDomain
    <2>4. QED
      BY <2>2, <2>3
  <1>4. /\ stack'[device].own = result
        /\ stack'[device].call = stack[device].call
        /\ stack'[device].phase = stack[device].phase
        /\ stack'[device].alone = stack[device].alone
        /\ stack'[device].value = stack[device].value
        /\ stack'[device].word = stack[device].word
        /\ stack'[device].overtaken = stack[device].overtaken
    BY <1>1, <1>3 DEF Uses
  <1>5. \A k \in 1 .. Len(stack) : (IsUse(k)' <=> IsUse(k)) /\ (Waits(k)' <=> Waits(k))
    BY <1>3, <1>4 DEF IsUse, Waits
  <1>6. FlagInv'
    BY <1>1, <1>2, <1>5 DEF Inv, FlagInv
  <1>7. ResultInv'
    <2> SUFFICES ASSUME NEW k \in 1 .. Len(stack), Waits(k)', ~stack'[k].overtaken
                 PROVE  results' = <<stack'[k].own>>
      BY <1>2, <1>3 DEF ResultInv
    <2>1. Waits(k) /\ device \in Nat /\ device # 0
      BY <1>1, <1>5
    <2>2. ~stack[k].overtaken
      BY <1>3, <1>4
    <2>3. k = device
      BY <2>1, <2>2 DEF Inv, ResultInv
    <2>4. QED
      BY <1>2, <1>4, <2>3
  <1>8. AloneInv'
    <2> SUFFICES ASSUME NEW k \in 1 .. Len(stack), IsUse(k)', stack'[k].alone
                 PROVE  AloneInv!(k)'
      BY <1>3 DEF AloneInv
    <2>1. IsUse(k) /\ stack[k].alone /\ k = device
      <3>1. IsUse(k) /\ device # 0
        BY <1>1, <1>5
      <3>2. stack[k].alone
        BY <1>3, <1>4
      <3>3. QED
        BY <3>1, <3>2 DEF Inv, AloneInv
    <2>2. /\ stack[device].call = "write" /\ ~stack[device].overtaken
          /\ \A w \in 1 .. stack[device].word - 1 : cells[w] = stack[device].value
          /\ \A w \in stack[device].word + 1 .. NumWords : cells[w] = Erased
          /\ cells[stack[device].word] = Erased
      BY <2>1 DEF Inv, AloneInv
    <2>3. /\ stack[device].word \in Words /\ Words = 1 .. NumWords /\ NumWords \in Nat
          /\ cells \in [Words -> Contents]
      BY <1>1, FlashAssumption DEF Uses, Words, Inv, TypeOK
    <2>4. \A w \in Words : w # stack[device].word => cells'[w] = cells[w]
      BY <2>2, <2>3 DEF DeviceEnds, Completed
    <2>5. result = "success" => cells'[stack[device].word] = stack[device].value
      BY <2>2, <2>3 DEF DeviceEnds, Completed, Written
    <2>6. QED
      BY <1>1, <1>2, <1>4, <2>1, <2>2, <2>3, <2>4, <2>5 DEF Waits
  <1>9. QED
    BY <1>6, <1>7, <1>8 DEF Inv

(* A reset empties the stack.                                              *)
LEMMA ResetStep ==
    ASSUME Inv, Reset, TypeOK'
    PROVE  Inv'
  <1>1. stack' = <<>> /\ device' = 0 /\ results' = <<>> /\ pending' = FALSE /\ halted' = halted
    BY DEF Reset
  <1>2. QED
    BY <1>1 DEF Inv, FlagInv, ResultInv, AloneInv

-----------------------------------------------------------------------------
(* Type correctness: every action keeps every variable's type.             *)

\* an event put under the error check
LEMMA PutType ==
    ASSUME TypeOK, NEW event \in Jobs \union {SoftDevice}, Put(event)
    PROVE  /\ queue' \in Seq(Jobs \union {SoftDevice}) /\ Len(queue') <= QueueSize
           /\ halted' \in {"no", "queue", "flash"}
  <1>1. CASE Len(queue) < QueueSize
    <2> DEFINE S == Jobs \union {SoftDevice}
    <2>1. queue \in Seq(S) /\ Len(queue) \in Nat /\ QueueSize \in Nat
      BY FlashAssumption DEF TypeOK
    <2>2. queue' = Append(queue, event) /\ halted' = halted /\ event \in S
      BY <1>1 DEF Put
    <2>3. halted \in {"no", "queue", "flash"}
      BY DEF TypeOK
    <2> HIDE DEF S
    <2>4. queue' \in Seq(S) /\ Len(queue') <= QueueSize
      BY <1>1, <2>1, <2>2
    <2>5. QED
      BY <2>2, <2>3, <2>4 DEF S
  <1>2. CASE ~(Len(queue) < QueueSize)
    BY <1>2 DEF Put, TypeOK
  <1>3. QED
    BY <1>1, <1>2

\* a complete operation leaves contents of the right kind
LEMMA CompletedType ==
    ASSUME TypeOK, NEW call \in Uses
    PROVE  Completed(call) \in [Words -> Contents]
  BY FlashAssumption DEF TypeOK, Completed, Written, Contents, Uses, Words, Erased, Mixed

\* the oldest event taken
LEMMA TailType ==
    ASSUME TypeOK, queue # <<>>
    PROVE  /\ Tail(queue) \in Seq(Jobs \union {SoftDevice}) /\ Len(Tail(queue)) <= QueueSize
           /\ Head(queue) \in Jobs \union {SoftDevice}
  <1> DEFINE S == Jobs \union {SoftDevice}
  <1>1. queue \in Seq(S) /\ Len(queue) <= QueueSize /\ QueueSize \in Nat
    BY FlashAssumption DEF TypeOK
  <1> HIDE DEF S
  <1>2. Tail(queue) \in Seq(S) /\ Len(Tail(queue)) <= QueueSize /\ Head(queue) \in S
    BY <1>1
  <1>3. QED
    BY <1>2 DEF S

LEMMA InitType == Init => Inv
  <1> SUFFICES ASSUME Init PROVE Inv
    OBVIOUS
  <1>1. TypeOK
    <2>1. cells \in [Words -> Contents]
      BY DEF Init, Contents
    <2>2. device \in 0 .. Len(stack) /\ jobs \in 0 .. MaxJobs /\ Len(queue) <= QueueSize
      BY FlashAssumption DEF Init
    <2>3. \A T : <<>> \in Seq(T)
      OBVIOUS
    <2>4. status \in Results
      BY DEF Init, Results
    <2>5. QED
      BY <2>1, <2>2, <2>3, <2>4 DEF Init, TypeOK
  <1>2. FlagInv /\ ResultInv /\ AloneInv
    BY DEF Init, FlagInv, ResultInv, AloneInv
  <1>3. QED
    BY <1>1, <1>2 DEF Inv

(* A step keeps the types.                                                 *)
LEMMA TypeStep ==
    ASSUME Inv, [Next]_vars
    PROVE  TypeOK'
  <1> DEFINE S == {Execution} \union Uses
  <1>1. TypeOK
    BY DEF Inv
  <1>2. ASSUME stack # <<>>, Return, device # Len(stack),
               UNCHANGED <<cells, device, results, pending, status, queue, jobs, halted>>
        PROVE  TypeOK'
    BY <1>1, <1>2, Pop DEF TypeOK, Return
  <1>3. ASSUME NEW f \in S, stack' = Append(stack, f),
               UNCHANGED <<cells, device, results, pending, status, halted>>,
               jobs' \in 0 .. MaxJobs,
               queue' \in Seq(Jobs \union {SoftDevice}), Len(queue') <= QueueSize
        PROVE  TypeOK'
    BY <1>1, <1>3, Push DEF TypeOK
  <1>4. ASSUME NEW job \in Jobs, LoopUses(job) PROVE TypeOK'
    <2>1. stack' = Append(stack, Enter(job)) /\ Enter(job) \in S
      <3>1. Append(<<>>, Enter(job)) = <<Enter(job)>>
        OBVIOUS
      <3>2. Enter(job) \in Uses
        BY EnterType
      <3>3. QED
        BY <1>4, <3>1, <3>2 DEF LoopUses
    <2>2. jobs' \in 0 .. MaxJobs
      BY <1>1, <1>4, FlashAssumption DEF LoopUses, TypeOK
    <2>3. QED
      BY <1>1, <1>3, <1>4, <2>1, <2>2 DEF LoopUses, TypeOK
  <1>5. ASSUME ProcessEvent PROVE TypeOK'
    <2>1. stack' = Append(stack, Execution) /\ Execution \in S
      BY <1>5 DEF ProcessEvent
    <2>2. QED
      BY <1>1, <1>3, <1>5, <2>1 DEF ProcessEvent, TypeOK
  <1>6. ASSUME NEW job \in Jobs, QueueEvent(job) PROVE TypeOK'
    <2>1. jobs' \in 0 .. MaxJobs
      BY <1>1, <1>6, FlashAssumption DEF QueueEvent, TypeOK
    <2>2. QED
      BY <1>1, <1>6, <2>1, PutType DEF QueueEvent, TypeOK
  <1>7. ASSUME Refuse PROVE TypeOK'
    BY <1>2, <1>7 DEF Refuse, InCall, Inv, FlagInv, Waits, Top
  <1>8. ASSUME Start PROVE TypeOK'
    <2>1. device = 0
      BY <1>8 DEF Start, Inv, FlagInv
    <2>2. stack' \in Seq(S) /\ Len(stack') = Len(stack)
      <3> DEFINE F(k) == IF k = Len(stack)
                         THEN [stack[k] EXCEPT !.phase = "wait", !.own = "none", !.overtaken = FALSE]
                         ELSE IF IsUse(k) THEN [stack[k] EXCEPT !.overtaken = TRUE, !.alone = FALSE]
                         ELSE stack[k]
      <3>1. stack' = [k \in 1 .. Len(stack) |-> F(k)]
        BY <1>8, <2>1 DEF Start
      <3>2. IsUse(Len(stack)) /\ stack # <<>> /\ stack \in Seq(S) /\ Len(stack) \in Nat
        <4>1. IsUse(Len(stack)) /\ stack # <<>>
          BY <1>8 DEF Start, InCall
        <4>2. stack \in Seq(S)
          BY <1>1 DEF TypeOK
        <4>3. QED
          BY <4>1, <4>2
      <3>3. ASSUME NEW k \in 1 .. Len(stack) PROVE F(k) \in S
        <4>1. CASE ~IsUse(k)
          BY <3>2, <4>1
        <4>2. CASE IsUse(k)
          <5>1. stack[k] \in Uses
            BY <1>1, <4>2, UseType
          <5>2. QED
            BY <4>2, <5>1 DEF Uses
        <4>3. QED
          BY <4>1, <4>2
      <3> HIDE DEF F, S
      <3>4. QED
        BY <3>1, <3>2, <3>3
    <2>3. Len(stack) \in 0 .. Len(stack)
      BY <1>1 DEF TypeOK
    <2>4. QED
      BY <1>1, <1>8, <2>1, <2>2, <2>3 DEF Start, TypeOK
  <1>9. ASSUME Wait PROVE TypeOK'
    <2>1. stack' = Append(stack, Execution) /\ Execution \in S
      BY <1>9 DEF Wait
    <2>2. QED
      BY <1>1, <1>3, <1>9, <2>1 DEF Wait, TypeOK
  <1>10. ASSUME Finish PROVE TypeOK'
    <2>1. stack # <<>> /\ IsUse(Len(stack)) /\ device = 0
      BY <1>10 DEF Finish, InCall, Inv, FlagInv
    <2>2. Len(stack) \in Nat \ {0} /\ Len(stack) \in 1 .. Len(stack)
      BY <1>1, <2>1, Pop
    <2>3. Top \in Uses
      BY <1>1, <2>1, <2>2, UseType DEF Top
    <2>4. CASE NextWord /\ Top.word < NumWords
      <3> DEFINE e == [Top EXCEPT !.phase = "call", !.word = @ + 1]
      <3>1. e \in S
        <4>1. Top.word + 1 \in Words
          BY <2>3, <2>4, FlashAssumption DEF Uses, Words
        <4>2. e = [Top EXCEPT !.phase = "call", !.word = Top.word + 1]
          OBVIOUS
        <4>3. QED
          BY <2>3, <4>1, <4>2 DEF Uses
      <3>2. stack' = [stack EXCEPT ![Len(stack)] = e]
        BY <2>4 DEF NextWord
      <3>3. stack \in Seq(S)
        BY <1>1 DEF TypeOK
      <3>4. stack' \in Seq(S) /\ Len(stack') = Len(stack)
        <4> HIDE DEF e, S
        <4> QED BY <2>2, <3>1, <3>2, <3>3
      <3>5. QED
        BY <1>1, <1>10, <3>4 DEF Finish, TypeOK
    <2>5. CASE Return
      BY <1>2, <1>10, <2>1, <2>2, <2>5 DEF Finish
    <2>6. QED
      BY <1>10, <2>4, <2>5 DEF Finish
  <1>11. ASSUME FetchSocEvents PROVE TypeOK'
    <2>1. CASE results = <<>>
      BY <1>1, <1>11, <2>1, TailType DEF FetchSocEvents, TypeOK
    <2>2. CASE results # <<>>
      <3>1. results[Len(results)] \in Results
        BY <1>1, <2>2 DEF TypeOK
      <3>2. results' = <<>> /\ status' \in Results /\ pending' \in BOOLEAN
        BY <1>11, <2>2, <3>1 DEF FetchSocEvents, FlashHandler
      <3>3. QED
        BY <1>1, <1>11, <3>2, TailType DEF FetchSocEvents, TypeOK
    <2>3. QED
      BY <2>1, <2>2
  <1>12. ASSUME CallListener PROVE TypeOK'
    <2>1. Head(queue) \in Jobs
      BY <1>1, <1>12, TailType DEF CallListener
    <2>2. stack' = Append(stack, Enter(Head(queue))) /\ Enter(Head(queue)) \in S
      BY <1>12, <2>1, EnterType DEF CallListener
    <2>3. QED
      BY <1>1, <1>3, <1>12, <2>2, TailType DEF CallListener, TypeOK
  <1>13. ASSUME ExecuteReturns PROVE TypeOK'
    BY <1>2, <1>13 DEF ExecuteReturns, Executing, Inv, FlagInv, Waits
  <1>14. ASSUME NEW result \in Results, DeviceEnds(result) PROVE TypeOK'
    <2>1. device \in 1 .. Len(stack) /\ stack[device] \in Uses
      BY <1>1, <1>14, UseType DEF DeviceEnds, Inv, FlagInv, Waits
    <2>2. cells' \in [Words -> Contents]
      BY <1>1, <1>14, <2>1, CompletedType DEF DeviceEnds, TypeOK
    <2>3. stack' \in Seq(S)
      <3> DEFINE e == [stack[device] EXCEPT !.own = result, !.failed = @ \/ result = "error"]
      <3>1. e \in S
        BY <2>1 DEF Uses
      <3>2. stack' = [stack EXCEPT ![device] = e] /\ stack \in Seq(S)
        BY <1>1, <1>14 DEF DeviceEnds, TypeOK
      <3> HIDE DEF e, S
      <3>3. QED
        BY <2>1, <3>1, <3>2
    <2>4. results' \in Seq(Results) /\ device' \in 0 .. Len(stack')
      BY <1>1, <1>14, <2>3 DEF DeviceEnds, TypeOK
    <2>5. /\ queue' \in Seq(Jobs \union {SoftDevice}) /\ Len(queue') <= QueueSize
          /\ halted' \in {"no", "queue", "flash"}
      BY <1>1, <1>14, PutType DEF DeviceEnds
    <2>6. QED
      BY <1>1, <1>14, <2>2, <2>3, <2>4, <2>5 DEF DeviceEnds, TypeOK
  <1>15. ASSUME Reset PROVE TypeOK'
    <2>1. cells' \in [Words -> Contents]
      BY <1>1, <1>15 DEF Reset, TypeOK
    <2>2. QED
      <3>1. device' \in 0 .. Len(stack') /\ jobs' \in 0 .. MaxJobs /\ Len(queue') <= QueueSize
        BY <1>1, <1>15, FlashAssumption DEF Reset, TypeOK
      <3>2. /\ results' = <<>> /\ pending' = FALSE /\ status' = "success" /\ queue' = <<>>
            /\ stack' = <<>> /\ halted' = halted
        BY <1>15 DEF Reset
      <3>3. \A T : <<>> \in Seq(T)
        OBVIOUS
      <3>4. status' \in Results
        BY <3>2 DEF Results
      <3>5. QED
        BY <1>1, <2>1, <3>1, <3>2, <3>3, <3>4 DEF TypeOK
  <1>16. ASSUME UNCHANGED vars PROVE TypeOK'
    BY <1>1, <1>16 DEF vars, TypeOK
  <1>17. QED
    BY <1>4, <1>5, <1>6, <1>7, <1>8, <1>9, <1>10, <1>11, <1>12, <1>13, <1>14, <1>15, <1>16
       DEF Next, MainThread, Device

-----------------------------------------------------------------------------
(* The invariant.                                                          *)

LEMMA InvStep ==
    ASSUME Inv, [Next]_vars
    PROVE  Inv'
  <1>1. TypeOK'
    BY TypeStep
  <1>2. ASSUME NEW job \in Jobs, LoopUses(job) PROVE Inv'
    <2>1. stack' = Append(stack, Enter(job))
      <3>1. Append(<<>>, Enter(job)) = <<Enter(job)>>
        OBVIOUS
      <3>2. QED
        BY <1>2, <3>1 DEF LoopUses
    <2>2. QED
      BY <1>1, <1>2, <2>1, PushUse DEF LoopUses
  <1>3. ASSUME ProcessEvent PROVE Inv'
    <2>1. stack' = Append(stack, Execution)
      BY <1>3 DEF ProcessEvent
    <2>2. QED
      BY <1>1, <1>3, <2>1, PushExecution DEF ProcessEvent
  <1>4. ASSUME NEW job \in Jobs, QueueEvent(job) PROVE Inv'
    <2>1. UNCHANGED <<cells, device, results, pending, status, stack>>
      BY <1>4 DEF QueueEvent
    <2>2. halted' # "flash"
      BY <1>4 DEF QueueEvent, Put, Inv, FlagInv
    <2>3. FlagInv'
      BY <2>1, <2>2 DEF Inv, FlagInv, Waits, IsUse
    <2>4. ResultInv' /\ AloneInv'
      BY <2>1 DEF Inv, ResultInv, AloneInv, Waits, IsUse
    <2>5. QED
      BY <1>1, <2>3, <2>4 DEF Inv
  <1>5. ASSUME Refuse PROVE Inv'
    <2>1. stack # <<>> /\ Return /\ device # Len(stack)
      BY <1>5 DEF Refuse, InCall, Inv, FlagInv, Waits, Top
    <2>2. QED
      BY <1>1, <1>5, <2>1, PopAny DEF Refuse
  <1>6. ASSUME Start PROVE Inv'
    BY <1>1, <1>6, StartStep
  <1>7. ASSUME Wait PROVE Inv'
    BY <1>1, <1>7, PushExecution DEF Wait
  <1>8. ASSUME Finish PROVE Inv'
    <2>1. /\ stack # <<>> /\ InCall("wait") /\ ~pending /\ device = 0
          /\ UNCHANGED <<cells, device, results, pending, status, halted>>
      BY <1>8 DEF Finish, InCall, Inv, FlagInv
    <2>2. CASE NextWord /\ status = "success" /\ Top.call = "write" /\ Top.word < NumWords
      BY <1>1, <2>1, <2>2, NextWordStep
    <2>3. CASE Return
      <3>1. device # Len(stack)
        BY <2>1, Pop DEF Inv
      <3>2. QED
        BY <1>1, <2>1, <2>3, <3>1, PopAny
    <2>4. QED
      BY <1>8, <2>2, <2>3 DEF Finish
  <1>9. ASSUME FetchSocEvents PROVE Inv'
    BY <1>1, <1>9, FetchSocEventsStep
  <1>10. ASSUME CallListener PROVE Inv'
    <2>1. Head(queue) \in Jobs
      BY <1>10, TailType DEF CallListener, Inv
    <2>2. QED
      BY <1>1, <1>10, <2>1, PushUse DEF CallListener
  <1>11. ASSUME ExecuteReturns PROVE Inv'
    <2>1. stack # <<>> /\ Return /\ device # Len(stack)
      BY <1>11 DEF ExecuteReturns, Executing, Inv, FlagInv, Waits
    <2>2. QED
      BY <1>1, <1>11, <2>1, PopAny DEF ExecuteReturns
  <1>12. ASSUME NEW result \in Results, DeviceEnds(result) PROVE Inv'
    BY <1>1, <1>12, DeviceEndsStep
  <1>13. ASSUME Reset PROVE Inv'
    BY <1>1, <1>13, ResetStep
  <1>14. ASSUME UNCHANGED vars PROVE Inv'
    BY <1>1, <1>14 DEF vars, Inv, FlagInv, ResultInv, AloneInv, Waits, IsUse
  <1>15. QED
    BY <1>2, <1>3, <1>4, <1>5, <1>6, <1>7, <1>8, <1>9, <1>10, <1>11, <1>12, <1>13, <1>14
       DEF Next, MainThread, Device

LEMMA Invariance == Safety => []Inv
  <1>1. Init => Inv
    BY InitType
  <1>2. Inv /\ [Next]_vars => Inv'
    BY InvStep
  <1>3. QED
    BY <1>1, <1>2, PTL DEF Safety

-----------------------------------------------------------------------------
(* The theorems.                                                           *)

(* The variables of the flash keep their types: in particular the loop of  *)
(* writePersistentObject never goes past the object.                       *)
THEOREM TypeCorrect == Safety => []TypeOK
  <1>1. Inv => TypeOK
    BY DEF Inv
  <1>2. QED
    BY <1>1, Invariance, PTL

(* The flag admits one operation at a time, and the SoftDevice refuses     *)
(* none, however deep the waiting loops of writeLong and erasePage nest.   *)
THEOREM OneOperation == Safety => []PendingTracksDevice
  <1>1. Inv => PendingTracksDevice
    BY DEF Inv, FlagInv, PendingTracksDevice
  <1>2. QED
    BY <1>1, Invariance, PTL

(* writeLong, write and erasePage judge by the result of their own         *)
(* operation unless another was started before they returned.              *)
THEOREM OwnStatus == Safety => []StatusIsOwn
  <1>1. ASSUME Inv, InCall("wait"), ~pending, ~Top.overtaken
        PROVE  status = Top.own
    <2>1. device = 0 /\ results = <<>>
      BY <1>1 DEF Inv, FlagInv
    <2>2. Len(stack) \in 1 .. Len(stack) /\ Waits(Len(stack))
      BY <1>1, Pop DEF Inv, InCall, Waits, Top
    <2>3. QED
      BY <1>1, <2>1, <2>2 DEF Inv, ResultInv, Top
  <1>2. Inv => StatusIsOwn
    BY <1>1 DEF StatusIsOwn
  <1>3. QED
    BY <1>2, Invariance, PTL

(* A lone writePersistentObject leaves a prefix of the object at every     *)
(* moment, so at a power failure too.                                      *)
THEOREM PrefixWritten == Safety => []AloneWritesInOrder
  <1>1. Inv => AloneWritesInOrder
    <2> SUFFICES ASSUME Inv, NEW k \in 1 .. Len(stack),
                        stack[k].call = "write", stack[k].alone
                 PROVE  AloneWritesInOrder!(k)!2
      BY DEF AloneWritesInOrder
    <2>1. IsUse(k)
      BY DEF IsUse
    <2>2. QED
      BY <2>1 DEF Inv, AloneInv
  <1>2. QED
    BY <1>1, Invariance, PTL
=============================================================================
