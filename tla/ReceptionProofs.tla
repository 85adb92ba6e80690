---------------------------- MODULE ReceptionProofs -------------------------
(***************************************************************************)
(* What comes in, from the analog inputs, the serial line, the radio and   *)
(* the button: each datum reaches its reader once and in order, or its     *)
(* loss is said.  Each of the four components has an invariant of its own, *)
(* which relates what the interrupts have stored to what the main thread   *)
(* has yet to take.                                                        *)
(***************************************************************************)
EXTENDS Analog, Uart, AcTransceiver, Button, WellFoundedInduction, SequenceTheorems, TLAPS

-----------------------------------------------------------------------------
(* The ADC: AdcAnswers.                                                    *)

AdcEvents == [request : Nat, value : Nat]

AdcTypeOK ==
    /\ adcSeen \in [reads : Nat, answers : Seq(AdcEvents), dropped : SUBSET Nat,
                    leftover : BOOLEAN]
    /\ adcCb \in Nat /\ adcBusy \in 0 .. adcSeen.reads /\ adcResult \in 0 .. adcSeen.reads
    /\ adcEnd \in BOOLEAN /\ adcInten \in BOOLEAN /\ adcNvic \in BOOLEAN
    /\ adcCall \in {"none", "registered", "enabled"}
    /\ adcQueue \in Seq(AdcEvents)
    /\ adcHalt \in {"no", "analogRead"}

(* The request is the newest, and it is with the converter, the queue or   *)
(* lost: never with two of them.                                           *)
OneRequest ==
    /\ adcCb = NoCallback =>
          adcCall = "none" /\ ~adcInten /\ Len(adcQueue) = 0 /\ adcSeen.dropped = {}
    /\ adcCb # NoCallback =>
          /\ adcCb = adcSeen.reads
          /\ adcCall # "registered" => adcNvic
          /\ adcInten => Len(adcQueue) = 0 /\ adcSeen.dropped = {}
          /\ ~adcInten => \/ Len(adcQueue) = 1 /\ adcQueue[1].request = adcCb /\ adcSeen.dropped = {}
                          \/ Len(adcQueue) = 0 /\ adcCb \in adcSeen.dropped
          /\ adcInten /\ adcCall = "none" => adcBusy = adcCb \/ adcEnd
    /\ adcHalt = "analogRead" => adcCb # NoCallback

AnswersInv ==
    /\ \A i \in 1 .. Len(adcSeen.answers) :
          /\ adcSeen.answers[i].request <= adcSeen.reads
          /\ adcCb # NoCallback => adcSeen.answers[i].request < adcCb
    /\ \A i, j \in 1 .. Len(adcSeen.answers) :
          i < j => adcSeen.answers[i].request < adcSeen.answers[j].request

(* As long as no analogRead has left its event set, the event and the      *)
(* result are the request's own.                                           *)
OwnResult ==
    /\ ~adcSeen.leftover =>
          /\ adcEnd \/ adcBusy # 0 => adcCb # NoCallback /\ adcInten /\ adcCall = "none"
          /\ adcEnd => adcResult = adcCb
          /\ adcBusy # 0 => adcBusy = adcCb
          /\ adcCall # "none" => adcInten
    /\ \A i \in 1 .. Len(adcSeen.answers) :
          adcSeen.answers[i].value # adcSeen.answers[i].request =>
             adcSeen.leftover /\ adcSeen.answers[i].value < adcSeen.answers[i].request
    /\ \A i \in 1 .. Len(adcQueue) :
          adcQueue[i].value # adcQueue[i].request =>
             adcSeen.leftover /\ adcQueue[i].value < adcQueue[i].request

AdcInv == AdcTypeOK /\ OneRequest /\ AnswersInv /\ OwnResult

LEMMA AdcInvInit == AnalogInit => AdcInv
  <1> SUFFICES ASSUME AnalogInit PROVE AdcInv
    OBVIOUS
  <1> USE DEF AnalogInit, NoCallback
  <1>1. Len(adcQueue) = 0 /\ Len(adcSeen.answers) = 0
    OBVIOUS
  <1>2. AdcTypeOK
    <2>1. <<>> \in Seq(AdcEvents) /\ {} \in SUBSET Nat /\ 0 \in Nat /\ 0 \in 0 .. 0
      BY EmptySeq
    <2>2. /\ adcSeen \in [reads : Nat, answers : Seq(AdcEvents), dropped : SUBSET Nat,
                          leftover : BOOLEAN]
          /\ adcSeen.reads = 0
      BY <2>1
    <2>3. QED
      BY <2>1, <2>2 DEF AdcTypeOK
  <1>3. OneRequest
    BY <1>1 DEF OneRequest
  <1>4. AnswersInv
    BY <1>1 DEF AnswersInv
  <1>5. OwnResult
    BY <1>1 DEF OwnResult
  <1>6. QED
    BY <1>2, <1>3, <1>4, <1>5 DEF AdcInv

\* numbers and flags out of the type invariant
LEMMA AdcNumbers ==
    ASSUME AdcTypeOK
    PROVE  /\ Len(adcQueue) \in Nat /\ Len(adcSeen.answers) \in Nat /\ adcSeen.reads \in Nat
           /\ adcCb \in Nat
           /\ adcBusy \in Nat /\ adcBusy <= adcSeen.reads
           /\ adcResult \in Nat /\ adcResult <= adcSeen.reads
           /\ adcEnd \in BOOLEAN /\ adcInten \in BOOLEAN /\ adcNvic \in BOOLEAN
           /\ adcSeen.leftover \in BOOLEAN
           /\ adcSeen = [reads |-> adcSeen.reads, answers |-> adcSeen.answers,
                         dropped |-> adcSeen.dropped, leftover |-> adcSeen.leftover]
           /\ adcQueue = <<>> <=> Len(adcQueue) = 0
           /\ \A i \in 1 .. Len(adcSeen.answers) : adcSeen.answers[i].request \in Nat
           /\ \A i \in 1 .. Len(adcSeen.answers) : adcSeen.answers[i].value \in Nat
  <1>0. adcSeen \in [reads : Nat, answers : Seq(AdcEvents), dropped : SUBSET Nat,
                      leftover : BOOLEAN]
    BY DEF AdcTypeOK
  <1>1. /\ adcSeen.answers \in Seq(AdcEvents) /\ adcQueue \in Seq(AdcEvents)
        /\ adcSeen.reads \in Nat /\ adcSeen.leftover \in BOOLEAN
        /\ adcSeen = [reads |-> adcSeen.reads, answers |-> adcSeen.answers,
                      dropped |-> adcSeen.dropped, leftover |-> adcSeen.leftover]
    BY <1>0 DEF AdcTypeOK
  <1>2. \A i \in 1 .. Len(adcSeen.answers) : adcSeen.answers[i] \in AdcEvents
    BY <1>1
  <1>3. Len(adcQueue) \in Nat /\ Len(adcSeen.answers) \in Nat
    BY <1>1
  <1>4. adcQueue = <<>> <=> Len(adcQueue) = 0
    BY <1>1, EmptySeq
  <1>5. \A i \in 1 .. Len(adcSeen.answers) :
           adcSeen.answers[i].request \in Nat /\ adcSeen.answers[i].value \in Nat
    BY <1>2 DEF AdcEvents
  <1>6. /\ adcBusy \in Nat /\ adcBusy <= adcSeen.reads
        /\ adcResult \in Nat /\ adcResult <= adcSeen.reads
    BY <1>1 DEF AdcTypeOK
  <1>7. QED
    BY <1>1, <1>3, <1>4, <1>5, <1>6 DEF AdcTypeOK

\* the answers given and those queued are in order and honest
LEMMA AdcInvImplies == AdcInv => AdcAnswers
  <1> SUFFICES ASSUME AdcInv PROVE AdcAnswers
    OBVIOUS
  <1> USE DEF NoCallback
  <1> DEFINE given == adcSeen.answers
             answers == given \o adcQueue
  <1>t. AdcTypeOK /\ OneRequest /\ AnswersInv /\ OwnResult
    BY DEF AdcInv
  <1>n. /\ Len(given) \in Nat /\ Len(adcQueue) \in Nat
        /\ adcQueue = <<>> <=> Len(adcQueue) = 0
    BY <1>t, AdcNumbers
  <1>1. given \in Seq(AdcEvents) /\ adcQueue \in Seq(AdcEvents)
    BY <1>t DEF AdcTypeOK
  <1>2. /\ Len(adcQueue) = 0 \/ Len(adcQueue) = 1
        /\ Len(adcQueue) = 1 => adcCb # NoCallback /\ adcQueue[1].request = adcCb
    BY <1>t DEF OneRequest
  <1>3. /\ Len(answers) = Len(given) + Len(adcQueue)
        /\ \A i \in 1 .. Len(given) : answers[i] = given[i]
        /\ \A i \in Len(given) + 1 .. Len(answers) : answers[i] = adcQueue[i - Len(given)]
    BY <1>1
  <1> HIDE DEF answers
  <1>4. \A i \in 1 .. Len(answers) :
           \/ i \in 1 .. Len(given) /\ answers[i] = given[i]
           \/ i = Len(given) + 1 /\ Len(adcQueue) = 1 /\ answers[i] = adcQueue[1]
    <2> SUFFICES ASSUME NEW i \in 1 .. Len(answers), i \notin 1 .. Len(given)
                 PROVE  i = Len(given) + 1 /\ Len(adcQueue) = 1 /\ answers[i] = adcQueue[1]
      BY <1>3
    <2>1. i = Len(given) + 1 /\ Len(adcQueue) = 1 /\ i \in Len(given) + 1 .. Len(answers)
      BY <1>n, <1>2, <1>3
    <2>2. answers[i] = adcQueue[i - Len(given)] /\ i - Len(given) = 1
      BY <1>n, <1>3, <2>1
    <2>3. QED
      BY <2>1, <2>2
  <1>5. ASSUME NEW i \in 1 .. Len(answers), NEW j \in 1 .. Len(answers), i < j
        PROVE  answers[i].request < answers[j].request
    <2>1. i \in 1 .. Len(given) /\ answers[i] = given[i]
      BY <1>n, <1>2, <1>3, <1>4, <1>5
    <2>2. CASE j \in 1 .. Len(given) /\ answers[j] = given[j]
      BY <1>t, <1>5, <2>1, <2>2 DEF AnswersInv
    <2>3. CASE Len(adcQueue) = 1 /\ answers[j] = adcQueue[1]
      BY <1>t, <1>2, <2>1, <2>3 DEF AnswersInv
    <2>4. QED
      BY <1>4, <2>2, <2>3
  <1>6. ASSUME NEW i \in 1 .. Len(answers), answers[i].value # answers[i].request
        PROVE  adcSeen.leftover /\ answers[i].value < answers[i].request
    <2>1. CASE i \in 1 .. Len(given) /\ answers[i] = given[i]
      BY <1>t, <1>6, <2>1 DEF OwnResult
    <2>2. CASE Len(adcQueue) = 1 /\ answers[i] = adcQueue[1]
      BY <1>t, <1>6, <2>2 DEF OwnResult
    <2>3. QED
      BY <1>4, <2>1, <2>2
  <1>7. ASSUME adcCb # NoCallback
        PROVE  \/ adcCall # "none" \/ adcCb \in Requests(adcQueue)
               \/ (adcBusy = adcCb /\ adcInten) \/ AdcPending
               \/ adcCb \in adcSeen.dropped
    <2>1. CASE Len(adcQueue) = 1
      <3>1. 1 \in 1 .. Len(adcQueue) /\ adcQueue[1].request = adcCb
        BY <1>2, <2>1
      <3>2. QED
        BY <3>1 DEF Requests
    <2>2. CASE Len(adcQueue) # 1
      BY <1>t, <1>7, <2>2 DEF OneRequest, AdcPending
    <2>3. QED
      BY <2>1, <2>2
  <1>8. /\ adcCb = NoCallback => adcQueue = <<>> /\ adcSeen.dropped = {}
        /\ adcHalt = "analogRead" => adcCb # NoCallback
    BY <1>t, <1>n DEF OneRequest
  <1>9. adcHalt # "handler"
    BY <1>t DEF AdcTypeOK
  <1>10. QED
    BY <1>5, <1>6, <1>7, <1>8, <1>9 DEF AdcAnswers, answers

\* each step keeps the types; the handler's check never fails
LEMMA AdcTypeStep == AdcTypeOK /\ OneRequest /\ [AnalogNext]_analogVars => AdcTypeOK'
  <1> SUFFICES ASSUME AdcTypeOK, OneRequest, [AnalogNext]_analogVars PROVE AdcTypeOK'
    OBVIOUS
  <1> USE DEF NoCallback
  <1> DEFINE with(reads, answers, dropped, leftover) ==
        [reads |-> reads, answers |-> answers, dropped |-> dropped, leftover |-> leftover]
  <1>1. /\ adcSeen.answers \in Seq(AdcEvents) /\ adcQueue \in Seq(AdcEvents)
        /\ adcSeen.dropped \in SUBSET Nat
        /\ adcSeen.reads \in Nat /\ adcSeen.leftover \in BOOLEAN
        /\ adcSeen = with(adcSeen.reads, adcSeen.answers, adcSeen.dropped, adcSeen.leftover)
    BY DEF AdcTypeOK
  <1>2. CASE AnalogRead
    <2>1. CASE adcCb # NoCallback
      BY <1>2, <2>1 DEF AnalogRead, AdcTypeOK
    <2>2. CASE adcCb = NoCallback
      <3>1. adcSeen' = with(adcSeen.reads + 1, adcSeen.answers, adcSeen.dropped, TRUE)
        BY <1>1, <1>2, <2>2 DEF AnalogRead, NewRead
      <3>2. adcSeen' \in [reads : Nat, answers : Seq(AdcEvents), dropped : SUBSET Nat,
                          leftover : BOOLEAN] /\ adcSeen'.reads = adcSeen.reads + 1
        BY <1>1, <3>1
      <3>3. adcBusy' \in 0 .. adcSeen'.reads /\ adcResult' \in 0 .. adcSeen'.reads
        BY <1>1, <1>2, <2>2, <3>2 DEF AnalogRead, NewRead
      <3>4. QED
        BY <1>2, <2>2, <3>2, <3>3 DEF AnalogRead, AdcTypeOK
    <2>3. QED
      BY <2>1, <2>2
  <1>3. CASE AsyncRegister
    <2>1. adcSeen' = with(adcSeen.reads + 1, adcSeen.answers, adcSeen.dropped, adcSeen.leftover)
      BY <1>1, <1>3 DEF AsyncRegister, NewRead
    <2>2. adcSeen' \in [reads : Nat, answers : Seq(AdcEvents), dropped : SUBSET Nat,
                        leftover : BOOLEAN] /\ adcSeen'.reads = adcSeen.reads + 1
      BY <1>1, <2>1
    <2>3. adcBusy' \in 0 .. adcSeen'.reads /\ adcResult' \in 0 .. adcSeen'.reads
      <3>1. adcBusy \in 0 .. adcSeen.reads /\ adcResult \in 0 .. adcSeen.reads
        BY DEF AdcTypeOK
      <3>2. QED
        BY <1>1, <1>3, <2>2, <3>1 DEF AsyncRegister
    <2>4. adcCb' \in Nat
      BY <1>1, <1>3 DEF AsyncRegister, NewRead
    <2>5. QED
      BY <1>3, <2>2, <2>3, <2>4 DEF AsyncRegister, AdcTypeOK
  <1>4. CASE AsyncEnable
    BY <1>4 DEF AsyncEnable, AdcTypeOK
  <1>5. CASE AsyncStart
    <2>1. adcCb # NoCallback /\ adcCb = adcSeen.reads
      BY <1>5 DEF AsyncStart, OneRequest
    <2>2. adcBusy' \in 0 .. adcSeen'.reads
      BY <1>1, <1>5, <2>1 DEF AsyncStart
    <2>3. QED
      BY <1>5, <2>2 DEF AsyncStart, AdcTypeOK
  <1>6. CASE ConversionEnds
    <2>1. adcBusy' \in 0 .. adcSeen'.reads /\ adcResult' \in 0 .. adcSeen'.reads
      BY <1>1, <1>6 DEF ConversionEnds, AdcTypeOK
    <2>2. QED
      BY <1>6, <2>1 DEF ConversionEnds, AdcTypeOK
  <1>7. CASE AdcHandler
    <2>1. adcCb # NoCallback
      BY <1>7 DEF AdcHandler, AdcPending, OneRequest
    <2>2. adcBusy' \in 0 .. adcSeen.reads /\ adcResult' \in 0 .. adcSeen.reads
      BY <1>1, <1>7, <2>1 DEF AdcHandler, AdcTypeOK
    <2>3. CASE adcQueue' = Append(adcQueue, [request |-> adcCb, value |-> adcResult]) /\ UNCHANGED adcSeen
      <3>1. [request |-> adcCb, value |-> adcResult] \in AdcEvents
        BY <1>1 DEF AdcTypeOK, AdcEvents
      <3>2. adcQueue' \in Seq(AdcEvents)
        BY <1>1, <2>3, <3>1
      <3>3. QED
        BY <1>7, <2>1, <2>2, <2>3, <3>2 DEF AdcHandler, AdcTypeOK
    <2>4. CASE adcSeen' = [adcSeen EXCEPT !.dropped = @ \union {adcCb}] /\ UNCHANGED adcQueue
      <3>1. adcSeen' = with(adcSeen.reads, adcSeen.answers, adcSeen.dropped \union {adcCb}, adcSeen.leftover)
        BY <1>1, <2>4
      <3>2. adcSeen.dropped \union {adcCb} \in SUBSET Nat
        BY <1>1 DEF AdcTypeOK
      <3>3. adcSeen' \in [reads : Nat, answers : Seq(AdcEvents), dropped : SUBSET Nat,
                          leftover : BOOLEAN] /\ adcSeen'.reads = adcSeen.reads
        BY <1>1, <3>1, <3>2
      <3>4. QED
        BY <1>7, <2>1, <2>2, <2>4, <3>3 DEF AdcHandler, AdcTypeOK
    <2>5. QED
      BY <1>7, <2>1, <2>3, <2>4 DEF AdcHandler
  <1>8. CASE AdcDispatch
    <2>1. /\ adcQueue # <<>> /\ adcCb' = 0
          /\ UNCHANGED <<adcEnd, adcInten, adcNvic, adcBusy, adcResult, adcCall, adcHalt>>
      BY <1>8 DEF AdcDispatch
    <2>2. adcQueue' \in Seq(AdcEvents) /\ Head(adcQueue) \in AdcEvents
      BY <1>1, <1>8, <2>1 DEF AdcDispatch
    <2>3. adcSeen' = with(adcSeen.reads, Append(adcSeen.answers, Head(adcQueue)), adcSeen.dropped, adcSeen.leftover)
      BY <1>1, <1>8 DEF AdcDispatch
    <2>4. Append(adcSeen.answers, Head(adcQueue)) \in Seq(AdcEvents)
      BY <1>1, <2>2
    <2>5. adcSeen' \in [reads : Nat, answers : Seq(AdcEvents), dropped : SUBSET Nat,
                        leftover : BOOLEAN] /\ adcSeen'.reads = adcSeen.reads
      BY <1>1, <2>3, <2>4
    <2>6. QED
      BY <2>1, <2>2, <2>5 DEF AdcTypeOK
  <1>9. CASE AnalogWriteResolution \/ UNCHANGED analogVars
    BY <1>9 DEF AnalogWriteResolution, analogVars, adcVars, AdcTypeOK
  <1>10. QED
    BY <1>2, <1>3, <1>4, <1>5, <1>6, <1>7, <1>8, <1>9 DEF AnalogNext

LEMMA AdcStep == AdcInv /\ [AnalogNext]_analogVars => AdcInv'
  <1> SUFFICES ASSUME AdcInv, [AnalogNext]_analogVars PROVE AdcInv'
    OBVIOUS
  <1> USE DEF NoCallback
  <1>t. AdcTypeOK /\ OneRequest /\ AnswersInv /\ OwnResult
    BY DEF AdcInv
  <1>n. /\ Len(adcQueue) \in Nat /\ Len(adcSeen.answers) \in Nat /\ adcSeen.reads \in Nat
        /\ adcCb \in Nat
        /\ adcResult \in Nat /\ adcResult <= adcSeen.reads
        /\ adcSeen = [reads |-> adcSeen.reads, answers |-> adcSeen.answers,
                      dropped |-> adcSeen.dropped, leftover |-> adcSeen.leftover]
        /\ \A i \in 1 .. Len(adcSeen.answers) : adcSeen.answers[i].request \in Nat
    BY <1>t, AdcNumbers
  <1>v. AdcTypeOK'
    BY <1>t, AdcTypeStep
  <1> SUFFICES OneRequest' /\ AnswersInv' /\ OwnResult'
    BY <1>v DEF AdcInv
  <1>1. CASE AnalogRead
    <2>1. CASE adcCb # NoCallback
      <3>1. UNCHANGED <<adcEnd, adcInten, adcBusy, adcResult, adcSeen, adcCb, adcNvic, adcCall,
                        adcQueue>>
        BY <1>1, <2>1 DEF AnalogRead
      <3>2. QED
        BY <1>t, <2>1, <3>1 DEF OneRequest, AnswersInv, OwnResult
    <2>2. CASE adcCb = NoCallback
      <3>1. /\ UNCHANGED <<adcCb, adcNvic, adcCall, adcQueue, adcHalt>>
            /\ adcInten' = FALSE /\ adcEnd' = TRUE /\ adcBusy' = 0
            /\ adcSeen' = [reads |-> adcSeen.reads + 1, answers |-> adcSeen.answers,
                           dropped |-> adcSeen.dropped, leftover |-> TRUE]
        BY <1>1, <1>n, <2>2 DEF AnalogRead, NewRead
      <3>2. OneRequest'
        BY <1>t, <2>2, <3>1 DEF OneRequest
      <3>3. AnswersInv'
        BY <1>t, <1>n, <2>2, <3>1 DEF AnswersInv
      <3>4. OwnResult'
        BY <1>t, <3>1 DEF OwnResult
      <3>5. QED
        BY <3>2, <3>3, <3>4
    <2>3. QED
      BY <2>1, <2>2
  <1>2. CASE AsyncRegister
    <2>1. /\ UNCHANGED <<adcEnd, adcNvic, adcBusy, adcResult, adcQueue, adcHalt>>
          /\ adcCb = 0 /\ adcCb' = adcSeen.reads + 1 /\ adcInten' = TRUE
          /\ adcCall' = "registered"
          /\ adcSeen' = [reads |-> adcSeen.reads + 1, answers |-> adcSeen.answers,
                         dropped |-> adcSeen.dropped, leftover |-> adcSeen.leftover]
      BY <1>2, <1>n DEF AsyncRegister, NewRead
    <2>2. OneRequest'
      BY <1>t, <1>n, <2>1 DEF OneRequest
    <2>3. AnswersInv'
      BY <1>t, <1>n, <2>1 DEF AnswersInv
    <2>4. OwnResult'
      BY <1>t, <1>n, <2>1 DEF OwnResult
    <2>5. QED
      BY <2>2, <2>3, <2>4
  <1>3. CASE AsyncEnable
    <2>1. /\ UNCHANGED <<adcCb, adcInten, adcBusy, adcResult, adcQueue, adcHalt, adcSeen>>
          /\ adcCall = "registered" /\ adcEnd' = FALSE /\ adcNvic' = TRUE /\ adcCall' = "enabled"
      BY <1>3 DEF AsyncEnable
    <2>2. QED
      BY <1>t, <2>1 DEF OneRequest, AnswersInv, OwnResult
  <1>4. CASE AsyncStart
    <2>1. /\ UNCHANGED <<adcCb, adcInten, adcNvic, adcResult, adcQueue, adcHalt, adcSeen>>
          /\ adcCall = "enabled" /\ adcEnd' = FALSE /\ adcBusy' = adcCb /\ adcCall' = "none"
          /\ adcCb # 0
      BY <1>t, <1>4 DEF AsyncStart, OneRequest
    <2>2. OneRequest' /\ AnswersInv'
      BY <1>t, <2>1 DEF OneRequest, AnswersInv
    <2>3. OwnResult'
      BY <1>t, <2>1 DEF OwnResult, OneRequest
    <2>4. QED
      BY <2>2, <2>3
  <1>5. CASE ConversionEnds
    <2>1. /\ UNCHANGED <<adcCb, adcInten, adcNvic, adcCall, adcQueue, adcHalt, adcSeen>>
          /\ adcBusy # 0 /\ adcEnd' = TRUE /\ adcResult' = adcBusy /\ adcBusy' = 0
      BY <1>5 DEF ConversionEnds
    <2>2. QED
      BY <1>t, <2>1 DEF OneRequest, AnswersInv, OwnResult
  <1>6. CASE AdcHandler
    <2>0. adcEnd /\ adcInten /\ adcNvic /\ adcCb # 0 /\ Len(adcQueue) = 0 /\ adcSeen.dropped = {}
      BY <1>6, <1>t DEF AdcHandler, AdcPending, OneRequest
    <2>1. /\ UNCHANGED <<adcCb, adcNvic, adcResult, adcCall, adcHalt>>
          /\ adcEnd' = FALSE /\ adcInten' = FALSE /\ adcBusy' = 0
      BY <1>6, <2>0 DEF AdcHandler
    <2> DEFINE e == [request |-> adcCb, value |-> adcResult]
    <2>2. CASE adcQueue' = Append(adcQueue, e) /\ UNCHANGED adcSeen
      <3>1. Len(adcQueue') = 1 /\ adcQueue'[1] = e
        BY <1>t, <2>0, <2>2 DEF AdcTypeOK
      <3>2. e.value # e.request => adcSeen.leftover /\ e.value < e.request
        BY <1>t, <1>n, <2>0 DEF OwnResult, OneRequest
      <3> HIDE DEF e
      <3>3. e.request = adcCb
        BY DEF e
      <3>4. OneRequest'
        BY <1>t, <2>0, <2>1, <2>2, <3>1, <3>3 DEF OneRequest
      <3>5. AnswersInv'
        BY <1>t, <2>1, <2>2 DEF AnswersInv
      <3>6. OwnResult'
        BY <1>t, <2>0, <2>1, <2>2, <3>1, <3>2 DEF OwnResult
      <3>7. QED
        BY <3>4, <3>5, <3>6
    <2>3. CASE adcSeen' = [adcSeen EXCEPT !.dropped = @ \union {adcCb}] /\ UNCHANGED adcQueue
      <3>1. adcSeen' = [reads |-> adcSeen.reads, answers |-> adcSeen.answers,
                        dropped |-> {adcCb}, leftover |-> adcSeen.leftover]
        BY <1>n, <2>0, <2>3
      <3>2. OneRequest'
        BY <1>t, <2>0, <2>1, <2>3, <3>1 DEF OneRequest
      <3>3. AnswersInv' /\ OwnResult'
        BY <1>t, <2>0, <2>1, <2>3, <3>1 DEF AnswersInv, OwnResult
      <3>4. QED
        BY <3>2, <3>3
    <2>4. QED
      BY <1>6, <2>0, <2>2, <2>3 DEF AdcHandler
  <1>7. CASE AdcDispatch
    <2> DEFINE e == adcQueue[1]
    <2>0. adcQueue # <<>> /\ adcCall = "none" /\ adcQueue' = Tail(adcQueue) /\ adcHalt = "no"
      BY <1>7 DEF AdcDispatch, AdcMain
    <2>1. /\ Len(adcQueue) = 1 /\ adcCb # 0 /\ ~adcInten /\ adcSeen.dropped = {}
          /\ e.request = adcCb /\ adcCb = adcSeen.reads
      BY <1>t, <2>0, AdcNumbers DEF OneRequest
    <2>2. /\ UNCHANGED <<adcEnd, adcInten, adcNvic, adcBusy, adcResult, adcCall, adcHalt>>
          /\ adcCb' = 0
          /\ adcSeen' = [reads |-> adcSeen.reads, answers |-> Append(adcSeen.answers, Head(adcQueue)),
                         dropped |-> adcSeen.dropped, leftover |-> adcSeen.leftover]
      BY <1>7, <1>n DEF AdcDispatch
    <2>3. /\ Len(adcSeen'.answers) = Len(adcSeen.answers) + 1
          /\ \A i \in 1 .. Len(adcSeen.answers) : adcSeen'.answers[i] = adcSeen.answers[i]
          /\ adcSeen'.answers[Len(adcSeen.answers) + 1] = e
          /\ Len(adcQueue') = 0
      <3>1. adcSeen.answers \in Seq(AdcEvents) /\ adcQueue \in Seq(AdcEvents)
        BY <1>t DEF AdcTypeOK
      <3>2. Head(adcQueue) = e /\ Len(Tail(adcQueue)) = 0 /\ e \in AdcEvents
        BY <2>0, <2>1, <3>1
      <3>3. QED
        BY <2>0, <2>2, <3>1, <3>2
    <2>4. \A i \in 1 .. Len(adcSeen'.answers) :
             \/ i \in 1 .. Len(adcSeen.answers) /\ adcSeen'.answers[i] = adcSeen.answers[i]
             \/ i = Len(adcSeen.answers) + 1 /\ adcSeen'.answers[i] = e
      BY <1>n, <2>3
    <2>5. OneRequest'
      BY <1>t, <2>0, <2>1, <2>2, <2>3 DEF OneRequest
    <2>6. AnswersInv'
      BY <1>t, <1>n, <2>1, <2>2, <2>4 DEF AnswersInv
    <2>7. e.value # e.request => adcSeen.leftover /\ e.value < e.request
      BY <1>t, <2>1 DEF OwnResult
    <2>8. OwnResult'
      BY <1>t, <1>n, <2>1, <2>2, <2>3, <2>4, <2>7 DEF OwnResult
    <2>9. QED
      BY <2>5, <2>6, <2>8
  <1>8. CASE AnalogWriteResolution \/ UNCHANGED analogVars
    <2>1. UNCHANGED adcVars
      BY <1>8 DEF AnalogWriteResolution, analogVars
    <2>2. QED
      BY <1>t, <2>1 DEF adcVars, OneRequest, AnswersInv, OwnResult
  <1>9. QED
    BY <1>1, <1>2, <1>3, <1>4, <1>5, <1>6, <1>7, <1>8 DEF AnalogNext

(* Every request is answered at most once, in order, with the result of    *)
(* its own conversion unless an analogRead has left its event set, and is  *)
(* never forgotten but by a full queue: for any number of conversions and  *)
(* of places in the queue.                                                 *)
THEOREM AdcAnswersAlways == AnalogSpec => []AdcAnswers
  <1>1. AnalogSpec => []AdcInv
    BY AdcInvInit, AdcStep, PTL DEF AnalogSpec
  <1>2. QED
    BY <1>1, AdcInvImplies, PTL

-----------------------------------------------------------------------------
(* The UART: SerialInOrder.                                                *)

SeenType ==
    [came : Nat, sent : Nat, begins : Nat, got : Seq(Nat), bad : SUBSET Nat,
     discarded : SUBSET Nat, refused : SUBSET Nat, backlog : BOOLEAN, blind : BOOLEAN,
     again : BOOLEAN, cut : BOOLEAN]

UartTypeOK ==
    /\ uartState \in {"notStart", "beforeFirstTX", "afterFirstTX"}
    /\ rxOn \in BOOLEAN /\ irqOn \in BOOLEAN
    /\ fifo \in Seq(Nat) /\ rxdrdy \in BOOLEAN /\ errorsrc \subseteq {"overrun", "framing"}
    /\ irqByte \in Nat
    /\ rxBuff \in [0 .. BuffSize - 1 -> Nat]
    /\ rxHead \in 0 .. BuffSize - 1 /\ rxTail \in 0 .. BuffSize - 1
    /\ uartCall \in {"none", "begin", "read"}
    /\ txByte \in BOOLEAN /\ txdrdy \in BOOLEAN
    /\ uartSeen \in SeenType

\* the byte that read has looked at is still in the ring
LooksAtByte == uartCall = "read" => Unread > 0

Lost == uartSeen.discarded \union uartSeen.refused
Done(n) == n \in Lost \/ \E i \in 1 .. Len(Delivered) : Delivered[i] = n

(* A byte that comes is later than all, one in the FIFO than the one that  *)
(* the handler has, and that one than all that it has stored, discarded or *)
(* refused.                                                                *)
ArrivalInv ==
    /\ \A i, j \in 1 .. Len(fifo) : i < j => fifo[i] < fifo[j]
    /\ \A j \in 1 .. Len(fifo) : /\ 0 < fifo[j] /\ fifo[j] <= uartSeen.came
                                 /\ irqByte < fifo[j]
    /\ irqByte <= uartSeen.came
    /\ \A i, j \in 1 .. Len(Delivered) : i < j => Delivered[i] < Delivered[j]
    /\ \A n \in Nat : Done(n) =>
          /\ n <= uartSeen.came
          /\ irqByte # 0 => n < irqByte
          /\ \A j \in 1 .. Len(fifo) : n < fifo[j]
    /\ \A i \in 1 .. Len(Delivered) : Delivered[i] \notin Lost

\* the byte, if any, that is neither delivered nor lost
Pending(n) == (irqByte # 0 /\ n = irqByte) \/ (irqByte = 0 /\ Len(fifo) > 0 /\ n = fifo[1])

(* Without a backlog the error flags are those of the only byte under way. *)
ErrorInv ==
    /\ uartSeen.bad \subseteq 0 .. uartSeen.came
    /\ ~uartSeen.backlog =>
          /\ Len(fifo) <= 1 /\ (irqByte # 0 => Len(fifo) = 0)
          /\ irqByte = 0 /\ Len(fifo) = 0 => errorsrc = {}
          /\ \A n \in Nat : Pending(n) =>
                errorsrc = IF n \in uartSeen.bad THEN {"framing"} ELSE {}
          /\ uartSeen.discarded \subseteq uartSeen.bad
          /\ \A i \in 1 .. Len(Delivered) : Delivered[i] \notin uartSeen.bad

EventInv == irqOn /\ fifo # <<>> => rxdrdy \/ uartSeen.blind

(* Only after a begin without an end is the UART taken for idle while it   *)
(* sends.                                                                  *)
SendInv ==
    ~uartSeen.again =>
       /\ ~uartSeen.cut
       /\ txByte => uartState = "afterFirstTX" /\ ~txdrdy
       /\ uartCall = "begin" => ~txByte

UartInv == UartTypeOK /\ LooksAtByte /\ ArrivalInv /\ ErrorInv /\ EventInv /\ SendInv

-----------------------------------------------------------------------------
(* The ring between the handler and the main thread.                       *)
LEMMA WrapsOnce ==
  ASSUME NEW b \in Nat \ {0}, NEW a \in 0 .. 2 * b - 1
  PROVE  a % b = IF a < b THEN a ELSE a - b
OBVIOUS

LEMMA UnreadIs ==
  ASSUME NEW head \in 0 .. BuffSize - 1, NEW tail \in 0 .. BuffSize - 1
  PROVE  /\ (BuffSize + head - tail) % BuffSize =
               IF tail <= head THEN head - tail ELSE BuffSize + head - tail
         /\ (head + 1) % BuffSize = IF head + 1 = BuffSize THEN 0 ELSE head + 1
         /\ \A i \in 1 .. BuffSize : (tail + i - 1) % BuffSize =
               IF tail + i - 1 < BuffSize THEN tail + i - 1 ELSE (tail + i - 1) - BuffSize
<1>0. BuffSize \in Nat \ {0} BY UartAssumption
<1>1. BuffSize + head - tail \in 0 .. 2 * BuffSize - 1 BY <1>0
<1>2. (BuffSize + head - tail) % BuffSize =
         IF BuffSize + head - tail < BuffSize THEN BuffSize + head - tail
         ELSE (BuffSize + head - tail) - BuffSize
  BY <1>0, <1>1, WrapsOnce
<1>3. (BuffSize + head - tail) % BuffSize =
         IF tail <= head THEN head - tail ELSE BuffSize + head - tail
  BY <1>0, <1>2
<1>4. head + 1 \in 0 .. 2 * BuffSize - 1 BY <1>0
<1>5. (head + 1) % BuffSize = IF head + 1 < BuffSize THEN head + 1 ELSE (head + 1) - BuffSize
  BY <1>0, <1>4, WrapsOnce
<1>6. (head + 1) % BuffSize = IF head + 1 = BuffSize THEN 0 ELSE head + 1 BY <1>0, <1>5
<1>7. ASSUME NEW i \in 1 .. BuffSize
      PROVE  (tail + i - 1) % BuffSize =
               IF tail + i - 1 < BuffSize THEN tail + i - 1 ELSE (tail + i - 1) - BuffSize
  <2>1. tail + i - 1 \in 0 .. 2 * BuffSize - 1 BY <1>0
  <2> DEFINE a == tail + i - 1
  <2> HIDE DEF a
  <2>2. a % BuffSize = IF a < BuffSize THEN a ELSE a - BuffSize BY <1>0, <2>1, WrapsOnce DEF a
  <2>. QED BY <2>2 DEF a
<1>. QED BY <1>3, <1>6, <1>7

RingTypeOK ==
    /\ rxBuff \in [0 .. BuffSize - 1 -> Nat]
    /\ rxHead \in 0 .. BuffSize - 1 /\ rxTail \in 0 .. BuffSize - 1

LEMMA RingHolds ==
  ASSUME NEW buff \in [0 .. BuffSize - 1 -> Nat],
         NEW head \in 0 .. BuffSize - 1, NEW tail \in 0 .. BuffSize - 1
  PROVE  LET unread == (BuffSize + head - tail) % BuffSize
             bytes == [i \in 1 .. unread |-> buff[(tail + i - 1) % BuffSize]]
         IN  /\ unread \in 0 .. BuffSize - 1
             /\ bytes \in Seq(Nat) /\ Len(bytes) = unread
             /\ \A i \in 1 .. unread : /\ (tail + i - 1) % BuffSize \in 0 .. BuffSize - 1
                                       /\ (tail + i - 1) % BuffSize # head
                                       /\ bytes[i] = buff[(tail + i - 1) % BuffSize]
<1> DEFINE unread == (BuffSize + head - tail) % BuffSize
           bytes == [i \in 1 .. unread |-> buff[(tail + i - 1) % BuffSize]]
<1>0. BuffSize \in Nat \ {0} BY UartAssumption
<1>1. unread = IF tail <= head THEN head - tail ELSE BuffSize + head - tail BY UnreadIs
<1> HIDE DEF unread
<1>2. unread \in 0 .. BuffSize - 1 BY <1>0, <1>1
<1>3. ASSUME NEW i \in 1 .. unread
      PROVE  /\ (tail + i - 1) % BuffSize \in 0 .. BuffSize - 1
             /\ (tail + i - 1) % BuffSize # head
  <2>1. i \in 1 .. BuffSize BY <1>2, <1>0
  <2>2. (tail + i - 1) % BuffSize =
               IF tail + i - 1 < BuffSize THEN tail + i - 1 ELSE (tail + i - 1) - BuffSize
    BY <2>1, UnreadIs
  <2> DEFINE slot == (tail + i - 1) % BuffSize
             place == tail + i - 1
  <2>3. place \in Nat /\ slot = IF place < BuffSize THEN place ELSE place - BuffSize
    BY <2>1, <2>2
  <2> HIDE DEF slot
  <2>6. slot \in 0 .. BuffSize - 1 /\ slot # head
    <3>1. CASE tail <= head BY <2>3, <3>1, <1>0, <1>1, <2>1
    <3>2. CASE ~(tail <= head) BY <2>3, <3>2, <1>0, <1>1, <2>1
    <3>. QED BY <3>1, <3>2
  <2>. QED BY <2>6 DEF slot
<1>4. \A i \in 1 .. unread : buff[(tail + i - 1) % BuffSize] \in Nat BY <1>3
<1>5. bytes \in [1 .. unread -> Nat] BY <1>4
<1>6. bytes \in Seq(Nat) /\ Len(bytes) = unread
  <2>1. unread \in Nat BY <1>2
  <2> HIDE DEF bytes
  <2>. QED BY <2>1, <1>5
<1>7. \A i \in 1 .. unread : bytes[i] = buff[(tail + i - 1) % BuffSize] OBVIOUS
<1> HIDE DEF bytes
<1>8. /\ unread \in 0 .. BuffSize - 1
      /\ bytes \in Seq(Nat) /\ Len(bytes) = unread
      /\ \A i \in 1 .. unread : /\ (tail + i - 1) % BuffSize \in 0 .. BuffSize - 1
                                /\ (tail + i - 1) % BuffSize # head
                                /\ bytes[i] = buff[(tail + i - 1) % BuffSize]
  BY <1>2, <1>3, <1>6, <1>7
<1>. QED BY <1>8 DEF unread, bytes

LEMMA WaitingIsSeq ==
  ASSUME RingTypeOK
  PROVE  /\ Unread \in 0 .. BuffSize - 1
         /\ Waiting \in Seq(Nat) /\ Len(Waiting) = Unread
         /\ \A i \in 1 .. Unread : /\ (rxTail + i - 1) % BuffSize \in 0 .. BuffSize - 1
                                   /\ (rxTail + i - 1) % BuffSize # rxHead
                                   /\ Waiting[i] = rxBuff[(rxTail + i - 1) % BuffSize]
  BY RingHolds DEF RingTypeOK, Unread, Waiting

LEMMA WaitingIsSeqNext ==
  ASSUME RingTypeOK'
  PROVE  /\ Unread' \in 0 .. BuffSize - 1
         /\ Waiting' \in Seq(Nat) /\ Len(Waiting') = Unread'
         /\ \A i \in 1 .. Unread' : Waiting'[i] = rxBuff'[(rxTail' + i - 1) % BuffSize]
<1> DEFINE unread == (BuffSize + rxHead' - rxTail') % BuffSize
           bytes == [i \in 1 .. unread |-> rxBuff'[(rxTail' + i - 1) % BuffSize]]
<1>1. /\ rxBuff' \in [0 .. BuffSize - 1 -> Nat]
      /\ rxHead' \in 0 .. BuffSize - 1 /\ rxTail' \in 0 .. BuffSize - 1
  BY DEF RingTypeOK
<1>2. /\ unread \in 0 .. BuffSize - 1
      /\ bytes \in Seq(Nat) /\ Len(bytes) = unread
      /\ \A i \in 1 .. unread : /\ (rxTail' + i - 1) % BuffSize \in 0 .. BuffSize - 1
                                /\ (rxTail' + i - 1) % BuffSize # rxHead'
                                /\ bytes[i] = rxBuff'[(rxTail' + i - 1) % BuffSize]
  BY <1>1, RingHolds
<1>3. Unread' = unread /\ Waiting' = bytes BY DEF Unread, Waiting
<1>. QED BY <1>2, <1>3

LEMMA WaitingStored ==
  ASSUME RingTypeOK, irqByte \in Nat, NextHead # rxTail,
         rxBuff' = [rxBuff EXCEPT ![rxHead] = irqByte], rxHead' = NextHead, rxTail' = rxTail
  PROVE  RingTypeOK' /\ Unread' = Unread + 1 /\ Waiting' = Append(Waiting, irqByte)
<1>0. /\ rxHead \in 0 .. BuffSize - 1 /\ rxTail \in 0 .. BuffSize - 1
      /\ rxBuff \in [0 .. BuffSize - 1 -> Nat] /\ BuffSize \in Nat \ {0}
  BY UartAssumption DEF RingTypeOK
<1>1. rxHead' = IF rxHead + 1 = BuffSize THEN 0 ELSE rxHead + 1
  BY <1>0, UnreadIs DEF NextHead
<1>2. RingTypeOK' BY <1>0, <1>1 DEF RingTypeOK
<1>3. Unread = IF rxTail <= rxHead THEN rxHead - rxTail ELSE BuffSize + rxHead - rxTail
  BY <1>0, UnreadIs DEF Unread
<1>4. Unread' = IF rxTail <= rxHead' THEN rxHead' - rxTail ELSE BuffSize + rxHead' - rxTail
  <2>1. rxHead' \in 0 .. BuffSize - 1 BY <1>0, <1>1
  <2>. QED BY <1>0, <2>1, UnreadIs DEF Unread
<1>5. Unread' = Unread + 1 BY <1>0, <1>1, <1>3, <1>4
<1>6. /\ Unread \in 0 .. BuffSize - 1 /\ Waiting \in Seq(Nat) /\ Len(Waiting) = Unread
      /\ \A i \in 1 .. Unread : /\ (rxTail + i - 1) % BuffSize \in 0 .. BuffSize - 1
                                /\ (rxTail + i - 1) % BuffSize # rxHead
                                /\ Waiting[i] = rxBuff[(rxTail + i - 1) % BuffSize]
  BY WaitingIsSeq
<1>7. /\ Waiting' \in Seq(Nat) /\ Len(Waiting') = Unread'
      /\ \A i \in 1 .. Unread' : Waiting'[i] = rxBuff'[(rxTail' + i - 1) % BuffSize]
  BY <1>2, WaitingIsSeqNext
<1>8. /\ Append(Waiting, irqByte) \in Seq(Nat) /\ Len(Append(Waiting, irqByte)) = Unread + 1
      /\ \A i \in 1 .. Unread : Append(Waiting, irqByte)[i] = Waiting[i]
      /\ Append(Waiting, irqByte)[Unread + 1] = irqByte
  BY <1>6, AppendProperties
<1>9. ASSUME NEW i \in 1 .. Unread + 1 PROVE Waiting'[i] = Append(Waiting, irqByte)[i]
  <2>1. Waiting'[i] = rxBuff'[(rxTail + i - 1) % BuffSize] BY <1>5, <1>7
  <2>2. CASE i \in 1 .. Unread
    <3>1. rxBuff'[(rxTail + i - 1) % BuffSize] = rxBuff[(rxTail + i - 1) % BuffSize]
      BY <1>0, <1>6, <2>2
    <3>. QED BY <2>1, <2>2, <3>1, <1>6, <1>8
  <2>3. CASE i = Unread + 1
    <3>1. i \in 1 .. BuffSize BY <1>6, <2>3, <1>0
    <3>2. (rxTail + i - 1) % BuffSize =
             IF rxTail + i - 1 < BuffSize THEN rxTail + i - 1 ELSE (rxTail + i - 1) - BuffSize
      BY <1>0, <3>1, UnreadIs
    <3>3. (rxTail + i - 1) % BuffSize = rxHead BY <3>2, <2>3, <1>3, <1>0
    <3>4. rxBuff'[rxHead] = irqByte BY <1>0
    <3>. QED BY <2>1, <3>3, <3>4, <1>8, <2>3
  <2>. QED BY <2>2, <2>3, <1>6
<1>10. Waiting' = Append(Waiting, irqByte) BY <1>5, <1>7, <1>8, <1>9, SeqEqual
<1>. QED BY <1>2, <1>5, <1>10

LEMMA WaitingMoved ==
  ASSUME RingTypeOK, Unread > 0,
         rxTail' = (rxTail + 1) % BuffSize, UNCHANGED <<rxBuff, rxHead>>
  PROVE  RingTypeOK' /\ Waiting' = Tail(Waiting)
<1>0. /\ rxHead \in 0 .. BuffSize - 1 /\ rxTail \in 0 .. BuffSize - 1
      /\ rxBuff \in [0 .. BuffSize - 1 -> Nat] /\ BuffSize \in Nat \ {0}
  BY UartAssumption DEF RingTypeOK
<1>1. rxTail' = IF rxTail + 1 = BuffSize THEN 0 ELSE rxTail + 1
  BY <1>0, UnreadIs
<1>2. RingTypeOK' BY <1>0, <1>1 DEF RingTypeOK
<1>3. Unread = IF rxTail <= rxHead THEN rxHead - rxTail ELSE BuffSize + rxHead - rxTail
  BY <1>0, UnreadIs DEF Unread
<1>4. Unread' = IF rxTail' <= rxHead THEN rxHead - rxTail' ELSE BuffSize + rxHead - rxTail'
  <2>1. rxTail' \in 0 .. BuffSize - 1 BY <1>0, <1>1
  <2>. QED BY <1>0, <2>1, UnreadIs DEF Unread
<1>5. Unread' = Unread - 1 BY <1>0, <1>1, <1>3, <1>4
<1>6. /\ Unread \in 0 .. BuffSize - 1 /\ Waiting \in Seq(Nat) /\ Len(Waiting) = Unread
      /\ \A i \in 1 .. Unread : Waiting[i] = rxBuff[(rxTail + i - 1) % BuffSize]
  BY WaitingIsSeq
<1>7. /\ Waiting' \in Seq(Nat) /\ Len(Waiting') = Unread'
      /\ \A i \in 1 .. Unread' : Waiting'[i] = rxBuff'[(rxTail' + i - 1) % BuffSize]
  BY <1>2, WaitingIsSeqNext
<1>8. /\ Tail(Waiting) \in Seq(Nat) /\ Len(Tail(Waiting)) = Unread - 1
      /\ \A i \in 1 .. Unread - 1 : Tail(Waiting)[i] = Waiting[i + 1]
  <2>1. Waiting # <<>> BY <1>6, EmptySeq
  <2>. QED BY <2>1, <1>6, HeadTailProperties
<1>9. ASSUME NEW i \in 1 .. Unread - 1 PROVE Waiting'[i] = Tail(Waiting)[i]
  <2>1. i \in 1 .. BuffSize /\ i + 1 \in 1 .. BuffSize /\ i + 1 \in 1 .. Unread
    BY <1>0, <1>6
  <2>2. rxTail' \in 0 .. BuffSize - 1 BY <1>0, <1>1
  <2>3. (rxTail' + i - 1) % BuffSize =
             IF rxTail' + i - 1 < BuffSize THEN rxTail' + i - 1 ELSE (rxTail' + i - 1) - BuffSize
    BY <1>0, <2>1, <2>2, UnreadIs
  <2>4. (rxTail + (i + 1) - 1) % BuffSize =
             IF rxTail + (i + 1) - 1 < BuffSize THEN rxTail + (i + 1) - 1
             ELSE (rxTail + (i + 1) - 1) - BuffSize
    BY <1>0, <2>1, UnreadIs
  <2>5. (rxTail' + i - 1) % BuffSize = (rxTail + (i + 1) - 1) % BuffSize
    <3>1. rxTail \in Nat /\ i \in Nat /\ rxTail < BuffSize /\ i < BuffSize BY <1>0, <1>6
    <3>2. CASE rxTail + 1 = BuffSize BY <3>1, <3>2, <1>0, <1>1, <2>3, <2>4
    <3>3. CASE rxTail + 1 # BuffSize
      <4>1. rxTail' + i - 1 = rxTail + (i + 1) - 1 BY <3>1, <3>3, <1>1
      <4>. QED BY <4>1
    <3>. QED BY <3>2, <3>3
  <2>6. Waiting'[i] = rxBuff[(rxTail' + i - 1) % BuffSize] BY <1>5, <1>7
  <2>7. Waiting[i + 1] = rxBuff[(rxTail + (i + 1) - 1) % BuffSize] BY <1>6, <2>1
  <2>. QED BY <2>5, <2>6, <2>7, <1>8
<1>10. Waiting' = Tail(Waiting) BY <1>5, <1>7, <1>8, <1>9, SeqEqual
<1>. QED BY <1>2, <1>10

-----------------------------------------------------------------------------
(* The bytes read, and those that will be.                                 *)
LEMMA LooksAtOldest ==
  ASSUME NEW s \in Seq(Nat), NEW w \in Seq(Nat), w # <<>>
  PROVE  Append(s, Head(w)) \o Tail(w) = s \o w
<1> DEFINE l == Append(s, Head(w)) \o Tail(w)
           r == s \o w
<1>1. /\ Head(w) \in Nat /\ Tail(w) \in Seq(Nat) /\ Len(Tail(w)) = Len(w) - 1
      /\ \A i \in 1 .. Len(Tail(w)) : Tail(w)[i] = w[i + 1]
      /\ Head(w) = w[1] /\ Len(w) \in Nat /\ Len(w) > 0 /\ Len(s) \in Nat
  BY HeadTailProperties, LenProperties, EmptySeq
<1>2. /\ Append(s, Head(w)) \in Seq(Nat) /\ Len(Append(s, Head(w))) = Len(s) + 1
      /\ \A i \in 1 .. Len(s) : Append(s, Head(w))[i] = s[i]
      /\ Append(s, Head(w))[Len(s) + 1] = Head(w)
  BY <1>1, AppendProperties
<1>3. /\ l \in Seq(Nat) /\ Len(l) = Len(s) + Len(w)
      /\ \A i \in 1 .. Len(s) + Len(w) :
            l[i] = IF i <= Len(s) + 1 THEN Append(s, Head(w))[i] ELSE Tail(w)[i - (Len(s) + 1)]
  <2>1. /\ l \in Seq(Nat) /\ Len(l) = Len(Append(s, Head(w))) + Len(Tail(w))
        /\ \A i \in 1 .. Len(Append(s, Head(w))) + Len(Tail(w)) :
              l[i] = IF i <= Len(Append(s, Head(w))) THEN Append(s, Head(w))[i]
                     ELSE Tail(w)[i - Len(Append(s, Head(w)))]
    BY <1>1, <1>2, ConcatProperties
  <2>2. Len(Append(s, Head(w))) + Len(Tail(w)) = Len(s) + Len(w) BY <1>1, <1>2
  <2>. QED BY <2>1, <2>2, <1>2
<1>4. /\ r \in Seq(Nat) /\ Len(r) = Len(s) + Len(w)
      /\ \A i \in 1 .. Len(s) + Len(w) : r[i] = IF i <= Len(s) THEN s[i] ELSE w[i - Len(s)]
  BY ConcatProperties
<1> HIDE DEF l, r
<1>5. ASSUME NEW i \in 1 .. Len(s) + Len(w) PROVE l[i] = r[i]
  <2>1. CASE i <= Len(s)
    <3>1. i \in 1 .. Len(s) /\ i <= Len(s) + 1 BY <2>1, <1>1
    <3>2. l[i] = Append(s, Head(w))[i] /\ r[i] = s[i] BY <2>1, <3>1, <1>3, <1>4
    <3>. QED BY <3>1, <3>2, <1>2
  <2>2. CASE i = Len(s) + 1
    <3>1. l[i] = Append(s, Head(w))[i]
      <4>1. i <= Len(s) + 1 BY <2>2, <1>1
      <4>. QED BY <4>1, <1>3
    <3>2. ~(i <= Len(s)) /\ i - Len(s) = 1 BY <2>2, <1>1
    <3>3. r[i] = w[i - Len(s)] BY <3>2, <1>4
    <3>. QED BY <2>2, <3>1, <3>2, <3>3, <1>1, <1>2
  <2>3. CASE i > Len(s) + 1
    <3>1. i - (Len(s) + 1) \in 1 .. Len(Tail(w)) /\ (i - (Len(s) + 1)) + 1 = i - Len(s)
      BY <2>3, <1>1
    <3>2. l[i] = Tail(w)[i - (Len(s) + 1)] BY <2>3, <1>1, <1>3
    <3>3. Tail(w)[i - (Len(s) + 1)] = w[(i - (Len(s) + 1)) + 1] BY <3>1, <1>1
    <3>4. r[i] = w[i - Len(s)] BY <2>3, <1>1, <1>4
    <3>. QED BY <3>1, <3>2, <3>3, <3>4
  <2>. QED BY <2>1, <2>2, <2>3, <1>1
<1>. QED BY <1>3, <1>4, <1>5, SeqEqual DEF l, r

LEMMA AppendedLater ==
  ASSUME NEW s \in Seq(Nat), NEW w \in Seq(Nat), NEW e \in Nat
  PROVE  s \o Append(w, e) = Append(s \o w, e)
<1>1. Append(w, e) = w \o <<e>> BY AppendIsConcat
<1>2. s \o w \in Seq(Nat) BY ConcatProperties
<1>3. Append(s \o w, e) = (s \o w) \o <<e>> BY <1>2, AppendIsConcat
<1>4. <<e>> \in Seq(Nat) OBVIOUS
<1>. QED BY <1>1, <1>3, <1>4, ConcatAssociative

UartSeq == uartSeen.got \in Seq(Nat) /\ RingTypeOK /\ irqByte \in Nat

LEMMA BehindIsSeq ==
  ASSUME UartSeq
  PROVE  /\ Behind \in Seq(Nat) /\ Delivered \in Seq(Nat)
         /\ uartCall = "read" /\ Unread > 0 => Behind = Tail(Waiting) /\ Waiting # <<>>
         /\ uartCall # "read" => Behind = Waiting
         /\ Unread = 0 => Waiting = <<>> /\ Behind = <<>>
<1>1. Waiting \in Seq(Nat) /\ Len(Waiting) = Unread /\ Unread \in Nat
  BY WaitingIsSeq DEF UartSeq
<1>2. Waiting # <<>> <=> Unread > 0 BY <1>1, EmptySeq
<1>3. Behind \in Seq(Nat)
  <2>1. Waiting # <<>> => Tail(Waiting) \in Seq(Nat) BY <1>1, HeadTailProperties
  <2>. QED BY <2>1, <1>1 DEF Behind
<1>4. Delivered \in Seq(Nat) BY <1>3, ConcatProperties DEF Delivered, UartSeq
<1>5. Unread = 0 => Waiting = <<>>
  <2>1. Unread = 0 => ~(Unread > 0) OBVIOUS
  <2>. QED BY <2>1, <1>2
<1>. QED BY <1>2, <1>3, <1>4, <1>5 DEF Behind

LEMMA StoredIsDelivered ==
  ASSUME UartSeq, LooksAtByte, NextHead # rxTail,
         rxBuff' = [rxBuff EXCEPT ![rxHead] = irqByte], rxHead' = NextHead,
         UNCHANGED <<rxTail, uartCall, uartSeen>>
  PROVE  Delivered' = Append(Delivered, irqByte) /\ LooksAtByte' /\ RingTypeOK'
<1>1. RingTypeOK' /\ Unread' = Unread + 1 /\ Waiting' = Append(Waiting, irqByte)
  BY WaitingStored DEF UartSeq
<1>2. Waiting \in Seq(Nat) /\ Len(Waiting) = Unread /\ Unread \in Nat
  BY WaitingIsSeq DEF UartSeq
<1>3. /\ Behind \in Seq(Nat)
      /\ uartCall = "read" /\ Unread > 0 => Behind = Tail(Waiting) /\ Waiting # <<>>
      /\ uartCall # "read" => Behind = Waiting
  BY BehindIsSeq
<1>4. Behind' = Append(Behind, irqByte)
  <2>1. CASE uartCall = "read"
    <3>1. Unread > 0 BY <2>1 DEF LooksAtByte
    <3>2. Waiting' # <<>> BY <1>1, <1>2, AppendProperties DEF UartSeq
    <3>3. Behind' = Tail(Append(Waiting, irqByte)) BY <3>2, <2>1, <1>1 DEF Behind
    <3>. QED BY <3>1, <3>3, <2>1, <1>2, <1>3, HeadTailAppend
  <2>2. CASE uartCall # "read" BY <2>2, <1>1, <1>3 DEF Behind
  <2>. QED BY <2>1, <2>2
<1>5. uartSeen.got \o Append(Behind, irqByte) = Append(uartSeen.got \o Behind, irqByte)
  BY <1>3, AppendedLater DEF UartSeq
<1>6. LooksAtByte' BY <1>1, <1>2 DEF LooksAtByte
<1>. QED BY <1>1, <1>4, <1>5, <1>6 DEF Delivered

LEMMA LookedAtIsDelivered ==
  ASSUME UartSeq, ReadLooks, uartSeen'.got = Append(uartSeen.got, rxBuff[rxTail])
  PROVE  Delivered' = Delivered /\ LooksAtByte' /\ rxBuff[rxTail] \in Nat
<1>1. /\ rxHead \in 0 .. BuffSize - 1 /\ rxTail \in 0 .. BuffSize - 1
      /\ rxBuff \in [0 .. BuffSize - 1 -> Nat] /\ BuffSize \in Nat \ {0}
  BY UartAssumption DEF UartSeq, RingTypeOK
<1>2. Unread = IF rxTail <= rxHead THEN rxHead - rxTail ELSE BuffSize + rxHead - rxTail
  BY <1>1, UnreadIs DEF Unread
<1>3. Unread > 0 BY <1>1, <1>2 DEF ReadLooks
<1>4. /\ Waiting \in Seq(Nat) /\ Len(Waiting) = Unread /\ Unread \in Nat
      /\ \A i \in 1 .. Unread : Waiting[i] = rxBuff[(rxTail + i - 1) % BuffSize]
  BY WaitingIsSeq DEF UartSeq
<1>5. Waiting # <<>> BY <1>3, <1>4, EmptySeq
<1>6. Head(Waiting) = rxBuff[rxTail]
  <2>1. (rxTail + 1 - 1) % BuffSize =
          IF rxTail + 1 - 1 < BuffSize THEN rxTail + 1 - 1 ELSE (rxTail + 1 - 1) - BuffSize
    <3>1. 1 \in 1 .. BuffSize BY <1>1
    <3>. QED BY <3>1, <1>1, UnreadIs
  <2>2. rxTail + 1 - 1 = rxTail /\ rxTail < BuffSize BY <1>1
  <2>3. (rxTail + 1 - 1) % BuffSize = rxTail BY <2>1, <2>2
  <2>4. Waiting[1] = rxBuff[(rxTail + 1 - 1) % BuffSize] BY <1>3, <1>4
  <2>. QED BY <2>3, <2>4
<1>7. /\ uartCall # "read" /\ uartCall' = "read" /\ Waiting' = Waiting /\ Unread' = Unread
  BY DEF ReadLooks, Between, ringVars, Waiting, Unread
<1>8. Behind = Waiting /\ Behind' = Tail(Waiting) BY <1>5, <1>7 DEF Behind
<1>9. Append(uartSeen.got, Head(Waiting)) \o Tail(Waiting) = uartSeen.got \o Waiting
  BY <1>4, <1>5, LooksAtOldest DEF UartSeq
<1>. QED BY <1>1, <1>3, <1>6, <1>7, <1>8, <1>9 DEF Delivered, LooksAtByte

LEMMA MovedIsDelivered ==
  ASSUME UartSeq, LooksAtByte, ReadMoves
  PROVE  Delivered' = Delivered /\ LooksAtByte' /\ RingTypeOK'
<1>1. /\ uartCall = "read" /\ uartCall' = "none" /\ uartSeen' = uartSeen
      /\ rxTail' = (rxTail + 1) % BuffSize /\ UNCHANGED <<rxBuff, rxHead>>
  BY DEF ReadMoves
<1>2. Unread > 0 BY <1>1 DEF LooksAtByte
<1>3. RingTypeOK' /\ Waiting' = Tail(Waiting) BY <1>1, <1>2, WaitingMoved DEF UartSeq
<1>4. Behind = Tail(Waiting) BY <1>1, <1>2, BehindIsSeq
<1>5. Behind' = Waiting' BY <1>1 DEF Behind
<1>. QED BY <1>1, <1>3, <1>4, <1>5 DEF Delivered, LooksAtByte

LEMMA EndDrops ==
  ASSUME UartSeq, End, uartSeen'.got = uartSeen.got
  PROVE  /\ Delivered' = uartSeen.got /\ LooksAtByte' /\ RingTypeOK'
         /\ Len(uartSeen.got) \in Nat /\ Len(Delivered) \in Nat
         /\ Len(uartSeen.got) <= Len(Delivered)
         /\ \A i \in 1 .. Len(uartSeen.got) : uartSeen.got[i] = Delivered[i]
<1>1. /\ uartCall = "none" /\ uartCall' = "none" /\ rxHead' = rxTail
      /\ rxTail' = rxTail /\ rxBuff' = rxBuff
  BY DEF End, Between
<1>2. RingTypeOK' BY <1>1 DEF UartSeq, RingTypeOK
<1>3. /\ rxTail \in 0 .. BuffSize - 1 /\ BuffSize \in Nat \ {0}
  BY UartAssumption DEF UartSeq, RingTypeOK
<1>4. Unread' = 0
  <2>1. (BuffSize + rxTail - rxTail) % BuffSize =
           IF rxTail <= rxTail THEN rxTail - rxTail ELSE BuffSize + rxTail - rxTail
    BY <1>3, UnreadIs
  <2>. QED BY <2>1, <1>1, <1>3 DEF Unread
<1>5. /\ Waiting' \in Seq(Nat) /\ Len(Waiting') = Unread' BY <1>2, WaitingIsSeqNext
<1>6. Waiting' = <<>> BY <1>4, <1>5, EmptySeq
<1>7. Behind' = <<>> BY <1>1, <1>6 DEF Behind
<1>8. Delivered' = uartSeen.got BY <1>7, ConcatEmptySeq DEF Delivered, UartSeq
<1>9. Behind \in Seq(Nat) /\ uartSeen.got \in Seq(Nat) BY BehindIsSeq DEF UartSeq
<1>10. /\ Len(uartSeen.got) \in Nat /\ Len(Behind) \in Nat
       /\ Len(Delivered) = Len(uartSeen.got) + Len(Behind)
       /\ \A i \in 1 .. Len(uartSeen.got) + Len(Behind) :
            Delivered[i] = IF i <= Len(uartSeen.got) THEN uartSeen.got[i]
                           ELSE Behind[i - Len(uartSeen.got)]
  BY <1>9, ConcatProperties, LenProperties DEF Delivered
<1>. QED BY <1>1, <1>2, <1>8, <1>10 DEF LooksAtByte

-----------------------------------------------------------------------------
(* Types.                                                                  *)
LEMMA SeenFields ==
  ASSUME uartSeen \in SeenType
  PROVE  /\ uartSeen.came \in Nat /\ uartSeen.sent \in Nat /\ uartSeen.begins \in Nat
         /\ uartSeen.got \in Seq(Nat)
         /\ uartSeen.bad \in SUBSET Nat /\ uartSeen.discarded \in SUBSET Nat
         /\ uartSeen.refused \in SUBSET Nat
         /\ uartSeen.backlog \in BOOLEAN /\ uartSeen.blind \in BOOLEAN
         /\ uartSeen.again \in BOOLEAN /\ uartSeen.cut \in BOOLEAN
  BY DEF SeenType

LEMMA TypeGives ==
  ASSUME UartTypeOK
  PROVE  /\ UartSeq /\ fifo \in Seq(Nat)
         /\ uartSeen.came \in Nat /\ irqByte \in Nat /\ Len(fifo) \in Nat
         /\ \A j \in 1 .. Len(fifo) : fifo[j] \in Nat
<1>1. UartSeq BY SeenFields DEF UartTypeOK, UartSeq, RingTypeOK
<1>2. fifo \in Seq(Nat) /\ uartSeen.came \in Nat /\ irqByte \in Nat
  BY SeenFields DEF UartTypeOK
<1>3. Len(fifo) \in Nat /\ \A j \in 1 .. Len(fifo) : fifo[j] \in Nat
  BY <1>2, LenProperties, ElementOfSeq
<1>. QED BY <1>1, <1>2, <1>3

LEMMA SeenStep ==
  ASSUME UartTypeOK, [UartNext]_uartVars
  PROVE  uartSeen' \in SeenType
<1>0. uartSeen \in SeenType BY DEF UartTypeOK
<1>1. CASE UNCHANGED uartSeen BY <1>0, <1>1
<1>2. ASSUME BeginTx \/ Begin \/ BeginClears PROVE uartSeen' \in SeenType
  <2> DEFINE n == uartSeen.begins + 1
             b == uartSeen.again \/ uartState # "notStart"
  <2>0. n \in Nat /\ b \in BOOLEAN BY <1>0, SeenFields
  <2>4. BeginTx => uartSeen' = [uartSeen EXCEPT !.begins = n] BY DEF BeginTx
  <2>5. Begin => uartSeen' = [uartSeen EXCEPT !.begins = n, !.again = b] BY DEF Begin
  <2> HIDE DEF n, b
  <2>1. CASE BeginTx BY <1>0, <2>0, <2>1, <2>4 DEF SeenType
  <2>2. CASE Begin BY <1>0, <2>0, <2>2, <2>5 DEF SeenType
  <2>3. CASE BeginClears BY <1>0, <2>3 DEF BeginClears, SeenType
  <2>. QED BY <1>2, <2>1, <2>2, <2>3
<1>3. CASE End BY <1>0, <1>3 DEF End, SeenType
<1>4. ASSUME NEW bad \in BOOLEAN, ByteArrives(bad) PROVE uartSeen' \in SeenType
  <2>1. uartSeen.came + 1 \in Nat /\ uartSeen.bad \in SUBSET Nat BY <1>0, SeenFields
  <2> DEFINE n == uartSeen.came + 1
             marked == IF bad THEN uartSeen.bad \union {n} ELSE uartSeen.bad
  <2>2. marked \in SUBSET Nat BY <2>1
  <2>3. uartSeen' = [uartSeen EXCEPT !.came = n, !.bad = marked,
                              !.backlog = @ \/ fifo # <<>> \/ irqByte # 0]
    BY <1>4 DEF ByteArrives
  <2> HIDE DEF marked, n
  <2>. QED BY <1>0, <2>1, <2>2, <2>3 DEF SeenType, n
<1>5. CASE IrqDiscards
  <2>1. uartSeen.discarded \union {irqByte} \in SUBSET Nat
    BY <1>0, SeenFields DEF UartTypeOK
  <2>. QED BY <1>0, <1>5, <2>1 DEF IrqDiscards, SeenType
<1>6. CASE IrqStores
  <2>1. uartSeen.refused \union {irqByte} \in SUBSET Nat
    BY <1>0, SeenFields DEF UartTypeOK
  <2>2. CASE uartSeen' = [uartSeen EXCEPT !.refused = @ \union {irqByte}]
    BY <1>0, <2>2, <2>1 DEF SeenType
  <2>. QED BY <1>1, <1>6, <2>2 DEF IrqStores
<1>7. CASE ReadLooks
  <2>1. rxBuff[rxTail] \in Nat BY DEF UartTypeOK
  <2>2. Append(uartSeen.got, rxBuff[rxTail]) \in Seq(Nat) BY <1>0, <2>1, SeenFields, AppendProperties
  <2>. QED BY <1>0, <1>7, <2>2 DEF ReadLooks, SeenType
<1>8. ASSUME Write \/ Flush PROVE uartSeen' \in SeenType
  <2> DEFINE n == uartSeen.sent + 1
             b == uartSeen.cut \/ txByte
  <2>0. n \in Nat /\ b \in BOOLEAN BY <1>0, SeenFields
  <2>3. Write => uartSeen' = [uartSeen EXCEPT !.sent = n, !.cut = b] BY DEF Write
  <2> HIDE DEF n, b
  <2>1. CASE Write BY <1>0, <2>0, <2>1, <2>3 DEF SeenType
  <2>2. CASE Flush BY <1>0, <2>2 DEF Flush, SeenType
  <2>. QED BY <1>8, <2>1, <2>2
<1>9. ASSUME IrqTakes \/ ReadMoves \/ ByteIsSent \/ UNCHANGED uartVars PROVE UNCHANGED uartSeen
  BY <1>9 DEF IrqTakes, ReadMoves, ByteIsSent, uartVars
<1>. QED BY <1>1, <1>2, <1>3, <1>4, <1>5, <1>6, <1>7, <1>8, <1>9 DEF UartNext

\* the counts and records that an action changes
LEMMA SeenChanges ==
  ASSUME UartTypeOK
  PROVE  /\ BeginTx \/ Begin \/ BeginClears \/ Write \/ Flush =>
               UNCHANGED <<uartSeen.came, uartSeen.got, uartSeen.bad, uartSeen.discarded,
                           uartSeen.refused, uartSeen.backlog>>
         /\ End =>
               /\ UNCHANGED <<uartSeen.came, uartSeen.got, uartSeen.bad, uartSeen.discarded,
                           uartSeen.refused, uartSeen.blind, uartSeen.again>>
               /\ uartSeen'.backlog = (uartSeen.backlog \/ fifo # <<>>)
               /\ uartSeen'.cut = (uartSeen.cut \/ (uartState # "notStart" /\ txByte))
         /\ ReadLooks =>
               /\ uartSeen'.got = Append(uartSeen.got, rxBuff[rxTail])
               /\ UNCHANGED <<uartSeen.came, uartSeen.bad, uartSeen.discarded,
                           uartSeen.refused, uartSeen.backlog, uartSeen.blind, uartSeen.again,
                           uartSeen.cut>>
         /\ \A bad \in BOOLEAN : ByteArrives(bad) =>
               /\ uartSeen'.came = uartSeen.came + 1
               /\ uartSeen'.bad = IF bad THEN uartSeen.bad \union {uartSeen.came + 1}
                                  ELSE uartSeen.bad
               /\ uartSeen'.backlog = (uartSeen.backlog \/ fifo # <<>> \/ irqByte # 0)
               /\ UNCHANGED <<uartSeen.got, uartSeen.discarded, uartSeen.refused,
                           uartSeen.blind, uartSeen.again, uartSeen.cut>>
         /\ IrqDiscards =>
               /\ uartSeen'.discarded = uartSeen.discarded \union {irqByte}
               /\ UNCHANGED <<uartSeen.came, uartSeen.got, uartSeen.bad, uartSeen.refused,
                           uartSeen.backlog, uartSeen.blind, uartSeen.again, uartSeen.cut>>
         /\ IrqStores =>
               /\ uartSeen'.refused = IF NextHead = rxTail THEN uartSeen.refused \union {irqByte}
                                      ELSE uartSeen.refused
               /\ UNCHANGED <<uartSeen.came, uartSeen.got, uartSeen.bad, uartSeen.discarded,
                           uartSeen.backlog, uartSeen.blind, uartSeen.again, uartSeen.cut>>
<1>0. uartSeen \in SeenType BY DEF UartTypeOK
<1>1. BeginTx \/ Begin \/ BeginClears \/ Write \/ Flush =>
               UNCHANGED <<uartSeen.came, uartSeen.got, uartSeen.bad, uartSeen.discarded,
                           uartSeen.refused, uartSeen.backlog>>
  BY <1>0 DEF BeginTx, Begin, BeginClears, Write, Flush, SeenType
<1>2. End =>
               /\ UNCHANGED <<uartSeen.came, uartSeen.got, uartSeen.bad, uartSeen.discarded,
                           uartSeen.refused, uartSeen.blind, uartSeen.again>>
               /\ uartSeen'.backlog = (uartSeen.backlog \/ fifo # <<>>)
               /\ uartSeen'.cut = (uartSeen.cut \/ (uartState # "notStart" /\ txByte))
  BY <1>0 DEF End, SeenType
<1>3. ReadLooks =>
               /\ uartSeen'.got = Append(uartSeen.got, rxBuff[rxTail])
               /\ UNCHANGED <<uartSeen.came, uartSeen.bad, uartSeen.discarded,
                           uartSeen.refused, uartSeen.backlog, uartSeen.blind, uartSeen.again,
                           uartSeen.cut>>
  BY <1>0 DEF ReadLooks, SeenType
<1>4. \A bad \in BOOLEAN : ByteArrives(bad) =>
               /\ uartSeen'.came = uartSeen.came + 1
               /\ uartSeen'.bad = IF bad THEN uartSeen.bad \union {uartSeen.came + 1}
                                  ELSE uartSeen.bad
               /\ uartSeen'.backlog = (uartSeen.backlog \/ fifo # <<>> \/ irqByte # 0)
               /\ UNCHANGED <<uartSeen.got, uartSeen.discarded, uartSeen.refused,
                           uartSeen.blind, uartSeen.again, uartSeen.cut>>
  BY <1>0 DEF ByteArrives, SeenType
<1>5. IrqDiscards =>
               /\ uartSeen'.discarded = uartSeen.discarded \union {irqByte}
               /\ UNCHANGED <<uartSeen.came, uartSeen.got, uartSeen.bad, uartSeen.refused,
                           uartSeen.backlog, uartSeen.blind, uartSeen.again, uartSeen.cut>>
  BY <1>0 DEF IrqDiscards, SeenType
<1>6. IrqStores =>
               /\ uartSeen'.refused = IF NextHead = rxTail THEN uartSeen.refused \union {irqByte}
                                      ELSE uartSeen.refused
               /\ UNCHANGED <<uartSeen.came, uartSeen.got, uartSeen.bad, uartSeen.discarded,
                           uartSeen.backlog, uartSeen.blind, uartSeen.again, uartSeen.cut>>
  BY <1>0 DEF IrqStores, SeenType
<1>. QED BY <1>1, <1>2, <1>3, <1>4, <1>5, <1>6

LEMMA UartTypeStep ==
  ASSUME UartTypeOK, LooksAtByte, [UartNext]_uartVars
  PROVE  UartTypeOK'
<1>0. uartSeen' \in SeenType BY SeenStep
<1>1. UartSeq /\ fifo \in Seq(Nat) BY TypeGives
<1>2. CASE BeginTx \/ Begin \/ BeginClears \/ Write \/ Flush \/ ByteIsSent \/ ReadLooks
           \/ IrqDiscards
  <2>1. CASE BeginTx BY <1>0, <2>1 DEF UartTypeOK, BeginTx, Started, rxVars, ringVars, txVars
  <2>2. CASE Begin BY <1>0, <2>2 DEF UartTypeOK, Begin, Started, rxVars, ringVars, txVars
  <2>3. CASE BeginClears BY <1>0, <2>3 DEF UartTypeOK, BeginClears, ringVars, txVars
  <2>4. CASE Write BY <1>0, <2>4 DEF UartTypeOK, Write, rxVars, ringVars
  <2>5. CASE Flush BY <1>0, <2>5 DEF UartTypeOK, Flush, rxVars, ringVars, txVars
  <2>6. CASE ByteIsSent BY <1>0, <2>6 DEF UartTypeOK, ByteIsSent, rxVars, ringVars
  <2>7. CASE ReadLooks BY <1>0, <2>7 DEF UartTypeOK, ReadLooks, rxVars, ringVars, txVars
  <2>8. CASE IrqDiscards BY <1>0, <2>8 DEF UartTypeOK, IrqDiscards, ringVars, txVars
  <2>. QED BY <1>2, <2>1, <2>2, <2>3, <2>4, <2>5, <2>6, <2>7, <2>8
<1>3. CASE End
  <2>1. fifo' \in Seq(Nat)
    BY <1>1, <1>3, EmptySeq DEF End
  <2>. QED BY <1>0, <1>3, <2>1 DEF UartTypeOK, End
<1>4. ASSUME NEW bad \in BOOLEAN, ByteArrives(bad) PROVE UartTypeOK'
  <2>1. uartSeen.came + 1 \in Nat BY SeenFields DEF UartTypeOK
  <2>2. Append(fifo, uartSeen.came + 1) \in Seq(Nat) BY <1>1, <2>1, AppendProperties
  <2>3. fifo' \in Seq(Nat) /\ rxdrdy' \in BOOLEAN /\ errorsrc' \subseteq {"overrun", "framing"}
    BY <1>1, <1>4, <2>2 DEF ByteArrives, UartTypeOK
  <2>. QED BY <1>0, <1>4, <2>3 DEF UartTypeOK, ByteArrives, ringVars, txVars
<1>5. CASE IrqTakes
  <2>1. Head(fifo) \in Nat /\ Tail(fifo) \in Seq(Nat)
    BY <1>1, <1>5, HeadTailProperties DEF IrqTakes
  <2>. QED BY <1>0, <1>5, <2>1 DEF UartTypeOK, IrqTakes, ringVars, txVars
<1>6. CASE IrqStores
  <2>1. RingTypeOK'
    <3>1. CASE NextHead = rxTail
      BY <1>1, <1>6, <3>1 DEF IrqStores, UartSeq, RingTypeOK
    <3>2. CASE NextHead # rxTail
      BY <1>1, <1>6, <3>2, WaitingStored DEF IrqStores, UartSeq
    <3>. QED BY <3>1, <3>2
  <2>. QED BY <1>0, <1>6, <2>1 DEF UartTypeOK, IrqStores, RingTypeOK, txVars
<1>7. CASE ReadMoves
  <2>1. RingTypeOK' BY <1>1, <1>7, MovedIsDelivered
  <2>. QED BY <1>0, <1>7, <2>1 DEF UartTypeOK, ReadMoves, RingTypeOK, rxVars, txVars
<1>8. CASE UNCHANGED uartVars
  BY <1>0, <1>8 DEF UartTypeOK, uartVars, rxVars, ringVars, txVars
<1>. QED BY <1>2, <1>3, <1>4, <1>5, <1>6, <1>7, <1>8 DEF UartNext

-----------------------------------------------------------------------------
(* The event of a byte that waits, and the sending.                        *)
LEMMA EventStep ==
  ASSUME UartTypeOK, EventInv, [UartNext]_uartVars
  PROVE  EventInv'
<1>0. uartSeen \in SeenType /\ fifo \in Seq(Nat) BY DEF UartTypeOK
<1>1. CASE BeginTx \/ Begin \/ Write \/ Flush \/ ReadLooks \/ ReadMoves \/ IrqDiscards
           \/ IrqStores \/ ByteIsSent \/ UNCHANGED uartVars
  <2>1. UNCHANGED <<irqOn, fifo, rxdrdy>>
    BY <1>1 DEF BeginTx, Begin, Write, Flush, ReadLooks, ReadMoves, IrqDiscards, IrqStores,
                ByteIsSent, uartVars, rxVars
  <2>2. CASE BeginTx \/ Begin \/ Write \/ Flush
    <3>1. uartSeen'.blind = uartSeen.blind
      BY <1>0, <2>2 DEF BeginTx, Begin, Write, Flush, SeenType
    <3>. QED BY <2>1, <3>1 DEF EventInv
  <2>3. CASE ReadLooks \/ ReadMoves \/ IrqDiscards \/ IrqStores \/ ByteIsSent \/ UNCHANGED uartVars
    <3>1. uartSeen'.blind = uartSeen.blind
      BY <2>3, SeenChanges DEF ReadMoves, ByteIsSent, uartVars
    <3>. QED BY <2>1, <3>1 DEF EventInv
  <2>. QED BY <1>1, <2>2, <2>3
<1>2. CASE BeginClears
  <2>1. fifo' = fifo /\ uartSeen'.blind = (uartSeen.blind \/ fifo # <<>>)
    BY <1>0, <1>2 DEF BeginClears, SeenType
  <2>. QED BY <2>1 DEF EventInv
<1>3. CASE End
  <2>1. uartSeen'.blind = uartSeen.blind BY <1>3, SeenChanges
  <2>. QED BY <1>3, <2>1 DEF End, EventInv
<1>4. ASSUME NEW bad \in BOOLEAN, ByteArrives(bad) PROVE EventInv'
  <2>1. uartSeen'.blind = uartSeen.blind /\ irqOn' = irqOn
    BY <1>4, SeenChanges DEF ByteArrives
  <2>2. UNCHANGED <<fifo, rxdrdy>> \/ rxdrdy' = (rxdrdy \/ fifo = <<>>)
    BY <1>4 DEF ByteArrives
  <2>. QED BY <2>1, <2>2 DEF EventInv
<1>5. CASE IrqTakes BY <1>5 DEF IrqTakes, EventInv
<1>. QED BY <1>1, <1>2, <1>3, <1>4, <1>5 DEF UartNext

LEMMA SendStep ==
  ASSUME UartTypeOK, SendInv, [UartNext]_uartVars
  PROVE  SendInv'
<1>0. uartSeen \in SeenType /\ uartState \in {"notStart", "beforeFirstTX", "afterFirstTX"}
  BY DEF UartTypeOK
<1>1. CASE BeginTx
  <2>1. uartSeen'.again = uartSeen.again /\ uartSeen'.cut = uartSeen.cut
    BY <1>0, <1>1 DEF BeginTx, SeenType
  <2>. QED BY <1>1, <2>1 DEF BeginTx, SendInv, Started, Between, txVars
<1>2. CASE Begin
  <2>1. /\ uartSeen'.again = (uartSeen.again \/ uartState # "notStart")
        /\ uartSeen'.cut = uartSeen.cut
    BY <1>0, <1>2 DEF Begin, SeenType
  <2>. QED BY <1>2, <2>1 DEF Begin, SendInv, Started, Between, txVars
<1>3. CASE BeginClears
  <2>1. uartSeen'.again = uartSeen.again /\ uartSeen'.cut = uartSeen.cut
    BY <1>0, <1>3 DEF BeginClears, SeenType
  <2>. QED BY <1>3, <2>1 DEF BeginClears, SendInv, txVars
<1>4. CASE End
  <2>1. /\ uartSeen'.again = uartSeen.again
        /\ uartSeen'.cut = (uartSeen.cut \/ (uartState # "notStart" /\ txByte))
    BY <1>4, SeenChanges
  <2>. QED BY <1>4, <2>1 DEF End, SendInv, Between, TxFinished
<1>5. CASE Write
  <2>1. uartSeen'.again = uartSeen.again /\ uartSeen'.cut = (uartSeen.cut \/ txByte)
    BY <1>0, <1>5 DEF Write, SeenType
  <2>. QED BY <1>0, <1>5, <2>1 DEF Write, SendInv, Between, TxFinished
<1>6. CASE Flush
  <2>1. uartSeen'.again = uartSeen.again /\ uartSeen'.cut = (uartSeen.cut \/ txByte)
    BY <1>0, <1>6 DEF Flush, SeenType
  <2>. QED BY <1>6, <2>1 DEF Flush, SendInv, Between, TxFinished, txVars
<1>7. CASE ByteIsSent BY <1>7 DEF ByteIsSent, SendInv
<1>8. CASE ReadLooks
  <2>1. uartSeen'.again = uartSeen.again /\ uartSeen'.cut = uartSeen.cut BY <1>8, SeenChanges
  <2>. QED BY <1>8, <2>1 DEF ReadLooks, SendInv, txVars
<1>9. CASE ReadMoves BY <1>9 DEF ReadMoves, SendInv, txVars
<1>10. ASSUME IrqTakes \/ IrqDiscards \/ IrqStores \/ (\E bad \in BOOLEAN : ByteArrives(bad))
              \/ UNCHANGED uartVars
       PROVE  SendInv'
  <2>1. uartSeen'.again = uartSeen.again /\ uartSeen'.cut = uartSeen.cut
    BY <1>10, SeenChanges DEF IrqTakes, uartVars
  <2>2. UNCHANGED <<uartState, uartCall, txByte, txdrdy>>
    BY <1>10 DEF IrqTakes, IrqDiscards, IrqStores, ByteArrives, uartVars, txVars
  <2>. QED BY <2>1, <2>2 DEF SendInv
<1>. QED BY <1>1, <1>2, <1>3, <1>4, <1>5, <1>6, <1>7, <1>8, <1>9, <1>10 DEF UartNext

-----------------------------------------------------------------------------
(* What each step does to the bytes delivered.                             *)
LEMMA QuietDelivers ==
  ASSUME UartTypeOK, LooksAtByte,
         BeginTx \/ Begin \/ BeginClears \/ Write \/ Flush \/ ByteIsSent \/ IrqTakes
         \/ IrqDiscards \/ (\E bad \in BOOLEAN : ByteArrives(bad)) \/ UNCHANGED uartVars
  PROVE  Delivered' = Delivered /\ LooksAtByte'
<1>1. UNCHANGED ringVars /\ (uartCall' = "read" <=> uartCall = "read")
  BY DEF BeginTx, Begin, BeginClears, Write, Flush, ByteIsSent, IrqTakes, IrqDiscards, ByteArrives,
         uartVars, Between
<1>2. uartSeen'.got = uartSeen.got
  BY SeenChanges DEF ByteIsSent, IrqTakes, uartVars
<1>3. Waiting' = Waiting /\ Unread' = Unread BY <1>1 DEF Waiting, Unread, ringVars
<1>4. Behind' = Behind BY <1>1, <1>3 DEF Behind
<1>. QED BY <1>1, <1>2, <1>3, <1>4 DEF Delivered, LooksAtByte

LEMMA DeliveredNumbers ==
  ASSUME UartTypeOK
  PROVE  /\ Delivered \in Seq(Nat) /\ Len(Delivered) \in Nat
         /\ \A i \in 1 .. Len(Delivered) : Delivered[i] \in Nat
         /\ irqByte \in Nat /\ uartSeen.came \in Nat /\ Len(fifo) \in Nat
         /\ \A j \in 1 .. Len(fifo) : fifo[j] \in Nat
<1>1. UartSeq BY TypeGives
<1>2. Delivered \in Seq(Nat) BY <1>1, BehindIsSeq
<1>3. Len(Delivered) \in Nat /\ \A i \in 1 .. Len(Delivered) : Delivered[i] \in Nat
  BY <1>2, LenProperties, ElementOfSeq
<1>. QED BY <1>2, <1>3, TypeGives

LEMMA LooksStep ==
  ASSUME UartTypeOK, LooksAtByte, [UartNext]_uartVars
  PROVE  LooksAtByte'
<1>1. UartSeq BY TypeGives
<1>2. CASE ReadLooks BY <1>1, <1>2, LookedAtIsDelivered, SeenChanges
<1>3. CASE ReadMoves BY <1>1, <1>3, MovedIsDelivered
<1>4. CASE End BY <1>1, <1>4, EndDrops, SeenChanges
<1>5. CASE IrqStores
  <2>1. CASE NextHead = rxTail
    BY <1>5, <2>1 DEF IrqStores, LooksAtByte, Unread
  <2>2. CASE NextHead # rxTail
    BY <1>1, <1>5, <2>2, StoredIsDelivered DEF IrqStores
  <2>. QED BY <2>1, <2>2
<1>. QED BY <1>2, <1>3, <1>4, <1>5, QuietDelivers DEF UartNext

\* a full ring keeps what it holds
LEMMA RefusedDelivers ==
  ASSUME UartTypeOK, IrqStores, NextHead = rxTail
  PROVE  Delivered' = Delivered
<1>1. UNCHANGED <<rxBuff, rxHead, rxTail, uartCall>> /\ uartSeen'.got = uartSeen.got
  BY SeenChanges DEF IrqStores
<1>2. Waiting' = Waiting BY <1>1 DEF Waiting, Unread
<1>. QED BY <1>1, <1>2 DEF Delivered, Behind

-----------------------------------------------------------------------------
(* The order of the bytes.                                                 *)
LEMMA ArrivalKept ==
  ASSUME ArrivalInv, Delivered' = Delivered,
         UNCHANGED <<fifo, irqByte, uartSeen.came, uartSeen.discarded, uartSeen.refused>>
  PROVE  ArrivalInv'
<1>1. Lost' = Lost BY DEF Lost
<1>2. \A n \in Nat : Done(n)' <=> Done(n) BY <1>1 DEF Done
<1>. QED BY <1>1, <1>2 DEF ArrivalInv

LEMMA ArrivalEnd ==
  ASSUME UartTypeOK, ArrivalInv, End
  PROVE  ArrivalInv'
<1> DEFINE got == uartSeen.got
<1>0. UartSeq BY TypeGives
<1>1. /\ Delivered' = got /\ Len(got) \in Nat /\ Len(Delivered) \in Nat
      /\ Len(got) <= Len(Delivered)
      /\ \A i \in 1 .. Len(got) : got[i] = Delivered[i]
  BY <1>0, EndDrops, SeenChanges
<1>2. /\ UNCHANGED <<uartSeen.came, uartSeen.discarded, uartSeen.refused, irqByte>>
      /\ irqByte = 0
      /\ fifo' = fifo \/ Len(fifo') = 0
  BY SeenChanges, EmptySeq DEF End, Between, MainRuns
<1>3. Lost' = Lost BY <1>2 DEF Lost
<1> HIDE DEF got
<1>4. \A i \in 1 .. Len(got) : i \in 1 .. Len(Delivered) BY <1>1
<1>5. ASSUME NEW n \in Nat, Done(n)' PROVE Done(n)
  <2>1. n \in Lost \/ \E i \in 1 .. Len(got) : got[i] = n BY <1>1, <1>3, <1>5 DEF Done
  <2>. QED BY <2>1, <1>1, <1>4 DEF Done
<1>6. /\ \A i, j \in 1 .. Len(fifo') : i < j => fifo'[i] < fifo'[j]
      /\ \A j \in 1 .. Len(fifo') : /\ 0 < fifo'[j] /\ fifo'[j] <= uartSeen'.came
                                    /\ irqByte' < fifo'[j]
      /\ irqByte' <= uartSeen'.came
  <2>1. CASE fifo' = fifo BY <2>1, <1>2 DEF ArrivalInv
  <2>2. CASE Len(fifo') = 0
    <3>1. \A j \in 1 .. Len(fifo') : FALSE BY <2>2
    <3>. QED BY <3>1, <1>2 DEF ArrivalInv
  <2>. QED BY <1>2, <2>1, <2>2
<1>7. \A i, j \in 1 .. Len(got) : i < j => got[i] < got[j] BY <1>1, <1>4 DEF ArrivalInv
<1>8. \A n \in Nat : Done(n)' =>
          /\ n <= uartSeen'.came
          /\ irqByte' # 0 => n < irqByte'
          /\ \A j \in 1 .. Len(fifo') : n < fifo'[j]
  <2>. SUFFICES ASSUME NEW n \in Nat, Done(n)'
                PROVE  /\ n <= uartSeen'.came
                       /\ irqByte' # 0 => n < irqByte'
                       /\ \A j \in 1 .. Len(fifo') : n < fifo'[j]
    OBVIOUS
  <2>1. Done(n) BY <1>5
  <2>2. n <= uartSeen'.came /\ (irqByte' # 0 => n < irqByte') BY <2>1, <1>2 DEF ArrivalInv
  <2>3. CASE fifo' = fifo BY <2>1, <2>2, <2>3 DEF ArrivalInv
  <2>4. CASE Len(fifo') = 0
    <3>1. \A j \in 1 .. Len(fifo') : FALSE BY <2>4
    <3>. QED BY <3>1, <2>2
  <2>. QED BY <1>2, <2>3, <2>4
<1>9. \A i \in 1 .. Len(got) : got[i] \notin Lost BY <1>1, <1>4 DEF ArrivalInv
<1>. QED BY <1>1, <1>3, <1>6, <1>7, <1>8, <1>9 DEF ArrivalInv

LEMMA ArrivalComes ==
  ASSUME UartTypeOK, ArrivalInv, NEW bad \in BOOLEAN, ByteArrives(bad), Delivered' = Delivered
  PROVE  ArrivalInv'
<1> DEFINE n == uartSeen.came + 1
<1>1. /\ fifo \in Seq(Nat) /\ uartSeen.came \in Nat /\ irqByte \in Nat /\ Len(fifo) \in Nat
      /\ \A j \in 1 .. Len(fifo) : fifo[j] \in Nat
  BY TypeGives
<1>2. n \in Nat /\ n > uartSeen.came BY <1>1
<1>3. /\ uartSeen'.came = n /\ irqByte' = irqByte
      /\ uartSeen'.discarded = uartSeen.discarded /\ uartSeen'.refused = uartSeen.refused
      /\ fifo' = fifo \/ fifo' = Append(fifo, n)
  BY SeenChanges DEF ByteArrives
<1>4. Lost' = Lost BY <1>3 DEF Lost
<1>5. \A k \in Nat : Done(k)' <=> Done(k) BY <1>4 DEF Done
<1> HIDE DEF n
<1>6. /\ Len(fifo') \in Nat
      /\ \A j \in 1 .. Len(fifo') : \/ j \in 1 .. Len(fifo) /\ fifo'[j] = fifo[j]
                                    \/ j = Len(fifo) + 1 /\ fifo'[j] = n
  <2>1. CASE fifo' = fifo BY <2>1, <1>1
  <2>2. CASE fifo' = Append(fifo, n)
    <3>1. /\ Len(fifo') = Len(fifo) + 1 /\ fifo'[Len(fifo) + 1] = n
          /\ \A j \in 1 .. Len(fifo) : fifo'[j] = fifo[j]
      BY <2>2, <1>1, <1>2, AppendProperties
    <3>. QED BY <3>1, <1>1
  <2>. QED BY <1>3, <2>1, <2>2
<1>7. irqByte <= uartSeen.came /\ \A j \in 1 .. Len(fifo) : 0 < fifo[j] /\ fifo[j] <= uartSeen.came
                                                             /\ irqByte < fifo[j]
  BY DEF ArrivalInv
<1>8. \A i, j \in 1 .. Len(fifo') : i < j => fifo'[i] < fifo'[j]
  <2>. SUFFICES ASSUME NEW i \in 1 .. Len(fifo'), NEW j \in 1 .. Len(fifo'), i < j
                PROVE  fifo'[i] < fifo'[j]
    OBVIOUS
  <2>1. i \in 1 .. Len(fifo) /\ fifo'[i] = fifo[i]
    <3>1. i # Len(fifo) + 1 BY <1>1, <1>6
    <3>. QED BY <3>1, <1>6
  <2>2. CASE j \in 1 .. Len(fifo) /\ fifo'[j] = fifo[j] BY <2>1, <2>2 DEF ArrivalInv
  <2>3. CASE fifo'[j] = n BY <2>1, <2>3, <1>1, <1>2, <1>7
  <2>. QED BY <1>6, <2>2, <2>3
<1>9. \A j \in 1 .. Len(fifo') : 0 < fifo'[j] /\ fifo'[j] <= n /\ irqByte < fifo'[j]
  <2>. SUFFICES ASSUME NEW j \in 1 .. Len(fifo')
                PROVE  0 < fifo'[j] /\ fifo'[j] <= n /\ irqByte < fifo'[j]
    OBVIOUS
  <2>1. CASE j \in 1 .. Len(fifo) /\ fifo'[j] = fifo[j] BY <2>1, <1>1, <1>2, <1>7
  <2>2. CASE fifo'[j] = n BY <2>2, <1>1, <1>2, <1>7
  <2>. QED BY <1>6, <2>1, <2>2
<1>10. \A k \in Nat : Done(k)' =>
          /\ k <= n
          /\ irqByte # 0 => k < irqByte
          /\ \A j \in 1 .. Len(fifo') : k < fifo'[j]
  <2>. SUFFICES ASSUME NEW k \in Nat, Done(k)'
                PROVE  /\ k <= n
                       /\ irqByte # 0 => k < irqByte
                       /\ \A j \in 1 .. Len(fifo') : k < fifo'[j]
    OBVIOUS
  <2>1. /\ k <= uartSeen.came /\ (irqByte # 0 => k < irqByte)
        /\ \A j \in 1 .. Len(fifo) : k < fifo[j]
    BY <1>5 DEF ArrivalInv
  <2>2. k <= n /\ k < n BY <2>1, <1>1, <1>2
  <2>. QED BY <2>1, <2>2, <1>6
<1>11. irqByte <= n BY <1>1, <1>2, <1>7
<1>. QED BY <1>3, <1>4, <1>8, <1>9, <1>10, <1>11 DEF ArrivalInv

LEMMA TakenFromFifo ==
  ASSUME UartTypeOK, IrqTakes
  PROVE  /\ irqByte = 0 /\ Len(fifo) \in Nat /\ Len(fifo) > 0
         /\ irqByte' = fifo[1] /\ Len(fifo') = Len(fifo) - 1
         /\ \A j \in 1 .. Len(fifo') : j + 1 \in 1 .. Len(fifo) /\ fifo'[j] = fifo[j + 1]
<1>1. fifo \in Seq(Nat) /\ Len(fifo) \in Nat BY TypeGives
<1>2. fifo # <<>> /\ irqByte = 0 /\ fifo' = Tail(fifo) /\ irqByte' = Head(fifo)
  BY DEF IrqTakes
<1>3. Len(fifo) > 0 BY <1>1, <1>2, EmptySeq
<1>4. Len(Tail(fifo)) = Len(fifo) - 1 /\ \A j \in 1 .. Len(Tail(fifo)) : Tail(fifo)[j] = fifo[j + 1]
  BY <1>1, <1>2, HeadTailProperties
<1>5. Head(fifo) = fifo[1] BY <1>1, <1>2
<1>. QED BY <1>1, <1>2, <1>3, <1>4, <1>5

LEMMA ArrivalTakes ==
  ASSUME UartTypeOK, ArrivalInv, IrqTakes, Delivered' = Delivered
  PROVE  ArrivalInv'
<1>1. /\ uartSeen.came \in Nat /\ Len(fifo) \in Nat
      /\ \A j \in 1 .. Len(fifo) : fifo[j] \in Nat
  BY TypeGives
<1>2. /\ irqByte = 0 /\ Len(fifo) > 0
      /\ irqByte' = fifo[1] /\ Len(fifo') = Len(fifo) - 1
      /\ \A j \in 1 .. Len(fifo') : j + 1 \in 1 .. Len(fifo) /\ fifo'[j] = fifo[j + 1]
  BY TakenFromFifo
<1>3. uartSeen' = uartSeen BY DEF IrqTakes
<1>4. Lost' = Lost BY <1>3 DEF Lost
<1>5. \A k \in Nat : Done(k)' <=> Done(k) BY <1>4 DEF Done
<1>6. 1 \in 1 .. Len(fifo) BY <1>1, <1>2
<1>7. \A i, j \in 1 .. Len(fifo') : i < j => fifo'[i] < fifo'[j]
  <2>. SUFFICES ASSUME NEW i \in 1 .. Len(fifo'), NEW j \in 1 .. Len(fifo'), i < j
                PROVE  fifo'[i] < fifo'[j]
    OBVIOUS
  <2>1. i + 1 < j + 1 BY <1>1, <1>2
  <2>2. i + 1 \in 1 .. Len(fifo) /\ j + 1 \in 1 .. Len(fifo)
        /\ fifo'[i] = fifo[i + 1] /\ fifo'[j] = fifo[j + 1]
    BY <1>2
  <2>. QED BY <2>1, <2>2 DEF ArrivalInv
<1>8. \A j \in 1 .. Len(fifo') : 0 < fifo'[j] /\ fifo'[j] <= uartSeen.came /\ irqByte' < fifo'[j]
  <2>. SUFFICES ASSUME NEW j \in 1 .. Len(fifo')
                PROVE  0 < fifo'[j] /\ fifo'[j] <= uartSeen.came /\ irqByte' < fifo'[j]
    OBVIOUS
  <2>1. 1 < j + 1 BY <1>1, <1>2
  <2>2. j + 1 \in 1 .. Len(fifo) /\ fifo'[j] = fifo[j + 1] BY <1>2
  <2>3. fifo[1] < fifo[j + 1] BY <2>1, <2>2, <1>6 DEF ArrivalInv
  <2>. QED BY <2>2, <2>3, <1>2 DEF ArrivalInv
<1>9. \A k \in Nat : Done(k)' =>
          /\ k <= uartSeen.came
          /\ irqByte' # 0 => k < irqByte'
          /\ \A j \in 1 .. Len(fifo') : k < fifo'[j]
  <2>. SUFFICES ASSUME NEW k \in Nat, Done(k)'
                PROVE  /\ k <= uartSeen.came
                       /\ irqByte' # 0 => k < irqByte'
                       /\ \A j \in 1 .. Len(fifo') : k < fifo'[j]
    OBVIOUS
  <2>1. k <= uartSeen.came /\ \A j \in 1 .. Len(fifo) : k < fifo[j] BY <1>5 DEF ArrivalInv
  <2>. QED BY <2>1, <1>2, <1>6
<1>10. irqByte' <= uartSeen.came BY <1>2, <1>6 DEF ArrivalInv
<1>. QED BY <1>3, <1>4, <1>7, <1>8, <1>9, <1>10 DEF ArrivalInv

\* the handler's byte is delivered or lost
LEMMA ArrivalSettled ==
  ASSUME UartTypeOK, ArrivalInv, irqByte # 0, irqByte' = 0,
         UNCHANGED <<fifo, uartSeen.came>>,
         \/ Delivered' = Delivered /\ Lost' = Lost \union {irqByte}
         \/ Delivered' = Append(Delivered, irqByte) /\ Lost' = Lost
  PROVE  ArrivalInv'
<1>1. /\ Delivered \in Seq(Nat) /\ Len(Delivered) \in Nat
      /\ \A i \in 1 .. Len(Delivered) : Delivered[i] \in Nat
      /\ irqByte \in Nat /\ uartSeen.came \in Nat /\ Len(fifo) \in Nat
      /\ \A j \in 1 .. Len(fifo) : fifo[j] \in Nat
  BY DeliveredNumbers
<1>2. \A i \in 1 .. Len(Delivered) : Delivered[i] < irqByte /\ Delivered[i] \notin Lost
  <2>. SUFFICES ASSUME NEW i \in 1 .. Len(Delivered)
                PROVE  Delivered[i] < irqByte /\ Delivered[i] \notin Lost
    OBVIOUS
  <2>1. Delivered[i] \in Nat /\ Done(Delivered[i]) BY <1>1 DEF Done
  <2>. QED BY <2>1 DEF ArrivalInv
<1>3. irqByte \notin Lost
  <2>1. irqByte \in Lost => Done(irqByte) BY DEF Done
  <2>2. irqByte \in Lost => irqByte < irqByte BY <2>1, <1>1 DEF ArrivalInv
  <2>. QED BY <2>2, <1>1
<1>4. \A k \in Nat : Done(k)' => Done(k) \/ k = irqByte
  <2>. SUFFICES ASSUME NEW k \in Nat, Done(k)', k # irqByte PROVE Done(k)
    OBVIOUS
  <2>1. CASE Delivered' = Delivered /\ Lost' = Lost \union {irqByte} BY <2>1 DEF Done
  <2>2. CASE Delivered' = Append(Delivered, irqByte) /\ Lost' = Lost
    <3>1. /\ Len(Delivered') = Len(Delivered) + 1 /\ Delivered'[Len(Delivered) + 1] = irqByte
          /\ \A i \in 1 .. Len(Delivered) : Delivered'[i] = Delivered[i]
      BY <2>2, <1>1, AppendProperties
    <3>2. CASE k \in Lost BY <3>2 DEF Done
    <3>3. CASE \E i \in 1 .. Len(Delivered') : Delivered'[i] = k
      <4>1. PICK i \in 1 .. Len(Delivered') : Delivered'[i] = k BY <3>3
      <4>2. i # Len(Delivered) + 1 BY <4>1, <3>1
      <4>3. i \in 1 .. Len(Delivered) BY <4>2, <3>1, <1>1
      <4>. QED BY <4>1, <4>3, <3>1 DEF Done
    <3>. QED BY <2>2, <3>2, <3>3 DEF Done
  <2>. QED BY <2>1, <2>2
<1>5. \A k \in Nat : Done(k)' =>
          /\ k <= uartSeen.came
          /\ irqByte' # 0 => k < irqByte'
          /\ \A j \in 1 .. Len(fifo) : k < fifo[j]
  <2>. SUFFICES ASSUME NEW k \in Nat, Done(k)'
                PROVE  k <= uartSeen.came /\ \A j \in 1 .. Len(fifo) : k < fifo[j]
    OBVIOUS
  <2>1. CASE Done(k) BY <2>1 DEF ArrivalInv
  <2>2. CASE k = irqByte BY <2>2 DEF ArrivalInv
  <2>. QED BY <1>4, <2>1, <2>2
<1>6. /\ \A i, j \in 1 .. Len(Delivered') : i < j => Delivered'[i] < Delivered'[j]
      /\ \A i \in 1 .. Len(Delivered') : Delivered'[i] \notin Lost'
  <2>1. CASE Delivered' = Delivered /\ Lost' = Lost \union {irqByte}
    <3>1. \A i \in 1 .. Len(Delivered) : Delivered[i] # irqByte BY <1>1, <1>2
    <3>. QED BY <2>1, <3>1, <1>2 DEF ArrivalInv
  <2>2. CASE Delivered' = Append(Delivered, irqByte) /\ Lost' = Lost
    <3>1. /\ Len(Delivered') = Len(Delivered) + 1 /\ Delivered'[Len(Delivered) + 1] = irqByte
          /\ \A i \in 1 .. Len(Delivered) : Delivered'[i] = Delivered[i]
      BY <2>2, <1>1, AppendProperties
    <3>2. \A i \in 1 .. Len(Delivered') : i \in 1 .. Len(Delivered) \/ i = Len(Delivered) + 1
      BY <3>1, <1>1
    <3>3. ASSUME NEW i \in 1 .. Len(Delivered'), NEW j \in 1 .. Len(Delivered'), i < j
          PROVE  Delivered'[i] < Delivered'[j]
      <4>1. i \in 1 .. Len(Delivered)
        <5>1. i # Len(Delivered) + 1 BY <3>1, <3>3, <1>1
        <5>. QED BY <5>1, <3>2
      <4>2. CASE j \in 1 .. Len(Delivered) BY <4>1, <4>2, <3>1, <3>3 DEF ArrivalInv
      <4>3. CASE j = Len(Delivered) + 1 BY <4>1, <4>3, <3>1, <1>2
      <4>. QED BY <3>2, <4>2, <4>3
    <3>4. \A i \in 1 .. Len(Delivered') : Delivered'[i] \notin Lost'
      BY <2>2, <3>1, <3>2, <1>2, <1>3
    <3>. QED BY <3>3, <3>4
  <2>. QED BY <2>1, <2>2
<1>7. \A j \in 1 .. Len(fifo) : irqByte' < fifo[j] BY <1>1 DEF ArrivalInv
<1>8. irqByte' <= uartSeen.came BY <1>1
<1>. QED BY <1>5, <1>6, <1>7, <1>8 DEF ArrivalInv

LEMMA ArrivalStep ==
  ASSUME UartTypeOK, LooksAtByte, ArrivalInv, [UartNext]_uartVars
  PROVE  ArrivalInv'
<1>0. UartSeq BY TypeGives
<1>1. CASE BeginTx \/ Begin \/ BeginClears \/ Write \/ Flush \/ ByteIsSent \/ UNCHANGED uartVars
  <2>1. Delivered' = Delivered BY <1>1, QuietDelivers
  <2>2. UNCHANGED <<fifo, irqByte>>
    BY <1>1 DEF BeginTx, Begin, BeginClears, Write, Flush, ByteIsSent, uartVars, rxVars
  <2>3. UNCHANGED <<uartSeen.came, uartSeen.discarded, uartSeen.refused>>
    BY <1>1, SeenChanges DEF ByteIsSent, uartVars
  <2>. QED BY <2>1, <2>2, <2>3, ArrivalKept
<1>2. CASE ReadLooks \/ ReadMoves
  <2>1. Delivered' = Delivered
    BY <1>0, <1>2, LookedAtIsDelivered, MovedIsDelivered, SeenChanges
  <2>2. UNCHANGED <<fifo, irqByte>> BY <1>2 DEF ReadLooks, ReadMoves, rxVars
  <2>3. UNCHANGED <<uartSeen.came, uartSeen.discarded, uartSeen.refused>>
    BY <1>2, SeenChanges DEF ReadMoves
  <2>. QED BY <2>1, <2>2, <2>3, ArrivalKept
<1>3. CASE End BY <1>3, ArrivalEnd
<1>4. ASSUME NEW bad \in BOOLEAN, ByteArrives(bad) PROVE ArrivalInv'
  BY <1>4, QuietDelivers, ArrivalComes
<1>5. CASE IrqTakes BY <1>5, QuietDelivers, ArrivalTakes
<1>6. CASE IrqDiscards
  <2>1. Delivered' = Delivered BY <1>6, QuietDelivers
  <2>2. irqByte # 0 /\ irqByte' = 0 /\ UNCHANGED fifo BY <1>6 DEF IrqDiscards
  <2>3. UNCHANGED uartSeen.came /\ Lost' = Lost \union {irqByte}
    BY <1>6, SeenChanges DEF Lost
  <2>. QED BY <2>1, <2>2, <2>3, ArrivalSettled
<1>7. CASE IrqStores
  <2>1. irqByte # 0 /\ irqByte' = 0 /\ UNCHANGED fifo BY <1>7 DEF IrqStores
  <2>2. UNCHANGED uartSeen.came BY <1>7, SeenChanges
  <2>3. CASE NextHead = rxTail
    <3>1. Delivered' = Delivered BY <1>7, <2>3, RefusedDelivers
    <3>2. Lost' = Lost \union {irqByte} BY <1>7, <2>3, SeenChanges DEF Lost
    <3>. QED BY <2>1, <2>2, <3>1, <3>2, ArrivalSettled
  <2>4. CASE NextHead # rxTail
    <3>1. Delivered' = Append(Delivered, irqByte)
      BY <1>0, <1>7, <2>4, StoredIsDelivered DEF IrqStores
    <3>2. Lost' = Lost BY <1>7, <2>4, SeenChanges DEF Lost
    <3>. QED BY <2>1, <2>2, <3>1, <3>2, ArrivalSettled
  <2>. QED BY <2>3, <2>4
<1>. QED BY <1>1, <1>2, <1>3, <1>4, <1>5, <1>6, <1>7 DEF UartNext

-----------------------------------------------------------------------------
(* The error flags.                                                        *)
LEMMA FifoEmpty ==
  ASSUME UartTypeOK
  PROVE  Len(fifo) \in Nat /\ (fifo = <<>> <=> Len(fifo) = 0)
<1>1. fifo \in Seq(Nat) /\ Len(fifo) \in Nat BY TypeGives
<1>. QED BY <1>1, EmptySeq

\* the flags, the bytes under way and those with an error are as before
LEMMA ErrorKept ==
  ASSUME ErrorInv, Delivered' = Delivered,
         UNCHANGED <<fifo, irqByte, errorsrc, uartSeen.came, uartSeen.bad, uartSeen.discarded,
                     uartSeen.backlog>>
  PROVE  ErrorInv'
<1>1. \A n \in Nat : Pending(n)' <=> Pending(n) BY DEF Pending
<1>. QED BY <1>1 DEF ErrorInv

LEMMA ErrorEnd ==
  ASSUME UartTypeOK, ErrorInv, End
  PROVE  ErrorInv'
<1>0. UartSeq BY TypeGives
<1>1. /\ UNCHANGED <<uartSeen.came, uartSeen.bad, uartSeen.discarded, errorsrc, irqByte>>
      /\ uartSeen'.backlog = (uartSeen.backlog \/ fifo # <<>>)
      /\ irqByte = 0
      /\ fifo' = fifo \/ fifo' = <<>>
  BY SeenChanges DEF End, Between, MainRuns
<1>. SUFFICES ASSUME ~uartSeen'.backlog PROVE ErrorInv'
  BY <1>1 DEF ErrorInv
<1>2. ~uartSeen.backlog /\ Len(fifo) = 0 /\ fifo' = fifo
  BY <1>1, FifoEmpty
<1>3. /\ Delivered' = uartSeen.got /\ Len(uartSeen.got) \in Nat /\ Len(Delivered) \in Nat
      /\ Len(uartSeen.got) <= Len(Delivered)
      /\ \A i \in 1 .. Len(uartSeen.got) : uartSeen.got[i] = Delivered[i]
  BY <1>0, EndDrops, SeenChanges
<1>4. ASSUME NEW i \in 1 .. Len(Delivered') PROVE Delivered'[i] \notin uartSeen.bad
  <2>1. i \in 1 .. Len(Delivered) /\ Delivered'[i] = Delivered[i] BY <1>3
  <2>. QED BY <2>1, <1>2 DEF ErrorInv
<1>5. \A n \in Nat : ~Pending(n)' BY <1>1, <1>2 DEF Pending
<1>. QED BY <1>1, <1>2, <1>4, <1>5 DEF ErrorInv

LEMMA ErrorComes ==
  ASSUME UartTypeOK, ArrivalInv, ErrorInv, NEW bad \in BOOLEAN, ByteArrives(bad),
         Delivered' = Delivered
  PROVE  ErrorInv'
<1> DEFINE n == uartSeen.came + 1
<1>1. /\ uartSeen.came \in Nat /\ irqByte \in Nat /\ fifo \in Seq(Nat)
      /\ Delivered \in Seq(Nat) /\ Len(Delivered) \in Nat
      /\ \A i \in 1 .. Len(Delivered) : Delivered[i] \in Nat
  BY DeliveredNumbers, TypeGives
<1>2. n \in Nat /\ n > uartSeen.came BY <1>1
<1>3. /\ uartSeen'.came = n /\ uartSeen'.discarded = uartSeen.discarded /\ irqByte' = irqByte
      /\ uartSeen'.bad = IF bad THEN uartSeen.bad \union {n} ELSE uartSeen.bad
      /\ uartSeen'.backlog = (uartSeen.backlog \/ fifo # <<>> \/ irqByte # 0)
  BY SeenChanges DEF ByteArrives
<1>4. IF Len(fifo) = FifoSize THEN UNCHANGED fifo
      ELSE fifo' = Append(fifo, n) /\ errorsrc' = IF bad THEN errorsrc \union {"framing"} ELSE errorsrc
  BY DEF ByteArrives
<1> HIDE DEF n
<1>5. uartSeen.bad \subseteq 0 .. uartSeen.came BY DEF ErrorInv
<1>6. uartSeen'.bad \subseteq 0 .. n
  <2>1. 0 .. uartSeen.came \subseteq 0 .. n /\ n \in 0 .. n BY <1>1, <1>2
  <2>. QED BY <2>1, <1>3, <1>5
<1>. SUFFICES ASSUME ~uartSeen'.backlog PROVE ErrorInv'
  BY <1>3, <1>6 DEF ErrorInv
<1>7. ~uartSeen.backlog /\ fifo = <<>> /\ Len(fifo) = 0 /\ irqByte = 0
  BY <1>3, FifoEmpty
<1>8. errorsrc = {} BY <1>7 DEF ErrorInv
<1>9. Len(fifo) # FifoSize BY <1>7, UartAssumption
<1>10. Len(fifo') = 1 /\ fifo'[1] = n
  <2>1. fifo' = Append(fifo, n) BY <1>4, <1>9
  <2>. QED BY <2>1, <1>1, <1>2, <1>7, AppendProperties
<1>11. n \notin uartSeen.bad BY <1>1, <1>2, <1>5
<1>12. errorsrc' = IF n \in uartSeen'.bad THEN {"framing"} ELSE {}
  <2>1. CASE bad BY <2>1, <1>3, <1>4, <1>8, <1>9
  <2>2. CASE ~bad BY <2>2, <1>3, <1>4, <1>8, <1>9, <1>11
  <2>. QED BY <2>1, <2>2
<1>13. \A k \in Nat : Pending(k)' => k = n BY <1>3, <1>7, <1>10 DEF Pending
<1>14. ASSUME NEW i \in 1 .. Len(Delivered) PROVE Delivered[i] \notin uartSeen'.bad
  <2>1. Delivered[i] \in Nat /\ Done(Delivered[i]) BY <1>1 DEF Done
  <2>2. Delivered[i] <= uartSeen.came BY <2>1 DEF ArrivalInv
  <2>3. Delivered[i] # n BY <2>1, <2>2, <1>1, <1>2
  <2>4. Delivered[i] \notin uartSeen.bad BY <1>7 DEF ErrorInv
  <2>. QED BY <2>3, <2>4, <1>3
<1>15. uartSeen'.discarded \subseteq uartSeen'.bad BY <1>3, <1>7 DEF ErrorInv
<1>16. Len(fifo') <= 1 /\ (irqByte' # 0 => Len(fifo') = 0) BY <1>3, <1>7, <1>10
<1>17. ~(irqByte' = 0 /\ Len(fifo') = 0) BY <1>10
<1>. QED BY <1>3, <1>6, <1>12, <1>13, <1>14, <1>15, <1>16, <1>17 DEF ErrorInv

LEMMA ErrorTakes ==
  ASSUME UartTypeOK, ArrivalInv, ErrorInv, IrqTakes, Delivered' = Delivered
  PROVE  ErrorInv'
<1>1. /\ irqByte = 0 /\ Len(fifo) \in Nat /\ Len(fifo) > 0
      /\ irqByte' = fifo[1] /\ Len(fifo') = Len(fifo) - 1
  BY TakenFromFifo
<1>2. uartSeen' = uartSeen /\ errorsrc' = errorsrc BY DEF IrqTakes
<1>. SUFFICES ASSUME ~uartSeen.backlog PROVE ErrorInv'
  BY <1>2 DEF ErrorInv
<1>3. Len(fifo) <= 1 BY DEF ErrorInv
<1>4. Len(fifo') = 0 BY <1>1, <1>3
<1>5. 1 \in 1 .. Len(fifo) BY <1>1
<1>6. fifo[1] \in Nat BY <1>5, TypeGives
<1>7. irqByte' # 0 BY <1>1, <1>5, <1>6 DEF ArrivalInv
<1>8. \A n \in Nat : Pending(n)' => Pending(n) BY <1>1, <1>4, <1>7 DEF Pending
<1>. QED BY <1>2, <1>4, <1>7, <1>8 DEF ErrorInv

LEMMA ErrorDiscards ==
  ASSUME UartTypeOK, ErrorInv, IrqDiscards, Delivered' = Delivered
  PROVE  ErrorInv'
<1>1. /\ UNCHANGED <<uartSeen.came, uartSeen.bad, uartSeen.backlog, fifo>>
      /\ uartSeen'.discarded = uartSeen.discarded \union {irqByte}
      /\ irqByte # 0 /\ irqByte' = 0 /\ errorsrc # {} /\ errorsrc' = errorsrc \ {Flag}
  BY SeenChanges DEF IrqDiscards
<1>. SUFFICES ASSUME ~uartSeen.backlog PROVE ErrorInv'
  BY <1>1 DEF ErrorInv
<1>2. irqByte \in Nat /\ Pending(irqByte) BY <1>1, TypeGives DEF Pending
<1>3. errorsrc = {"framing"} /\ irqByte \in uartSeen.bad BY <1>1, <1>2 DEF ErrorInv
<1>4. Flag = "framing" /\ errorsrc' = {} BY <1>1, <1>3 DEF Flag
<1>5. Len(fifo) = 0 BY <1>1 DEF ErrorInv
<1>6. \A n \in Nat : ~Pending(n)' BY <1>1, <1>5 DEF Pending
<1>. QED BY <1>1, <1>3, <1>4, <1>5, <1>6 DEF ErrorInv

LEMMA ErrorStores ==
  ASSUME UartTypeOK, LooksAtByte, ErrorInv, IrqStores
  PROVE  ErrorInv'
<1>1. /\ UNCHANGED <<uartSeen.came, uartSeen.bad, uartSeen.discarded, uartSeen.backlog, fifo>>
      /\ irqByte # 0 /\ irqByte' = 0 /\ errorsrc = {} /\ errorsrc' = errorsrc
  BY SeenChanges DEF IrqStores
<1>. SUFFICES ASSUME ~uartSeen.backlog PROVE ErrorInv'
  BY <1>1 DEF ErrorInv
<1>2. irqByte \in Nat /\ Pending(irqByte) BY <1>1, TypeGives DEF Pending
<1>3. irqByte \notin uartSeen.bad BY <1>1, <1>2 DEF ErrorInv
<1>4. Len(fifo) = 0 BY <1>1 DEF ErrorInv
<1>5. \A n \in Nat : ~Pending(n)' BY <1>1, <1>4 DEF Pending
<1>6. UartSeq /\ Delivered \in Seq(Nat) /\ Len(Delivered) \in Nat
  BY TypeGives, DeliveredNumbers
<1>7. \A i \in 1 .. Len(Delivered') : Delivered'[i] \notin uartSeen.bad
  <2>1. CASE NextHead = rxTail BY <2>1, RefusedDelivers DEF ErrorInv
  <2>2. CASE NextHead # rxTail
    <3>1. Delivered' = Append(Delivered, irqByte)
      BY <1>6, <2>2, StoredIsDelivered DEF IrqStores
    <3>2. /\ Len(Delivered') = Len(Delivered) + 1 /\ Delivered'[Len(Delivered) + 1] = irqByte
          /\ \A i \in 1 .. Len(Delivered) : Delivered'[i] = Delivered[i]
      BY <3>1, <1>2, <1>6, AppendProperties
    <3>3. \A i \in 1 .. Len(Delivered') : i \in 1 .. Len(Delivered) \/ i = Len(Delivered) + 1
      BY <3>2, <1>6
    <3>. QED BY <3>2, <3>3, <1>3 DEF ErrorInv
  <2>. QED BY <2>1, <2>2
<1>. QED BY <1>1, <1>4, <1>5, <1>7 DEF ErrorInv

LEMMA ErrorStep ==
  ASSUME UartTypeOK, LooksAtByte, ArrivalInv, ErrorInv, [UartNext]_uartVars
  PROVE  ErrorInv'
<1>0. UartSeq BY TypeGives
<1>1. CASE BeginTx \/ Begin \/ BeginClears \/ Write \/ Flush \/ ByteIsSent \/ UNCHANGED uartVars
  <2>1. Delivered' = Delivered BY <1>1, QuietDelivers
  <2>2. UNCHANGED <<fifo, irqByte, errorsrc>>
    BY <1>1 DEF BeginTx, Begin, BeginClears, Write, Flush, ByteIsSent, uartVars, rxVars
  <2>3. UNCHANGED <<uartSeen.came, uartSeen.bad, uartSeen.discarded, uartSeen.backlog>>
    BY <1>1, SeenChanges DEF ByteIsSent, uartVars
  <2>. QED BY <2>1, <2>2, <2>3, ErrorKept
<1>2. CASE ReadLooks \/ ReadMoves
  <2>1. Delivered' = Delivered
    BY <1>0, <1>2, LookedAtIsDelivered, MovedIsDelivered, SeenChanges
  <2>2. UNCHANGED <<fifo, irqByte, errorsrc>> BY <1>2 DEF ReadLooks, ReadMoves, rxVars
  <2>3. UNCHANGED <<uartSeen.came, uartSeen.bad, uartSeen.discarded, uartSeen.backlog>>
    BY <1>2, SeenChanges DEF ReadMoves
  <2>. QED BY <2>1, <2>2, <2>3, ErrorKept
<1>3. CASE End BY <1>3, ErrorEnd
<1>4. ASSUME NEW bad \in BOOLEAN, ByteArrives(bad) PROVE ErrorInv'
  BY <1>4, QuietDelivers, ErrorComes
<1>5. CASE IrqTakes BY <1>5, QuietDelivers, ErrorTakes
<1>6. CASE IrqDiscards BY <1>6, QuietDelivers, ErrorDiscards
<1>7. CASE IrqStores BY <1>7, ErrorStores
<1>. QED BY <1>1, <1>2, <1>3, <1>4, <1>5, <1>6, <1>7 DEF UartNext

-----------------------------------------------------------------------------
LEMMA UartInvInit == UartInit => UartInv
<1>. SUFFICES ASSUME UartInit PROVE UartInv OBVIOUS
<1>0. BuffSize \in Nat \ {0} /\ 0 \in 0 .. BuffSize - 1 BY UartAssumption
<1>1. /\ uartSeen.came = 0 /\ uartSeen.got = <<>> /\ uartSeen.bad = {} /\ uartSeen.discarded = {}
      /\ uartSeen.refused = {} /\ ~uartSeen.cut /\ ~uartSeen.blind
      /\ uartSeen \in SeenType
  BY EmptySeq DEF UartInit, SeenType
<1>2. UartTypeOK
  <2>1. rxBuff \in [0 .. BuffSize - 1 -> Nat] BY DEF UartInit
  <2>2. fifo \in Seq(Nat) BY EmptySeq DEF UartInit
  <2>. QED BY <1>0, <1>1, <2>1, <2>2 DEF UartInit, UartTypeOK
<1>3. Unread = 0
  <2>1. (BuffSize + 0 - 0) % BuffSize = IF 0 <= 0 THEN 0 - 0 ELSE BuffSize + 0 - 0
    BY <1>0, UnreadIs
  <2>. QED BY <2>1 DEF UartInit, Unread
<1>4. Len(Delivered) = 0
  <2>1. UartSeq BY <1>2, TypeGives
  <2>2. Behind = <<>> BY <1>3, <2>1, BehindIsSeq
  <2>3. Delivered = <<>> BY <1>1, <2>2, ConcatEmptySeq, EmptySeq DEF Delivered
  <2>. QED BY <2>3
<1>5. Len(fifo) = 0 /\ irqByte = 0 /\ errorsrc = {} BY DEF UartInit
<1>6. LooksAtByte /\ EventInv /\ SendInv
  BY <1>1, <1>5 DEF UartInit, LooksAtByte, EventInv, SendInv
<1>7. \A i \in 1 .. Len(Delivered) : FALSE BY <1>4
<1>8. \A i \in 1 .. Len(fifo) : FALSE BY <1>5
<1>9. \A n \in Nat : ~Done(n) BY <1>1, <1>7 DEF Done, Lost
<1>10. ArrivalInv BY <1>1, <1>5, <1>7, <1>8, <1>9 DEF ArrivalInv
<1>11. \A n \in Nat : ~Pending(n) BY <1>5 DEF Pending
<1>12. ErrorInv BY <1>1, <1>5, <1>7, <1>11 DEF ErrorInv
<1>. QED BY <1>2, <1>6, <1>10, <1>12 DEF UartInv

LEMMA UartInvImplies == UartInv => SerialInOrder
<1>. SUFFICES ASSUME UartInv PROVE SerialInOrder OBVIOUS
<1>1. /\ \A i, j \in 1 .. Len(Delivered) : i < j => Delivered[i] < Delivered[j]
      /\ \A i \in 1 .. Len(Delivered) : Delivered[i] \notin Lost
  BY DEF UartInv, ArrivalInv
<1>2. ~uartSeen.backlog =>
          /\ uartSeen.discarded \subseteq uartSeen.bad
          /\ \A i \in 1 .. Len(Delivered) : Delivered[i] \notin uartSeen.bad
  BY DEF UartInv, ErrorInv
<1>3. irqOn /\ fifo # <<>> => rxdrdy \/ uartSeen.blind BY DEF UartInv, EventInv
<1>4. uartSeen.cut => uartSeen.again BY DEF UartInv, SendInv
<1>. QED BY <1>1, <1>2, <1>3, <1>4 DEF SerialInOrder, Lost

(* The program reads the bytes that came, in their order and each once; an *)
(* error costs its own byte unless the handler is behind; no event is lost *)
(* but while begin starts; and only a begin without an end cuts a byte off.*)
THEOREM SerialInOrderAlways == UartSpec => []SerialInOrder
<1>1. UartInit => UartInv BY UartInvInit
<1>2. UartInv /\ [UartNext]_uartVars => UartInv'
  <2>. SUFFICES ASSUME UartInv, [UartNext]_uartVars PROVE UartInv' OBVIOUS
  <2>1. UartTypeOK /\ LooksAtByte /\ ArrivalInv /\ ErrorInv /\ EventInv /\ SendInv
    BY DEF UartInv
  <2>2. UartTypeOK' BY <2>1, UartTypeStep
  <2>3. LooksAtByte' BY <2>1, LooksStep
  <2>4. ArrivalInv' BY <2>1, ArrivalStep
  <2>5. ErrorInv' BY <2>1, ErrorStep
  <2>6. EventInv' BY <2>1, EventStep
  <2>7. SendInv' BY <2>1, SendStep
  <2>. QED BY <2>2, <2>3, <2>4, <2>5, <2>6, <2>7 DEF UartInv
<1>3. UartInv => SerialInOrder BY UartInvImplies
<1>. QED BY <1>1, <1>2, <1>3, PTL DEF UartSpec

-----------------------------------------------------------------------------
(* The buffered BLE transceiver: LinkServed.                               *)

Bytes == 0 .. MaxReceived
AcEvents == [event : {"CONNECTED", "DISCONNECTED", "WRITE"}, bytes : Seq(Nat)]
AcSeenType == [connects : {0, 1}, links : Nat, came : Nat, popped : Seq(Bytes),
               refused : SUBSET Nat, withError : SUBSET Nat]

AcTypeOK ==
    /\ Rx!WellFormed(rx)
    /\ acLink \in {"idle", "advertising", "connected"}
    /\ acEvents \in Seq(AcEvents)
    /\ listenerAdvertises \in BOOLEAN /\ acHalt \in BOOLEAN
    /\ acSeen \in AcSeenType
    /\ acSeen.came <= MaxReceived

\* the bytes that wait in events
Arriving(E) == UNION {{E[i].bytes[j] : j \in 1 .. Len(E[i].bytes)} : i \in 1 .. Len(E)}

(* Of the bytes that came those in K are kept, in order, those in R have   *)
(* been refused, and the later ones wait in the events E, in their order.  *)
Order(K, R, E, came) ==
    /\ \A i, j \in 1 .. Len(K) : i < j => K[i] < K[j]
    /\ Members(K) \intersect R = {}
    /\ (Members(K) \union R) \union Arriving(E) = 1 .. came
    /\ \A n \in Members(K) \union R : \A m \in Arriving(E) : n < m
    /\ \A k \in 1 .. Len(E) : \A i, j \in 1 .. Len(E[k].bytes) :
          i < j => E[k].bytes[i] < E[k].bytes[j]
    /\ \A k, l \in 1 .. Len(E) : k < l =>
          \A i \in 1 .. Len(E[k].bytes), j \in 1 .. Len(E[l].bytes) :
             E[k].bytes[i] < E[l].bytes[j]
    /\ \A k \in 1 .. Len(E) : E[k].event # "WRITE" => Len(E[k].bytes) = 0

Kept == acSeen.popped \o Held
OrderInv ==
    /\ Order(Kept, acSeen.refused, acEvents, acSeen.came)
    /\ acSeen.withError \subseteq Members(acSeen.popped)

\* the event after which the transceiver advertises again
Ends(E, k) == E[k].event = "DISCONNECTED"
HasEnd(E) == \E k \in 1 .. Len(E) : Ends(E, k)
OneEnd(E) == \A k, l \in 1 .. Len(E) : Ends(E, k) /\ Ends(E, l) => k = l

LinkInv ==
    /\ acSeen.connects = 0 => acLink = "idle" /\ Len(acEvents) = 0 /\ ~acHalt
    /\ ~acHalt /\ acSeen.connects > 0 => (acLink = "idle" <=> HasEnd(acEvents))
    /\ OneEnd(acEvents)
    /\ acHalt => listenerAdvertises

AcInv == AcTypeOK /\ OrderInv /\ LinkInv

-----------------------------------------------------------------------------
(* The receive buffer: what a well-formed ring holds.                      *)
Content(r) == [i \in 1 .. Rx!Fill(r) |-> r.buf[Rx!SlotOf(r, i)]]

LEMMA RxFields ==
  ASSUME NEW r, Rx!WellFormed(r)
  PROVE  /\ r.end \in Nat /\ r.end < RxSize /\ r.start \in Nat /\ r.start < RxSize
         /\ r.bEnd \in {0, 1} /\ r.bStart \in {0, 1}
         /\ r.buf \in [0 .. RxSize - 1 -> Bytes]
         /\ r = [buf |-> r.buf, end |-> r.end, start |-> r.start,
                 bEnd |-> r.bEnd, bStart |-> r.bStart]
         /\ Rx!Fill(r) \in Nat /\ Rx!Fill(r) <= RxSize
         /\ RxSize \in Nat \ {0}
         /\ Rx!Fill(r) = IF r.bStart = r.bEnd THEN r.end - r.start ELSE RxSize + r.end - r.start
<1>1. /\ r.end \in 0 .. RxSize /\ r.end < RxSize /\ r.start \in 0 .. RxSize - 1
      /\ r.bEnd \in {0, 1} /\ r.bStart \in {0, 1}
      /\ r.buf \in [0 .. RxSize - 1 -> Bytes]
      /\ r = [buf |-> r.buf, end |-> r.end, start |-> r.start,
              bEnd |-> r.bEnd, bStart |-> r.bStart]
  BY DEF Rx!WellFormed, Rx!Ring, Rx!Slots, Bytes
<1>2. Rx!Fill(r) \in 0 .. RxSize BY DEF Rx!WellFormed
<1>3. Rx!Fill(r) = IF r.bStart = r.bEnd THEN r.end - r.start ELSE RxSize + r.end - r.start
  BY DEF Rx!Fill
<1>. QED BY <1>1, <1>2, <1>3, AcAssumption

LEMMA FieldsMakeRx ==
  ASSUME NEW e \in 0 .. RxSize - 1, NEW s \in 0 .. RxSize - 1, NEW be \in {0, 1}, NEW bs \in {0, 1},
         NEW b \in [0 .. RxSize - 1 -> Bytes],
         bs = be => s <= e, bs # be => e <= s
  PROVE  LET r == [buf |-> b, end |-> e, start |-> s, bEnd |-> be, bStart |-> bs]
         IN  /\ Rx!WellFormed(r)
             /\ Rx!Fill(r) = IF bs = be THEN e - s ELSE RxSize + e - s
<1> DEFINE r == [buf |-> b, end |-> e, start |-> s, bEnd |-> be, bStart |-> bs]
<1>0. RxSize \in Nat \ {0} BY AcAssumption
<1>1. r.end = e /\ r.start = s /\ r.bEnd = be /\ r.bStart = bs OBVIOUS
<1>2. Rx!Fill(r) = IF bs = be THEN e - s ELSE RxSize + e - s BY <1>1 DEF Rx!Fill
<1>3. Rx!Fill(r) \in 0 .. RxSize BY <1>0, <1>2
<1>4. e \in 0 .. RxSize /\ e < RxSize BY <1>0
<1>5. r \in Rx!Ring BY <1>4 DEF Rx!Ring, Rx!Slots, Bytes
<1>6. Rx!WellFormed(r) BY <1>1, <1>3, <1>4, <1>5 DEF Rx!WellFormed
<1>. QED BY <1>2, <1>6

LEMMA SlotIs ==
  ASSUME NEW r, Rx!WellFormed(r), NEW i \in 1 .. RxSize
  PROVE  /\ Rx!SlotOf(r, i) = IF r.start + i <= RxSize THEN (r.start + i) - 1
                              ELSE ((r.start + i) - 1) - RxSize
         /\ Rx!SlotOf(r, i) \in 0 .. RxSize - 1
<1>1. r.start \in Nat /\ r.start < RxSize /\ RxSize \in Nat \ {0} BY RxFields
<1>2. Rx!SlotOf(r, i) = IF r.start + i - 1 < RxSize THEN r.start + i - 1
                        ELSE r.start + i - 1 - RxSize
  BY DEF Rx!SlotOf
<1>3. CASE r.start + i <= RxSize BY <1>1, <1>2, <1>3
<1>4. CASE ~(r.start + i <= RxSize) BY <1>1, <1>2, <1>4
<1>. QED BY <1>3, <1>4

LEMMA ContentIsSeq ==
  ASSUME NEW r, Rx!WellFormed(r)
  PROVE  /\ Content(r) \in Seq(Bytes) /\ Len(Content(r)) = Rx!Fill(r)
         /\ \A i \in 1 .. Rx!Fill(r) : Content(r)[i] = r.buf[Rx!SlotOf(r, i)]
         /\ Rx!RemainingSpace(r) = RxSize - Rx!Fill(r)
         /\ Rx!ElementsAvailable(r) <=> Rx!Fill(r) # 0
<1>1. /\ Rx!Fill(r) \in Nat /\ Rx!Fill(r) <= RxSize /\ RxSize \in Nat \ {0}
      /\ r.buf \in [0 .. RxSize - 1 -> Bytes]
      /\ r.end \in Nat /\ r.end < RxSize /\ r.start \in Nat /\ r.start < RxSize
      /\ r.bEnd \in {0, 1} /\ r.bStart \in {0, 1}
      /\ Rx!Fill(r) = IF r.bStart = r.bEnd THEN r.end - r.start ELSE RxSize + r.end - r.start
  BY RxFields
<1>2. ASSUME NEW i \in 1 .. Rx!Fill(r) PROVE r.buf[Rx!SlotOf(r, i)] \in Bytes
  <2>1. i \in 1 .. RxSize BY <1>1
  <2>2. Rx!SlotOf(r, i) \in 0 .. RxSize - 1 BY <2>1, SlotIs
  <2>. QED BY <2>2, <1>1
<1>3. Content(r) \in [1 .. Rx!Fill(r) -> Bytes] BY <1>2 DEF Content
<1>4. Content(r) \in Seq(Bytes) /\ Len(Content(r)) = Rx!Fill(r) BY <1>1, <1>3
<1>5. Rx!RemainingSpace(r) = RxSize - Rx!Fill(r)
  <2>1. CASE r.end = r.start /\ r.bStart # r.bEnd
    BY <1>1, <2>1 DEF Rx!RemainingSpace, Rx!IsFull
  <2>2. CASE ~(r.end = r.start /\ r.bStart # r.bEnd)
    <3> DEFINE a == RxSize - 1 - (r.end - r.start)
    <3>1. Rx!RemainingSpace(r) = (a % RxSize) + 1
      BY <2>2 DEF Rx!RemainingSpace, Rx!IsFull
    <3>2. a \in 0 .. 2 * RxSize - 1 BY <1>1
    <3>3. a = (RxSize - 1) - (r.end - r.start) BY <1>1
    <3> HIDE DEF a
    <3>4. a % RxSize = IF a < RxSize THEN a ELSE a - RxSize BY <3>2, <1>1, WrapsOnce
    <3>5. (IF a < RxSize THEN a ELSE a - RxSize) + 1 = RxSize - Rx!Fill(r)
      <4>1. CASE r.bStart = r.bEnd
        <5>1. Rx!Fill(r) = r.end - r.start BY <4>1, <1>1
        <5>2. a < RxSize BY <5>1, <3>3, <1>1
        <5>. QED BY <5>1, <5>2, <3>3, <1>1
      <4>2. CASE r.bStart # r.bEnd
        <5>1. Rx!Fill(r) = (RxSize + r.end) - r.start BY <4>2, <1>1
        <5>2. r.end < r.start BY <4>2, <2>2, <5>1, <1>1
        <5>3. a >= RxSize BY <5>2, <3>3, <1>1
        <5>4. (IF a < RxSize THEN a ELSE a - RxSize) = a - RxSize BY <5>3, <3>2, <1>1
        <5>5. a = (RxSize - 1) - (r.end - r.start) BY <3>3
        <5>6. (a - RxSize) + 1 = RxSize - ((RxSize + r.end) - r.start) 
          <6>1. \A x, y \in Nat : (((RxSize - 1) - (x - y)) - RxSize) + 1 = RxSize - ((RxSize + x) - y)
            BY AcAssumption
          <6>. QED BY <6>1, <5>5, <1>1
        <5>. QED BY <5>1, <5>4, <5>6
      <4>. QED BY <4>1, <4>2
    <3>. QED BY <3>1, <3>4, <3>5
  <2>. QED BY <2>1, <2>2
<1>6. Rx!ElementsAvailable(r) <=> Rx!Fill(r) # 0
  BY <1>1 DEF Rx!ElementsAvailable
<1>. QED BY <1>4, <1>5, <1>6 DEF Content

LEMMA PushAppends ==
  ASSUME NEW r, Rx!WellFormed(r), Rx!Fill(r) < RxSize, NEW e \in Bytes
  PROVE  /\ Rx!WellFormed(Rx!PushElement(r, e))
         /\ Content(Rx!PushElement(r, e)) = Append(Content(r), e)
<1> DEFINE wraps == r.end + 1 >= RxSize
           b == [r.buf EXCEPT ![r.end] = e]
           end == IF wraps THEN 0 ELSE r.end + 1
           bit == IF wraps THEN 1 - r.bEnd ELSE r.bEnd
           p == [buf |-> b, end |-> end, start |-> r.start, bEnd |-> bit, bStart |-> r.bStart]
<1>1. /\ Rx!Fill(r) \in Nat /\ RxSize \in Nat \ {0}
      /\ r.buf \in [0 .. RxSize - 1 -> Bytes]
      /\ r.end \in Nat /\ r.end < RxSize /\ r.start \in Nat /\ r.start < RxSize
      /\ r.bEnd \in {0, 1} /\ r.bStart \in {0, 1}
      /\ Rx!Fill(r) = IF r.bStart = r.bEnd THEN r.end - r.start ELSE RxSize + r.end - r.start
      /\ r = [buf |-> r.buf, end |-> r.end, start |-> r.start,
              bEnd |-> r.bEnd, bStart |-> r.bStart]
  BY RxFields
<1>2. Rx!PushElement(r, e) = p
  <2> DEFINE stored == Rx!IncrEnd(Rx!StoreElement(r, e))
  <2>1. stored = [buf |-> b, end |-> r.end + 1, start |-> r.start,
                  bEnd |-> r.bEnd, bStart |-> r.bStart]
    <3>1. Rx!StoreElement(r, e) = [buf |-> b, end |-> r.end, start |-> r.start,
                                   bEnd |-> r.bEnd, bStart |-> r.bStart]
      <4>1. Rx!StoreElement(r, e) = [r EXCEPT !.buf = b] BY DEF Rx!StoreElement
      <4> HIDE DEF b
      <4>. QED BY <4>1, <1>1
    <3> HIDE DEF b
    <3>. QED BY <3>1 DEF Rx!IncrEnd
  <2>2. Rx!PushElement(r, e) = IF stored.end >= RxSize THEN Rx!ResetEnd(Rx!ToggleEnd(stored))
                               ELSE stored
    BY DEF Rx!PushElement, Rx!EndWraps
  <2> HIDE DEF stored
  <2>3. CASE wraps
    <3> HIDE DEF b
    <3>1. Rx!ToggleEnd(stored) = [buf |-> b, end |-> r.end + 1, start |-> r.start,
                                  bEnd |-> 1 - r.bEnd, bStart |-> r.bStart]
      BY <2>1 DEF Rx!ToggleEnd
    <3>2. end = 0 /\ bit = 1 - r.bEnd BY <2>3
    <3>3. Rx!ResetEnd(Rx!ToggleEnd(stored)) = p
      BY <3>1, <3>2 DEF Rx!ResetEnd
    <3>. QED BY <2>1, <2>2, <2>3, <3>3
  <2>4. CASE ~wraps BY <2>1, <2>2, <2>4
  <2>. QED BY <2>3, <2>4
<1>3. b \in [0 .. RxSize - 1 -> Bytes] BY <1>1
<1>4. /\ end \in 0 .. RxSize - 1 /\ bit \in {0, 1} /\ r.start \in 0 .. RxSize - 1
      /\ r.bStart = bit => r.start <= end
      /\ r.bStart # bit => end <= r.start
  <2>1. CASE wraps BY <2>1, <1>1
  <2>2. CASE ~wraps BY <2>2, <1>1
  <2>. QED BY <2>1, <2>2
<1>5. IF r.bStart = bit THEN end - r.start = Rx!Fill(r) + 1
                        ELSE (RxSize + end) - r.start = Rx!Fill(r) + 1
  <2>1. CASE wraps BY <2>1, <1>1
  <2>2. CASE ~wraps BY <2>2, <1>1
  <2>. QED BY <2>1, <2>2
<1> HIDE DEF b, end, bit
<1>6. Rx!WellFormed(p) /\ Rx!Fill(p) = Rx!Fill(r) + 1
  <2>1. Rx!WellFormed(p) /\ Rx!Fill(p) = IF r.bStart = bit THEN end - r.start
                                         ELSE RxSize + end - r.start
    BY <1>1, <1>3, <1>4, FieldsMakeRx
  <2>. QED BY <2>1, <1>1, <1>4, <1>5
<1>7. p.buf = b /\ p.start = r.start OBVIOUS
<1> HIDE DEF p
<1>8. /\ Content(r) \in Seq(Bytes) /\ Len(Content(r)) = Rx!Fill(r)
      /\ \A i \in 1 .. Rx!Fill(r) : Content(r)[i] = r.buf[Rx!SlotOf(r, i)]
  BY ContentIsSeq
<1>9. /\ Content(p) \in Seq(Bytes) /\ Len(Content(p)) = Rx!Fill(r) + 1
      /\ \A i \in 1 .. Rx!Fill(r) + 1 : Content(p)[i] = p.buf[Rx!SlotOf(p, i)]
  BY <1>6, ContentIsSeq
<1>10. /\ Append(Content(r), e) \in Seq(Bytes)
       /\ Len(Append(Content(r), e)) = Rx!Fill(r) + 1
       /\ \A i \in 1 .. Rx!Fill(r) : Append(Content(r), e)[i] = Content(r)[i]
       /\ Append(Content(r), e)[Rx!Fill(r) + 1] = e
  BY <1>8, AppendProperties
<1>11. ASSUME NEW i \in 1 .. Rx!Fill(r) + 1 PROVE Content(p)[i] = Append(Content(r), e)[i]
  <2>1. i \in 1 .. RxSize BY <1>1
  <2>2. /\ Rx!SlotOf(p, i) = Rx!SlotOf(r, i)
        /\ Rx!SlotOf(r, i) \in 0 .. RxSize - 1
        /\ Rx!SlotOf(r, i) = IF r.start + i <= RxSize THEN (r.start + i) - 1
                              ELSE ((r.start + i) - 1) - RxSize
    BY <2>1, <1>6, <1>7, SlotIs
  <2>3. CASE i \in 1 .. Rx!Fill(r)
    <3>1. Rx!SlotOf(r, i) # r.end
      <4>1. CASE r.bStart = r.bEnd BY <4>1, <2>2, <2>3, <1>1
      <4>2. CASE r.bStart # r.bEnd BY <4>2, <2>2, <2>3, <1>1
      <4>. QED BY <4>1, <4>2
    <3>2. b[Rx!SlotOf(r, i)] = r.buf[Rx!SlotOf(r, i)] BY <3>1, <2>2, <1>1 DEF b
    <3>. QED BY <3>2, <2>2, <2>3, <1>7, <1>8, <1>9, <1>10
  <2>4. CASE i = Rx!Fill(r) + 1
    <3>1. Rx!SlotOf(r, i) = r.end
      <4>1. CASE r.bStart = r.bEnd BY <4>1, <2>2, <2>4, <1>1
      <4>2. CASE r.bStart # r.bEnd BY <4>2, <2>2, <2>4, <1>1
      <4>. QED BY <4>1, <4>2
    <3>2. b[r.end] = e BY <1>1 DEF b
    <3>. QED BY <3>1, <3>2, <2>2, <2>4, <1>7, <1>9, <1>10
  <2>5. i \in 1 .. Rx!Fill(r) \/ i = Rx!Fill(r) + 1 BY <1>1
  <2>. QED BY <2>3, <2>4, <2>5
<1>12. Content(p) = Append(Content(r), e) BY <1>9, <1>10, <1>11, SeqEqual
<1>. QED BY <1>2, <1>6, <1>12

LEMMA PopTakes ==
  ASSUME NEW r, Rx!WellFormed(r), Rx!Fill(r) # 0
  PROVE  /\ Rx!WellFormed(Rx!PopElement(r))
         /\ Content(r) # <<>>
         /\ Content(Rx!PopElement(r)) = Tail(Content(r))
         /\ Rx!Front(r) = Head(Content(r))
<1> DEFINE wraps == r.start + 1 >= RxSize
           start == IF wraps THEN 0 ELSE r.start + 1
           bit == IF wraps THEN 1 - r.bStart ELSE r.bStart
           p == [buf |-> r.buf, end |-> r.end, start |-> start, bEnd |-> r.bEnd, bStart |-> bit]
<1>1. /\ Rx!Fill(r) \in Nat /\ RxSize \in Nat \ {0} /\ Rx!Fill(r) <= RxSize
      /\ r.buf \in [0 .. RxSize - 1 -> Bytes]
      /\ r.end \in Nat /\ r.end < RxSize /\ r.start \in Nat /\ r.start < RxSize
      /\ r.bEnd \in {0, 1} /\ r.bStart \in {0, 1}
      /\ Rx!Fill(r) = IF r.bStart = r.bEnd THEN r.end - r.start ELSE RxSize + r.end - r.start
      /\ r = [buf |-> r.buf, end |-> r.end, start |-> r.start,
              bEnd |-> r.bEnd, bStart |-> r.bStart]
  BY RxFields
<1>2. Rx!PopElement(r) = p
  <2>1. CASE wraps BY <2>1, <1>1 DEF Rx!PopElement
  <2>2. CASE ~wraps BY <2>2, <1>1 DEF Rx!PopElement
  <2>. QED BY <2>1, <2>2
<1>4. /\ start \in 0 .. RxSize - 1 /\ bit \in {0, 1} /\ r.end \in 0 .. RxSize - 1
      /\ bit = r.bEnd => start <= r.end
      /\ bit # r.bEnd => r.end <= start
  <2>1. CASE wraps BY <2>1, <1>1
  <2>2. CASE ~wraps BY <2>2, <1>1
  <2>. QED BY <2>1, <2>2
<1>5. IF bit = r.bEnd THEN r.end - start = Rx!Fill(r) - 1
                      ELSE (RxSize + r.end) - start = Rx!Fill(r) - 1
  <2>1. CASE wraps
    <3>1. r.start = RxSize - 1 /\ start = 0 /\ bit = 1 - r.bStart BY <2>1, <1>1
    <3>2. CASE r.bStart = r.bEnd
      <4>1. bit # r.bEnd BY <3>1, <3>2, <1>1
      <4>. QED BY <3>1, <3>2, <4>1, <1>1
    <3>3. CASE r.bStart # r.bEnd
      <4>1. bit = r.bEnd BY <3>1, <3>3, <1>1
      <4>. QED BY <3>1, <3>3, <4>1, <1>1
    <3>. QED BY <3>2, <3>3
  <2>2. CASE ~wraps BY <2>2, <1>1
  <2>. QED BY <2>1, <2>2
<1>s. start = IF r.start + 1 = RxSize THEN 0 ELSE r.start + 1 BY <1>1
<1> HIDE DEF start, bit
<1>6. Rx!WellFormed(p) /\ Rx!Fill(p) = Rx!Fill(r) - 1
  <2>1. Rx!WellFormed(p) /\ Rx!Fill(p) = IF bit = r.bEnd THEN r.end - start
                                         ELSE RxSize + r.end - start
    BY <1>1, <1>4, FieldsMakeRx
  <2>. QED BY <2>1, <1>1, <1>4, <1>5
<1>7. p.buf = r.buf /\ p.start = start OBVIOUS
<1> HIDE DEF p
<1>8. /\ Content(r) \in Seq(Bytes) /\ Len(Content(r)) = Rx!Fill(r)
      /\ \A i \in 1 .. Rx!Fill(r) : Content(r)[i] = r.buf[Rx!SlotOf(r, i)]
  BY ContentIsSeq
<1>9. /\ Content(p) \in Seq(Bytes) /\ Len(Content(p)) = Rx!Fill(r) - 1
      /\ \A i \in 1 .. Rx!Fill(r) - 1 : Content(p)[i] = p.buf[Rx!SlotOf(p, i)]
  BY <1>6, ContentIsSeq
<1>10. Content(r) # <<>> BY <1>8, EmptySeq
<1>11. /\ Tail(Content(r)) \in Seq(Bytes) /\ Len(Tail(Content(r))) = Rx!Fill(r) - 1
       /\ \A i \in 1 .. Rx!Fill(r) - 1 : Tail(Content(r))[i] = Content(r)[i + 1]
       /\ Head(Content(r)) = Content(r)[1]
  BY <1>8, <1>10, HeadTailProperties
<1>12. ASSUME NEW i \in 1 .. Rx!Fill(r) - 1 PROVE Content(p)[i] = Tail(Content(r))[i]
  <2>1. i \in 1 .. RxSize /\ i + 1 \in 1 .. RxSize /\ i + 1 \in 1 .. Rx!Fill(r) BY <1>1
  <2>2. Rx!SlotOf(p, i) = IF start + i <= RxSize THEN (start + i) - 1
                          ELSE ((start + i) - 1) - RxSize
    BY <2>1, <1>6, <1>7, SlotIs
  <2>3. Rx!SlotOf(r, i + 1) = IF r.start + (i + 1) <= RxSize THEN (r.start + (i + 1)) - 1
                              ELSE ((r.start + (i + 1)) - 1) - RxSize
    BY <2>1, SlotIs
  <2>4. Rx!SlotOf(p, i) = Rx!SlotOf(r, i + 1)
    <3>1. CASE r.start + 1 = RxSize BY <3>1, <2>1, <2>2, <2>3, <1>1, <1>s
    <3>2. CASE r.start + 1 # RxSize
      <4>1. start + i = r.start + (i + 1) BY <3>2, <1>1, <1>s
      <4>. QED BY <4>1, <2>2, <2>3
    <3>. QED BY <3>1, <3>2
  <2>. QED BY <2>1, <2>4, <1>7, <1>8, <1>9, <1>11
<1>13. Content(p) = Tail(Content(r)) BY <1>9, <1>11, <1>12, SeqEqual
<1>14. Rx!Front(r) = Head(Content(r))
  <2>1. 1 \in 1 .. RxSize /\ 1 \in 1 .. Rx!Fill(r) BY <1>1
  <2>2. Rx!SlotOf(r, 1) = r.start BY <2>1, <1>1, SlotIs
  <2>. QED BY <2>1, <2>2, <1>8, <1>11 DEF Rx!Front
<1>. QED BY <1>2, <1>6, <1>10, <1>13, <1>14

-----------------------------------------------------------------------------
(* pushElements and popElements: the loops.                                *)

(* A non-empty set of natural numbers has a least element.                 *)
LEMMA LeastElement ==
  ASSUME NEW T \in SUBSET Nat, T # {}
  PROVE  \E x \in T : \A y \in T : x <= y
<1> DEFINE R == OpToRel(<, Nat)
<1>1. IsWellFoundedOn(R, Nat) BY NatLessThanWellFounded
<1>2. PICK x \in T : \A y \in T : ~(<<y, x>> \in R)
  <2> HIDE DEF R
  <2>. QED BY <1>1, WFMin
<1>3. ASSUME NEW y \in T PROVE x <= y
  <2>1. ~(<<y, x>> \in OpToRel(<, Nat)) BY <1>2
  <2>2. ~(y < x) BY <2>1 DEF OpToRel
  <2>. QED BY <2>2
<1>. QED BY <1>3

(* There are rings that the loop of pushElements goes through.             *)
Pushed(f, r, bytes, room, n) ==
    f = [i \in 0 .. n |-> IF i = 0 THEN r
                          ELSE IF i <= room THEN Rx!PushElement(f[i - 1], bytes[i]) ELSE f[i - 1]]

LEMMA PushLoops ==
  ASSUME NEW r, NEW bytes, NEW room, NEW n \in Nat
  PROVE  \E f : Pushed(f, r, bytes, room, n)
<1> DEFINE Runs(k) == \E f : Pushed(f, r, bytes, room, k)
           T == {k \in Nat : ~Runs(k)}
<1>1. SUFFICES ASSUME T # {} PROVE FALSE
  <2>1. Runs(n)
    <3> HIDE DEF Runs
    <3>. QED BY <1>1
  <2>. QED BY <2>1
<1>2. PICK k \in T : \A j \in T : k <= j
  <2> HIDE DEF Runs
  <2>1. T \in SUBSET Nat OBVIOUS
  <2> HIDE DEF T
  <2>. QED BY <1>1, <2>1, LeastElement
<1>3. k \in Nat /\ ~Runs(k) BY <1>2
<1>4. Runs(0)
  <2> DEFINE f == [i \in 0 .. 0 |-> r]
  <2>1. Pushed(f, r, bytes, room, 0) BY DEF Pushed
  <2>. QED BY <2>1
<1>5. k # 0 BY <1>3, <1>4
<1>6. Runs(k - 1)
  <2> HIDE DEF Runs
  <2>. QED BY <1>2, <1>3, <1>5
<1>7. PICK f : Pushed(f, r, bytes, room, k - 1) BY <1>6
<1> DEFINE g == [i \in 0 .. k |->
                   IF i < k THEN f[i]
                   ELSE IF i <= room THEN Rx!PushElement(f[k - 1], bytes[k]) ELSE f[k - 1]]
           h == [i \in 0 .. k |-> IF i = 0 THEN r
                   ELSE IF i <= room THEN Rx!PushElement(g[i - 1], bytes[i]) ELSE g[i - 1]]
<1>8. ASSUME NEW i \in 0 .. k PROVE g[i] = h[i]
  <2>1. CASE i = k
    <3>1. g[i - 1] = f[k - 1] BY <2>1, <1>3, <1>5
    <3>. QED BY <2>1, <3>1, <1>3, <1>5
  <2>2. CASE i # k
    <3>1. i \in 0 .. k - 1 /\ i < k BY <2>2, <1>3
    <3>2. f[i] = IF i = 0 THEN r
                 ELSE IF i <= room THEN Rx!PushElement(f[i - 1], bytes[i]) ELSE f[i - 1]
      BY <3>1, <1>7 DEF Pushed
    <3>3. i # 0 => g[i - 1] = f[i - 1] BY <3>1, <1>3
    <3>4. g[i] = f[i] BY <3>1
    <3>. QED BY <3>2, <3>3, <3>4
  <2>. QED BY <2>1, <2>2
<1>9. g = h
  <2>1. g = [i \in 0 .. k |-> g[i]] OBVIOUS
  <2>2. h = [i \in 0 .. k |-> h[i]] OBVIOUS
  <2> HIDE DEF g, h
  <2>. QED BY <2>1, <2>2, <1>8
<1>10. Pushed(g, r, bytes, room, k)
  <2>1. h = [i \in 0 .. k |-> IF i = 0 THEN r
                   ELSE IF i <= room THEN Rx!PushElement(g[i - 1], bytes[i]) ELSE g[i - 1]]
    OBVIOUS
  <2> HIDE DEF g, h
  <2>. QED BY <2>1, <1>9 DEF Pushed
<1>. QED
  <2> HIDE DEF g
  <2>. QED BY <1>3, <1>10

LEMMA PushElementsRuns ==
  ASSUME NEW r, NEW bytes, Len(bytes) \in Nat
  PROVE  \E f : /\ Pushed(f, r, bytes, Rx!RemainingSpace(r), Len(bytes))
                /\ PushElements(r, bytes) = f[Len(bytes)]
<1> DEFINE room == Rx!RemainingSpace(r)
           loop == CHOOSE f : Pushed(f, r, bytes, room, Len(bytes))
<1>1. \E f : Pushed(f, r, bytes, room, Len(bytes))
  <2> HIDE DEF room
  <2>. QED BY PushLoops
<1>2. Pushed(loop, r, bytes, room, Len(bytes))
  <2> HIDE DEF room
  <2>. QED BY <1>1
<1>3. PushElements(r, bytes) = loop[Len(bytes)] BY DEF PushElements, Pushed
<1>. QED
  <2> HIDE DEF loop
  <2>. QED BY <1>2, <1>3

(* What pushElements does: it appends the bytes for which there is room.   *)
Fitting(r, n) == IF n <= Rx!RemainingSpace(r) THEN n ELSE Rx!RemainingSpace(r)

LEMMA PushedContent ==
  ASSUME NEW r, Rx!WellFormed(r), NEW bytes \in Seq(Bytes)
  PROVE  /\ Rx!WellFormed(PushElements(r, bytes))
         /\ Len(Content(PushElements(r, bytes))) = Len(Content(r)) + Fitting(r, Len(bytes))
         /\ \A i \in 1 .. Len(Content(r)) : Content(PushElements(r, bytes))[i] = Content(r)[i]
         /\ \A i \in 1 .. Fitting(r, Len(bytes)) :
               Content(PushElements(r, bytes))[Len(Content(r)) + i] = bytes[i]
<1> DEFINE n == Len(bytes)
           room == Rx!RemainingSpace(r)
           L == Len(Content(r))
<1>1. /\ L \in Nat /\ L <= RxSize /\ room = RxSize - L /\ room \in Nat
      /\ RxSize \in Nat \ {0}
  <2>1. L = Rx!Fill(r) /\ room = RxSize - Rx!Fill(r) BY ContentIsSeq
  <2> HIDE DEF L, room
  <2>. QED BY <2>1, RxFields
<1>2. n \in Nat /\ \A i \in 1 .. n : bytes[i] \in Bytes
  BY LenProperties, ElementOfSeq
<1>3. PICK f : Pushed(f, r, bytes, room, n) /\ PushElements(r, bytes) = f[n]
  BY <1>2, PushElementsRuns
<1> HIDE DEF n, room, L
<1>4. /\ f[0] = r
      /\ \A i \in 1 .. n : f[i] = IF i <= room THEN Rx!PushElement(f[i - 1], bytes[i])
                                  ELSE f[i - 1]
  <2>1. f = [i \in 0 .. n |-> IF i = 0 THEN r
                          ELSE IF i <= room THEN Rx!PushElement(f[i - 1], bytes[i]) ELSE f[i - 1]]
    BY <1>3 DEF Pushed
  <2>2. 0 \in 0 .. n /\ \A i \in 1 .. n : i \in 0 .. n /\ i # 0 BY <1>2
  <2>3. f[0] = r BY <2>1, <2>2, Zenon
  <2>4. ASSUME NEW i \in 1 .. n
        PROVE  f[i] = IF i <= room THEN Rx!PushElement(f[i - 1], bytes[i]) ELSE f[i - 1]
    BY <2>1, <2>2, Zenon
  <2>. QED BY <2>3, <2>4
<1> DEFINE took(k) == IF k <= room THEN k ELSE room
           Good(k) == /\ Rx!WellFormed(f[k])
                      /\ Len(Content(f[k])) = L + took(k)
                      /\ \A i \in 1 .. L : Content(f[k])[i] = Content(r)[i]
                      /\ \A i \in 1 .. took(k) : Content(f[k])[L + i] = bytes[i]
           T == {k \in 0 .. n : ~Good(k)}
<1>5. Good(0) BY <1>1, <1>4 DEF L
<1>6. ASSUME NEW k \in 1 .. n, Good(k - 1) PROVE Good(k)
  <2> DEFINE q == f[k - 1]
             t == took(k - 1)
  <2>0. /\ Rx!WellFormed(q) /\ Len(Content(q)) = L + t
        /\ \A i \in 1 .. L : Content(q)[i] = Content(r)[i]
        /\ \A i \in 1 .. t : Content(q)[L + i] = bytes[i]
    BY <1>6
  <2>k. k \in Nat /\ k # 0 /\ k - 1 \in Nat /\ n \in Nat BY <1>2
  <2>1. CASE k <= room
    <3>1. t = k - 1 /\ took(k) = k /\ t \in Nat BY <2>1, <2>k, <1>1
    <3>2. f[k] = Rx!PushElement(q, bytes[k]) /\ bytes[k] \in Bytes BY <2>1, <1>2, <1>4
    <3> HIDE DEF q, t, took, Good
    <3>3. Rx!Fill(q) < RxSize
      <4>1. Len(Content(q)) = Rx!Fill(q) BY <2>0, ContentIsSeq
      <4>. QED BY <4>1, <2>0, <3>1, <2>1, <2>k, <1>1
    <3>4. Rx!WellFormed(f[k]) /\ Content(f[k]) = Append(Content(q), bytes[k])
      BY <3>2, <3>3, <2>0, PushAppends
    <3>5. Content(q) \in Seq(Bytes) BY <2>0, ContentIsSeq
    <3>6. /\ Len(Content(f[k])) = (L + t) + 1
          /\ \A i \in 1 .. L + t : Content(f[k])[i] = Content(q)[i]
          /\ Content(f[k])[(L + t) + 1] = bytes[k]
      <4> HIDE <3>2
      <4>1. bytes[k] \in Bytes BY <3>2
      <4>2. /\ Len(Append(Content(q), bytes[k])) = Len(Content(q)) + 1
            /\ \A i \in 1 .. Len(Content(q)) : Append(Content(q), bytes[k])[i] = Content(q)[i]
            /\ Append(Content(q), bytes[k])[Len(Content(q)) + 1] = bytes[k]
        BY <4>1, <3>5, AppendProperties
      <4>. QED BY <4>2, <3>4, <2>0
    <3>7. Len(Content(f[k])) = L + took(k) BY <3>1, <3>6, <1>1, <2>k
    <3>8. ASSUME NEW i \in 1 .. L PROVE Content(f[k])[i] = Content(r)[i]
      <4>1. i \in 1 .. L + t BY <3>1, <1>1
      <4>. QED BY <4>1, <3>6, <2>0
    <3>9. ASSUME NEW i \in 1 .. took(k) PROVE Content(f[k])[L + i] = bytes[i]
      <4>1. CASE i = k
        <5>1. L + i = (L + t) + 1 BY <4>1, <3>1, <1>1, <2>k
        <5>. QED BY <5>1, <4>1, <3>6
      <4>2. CASE i # k
        <5>1. i \in 1 .. t /\ L + i \in 1 .. L + t BY <4>2, <3>1, <1>1, <2>k
        <5>. QED BY <5>1, <3>6, <2>0
      <4>. QED BY <4>1, <4>2
    <3>. QED BY <3>4, <3>7, <3>8, <3>9 DEF Good
  <2>2. CASE ~(k <= room)
    <3>1. f[k] = f[k - 1] BY <2>2, <1>4
    <3>2. took(k) = took(k - 1) BY <2>2, <2>k, <1>1
    <3> HIDE DEF took
    <3>. QED BY <3>1, <3>2, <1>6
  <2>. QED BY <2>1, <2>2
<1>7. Good(n)
  <2> HIDE DEF Good
  <2>1. SUFFICES ASSUME ~Good(n) PROVE FALSE OBVIOUS
  <2>2. n \in T BY <2>1, <1>2
  <2>3. T \in SUBSET Nat /\ T # {} BY <2>2
  <2>4. PICK k \in T : \A j \in T : k <= j
    <3> HIDE DEF T
    <3>. QED BY <2>3, LeastElement
  <2>5. k \in 0 .. n /\ ~Good(k) BY <2>4
  <2>6. k # 0 BY <2>5, <1>5
  <2>7. k \in 1 .. n /\ k - 1 \in 0 .. n /\ ~(k <= k - 1) BY <2>5, <2>6, <1>2
  <2>8. k - 1 \notin T BY <2>4, <2>7
  <2>9. Good(k - 1) BY <2>7, <2>8
  <2>. QED BY <2>5, <2>7, <2>9, <1>6
<1>8. Fitting(r, n) = took(n) BY DEF Fitting, room
<1>. QED BY <1>3, <1>7, <1>8 DEF n, L

(* popElements, one turn of its loop.                                      *)
Taken(x) == IF ~Rx!ElementsAvailable(x.ring) THEN x
            ELSE [ring |-> Rx!PopElement(x.ring),
                  bytes |-> Append(x.bytes, Rx!Front(x.ring))]
Popped(f, r, n) ==
    f = [i \in 0 .. n |-> IF i = 0 THEN [ring |-> r, bytes |-> <<>>] ELSE Taken(f[i - 1])]

LEMMA PopLoops ==
  ASSUME NEW r, NEW n \in Nat
  PROVE  \E f : Popped(f, r, n)
<1> DEFINE Runs(k) == \E f : Popped(f, r, k)
           T == {k \in Nat : ~Runs(k)}
           first == [ring |-> r, bytes |-> <<>>]
<1>1. SUFFICES ASSUME T # {} PROVE FALSE
  <2>1. Runs(n)
    <3> HIDE DEF Runs
    <3>. QED BY <1>1
  <2>. QED BY <2>1
<1>2. PICK k \in T : \A j \in T : k <= j
  <2> HIDE DEF Runs
  <2>1. T \in SUBSET Nat OBVIOUS
  <2> HIDE DEF T
  <2>. QED BY <1>1, <2>1, LeastElement
<1>3. k \in Nat /\ ~Runs(k) BY <1>2
<1>4. Runs(0)
  <2> DEFINE f == [i \in 0 .. 0 |-> first]
  <2>1. Popped(f, r, 0) BY DEF Popped
  <2>. QED BY <2>1
<1>5. k # 0 BY <1>3, <1>4
<1>6. Runs(k - 1)
  <2> HIDE DEF Runs
  <2>. QED BY <1>2, <1>3, <1>5
<1>7. PICK f : Popped(f, r, k - 1) BY <1>6
<1> DEFINE g == [i \in 0 .. k |-> IF i < k THEN f[i] ELSE Taken(f[k - 1])]
           h == [i \in 0 .. k |-> IF i = 0 THEN first ELSE Taken(g[i - 1])]
<1>8. ASSUME NEW i \in 0 .. k PROVE g[i] = h[i]
  <2>1. CASE i = k
    <3>1. g[i - 1] = f[k - 1] BY <2>1, <1>3, <1>5
    <3>. QED BY <2>1, <3>1, <1>3, <1>5
  <2>2. CASE i # k
    <3>1. i \in 0 .. k - 1 /\ i < k BY <2>2, <1>3
    <3>2. f[i] = IF i = 0 THEN first ELSE Taken(f[i - 1])
      BY <3>1, <1>7 DEF Popped
    <3>3. i # 0 => g[i - 1] = f[i - 1] BY <3>1, <1>3
    <3>4. g[i] = f[i] BY <3>1
    <3>. QED BY <3>2, <3>3, <3>4
  <2>. QED BY <2>1, <2>2
<1>9. g = h
  <2>1. g = [i \in 0 .. k |-> g[i]] OBVIOUS
  <2>2. h = [i \in 0 .. k |-> h[i]] OBVIOUS
  <2> HIDE DEF g, h
  <2>. QED BY <2>1, <2>2, <1>8
<1>10. Popped(g, r, k)
  <2>1. h = [i \in 0 .. k |-> IF i = 0 THEN first ELSE Taken(g[i - 1])] OBVIOUS
  <2> HIDE DEF g, h
  <2>. QED BY <2>1, <1>9 DEF Popped
<1>. QED
  <2> HIDE DEF g
  <2>. QED BY <1>3, <1>10

LEMMA PopElementsRuns ==
  ASSUME NEW r, NEW n \in Nat
  PROVE  \E f : Popped(f, r, n) /\ PopElements(r, n) = f[n]
<1> DEFINE loop == CHOOSE f : Popped(f, r, n)
<1>1. Popped(loop, r, n) BY PopLoops
<1>2. PopElements(r, n) = loop[n] BY DEF PopElements, Popped, Taken
<1>. QED
  <2> HIDE DEF loop
  <2>. QED BY <1>1, <1>2

(* The head of a sequence moves to the end of the one before it.           *)
LEMMA HeadMoves ==
  ASSUME NEW S, NEW s \in Seq(S), NEW t \in Seq(S), t # <<>>
  PROVE  Append(s, Head(t)) \o Tail(t) = s \o t
<1> DEFINE a == Append(s, Head(t))
           u == Tail(t)
<1>1. /\ Head(t) \in S /\ u \in Seq(S) /\ Len(u) = Len(t) - 1
      /\ \A i \in 1 .. Len(u) : u[i] = t[i + 1]
  BY HeadTailProperties
<1>2. Head(t) = t[1] OBVIOUS
<1>3. /\ a \in Seq(S) /\ Len(a) = Len(s) + 1
      /\ \A i \in 1 .. Len(s) : a[i] = s[i]
      /\ a[Len(s) + 1] = t[1]
  BY <1>1, <1>2, AppendProperties
<1> HIDE DEF a, u
<1>4. Len(s) \in Nat /\ Len(t) \in Nat \ {0} BY LenProperties, EmptySeq
<1>5. /\ a \o u \in Seq(S) /\ Len(a \o u) = Len(a) + Len(u)
      /\ \A i \in 1 .. Len(a) + Len(u) : (a \o u)[i] = IF i <= Len(a) THEN a[i] ELSE u[i - Len(a)]
  BY <1>1, <1>3, ConcatProperties
<1>6. /\ s \o t \in Seq(S) /\ Len(s \o t) = Len(s) + Len(t)
      /\ \A i \in 1 .. Len(s) + Len(t) : (s \o t)[i] = IF i <= Len(s) THEN s[i] ELSE t[i - Len(s)]
  BY ConcatProperties
<1> DEFINE m == Len(s)
           n == Len(t)
<1>7. /\ m \in Nat /\ n \in Nat \ {0} /\ Len(a) = m + 1 /\ Len(u) = n - 1
      /\ Len(a) + Len(u) = m + n
  BY <1>1, <1>3, <1>4
<1>8. ASSUME NEW i \in 1 .. m + n PROVE (a \o u)[i] = (s \o t)[i]
  <2>1. (a \o u)[i] = IF i <= m + 1 THEN a[i] ELSE u[i - (m + 1)] BY <1>5, <1>7
  <2>2. (s \o t)[i] = IF i <= m THEN s[i] ELSE t[i - m] BY <1>6
  <2>3. /\ \A j \in 1 .. m : a[j] = s[j]
        /\ a[m + 1] = t[1]
        /\ \A j \in 1 .. n - 1 : u[j] = t[j + 1]
    BY <1>1, <1>3, <1>7
  <2> HIDE DEF m, n
  <2>4. CASE i <= m BY <2>1, <2>2, <2>3, <2>4, <1>7
  <2>5. CASE i = m + 1
    <3>1. i - m = 1 /\ ~(i <= m) /\ i <= m + 1 BY <2>5, <1>7
    <3>2. (a \o u)[i] = a[i] BY <2>1, <3>1
    <3>3. (s \o t)[i] = t[1] BY <2>2, <3>1
    <3>4. a[i] = t[1] BY <2>3, <2>5
    <3>. QED BY <3>2, <3>3, <3>4
  <2>6. CASE i > m + 1
    <3>1. /\ i - (m + 1) \in 1 .. n - 1 /\ (i - (m + 1)) + 1 = i - m
          /\ ~(i <= m) /\ ~(i <= m + 1)
      BY <2>6, <1>7
    <3>2. (a \o u)[i] = u[i - (m + 1)] BY <2>1, <3>1
    <3>3. u[i - (m + 1)] = t[(i - (m + 1)) + 1] BY <2>3, <3>1
    <3>4. (s \o t)[i] = t[i - m] BY <2>2, <3>1
    <3>. QED BY <3>2, <3>3, <3>4, <3>1
  <2>7. i <= m \/ i = m + 1 \/ i > m + 1 BY <1>7
  <2>. QED BY <2>4, <2>5, <2>6, <2>7
<1>9. Len(a \o u) = m + n /\ Len(s \o t) = m + n BY <1>5, <1>6, <1>7
<1>. QED
  <2> HIDE DEF m, n
  <2>1. a \o u = s \o t BY <1>5, <1>6, <1>8, <1>9, SeqEqual
  <2>. QED BY <2>1 DEF a, u

(* What popElements does: it moves bytes from the front of the buffer.     *)
LEMMA PoppedContent ==
  ASSUME NEW r, Rx!WellFormed(r), NEW n \in Nat
  PROVE  /\ Rx!WellFormed(PopElements(r, n).ring)
         /\ PopElements(r, n).bytes \in Seq(Bytes)
         /\ PopElements(r, n).bytes \o Content(PopElements(r, n).ring) = Content(r)
<1>1. PICK f : Popped(f, r, n) /\ PopElements(r, n) = f[n] BY PopElementsRuns
<1>2. f[0] = [ring |-> r, bytes |-> <<>>] /\ \A i \in 1 .. n : f[i] = Taken(f[i - 1])
  <2>1. f = [i \in 0 .. n |-> IF i = 0 THEN [ring |-> r, bytes |-> <<>>] ELSE Taken(f[i - 1])]
    BY <1>1 DEF Popped
  <2>2. 0 \in 0 .. n /\ \A i \in 1 .. n : i \in 0 .. n /\ i # 0 OBVIOUS
  <2>3. f[0] = [ring |-> r, bytes |-> <<>>] BY <2>1, <2>2, Zenon
  <2>4. ASSUME NEW i \in 1 .. n PROVE f[i] = Taken(f[i - 1]) BY <2>1, <2>2, Zenon
  <2>. QED BY <2>3, <2>4
<1> DEFINE Good(k) == /\ Rx!WellFormed(f[k].ring)
                      /\ f[k].bytes \in Seq(Bytes)
                      /\ f[k].bytes \o Content(f[k].ring) = Content(r)
           T == {k \in 0 .. n : ~Good(k)}
<1>3. Good(0)
  <2>1. f[0].ring = r /\ f[0].bytes = <<>> BY <1>2
  <2>2. Content(r) \in Seq(Bytes) BY ContentIsSeq
  <2>. QED BY <2>1, <2>2, EmptySeq, ConcatEmptySeq
<1>4. ASSUME NEW k \in 1 .. n, Good(k - 1) PROVE Good(k)
  <2> DEFINE x == f[k - 1]
             c == Content(x.ring)
  <2>0. /\ Rx!WellFormed(x.ring) /\ x.bytes \in Seq(Bytes)
        /\ x.bytes \o c = Content(r) /\ f[k] = Taken(x)
    BY <1>4, <1>2
  <2> HIDE DEF x
  <2>1. CASE ~Rx!ElementsAvailable(x.ring) BY <2>0, <2>1 DEF Taken
  <2>2. CASE Rx!ElementsAvailable(x.ring)
    <3>1. /\ f[k].ring = Rx!PopElement(x.ring)
          /\ f[k].bytes = Append(x.bytes, Rx!Front(x.ring))
      BY <2>0, <2>2 DEF Taken
    <3>2. c \in Seq(Bytes) /\ Rx!Fill(x.ring) # 0 BY <2>0, <2>2, ContentIsSeq
    <3>3. /\ Rx!WellFormed(f[k].ring) /\ c # <<>>
          /\ Content(f[k].ring) = Tail(c) /\ Rx!Front(x.ring) = Head(c)
      BY <2>0, <3>1, <3>2, PopTakes
    <3> HIDE DEF c
    <3>4. Head(c) \in Bytes /\ Tail(c) \in Seq(Bytes) /\ Len(Tail(c)) = Len(c) - 1
          /\ \A i \in 1 .. Len(Tail(c)) : Tail(c)[i] = c[i + 1]
      BY <3>2, <3>3, HeadTailProperties
    <3>5. f[k].bytes \in Seq(Bytes) BY <2>0, <3>1, <3>3, <3>4, AppendProperties
    <3>6. Append(x.bytes, Head(c)) \o Tail(c) = x.bytes \o c
      BY <2>0, <3>2, <3>3, HeadMoves
    <3>. QED BY <2>0, <3>1, <3>3, <3>5, <3>6
  <2>. QED BY <2>1, <2>2
<1>5. Good(n)
  <2> HIDE DEF Good
  <2>1. SUFFICES ASSUME ~Good(n) PROVE FALSE OBVIOUS
  <2>2. n \in T BY <2>1
  <2>3. T \in SUBSET Nat /\ T # {} BY <2>2
  <2>4. PICK k \in T : \A j \in T : k <= j
    <3> HIDE DEF T
    <3>. QED BY <2>3, LeastElement
  <2>5. k \in 0 .. n /\ ~Good(k) BY <2>4
  <2>6. k # 0 BY <2>5, <1>3
  <2>7. k \in 1 .. n /\ k - 1 \in 0 .. n /\ ~(k <= k - 1) BY <2>5, <2>6
  <2>8. k - 1 \notin T BY <2>4, <2>7
  <2>9. Good(k - 1) BY <2>7, <2>8
  <2>. QED BY <2>5, <2>7, <2>9, <1>4
<1>. QED BY <1>1, <1>5

-----------------------------------------------------------------------------
(* The events and the order of the bytes.                                  *)
LEMMA Arrives ==
  ASSUME NEW E, NEW k \in 1 .. Len(E), NEW j \in 1 .. Len(E[k].bytes)
  PROVE  E[k].bytes[j] \in Arriving(E)
<1> DEFINE S == {E[k].bytes[i] : i \in 1 .. Len(E[k].bytes)}
<1>1. E[k].bytes[j] \in S OBVIOUS
<1>2. S \in {{E[i].bytes[l] : l \in 1 .. Len(E[i].bytes)} : i \in 1 .. Len(E)} OBVIOUS
<1> HIDE DEF S
<1>. QED BY <1>1, <1>2 DEF Arriving

WaitsIn(E, m) == \E k \in 1 .. Len(E) : \E j \in 1 .. Len(E[k].bytes) : m = E[k].bytes[j]

LEMMA ArrivesIn ==
  ASSUME NEW E, NEW m \in Arriving(E)
  PROVE  WaitsIn(E, m)
<1>1. PICK k \in 1 .. Len(E) : m \in {E[k].bytes[j] : j \in 1 .. Len(E[k].bytes)}
  BY DEF Arriving
<1>2. \E j \in 1 .. Len(E[k].bytes) : m = E[k].bytes[j] BY <1>1
<1>. QED BY <1>2 DEF WaitsIn

LEMMA EventAdded ==
  ASSUME NEW K, NEW R, NEW E \in Seq(AcEvents), NEW c \in Nat, Order(K, R, E, c),
         NEW e \in AcEvents, NEW n \in Nat, Len(e.bytes) = n,
         \A i \in 1 .. n : e.bytes[i] = c + i,
         e.event # "WRITE" => n = 0
  PROVE  Order(K, R, Append(E, e), c + n)
<1> DEFINE F == Append(E, e)
           N == Len(E)
<1>1. /\ N \in Nat /\ Len(F) = N + 1
      /\ \A k \in 1 .. N : F[k] = E[k]
      /\ F[N + 1] = e
  BY AppendProperties, LenProperties
<1> HIDE DEF F, N
<1>o. /\ \A k \in 1 .. N : \A i, j \in 1 .. Len(E[k].bytes) :
            i < j => E[k].bytes[i] < E[k].bytes[j]
      /\ \A k, l \in 1 .. N : k < l =>
            \A i \in 1 .. Len(E[k].bytes), j \in 1 .. Len(E[l].bytes) :
               E[k].bytes[i] < E[l].bytes[j]
      /\ \A k \in 1 .. N : E[k].event # "WRITE" => Len(E[k].bytes) = 0
  BY DEF Order, N
<1>2. 1 .. Len(F) = (1 .. N) \union {N + 1} BY <1>1
<1>3. Arriving(F) = Arriving(E) \union ((c + 1) .. (c + n))
  <2>1. ASSUME NEW m \in Arriving(F) PROVE m \in Arriving(E) \union ((c + 1) .. (c + n))
    <3>0. WaitsIn(F, m) BY ArrivesIn
    <3>1. PICK k \in 1 .. Len(F) : \E j \in 1 .. Len(F[k].bytes) : m = F[k].bytes[j]
      BY <3>0 DEF WaitsIn
    <3>2. CASE k \in 1 .. N 
      <4>1. PICK j \in 1 .. Len(E[k].bytes) : m = E[k].bytes[j] BY <3>1, <3>2, <1>1
      <4>. QED BY <4>1, <3>2, Arrives DEF N
    <3>3. CASE k = N + 1
      <4>1. PICK j \in 1 .. n : m = c + j BY <3>1, <3>3, <1>1
      <4>. QED BY <4>1
    <3>. QED BY <3>2, <3>3, <1>2
  <2>2. ASSUME NEW m \in Arriving(E) PROVE m \in Arriving(F)
    <3>0. WaitsIn(E, m) BY ArrivesIn
    <3>1. PICK k \in 1 .. N : \E j \in 1 .. Len(E[k].bytes) : m = E[k].bytes[j]
      BY <3>0 DEF WaitsIn, N
    <3>2. k \in 1 .. Len(F) /\ F[k] = E[k] BY <1>1, <1>2
    <3>3. PICK j \in 1 .. Len(F[k].bytes) : m = F[k].bytes[j] BY <3>1, <3>2
    <3>. QED BY <3>2, <3>3, Arrives
  <2>3. ASSUME NEW m \in (c + 1) .. (c + n) PROVE m \in Arriving(F)
    <3>1. m - c \in 1 .. n /\ c + (m - c) = m OBVIOUS
    <3>2. e.bytes[m - c] = m BY <3>1
    <3>3. N + 1 \in 1 .. Len(F) BY <1>2
    <3>. QED BY <3>1, <3>2, <3>3, <1>1 DEF Arriving
  <2>. QED BY <2>1, <2>2, <2>3
<1>4. /\ \A i, j \in 1 .. Len(K) : i < j => K[i] < K[j]
      /\ Members(K) \intersect R = {}
      /\ (Members(K) \union R) \union Arriving(E) = 1 .. c
      /\ \A m \in Members(K) \union R : \A p \in Arriving(E) : m < p
  BY DEF Order
<1>5. (Members(K) \union R) \union Arriving(F) = 1 .. (c + n)
  <2>1. 1 .. (c + n) = (1 .. c) \union ((c + 1) .. (c + n)) OBVIOUS
  <2>. QED BY <2>1, <1>3, <1>4
<1>6. \A m \in Members(K) \union R : \A p \in Arriving(F) : m < p
  <2>1. SUFFICES ASSUME NEW m \in Members(K) \union R, NEW p \in (c + 1) .. (c + n) PROVE m < p
    BY <1>3, <1>4
  <2>2. m \in 1 .. c BY <1>4
  <2>. QED BY <2>2
<1>7. ASSUME NEW k \in 1 .. Len(F), NEW i \in 1 .. Len(F[k].bytes), NEW j \in 1 .. Len(F[k].bytes), i < j
      PROVE F[k].bytes[i] < F[k].bytes[j]
  <2>1. CASE k \in 1 .. N BY <1>o, <2>1, <1>1, <1>7
  <2>2. CASE k = N + 1
    <3>1. F[k] = e /\ i \in 1 .. n /\ j \in 1 .. n BY <2>2, <1>1, <1>7
    <3>2. e.bytes[i] = c + i /\ e.bytes[j] = c + j BY <3>1
    <3>. QED BY <3>1, <3>2, <1>7
  <2>. QED BY <2>1, <2>2, <1>2
<1>8. ASSUME NEW k \in 1 .. Len(F), NEW l \in 1 .. Len(F), k < l,
             NEW i \in 1 .. Len(F[k].bytes), NEW j \in 1 .. Len(F[l].bytes)
      PROVE F[k].bytes[i] < F[l].bytes[j]
  <2>1. k \in 1 .. N /\ F[k] = E[k] BY <1>1, <1>8
  <2>2. CASE l \in 1 .. N BY <1>o, <2>1, <2>2, <1>1, <1>8
  <2>3. CASE l = N + 1
    <3>1. F[l] = e /\ j \in 1 .. n BY <2>3, <1>1, <1>8
    <3>2. e.bytes[j] = c + j BY <3>1
    <3>3. E[k].bytes[i] \in Arriving(E) BY <2>1, <1>8, Arrives DEF N
    <3>4. E[k].bytes[i] \in 1 .. c BY <3>3, <1>4
    <3> DEFINE x == E[k].bytes[i]
    <3>5. x \in 1 .. c BY <3>4
    <3> HIDE DEF x
    <3>6. x < c + j BY <3>1, <3>5
    <3>7. F[k].bytes[i] = x /\ F[l].bytes[j] = c + j BY <2>1, <3>1, <3>2 DEF x
    <3>. QED BY <3>6, <3>7
  <2>. QED BY <2>2, <2>3, <1>2
<1>9. ASSUME NEW k \in 1 .. Len(F), F[k].event # "WRITE" PROVE Len(F[k].bytes) = 0
  <2>1. CASE k \in 1 .. N BY <1>o, <2>1, <1>1, <1>9
  <2>2. CASE k = N + 1 BY <2>2, <1>1, <1>9
  <2>. QED BY <2>1, <2>2, <1>2
<1>. QED
  <2>1. Order(K, R, F, c + n) BY <1>4, <1>5, <1>6, <1>7, <1>8, <1>9 DEF Order
  <2>. QED BY <2>1 DEF F

(* When an event is handled, its first t bytes are kept and the others are *)
(* refused.                                                                *)
LEMMA EventTaken ==
  ASSUME NEW K, NEW R, NEW E \in Seq(AcEvents), NEW c \in Nat, Order(K, R, E, c), E # <<>>,
         Len(K) \in Nat,
         NEW t \in 0 .. Len(Head(E).bytes), NEW J, Len(J) = Len(K) + t,
         \A i \in 1 .. Len(K) : J[i] = K[i],
         \A i \in 1 .. t : J[Len(K) + i] = Head(E).bytes[i]
  PROVE  Order(J, R \union {Head(E).bytes[i] : i \in t + 1 .. Len(Head(E).bytes)}, Tail(E), c)
<1> DEFINE F == Tail(E)
           N == Len(E)
           e == Head(E)
           n == Len(e.bytes)
           L == Len(K)
           Q == R \union {e.bytes[i] : i \in t + 1 .. n}
<1>1. /\ N \in Nat \ {0} /\ Len(F) = N - 1
      /\ \A k \in 1 .. Len(F) : F[k] = E[k + 1]
      /\ e = E[1]
  BY HeadTailProperties, EmptySeq
<1>2. n \in Nat /\ L \in Nat
  <2>1. e \in AcEvents BY HeadTailProperties
  <2>2. e.bytes \in Seq(Nat) BY <2>1 DEF AcEvents
  <2>. QED BY <2>2, LenProperties
<1>3. /\ Len(J) = L + t /\ t \in 0 .. n
      /\ \A i \in 1 .. L : J[i] = K[i]
      /\ \A i \in 1 .. t : J[L + i] = e.bytes[i]
  OBVIOUS
<1> HIDE DEF F, N, e, n, L, Q
<1>o. /\ \A k \in 1 .. N : \A i, j \in 1 .. Len(E[k].bytes) :
            i < j => E[k].bytes[i] < E[k].bytes[j]
      /\ \A k, l \in 1 .. N : k < l =>
            \A i \in 1 .. Len(E[k].bytes), j \in 1 .. Len(E[l].bytes) :
               E[k].bytes[i] < E[l].bytes[j]
      /\ \A k \in 1 .. N : E[k].event # "WRITE" => Len(E[k].bytes) = 0
  BY DEF Order, N
<1>4. /\ \A i, j \in 1 .. L : i < j => K[i] < K[j]
      /\ Members(K) \intersect R = {}
      /\ (Members(K) \union R) \union Arriving(E) = 1 .. c
      /\ \A m \in Members(K) \union R : \A p \in Arriving(E) : m < p
  BY DEF Order, L
<1>5. /\ \A i, j \in 1 .. n : i < j => e.bytes[i] < e.bytes[j]
      /\ \A i \in 1 .. n : e.bytes[i] \in Arriving(E)
  <2>1. 1 \in 1 .. Len(E) /\ e = E[1] /\ n = Len(E[1].bytes) BY <1>1 DEF N, n
  <2>2. \A i, j \in 1 .. n : i < j => e.bytes[i] < e.bytes[j] BY <2>1 DEF Order
  <2>3. ASSUME NEW i \in 1 .. n PROVE e.bytes[i] \in Arriving(E) BY <2>1, Arrives
  <2>. QED BY <2>2, <2>3
<1>6. /\ \A i \in 1 .. n : e.bytes[i] \in 1 .. c
      /\ \A m \in Members(K) \union R : m \in 1 .. c
      /\ \A m \in Arriving(E) : m \in 1 .. c
  BY <1>4, <1>5
<1>7. /\ Arriving(F) \subseteq Arriving(E)
      /\ \A m \in Arriving(E) : m \in Arriving(F) \/ \E i \in 1 .. n : m = e.bytes[i]
      /\ \A m \in Arriving(F) : \A i \in 1 .. n : e.bytes[i] < m
  <2>1. ASSUME NEW m \in Arriving(F)
        PROVE  m \in Arriving(E) /\ \A i \in 1 .. n : e.bytes[i] < m
    <3>0. WaitsIn(F, m) BY ArrivesIn
    <3>1. PICK k \in 1 .. Len(F) : \E j \in 1 .. Len(F[k].bytes) : m = F[k].bytes[j]
      BY <3>0 DEF WaitsIn
    <3>2. /\ k + 1 \in 1 .. N /\ 1 \in 1 .. N /\ 1 < k + 1
          /\ F[k] = E[k + 1]
      BY <1>1
    <3>3. PICK j \in 1 .. Len(E[k + 1].bytes) : m = E[k + 1].bytes[j] BY <3>1, <3>2
    <3>4. m \in Arriving(E) BY <3>2, <3>3, Arrives DEF N
    <3>5. ASSUME NEW i \in 1 .. n PROVE e.bytes[i] < m
      <4>1. i \in 1 .. Len(E[1].bytes) /\ e.bytes[i] = E[1].bytes[i] BY <1>1 DEF n
      <4>2. E[1].bytes[i] < E[k + 1].bytes[j] BY <1>o, <4>1, <3>2, <3>3
      <4>. QED BY <4>1, <4>2, <3>3
    <3>. QED BY <3>4, <3>5
  <2>2. ASSUME NEW m \in Arriving(E)
        PROVE  m \in Arriving(F) \/ \E i \in 1 .. n : m = e.bytes[i]
    <3>0. WaitsIn(E, m) BY ArrivesIn
    <3>1. PICK k \in 1 .. N : \E j \in 1 .. Len(E[k].bytes) : m = E[k].bytes[j]
      BY <3>0 DEF WaitsIn, N
    <3>2. CASE k = 1 BY <3>1, <3>2, <1>1 DEF n
    <3>3. CASE k # 1
      <4>1. k - 1 \in 1 .. Len(F) /\ (k - 1) + 1 = k BY <3>3, <1>1
      <4>2. F[k - 1] = E[k] BY <4>1, <1>1
      <4>3. PICK j \in 1 .. Len(F[k - 1].bytes) : m = F[k - 1].bytes[j] BY <3>1, <4>2
      <4>. QED BY <4>1, <4>3, Arrives
    <3>. QED BY <3>2, <3>3
  <2>. QED BY <2>1, <2>2
<1>8. /\ \A i \in 1 .. L + t : i \in 1 .. L \/ (i - L \in 1 .. t /\ J[i] = e.bytes[i - L])
      /\ \A i \in 1 .. t : i \in 1 .. n /\ L + i \in 1 .. L + t
      /\ \A i \in 1 .. L : i \in 1 .. L + t
  <2>1. ASSUME NEW i \in 1 .. L + t, i \notin 1 .. L
        PROVE  i - L \in 1 .. t /\ J[i] = e.bytes[i - L]
    <3>1. i - L \in 1 .. t /\ L + (i - L) = i BY <2>1, <1>2, <1>3
    <3>2. J[L + (i - L)] = e.bytes[i - L] BY <3>1, <1>3
    <3>. QED BY <3>1, <3>2
  <2>2. ASSUME NEW i \in 1 .. t PROVE i \in 1 .. n /\ L + i \in 1 .. L + t BY <1>2, <1>3
  <2>3. ASSUME NEW i \in 1 .. L PROVE i \in 1 .. L + t BY <1>2, <1>3
  <2>. QED BY <2>1, <2>2, <2>3
<1>9. \A m : m \in Members(J) <=> m \in Members(K) \/ \E i \in 1 .. t : m = e.bytes[i]
  <2>1. ASSUME NEW m \in Members(J) PROVE m \in Members(K) \/ \E i \in 1 .. t : m = e.bytes[i]
    <3>1. PICK i \in 1 .. L + t : m = J[i] BY <1>3 DEF Members
    <3>2. CASE i \in 1 .. L BY <3>1, <3>2, <1>3 DEF Members, L
    <3>3. CASE i - L \in 1 .. t /\ J[i] = e.bytes[i - L] BY <3>1, <3>3
    <3>. QED BY <3>2, <3>3, <1>8
  <2>2. ASSUME NEW m \in Members(K) PROVE m \in Members(J)
    <3>1. PICK i \in 1 .. L : m = K[i] BY DEF Members, L
    <3>. QED BY <3>1, <1>3, <1>8 DEF Members
  <2>3. ASSUME NEW i \in 1 .. t PROVE e.bytes[i] \in Members(J)
    <3>1. J[L + i] = e.bytes[i] /\ L + i \in 1 .. L + t BY <1>3, <1>8
    <3>. QED BY <3>1, <1>3 DEF Members
  <2>. QED BY <2>1, <2>2, <2>3
<1>10. \A m : m \in Q <=> m \in R \/ \E i \in t + 1 .. n : m = e.bytes[i] BY DEF Q
<1>11. /\ \A i \in t + 1 .. n : i \in 1 .. n
       /\ \A i \in 1 .. n : i \in 1 .. t \/ i \in t + 1 .. n
       /\ \A i \in 1 .. t, j \in t + 1 .. n : i < j
  BY <1>2, <1>3
<1>12. ASSUME NEW i \in 1 .. Len(J), NEW j \in 1 .. Len(J), i < j PROVE J[i] < J[j]
  <2>0. i \in 1 .. L + t /\ j \in 1 .. L + t BY <1>3
  <2>1. CASE j \in 1 .. L
    <3>1. i \in 1 .. L BY <2>1, <1>12, <1>2
    <3>. QED BY <2>1, <3>1, <1>12, <1>3, <1>4
  <2>2. CASE j - L \in 1 .. t /\ J[j] = e.bytes[j - L]
    <3>1. j - L \in 1 .. n BY <2>2, <1>8
    <3>2. CASE i \in 1 .. L
      <4>1. J[i] = K[i] /\ K[i] \in Members(K) BY <3>2, <1>3 DEF Members, L
      <4>. QED BY <4>1, <2>2, <3>1, <1>4, <1>5
    <3>3. CASE i - L \in 1 .. t /\ J[i] = e.bytes[i - L]
      <4>1. i - L < j - L BY <2>0, <1>12, <1>2, <1>3
      <4>2. i - L \in 1 .. n BY <3>3, <1>8
      <4>3. e.bytes[i - L] < e.bytes[j - L] BY <4>1, <4>2, <3>1, <1>5
      <4>. QED BY <4>3, <3>3, <2>2
    <3>. QED BY <3>2, <3>3, <2>0, <1>8
  <2>. QED BY <2>0, <2>1, <2>2, <1>8
<1>13. Members(J) \intersect Q = {}
  <2>1. SUFFICES ASSUME NEW m, m \in Members(J), m \in Q PROVE FALSE OBVIOUS
  <2>2. CASE m \in Members(K) /\ m \in R BY <2>2, <1>4
  <2>3. CASE m \in Members(K) /\ \E i \in t + 1 .. n : m = e.bytes[i]
    <3>1. m \in Arriving(E) /\ m \in 1 .. c BY <2>3, <1>5, <1>6, <1>11
    <3>2. m < m BY <2>3, <3>1, <1>4
    <3>. QED BY <3>1, <3>2
  <2>4. CASE m \in R /\ \E i \in 1 .. t : m = e.bytes[i]
    <3>1. m \in Arriving(E) /\ m \in 1 .. c BY <2>4, <1>5, <1>6, <1>8
    <3>2. m < m BY <2>4, <3>1, <1>4
    <3>. QED BY <3>1, <3>2
  <2>5. CASE (\E i \in 1 .. t : m = e.bytes[i]) /\ (\E i \in t + 1 .. n : m = e.bytes[i])
    <3>1. PICK i \in 1 .. t, j \in t + 1 .. n : m = e.bytes[i] /\ m = e.bytes[j] BY <2>5
    <3>2. i \in 1 .. n /\ j \in 1 .. n /\ i < j BY <1>8, <1>11
    <3>3. m < m /\ m \in 1 .. c BY <3>1, <3>2, <1>5, <1>6
    <3>. QED BY <3>3
  <2>. QED BY <2>1, <2>2, <2>3, <2>4, <2>5, <1>9, <1>10
<1>14. (Members(J) \union Q) \union Arriving(F) = 1 .. c
  <2>1. ASSUME NEW m, m \in Members(J) \/ m \in Q \/ m \in Arriving(F) PROVE m \in 1 .. c
    <3>1. \A i \in 1 .. t : i \in 1 .. n BY <1>8
    <3>2. CASE m \in Members(J)
      <4>1. CASE m \in Members(K) BY <4>1, <1>6
      <4>2. CASE \E i \in 1 .. t : m = e.bytes[i]
        <5>1. PICK i \in 1 .. t : m = e.bytes[i] BY <4>2
        <5>2. i \in 1 .. n BY <3>1
        <5>. QED BY <5>1, <5>2, <1>6
      <4>. QED BY <3>2, <4>1, <4>2, <1>9
    <3>3. CASE m \in Q BY <3>3, <1>6, <1>10, <1>11
    <3>4. CASE m \in Arriving(F) BY <3>4, <1>6, <1>7
    <3>. QED BY <2>1, <3>2, <3>3, <3>4
  <2>2. ASSUME NEW m \in 1 .. c PROVE m \in Members(J) \/ m \in Q \/ m \in Arriving(F)
    <3>1. m \in Members(K) \/ m \in R \/ m \in Arriving(E) BY <1>4
    <3>. QED BY <3>1, <1>7, <1>9, <1>10, <1>11
  <2>. QED BY <2>1, <2>2
<1>15. \A m \in Members(J) \union Q : \A p \in Arriving(F) : m < p
  <2>1. SUFFICES ASSUME NEW m, m \in Members(J) \/ m \in Q, NEW p \in Arriving(F) PROVE m < p
    OBVIOUS
  <2>2. (m \in Members(K) \union R) \/ \E i \in 1 .. n : m = e.bytes[i]
    BY <2>1, <1>8, <1>9, <1>10, <1>11
  <2>. QED BY <2>2, <1>4, <1>7
<1>16. \A k \in 1 .. Len(F) : k + 1 \in 1 .. N /\ F[k] = E[k + 1] BY <1>1
<1>17. ASSUME NEW k \in 1 .. Len(F), NEW i \in 1 .. Len(F[k].bytes), NEW j \in 1 .. Len(F[k].bytes), i < j
       PROVE F[k].bytes[i] < F[k].bytes[j]
  <2>1. k + 1 \in 1 .. N /\ F[k] = E[k + 1] BY <1>16
  <2>. QED BY <2>1, <1>o, <1>17
<1>18. ASSUME NEW k \in 1 .. Len(F), NEW l \in 1 .. Len(F), k < l,
              NEW i \in 1 .. Len(F[k].bytes), NEW j \in 1 .. Len(F[l].bytes)
       PROVE F[k].bytes[i] < F[l].bytes[j]
  <2>1. /\ k + 1 \in 1 .. N /\ F[k] = E[k + 1]
        /\ l + 1 \in 1 .. N /\ F[l] = E[l + 1]
    BY <1>16
  <2>2. k + 1 < l + 1 BY <1>18
  <2>. QED BY <1>o, <2>1, <2>2, <1>18
<1>19. ASSUME NEW k \in 1 .. Len(F), F[k].event # "WRITE" PROVE Len(F[k].bytes) = 0
  <2>1. k + 1 \in 1 .. N /\ F[k] = E[k + 1] BY <1>16
  <2>. QED BY <2>1, <1>o, <1>19
<1>. QED
  <2>1. Order(J, Q, F, c)
    BY <1>12, <1>13, <1>14, <1>15, <1>17, <1>18, <1>19 DEF Order
  <2>. QED BY <2>1 DEF F, Q, e, n

LEMMA EndAdded ==
  ASSUME NEW E \in Seq(AcEvents), NEW e \in AcEvents, OneEnd(E)
  PROVE  /\ Append(E, e) \in Seq(AcEvents) /\ Len(Append(E, e)) > 0
         /\ e.event # "DISCONNECTED" =>
               OneEnd(Append(E, e)) /\ (HasEnd(Append(E, e)) <=> HasEnd(E))
         /\ e.event = "DISCONNECTED" =>
               HasEnd(Append(E, e)) /\ (~HasEnd(E) => OneEnd(Append(E, e)))
<1> DEFINE F == Append(E, e)
           N == Len(E)
<1>1. /\ N \in Nat /\ Len(F) = N + 1 /\ F \in Seq(AcEvents)
      /\ \A k \in 1 .. N : F[k] = E[k]
      /\ F[N + 1] = e
  BY AppendProperties, LenProperties
<1> HIDE DEF F, N
<1>2. \A k \in 1 .. Len(F) : k \in 1 .. N \/ k = N + 1 BY <1>1
<1>3. \A k \in 1 .. N : k \in 1 .. Len(F) BY <1>1
<1>4. N + 1 \in 1 .. Len(F) /\ Len(F) > 0 BY <1>1
<1>5. \A k \in 1 .. N : Ends(F, k) <=> Ends(E, k) BY <1>1 DEF Ends
<1>6. Ends(F, N + 1) <=> e.event = "DISCONNECTED" BY <1>1 DEF Ends
<1>7. CASE e.event # "DISCONNECTED"
  <2>1. \A k \in 1 .. Len(F) : Ends(F, k) => k \in 1 .. N BY <1>2, <1>6, <1>7
  <2>2. OneEnd(F) BY <2>1, <1>5 DEF OneEnd, N
  <2>3. HasEnd(F) <=> HasEnd(E) BY <2>1, <1>3, <1>5 DEF HasEnd, N
  <2>. QED BY <2>2, <2>3, <1>1, <1>4, <1>7 DEF F
<1>8. CASE e.event = "DISCONNECTED"
  <2>1. HasEnd(F) BY <1>4, <1>6, <1>8 DEF HasEnd
  <2>2. ASSUME ~HasEnd(E) PROVE OneEnd(F)
    <3>1. \A k \in 1 .. Len(F) : Ends(F, k) => k = N + 1 BY <2>2, <1>2, <1>5 DEF HasEnd, N
    <3>. QED BY <3>1 DEF OneEnd
  <2>. QED BY <2>1, <2>2, <1>1, <1>4, <1>8 DEF F
<1>. QED BY <1>7, <1>8

LEMMA EndTaken ==
  ASSUME NEW E \in Seq(AcEvents), E # <<>>, OneEnd(E)
  PROVE  /\ Tail(E) \in Seq(AcEvents) /\ OneEnd(Tail(E)) /\ Head(E) \in AcEvents
         /\ Head(E).event # "DISCONNECTED" => (HasEnd(Tail(E)) <=> HasEnd(E))
         /\ Head(E).event = "DISCONNECTED" => HasEnd(E) /\ ~HasEnd(Tail(E))
<1> DEFINE F == Tail(E)
           N == Len(E)
<1>1. /\ N \in Nat \ {0} /\ Len(F) = N - 1 /\ F \in Seq(AcEvents) /\ Head(E) \in AcEvents
      /\ \A k \in 1 .. Len(F) : F[k] = E[k + 1]
      /\ Head(E) = E[1]
  BY HeadTailProperties, EmptySeq
<1> HIDE DEF F, N
<1>2. \A k \in 1 .. Len(F) : k + 1 \in 1 .. N /\ k + 1 # 1 /\ (Ends(F, k) <=> Ends(E, k + 1))
  BY <1>1 DEF Ends
<1>3. \A k \in 1 .. N : k = 1 \/ (k - 1 \in 1 .. Len(F) /\ (k - 1) + 1 = k) BY <1>1
<1>4. 1 \in 1 .. N /\ (Ends(E, 1) <=> Head(E).event = "DISCONNECTED") BY <1>1 DEF Ends
<1>5. OneEnd(F)
  <2>1. SUFFICES ASSUME NEW k \in 1 .. Len(F), NEW l \in 1 .. Len(F), Ends(F, k), Ends(F, l)
                 PROVE  k = l
    BY DEF OneEnd
  <2>2. k + 1 = l + 1 BY <1>2, <2>1 DEF OneEnd, N
  <2>. QED BY <2>2
<1>6. CASE Head(E).event # "DISCONNECTED"
  <2>1. ASSUME HasEnd(F) PROVE HasEnd(E) BY <2>1, <1>2 DEF HasEnd, N
  <2>2. ASSUME HasEnd(E) PROVE HasEnd(F)
    <3>1. PICK k \in 1 .. N : Ends(E, k) BY <2>2 DEF HasEnd, N
    <3>2. k # 1 BY <3>1, <1>4, <1>6
    <3>3. k - 1 \in 1 .. Len(F) /\ (k - 1) + 1 = k BY <3>2, <1>3
    <3>4. Ends(F, k - 1) BY <3>1, <3>3, <1>2
    <3>. QED BY <3>3, <3>4 DEF HasEnd
  <2>. QED BY <2>1, <2>2, <1>1, <1>5, <1>6 DEF F
<1>7. CASE Head(E).event = "DISCONNECTED"
  <2>1. HasEnd(E) BY <1>4, <1>7 DEF HasEnd, N
  <2>2. ~HasEnd(F) BY <1>2, <1>4, <1>7 DEF HasEnd, OneEnd, N
  <2>. QED BY <2>1, <2>2, <1>1, <1>5, <1>7 DEF F
<1>. QED BY <1>6, <1>7

-----------------------------------------------------------------------------
(* The steps.                                                              *)
LEMMA HeldIs == Kept = acSeen.popped \o Content(rx) /\ Held = Content(rx)
<1>. QED BY DEF Kept, Held, Content, Buffered

LEMMA AcInitially == AcInit => AcInv
<1> SUFFICES ASSUME AcInit PROVE AcInv OBVIOUS
<1> USE DEF AcInit
<1>1. Rx!WellFormed(rx) /\ Rx!Fill(rx) = 0
  <2> DEFINE b == rx.buf
  <2>1. RxSize \in Nat \ {0} /\ MaxReceived \in Nat BY AcAssumption
  <2>2. rx = [buf |-> b, end |-> 0, start |-> 0, bEnd |-> 0, bStart |-> 0]
        /\ b \in [0 .. RxSize - 1 -> Bytes]
    BY <2>1 DEF Rx!EmptyRing, Rx!Slots, Bytes
  <2> HIDE DEF b
  <2>3. 0 \in 0 .. RxSize - 1 BY <2>1
  <2>. QED BY <2>1, <2>2, <2>3, FieldsMakeRx
<1>2. Content(rx) \in Seq(Bytes) /\ Len(Content(rx)) = 0 /\ Content(rx) = <<>>
  BY <1>1, ContentIsSeq, EmptySeq
<1>3. acSeen \in AcSeenType /\ acSeen.came = 0 /\ acSeen.popped = <<>> /\ acSeen.refused = {}
      /\ acSeen.withError = {} /\ acSeen.connects = 0
  BY EmptySeq DEF AcSeenType
<1>4. AcTypeOK
  <2>1. acEvents \in Seq(AcEvents) BY EmptySeq
  <2>2. acSeen.came <= MaxReceived BY <1>3, AcAssumption
  <2>. QED BY <1>1, <1>3, <2>1, <2>2 DEF AcTypeOK
<1>5. Kept = <<>> /\ Len(acEvents) = 0 BY <1>2, <1>3, HeldIs, ConcatEmptySeq, EmptySeq
<1>6. Order(Kept, {}, acEvents, 0)
  <2>1. Members(Kept) = {} /\ Arriving(acEvents) = {} BY <1>5 DEF Members, Arriving
  <2>. QED BY <1>5, <2>1 DEF Order
<1>7. OrderInv BY <1>3, <1>6 DEF OrderInv
<1>8. LinkInv BY <1>3, <1>5 DEF LinkInv, HasEnd, OneEnd
<1>. QED BY <1>4, <1>7, <1>8 DEF AcInv

LEMMA KeptNext == Kept' = acSeen'.popped \o Content(rx')
<1>. QED BY DEF Kept, Held, Content, Buffered

LEMMA AcParts ==
  ASSUME AcInv
  PROVE  /\ Rx!WellFormed(rx) /\ acEvents \in Seq(AcEvents)
         /\ acLink \in {"idle", "advertising", "connected"}
         /\ listenerAdvertises \in BOOLEAN /\ acHalt \in BOOLEAN
         /\ acSeen \in AcSeenType /\ acSeen.came <= MaxReceived /\ acSeen.came \in Nat
         /\ acSeen.popped \in Seq(Bytes) /\ acSeen.connects \in {0, 1}
         /\ Order(Kept, acSeen.refused, acEvents, acSeen.came)
         /\ acSeen.withError \subseteq Members(acSeen.popped)
         /\ acSeen.connects = 0 => acLink = "idle" /\ Len(acEvents) = 0 /\ ~acHalt
         /\ ~acHalt /\ acSeen.connects > 0 => (acLink = "idle" <=> HasEnd(acEvents))
         /\ OneEnd(acEvents)
         /\ acHalt => listenerAdvertises
<1>1. acSeen \in AcSeenType BY DEF AcInv, AcTypeOK
<1>2. acSeen.came \in Nat /\ acSeen.popped \in Seq(Bytes) /\ acSeen.connects \in {0, 1}
  BY <1>1 DEF AcSeenType
<1>. QED BY <1>1, <1>2 DEF AcInv, AcTypeOK, OrderInv, LinkInv

LEMMA AcBuilt ==
  ASSUME AcTypeOK', Order(Kept', acSeen'.refused, acEvents', acSeen'.came),
         acSeen'.withError \subseteq Members(acSeen'.popped), LinkInv'
  PROVE  AcInv'
<1>. QED BY DEF AcInv, OrderInv

\* an event comes from the SoftDevice
LEMMA PeerConnectsKeeps == ASSUME AcInv, PeerConnects PROVE AcInv'
<1> DEFINE e == [event |-> "CONNECTED", bytes |-> <<>>]
<1>1. e \in AcEvents /\ e.event # "WRITE" /\ e.event # "DISCONNECTED" /\ Len(e.bytes) = 0
  BY EmptySeq DEF AcEvents
<1>2. /\ ~acHalt /\ acLink = "advertising" /\ acLink' = "connected"
      /\ acEvents' = Append(acEvents, e)
      /\ rx' = rx /\ listenerAdvertises' = listenerAdvertises /\ acHalt' = acHalt
  BY DEF PeerConnects
<1>3. /\ acSeen' \in AcSeenType
      /\ acSeen'.popped = acSeen.popped /\ acSeen'.refused = acSeen.refused
      /\ acSeen'.withError = acSeen.withError /\ acSeen'.came = acSeen.came
      /\ acSeen'.connects = acSeen.connects
  <2>1. acSeen' = [acSeen EXCEPT !.links = @ + 1] BY DEF PeerConnects
  <2>. QED BY <2>1, AcParts DEF AcSeenType
<1> HIDE DEF e
<1>4. Kept' = Kept BY <1>2, <1>3, HeldIs, KeptNext
<1>5. AcTypeOK'
  <2>1. acEvents' \in Seq(AcEvents) BY <1>1, <1>2, AcParts, EndAdded
  <2>. QED BY <2>1, <1>2, <1>3, AcParts DEF AcTypeOK
<1>6. Order(Kept, acSeen.refused, acEvents', acSeen.came)
  <2>1. /\ acEvents \in Seq(AcEvents) /\ acSeen.came \in Nat
        /\ Order(Kept, acSeen.refused, acEvents, acSeen.came)
    BY AcParts
  <2> DEFINE n == 0
  <2>2. n \in Nat /\ Len(e.bytes) = n /\ acSeen.came + n = acSeen.came
        /\ \A i \in 1 .. n : e.bytes[i] = acSeen.came + i
    BY <2>1, <1>1
  <2> HIDE DEF n
  <2>3. Order(Kept, acSeen.refused, Append(acEvents, e), acSeen.came + n)
    <3>1. (e.event # "WRITE" => n = 0) /\ e \in AcEvents BY <1>1 DEF n
    <3>. QED BY <2>1, <2>2, <3>1, EventAdded
  <2>. QED BY <2>2, <2>3, <1>2
<1>7. LinkInv'
  <2>1. acSeen.connects > 0 /\ ~HasEnd(acEvents) BY <1>2, AcParts
  <2>2. OneEnd(acEvents') /\ (HasEnd(acEvents') <=> HasEnd(acEvents))
    BY <1>1, <1>2, AcParts, EndAdded
  <2>. QED BY <2>1, <2>2, <1>2, <1>3 DEF LinkInv
<1>. QED BY <1>3, <1>4, <1>5, <1>6, <1>7, AcParts, AcBuilt

LEMMA LinkLostKeeps == ASSUME AcInv, LinkLost PROVE AcInv'
<1> DEFINE e == [event |-> "DISCONNECTED", bytes |-> <<>>]
<1>1. e \in AcEvents /\ e.event # "WRITE" /\ e.event = "DISCONNECTED" /\ Len(e.bytes) = 0
  BY EmptySeq DEF AcEvents
<1>2. /\ ~acHalt /\ acLink = "connected" /\ acLink' = "idle"
      /\ acEvents' = Append(acEvents, e)
      /\ rx' = rx /\ listenerAdvertises' = listenerAdvertises /\ acHalt' = acHalt
      /\ acSeen' = acSeen
  BY DEF LinkLost
<1> HIDE DEF e
<1>4. Kept' = Kept BY <1>2, HeldIs, KeptNext
<1>5. AcTypeOK'
  <2>1. acEvents' \in Seq(AcEvents) BY <1>1, <1>2, AcParts, EndAdded
  <2>. QED BY <2>1, <1>2, AcParts DEF AcTypeOK
<1>6. Order(Kept, acSeen.refused, acEvents', acSeen.came)
  <2>1. /\ acEvents \in Seq(AcEvents) /\ acSeen.came \in Nat
        /\ Order(Kept, acSeen.refused, acEvents, acSeen.came)
    BY AcParts
  <2> DEFINE n == 0
  <2>2. n \in Nat /\ Len(e.bytes) = n /\ acSeen.came + n = acSeen.came
        /\ \A i \in 1 .. n : e.bytes[i] = acSeen.came + i
    BY <2>1, <1>1
  <2> HIDE DEF n
  <2>3. Order(Kept, acSeen.refused, Append(acEvents, e), acSeen.came + n)
    <3>1. (e.event # "WRITE" => n = 0) /\ e \in AcEvents BY <1>1 DEF n
    <3>. QED BY <2>1, <2>2, <3>1, EventAdded
  <2>. QED BY <2>2, <2>3, <1>2
<1>7. LinkInv'
  <2>1. acSeen.connects > 0 /\ ~HasEnd(acEvents) BY <1>2, AcParts
  <2>2. OneEnd(acEvents') /\ HasEnd(acEvents')
    BY <2>1, <1>1, <1>2, AcParts, EndAdded
  <2>. QED BY <2>1, <2>2, <1>2 DEF LinkInv
<1>. QED BY <1>2, <1>4, <1>5, <1>6, <1>7, AcParts, AcBuilt

LEMMA PacketComesKeeps == ASSUME AcInv, PacketComes PROVE AcInv'
<1>1. PICK n \in 1 .. MaxPacket :
          /\ acSeen.came + n <= MaxReceived
          /\ acSeen' = [acSeen EXCEPT !.came = @ + n]
          /\ acEvents' = Append(acEvents,
                [event |-> "WRITE", bytes |-> [i \in 1 .. n |-> acSeen.came + i]])
  BY DEF PacketComes
<1> DEFINE b == [i \in 1 .. n |-> acSeen.came + i]
           e == [event |-> "WRITE", bytes |-> b]
<1>n. n \in Nat /\ acSeen.came \in Nat BY <1>1, AcParts
<1>b. b \in Seq(Nat) /\ Len(b) = n /\ \A i \in 1 .. n : b[i] = acSeen.came + i
  <2>1. b \in [1 .. n -> Nat] BY <1>n
  <2>. QED BY <2>1, <1>n
<1>2. /\ ~acHalt /\ acLink = "connected" /\ acLink' = acLink
      /\ acEvents' = Append(acEvents, e)
      /\ rx' = rx /\ listenerAdvertises' = listenerAdvertises /\ acHalt' = acHalt
  BY <1>1 DEF PacketComes
<1> HIDE DEF b
<1>3. e \in AcEvents /\ e.event = "WRITE" /\ e.event # "DISCONNECTED" /\ e.bytes = b
  BY <1>b DEF AcEvents
<1>4. /\ acSeen' \in AcSeenType
      /\ acSeen'.popped = acSeen.popped /\ acSeen'.refused = acSeen.refused
      /\ acSeen'.withError = acSeen.withError /\ acSeen'.came = acSeen.came + n
      /\ acSeen'.connects = acSeen.connects
  <2> DEFINE c == acSeen.came + n
  <2>1. c \in Nat /\ acSeen' = [acSeen EXCEPT !.came = c] BY <1>1, <1>n
  <2> HIDE DEF c
  <2>2. /\ acSeen' \in AcSeenType
        /\ acSeen'.popped = acSeen.popped /\ acSeen'.refused = acSeen.refused
        /\ acSeen'.withError = acSeen.withError /\ acSeen'.came = c
        /\ acSeen'.connects = acSeen.connects
    BY <2>1, AcParts DEF AcSeenType
  <2>. QED BY <2>2 DEF c
<1> HIDE DEF e
<1>5. Kept' = Kept BY <1>2, <1>4, HeldIs, KeptNext
<1>6. AcTypeOK'
  <2>1. acEvents' \in Seq(AcEvents) BY <1>2, <1>3, AcParts, EndAdded
  <2>2. acSeen'.came <= MaxReceived BY <1>1, <1>4
  <2>. QED BY <2>1, <2>2, <1>2, <1>4, AcParts DEF AcTypeOK
<1>7. Order(Kept, acSeen.refused, acEvents', acSeen.came + n)
  BY <1>2, <1>3, <1>n, <1>b, AcParts, EventAdded
<1>8. LinkInv'
  <2>1. acSeen.connects > 0 /\ ~HasEnd(acEvents) BY <1>2, AcParts
  <2>2. OneEnd(acEvents') /\ (HasEnd(acEvents') <=> HasEnd(acEvents))
    BY <1>2, <1>3, AcParts, EndAdded
  <2>. QED BY <2>1, <2>2, <1>2, <1>4 DEF LinkInv
<1>. QED BY <1>4, <1>5, <1>6, <1>7, <1>8, AcParts, AcBuilt

LEMMA ConnectKeeps == ASSUME AcInv, Connect PROVE AcInv'
<1>1. /\ ~acHalt /\ acSeen.connects = 0 /\ acSeen' = [acSeen EXCEPT !.connects = 1]
      /\ rx' = rx /\ acEvents' = acEvents /\ listenerAdvertises' = listenerAdvertises
  BY DEF Connect
<1>2. acLink = "idle" /\ Len(acEvents) = 0 BY <1>1, AcParts
<1>3. acLink' = "advertising" /\ acHalt' = acHalt BY <1>2 DEF Connect, Advertise
<1>4. /\ acSeen' \in AcSeenType
      /\ acSeen'.popped = acSeen.popped /\ acSeen'.refused = acSeen.refused
      /\ acSeen'.withError = acSeen.withError /\ acSeen'.came = acSeen.came
      /\ acSeen'.connects = 1
  BY <1>1, AcParts DEF AcSeenType
<1>5. Kept' = Kept BY <1>1, <1>4, HeldIs, KeptNext
<1>6. AcTypeOK' BY <1>1, <1>3, <1>4, AcParts DEF AcTypeOK
<1>7. LinkInv'
  <2>1. ~HasEnd(acEvents) BY <1>2 DEF HasEnd
  <2>. QED BY <2>1, <1>1, <1>3, <1>4, AcParts DEF LinkInv
<1>. QED BY <1>1, <1>4, <1>5, <1>6, <1>7, AcParts, AcBuilt

\* an event without bytes is handled
LEMMA EventDone ==
  ASSUME NEW K, NEW R, NEW E \in Seq(AcEvents), NEW c \in Nat, Order(K, R, E, c), E # <<>>,
         Len(K) \in Nat, Head(E).event # "WRITE"
  PROVE  Order(K, R, Tail(E), c)
<1> DEFINE e == Head(E)
           n == Len(e.bytes)
           Q == {e.bytes[i] : i \in 0 + 1 .. n}
<1>1. n = 0
  <2>1. e = E[1] /\ 1 \in 1 .. Len(E) BY EmptySeq
  <2> HIDE DEF e
  <2>2. E[1].event # "WRITE" BY <2>1 DEF e
  <2>. QED BY <2>1, <2>2 DEF Order
<1>2. Q = {} BY <1>1
<1>3. Order(K, R \union Q, Tail(E), c)
  <2> DEFINE t == 0
  <2>1. t \in 0 .. n /\ Len(K) = Len(K) + t /\ t = 0 BY <1>1
  <2>2. \A i \in 1 .. t : K[Len(K) + i] = e.bytes[i] OBVIOUS
  <2> HIDE DEF t, e
  <2>3. Order(K, R \union {e.bytes[i] : i \in t + 1 .. n}, Tail(E), c)
    BY <2>1, <2>2, EventTaken DEF e
  <2>. QED BY <2>1, <2>3
<1>. QED BY <1>2, <1>3

\* D is C and the first t elements of b
Grows(C, D, b, t) ==
    /\ Len(D) = Len(C) + t
    /\ \A i \in 1 .. Len(C) : D[i] = C[i]
    /\ \A i \in 1 .. t : D[Len(C) + i] = b[i]

\* what is kept grows with what is held
LEMMA KeptGrows ==
  ASSUME NEW P \in Seq(Bytes), NEW C \in Seq(Bytes), NEW D \in Seq(Bytes), NEW t \in Nat, NEW b,
         Grows(C, D, b, t)
  PROVE  Grows(P \o C, P \o D, b, t)
<1> DEFINE p == Len(P)
           k == Len(C)
           X == P \o C
           Y == P \o D
<1>1. p \in Nat /\ k \in Nat /\ Len(D) = k + t BY LenProperties DEF Grows
<1>2. /\ Len(X) = p + k
      /\ \A i \in 1 .. p + k : X[i] = IF i <= p THEN P[i] ELSE C[i - p]
  BY ConcatProperties
<1>3. /\ Len(Y) = p + (k + t)
      /\ \A i \in 1 .. p + (k + t) : Y[i] = IF i <= p THEN P[i] ELSE D[i - p]
  <2>1. /\ Len(Y) = p + Len(D)
        /\ \A i \in 1 .. p + Len(D) : Y[i] = IF i <= p THEN P[i] ELSE D[i - p]
    BY ConcatProperties
  <2> HIDE DEF Y, p, k
  <2>. QED BY <2>1, <1>1
<1>4. (\A i \in 1 .. k : D[i] = C[i]) /\ \A i \in 1 .. t : D[k + i] = b[i] BY DEF Grows
<1> HIDE DEF p, k, X, Y
<1>5. ASSUME NEW i \in 1 .. p + k PROVE Y[i] = X[i]
  <2>1. i \in 1 .. p + (k + t) BY <1>1
  <2>2. CASE i <= p BY <2>1, <2>2, <1>2, <1>3
  <2>3. CASE ~(i <= p)
    <3>1. i - p \in 1 .. k BY <2>3, <1>1
    <3>2. Y[i] = D[i - p] /\ X[i] = C[i - p] BY <2>1, <2>3, <1>2, <1>3
    <3>. QED BY <3>1, <3>2, <1>4
  <2>. QED BY <2>2, <2>3
<1>6. ASSUME NEW i \in 1 .. t PROVE Y[(p + k) + i] = b[i]
  <2>1. /\ (p + k) + i \in 1 .. p + (k + t) /\ ~((p + k) + i <= p)
        /\ ((p + k) + i) - p = k + i
    BY <1>1
  <2>2. Y[(p + k) + i] = D[k + i] BY <2>1, <1>3
  <2>. QED BY <2>2, <1>4
<1>7. Len(X) \in Nat /\ Len(Y) = Len(X) + t BY <1>1, <1>2, <1>3
<1>8. Len(X) = p + k BY <1>2
<1>9. /\ \A i \in 1 .. Len(X) : Y[i] = X[i]
      /\ \A i \in 1 .. t : Y[Len(X) + i] = b[i]
  BY <1>5, <1>6, <1>8
<1>. QED BY <1>7, <1>9 DEF X, Y, Grows

LEMMA DispatchKeeps == ASSUME AcInv, DispatchEvent PROVE AcInv'
<1> DEFINE e == Head(acEvents)
           n == Len(e.bytes)
<1>1. /\ ~acHalt /\ acEvents # <<>> /\ acEvents' = Tail(acEvents)
      /\ listenerAdvertises' = listenerAdvertises
  BY DEF DispatchEvent
<1>2. /\ acEvents \in Seq(AcEvents) /\ OneEnd(acEvents)
      /\ Order(Kept, acSeen.refused, acEvents, acSeen.came) /\ acSeen.came \in Nat
      /\ Rx!WellFormed(rx) /\ acSeen.popped \in Seq(Bytes)
      /\ acSeen \in AcSeenType /\ acSeen.came <= MaxReceived
  BY AcParts
<1>3. /\ acEvents' \in Seq(AcEvents) /\ OneEnd(acEvents') /\ e \in AcEvents
      /\ e.event # "DISCONNECTED" => (HasEnd(acEvents') <=> HasEnd(acEvents))
      /\ e.event = "DISCONNECTED" => HasEnd(acEvents) /\ ~HasEnd(acEvents')
  BY <1>1, <1>2, EndTaken
<1>4. e.bytes \in Seq(Nat) /\ n \in Nat BY <1>3, LenProperties DEF AcEvents
<1>5. acSeen.connects = 1
  <2>1. Len(acEvents) # 0 BY <1>1, <1>2, EmptySeq
  <2>. QED BY <2>1, AcParts
<1>6. acLink = "idle" <=> HasEnd(acEvents) BY <1>1, <1>5, AcParts
<1>7. Content(rx) \in Seq(Bytes) BY <1>2, ContentIsSeq
<1>8. Len(Kept) \in Nat
  <2>1. acSeen.popped \o Content(rx) \in Seq(Bytes) BY <1>2, <1>7, ConcatProperties
  <2>. QED BY <2>1, HeldIs, LenProperties
<1>9. CASE e.event # "WRITE"
  <2>1. rx' = rx /\ acSeen' = acSeen BY <1>9 DEF DispatchEvent
  <2>2. Kept' = Kept BY <2>1, HeldIs, KeptNext
  <2>3. Order(Kept, acSeen.refused, acEvents', acSeen.came) BY <1>1, <1>2, <1>8, <1>9, EventDone
  <2>4. CASE e.event = "CONNECTED"
    <3>1. acLink' = acLink /\ acHalt' = acHalt BY <2>4, <1>9 DEF DispatchEvent
    <3>2. AcTypeOK' BY <3>1, <2>1, <1>1, <1>3, AcParts DEF AcTypeOK
    <3>3. LinkInv' BY <3>1, <2>1, <2>4, <1>1, <1>3, <1>5, <1>6 DEF LinkInv
    <3>. QED BY <3>2, <3>3, <2>1, <2>2, <2>3, AcParts, AcBuilt
  <2>5. CASE e.event = "DISCONNECTED"
    <3>1. OnDisconnected BY <2>5, <1>9 DEF DispatchEvent
    <3>2. acLink = "idle" BY <2>5, <1>3, <1>6
    <3>3. \/ ~listenerAdvertises /\ acLink' = "advertising" /\ acHalt' = acHalt
          \/ listenerAdvertises /\ acHalt' = TRUE /\ acLink' = acLink
      BY <3>1, <3>2, AcParts DEF OnDisconnected, Advertise
    <3>4. AcTypeOK' BY <3>3, <2>1, <1>1, <1>3, AcParts DEF AcTypeOK
    <3>5. LinkInv' BY <3>3, <2>1, <2>5, <1>1, <1>3, <1>5 DEF LinkInv
    <3>. QED BY <3>4, <3>5, <2>1, <2>2, <2>3, AcParts, AcBuilt
  <2>. QED BY <2>4, <2>5, <1>3, <1>9 DEF AcEvents
<1>10. CASE e.event = "WRITE"
  <2> DEFINE b == e.bytes
             room == Rx!RemainingSpace(rx)
             t == Fitting(rx, n)
             D == Content(rx')
             Q == {b[i] : i \in room + 1 .. n}
  <2>1. /\ rx' = PushElements(rx, b) /\ acLink' = acLink /\ acHalt' = acHalt
        /\ acSeen' = [acSeen EXCEPT !.refused = @ \union Q]
    BY <1>10 DEF DispatchEvent
  <2>2. b \in Seq(Bytes)
    <3>1. 1 \in 1 .. Len(acEvents) /\ e = acEvents[1] BY <1>1, <1>2, EmptySeq
    <3>2. ASSUME NEW i \in 1 .. n PROVE b[i] \in Bytes
      <4>1. b[i] \in Arriving(acEvents) BY <3>1, Arrives
      <4>2. b[i] \in 1 .. acSeen.came BY <4>1, <1>2 DEF Order
      <4>. QED BY <4>2, <1>2, AcAssumption DEF Bytes
    <3>3. b \in [1 .. n -> Nat] BY <1>4, LenProperties
    <3>4. b \in [1 .. n -> Bytes] BY <3>2, <3>3
    <3>. QED BY <3>4, <1>4
  <2>3. room \in Nat
    <3>1. room = RxSize - Rx!Fill(rx) BY <1>2, ContentIsSeq
    <3> HIDE DEF room
    <3>. QED BY <3>1, <1>2, RxFields
  <2>4. t \in 0 .. n /\ t = (IF n <= room THEN n ELSE room) BY <2>3, <1>4 DEF Fitting
  <2>5. /\ Rx!WellFormed(rx') /\ Len(D) = Len(Content(rx)) + t
        /\ \A i \in 1 .. Len(Content(rx)) : D[i] = Content(rx)[i]
        /\ \A i \in 1 .. t : D[Len(Content(rx)) + i] = b[i]
    BY <1>2, <2>1, <2>2, PushedContent
  <2>6. D \in Seq(Bytes) BY <2>5, ContentIsSeq
  <2>7. Q = {b[i] : i \in t + 1 .. n}
    <3> HIDE DEF b, t, room, n
    <3>1. CASE n <= room
      <4>1. room + 1 .. n = {} /\ t + 1 .. n = {} BY <3>1, <2>3, <2>4, <1>4
      <4>. QED BY <4>1
    <3>2. CASE ~(n <= room)
      <4>1. t = room BY <3>2, <2>4
      <4>. QED BY <4>1
    <3>. QED BY <3>1, <3>2
  <2>8. Q \subseteq Nat
    <3> HIDE DEF b, room, n
    <3>1. \A i \in 1 .. n : b[i] \in Nat
      <4>1. b \in [1 .. n -> Nat] BY <1>4, LenProperties DEF b, n
      <4>. QED BY <4>1
    <3>2. \A i \in room + 1 .. n : i \in 1 .. n BY <2>3, <1>4
    <3>. QED BY <3>1, <3>2
  <2> HIDE DEF Q
  <2>9. /\ acSeen' \in AcSeenType
        /\ acSeen'.popped = acSeen.popped /\ acSeen'.refused = acSeen.refused \union Q
        /\ acSeen'.withError = acSeen.withError /\ acSeen'.came = acSeen.came
        /\ acSeen'.connects = acSeen.connects
    <3> DEFINE R == acSeen.refused \union Q
    <3>1. R \subseteq Nat BY <1>2, <2>8 DEF AcSeenType
    <3>2. acSeen' = [acSeen EXCEPT !.refused = R] BY <2>1
    <3> HIDE DEF R
    <3>3. /\ acSeen' \in AcSeenType
          /\ acSeen'.popped = acSeen.popped /\ acSeen'.refused = R
          /\ acSeen'.withError = acSeen.withError /\ acSeen'.came = acSeen.came
          /\ acSeen'.connects = acSeen.connects
      BY <3>1, <3>2, <1>2 DEF AcSeenType
    <3>. QED BY <3>3 DEF R
  <2>10. Kept' = acSeen.popped \o D /\ Kept = acSeen.popped \o Content(rx)
    BY <2>9, HeldIs, KeptNext
  <2>11. /\ Len(Kept') = Len(Kept) + t
         /\ \A i \in 1 .. Len(Kept) : Kept'[i] = Kept[i]
         /\ \A i \in 1 .. t : Kept'[Len(Kept) + i] = b[i]
    <3> DEFINE C == Content(rx)
               P == acSeen.popped
    <3>1. t \in Nat BY <2>4, <1>4
    <3>2. P \in Seq(Bytes) /\ C \in Seq(Bytes) BY <1>2, <1>7
    <3>3. Grows(C, D, b, t) BY <2>5 DEF Grows
    <3>4. Kept' = P \o D /\ Kept = P \o C BY <2>10
    <3>5. D \in Seq(Bytes) BY <2>6
    <3> HIDE DEF D, t, b, C, P
    <3>6. Grows(P \o C, P \o D, b, t) BY <3>1, <3>2, <3>3, <3>5, KeptGrows
    <3>. QED BY <3>4, <3>6 DEF Grows
  <2>12. Order(Kept', acSeen.refused \union Q, acEvents', acSeen.came)
    <3>1. Order(Kept', acSeen.refused \union {b[i] : i \in t + 1 .. n}, Tail(acEvents), acSeen.came)
      <4> DEFINE J == acSeen.popped \o D
      <4>1. Kept' = J BY <2>10
      <4>2. /\ Len(J) = Len(Kept) + t /\ t \in 0 .. Len(Head(acEvents).bytes)
            /\ \A i \in 1 .. Len(Kept) : J[i] = Kept[i]
            /\ \A i \in 1 .. t : J[Len(Kept) + i] = Head(acEvents).bytes[i]
        BY <2>4, <2>11, <4>1
      <4> HIDE DEF t, J, D
      <4>3. Order(J, acSeen.refused \union {Head(acEvents).bytes[i] :
                       i \in t + 1 .. Len(Head(acEvents).bytes)}, Tail(acEvents), acSeen.came)
        <5> HIDE DEF e, n, b
        <5>. QED BY <4>2, <1>1, <1>2, <1>8, EventTaken
      <4>. QED BY <4>1, <4>3
    <3>. QED BY <3>1, <2>7, <1>1
  <2>13. AcTypeOK' BY <2>1, <2>5, <2>9, <1>1, <1>3, AcParts DEF AcTypeOK
  <2>14. LinkInv' BY <2>1, <2>9, <1>1, <1>3, <1>5, <1>6, <1>10 DEF LinkInv
  <2>. QED BY <2>9, <2>12, <2>13, <2>14, AcParts, AcBuilt
<1>. QED BY <1>9, <1>10

LEMMA ReceiveKeeps == ASSUME AcInv, NEW n \in 1 .. MaxPacket, Receive(n) PROVE AcInv'
<1> DEFINE got == PopElements(rx, n)
           more == IF Len(got.bytes) < n THEN {got.bytes[i] : i \in 1 .. Len(got.bytes)} ELSE {}
<1>1. /\ rx' = got.ring /\ acLink' = acLink /\ acEvents' = acEvents
      /\ listenerAdvertises' = listenerAdvertises /\ acHalt' = acHalt
      /\ acSeen' = [acSeen EXCEPT !.popped = @ \o got.bytes,
                       !.withError = IF Len(got.bytes) < n
                                     THEN @ \union {got.bytes[i] : i \in 1 .. Len(got.bytes)} ELSE @]
  BY DEF Receive
<1>2. /\ Rx!WellFormed(rx) /\ acSeen \in AcSeenType /\ acSeen.popped \in Seq(Bytes)
      /\ acSeen.withError \subseteq Members(acSeen.popped)
  BY AcParts
<1>3. /\ Rx!WellFormed(got.ring) /\ got.bytes \in Seq(Bytes)
      /\ got.bytes \o Content(got.ring) = Content(rx)
  <2>1. n \in Nat BY AcAssumption
  <2>. QED BY <2>1, <1>2, PoppedContent
<1> HIDE DEF got
<1>4. more = {} \/ more = {got.bytes[i] : i \in 1 .. Len(got.bytes)} OBVIOUS
<1> DEFINE P == acSeen.popped \o got.bytes
           W == acSeen.withError \union more
<1>5. acSeen' = [acSeen EXCEPT !.popped = P, !.withError = W]
  <2>1. W = IF Len(got.bytes) < n
            THEN acSeen.withError \union {got.bytes[i] : i \in 1 .. Len(got.bytes)}
            ELSE acSeen.withError
    OBVIOUS
  <2> HIDE DEF W
  <2>. QED BY <2>1, <1>1
<1>6. P \in Seq(Bytes) BY <1>2, <1>3, ConcatProperties
<1>7. W \subseteq Members(P)
  <2> DEFINE k == Len(acSeen.popped)
             l == Len(got.bytes)
  <2>1. k \in Nat /\ l \in Nat BY <1>2, <1>3, LenProperties
  <2>2. /\ Len(P) = k + l
        /\ \A i \in 1 .. k + l : P[i] = IF i <= k THEN acSeen.popped[i] ELSE got.bytes[i - k]
    BY <1>2, <1>3, ConcatProperties
  <2> HIDE DEF P, k, l
  <2>3. ASSUME NEW m \in acSeen.withError PROVE m \in Members(P)
    <3>1. PICK i \in 1 .. k : m = acSeen.popped[i] BY <1>2 DEF Members, k
    <3>2. i \in 1 .. k + l /\ i <= k BY <2>1
    <3>. QED BY <3>1, <3>2, <2>2 DEF Members
  <2>4. ASSUME NEW m \in more PROVE m \in Members(P)
    <3>1. PICK i \in 1 .. l : m = got.bytes[i] BY <1>4 DEF l
    <3>2. k + i \in 1 .. k + l /\ ~(k + i <= k) /\ (k + i) - k = i BY <2>1
    <3>3. P[k + i] = got.bytes[i] BY <3>2, <2>2
    <3>. QED BY <3>1, <3>2, <3>3, <2>2 DEF Members
  <2>. QED BY <2>3, <2>4
<1>8. W \subseteq Nat
  <2> HIDE DEF P, W
  <2>1. \A i \in 1 .. Len(P) : P[i] \in Nat BY <1>6, ElementOfSeq, AcAssumption DEF Bytes
  <2>. QED BY <2>1, <1>7 DEF Members
<1> HIDE DEF W, P
<1>9. /\ acSeen' \in AcSeenType
      /\ acSeen'.popped = P /\ acSeen'.refused = acSeen.refused
      /\ acSeen'.withError = W /\ acSeen'.came = acSeen.came
      /\ acSeen'.connects = acSeen.connects
  BY <1>2, <1>5, <1>6, <1>8 DEF AcSeenType
<1>10. Kept' = Kept
  <2>1. Kept' = P \o Content(got.ring) BY <1>1, <1>9, KeptNext
  <2>2. Kept = acSeen.popped \o (got.bytes \o Content(got.ring)) BY <1>3, HeldIs
  <2>3. Content(got.ring) \in Seq(Bytes) BY <1>3, ContentIsSeq
  <2>4. P \o Content(got.ring) = acSeen.popped \o (got.bytes \o Content(got.ring))
    <3> DEFINE C == Content(got.ring)
               B == got.bytes
               A == acSeen.popped
    <3>1. A \in Seq(Bytes) /\ B \in Seq(Bytes) /\ C \in Seq(Bytes) BY <1>2, <1>3, <2>3
    <3> HIDE DEF A, B, C
    <3>2. (A \o B) \o C = A \o (B \o C) BY <3>1, ConcatAssociative
    <3>. QED BY <3>2 DEF A, B, C, P
  <2>. QED BY <2>1, <2>2, <2>4
<1>11. AcTypeOK' BY <1>1, <1>3, <1>9, AcParts DEF AcTypeOK
<1>12. LinkInv' BY <1>1, <1>9, AcParts DEF LinkInv
<1>. QED BY <1>1, <1>7, <1>9, <1>10, <1>11, <1>12, AcParts, AcBuilt

-----------------------------------------------------------------------------
(* The invariant and the property.                                         *)
LEMMA AcStays == ASSUME AcInv, UNCHANGED acVars PROVE AcInv'
<1>1. /\ rx' = rx /\ acLink' = acLink /\ acEvents' = acEvents /\ acHalt' = acHalt
      /\ listenerAdvertises' = listenerAdvertises /\ acSeen' = acSeen
  BY DEF acVars
<1>2. Kept' = Kept BY <1>1, HeldIs, KeptNext
<1>3. AcTypeOK' BY <1>1, AcParts DEF AcTypeOK
<1>4. LinkInv' BY <1>1, AcParts DEF LinkInv
<1>. QED BY <1>1, <1>2, <1>3, <1>4, AcParts, AcBuilt

LEMMA AcServes == AcInv => LinkServed
<1> SUFFICES ASSUME AcInv PROVE LinkServed OBVIOUS
<1>1. Kept = acSeen.popped \o Held BY DEF Kept
<1>2. Rx!WellFormed(rx) /\ Order(Kept, acSeen.refused, acEvents, acSeen.came) BY AcParts
<1>3. Rx!RemainingSpace(rx) = RxSize - Buffered BY <1>2, ContentIsSeq DEF Buffered
<1>4. InEvents = Arriving(acEvents) BY DEF InEvents, Arriving
<1>5. ReceivedInOrder
  BY <1>1, <1>2, <1>3, <1>4, AcParts DEF ReceivedInOrder, Order
<1>6. AlwaysConnects
  <2>1. acEvents = <<>> => ~HasEnd(acEvents) BY EmptySeq DEF HasEnd
  <2>. QED BY <2>1, AcParts DEF AlwaysConnects
<1>. QED BY <1>5, <1>6 DEF LinkServed

(* Of the bytes a peer sends, for every size of the buffer, of a packet    *)
(* and every number of connections, none disappears: each waits, has been  *)
(* handed out, in order and once, or has been refused for want of room;    *)
(* and a transceiver that has been connected advertises or has a link as   *)
(* soon as it has handled its events (ac_ble_transceiver.cpp).             *)
THEOREM LinkServedAlways == AcSpec => []LinkServed
<1>1. AcInit => AcInv BY AcInitially
<1>2. AcInv /\ [AcNext]_acVars => AcInv'
  <2>1. SUFFICES ASSUME AcInv, [AcNext]_acVars PROVE AcInv' OBVIOUS
  <2>2. CASE PeerConnects BY <2>1, <2>2, PeerConnectsKeeps
  <2>3. CASE LinkLost BY <2>1, <2>3, LinkLostKeeps
  <2>4. CASE PacketComes BY <2>1, <2>4, PacketComesKeeps
  <2>5. CASE Connect BY <2>1, <2>5, ConnectKeeps
  <2>6. CASE DispatchEvent BY <2>1, <2>6, DispatchKeeps
  <2>7. CASE \E n \in 1 .. MaxPacket : Receive(n)
    <3>1. PICK n \in 1 .. MaxPacket : Receive(n) BY <2>7
    <3>. QED BY <2>1, <3>1, ReceiveKeeps
  <2>8. CASE UNCHANGED acVars BY <2>1, <2>8, AcStays
  <2>. QED BY <2>1, <2>2, <2>3, <2>4, <2>5, <2>6, <2>7, <2>8 DEF AcNext
<1>3. AcInv => LinkServed BY AcServes
<1>. QED BY <1>1, <1>2, <1>3, PTL DEF AcSpec

-----------------------------------------------------------------------------
(* The button: its types, the count of one press, and the edge that the    *)
(* channel awaits.                                                         *)
(*                                                                         *)
(* The edges in the queue alternate, from the one that the count awaits to *)
(* the one before the edge that the channel awaits; and the timeouts       *)
(* behind the last press edge are no more than its age.                    *)

QueueEvents == {"pressed_int", "released_int", "timeout"}

Edge(e)   == e \in {"pressed_int", "released_int"}
NoEdge(s) == \A i \in 1 .. Len(s) : ~Edge(s[i])

Alternate(s) ==
    \A i, j \in 1 .. Len(s) :
        Edge(s[i]) /\ Edge(s[j]) /\ i < j /\ (\A k \in i + 1 .. j - 1 : ~Edge(s[k]))
            => s[i] # s[j]

IsFirst(s, i) == i \in 1 .. Len(s) /\ Edge(s[i]) /\ \A k \in 1 .. Len(s) : k < i => ~Edge(s[k])
IsLast(s, i)  == i \in 1 .. Len(s) /\ Edge(s[i]) /\ \A k \in 1 .. Len(s) : i < k => ~Edge(s[k])

\* the edge that the main thread, or the channel, has to see next
NextCounted(d) == IF d = NoCounting THEN "pressed_int" ELSE "released_int"
NextAwaited(l) == IF l = "press" THEN "pressed_int" ELSE "released_int"

\* the queue between a count and an awaited edge
BetweenEdges(s, d, l) ==
    /\ Alternate(s)
    /\ \A i : IsFirst(s, i) => s[i] = NextCounted(d)
    /\ \A i : IsLast(s, i) => s[i] # NextAwaited(l)
    /\ NoEdge(s) => NextCounted(d) = NextAwaited(l)

\* the timeouts that will be counted are no more than the press is old
Fits(s, d, a) ==
    /\ NoEdge(s) /\ d # NoCounting => d + Len(s) <= a
    /\ \A i : IsLast(s, i) /\ s[i] = "pressed_int" => Len(s) - i <= a

QueueInv == BetweenEdges(queue, dur, lastEdge) /\ Fits(queue, dur, age)

\* what the interrupt handler has seen is still so unless the pin has moved
HandlerInv ==
    /\ isr = "idle" /\ ~latched /\ ~unseen => pin # LevelAfter(lastEdge)
    /\ isr = "reject" /\ ~unseen => pin # LevelAfter(lastEdge)
    /\ isr \in {"detach", "attach"} /\ ~unseen => sample = pin

-----------------------------------------------------------------------------
(* Queues.                                                                 *)

LEMMA AppendFacts ==
    ASSUME NEW S, NEW s \in Seq(S), NEW e \in S
    PROVE  /\ Append(s, e) \in Seq(S) /\ Len(s) \in Nat
           /\ Len(Append(s, e)) = Len(s) + 1
           /\ \A i \in 1 .. Len(s) : Append(s, e)[i] = s[i]
           /\ Append(s, e)[Len(s) + 1] = e
  OBVIOUS

LEMMA TailFacts ==
    ASSUME NEW S, NEW s \in Seq(S), s # <<>>
    PROVE  /\ Tail(s) \in Seq(S) /\ Head(s) = s[1] /\ Head(s) \in S
           /\ Len(s) \in Nat /\ Len(s) >= 1 /\ Len(Tail(s)) = Len(s) - 1
           /\ \A i \in 1 .. Len(s) - 1 : Tail(s)[i] = s[i + 1]
  OBVIOUS

(* A timeout at the end.                                                   *)
LEMMA AppendTimeout ==
    ASSUME NEW s \in Seq(QueueEvents), NEW d \in Nat, NEW l, NEW a \in Nat,
           BetweenEdges(s, d, l), Fits(s, d, a)
    PROVE  BetweenEdges(Append(s, "timeout"), d, l) /\ Fits(Append(s, "timeout"), d, a + 1)
  <1> DEFINE t == Append(s, "timeout")
  <1>1. /\ Len(s) \in Nat /\ Len(t) = Len(s) + 1 /\ t[Len(s) + 1] = "timeout"
        /\ \A i \in 1 .. Len(s) : t[i] = s[i]
    BY AppendFacts DEF QueueEvents
  <1> HIDE DEF t
  <1>2. \A i \in 1 .. Len(t) : IF i \in 1 .. Len(s) THEN t[i] = s[i] ELSE ~Edge(t[i])
    BY <1>1 DEF Edge
  <1>3. \A i \in 1 .. Len(s) : i \in 1 .. Len(t)
    BY <1>1
  <1>4. NoEdge(t) <=> NoEdge(s)
    BY <1>2, <1>3 DEF NoEdge
  <1>5. \A i : /\ IsFirst(t, i) => IsFirst(s, i) /\ t[i] = s[i]
               /\ IsLast(t, i) => IsLast(s, i) /\ t[i] = s[i] /\ i \in Nat
    BY <1>1, <1>2, <1>3 DEF IsFirst, IsLast
  <1>6. Alternate(t)
    <2> SUFFICES ASSUME NEW i \in 1 .. Len(t), NEW j \in 1 .. Len(t), Edge(t[i]), Edge(t[j]),
                        i < j, \A k \in i + 1 .. j - 1 : ~Edge(t[k])
                 PROVE  t[i] # t[j]
      BY DEF Alternate
    <2>1. i \in 1 .. Len(s) /\ j \in 1 .. Len(s) /\ t[i] = s[i] /\ t[j] = s[j]
      BY <1>2
    <2>2. \A k \in i + 1 .. j - 1 : ~Edge(s[k])
      BY <1>1, <2>1
    <2>3. QED
      BY <2>1, <2>2 DEF BetweenEdges, Alternate
  <1>7. BetweenEdges(t, d, l)
    BY <1>4, <1>5, <1>6 DEF BetweenEdges
  <1>8. Fits(t, d, a + 1)
    BY <1>1, <1>4, <1>5 DEF Fits
  <1>9. QED
    BY <1>7, <1>8 DEF t

(* The edge that the channel awaited, at the end.                          *)
LEMMA AppendEdge ==
    ASSUME NEW s \in Seq(QueueEvents), NEW d \in Nat, NEW l \in {"press", "release"},
           NEW a \in Nat, BetweenEdges(s, d, l), Fits(s, d, a)
    PROVE  LET e == NextAwaited(l)
               m == IF l = "press" THEN "release" ELSE "press"
           IN  /\ BetweenEdges(Append(s, e), d, m)
               /\ Fits(Append(s, e), d, IF l = "press" THEN 0 ELSE a)
  <1> DEFINE e == NextAwaited(l)
             m == IF l = "press" THEN "release" ELSE "press"
             b == IF l = "press" THEN 0 ELSE a
             t == Append(s, e)
  <1>1. /\ Len(s) \in Nat /\ Len(t) = Len(s) + 1 /\ t[Len(s) + 1] = e
        /\ \A i \in 1 .. Len(s) : t[i] = s[i]
    BY AppendFacts DEF QueueEvents, NextAwaited
  <1>2. Edge(e) /\ e # NextAwaited(m) /\ (e = "pressed_int" => b = 0) /\ b \in Nat
    BY DEF Edge, NextAwaited
  <1> HIDE DEF t, e, m, b
  <1>3. \A i \in 1 .. Len(t) : i \in 1 .. Len(s) \/ i = Len(s) + 1
    BY <1>1
  <1>4. Len(s) + 1 \in 1 .. Len(t) /\ \A i \in 1 .. Len(s) : i \in 1 .. Len(t) /\ i < Len(s) + 1
    BY <1>1
  <1>5. ~NoEdge(t)
    BY <1>1, <1>2, <1>4 DEF NoEdge
  <1>6. \A i : IsLast(t, i) => i = Len(s) + 1
    BY <1>1, <1>2, <1>3, <1>4 DEF IsLast
  <1>7. ASSUME NEW i, IsFirst(t, i) PROVE t[i] = NextCounted(d)
    <2>1. CASE i \in 1 .. Len(s)
      <3>1. IsFirst(s, i) /\ t[i] = s[i]
        BY <1>1, <1>4, <1>7, <2>1 DEF IsFirst
      <3>2. QED BY <3>1 DEF BetweenEdges
    <2>2. CASE i = Len(s) + 1
      <3>1. NoEdge(s)
        BY <1>1, <1>4, <1>7, <2>2 DEF IsFirst, NoEdge
      <3>2. QED BY <1>1, <2>2, <3>1 DEF BetweenEdges, e
    <2>3. QED BY <1>3, <1>7, <2>1, <2>2 DEF IsFirst
  <1>8. Alternate(t)
    <2> SUFFICES ASSUME NEW i \in 1 .. Len(t), NEW j \in 1 .. Len(t), Edge(t[i]), Edge(t[j]),
                        i < j, \A k \in i + 1 .. j - 1 : ~Edge(t[k])
                 PROVE  t[i] # t[j]
      BY DEF Alternate
    <2>1. i \in 1 .. Len(s) /\ t[i] = s[i]
      BY <1>1
    <2>2. CASE j \in 1 .. Len(s)
      <3>1. t[j] = s[j] /\ \A k \in i + 1 .. j - 1 : ~Edge(s[k])
        BY <1>1, <2>1, <2>2
      <3>2. QED
        BY <2>1, <2>2, <3>1 DEF BetweenEdges, Alternate
    <2>3. CASE j = Len(s) + 1
      <3>1. \A k \in 1 .. Len(s) : i < k => k \in i + 1 .. j - 1 /\ t[k] = s[k]
        BY <1>1, <2>1, <2>3
      <3>2. IsLast(s, i)
        BY <2>1, <3>1 DEF IsLast
      <3>3. QED
        BY <1>1, <2>1, <2>3, <3>2 DEF BetweenEdges, e
    <2>4. QED BY <1>3, <2>2, <2>3
  <1>9. BetweenEdges(t, d, m)
    BY <1>1, <1>2, <1>5, <1>6, <1>7, <1>8 DEF BetweenEdges
  <1>10. Fits(t, d, b)
    BY <1>1, <1>2, <1>5, <1>6 DEF Fits
  <1>11. QED
    BY <1>9, <1>10 DEF t, e, m, b

(* A timeout at the head, counted or dropped.                              *)
LEMMA TailTimeout ==
    ASSUME NEW s \in Seq(QueueEvents), s # <<>>, ~Edge(Head(s)),
           NEW d \in Nat, NEW c \in Nat, NEW l, NEW a \in Nat,
           BetweenEdges(s, d, l), Fits(s, d, a),
           c <= d + 1, d = NoCounting <=> c = NoCounting
    PROVE  BetweenEdges(Tail(s), c, l) /\ Fits(Tail(s), c, a)
  <1> DEFINE t == Tail(s)
  <1>1. /\ Len(s) \in Nat /\ Len(s) >= 1 /\ Len(t) = Len(s) - 1 /\ Head(s) = s[1]
        /\ \A i \in 1 .. Len(s) - 1 : t[i] = s[i + 1]
    BY TailFacts
  <1> HIDE DEF t
  <1>2. \A i \in 1 .. Len(t) : i + 1 \in 1 .. Len(s) /\ t[i] = s[i + 1]
    BY <1>1
  <1>3. \A i \in 1 .. Len(s) : i = 1 \/ (i - 1 \in 1 .. Len(t) /\ t[i - 1] = s[i])
    BY <1>1
  <1>4. NoEdge(t) <=> NoEdge(s)
    BY <1>1, <1>2, <1>3 DEF NoEdge
  <1>5. \A i : IsFirst(t, i) => IsFirst(s, i + 1) /\ t[i] = s[i + 1]
    BY <1>1, <1>2, <1>3 DEF IsFirst
  <1>6. \A i : IsLast(t, i) => IsLast(s, i + 1) /\ t[i] = s[i + 1] /\ i \in Nat
    BY <1>1, <1>2, <1>3 DEF IsLast
  <1>7. Alternate(t)
    <2> SUFFICES ASSUME NEW i \in 1 .. Len(t), NEW j \in 1 .. Len(t), Edge(t[i]), Edge(t[j]),
                        i < j, \A k \in i + 1 .. j - 1 : ~Edge(t[k])
                 PROVE  t[i] # t[j]
      BY DEF Alternate
    <2>1. /\ i + 1 \in 1 .. Len(s) /\ j + 1 \in 1 .. Len(s) /\ i + 1 < j + 1
          /\ t[i] = s[i + 1] /\ t[j] = s[j + 1]
      BY <1>2
    <2>2. ASSUME NEW k \in i + 1 + 1 .. j + 1 - 1 PROVE ~Edge(s[k])
      <3>1. k \in 1 .. Len(s) /\ k # 1 /\ k - 1 \in i + 1 .. j - 1
        BY <1>1, <2>1, <2>2
      <3>2. t[k - 1] = s[k]
        BY <1>3, <3>1
      <3>3. QED BY <3>1, <3>2
    <2>3. QED
      BY <2>1, <2>2 DEF BetweenEdges, Alternate
  <1>8. BetweenEdges(t, c, l)
    BY <1>4, <1>5, <1>6, <1>7 DEF BetweenEdges, NextCounted
  <1>9. Fits(t, c, a)
    BY <1>1, <1>4, <1>6 DEF Fits
  <1>10. QED
    BY <1>8, <1>9 DEF t

(* An edge at the head is the one that the main thread expects, and the    *)
(* next one is the other.                                                  *)
LEMMA TailEdge ==
    ASSUME NEW s \in Seq(QueueEvents), s # <<>>, Edge(Head(s)),
           NEW d \in Nat, NEW c \in Nat, NEW l \in {"press", "release"}, NEW a \in Nat,
           BetweenEdges(s, d, l), Fits(s, d, a),
           IF Head(s) = "pressed_int" THEN c = 0 ELSE c = NoCounting, NoCounting # 0
    PROVE  /\ Head(s) = NextCounted(d)
           /\ BetweenEdges(Tail(s), c, l) /\ Fits(Tail(s), c, a)
  <1> DEFINE t == Tail(s)
  <1>1. /\ Len(s) \in Nat /\ Len(s) >= 1 /\ Len(t) = Len(s) - 1 /\ Head(s) = s[1]
        /\ \A i \in 1 .. Len(s) - 1 : t[i] = s[i + 1]
    BY TailFacts
  <1> HIDE DEF t
  <1>2. \A i \in 1 .. Len(t) : i + 1 \in 1 .. Len(s) /\ t[i] = s[i + 1]
    BY <1>1
  <1>3. \A i \in 1 .. Len(s) : i = 1 \/ (i - 1 \in 1 .. Len(t) /\ t[i - 1] = s[i])
    BY <1>1
  <1>4. s[1] = NextCounted(d)
    <2>1. IsFirst(s, 1)
      BY <1>1 DEF IsFirst
    <2>2. QED BY <2>1 DEF BetweenEdges
  <1>5. NextCounted(c) # s[1] /\ Edge(NextCounted(c)) /\ Edge(s[1])
    BY <1>1 DEF NextCounted, Edge
  <1>6. ASSUME NEW i, IsFirst(t, i) PROVE t[i] = NextCounted(c)
    <2>1. /\ i \in 1 .. Len(t) /\ i + 1 \in 1 .. Len(s) /\ 1 < i + 1
          /\ t[i] = s[i + 1] /\ Edge(s[i + 1])
      BY <1>1, <1>2, <1>6 DEF IsFirst
    <2>2. ASSUME NEW k \in 1 + 1 .. i + 1 - 1 PROVE ~Edge(s[k])
      <3>1. k \in 1 .. Len(s) /\ k # 1 /\ k - 1 \in 1 .. Len(t) /\ k - 1 < i
        BY <1>1, <2>1, <2>2
      <3>2. t[k - 1] = s[k] /\ ~Edge(t[k - 1])
        BY <1>3, <1>6, <3>1 DEF IsFirst
      <3>3. QED BY <3>2
    <2>3. s[1] # s[i + 1]
      <3>1. 1 \in 1 .. Len(s) /\ Alternate(s)
        BY <1>1 DEF BetweenEdges
      <3>2. QED BY <1>5, <2>1, <2>2, <3>1 DEF Alternate
    <2>4. QED
      BY <1>5, <2>1, <2>3 DEF Edge
  <1>7. \A i : IsLast(t, i) => IsLast(s, i + 1) /\ t[i] = s[i + 1] /\ i \in Nat
    BY <1>1, <1>2, <1>3 DEF IsLast
  <1>8. NoEdge(t) => IsLast(s, 1)
    BY <1>1, <1>3, <1>5 DEF IsLast, NoEdge
  <1>9. Alternate(t)
    <2> SUFFICES ASSUME NEW i \in 1 .. Len(t), NEW j \in 1 .. Len(t), Edge(t[i]), Edge(t[j]),
                        i < j, \A k \in i + 1 .. j - 1 : ~Edge(t[k])
                 PROVE  t[i] # t[j]
      BY DEF Alternate
    <2>1. /\ i + 1 \in 1 .. Len(s) /\ j + 1 \in 1 .. Len(s) /\ i + 1 < j + 1
          /\ t[i] = s[i + 1] /\ t[j] = s[j + 1]
      BY <1>2
    <2>2. ASSUME NEW k \in i + 1 + 1 .. j + 1 - 1 PROVE ~Edge(s[k])
      <3>1. k \in 1 .. Len(s) /\ k # 1 /\ k - 1 \in i + 1 .. j - 1
        BY <1>1, <2>1, <2>2
      <3>2. t[k - 1] = s[k]
        BY <1>3, <3>1
      <3>3. QED BY <3>1, <3>2
    <2>3. QED
      BY <2>1, <2>2 DEF BetweenEdges, Alternate
  <1>10. NoEdge(t) => NextCounted(c) = NextAwaited(l)
    <2>1. NoEdge(t) => s[1] # NextAwaited(l)
      BY <1>8 DEF BetweenEdges
    <2>2. QED
      BY <1>5, <2>1 DEF Edge, NextAwaited
  <1>11. BetweenEdges(t, c, l)
    BY <1>6, <1>7, <1>9, <1>10 DEF BetweenEdges
  <1>12. Fits(t, c, a)
    <2>1. NoEdge(t) /\ c # NoCounting => c = 0 /\ Len(s) - 1 <= a
      BY <1>1, <1>8 DEF Fits
    <2>2. ASSUME NEW i, IsLast(t, i), t[i] = "pressed_int" PROVE Len(t) - i <= a
      <3>1. Len(s) - (i + 1) <= a
        BY <1>7, <2>2 DEF Fits
      <3>2. QED BY <1>1, <1>7, <2>2, <3>1
    <2>3. QED
      BY <1>1, <2>1, <2>2 DEF Fits
  <1>13. QED
    BY <1>1, <1>4, <1>11, <1>12 DEF t

-----------------------------------------------------------------------------
(* The inductive invariant, in the parts that are proved one after another.*)

MainTypes ==
    /\ dur \in 0 .. LongLongDur \/ dur = NoCounting
    /\ timer \in TimerType /\ report \in [kind : Kinds, held : Nat]
    /\ age \in Nat

IsrTypes ==
    /\ pin \in {"up", "down"} /\ edges \in 0 .. MaxEdges
    /\ latched \in BOOLEAN /\ lastEdge \in {"press", "release"}
    /\ isr \in {"idle", "reject", "call", "read", "detach", "attach"}
    /\ sample \in {"up", "down"} /\ unseen \in BOOLEAN

LEMMA TypeParts ==
    /\ TypeOK <=> MainTypes /\ IsrTypes /\ queue \in Seq(QueueEvents)
    /\ TypeOK' <=> MainTypes' /\ IsrTypes' /\ queue' \in Seq(QueueEvents)
  BY DEF TypeOK, MainTypes, IsrTypes, QueueEvents

LEMMA Durations ==
    /\ NoCounting \in Nat /\ LongLongDur \in Nat /\ MaxEdges \in Nat
    /\ 0 < LongLongDur /\ LongLongDur < NoCounting
    /\ MainTypes => dur \in Nat
  BY ButtonAssumption DEF MainTypes

LEMMA TimerTypes ==
    /\ NewTimer \in TimerType
    /\ \A t \in TimerType :
          /\ PeriodicNotify(t) \in TimerType /\ Cancel(t) \in TimerType
          /\ PeriodicNotify(t).active /\ PeriodicNotify(t).running
          /\ ~Cancel(t).active /\ ~Cancel(t).running
  BY DEF TimerType, NewTimer, PeriodicNotify, Cancel

-----------------------------------------------------------------------------
(* The interrupt handler and the pin.                                      *)

LEMMA InterruptTypes ==
    ASSUME IsrTypes, PinMoves \/ Interrupt \/ UNCHANGED <<pin, edges, isrVars, unseen>>
    PROVE  IsrTypes'
  <1>1. CASE PinMoves
    BY <1>1, ButtonAssumption DEF PinMoves, IsrTypes
  <1>2. CASE GpioteHandler \/ RejectEvent \/ AcceptEvent \/ DigitalRead \/ DetachInterrupt
    BY <1>2 DEF GpioteHandler, RejectEvent, AcceptEvent, DigitalRead, DetachInterrupt, IsrTypes
  <1>3. CASE AttachInterrupt
    BY <1>3 DEF AttachInterrupt, Rearm, IsrTypes
  <1>4. CASE UNCHANGED <<pin, edges, isrVars, unseen>>
    BY <1>4 DEF isrVars, IsrTypes
  <1>5. QED
    BY <1>1, <1>2, <1>3, <1>4 DEF Interrupt

LEMMA HandlerStep ==
    ASSUME IsrTypes, HandlerInv,
           PinMoves \/ Interrupt \/ UNCHANGED <<pin, edges, isrVars, unseen>>
    PROVE  HandlerInv'
  <1>1. CASE PinMoves
    BY <1>1 DEF PinMoves, HandlerInv, IsrTypes, LevelAfter
  <1>2. CASE GpioteHandler
    BY <1>2 DEF GpioteHandler, HandlerInv, IsrTypes, LevelAfter
  <1>3. CASE RejectEvent
    BY <1>3 DEF RejectEvent, HandlerInv, IsrTypes, LevelAfter
  <1>4. CASE AcceptEvent \/ DigitalRead \/ DetachInterrupt
    BY <1>4 DEF AcceptEvent, DigitalRead, DetachInterrupt, HandlerInv
  <1>5. CASE AttachInterrupt
    BY <1>5 DEF AttachInterrupt, Rearm, IsSpike, HandlerInv, IsrTypes, LevelAfter
  <1>6. CASE UNCHANGED <<pin, edges, isrVars, unseen>>
    BY <1>6 DEF isrVars, HandlerInv
  <1>7. QED
    BY <1>1, <1>2, <1>3, <1>4, <1>5, <1>6 DEF Interrupt

-----------------------------------------------------------------------------
(* The main thread.                                                        *)

LEMMA KindInKinds ==
    ASSUME NEW d \in Nat PROVE KindOf(d) \in Kinds
  <1>1. KindOf(d) \in {"short", "medium", "long", "long_long", "released"}
    BY ButtonAssumption DEF KindOf
  <1>2. QED
    BY <1>1 DEF Kinds

(* A press edge starts a count and the timer.                              *)
LEMMA PressedStep ==
    ASSUME MainTypes, Pressed, UNCHANGED age
    PROVE  MainTypes' /\ TimerWhileCounting' /\ dur' = 0
  <1>1. dur' = 0 /\ timer' = PeriodicNotify(timer) /\ UNCHANGED report
    BY DEF Pressed
  <1>2. timer' \in TimerType /\ timer'.active /\ timer'.running
    BY <1>1, TimerTypes DEF MainTypes
  <1>3. MainTypes'
    BY <1>1, <1>2, Durations DEF MainTypes
  <1>4. TimerWhileCounting'
    BY <1>1, <1>2, Durations DEF TimerWhileCounting
  <1>5. QED
    BY <1>1, <1>3, <1>4

(* A release edge ends both.                                               *)
LEMMA ReleasedStep ==
    ASSUME MainTypes, TimerWhileCounting, Released, UNCHANGED age
    PROVE  MainTypes' /\ TimerWhileCounting' /\ dur' = NoCounting
  <1>1. timer' \in TimerType /\ ~timer'.active /\ ~timer'.running
    BY TimerTypes DEF Released, MainTypes, TimerWhileCounting
  <1>2. dur' = NoCounting
    BY DEF Released
  <1>3. report' \in [kind : Kinds, held : Nat]
    BY Durations, KindInKinds DEF Released, MainTypes
  <1>4. MainTypes'
    BY <1>1, <1>2, <1>3 DEF MainTypes
  <1>5. TimerWhileCounting'
    BY <1>1, <1>2, Durations DEF TimerWhileCounting
  <1>6. QED
    BY <1>2, <1>4, <1>5

(* A timeout counts, stops the timer at the limit, or is dropped.          *)
LEMMA TimeoutStep ==
    ASSUME MainTypes, TimerWhileCounting, Timeout, UNCHANGED age
    PROVE  /\ MainTypes' /\ TimerWhileCounting'
           /\ dur' \in Nat /\ dur' <= dur + 1 /\ (dur = NoCounting <=> dur' = NoCounting)
  <1>1. CASE Notifies(timer) /\ dur < LongLongDur
    <2>1. dur' = dur + 1 /\ UNCHANGED <<timer, report>>
      BY <1>1 DEF Timeout, TimerElapsed
    <2>2. dur \in 0 .. LongLongDur /\ dur + 1 \in 0 .. LongLongDur /\ dur # NoCounting
      BY <1>1, Durations DEF MainTypes
    <2>3. MainTypes'
      BY <2>1, <2>2 DEF MainTypes
    <2>4. TimerWhileCounting'
      BY <1>1, <2>1, <2>2, Durations DEF TimerWhileCounting
    <2>5. QED
      BY <2>1, <2>2, <2>3, <2>4, Durations
  <1>2. CASE Notifies(timer) /\ ~(dur < LongLongDur)
    <2>1. timer' = Cancel(timer) /\ UNCHANGED <<dur, report>>
      BY <1>2 DEF Timeout, TimerElapsed, Notifies
    <2>2. timer' \in TimerType /\ ~timer'.active /\ ~timer'.running
      BY <2>1, TimerTypes DEF MainTypes
    <2>3. MainTypes'
      BY <2>1, <2>2 DEF MainTypes
    <2>4. TimerWhileCounting'
      BY <1>2, <2>1, <2>2 DEF TimerWhileCounting
    <2>5. QED
      BY <2>1, <2>3, <2>4, Durations
  <1>3. CASE ~Notifies(timer)
    <2>1. UNCHANGED mainVars
      BY <1>3 DEF Timeout
    <2>2. QED
      BY <2>1, Durations DEF mainVars, MainTypes, TimerWhileCounting
  <1>4. QED
    BY <1>1, <1>2, <1>3

MainInv == MainTypes /\ TimerWhileCounting /\ queue \in Seq(QueueEvents) /\ QueueInv

LEMMA ExecuteStep ==
    ASSUME MainInv, IsrTypes, Execute PROVE MainInv'
  <1>1. /\ queue \in Seq(QueueEvents) /\ queue # <<>> /\ queue' = Tail(queue)
        /\ Head(queue) \in QueueEvents /\ queue' \in Seq(QueueEvents)
        /\ UNCHANGED <<lastEdge, age>>
        /\ dur \in Nat /\ age \in Nat /\ lastEdge \in {"press", "release"}
    <2>1. queue \in Seq(QueueEvents) /\ queue # <<>> /\ queue' = Tail(queue)
      BY DEF MainInv, Execute
    <2>2. dur \in Nat /\ age \in Nat /\ lastEdge \in {"press", "release"}
      BY Durations DEF MainInv, MainTypes, IsrTypes
    <2>3. QED
      BY <2>1, <2>2, TailFacts DEF Execute, isrVars
  <1>2. CASE Head(queue) = "pressed_int"
    <2>1. MainTypes' /\ TimerWhileCounting' /\ dur' = 0
      BY <1>1, <1>2, PressedStep DEF Execute, MainInv
    <2>2. BetweenEdges(queue', 0, lastEdge) /\ Fits(queue', 0, age)
      BY <1>1, <1>2, Durations, TailEdge DEF MainInv, QueueInv, Edge
    <2>3. QED
      BY <1>1, <2>1, <2>2 DEF MainInv, QueueInv
  <1>3. CASE Head(queue) = "released_int"
    <2>1. MainTypes' /\ TimerWhileCounting' /\ dur' = NoCounting
      BY <1>1, <1>3, ReleasedStep DEF Execute, MainInv
    <2>2. BetweenEdges(queue', NoCounting, lastEdge) /\ Fits(queue', NoCounting, age)
      BY <1>1, <1>3, Durations, TailEdge DEF MainInv, QueueInv, Edge
    <2>3. QED
      BY <1>1, <2>1, <2>2 DEF MainInv, QueueInv
  <1>4. CASE Head(queue) = "timeout"
    <2>1. /\ MainTypes' /\ TimerWhileCounting'
          /\ dur' \in Nat /\ dur' <= dur + 1 /\ (dur = NoCounting <=> dur' = NoCounting)
      BY <1>1, <1>4, TimeoutStep DEF Execute, MainInv
    <2>2. ~Edge(Head(queue)) /\ BetweenEdges(queue, dur, lastEdge) /\ Fits(queue, dur, age)
      BY <1>4 DEF Edge, MainInv, QueueInv
    <2>3. BetweenEdges(queue', dur', lastEdge) /\ Fits(queue', dur', age)
      BY <1>1, <2>1, <2>2, TailTimeout
    <2>4. QED
      BY <1>1, <2>1, <2>3 DEF MainInv, QueueInv
  <1>5. QED
    BY <1>1, <1>2, <1>3, <1>4 DEF QueueEvents

LEMMA MainStep ==
    ASSUME MainInv, IsrTypes, [Next]_vars PROVE MainInv'
  <1>1. /\ queue \in Seq(QueueEvents) /\ dur \in Nat /\ age \in Nat
        /\ lastEdge \in {"press", "release"} /\ BetweenEdges(queue, dur, lastEdge)
        /\ Fits(queue, dur, age)
    BY Durations DEF MainInv, MainTypes, IsrTypes, QueueInv
  <1>2. ASSUME UNCHANGED <<queue, lastEdge, age, mainVars>> PROVE MainInv'
    BY <1>2 DEF MainInv, MainTypes, TimerWhileCounting, QueueInv, mainVars
  <1>3. CASE TimerFires
    <2>1. queue' = Append(queue, "timeout") /\ age' = age + 1 /\ UNCHANGED <<lastEdge, mainVars>>
      BY <1>3 DEF TimerFires, isrVars
    <2>2. queue' \in Seq(QueueEvents)
      BY <1>1, <2>1, AppendFacts DEF QueueEvents
    <2>3. QueueInv'
      BY <1>1, <2>1, AppendTimeout DEF QueueInv, mainVars
    <2>4. MainTypes' /\ TimerWhileCounting'
      BY <1>1, <2>1 DEF MainInv, MainTypes, TimerWhileCounting, mainVars
    <2>5. QED
      BY <2>2, <2>3, <2>4 DEF MainInv
  <1>4. CASE AttachInterrupt /\ IsSpike
    BY <1>2, <1>4 DEF AttachInterrupt
  <1>5. CASE AttachInterrupt /\ ~IsSpike
    <2>1. /\ queue' = Append(queue, NextAwaited(lastEdge))
          /\ lastEdge' = (IF lastEdge = "press" THEN "release" ELSE "press")
          /\ age' = (IF lastEdge = "press" THEN 0 ELSE age)
          /\ UNCHANGED mainVars
      BY <1>5 DEF AttachInterrupt, NextAwaited
    <2>2. queue' \in Seq(QueueEvents)
      BY <1>1, <2>1, AppendFacts DEF QueueEvents, NextAwaited
    <2>3. QueueInv'
      BY <1>1, <2>1, AppendEdge DEF QueueInv, mainVars
    <2>4. MainTypes' /\ TimerWhileCounting'
      BY <1>1, <2>1 DEF MainInv, MainTypes, TimerWhileCounting, mainVars
    <2>5. QED
      BY <2>2, <2>3, <2>4 DEF MainInv
  <1>6. CASE PinMoves \/ GpioteHandler \/ RejectEvent \/ AcceptEvent \/ DigitalRead \/ DetachInterrupt
    BY <1>2, <1>6 DEF PinMoves, GpioteHandler, RejectEvent, AcceptEvent, DigitalRead,
                      DetachInterrupt
  <1>7. CASE UNCHANGED vars
    BY <1>2, <1>7 DEF vars, isrVars
  <1>8. QED
    BY <1>3, <1>4, <1>5, <1>6, <1>7, ExecuteStep DEF Next, Interrupt

-----------------------------------------------------------------------------
(* The theorems.                                                           *)

IInv == MainInv /\ IsrTypes /\ HandlerInv

LEMMA Inductive == Safety => []IInv
  <1>1. Init => IInv
    <2> SUFFICES ASSUME Init PROVE IInv
      OBVIOUS
    <2>1. MainTypes /\ TimerWhileCounting
      BY TimerTypes, Durations DEF Init, MainTypes, TimerWhileCounting, Kinds, NewTimer
    <2>2. queue \in Seq(QueueEvents) /\ Len(queue) = 0
      BY DEF Init
    <2>3. QueueInv
      BY <2>2 DEF Init, QueueInv, BetweenEdges, Fits, NoEdge, Alternate, IsFirst, IsLast,
                  NextCounted, NextAwaited
    <2>4. IsrTypes /\ HandlerInv
      <3>1. edges \in 0 .. MaxEdges
        BY Durations DEF Init
      <3>2. QED
        BY <3>1 DEF Init, IsrTypes, HandlerInv, LevelAfter
    <2>5. QED
      BY <2>1, <2>2, <2>3, <2>4 DEF IInv, MainInv
  <1>2. IInv /\ [Next]_vars => IInv'
    <2> SUFFICES ASSUME IInv, [Next]_vars PROVE IInv'
      OBVIOUS
    <2>1. PinMoves \/ Interrupt \/ UNCHANGED <<pin, edges, isrVars, unseen>>
      BY DEF Next, TimerFires, Execute, vars
    <2>2. QED
      BY <2>1, MainStep, InterruptTypes, HandlerStep DEF IInv
  <1>3. QED
    BY <1>1, <1>2, PTL DEF Safety

(* Every variable of the button keeps its type: no count passes the longest*)
(* press.                                                                  *)
THEOREM ButtonTypeCorrect == Spec => []TypeOK
  <1>1. IInv => TypeOK
    BY TypeParts DEF IInv, MainInv
  <1>2. QED
    BY <1>1, Inductive, PTL DEF Spec

(* However the pin bounces and however many events wait, a press is counted*)
(* from its own edge to its own release.                                   *)
THEOREM OnePressCounted == Spec => []CountsOnePress
  <1>1. IInv => CountsOnePress
    <2> SUFFICES ASSUME IInv PROVE CountsOnePress
      OBVIOUS
    <2>1. /\ BetweenEdges(queue, dur, lastEdge) /\ Fits(queue, dur, age) /\ TimerWhileCounting
          /\ queue \in Seq(QueueEvents) /\ lastEdge \in {"press", "release"}
          /\ Len(queue) \in Nat /\ dur \in Nat /\ age \in Nat
      BY Durations DEF IInv, MainInv, QueueInv, IsrTypes, MainTypes
    <2>2. (\A i : IsEdge(i) <=> Edge(queue[i])) /\ Positions = 1 .. Len(queue)
      BY DEF IsEdge, Edge, Positions
    <2>3. \A i \in Positions :
             /\ IsEdge(i) /\ NoEdgeBefore(i) => IsFirst(queue, i)
             /\ IsEdge(i) /\ NoEdgeAfter(i) => IsLast(queue, i)
      BY <2>2 DEF NoEdgeBefore, NoEdgeAfter, IsFirst, IsLast
    <2>4. (\A i \in Positions : ~IsEdge(i)) <=> NoEdge(queue)
      BY <2>2 DEF NoEdge
    <2>5. EdgesAlternate
      <3>1. \A i, j \in Positions :
               IsEdge(i) /\ IsEdge(j) /\ i < j /\ (\A k \in i + 1 .. j - 1 : ~IsEdge(k))
                   => queue[i] # queue[j]
        BY <2>1, <2>2 DEF BetweenEdges, Alternate
      <3>2. \A i \in Positions : IsEdge(i) /\ NoEdgeBefore(i) =>
               queue[i] = IF dur = NoCounting THEN "pressed_int" ELSE "released_int"
        BY <2>1, <2>3 DEF BetweenEdges, NextCounted
      <3>3. \A i \in Positions : IsEdge(i) /\ NoEdgeAfter(i) =>
               lastEdge = IF queue[i] = "pressed_int" THEN "release" ELSE "press"
        BY <2>1, <2>2, <2>3 DEF BetweenEdges, NextAwaited, Edge
      <3>4. (\A i \in Positions : ~IsEdge(i)) =>
               lastEdge = IF dur = NoCounting THEN "press" ELSE "release"
        BY <2>1, <2>4 DEF BetweenEdges, NextCounted, NextAwaited
      <3>5. QED
        BY <3>1, <3>2, <3>3, <3>4 DEF EdgesAlternate
    <2>6. CountsThisPressOnly
      BY <2>1, <2>4 DEF Fits, CountsThisPressOnly
    <2>7. QED
      BY <2>1, <2>5, <2>6 DEF CountsOnePress
  <1>2. QED
    BY <1>1, Inductive, PTL DEF Spec

(* An edge is lost nowhere but between the handler's look at the level and *)
(* the rearming of the channel.                                            *)
THEOREM AwaitedEdgePossible == Spec => []EdgeAwaitedIsPossible
  <1>1. IInv => EdgeAwaitedIsPossible
    BY DEF IInv, HandlerInv, IsrTypes, EdgeAwaitedIsPossible, LevelAfter
  <1>2. QED
    BY <1>1, Inductive, PTL DEF Spec
=============================================================================
