-------------------------- MODULE EventManagerProofs --------------------------
(***************************************************************************)
(* Type correctness of EventManager, the fate of removed listeners, and    *)
(* the dispatch of events, for every number of listeners, list and queue   *)
(* sizes and nesting depths.                                               *)
(***************************************************************************)
EXTENDS EventManager, WellFoundedInduction, SequenceTheorems, FiniteSetTheorems, TLAPS

-----------------------------------------------------------------------------
(* The loop body of both removeListener functions.                         *)

(* An iteration of the removal loop shortens the list by one entry, and    *)
(* each entry of the new list was in the old one.                          *)
LEMMA ShiftShortens ==
    ASSUME NEW S, NEW list \in Seq(S), NEW i \in 1 .. Len(list) - 1
    PROVE  /\ Shift(list, i) \in Seq(S)
           /\ Len(Shift(list, i)) = Len(list) - 1
           /\ \A k \in 1 .. Len(list) - 1 :
                 \E m \in 1 .. Len(list) : Shift(list, i)[k] = list[m]
  <1> DEFINE e == [list EXCEPT ![i] = list[i + 1]]
  <1>1. /\ Len(list) \in Nat /\ i \in 1 .. Len(list) /\ i + 1 \in 1 .. Len(list)
        /\ list[i + 1] \in S
    OBVIOUS
  <1>2. e \in Seq(S) /\ Len(e) = Len(list)
    BY <1>1
  <1>3. \A k \in 1 .. Len(list) : e[k] = IF k = i THEN list[i + 1] ELSE list[k]
    BY <1>1
  <1> HIDE DEF e
  <1> DEFINE s == SubSeq(e, 1, Len(list) - 1)
  <1>4. /\ s \in Seq(S) /\ Len(s) = Len(list) - 1
        /\ \A k \in 1 .. Len(list) - 1 : s[k] = e[k]
    BY <1>1, <1>2
  <1>5. Shift(list, i) = s
    BY DEF Shift, e
  <1>6. QED
    BY <1>1, <1>3, <1>4, <1>5

-----------------------------------------------------------------------------
(* searchListeners.                                                        *)

(* A non-empty set of natural numbers has a least element.                 *)
LEMMA LeastElement ==
    ASSUME NEW T \in SUBSET Nat, T # {}
    PROVE  \E x \in T : \A y \in T : x <= y
  <1> DEFINE R == OpToRel(<, Nat)
  <1>1. IsWellFoundedOn(R, Nat)
    BY NatLessThanWellFounded
  <1>2. PICK x \in T : \A y \in T : ~(<<y, x>> \in R)
    <2> HIDE DEF R
    <2> QED BY <1>1, WFMin
  <1>3. ASSUME NEW y \in T PROVE x <= y
    <2>1. ~(<<y, x>> \in OpToRel(<, Nat))
      BY <1>2
    <2>2. x \in Nat /\ y \in Nat
      OBVIOUS
    <2>3. ~(y < x)
      BY <2>1, <2>2 DEF OpToRel
    <2>4. QED
      BY <2>2, <2>3
  <1>4. QED
    BY <1>3

(* The search finds an entry of the pair if there is one.                  *)
LEMMA FirstOfFound ==
    ASSUME NEW l, NEW c, listeners \in Seq(Entries), HasPair(l, c)
    PROVE  /\ FirstOf(l, c) \in 1 .. Len(listeners)
           /\ IsPair(listeners[FirstOf(l, c)], l, c)
  <1> DEFINE T == {i \in 1 .. Len(listeners) : IsPair(listeners[i], l, c)}
  <1>1. T \in SUBSET Nat /\ T # {} /\ Len(listeners) \in Nat
    BY DEF HasPair
  <1>2. PICK x \in T : \A y \in T : x <= y
    BY <1>1, LeastElement
  <1>3. x \in 1 .. Len(listeners) /\ IsPair(listeners[x], l, c)
    OBVIOUS
  <1>4. \A j \in 1 .. x - 1 : ~IsPair(listeners[j], l, c)
    BY <1>1, <1>2, <1>3
  <1>5. QED
    BY <1>3, <1>4 DEF FirstOf

-----------------------------------------------------------------------------
(* Type correctness.                                                       *)

(* The levels that occur: a handler or a fetch leaves room for one more    *)
(* increment of the index, and only queued and tick events are scanned for.*)
GoodLevels ==
    {v \in Levels :
        /\ v.phase # "scan" => v.index <= MaxListeners
        /\ v.phase = "scan" => v.event \in Events \union {TickEvent}
        /\ v.phase = "call" => v.event \in Events \union {TickEvent, ForeignEvent}}

TypeInv == TypeOK /\ levels \in Seq(GoodLevels)

\* the levels that fetching and scanning begin with, and an excused one
LEMMA LevelsAreGood ==
    /\ FetchLevel \in GoodLevels
    /\ \A e \in Events \union {TickEvent} : ScanLevel(e) \in GoodLevels
    /\ \A v \in GoodLevels : \A ls : [v EXCEPT !.due = @ \ ls] \in GoodLevels
  <1>1. /\ 1 \in 1 .. MaxListeners + 1 /\ 1 <= MaxListeners
    BY ManagerAssumption
  <1>2. FetchLevel \in GoodLevels
    BY <1>1 DEF FetchLevel, GoodLevels, Levels
  <1>3. ASSUME NEW e \in Events \union {TickEvent}
        PROVE  ScanLevel(e) \in GoodLevels
    BY <1>1 DEF ScanLevel, GoodLevels, Levels
  <1>4. ASSUME NEW v \in GoodLevels, NEW ls
        PROVE  [v EXCEPT !.due = @ \ ls] \in GoodLevels
    BY DEF GoodLevels, Levels
  <1>5. QED
    BY <1>2, <1>3, <1>4

\* a sequence without its last element
LEMMA WithoutLast ==
    ASSUME NEW S, NEW s \in Seq(S), Len(s) - 1 \in 0 .. Len(s)
    PROVE  /\ SubSeq(s, 1, Len(s) - 1) \in Seq(S)
           /\ Len(SubSeq(s, 1, Len(s) - 1)) = Len(s) - 1
  <1>1. /\ Len(s) \in Nat /\ Len(s) - 1 \in Int /\ 1 \in Int
        /\ \A i \in 1 .. Len(s) - 1 : s[i] \in S
    OBVIOUS
  <1>2. /\ SubSeq(s, 1, Len(s) - 1) \in Seq(S)
        /\ Len(SubSeq(s, 1, Len(s) - 1)) =
              IF 1 <= Len(s) - 1 THEN (Len(s) - 1) - 1 + 1 ELSE 0
    BY <1>1, SubSeqProperties
  <1>3. 0 <= Len(s) - 1
    BY <1>1
  <1> DEFINE n == Len(s)
             m == Len(SubSeq(s, 1, Len(s) - 1))
  <1>4. n \in Nat /\ 0 <= n - 1 /\ m = IF 1 <= n - 1 THEN (n - 1) - 1 + 1 ELSE 0
    BY <1>1, <1>2, <1>3
  <1> HIDE DEF n, m
  <1>5. m = n - 1
    BY <1>4
  <1>6. QED
    BY <1>2, <1>5 DEF n, m

\* replacing the top, adding and removing a level, and excusing listeners
LEMMA StackStaysGood ==
    ASSUME TypeInv, NEW v \in GoodLevels, NEW ls
    PROVE  /\ levels # <<>> => /\ [levels EXCEPT ![Len(levels)] = v] \in Seq(GoodLevels)
                               /\ Len([levels EXCEPT ![Len(levels)] = v]) = Len(levels)
                               /\ SubSeq(levels, 1, Len(levels) - 1) \in Seq(GoodLevels)
                               /\ Len(SubSeq(levels, 1, Len(levels) - 1)) = Len(levels) - 1
                               /\ Top \in GoodLevels
           /\ Append(levels, v) \in Seq(GoodLevels)
           /\ Len(Append(levels, v)) = Len(levels) + 1
           /\ [k \in 1 .. Len(levels) |-> [levels[k] EXCEPT !.due = @ \ ls]] \in Seq(GoodLevels)
           /\ Len([k \in 1 .. Len(levels) |-> [levels[k] EXCEPT !.due = @ \ ls]]) = Len(levels)
  <1>1. levels \in Seq(GoodLevels) /\ Len(levels) \in Nat
    BY DEF TypeInv
  <1>2. ASSUME levels # <<>>
        PROVE  /\ [levels EXCEPT ![Len(levels)] = v] \in Seq(GoodLevels)
               /\ Len([levels EXCEPT ![Len(levels)] = v]) = Len(levels)
               /\ SubSeq(levels, 1, Len(levels) - 1) \in Seq(GoodLevels)
               /\ Len(SubSeq(levels, 1, Len(levels) - 1)) = Len(levels) - 1
               /\ Top \in GoodLevels
    <2>1. Len(levels) \in 1 .. Len(levels)
      BY <1>1, <1>2
    <2>2. /\ [levels EXCEPT ![Len(levels)] = v] \in Seq(GoodLevels)
          /\ Len([levels EXCEPT ![Len(levels)] = v]) = Len(levels)
      BY <1>1, <2>1
    <2>3. /\ SubSeq(levels, 1, Len(levels) - 1) \in Seq(GoodLevels)
          /\ Len(SubSeq(levels, 1, Len(levels) - 1)) = Len(levels) - 1
      <3>1. Len(levels) - 1 \in 0 .. Len(levels)
        BY <1>1, <2>1
      <3>2. QED
        BY <1>1, <3>1, WithoutLast
    <2>4. Top \in GoodLevels
      BY <1>1, <2>1 DEF Top
    <2>5. QED
      BY <2>2, <2>3, <2>4
  <1>3. Append(levels, v) \in Seq(GoodLevels) /\ Len(Append(levels, v)) = Len(levels) + 1
    BY <1>1
  <1> DEFINE x == [k \in 1 .. Len(levels) |-> [levels[k] EXCEPT !.due = @ \ ls]]
  <1>4. \A k \in 1 .. Len(levels) : x[k] \in GoodLevels
    <2>1. ASSUME NEW k \in 1 .. Len(levels)
          PROVE  [levels[k] EXCEPT !.due = @ \ ls] \in GoodLevels
      <3>1. levels[k] \in GoodLevels
        BY <1>1
      <3>2. QED
        BY <3>1, LevelsAreGood
    <2>2. QED
      BY <2>1
  <1>5. x \in [1 .. Len(levels) -> GoodLevels]
    BY <1>4
  <1>6. x \in Seq(GoodLevels) /\ Len(x) = Len(levels)
    BY <1>1, <1>5
  <1>7. QED
    BY <1>2, <1>3, <1>6

(* TypeInv is an invariant of the event manager.                           *)
LEMMA TypeInvariant == Safety => []TypeInv
  <1>1. Init => TypeInv
    <2> SUFFICES ASSUME Init PROVE TypeInv
      OBVIOUS
    <2>1. /\ listeners \in Seq(Entries) /\ Len(listeners) = 0
          /\ queue \in Seq(Events \union {ForeignEvent}) /\ Len(queue) = 0
          /\ levels \in Seq(Levels) /\ levels \in Seq(GoodLevels) /\ Len(levels) = 0
          /\ seen \in [Listeners -> Seq(1 .. MaxEvents)]
      BY DEF Init
    <2>2. 0 <= MaxListeners /\ 0 <= QueueSize /\ 0 <= MaxLevels
          /\ 0 \in 0 .. MaxEvents /\ 0 \in 0 .. MaxOps
      BY ManagerAssumption
    <2>3. QED
      BY <2>1, <2>2 DEF Init, TypeInv, TypeOK, Removals
  <1>2. TypeInv /\ [Next]_vars => TypeInv'
    <2> SUFFICES ASSUME TypeInv, [Next]_vars
                 PROVE  TypeInv'
      OBVIOUS
    <2> USE DEF listVars, history
    <2>1. /\ listeners \in Seq(Entries) /\ Len(listeners) <= MaxListeners
          /\ Len(listeners) \in Nat /\ MaxListeners \in Nat /\ MaxListeners > 0
          /\ queue \in Seq(Events \union {ForeignEvent}) /\ Len(queue) <= QueueSize
          /\ Len(queue) \in Nat /\ QueueSize \in Nat
          /\ levels \in Seq(GoodLevels) /\ Len(levels) <= MaxLevels
          /\ Len(levels) \in Nat /\ MaxLevels \in Nat /\ MaxLevels > 0
          /\ stage \in {"app", "drain", "tick"} /\ removal \in Removals
          /\ halted \in BOOLEAN /\ accepted \in 0 .. MaxEvents
          /\ seen \in [Listeners -> Seq(1 .. MaxEvents)]
          /\ broken \subseteq 1 .. MaxEvents /\ gone \subseteq Listeners
          /\ ops \in 0 .. MaxOps /\ MaxOps \in Nat /\ MaxEvents \in Nat
      BY ManagerAssumption DEF TypeInv, TypeOK
    <2>2. levels' \in Seq(GoodLevels) => levels' \in Seq(Levels)
      BY DEF GoodLevels
    \* the conjuncts that a step can disturb, in three groups
    <2> DEFINE ListOK == /\ listeners \in Seq(Entries) /\ Len(listeners) <= MaxListeners
                         /\ removal \in Removals /\ gone \subseteq Listeners
               QueueOK == /\ queue \in Seq(Events \union {ForeignEvent})
                          /\ Len(queue) <= QueueSize /\ halted \in BOOLEAN
                          /\ accepted \in 0 .. MaxEvents
               LevelsOK == /\ levels \in Seq(GoodLevels) /\ Len(levels) <= MaxLevels
                           /\ stage \in {"app", "drain", "tick"}
               SeenOK == /\ seen \in [Listeners -> Seq(1 .. MaxEvents)]
                         /\ broken \subseteq 1 .. MaxEvents /\ ops \in 0 .. MaxOps
    <2>3. ListOK' /\ QueueOK' /\ LevelsOK' /\ SeenOK' => TypeInv'
      BY <2>2 DEF TypeInv, TypeOK
    <2>4. ListOK /\ QueueOK /\ LevelsOK /\ SeenOK
      BY <2>1
    <2>5. /\ UNCHANGED listVars => ListOK'
          /\ UNCHANGED <<queue, halted, accepted>> => QueueOK'
          /\ UNCHANGED <<levels, stage>> => LevelsOK'
          /\ UNCHANGED <<seen, broken, ops>> => SeenOK'
      BY <2>4
    <2>6. ops < MaxOps => ops + 1 \in 0 .. MaxOps
      BY <2>1
    <2> HIDE DEF ListOK, QueueOK, LevelsOK, SeenOK
    <2>7. ASSUME NEW ls, Excuse(ls), UNCHANGED stage
          PROVE  LevelsOK'
      <3>1. FetchLevel \in GoodLevels
        BY LevelsAreGood
      <3>2. levels' \in Seq(GoodLevels) /\ Len(levels') = Len(levels)
        BY <2>7, <3>1, StackStaysGood DEF Excuse
      <3>3. QED
        BY <2>1, <2>7, <3>2 DEF LevelsOK
    <2>8. \A v \in GoodLevels : levels # <<>> /\ SetTop(v) /\ UNCHANGED stage => LevelsOK'
      BY <2>1, StackStaysGood DEF SetTop, LevelsOK
    <2>9. levels # <<>> => Top \in GoodLevels
      BY StackStaysGood, LevelsAreGood
    <2>10. ASSUME NEW l \in Listeners, NEW c \in Codes \union {Tick}, AddListener(l, c)
           PROVE  TypeInv'
      <3>1. [listener |-> l, code |-> c, enabled |-> TRUE] \in Entries
        BY DEF Entries
      <3>2. ListOK'
        BY <2>1, <2>10, <3>1 DEF AddListener, ListOK
      <3>3. QED
        BY <2>3, <2>5, <2>10, <3>2 DEF AddListener
    <2>11. ASSUME NEW l \in Listeners, NEW c \in Codes \union {Tick}, NEW b \in BOOLEAN,
                  EnableListener(l, c, b)
           PROVE  TypeInv'
      <3>1. FirstOf(l, c) \in 1 .. Len(listeners)
        BY <2>1, <2>11, FirstOfFound DEF EnableListener
      <3>2. listeners[FirstOf(l, c)] \in Entries
        BY <2>1, <3>1
      <3>3. [listeners[FirstOf(l, c)] EXCEPT !.enabled = b] \in Entries
        BY <3>2 DEF Entries
      <3>4. listeners' = [listeners EXCEPT ![FirstOf(l, c)] =
                            [listeners[FirstOf(l, c)] EXCEPT !.enabled = b]]
        BY <2>1, <2>11, <3>1 DEF EnableListener
      <3>5. listeners' \in Seq(Entries) /\ Len(listeners') = Len(listeners)
        BY <2>1, <3>1, <3>3, <3>4
      <3>6. ListOK' /\ SeenOK'
        BY <2>1, <2>4, <2>6, <2>11, <3>5 DEF EnableListener, ListOK, SeenOK
      <3>7. LevelsOK'
        BY <2>7, <2>11 DEF EnableListener
      <3>8. QED
        BY <2>3, <2>5, <2>11, <3>6, <3>7 DEF EnableListener
    <2>12. ASSUME NEW l \in Listeners, NEW c \in Codes \union {Tick}, StartRemovePair(l, c)
           PROVE  TypeInv'
      <3>1. FirstOf(l, c) \in 1 .. MaxListeners + 1
        BY <2>1, <2>12, FirstOfFound DEF StartRemovePair
      <3>2. removal' \in Removals
        BY <2>1, <2>12, <3>1 DEF StartRemovePair, Removals
      <3>3. ListOK' /\ SeenOK'
        BY <2>1, <2>4, <2>6, <2>12, <3>2 DEF StartRemovePair, ListOK, SeenOK
      <3>4. LevelsOK'
        BY <2>7, <2>12 DEF StartRemovePair
      <3>5. QED
        BY <2>3, <2>5, <2>12, <3>3, <3>4 DEF StartRemovePair
    <2>13. ASSUME NEW l \in Listeners, StartRemoveAll(l)
           PROVE  TypeInv'
      <3>1. 1 \in 1 .. MaxListeners + 1
        BY <2>1
      <3>2. removal' \in Removals
        BY <2>1, <2>13, <3>1 DEF StartRemoveAll, Removals
      <3>3. ListOK' /\ SeenOK'
        BY <2>1, <2>4, <2>6, <2>13, <3>2 DEF StartRemoveAll, ListOK, SeenOK
      <3>4. LevelsOK'
        BY <2>7, <2>13 DEF StartRemoveAll
      <3>5. QED
        BY <2>3, <2>5, <2>13, <3>3, <3>4 DEF StartRemoveAll
    <2>14. CASE SearchAgain
      <3>1. removal.kind = "search" /\ removal \in Removals /\ 2 \in 1 .. MaxListeners + 1
        BY <2>1, <2>14 DEF SearchAgain
      <3>2. removal.kind # "none"
        BY <3>1
      <3>3. removal \in [kind : {"pair", "all", "search"}, listener : Listeners,
                         code : Codes \union {Tick}, index : 1 .. MaxListeners + 1,
                         before : Seq(Entries)]
        BY <3>1, <3>2 DEF Removals, NoRemoval
      <3>4. [removal EXCEPT !.kind = "all", !.index = 2] \in Removals /\ NoRemoval \in Removals
        BY <3>1, <3>3 DEF Removals
      <3>5. removal' \in Removals /\ gone' \subseteq Listeners
        BY <2>1, <2>14, <3>3, <3>4 DEF SearchAgain
      <3>6. ListOK'
        BY <2>1, <2>14, <3>5 DEF SearchAgain, ListOK
      <3>7. QED
        BY <2>3, <2>5, <2>14, <3>6 DEF SearchAgain
    <2>15. CASE RemoveShift
      <3>1. /\ removal.kind # "none" /\ removal \in Removals
            /\ removal.index < Len(listeners)
        BY <2>1, <2>15 DEF RemoveShift
      <3>2. removal \in [kind : {"pair", "all", "search"}, listener : Listeners,
                         code : Codes \union {Tick}, index : 1 .. MaxListeners + 1,
                         before : Seq(Entries)]
        BY <3>1 DEF Removals, NoRemoval
      <3>3. removal.index \in 1 .. Len(listeners) - 1 /\ removal.index + 1 \in 1 .. MaxListeners + 1
        BY <2>1, <3>1, <3>2
      <3>4. removal' \in Removals
        BY <2>15, <3>2, <3>3 DEF RemoveShift, Removals
      <3>5. listeners' \in Seq(Entries) /\ Len(listeners') = Len(listeners) - 1
        BY <2>1, <2>15, <3>3, ShiftShortens DEF RemoveShift
      <3>6. ListOK'
        BY <2>1, <2>15, <3>4, <3>5 DEF RemoveShift, ListOK
      <3>7. QED
        BY <2>3, <2>5, <2>15, <3>6 DEF RemoveShift
    <2>16. CASE RemoveLoopEnds
      <3>1. removal.kind # "none" /\ removal \in Removals
        BY <2>1, <2>16 DEF RemoveLoopEnds
      <3>2. removal \in [kind : {"pair", "all", "search"}, listener : Listeners,
                         code : Codes \union {Tick}, index : 1 .. MaxListeners + 1,
                         before : Seq(Entries)]
        BY <3>1 DEF Removals, NoRemoval
      <3>3. [removal EXCEPT !.kind = "search"] \in Removals /\ NoRemoval \in Removals
        BY <3>2 DEF Removals
      <3>4. ListOK'
        BY <2>1, <2>16, <3>3 DEF RemoveLoopEnds, ListOK
      <3>5. QED
        BY <2>3, <2>5, <2>16, <3>4 DEF RemoveLoopEnds
    <2>17. ASSUME NEW e \in Events \union {ForeignEvent}, Put(e)
           PROVE  /\ queue' \in Seq(Events \union {ForeignEvent})
                  /\ Len(queue') <= QueueSize /\ halted' \in BOOLEAN
      <3>1. CASE Len(queue) < QueueSize
        <4>1. queue' = Append(queue, e) /\ halted' = halted
          BY <2>17, <3>1 DEF Put
        <4>2. Len(queue') = Len(queue) + 1 /\ queue' \in Seq(Events \union {ForeignEvent})
          BY <2>1, <4>1
        <4>3. QED
          BY <2>1, <3>1, <4>1, <4>2
      <3>2. CASE ~(Len(queue) < QueueSize)
        BY <2>1, <2>17, <3>2 DEF Put
      <3>3. QED
        BY <3>1, <3>2
    <2>18. ASSUME NEW c \in Codes, QueueEvent(c)
           PROVE  TypeInv'
      <3>1. accepted + 1 \in 1 .. MaxEvents /\ accepted + 1 \in 0 .. MaxEvents
        BY <2>1, <2>18 DEF QueueEvent
      <3>2. [code |-> c, id |-> accepted + 1] \in Events
        BY <3>1 DEF Events
      <3>3. QueueOK'
        BY <2>17, <2>18, <3>1, <3>2 DEF QueueEvent, QueueOK
      <3>4. QED
        BY <2>3, <2>5, <2>18, <3>3 DEF QueueEvent
    <2>19. CASE QueueForeign
      <3>1. QueueOK' /\ SeenOK'
        BY <2>4, <2>6, <2>17, <2>19 DEF QueueForeign, QueueOK, SeenOK
      <3>2. QED
        BY <2>3, <2>5, <2>19, <3>1 DEF QueueForeign
    <2>20. CASE ProcessEvent
      <3>1. LevelsOK'
        BY <2>1, <2>20, LevelsAreGood DEF ProcessEvent, LevelsOK
      <3>2. QED
        BY <2>3, <2>5, <2>20, <3>1 DEF ProcessEvent
    <2>21. CASE NestedExecute
      <3>1. LevelsOK'
        BY <2>1, <2>21, LevelsAreGood, StackStaysGood DEF NestedExecute, LevelsOK
      <3>2. \A k \in 1 .. Len(levels) : levels[k].event.id \in (1 .. MaxEvents) \union {0}
        <4>1. ASSUME NEW k \in 1 .. Len(levels)
              PROVE  levels[k].event.id \in (1 .. MaxEvents) \union {0}
          <5>1. levels[k] \in GoodLevels
            BY <2>1
          <5>2. levels[k].event \in Events \union {TickEvent, ForeignEvent, NoEvent}
            BY <5>1 DEF GoodLevels, Levels
          <5>3. QED
            BY <5>2 DEF Events, TickEvent, ForeignEvent, NoEvent
        <4>2. QED
          BY <4>1
      <3>3. broken' \subseteq 1 .. MaxEvents
        BY <2>1, <2>21, <3>2 DEF NestedExecute
      <3>4. SeenOK'
        BY <2>4, <2>6, <2>21, <3>3 DEF NestedExecute, SeenOK
      <3>5. QED
        BY <2>3, <2>5, <2>21, <3>1, <3>4 DEF NestedExecute
    <2>22. CASE Fetch
      <3>1. /\ Head(queue) \in Events \union {ForeignEvent}
            /\ Tail(queue) \in Seq(Events \union {ForeignEvent})
            /\ Len(Tail(queue)) = Len(queue) - 1
        BY <2>1, <2>22 DEF Fetch
      <3>2. QueueOK'
        BY <2>1, <2>4, <2>22, <3>1 DEF Fetch, QueueOK
      <3>3. /\ Top \in GoodLevels /\ Top.phase = "fetch"
            /\ levels # <<>>
        BY <2>9, <2>22 DEF Fetch
      <3>4. [Top EXCEPT !.phase = "call", !.event = ForeignEvent] \in GoodLevels
        BY <3>3 DEF GoodLevels, Levels
      <3>5. Head(queue) # ForeignEvent => ScanLevel(Head(queue)) \in GoodLevels
        BY <3>1, LevelsAreGood
      <3>6. LevelsOK'
        BY <2>8, <2>22, <3>3, <3>4, <3>5 DEF Fetch
      <3>7. QED
        BY <2>3, <2>5, <2>22, <3>2, <3>6 DEF Fetch
    <2>23. CASE ExecuteReturns
      <3>1. LevelsOK'
        BY <2>1, <2>23, StackStaysGood, LevelsAreGood DEF ExecuteReturns, LevelsOK
      <3>2. QED
        BY <2>3, <2>5, <2>23, <3>1 DEF ExecuteReturns
    <2>24. CASE SendTick
      <3>1. ScanLevel(TickEvent) \in GoodLevels
        BY LevelsAreGood
      <3>2. LevelsOK'
        BY <2>1, <2>24, <3>1 DEF SendTick, LevelsOK
      <3>3. QED
        BY <2>3, <2>5, <2>24, <3>2 DEF SendTick
    <2>25. CASE Skip
      <3>1. Top \in GoodLevels /\ Top.phase = "scan" /\ levels # <<>>
        BY <2>9, <2>25 DEF Skip, Scanning
      <3>2. Top.index + 1 \in 1 .. MaxListeners + 1
        BY <2>1, <2>25, <3>1 DEF Skip, GoodLevels, Levels
      <3>3. [Top EXCEPT !.index = @ + 1] \in GoodLevels
        BY <3>1, <3>2 DEF GoodLevels, Levels
      <3>4. LevelsOK'
        BY <2>8, <2>25, <3>1, <3>3 DEF Skip
      <3>5. QED
        BY <2>3, <2>5, <2>25, <3>4 DEF Skip
    <2>26. CASE Call
      <3>1. Top \in GoodLevels /\ Top.phase = "scan" /\ levels # <<>>
        BY <2>9, <2>26 DEF Call, Scanning
      <3>2. Top.index \in 1 .. Len(listeners)
        BY <2>1, <2>26, <3>1 DEF Call, GoodLevels, Levels
      <3>3. [Top EXCEPT !.phase = "call"] \in GoodLevels
        <4>1. Top.index <= MaxListeners
          BY <2>1, <3>2
        <4>2. Top \in Levels /\ Top.event \in Events \union {TickEvent}
          BY <3>1 DEF GoodLevels
        <4>3. [Top EXCEPT !.phase = "call"] \in Levels
          BY <4>2 DEF Levels
        <4>4. QED
          BY <4>1, <4>2, <4>3 DEF GoodLevels, Levels
      <3>4. LevelsOK'
        BY <2>8, <2>26, <3>1, <3>3 DEF Call
      <3>5. Top.event # TickEvent => Top.event.id \in 1 .. MaxEvents
        BY <3>1 DEF GoodLevels, Events
      <3>6. listeners[Top.index].listener \in Listeners
        <4>1. listeners[Top.index] \in Entries
          BY <2>1, <3>2
        <4>2. QED
          BY <4>1 DEF Entries
      <3>7. seen' \in [Listeners -> Seq(1 .. MaxEvents)]
        <4>1. CASE Top.event = TickEvent
          BY <2>1, <2>26, <4>1 DEF Call
        <4>2. CASE Top.event # TickEvent
          <5>1. seen[listeners[Top.index].listener] \in Seq(1 .. MaxEvents)
            BY <2>1, <3>6
          <5>2. Append(seen[listeners[Top.index].listener], Top.event.id) \in Seq(1 .. MaxEvents)
            BY <5>1, <3>5, <4>2
          <5>3. QED
            BY <2>1, <2>26, <3>6, <4>2, <5>2 DEF Call
        <4>3. QED
          BY <4>1, <4>2
      <3>8. SeenOK'
        BY <2>1, <2>26, <3>7 DEF Call, SeenOK
      <3>9. QED
        BY <2>3, <2>5, <2>26, <3>4, <3>8 DEF Call
    <2>27. CASE Return
      <3>1. Top \in GoodLevels /\ Top.phase = "call" /\ levels # <<>>
        BY <2>9, <2>27 DEF Return, AppCode
      <3>2. Top.event # ForeignEvent => Top.event \in Events \union {TickEvent}
        BY <3>1 DEF GoodLevels
      <3>3. Top.index + 1 \in 1 .. MaxListeners + 1
        BY <2>1, <3>1 DEF GoodLevels, Levels
      <3>4. Top.event # ForeignEvent =>
                [Top EXCEPT !.phase = "scan", !.index = @ + 1] \in GoodLevels
        BY <3>1, <3>2, <3>3 DEF GoodLevels, Levels
      <3>5. LevelsOK'
        BY <2>8, <2>27, <3>1, <3>4, LevelsAreGood DEF Return
      <3>6. QED
        BY <2>3, <2>5, <2>27, <3>5 DEF Return
    <2>28. CASE ScanEnds
      <3>1. CASE levels' = <<>>
        <4>1. LevelsOK'
          BY <2>1, <2>28, <3>1 DEF ScanEnds, LevelsOK
        <4>2. QED
          BY <2>3, <2>5, <2>28, <4>1 DEF ScanEnds
      <3>2. CASE SetTop(FetchLevel)
        <4>1. LevelsOK'
          BY <2>8, <2>28, <3>2, LevelsAreGood DEF ScanEnds, Scanning
        <4>2. QED
          BY <2>3, <2>5, <2>28, <4>1 DEF ScanEnds
      <3>3. QED
        BY <2>28, <3>1, <3>2 DEF ScanEnds
    <2>29. CASE UNCHANGED vars
      BY <2>3, <2>5, <2>29 DEF vars
    <2>30. QED
      BY <2>10, <2>11, <2>12, <2>13, <2>14, <2>15, <2>16, <2>18, <2>19, <2>20, <2>21,
         <2>22, <2>23, <2>24, <2>25, <2>26, <2>27, <2>28, <2>29
         DEF Next, Operation, Remove, Dispatch
  <1>3. QED
    BY <1>1, <1>2, PTL DEF Safety

(* Every variable keeps its type: the list never outgrows mListeners, the  *)
(* queue its capacity, and no loop over the list runs outside it, although *)
(* the list changes under the loops of sendEvent and removeListener.       *)
THEOREM TypeCorrect == Safety => []TypeOK
  <1>1. TypeInv => TypeOK
    BY DEF TypeInv
  <1>2. QED
    BY <1>1, TypeInvariant, PTL

-----------------------------------------------------------------------------
(* Removed listeners.                                                      *)

(* Once removeListener(listener) has returned, no entry of the listener is *)
(* left or comes back, whatever pairs and listeners are removed, switched  *)
(* or added later: the removal loops lose and repeat entries of others,    *)
(* but never bring back one of a listener that is not in the list.         *)
THEOREM DestroyedNeverCalled == Safety => []GoneStaysGone
  <1>1. Init => GoneStaysGone
    BY DEF Init, GoneStaysGone
  <1>2. TypeInv /\ GoneStaysGone /\ [Next]_vars => GoneStaysGone'
    <2> SUFFICES ASSUME TypeInv, GoneStaysGone, [Next]_vars
                 PROVE  GoneStaysGone'
      OBVIOUS
    <2> USE DEF listVars, history
    <2>1. listeners \in Seq(Entries) /\ Len(listeners) \in Nat
      BY DEF TypeInv, TypeOK
    <2>2. ASSUME gone' \subseteq gone,
                 \A k \in 1 .. Len(listeners') : \E m \in 1 .. Len(listeners) :
                    listeners'[k].listener = listeners[m].listener
          PROVE  GoneStaysGone'
      BY <2>2 DEF GoneStaysGone, Registered
    <2>3. ASSUME UNCHANGED <<listeners, gone>>
          PROVE  GoneStaysGone'
      BY <2>3 DEF GoneStaysGone, Registered
    <2>4. ASSUME NEW l \in Listeners, NEW c \in Codes \union {Tick}, AddListener(l, c)
          PROVE  GoneStaysGone'
      <3> DEFINE entry == [listener |-> l, code |-> c, enabled |-> TRUE]
      <3>1. listeners' = Append(listeners, entry) /\ gone' = gone \ {l}
        BY <2>4 DEF AddListener
      <3>2. entry \in Entries
        BY DEF Entries
      <3>3. ASSUME NEW x \in gone', NEW k \in 1 .. Len(listeners')
            PROVE  listeners'[k].listener # x
        <4>1. x \in gone /\ x # l
          BY <3>1, <3>3
        <4>2. CASE k \in 1 .. Len(listeners)
          BY <2>1, <3>1, <3>2, <4>1, <4>2 DEF GoneStaysGone, Registered
        <4>3. CASE k = Len(listeners) + 1
          BY <2>1, <3>1, <3>2, <4>1, <4>3
        <4>4. k \in 1 .. Len(listeners) + 1
          BY <2>1, <3>1, <3>2
        <4>5. QED
          BY <2>1, <4>2, <4>3, <4>4
      <3>4. QED
        BY <3>3 DEF GoneStaysGone, Registered
    <2>5. ASSUME NEW l \in Listeners, NEW c \in Codes \union {Tick}, NEW b \in BOOLEAN,
                 EnableListener(l, c, b)
          PROVE  GoneStaysGone'
      <3>1. FirstOf(l, c) \in 1 .. Len(listeners)
        BY <2>1, <2>5, FirstOfFound DEF EnableListener
      <3>2. listeners[FirstOf(l, c)] \in Entries
        BY <2>1, <3>1
      <3>3. /\ [listeners[FirstOf(l, c)] EXCEPT !.enabled = b] \in Entries
            /\ [listeners[FirstOf(l, c)] EXCEPT !.enabled = b].listener
                  = listeners[FirstOf(l, c)].listener
        BY <3>2 DEF Entries
      <3>4. /\ gone' = gone
            /\ listeners' = [listeners EXCEPT ![FirstOf(l, c)] =
                                [listeners[FirstOf(l, c)] EXCEPT !.enabled = b]]
        BY <2>1, <2>5, <3>1 DEF EnableListener
      <3>5. /\ Len(listeners') = Len(listeners)
            /\ \A k \in 1 .. Len(listeners) : listeners'[k].listener = listeners[k].listener
        BY <2>1, <3>1, <3>3, <3>4
      <3>6. QED
        BY <2>2, <3>4, <3>5
    <2>6. CASE SearchAgain
      <3>1. listeners' = listeners
        BY <2>6 DEF SearchAgain
      <3>2. CASE Registered(removal.listener)
        BY <2>3, <2>6, <3>1, <3>2 DEF SearchAgain
      <3>3. CASE ~Registered(removal.listener)
        BY <2>6, <3>1, <3>3 DEF SearchAgain, GoneStaysGone, Registered
      <3>4. QED
        BY <3>2, <3>3
    <2>7. CASE RemoveShift
      <3>1. removal.kind # "none" /\ removal \in Removals
        BY <2>7 DEF RemoveShift, TypeInv, TypeOK
      <3>2. removal.index \in 1 .. MaxListeners + 1
        BY <3>1 DEF Removals, NoRemoval
      <3>3. removal.index \in 1 .. Len(listeners) - 1
        BY <2>1, <2>7, <3>2, ManagerAssumption DEF RemoveShift
      <3>4. /\ Len(listeners') = Len(listeners) - 1 /\ gone' = gone
            /\ \A k \in 1 .. Len(listeners) - 1 :
                  \E m \in 1 .. Len(listeners) : listeners'[k] = listeners[m]
        BY <2>1, <2>7, <3>3, ShiftShortens DEF RemoveShift
      <3>5. QED
        BY <2>2, <3>4
    <2>8. CASE RemoveLoopEnds
      BY <2>3, <2>8 DEF RemoveLoopEnds
    <2>9. ASSUME NEW l \in Listeners, NEW c \in Codes \union {Tick},
                 StartRemovePair(l, c) \/ StartRemoveAll(l)
          PROVE  GoneStaysGone'
      BY <2>3, <2>9 DEF StartRemovePair, StartRemoveAll
    <2>10. CASE NestedExecute \/ QueueForeign \/ \E c \in Codes : QueueEvent(c)
      BY <2>3, <2>10 DEF NestedExecute, QueueForeign, QueueEvent
    <2>11. CASE Dispatch
      BY <2>3, <2>11 DEF Dispatch, ProcessEvent, Fetch, ExecuteReturns, SendTick,
                         Skip, Call, Return, ScanEnds
    <2>12. CASE UNCHANGED vars
      BY <2>3, <2>12 DEF vars
    <2>13. QED
      BY <2>4, <2>5, <2>6, <2>7, <2>8, <2>9, <2>10, <2>11, <2>12
         DEF Next, Operation, Remove
  <1>3. QED
    BY <1>1, <1>2, TypeInvariant, PTL DEF Safety

-----------------------------------------------------------------------------
(***************************************************************************)
(* The event manager dispatches each accepted event once and in order, and *)
(* calls every listener that is due.                                       *)
(***************************************************************************)

(* The inductive invariant.                                                *)

(* The events up to fetched have left the queue, the later ones are in it. *)
(* The dispatches below the innermost are all broken, and a listener that  *)
(* has seen an event younger than one in dispatch has seen it in a nested  *)
(* run.                                                                    *)
Ordered(fetched) ==
    /\ fetched \in 0 .. accepted
    /\ \A id \in fetched + 1 .. accepted : \E k \in 1 .. Len(queue) : queue[k].id = id
    /\ \A k \in 1 .. Len(queue) : queue[k].id # 0 => queue[k].id \in fetched + 1 .. accepted
    /\ \A i, j \in 1 .. Len(queue) :
          i < j /\ queue[i].id # 0 /\ queue[j].id # 0 => queue[i].id < queue[j].id
    /\ \A k \in 1 .. Len(levels) : levels[k].event.id <= fetched
    /\ \A k \in 1 .. Len(levels) : \A m \in 1 .. k - 1 :
          levels[k].event.id # 0 => levels[m].event.id < levels[k].event.id
    /\ \A k \in 1 .. Len(levels) :
          k # Len(levels) /\ levels[k].event.id # 0 => levels[k].event.id \in broken
    /\ \A l \in Listeners : \A i \in 1 .. Len(seen[l]) : seen[l][i] <= fetched
    /\ \A l \in Listeners : \A i \in 1 .. Len(seen[l]) : \A k \in 1 .. Len(levels) :
          levels[k].event.id # 0 /\ seen[l][i] > levels[k].event.id
             => levels[k].event.id \in broken

OrderInv == (~halted => \E fetched \in Nat : Ordered(fetched)) /\ SeenInOrder

(* A removal runs in application code, and excuses everyone.               *)
RemovalInv ==
    removal # NoRemoval =>
        /\ IF levels = <<>> THEN stage = "app" ELSE Top.phase = "call"
        /\ \A k \in 1 .. Len(levels) : levels[k].due = {}

Count(calls, id) == Cardinality({i \in 1 .. Len(calls) : calls[i] = id})

\* the entries of the pair that the scan of level v has reached
Reached(list, v, l) ==
    {i \in 1 .. Len(list) : /\ IsPair(list[i], l, v.event.code)
                            /\ i < v.index \/ (i = v.index /\ v.phase = "call")}

(* A listener has been called at most once for each entry that the scan    *)
(* has reached, and it has an enabled entry that the scan has yet to reach *)
(* or has served.                                                          *)
Served(list, calls, v, l) ==
    /\ Count(calls, v.event.id) <= Cardinality(Reached(list, v, l))
    /\ \E i \in 1 .. Len(list) :
          /\ IsPair(list[i], l, v.event.code) /\ list[i].enabled
          /\ i \in Reached(list, v, l) => Count(calls, v.event.id) >= 1

InScan(v) == v.phase # "fetch" /\ v.event \in Events

ServedInv ==
    \A k \in 1 .. Len(levels) :
        InScan(levels[k]) => \A l \in levels[k].due : Served(listeners, seen[l], levels[k], l)

DispatchInv == OrderInv /\ RemovalInv /\ ServedInv

-----------------------------------------------------------------------------
(* The order of the events.                                                *)

LEMMA Ids ==
    ASSUME TypeInv
    PROVE  /\ Len(levels) \in Nat /\ Len(queue) \in Nat /\ accepted \in Nat
           /\ \A k \in 1 .. Len(levels) : levels[k].event.id \in Nat
           /\ \A k \in 1 .. Len(queue) : /\ queue[k].id \in Nat
                                        /\ queue[k].id # 0 <=> queue[k] # ForeignEvent
           /\ \A l \in Listeners : /\ seen[l] \in Seq(1 .. MaxEvents) /\ Len(seen[l]) \in Nat
                                  /\ \A i \in 1 .. Len(seen[l]) : seen[l][i] \in Nat
  <1>1. /\ levels \in Seq(GoodLevels) /\ queue \in Seq(Events \union {ForeignEvent})
        /\ accepted \in 0 .. MaxEvents /\ seen \in [Listeners -> Seq(1 .. MaxEvents)]
        /\ MaxEvents \in Nat
    BY ManagerAssumption DEF TypeInv, TypeOK
  <1>2. ASSUME NEW e \in Events \union {TickEvent, ForeignEvent, NoEvent}
        PROVE  e.id \in Nat
    BY <1>1 DEF Events, TickEvent, ForeignEvent, NoEvent
  <1>3. ASSUME NEW k \in 1 .. Len(levels) PROVE levels[k].event.id \in Nat
    <2>1. levels[k] \in GoodLevels
      BY <1>1
    <2>2. levels[k].event \in Events \union {TickEvent, ForeignEvent, NoEvent}
      BY <2>1 DEF GoodLevels, Levels
    <2>3. QED
      BY <1>2, <2>2
  <1>4. ASSUME NEW k \in 1 .. Len(queue)
        PROVE  queue[k].id \in Nat /\ (queue[k].id # 0 <=> queue[k] # ForeignEvent)
    <2>1. queue[k] \in Events \union {ForeignEvent}
      BY <1>1
    <2>2. queue[k] \in Events => queue[k].id \in 1 .. MaxEvents
      BY DEF Events
    <2>3. ForeignEvent.id = 0
      BY DEF ForeignEvent
    <2>4. QED
      BY <1>1, <2>1, <2>2, <2>3
  <1>5. ASSUME NEW l \in Listeners
        PROVE  /\ seen[l] \in Seq(1 .. MaxEvents) /\ Len(seen[l]) \in Nat
               /\ \A i \in 1 .. Len(seen[l]) : seen[l][i] \in Nat
    <2>1. seen[l] \in Seq(1 .. MaxEvents)
      BY <1>1
    <2>2. QED
      BY <1>1, <2>1
  <1>6. QED
    BY <1>1, <1>3, <1>4, <1>5

(* Dispatches may end, begin with no event, or go on with theirs.          *)
LEMMA LevelsMayFinish ==
    ASSUME NEW f, Ordered(f), TypeInv, UNCHANGED <<queue, accepted, seen>>,
           broken \subseteq broken', Len(levels') \in Nat,
           \A k \in 1 .. Len(levels') :
              \/ levels'[k].event.id = 0
              \/ k \in 1 .. Len(levels) /\ levels'[k].event.id = levels[k].event.id,
           \A k \in 1 .. Len(levels') :
              k # Len(levels') /\ levels'[k].event.id # 0 => levels'[k].event.id \in broken'
    PROVE  Ordered(f)'
  <1>1. f \in 0 .. accepted /\ accepted \in Nat /\ Len(levels) \in Nat
    BY Ids DEF Ordered
  <1>2. \A k \in 1 .. Len(levels') : levels'[k].event.id <= f
    BY <1>1 DEF Ordered
  <1>3. ASSUME NEW k \in 1 .. Len(levels'), NEW m \in 1 .. k - 1,
               levels'[k].event.id # 0
        PROVE  levels'[m].event.id < levels'[k].event.id
    <2>1. /\ k \in 1 .. Len(levels) /\ levels'[k].event.id = levels[k].event.id
          /\ levels[k].event.id \in Nat
      BY <1>3, Ids
    <2>2. m \in 1 .. Len(levels')
      BY <2>1
    <2>3. m \in 1 .. Len(levels) => levels[m].event.id < levels[k].event.id
      BY <1>3, <2>1 DEF Ordered
    <2>4. QED
      BY <1>3, <2>1, <2>2, <2>3
  <1>4. ASSUME NEW l \in Listeners, NEW i \in 1 .. Len(seen[l]), NEW k \in 1 .. Len(levels'),
               levels'[k].event.id # 0, seen[l][i] > levels'[k].event.id
        PROVE  levels'[k].event.id \in broken'
    <2>1. k \in 1 .. Len(levels) /\ levels'[k].event.id = levels[k].event.id
      BY <1>4
    <2>2. QED
      BY <1>4, <2>1 DEF Ordered
  <1>5. QED
    BY <1>2, <1>3, <1>4 DEF Ordered

(* The top of the stack changes to a level with the same event or none.    *)
LEMMA TopMayFinish ==
    ASSUME NEW f, Ordered(f), TypeInv, UNCHANGED <<queue, accepted, seen, broken>>,
           levels # <<>>, NEW v \in GoodLevels, SetTop(v), v.event.id \in {0, Top.event.id}
    PROVE  Ordered(f)'
  <1>1. levels \in Seq(GoodLevels) /\ Len(levels) \in 1 .. Len(levels)
    BY DEF TypeInv
  <1>2. /\ Len(levels') = Len(levels) /\ levels'[Len(levels)] = v
        /\ \A k \in 1 .. Len(levels) : k # Len(levels) => levels'[k] = levels[k]
    BY <1>1 DEF SetTop
  <1>3. \A k \in 1 .. Len(levels') :
           \/ levels'[k].event.id = 0
           \/ k \in 1 .. Len(levels) /\ levels'[k].event.id = levels[k].event.id
    BY <1>2 DEF Top
  <1>4. \A k \in 1 .. Len(levels') :
           k # Len(levels') /\ levels'[k].event.id # 0 => levels'[k].event.id \in broken'
    BY <1>2 DEF Ordered
  <1>5. QED
    BY <1>1, <1>2, <1>3, <1>4, LevelsMayFinish

(* An event is queued behind the others.                                   *)
LEMMA QueuedLast ==
    ASSUME NEW f, Ordered(f), TypeInv, UNCHANGED <<levels, seen, broken>>,
           NEW e \in Events \union {ForeignEvent}, queue' = Append(queue, e),
           accepted' \in Nat,
           \/ e = ForeignEvent /\ accepted' = accepted
           \/ e.id = accepted + 1 /\ accepted' = accepted + 1
    PROVE  Ordered(f)'
  <1>1. /\ queue \in Seq(Events \union {ForeignEvent}) /\ Len(queue) \in Nat /\ accepted \in Nat
        /\ f \in 0 .. accepted
    BY Ids DEF TypeInv, TypeOK, Ordered
  <1>2. /\ Len(queue') = Len(queue) + 1 /\ queue'[Len(queue) + 1] = e
        /\ \A k \in 1 .. Len(queue) : queue'[k] = queue[k]
    BY <1>1
  <1>3. e.id \in {0, accepted + 1} /\ (e.id = 0 => accepted' = accepted)
        /\ (e.id # 0 => accepted' = accepted + 1)
    BY <1>1 DEF ForeignEvent
  <1>4. ASSUME NEW id \in f + 1 .. accepted'
        PROVE  \E k \in 1 .. Len(queue') : queue'[k].id = id
    <2>1. CASE id \in f + 1 .. accepted
      <3>1. PICK k \in 1 .. Len(queue) : queue[k].id = id
        BY <2>1 DEF Ordered
      <3>2. k \in 1 .. Len(queue') /\ queue'[k].id = id
        BY <1>1, <1>2, <3>1
      <3>3. QED
        BY <3>2
    <2>2. CASE id \notin f + 1 .. accepted
      <3>1. id = accepted + 1 /\ e.id = id
        BY <1>1, <1>3, <1>4, <2>2
      <3>2. Len(queue) + 1 \in 1 .. Len(queue')
        BY <1>1, <1>2
      <3>3. QED
        BY <1>2, <3>1, <3>2
    <2>3. QED
      BY <2>1, <2>2
  <1>5. ASSUME NEW k \in 1 .. Len(queue'), queue'[k].id # 0
        PROVE  queue'[k].id \in f + 1 .. accepted'
    <2>1. CASE k \in 1 .. Len(queue)
      <3>1. queue[k].id \in f + 1 .. accepted
        BY <1>2, <1>5, <2>1 DEF Ordered
      <3>2. QED
        BY <1>1, <1>2, <1>3, <2>1, <3>1
    <2>2. CASE k = Len(queue) + 1
      BY <1>1, <1>2, <1>3, <1>5, <2>2
    <2>3. QED
      BY <1>1, <1>2, <2>1, <2>2
  <1>6. ASSUME NEW i \in 1 .. Len(queue'), NEW j \in 1 .. Len(queue'),
               i < j, queue'[i].id # 0, queue'[j].id # 0
        PROVE  queue'[i].id < queue'[j].id
    <2>1. i \in 1 .. Len(queue)
      BY <1>1, <1>2, <1>6
    <2>2. queue[i].id \in f + 1 .. accepted
      BY <1>2, <1>6, <2>1 DEF Ordered
    <2>3. CASE j \in 1 .. Len(queue)
      BY <1>2, <1>6, <2>1, <2>3 DEF Ordered
    <2>4. CASE j = Len(queue) + 1
      BY <1>1, <1>2, <1>3, <1>6, <2>1, <2>2, <2>4
    <2>5. QED
      BY <1>1, <1>2, <2>3, <2>4
  <1>7. f \in 0 .. accepted'
    BY <1>1, <1>3
  <1>8. QED
    BY <1>4, <1>5, <1>6, <1>7 DEF Ordered

(* The oldest event enters dispatch: it is younger than all those that     *)
(* have been fetched and older than those that stay.                       *)
LEMMA FetchKeepsOrder ==
    ASSUME NEW f, Ordered(f), TypeInv, Fetch
    PROVE  \E g \in Nat : Ordered(g)'
  <1> USE DEF listVars, history
  <1>1. /\ queue \in Seq(Events \union {ForeignEvent}) /\ Len(queue) \in Nat /\ accepted \in Nat
        /\ f \in 0 .. accepted /\ queue # <<>> /\ levels # <<>>
        /\ levels \in Seq(GoodLevels) /\ Len(levels) \in 1 .. Len(levels)
    BY Ids DEF TypeInv, TypeOK, Ordered, Fetch
  <1>2. /\ Len(queue') = Len(queue) - 1 /\ 1 \in 1 .. Len(queue)
        /\ \A k \in 1 .. Len(queue) - 1 : queue'[k] = queue[k + 1] /\ k + 1 \in 1 .. Len(queue)
        /\ Head(queue) = queue[1]
    BY <1>1 DEF Fetch
  <1> DEFINE id == Head(queue).id
  <1>3. /\ id \in Nat /\ (id # 0 <=> Head(queue) # ForeignEvent)
        /\ id # 0 => id \in f + 1 .. accepted
    BY <1>2, Ids DEF Ordered
  <1>4. PICK g \in Nat : g = (IF id = 0 THEN f ELSE id) /\ f <= g /\ g \in 0 .. accepted
    BY <1>1, <1>3
  <1>5. \A k \in 1 .. Len(queue) - 1 : queue[k + 1].id # 0 => queue[k + 1].id \in g + 1 .. accepted
    <2>1. ASSUME NEW k \in 1 .. Len(queue) - 1, queue[k + 1].id # 0
          PROVE  queue[k + 1].id \in g + 1 .. accepted
      <3>1. k + 1 \in 1 .. Len(queue) /\ 1 < k + 1 /\ 1 \in 1 .. Len(queue)
        BY <1>2
      <3>2. queue[k + 1].id \in f + 1 .. accepted
        BY <2>1, <3>1 DEF Ordered
      <3>3. id # 0 => id < queue[k + 1].id
        BY <1>2, <2>1, <3>1 DEF Ordered
      <3>4. QED
        BY <1>1, <1>3, <1>4, <3>2, <3>3
    <2>2. QED
      BY <2>1
  <1>6. ASSUME NEW x \in g + 1 .. accepted
        PROVE  \E k \in 1 .. Len(queue') : queue'[k].id = x
    <2>1. x \in f + 1 .. accepted /\ x # id /\ x # 0
      BY <1>1, <1>3, <1>4, <1>6
    <2>2. PICK k \in 1 .. Len(queue) : queue[k].id = x
      BY <2>1 DEF Ordered
    <2>3. k # 1
      BY <1>2, <2>1, <2>2
    <2>4. k - 1 \in 1 .. Len(queue) - 1 /\ (k - 1) + 1 = k
      BY <1>1, <2>2, <2>3
    <2>5. k - 1 \in 1 .. Len(queue') /\ queue'[k - 1].id = x
      BY <1>2, <2>2, <2>4
    <2>6. QED
      BY <2>5
  <1>7. ASSUME NEW i \in 1 .. Len(queue'), NEW j \in 1 .. Len(queue'),
               i < j, queue'[i].id # 0, queue'[j].id # 0
        PROVE  queue'[i].id < queue'[j].id
    <2>1. /\ i + 1 \in 1 .. Len(queue) /\ j + 1 \in 1 .. Len(queue) /\ i + 1 < j + 1
          /\ queue'[i] = queue[i + 1] /\ queue'[j] = queue[j + 1]
      BY <1>1, <1>2, <1>7
    <2>2. QED
      BY <1>7, <2>1 DEF Ordered
  <1> DEFINE v == IF Head(queue) = ForeignEvent
                  THEN [Top EXCEPT !.phase = "call", !.event = ForeignEvent]
                  ELSE ScanLevel(Head(queue))
  <1>8. v.event.id = id
    <2>1. Top \in GoodLevels
      BY <1>1 DEF Top
    <2>2. CASE Head(queue) = ForeignEvent
      BY <2>1, <2>2 DEF GoodLevels, Levels
    <2>3. CASE Head(queue) # ForeignEvent
      BY <2>3 DEF ScanLevel
    <2>4. QED
      BY <2>2, <2>3
  <1>9. /\ Len(levels') = Len(levels) /\ levels'[Len(levels)] = v
        /\ \A k \in 1 .. Len(levels) : k # Len(levels) => levels'[k] = levels[k]
        /\ UNCHANGED <<accepted, seen, broken>>
    <2> HIDE DEF v
    <2>1. levels' = [levels EXCEPT ![Len(levels)] = v]
      BY DEF Fetch, SetTop, v
    <2>2. QED
      BY <1>1, <2>1 DEF Fetch
  <1> HIDE DEF v
  <1>10. \A k \in 1 .. Len(levels) : levels[k].event.id \in Nat /\ levels[k].event.id <= f
    BY Ids DEF Ordered
  <1>11. \A k \in 1 .. Len(levels') : levels'[k].event.id <= g
    BY <1>1, <1>3, <1>4, <1>8, <1>9, <1>10
  <1>12. ASSUME NEW k \in 1 .. Len(levels'), NEW m \in 1 .. k - 1, levels'[k].event.id # 0
         PROVE  levels'[m].event.id < levels'[k].event.id
    <2>1. m \in 1 .. Len(levels) /\ m # Len(levels) /\ levels'[m] = levels[m] /\ k \in 1 .. Len(levels)
      BY <1>1, <1>9
    <2>2. CASE k = Len(levels)
      <3>1. levels'[k].event.id = id /\ id \in f + 1 .. accepted
        BY <1>3, <1>8, <1>9, <1>12, <2>2
      <3>2. levels[m].event.id \in Nat /\ levels[m].event.id <= f
        BY <1>10, <2>1
      <3>3. QED
        BY <1>1, <2>1, <3>1, <3>2
    <2>3. CASE k # Len(levels)
      BY <1>9, <1>12, <2>1, <2>3 DEF Ordered
    <2>4. QED
      BY <2>2, <2>3
  <1>13. \A k \in 1 .. Len(levels') :
            k # Len(levels') /\ levels'[k].event.id # 0 => levels'[k].event.id \in broken'
    BY <1>9 DEF Ordered
  <1>14. ASSUME NEW l \in Listeners, NEW i \in 1 .. Len(seen[l])
         PROVE  seen[l][i] \in Nat /\ seen[l][i] <= f
    BY Ids DEF Ordered
  <1>15. ASSUME NEW l \in Listeners, NEW i \in 1 .. Len(seen[l]), NEW k \in 1 .. Len(levels'),
                levels'[k].event.id # 0, seen[l][i] > levels'[k].event.id
         PROVE  levels'[k].event.id \in broken'
    <2>1. k # Len(levels)
      <3>1. SUFFICES ASSUME k = Len(levels) PROVE FALSE
        OBVIOUS
      <3>2. levels'[k].event.id = id /\ id \in f + 1 .. accepted
        BY <1>3, <1>8, <1>9, <1>15, <3>1
      <3>3. QED
        BY <1>1, <1>14, <1>15, <3>2
    <2>2. QED
      BY <1>9, <1>13, <1>15, <2>1
  <1>16. \A l \in Listeners : \A i \in 1 .. Len(seen[l]) : seen[l][i] <= g
    BY <1>1, <1>4, <1>14
  <1>17. \A k \in 1 .. Len(queue') : queue'[k].id # 0 => queue'[k].id \in g + 1 .. accepted
    BY <1>2, <1>5
  <1>18. Ordered(g)'
    BY <1>4, <1>6, <1>7, <1>9, <1>11, <1>12, <1>13, <1>15, <1>16, <1>17 DEF Ordered
  <1>19. QED
    BY <1>18

(* A listener is called with the event in the innermost dispatch.          *)
LEMMA CallKeepsOrder ==
    ASSUME NEW f, Ordered(f), TypeInv, SeenInOrder, Call
    PROVE  Ordered(f)' /\ SeenInOrder'
  <1> USE DEF listVars, history
  <1>1. /\ levels \in Seq(GoodLevels) /\ Len(levels) \in 1 .. Len(levels)
        /\ levels # <<>> /\ Top \in GoodLevels /\ Top.phase = "scan"
        /\ Top.index \in 1 .. Len(listeners) /\ listeners \in Seq(Entries)
        /\ f \in 0 .. accepted /\ accepted \in Nat
        /\ seen \in [Listeners -> Seq(1 .. MaxEvents)]
    <2>1. /\ levels \in Seq(GoodLevels) /\ levels # <<>> /\ listeners \in Seq(Entries)
          /\ seen \in [Listeners -> Seq(1 .. MaxEvents)]
      BY DEF TypeInv, TypeOK, Call, Scanning
    <2>2. Len(levels) \in 1 .. Len(levels) /\ Top \in GoodLevels
      BY <2>1 DEF Top
    <2>3. Top.index \in 1 .. Len(listeners)
      BY <2>1, <2>2, ManagerAssumption DEF Call, GoodLevels, Levels
    <2>4. QED
      BY <2>1, <2>2, <2>3, Ids DEF Ordered, Call, Scanning
  <1>2. /\ Len(levels') = Len(levels)
        /\ \A k \in 1 .. Len(levels) : levels'[k].event = levels[k].event
    <2>1. [Top EXCEPT !.phase = "call"].event = Top.event
      BY <1>1 DEF GoodLevels, Levels
    <2>2. levels' = [levels EXCEPT ![Len(levels)] = [Top EXCEPT !.phase = "call"]]
      BY DEF Call, SetTop
    <2>3. QED
      BY <1>1, <2>1, <2>2 DEF Top
  <1>3. CASE Top.event = TickEvent
    <2>1. UNCHANGED <<queue, accepted, seen, broken>>
      BY <1>3 DEF Call
    <2>2. Ordered(f)'
      <3>1. \A k \in 1 .. Len(levels') :
               /\ k \in 1 .. Len(levels) /\ levels'[k].event.id = levels[k].event.id
               /\ k # Len(levels') /\ levels'[k].event.id # 0 => levels'[k].event.id \in broken'
        BY <1>2, <2>1 DEF Ordered
      <3>2. Len(levels') \in Nat /\ broken \subseteq broken'
        BY <1>2, <2>1, Ids
      <3>3. QED
        BY <2>1, <3>1, <3>2, LevelsMayFinish
    <2>3. QED
      BY <2>1, <2>2 DEF SeenInOrder
  <1>4. CASE Top.event # TickEvent
    <2> DEFINE l0 == listeners[Top.index].listener
               id == Top.event.id
    <2>1. /\ l0 \in Listeners /\ id \in 1 .. MaxEvents
      <3>1. listeners[Top.index] \in Entries /\ Top.event \in Events
        BY <1>1, <1>4 DEF GoodLevels
      <3>2. QED
        BY <3>1 DEF Entries, Events
    <2>2. id \in Nat /\ id # 0 /\ id <= f /\ id = levels[Len(levels)].event.id
      <3>1. id \in Nat /\ id # 0
        BY <2>1, ManagerAssumption
      <3>2. QED
        BY <1>1, <3>1 DEF Top, Ordered
    <2>3. /\ UNCHANGED <<queue, accepted, broken>>
          /\ seen' = [seen EXCEPT ![l0] = Append(@, id)]
      BY <1>4 DEF Call
    <2> HIDE DEF l0, id
    <2>4. ASSUME NEW l \in Listeners
          PROVE  /\ l # l0 => seen'[l] = seen[l]
                 /\ l = l0 => Len(seen'[l]) = Len(seen[l]) + 1 /\ seen'[l][Len(seen[l]) + 1] = id
                 /\ \A i \in 1 .. Len(seen[l]) : seen'[l][i] = seen[l][i]
                 /\ Len(seen[l]) \in Nat
      <3>1. seen[l] \in Seq(1 .. MaxEvents) /\ Len(seen[l]) \in Nat
        BY <1>1
      <3>2. CASE l # l0
        BY <1>1, <2>3, <3>1, <3>2
      <3>3. CASE l = l0
        <4>1. seen'[l] = Append(seen[l], id)
          BY <1>1, <2>3, <3>3
        <4>2. QED
          BY <2>1, <3>1, <3>3, <4>1
      <3>4. QED
        BY <3>2, <3>3
    \* an entry of seen' is an old one, or the last and new one
    <2>5. ASSUME NEW l \in Listeners, NEW i \in 1 .. Len(seen'[l])
          PROVE  \/ i \in 1 .. Len(seen[l]) /\ seen'[l][i] = seen[l][i]
                 \/ l = l0 /\ i = Len(seen[l]) + 1 /\ seen'[l][i] = id
      BY <2>4
    <2>6. \A l \in Listeners : \A i \in 1 .. Len(seen'[l]) : seen'[l][i] <= f
      BY <2>2, <2>5 DEF Ordered
    <2>7. ASSUME NEW k \in 1 .. Len(levels), levels[k].event.id # 0, id > levels[k].event.id
          PROVE  levels[k].event.id \in broken
      <3>1. k # Len(levels)
        BY <2>2, <2>7
      <3>2. QED
        BY <2>7, <3>1 DEF Ordered
    <2>8. ASSUME NEW l \in Listeners, NEW i \in 1 .. Len(seen'[l]), NEW k \in 1 .. Len(levels),
                 levels[k].event.id # 0, seen'[l][i] > levels[k].event.id
          PROVE  levels[k].event.id \in broken
      BY <2>5, <2>7, <2>8 DEF Ordered
    <2>9. Ordered(f)'
      <3>1. /\ f \in 0 .. accepted'
            /\ \A i \in f + 1 .. accepted' : \E k \in 1 .. Len(queue') : queue'[k].id = i
            /\ \A k \in 1 .. Len(queue') : queue'[k].id # 0 => queue'[k].id \in f + 1 .. accepted'
            /\ \A i, j \in 1 .. Len(queue') :
                  i < j /\ queue'[i].id # 0 /\ queue'[j].id # 0 => queue'[i].id < queue'[j].id
        BY <2>3 DEF Ordered
      <3>2. \A k \in 1 .. Len(levels') : levels'[k].event.id <= f
        BY <1>2 DEF Ordered
      <3>3. \A k \in 1 .. Len(levels') : \A m \in 1 .. k - 1 :
               levels'[k].event.id # 0 => levels'[m].event.id < levels'[k].event.id
        <4>1. ASSUME NEW k \in 1 .. Len(levels), NEW m \in 1 .. k - 1
              PROVE  m \in 1 .. Len(levels)
          BY Ids
        <4>2. QED
          BY <1>2, <4>1 DEF Ordered
      <3>4. \A k \in 1 .. Len(levels') :
               k # Len(levels') /\ levels'[k].event.id # 0 => levels'[k].event.id \in broken'
        BY <1>2, <2>3 DEF Ordered
      <3>5. \A l \in Listeners : \A i \in 1 .. Len(seen'[l]) : \A k \in 1 .. Len(levels') :
               levels'[k].event.id # 0 /\ seen'[l][i] > levels'[k].event.id
                  => levels'[k].event.id \in broken'
        BY <1>2, <2>3, <2>8
      <3>6. QED
        BY <2>6, <3>1, <3>2, <3>3, <3>4, <3>5 DEF Ordered
    <2>10. ASSUME NEW l \in Listeners, NEW i \in 1 .. Len(seen'[l]), NEW j \in 1 .. Len(seen'[l]),
                  i < j, seen'[l][i] > seen'[l][j]
           PROVE  seen'[l][j] \in broken
      <3>1. i \in 1 .. Len(seen[l]) /\ seen'[l][i] = seen[l][i]
        BY <2>4, <2>5, <2>10
      <3>2. CASE j \in 1 .. Len(seen[l]) /\ seen'[l][j] = seen[l][j]
        BY <2>10, <3>1, <3>2 DEF SeenInOrder
      <3>3. CASE seen'[l][j] = id
        <4>1. seen[l][i] > levels[Len(levels)].event.id /\ levels[Len(levels)].event.id # 0
          BY <2>2, <2>10, <3>1, <3>3
        <4>2. QED
          BY <1>1, <2>2, <3>1, <3>3, <4>1 DEF Ordered
      <3>4. QED
        BY <2>5, <3>2, <3>3
    <2>11. SeenInOrder'
      BY <2>3, <2>10 DEF SeenInOrder
    <2>12. QED
      BY <2>9, <2>11
  <1>5. QED
    BY <1>3, <1>4

-----------------------------------------------------------------------------
(* OrderInv is preserved by every step.                                    *)

LEMMA OrderPreserved ==
    ASSUME TypeInv, OrderInv, [Next]_vars
    PROVE  OrderInv'
  <1> USE DEF listVars, history
  <1>1. CASE UNCHANGED vars
    BY <1>1 DEF OrderInv, Ordered, SeenInOrder, vars
  <1>2. CASE Next
    <2>1. ~halted
      BY <1>2 DEF Next, Operation, Remove, Dispatch, AddListener, StartRemovePair, EnableListener,
                  StartRemoveAll, NestedExecute, SearchAgain, RemoveShift, RemoveLoopEnds,
                  ProcessEvent, Fetch, ExecuteReturns, SendTick, Skip, Call, Return, ScanEnds,
                  QueueEvent, QueueForeign, AppCode, Scanning, Running
    <2>2. PICK f \in Nat : Ordered(f)
      BY <2>1 DEF OrderInv
    <2>3. SeenInOrder
      BY DEF OrderInv
    <2>4. UNCHANGED <<seen, broken>> => SeenInOrder'
      BY <2>3 DEF SeenInOrder
    <2>5. Ordered(f)' /\ SeenInOrder' => OrderInv'
      BY DEF OrderInv
    <2>6. /\ levels \in Seq(GoodLevels) /\ Len(levels) \in Nat
          /\ levels # <<>> => Len(levels) \in 1 .. Len(levels) /\ Top \in GoodLevels
      BY DEF TypeInv, Top
    <2>7. /\ FetchLevel \in GoodLevels /\ FetchLevel.event.id = 0
          /\ ScanLevel(TickEvent).event.id = 0
      BY LevelsAreGood DEF FetchLevel, NoEvent, ScanLevel, TickEvent
    \* steps that leave the events alone
    <2>8. ASSUME UNCHANGED <<queue, levels, accepted, seen, broken>>
          PROVE  OrderInv'
      <3>1. Ordered(f)'
        BY <2>2, <2>8 DEF Ordered
      <3>2. QED
        BY <2>4, <2>5, <2>8, <3>1
    <2>9. ASSUME NEW ls, Excuse(ls), UNCHANGED <<queue, accepted, seen, broken>>
          PROVE  OrderInv'
      <3>1. ASSUME NEW k \in 1 .. Len(levels)
            PROVE  levels'[k].event = levels[k].event
        <4>1. levels[k] \in GoodLevels
          BY <2>6
        <4>2. levels'[k] = [levels[k] EXCEPT !.due = @ \ ls]
          BY <2>9 DEF Excuse
        <4>3. QED
          BY <4>1, <4>2 DEF GoodLevels, Levels
      <3>2. Len(levels') = Len(levels)
        BY <2>6, <2>9 DEF Excuse
      <3>3. Ordered(f)'
        BY <2>2, <2>9, <3>1, <3>2 DEF Ordered
      <3>4. QED
        BY <2>4, <2>5, <2>9, <3>3
    \* the top of the stack goes on or finishes
    <2>10. ASSUME NEW v \in GoodLevels, SetTop(v), levels # <<>>, v.event.id \in {0, Top.event.id},
                  UNCHANGED <<queue, accepted, seen, broken>>
           PROVE  OrderInv'
      BY <2>2, <2>4, <2>5, <2>10, TopMayFinish
    <2>11. CASE Remove \/ (\E l \in Listeners, c \in Codes \union {Tick} : AddListener(l, c))
      BY <2>8, <2>11 DEF Remove, SearchAgain, RemoveShift, RemoveLoopEnds, AddListener
    <2>12. ASSUME NEW l \in Listeners, NEW c \in Codes \union {Tick}, NEW b \in BOOLEAN,
                  EnableListener(l, c, b) \/ StartRemovePair(l, c) \/ StartRemoveAll(l)
           PROVE  OrderInv'
      BY <2>9, <2>12 DEF EnableListener, StartRemovePair, StartRemoveAll
    <2>13. CASE NestedExecute
      <3>1. /\ levels' = Append(levels, FetchLevel)
            /\ broken' = broken \union ({levels[k].event.id : k \in 1 .. Len(levels)} \ {0})
            /\ UNCHANGED <<queue, accepted, seen>>
        BY <2>13 DEF NestedExecute
      <3>2. /\ Len(levels') = Len(levels) + 1 /\ levels'[Len(levels) + 1].event.id = 0
            /\ \A k \in 1 .. Len(levels) : levels'[k] = levels[k]
        BY <2>6, <2>7, <3>1
      <3>3. \A k \in 1 .. Len(levels') :
               \/ levels'[k].event.id = 0
               \/ k \in 1 .. Len(levels) /\ levels'[k].event.id = levels[k].event.id
        BY <2>6, <3>2
      <3>4. \A k \in 1 .. Len(levels') :
               k # Len(levels') /\ levels'[k].event.id # 0 => levels'[k].event.id \in broken'
        BY <2>6, <3>1, <3>2
      <3>5. Ordered(f)'
        BY <2>2, <2>6, <3>1, <3>2, <3>3, <3>4, LevelsMayFinish
      <3>6. SeenInOrder'
        BY <2>3, <3>1 DEF SeenInOrder
      <3>7. QED
        BY <2>5, <3>5, <3>6
    <2>14. ASSUME NEW e \in Events \union {ForeignEvent}, Put(e), UNCHANGED <<levels, seen, broken>>,
                  accepted' \in Nat,
                  \/ e = ForeignEvent /\ accepted' = accepted
                  \/ e.id = accepted + 1 /\ accepted' = accepted + 1
           PROVE  OrderInv'
      <3>1. CASE halted'
        BY <2>4, <2>14, <3>1 DEF OrderInv
      <3>2. CASE ~halted'
        <4>1. queue' = Append(queue, e)
          BY <2>14, <3>2 DEF Put
        <4>2. Ordered(f)'
          BY <2>2, <2>14, <4>1, QueuedLast
        <4>3. QED
          BY <2>4, <2>5, <2>14, <4>2
      <3>3. QED
        BY <3>1, <3>2
    <2>15. ASSUME NEW c \in Codes, QueueEvent(c)
           PROVE  OrderInv'
      <3>1. accepted + 1 \in 1 .. MaxEvents /\ accepted + 1 \in Nat
        BY <2>15, Ids, ManagerAssumption DEF QueueEvent
      <3>2. [code |-> c, id |-> accepted + 1] \in Events
        BY <3>1 DEF Events
      <3>3. QED
        BY <2>14, <2>15, <3>1, <3>2 DEF QueueEvent
    <2>16. CASE QueueForeign
      BY <2>14, <2>16, Ids DEF QueueForeign
    <2>17. CASE ProcessEvent \/ SendTick
      <3>1. /\ levels' = <<FetchLevel>> \/ levels' = <<ScanLevel(TickEvent)>> \/ levels' = <<>>
            /\ UNCHANGED <<queue, accepted, seen, broken>>
        BY <2>17 DEF ProcessEvent, SendTick
      <3>2. /\ Len(levels') \in {0, 1}
            /\ \A k \in 1 .. Len(levels') : k = 1 /\ levels'[k].event.id = 0
        <4>1. ASSUME NEW v, levels' = <<v>>
              PROVE  Len(levels') = 1 /\ levels'[1] = v
          BY <4>1
        <4>2. levels' = <<>> => Len(levels') = 0
          OBVIOUS
        <4>3. QED
          BY <2>7, <3>1, <4>1, <4>2
      <3>3. Ordered(f)'
        BY <2>2, <3>1, <3>2, LevelsMayFinish
      <3>4. QED
        BY <2>4, <2>5, <3>1, <3>3
    <2>18. CASE Fetch
      <3>1. \E g \in Nat : Ordered(g)'
        BY <2>2, <2>18, FetchKeepsOrder
      <3>2. SeenInOrder'
        BY <2>4, <2>18 DEF Fetch
      <3>3. QED
        BY <3>1, <3>2 DEF OrderInv
    <2>19. CASE ExecuteReturns
      <3>1. /\ levels' = SubSeq(levels, 1, Len(levels) - 1)
            /\ UNCHANGED <<queue, accepted, seen, broken>> /\ levels # <<>>
        BY <2>19 DEF ExecuteReturns
      <3>2. Len(levels) - 1 \in 0 .. Len(levels)
        BY <2>6, <3>1
      <3>3. Len(levels') = Len(levels) - 1
        BY <2>6, <3>1, <3>2, WithoutLast
      <3>4. \A k \in 1 .. Len(levels') : levels'[k] = levels[k] /\ k \in 1 .. Len(levels) /\ k # Len(levels)
        BY <2>6, <3>1, <3>2, <3>3
      <3>5. Ordered(f)'
        <4>1. \A k \in 1 .. Len(levels') : levels'[k].event.id # 0 => levels'[k].event.id \in broken'
          BY <2>2, <3>1, <3>4 DEF Ordered
        <4>2. /\ Len(levels') \in Nat /\ broken \subseteq broken'
              /\ \A k \in 1 .. Len(levels') :
                    k \in 1 .. Len(levels) /\ levels'[k].event.id = levels[k].event.id
          BY <2>6, <3>1, <3>2, <3>3, <3>4
        <4>3. QED
          BY <2>2, <3>1, <4>1, <4>2, LevelsMayFinish
      <3>6. QED
        BY <2>4, <2>5, <3>1, <3>5
    <2>20. CASE Skip
      <3>1. Top \in GoodLevels /\ Top.phase = "scan" /\ levels # <<>>
        BY <2>6, <2>20 DEF Skip, Scanning
      <3>2. Top.index + 1 \in 1 .. MaxListeners + 1
        <4>1. Len(listeners) \in Nat /\ Len(listeners) <= MaxListeners /\ MaxListeners \in Nat
          BY ManagerAssumption DEF TypeInv, TypeOK
        <4>2. QED
          BY <2>20, <3>1, <4>1 DEF Skip, GoodLevels, Levels
      <3>3. [Top EXCEPT !.index = @ + 1] \in GoodLevels /\ [Top EXCEPT !.index = @ + 1].event = Top.event
        BY <3>1, <3>2 DEF GoodLevels, Levels
      <3>4. QED
        BY <2>10, <2>20, <3>1, <3>3 DEF Skip
    <2>21. CASE Call
      BY <2>2, <2>3, <2>5, <2>21, CallKeepsOrder
    <2>22. CASE Return
      <3>1. Top \in GoodLevels /\ Top.phase = "call" /\ levels # <<>>
        BY <2>6, <2>22 DEF Return, AppCode
      <3>2. Top.event # ForeignEvent =>
               /\ [Top EXCEPT !.phase = "scan", !.index = @ + 1] \in GoodLevels
               /\ [Top EXCEPT !.phase = "scan", !.index = @ + 1].event = Top.event
        <4>1. Top.index + 1 \in 1 .. MaxListeners + 1
          BY <3>1, ManagerAssumption DEF GoodLevels, Levels
        <4>2. QED
          BY <3>1, <4>1 DEF GoodLevels, Levels
      <3>3. QED
        BY <2>7, <2>10, <2>22, <3>1, <3>2 DEF Return
    <2>23. CASE ScanEnds
      <3>1. CASE levels' = <<>>
        <4>1. UNCHANGED <<queue, accepted, seen, broken>>
          BY <2>23 DEF ScanEnds
        <4>2. Ordered(f)'
          BY <2>2, <3>1, <4>1, LevelsMayFinish
        <4>3. QED
          BY <2>4, <2>5, <4>1, <4>2
      <3>2. CASE SetTop(FetchLevel)
        BY <2>7, <2>10, <2>23, <3>2 DEF ScanEnds, Scanning
      <3>3. QED
        BY <2>23, <3>1, <3>2 DEF ScanEnds
    <2>24. QED
      BY <1>2, <2>11, <2>12, <2>13, <2>15, <2>16, <2>17, <2>18, <2>19, <2>20, <2>21, <2>22, <2>23
         DEF Next, Operation, Dispatch
  <1>3. QED
    BY <1>1, <1>2

-----------------------------------------------------------------------------
(* A removal excuses everyone until it ends.                               *)

LEMMA RemovalPreserved ==
    ASSUME TypeInv, RemovalInv, [Next]_vars
    PROVE  RemovalInv'
  <1> USE DEF listVars, history
  <1>1. levels \in Seq(GoodLevels) /\ Len(levels) \in Nat
    BY DEF TypeInv
  <1>2. ASSUME UNCHANGED <<levels, stage>>, removal = NoRemoval => removal' = NoRemoval
        PROVE  RemovalInv'
    BY <1>2 DEF RemovalInv, Top
  <1>3. removal' = NoRemoval => RemovalInv'
    BY DEF RemovalInv
  <1>4. ASSUME Excuse(Listeners), AppCode, UNCHANGED stage
        PROVE  RemovalInv'
    <2>1. Len(levels') = Len(levels) /\ (levels' = <<>> <=> levels = <<>>)
      BY <1>1, <1>4 DEF Excuse
    <2>2. ASSUME NEW k \in 1 .. Len(levels)
          PROVE  levels'[k].phase = levels[k].phase /\ levels'[k].due = {}
      <3>1. levels[k] \in GoodLevels
        BY <1>1
      <3>2. levels'[k] = [levels[k] EXCEPT !.due = @ \ Listeners]
        BY <1>4 DEF Excuse
      <3>3. QED
        BY <3>1, <3>2 DEF GoodLevels, Levels
    <2>3. levels # <<>> => Len(levels) \in 1 .. Len(levels)
      BY <1>1
    <2>4. QED
      BY <1>4, <2>1, <2>2, <2>3 DEF RemovalInv, AppCode, Top
  <1>5. ASSUME NEW l \in Listeners, NEW c \in Codes \union {Tick}, NEW b \in BOOLEAN,
               \/ AddListener(l, c) \/ StartRemovePair(l, c) \/ StartRemoveAll(l)
               \/ EnableListener(l, c, b)
        PROVE  RemovalInv'
    BY <1>3, <1>4, <1>5 DEF AddListener, StartRemovePair, StartRemoveAll, EnableListener, AppCode
  <1>6. CASE NestedExecute
    BY <1>3, <1>6 DEF NestedExecute, AppCode
  <1>7. CASE Remove
    <2>1. removal # NoRemoval
      BY <1>7 DEF Remove, SearchAgain, RemoveShift, RemoveLoopEnds, NoRemoval
    <2>2. QED
      BY <1>2, <1>7, <2>1 DEF Remove, SearchAgain, RemoveShift, RemoveLoopEnds
  <1>8. CASE Dispatch
    <2>1. removal = NoRemoval
      BY <1>8 DEF Dispatch, ProcessEvent, Fetch, ExecuteReturns, SendTick, Skip, Call, Return,
                  ScanEnds, Scanning, AppCode, RemovalInv
    <2>2. removal' = removal
      BY <1>8 DEF Dispatch, ProcessEvent, Fetch, ExecuteReturns, SendTick, Skip, Call, Return, ScanEnds
    <2>3. QED
      BY <1>3, <2>1, <2>2
  <1>9. CASE QueueForeign \/ (\E c \in Codes : QueueEvent(c)) \/ UNCHANGED vars
    BY <1>2, <1>9 DEF QueueForeign, QueueEvent, vars
  <1>10. QED
    BY <1>5, <1>6, <1>7, <1>8, <1>9 DEF Next, Operation

-----------------------------------------------------------------------------
(* Counting calls and entries.                                             *)

LEMMA CountAppend ==
    ASSUME NEW S, NEW calls \in Seq(S), NEW x \in S, NEW id
    PROVE  /\ Count(calls, id) \in Nat
           /\ x = id => Count(Append(calls, x), id) = Count(calls, id) + 1
           /\ x # id => Count(Append(calls, x), id) = Count(calls, id)
  <1> DEFINE T(c) == {i \in 1 .. Len(c) : c[i] = id}
  <1>1. /\ Len(calls) \in Nat /\ Len(Append(calls, x)) = Len(calls) + 1
        /\ Append(calls, x)[Len(calls) + 1] = x
        /\ \A i \in 1 .. Len(calls) : Append(calls, x)[i] = calls[i]
    OBVIOUS
  <1>2. IsFiniteSet(T(calls))
    <2>1. IsFiniteSet(1 .. Len(calls))
      BY <1>1, FS_Interval
    <2>2. QED
      BY <2>1, FS_Subset
  <1>3. Cardinality(T(calls)) \in Nat
    BY <1>2, FS_CardinalityType
  <1>4. x = id => T(Append(calls, x)) = T(calls) \union {Len(calls) + 1}
    BY <1>1
  <1>5. x # id => T(Append(calls, x)) = T(calls)
    BY <1>1
  <1>6. Len(calls) + 1 \notin T(calls)
    BY <1>1
  <1> HIDE DEF T
  <1>7. Cardinality(T(calls) \union {Len(calls) + 1}) = Cardinality(T(calls)) + 1
    BY <1>2, <1>6, FS_AddElement
  <1>8. QED
    BY <1>3, <1>4, <1>5, <1>7 DEF Count, T

LEMMA CountNone ==
    ASSUME NEW calls, NEW id, \A i \in 1 .. Len(calls) : calls[i] # id
    PROVE  Count(calls, id) = 0
  <1>1. {i \in 1 .. Len(calls) : calls[i] = id} = {}
    OBVIOUS
  <1>2. QED
    BY <1>1, FS_EmptySet DEF Count

LEMMA ReachedFinite ==
    ASSUME NEW list \in Seq(Entries), NEW v, NEW l
    PROVE  IsFiniteSet(Reached(list, v, l)) /\ Cardinality(Reached(list, v, l)) \in Nat
  <1>1. IsFiniteSet(1 .. Len(list))
    BY FS_Interval
  <1>2. Reached(list, v, l) \subseteq 1 .. Len(list)
    BY DEF Reached
  <1>3. QED
    BY <1>1, <1>2, FS_Subset, FS_CardinalityType

(* The list grows or its entries are switched, or the scan moves past an   *)
(* entry that is not due: what was served stays served.                    *)
LEMMA ServedKept ==
    ASSUME NEW list \in Seq(Entries), NEW list2 \in Seq(Entries), NEW v, NEW w, NEW l,
           NEW S, NEW calls \in Seq(S), Served(list, calls, v, l), w.event = v.event,
           Reached(list, v, l) \subseteq Reached(list2, w, l),
           \A i \in 1 .. Len(list) :
              IsPair(list[i], l, v.event.code) /\ list[i].enabled =>
                 /\ i \in 1 .. Len(list2) /\ IsPair(list2[i], l, v.event.code) /\ list2[i].enabled
                 /\ i \in Reached(list2, w, l) => i \in Reached(list, v, l)
    PROVE  Served(list2, calls, w, l)
  <1>1. /\ IsFiniteSet(Reached(list2, w, l)) /\ Cardinality(Reached(list2, w, l)) \in Nat
        /\ Cardinality(Reached(list, v, l)) \in Nat
    BY ReachedFinite
  <1>2. Cardinality(Reached(list, v, l)) <= Cardinality(Reached(list2, w, l))
    BY <1>1, FS_Subset
  <1>3. Count(calls, v.event.id) \in Nat
    <2>1. IsFiniteSet(1 .. Len(calls))
      BY FS_Interval
    <2>2. QED
      BY <2>1, FS_Subset, FS_CardinalityType DEF Count
  <1>4. Count(calls, w.event.id) <= Cardinality(Reached(list2, w, l))
    BY <1>1, <1>2, <1>3 DEF Served
  <1>5. QED
    BY <1>4 DEF Served

-----------------------------------------------------------------------------
(* ServedInv is preserved by every step.                                   *)

\* the changes of the list
LEMMA ListKeepsServed ==
    ASSUME TypeInv, TypeInv', RemovalInv, ServedInv, UNCHANGED seen,
           \/ Remove
           \/ \E l \in Listeners, c \in Codes \union {Tick} :
                 \/ AddListener(l, c) \/ StartRemovePair(l, c)
                 \/ StartRemoveAll(l)
                 \/ \E b \in BOOLEAN : EnableListener(l, c, b)
    PROVE  ServedInv'
  <1> USE DEF listVars, history
  <1>1. /\ levels \in Seq(GoodLevels) /\ Len(levels) \in Nat
        /\ listeners \in Seq(Entries) /\ listeners' \in Seq(Entries) /\ Len(listeners) \in Nat
        /\ seen \in [Listeners -> Seq(1 .. MaxEvents)]
    BY DEF TypeInv, TypeOK
  <1>2. CASE Remove
    <2>1. removal # NoRemoval /\ UNCHANGED levels
      BY <1>2 DEF Remove, SearchAgain, RemoveShift, RemoveLoopEnds, NoRemoval
    <2>2. QED
      BY <2>1 DEF RemovalInv, ServedInv
  \* excused levels
  <1>3. ASSUME NEW ls, Excuse(ls), NEW k \in 1 .. Len(levels')
        PROVE  /\ k \in 1 .. Len(levels) /\ levels[k] \in GoodLevels
               /\ levels'[k].event = levels[k].event /\ levels'[k].phase = levels[k].phase
               /\ levels'[k].index = levels[k].index /\ levels'[k].due = levels[k].due \ ls
    <2>1. k \in 1 .. Len(levels) /\ levels'[k] = [levels[k] EXCEPT !.due = @ \ ls]
      BY <1>1, <1>3 DEF Excuse
    <2>2. levels[k] \in GoodLevels
      BY <1>1, <2>1
    <2>3. QED
      BY <2>1, <2>2 DEF GoodLevels, Levels
  <1>4. ASSUME NEW l \in Listeners, NEW c \in Codes \union {Tick},
               StartRemovePair(l, c) \/ StartRemoveAll(l)
        PROVE  ServedInv'
    <2>1. Excuse(Listeners)
      BY <1>4 DEF StartRemovePair, StartRemoveAll
    <2>2. \A k \in 1 .. Len(levels') : levels'[k].due = {}
      BY <1>3, <2>1 DEF GoodLevels, Levels
    <2>3. QED
      BY <2>2 DEF ServedInv
  <1>5. ASSUME NEW l0 \in Listeners, NEW c \in Codes \union {Tick}, AddListener(l0, c)
        PROVE  ServedInv'
    <2>1. /\ UNCHANGED levels /\ Len(listeners') = Len(listeners) + 1
          /\ \A i \in 1 .. Len(listeners) : listeners'[i] = listeners[i]
      BY <1>1, <1>5 DEF AddListener, Entries
    <2>2. ASSUME NEW k \in 1 .. Len(levels), InScan(levels[k]), NEW l \in levels[k].due
          PROVE  Served(listeners', seen[l], levels[k], l)
      <3>1. l \in Listeners /\ seen[l] \in Seq(1 .. MaxEvents)
        <4>1. levels[k] \in GoodLevels
          BY <1>1
        <4>2. QED
          BY <1>1, <4>1 DEF GoodLevels, Levels
      <3>2. Served(listeners, seen[l], levels[k], l)
        BY <2>2 DEF ServedInv
      <3>3. Reached(listeners, levels[k], l) \subseteq Reached(listeners', levels[k], l)
        BY <1>1, <2>1 DEF Reached
      <3>4. \A i \in 1 .. Len(listeners) :
               /\ i \in 1 .. Len(listeners') /\ listeners'[i] = listeners[i]
               /\ i \in Reached(listeners', levels[k], l) => i \in Reached(listeners, levels[k], l)
        BY <1>1, <2>1 DEF Reached
      <3>5. QED
        BY <1>1, <3>1, <3>2, <3>3, <3>4, ServedKept
    <2>3. QED
      BY <2>1, <2>2 DEF ServedInv
  <1>6. ASSUME NEW l0 \in Listeners, NEW c \in Codes \union {Tick}, NEW b \in BOOLEAN,
               EnableListener(l0, c, b)
        PROVE  ServedInv'
    <2>1. FirstOf(l0, c) \in 1 .. Len(listeners)
      BY <1>1, <1>6, FirstOfFound DEF EnableListener
    <2> DEFINE n == FirstOf(l0, c)
               ls == IF b THEN {} ELSE {l0}
    <2>2. listeners[n] \in Entries /\ IsPair(listeners[n], l0, c)
      BY <1>1, <1>6, <2>1, FirstOfFound DEF EnableListener
    <2> HIDE DEF n
    <2>3. /\ Len(listeners') = Len(listeners)
          /\ \A i \in 1 .. Len(listeners) :
                /\ listeners'[i].listener = listeners[i].listener
                /\ listeners'[i].code = listeners[i].code
                /\ listeners'[i].enabled = IF i = n THEN b ELSE listeners[i].enabled
      <3>1. listeners' = [listeners EXCEPT ![n] = [listeners[n] EXCEPT !.enabled = b]]
        BY <1>1, <1>6, <2>1 DEF EnableListener, n
      <3>2. /\ [listeners[n] EXCEPT !.enabled = b].listener = listeners[n].listener
            /\ [listeners[n] EXCEPT !.enabled = b].code = listeners[n].code
            /\ [listeners[n] EXCEPT !.enabled = b].enabled = b
        BY <2>2 DEF Entries
      <3>3. n \in 1 .. Len(listeners)
        BY <2>1 DEF n
      <3>4. QED
        BY <1>1, <3>1, <3>2, <3>3
    <2>4. Excuse(ls)
      BY <1>6 DEF EnableListener
    <2>5. ASSUME NEW k \in 1 .. Len(levels'), InScan(levels'[k]), NEW l \in levels'[k].due
          PROVE  Served(listeners', seen[l], levels'[k], l)
      <3>1. /\ k \in 1 .. Len(levels) /\ levels[k] \in GoodLevels
            /\ levels'[k].event = levels[k].event /\ levels'[k].phase = levels[k].phase
            /\ levels'[k].index = levels[k].index /\ levels'[k].due = levels[k].due \ ls
        BY <1>3, <2>4
      <3>2. l \in levels[k].due /\ l \notin ls /\ InScan(levels[k])
        BY <2>5, <3>1 DEF InScan
      <3>3. l \in Listeners /\ seen[l] \in Seq(1 .. MaxEvents)
        BY <1>1, <3>1, <3>2 DEF GoodLevels, Levels
      <3>4. Served(listeners, seen[l], levels[k], l)
        BY <3>1, <3>2 DEF ServedInv
      <3>5. Reached(listeners', levels'[k], l) = Reached(listeners, levels[k], l)
        BY <2>3, <3>1 DEF Reached, IsPair
      <3>6. ASSUME NEW i \in 1 .. Len(listeners),
                   IsPair(listeners[i], l, levels[k].event.code), listeners[i].enabled
            PROVE  /\ i \in 1 .. Len(listeners') /\ IsPair(listeners'[i], l, levels[k].event.code)
                   /\ listeners'[i].enabled
        <4>1. i = n => b = TRUE
          BY <2>2, <3>2, <3>6 DEF IsPair
        <4>2. listeners'[i].enabled
          BY <2>3, <3>6, <4>1
        <4>3. QED
          BY <2>3, <3>6, <4>2 DEF IsPair
      <3> HIDE DEF ls
      <3>7. QED
        BY <1>1, <3>1, <3>3, <3>4, <3>5, <3>6, ServedKept
    <2>6. QED
      BY <2>5 DEF ServedInv
  <1>7. QED
    BY <1>2, <1>4, <1>5, <1>6

\* the steps of the scans
LEMMA ScanKeepsServed ==
    ASSUME TypeInv, OrderInv, ServedInv, UNCHANGED listeners, Skip \/ Call \/ Return
    PROVE  ServedInv'
  <1> USE DEF listVars, history
  <1>1. /\ levels \in Seq(GoodLevels) /\ Len(levels) \in 1 .. Len(levels) /\ Len(levels) \in Nat
        /\ levels # <<>> /\ Top \in GoodLevels /\ Top = levels[Len(levels)]
        /\ Top.index \in 1 .. MaxListeners + 1 /\ MaxListeners \in Nat
        /\ listeners \in Seq(Entries) /\ Len(listeners) \in Nat
        /\ seen \in [Listeners -> Seq(1 .. MaxEvents)]
    <2>1. /\ levels \in Seq(GoodLevels) /\ levels # <<>> /\ listeners \in Seq(Entries)
          /\ seen \in [Listeners -> Seq(1 .. MaxEvents)]
      BY DEF TypeInv, TypeOK, Skip, Call, Return, Scanning
    <2>2. Len(levels) \in 1 .. Len(levels) /\ Top \in GoodLevels
      BY <2>1 DEF Top
    <2>3. Top.index \in 1 .. MaxListeners + 1
      BY <2>2 DEF GoodLevels, Levels
    <2>4. QED
      BY <2>1, <2>2, <2>3, ManagerAssumption DEF Top
  <1>2. ASSUME NEW k \in 1 .. Len(levels), NEW l \in levels[k].due
        PROVE  l \in Listeners /\ seen[l] \in Seq(1 .. MaxEvents)
    <2>1. levels[k] \in GoodLevels
      BY <1>1
    <2>2. QED
      BY <1>1, <2>1 DEF GoodLevels, Levels
  \* the levels below the top
  <1>3. ASSUME NEW v, SetTop(v),
               \A l \in Listeners : \A k \in 1 .. Len(levels) - 1 :
                  InScan(levels[k]) => Count(seen'[l], levels[k].event.id) = Count(seen[l], levels[k].event.id),
               InScan(v) => \A l \in v.due : Served(listeners, seen'[l], v, l)
        PROVE  ServedInv'
    <2>1. /\ Len(levels') = Len(levels) /\ levels'[Len(levels)] = v
          /\ \A k \in 1 .. Len(levels) : k # Len(levels) => levels'[k] = levels[k]
      BY <1>1, <1>3 DEF SetTop
    <2>2. ASSUME NEW k \in 1 .. Len(levels) - 1, InScan(levels[k]), NEW l \in levels[k].due
          PROVE  Served(listeners, seen'[l], levels[k], l)
      <3>1. Served(listeners, seen[l], levels[k], l)
        BY <1>1, <2>2 DEF ServedInv
      <3>2. Count(seen'[l], levels[k].event.id) = Count(seen[l], levels[k].event.id)
        BY <1>1, <1>2, <1>3, <2>2
      <3>3. QED
        BY <3>1, <3>2 DEF Served
    <2>3. \A k \in 1 .. Len(levels) : k # Len(levels) => k \in 1 .. Len(levels) - 1
      BY <1>1
    <2>4. QED
      BY <1>3, <2>1, <2>2, <2>3 DEF ServedInv
  <1>4. CASE Skip
    <2> DEFINE v == [Top EXCEPT !.index = @ + 1]
    <2>1. /\ v.event = Top.event /\ v.phase = "scan" /\ v.due = Top.due /\ v.index = Top.index + 1
          /\ Top.phase = "scan"
      BY <1>1, <1>4 DEF Skip, Scanning, GoodLevels, Levels
    <2>2. SetTop(v) /\ UNCHANGED seen /\ ~Matches(listeners[Top.index], Top.event.code)
      BY <1>4 DEF Skip
    <2> HIDE DEF v
    <2>3. ASSUME InScan(v), NEW l \in v.due
          PROVE  Served(listeners, seen[l], v, l)
      <3>1. Served(listeners, seen[l], Top, l)
        BY <1>1, <2>1, <2>3 DEF ServedInv, InScan
      <3>2. Reached(listeners, Top, l) \subseteq Reached(listeners, v, l)
        BY <1>1, <2>1 DEF Reached
      <3>3. ASSUME NEW i \in 1 .. Len(listeners), IsPair(listeners[i], l, Top.event.code),
                   listeners[i].enabled, i \in Reached(listeners, v, l)
            PROVE  i \in Reached(listeners, Top, l)
        <4>1. i # Top.index
          BY <2>2, <3>3 DEF Matches, IsPair
        <4>2. i < Top.index + 1
          BY <2>1, <3>3 DEF Reached
        <4>3. i < Top.index
          BY <1>1, <4>1, <4>2
        <4>4. QED
          BY <3>3, <4>3 DEF Reached
      <3>4. seen[l] \in Seq(1 .. MaxEvents)
        BY <1>1, <1>2, <2>1, <2>3
      <3>5. QED
        BY <1>1, <2>1, <3>1, <3>2, <3>3, <3>4, ServedKept
    <2>4. QED
      BY <1>3, <2>2, <2>3
  <1>5. CASE Return
    <2>1. UNCHANGED seen /\ Top.phase = "call"
      BY <1>1, <1>5 DEF Return, AppCode
    <2>2. CASE Top.event = ForeignEvent
      <3>1. SetTop(FetchLevel) /\ ~InScan(FetchLevel)
        BY <1>5, <2>2 DEF Return, InScan, FetchLevel
      <3>2. QED
        BY <1>3, <2>1, <3>1
    <2>3. CASE Top.event # ForeignEvent
      <3> DEFINE v == [Top EXCEPT !.phase = "scan", !.index = @ + 1]
      <3>1. v.event = Top.event /\ v.phase = "scan" /\ v.due = Top.due /\ v.index = Top.index + 1
        BY <1>1 DEF GoodLevels, Levels
      <3>2. SetTop(v)
        BY <1>5, <2>3 DEF Return
      <3> HIDE DEF v
      <3>3. ASSUME InScan(v), NEW l \in v.due
            PROVE  Served(listeners, seen[l], v, l)
        <4>1. Served(listeners, seen[l], Top, l)
          BY <1>1, <2>1, <3>1, <3>3 DEF ServedInv, InScan
        <4>2. Reached(listeners, Top, l) = Reached(listeners, v, l)
          <5>1. \A i \in 1 .. Len(listeners) :
                   i < Top.index \/ i = Top.index <=> i < Top.index + 1
            BY <1>1
          <5>2. QED
            BY <2>1, <3>1, <5>1 DEF Reached
        <4>3. QED
          BY <3>1, <4>1, <4>2 DEF Served
      <3>4. QED
        BY <1>3, <2>1, <3>2, <3>3
    <2>4. QED
      BY <2>2, <2>3
  <1>6. CASE Call
    <2> DEFINE v == [Top EXCEPT !.phase = "call"]
               l0 == listeners[Top.index].listener
               id == Top.event.id
    <2>1. /\ v.event = Top.event /\ v.phase = "call" /\ v.due = Top.due /\ v.index = Top.index
          /\ Top.phase = "scan"
      BY <1>1, <1>6 DEF Call, Scanning, GoodLevels, Levels
    <2>2. /\ SetTop(v) /\ Matches(listeners[Top.index], Top.event.code)
          /\ Top.index \in 1 .. Len(listeners)
          /\ seen' = IF Top.event = TickEvent THEN seen ELSE [seen EXCEPT ![l0] = Append(@, id)]
      BY <1>1, <1>6 DEF Call
    <2> HIDE DEF v
    <2>3. CASE Top.event = TickEvent
      <3>1. ~InScan(v)
        BY <2>1, <2>3 DEF InScan, Events, TickEvent
      <3>2. UNCHANGED seen
        BY <2>2, <2>3
      <3>3. QED
        BY <1>3, <2>2, <3>1, <3>2
    <2>4. CASE Top.event # TickEvent
      <3>1. Top.event \in Events /\ id \in 1 .. MaxEvents
        BY <1>1, <2>1, <2>4 DEF GoodLevels, Events
      <3>2. l0 \in Listeners
        <4>1. listeners[Top.index] \in Entries
          BY <1>1, <2>2
        <4>2. QED
          BY <4>1 DEF Entries
      <3> HIDE DEF l0, id
      <3>3. ASSUME NEW l \in Listeners, NEW x
            PROVE  /\ Count(seen[l], x) \in Nat
                   /\ Count(seen'[l], x) = IF l = l0 /\ x = id THEN Count(seen[l], x) + 1
                                                               ELSE Count(seen[l], x)
        <4>1. seen[l] \in Seq(1 .. MaxEvents)
          BY <1>1
        <4>2. Count(seen[l], x) \in Nat
          BY <3>1, <4>1, CountAppend
        <4>3. seen'[l] = IF l = l0 THEN Append(seen[l], id) ELSE seen[l]
          BY <1>1, <2>2, <2>4
        <4>4. /\ id = x => Count(Append(seen[l], id), x) = Count(seen[l], x) + 1
              /\ id # x => Count(Append(seen[l], id), x) = Count(seen[l], x)
          BY <3>1, <4>1, CountAppend
        <4>5. CASE l = l0
          <5>1. seen'[l] = Append(seen[l], id)
            BY <4>3, <4>5
          <5>2. QED
            BY <4>2, <4>4, <4>5, <5>1
        <4>6. CASE l # l0
          <5>1. seen'[l] = seen[l]
            BY <4>3, <4>6
          <5>2. QED
            BY <4>2, <4>6, <5>1
        <4>7. QED
          BY <4>5, <4>6
      <3>4. ASSUME NEW l \in Listeners, NEW k \in 1 .. Len(levels) - 1, InScan(levels[k])
            PROVE  Count(seen'[l], levels[k].event.id) = Count(seen[l], levels[k].event.id)
        <4>1. PICK f \in Nat : Ordered(f)
          BY <1>6 DEF OrderInv, Call, Scanning, Running
        <4>2. id # 0 /\ id = levels[Len(levels)].event.id
          BY <1>1, <3>1, ManagerAssumption DEF id
        <4>3. levels[k].event.id < levels[Len(levels)].event.id
          BY <1>1, <4>1, <4>2 DEF Ordered
        <4>4. levels[k].event.id # id
          <5>1. k \in 1 .. Len(levels)
            BY <1>1
          <5>2. levels[k].event.id \in Nat /\ id \in Nat
            BY <1>1, <4>2, <5>1, Ids
          <5>3. QED
            BY <4>2, <4>3, <5>2
        <4>5. QED
          BY <3>3, <4>4
      <3>5. ASSUME InScan(v), NEW l \in v.due
            PROVE  Served(listeners, seen'[l], v, l)
        <4>1. l \in Listeners /\ Served(listeners, seen[l], Top, l)
          BY <1>1, <1>2, <2>1, <3>1, <3>5 DEF ServedInv, InScan
        <4>2. PICK i \in 1 .. Len(listeners) :
                 /\ IsPair(listeners[i], l, Top.event.code) /\ listeners[i].enabled
                 /\ i \in Reached(listeners, Top, l) => Count(seen[l], id) >= 1
          BY <4>1 DEF Served, id
        <4>3. /\ IsFiniteSet(Reached(listeners, Top, l))
              /\ Cardinality(Reached(listeners, Top, l)) \in Nat
          BY <1>1, ReachedFinite
        <4>4. Count(seen[l], id) <= Cardinality(Reached(listeners, Top, l)) /\ Count(seen[l], id) \in Nat
          BY <3>3, <4>1 DEF Served, id
        <4>5. CASE l = l0
          <5>1. Count(seen'[l], id) = Count(seen[l], id) + 1
            BY <3>3, <4>1, <4>5
          <5>2. Reached(listeners, v, l) = Reached(listeners, Top, l) \union {Top.index}
            BY <1>1, <2>1, <2>2, <4>5 DEF Reached, IsPair, Matches, l0
          <5>3. Top.index \notin Reached(listeners, Top, l)
            BY <1>1, <2>1 DEF Reached
          <5>4. Cardinality(Reached(listeners, v, l)) = Cardinality(Reached(listeners, Top, l)) + 1
            BY <4>3, <5>2, <5>3, FS_AddElement
          <5>5. /\ Count(seen'[l], id) <= Cardinality(Reached(listeners, v, l))
                /\ Count(seen'[l], id) >= 1
            BY <4>3, <4>4, <5>1, <5>4
          <5>6. QED
            BY <2>1, <4>2, <5>5 DEF Served, id
        <4>6. CASE l # l0
          <5>1. Count(seen'[l], id) = Count(seen[l], id)
            BY <3>3, <4>1, <4>6
          <5>2. Reached(listeners, v, l) = Reached(listeners, Top, l)
            BY <2>1, <4>6 DEF Reached, IsPair, l0
          <5>3. QED
            BY <2>1, <4>1, <5>1, <5>2 DEF Served, id
        <4>7. QED
          BY <4>5, <4>6
      <3>6. QED
        BY <1>3, <2>2, <3>4, <3>5
    <2>5. QED
      BY <2>3, <2>4
  <1>7. QED
    BY <1>4, <1>5, <1>6

\* an event enters dispatch: nobody has been called for it
LEMMA FetchKeepsServed ==
    ASSUME TypeInv, OrderInv, ServedInv, Fetch
    PROVE  ServedInv'
  <1> USE DEF listVars, history
  <1>1. /\ levels \in Seq(GoodLevels) /\ Len(levels) \in 1 .. Len(levels) /\ Len(levels) \in Nat
        /\ Top \in GoodLevels /\ queue # <<>> /\ UNCHANGED <<listeners, seen>>
        /\ queue \in Seq(Events \union {ForeignEvent})
        /\ listeners \in Seq(Entries) /\ seen \in [Listeners -> Seq(1 .. MaxEvents)]
    <2>1. levels \in Seq(GoodLevels) /\ levels # <<>>
      BY DEF TypeInv, Fetch
    <2>2. Len(levels) \in 1 .. Len(levels) /\ Len(levels) \in Nat /\ Top \in GoodLevels
      BY <2>1 DEF Top
    <2>3. QED
      BY <2>1, <2>2 DEF TypeInv, TypeOK, Fetch
  <1> DEFINE e == Head(queue)
             v == IF e = ForeignEvent
                  THEN [Top EXCEPT !.phase = "call", !.event = ForeignEvent]
                  ELSE ScanLevel(e)
  <1>2. SetTop(v)
    BY DEF Fetch
  <1>3. ASSUME InScan(v) PROVE v = ScanLevel(e) /\ e \in Events
    <2>1. e # ForeignEvent
      <3>1. SUFFICES ASSUME e = ForeignEvent PROVE FALSE
        OBVIOUS
      <3>2. v.event = ForeignEvent
        BY <1>1, <3>1 DEF GoodLevels, Levels
      <3>3. QED
        BY <1>3, <3>2 DEF InScan, Events, ForeignEvent
    <2>2. QED
      BY <1>1, <2>1
  <1> HIDE DEF v
  <1>4. /\ Len(levels') = Len(levels) /\ levels'[Len(levels)] = v
        /\ \A k \in 1 .. Len(levels) : k # Len(levels) => levels'[k] = levels[k]
    BY <1>1, <1>2 DEF SetTop
  <1>5. ASSUME InScan(v), NEW l \in v.due
        PROVE  Served(listeners, seen[l], v, l)
    <2>1. PICK f \in Nat : Ordered(f)
      BY DEF OrderInv, Fetch, Running
    <2>2. e = queue[1] /\ 1 \in 1 .. Len(queue)
      BY <1>1
    <2>3. e.id \in Nat /\ e.id # 0
      BY <1>3, <1>5, ManagerAssumption DEF Events
    <2>4. e.id \in f + 1 .. accepted
      BY <2>1, <2>2, <2>3 DEF Ordered
    <2>5. /\ v.event = e /\ v.index = 1 /\ v.phase = "scan" /\ l \in Listeners
          /\ \E i \in 1 .. Len(listeners) : listeners[i].listener = l /\ Matches(listeners[i], e.code)
      BY <1>3, <1>5 DEF ScanLevel
    <2>6. \A i \in 1 .. Len(seen[l]) : seen[l][i] # e.id
      <3>1. ASSUME NEW i \in 1 .. Len(seen[l]) PROVE seen[l][i] # e.id
        <4>1. seen[l][i] \in Nat /\ seen[l][i] <= f
          BY <2>1, <2>5, Ids DEF Ordered
        <4>2. QED
          BY <2>3, <2>4, <4>1
      <3>2. QED
        BY <3>1
    <2>7. Count(seen[l], v.event.id) = 0
      BY <2>5, <2>6, CountNone
    <2>8. \A i \in 1 .. Len(listeners) : i \notin Reached(listeners, v, l)
      BY <2>5 DEF Reached
    <2>9. Cardinality(Reached(listeners, v, l)) \in Nat
      BY <1>1, ReachedFinite
    <2>10. \E i \in 1 .. Len(listeners) :
              IsPair(listeners[i], l, v.event.code) /\ listeners[i].enabled
      BY <2>5 DEF IsPair, Matches
    <2>11. QED
      BY <2>7, <2>8, <2>9, <2>10 DEF Served
  <1>6. ASSUME NEW k \in 1 .. Len(levels'), InScan(levels'[k]), NEW l \in levels'[k].due
        PROVE  Served(listeners, seen[l], levels'[k], l)
    BY <1>4, <1>5, <1>6 DEF ServedInv
  <1>7. QED
    BY <1>1, <1>6 DEF ServedInv

LEMMA ServedPreserved ==
    ASSUME TypeInv, TypeInv', OrderInv, RemovalInv, ServedInv, [Next]_vars
    PROVE  ServedInv'
  <1> USE DEF listVars, history
  <1>1. levels \in Seq(GoodLevels) /\ Len(levels) \in Nat
    BY DEF TypeInv
  <1>2. ~InScan(FetchLevel) /\ ~InScan(ScanLevel(TickEvent))
    <2>1. TickEvent \notin Events
      BY DEF Events, TickEvent
    <2>2. QED
      BY <2>1 DEF InScan, FetchLevel, ScanLevel
  \* levels that go on unchanged, or have no event to scan for
  <1>3. ASSUME UNCHANGED <<listeners, seen>>,
               \A k \in 1 .. Len(levels') :
                  ~InScan(levels'[k]) \/ (k \in 1 .. Len(levels) /\ levels'[k] = levels[k])
        PROVE  ServedInv'
    BY <1>3 DEF ServedInv
  <1>4. ASSUME UNCHANGED <<listeners, seen, levels>>
        PROVE  ServedInv'
    BY <1>4 DEF ServedInv
  <1>5. ASSUME NEW l \in Listeners, NEW c \in Codes \union {Tick}, NEW b \in BOOLEAN,
               \/ AddListener(l, c) \/ StartRemovePair(l, c) \/ StartRemoveAll(l)
               \/ EnableListener(l, c, b)
        PROVE  ServedInv'
    <2>1. UNCHANGED seen
      BY <1>5 DEF AddListener, StartRemovePair, StartRemoveAll, EnableListener
    <2>2. QED
      BY <1>5, <2>1, ListKeepsServed
  <1>6. CASE Remove
    <2>1. UNCHANGED seen
      BY <1>6 DEF Remove, SearchAgain, RemoveShift, RemoveLoopEnds
    <2>2. QED
      BY <1>6, <2>1, ListKeepsServed
  <1>7. CASE NestedExecute
    <2>1. /\ levels' = Append(levels, FetchLevel) /\ UNCHANGED <<listeners, seen>>
      BY <1>7 DEF NestedExecute
    <2>2. /\ Len(levels') = Len(levels) + 1 /\ levels'[Len(levels) + 1] = FetchLevel
          /\ \A k \in 1 .. Len(levels) : levels'[k] = levels[k]
      <3>1. FetchLevel \in GoodLevels
        BY LevelsAreGood
      <3>2. QED
        BY <1>1, <2>1, <3>1
    <2>3. \A k \in 1 .. Len(levels') : k \in 1 .. Len(levels) \/ k = Len(levels) + 1
      BY <1>1, <2>2
    <2>4. QED
      BY <1>2, <1>3, <2>1, <2>2, <2>3
  <1>8. CASE ProcessEvent \/ SendTick
    <2>1. /\ levels' = <<FetchLevel>> \/ levels' = <<ScanLevel(TickEvent)>> \/ levels' = <<>>
          /\ UNCHANGED <<listeners, seen>>
      BY <1>8 DEF ProcessEvent, SendTick
    <2>2. ASSUME NEW v, levels' = <<v>>, ~InScan(v)
          PROVE  ServedInv'
      BY <1>3, <2>1, <2>2
    <2>3. QED
      BY <1>2, <1>3, <2>1, <2>2
  <1>9. CASE Fetch
    BY <1>9, FetchKeepsServed
  <1>10. CASE Skip \/ Call \/ Return
    <2>1. UNCHANGED listeners
      BY <1>10 DEF Skip, Call, Return
    <2>2. QED
      BY <1>10, <2>1, ScanKeepsServed
  <1>11. CASE ExecuteReturns
    <2>1. /\ levels' = SubSeq(levels, 1, Len(levels) - 1) /\ levels # <<>>
          /\ UNCHANGED <<listeners, seen>>
      BY <1>11 DEF ExecuteReturns
    <2>2. Len(levels) - 1 \in 0 .. Len(levels)
      BY <1>1, <2>1
    <2>3. Len(levels') = Len(levels) - 1
      BY <1>1, <2>1, <2>2, WithoutLast
    <2>4. \A k \in 1 .. Len(levels') : levels'[k] = levels[k] /\ k \in 1 .. Len(levels)
      BY <1>1, <2>1, <2>2, <2>3
    <2>5. QED
      BY <1>3, <2>1, <2>4
  <1>12. CASE ScanEnds
    <2>1. UNCHANGED <<listeners, seen>> /\ levels # <<>>
      BY <1>12 DEF ScanEnds, Scanning
    <2>2. CASE levels' = <<>>
      BY <1>3, <2>1, <2>2
    <2>3. CASE SetTop(FetchLevel)
      <3>1. /\ Len(levels') = Len(levels) /\ levels'[Len(levels)] = FetchLevel
            /\ \A k \in 1 .. Len(levels) : k # Len(levels) => levels'[k] = levels[k]
        <4>1. Len(levels) \in 1 .. Len(levels)
          BY <1>1, <2>1
        <4>2. QED
          BY <1>1, <2>3, <4>1 DEF SetTop
      <3>2. QED
        BY <1>2, <1>3, <2>1, <3>1
    <2>4. QED
      BY <1>12, <2>2, <2>3 DEF ScanEnds
  <1>13. CASE QueueForeign \/ (\E c \in Codes : QueueEvent(c)) \/ UNCHANGED vars
    BY <1>4, <1>13 DEF QueueForeign, QueueEvent, vars
  <1>14. QED
    BY <1>5, <1>6, <1>7, <1>8, <1>9, <1>10, <1>11, <1>12, <1>13 DEF Next, Operation, Dispatch

-----------------------------------------------------------------------------
(* The theorems.                                                           *)

LEMMA DispatchInvariant == Safety => [](TypeInv /\ DispatchInv)
  <1>1. Init => DispatchInv
    <2> SUFFICES ASSUME Init PROVE DispatchInv
      OBVIOUS
    <2>1. /\ levels = <<>> /\ queue = <<>> /\ accepted = 0 /\ removal = NoRemoval
          /\ \A l \in Listeners : seen[l] = <<>>
      BY DEF Init
    <2>2. Ordered(0)
      BY <2>1 DEF Ordered
    <2>3. 0 \in Nat /\ SeenInOrder
      BY <2>1 DEF SeenInOrder
    <2>4. QED
      BY <2>1, <2>2, <2>3 DEF DispatchInv, OrderInv, RemovalInv, ServedInv
  <1>2. TypeInv /\ TypeInv' /\ DispatchInv /\ [Next]_vars => DispatchInv'
    BY OrderPreserved, RemovalPreserved, ServedPreserved DEF DispatchInv
  <1>3. QED
    BY <1>1, <1>2, TypeInvariant, PTL DEF Safety

(* Unless an error check stops the system, no accepted event is lost or    *)
(* dispatched twice, and each listener sees events in the order in which   *)
(* they were queued, except those whose dispatch a nested run of the       *)
(* scheduler interrupted.                                                  *)
THEOREM OnceInOrder == Safety => []DispatchedOnceInOrder
  <1>1. TypeInv /\ DispatchInv => DispatchedOnceInOrder
    <2> SUFFICES ASSUME TypeInv, DispatchInv, ~halted PROVE NoEventLost
      BY DEF DispatchInv, OrderInv, DispatchedOnceInOrder, NoEventLost
    <2>1. PICK f \in Nat : Ordered(f)
      BY DEF DispatchInv, OrderInv
    <2>2. f \in 0 .. accepted
      BY <2>1 DEF Ordered
    <2>3. Queued = f + 1 .. accepted
      <3>1. Queued \subseteq f + 1 .. accepted
        BY <2>1 DEF Queued, Ordered
      <3>2. ASSUME NEW id \in f + 1 .. accepted
            PROVE  id \in Queued
        <4>1. \E k \in 1 .. Len(queue) : queue[k].id = id
          BY <2>1 DEF Ordered
        <4>2. id # 0
          BY <3>2
        <4>3. QED
          BY <4>1, <4>2 DEF Queued
      <3>3. QED
        BY <3>1, <3>2
    <2>4. QED
      BY <2>1, <2>2, <2>3 DEF Ordered, NoEventLost
  <1>2. QED
    BY <1>1, DispatchInvariant, PTL

(* When sendEvent has been through the list, each listener whose entry was *)
(* there from the start, untouched, has been called at least once and no   *)
(* more often than it has entries for the code, although listeners and     *)
(* nested dispatches change the list under the loop.                       *)
THEOREM AllServed == Safety => []EveryListenerServed
  <1>1. TypeInv /\ DispatchInv => EveryListenerServed
    <2> SUFFICES ASSUME TypeInv, DispatchInv, NEW k \in 1 .. Len(levels),
                        levels[k].phase = "scan", levels[k].index > Len(listeners),
                        NEW l \in levels[k].due, levels[k].event # TickEvent
                 PROVE  Times(l, levels[k].event.id) \in
                            1 .. Cardinality({i \in 1 .. Len(listeners) :
                                                IsPair(listeners[i], l, levels[k].event.code)})
      BY DEF EveryListenerServed
    <2> DEFINE v == levels[k]
               pairs == {i \in 1 .. Len(listeners) : IsPair(listeners[i], l, v.event.code)}
    <2>1. /\ v \in GoodLevels /\ listeners \in Seq(Entries) /\ Len(listeners) \in Nat
          /\ seen \in [Listeners -> Seq(1 .. MaxEvents)]
      BY DEF TypeInv, TypeOK
    <2>2. v.event \in Events /\ l \in Listeners /\ v.index \in 1 .. MaxListeners + 1
      BY <2>1 DEF GoodLevels, Levels
    <2>3. Served(listeners, seen[l], v, l)
      BY <2>2 DEF DispatchInv, ServedInv, InScan
    <2>4. Reached(listeners, v, l) = pairs
      BY <2>1, <2>2, ManagerAssumption DEF Reached
    <2>5. Count(seen[l], v.event.id) >= 1
      BY <2>3, <2>4 DEF Served
    <2>6. Count(seen[l], v.event.id) \in Nat
      <3>1. seen[l] \in Seq(1 .. MaxEvents) /\ v.event.id \in 1 .. MaxEvents
        BY <2>1, <2>2 DEF Events
      <3>2. QED
        BY <3>1, CountAppend
    <2>7. Cardinality(pairs) \in Nat
      BY <2>1, <2>4, ReachedFinite
    <2>8. Count(seen[l], v.event.id) <= Cardinality(pairs)
      BY <2>3, <2>4 DEF Served
    <2>9. Times(l, v.event.id) = Count(seen[l], v.event.id)
      BY DEF Times, Count
    <2> HIDE DEF pairs
    <2>10. Times(l, v.event.id) \in 1 .. Cardinality(pairs)
      BY <2>5, <2>6, <2>7, <2>8, <2>9
    <2>11. QED
      BY <2>10 DEF pairs
  <1>2. QED
    BY <1>1, DispatchInvariant, PTL
=============================================================================
