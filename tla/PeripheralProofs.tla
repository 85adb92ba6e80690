--------------------------- MODULE PeripheralProofs ---------------------------
(***************************************************************************)
(* Peripheral for any number of events and presses: its types, the         *)
(* agreement between the transceiver's flags and the SoftDevice, the only  *)
(* ways in which an error check stops the system, and what the handlers    *)
(* keep of a connection.                                                   *)
(*                                                                         *)
(* The argument: the events that wait for the main thread, together with   *)
(* the transceiver's handle, are a sensible history of the link.           *)
(***************************************************************************)
EXTENDS Peripheral, TLAPS

Has(s, e) == \E i \in 1 .. Len(s) : s[i] = e

LinkEvents == {"CONNECTED", "DISCONNECTED"}

(* A history that begins with a connection or without one: at most one     *)
(* CONNECTED, then at most one DISCONNECTED, and all other events between. *)
Ordered(s) ==
    \A i, j \in 1 .. Len(s) :
        i < j /\ s[i] \in LinkEvents /\ s[j] \in LinkEvents
            => s[i] = "CONNECTED" /\ s[j] = "DISCONNECTED"

Inside(s, handle) ==
    \A i \in 1 .. Len(s) : s[i] \notin LinkEvents =>
        /\ \A j \in 1 .. Len(s) : j < i => s[j] # "DISCONNECTED"
        /\ handle = "link" \/ \E j \in 1 .. Len(s) : j < i /\ s[j] = "CONNECTED"

Sensible(s, handle) ==
    /\ Ordered(s) /\ Inside(s, handle)
    /\ handle = "link" => ~Has(s, "CONNECTED")
    /\ Has(s, "DISCONNECTED") => handle = "link" \/ Has(s, "CONNECTED")

(* The last write to the CCCD that waits, or else the copy of the service, *)
(* says that the peer wants notifications.                                 *)
Told(s, copy) ==
    \/ \E i \in 1 .. Len(s) :
          s[i] = "NOTIFY_ON" /\ \A j \in 1 .. Len(s) : i < j => s[j] # "NOTIFY_OFF"
    \/ copy /\ ~Has(s, "NOTIFY_OFF")

-----------------------------------------------------------------------------
(* The inductive invariant, in the parts that are proved one after another.*)

LinkInv ==
    /\ LinkUp <=> (connHandle = "link" \/ Has(events, "CONNECTED")) /\ ~Has(events, "DISCONNECTED")
    /\ link = "advertising" <=> isAdvertising /\ ~Has(events, "CONNECTED")
    /\ Has(events, "CONNECTED") => connHandle = "invalid" /\ isAdvertising
    /\ connHandle = "link" => ~isAdvertising
    /\ Sensible(events, connHandle)

HaltInv == OnlyRacesHalt /\ ledTimer.created

KeptInv == LedTimerFollowsLink /\ RssiOfThisLink /\ (notifiable => Told(events, notify))

-----------------------------------------------------------------------------
(* Queues.                                                                 *)

LEMMA AppendFacts ==
    ASSUME NEW S, NEW s \in Seq(S), NEW e \in S
    PROVE  /\ Append(s, e) \in Seq(S) /\ Len(s) \in Nat
           /\ Len(Append(s, e)) = Len(s) + 1
           /\ \A i \in 1 .. Len(s) : Append(s, e)[i] = s[i]
           /\ Append(s, e)[Len(s) + 1] = e
  OBVIOUS

LEMMA TailFacts ==
    ASSUME NEW S, NEW s \in Seq(S), s # <<>>
    PROVE  /\ Tail(s) \in Seq(S) /\ Head(s) = s[1] /\ Head(s) \in S
           /\ Len(s) \in Nat /\ Len(s) >= 1 /\ Len(Tail(s)) = Len(s) - 1
           /\ \A i \in 1 .. Len(s) - 1 : Tail(s)[i] = s[i + 1]
  OBVIOUS

LEMMA HasAppend ==
    ASSUME NEW s \in Seq(BleEvents), NEW e \in BleEvents, NEW d
    PROVE  Has(Append(s, e), d) <=> Has(s, d) \/ d = e
  <1> DEFINE t == Append(s, e)
  <1>1. /\ Len(s) \in Nat /\ Len(t) = Len(s) + 1 /\ t[Len(s) + 1] = e
        /\ \A i \in 1 .. Len(s) : t[i] = s[i]
    BY AppendFacts
  <1> HIDE DEF t
  <1>2. Has(t, d) <=> Has(s, d) \/ d = e
    BY <1>1 DEF Has
  <1>3. QED
    BY <1>2 DEF t

LEMMA HasTail ==
    ASSUME NEW s \in Seq(BleEvents), s # <<>>, NEW d
    PROVE  Has(s, d) <=> Has(Tail(s), d) \/ d = Head(s)
  <1> DEFINE t == Tail(s)
  <1>1. /\ Len(s) \in Nat /\ Len(s) >= 1 /\ Len(t) = Len(s) - 1 /\ Head(s) = s[1]
        /\ \A i \in 1 .. Len(s) - 1 : t[i] = s[i + 1]
    BY TailFacts
  <1> HIDE DEF t
  <1>2. ASSUME Has(s, d) PROVE Has(t, d) \/ d = Head(s)
    <2>1. PICK i \in 1 .. Len(s) : s[i] = d
      BY <1>2 DEF Has
    <2>2. CASE i = 1
      BY <1>1, <2>1, <2>2
    <2>3. CASE i # 1
      <3>1. i - 1 \in 1 .. Len(t) /\ t[i - 1] = d
        BY <1>1, <2>1, <2>3
      <3>2. QED BY <3>1 DEF Has
    <2>4. QED BY <2>2, <2>3
  <1>3. ASSUME Has(t, d) \/ d = Head(s) PROVE Has(s, d)
    <2>1. CASE Has(t, d)
      <3>1. PICK i \in 1 .. Len(t) : t[i] = d
        BY <2>1 DEF Has
      <3>2. i + 1 \in 1 .. Len(s) /\ s[i + 1] = d
        BY <1>1, <3>1
      <3>3. QED BY <3>2 DEF Has
    <2>2. CASE d = Head(s)
      <3>1. 1 \in 1 .. Len(s) /\ s[1] = d
        BY <1>1, <2>2
      <3>2. QED BY <3>1 DEF Has
    <2>3. QED BY <1>3, <2>1, <2>2
  <1>4. QED
    BY <1>2, <1>3 DEF t

(* The SoftDevice adds an event that its link allows.                      *)
LEMMA SensibleAppend ==
    ASSUME NEW s \in Seq(BleEvents), NEW e \in BleEvents, NEW h, Sensible(s, h),
           ~Has(s, "DISCONNECTED"),
           IF e = "CONNECTED" THEN h # "link" /\ ~Has(s, "CONNECTED")
                              ELSE h = "link" \/ Has(s, "CONNECTED")
    PROVE  Sensible(Append(s, e), h)
  <1> DEFINE t == Append(s, e)
  <1>1. /\ Len(s) \in Nat /\ Len(t) = Len(s) + 1 /\ t[Len(s) + 1] = e
        /\ \A i \in 1 .. Len(s) : t[i] = s[i]
    BY AppendFacts
  <1>2. \A d : Has(t, d) <=> Has(s, d) \/ d = e
    BY HasAppend
  <1> HIDE DEF t
  <1>3. Ordered(t)
    <2> SUFFICES ASSUME NEW i \in 1 .. Len(t), NEW j \in 1 .. Len(t), i < j,
                        t[i] \in LinkEvents, t[j] \in LinkEvents
                 PROVE  t[i] = "CONNECTED" /\ t[j] = "DISCONNECTED"
      BY DEF Ordered
    <2>1. i \in 1 .. Len(s) /\ t[i] = s[i]
      BY <1>1
    <2>2. CASE j = Len(s) + 1
      <3>1. Has(s, t[i]) /\ t[j] = e
        BY <1>1, <2>1, <2>2 DEF Has
      <3>2. QED
        BY <3>1 DEF LinkEvents
    <2>3. CASE j # Len(s) + 1
      BY <1>1, <2>1, <2>3 DEF Sensible, Ordered
    <2>4. QED BY <2>2, <2>3
  <1>4. Inside(t, h)
    <2> SUFFICES ASSUME NEW i \in 1 .. Len(t), t[i] \notin LinkEvents
                 PROVE  /\ \A j \in 1 .. Len(t) : j < i => t[j] # "DISCONNECTED"
                        /\ h = "link" \/ \E j \in 1 .. Len(t) : j < i /\ t[j] = "CONNECTED"
      BY DEF Inside
    <2>1. CASE i = Len(s) + 1
      <3>1. e # "CONNECTED"
        BY <1>1, <2>1 DEF LinkEvents
      <3>2. \A j \in 1 .. Len(t) : j < i => j \in 1 .. Len(s) /\ t[j] = s[j]
        BY <1>1, <2>1
      <3>3. \A j \in 1 .. Len(s) : j \in 1 .. Len(t) /\ j < i
        BY <1>1, <2>1
      <3>4. QED
        BY <3>1, <3>2, <3>3 DEF Has
    <2>2. CASE i # Len(s) + 1
      <3>1. i \in 1 .. Len(s) /\ s[i] \notin LinkEvents
        BY <1>1, <2>2
      <3>2. /\ \A j \in 1 .. Len(s) : j < i => s[j] # "DISCONNECTED"
            /\ h = "link" \/ \E j \in 1 .. Len(s) : j < i /\ s[j] = "CONNECTED"
        BY <3>1 DEF Sensible, Inside
      <3>3. \A j \in 1 .. Len(t) : j < i => j \in 1 .. Len(s) /\ t[j] = s[j]
        BY <1>1, <3>1
      <3>4. \A j \in 1 .. Len(s) : j \in 1 .. Len(t) /\ t[j] = s[j]
        BY <1>1
      <3>5. QED
        BY <3>2, <3>3, <3>4
    <2>3. QED BY <2>1, <2>2
  <1>5. /\ h = "link" => ~Has(t, "CONNECTED")
        /\ Has(t, "DISCONNECTED") => h = "link" \/ Has(t, "CONNECTED")
    BY <1>2 DEF Sensible
  <1>6. QED
    BY <1>3, <1>4, <1>5 DEF Sensible, t

\* the handle after the event has been dispatched
HandleAfter(h, e) ==
    CASE e = "CONNECTED" -> "link" [] e = "DISCONNECTED" -> "invalid" [] OTHER -> h

(* What the dispatch of the oldest event leaves is sensible for the new    *)
(* handle; an event of a link finds the handle of that link, and the end   *)
(* of a link is the last of its events.                                    *)
LEMMA SensibleTail ==
    ASSUME NEW s \in Seq(BleEvents), s # <<>>, NEW h, Sensible(s, h)
    PROVE  /\ Sensible(Tail(s), HandleAfter(h, Head(s)))
           /\ Head(s) # "CONNECTED" => h = "link"
           /\ Head(s) = "CONNECTED" => ~Has(Tail(s), "CONNECTED")
           /\ Head(s) = "DISCONNECTED" =>
                 ~Has(s, "CONNECTED") /\ ~Has(Tail(s), "DISCONNECTED")
  <1> DEFINE t == Tail(s)
  <1>1. /\ Len(s) \in Nat /\ Len(s) >= 1 /\ Len(t) = Len(s) - 1
        /\ Head(s) = s[1] /\ 1 \in 1 .. Len(s)
        /\ \A i \in 1 .. Len(s) - 1 : t[i] = s[i + 1]
    BY TailFacts
  <1>2. \A d : Has(s, d) <=> Has(t, d) \/ d = Head(s)
    BY HasTail
  <1> HIDE DEF t
  <1>3. \A i \in 1 .. Len(t) : i + 1 \in 1 .. Len(s) /\ 1 < i + 1 /\ t[i] = s[i + 1]
    BY <1>1
  <1>4. \A j \in 2 .. Len(s) : j - 1 \in 1 .. Len(t) /\ t[j - 1] = s[j]
    BY <1>1
  <1>5. Head(s) # "CONNECTED" => h = "link"
    <2>1. CASE Head(s) = "DISCONNECTED"
      <3>1. Has(s, "DISCONNECTED")
        BY <1>2, <2>1
      <3>2. ~Has(s, "CONNECTED")
        <4> SUFFICES ASSUME Has(s, "CONNECTED") PROVE FALSE
          OBVIOUS
        <4>1. PICK i \in 1 .. Len(t) : t[i] = "CONNECTED"
          BY <1>2, <2>1 DEF Has
        <4>2. QED
          BY <1>1, <1>3, <2>1, <4>1 DEF Sensible, Ordered, LinkEvents
      <3>3. QED
        BY <3>1, <3>2 DEF Sensible
    <2>2. CASE Head(s) \notin LinkEvents
      <3>1. ~\E j \in 1 .. Len(s) : j < 1 /\ s[j] = "CONNECTED"
        OBVIOUS
      <3>2. QED
        BY <1>1, <2>2, <3>1 DEF Sensible, Inside
    <2>3. QED
      BY <2>1, <2>2 DEF LinkEvents
  <1>6. Head(s) \in LinkEvents => \A i \in 1 .. Len(t) : t[i] \in LinkEvents =>
            Head(s) = "CONNECTED" /\ t[i] = "DISCONNECTED"
    BY <1>1, <1>3 DEF Sensible, Ordered
  <1>7. /\ Head(s) = "CONNECTED" => ~Has(t, "CONNECTED")
        /\ Head(s) = "DISCONNECTED" => ~Has(t, "CONNECTED") /\ ~Has(t, "DISCONNECTED")
    BY <1>6 DEF Has, LinkEvents
  <1>8. Ordered(t)
    BY <1>3 DEF Sensible, Ordered
  <1>9. Inside(t, HandleAfter(h, Head(s)))
    <2> SUFFICES ASSUME NEW i \in 1 .. Len(t), t[i] \notin LinkEvents
                 PROVE  /\ \A j \in 1 .. Len(t) : j < i => t[j] # "DISCONNECTED"
                        /\ \/ HandleAfter(h, Head(s)) = "link"
                           \/ \E j \in 1 .. Len(t) : j < i /\ t[j] = "CONNECTED"
      BY DEF Inside
    <2>1. i + 1 \in 1 .. Len(s) /\ s[i + 1] \notin LinkEvents
      BY <1>3
    <2>2. /\ \A j \in 1 .. Len(s) : j < i + 1 => s[j] # "DISCONNECTED"
          /\ h = "link" \/ \E j \in 1 .. Len(s) : j < i + 1 /\ s[j] = "CONNECTED"
      BY <2>1 DEF Sensible, Inside
    <2>3. \A j \in 1 .. Len(t) : j < i => t[j] # "DISCONNECTED"
      BY <1>3, <2>2
    <2>4. Head(s) # "DISCONNECTED"
      BY <1>1, <2>2
    <2>5. HandleAfter(h, Head(s)) = "link"
      BY <1>5, <2>4 DEF HandleAfter
    <2>6. QED
      BY <2>3, <2>5
  <1>10. /\ HandleAfter(h, Head(s)) = "link" => ~Has(t, "CONNECTED")
         /\ Has(t, "DISCONNECTED") => HandleAfter(h, Head(s)) = "link" \/ Has(t, "CONNECTED")
    BY <1>2, <1>5, <1>7 DEF HandleAfter, Sensible
  <1>11. QED
    BY <1>2, <1>5, <1>7, <1>8, <1>9, <1>10 DEF Sensible, t

(* A write to the CCCD that is appended is the last one.                   *)
LEMMA ToldAppend ==
    ASSUME NEW s \in Seq(BleEvents), NEW e \in BleEvents, NEW c \in BOOLEAN,
           e = "NOTIFY_ON" \/ (Told(s, c) /\ e # "NOTIFY_OFF")
    PROVE  Told(Append(s, e), c)
  <1> DEFINE t == Append(s, e)
  <1>1. /\ Len(s) \in Nat /\ Len(t) = Len(s) + 1 /\ t[Len(s) + 1] = e
        /\ \A i \in 1 .. Len(s) : t[i] = s[i]
    BY AppendFacts
  <1>2. Has(t, "NOTIFY_OFF") <=> Has(s, "NOTIFY_OFF") \/ "NOTIFY_OFF" = e
    BY HasAppend
  <1> HIDE DEF t
  <1>3. CASE e = "NOTIFY_ON"
    <2>1. Len(s) + 1 \in 1 .. Len(t) /\ \A j \in 1 .. Len(t) : ~(Len(s) + 1 < j)
      BY <1>1
    <2>2. QED
      BY <1>1, <1>3, <2>1 DEF Told, t
  <1>4. CASE Told(s, c) /\ e # "NOTIFY_OFF"
    <2>1. CASE c /\ ~Has(s, "NOTIFY_OFF")
      BY <1>2, <1>4, <2>1 DEF Told, t
    <2>2. CASE ~(c /\ ~Has(s, "NOTIFY_OFF"))
      <3>1. PICK i \in 1 .. Len(s) :
               s[i] = "NOTIFY_ON" /\ \A j \in 1 .. Len(s) : i < j => s[j] # "NOTIFY_OFF"
        BY <1>4, <2>2 DEF Told
      <3>2. \A j \in 1 .. Len(t) : j \in 1 .. Len(s) \/ j = Len(s) + 1
        BY <1>1
      <3>3. i \in 1 .. Len(t) /\ t[i] = "NOTIFY_ON"
               /\ \A j \in 1 .. Len(t) : i < j => t[j] # "NOTIFY_OFF"
        BY <1>1, <1>4, <3>1, <3>2
      <3>4. QED
        BY <3>3 DEF Told, t
    <2>3. QED BY <2>1, <2>2
  <1>5. QED
    BY <1>3, <1>4

\* the copy after the event has been dispatched
CopyAfter(c, e) == IF e \in {"NOTIFY_ON", "NOTIFY_OFF"} THEN e = "NOTIFY_ON" ELSE c

LEMMA ToldTail ==
    ASSUME NEW s \in Seq(BleEvents), s # <<>>, NEW c \in BOOLEAN, Told(s, c)
    PROVE  Told(Tail(s), CopyAfter(c, Head(s)))
  <1> DEFINE t == Tail(s)
  <1>1. /\ Len(s) \in Nat /\ Len(s) >= 1 /\ Len(t) = Len(s) - 1 /\ Head(s) = s[1]
        /\ \A i \in 1 .. Len(s) - 1 : t[i] = s[i + 1]
    BY TailFacts
  <1>2. Has(s, "NOTIFY_OFF") <=> Has(t, "NOTIFY_OFF") \/ "NOTIFY_OFF" = Head(s)
    BY HasTail
  <1> HIDE DEF t
  <1>3. \A i \in 1 .. Len(t) : i + 1 \in 1 .. Len(s) /\ t[i] = s[i + 1]
    BY <1>1
  <1>4. CASE c /\ ~Has(s, "NOTIFY_OFF")
    BY <1>2, <1>4 DEF Told, CopyAfter, t
  <1>5. CASE ~(c /\ ~Has(s, "NOTIFY_OFF"))
    <2>1. PICK i \in 1 .. Len(s) :
             s[i] = "NOTIFY_ON" /\ \A j \in 1 .. Len(s) : i < j => s[j] # "NOTIFY_OFF"
      BY <1>5 DEF Told
    <2>2. CASE i = 1
      <3>1. \A j \in 1 .. Len(t) : t[j] # "NOTIFY_OFF"
        BY <1>1, <1>3, <2>1, <2>2
      <3>2. CopyAfter(c, Head(s)) = TRUE
        BY <1>1, <2>1, <2>2 DEF CopyAfter
      <3>3. QED
        BY <3>1, <3>2 DEF Told, Has, t
    <2>3. CASE i # 1
      <3>1. /\ i - 1 \in 1 .. Len(t) /\ t[i - 1] = "NOTIFY_ON"
            /\ \A j \in 1 .. Len(t) : i - 1 < j => t[j] # "NOTIFY_OFF"
        BY <1>1, <1>3, <2>1, <2>3
      <3>2. QED
        BY <3>1 DEF Told, t
    <2>4. QED BY <2>2, <2>3
  <1>6. QED
    BY <1>4, <1>5

-----------------------------------------------------------------------------
(* Types.                                                                  *)

LEMMA TimerTypes ==
    /\ NewTimer \in TimerType
    /\ \A t \in TimerType :
          /\ PeriodicNotify(t) \in TimerType /\ Cancel(t) \in TimerType
          /\ PeriodicNotify(t).created /\ PeriodicNotify(t).active /\ PeriodicNotify(t).running
          /\ Cancel(t).created = t.created /\ ~Cancel(t).active /\ ~Cancel(t).running
  BY DEF TimerType, NewTimer, PeriodicNotify, Cancel

Links  == {"idle", "advertising", "connected", "disconnecting"}
Tasks  == {"softdevice", "short", "medium", "timeout"}
Checks == {"no", "advertise", "stop", "disconnect", "send", "reply", "params", "cancel"}

\* the types, in the parts that different steps change
RadioTypes  == link \in Links /\ events \in Seq(BleEvents) /\ notifiable \in BOOLEAN /\ measuring \in BOOLEAN
SchedTypes  == queue \in Seq(Tasks) /\ draining \in BOOLEAN
HandleTypes == connHandle \in {"invalid", "link"} /\ isAdvertising \in BOOLEAN
NusTypes    == nusHandle \in {"invalid", "link"} /\ notify \in BOOLEAN
AppTypes    == ledOn \in BOOLEAN /\ rssi \in {"unknown", "measured"} /\ ledTimer \in TimerType
EnvTypes    == halted \in Checks /\ signals \in 0 .. MaxEvents /\ presses \in 0 .. MaxPresses

LEMMA TypeParts ==
    /\ TypeOK <=> RadioTypes /\ SchedTypes /\ HandleTypes /\ NusTypes /\ AppTypes /\ EnvTypes
    /\ TypeOK' <=>
          RadioTypes' /\ SchedTypes' /\ HandleTypes' /\ NusTypes' /\ AppTypes' /\ EnvTypes'
  BY DEF TypeOK, RadioTypes, SchedTypes, HandleTypes, NusTypes, AppTypes, EnvTypes,
         Links, Tasks, Checks

(* Whatever the SoftDevice signals is queued for the main thread.          *)
LEMMA SignalType ==
    ASSUME RadioTypes, SchedTypes, EnvTypes, NEW e \in BleEvents, Signal(e),
           link' \in Links, notifiable' \in BOOLEAN, measuring' \in BOOLEAN
    PROVE  /\ RadioTypes' /\ SchedTypes' /\ EnvTypes'
           /\ UNCHANGED <<connHandle, isAdvertising, nusHandle, notify, ledOn, rssi, ledTimer>>
  <1>1. events' \in Seq(BleEvents) /\ queue' \in Seq(Tasks)
    BY AppendFacts DEF Signal, RadioTypes, SchedTypes, Tasks
  <1>2. signals' \in 0 .. MaxEvents
    BY PeripheralAssumption DEF Signal, EnvTypes
  <1>3. QED
    BY <1>1, <1>2
    DEF Signal, RadioTypes, SchedTypes, EnvTypes, bleVars, nusVars, appVars

\* what a step leaves alone keeps its type
LEMMA TypesKept ==
    /\ RadioTypes /\ UNCHANGED <<link, events, notifiable, measuring>> => RadioTypes'
    /\ SchedTypes /\ UNCHANGED <<queue, draining>> => SchedTypes'
    /\ HandleTypes /\ UNCHANGED <<connHandle, isAdvertising>> => HandleTypes'
    /\ NusTypes /\ UNCHANGED <<nusHandle, notify>> => NusTypes'
    /\ AppTypes /\ UNCHANGED <<ledOn, rssi, ledTimer>> => AppTypes'
    /\ EnvTypes /\ UNCHANGED <<halted, signals, presses>> => EnvTypes'
  BY DEF RadioTypes, SchedTypes, HandleTypes, NusTypes, AppTypes, EnvTypes

LEMMA SoftDeviceType ==
    ASSUME TypeOK, SoftDevice PROVE TypeOK'
  <1>1. PICK e \in BleEvents :
           Signal(e) /\ link' \in Links /\ notifiable' \in BOOLEAN /\ measuring' \in BOOLEAN
    <2>1. CASE PeerConnects
      BY <2>1 DEF PeerConnects, BleEvents, Links
    <2>2. CASE LinkLost
      BY <2>2 DEF LinkLost, BleEvents, Links
    <2>3. CASE PeerWritesCccd
      <3>1. PICK on \in BOOLEAN :
               notifiable' = on /\ Signal(IF on THEN "NOTIFY_ON" ELSE "NOTIFY_OFF")
        BY <2>3 DEF PeerWritesCccd
      <3>2. (IF on THEN "NOTIFY_ON" ELSE "NOTIFY_OFF") \in BleEvents
        BY DEF BleEvents
      <3>3. QED
        BY <2>3, <3>1, <3>2 DEF PeerWritesCccd, TypeOK, Links
    <2>4. CASE StackAsks
      BY <2>4 DEF StackAsks, BleEvents, TypeOK, Links
    <2>5. CASE RssiChanged
      BY <2>5 DEF RssiChanged, BleEvents, TypeOK, Links
    <2>6. QED
      BY <2>1, <2>2, <2>3, <2>4, <2>5 DEF SoftDevice
  <1>2. QED
    BY <1>1, TypeParts, SignalType, TypesKept

LEMMA ExecuteType ==
    ASSUME TypeOK, Execute PROVE TypeOK'
  <1>1. /\ RadioTypes /\ SchedTypes /\ HandleTypes /\ NusTypes /\ AppTypes /\ EnvTypes
    BY TypeParts
  <1>2. queue' \in Seq(Tasks) /\ Head(queue) \in Tasks
    BY <1>1, TailFacts DEF Execute, SchedTypes
  <1>3. CASE Head(queue) = "short"
    <2>1. ShortPress /\ UNCHANGED <<draining, presses>>
      BY <1>3 DEF Execute
    <2>2. AppTypes' /\ EnvTypes' /\ SchedTypes'
      BY <1>1, <1>2, <2>1 DEF ShortPress, Send, AppTypes, EnvTypes, SchedTypes, Checks, radioVars
    <2>3. QED
      BY <1>1, <2>1, <2>2, TypesKept, TypeParts DEF ShortPress, radioVars, bleVars, nusVars
  <1>4. CASE Head(queue) = "medium"
    <2>1. MediumPress /\ UNCHANGED <<draining, presses>>
      BY <1>4 DEF Execute
    <2>2. link' \in Links /\ halted' \in Checks /\ isAdvertising' \in BOOLEAN
      BY <1>1, <2>1 DEF MediumPress, Disconnect, StopAdvertisement, Advertise, Links, Checks,
                        RadioTypes, HandleTypes, EnvTypes
    <2>3. ledTimer' \in TimerType
      BY <1>1, <2>1, TimerTypes DEF MediumPress, Advertise, AppTypes
    <2>4. QED
      BY <1>1, <1>2, <2>1, <2>2, <2>3, TypeParts
      DEF MediumPress, RadioTypes, SchedTypes, HandleTypes, NusTypes, AppTypes, EnvTypes, nusVars
  <1>5. CASE Head(queue) = "timeout"
    <2>1. Timeout /\ UNCHANGED <<draining, presses>>
      BY <1>5 DEF Execute
    <2>2. AppTypes' /\ SchedTypes'
      BY <1>1, <1>2, <2>1 DEF Timeout, AppTypes, SchedTypes
    <2>3. QED
      BY <1>1, <2>1, <2>2, TypesKept, TypeParts DEF Timeout, radioVars, bleVars, nusVars
  <1>6. CASE Head(queue) = "softdevice"
    <2>1. draining' = TRUE /\ UNCHANGED <<radioVars, bleVars, appVars, halted, presses>>
      BY <1>6 DEF Execute
    <2>2. SchedTypes'
      BY <1>1, <1>2, <2>1 DEF SchedTypes
    <2>3. QED
      BY <1>1, <2>1, <2>2, TypesKept, TypeParts DEF radioVars, bleVars, nusVars, appVars
  <1>7. QED
    BY <1>2, <1>3, <1>4, <1>5, <1>6 DEF Tasks

LEMMA FetchType ==
    ASSUME TypeOK, FetchBle PROVE TypeOK'
  <1> DEFINE e == Head(events)
  <1>1. /\ RadioTypes /\ SchedTypes /\ HandleTypes /\ NusTypes /\ AppTypes /\ EnvTypes
    BY TypeParts
  <1>2. events' \in Seq(BleEvents) /\ e \in BleEvents
    BY <1>1, TailFacts DEF FetchBle, RadioTypes
  <1>3. NusOnBleEvt(e) /\ OnBleEvt(e) /\ UNCHANGED <<signals, queue, draining, presses>>
    BY DEF FetchBle, BleEvtDispatch, schedVars
  <1> HIDE DEF e
  <1>4. NusTypes' /\ SchedTypes'
    BY <1>1, <1>3, TypesKept DEF NusOnBleEvt, NusHandleAfter, NotifyAfter, NusTypes
  <1>5. /\ link' \in Links /\ notifiable' \in BOOLEAN /\ measuring' \in BOOLEAN
        /\ HandleTypes' /\ AppTypes' /\ halted' \in Checks
    <2>1. CASE e = "CONNECTED"
      <3>1. OnConnected
        BY <1>3, <2>1 DEF OnBleEvt
      <3>2. ledTimer' \in TimerType
        BY <1>1, <3>1, TimerTypes DEF OnConnected, AppTypes
      <3>3. measuring' \in BOOLEAN /\ halted' \in Checks
        BY <3>1 DEF OnConnected, MeasureRssi, Checks
      <3>4. QED
        BY <1>1, <3>1, <3>2, <3>3 DEF OnConnected, RadioTypes, HandleTypes, AppTypes
    <2>2. CASE e = "DISCONNECTED"
      <3>1. OnDisconnected
        BY <1>3, <2>2 DEF OnBleEvt
      <3>2. ledTimer' \in TimerType
        BY <1>1, <3>1, TimerTypes DEF OnDisconnected, Advertise, AppTypes
      <3>3. /\ link' \in Links /\ measuring' \in BOOLEAN /\ halted' \in Checks
            /\ isAdvertising' \in BOOLEAN
        BY <1>1, <3>1 DEF OnDisconnected, Advertise, MeasureRssi, Links, Checks, RadioTypes,
                          HandleTypes, EnvTypes
      <3>4. QED
        BY <1>1, <3>1, <3>2, <3>3 DEF OnDisconnected, RadioTypes, HandleTypes, AppTypes
    <2>3. CASE e = "REQUEST"
      <3>1. OnRequest
        BY <1>3, <2>3 DEF OnBleEvt
      <3>2. QED
        BY <1>1, <3>1, TypesKept DEF OnRequest, RadioTypes, Checks, appVars
    <2>4. CASE e = "PARAMS"
      <3>1. OnParamsFailed
        BY <1>3, <2>4 DEF OnBleEvt
      <3>2. QED
        BY <1>1, <3>1, TypesKept DEF OnParamsFailed, RadioTypes, Links, Checks, EnvTypes, appVars
    <2>5. CASE e = "RSSI"
      <3>1. OnRssi
        BY <1>3, <2>5 DEF OnBleEvt
      <3>2. QED
        BY <1>1, <3>1, TypesKept DEF OnRssi, RadioTypes, AppTypes, EnvTypes
    <2>6. CASE e \in {"NOTIFY_ON", "NOTIFY_OFF"}
      <3>1. OnWrite
        BY <1>3, <2>6 DEF OnBleEvt
      <3>2. QED
        BY <1>1, <3>1, TypesKept DEF OnWrite, RadioTypes, EnvTypes, appVars
    <2>7. QED
      BY <1>2, <2>1, <2>2, <2>3, <2>4, <2>5, <2>6 DEF BleEvents
  <1>6. RadioTypes' /\ EnvTypes'
    BY <1>1, <1>2, <1>3, <1>5 DEF RadioTypes, EnvTypes
  <1>7. QED
    BY <1>4, <1>5, <1>6, TypeParts

LEMMA TypeStep ==
    ASSUME TypeOK, [Next]_vars PROVE TypeOK'
  <1>1. /\ RadioTypes /\ SchedTypes /\ HandleTypes /\ NusTypes /\ AppTypes /\ EnvTypes
    BY TypeParts
  <1>2. CASE Press
    <2>1. queue' \in Seq(Tasks) /\ presses' \in 0 .. MaxPresses
      BY <1>1, <1>2, AppendFacts, PeripheralAssumption DEF Press, SchedTypes, EnvTypes, Tasks
    <2>2. SchedTypes' /\ EnvTypes'
      BY <1>1, <1>2, <2>1 DEF Press, SchedTypes, EnvTypes, radioVars
    <2>3. QED
      BY <1>1, <1>2, <2>2, TypesKept, TypeParts DEF Press, radioVars, bleVars, nusVars, appVars
  <1>3. CASE TimerFires
    <2>1. queue' \in Seq(Tasks)
      BY <1>1, <1>3, AppendFacts DEF TimerFires, SchedTypes, Tasks
    <2>2. SchedTypes'
      BY <1>1, <1>3, <2>1 DEF TimerFires, SchedTypes
    <2>3. QED
      BY <1>1, <1>3, <2>2, TypesKept, TypeParts
      DEF TimerFires, radioVars, bleVars, nusVars, appVars
  <1>4. CASE NoMoreBle
    <2>1. SchedTypes'
      BY <1>1, <1>4 DEF NoMoreBle, SchedTypes
    <2>2. QED
      BY <1>1, <1>4, <2>1, TypesKept, TypeParts
      DEF NoMoreBle, radioVars, bleVars, nusVars, appVars
  <1>5. CASE UNCHANGED vars
    BY <1>1, <1>5, TypesKept, TypeParts DEF vars, radioVars, schedVars, bleVars, nusVars, appVars
  <1>6. QED
    BY <1>2, <1>3, <1>4, <1>5, SoftDeviceType, ExecuteType, FetchType DEF Next, MainThread

-----------------------------------------------------------------------------
(* The flags and the link.                                                 *)

(* What an event of the SoftDevice does to the link and to the history.    *)
LEMMA SignalLink ==
    ASSUME TypeOK, LinkInv, SoftDevice PROVE LinkInv'
  <1>1. events \in Seq(BleEvents) /\ link \in Links
    BY DEF TypeOK, Links
  <1>2. ASSUME NEW e \in BleEvents, Signal(e), LinkUp,
               IF e = "DISCONNECTED" THEN link' = "idle" ELSE UNCHANGED link,
               e # "CONNECTED"
        PROVE  LinkInv'
    <2>1. events' = Append(events, e) /\ UNCHANGED <<connHandle, isAdvertising>>
      BY <1>2 DEF Signal, bleVars
    <2>2. \A d : Has(events', d) <=> Has(events, d) \/ d = e
      BY <1>1, <1>2, <2>1, HasAppend
    <2>3. ~Has(events, "DISCONNECTED") /\ (connHandle = "link" \/ Has(events, "CONNECTED"))
      BY <1>2 DEF LinkInv
    <2>4. Sensible(events', connHandle')
      BY <1>1, <1>2, <2>1, <2>3, SensibleAppend DEF LinkInv
    <2>5. QED
      BY <1>2, <2>1, <2>2, <2>3, <2>4 DEF LinkInv, LinkUp
  <1>3. CASE PeerConnects
    <2>1. /\ link = "advertising" /\ link' = "connected" /\ events' = Append(events, "CONNECTED")
          /\ "CONNECTED" \in BleEvents /\ UNCHANGED <<connHandle, isAdvertising>>
      BY <1>3 DEF PeerConnects, Signal, bleVars, BleEvents
    <2>2. \A d : Has(events', d) <=> Has(events, d) \/ d = "CONNECTED"
      BY <1>1, <2>1, HasAppend
    <2>3. /\ isAdvertising /\ ~Has(events, "CONNECTED") /\ connHandle # "link"
          /\ ~Has(events, "DISCONNECTED")
      BY <2>1 DEF LinkInv, Sensible
    <2>4. Sensible(events', connHandle')
      BY <1>1, <2>1, <2>3, SensibleAppend DEF LinkInv
    <2>5. connHandle' = "invalid"
      BY <2>1, <2>3 DEF TypeOK
    <2>6. QED
      BY <2>1, <2>2, <2>3, <2>4, <2>5 DEF LinkInv, LinkUp
  <1>4. CASE LinkLost
    BY <1>2, <1>4 DEF LinkLost, BleEvents
  <1>5. CASE PeerWritesCccd
    <2>1. PICK on \in BOOLEAN : Signal(IF on THEN "NOTIFY_ON" ELSE "NOTIFY_OFF")
      BY <1>5 DEF PeerWritesCccd
    <2>2. (IF on THEN "NOTIFY_ON" ELSE "NOTIFY_OFF") \in BleEvents \ LinkEvents
      BY DEF BleEvents, LinkEvents
    <2>3. QED
      BY <1>2, <1>5, <2>1, <2>2 DEF PeerWritesCccd, LinkEvents
  <1>6. CASE StackAsks
    BY <1>2, <1>6 DEF StackAsks, BleEvents
  <1>7. CASE RssiChanged
    BY <1>2, <1>7 DEF RssiChanged, BleEvents
  <1>8. QED
    BY <1>3, <1>4, <1>5, <1>6, <1>7 DEF SoftDevice

(* A medium press: advertising is stopped or started only where the        *)
(* transceiver's flag is right, or the error check stops the system.       *)
LEMMA MediumLink ==
    ASSUME TypeOK, LinkInv, Running, MediumPress
    PROVE  /\ LinkInv' /\ halted' # "advertise" /\ halted' # "cancel"
           /\ IsConnected => UNCHANGED <<isAdvertising, ledTimer>> /\ Disconnect
           /\ ~IsConnected /\ isAdvertising => StopAdvertisement /\ UNCHANGED ledTimer
           /\ ~IsConnected /\ ~isAdvertising => link = "idle" /\ Advertise
  <1>1. UNCHANGED <<events, connHandle>> /\ connHandle \in {"invalid", "link"} /\ link \in Links
    BY DEF MediumPress, nusVars, TypeOK, Links
  <1>2. CASE IsConnected
    <2>1. Disconnect /\ UNCHANGED <<isAdvertising, ledTimer>>
      BY <1>2 DEF MediumPress
    <2>2. (LinkUp <=> LinkUp') /\ (link = "advertising" <=> link' = "advertising")
      BY <2>1 DEF Disconnect, LinkUp
    <2>3. LinkInv'
      BY <1>1, <2>1, <2>2 DEF LinkInv
    <2>4. halted' # "advertise" /\ halted' # "cancel"
      BY <2>1 DEF Disconnect, Running
    <2>5. QED
      BY <1>2, <2>1, <2>3, <2>4
  <1>3. CASE ~IsConnected /\ isAdvertising
    <2>1. StopAdvertisement /\ UNCHANGED ledTimer
      BY <1>3 DEF MediumPress
    <2>2. connHandle = "invalid"
      BY <1>1, <1>3 DEF IsConnected
    <2>3. LinkInv' /\ halted' # "advertise" /\ halted' # "cancel"
      BY <1>1, <1>3, <2>1, <2>2 DEF StopAdvertisement, LinkInv, LinkUp, Running
    <2>4. QED
      BY <1>3, <2>1, <2>3
  <1>4. CASE ~IsConnected /\ ~isAdvertising
    <2>1. Advertise
      BY <1>4 DEF MediumPress
    <2>2. connHandle = "invalid"
      BY <1>1, <1>4 DEF IsConnected
    <2>3. link = "idle" /\ ~Has(events, "CONNECTED") /\ ~Has(events, "DISCONNECTED")
      BY <1>1, <1>4, <2>2 DEF LinkInv, LinkUp, Links, Sensible
    <2>4. LinkInv' /\ halted' # "advertise" /\ halted' # "cancel"
      BY <1>1, <2>1, <2>2, <2>3 DEF Advertise, LinkInv, LinkUp, Running
    <2>5. QED
      BY <1>4, <2>1, <2>3, <2>4
  <1>5. QED
    BY <1>2, <1>3, <1>4

(* The dispatch of an event: the new handle goes with what is left.        *)
LEMMA FetchLink ==
    ASSUME TypeOK, LinkInv, FetchBle
    PROVE  /\ LinkInv'
           /\ Head(events) # "CONNECTED" => connHandle = "link"
           /\ Head(events) = "DISCONNECTED" => link = "idle" /\ OnDisconnected
  <1> DEFINE e == Head(events)
  <1>1. /\ events \in Seq(BleEvents) /\ events # <<>> /\ e \in BleEvents
        /\ events' = Tail(events) /\ OnBleEvt(e) /\ link \in Links
        /\ connHandle \in {"invalid", "link"}
    BY TailFacts DEF TypeOK, FetchBle, BleEvtDispatch, Links
  <1>2. \A d : Has(events, d) <=> Has(events', d) \/ d = e
    BY <1>1, HasTail
  <1>3. /\ Sensible(events', HandleAfter(connHandle, e))
        /\ e # "CONNECTED" => connHandle = "link"
        /\ e = "CONNECTED" => ~Has(events', "CONNECTED")
        /\ e = "DISCONNECTED" => ~Has(events, "CONNECTED") /\ ~Has(events', "DISCONNECTED")
    BY <1>1, SensibleTail DEF LinkInv
  <1> HIDE DEF e
  <1>4. e = "DISCONNECTED" => link = "idle" /\ OnDisconnected
    BY <1>1, <1>2, <1>3 DEF OnBleEvt, LinkInv, LinkUp, Links
  <1>5. LinkInv'
    <2>1. CASE e = "CONNECTED"
      <3>1. connHandle' = "link" /\ isAdvertising' = FALSE /\ UNCHANGED link
        BY <1>1, <2>1 DEF OnBleEvt, OnConnected
      <3>2. Sensible(events', connHandle')
        BY <1>3, <2>1, <3>1 DEF HandleAfter
      <3>3. QED
        BY <1>2, <1>3, <2>1, <3>1, <3>2 DEF LinkInv, LinkUp
    <2>2. CASE e = "DISCONNECTED"
      <3>1. connHandle' = "invalid" /\ link' = "advertising" /\ isAdvertising' = TRUE
        BY <1>4, <2>2 DEF OnDisconnected, Advertise
      <3>2. Sensible(events', connHandle')
        BY <1>3, <2>2, <3>1 DEF HandleAfter
      <3>3. QED
        BY <1>2, <1>3, <2>2, <3>1, <3>2 DEF LinkInv, LinkUp
    <2>3. CASE e \notin LinkEvents
      <3>1. /\ UNCHANGED <<connHandle, isAdvertising>>
            /\ (LinkUp <=> LinkUp') /\ (link = "advertising" <=> link' = "advertising")
        BY <1>1, <2>3
        DEF OnBleEvt, OnRequest, OnParamsFailed, OnRssi, OnWrite, LinkUp, LinkEvents, BleEvents
      <3>2. Sensible(events', connHandle')
        BY <1>3, <2>3, <3>1 DEF HandleAfter, LinkEvents
      <3>3. /\ Has(events', "CONNECTED") <=> Has(events, "CONNECTED")
            /\ Has(events', "DISCONNECTED") <=> Has(events, "DISCONNECTED")
        BY <1>2, <2>3 DEF LinkEvents
      <3>4. QED
        BY <3>1, <3>2, <3>3 DEF LinkInv
    <2>4. QED
      BY <2>1, <2>2, <2>3 DEF LinkEvents
  <1>6. QED
    BY <1>3, <1>4, <1>5 DEF e

LEMMA LinkStep ==
    ASSUME TypeOK, LinkInv, [Next]_vars PROVE LinkInv'
  <1>1. ASSUME UNCHANGED <<link, events, connHandle, isAdvertising>> PROVE LinkInv'
    BY <1>1 DEF LinkInv, LinkUp
  <1>2. CASE Press
    BY <1>1, <1>2 DEF Press, radioVars, bleVars
  <1>3. CASE TimerFires
    BY <1>1, <1>3 DEF TimerFires, radioVars, bleVars
  <1>4. CASE Execute
    <2>1. queue # <<>> /\ Head(queue) \in Tasks
      BY <1>4, TailFacts DEF Execute, TypeOK, Tasks
    <2>2. CASE Head(queue) = "medium"
      BY <1>4, <2>2, MediumLink DEF Execute
    <2>3. CASE Head(queue) # "medium"
      <3>1. UNCHANGED <<radioVars, bleVars>>
        BY <1>4, <2>1, <2>3 DEF Execute, ShortPress, Timeout, Tasks
      <3>2. QED
        BY <1>1, <3>1 DEF radioVars, bleVars
    <2>4. QED BY <2>2, <2>3
  <1>5. CASE NoMoreBle
    BY <1>1, <1>5 DEF NoMoreBle, radioVars, bleVars
  <1>6. CASE UNCHANGED vars
    BY <1>1, <1>6 DEF vars, radioVars, bleVars
  <1>7. QED
    BY <1>2, <1>3, <1>4, <1>5, <1>6, SignalLink, FetchLink DEF Next, MainThread

LEMMA FlagsFromLink ==
    LinkInv => FlagsFollowLink
  <1> SUFFICES ASSUME LinkInv PROVE FlagsFollowLink
    OBVIOUS
  <1>1. \A d : Pending(d) <=> Has(events, d)
    BY DEF Pending, Has
  <1>2. \A i, j \in 1 .. Len(events) :
          i < j /\ {events[i], events[j]} \subseteq {"CONNECTED", "DISCONNECTED"}
              => events[i] = "CONNECTED" /\ events[j] = "DISCONNECTED"
    BY DEF LinkInv, Sensible, Ordered, LinkEvents
  <1>3. QED
    BY <1>1, <1>2 DEF LinkInv, FlagsFollowLink

-----------------------------------------------------------------------------
(* The error checks.                                                       *)

\* OnlyRacesHalt over Has
HaltParts ==
    /\ halted \notin {"advertise", "cancel"}
    /\ halted = "stop" => Has(events, "CONNECTED")
    /\ halted \in {"disconnect", "send", "reply"} => Has(events, "DISCONNECTED")
    /\ halted = "params" => Has(events, "DISCONNECTED") \/ link = "disconnecting"

LEMMA HaltPartsSuffice ==
    /\ OnlyRacesHalt <=> HaltParts
    /\ OnlyRacesHalt' <=> HaltParts'
  <1>1. (\A d : Pending(d) <=> Has(events, d)) /\ (\A d : Pending(d)' <=> Has(events', d))
    BY DEF Pending, Has
  <1>2. QED
    BY <1>1 DEF OnlyRacesHalt, HaltParts

\* the timer of the LED has been started once and keeps its application timer
LEMMA TimerCreated ==
    ASSUME TypeOK, ledTimer.created, NEW t \in {ledTimer, PeriodicNotify(ledTimer), Cancel(ledTimer)}
    PROVE  t.created
  BY TimerTypes DEF TypeOK

LEMMA ShortHalts ==
    ASSUME TypeOK, LinkInv, Running, ShortPress PROVE HaltParts' /\ UNCHANGED ledTimer
  <1>1. UNCHANGED <<link, events, ledTimer>>
    BY DEF ShortPress, radioVars
  <1>2. halted' = "no" \/ (halted' = "send" /\ IsConnected /\ ~LinkUp)
    <2>1. CASE IsConnected
      <3>1. PICK answer \in NusSendString :
               halted' = IF answer \in {"SUCCESS", "NO_TX_BUFFERS", "INVALID_STATE",
                                        "SYS_ATTR_MISSING"}
                         THEN "no" ELSE "send"
        BY <2>1 DEF ShortPress, Send
      <3>2. LinkUp => answer \in {"SUCCESS", "NO_TX_BUFFERS", "INVALID_STATE", "SYS_ATTR_MISSING"}
        <4>1. CASE nusHandle = "invalid" \/ ~notify
          BY <3>1, <4>1 DEF NusSendString, TypeOK
        <4>2. CASE nusHandle # "invalid" /\ notify
          BY <3>1, <4>2 DEF NusSendString, TypeOK
        <4>3. QED BY <4>1, <4>2
      <3>3. QED
        BY <2>1, <3>1, <3>2
    <2>2. CASE ~IsConnected
      BY <2>2 DEF ShortPress, Running
    <2>3. QED BY <2>1, <2>2
  <1>3. IsConnected /\ ~LinkUp => Has(events, "DISCONNECTED")
    BY DEF IsConnected, LinkInv, TypeOK
  <1>4. QED
    BY <1>1, <1>2, <1>3 DEF HaltParts

LEMMA MediumHalts ==
    ASSUME TypeOK, LinkInv, Running, MediumPress, ledTimer.created
    PROVE  HaltParts' /\ ledTimer'.created
  <1>1. UNCHANGED events /\ connHandle \in {"invalid", "link"}
    BY DEF MediumPress, TypeOK
  <1>2. CASE IsConnected
    <2>1. Disconnect /\ UNCHANGED ledTimer
      BY <1>2, MediumLink
    <2>2. ~LinkUp => Has(events, "DISCONNECTED")
      BY <1>1, <1>2 DEF IsConnected, LinkInv
    <2>3. QED
      BY <1>1, <2>1, <2>2 DEF Disconnect, HaltParts, Running, LinkUp
  <1>3. CASE ~IsConnected /\ isAdvertising
    <2>1. StopAdvertisement /\ UNCHANGED ledTimer
      BY <1>3, MediumLink
    <2>2. link # "advertising" => Has(events, "CONNECTED")
      BY <1>3 DEF LinkInv
    <2>3. QED
      BY <1>1, <2>1, <2>2 DEF StopAdvertisement, HaltParts, Running
  <1>4. CASE ~IsConnected /\ ~isAdvertising
    <2>1. link = "idle" /\ Advertise
      BY <1>4, MediumLink
    <2>2. ledTimer'.created
      BY <2>1, TimerCreated DEF Advertise
    <2>3. QED
      BY <1>1, <2>1, <2>2 DEF Advertise, HaltParts, Running
  <1>5. QED
    BY <1>2, <1>3, <1>4

LEMMA FetchHalts ==
    ASSUME TypeOK, LinkInv, FetchBle, ledTimer.created
    PROVE  HaltParts' /\ ledTimer'.created
  <1> DEFINE e == Head(events)
  <1>1. /\ e \in BleEvents /\ OnBleEvt(e) /\ Running /\ link \in Links
        /\ \A d : Has(events, d) <=> Has(events', d) \/ d = e
    BY TailFacts, HasTail DEF TypeOK, FetchBle, BleEvtDispatch, Links
  <1>2. /\ e # "CONNECTED" => connHandle = "link"
        /\ e = "DISCONNECTED" => link = "idle" /\ OnDisconnected
    BY FetchLink
  <1> HIDE DEF e
  <1>3. e \notin LinkEvents /\ ~LinkUp => Has(events', "DISCONNECTED")
    BY <1>1, <1>2 DEF LinkInv, LinkEvents
  <1>4. CASE e = "CONNECTED"
    <2>1. OnConnected
      BY <1>1, <1>4 DEF OnBleEvt
    <2>2. ledTimer'.created
      BY <2>1, TimerCreated DEF OnConnected
    <2>3. QED
      BY <2>1, <2>2 DEF OnConnected, CanCancel, HaltParts
  <1>5. CASE e = "DISCONNECTED"
    <2>1. ledTimer'.created
      BY <1>2, <1>5, TimerCreated DEF OnDisconnected, Advertise
    <2>2. QED
      BY <1>1, <1>2, <1>5, <2>1 DEF OnDisconnected, Advertise, HaltParts, Running
  <1>6. CASE e \notin LinkEvents
    <2>1. UNCHANGED ledTimer
      BY <1>1, <1>6 DEF OnBleEvt, OnRequest, OnParamsFailed, OnRssi, OnWrite, LinkEvents,
                        BleEvents, appVars
    <2>2. HaltParts'
      BY <1>1, <1>3, <1>6 DEF OnBleEvt, OnRequest, OnParamsFailed, OnRssi, OnWrite, LinkEvents,
                              BleEvents, HaltParts, Running, LinkUp, Links
    <2>3. QED
      BY <2>1, <2>2
  <1>7. QED
    BY <1>4, <1>5, <1>6 DEF LinkEvents

LEMMA HaltStep ==
    ASSUME TypeOK, LinkInv, HaltInv, [Next]_vars PROVE HaltInv'
  <1>1. ASSUME Running, UNCHANGED <<halted, ledTimer>> PROVE HaltParts' /\ ledTimer'.created
    BY <1>1 DEF Running, HaltParts, HaltInv
  <1>2. CASE SoftDevice
    <2>1. \E e : Signal(e)
      BY <1>2 DEF SoftDevice, PeerConnects, LinkLost, PeerWritesCccd, StackAsks, RssiChanged
    <2>2. QED
      BY <1>1, <2>1, HaltPartsSuffice DEF Signal, appVars, HaltInv
  <1>3. CASE Press
    BY <1>1, <1>3, HaltPartsSuffice DEF Press, appVars, HaltInv
  <1>4. CASE TimerFires
    BY <1>1, <1>4, HaltPartsSuffice DEF TimerFires, appVars, HaltInv
  <1>5. CASE Execute
    <2>1. Running /\ Head(queue) \in Tasks
      BY <1>5, TailFacts DEF Execute, TypeOK, Tasks
    <2>2. CASE Head(queue) = "short"
      BY <1>5, <2>1, <2>2, ShortHalts, HaltPartsSuffice DEF Execute, HaltInv
    <2>3. CASE Head(queue) = "medium"
      BY <1>5, <2>1, <2>3, MediumHalts, HaltPartsSuffice DEF Execute, HaltInv
    <2>4. CASE Head(queue) = "timeout"
      BY <1>1, <1>5, <2>1, <2>4, HaltPartsSuffice DEF Execute, Timeout, HaltInv
    <2>5. CASE Head(queue) = "softdevice"
      BY <1>1, <1>5, <2>1, <2>5, HaltPartsSuffice DEF Execute, appVars, HaltInv
    <2>6. QED BY <2>1, <2>2, <2>3, <2>4, <2>5 DEF Tasks
  <1>6. CASE FetchBle
    BY <1>6, FetchHalts, HaltPartsSuffice DEF HaltInv
  <1>7. CASE NoMoreBle
    BY <1>1, <1>7, HaltPartsSuffice DEF NoMoreBle, appVars, HaltInv
  <1>8. CASE UNCHANGED vars
    BY <1>8, HaltPartsSuffice DEF vars, radioVars, appVars, HaltInv, HaltParts
  <1>9. QED
    BY <1>2, <1>3, <1>4, <1>5, <1>6, <1>7, <1>8 DEF Next, MainThread

-----------------------------------------------------------------------------
(* What the handlers keep of a connection.                                 *)

KeptLed  == LedTimerFollowsLink /\ RssiOfThisLink
KeptCccd == notifiable => Told(events, notify)

LEMMA SignalKeeps ==
    ASSUME TypeOK, KeptInv, SoftDevice PROVE KeptInv'
  <1>1. /\ events \in Seq(BleEvents) /\ notify \in BOOLEAN
        /\ notifiable => Told(events, notify)
    BY DEF TypeOK, KeptInv
  <1>2. PICK e : Signal(e)
    BY DEF SoftDevice, PeerConnects, LinkLost, PeerWritesCccd, StackAsks, RssiChanged
  <1>3. KeptLed'
    BY <1>2 DEF KeptInv, KeptLed, LedTimerFollowsLink, RssiOfThisLink, Signal, bleVars, appVars
  <1>4. KeptCccd'
    <2>1. CASE PeerConnects \/ LinkLost
      BY <2>1 DEF PeerConnects, LinkLost, KeptCccd
    <2>2. CASE PeerWritesCccd
      <3>1. PICK on \in BOOLEAN :
               notifiable' = on /\ Signal(IF on THEN "NOTIFY_ON" ELSE "NOTIFY_OFF")
        BY <2>2 DEF PeerWritesCccd
      <3>2. on => events' = Append(events, "NOTIFY_ON") /\ UNCHANGED notify
        BY <3>1 DEF Signal, bleVars, nusVars
      <3>3. QED
        BY <1>1, <3>1, <3>2, ToldAppend DEF KeptCccd, BleEvents
    <2>3. CASE StackAsks \/ RssiChanged
      <3>1. PICK d \in {"REQUEST", "PARAMS", "RSSI"} : Signal(d) /\ UNCHANGED notifiable
        BY <2>3 DEF StackAsks, RssiChanged
      <3>2. events' = Append(events, d) /\ UNCHANGED notify /\ d \in BleEvents
        BY <3>1 DEF Signal, bleVars, nusVars, BleEvents
      <3>3. QED
        BY <1>1, <3>1, <3>2, ToldAppend DEF KeptCccd
    <2>4. QED BY <2>1, <2>2, <2>3 DEF SoftDevice
  <1>5. QED
    BY <1>3, <1>4 DEF KeptInv, KeptLed, KeptCccd

LEMMA FetchKeeps ==
    ASSUME TypeOK, LinkInv, KeptInv, FetchBle PROVE KeptInv'
  <1> DEFINE e == Head(events)
  <1>1. /\ events \in Seq(BleEvents) /\ events # <<>> /\ e \in BleEvents
        /\ events' = Tail(events) /\ OnBleEvt(e) /\ notify \in BOOLEAN
        /\ notify' = CopyAfter(notify, e) /\ UNCHANGED notifiable
    <2>1. OnBleEvt(e) /\ notify' = NotifyAfter(e) /\ events' = Tail(events) /\ events # <<>>
      BY DEF FetchBle, BleEvtDispatch, NusOnBleEvt
    <2>2. events \in Seq(BleEvents) /\ notify \in BOOLEAN
      BY DEF TypeOK
    <2>3. e \in BleEvents
      BY <2>1, <2>2, TailFacts
    <2> HIDE DEF e
    <2>4. UNCHANGED notifiable
      BY <2>1, <2>3
      DEF OnBleEvt, OnConnected, OnDisconnected, OnRequest, OnParamsFailed, OnRssi, OnWrite,
          BleEvents
    <2>5. QED
      BY <2>1, <2>2, <2>3, <2>4 DEF NotifyAfter, CopyAfter
  <1>2. KeptCccd'
    BY <1>1, ToldTail DEF KeptInv, KeptCccd
  <1>3. /\ e # "CONNECTED" => connHandle = "link"
        /\ e = "DISCONNECTED" => link = "idle" /\ OnDisconnected
    BY FetchLink
  <1> HIDE DEF e
  <1>4. ledTimer \in TimerType
    BY DEF TypeOK
  <1>5. KeptLed'
    <2>1. CASE e = "CONNECTED"
      <3>1. OnConnected
        BY <1>1, <2>1 DEF OnBleEvt
      <3>2. isAdvertising' = FALSE /\ connHandle' = "link"
              /\ ~ledTimer'.active /\ ~ledTimer'.running
        BY <1>4, <3>1, TimerTypes DEF OnConnected
      <3>3. QED
        BY <3>2 DEF KeptLed, LedTimerFollowsLink, RssiOfThisLink
    <2>2. CASE e = "DISCONNECTED"
      <3>1. connHandle' = "invalid" /\ rssi' = "unknown" /\ ledTimer' = PeriodicNotify(ledTimer)
        BY <1>3, <2>2 DEF OnDisconnected, Advertise
      <3>2. ledTimer'.active /\ ledTimer'.running
        BY <1>4, <3>1, TimerTypes
      <3>3. QED
        BY <3>1, <3>2 DEF KeptLed, LedTimerFollowsLink, RssiOfThisLink
    <2>3. CASE e \notin LinkEvents
      <3>1. UNCHANGED <<connHandle, isAdvertising, ledTimer>>
        BY <1>1, <2>3 DEF OnBleEvt, OnRequest, OnParamsFailed, OnRssi, OnWrite, LinkEvents,
                          BleEvents, appVars
      <3>2. connHandle = "link"
        BY <1>3, <2>3 DEF LinkEvents
      <3>3. QED
        BY <3>1, <3>2 DEF KeptInv, KeptLed, LedTimerFollowsLink, RssiOfThisLink
    <2>4. QED BY <2>1, <2>2, <2>3 DEF LinkEvents
  <1>6. QED
    BY <1>2, <1>5 DEF KeptInv, KeptLed, KeptCccd

LEMMA KeptStep ==
    ASSUME TypeOK, LinkInv, KeptInv, [Next]_vars PROVE KeptInv'
  <1>1. ASSUME UNCHANGED <<events, notifiable, notify, connHandle, isAdvertising, ledTimer, rssi>>
        PROVE  KeptInv'
    BY <1>1 DEF KeptInv, LedTimerFollowsLink, RssiOfThisLink
  <1>2. CASE Press
    BY <1>1, <1>2 DEF Press, radioVars, bleVars, nusVars, appVars
  <1>3. CASE TimerFires
    BY <1>1, <1>3 DEF TimerFires, radioVars, bleVars, nusVars, appVars
  <1>4. CASE Execute
    <2>1. Running /\ Head(queue) \in Tasks
      BY <1>4, TailFacts DEF Execute, TypeOK, Tasks
    <2>2. CASE Head(queue) = "medium"
      <3>1. MediumPress /\ ledTimer \in TimerType /\ connHandle \in {"invalid", "link"}
        BY <1>4, <2>2 DEF Execute, TypeOK
      <3>2. UNCHANGED <<events, notifiable, connHandle, notify, rssi>>
        BY <3>1 DEF MediumPress, nusVars
      <3>3. LedTimerFollowsLink'
        <4>1. CASE IsConnected
          BY <2>1, <3>1, <3>2, <4>1, MediumLink DEF KeptInv, LedTimerFollowsLink
        <4>2. CASE ~IsConnected /\ isAdvertising
          <5>1. StopAdvertisement /\ UNCHANGED ledTimer /\ connHandle # "link"
            BY <2>1, <3>1, <4>2, MediumLink DEF IsConnected
          <5>2. QED
            BY <3>2, <5>1 DEF StopAdvertisement, KeptInv, LedTimerFollowsLink
        <4>3. CASE ~IsConnected /\ ~isAdvertising
          <5>1. link = "idle" /\ Advertise /\ connHandle # "link"
            BY <2>1, <3>1, <4>3, MediumLink DEF IsConnected
          <5>2. ledTimer'.active /\ ledTimer'.running
            BY <3>1, <5>1, TimerTypes DEF Advertise
          <5>3. QED
            BY <3>2, <5>1, <5>2 DEF LedTimerFollowsLink
        <4>4. QED BY <4>1, <4>2, <4>3
      <3>4. QED
        BY <3>2, <3>3 DEF KeptInv, RssiOfThisLink
    <2>3. CASE Head(queue) # "medium"
      <3>1. UNCHANGED <<radioVars, bleVars, rssi, ledTimer>>
        BY <1>4, <2>1, <2>3 DEF Execute, ShortPress, Timeout, Tasks, appVars
      <3>2. QED
        BY <1>1, <3>1 DEF radioVars, bleVars, nusVars
    <2>4. QED BY <2>2, <2>3
  <1>5. CASE NoMoreBle
    BY <1>1, <1>5 DEF NoMoreBle, radioVars, bleVars, nusVars, appVars
  <1>6. CASE UNCHANGED vars
    BY <1>1, <1>6 DEF vars, radioVars, bleVars, nusVars, appVars
  <1>7. QED
    BY <1>2, <1>3, <1>4, <1>5, <1>6, SignalKeeps, FetchKeeps DEF Next, MainThread

-----------------------------------------------------------------------------
(* The theorems.                                                           *)

IInv == TypeOK /\ LinkInv /\ HaltInv /\ KeptInv

LEMMA InitialInv == Init => IInv
  <1> SUFFICES ASSUME Init PROVE IInv
    OBVIOUS
  <1>1. /\ NewTimer \in TimerType /\ PeriodicNotify(NewTimer) \in TimerType
        /\ ledTimer.created /\ ledTimer.active /\ ledTimer.running
    BY TimerTypes DEF Init
  <1>2. TypeOK
    <2>1. events \in Seq(BleEvents) /\ queue \in Seq(Tasks)
      BY DEF Init
    <2>2. RadioTypes /\ SchedTypes /\ HandleTypes /\ NusTypes
      BY <2>1 DEF Init, RadioTypes, SchedTypes, HandleTypes, NusTypes, Links
    <2>3. AppTypes
      BY <1>1 DEF Init, AppTypes
    <2>4. EnvTypes
      BY PeripheralAssumption DEF Init, EnvTypes, Checks
    <2>5. QED
      BY <2>2, <2>3, <2>4, TypeParts
  <1>3. \A d : ~Has(events, d)
    BY DEF Init, Has
  <1>4. LinkInv
    BY <1>3 DEF Init, LinkInv, LinkUp, Sensible, Ordered, Inside
  <1>5. HaltInv
    BY <1>1, HaltPartsSuffice DEF Init, HaltInv, HaltParts
  <1>6. KeptInv
    BY <1>1 DEF Init, KeptInv, LedTimerFollowsLink, RssiOfThisLink
  <1>7. QED
    BY <1>2, <1>4, <1>5, <1>6 DEF IInv

LEMMA Inductive == Safety => []IInv
  <1>1. IInv /\ [Next]_vars => IInv'
    BY TypeStep, LinkStep, HaltStep, KeptStep DEF IInv
  <1>2. QED
    BY <1>1, InitialInv, PTL DEF Safety

(* Every variable of the application keeps its type.                       *)
THEOREM TypeCorrect == Spec => []TypeOK
  <1>1. IInv => TypeOK
    BY DEF IInv
  <1>2. QED
    BY <1>1, Inductive, PTL DEF Spec

(* However many events wait, the transceiver's flags corrected by them say *)
(* what the SoftDevice does.                                               *)
THEOREM FlagsCorrect == Spec => []FlagsFollowLink
  <1>1. IInv => FlagsFollowLink
    BY FlagsFromLink DEF IInv
  <1>2. QED
    BY <1>1, Inductive, PTL DEF Spec

(* A refused call stops the system only in a race with an event of the link*)
(* that is not dispatched yet; advertise and cancel are never refused.     *)
THEOREM OnlyRaces == Spec => []OnlyRacesHalt
  <1>1. IInv => OnlyRacesHalt
    BY DEF IInv, HaltInv
  <1>2. QED
    BY <1>1, Inductive, PTL DEF Spec

(* The LED's timer, the RSSI and the copy of the CCCD are those of the     *)
(* present connection.                                                     *)
THEOREM KeptOfThisLink == Spec => []StateOfThisLink
  <1>1. IInv => StateOfThisLink
    <2>1. ASSUME IInv, events = <<>>, Told(events, notify) PROVE notify
      BY <2>1 DEF Told
    <2>2. QED
      BY <2>1 DEF IInv, KeptInv, StateOfThisLink, NotificationsReachPeer
  <1>2. QED
    BY <1>1, Inductive, PTL DEF Spec
=============================================================================
