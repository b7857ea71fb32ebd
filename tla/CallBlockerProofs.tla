------------------------- MODULE CallBlockerProofs -------------------------
(***************************************************************************)
(* Proofs about CallBlocker, for any set of calls, any number of listeners  *)
(* and of process deaths: a call that rings gets one thread and no more.    *)
(***************************************************************************)
EXTENDS CallBlocker, SequenceTheorems, TLAPS

-----------------------------------------------------------------------------
(* The inductive invariant                                                 *)

\* toggleAirplaneMode is called twice.
TogglesOK ==
    \A c \in Calls :
        /\ worker[c].pc \in {"queued", "started", "endCall", "isRinging"} => worker[c].toggles = 0
        /\ worker[c].pc \in {"toggle", "put"} => worker[c].toggles <= 1

\* A call that is still to come is known nowhere.
Fresh ==
    /\ phone.ringing \notin waiting
    /\ \A i \in 1 .. Len(looper) : looper[i].call \notin waiting
    /\ \A c \in waiting : starts[c] = 0

\* The queue ends with the state the phone is in.
UpToDate ==
    looper # <<>> => listeners > 0 /\ looper[Len(looper)] = Event(phone)

\* The callbacks of one call are next to each other, and between those of two
\* calls there is one that resets the flag.
InOrder ==
    /\ \A i \in 1 .. Len(looper) : looper[i].state = "ringing" <=> looper[i].call # NoCall
    /\ \A i, j \in 1 .. Len(looper) :
         j = i + 1 /\ looper[i].call # looper[j].call
            => looper[i].call = NoCall \/ looper[j].call = NoCall
    /\ \A i, j, k \in 1 .. Len(looper) :
         i <= k /\ k <= j /\ looper[i].call = looper[j].call /\ looper[i].call # NoCall
            => looper[k].call = looper[i].call

\* While a call that has its thread may be reported again, the flag is set.
Guarded ==
    \A c \in Calls : starts[c] # 0 =>
        /\ looper = <<>> /\ phone.ringing = c => processingRingingCall
        /\ \A j \in 1 .. Len(looper) : looper[j].call = c =>
             processingRingingCall /\ \A k \in 1 .. j : looper[k].call = c

\* The flag speaks of the call that the next callback, or else the phone, is about.
FlagIsFor ==
    processingRingingCall =>
        /\ prefs.isAppEnabled /\ listeners > 0
        /\ looper = <<>> => phone.ringing # NoCall /\ ~At(phone.ringing, "none")
        /\ looper # <<>> /\ looper[1].call # NoCall => ~At(looper[1].call, "none")

IInv ==
    /\ TypeOK /\ TogglesOK /\ Fresh /\ UpToDate /\ InOrder /\ Guarded /\ FlagIsFor
    /\ OneThreadPerCall /\ NoCallSlips

PhoneStates == [ringing : Calls \cup {NoCall}, active : BOOLEAN]

-----------------------------------------------------------------------------
(* The queue of callbacks                                                  *)

LEMMA EventFacts ==
    ASSUME NEW p \in PhoneStates
    PROVE  /\ Event(p) \in StateEvent /\ Event(p).call = p.ringing
           /\ Event(p).state = "ringing" <=> p.ringing # NoCall
  BY DEF PhoneStates, Event, StateEvent

\* Every listener is told: so many copies of the event, behind what is queued.
LEMMA Told ==
    ASSUME NEW q \in Seq(StateEvent), NEW n \in Nat, NEW e \in StateEvent,
           NEW r, r = q \o [i \in 1 .. n |-> e]
    PROVE  /\ r \in Seq(StateEvent) /\ Len(r) = Len(q) + n
           /\ \A i \in 1 .. Len(q) : r[i] = q[i]
           /\ \A i \in Len(q) + 1 .. Len(q) + n : r[i] = e
<1> DEFINE t == [i \in 1 .. n |-> e]
<1>1. t \in Seq(StateEvent) /\ Len(t) = n /\ \A i \in 1 .. n : t[i] = e
  OBVIOUS
<1> HIDE DEF t
<1>2. /\ r \in Seq(StateEvent) /\ Len(r) = Len(q) + n
      /\ \A i \in 1 .. Len(r) : r[i] = IF i <= Len(q) THEN q[i] ELSE t[i - Len(q)]
  BY <1>1 DEF t
<1> QED BY <1>1, <1>2

\* What is known of calls, threads and the flag, when the queue is longer by
\* events e of the present state of the phone.
LEMMA LongerQueue ==
    ASSUME IInv, NEW p \in PhoneStates, phone' = p,
           \/ p.ringing = phone.ringing
           \/ p.ringing = NoCall
           \/ phone.ringing = NoCall /\ p.ringing \in waiting,
           waiting' = waiting \ {p.ringing},
           NEW n \in Nat, n > 0, listeners' \in Nat, listeners' > 0,
           looper' \in Seq(StateEvent), Len(looper') = Len(looper) + n,
           \A i \in 1 .. Len(looper) : looper'[i] = looper[i],
           \A i \in Len(looper) + 1 .. Len(looper) + n : looper'[i] = Event(p),
           processingRingingCall' = processingRingingCall, starts' = starts, prefs' = prefs,
           \A c \in Calls : worker'[c].pc = "none" => worker[c].pc = "none"
    PROVE  Fresh' /\ UpToDate' /\ InOrder' /\ Guarded' /\ FlagIsFor' /\ NoCallSlips'
<1> USE DEF IInv
<1> DEFINE m == Len(looper)
<1>1. /\ phone \in PhoneStates /\ looper \in Seq(StateEvent) /\ m \in Nat
      /\ waiting \subseteq Calls /\ NoCall \notin Calls /\ starts \in [Calls -> Nat]
  BY NoCallIsNoCall DEF TypeOK, PhoneStates
<1>2. /\ Event(p).call = p.ringing
      /\ Event(p).state = "ringing" <=> p.ringing # NoCall
      /\ Event(phone).call = phone.ringing
  BY <1>1, EventFacts
<1>3. looper' # <<>> /\ Len(looper') = m + n
  BY <1>1
<1>4. \A i \in 1 .. m + n : \/ looper'[i] = looper[i] /\ i <= m
                            \/ looper'[i] = Event(p) /\ i > m
  BY <1>1
<1>5. Fresh'
  BY <1>1, <1>2, <1>3, <1>4 DEF Fresh
<1>6. UpToDate'
  BY <1>1, <1>3, <1>4 DEF UpToDate
<1>7. m > 0 => looper[m].call = phone.ringing
  BY <1>1, <1>2 DEF UpToDate
<1>8. InOrder'
  <2>1. \A i \in 1 .. m + n : looper'[i].state = "ringing" <=> looper'[i].call # NoCall
    BY <1>1, <1>2, <1>4 DEF InOrder
  <2>2. ASSUME NEW i \in 1 .. m + n, NEW j \in 1 .. m + n, j = i + 1,
               looper'[i].call # looper'[j].call
        PROVE  looper'[i].call = NoCall \/ looper'[j].call = NoCall
    <3>1. CASE j <= m BY <1>1, <1>4, <2>2, <3>1 DEF InOrder
    <3>2. CASE i = m BY <1>1, <1>2, <1>4, <1>7, <2>2, <3>2
    <3>3. CASE i > m BY <1>1, <1>4, <2>2, <3>3
    <3> QED BY <1>1, <2>2, <3>1, <3>2, <3>3
  <2>3. ASSUME NEW i \in 1 .. m + n, NEW j \in 1 .. m + n, NEW k \in 1 .. m + n,
               i <= k, k <= j, looper'[i].call = looper'[j].call, looper'[i].call # NoCall
        PROVE  looper'[k].call = looper'[i].call
    <3> DEFINE Between(a, b, c) ==
                 a <= c /\ c <= b /\ looper[a].call = looper[b].call /\ looper[a].call # NoCall
                   => looper[c].call = looper[a].call
    <3>0. \A a, b, c \in 1 .. m : Between(a, b, c)
      BY DEF InOrder
    <3>1. CASE j <= m
      <4>1. /\ i \in 1 .. m /\ k \in 1 .. m /\ j \in 1 .. m
            /\ looper'[i] = looper[i] /\ looper'[k] = looper[k] /\ looper'[j] = looper[j]
        BY <1>1, <1>4, <2>3, <3>1
      <4>2. Between(i, j, k)
        BY <3>0, <4>1
      <4> QED BY <2>3, <4>1, <4>2
    <3>2. CASE i > m BY <1>1, <1>4, <2>3, <3>2
    <3>3. CASE i <= m /\ j > m
      <4>1. looper[i].call = p.ringing /\ p.ringing # NoCall /\ looper'[i] = looper[i]
        BY <1>1, <1>2, <1>4, <2>3, <3>3
      <4>2. p.ringing = phone.ringing
        BY <1>1, <3>3, <4>1 DEF Fresh
      <4>3. CASE k > m BY <1>1, <1>2, <1>4, <4>1, <4>3
      <4>4. CASE k <= m
        <5>1. m \in 1 .. Len(looper) /\ looper[i].call = looper[m].call /\ k <= m
          BY <1>1, <1>7, <3>3, <4>1, <4>2, <4>4
        <5>2. i \in 1 .. m /\ k \in 1 .. m /\ looper'[k] = looper[k]
          BY <1>1, <1>4, <3>3, <4>4
        <5>3. Between(i, m, k)
          BY <3>0, <5>1, <5>2
        <5> QED BY <2>3, <4>1, <5>1, <5>2, <5>3
      <4> QED BY <1>1, <4>3, <4>4
    <3> QED BY <1>1, <3>1, <3>2, <3>3
  <2> QED BY <1>3, <2>1, <2>2, <2>3 DEF InOrder
<1>9. Guarded'
  <2>1. SUFFICES ASSUME NEW c \in Calls, starts[c] # 0, NEW j \in 1 .. m + n,
                        looper'[j].call = c
                 PROVE  processingRingingCall /\ \A k \in 1 .. j : looper'[k].call = c
    BY <1>3 DEF Guarded
  <2>2. CASE j <= m
    <3>1. j \in 1 .. Len(looper) /\ looper[j].call = c
      BY <1>1, <1>4, <2>1, <2>2
    <3>2. processingRingingCall /\ \A k \in 1 .. j : looper[k].call = c
      BY <2>1, <3>1 DEF Guarded
    <3>3. ASSUME NEW k \in 1 .. j PROVE looper'[k] = looper[k]
      BY <1>1, <1>4, <2>2, <3>3
    <3> QED BY <3>2, <3>3
  <2>3. CASE j > m
    <3>1. p.ringing = c /\ p.ringing # NoCall
      BY <1>1, <1>2, <1>4, <2>1, <2>3
    <3>2. phone.ringing = c
      BY <1>1, <2>1, <3>1 DEF Fresh
    <3>3. CASE m = 0
      BY <1>1, <1>2, <1>4, <2>1, <3>1, <3>2, <3>3 DEF Guarded
    <3>4. CASE m > 0
      <4>1. m \in 1 .. Len(looper) /\ looper[m].call = c
        BY <1>1, <1>7, <3>2, <3>4
      <4>2. processingRingingCall /\ \A k \in 1 .. m : looper[k].call = c
        BY <2>1, <4>1 DEF Guarded
      <4>3. ASSUME NEW k \in 1 .. j PROVE looper'[k].call = c
        <5>1. CASE k <= m BY <1>1, <1>4, <4>2, <5>1
        <5>2. CASE k > m BY <1>1, <1>2, <1>4, <3>1, <5>2
        <5> QED BY <1>1, <5>1, <5>2
      <4> QED BY <4>2, <4>3
    <3> QED BY <1>1, <3>3, <3>4
  <2> QED BY <1>1, <2>2, <2>3
<1>10. FlagIsFor'
  <2>1. SUFFICES ASSUME processingRingingCall, looper'[1].call # NoCall
                 PROVE  prefs.isAppEnabled /\ worker'[looper'[1].call].pc # "none"
    BY <1>3 DEF FlagIsFor, At
  <2>2. prefs.isAppEnabled
    BY <2>1 DEF FlagIsFor
  <2>3. CASE m = 0
    <3>1. looper = <<>> /\ looper'[1] = Event(p)
      BY <1>1, <1>4, <2>3
    <3>2. phone.ringing # NoCall /\ worker[phone.ringing].pc # "none"
      BY <2>1, <3>1 DEF FlagIsFor, At
    <3>3. looper'[1].call = phone.ringing /\ phone.ringing \in Calls
      BY <1>1, <1>2, <2>1, <3>1, <3>2 DEF PhoneStates
    <3> QED BY <2>2, <3>2, <3>3
  <2>4. CASE m > 0
    <3>1. looper # <<>> /\ looper'[1] = looper[1] /\ looper[1] \in StateEvent
      BY <1>1, <1>4, <2>4
    <3>2. worker[looper[1].call].pc # "none"
      BY <2>1, <3>1 DEF FlagIsFor, At
    <3>3. looper[1].call \in Calls
      BY <2>1, <3>1 DEF StateEvent
    <3> QED BY <2>2, <3>1, <3>2, <3>3
  <2> QED BY <1>1, <2>3, <2>4
<1>11. NoCallSlips'
  BY <1>3 DEF NoCallSlips
<1> QED BY <1>5, <1>6, <1>8, <1>9, <1>10, <1>11

-----------------------------------------------------------------------------
(* The steps                                                               *)

\* Where a thread is does not concern the queue, except whether there is one.
LEMMA SameQueue ==
    ASSUME IInv, Event(phone') = Event(phone), phone' \in PhoneStates, phone'.ringing = phone.ringing,
           waiting' = waiting, listeners' = listeners, looper' = looper,
           processingRingingCall' = processingRingingCall, starts' = starts, prefs' = prefs,
           \A c \in Calls : worker'[c].pc = "none" => worker[c].pc = "none"
    PROVE  Fresh' /\ UpToDate' /\ InOrder' /\ Guarded' /\ FlagIsFor' /\ NoCallSlips'
<1> USE DEF IInv
<1>1. /\ phone.ringing \in Calls \cup {NoCall}
      /\ \A i \in 1 .. Len(looper) : looper[i].call \in Calls \cup {NoCall}
      /\ looper # <<>> => looper[1].call \in Calls \cup {NoCall}
  <2>1. looper \in Seq(StateEvent) /\ phone.ringing \in Calls \cup {NoCall}
    BY DEF TypeOK
  <2>2. \A i \in 1 .. Len(looper) : looper[i] \in StateEvent
    BY <2>1
  <2>3. looper # <<>> => 1 \in 1 .. Len(looper)
    BY <2>1
  <2> QED BY <2>1, <2>2, <2>3 DEF StateEvent
<1>2. Fresh' /\ UpToDate' /\ InOrder' /\ Guarded'
  BY DEF Fresh, UpToDate, InOrder, Guarded, Event
<1>3. FlagIsFor'
  BY <1>1 DEF FlagIsFor, At
<1>4. NoCallSlips'
  BY <1>1 DEF NoCallSlips, At
<1> QED BY <1>2, <1>3, <1>4

\* The phone changes, and whoever listens is told if the change shows.
LEMMA PhoneBecomesInv ==
    ASSUME IInv, NEW p \in PhoneStates, PhoneBecomes(p),
           \/ p.ringing = phone.ringing
           \/ p.ringing = NoCall
           \/ phone.ringing = NoCall /\ p.ringing \in waiting,
           waiting' = waiting \ {p.ringing},
           listeners' = listeners,
           processingRingingCall' = processingRingingCall, starts' = starts, prefs' = prefs,
           \A c \in Calls : worker'[c].pc = "none" => worker[c].pc = "none"
    PROVE  /\ phone' \in PhoneStates /\ looper' \in Seq(StateEvent) /\ broadcasts' \in Nat
           /\ Fresh' /\ UpToDate' /\ InOrder' /\ Guarded' /\ FlagIsFor' /\ NoCallSlips'
<1>1. /\ phone \in PhoneStates /\ looper \in Seq(StateEvent) /\ listeners \in Nat
      /\ broadcasts \in Nat /\ waiting \subseteq Calls /\ NoCall \notin Calls
      /\ phone' = p
  BY NoCallIsNoCall, BoundsAreNat DEF IInv, TypeOK, PhoneStates, PhoneBecomes
<1>2. /\ Event(p) \in StateEvent /\ Event(p).call = p.ringing
      /\ Event(phone).call = phone.ringing
  BY <1>1, EventFacts
<1>3. CASE Event(p) = Event(phone)
  <2>1. looper' = looper /\ broadcasts' = broadcasts
    BY <1>3 DEF PhoneBecomes
  <2>2. p.ringing = phone.ringing
    BY <1>2, <1>3
  <2>3. waiting' = waiting
    BY <1>1, <2>2 DEF IInv, Fresh
  <2>4. Event(phone') = Event(phone) /\ phone' \in PhoneStates /\ phone'.ringing = phone.ringing
    BY <1>1, <1>3, <2>2
  <2> QED BY <1>1, <2>1, <2>3, <2>4, SameQueue
<1>4. CASE Event(p) # Event(phone)
  <2>1. /\ looper' = looper \o [i \in 1 .. listeners |-> Event(p)]
        /\ broadcasts' = broadcasts + 1
    BY <1>4 DEF PhoneBecomes
  <2>2. /\ looper' \in Seq(StateEvent) /\ Len(looper') = Len(looper) + listeners
        /\ \A i \in 1 .. Len(looper) : looper'[i] = looper[i]
        /\ \A i \in Len(looper) + 1 .. Len(looper) + listeners : looper'[i] = Event(p)
    BY <1>1, <1>2, <2>1, Told
  <2>3. CASE listeners > 0
    <3>1. listeners' \in Nat /\ listeners' > 0 BY <1>1, <2>3
    <3> QED BY <1>1, <2>1, <2>2, <2>3, <3>1, LongerQueue
  <2>4. CASE listeners = 0
    <3>1. looper = <<>> BY <1>1, <2>4 DEF IInv, UpToDate
    <3>2. looper' = <<>> BY <1>1, <2>2, <2>4, <3>1
    <3>3. ~processingRingingCall BY <1>1, <2>4 DEF IInv, FlagIsFor
    <3>4. Fresh'
      BY <1>1, <3>1, <3>2 DEF IInv, Fresh
    <3>5. Guarded'
      <4>1. ASSUME NEW c \in Calls, starts[c] # 0, p.ringing = c PROVE FALSE
        <5>1. c \notin waiting BY <4>1 DEF IInv, Fresh
        <5>2. phone.ringing = c BY <1>1, <4>1, <5>1
        <5> QED BY <3>1, <3>3, <4>1, <5>2 DEF IInv, Guarded
      <4> QED BY <1>1, <3>2, <4>1 DEF Guarded
    <3>6. UpToDate' /\ InOrder' /\ FlagIsFor' /\ NoCallSlips'
      BY <1>1, <2>4, <3>2, <3>3 DEF UpToDate, InOrder, FlagIsFor, NoCallSlips
    <3> QED BY <1>1, <2>1, <2>2, <3>4, <3>5, <3>6
  <2> QED BY <1>1, <2>3, <2>4
<1> QED BY <1>3, <1>4

LEMMA PhoneInv == ASSUME IInv, Phone PROVE IInv'
<1>1. /\ UNCHANGED <<listeners, processingRingingCall, starts, prefs, ringer, airplane,
                     worker, deaths>>
      /\ phone \in PhoneStates /\ waiting \subseteq Calls
  BY DEF Phone, deviceVars, IInv, TypeOK, PhoneStates
<1>2. PICK p \in PhoneStates :
         /\ PhoneBecomes(p)
         /\ \/ p.ringing = phone.ringing
            \/ p.ringing = NoCall
            \/ phone.ringing = NoCall /\ p.ringing \in waiting
         /\ waiting' = waiting \ {p.ringing}
  <2>1. NoCall \notin waiting /\ phone.ringing \notin waiting
    BY <1>1, NoCallIsNoCall DEF IInv, Fresh
  <2>2. ASSUME NEW c \in Calls, Ring(c)
        PROVE  LET p == [phone EXCEPT !.ringing = c]
               IN  /\ p \in PhoneStates /\ PhoneBecomes(p) /\ p.ringing = c /\ c \in waiting
                   /\ phone.ringing = NoCall /\ waiting' = waiting \ {c}
    BY <1>1, <2>2 DEF Ring, PhoneStates
  <2>3. CASE Answer
    <3> DEFINE p == [ringing |-> NoCall, active |-> TRUE]
    <3>1. p \in PhoneStates /\ PhoneBecomes(p) /\ p.ringing = NoCall /\ waiting' = waiting
      BY <2>3 DEF Answer, PhoneStates
    <3> QED BY <2>1, <3>1
  <2>4. CASE StopRinging
    <3> DEFINE p == [phone EXCEPT !.ringing = NoCall]
    <3>1. p \in PhoneStates /\ PhoneBecomes(p) /\ p.ringing = NoCall /\ waiting' = waiting
      BY <1>1, <2>4 DEF StopRinging, PhoneStates
    <3> QED BY <2>1, <3>1
  <2>5. CASE CallEnds
    <3> DEFINE p == [phone EXCEPT !.active = FALSE]
    <3>1. p \in PhoneStates /\ PhoneBecomes(p) /\ p.ringing = phone.ringing /\ waiting' = waiting
      BY <1>1, <2>5 DEF CallEnds, PhoneStates
    <3> QED BY <2>1, <3>1
  <2> QED BY <2>2, <2>3, <2>4, <2>5 DEF Phone
<1>3. /\ phone' \in PhoneStates /\ looper' \in Seq(StateEvent) /\ broadcasts' \in Nat
      /\ Fresh' /\ UpToDate' /\ InOrder' /\ Guarded' /\ FlagIsFor' /\ NoCallSlips'
  BY <1>1, <1>2, PhoneBecomesInv
<1>4. TypeOK'
  BY <1>1, <1>2, <1>3 DEF IInv, TypeOK, PhoneStates
<1>5. TogglesOK' /\ OneThreadPerCall'
  BY <1>1 DEF IInv, TogglesOK, OneThreadPerCall
<1> QED BY <1>3, <1>4, <1>5 DEF IInv

LEMMA OnReceiveInv == ASSUME IInv, OnReceive PROVE IInv'
<1>1. /\ UNCHANGED <<phone, waiting, processingRingingCall, starts, prefs, ringer, airplane,
                     worker, deaths>>
      /\ broadcasts \in Nat /\ broadcasts > 0 /\ broadcasts' = broadcasts - 1
      /\ phone \in PhoneStates /\ waiting \subseteq Calls /\ NoCall \notin Calls
      /\ looper \in Seq(StateEvent) /\ listeners \in 0 .. MaxListeners /\ MaxListeners \in Nat
  BY NoCallIsNoCall, BoundsAreNat DEF OnReceive, deviceVars, IInv, TypeOK, PhoneStates
<1>2. TogglesOK' /\ OneThreadPerCall'
  BY <1>1 DEF IInv, TogglesOK, OneThreadPerCall
<1>3. phone.ringing \notin waiting /\ waiting' = waiting \ {phone.ringing}
  BY <1>1 DEF IInv, Fresh
<1>4. CASE listeners < MaxListeners
  <2>1. listeners' = listeners + 1 /\ looper' = Append(looper, Event(phone))
    BY <1>1, <1>4 DEF OnReceive
  <2>2. Event(phone) \in StateEvent
    BY <1>1, EventFacts
  <2>3. /\ looper' \in Seq(StateEvent) /\ Len(looper') = Len(looper) + 1
        /\ \A i \in 1 .. Len(looper) : looper'[i] = looper[i]
        /\ \A i \in Len(looper) + 1 .. Len(looper) + 1 : looper'[i] = Event(phone)
    BY <1>1, <2>1, <2>2
  <2>4. listeners' \in 0 .. MaxListeners /\ listeners' \in Nat /\ listeners' > 0
    BY <1>1, <1>4, <2>1
  <2>5. Fresh' /\ UpToDate' /\ InOrder' /\ Guarded' /\ FlagIsFor' /\ NoCallSlips'
    <3> DEFINE one == 1
    <3>1. /\ phone \in PhoneStates /\ phone' = phone /\ one \in Nat /\ one > 0
          /\ Len(looper') = Len(looper) + one
          /\ \A i \in Len(looper) + 1 .. Len(looper) + one : looper'[i] = Event(phone)
          /\ processingRingingCall' = processingRingingCall /\ starts' = starts /\ prefs' = prefs
          /\ \A c \in Calls : worker'[c].pc = "none" => worker[c].pc = "none"
      BY <1>1, <2>3
    <3> HIDE DEF one
    <3> QED BY <1>3, <2>3, <2>4, <3>1, LongerQueue
  <2>6. TypeOK'
    BY <1>1, <2>3, <2>4 DEF IInv, TypeOK
  <2> QED BY <1>2, <2>5, <2>6 DEF IInv
<1>5. CASE listeners = MaxListeners
  <2>1. listeners' = listeners /\ looper' = looper
    BY <1>1, <1>5 DEF OnReceive
  <2>2. Fresh' /\ UpToDate' /\ InOrder' /\ Guarded' /\ FlagIsFor' /\ NoCallSlips'
    BY <1>1, <2>1, SameQueue
  <2>3. TypeOK'
    BY <1>1, <2>1 DEF IInv, TypeOK
  <2> QED BY <1>2, <2>2, <2>3 DEF IInv
<1> QED BY <1>1, <1>4, <1>5

\* A listener takes the first callback of the queue.
LEMMA OnCallStateChangedInv == ASSUME IInv, OnCallStateChanged PROVE IInv'
<1> DEFINE e == Head(looper)
           m == Len(looper)
           new == e.state = "ringing" /\ prefs.isAppEnabled /\ ~processingRingingCall
<1>1. /\ UNCHANGED <<phone, waiting, broadcasts, listeners, prefs, ringer, airplane, deaths>>
      /\ looper # <<>> /\ looper' = Tail(looper)
      /\ processingRingingCall' = (new \/ (e.state = "ringing" /\ processingRingingCall))
      /\ worker' = IF new THEN [worker EXCEPT ![e.call] = [NoWorker EXCEPT !.pc = "queued"]]
                          ELSE worker
      /\ starts' = IF new THEN [starts EXCEPT ![e.call] = @ + 1] ELSE starts
  BY DEF OnCallStateChanged, phoneVars, deviceVars
<1>2. /\ phone \in PhoneStates /\ looper \in Seq(StateEvent) /\ m \in Nat \ {0}
      /\ waiting \subseteq Calls /\ NoCall \notin Calls
      /\ starts \in [Calls -> Nat] /\ worker \in [Calls -> Worker]
      /\ processingRingingCall \in BOOLEAN /\ prefs.isAppEnabled \in BOOLEAN
  BY <1>1, NoCallIsNoCall DEF IInv, TypeOK, PhoneStates, Preferences
<1>3. /\ looper' \in Seq(StateEvent) /\ Len(looper') = m - 1
      /\ \A i \in 1 .. m - 1 : looper'[i] = looper[i + 1]
      /\ e = looper[1] /\ e \in StateEvent /\ 1 \in 1 .. m
      /\ looper' = <<>> <=> m = 1
  <2>1. /\ looper' \in Seq(StateEvent) /\ Len(looper') = m - 1
        /\ \A i \in 1 .. m - 1 : looper'[i] = looper[i + 1]
    BY <1>1, <1>2
  <2>2. e = looper[1] /\ 1 \in 1 .. m
    BY <1>1, <1>2
  <2>3. e \in StateEvent
    BY <1>2, <2>2
  <2>4. looper' = <<>> <=> m = 1
    BY <1>2, <2>1
  <2> QED BY <2>1, <2>2, <2>3, <2>4
<1>4. /\ e.call \in Calls \cup {NoCall}
      /\ e.state = "ringing" <=> e.call # NoCall
      /\ new => e.call \in Calls
      /\ e.call \notin waiting
  BY <1>2, <1>3 DEF IInv, InOrder, Fresh, StateEvent
<1>5. m = 1 => phone.ringing = e.call
  BY <1>1, <1>2, <1>3, EventFacts DEF IInv, UpToDate
<1>6. /\ [NoWorker EXCEPT !.pc = "queued"] \in Worker
      /\ [NoWorker EXCEPT !.pc = "queued"].pc = "queued"
      /\ [NoWorker EXCEPT !.pc = "queued"].toggles = 0
  <2>1. NoWorker \in Worker /\ NoWorker.toggles = 0
    BY DEF NoWorker, Worker, RingerModes
  <2> QED BY <2>1 DEF Worker
<1>7. /\ worker' \in [Calls -> Worker] /\ starts' \in [Calls -> Nat]
      /\ processingRingingCall' \in BOOLEAN
      /\ \A c \in Calls : worker'[c].pc = "none" => worker[c].pc = "none"
      /\ \A c \in Calls : \/ worker'[c] = worker[c]
                          \/ worker'[c].pc = "queued" /\ worker'[c].toggles = 0
      /\ new => worker'[e.call].pc = "queued"
      /\ \A c \in Calls : \/ starts'[c] = starts[c]
                          \/ new /\ c = e.call /\ starts'[c] = starts[c] + 1
  <2> DEFINE w == [NoWorker EXCEPT !.pc = "queued"]
  <2>1. w \in Worker /\ w.pc = "queued" /\ w.toggles = 0
    BY <1>6
  <2>2. worker' = IF new THEN [worker EXCEPT ![e.call] = w] ELSE worker
    BY <1>1
  <2> HIDE DEF w
  <2>3. /\ worker' \in [Calls -> Worker]
        /\ new => worker'[e.call].pc = "queued"
        /\ \A c \in Calls : \/ worker'[c] = worker[c]
                            \/ worker'[c].pc = "queued" /\ worker'[c].toggles = 0
    BY <1>2, <1>4, <2>1, <2>2
  <2>4. \A c \in Calls : worker'[c].pc = "none" => worker[c].pc = "none"
    BY <2>3
  <2>5. /\ starts' \in [Calls -> Nat]
        /\ \A c \in Calls : \/ starts'[c] = starts[c]
                            \/ new /\ c = e.call /\ starts'[c] = starts[c] + 1
    BY <1>1, <1>2, <1>4
  <2>6. processingRingingCall' \in BOOLEAN
    BY <1>1, <1>2
  <2> QED BY <2>3, <2>4, <2>5, <2>6
<1> HIDE DEF e, m
<1>8. TypeOK'
  BY <1>1, <1>3, <1>7 DEF IInv, TypeOK
<1>9. TogglesOK'
  BY <1>7 DEF IInv, TogglesOK
<1>10. Fresh'
  <2>1. \A i \in 1 .. m - 1 : looper'[i].call \notin waiting
    BY <1>2, <1>3 DEF IInv, Fresh, m
  <2> QED BY <1>1, <1>2, <1>3, <1>4, <1>7, <2>1 DEF IInv, Fresh
<1>11. UpToDate'
  <2>1. SUFFICES ASSUME m > 1 PROVE looper'[m - 1] = Event(phone)
    BY <1>1, <1>2, <1>3 DEF IInv, UpToDate, Event
  <2> QED BY <1>1, <1>2, <1>3, <2>1 DEF IInv, UpToDate, m
<1>12. InOrder'
  <2>1. \A i \in 1 .. m - 1 : i + 1 \in 1 .. m /\ looper'[i] = looper[i + 1]
    BY <1>2, <1>3
  <2>2. \A i \in 1 .. m - 1 : looper'[i].state = "ringing" <=> looper'[i].call # NoCall
    BY <2>1 DEF IInv, InOrder, m
  <2>3. ASSUME NEW i \in 1 .. m - 1, NEW j \in 1 .. m - 1, j = i + 1,
               looper'[i].call # looper'[j].call
        PROVE  looper'[i].call = NoCall \/ looper'[j].call = NoCall
    BY <1>2, <2>1, <2>3 DEF IInv, InOrder, m
  <2>4. ASSUME NEW i \in 1 .. m - 1, NEW j \in 1 .. m - 1, NEW k \in 1 .. m - 1,
               i <= k, k <= j, looper'[i].call = looper'[j].call, looper'[i].call # NoCall
        PROVE  looper'[k].call = looper'[i].call
    <3>1. i + 1 <= k + 1 /\ k + 1 <= j + 1
      BY <1>2, <2>4
    <3> QED BY <2>1, <2>4, <3>1 DEF IInv, InOrder, m
  <2> QED BY <1>3, <2>2, <2>3, <2>4 DEF InOrder
\* A callback of a call that has its thread finds the flag set.
<1>13. ASSUME NEW c \in Calls, starts[c] # 0, NEW j \in 1 .. m, looper[j].call = c
       PROVE  processingRingingCall /\ e.call = c
  <2>1. processingRingingCall /\ \A k \in 1 .. j : looper[k].call = c
    BY <1>13 DEF IInv, Guarded, m
  <2> QED BY <1>2, <1>3, <1>13, <2>1
<1>14. OneThreadPerCall'
  BY <1>2, <1>3, <1>7, <1>13 DEF IInv, OneThreadPerCall
<1>15. Guarded'
  <2>1. SUFFICES ASSUME NEW c \in Calls, starts'[c] # 0
                 PROVE  /\ m = 1 /\ phone.ringing = c => processingRingingCall'
                        /\ \A j \in 1 .. m - 1 : looper'[j].call = c =>
                             processingRingingCall' /\ \A k \in 1 .. j : looper'[k].call = c
    BY <1>1, <1>3 DEF Guarded
  <2>2. ASSUME NEW j \in 1 .. m, looper[j].call = c PROVE e.call = c /\ processingRingingCall'
    <3>1. CASE starts[c] # 0
      BY <1>1, <1>2, <1>3, <1>4, <1>13, <2>2, <3>1
    <3>2. CASE starts[c] = 0
      BY <1>1, <1>7, <2>1, <3>2
    <3> QED BY <1>2, <3>1, <3>2
  <2>3. m = 1 /\ phone.ringing = c => processingRingingCall'
    BY <1>2, <1>3, <1>5, <2>2
  <2>4. ASSUME NEW j \in 1 .. m - 1, looper'[j].call = c, NEW k \in 1 .. j
        PROVE  looper'[k].call = c
    <3>1. /\ j + 1 \in 1 .. m /\ looper[j + 1].call = c
          /\ k + 1 \in 1 .. m /\ looper'[k] = looper[k + 1] /\ k + 1 <= j + 1 /\ 1 <= k + 1
      BY <1>2, <1>3, <2>4
    <3>2. looper[1].call = c
      BY <1>3, <2>2, <3>1
    <3>3. c # NoCall
      BY <1>2
    <3> QED BY <1>3, <3>1, <3>2, <3>3 DEF IInv, InOrder, m
  <2>5. ASSUME NEW j \in 1 .. m - 1, looper'[j].call = c PROVE processingRingingCall'
    BY <1>2, <1>3, <2>2, <2>5
  <2> QED BY <2>3, <2>4, <2>5
\* The flag is set only by a callback of a call that now has its thread.
<1>16. processingRingingCall' => /\ prefs.isAppEnabled /\ listeners > 0
                                 /\ e.call \in Calls /\ worker'[e.call].pc # "none"
  <2>1. CASE new
    BY <1>1, <1>3, <1>4, <1>7, <2>1 DEF IInv, UpToDate
  <2>2. CASE ~new /\ processingRingingCall' 
    <3>1. processingRingingCall /\ e.call # NoCall /\ e.call \in Calls
      BY <1>1, <1>4, <2>2
    <3>2. prefs.isAppEnabled /\ listeners > 0 /\ worker[e.call].pc # "none"
      BY <1>1, <1>3, <3>1 DEF IInv, FlagIsFor, At
    <3> QED BY <1>7, <3>1, <3>2
  <2> QED BY <2>1, <2>2
<1>17. FlagIsFor'
  <2>1. SUFFICES ASSUME processingRingingCall'
                 PROVE  /\ m = 1 => phone.ringing # NoCall /\ worker'[phone.ringing].pc # "none"
                        /\ m # 1 /\ looper'[1].call # NoCall
                             => worker'[looper'[1].call].pc # "none"
    BY <1>1, <1>3, <1>16 DEF FlagIsFor, At
  <2>2. m = 1 => phone.ringing # NoCall /\ worker'[phone.ringing].pc # "none"
    BY <1>2, <1>5, <1>16, <2>1
  <2>3. ASSUME m # 1, looper'[1].call # NoCall PROVE looper'[1].call = e.call
    <3>1. 2 \in 1 .. m /\ looper'[1] = looper[2] /\ 2 = 1 + 1
      BY <1>2, <1>3, <2>3
    <3>2. looper[1].call # looper[2].call
            => looper[1].call = NoCall \/ looper[2].call = NoCall
      BY <1>3, <3>1 DEF IInv, InOrder, m
    <3>3. e.call # NoCall
      BY <1>2, <1>16, <2>1
    <3> QED BY <1>3, <2>3, <3>1, <3>2, <3>3
  <2> QED BY <1>16, <2>1, <2>2, <2>3
<1>18. NoCallSlips'
  <2>1. SUFFICES ASSUME prefs.isAppEnabled, m = 1, phone.ringing # NoCall
                 PROVE  worker'[phone.ringing].pc # "none"
    BY <1>1, <1>3 DEF NoCallSlips, At
  <2>2. e.state = "ringing" /\ phone.ringing = e.call
    BY <1>4, <1>5, <2>1
  <2>3. processingRingingCall'
    BY <1>1, <1>2, <2>1, <2>2
  <2> QED BY <1>16, <2>2, <2>3
<1> QED BY <1>8, <1>9, <1>10, <1>11, <1>12, <1>14, <1>15, <1>17, <1>18 DEF IInv

\* Thread c goes on, and toggles airplane mode twice at most.
Moves(c) ==
    \E w \in Worker :
        /\ worker' = [worker EXCEPT ![c] = w] /\ w.pc # "none"
        /\ w.pc \in {"queued", "started", "endCall", "isRinging"} => w.toggles = 0
        /\ w.pc \in {"toggle", "put"} => w.toggles <= 1

\* A thread leads to no callback, but for the call it ends.
LEMMA WorkInv == ASSUME IInv, NEW c \in Calls, Work(c) PROVE IInv'
<1>1. /\ UNCHANGED <<listeners, processingRingingCall, starts, prefs, deaths>>
      /\ phone \in PhoneStates /\ waiting \subseteq Calls /\ NoCall \notin Calls
      /\ looper \in Seq(StateEvent) /\ broadcasts \in Nat
      /\ worker \in [Calls -> Worker] /\ worker[c] \in Worker
      /\ ringer \in RingerModes /\ airplane \in BOOLEAN
  BY NoCallIsNoCall DEF Work, IInv, TypeOK, PhoneStates
\* What the thread does to itself.
<1>2. Moves(c)
  <2> DEFINE old == worker[c]
  <2>1. /\ old \in Worker /\ old.toggles \in 0 .. 2 /\ old.oldMode \in RingerModes
        /\ old.pc \in {"queued", "started", "endCall", "isRinging"} => old.toggles = 0
        /\ old.pc \in {"toggle", "put"} => old.toggles <= 1
    BY <1>1 DEF IInv, TogglesOK, Worker
  <2>2. ASSUME NEW pc \in {"started", "endCall", "isRinging", "toggle", "put", "save", "mute",
                           "wait", "restore", "log", "done"},
               Goto(c, pc),
               pc \in {"started", "endCall", "isRinging", "toggle"} => old.toggles = 0,
               pc # "put"
        PROVE  Moves(c)
    <3> DEFINE w == [old EXCEPT !.pc = pc]
    <3>1. worker' = [worker EXCEPT ![c] = w]
      BY <2>2, <1>1 DEF Goto
    <3>2. w \in Worker /\ w.pc = pc /\ w.toggles = old.toggles
      BY <2>1, <2>2 DEF Worker
    <3> HIDE DEF w, old
    <3>3. pc # "none" /\ pc # "queued" /\ pc # "put"
      BY <2>2
    <3>4. pc \in {"queued", "started", "endCall", "isRinging", "toggle"} => w.toggles = 0
      BY <2>2, <3>2, <3>3
    <3>5. /\ w.pc # "none"
          /\ w.pc \in {"queued", "started", "endCall", "isRinging"} => w.toggles = 0
          /\ w.pc \in {"toggle", "put"} => w.toggles <= 1
      BY <3>2, <3>3, <3>4
    <3>6. w \in Worker
      BY <3>2
    <3> QED BY <3>1, <3>5, <3>6 DEF Moves
  <2>3. CASE OnStartCommand(c)
    BY <2>1, <2>2, <2>3, <1>1 DEF OnStartCommand, At, deviceVars
  <2>4. CASE ProcessIncomingCall(c)
    BY <2>1, <2>2, <2>4, <1>1 DEF ProcessIncomingCall, At, deviceVars
  <2>5. CASE EndCall(c)
    BY <2>1, <2>2, <2>5, <1>1 DEF EndCall, At, deviceVars
  <2>6. CASE IsRinging(c)
    BY <2>1, <2>2, <2>6, <1>1 DEF IsRinging, At, deviceVars
  <2>7. CASE ToggleAirplaneMode(c)
    <3> DEFINE w == [old EXCEPT !.pc = "put", !.isEnabled = airplane]
    <3>1. worker' = [worker EXCEPT ![c] = w] /\ old.pc = "toggle"
      BY <2>7, <1>1 DEF ToggleAirplaneMode, At
    <3>2. w \in Worker /\ w.pc = "put" /\ w.toggles = old.toggles
      BY <1>1, <2>1 DEF Worker
    <3> HIDE DEF w, old
    <3> QED BY <2>1, <3>1, <3>2 DEF Moves
  <2>8. CASE PutAirplaneMode(c)
    <3> DEFINE pc == IF old.toggles = 0 THEN "toggle" ELSE "log"
               w == [old EXCEPT !.toggles = old.toggles + 1, !.pc = pc]
    <3>1. worker' = [worker EXCEPT ![c] = w] /\ old.pc = "put"
      BY <2>8, <1>1 DEF PutAirplaneMode, At
    <3>2. old.toggles + 1 \in 0 .. 2 /\ pc \in {"toggle", "log"}
      BY <2>1, <3>1
    <3> HIDE DEF pc
    <3>3. w \in Worker /\ w.pc = pc /\ w.toggles = old.toggles + 1
      BY <2>1, <3>2 DEF Worker
    <3>4. pc = "toggle" => old.toggles = 0
      BY DEF pc
    <3> HIDE DEF w, old
    <3>5. w.pc # "none" /\ w.pc \notin {"queued", "started", "endCall", "isRinging", "put"}
      BY <3>2, <3>3
    <3>6. w.pc = "toggle" => w.toggles <= 1
      BY <3>3, <3>4
    <3> QED BY <3>1, <3>3, <3>5, <3>6 DEF Moves
  <2>9. CASE SaveRinger(c)
    <3> DEFINE w == [old EXCEPT !.pc = "mute", !.oldMode = ringer]
    <3>1. worker' = [worker EXCEPT ![c] = w]
      BY <2>9, <1>1 DEF SaveRinger
    <3>2. w \in Worker /\ w.pc = "mute"
      BY <1>1, <2>1 DEF Worker
    <3> HIDE DEF w, old
    <3> QED BY <3>1, <3>2 DEF Moves
  <2>10. CASE MuteRinger(c)
    BY <2>1, <2>2, <2>10, <1>1 DEF MuteRinger, At
  <2>11. CASE WaitForRinging(c)
    BY <2>1, <2>2, <2>11, <1>1 DEF WaitForRinging, At
  <2>12. CASE RestoreRinger(c)
    BY <2>1, <2>2, <2>12, <1>1 DEF RestoreRinger, At
  <2>13. CASE InsertBlockedCallLog(c)
    BY <2>1, <2>2, <2>13, <1>1 DEF InsertBlockedCallLog, At
  <2> QED BY <2>3, <2>4, <2>5, <2>6, <2>7, <2>8, <2>9, <2>10, <2>11, <2>12, <2>13 DEF Work
<1>3. /\ worker' \in [Calls -> Worker] /\ TogglesOK'
      /\ \A d \in Calls : worker'[d].pc = "none" => worker[d].pc = "none"
  BY <1>1, <1>2 DEF IInv, TogglesOK, Moves
<1>4. ringer' \in RingerModes /\ airplane' \in BOOLEAN
  BY <1>1 DEF Work, OnStartCommand, ProcessIncomingCall, EndCall, IsRinging,
     ToggleAirplaneMode, PutAirplaneMode, SaveRinger, MuteRinger, WaitForRinging,
     RestoreRinger, InsertBlockedCallLog, deviceVars, RingerModes, Worker
\* What it does to the phone, and so to the queue.
<1>5. /\ phone' \in PhoneStates /\ looper' \in Seq(StateEvent) /\ broadcasts' \in Nat
      /\ waiting' = waiting
      /\ Fresh' /\ UpToDate' /\ InOrder' /\ Guarded' /\ FlagIsFor' /\ NoCallSlips'
  <2>1. CASE UNCHANGED <<phone, waiting, broadcasts, looper>>
    <3>1. Event(phone') = Event(phone) /\ phone' \in PhoneStates /\ phone'.ringing = phone.ringing
      BY <1>1, <2>1
    <3> QED BY <1>1, <1>3, <2>1, <3>1, SameQueue
  <2>2. ASSUME NEW p \in PhoneStates, PhoneBecomes(p), UNCHANGED waiting,
               p.ringing = phone.ringing \/ p.ringing = NoCall
        PROVE  /\ phone' \in PhoneStates /\ looper' \in Seq(StateEvent) /\ broadcasts' \in Nat
               /\ Fresh' /\ UpToDate' /\ InOrder' /\ Guarded' /\ FlagIsFor' /\ NoCallSlips'
    <3>1. waiting' = waiting \ {p.ringing}
      BY <1>1, <2>2 DEF IInv, Fresh
    <3> QED BY <1>1, <1>3, <2>2, <3>1, PhoneBecomesInv
  <2>3. CASE EndCall(c)
    <3> DEFINE p == IF phone.ringing # NoCall THEN [phone EXCEPT !.ringing = NoCall]
                                              ELSE [phone EXCEPT !.active = FALSE]
    <3>1. p \in PhoneStates /\ (p.ringing = phone.ringing \/ p.ringing = NoCall)
      BY <1>1 DEF PhoneStates
    <3>2. CASE PhoneBecomes(p)
      <4>1. UNCHANGED waiting BY <2>3 DEF EndCall
      <4> HIDE DEF p
      <4> QED BY <3>1, <3>2, <4>1, <2>2
    <3>3. CASE UNCHANGED <<phone, looper, broadcasts>>
      BY <2>1, <2>3, <3>3 DEF EndCall
    <3> QED BY <2>3, <3>2, <3>3 DEF EndCall
  <2> QED BY <2>1, <2>3 DEF Work, OnStartCommand, ProcessIncomingCall, IsRinging,
       ToggleAirplaneMode, PutAirplaneMode, SaveRinger, MuteRinger, WaitForRinging,
       RestoreRinger, InsertBlockedCallLog, phoneVars
<1>6. TypeOK'
  BY <1>1, <1>3, <1>4, <1>5 DEF IInv, TypeOK, PhoneStates
<1>7. OneThreadPerCall'
  BY <1>1 DEF IInv, OneThreadPerCall
<1> QED BY <1>3, <1>5, <1>6, <1>7 DEF IInv

\* No listener, no callback, no thread, no flag is left of a process.
LEMMA ProcessDeathInv == ASSUME IInv, ProcessDeath PROVE IInv'
<1>1. /\ UNCHANGED <<phone, waiting, broadcasts, prefs, ringer, airplane>>
      /\ listeners' = 0 /\ looper' = <<>> /\ processingRingingCall' = FALSE
      /\ worker' = [c \in Calls |-> NoWorker] /\ starts' = [c \in Calls |-> 0]
      /\ deaths < MaxDeaths /\ deaths' = deaths + 1
  BY DEF ProcessDeath, phoneVars, deviceVars
<1>2. NoWorker \in Worker /\ NoWorker.pc = "none"
  BY DEF NoWorker, Worker, RingerModes
<1>3. looper' \in Seq(StateEvent) /\ Len(looper') = 0
  BY <1>1
<1>4. TypeOK'
  <2>1. worker' \in [Calls -> Worker] /\ starts' \in [Calls -> Nat]
    BY <1>1, <1>2
  <2>2. listeners' \in 0 .. MaxListeners /\ deaths' \in 0 .. MaxDeaths
    BY <1>1, BoundsAreNat DEF IInv, TypeOK
  <2>3. looper' \in Seq(StateEvent) /\ processingRingingCall' \in BOOLEAN
    BY <1>1, <1>3
  <2> QED BY <1>1, <2>1, <2>2, <2>3 DEF IInv, TypeOK
<1>5. TogglesOK'
  BY <1>1, <1>2 DEF TogglesOK
<1>6. Fresh' /\ UpToDate' /\ InOrder' /\ Guarded' /\ FlagIsFor' /\ OneThreadPerCall' /\ NoCallSlips'
  BY <1>1, <1>3, <1>4
     DEF IInv, TypeOK, Fresh, UpToDate, InOrder, Guarded, FlagIsFor, OneThreadPerCall, NoCallSlips
<1> QED BY <1>4, <1>5, <1>6 DEF IInv

LEMMA InitInv == Init => IInv
<1> SUFFICES ASSUME Init PROVE IInv
  OBVIOUS
<1>1. NoWorker \in Worker /\ NoWorker.pc = "none"
  BY DEF NoWorker, Worker, RingerModes
<1>2. looper \in Seq(StateEvent) /\ Len(looper) = 0
  BY DEF Init
<1>3. TypeOK
  <2>1. worker \in [Calls -> Worker] /\ starts \in [Calls -> Nat]
    BY <1>1 DEF Init
  <2>2. listeners \in 0 .. MaxListeners /\ deaths \in 0 .. MaxDeaths
    BY BoundsAreNat DEF Init
  <2>3. phone \in [ringing : Calls \cup {NoCall}, active : BOOLEAN]
    BY DEF Init
  <2>4. looper \in Seq(StateEvent)
    BY <1>2
  <2> QED BY <2>1, <2>2, <2>3, <2>4 DEF Init, TypeOK, RingerModes
<1>4. TogglesOK
  BY <1>1 DEF Init, TogglesOK
<1>5. Fresh /\ UpToDate /\ InOrder /\ Guarded /\ FlagIsFor /\ OneThreadPerCall /\ NoCallSlips
  BY <1>2, NoCallIsNoCall
     DEF Init, Fresh, UpToDate, InOrder, Guarded, FlagIsFor, OneThreadPerCall, NoCallSlips
<1> QED BY <1>3, <1>4, <1>5 DEF IInv

LEMMA NextInv == IInv /\ [Next]_vars => IInv'
<1> SUFFICES ASSUME IInv, [Next]_vars PROVE IInv'
  OBVIOUS
<1>1. CASE UNCHANGED vars
  <2>1. UNCHANGED <<phone, waiting, broadcasts, listeners, looper, processingRingingCall,
                    starts, prefs, ringer, airplane, worker, deaths>>
    BY <1>1 DEF vars, phoneVars, appVars, deviceVars
  <2>2. TypeOK' BY <2>1 DEF IInv, TypeOK
  <2>3. TogglesOK' /\ Fresh' BY <2>1 DEF IInv, TogglesOK, Fresh
  <2>4. UpToDate' BY <2>1 DEF IInv, UpToDate, Event
  <2>5. InOrder' BY <2>1 DEF IInv, InOrder
  <2>6. Guarded' BY <2>1 DEF IInv, Guarded
  <2>7. FlagIsFor' BY <2>1 DEF IInv, FlagIsFor, At
  <2>8. OneThreadPerCall' /\ NoCallSlips' BY <2>1 DEF IInv, OneThreadPerCall, NoCallSlips, At
  <2> QED BY <2>2, <2>3, <2>4, <2>5, <2>6, <2>7, <2>8 DEF IInv
<1> QED BY <1>1, PhoneInv, OnReceiveInv, OnCallStateChangedInv, WorkInv, ProcessDeathInv DEF Next

-----------------------------------------------------------------------------
(* Theorems                                                                *)

\* The inductive invariant of the blocker: the queue of callbacks tells the calls
\* one after the other and ends with the state of the phone, and the flag speaks
\* of the call that is reported next.
THEOREM Invariance == Spec => []IInv
<1> QED BY InitInv, NextInv, PTL DEF Spec

\* The state of phone, application and threads keeps its types.
THEOREM TypeCorrect == Spec => []TypeOK
<1>1. IInv => TypeOK BY DEF IInv
<1> QED BY <1>1, Invariance, PTL

\* processingRingingCall lets one thread start for a call, however many
\* listeners PhoneStateReceiver has registered.
THEOREM OneThreadPerCallHolds == Spec => []OneThreadPerCall
<1>1. IInv => OneThreadPerCall BY DEF IInv
<1> QED BY <1>1, Invariance, PTL

\* processingRingingCall is reset in time: no call is missed because the flag was
\* left over from another one.
THEOREM NoCallSlipsHolds == Spec => []NoCallSlips
<1>1. IInv => NoCallSlips BY DEF IInv
<1> QED BY <1>1, Invariance, PTL
=============================================================================
