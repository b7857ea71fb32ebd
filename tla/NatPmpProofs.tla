---------------------------- MODULE NatPmpProofs ----------------------------
(***************************************************************************)
(* Proofs about NatPmp: the address and the port the app shows, for any     *)
(* number of tries and any lateness.  The app never compares the type of an *)
(* answer with its request; what saves it is that it never has more than    *)
(* one message on its way.                                                  *)
(***************************************************************************)
EXTENDS NatPmp, NaturalLemmas, TLAPS

-----------------------------------------------------------------------------
(* The inductive invariant                                                 *)

One(m) == [e \in {m} |-> 1]

\* An answer to what the app asks at present, or an error; the port is granted.
Expected(a) == a \in {request, "error", "refused"} /\ (a = "map" => granted)

\* Nothing is on its way, or one request or answer is, or has arrived.
OneInFlight ==
    \/ network = EmptyBag /\ inbox = <<>>
    \/ /\ at \in {"select", "read"} /\ inbox = <<>>
       /\ \/ network = One(ToGateway(request))
          \/ \E a \in Answers : Expected(a) /\ network = One(ToClient(a))
    \/ /\ at \in {"select", "read"} /\ network = EmptyBag
       /\ \E a \in Answers : Expected(a) /\ inbox = <<a>>

Answered ==
    answers = IF request = "addr" THEN [r \in Requests |-> "none"]
              ELSE [r \in Requests |-> IF r = "addr" THEN "addr" ELSE "none"]

IInv ==
    /\ at \in {"send", "select", "read", "done"} /\ request \in Requests
    /\ caller = "app" /\ at # "done" => result = "none" /\ OneInFlight /\ Answered
    /\ UrlIsMapped

-----------------------------------------------------------------------------
(* Bags with one message                                                   *)

LEMMA EmptyFacts ==
    /\ \A m : BagAdd(EmptyBag, m) = One(m)
    /\ \A m : ~BagIn(m, EmptyBag)
    /\ BagToSet(EmptyBag) = {}
  BY DEF EmptyBag, SetToBag, BagAdd, BagIn, BagToSet, One

LEMMA OneFacts ==
    ASSUME NEW m
    PROVE  /\ BagRemove(One(m), m) = EmptyBag
           /\ BagToSet(One(m)) = {m}
           /\ \A k : BagIn(k, One(m)) => k = m
<1>1. DOMAIN One(m) = {m} /\ One(m)[m] = 1
  BY DEF One
<1>2. BagRemove(One(m), m) = [e \in DOMAIN One(m) \ {m} |-> One(m)[e]]
  BY <1>1 DEF BagRemove
<1>3. [e \in DOMAIN One(m) \ {m} |-> One(m)[e]] = EmptyBag
  BY <1>1 DEF EmptyBag, SetToBag
<1> QED BY <1>1, <1>2, <1>3 DEF BagToSet, BagIn

LEMMA MessageFacts ==
    /\ \A r, q \in Requests : ToGateway(r) = ToGateway(q) => r = q
    /\ \A a, b \in Answers : ToClient(a) = ToClient(b) => a = b
    /\ \A r \in Requests, a \in Answers : ToGateway(r) # ToClient(a)
  BY DEF ToGateway, ToClient

-----------------------------------------------------------------------------
(* The steps                                                               *)

LEMMA InitInv == Init => IInv
  BY DEF Init, IInv, OneInFlight, Answered, UrlIsMapped, Requests

\* A caller other than the app, and an app that is done, has nothing to lose:
\* what is granted stays granted.
LEMMA DoneInv ==
    ASSUME IInv, [Next]_natVars, caller # "app" \/ at = "done"
    PROVE  IInv'
<1>1. caller' = caller
  BY DEF Next, Client, SendRequest, Select, TakeAnswer, ReadNothing, Retry, Tick, Gateway,
     Deliver, Lose, natVars, clientVars
<1>2. at' \in {"send", "select", "read", "done"} /\ request' \in Requests
  BY DEF Next, Client, SendRequest, Select, TakeAnswer, ReadNothing, Retry, Tick, Gateway,
     Deliver, Lose, natVars, clientVars, IInv, Return, TryAgain, Requests
<1>3. CASE caller # "app"
  BY <1>1, <1>2, <1>3 DEF IInv, UrlIsMapped
<1>4. CASE at = "done"
  <2>1. [Tick \/ Gateway \/ Deliver \/ Lose]_natVars
    BY <1>4 DEF Next, Client, SendRequest, Select, TakeAnswer, ReadNothing, Retry
  <2>2. UNCHANGED <<at, result, answers>>
    BY <2>1 DEF Tick, Gateway, Deliver, Lose, natVars, clientVars
  <2>3. granted => granted'
    <3>1. CASE Gateway BY <3>1 DEF Gateway
    <3>2. CASE UNCHANGED granted BY <3>2
    <3> QED BY <2>1, <3>1, <3>2 DEF Tick, Deliver, Lose, natVars
  <2> QED BY <1>1, <1>2, <1>4, <2>2, <2>3 DEF IInv, UrlIsMapped
<1> QED BY <1>3, <1>4

\* A step that ends the app's call without a mapping.
LEMMA FailInv ==
    ASSUME IInv, caller' = "app", at' = "done", request' = request, result' # "mapped"
    PROVE  IInv'
  BY DEF IInv, UrlIsMapped

LEMMA SendRequestInv == ASSUME IInv, caller = "app", SendRequest PROVE IInv'
<1>1. /\ at = "send" /\ UNCHANGED <<caller, request, answers, inbox, granted>>
      /\ request \in Requests /\ result = "none" /\ Answered
      /\ network = EmptyBag /\ inbox = <<>>
  BY DEF SendRequest, IInv, OneInFlight
<1>2. CASE at' = "done"
  <2>1. result' # "mapped" BY <1>2 DEF SendRequest, Return
  <2> QED BY <1>1, <1>2, <2>1, FailInv
<1>3. CASE at' # "done"
  <2>1. at' = "select" /\ result' = "none"
    BY <1>1, <1>3 DEF SendRequest, Return
  <2>2. network' = EmptyBag \/ network' = One(ToGateway(request))
    BY <1>1, EmptyFacts DEF SendRequest, Sent, NotSent
  <2>3. OneInFlight'
    BY <1>1, <2>1, <2>2 DEF OneInFlight, ToGateway
  <2> QED BY <1>1, <2>1, <2>3 DEF IInv, Answered, UrlIsMapped
<1> QED BY <1>2, <1>3

\* select and an early look at an empty socket change nothing but where the app is.
LEMMA WaitInv ==
    ASSUME IInv, caller = "app", at # "done", Select \/ ReadNothing
    PROVE  IInv'
<1>1. /\ UNCHANGED <<caller, request, answers, network, inbox, granted>>
      /\ request \in Requests /\ result = "none" /\ Answered /\ OneInFlight
  BY DEF Select, ReadNothing, IInv
<1>2. CASE at' = "done"
  <2>1. result' # "mapped" BY <1>1, <1>2 DEF Select, ReadNothing, TryAgain, Return
  <2> QED BY <1>1, <1>2, <2>1, FailInv
<1>3. CASE at' # "done"
  <2>1. at' \in {"select", "read"} /\ result' = "none"
    BY <1>1, <1>3 DEF Select, ReadNothing, TryAgain, Return
  <2>2. OneInFlight'
    BY <1>1, <2>1 DEF OneInFlight, Expected, ToGateway, ToClient
  <2> QED BY <1>1, <2>1, <2>2 DEF IInv, Answered, UrlIsMapped
<1> QED BY <1>2, <1>3

\* The one answer there is fits the request that it ends.
LEMMA TakeAnswerInv == ASSUME IInv, caller = "app", TakeAnswer PROVE IInv'
<1>1. /\ at = "read" /\ inbox # <<>> /\ inbox' = Tail(inbox)
      /\ UNCHANGED <<caller, network, granted>>
      /\ request \in Requests /\ result = "none" /\ Answered /\ OneInFlight
  BY DEF TakeAnswer, IInv
<1>2. PICK a \in Answers : Expected(a) /\ inbox = <<a>> /\ network = EmptyBag
  BY <1>1 DEF OneInFlight
<1>3. Head(inbox) = a /\ inbox' = <<>>
  BY <1>1, <1>2
<1>4. CASE a \notin Requests
  <2>1. at' = "done" /\ request' = request /\ result' # "mapped"
    BY <1>3, <1>4 DEF TakeAnswer, Return
  <2> QED BY <1>1, <2>1, FailInv
<1>5. CASE a \in Requests
  <2>1. a = request /\ answers' = [answers EXCEPT ![request] = request]
    BY <1>2, <1>3, <1>5 DEF TakeAnswer, Expected, Requests
  <2>2. CASE request = "addr"
    <3>1. request' = "map" /\ at' = "send" /\ result' = result
      BY <1>3, <1>5, <2>2 DEF TakeAnswer
    <3>2. answers' = [r \in Requests |-> IF r = "addr" THEN "addr" ELSE "none"]
      BY <1>1, <2>1, <2>2 DEF Answered, Requests
    <3>3. OneInFlight' /\ Answered'
      BY <1>1, <1>2, <1>3, <3>1, <3>2 DEF OneInFlight, Answered
    <3> QED BY <1>1, <3>1, <3>3 DEF IInv, UrlIsMapped, Requests
  <2>3. CASE request = "map"
    <3>1. request' = request /\ at' = "done"
      BY <1>3, <1>5, <2>3 DEF TakeAnswer, Return
    <3>2. granted
      BY <1>2, <2>1, <2>3 DEF Expected
    <3>3. answers' = [r \in Requests |-> r]
      BY <1>1, <2>1, <2>3 DEF Answered, Requests
    <3> QED BY <1>1, <3>1, <3>2, <3>3 DEF IInv, UrlIsMapped
  <2> QED BY <1>1, <2>2, <2>3 DEF Requests
<1> QED BY <1>4, <1>5

\* A retry is the last thing the app does.
LEMMA RetryInv == ASSUME IInv, caller = "app", Retry PROVE IInv'
<1>1. /\ UNCHANGED <<caller, request>> /\ at' = "done" /\ result' # "mapped"
  BY DEF Retry, TryAgain, Return
<1> QED BY <1>1, FailInv

LEMMA TickInv == ASSUME IInv, caller = "app", Tick PROVE IInv'
<1>1. /\ UNCHANGED <<caller, at, request, answers, result, network, inbox, granted>>
  BY DEF Tick
<1> QED BY <1>1 DEF IInv, OneInFlight, Answered, UrlIsMapped, Expected, ToGateway, ToClient

\* The gateway turns the request into an answer to it.
LEMMA GatewayInv == ASSUME IInv, caller = "app", at # "done", Gateway PROVE IInv'
<1>1. PICK r \in Requests, a \in Answers :
         /\ BagIn(ToGateway(r), network) /\ a \in {r, "error", "refused"}
         /\ network' = BagAdd(BagRemove(network, ToGateway(r)), ToClient(a))
         /\ granted' = (granted \/ (r = "map" /\ a = r))
         /\ UNCHANGED <<caller, at, request, answers, result, inbox>>
  BY DEF Gateway, clientVars
<1>2. OneInFlight /\ Answered /\ result = "none" /\ request \in Requests
  BY DEF IInv
<1>3. /\ at \in {"select", "read"} /\ inbox = <<>>
      /\ network = One(ToGateway(request)) /\ r = request
  <2>1. network # EmptyBag BY <1>1, EmptyFacts
  <2>2. ASSUME NEW b \in Answers, network = One(ToClient(b)) PROVE FALSE
    BY <1>1, <2>2, OneFacts, MessageFacts
  <2>3. at \in {"select", "read"} /\ inbox = <<>> /\ network = One(ToGateway(request))
    BY <1>2, <2>1, <2>2 DEF OneInFlight
  <2> QED BY <1>1, <1>2, <2>3, OneFacts, MessageFacts
<1>4. network' = One(ToClient(a))
  BY <1>1, <1>3, OneFacts, EmptyFacts
<1>5. Expected(a)'
  BY <1>1, <1>3 DEF Expected
<1>6. OneInFlight'
  BY <1>1, <1>3, <1>4, <1>5 DEF OneInFlight, ToClient
<1> QED BY <1>1, <1>2, <1>6 DEF IInv, Answered, UrlIsMapped

LEMMA DeliverInv == ASSUME IInv, caller = "app", at # "done", Deliver PROVE IInv'
<1>1. PICK a \in Answers :
         /\ BagIn(ToClient(a), network)
         /\ network' = BagRemove(network, ToClient(a))
         /\ inbox' = Append(inbox, a)
         /\ UNCHANGED <<caller, at, request, answers, result, granted>>
  BY DEF Deliver, clientVars
<1>2. OneInFlight /\ Answered /\ result = "none" /\ request \in Requests
  BY DEF IInv
<1>3. /\ at \in {"select", "read"} /\ inbox = <<>> /\ Expected(a)
      /\ network = One(ToClient(a))
  <2>1. network # EmptyBag BY <1>1, EmptyFacts
  <2>2. network # One(ToGateway(request))
    BY <1>1, <1>2, OneFacts, MessageFacts
  <2>3. PICK b \in Answers : /\ at \in {"select", "read"} /\ inbox = <<>>
                            /\ Expected(b) /\ network = One(ToClient(b))
    BY <1>2, <2>1, <2>2 DEF OneInFlight
  <2>4. a = b
    BY <1>1, <2>3, OneFacts, MessageFacts
  <2> QED BY <2>3, <2>4
<1>4. network' = EmptyBag /\ inbox' = <<a>> /\ Expected(a)'
  BY <1>1, <1>3, OneFacts DEF Expected
<1>5. OneInFlight'
  BY <1>1, <1>3, <1>4 DEF OneInFlight
<1> QED BY <1>1, <1>2, <1>5 DEF IInv, Answered, UrlIsMapped

LEMMA LoseInv == ASSUME IInv, caller = "app", at # "done", Lose PROVE IInv'
<1>1. PICK m \in BagToSet(network) :
         /\ network' = BagRemove(network, m)
         /\ UNCHANGED <<caller, at, request, answers, result, inbox, granted>>
  BY DEF Lose, clientVars
<1>2. OneInFlight /\ Answered /\ result = "none" /\ request \in Requests
  BY DEF IInv
<1>3. inbox = <<>> /\ \E k : network = One(k)
  BY <1>1, <1>2, EmptyFacts DEF OneInFlight
<1>4. network' = EmptyBag
  BY <1>1, <1>3, OneFacts
<1>5. OneInFlight'
  BY <1>1, <1>3, <1>4 DEF OneInFlight
<1> QED BY <1>1, <1>2, <1>5 DEF IInv, Answered, UrlIsMapped

LEMMA NextInv == IInv /\ [Next]_natVars => IInv'
<1> SUFFICES ASSUME IInv, [Next]_natVars PROVE IInv'
  OBVIOUS
<1>1. CASE caller # "app" \/ at = "done"
  BY <1>1, DoneInv
<1>2. CASE caller = "app" /\ at # "done"
  <2>1. CASE UNCHANGED natVars
    BY <2>1 DEF natVars, clientVars, IInv, OneInFlight, Answered, UrlIsMapped, Expected,
       ToGateway, ToClient
  <2> QED BY <1>2, <2>1, SendRequestInv, WaitInv, TakeAnswerInv, RetryInv, TickInv,
       GatewayInv, DeliverInv, LoseInv DEF Next, Client
<1> QED BY <1>1, <1>2

-----------------------------------------------------------------------------
(* Theorems                                                                *)

\* nativeQueryInternet returns an address and a port that the gateway mapped, each
\* from the answer to its own request, although readnatpmpresponse compares
\* neither type with the request: whatever is lost or late.
THEOREM UrlIsMappedHolds == Spec => []UrlIsMapped
<1>1. IInv => UrlIsMapped BY DEF IInv
<1> QED BY <1>1, InitInv, NextInv, PTL DEF Spec

-----------------------------------------------------------------------------
(* Types and timers                                                        *)

\* What has passed and what is left of the retry schedule add up to the delays of
\* the sends so far; when waited saturates, to less.
Schedule ==
    /\ waited + untilRetry <= 2 ^ tryNumber - 1
    /\ waited < 2 ^ MaxTry => waited + untilRetry = 2 ^ tryNumber - 1

TimerInv ==
    /\ TypeOK
    /\ Schedule
    /\ at # "done" => result = "none"
    /\ at \in {"select", "read"} => tryNumber >= 1

ClientTypeOK ==
    /\ caller \in Callers
    /\ at \in {"send", "select", "read", "done"}
    /\ request \in Requests /\ pending \in BOOLEAN
    /\ answers \in [Requests -> Requests \cup {"none"}]
    /\ result \in {"none", "failed", "timeout", "mapped", "no gateway"}
    /\ granted \in BOOLEAN
    /\ at # "done" => result = "none"
    /\ at \in {"select", "read"} => tryNumber >= 1

NetTypeOK ==
    /\ IsABag(network) /\ BagToSet(network) \subseteq Messages
    /\ inbox \in Seq(Answers)

TimeOK ==
    /\ tryNumber \in 0 .. MaxTry
    /\ untilRetry \in -MaxDelay .. 2 ^ MaxTry
    /\ waited \in 0 .. 2 ^ MaxTry
    /\ Schedule

LEMMA TimerParts == TimerInv <=> ClientTypeOK /\ NetTypeOK /\ TimeOK
  BY DEF TimerInv, TypeOK, ClientTypeOK, NetTypeOK, TimeOK

LEMMA BagAddType ==
    ASSUME NEW B, IsABag(B), NEW m
    PROVE  IsABag(BagAdd(B, m)) /\ BagToSet(BagAdd(B, m)) = BagToSet(B) \cup {m}
<1>1. B \in [DOMAIN B -> {n \in Nat : n > 0}]
  BY DEF IsABag
<1>2. CASE m \in DOMAIN B
  <2>1. BagAdd(B, m) = [e \in DOMAIN B |-> IF e = m THEN B[e] + 1 ELSE B[e]]
    BY <1>2 DEF BagAdd
  <2>2. BagAdd(B, m) \in [DOMAIN B -> {n \in Nat : n > 0}]
    BY <1>1, <2>1
  <2> QED BY <1>2, <2>1, <2>2 DEF IsABag, BagToSet
<1>3. CASE m \notin DOMAIN B
  <2>1. BagAdd(B, m) = [e \in DOMAIN B \cup {m} |-> IF e = m THEN 1 ELSE B[e]]
    BY <1>3 DEF BagAdd
  <2>2. BagAdd(B, m) \in [DOMAIN B \cup {m} -> {n \in Nat : n > 0}]
    BY <1>1, <2>1
  <2> QED BY <1>3, <2>1, <2>2 DEF IsABag, BagToSet
<1> QED BY <1>2, <1>3

LEMMA BagRemoveType ==
    ASSUME NEW B, IsABag(B), NEW m
    PROVE  IsABag(BagRemove(B, m)) /\ BagToSet(BagRemove(B, m)) \subseteq BagToSet(B)
<1>1. B \in [DOMAIN B -> {n \in Nat : n > 0}]
  BY DEF IsABag
<1>2. CASE m \in DOMAIN B /\ B[m] = 1
  <2>1. BagRemove(B, m) = [e \in DOMAIN B \ {m} |-> B[e]]
    BY <1>2 DEF BagRemove
  <2>2. BagRemove(B, m) \in [DOMAIN B \ {m} -> {n \in Nat : n > 0}]
    BY <1>1, <2>1
  <2> QED BY <2>1, <2>2 DEF IsABag, BagToSet
<1>3. CASE m \in DOMAIN B /\ B[m] # 1
  <2>1. BagRemove(B, m) = [e \in DOMAIN B |-> IF e = m THEN B[e] - 1 ELSE B[e]]
    BY <1>3 DEF BagRemove
  <2>2. BagRemove(B, m) \in [DOMAIN B -> {n \in Nat : n > 0}]
    BY <1>1, <1>3, <2>1
  <2> QED BY <2>1, <2>2 DEF IsABag, BagToSet
<1>4. CASE m \notin DOMAIN B
  BY <1>4 DEF BagRemove
<1> QED BY <1>2, <1>3, <1>4

LEMMA InitTimer == Init => TimerInv
<1> SUFFICES ASSUME Init PROVE TimerInv
  OBVIOUS
<1>1. ClientTypeOK
  BY DEF Init, ClientTypeOK, Requests
<1>2. NetTypeOK
  <2>1. IsABag(EmptyBag) /\ BagToSet(EmptyBag) = {}
    BY DEF EmptyBag, SetToBag, IsABag, BagToSet
  <2> QED BY <2>1 DEF Init, NetTypeOK
<1>3. TimeOK
  <2>1. 2 ^ MaxTry \in Nat /\ MaxTry \in Nat /\ MaxDelay \in Nat
    BY NatAssumption, PowerNat
  <2>2. 2 ^ 0 = 1
    OBVIOUS
  <2>3. tryNumber = 0 /\ untilRetry = 0 /\ waited = 0
    BY DEF Init
  <2> QED BY <2>1, <2>2, <2>3 DEF TimeOK, Schedule
<1> QED BY <1>1, <1>2, <1>3, TimerParts

LEMMA ClientTypeStep ==
    ASSUME TimerInv, [Next]_natVars
    PROVE  ClientTypeOK'
<1>0. ClientTypeOK /\ tryNumber \in Nat
  BY TimerParts, NatAssumption DEF TimeOK
<1>1. CASE SendRequest
  <2>1. /\ at = "send" /\ result = "none" /\ pending' = TRUE /\ tryNumber' = 1
        /\ UNCHANGED <<caller, request, answers, granted>>
    BY <1>0, <1>1 DEF SendRequest, ClientTypeOK
  <2>2. \/ at' = "select" /\ result' = "none"
        \/ at' = "done" /\ result' = "failed"
    BY <1>1, <2>1 DEF SendRequest, Return
  <2>3. tryNumber' >= 1
    BY <2>1
  <2> QED BY <1>0, <2>1, <2>2, <2>3 DEF ClientTypeOK
<1>2. CASE Select
  BY <1>0, <1>2 DEF Select, Return, ClientTypeOK
<1>3. CASE TakeAnswer
  <2>1. CASE Head(inbox) \in Requests
    BY <1>0, <1>3, <2>1 DEF TakeAnswer, Return, ClientTypeOK, Requests
  <2>2. CASE Head(inbox) \notin Requests
    BY <1>0, <1>3, <2>2 DEF TakeAnswer, Return, ClientTypeOK
  <2> QED BY <2>1, <2>2
<1>4. CASE ReadNothing
  BY <1>0, <1>4 DEF ReadNothing, TryAgain, Return, ClientTypeOK
<1>5. CASE Retry
  <2>1. /\ at = "read" /\ result = "none" /\ tryNumber >= 1
        /\ UNCHANGED <<caller, request, pending, answers, granted>>
        /\ tryNumber' = tryNumber \/ tryNumber' = tryNumber + 1
    BY <1>0, <1>5 DEF Retry, ClientTypeOK
  <2>2. \/ at' = "select" /\ result' = "none"
        \/ at' = "done" /\ result' \in {"failed", "timeout", "no gateway"}
    BY <1>5, <2>1 DEF Retry, TryAgain, Return
  <2>3. tryNumber' >= 1
    BY <1>0, <2>1
  <2> QED BY <1>0, <2>1, <2>2, <2>3 DEF ClientTypeOK
<1>6. CASE Tick
  BY <1>0, <1>6 DEF Tick, ClientTypeOK
<1>7. CASE Gateway \/ Deliver \/ Lose \/ UNCHANGED natVars
  <2>1. UNCHANGED clientVars /\ granted' \in BOOLEAN
    BY <1>0, <1>7 DEF Gateway, Deliver, Lose, natVars, ClientTypeOK
  <2> QED BY <1>0, <2>1 DEF clientVars, ClientTypeOK
<1> QED BY <1>1, <1>2, <1>3, <1>4, <1>5, <1>6, <1>7 DEF Next, Client

LEMMA NetTypeStep ==
    ASSUME TimerInv, [Next]_natVars
    PROVE  NetTypeOK'
<1>0. NetTypeOK /\ request \in Requests
  BY TimerParts DEF ClientTypeOK
<1>1. CASE SendRequest \/ Retry
  <2>1. UNCHANGED inbox /\ (network' = network \/ network' = BagAdd(network, ToGateway(request)))
    BY <1>1 DEF SendRequest, Retry, Sent, NotSent
  <2>2. ToGateway(request) \in Messages
    BY <1>0 DEF ToGateway, Messages
  <2> QED BY <1>0, <2>1, <2>2, BagAddType DEF NetTypeOK
<1>2. CASE Select \/ ReadNothing \/ Tick \/ UNCHANGED natVars
  BY <1>0, <1>2 DEF Select, ReadNothing, Tick, natVars, NetTypeOK
<1>3. CASE TakeAnswer
  <2>1. inbox # <<>> /\ inbox' = Tail(inbox) /\ UNCHANGED network
    BY <1>3 DEF TakeAnswer
  <2>2. inbox' \in Seq(Answers)
    BY <1>0, <2>1 DEF NetTypeOK
  <2> QED BY <1>0, <2>1, <2>2 DEF NetTypeOK
<1>4. CASE Gateway
  <2>1. PICK r \in Requests, a \in Answers :
           /\ network' = BagAdd(BagRemove(network, ToGateway(r)), ToClient(a))
           /\ UNCHANGED inbox
    BY <1>4 DEF Gateway
  <2>2. ToClient(a) \in Messages
    BY DEF ToClient, Messages
  <2>3. /\ IsABag(BagRemove(network, ToGateway(r)))
        /\ BagToSet(BagRemove(network, ToGateway(r))) \subseteq Messages
    BY <1>0, BagRemoveType DEF NetTypeOK
  <2> QED BY <1>0, <2>1, <2>2, <2>3, BagAddType DEF NetTypeOK
<1>5. CASE Deliver
  <2>1. PICK a \in Answers : network' = BagRemove(network, ToClient(a)) /\ inbox' = Append(inbox, a)
    BY <1>5 DEF Deliver
  <2>2. inbox' \in Seq(Answers)
    BY <1>0, <2>1 DEF NetTypeOK
  <2> QED BY <1>0, <2>1, <2>2, BagRemoveType DEF NetTypeOK
<1>6. CASE Lose
  <2>1. PICK m : network' = BagRemove(network, m) /\ UNCHANGED inbox
    BY <1>6 DEF Lose
  <2> QED BY <1>0, <2>1, BagRemoveType DEF NetTypeOK
<1> QED BY <1>1, <1>2, <1>3, <1>4, <1>5, <1>6 DEF Next, Client

\* The delays of the sends so far add up to less than the whole schedule, and a
\* retry adds to them what it doubles.
LEMMA TimeStep ==
    ASSUME TimerInv, [Next]_natVars
    PROVE  TimeOK'
<1> DEFINE P(n) == 2 ^ n
<1>0. TimeOK /\ MaxTry \in Nat \ {0} /\ MaxDelay \in Nat /\ tryNumber \in Nat
  <2>1. TimeOK /\ MaxTry \in Nat \ {0} /\ MaxDelay \in Nat
    BY TimerParts, NatAssumption
  <2> QED BY <2>1 DEF TimeOK
<1>1. P(MaxTry) \in Nat /\ P(tryNumber) \in Nat /\ P(tryNumber) <= P(MaxTry)
  BY <1>0, PowerNat, PowerMonotone DEF TimeOK
<1>2. P(1) = 2 /\ P(1) <= P(MaxTry)
  <2>1. P(1) = 2
    OBVIOUS
  <2>2. 1 \in Nat /\ MaxTry \in Nat /\ 1 <= MaxTry
    BY <1>0
  <2> QED BY <2>1, <2>2, PowerMonotone
<1>t. TimeOK <=> /\ tryNumber \in 0 .. MaxTry
                 /\ untilRetry \in -MaxDelay .. P(MaxTry)
                 /\ waited \in 0 .. P(MaxTry)
                 /\ waited + untilRetry <= P(tryNumber) - 1
                 /\ waited < P(MaxTry) => waited + untilRetry = P(tryNumber) - 1
  BY DEF TimeOK, Schedule
<1>u. TimeOK' <=> /\ tryNumber' \in 0 .. MaxTry
                  /\ untilRetry' \in -MaxDelay .. P(MaxTry)
                  /\ waited' \in 0 .. P(MaxTry)
                  /\ waited' + untilRetry' <= P(tryNumber') - 1
                  /\ waited' < P(MaxTry) => waited' + untilRetry' = P(tryNumber') - 1
  BY DEF TimeOK, Schedule
<1>3. CASE UNCHANGED <<tryNumber, untilRetry, waited>>
  <2> HIDE DEF P
  <2> QED BY <1>0, <1>3, <1>t, <1>u
<1>4. CASE SendRequest
  <2>1. tryNumber' = 1 /\ untilRetry' = 1 /\ waited' = 0
    BY <1>4 DEF SendRequest
  <2> HIDE DEF P
  <2> QED BY <1>0, <1>1, <1>2, <1>u, <2>1
<1>5. CASE Tick
  <2>1. /\ untilRetry > -MaxDelay /\ untilRetry' = untilRetry - 1 /\ tryNumber' = tryNumber
        /\ waited' = IF waited < P(MaxTry) THEN waited + 1 ELSE waited
    BY <1>5 DEF Tick
  <2> HIDE DEF P
  <2>2. P(tryNumber') = P(tryNumber)
    BY <2>1
  <2> QED BY <1>0, <1>1, <1>t, <1>u, <2>1, <2>2
<1>6. CASE Retry
  <2>1. CASE tryNumber >= MaxTry
    BY <1>3, <1>6, <2>1 DEF Retry
  <2>2. CASE tryNumber < MaxTry
    <3>0. ~(tryNumber >= MaxTry)
      BY <1>0, <2>2
    <3>1. /\ untilRetry <= 0 /\ untilRetry' = untilRetry + P(tryNumber)
          /\ tryNumber' = tryNumber + 1 /\ waited' = waited
      BY <1>6, <3>0 DEF Retry, RetryDelay
    <3>2. P(tryNumber + 1) = 2 * P(tryNumber)
      BY <1>0, PowerDoubles
    <3>3. P(tryNumber') = 2 * P(tryNumber)
      BY <3>1, <3>2
    <3> HIDE DEF P
    <3> QED BY <1>0, <1>1, <1>t, <1>u, <2>2, <3>1, <3>3
  <2> QED BY <1>0, <2>1, <2>2
<1>7. Select \/ TakeAnswer \/ ReadNothing \/ Gateway \/ Deliver \/ Lose \/ UNCHANGED natVars
        => UNCHANGED <<tryNumber, untilRetry, waited>>
  BY DEF Select, TakeAnswer, ReadNothing, Gateway, Deliver, Lose, natVars, clientVars
<1> QED BY <1>3, <1>4, <1>5, <1>6, <1>7 DEF Next, Client

LEMMA TimerStep == TimerInv /\ [Next]_natVars => TimerInv'
<1> SUFFICES ASSUME TimerInv, [Next]_natVars PROVE TimerInv'
  OBVIOUS
<1>1. ClientTypeOK' /\ NetTypeOK' /\ TimeOK'
  BY ClientTypeStep, NetTypeStep, TimeStep
<1> QED BY <1>1, TimerParts DEF TimerInv, TypeOK, ClientTypeOK, NetTypeOK, TimeOK

\* When the last delay is over, the whole schedule is.
LEMMA ScheduleOver ==
    ASSUME TimeOK, tryNumber >= MaxTry, untilRetry <= 0
    PROVE  tryNumber = MaxTry /\ waited >= 2 ^ MaxTry - 1
<1> DEFINE p == 2 ^ MaxTry
<1>1. MaxTry \in Nat /\ MaxDelay \in Nat /\ p \in Nat
  BY NatAssumption, PowerNat
<1>2. tryNumber \in 0 .. MaxTry /\ untilRetry \in -MaxDelay .. p /\ waited \in 0 .. p
  BY DEF TimeOK
<1>3. tryNumber = MaxTry
  BY <1>1, <1>2
<1>4. waited < p => waited + untilRetry = p - 1
  BY <1>3 DEF TimeOK, Schedule
<1> HIDE DEF p
<1>5. waited >= p - 1
  BY <1>1, <1>2, <1>4
<1> QED BY <1>3, <1>5 DEF p

\* The state is of its type, and the time waited and the time left until the next
\* retry add up to the delays of the sends so far: natpmp.c adds each delay to
\* the time the last retry was due, so lateness does not pile up.
THEOREM TimerInvariance == Spec => []TimerInv
  BY InitTimer, TimerStep, PTL DEF Spec

\* The client, the network and the socket keep their types: the sends never exceed
\* MaxTry, and the timer is never set further ahead than the last doubled delay.
THEOREM TypeOKHolds == Spec => []TypeOK
<1>1. TimerInv => TypeOK BY DEF TimerInv
<1> QED BY <1>1, TimerInvariance, PTL

\* Only MaxTry sends and the whole schedule of doubled delays make the library say
\* that there is no gateway without a refusal.
THEOREM NoEarlyGiveUpHolds == Spec => NoEarlyGiveUp
<1> DEFINE A == at = "read" /\ inbox = <<>> /\ result' = "no gateway" =>
                  tryNumber = MaxTry /\ waited >= 2 ^ MaxTry - 1
<1>1. ASSUME TimerInv, [Next]_natVars PROVE [A]_natVars
  <2> SUFFICES ASSUME Next, at = "read", inbox = <<>>, result' = "no gateway"
               PROVE  tryNumber = MaxTry /\ waited >= 2 ^ MaxTry - 1
    BY <1>1
  <2>1. result = "none" /\ TimeOK /\ MaxTry \in Nat /\ MaxDelay \in Nat
    BY <1>1, TimerParts, NatAssumption DEF TimerInv
  <2>2. Retry /\ tryNumber >= MaxTry
    BY <2>1 DEF Next, Client, SendRequest, Select, TakeAnswer, ReadNothing, Retry, TryAgain,
       Return, Tick, Gateway, Deliver, Lose, clientVars
  <2>3. untilRetry <= 0
    BY <2>2 DEF Retry
  <2> QED BY <2>1, <2>2, <2>3, ScheduleOver
<1> QED BY <1>1, TimerInvariance, PTL DEF Spec, NoEarlyGiveUp
=============================================================================
