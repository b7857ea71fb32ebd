------------------------------- MODULE NatPmp -------------------------------
(***************************************************************************)
(* The NAT-PMP client: libnatpmp/natpmp.c, and the two ways it is called.   *)
(* "app" is nativeQueryInternet (natpmpclient.cpp), which waits once for    *)
(* each answer; "patient" is the loop of libnatpmp/natpmpc.c, which reads   *)
(* again as long as it is told to.  The gateway and the network are         *)
(* external: messages are lost, delayed and reordered, not duplicated.      *)
(* A tick of the clock is 250 ms, the first retry delay.                    *)
(***************************************************************************)
EXTENDS Integers, Sequences, Bags, BagsExt

CONSTANTS
    Callers,      \* subset of {"app", "patient"}
    MaxTry,       \* 9: the sends of one request
    MaxDelay      \* bound: ticks the client may be late

ASSUME NatAssumption ==
    /\ Callers \subseteq {"app", "patient"}
    /\ MaxTry \in Nat \ {0} /\ MaxDelay \in Nat

VARIABLES
    caller,       \* who uses the library
    at,           \* where it is: sending, in select, reading, or done
    request,      \* pending_request: "addr" or "map"
    pending,      \* has_pending_request
    tryNumber,    \* try_number
    untilRetry,   \* retry_time - now, in ticks
    waited,       \* history: ticks since the request was first sent
    network,      \* the bag of messages on their way
    inbox,        \* what the socket has received
    answers,      \* the answers the caller took, by request
    result,       \* what the caller returns
    granted       \* the gateway has made the mapping

clientVars == <<caller, at, request, pending, tryNumber, untilRetry, answers, result>>
natVars == <<clientVars, waited, network, inbox, granted>>

Requests == {"addr", "map"}
\* An answer to a request, an error code, or an ICMP message that nobody listens.
Answers == Requests \cup {"error", "refused"}
Messages == [to : {"gateway"}, body : Requests] \cup [to : {"client"}, body : Answers]
ToGateway(r) == [to |-> "gateway", body |-> r]
ToClient(a) == [to |-> "client", body |-> a]

Init ==
    /\ caller \in Callers
    /\ at = "send" /\ request = "addr"
    /\ pending = FALSE /\ tryNumber = 0 /\ untilRetry = 0 /\ waited = 0
    /\ network = EmptyBag /\ inbox = <<>>
    /\ answers = [r \in Requests |-> "none"]
    /\ result = "none" /\ granted = FALSE

Return(r) == at' = "done" /\ result' = r

-----------------------------------------------------------------------------
(* natpmp.c                                                                *)

\* sendpendingrequest: the datagram leaves, or send fails.
Sent == network' = BagAdd(network, ToGateway(request))
NotSent == UNCHANGED network

\* sendnatpmprequest.  The mapping's return value is not looked at by the app.
SendRequest ==
    /\ at = "send"
    /\ pending' = TRUE /\ tryNumber' = 1 /\ untilRetry' = 1 /\ waited' = 0
    /\ \/ Sent /\ at' = "select" /\ UNCHANGED result
       \/ /\ NotSent
          /\ IF caller = "app" /\ request = "map"
             THEN at' = "select" /\ UNCHANGED result
             ELSE Return("failed")
    /\ UNCHANGED <<caller, request, answers, inbox, granted>>

\* A select without a time limit.
SelectForever ==
    /\ at = "select" /\ inbox # <<>>
    /\ at' = "read"
    /\ UNCHANGED <<caller, request, pending, tryNumber, untilRetry, answers, result,
                   waited, network, inbox, granted>>

\* select, with the time getnatpmprequesttimeout computes.  A client that is
\* late asks for a negative time, which select refuses; natpmpc.c does not look
\* at this for its second request.  A datagram that turns out to be damaged wakes
\* select up and leaves nothing to read.
Select ==
    /\ at = "select"
    /\ \/ /\ untilRetry < 0
          /\ IF caller = "patient" /\ request = "map"
             THEN at' = "read" /\ UNCHANGED result
             ELSE Return("failed")
       \/ /\ untilRetry >= 0 /\ (inbox # <<>> \/ untilRetry = 0)
          /\ at' = "read" /\ UNCHANGED result
       \/ /\ untilRetry > 0 /\ inbox = <<>>
          /\ at' = "read" /\ UNCHANGED result
    /\ UNCHANGED <<caller, request, pending, tryNumber, untilRetry, answers,
                   waited, network, inbox, granted>>

\* An answer arrived (readnatpmpresponse): of whatever type, it ends the request.
TakeAnswer ==
    /\ at = "read" /\ inbox # <<>>
    /\ inbox' = Tail(inbox)
    /\ IF Head(inbox) \in Requests
       THEN /\ pending' = FALSE
            /\ answers' = [answers EXCEPT ![request] = Head(inbox)]
            /\ IF request = "addr"
               THEN request' = "map" /\ at' = "send" /\ UNCHANGED result
               ELSE Return("mapped") /\ UNCHANGED request
       ELSE /\ Return(IF Head(inbox) = "refused" THEN "no gateway" ELSE "failed")
            /\ UNCHANGED <<pending, answers, request>>
    /\ UNCHANGED <<caller, tryNumber, untilRetry, waited, network, granted>>

\* An app that waits on, as the sample does.
TryAgainAlways == at' = "select" /\ UNCHANGED result

\* NATPMP_TRYAGAIN: the app gives up, natpmpc.c goes round its loop.
TryAgain ==
    IF caller = "app" THEN Return("timeout")
    ELSE at' = "select" /\ UNCHANGED result

\* There is nothing to read and it is not time yet.
ReadNothing ==
    /\ at = "read" /\ inbox = <<>> /\ untilRetry > 0
    /\ TryAgain
    /\ UNCHANGED <<caller, request, pending, tryNumber, untilRetry, answers,
                   waited, network, inbox, granted>>

\* A delay that grows by one step at a time.
RetryDelayLinear == tryNumber

\* Nothing arrived in time: send again, with twice the delay, counted from the
\* time this retry was due.
RetryDelay == 2 ^ tryNumber

\* One send too many.
RetryOnceMore ==
    /\ at = "read" /\ inbox = <<>> /\ untilRetry <= 0
    /\ IF tryNumber > MaxTry
       THEN /\ Return("no gateway")
            /\ UNCHANGED <<tryNumber, untilRetry, network>>
       ELSE /\ untilRetry' = untilRetry + 2 ^ tryNumber
            /\ tryNumber' = tryNumber + 1
            /\ \/ Sent /\ TryAgain
               \/ NotSent /\ Return("failed")
    /\ UNCHANGED <<caller, request, pending, answers, waited, inbox, granted>>

Retry ==
    /\ at = "read" /\ inbox = <<>> /\ untilRetry <= 0
    /\ IF tryNumber >= MaxTry
       THEN /\ Return("no gateway")
            /\ UNCHANGED <<tryNumber, untilRetry, network>>
       ELSE /\ untilRetry' = untilRetry + RetryDelay
            /\ tryNumber' = tryNumber + 1
            /\ \/ Sent /\ TryAgain
               \/ NotSent /\ Return("failed")
    /\ UNCHANGED <<caller, request, pending, answers, waited, inbox, granted>>

Client == SendRequest \/ Select \/ TakeAnswer \/ ReadNothing \/ Retry

-----------------------------------------------------------------------------
(* The world around it                                                     *)

\* Time passes; waited saturates where the schedule is over.
Tick ==
    /\ at # "done" /\ untilRetry > -MaxDelay
    /\ untilRetry' = untilRetry - 1
    /\ waited' = IF waited < 2 ^ MaxTry THEN waited + 1 ELSE waited
    /\ UNCHANGED <<caller, at, request, pending, tryNumber, answers, result,
                   network, inbox, granted>>

\* The gateway answers a request, or refuses it.
Gateway ==
    \E r \in Requests, a \in Answers :
        /\ BagIn(ToGateway(r), network)
        /\ a \in {r, "error", "refused"}
        /\ network' = BagAdd(BagRemove(network, ToGateway(r)), ToClient(a))
        /\ granted' = (granted \/ (r = "map" /\ a = r))
        /\ UNCHANGED <<clientVars, waited, inbox>>

Deliver ==
    \E a \in Answers :
        /\ BagIn(ToClient(a), network)
        /\ network' = BagRemove(network, ToClient(a))
        /\ inbox' = Append(inbox, a)
        /\ UNCHANGED <<clientVars, waited, granted>>

Lose ==
    \E m \in BagToSet(network) :
        /\ network' = BagRemove(network, m)
        /\ UNCHANGED <<clientVars, waited, inbox, granted>>

Next == Client \/ Tick \/ Gateway \/ Deliver \/ Lose

\* The client runs and time passes; nothing is assumed of gateway and network.
\* A socket that select finds readable stays so, hence weak fairness will do.
Spec == Init /\ [][Next]_natVars /\ WF_natVars(Client) /\ WF_natVars(Tick)

-----------------------------------------------------------------------------
(* Properties                                                              *)

TypeOK ==
    /\ caller \in Callers
    /\ at \in {"send", "select", "read", "done"}
    /\ request \in Requests /\ pending \in BOOLEAN
    /\ tryNumber \in 0 .. MaxTry
    /\ untilRetry \in -MaxDelay .. 2 ^ MaxTry
    /\ waited \in 0 .. 2 ^ MaxTry
    /\ IsABag(network) /\ BagToSet(network) \subseteq Messages
    /\ inbox \in Seq(Answers)
    /\ answers \in [Requests -> Requests \cup {"none"}]
    /\ result \in {"none", "failed", "timeout", "mapped", "no gateway"}
    /\ granted \in BOOLEAN

\* The URL the app shows is reachable: its port comes from an answer to the
\* mapping request and the gateway granted it, its address from an answer to the
\* address request - although the answers' types are not looked at.
UrlIsMapped ==
    caller = "app" /\ result = "mapped" =>
        granted /\ answers = [r \in Requests |-> r]

\* Whoever waits is not told early that the gateway does not support NAT-PMP:
\* without a refusal, only after MaxTry sends and the whole schedule of doubled
\* delays - also if it was late for some of the retries.
NoEarlyGiveUp ==
    [][at = "read" /\ inbox = <<>> /\ result' = "no gateway" =>
         tryNumber = MaxTry /\ waited >= 2 ^ MaxTry - 1]_natVars

\* Every caller is answered in the end, whatever is lost.
CallerReturns == <>(at = "done")
=============================================================================
