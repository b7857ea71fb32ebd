----------------------------- MODULE CallBlocker -----------------------------
(***************************************************************************)
(* SimpleBlocker: a ringing call is reported to the application's phone    *)
(* state listeners on the main thread, which start one thread for it; the  *)
(* thread decides whether the rules block the call and then hangs up or    *)
(* silences the phone.  The calls share one phone: its ringer, its         *)
(* airplane mode, and whichever call it has just then.                     *)
(*                                                                         *)
(* The phone is external: one call may ring, others may be in progress.    *)
(* Any number may be blocked: the look-ups behind that decision change     *)
(* nothing, but they take time and may fail.                               *)
(***************************************************************************)
EXTENDS Naturals, Sequences, FiniteSets

CONSTANTS Calls,         \* the calls that come in, each one once
          NoCall,
          Behaviors,     \* the values of the preference "block behavior"
          MaxListeners,  \* bound: listeners registered at the same time
          MaxDeaths      \* bound: how often Android kills the process

ASSUME NoCallIsNoCall == NoCall \notin Calls
ASSUME BehaviorsAreCodes == Behaviors \subseteq {"hangUp", "silence"}
ASSUME BoundsAreNat == MaxListeners \in Nat /\ MaxDeaths \in Nat

VARIABLES phone,      \* the call that rings, and whether one is in progress
          waiting,    \* the calls that have not come in yet
          broadcasts, \* PHONE_STATE broadcasts not yet received
          listeners,  \* the listeners PhoneStateReceiver has registered
          looper,     \* the callbacks queued for the main thread
          processingRingingCall,
          prefs,      \* is the application enabled, and what it does
          ringer,
          airplane,
          worker,     \* per call, its IncomingCallOperations thread
          starts,     \* per call, the threads started for it
          deaths

phoneVars == <<phone, waiting, broadcasts>>
appVars == <<listeners, looper, processingRingingCall, starts>>
deviceVars == <<ringer, airplane>>
vars == <<phoneVars, appVars, prefs, deviceVars, worker, deaths>>

RingerModes == {"normal", "silent"}

Preferences == [isAppEnabled : BOOLEAN, blockBehavior : Behaviors]

\* oldMode and isEnabled are the locals of muteOrSilenceAction and
\* toggleAirplaneMode; toggles counts the calls of the latter.
Worker == [pc        : {"none", "queued", "started", "endCall", "isRinging",
                        "toggle", "put", "save", "mute", "wait", "restore",
                        "log", "done"},
           oldMode   : RingerModes,
           isEnabled : BOOLEAN,
           toggles   : 0..2]

NoWorker == [pc |-> "none", oldMode |-> "normal", isEnabled |-> FALSE, toggles |-> 0]

\* A callback: the state of the phone and the number that rings.
StateEvent == [state : {"idle", "offhook", "ringing"}, call : Calls \cup {NoCall}]

Event(p) ==
    [state |-> IF p.ringing # NoCall THEN "ringing"
               ELSE IF p.active THEN "offhook" ELSE "idle",
     call |-> p.ringing]

Init ==
    /\ phone = [ringing |-> NoCall, active |-> FALSE]
    /\ waiting = Calls
    /\ broadcasts = 0
    /\ listeners = 0
    /\ looper = <<>>
    /\ processingRingingCall = FALSE
    /\ prefs \in Preferences
    /\ ringer = "normal"
    /\ airplane = FALSE
    /\ worker = [c \in Calls |-> NoWorker]
    /\ starts = [c \in Calls |-> 0]
    /\ deaths = 0

-----------------------------------------------------------------------------
(* The phone.                                                              *)

\* A change of the call state is told to every listener and broadcast.
PhoneBecomes(p) ==
    /\ phone' = p
    /\ IF Event(p) = Event(phone)
       THEN UNCHANGED <<looper, broadcasts>>
       ELSE /\ looper' = looper \o [i \in 1..listeners |-> Event(p)]
            /\ broadcasts' = broadcasts + 1

Ring(c) ==
    /\ c \in waiting
    /\ phone.ringing = NoCall
    /\ ~airplane
    /\ waiting' = waiting \ {c}
    /\ PhoneBecomes([phone EXCEPT !.ringing = c])

\* The user takes the call that rings.
Answer ==
    /\ phone.ringing # NoCall
    /\ PhoneBecomes([ringing |-> NoCall, active |-> TRUE])
    /\ UNCHANGED waiting

\* The caller gives up, or airplane mode takes the radio down.
StopRinging ==
    /\ phone.ringing # NoCall
    /\ PhoneBecomes([phone EXCEPT !.ringing = NoCall])
    /\ UNCHANGED waiting

CallEnds ==
    /\ phone.active
    /\ PhoneBecomes([phone EXCEPT !.active = FALSE])
    /\ UNCHANGED waiting

Phone ==
    /\ (\E c \in Calls : Ring(c)) \/ Answer \/ StopRinging \/ CallEnds
    /\ UNCHANGED <<listeners, processingRingingCall, starts, prefs,
                   deviceVars, worker, deaths>>

-----------------------------------------------------------------------------
(* The main thread of the application.                                     *)

\* PhoneStateReceiver.onReceive: one more listener, which is called back with
\* the state of the phone at once.  Listeners are never unregistered; beyond
\* MaxListeners one more would only repeat what the others are told.
OnReceive ==
    /\ broadcasts > 0
    /\ broadcasts' = broadcasts - 1
    /\ \/ /\ listeners < MaxListeners
          /\ listeners' = listeners + 1
          /\ looper' = Append(looper, Event(phone))
       \/ /\ listeners = MaxListeners
          /\ UNCHANGED <<listeners, looper>>
    /\ UNCHANGED <<phone, waiting, processingRingingCall, starts, prefs,
                   deviceVars, worker, deaths>>

\* A listener that does not ask whether the call is being processed.
OnCallStateChangedUnguarded ==
    LET e == Head(looper)
    IN  /\ looper # <<>>
        /\ looper' = Tail(looper)
        /\ processingRingingCall' = (e.state = "ringing" /\ prefs.isAppEnabled)
        /\ IF e.state = "ringing" /\ prefs.isAppEnabled
           THEN /\ worker' = [worker EXCEPT ![e.call] = [NoWorker EXCEPT !.pc = "queued"]]
                /\ starts' = [starts EXCEPT ![e.call] = @ + 1]
           ELSE UNCHANGED <<worker, starts>>
        /\ UNCHANGED <<phoneVars, listeners, prefs, deviceVars, deaths>>

\* A listener that resets the flag only when no call is left.
OnCallStateChangedIdleOnly ==
    LET e == Head(looper)
        new == e.state = "ringing" /\ prefs.isAppEnabled /\ ~processingRingingCall
    IN  /\ looper # <<>>
        /\ looper' = Tail(looper)
        /\ processingRingingCall' =
              (new \/ (e.state # "idle" /\ processingRingingCall))
        /\ worker' = IF new THEN [worker EXCEPT ![e.call] = [NoWorker EXCEPT !.pc = "queued"]]
                            ELSE worker
        /\ starts' = IF new THEN [starts EXCEPT ![e.call] = @ + 1] ELSE starts
        /\ UNCHANGED <<phoneVars, listeners, prefs, deviceVars, deaths>>

\* MyPhoneStateListener.onCallStateChanged and processCallStateRinging: the
\* first callback of a ringing call starts the service if the application is
\* enabled, idle and off-hook reset the flag.
OnCallStateChanged ==
    LET e == Head(looper)
        new == e.state = "ringing" /\ prefs.isAppEnabled /\ ~processingRingingCall
    IN  /\ looper # <<>>
        /\ looper' = Tail(looper)
        /\ processingRingingCall' = (new \/ (e.state = "ringing" /\ processingRingingCall))
        /\ worker' = IF new THEN [worker EXCEPT ![e.call] = [NoWorker EXCEPT !.pc = "queued"]]
                            ELSE worker
        /\ starts' = IF new THEN [starts EXCEPT ![e.call] = @ + 1] ELSE starts
        /\ UNCHANGED <<phoneVars, listeners, prefs, deviceVars, deaths>>

-----------------------------------------------------------------------------
(* The threads.                                                            *)

At(c, pc) == worker[c].pc = pc

Goto(c, pc) == worker' = [worker EXCEPT ![c].pc = pc]

\* CallBlockerService.onStartCommand starts the thread and stops the service.
OnStartCommand(c) ==
    /\ At(c, "queued")
    /\ Goto(c, "started")
    /\ UNCHANGED <<phoneVars, looper, deviceVars>>

\* processBlockedActionType: a call the rules do not block is left alone, and
\* so is one whose look-up fails.
ProcessIncomingCall(c) ==
    /\ At(c, "started")
    /\ \/ Goto(c, "done")
       \/ prefs.blockBehavior = "hangUp" /\ Goto(c, "endCall")
       \/ prefs.blockBehavior = "silence" /\ Goto(c, "save")
    /\ UNCHANGED <<phoneVars, looper, deviceVars>>

\* telephonyService.endCall ends whatever call rings or is in progress by now;
\* it may do nothing, or be refused with an exception that is logged.
EndCall(c) ==
    /\ At(c, "endCall")
    /\ \/ /\ Goto(c, "isRinging")
          /\ PhoneBecomes(IF phone.ringing # NoCall
                          THEN [phone EXCEPT !.ringing = NoCall]
                          ELSE [phone EXCEPT !.active = FALSE])
       \/ Goto(c, "isRinging") /\ UNCHANGED <<phone, looper, broadcasts>>
       \/ Goto(c, "log") /\ UNCHANGED <<phone, looper, broadcasts>>
    /\ UNCHANGED <<waiting, deviceVars>>

\* Still ringing: airplane mode, for five seconds.
IsRinging(c) ==
    /\ At(c, "isRinging")
    /\ \/ phone.ringing = NoCall /\ Goto(c, "log")
       \/ phone.ringing # NoCall /\ Goto(c, "toggle")
    /\ UNCHANGED <<phoneVars, looper, deviceVars>>

\* toggleAirplaneMode reads the setting and puts the opposite.
ToggleAirplaneMode(c) ==
    /\ At(c, "toggle")
    /\ worker' = [worker EXCEPT ![c].pc = "put", ![c].isEnabled = airplane]
    /\ UNCHANGED <<phoneVars, looper, deviceVars>>

\* Airplane mode that is switched for as long as a call rings.
PutAirplaneModeWhileRinging(c) ==
    /\ At(c, "put")
    /\ airplane' = ~worker[c].isEnabled
    /\ worker' = [worker EXCEPT ![c].toggles = @ + 1,
                                ![c].pc = IF phone.ringing # NoCall THEN "toggle" ELSE "log"]
    /\ UNCHANGED <<phoneVars, looper, ringer>>

PutAirplaneMode(c) ==
    /\ At(c, "put")
    /\ airplane' = ~worker[c].isEnabled
    /\ worker' = [worker EXCEPT ![c].toggles = @ + 1,
                                ![c].pc = IF worker[c].toggles = 0 THEN "toggle" ELSE "log"]
    /\ UNCHANGED <<phoneVars, looper, ringer>>

\* "save original audio state"
SaveRinger(c) ==
    /\ At(c, "save")
    /\ worker' = [worker EXCEPT ![c].pc = "mute", ![c].oldMode = ringer]
    /\ UNCHANGED <<phoneVars, looper, deviceVars>>

MuteRinger(c) ==
    /\ At(c, "mute")
    /\ ringer' = "silent"
    /\ Goto(c, "wait")
    /\ UNCHANGED <<phoneVars, looper, airplane>>

\* A wait for the end of all calls.
WaitForIdle(c) ==
    /\ At(c, "wait")
    /\ phone.ringing = NoCall /\ ~phone.active
    /\ Goto(c, "restore")
    /\ UNCHANGED <<phoneVars, looper, deviceVars>>

\* The phone is looked at every 200 ms, and is not ringing this time.
WaitForRinging(c) ==
    /\ At(c, "wait")
    /\ phone.ringing = NoCall
    /\ Goto(c, "restore")
    /\ UNCHANGED <<phoneVars, looper, deviceVars>>

\* "restore saved audio state"
RestoreRinger(c) ==
    /\ At(c, "restore")
    /\ ringer' = worker[c].oldMode
    /\ Goto(c, "log")
    /\ UNCHANGED <<phoneVars, looper, airplane>>

InsertBlockedCallLog(c) ==
    /\ At(c, "log")
    /\ Goto(c, "done")
    /\ UNCHANGED <<phoneVars, looper, deviceVars>>

Work(c) ==
    /\ \/ OnStartCommand(c)
       \/ ProcessIncomingCall(c)
       \/ EndCall(c) \/ IsRinging(c)
       \/ ToggleAirplaneMode(c) \/ PutAirplaneMode(c)
       \/ SaveRinger(c) \/ MuteRinger(c) \/ WaitForRinging(c) \/ RestoreRinger(c)
       \/ InsertBlockedCallLog(c)
    /\ UNCHANGED <<listeners, processingRingingCall, starts, prefs, deaths>>

\* Android kills the process, which no running service keeps alive: threads,
\* listeners and the static flag are gone, the device keeps its settings.
ProcessDeath ==
    /\ deaths < MaxDeaths
    /\ deaths' = deaths + 1
    /\ listeners' = 0
    /\ looper' = <<>>
    /\ processingRingingCall' = FALSE
    /\ worker' = [c \in Calls |-> NoWorker]
    /\ starts' = [c \in Calls |-> 0]
    /\ UNCHANGED <<phoneVars, prefs, deviceVars>>

Next ==
    \/ Phone
    \/ OnReceive
    \/ OnCallStateChanged
    \/ \E c \in Calls : Work(c)
    \/ ProcessDeath

\* Threads and the main thread run; nobody lets a phone ring for ever.
Fairness ==
    /\ \A c \in Calls : WF_vars(Work(c))
    /\ WF_vars(OnReceive)
    /\ WF_vars(OnCallStateChanged)
    /\ WF_vars(Phone /\ phone.ringing # NoCall /\ phone'.ringing = NoCall)

Spec == Init /\ [][Next]_vars /\ Fairness

-----------------------------------------------------------------------------
TypeOK ==
    /\ phone \in [ringing : Calls \cup {NoCall}, active : BOOLEAN]
    /\ waiting \subseteq Calls
    /\ broadcasts \in Nat
    /\ listeners \in 0..MaxListeners
    /\ looper \in Seq(StateEvent)
    /\ processingRingingCall \in BOOLEAN
    /\ prefs \in Preferences
    /\ ringer \in RingerModes
    /\ airplane \in BOOLEAN
    /\ worker \in [Calls -> Worker]
    /\ starts \in [Calls -> Nat]
    /\ deaths \in 0..MaxDeaths

\* However many listeners have piled up and however late their callbacks come,
\* one thread is started for a call.
OneThreadPerCall == \A c \in Calls : starts[c] <= 1

\* The flag is never left behind: once the callbacks are through, the call that
\* rings has its thread, also when it waits behind another one in progress.
NoCallSlips ==
    prefs.isAppEnabled /\ looper = <<>> /\ listeners > 0 /\ phone.ringing # NoCall
        => ~At(phone.ringing, "none")

\* The thread of a call comes to its end, whatever calls follow.
ThreadsEnd ==
    \A c \in Calls : At(c, "started") ~> (At(c, "done") \/ At(c, "none"))

\* The comments of muteOrSilenceAction, "save original audio state" and
\* "restore saved audio state": when no thread is at work the ringer is as the
\* user set it.
RingerRestored ==
    (\A c \in Calls : At(c, "none") \/ At(c, "done")) => ringer = "normal"
=============================================================================
