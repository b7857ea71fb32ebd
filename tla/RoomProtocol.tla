---------------------------- MODULE RoomProtocol ----------------------------
(***************************************************************************)
(* What a room promises its users, whatever the server is made of: at most *)
(* two people, nobody is put out who did not leave, nobody who left comes  *)
(* back, only members are connected, and whoever leaves is out eventually. *)
(***************************************************************************)
EXTENDS Naturals, FiniteSets

CONSTANT Users

VARIABLES members,    \* the people in the room
          connected,  \* those of them whose channel the server may use
          leaving,    \* the people who said that they leave
          gone        \* the people who were in the room and left

vars == <<members, connected, leaving, gone>>

TypeOK ==
    /\ members \subseteq Users
    /\ connected \subseteq members
    /\ leaving \subseteq Users
    /\ gone \subseteq Users

Init ==
    /\ members = {}
    /\ connected = {}
    /\ leaving = {}
    /\ gone = {}

Join(u) ==
    /\ u \notin members \cup gone
    /\ Cardinality(members) < 2
    /\ members' = members \cup {u}
    /\ UNCHANGED <<connected, leaving, gone>>

Connect(u) ==
    /\ u \in members
    /\ connected' = connected \cup {u}
    /\ UNCHANGED <<members, leaving, gone>>

AskToLeave(u) ==
    /\ u \in members \cup gone
    /\ leaving' = leaving \cup {u}
    /\ UNCHANGED <<members, connected, gone>>

Leave(u) ==
    /\ u \in members \cap leaving
    /\ members' = members \ {u}
    /\ connected' = connected \ {u}
    /\ gone' = gone \cup {u}
    /\ UNCHANGED leaving

Next ==
    \E u \in Users : Join(u) \/ Connect(u) \/ AskToLeave(u) \/ Leave(u)

Spec ==
    /\ Init
    /\ [][Next]_vars
    /\ \A u \in Users : WF_vars(Leave(u))

SafeSpec == Init /\ [][Next]_vars

\* At most two people are in the room, and nobody is both in it and gone.
TwoAtMost == Cardinality(members) <= 2 /\ members \cap gone = {}
=============================================================================
