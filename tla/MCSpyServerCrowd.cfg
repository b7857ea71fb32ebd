\* Two page loads race for the last place of the room.
CONSTANTS
    Users = {u1, u2, u3}
    NoUser = NoUser
    NoRoom = NoRoom
    PostTypes = {"bye"}
    Debugs = {"none"}
    MaxPosts = 4
    Threads = {t1, t2}
SPECIFICATION Spec
INVARIANTS
    AtMostTwoAdmitted
CHECK_DEADLOCK FALSE
