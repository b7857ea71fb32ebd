\* Two handlers run at once; three page loads; seven requests in all.
CONSTANTS
    Users = {u1, u2, u3}
    NoUser = NoUser
    NoRoom = NoRoom
    PostTypes = {"offer", "bye"}
    Debugs = {"none"}
    MaxPosts = 7
    Threads = {t1, t2}
SPECIFICATION Spec
SYMMETRY Symmetry
INVARIANTS
    TypeOK
    NoEmptyRoom
    FullRoomHasCaller
    ConnectedWasOpened
    FullPageHoldsNoSlot
    NoEcho
\* Every page may have been closed and every request served.
CHECK_DEADLOCK FALSE
