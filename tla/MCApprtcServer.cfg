\* Three page loads, ordinary or loopback; eight requests in all.
CONSTANTS
    Users = {u1, u2, u3}
    NoUser = NoUser
    NoRoom = NoRoom
    PostTypes = {"offer", "answer", "bye"}
    Debugs = {"none", "loopback"}
    MaxPosts = 8
SPECIFICATION Spec
INVARIANTS
    TypeOK
    RoomIsAdmitted
    FullRoomHasCaller
    ConnectedWasOpened
    SavedOnlyForWaiting
PROPERTIES
    ImplementsRoomProtocol
    SavedIsSettled
\* Every page may have been closed and every request served.
CHECK_DEADLOCK FALSE
