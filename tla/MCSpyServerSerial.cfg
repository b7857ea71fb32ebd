\* One handler at a time, as an instance with a single request in flight.
CONSTANTS
    Users = {u1, u2, u3}
    NoUser = NoUser
    NoRoom = NoRoom
    PostTypes = {"offer", "bye"}
    Debugs = {"none", "loopback", "full"}
    MaxPosts = 7
    Threads = {t1}
SPECIFICATION Spec
INVARIANTS
    AtMostTwoAdmitted
    LeftIsOut
    AdmittedIsIn
PROPERTIES
    ImplementsRoomProtocol
\* Every page may have been closed and every request served.
CHECK_DEADLOCK FALSE
