\* Two page loads, with and without media.
\* A page posts at most seven requests, so MaxPosts is never reached.
CONSTANTS
    Users = {u1, u2}
    NoUser = NoUser
    NoRoom = NoRoom
    PostTypes = {"offer", "answer", "candidate", "bye"}
    Debugs = {"none"}
    MaxPosts = 15
    AsksMedia = {TRUE, FALSE}
SPECIFICATION CallSpec
INVARIANTS
    CallTypeOK
    QueueOrder
    AloneIsIdle
    SettledIsEstablished
PROPERTIES
    ImplementsSignalling
    CallEstablished
\* Every page may have been closed and every request served.
CHECK_DEADLOCK FALSE
