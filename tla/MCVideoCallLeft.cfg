\* A page that is left behind by a channel that closes.
CONSTANTS
    Users = {u1, u2}
    NoUser = NoUser
    NoRoom = NoRoom
    PostTypes = {"offer", "answer", "bye"}
    Debugs = {"none"}
    MaxPosts = 15
    AsksMedia = {TRUE, FALSE}
SPECIFICATION CallSpec
INVARIANTS
    LeftBehindHears
CHECK_DEADLOCK FALSE
