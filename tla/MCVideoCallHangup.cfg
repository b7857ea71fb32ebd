\* A page that hangs up: is it out of the room?
CONSTANTS
    Users = {u1, u2}
    NoUser = NoUser
    NoRoom = NoRoom
    PostTypes = {"offer", "answer", "bye"}
    Debugs = {"none"}
    MaxPosts = 15
    AsksMedia = {TRUE, FALSE}
SPECIFICATION CallSpec
INVARIANTS
    HungUpIsOut
CHECK_DEADLOCK FALSE
