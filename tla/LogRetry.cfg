SPECIFICATION Spec
CONSTANTS
    theirs = theirs
    mine = mine
    live = live
    late = late
    side = side
    ui = ui
    Msgs = {theirs, mine}
    Own = {mine}
    Drafts = {}
    Stamp <- Ages
    Actors = {bob}
    Emojis = {thumb, heart}
    Removed = Removed
    Body = Body
    Edits = {edited}
    Tasks = {live}
    Duties <- RetryDuties
    None = None
INVARIANTS
    ReactionsSettle
