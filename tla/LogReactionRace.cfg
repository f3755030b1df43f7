SPECIFICATION Spec
CONSTANTS
    theirs = theirs
    mine = mine
    live = live
    late = late
    side = side
    ui = ui
    Msgs = {theirs, mine}
    Own = {mine}
    Drafts = {}
    Stamp <- Ages
    Actors = {bob}
    Emojis = {thumb}
    Removed = Removed
    Body = Body
    Edits = {edited}
    Tasks = {live, side}
    Duties <- RaceDuties
    None = None
INVARIANTS
    ReactionsAlwaysSettle
