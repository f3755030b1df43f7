SPECIFICATION FairSpec
CONSTANTS
    theirs = theirs
    mine = mine
    live = live
    late = late
    side = side
    ui = ui
    Msgs = {theirs, mine}
    Own = {mine}
    Drafts = {mine}
    Stamp <- Ages
    Actors = {}
    Emojis = {thumb}
    Removed = Removed
    Body = Body
    Edits = {edited}
    Tasks = {live, late, side, ui}
    Duties <- SendDuties
    None = None
INVARIANT ActivityCovers
PROPERTY SendsSettle
