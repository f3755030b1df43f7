SPECIFICATION Spec
CONSTANTS
    theirs = theirs
    mine = mine
    live = live
    late = late
    side = side
    ui = ui
    Msgs = {theirs, mine}
    Own = {mine}
    Drafts = {mine}
    Stamp <- Ages
    Actors = {bob}
    Emojis = {thumb}
    Removed = Removed
    Body = Body
    Edits = {edited}
    Tasks = {live, late, ui}
    Duties <- CommandDuties
    None = None
INVARIANT ChatRowFits
