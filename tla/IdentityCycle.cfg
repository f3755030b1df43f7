\* The backfill re-registers an alias.
SPECIFICATION Spec
CONSTANTS
    pn = pn
    lid = lid
    lid2 = lid2
    grp = grp
    glid = glid
    tLive = tLive
    tSide = tSide
    Pns = {pn}
    Lids = {lid}
    Groups = {}
    GroupLids = {}
    Twin <- NoTwin
    Names = {n1}
    Blank = Blank
    None = None
    Msgs = {m1}
    Tasks = {tLive}
    Duties <- CycleDuties
INVARIANT OneRowPerIdentity
