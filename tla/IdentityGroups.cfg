\* A group and its group-LID twin.
SPECIFICATION Spec
CONSTANTS
    pn = pn
    lid = lid
    lid2 = lid2
    grp = grp
    glid = glid
    tLive = tLive
    tSide = tSide
    Pns = {}
    Lids = {}
    Groups = {grp}
    GroupLids = {glid}
    Twin <- OneTwin
    Names = {n1}
    Blank = Blank
    None = None
    Msgs = {m1}
    Tasks = {tLive}
    Duties <- GroupDuties
INVARIANT GroupsAreWhole
