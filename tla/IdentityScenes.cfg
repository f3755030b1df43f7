\* Links in a chain; sends and contacts beside the backfill; and beside the name pass.
SPECIFICATION SceneSpec
CONSTANTS
    lid2 = lid2
    lid3 = lid3
    n1 = n1
    tLive = tLive
    tSide = tSide
    n2 = n2
    Pns = {pn}
    Lids = {lid, lid2, lid3}
    Groups = {}
    GroupLids = {}
    Twin <- NoTwin
    Names = {n1, n2}
    Blank = Blank
    None = None
    Msgs = {m1}
    Tasks = {tLive, tSide}
    Duties <- SceneDuties
CONSTRAINT InScene
INVARIANTS ForeignKey ChainIsSettled
PROPERTIES StrongNamesStay LinksKeep
