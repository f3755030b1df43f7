------------------------- MODULE MCChatIdentityScenes -------------------------
(***************************************************************************)
(* One person under several JIDs, in three scenes: a phone number linked   *)
(* to two LIDs in turn; sends and contacts beside the backfill and the     *)
(* sweep; sends and contacts beside the name pass, with two names.         *)
(***************************************************************************)
EXTENDS ChatIdentity

CONSTANTS lid2, lid3, n1, n2, tLive, tSide

SceneDuties == [t \in {tLive, tSide} |->
    IF t = tLive THEN {"send", "contacts", "deletes"} ELSE {"backfill", "sweep", "names"}]
NoTwin == [x \in {} |-> x]

\* A contact who takes no part; what is known of them from earlier tells the scenes apart.
Strangers ==
    [chain |-> [name |-> n1, push |-> FALSE], fill |-> [name |-> None, push |-> FALSE],
     names |-> [name |-> None, push |-> TRUE]]
scene == CHOOSE s \in DOMAIN Strangers : contacts[lid3] = Strangers[s]

SceneInit ==
    /\ contacts \in {[j \in Jids |-> IF j = lid3 THEN Strangers[s] ELSE Strangers.fill] :
                        s \in DOMAIN Strangers}
    /\ chats = [j \in Jids |-> None] /\ jid_aliases = [j \in Jids |-> None]
    /\ messages = [m \in Msgs |-> None] /\ refused = {}
    /\ todo = [t \in Tasks |-> <<>>] /\ held = [t \in Tasks |-> <<>>]

SceneSpec == SceneInit /\ [][Next]_vars

\* The store calls of the side task in each scene.
SideCalls == [chain |-> {}, fill |-> {"backfill", "register", "insert", "select", "sweep"}, names |-> {"link", "name"}]
NamedBy(t, n) == {todo[t][i].op : i \in {k \in DOMAIN todo[t] : todo[t][k].arg = n}}
Uses(t, x) == \E i \in DOMAIN todo[t] : x \in {todo[t][i].jid, todo[t][i].arg}
Runs(t) == {todo[t][i].op : i \in DOMAIN todo[t]}

\* Each scene has its handlers; the second LID appears in one only, the second name
\* only as a push name beside the name pass.
InScene ==
    /\ Runs(tSide) \subseteq SideCalls[scene]
    /\ scene # "chain" => "delete" \notin Runs(tLive)
    /\ \A t \in Tasks : ~Uses(t, lid3) /\ (scene # "chain" => ~Uses(t, lid2))
    /\ \A t \in Tasks : NamedBy(t, n2) \subseteq (IF scene = "names" THEN {"push"} ELSE {})

\* CanonicalIsSettled, when only links make aliases.
ChainIsSettled == scene = "chain" => CanonicalIsSettled

\* LinkedStaysLinked, when only links make aliases; and NamesSurviveMerges: the backfill
\* registers an alias a step before it inserts the row.
LinksKeep == [][(scene = "chain" => KeepsLinks) /\ (scene # "fill" => KeepsNames)]_vars
=============================================================================
