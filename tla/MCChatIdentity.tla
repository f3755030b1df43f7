--------------------------- MODULE MCChatIdentity ---------------------------
(* Instances of ChatIdentity for TLC: who runs which handlers. *)
EXTENDS ChatIdentity

CONSTANTS pn, lid, lid2, grp, glid, tLive, tSide

NoTwin == [x \in {} |-> x]
OneTwin == [x \in {glid} |-> grp]

Live == {"inbound", "send", "undecryptable"}
\* One task: handlers never interleave.
SerialDuties == [t \in {tLive} |-> {"inbound", "send", "import", "contacts", "patches", "deletes", "names"}]
LiveDuties == [t \in {tLive} |-> Live]
GroupDuties == [t \in {tLive} |-> Live \cup {"import", "patches", "deletes"}]
ChainDuties == [t \in {tLive} |-> {"send", "contacts", "deletes"}]
CycleDuties == [t \in {tLive} |-> {"contacts", "deletes", "backfill"}]
\* Handlers beside the contact backfill and the sweep, or the name pass.
Beside(live, side) == [t \in {tLive, tSide} |-> IF t = tLive THEN live ELSE side]
BackfillDuties == Beside({"send", "contacts"}, {"backfill", "sweep"})
NameDuties == Beside({"send", "contacts"}, {"names"})
RaceDuties == Beside({"inbound"}, {"names"})
=============================================================================
