----------------------------- MODULE MCMessageLog -----------------------------
(***************************************************************************)
(* Small instances of MessageLog: one or two live tasks (two events under  *)
(* way at once), one task of the history import and a command of the user  *)
(* interface, each with the handlers its run is about.                     *)
(***************************************************************************)
EXTENDS MessageLog

CONSTANTS theirs, mine, live, late, side, ui

\* The message of the other side is the older one.
Ages == [m \in Msgs |-> IF m = theirs THEN 1 ELSE 2]

\* A second live task has messages, so that everything meets a message under way.
Only(l, s, u) ==
    [t \in Tasks |-> IF t = live THEN l ELSE IF t = late THEN {"inbound"} ELSE IF t = side THEN s ELSE u]

\* At most two handlers are under way at once.
TwoAtOnce == Cardinality({t \in Tasks : ~Idle(t)}) <= 2

LiveDuties == Only({"inbound", "reactions", "receipts", "deletes"}, {}, {"send"})
CommandDuties == Only({"inbound", "delete-for-me", "reads", "edits", "revokes"}, {},
                      {"echo", "edit", "revoke", "send"})
SendDuties == Only({"undecryptable", "clears"}, {"import"}, {"send"})

ReimportDuties == Only({"inbound", "receipts"}, {"import"}, {})
EditDuties == Only({"receipts"}, {}, {"send", "edit"})
EchoDuties == Only({"receipts", "reads"}, {}, {"echo"})
RaceDuties == Only({"reactions"}, {"import"}, {})
RetryDuties == Only({"inbound", "undecryptable", "reactions"}, {}, {})
RevokeDuties == Only({"revokes"}, {"import"}, {})
ForMeDuties == Only({"inbound", "delete-for-me"}, {}, {"send"})
PageDuties == Only({}, {"import"}, {})
RevokedDuties == Only({"inbound", "revokes"}, {}, {})
MetaDuties == Only({"inbound", "reads"}, {}, {"echo"})
=============================================================================
