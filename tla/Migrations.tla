------------------------------- MODULE Migrations -------------------------------
(***************************************************************************)
(* Opening the database (Store::open, Store::migrate and the files of      *)
(* schema/).  Every SQL statement commits by itself: the program may end   *)
(* between any two of them, and the next start opens what is there.  The   *)
(* database holds one chat; others would be changed the same way.          *)
(***************************************************************************)
EXTENDS Integers, Sequences, FiniteSets

CONSTANTS
    Null,
    OldChats,       \* the chat, as earlier versions of the program may have left it
    MaxKills,       \* bound: how often the program ends while it opens the database
    MaxOpens        \* bound: how often it is opened

VARIABLES
    database,       \* user_version, the tables and added columns, and the chat
    opening,        \* closed, reading, running, activity, stamping, open or failed
    from,           \* the version that was read
    at,             \* the batch and statement to run next
    wasOpen,        \* the database has been opened by this version before
    torn,           \* the program ended inside a batch, after a column was added
    kills, opens

schemaVars == <<database, opening, from, at, wasOpen, torn, kills, opens>>

Create(table) == [op |-> "create", on |-> table]
AddColumn(column) == [op |-> "alter", on |-> column]
Do(op) == [op |-> op, on |-> "chat"]

\* mutant: the file of version 7 does not end in its PRAGMA
SchemaUnstamped ==
    << <<Create("chats"), Create("messages"), Create("contacts")>>,
       <<AddColumn("raw_proto"), Create("media"), Do("stamp")>>,
       <<Create("reactions"), Do("stamp")>>,
       <<AddColumn("starred"), Do("purge"), Do("stamp")>>,
       <<Create("call_log"), Do("stamp")>>,
       <<Create("statuses"), Do("stamp")>>,
       <<AddColumn("last_kind"), AddColumn("last_from_me")>>,
       <<Create("jid_aliases"), Do("stamp")>>,
       <<Create("pending_reactions"), Do("stamp")>>,
       <<AddColumn("name_source"), Do("reclassify"), Do("reset"), Do("stamp")>> >>
\* The batches of migrate(); "stamp" is the file's PRAGMA user_version, which the first lacks.
Schema ==
    << <<Create("chats"), Create("messages"), Create("contacts")>>,
       <<AddColumn("raw_proto"), Create("media"), Do("stamp")>>,
       <<Create("reactions"), Do("stamp")>>,
       <<AddColumn("starred"), Do("purge"), Do("stamp")>>,
       <<Create("call_log"), Do("stamp")>>,
       <<Create("statuses"), Do("stamp")>>,
       <<AddColumn("last_kind"), AddColumn("last_from_me"), Do("stamp")>>,
       <<Create("jid_aliases"), Do("stamp")>>,
       <<Create("pending_reactions"), Do("stamp")>>,
       <<AddColumn("name_source"), Do("reclassify"), Do("reset"), Do("stamp")>> >>

SCHEMA_VERSION == Len(Schema)

\* A chat with the rows of its messages.
MessageRow == [row : Int, kind : STRING, time : Int]
ChatRow ==
    [messages : SUBSET MessageRow, activity : Int, kind : STRING \cup {Null}, group : BOOLEAN, longLid : BOOLEAN,
     name : {"", "name", "subject"}, source : {"", "placeholder", "subject"}]
IsTable(messages) == IsFiniteSet(messages) /\ \A m, n \in messages : m.row = n.row => m = n

ASSUME SchemaAssumption == \A chat \in OldChats : chat \in ChatRow /\ IsTable(chat.messages)

Made(k) == {Schema[k][i].on : i \in {j \in DOMAIN Schema[k] : Schema[k][j].op \in {"create", "alter"}}}
MadeBy(version) == UNION {Made(k) : k \in 1..version}

\* The newest message, the later row of two at one time.
Newest(messages) ==
    CHOOSE m \in messages : \A n \in messages \ {m} : n.time < m.time \/ (n.time = m.time /\ n.row < m.row)

\* A database of an earlier version, closed in good order: its messages of version 4 and
\* later are no system rows, and columns it does not have hold what ALTER TABLE gives them.
SchemaInit ==
    /\ \E version \in 0..SCHEMA_VERSION, chat \in OldChats :
           /\ version >= 4 => \A m \in chat.messages : m.kind # "system"
           /\ database = [version |-> version, has |-> MadeBy(version),
                          chat |-> [chat EXCEPT !.kind = IF version < 7 THEN Null ELSE @,
                                                !.source = IF version < 10 THEN "" ELSE @]]
    /\ opening = "closed" /\ from = 0 /\ at = <<1, 1>>
    /\ wasOpen = FALSE /\ torn = FALSE
    /\ kills = 0 /\ opens = 0

-----------------------------------------------------------------------------
\* mutant: the last batch runs at every open
read_version_again ==
    /\ opening = "closed" /\ opens < MaxOpens
    /\ opens' = opens + 1
    /\ from' = database.version
    /\ opening' = "running"
    /\ at' = <<IF database.version < SCHEMA_VERSION THEN database.version + 1 ELSE SCHEMA_VERSION, 2>>
    /\ UNCHANGED <<database, wasOpen, torn, kills>>
\* migrate() begins: every batch of a version above the one that is read is to run.
read_version ==
    /\ opening = "closed" /\ opens < MaxOpens
    /\ opens' = opens + 1
    /\ from' = database.version
    /\ IF database.version < SCHEMA_VERSION
       THEN opening' = "running" /\ at' = <<database.version + 1, 1>>
       ELSE opening' = "backfill" /\ UNCHANGED at
    /\ UNCHANGED <<database, wasOpen, torn, kills>>

\* What a statement does to the chat.
\* 010 takes a long numeric LID for a group, and forgets the names of groups.
Changed(chat, op) ==
    CASE op = "purge" -> [chat EXCEPT !.messages = {m \in @ : m.kind # "system"}]
      [] op = "reclassify" -> [chat EXCEPT !.group = @ \/ chat.longLid]
      [] op = "reset" -> IF chat.group THEN [chat EXCEPT !.name = "", !.source = "placeholder"] ELSE chat
      [] OTHER -> chat

\* One statement of a batch; after the last batch the backfills follow.
run_statement ==
    /\ opening = "running"
    /\ LET batch == Schema[at[1]]  statement == batch[at[2]]
       IN  /\ ~(statement.op = "alter" /\ statement.on \in database.has)
           /\ database' =
                [version |-> IF statement.op = "stamp" THEN at[1] ELSE database.version,
                 has |-> database.has \cup (IF statement.op \in {"create", "alter"} THEN {statement.on} ELSE {}),
                 chat |-> Changed(database.chat, statement.op)]
           /\ IF at[2] < Len(batch) THEN at' = <<at[1], at[2] + 1>> /\ UNCHANGED opening
              ELSE IF at[1] < Len(Schema) THEN at' = <<at[1] + 1, 1>> /\ UNCHANGED opening
              ELSE opening' = "backfill" /\ UNCHANGED at
    /\ UNCHANGED <<from, wasOpen, torn, kills, opens>>

\* ALTER TABLE fails on a column that is there, and with it migrate() and the start of the program.
column_exists ==
    /\ opening = "running"
    /\ LET statement == Schema[at[1]][at[2]] IN statement.op = "alter" /\ statement.on \in database.has
    /\ opening' = "failed"
    /\ UNCHANGED <<database, from, at, wasOpen, torn, kills, opens>>

\* mutant: only an open that migrated backfills
backfill_once ==
    /\ opening = "backfill"
    /\ LET chat == database.chat IN
       database' = IF chat.messages = {} \/ from = SCHEMA_VERSION THEN database
                   ELSE [database EXCEPT !.chat.kind = Newest(chat.messages).kind]
    /\ opening' = "activity"
    /\ UNCHANGED <<from, at, wasOpen, torn, kills, opens>>
\* The metadata of the newest message ...
backfill_newest ==
    /\ opening = "backfill"
    /\ LET chat == database.chat IN
       database' = IF chat.messages = {} THEN database
                   ELSE [database EXCEPT !.chat.kind = Newest(chat.messages).kind]
    /\ opening' = "activity"
    /\ UNCHANGED <<from, at, wasOpen, torn, kills, opens>>

\* ... and activity times that are behind their messages, at every open.
heal_activity ==
    /\ opening = "activity"
    /\ LET chat == database.chat
           times == {m.time : m \in chat.messages}
       IN  database' = IF \A t \in times : t <= chat.activity THEN database
                       ELSE [database EXCEPT !.chat.activity = CHOOSE t \in times : \A u \in times : u <= t]
    /\ opening' = "stamping"
    /\ UNCHANGED <<from, at, wasOpen, torn, kills, opens>>

\* The version is set once more when it was behind; the store is open.
stamp_version ==
    /\ opening = "stamping"
    /\ database' = IF from < SCHEMA_VERSION THEN [database EXCEPT !.version = SCHEMA_VERSION] ELSE database
    /\ opening' = "open"
    /\ wasOpen' = TRUE
    /\ UNCHANGED <<from, at, torn, kills, opens>>

\* While the store is open the group-metadata pass finds the name of a group without one.
group_subject_found ==
    /\ opening = "open" /\ database.chat.source = "placeholder"
    /\ database' = [database EXCEPT !.chat.name = "subject", !.chat.source = "subject"]
    /\ UNCHANGED <<opening, from, at, wasOpen, torn, kills, opens>>

close ==
    /\ opening \in {"open", "failed"}
    /\ opening' = "closed"
    /\ UNCHANGED <<database, from, at, wasOpen, torn, kills, opens>>

\* The program ends while it opens the database.
kill ==
    /\ opening \in {"running", "backfill", "activity", "stamping"} /\ kills < MaxKills
    /\ kills' = kills + 1
    /\ opening' = "closed"
    /\ torn' = (torn \/ (opening = "running" /\ \E i \in 1..at[2] - 1 : Schema[at[1]][i].op = "alter"))
    /\ UNCHANGED <<database, from, at, wasOpen, opens>>

SchemaNext ==
    \/ read_version \/ run_statement \/ column_exists
    \/ backfill_newest \/ heal_activity \/ stamp_version
    \/ group_subject_found \/ close \/ kill

SchemaSpec == SchemaInit /\ [][SchemaNext]_schemaVars

-----------------------------------------------------------------------------
\* However often the program ended on the way, an open store has every table and column,
\* the newest message's kind in the chat's row, and an activity time not behind a message.
OpenIsWhole ==
    opening = "open" =>
        LET chat == database.chat IN
        /\ database.version = SCHEMA_VERSION /\ database.has = MadeBy(SCHEMA_VERSION)
        /\ chat.messages # {} => chat.kind = Newest(chat.messages).kind
        /\ \A m \in chat.messages : m.time <= chat.activity

\* Opening fails only after the program ended between ALTER TABLE and the end of its batch:
\* everywhere else the next open takes up where the last one stopped.
FailsOnlyWhenTorn == opening = "failed" => torn

\* The program may end at any statement: but for a torn ALTER TABLE, the next open makes up for it.
OpensWhole == OpenIsWhole /\ FailsOnlyWhenTorn

\* Once the store was open, opening it again changes nothing: names that were found since
\* are not forgotten again.
ReopenChangesNothing == [][wasOpen /\ opening # "open" => UNCHANGED database]_schemaVars

\* The database can always be opened again (schema/002_media.sql: the user_version guard
\* makes each batch run exactly once).
AlwaysOpens == opening # "failed"
=============================================================================
