---------------------------- MODULE ChatIdentity ----------------------------
(***************************************************************************)
(* Chat identity in the local store: which chat row a JID is stored under. *)
(*                                                                         *)
(* A person is reachable under a phone-number JID and under a LID; a group *)
(* may surface under a group-LID twin of its @g.us id.  The table          *)
(* jid_aliases maps every such JID onto one canonical chat row, and every  *)
(* writer resolves it with canonical_jid before it touches a row.          *)
(*                                                                         *)
(* The store is one SQLite connection behind a mutex, but a store call     *)
(* locks it several times: canonical_jid takes and releases the lock, then *)
(* the statement takes it again.  Those are the atomic steps here: a task  *)
(* (a live event handler, the history-import thread, the name pass, the    *)
(* contact backfill, the sweep) runs its handler as a list of store calls  *)
(* `todo`, and each call is one Resolve step per JID it canonicalises and  *)
(* one step for its statements.  Message content, previews and statuses    *)
(* are in MessageLog; here a message is its id and the chat it hangs on.   *)
(***************************************************************************)
EXTENDS Naturals, Sequences, FiniteSets

CONSTANTS
    Pns, Lids, Groups, GroupLids,   \* the JIDs, by server and form
    Twin,                           \* the @g.us id with the number of a group LID
    Names, Blank,                   \* real names, and the empty name
    Msgs, Tasks, None,
    Duties                          \* the handlers each task runs

Kinds == {"inbound", "send", "undecryptable", "import", "contacts", "patches", "deletes", "names",
          "backfill", "sweep"}
Jids == Pns \cup Lids \cup Groups \cup GroupLids

ASSUME IdentityAssumption ==
    /\ Twin \in [GroupLids -> Groups]
    /\ Blank \notin Names \cup Jids
    /\ None \notin Names \cup Jids
    /\ Names \cap Jids = {}
    /\ Duties \in [Tasks -> SUBSET Kinds]
    /\ IsFiniteSet(Jids)
    /\ (Pns \cup Lids) \cap (Groups \cup GroupLids) = {}

VARIABLES
    chats,          \* the chats table, by id
    messages,       \* the chat_id column of the messages table, by id
    jid_aliases,    \* the canonical column of the jid_aliases table, by jid
    contacts,       \* the contacts table, by id
    todo,           \* store calls left in the handler each task is running
    held,           \* what canonical_jid returned so far for the call at the head
    refused         \* the calls whose message the foreign key refused so far

vars == <<chats, messages, jid_aliases, contacts, todo, held, refused>>
tables == <<chats, messages, jid_aliases, contacts>>

(***************************************************************************)
(* JIDs and names.  A JID used as a name is its user part, the number.     *)
(***************************************************************************)
is_lid(j) == j \in Lids \cup GroupLids
is_group_v6(j) == j \in Groups      \* mutant: group LIDs taken for direct chats
is_group(j) == j \in Groups \cup GroupLids
user(j) == IF j \in GroupLids THEN Twin[j] ELSE j
name_is_placeholder(j, name) == name \in {Blank, user(j)}

Sources == {"none", "placeholder", "pushname", "contact", "subject"}
Row == [name : Names \cup Jids \cup {Blank}, src : Sources, dated : BOOLEAN, unread : BOOLEAN]
\* mutant: a deferred row without its default name
NullNameRow == [name |-> None, src |-> "none", dated |-> FALSE, unread |-> FALSE]
DeferredRow == [name |-> Blank, src |-> "none", dated |-> FALSE, unread |-> FALSE]
ASSUME NoRowIsNone == None \notin Row
Contact == [name : Names \cup {None}, push : BOOLEAN]

Exists(j) == chats[j] # None
canonical_jid(j) == IF jid_aliases[j] = None THEN j ELSE jid_aliases[j]
MessagesOf(j) == {m \in Msgs : messages[m] = j}
Named(j) == Exists(j) /\ ~name_is_placeholder(j, chats[j].name)

\* The row insert-or-update of a statement with ON CONFLICT(id).
Put(j, row) == [chats EXCEPT ![j] = row]

\* mutant: foreign keys off
DeleteRowsOnly(gone) ==
    /\ chats' = [j \in Jids |-> IF j \in gone THEN None ELSE chats[j]]
    /\ UNCHANGED messages
\* DELETE FROM chats WHERE id IN gone: messages go with their chat (ON DELETE CASCADE).
DeleteRows(gone) ==
    /\ chats' = [j \in Jids |-> IF j \in gone THEN None ELSE chats[j]]
    /\ messages' = [m \in Msgs |-> IF messages[m] \in gone THEN None ELSE messages[m]]

(***************************************************************************)
(* Handlers are lists of store calls.                                      *)
(***************************************************************************)
Stores == {"message", "placeholder", "imported"}     \* upsert_message, by caller
Call(op, j, arg) == [op |-> op, jid |-> j, arg |-> arg]
CallType ==
    [op : {"activity", "refresh", "history"}, jid : Jids, arg : Names \cup {None}]
    \cup [op : {"name", "push", "rename", "backfill", "insert"}, jid : Jids, arg : Names]
    \cup [op : {"meta", "read", "unread", "delete"}, jid : Jids, arg : {None}]
    \cup [op : Stores, jid : Jids, arg : Msgs]
    \cup [op : {"link", "register"}, jid : Jids, arg : Jids]
    \cup [op : {"twin"}, jid : GroupLids, arg : {None}]
    \cup [op : {"select", "twins"}, jid : {None}, arg : {None}]
    \cup [op : {"sweep"}, jid : {None}, arg : SUBSET Jids]

\* How many JIDs a call canonicalises before its statement runs.
Resolves(op) ==
    IF op = "link" THEN 2
    ELSE IF op \in {"rename", "register", "insert", "select", "sweep", "twins", "twin"} THEN 0 ELSE 1

Idle(t) == todo[t] = <<>>
Head1(t) == todo[t][1]
Ready(t, op) == ~Idle(t) /\ Head1(t).op = op /\ Len(held[t]) = Resolves(op)

\* The call at the head returns and the handler goes on with `rest`.
ReturnWith(t, rest) ==
    /\ todo' = [todo EXCEPT ![t] = rest]
    /\ held' = [held EXCEPT ![t] = <<>>]
Return(t) == ReturnWith(t, Tail(todo[t]))

\* canonical_jid under its own lock, for the next JID of the call at the head.
\* link_jids returns at once when both sides are, or resolve to, the same JID.
Resolve(t) ==
    /\ ~Idle(t)
    /\ LET call == Head1(t)
           next == IF held[t] = <<>> THEN call.jid ELSE call.arg
       IN /\ Len(held[t]) < Resolves(call.op)
          /\ IF call.op = "link" /\ (call.jid = call.arg \/ held[t] = <<canonical_jid(next)>>)
             THEN Return(t)
             ELSE /\ held' = [held EXCEPT ![t] = Append(@, canonical_jid(next))]
                  /\ UNCHANGED todo
    /\ UNCHANGED <<tables, refused>>

(***************************************************************************)
(* The statements of the store calls.                                      *)
(***************************************************************************)
\* record_message_activity: creates or refreshes the row; a push name only
\* replaces an empty or numeric name, never on a group.  "activity" counts the
\* message as unread, "refresh" does not.
record_message_activity(t) ==
    /\ Ready(t, "activity") \/ Ready(t, "refresh")
    /\ LET j == held[t][1]
           hint == IF is_group(j) THEN None ELSE Head1(t).arg
           counted == Head1(t).op = "activity"
           known == contacts[j]
           fresh == [name |-> IF hint # None THEN hint
                              ELSE IF known.name # None /\ ~is_group(j) THEN known.name ELSE user(j),
                     src |-> IF hint # None THEN "pushname"
                             ELSE IF (known.name # None \/ known.push) /\ ~is_group(j)
                             THEN "contact" ELSE "placeholder",
                     dated |-> TRUE, unread |-> counted]
           rename == hint # None /\ name_is_placeholder(j, chats[j].name)
       IN chats' = Put(j, IF Exists(j)
                          THEN [name |-> IF rename THEN hint ELSE chats[j].name,
                                src |-> IF rename THEN "pushname" ELSE chats[j].src,
                                dated |-> TRUE, unread |-> chats[j].unread \/ counted]
                          ELSE fresh)
    /\ Return(t)
    /\ UNCHANGED <<messages, jid_aliases, contacts, refused>>

\* set_chat_last_message_meta and set_chat_flag (pin, mute, archive): for
\* identity they only create a missing row.
set_chat_flag(t) ==
    /\ Ready(t, "meta")
    /\ LET j == held[t][1] IN chats' = IF Exists(j) THEN chats ELSE Put(j, DeferredRow)
    /\ Return(t)
    /\ UNCHANGED <<messages, jid_aliases, contacts, refused>>

\* mark_chat_read and mark_chat_unread create a missing row too.
mark_chat(t, op) ==
    /\ Ready(t, op)
    /\ LET j == held[t][1]
           row == IF Exists(j) THEN chats[j] ELSE DeferredRow
       IN chats' = Put(j, [row EXCEPT !.unread = (op = "unread")])
    /\ Return(t)
    /\ UNCHANGED <<messages, jid_aliases, contacts, refused>>

\* upsert_message: a known id keeps its chat; the foreign key refuses a new
\* row whose chat does not exist.  The caller logs the error and goes on; the
\* importer then has no message to refresh the chat with.
upsert_message(t) ==
    /\ \E op \in Stores : Ready(t, op)
    /\ LET j == held[t][1]
           m == Head1(t).arg
       IN IF messages[m] # None \/ Exists(j)
          THEN /\ messages' = [messages EXCEPT ![m] = IF @ = None THEN j ELSE @]
               /\ Return(t)
               /\ UNCHANGED refused
          ELSE /\ refused' = refused \cup {Head1(t).op}
               /\ ReturnWith(t, SubSeq(todo[t], IF Head1(t).op = "imported" THEN 3 ELSE 2, Len(todo[t])))
               /\ UNCHANGED messages
    /\ UNCHANGED <<chats, jid_aliases, contacts>>

\* upsert_chat_from_history: the importer resolved the conversation once and
\* stores its messages under that id.  The blob may carry no timestamp, and a
\* server unread counter replaces the local one.
upsert_chat_from_history(t) ==
    /\ Ready(t, "history")
    /\ \E dated, unread \in BOOLEAN :
       LET j == held[t][1]
           real == Head1(t).arg
           src == IF real = None THEN "placeholder" ELSE IF is_group(j) THEN "subject" ELSE "contact"
           rename == real # None /\ name_is_placeholder(j, chats[j].name)
       IN chats' = Put(j, IF Exists(j)
                          THEN [name |-> IF rename THEN real ELSE chats[j].name,
                                src |-> IF rename THEN src ELSE chats[j].src,
                                dated |-> chats[j].dated \/ dated, unread |-> unread]
                          ELSE [name |-> IF real = None THEN user(j) ELSE real, src |-> src,
                                dated |-> dated, unread |-> unread])
    /\ ReturnWith(t, [i \in 1..(Len(todo[t]) - 1) |->
                        LET c == todo[t][i + 1]
                        IN IF c.op \in {"imported", "refresh"} THEN [c EXCEPT !.jid = held[t][1]] ELSE c])
    /\ UNCHANGED <<messages, jid_aliases, contacts, refused>>

\* rename_chat: a group subject, under the id the caller holds.
rename_chat(t) ==
    /\ Ready(t, "rename")
    /\ LET j == Head1(t).jid
           name == Head1(t).arg
       IN chats' = IF Exists(j) /\ chats[j].name # name
                   THEN Put(j, [chats[j] EXCEPT !.name = name, !.src = "subject"]) ELSE chats
    /\ Return(t)
    /\ UNCHANGED <<messages, jid_aliases, contacts, refused>>

\* apply_contact_name: under the JID and its canonical form, and on both rows.
apply_contact_name(t) ==
    /\ Ready(t, "name")
    /\ LET both == {Head1(t).jid, held[t][1]}
           name == Head1(t).arg
       IN /\ contacts' = [j \in Jids |-> IF j \in both THEN [contacts[j] EXCEPT !.name = name]
                                                       ELSE contacts[j]]
          /\ chats' = [j \in Jids |->
                         IF j \in both /\ Exists(j) /\ chats[j].name # name
                         THEN [chats[j] EXCEPT !.name = name, !.src = "contact"] ELSE chats[j]]
    /\ Return(t)
    /\ UNCHANGED <<messages, jid_aliases, refused>>

\* apply_push_name: only over a push name or a placeholder, by name_source.
AnyDirectName(j) == ~is_group(j)     \* mutant: provenance ignored
TakesPushName(j) == ~is_group(j) /\ chats[j].src \in {"pushname", "placeholder", "none"}
apply_push_name(t) ==
    /\ Ready(t, "push")
    /\ LET both == {Head1(t).jid, held[t][1]}
           name == Head1(t).arg
       IN /\ contacts' = [contacts EXCEPT ![Head1(t).jid].push = TRUE]
          /\ chats' = [j \in Jids |->
                         IF j \in both /\ Exists(j) /\ TakesPushName(j) /\ chats[j].name # name
                         THEN [chats[j] EXCEPT !.name = name, !.src = "pushname"] ELSE chats[j]]
    /\ Return(t)
    /\ UNCHANGED <<messages, jid_aliases, refused>>

\* pick_canonical_jid: a named row wins, then the form that is not a LID, then
\* the left one if it has a row.
pick_canonical_jid(l, r) ==
    IF Named(l) # Named(r) THEN IF Named(l) THEN l ELSE r
    ELSE IF is_lid(l) # is_lid(r) THEN IF is_lid(r) THEN l ELSE r
    ELSE IF Exists(l) THEN l ELSE r

\* mutant: the merged name is always the other row's
MergedRowOther(canonical, other) ==
    IF ~Exists(other) THEN chats[canonical] ELSE chats[other]
\* The chat row the merge leaves under the canonical id.
MergedRow(canonical, other) ==
    IF ~Exists(other) THEN chats[canonical]
    ELSE IF ~Exists(canonical) THEN chats[other]
    ELSE LET c == chats[canonical]
             o == chats[other]
             take == name_is_placeholder(canonical, c.name)
         IN [name |-> IF take THEN o.name ELSE c.name,
             src |-> IF take /\ o.src # "none" THEN o.src ELSE c.src,
             dated |-> c.dated \/ o.dated, unread |-> c.unread \/ o.unread]

\* mutants: the aliases point at the id that went away; only the two
\* identities of this call are re-pointed
RelinkedSwapped(touched, canonical, other) ==
    [j \in Jids |-> IF j \in touched \/ jid_aliases[j] = canonical THEN other ELSE jid_aliases[j]]
RelinkedShallow(touched, canonical, other) ==
    [j \in Jids |-> IF j \in touched THEN canonical ELSE jid_aliases[j]]
\* Every JID that named one of the two identities now names the canonical one.
Relinked(touched, canonical, other) ==
    [j \in Jids |-> IF j \in touched \/ jid_aliases[j] = other THEN canonical ELSE jid_aliases[j]]

\* link_jids: the transaction.  Its first statement moves the messages; when
\* the canonical row does not exist yet the foreign key refuses them, and the
\* whole transaction rolls back.
link_jids(t) ==
    /\ Ready(t, "link")
    /\ LET call == Head1(t)
           canonical == pick_canonical_jid(held[t][1], held[t][2])
           other == IF canonical = held[t][1] THEN held[t][2] ELSE held[t][1]
       IN IF MessagesOf(other) # {} /\ ~Exists(canonical)
          THEN UNCHANGED tables
          ELSE /\ messages' = [m \in Msgs |-> IF messages[m] = other THEN canonical ELSE messages[m]]
               /\ chats' = [chats EXCEPT ![canonical] = MergedRow(canonical, other), ![other] = None]
               /\ jid_aliases' = Relinked({call.jid, call.arg, held[t][1], held[t][2]}, canonical, other)
               /\ UNCHANGED contacts
    /\ Return(t)
    /\ UNCHANGED refused

\* merge_group_lid_twins: the group-LID rows are listed once, then each is
\* linked to its @g.us twin if there is local evidence of one.
Orders(S) == {f \in [1..Cardinality(S) -> S] : \A x \in S : \E i \in DOMAIN f : f[i] = x}
merge_group_lid_twins(t) ==
    /\ \/ /\ Ready(t, "twins")
          /\ \E order \in Orders({g \in GroupLids : Exists(g)}) :
                ReturnWith(t, [i \in DOMAIN order |-> Call("twin", order[i], None)] \o Tail(todo[t]))
       \/ /\ Ready(t, "twin")
          /\ LET g == Head1(t).jid
             IN IF Exists(Twin[g]) \/ MessagesOf(Twin[g]) # {}
                THEN ReturnWith(t, <<Call("link", g, Twin[g])>> \o Tail(todo[t]))
                ELSE Return(t)
    /\ UNCHANGED <<tables, refused>>

(***************************************************************************)
(* The contact backfill.                                                   *)
(***************************************************************************)
contacts_missing_chats ==
    {j \in Jids : contacts[j].name # None /\ ~Exists(j) /\ ~Exists(canonical_jid(j))}

\* contact_backfill_identity: an existing alias wins; else a LID contact takes
\* the identity of a phone-number contact with the same name (the oldest row:
\* any of them here) and will be registered as its alias.
contact_backfill_identity(t) ==
    /\ Ready(t, "backfill")
    /\ LET j == Head1(t).jid
           name == Head1(t).arg
           namesakes == {p \in Pns : contacts[p].name = name}
       IN IF held[t][1] = j /\ j \in Lids /\ namesakes # {}
          THEN \E p \in namesakes : ReturnWith(t, <<Call("register", j, p), Call("insert", p, name)>>
                                                  \o Tail(todo[t]))
          ELSE ReturnWith(t, <<Call("insert", held[t][1], name)>> \o Tail(todo[t]))
    /\ UNCHANGED <<tables, refused>>

\* register_jid_alias records the alias without merging rows.
register_jid_alias(t) ==
    /\ Ready(t, "register")
    /\ jid_aliases' = [jid_aliases EXCEPT ![Head1(t).jid] = Head1(t).arg]
    /\ Return(t)
    /\ UNCHANGED <<chats, messages, contacts, refused>>

\* upsert_chat_from_contact: an existing row is left alone.
upsert_chat_from_contact(t) ==
    /\ Ready(t, "insert")
    /\ LET j == Head1(t).jid
       IN chats' = IF Exists(j) THEN chats
                   ELSE Put(j, [DeferredRow EXCEPT !.name = Head1(t).arg, !.src = "contact"])
    /\ Return(t)
    /\ UNCHANGED <<messages, jid_aliases, contacts, refused>>

(***************************************************************************)
(* The sweep: the empty contact-sourced rows are selected under one lock   *)
(* and deleted under the next.                                             *)
(***************************************************************************)
EmptyContactChat(j) ==
    /\ Exists(j) /\ chats[j].src = "contact" /\ ~chats[j].dated /\ ~chats[j].unread
    /\ \A m \in Msgs : messages[m] # j /\ (messages[m] = None \/ jid_aliases[messages[m]] # j)

empty_contact_chats(t) ==
    /\ Ready(t, "select")
    /\ ReturnWith(t, <<Call("sweep", None, {j \in Jids : EmptyContactChat(j)})>> \o Tail(todo[t]))
    /\ UNCHANGED <<tables, refused>>

delete_empty_contact_chats(t) ==
    /\ Ready(t, "sweep")
    /\ DeleteRows(Head1(t).arg)
    /\ Return(t)
    /\ UNCHANGED <<jid_aliases, contacts, refused>>

delete_chat(t) ==
    /\ Ready(t, "delete")
    /\ DeleteRows({held[t][1]})
    /\ Return(t)
    /\ UNCHANGED <<jid_aliases, contacts, refused>>

(***************************************************************************)
(* The handlers.  A live handler resolves the chat id first, and the store *)
(* calls it makes resolve that id again.                                   *)
(***************************************************************************)
Start(t, calls) ==
    /\ Idle(t)
    /\ todo' = [todo EXCEPT ![t] = calls]
    /\ UNCHANGED <<tables, held, refused>>

\* mutant: the message before its chat row
inbound_message_first(t) ==
    \E j \in Jids, m \in Msgs, hint \in Names \cup {None}, bump \in {"activity", "refresh"} :
       LET c == canonical_jid(j)
       IN Start(t, <<Call("message", c, m), Call(bump, c, hint), Call("meta", c, None)>>)
\* handle_inbound_message: the activity first, so that the chat row exists.
handle_inbound_message(t) ==
    \E j \in Jids, m \in Msgs, hint \in Names \cup {None}, bump \in {"activity", "refresh"} :
       LET c == canonical_jid(j)
       IN Start(t, <<Call(bump, c, hint), Call("meta", c, None), Call("message", c, m)>>)

\* send_text: the pending row of an own message.
send_text(t) ==
    \E j \in Jids, m \in Msgs :
       Start(t, <<Call("meta", j, None), Call("refresh", j, None), Call("message", j, m)>>)

\* UndecryptableMessage: the placeholder is stored first, unless it is known.
handle_undecryptable(t) ==
    \E j \in Jids, m \in Msgs, bump \in {"activity", "refresh"} :
       LET c == canonical_jid(j)
       IN Start(t, (IF messages[m] = None THEN <<Call("placeholder", c, m)>> ELSE <<>>)
                   \o <<Call(bump, c, None)>>)

\* ContactUpdate: link the identities it names, then name each of them.
handle_contact_update(t) ==
    \E p \in Pns, l \in Lids, n \in Names :
       \E targets \in {<<p>>, <<l>>, <<p, l>>, <<l, p>>} :
          Start(t, (IF Len(targets) = 2 THEN <<Call("link", targets[1], targets[2])>> ELSE <<>>)
                   \o [i \in DOMAIN targets |-> Call("name", targets[i], n)])

handle_push_name(t) == \E j \in Pns \cup Lids, n \in Names : Start(t, <<Call("push", j, n)>>)
handle_flag_patch(t) ==
    \E j \in Jids, op \in {"meta", "read", "unread"} : Start(t, <<Call(op, canonical_jid(j), None)>>)
handle_delete_chat(t) == \E j \in Jids : Start(t, <<Call("delete", canonical_jid(j), None)>>)

\* GroupUpdate with a subject, and the group name pass over the rows themselves.
handle_group_subject(t) ==
    \E g \in Groups \cup GroupLids, n \in Names : Start(t, <<Call("rename", canonical_jid(g), n)>>)

\* One conversation of a history blob, then the twin merge that ends an import.
import_history_sync(t) ==
    \E j \in Jids, n, push \in Names \cup {None}, m \in Msgs \cup {None} :
       Start(t, <<Call("history", j, n)>>
                \o (IF m = None THEN <<>> ELSE <<Call("imported", j, m), Call("refresh", j, push)>>)
                \o <<Call("twins", None, None)>>)

\* A usync answer names the LID of a direct chat that still shows a number.
run_contact_name_pass(t) ==
    \E j \in Pns, l \in Lids, n \in Names \cup {None} :
       /\ \E shown \in {j, l} : Exists(shown) /\ chats[shown].name \in {Blank, user(shown)}
       /\ Start(t, <<Call("link", j, l)>> \o (IF n = None THEN <<>> ELSE <<Call("name", j, n)>>))

backfill_chats_from_contacts(t) ==
    \E order \in Orders(contacts_missing_chats) :
       /\ order # <<>>
       /\ Start(t, [i \in DOMAIN order |-> Call("backfill", order[i], contacts[order[i]].name)])

sweep(t) == Start(t, <<Call("select", None, None)>>)

(***************************************************************************)
(* Specification                                                           *)
(***************************************************************************)
Init ==
    /\ chats = [j \in Jids |-> None]
    /\ messages = [m \in Msgs |-> None]
    /\ jid_aliases = [j \in Jids |-> None]
    /\ contacts = [j \in Jids |-> [name |-> None, push |-> FALSE]]
    /\ todo = [t \in Tasks |-> <<>>]
    /\ held = [t \in Tasks |-> <<>>]
    /\ refused = {}

Statement(t) ==
    \/ record_message_activity(t)
    \/ set_chat_flag(t)
    \/ mark_chat(t, "read")
    \/ mark_chat(t, "unread")
    \/ upsert_message(t)
    \/ upsert_chat_from_history(t)
    \/ rename_chat(t)
    \/ apply_contact_name(t)
    \/ apply_push_name(t)
    \/ link_jids(t)
    \/ merge_group_lid_twins(t)
    \/ contact_backfill_identity(t)
    \/ register_jid_alias(t)
    \/ upsert_chat_from_contact(t)
    \/ empty_contact_chats(t)
    \/ delete_empty_contact_chats(t)
    \/ delete_chat(t)

Handler(t) ==
    \/ "inbound" \in Duties[t] /\ handle_inbound_message(t)
    \/ "send" \in Duties[t] /\ send_text(t)
    \/ "undecryptable" \in Duties[t] /\ handle_undecryptable(t)
    \/ "import" \in Duties[t] /\ import_history_sync(t)
    \/ "contacts" \in Duties[t] /\ (handle_contact_update(t) \/ handle_push_name(t))
    \/ "patches" \in Duties[t] /\ (handle_flag_patch(t) \/ handle_group_subject(t))
    \/ "deletes" \in Duties[t] /\ handle_delete_chat(t)
    \/ "names" \in Duties[t] /\ run_contact_name_pass(t)
    \/ "backfill" \in Duties[t] /\ backfill_chats_from_contacts(t)
    \/ "sweep" \in Duties[t] /\ sweep(t)

Next == \E t \in Tasks : Resolve(t) \/ Statement(t) \/ Handler(t)

Spec == Init /\ [][Next]_vars

(***************************************************************************)
(* Properties                                                              *)
(***************************************************************************)
\* Every table and every task keeps its shape.
TypeOK ==
    /\ chats \in [Jids -> Row \cup {None}]
    /\ messages \in [Msgs -> Jids \cup {None}]
    /\ jid_aliases \in [Jids -> Jids \cup {None}]
    /\ contacts \in [Jids -> Contact]
    /\ todo \in [Tasks -> Seq(CallType)]
    /\ held \in [Tasks -> Seq(Jids)]
    /\ refused \subseteq Stores

\* No message is left without its chat, whatever is merged, swept or deleted
\* between the steps of other tasks (messages.chat_id REFERENCES chats).
ForeignKey == \A m \in Msgs : messages[m] # None => Exists(messages[m])

\* Resolving a JID twice is resolving it once: links re-point every older
\* alias at the new canonical id, so no alias names another alias.
CanonicalIsSettled == \A j \in Jids : canonical_jid(canonical_jid(j)) = canonical_jid(j)

\* One person (or group) has one row: a chat row exists only under a canonical
\* id, so traffic under any of the JIDs lands on the row the list shows.
OneRowPerIdentity == \A j \in Jids : Exists(j) => canonical_jid(j) = j

\* Once two JIDs are known to be the same person, nothing separates them again.
KeepsLinks == \A a, b \in Jids : canonical_jid(a) = canonical_jid(b) => canonical_jid(a)' = canonical_jid(b)'
LinkedStaysLinked == [][KeepsLinks]_vars

\* A name from the address book or a group subject is never replaced by a
\* weaker one while its row lives, whichever writers interleave and whatever
\* the row is merged with.
StrongNamesStay ==
    [][\A j \in Jids : /\ Named(j) /\ chats[j].src \in {"contact", "subject"}
                       /\ chats'[j] # None
                       => /\ chats'[j].src \in {"contact", "subject"}
                          /\ ~name_is_placeholder(j, chats'[j].name)]_vars

\* "that leaked into a group row": a group is never named after its last sender,
\* by whichever of its ids the message arrived.
GroupsNeverTakePushNames ==
    \A j \in Groups \cup GroupLids : Exists(j) => chats[j].src # "pushname"

\* A group is one row under one of its ids, and no sender's name.
GroupsAreWhole == OneRowPerIdentity /\ GroupsNeverTakePushNames

\* A live or imported message always finds its chat row: the row is written
\* first and no step in between takes it away.
MessagesFindTheirChat == refused \cap {"message", "imported"} = {}

\* A merge keeps the name: the identity of a named row is named afterwards,
\* unless the row was deleted.
KeepsNames == \A j \in Jids : Named(j) /\ jid_aliases' # jid_aliases => Named(canonical_jid(j))'
NamesSurviveMerges == [][KeepsNames]_vars

(***************************************************************************)
(* What comments and tests of the repository say, and the code does not do *)
(***************************************************************************)
\* "Messages and the chat row of the non-canonical id are moved onto the
\* canonical one": after link_jids the two JIDs resolve to one.
LinkMakesOne ==
    [][\A t \in Tasks, a, b \in Jids :
          Ready(t, "link") /\ Head1(t) = Call("link", a, b) /\ todo'[t] = Tail(todo[t])
          => canonical_jid(a)' = canonical_jid(b)']_vars

\* "storing a placeholder keeps the list honest instead of silently swallowing
\* the message": the placeholder of an undecryptable message is stored.
PlaceholderIsStored == "placeholder" \notin refused

\* "the non-LID form wins as canonical" when group-LID twins are merged.
TwinsKeepTheGroupForm == \A g \in GroupLids : canonical_jid(Twin[g]) = Twin[g]

\* "Direct chats whose name is still a numeric placeholder (LID or phone)" are
\* what the name pass selects: no direct row shows the number of another JID.
NoForeignNumber == \A j \in Pns \cup Lids : Exists(j) => chats[j].name \notin Jids \ {j}

\* The sweep deletes "contact-sourced rows that still have no messages".
SweepTakesNoMessage ==
    [][\A t \in Tasks : Ready(t, "sweep") /\ todo'[t] = Tail(todo[t]) => messages' = messages]_vars

\* apply_push_name renames a row whose "current name came from a push name or
\* is still a placeholder": a numeric direct name is never recorded as "contact".
NumbersAreNotContactNames ==
    \A j \in Pns \cup Lids : Exists(j) /\ chats[j].src = "contact" => chats[j].name # j
=============================================================================
