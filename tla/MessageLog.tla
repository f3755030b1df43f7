------------------------------ MODULE MessageLog ------------------------------
(***************************************************************************)
(* The message tables of one chat and the handlers that write them: stored *)
(* messages with their delivery status, reactions and the reactions that   *)
(* arrived before their message, and the chat row with preview, activity   *)
(* and unread counter.                                                     *)
(*                                                                         *)
(* Every store call takes the connection's lock once (the JID it resolves  *)
(* first is ChatIdentity's matter) and is one step here.  A handler is the *)
(* list of the store calls and network requests it makes, `todo`.  Each    *)
(* task runs one handler at a time: the handlers of live events, each      *)
(* event's in a task of its own (the bot's default delivery, Concurrent),  *)
(* the detached history-import threads, and the commands of the user       *)
(* interface, which hold rows they read before a network round trip and    *)
(* write them after it.                                                    *)
(***************************************************************************)
EXTENDS Naturals, Sequences, FiniteSets

CONSTANTS
    Msgs, Own, Drafts,          \* message ids, this account's, this device's
    Stamp,                      \* the timestamp of each message
    Actors, Emojis, Removed,    \* who reacts, with what; the empty emoji
    Body, Edits,                \* a message's own text, and later ones
    Tasks, Duties,              \* the handlers each task runs
    None

Kinds == {"inbound", "undecryptable", "reactions", "receipts", "revokes", "edits", "reads",
          "delete-for-me", "clears", "deletes", "import", "send", "echo", "edit", "revoke"}

ASSUME MessageLogAssumption ==
    /\ Own \subseteq Msgs
    /\ Drafts \subseteq Own
    /\ Stamp \in [Msgs -> Nat \ {0}]
    /\ Removed \notin Emojis
    /\ Body \notin Edits
    /\ None \notin Emojis \cup Edits \cup Msgs \cup {Body, Removed}
    /\ Duties \in [Tasks -> SUBSET Kinds]

VARIABLES
    chat,           \* the chat's row, or None
    messages,       \* the messages table, by id
    reactions,      \* the reactions table, by message and actor
    pending,        \* the pending_reactions table, by message and actor
    todo,           \* store calls and requests left in each task's handler
    arrived,        \* what the server has of a draft and delivered of the others
    latest,         \* history: the last reaction handled, by message and actor
    told,           \* history: the highest status reported of each message
    fresh,          \* history: the messages the unread counter stands for
    raced           \* history: what handlers that were under way together are about

history == <<arrived, latest, told, fresh>>
tables == <<chat, messages, reactions, pending>>
vars == <<tables, todo, history, raced>>

(***************************************************************************)
(* Rows                                                                    *)
(***************************************************************************)
Statuses == {"pending", "sent", "delivered", "read", "played", "failed"}
status_rank(s) ==
    [pending |-> 0, sent |-> 1, delivered |-> 2, read |-> 3, played |-> 4, failed |-> 5][s]

Texts == {Body, None} \cup Edits
Row == [status : Statuses, kind : {"text", "unsupported"}, text : Texts]
Preview == [of : Msgs, text : Texts]
Chat == [preview : Preview \cup {None}, meta : Msgs \cup {None}, activity : Nat, unread : Nat]

ASSUME NoneIsNoRow == None \notin Row /\ None \notin Chat /\ None \notin Nat

\* A chat row created for a flag or for the preview's metadata only.
DeferredChat == [preview |-> None, meta |-> None, activity |-> 0, unread |-> 0]

Nobody == [a \in Actors |-> None]
EmptyIsAnEmoji(e) == e      \* mutant: the empty emoji is stored
Visible(e) == IF e = Removed THEN None ELSE e
Stored(m) == messages[m] # None

\* A message as it comes from the server, or as a sending command builds it.
InboundRow(m) == [status |-> IF m \in Own THEN "sent" ELSE "delivered", kind |-> "text", text |-> Body]
PlaceholderRow(m) == [InboundRow(m) EXCEPT !.kind = "unsupported", !.text = None]
OutgoingRow(status) == [status |-> status, kind |-> "text", text |-> Body]

\* ORDER BY timestamp DESC, rowid DESC: the last message of the timeline.
Newest(S) == {m \in S : \A n \in S : Stamp[n] <= Stamp[m]}

(***************************************************************************)
(* Store calls.                                                            *)
(***************************************************************************)
Call(op, m, arg) == [op |-> op, msg |-> m, arg |-> arg]
Idle(t) == todo[t] = <<>>
At(t, op) == ~Idle(t) /\ todo[t][1].op = op
Msg(t) == todo[t][1].msg
Arg(t) == todo[t][1].arg
ReturnWith(t, rest) == todo' = [todo EXCEPT ![t] = rest] /\ UNCHANGED raced
Return(t) == ReturnWith(t, Tail(todo[t]))
Becomes(t, op) == ReturnWith(t, [todo[t] EXCEPT ![1].op = op])

\* The unread counter of record_message_activity.
AnyCall(op) == TRUE         \* mutant: own messages count as unread too
increment_unread(op) == op = "activity"

\* record_message_activity: the preview is replaced whatever its age, the
\* activity only grows.  An importer that stored nothing does not call it.
ActivityReplaced(old, ts) == ts     \* mutant: the activity follows the preview
ActivityAfter(old, ts) == IF ts > old THEN ts ELSE old
record_message_activity(t) ==
    /\ At(t, "activity") \/ At(t, "refresh")
    /\ LET row == IF chat = None THEN DeferredChat ELSE chat
           m == Msg(t)
       IN IF m = None THEN UNCHANGED <<chat, fresh>>
          ELSE /\ chat' = [row EXCEPT !.preview = [of |-> m, text |-> Arg(t)],
                                      !.activity = ActivityAfter(@, Stamp[m]),
                                      !.unread = IF increment_unread(todo[t][1].op) THEN @ + 1 ELSE @]
               /\ fresh' = IF m \in Own \/ At(t, "refresh") THEN fresh ELSE fresh \cup {m}
    /\ Return(t)
    /\ UNCHANGED <<messages, reactions, pending, arrived, latest, told>>

set_chat_last_message_meta(t) ==
    /\ At(t, "meta")
    /\ chat' = [(IF chat = None THEN DeferredChat ELSE chat) EXCEPT !.meta = Msg(t)]
    /\ Return(t)
    /\ UNCHANGED <<messages, reactions, pending, history>>

\* ON CONFLICT(id): status and text are overwritten, the kind is kept.
OnConflict(old, new) == [old EXCEPT !.status = new.status, !.text = new.text]

\* upsert_message: the foreign key refuses a message without its chat row.
\* A command gives up then, the live handler has nothing to drain, and the
\* importer goes on with its next message; what it stored last in the timeline
\* is what its closing refresh is about.
Writers == {"store", "placeholder", "imported", "insert", "edited", "revoked"}
AfterRefusal(t) ==
    IF At(t, "placeholder") THEN Tail(todo[t])
    ELSE IF At(t, "imported") THEN Tail(Tail(todo[t])) ELSE <<>>
upsert_message(t) ==
    /\ \E op \in Writers : At(t, op)
    /\ LET m == Msg(t)
           rest == Tail(todo[t])
           newest(n) == IF n = None \/ Stamp[m] >= Stamp[n] THEN m ELSE n
       IN IF Stored(m) \/ chat # None
          THEN /\ messages' = [messages EXCEPT ![m] = IF Stored(m) THEN OnConflict(@, Arg(t)) ELSE Arg(t)]
               /\ ReturnWith(t, IF At(t, "imported") THEN [rest EXCEPT ![Len(rest)].msg = newest(@)] ELSE rest)
          ELSE /\ ReturnWith(t, AfterRefusal(t))
               /\ UNCHANGED messages
    /\ UNCHANGED <<chat, reactions, pending, history>>

\* find_message, for a reaction and for an undecryptable message: what the handler
\* does next under another lock is decided here.
find_reaction_target(t) ==
    /\ At(t, "lookup")
    /\ Becomes(t, IF Stored(Msg(t)) THEN "react" ELSE "buffer")
    /\ UNCHANGED <<tables, history>>

find_undecryptable(t) ==
    /\ At(t, "sighted")
    /\ IF Stored(Msg(t)) THEN Return(t) ELSE Becomes(t, "placeholder")
    /\ UNCHANGED <<tables, history>>

\* upsert_reaction: an empty emoji deletes the row; the foreign key refuses a
\* reaction to a message that is gone.
upsert_reaction(t) ==
    /\ At(t, "react")
    /\ LET m == Msg(t)
           e == Arg(t).emoji
       IN IF Stored(m)
          THEN /\ reactions' = [reactions EXCEPT ![m][Arg(t).actor] = Visible(e)]
               /\ latest' = [latest EXCEPT ![m][Arg(t).actor] = e]
          ELSE UNCHANGED <<reactions, latest>>
    /\ Return(t)
    /\ UNCHANGED <<chat, messages, pending, arrived, told, fresh>>

\* mutant: the reaction that was buffered first stays
BufferFirst(old, new) == IF old = None THEN new ELSE old
\* ON CONFLICT(message_id, reactor): the one that arrives last replaces it.
Buffered(old, new) == new
buffer_pending_reaction(t) ==
    /\ At(t, "buffer")
    /\ pending' = [pending EXCEPT ![Msg(t)][Arg(t).actor] = Buffered(@, Arg(t).emoji)]
    /\ latest' = [latest EXCEPT ![Msg(t)][Arg(t).actor] = Arg(t).emoji]
    /\ Return(t)
    /\ UNCHANGED <<chat, messages, reactions, arrived, told, fresh>>

drain_pending_reactions(t) ==
    /\ At(t, "drain")
    /\ LET m == Msg(t)
           held == pending[m]
       IN IF Stored(m)
          THEN /\ reactions' = [reactions EXCEPT ![m] =
                                  [a \in Actors |-> IF held[a] = None THEN @[a] ELSE Visible(held[a])]]
               /\ pending' = [pending EXCEPT ![m] = Nobody]
          ELSE UNCHANGED <<reactions, pending>>
    /\ Return(t)
    /\ UNCHANGED <<chat, messages, history>>

\* mutant: the last receipt wins
AnyStatus(old, new) == TRUE
\* set_message_status: "the status only ever upgrades".
Upgrades(old, new) == status_rank(new) > status_rank(old)
set_message_status(t) ==
    /\ At(t, "status")
    /\ messages' = [messages EXCEPT ![Msg(t)] =
                      IF @ # None /\ Upgrades(@.status, Arg(t)) THEN [@ EXCEPT !.status = Arg(t)] ELSE @]
    /\ told' = [told EXCEPT ![Msg(t)] = IF status_rank(Arg(t)) > @ THEN status_rank(Arg(t)) ELSE @]
    /\ Return(t)
    /\ UNCHANGED <<chat, reactions, pending, arrived, latest, fresh>>

mark_message_revoked(t) ==
    /\ At(t, "tombstone")
    /\ messages' = [messages EXCEPT ![Msg(t)] =
                      IF @ = None THEN None ELSE [@ EXCEPT !.text = None, !.kind = "unsupported"]]
    /\ Return(t)
    /\ UNCHANGED <<chat, reactions, pending, history>>

update_message_text(t) ==
    /\ At(t, "text")
    /\ messages' = [messages EXCEPT ![Msg(t)] =
                      IF @ = None THEN None ELSE [@ EXCEPT !.text = Arg(t), !.kind = "text"]]
    /\ Return(t)
    /\ UNCHANGED <<chat, reactions, pending, history>>

\* DELETE FROM messages: reactions go with their message (ON DELETE CASCADE).
\* What arrived about a deleted message is history no more.
DeleteMessages(gone) ==
    /\ messages' = [m \in Msgs |-> IF m \in gone THEN None ELSE messages[m]]
    /\ reactions' = [m \in Msgs |-> IF m \in gone THEN Nobody ELSE reactions[m]]
    /\ latest' = [m \in Msgs |-> IF m \in gone /\ Stored(m) THEN Nobody ELSE latest[m]]
    /\ told' = [m \in Msgs |-> IF m \in gone /\ Stored(m) THEN 0 ELSE told[m]]

delete_message(t) ==
    /\ At(t, "delete")
    /\ DeleteMessages({Msg(t)})
    /\ Return(t)
    /\ UNCHANGED <<chat, pending, arrived, fresh>>

\* list_messages(chat, 1) after a delete-for-me: the preview is taken from what
\* is left, under the next lock.
refresh_preview(t) ==
    /\ At(t, "list")
    /\ LET left == {m \in Msgs : Stored(m)}
       IN IF left = {} THEN ReturnWith(t, <<Call("clear", None, None)>>)
          ELSE \E m \in Newest(left) : ReturnWith(t, <<Call("refresh", m, messages[m].text)>>)
    /\ UNCHANGED <<tables, history>>

clear_chat(t) ==
    /\ At(t, "clear")
    /\ IF chat = None THEN UNCHANGED <<chat, messages, reactions, latest, told, fresh>>
       ELSE /\ DeleteMessages(Msgs)
            /\ chat' = [DeferredChat EXCEPT !.activity = chat.activity]
            /\ fresh' = {}
    /\ Return(t)
    /\ UNCHANGED <<pending, arrived>>

\* delete_chat removes buffered reactions by hand: they have no foreign key.
delete_chat(t) ==
    /\ At(t, "remove")
    /\ pending' = [m \in Msgs |-> Nobody]
    /\ messages' = [m \in Msgs |-> None]
    /\ reactions' = [m \in Msgs |-> Nobody]
    /\ latest' = [m \in Msgs |-> Nobody]
    /\ told' = [m \in Msgs |-> 0]
    /\ chat' = None
    /\ fresh' = {}
    /\ Return(t)
    /\ UNCHANGED arrived

\* mark_chat_read and mark_chat_unread.
mark_chat(t) ==
    /\ At(t, "mark")
    /\ LET row == IF chat = None THEN DeferredChat ELSE chat
       IN chat' = [row EXCEPT !.unread = IF Arg(t) = "read" THEN 0 ELSE IF @ = 0 THEN 1 ELSE @]
    /\ fresh' = IF Arg(t) = "read" THEN {} ELSE IF fresh = {} THEN {None} ELSE fresh
    /\ Return(t)
    /\ UNCHANGED <<messages, reactions, pending, arrived, latest, told>>

\* upsert_chat_from_history: the blob may carry the conversation's last
\* timestamp (0 if not) and an unread counter, which then replaces the local one.
upsert_chat_from_history(t) ==
    /\ At(t, "history")
    /\ \E ts \in {0} \cup {Stamp[m] : m \in Msgs}, counter \in {0, 1, None} :
       LET row == IF chat = None THEN DeferredChat ELSE chat
       IN chat' = [row EXCEPT !.activity = ActivityAfter(@, ts),
                              !.unread = IF counter = None THEN @ ELSE counter]
    /\ Return(t)
    /\ UNCHANGED <<messages, reactions, pending, history>>

(***************************************************************************)
(* Network requests.  The server answers, or the request fails; a message  *)
(* whose request failed may have been delivered all the same.              *)
(***************************************************************************)
server_accepts(t) ==
    /\ At(t, "sending") \/ At(t, "echoing")
    /\ arrived[Msg(t)] = "drafted"
    /\ arrived' = [arrived EXCEPT ![Msg(t)] = "message"]
    /\ UNCHANGED <<tables, todo, latest, told, fresh, raced>>

\* mutant: a failed request leaves the row alone
OnlySuccess(m, status) == IF status = "sent" THEN <<Call("status", m, status)>> ELSE <<>>
\* send_text upgrades or fails the row it stored before.
AfterSend(m, status) == <<Call("status", m, status)>>
send_answered(t) ==
    /\ At(t, "sending")
    /\ \E status \in {"sent", "failed"} :
          /\ status = "sent" => arrived[Msg(t)] = "message"
          /\ ReturnWith(t, AfterSend(Msg(t), status))
    /\ UNCHANGED <<tables, history>>

\* send_text_quoting, send_text_with_mentions and forward_message store the
\* message only now.
echo_answered(t) ==
    /\ At(t, "echoing")
    /\ \/ arrived[Msg(t)] = "message" /\ Return(t)
       \/ ReturnWith(t, <<>>)
    /\ UNCHANGED <<tables, history>>

\* edit_message and revoke_message store the row they read before.
request_answered(t) ==
    /\ At(t, "request")
    /\ \E rest \in {Tail(todo[t]), <<>>} : ReturnWith(t, rest)
    /\ UNCHANGED <<tables, history>>

(***************************************************************************)
(* The handlers.                                                           *)
(***************************************************************************)
Storing == {"store", "placeholder", "imported"}
Reacting == {"lookup", "react", "buffer"}

\* Two calls of handlers under way together that meet, and what they are about: two
\* reactions of one actor, a reaction and the row or the drain of its message (the
\* actor's reaction), a receipt and the row of its message (None, its receipts).
Meets(c, d, m, a) ==
    /\ c.msg = m /\ d.msg = m
    /\ \/ /\ c.op \in Reacting /\ c.arg.actor = a
          /\ \/ d.op \in Storing \cup {"drain"}
             \/ d.op \in Reacting /\ d.arg.actor = a
       \/ c.op = "status" /\ a = None /\ d.op \in Storing
Calls(list) == {list[i] : i \in 1..Len(list)}
Overlaps(t, calls) ==
    {p \in Msgs \X (Actors \cup {None}) :
       \E u \in Tasks \ {t} : \E c \in Calls(calls), d \in Calls(todo[u]) :
          Meets(c, d, p[1], p[2]) \/ Meets(d, c, p[1], p[2])}

\* An event arrives, and its handler is one of those under way from then on.
Start(t, calls) ==
    /\ Idle(t)
    /\ todo' = [todo EXCEPT ![t] = calls]
    /\ raced' = raced \cup Overlaps(t, calls)
    /\ UNCHANGED tables

\* mutant: buffered reactions are not applied when their message arrives
InboundNoDrain(m, bump) ==
    <<Call(bump, m, Body), Call("meta", m, None), Call("store", m, InboundRow(m))>>
InboundCalls(m, bump) ==
    <<Call(bump, m, Body), Call("meta", m, None), Call("store", m, InboundRow(m)), Call("drain", m, None)>>
Bump(m) == IF m \in Own THEN "refresh" ELSE "activity"

\* Messages the server has, and may say something about.
OnServer(m) == m \in Drafts => arrived[m] = "message"

\* A message is delivered decrypted once, perhaps after an undecryptable copy.
handle_inbound_message(t) ==
    \E m \in Msgs :
       /\ m \notin Drafts /\ arrived[m] # "message"
       /\ Start(t, InboundCalls(m, Bump(m)))
       /\ arrived' = [arrived EXCEPT ![m] = "message"]
       /\ UNCHANGED <<latest, told, fresh>>

handle_undecryptable(t) ==
    \E m \in Msgs :
       /\ m \notin Drafts /\ arrived[m] = "nothing"
       /\ Start(t, <<Call("sighted", m, PlaceholderRow(m)), Call(Bump(m), m, None)>>)
       /\ arrived' = [arrived EXCEPT ![m] = "placeholder"]
       /\ UNCHANGED <<latest, told, fresh>>

\* handle_reaction: looked up under one lock, stored or buffered under the next.
handle_reaction(t) ==
    \E m \in Msgs, a \in Actors, e \in Emojis \cup {Removed} :
       /\ OnServer(m)
       /\ Start(t, <<Call("lookup", m, [actor |-> a, emoji |-> e])>>)
       /\ UNCHANGED history

receipt_status == {"sent", "delivered", "read", "played"}
handle_receipt(t) ==
    \E m \in Msgs, s \in receipt_status :
       /\ arrived[m] = "message"
       /\ Start(t, <<Call("status", m, s)>>)
       /\ UNCHANGED history

handle_revoke(t) ==
    \E m \in Msgs : OnServer(m) /\ Start(t, <<Call("tombstone", m, None)>>) /\ UNCHANGED history
handle_edit(t) ==
    \E m \in Msgs, text \in Edits :
       OnServer(m) /\ Start(t, <<Call("text", m, text)>>) /\ UNCHANGED history
handle_read(t) ==
    \E mark \in {"read", "unread"} : Start(t, <<Call("mark", None, mark)>>) /\ UNCHANGED history
handle_delete_for_me(t) ==
    \E m \in Msgs :
       OnServer(m) /\ Start(t, <<Call("delete", m, None), Call("list", None, None)>>) /\ UNCHANGED history
handle_clear_chat(t) == Start(t, <<Call("clear", None, None)>>) /\ UNCHANGED history
handle_delete_chat(t) == Start(t, <<Call("remove", None, None)>>) /\ UNCHANGED history

\* import_history_sync: one conversation of a blob, with one message or two.
\* On-demand history repeats messages the store already has.
import_history_sync(t) ==
    \E m, n \in Msgs :
       LET one(x) == <<Call("imported", x, InboundRow(x)), Call("drain", x, None)>>
       IN /\ OnServer(m) /\ OnServer(n)
          /\ Start(t, <<Call("history", None, None)>> \o one(m) \o (IF n = m THEN <<>> ELSE one(n))
                      \o <<Call("refresh", None, Body)>>)
          /\ UNCHANGED history

\* The commands of the user interface.
send_text(t) ==
    \E m \in Drafts :
       /\ arrived[m] = "nothing"
       /\ Start(t, <<Call("meta", m, None), Call("refresh", m, Body),
                     Call("insert", m, OutgoingRow("pending")), Call("sending", m, None)>>)
       /\ arrived' = [arrived EXCEPT ![m] = "drafted"]
       /\ UNCHANGED <<latest, told, fresh>>

persist_and_emit(t) ==
    \E m \in Drafts :
       /\ arrived[m] = "nothing"
       /\ Start(t, <<Call("echoing", m, None), Call("refresh", m, Body),
                     Call("insert", m, OutgoingRow("sent"))>>)
       /\ arrived' = [arrived EXCEPT ![m] = "drafted"]
       /\ UNCHANGED <<latest, told, fresh>>

edit_message(t) ==
    \E m \in Own, text \in Edits :
       /\ Stored(m)
       /\ Start(t, <<Call("request", m, None), Call("edited", m, [messages[m] EXCEPT !.text = text])>>)
       /\ UNCHANGED history

revoke_message(t) ==
    \E m \in Msgs :
       /\ Stored(m)
       /\ Start(t, <<Call("request", m, None),
                     Call("revoked", m, [messages[m] EXCEPT !.text = None, !.kind = "unsupported"])>>)
       /\ UNCHANGED history

(***************************************************************************)
(* Specification                                                           *)
(***************************************************************************)
Init ==
    /\ chat = None
    /\ messages = [m \in Msgs |-> None]
    /\ reactions = [m \in Msgs |-> Nobody]
    /\ pending = [m \in Msgs |-> Nobody]
    /\ todo = [t \in Tasks |-> <<>>]
    /\ arrived = [m \in Msgs |-> "nothing"]
    /\ latest = [m \in Msgs |-> Nobody]
    /\ told = [m \in Msgs |-> 0]
    /\ fresh = {}
    /\ raced = {}

Step(t) ==
    \/ record_message_activity(t)
    \/ set_chat_last_message_meta(t)
    \/ upsert_message(t)
    \/ find_reaction_target(t)
    \/ find_undecryptable(t)
    \/ upsert_reaction(t)
    \/ buffer_pending_reaction(t)
    \/ drain_pending_reactions(t)
    \/ set_message_status(t)
    \/ mark_message_revoked(t)
    \/ update_message_text(t)
    \/ delete_message(t)
    \/ refresh_preview(t)
    \/ clear_chat(t)
    \/ delete_chat(t)
    \/ mark_chat(t)
    \/ upsert_chat_from_history(t)
    \/ server_accepts(t)
    \/ send_answered(t)
    \/ echo_answered(t)
    \/ request_answered(t)

Handler(t) ==
    \/ "inbound" \in Duties[t] /\ handle_inbound_message(t)
    \/ "undecryptable" \in Duties[t] /\ handle_undecryptable(t)
    \/ "reactions" \in Duties[t] /\ handle_reaction(t)
    \/ "receipts" \in Duties[t] /\ handle_receipt(t)
    \/ "revokes" \in Duties[t] /\ handle_revoke(t)
    \/ "edits" \in Duties[t] /\ handle_edit(t)
    \/ "reads" \in Duties[t] /\ handle_read(t)
    \/ "delete-for-me" \in Duties[t] /\ handle_delete_for_me(t)
    \/ "clears" \in Duties[t] /\ handle_clear_chat(t)
    \/ "deletes" \in Duties[t] /\ handle_delete_chat(t)
    \/ "import" \in Duties[t] /\ import_history_sync(t)
    \/ "send" \in Duties[t] /\ send_text(t)
    \/ "echo" \in Duties[t] /\ persist_and_emit(t)
    \/ "edit" \in Duties[t] /\ edit_message(t)
    \/ "revoke" \in Duties[t] /\ revoke_message(t)

Next == \E t \in Tasks : Step(t) \/ Handler(t)

Spec == Init /\ [][Next]_vars

\* The runtime runs every task that can run, and a request is answered or fails.
FairSpec == Spec /\ \A t \in Tasks : WF_vars(Step(t))

(***************************************************************************)
(* Properties                                                              *)
(***************************************************************************)
CallType ==
    [op : {"activity", "refresh"}, msg : Msgs \cup {None}, arg : Texts]
    \cup [op : {"meta", "drain", "tombstone", "delete", "sending", "echoing", "request"},
          msg : Msgs, arg : {None}]
    \cup [op : Writers \cup {"sighted"}, msg : Msgs, arg : Row]
    \cup [op : Reacting, msg : Msgs, arg : [actor : Actors, emoji : Emojis \cup {Removed}]]
    \cup [op : {"status"}, msg : Msgs, arg : Statuses]
    \cup [op : {"text"}, msg : Msgs, arg : Edits]
    \cup [op : {"list", "clear", "remove", "history"}, msg : {None}, arg : {None}]
    \cup [op : {"mark"}, msg : {None}, arg : {"read", "unread"}]

\* Every table and every task keeps its shape.
TypeOK ==
    /\ chat \in Chat \cup {None}
    /\ messages \in [Msgs -> Row \cup {None}]
    /\ reactions \in [Msgs -> [Actors -> Emojis \cup {None}]]
    /\ pending \in [Msgs -> [Actors -> Emojis \cup {Removed, None}]]
    /\ todo \in [Tasks -> Seq(CallType)]
    /\ arrived \in [Msgs -> {"nothing", "placeholder", "drafted", "message"}]
    /\ latest \in [Msgs -> [Actors -> Emojis \cup {Removed, None}]]
    /\ told \in [Msgs -> 0..5]
    /\ fresh \subseteq Msgs \cup {None}
    /\ raced \subseteq Msgs \X (Actors \cup {None})

Quiet == \A t \in Tasks : Idle(t)

\* No receipt is lost: between handlers a stored message shows at least the
\* highest status any receipt or answer reported for it, unless a receipt was
\* handled beside the handler that stores the message.
ReceiptsStick ==
    Quiet => \A m \in Msgs : Stored(m) /\ <<m, None>> \notin raced
                             => status_rank(messages[m].status) >= told[m]

\* Between handlers a stored message shows the last reaction of every actor, and
\* none of its reactions waits in the buffer, unless a reaction of the actor was
\* handled beside another one or beside the handler that stores the message.
ReactionsSettle ==
    Quiet => \A m \in Msgs, a \in Actors :
                Stored(m) /\ <<m, a>> \notin raced
                => reactions[m][a] = Visible(latest[m][a]) /\ pending[m][a] = None

\* A chat is sorted at or after the newest message it holds.
ActivityCovers == Quiet => \A m \in Msgs : Stored(m) => chat # None /\ chat.activity >= Stamp[m]

\* The unread counter stands for distinct messages of others, each counted once
\* since the chat was last read (a chat marked unread counts as one).
UnreadIsExact == chat # None => chat.unread = Cardinality(fresh)

\* The chat's row fits the messages it stands for: its place in the list and its badge.
ChatRowFits == ActivityCovers /\ UnreadIsExact

\* A message is shown as pending only while its request is under way.
PendingIsUnderWay ==
    \A m \in Msgs : Stored(m) /\ messages[m].status = "pending"
                    => \E t \in Tasks : (At(t, "sending") \/ At(t, "status")) /\ Msg(t) = m

\* Every message that is sent ends up sent or failed.
SendsSettle ==
    \A m \in Drafts : (Stored(m) /\ messages[m].status = "pending")
                      ~> ~(Stored(m) /\ messages[m].status = "pending")

\* MessageLog implements MessageBoard: rows are stored messages, the reactions
\* table is what readers see.
Board == INSTANCE MessageBoard WITH
    rank <- [m \in Msgs |-> IF Stored(m) THEN status_rank(messages[m].status) ELSE None],
    shown <- reactions
BoardSpec == Board!Spec

(***************************************************************************)
(* What comments and tests of the repository say, and the code does not do *)
(***************************************************************************)
\* "the status only ever upgrades": no step of any writer takes a stored
\* message's delivery status back.
StatusOnlyUpgrades ==
    [][\A m \in Msgs : messages[m] # None /\ messages'[m] # None
                       => status_rank(messages'[m].status) >= status_rank(messages[m].status)]_vars

\* "Inserting it directly would fail on the foreign key and lose it forever, so buffer
\* it until the message row arrives": whatever runs beside a reaction, the last one shows.
ReactionsAlwaysSettle ==
    Quiet => \A m \in Msgs, a \in Actors :
                Stored(m) => reactions[m][a] = Visible(latest[m][a]) /\ pending[m][a] = None

\* "for receipts, persist": a receipt is in its message's row, whatever ran beside it.
ReceiptsAlwaysStick ==
    Quiet => \A m \in Msgs : Stored(m) => status_rank(messages[m].status) >= told[m]

\* "storing a placeholder keeps the list honest": no placeholder covers a message.
PlaceholdersCoverNothing ==
    [][\A t \in Tasks, m \in Msgs :
          At(t, "placeholder") /\ todo'[t] # todo[t] /\ Stored(m) => messages'[m] = messages[m]]_vars

\* "`upsert_message` refreshes the text on conflict; nothing else moved": the
\* write that ends an edit changes the text of the row and nothing else.
EditMovesOnlyText ==
    [][\A t \in Tasks : At(t, "edited") /\ todo'[t] # todo[t] /\ Stored(Msg(t))
          => messages' = [messages EXCEPT ![Msg(t)].text = Arg(t).text]]_vars

\* "Keep the row as a tombstone": the text of a revoked message stays gone (in
\* runs without placeholders, the only other rows without a text).
TombstonesStay ==
    [][\A m \in Msgs : Stored(m) /\ messages[m].text = None /\ messages'[m] # None
                       => messages'[m].text = None]_vars

\* "Delete one message row (delete-for-me)", then the preview is recomputed "from
\* what is left": the handler takes no other message along.
DeleteForMeTakesOne ==
    [][\A t \in Tasks : At(t, "clear") /\ todo'[t] # todo[t] => messages' = messages]_vars

\* "Preview of the most recent message".
PreviewIsOfNewest ==
    Quiet /\ chat # None /\ chat.preview # None
    => chat.preview.of \in Newest({m \in Msgs : Stored(m)})

\* "Preview of the most recent message, already formatted for display": what it
\* shows of a message is what the message says.
PreviewShowsTheMessage ==
    Quiet /\ chat # None /\ chat.preview # None /\ Stored(chat.preview.of)
    => chat.preview.text = messages[chat.preview.of].text

\* "Kind of the newest message", "True when the newest message was sent by this
\* account": kind and direction are those of the message in the preview.
MetaIsOfPreview ==
    Quiet /\ chat # None /\ chat.preview # None /\ chat.meta # None => chat.meta = chat.preview.of
=============================================================================
