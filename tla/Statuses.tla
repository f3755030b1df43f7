------------------------------- MODULE Statuses -------------------------------
(***************************************************************************)
(* Status updates (statuses.rs and the statuses table of store.rs): the    *)
(* rows kept of messages on status@broadcast, and the listing, which       *)
(* prunes and then reads in two store calls with one `now`.                *)
(***************************************************************************)
EXTENDS Integers, FiniteSets

CONSTANTS
    StatusMessages,     \* inbound messages: id, chat, sender, from_me, time
    StatusBroadcast,    \* status@broadcast
    StatusTTL,          \* STATUS_TTL_SECS
    Readers,            \* the listings that may be under way
    MaxStatusTime       \* bound: seconds the clock runs

VARIABLES
    statusRows,     \* the statuses table
    statusNow,      \* the wall clock
    statusReads,    \* by reader: how far a listing is and the `now` it took
    statusList,     \* what the last listing returned
    arrived,        \* the updates that were stored so far
    viewedEver      \* the updates that were marked viewed while listed

statusVars == <<statusRows, statusNow, statusReads, statusList, arrived, viewedEver>>

is_status_chat(jid) == jid = StatusBroadcast
is_status_sender(jid) == ~is_status_chat(jid)

status_expires_at(timestamp) == timestamp + StatusTTL

cutoff_now(now) == now     \* mutant: the 24 hours forgotten
\* now.saturating_sub(STATUS_TTL_SECS)
cutoff(now) == IF now > StatusTTL THEN now - StatusTTL ELSE 0

Imports(m) == is_status_chat(m.chat) /\ is_status_sender(m.sender) /\ ~m.from_me

status_update_from_message(m) ==
    [id |-> m.id, sender |-> m.sender, timestamp |-> m.time, viewed |-> FALSE]

\* A status is sent once, at one time.
ASSUME StatusAssumption ==
    /\ StatusTTL \in Nat /\ \A m \in StatusMessages : m.time \in Nat
    /\ \A m, n \in StatusMessages : Imports(m) /\ Imports(n) /\ m.id = n.id => m.time = n.time

StatusInit ==
    /\ statusRows = {}
    /\ statusNow = 0
    /\ statusReads = [r \in Readers |-> [at |-> "idle", now |-> 0]]
    /\ statusList = [rows |-> {}, now |-> 0]
    /\ arrived = {}
    /\ viewedEver = {}

\* mutant: the conflict clause overwrites the viewed flag too
replace_status(u) == statusRows' = {r \in statusRows : r.id # u.id} \cup {u}
\* A new row, or the old one refreshed with its viewed flag kept.
upsert_status(u) ==
    LET old == {r \in statusRows : r.id = u.id}
    IN  statusRows' = (statusRows \ old) \cup {[u EXCEPT !.viewed = \E r \in old : r.viewed]}

\* At the end of handle_inbound_message; a redelivered message comes here again.
import_status_message(m) ==
    /\ Imports(m) /\ m.time <= statusNow
    /\ upsert_status(status_update_from_message(m))
    /\ arrived' = arrived \cup {m}
    /\ UNCHANGED <<statusNow, statusReads, statusList, viewedEver>>

\* statuses() takes the time and prunes ...
prune_statuses(r) ==
    /\ statusReads[r].at = "idle"
    /\ statusRows' = {s \in statusRows : ~(s.timestamp < cutoff(statusNow))}
    /\ statusReads' = [statusReads EXCEPT ![r] = [at |-> "pruned", now |-> statusNow]]
    /\ UNCHANGED <<statusNow, statusList, arrived, viewedEver>>

\* ... then lists.
list_statuses(r) ==
    /\ statusReads[r].at = "pruned"
    /\ LET now == statusReads[r].now IN
       statusList' = [rows |-> {s \in statusRows : s.timestamp >= cutoff(now)}, now |-> now]
    /\ statusReads' = [statusReads EXCEPT ![r].at = "idle"]
    /\ UNCHANGED <<statusRows, statusNow, arrived, viewedEver>>

\* The viewer marks what it shows, as listed when it was opened.
mark_status_viewed(id) ==
    /\ \E s \in statusList.rows : s.id = id
    /\ statusRows' = {IF s.id = id THEN [s EXCEPT !.viewed = TRUE] ELSE s : s \in statusRows}
    /\ viewedEver' = viewedEver \cup {s.id : s \in {t \in statusRows : t.id = id}}
    /\ UNCHANGED <<statusNow, statusReads, statusList, arrived>>

status_tick ==
    /\ statusNow < MaxStatusTime
    /\ statusNow' = statusNow + 1
    /\ UNCHANGED <<statusRows, statusReads, statusList, arrived, viewedEver>>

StatusNext ==
    \/ \E m \in StatusMessages : import_status_message(m) \/ mark_status_viewed(m.id)
    \/ \E r \in Readers : prune_statuses(r) \/ list_statuses(r)
    \/ status_tick

StatusSpec == StatusInit /\ [][StatusNext]_statusVars

-----------------------------------------------------------------------------
\* A listing never leaves out an update of its 24 hours that was stored: neither its own
\* pruning nor a refresh of the row loses one.
ListStep == \E r \in Readers : list_statuses(r)
NothingCurrentIsMissed ==
    \A m \in arrived : statusList'.now < status_expires_at(m.time) => \E s \in statusList'.rows : s.id = m.id

\* Once viewed, an update is not listed as new again, even when its message is delivered
\* again after its row was pruned: what the pruning drops the listing does not show.
ViewedIsNotNewAgain == \A s \in statusList'.rows : s.id \in viewedEver => s.viewed

\* A listing shows every update of its window, and none as new that was viewed.
ListingsAreRight == [][ListStep => NothingCurrentIsMissed /\ ViewedIsNotNewAgain]_statusVars
=============================================================================
