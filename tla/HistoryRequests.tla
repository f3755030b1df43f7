---------------------------- MODULE HistoryRequests ----------------------------
(***************************************************************************)
(* The background tasks of a connection that converge the chat list        *)
(* (client.rs).  The address book: chat rows made from contacts, the       *)
(* worker that asks the phone for the history of each, up to a budget, and *)
(* the sweep of the rows that stay empty.  The names: triggers debounced   *)
(* into passes.  Times only matter by order: what is young has been asked  *)
(* for within the grace.  The phone is external: it answers when it can.   *)
(* A session ends with the process, or in it: then a task that sleeps at   *)
(* that moment sleeps on, and does its work beside the next session.       *)
(***************************************************************************)
EXTENDS Naturals, Sequences, FiniteSets, SequencesExt

CONSTANTS
    Contacts,       \* the named contacts, as their rowids
    WithHistory,    \* those the phone has a conversation with
    Cap             \* PDO_BACKFILL_CAP

ASSUME HistoryAssumption ==
    /\ Contacts \subseteq Nat /\ IsFiniteSet(Contacts)
    /\ WithHistory \subseteq Contacts /\ Cap \in Nat

VARIABLES
    row,        \* the chat row of a contact: none, empty or filled
    queue,      \* pdo_requests: chats whose history is to be requested
    sent,       \* the requests of this session
    requested,  \* the requests of this round, as the worker remembers them
    worker,     \* where the worker is
    asked,      \* the requests the phone has not answered
    young,      \* the contacts asked for in this session, within the grace
    old,        \* those asked for in earlier sessions, within the grace
    late,       \* the task of an earlier session that sleeps on: its backfill, its sweep or none
    smooth,     \* no request has failed, and no session or late task left empty rows behind
    permit,     \* a name pass has been requested
    unseen,     \* since the last pass began
    pass        \* where the name-pass scheduler is

requestVars == <<row, queue, sent, requested, worker, asked, young, old, late, smooth>>
passVars == <<permit, unseen, pass>>
vars == <<requestVars, passVars>>

Init ==
    /\ row = [c \in Contacts |-> "none"]
    /\ queue = <<>> /\ requested = <<>> /\ sent = 0
    /\ worker = "connect"
    /\ asked = {} /\ young = {} /\ old = {} /\ late = "none"
    /\ smooth = TRUE
    /\ permit = TRUE /\ unseen = TRUE /\ pass = "wait"

\* mutant: a request during a pass is lost
request_unless_running == unseen' = TRUE /\ permit' = (permit \/ pass # "run")
\* notify_one keeps a permit while nobody waits.
request == permit' = TRUE /\ unseen' = TRUE

\* contacts_missing_chats, newest contact first, and a row for each; their ids are queued.
Unlisted(rows) == {c \in Contacts : rows[c] = "none"}
Newer(c, S) == {d \in S : d > c}
Missing(rows) ==
    [i \in 1..Cardinality(Unlisted(rows)) |->
        CHOOSE c \in Unlisted(rows) : Cardinality(Newer(c, Unlisted(rows))) = i - 1]
backfill_chats_from_contacts(rows) ==
    /\ row' = [c \in Contacts |-> IF rows[c] = "none" THEN "empty" ELSE rows[c]]
    /\ queue' = queue \o Missing(rows)

-----------------------------------------------------------------------------
(* The worker. *)

\* The backfill some time after connect.
contact_backfill ==
    /\ worker = "connect"
    /\ backfill_chats_from_contacts(row)
    /\ worker' = "recv"
    /\ UNCHANGED <<sent, requested, asked, young, old, late, smooth, passVars>>

\* Chats past the budget and those of this round are passed over.
skip ==
    /\ worker = "recv" /\ queue # <<>>
    /\ sent >= Cap \/ Head(queue) \in ToSet(requested)
    /\ queue' = Tail(queue)
    /\ UNCHANGED <<row, sent, requested, worker, asked, young, old, late, smooth, passVars>>

\* mutant: one request more
MayAskMore == worker = "recv" /\ queue # <<>> /\ sent <= Cap /\ Head(queue) \notin ToSet(requested)
MayAsk == worker = "recv" /\ queue # <<>> /\ sent < Cap /\ Head(queue) \notin ToSet(requested)

\* fetch_message_history is sent and remembered; the next one waits for the spacing.
fetch_message_history ==
    /\ MayAsk
    /\ sent' = sent + 1
    /\ requested' = Append(requested, Head(queue))
    /\ asked' = asked \cup {Head(queue)}
    /\ young' = young \cup {Head(queue)}
    /\ queue' = Tail(queue)
    /\ UNCHANGED <<row, worker, old, late, smooth, passVars>>

fetch_fails ==
    /\ MayAsk
    /\ queue' = Tail(queue)
    /\ smooth' = FALSE
    /\ UNCHANGED <<row, sent, requested, worker, asked, young, old, late, passVars>>

\* mutant: only a spent budget makes the worker sweep
idle_when_spent ==
    /\ worker = "recv" /\ queue = <<>> /\ sent = Cap
    /\ worker' = "grace"
    /\ UNCHANGED <<row, queue, sent, requested, asked, young, old, late, smooth, passVars>>
\* The queue was quiet for PDO_BACKFILL_IDLE: the worker sleeps until its last request is
\* past the grace; without requests in this session it goes on waiting.
idle ==
    /\ worker = "recv" /\ queue = <<>> /\ sent # 0
    /\ worker' = "grace"
    /\ UNCHANGED <<row, queue, sent, requested, asked, young, old, late, smooth, passVars>>

delete_empty_contact_chats == row' = [c \in Contacts |-> IF row[c] = "empty" THEN "none" ELSE row[c]]

\* mutant: swept at once
sweep_at_once ==
    /\ worker = "grace"
    /\ delete_empty_contact_chats
    /\ requested' = <<>>
    /\ worker' = "recv"
    /\ UNCHANGED <<queue, sent, asked, young, old, late, smooth, passVars>>
\* The empty rows go, and a new round begins.
sweep ==
    /\ worker = "grace"
    /\ requested # <<>> => Last(requested) \notin young
    /\ delete_empty_contact_chats
    /\ requested' = <<>>
    /\ worker' = "recv"
    /\ UNCHANGED <<queue, sent, asked, young, old, late, smooth, passVars>>

\* The grace of a request passes: first that of the earlier sessions' last one, and with it of all of
\* theirs; that of the round's last one passes last.
grace_passes ==
    /\ \/ old # {} /\ old' = {} /\ UNCHANGED young
       \/ /\ old = {}
          /\ \E c \in young :
                /\ requested # <<>> /\ c = Last(requested) => young = {c}
                /\ young' = young \ {c}
          /\ UNCHANGED old
    /\ UNCHANGED <<row, queue, sent, requested, worker, asked, late, smooth, passVars>>

\* The phone's answer comes as a history import, which ends in a backfill and in a
\* request for a name pass; without a conversation it fills nothing.
answer(c) ==
    /\ c \in asked
    /\ asked' = asked \ {c}
    /\ backfill_chats_from_contacts([row EXCEPT ![c] = IF c \in WithHistory THEN "filled" ELSE @])
    /\ request
    /\ UNCHANGED <<sent, requested, worker, young, old, late, smooth, pass>>

\* mutant: the budget is not renewed
new_tasks_spent ==
    /\ queue' = <<>> /\ requested' = <<>>
    /\ worker' = "connect"
    /\ old' = old \cup young /\ young' = {}
    /\ smooth' = (smooth /\ \A c \in Contacts : row[c] # "empty")
    /\ request /\ pass' = "wait"
    /\ UNCHANGED <<row, sent, asked>>
\* connect spawns its tasks with a queue of their own; rows and requests remain.
new_tasks ==
    /\ queue' = <<>> /\ requested' = <<>> /\ sent' = 0
    /\ worker' = "connect"
    /\ old' = old \cup young /\ young' = {}
    /\ smooth' = (smooth /\ \A c \in Contacts : row[c] # "empty")
    /\ request /\ pass' = "wait"
    /\ UNCHANGED <<row, asked>>

\* The process starts again and connects: no task is left.
new_session ==
    /\ worker # "connect"
    /\ late' = "none"
    /\ new_tasks

\* connect after a shutdown in the same process.  A worker at recv ends with its channel or its
\* client; a sleep goes on, one at a time here.
new_connection ==
    /\ late = "none"
    /\ late' = CASE worker = "connect" -> "backfill" [] worker = "grace" -> "sweep" [] OTHER -> "none"
    /\ new_tasks

\* The backfill of a session that is over: its rows are queued with the worker that has ended.
late_backfill ==
    /\ late = "backfill"
    /\ row' = [c \in Contacts |-> IF row[c] = "none" THEN "empty" ELSE row[c]]
    /\ smooth' = (smooth /\ Unlisted(row) = {})
    /\ late' = "none"
    /\ UNCHANGED <<queue, sent, requested, worker, asked, young, old, passVars>>

\* mutant: the sleep ends with the session
late_sweep_at_once ==
    /\ late = "sweep"
    /\ delete_empty_contact_chats
    /\ late' = "none"
    /\ UNCHANGED <<queue, sent, requested, worker, asked, young, old, smooth, passVars>>
\* The worker of a session that is over wakes when its own last request is past the grace, and sweeps
\* without asking for its client.
late_sweep ==
    /\ late = "sweep" /\ old = {}
    /\ delete_empty_contact_chats
    /\ late' = "none"
    /\ UNCHANGED <<queue, sent, requested, worker, asked, young, old, smooth, passVars>>

-----------------------------------------------------------------------------
(* The name passes. *)

\* A message or a chat update asks for a pass.
handler_requests == request /\ UNCHANGED <<requestVars, pass>>

\* notified() takes the permit; while the burst settles further ones are taken with it.
notified ==
    /\ permit /\ pass \in {"wait", "debounce"}
    /\ permit' = FALSE /\ pass' = "debounce"
    /\ UNCHANGED <<requestVars, unseen>>

\* After NAME_PASS_DEBOUNCE the chats that need names are listed.
run_name_passes ==
    /\ pass = "debounce"
    /\ pass' = "run" /\ unseen' = FALSE
    /\ UNCHANGED <<requestVars, permit>>

pass_ends ==
    /\ pass = "run"
    /\ pass' = "wait"
    /\ UNCHANGED <<requestVars, permit, unseen>>

-----------------------------------------------------------------------------
Worker == contact_backfill \/ skip \/ idle \/ sweep

Next ==
    \/ Worker \/ fetch_message_history \/ fetch_fails
    \/ new_session \/ new_connection \/ late_backfill \/ late_sweep
    \/ grace_passes \/ \E c \in Contacts : answer(c)
    \/ handler_requests \/ notified \/ run_name_passes \/ pass_ends

Spec == Init /\ [][Next]_vars

\* Tasks are polled and timers fire; the phone answers, and a request that is tried again
\* and again gets through.  Bursts of name requests settle.
Fairness ==
    /\ WF_vars(Worker) /\ WF_vars(late_backfill \/ late_sweep) /\ WF_vars(grace_passes)
    /\ \A c \in Contacts :
          /\ SF_vars(fetch_message_history /\ Head(queue) = c)
          /\ WF_vars(answer(c))
    /\ WF_vars(notified) /\ SF_vars(run_name_passes) /\ WF_vars(pass_ends)

FairSpec == Spec /\ Fairness

-----------------------------------------------------------------------------
TypeOK ==
    /\ row \in [Contacts -> {"none", "empty", "filled"}]
    /\ queue \in Seq(Contacts) /\ requested \in Seq(Contacts)
    /\ sent \in 0..Cap
    /\ worker \in {"connect", "recv", "grace"}
    /\ asked \subseteq Contacts /\ young \subseteq Contacts /\ old \subseteq Contacts
    /\ late \in {"none", "backfill", "sweep"}
    /\ {smooth, permit, unseen} \subseteq BOOLEAN
    /\ pass \in {"wait", "debounce", "run"}

\* No sweep takes a row whose history was asked for within the grace, but for what a session asks
\* for while a worker of an earlier session is still waiting to sweep.
SweepSparesYoung ==
    [][\A c \in Contacts :
          c \in young \cup old /\ row[c] = "empty" /\ row'[c] = "none" =>
              c \notin old /\ late = "sweep" /\ late' = "none"]_vars

\* Once a session has sent a request, a row does not stay empty: it is filled or swept.
EmptyRowsGo == \A c \in Contacts : (row[c] = "empty" /\ sent # 0) ~> (row[c] # "empty" \/ sent = 0)

\* No request for a name pass is lost: a pass begins after it.
RequestsAreSeen == unseen ~> ~unseen

\* Session by session, every conversation the phone has is imported.
BacklogConverges ==
    []smooth /\ []<>(worker = "connect") => \A c \in WithHistory : <>(row[c] = "filled")

\* The same when requests fail or a session ends early: an empty row does not stay.
EmptyRowsAreRetried ==
    []<>(worker = "connect") => \A c \in Contacts : []<>(row[c] # "empty")

\* More than the code keeps: no row asked for within the grace is swept, whoever sweeps.
SweepSparesAll ==
    [][\A c \in Contacts : c \in young \cup old /\ row[c] = "empty" => row'[c] # "none"]_vars
=============================================================================
