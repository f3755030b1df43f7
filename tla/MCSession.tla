------------------------------- MODULE MCSession -------------------------------
(* Two tasks with their commands, at the same time or one after the other. *)
EXTENDS Session, FiniteSets

CONSTANTS
    tUp, tDown,
    MaxOutstanding      \* bound: how many handlers are outstanding at once

VARIABLE alone      \* one command at a time

Duties == [t \in Tasks |->
    IF t = tUp THEN {"connect", "reset_session"} ELSE {"shutdown", "logout", "restart_pairing"}]

OneAtATime == \A t, u \in Tasks : t = u \/ At(t, "idle") \/ At(u, "idle")

Late == {r \in Bots \X Events : news[r[1]][r[2]] > 0}

MCInit == Init /\ alone \in BOOLEAN

\* Bound: when commands overlap one handler is outstanding at a time, and over the step of a
\* command only one of Connected, the one that a command must take back.
MCNext ==
    /\ UNCHANGED alone
    /\ Next
    /\ \A t \in Tasks : task'[t].op \in Duties[t] \cup {"idle"}
    /\ Cardinality(Late') <= IF alone THEN MaxOutstanding ELSE 1
    /\ alone => OneAtATime'
    /\ ~alone /\ task' # task => \A r \in Late : r[2] = "Connected"

MCSpec == MCInit /\ [][MCNext]_<<vars, alone>> /\ Fairness

\* When commands run one after the other, the published state, the session directory and
\* the own JID fit the bot, once the newest word of each has come last.
AloneFits == alone => StateFits /\ SessionStays /\ OwnIsCurrent
=============================================================================
