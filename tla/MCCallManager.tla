---------------------------- MODULE MCCallManager ----------------------------
(* One chat, a call each way. *)
EXTENDS CallManager

CONSTANTS peer, first

OnePeer == [k \in Calls |-> peer]

\* bound: the handlers of events cross one command, two commands cross each other.  The tasks
\* are alike: a command that comes while none is under way is the first one's.
Busy == {t \in Tasks : task[t].op # "idle"}
HandlersCrossOne ==
    /\ (\E k \in Calls : news'[k] # {}) => Cardinality(Busy') <= 1
    /\ Busy = {} => Busy' \subseteq {first}
=============================================================================
