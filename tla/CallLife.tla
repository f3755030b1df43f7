------------------------------- MODULE CallLife -------------------------------
(***************************************************************************)
(* What the updates of a call promise whoever watches it: an offer rings   *)
(* first, is answered or goes away, and Ended is the last word on a call   *)
(* that came up.  Each event of an offer is handled by a task of its own,  *)
(* so the news that it went away may cross the offer, or the answer given  *)
(* here; then it may come too early or too late.  CallManager implements   *)
(* it.                                                                     *)
(***************************************************************************)
CONSTANTS Calls, Incoming

VARIABLES
    phase,      \* the last update of a call
    raced       \* the calls whose going away crossed something else

Init == phase = [k \in Calls |-> "new"] /\ raced = {}

Moves(k, from, to) == phase[k] \in from /\ phase' = [phase EXCEPT ![k] = to]
Late(k, from) == IF k \in raced THEN from ELSE {}

Crosses(k) == k \in Incoming /\ phase[k] = "new" /\ raced' = raced \cup {k} /\ UNCHANGED phase

Ring(k) == k \in Incoming /\ Moves(k, {"new"} \cup Late(k, {"gone"}), "ringing") /\ UNCHANGED raced
\* Missed, or answered elsewhere.
GoAway(k) ==
    k \in Incoming /\ Moves(k, {"new", "ringing"} \cup Late(k, {"up", "ended"}), "gone") /\ UNCHANGED raced
\* Set up here; an answer may cross the end of the offer.
ComeUp(k) ==
    /\ Moves(k, IF k \in Incoming THEN {"ringing", "gone"} ELSE {"new"}, "up")
    /\ raced' = raced \/ (k \in Incoming /\ raced' = raced \cup {k})
End(k) == Moves(k, {"up"} \cup Late(k, {"gone"}), "ended") /\ UNCHANGED raced

Next == \E k \in Calls : Crosses(k) \/ Ring(k) \/ GoAway(k) \/ ComeUp(k) \/ End(k)

Spec == Init /\ [][Next]_<<phase, raced>>
=============================================================================
