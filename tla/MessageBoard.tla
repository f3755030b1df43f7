----------------------------- MODULE MessageBoard -----------------------------
(***************************************************************************)
(* What the message tables promise their readers, without handlers, locks  *)
(* or buffers: the delivery status of a stored message only climbs, and    *)
(* the reaction shown for an actor is the last one that was handled, shown *)
(* once the message is there; of an actor whose reaction was handled       *)
(* beside another, or beside its message, any reaction may be shown.       *)
(* MessageLog implements it.                                               *)
(***************************************************************************)
EXTENDS Naturals

CONSTANTS Msgs, Actors, Emojis, None, Removed

VARIABLES
    rank,       \* the delivery status of a stored message, as a number, or None
    shown,      \* the reactions a reader sees
    latest,     \* the last reaction of each actor that was handled
    raced       \* the reactions that were handled beside another, or beside their message

Top == 5        \* Failed, above Pending, Sent, Delivered, Read and Played

Visible(e) == IF e = Removed THEN None ELSE e

Init ==
    /\ rank = [m \in Msgs |-> None]
    /\ shown = [m \in Msgs |-> [a \in Actors |-> None]]
    /\ latest = [m \in Msgs |-> [a \in Actors |-> None]]
    /\ raced = {}

Store(m) ==
    /\ rank[m] = None
    /\ \E r \in 0..Top : rank' = [rank EXCEPT ![m] = r]
    /\ UNCHANGED <<shown, latest, raced>>

Upgrade(m) ==
    /\ rank[m] # None
    /\ \E r \in 0..Top : r > rank[m] /\ rank' = [rank EXCEPT ![m] = r]
    /\ UNCHANGED <<shown, latest, raced>>

\* A reaction arrives, and is shown at once or later.
React(m) ==
    /\ \E a \in Actors, e \in Emojis \cup {Removed} :
          /\ latest' = [latest EXCEPT ![m][a] = e]
          /\ \/ UNCHANGED shown
             \/ rank[m] # None /\ shown' = [shown EXCEPT ![m][a] = Visible(e)]
    /\ UNCHANGED <<rank, raced>>

\* Readers catch up with the last reactions of some of the actors.
Show(m) ==
    /\ rank[m] # None
    /\ \E seen \in [Actors -> Emojis \cup {None}] :
          /\ \A a \in Actors : seen[a] \in {shown[m][a], Visible(latest[m][a])} \/ <<m, a>> \in raced
          /\ shown' = [shown EXCEPT ![m] = seen]
    /\ UNCHANGED <<rank, latest, raced>>

\* Handlers are under way together.
Overlap ==
    /\ \E more \in SUBSET (Msgs \X (Actors \cup {None})) : raced' = raced \cup more
    /\ UNCHANGED <<rank, shown, latest>>

\* Deleted messages take what is shown of them along.
Forget ==
    \E gone \in SUBSET Msgs, forgotten \in SUBSET Msgs :
       /\ rank' = [m \in Msgs |-> IF m \in gone THEN None ELSE rank[m]]
       /\ shown' = [m \in Msgs |-> IF m \in gone THEN [a \in Actors |-> None] ELSE shown[m]]
       /\ latest' = [m \in Msgs |-> IF m \in forgotten THEN [a \in Actors |-> None] ELSE latest[m]]
       /\ \A m \in forgotten : rank'[m] = None
       /\ UNCHANGED raced

Next == Forget \/ Overlap \/ \E m \in Msgs : Store(m) \/ Upgrade(m) \/ React(m) \/ Show(m)

Spec == Init /\ [][Next]_<<rank, shown, latest, raced>>
=============================================================================
