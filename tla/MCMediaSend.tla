----------------------------- MODULE MCMediaSend -----------------------------
(***************************************************************************)
(* Two messages with one content, and one this device sends.  Downloads    *)
(* run two at a time while nothing is sent, or one at a time beside a      *)
(* send.                                                                   *)
(***************************************************************************)
EXTENDS MediaSend

CONSTANTS m1, m2, own, photo, clip, fPhoto, fClip

VARIABLE alone      \* one download at a time

Carried == [m \in Msgs |-> IF m = own THEN clip ELSE photo]
Lengths == [c \in Contents |-> IF c = photo THEN 2 ELSE 1]
\* Different contents of one length, of messages without a digest.
TwoContents == [m \in Msgs |-> IF m = m1 THEN clip ELSE photo]
OneLength == [c \in Contents |-> 1]
Names == [m \in Msgs |-> IF m = own THEN fClip ELSE fPhoto]

OneAtATime == \A t, u \in Tasks : t = u \/ Step(t, "idle") \/ Step(u, "idle")

MCInit == Init /\ alone \in BOOLEAN
MCNext ==
    /\ UNCHANGED alone
    /\ Next
    /\ IF alone THEN OneAtATime' ELSE UNCHANGED sendVars
MCSpec == MCInit /\ [][MCNext]_<<vars, alone>>

\* A cache entry that is served is whole when downloads run one after the other, and once
\* they are through when they race.
CacheIsSound == QuietCacheIsWhole /\ (alone => EntriesAreComplete)
=============================================================================
