--------------------------------- MODULE Polls --------------------------------
(***************************************************************************)
(* Polls and votes (chat_ops.rs).  A vote is encrypted with the secret of  *)
(* the poll and names the poll's creator.  The secret of a poll made here  *)
(* is remembered by the process; the library keeps the secrets of polls    *)
(* made and received by chat, sender and message id, and on disk.  The     *)
(* library and the server are external.                                    *)
(***************************************************************************)
EXTENDS Naturals, FiniteSets

CONSTANTS
    Nobody,         \* no creator, no secret
    Pn, Lid,        \* the account's own identities
    PollsMade,      \* polls made here
    PollsReceived,
    PollChat,       \* the chat of a poll, as it is named on the wire
    PollSender,     \* the sender of a poll received
    GroupChats, LidChats,       \* the groups, and the chats addressed by LID
    Voters,         \* the votes that may be under way
    PollAlias       \* [from, to]: chat ids that are linked; equal when none are

Polls == PollsMade \cup PollsReceived

ASSUME PollAssumption == Nobody \notin {Pn, Lid} \cup {PollChat[p] : p \in Polls}

VARIABLES
    pollRows,       \* the chat of each stored poll row, or Nobody
    remembered,     \* poll_secrets(): the polls whose secret this process keeps
    secretStore,    \* the library's secrets: chat, sender and poll
    making,         \* the polls whose creation the server has accepted
    ballot,         \* by vote: how far it is and what it found
    votes,          \* what was sent
    pollError,      \* the votes that failed for want of a secret
    pollsLinked

pollVars == <<pollRows, remembered, secretStore, making, ballot, votes, pollError, pollsLinked>>

from_me(p) == p \in PollsMade

\* The identity the library signs a poll of ours with.
WireCreator(p) == IF ~from_me(p) THEN PollSender[p] ELSE IF PollChat[p] \in LidChats THEN Lid ELSE Pn

CanonicalChat(c) == IF pollsLinked /\ c = PollAlias.from THEN PollAlias.to ELSE c

NoBallot == [at |-> "idle"]

PollInit ==
    /\ pollRows = [p \in Polls |-> Nobody]
    /\ remembered = {}
    /\ secretStore = {}
    /\ making = {}
    /\ ballot = [v \in Voters |-> NoBallot]
    /\ votes = {}
    /\ pollError = {}
    /\ pollsLinked = FALSE

Secret(p) == [chat |-> PollChat[p], sender |-> WireCreator(p), poll |-> p]

-----------------------------------------------------------------------------
\* polls().create(): the server takes the poll, and the library keeps its secret.  The chat
\* the user has open is a canonical one.
poll_created(p) ==
    /\ p \in PollsMade \ making /\ pollRows[p] = Nobody
    /\ CanonicalChat(PollChat[p]) = PollChat[p]
    /\ making' = making \cup {p}
    /\ secretStore' = secretStore \cup {Secret(p)}
    /\ UNCHANGED <<pollRows, remembered, ballot, votes, pollError, pollsLinked>>

\* create_poll goes on: remember_poll_secret and persist_and_emit.
remember_and_persist(p) ==
    /\ p \in making
    /\ making' = making \ {p}
    /\ remembered' = remembered \cup {p}
    /\ pollRows' = [pollRows EXCEPT ![p] = CanonicalChat(PollChat[p])]
    /\ UNCHANGED <<secretStore, ballot, votes, pollError, pollsLinked>>

\* A poll arrives, or one of ours that the process did not live to store comes back with
\* the history; its row is stored under the canonical chat.
poll_received(p) ==
    /\ pollRows[p] = Nobody
    /\ from_me(p) => Secret(p) \in secretStore /\ p \notin making
    /\ secretStore' = secretStore \cup {Secret(p)}
    /\ pollRows' = [pollRows EXCEPT ![p] = CanonicalChat(PollChat[p])]
    /\ UNCHANGED <<remembered, making, ballot, votes, pollError, pollsLinked>>

-----------------------------------------------------------------------------
\* mutant: no lookup for any poll this process remembers
vote_poll_remembered(v, p) ==
    /\ ballot[v].at = "idle" /\ pollRows[p] # Nobody
    /\ ballot' = [ballot EXCEPT ![v] =
           [at |-> IF p \in remembered THEN "found" ELSE "lookup",
            poll |-> p, chat |-> pollRows[p], secret |-> p \in remembered, creator |-> Nobody]]
    /\ UNCHANGED <<pollRows, remembered, secretStore, making, votes, pollError, pollsLinked>>
\* vote_poll reads the row, which has to be of the chat the user has open, and the secret
\* this process remembers.
vote_poll(v, p) ==
    /\ ballot[v].at = "idle" /\ pollRows[p] # Nobody
    /\ ballot' = [ballot EXCEPT ![v] =
           [at |-> IF ~from_me(p) /\ p \in remembered THEN "found" ELSE "lookup",
            poll |-> p, chat |-> pollRows[p], secret |-> p \in remembered, creator |-> Nobody]]
    /\ UNCHANGED <<pollRows, remembered, secretStore, making, votes, pollError, pollsLinked>>

OnlyPn(p) == IF from_me(p) THEN <<Pn>> ELSE <<PollSender[p]>>     \* mutant
\* poll_secret_from_store: the candidates in order, the first that has a secret.
Candidates(p) == IF from_me(p) THEN <<Pn, Lid>> ELSE <<PollSender[p]>>
Hits(p, chat) == {i \in DOMAIN Candidates(p) :
                     [chat |-> chat, sender |-> Candidates(p)[i], poll |-> p] \in secretStore}

poll_secret_from_store(v) ==
    /\ ballot[v].at = "lookup"
    /\ LET b == ballot[v]
           hits == Hits(b.poll, b.chat)
           sender == Candidates(b.poll)[CHOOSE i \in hits : \A j \in hits : i <= j]
       IN  /\ ballot' = [ballot EXCEPT ![v] =
                 IF hits # {}
                 THEN [b EXCEPT !.at = "found", !.secret = TRUE, !.creator = IF from_me(b.poll) THEN sender ELSE @]
                 ELSE IF b.secret THEN [b EXCEPT !.at = "found"] ELSE NoBallot]
           /\ pollError' = IF hits = {} /\ ~b.secret THEN pollError \cup {b.poll} ELSE pollError
    /\ UNCHANGED <<pollRows, remembered, secretStore, making, votes, pollsLinked>>

\* own_poll_creator: a group's addressing mode is asked of the server, and a query that
\* fails counts as PN.
own_poll_creator(chat) ==
    IF chat \in GroupChats THEN {Pn} \cup (IF chat \in LidChats THEN {Lid} ELSE {})
    ELSE {IF chat \in LidChats THEN Lid ELSE Pn}

\* The creator is settled and the vote is sent.
send_vote(v) ==
    /\ ballot[v].at = "found"
    /\ LET b == ballot[v] IN
       \E creator \in IF ~from_me(b.poll) THEN {PollSender[b.poll]}
                      ELSE IF b.creator # Nobody THEN {b.creator}
                      ELSE own_poll_creator(b.chat) :
          votes' = votes \cup {[poll |-> b.poll, creator |-> creator]}
    /\ ballot' = [ballot EXCEPT ![v] = NoBallot]
    /\ UNCHANGED <<pollRows, remembered, secretStore, making, pollError, pollsLinked>>

-----------------------------------------------------------------------------
\* The process ends and starts again: what only it knew is gone.
polls_restart ==
    /\ remembered' = {}
    /\ making' = {}
    /\ ballot' = [v \in Voters |-> NoBallot]
    /\ UNCHANGED <<pollRows, secretStore, votes, pollError, pollsLinked>>

\* link_chats: the rows move, the library's secrets do not.
link_polls ==
    /\ PollAlias.from # PollAlias.to
    /\ pollsLinked' = TRUE
    /\ pollRows' = [p \in Polls |-> IF pollRows[p] = PollAlias.from THEN PollAlias.to ELSE pollRows[p]]
    /\ UNCHANGED <<remembered, secretStore, making, ballot, votes, pollError>>

PollNext ==
    \/ \E p \in Polls : poll_created(p) \/ remember_and_persist(p) \/ poll_received(p)
    \/ \E v \in Voters : (\E p \in Polls : vote_poll(v, p)) \/ poll_secret_from_store(v) \/ send_vote(v)
    \/ polls_restart \/ link_polls

PollSpec == PollInit /\ [][PollNext]_pollVars

-----------------------------------------------------------------------------
\* A vote names the creator its poll was sent as, whether the secret comes from this
\* process or from the library, before and after a restart, in chats addressed by number
\* or by LID, and also when the group cannot be asked: any other creator makes the vote
\* undecipherable.  Not so in a chat that was linked.
VotesNameTheCreator == ~pollsLinked => \A v \in votes : v.creator = WireCreator(v.poll)

\* A poll whose row is here can be voted on, in a chat that was not linked.
PollsCanBeVotedOn == ~pollsLinked => pollError = {}

\* Votes can be cast and counted in a chat that was not linked.
VotesCount == VotesNameTheCreator /\ PollsCanBeVotedOn

\* The same of every poll that was made or received on this device.
EveryPollCanBeVotedOn == pollError = {}
=============================================================================
