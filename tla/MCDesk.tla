-------------------------------- MODULE MCDesk --------------------------------
(***************************************************************************)
(* The components that share no state with each other, in one run: a       *)
(* behavior is one of one part, and the other parts keep their initial     *)
(* state.                                                                  *)
(***************************************************************************)
EXTENDS CallLog, CallAudio, Statuses, Polls, ChatFlags, UiDelivery, AppLock, Migrations

CONSTANTS
    alice, aliceLid, grp, grpLid,
    s1, s2, pPn, pLid, pIn

VARIABLE part

Parts == {"calls", "capture", "playback", "statuses", "polls", "flags", "delivery", "lock", "schema"}

others == <<callVars, audioVars, statusVars, pollVars, flagVars, deliveryVars, lockVars, schemaVars>>

-----------------------------------------------------------------------------
(* A call with an id, while it goes on and after it; one without an id or a
   start, of a contact with two ids; one of a group; one that tells little. *)

Call(id, result, start, who) ==
    [id |-> id, participants |-> who, group |-> Nothing, incoming |-> "yes", result |-> result, start |-> start]

Records ==
    {Call(<<"c1">>, "ONGOING", 1, <<alice>>), Call(<<"c1">>, "connected", 1, <<alice>>),
     Call(Nothing, "cancelled", Nothing, <<aliceLid>>),
     [Call(Nothing, "rejected", 2, <<alice, aliceLid>>) EXCEPT !.group = grp],
     [Call(Nothing, "upcoming", -1, <<>>) EXCEPT !.incoming = "unknown"]}

Items == {[participants |-> <<alice>>, from_me |-> TRUE, outcome |-> "silencedByDnd", time |-> 1]}

TwoIds == [from |-> aliceLid, to |-> alice]

(* Statuses: one soon, one late; and messages that are none. *)

Status(id, time) == [id |-> id, chat |-> StatusBroadcast, sender |-> alice, from_me |-> FALSE, time |-> time]
Updates == {Status(s1, 0), Status(s2, 1), [Status(s2, 1) EXCEPT !.chat = alice, !.id = s1]}

(* Polls: in a chat by number, in a group addressed by LID, and one received. *)

PollChats == [p \in Polls |-> IF p = pPn THEN alice ELSE IF p = pLid THEN grpLid ELSE aliceLid]
PollSenders == [p \in PollsReceived |-> aliceLid]
LinkedPoll == [from |-> aliceLid, to |-> alice]

(* Preferences: none yet, one that cannot be read, one without a timeout, one with one. *)

Preferences == {Unset, Half, [enabled |-> TRUE, timeout |-> Unset], [enabled |-> TRUE, timeout |-> 2]}

(* Chats of earlier versions: an empty one; a group whose last row is protocol
   chatter, by its own id and by a LID; one whose older message came later. *)

Text(row, time) == [row |-> row, kind |-> "text", time |-> time]
Chatter(row, time) == [row |-> row, kind |-> "system", time |-> time]
OldChat(messages, group, longLid) ==
    [messages |-> messages, activity |-> 1, kind |-> "image", group |-> group, longLid |-> longLid,
     name |-> "name", source |-> "subject"]

OldRows ==
    {OldChat({}, FALSE, FALSE), OldChat({Text(1, 2), Chatter(2, 1)}, TRUE, FALSE),
     OldChat({Text(1, 1), Chatter(2, 2)}, FALSE, TRUE), OldChat({Text(1, 2), Text(2, 1)}, FALSE, FALSE)}

-----------------------------------------------------------------------------
DeskInit ==
    /\ part \in Parts
    /\ CallInit /\ AudioInit /\ StatusInit /\ PollInit /\ DeliveryInit
    /\ IF part = "flags" THEN FlagInit ELSE FlagInit /\ onServer = [i \in Shared |-> FALSE]
    /\ IF part = "lock" THEN LockInit ELSE LockInit /\ lockFile.main = Unset /\ ~screen.mirror
    /\ IF part = "schema" THEN SchemaInit ELSE SchemaInit /\ database.version = SCHEMA_VERSION /\ database.chat.messages = {}

DeskNext ==
    /\ UNCHANGED part
    /\ \/ part = "calls" /\ CallNext /\ UNCHANGED <<audioVars, statusVars, pollVars, flagVars, deliveryVars, lockVars, schemaVars>>
       \/ part = "capture" /\ Capture /\ UNCHANGED <<callVars, statusVars, pollVars, flagVars, deliveryVars, lockVars, schemaVars>>
       \/ part = "playback" /\ Playback /\ UNCHANGED <<callVars, statusVars, pollVars, flagVars, deliveryVars, lockVars, schemaVars>>
       \/ part = "statuses" /\ StatusNext /\ UNCHANGED <<callVars, audioVars, pollVars, flagVars, deliveryVars, lockVars, schemaVars>>
       \/ part = "polls" /\ PollNext /\ UNCHANGED <<callVars, audioVars, statusVars, flagVars, deliveryVars, lockVars, schemaVars>>
       \/ part = "flags" /\ FlagNext /\ UNCHANGED <<callVars, audioVars, statusVars, pollVars, deliveryVars, lockVars, schemaVars>>
       \/ part = "delivery" /\ DeliveryNext /\ UNCHANGED <<callVars, audioVars, statusVars, pollVars, flagVars, lockVars, schemaVars>>
       \/ part = "lock" /\ LockNext /\ UNCHANGED <<callVars, audioVars, statusVars, pollVars, flagVars, deliveryVars, schemaVars>>
       \/ part = "schema" /\ SchemaNext /\ UNCHANGED <<callVars, audioVars, statusVars, pollVars, flagVars, deliveryVars, lockVars>>

DeskSpec ==
    /\ DeskInit /\ [][DeskNext]_<<others, part>>
    /\ WF_deliveryVars(part = "delivery" /\ PageStep)
=============================================================================
