------------------------------- MODULE ChatFlags -------------------------------
(***************************************************************************)
(* What this device shares with the other devices of the account: the      *)
(* pin, mute and archive flags of chats and the stars of messages.  A      *)
(* command (client.rs, actions.rs) asks the server and then writes its own *)
(* copy; what other devices change arrives as patches, each handled by a   *)
(* task of its own, in any order; a history chunk brings a chat with the   *)
(* archive flag it had then.  The server is external: it keeps the last    *)
(* accepted value and accepts a change only from a device that has         *)
(* received every patch before it.                                         *)
(***************************************************************************)
EXTENDS Naturals

CONSTANTS
    Flags,          \* the flags of chats
    Stars,          \* the stars of messages
    FlagCommands,   \* commands that may be under way
    MaxPatches      \* bound: changes made by other devices

Shared == Flags \cup Stars

VARIABLES
    onServer,       \* the value the account has
    local,          \* the column of the chat or message row
    stored,         \* whose row exists
    patches,        \* the patches that were not handled yet
    made,           \* how many patches there were
    flagCommand,    \* by command: how far it is, what it sets and to what
    had,            \* the values the account had so far
    raced,          \* the last change came while an earlier one was not applied yet
    unseen          \* the last patch came for a message that was not stored

flagVars == <<onServer, local, stored, patches, made, flagCommand, had, raced, unseen>>

NoCommand == [at |-> "idle"]

Patch(i, v, nr) == [item |-> i, value |-> v, nr |-> nr]

\* The replay after linking brings a patch for every flag that is set.
FlagInit ==
    /\ onServer \in [Shared -> BOOLEAN]
    /\ local = [i \in Shared |-> FALSE]
    /\ stored = {}
    /\ patches = {Patch(i, TRUE, 0) : i \in {j \in Shared : onServer[j]}}
    /\ made = 0
    /\ flagCommand = [c \in FlagCommands |-> NoCommand]
    /\ had = [i \in Shared |-> {onServer[i]}]
    /\ raced = {}
    /\ unseen = {}

Pending(i) == \E p \in patches : p.item = i
Underway(i) == \E c \in FlagCommands : flagCommand[c].at = "accepted" /\ flagCommand[c].item = i

\* A change that the account takes: it is applied here in any order with those still to be applied.
account_takes(i, v) ==
    /\ onServer' = [onServer EXCEPT ![i] = v]
    /\ had' = [had EXCEPT ![i] = @ \cup {v}]
    /\ raced' = IF Pending(i) \/ Underway(i) THEN raced \cup {i} ELSE raced \ {i}

\* Another device changes a flag.
other_device(i, v) ==
    /\ made < MaxPatches
    /\ made' = made + 1
    /\ account_takes(i, v)
    /\ patches' = patches \cup {Patch(i, v, made')}
    /\ UNCHANGED <<local, stored, flagCommand, unseen>>

\* set_chat_flag makes a missing chat row, set_message_starred changes only a row that is there.
set_flag(i, v) ==
    /\ stored' = IF i \in Flags THEN stored \cup {i} ELSE stored
    /\ local' = IF i \in stored' THEN [local EXCEPT ![i] = v] ELSE local

\* The handlers of PinUpdate, MuteUpdate, ArchiveUpdate and StarUpdate, a task for each patch.
handle_patch(p) ==
    /\ set_flag(p.item, p.value)
    /\ unseen' = IF p.item \in stored' THEN unseen \ {p.item} ELSE unseen \cup {p.item}
    /\ patches' = patches \ {p}
    /\ UNCHANGED <<onServer, made, flagCommand, had, raced>>

\* set_chat_pinned, set_chat_muted, set_chat_archived, star_message; a command is given
\* for a row the user sees.
command_starts(c, i, v) ==
    /\ flagCommand[c].at = "idle" /\ i \in stored
    /\ flagCommand' = [flagCommand EXCEPT ![c] = [at |-> "asked", item |-> i, value |-> v]]
    /\ UNCHANGED <<onServer, local, stored, patches, made, had, raced, unseen>>

\* The server takes the change: every patch before it has reached this device, but some may be
\* waiting for their handler ...
server_accepts(c) ==
    /\ flagCommand[c].at = "asked"
    /\ account_takes(flagCommand[c].item, flagCommand[c].value)
    /\ unseen' = unseen \ {flagCommand[c].item}
    /\ flagCommand' = [flagCommand EXCEPT ![c].at = "accepted"]
    /\ UNCHANGED <<local, stored, patches, made>>

\* ... or the request fails and the local copy stays as it is.
command_fails(c) ==
    /\ flagCommand[c].at = "asked"
    /\ flagCommand' = [flagCommand EXCEPT ![c] = NoCommand]
    /\ UNCHANGED <<onServer, local, stored, patches, made, had, raced, unseen>>

\* The write after the await.
write_flag(c) ==
    /\ flagCommand[c].at = "accepted"
    /\ set_flag(flagCommand[c].item, flagCommand[c].value)
    /\ flagCommand' = [flagCommand EXCEPT ![c] = NoCommand]
    /\ UNCHANGED <<onServer, patches, made, had, raced, unseen>>

\* A message or a chat is stored without its flag; one that was there keeps what it has.
store_row(i) ==
    /\ stored' = stored \cup {i}
    /\ UNCHANGED <<onServer, local, patches, made, flagCommand, had, raced, unseen>>

\* mutant: the flag of a chunk overwrites that of a row that was there
upsert_over_row(i, v) ==
    /\ i \in Flags /\ v \in had[i]
    /\ stored' = stored \cup {i}
    /\ local' = [local EXCEPT ![i] = v]
    /\ UNCHANGED <<onServer, patches, made, flagCommand, had, raced, unseen>>
\* upsert_chat_from_history: the flag of an older day that the chunk carries counts only
\* for a new row.
upsert_from_history(i, v) ==
    /\ i \in Flags /\ v \in had[i]
    /\ stored' = stored \cup {i}
    /\ local' = IF i \in stored THEN local ELSE [local EXCEPT ![i] = v]
    /\ UNCHANGED <<onServer, patches, made, flagCommand, had, raced, unseen>>

FlagNext ==
    \/ \E i \in Shared, v \in BOOLEAN : other_device(i, v) \/ upsert_from_history(i, v)
    \/ \E p \in patches : handle_patch(p)
    \/ \E i \in Shared : store_row(i)
    \/ \E c \in FlagCommands :
          \/ \E i \in Shared, v \in BOOLEAN : command_starts(c, i, v)
          \/ server_accepts(c) \/ command_fails(c) \/ write_flag(c)

FlagSpec == FlagInit /\ [][FlagNext]_flagVars

-----------------------------------------------------------------------------
Settled(i) == ~Pending(i) /\ \A c \in FlagCommands : flagCommand[c].at # "idle" => flagCommand[c].item # i

\* When all is settled a row shows what the account has: the replay, patches that come
\* before their chat, commands that fail and late history chunks leave nothing behind.
\* Not so after two changes that were on their way at once, until the next change.
FlagsConverge == \A i \in stored : Settled(i) /\ i \notin raced \cup unseen => local[i] = onServer[i]

\* The same of every flag of a chat, races included.
FlagsAlwaysConverge == \A i \in stored \cap Flags : Settled(i) => local[i] = onServer[i]

\* And of stars that came before their message.
StarsConverge == \A i \in stored \cap Stars : Settled(i) /\ i \notin raced => local[i] = onServer[i]
=============================================================================
