# RustWA: a TLA+ verification project

RustWA is a desktop client for WhatsApp: a web view in React, a Tauri host in Rust, a core crate
(`crates/whatsapp-core`) with a SQLite store, and the protocol library `whatsapp-rust`, which is outside this
repository. The specifications here model the parts of the client where concurrency and message order decide
whether the data stays right. They are translated from the source under `src/`; documentation is only used to
say what the code is meant to do.

## 1. Inventory

The web view calls Tauri commands; each command is one call of the core. The core owns the store (one SQLite
connection behind a mutex) and a `WaClient`; `whatsapp-rust` calls its event handlers; history imports run in
detached blocking threads; the core publishes `CoreEvent`s on a broadcast bus that the host forwards to the web
view. Concurrency is therefore between the event handlers, the import threads, commands that await the network,
and a handful of background tasks started by `connect` (name passes, contact backfill, app-state replay, history
request worker).

`connect` (`client.rs:286`-462) builds its bot without choosing how events are delivered, so the library's default holds:
every event's handler runs in a task of its own and nothing orders two of them
(`docs/research/whatsapp-rust-api.md:549`, `EventDelivery::Concurrent`). Every module takes that as it is: handlers of two events may
overlap, and the later event's may run first. What the code does not keep then is in section 7; what it does keep is stated for whoever did not
meet anybody (`raced` in `MessageLog`, `Session`, `CallManager` and `ChatFlags` are history variables that note who did).
The runs `identity_serial` and `identity_groups` alone take one handler at a time, and say so.

| Component | State | Operations | Hard behaviour | What makes it correct |
|---|---|---|---|---|
| Chat identity (`store.rs`, `client.rs`) | `chats`, `jid_aliases`, `contacts`, `messages.chat_id` | link, resolve, merge, name, backfill, sweep | every store call takes the lock several times; links race live traffic | one row per person; aliases settled; no message without chat; names only improve |
| Message log (`store.rs`, `client.rs`, `actions.rs`, `chat_ops.rs`) | `messages`, `reactions`, `pending_reactions`, the chat row | receive, send, edit, revoke, react, receipts, clear, delete, import | receipts and reactions out of order, rows held over a round trip, import threads, retries | receipts stick; the last reaction shows; activity and unread fit the messages |
| Session (`client.rs` 227-790, 1196-1252) | bot handle, connection state, own JID, full-sync gate | connect, shutdown, logout, restart pairing, reset | connect against shutdown, half-built bot, handlers in any order, once-per-session gate | one bot at a time; the published state fits the handle; the replay happens |
| History requests, name passes (`client.rs` 497-740, 1067-1193) | request queue, budget, grace clock; debounce trigger | request, sweep, resolve names | timers against late answers, a worker that outlives its connection | no sweep within the grace; a trigger is never lost |
| Call manager (`calls.rs` 830-1343) | active and incoming calls, monitors, call bus | start, answer, reject, end, mute, engine events | check, then await; late monitors; offers and their ends handled in any order; a lagging bus | one call per chat; the registry fits the live calls; every call ends |
| Call log, status updates, migrations | rows, `user_version` | import, upsert, prune, migrate | repeated records, a crash inside a batch | idempotent imports; a restart finishes the migration |
| Media cache (`media.rs`) | cache files, `.part` files, media records | download, send | two downloads of one payload, a failed download, a failed write after a send | a cache entry is always complete; what is answered as sent can be fetched |
| Call media (`call_media.rs`) | PCM ring, worker threads | push, pull, stop | producer faster than consumer | ring bounded, workers stop |
| Link and file delivery, windows (`deep_link.rs`, `file_open.rs`, `windows.rs`) | ready flag, buffer, window registry | dispatch, ready | flag and buffer under different locks | every link delivered, none twice |
| App lock (`app_lock.rs`, `security.rs`, `LockScreen.tsx`) | preference file, focus clock, overlay | set, lock, unlock, launch gate | late answers against events | what the user set is what is stored and enforced |
| UI store (`store/app.ts`) | message lists, flags, call session | optimistic sends, paging, events | echo against answer, status events out of order | the lists show each message once, with its store status |
| Groups, communities, channels, business, privacy, profile | none of their own | requests | - | not modelled: wrappers around the library |

`PROJECT.json` lists the same components with their files and status, and every hazard at its line.

## 2. Plan

Done, in the order it was planned: `ChatIdentity`; `MessageLog` with the abstract `MessageBoard`; `Session`;
`CallManager` over `CallMedia` with the abstract `CallLife`; `HistoryRequests` (request worker and name passes);
`MediaCache` and `MediaSend`; `Migrations`, `CallLog`, `CallAudio`, `Statuses`, `Polls`, `ChatFlags`; `UiDelivery` and
`AppLock`. Proofs: `ChatIdentityProofs`, `MessageLogProofs`, `CallManagerProofs`, `SessionProofs`,
`HistoryRequestsProofs`, `ChatRowProofs`, `MediaSendProofs`, and `DeskProofs` for the parts that share the desk.

Left, in this order:

1. `UiStore`: the page's message lists, optimistic sends and paging, fed by the events of `MessageLog`.

## 3. What is modelled

### ChatIdentity

State: the tables `chats` (name, provenance, dated, unread), `messages` (the chat a message hangs on),
`jid_aliases`, `contacts`; `todo[t]`, the store calls left in the handler a task runs; `held[t]`, what
`canonical_jid` returned so far for the call at the head. The atomic step is one critical section of the
connection's mutex: `Resolve(t)` is a `canonical_jid` call under its own lock, then one action per store function
(`record_message_activity`, `link_jids`, `upsert_chat_from_contact`, ...) does the statements under the next lock.
`Handler(t)` starts one of the handlers of `client.rs`; the handlers a task may run are its `Duties`. JIDs are model
values in four sets (phone numbers, LIDs, groups, group LIDs) and the digits shared by a group and its LID twin
are the constant `Twin`; a JID used as a name stands for its number. Message contents, flags and timestamps are
abstracted. What the environment decides is chosen freely: which JID a message arrives under, what names a history blob
carries, what a usync answer links.

| Run | Question | Result |
|---|---|---|
| `identity_serial` | one person, two JIDs: inbound, sends, imports, contacts, patches, deletions, names, one at a time | one row, no message refused |
| `identity_scenes` | two LIDs linked in turn and chats deleted; sends and contacts against backfill and sweep; a contact and a push name against the name pass; each statement by statement | aliases settled, never unlinked; foreign key; strong names stay, links keep the name |
| `identity_groups` | a group and its LID twin, imports, placeholders and live traffic | one row, never a sender's name |

`MCChatIdentityScenes` puts the three scenes side by side in one state space: what is known at the start of a contact who takes
no part (`lid3`) says which `scene` a behaviour is, and the constraint `InScene` cuts the handlers that belong to another. The second
LID appears in the first scene only, the second name only as a push name beside the name pass.

### MessageLog and MessageBoard

State: one chat row (preview, the message its kind and direction come from, activity, unread), `messages` (status,
kind, text), `reactions`, `pending`, and `todo` as above; JIDs are taken as resolved, which is ChatIdentity's subject.
`arrived` is what the server holds and has delivered; `latest`, `told`, `fresh` and `raced` are history variables for the
properties: the last reaction handled, the highest status reported, the messages the unread counter stands for, and the reactions
and receipts whose handler was under way together with one it meets (`Meets`: another reaction of the actor, or the row or drain of the message).
Handlers of different events are different tasks, store call by store call: `find_reaction_target` and `find_undecryptable` are the look-ups
whose answer may be stale at the next call.
Commands are lists too: `edit_message` reads the row when it starts, waits for the network (`request_answered`) and
writes the row it read; `send_text` stores a pending row first, `persist_and_emit` (mentions, forwards, quoting
replies) stores it after the answer. A message of this device is a `Draft`: the server may accept it
(`server_accepts`) at any time during the request, and a request may fail whether or not it did. Every text message
has one body; revokes remove it and edits replace it.

`MessageBoard` is the abstract specification: a stored message's rank only grows, a reader sees for each actor either
what was shown or the last reaction that arrived, or any one of an actor whose reaction raced. `Board` in MessageLog is the refinement mapping (rows to ranks, the
reactions table to what is shown); `BoardSpec` is checked in `log_live`.

| Run | Question | Result |
|---|---|---|
| `log_live` | messages, receipts, reactions and chat deletions, each in a task of its own, against each other and `send_text` | implements MessageBoard; receipts stick and reactions settle unless they raced; pending only under way |
| `log_commands` | edits, revokes, reads, delete-for-me against send, reply, edit and revoke commands | activity covers the messages, unread counts once |
| `log_send` | imports, placeholders, live messages and clears against `send_text`, with fairness | activity covers the messages; every send settles |

### Session

The bot handle and its mutex, the commands of two tasks (`task[t]` is the command and the await it is at), the bots
with what the library knows of their link, the events whose handlers have not run (`news`, a count by bot and event), the published
state, the own JID, the session directory, and the replay gate. `connect` holds the mutex over `open_session` and `spawn`; `shutdown` and
the commands built on it `take` the handle, release the mutex and stop the bot, then `publish`. A bot is named by a number
and a session by the bot that created it, so that "the session on disk is the one this bot opened" can be said.
The library is external: links go up and down, phones pair and unlink, builds fail; it reports an event when it happens, and the
handler runs at any later time, before or after those of other events, also when the bot has stopped. `raced` holds the topics
(the connection, the JID) whose newest word came while an older one was still to be handled.

| Run | Question | Result |
|---|---|---|
| `session` | connect and reset against shutdown, logout and restart, one at a time or overlapping | no bot out of the client's sight; connected only with a bot, and one at a time the state, the directory and the JID fit, unless the newest word raced; every command ends, a claimed replay runs or its bot stops |

### HistoryRequests

The chat rows made of contacts, the queue of the request worker, its budget `sent`, what it remembers of the round
(`requested`), the requests still within their grace (`young`), and the debounce of the name pass. Time is only order: the last
request of a round is the last to leave its grace, which is what the worker's sleep relies on. `new_session` is a restart of
the process: tasks begin anew, rows and unanswered requests stay. `new_connection` is a connect after a shutdown in the same process:
a task that sleeps then sleeps on (`late`), and does its work beside the next session, the backfill (`late_backfill`), or the sweep
when its own grace is over (`late_sweep`, with `old` for what was asked for before), since neither asks for its client again (`client.rs:709`-717).
`MCHistory` runs the address book and the name passes as two parts, since they share nothing but requests that can come at any time.

| Run | Question | Result |
|---|---|---|
| `history` | three contacts, two with a conversation, a budget of two | no young row swept but by a leftover worker, empty rows go, every name request is followed by a pass, every conversation arrives |
| `history_converges` | three contacts, only the oldest with a conversation | violation: it starves |

### CallManager, CallMedia, CallLife

`CallMedia` is the registry of audio streams with the two worker threads of each; `CallManager` extends it with the active and
ringing tables of each manager, the steps of the commands between their awaits, the engine's events, the monitor of each
call, and the bounded bus to the user interface with its forwarder, which ends for good when it lags. `CallLife` is the
abstract specification: what whoever watches the updates of a call may see. `phase` is what the last published update
says of a call, and the refinement maps it to itself: the work is in showing that no late publisher (engine event, monitor,
rejected offer) breaks the order. The library offers a call (`offered`) and takes the offer back (`offer_over`); `incoming_call` and `offer_ends` are
the handlers, which run later, in any order, on the manager that is in the slot then. A call whose end crossed its offer or
its answer is in `raced`, and `CallLife` lets the news of it come too early or too late.

| Run | Question | Result |
|---|---|---|
| `calls` | one chat, a call each way, two commands at a time, media that fails, events that come late or out of turn | the registry is sound, the tables current, updates implement CallLife, ended calls are told, audio ends |

### MediaCache, MediaSend

`MediaCache` has the cache directory as names and inodes, so that two downloads with one `.part` file write into
the file the other has truncated or renamed, as they do on disk; blocks stand for the bytes; a name is what
`cache_file_name` makes of the digest a message carries. `MediaSend` adds `send_file`: classification, the upload, the
payload that is built, the send, the two writes after it, each of which may fail, and the end of the process between them.

| Run | Question | Result |
|---|---|---|
| `media` | two messages with one photo, two downloads at a time or one beside a send | what is served is whole (one at a time, and once all are through); what is shown of a sent file is what was sent, and what is answered as sent can be fetched |

### The desk: CallLog, CallAudio, Statuses, Polls, ChatFlags, UiDelivery, AppLock, Migrations

Eight modules that share no state with the others or with each other. `MCDesk` runs them side by side: a behaviour is
one of one part (`part`), so that the state space is their sum. Call records, polls and old chats are given as constants;
their shapes are in `MCDesk` with a word on why each is there.

| Module | State and actions | What `desk` checks |
|---|---|---|
| `CallLog` | rows by key; a history task that upserts one record after another, live items, a link, the clock | `ImportsSettle`: one row per call, telling what an entry told; a listed row re-imports as itself |
| `CallAudio` | samples by number through callbacks, channels, framer, resampler and ring | `AudioKeepsOrder`: frames whole, nothing twice or out of order, the ring holds the newest |
| `Statuses` | rows, the clock, listings that prune and then read | `ListingsAreRight`: no current update missed, none viewed shown as new |
| `Polls` | secrets in the process and the library's store, votes, links, a restart | `VotesCount`: a vote names the creator its poll was sent as |
| `ChatFlags` | the server's flags, the patches whose handlers have not run, in any order, commands, history chunks, messages | `FlagsConverge`: what is stored here ends as what the server has, but for an item whose last change crossed another or a patch before its row |
| `UiDelivery` | ready flags, buffers, events, the page's listeners, its overlay and bridge, reloads | `DeliveredOnce`: a batch of files at most once, and files and links arrive |
| `AppLock` | preference file and its temporary, focus clock, prompt, overlay, mirror, crashes | `SettingsKept`, `LockFollows`: the file says what was chosen; what is owed is covered, and the mirror follows |
| `Migrations` | tables, columns, `user_version`, one chat, the statement that is next, kills | `OpensWhole`, `ReopenChangesNothing`: an open store is whole, opening fails only after a torn `ALTER TABLE`, names are reset once |

## 4. Bounds

Most state spaces are finite without counters being cut: handlers are finite lists and the environment delivers each message
at most twice (undecryptable, then decrypted). ChatIdentity uses two or three JIDs, one or two messages, one or two
names and one to three tasks: a merge involves two rows, a chain of aliases three JIDs, a race two tasks. MessageLog
uses one message of each side, one actor and one emoji besides the removal (two emojis where the order of reactions
matters) and two or three tasks; the older message is the other side's, so that pages and sends meet in both
orders. Imports carry one or two messages of one conversation. Every run lists its sets in its `.cfg`.
`TwoAtOnce` (in `log_live`) lets two of the three tasks be under way at a time, of which `late` has messages only: `Meets` is
about two handlers, and every pair of them still overlaps in every order.

Handlers of events that wait for their turn are bounded too. `MaxReports` (one) is how many of one event of a bot are outstanding, and
`MaxOutstanding` (two) how many of any; while commands overlap it is one, and over the step of a command only a Connected, the one
that a command must take back (`MCNext` in `MCSession`; the theorems about Session hold for any number of reports and without it). `HandlersCrossOne` (an
action constraint of `calls`) lets handlers of offers cross one command, and two commands cross each other without them; the tasks are alike, so
a command that comes alone is the first one's. In HistoryRequests one task of an earlier connection is left at a time (`late`).

Named bounds elsewhere: `MaxBots` (two bots: the one that is stopped and the next), `MaxStreams` and `MaxManagers` (two
streams, as a second call of a chat replaces the first; one manager, the theorems hold for any number),
`BusCapacity` (one: the bus lags with the second update), `Cap` (a budget of two for three contacts: one has to wait),
`MaxCallTime`, `MaxStatusTime`, `MaxLockTime` (seconds, past the window or the timeout by one), `MaxSamples` (nine samples in blocks of one and three
through channels of one and two and a ring of four: everything overflows), `MaxPatches`, `MaxReloads`, `MaxKills`, `MaxOpens`,
`MaxLockFaults` (one or two, so that a fault meets the recovery from another where the code recovers). Two downloads
of a file of two blocks are enough for one to truncate, overtake and rename the other's.

Deadlock is checked in every run but `desk`, whose parts end when their clocks, polls or kills are used up. In the others some
handler can always start again.

## 5. Fairness

Safety runs assume nothing. The runs with liveness state what the code's runtime gives:

- `log_send`: weak fairness of every task's steps. The runtime polls every task that is ready, store calls never block for
  ever, and the library answers a request or fails it when the connection goes down; that last point is an assumption
  about code outside the repository. Handlers are under no fairness: nothing has to arrive.
- `session`: strong fairness of each task, since tokio's mutex serves its waiters in order, so that a task that can take it again
  and again gets it; weak fairness of the replay. Nothing is assumed of links, phones or the commands themselves.
- `calls`: weak fairness of the forwarder, the monitors and engines, and the audio workers, which are threads of their own. No
  command need be given or answered.
- `history`: weak fairness of the worker, of the task left over from an earlier connection, the grace's clock, the name pass and the phone's answers; strong fairness of a
  request, which may be skipped or fail, but gets through when tried again and again. `BacklogConverges` says itself
  what else it needs: sessions begin again and again, none ends with rows half-way, and no request fails.
- `desk`: weak fairness of the page's steps (it mounts, listens and asks), not of the system or the user.

## 6. What is proved

`ChatIdentityProofs` (checked by tlapm, no step left open) holds for every value of the constants that satisfies
`IdentityAssumption`: any finite set of JIDs and any twins, any names, messages, tasks and duties.

- `TypeCorrect`: `Spec => []TypeOK`. One lemma per store call and handler.
- `ForeignKeyHolds`: `Spec => []ForeignKey`. The foreign key is not inductive alone: `link_jids` moves messages from
  one id to another and deletes the row, which would orphan them if both ids were the same. The inductive invariant
  `KeyInv` is `TypeOK /\ HeldDiffer /\ ForeignKey`, where `HeldDiffer` says that the two ids a link has resolved differ,
  which the early return of the code ensures when the second one is resolved.
- `StrongNamesHold`: `Spec => StrongNamesStay`. From `TypeOK`, one case per action; the work is in `link_jids`, where
  the row that survives is `MergedRow`, and in the pushes of names, which look at the provenance.

- `GroupNamesHold`: `Spec => []GroupsNeverTakePushNames`, for any tasks and duties. `GroupInv` adds that aliases and resolved ids
  keep to a kind (`KindsKept`: a group's JID never resolves to a person's) and what each list may hold (`CallsFit`: a link joins two JIDs
  of one kind), so that a merge only ever gives a group the row of a group.
- `SettledHolds`, `LinksKept`: `Spec => []CanonicalIsSettled` and `Spec => LinkedStaysLinked`, assuming `OneLinks` (at most one task has duties
  that link; the others may run between any two of its steps) and `NoBackfill` (its `register_jid_alias` makes aliases without merging
  rows). In `AliasInv`, `LinkersHoldCurrent` says that what the linker has resolved is still the canonical id, since nobody else changes an
  alias; `LinkMerges` then shows that a link sends the identities of both rows to one of the two (`Merges`), and both properties follow
  from that equation (`MergesSettle`).
- `OneRowHolds`, `NamesKept`: `Spec => []OneRowPerIdentity` and `Spec => NamesSurviveMerges`, assuming `LinksAlone` (a task that links is the
  only task) and `NoBackfill`. Rows need more than aliases do: whatever writes one must hold a current id too (`HeldIsCurrent` in
  `SettledInv`). Both hypotheses are needed: `IdentityRace.cfg` and `IdentityCycle.cfg` show what happens otherwise. `GroupsHold` puts
  `OneRowHolds` and `GroupNamesHold` together: `Spec => []GroupsAreWhole`.
- `SettledIfApart`, `LinksKeptIfApart`, `OneRowIfExcluded`, `NamesKeptIfExcluded`: what the four theorems above come from, about
  behaviours instead of duties, for any tasks. No two tasks are inside `link_jids` at once (`[]LinksApart`), or no link runs while another
  task holds a resolved id (`[]LinksExclude`), and no alias is registered without a merge. So the theorems say what a lock
  around look-up and statement would have to keep apart for `IdentityRace` to end well, and duties that rule overlaps out are one way to get it.
- `ChainHolds`, `ChainKeeps`: scene "chain" of `identity_scenes`, for any number of JIDs and messages: `[]ChainIsSettled`, and in it
  linked JIDs stay linked and no merge loses a name. In `SceneInv` the stranger whose contact tells the scenes apart takes no part
  (`Apart`), so that the scene never changes; in this one the side task has nothing to do, and `SettledInv` holds.
- `ScenesKeep`: `LinksKeep`, for any names and messages. Beside the chain it speaks of the name pass and live traffic that link one phone
  number and one LID between each other's look-ups. No lock keeps them apart, but with two JIDs the later transaction merges
  both rows again, and picks the named one (`PairKeepsNames`).
- `MessagesHold`: `Spec => []MessagesFindTheirChat`, assuming `TakesAlone` (a task that links, deletes or sweeps is the only task) and
  `NoBackfill`. So for any number of live tasks statement by statement, or for all handlers one at a time. `ChatComes`: a message still
  on a task's list has its row, or a call before it on the list that makes one under the same canonical id, and no call before it takes
  rows away.

The duties of `identity_serial` and `identity_groups` satisfy these hypotheses. The two assumptions `NoRowIsNone` and `IdentityAssumption`
say that the markers differ from names, JIDs and rows, and that no JID is both a group's and a person's (the server and the form of a
JID tell, `types.rs`).

`MessageLogProofs` does the same for any messages, actors, texts, tasks and duties that satisfy `MessageLogAssumption`.

- `TypeCorrect`: `Spec => []TypeOK`. Types alone are not inductive: the importer notes the newest message it stored in
  the last call of its list, and only a refresh of the chat may carry it. `TypeInv` adds `ImportsEndInRefresh`: a list
  that still imports something ends in a refresh.
- `StatusIsMonotone`: `Spec => StatusOnlyUpgrades` (no run checks it by itself: `BoardSpec` contains it), assuming `NoRewriters`: no task imports history, handles
  undecryptable messages, or edits or revokes stored ones. These four write rows that may be stored already, with the status
  the blob or an earlier read had, and `LogReimport.cfg` and `LogEdit.cfg` show what comes of it; the hypothesis is where
  the claim of the comment ends. The invariant `WriteInv` says that a row still to be written (`WritesOnce`) is the only
  one of its message, that the message has left the server's queue, and that it is not stored; `ArrivesOnce` makes
  every start of a handler keep it. Each step is then shown to store only the message at the head of its list and
  to keep or upgrade the status of every row that stays (`RowsKept`).
- `PendingHolds`: `Spec => []PendingIsUnderWay`, assuming `NoRewriters`. `PendingInv` follows each pending row to the one command
  that stored it and has not written its answer, also when the chat is cleared in between.
- `ImplementsBoard`: `Spec => BoardSpec`, assuming `LiveAndSends`: `NoRewriters`, and no echoes of this account's other devices. Any
  number of tasks may handle messages, reactions, receipts and deletions beside each other and beside sends, in any order.
  `ReceiptsHold` and `ReactionsHold` (`[]ReceiptsStick`, `[]ReactionsSettle`) come from the same invariant `SettleInv`, which is
  `QueueInv /\ ReceiptsFit /\ ReactionsFit`: what is told of a message is in its row, in the buffer, or in a call that is still
  to run, and the last reaction of each actor is the one that will be applied last, unless it is in `raced`. `RacesNoted` says that `raced`
  misses nobody: two calls that meet, on the lists of two tasks, have their reaction or receipt in it. So whatever is not in it was handled
  before or after what it meets, and the theorems say that this is enough. With a rewriter, `LogReactionRace.cfg`
  leaves a reaction in the buffer; with an echo, `LogEcho.cfg` loses a receipt.

`ChatRowProofs` adds the chat's own row:

- `ActivityHolds`: `Spec => []ActivityCovers`, assuming `NoDeletes` (no task deletes the chat). `CoverInv`: a stored
  message is covered by the chat's activity or by a call of its handler that will raise it. The hypothesis is needed: a handler that
  has raised the activity and not stored its message yet would otherwise store it into a row made for an older message after
  the deletion.
- `UnreadHolds`: `Spec => []UnreadIsExact`, assuming `NoImports` (no history pages, which set the counter, and no undecryptable
  messages, which are counted again at their retry: `LogRetry.cfg`). `BadgeInv`: calls that count are of distinct messages, none of
  them counted since the last read.
- `ChatRowHolds`: `Spec => []ChatRowFits`, under both. The duties of `log_live`, `log_commands` and `log_send` satisfy the hypotheses of
  the theorems about the properties they check.

`CallManagerProofs`, for any chats, calls, tasks, streams and managers:

- `RegistryHolds`: `MediaSpec => [](RegistryIsSound /\ OneVoicePerChat)`, by the invariant `RegistryInv`, which ties each registered stream
  to a stage it can be in. The manager's steps are `CallMedia` steps or leave it alone, so `RegistryKept` carries it over to `Spec`.
- `TypeCorrect`; the bus is typed apart from the tables because its capacity is.
- `TablesStayCurrent`: a call in the active table has its monitor, a ringing offer was last told to ring and has not gone away, unless its
  end is still to be handled or it raced. `ManagerInv` is the part of `CallInv` that says where each command is, which calls it alone may put
  up, and which handlers of an offer are still to run (`HandlersKnow`).
- `ImplementsCallLife`: `Spec => LifeSpec`, whatever the order in which offers and their ends are handled. `CallInv` says of each call
  which publishers are left; each step is then a step of `CallLife` or leaves `phase` alone.
- `EndsAreTold`: `Spec => []EndsAreHeard`. `EndsFit` follows the Ended of each call: it is told, on the bus as the call's last
  update (but for late news that its offer went away), or lost to a lag. This is `EndedIsTold` but for the forwarder's fairness.
- `AudioIsHeld`: `Spec => []AudioHasOneHolder`. `HoldInv`: ends are held by the one command that opened them, or the one call set up with them,
  wherever commands fail or cross. This is `AudioEnds` but for the fairness of engines and workers.

`SessionProofs`, for any tasks, bots and outstanding handlers: `TypeCorrect` and `BotStaysKnown` (`Spec => []BotIsKnown`). Neither half is
inductive: `SessionInv` adds that a connect past its check holds the mutex and finds no handle (`BuilderHoldsTheMutex`; `spawn` would
overwrite a running bot otherwise), that a report of the link still to be handled is of a living bot, or its command has still to publish,
or it has raced (`NewsIsOfTheLiving`), and that the command that stops the last bot takes connected back at its very next step, unless
that has raced (`ConnectedIsTakenBack`).
`MutexIsBusy` and `CommandsNearTheirEnd` are the safety behind `CommandsEnd`: whoever waits for the mutex waits for a connect that is building, and
every step of a command is one of at most eight, also of those that end in a connect (`StepsLeft`).
`AloneFitsHolds`: `MCSpec => []AloneFits`, the states between commands run one at a time. `AloneInv` says what each command still owes at
each of its steps (`CommandsFit`: who is stopping has a task and the other way round, and whoever takes the handle publishes), what
the published state is or the only handler left will make of it (`LinkFits`, with `NewestIsAlone`: unless the newest word raced no other is
outstanding), and whose session is on disk (`DiskFits`). `SessionStays` needs no such condition.

`MediaSendProofs`, for any messages, contents, cache names and downloads, as long as there are finitely many names and tasks:

- `RacesEndWhole`, `CacheHolds`: however downloads interleave, every cached file is whole once all of them are through and none has failed; with
  one at a time it is whole all along, also across failures (`MCSpec => []CacheIsSound`). The hypothesis `NamesTellContents` says that messages with one cache
  name have one content, which the digest in the name ensures; for payloads without a digest it is false (MediaNoHash below).
  `FilesInv` keeps inodes apart from names (a file has one name, who writes into a named file opened it under that name, and by
  counting there always is a new inode); `FilesCome` then says that every block still missing has a writer who has not come to it yet.
- `SendsHold`: `Spec => []SendsAreWhole`, for messages this device sends (`Sent \subseteq Msgs`), wherever the upload, the send, either write
  or the process fails, by what each phase of a send has done (`PhaseFits`); what is read back from a payload is the kind it was built for, since the field (`FieldOf`) and the flag are set
  apart: a GIF sent as a video note has both (`media.rs:870`).

`HistoryRequestsProofs`, for any contacts and budget: `SweepWaits` (`Spec => SweepSparesYoung`). The worker only looks at the last request of
its round; `LastIsYoungest` says that this is enough: once this session has sent a request, whatever is young has the last one
of the round among it. It holds across restarts and reconnects, which forget the round but also the count; what an earlier session asked for
leaves its grace before that last one does (`OldIsOlder`). Only a worker left over from before a reconnect takes young rows, those of the
session beside it, and the property names that step. `AskInv` gives the rest: `TypeCorrect`;
`BudgetHolds`, the budget of a session and no chat twice in a round; `BacklogIsKept`, while requests get through an empty row is queued
or was requested, the safety behind `BacklogConverges`; `RequestsHold`, an unseen request for a name pass is kept by the permit or the
burst. `Missing` is stated by rank (the i-th newest contact), since the provers cannot reason about the library's sorting.

`DeskProofs`, one part per module, each for any values of its constants that satisfy the assumption named beside them:

- AppLock (`LockAssumption`: timeouts within the range `set_app_lock_timeout` accepts). `SettingsAreKept`: `KeptInv` follows the
  document through the temporary file; a rename finds it whole, whatever crashed before. `LockFollowsHolds`: `[]LockFollows`,
  assuming `~LateAnswers`. `FollowInv` says of each stage of a page (asked, answered, settled) what mirror and cover are owed
  (`MirrorFits`, `CoverFits`), and that a second only passes on a settled page, so that news of an unlock is never older than
  the absence after it (`AwayFits`).
- Migrations (`SchemaAssumption`: old rows have the types of their columns, finitely many). `OpensWholeHolds` and `ReopensHold`.
  `SchemaInv` places the database: what the statements before the next one make is there, and no column of later ones unless an
  `ALTER TABLE` was torn (`Placed`, from `SchemaFits` and `ColumnsOnce` about the ten batches); and what the backfill and the heal have
  made right stays so (`Healed`). That the newest message exists needs the greatest element of a finite set of times
  (`FiniteSetsHaveGreatest`, by well-founded induction on the least size of a counterexample).
- CallLog (`CallAssumption`). `ImportsHold`: every row is told by an entry that was imported (`RowsTell`), keys are single, and so there are
  no more rows than entries, by an injection.
- Polls (`PollAssumption`). `VotesHold`: of a poll stored here, or about to be, the library has the secret under the chat and
  creator it was sent with (`SecretKept`), and a vote under way carries them (`BallotFits`).
- ChatFlags. `FlagsHold`, whatever the order in which patches are handled: of an item whose last change did not cross another one, one change at most is
  on its way, a patch or a command between acceptance and write, and it tells what the account has (`OneChange`); the column is right when
  none is to come (`LocalTells`).
- Statuses (`StatusAssumption`: the messages with one id have one time). `ListingsHold`, for one listing at a time: every update that arrived
  has its row or is older than what the listing under way, or the next one, shows (`Gone`), and rows of viewed ones are viewed
  or gone. With two at a time the later one prunes what the earlier one still has to show (DeskStatuses below).
- CallAudio (`AudioAssumption`: sizes are counts, a chunk is no longer than a frame, the prefill no longer than the ring). `AudioHolds`: what the
  microphone gave is spread over raw blocks, the resampler's rest, the frame being filled, the frames of the channel and what the engine got;
  each of these is in order and before those behind it, and together they are what was not dropped (`CaptureFits`). Towards the speaker
  the same holds of what was played, the ring, the rest and the channel, and the ring is the end of what was pushed (`PlaybackFits`, `EndOf`).
- UiDelivery. `FilesHold`: `DeliverySpec => []FilesOnce`, for any batches, across reloads. A batch waits in the buffer, in the answer of a ready call
  or in an event, in one of them and once (`BatchesFit`). `ArrivalsHold`: nothing is dropped on that way; when the page has nothing left to take,
  each batch was handled once and each link followed, replaced or emitted to nobody (`WayInv`).

TLC checks these invariants on the runs' configurations as well (a module that extends the MC module and the proofs, the invariant in
place of the properties).

Only model-checked: liveness, as fairness and `ENABLED` are out of the proof system's reach: `SendsSettle`, `EndedIsTold`, `AudioEnds`, `SessionGoesOn`,
`TasksGoOn`, `BacklogConverges`, and the half of `DeliveredOnce` that says what arrives in the end; the theorems say what each of
them needs besides fairness (`PendingHolds`, `EndsAreTold`, `AudioIsHeld`, `MutexIsBusy` and `CommandsNearTheirEnd`, `RequestsHold`, `BacklogIsKept`,
`ArrivalsHold`). Every safety property of the runs is stated by a theorem.
What a recursive definition or a fold computes needs induction over data, and no installed prover instantiates the library's induction
theorems; so the properties say what they mean of every position of a sequence or every pair of them. (Where the induction is over a size,
the least counterexample of `WellFoundedInduction` does instead, as in `FiniteSetsHaveGreatest`.)

## 7. Where code and comments disagree

The run `history_converges` is a disagreement between the code and a comment; `PROJECT.json` quotes both. The modules state more of
what comments say, or a reader would expect, and the code does not do. TLC finds each property violated under the
configuration named, with the property in place of its own (`tlc -config X.cfg MC...`; `INVARIANT` or `PROPERTY` as it is one or the other):

| Name | Configuration | Property | What happens |
|---|---|---|---|
| IdentityCycle | `IdentityCycle.cfg` | OneRowPerIdentity | after a LID won a merge and its chat was deleted, the backfill (`store.rs:941`) registers the alias the other way round as well, and creates a row under each |
| IdentityLink | `IdentitySerial.cfg` | LinkMakesOne | `link_jids` (`store.rs:1152`) moves messages before the canonical row exists; the foreign key rolls the link back |
| IdentityPlaceholder | `IdentityPlaceholder.cfg` | PlaceholderIsStored | an undecryptable message in a new chat is inserted before its chat row (`client.rs:1767`) and refused |
| IdentityTwins | `IdentityTwins.cfg` | TwinsKeepTheGroupForm | a named group-LID row wins over its unnamed `@g.us` twin (`store.rs:1711` against `:1237`) |
| IdentityNumbers | `IdentitySerial.cfg` | NoForeignNumber | a merge of two unnamed rows keeps the other JID's number as a name (`store.rs:1172`) |
| IdentityNumericContact | `IdentitySerial.cfg` | NumbersAreNotContactNames | a contact with a push name only makes a number a contact name (`store.rs:548`) |
| LogReimport | `LogReimport.cfg` | StatusOnlyUpgrades | a history page that repeats a read message takes its status back (`store.rs:312` against `:480`) |
| LogEcho | `LogEcho.cfg` | ReceiptsStick | a receipt before the echo of a mention, forward or quoting reply is stored is lost (`chat_ops.rs:136`) |
| LogReceipt | `LogLive.cfg` | ReceiptsAlwaysStick | a receipt handled beside its message's handler updates no row (`store.rs:484`) and is lost |
| LogReactionRace | `LogReactionRace.cfg` | ReactionsAlwaysSettle | a reaction buffered while the import drains its message stays in the buffer (`client.rs:1445`) |
| LogReactions | `LogLive.cfg` | ReactionsAlwaysSettle | the same beside a live message; and of two reactions handled together the older may be written last; `client.rs:1442`: "so buffer it until the message row arrives" |
| LogPlaceholder | `LogSend.cfg` | PlaceholdersCoverNothing | the message is imported between the look-up and the write of its placeholder (`client.rs:1766`), which then covers its text |
| LogUnread | `LogRetry.cfg` | UnreadIsExact | an undecryptable message and its retry are counted twice (`client.rs:1770`) |
| LogTombstone | `LogReimport.cfg`, `Duties <- RevokeDuties` | TombstonesStay | a page that repeats a revoked message brings its text back (`store.rs:313`) |
| LogForMe | `LogReimport.cfg`, `Drafts = {mine}`, `Tasks = {live, ui}`, `Duties <- ForMeDuties` | DeleteForMeTakesOne | a message stored while delete-for-me finds the chat empty is cleared with it (`client.rs:1699`) |
| LogOlderPage | `LogReimport.cfg`, `Tasks = {side}`, `Duties <- PageDuties` | PreviewIsOfNewest | importing an older page replaces the preview of a newer message (`store.rs:571`) |
| LogRevoked | `LogReimport.cfg`, `Tasks = {live}`, `Duties <- RevokedDuties` | PreviewShowsTheMessage | the chat list keeps the text of a revoked message (`store.rs:1437`) |
| LogMeta | `LogReimport.cfg`, `Drafts = {mine}`, `Tasks = {live, ui}`, `Duties <- MetaDuties` | MetaIsOfPreview | after a reply the row keeps kind and direction of an earlier message (`chat_ops.rs:395`) |
| IdentityRace | `IdentityRace.cfg` | OneRowPerIdentity | a link by the name pass between `canonical_jid` and the insert of a live handler (`store.rs:1080`) leaves a second row; `008_jid_aliases.sql:4`: "Mapping them onto one chat row keeps history and live messages together" |
| IdentitySweep | `IdentitySweep.cfg` | SweepTakesNoMessage | a message stored between the sweep's selection and its delete (`store.rs:1024`) goes with its chat; `client.rs:649`: "contact-sourced rows that still have no messages are swept" |
| LogEdit | `LogEdit.cfg` | EditMovesOnlyText | a receipt during the round trip of an edit (`actions.rs:148`) is undone; `actions.rs:146`: "refreshes the text on conflict; nothing else moved" |
| LogRetry | `LogRetry.cfg` | ReactionsSettle | the placeholder of an undecryptable message (`client.rs:1767`) does not drain the buffer; the older reaction is drained over a newer one at the retry |
| HistoryRetry | `HistoryConverges.cfg`, `Contacts = {1}` | EmptyRowsAreRetried | a request that fails (`client.rs:691`) is not remembered: without another one the row stays empty, as later sessions only ask for contacts without a row |
| HistoryLate | `History.cfg` | SweepSparesAll | a worker that slept through a reconnect wakes and sweeps (`client.rs:709`-717) rows that the next session has just asked for, within their grace |
| SessionLate | `Session.cfg` | ConnectedAlwaysHasBot, StateAlwaysFits, OwnIsAlwaysCurrent | a handler of Connected runs after its bot has stopped (`client.rs:315`) or after the one of the Disconnected that followed it, and one of PairSuccess after a reset (`client.rs:1196`): the state or the JID stay wrong |
| SessionState | `Session.cfg` | StateFits | a shutdown that publishes after the next connect (`client.rs:761`) leaves disconnected over a live link |
| SessionReset | `Session.cfg` | SessionStays | a reset removes the directory (`client.rs:785`) under the bot of a connect that came in between |
| SessionReplay | `Session.cfg` | ReplayComes | the gate is claimed before the delay (`client.rs:586`): the first bot is stopped in it, and no later one replays |
| CallsReach | `CallsReach.cfg` | CallsAreReachable | two commands start a call with one chat (`calls.rs:1087`); the second entry replaces the first, and the first call can no longer be ended |
| CallsVoice | `CallsReach.cfg` | CallsKeepTheirVoice | there, the audio of the first call is stopped by the second (`call_media.rs:228`) |
| CallsRinging | `Calls.cfg` | RingingIsAlwaysOffered | the handler of an offer's end runs before the one of the offer (`client.rs:439`): it rings, and can be answered, until the next reconnect |
| CallsInTurn | `Calls.cfg` | LifeIsAlwaysInTurn | there, the user interface is told that an offer went away before it rang or after it was answered |
| MediaRow | `Media.cfg` | StoredCanBeFetched | `set_raw_proto` fails after the row was stored (`media.rs:799`): the row is shown, and its payload cannot be fetched |
| MediaRace | `MediaRace.cfg` | EntriesAreComplete | two downloads share a part file (`media.rs:812`): one renames what the other has truncated |
| MediaNoHash | `MediaRace.cfg`, `ContentOf <- TwoContents`, `Blocks <- OneLength`, `Declares = {m1, m2}`, `Tasks = {t1}` | EntriesAreComplete | payloads without a hash share a name (`media.rs:457`); of equal length, one is served for the other |
| DeskCalls | `Desk.cfg` | CallsOfOneChat | a record imported after a link (`store.rs:1155`) is stored under the old id |
| DeskPolls | `Desk.cfg` | EveryPollCanBeVotedOn | after a link, the secret is looked up under the wrong chat (`chat_ops.rs:430`) |
| DeskFlags | `Desk.cfg` | FlagsAlwaysConverge | two patches are handled in the opposite order (`client.rs:377`), or a patch before the write of a command the server accepted earlier (`client.rs:896`) |
| DeskStars | `Desk.cfg` | StarsConverge | a star comes before its message and updates nothing (`store.rs:1520`) |
| DeskStatuses | `Desk.cfg`, `Readers = {r1, r2}` | ListingsAreRight | with two listings at a time, the later one's prune (`statuses.rs:337`) removes a row that the earlier one, by the clock it read, still has to list |
| DeskLinks | `Desk.cfg` | NoneEmittedToNobody | a link after `deep_link_ready` and before the listener (`bridge.ts:118`) is emitted to nobody |
| DeskLock | `Desk.cfg` | UnlockSticks | the launch gate's answer arrives after the unlock (`LockScreen.tsx:59`) and locks again; with `LateAnswers = TRUE` the mirror is wrong as well |
| DeskSchema | `Desk.cfg` | AlwaysOpens | a process that ends between `ALTER TABLE` and `PRAGMA user_version` cannot open its store again; `002_media.sql:8`: "the user_version guard makes this batch run exactly once" |

The passing runs leave out exactly the combinations of handlers these are about (`Duties` in the MC modules, `alone`, or the
premise of the property), so that what they show holds of the rest.

## 8. Not modelled

- The UI store (`store/app.ts`): its lists are derived from the core's rows and events. Two hazards of it are known and not
  modelled: status events are applied as they come, without the store's ranking (`app.ts:881`), and a page of older messages
  is merged into a list a reload has replaced (`app.ts:816`).
- Request wrappers without state of their own: groups, communities, channels, business, privacy, profile, contacts; each
  host command forwards to one of the core's. Menu, tray, layout and rendering.
- In the message log: pins inside a chat, reads of the tables (paging, search), protobuf bodies, previews of media kinds and the
  bus events. A crash between two store calls is not modelled there: the store has no recovery step to check; the effect is a
  handler that stops half-way, and a pending row stays pending (`client.rs:836`). A send that fails after the server took it
  keeps Failed, the highest rank (`client.rs:871`); `log_live` reaches it, and no document says what it should be.
- A failed build leaves connecting published (`client.rs:464`): `connect_fails` does, and no property rules it out.
- Of calls: video and groups, resampling, formats and device I/O; of files: the contents. The chooser of the overlay
  shows the last batch only, and a reload after ready does not reset the flag: `UiDelivery` has both, `DeliveredOnce` allows them.
- `MuteUpdate` ignores the end time, revoked statuses stay listed and statuses are not imported from history: single
  handlers without a step left to interleave.
