-------------------------------- MODULE Session --------------------------------
(***************************************************************************)
(* The session of WaClient (client.rs): the bot handle behind its mutex,   *)
(* the commands that connect, stop, log out, restart and reset, the events *)
(* the library reports, and the once-per-session replay of the app state.  *)
(* connect holds the mutex to its end, the others only take the handle.    *)
(* The library is external: links go up and down, the phone pairs and      *)
(* unlinks, and any build may fail. It hands each event to its handler in  *)
(* a task of its own: handlers run late and in any order, and also after   *)
(* their bot has stopped.                                                  *)
(***************************************************************************)
EXTENDS Naturals, Sequences

CONSTANTS
    Tasks, None,
    MaxBots,        \* bound: how many bots are ever built
    MaxReports      \* bound: how many handlers of one event of a bot are outstanding

ASSUME SessionAssumption == None \notin Tasks /\ MaxBots \in Nat /\ MaxReports \in Nat

\* A session on disk is named by the bot that created it.
Bots == 1..MaxBots

VARIABLES
    handle,         \* the bot in the client, or 0
    lock,           \* the connect that holds the mutex, or None
    task,           \* the command of each task and the step it is at
    life,           \* of each bot
    link,           \* what the library knows of a bot's connection
    news,           \* how many handlers of each event of a bot have not run yet
    connection,     \* the published state
    own_jid,        \* the session whose JID is known, or 0
    raced,          \* of what the newest word came while a handler of an older one was outstanding
    disk,           \* the session in the data directory, or 0
    opened,         \* the session a bot opened
    linked,         \* the sessions a phone has linked
    fired,          \* the full-sync gate
    replay          \* the replay task of each bot

vars == <<handle, lock, task, life, link, news, connection, own_jid, raced, disk, opened, linked, fired, replay>>

Commands == {"connect", "shutdown", "logout", "restart_pairing", "reset_session"}
Idle == [op |-> "idle", step |-> "idle", bot |-> 0]
\* Disconnected stands for ConnectFailure too, which is handled alike.
Events == {"PairSuccess", "Connected", "Disconnected", "LoggedOut"}
Topic(e) == IF e = "PairSuccess" THEN "jid" ELSE "connection"

Init ==
    /\ handle = 0 /\ lock = None
    /\ task = [t \in Tasks |-> Idle]
    /\ life = [b \in Bots |-> "unused"]
    /\ link = [b \in Bots |-> "down"]
    /\ news = [b \in Bots |-> [e \in Events |-> 0]]
    /\ connection = "disconnected"
    /\ own_jid = 0 /\ raced = {} /\ disk = 0
    /\ opened = [b \in Bots |-> 0]
    /\ linked = {}
    /\ fired = FALSE
    /\ replay = [b \in Bots |-> "none"]

publishedVars == <<connection, own_jid, raced>>
libraryVars == <<life, link, news, opened, linked>>
replayVars == <<fired, replay>>

At(t, s) == task[t].step = s
Goes(t, s) == task' = [task EXCEPT ![t].step = s]
Ends(t) == task' = [task EXCEPT ![t] = Idle]
Unused == {b \in Bots : life[b] = "unused"}

\* A report or a command says something new of these topics.
Outstanding(topic) == \E b \in Bots, e \in Events : Topic(e) = topic /\ news[b][e] > 0
Says(topics) == raced' = (raced \ topics) \cup {topic \in topics : Outstanding(topic)}

\* mutant: a reset deletes before it stops
command_reset_first(t, op) ==
    /\ At(t, "idle")
    /\ task' = [task EXCEPT ![t] = [op |-> op, bot |-> 0,
                  step |-> IF op = "connect" THEN "connect" ELSE IF op = "reset_session" THEN "remove" ELSE "take"]]
    /\ UNCHANGED <<handle, lock, publishedVars, disk, libraryVars, replayVars>>
command(t, op) ==
    /\ At(t, "idle")
    /\ task' = [task EXCEPT ![t] = [op |-> op, step |-> IF op = "connect" THEN "connect" ELSE "take", bot |-> 0]]
    /\ UNCHANGED <<handle, lock, publishedVars, disk, libraryVars, replayVars>>

-----------------------------------------------------------------------------
(* connect. *)

\* mutant: it polls until the handle is gone
connect_polls(t) ==
    /\ At(t, "connect") /\ lock = None
    /\ \/ handle # 0 /\ UNCHANGED <<task, lock>>
       \/ handle = 0 /\ Goes(t, "open") /\ lock' = t
    /\ UNCHANGED <<handle, publishedVars, disk, libraryVars, replayVars>>
\* mutant: the handle is not looked at
connect_again(t) ==
    /\ At(t, "connect") /\ lock = None
    /\ Goes(t, "open") /\ lock' = t
    /\ UNCHANGED <<handle, publishedVars, disk, libraryVars, replayVars>>
\* The mutex is taken; a handle that is there already is a success.
connect(t) ==
    /\ At(t, "connect") /\ lock = None
    /\ \/ handle # 0 /\ Ends(t) /\ UNCHANGED lock
       \/ handle = 0 /\ Goes(t, "open") /\ lock' = t
    /\ UNCHANGED <<handle, publishedVars, disk, libraryVars, replayVars>>

\* The session store is opened, or created for the next bot.
open_session(t) ==
    /\ At(t, "open")
    /\ \E b \in Unused :
          /\ \A c \in Unused : b <= c
          /\ disk' = IF disk # 0 THEN disk ELSE b
    /\ connection' = "connecting" /\ Says({"connection"})
    /\ Goes(t, "spawn")
    /\ UNCHANGED <<handle, lock, own_jid, libraryVars, replayVars>>

\* The directory, the store or the bot could not be made; the state stays as published.
connect_fails(t) ==
    /\ At(t, "open") \/ At(t, "spawn")
    /\ lock' = None
    /\ Ends(t)
    /\ UNCHANGED <<handle, publishedVars, disk, libraryVars, replayVars>>

\* The background tasks start, the replay if no bot of this process has claimed it, then
\* the bot, and the mutex is released.
spawn(t) ==
    /\ At(t, "spawn")
    /\ \E b \in Unused :
          /\ \A c \in Unused : b <= c
          /\ handle' = b
          /\ life' = [life EXCEPT ![b] = "runs"]
          /\ opened' = [opened EXCEPT ![b] = disk]
          /\ replay' = [replay EXCEPT ![b] = IF fired THEN "none" ELSE "waiting"]
          /\ fired' = TRUE
    /\ lock' = None
    /\ Ends(t)
    /\ UNCHANGED <<publishedVars, disk, link, news, linked>>

-----------------------------------------------------------------------------
(* shutdown and what builds on it. *)

\* The handle is taken out and the mutex released before the bot has stopped.
take(t) ==
    /\ At(t, "take") /\ lock = None
    /\ handle' = 0
    /\ task' = [task EXCEPT ![t].bot = handle,
                            ![t].step = IF handle = 0 THEN "publish"
                                        ELSE IF task[t].op = "logout" THEN "logout" ELSE "stop"]
    /\ life' = IF handle = 0 THEN life ELSE [life EXCEPT ![handle] = "stopping"]
    /\ UNCHANGED <<lock, publishedVars, disk, link, news, opened, linked, replayVars>>

\* The library unlinks the device.
client_logout(t) ==
    LET b == task[t].bot IN
    /\ At(t, "logout")
    /\ linked' = linked \ {opened[b]}
    /\ link' = [link EXCEPT ![b] = "out"]
    /\ Goes(t, "stop")
    /\ UNCHANGED <<handle, lock, publishedVars, disk, life, news, opened, replayVars>>

\* The library has stopped the bot; the handle is used up. Handlers of its events may be outstanding.
stopped(t) ==
    /\ At(t, "stop")
    /\ life' = [life EXCEPT ![task[t].bot] = "gone"]
    /\ link' = [link EXCEPT ![task[t].bot] = "down"]
    /\ task' = [task EXCEPT ![t].step = "publish", ![t].bot = 0]
    /\ UNCHANGED <<handle, lock, publishedVars, disk, news, opened, linked, replayVars>>

\* mutant: the state is left as it was
publish_nothing(t) ==
    LET op == task[t].op IN
    /\ At(t, "publish")
    /\ own_jid' = IF op = "logout" THEN 0 ELSE own_jid
    /\ Says(IF op = "logout" THEN {"jid"} ELSE {})
    /\ IF op = "restart_pairing" THEN Goes(t, "connect")
       ELSE IF op = "reset_session" THEN Goes(t, "remove") ELSE Ends(t)
    /\ UNCHANGED <<handle, lock, connection, disk, libraryVars, replayVars>>
publish(t) ==
    LET op == task[t].op IN
    /\ At(t, "publish")
    /\ connection' = "disconnected"
    /\ own_jid' = IF op = "logout" THEN 0 ELSE own_jid
    /\ Says(IF op = "logout" THEN {"connection", "jid"} ELSE {"connection"})
    /\ IF op = "restart_pairing" THEN Goes(t, "connect")
       ELSE IF op = "reset_session" THEN Goes(t, "remove") ELSE Ends(t)
    /\ UNCHANGED <<handle, lock, disk, libraryVars, replayVars>>

\* mutant: the account's JID is kept
remove_but_jid(t) ==
    /\ At(t, "remove")
    /\ \/ disk' = 0 /\ Goes(t, "connect")
       \/ disk # 0 /\ Ends(t) /\ UNCHANGED disk
    /\ UNCHANGED <<handle, lock, publishedVars, libraryVars, replayVars>>
\* The session directory is deleted, whoever uses it, or reset_session fails.
remove_session(t) ==
    /\ At(t, "remove")
    /\ \/ disk' = 0 /\ own_jid' = 0 /\ Says({"jid"}) /\ Goes(t, "connect")
       \/ disk # 0 /\ Ends(t) /\ UNCHANGED <<disk, own_jid, raced>>
    /\ UNCHANGED <<handle, lock, connection, libraryVars, replayVars>>

-----------------------------------------------------------------------------
(* The library reports; the handler of each report runs in its own task, whenever it is polled. *)

Alive(b) == life[b] \in {"runs", "stopping"}
Reports(b, e) ==
    /\ news[b][e] < MaxReports
    /\ news' = [news EXCEPT ![b][e] = @ + 1]
    /\ Says({Topic(e)})
KeepsClient == UNCHANGED <<handle, lock, task, connection, own_jid, disk, life, opened, replayVars>>

phone_pairs(b) ==
    /\ Alive(b) /\ link[b] = "down" /\ opened[b] \notin linked
    /\ linked' = linked \cup {opened[b]}
    /\ Reports(b, "PairSuccess")
    /\ UNCHANGED link /\ KeepsClient

link_up(b) ==
    /\ Alive(b) /\ link[b] = "down" /\ opened[b] \in linked
    /\ link' = [link EXCEPT ![b] = "up"]
    /\ Reports(b, "Connected")
    /\ UNCHANGED linked /\ KeepsClient

\* A connection or an attempt fails; the library tries again.
link_down(b) ==
    /\ Alive(b) /\ link[b] \in {"up", "down"}
    /\ link' = [link EXCEPT ![b] = "down"]
    /\ Reports(b, "Disconnected")
    /\ UNCHANGED linked /\ KeepsClient

phone_unlinks(b) ==
    /\ Alive(b) /\ link[b] = "up"
    /\ link' = [link EXCEPT ![b] = "out"]
    /\ linked' = linked \ {opened[b]}
    /\ Reports(b, "LoggedOut")
    /\ KeepsClient

Handled(b, e) == news[b][e] > 0 /\ news' = [news EXCEPT ![b][e] = @ - 1]
KeepsBots == UNCHANGED <<handle, lock, task, raced, disk, life, link, opened, linked, replayVars>>

on_connected(b) ==
    /\ Handled(b, "Connected")
    /\ connection' = "connected"
    /\ UNCHANGED own_jid /\ KeepsBots

on_logged_out(b) ==
    /\ Handled(b, "LoggedOut")
    /\ connection' = "disconnected"
    /\ UNCHANGED own_jid /\ KeepsBots

\* mutant: a lost connection is not published
ignore_disconnected(b) ==
    /\ \/ Handled(b, "PairSuccess") /\ own_jid' = opened[b] /\ UNCHANGED connection
       \/ Handled(b, "Disconnected") /\ UNCHANGED <<connection, own_jid>>
    /\ KeepsBots
\* The other lifecycle events; the errors among them change nothing here.
handle_lifecycle_event(b) ==
    /\ \/ Handled(b, "PairSuccess") /\ own_jid' = opened[b] /\ UNCHANGED connection
       \/ Handled(b, "Disconnected") /\ connection' = "disconnected" /\ UNCHANGED own_jid
    /\ KeepsBots

-----------------------------------------------------------------------------
(* The replay of the chat flags. *)

\* mutant: it waits for a link
full_sync_connected(b) ==
    /\ replay[b] = "waiting" /\ link[b] = "up"
    /\ replay' = [replay EXCEPT ![b] = "done"]
    /\ UNCHANGED <<handle, lock, task, publishedVars, disk, libraryVars, fired>>
\* After the delay the client must still be there; the gate stays claimed.
full_sync(b) ==
    /\ replay[b] = "waiting"
    /\ replay' = [replay EXCEPT ![b] = IF Alive(b) THEN "done" ELSE "none"]
    /\ UNCHANGED <<handle, lock, task, publishedVars, disk, libraryVars, fired>>

-----------------------------------------------------------------------------
TaskStep(t) ==
    \/ connect(t) \/ open_session(t) \/ connect_fails(t) \/ spawn(t)
    \/ take(t) \/ client_logout(t) \/ stopped(t) \/ publish(t) \/ remove_session(t)

BotStep(b) ==
    \/ phone_pairs(b) \/ link_up(b) \/ link_down(b) \/ phone_unlinks(b)
    \/ on_connected(b) \/ on_logged_out(b) \/ handle_lifecycle_event(b)

Next ==
    \/ \E t \in Tasks : TaskStep(t) \/ \E op \in Commands : command(t, op)
    \/ \E b \in Bots : BotStep(b) \/ full_sync(b)

Spec == Init /\ [][Next]_vars

\* The runtime polls commands and tasks, and its mutex serves them in the order they came.
Fairness ==
    /\ \A t \in Tasks : SF_vars(TaskStep(t))
    /\ \A b \in Bots : WF_vars(full_sync(b))

FairSpec == Spec /\ Fairness

-----------------------------------------------------------------------------
Steps == {"idle", "connect", "open", "spawn", "take", "logout", "stop", "publish", "remove"}

TypeOK ==
    /\ handle \in 0..MaxBots /\ lock \in Tasks \cup {None}
    /\ task \in [Tasks -> [op : Commands \cup {"idle"}, step : Steps, bot : 0..MaxBots]]
    /\ life \in [Bots -> {"unused", "runs", "stopping", "gone"}]
    /\ link \in [Bots -> {"down", "up", "out"}]
    /\ news \in [Bots -> [Events -> 0..MaxReports]]
    /\ connection \in {"disconnected", "connecting", "connected"}
    /\ own_jid \in 0..MaxBots /\ raced \subseteq {"connection", "jid"} /\ disk \in 0..MaxBots
    /\ opened \in [Bots -> 0..MaxBots]
    /\ linked \subseteq 0..MaxBots
    /\ fired \in BOOLEAN
    /\ replay \in [Bots -> {"none", "waiting", "done"}]

\* No bot runs that a later shutdown or logout would not find.
RunningIsHeld == \A b \in Bots : life[b] = "runs" => handle = b

\* Connected is not published without a bot, except until the command that stopped it ends, and
\* unless the newest word of the connection came while a handler of an older one was outstanding.
ConnectedHasBot ==
    connection = "connected" =>
        (\E b \in Bots : Alive(b)) \/ (\E t \in Tasks : ~At(t, "idle")) \/ "connection" \in raced

\* The client knows the bot that runs, and what it publishes as connected is a bot.
BotIsKnown == RunningIsHeld /\ ConnectedHasBot

\* No command is under way, every handler has run, and the newest word came last.
Quiet(topic) == (\A t \in Tasks : At(t, "idle")) /\ ~Outstanding(topic) /\ topic \notin raced

\* When nothing is under way the published state says whether the bot has a link.
StateFits == Quiet("connection") => (connection = "connected" <=> handle # 0 /\ link[handle] = "up")

\* The session a bot has open is the one on disk: a reset does not delete it under a bot.
SessionStays == \A b \in Bots : Alive(b) => disk = opened[b]

\* The account's own JID belongs to the session on disk.
OwnIsCurrent == Quiet("jid") /\ own_jid # 0 => own_jid = disk

\* Every command ends: none waits for ever for the mutex.
CommandsEnd == \A t \in Tasks : ~At(t, "idle") ~> At(t, "idle")

\* A bot that has claimed the replay carries it out unless it is stopped.
ClaimedReplayRuns == \A b \in Bots : replay[b] = "waiting" ~> (replay[b] = "done" \/ life[b] # "runs")

\* Commands do not wait for each other for ever, nor does the replay for its bot.
SessionGoesOn == CommandsEnd /\ ClaimedReplayRuns

\* Once per session the chat flags are replayed: not if the first bot is stopped early.
ReplayComes == (\E b \in Bots : <>[](life[b] = "runs")) => <>(\E b \in Bots : replay[b] = "done")

\* More than the code keeps: a handler of Connected may run after the bot has stopped, ...
ConnectedAlwaysHasBot ==
    connection = "connected" => (\E b \in Bots : Alive(b)) \/ (\E t \in Tasks : ~At(t, "idle"))

\* ... after the handler of the Disconnected that followed it, ...
StateAlwaysFits ==
    (\A t \in Tasks : At(t, "idle")) /\ ~Outstanding("connection")
        => (connection = "connected" <=> handle # 0 /\ link[handle] = "up")

\* ... and the one of PairSuccess after a reset.
OwnIsAlwaysCurrent == (\A t \in Tasks : At(t, "idle")) /\ own_jid # 0 => own_jid = disk
=============================================================================
