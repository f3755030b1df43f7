----------------------------- MODULE SessionProofs -----------------------------
(***************************************************************************)
(* What holds of the session for any number of tasks and bots: every       *)
(* variable keeps its shape, no bot is forgotten while it runs, connected  *)
(* is not published without one, and commands near their end.              *)
(***************************************************************************)
EXTENDS MCSession, TLAPS

TasksTyped == task \in [Tasks -> [op : Commands \cup {"idle"}, step : Steps, bot : 0..MaxBots]]

\* The connect that builds a bot holds the mutex, and there is no bot in the client.
BuilderHoldsTheMutex == \A t \in Tasks : At(t, "open") \/ At(t, "spawn") => lock = t /\ handle = 0

\* A handler of a link report is outstanding of a bot that lives, or of one whose command is about to say that it
\* does not, or it has raced with a newer word.
NewsIsOfTheLiving ==
    \A b \in Bots, e \in Events \ {"PairSuccess"} :
       news[b][e] > 0 => Alive(b) \/ "connection" \in raced \/ \E t \in Tasks : At(t, "publish")

\* Connected is taken back by the command that stopped the bot, at its next step, unless it has raced.
ConnectedIsTakenBack ==
    connection = "connected" =>
        (\E b \in Bots : Alive(b)) \/ "connection" \in raced \/ \E t \in Tasks : At(t, "publish")

SessionInv == TypeOK /\ BuilderHoldsTheMutex /\ RunningIsHeld /\ NewsIsOfTheLiving /\ ConnectedIsTakenBack

-----------------------------------------------------------------------------
(* Reports, their handlers, and the races *)

\* The link as a report leaves it.
LinkAfter(b, e) ==
    IF e = "PairSuccess" THEN link
    ELSE [link EXCEPT ![b] = IF e = "Connected" THEN "up" ELSE IF e = "Disconnected" THEN "down" ELSE "out"]

ReportStep(b, e) ==
    /\ Alive(b) /\ Reports(b, e) /\ link' = LinkAfter(b, e) /\ linked' \subseteq linked \cup {opened[b]}
    /\ KeepsClient

HandlerStep(b, e) ==
    /\ Handled(b, e)
    /\ connection' = IF e = "PairSuccess" THEN connection ELSE IF e = "Connected" THEN "connected" ELSE "disconnected"
    /\ own_jid' = IF e = "PairSuccess" THEN opened[b] ELSE own_jid
    /\ KeepsBots

\* A step of a bot is a report or a handler.
LEMMA BotStepIs ==
    ASSUME TypeOK, NEW b \in Bots, BotStep(b)
    PROVE  \E e \in Events : ReportStep(b, e) \/ HandlerStep(b, e)
<1>1. CASE phone_pairs(b)
  <2>1. ReportStep(b, "PairSuccess")
    BY <1>1 DEF phone_pairs, ReportStep, LinkAfter
  <2> QED
    BY <2>1 DEF Events
<1>2. CASE link_up(b)
  <2>1. ReportStep(b, "Connected")
    BY <1>2 DEF link_up, ReportStep, LinkAfter
  <2> QED
    BY <2>1 DEF Events
<1>3. CASE link_down(b)
  <2>1. ReportStep(b, "Disconnected")
    BY <1>3 DEF link_down, ReportStep, LinkAfter
  <2> QED
    BY <2>1 DEF Events
<1>4. CASE phone_unlinks(b)
  <2>1. ReportStep(b, "LoggedOut")
    BY <1>4 DEF phone_unlinks, ReportStep, LinkAfter
  <2> QED
    BY <2>1 DEF Events
<1>5. CASE on_connected(b)
  <2>1. HandlerStep(b, "Connected")
    BY <1>5 DEF on_connected, HandlerStep
  <2> QED
    BY <2>1 DEF Events
<1>6. CASE on_logged_out(b)
  <2>1. HandlerStep(b, "LoggedOut")
    BY <1>6 DEF on_logged_out, HandlerStep
  <2> QED
    BY <2>1 DEF Events
<1>7. CASE handle_lifecycle_event(b)
  <2>1. HandlerStep(b, "PairSuccess") \/ HandlerStep(b, "Disconnected")
    BY <1>7 DEF handle_lifecycle_event, HandlerStep
  <2> QED
    BY <2>1 DEF Events
<1> QED
  BY <1>1, <1>2, <1>3, <1>4, <1>5, <1>6, <1>7 DEF BotStep

\* One more handler outstanding, or one less.
LEMMA NewsMoves ==
    ASSUME TypeOK, NEW b \in Bots, NEW e \in Events, Reports(b, e) \/ Handled(b, e)
    PROVE  /\ news' \in [Bots -> [Events -> 0..MaxReports]]
           /\ \A c \in Bots, f \in Events : c # b \/ f # e => news'[c][f] = news[c][f]
           /\ Reports(b, e) => news'[b][e] = news[b][e] + 1
           /\ Handled(b, e) => news[b][e] > 0 /\ news'[b][e] = news[b][e] - 1
<1>1. news \in [Bots -> [Events -> 0..MaxReports]] /\ news[b] \in [Events -> 0..MaxReports] /\ MaxReports \in Nat
  BY SessionAssumption DEF TypeOK
<1>2. news[b][e] \in 0..MaxReports
  BY <1>1
<1>3. ASSUME NEW n \in 0..MaxReports, news' = [news EXCEPT ![b] = [news[b] EXCEPT ![e] = n]]
      PROVE  /\ news' \in [Bots -> [Events -> 0..MaxReports]]
             /\ news'[b][e] = n
             /\ \A c \in Bots, f \in Events : c # b \/ f # e => news'[c][f] = news[c][f]
  <2>1. [news[b] EXCEPT ![e] = n] \in [Events -> 0..MaxReports]
    BY <1>1
  <2> QED
    BY <1>1, <1>3, <2>1
<1>4. CASE Reports(b, e)
  <2>1. news[b][e] + 1 \in 0..MaxReports /\ news' = [news EXCEPT ![b] = [news[b] EXCEPT ![e] = news[b][e] + 1]]
    BY <1>1, <1>2, <1>4 DEF Reports
  <2>2. ~Handled(b, e)
    <3>1. news'[b][e] = news[b][e] + 1
      BY <1>3, <2>1
    <3>2. Handled(b, e) => news'[b][e] = news[b][e] - 1
      <4>1. ASSUME Handled(b, e) PROVE news' = [news EXCEPT ![b] = [news[b] EXCEPT ![e] = news[b][e] - 1]]
        BY <4>1, <1>1 DEF Handled
      <4> QED
        BY <4>1, <1>1
    <3> QED
      BY <1>2, <3>1, <3>2
  <2> QED
    BY <1>3, <1>4, <2>1, <2>2
<1>5. CASE Handled(b, e) /\ ~Reports(b, e)
  <2>1. news[b][e] > 0 /\ news[b][e] - 1 \in 0..MaxReports
        /\ news' = [news EXCEPT ![b] = [news[b] EXCEPT ![e] = news[b][e] - 1]]
    BY <1>1, <1>2, <1>5 DEF Handled
  <2> QED
    BY <1>3, <1>5, <2>1
<1> QED
  BY <1>4, <1>5

\* Of what is said the race is decided anew, of the rest it stays.
LEMMA SaysRaces ==
    ASSUME NEW topics \in SUBSET {"connection", "jid"}, Says(topics), TypeOK
    PROVE  /\ raced' \subseteq {"connection", "jid"}
           /\ \A w \in topics : w \in raced' <=> Outstanding(w)
           /\ \A w \in {"connection", "jid"} \ topics : w \in raced' <=> w \in raced
BY DEF Says, TypeOK

-----------------------------------------------------------------------------
(* Types *)

\* A step of a task from one point of its command to another keeps the shape of the tasks.
LEMMA GoesTyped ==
    ASSUME TypeOK, NEW t \in Tasks, NEW s \in Steps, Goes(t, s)
    PROVE  TasksTyped'
BY DEF TypeOK, TasksTyped, Goes

\* So does the end of a command.
LEMMA EndsTyped ==
    ASSUME TypeOK, NEW t \in Tasks, Ends(t)
    PROVE  TasksTyped'
BY SessionAssumption DEF TypeOK, TasksTyped, Ends, Idle, Steps

\* A command begins at the mutex or at the handle.
LEMMA CommandBegins ==
    ASSUME NEW t \in Tasks, NEW op \in Commands, command(t, op)
    PROVE  \E s \in {"connect", "take"} : task' = [task EXCEPT ![t] = [op |-> op, step |-> s, bot |-> 0]]
<1>1. CASE op = "connect"
  BY <1>1 DEF command
<1>2. CASE op # "connect"
  BY <1>2 DEF command
<1> QED
  BY <1>1, <1>2

\* The steps of connect keep the shape of every variable ...
LEMMA ConnectTyped ==
    ASSUME TypeOK, NEW t \in Tasks, connect(t) \/ open_session(t) \/ connect_fails(t) \/ spawn(t)
    PROVE  TypeOK'
<1>1. TasksTyped'
  BY GoesTyped, EndsTyped DEF connect, open_session, connect_fails, spawn, Steps
<1>2. handle' \in 0..MaxBots /\ lock' \in Tasks \cup {None} /\ disk' \in 0..MaxBots
  BY DEF TypeOK, connect, open_session, connect_fails, spawn, Bots, Unused
<1>3. /\ connection' \in {"disconnected", "connecting", "connected"} /\ own_jid' \in 0..MaxBots /\ linked' \subseteq 0..MaxBots
      /\ raced' \subseteq {"connection", "jid"}
  <2>1. CASE open_session(t)
    BY <2>1, SaysRaces DEF TypeOK, open_session, libraryVars
  <2>2. CASE connect(t) \/ connect_fails(t) \/ spawn(t)
    BY <2>2 DEF TypeOK, connect, connect_fails, spawn, libraryVars, publishedVars
  <2> QED
    BY <2>1, <2>2
<1>4. life' \in [Bots -> {"unused", "runs", "stopping", "gone"}] /\ opened' \in [Bots -> 0..MaxBots]
  <2>1. CASE spawn(t)
    BY <2>1 DEF TypeOK, spawn, Unused
  <2>2. CASE connect(t) \/ open_session(t) \/ connect_fails(t)
    <3>1. UNCHANGED <<life, opened>>
      BY <2>2 DEF connect, open_session, connect_fails, libraryVars
    <3> QED
      BY <3>1 DEF TypeOK
  <2> QED
    BY <2>1, <2>2
<1>5. link' = link /\ news' = news
  BY DEF connect, open_session, connect_fails, spawn, libraryVars
<1>6. fired' \in BOOLEAN /\ replay' \in [Bots -> {"none", "waiting", "done"}]
  BY DEF TypeOK, connect, open_session, connect_fails, spawn, replayVars
<1> QED
  BY <1>1, <1>2, <1>3, <1>4, <1>5, <1>6 DEF TypeOK, TasksTyped

\* ... and so do those of the commands that stop a bot.
LEMMA StopTyped ==
    ASSUME TypeOK, NEW t \in Tasks,
           take(t) \/ client_logout(t) \/ stopped(t) \/ publish(t) \/ remove_session(t)
    PROVE  TypeOK'
<1>1. TasksTyped'
  <2>1. CASE take(t)
    <3>1. PICK s \in Steps : task' = [task EXCEPT ![t].bot = handle, ![t].step = s]
      BY <2>1 DEF take, Steps
    <3>2. task[t] \in [op : Commands \cup {"idle"}, step : Steps, bot : 0..MaxBots] /\ handle \in 0..MaxBots
      BY DEF TypeOK
    <3>3. [task[t] EXCEPT !.bot = handle, !.step = s] \in [op : Commands \cup {"idle"}, step : Steps, bot : 0..MaxBots]
      BY <3>2
    <3>4. task' = [task EXCEPT ![t] = [task[t] EXCEPT !.bot = handle, !.step = s]]
      BY <3>1 DEF TypeOK
    <3> QED
      BY <3>3, <3>4 DEF TypeOK, TasksTyped
  <2>2. CASE client_logout(t) \/ publish(t) \/ remove_session(t)
    BY <2>2, GoesTyped, EndsTyped DEF client_logout, publish, remove_session, Steps
  <2>3. CASE stopped(t)
    <3>1. task' = [task EXCEPT ![t] = [task[t] EXCEPT !.step = "publish", !.bot = 0]]
      BY <2>3 DEF stopped, TypeOK
    <3>2. task[t] \in [op : Commands \cup {"idle"}, step : Steps, bot : 0..MaxBots]
      BY DEF TypeOK
    <3>3. "publish" \in Steps /\ 0 \in 0..MaxBots
      BY SessionAssumption DEF Steps
    <3>4. [task[t] EXCEPT !.step = "publish", !.bot = 0] \in [op : Commands \cup {"idle"}, step : Steps, bot : 0..MaxBots]
      BY <3>2, <3>3
    <3> QED
      BY <3>1, <3>4 DEF TypeOK, TasksTyped
  <2> QED
    BY <2>1, <2>2, <2>3
<1>2. handle' \in 0..MaxBots /\ lock' = lock /\ disk' \in 0..MaxBots /\ own_jid' \in 0..MaxBots
  BY SessionAssumption DEF TypeOK, take, client_logout, stopped, publish, remove_session, publishedVars
<1>3. /\ connection' \in {"disconnected", "connecting", "connected"} /\ linked' \subseteq 0..MaxBots
      /\ raced' \subseteq {"connection", "jid"}
  <2>1. CASE take(t) \/ client_logout(t) \/ stopped(t)
    BY <2>1 DEF TypeOK, take, client_logout, stopped, publishedVars
  <2>2. CASE publish(t)
    <3>1. raced' \subseteq {"connection", "jid"}
      BY <2>2, SaysRaces DEF publish
    <3> QED
      BY <2>2, <3>1 DEF TypeOK, publish, libraryVars
  <2>3. CASE remove_session(t)
    BY <2>3, SaysRaces DEF TypeOK, remove_session, libraryVars
  <2> QED
    BY <2>1, <2>2, <2>3
<1>4. life' \in [Bots -> {"unused", "runs", "stopping", "gone"}] /\ opened' = opened
  BY DEF TypeOK, take, client_logout, stopped, publish, remove_session, libraryVars
<1>5. link' \in [Bots -> {"down", "up", "out"}]
  BY DEF TypeOK, take, client_logout, stopped, publish, remove_session, libraryVars
<1>6. news' = news
  BY DEF take, client_logout, stopped, publish, remove_session, libraryVars
<1>7. fired' = fired /\ replay' = replay
  BY DEF take, client_logout, stopped, publish, remove_session, replayVars
<1> QED
  BY <1>1, <1>2, <1>3, <1>4, <1>5, <1>6, <1>7 DEF TypeOK, TasksTyped

\* The library's reports and their handlers keep the shape of every variable.
LEMMA BotStepTyped ==
    ASSUME TypeOK, NEW b \in Bots, BotStep(b) \/ full_sync(b)
    PROVE  TypeOK'
<1>1. ASSUME NEW e \in Events, ReportStep(b, e) PROVE TypeOK'
  <2>1. news' \in [Bots -> [Events -> 0..MaxReports]]
    BY <1>1, NewsMoves DEF ReportStep
  <2>2. raced' \subseteq {"connection", "jid"}
    BY <1>1, SaysRaces DEF ReportStep, Reports, Topic
  <2>3. link' \in [Bots -> {"down", "up", "out"}]
    BY <1>1 DEF ReportStep, LinkAfter, TypeOK
  <2>4. linked' \subseteq 0..MaxBots
    BY <1>1 DEF ReportStep, TypeOK
  <2> QED
    BY <1>1, <2>1, <2>2, <2>3, <2>4 DEF TypeOK, ReportStep, KeepsClient, replayVars
<1>2. ASSUME NEW e \in Events, HandlerStep(b, e) PROVE TypeOK'
  <2>1. news' \in [Bots -> [Events -> 0..MaxReports]]
    BY <1>2, NewsMoves DEF HandlerStep
  <2>2. connection' \in {"disconnected", "connecting", "connected"} /\ own_jid' \in 0..MaxBots
    BY <1>2 DEF TypeOK, HandlerStep
  <2> QED
    BY <1>2, <2>1, <2>2 DEF TypeOK, HandlerStep, KeepsBots, replayVars
<1>3. CASE full_sync(b)
  BY <1>3 DEF TypeOK, full_sync, libraryVars, publishedVars
<1> QED
  BY <1>1, <1>2, <1>3, BotStepIs

\* Every step keeps the shape of every variable.
LEMMA NextTyped ==
    ASSUME TypeOK, Next
    PROVE  TypeOK'
<1>1. ASSUME NEW t \in Tasks, TaskStep(t) PROVE TypeOK'
  BY <1>1, ConnectTyped, StopTyped DEF TaskStep
<1>2. ASSUME NEW t \in Tasks, NEW op \in Commands, command(t, op) PROVE TypeOK'
  <2>1. TasksTyped'
    BY <1>2, CommandBegins, SessionAssumption DEF TypeOK, TasksTyped, Steps
  <2> QED
    BY <1>2, <2>1 DEF TypeOK, TasksTyped, command, libraryVars, publishedVars, replayVars
<1>3. ASSUME NEW b \in Bots, BotStep(b) \/ full_sync(b) PROVE TypeOK'
  BY <1>3, BotStepTyped
<1> QED
  BY <1>1, <1>2, <1>3 DEF Next

-----------------------------------------------------------------------------
(* The parts of the invariant *)

\* Where a command steps to, for the steps that Goes and Ends describe.
LEMMA TaskMoves ==
    ASSUME TypeOK, NEW t \in Tasks, NEW s \in Steps
    PROVE  /\ Goes(t, s) => At(t, s)' /\ \A u \in Tasks \ {t} : task'[u] = task[u]
           /\ Ends(t) => At(t, "idle")' /\ \A u \in Tasks \ {t} : task'[u] = task[u]
BY DEF TypeOK, Goes, Ends, At, Idle

\* The bot has stopped: its command goes on without it.
LEMMA StoppedMoves ==
    ASSUME TypeOK, NEW t \in Tasks, stopped(t)
    PROVE  At(t, "publish")' /\ \A u \in Tasks \ {t} : task'[u] = task[u]
BY DEF TypeOK, stopped, At

\* The mutex keeps two connects apart, and shutdown from taking a handle in between.
LEMMA MutexKept ==
    ASSUME TypeOK, BuilderHoldsTheMutex, Next
    PROVE  BuilderHoldsTheMutex'
<1>1. ASSUME NEW t \in Tasks, TaskStep(t) PROVE BuilderHoldsTheMutex'
  <2>1. CASE connect(t)
    BY <2>1, TaskMoves, SessionAssumption DEF connect, BuilderHoldsTheMutex, At, Steps
  <2>2. CASE open_session(t)
    BY <2>2, TaskMoves DEF open_session, BuilderHoldsTheMutex, At, Steps
  <2>3. CASE connect_fails(t) \/ spawn(t)
    BY <2>3, TaskMoves DEF connect_fails, spawn, BuilderHoldsTheMutex, At, Steps
  <2>4. CASE take(t)
    <3>1. \A u \in Tasks : ~At(u, "open") /\ ~At(u, "spawn")
      BY <2>4, SessionAssumption DEF take, BuilderHoldsTheMutex
    <3>2. \A u \in Tasks \ {t} : task'[u] = task[u]
      BY <2>4 DEF take, TypeOK
    <3>3. ~At(t, "open")' /\ ~At(t, "spawn")'
      BY <2>4 DEF take, TypeOK, At
    <3> QED
      BY <3>1, <3>2, <3>3 DEF BuilderHoldsTheMutex, At
  <2>5. CASE client_logout(t) \/ stopped(t)
    BY <2>5, TaskMoves, StoppedMoves DEF client_logout, stopped, BuilderHoldsTheMutex, At, Steps
  <2>6. CASE publish(t)
    <3>1. Goes(t, "connect") \/ Goes(t, "remove") \/ Ends(t)
      BY <2>6 DEF publish
    <3> QED
      BY <2>6, <3>1, TaskMoves DEF publish, BuilderHoldsTheMutex, At, Steps
  <2>7. CASE remove_session(t)
    BY <2>7, TaskMoves DEF remove_session, BuilderHoldsTheMutex, At, Steps
  <2> QED
    BY <1>1, <2>1, <2>2, <2>3, <2>4, <2>5, <2>6, <2>7 DEF TaskStep
<1>2. ASSUME NEW t \in Tasks, NEW op \in Commands, command(t, op) PROVE BuilderHoldsTheMutex'
  <2>1. PICK s \in {"connect", "take"} : task' = [task EXCEPT ![t] = [op |-> op, step |-> s, bot |-> 0]]
    BY <1>2, CommandBegins
  <2> QED
    BY <1>2, <2>1 DEF command, BuilderHoldsTheMutex, At, TypeOK
<1>3. ASSUME NEW b \in Bots, BotStep(b) \/ full_sync(b) PROVE BuilderHoldsTheMutex'
  <2>1. UNCHANGED <<task, lock, handle>>
    BY <1>3 DEF BotStep, full_sync, phone_pairs, link_up, link_down, phone_unlinks, on_connected, on_logged_out,
               handle_lifecycle_event, KeepsClient, KeepsBots
  <2> QED
    BY <2>1 DEF BuilderHoldsTheMutex, At
<1> QED
  BY <1>1, <1>2, <1>3 DEF Next

\* What a step does to the life of the bots.
LEMMA LivesChange ==
    ASSUME TypeOK, Next
    PROVE  \/ UNCHANGED <<life, handle>>
           \/ \E t \in Tasks : spawn(t) \/ take(t) \/ stopped(t)
BY DEF Next, TaskStep, BotStep, command, connect, open_session, connect_fails, client_logout, publish, remove_session,
       full_sync, phone_pairs, link_up, link_down, phone_unlinks, on_connected, on_logged_out, handle_lifecycle_event,
       KeepsClient, KeepsBots, libraryVars

\* No running bot leaves the client's sight.
LEMMA HeldKept ==
    ASSUME TypeOK, BuilderHoldsTheMutex, RunningIsHeld, Next
    PROVE  RunningIsHeld'
<1>1. CASE UNCHANGED <<life, handle>>
  BY <1>1 DEF RunningIsHeld
<1>2. ASSUME NEW t \in Tasks, spawn(t) PROVE RunningIsHeld'
  <2>1. handle = 0
    BY <1>2 DEF spawn, BuilderHoldsTheMutex
  <2>2. \A c \in Bots : life[c] # "runs"
    BY <2>1, SessionAssumption DEF RunningIsHeld, Bots
  <2>3. PICK b \in Unused : handle' = b /\ life' = [life EXCEPT ![b] = "runs"]
    BY <1>2 DEF spawn
  <2> QED
    BY <2>2, <2>3 DEF RunningIsHeld, TypeOK
<1>3. ASSUME NEW t \in Tasks, take(t) PROVE RunningIsHeld'
  <2>1. handle' = 0 /\ life' = IF handle = 0 THEN life ELSE [life EXCEPT ![handle] = "stopping"]
    BY <1>3 DEF take
  <2>2. \A c \in Bots : life'[c] # "runs"
    BY <2>1, SessionAssumption DEF RunningIsHeld, Bots, TypeOK
  <2> QED
    BY <2>2 DEF RunningIsHeld
<1>4. ASSUME NEW t \in Tasks, stopped(t) PROVE RunningIsHeld'
  BY <1>4 DEF stopped, RunningIsHeld, TypeOK
<1> QED
  BY <1>1, <1>2, <1>3, <1>4, LivesChange

\* A step takes the life of no bot but the one a command has stopped.
LEMMA LivesStay ==
    ASSUME TypeOK, Next, NEW b \in Bots, Alive(b), \A t \in Tasks : stopped(t) => task[t].bot # b
    PROVE  Alive(b)'
<1>1. CASE UNCHANGED <<life, handle>>
  BY <1>1 DEF Alive
<1>2. ASSUME NEW t \in Tasks, spawn(t) PROVE Alive(b)'
  BY <1>2 DEF spawn, Alive, TypeOK
<1>3. ASSUME NEW t \in Tasks, take(t) PROVE Alive(b)'
  BY <1>3 DEF take, Alive, TypeOK
<1>4. ASSUME NEW t \in Tasks, stopped(t) PROVE Alive(b)'
  BY <1>4 DEF stopped, Alive, TypeOK
<1> QED
  BY <1>1, <1>2, <1>3, <1>4, LivesChange

\* A command that is about to publish stays there until it has.
LEMMA PublishWaits ==
    ASSUME TypeOK, Next, NEW t \in Tasks, At(t, "publish"), ~publish(t)
    PROVE  At(t, "publish")'
<1>1. CASE task' = task
  BY <1>1 DEF At
<1>2. ASSUME NEW u \in Tasks, NEW op \in Commands, command(u, op) PROVE task'[t] = task[t]
  <2>1. u # t
    BY <1>2 DEF command, At
  <2> QED
    BY <1>2, <2>1, CommandBegins DEF TypeOK
<1>3. ASSUME NEW u \in Tasks, TaskStep(u) PROVE task'[t] = task[t]
  <2>1. CASE u = t
    BY <1>3, <2>1 DEF TaskStep, connect, open_session, connect_fails, spawn, take, client_logout, stopped, remove_session, At
  <2>2. CASE publish(u) /\ u # t
    <3>1. Goes(u, "connect") \/ Goes(u, "remove") \/ Ends(u)
      BY <2>2 DEF publish
    <3> QED
      BY <2>2, <3>1, TaskMoves DEF Steps
  <2>3. CASE ~publish(u) /\ u # t
    <3>1. stopped(u) \/ take(u) \/ Ends(u) \/ \E s \in Steps : Goes(u, s)
      BY <1>3, <2>3 DEF TaskStep, connect, open_session, connect_fails, spawn, client_logout, remove_session, Steps
    <3>2. CASE take(u)
      BY <2>3, <3>2 DEF take, TypeOK
    <3>3. CASE stopped(u)
      BY <2>3, <3>3, StoppedMoves
    <3>4. ASSUME NEW s \in Steps, Goes(u, s) PROVE task'[t] = task[t]
      BY <2>3, <3>4, TaskMoves
    <3>5. CASE Ends(u)
      BY <2>3, <3>5 DEF Ends, TypeOK
    <3> QED
      BY <3>1, <3>2, <3>3, <3>4, <3>5
  <2> QED
    BY <2>1, <2>2, <2>3
<1>4. ASSUME NEW b \in Bots, BotStep(b) \/ full_sync(b) PROVE task' = task
  BY <1>4 DEF BotStep, full_sync, phone_pairs, link_up, link_down, phone_unlinks, on_connected, on_logged_out,
         handle_lifecycle_event, KeepsClient, KeepsBots
<1> QED
  BY <1>1, <1>2, <1>3, <1>4 DEF Next, At

\* Who has a word on the connection: a command that publishes, a report, a handler.
LEMMA Words ==
    ASSUME TypeOK, Next
    PROVE  \/ \E t \in Tasks : publish(t) \/ open_session(t)
           \/ \E b \in Bots, e \in Events : ReportStep(b, e) \/ HandlerStep(b, e)
           \/ /\ UNCHANGED <<news, connection>>
              /\ "connection" \in raced' <=> "connection" \in raced
<1>1. ASSUME NEW t \in Tasks, TaskStep(t), ~publish(t), ~open_session(t)
      PROVE  UNCHANGED <<news, connection>> /\ ("connection" \in raced' <=> "connection" \in raced)
  <2>1. CASE remove_session(t)
    <3>1. raced' = raced \/ Says({"jid"})
      BY <2>1 DEF remove_session
    <3>2. "connection" \in raced' <=> "connection" \in raced
      BY <3>1, SaysRaces
    <3> QED
      BY <2>1, <3>2 DEF remove_session, libraryVars
  <2>2. CASE ~remove_session(t)
    BY <1>1, <2>2 DEF TaskStep, connect, connect_fails, spawn, take, client_logout, stopped, libraryVars, publishedVars
  <2> QED
    BY <2>1, <2>2
<1>2. ASSUME NEW t \in Tasks, NEW op \in Commands, command(t, op) PROVE UNCHANGED <<news, connection, raced>>
  BY <1>2 DEF command, libraryVars, publishedVars
<1>3. ASSUME NEW b \in Bots, full_sync(b) PROVE UNCHANGED <<news, connection, raced>>
  BY <1>3 DEF full_sync, libraryVars, publishedVars
<1> QED
  BY <1>1, <1>2, <1>3, BotStepIs DEF Next

\* What a command publishes has raced if a handler is outstanding.
LEMMA PublishRaces ==
    ASSUME TypeOK, NEW t \in Tasks, publish(t) \/ open_session(t)
    PROVE  /\ connection' # "connected" /\ UNCHANGED news
           /\ "connection" \in raced' <=> Outstanding("connection")
<1>1. \E topics \in SUBSET {"connection", "jid"} : "connection" \in topics /\ Says(topics)
  BY DEF publish, open_session
<1>2. connection' # "connected" /\ UNCHANGED news
  BY DEF publish, open_session, libraryVars
<1> QED
  BY <1>1, <1>2, SaysRaces

\* A report has raced if another handler was outstanding; one of a pairing says nothing of the connection.
LEMMA ReportRaces ==
    ASSUME TypeOK, NEW b \in Bots, NEW e \in Events, Reports(b, e)
    PROVE  /\ e = "PairSuccess" => ("connection" \in raced' <=> "connection" \in raced)
           /\ e = "PairSuccess" => ("jid" \in raced' <=> Outstanding("jid"))
           /\ e # "PairSuccess" => ("jid" \in raced' <=> "jid" \in raced)
           /\ e # "PairSuccess" => ("connection" \in raced' <=> Outstanding("connection"))
<1>1. Says({Topic(e)}) /\ Topic(e) \in {"connection", "jid"}
  BY DEF Reports, Topic
<1>2. CASE e = "PairSuccess"
  BY <1>1, <1>2, SaysRaces DEF Topic
<1>3. CASE e # "PairSuccess"
  BY <1>1, <1>3, SaysRaces DEF Topic
<1> QED
  BY <1>2, <1>3

\* A handler of a link report is of a living bot, or its command has still to publish, or it has raced.
LEMMA NewsKept ==
    ASSUME TypeOK, NewsIsOfTheLiving, Next
    PROVE  NewsIsOfTheLiving'
<1> SUFFICES ASSUME NEW b \in Bots, NEW e \in Events \ {"PairSuccess"}, news'[b][e] > 0
             PROVE  Alive(b)' \/ "connection" \in raced' \/ \E t \in Tasks : At(t, "publish")'
  BY DEF NewsIsOfTheLiving
<1> DEFINE Fits == Alive(b) \/ "connection" \in raced \/ \E t \in Tasks : At(t, "publish")
<1>1. news[b][e] > 0 => Fits
  BY DEF NewsIsOfTheLiving
<1>2. news[b][e] > 0 => Outstanding("connection")
  BY DEF Outstanding, Topic
<1>3. CASE \E t \in Tasks : publish(t) \/ open_session(t)
  BY <1>2, <1>3, PublishRaces
<1>4. ASSUME NEW c \in Bots, NEW f \in Events, ReportStep(c, f)
      PROVE  Alive(b)' \/ "connection" \in raced' \/ \E t \in Tasks : At(t, "publish")'
  <2>1. UNCHANGED <<life, task>> /\ Alive(c) /\ Reports(c, f)
    BY <1>4 DEF ReportStep, KeepsClient
  <2>2. CASE news[b][e] > 0
    <3>1. Fits /\ Outstanding("connection")
      BY <1>1, <1>2, <2>2
    <3>2. "connection" \in raced => "connection" \in raced'
      BY <2>1, <3>1, ReportRaces
    <3> QED
      BY <2>1, <3>1, <3>2 DEF Alive, At
  <2>3. CASE ~(news[b][e] > 0)
    <3>1. b = c
      BY <2>1, <2>3, NewsMoves
    <3> QED
      BY <2>1, <3>1 DEF Alive
  <2> QED
    BY <2>2, <2>3
<1>5. ASSUME NEW c \in Bots, NEW f \in Events, HandlerStep(c, f)
      PROVE  Alive(b)' \/ "connection" \in raced' \/ \E t \in Tasks : At(t, "publish")'
  <2>1. UNCHANGED <<life, task, raced>> /\ Handled(c, f)
    BY <1>5 DEF HandlerStep, KeepsBots
  <2>2. news[b][e] > 0
    BY <2>1, NewsMoves
  <2> QED
    BY <1>1, <2>1, <2>2 DEF Alive, At
<1>6. CASE \E t \in Tasks : stopped(t)
  BY <1>6, StoppedMoves
<1>7. CASE /\ UNCHANGED <<news, connection>> /\ ("connection" \in raced' <=> "connection" \in raced)
           /\ ~\E t \in Tasks : publish(t) \/ stopped(t)
  <2>1. Fits
    BY <1>1, <1>7
  <2>2. Alive(b) => Alive(b)'
    BY <1>7, LivesStay
  <2>3. \A t \in Tasks : At(t, "publish") => At(t, "publish")'
    BY <1>7, PublishWaits
  <2> QED
    BY <1>7, <2>1, <2>2, <2>3
<1> QED
  BY <1>3, <1>4, <1>5, <1>6, <1>7, Words

\* Connected is not published without a bot but until the command that stopped it goes on.
LEMMA ConnectedKept ==
    ASSUME TypeOK, NewsIsOfTheLiving, ConnectedIsTakenBack, Next
    PROVE  ConnectedIsTakenBack'
<1> SUFFICES ASSUME connection' = "connected"
             PROVE  (\E b \in Bots : Alive(b)') \/ "connection" \in raced' \/ \E t \in Tasks : At(t, "publish")'
  BY DEF ConnectedIsTakenBack
<1> DEFINE Fits == (\E b \in Bots : Alive(b)) \/ "connection" \in raced \/ \E t \in Tasks : At(t, "publish")
<1>1. connection = "connected" => Fits
  BY DEF ConnectedIsTakenBack
<1>2. CASE \E t \in Tasks : publish(t) \/ open_session(t)
  BY <1>2, PublishRaces
<1>3. CASE \E b \in Bots, e \in Events : ReportStep(b, e)
  BY <1>3 DEF ReportStep, KeepsClient, Alive
<1>4. ASSUME NEW b \in Bots, NEW e \in Events, HandlerStep(b, e)
      PROVE  (\E c \in Bots : Alive(c)') \/ "connection" \in raced' \/ \E t \in Tasks : At(t, "publish")'
  <2>1. UNCHANGED <<life, task, raced>> /\ Handled(b, e)
    BY <1>4 DEF HandlerStep, KeepsBots
  <2>2. connection = "connected" \/ e # "PairSuccess"
    BY <1>4 DEF HandlerStep
  <2>3. Fits
    BY <1>1, <2>1, <2>2, NewsMoves DEF NewsIsOfTheLiving
  <2> QED
    BY <2>1, <2>3 DEF Alive, At
<1>5. CASE \E t \in Tasks : stopped(t)
  BY <1>5, StoppedMoves
<1>6. CASE /\ UNCHANGED <<news, connection>> /\ ("connection" \in raced' <=> "connection" \in raced)
           /\ ~\E t \in Tasks : publish(t) \/ stopped(t)
  <2>1. Fits
    BY <1>1, <1>6
  <2>2. \A b \in Bots : Alive(b) => Alive(b)'
    BY <1>6, LivesStay
  <2>3. \A t \in Tasks : At(t, "publish") => At(t, "publish")'
    BY <1>6, PublishWaits
  <2> QED
    BY <1>6, <2>1, <2>2, <2>3
<1> QED
  BY <1>2, <1>3, <1>4, <1>5, <1>6, Words

-----------------------------------------------------------------------------
\* The invariant holds at the start ...
LEMMA InitFits ==
    ASSUME Init
    PROVE  SessionInv
<1>1. handle = 0 /\ lock = None /\ connection = "disconnected" /\ own_jid = 0 /\ raced = {} /\ disk = 0 /\ linked = {} /\ fired = FALSE
  BY DEF Init
<1>2. task \in [Tasks -> [op : Commands \cup {"idle"}, step : Steps, bot : 0..MaxBots]]
  BY SessionAssumption DEF Init, Idle, Steps
<1>3. /\ life \in [Bots -> {"unused", "runs", "stopping", "gone"}]
      /\ link \in [Bots -> {"down", "up", "out"}]
      /\ news \in [Bots -> [Events -> 0..MaxReports]] /\ \A b \in Bots, e \in Events : news[b][e] = 0
      /\ opened \in [Bots -> 0..MaxBots]
      /\ replay \in [Bots -> {"none", "waiting", "done"}]
  BY SessionAssumption DEF Init
<1>4. TypeOK
  <2>1. /\ handle \in 0..MaxBots /\ own_jid \in 0..MaxBots /\ disk \in 0..MaxBots
        /\ lock \in Tasks \cup {None} /\ linked \subseteq 0..MaxBots /\ raced \subseteq {"connection", "jid"}
    BY <1>1, SessionAssumption
  <2>2. connection \in {"disconnected", "connecting", "connected"} /\ fired \in BOOLEAN
    BY <1>1
  <2> QED
    BY <1>2, <1>3, <2>1, <2>2 DEF TypeOK
<1>5. BuilderHoldsTheMutex
  BY DEF Init, BuilderHoldsTheMutex, At, Idle
<1>6. RunningIsHeld /\ NewsIsOfTheLiving /\ ConnectedIsTakenBack
  BY <1>1, <1>3 DEF Init, RunningIsHeld, NewsIsOfTheLiving, ConnectedIsTakenBack
<1> QED
  BY <1>4, <1>5, <1>6 DEF SessionInv

\* ... and after every step.
LEMMA SessionInvStep ==
    ASSUME SessionInv, [Next]_vars
    PROVE  SessionInv'
<1>1. ASSUME SessionInv, Next PROVE SessionInv'
  BY <1>1, NextTyped, MutexKept, HeldKept, NewsKept, ConnectedKept DEF SessionInv
<1>2. ASSUME SessionInv, UNCHANGED vars PROVE SessionInv'
  BY <1>2 DEF vars, SessionInv, TypeOK, BuilderHoldsTheMutex, RunningIsHeld, NewsIsOfTheLiving, ConnectedIsTakenBack,
         At, Alive
<1> QED
  BY <1>1, <1>2

\* The whole invariant holds in every behavior.
LEMMA SessionInvHolds == Spec => []SessionInv
<1>1. SessionInv /\ [Next]_vars => SessionInv'
  BY SessionInvStep
<1>2. Init => SessionInv
  BY InitFits
<1> QED
  BY <1>1, <1>2, PTL DEF Spec

\* Every variable of the session keeps its shape.
THEOREM TypeCorrect == Spec => []TypeOK
<1>1. SessionInv => TypeOK
  BY DEF SessionInv
<1> QED
  BY <1>1, SessionInvHolds, PTL

\* However connects and shutdowns interleave, no bot runs that a later shutdown would not find,
\* and connected is not published without a bot, but until the command that stopped it ends, unless the newest word of
\* the connection came while a handler of an older one was outstanding.
THEOREM BotStaysKnown == Spec => []BotIsKnown
<1>1. SessionInv => RunningIsHeld
  BY DEF SessionInv
<1>2. SessionInv => ConnectedHasBot
  BY DEF SessionInv, ConnectedIsTakenBack, ConnectedHasBot, At
<1>3. SessionInv => BotIsKnown
  BY <1>1, <1>2 DEF BotIsKnown
<1> QED
  BY <1>3, SessionInvHolds, PTL

-----------------------------------------------------------------------------
(* No command waits for ever: what CommandsEnd rests on but for fairness *)

\* The mutex is held by a connect that is building, never by a command that waits for it or that has ended.
HolderBuilds == lock # None => At(lock, "open") \/ At(lock, "spawn")

\* How many steps are left to a command at most.
StepsLeft(s) ==
    CASE s = "take" -> 8 [] s = "logout" -> 7 [] s = "stop" -> 6 [] s = "publish" -> 5 [] s = "remove" -> 4
      [] s = "connect" -> 3 [] s = "open" -> 2 [] s = "spawn" -> 1 [] OTHER -> 0

\* A step of a command brings it nearer to its end, and leaves the others where they are.
CommandsDescend ==
    \A t \in Tasks :
       task'[t] # task[t] => /\ At(t, "idle") \/ StepsLeft(task'[t].step) < StepsLeft(task[t].step)
                             /\ \A u \in Tasks \ {t} : task'[u] = task[u]

\* The mutex is taken and released with the steps that build.
LEMMA HolderStep ==
    ASSUME TypeOK, HolderBuilds, BuilderHoldsTheMutex, [Next]_vars
    PROVE  HolderBuilds'
<1>1. ASSUME NEW t \in Tasks, TaskStep(t) PROVE HolderBuilds'
  <2>1. CASE connect(t)
    <3>1. CASE Goes(t, "open") /\ lock' = t
      BY <3>1, TaskMoves DEF HolderBuilds, Steps
    <3>2. CASE lock' = lock
      BY <2>1, <3>2 DEF connect, HolderBuilds
    <3> QED
      BY <2>1, <3>1, <3>2 DEF connect
  <2>2. CASE open_session(t)
    <3>1. lock = t /\ lock' = lock /\ Goes(t, "spawn")
      BY <2>2 DEF open_session, BuilderHoldsTheMutex
    <3> QED
      BY <3>1, TaskMoves DEF HolderBuilds, Steps
  <2>3. CASE connect_fails(t) \/ spawn(t)
    BY <2>3 DEF connect_fails, spawn, HolderBuilds
  <2>4. CASE take(t)
    BY <2>4 DEF take, HolderBuilds
  <2>5. CASE client_logout(t) \/ stopped(t) \/ publish(t) \/ remove_session(t)
    <3>1. At(t, "logout") \/ At(t, "stop") \/ At(t, "publish") \/ At(t, "remove")
      BY <2>5 DEF client_logout, stopped, publish, remove_session
    <3>2. lock # None => lock # t
      BY <3>1 DEF HolderBuilds, At
    <3>3. lock' = lock
      BY <2>5 DEF client_logout, stopped, publish, remove_session
    <3>4. stopped(t) \/ \E s \in Steps : Goes(t, s) \/ Ends(t)
      BY <2>5 DEF client_logout, publish, remove_session, Steps
    <3>5. \A u \in Tasks \ {t} : task'[u] = task[u]
      BY <3>4, TaskMoves, StoppedMoves
    <3>6. lock \in Tasks \cup {None}
      BY DEF TypeOK
    <3> QED
      BY <3>2, <3>3, <3>5, <3>6 DEF HolderBuilds, At
  <2> QED
    BY <1>1, <2>1, <2>2, <2>3, <2>4, <2>5 DEF TaskStep
<1>2. ASSUME NEW t \in Tasks, NEW op \in Commands, command(t, op) PROVE HolderBuilds'
  <2>1. At(t, "idle") /\ lock' = lock /\ \A u \in Tasks \ {t} : task'[u] = task[u]
    BY <1>2 DEF command, TypeOK
  <2>2. lock # None => lock # t /\ lock \in Tasks
    BY <2>1 DEF HolderBuilds, At, TypeOK
  <2> QED
    BY <2>1, <2>2 DEF HolderBuilds, At
<1>3. ASSUME UNCHANGED <<task, lock>> PROVE HolderBuilds'
  BY <1>3 DEF HolderBuilds, At
<1>4. ASSUME NEW b \in Bots, BotStep(b) \/ full_sync(b) PROVE UNCHANGED <<task, lock>>
  BY <1>4 DEF BotStep, full_sync, phone_pairs, link_up, link_down, phone_unlinks, on_connected, on_logged_out,
             handle_lifecycle_event, KeepsClient, KeepsBots
<1> QED
  BY <1>1, <1>2, <1>3, <1>4 DEF Next, vars

\* No waiting for the mutex can turn into a deadlock, for any number of commands: it is with a connect that does not wait
\* for it, which goes on, fails or ends (client.rs, connect and shutdown).
THEOREM MutexIsBusy == Spec => []HolderBuilds
<1>1. Init => HolderBuilds
  BY DEF Init, HolderBuilds
<1>2. SessionInv /\ HolderBuilds /\ [Next]_vars => HolderBuilds'
  BY HolderStep DEF SessionInv
<1> QED
  BY <1>1, <1>2, SessionInvHolds, PTL DEF Spec

\* Each step of a command is one of the eight it can take at most: none goes round, also not restart_pairing and
\* reset_session, which end in a connect.
THEOREM CommandsNearTheirEnd == Spec => [][CommandsDescend]_vars
<1>1. ASSUME TypeOK, Next PROVE CommandsDescend
  <2>1. ASSUME NEW t \in Tasks, NEW s \in Steps, Goes(t, s), StepsLeft(s) < StepsLeft(task[t].step) PROVE CommandsDescend
    <3>1. task'[t].step = s /\ \A u \in Tasks \ {t} : task'[u] = task[u]
      BY <1>1, <2>1, TaskMoves DEF At
    <3> QED
      BY <2>1, <3>1 DEF CommandsDescend
  <2>2. ASSUME NEW t \in Tasks, Ends(t), StepsLeft(task[t].step) > 0 PROVE CommandsDescend
    <3>1. task'[t].step = "idle" /\ \A u \in Tasks \ {t} : task'[u] = task[u]
      BY <1>1, <2>2, TaskMoves DEF At, Steps
    <3>2. StepsLeft("idle") = 0
      BY DEF StepsLeft
    <3> QED
      BY <2>2, <3>1, <3>2 DEF CommandsDescend
  <2>3. /\ StepsLeft("take") = 8 /\ StepsLeft("logout") = 7 /\ StepsLeft("stop") = 6 /\ StepsLeft("publish") = 5
        /\ StepsLeft("remove") = 4 /\ StepsLeft("connect") = 3 /\ StepsLeft("open") = 2 /\ StepsLeft("spawn") = 1
    BY DEF StepsLeft
  <2>4. ASSUME NEW t \in Tasks, connect(t) \/ open_session(t) \/ connect_fails(t) \/ spawn(t) PROVE CommandsDescend
    <3>1. CASE At(t, "connect") /\ Goes(t, "open")
      <4>1. "open" \in Steps /\ StepsLeft("open") < StepsLeft(task[t].step)
        BY <2>3, <3>1 DEF At, Steps
      <4> QED
        BY <2>1, <3>1, <4>1
    <3>2. CASE At(t, "open") /\ Goes(t, "spawn")
      <4>1. "spawn" \in Steps /\ StepsLeft("spawn") < StepsLeft(task[t].step)
        BY <2>3, <3>2 DEF At, Steps
      <4> QED
        BY <2>1, <3>2, <4>1
    <3>3. CASE (At(t, "connect") \/ At(t, "open") \/ At(t, "spawn")) /\ Ends(t)
      <4>1. StepsLeft(task[t].step) > 0
        BY <2>3, <3>3 DEF At
      <4> QED
        BY <2>2, <3>3, <4>1
    <3> QED
      BY <2>4, <3>1, <3>2, <3>3 DEF connect, open_session, connect_fails, spawn
  <2>5. ASSUME NEW t \in Tasks, take(t) PROVE CommandsDescend
    <3>1. task[t].step = "take" /\ task'[t].step \in {"publish", "logout", "stop"} /\ \A u \in Tasks \ {t} : task'[u] = task[u]
      BY <1>1, <2>5 DEF take, At, TypeOK
    <3> QED
      BY <2>3, <3>1 DEF CommandsDescend
  <2>6. ASSUME NEW t \in Tasks, client_logout(t) \/ stopped(t) \/ publish(t) \/ remove_session(t) PROVE CommandsDescend
    <3>1. PICK from \in {"logout", "stop", "publish", "remove"} : At(t, from)
      BY <2>6 DEF client_logout, stopped, publish, remove_session
    <3>2. ASSUME NEW to \in {"stop", "publish", "remove", "connect"}, Goes(t, to), StepsLeft(to) < StepsLeft(from)
          PROVE  CommandsDescend
      <4>1. to \in Steps /\ StepsLeft(to) < StepsLeft(task[t].step)
        BY <3>1, <3>2 DEF At, Steps
      <4> QED
        BY <2>1, <3>2, <4>1
    <3>3. CASE Ends(t)
      <4>1. StepsLeft(task[t].step) > 0
        BY <2>3, <3>1 DEF At
      <4> QED
        BY <2>2, <3>3, <4>1
    <3>4. CASE stopped(t)
      <4>1. task[t].step = "stop" /\ task'[t].step = "publish" /\ \A u \in Tasks \ {t} : task'[u] = task[u]
        BY <1>1, <3>4, StoppedMoves DEF stopped, At
      <4> QED
        BY <2>3, <4>1 DEF CommandsDescend
    <3>5. stopped(t) \/ Ends(t) \/ \E to \in {"stop", "publish", "remove", "connect"} : Goes(t, to) /\ StepsLeft(to) < StepsLeft(from)
      <4>1. task[t].step = from
        BY <3>1 DEF At
      <4> QED
        BY <2>3, <2>6, <4>1 DEF client_logout, publish, remove_session, At
    <3> QED
      BY <3>2, <3>3, <3>4, <3>5
  <2>7. ASSUME NEW t \in Tasks, NEW op \in Commands, command(t, op) PROVE CommandsDescend
    <3>1. At(t, "idle") /\ \A u \in Tasks \ {t} : task'[u] = task[u]
      BY <1>1, <2>7 DEF command, TypeOK
    <3> QED
      BY <3>1 DEF CommandsDescend, At
  <2>8. ASSUME NEW b \in Bots, BotStep(b) \/ full_sync(b) PROVE CommandsDescend
    <3>1. task' = task
      BY <2>8 DEF BotStep, full_sync, phone_pairs, link_up, link_down, phone_unlinks, on_connected, on_logged_out,
                 handle_lifecycle_event, KeepsClient, KeepsBots
    <3> QED
      BY <3>1 DEF CommandsDescend
  <2> QED
    BY <1>1, <2>4, <2>5, <2>6, <2>7, <2>8 DEF Next, TaskStep
<1>2. TypeOK /\ [Next]_vars => [CommandsDescend]_vars
  BY <1>1
<1>3. SessionInv => TypeOK
  BY DEF SessionInv
<1> QED
  BY <1>2, <1>3, SessionInvHolds, PTL DEF Spec

-----------------------------------------------------------------------------
(* One command at a time *)

\* A command that has not touched the handle yet, and one that is stopping a bot.
Waits(t) == At(t, "idle") \/ At(t, "connect") \/ At(t, "take")
Stopping(t) == At(t, "logout") \/ At(t, "stop")

\* There is no handle from the step that takes it until the next one is made, and a bot is
\* stopping exactly while the command that took it is at it.
TakenFirst == \A t \in Tasks : ~Waits(t) => handle = 0
StoppingHasTask == \A b \in Bots : life[b] = "stopping" => \E t \in Tasks : Stopping(t) /\ task[t].bot = b
TaskHasStopping == \A t \in Tasks : Stopping(t) => task[t].bot \in Bots /\ life[task[t].bot] = "stopping"
CommandsFit == TakenFirst /\ StoppingHasTask /\ TaskHasStopping

\* An unused bot has no link, and nothing of it is outstanding.
HeldRuns == handle # 0 => life[handle] = "runs"
UnusedAreDown == \A b \in Bots : life[b] = "unused" => link[b] = "down" /\ \A e \in Events : news[b][e] = 0

\* Unless the newest word has raced no other handler of a link report is outstanding.
LinkReports == Events \ {"PairSuccess"}
NewestIsAlone ==
    "connection" \notin raced =>
        \A b, c \in Bots, e, f \in LinkReports :
            news[b][e] > 0 /\ news[c][f] > 0 => b = c /\ e = f /\ news[b][e] = 1

\* What is published of the link of the bot in the client, or what its only handler will make of it.
LinkIsTold ==
    handle # 0 /\ "connection" \notin raced =>
        /\ ~Outstanding("connection") => (connection = "connected" <=> link[handle] = "up")
        /\ \A e \in LinkReports : news[handle][e] > 0 => (e = "Connected" <=> link[handle] = "up")

\* Without a bot, connected is there only until the command that stopped the last one publishes.
StopIsTold ==
    handle = 0 /\ connection = "connected" /\ "connection" \notin raced => \E t \in Tasks : Stopping(t) \/ At(t, "publish")
LinkFits == HeldRuns /\ UnusedAreDown /\ NewestIsAlone /\ LinkIsTold /\ StopIsTold

\* A bot has the session on disk open, and so has one that paired, unless that has raced.
DiskStays == \A b \in Bots : Alive(b) => disk = opened[b] /\ disk # 0
SpawnHasDisk == \A t \in Tasks : At(t, "spawn") => disk # 0
PairIsOfDisk == "jid" \notin raced => \A b \in Bots : news[b]["PairSuccess"] > 0 => opened[b] = disk /\ disk # 0

\* The own JID belongs to the session on disk once the newest pairing has been handled.
OwnFits == "jid" \notin raced /\ ~Outstanding("jid") /\ own_jid # 0 => own_jid = disk
DiskFits == DiskStays /\ SpawnHasDisk /\ PairIsOfDisk /\ OwnFits

AloneInv == CommandsFit /\ LinkFits /\ DiskFits

\* A step of the only command leaves all others idle.
LEMMA OthersIdle ==
    ASSUME OneAtATime, NEW t \in Tasks, ~At(t, "idle")
    PROVE  \A u \in Tasks \ {t} : At(u, "idle")
BY DEF OneAtATime

\* A bot lives only in the client or while its command stops it.
LEMMA AliveHas ==
    ASSUME SessionInv, AloneInv, NEW b \in Bots, Alive(b)
    PROVE  handle = b \/ \E t \in Tasks : Stopping(t) /\ task[t].bot = b
BY DEF SessionInv, AloneInv, CommandsFit, StoppingHasTask, RunningIsHeld, Alive

\* So none lives while the only command is between its stop and its spawn.
LEMMA NoneLives ==
    ASSUME SessionInv, AloneInv, OneAtATime, NEW t \in Tasks, ~Waits(t), ~Stopping(t)
    PROVE  handle = 0 /\ \A b \in Bots : ~Alive(b)
<1>1. handle = 0
  BY DEF AloneInv, CommandsFit, TakenFirst
<1>2. \A u \in Tasks : ~Stopping(u)
  BY OthersIdle DEF Stopping, Waits, At
<1> QED
  BY <1>1, <1>2, AliveHas, SessionAssumption DEF Bots

\* The tables do not change: what is said of them stays.
LEMMA FitsStay ==
    ASSUME SessionInv, AloneInv, UNCHANGED <<handle, publishedVars, disk, life, link, news, opened>>,
           CommandsFit', StopIsTold', SpawnHasDisk'
    PROVE  AloneInv'
<1>1. HeldRuns' /\ UnusedAreDown' /\ NewestIsAlone' /\ LinkIsTold'
  BY DEF AloneInv, LinkFits, HeldRuns, UnusedAreDown, NewestIsAlone, LinkIsTold, Outstanding, publishedVars
<1>2. DiskStays' /\ PairIsOfDisk' /\ OwnFits'
  BY DEF AloneInv, DiskFits, DiskStays, PairIsOfDisk, OwnFits, Alive, Outstanding, publishedVars
<1> QED
  BY <1>1, <1>2 DEF AloneInv, LinkFits, DiskFits

\* A command begins.
LEMMA CommandAlone ==
    ASSUME SessionInv, AloneInv, NEW t \in Tasks, NEW op \in Commands, command(t, op)
    PROVE  AloneInv'
<1>1. PICK s \in {"connect", "take"} : task' = [task EXCEPT ![t] = [op |-> op, step |-> s, bot |-> 0]]
  BY CommandBegins
<1>2. UNCHANGED <<handle, publishedVars, disk, life, link, news, opened>> /\ At(t, "idle")
  BY DEF command, libraryVars
<1>3. \A u \in Tasks \ {t} : task'[u] = task[u]
  BY <1>1 DEF SessionInv, TypeOK
<1>4. Waits(t)' /\ ~Stopping(t)' /\ ~At(t, "publish")' /\ ~Stopping(t) /\ ~At(t, "publish")
  BY <1>1, <1>2 DEF SessionInv, TypeOK, At, Waits, Stopping
<1>5. CommandsFit'
  BY <1>2, <1>3, <1>4 DEF AloneInv, CommandsFit, TakenFirst, StoppingHasTask, TaskHasStopping, Waits, Stopping, At
<1>6. StopIsTold'
  BY <1>2, <1>3, <1>4 DEF AloneInv, LinkFits, StopIsTold, Stopping, At, publishedVars
<1>7. SpawnHasDisk'
  BY <1>2, <1>3, <1>4 DEF AloneInv, DiskFits, SpawnHasDisk, At, Waits
<1> QED
  BY <1>2, <1>5, <1>6, <1>7, FitsStay

\* connect looks at the handle.
LEMMA ConnectAlone ==
    ASSUME SessionInv, AloneInv, OneAtATime, NEW t \in Tasks, connect(t)
    PROVE  AloneInv'
<1>1. UNCHANGED <<handle, publishedVars, disk, life, link, news, opened>> /\ At(t, "connect")
  BY DEF connect, libraryVars
<1>2. \A u \in Tasks \ {t} : task'[u] = task[u]
  BY TaskMoves DEF SessionInv, connect, Steps
<1>3. At(t, "idle")' \/ (At(t, "open")' /\ handle = 0)
  BY TaskMoves DEF SessionInv, connect, Steps
<1>4. ~Stopping(t) /\ ~At(t, "publish") /\ ~Stopping(t)'
  BY <1>1, <1>3 DEF Stopping, At
<1>5. CommandsFit'
  BY <1>1, <1>2, <1>3, <1>4 DEF AloneInv, CommandsFit, TakenFirst, StoppingHasTask, TaskHasStopping, Waits, Stopping, At
<1>6. StopIsTold'
  BY <1>1, <1>2, <1>4 DEF AloneInv, LinkFits, StopIsTold, Stopping, At, publishedVars
<1>7. SpawnHasDisk'
  BY <1>1, <1>2, <1>3 DEF AloneInv, DiskFits, SpawnHasDisk, At
<1> QED
  BY <1>1, <1>5, <1>6, <1>7, FitsStay

\* The session store is opened while no bot lives.
LEMMA OpenAlone ==
    ASSUME SessionInv, AloneInv, OneAtATime, NEW t \in Tasks, open_session(t)
    PROVE  AloneInv'
<1>1. UNCHANGED <<handle, own_jid, life, link, news, opened>> /\ At(t, "open")
  BY DEF open_session, libraryVars
<1>2. handle = 0 /\ \A b \in Bots : ~Alive(b)
  BY <1>1, NoneLives DEF Waits, Stopping, At
<1>3. \A u \in Tasks \ {t} : task'[u] = task[u]
  BY TaskMoves DEF SessionInv, open_session, Steps
<1>4. At(t, "spawn")'
  BY TaskMoves DEF SessionInv, open_session, Steps
<1>5. CommandsFit'
  BY <1>1, <1>2, <1>3, <1>4 DEF AloneInv, CommandsFit, TakenFirst, StoppingHasTask, TaskHasStopping, Waits, Stopping, At
<1>6. LinkFits'
  <2>1. connection' # "connected" /\ ("connection" \notin raced' => ~Outstanding("connection"))
    BY PublishRaces DEF SessionInv
  <2>2. NewestIsAlone'
    BY <1>1, <2>1 DEF NewestIsAlone, Outstanding, Topic, LinkReports
  <2> QED
    BY <1>1, <1>2, <2>1, <2>2 DEF AloneInv, LinkFits, HeldRuns, UnusedAreDown, LinkIsTold, StopIsTold
<1>7. DiskFits'
  <2>1. (disk # 0 => disk' = disk) /\ disk' # 0
    BY SessionAssumption DEF open_session, Unused, Bots
  <2>2. "jid" \in raced' <=> "jid" \in raced
    <3>1. Says({"connection"})
      BY DEF open_session
    <3> QED
      BY <3>1, SaysRaces DEF SessionInv
  <2>3. DiskStays' /\ SpawnHasDisk'
    BY <1>1, <1>2, <2>1 DEF DiskStays, SpawnHasDisk, Alive
  <2>4. PairIsOfDisk'
    BY <1>1, <2>1, <2>2 DEF AloneInv, DiskFits, PairIsOfDisk
  <2>5. OwnFits'
    BY <1>1, <2>1, <2>2 DEF AloneInv, DiskFits, OwnFits, Outstanding
  <2> QED
    BY <2>3, <2>4, <2>5 DEF DiskFits
<1> QED
  BY <1>5, <1>6, <1>7 DEF AloneInv

\* A connect that fails leaves what it found, and connecting is not connected.
LEMMA FailAlone ==
    ASSUME SessionInv, AloneInv, OneAtATime, NEW t \in Tasks, connect_fails(t)
    PROVE  AloneInv'
<1>1. UNCHANGED <<handle, publishedVars, disk, life, link, news, opened>> /\ (At(t, "open") \/ At(t, "spawn"))
  BY DEF connect_fails, libraryVars
<1>2. \A u \in Tasks \ {t} : task'[u] = task[u]
  BY TaskMoves DEF SessionInv, connect_fails, Steps
<1>3. At(t, "idle")'
  BY TaskMoves DEF SessionInv, connect_fails, Steps
<1>4. ~Stopping(t) /\ ~At(t, "publish")
  BY <1>1 DEF Stopping, At
<1>5. CommandsFit'
  BY <1>1, <1>2, <1>3, <1>4 DEF AloneInv, CommandsFit, TakenFirst, StoppingHasTask, TaskHasStopping, Waits, Stopping, At
<1>6. StopIsTold'
  BY <1>1, <1>2, <1>4 DEF AloneInv, LinkFits, StopIsTold, Stopping, At, publishedVars
<1>7. SpawnHasDisk'
  BY <1>1, <1>2, <1>3 DEF AloneInv, DiskFits, SpawnHasDisk, At
<1> QED
  BY <1>1, <1>5, <1>6, <1>7, FitsStay

\* A new bot has no link yet, and connected is not published: the session it opens is the one on disk.
LEMMA SpawnAlone ==
    ASSUME SessionInv, AloneInv, OneAtATime, NEW t \in Tasks, spawn(t)
    PROVE  AloneInv'
<1>1. UNCHANGED <<connection, own_jid, raced, disk, link, news>> /\ At(t, "spawn")
  BY DEF spawn, publishedVars
<1>2. handle = 0 /\ \A b \in Bots : ~Alive(b)
  BY <1>1, NoneLives DEF Waits, Stopping, At
<1>3. PICK b \in Unused : handle' = b /\ life' = [life EXCEPT ![b] = "runs"] /\ opened' = [opened EXCEPT ![b] = disk]
  BY DEF spawn
<1>4. b \in Bots /\ life[b] = "unused" /\ ~Alive(b) /\ b # 0
  BY <1>2, <1>3, SessionAssumption DEF Unused, Bots
<1>5. \A u \in Tasks \ {t} : task'[u] = task[u] /\ At(u, "idle")
  BY <1>1, TaskMoves, OthersIdle DEF SessionInv, spawn, Steps, At
<1>6. At(t, "idle")'
  BY TaskMoves DEF SessionInv, spawn, Steps
<1>7. \A c \in Bots : life'[c] # "stopping" /\ (c # b => life'[c] = life[c] /\ opened'[c] = opened[c])
  BY <1>2, <1>3 DEF Alive, SessionInv, TypeOK
<1>8. life'[b] = "runs" /\ opened'[b] = disk
  BY <1>3, <1>4 DEF SessionInv, TypeOK
<1>9. CommandsFit'
  BY <1>5, <1>6, <1>7 DEF CommandsFit, TakenFirst, StoppingHasTask, TaskHasStopping, Waits, Stopping, At
<1>10. LinkFits'
  <2>1. link[b] = "down" /\ \A e \in Events : news[b][e] = 0
    BY <1>4 DEF AloneInv, LinkFits, UnusedAreDown
  <2>2. connection = "connected" => "connection" \in raced
    <3>1. \A u \in Tasks : ~Stopping(u) /\ ~At(u, "publish")
      BY <1>1, <1>5 DEF Stopping, At
    <3> QED
      BY <1>2, <3>1 DEF AloneInv, LinkFits, StopIsTold
  <2>3. HeldRuns' /\ LinkIsTold' /\ StopIsTold'
    BY <1>1, <1>3, <1>4, <1>8, <2>1, <2>2 DEF HeldRuns, LinkIsTold, StopIsTold, LinkReports
  <2>4. UnusedAreDown'
    BY <1>1, <1>7, <1>8 DEF AloneInv, LinkFits, UnusedAreDown
  <2>5. NewestIsAlone'
    BY <1>1 DEF AloneInv, LinkFits, NewestIsAlone
  <2> QED
    BY <2>3, <2>4, <2>5 DEF LinkFits
<1>11. DiskFits'
  <2>1. disk # 0
    BY <1>1 DEF AloneInv, DiskFits, SpawnHasDisk
  <2>2. DiskStays' /\ SpawnHasDisk'
    BY <1>1, <1>2, <1>7, <1>8, <2>1 DEF DiskStays, SpawnHasDisk, Alive
  <2>3. \A e \in Events : news[b][e] = 0
    BY <1>4 DEF AloneInv, LinkFits, UnusedAreDown
  <2>4. PairIsOfDisk'
    BY <1>1, <1>7, <2>3 DEF AloneInv, DiskFits, PairIsOfDisk, Events
  <2>5. OwnFits'
    BY <1>1 DEF AloneInv, DiskFits, OwnFits, Outstanding
  <2> QED
    BY <2>2, <2>4, <2>5 DEF DiskFits
<1> QED
  BY <1>9, <1>10, <1>11 DEF AloneInv

\* The handle is taken: its bot is stopping, and this command will say so.
LEMMA TakeAlone ==
    ASSUME SessionInv, AloneInv, OneAtATime, NEW t \in Tasks, take(t)
    PROVE  AloneInv'
<1>1. UNCHANGED <<connection, own_jid, raced, disk, link, news, opened>> /\ At(t, "take") /\ handle' = 0
  BY DEF take, publishedVars
<1>2. \A u \in Tasks \ {t} : task'[u] = task[u] /\ At(u, "idle")
  <2>1. \A u \in Tasks \ {t} : task'[u] = task[u]
    BY DEF take, SessionInv, TypeOK
  <2>2. \A u \in Tasks \ {t} : At(u, "idle")
    BY <1>1, OthersIdle DEF At
  <2> QED
    BY <2>1, <2>2
<1>3. ~Stopping(t) /\ ~At(t, "publish")
  BY <1>1 DEF Stopping, At
<1>4. \A b \in Bots : life[b] # "stopping"
  BY <1>2, <1>3 DEF AloneInv, CommandsFit, StoppingHasTask, Stopping, At
<1>5. CASE handle = 0
  <2>1. life' = life /\ At(t, "publish")'
    BY <1>5 DEF take, At, SessionInv, TypeOK
  <2>2. CommandsFit'
    BY <1>1, <1>2, <1>4, <2>1 DEF CommandsFit, TakenFirst, StoppingHasTask, TaskHasStopping, Stopping, At
  <2>3. LinkFits'
    BY <1>1, <2>1 DEF AloneInv, LinkFits, HeldRuns, UnusedAreDown, NewestIsAlone, LinkIsTold, StopIsTold
  <2>4. DiskFits'
    <3>1. SpawnHasDisk'
      BY <1>1, <1>2, <2>1 DEF SpawnHasDisk, At
    <3> QED
      BY <1>1, <2>1, <3>1 DEF AloneInv, DiskFits, DiskStays, PairIsOfDisk, OwnFits, Alive, Outstanding
  <2> QED
    BY <2>2, <2>3, <2>4 DEF AloneInv
<1>6. CASE handle # 0
  <2>1. handle \in Bots /\ life[handle] = "runs"
    BY <1>6, SessionAssumption DEF AloneInv, LinkFits, HeldRuns, SessionInv, TypeOK, Bots
  <2>2. life' = [life EXCEPT ![handle] = "stopping"]
    BY <1>6 DEF take
  <2>3. Stopping(t)' /\ task'[t].bot = handle
    BY <1>6 DEF take, Stopping, At, SessionInv, TypeOK
  <2>4. \A b \in Bots : b # handle => life'[b] = life[b]
    BY <2>1, <2>2 DEF SessionInv, TypeOK
  <2>5. life'[handle] = "stopping"
    BY <2>1, <2>2 DEF SessionInv, TypeOK
  <2>6. CommandsFit'
    <3>1. TakenFirst'
      BY <1>1 DEF TakenFirst
    <3>2. StoppingHasTask'
      BY <1>4, <2>3, <2>4 DEF StoppingHasTask
    <3>3. TaskHasStopping'
      BY <1>2, <2>1, <2>3, <2>5 DEF TaskHasStopping, Stopping, At
    <3> QED
      BY <3>1, <3>2, <3>3 DEF CommandsFit
  <2>7. LinkFits'
    BY <1>1, <2>3, <2>4, <2>5 DEF AloneInv, LinkFits, HeldRuns, UnusedAreDown, NewestIsAlone, LinkIsTold, StopIsTold
  <2>8. DiskFits'
    <3>1. \A b \in Bots : Alive(b)' => Alive(b)
      BY <2>1, <2>4 DEF Alive
    <3>2. SpawnHasDisk'
      BY <1>2, <2>3 DEF SpawnHasDisk, Stopping, At
    <3> QED
      BY <1>1, <3>1, <3>2 DEF AloneInv, DiskFits, DiskStays, PairIsOfDisk, OwnFits, Outstanding
  <2> QED
    BY <2>6, <2>7, <2>8 DEF AloneInv
<1> QED
  BY <1>5, <1>6

\* The device is unlinked: nothing is published of a bot that is stopping.
LEMMA LogoutAlone ==
    ASSUME SessionInv, AloneInv, OneAtATime, NEW t \in Tasks, client_logout(t)
    PROVE  AloneInv'
<1>1. UNCHANGED <<handle, connection, own_jid, raced, disk, life, news, opened>> /\ At(t, "logout")
  BY DEF client_logout, publishedVars
<1>2. handle = 0 /\ task[t].bot \in Bots /\ life[task[t].bot] = "stopping"
  BY <1>1 DEF AloneInv, CommandsFit, TakenFirst, TaskHasStopping, Waits, Stopping, At
<1>3. At(t, "stop")' /\ \A u \in Tasks \ {t} : task'[u] = task[u]
  BY TaskMoves DEF SessionInv, client_logout, Steps
<1>4. task'[t].bot = task[t].bot
  BY DEF client_logout, Goes, SessionInv, TypeOK
<1>5. link' = [link EXCEPT ![task[t].bot] = "out"]
  BY DEF client_logout
<1>6. \A u \in Tasks : (Stopping(u)' <=> Stopping(u)) /\ (~Waits(u)' => ~Waits(u)) /\ task'[u].bot = task[u].bot
  BY <1>1, <1>3, <1>4 DEF Stopping, Waits, At
<1>7. CommandsFit'
  BY <1>1, <1>6 DEF AloneInv, CommandsFit, TakenFirst, StoppingHasTask, TaskHasStopping
<1>8. LinkFits'
  <2>1. \A b \in Bots : life[b] = "unused" => link'[b] = link[b]
    BY <1>2, <1>5 DEF SessionInv, TypeOK
  <2>2. Stopping(t)'
    BY <1>3 DEF Stopping
  <2> QED
    BY <1>1, <1>2, <2>1, <2>2 DEF AloneInv, LinkFits, HeldRuns, UnusedAreDown, NewestIsAlone, LinkIsTold, StopIsTold
<1>9. DiskFits'
  <2>1. SpawnHasDisk'
    BY <1>1, <1>3 DEF AloneInv, DiskFits, SpawnHasDisk, At
  <2> QED
    BY <1>1, <2>1 DEF AloneInv, DiskFits, DiskStays, PairIsOfDisk, OwnFits, Alive, Outstanding
<1> QED
  BY <1>7, <1>8, <1>9 DEF AloneInv

\* The bot has stopped: none is left.
LEMMA StoppedAlone ==
    ASSUME SessionInv, AloneInv, OneAtATime, NEW t \in Tasks, stopped(t)
    PROVE  AloneInv'
<1>1. UNCHANGED <<handle, connection, own_jid, raced, disk, news, opened>> /\ At(t, "stop")
  BY DEF stopped, publishedVars
<1>2. handle = 0 /\ task[t].bot \in Bots /\ life[task[t].bot] = "stopping"
  BY <1>1 DEF AloneInv, CommandsFit, TakenFirst, TaskHasStopping, Waits, Stopping, At
<1>3. At(t, "publish")' /\ \A u \in Tasks \ {t} : task'[u] = task[u]
  BY StoppedMoves DEF SessionInv
<1>4. \A u \in Tasks \ {t} : At(u, "idle")
  BY <1>1, OthersIdle DEF At
<1>5. PICK b \in Bots : b = task[t].bot
  BY <1>2
<1>6. life' = [life EXCEPT ![b] = "gone"] /\ link' = [link EXCEPT ![b] = "down"]
  BY <1>5 DEF stopped
<1>7. \A c \in Bots : life'[c] # "stopping"
  BY <1>1, <1>4, <1>5, <1>6 DEF AloneInv, CommandsFit, StoppingHasTask, Stopping, At, SessionInv, TypeOK
<1>8. CommandsFit'
  BY <1>1, <1>2, <1>3, <1>4, <1>7 DEF CommandsFit, TakenFirst, StoppingHasTask, TaskHasStopping, Stopping, Waits, At
<1>9. LinkFits'
  <2>1. \A c \in Bots : life'[c] = "unused" => life[c] = "unused" /\ link'[c] = link[c]
    BY <1>2, <1>5, <1>6 DEF SessionInv, TypeOK
  <2> QED
    BY <1>1, <1>2, <1>3, <2>1 DEF AloneInv, LinkFits, HeldRuns, UnusedAreDown, NewestIsAlone, LinkIsTold, StopIsTold
<1>10. DiskFits'
  <2>1. \A c \in Bots : Alive(c)' => Alive(c)
    BY <1>2, <1>5, <1>6 DEF SessionInv, TypeOK, Alive
  <2>2. SpawnHasDisk'
    BY <1>1, <1>3, <1>4 DEF SpawnHasDisk, At
  <2> QED
    BY <1>1, <2>1, <2>2 DEF AloneInv, DiskFits, DiskStays, PairIsOfDisk, OwnFits, Outstanding
<1> QED
  BY <1>8, <1>9, <1>10 DEF AloneInv

\* Disconnected is published after the last bot.
LEMMA PublishAlone ==
    ASSUME SessionInv, AloneInv, OneAtATime, NEW t \in Tasks, publish(t)
    PROVE  AloneInv'
<1>1. UNCHANGED <<handle, disk, life, link, news, opened>> /\ At(t, "publish") /\ connection' = "disconnected"
  BY DEF publish, libraryVars
<1>2. handle = 0 /\ \A b \in Bots : ~Alive(b)
  BY <1>1, NoneLives DEF Waits, Stopping, At
<1>3. Goes(t, "connect") \/ Goes(t, "remove") \/ Ends(t)
  BY DEF publish
<1>4. \A u \in Tasks \ {t} : task'[u] = task[u] /\ At(u, "idle")
  BY <1>1, <1>3, TaskMoves, OthersIdle DEF SessionInv, Steps, At
<1>5. ~Stopping(t)'
  BY <1>3, TaskMoves DEF SessionInv, Steps, Stopping, At
<1>6. CommandsFit'
  BY <1>1, <1>2, <1>4, <1>5 DEF CommandsFit, TakenFirst, StoppingHasTask, TaskHasStopping, Stopping, At, Alive
<1>7. LinkFits'
  <2>1. "connection" \notin raced' => ~Outstanding("connection")
    BY PublishRaces DEF SessionInv
  <2>2. NewestIsAlone'
    BY <1>1, <2>1 DEF NewestIsAlone, Outstanding, Topic, LinkReports
  <2> QED
    BY <1>1, <1>2, <2>2 DEF AloneInv, LinkFits, HeldRuns, UnusedAreDown, LinkIsTold, StopIsTold
<1>8. DiskFits'
  <2>1. SpawnHasDisk'
    <3>1. ~At(t, "spawn")'
      BY <1>3, TaskMoves DEF SessionInv, Steps, At
    <3> QED
      BY <1>4, <3>1 DEF SpawnHasDisk, At
  <2>2. DiskStays'
    BY <1>1, <1>2 DEF DiskStays, Alive
  <2>3. \/ own_jid' = own_jid /\ ("jid" \in raced' <=> "jid" \in raced)
        \/ own_jid' = 0 /\ ("jid" \in raced' <=> Outstanding("jid"))
    <3>1. CASE task[t].op = "logout"
      <4>1. own_jid' = 0 /\ Says({"connection", "jid"})
        BY <3>1 DEF publish
      <4> QED
        BY <4>1, SaysRaces DEF SessionInv
    <3>2. CASE task[t].op # "logout"
      <4>1. own_jid' = own_jid /\ Says({"connection"})
        BY <3>2 DEF publish
      <4> QED
        BY <4>1, SaysRaces DEF SessionInv
    <3> QED
      BY <3>1, <3>2
  <2>4. PairIsOfDisk'
    BY <1>1, <2>3 DEF AloneInv, DiskFits, PairIsOfDisk, Outstanding, Topic, Events
  <2>5. OwnFits'
    BY <1>1, <2>3 DEF AloneInv, DiskFits, OwnFits, Outstanding
  <2> QED
    BY <2>1, <2>2, <2>4, <2>5 DEF DiskFits
<1> QED
  BY <1>6, <1>7, <1>8 DEF AloneInv

\* The directory is deleted while no bot lives, and the own JID with it.
LEMMA RemoveAlone ==
    ASSUME SessionInv, AloneInv, OneAtATime, NEW t \in Tasks, remove_session(t)
    PROVE  AloneInv'
<1>1. UNCHANGED <<handle, connection, life, link, news, opened>> /\ At(t, "remove")
  BY DEF remove_session, libraryVars
<1>2. handle = 0 /\ \A b \in Bots : ~Alive(b)
  BY <1>1, NoneLives DEF Waits, Stopping, At
<1>3. Goes(t, "connect") \/ Ends(t)
  BY DEF remove_session
<1>4. \A u \in Tasks \ {t} : task'[u] = task[u] /\ At(u, "idle")
  BY <1>1, <1>3, TaskMoves, OthersIdle DEF SessionInv, Steps, At
<1>5. ~Stopping(t)'
  BY <1>3, TaskMoves DEF SessionInv, Steps, Stopping, At
<1>6. CommandsFit'
  BY <1>1, <1>2, <1>4, <1>5 DEF CommandsFit, TakenFirst, StoppingHasTask, TaskHasStopping, Stopping, At, Alive
<1>7. connection = "connected" => "connection" \in raced
  <2>1. \A u \in Tasks : ~Stopping(u) /\ ~At(u, "publish")
    BY <1>1, <1>4 DEF Stopping, At
  <2> QED
    BY <1>2, <2>1 DEF AloneInv, LinkFits, StopIsTold
<1>8. UNCHANGED <<disk, own_jid, raced>> \/ (disk' = 0 /\ own_jid' = 0 /\ Says({"jid"}))
  BY DEF remove_session
<1>9. \/ UNCHANGED <<disk, own_jid>> /\ ("jid" \in raced' <=> "jid" \in raced)
      \/ disk' = 0 /\ own_jid' = 0 /\ ("jid" \in raced' <=> Outstanding("jid"))
  BY <1>8, SaysRaces DEF SessionInv
<1>10. "connection" \in raced' <=> "connection" \in raced
  BY <1>8, SaysRaces DEF SessionInv
<1>11. LinkFits'
  BY <1>1, <1>2, <1>7, <1>10 DEF AloneInv, LinkFits, HeldRuns, UnusedAreDown, NewestIsAlone, LinkIsTold, StopIsTold
<1>12. DiskFits'
  <2>1. SpawnHasDisk'
    <3>1. ~At(t, "spawn")'
      BY <1>3, TaskMoves DEF SessionInv, Steps, At
    <3> QED
      BY <1>4, <3>1 DEF SpawnHasDisk, At
  <2>2. DiskStays'
    BY <1>1, <1>2 DEF DiskStays, Alive
  <2>3. PairIsOfDisk'
    BY <1>1, <1>9 DEF AloneInv, DiskFits, PairIsOfDisk, Outstanding, Topic, Events
  <2>4. OwnFits'
    BY <1>1, <1>9 DEF AloneInv, DiskFits, OwnFits, Outstanding
  <2> QED
    BY <2>1, <2>2, <2>3, <2>4 DEF DiskFits
<1> QED
  BY <1>6, <1>11, <1>12 DEF AloneInv

\* The only living bot is the one in the client, if there is one.
LEMMA LivingIsHeld ==
    ASSUME SessionInv, AloneInv, NEW b \in Bots, handle # 0
    PROVE  /\ Alive(b) => handle = b
           /\ \A t \in Tasks : ~At(t, "publish")
           /\ handle \in Bots
<1>1. \A t \in Tasks : Waits(t)
  BY DEF AloneInv, CommandsFit, TakenFirst
<1>2. \A t \in Tasks : ~Stopping(t) /\ ~At(t, "publish")
  BY <1>1 DEF Waits, Stopping, At
<1>3. handle \in Bots
  BY SessionAssumption DEF SessionInv, TypeOK, Bots
<1> QED
  BY <1>2, <1>3, AliveHas

\* A report of the link: if it has not raced its handler is the only one, and tells what the link has become.
LEMMA LinkReportAlone ==
    ASSUME SessionInv, AloneInv, NEW b \in Bots, NEW e \in LinkReports, ReportStep(b, e)
    PROVE  AloneInv'
<1>1. /\ UNCHANGED <<handle, task, connection, own_jid, disk, life, opened>> /\ Alive(b) /\ Reports(b, e)
      /\ e \in Events /\ e # "PairSuccess" /\ TypeOK
  BY DEF ReportStep, KeepsClient, LinkReports, SessionInv
<1>2. /\ "jid" \in raced' <=> "jid" \in raced
      /\ "connection" \in raced' <=> Outstanding("connection")
  BY <1>1, ReportRaces
<1>3. /\ \A c \in Bots, f \in Events : c # b \/ f # e => news'[c][f] = news[c][f]
      /\ news'[b][e] = news[b][e] + 1
  BY <1>1, NewsMoves
<1>4. \A c \in Bots, f \in Events : news[c][f] \in Nat
  BY <1>1, SessionAssumption DEF TypeOK
<1>5. /\ link' \in [Bots -> {"down", "up", "out"}] /\ (e = "Connected" <=> link'[b] = "up")
      /\ \A c \in Bots \ {b} : link'[c] = link[c]
  BY <1>1 DEF ReportStep, LinkAfter, TypeOK, Events
<1>6. "connection" \notin raced' => \A c \in Bots, f \in LinkReports : news[c][f] = 0
  BY <1>2, <1>4 DEF Outstanding, Topic, LinkReports
<1>7. CommandsFit'
  BY <1>1 DEF AloneInv, CommandsFit, TakenFirst, StoppingHasTask, TaskHasStopping, Stopping, Waits, At
<1>8. HeldRuns' /\ UnusedAreDown'
  BY <1>1, <1>3, <1>5 DEF AloneInv, LinkFits, HeldRuns, UnusedAreDown, Alive
<1>9. NewestIsAlone'
  BY <1>1, <1>3, <1>6 DEF NewestIsAlone, LinkReports
<1>10. LinkIsTold'
  <2> SUFFICES ASSUME handle # 0, "connection" \notin raced'
               PROVE  /\ Outstanding("connection")'
                      /\ \A f \in LinkReports : news'[handle][f] > 0 => (f = "Connected" <=> link'[handle] = "up")
    BY <1>1 DEF LinkIsTold
  <2>1. handle = b
    BY <1>1, LivingIsHeld
  <2>2. news'[b][e] > 0
    BY <1>1, <1>3, <1>4
  <2>3. Outstanding("connection")'
    BY <1>1, <2>2 DEF Outstanding, Topic
  <2>4. \A f \in LinkReports : news'[b][f] > 0 => f = e
    BY <1>3, <1>6 DEF LinkReports
  <2> QED
    BY <1>5, <2>1, <2>3, <2>4
<1>11. StopIsTold'
  <2>1. handle = 0 => \E t \in Tasks : Stopping(t)
    BY <1>1, AliveHas, SessionAssumption DEF Bots
  <2> QED
    BY <1>1, <2>1 DEF StopIsTold, Stopping, At
<1>12. DiskFits'
  <2>1. \A c \in Bots : news'[c]["PairSuccess"] = news[c]["PairSuccess"]
    BY <1>1, <1>3 DEF Events
  <2>2. Outstanding("jid")' <=> Outstanding("jid")
    BY <2>1 DEF Outstanding, Topic, Events
  <2>3. DiskStays' /\ SpawnHasDisk'
    BY <1>1 DEF AloneInv, DiskFits, DiskStays, SpawnHasDisk, Alive, At
  <2>4. PairIsOfDisk' /\ OwnFits'
    BY <1>1, <1>2, <2>1, <2>2 DEF AloneInv, DiskFits, PairIsOfDisk, OwnFits
  <2> QED
    BY <2>3, <2>4 DEF DiskFits
<1> QED
  BY <1>7, <1>8, <1>9, <1>10, <1>11, <1>12 DEF AloneInv, LinkFits

\* What is outstanding of the link, and what is said of it, stays.
LEMMA LinkStays ==
    ASSUME SessionInv, AloneInv, UNCHANGED <<handle, task, connection, life, link>>,
           "connection" \in raced' <=> "connection" \in raced,
           \A c \in Bots, f \in LinkReports : news'[c][f] = news[c][f],
           UnusedAreDown'
    PROVE  LinkFits'
<1>1. Outstanding("connection")' <=> Outstanding("connection")
  BY DEF Outstanding, Topic, LinkReports
<1>2. HeldRuns' /\ NewestIsAlone' /\ StopIsTold'
  BY DEF AloneInv, LinkFits, HeldRuns, NewestIsAlone, StopIsTold, Stopping, At
<1>3. LinkIsTold'
  <2>1. handle # 0 => handle \in Bots
    BY SessionAssumption DEF SessionInv, TypeOK, Bots
  <2> QED
    BY <1>1, <2>1 DEF AloneInv, LinkFits, LinkIsTold
<1> QED
  BY <1>2, <1>3 DEF LinkFits

\* A pairing: if it has not raced its handler is the only one, and the session is the one on disk.
LEMMA PairReportAlone ==
    ASSUME SessionInv, AloneInv, NEW b \in Bots, ReportStep(b, "PairSuccess")
    PROVE  AloneInv'
<1>1. /\ UNCHANGED <<handle, task, connection, own_jid, disk, life, link, opened>> /\ Alive(b) /\ Reports(b, "PairSuccess")
      /\ "PairSuccess" \in Events /\ TypeOK
  BY DEF ReportStep, KeepsClient, LinkAfter, Events, SessionInv
<1>2. /\ "jid" \in raced' <=> Outstanding("jid")
      /\ "connection" \in raced' <=> "connection" \in raced
  BY <1>1, ReportRaces
<1>3. /\ \A c \in Bots, f \in Events : c # b \/ f # "PairSuccess" => news'[c][f] = news[c][f]
      /\ news'[b]["PairSuccess"] = news[b]["PairSuccess"] + 1
  BY <1>1, NewsMoves
<1>4. news[b]["PairSuccess"] \in Nat
  BY <1>1, SessionAssumption DEF TypeOK
<1>5. CommandsFit'
  BY <1>1 DEF AloneInv, CommandsFit, TakenFirst, StoppingHasTask, TaskHasStopping, Stopping, Waits, At
<1>6. UnusedAreDown'
  BY <1>1, <1>3 DEF AloneInv, LinkFits, UnusedAreDown, Alive
<1>7. LinkFits'
  BY <1>1, <1>2, <1>3, <1>6, LinkStays DEF LinkReports
<1>8. DiskStays' /\ SpawnHasDisk'
  BY <1>1 DEF AloneInv, DiskFits, DiskStays, SpawnHasDisk, Alive, At
<1>9. PairIsOfDisk'
  <2>1. "jid" \notin raced' => \A c \in Bots \ {b} : ~(news'[c]["PairSuccess"] > 0)
    BY <1>1, <1>2, <1>3 DEF Outstanding, Topic
  <2>2. opened[b] = disk /\ disk # 0
    BY <1>1 DEF AloneInv, DiskFits, DiskStays
  <2> QED
    BY <1>1, <2>1, <2>2 DEF PairIsOfDisk
<1>10. OwnFits'
  <2>1. news'[b]["PairSuccess"] > 0
    BY <1>3, <1>4
  <2>2. Outstanding("jid")'
    BY <1>1, <2>1 DEF Outstanding, Topic
  <2> QED
    BY <2>2 DEF OwnFits
<1> QED
  BY <1>5, <1>7, <1>8, <1>9, <1>10 DEF AloneInv, DiskFits

\* The handler of a link report publishes what the link is, if the report has not raced.
LEMMA LinkHandlerAlone ==
    ASSUME SessionInv, AloneInv, NEW b \in Bots, NEW e \in LinkReports, HandlerStep(b, e)
    PROVE  AloneInv'
<1>1. /\ UNCHANGED <<handle, task, own_jid, raced, disk, life, link, opened>> /\ Handled(b, e)
      /\ e \in Events /\ e # "PairSuccess" /\ TypeOK
      /\ connection' = IF e = "Connected" THEN "connected" ELSE "disconnected"
  BY DEF HandlerStep, KeepsBots, LinkReports, SessionInv
<1>2. /\ \A c \in Bots, f \in Events : c # b \/ f # e => news'[c][f] = news[c][f]
      /\ news[b][e] > 0 /\ news'[b][e] = news[b][e] - 1
  BY <1>1, NewsMoves
<1>3. \A c \in Bots, f \in Events : news[c][f] \in Nat
  BY <1>1, SessionAssumption DEF TypeOK
<1>4. Alive(b) \/ "connection" \in raced \/ \E t \in Tasks : At(t, "publish")
  BY <1>1, <1>2 DEF SessionInv, NewsIsOfTheLiving
<1>5. \A c \in Bots, f \in Events : news'[c][f] > 0 => news[c][f] > 0 /\ news'[c][f] <= news[c][f]
  BY <1>2, <1>3
<1>6. CommandsFit'
  BY <1>1 DEF AloneInv, CommandsFit, TakenFirst, StoppingHasTask, TaskHasStopping, Stopping, Waits, At
<1>7. HeldRuns' /\ UnusedAreDown'
  <2>1. life[b] # "unused"
    BY <1>1, <1>2, <1>3 DEF AloneInv, LinkFits, UnusedAreDown
  <2> QED
    BY <1>1, <1>2, <2>1 DEF AloneInv, LinkFits, HeldRuns, UnusedAreDown
<1>8. "connection" \notin raced => \A c \in Bots, f \in LinkReports : ~(news'[c][f] > 0)
  <2> SUFFICES ASSUME "connection" \notin raced, NEW c \in Bots, NEW f \in LinkReports, news'[c][f] > 0 PROVE FALSE
    OBVIOUS
  <2>1. news[c][f] > 0 /\ f \in Events
    BY <1>5 DEF LinkReports
  <2>2. c = b /\ f = e /\ news[b][e] = 1
    BY <1>1, <1>2, <2>1 DEF AloneInv, LinkFits, NewestIsAlone
  <2> QED
    BY <1>2, <2>2
<1>9. NewestIsAlone'
  BY <1>1, <1>8 DEF NewestIsAlone
<1>10. LinkIsTold'
  <2> SUFFICES ASSUME handle # 0, "connection" \notin raced
               PROVE  /\ connection' = "connected" <=> link[handle] = "up"
                      /\ \A f \in LinkReports : ~(news'[handle][f] > 0)
    BY <1>1 DEF LinkIsTold
  <2>1. handle = b
    BY <1>4, LivingIsHeld
  <2>2. e = "Connected" <=> link[b] = "up"
    BY <1>1, <1>2, <2>1 DEF AloneInv, LinkFits, LinkIsTold
  <2> QED
    BY <1>1, <1>8, <2>1, <2>2
<1>11. StopIsTold'
  <2>1. handle = 0 /\ Alive(b) => \E t \in Tasks : Stopping(t)
    BY <1>1, AliveHas, SessionAssumption DEF Bots
  <2> QED
    BY <1>1, <1>4, <2>1 DEF StopIsTold, Stopping, At
<1>12. DiskFits'
  <2>1. \A c \in Bots : news'[c]["PairSuccess"] = news[c]["PairSuccess"]
    BY <1>1, <1>2 DEF Events
  <2>2. Outstanding("jid")' <=> Outstanding("jid")
    BY <2>1 DEF Outstanding, Topic, Events
  <2>3. DiskStays' /\ SpawnHasDisk'
    BY <1>1 DEF AloneInv, DiskFits, DiskStays, SpawnHasDisk, Alive, At
  <2>4. PairIsOfDisk' /\ OwnFits'
    BY <1>1, <2>1, <2>2 DEF AloneInv, DiskFits, PairIsOfDisk, OwnFits
  <2> QED
    BY <2>3, <2>4 DEF DiskFits
<1> QED
  BY <1>6, <1>7, <1>9, <1>10, <1>11, <1>12 DEF AloneInv, LinkFits

\* The handler of a pairing: the JID is of the session on disk, if the pairing has not raced.
LEMMA PairHandlerAlone ==
    ASSUME SessionInv, AloneInv, NEW b \in Bots, HandlerStep(b, "PairSuccess")
    PROVE  AloneInv'
<1>1. /\ UNCHANGED <<handle, task, connection, raced, disk, life, link, opened>> /\ Handled(b, "PairSuccess")
      /\ "PairSuccess" \in Events /\ TypeOK /\ own_jid' = opened[b]
  BY DEF HandlerStep, KeepsBots, Events, SessionInv
<1>2. /\ \A c \in Bots, f \in Events : c # b \/ f # "PairSuccess" => news'[c][f] = news[c][f]
      /\ news[b]["PairSuccess"] > 0 /\ news'[b]["PairSuccess"] = news[b]["PairSuccess"] - 1
  BY <1>1, NewsMoves
<1>3. \A c \in Bots, f \in Events : news[c][f] \in Nat
  BY <1>1, SessionAssumption DEF TypeOK
<1>4. CommandsFit'
  BY <1>1 DEF AloneInv, CommandsFit, TakenFirst, StoppingHasTask, TaskHasStopping, Stopping, Waits, At
<1>5. UnusedAreDown'
  <2>1. life[b] # "unused"
    BY <1>1, <1>2, <1>3 DEF AloneInv, LinkFits, UnusedAreDown
  <2> QED
    BY <1>1, <1>2, <2>1 DEF AloneInv, LinkFits, UnusedAreDown
<1>6. LinkFits'
  BY <1>1, <1>2, <1>5, LinkStays DEF LinkReports
<1>7. DiskStays' /\ SpawnHasDisk'
  BY <1>1 DEF AloneInv, DiskFits, DiskStays, SpawnHasDisk, Alive, At
<1>8. PairIsOfDisk'
  <2>1. \A c \in Bots : news'[c]["PairSuccess"] > 0 => news[c]["PairSuccess"] > 0
    BY <1>1, <1>2, <1>3
  <2> QED
    BY <1>1, <2>1 DEF AloneInv, DiskFits, PairIsOfDisk
<1>9. OwnFits'
  <2>1. "jid" \notin raced => opened[b] = disk
    BY <1>2 DEF AloneInv, DiskFits, PairIsOfDisk
  <2> QED
    BY <1>1, <2>1 DEF OwnFits
<1> QED
  BY <1>4, <1>6, <1>7, <1>8, <1>9 DEF AloneInv, DiskFits

\* Reports, their handlers and the replay.
LEMMA BotAlone ==
    ASSUME SessionInv, AloneInv, NEW b \in Bots, BotStep(b) \/ full_sync(b)
    PROVE  AloneInv'
<1>1. CASE BotStep(b)
  <2>1. PICK e \in Events : ReportStep(b, e) \/ HandlerStep(b, e)
    BY <1>1, BotStepIs DEF SessionInv
  <2>2. CASE e = "PairSuccess"
    BY <2>1, <2>2, PairReportAlone, PairHandlerAlone
  <2>3. CASE e # "PairSuccess"
    BY <2>1, <2>3, LinkReportAlone, LinkHandlerAlone DEF LinkReports
  <2> QED
    BY <2>2, <2>3
<1>2. CASE full_sync(b)
  <2>1. UNCHANGED <<handle, publishedVars, disk, life, link, news, opened, task>>
    BY <1>2 DEF full_sync, libraryVars
  <2>2. CommandsFit' /\ StopIsTold' /\ SpawnHasDisk'
    BY <2>1 DEF AloneInv, LinkFits, DiskFits, CommandsFit, TakenFirst, StoppingHasTask, TaskHasStopping, StopIsTold,
           SpawnHasDisk, Stopping, Waits, At, publishedVars
  <2> QED
    BY <2>1, <2>2, FitsStay
<1> QED
  BY <1>1, <1>2

\* Every step that leaves at most one command under way keeps the invariant.
LEMMA AloneStep ==
    ASSUME SessionInv, AloneInv, OneAtATime, Next
    PROVE  AloneInv'
<1>1. ASSUME NEW t \in Tasks, TaskStep(t) PROVE AloneInv'
  BY <1>1, ConnectAlone, OpenAlone, FailAlone, SpawnAlone, TakeAlone, LogoutAlone, StoppedAlone, PublishAlone, RemoveAlone
     DEF TaskStep
<1> QED
  BY <1>1, CommandAlone, BotAlone DEF Next

\* What the run calls alone.
AloneKept == alone => OneAtATime /\ AloneInv

\* A run of the model is a behavior of the session, and what is alone stays alone.
LEMMA AloneKeptHolds == MCSpec => [](SessionInv /\ AloneKept)
<1>1. MCInit => SessionInv /\ AloneKept
  <2> SUFFICES ASSUME MCInit PROVE SessionInv /\ AloneKept
    OBVIOUS
  <2>1. Init
    BY DEF MCInit
  <2>2. SessionInv
    BY <2>1, InitFits
  <2>3. \A t \in Tasks : At(t, "idle")
    BY <2>1 DEF Init, At, Idle
  <2>4. handle = 0 /\ connection = "disconnected" /\ own_jid = 0 /\ raced = {}
    BY <2>1 DEF Init
  <2>5. \A b \in Bots : life[b] = "unused" /\ link[b] = "down" /\ \A e \in Events : news[b][e] = 0
    BY <2>1 DEF Init
  <2>6. OneAtATime /\ CommandsFit
    BY <2>3, <2>5 DEF OneAtATime, CommandsFit, TakenFirst, StoppingHasTask, TaskHasStopping, Waits, Stopping, At
  <2>7. LinkFits
    BY <2>4, <2>5 DEF LinkFits, HeldRuns, UnusedAreDown, NewestIsAlone, LinkReports, LinkIsTold, StopIsTold
  <2>8. DiskFits
    <3>1. PairIsOfDisk
      BY <2>5 DEF PairIsOfDisk, Events
    <3> QED
      BY <2>3, <2>4, <2>5, <3>1 DEF DiskFits, DiskStays, SpawnHasDisk, OwnFits, Alive, At
  <2> QED
    BY <2>2, <2>6, <2>7, <2>8 DEF AloneKept, AloneInv
<1>2. SessionInv /\ AloneKept /\ [MCNext]_<<vars, alone>> => (SessionInv /\ AloneKept)'
  <2>1. ASSUME SessionInv, AloneKept, MCNext PROVE SessionInv' /\ AloneKept'
    <3>1. Next /\ alone' = alone /\ (alone => OneAtATime')
      BY <2>1 DEF MCNext
    <3>2. SessionInv'
      BY <2>1, <3>1, SessionInvStep
    <3>3. alone => AloneInv'
      BY <2>1, <3>1, AloneStep DEF AloneKept
    <3> QED
      BY <3>1, <3>2, <3>3 DEF AloneKept
  <2>2. ASSUME SessionInv, AloneKept, UNCHANGED <<vars, alone>> PROVE SessionInv' /\ AloneKept'
    <3>1. SessionInv'
      BY <2>2, SessionInvStep
    <3>2. OneAtATime' <=> OneAtATime
      BY <2>2 DEF vars, OneAtATime, At
    <3>3. CommandsFit' <=> CommandsFit
      BY <2>2 DEF vars, CommandsFit, TakenFirst, StoppingHasTask, TaskHasStopping, Waits, Stopping, At
    <3>4. LinkFits' <=> LinkFits
      BY <2>2 DEF vars, LinkFits, HeldRuns, UnusedAreDown, NewestIsAlone, LinkIsTold, StopIsTold, Stopping, At, Outstanding
    <3>5. DiskFits' <=> DiskFits
      BY <2>2 DEF vars, DiskFits, DiskStays, SpawnHasDisk, PairIsOfDisk, OwnFits, Alive, At, Outstanding
    <3> QED
      BY <2>2, <3>1, <3>2, <3>3, <3>4, <3>5 DEF AloneKept, AloneInv
  <2> QED
    BY <2>1, <2>2
<1> QED
  BY <1>1, <1>2, PTL DEF MCSpec

\* While commands run one after the other, what is published fits the link of the bot in the client once all is handled
\* in the order of the words, whatever handlers did before; no bot's session is deleted under it; and the own JID is of
\* the session on disk.
THEOREM AloneFitsHolds == MCSpec => []AloneFits
<1>1. SessionInv /\ AloneKept => AloneFits
  <2> SUFFICES ASSUME SessionInv, AloneInv PROVE StateFits /\ SessionStays /\ OwnIsCurrent
    BY DEF AloneKept, AloneFits
  <2>1. ASSUME Quiet("connection") PROVE connection = "connected" <=> handle # 0 /\ link[handle] = "up"
    <3>1. CASE handle = 0
      BY <2>1, <3>1 DEF AloneInv, LinkFits, StopIsTold, Quiet, Stopping, At
    <3>2. CASE handle # 0
      BY <2>1, <3>2 DEF AloneInv, LinkFits, LinkIsTold, Quiet
    <3> QED
      BY <3>1, <3>2
  <2>2. SessionStays /\ OwnIsCurrent
    BY DEF AloneInv, DiskFits, DiskStays, OwnFits, SessionStays, OwnIsCurrent, Quiet
  <2> QED
    BY <2>1, <2>2 DEF StateFits
<1> QED
  BY <1>1, AloneKeptHolds, PTL
=============================================================================
