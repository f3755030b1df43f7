--------------------------- MODULE CallManagerProofs ---------------------------
(***************************************************************************)
(* Theorems about CallManager for every set of calls, chats and tasks and  *)
(* any number of connects: its registries, what it publishes of a call,    *)
(* that it implements CallLife, that ends are told and audio is dropped by *)
(* one holder.                                                             *)
(***************************************************************************)
EXTENDS CallManager, SequenceTheorems, TLAPS

-----------------------------------------------------------------------------
(* The audio engine alone: any set of chats, any number of streams. *)

(***************************************************************************)
(* UnstoppedIsRegistered is not inductive alone: a teardown must not meet  *)
(* a registry that names an entry under a chat that is not its own, and    *)
(* whether an entry is open is then told by its stage.                     *)
(***************************************************************************)
Staged(a) == stage[a] \in {"registered", "running"}

UsedHaveChats == \A a \in Streams : stage[a] # "unused" => chat[a] \in Chats
StagedAreRegistered == \A a \in Streams : Staged(a) /\ a \notin stop => calls[chat[a]] = a

RegistryInv == MediaTypeOK /\ UsedHaveChats /\ RegisteredHaveOwners /\ StagedAreRegistered

LEMMA NoneIsNoStream == None \notin Streams /\ None \notin Chats
BY MediaAssumption DEF Streams

\* An entry that is open is one whose media() call or playback worker is there.
LEMMA OpenIsStaged ==
    ASSUME MediaTypeOK, RegisteredHaveOwners, NEW a \in Streams
    PROVE  Open(a) <=> Staged(a)
BY NoneIsNoStream DEF MediaTypeOK, RegisteredHaveOwners, Open, InMedia, Staged

LEMMA RegistryStart == MediaInit => RegistryInv
BY SMT DEF MediaInit, RegistryInv, MediaTypeOK, UsedHaveChats, RegisteredHaveOwners, StagedAreRegistered, Staged, Stages

\* Registering an entry.
LEMMA RegisterKeeps ==
    ASSUME RegistryInv, NEW a \in Streams, NEW c \in Chats, register(a, c)
    PROVE  RegistryInv'
<1> USE DEF RegistryInv
<1>1. MediaTypeOK'
  BY DEF register, MediaTypeOK, Stages
<1>2. UsedHaveChats'
  BY DEF register, MediaTypeOK, UsedHaveChats
<1>3. RegisteredHaveOwners'
  BY NoneIsNoStream DEF register, MediaTypeOK, RegisteredHaveOwners
<1>4. StagedAreRegistered'
  <2> SUFFICES ASSUME NEW b \in Streams, Staged(b)', b \notin stop'
               PROVE  calls'[chat'[b]] = b
    BY DEF StagedAreRegistered
  <2>1. CASE b = a
    BY <2>1 DEF register, MediaTypeOK
  <2>2. CASE b # a
    <3>1. Staged(b) /\ b \notin stop /\ chat'[b] = chat[b]
      BY <2>2 DEF register, MediaTypeOK, Staged
    <3>2. calls[chat[b]] = b /\ chat[b] \in Chats
      BY <3>1 DEF StagedAreRegistered, UsedHaveChats, Staged
    <3>3. chat[b] # c
      BY <3>2, NoneIsNoStream DEF register
    <3>. QED  BY <3>1, <3>2, <3>3 DEF register, MediaTypeOK
  <2>. QED  BY <2>1, <2>2
<1>. QED  BY <1>1, <1>2, <1>3, <1>4

\* The end of an entry, whoever notices it: it is told to stop, it leaves the registry
\* if the registry still names it, and it is over.
LEMMA TeardownKeeps ==
    ASSUME RegistryInv, NEW a \in Streams, Staged(a),
           stop_and_remove(a), stage' = [stage EXCEPT ![a] = "over"], UNCHANGED chat,
           capture' \in SUBSET Streams, ends' \in SUBSET Streams
    PROVE  RegistryInv'
<1> USE DEF RegistryInv
<1>1. MediaTypeOK'
  BY DEF stop_and_remove, MediaTypeOK, Stages
<1>2. UsedHaveChats'
  BY DEF MediaTypeOK, UsedHaveChats, Staged
<1>3. RegisteredHaveOwners'
  BY NoneIsNoStream DEF stop_and_remove, MediaTypeOK, RegisteredHaveOwners
<1>4. StagedAreRegistered'
  <2> SUFFICES ASSUME NEW b \in Streams, Staged(b)', b \notin stop'
               PROVE  calls'[chat'[b]] = b
    BY DEF StagedAreRegistered
  <2>1. b # a /\ Staged(b) /\ b \notin stop
    BY DEF stop_and_remove, MediaTypeOK, Staged
  <2>2. calls[chat[b]] = b /\ chat[b] \in Chats
    BY <2>1 DEF StagedAreRegistered, UsedHaveChats, Staged
  <2>. QED  BY <2>1, <2>2 DEF stop_and_remove, MediaTypeOK
<1>. QED  BY <1>1, <1>2, <1>3, <1>4

\* Steps that leave the registry alone: streams that start, ends that are dropped and
\* capture workers that end.
LEMMA RegistryUntouched ==
    ASSUME RegistryInv, UNCHANGED <<calls, chat, stop>>,
           stage' \in [Streams -> Stages],
           \A b \in Streams : (Staged(b)' <=> Staged(b)) /\ (stage'[b] = "unused" <=> stage[b] = "unused"),
           capture' \in SUBSET Streams, ends' \in SUBSET Streams
    PROVE  RegistryInv'
<1> USE DEF RegistryInv
<1>1. MediaTypeOK'
  BY DEF MediaTypeOK
<1>2. UsedHaveChats'
  BY DEF UsedHaveChats
<1>3. RegisteredHaveOwners'
  BY NoneIsNoStream DEF RegisteredHaveOwners, Staged, MediaTypeOK
<1>4. StagedAreRegistered'
  BY DEF StagedAreRegistered, Staged
<1>. QED  BY <1>1, <1>2, <1>3, <1>4

LEMMA MediaStepKeeps == RegistryInv /\ [MediaNext]_mediaVars => RegistryInv'
<1> SUFFICES ASSUME RegistryInv, [MediaNext]_mediaVars PROVE RegistryInv'
  OBVIOUS
<1>1. ASSUME NEW a \in Streams, NEW c \in Chats, register(a, c) PROVE RegistryInv'
  BY <1>1, RegisterKeeps
<1>2. ASSUME NEW a \in Streams, media_fails(a) PROVE RegistryInv'
  <2>1. capture' \in SUBSET Streams /\ ends' \in SUBSET Streams
    BY <1>2 DEF media_fails, RegistryInv, MediaTypeOK
  <2>. QED  BY <1>2, <2>1, TeardownKeeps DEF media_fails, InMedia, Staged
<1>3. ASSUME NEW a \in Streams, media_starts(a) PROVE RegistryInv'
  <2>1. capture' \in SUBSET Streams /\ ends' \in SUBSET Streams /\ stage' \in [Streams -> Stages]
    BY <1>3 DEF media_starts, RegistryInv, MediaTypeOK, Stages
  <2>2. \A b \in Streams : (Staged(b)' <=> Staged(b)) /\ (stage'[b] = "unused" <=> stage[b] = "unused")
    BY <1>3 DEF media_starts, RegistryInv, MediaTypeOK, InMedia, Staged
  <2>. QED  BY <1>3, <2>1, <2>2, RegistryUntouched DEF media_starts
<1>4. ASSUME NEW a \in Streams, drop_ends(a) \/ run_capture(a) PROVE RegistryInv'
  <2>1. capture' \in SUBSET Streams /\ ends' \in SUBSET Streams /\ stage' \in [Streams -> Stages]
    BY <1>4 DEF drop_ends, run_capture, RegistryInv, MediaTypeOK
  <2>2. \A b \in Streams : (Staged(b)' <=> Staged(b)) /\ (stage'[b] = "unused" <=> stage[b] = "unused")
    BY <1>4 DEF drop_ends, run_capture, Staged
  <2>. QED  BY <1>4, <2>1, <2>2, RegistryUntouched DEF drop_ends, run_capture
<1>5. ASSUME NEW a \in Streams, run_playback(a) PROVE RegistryInv'
  <2>1. capture' \in SUBSET Streams /\ ends' \in SUBSET Streams
    BY <1>5 DEF run_playback, RegistryInv, MediaTypeOK
  <2>. QED  BY <1>5, <2>1, TeardownKeeps DEF run_playback, Staged
<1>6. CASE UNCHANGED mediaVars
  <2>1. capture' \in SUBSET Streams /\ ends' \in SUBSET Streams /\ stage' \in [Streams -> Stages]
    BY <1>6 DEF mediaVars, RegistryInv, MediaTypeOK
  <2>2. \A b \in Streams : (Staged(b)' <=> Staged(b)) /\ (stage'[b] = "unused" <=> stage[b] = "unused")
    BY <1>6 DEF mediaVars, Staged
  <2>. QED  BY <1>6, <2>1, <2>2, RegistryUntouched DEF mediaVars
<1>. QED  BY <1>1, <1>2, <1>3, <1>4, <1>5, <1>6 DEF MediaNext

LEMMA RegistryTells ==
    RegistryInv => MediaTypeOK /\ UnstoppedIsRegistered /\ RegisteredHaveOwners /\ OneVoicePerChat
<1> SUFFICES ASSUME RegistryInv
             PROVE  UnstoppedIsRegistered /\ OneVoicePerChat
  BY DEF RegistryInv
<1>1. \A a \in Streams : Open(a) => Staged(a)
  BY OpenIsStaged DEF RegistryInv
<1>2. UnstoppedIsRegistered
  BY <1>1 DEF RegistryInv, StagedAreRegistered, UnstoppedIsRegistered
<1>3. OneVoicePerChat
  BY <1>2 DEF UnstoppedIsRegistered, OneVoicePerChat
<1>. QED  BY <1>2, <1>3

\* The registry of call_media.rs: whatever media() calls, teardowns and workers of any
\* chats do in any order, an entry that is open and was not told to stop is the one its
\* chat finds, so that no two unstopped streams of a chat play at a time.
THEOREM RegistryHolds == MediaSpec => [](RegistryIsSound /\ OneVoicePerChat)
<1>1. RegistryInv => RegistryIsSound /\ OneVoicePerChat
  BY RegistryTells DEF RegistryIsSound
<1>. QED  BY RegistryStart, MediaStepKeeps, <1>1, PTL DEF MediaSpec

-----------------------------------------------------------------------------
(* The call manager *)

Refers(t) == task[t].op \in {"answer", "reject"}

ManagerTypeOK ==
    /\ slot \in 0..MaxManagers
    /\ active \in [Managers -> [Chats -> Calls \cup {None}]]
    /\ ringing \in [Managers -> SUBSET Incoming]
    /\ task \in [Tasks -> Task]
    /\ server \in [Calls -> {"unknown", "ringing", "live", "over"}]
    /\ owner \in [Calls -> 0..MaxManagers]
    /\ watched \in SUBSET Calls
    /\ stream \in [Calls -> Streams \cup {None}]
    /\ phase \in [Calls -> Update \cup {"new"}]
    /\ news \in [Calls -> SUBSET {"offer", "end"}]
    /\ raced \in SUBSET Incoming

\* What the commands under way have checked.
CommandsKnow ==
    \A t \in Tasks :
       /\ SetsUp(t) => task[t].chat \in Chats /\ task[t].mgr \in Managers
       /\ Refers(t) => /\ task[t].call \in Incoming
                       /\ task[t].mgr \in Managers
                       /\ server[task[t].call] # "unknown"
                       /\ phase[task[t].call] # "new" /\ "offer" \notin news[task[t].call]
                       /\ \A m \in Managers : task[t].call \in ringing[m] => m = task[t].mgr
       /\ task[t].op = "hangup" => task[t].call \in Calls /\ owner[task[t].call] # 0

\* What was published of a call, and where it is kept, by how far it is.
PhasesFit ==
    \A k \in Calls :
       /\ server[k] = "unknown" => /\ phase[k] = "new" /\ owner[k] = 0 /\ news[k] = {}
                                   /\ \A m \in Managers : k \notin ringing[m]
       /\ server[k] # "unknown" /\ owner[k] = 0 => phase[k] \in {"new", "ringing", "gone"}
       /\ server[k] = "ringing" => phase[k] # "gone" /\ owner[k] = 0
       /\ server[k] = "live" => owner[k] # 0
       /\ k \in watched => owner[k] # 0 /\ (phase[k] = "up" \/ (phase[k] = "gone" /\ k \in raced))
       /\ owner[k] # 0 => phase[k] # "new" /\ \A m \in Managers : k \notin ringing[m]

\* What the handlers to come will find: the one of an offer, nothing of it but the news that it is over;
\* the one of an end, no end that was told before.  Two that are outstanding at a time have crossed.
HandlersKnow ==
    \A k \in Calls :
       /\ "offer" \in news[k] => /\ k \in Incoming /\ slot # 0 /\ owner[k] = 0
                                 /\ phase[k] = "new" \/ (phase[k] = "gone" /\ k \in raced)
                                 /\ server[k] = "over" => k \in raced
                                 /\ \A m \in Managers : k \notin ringing[m]
       /\ "end" \in news[k] => /\ k \in Incoming /\ slot # 0 /\ phase[k] # "gone"
                               /\ owner[k] # 0 => k \in raced
       /\ "end" \in news[k] => server[k] \in {"over", "live"}

\* An offer rings at the manager it came to, which was the one in the slot.
RingsOnce ==
    /\ \A k \in Calls : \A m, n \in Managers : k \in ringing[m] /\ k \in ringing[n] => m = n
    /\ \A m \in Managers : m > slot => ringing[m] = {}

\* The last two parts are what the theorems are about.  RingingIsCurrent needs to know that a
\* manager that is no longer in the slot cannot answer an offer of the one that is (RingsOnce,
\* CommandsKnow), and that a handler still to come finds no entry of its call but its own
\* (HandlersKnow); ActiveAreWatched, that a call is set up once (PhasesFit).
ManagerInv ==
    /\ ManagerTypeOK
    /\ CommandsKnow /\ PhasesFit /\ HandlersKnow /\ RingsOnce
    /\ RingingIsCurrent /\ RingingIsOffered /\ ActiveAreWatched

CallInv == RegistryInv /\ ManagerInv

LEMMA NoneApart == None \notin Chats /\ None \notin Streams /\ None \notin Calls
BY MediaAssumption, ManagerAssumption DEF Streams

LEMMA ManagersArePositive == \A m \in Managers : m \in Nat /\ m # 0 /\ m \in 0..MaxManagers
BY ManagerAssumption DEF Managers

LEMMA SlotIsManager == ManagerTypeOK /\ slot # 0 => slot \in Managers
BY ManagerAssumption DEF ManagerTypeOK, Managers

\* Whatever the bus does, the update is the last one published of its call.
LEMMA PublishTells ==
    ASSUME NEW m, NEW k, NEW u, publish(m, k, u)
    PROVE  phase' = [phase EXCEPT ![k] = u]
BY DEF publish

\* It holds at the start.
LEMMA ManagerStart == Init => ManagerInv
<1> SUFFICES ASSUME Init PROVE ManagerInv
  OBVIOUS
<1>1. ManagerTypeOK
  BY ManagerAssumption, NoneApart DEF Init, ManagerTypeOK, Task, Idle, Update
<1>2. CommandsKnow
  BY DEF Init, CommandsKnow, SetsUp, Refers, Idle
<1>3. PhasesFit /\ HandlersKnow /\ RingsOnce /\ RingingIsCurrent /\ RingingIsOffered
  BY DEF Init, PhasesFit, HandlersKnow, RingsOnce, RingingIsCurrent, RingingIsOffered
<1>4. ActiveAreWatched
  BY DEF Init, ActiveAreWatched
<1>. QED  BY <1>1, <1>2, <1>3, <1>4 DEF ManagerInv

(***************************************************************************)
(* Steps that change no registry of the manager.                           *)
(***************************************************************************)
LEMMA ManagerUntouched ==
    ASSUME ManagerInv, UNCHANGED <<slot, active, ringing, task, server, owner, watched, stream, phase, news, raced>>
    PROVE  ManagerInv'
<1>1. ManagerTypeOK'
  BY DEF ManagerInv, ManagerTypeOK
<1>2. CommandsKnow'
  BY DEF ManagerInv, CommandsKnow, SetsUp, Refers
<1>3. PhasesFit' /\ HandlersKnow' /\ RingsOnce' /\ RingingIsCurrent' /\ RingingIsOffered' /\ ActiveAreWatched'
  BY DEF ManagerInv, PhasesFit, HandlersKnow, RingsOnce, RingingIsCurrent, RingingIsOffered, ActiveAreWatched
<1>. QED  BY <1>1, <1>2, <1>3 DEF ManagerInv

\* What a task may become, when the rest stays.
TaskKnows(r) ==
    /\ r \in Task
    /\ r.op \in {"start", "answer"} => r.chat \in Chats /\ r.mgr \in Managers
    /\ r.op \in {"answer", "reject"} => /\ r.call \in Incoming
                                        /\ r.mgr \in Managers
                                        /\ server[r.call] # "unknown"
                                        /\ phase[r.call] # "new" /\ "offer" \notin news[r.call]
                                        /\ \A m \in Managers : r.call \in ringing[m] => m = r.mgr
    /\ r.op = "hangup" => r.call \in Calls /\ owner[r.call] # 0

\* A step that changes one task only, to something it may become.
LEMMA TaskChanges ==
    ASSUME ManagerInv, KeepsCalls, NEW t \in Tasks, NEW r, Becomes(t, r), TaskKnows(r)
    PROVE  ManagerInv'
<1>1. ManagerTypeOK'
  BY DEF ManagerInv, ManagerTypeOK, KeepsCalls, Becomes, TaskKnows
<1>2. CommandsKnow'
  BY DEF ManagerInv, ManagerTypeOK, CommandsKnow, SetsUp, Refers, KeepsCalls, Becomes, TaskKnows
<1>3. PhasesFit' /\ HandlersKnow' /\ RingsOnce' /\ RingingIsCurrent' /\ RingingIsOffered' /\ ActiveAreWatched'
  BY DEF ManagerInv, PhasesFit, HandlersKnow, RingsOnce, RingingIsCurrent, RingingIsOffered, ActiveAreWatched, KeepsCalls
<1>. QED  BY <1>1, <1>2, <1>3 DEF ManagerInv

LEMMA IdleTyped == Idle \in Task
BY ManagerAssumption DEF Idle, Task

LEMMA IdleKnows == TaskKnows(Idle)
BY ManagerAssumption DEF TaskKnows, Idle, Task

\* The steps of a command that only the command remembers.
LEMMA CommandSteps ==
    ASSUME ManagerInv, NEW t \in Tasks
    PROVE  /\ \A c \in Chats : start_call(t, c) => ManagerInv'
           /\ \A k \in Calls : answer_call(t, k) \/ reject_call(t, k) => ManagerInv'
           /\ media_refused(t) \/ open_media(t) \/ start_media(t) \/ setup_fails(t) => ManagerInv'
<1>1. ASSUME NEW c \in Chats, start_call(t, c) PROVE ManagerInv'
  <2>1. TaskKnows(Command("start", c, None))
    BY <1>1, ManagerAssumption DEF start_call, Idles, TaskKnows, Command, Task, ManagerInv, ManagerTypeOK, Managers
  <2>. QED  BY <1>1, <2>1, TaskChanges DEF start_call
<1>2. ASSUME NEW k \in Calls, NEW op \in {"answer", "reject"}, slot # 0, k \in ringing[slot]
      PROVE  TaskKnows(Command(op, PeerOf[k], k))
  <2>1. slot \in Managers /\ k \in Incoming /\ PeerOf[k] \in Chats
    BY <1>2, ManagerAssumption DEF ManagerInv, ManagerTypeOK, Managers
  <2>2. server[k] # "unknown" /\ \A m \in Managers : k \in ringing[m] => m = slot
    BY <1>2, <2>1, ManagerAssumption DEF ManagerInv, PhasesFit, RingsOnce
  <2>4. phase[k] # "new" /\ "offer" \notin news[k]
    BY <1>2, <2>1, ManagerAssumption DEF ManagerInv, RingingIsCurrent, HandlersKnow
  <2>3. Command(op, PeerOf[k], k) \in Task
    BY <2>1, ManagersArePositive DEF Command, Task
  <2>. QED  BY <2>1, <2>2, <2>3, <2>4 DEF TaskKnows, Command
<1>3. ASSUME NEW k \in Calls, answer_call(t, k) PROVE ManagerInv'
  BY <1>2, <1>3, TaskChanges DEF answer_call, Idles
<1>4. ASSUME NEW k \in Calls, reject_call(t, k) PROVE ManagerInv'
  BY <1>2, <1>4, TaskChanges DEF reject_call, Idles
<1>5. ASSUME media_refused(t) \/ setup_fails(t) PROVE ManagerInv'
  BY <1>5, IdleKnows, TaskChanges DEF media_refused, setup_fails
<1>6. ASSUME open_media(t) PROVE ManagerInv'
  <2>1. PICK a \in Streams : Becomes(t, [task[t] EXCEPT !.stream = a])
    BY <1>6 DEF open_media
  <2>2. [task[t] EXCEPT !.stream = a] \in Task
    BY ZenonT(40) DEF ManagerInv, ManagerTypeOK, Task
  <2>3. /\ SetsUp(t) => task[t].chat \in Chats /\ task[t].mgr \in Managers
        /\ Refers(t) => /\ task[t].call \in Incoming
                        /\ task[t].mgr \in Managers
                        /\ server[task[t].call] # "unknown"
                        /\ phase[task[t].call] # "new" /\ "offer" \notin news[task[t].call]
                        /\ \A m \in Managers : task[t].call \in ringing[m] => m = task[t].mgr
        /\ task[t].op = "hangup" => task[t].call \in Calls /\ owner[task[t].call] # 0
    BY DEF ManagerInv, CommandsKnow
  <2>4. PICK r : r = [task[t] EXCEPT !.stream = a]
    OBVIOUS
  <2>5. r.op = task[t].op /\ r.chat = task[t].chat /\ r.call = task[t].call /\ r.mgr = task[t].mgr
    BY <2>4 DEF ManagerInv, ManagerTypeOK, Task
  <2>6. TaskKnows(r)
    BY <2>2, <2>3, <2>4, <2>5 DEF TaskKnows, SetsUp, Refers
  <2>. QED  BY <1>6, <2>1, <2>4, <2>6, TaskChanges DEF open_media
<1>7. ASSUME start_media(t) PROVE ManagerInv'
  <2>1. CASE UNCHANGED task
    BY <1>7, <2>1, ManagerUntouched DEF start_media, KeepsCalls
  <2>2. CASE Becomes(t, Idle)
    BY <1>7, <2>2, IdleKnows, TaskChanges DEF start_media
  <2>. QED  BY <1>7, <2>1, <2>2 DEF start_media
<1>. QED  BY <1>1, <1>3, <1>4, <1>5, <1>6, <1>7

(***************************************************************************)
(* Steps that change a registry: one lemma per action, one step per part   *)
(* of the invariant.                                                       *)
(***************************************************************************)
LEMMA ConnectKeeps ==
    ASSUME ManagerInv, connect
    PROVE  ManagerInv'
<1> USE ManagersArePositive, NoneApart DEF ManagerInv, ManagerTypeOK
<1>1. ManagerTypeOK'
  <2>1. task' \in [Tasks -> Task]
    BY DEF connect
  <2>2. server' \in [Calls -> {"unknown", "ringing", "live", "over"}] /\ slot' \in 0..MaxManagers
    BY ManagerAssumption DEF connect
  <2>3. ringing' \in [Managers -> SUBSET Incoming] /\ active' \in [Managers -> [Chats -> Calls \cup {None}]]
    BY DEF connect
  <2>4. /\ owner' \in [Calls -> 0..MaxManagers] /\ watched' \in SUBSET Calls
        /\ stream' \in [Calls -> Streams \cup {None}]
    BY DEF connect
  <2>5. phase' \in [Calls -> Update \cup {"new"}]
    BY DEF connect
  <2>6. news' \in [Calls -> SUBSET {"offer", "end"}] /\ raced' \in SUBSET Incoming
    BY DEF connect
  <2>. QED  BY <2>1, <2>2, <2>3, <2>4, <2>5, <2>6
<1>2. CommandsKnow'
  BY DEF connect, CommandsKnow, SetsUp, Refers
<1>3. PhasesFit'
  BY DEF connect, PhasesFit
<1>7. HandlersKnow'
  BY PublishTells DEF connect, HandlersKnow, PhasesFit
<1>4. RingsOnce'
  BY DEF connect, RingsOnce
<1>5. RingingIsCurrent'
  <2> SUFFICES ASSUME slot' # 0, NEW x \in ringing'[slot'] PROVE phase'[x] = "ringing"
    BY DEF RingingIsCurrent
  <2>1. slot' \in Managers /\ (slot # 0 => slot \in Managers)
    BY <1>1 DEF Managers
  <2>. QED  BY <2>1, <1>1 DEF connect, RingsOnce
<1>8. RingingIsOffered'
  <2> SUFFICES ASSUME slot' # 0, NEW x \in ringing'[slot'], server'[x] = "over", x \notin raced'
               PROVE  "end" \in news'[x]
    BY DEF RingingIsOffered
  <2>1. slot' \in Managers /\ (slot # 0 => slot \in Managers)
    BY <1>1 DEF Managers
  <2>. QED  BY <2>1, <1>1, ManagerAssumption DEF connect, RingsOnce
<1>6. ActiveAreWatched'
  BY DEF connect, ActiveAreWatched
<1>. QED  BY <1>1, <1>2, <1>3, <1>4, <1>5, <1>6, <1>7, <1>8

LEMMA SetupAnsweredKeeps ==
    ASSUME ManagerInv, NEW t \in Tasks, NEW k \in Calls, setup_answered(t, k)
    PROVE  ManagerInv'
<1> USE ManagersArePositive, NoneApart DEF ManagerInv, ManagerTypeOK
<1>1. ManagerTypeOK'
  <2>1. task' \in [Tasks -> Task]
    BY IdleTyped DEF setup_answered, Becomes
  <2>2. server' \in [Calls -> {"unknown", "ringing", "live", "over"}] /\ slot' \in 0..MaxManagers
    BY DEF setup_answered
  <2>3. ringing' \in [Managers -> SUBSET Incoming] /\ active' \in [Managers -> [Chats -> Calls \cup {None}]]
    BY DEF setup_answered
  <2>4. /\ owner' \in [Calls -> 0..MaxManagers] /\ watched' \in SUBSET Calls
        /\ stream' \in [Calls -> Streams \cup {None}]
    BY DEF setup_answered, Task
  <2>5. phase' \in [Calls -> Update \cup {"new"}]
    BY PublishTells DEF setup_answered, Update
  <2>6. news' \in [Calls -> SUBSET {"offer", "end"}] /\ raced' \in SUBSET Incoming
    <3>1. news' = news /\ (raced' = raced \/ (raced' = raced \cup {k} /\ "end" \in news[k]))
      BY DEF setup_answered
    <3>. QED  BY <3>1 DEF HandlersKnow
  <2>. QED  BY <2>1, <2>2, <2>3, <2>4, <2>5, <2>6
<1>a. /\ phase' = [phase EXCEPT ![k] = "up"] /\ server' = [server EXCEPT ![k] = "live"] /\ news' = news
      /\ task' = [task EXCEPT ![t] = Idle] /\ task[t].mgr \in Managers /\ owner' = [owner EXCEPT ![k] = task[t].mgr]
      /\ raced' = IF "end" \in news[k] THEN raced \cup {k} ELSE raced
      /\ watched' = watched \cup {k} /\ slot' = slot
      /\ \A m \in Managers : k \notin ringing'[m] /\ ringing'[m] \subseteq ringing[m]
  BY PublishTells DEF setup_answered, CommandsKnow, Refers, Signalled, Becomes, PhasesFit
<1>b. owner[k] = 0 /\ "offer" \notin news[k] /\ k \notin watched
  BY DEF setup_answered, CommandsKnow, Refers, Signalled, PhasesFit
<1>2. CommandsKnow'
  <2> SUFFICES ASSUME NEW s \in Tasks
               PROVE  /\ SetsUp(s)' => task'[s].chat \in Chats /\ task'[s].mgr \in Managers
                      /\ Refers(s)' => /\ task'[s].call \in Incoming
                                       /\ task'[s].mgr \in Managers
                                       /\ server'[task'[s].call] # "unknown"
                                       /\ phase'[task'[s].call] # "new" /\ "offer" \notin news'[task'[s].call]
                                       /\ \A m \in Managers : task'[s].call \in ringing'[m] => m = task'[s].mgr
                      /\ task'[s].op = "hangup" => task'[s].call \in Calls /\ owner'[task'[s].call] # 0
    BY DEF CommandsKnow
  <2>1. CASE s = t
    BY <1>a, <2>1 DEF SetsUp, Refers, Idle
  <2>2. CASE s # t
    <3>1. task'[s] = task[s]
      BY <1>a, <2>2
    <3>. QED  BY <1>a, <3>1, ManagerAssumption DEF CommandsKnow, SetsUp, Refers
  <2>. QED  BY <2>1, <2>2
<1>3. PhasesFit'
  BY <1>a, <1>b DEF PhasesFit
<1>7. HandlersKnow'
  BY <1>a, <1>b DEF HandlersKnow
<1>4. RingsOnce'
  BY DEF setup_answered, RingsOnce
<1>5. RingingIsCurrent'
  <2> SUFFICES ASSUME slot' # 0, NEW x \in ringing'[slot'] PROVE phase'[x] = "ringing"
    BY DEF RingingIsCurrent
  <2>1. slot' \in Managers /\ (slot # 0 => slot \in Managers)
    BY <1>1 DEF Managers
  <2>. QED  BY <2>1, <1>1, PublishTells, ManagerAssumption DEF setup_answered, RingingIsCurrent, CommandsKnow, Refers
<1>8. RingingIsOffered'
  <2> SUFFICES ASSUME slot' # 0, NEW x \in ringing'[slot'], server'[x] = "over", x \notin raced'
               PROVE  "end" \in news'[x]
    BY DEF RingingIsOffered
  <2>1. slot' \in Managers /\ (slot # 0 => slot \in Managers)
    BY <1>1 DEF Managers
  <2>. QED  BY <2>1, <1>1, ManagerAssumption DEF setup_answered, RingingIsOffered, PhasesFit, HandlersKnow
<1>6. ActiveAreWatched'
  BY DEF setup_answered, ActiveAreWatched, PhasesFit
<1>. QED  BY <1>1, <1>2, <1>3, <1>4, <1>5, <1>6, <1>7, <1>8

LEMMA EndCallKeeps ==
    ASSUME ManagerInv, NEW t \in Tasks, NEW c \in Chats, end_call(t, c)
    PROVE  ManagerInv'
<1> USE ManagersArePositive, NoneApart DEF ManagerInv, ManagerTypeOK
<1>1. ManagerTypeOK'
  <2>1. task' \in [Tasks -> Task]
    <3>1. slot \in Managers /\ active[slot][c] \in Calls \cup {None}
      BY SlotIsManager DEF end_call, Idles
    <3>2. Command("hangup", c, active[slot][c]) \in Task
      BY <3>1 DEF Command, Task
    <3>. QED  BY <3>2 DEF end_call, Becomes
  <2>2. server' \in [Calls -> {"unknown", "ringing", "live", "over"}] /\ slot' \in 0..MaxManagers
    BY DEF end_call
  <2>3. ringing' \in [Managers -> SUBSET Incoming] /\ active' \in [Managers -> [Chats -> Calls \cup {None}]]
    BY DEF end_call
  <2>4. /\ owner' \in [Calls -> 0..MaxManagers] /\ watched' \in SUBSET Calls
        /\ stream' \in [Calls -> Streams \cup {None}]
    BY DEF end_call
  <2>5. phase' \in [Calls -> Update \cup {"new"}]
    BY DEF end_call
  <2>6. news' \in [Calls -> SUBSET {"offer", "end"}] /\ raced' \in SUBSET Incoming
    BY DEF end_call
  <2>. QED  BY <2>1, <2>2, <2>3, <2>4, <2>5, <2>6
<1>2. CommandsKnow'
  <2>1. active[slot][c] \in Calls /\ owner[active[slot][c]] # 0
    BY SlotIsManager DEF end_call, Idles, ActiveAreWatched
  <2>2. PICK r : r = Command("hangup", c, active[slot][c])
    OBVIOUS
  <2>3. r.op = "hangup" /\ r.call = active[slot][c]
    BY <2>2 DEF Command
  <2>4. task' = [task EXCEPT ![t] = r]
    BY <2>2 DEF end_call, Becomes
  <2> SUFFICES ASSUME NEW s \in Tasks
               PROVE  /\ SetsUp(s)' => task'[s].chat \in Chats /\ task'[s].mgr \in Managers
                      /\ Refers(s)' => /\ task'[s].call \in Incoming
                                       /\ task'[s].mgr \in Managers
                                       /\ server'[task'[s].call] # "unknown"
                                       /\ phase'[task'[s].call] # "new" /\ "offer" \notin news'[task'[s].call]
                                       /\ \A m \in Managers : task'[s].call \in ringing'[m] => m = task'[s].mgr
                      /\ task'[s].op = "hangup" => task'[s].call \in Calls /\ owner'[task'[s].call] # 0
    BY DEF CommandsKnow
  <2>5. CASE s = t
    BY <2>5, <2>1, <2>3, <2>4 DEF end_call, SetsUp, Refers
  <2>6. CASE s # t
    BY <2>6, <2>4 DEF end_call, CommandsKnow, SetsUp, Refers
  <2>. QED  BY <2>5, <2>6
<1>3. PhasesFit'
  BY DEF end_call, PhasesFit
<1>7. HandlersKnow'
  BY PublishTells DEF end_call, HandlersKnow, PhasesFit
<1>4. RingsOnce'
  BY DEF end_call, RingsOnce
<1>5. RingingIsCurrent'
  <2> SUFFICES ASSUME slot' # 0, NEW x \in ringing'[slot'] PROVE phase'[x] = "ringing"
    BY DEF RingingIsCurrent
  <2>1. slot' \in Managers /\ (slot # 0 => slot \in Managers)
    BY <1>1 DEF Managers
  <2>. QED  BY <2>1, <1>1 DEF end_call, RingingIsCurrent
<1>8. RingingIsOffered'
  <2> SUFFICES ASSUME slot' # 0, NEW x \in ringing'[slot'], server'[x] = "over", x \notin raced'
               PROVE  "end" \in news'[x]
    BY DEF RingingIsOffered
  <2>1. slot' \in Managers /\ (slot # 0 => slot \in Managers)
    BY <1>1 DEF Managers
  <2>. QED  BY <2>1, <1>1, ManagerAssumption DEF end_call, RingingIsOffered, PhasesFit, HandlersKnow
<1>6. ActiveAreWatched'
  BY DEF end_call, ActiveAreWatched
<1>. QED  BY <1>1, <1>2, <1>3, <1>4, <1>5, <1>6, <1>7, <1>8

LEMMA HangupKeeps ==
    ASSUME ManagerInv, NEW t \in Tasks, hangup(t)
    PROVE  ManagerInv'
<1> USE ManagersArePositive, NoneApart DEF ManagerInv, ManagerTypeOK
<1>1. ManagerTypeOK'
  <2>1. task' \in [Tasks -> Task]
    BY IdleTyped DEF hangup, Becomes
  <2>2. server' \in [Calls -> {"unknown", "ringing", "live", "over"}] /\ slot' \in 0..MaxManagers
    BY DEF hangup
  <2>3. ringing' \in [Managers -> SUBSET Incoming] /\ active' \in [Managers -> [Chats -> Calls \cup {None}]]
    BY DEF hangup
  <2>4. /\ owner' \in [Calls -> 0..MaxManagers] /\ watched' \in SUBSET Calls
        /\ stream' \in [Calls -> Streams \cup {None}]
    BY DEF hangup
  <2>5. phase' \in [Calls -> Update \cup {"new"}]
    BY DEF hangup
  <2>6. news' \in [Calls -> SUBSET {"offer", "end"}] /\ raced' \in SUBSET Incoming
    BY DEF hangup
  <2>. QED  BY <2>1, <2>2, <2>3, <2>4, <2>5, <2>6
<1>2. CommandsKnow'
  BY DEF hangup, CommandsKnow, SetsUp, Refers, Becomes, Idle
<1>3. PhasesFit'
  BY DEF hangup, PhasesFit, CommandsKnow
<1>7. HandlersKnow'
  BY DEF hangup, HandlersKnow, CommandsKnow
<1>4. RingsOnce'
  BY DEF hangup, RingsOnce
<1>5. RingingIsCurrent'
  <2> SUFFICES ASSUME slot' # 0, NEW x \in ringing'[slot'] PROVE phase'[x] = "ringing"
    BY DEF RingingIsCurrent
  <2>1. slot' \in Managers /\ (slot # 0 => slot \in Managers)
    BY <1>1 DEF Managers
  <2>. QED  BY <2>1, <1>1 DEF hangup, RingingIsCurrent
<1>8. RingingIsOffered'
  <2> SUFFICES ASSUME slot' # 0, NEW x \in ringing'[slot'], server'[x] = "over", x \notin raced'
               PROVE  "end" \in news'[x]
    BY DEF RingingIsOffered
  <2>1. slot' \in Managers /\ (slot # 0 => slot \in Managers)
    BY <1>1 DEF Managers
  <2>. QED  BY <2>1, <1>1, ManagerAssumption DEF hangup, RingingIsOffered, PhasesFit, CommandsKnow
<1>6. ActiveAreWatched'
  BY DEF hangup, ActiveAreWatched
<1>. QED  BY <1>1, <1>2, <1>3, <1>4, <1>5, <1>6, <1>7, <1>8

LEMMA RejectAnsweredKeeps ==
    ASSUME ManagerInv, NEW t \in Tasks, reject_answered(t)
    PROVE  ManagerInv'
<1> USE ManagersArePositive, NoneApart DEF ManagerInv, ManagerTypeOK
<1>a. \A m \in Managers : ringing'[m] \subseteq ringing[m]
  BY DEF reject_answered
<1>b. \A x \in Calls : server'[x] = "unknown" => server[x] = "unknown"
  BY DEF reject_answered
<1>c. \/ UNCHANGED <<ringing, server>>
      \/ /\ Refers(t)
         /\ ringing' = [ringing EXCEPT ![task[t].mgr] = @ \ {task[t].call}]
         /\ server' = [server EXCEPT ![task[t].call] = IF @ = "live" THEN @ ELSE "over"]
  BY DEF reject_answered, Refers
<1>d. UNCHANGED <<slot, owner, watched, phase, news, raced>>
  BY DEF reject_answered
<1>1. ManagerTypeOK'
  <2>1. task' \in [Tasks -> Task]
    BY IdleTyped DEF reject_answered, Becomes
  <2>2. server' \in [Calls -> {"unknown", "ringing", "live", "over"}] /\ slot' \in 0..MaxManagers
    BY DEF reject_answered
  <2>3. ringing' \in [Managers -> SUBSET Incoming] /\ active' \in [Managers -> [Chats -> Calls \cup {None}]]
    BY DEF reject_answered
  <2>4. /\ owner' \in [Calls -> 0..MaxManagers] /\ watched' \in SUBSET Calls
        /\ stream' \in [Calls -> Streams \cup {None}]
    BY DEF reject_answered
  <2>5. phase' \in [Calls -> Update \cup {"new"}]
    BY DEF reject_answered
  <2>6. news' \in [Calls -> SUBSET {"offer", "end"}] /\ raced' \in SUBSET Incoming
    BY DEF reject_answered
  <2>. QED  BY <2>1, <2>2, <2>3, <2>4, <2>5, <2>6
<1>2. CommandsKnow'
  <2> SUFFICES ASSUME NEW s \in Tasks
               PROVE  /\ SetsUp(s)' => task'[s].chat \in Chats /\ task'[s].mgr \in Managers
                      /\ Refers(s)' => /\ task'[s].call \in Incoming
                                       /\ task'[s].mgr \in Managers
                                       /\ server'[task'[s].call] # "unknown"
                                       /\ phase'[task'[s].call] # "new" /\ "offer" \notin news'[task'[s].call]
                                       /\ \A m \in Managers : task'[s].call \in ringing'[m] => m = task'[s].mgr
                      /\ task'[s].op = "hangup" => task'[s].call \in Calls /\ owner'[task'[s].call] # 0
    BY DEF CommandsKnow
  <2>1. CASE s = t
    BY <2>1 DEF reject_answered, SetsUp, Refers, Becomes, Idle
  <2>2. CASE s # t
    <3>1. task'[s] = task[s] /\ owner' = owner
      BY <2>2 DEF reject_answered, Becomes
    <3>. QED  BY <3>1, <1>a, <1>b, <1>d, ManagerAssumption DEF CommandsKnow, SetsUp, Refers
  <2>. QED  BY <2>1, <2>2
<1>3. PhasesFit'
  BY <1>a, <1>c, <1>d, ManagerAssumption DEF PhasesFit, CommandsKnow
<1>7. HandlersKnow'
  BY <1>a, <1>c, <1>d, ManagerAssumption DEF HandlersKnow, CommandsKnow
<1>4. RingsOnce'
  BY <1>a DEF reject_answered, RingsOnce
<1>5. RingingIsCurrent'
  <2> SUFFICES ASSUME slot' # 0, NEW x \in ringing'[slot'] PROVE phase'[x] = "ringing"
    BY DEF RingingIsCurrent
  <2>1. slot' \in Managers /\ (slot # 0 => slot \in Managers)
    BY <1>1 DEF Managers
  <2>. QED  BY <2>1, <1>1 DEF reject_answered, RingingIsCurrent
<1>8. RingingIsOffered'
  <2> SUFFICES ASSUME slot' # 0, NEW x \in ringing'[slot'], server'[x] = "over", x \notin raced'
               PROVE  "end" \in news'[x]
    BY DEF RingingIsOffered
  <2>1. slot' \in Managers /\ (slot # 0 => slot \in Managers)
    BY <1>1 DEF Managers
  <2>2. x \in ringing[slot] /\ x \in Incoming /\ slot' = slot
    BY <2>1, <1>a, <1>d
  <2>3. server[x] = "over"
    <3>1. ASSUME Refers(t), x = task[t].call, ringing' = [ringing EXCEPT ![task[t].mgr] = @ \ {task[t].call}] PROVE FALSE
      BY <2>1, <2>2, <3>1 DEF CommandsKnow
    <3>. QED  BY <1>c, <2>2, <3>1, ManagerAssumption
  <2>. QED  BY <2>2, <2>3, <1>d DEF RingingIsOffered
<1>6. ActiveAreWatched'
  BY DEF reject_answered, ActiveAreWatched
<1>. QED  BY <1>1, <1>2, <1>3, <1>4, <1>5, <1>6, <1>7, <1>8

\* The library reports an offer: its handler is still to come, and nothing was told of it.
LEMMA OfferedKeeps ==
    ASSUME ManagerInv, NEW k \in Calls, offered(k)
    PROVE  ManagerInv'
<1> USE ManagersArePositive, NoneApart DEF ManagerInv, ManagerTypeOK
<1>a. /\ slot # 0 /\ k \in Incoming /\ server[k] = "unknown"
      /\ server' = [server EXCEPT ![k] = "ringing"] /\ news' = [news EXCEPT ![k] = @ \cup {"offer"}]
      /\ UNCHANGED <<slot, active, ringing, task, owner, watched, stream, phase, raced>>
  BY DEF offered
<1>b. phase[k] = "new" /\ owner[k] = 0 /\ news[k] = {} /\ \A m \in Managers : k \notin ringing[m]
  BY <1>a DEF PhasesFit
<1>1. ManagerTypeOK'
  BY <1>a
<1>2. CommandsKnow'
  BY <1>a, <1>b, ManagerAssumption DEF CommandsKnow, SetsUp, Refers
<1>3. PhasesFit'
  BY <1>a, <1>b DEF PhasesFit
<1>4. HandlersKnow'
  BY <1>a, <1>b DEF HandlersKnow
<1>5. RingsOnce' /\ RingingIsCurrent' /\ ActiveAreWatched'
  BY <1>a DEF RingsOnce, RingingIsCurrent, ActiveAreWatched
<1>6. RingingIsOffered'
  BY <1>a, <1>b, SlotIsManager, ManagerAssumption DEF RingingIsOffered
<1>. QED  BY <1>1, <1>2, <1>3, <1>4, <1>5, <1>6

\* It reports that the offer is over: the two have crossed if the handler of the offer is still to come.
LEMMA OfferOverKeeps ==
    ASSUME ManagerInv, NEW k \in Calls, offer_over(k)
    PROVE  ManagerInv'
<1> USE ManagersArePositive, NoneApart DEF ManagerInv, ManagerTypeOK
<1>a. /\ slot # 0 /\ k \in Incoming /\ server[k] \in {"unknown", "ringing"}
      /\ server' = [server EXCEPT ![k] = "over"] /\ news' = [news EXCEPT ![k] = @ \cup {"end"}]
      /\ raced' = IF "offer" \in news[k] THEN raced \cup {k} ELSE raced
      /\ UNCHANGED <<slot, active, ringing, task, owner, watched, stream, phase>>
  BY DEF offer_over
<1>b. /\ "end" \notin news[k]
      /\ owner[k] = 0 /\ phase[k] # "gone"
  BY <1>a DEF PhasesFit, HandlersKnow
<1>1. ManagerTypeOK'
  BY <1>a
<1>2. CommandsKnow'
  BY <1>a, <1>b, ManagerAssumption DEF CommandsKnow, SetsUp, Refers
<1>3. PhasesFit'
  BY <1>a, <1>b DEF PhasesFit
<1>4. HandlersKnow'
  BY <1>a, <1>b DEF HandlersKnow
<1>5. RingsOnce' /\ RingingIsCurrent' /\ ActiveAreWatched'
  BY <1>a DEF RingsOnce, RingingIsCurrent, ActiveAreWatched
<1>6. RingingIsOffered'
  BY <1>a, <1>b, SlotIsManager, ManagerAssumption DEF RingingIsOffered
<1>. QED  BY <1>1, <1>2, <1>3, <1>4, <1>5, <1>6

LEMMA IncomingCallKeeps ==
    ASSUME ManagerInv, NEW k \in Calls, incoming_call(k)
    PROVE  ManagerInv'
<1> USE ManagersArePositive, NoneApart DEF ManagerInv, ManagerTypeOK
<1>a. /\ "offer" \in news[k] /\ news' = [news EXCEPT ![k] = @ \ {"offer"}]
      /\ ringing' = [ringing EXCEPT ![slot] = @ \cup {k}] /\ phase' = [phase EXCEPT ![k] = "ringing"]
      /\ UNCHANGED <<slot, active, task, server, owner, watched, stream, raced>>
  BY PublishTells DEF incoming_call, Handles
<1>b. /\ k \in Incoming /\ slot # 0 /\ slot \in Managers /\ owner[k] = 0 /\ server[k] # "unknown"
      /\ server[k] = "over" => k \in raced
      /\ \A m \in Managers : k \notin ringing[m]
      /\ k \notin watched
      /\ \A t \in Tasks : Refers(t) => task[t].call # k
  BY <1>a, SlotIsManager DEF HandlersKnow, PhasesFit, CommandsKnow
<1>1. ManagerTypeOK'
  BY <1>a, <1>b DEF Update
<1>2. CommandsKnow'
  <2> SUFFICES ASSUME NEW t \in Tasks, Refers(t)
               PROVE  /\ phase'[task[t].call] # "new" /\ "offer" \notin news'[task[t].call]
                      /\ \A m \in Managers : task[t].call \in ringing'[m] => m = task[t].mgr
    BY <1>a DEF CommandsKnow, SetsUp, Refers
  <2>. QED  BY <1>a, <1>b, ManagerAssumption DEF CommandsKnow
<1>3. PhasesFit'
  BY <1>a, <1>b DEF PhasesFit
<1>4. HandlersKnow'
  BY <1>a, <1>b DEF HandlersKnow
<1>5. RingsOnce'
  BY <1>a, <1>b, ManagerAssumption DEF RingsOnce
<1>6. RingingIsCurrent'
  BY <1>a, <1>b, ManagerAssumption DEF RingingIsCurrent
<1>7. RingingIsOffered'
  BY <1>a, <1>b, ManagerAssumption DEF RingingIsOffered
<1>8. ActiveAreWatched'
  BY <1>a DEF ActiveAreWatched
<1>. QED  BY <1>1, <1>2, <1>3, <1>4, <1>5, <1>6, <1>7, <1>8

LEMMA OfferEndsKeeps ==
    ASSUME ManagerInv, NEW k \in Calls, offer_ends(k)
    PROVE  ManagerInv'
<1> USE ManagersArePositive, NoneApart DEF ManagerInv, ManagerTypeOK
<1>a. /\ "end" \in news[k] /\ news' = [news EXCEPT ![k] = @ \ {"end"}]
      /\ ringing' = [ringing EXCEPT ![slot] = @ \ {k}] /\ phase' = [phase EXCEPT ![k] = "gone"]
      /\ UNCHANGED <<slot, active, task, server, owner, watched, stream, raced>>
  BY PublishTells DEF offer_ends, Handles
<1>b. /\ k \in Incoming /\ slot # 0 /\ slot \in Managers /\ server[k] # "unknown"
      /\ server[k] # "ringing"
      /\ owner[k] # 0 => k \in raced
      /\ "offer" \in news[k] => k \in raced
      /\ \A m \in Managers : ringing'[m] \subseteq ringing[m]
  BY <1>a, SlotIsManager DEF HandlersKnow, PhasesFit
<1>1. ManagerTypeOK'
  BY <1>a, <1>b DEF Update
<1>2. CommandsKnow'
  <2> SUFFICES ASSUME NEW t \in Tasks, Refers(t)
               PROVE  /\ phase'[task[t].call] # "new" /\ "offer" \notin news'[task[t].call]
                      /\ \A m \in Managers : task[t].call \in ringing'[m] => m = task[t].mgr
    BY <1>a DEF CommandsKnow, SetsUp, Refers
  <2>. QED  BY <1>a, <1>b, ManagerAssumption DEF CommandsKnow
<1>3. PhasesFit'
  BY <1>a, <1>b DEF PhasesFit
<1>4. HandlersKnow'
  BY <1>a, <1>b DEF HandlersKnow
<1>5. RingsOnce'
  BY <1>a, <1>b DEF RingsOnce
<1>6. RingingIsCurrent'
  BY <1>a, <1>b, ManagerAssumption DEF RingingIsCurrent
<1>7. RingingIsOffered'
  BY <1>a, <1>b, ManagerAssumption DEF RingingIsOffered
<1>8. ActiveAreWatched'
  BY <1>a DEF ActiveAreWatched
<1>. QED  BY <1>1, <1>2, <1>3, <1>4, <1>5, <1>6, <1>7, <1>8

LEMMA EngineEventKeeps ==
    ASSUME ManagerInv, NEW k \in Calls, handle_engine_event(k)
    PROVE  ManagerInv'
<1> USE ManagersArePositive, NoneApart DEF ManagerInv, ManagerTypeOK
<1>1. ManagerTypeOK'
  <2>1. task' \in [Tasks -> Task]
    BY DEF handle_engine_event
  <2>2. server' \in [Calls -> {"unknown", "ringing", "live", "over"}] /\ slot' \in 0..MaxManagers
    BY DEF handle_engine_event
  <2>3. ringing' \in [Managers -> SUBSET Incoming] /\ active' \in [Managers -> [Chats -> Calls \cup {None}]]
    BY DEF handle_engine_event
  <2>4. /\ owner' \in [Calls -> 0..MaxManagers] /\ watched' \in SUBSET Calls
        /\ stream' \in [Calls -> Streams \cup {None}]
    BY DEF handle_engine_event
  <2>5. phase' \in [Calls -> Update \cup {"new"}]
    BY PublishTells DEF handle_engine_event, Update
  <2>6. news' \in [Calls -> SUBSET {"offer", "end"}] /\ raced' \in SUBSET Incoming
    BY DEF handle_engine_event
  <2>. QED  BY <2>1, <2>2, <2>3, <2>4, <2>5, <2>6
<1>2. CommandsKnow'
  <2>1. phase' = [phase EXCEPT ![k] = "up"] /\ UNCHANGED <<task, server, owner, ringing, news>>
    BY PublishTells DEF handle_engine_event
  <2>2. phase \in [Calls -> Update \cup {"new"}] /\ \A x \in Calls : phase[x] # "new" => phase'[x] # "new"
    BY <2>1
  <2>. QED  BY <2>1, <2>2, ManagerAssumption DEF CommandsKnow, SetsUp, Refers
<1>3. PhasesFit'
  BY PublishTells DEF handle_engine_event, PhasesFit
<1>7. HandlersKnow'
  BY PublishTells DEF handle_engine_event, HandlersKnow, PhasesFit
<1>4. RingsOnce'
  BY DEF handle_engine_event, RingsOnce
<1>5. RingingIsCurrent'
  <2> SUFFICES ASSUME slot' # 0, NEW x \in ringing'[slot'] PROVE phase'[x] = "ringing"
    BY DEF RingingIsCurrent
  <2>1. slot' \in Managers /\ (slot # 0 => slot \in Managers)
    BY <1>1 DEF Managers
  <2>2. x \in ringing[slot] /\ x # k /\ x \in Calls
    BY <2>1, ManagerAssumption DEF handle_engine_event, PhasesFit
  <2>. QED  BY <2>1, <2>2, PublishTells DEF handle_engine_event, RingingIsCurrent
<1>8. RingingIsOffered'
  <2> SUFFICES ASSUME slot' # 0, NEW x \in ringing'[slot'], server'[x] = "over", x \notin raced'
               PROVE  "end" \in news'[x]
    BY DEF RingingIsOffered
  <2>1. slot' \in Managers /\ (slot # 0 => slot \in Managers)
    BY <1>1 DEF Managers
  <2>. QED  BY <2>1, <1>1, ManagerAssumption DEF handle_engine_event, RingingIsOffered, PhasesFit, HandlersKnow
<1>6. ActiveAreWatched'
  BY DEF handle_engine_event, ActiveAreWatched
<1>. QED  BY <1>1, <1>2, <1>3, <1>4, <1>5, <1>6, <1>7, <1>8

LEMMA CallEndsKeeps ==
    ASSUME ManagerInv, NEW k \in Calls, call_ends(k)
    PROVE  ManagerInv'
<1> USE ManagersArePositive, NoneApart DEF ManagerInv, ManagerTypeOK
<1>1. ManagerTypeOK'
  <2>1. task' \in [Tasks -> Task]
    BY DEF call_ends
  <2>2. server' \in [Calls -> {"unknown", "ringing", "live", "over"}] /\ slot' \in 0..MaxManagers
    BY DEF call_ends
  <2>3. ringing' \in [Managers -> SUBSET Incoming] /\ active' \in [Managers -> [Chats -> Calls \cup {None}]]
    BY DEF call_ends
  <2>4. /\ owner' \in [Calls -> 0..MaxManagers] /\ watched' \in SUBSET Calls
        /\ stream' \in [Calls -> Streams \cup {None}]
    BY DEF call_ends
  <2>5. phase' \in [Calls -> Update \cup {"new"}]
    BY DEF call_ends
  <2>6. news' \in [Calls -> SUBSET {"offer", "end"}] /\ raced' \in SUBSET Incoming
    BY DEF call_ends
  <2>. QED  BY <2>1, <2>2, <2>3, <2>4, <2>5, <2>6
<1>2. CommandsKnow'
  BY DEF call_ends, CommandsKnow, SetsUp, Refers
<1>3. PhasesFit'
  BY DEF call_ends, PhasesFit
<1>7. HandlersKnow'
  BY PublishTells DEF call_ends, HandlersKnow, PhasesFit
<1>4. RingsOnce'
  BY DEF call_ends, RingsOnce
<1>5. RingingIsCurrent'
  <2> SUFFICES ASSUME slot' # 0, NEW x \in ringing'[slot'] PROVE phase'[x] = "ringing"
    BY DEF RingingIsCurrent
  <2>1. slot' \in Managers /\ (slot # 0 => slot \in Managers)
    BY <1>1 DEF Managers
  <2>. QED  BY <2>1, <1>1 DEF call_ends, RingingIsCurrent
<1>8. RingingIsOffered'
  <2> SUFFICES ASSUME slot' # 0, NEW x \in ringing'[slot'], server'[x] = "over", x \notin raced'
               PROVE  "end" \in news'[x]
    BY DEF RingingIsOffered
  <2>1. slot' \in Managers /\ (slot # 0 => slot \in Managers)
    BY <1>1 DEF Managers
  <2>. QED  BY <2>1, <1>1, ManagerAssumption DEF call_ends, RingingIsOffered, PhasesFit, HandlersKnow
<1>6. ActiveAreWatched'
  BY DEF call_ends, ActiveAreWatched
<1>. QED  BY <1>1, <1>2, <1>3, <1>4, <1>5, <1>6, <1>7, <1>8

LEMMA MonitorEndsKeeps ==
    ASSUME ManagerInv, NEW k \in Calls, monitor_ends(k)
    PROVE  ManagerInv'
<1> USE ManagersArePositive, NoneApart DEF ManagerInv, ManagerTypeOK
<1>1. ManagerTypeOK'
  <2>1. task' \in [Tasks -> Task]
    BY DEF monitor_ends
  <2>2. server' \in [Calls -> {"unknown", "ringing", "live", "over"}] /\ slot' \in 0..MaxManagers
    BY DEF monitor_ends
  <2>3. ringing' \in [Managers -> SUBSET Incoming] /\ active' \in [Managers -> [Chats -> Calls \cup {None}]]
    BY DEF monitor_ends
  <2>4. /\ owner' \in [Calls -> 0..MaxManagers] /\ watched' \in SUBSET Calls
        /\ stream' \in [Calls -> Streams \cup {None}]
    BY DEF monitor_ends
  <2>5. phase' \in [Calls -> Update \cup {"new"}]
    BY PublishTells DEF monitor_ends, Update
  <2>6. news' \in [Calls -> SUBSET {"offer", "end"}] /\ raced' \in SUBSET Incoming
    BY DEF monitor_ends
  <2>. QED  BY <2>1, <2>2, <2>3, <2>4, <2>5, <2>6
<1>2. CommandsKnow'
  <2>1. phase' = [phase EXCEPT ![k] = "ended"] /\ UNCHANGED <<task, server, owner, ringing, news>>
    BY PublishTells DEF monitor_ends
  <2>2. phase \in [Calls -> Update \cup {"new"}] /\ \A x \in Calls : phase[x] # "new" => phase'[x] # "new"
    BY <2>1
  <2>. QED  BY <2>1, <2>2, ManagerAssumption DEF CommandsKnow, SetsUp, Refers
<1>3. PhasesFit'
  BY PublishTells DEF monitor_ends, PhasesFit
<1>7. HandlersKnow'
  BY PublishTells DEF monitor_ends, HandlersKnow, PhasesFit
<1>4. RingsOnce'
  BY DEF monitor_ends, RingsOnce
<1>5. RingingIsCurrent'
  <2> SUFFICES ASSUME slot' # 0, NEW x \in ringing'[slot'] PROVE phase'[x] = "ringing"
    BY DEF RingingIsCurrent
  <2>1. slot' \in Managers /\ (slot # 0 => slot \in Managers)
    BY <1>1 DEF Managers
  <2>. QED  BY <2>1, <1>1, PublishTells, ManagerAssumption DEF monitor_ends, RingingIsCurrent, PhasesFit
<1>8. RingingIsOffered'
  <2> SUFFICES ASSUME slot' # 0, NEW x \in ringing'[slot'], server'[x] = "over", x \notin raced'
               PROVE  "end" \in news'[x]
    BY DEF RingingIsOffered
  <2>1. slot' \in Managers /\ (slot # 0 => slot \in Managers)
    BY <1>1 DEF Managers
  <2>. QED  BY <2>1, <1>1, ManagerAssumption DEF monitor_ends, RingingIsOffered, PhasesFit, HandlersKnow
<1>6. ActiveAreWatched'
  BY DEF monitor_ends, ActiveAreWatched
<1>. QED  BY <1>1, <1>2, <1>3, <1>4, <1>5, <1>6, <1>7, <1>8

(***************************************************************************)
(* Every step.                                                             *)
(***************************************************************************)
LEMMA ManagerStepKeeps == ManagerInv /\ [Next]_vars => ManagerInv'
<1> SUFFICES ASSUME ManagerInv, [Next]_vars PROVE ManagerInv'
  OBVIOUS
<1>1. CASE connect
  BY <1>1, ConnectKeeps
<1>2. CASE Workers
  BY <1>2, ManagerUntouched DEF Workers, managerVars
<1>3. ASSUME NEW m \in Managers, forward(m) PROVE ManagerInv'
  BY <1>3, ManagerUntouched DEF forward
<1>4. ASSUME NEW t \in Tasks, CommandStep(t) PROVE ManagerInv'
  <2>1. ASSUME NEW c \in Chats, start_call(t, c) \/ end_call(t, c) PROVE ManagerInv'
    BY <2>1, CommandSteps, EndCallKeeps
  <2>2. ASSUME NEW k \in Calls, answer_call(t, k) \/ reject_call(t, k) \/ setup_answered(t, k) PROVE ManagerInv'
    BY <2>2, CommandSteps, SetupAnsweredKeeps
  <2>3. ASSUME media_refused(t) \/ open_media(t) \/ start_media(t) \/ setup_fails(t) PROVE ManagerInv'
    BY <2>3, CommandSteps
  <2>4. ASSUME hangup(t) \/ reject_answered(t) PROVE ManagerInv'
    BY <2>4, HangupKeeps, RejectAnsweredKeeps
  <2>. QED  BY <1>4, <2>1, <2>2, <2>3, <2>4 DEF CommandStep
<1>5. ASSUME NEW k \in Calls, CallStep(k) PROVE ManagerInv'
  <2>1. CASE engine_stops(k)
    BY <2>1, ManagerUntouched DEF engine_stops, managerVars
  <2>. QED
    BY <1>5, <2>1, OfferedKeeps, OfferOverKeeps, IncomingCallKeeps, OfferEndsKeeps, EngineEventKeeps, CallEndsKeeps, MonitorEndsKeeps
    DEF CallStep
<1>6. CASE UNCHANGED vars
  BY <1>6, ManagerUntouched DEF vars, managerVars
<1>. QED  BY <1>1, <1>2, <1>3, <1>4, <1>5, <1>6 DEF Next

\* To the audio a step of the manager is a step of CallMedia, or none.
LEMMA MediaStepTaken == ManagerInv /\ [Next]_vars => [MediaNext]_mediaVars
<1> SUFFICES ASSUME ManagerInv, [Next]_vars PROVE [MediaNext]_mediaVars
  OBVIOUS
<1>1. CASE Workers
  BY <1>1 DEF Workers, MediaNext
<1>2. ASSUME NEW t \in Tasks, CommandStep(t) PROVE [MediaNext]_mediaVars
  <2>1. task[t].stream \in Streams \cup {None} /\ (SetsUp(t) => task[t].chat \in Chats)
    BY <1>2 DEF ManagerInv, ManagerTypeOK, Task, CommandsKnow
  <2>2. CASE open_media(t)
    BY <2>1, <2>2 DEF open_media, MediaNext
  <2>3. CASE start_media(t)
    BY <2>1, <2>3 DEF start_media, MediaNext
  <2>4. CASE setup_fails(t)
    BY <2>1, <2>4 DEF setup_fails, Signalled, MediaNext
  <2>5. ASSUME NEW c \in Chats, start_call(t, c) \/ end_call(t, c) PROVE UNCHANGED mediaVars
    BY <2>5 DEF start_call, end_call
  <2>6. ASSUME NEW k \in Calls, answer_call(t, k) \/ reject_call(t, k) \/ setup_answered(t, k)
        PROVE UNCHANGED mediaVars
    BY <2>6 DEF answer_call, reject_call, setup_answered
  <2>7. ASSUME media_refused(t) \/ hangup(t) \/ reject_answered(t) PROVE UNCHANGED mediaVars
    BY <2>7 DEF media_refused, hangup, reject_answered
  <2>. QED  BY <1>2, <2>2, <2>3, <2>4, <2>5, <2>6, <2>7 DEF CommandStep
<1>3. ASSUME NEW k \in Calls, CallStep(k) PROVE [MediaNext]_mediaVars
  <2>1. CASE engine_stops(k)
    <3>1. stream[k] \in Streams
      BY <2>1 DEF engine_stops, ManagerInv, ManagerTypeOK
    <3>. QED  BY <2>1, <3>1 DEF engine_stops, MediaNext
  <2>2. ASSUME ~engine_stops(k) PROVE UNCHANGED mediaVars
    BY <1>3, <2>2 DEF CallStep, offered, offer_over, incoming_call, offer_ends, handle_engine_event, call_ends, monitor_ends
  <2>. QED  BY <2>1, <2>2
<1>4. CASE connect \/ (\E m \in Managers : forward(m)) \/ UNCHANGED vars
  BY <1>4 DEF connect, forward, vars
<1>. QED  BY <1>1, <1>2, <1>3, <1>4 DEF Next

LEMMA CallInvHolds == Spec => []CallInv
<1>1. Init => CallInv
  BY ManagerStart, RegistryStart DEF Init, CallInv
<1>2. CallInv /\ [Next]_vars => CallInv'
  BY ManagerStepKeeps, MediaStepTaken, MediaStepKeeps DEF CallInv
<1>. QED  BY <1>1, <1>2, PTL DEF Spec

(***************************************************************************)
(* The bus never holds more than its capacity, and what is read from it    *)
(* names calls.                                                            *)
(***************************************************************************)
Message == [call : Calls, update : Update]

BusTyped ==
    /\ bus \in [Managers -> Seq(Message)]
    /\ \A m \in Managers : Len(bus[m]) <= BusCapacity
    /\ lagged \in SUBSET Managers /\ told \in SUBSET Calls

LEMMA PublishKeepsBus ==
    ASSUME BusTyped, NEW m \in Managers, NEW k \in Calls, NEW u \in Update, publish(m, k, u), UNCHANGED told
    PROVE  BusTyped'
<1> DEFINE full == Len(bus[m]) = BusCapacity
<1>1. [call |-> k, update |-> u] \in Message
  BY DEF Message
<1>2. PICK e : e = [call |-> k, update |-> u]
  OBVIOUS
<1>3. lagged' \in SUBSET Managers
  BY DEF publish, BusTyped
<1>4. PICK q : q = IF full \/ m \in lagged THEN <<>> ELSE Append(bus[m], e)
  OBVIOUS
<1>5. bus' = [bus EXCEPT ![m] = q]
  BY <1>2, <1>4 DEF publish
<1>6. q \in Seq(Message) /\ Len(q) <= BusCapacity
  <2>1. bus[m] \in Seq(Message) /\ Len(bus[m]) \in Nat /\ Len(bus[m]) <= BusCapacity /\ BusCapacity \in Nat
    BY ManagerAssumption DEF BusTyped
  <2>2. CASE full \/ m \in lagged
    BY <1>4, <2>1, <2>2
  <2>3. CASE ~(full \/ m \in lagged)
    BY <1>1, <1>2, <1>4, <2>1, <2>3
  <2>. QED  BY <2>2, <2>3
<1>. QED  BY <1>3, <1>5, <1>6 DEF BusTyped

LEMMA BusStepKeeps == CallInv /\ BusTyped /\ [Next]_vars => BusTyped'
<1> SUFFICES ASSUME CallInv, BusTyped, [Next]_vars PROVE BusTyped'
  OBVIOUS
<1>1. ASSUME UNCHANGED <<bus, lagged, told>> PROVE BusTyped'
  BY <1>1 DEF BusTyped
<1>2. \A k \in Calls : k \in watched => owner[k] \in Managers
  BY ManagerAssumption DEF CallInv, ManagerInv, ManagerTypeOK, PhasesFit, Managers
<1>3. ASSUME NEW m \in Managers, forward(m) PROVE BusTyped'
  <2>1. bus[m] \in Seq(Message) /\ bus[m] # <<>> /\ Len(bus[m]) <= BusCapacity
    BY <1>3 DEF forward, BusTyped
  <2>2. Tail(bus[m]) \in Seq(Message) /\ Len(Tail(bus[m])) <= BusCapacity /\ Head(bus[m]).call \in Calls
    <3>1. Head(bus[m]) \in Message /\ Tail(bus[m]) \in Seq(Message)
      BY <2>1, HeadTailProperties
    <3>2. Len(Tail(bus[m])) = Len(bus[m]) - 1 /\ Len(bus[m]) \in Nat
      BY <2>1, HeadTailProperties, LenProperties
    <3>. QED  BY <2>1, <3>1, <3>2, ManagerAssumption DEF Message
  <2>. QED  BY <1>3, <2>2 DEF forward, BusTyped
<1>4. ASSUME NEW t \in Tasks, CommandStep(t) PROVE BusTyped'
  <2>1. ASSUME NEW k \in Calls, setup_answered(t, k) PROVE BusTyped'
    BY <2>1, PublishKeepsBus DEF setup_answered, Signalled, CallInv, ManagerInv, CommandsKnow, Update
  <2>2. ASSUME \A k \in Calls : ~setup_answered(t, k) PROVE UNCHANGED <<bus, lagged, told>>
    BY <1>4, <2>2 DEF CommandStep, start_call, end_call, answer_call, reject_call, media_refused, open_media,
                       start_media, setup_fails, hangup, reject_answered, KeepsCalls
  <2>. QED  BY <1>1, <2>1, <2>2
<1>5. ASSUME NEW k \in Calls, CallStep(k) PROVE BusTyped'
  <2>1. news[k] # {} => slot \in Managers
    <3>1. news[k] \subseteq {"offer", "end"}
      BY DEF CallInv, ManagerInv, ManagerTypeOK
    <3>. QED  BY <3>1, SlotIsManager DEF CallInv, ManagerInv, HandlersKnow
  <2>2. CASE incoming_call(k) \/ offer_ends(k)
    BY <2>1, <2>2, PublishKeepsBus DEF incoming_call, offer_ends, Handles, Update
  <2>3. CASE handle_engine_event(k) \/ monitor_ends(k)
    BY <1>2, <2>3, PublishKeepsBus DEF handle_engine_event, monitor_ends, Update
  <2>4. CASE offered(k) \/ offer_over(k) \/ call_ends(k) \/ engine_stops(k)
    BY <1>1, <2>4 DEF offered, offer_over, call_ends, engine_stops, managerVars
  <2>. QED  BY <1>5, <2>2, <2>3, <2>4 DEF CallStep
<1>6. CASE connect \/ Workers \/ UNCHANGED vars
  BY <1>1, <1>6 DEF connect, Workers, managerVars, vars
<1>. QED  BY <1>3, <1>4, <1>5, <1>6 DEF Next

\* The variables of calls.rs and call_media.rs keep their types, and no bus holds more
\* updates than CALL_BUS_CAPACITY.
THEOREM TypeCorrect == Spec => []TypeOK
<1>1. Init => BusTyped
  <2>1. <<>> \in Seq(Message) /\ Len(<<>>) = 0
    OBVIOUS
  <2>. QED  BY <2>1, ManagerAssumption DEF Init, BusTyped
<1>2. CallInv /\ BusTyped => TypeOK
  BY DEF CallInv, RegistryInv, ManagerInv, ManagerTypeOK, BusTyped, TypeOK
<1>. QED  BY <1>1, <1>2, BusStepKeeps, CallInvHolds, PTL DEF Spec

\* The registry of streams keeps its promises in whatever order the commands, monitors,
\* engines and reconnects of the manager call it.
THEOREM RegistryKept == Spec => []RegistryIsSound
<1>1. CallInv => RegistryIsSound
  BY RegistryTells DEF CallInv, RegistryIsSound
<1>. QED  BY <1>1, CallInvHolds, PTL

\* Whatever commands race, the call a chat's entry names is one of that chat and manager
\* whose monitor still runs, so that the entry is cleared when the call ends; and an offer
\* that answer_call and reject_call still find is one whose last update is that it rings,
\* also when connect has put a new manager in the slot, and one that has not gone away,
\* unless the news of that is still to be handled or crossed something else.
THEOREM TablesStayCurrent == Spec => []TablesAreCurrent
<1>1. CallInv => TablesAreCurrent
  BY DEF CallInv, ManagerInv, TablesAreCurrent
<1>. QED  BY <1>1, CallInvHolds, PTL

(***************************************************************************)
(* What EndedIsTold asks for in the end, as a state: the bus and its       *)
(* forwarder lose no Ended unless they report that they lagged.            *)
(***************************************************************************)
Ended(k) == owner[k] # 0 /\ k \notin watched
On(q, k) == \E i \in 1..Len(q) : q[i].call = k /\ q[i].update # "gone"
EndOn(q, k) == \E i \in 1..Len(q) : q[i].call = k /\ q[i].update = "ended"
EndsLast(q) ==
    \A i, j \in 1..Len(q) : q[i].update = "ended" /\ q[j].call = q[i].call /\ q[j].update # "gone" => j <= i

\* The user interface was told that a call ended only of one that is over, with no update of it behind on the bus but
\* that its offer went away, which may come late; and once its forwarder has read everything, it was told of every call
\* that ended, or the forwarder lagged.
EndsAreHeard ==
    \A k \in Calls :
       /\ k \in told => Ended(k) /\ server[k] = "over" /\ ~On(bus[owner[k]], k)
       /\ Ended(k) /\ bus[owner[k]] = <<>> => k \in told \/ owner[k] \in lagged

\* Its inductive invariant: the Ended of a call is told, on the bus or lost to a lag, and on the bus it is the last.
EndsOfCalls ==
    \A k \in Calls :
       /\ owner[k] # 0 => server[k] \in {"live", "over"}
       /\ Ended(k) => server[k] = "over" /\ (k \in told \/ owner[k] \in lagged \/ EndOn(bus[owner[k]], k))
       /\ k \in told => Ended(k) /\ ~On(bus[owner[k]], k)
EndsOfBuses ==
    \A m \in Managers : EndsLast(bus[m]) /\ \A k \in Calls : EndOn(bus[m], k) => Ended(k) /\ owner[k] = m
EndsFit == EndsOfCalls /\ EndsOfBuses

LEMMA NothingOn == /\ \A k : ~On(<<>>, k) /\ ~EndOn(<<>>, k)
                   /\ EndsLast(<<>>)
<1>1. Len(<<>>) = 0
  BY EmptySeq
<1>. QED  BY <1>1 DEF On, EndOn, EndsLast

LEMMA BusGrows ==
    ASSUME NEW q \in Seq(Message), NEW e \in Message
    PROVE  /\ \A k : On(Append(q, e), k) <=> (e.call = k /\ e.update # "gone") \/ On(q, k)
           /\ \A k : EndOn(Append(q, e), k) <=> (e.call = k /\ e.update = "ended") \/ EndOn(q, k)
           /\ EndsLast(q) /\ (e.update = "gone" \/ ~EndOn(q, e.call)) => EndsLast(Append(q, e))
<1>1. PICK p : p = Append(q, e)
  OBVIOUS
<1>2. /\ Len(p) = Len(q) + 1 /\ Len(q) \in Nat /\ p[Len(q) + 1] = e
      /\ \A i \in 1..Len(q) : p[i] = q[i]
  BY <1>1
<1>3. /\ \A i \in 1..Len(p) : i \in 1..Len(q) \/ i = Len(q) + 1
      /\ \A i \in 1..Len(q) : i \in 1..Len(p)
      /\ Len(q) + 1 \in 1..Len(p)
  BY <1>2
<1>4. \A k : On(p, k) <=> (e.call = k /\ e.update # "gone") \/ On(q, k)
  BY <1>2, <1>3 DEF On
<1>5. \A k : EndOn(p, k) <=> (e.call = k /\ e.update = "ended") \/ EndOn(q, k)
  BY <1>2, <1>3 DEF EndOn
<1>6. ASSUME EndsLast(q), e.update = "gone" \/ ~EndOn(q, e.call), NEW i \in 1..Len(p), NEW j \in 1..Len(p),
             p[i].update = "ended", p[j].call = p[i].call, p[j].update # "gone"
      PROVE  j <= i
  <2>1. CASE i = Len(q) + 1
    BY <1>2, <2>1
  <2>2. CASE i \in 1..Len(q)
    <3>1. p[i] = q[i] /\ (e.update = "gone" \/ q[i].call # e.call)
      BY <1>2, <1>6, <2>2 DEF EndOn
    <3>2. j \in 1..Len(q) /\ p[j] = q[j]
      BY <1>2, <1>3, <1>6, <3>1
    <3>. QED  BY <1>6, <2>2, <3>1, <3>2 DEF EndsLast
  <2>. QED  BY <1>3, <2>1, <2>2
<1>7. EndsLast(q) /\ (e.update = "gone" \/ ~EndOn(q, e.call)) => EndsLast(p)
  BY <1>6 DEF EndsLast
<1>. QED  BY <1>1, <1>4, <1>5, <1>7

LEMMA BusShrinks ==
    ASSUME NEW q \in Seq(Message), q # <<>>
    PROVE  /\ Head(q) \in Message /\ Tail(q) \in Seq(Message)
           /\ \A k : On(Tail(q), k) => On(q, k)
           /\ \A k : EndOn(Tail(q), k) => EndOn(q, k)
           /\ \A k : EndOn(q, k) => (Head(q).call = k /\ Head(q).update = "ended") \/ EndOn(Tail(q), k)
           /\ EndsLast(q) => EndsLast(Tail(q))
           /\ EndsLast(q) /\ Head(q).update = "ended" => EndOn(q, Head(q).call) /\ ~On(Tail(q), Head(q).call)
<1>1. PICK p : p = Tail(q)
  OBVIOUS
<1>2. PICK h : h = Head(q)
  OBVIOUS
<1>3. /\ Len(p) = Len(q) - 1 /\ Len(q) \in Nat /\ Len(q) # 0 /\ h = q[1] /\ h \in Message /\ p \in Seq(Message)
      /\ \A i \in 1..Len(p) : p[i] = q[i + 1]
  BY <1>1, <1>2
<1>4. /\ \A i \in 1..Len(p) : i + 1 \in 1..Len(q) /\ i + 1 > 1
      /\ \A i \in 1..Len(q) : i = 1 \/ (i - 1 \in 1..Len(p) /\ (i - 1) + 1 = i)
      /\ 1 \in 1..Len(q)
  BY <1>3
<1>5. \A k : On(p, k) => On(q, k)
  BY <1>3, <1>4 DEF On
<1>6. \A k : EndOn(p, k) => EndOn(q, k)
  BY <1>3, <1>4 DEF EndOn
<1>7. ASSUME NEW k, EndOn(q, k) PROVE (h.call = k /\ h.update = "ended") \/ EndOn(p, k)
  <2>1. PICK i \in 1..Len(q) : q[i].call = k /\ q[i].update = "ended"
    BY <1>7 DEF EndOn
  <2>2. CASE i = 1
    BY <1>3, <2>1, <2>2
  <2>3. CASE i # 1
    <3>1. i - 1 \in 1..Len(p) /\ (i - 1) + 1 = i
      BY <1>4, <2>3
    <3>2. p[i - 1] = q[i]
      BY <1>3, <3>1
    <3>. QED  BY <2>1, <3>1, <3>2 DEF EndOn
  <2>. QED  BY <2>2, <2>3
<1>8. ASSUME EndsLast(q) PROVE EndsLast(p)
  <2>1. ASSUME NEW i \in 1..Len(p), NEW j \in 1..Len(p), p[i].update = "ended", p[j].call = p[i].call,
               p[j].update # "gone"
        PROVE  j <= i
    <3>1. j + 1 <= i + 1
      BY <1>3, <1>4, <1>8, <2>1 DEF EndsLast
    <3>. QED  BY <2>1, <3>1
  <2>. QED  BY <2>1 DEF EndsLast
<1>9. ASSUME EndsLast(q), h.update = "ended" PROVE EndOn(q, h.call) /\ ~On(p, h.call)
  <2>1. ASSUME NEW j \in 1..Len(p), p[j].call = h.call, p[j].update # "gone" PROVE FALSE
    <3>1. j + 1 <= 1
      BY <1>3, <1>4, <1>9, <2>1 DEF EndsLast
    <3>. QED  BY <2>1, <3>1
  <2>. QED  BY <1>3, <1>4, <1>9, <2>1 DEF On, EndOn
<1>. QED  BY <1>1, <1>2, <1>3, <1>5, <1>6, <1>7, <1>8, <1>9

LEMMA EndsStart == Init => EndsFit
<1> SUFFICES ASSUME Init PROVE EndsFit
  OBVIOUS
<1>1. \A k \in Calls : owner[k] = 0
  BY DEF Init
<1>2. told = {} /\ \A m \in Managers : bus[m] = <<>>
  BY DEF Init
<1>. QED  BY <1>1, <1>2, NothingOn DEF EndsFit, EndsOfCalls, EndsOfBuses, Ended

\* A step that publishes and forwards nothing, and that revives no call.
LEMMA EndsUntouched ==
    ASSUME EndsFit, UNCHANGED <<owner, watched, bus, lagged, told>>,
           \A k \in Calls : owner[k] # 0 => server'[k] = server[k] \/ server'[k] = "over"
    PROVE  EndsFit'
BY DEF EndsFit, EndsOfCalls, EndsOfBuses, Ended, On, EndOn, EndsLast

\* An update of a call that has not ended: it is its Ended exactly if the call ends with it.
LEMMA PublishFits ==
    ASSUME BusTyped, EndsFit, ManagerTypeOK, NEW m \in Managers, NEW k \in Calls, NEW u \in Update,
           publish(m, k, u), UNCHANGED told, ~Ended(k),
           \A x \in Calls \ {k} : owner'[x] = owner[x] /\ (x \in watched' <=> x \in watched) /\ server'[x] = server[x],
           owner'[k] # 0 => owner'[k] = m /\ server'[k] \in {"live", "over"},
           Ended(k)' <=> u = "ended" /\ owner'[k] # 0, u = "ended" => owner'[k] # 0 /\ server'[k] = "over"
    PROVE  EndsFit'
<1>1. PICK e : e = [call |-> k, update |-> u]
  OBVIOUS
<1>2. e \in Message /\ e.call = k /\ e.update = u
  BY <1>1 DEF Message
<1>3. PICK q : q = IF Len(bus[m]) = BusCapacity \/ m \in lagged THEN <<>> ELSE Append(bus[m], e)
  OBVIOUS
<1>4. bus' = [bus EXCEPT ![m] = q] /\ bus \in [Managers -> Seq(Message)]
  BY <1>1, <1>3 DEF publish, BusTyped
<1>5. lagged \subseteq lagged' /\ (Len(bus[m]) = BusCapacity => m \in lagged')
  BY DEF publish
<1>6. bus'[m] = q /\ \A n \in Managers \ {m} : bus'[n] = bus[n]
  BY <1>4
<1>7. k \notin told /\ \A n \in Managers : ~EndOn(bus[n], k)
  BY DEF EndsFit, EndsOfCalls, EndsOfBuses
<1>8. \A x : On(q, x) => x = k \/ On(bus[m], x)
  BY <1>2, <1>3, <1>4, BusGrows, NothingOn
<1>9. \A x : EndOn(q, x) => (x = k /\ u = "ended") \/ EndOn(bus[m], x)
  BY <1>2, <1>3, <1>4, BusGrows, NothingOn
<1>10. \A x : EndOn(bus[m], x) \/ (x = k /\ u = "ended") => EndOn(q, x) \/ m \in lagged'
  BY <1>2, <1>3, <1>4, <1>5, BusGrows
<1>11. EndsLast(q)
  <2>1. EndsLast(bus[m]) /\ ~EndOn(bus[m], e.call)
    BY <1>2, <1>7 DEF EndsFit, EndsOfBuses
  <2>. QED  BY <1>2, <1>3, <1>4, <2>1, BusGrows, NothingOn
<1>12. \A x \in Calls \ {k} : Ended(x)' <=> Ended(x)
  BY DEF Ended
<1>13. \A x \in Calls : owner[x] \in 0..MaxManagers /\ (owner[x] # 0 => owner[x] \in Managers)
  BY ManagerAssumption DEF ManagerTypeOK, Managers
<1>14. EndsOfCalls'
  <2>1. ASSUME NEW x \in Calls, x # k
        PROVE  /\ owner'[x] # 0 => server'[x] \in {"live", "over"}
               /\ Ended(x)' => server'[x] = "over" /\ (x \in told' \/ owner'[x] \in lagged' \/ EndOn(bus'[owner'[x]], x))
               /\ x \in told' => Ended(x)' /\ ~On(bus'[owner'[x]], x)
    <3>1. owner'[x] = owner[x] /\ server'[x] = server[x] /\ (Ended(x)' <=> Ended(x)) /\ (Ended(x) => owner[x] \in Managers)
      BY <1>12, <1>13, <2>1 DEF Ended
    <3>2. /\ owner[x] # 0 => server[x] \in {"live", "over"}
          /\ Ended(x) => server[x] = "over" /\ (x \in told \/ owner[x] \in lagged \/ EndOn(bus[owner[x]], x))
          /\ x \in told => Ended(x) /\ ~On(bus[owner[x]], x)
      BY DEF EndsFit, EndsOfCalls
    <3>3. EndOn(bus[owner[x]], x) /\ Ended(x) => EndOn(bus'[owner[x]], x) \/ owner[x] \in lagged'
      BY <1>6, <1>10, <3>1
    <3>4. On(bus'[owner[x]], x) /\ Ended(x) => On(bus[owner[x]], x)
      BY <1>6, <1>8, <2>1, <3>1
    <3>. QED  BY <1>5, <3>1, <3>2, <3>3, <3>4
  <2>2. /\ owner'[k] # 0 => server'[k] \in {"live", "over"}
        /\ Ended(k)' => server'[k] = "over" /\ (k \in told' \/ owner'[k] \in lagged' \/ EndOn(bus'[owner'[k]], k))
        /\ k \notin told'
    BY <1>6, <1>7, <1>10
  <2>. QED  BY <2>1, <2>2 DEF EndsOfCalls, Ended
<1>15. EndsOfBuses'
  <2>1. ASSUME NEW n \in Managers PROVE EndsLast(bus'[n])
    BY <1>6, <1>11 DEF EndsFit, EndsOfBuses
  <2>2. ASSUME NEW n \in Managers, NEW x \in Calls, EndOn(bus'[n], x) PROVE Ended(x)' /\ owner'[x] = n
    <3>1. CASE x = k
      <4>1. n = m /\ u = "ended"
        BY <1>6, <1>7, <1>9, <2>2, <3>1
      <4>. QED  BY <3>1, <4>1
    <3>2. CASE x # k
      <4>1. EndOn(bus[n], x)
        BY <1>6, <1>9, <2>2, <3>2
      <4>2. Ended(x) /\ owner[x] = n
        BY <4>1 DEF EndsFit, EndsOfBuses
      <4>. QED  BY <1>12, <3>2, <4>2
    <3>. QED  BY <3>1, <3>2
  <2>. QED  BY <2>1, <2>2 DEF EndsOfBuses, EndsLast, EndOn
<1>. QED  BY <1>14, <1>15 DEF EndsFit

\* The news that an offer went away, whenever it comes: it takes no Ended from the bus, unless the bus reports a lag.
LEMMA GoneFits ==
    ASSUME BusTyped, EndsFit, ManagerTypeOK, NEW m \in Managers, NEW k \in Calls,
           publish(m, k, "gone"), UNCHANGED <<owner, watched, server, told>>
    PROVE  EndsFit'
<1>1. PICK e : e = [call |-> k, update |-> "gone"]
  OBVIOUS
<1>2. e \in Message /\ e.call = k /\ e.update = "gone"
  BY <1>1 DEF Message, Update
<1>3. PICK q : q = IF Len(bus[m]) = BusCapacity \/ m \in lagged THEN <<>> ELSE Append(bus[m], e)
  OBVIOUS
<1>4. bus' = [bus EXCEPT ![m] = q] /\ bus \in [Managers -> Seq(Message)]
  BY <1>1, <1>3 DEF publish, BusTyped
<1>5. lagged \subseteq lagged' /\ (Len(bus[m]) = BusCapacity => m \in lagged')
  BY DEF publish
<1>6. bus'[m] = q /\ \A n \in Managers \ {m} : bus'[n] = bus[n]
  BY <1>4
<1>7. /\ \A x : On(q, x) => On(bus[m], x)
      /\ \A x : EndOn(q, x) => EndOn(bus[m], x)
      /\ \A x : EndOn(bus[m], x) => EndOn(q, x) \/ m \in lagged'
      /\ EndsLast(bus[m]) => EndsLast(q)
  <2>1. CASE Len(bus[m]) = BusCapacity \/ m \in lagged
    BY <1>3, <1>5, <2>1, NothingOn
  <2>2. CASE ~(Len(bus[m]) = BusCapacity \/ m \in lagged)
    <3>1. q = Append(bus[m], e) /\ bus[m] \in Seq(Message)
      BY <1>3, <1>4, <2>2
    <3>2. /\ \A x : On(q, x) <=> (e.call = x /\ e.update # "gone") \/ On(bus[m], x)
          /\ \A x : EndOn(q, x) <=> (e.call = x /\ e.update = "ended") \/ EndOn(bus[m], x)
          /\ EndsLast(bus[m]) /\ (e.update = "gone" \/ ~EndOn(bus[m], e.call)) => EndsLast(q)
      BY <1>2, <3>1, BusGrows
    <3>. QED  BY <1>2, <3>2
  <2>. QED  BY <2>1, <2>2
<1>8. \A x \in Calls : (Ended(x)' <=> Ended(x)) /\ (Ended(x) => owner[x] \in Managers)
  BY ManagerAssumption DEF ManagerTypeOK, Managers, Ended
<1>9. EndsOfCalls'
  <2>1. ASSUME NEW x \in Calls
        PROVE  /\ owner'[x] # 0 => server'[x] \in {"live", "over"}
               /\ Ended(x)' => server'[x] = "over" /\ (x \in told' \/ owner'[x] \in lagged' \/ EndOn(bus'[owner'[x]], x))
               /\ x \in told' => Ended(x)' /\ ~On(bus'[owner'[x]], x)
    <3>1. /\ owner[x] # 0 => server[x] \in {"live", "over"}
          /\ Ended(x) => server[x] = "over" /\ (x \in told \/ owner[x] \in lagged \/ EndOn(bus[owner[x]], x))
          /\ x \in told => Ended(x) /\ ~On(bus[owner[x]], x)
      BY DEF EndsFit, EndsOfCalls
    <3>2. EndOn(bus[owner[x]], x) /\ Ended(x) => EndOn(bus'[owner[x]], x) \/ owner[x] \in lagged'
      BY <1>6, <1>7, <1>8
    <3>3. On(bus'[owner[x]], x) /\ Ended(x) => On(bus[owner[x]], x)
      BY <1>6, <1>7, <1>8
    <3>. QED  BY <1>5, <1>8, <3>1, <3>2, <3>3
  <2>. QED  BY <2>1 DEF EndsOfCalls, Ended
<1>10. EndsOfBuses'
  <2>1. ASSUME NEW n \in Managers PROVE EndsLast(bus'[n])
    BY <1>6, <1>7 DEF EndsFit, EndsOfBuses
  <2>2. ASSUME NEW n \in Managers, NEW x \in Calls, EndOn(bus'[n], x) PROVE Ended(x)' /\ owner'[x] = n
    <3>1. EndOn(bus[n], x)
      BY <1>6, <1>7, <2>2
    <3>. QED  BY <1>8, <3>1 DEF EndsFit, EndsOfBuses
  <2>. QED  BY <2>1, <2>2 DEF EndsOfBuses, EndsLast, EndOn
<1>. QED  BY <1>9, <1>10 DEF EndsFit

\* The forwarder reads an update: an Ended is told, and nothing of its call is behind it.
LEMMA ForwardFits ==
    ASSUME BusTyped, EndsFit, ManagerTypeOK, NEW m \in Managers, forward(m)
    PROVE  EndsFit'
<1>1. /\ bus[m] \in Seq(Message) /\ bus[m] # <<>>
      /\ UNCHANGED <<owner, watched, server, lagged>>
  BY DEF forward, BusTyped
<1>2. PICK q : q = Tail(bus[m])
  OBVIOUS
<1>3. PICK h : h = Head(bus[m])
  OBVIOUS
<1>4. bus' = [bus EXCEPT ![m] = q] /\ bus \in [Managers -> Seq(Message)]
  BY <1>2 DEF forward, BusTyped
<1>5. told' = IF h.update = "ended" THEN told \cup {h.call} ELSE told
  BY <1>3 DEF forward
<1>6. bus'[m] = q /\ \A n \in Managers \ {m} : bus'[n] = bus[n]
  BY <1>4
<1>7. /\ h \in Message
      /\ \A x : On(q, x) => On(bus[m], x)
      /\ \A x : EndOn(q, x) => EndOn(bus[m], x)
      /\ \A x : EndOn(bus[m], x) => (h.call = x /\ h.update = "ended") \/ EndOn(q, x)
      /\ EndsLast(bus[m]) => EndsLast(q)
      /\ EndsLast(bus[m]) /\ h.update = "ended" => EndOn(bus[m], h.call) /\ ~On(q, h.call)
  BY <1>1, <1>2, <1>3, BusShrinks
<1>8. \A n \in Managers : EndsLast(bus[n]) /\ \A x \in Calls : EndOn(bus[n], x) => Ended(x) /\ owner[x] = n
  BY DEF EndsFit, EndsOfBuses
<1>9. h.call \in Calls
  BY <1>7 DEF Message
<1>10. \A x \in Calls : Ended(x) => owner[x] \in Managers
  BY ManagerAssumption DEF ManagerTypeOK, Managers, Ended
<1>11. \A x \in Calls : Ended(x)' <=> Ended(x)
  BY <1>1 DEF Ended
<1>12. EndsOfCalls'
  <2>1. ASSUME NEW x \in Calls
        PROVE  /\ owner'[x] # 0 => server'[x] \in {"live", "over"}
               /\ Ended(x)' => server'[x] = "over" /\ (x \in told' \/ owner'[x] \in lagged' \/ EndOn(bus'[owner'[x]], x))
               /\ x \in told' => Ended(x)' /\ ~On(bus'[owner'[x]], x)
    <3>1. /\ owner[x] # 0 => server[x] \in {"live", "over"}
          /\ Ended(x) => server[x] = "over" /\ (x \in told \/ owner[x] \in lagged \/ EndOn(bus[owner[x]], x))
          /\ x \in told => Ended(x) /\ ~On(bus[owner[x]], x)
      BY DEF EndsFit, EndsOfCalls
    <3>2. ASSUME Ended(x), EndOn(bus[owner[x]], x) PROVE x \in told' \/ EndOn(bus'[owner[x]], x)
      BY <1>5, <1>6, <1>7, <1>10, <3>2
    <3>3. ASSUME x \in told' PROVE Ended(x) /\ ~On(bus'[owner[x]], x)
      <4>1. CASE x \in told
        BY <1>6, <1>7, <1>10, <3>1, <4>1
      <4>2. CASE x \notin told
        <5>1. x = h.call /\ h.update = "ended"
          BY <1>5, <3>3, <4>2
        <5>2. EndOn(bus[m], x) /\ ~On(q, x)
          BY <1>7, <1>8, <5>1
        <5>. QED  BY <1>6, <1>8, <5>2
      <4>. QED  BY <4>1, <4>2
    <3>4. told \subseteq told'
      BY <1>5
    <3>. QED  BY <1>1, <1>11, <3>1, <3>2, <3>3, <3>4
  <2>. QED  BY <2>1 DEF EndsOfCalls, Ended
<1>13. EndsOfBuses'
  <2>1. ASSUME NEW n \in Managers PROVE EndsLast(bus'[n])
    BY <1>6, <1>7, <1>8
  <2>2. ASSUME NEW n \in Managers, NEW x \in Calls, EndOn(bus'[n], x) PROVE Ended(x)' /\ owner'[x] = n
    BY <1>1, <1>6, <1>7, <1>8, <1>11, <2>2
  <2>. QED  BY <2>1, <2>2 DEF EndsOfBuses, EndsLast, EndOn
<1>. QED  BY <1>12, <1>13 DEF EndsFit

LEMMA EndsStepKeeps == CallInv /\ BusTyped /\ EndsFit /\ [Next]_vars => EndsFit'
<1> SUFFICES ASSUME CallInv, BusTyped, EndsFit, [Next]_vars PROVE EndsFit'
  OBVIOUS
<1>0. ManagerInv /\ ManagerTypeOK /\ PhasesFit /\ HandlersKnow
  BY DEF CallInv, ManagerInv
<1>1. ASSUME UNCHANGED <<owner, watched, bus, lagged, told, server>> PROVE EndsFit'
  BY <1>1, EndsUntouched
<1>2. ASSUME NEW m \in Managers, forward(m) PROVE EndsFit'
  BY <1>0, <1>2, ForwardFits
<1>3. ASSUME NEW t \in Tasks, CommandStep(t) PROVE EndsFit'
  <2>1. ASSUME NEW k \in Calls, setup_answered(t, k) PROVE EndsFit'
    <3>1. task[t].mgr \in Managers /\ (task[t].op = "answer" => task[t].call \in Incoming)
      BY <1>0, <2>1 DEF setup_answered, Signalled, ManagerInv, CommandsKnow, Refers
    <3>2. owner[k] = 0
      BY <1>0, <2>1 DEF setup_answered, Signalled, SetsUp, PhasesFit
    <3>3. PICK m \in Managers : m = task[t].mgr
      BY <3>1
    <3>4. /\ owner' = [owner EXCEPT ![k] = m] /\ watched' = watched \cup {k} /\ publish(m, k, "up") /\ told' = told
          /\ server' = [server EXCEPT ![k] = "live"]
      BY <2>1, <3>3 DEF setup_answered
    <3>5. /\ \A x \in Calls \ {k} : owner'[x] = owner[x] /\ (x \in watched' <=> x \in watched) /\ server'[x] = server[x]
          /\ owner'[k] = m /\ server'[k] = "live" /\ ~Ended(k) /\ ~Ended(k)'
      BY <1>0, <3>2, <3>4 DEF ManagerTypeOK, Ended
    <3>6. "up" \in Update
      BY DEF Update
    <3>. QED  BY <1>0, <3>4, <3>5, <3>6, PublishFits
  <2>2. CASE hangup(t)
    <3>1. /\ UNCHANGED <<owner, watched, bus, lagged, told>>
          /\ server' = [server EXCEPT ![task[t].call] = "over"]
      BY <2>2 DEF hangup
    <3>2. \A k \in Calls : server'[k] = server[k] \/ server'[k] = "over"
      BY <1>0, <3>1 DEF ManagerTypeOK
    <3>. QED  BY <3>1, <3>2, EndsUntouched
  <2>3. CASE reject_answered(t)
    <3>1. UNCHANGED <<owner, watched, bus, lagged, told>>
      BY <2>3 DEF reject_answered
    <3>2. \/ server' = server
          \/ server' = [server EXCEPT ![task[t].call] = IF @ = "live" THEN @ ELSE "over"]
      BY <2>3 DEF reject_answered
    <3>3. \A k \in Calls : server'[k] = server[k] \/ server'[k] = "over"
      BY <1>0, <3>2 DEF ManagerTypeOK
    <3>. QED  BY <3>1, <3>3, EndsUntouched
  <2>4. ASSUME \A k \in Calls : ~setup_answered(t, k), ~hangup(t), ~reject_answered(t)
        PROVE  UNCHANGED <<owner, watched, bus, lagged, told, server>>
    BY <1>3, <2>4 DEF CommandStep, start_call, end_call, answer_call, reject_call, media_refused, open_media,
                       start_media, setup_fails, KeepsCalls
  <2>. QED  BY <1>1, <2>1, <2>2, <2>3, <2>4
<1>4. ASSUME NEW k \in Calls, CallStep(k) PROVE EndsFit'
  <2>1. CASE incoming_call(k)
    <3>1. publish(slot, k, "ringing") /\ "ringing" \in Update /\ UNCHANGED <<owner, watched, server, told>>
      BY <2>1 DEF incoming_call, Update
    <3>2. slot \in Managers /\ owner[k] = 0
      BY <1>0, <2>1, SlotIsManager DEF incoming_call, Handles, HandlersKnow
    <3>3. ~Ended(k) /\ ~Ended(k)'
      BY <3>1, <3>2 DEF Ended
    <3>. QED  BY <1>0, <3>1, <3>2, <3>3, PublishFits
  <2>5. CASE offer_ends(k)
    <3>1. publish(slot, k, "gone") /\ UNCHANGED <<owner, watched, server, told>>
      BY <2>5 DEF offer_ends
    <3>2. slot \in Managers
      BY <1>0, <2>5, SlotIsManager DEF offer_ends, Handles, HandlersKnow
    <3>. QED  BY <1>0, <3>1, <3>2, GoneFits
  <2>6. CASE offered(k) \/ offer_over(k)
    <3>1. /\ UNCHANGED <<owner, watched, bus, lagged, told>> /\ server[k] \in {"unknown", "ringing"}
          /\ server' = [server EXCEPT ![k] = "ringing"] \/ server' = [server EXCEPT ![k] = "over"]
      BY <2>6 DEF offered, offer_over
    <3>2. \A x \in Calls : owner[x] # 0 => server'[x] = server[x] \/ server'[x] = "over"
      BY <1>0, <3>1 DEF ManagerTypeOK, EndsFit, EndsOfCalls
    <3>. QED  BY <3>1, <3>2, EndsUntouched
  <2>2. CASE handle_engine_event(k) \/ monitor_ends(k)
    <3>1. owner[k] \in Managers /\ owner[k] # 0 /\ k \in watched
      BY <1>0, <2>2, ManagerAssumption DEF handle_engine_event, monitor_ends, ManagerTypeOK, PhasesFit, Managers
    <3>2. PICK m \in Managers : m = owner[k]
      BY <3>1
    <3>3. UNCHANGED <<owner, server, told>>
      BY <2>2 DEF handle_engine_event, monitor_ends
    <3>4. CASE handle_engine_event(k)
      <4>1. publish(m, k, "up") /\ watched' = watched /\ "up" \in Update
        BY <3>2, <3>4 DEF handle_engine_event, Update
      <4>2. ~Ended(k) /\ ~Ended(k)' /\ server[k] \in {"live", "over"}
        BY <3>1, <4>1 DEF Ended, EndsFit, EndsOfCalls
      <4>. QED  BY <1>0, <3>2, <3>3, <4>1, <4>2, PublishFits
    <3>5. CASE monitor_ends(k)
      <4>1. publish(m, k, "ended") /\ watched' = watched \ {k} /\ "ended" \in Update /\ server[k] = "over"
        BY <3>2, <3>5 DEF monitor_ends, Update
      <4>2. ~Ended(k) /\ Ended(k)'
        BY <3>1, <3>3, <4>1 DEF Ended
      <4>. QED  BY <1>0, <3>1, <3>2, <3>3, <4>1, <4>2, PublishFits
    <3>. QED  BY <2>2, <3>4, <3>5
  <2>3. CASE call_ends(k)
    <3>1. /\ UNCHANGED <<owner, watched, bus, lagged, told>>
          /\ server' = [server EXCEPT ![k] = "over"]
      BY <2>3 DEF call_ends
    <3>2. \A x \in Calls : server'[x] = server[x] \/ server'[x] = "over"
      BY <1>0, <3>1 DEF ManagerTypeOK
    <3>. QED  BY <3>1, <3>2, EndsUntouched
  <2>4. CASE engine_stops(k)
    BY <1>1, <2>4 DEF engine_stops, managerVars
  <2>. QED  BY <1>4, <2>1, <2>2, <2>3, <2>4, <2>5, <2>6 DEF CallStep
<1>5. CASE connect \/ Workers \/ UNCHANGED vars
  BY <1>1, <1>5 DEF connect, Workers, managerVars, vars
<1>. QED  BY <1>2, <1>3, <1>4, <1>5 DEF Next

\* Ended is never lost in silence, whatever commands, monitors and reconnects do: once the forwarder of a call's manager
\* has read its bus, the user interface was told of the end, or the forwarder met Lagged; and it is told only of a call
\* that is over, after every other update of it but the late news that its offer went away (spawn_monitor, the forwarder
\* in connect, and handle_event in a task of its own).
THEOREM EndsAreTold == Spec => []EndsAreHeard
<1>1. EndsFit => EndsAreHeard
  <2>1. \A k : ~EndOn(<<>>, k)
    BY NothingOn
  <2>. QED  BY <2>1 DEF EndsFit, EndsOfCalls, EndsAreHeard
<1>2. Init => BusTyped
  <2>1. <<>> \in Seq(Message) /\ Len(<<>>) = 0
    OBVIOUS
  <2>. QED  BY <2>1, ManagerAssumption DEF Init, BusTyped
<1>. QED  BY <1>1, <1>2, EndsStart, EndsStepKeeps, BusStepKeeps, CallInvHolds, PTL DEF Spec

(***************************************************************************)
(* Who holds the channel ends of an audio entry: the command that opened   *)
(* it, then the call it was set up for.                                    *)
(***************************************************************************)

\* Ends that are still held are held by one command or one call, so that there is someone to drop them; a command under way
\* still has those it opened.
AudioHasOneHolder ==
    /\ \A a \in ends : (\E t \in Tasks : task[t].stream = a) \/ (\E k \in Calls : stream[k] = a)
    /\ \A t \in Tasks : task[t].stream # None =>
          /\ task[t].stream \in ends
          /\ \A u \in Tasks : task[u].stream = task[t].stream => u = t
          /\ \A k \in Calls : stream[k] # task[t].stream
    /\ \A k \in Calls : stream[k] # None =>
          /\ owner[k] # 0
          /\ \A j \in Calls : stream[j] = stream[k] => j = k

\* An entry is opened once, and only a command that sets a call up has one.
HoldersKnow ==
    /\ \A a \in ends : stage[a] # "unused"
    /\ \A t \in Tasks : task[t].stream # None => SetsUp(t) /\ stage[task[t].stream] # "unused"
    /\ \A k \in Calls : stream[k] # None => stage[stream[k]] # "unused"
HoldInv == AudioHasOneHolder /\ HoldersKnow

LEMMA HoldStart == Init => HoldInv
BY NoneApart DEF Init, MediaInit, HoldInv, AudioHasOneHolder, HoldersKnow, Idle

\* Nobody takes or drops an entry.
LEMMA HoldUntouched ==
    ASSUME HoldInv, UNCHANGED <<task, stream, owner, ends>>, CallInv,
           \A a \in Streams : stage[a] # "unused" => stage'[a] # "unused"
    PROVE  HoldInv'
<1>1. \A t \in Tasks : SetsUp(t)' <=> SetsUp(t)
  BY DEF SetsUp
<1>2. /\ \A t \in Tasks : task[t].stream \in Streams \cup {None}
      /\ \A k \in Calls : stream[k] \in Streams \cup {None}
      /\ ends \in SUBSET Streams
  BY DEF CallInv, RegistryInv, MediaTypeOK, ManagerInv, ManagerTypeOK, Task
<1>. QED  BY <1>1, <1>2 DEF HoldInv, AudioHasOneHolder, HoldersKnow

\* A task without an entry turns to something else without one.
LEMMA HoldTurned ==
    ASSUME HoldInv, CallInv, UNCHANGED <<stream, owner, mediaVars>>, NEW t \in Tasks, task[t].stream = None,
           NEW r, task' = [task EXCEPT ![t] = r], r.stream = None
    PROVE  HoldInv'
<1>1. task'[t] = r /\ \A u \in Tasks : task'[u].stream = task[u].stream /\ (u # t => task'[u] = task[u])
  BY DEF CallInv, ManagerInv, ManagerTypeOK
<1>2. \A u \in Tasks : task[u].stream # None => u # t /\ (SetsUp(u)' <=> SetsUp(u))
  BY <1>1 DEF SetsUp
<1>3. ends' = ends /\ stage' = stage /\ stream' = stream /\ owner' = owner
  BY DEF mediaVars
<1>4. AudioHasOneHolder'
  BY <1>1, <1>3 DEF HoldInv, AudioHasOneHolder
<1>5. HoldersKnow'
  BY <1>1, <1>2, <1>3 DEF HoldInv, HoldersKnow
<1>. QED  BY <1>4, <1>5 DEF HoldInv

\* The command opens an entry that nobody had.
LEMMA HoldOpened ==
    ASSUME HoldInv, CallInv, NEW t \in Tasks, open_media(t)
    PROVE  HoldInv'
<1>1. PICK a \in Streams : register(a, task[t].chat) /\ Becomes(t, [task[t] EXCEPT !.stream = a])
  BY DEF open_media
<1>2. PICK r : r = [task[t] EXCEPT !.stream = a]
  OBVIOUS
<1>3. task[t] \in Task /\ task \in [Tasks -> Task] /\ stage \in [Streams -> Stages] /\ a # None
  BY NoneApart DEF CallInv, RegistryInv, MediaTypeOK, ManagerInv, ManagerTypeOK
<1>4. r.stream = a /\ r.op = task[t].op
  BY <1>2, <1>3 DEF Task
<1>5. task' = [task EXCEPT ![t] = r]
  BY <1>1, <1>2 DEF Becomes
<1>6. task'[t] = r /\ \A u \in Tasks \ {t} : task'[u] = task[u]
  BY <1>3, <1>5
<1>7. SetsUp(t) /\ task[t].stream = None /\ UNCHANGED <<stream, owner>>
  BY DEF open_media, KeepsCalls
<1>8. stage[a] = "unused" /\ ends' = ends \cup {a} /\ stage' = [stage EXCEPT ![a] = "registered"]
  BY <1>1 DEF register
<1>9. stage'[a] = "registered" /\ \A b \in Streams \ {a} : stage'[b] = stage[b]
  BY <1>3, <1>8
<1>10. /\ a \notin ends
       /\ \A u \in Tasks : task[u].stream # a
       /\ \A k \in Calls : stream[k] # a
  BY <1>3, <1>8 DEF HoldInv, HoldersKnow
<1>11. \A u \in Tasks : SetsUp(u)' <=> SetsUp(u)
  BY <1>4, <1>6, <1>7 DEF SetsUp
<1>12. /\ \A u \in Tasks : task[u].stream \in Streams \cup {None}
       /\ \A k \in Calls : stream[k] \in Streams \cup {None}
       /\ ends \in SUBSET Streams
  BY DEF CallInv, RegistryInv, MediaTypeOK, ManagerInv, ManagerTypeOK, Task
<1>13. AudioHasOneHolder'
  <2>1. ASSUME NEW b \in ends' PROVE (\E u \in Tasks : task'[u].stream = b) \/ (\E k \in Calls : stream'[k] = b)
    <3>1. CASE b = a
      BY <1>4, <1>6, <3>1
    <3>2. CASE b # a
      <4>1. b \in ends /\ b # None
        BY <1>8, <1>12, <2>1, <3>2, NoneApart
      <4>2. \A u \in Tasks : task[u].stream = b => task'[u].stream = b
        BY <1>6, <1>7, <4>1
      <4>. QED  BY <1>7, <4>1, <4>2 DEF HoldInv, AudioHasOneHolder
    <3>. QED  BY <3>1, <3>2
  <2>2. ASSUME NEW u \in Tasks, task'[u].stream # None
        PROVE  /\ task'[u].stream \in ends'
               /\ \A v \in Tasks : task'[v].stream = task'[u].stream => v = u
               /\ \A k \in Calls : stream'[k] # task'[u].stream
    <3>1. CASE u = t
      BY <1>4, <1>6, <1>7, <1>8, <1>10, <3>1
    <3>2. CASE u # t
      <4>1. task'[u] = task[u] /\ task[u].stream # a
        BY <1>6, <1>10, <3>2
      <4>. QED  BY <1>4, <1>6, <1>7, <1>8, <2>2, <3>2, <4>1 DEF HoldInv, AudioHasOneHolder
    <3>. QED  BY <3>1, <3>2
  <2>3. ASSUME NEW k \in Calls, stream'[k] # None
        PROVE  owner'[k] # 0 /\ \A j \in Calls : stream'[j] = stream'[k] => j = k
    BY <1>7, <2>3 DEF HoldInv, AudioHasOneHolder
  <2>. QED  BY <2>1, <2>2, <2>3 DEF AudioHasOneHolder
<1>14. HoldersKnow'
  BY <1>4, <1>6, <1>7, <1>8, <1>9, <1>11, <1>12 DEF HoldInv, HoldersKnow
<1>. QED  BY <1>13, <1>14 DEF HoldInv

\* The command that has an entry drops it and is done.
LEMMA HoldGivenUp ==
    ASSUME HoldInv, CallInv, NEW t \in Tasks, task[t].stream # None, Becomes(t, Idle), UNCHANGED <<stream, owner>>,
           ends' = ends \ {task[t].stream}, \A b \in Streams : stage[b] # "unused" => stage'[b] # "unused"
    PROVE  HoldInv'
<1>1. task' = [task EXCEPT ![t] = Idle] /\ task \in [Tasks -> Task]
  BY DEF Becomes, CallInv, ManagerInv, ManagerTypeOK
<1>2. task'[t].stream = None /\ \A u \in Tasks \ {t} : task'[u] = task[u] /\ (SetsUp(u)' <=> SetsUp(u))
  BY <1>1 DEF Idle, SetsUp
<1>3. /\ \A u \in Tasks : task[u].stream \in Streams \cup {None}
      /\ \A k \in Calls : stream[k] \in Streams \cup {None}
      /\ ends \in SUBSET Streams
  BY DEF CallInv, RegistryInv, MediaTypeOK, ManagerInv, ManagerTypeOK, Task
<1>4. AudioHasOneHolder'
  BY <1>2 DEF HoldInv, AudioHasOneHolder
<1>5. HoldersKnow'
  BY <1>2, <1>3 DEF HoldInv, HoldersKnow
<1>. QED  BY <1>4, <1>5 DEF HoldInv

\* The call that was set up takes over the entry of its command; it had none.
LEMMA HoldHandedOver ==
    ASSUME HoldInv, CallInv, NEW t \in Tasks, NEW k \in Calls, setup_answered(t, k)
    PROVE  HoldInv'
<1>1. PICK a : a = task[t].stream
  OBVIOUS
<1>2. /\ task' = [task EXCEPT ![t] = Idle] /\ task \in [Tasks -> Task]
      /\ stream' = [stream EXCEPT ![k] = a] /\ stream \in [Calls -> Streams \cup {None}]
      /\ owner' = [owner EXCEPT ![k] = task[t].mgr] /\ owner \in [Calls -> 0..MaxManagers]
      /\ UNCHANGED mediaVars
  BY <1>1 DEF setup_answered, Becomes, CallInv, ManagerInv, ManagerTypeOK
<1>3. task[t].mgr \in Managers /\ a # None /\ a \in Streams
  <2>1. task[t].stream \in Streams \cup {None}
    BY <1>2 DEF Task
  <2>. QED  BY <1>1, <2>1 DEF setup_answered, Signalled, CallInv, ManagerInv, CommandsKnow
<1>4. owner[k] = 0
  BY DEF setup_answered, Signalled, SetsUp, CallInv, ManagerInv, PhasesFit
<1>5. stream[k] = None
  BY <1>4 DEF HoldInv, AudioHasOneHolder
<1>6. task[t].mgr # 0
  BY <1>3, ManagersArePositive
<1>7. task'[t].stream = None /\ \A u \in Tasks \ {t} : task'[u] = task[u] /\ (SetsUp(u)' <=> SetsUp(u))
  BY <1>2 DEF Idle, SetsUp
<1>8. /\ stream'[k] = a /\ \A j \in Calls \ {k} : stream'[j] = stream[j] /\ owner'[j] = owner[j]
      /\ owner'[k] # 0
  BY <1>2, <1>6
<1>9. ends' = ends /\ stage' = stage
  BY <1>2 DEF mediaVars
<1>10. /\ stage[a] # "unused" /\ \A u \in Tasks : task[u].stream = a => u = t
       /\ \A j \in Calls : stream[j] # a
  BY <1>1, <1>3 DEF HoldInv, AudioHasOneHolder, HoldersKnow
<1>11. AudioHasOneHolder'
  <2>1. ASSUME NEW b \in ends PROVE (\E u \in Tasks : task'[u].stream = b) \/ (\E j \in Calls : stream'[j] = b)
    <3>1. CASE b = a
      BY <1>8, <3>1
    <3>2. ASSUME b # a, NEW u \in Tasks, task[u].stream = b PROVE task'[u].stream = b
      BY <1>1, <1>7, <3>2
    <3>3. ASSUME NEW j \in Calls, stream[j] = b, b # a, b # None PROVE stream'[j] = b
      BY <1>5, <1>8, <3>3
    <3>4. b # None
      BY NoneApart DEF CallInv, RegistryInv, MediaTypeOK
    <3>. QED  BY <3>1, <3>2, <3>3, <3>4 DEF HoldInv, AudioHasOneHolder
  <2>2. ASSUME NEW u \in Tasks, task'[u].stream # None
        PROVE  /\ task'[u].stream \in ends
               /\ \A v \in Tasks : task'[v].stream = task'[u].stream => v = u
               /\ \A j \in Calls : stream'[j] # task'[u].stream
    <3>1. u # t /\ task'[u] = task[u] /\ task[u].stream # a
      BY <1>7, <1>10, <2>2
    <3>. QED  BY <1>7, <1>8, <2>2, <3>1 DEF HoldInv, AudioHasOneHolder
  <2>3. ASSUME NEW j \in Calls, stream'[j] # None
        PROVE  owner'[j] # 0 /\ \A i \in Calls : stream'[i] = stream'[j] => i = j
    BY <1>8, <1>10, <2>3 DEF HoldInv, AudioHasOneHolder
  <2>. QED  BY <1>9, <2>1, <2>2, <2>3 DEF AudioHasOneHolder
<1>12. HoldersKnow'
  BY <1>7, <1>8, <1>9, <1>10 DEF HoldInv, HoldersKnow
<1>. QED  BY <1>11, <1>12 DEF HoldInv

\* What CallMedia does to an entry never makes it unused again.
LEMMA StaysUsed ==
    ASSUME MediaTypeOK, NEW a \in Streams, media_starts(a) \/ media_fails(a) \/ drop_ends(a) \/ run_playback(a) \/ run_capture(a)
    PROVE  \A b \in Streams : stage[b] # "unused" => stage'[b] # "unused"
<1>1. stage' = stage \/ stage' = [stage EXCEPT ![a] = "running"] \/ stage' = [stage EXCEPT ![a] = "over"]
  BY DEF media_starts, media_fails, drop_ends, run_playback, run_capture
<1>. QED  BY <1>1 DEF MediaTypeOK

LEMMA HoldStepKeeps == CallInv /\ HoldInv /\ [Next]_vars => HoldInv'
<1> SUFFICES ASSUME CallInv, HoldInv, [Next]_vars PROVE HoldInv'
  OBVIOUS
<1>0. MediaTypeOK /\ ManagerTypeOK
  BY DEF CallInv, RegistryInv, ManagerInv
<1>1. ASSUME NEW t \in Tasks, CommandStep(t) PROVE HoldInv'
  <2>0. task[t].stream \in Streams \cup {None} /\ (~SetsUp(t) => task[t].stream = None)
    BY <1>0 DEF HoldInv, HoldersKnow, ManagerTypeOK, Task
  <2>1. CASE open_media(t)
    BY <2>1, HoldOpened
  <2>2. CASE start_media(t)
    <3>1. PICK a \in Streams : a = task[t].stream
      BY <2>0, <2>2 DEF start_media
    <3>2. CASE UNCHANGED task /\ media_starts(a)
      <4>1. UNCHANGED <<task, stream, owner, ends>>
        BY <2>2, <3>2 DEF start_media, media_starts, KeepsCalls
      <4>. QED  BY <1>0, <3>2, <4>1, StaysUsed, HoldUntouched
    <3>3. CASE Becomes(t, Idle) /\ media_fails(a)
      <4>1. ends' = ends \ {task[t].stream} /\ UNCHANGED <<stream, owner>> /\ task[t].stream # None
        BY <2>2, <3>1, <3>3 DEF start_media, media_fails, KeepsCalls
      <4>. QED  BY <1>0, <3>3, <4>1, StaysUsed, HoldGivenUp
    <3>. QED  BY <2>2, <3>1, <3>2, <3>3 DEF start_media
  <2>3. CASE setup_fails(t)
    <3>1. PICK a \in Streams : a = task[t].stream
      BY <2>0, <2>3 DEF setup_fails, Signalled
    <3>2. drop_ends(a) /\ Becomes(t, Idle) /\ UNCHANGED <<stream, owner>> /\ task[t].stream # None
      BY <2>3, <3>1 DEF setup_fails, Signalled, KeepsCalls
    <3>3. ends' = ends \ {task[t].stream}
      BY <3>1, <3>2 DEF drop_ends
    <3>. QED  BY <1>0, <3>2, <3>3, StaysUsed, HoldGivenUp
  <2>4. ASSUME NEW k \in Calls, setup_answered(t, k) PROVE HoldInv'
    BY <2>4, HoldHandedOver
  <2>5. ASSUME ~open_media(t), ~start_media(t), ~setup_fails(t), \A k \in Calls : ~setup_answered(t, k)
        PROVE  HoldInv'
    <3>1. UNCHANGED <<stream, owner, mediaVars>>
      BY <1>1, <2>5 DEF CommandStep, start_call, end_call, answer_call, reject_call, media_refused, hangup, reject_answered,
                         KeepsCalls
    <3>2. task[t].stream = None
      BY <1>1, <2>0, <2>5 DEF CommandStep, start_call, end_call, answer_call, reject_call, media_refused, hangup,
                               reject_answered, Idles, SetsUp
    <3>3. \E r : task' = [task EXCEPT ![t] = r] /\ r.stream = None
      <4>1. ASSUME NEW op, NEW c, NEW k, Becomes(t, Command(op, c, k))
            PROVE  \E r : task' = [task EXCEPT ![t] = r] /\ r.stream = None
        <5>1. Command(op, c, k).stream = None
          BY DEF Command
        <5>. QED  BY <4>1, <5>1 DEF Becomes
      <4>2. ASSUME Becomes(t, Idle) PROVE \E r : task' = [task EXCEPT ![t] = r] /\ r.stream = None
        <5>1. Idle.stream = None
          BY DEF Idle
        <5>. QED  BY <4>2, <5>1 DEF Becomes
      <4>3. ASSUME NEW c \in Chats, start_call(t, c) \/ end_call(t, c) PROVE \E op, d, k : Becomes(t, Command(op, d, k))
        BY <4>3 DEF start_call, end_call
      <4>4. ASSUME NEW k \in Calls, answer_call(t, k) \/ reject_call(t, k) PROVE \E op, d, x : Becomes(t, Command(op, d, x))
        BY <4>4 DEF answer_call, reject_call
      <4>5. ASSUME media_refused(t) \/ hangup(t) \/ reject_answered(t) PROVE Becomes(t, Idle)
        BY <4>5 DEF media_refused, hangup, reject_answered
      <4>. QED  BY <1>1, <2>5, <4>1, <4>2, <4>3, <4>4, <4>5 DEF CommandStep
    <3>4. PICK r : task' = [task EXCEPT ![t] = r] /\ r.stream = None
      BY <3>3
    <3>. QED  BY <3>1, <3>2, <3>4, HoldTurned
  <2>. QED  BY <2>1, <2>2, <2>3, <2>4, <2>5
<1>2. ASSUME NEW k \in Calls, CallStep(k) PROVE HoldInv'
  <2>1. CASE engine_stops(k)
    <3>1. PICK a \in Streams : a = stream[k]
      BY <1>0, <2>1 DEF engine_stops, ManagerTypeOK
    <3>2. ends' = ends \ {a} /\ stage' = stage /\ UNCHANGED <<task, stream, owner>>
      BY <2>1, <3>1 DEF engine_stops, drop_ends, managerVars
    <3>3. \A t \in Tasks : task[t].stream # None => task[t].stream # a
      BY <3>1 DEF HoldInv, AudioHasOneHolder
    <3>4. AudioHasOneHolder'
      BY <3>2, <3>3 DEF HoldInv, AudioHasOneHolder
    <3>5. \A t \in Tasks : SetsUp(t)' <=> SetsUp(t)
      BY <3>2 DEF SetsUp
    <3>6. HoldersKnow'
      BY <3>2, <3>5 DEF HoldInv, HoldersKnow
    <3>. QED  BY <3>4, <3>6 DEF HoldInv
  <2>2. ASSUME ~engine_stops(k) PROVE UNCHANGED <<task, stream, owner, ends, stage>>
    BY <1>2, <2>2 DEF CallStep, offered, offer_over, incoming_call, offer_ends, handle_engine_event, call_ends,
                       monitor_ends, mediaVars
  <2>. QED  BY <2>1, <2>2, HoldUntouched
<1>3. CASE Workers
  <2>1. PICK a \in Streams : (run_playback(a) \/ run_capture(a)) /\ UNCHANGED managerVars
    BY <1>3 DEF Workers
  <2>2. UNCHANGED <<task, stream, owner, ends>>
    BY <2>1 DEF run_playback, run_capture, managerVars
  <2>. QED  BY <1>0, <2>1, <2>2, StaysUsed, HoldUntouched
<1>4. CASE connect \/ (\E m \in Managers : forward(m)) \/ UNCHANGED vars
  <2>1. UNCHANGED <<task, stream, owner, ends, stage>>
    BY <1>4 DEF connect, forward, vars, managerVars, mediaVars
  <2>. QED  BY <2>1, HoldUntouched
<1>. QED  BY <1>1, <1>2, <1>3, <1>4 DEF Next

\* No audio is left without someone who will drop it: whichever commands fail or cross, the ends of an entry are held by
\* the one command that opened it or the one call that was set up with it (media(), spawn_monitor).
THEOREM AudioIsHeld == Spec => []AudioHasOneHolder
<1>1. HoldInv => AudioHasOneHolder
  BY DEF HoldInv
<1>. QED  BY <1>1, HoldStart, HoldStepKeeps, CallInvHolds, PTL DEF Spec

(***************************************************************************)
(* CallManager implements CallLife.                                        *)
(***************************************************************************)
lifeVars == <<phase, raced>>

\* What an update does to the phase of its call is a step of CallLife, and so is the news of one that has crossed another.
LEMMA LifeMoves ==
    ASSUME NEW k \in Calls, phase \in [Calls -> Update \cup {"new"}]
    PROVE  /\ /\ k \in Incoming /\ (phase[k] = "new" \/ (phase[k] = "gone" /\ k \in raced))
              /\ phase' = [phase EXCEPT ![k] = "ringing"] /\ raced' = raced
              => Life!Next
           /\ /\ k \in Incoming /\ (phase[k] \in {"new", "ringing"} \/ (phase[k] \in {"up", "ended"} /\ k \in raced))
              /\ phase' = [phase EXCEPT ![k] = "gone"] /\ raced' = raced
              => Life!Next
           /\ /\ phase[k] \in IF k \in Incoming THEN {"ringing", "gone"} ELSE {"new"}
              /\ phase' = [phase EXCEPT ![k] = "up"]
              /\ raced' = raced \/ (k \in Incoming /\ raced' = raced \cup {k})
              => Life!Next
           /\ phase[k] = "up" /\ phase' = [phase EXCEPT ![k] = "up"] => UNCHANGED phase
           /\ /\ phase[k] = "up" \/ (phase[k] = "gone" /\ k \in raced)
              /\ phase' = [phase EXCEPT ![k] = "ended"] /\ raced' = raced
              => Life!Next
           /\ k \in Incoming /\ phase[k] = "new" /\ raced' = raced \cup {k} /\ phase' = phase => Life!Next
<1>1. Life!Crosses(k) \/ Life!Ring(k) \/ Life!GoAway(k) \/ Life!ComeUp(k) \/ Life!End(k) => Life!Next
  BY DEF Life!Next
<1>2. k \in Incoming /\ phase[k] = "new" /\ raced' = raced \cup {k} /\ phase' = phase => Life!Crosses(k)
  BY DEF Life!Crosses
<1>3. /\ k \in Incoming /\ (phase[k] = "new" \/ (phase[k] = "gone" /\ k \in raced))
      /\ phase' = [phase EXCEPT ![k] = "ringing"] /\ raced' = raced
      => Life!Ring(k)
  BY DEF Life!Ring, Life!Moves, Life!Late
<1>4. /\ k \in Incoming /\ (phase[k] \in {"new", "ringing"} \/ (phase[k] \in {"up", "ended"} /\ k \in raced))
      /\ phase' = [phase EXCEPT ![k] = "gone"] /\ raced' = raced
      => Life!GoAway(k)
  BY DEF Life!GoAway, Life!Moves, Life!Late
<1>5. /\ phase[k] \in IF k \in Incoming THEN {"ringing", "gone"} ELSE {"new"}
      /\ phase' = [phase EXCEPT ![k] = "up"]
      /\ raced' = raced \/ (k \in Incoming /\ raced' = raced \cup {k})
      => Life!ComeUp(k)
  BY DEF Life!ComeUp, Life!Moves
<1>6. /\ phase[k] = "up" \/ (phase[k] = "gone" /\ k \in raced)
      /\ phase' = [phase EXCEPT ![k] = "ended"] /\ raced' = raced
      => Life!End(k)
  BY DEF Life!End, Life!Moves, Life!Late
<1>. QED  BY <1>1, <1>2, <1>3, <1>4, <1>5, <1>6

LEMMA LifeStepTaken == ManagerInv /\ [Next]_vars => [Life!Next]_lifeVars
<1> SUFFICES ASSUME ManagerInv, [Next]_vars PROVE [Life!Next]_lifeVars
  OBVIOUS
<1> USE LifeMoves, PublishTells DEF ManagerInv, ManagerTypeOK, lifeVars
<1>1. ASSUME NEW t \in Tasks, CommandStep(t) PROVE [Life!Next]_lifeVars
  <2>1. ASSUME NEW k \in Calls, setup_answered(t, k) PROVE [Life!Next]_lifeVars
    <3>1. phase[k] \in IF k \in Incoming THEN {"ringing", "gone"} ELSE {"new"}
      BY <2>1 DEF setup_answered, Signalled, SetsUp, Refers, CommandsKnow, PhasesFit
    <3>2. phase' = [phase EXCEPT ![k] = "up"]
      BY <2>1 DEF setup_answered
    <3>3. raced' = raced \/ (k \in Incoming /\ raced' = raced \cup {k})
      BY <2>1 DEF setup_answered, HandlersKnow
    <3>. QED  BY <3>1, <3>2, <3>3
  <2>2. ASSUME \A k \in Calls : ~setup_answered(t, k) PROVE UNCHANGED lifeVars
    BY <1>1, <2>2 DEF CommandStep, start_call, end_call, answer_call, reject_call, media_refused, open_media,
                       start_media, setup_fails, hangup, reject_answered, KeepsCalls
  <2>. QED  BY <2>1, <2>2
<1>2. ASSUME NEW k \in Calls, CallStep(k) PROVE [Life!Next]_lifeVars
  <2>1. CASE incoming_call(k)
    BY <2>1 DEF incoming_call, Handles, HandlersKnow
  <2>2. CASE offer_ends(k)
    <3>1. phase' = [phase EXCEPT ![k] = "gone"] /\ raced' = raced /\ k \in Incoming /\ phase[k] # "gone"
      BY <2>2 DEF offer_ends, Handles, HandlersKnow
    <3>2. phase[k] \in {"up", "ended"} => k \in raced
      BY <2>2 DEF offer_ends, Handles, HandlersKnow, PhasesFit
    <3>. QED  BY <3>1, <3>2 DEF Update
  <2>3. CASE handle_engine_event(k)
    <3>1. phase' = [phase EXCEPT ![k] = "up"] /\ raced' = raced
      BY <2>3 DEF handle_engine_event
    <3>2. phase[k] = "up" \/ (phase[k] = "gone" /\ k \in Incoming)
      BY <2>3 DEF handle_engine_event, PhasesFit
    <3>. QED  BY <3>1, <3>2
  <2>4. CASE monitor_ends(k)
    BY <2>4 DEF monitor_ends, PhasesFit
  <2>5. CASE offered(k) \/ call_ends(k) \/ engine_stops(k)
    BY <2>5 DEF offered, call_ends, engine_stops, managerVars
  <2>6. CASE offer_over(k)
    BY <2>6 DEF offer_over, HandlersKnow, PhasesFit
  <2>. QED  BY <1>2, <2>1, <2>2, <2>3, <2>4, <2>5, <2>6 DEF CallStep
<1>3. CASE connect \/ Workers \/ (\E m \in Managers : forward(m)) \/ UNCHANGED vars
  BY <1>3 DEF connect, Workers, forward, managerVars, vars
<1>. QED  BY <1>1, <1>2, <1>3 DEF Next

\* The updates of a call follow the life of a call for any number of commands, reconnects and calls and any order in which
\* the events of the library are handled: an offer rings once and first, and nothing comes after Ended; only where the end
\* of an offer crossed the offer or its answer may the news of it come too early or too late.
THEOREM ImplementsCallLife == Spec => LifeSpec
<1>1. Init => Life!Init
  BY DEF Init, Life!Init
<1>2. CallInv /\ [Next]_vars => [Life!Next]_lifeVars
  BY LifeStepTaken DEF CallInv
<1>. QED  BY <1>1, <1>2, CallInvHolds, PTL DEF Spec, LifeSpec, Life!Spec, lifeVars
=============================================================================
