----------------------------- MODULE CallManager -----------------------------
(***************************************************************************)
(* Voice calls (calls.rs, module manager): the manager that each connect   *)
(* puts in the client's slot, its registries of active and ringing calls,  *)
(* the commands that check, open the audio of CallMedia and await the      *)
(* network, the monitor of each call and the bus to the user interface.    *)
(* The library is external: it may answer or fail any request, a call may  *)
(* end at any time, and each of its events is handled by a task of its     *)
(* own, in any order.                                                      *)
(***************************************************************************)
EXTENDS CallMedia, Sequences

CONSTANTS
    Calls, Incoming,    \* call ids, and those the other side offers
    PeerOf,             \* the chat of each call
    Tasks,              \* commands under way at a time
    MaxManagers,        \* bound: how often the client connects
    BusCapacity         \* CALL_BUS_CAPACITY

ASSUME ManagerAssumption ==
    /\ Incoming \subseteq Calls
    /\ PeerOf \in [Calls -> Chats]
    /\ None \notin Calls
    /\ MaxManagers \in Nat /\ BusCapacity \in Nat \ {0}

Managers == 1..MaxManagers

VARIABLES
    slot,       \* the manager the client uses, 0 before the first connect
    active,     \* by manager and chat, the call that can be ended and muted
    ringing,    \* by manager, the offers that can be answered
    task,       \* the command each task runs
    server,     \* what the library knows of a call
    owner,      \* the manager a call was set up by, or 0
    watched,    \* the calls whose monitor runs
    stream,     \* the audio entry of a call
    phase,      \* the last update published of a call
    bus,        \* by manager, the updates its forwarder has not read
    lagged,     \* the managers whose forwarder met Lagged and ended
    told,       \* the calls whose Ended reached the user interface
    news,       \* by call, the events of it whose handlers have not run
    raced       \* history: the calls whose end may be handled out of turn

managerVars == <<slot, active, ringing, task, server, owner, watched, stream, phase, bus, lagged, told, news, raced>>
vars == <<mediaVars, managerVars>>

Update == {"ringing", "gone", "up", "ended"}
Idle == [op |-> "idle", chat |-> None, call |-> None, mgr |-> 0, stream |-> None]
Task == [op : {"idle", "start", "answer", "reject", "hangup"}, chat : Chats \cup {None},
         call : Calls \cup {None}, mgr : 0..MaxManagers, stream : Streams \cup {None}]

Init ==
    /\ MediaInit
    /\ slot = 0
    /\ active = [m \in Managers |-> [c \in Chats |-> None]]
    /\ ringing = [m \in Managers |-> {}]
    /\ task = [t \in Tasks |-> Idle]
    /\ server = [k \in Calls |-> "unknown"]
    /\ owner = [k \in Calls |-> 0]
    /\ watched = {}
    /\ stream = [k \in Calls |-> None]
    /\ phase = [k \in Calls |-> "new"]
    /\ bus = [m \in Managers |-> <<>>]
    /\ lagged = {}
    /\ told = {}
    /\ news = [k \in Calls |-> {}]
    /\ raced = {}

-----------------------------------------------------------------------------
(* The bus: a full one overwrites, and the forwarder ends at its next read. *)

\* mutant: an unbounded bus
publish_unbounded(m, k, u) ==
    /\ phase' = [phase EXCEPT ![k] = u]
    /\ bus' = [bus EXCEPT ![m] = Append(@, [call |-> k, update |-> u])]
    /\ UNCHANGED lagged
publish(m, k, u) ==
    /\ phase' = [phase EXCEPT ![k] = u]
    /\ LET full == Len(bus[m]) = BusCapacity IN
       /\ lagged' = IF full THEN lagged \cup {m} ELSE lagged
       /\ bus' = [bus EXCEPT ![m] = IF full \/ m \in lagged THEN <<>> ELSE Append(@, [call |-> k, update |-> u])]

\* The loop in connect that forwards call updates to the events of the client.
forward(m) ==
    /\ bus[m] # <<>>
    /\ bus' = [bus EXCEPT ![m] = Tail(@)]
    /\ told' = IF Head(bus[m]).update = "ended" THEN told \cup {Head(bus[m]).call} ELSE told
    /\ UNCHANGED <<mediaVars, slot, active, ringing, task, server, owner, watched, stream, phase, lagged, news, raced>>

\* connect builds a client and replaces the manager in the slot.
connect ==
    /\ slot < MaxManagers
    /\ slot' = slot + 1
    /\ UNCHANGED <<mediaVars, active, ringing, task, server, owner, watched, stream, phase, bus, lagged, told, news, raced>>

-----------------------------------------------------------------------------
(* Commands.  Each runs on the manager that was in the slot when it came. *)

Idles(t) == slot # 0 /\ task[t].op = "idle"
Becomes(t, r) == task' = [task EXCEPT ![t] = r]
Command(op, c, k) == [op |-> op, chat |-> c, call |-> k, mgr |-> slot, stream |-> None]
KeepsCalls ==
    UNCHANGED <<slot, active, ringing, server, owner, watched, stream, phase, bus, lagged, told, news, raced>>

\* The check under the lock of the registry; what follows runs without it.
start_call(t, c) ==
    /\ Idles(t)
    /\ active[slot][c] = None
    /\ Becomes(t, Command("start", c, None))
    /\ UNCHANGED mediaVars /\ KeepsCalls

answer_call(t, k) ==
    /\ Idles(t)
    /\ k \in ringing[slot]
    /\ active[slot][PeerOf[k]] = None
    /\ Becomes(t, Command("answer", PeerOf[k], k))
    /\ UNCHANGED mediaVars /\ KeepsCalls

SetsUp(t) == task[t].op \in {"start", "answer"}

\* media(): no device, or it opens the streams and registers them ...
media_refused(t) ==
    /\ SetsUp(t) /\ task[t].stream = None
    /\ Becomes(t, Idle)
    /\ UNCHANGED mediaVars /\ KeepsCalls

open_media(t) ==
    /\ SetsUp(t) /\ task[t].stream = None
    /\ \E a \in Streams :
          /\ register(a, task[t].chat)
          /\ Becomes(t, [task[t] EXCEPT !.stream = a])
    /\ KeepsCalls

\* ... then starts them.
start_media(t) ==
    /\ task[t].stream # None
    /\ \/ UNCHANGED task /\ media_starts(task[t].stream)
       \/ Becomes(t, Idle) /\ media_fails(task[t].stream)
    /\ KeepsCalls

Signalled(t) == SetsUp(t) /\ task[t].stream # None /\ ~InMedia(task[t].stream)

\* builder.start() failed: the library drops the ends, nothing was registered.
setup_fails(t) ==
    /\ Signalled(t)
    /\ drop_ends(task[t].stream)
    /\ Becomes(t, Idle)
    /\ KeepsCalls

\* builder.start() returned the handle of call k.
setup_answered(t, k) ==
    LET m == task[t].mgr IN
    /\ Signalled(t)
    /\ PeerOf[k] = task[t].chat
    /\ IF task[t].op = "answer" THEN k = task[t].call /\ server[k] # "live" /\ owner[k] = 0
                                ELSE k \notin Incoming /\ server[k] = "unknown"
    /\ server' = [server EXCEPT ![k] = "live"]
    /\ ringing' = [ringing EXCEPT ![m] = @ \ {k}]
    /\ active' = [active EXCEPT ![m][task[t].chat] = k]
    /\ publish(m, k, "up")
    /\ owner' = [owner EXCEPT ![k] = m]
    /\ watched' = watched \cup {k}
    /\ stream' = [stream EXCEPT ![k] = task[t].stream]
    /\ Becomes(t, Idle)
    /\ raced' = IF "end" \in news[k] THEN raced \cup {k} ELSE raced
    /\ UNCHANGED <<mediaVars, slot, told, news>>

\* end_call takes the handle out, then awaits the hangup.
end_call(t, c) ==
    /\ Idles(t)
    /\ active[slot][c] # None
    /\ active' = [active EXCEPT ![slot][c] = None]
    /\ Becomes(t, Command("hangup", c, active[slot][c]))
    /\ UNCHANGED <<mediaVars, slot, ringing, server, owner, watched, stream, phase, bus, lagged, told, news, raced>>

hangup(t) ==
    /\ task[t].op = "hangup"
    /\ server' = [server EXCEPT ![task[t].call] = "over"]
    /\ Becomes(t, Idle)
    /\ UNCHANGED <<mediaVars, slot, active, ringing, owner, watched, stream, phase, bus, lagged, told, news, raced>>

reject_call(t, k) ==
    /\ Idles(t)
    /\ k \in ringing[slot]
    /\ Becomes(t, Command("reject", PeerOf[k], k))
    /\ UNCHANGED mediaVars /\ KeepsCalls

\* The offer is taken from the ringing ones only when the server took the answer.
reject_answered(t) ==
    LET k == task[t].call IN
    /\ task[t].op = "reject"
    /\ Becomes(t, Idle)
    /\ \/ UNCHANGED <<ringing, server>>
       \/ /\ ringing' = [ringing EXCEPT ![task[t].mgr] = @ \ {k}]
          /\ server' = [server EXCEPT ![k] = IF @ = "live" THEN @ ELSE "over"]
    /\ UNCHANGED <<mediaVars, slot, active, owner, watched, stream, phase, bus, lagged, told, news, raced>>

-----------------------------------------------------------------------------
(* Events of the library.  One of an offer starts a task that handles it, on the manager  *)
(* that is then in the slot; the lock of the slot makes each handler one step.            *)

offered(k) ==
    /\ slot # 0 /\ k \in Incoming /\ server[k] = "unknown"
    /\ server' = [server EXCEPT ![k] = "ringing"]
    /\ news' = [news EXCEPT ![k] = @ \cup {"offer"}]
    /\ UNCHANGED <<mediaVars, slot, active, ringing, task, owner, watched, stream, phase, bus, lagged, told, raced>>

\* The offer went away, or was missed while this device was offline.
offer_over(k) ==
    /\ slot # 0 /\ k \in Incoming /\ server[k] \in {"unknown", "ringing"}
    /\ server' = [server EXCEPT ![k] = "over"]
    /\ news' = [news EXCEPT ![k] = @ \cup {"end"}]
    /\ raced' = IF "offer" \in news[k] THEN raced \cup {k} ELSE raced
    /\ UNCHANGED <<mediaVars, slot, active, ringing, task, owner, watched, stream, phase, bus, lagged, told>>

Handles(k, e) == e \in news[k] /\ news' = [news EXCEPT ![k] = @ \ {e}]

\* IncomingCall: the offer is kept so that it can be answered later.
incoming_call(k) ==
    /\ Handles(k, "offer")
    /\ ringing' = [ringing EXCEPT ![slot] = @ \cup {k}]
    /\ publish(slot, k, "ringing")
    /\ UNCHANGED <<mediaVars, slot, active, task, server, owner, watched, stream, told, raced>>

\* mutant: an offer that went away can still be answered
offer_ends_ringing(k) ==
    /\ Handles(k, "end")
    /\ publish(slot, k, "gone")
    /\ UNCHANGED <<mediaVars, slot, active, ringing, task, server, owner, watched, stream, told, raced>>
\* MissedCall, of a ringing offer or replayed after being offline, and CallEndedElsewhere.
offer_ends(k) ==
    /\ Handles(k, "end")
    /\ ringing' = [ringing EXCEPT ![slot] = @ \ {k}]
    /\ publish(slot, k, "gone")
    /\ UNCHANGED <<mediaVars, slot, active, task, server, owner, watched, stream, told, raced>>

\* mutant: events are forwarded after the end
late_engine_event(k) ==
    /\ owner[k] # 0
    /\ publish(owner[k], k, "up")
    /\ UNCHANGED <<mediaVars, slot, active, ringing, task, server, owner, watched, stream, told, news, raced>>
\* The monitor forwards an engine event that stands for a state.
handle_engine_event(k) ==
    /\ k \in watched
    /\ publish(owner[k], k, "up")
    /\ UNCHANGED <<mediaVars, slot, active, ringing, task, server, owner, watched, stream, told, news, raced>>

\* The peer hung up or the media failed.
call_ends(k) ==
    /\ server[k] = "live"
    /\ server' = [server EXCEPT ![k] = "over"]
    /\ UNCHANGED <<mediaVars, slot, active, ringing, task, owner, watched, stream, phase, bus, lagged, told, news, raced>>

\* The engine of a call that is over lets go of its audio.
engine_stops(k) ==
    /\ server[k] = "over" /\ stream[k] # None
    /\ drop_ends(stream[k])
    /\ UNCHANGED managerVars

\* mutant: the ended call stays registered
monitor_ends_active(k) ==
    /\ k \in watched /\ server[k] = "over"
    /\ publish(owner[k], k, "ended")
    /\ watched' = watched \ {k}
    /\ UNCHANGED <<mediaVars, slot, active, ringing, task, server, owner, stream, told, news, raced>>

\* mutant: nothing is published
monitor_ends_silently(k) ==
    /\ k \in watched /\ server[k] = "over"
    /\ active' = [active EXCEPT ![owner[k]][PeerOf[k]] = None]
    /\ watched' = watched \ {k}
    /\ UNCHANGED <<mediaVars, slot, ringing, task, server, owner, stream, phase, bus, lagged, told, news, raced>>
\* The end of spawn_monitor, which clears the entry of the chat whatever it holds.
monitor_ends(k) ==
    /\ k \in watched /\ server[k] = "over"
    /\ active' = [active EXCEPT ![owner[k]][PeerOf[k]] = None]
    /\ publish(owner[k], k, "ended")
    /\ watched' = watched \ {k}
    /\ UNCHANGED <<mediaVars, slot, ringing, task, server, owner, stream, told, news, raced>>

Workers == \E a \in Streams : (run_playback(a) \/ run_capture(a)) /\ UNCHANGED managerVars

CommandStep(t) ==
    \/ \E c \in Chats : start_call(t, c) \/ end_call(t, c)
    \/ \E k \in Calls : answer_call(t, k) \/ reject_call(t, k) \/ setup_answered(t, k)
    \/ media_refused(t) \/ open_media(t) \/ start_media(t) \/ setup_fails(t)
    \/ hangup(t) \/ reject_answered(t)

CallStep(k) ==
    \/ offered(k) \/ offer_over(k) \/ incoming_call(k) \/ offer_ends(k) \/ handle_engine_event(k)
    \/ call_ends(k) \/ engine_stops(k) \/ monitor_ends(k)

Next ==
    \/ connect \/ Workers
    \/ \E m \in Managers : forward(m)
    \/ \E t \in Tasks : CommandStep(t)
    \/ \E k \in Calls : CallStep(k)

Spec == Init /\ [][Next]_vars

\* The runtime polls the monitors and the forwarders, worker threads are scheduled, and
\* the library lets go of the audio of a call that is over.  Workers, monitors and engines
\* take finitely many of these steps, so one condition covers all of a kind.
Fairness ==
    /\ \A m \in Managers : WF_vars(forward(m))
    /\ WF_vars(\E k \in Calls : monitor_ends(k) \/ engine_stops(k))
    /\ WF_vars(\E a \in Streams : WorkerStep(a) /\ UNCHANGED managerVars)

FairSpec == Spec /\ Fairness

-----------------------------------------------------------------------------
TypeOK ==
    /\ MediaTypeOK
    /\ slot \in 0..MaxManagers
    /\ active \in [Managers -> [Chats -> Calls \cup {None}]]
    /\ ringing \in [Managers -> SUBSET Incoming]
    /\ task \in [Tasks -> Task]
    /\ server \in [Calls -> {"unknown", "ringing", "live", "over"}]
    /\ owner \in [Calls -> 0..MaxManagers]
    /\ watched \subseteq Calls /\ told \subseteq Calls
    /\ stream \in [Calls -> Streams \cup {None}]
    /\ phase \in [Calls -> Update \cup {"new"}]
    /\ \A m \in Managers : Len(bus[m]) <= BusCapacity
    /\ lagged \subseteq Managers
    /\ news \in [Calls -> SUBSET {"offer", "end"}]
    /\ raced \subseteq Incoming

\* A call that can be ended or muted is one of that chat whose monitor still runs: the
\* registry is not left with a call that is over, which would refuse every later call.
ActiveAreWatched ==
    \A m \in Managers, c \in Chats :
       active[m][c] # None => /\ active[m][c] \in watched
                              /\ owner[active[m][c]] = m
                              /\ PeerOf[active[m][c]] = c

\* An offer that can be answered is one the user interface was last told is ringing.
RingingIsCurrent == slot # 0 => \A k \in ringing[slot] : phase[k] = "ringing"

\* An offer that went away cannot be answered once that is handled; one whose two handlers
\* crossed can.
RingingIsOffered ==
    slot # 0 => \A k \in ringing[slot] : server[k] = "over" => "end" \in news[k] \/ k \in raced

\* Neither table of the manager is left with a call that it can do nothing for.
TablesAreCurrent == ActiveAreWatched /\ RingingIsCurrent /\ RingingIsOffered

\* Every call that is over is reported as ended, unless the forwarder fell behind.
EndedIsTold ==
    \A k \in Calls : (k \in watched /\ server[k] = "over") ~> (k \in told \/ owner[k] \in lagged)

\* Streams that lost their call close, and their workers end.
AudioEnds ==
    \A a \in Streams : (stage[a] \in {"running", "over"} /\ a \notin ends) ~> (~Open(a) /\ a \notin capture)

\* The updates of a call, whoever publishes them and in whatever order the events are
\* handled, follow the life of a call.
Life == INSTANCE CallLife
LifeSpec == Life!Spec

\* A live call of the current manager that nobody is hanging up can be ended and muted.
CallsAreReachable ==
    \A k \in Calls :
       server[k] = "live" /\ owner[k] = slot /\ (\A t \in Tasks : task[t].call # k)
       => active[slot][PeerOf[k]] = k

\* The audio of a live call is not stopped by another call of the same chat.
CallsKeepTheirVoice == \A k \in Calls : server[k] = "live" => stream[k] \notin stop

-----------------------------------------------------------------------------
(* More than the code keeps. *)

\* No offer that went away is left ringing once its end is handled.
RingingIsAlwaysOffered ==
    slot # 0 => \A k \in ringing[slot] : server[k] = "over" => "end" \in news[k]

\* The updates of every call follow the life of one whose events are handled in turn.
InTurn == INSTANCE CallLife WITH raced <- {}
LifeIsAlwaysInTurn == InTurn!Spec
=============================================================================
