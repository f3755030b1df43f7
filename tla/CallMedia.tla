------------------------------ MODULE CallMedia ------------------------------
(***************************************************************************)
(* The audio side of calls (call_media.rs): the registry of streams by     *)
(* chat, the media() call that opens and registers them, and the playback  *)
(* and capture workers of each.  One entry per media() call; what passes   *)
(* through the streams is CallAudio's subject.                             *)
(***************************************************************************)
EXTENDS Naturals, FiniteSets

CONSTANTS
    Chats, None,
    MaxStreams      \* bound: how often audio is opened

Streams == 1..MaxStreams

ASSUME MediaAssumption == None \notin Chats \cup Nat /\ MaxStreams \in Nat

VARIABLES
    calls,      \* the registry: the entry of each chat, or None
    chat,       \* the chat an entry was opened for
    stop,       \* the entries told to stop
    stage,      \* how far an entry is: its media() call, then its playback worker
    capture,    \* the entries whose capture worker runs
    ends        \* the entries whose channel ends are still held outside

mediaVars == <<calls, chat, stop, stage, capture, ends>>

Stages == {"unused", "registered", "running", "over"}
InMedia(a) == stage[a] = "registered"

\* The cpal streams live as long as media(), the playback job or the registry holds the entry.
Open(a) == InMedia(a) \/ stage[a] = "running" \/ \E c \in Chats : calls[c] = a

MediaInit ==
    /\ calls = [c \in Chats |-> None]
    /\ chat = [a \in Streams |-> None]
    /\ stop = {}
    /\ stage = [a \in Streams |-> "unused"]
    /\ capture = {}
    /\ ends = {}

\* media() opened the devices and registers the entry; one it replaces is told to stop.
register(a, c) ==
    /\ stage[a] = "unused" /\ \A b \in Streams : stage[b] = "unused" => a <= b
    /\ stage' = [stage EXCEPT ![a] = "registered"]
    /\ chat' = [chat EXCEPT ![a] = c]
    /\ calls' = [calls EXCEPT ![c] = a]
    /\ stop' = IF calls[c] = None THEN stop ELSE stop \cup {calls[c]}
    /\ ends' = ends \cup {a}
    /\ UNCHANGED capture

\* mutant: whatever the chat's entry is, it is taken out
stop_and_remove_any(a) ==
    /\ stop' = stop \cup {a}
    /\ calls' = [calls EXCEPT ![chat[a]] = None]
stop_and_remove(a) ==
    /\ stop' = stop \cup {a}
    /\ calls' = [c \in Chats |-> IF c = chat[a] /\ calls[c] = a THEN None ELSE calls[c]]

\* mutant: the entry stays registered
media_fails_registered(a) ==
    /\ InMedia(a)
    /\ stop' = stop \cup {a}
    /\ stage' = [stage EXCEPT ![a] = "over"]
    /\ capture' \in {capture, capture \cup {a}}
    /\ ends' = ends \ {a}
    /\ UNCHANGED <<calls, chat>>
\* A stream did not play or a worker did not start: media() cleans up and fails; the
\* capture worker, which starts before the playback worker, may be running by then.
media_fails(a) ==
    /\ InMedia(a)
    /\ stop_and_remove(a)
    /\ stage' = [stage EXCEPT ![a] = "over"]
    /\ capture' \in {capture, capture \cup {a}}
    /\ ends' = ends \ {a}
    /\ UNCHANGED chat

\* Both streams play and both workers run: media() returns the channel ends.
media_starts(a) ==
    /\ InMedia(a)
    /\ stage' = [stage EXCEPT ![a] = "running"]
    /\ capture' = capture \cup {a}
    /\ UNCHANGED <<calls, chat, stop, ends>>

\* Whoever got the ends drops them: the setup failed or the engine stopped.
drop_ends(a) ==
    /\ stage[a] \in {"running", "over"}
    /\ a \in ends
    /\ ends' = ends \ {a}
    /\ UNCHANGED <<calls, chat, stop, stage, capture>>

\* mutant: closed channels go unnoticed
run_playback_deaf(a) ==
    /\ stage[a] = "running"
    /\ a \in stop
    /\ stop_and_remove(a)
    /\ stage' = [stage EXCEPT ![a] = "over"]
    /\ UNCHANGED <<chat, capture, ends>>
\* The playback worker finds the flag set or a channel closed.
run_playback(a) ==
    /\ stage[a] = "running"
    /\ a \in stop \/ a \notin ends
    /\ stop_and_remove(a)
    /\ stage' = [stage EXCEPT ![a] = "over"]
    /\ UNCHANGED <<chat, capture, ends>>

\* The capture worker ends when the input stream is gone, or after a block if it
\* is told to stop or nobody takes its frames.
run_capture(a) ==
    /\ a \in capture
    /\ ~Open(a) \/ a \in stop \/ a \notin ends
    /\ capture' = capture \ {a}
    /\ UNCHANGED <<calls, chat, stop, stage, ends>>

MediaNext ==
    \E a \in Streams :
       \/ \E c \in Chats : register(a, c)
       \/ media_fails(a) \/ media_starts(a)
       \/ drop_ends(a) \/ run_playback(a) \/ run_capture(a)

MediaSpec == MediaInit /\ [][MediaNext]_mediaVars

\* What the workers do without a block from the microphone: an input stream that is gone
\* wakes the capture worker.
WorkerStep(a) == run_playback(a) \/ (~Open(a) /\ run_capture(a))

-----------------------------------------------------------------------------
MediaTypeOK ==
    /\ calls \in [Chats -> Streams \cup {None}]
    /\ chat \in [Streams -> Chats \cup {None}]
    /\ stop \in SUBSET Streams
    /\ stage \in [Streams -> Stages]
    /\ capture \in SUBSET Streams
    /\ ends \in SUBSET Streams

\* An open entry that nobody told to stop is the registered one of its chat, where the
\* next call finds and stops it; a teardown leaves the entry of a newer call alone.
UnstoppedIsRegistered ==
    \A a \in Streams : Open(a) /\ a \notin stop => calls[chat[a]] = a

\* No chat has two open entries that were not told to stop.
OneVoicePerChat ==
    \A a, b \in Streams :
       /\ Open(a) /\ Open(b)
       /\ chat[a] = chat[b]
       /\ a \notin stop /\ b \notin stop
       => a = b

\* No entry stays in the registry without a media() call or a playback worker that
\* will take it out: no stream outlives its call.
RegisteredHaveOwners ==
    \A c \in Chats : calls[c] # None => stage[calls[c]] \in {"registered", "running"} /\ chat[calls[c]] = c

\* The registry is sound: no stream plays out of its reach, and none is kept past its call.
RegistryIsSound == UnstoppedIsRegistered /\ RegisteredHaveOwners
=============================================================================
