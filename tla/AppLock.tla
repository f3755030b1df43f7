-------------------------------- MODULE AppLock --------------------------------
(***************************************************************************)
(* The app lock: the preference file (app_lock.rs), the clock that decides *)
(* when a refocus locks (security.rs), and the overlay of the page         *)
(* (LockScreen.tsx).  The commands that write the preference and the focus *)
(* events share the main thread; the prompt, the page and what is under    *)
(* way between page and host go on beside them.                            *)
(***************************************************************************)
EXTENDS Naturals, Sequences, FiniteSets

CONSTANTS
    Unset,              \* no value: a missing file, a timeout that is not in the file
    Half,               \* the content of a file that is being written
    DefaultTimeout, MinTimeout, MaxTimeout,
    Timeouts,           \* what a page asks set_app_lock_timeout for
    OldPreferences,     \* contents of the file from earlier versions of the program
    LateAnswers,        \* may an answer or event take as long as a timeout?
    MaxLockTime,        \* bound: the clock
    MaxLockFaults       \* bound: crashes, failed reads and failed writes

VARIABLES
    lockFile,       \* the preference file and the temporary file beside it
    writing,        \* what a command is storing, and for which choice, or Unset
    hiddenSince,    \* FocusClock
    lockTime,
    screen,         \* the page: overlay, mirror, listeners, and what is under way
    prompt,         \* security_unlock: idle, shown, or proven and about to be told
    chosen,         \* what the user chose, by the commands that succeeded
    misread,        \* a read of the preference failed
    left,           \* when the window was left, or Unset
    proven,         \* the user authenticated since the window was left or the page loaded
    owed,           \* the app is to be covered until the user authenticates
    lockFaults

Preference == [enabled : BOOLEAN, timeout : Nat]
Stored == [enabled : BOOLEAN, timeout : Nat \cup {Unset}]

ASSUME LockAssumption ==
    /\ MinTimeout \in Nat \ {0} /\ MaxTimeout \in Nat /\ DefaultTimeout \in MinTimeout..MaxTimeout
    /\ Unset \notin Nat /\ Unset \notin Stored /\ Half \notin Stored /\ Unset \notin [enabled : BOOLEAN]
    /\ OldPreferences \subseteq [enabled : BOOLEAN, timeout : MinTimeout..MaxTimeout \cup {Unset}] \cup {Unset, Half}

lockVars == <<lockFile, writing, hiddenSince, lockTime, screen, prompt,
              chosen, misread, left, proven, owed, lockFaults>>

\* A file of an older version has no timeout, which reads as the default.
Parsed(file) ==
    IF file \in {Unset, Half} THEN Unset
    ELSE [file EXCEPT !.timeout = IF @ = Unset THEN DefaultTimeout ELSE @]

\* read_preference fails on an I/O error, which reads like a file that is not there.
CanRead == {Parsed(lockFile.main)} \cup (IF lockFaults < MaxLockFaults THEN {Unset} ELSE {})

\* Keeps account of whether reads returned the file's content.
NoteReads(reads) ==
    IF reads = {Parsed(lockFile.main)} THEN UNCHANGED <<misread, lockFaults>>
    ELSE misread' = TRUE /\ lockFaults' = lockFaults + 1

Enabled(read) == read # Unset /\ read.enabled
TimeoutOf(read) == IF read = Unset THEN DefaultTimeout ELSE read.timeout
AtLeastMin(t) == IF t < MinTimeout THEN MinTimeout ELSE t

\* A page that loads covers itself when the mirror says so, asks for the two listeners
\* and asks the host whether the lock is on.
NewScreen(mirror) ==
    [locked |-> mirror, mirror |-> mirror, listens |-> FALSE, gate |-> "asked",
     events |-> <<>>, unlocked |-> FALSE, saved |-> Unset]

\* Unset is under way between the page and the host.
LockSettled ==
    /\ screen.listens /\ screen.gate = "done" /\ screen.events = <<>>
    /\ ~screen.unlocked /\ screen.saved = Unset /\ writing = Unset /\ prompt # "proven"

LockInit ==
    /\ \E file \in OldPreferences :
           /\ lockFile = [main |-> file, tmp |-> Unset]
           /\ chosen = [enabled |-> Enabled(Parsed(file)), timeout |-> TimeoutOf(Parsed(file))]
           /\ owed = Enabled(Parsed(file))
    /\ \E mirror \in BOOLEAN : screen = NewScreen(mirror)
    /\ writing = Unset /\ hiddenSince = Unset /\ left = Unset
    /\ lockTime = 0 /\ lockFaults = 0
    /\ prompt = "idle"
    /\ misread = FALSE /\ proven = FALSE

-----------------------------------------------------------------------------
(* The preference file.  Settings are reached while the page is uncovered. *)

AtSettings == ~screen.locked /\ screen.saved = Unset /\ (screen.gate = "done" \/ LateAnswers)
KeepsHost == UNCHANGED <<hiddenSince, lockTime, prompt, left, proven>>

\* mutant: the file itself is written, not a temporary one
write_in_place(preference, choice, mirrored) ==
    /\ writing' = [preference |-> preference, choice |-> choice, mirrored |-> mirrored]
    /\ lockFile' = [lockFile EXCEPT !.main = Half]
\* write_preference begins: a temporary file, incomplete at first.
write_preference(preference, choice, mirrored) ==
    /\ writing' = [preference |-> preference, choice |-> choice, mirrored |-> mirrored]
    /\ lockFile' = [lockFile EXCEPT !.tmp = Half]

\* The switch: stores the timeout that is there, or the default.
set_app_lock(enabled) ==
    /\ writing = Unset /\ AtSettings
    /\ \E read \in CanRead :
           /\ NoteReads({read})
           /\ write_preference([enabled |-> enabled, timeout |-> TimeoutOf(read)],
                               [chosen EXCEPT !.enabled = enabled], TRUE)
    /\ UNCHANGED <<screen, chosen, owed>> /\ KeepsHost

\* The timeout: stores the switch as it is, off when the read fails.
set_app_lock_timeout(secs) ==
    /\ writing = Unset /\ AtSettings
    /\ secs \in MinTimeout..MaxTimeout
    /\ \E read \in CanRead :
           /\ NoteReads({read})
           /\ write_preference([enabled |-> Enabled(read), timeout |-> secs],
                               [chosen EXCEPT !.timeout = secs], FALSE)
    /\ UNCHANGED <<screen, chosen, owed>> /\ KeepsHost

\* The temporary file is complete.
write_temporary ==
    /\ writing # Unset /\ lockFile.tmp # writing.preference
    /\ lockFile' = [lockFile EXCEPT !.tmp = writing.preference]
    /\ UNCHANGED <<writing, screen, chosen, misread, owed, lockFaults>> /\ KeepsHost

\* It takes the place of the preference file, and the command's answer is on its way.
rename ==
    /\ writing # Unset /\ lockFile.tmp = writing.preference
    /\ lockFile' = [main |-> lockFile.tmp, tmp |-> Unset]
    /\ writing' = Unset
    /\ chosen' = writing.choice
    /\ owed' = (owed /\ writing.choice.enabled)
    /\ screen' = IF writing.mirrored THEN [screen EXCEPT !.saved = [enabled |-> writing.choice.enabled]] ELSE screen
    /\ UNCHANGED <<misread, lockFaults>> /\ KeepsHost

\* Writing or renaming fails, and the command with it.
write_fails ==
    /\ writing # Unset /\ lockFaults < MaxLockFaults
    /\ writing' = Unset
    /\ lockFaults' = lockFaults + 1
    /\ UNCHANGED <<lockFile, screen, chosen, misread, owed>> /\ KeepsHost

\* changeEnabled goes on: the switch is mirrored.
mirror_saved ==
    /\ screen.saved # Unset
    /\ screen' = [screen EXCEPT !.saved = Unset, !.mirror = screen.saved.enabled]
    /\ UNCHANGED <<lockFile, writing, chosen, misread, owed, lockFaults>> /\ KeepsHost

-----------------------------------------------------------------------------
(* The window and the clock *)

KeepsFile == UNCHANGED <<lockFile, writing, chosen>>

Emit(event) == IF screen.listens THEN [screen EXCEPT !.events = Append(@, event)] ELSE screen

note_hidden == hiddenSince' = lockTime
take_hidden_for == hiddenSince # Unset /\ hiddenSince' = Unset

\* handle_focus_change(false)
focus_lost ==
    /\ writing = Unset /\ hiddenSince = Unset
    /\ note_hidden
    /\ left' = lockTime
    /\ proven' = FALSE
    /\ UNCHANGED <<lockTime, screen, prompt, misread, owed, lockFaults>> /\ KeepsFile

\* mutant: the window must be hidden for longer than the timeout
focus_gained_later ==
    /\ writing = Unset /\ take_hidden_for
    /\ \E switch \in CanRead, timeout \in CanRead :
           /\ NoteReads({switch, timeout})
           /\ screen' = IF Enabled(switch) /\ lockTime - hiddenSince > AtLeastMin(TimeoutOf(timeout))
                        THEN Emit("lock") ELSE screen
    /\ owed' = (owed \/ (chosen.enabled /\ ~proven /\ lockTime - left >= chosen.timeout))
    /\ left' = Unset
    /\ UNCHANGED <<lockTime, prompt, proven>> /\ KeepsFile
\* handle_focus_change(true): the preference is read twice, for the switch and for the timeout.
focus_gained ==
    /\ writing = Unset /\ take_hidden_for
    /\ \E switch \in CanRead, timeout \in CanRead :
           /\ NoteReads({switch, timeout})
           /\ screen' = IF Enabled(switch) /\ lockTime - hiddenSince >= AtLeastMin(TimeoutOf(timeout))
                        THEN Emit("lock") ELSE screen
    /\ owed' = (owed \/ (chosen.enabled /\ ~proven /\ lockTime - left >= chosen.timeout))
    /\ left' = Unset
    /\ UNCHANGED <<lockTime, prompt, proven>> /\ KeepsFile

\* A second passes.
lock_tick ==
    /\ lockTime < MaxLockTime
    /\ LateAnswers \/ LockSettled
    /\ lockTime' = lockTime + 1
    /\ UNCHANGED <<hiddenSince, screen, prompt, misread, left, proven, owed, lockFaults>> /\ KeepsFile

-----------------------------------------------------------------------------
(* The overlay and the prompt *)

KeepsClock == UNCHANGED <<hiddenSince, lockTime, left>>
ScreenOnly == UNCHANGED <<prompt, proven, owed, misread, lockFaults>> /\ KeepsFile /\ KeepsClock

\* The two listeners are in place.
overlay_subscribes ==
    /\ ~screen.listens
    /\ screen' = [screen EXCEPT !.listens = TRUE]
    /\ ScreenOnly

\* app_lock_enabled: the host answers the launch gate.
app_lock_enabled ==
    /\ writing = Unset /\ screen.gate = "asked"
    /\ \E read \in CanRead :
           /\ NoteReads({read})
           /\ screen' = [screen EXCEPT !.gate = IF Enabled(read) THEN "on" ELSE "off"]
    /\ UNCHANGED <<prompt, proven, owed>> /\ KeepsFile /\ KeepsClock

\* mutant: the answer is not mirrored
launch_gate_only ==
    /\ screen.gate \in {"on", "off"}
    /\ screen' = [screen EXCEPT !.gate = "done", !.locked = (screen.gate = "on")]
    /\ ScreenOnly
\* The answer covers or uncovers the page, whatever happened since it was asked for.
launch_gate ==
    /\ screen.gate \in {"on", "off"}
    /\ screen' = [screen EXCEPT !.gate = "done", !.locked = (screen.gate = "on"), !.mirror = (screen.gate = "on")]
    /\ ScreenOnly

lock_event ==
    /\ screen.events # <<>>
    /\ screen' = [screen EXCEPT !.events = Tail(@), !.locked = (Head(screen.events) = "lock")]
    /\ ScreenOnly

\* security_unlock shows the system's prompt ...
security_unlock ==
    /\ screen.locked /\ prompt = "idle" /\ ~screen.unlocked
    /\ prompt' = "shown"
    /\ UNCHANGED <<screen, proven, owed, misread, lockFaults>> /\ KeepsFile /\ KeepsClock

\* ... and the user authenticates, or does not,
authenticate ==
    /\ prompt = "shown"
    /\ \/ prompt' = "proven" /\ proven' = TRUE /\ owed' = FALSE
       \/ prompt' = "idle" /\ UNCHANGED <<proven, owed>>
    /\ UNCHANGED <<screen, misread, lockFaults>> /\ KeepsFile /\ KeepsClock

\* and the page is told twice: by the event, and by the command's answer.
tell_unlocked ==
    /\ prompt = "proven"
    /\ prompt' = "idle"
    /\ screen' = [Emit("unlocked") EXCEPT !.unlocked = TRUE]
    /\ UNCHANGED <<proven, owed, misread, lockFaults>> /\ KeepsFile /\ KeepsClock

unlock_answered ==
    /\ screen.unlocked
    /\ screen' = [screen EXCEPT !.unlocked = FALSE, !.locked = FALSE]
    /\ ScreenOnly

\* The process ends, and is started again.
restart ==
    /\ lockFaults < MaxLockFaults
    /\ lockFaults' = lockFaults + 1
    /\ screen' = NewScreen(screen.mirror)
    /\ writing' = Unset /\ hiddenSince' = Unset /\ left' = Unset /\ prompt' = "idle"
    /\ proven' = FALSE /\ owed' = chosen.enabled
    /\ UNCHANGED <<lockFile, lockTime, chosen, misread>>

LockNext ==
    \/ \E enabled \in BOOLEAN : set_app_lock(enabled)
    \/ \E secs \in Timeouts : set_app_lock_timeout(secs)
    \/ write_temporary \/ rename \/ write_fails \/ mirror_saved
    \/ focus_lost \/ focus_gained \/ lock_tick
    \/ overlay_subscribes \/ app_lock_enabled \/ launch_gate \/ lock_event
    \/ security_unlock \/ authenticate \/ tell_unlocked \/ unlock_answered
    \/ restart

LockSpec == LockInit /\ [][LockNext]_lockVars

-----------------------------------------------------------------------------
\* What the file says is what the user chose, through every crash and failed write,
\* unless a read of it failed (the timeout's command then switches the lock off).
SettingsKept ==
    ~misread =>
        chosen = [enabled |-> Enabled(Parsed(lockFile.main)), timeout |-> TimeoutOf(Parsed(lockFile.main))]

\* A page that loaded, or whose window was left for the timeout, with the lock on and no
\* authentication since is covered, when nothing is under way and no read failed: neither
\* the launch gate's answer nor the news of an older unlock uncovers it.
OwedIsCovered == LockSettled /\ owed /\ ~misread => screen.locked

\* The mirror the next launch paints its first frame by says what the file says, also when
\* the process ended before the page wrote it.
MirrorFollows == LockSettled /\ ~misread => screen.mirror = chosen.enabled

\* The screen and its mirror follow the setting, whatever restarts, answers and events cross.
LockFollows == OwedIsCovered /\ MirrorFollows

\* An authentication is not undone by the launch gate's answer, or by a lock event for the
\* time the prompt was shown.
UnlockSticks == LockSettled /\ proven => ~screen.locked
=============================================================================
