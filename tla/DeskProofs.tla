------------------------------ MODULE DeskProofs ------------------------------
(***************************************************************************)
(* Theorems about the parts that share the desk: the app lock, the         *)
(* database's migrations, the call list, poll votes, chat flags, status    *)
(* updates, call audio and what the page is handed.  None reads another's  *)
(* state, so each part below stands alone: its inductive invariant, a      *)
(* lemma per action, and its theorems.                                     *)
(***************************************************************************)
EXTENDS AppLock, Migrations, CallLog, Polls, ChatFlags, Statuses, CallAudio, UiDelivery,
        FiniteSetTheorems, SequenceTheorems, WellFoundedInduction, TLAPS

-----------------------------------------------------------------------------
(***************************************************************************)
(* App lock (AppLock): the stored file and the lock that follows it.       *)
(***************************************************************************)

\* What a command is storing is what the user chose with it, unless a read failed.
StoresTheChoice ==
    \/ writing = Unset
    \/ /\ writing.preference \in Preference /\ writing.choice \in Preference
       /\ ~misread => writing.preference = writing.choice

\* The two files of the store: whole, half written, or not there.
FilesTyped == lockFile \in [main : Stored \cup {Unset, Half}, tmp : Stored \cup {Unset, Half}]

\* The inductive invariant of SettingsAreKept: a command under way carries the choice to the file.
KeptInv ==
    /\ FilesTyped /\ chosen \in Preference /\ misread \in BOOLEAN
    /\ StoresTheChoice
    /\ SettingsKept

-----------------------------------------------------------------------------
\* A file reads as a preference or as none.
LEMMA ParsedType ==
    ASSUME NEW file \in Stored \cup {Unset, Half}
    PROVE  Parsed(file) \in Preference \cup {Unset}
BY LockAssumption DEF Parsed, Stored, Preference

\* What was read gives a switch and a timeout.
LEMMA ReadType ==
    ASSUME NEW read \in Preference \cup {Unset}
    PROVE  Enabled(read) \in BOOLEAN /\ TimeoutOf(read) \in Nat
BY LockAssumption DEF Enabled, TimeoutOf, Preference

\* A preference in the file reads as itself.
LEMMA ParsedPreference ==
    ASSUME NEW preference \in Preference
    PROVE  /\ Parsed(preference) = preference
           /\ [enabled |-> Enabled(Parsed(preference)), timeout |-> TimeoutOf(Parsed(preference))] = preference
           /\ preference \in Stored
<1>1. preference \in Stored
  BY DEF Preference, Stored
<1>2. preference \notin {Unset, Half} /\ preference.timeout # Unset
  BY <1>1, LockAssumption DEF Preference
<1>3. Parsed(preference) = preference
  BY <1>2 DEF Parsed, Preference
<1>4. Enabled(preference) = preference.enabled /\ TimeoutOf(preference) = preference.timeout
  BY <1>2 DEF Enabled, TimeoutOf, Preference
<1>5. [enabled |-> preference.enabled, timeout |-> preference.timeout] = preference
  BY DEF Preference
<1> QED
  BY <1>1, <1>3, <1>4, <1>5

\* A read gives the file's content or nothing, and one that does not give the content is noted.
LEMMA ReadsAreNoted ==
    ASSUME FilesTyped, NEW read \in CanRead, NoteReads({read})
    PROVE  /\ read \in Preference \cup {Unset}
           /\ misread' \in BOOLEAN \/ misread' = misread
           /\ ~misread' => ~misread /\ read = Parsed(lockFile.main)
<1>1. Parsed(lockFile.main) \in Preference \cup {Unset}
  BY ParsedType DEF FilesTyped
<1>2. read \in Preference \cup {Unset}
  BY <1>1 DEF CanRead
<1>3. CASE {read} = {Parsed(lockFile.main)}
  BY <1>2, <1>3 DEF NoteReads
<1>4. CASE {read} # {Parsed(lockFile.main)}
  BY <1>2, <1>4 DEF NoteReads
<1> QED
  BY <1>3, <1>4

\* The switch's command stores the timeout that is there.
LEMMA SwitchStores ==
    ASSUME KeptInv, NEW enabled \in BOOLEAN, set_app_lock(enabled)
    PROVE  KeptInv'
<1>1. PICK read \in CanRead :
         /\ NoteReads({read})
         /\ write_preference([enabled |-> enabled, timeout |-> TimeoutOf(read)],
                             [chosen EXCEPT !.enabled = enabled], TRUE)
  BY DEF set_app_lock
<1>2. /\ read \in Preference \cup {Unset}
      /\ misread' \in BOOLEAN
      /\ ~misread' => ~misread /\ read = Parsed(lockFile.main)
  BY <1>1, ReadsAreNoted DEF KeptInv
<1>3. Enabled(read) \in BOOLEAN /\ TimeoutOf(read) \in Nat
  BY <1>2, ReadType
<1>4. chosen' = chosen /\ chosen \in Preference
  BY DEF set_app_lock, KeptInv
<1>5. /\ writing'.preference = [enabled |-> enabled, timeout |-> TimeoutOf(read)]
      /\ writing'.choice = [chosen EXCEPT !.enabled = enabled]
  BY <1>1 DEF write_preference
<1>6. FilesTyped' /\ lockFile'.main = lockFile.main
  BY <1>1 DEF write_preference, KeptInv, FilesTyped
<1>7. [chosen EXCEPT !.enabled = enabled] = [enabled |-> enabled, timeout |-> chosen.timeout]
  BY <1>4 DEF Preference
<1>8. ~misread' => chosen.timeout = TimeoutOf(read)
  BY <1>2 DEF KeptInv, SettingsKept
<1>9. StoresTheChoice'
  BY <1>3, <1>4, <1>5, <1>7, <1>8 DEF StoresTheChoice, Preference
<1>10. SettingsKept'
  BY <1>2, <1>4, <1>6 DEF KeptInv, SettingsKept
<1> QED
  BY <1>2, <1>4, <1>6, <1>9, <1>10 DEF KeptInv

\* The timeout's command stores the switch that is there.
LEMMA TimeoutStores ==
    ASSUME KeptInv, NEW secs, set_app_lock_timeout(secs)
    PROVE  KeptInv'
<1>1. PICK read \in CanRead :
         /\ NoteReads({read})
         /\ write_preference([enabled |-> Enabled(read), timeout |-> secs],
                             [chosen EXCEPT !.timeout = secs], FALSE)
  BY DEF set_app_lock_timeout
<1>2. /\ read \in Preference \cup {Unset}
      /\ misread' \in BOOLEAN
      /\ ~misread' => ~misread /\ read = Parsed(lockFile.main)
  BY <1>1, ReadsAreNoted DEF KeptInv
<1>3. Enabled(read) \in BOOLEAN /\ secs \in Nat
  BY <1>2, ReadType, LockAssumption DEF set_app_lock_timeout
<1>4. chosen' = chosen /\ chosen \in Preference
  BY DEF set_app_lock_timeout, KeptInv
<1>5. /\ writing'.preference = [enabled |-> Enabled(read), timeout |-> secs]
      /\ writing'.choice = [chosen EXCEPT !.timeout = secs]
  BY <1>1 DEF write_preference
<1>6. FilesTyped' /\ lockFile'.main = lockFile.main
  BY <1>1 DEF write_preference, KeptInv, FilesTyped
<1>7. [chosen EXCEPT !.timeout = secs] = [enabled |-> chosen.enabled, timeout |-> secs]
  BY <1>4 DEF Preference
<1>8. ~misread' => chosen.enabled = Enabled(read)
  BY <1>2 DEF KeptInv, SettingsKept
<1>9. StoresTheChoice'
  BY <1>3, <1>4, <1>5, <1>7, <1>8 DEF StoresTheChoice, Preference
<1>10. SettingsKept'
  BY <1>2, <1>4, <1>6 DEF KeptInv, SettingsKept
<1> QED
  BY <1>2, <1>4, <1>6, <1>9, <1>10 DEF KeptInv

\* The rename makes the choice the preference, in one step.
LEMMA RenameKeeps ==
    ASSUME KeptInv, rename
    PROVE  KeptInv'
<1>1. /\ writing.preference \in Preference /\ writing.choice \in Preference
      /\ ~misread => writing.preference = writing.choice
  BY DEF rename, KeptInv, StoresTheChoice
<1>2. /\ lockFile' = [main |-> writing.preference, tmp |-> Unset]
      /\ writing' = Unset /\ chosen' = writing.choice /\ misread' = misread
  BY DEF rename
<1>3. FilesTyped'
  BY <1>1, <1>2, ParsedPreference DEF FilesTyped
<1>4. SettingsKept'
  BY <1>1, <1>2, ParsedPreference DEF SettingsKept
<1> QED
  BY <1>1, <1>2, <1>3, <1>4 DEF KeptInv, StoresTheChoice

\* What leaves the file, the choice and the command alone, and forgets no failed read.
LEMMA OthersKeep ==
    ASSUME KeptInv, lockFile'.main = lockFile.main, FilesTyped', chosen' = chosen,
           writing' = writing \/ writing' = Unset, misread' = misread \/ misread' = TRUE
    PROVE  KeptInv'
<1>1. StoresTheChoice'
  BY DEF KeptInv, StoresTheChoice
<1>2. SettingsKept'
  BY DEF KeptInv, SettingsKept
<1> QED
  BY <1>1, <1>2 DEF KeptInv

-----------------------------------------------------------------------------
\* What the files of earlier versions say.
LEMMA OldFiles ==
    ASSUME NEW file \in OldPreferences
    PROVE  file \in Stored \cup {Unset, Half} /\ TimeoutOf(Parsed(file)) >= MinTimeout
<1>1. CASE file \in {Unset, Half}
  BY <1>1, LockAssumption DEF Parsed, TimeoutOf
<1>2. CASE file \notin {Unset, Half}
  <2>1. /\ file \in [enabled : BOOLEAN, timeout : MinTimeout..MaxTimeout \cup {Unset}]
        /\ MinTimeout \in Nat /\ MaxTimeout \in Nat
    BY <1>2, LockAssumption
  <2>2. file \in Stored
    <3>1. MinTimeout..MaxTimeout \cup {Unset} \subseteq Nat \cup {Unset}
      BY <2>1
    <3>. QED  BY <2>1, <3>1 DEF Stored
  <2>3. PICK timeout : timeout = IF file.timeout = Unset THEN DefaultTimeout ELSE file.timeout
    OBVIOUS
  <2>4. timeout \in MinTimeout..MaxTimeout
    BY <2>1, <2>3, LockAssumption
  <2>5. Parsed(file) = [file EXCEPT !.timeout = timeout]
    BY <1>2, <2>3 DEF Parsed
  <2>6. Parsed(file) \in [enabled : BOOLEAN, timeout : MinTimeout..MaxTimeout] /\ Parsed(file).timeout = timeout
    BY <2>1, <2>4, <2>5
  <2>7. Parsed(file) # Unset
    BY <2>6, LockAssumption DEF Stored
  <2>. QED  BY <2>1, <2>2, <2>4, <2>6, <2>7 DEF TimeoutOf
<1>. QED  BY <1>1, <1>2

\* A fresh install, and an old one, keep what was chosen.
LEMMA KeptStart == LockInit => KeptInv
<1> SUFFICES ASSUME LockInit PROVE KeptInv
  OBVIOUS
<1>1. PICK file \in OldPreferences :
        /\ lockFile = [main |-> file, tmp |-> Unset]
        /\ chosen = [enabled |-> Enabled(Parsed(file)), timeout |-> TimeoutOf(Parsed(file))]
  BY DEF LockInit
<1>2. file \in Stored \cup {Unset, Half}
  BY OldFiles
<1>3. chosen \in Preference
  BY <1>1, <1>2, ParsedType, ReadType DEF Preference
<1> QED
  BY <1>1, <1>2, <1>3 DEF LockInit, KeptInv, FilesTyped, StoresTheChoice, SettingsKept

\* No command, crash or failed write loses it.
LEMMA KeptStep == KeptInv /\ [LockNext]_lockVars => KeptInv'
<1> SUFFICES ASSUME KeptInv, [LockNext]_lockVars PROVE KeptInv'
  OBVIOUS
<1>1. ASSUME NEW enabled \in BOOLEAN, set_app_lock(enabled) PROVE KeptInv'
  BY <1>1, SwitchStores
<1>2. ASSUME NEW secs \in Timeouts, set_app_lock_timeout(secs) PROVE KeptInv'
  BY <1>2, TimeoutStores
<1>3. CASE write_temporary
  <2>1. writing.preference \in Stored
    BY <1>3, ParsedPreference DEF write_temporary, KeptInv, StoresTheChoice
  <2>2. FilesTyped' /\ lockFile'.main = lockFile.main
    BY <1>3, <2>1 DEF write_temporary, KeptInv, FilesTyped
  <2> QED
    BY <1>3, <2>2, OthersKeep DEF write_temporary
<1>4. CASE rename
  BY <1>4, RenameKeeps
<1>5. CASE write_fails \/ mirror_saved
  BY <1>5, OthersKeep DEF write_fails, mirror_saved, KeptInv, FilesTyped
<1>6. CASE focus_lost \/ lock_tick
  BY <1>6, OthersKeep DEF focus_lost, lock_tick, KeepsFile, KeptInv, FilesTyped
<1>7. CASE focus_gained
  <2>1. misread' = misread \/ misread' = TRUE
    BY <1>7 DEF focus_gained, NoteReads
  <2> QED
    BY <1>7, <2>1, OthersKeep DEF focus_gained, KeepsFile, KeptInv, FilesTyped
<1>8. CASE app_lock_enabled
  <2>1. misread' = misread \/ misread' = TRUE
    BY <1>8 DEF app_lock_enabled, NoteReads
  <2> QED
    BY <1>8, <2>1, OthersKeep DEF app_lock_enabled, KeepsFile, KeptInv, FilesTyped
<1>9. CASE overlay_subscribes \/ launch_gate \/ lock_event \/ unlock_answered
  BY <1>9, OthersKeep
     DEF overlay_subscribes, launch_gate, lock_event, unlock_answered, ScreenOnly, KeepsFile, KeptInv, FilesTyped
<1>10. CASE security_unlock \/ authenticate \/ tell_unlocked
  BY <1>10, OthersKeep DEF security_unlock, authenticate, tell_unlocked, KeepsFile, KeptInv, FilesTyped
<1>11. CASE restart
  BY <1>11, OthersKeep DEF restart, KeptInv, FilesTyped
<1>12. CASE UNCHANGED lockVars
  BY <1>12, OthersKeep DEF lockVars, KeptInv, FilesTyped
<1> QED
  BY <1>1, <1>2, <1>3, <1>4, <1>5, <1>6, <1>7, <1>8, <1>9, <1>10, <1>11, <1>12 DEF LockNext

\* What the file says is what the user chose, through crashes and failed writes, unless a read failed.
THEOREM SettingsAreKept == LockSpec => []SettingsKept
<1>1. KeptInv => SettingsKept
  BY DEF KeptInv
<1> QED
  BY <1>1, KeptStart, KeptStep, PTL DEF LockSpec

\* A page's state.
ScreenRow ==
    [locked : BOOLEAN, mirror : BOOLEAN, listens : BOOLEAN, gate : {"asked", "on", "off", "done"},
     events : Seq({"lock", "unlocked"}), unlocked : BOOLEAN, saved : {Unset} \cup [enabled : BOOLEAN]]

\* Types, and the clock is not behind the moment the window was left.
LockTyped ==
    /\ screen \in ScreenRow
    /\ lockTime \in Nat /\ hiddenSince = left /\ left \in Nat \cup {Unset}
    /\ left # Unset => left <= lockTime
    /\ prompt \in {"idle", "shown", "proven"} /\ proven \in BOOLEAN /\ owed \in BOOLEAN
    /\ chosen \in Preference /\ chosen.timeout >= MinTimeout

\* A command is given on a settled page, and one whose switch is mirrored says what was chosen.
WritingFits ==
    writing # Unset =>
       /\ screen.gate = "done" /\ screen.saved = Unset
       /\ writing.choice \in Preference /\ writing.choice.timeout >= MinTimeout
       /\ ~writing.mirrored => writing.choice.enabled = chosen.enabled

\* The gate's answer, the command's answer and the mirror say what was chosen.
MirrorFits ==
    ~misread =>
       /\ screen.gate = "on" => chosen.enabled
       /\ screen.gate = "off" => ~chosen.enabled
       /\ screen.saved # Unset => screen.gate = "done" /\ screen.saved.enabled = chosen.enabled
       /\ screen.gate = "done" /\ screen.saved = Unset => screen.mirror = chosen.enabled

\* No news of an unlock is under way.
Clean == prompt # "proven" /\ ~screen.unlocked /\ \A k \in 1..Len(screen.events) : screen.events[k] = "lock"

\* A second passes only when all is settled, and only an authentication makes news of an unlock.
AwayFits ==
    left # Unset /\ lockTime > left =>
       /\ screen.listens /\ screen.gate = "done"
       /\ ~proven => Clean

\* A page that owes an authentication is covered once its gate and its events are done.
CoverFits ==
    owed /\ ~misread =>
       /\ chosen.enabled /\ Clean
       /\ screen.gate = "done" /\ screen.events = <<>> => screen.locked

\* The inductive invariant of LockFollowsHolds.
FollowInv == LockTyped /\ WritingFits /\ MirrorFits /\ AwayFits /\ CoverFits

\* A new page waits for its gate and hears nothing yet.
LEMMA ScreenStart ==
    ASSUME NEW mirror \in BOOLEAN
    PROVE  LET new == NewScreen(mirror) IN
           /\ new \in ScreenRow /\ ~new.listens /\ new.gate = "asked" /\ new.events = <<>> /\ ~new.unlocked
           /\ new.saved = Unset
<1>1. <<>> \in Seq({"lock", "unlocked"})
  OBVIOUS
<1>. QED  BY <1>1 DEF NewScreen, ScreenRow

\* The first page follows the setting.
LEMMA FollowStart == LockInit => FollowInv
<1> SUFFICES ASSUME LockInit PROVE FollowInv
  OBVIOUS
<1>1. PICK file \in OldPreferences, mirror \in BOOLEAN :
         /\ chosen = [enabled |-> Enabled(Parsed(file)), timeout |-> TimeoutOf(Parsed(file))]
         /\ owed = Enabled(Parsed(file)) /\ screen = NewScreen(mirror)
  BY DEF LockInit
<1>2. Enabled(Parsed(file)) \in BOOLEAN /\ TimeoutOf(Parsed(file)) \in Nat /\ TimeoutOf(Parsed(file)) >= MinTimeout
  BY OldFiles, ParsedType, ReadType
<1>3. chosen \in Preference /\ chosen.timeout >= MinTimeout /\ owed = chosen.enabled /\ owed \in BOOLEAN
  BY <1>1, <1>2 DEF Preference
<1>4. /\ screen \in ScreenRow /\ ~screen.listens /\ screen.gate = "asked" /\ screen.events = <<>> /\ ~screen.unlocked
      /\ screen.saved = Unset
  BY <1>1, ScreenStart
<1>5. /\ writing = Unset /\ hiddenSince = Unset /\ left = Unset /\ lockTime = 0 /\ prompt = "idle"
  BY DEF LockInit
<1>6. proven = FALSE
  BY DEF LockInit
<1>7. LockTyped
  BY <1>3, <1>4, <1>5, <1>6 DEF LockTyped
<1>8. Clean
  BY <1>4, <1>5 DEF Clean
<1>. QED  BY <1>3, <1>4, <1>5, <1>7, <1>8 DEF FollowInv, WritingFits, MirrorFits, AwayFits, CoverFits

\* The host's side of a command: the page waits.
LEMMA CommandBegins ==
    ASSUME FollowInv, ~LateAnswers, writing = Unset, AtSettings, NEW choice \in Preference, NEW preference, NEW mirrored,
           write_preference(preference, choice, mirrored), choice.timeout >= MinTimeout,
           ~mirrored => choice.enabled = chosen.enabled, misread' = misread \/ misread' = TRUE,
           UNCHANGED <<screen, chosen, owed>>, KeepsHost
    PROVE  FollowInv'
<1>1. /\ writing'.choice = choice /\ writing'.mirrored = mirrored
      /\ screen.gate = "done" /\ screen.saved = Unset
      /\ UNCHANGED <<hiddenSince, lockTime, prompt, left, proven>>
  BY DEF write_preference, AtSettings, KeepsHost
<1>2. LockTyped'
  BY <1>1 DEF FollowInv, LockTyped
<1>3. WritingFits'
  BY <1>1 DEF WritingFits
<1>4. MirrorFits'
  BY DEF FollowInv, MirrorFits
<1>5. AwayFits' /\ CoverFits'
  BY <1>1 DEF FollowInv, AwayFits, CoverFits, Clean
<1>. QED  BY <1>2, <1>3, <1>4, <1>5 DEF FollowInv

\* Without a failed read, what is read is what was chosen.
LEMMA ReadsAreTrue ==
    ASSUME KeptInv, NEW reads, NoteReads(reads)
    PROVE  /\ misread' = misread \/ misread' = TRUE
           /\ ~misread' => \A read \in reads : /\ Enabled(read) = chosen.enabled /\ TimeoutOf(read) = chosen.timeout
<1>1. misread' = misread \/ misread' = TRUE
  BY DEF NoteReads
<1>2. ASSUME ~misread', NEW read \in reads PROVE Enabled(read) = chosen.enabled /\ TimeoutOf(read) = chosen.timeout
  <2>1. read = Parsed(lockFile.main) /\ ~misread
    BY <1>2 DEF NoteReads
  <2>. QED  BY <2>1 DEF KeptInv, SettingsKept
<1>. QED  BY <1>1, <1>2

\* The rename makes the choice the file, and leaves the answer for the page.
LEMMA RenameFollows ==
    ASSUME FollowInv, rename
    PROVE  FollowInv'
<1>1. /\ writing # Unset /\ writing' = Unset /\ chosen' = writing.choice /\ owed' = (owed /\ writing.choice.enabled)
      /\ screen' = IF writing.mirrored THEN [screen EXCEPT !.saved = [enabled |-> writing.choice.enabled]] ELSE screen
      /\ UNCHANGED <<misread, hiddenSince, lockTime, prompt, left, proven>>
  BY DEF rename, KeepsHost
<1>2. /\ screen.gate = "done" /\ screen.saved = Unset
      /\ writing.choice \in Preference /\ writing.choice.timeout >= MinTimeout /\ writing.choice.enabled \in BOOLEAN
      /\ ~writing.mirrored => writing.choice.enabled = chosen.enabled
  BY <1>1 DEF FollowInv, WritingFits, Preference
<1>3. PICK saved : saved = IF writing.mirrored THEN [enabled |-> writing.choice.enabled] ELSE Unset
  OBVIOUS
<1>4. /\ saved \in {Unset} \cup [enabled : BOOLEAN]
      /\ writing.mirrored => saved # Unset /\ saved.enabled = writing.choice.enabled
      /\ ~writing.mirrored => saved = Unset
  BY <1>2, <1>3, LockAssumption
<1>5. /\ screen' \in ScreenRow /\ screen'.saved = saved /\ screen'.gate = "done" /\ screen'.events = screen.events
      /\ screen'.unlocked = screen.unlocked /\ screen'.listens = screen.listens /\ screen'.mirror = screen.mirror
      /\ screen'.locked = screen.locked
  <2>1. CASE writing.mirrored
    BY <1>1, <1>2, <1>3, <1>4, <2>1 DEF FollowInv, LockTyped, ScreenRow
  <2>2. CASE ~writing.mirrored
    BY <1>1, <1>2, <1>3, <1>4, <2>2 DEF FollowInv, LockTyped
  <2>. QED  BY <2>1, <2>2
<1>6. owed' \in BOOLEAN
  BY <1>1
<1>7. LockTyped'
  BY <1>1, <1>2, <1>5, <1>6 DEF FollowInv, LockTyped
<1>8. WritingFits'
  BY <1>1 DEF WritingFits
<1>9. MirrorFits'
  BY <1>1, <1>2, <1>4, <1>5 DEF FollowInv, MirrorFits
<1>10. Clean' <=> Clean
  BY <1>1, <1>5 DEF Clean
<1>11. AwayFits'
  BY <1>1, <1>5, <1>10 DEF FollowInv, AwayFits
<1>12. CoverFits'
  BY <1>1, <1>2, <1>5, <1>10 DEF FollowInv, CoverFits
<1>. QED  BY <1>7, <1>8, <1>9, <1>11, <1>12 DEF FollowInv

\* The answer makes the mirror the choice.
LEMMA MirrorSaved ==
    ASSUME FollowInv, mirror_saved
    PROVE  FollowInv'
<1>1. /\ screen.saved # Unset /\ screen' = [screen EXCEPT !.saved = Unset, !.mirror = screen.saved.enabled]
      /\ UNCHANGED <<writing, chosen, misread, owed, hiddenSince, lockTime, prompt, left, proven>>
  BY DEF mirror_saved, KeepsHost
<1>2. PICK enabled \in BOOLEAN : enabled = screen.saved.enabled
  BY <1>1 DEF FollowInv, LockTyped, ScreenRow
<1>3. screen' = [screen EXCEPT !.saved = Unset, !.mirror = enabled]
  BY <1>1, <1>2
<1>4. /\ screen' \in ScreenRow /\ screen'.saved = Unset /\ screen'.mirror = enabled /\ screen'.gate = screen.gate
      /\ screen'.events = screen.events /\ screen'.unlocked = screen.unlocked /\ screen'.listens = screen.listens
      /\ screen'.locked = screen.locked
  BY <1>3 DEF FollowInv, LockTyped, ScreenRow
<1>5. LockTyped'
  BY <1>1, <1>4 DEF FollowInv, LockTyped
<1>6. WritingFits'
  BY <1>1, <1>4 DEF FollowInv, WritingFits
<1>7. MirrorFits'
  BY <1>1, <1>2, <1>4 DEF FollowInv, MirrorFits
<1>8. Clean' <=> Clean
  BY <1>1, <1>4 DEF Clean
<1>. QED  BY <1>1, <1>4, <1>5, <1>6, <1>7, <1>8 DEF FollowInv, AwayFits, CoverFits

\* Leaving the window starts the absence.
LEMMA FocusLost ==
    ASSUME FollowInv, focus_lost
    PROVE  FollowInv'
<1>1. /\ hiddenSince' = lockTime /\ left' = lockTime /\ proven' = FALSE
      /\ UNCHANGED <<lockTime, screen, prompt, misread, owed, writing, chosen>>
  BY DEF focus_lost, note_hidden, KeepsFile
<1>2. LockTyped'
  <2>1. left' \in Nat \cup {Unset} /\ left' <= lockTime' /\ hiddenSince' = left' /\ lockTime' \in Nat
    BY <1>1 DEF FollowInv, LockTyped
  <2>2. proven' \in BOOLEAN
    BY <1>1
  <2>. QED  BY <1>1, <2>1, <2>2 DEF FollowInv, LockTyped
<1>3. AwayFits'
  BY <1>1 DEF FollowInv, LockTyped, AwayFits
<1>4. WritingFits' /\ MirrorFits'
  BY <1>1 DEF FollowInv, WritingFits, MirrorFits
<1>5. CoverFits'
  BY <1>1 DEF FollowInv, CoverFits, Clean
<1>. QED  BY <1>2, <1>3, <1>4, <1>5 DEF FollowInv

\* An event reaches a page that listens.
LEMMA Emitted ==
    ASSUME screen \in ScreenRow, NEW event \in {"lock", "unlocked"}
    PROVE  LET told == Emit(event) IN
           /\ told \in ScreenRow /\ told.gate = screen.gate /\ told.saved = screen.saved /\ told.mirror = screen.mirror
           /\ told.unlocked = screen.unlocked /\ told.listens = screen.listens /\ told.locked = screen.locked
           /\ screen.listens => told.events = Append(screen.events, event)
           /\ ~screen.listens => told.events = screen.events
<1>1. PICK events : events = Append(screen.events, event) /\ events \in Seq({"lock", "unlocked"})
  <2>1. screen.events \in Seq({"lock", "unlocked"})
    BY DEF ScreenRow
  <2>2. Append(screen.events, event) \in Seq({"lock", "unlocked"})
    BY <2>1
  <2>. QED  BY <2>2
<1>2. CASE screen.listens
  <2>1. Emit(event) = [screen EXCEPT !.events = events]
    BY <1>1, <1>2 DEF Emit
  <2>. QED  BY <1>1, <1>2, <2>1 DEF ScreenRow
<1>3. CASE ~screen.listens
  BY <1>3 DEF Emit
<1>. QED  BY <1>2, <1>3

\* Coming back sends a lock event when the timeout passed.
LEMMA FocusGained ==
    ASSUME FollowInv, KeptInv, focus_gained
    PROVE  FollowInv'
<1>1. PICK switch \in CanRead, timeout \in CanRead :
         /\ NoteReads({switch, timeout})
         /\ screen' = IF Enabled(switch) /\ lockTime - hiddenSince >= AtLeastMin(TimeoutOf(timeout))
                      THEN Emit("lock") ELSE screen
  BY DEF focus_gained
<1>2. /\ owed' = (owed \/ (chosen.enabled /\ ~proven /\ lockTime - left >= chosen.timeout))
      /\ hiddenSince # Unset /\ hiddenSince' = Unset /\ left' = Unset
      /\ UNCHANGED <<lockTime, prompt, proven, writing, chosen>>
  BY DEF focus_gained, take_hidden_for, KeepsFile
<1>3. screen \in ScreenRow
  BY DEF FollowInv, LockTyped
<1>4. /\ screen' \in ScreenRow /\ screen'.gate = screen.gate /\ screen'.saved = screen.saved
      /\ screen'.mirror = screen.mirror /\ screen'.unlocked = screen.unlocked /\ screen'.listens = screen.listens
      /\ screen'.locked = screen.locked
      /\ screen'.events \in {screen.events, Append(screen.events, "lock")}
  BY <1>1, <1>3, Emitted
<1>5. owed' \in BOOLEAN
  BY <1>2
<1>6. LockTyped'
  BY <1>2, <1>4, <1>5 DEF FollowInv, LockTyped
<1>7. misread' = misread \/ misread' = TRUE
  BY <1>1, ReadsAreTrue
<1>8. WritingFits' /\ MirrorFits'
  BY <1>2, <1>4, <1>7 DEF FollowInv, WritingFits, MirrorFits
<1>9. AwayFits'
  BY <1>2 DEF AwayFits
<1>10. Clean => Clean'
  <2> SUFFICES ASSUME Clean PROVE \A k \in 1..Len(screen'.events) : screen'.events[k] = "lock"
    BY <1>2, <1>4 DEF Clean
  <2>1. screen.events \in Seq({"lock", "unlocked"})
    BY <1>3 DEF ScreenRow
  <2>2. CASE screen'.events = Append(screen.events, "lock")
    <3>1. PICK n \in Nat : n = Len(screen.events)
      BY <2>1
    <3>2. Len(screen'.events) = n + 1 /\ \A k \in 1..n : screen'.events[k] = screen.events[k]
      BY <2>1, <2>2, <3>1
    <3>3. screen'.events[n + 1] = "lock"
      BY <2>1, <2>2, <3>1
    <3>. QED  BY <3>1, <3>2, <3>3 DEF Clean
  <2>3. CASE screen'.events = screen.events
    BY <2>3 DEF Clean
  <2>. QED  BY <1>4, <2>2, <2>3
<1>11. screen'.events = <<>> => screen.events = <<>>
  <2>1. screen.events \in Seq({"lock", "unlocked"})
    BY <1>3 DEF ScreenRow
  <2>. QED  BY <1>4, <2>1
<1>12. CoverFits'
  <2> SUFFICES ASSUME owed', ~misread' PROVE /\ chosen.enabled /\ Clean
                                             /\ screen'.gate = "done" /\ screen'.events = <<>> => screen'.locked
    BY <1>2, <1>10 DEF CoverFits
  <2>1. CASE owed
    BY <1>4, <1>7, <1>11, <2>1 DEF FollowInv, CoverFits
  <2>2. CASE chosen.enabled /\ ~proven /\ lockTime - left >= chosen.timeout
    <3>1. /\ left \in Nat /\ left # Unset /\ hiddenSince = left /\ lockTime \in Nat
          /\ chosen.timeout \in Nat /\ chosen.timeout >= MinTimeout
      BY <1>2 DEF FollowInv, LockTyped, Preference
    <3>2. MinTimeout \in Nat /\ MinTimeout > 0
      BY LockAssumption
    <3>3. lockTime > left /\ AtLeastMin(chosen.timeout) = chosen.timeout
      BY <2>2, <3>1, <3>2 DEF AtLeastMin
    <3>4. screen.listens /\ screen.gate = "done" /\ Clean
      BY <2>2, <3>1, <3>3 DEF FollowInv, AwayFits
    <3>5. Enabled(switch) /\ TimeoutOf(timeout) = chosen.timeout
      BY <1>1, <2>2, ReadsAreTrue
    <3>6. screen' = Emit("lock")
      BY <1>1, <2>2, <3>1, <3>3, <3>5
    <3>7. screen'.events = Append(screen.events, "lock")
      BY <1>3, <3>4, <3>6, Emitted
    <3>8. screen'.events # <<>>
      <4>1. PICK events \in Seq({"lock", "unlocked"}) : events = screen.events
        BY <1>3 DEF ScreenRow
      <4>2. Append(events, "lock") # <<>>
        OBVIOUS
      <4>. QED  BY <3>7, <4>1, <4>2
    <3>. QED  BY <2>2, <3>4, <3>8
  <2>. QED  BY <1>2, <2>1, <2>2
<1>. QED  BY <1>6, <1>8, <1>9, <1>12 DEF FollowInv

\* A second passes on a settled page only.
LEMMA LockTick ==
    ASSUME FollowInv, ~LateAnswers, lock_tick
    PROVE  FollowInv'
<1>1. /\ LockSettled /\ lockTime' = lockTime + 1
      /\ UNCHANGED <<hiddenSince, screen, prompt, misread, left, proven, owed, writing, chosen>>
  BY DEF lock_tick, KeepsFile
<1>2. screen.listens /\ screen.gate = "done" /\ Clean
  BY <1>1 DEF LockSettled, Clean
<1>3. LockTyped'
  <2>1. lockTime' \in Nat /\ (left' # Unset => left' <= lockTime')
    BY <1>1 DEF FollowInv, LockTyped
  <2>. QED  BY <1>1, <2>1 DEF FollowInv, LockTyped
<1>4. AwayFits'
  BY <1>1, <1>2 DEF AwayFits, Clean
<1>5. WritingFits' /\ MirrorFits'
  BY <1>1 DEF FollowInv, WritingFits, MirrorFits
<1>6. CoverFits'
  BY <1>1 DEF FollowInv, CoverFits, Clean
<1>. QED  BY <1>3, <1>4, <1>5, <1>6 DEF FollowInv

\* The page listens.
LEMMA Subscribes ==
    ASSUME FollowInv, overlay_subscribes
    PROVE  FollowInv'
<1>1. /\ screen' = [screen EXCEPT !.listens = TRUE]
      /\ UNCHANGED <<prompt, proven, owed, misread, writing, chosen, hiddenSince, lockTime, left>>
  BY DEF overlay_subscribes, ScreenOnly, KeepsFile, KeepsClock
<1>2. /\ screen' \in ScreenRow /\ screen'.listens /\ screen'.gate = screen.gate /\ screen'.saved = screen.saved
      /\ screen'.mirror = screen.mirror /\ screen'.unlocked = screen.unlocked /\ screen'.events = screen.events
      /\ screen'.locked = screen.locked
  BY <1>1 DEF FollowInv, LockTyped, ScreenRow
<1>3. LockTyped'
  BY <1>1, <1>2 DEF FollowInv, LockTyped
<1>4. Clean' <=> Clean
  BY <1>1, <1>2 DEF Clean
<1>. QED  BY <1>1, <1>2, <1>3, <1>4 DEF FollowInv, WritingFits, MirrorFits, AwayFits, CoverFits

\* The gate's question is answered by the file.
LEMMA GateAnswers ==
    ASSUME FollowInv, KeptInv, app_lock_enabled
    PROVE  FollowInv'
<1>1. PICK read \in CanRead :
         /\ NoteReads({read}) /\ screen' = [screen EXCEPT !.gate = IF Enabled(read) THEN "on" ELSE "off"]
  BY DEF app_lock_enabled
<1>2. /\ writing = Unset /\ screen.gate = "asked"
      /\ UNCHANGED <<prompt, proven, owed, writing, chosen, hiddenSince, lockTime, left>>
  BY DEF app_lock_enabled, KeepsFile, KeepsClock
<1>3. PICK gate \in {"on", "off"} : gate = IF Enabled(read) THEN "on" ELSE "off"
  OBVIOUS
<1>4. screen' = [screen EXCEPT !.gate = gate]
  BY <1>1, <1>3
<1>5. /\ screen' \in ScreenRow /\ screen'.listens = screen.listens /\ screen'.gate = gate /\ screen'.saved = screen.saved
      /\ screen'.mirror = screen.mirror /\ screen'.unlocked = screen.unlocked /\ screen'.events = screen.events
      /\ screen'.locked = screen.locked
  BY <1>4 DEF FollowInv, LockTyped, ScreenRow
<1>6. misread' = misread \/ misread' = TRUE
  BY <1>1, ReadsAreTrue
<1>7. ~misread' => ~misread /\ (gate = "on" <=> chosen.enabled)
  BY <1>1, <1>3, <1>6, ReadsAreTrue
<1>8. LockTyped'
  BY <1>2, <1>5 DEF FollowInv, LockTyped
<1>9. MirrorFits'
  BY <1>2, <1>5, <1>7 DEF FollowInv, MirrorFits
<1>10. Clean' <=> Clean
  BY <1>2, <1>5 DEF Clean
<1>11. AwayFits'
  BY <1>2, <1>5, <1>10 DEF FollowInv, AwayFits
<1>12. CoverFits'
  BY <1>2, <1>5, <1>6, <1>10 DEF FollowInv, CoverFits
<1>. QED  BY <1>2, <1>8, <1>9, <1>11, <1>12 DEF FollowInv, WritingFits

\* The page takes the answer.
LEMMA GateFollows ==
    ASSUME FollowInv, launch_gate
    PROVE  FollowInv'
<1>1. /\ screen.gate \in {"on", "off"}
      /\ screen' = [screen EXCEPT !.gate = "done", !.locked = (screen.gate = "on"), !.mirror = (screen.gate = "on")]
      /\ UNCHANGED <<prompt, proven, owed, misread, writing, chosen, hiddenSince, lockTime, left>>
  BY DEF launch_gate, ScreenOnly, KeepsFile, KeepsClock
<1>2. PICK on \in BOOLEAN : on = (screen.gate = "on")
  OBVIOUS
<1>3. screen' = [screen EXCEPT !.gate = "done", !.locked = on, !.mirror = on]
  BY <1>1, <1>2
<1>4. /\ screen' \in ScreenRow /\ screen'.listens = screen.listens /\ screen'.gate = "done" /\ screen'.saved = screen.saved
      /\ screen'.mirror = on /\ screen'.unlocked = screen.unlocked /\ screen'.events = screen.events
      /\ screen'.locked = on
  BY <1>3 DEF FollowInv, LockTyped, ScreenRow
<1>5. ~misread => on = chosen.enabled
  <2>1. chosen.enabled \in BOOLEAN
    BY DEF FollowInv, LockTyped, Preference
  <2>. QED  BY <1>1, <1>2, <2>1 DEF FollowInv, MirrorFits
<1>6. LockTyped'
  BY <1>1, <1>4 DEF FollowInv, LockTyped
<1>7. writing = Unset
  BY <1>1 DEF FollowInv, WritingFits
<1>8. MirrorFits'
  BY <1>1, <1>4, <1>5 DEF FollowInv, MirrorFits
<1>9. Clean' <=> Clean
  BY <1>1, <1>4 DEF Clean
<1>10. AwayFits'
  BY <1>1, <1>4, <1>9 DEF FollowInv, AwayFits
<1>11. CoverFits'
  BY <1>1, <1>4, <1>5, <1>9 DEF FollowInv, CoverFits
<1>. QED  BY <1>1, <1>6, <1>7, <1>8, <1>10, <1>11 DEF FollowInv, WritingFits

\* The page takes an event.
LEMMA LockEvent ==
    ASSUME FollowInv, lock_event
    PROVE  FollowInv'
<1>1. /\ screen.events # <<>>
      /\ screen' = [screen EXCEPT !.events = Tail(@), !.locked = (Head(screen.events) = "lock")]
      /\ UNCHANGED <<prompt, proven, owed, misread, writing, chosen, hiddenSince, lockTime, left>>
  BY DEF lock_event, ScreenOnly, KeepsFile, KeepsClock
<1>2. screen.events \in Seq({"lock", "unlocked"})
  BY DEF FollowInv, LockTyped, ScreenRow
<1>3. PICK events : events = Tail(screen.events) /\ events \in Seq({"lock", "unlocked"})
  <2>1. Tail(screen.events) \in Seq({"lock", "unlocked"})
    BY <1>1, <1>2
  <2>. QED  BY <2>1
<1>4. PICK locks \in BOOLEAN : locks = (Head(screen.events) = "lock")
  OBVIOUS
<1>5. screen' = [screen EXCEPT !.events = events, !.locked = locks]
  BY <1>1, <1>3, <1>4
<1>6. /\ screen' \in ScreenRow /\ screen'.listens = screen.listens /\ screen'.gate = screen.gate
      /\ screen'.saved = screen.saved /\ screen'.mirror = screen.mirror /\ screen'.unlocked = screen.unlocked
      /\ screen'.events = events /\ screen'.locked = locks
  BY <1>3, <1>5 DEF FollowInv, LockTyped, ScreenRow
<1>7. Clean => Clean' /\ locks
  <2> SUFFICES ASSUME Clean PROVE Clean' /\ locks
    OBVIOUS
  <2>1. PICK n \in Nat : n = Len(screen.events) /\ n # 0
    BY <1>1, <1>2
  <2>2. Len(events) = n - 1 /\ Head(screen.events) = screen.events[1] /\ 1 \in 1..n
    BY <1>1, <1>2, <1>3, <2>1
  <2>3. \A k \in 1..(n - 1) : events[k] = screen.events[k + 1] /\ k + 1 \in 1..n
    BY <1>1, <1>2, <1>3, <2>1
  <2>. QED  BY <1>1, <1>4, <1>6, <2>1, <2>2, <2>3, ZenonT(40) DEF Clean
<1>8. LockTyped'
  BY <1>1, <1>6 DEF FollowInv, LockTyped
<1>9. WritingFits' /\ MirrorFits'
  BY <1>1, <1>6 DEF FollowInv, WritingFits, MirrorFits
<1>. QED  BY <1>1, <1>6, <1>7, <1>8, <1>9 DEF FollowInv, AwayFits, CoverFits

\* The user proves who they are.
LEMMA Authenticates ==
    ASSUME FollowInv, authenticate
    PROVE  FollowInv'
<1>1. /\ prompt = "shown" /\ UNCHANGED <<screen, misread, writing, chosen, hiddenSince, lockTime, left>>
      /\ \/ prompt' = "proven" /\ proven' = TRUE /\ owed' = FALSE
         \/ prompt' = "idle" /\ UNCHANGED <<proven, owed>>
  BY DEF authenticate, KeepsFile, KeepsClock
<1>2. proven' \in BOOLEAN /\ owed' \in BOOLEAN /\ prompt' \in {"proven", "idle"}
  BY <1>1 DEF FollowInv, LockTyped
<1>3. LockTyped'
  BY <1>1, <1>2 DEF FollowInv, LockTyped
<1>4. WritingFits' /\ MirrorFits'
  BY <1>1 DEF FollowInv, WritingFits, MirrorFits
<1>5. AwayFits' /\ CoverFits'
  BY <1>1 DEF FollowInv, AwayFits, CoverFits, Clean
<1>. QED  BY <1>3, <1>4, <1>5 DEF FollowInv

\* The news of it is sent to the page.
LEMMA TellUnlocked ==
    ASSUME FollowInv, tell_unlocked
    PROVE  FollowInv'
<1>1. /\ prompt = "proven" /\ prompt' = "idle" /\ screen' = [Emit("unlocked") EXCEPT !.unlocked = TRUE]
      /\ UNCHANGED <<proven, owed, misread, writing, chosen, hiddenSince, lockTime, left>>
  BY DEF tell_unlocked, KeepsFile, KeepsClock
<1>2. screen \in ScreenRow
  BY DEF FollowInv, LockTyped
<1>3. PICK told \in ScreenRow :
         /\ told = Emit("unlocked") /\ told.gate = screen.gate /\ told.saved = screen.saved
         /\ told.mirror = screen.mirror /\ told.listens = screen.listens
  BY <1>2, Emitted
<1>4. /\ screen' \in ScreenRow /\ screen'.listens = screen.listens /\ screen'.gate = screen.gate
      /\ screen'.saved = screen.saved /\ screen'.mirror = screen.mirror
  BY <1>1, <1>3 DEF ScreenRow
<1>5. LockTyped'
  BY <1>1, <1>4 DEF FollowInv, LockTyped
<1>6. WritingFits' /\ MirrorFits'
  BY <1>1, <1>4 DEF FollowInv, WritingFits, MirrorFits
<1>7. ~Clean
  BY <1>1 DEF Clean
<1>8. AwayFits' /\ CoverFits'
  BY <1>1, <1>4, <1>7 DEF FollowInv, AwayFits, CoverFits
<1>. QED  BY <1>5, <1>6, <1>8 DEF FollowInv

\* The command that asked is answered.
LEMMA UnlockAnswered ==
    ASSUME FollowInv, unlock_answered
    PROVE  FollowInv'
<1>1. /\ screen.unlocked /\ screen' = [screen EXCEPT !.unlocked = FALSE, !.locked = FALSE]
      /\ UNCHANGED <<prompt, proven, owed, misread, writing, chosen, hiddenSince, lockTime, left>>
  BY DEF unlock_answered, ScreenOnly, KeepsFile, KeepsClock
<1>2. /\ screen' \in ScreenRow /\ screen'.listens = screen.listens /\ screen'.gate = screen.gate
      /\ screen'.saved = screen.saved /\ screen'.mirror = screen.mirror
  BY <1>1 DEF FollowInv, LockTyped, ScreenRow
<1>3. LockTyped'
  BY <1>1, <1>2 DEF FollowInv, LockTyped
<1>4. WritingFits' /\ MirrorFits'
  BY <1>1, <1>2 DEF FollowInv, WritingFits, MirrorFits
<1>5. ~Clean
  BY <1>1 DEF Clean
<1>6. AwayFits' /\ CoverFits'
  BY <1>1, <1>2, <1>5 DEF FollowInv, AwayFits, CoverFits
<1>. QED  BY <1>3, <1>4, <1>6 DEF FollowInv

\* A restart paints its first frame from the mirror.
LEMMA ProcessRestarts ==
    ASSUME FollowInv, restart
    PROVE  FollowInv'
<1>1. /\ screen' = NewScreen(screen.mirror) /\ writing' = Unset /\ hiddenSince' = Unset /\ left' = Unset
      /\ prompt' = "idle" /\ owed' = chosen.enabled /\ UNCHANGED <<lockTime, chosen, misread>>
  BY DEF restart
<1>2. proven' \in BOOLEAN /\ owed' \in BOOLEAN
  BY <1>1 DEF restart, FollowInv, LockTyped, Preference
<1>3. /\ screen' \in ScreenRow /\ screen'.gate = "asked" /\ screen'.events = <<>> /\ ~screen'.unlocked
      /\ screen'.saved = Unset
  <2>1. screen.mirror \in BOOLEAN
    BY DEF FollowInv, LockTyped, ScreenRow
  <2>. QED  BY <1>1, <2>1, ScreenStart
<1>4. LockTyped'
  BY <1>1, <1>2, <1>3 DEF FollowInv, LockTyped
<1>5. Clean'
  BY <1>1, <1>3 DEF Clean
<1>. QED  BY <1>1, <1>3, <1>4, <1>5 DEF FollowInv, WritingFits, MirrorFits, AwayFits, CoverFits

\* Every step keeps the screen following the setting.
LEMMA FollowStep == ~LateAnswers /\ KeptInv /\ FollowInv /\ [LockNext]_lockVars => FollowInv'
<1> SUFFICES ASSUME ~LateAnswers, KeptInv, FollowInv, [LockNext]_lockVars PROVE FollowInv'
  OBVIOUS
<1>1. ASSUME NEW enabled \in BOOLEAN, set_app_lock(enabled) PROVE FollowInv'
  <2>1. PICK read \in CanRead :
           /\ NoteReads({read})
           /\ write_preference([enabled |-> enabled, timeout |-> TimeoutOf(read)],
                               [chosen EXCEPT !.enabled = enabled], TRUE)
    BY <1>1 DEF set_app_lock
  <2>2. PICK choice : choice = [chosen EXCEPT !.enabled = enabled]
    OBVIOUS
  <2>4. choice \in Preference /\ choice.timeout >= MinTimeout
    BY <2>2 DEF FollowInv, LockTyped, Preference
  <2>3. misread' = misread \/ misread' = TRUE
    BY <2>1, ReadsAreTrue
  <2>. QED  BY <1>1, <2>1, <2>2, <2>3, <2>4, CommandBegins DEF set_app_lock
<1>2. ASSUME NEW secs \in Timeouts, set_app_lock_timeout(secs) PROVE FollowInv'
  <2>1. PICK read \in CanRead :
           /\ NoteReads({read})
           /\ write_preference([enabled |-> Enabled(read), timeout |-> secs],
                               [chosen EXCEPT !.timeout = secs], FALSE)
    BY <1>2 DEF set_app_lock_timeout
  <2>2. secs \in Nat /\ secs >= MinTimeout
    BY <1>2, LockAssumption DEF set_app_lock_timeout
  <2>3. PICK choice : choice = [chosen EXCEPT !.timeout = secs]
    OBVIOUS
  <2>5. choice \in Preference /\ choice.timeout >= MinTimeout /\ choice.enabled = chosen.enabled
    BY <2>2, <2>3 DEF FollowInv, LockTyped, Preference
  <2>4. misread' = misread \/ misread' = TRUE
    BY <2>1, ReadsAreTrue
  <2>. QED  BY <1>2, <2>1, <2>3, <2>4, <2>5, CommandBegins DEF set_app_lock_timeout
<1>3. CASE write_temporary \/ security_unlock \/ UNCHANGED lockVars
  <2>1. /\ UNCHANGED <<writing, hiddenSince, lockTime, screen, chosen, misread, left, proven, owed>>
        /\ prompt' = prompt \/ prompt' = "shown"
    BY <1>3 DEF write_temporary, security_unlock, lockVars, KeepsHost, KeepsFile, KeepsClock
  <2>2. LockTyped'
    BY <2>1 DEF FollowInv, LockTyped
  <2>3. Clean => Clean'
    BY <2>1 DEF Clean
  <2>. QED  BY <2>1, <2>2, <2>3 DEF FollowInv, WritingFits, MirrorFits, AwayFits, CoverFits
<1>4. CASE write_fails
  <2>1. /\ writing' = Unset
        /\ UNCHANGED <<hiddenSince, lockTime, screen, chosen, misread, left, proven, owed, prompt>>
    BY <1>4 DEF write_fails, KeepsHost
  <2>2. LockTyped'
    BY <2>1 DEF FollowInv, LockTyped
  <2>3. Clean <=> Clean'
    BY <2>1 DEF Clean
  <2>. QED  BY <2>1, <2>2, <2>3 DEF FollowInv, WritingFits, MirrorFits, AwayFits, CoverFits
<1>. QED
  BY <1>1, <1>2, <1>3, <1>4, RenameFollows, MirrorSaved, FocusLost, FocusGained, LockTick, Subscribes, GateAnswers,
     GateFollows, LockEvent, Authenticates, TellUnlocked, UnlockAnswered, ProcessRestarts
  DEF LockNext

\* When nothing is under way and no read failed, the screen covers a page that owes an authentication,
\* and the mirror says what was chosen (LockFollows).  ~LateAnswers: an answer or an
\* event does not take as long as a timeout; the page's commands are given when the gate is done.
THEOREM LockFollowsHolds ==
    ASSUME ~LateAnswers
    PROVE  LockSpec => []LockFollows
<1>1. FollowInv => LockFollows
  <2> SUFFICES ASSUME FollowInv, LockSettled, ~misread
               PROVE  (owed => screen.locked) /\ screen.mirror = chosen.enabled
    BY DEF LockFollows, OwedIsCovered, MirrorFollows
  <2>. QED  BY DEF FollowInv, MirrorFits, CoverFits, LockSettled
<1>. QED  BY <1>1, KeptStart, KeptStep, FollowStart, FollowStep, PTL DEF LockSpec

-----------------------------------------------------------------------------
(***************************************************************************)
(* The database and its migrations (Migrations).                           *)
(***************************************************************************)

\* The set has a greatest element.
HasGreatest(S) == \E x \in S : \A y \in S : y <= x

\* Induction over the size of the set, as the least of the sizes of counterexamples.
LEMMA FiniteSetsHaveGreatest ==
    ASSUME NEW S \in SUBSET Int, IsFiniteSet(S), S # {}
    PROVE  HasGreatest(S)
<1> DEFINE Fails(T) == T \in SUBSET Int /\ IsFiniteSet(T) /\ T # {} /\ ~HasGreatest(T)
           Sizes == {n \in Nat : \E T : Fails(T) /\ Cardinality(T) = n}
<1> SUFFICES ASSUME ~HasGreatest(S) PROVE FALSE
  OBVIOUS
<1>1. Cardinality(S) \in Sizes
  BY FS_CardinalityType
<1>2. PICK n \in Sizes : \A k \in Sizes : ~(<<k, n>> \in OpToRel(<, Nat))
  <2>1. Sizes # {} /\ Sizes \subseteq Nat
    BY <1>1
  <2> HIDE DEF Sizes
  <2>. QED  BY <2>1, NatLessThanWellFounded, WFMin
<1>3. \A k \in Sizes : ~(k < n)
  BY <1>2 DEF OpToRel
<1>4. PICK T : Fails(T) /\ Cardinality(T) = n
  BY <1>2
<1>5. PICK x : x \in T
  BY <1>4
<1>6. IsFiniteSet(T \ {x}) /\ Cardinality(T \ {x}) = n - 1 /\ n \in Nat
  BY <1>2, <1>4, <1>5, FS_RemoveElement
<1>7. CASE T \ {x} = {}
  <2>1. T = {x} /\ x \in Int
    BY <1>4, <1>5, <1>7
  <2>. QED  BY <1>4, <2>1 DEF HasGreatest
<1>8. CASE T \ {x} # {}
  <2>1. n - 1 \in Nat
    BY <1>6, FS_CardinalityType
  <2>2. ~Fails(T \ {x})
    <3>1. n - 1 < n
      BY <1>6
    <3>2. n - 1 \notin Sizes
      BY <1>3, <3>1
    <3>. QED  BY <1>6, <2>1, <3>2
  <2>3. HasGreatest(T \ {x})
    BY <1>4, <1>6, <1>8, <2>2
  <2>4. PICK y \in T \ {x} : \A z \in T \ {x} : z <= y
    BY <2>3 DEF HasGreatest
  <2>5. x \in Int /\ T \subseteq Int
    BY <1>4, <1>5
  <2>6. \A z \in T : z <= (IF x <= y THEN y ELSE x)
    BY <2>4, <2>5
  <2>. QED  BY <1>4, <1>5, <2>4, <2>6 DEF HasGreatest
<1>. QED  BY <1>7, <1>8

\* The statement makes a table or a column.
Makes(s) == s.op \in {"create", "alter"}

\* Where the columns are added.
ColumnAt(column, k, i) ==
    \/ column = "raw_proto" /\ k = 2 /\ i = 1
    \/ column = "starred" /\ k = 4 /\ i = 1
    \/ column = "last_kind" /\ k = 7 /\ i = 1
    \/ column = "last_from_me" /\ k = 7 /\ i = 2
    \/ column = "name_source" /\ k = 10 /\ i = 1
\* The columns that ALTER TABLE adds; the tables come with CREATE TABLE.
Columns == {"raw_proto", "starred", "last_kind", "last_from_me", "name_source"}

\* A batch stamps its version last, but the first, and adds each column at one place.
BatchFits(k) ==
    /\ Len(Schema[k]) \in 1..4
    /\ \A i \in 1..Len(Schema[k]) :
          /\ Schema[k][i].op = "stamp" <=> k # 1 /\ i = Len(Schema[k])
          /\ Schema[k][i].op = "alter" => ColumnAt(Schema[k][i].on, k, i)
          /\ Schema[k][i].op = "create" => Schema[k][i].on \notin Columns
          /\ k = 1 => Schema[k][i].op = "create"

\* The ten batches are so.
LEMMA SchemaFits == Len(Schema) = 10 /\ SCHEMA_VERSION = 10 /\ \A k \in 1..10 : BatchFits(k)
<1>1. Len(Schema) = 10 /\ SCHEMA_VERSION = 10
  BY DEF SCHEMA_VERSION, Schema
<1>2. BatchFits(1)
  BY DEF BatchFits, Schema, Create, AddColumn, Do, ColumnAt, Columns
<1>3. BatchFits(2)
  BY DEF BatchFits, Schema, Create, AddColumn, Do, ColumnAt, Columns
<1>4. BatchFits(3)
  BY DEF BatchFits, Schema, Create, AddColumn, Do, ColumnAt, Columns
<1>5. BatchFits(4)
  BY DEF BatchFits, Schema, Create, AddColumn, Do, ColumnAt, Columns
<1>6. BatchFits(5)
  BY DEF BatchFits, Schema, Create, AddColumn, Do, ColumnAt, Columns
<1>7. BatchFits(6)
  BY DEF BatchFits, Schema, Create, AddColumn, Do, ColumnAt, Columns
<1>8. BatchFits(7)
  BY DEF BatchFits, Schema, Create, AddColumn, Do, ColumnAt, Columns
<1>9. BatchFits(8)
  BY DEF BatchFits, Schema, Create, AddColumn, Do, ColumnAt, Columns
<1>10. BatchFits(9)
  BY DEF BatchFits, Schema, Create, AddColumn, Do, ColumnAt, Columns
<1>11. BatchFits(10)
  BY DEF BatchFits, Schema, Create, AddColumn, Do, ColumnAt, Columns
<1>12. \A k \in 1..10 : k \in {1, 2, 3, 4, 5, 6, 7, 8, 9, 10}
  OBVIOUS
<1>. QED  BY <1>1, <1>2, <1>3, <1>4, <1>5, <1>6, <1>7, <1>8, <1>9, <1>10, <1>11, <1>12

\* None is empty.
LEMMA BatchLengths == \A k \in 1..10 : Len(Schema[k]) \in Nat /\ 1 \in 1..Len(Schema[k])
<1> SUFFICES ASSUME NEW k \in 1..10 PROVE Len(Schema[k]) \in Nat /\ 1 \in 1..Len(Schema[k])
  OBVIOUS
<1>1. PICK n : n = Len(Schema[k])
  OBVIOUS
<1>2. n \in 1..4
  BY <1>1, SchemaFits DEF BatchFits
<1>3. n \in Nat /\ 1 \in 1..n
  BY <1>2
<1>. QED  BY <1>1, <1>3

\* A column is made by no other statement.
LEMMA ColumnsOnce ==
    ASSUME NEW k \in 1..10, NEW i \in 1..Len(Schema[k]), NEW l \in 1..10, NEW j \in 1..Len(Schema[l]),
           Schema[k][i].op = "alter", Makes(Schema[l][j]), Schema[k][i].on = Schema[l][j].on
    PROVE  k = l /\ i = j
<1>1. BatchFits(k) /\ BatchFits(l)
  BY SchemaFits
<1>2. ColumnAt(Schema[k][i].on, k, i)
  BY <1>1 DEF BatchFits
<1>3. CASE Schema[l][j].op = "alter"
  <2>1. ColumnAt(Schema[k][i].on, l, j)
    BY <1>1, <1>3 DEF BatchFits
  <2>. QED  BY <1>2, <2>1 DEF ColumnAt
<1>4. CASE Schema[l][j].op = "create"
  <2>1. Schema[k][i].on \notin Columns
    BY <1>1, <1>4 DEF BatchFits
  <2>. QED  BY <1>2, <2>1 DEF ColumnAt, Columns
<1>. QED  BY <1>3, <1>4 DEF Makes

-----------------------------------------------------------------------------
\* Statement j of batch l is run before statement i of batch k.
Before(l, j, k, i) == l < k \/ (l = k /\ j < i)

\* What the statements before this one make is there ...
HasBefore(k, i) ==
    \A l \in 1..10 : \A j \in 1..Len(Schema[l]) :
       Before(l, j, k, i) /\ Makes(Schema[l][j]) => Schema[l][j].on \in database.has
\* ... and no column of the later ones is.
LacksFrom(k, i) ==
    \A l \in 1..10 : \A j \in 1..Len(Schema[l]) :
       ~Before(l, j, k, i) /\ Schema[l][j].op = "alter" => Schema[l][j].on \notin database.has

\* What the database of a version has, statement by statement.
LEMMA MadeByVersion ==
    ASSUME NEW version \in 0..10, NEW x
    PROVE  x \in MadeBy(version) <=>
              \E l \in 1..10 : \E j \in 1..Len(Schema[l]) : l <= version /\ Makes(Schema[l][j]) /\ Schema[l][j].on = x
<1>1. \A k \in 1..10 : DOMAIN Schema[k] = 1..Len(Schema[k])
  <2>1. \A k \in 1..10 : k \in {1, 2, 3, 4, 5, 6, 7, 8, 9, 10}
    OBVIOUS
  <2>2. DOMAIN Schema[1] = 1..Len(Schema[1]) /\ DOMAIN Schema[2] = 1..Len(Schema[2])
    BY DEF Schema
  <2>3. DOMAIN Schema[3] = 1..Len(Schema[3]) /\ DOMAIN Schema[4] = 1..Len(Schema[4])
    BY DEF Schema
  <2>4. DOMAIN Schema[5] = 1..Len(Schema[5]) /\ DOMAIN Schema[6] = 1..Len(Schema[6])
    BY DEF Schema
  <2>5. DOMAIN Schema[7] = 1..Len(Schema[7]) /\ DOMAIN Schema[8] = 1..Len(Schema[8])
    BY DEF Schema
  <2>6. DOMAIN Schema[9] = 1..Len(Schema[9]) /\ DOMAIN Schema[10] = 1..Len(Schema[10])
    BY DEF Schema
  <2>. QED  BY <2>1, <2>2, <2>3, <2>4, <2>5, <2>6, SMTT(30)
<1>2. \A k \in 1..10 : x \in Made(k) <=> \E j \in 1..Len(Schema[k]) : Makes(Schema[k][j]) /\ Schema[k][j].on = x
  BY <1>1 DEF Made, Makes
<1>3. x \in MadeBy(version) <=> \E k \in 1..version : x \in Made(k)
  BY DEF MadeBy
<1>4. \A k : k \in 1..version <=> k \in 1..10 /\ k <= version
  OBVIOUS
<1>. QED  BY <1>2, <1>3, <1>4

-----------------------------------------------------------------------------
\* The steps of an open after its migrations.
Opened == {"backfill", "activity", "stamping", "open"}
\* The chat's row has the newest message's kind.
KindFits == LET chat == database.chat IN chat.messages # {} => chat.kind = Newest(chat.messages).kind
\* The activity time is not behind a message.
TimesFit == \A m \in database.chat.messages : m.time <= database.chat.activity

\* Types.
SchemaTyped ==
    /\ database \in [version : 0..10, has : SUBSET MadeBy(10), chat : ChatRow] /\ IsTable(database.chat.messages)
    /\ at[1] \in 1..10 /\ at[2] \in 1..Len(Schema[at[1]])
    /\ opening \in {"closed", "running", "failed"} \cup Opened
    /\ torn \in BOOLEAN /\ wasOpen \in BOOLEAN

\* Where the migration is, and what the database has by then.
Placed ==
    /\ HasBefore(database.version + 1, 1)
    /\ opening = "closed" /\ ~torn => LacksFrom(database.version + 1, 1)
    /\ opening = "running" => /\ HasBefore(at[1], at[2])
                              /\ database.version = at[1] - 1 \/ (at[1] = 2 /\ database.version = 0)
                              /\ ~torn => LacksFrom(at[1], at[2])
    /\ opening \in Opened => database.version = 10
    /\ opening = "failed" => torn

\* What the last steps of an open leave, and a later one finds.
Healed ==
    /\ opening \in {"activity", "stamping", "open"} => KindFits
    /\ opening \in {"stamping", "open"} => TimesFit
    /\ wasOpen => database.version = 10 /\ KindFits /\ TimesFit /\ opening \in {"closed"} \cup Opened

\* The inductive invariant of both theorems.
SchemaInv == SchemaTyped /\ Placed /\ Healed

\* A database at the last version has everything.
LEMMA HasWhole ==
    ASSUME SchemaTyped, Placed, database.version = 10
    PROVE  database.has = MadeBy(SCHEMA_VERSION)
<1>1. SCHEMA_VERSION = 10
  BY SchemaFits
<1>2. ASSUME NEW x \in database.has PROVE x \in MadeBy(10)
  BY <1>2 DEF SchemaTyped
<1>3. ASSUME NEW x \in MadeBy(10) PROVE x \in database.has
  <2>1. PICK l \in 1..10 : \E j \in 1..Len(Schema[l]) : Makes(Schema[l][j]) /\ Schema[l][j].on = x
    BY <1>3, MadeByVersion
  <2>2. PICK j \in 1..Len(Schema[l]) : Makes(Schema[l][j]) /\ Schema[l][j].on = x
    BY <2>1
  <2>3. l < database.version + 1 /\ HasBefore(database.version + 1, 1)
    BY <2>1 DEF Placed
  <2>. QED  BY <2>2, <2>3 DEF HasBefore, Before
<1>. QED  BY <1>1, <1>2, <1>3

\* A database of any old version is so.
LEMMA SchemaStart == SchemaInit => SchemaInv
<1> SUFFICES ASSUME SchemaInit PROVE SchemaInv
  OBVIOUS
<1>1. PICK version \in 0..10, chat \in OldChats :
         database = [version |-> version, has |-> MadeBy(version),
                     chat |-> [chat EXCEPT !.kind = IF version < 7 THEN Null ELSE @,
                                           !.source = IF version < 10 THEN "" ELSE @]]
  BY SchemaFits DEF SchemaInit
<1>2. opening = "closed" /\ at = <<1, 1>> /\ ~wasOpen /\ ~torn /\ wasOpen \in BOOLEAN /\ torn \in BOOLEAN
  BY DEF SchemaInit
<1>3. chat \in ChatRow /\ IsTable(chat.messages)
  BY SchemaAssumption
<1>4. database.chat \in ChatRow /\ database.chat.messages = chat.messages
  <2>1. PICK kind \in STRING \cup {Null}, source \in {"", "placeholder", "subject"} :
           database.chat = [chat EXCEPT !.kind = kind, !.source = source]
    <3>1. chat.kind \in STRING \cup {Null} /\ chat.source \in {"", "placeholder", "subject"}
      BY <1>3 DEF ChatRow
    <3>2. (IF version < 7 THEN Null ELSE chat.kind) \in STRING \cup {Null}
      BY <3>1
    <3>3. (IF version < 10 THEN "" ELSE chat.source) \in {"", "placeholder", "subject"}
      BY <3>1
    <3>. QED  BY <1>1, <3>2, <3>3
  <2>. QED  BY <1>3, <2>1 DEF ChatRow
<1>5. MadeBy(version) \subseteq MadeBy(10)
  BY MadeByVersion
<1>6. database.version = version /\ database.has = MadeBy(version)
  BY <1>1
<1>7. SchemaTyped
  <2>1. BatchFits(1)
    BY SchemaFits
  <2>2. database \in [version : 0..10, has : SUBSET MadeBy(10), chat : ChatRow]
    BY <1>1, <1>4, <1>5
  <2>3. at[1] = 1 /\ at[2] = 1 /\ 1 \in 1..Len(Schema[1])
    BY <1>2, BatchLengths
  <2>4. IsTable(database.chat.messages)
    BY <1>3, <1>4
  <2>. QED  BY <1>2, <2>2, <2>3, <2>4 DEF SchemaTyped
<1>8. HasBefore(version + 1, 1)
  BY <1>6, MadeByVersion DEF HasBefore, Before
<1>9. LacksFrom(version + 1, 1)
  <2> SUFFICES ASSUME NEW l \in 1..10, NEW j \in 1..Len(Schema[l]),
                      ~Before(l, j, version + 1, 1), Schema[l][j].op = "alter",
                      Schema[l][j].on \in MadeBy(version)
               PROVE  FALSE
    BY <1>6 DEF LacksFrom
  <2>1. PICK k \in 1..10 : \E i \in 1..Len(Schema[k]) :
            k <= version /\ Makes(Schema[k][i]) /\ Schema[k][i].on = Schema[l][j].on
    BY MadeByVersion
  <2>2. k = l
    BY <2>1, ColumnsOnce
  <2>3. l > version
    <3>1. Len(Schema[l]) \in Nat
      BY SchemaFits DEF BatchFits
    <3>. QED  BY <3>1 DEF Before
  <2>. QED  BY <2>1, <2>2, <2>3
<1>. QED  BY <1>2, <1>6, <1>7, <1>8, <1>9 DEF SchemaInv, Placed, Healed, Opened

\* A table has finitely many times.
LEMMA TimesFinite ==
    ASSUME NEW messages \in SUBSET MessageRow, IsTable(messages), messages # {}
    PROVE  LET times == {m.time : m \in messages} IN IsFiniteSet(times) /\ times \in SUBSET Int /\ times # {}
<1> DEFINE times == {m.time : m \in messages}
<1>1. [m \in messages |-> m.time] \in Surjection(messages, times)
  BY DEF Surjection
<1>2. times \in SUBSET Int
  BY DEF MessageRow
<1>3. times # {}
  OBVIOUS
<1> HIDE DEF times
<1>4. IsFiniteSet(times)
  BY <1>1, FS_Surjection DEF IsTable
<1>5. IsFiniteSet(times) /\ times \in SUBSET Int /\ times # {}
  BY <1>2, <1>3, <1>4
<1>. QED  BY <1>5 DEF times

\* A table that is not empty has a newest message.
LEMMA NewestIs ==
    ASSUME NEW messages \in SUBSET MessageRow, IsTable(messages), messages # {}
    PROVE  Newest(messages) \in messages
<1> DEFINE times == {m.time : m \in messages}
<1>1. IsFiniteSet(times) /\ times \in SUBSET Int /\ times # {}
  BY TimesFinite
<1>2. PICK last \in times : \A t \in times : t <= last
  <2> HIDE DEF times
  <2>. QED  BY <1>1, FiniteSetsHaveGreatest DEF HasGreatest
<1> DEFINE latest == {m \in messages : m.time = last}
           rows == {m.row : m \in latest}
<1>3. IsFiniteSet(rows) /\ rows \in SUBSET Int /\ rows # {}
  <2>1. [m \in latest |-> m.row] \in Surjection(latest, rows)
    BY DEF Surjection
  <2>2. rows \in SUBSET Int
    BY DEF MessageRow
  <2>3. IsFiniteSet(latest)
    BY FS_Subset DEF IsTable
  <2>4. rows # {}
    BY <1>2
  <2> HIDE DEF latest, rows
  <2>5. IsFiniteSet(rows)
    BY <2>1, <2>3, FS_Surjection
  <2>. QED  BY <2>2, <2>4, <2>5
<1>4. PICK top \in rows : \A r \in rows : r <= top
  <2> HIDE DEF rows
  <2>. QED  BY <1>3, FiniteSetsHaveGreatest DEF HasGreatest
<1>5. PICK m \in latest : m.row = top
  BY <1>4
<1>6. ASSUME NEW n \in messages \ {m} PROVE n.time < m.time \/ (n.time = m.time /\ n.row < m.row)
  <2>1. n.time \in Int /\ n.row \in Int /\ m.time \in Int /\ m.row \in Int /\ m.time = last
    BY <1>5 DEF MessageRow
  <2>2. n.row # m.row
    BY <1>5 DEF IsTable
  <2>3. n.time <= m.time
    BY <1>2, <2>1
  <2>4. CASE n.time = m.time
    <3>1. n.row <= top
      BY <1>4, <2>1, <2>4
    <3>. QED  BY <1>5, <2>1, <2>2, <2>4, <3>1
  <2>. QED  BY <2>1, <2>3, <2>4
<1>. QED  BY <1>5, <1>6 DEF Newest

\* A statement more is run.
LEMMA BeforeNext ==
    ASSUME SchemaTyped, NEW k, NEW i, k = at[1], i = at[2]
    PROVE  /\ \A l \in 1..10 : \A j \in 1..Len(Schema[l]) :
                 /\ i < Len(Schema[k]) => (Before(l, j, k, i + 1) <=> Before(l, j, k, i) \/ (l = k /\ j = i))
                 /\ i = Len(Schema[k]) => (Before(l, j, k + 1, 1) <=> Before(l, j, k, i) \/ (l = k /\ j = i))
           /\ i <= Len(Schema[k])
<1>1. k \in 1..10 /\ i \in 1..Len(Schema[k])
  BY DEF SchemaTyped
<1>2. \A l \in 1..10 : Len(Schema[l]) \in Nat
  BY SchemaFits DEF BatchFits
<1>3. ASSUME NEW l \in 1..10, NEW j \in 1..Len(Schema[l])
      PROVE  /\ i < Len(Schema[k]) => (Before(l, j, k, i + 1) <=> Before(l, j, k, i) \/ (l = k /\ j = i))
             /\ i = Len(Schema[k]) => (Before(l, j, k + 1, 1) <=> Before(l, j, k, i) \/ (l = k /\ j = i))
  <2>1. PICK n \in Nat : n = Len(Schema[k])
    BY <1>1, <1>2
  <2>2. PICK m \in Nat : m = Len(Schema[l])
    BY <1>2
  <2>3. i \in 1..n /\ j \in 1..m /\ (l = k => m = n)
    BY <1>1, <2>1, <2>2
  <2>4. i < n => (Before(l, j, k, i + 1) <=> Before(l, j, k, i) \/ (l = k /\ j = i))
    BY <1>1, <2>3 DEF Before
  <2>5. i = n => (Before(l, j, k + 1, 1) <=> Before(l, j, k, i) \/ (l = k /\ j = i))
    BY <1>1, <2>3 DEF Before
  <2>. QED  BY <2>1, <2>4, <2>5
<1>. QED  BY <1>1, <1>2, <1>3

\* What a batch does to the rows keeps their types.
LEMMA ChangedFits ==
    ASSUME NEW chat \in ChatRow, IsTable(chat.messages), NEW op
    PROVE  Changed(chat, op) \in ChatRow /\ IsTable(Changed(chat, op).messages)
<1>1. CASE op = "purge"
  <2>1. PICK messages : messages = {m \in chat.messages : m.kind # "system"}
    OBVIOUS
  <2>2. messages \subseteq chat.messages /\ IsTable(messages)
    BY <2>1, FS_Subset DEF IsTable
  <2>3. Changed(chat, op) = [chat EXCEPT !.messages = messages]
    BY <1>1, <2>1 DEF Changed
  <2>4. messages \in SUBSET MessageRow
    BY <2>2 DEF ChatRow
  <2>. QED  BY <2>2, <2>3, <2>4 DEF ChatRow
<1>2. CASE op = "reclassify"
  <2>1. PICK group \in BOOLEAN : group = (chat.group \/ chat.longLid)
    BY DEF ChatRow
  <2>2. Changed(chat, op) = [chat EXCEPT !.group = group]
    BY <1>2, <2>1 DEF Changed
  <2>. QED  BY <2>2 DEF ChatRow
<1>3. CASE op = "reset"
  BY <1>3 DEF Changed, ChatRow
<1>4. CASE op \notin {"purge", "reclassify", "reset"}
  BY <1>4 DEF Changed
<1>. QED  BY <1>1, <1>2, <1>3, <1>4

\* A statement moves the place on by one.
LEMMA StatementRuns ==
    ASSUME SchemaInv, run_statement
    PROVE  SchemaInv'
<1> DEFINE k == at[1]
           i == at[2]
           s == Schema[k][i]
<1>1. /\ opening = "running" /\ ~wasOpen /\ HasBefore(k, i) /\ k \in 1..10 /\ i \in 1..Len(Schema[k])
      /\ Len(Schema[k]) \in 1..4 /\ UNCHANGED <<from, wasOpen, torn>>
  BY SchemaFits DEF SchemaInv, SchemaTyped, Placed, Healed, Opened, run_statement, BatchFits
<1>2. /\ database' = [version |-> IF s.op = "stamp" THEN k ELSE database.version,
                      has |-> database.has \cup (IF s.op \in {"create", "alter"} THEN {s.on} ELSE {}),
                      chat |-> Changed(database.chat, s.op)]
      /\ \/ i < Len(Schema[k]) /\ at'[1] = k /\ at'[2] = i + 1 /\ opening' = "running"
         \/ i = Len(Schema[k]) /\ k < 10 /\ at'[1] = k + 1 /\ at'[2] = 1 /\ opening' = "running"
         \/ i = Len(Schema[k]) /\ k = 10 /\ at' = at /\ opening' = "backfill"
  BY <1>1, SchemaFits, SMTT(30) DEF run_statement
<1>3. s.op = "stamp" <=> k # 1 /\ i = Len(Schema[k])
  BY <1>1, SchemaFits DEF BatchFits
<1>4. \A x : x \in database'.has <=> x \in database.has \/ (Makes(s) /\ x = s.on)
  BY <1>2 DEF Makes
<1>5. SchemaTyped'
  <2>1. database'.chat \in ChatRow /\ IsTable(database'.chat.messages)
    BY <1>2, ChangedFits DEF SchemaInv, SchemaTyped
  <2>2. database'.has \subseteq MadeBy(10)
    <3>1. Makes(s) => s.on \in MadeBy(10)
      BY <1>1, MadeByVersion
    <3>. QED  BY <1>4, <3>1 DEF SchemaInv, SchemaTyped
  <2>3. database' \in [version : 0..10, has : SUBSET MadeBy(10), chat : ChatRow]
    <3>1. PICK v, h, c : database' = [version |-> v, has |-> h, chat |-> c]
      BY <1>2
    <3>2. database'.version = v /\ database'.has = h /\ database'.chat = c
      BY <3>1
    <3>3. database'.version \in 0..10
      <4>1. k \in 0..10 /\ database.version \in 0..10
        BY <1>1 DEF SchemaInv, SchemaTyped
      <4>2. database'.version = IF s.op = "stamp" THEN k ELSE database.version
        BY <1>2
      <4>. QED  BY <4>1, <4>2
    <3>. QED  BY <2>1, <2>2, <3>1, <3>2, <3>3
  <2>4. at'[1] \in 1..10 /\ at'[2] \in 1..Len(Schema[at'[1]])
    <3>1. CASE i < Len(Schema[k]) /\ at'[1] = k /\ at'[2] = i + 1
      <4>1. PICK n \in Nat : n = Len(Schema[k])
        BY <1>1, BatchLengths
      <4>2. i + 1 \in 1..n
        BY <1>1, <3>1, <4>1
      <4>. QED  BY <1>1, <3>1, <4>1, <4>2
    <3>2. CASE k < 10 /\ at'[1] = k + 1 /\ at'[2] = 1
      <4>1. k + 1 \in 1..10
        BY <1>1, <3>2
      <4>2. 1 \in 1..Len(Schema[k + 1])
        BY <4>1, BatchLengths
      <4>. QED  BY <3>2, <4>1, <4>2
    <3>. QED  BY <1>1, <1>2, <3>1, <3>2
  <2>. QED  BY <1>1, <1>2, <2>1, <2>3, <2>4 DEF SchemaInv, SchemaTyped, Opened
<1>6. opening' = "running" => HasBefore(at[1], at[2])' /\ (~torn => LacksFrom(at[1], at[2])')
  <2> SUFFICES ASSUME opening' = "running" PROVE HasBefore(at[1], at[2])' /\ (~torn => LacksFrom(at[1], at[2])')
    OBVIOUS
  <2>1. ASSUME NEW l \in 1..10, NEW j \in 1..Len(Schema[l])
        PROVE  Before(l, j, at'[1], at'[2]) <=> Before(l, j, k, i) \/ (l = k /\ j = i)
    <3>1. i < Len(Schema[k]) => (Before(l, j, k, i + 1) <=> Before(l, j, k, i) \/ (l = k /\ j = i))
      BY BeforeNext DEF SchemaInv
    <3>2. i = Len(Schema[k]) => (Before(l, j, k + 1, 1) <=> Before(l, j, k, i) \/ (l = k /\ j = i))
      BY BeforeNext DEF SchemaInv
    <3>. QED  BY <1>2, <3>1, <3>2
  <2>2. HasBefore(at[1], at[2])'
    BY <1>1, <1>4, <2>1 DEF HasBefore, Before
  <2>3. ASSUME ~torn, NEW l \in 1..10, NEW j \in 1..Len(Schema[l]),
               ~Before(l, j, at'[1], at'[2]), Schema[l][j].op = "alter"
        PROVE  Schema[l][j].on \notin database'.has
    <3>1. Schema[l][j].on \notin database.has
      BY <1>1, <2>1, <2>3 DEF SchemaInv, Placed, LacksFrom
    <3>2. ~(Makes(s) /\ Schema[l][j].on = s.on)
      BY <1>1, <2>1, <2>3, ColumnsOnce
    <3>. QED  BY <1>4, <3>1, <3>2
  <2>. QED  BY <2>2, <2>3 DEF LacksFrom, Before
<1>7. HasBefore(database.version + 1, 1)'
  <2>1. CASE s.op = "stamp"
    <3>1. database'.version = k
      BY <1>2, <2>1
    <3>2. i = Len(Schema[k])
      BY <1>3, <2>1
    <3>3. ASSUME NEW l \in 1..10, NEW j \in 1..Len(Schema[l])
          PROVE  Before(l, j, k + 1, 1) <=> Before(l, j, k, i) \/ (l = k /\ j = i)
      BY <3>2, BeforeNext DEF SchemaInv
    <3>. QED  BY <1>1, <1>4, <3>1, <3>3 DEF HasBefore, Before
  <2>2. CASE s.op # "stamp"
    <3>1. database'.version = database.version
      BY <1>2, <2>2
    <3>. QED  BY <1>4, <3>1 DEF SchemaInv, Placed, HasBefore, Before
  <2>. QED  BY <2>1, <2>2
<1>8. opening' = "running" => database'.version = at'[1] - 1 \/ (at'[1] = 2 /\ database'.version = 0)
  <2>1. database.version = k - 1 \/ (k = 2 /\ database.version = 0)
    BY <1>1 DEF SchemaInv, Placed
  <2>. QED  BY <1>1, <1>2, <1>3, <2>1
<1>9. opening' = "backfill" => database'.version = 10
  BY <1>1, <1>2, <1>3
<1>10. Placed'
  BY <1>1, <1>2, <1>6, <1>7, <1>8, <1>9 DEF Placed, Opened
<1>11. Healed'
  BY <1>1, <1>2 DEF Healed
<1>. QED  BY <1>5, <1>10, <1>11, SMTT(30) DEF SchemaInv

\* The place is taken from the version.
LEMMA VersionIsRead ==
    ASSUME SchemaInv, read_version
    PROVE  SchemaInv'
<1>1. /\ opening = "closed" /\ UNCHANGED <<database, wasOpen, torn>>
      /\ \/ database.version < 10 /\ opening' = "running" /\ at'[1] = database.version + 1 /\ at'[2] = 1
         \/ database.version = 10 /\ opening' = "backfill" /\ at' = at
  BY SchemaFits DEF read_version, SchemaInv, SchemaTyped
<1>2. at'[1] \in 1..10 /\ at'[2] \in 1..Len(Schema[at'[1]])
  <2>1. CASE database.version < 10 /\ at'[1] = database.version + 1 /\ at'[2] = 1
    <3>1. database.version + 1 \in 1..10
      BY <2>1 DEF SchemaInv, SchemaTyped
    <3>2. 1 \in 1..Len(Schema[database.version + 1])
      BY <3>1, BatchLengths
    <3>. QED  BY <2>1, <3>1, <3>2
  <2>2. CASE at' = at
    BY <2>2 DEF SchemaInv, SchemaTyped
  <2>. QED  BY <1>1, <2>1, <2>2
<1>3. SchemaTyped'
  BY <1>1, <1>2 DEF SchemaInv, SchemaTyped, Opened
<1>4. Placed'
  BY <1>1, SMTT(30) DEF SchemaInv, SchemaTyped, Placed, HasBefore, LacksFrom, Before, Opened
<1>5. Healed'
  BY <1>1 DEF SchemaInv, Healed, KindFits, TimesFit, Opened
<1>. QED  BY <1>3, <1>4, <1>5 DEF SchemaInv

\* A column that is there already was torn.
LEMMA AlterFails ==
    ASSUME SchemaInv, column_exists
    PROVE  SchemaInv'
<1>1. /\ opening = "running" /\ opening' = "failed" /\ ~wasOpen /\ UNCHANGED <<database, at, wasOpen, torn>>
      /\ Schema[at[1]][at[2]].op = "alter" /\ Schema[at[1]][at[2]].on \in database.has
  BY DEF column_exists, SchemaInv, Healed, Opened
<1>2. at[1] \in 1..10 /\ at[2] \in 1..Len(Schema[at[1]]) /\ Len(Schema[at[1]]) \in Nat
  BY SchemaFits DEF SchemaInv, SchemaTyped, BatchFits
<1>3. ~Before(at[1], at[2], at[1], at[2])
  BY <1>2 DEF Before
<1>4. torn
  BY <1>1, <1>2, <1>3 DEF SchemaInv, Placed, LacksFrom
<1>. QED  BY <1>1, <1>4 DEF SchemaInv, SchemaTyped, Placed, Healed, HasBefore, Before, Opened

\* The program ends: torn only if it was past an ALTER TABLE of its batch.
LEMMA OpeningKilled ==
    ASSUME SchemaInv, kill
    PROVE  SchemaInv'
<1>1. /\ opening' = "closed" /\ UNCHANGED <<database, at, wasOpen>>
      /\ opening \in {"running", "backfill", "activity", "stamping"}
      /\ torn' = (torn \/ (opening = "running" /\ \E j \in 1..at[2] - 1 : Schema[at[1]][j].op = "alter"))
  BY DEF kill
<1>2. ASSUME ~torn' PROVE LacksFrom(database.version + 1, 1)
  <2>1. CASE opening # "running"
    BY <1>1, <2>1 DEF SchemaInv, SchemaTyped, Placed, LacksFrom, Before, Opened
  <2>2. CASE opening = "running"
    <3>1. /\ LacksFrom(at[1], at[2]) /\ at[1] \in 1..10 /\ at[2] \in 1..Len(Schema[at[1]])
          /\ database.version = at[1] - 1 \/ (at[1] = 2 /\ database.version = 0)
          /\ \A j \in 1..at[2] - 1 : Schema[at[1]][j].op # "alter"
      BY <1>1, <1>2, <2>2 DEF SchemaInv, SchemaTyped, Placed
    <3>2. \A l \in 1..10 : Len(Schema[l]) \in Nat
      BY BatchLengths
    <3>3. \A j \in 1..Len(Schema[1]) : Schema[1][j].op # "alter"
      BY SchemaFits DEF BatchFits
    <3>4. ASSUME NEW l \in 1..10, NEW j \in 1..Len(Schema[l]), ~Before(l, j, database.version + 1, 1),
                 Schema[l][j].op = "alter"
          PROVE  Schema[l][j].on \notin database.has
      <4>1. l # 1
        BY <3>3, <3>4
      <4>2. l >= at[1]
        BY <3>1, <3>4, <4>1, SMTT(30) DEF Before
      <4>3. PICK n \in Nat : n = Len(Schema[l])
        BY <3>2
      <4>4. j \in 1..n
        BY <4>3
      <4>5. l = at[1] => at[2] \in 1..n
        BY <3>1, <4>3
      <4>6. l = at[1] => j >= at[2]
        BY <3>1, <3>4, <4>4, <4>5
      <4>7. ~Before(l, j, at[1], at[2])
        BY <3>1, <4>2, <4>4, <4>5, <4>6 DEF Before
      <4>. QED  BY <3>1, <3>4, <4>7 DEF LacksFrom
    <3>. QED  BY <3>4 DEF LacksFrom
  <2>. QED  BY <2>1, <2>2
<1>3. torn' \in BOOLEAN
  BY <1>1 DEF SchemaInv, SchemaTyped
<1>4. SchemaTyped'
  BY <1>1, <1>3 DEF SchemaInv, SchemaTyped
<1>5. Placed'
  BY <1>1, <1>2 DEF SchemaInv, Placed, HasBefore, LacksFrom, Before, Opened
<1>6. Healed'
  BY <1>1 DEF SchemaInv, Healed, KindFits, TimesFit, Opened
<1>. QED  BY <1>4, <1>5, <1>6 DEF SchemaInv

\* The steps that change the chat only.
LEMMA ChatOnly ==
    ASSUME SchemaInv, NEW chat \in ChatRow, database' = [database EXCEPT !.chat = chat],
           IsTable(chat.messages), UNCHANGED <<at, wasOpen, torn>>, opening \in Opened, opening' \in Opened
    PROVE  /\ database'.chat = chat
           /\ Healed' => SchemaInv'
<1>1. database'.chat = chat /\ database'.version = database.version /\ database'.has = database.has
  BY DEF SchemaInv, SchemaTyped
<1>2. SchemaTyped'
  <2>1. database' \in [version : 0..10, has : SUBSET MadeBy(10), chat : ChatRow]
    BY DEF SchemaInv, SchemaTyped
  <2>. QED  BY <1>1, <2>1 DEF SchemaInv, SchemaTyped
<1>3. Placed'
  BY <1>1 DEF SchemaInv, Placed, HasBefore, LacksFrom, Before, Opened
<1>. QED  BY <1>1, <1>2, <1>3 DEF SchemaInv

\* The backfill makes the kind right, and leaves a right one.
LEMMA KindsAreFilled ==
    ASSUME SchemaInv, backfill_newest
    PROVE  SchemaInv' /\ (KindFits => UNCHANGED database)
<1>1. opening = "backfill" /\ opening' = "activity" /\ UNCHANGED <<at, wasOpen, torn>>
  BY DEF backfill_newest
<1>2. /\ database.chat \in ChatRow /\ IsTable(database.chat.messages)
      /\ database.chat.messages \in SUBSET MessageRow
      /\ database \in [version : 0..10, has : SUBSET MadeBy(10), chat : ChatRow]
  BY DEF SchemaInv, SchemaTyped, ChatRow
<1>3. CASE database.chat.messages = {}
  <2>1. database' = database
    BY <1>3 DEF backfill_newest
  <2>2. KindFits'
    BY <1>3, <2>1 DEF KindFits
  <2>. QED  BY <1>1, <2>1, <2>2 DEF SchemaInv, SchemaTyped, Placed, Healed, TimesFit, HasBefore, LacksFrom, Before, Opened
<1>4. CASE database.chat.messages # {}
  <2>1. PICK kind : kind = Newest(database.chat.messages).kind
    OBVIOUS
  <2>2. kind \in STRING
    <3>1. Newest(database.chat.messages) \in MessageRow
      BY <1>2, <1>4, NewestIs
    <3>. QED  BY <2>1, <3>1 DEF MessageRow
  <2>3. PICK chat : chat = [database.chat EXCEPT !.kind = kind]
    OBVIOUS
  <2>4. /\ chat \in ChatRow /\ chat.messages = database.chat.messages /\ chat.kind = kind
        /\ chat.activity = database.chat.activity
    BY <1>2, <2>2, <2>3 DEF ChatRow
  <2>5. database' = [database EXCEPT !.chat = chat]
    BY <1>2, <1>4, <2>1, <2>3 DEF backfill_newest
  <2>6. database'.chat = chat /\ database'.version = database.version
    BY <1>2, <2>5
  <2>7. KindFits'
    BY <2>1, <2>4, <2>6 DEF KindFits
  <2>8. TimesFit => TimesFit'
    BY <2>4, <2>6 DEF TimesFit
  <2>9. Healed'
    BY <1>1, <2>6, <2>7, <2>8 DEF Healed, SchemaInv, Opened
  <2>10. SchemaInv'
    BY <1>1, <1>2, <2>4, <2>5, <2>9, ChatOnly DEF Opened
  <2>11. KindFits => database' = database
    <3> SUFFICES ASSUME KindFits PROVE database' = database
      OBVIOUS
    <3>1. database.chat.kind = kind
      BY <1>4, <2>1 DEF KindFits
    <3>2. chat = database.chat
      BY <1>2, <2>3, <3>1 DEF ChatRow
    <3>. QED  BY <1>2, <2>5, <3>2
  <2>. QED  BY <2>10, <2>11
<1>. QED  BY <1>3, <1>4

\* The heal makes the activity right, and leaves a right one.
LEMMA ActivityHeals ==
    ASSUME SchemaInv, heal_activity
    PROVE  SchemaInv' /\ (TimesFit => UNCHANGED database)
<1> DEFINE times == {m.time : m \in database.chat.messages}
<1>1. opening = "activity" /\ opening' = "stamping" /\ UNCHANGED <<at, wasOpen, torn>>
  BY DEF heal_activity
<1>2. /\ database.chat \in ChatRow /\ IsTable(database.chat.messages)
      /\ database.chat.messages \in SUBSET MessageRow
      /\ database \in [version : 0..10, has : SUBSET MadeBy(10), chat : ChatRow]
  BY DEF SchemaInv, SchemaTyped, ChatRow
<1>3. CASE \A t \in times : t <= database.chat.activity
  <2>1. database' = database
    BY <1>3 DEF heal_activity
  <2>2. TimesFit
    BY <1>3 DEF TimesFit
  <2>3. TimesFit' /\ (KindFits => KindFits')
    BY <2>1, <2>2 DEF TimesFit, KindFits
  <2>. QED  BY <1>1, <2>1, <2>3 DEF SchemaInv, SchemaTyped, Placed, Healed, HasBefore, LacksFrom, Before, Opened
<1>4. CASE ~(\A t \in times : t <= database.chat.activity)
  <2>1. IsFiniteSet(times) /\ times \in SUBSET Int /\ times # {}
    BY <1>2, <1>4, TimesFinite
  <2>2. PICK last : last = CHOOSE t \in times : \A u \in times : u <= t
    OBVIOUS
  <2>3. last \in times /\ \A u \in times : u <= last
    <3> HIDE DEF times
    <3>1. \E t \in times : \A u \in times : u <= t
      BY <2>1, FiniteSetsHaveGreatest DEF HasGreatest
    <3>. QED  BY <2>2, <3>1
  <2>4. PICK chat : chat = [database.chat EXCEPT !.activity = last]
    OBVIOUS
  <2>5. last \in Int
    BY <2>1, <2>3
  <2>6. /\ chat \in ChatRow /\ chat.messages = database.chat.messages /\ chat.kind = database.chat.kind
        /\ chat.activity = last
    BY <1>2, <2>4, <2>5 DEF ChatRow
  <2>7. database' = [database EXCEPT !.chat = chat]
    BY <1>2, <1>4, <2>2, <2>4 DEF heal_activity
  <2>8. database'.chat = chat /\ database'.version = database.version
    BY <1>2, <2>7
  <2>9. KindFits => KindFits'
    BY <2>6, <2>8 DEF KindFits
  <2>10. TimesFit'
    BY <2>3, <2>6, <2>8 DEF TimesFit
  <2>11. Healed'
    BY <1>1, <2>8, <2>9, <2>10 DEF Healed, SchemaInv, Opened
  <2>12. SchemaInv'
    BY <1>1, <1>2, <2>6, <2>7, <2>11, ChatOnly DEF Opened
  <2>13. ~TimesFit
    BY <1>4 DEF TimesFit
  <2>. QED  BY <2>12, <2>13
<1>. QED  BY <1>3, <1>4

\* The last stamp changes nothing.
LEMMA VersionIsStamped ==
    ASSUME SchemaInv, stamp_version
    PROVE  SchemaInv' /\ UNCHANGED database
<1>1. opening = "stamping" /\ opening' = "open" /\ wasOpen' = TRUE /\ UNCHANGED <<at, torn>>
  BY DEF stamp_version
<1>2. /\ database \in [version : 0..10, has : SUBSET MadeBy(10), chat : ChatRow]
      /\ database.version = 10
  BY <1>1 DEF SchemaInv, SchemaTyped, Placed, Opened
<1>3. [database EXCEPT !.version = SCHEMA_VERSION] = database
  BY <1>2, SchemaFits
<1>4. UNCHANGED database
  BY <1>3 DEF stamp_version
<1>5. KindFits' /\ TimesFit'
  BY <1>1, <1>4 DEF SchemaInv, Healed, KindFits, TimesFit
<1>. QED  BY <1>1, <1>2, <1>4, <1>5 DEF SchemaInv, SchemaTyped, Placed, Healed, HasBefore, LacksFrom, Before, Opened

\* A name found later disturbs neither.
LEMMA SubjectIsFound ==
    ASSUME SchemaInv, group_subject_found
    PROVE  SchemaInv'
<1>1. opening = "open" /\ UNCHANGED <<opening, at, wasOpen, torn>>
  BY DEF group_subject_found
<1>2. /\ database.chat \in ChatRow /\ IsTable(database.chat.messages)
      /\ database \in [version : 0..10, has : SUBSET MadeBy(10), chat : ChatRow]
  BY DEF SchemaInv, SchemaTyped
<1>3. PICK chat : chat = [database.chat EXCEPT !.name = "subject", !.source = "subject"]
  OBVIOUS
<1>4. /\ chat \in ChatRow /\ chat.messages = database.chat.messages /\ chat.kind = database.chat.kind
      /\ chat.activity = database.chat.activity
  BY <1>2, <1>3 DEF ChatRow
<1>5. database' = [database EXCEPT !.chat = chat]
  BY <1>2, <1>3 DEF group_subject_found
<1>6. database'.chat = chat /\ database'.version = database.version
  BY <1>2, <1>5
<1>7. KindFits' /\ TimesFit'
  BY <1>1, <1>4, <1>6 DEF SchemaInv, Healed, KindFits, TimesFit
<1>8. Healed'
  BY <1>1, <1>6, <1>7 DEF SchemaInv, Healed
<1>. QED  BY <1>1, <1>2, <1>4, <1>5, <1>8, ChatOnly DEF Opened

\* The store is closed.
LEMMA StoreCloses ==
    ASSUME SchemaInv, close
    PROVE  SchemaInv'
<1>1. opening \in {"open", "failed"} /\ opening' = "closed" /\ UNCHANGED <<database, at, wasOpen, torn>>
  BY DEF close
<1>2. ~torn => LacksFrom(database.version + 1, 1)
  <2> SUFFICES ASSUME ~torn PROVE LacksFrom(database.version + 1, 1)
    OBVIOUS
  <2>1. database.version = 10
    BY <1>1 DEF SchemaInv, Placed, Opened
  <2>. QED  BY <2>1 DEF LacksFrom, Before
<1>. QED  BY <1>1, <1>2 DEF SchemaInv, SchemaTyped, Placed, Healed, KindFits, TimesFit, HasBefore, LacksFrom, Before, Opened

\* Every step keeps it.
LEMMA SchemaStep == SchemaInv /\ [SchemaNext]_schemaVars => SchemaInv'
<1> SUFFICES ASSUME SchemaInv, [SchemaNext]_schemaVars PROVE SchemaInv'
  OBVIOUS
<1>1. CASE UNCHANGED schemaVars
  BY <1>1 DEF schemaVars, SchemaInv, SchemaTyped, Placed, Healed, KindFits, TimesFit, HasBefore, LacksFrom, Before, Opened
<1>2. CASE SchemaNext
  BY <1>2, VersionIsRead, StatementRuns, AlterFails, KindsAreFilled, ActivityHeals, VersionIsStamped,
     SubjectIsFound, StoreCloses, OpeningKilled
     DEF SchemaNext
<1>. QED  BY <1>1, <1>2

\* So it holds throughout.
LEMMA SchemaInvHolds == SchemaSpec => []SchemaInv
  BY SchemaStart, SchemaStep, PTL DEF SchemaSpec

\* However often the program ended on the way, an open store is whole, and only a torn ALTER TABLE
\* makes an open fail (OpensWhole), for every content of the old database.
THEOREM OpensWholeHolds == SchemaSpec => []OpensWhole
<1>1. SchemaInv => OpensWhole
  <2> SUFFICES ASSUME SchemaInv PROVE OpensWhole
    OBVIOUS
  <2>1. opening = "open" => database.has = MadeBy(SCHEMA_VERSION)
    BY HasWhole DEF SchemaInv, Placed, Opened
  <2>. QED  BY <2>1, SchemaFits
         DEF SchemaInv, Placed, Healed, KindFits, TimesFit, Opened, OpensWhole, OpenIsWhole, FailsOnlyWhenTorn
<1>. QED  BY <1>1, SchemaInvHolds, PTL

\* Opening a store again that was open once changes nothing (ReopenChangesNothing).
THEOREM ReopensHold == SchemaSpec => ReopenChangesNothing
<1>1. SchemaInv /\ [SchemaNext]_schemaVars => [wasOpen /\ opening # "open" => UNCHANGED database]_schemaVars
  <2> SUFFICES ASSUME SchemaInv, SchemaNext, wasOpen, opening # "open" PROVE UNCHANGED database
    OBVIOUS
  <2>1. KindFits /\ TimesFit /\ opening \in {"closed"} \cup Opened
    BY DEF SchemaInv, Healed
  <2>2. CASE backfill_newest
    BY <2>1, <2>2, KindsAreFilled
  <2>3. CASE heal_activity
    BY <2>1, <2>3, ActivityHeals
  <2>4. CASE stamp_version
    BY <2>4, VersionIsStamped
  <2>5. ~run_statement
    BY <2>1 DEF run_statement, Opened
  <2>. QED  BY <2>2, <2>3, <2>4, <2>5 DEF SchemaNext, read_version, column_exists, group_subject_found, close, kill
<1>. QED  BY <1>1, SchemaInvHolds, PTL DEF SchemaSpec, ReopenChangesNothing

-----------------------------------------------------------------------------
(***************************************************************************)
(* The call list (CallLog).                                                *)
(***************************************************************************)

\* What a row may hold.
RowIds == {record_from_entry(e).id : e \in CallEntries}
RowChats == {record_from_entry(e).chat : e \in CallEntries} \cup {CallAlias.to}
CallRow == [id : RowIds, chat : RowChats, from_me : BOOLEAN, outcome : CallOutcome, started_at : Nat]

\* Types, and an import under way has its time from the clock.
CallTyped ==
    /\ callRows \in SUBSET CallRow /\ IsFiniteSet(callRows)
    /\ callSeen \in SUBSET CallEntries /\ IsFiniteSet(callSeen)
    /\ callImport \in [left : Seq(CallEntries), now : Nat]
    /\ callImport.left # <<>> => callImport.now \in 1..callNow
    /\ callNow \in Nat \ {0}
    /\ callLinked \in BOOLEAN

\* The entry tells what the row says.
Tells(e, r) ==
    LET told == record_from_entry(e) IN
    /\ told.id = r.id
    /\ told.outcome = r.outcome /\ told.from_me = r.from_me
    /\ r.chat \in {told.chat} \cup (IF callLinked /\ told.chat = CallAlias.from THEN {CallAlias.to} ELSE {})
    /\ IF told.started_at > 0 THEN r.started_at = told.started_at ELSE r.started_at \in 1..callNow

\* An id has one row ...
OneRowPerId == \A r, s \in callRows : r.id = s.id => r = s
\* ... that some imported entry tells.
RowsTell == \A r \in callRows : \E e \in callSeen : Tells(e, r)

\* The inductive invariant of ImportsHold.
CallInv == CallTyped /\ OneRowPerId /\ RowsTell

\* An entry makes a row with an id.
LEMMA EntriesAre ==
    ASSUME NEW e \in CallEntries
    PROVE  LET row == record_from_entry(e) IN
           /\ row \in [id : RowIds, chat : RowChats, from_me : BOOLEAN, outcome : CallOutcome, started_at : Nat]
           /\ row.id # Nothing
<1> DEFINE row == record_from_entry(e)
<1>1. row.id \in RowIds /\ row.chat \in RowChats
  BY DEF RowIds, RowChats
<1>2. row.from_me \in BOOLEAN /\ row.id # Nothing
  BY CallAssumption DEF record_from_entry
<1>3. row.outcome \in CallOutcome
  BY DEF record_from_entry, from_result, CallOutcome
<1>4. row.started_at \in Nat
  BY CallAssumption DEF record_from_entry
<1>5. row = [id |-> row.id, chat |-> row.chat, from_me |-> row.from_me, outcome |-> row.outcome,
             started_at |-> row.started_at]
  BY DEF record_from_entry
<1>. QED  BY <1>1, <1>2, <1>3, <1>4, <1>5

\* One entry of an import, or a live item.
LEMMA ImportOne ==
    ASSUME CallInv, NEW e \in CallEntries, NEW now \in 1..callNow, import_one(e, now),
           UNCHANGED <<callLinked, callNow>>
    PROVE  /\ callRows' \in SUBSET CallRow /\ IsFiniteSet(callRows')
           /\ callSeen' \in SUBSET CallEntries /\ IsFiniteSet(callSeen')
           /\ OneRowPerId' /\ RowsTell'
<1> DEFINE told == record_from_entry(e)
<1>1. PICK row : /\ row = IF told.started_at = 0 THEN [told EXCEPT !.started_at = now] ELSE told
                 /\ callRows' = {r \in callRows : r.id # row.id} \cup {row}
  BY DEF import_one, upsert_call_log
<1>2. callSeen' = callSeen \cup {e}
  BY DEF import_one
<1>3. /\ told \in [id : RowIds, chat : RowChats, from_me : BOOLEAN, outcome : CallOutcome, started_at : Nat]
      /\ now \in Nat /\ now >= 1 /\ now <= callNow /\ callNow \in Nat
  BY EntriesAre DEF CallInv, CallTyped
<1>4. /\ row \in [id : RowIds, chat : RowChats, from_me : BOOLEAN, outcome : CallOutcome, started_at : Nat]
      /\ row.id = told.id /\ row.chat = told.chat /\ row.from_me = told.from_me /\ row.outcome = told.outcome
      /\ row.started_at = IF told.started_at = 0 THEN now ELSE told.started_at
  <2> HIDE DEF told
  <2>. QED  BY <1>1, <1>3
<1>5. callRows' \in SUBSET CallRow
  BY <1>1, <1>4 DEF CallInv, CallTyped, CallRow
<1>6. IsFiniteSet(callRows') /\ IsFiniteSet(callSeen')
  <2>1. IsFiniteSet({r \in callRows : r.id # row.id})
    BY FS_Subset DEF CallInv, CallTyped
  <2>. QED  BY <1>1, <1>2, <2>1, FS_AddElement DEF CallInv, CallTyped
<1>7. callSeen' \in SUBSET CallEntries
  BY <1>2 DEF CallInv, CallTyped
<1>8. OneRowPerId'
  BY <1>1 DEF OneRowPerId, CallInv
<1>9. Tells(e, row)'
  <2> HIDE DEF told
  <2>1. told.started_at \in Nat
    BY <1>3
  <2>2. IF told.started_at > 0 THEN row.started_at = told.started_at ELSE row.started_at \in 1..callNow
    BY <1>3, <1>4, <2>1
  <2>. QED  BY <1>4, <2>2 DEF Tells, told
<1>10. ASSUME NEW r \in callRows PROVE \E f \in callSeen : Tells(f, r)'
  BY DEF CallInv, RowsTell, Tells
<1>11. RowsTell'
  BY <1>1, <1>2, <1>9, <1>10 DEF RowsTell
<1>. QED  BY <1>5, <1>6, <1>7, <1>8, <1>11

\* The empty log.
LEMMA CallStart == CallInit => CallInv
<1> SUFFICES ASSUME CallInit PROVE CallInv
  OBVIOUS
<1>1. IsFiniteSet(callRows) /\ IsFiniteSet(callSeen)
  BY FS_EmptySet DEF CallInit
<1>2. callImport \in [left : Seq(CallEntries), now : Nat] /\ callImport.left = <<>>
  BY DEF CallInit, NoImport
<1>3. CallTyped
  <2>1. callRows = {} /\ callSeen = {} /\ callNow = 1
    BY DEF CallInit
  <2>2. callLinked \in BOOLEAN
    BY DEF CallInit
  <2>. QED  BY <1>1, <1>2, <2>1, <2>2 DEF CallTyped
<1>4. OneRowPerId /\ RowsTell
  BY DEF CallInit, OneRowPerId, RowsTell
<1>. QED  BY <1>3, <1>4 DEF CallInv

\* Every step keeps the rows told.
LEMMA CallStep == CallInv /\ [CallNext]_callVars => CallInv'
<1> SUFFICES ASSUME CallInv, [CallNext]_callVars PROVE CallInv'
  OBVIOUS
<1>1. CASE UNCHANGED callVars
  <2>1. CallTyped'
    BY <1>1 DEF callVars, CallInv, CallTyped
  <2>. QED  BY <1>1, <2>1 DEF callVars, CallInv, OneRowPerId, RowsTell, Tells
<1>2. ASSUME NEW r \in CallRecords, NEW s \in CallRecords, import_history(<<r, s>>) PROVE CallInv'
  <2>1. PICK todo : todo = [i \in 1..Len(<<r, s>>) |-> call_log_entry_from_record(<<r, s>>[i])]
    OBVIOUS
  <2>2. todo \in Seq(CallEntries)
    <3>1. \A i \in 1..Len(<<r, s>>) : <<r, s>>[i] \in CallRecords
      OBVIOUS
    <3>2. Len(<<r, s>>) = 2
      OBVIOUS
    <3>3. todo \in [1..2 -> CallEntries]
      BY <2>1, <3>1, <3>2 DEF CallEntries
    <3>. QED  BY <3>3, SeqDef
  <2>3. callImport' = [left |-> todo, now |-> callNow]
    BY <1>2, <2>1 DEF import_history
  <2>4. UNCHANGED <<callRows, callSeen, callLinked, callNow>>
    BY <1>2 DEF import_history
  <2>5. callNow \in 1..callNow
    BY DEF CallInv, CallTyped
  <2>6. CallTyped'
    BY <2>2, <2>3, <2>4, <2>5 DEF CallInv, CallTyped
  <2>. QED  BY <2>4, <2>6 DEF CallInv, OneRowPerId, RowsTell, Tells
<1>3. CASE import_next
  <2>1. /\ callImport.left # <<>> /\ import_one(Head(callImport.left), callImport.now)
        /\ callImport' = [callImport EXCEPT !.left = Tail(@)] /\ UNCHANGED <<callLinked, callNow>>
    BY <1>3 DEF import_next
  <2>2. PICK todo \in Seq(CallEntries) : todo = callImport.left /\ todo # <<>>
    BY <2>1 DEF CallInv, CallTyped
  <2>3. Head(todo) \in CallEntries /\ Tail(todo) \in Seq(CallEntries)
    BY <2>2
  <2>4. callImport.now \in 1..callNow
    BY <2>1 DEF CallInv, CallTyped
  <2>5. callImport' \in [left : Seq(CallEntries), now : Nat] /\ callImport'.now = callImport.now
    BY <2>1, <2>2, <2>3 DEF CallInv, CallTyped
  <2>6. CallTyped' /\ OneRowPerId' /\ RowsTell'
    BY <2>1, <2>2, <2>3, <2>4, <2>5, ImportOne DEF CallInv, CallTyped
  <2>. QED  BY <2>6 DEF CallInv
<1>4. CASE import_fails
  BY <1>4 DEF import_fails, NoImport, CallInv, CallTyped, OneRowPerId, RowsTell, Tells
<1>5. ASSUME NEW m \in CallItems, import_live(m) PROVE CallInv'
  <2>1. call_log_entry_from_message_with_direction(m) \in CallEntries
    BY DEF CallEntries
  <2>2. callNow \in 1..callNow
    BY DEF CallInv, CallTyped
  <2>3. UNCHANGED <<callImport, callLinked, callNow>>
    BY <1>5 DEF import_live
  <2>4. CallTyped' /\ OneRowPerId' /\ RowsTell'
    BY <1>5, <2>1, <2>2, <2>3, ImportOne DEF import_live, CallInv, CallTyped
  <2>. QED  BY <2>4 DEF CallInv
<1>6. CASE link_call_log
  <2> DEFINE Moved(r) == [r EXCEPT !.chat = IF @ = CallAlias.from THEN CallAlias.to ELSE @]
  <2>1. /\ callLinked' = TRUE /\ callRows' = {Moved(r) : r \in callRows}
        /\ UNCHANGED <<callSeen, callImport, callNow>>
    BY <1>6 DEF link_call_log
  <2>2. ASSUME NEW r \in callRows
        PROVE  /\ Moved(r) \in CallRow /\ Moved(r).id = r.id
               /\ Moved(r).chat = IF r.chat = CallAlias.from THEN CallAlias.to ELSE r.chat
               /\ Moved(r).from_me = r.from_me /\ Moved(r).outcome = r.outcome /\ Moved(r).started_at = r.started_at
    <3>1. r \in [id : RowIds, chat : RowChats, from_me : BOOLEAN, outcome : CallOutcome, started_at : Nat]
      BY DEF CallInv, CallTyped, CallRow
    <3>2. PICK chat : chat = IF r.chat = CallAlias.from THEN CallAlias.to ELSE r.chat
      OBVIOUS
    <3>3. chat \in RowChats
      BY <3>1, <3>2 DEF RowChats
    <3>4. Moved(r) = [r EXCEPT !.chat = chat]
      BY <3>2
    <3>. QED  BY <3>1, <3>2, <3>3, <3>4 DEF CallRow
  <2>3. IsFiniteSet(callRows')
    <3> HIDE DEF Moved
    <3>1. [r \in callRows |-> Moved(r)] \in Surjection(callRows, callRows')
      BY <2>1 DEF Surjection
    <3>. QED  BY <3>1, FS_Surjection DEF CallInv, CallTyped
  <2>4. CallTyped'
    <3> HIDE DEF Moved
    <3>. QED  BY <2>1, <2>2, <2>3 DEF CallInv, CallTyped
  <2>5. OneRowPerId'
    <3> HIDE DEF Moved
    <3>. QED  BY <2>1, <2>2 DEF CallInv, OneRowPerId
  <2>6. ASSUME NEW r \in callRows, NEW e \in callSeen, Tells(e, r) PROVE Tells(e, Moved(r))'
    <3> HIDE DEF Moved
    <3>. QED  BY <2>1, <2>2, <2>6 DEF Tells
  <2>7. RowsTell'
    <3> HIDE DEF Moved
    <3>. QED  BY <2>1, <2>6 DEF CallInv, RowsTell
  <2>. QED  BY <2>4, <2>5, <2>7 DEF CallInv
<1>7. CASE call_tick
  <2>1. callNow' = callNow + 1 /\ UNCHANGED <<callRows, callSeen, callImport, callLinked>>
    BY <1>7 DEF call_tick
  <2>2. callNow \in Nat /\ \A t : t \in 1..callNow => t \in 1..(callNow + 1)
    BY DEF CallInv, CallTyped
  <2>3. CallTyped'
    BY <2>1, <2>2 DEF CallInv, CallTyped
  <2>4. ASSUME NEW r \in callRows, NEW e \in callSeen, Tells(e, r) PROVE Tells(e, r)'
    BY <2>1, <2>2, <2>4 DEF Tells
  <2>5. RowsTell'
    BY <2>1, <2>4 DEF CallInv, RowsTell
  <2>. QED  BY <2>1, <2>3, <2>5 DEF CallInv, OneRowPerId
<1>. QED  BY <1>1, <1>2, <1>3, <1>4, <1>5, <1>6, <1>7 DEF CallNext

\* A listed row imports as itself.
LEMMA ListingFits ==
    ASSUME CallInv, NEW r \in callRows
    PROVE  /\ entry_from_record(r).result \in CallLogResult
           /\ record_from_entry(entry_from_record(r)) = r
<1>1. r \in [id : RowIds, chat : RowChats, from_me : BOOLEAN, outcome : CallOutcome, started_at : Nat]
  BY DEF CallInv, CallTyped, CallRow
<1>2. PICK e \in callSeen : Tells(e, r)
  BY DEF CallInv, RowsTell
<1>3. e \in CallEntries
  BY <1>2 DEF CallInv, CallTyped
<1>4. r.id # Nothing
  BY <1>2, <1>3, EntriesAre DEF Tells
<1>5. r.started_at \in Nat /\ r.started_at > 0
  <2>1. record_from_entry(e).started_at \in Nat
    BY <1>3, EntriesAre
  <2>. QED  BY <1>2, <2>1 DEF Tells, CallInv, CallTyped
<1>6. PICK listed : listed = entry_from_record(r)
  OBVIOUS
<1>7. /\ listed.id = r.id /\ (listed.incoming = "no" <=> r.from_me) /\ listed.start = r.started_at
      /\ listed.result = to_result(r.outcome)
  BY <1>6 DEF entry_from_record
<1>8. r.outcome \in CallOutcome
  BY <1>1
<1>9. to_result(r.outcome) \in CallLogResult /\ from_result(to_result(r.outcome)) = r.outcome
  BY <1>8 DEF to_result, from_result, CallLogResult, CallOutcome
<1>10. PICK told : told = record_from_entry(listed)
  OBVIOUS
<1>11. told.chat = r.chat
  <2>1. CASE r.chat \in GroupJids
    BY <1>6, <1>10, <2>1, CallAssumption DEF entry_from_record, record_from_entry
  <2>2. CASE r.chat = Nothing
    BY <1>6, <1>10, <2>2, CallAssumption DEF entry_from_record, record_from_entry
  <2>3. CASE r.chat \notin GroupJids \cup {Nothing}
    <3>1. listed.group = Nothing /\ listed.participants = <<r.chat>>
      BY <1>6, <2>3 DEF entry_from_record
    <3>2. <<r.chat>> # <<>> /\ Head(<<r.chat>>) = r.chat
      OBVIOUS
    <3>. QED  BY <1>10, <3>1, <3>2 DEF record_from_entry
  <2>. QED  BY <2>1, <2>2, <2>3
<1>12. told.id = r.id /\ told.from_me = r.from_me /\ told.outcome = r.outcome /\ told.started_at = r.started_at
  <2>2. told.id = r.id /\ told.outcome = r.outcome
    BY <1>4, <1>7, <1>9, <1>10 DEF record_from_entry
  <2>3. told.from_me = r.from_me
    BY <1>1, <1>7, <1>10 DEF record_from_entry
  <2>4. told.started_at = r.started_at
    BY <1>5, <1>7, <1>10, CallAssumption DEF record_from_entry
  <2>. QED  BY <2>2, <2>3, <2>4
<1>13. told = [id |-> told.id, chat |-> told.chat, from_me |-> told.from_me, outcome |-> told.outcome,
              started_at |-> told.started_at]
  BY <1>10 DEF record_from_entry
<1>14. r = [id |-> r.id, chat |-> r.chat, from_me |-> r.from_me, outcome |-> r.outcome, started_at |-> r.started_at]
  BY <1>1
<1>15. told = r
  BY <1>11, <1>12, <1>13, <1>14
<1>. QED  BY <1>6, <1>7, <1>9, <1>10, <1>15

\* There are no more rows than entries: each row has an entry of its own.
LEMMA RowsAreFewer ==
    ASSUME CallInv
    PROVE  Cardinality(callRows) <= Cardinality(callSeen)
<1> DEFINE teller == [r \in callRows |-> CHOOSE e \in callSeen : Tells(e, r)]
<1>1. \A r \in callRows : teller[r] \in callSeen /\ Tells(teller[r], r)
  BY DEF CallInv, RowsTell
<1>2. teller \in Injection(callRows, callSeen)
  <2>1. teller \in [callRows -> callSeen]
    BY <1>1
  <2>2. ASSUME NEW r \in callRows, NEW s \in callRows, teller[r] = teller[s] PROVE r = s
    <3> HIDE DEF teller
    <3>1. record_from_entry(teller[r]).id = r.id /\ record_from_entry(teller[s]).id = s.id
      BY <1>1 DEF Tells
    <3>. QED  BY <2>2, <3>1 DEF CallInv, OneRowPerId
  <2> HIDE DEF teller
  <2>. QED  BY <2>1, <2>2 DEF Injection, IsInjective
<1> HIDE DEF teller
<1>. QED  BY <1>2, FS_Injection DEF CallInv, CallTyped

\* In whatever order and however often history and live items tell of calls, the log has a row of each,
\* that tells what they told and imports as itself (ImportsSettle), for any set of records and items.
THEOREM ImportsHold == CallSpec => []ImportsSettle
<1>1. CallInv => ImportsSettle
  <2> SUFFICES ASSUME CallInv PROVE ImportsSettle
    OBVIOUS
  <2>1. RecordsMerge
    BY RowsAreFewer DEF RecordsMerge, CallInv, OneRowPerId
  <2>2. RowsTellTheirEntry
    BY DEF RowsTellTheirEntry, CallInv, RowsTell, Tells
  <2>3. ListingReimports
    BY ListingFits DEF ListingReimports
  <2>. QED  BY <2>1, <2>2, <2>3 DEF ImportsSettle
<1>. QED  BY <1>1, CallStart, CallStep, PTL DEF CallSpec

-----------------------------------------------------------------------------
(***************************************************************************)
(* Poll votes (Polls).                                                     *)
(***************************************************************************)

\* A vote under way.
Ballot == [at : {"lookup", "found"}, poll : Polls, chat : {PollChat[p] : p \in Polls}, secret : BOOLEAN,
           creator : {Nobody, Pn, Lid}]

\* Of a poll whose row is stored here, or is about to be, the library has the secret.
SecretKept ==
    \A p \in Polls :
       /\ pollRows[p] \in {Nobody, PollChat[p]}
       /\ pollRows[p] # Nobody \/ p \in making => Secret(p) \in secretStore

\* A vote under way has the chat and the creator that the poll was made with.
BallotFits(b) ==
    b.at # "idle" =>
       /\ b \in Ballot /\ b.chat = PollChat[b.poll] /\ Secret(b.poll) \in secretStore
       /\ b.at = "found" /\ from_me(b.poll) => b.creator = WireCreator(b.poll)

\* Of chats that were not linked.
PollsKept ==
    /\ pollRows \in [Polls -> {Nobody} \cup {PollChat[p] : p \in Polls}]
    /\ DOMAIN ballot = Voters
    /\ secretStore \subseteq {Secret(p) : p \in Polls}
    /\ SecretKept
    /\ \A v \in Voters : BallotFits(ballot[v])
    /\ VotesNameTheCreator /\ pollError = {}

\* The inductive invariant of VotesHold.
PollInv == ~pollsLinked => PollsKept

\* What the library has of a poll is under its creator.
LEMMA SecretsAre ==
    ASSUME PollsKept, NEW p \in Polls, NEW sender, [chat |-> PollChat[p], sender |-> sender, poll |-> p] \in secretStore
    PROVE  sender = WireCreator(p)
<1>1. PICK q \in Polls : [chat |-> PollChat[p], sender |-> sender, poll |-> p] = Secret(q)
  BY DEF PollsKept
<1>. QED  BY <1>1 DEF Secret

\* The library finds the secret of a poll, and who created it.
LEMMA SecretIsFound ==
    ASSUME PollsKept, NEW p \in Polls, Secret(p) \in secretStore
    PROVE  /\ Hits(p, PollChat[p]) # {}
           /\ \A i \in Hits(p, PollChat[p]) : Candidates(p)[i] = WireCreator(p)
<1>1. Hits(p, PollChat[p]) # {}
  <2>1. CASE from_me(p) /\ WireCreator(p) = Pn
    <3>1. Candidates(p) = <<Pn, Lid>> /\ 1 \in DOMAIN Candidates(p) /\ Candidates(p)[1] = Pn
      BY <2>1 DEF Candidates
    <3>. QED  BY <2>1, <3>1 DEF Hits, Secret
  <2>2. CASE from_me(p) /\ WireCreator(p) = Lid
    <3>1. Candidates(p) = <<Pn, Lid>> /\ 2 \in DOMAIN Candidates(p) /\ Candidates(p)[2] = Lid
      BY <2>2 DEF Candidates
    <3>. QED  BY <2>2, <3>1 DEF Hits, Secret
  <2>3. CASE ~from_me(p)
    <3>1. 1 \in DOMAIN Candidates(p) /\ Candidates(p)[1] = PollSender[p]
      BY <2>3 DEF Candidates
    <3>. QED  BY <2>3, <3>1 DEF Hits, Secret, WireCreator
  <2>. QED  BY <2>1, <2>2, <2>3 DEF WireCreator
<1>2. \A i \in Hits(p, PollChat[p]) : Candidates(p)[i] = WireCreator(p)
  BY SecretsAre DEF Hits
<1>. QED  BY <1>1, <1>2

\* The library is asked twice at most.
LEMMA HitsAreFew == \A p \in Polls : \A chat : Hits(p, chat) \subseteq {1, 2}
<1> SUFFICES ASSUME NEW p \in Polls PROVE DOMAIN Candidates(p) \subseteq {1, 2}
  BY DEF Hits
<1>1. CASE from_me(p)
  BY <1>1 DEF Candidates
<1>2. CASE ~from_me(p)
  BY <1>2 DEF Candidates
<1>. QED  BY <1>1, <1>2

\* The empty stores.
LEMMA PollStart == PollInit => PollInv
  BY PollAssumption DEF PollInit, PollInv, PollsKept, SecretKept, BallotFits, NoBallot, VotesNameTheCreator

\* The secrets only become more, and the ballots and votes stay.
LEMMA StoreGrows ==
    ASSUME PollsKept, secretStore \subseteq secretStore', UNCHANGED <<ballot, votes, pollError, pollsLinked>>,
           pollRows' \in [Polls -> {Nobody} \cup {PollChat[p] : p \in Polls}],
           secretStore' \subseteq {Secret(p) : p \in Polls}, SecretKept'
    PROVE  PollsKept'
BY DEF PollsKept, BallotFits, VotesNameTheCreator

\* One ballot changes, and what was sent is right.
LEMMA BallotMoves ==
    ASSUME PollsKept, NEW v \in Voters, NEW b, BallotFits(b), ballot' = [ballot EXCEPT ![v] = b],
           VotesNameTheCreator', pollError' = {}, UNCHANGED <<pollRows, secretStore, making, pollsLinked>>
    PROVE  PollsKept'
<1>1. DOMAIN ballot' = Voters /\ \A u \in Voters : ballot'[u] = IF u = v THEN b ELSE ballot[u]
  BY DEF PollsKept
<1>2. \A u \in Voters : BallotFits(ballot[u])'
  BY <1>1 DEF PollsKept, BallotFits
<1>. QED  BY <1>1, <1>2 DEF PollsKept, SecretKept

\* Every step keeps the secrets, and votes under their creator.
LEMMA PollStep == PollInv /\ [PollNext]_pollVars => PollInv'
<1> SUFFICES ASSUME PollInv, [PollNext]_pollVars, ~pollsLinked' PROVE PollsKept'
  BY DEF PollInv
<1>1. CASE UNCHANGED pollVars
  BY <1>1 DEF pollVars, PollInv, PollsKept, SecretKept, BallotFits, VotesNameTheCreator
<1>2. CASE PollNext
  <2>1. ~link_polls /\ ~pollsLinked
    <3>1. ~link_polls
      BY DEF link_polls
    <3>2. UNCHANGED pollsLinked
      BY <1>2, <3>1 DEF PollNext, poll_created, remember_and_persist, poll_received, vote_poll,
                        poll_secret_from_store, send_vote, polls_restart
    <3>. QED  BY <3>1, <3>2
  <2>2. PollsKept
    BY <2>1 DEF PollInv
  <2>3. \A chat : CanonicalChat(chat) = chat
    BY <2>1 DEF CanonicalChat
  <2>4. \A p \in Polls : PollChat[p] # Nobody
    BY PollAssumption
  <2>5. ASSUME NEW p \in Polls, poll_created(p) PROVE PollsKept'
    <3>1. /\ making' = making \cup {p} /\ secretStore' = secretStore \cup {Secret(p)}
          /\ UNCHANGED <<pollRows, ballot, votes, pollError, pollsLinked>>
      BY <2>5 DEF poll_created
    <3>2. SecretKept'
      BY <2>2, <3>1 DEF PollsKept, SecretKept
    <3>. QED  BY <2>2, <3>1, <3>2, StoreGrows DEF PollsKept
  <2>6. ASSUME NEW p \in Polls, remember_and_persist(p) PROVE PollsKept'
    <3>1. /\ p \in making /\ making' = making \ {p} /\ pollRows' = [pollRows EXCEPT ![p] = PollChat[p]]
          /\ UNCHANGED <<secretStore, ballot, votes, pollError, pollsLinked>>
      BY <2>3, <2>6 DEF remember_and_persist
    <3>2. SecretKept'
      BY <2>2, <3>1 DEF PollsKept, SecretKept
    <3>. QED  BY <2>2, <3>1, <3>2, StoreGrows DEF PollsKept
  <2>7. ASSUME NEW p \in Polls, poll_received(p) PROVE PollsKept'
    <3>1. /\ secretStore' = secretStore \cup {Secret(p)} /\ pollRows' = [pollRows EXCEPT ![p] = PollChat[p]]
          /\ UNCHANGED <<making, ballot, votes, pollError, pollsLinked>>
      BY <2>3, <2>7 DEF poll_received
    <3>2. SecretKept'
      BY <2>2, <3>1 DEF PollsKept, SecretKept
    <3>. QED  BY <2>2, <3>1, <3>2, StoreGrows DEF PollsKept
  <2>8. ASSUME NEW v \in Voters, NEW p \in Polls, vote_poll(v, p) PROVE PollsKept'
    <3>1. PICK b : /\ ballot' = [ballot EXCEPT ![v] = b]
                   /\ b = [at |-> IF ~from_me(p) /\ p \in remembered THEN "found" ELSE "lookup",
                           poll |-> p, chat |-> pollRows[p], secret |-> p \in remembered, creator |-> Nobody]
      BY <2>8 DEF vote_poll
    <3>2. pollRows[p] = PollChat[p] /\ Secret(p) \in secretStore
      BY <2>2, <2>8 DEF vote_poll, PollsKept, SecretKept
    <3>3. b \in Ballot
      BY <3>1, <3>2 DEF Ballot
    <3>4. b.at = "found" => ~from_me(p)
      BY <3>1
    <3>5. BallotFits(b)
      BY <3>1, <3>2, <3>3, <3>4 DEF BallotFits
    <3>6. UNCHANGED <<pollRows, secretStore, making, votes, pollError, pollsLinked>>
      BY <2>8 DEF vote_poll
    <3>. QED  BY <2>2, <3>1, <3>5, <3>6, BallotMoves DEF PollsKept, VotesNameTheCreator
  <2>9. ASSUME NEW v \in Voters, poll_secret_from_store(v) PROVE PollsKept'
    <3>1. PICK b \in Ballot : b = ballot[v] /\ b.at = "lookup" /\ b.chat = PollChat[b.poll] /\ Secret(b.poll) \in secretStore
      BY <2>2, <2>9 DEF poll_secret_from_store, PollsKept, BallotFits
    <3>2. b.poll \in Polls
      BY <3>1 DEF Ballot
    <3>3. PICK hits : hits = Hits(b.poll, b.chat)
      OBVIOUS
    <3>4. /\ hits # {} /\ hits \subseteq {1, 2}
          /\ \A i \in hits : Candidates(b.poll)[i] = WireCreator(b.poll)
      BY <2>2, <3>1, <3>2, <3>3, SecretIsFound, HitsAreFew
    <3>5. PICK first : first = CHOOSE i \in hits : \A j \in hits : i <= j
      OBVIOUS
    <3>6. first \in hits
      <4>1. \E i \in hits : \A j \in hits : i <= j
        <5>1. hits # {} /\ \A j \in hits : j = 1 \/ j = 2
          BY <3>4
        <5>2. CASE 1 \in hits
          BY <5>1, <5>2
        <5>3. CASE 1 \notin hits
          <6>1. 2 \in hits /\ \A j \in hits : j = 2
            BY <5>1, <5>3
          <6>. QED  BY <6>1
        <5>. QED  BY <5>2, <5>3
      <4>. QED  BY <3>5, <4>1
    <3>7. PICK creator : creator = IF from_me(b.poll) THEN WireCreator(b.poll) ELSE b.creator
      OBVIOUS
    <3>8. PICK found : found = [b EXCEPT !.at = "found", !.secret = TRUE, !.creator = creator]
      OBVIOUS
    <3>9. ballot' = [ballot EXCEPT ![v] = found] /\ pollError' = pollError
      <4>1. Candidates(b.poll)[first] = WireCreator(b.poll)
        BY <3>4, <3>6
      <4>2. ballot' = [ballot EXCEPT ![v] = [b EXCEPT !.at = "found", !.secret = TRUE,
                          !.creator = IF from_me(b.poll) THEN Candidates(b.poll)[first] ELSE @]]
        BY <2>9, <3>1, <3>3, <3>4, <3>5 DEF poll_secret_from_store
      <4>3. pollError' = pollError
        BY <2>9, <3>1, <3>3, <3>4 DEF poll_secret_from_store
      <4>. QED  BY <3>7, <3>8, <4>1, <4>2, <4>3
    <3>10. creator \in {Nobody, Pn, Lid}
      BY <3>1, <3>7 DEF Ballot, WireCreator
    <3>11. found \in Ballot /\ found.poll = b.poll /\ found.chat = b.chat /\ found.creator = creator
      BY <3>1, <3>8, <3>10 DEF Ballot
    <3>12. BallotFits(found)
      BY <3>1, <3>7, <3>11 DEF BallotFits
    <3>13. UNCHANGED <<pollRows, secretStore, making, votes, pollsLinked>>
      BY <2>9 DEF poll_secret_from_store
    <3>. QED  BY <2>2, <3>9, <3>12, <3>13, BallotMoves DEF PollsKept, VotesNameTheCreator
  <2>10. ASSUME NEW v \in Voters, send_vote(v) PROVE PollsKept'
    <3>1. PICK b \in Ballot : b = ballot[v] /\ b.at = "found" /\ (from_me(b.poll) => b.creator = WireCreator(b.poll))
      BY <2>2, <2>10 DEF send_vote, PollsKept, BallotFits
    <3>2. from_me(b.poll) => b.creator # Nobody
      BY <3>1, PollAssumption DEF WireCreator
    <3>3. votes' = votes \cup {[poll |-> b.poll, creator |-> WireCreator(b.poll)]}
      <4>1. CASE from_me(b.poll)
        BY <2>10, <3>1, <3>2, <4>1 DEF send_vote
      <4>2. CASE ~from_me(b.poll)
        BY <2>10, <3>1, <4>2 DEF send_vote, WireCreator
      <4>. QED  BY <4>1, <4>2
    <3>4. VotesNameTheCreator'
      BY <2>1, <2>2, <3>3 DEF PollsKept, VotesNameTheCreator
    <3>5. ballot' = [ballot EXCEPT ![v] = NoBallot] /\ UNCHANGED <<pollRows, secretStore, making, pollError, pollsLinked>>
      BY <2>10 DEF send_vote
    <3>6. BallotFits(NoBallot)
      BY DEF BallotFits, NoBallot
    <3>. QED  BY <2>2, <3>4, <3>5, <3>6, BallotMoves DEF PollsKept
  <2>11. CASE polls_restart
    BY <2>2, <2>11 DEF polls_restart, PollsKept, SecretKept, BallotFits, NoBallot, VotesNameTheCreator
  <2>. QED  BY <1>2, <2>1, <2>5, <2>6, <2>7, <2>8, <2>9, <2>10, <2>11 DEF PollNext
<1>. QED  BY <1>1, <1>2

\* In a chat that was not linked every stored poll can be voted on, and the vote names the poll's creator
\* as it was sent (VotesCount), whoever made it and whatever was restarted in between.
THEOREM VotesHold == PollSpec => []VotesCount
<1>1. PollInv => VotesCount
  BY DEF PollInv, PollsKept, VotesCount, VotesNameTheCreator, PollsCanBeVotedOn
<1>. QED  BY <1>1, PollStart, PollStep, PTL DEF PollSpec

-----------------------------------------------------------------------------
(***************************************************************************)
(* Chat flags (ChatFlags).                                                 *)
(***************************************************************************)

\* A command under way.
Command == [at : {"asked", "accepted"}, item : Shared, value : BOOLEAN]
\* A patch.
PatchRow == [item : Shared, value : BOOLEAN, nr : Nat]
\* The command was accepted and is still to be written.
Accepted(c, i) == flagCommand[c].at = "accepted" /\ flagCommand[c].item = i

\* Types.
FlagTyped ==
    /\ onServer \in [Shared -> BOOLEAN] /\ local \in [Shared -> BOOLEAN]
    /\ had \in [Shared -> SUBSET BOOLEAN]
    /\ stored \subseteq Shared
    /\ patches \subseteq PatchRow
    /\ made \in Nat
    /\ flagCommand \in [FlagCommands -> Command \cup {NoCommand}]

\* Of an item without a race one change at most is on its way, and it is what the account has.
OneChange ==
    \A i \in Shared \ raced :
       /\ \A p, q \in patches : p.item = i /\ q.item = i => p = q
       /\ \A c, d \in FlagCommands : Accepted(c, i) /\ Accepted(d, i) => c = d
       /\ ~Pending(i) \/ ~Underway(i)
       /\ \A p \in patches : p.item = i => p.value = onServer[i]
       /\ \A c \in FlagCommands : Accepted(c, i) => flagCommand[c].value = onServer[i]

\* Without one the column is right, also of a row that will be stored.
LocalTells ==
    \A i \in Shared \ (raced \cup unseen) : ~Pending(i) /\ ~Underway(i) => local[i] = onServer[i]

\* A chat without a row had no patch yet.
FirstValue == \A i \in Flags \ stored : ~Pending(i) => had[i] = {onServer[i]}

\* Commands are given for rows.
CommandsHaveRows == \A c \in FlagCommands : flagCommand[c].at # "idle" => flagCommand[c].item \in stored

\* The inductive invariant of FlagsHold.
FlagInv == FlagTyped /\ OneChange /\ LocalTells /\ FirstValue /\ CommandsHaveRows

\* The start, with the replay to come.
LEMMA FlagStart == FlagInit => FlagInv
<1> SUFFICES ASSUME FlagInit PROVE FlagInv
  OBVIOUS
<1>1. /\ onServer \in [Shared -> BOOLEAN] /\ patches = {Patch(i, TRUE, 0) : i \in {j \in Shared : onServer[j]}}
      /\ local = [i \in Shared |-> FALSE] /\ stored = {} /\ had = [i \in Shared |-> {onServer[i]}]
      /\ flagCommand = [c \in FlagCommands |-> NoCommand] /\ made = 0
  BY DEF FlagInit
<1>2. \A p \in patches : /\ p \in PatchRow /\ p = Patch(p.item, TRUE, 0)
                         /\ p.value = TRUE /\ p.item \in Shared /\ onServer[p.item]
  <2> SUFFICES ASSUME NEW p \in patches
               PROVE  /\ p \in PatchRow /\ p = Patch(p.item, TRUE, 0)
                      /\ p.value = TRUE /\ p.item \in Shared /\ onServer[p.item]
    OBVIOUS
  <2>1. PICK i \in Shared : onServer[i] /\ p = Patch(i, TRUE, 0)
    BY <1>1
  <2>2. p = [item |-> i, value |-> TRUE, nr |-> 0]
    BY <2>1 DEF Patch
  <2>3. p.item = i /\ p.value = TRUE /\ p \in PatchRow
    BY <2>2 DEF PatchRow
  <2>4. p = Patch(p.item, TRUE, 0)
    BY <2>1, <2>3
  <2>. QED  BY <2>1, <2>3, <2>4
<1>3. ASSUME NEW i \in Shared, onServer[i] PROVE Pending(i)
  <2>1. Patch(i, TRUE, 0) \in patches /\ Patch(i, TRUE, 0).item = i
    BY <1>1, <1>3 DEF Patch
  <2>. QED  BY <2>1 DEF Pending
<1>4. \A c \in FlagCommands : flagCommand[c].at = "idle"
  BY <1>1 DEF NoCommand
<1>5. FlagTyped
  BY <1>1, <1>2 DEF FlagTyped
<1>6. OneChange
  <2>1. \A i \in Shared : onServer[i] => onServer[i] = TRUE
    BY <1>1
  <2>. QED  BY <1>2, <1>4, <2>1 DEF OneChange, Accepted, Underway
<1>7. LocalTells
  BY <1>1, <1>3 DEF LocalTells
<1>8. FirstValue /\ CommandsHaveRows
  BY <1>1, <1>4 DEF FirstValue, Shared, CommandsHaveRows
<1>. QED  BY <1>5, <1>6, <1>7, <1>8 DEF FlagInv

\* What a change leaves of the other items, and when it comes without a race.
LEMMA AccountTakes ==
    ASSUME FlagInv, NEW i \in Shared, NEW v \in BOOLEAN, account_takes(i, v)
    PROVE  /\ onServer' \in [Shared -> BOOLEAN] /\ had' \in [Shared -> SUBSET BOOLEAN]
           /\ onServer'[i] = v
           /\ \A j \in Shared \ {i} : /\ onServer'[j] = onServer[j] /\ had'[j] = had[j]
                                      /\ j \in raced' <=> j \in raced
           /\ i \notin raced' => ~Pending(i) /\ ~Underway(i)
BY DEF FlagInv, FlagTyped, account_takes

\* Another device changes the account.
LEMMA OtherDevice ==
    ASSUME FlagInv, NEW i \in Shared, NEW v \in BOOLEAN, other_device(i, v)
    PROVE  FlagInv'
<1>1. account_takes(i, v) /\ made' = made + 1 /\ UNCHANGED <<local, stored, flagCommand, unseen>>
  BY DEF other_device
<1>2. PICK p : p = Patch(i, v, made + 1)
  OBVIOUS
<1>3. p \in PatchRow /\ p.item = i /\ p.value = v /\ made' \in Nat
  BY <1>1, <1>2 DEF Patch, PatchRow, FlagInv, FlagTyped
<1>4. patches' = patches \cup {p}
  BY <1>1, <1>2 DEF other_device
<1>5. \A j : Pending(j)' <=> Pending(j) \/ j = i
  BY <1>3, <1>4 DEF Pending
<1>6. \A j : Underway(j)' <=> Underway(j)
  BY <1>1 DEF Underway
<1>7. FlagTyped'
  BY <1>1, <1>3, <1>4, AccountTakes DEF FlagInv, FlagTyped
<1>8. OneChange'
  <2> SUFFICES ASSUME NEW j \in Shared \ raced'
               PROVE  /\ \A r, q \in patches' : r.item = j /\ q.item = j => r = q
                      /\ \A c, d \in FlagCommands : Accepted(c, j) /\ Accepted(d, j) => c = d
                      /\ ~Pending(j)' \/ ~Underway(j)
                      /\ \A r \in patches' : r.item = j => r.value = onServer'[j]
                      /\ \A c \in FlagCommands : Accepted(c, j) => flagCommand[c].value = onServer'[j]
    BY <1>1, <1>6 DEF OneChange, Accepted
  <2>1. CASE j = i
    <3>1. ~Pending(i) /\ ~Underway(i) /\ onServer'[i] = v
      BY <1>1, <2>1, AccountTakes
    <3>2. \A c \in FlagCommands : ~Accepted(c, i)
      BY <3>1 DEF Underway, Accepted
    <3>3. \A r \in patches' : r.item = i => r = p
      BY <1>4, <3>1 DEF Pending
    <3>. QED  BY <1>3, <2>1, <3>1, <3>2, <3>3
  <2>2. CASE j # i
    <3>1. j \notin raced /\ onServer'[j] = onServer[j]
      BY <1>1, <2>2, AccountTakes
    <3>2. \A r \in patches' : r.item = j => r \in patches
      BY <1>3, <1>4, <2>2
    <3>. QED  BY <1>5, <2>2, <3>1, <3>2 DEF FlagInv, OneChange
  <2>. QED  BY <2>1, <2>2
<1>9. LocalTells'
  <2> SUFFICES ASSUME NEW j \in Shared \ (raced' \cup unseen), ~Pending(j)', ~Underway(j) PROVE local[j] = onServer'[j]
    BY <1>1, <1>6 DEF LocalTells
  <2>1. j # i /\ ~Pending(j)
    BY <1>5
  <2>. QED  BY <1>1, <2>1, AccountTakes DEF FlagInv, LocalTells
<1>10. FirstValue'
  <2> SUFFICES ASSUME NEW j \in Flags \ stored, ~Pending(j)' PROVE had'[j] = {onServer'[j]}
    BY <1>1 DEF FirstValue
  <2>1. j # i /\ ~Pending(j) /\ j \in Shared
    BY <1>5 DEF Shared
  <2>. QED  BY <1>1, <2>1, AccountTakes DEF FlagInv, FirstValue
<1>11. CommandsHaveRows'
  BY <1>1 DEF FlagInv, CommandsHaveRows
<1>. QED  BY <1>7, <1>8, <1>9, <1>10, <1>11 DEF FlagInv

\* A patch is handled, whichever it is.
LEMMA HandlePatch ==
    ASSUME FlagInv, NEW p \in patches, handle_patch(p)
    PROVE  FlagInv'
<1>1. PICK i \in Shared : i = p.item
  BY DEF FlagInv, FlagTyped, PatchRow
<1>2. p.value \in BOOLEAN
  BY DEF FlagInv, FlagTyped, PatchRow
<1>3. /\ stored' = IF i \in Flags THEN stored \cup {i} ELSE stored
      /\ local' = IF i \in stored' THEN [local EXCEPT ![i] = p.value] ELSE local
      /\ unseen' = IF i \in stored' THEN unseen \ {i} ELSE unseen \cup {i}
      /\ patches' = patches \ {p} /\ UNCHANGED <<onServer, made, flagCommand, had, raced>>
  BY <1>1 DEF handle_patch, set_flag
<1>4. Pending(i)
  BY <1>1 DEF Pending
<1>5. \A j : (Pending(j)' => Pending(j)) /\ (j # i => (Pending(j)' <=> Pending(j)))
  BY <1>1, <1>3 DEF Pending
<1>6. \A j : Underway(j)' <=> Underway(j)
  BY <1>3 DEF Underway
<1>7. FlagTyped'
  <2>1. local' \in [Shared -> BOOLEAN] /\ stored' \subseteq Shared
    BY <1>2, <1>3 DEF FlagInv, FlagTyped
  <2>. QED  BY <1>3, <2>1 DEF FlagInv, FlagTyped
<1>8. OneChange'
  BY <1>3, <1>5, <1>6 DEF FlagInv, OneChange, Accepted
<1>9. LocalTells'
  <2> SUFFICES ASSUME NEW j \in Shared \ (raced \cup unseen'), ~Pending(j)', ~Underway(j) PROVE local'[j] = onServer[j]
    BY <1>3, <1>6 DEF LocalTells
  <2>1. CASE j = i
    <3>1. i \in stored' /\ p.value = onServer[i]
      BY <1>1, <1>3, <2>1 DEF FlagInv, OneChange
    <3>. QED  BY <1>3, <2>1, <3>1 DEF FlagInv, FlagTyped
  <2>2. CASE j # i
    <3>1. local'[j] = local[j] /\ j \notin unseen
      BY <1>3, <2>2 DEF FlagInv, FlagTyped
    <3>. QED  BY <1>5, <2>2, <3>1 DEF FlagInv, LocalTells
  <2>. QED  BY <2>1, <2>2
<1>10. FirstValue'
  <2> SUFFICES ASSUME NEW j \in Flags \ stored', ~Pending(j)' PROVE had[j] = {onServer[j]}
    BY <1>3 DEF FirstValue
  <2>1. j # i /\ j \notin stored
    BY <1>3
  <2>. QED  BY <1>5, <2>1 DEF FlagInv, FirstValue
<1>11. CommandsHaveRows'
  BY <1>3 DEF FlagInv, CommandsHaveRows
<1>. QED  BY <1>7, <1>8, <1>9, <1>10, <1>11 DEF FlagInv

\* A command that was not accepted, or no longer is to be written, says nothing of the columns.
LEMMA CommandStarts ==
    ASSUME FlagInv, NEW c \in FlagCommands, NEW i \in Shared, NEW v \in BOOLEAN, command_starts(c, i, v)
    PROVE  FlagInv'
<1>1. PICK command \in Command : /\ command = [at |-> "asked", item |-> i, value |-> v]
                                 /\ flagCommand' = [flagCommand EXCEPT ![c] = command]
  BY DEF command_starts, Command
<1>2. i \in stored /\ flagCommand[c].at = "idle" /\ UNCHANGED <<onServer, local, stored, patches, made, had, raced, unseen>>
  BY DEF command_starts
<1>3. command.at = "asked" /\ command.item = i
  BY <1>1
<1>4. /\ flagCommand' \in [FlagCommands -> Command \cup {NoCommand}]
      /\ \A d \in FlagCommands : flagCommand'[d] = IF d = c THEN command ELSE flagCommand[d]
  BY <1>1 DEF FlagInv, FlagTyped
<1>5. \A d \in FlagCommands, j \in Shared : /\ Accepted(d, j)' <=> Accepted(d, j)
                                            /\ Accepted(d, j) => flagCommand'[d] = flagCommand[d]
  BY <1>2, <1>3, <1>4 DEF Accepted
<1>6. \A j \in Shared : Underway(j)' <=> Underway(j)
  BY <1>5 DEF Underway, Accepted
<1>7. FlagTyped'
  BY <1>2, <1>4 DEF FlagInv, FlagTyped
<1>8. CommandsHaveRows'
  BY <1>2, <1>3, <1>4 DEF FlagInv, CommandsHaveRows
<1>9. OneChange'
  BY <1>2, <1>5, <1>6 DEF FlagInv, OneChange, Pending
<1>10. LocalTells' /\ FirstValue'
  BY <1>2, <1>6 DEF FlagInv, LocalTells, FirstValue, Pending
<1>. QED  BY <1>7, <1>8, <1>9, <1>10 DEF FlagInv

\* The account takes it.
LEMMA ServerAccepts ==
    ASSUME FlagInv, NEW c \in FlagCommands, server_accepts(c)
    PROVE  FlagInv'
<1>1. PICK command \in Command : command = flagCommand[c] /\ command.at = "asked"
  BY DEF server_accepts, FlagInv, FlagTyped, NoCommand
<1>2. PICK i \in Shared, v \in BOOLEAN : i = command.item /\ v = command.value
  BY <1>1 DEF Command
<1>3. /\ account_takes(i, v) /\ unseen' = unseen \ {i} /\ flagCommand' = [flagCommand EXCEPT ![c].at = "accepted"]
      /\ UNCHANGED <<local, stored, patches, made>>
  BY <1>1, <1>2 DEF server_accepts
<1>4. PICK accepted : accepted = [command EXCEPT !.at = "accepted"]
  OBVIOUS
<1>5. accepted \in Command /\ accepted.at = "accepted" /\ accepted.item = i /\ accepted.value = v
  BY <1>1, <1>2, <1>4 DEF Command
<1>6. /\ flagCommand' = [flagCommand EXCEPT ![c] = accepted]
      /\ flagCommand' \in [FlagCommands -> Command \cup {NoCommand}]
      /\ \A d \in FlagCommands : flagCommand'[d] = IF d = c THEN accepted ELSE flagCommand[d]
  BY <1>1, <1>3, <1>4, <1>5 DEF FlagInv, FlagTyped
<1>7. \A j : Pending(j)' <=> Pending(j)
  BY <1>3 DEF Pending
<1>8. FlagTyped'
  BY <1>3, <1>6, AccountTakes DEF FlagInv, FlagTyped
<1>9. i \in stored
  BY <1>1, <1>2 DEF FlagInv, CommandsHaveRows
<1>10. CommandsHaveRows'
  BY <1>3, <1>5, <1>6, <1>9 DEF FlagInv, CommandsHaveRows
<1>11. FirstValue'
  <2> SUFFICES ASSUME NEW j \in Flags \ stored, ~Pending(j) PROVE had'[j] = {onServer'[j]}
    BY <1>3, <1>7 DEF FirstValue
  <2>1. j # i /\ j \in Shared
    BY <1>9 DEF Shared
  <2>. QED  BY <1>3, <2>1, AccountTakes DEF FlagInv, FirstValue
<1>12. ASSUME NEW d \in FlagCommands, NEW j \in Shared, j # i
       PROVE  (Accepted(d, j)' <=> Accepted(d, j)) /\ (Accepted(d, j) => flagCommand'[d] = flagCommand[d])
  BY <1>1, <1>2, <1>5, <1>6, <1>12 DEF Accepted
<1>13. Accepted(c, i)' /\ flagCommand'[c].value = v
  BY <1>5, <1>6 DEF Accepted
<1>14. OneChange'
  <2> SUFFICES ASSUME NEW j \in Shared \ raced'
               PROVE  /\ \A r, q \in patches : r.item = j /\ q.item = j => r = q
                      /\ \A d, e \in FlagCommands : Accepted(d, j)' /\ Accepted(e, j)' => d = e
                      /\ ~Pending(j) \/ ~Underway(j)'
                      /\ \A r \in patches : r.item = j => r.value = onServer'[j]
                      /\ \A d \in FlagCommands : Accepted(d, j)' => flagCommand'[d].value = onServer'[j]
    BY <1>3, <1>7 DEF OneChange
  <2>1. CASE j = i
    <3>1. ~Pending(i) /\ ~Underway(i) /\ onServer'[i] = v
      BY <1>3, <2>1, AccountTakes
    <3>2. \A d \in FlagCommands : Accepted(d, i)' => d = c
      BY <1>6, <3>1 DEF Underway, Accepted
    <3>. QED  BY <1>13, <2>1, <3>1, <3>2 DEF Pending
  <2>2. CASE j # i
    <3>1. j \notin raced /\ onServer'[j] = onServer[j]
      BY <1>3, <2>2, AccountTakes
    <3>2. Underway(j)' => Underway(j)
      BY <1>12, <2>2 DEF Underway, Accepted
    <3>. QED  BY <1>12, <2>2, <3>1, <3>2 DEF FlagInv, OneChange
  <2>. QED  BY <2>1, <2>2
<1>15. LocalTells'
  <2> SUFFICES ASSUME NEW j \in Shared \ (raced' \cup unseen'), ~Pending(j), ~Underway(j)' PROVE local[j] = onServer'[j]
    BY <1>3, <1>7 DEF LocalTells
  <2>1. j # i
    BY <1>13 DEF Underway, Accepted
  <2>2. ~Underway(j) /\ j \notin unseen
    BY <1>3, <1>12, <2>1 DEF Underway, Accepted
  <2>. QED  BY <1>3, <2>1, <2>2, AccountTakes DEF FlagInv, LocalTells
<1>. QED  BY <1>8, <1>10, <1>11, <1>14, <1>15 DEF FlagInv

\* It fails.
LEMMA CommandFails ==
    ASSUME FlagInv, NEW c \in FlagCommands, command_fails(c)
    PROVE  FlagInv'
<1>1. /\ flagCommand[c].at = "asked" /\ flagCommand' = [flagCommand EXCEPT ![c] = NoCommand]
      /\ UNCHANGED <<onServer, local, stored, patches, made, had, raced, unseen>>
  BY DEF command_fails
<1>2. /\ flagCommand' \in [FlagCommands -> Command \cup {NoCommand}]
      /\ \A d \in FlagCommands : flagCommand'[d] = IF d = c THEN NoCommand ELSE flagCommand[d]
  BY <1>1 DEF FlagInv, FlagTyped
<1>3. \A d \in FlagCommands, j \in Shared : /\ Accepted(d, j)' <=> Accepted(d, j)
                                            /\ Accepted(d, j) => flagCommand'[d] = flagCommand[d]
  BY <1>1, <1>2 DEF Accepted, NoCommand
<1>4. \A j \in Shared : Underway(j)' <=> Underway(j)
  BY <1>3 DEF Underway, Accepted
<1>5. FlagTyped'
  BY <1>1, <1>2 DEF FlagInv, FlagTyped
<1>6. CommandsHaveRows'
  BY <1>1, <1>2 DEF FlagInv, CommandsHaveRows, NoCommand
<1>7. OneChange'
  BY <1>1, <1>3, <1>4 DEF FlagInv, OneChange, Pending
<1>8. LocalTells' /\ FirstValue'
  BY <1>1, <1>4 DEF FlagInv, LocalTells, FirstValue, Pending
<1>. QED  BY <1>5, <1>6, <1>7, <1>8 DEF FlagInv

\* The column follows.
LEMMA WriteFlag ==
    ASSUME FlagInv, NEW c \in FlagCommands, write_flag(c)
    PROVE  FlagInv'
<1>1. PICK command \in Command : command = flagCommand[c] /\ command.at = "accepted"
  BY DEF write_flag, FlagInv, FlagTyped, NoCommand
<1>2. PICK i \in Shared, v \in BOOLEAN : i = command.item /\ v = command.value
  BY <1>1 DEF Command
<1>3. /\ set_flag(i, v) /\ flagCommand' = [flagCommand EXCEPT ![c] = NoCommand]
      /\ UNCHANGED <<onServer, patches, made, had, raced, unseen>>
  BY <1>1, <1>2 DEF write_flag
<1>4. i \in stored
  BY <1>1, <1>2 DEF FlagInv, CommandsHaveRows
<1>5. stored' = stored /\ local' = [local EXCEPT ![i] = v]
  BY <1>3, <1>4 DEF set_flag
<1>6. /\ flagCommand' \in [FlagCommands -> Command \cup {NoCommand}]
      /\ \A d \in FlagCommands : flagCommand'[d] = IF d = c THEN NoCommand ELSE flagCommand[d]
  BY <1>3 DEF FlagInv, FlagTyped
<1>7. \A d \in FlagCommands, j \in Shared : /\ Accepted(d, j)' <=> Accepted(d, j) /\ d # c
                                            /\ Accepted(d, j)' => flagCommand'[d] = flagCommand[d]
  BY <1>6 DEF Accepted, NoCommand
<1>8. FlagTyped'
  <2>1. local' \in [Shared -> BOOLEAN]
    BY <1>5 DEF FlagInv, FlagTyped
  <2>. QED  BY <1>3, <1>5, <1>6, <2>1 DEF FlagInv, FlagTyped
<1>9. CommandsHaveRows'
  BY <1>5, <1>6 DEF FlagInv, CommandsHaveRows, NoCommand
<1>10. OneChange'
  <2>1. \A j \in Shared : Underway(j)' => Underway(j)
    BY <1>7 DEF Underway, Accepted
  <2>. QED  BY <1>3, <1>7, <2>1 DEF FlagInv, OneChange, Pending
<1>11. FirstValue'
  BY <1>3, <1>5 DEF FlagInv, FirstValue, Pending
<1>12. LocalTells'
  <2> SUFFICES ASSUME NEW j \in Shared \ (raced \cup unseen), ~Pending(j), ~Underway(j)' PROVE local'[j] = onServer[j]
    BY <1>3 DEF LocalTells, Pending
  <2>1. CASE j = i
    <3>1. Accepted(c, i)
      BY <1>1, <1>2 DEF Accepted
    <3>2. v = onServer[i]
      BY <1>1, <1>2, <2>1, <3>1 DEF FlagInv, OneChange
    <3>. QED  BY <1>5, <2>1, <3>2 DEF FlagInv, FlagTyped
  <2>2. CASE j # i
    <3>1. ~Accepted(c, j)
      BY <1>1, <1>2, <2>2 DEF Accepted
    <3>2. ~Underway(j)
      BY <1>7, <3>1 DEF Underway, Accepted
    <3>3. local[j] = onServer[j]
      BY <3>2 DEF FlagInv, LocalTells
    <3>. QED  BY <1>5, <2>2, <3>3 DEF FlagInv, FlagTyped
  <2>. QED  BY <2>1, <2>2
<1>. QED  BY <1>8, <1>9, <1>10, <1>11, <1>12 DEF FlagInv

\* A row is made, with the column of the chunk or without one.
LEMMA RowMade ==
    ASSUME FlagInv, NEW i \in Shared, stored' = stored \cup {i}, local' \in [Shared -> BOOLEAN],
           \A j \in Shared : local'[j] = local[j] \/ (j = i /\ i \in Flags \ stored /\ local'[j] \in had[i]),
           UNCHANGED <<onServer, patches, made, flagCommand, had, raced, unseen>>
    PROVE  FlagInv'
<1>1. FlagTyped'
  BY DEF FlagInv, FlagTyped
<1>2. OneChange' /\ CommandsHaveRows' /\ FirstValue'
  BY DEF FlagInv, OneChange, CommandsHaveRows, FirstValue, Accepted, Pending, Underway
<1>3. LocalTells'
  <2> SUFFICES ASSUME NEW j \in Shared \ (raced \cup unseen), ~Pending(j), ~Underway(j) PROVE local'[j] = onServer[j]
    BY DEF LocalTells, Pending, Underway
  <2>1. local[j] = onServer[j]
    BY DEF FlagInv, LocalTells
  <2>2. CASE local'[j] # local[j]
    <3>1. had[j] = {onServer[j]}
      BY <2>2 DEF FlagInv, FirstValue
    <3>. QED  BY <2>2, <3>1
  <2>. QED  BY <2>1, <2>2
<1>. QED  BY <1>1, <1>2, <1>3 DEF FlagInv

\* Every step keeps it.
LEMMA FlagStep == FlagInv /\ [FlagNext]_flagVars => FlagInv'
<1> SUFFICES ASSUME FlagInv, [FlagNext]_flagVars PROVE FlagInv'
  OBVIOUS
<1>1. CASE UNCHANGED flagVars
  <2>1. UNCHANGED <<onServer, local, stored, patches, made, flagCommand, had, raced, unseen>>
    BY <1>1 DEF flagVars
  <2>. QED  BY <2>1 DEF FlagInv, FlagTyped, OneChange, LocalTells, FirstValue, CommandsHaveRows, Accepted, Pending, Underway
<1>2. ASSUME NEW i \in Shared, store_row(i) PROVE FlagInv'
  BY <1>2, RowMade DEF store_row, FlagInv, FlagTyped
<1>3. ASSUME NEW i \in Shared, NEW v \in BOOLEAN, upsert_from_history(i, v) PROVE FlagInv'
  <2>1. /\ i \in Flags /\ v \in had[i] /\ stored' = stored \cup {i}
        /\ local' = IF i \in stored THEN local ELSE [local EXCEPT ![i] = v]
        /\ UNCHANGED <<onServer, patches, made, flagCommand, had, raced, unseen>>
    BY <1>3 DEF upsert_from_history
  <2>2. local' \in [Shared -> BOOLEAN]
    BY <2>1 DEF FlagInv, FlagTyped
  <2>3. \A j \in Shared : local'[j] = local[j] \/ (j = i /\ i \in Flags \ stored /\ local'[j] \in had[i])
    BY <2>1 DEF FlagInv, FlagTyped
  <2>. QED  BY <2>1, <2>2, <2>3, RowMade
<1>. QED  BY <1>1, <1>2, <1>3, OtherDevice, HandlePatch, CommandStarts, ServerAccepts, CommandFails, WriteFlag
          DEF FlagNext

\* When all is settled a row shows what the account has (FlagsConverge), unless the last change crossed another one on its
\* way: for any number of items, commands and patches, handled in any order.
THEOREM FlagsHold == FlagSpec => []FlagsConverge
<1>1. FlagInv => FlagsConverge
  <2> SUFFICES ASSUME FlagInv, NEW i \in stored, Settled(i), i \notin raced \cup unseen PROVE local[i] = onServer[i]
    BY DEF FlagsConverge
  <2>1. i \in Shared
    BY DEF FlagInv, FlagTyped
  <2>2. ~Pending(i)
    BY DEF Settled
  <2>3. ~Underway(i)
    BY DEF Settled, Underway
  <2>. QED  BY <2>1, <2>2, <2>3 DEF FlagInv, LocalTells
<1>. QED  BY <1>1, FlagStart, FlagStep, PTL DEF FlagSpec

-----------------------------------------------------------------------------
(***************************************************************************)
(* Status updates (Statuses).                                              *)
(***************************************************************************)

\* A row of the table.
StatusRow ==
    [id : {m.id : m \in StatusMessages}, sender : {m.sender : m \in StatusMessages}, timestamp : Nat, viewed : BOOLEAN]

\* Older than what the listing under way, or the next one, shows.
Gone(time) ==
    \A r \in Readers : time < cutoff(IF statusReads[r].at = "pruned" THEN statusReads[r].now ELSE statusNow)

\* Types, and no listing is ahead of the clock.
StatusTyped ==
    /\ statusRows \subseteq StatusRow
    /\ statusNow \in Nat
    /\ statusReads \in [Readers -> [at : {"idle", "pruned"}, now : Nat]]
    /\ \A r \in Readers : statusReads[r].now <= statusNow
    /\ arrived \subseteq StatusMessages /\ \A m \in arrived : Imports(m)

\* An update has one row ...
OneRowPerStatus == \A s, t \in statusRows : s.id = t.id => s = t
\* ... with the time its message had ...
RowsArrived == \A s \in statusRows : \E m \in arrived : m.id = s.id /\ m.time = s.timestamp
\* ... as long as it is shown ...
ArrivedKept == \A m \in arrived : (\E s \in statusRows : s.id = m.id) \/ Gone(m.time)
\* ... and viewed once it was.
ViewedKept ==
    /\ \A id \in viewedEver : \E m \in arrived : m.id = id
    /\ \A s \in statusRows : s.id \in viewedEver => s.viewed \/ Gone(s.timestamp)

\* The inductive invariant of ListingsHold.
StatusInv == StatusTyped /\ OneRowPerStatus /\ RowsArrived /\ ArrivedKept /\ ViewedKept

\* The window only moves on.
LEMMA CutoffGrows ==
    ASSUME NEW a \in Nat, NEW b \in Nat, a <= b
    PROVE  cutoff(a) \in Nat /\ cutoff(a) <= cutoff(b)
BY StatusAssumption DEF cutoff

\* What is gone stays gone.
LEMMA GoneStays ==
    ASSUME NEW time \in Nat, Gone(time), StatusTyped, StatusTyped', statusNow' >= statusNow,
           \A r \in Readers : \/ statusReads'[r] = statusReads[r]
                              \/ statusReads'[r].at = "idle"
                              \/ statusReads'[r].now = statusNow
    PROVE  Gone(time)'
<1> SUFFICES ASSUME NEW r \in Readers
             PROVE  time < cutoff(IF statusReads'[r].at = "pruned" THEN statusReads'[r].now ELSE statusNow')
  BY DEF Gone
<1>1. /\ statusReads[r].now \in Nat /\ statusReads'[r].now \in Nat /\ statusNow \in Nat /\ statusNow' \in Nat
      /\ statusReads[r].now <= statusNow /\ statusReads'[r].now <= statusNow'
  BY DEF StatusTyped
<1>2. PICK old \in Nat : old = IF statusReads[r].at = "pruned" THEN statusReads[r].now ELSE statusNow
  BY <1>1
<1>3. PICK new \in Nat : new = IF statusReads'[r].at = "pruned" THEN statusReads'[r].now ELSE statusNow'
  BY <1>1
<1>4. old <= new
  BY <1>1, <1>2, <1>3
<1>5. time < cutoff(old)
  BY <1>2 DEF Gone
<1>6. cutoff(old) \in Nat /\ cutoff(new) \in Nat /\ cutoff(old) <= cutoff(new)
  BY <1>4, CutoffGrows
<1>. QED  BY <1>3, <1>5, <1>6

\* The empty table.
LEMMA StatusStart == StatusInit => StatusInv
  BY DEF StatusInit, StatusInv, StatusTyped, OneRowPerStatus, RowsArrived, ArrivedKept, ViewedKept

\* An update is stored, or again.
LEMMA ImportKeeps ==
    ASSUME StatusInv, NEW m \in StatusMessages, import_status_message(m)
    PROVE  StatusInv'
<1> DEFINE u == status_update_from_message(m)
           old == {r \in statusRows : r.id = m.id}
<1>1. PICK viewed \in BOOLEAN : viewed = \E r \in old : r.viewed
  OBVIOUS
<1>2. PICK row : row = [u EXCEPT !.viewed = viewed]
  OBVIOUS
<1>3. row \in StatusRow /\ row.id = m.id /\ row.timestamp = m.time /\ row.viewed = viewed
  BY <1>2, StatusAssumption DEF status_update_from_message, StatusRow
<1>4. statusRows' = (statusRows \ old) \cup {row}
  BY <1>1, <1>2 DEF import_status_message, upsert_status, status_update_from_message
<1>5. Imports(m) /\ arrived' = arrived \cup {m} /\ UNCHANGED <<statusNow, statusReads, viewedEver>>
  BY DEF import_status_message
<1>6. StatusTyped'
  BY <1>3, <1>4, <1>5 DEF StatusInv, StatusTyped
<1>7. OneRowPerStatus'
  BY <1>3, <1>4 DEF StatusInv, OneRowPerStatus
<1>8. RowsArrived'
  BY <1>3, <1>4, <1>5 DEF StatusInv, RowsArrived
<1>9. \A time : Gone(time)' <=> Gone(time)
  BY <1>5 DEF Gone
<1>10. \A id : (\E s \in statusRows : s.id = id) \/ id = m.id => \E s \in statusRows' : s.id = id
  BY <1>3, <1>4
<1>11. ArrivedKept'
  BY <1>5, <1>9, <1>10 DEF StatusInv, ArrivedKept
<1>12. ViewedKept'
  <2>1. ASSUME m.id \in viewedEver PROVE viewed \/ Gone(m.time)
    <3>1. CASE old # {}
      <4>1. PICK s \in statusRows : s.id = m.id
        BY <3>1
      <4>2. s.viewed \/ Gone(s.timestamp)
        BY <2>1, <4>1 DEF StatusInv, ViewedKept
      <4>3. s.timestamp = m.time
        <5>1. PICK n \in arrived : n.id = s.id /\ n.time = s.timestamp
          BY DEF StatusInv, RowsArrived
        <5>. QED  BY <1>5, <4>1, <5>1, StatusAssumption DEF StatusInv, StatusTyped
      <4>. QED  BY <1>1, <4>1, <4>2, <4>3
    <3>2. CASE old = {}
      <4>1. PICK n \in arrived : n.id = m.id
        BY <2>1 DEF StatusInv, ViewedKept
      <4>2. Gone(n.time)
        BY <3>2, <4>1 DEF StatusInv, ArrivedKept
      <4>3. n.time = m.time
        BY <1>5, <4>1, StatusAssumption DEF StatusInv, StatusTyped
      <4>. QED  BY <4>2, <4>3
    <3>. QED  BY <3>1, <3>2
  <2>. QED  BY <1>3, <1>4, <1>5, <1>9, <2>1 DEF StatusInv, ViewedKept
<1>. QED  BY <1>6, <1>7, <1>8, <1>11, <1>12 DEF StatusInv

\* What is pruned is gone for the listing that prunes.
LEMMA PruneKeeps ==
    ASSUME StatusInv, \A r, s \in Readers : r = s, NEW r \in Readers, prune_statuses(r)
    PROVE  StatusInv'
<1>1. /\ statusRows' = {s \in statusRows : ~(s.timestamp < cutoff(statusNow))}
      /\ statusReads' = [statusReads EXCEPT ![r] = [at |-> "pruned", now |-> statusNow]]
      /\ UNCHANGED <<statusNow, arrived, viewedEver>>
  BY DEF prune_statuses
<1>2. /\ statusReads'[r].at = "pruned" /\ statusReads'[r].now = statusNow /\ statusNow \in Nat
      /\ \A s \in Readers : s = r
      /\ statusReads' \in [Readers -> [at : {"idle", "pruned"}, now : Nat]]
  BY <1>1 DEF StatusInv, StatusTyped
<1>3. StatusTyped'
  BY <1>1, <1>2 DEF StatusInv, StatusTyped
<1>4. ASSUME NEW time \in Nat PROVE Gone(time)' <=> time < cutoff(statusNow)
  BY <1>2 DEF Gone
<1>5. ASSUME NEW time \in Nat, Gone(time) PROVE Gone(time)'
  BY <1>1, <1>2, <1>3, <1>5, GoneStays DEF StatusInv
<1>6. \A s \in statusRows : s.timestamp \in Nat
  BY DEF StatusInv, StatusTyped, StatusRow
<1>7. ArrivedKept'
  <2> SUFFICES ASSUME NEW m \in arrived, ~(\E s \in statusRows' : s.id = m.id) PROVE Gone(m.time)'
    BY <1>1 DEF ArrivedKept
  <2>1. m.time \in Nat
    BY StatusAssumption DEF StatusInv, StatusTyped
  <2>2. CASE Gone(m.time)
    BY <1>5, <2>1, <2>2
  <2>3. CASE \E s \in statusRows : s.id = m.id
    <3>1. PICK s \in statusRows : s.id = m.id
      BY <2>3
    <3>2. s.timestamp < cutoff(statusNow)
      BY <1>1, <3>1
    <3>3. s.timestamp = m.time
      <4>1. PICK n \in arrived : n.id = s.id /\ n.time = s.timestamp
        BY DEF StatusInv, RowsArrived
      <4>. QED  BY <3>1, <4>1, StatusAssumption DEF StatusInv, StatusTyped
    <3>. QED  BY <1>4, <2>1, <3>2, <3>3
  <2>. QED  BY <2>2, <2>3 DEF StatusInv, ArrivedKept
<1>8. OneRowPerStatus' /\ RowsArrived'
  BY <1>1 DEF StatusInv, OneRowPerStatus, RowsArrived
<1>9. ViewedKept'
  BY <1>1, <1>5, <1>6 DEF StatusInv, ViewedKept
<1>. QED  BY <1>3, <1>7, <1>8, <1>9 DEF StatusInv

\* A listing and the clock leave the rows.
LEMMA ListOrTickKeeps ==
    ASSUME StatusInv, status_tick \/ \E r \in Readers : list_statuses(r)
    PROVE  StatusInv'
<1>1. UNCHANGED <<statusRows, arrived, viewedEver>> /\ statusNow' \in Nat /\ statusNow' >= statusNow
  BY DEF status_tick, list_statuses, StatusInv, StatusTyped
<1>8. /\ statusReads' \in [Readers -> [at : {"idle", "pruned"}, now : Nat]]
      /\ \A s \in Readers : /\ statusReads'[s].now = statusReads[s].now
                            /\ statusReads'[s] = statusReads[s] \/ statusReads'[s].at = "idle"
  <2>1. CASE status_tick
    BY <2>1 DEF status_tick, StatusInv, StatusTyped
  <2>2. CASE \E r \in Readers : list_statuses(r)
    <3>0. PICK r \in Readers : list_statuses(r)
      BY <2>2
    <3>1. PICK read : read = [statusReads[r] EXCEPT !.at = "idle"]
      OBVIOUS
    <3>2. read \in [at : {"idle", "pruned"}, now : Nat] /\ read.at = "idle" /\ read.now = statusReads[r].now
      BY <3>1 DEF StatusInv, StatusTyped
    <3>3. statusReads' = [statusReads EXCEPT ![r] = read]
      BY <3>0, <3>1 DEF list_statuses, StatusInv, StatusTyped
    <3>4. statusReads' \in [Readers -> [at : {"idle", "pruned"}, now : Nat]]
      BY <3>2, <3>3 DEF StatusInv, StatusTyped
    <3>5. \A s \in Readers : statusReads'[s] = IF s = r THEN read ELSE statusReads[s]
      BY <3>3 DEF StatusInv, StatusTyped
    <3>6. ASSUME NEW s \in Readers
          PROVE  /\ statusReads'[s].now = statusReads[s].now
                 /\ statusReads'[s] = statusReads[s] \/ statusReads'[s].at = "idle"
      <4>1. CASE s = r
        BY <3>2, <3>5, <4>1
      <4>2. CASE s # r
        BY <3>5, <4>2
      <4>. QED  BY <4>1, <4>2
    <3>. QED  BY <3>4, <3>6
  <2>. QED  BY <2>1, <2>2
<1>2. StatusTyped'
  BY <1>1, <1>8 DEF StatusInv, StatusTyped
<1>3. \A time \in Nat : Gone(time) => Gone(time)'
  BY <1>1, <1>8, <1>2, GoneStays DEF StatusInv
<1>4. \A m \in arrived : m.time \in Nat
  BY StatusAssumption DEF StatusInv, StatusTyped
<1>5. \A s \in statusRows : s.timestamp \in Nat
  BY DEF StatusInv, StatusTyped, StatusRow
<1>6. ArrivedKept' /\ ViewedKept'
  BY <1>1, <1>3, <1>4, <1>5 DEF StatusInv, ArrivedKept, ViewedKept
<1>. QED  BY <1>1, <1>2, <1>6 DEF StatusInv, OneRowPerStatus, RowsArrived

\* An update is viewed.
LEMMA MarkKeeps ==
    ASSUME StatusInv, NEW id, mark_status_viewed(id)
    PROVE  StatusInv'
<1> DEFINE Marked(s) == IF s.id = id THEN [s EXCEPT !.viewed = TRUE] ELSE s
<1>1. /\ statusRows' = {Marked(s) : s \in statusRows}
      /\ viewedEver' = viewedEver \cup {s.id : s \in {t \in statusRows : t.id = id}}
      /\ UNCHANGED <<statusNow, statusReads, arrived>>
  BY DEF mark_status_viewed
<1>2. ASSUME NEW s \in statusRows
      PROVE  /\ Marked(s) \in StatusRow /\ Marked(s).id = s.id /\ Marked(s).timestamp = s.timestamp
             /\ Marked(s).viewed = (s.viewed \/ s.id = id)
  <2>1. s \in [id : {m.id : m \in StatusMessages}, sender : {m.sender : m \in StatusMessages},
               timestamp : Nat, viewed : BOOLEAN]
    BY DEF StatusInv, StatusTyped, StatusRow
  <2>2. CASE s.id = id
    <3>1. Marked(s) = [s EXCEPT !.viewed = TRUE]
      BY <2>2
    <3>2. [s EXCEPT !.viewed = TRUE] \in StatusRow
      BY <2>1 DEF StatusRow
    <3>. QED  BY <2>1, <2>2, <3>1, <3>2
  <2>3. CASE s.id # id
    BY <2>1, <2>3 DEF StatusRow
  <2>. QED  BY <2>2, <2>3
<1> HIDE DEF Marked
<1>3. StatusTyped'
  BY <1>1, <1>2 DEF StatusInv, StatusTyped
<1>4. OneRowPerStatus'
  BY <1>1, <1>2 DEF StatusInv, OneRowPerStatus
<1>5. RowsArrived'
  BY <1>1, <1>2 DEF StatusInv, RowsArrived
<1>6. \A time : Gone(time)' <=> Gone(time)
  BY <1>1 DEF Gone
<1>7. ArrivedKept'
  BY <1>1, <1>2, <1>6 DEF StatusInv, ArrivedKept
<1>8. ViewedKept'
  <2>1. ASSUME NEW x \in viewedEver' PROVE \E m \in arrived : m.id = x
    <3>1. CASE x \in viewedEver
      BY <3>1 DEF StatusInv, ViewedKept
    <3>2. CASE x \notin viewedEver
      <4>1. PICK s \in statusRows : s.id = x
        BY <1>1, <2>1, <3>2
      <4>. QED  BY <4>1 DEF StatusInv, RowsArrived
    <3>. QED  BY <3>1, <3>2
  <2>2. ASSUME NEW s \in statusRows, s.id \in viewedEver' PROVE Marked(s).viewed \/ Gone(s.timestamp)
    <3>1. s.id \in viewedEver \/ s.id = id
      BY <1>1, <2>2
    <3>. QED  BY <1>2, <3>1 DEF StatusInv, ViewedKept
  <2>. QED  BY <1>1, <1>2, <1>6, <2>1, <2>2 DEF ViewedKept
<1>. QED  BY <1>3, <1>4, <1>5, <1>7, <1>8 DEF StatusInv

\* Every step keeps it, with one listing at a time.
LEMMA StatusStep == (\A r, s \in Readers : r = s) /\ StatusInv /\ [StatusNext]_statusVars => StatusInv'
<1> SUFFICES ASSUME \A r, s \in Readers : r = s, StatusInv, [StatusNext]_statusVars PROVE StatusInv'
  OBVIOUS
<1>1. CASE UNCHANGED statusVars
  BY <1>1 DEF statusVars, StatusInv, StatusTyped, OneRowPerStatus, RowsArrived, ArrivedKept, ViewedKept, Gone
<1>. QED  BY <1>1, ImportKeeps, PruneKeeps, ListOrTickKeeps, MarkKeeps DEF StatusNext

\* A listing shows its window.
LEMMA ListFits ==
    ASSUME StatusInv, NEW r \in Readers, list_statuses(r)
    PROVE  NothingCurrentIsMissed /\ ViewedIsNotNewAgain
<1>1. PICK now \in Nat : now = statusReads[r].now /\ statusReads[r].at = "pruned"
  BY DEF list_statuses, StatusInv, StatusTyped
<1>2. statusList' = [rows |-> {s \in statusRows : s.timestamp >= cutoff(now)}, now |-> now]
  BY <1>1 DEF list_statuses
<1>3. \A time : Gone(time) => time < cutoff(now)
  BY <1>1 DEF Gone
<1>4. ASSUME NEW m \in arrived, now < status_expires_at(m.time) PROVE \E s \in statusList'.rows : s.id = m.id
  <2>1. m.time \in Nat /\ Imports(m) /\ m \in StatusMessages
    BY StatusAssumption DEF StatusInv, StatusTyped
  <2>2. m.time >= cutoff(now) /\ cutoff(now) \in Nat
    BY <1>4, <2>1, StatusAssumption DEF status_expires_at, cutoff
  <2>3. ~Gone(m.time)
    BY <1>3, <2>1, <2>2
  <2>4. PICK s \in statusRows : s.id = m.id
    BY <2>3 DEF StatusInv, ArrivedKept
  <2>5. PICK n \in arrived : n.id = s.id /\ n.time = s.timestamp
    BY DEF StatusInv, RowsArrived
  <2>6. s.timestamp = m.time
    BY <2>1, <2>4, <2>5, StatusAssumption DEF StatusInv, StatusTyped
  <2>. QED  BY <1>2, <2>2, <2>4, <2>6
<1>5. ASSUME NEW s \in statusList'.rows, s.id \in viewedEver PROVE s.viewed
  <2>1. s \in statusRows /\ s.timestamp >= cutoff(now) /\ s.timestamp \in Nat /\ cutoff(now) \in Nat
    BY <1>2, CutoffGrows DEF StatusInv, StatusTyped, StatusRow
  <2>2. ~Gone(s.timestamp)
    BY <1>3, <2>1
  <2>. QED  BY <1>5, <2>1, <2>2 DEF StatusInv, ViewedKept
<1>. QED  BY <1>2, <1>4, <1>5 DEF NothingCurrentIsMissed, ViewedIsNotNewAgain

\* A listing shows every update of its 24 hours and none as new that was viewed (ListingsAreRight), for any
\* messages, times and window, as long as one listing runs at a time: with two, the later one prunes
\* what the earlier one still shows.
THEOREM ListingsHold ==
    ASSUME \A r, s \in Readers : r = s
    PROVE  StatusSpec => ListingsAreRight
<1>1. StatusInv /\ [StatusNext]_statusVars =>
         [ListStep => NothingCurrentIsMissed /\ ViewedIsNotNewAgain]_statusVars
  BY ListFits DEF ListStep
<1>. QED  BY <1>1, StatusStart, StatusStep, PTL DEF StatusSpec, ListingsAreRight

-----------------------------------------------------------------------------
(***************************************************************************)
(* Audio of a live call (CallAudio): two chains of pieces, in order.       *)
(***************************************************************************)

Samples == Seq(Nat)
Precede(A, B) == \A x \in A, y \in B : x < y

\* What is in a piece.
LEMMA InPiece ==
    ASSUME NEW s \in Samples
    PROVE  /\ \A i \in 1..Len(s) : s[i] \in ToSet(s)
           /\ \A x \in ToSet(s) : x \in Nat /\ \E i \in 1..Len(s) : x = s[i]
<1>1. DOMAIN s = 1..Len(s) /\ \A i \in 1..Len(s) : s[i] \in Nat
  BY DEF Samples
<1> QED
  BY <1>1 DEF ToSet

\* Two pieces in order make one.
LEMMA Glued ==
    ASSUME NEW s \in Samples, NEW t \in Samples
    PROVE  /\ s \o t \in Samples /\ Len(s \o t) = Len(s) + Len(t)
           /\ ToSet(s \o t) = ToSet(s) \cup ToSet(t)
           /\ Increasing(s) /\ Increasing(t) /\ Precede(ToSet(s), ToSet(t)) => Increasing(s \o t)
<1>1. PICK c : c = s \o t
  OBVIOUS
<1>2. c \in Samples /\ Len(c) = Len(s) + Len(t)
  BY <1>1 DEF Samples
<1>3. /\ \A i \in 1..Len(s) : c[i] = s[i]
      /\ \A i \in 1..Len(t) : c[Len(s) + i] = t[i]
      /\ \A i \in 1..Len(c) : c[i] = IF i <= Len(s) THEN s[i] ELSE t[i - Len(s)]
  BY <1>1 DEF Samples
<1>4. ToSet(c) = ToSet(s) \cup ToSet(t)
  <2>1. ASSUME NEW i \in 1..Len(c) PROVE c[i] \in ToSet(s) \cup ToSet(t)
    <3>1. CASE i <= Len(s)
      BY <1>3, <2>1, <3>1, InPiece DEF Samples
    <3>2. CASE i > Len(s)
      <4>1. i - Len(s) \in 1..Len(t) /\ c[i] = t[i - Len(s)]
        BY <1>2, <1>3, <2>1, <3>2 DEF Samples
      <4> QED
        BY <4>1, InPiece
    <3> QED
      BY <2>1, <3>1, <3>2 DEF Samples
  <2>2. ASSUME NEW i \in 1..Len(s) PROVE s[i] \in ToSet(c)
    <3>1. i \in 1..Len(c) /\ c[i] = s[i]
      BY <1>2, <1>3, <2>2 DEF Samples
    <3> QED
      BY <1>2, <3>1, InPiece
  <2>3. ASSUME NEW i \in 1..Len(t) PROVE t[i] \in ToSet(c)
    <3>1. Len(s) + i \in 1..Len(c) /\ c[Len(s) + i] = t[i]
      BY <1>2, <1>3, <2>3 DEF Samples
    <3> QED
      BY <1>2, <3>1, InPiece
  <2> QED
    BY <1>2, <2>1, <2>2, <2>3, InPiece
<1>5. ASSUME Increasing(s), Increasing(t), Precede(ToSet(s), ToSet(t)),
             NEW i \in 1..Len(c), NEW j \in 1..Len(c), i < j
      PROVE  c[i] < c[j]
  <2>1. CASE j <= Len(s)
    <3>1. i \in 1..Len(s) /\ j \in 1..Len(s) /\ c[i] = s[i] /\ c[j] = s[j]
      BY <1>2, <1>3, <1>5, <2>1 DEF Samples
    <3> QED
      BY <1>5, <3>1 DEF Increasing
  <2>2. CASE i <= Len(s) /\ j > Len(s)
    <3>1. i \in 1..Len(s) /\ j - Len(s) \in 1..Len(t) /\ c[i] = s[i] /\ c[j] = t[j - Len(s)]
      BY <1>2, <1>3, <1>5, <2>2 DEF Samples
    <3>2. c[i] \in ToSet(s) /\ c[j] \in ToSet(t)
      BY <3>1, InPiece
    <3> QED
      BY <1>5, <3>2 DEF Precede
  <2>3. CASE i > Len(s)
    <3>1. i - Len(s) \in 1..Len(t) /\ j - Len(s) \in 1..Len(t) /\ i - Len(s) < j - Len(s)
      BY <1>2, <1>5, <2>3 DEF Samples
    <3>2. c[i] = t[i - Len(s)] /\ c[j] = t[j - Len(s)]
      BY <1>2, <1>3, <1>5, <2>3 DEF Samples
    <3> QED
      BY <1>5, <3>1, <3>2 DEF Increasing
  <2> QED
    BY <1>2, <1>5, <2>1, <2>2, <2>3 DEF Samples
<1> QED
  BY <1>1, <1>2, <1>4, <1>5 DEF Increasing

\* A piece in order may be cut anywhere.
LEMMA CutAt ==
    ASSUME NEW s \in Samples, NEW k \in 0..Len(s)
    PROVE  /\ SubSeq(s, 1, k) \in Samples /\ SubSeq(s, k + 1, Len(s)) \in Samples
           /\ Len(SubSeq(s, 1, k)) = k /\ Len(SubSeq(s, k + 1, Len(s))) = Len(s) - k
           /\ \A i \in 1..Len(s) - k : SubSeq(s, k + 1, Len(s))[i] = s[k + i]
           /\ ToSet(s) = ToSet(SubSeq(s, 1, k)) \cup ToSet(SubSeq(s, k + 1, Len(s)))
           /\ Increasing(s) => /\ Increasing(SubSeq(s, 1, k)) /\ Increasing(SubSeq(s, k + 1, Len(s)))
                               /\ Precede(ToSet(SubSeq(s, 1, k)), ToSet(SubSeq(s, k + 1, Len(s))))
<1>1. PICK a : a = SubSeq(s, 1, k)
  OBVIOUS
<1>2. PICK b : b = SubSeq(s, k + 1, Len(s))
  OBVIOUS
<1>3. /\ a \in Samples /\ Len(a) = k /\ \A i \in 1..k : a[i] = s[i]
  BY <1>1 DEF Samples
<1>4. /\ b \in Samples /\ Len(b) = Len(s) - k /\ \A i \in 1..Len(s) - k : b[i] = s[k + i]
  BY <1>2 DEF Samples
<1>0. Len(s) \in Nat /\ k \in Nat /\ k <= Len(s)
  BY DEF Samples
<1>5. ToSet(s) = ToSet(a) \cup ToSet(b)
  <2>1. ASSUME NEW i \in 1..Len(s) PROVE s[i] \in ToSet(a) \cup ToSet(b)
    <3>1. CASE i <= k
      <4>1. i \in 1..Len(a) /\ a[i] = s[i]
        BY <1>3, <2>1, <3>1 DEF Samples
      <4> QED
        BY <1>3, <4>1, InPiece
    <3>2. CASE i > k
      <4>1. i - k \in 1..Len(b) /\ b[i - k] = s[i]
        BY <1>4, <2>1, <3>2 DEF Samples
      <4> QED
        BY <1>4, <4>1, InPiece
    <3> QED
      BY <2>1, <3>1, <3>2 DEF Samples
  <2>2. ASSUME NEW i \in 1..Len(a) PROVE a[i] \in ToSet(s)
    <3>1. i \in 1..Len(s) /\ a[i] = s[i]
      BY <1>3, <2>2 DEF Samples
    <3> QED
      BY <3>1, InPiece
  <2>3. ASSUME NEW i \in 1..Len(b) PROVE b[i] \in ToSet(s)
    <3>1. k + i \in 1..Len(s) /\ b[i] = s[k + i]
      BY <1>0, <1>4, <2>3
    <3> QED
      BY <3>1, InPiece
  <2>4. ToSet(s) \subseteq ToSet(a) \cup ToSet(b)
    BY <2>1, InPiece
  <2>5. ToSet(a) \subseteq ToSet(s)
    BY <1>3, <2>2, InPiece
  <2>6. ToSet(b) \subseteq ToSet(s)
    BY <1>4, <2>3, InPiece
  <2> QED
    BY <2>4, <2>5, <2>6
<1>6. ASSUME Increasing(s) PROVE Increasing(a) /\ Increasing(b) /\ Precede(ToSet(a), ToSet(b))
  <2>1. ASSUME NEW i \in 1..Len(a), NEW j \in 1..Len(a), i < j PROVE a[i] < a[j]
    <3>1. i \in 1..Len(s) /\ j \in 1..Len(s) /\ a[i] = s[i] /\ a[j] = s[j]
      BY <1>0, <1>3, <2>1
    <3> QED
      BY <1>6, <2>1, <3>1 DEF Increasing
  <2>2. ASSUME NEW i \in 1..Len(b), NEW j \in 1..Len(b), i < j PROVE b[i] < b[j]
    <3>1. /\ k + i \in 1..Len(s) /\ k + j \in 1..Len(s) /\ k + i < k + j
          /\ b[i] = s[k + i] /\ b[j] = s[k + j]
      BY <1>0, <1>4, <2>2
    <3> QED
      BY <1>6, <3>1 DEF Increasing
  <2>3. ASSUME NEW i \in 1..Len(a), NEW j \in 1..Len(b) PROVE a[i] < b[j]
    <3>1. /\ i \in 1..Len(s) /\ k + j \in 1..Len(s) /\ i < k + j
          /\ a[i] = s[i] /\ b[j] = s[k + j]
      BY <1>0, <1>3, <1>4, <2>3
    <3> QED
      BY <1>6, <3>1 DEF Increasing
  <2>4. Precede(ToSet(a), ToSet(b))
    BY <1>3, <1>4, <2>3, InPiece DEF Precede
  <2> QED
    BY <2>1, <2>2, <2>4 DEF Increasing
<1> QED
  BY <1>1, <1>2, <1>3, <1>4, <1>5, <1>6

\* Two rows of blocks in order make one.
LEMMA Chained ==
    ASSUME NEW q \in Seq(Samples), NEW r \in Seq(Samples)
    PROVE  /\ q \o r \in Seq(Samples)
           /\ SamplesOf(q \o r) = SamplesOf(q) \cup SamplesOf(r)
           /\ InOrder(q) /\ InOrder(r) /\ Precede(SamplesOf(q), SamplesOf(r)) => InOrder(q \o r)
<1>1. PICK c : c = q \o r
  OBVIOUS
<1>2. c \in Seq(Samples) /\ Len(c) = Len(q) + Len(r)
  BY <1>1
<1>3. /\ \A i \in 1..Len(q) : c[i] = q[i]
      /\ \A i \in 1..Len(r) : c[Len(q) + i] = r[i]
      /\ \A i \in 1..Len(c) : c[i] = IF i <= Len(q) THEN q[i] ELSE r[i - Len(q)]
  BY <1>1
<1>4. SamplesOf(c) = SamplesOf(q) \cup SamplesOf(r)
  <2>1. ASSUME NEW i \in 1..Len(c), NEW x \in ToSet(c[i]) PROVE x \in SamplesOf(q) \cup SamplesOf(r)
    <3>1. CASE i <= Len(q)
      BY <1>2, <1>3, <2>1, <3>1 DEF SamplesOf
    <3>2. CASE i > Len(q)
      <4>1. i - Len(q) \in 1..Len(r) /\ c[i] = r[i - Len(q)]
        BY <1>2, <1>3, <2>1, <3>2
      <4> QED
        BY <2>1, <4>1 DEF SamplesOf
    <3> QED
      BY <2>1, <3>1, <3>2
  <2>2. ASSUME NEW i \in 1..Len(q), NEW x \in ToSet(q[i]) PROVE x \in SamplesOf(c)
    <3>1. i \in 1..Len(c) /\ c[i] = q[i]
      BY <1>2, <1>3
    <3> QED
      BY <2>2, <3>1 DEF SamplesOf
  <2>3. ASSUME NEW i \in 1..Len(r), NEW x \in ToSet(r[i]) PROVE x \in SamplesOf(c)
    <3>1. Len(q) + i \in 1..Len(c) /\ c[Len(q) + i] = r[i]
      BY <1>2, <1>3
    <3> QED
      BY <2>3, <3>1 DEF SamplesOf
  <2>4. /\ \A x \in SamplesOf(c) : \E i \in 1..Len(c) : x \in ToSet(c[i])
        /\ \A x \in SamplesOf(q) : \E i \in 1..Len(q) : x \in ToSet(q[i])
        /\ \A x \in SamplesOf(r) : \E i \in 1..Len(r) : x \in ToSet(r[i])
    BY DEF SamplesOf
  <2> QED
    BY <2>1, <2>2, <2>3, <2>4
<1>5. ASSUME InOrder(q), InOrder(r), Precede(SamplesOf(q), SamplesOf(r)) PROVE InOrder(c)
  <2>1. ASSUME NEW i \in 1..Len(c) PROVE Increasing(c[i])
    <3>1. CASE i <= Len(q)
      BY <1>2, <1>3, <1>5, <2>1, <3>1 DEF InOrder
    <3>2. CASE i > Len(q)
      <4>1. i - Len(q) \in 1..Len(r) /\ c[i] = r[i - Len(q)]
        BY <1>2, <1>3, <2>1, <3>2
      <4> QED
        BY <1>5, <4>1 DEF InOrder
    <3> QED
      BY <2>1, <3>1, <3>2
  <2>2. ASSUME NEW i \in 1..Len(c), NEW j \in 1..Len(c), i < j, NEW x \in ToSet(c[i]), NEW y \in ToSet(c[j])
        PROVE  x < y
    <3>1. CASE j <= Len(q)
      <4>1. i \in 1..Len(q) /\ j \in 1..Len(q) /\ c[i] = q[i] /\ c[j] = q[j]
        BY <1>2, <1>3, <2>2, <3>1
      <4> QED
        BY <1>5, <2>2, <4>1 DEF InOrder
    <3>2. CASE i <= Len(q) /\ j > Len(q)
      <4>1. i \in 1..Len(q) /\ j - Len(q) \in 1..Len(r) /\ c[i] = q[i] /\ c[j] = r[j - Len(q)]
        BY <1>2, <1>3, <2>2, <3>2
      <4>2. x \in SamplesOf(q) /\ y \in SamplesOf(r)
        BY <2>2, <4>1 DEF SamplesOf
      <4> QED
        BY <1>5, <4>2 DEF Precede
    <3>3. CASE i > Len(q)
      <4>1. i - Len(q) \in 1..Len(r) /\ j - Len(q) \in 1..Len(r) /\ i - Len(q) < j - Len(q)
        BY <1>2, <2>2, <3>3
      <4>2. c[i] = r[i - Len(q)] /\ c[j] = r[j - Len(q)]
        BY <1>2, <1>3, <2>2, <3>3
      <4> QED
        BY <1>5, <2>2, <4>1, <4>2 DEF InOrder
    <3> QED
      BY <2>2, <3>1, <3>2, <3>3
  <2> QED
    BY <2>1, <2>2 DEF InOrder
<1> QED
  BY <1>1, <1>2, <1>4, <1>5

\* A block alone.
LEMMA OneBlock ==
    ASSUME NEW b \in Samples
    PROVE  /\ <<b>> \in Seq(Samples) /\ Len(<<b>>) = 1
           /\ SamplesOf(<<b>>) = ToSet(b)
           /\ Increasing(b) => InOrder(<<b>>)
<1>1. PICK q : q = <<b>>
  OBVIOUS
<1>2. q \in Seq(Samples) /\ Len(q) = 1 /\ q[1] = b /\ 1..Len(q) = {1}
  BY <1>1
<1>3. SamplesOf(q) = ToSet(b)
  BY <1>2 DEF SamplesOf
<1>4. Increasing(b) => InOrder(q)
  BY <1>2 DEF InOrder
<1> QED
  BY <1>1, <1>2, <1>3, <1>4

\* A block behind the others.
LEMMA Queued ==
    ASSUME NEW q \in Seq(Samples), NEW b \in Samples
    PROVE  /\ Append(q, b) \in Seq(Samples) /\ Len(Append(q, b)) = Len(q) + 1
           /\ SamplesOf(Append(q, b)) = SamplesOf(q) \cup ToSet(b)
           /\ InOrder(q) /\ Increasing(b) /\ Precede(SamplesOf(q), ToSet(b)) => InOrder(Append(q, b))
<1>1. Append(q, b) = q \o <<b>>
  OBVIOUS
<1>2. Append(q, b) \in Seq(Samples) /\ Len(Append(q, b)) = Len(q) + 1
  OBVIOUS
<1> QED
  BY <1>1, <1>2, OneBlock, Chained

\* The first block and the others.
LEMMA Unqueued ==
    ASSUME NEW q \in Seq(Samples), q # <<>>
    PROVE  /\ Head(q) \in Samples /\ Tail(q) \in Seq(Samples) /\ Len(Tail(q)) = Len(q) - 1
           /\ q = <<Head(q)>> \o Tail(q)
           /\ SamplesOf(q) = ToSet(Head(q)) \cup SamplesOf(Tail(q))
           /\ InOrder(q) => Increasing(Head(q)) /\ InOrder(Tail(q)) /\ Precede(ToSet(Head(q)), SamplesOf(Tail(q)))
<1>1. PICK h : h = Head(q)
  OBVIOUS
<1>2. PICK r : r = Tail(q)
  OBVIOUS
<1>3. Len(q) > 0 /\ h \in Samples /\ r \in Seq(Samples) /\ Len(r) = Len(q) - 1
  BY <1>1, <1>2
<1>4. h = q[1] /\ \A i \in 1..Len(r) : r[i] = q[i + 1]
  BY <1>1, <1>2
<1>5. q = <<h>> \o r
  <2>1. PICK c : c = <<h>> \o r
    OBVIOUS
  <2>2. c \in Seq(Samples) /\ Len(c) = Len(q)
    BY <1>3, <2>1
  <2>3. ASSUME NEW i \in 1..Len(q) PROVE c[i] = q[i]
    <3>1. CASE i = 1
      BY <1>3, <1>4, <2>1, <3>1
    <3>2. CASE i > 1
      BY <1>3, <1>4, <2>1, <2>3, <3>2
    <3> QED
      BY <2>3, <3>1, <3>2
  <2>4. c = q
    BY <2>2, <2>3
  <2> QED
    BY <2>1, <2>4
<1>6. SamplesOf(q) = ToSet(h) \cup SamplesOf(r)
  <2>1. <<h>> \in Seq(Samples) /\ SamplesOf(<<h>>) = ToSet(h)
    BY <1>3, OneBlock
  <2>2. SamplesOf(<<h>> \o r) = SamplesOf(<<h>>) \cup SamplesOf(r)
    BY <1>3, <2>1, Chained
  <2> QED
    BY <1>5, <2>1, <2>2
<1>7. ASSUME InOrder(q) PROVE Increasing(h) /\ InOrder(r) /\ Precede(ToSet(h), SamplesOf(r))
  <2>1. 1 \in 1..Len(q) /\ \A i \in 1..Len(r) : i + 1 \in 1..Len(q)
    BY <1>3
  <2>2. Increasing(h) /\ \A i \in 1..Len(r) : Increasing(r[i])
    BY <1>4, <1>7, <2>1 DEF InOrder
  <2>3. \A i, j \in 1..Len(r) : i < j => \A x \in ToSet(r[i]), y \in ToSet(r[j]) : x < y
    <3> SUFFICES ASSUME NEW i \in 1..Len(r), NEW j \in 1..Len(r), i < j
                 PROVE  \A x \in ToSet(r[i]), y \in ToSet(r[j]) : x < y
      OBVIOUS
    <3>1. i + 1 < j + 1 /\ r[i] = q[i + 1] /\ r[j] = q[j + 1]
      BY <1>4
    <3> QED
      BY <1>7, <2>1, <3>1 DEF InOrder
  <2>4. ASSUME NEW j \in 1..Len(r), NEW x \in ToSet(h), NEW y \in ToSet(r[j]) PROVE x < y
    <3>1. 1 < j + 1 /\ r[j] = q[j + 1] /\ h = q[1]
      BY <1>4
    <3> QED
      BY <1>7, <2>1, <2>4, <3>1 DEF InOrder
  <2>5. Precede(ToSet(h), SamplesOf(r))
    BY <2>4 DEF Precede, SamplesOf
  <2> QED
    BY <2>2, <2>3, <2>5 DEF InOrder
<1> QED
  BY <1>1, <1>2, <1>3, <1>5, <1>6, <1>7

\* The samples that come next.
LEMMA BlockIs ==
    ASSUME NEW n \in Nat, NEW k \in Nat
    PROVE  Block(n, k) \in Samples /\ Len(Block(n, k)) = k /\ ToSet(Block(n, k)) = n + 1..n + k /\ Increasing(Block(n, k))
<1>1. PICK b : b = Block(n, k)
  OBVIOUS
<1>2. b \in Samples /\ Len(b) = k /\ \A i \in 1..k : b[i] = n + i
  BY <1>1 DEF Block, Samples
<1>3. Increasing(b)
  BY <1>2 DEF Increasing
<1>4. ToSet(b) = n + 1..n + k
  <2>1. \A i \in 1..k : n + i \in n + 1..n + k
    OBVIOUS
  <2>2. \A x \in n + 1..n + k : x - n \in 1..k /\ b[x - n] = x
    BY <1>2
  <2>3. n + 1..n + k \subseteq ToSet(b)
    <3> SUFFICES ASSUME NEW x \in n + 1..n + k PROVE x \in ToSet(b)
      OBVIOUS
    <3>1. x - n \in 1..Len(b) /\ b[x - n] = x
      BY <1>2, <2>2
    <3> QED
      BY <1>2, <3>1, InPiece
  <2>4. ToSet(b) \subseteq n + 1..n + k
    BY <1>2, <2>1, InPiece
  <2> QED
    BY <2>3, <2>4
<1> QED
  BY <1>1, <1>2, <1>3, <1>4
-----------------------------------------------------------------------------

\* The sizes of channels and blocks.
LEMMA AudioSizes ==
    /\ RawCapacity \in Nat /\ MicCapacity \in Nat /\ RingCapacity \in Nat /\ Prefill \in Nat /\ Chunk \in Nat
    /\ FrameSamples \in Nat /\ FrameSamples > 0 /\ Chunk <= FrameSamples /\ Prefill <= RingCapacity
    /\ \A k \in BlockSizes : k \in Nat
BY AudioAssumption

\* Capture: the pieces on their way are in order, each before the ones behind it, and what is not among them was dropped.
CaptureFits(engine, frames, frame, pending, raw, total, missed) ==
    /\ engine \in Seq(Samples) /\ frames \in Seq(Samples) /\ raw \in Seq(Samples)
    /\ frame \in Samples /\ pending \in Samples /\ total \in Nat
    /\ InOrder(engine) /\ InOrder(frames) /\ Increasing(frame) /\ Increasing(pending) /\ InOrder(raw)
    /\ Precede(SamplesOf(engine), SamplesOf(frames) \cup ToSet(frame) \cup ToSet(pending) \cup SamplesOf(raw))
    /\ Precede(SamplesOf(frames), ToSet(frame) \cup ToSet(pending) \cup SamplesOf(raw))
    /\ Precede(ToSet(frame), ToSet(pending) \cup SamplesOf(raw))
    /\ Precede(ToSet(pending), SamplesOf(raw))
    /\ SamplesOf(engine) \cup SamplesOf(frames) \cup ToSet(frame) \cup ToSet(pending) \cup SamplesOf(raw) = 1..total \ missed
    /\ missed \subseteq 1..total
    /\ \A i \in 1..Len(engine) : Len(engine[i]) = FrameSamples
    /\ \A i \in 1..Len(frames) : Len(frames[i]) = FrameSamples
    /\ Len(raw) <= RawCapacity /\ Len(frames) <= MicCapacity /\ Len(frame) < FrameSamples

Capturing == [made : Nat, raw : Seq(Samples), pending : Samples, frame : Samples, frames : Seq(Samples), engine : Seq(Samples)]

CaptureInv ==
    /\ mic \in Capturing
    /\ CaptureFits(mic.engine, mic.frames, mic.frame, mic.pending, mic.raw, mic.made, dropped)

\* Nothing was made, and nothing is on its way.
LEMMA Silence ==
    /\ <<>> \in Samples /\ ToSet(<<>>) = {} /\ Increasing(<<>>)
    /\ <<>> \in Seq(Samples) /\ SamplesOf(<<>>) = {} /\ InOrder(<<>>)
<1>1. PICK e : e = <<>>
  OBVIOUS
<1>2. Len(e) = 0 /\ e \in Samples /\ e \in Seq(Samples) /\ 1..Len(e) = {}
  BY <1>1 DEF Samples
<1>3. ToSet(e) = {}
  BY <1>2, InPiece
<1>4. Increasing(e) /\ SamplesOf(e) = {} /\ InOrder(e)
  BY <1>2 DEF Increasing, SamplesOf, InOrder
<1> QED
  BY <1>1, <1>2, <1>3, <1>4

LEMMA CaptureStart ==
    ASSUME AudioInit
    PROVE  CaptureInv
<1>1. mic = [made |-> 0, raw |-> <<>>, pending |-> <<>>, frame |-> <<>>, frames |-> <<>>, engine |-> <<>>] /\ dropped = {}
  BY DEF AudioInit
<1>2. mic \in Capturing
  BY <1>1, Silence DEF Capturing
<1>3. /\ mic.made = 0 /\ mic.raw = <<>> /\ mic.pending = <<>> /\ mic.frame = <<>> /\ mic.frames = <<>>
      /\ mic.engine = <<>> /\ Len(<<>>) = 0
  BY <1>1
<1>4. CaptureFits(<<>>, <<>>, <<>>, <<>>, <<>>, 0, {})
  <2>1. PICK e : e = <<>>
    OBVIOUS
  <2>2. e \in Samples /\ e \in Seq(Samples) /\ InOrder(e) /\ Increasing(e) /\ ToSet(e) = {} /\ SamplesOf(e) = {} /\ Len(e) = 0
    BY <2>1, Silence
  <2>3. Precede({}, {} \cup {} \cup {} \cup {}) /\ Precede({}, {} \cup {} \cup {}) /\ Precede({}, {} \cup {}) /\ Precede({}, {})
    BY DEF Precede
  <2>4. CaptureFits(e, e, e, e, e, 0, {})
    BY <2>2, <2>3, AudioSizes DEF CaptureFits
  <2> QED
    BY <2>1, <2>4
<1> QED
  BY <1>1, <1>2, <1>3, <1>4 DEF CaptureInv

\* The callback's block is behind everything, or dropped.
LEMMA CaptureBlockFits ==
    ASSUME CaptureInv, NEW k \in BlockSizes, capture_block(k)
    PROVE  CaptureInv'
<1>1. PICK b : b = Block(mic.made, k)
  OBVIOUS
<1>2. mic.made \in Nat /\ k \in Nat /\ mic.raw \in Seq(Samples)
  BY AudioSizes DEF CaptureInv, Capturing
<1>3. b \in Samples /\ ToSet(b) = mic.made + 1..mic.made + k /\ Increasing(b)
  BY <1>1, <1>2, BlockIs
<1>4. PICK total \in Nat : total = mic.made + k
  BY <1>2
<1>5. CASE Len(mic.raw) >= RawCapacity
  <2>1. mic' = [mic EXCEPT !.made = total, !.raw = mic.raw] /\ dropped' = dropped \cup ToSet(b)
    BY <1>1, <1>4, <1>5 DEF capture_block
  <2>2. /\ mic' \in Capturing /\ mic'.made = total /\ mic'.raw = mic.raw /\ mic'.pending = mic.pending
        /\ mic'.frame = mic.frame /\ mic'.frames = mic.frames /\ mic'.engine = mic.engine
    BY <1>2, <1>4, <2>1 DEF CaptureInv, Capturing
  <2>3. 1..total = 1..mic.made \cup ToSet(b) /\ 1..mic.made \cap ToSet(b) = {}
    BY <1>2, <1>3, <1>4
  <2>4. CaptureFits(mic.engine, mic.frames, mic.frame, mic.pending, mic.raw, total, dropped \cup ToSet(b))
    <3>1. /\ SamplesOf(mic.engine) \cup SamplesOf(mic.frames) \cup ToSet(mic.frame) \cup ToSet(mic.pending) \cup SamplesOf(mic.raw)
             = 1..total \ (dropped \cup ToSet(b))
          /\ dropped \cup ToSet(b) \subseteq 1..total
      BY <2>3 DEF CaptureInv, CaptureFits
    <3> QED
      BY <3>1 DEF CaptureInv, CaptureFits
  <2> QED
    BY <2>1, <2>2, <2>4 DEF CaptureInv
<1>6. CASE ~(Len(mic.raw) >= RawCapacity)
  <2>0. PICK raw : raw = Append(mic.raw, b)
    OBVIOUS
  <2>1. mic' = [mic EXCEPT !.made = total, !.raw = raw] /\ dropped' = dropped
    BY <1>1, <1>4, <1>6, <2>0 DEF capture_block
  <2>2. raw \in Seq(Samples) /\ Len(raw) = Len(mic.raw) + 1 /\ SamplesOf(raw) = SamplesOf(mic.raw) \cup ToSet(b)
    BY <1>2, <1>3, <2>0, Queued
  <2>3. /\ mic' \in Capturing /\ mic'.made = total /\ mic'.raw = raw /\ mic'.pending = mic.pending
        /\ mic'.frame = mic.frame /\ mic'.frames = mic.frames /\ mic'.engine = mic.engine
    BY <1>2, <1>4, <2>1, <2>2 DEF CaptureInv, Capturing
  <2>4. 1..total = 1..mic.made \cup ToSet(b) /\ 1..mic.made \cap ToSet(b) = {}
    BY <1>2, <1>3, <1>4
  <2>5. Precede(1..mic.made, ToSet(b))
    BY <1>2, <1>3 DEF Precede
  <2>6. /\ InOrder(mic.raw) /\ SamplesOf(mic.raw) \subseteq 1..mic.made /\ SamplesOf(mic.engine) \subseteq 1..mic.made
        /\ SamplesOf(mic.frames) \subseteq 1..mic.made /\ ToSet(mic.frame) \subseteq 1..mic.made
        /\ ToSet(mic.pending) \subseteq 1..mic.made
    BY DEF CaptureInv, CaptureFits
  <2>7. InOrder(raw)
    <3>1. Precede(SamplesOf(mic.raw), ToSet(b))
      BY <2>5, <2>6 DEF Precede
    <3> QED
      BY <1>2, <1>3, <2>0, <2>6, <3>1, Queued
  <2>8. Len(raw) <= RawCapacity
    BY <1>2, <1>6, <2>2, AudioSizes
  <2>9. CaptureFits(mic.engine, mic.frames, mic.frame, mic.pending, raw, total, dropped)
    <3>1. /\ Precede(SamplesOf(mic.engine), SamplesOf(mic.frames) \cup ToSet(mic.frame) \cup ToSet(mic.pending) \cup SamplesOf(raw))
          /\ Precede(SamplesOf(mic.frames), ToSet(mic.frame) \cup ToSet(mic.pending) \cup SamplesOf(raw))
          /\ Precede(ToSet(mic.frame), ToSet(mic.pending) \cup SamplesOf(raw))
          /\ Precede(ToSet(mic.pending), SamplesOf(raw))
      BY <2>2, <2>5, <2>6 DEF CaptureInv, CaptureFits, Precede
    <3>2. /\ SamplesOf(mic.engine) \cup SamplesOf(mic.frames) \cup ToSet(mic.frame) \cup ToSet(mic.pending) \cup SamplesOf(raw)
             = 1..total \ dropped
          /\ dropped \subseteq 1..total
      BY <2>2, <2>4 DEF CaptureInv, CaptureFits
    <3> QED
      BY <1>2, <1>4, <2>2, <2>7, <2>8, <3>1, <3>2 DEF CaptureInv, CaptureFits
  <2> QED
    BY <2>1, <2>3, <2>9 DEF CaptureInv
<1> QED
  BY <1>5, <1>6

\* The worker takes the oldest block behind what it holds.
LEMMA RunCaptureFits ==
    ASSUME CaptureInv, run_capture
    PROVE  CaptureInv'
<1>1. PICK h : h = Head(mic.raw)
  OBVIOUS
<1>2. PICK raw : raw = Tail(mic.raw)
  OBVIOUS
<1>3. PICK p : p = mic.pending \o h
  OBVIOUS
<1>4. mic.raw \in Seq(Samples) /\ mic.raw # <<>> /\ mic.pending \in Samples
  BY DEF CaptureInv, Capturing, run_capture
<1>5. InOrder(mic.raw) /\ Increasing(mic.pending) /\ Precede(ToSet(mic.pending), SamplesOf(mic.raw)) /\ Len(mic.raw) <= RawCapacity
  BY DEF CaptureInv, CaptureFits
<1>6. /\ h \in Samples /\ raw \in Seq(Samples) /\ Len(raw) = Len(mic.raw) - 1
      /\ SamplesOf(mic.raw) = ToSet(h) \cup SamplesOf(raw)
      /\ Increasing(h) /\ InOrder(raw) /\ Precede(ToSet(h), SamplesOf(raw))
  BY <1>1, <1>2, <1>4, <1>5, Unqueued
<1>7. p \in Samples /\ ToSet(p) = ToSet(mic.pending) \cup ToSet(h) /\ Increasing(p)
  <2>1. Precede(ToSet(mic.pending), ToSet(h))
    BY <1>5, <1>6 DEF Precede
  <2> QED
    BY <1>3, <1>4, <1>5, <1>6, <2>1, Glued
<1>8. mic' = [mic EXCEPT !.raw = raw, !.pending = p] /\ dropped' = dropped
  BY <1>1, <1>2, <1>3 DEF run_capture
<1>9. /\ mic' \in Capturing /\ mic'.made = mic.made /\ mic'.raw = raw /\ mic'.pending = p
      /\ mic'.frame = mic.frame /\ mic'.frames = mic.frames /\ mic'.engine = mic.engine
  BY <1>6, <1>7, <1>8 DEF CaptureInv, Capturing
<1>10. CaptureFits(mic.engine, mic.frames, mic.frame, p, raw, mic.made, dropped)
  <2>1. /\ Precede(SamplesOf(mic.engine), SamplesOf(mic.frames) \cup ToSet(mic.frame) \cup ToSet(p) \cup SamplesOf(raw))
        /\ Precede(SamplesOf(mic.frames), ToSet(mic.frame) \cup ToSet(p) \cup SamplesOf(raw))
        /\ Precede(ToSet(mic.frame), ToSet(p) \cup SamplesOf(raw))
        /\ Precede(ToSet(p), SamplesOf(raw))
    BY <1>6, <1>7 DEF CaptureInv, CaptureFits, Precede
  <2>2. SamplesOf(mic.engine) \cup SamplesOf(mic.frames) \cup ToSet(mic.frame) \cup ToSet(p) \cup SamplesOf(raw) = 1..mic.made \ dropped
    BY <1>6, <1>7 DEF CaptureInv, CaptureFits
  <2>3. Len(raw) <= RawCapacity
    BY <1>4, <1>5, <1>6, AudioSizes
  <2> QED
    BY <1>6, <1>7, <2>1, <2>2, <2>3 DEF CaptureInv, CaptureFits
<1> QED
  BY <1>8, <1>9, <1>10 DEF CaptureInv

\* What the resampler makes of a chunk: the framer's samples, and what it keeps.
LEMMA ChunkIs ==
    ASSUME CaptureInv, Ready(mic.pending), NEW s, s = mic.frame \o FirstChunk(mic.pending), NEW p, p = Rest(mic.pending)
    PROVE  /\ s \in Samples /\ p \in Samples /\ Increasing(s) /\ Increasing(p) /\ Len(s) = Len(mic.frame) + Chunk
           /\ ToSet(s) \cup ToSet(p) = ToSet(mic.frame) \cup ToSet(mic.pending)
           /\ Precede(ToSet(s), ToSet(p) \cup SamplesOf(mic.raw)) /\ Precede(ToSet(p), SamplesOf(mic.raw))
<1>1. PICK c : c = FirstChunk(mic.pending)
  OBVIOUS
<1>2. mic.pending \in Samples /\ mic.frame \in Samples /\ Chunk \in 0..Len(mic.pending)
  BY AudioSizes DEF CaptureInv, Capturing, Ready, Samples
<1>3. /\ Increasing(mic.pending) /\ Increasing(mic.frame)
      /\ Precede(ToSet(mic.frame), ToSet(mic.pending) \cup SamplesOf(mic.raw)) /\ Precede(ToSet(mic.pending), SamplesOf(mic.raw))
  BY DEF CaptureInv, CaptureFits
<1>4. /\ c \in Samples /\ p \in Samples /\ Len(c) = Chunk /\ ToSet(mic.pending) = ToSet(c) \cup ToSet(p)
      /\ Increasing(c) /\ Increasing(p) /\ Precede(ToSet(c), ToSet(p))
  BY <1>1, <1>2, <1>3, CutAt DEF FirstChunk, Rest
<1>5. Precede(ToSet(mic.frame), ToSet(c))
  BY <1>3, <1>4 DEF Precede
<1>6. s \in Samples /\ ToSet(s) = ToSet(mic.frame) \cup ToSet(c) /\ Increasing(s)
  BY <1>1, <1>2, <1>3, <1>4, <1>5, Glued
<1>7. Len(s) = Len(mic.frame) + Chunk
  <2>1. s = mic.frame \o c
    BY <1>1
  <2> QED
    BY <1>2, <1>4, <2>1, Glued
<1>8. Precede(ToSet(s), ToSet(p) \cup SamplesOf(mic.raw)) /\ Precede(ToSet(p), SamplesOf(mic.raw))
  BY <1>3, <1>4, <1>6 DEF Precede
<1> QED
  BY <1>4, <1>6, <1>7, <1>8

\* The framer keeps what is less than a frame, and passes on or drops a whole one.
LEMMA PushChunkFits ==
    ASSUME CaptureInv, push_chunk
    PROVE  CaptureInv'
<1>1. PICK s : s = mic.frame \o FirstChunk(mic.pending)
  OBVIOUS
<1>2. PICK p : p = Rest(mic.pending)
  OBVIOUS
<1>3. /\ s \in Samples /\ p \in Samples /\ Increasing(s) /\ Increasing(p) /\ Len(s) = Len(mic.frame) + Chunk
      /\ ToSet(s) \cup ToSet(p) = ToSet(mic.frame) \cup ToSet(mic.pending)
      /\ Precede(ToSet(s), ToSet(p) \cup SamplesOf(mic.raw)) /\ Precede(ToSet(p), SamplesOf(mic.raw))
  BY <1>1, <1>2, ChunkIs DEF push_chunk
<1>4. Len(mic.frame) \in Nat /\ Len(s) \in Nat /\ Len(mic.frame) < FrameSamples /\ mic.frames \in Seq(Samples) /\ Len(mic.frames) \in Nat
  BY <1>3 DEF CaptureInv, Capturing, CaptureFits, Samples
<1>5. /\ Precede(SamplesOf(mic.engine), SamplesOf(mic.frames) \cup ToSet(s) \cup ToSet(p) \cup SamplesOf(mic.raw))
      /\ Precede(SamplesOf(mic.frames), ToSet(s) \cup ToSet(p) \cup SamplesOf(mic.raw))
  BY <1>3 DEF CaptureInv, CaptureFits, Precede
<1>6. SamplesOf(mic.engine) \cup SamplesOf(mic.frames) \cup ToSet(s) \cup ToSet(p) \cup SamplesOf(mic.raw) = 1..mic.made \ dropped
  BY <1>3 DEF CaptureInv, CaptureFits
<1>7. CASE ~(Len(s) >= FrameSamples)
  <2>1. mic' = [mic EXCEPT !.pending = p, !.frame = s, !.frames = mic.frames] /\ dropped' = dropped
    BY <1>1, <1>2, <1>7 DEF push_chunk
  <2>2. /\ mic' \in Capturing /\ mic'.made = mic.made /\ mic'.raw = mic.raw /\ mic'.pending = p
        /\ mic'.frame = s /\ mic'.frames = mic.frames /\ mic'.engine = mic.engine
    BY <1>3, <2>1 DEF CaptureInv, Capturing
  <2>3. Len(s) < FrameSamples
    BY <1>4, <1>7, AudioSizes
  <2>4. CaptureFits(mic.engine, mic.frames, s, p, mic.raw, mic.made, dropped)
    BY <1>3, <1>5, <1>6, <2>3 DEF CaptureInv, CaptureFits
  <2> QED
    BY <2>1, <2>2, <2>4 DEF CaptureInv
<1>8. CASE Len(s) >= FrameSamples
  <2>1. PICK f : f = SubSeq(s, 1, FrameSamples)
    OBVIOUS
  <2>2. PICK r : r = SubSeq(s, FrameSamples + 1, Len(s))
    OBVIOUS
  <2>3. /\ f \in Samples /\ r \in Samples /\ Len(f) = FrameSamples /\ Len(r) = Len(s) - FrameSamples
        /\ ToSet(s) = ToSet(f) \cup ToSet(r) /\ Increasing(f) /\ Increasing(r) /\ Precede(ToSet(f), ToSet(r))
    <3>1. FrameSamples \in 0..Len(s)
      BY <1>4, <1>8, AudioSizes
    <3> QED
      BY <1>3, <2>1, <2>2, <3>1, CutAt
  <2>4. Len(r) < FrameSamples
    BY <1>3, <1>4, <2>3, AudioSizes
  <2>5. /\ Precede(SamplesOf(mic.engine), SamplesOf(mic.frames) \cup ToSet(f) \cup ToSet(r) \cup ToSet(p) \cup SamplesOf(mic.raw))
        /\ Precede(SamplesOf(mic.frames), ToSet(f) \cup ToSet(r) \cup ToSet(p) \cup SamplesOf(mic.raw))
        /\ Precede(ToSet(f), ToSet(r) \cup ToSet(p) \cup SamplesOf(mic.raw))
        /\ Precede(ToSet(r), ToSet(p) \cup SamplesOf(mic.raw))
    BY <1>3, <1>5, <2>3 DEF Precede
  <2>6. CASE Len(mic.frames) >= MicCapacity
    <3>1. mic' = [mic EXCEPT !.pending = p, !.frame = r, !.frames = mic.frames] /\ dropped' = dropped \cup ToSet(f)
      BY <1>1, <1>2, <1>8, <2>1, <2>2, <2>6 DEF push_chunk
    <3>2. /\ mic' \in Capturing /\ mic'.made = mic.made /\ mic'.raw = mic.raw /\ mic'.pending = p
          /\ mic'.frame = r /\ mic'.frames = mic.frames /\ mic'.engine = mic.engine
      BY <1>3, <2>3, <3>1 DEF CaptureInv, Capturing
    <3>3. ToSet(f) \subseteq Nat
      BY <2>3, InPiece
    <3>4. /\ SamplesOf(mic.engine) \cap ToSet(f) = {} /\ SamplesOf(mic.frames) \cap ToSet(f) = {} /\ ToSet(r) \cap ToSet(f) = {}
          /\ ToSet(p) \cap ToSet(f) = {} /\ SamplesOf(mic.raw) \cap ToSet(f) = {}
      BY <2>5, <3>3 DEF Precede
    <3>5. SamplesOf(mic.engine) \cup SamplesOf(mic.frames) \cup ToSet(r) \cup ToSet(p) \cup SamplesOf(mic.raw)
          = 1..mic.made \ (dropped \cup ToSet(f))
      BY <1>6, <2>3, <3>4
    <3>6. dropped \cup ToSet(f) \subseteq 1..mic.made
      BY <1>6, <2>3 DEF CaptureInv, CaptureFits
    <3>7. /\ Precede(SamplesOf(mic.engine), SamplesOf(mic.frames) \cup ToSet(r) \cup ToSet(p) \cup SamplesOf(mic.raw))
          /\ Precede(SamplesOf(mic.frames), ToSet(r) \cup ToSet(p) \cup SamplesOf(mic.raw))
      BY <2>5 DEF Precede
    <3>8. CaptureFits(mic.engine, mic.frames, r, p, mic.raw, mic.made, dropped \cup ToSet(f))
      BY <1>3, <2>3, <2>4, <2>5, <3>5, <3>6, <3>7 DEF CaptureInv, CaptureFits
    <3> QED
      BY <3>1, <3>2, <3>8 DEF CaptureInv
  <2>7. CASE ~(Len(mic.frames) >= MicCapacity)
    <3>0. PICK fs : fs = Append(mic.frames, f)
      OBVIOUS
    <3>1. mic' = [mic EXCEPT !.pending = p, !.frame = r, !.frames = fs] /\ dropped' = dropped
      BY <1>1, <1>2, <1>8, <2>1, <2>2, <2>7, <3>0 DEF push_chunk
    <3>2. InOrder(mic.frames) /\ Precede(SamplesOf(mic.frames), ToSet(f)) /\ \A i \in 1..Len(mic.frames) : Len(mic.frames[i]) = FrameSamples
      BY <2>5 DEF CaptureInv, CaptureFits, Precede
    <3>3. fs \in Seq(Samples) /\ Len(fs) = Len(mic.frames) + 1 /\ SamplesOf(fs) = SamplesOf(mic.frames) \cup ToSet(f) /\ InOrder(fs)
      BY <1>4, <2>3, <3>0, <3>2, Queued
    <3>4. /\ mic' \in Capturing /\ mic'.made = mic.made /\ mic'.raw = mic.raw /\ mic'.pending = p
          /\ mic'.frame = r /\ mic'.frames = fs /\ mic'.engine = mic.engine
      BY <1>3, <2>3, <3>1, <3>3 DEF CaptureInv, Capturing
    <3>5. \A i \in 1..Len(fs) : Len(fs[i]) = FrameSamples
      <4>1. \A i \in 1..Len(fs) : fs[i] = IF i <= Len(mic.frames) THEN mic.frames[i] ELSE f
        BY <1>4, <3>0
      <4> QED
        BY <1>4, <2>3, <3>2, <3>3, <4>1
    <3>6. Len(fs) <= MicCapacity
      BY <1>4, <2>7, <3>3, AudioSizes
    <3>7. /\ Precede(SamplesOf(mic.engine), SamplesOf(fs) \cup ToSet(r) \cup ToSet(p) \cup SamplesOf(mic.raw))
          /\ Precede(SamplesOf(fs), ToSet(r) \cup ToSet(p) \cup SamplesOf(mic.raw))
      BY <2>5, <3>3 DEF Precede
    <3>8. SamplesOf(mic.engine) \cup SamplesOf(fs) \cup ToSet(r) \cup ToSet(p) \cup SamplesOf(mic.raw) = 1..mic.made \ dropped
      BY <1>6, <2>3, <3>3
    <3>9. CaptureFits(mic.engine, fs, r, p, mic.raw, mic.made, dropped)
      BY <1>3, <2>3, <2>4, <2>5, <3>3, <3>5, <3>6, <3>7, <3>8 DEF CaptureInv, CaptureFits
    <3> QED
      BY <3>1, <3>4, <3>9 DEF CaptureInv
  <2> QED
    BY <2>6, <2>7
<1> QED
  BY <1>7, <1>8

\* A failed resampling drops what the worker holds.
LEMMA CaptureFailsFits ==
    ASSUME CaptureInv, capture_fails
    PROVE  CaptureInv'
<1>1. PICK e : e = <<>>
  OBVIOUS
<1>2. e \in Samples /\ ToSet(e) = {} /\ Increasing(e)
  BY <1>1, Silence
<1>3. mic' = [mic EXCEPT !.pending = e] /\ dropped' = dropped \cup ToSet(mic.pending)
  BY <1>1 DEF capture_fails
<1>4. /\ mic' \in Capturing /\ mic'.made = mic.made /\ mic'.raw = mic.raw /\ mic'.pending = e
      /\ mic'.frame = mic.frame /\ mic'.frames = mic.frames /\ mic'.engine = mic.engine
  BY <1>2, <1>3 DEF CaptureInv, Capturing
<1>5. ToSet(mic.pending) \subseteq Nat
  BY InPiece DEF CaptureInv, Capturing
<1>6. /\ SamplesOf(mic.engine) \cap ToSet(mic.pending) = {} /\ SamplesOf(mic.frames) \cap ToSet(mic.pending) = {}
      /\ ToSet(mic.frame) \cap ToSet(mic.pending) = {} /\ SamplesOf(mic.raw) \cap ToSet(mic.pending) = {}
  BY <1>5 DEF CaptureInv, CaptureFits, Precede
<1>7. CaptureFits(mic.engine, mic.frames, mic.frame, e, mic.raw, mic.made, dropped \cup ToSet(mic.pending))
  <2>1. /\ Precede(SamplesOf(mic.engine), SamplesOf(mic.frames) \cup ToSet(mic.frame) \cup ToSet(e) \cup SamplesOf(mic.raw))
        /\ Precede(SamplesOf(mic.frames), ToSet(mic.frame) \cup ToSet(e) \cup SamplesOf(mic.raw))
        /\ Precede(ToSet(mic.frame), ToSet(e) \cup SamplesOf(mic.raw))
        /\ Precede(ToSet(e), SamplesOf(mic.raw))
    BY <1>2 DEF CaptureInv, CaptureFits, Precede
  <2>2. /\ SamplesOf(mic.engine) \cup SamplesOf(mic.frames) \cup ToSet(mic.frame) \cup ToSet(e) \cup SamplesOf(mic.raw)
           = 1..mic.made \ (dropped \cup ToSet(mic.pending))
        /\ dropped \cup ToSet(mic.pending) \subseteq 1..mic.made
    BY <1>2, <1>6 DEF CaptureInv, CaptureFits
  <2> QED
    BY <1>2, <2>1, <2>2 DEF CaptureInv, CaptureFits
<1> QED
  BY <1>3, <1>4, <1>7 DEF CaptureInv

\* The engine takes the oldest frame.
LEMMA EngineTakesFits ==
    ASSUME CaptureInv, engine_takes
    PROVE  CaptureInv'
<1>1. PICK h : h = Head(mic.frames)
  OBVIOUS
<1>2. PICK fs : fs = Tail(mic.frames)
  OBVIOUS
<1>3. PICK en : en = Append(mic.engine, h)
  OBVIOUS
<1>4. mic.frames \in Seq(Samples) /\ mic.frames # <<>> /\ mic.engine \in Seq(Samples)
  BY DEF CaptureInv, Capturing, engine_takes
<1>5. /\ InOrder(mic.frames) /\ InOrder(mic.engine) /\ Precede(SamplesOf(mic.engine), SamplesOf(mic.frames)) /\ Len(mic.frames) <= MicCapacity
      /\ \A i \in 1..Len(mic.engine) : Len(mic.engine[i]) = FrameSamples
      /\ \A i \in 1..Len(mic.frames) : Len(mic.frames[i]) = FrameSamples
  BY DEF CaptureInv, CaptureFits, Precede
<1>6. /\ h \in Samples /\ fs \in Seq(Samples) /\ Len(fs) = Len(mic.frames) - 1
      /\ SamplesOf(mic.frames) = ToSet(h) \cup SamplesOf(fs)
      /\ Increasing(h) /\ InOrder(fs) /\ Precede(ToSet(h), SamplesOf(fs))
  BY <1>1, <1>2, <1>4, <1>5, Unqueued
<1>7. en \in Seq(Samples) /\ Len(en) = Len(mic.engine) + 1 /\ SamplesOf(en) = SamplesOf(mic.engine) \cup ToSet(h) /\ InOrder(en)
  <2>1. Precede(SamplesOf(mic.engine), ToSet(h))
    BY <1>5, <1>6 DEF Precede
  <2> QED
    BY <1>3, <1>4, <1>5, <1>6, <2>1, Queued
<1>8. mic' = [mic EXCEPT !.frames = fs, !.engine = en] /\ dropped' = dropped
  BY <1>1, <1>2, <1>3 DEF engine_takes
<1>9. /\ mic' \in Capturing /\ mic'.made = mic.made /\ mic'.raw = mic.raw /\ mic'.pending = mic.pending
      /\ mic'.frame = mic.frame /\ mic'.frames = fs /\ mic'.engine = en
  BY <1>6, <1>7, <1>8 DEF CaptureInv, Capturing
<1>10. /\ \A i \in 1..Len(en) : Len(en[i]) = FrameSamples
       /\ \A i \in 1..Len(fs) : Len(fs[i]) = FrameSamples
  <2>1. Len(h) = FrameSamples
    BY <1>1, <1>4, <1>5
  <2>2. \A i \in 1..Len(en) : en[i] = IF i <= Len(mic.engine) THEN mic.engine[i] ELSE h
    BY <1>3, <1>4
  <2>3. \A i \in 1..Len(fs) : fs[i] = mic.frames[i + 1] /\ i + 1 \in 1..Len(mic.frames)
    BY <1>2, <1>4
  <2>4. ASSUME NEW i \in 1..Len(en) PROVE Len(en[i]) = FrameSamples
    <3>1. CASE i <= Len(mic.engine)
      BY <1>4, <1>5, <1>7, <2>2, <2>4, <3>1
    <3>2. CASE ~(i <= Len(mic.engine))
      BY <2>1, <2>2, <2>4, <3>2
    <3> QED
      BY <3>1, <3>2
  <2>5. ASSUME NEW i \in 1..Len(fs) PROVE Len(fs[i]) = FrameSamples
    BY <1>5, <2>3, <2>5
  <2> QED
    BY <2>4, <2>5
<1>11. CaptureFits(en, fs, mic.frame, mic.pending, mic.raw, mic.made, dropped)
  <2>1. /\ Precede(SamplesOf(en), SamplesOf(fs) \cup ToSet(mic.frame) \cup ToSet(mic.pending) \cup SamplesOf(mic.raw))
        /\ Precede(SamplesOf(fs), ToSet(mic.frame) \cup ToSet(mic.pending) \cup SamplesOf(mic.raw))
    BY <1>6, <1>7 DEF CaptureInv, CaptureFits, Precede
  <2>2. SamplesOf(en) \cup SamplesOf(fs) \cup ToSet(mic.frame) \cup ToSet(mic.pending) \cup SamplesOf(mic.raw) = 1..mic.made \ dropped
    BY <1>6, <1>7 DEF CaptureInv, CaptureFits
  <2>3. Len(fs) <= MicCapacity
    BY <1>4, <1>5, <1>6, AudioSizes
  <2> QED
    BY <1>6, <1>7, <1>10, <2>1, <2>2, <2>3 DEF CaptureInv, CaptureFits
<1> QED
  BY <1>8, <1>9, <1>11 DEF CaptureInv

\* What the invariant says of the whole way.
LEMMA CaptureKeepsOrder ==
    ASSUME CaptureInv
    PROVE  MicKeepsOrder /\ MicFramesWhole
<1>1. /\ mic.engine \in Seq(Samples) /\ mic.frames \in Seq(Samples) /\ mic.raw \in Seq(Samples)
      /\ mic.frame \in Samples /\ mic.pending \in Samples
  BY DEF CaptureInv, Capturing
<1>2. /\ <<mic.frame>> \in Seq(Samples) /\ SamplesOf(<<mic.frame>>) = ToSet(mic.frame) /\ InOrder(<<mic.frame>>)
      /\ <<mic.pending>> \in Seq(Samples) /\ SamplesOf(<<mic.pending>>) = ToSet(mic.pending) /\ InOrder(<<mic.pending>>)
  BY <1>1, OneBlock DEF CaptureInv, CaptureFits
<1>3. PICK a : a = mic.engine \o mic.frames
  OBVIOUS
<1>4. a \in Seq(Samples) /\ SamplesOf(a) = SamplesOf(mic.engine) \cup SamplesOf(mic.frames) /\ InOrder(a)
  <2>1. Precede(SamplesOf(mic.engine), SamplesOf(mic.frames)) /\ InOrder(mic.engine) /\ InOrder(mic.frames)
    BY DEF CaptureInv, CaptureFits, Precede
  <2> QED
    BY <1>1, <1>3, <2>1, Chained
<1>5. PICK b : b = a \o <<mic.frame>>
  OBVIOUS
<1>6. b \in Seq(Samples) /\ SamplesOf(b) = SamplesOf(a) \cup ToSet(mic.frame) /\ InOrder(b)
  <2>1. Precede(SamplesOf(a), ToSet(mic.frame))
    BY <1>4 DEF CaptureInv, CaptureFits, Precede
  <2> QED
    BY <1>2, <1>4, <1>5, <2>1, Chained, ZenonT(40)
<1>7. PICK c : c = b \o <<mic.pending>>
  OBVIOUS
<1>8. c \in Seq(Samples) /\ SamplesOf(c) = SamplesOf(b) \cup ToSet(mic.pending) /\ InOrder(c)
  <2>1. Precede(SamplesOf(b), ToSet(mic.pending))
    BY <1>4, <1>6 DEF CaptureInv, CaptureFits, Precede
  <2> QED
    BY <1>2, <1>6, <1>7, <2>1, Chained, ZenonT(40)
<1>9. PICK d : d = c \o mic.raw
  OBVIOUS
<1>10. SamplesOf(d) = SamplesOf(c) \cup SamplesOf(mic.raw) /\ InOrder(d)
  <2>1. Precede(SamplesOf(c), SamplesOf(mic.raw)) /\ InOrder(mic.raw)
    BY <1>4, <1>6, <1>8 DEF CaptureInv, CaptureFits, Precede
  <2> QED
    BY <1>1, <1>8, <1>9, <2>1, Chained
<1>11. OnItsWay = d
  BY <1>3, <1>5, <1>7, <1>9 DEF OnItsWay
<1>12. SamplesOf(d) = 1..mic.made \ dropped
  BY <1>4, <1>6, <1>8, <1>10 DEF CaptureInv, CaptureFits
<1> QED
  BY <1>10, <1>11, <1>12 DEF CaptureInv, CaptureFits, MicKeepsOrder, MicFramesWhole
-----------------------------------------------------------------------------

\* The last samples of a sequence.
EndOf(r, s) == Len(r) <= Len(s) /\ \A i \in 1..Len(r) : r[i] = s[Len(s) - Len(r) + i]

LEMMA EndOfIsTheEnd ==
    ASSUME NEW r \in Samples, NEW s \in Samples, EndOf(r, s)
    PROVE  r = SubSeq(s, Len(s) - Len(r) + 1, Len(s))
<1>1. PICK n : n = Len(r)
  OBVIOUS
<1>2. PICK m : m = Len(s) - n
  OBVIOUS
<1>3. n \in Nat /\ m \in 0..Len(s) /\ Len(s) \in Nat /\ n = Len(s) - m /\ Len(r) = n
  BY <1>1, <1>2 DEF EndOf, Samples
<1>4. PICK q : q = SubSeq(s, m + 1, Len(s))
  OBVIOUS
<1>5. q \in Samples /\ Len(q) = n
  BY <1>3, <1>4, CutAt
<1>6. \A i \in 1..n : q[i] = s[m + i]
  BY <1>3, <1>4, CutAt
<1>7. \A i \in 1..n : r[i] = s[m + i]
  BY <1>1, <1>2 DEF EndOf
<1>8. \A i \in 1..Len(r) : r[i] = q[i]
  BY <1>3, <1>6, <1>7
<1>9. r = q
  <2>1. r \in Seq(Nat) /\ q \in Seq(Nat) /\ Len(r) = Len(q)
    BY <1>3, <1>5 DEF Samples
  <2> QED
    BY <1>8, <2>1
<1> QED
  BY <1>1, <1>2, <1>4, <1>9

\* Playback: what was played, the ring and what is behind it are in order, the ring holds the newest of what was pushed, and
\* nothing is played before there was a margin.
PlaybackFits(played, ring, pending, frames, pushed, total, primed) ==
    /\ Increasing(played) /\ Increasing(ring) /\ Increasing(pending) /\ InOrder(frames)
    /\ Precede(ToSet(played), ToSet(ring) \cup ToSet(pending) \cup SamplesOf(frames))
    /\ Precede(ToSet(ring), ToSet(pending) \cup SamplesOf(frames))
    /\ Precede(ToSet(pending), SamplesOf(frames))
    /\ ToSet(played) \cup ToSet(ring) \cup ToSet(pending) \cup SamplesOf(frames) \subseteq 1..total
    /\ Len(ring) <= RingCapacity /\ EndOf(ring, pushed)
    /\ primed => Len(pushed) >= Prefill
    /\ played # <<>> => primed

Playing == [made : Nat, frames : Seq(Samples), pending : Samples, pushed : Samples, ring : Samples,
            primed : BOOLEAN, played : Samples]

PlaybackInv ==
    /\ spk \in Playing
    /\ PlaybackFits(spk.played, spk.ring, spk.pending, spk.frames, spk.pushed, spk.made, spk.primed)

LEMMA PlaybackStart ==
    ASSUME AudioInit
    PROVE  PlaybackInv
<1>1. PICK e : e = <<>>
  OBVIOUS
<1>2. e \in Samples /\ e \in Seq(Samples) /\ InOrder(e) /\ Increasing(e) /\ ToSet(e) = {} /\ SamplesOf(e) = {} /\ Len(e) = 0
  BY <1>1, Silence
<1>3. spk = [made |-> 0, frames |-> e, pending |-> e, pushed |-> e, ring |-> e, primed |-> FALSE, played |-> e]
  BY <1>1 DEF AudioInit
<1>4. /\ spk \in Playing /\ spk.made = 0 /\ spk.frames = e /\ spk.pending = e /\ spk.pushed = e /\ spk.ring = e /\ ~spk.primed
      /\ spk.played = e
  BY <1>2, <1>3 DEF Playing
<1>5. EndOf(e, e)
  BY <1>2 DEF EndOf
<1>6. PlaybackFits(e, e, e, e, e, 0, FALSE)
  <2>1. Precede({}, {} \cup {} \cup {}) /\ Precede({}, {} \cup {}) /\ Precede({}, {})
    BY DEF Precede
  <2>2. {} \cup {} \cup {} \cup {} \subseteq 1..0 /\ Len(e) <= RingCapacity
    BY <1>2, AudioSizes
  <2>3. ~(e # <<>>)
    BY <1>1
  <2> QED
    BY <1>2, <1>5, <2>1, <2>2, <2>3 DEF PlaybackFits
<1>7. PlaybackFits(e, e, e, e, e, 0, spk.primed)
  BY <1>4, <1>6 DEF PlaybackFits
<1> QED
  BY <1>4, <1>7 DEF PlaybackInv

\* The engine's frame is behind everything.
LEMMA EnginePlaysFits ==
    ASSUME PlaybackInv, engine_plays
    PROVE  PlaybackInv'
<1>1. PICK b : b = Block(spk.made, FrameSamples)
  OBVIOUS
<1>2. spk.made \in Nat /\ spk.frames \in Seq(Samples)
  BY DEF PlaybackInv, Playing
<1>3. b \in Samples /\ ToSet(b) = spk.made + 1..spk.made + FrameSamples /\ Increasing(b)
  BY <1>1, <1>2, BlockIs, AudioSizes
<1>4. PICK total \in Nat : total = spk.made + FrameSamples
  BY <1>2, AudioSizes
<1>5. PICK fs : fs = Append(spk.frames, b)
  OBVIOUS
<1>6. spk' = [spk EXCEPT !.made = total, !.frames = fs]
  BY <1>1, <1>4, <1>5 DEF engine_plays
<1>7. 1..total = 1..spk.made \cup ToSet(b) /\ Precede(1..spk.made, ToSet(b))
  BY <1>2, <1>3, <1>4, AudioSizes DEF Precede
<1>8. fs \in Seq(Samples) /\ SamplesOf(fs) = SamplesOf(spk.frames) \cup ToSet(b) /\ InOrder(fs)
  <2>1. InOrder(spk.frames) /\ Precede(SamplesOf(spk.frames), ToSet(b))
    BY <1>7 DEF PlaybackInv, PlaybackFits, Precede
  <2> QED
    BY <1>2, <1>3, <1>5, <2>1, Queued
<1>9. /\ spk' \in Playing /\ spk'.made = total /\ spk'.frames = fs /\ spk'.pending = spk.pending /\ spk'.pushed = spk.pushed
      /\ spk'.ring = spk.ring /\ spk'.primed = spk.primed /\ spk'.played = spk.played
  BY <1>4, <1>6, <1>8 DEF PlaybackInv, Playing
<1>10. PlaybackFits(spk.played, spk.ring, spk.pending, fs, spk.pushed, total, spk.primed)
  <2>1. /\ Precede(ToSet(spk.played), ToSet(spk.ring) \cup ToSet(spk.pending) \cup SamplesOf(fs))
        /\ Precede(ToSet(spk.ring), ToSet(spk.pending) \cup SamplesOf(fs))
        /\ Precede(ToSet(spk.pending), SamplesOf(fs))
    BY <1>7, <1>8 DEF PlaybackInv, PlaybackFits, Precede
  <2>2. ToSet(spk.played) \cup ToSet(spk.ring) \cup ToSet(spk.pending) \cup SamplesOf(fs) \subseteq 1..total
    BY <1>7, <1>8 DEF PlaybackInv, PlaybackFits
  <2> QED
    BY <1>8, <2>1, <2>2 DEF PlaybackInv, PlaybackFits
<1> QED
  BY <1>9, <1>10 DEF PlaybackInv

\* The worker takes the oldest frame behind what it holds.
LEMMA RunPlaybackFits ==
    ASSUME PlaybackInv, run_playback
    PROVE  PlaybackInv'
<1>1. PICK h : h = Head(spk.frames)
  OBVIOUS
<1>2. PICK fs : fs = Tail(spk.frames)
  OBVIOUS
<1>3. PICK p : p = spk.pending \o h
  OBVIOUS
<1>4. spk.frames \in Seq(Samples) /\ spk.frames # <<>> /\ spk.pending \in Samples
  BY DEF PlaybackInv, Playing, run_playback
<1>5. InOrder(spk.frames) /\ Increasing(spk.pending) /\ Precede(ToSet(spk.pending), SamplesOf(spk.frames))
  BY DEF PlaybackInv, PlaybackFits
<1>6. /\ h \in Samples /\ fs \in Seq(Samples)
      /\ SamplesOf(spk.frames) = ToSet(h) \cup SamplesOf(fs)
      /\ Increasing(h) /\ InOrder(fs) /\ Precede(ToSet(h), SamplesOf(fs))
  BY <1>1, <1>2, <1>4, <1>5, Unqueued
<1>7. p \in Samples /\ ToSet(p) = ToSet(spk.pending) \cup ToSet(h) /\ Increasing(p)
  <2>1. Precede(ToSet(spk.pending), ToSet(h))
    BY <1>5, <1>6 DEF Precede
  <2> QED
    BY <1>3, <1>4, <1>5, <1>6, <2>1, Glued
<1>8. spk' = [spk EXCEPT !.frames = fs, !.pending = p]
  BY <1>1, <1>2, <1>3 DEF run_playback
<1>9. /\ spk' \in Playing /\ spk'.made = spk.made /\ spk'.frames = fs /\ spk'.pending = p /\ spk'.pushed = spk.pushed
      /\ spk'.ring = spk.ring /\ spk'.primed = spk.primed /\ spk'.played = spk.played
  BY <1>6, <1>7, <1>8 DEF PlaybackInv, Playing
<1>10. PlaybackFits(spk.played, spk.ring, p, fs, spk.pushed, spk.made, spk.primed)
  <2>1. /\ Precede(ToSet(spk.played), ToSet(spk.ring) \cup ToSet(p) \cup SamplesOf(fs))
        /\ Precede(ToSet(spk.ring), ToSet(p) \cup SamplesOf(fs))
        /\ Precede(ToSet(p), SamplesOf(fs))
    BY <1>6, <1>7 DEF PlaybackInv, PlaybackFits, Precede
  <2>2. ToSet(spk.played) \cup ToSet(spk.ring) \cup ToSet(p) \cup SamplesOf(fs) \subseteq 1..spk.made
    BY <1>6, <1>7 DEF PlaybackInv, PlaybackFits
  <2> QED
    BY <1>6, <1>7, <2>1, <2>2 DEF PlaybackInv, PlaybackFits
<1> QED
  BY <1>9, <1>10 DEF PlaybackInv

\* A ring that holds the newest of what was pushed still does after a push.
LEMMA SliceIsEnd ==
    ASSUME NEW ring \in Samples, NEW c \in Samples, NEW pushed \in Samples,
           Len(ring) <= RingCapacity, EndOf(ring, pushed)
    PROVE  /\ push_slice(ring, c) \in Samples /\ ToSet(push_slice(ring, c)) \subseteq ToSet(ring) \cup ToSet(c)
           /\ Len(push_slice(ring, c)) <= RingCapacity /\ EndOf(push_slice(ring, c), pushed \o c)
           /\ Increasing(ring) /\ Increasing(c) /\ Precede(ToSet(ring), ToSet(c)) => Increasing(push_slice(ring, c))
<1>0. Len(ring) \in Nat /\ Len(c) \in Nat /\ Len(pushed) \in Nat
  BY DEF Samples
<1>1. PICK r : r = push_slice(ring, c)
  OBVIOUS
<1>2. PICK ps : ps = pushed \o c
  OBVIOUS
<1>3. ps \in Samples /\ Len(ps) = Len(pushed) + Len(c)
  BY <1>2, Glued
<1>4. /\ \A i \in 1..Len(pushed) : ps[i] = pushed[i]
      /\ \A i \in 1..Len(c) : ps[Len(pushed) + i] = c[i]
  BY <1>2 DEF Samples
<1>5. CASE Len(c) >= RingCapacity
  <2>0. PICK k : k = Len(c) - RingCapacity
    OBVIOUS
  <2>1. k \in 0..Len(c) /\ k = Len(c) - RingCapacity
    BY <1>0, <1>5, <2>0, AudioSizes
  <2>2. r = SubSeq(c, k + 1, Len(c))
    BY <1>1, <1>5, <2>1 DEF push_slice
  <2>3. /\ r \in Samples /\ Len(r) = Len(c) - k /\ ToSet(r) \subseteq ToSet(c)
        /\ Increasing(c) => Increasing(r)
    BY <2>1, <2>2, CutAt
  <2>4. Len(r) = RingCapacity
    BY <1>0, <2>1, <2>3, AudioSizes
  <2>5. \A i \in 1..Len(c) - k : r[i] = c[k + i]
    BY <2>1, <2>2, CutAt
  <2>6. ASSUME NEW i \in 1..Len(r) PROVE r[i] = ps[Len(ps) - Len(r) + i]
    <3>1. k + i \in 1..Len(c) /\ Len(ps) - Len(r) + i = Len(pushed) + (k + i)
      BY <1>0, <1>3, <2>1, <2>3, <2>6
    <3>2. r[i] = c[k + i] /\ ps[Len(pushed) + (k + i)] = c[k + i]
      BY <1>4, <2>3, <2>5, <2>6, <3>1
    <3> QED
      BY <3>1, <3>2
  <2>7. Len(r) <= RingCapacity /\ Len(r) <= Len(ps)
    BY <1>0, <1>3, <2>1, <2>3, <2>4, AudioSizes
  <2> QED
    BY <1>1, <1>2, <2>3, <2>6, <2>7 DEF EndOf
<1>6. CASE ~(Len(c) >= RingCapacity)
  <2>0. PICK o : o = saturating_sub(Len(ring) + Len(c), RingCapacity)
    OBVIOUS
  <2>1. o \in 0..Len(ring) /\ Len(ring) - o + Len(c) <= RingCapacity
    BY <1>0, <1>6, <2>0, AudioSizes DEF saturating_sub
  <2>2. PICK kept : kept = SubSeq(ring, o + 1, Len(ring))
    OBVIOUS
  <2>3. r = kept \o c
    <3>1. push_slice(ring, c) = SubSeq(ring, o + 1, Len(ring)) \o c
      BY <1>6, <2>0, Zenon DEF push_slice
    <3> QED
      BY <1>1, <2>2, <3>1
  <2>4. /\ kept \in Samples /\ Len(kept) = Len(ring) - o /\ ToSet(kept) \subseteq ToSet(ring)
        /\ Increasing(ring) => Increasing(kept)
    BY <2>1, <2>2, CutAt
  <2>5. /\ r \in Samples /\ ToSet(r) = ToSet(kept) \cup ToSet(c) /\ Len(r) = Len(kept) + Len(c)
        /\ Increasing(ring) /\ Increasing(c) /\ Precede(ToSet(ring), ToSet(c)) => Increasing(r)
    <3>1. Precede(ToSet(ring), ToSet(c)) => Precede(ToSet(kept), ToSet(c))
      BY <2>4 DEF Precede
    <3> QED
      BY <2>3, <2>4, <3>1, Glued
  <2>6. Len(ring) <= Len(pushed) /\ \A i \in 1..Len(ring) : ring[i] = pushed[Len(pushed) - Len(ring) + i]
    BY DEF EndOf
  <2>20. Len(kept) = Len(ring) - o /\ Len(r) = Len(kept) + Len(c) /\ Len(ps) = Len(pushed) + Len(c) /\ Len(ring) <= Len(pushed)
    BY <1>3, <2>4, <2>5, <2>6
  <2>7. Len(r) <= RingCapacity /\ Len(r) <= Len(ps) /\ Len(kept) \in Nat
    BY <1>0, <2>1, <2>20
  <2>21. PICK n : n = Len(ps) - Len(r)
    OBVIOUS
  <2>8. n \in Nat /\ n = Len(ps) - Len(r)
    BY <1>0, <2>1, <2>20, <2>21
  <2>9. n + Len(kept) = Len(pushed)
    BY <1>0, <2>1, <2>20, <2>8
  <2>10. /\ \A i \in 1..Len(kept) : r[i] = kept[i]
         /\ \A i \in 1..Len(c) : r[Len(kept) + i] = c[i]
    <3>1. kept \in Seq(Nat) /\ c \in Seq(Nat)
      BY <2>4 DEF Samples
    <3> QED
      BY <2>3, <3>1
  <2>11. \A i \in 1..Len(ring) - o : kept[i] = ring[o + i]
    BY <2>1, <2>2, CutAt
  <2>12. ASSUME NEW i \in 1..Len(r) PROVE r[i] = ps[n + i]
    <3>1. CASE i <= Len(kept)
      <4>1. /\ o + i \in 1..Len(ring) /\ n + i \in 1..Len(pushed) /\ Len(pushed) - Len(ring) + (o + i) = n + i
            /\ i \in 1..Len(kept) /\ i \in 1..Len(ring) - o
        BY <1>0, <2>1, <2>20, <2>8, <2>12, <3>1
      <4>2. r[i] = kept[i] /\ kept[i] = ring[o + i] /\ ring[o + i] = pushed[n + i] /\ ps[n + i] = pushed[n + i]
        BY <1>4, <2>6, <2>10, <2>11, <4>1
      <4> QED
        BY <4>2
    <3>2. CASE i > Len(kept)
      <4>1. PICK j \in 1..Len(c) : i = Len(kept) + j
        <5>1. i - Len(kept) \in 1..Len(c) /\ i = Len(kept) + (i - Len(kept))
          BY <1>0, <2>5, <2>7, <2>12, <3>2
        <5> QED
          BY <5>1
      <4>2. n + i = Len(pushed) + j
        BY <1>0, <2>7, <2>8, <2>9, <4>1
      <4>3. r[i] = c[j] /\ ps[n + i] = c[j]
        BY <1>4, <2>10, <4>1, <4>2
      <4> QED
        BY <4>3
    <3> QED
      BY <2>7, <2>12, <3>1, <3>2
  <2> QED
    BY <1>1, <1>2, <2>4, <2>5, <2>7, <2>8, <2>12 DEF EndOf
<1> QED
  BY <1>5, <1>6

\* A chunk goes from the worker to the ring.
LEMMA PlayChunkFits ==
    ASSUME PlaybackInv, play_chunk
    PROVE  PlaybackInv'
<1>1. PICK c : c = FirstChunk(spk.pending)
  OBVIOUS
<1>2. PICK p : p = Rest(spk.pending)
  OBVIOUS
<1>3. PICK r : r = push_slice(spk.ring, c)
  OBVIOUS
<1>4. PICK ps : ps = spk.pushed \o c
  OBVIOUS
<1>5. /\ spk.pending \in Samples /\ spk.ring \in Samples /\ spk.pushed \in Samples /\ Chunk \in 0..Len(spk.pending)
      /\ Len(spk.pushed) \in Nat
  BY AudioSizes DEF PlaybackInv, Playing, play_chunk, Ready, Samples
<1>6. /\ Increasing(spk.pending) /\ Increasing(spk.ring) /\ Precede(ToSet(spk.ring), ToSet(spk.pending))
      /\ Len(spk.ring) <= RingCapacity /\ EndOf(spk.ring, spk.pushed)
  BY DEF PlaybackInv, PlaybackFits, Precede
<1>7. /\ c \in Samples /\ p \in Samples /\ ToSet(spk.pending) = ToSet(c) \cup ToSet(p)
      /\ Increasing(c) /\ Increasing(p) /\ Precede(ToSet(c), ToSet(p))
  BY <1>1, <1>2, <1>5, <1>6, CutAt DEF FirstChunk, Rest
<1>8. Precede(ToSet(spk.ring), ToSet(c))
  BY <1>6, <1>7 DEF Precede
<1>9. /\ r \in Samples /\ ToSet(r) \subseteq ToSet(spk.ring) \cup ToSet(c) /\ Increasing(r)
      /\ ps \in Samples /\ Len(ps) = Len(spk.pushed) + Len(c)
      /\ Len(r) <= RingCapacity /\ EndOf(r, ps)
  <2>1. ps \in Samples /\ Len(ps) = Len(spk.pushed) + Len(c)
    BY <1>4, <1>5, <1>7, Glued
  <2> QED
    BY <1>3, <1>4, <1>5, <1>6, <1>7, <1>8, <2>1, SliceIsEnd
<1>10. Len(c) \in Nat /\ Len(ps) >= Len(spk.pushed)
  BY <1>5, <1>7, <1>9 DEF Samples
<1>11. spk' = [spk EXCEPT !.pending = p, !.pushed = ps, !.ring = r]
  BY <1>1, <1>2, <1>3, <1>4 DEF play_chunk
<1>12. /\ spk' \in Playing /\ spk'.made = spk.made /\ spk'.frames = spk.frames /\ spk'.pending = p /\ spk'.pushed = ps
       /\ spk'.ring = r /\ spk'.primed = spk.primed /\ spk'.played = spk.played
  BY <1>7, <1>9, <1>11 DEF PlaybackInv, Playing
<1>13. PlaybackFits(spk.played, r, p, spk.frames, ps, spk.made, spk.primed)
  <2>1. /\ Precede(ToSet(spk.played), ToSet(r) \cup ToSet(p) \cup SamplesOf(spk.frames))
        /\ Precede(ToSet(r), ToSet(p) \cup SamplesOf(spk.frames))
        /\ Precede(ToSet(p), SamplesOf(spk.frames))
    BY <1>7, <1>9 DEF PlaybackInv, PlaybackFits, Precede
  <2>2. ToSet(spk.played) \cup ToSet(r) \cup ToSet(p) \cup SamplesOf(spk.frames) \subseteq 1..spk.made
    BY <1>7, <1>9 DEF PlaybackInv, PlaybackFits
  <2>3. spk.primed => Len(ps) >= Prefill
    BY <1>5, <1>9, <1>10, AudioSizes DEF PlaybackInv, PlaybackFits
  <2> QED
    BY <1>7, <1>9, <2>1, <2>2, <2>3 DEF PlaybackInv, PlaybackFits
<1> QED
  BY <1>12, <1>13 DEF PlaybackInv

\* A failed resampling drops what the worker holds.
LEMMA PlaybackFailsFits ==
    ASSUME PlaybackInv, playback_fails
    PROVE  PlaybackInv'
<1>1. PICK e : e = <<>>
  OBVIOUS
<1>2. e \in Samples /\ ToSet(e) = {} /\ Increasing(e)
  BY <1>1, Silence
<1>3. spk' = [spk EXCEPT !.pending = e]
  BY <1>1 DEF playback_fails
<1>4. /\ spk' \in Playing /\ spk'.made = spk.made /\ spk'.frames = spk.frames /\ spk'.pending = e /\ spk'.pushed = spk.pushed
      /\ spk'.ring = spk.ring /\ spk'.primed = spk.primed /\ spk'.played = spk.played
  BY <1>2, <1>3 DEF PlaybackInv, Playing
<1>5. PlaybackFits(spk.played, spk.ring, e, spk.frames, spk.pushed, spk.made, spk.primed)
  BY <1>2 DEF PlaybackInv, PlaybackFits, Precede
<1> QED
  BY <1>4, <1>5 DEF PlaybackInv

\* The device takes what it plays from the front of the ring.
LEMMA PlayBlockFits ==
    ASSUME PlaybackInv, NEW k \in BlockSizes, play_block(k)
    PROVE  PlaybackInv'
<1>1. CASE ~spk.primed /\ Len(spk.ring) < Prefill
  BY <1>1 DEF play_block, PlaybackInv
<1>2. CASE ~(~spk.primed /\ Len(spk.ring) < Prefill)
  <2>1. spk.ring \in Samples /\ spk.played \in Samples /\ spk.pushed \in Samples /\ Len(spk.ring) \in Nat /\ Len(spk.pushed) \in Nat
    BY DEF PlaybackInv, Playing, Samples
  <2>20. PICK n : n = IF k <= Len(spk.ring) THEN k ELSE Len(spk.ring)
    OBVIOUS
  <2>2. n \in 0..Len(spk.ring)
    BY <2>1, <2>20, AudioSizes
  <2>3. PICK out : out = SubSeq(spk.ring, 1, n)
    OBVIOUS
  <2>4. PICK r : r = SubSeq(spk.ring, n + 1, Len(spk.ring))
    OBVIOUS
  <2>5. PICK pl : pl = spk.played \o out
    OBVIOUS
  <2>6. spk' = [spk EXCEPT !.primed = TRUE, !.played = pl, !.ring = r]
    BY <1>2, <2>20, <2>3, <2>4, <2>5 DEF play_block
  <2>7. /\ Increasing(spk.ring) /\ Increasing(spk.played) /\ Precede(ToSet(spk.played), ToSet(spk.ring))
        /\ Len(spk.ring) <= RingCapacity /\ EndOf(spk.ring, spk.pushed)
    BY DEF PlaybackInv, PlaybackFits, Precede
  <2>8. /\ out \in Samples /\ r \in Samples /\ Len(r) = Len(spk.ring) - n /\ ToSet(spk.ring) = ToSet(out) \cup ToSet(r)
        /\ Increasing(out) /\ Increasing(r) /\ Precede(ToSet(out), ToSet(r))
    BY <2>1, <2>2, <2>3, <2>4, <2>7, CutAt
  <2>9. pl \in Samples /\ ToSet(pl) = ToSet(spk.played) \cup ToSet(out) /\ Increasing(pl)
    <3>1. Precede(ToSet(spk.played), ToSet(out))
      BY <2>7, <2>8 DEF Precede
    <3> QED
      BY <2>1, <2>5, <2>7, <2>8, <3>1, Glued
  <2>10. /\ spk' \in Playing /\ spk'.made = spk.made /\ spk'.frames = spk.frames /\ spk'.pending = spk.pending
         /\ spk'.pushed = spk.pushed /\ spk'.ring = r /\ spk'.primed = TRUE /\ spk'.played = pl
    BY <2>6, <2>8, <2>9 DEF PlaybackInv, Playing
  <2>11. Len(spk.ring) <= Len(spk.pushed) /\ \A i \in 1..Len(spk.ring) : spk.ring[i] = spk.pushed[Len(spk.pushed) - Len(spk.ring) + i]
    BY <2>7 DEF EndOf
  <2>12. EndOf(r, spk.pushed) /\ Len(r) <= RingCapacity
    <3>0. Len(r) = Len(spk.ring) - n /\ Len(r) \in Nat /\ Len(spk.ring) <= Len(spk.pushed) /\ Len(spk.ring) <= RingCapacity
      BY <2>1, <2>2, <2>7, <2>8, <2>11 DEF Samples
    <3>1. \A i \in 1..Len(spk.ring) - n : r[i] = spk.ring[n + i]
      BY <2>1, <2>2, <2>4, CutAt
    <3>2. ASSUME NEW i \in 1..Len(r) PROVE r[i] = spk.pushed[Len(spk.pushed) - Len(r) + i]
      <4>0. /\ Len(spk.ring) \in Nat /\ Len(spk.pushed) \in Nat /\ n \in 0..Len(spk.ring)
            /\ Len(r) = Len(spk.ring) - n /\ i \in 1..Len(spk.ring) - n
        BY <2>1, <2>2, <3>0, <3>2
      <4>1. n + i \in 1..Len(spk.ring) /\ Len(spk.pushed) - Len(spk.ring) + (n + i) = Len(spk.pushed) - Len(r) + i
        <5>1. \A l, p \in Nat : \A m \in 0..l : \A j \in 1..l - m : m + j \in 1..l /\ p - l + (m + j) = p - (l - m) + j
          OBVIOUS
        <5> QED
          BY <4>0, <5>1
      <4>2. r[i] = spk.ring[n + i]
        BY <3>0, <3>1, <3>2
      <4> QED
        BY <2>11, <4>1, <4>2
    <3>4. Len(r) <= Len(spk.pushed) /\ Len(r) <= RingCapacity
      BY <2>1, <2>2, <3>0, AudioSizes
    <3> QED
      BY <3>2, <3>4 DEF EndOf
  <2>13. Len(spk.pushed) >= Prefill
    BY <1>2, <2>1, <2>11, AudioSizes DEF PlaybackInv, PlaybackFits
  <2>14. PlaybackFits(pl, r, spk.pending, spk.frames, spk.pushed, spk.made, TRUE)
    <3>1. /\ Precede(ToSet(pl), ToSet(r) \cup ToSet(spk.pending) \cup SamplesOf(spk.frames))
          /\ Precede(ToSet(r), ToSet(spk.pending) \cup SamplesOf(spk.frames))
          /\ Precede(ToSet(spk.pending), SamplesOf(spk.frames))
      BY <2>8, <2>9 DEF PlaybackInv, PlaybackFits, Precede
    <3>2. ToSet(pl) \cup ToSet(r) \cup ToSet(spk.pending) \cup SamplesOf(spk.frames) \subseteq 1..spk.made
      BY <2>8, <2>9 DEF PlaybackInv, PlaybackFits
    <3> QED
      BY <2>8, <2>9, <2>12, <2>13, <3>1, <3>2 DEF PlaybackInv, PlaybackFits
  <2> QED
    BY <2>10, <2>14 DEF PlaybackInv
<1> QED
  BY <1>1, <1>2

-----------------------------------------------------------------------------
\* Each direction leaves the other alone.
LEMMA AudioStep ==
    ASSUME CaptureInv, PlaybackInv, [AudioNext]_audioVars
    PROVE  CaptureInv' /\ PlaybackInv'
<1>1. CASE UNCHANGED audioVars
  <2>1. mic' = mic /\ spk' = spk /\ dropped' = dropped
    BY <1>1 DEF audioVars
  <2> QED
    BY <2>1 DEF CaptureInv, PlaybackInv
<1>2. ASSUME Capture PROVE CaptureInv' /\ PlaybackInv'
  <2>1. spk' = spk
    BY <1>2 DEF Capture, capture_block, run_capture, push_chunk, capture_fails, engine_takes
  <2>2. CaptureInv'
    BY <1>2, CaptureBlockFits, RunCaptureFits, PushChunkFits, CaptureFailsFits, EngineTakesFits DEF Capture
  <2> QED
    BY <2>1, <2>2 DEF PlaybackInv
<1>3. ASSUME Playback PROVE CaptureInv' /\ PlaybackInv'
  <2>1. mic' = mic /\ dropped' = dropped
    BY <1>3 DEF Playback, engine_plays, run_playback, play_chunk, playback_fails, play_block
  <2>2. PlaybackInv'
    BY <1>3, EnginePlaysFits, RunPlaybackFits, PlayChunkFits, PlaybackFailsFits, PlayBlockFits DEF Playback
  <2> QED
    BY <2>1, <2>2 DEF CaptureInv
<1> QED
  BY <1>1, <1>2, <1>3 DEF AudioNext

\* Whatever the devices, channels and resamplers do, samples reach the engine and the speaker once and in order, in whole
\* frames, those that are missing were dropped at a full channel or by a failed resampling, and the ring holds the
\* newest (run_capture, run_playback, PcmRing).
THEOREM AudioHolds == AudioSpec => []AudioKeepsOrder
<1>1. AudioInit => CaptureInv /\ PlaybackInv
  BY CaptureStart, PlaybackStart
<1>2. CaptureInv /\ PlaybackInv /\ [AudioNext]_audioVars => (CaptureInv /\ PlaybackInv)'
  BY AudioStep
<1>3. CaptureInv /\ PlaybackInv => AudioKeepsOrder
  <2> SUFFICES ASSUME CaptureInv, PlaybackInv PROVE AudioKeepsOrder
    OBVIOUS
  <2>1. MicKeepsOrder /\ MicFramesWhole
    BY CaptureKeepsOrder
  <2>2. RingHoldsNewest
    BY EndOfIsTheEnd DEF PlaybackInv, PlaybackFits, Playing, RingHoldsNewest
  <2>3. Increasing(spk.played \o spk.ring)
    <3>1. spk.played \in Samples /\ spk.ring \in Samples
      BY DEF PlaybackInv, Playing
    <3>2. Increasing(spk.played) /\ Increasing(spk.ring) /\ Precede(ToSet(spk.played), ToSet(spk.ring))
      BY DEF PlaybackInv, PlaybackFits, Precede
    <3> QED
      BY <3>1, <3>2, Glued
  <2>4. spk.played # <<>> => Len(spk.pushed) >= Prefill
    BY DEF PlaybackInv, PlaybackFits
  <2> QED
    BY <2>1, <2>2, <2>3, <2>4 DEF PlayedInOrder, AudioKeepsOrder
<1> QED
  BY <1>1, <1>2, <1>3, PTL DEF AudioSpec

-----------------------------------------------------------------------------
(***************************************************************************)
(* Link and file delivery (UiDelivery): a batch reaches the page once.     *)
(***************************************************************************)

Pages == [overlay : {"unmounted", "asked", "listening", "called"}, bridge : {"asked", "listening"}, called : BOOLEAN,
          fileAnswer : Seq(Batches), linkAnswer : Links \cup {NoLink}, fileEvents : Seq(Batches), linkEvents : Seq(Links)]

\* Batches that wait somewhere: each once, opened, and taken by nobody yet.
Waits(batches, done, seen) ==
    /\ batches \in Seq(Batches)
    /\ \A i, j \in 1..Len(batches) : batches[i] = batches[j] => i = j
    /\ \A i \in 1..Len(batches) : batches[i] \in seen /\ done[batches[i]] = 0
Apart(s, t) == \A i \in 1..Len(s), j \in 1..Len(t) : s[i] # t[j]

DeliveryTyped ==
    /\ page \in Pages
    /\ fileHost \in [ready : BOOLEAN, pending : Seq(Batches)]
    /\ linkHost \in [ready : BOOLEAN, pending : Links \cup {NoLink}]
    /\ handled \in [Batches -> Nat]

\* The inductive invariant of FilesOnce: a batch waits in the buffer, in the answer, or in an event, in one of them at most.
BatchesFit(pending, answer, events, done, seen) ==
    /\ Waits(pending, done, seen) /\ Waits(answer, done, seen) /\ Waits(events, done, seen)
    /\ Apart(pending, answer) /\ Apart(pending, events) /\ Apart(answer, events)
    /\ \A b \in Batches : done[b] <= 1 /\ (b \notin seen => done[b] = 0)
DeliveryInv ==
    DeliveryTyped /\ BatchesFit(fileHost.pending, page.fileAnswer, page.fileEvents, handled, opened)

\* Nothing waits in an empty sequence.
LEMMA NoneWait ==
    ASSUME NEW done, NEW seen
    PROVE  Waits(<<>>, done, seen) /\ \A s : Apart(<<>>, s) /\ Apart(s, <<>>)
<1>1. PICK e : e = <<>>
  OBVIOUS
<1>2. e \in Seq(Batches) /\ Len(e) = 0 /\ 1..Len(e) = {}
  BY <1>1
<1>3. Waits(e, done, seen) /\ \A s : Apart(e, s) /\ Apart(s, e)
  BY <1>2 DEF Waits, Apart
<1> QED
  BY <1>1, <1>3

\* A batch that is new may wait behind others.
LEMMA OneMoreWaits ==
    ASSUME NEW s \in Seq(Batches), NEW b \in Batches, NEW done, NEW seen, Waits(s, done, seen), b \notin seen, done[b] = 0
    PROVE  /\ Waits(Append(s, b), done, seen \cup {b})
           /\ \A t : Waits(t, done, seen) => /\ Waits(t, done, seen \cup {b})
                                             /\ Apart(s, t) => Apart(Append(s, b), t)
                                             /\ Apart(t, s) => Apart(t, Append(s, b))
<1>1. PICK q : q = Append(s, b)
  OBVIOUS
<1>2. q \in Seq(Batches) /\ Len(q) = Len(s) + 1 /\ Len(s) \in Nat /\ q[Len(s) + 1] = b /\ \A i \in 1..Len(s) : q[i] = s[i]
  BY <1>1
<1>3. \A i \in 1..Len(q) : (i \in 1..Len(s) /\ q[i] = s[i]) \/ (i = Len(s) + 1 /\ q[i] = b)
  BY <1>2
<1>4. \A i \in 1..Len(s) : s[i] # b
  BY DEF Waits
<1>5. Waits(q, done, seen \cup {b})
  <2>1. ASSUME NEW i \in 1..Len(q), NEW j \in 1..Len(q), q[i] = q[j] PROVE i = j
    <3>1. (i \in 1..Len(s) /\ j \in 1..Len(s)) \/ (i = Len(s) + 1 /\ j = Len(s) + 1)
      BY <1>3, <1>4, <2>1
    <3>2. CASE i \in 1..Len(s) /\ j \in 1..Len(s)
      BY <1>2, <2>1, <3>2 DEF Waits
    <3> QED
      BY <3>1, <3>2
  <2>2. \A i \in 1..Len(q) : q[i] \in seen \cup {b} /\ done[q[i]] = 0
    BY <1>3 DEF Waits
  <2> QED
    BY <1>2, <2>1, <2>2 DEF Waits
<1>6. ASSUME NEW t, Waits(t, done, seen)
      PROVE  /\ Waits(t, done, seen \cup {b})
             /\ Apart(s, t) => Apart(q, t)
             /\ Apart(t, s) => Apart(t, q)
  <2>1. \A i \in 1..Len(t) : t[i] # b
    BY <1>6 DEF Waits
  <2> QED
    BY <1>3, <1>6, <2>1 DEF Waits, Apart
<1> QED
  BY <1>1, <1>5, <1>6

\* What the page takes has waited, each batch once.
LEMMA TakenOnce ==
    ASSUME DeliveryTyped, NEW s \in Seq(Batches), Waits(s, handled, opened), handlePaths(s),
           \A b \in Batches : handled[b] <= 1 /\ (b \notin opened => handled[b] = 0)
    PROVE  /\ handled' \in [Batches -> Nat]
           /\ \A b \in Batches : handled'[b] <= 1 /\ (b \notin opened => handled'[b] = 0)
           /\ \A t : Waits(t, handled, opened) /\ (Apart(s, t) \/ Apart(t, s)) => Waits(t, handled', opened)
<1>1. ASSUME NEW b \in Batches, \A i \in 1..Len(s) : s[i] # b PROVE handled'[b] = handled[b]
  <2>1. {i \in 1..Len(s) : s[i] = b} = {}
    BY <1>1
  <2>2. handled'[b] = handled[b] + Cardinality({})
    BY <2>1 DEF handlePaths
  <2> QED
    BY <2>2, FS_EmptySet DEF DeliveryTyped
<1>2. ASSUME NEW k \in 1..Len(s) PROVE handled'[s[k]] = 1 /\ s[k] \in opened
  <2>1. {i \in 1..Len(s) : s[i] = s[k]} = {k} /\ s[k] \in Batches /\ handled[s[k]] = 0 /\ s[k] \in opened
    BY DEF Waits
  <2>2. handled'[s[k]] = 0 + Cardinality({k})
    BY <2>1 DEF handlePaths
  <2>3. Cardinality({k}) = 1
    BY FS_Singleton
  <2> QED
    BY <2>1, <2>2, <2>3
<1>3. \A b \in Batches : handled'[b] = handled[b] \/ (handled'[b] = 1 /\ b \in opened)
  BY <1>1, <1>2
<1>4. handled' \in [Batches -> Nat]
  <2>1. handled' = [b \in Batches |-> handled'[b]]
    BY DEF handlePaths
  <2>2. \A b \in Batches : handled'[b] \in Nat
    <3>1. \A b \in Batches : handled[b] \in Nat
      BY DEF DeliveryTyped
    <3> QED
      BY <1>3, <3>1
  <2> QED
    BY <2>1, <2>2
<1>5. ASSUME NEW t, Waits(t, handled, opened), Apart(s, t) \/ Apart(t, s) PROVE Waits(t, handled', opened)
  <2>1. ASSUME NEW i \in 1..Len(t) PROVE handled'[t[i]] = 0 /\ t[i] \in opened
    <3>1. t[i] \in Batches /\ handled[t[i]] = 0 /\ t[i] \in opened
      BY <1>5, <2>1 DEF Waits
    <3>2. \A j \in 1..Len(s) : s[j] # t[i]
      BY <1>5, <2>1 DEF Apart
    <3> QED
      BY <1>1, <3>1, <3>2
  <2> QED
    BY <1>5, <2>1 DEF Waits
<1> QED
  BY <1>3, <1>4, <1>5

\* The system opens a batch.
LEMMA OpenFits ==
    ASSUME DeliveryInv, NEW b \in Batches, open_files(b)
    PROVE  DeliveryInv'
<1>1. b \notin opened /\ opened' = opened \cup {b} /\ handled' = handled /\ linkHost' = linkHost /\ handled[b] = 0
  BY DEF open_files, DeliveryInv, BatchesFit
<1>2. /\ Waits(fileHost.pending, handled, opened) /\ Waits(page.fileAnswer, handled, opened) /\ Waits(page.fileEvents, handled, opened)
      /\ Apart(fileHost.pending, page.fileAnswer) /\ Apart(fileHost.pending, page.fileEvents) /\ Apart(page.fileAnswer, page.fileEvents)
      /\ fileHost.pending \in Seq(Batches) /\ page.fileEvents \in Seq(Batches)
      /\ \A c \in Batches : handled[c] <= 1 /\ (c \notin opened => handled[c] = 0)
  BY DEF DeliveryInv, BatchesFit, Waits
<1>3. /\ Waits(fileHost.pending, handled, opened \cup {b}) /\ Waits(page.fileAnswer, handled, opened \cup {b})
      /\ Waits(page.fileEvents, handled, opened \cup {b})
  BY <1>1, <1>2, OneMoreWaits
<1>4. CASE fileHost.ready /\ page.overlay \in {"listening", "called"}
  <2>1. PICK e : e = Append(page.fileEvents, b)
    OBVIOUS
  <2>2. page' = [page EXCEPT !.fileEvents = e] /\ fileHost' = fileHost
    BY <1>4, <2>1 DEF open_files
  <2>3. Waits(e, handled, opened \cup {b}) /\ Apart(fileHost.pending, e) /\ Apart(page.fileAnswer, e)
    BY <1>1, <1>2, <2>1, OneMoreWaits
  <2>4. page' \in Pages /\ page'.fileEvents = e /\ page'.fileAnswer = page.fileAnswer
    BY <2>2, <2>3 DEF DeliveryInv, DeliveryTyped, Pages, Waits
  <2> QED
    BY <1>1, <1>2, <1>3, <2>2, <2>3, <2>4 DEF DeliveryInv, DeliveryTyped, BatchesFit
<1>5. CASE fileHost.ready /\ ~(page.overlay \in {"listening", "called"})
  <2>1. page' = page /\ fileHost' = fileHost
    BY <1>5 DEF open_files
  <2> QED
    BY <1>1, <1>2, <1>3, <2>1 DEF DeliveryInv, DeliveryTyped, BatchesFit
<1>6. CASE ~fileHost.ready
  <2>1. PICK p : p = Append(fileHost.pending, b)
    OBVIOUS
  <2>2. fileHost' = [fileHost EXCEPT !.pending = p] /\ page' = page
    BY <1>6, <2>1 DEF open_files
  <2>3. Waits(p, handled, opened \cup {b}) /\ Apart(p, page.fileAnswer) /\ Apart(p, page.fileEvents)
    BY <1>1, <1>2, <2>1, OneMoreWaits
  <2>4. fileHost' \in [ready : BOOLEAN, pending : Seq(Batches)] /\ fileHost'.pending = p
    BY <2>2, <2>3 DEF DeliveryInv, DeliveryTyped, Waits
  <2> QED
    BY <1>1, <1>2, <1>3, <2>2, <2>3, <2>4 DEF DeliveryInv, DeliveryTyped, BatchesFit
<1> QED
  BY <1>4, <1>5, <1>6

\* The page takes what was buffered, or the oldest event.
LEMMA TakeFits ==
    ASSUME DeliveryInv, take_buffered \/ take_files
    PROVE  DeliveryInv'
<1>1. fileHost' = fileHost /\ linkHost' = linkHost /\ opened' = opened
  BY DEF take_buffered, take_files, KeepsLinks
<1>2. /\ Waits(fileHost.pending, handled, opened) /\ Waits(page.fileAnswer, handled, opened) /\ Waits(page.fileEvents, handled, opened)
      /\ Apart(fileHost.pending, page.fileAnswer) /\ Apart(fileHost.pending, page.fileEvents) /\ Apart(page.fileAnswer, page.fileEvents)
      /\ page.fileAnswer \in Seq(Batches) /\ page.fileEvents \in Seq(Batches)
      /\ \A b \in Batches : handled[b] <= 1 /\ (b \notin opened => handled[b] = 0)
  BY DEF DeliveryInv, BatchesFit, Waits
<1>3. CASE take_buffered
  <2>1. PICK e : e = <<>>
    OBVIOUS
  <2>2. page' = [page EXCEPT !.fileAnswer = e] /\ handlePaths(page.fileAnswer)
    BY <1>3, <2>1 DEF take_buffered
  <2>3. e \in Seq(Batches)
    BY <2>1
  <2>4. page' \in Pages /\ page'.fileAnswer = e /\ page'.fileEvents = page.fileEvents
    BY <2>2, <2>3 DEF DeliveryInv, DeliveryTyped, Pages
  <2>5. /\ handled' \in [Batches -> Nat] /\ \A b \in Batches : handled'[b] <= 1 /\ (b \notin opened => handled'[b] = 0)
        /\ Waits(fileHost.pending, handled', opened) /\ Waits(page.fileEvents, handled', opened)
    BY <1>2, <2>2, TakenOnce DEF DeliveryInv
  <2>6. Waits(e, handled', opened) /\ Apart(fileHost.pending, e) /\ Apart(e, page.fileEvents)
    BY <2>1, NoneWait
  <2> QED
    BY <1>1, <1>2, <2>4, <2>5, <2>6 DEF DeliveryInv, DeliveryTyped, BatchesFit
<1>4. CASE take_files
  <2>1. PICK h : h = <<Head(page.fileEvents)>>
    OBVIOUS
  <2>2. PICK r : r = Tail(page.fileEvents)
    OBVIOUS
  <2>3. page' = [page EXCEPT !.fileEvents = r] /\ handlePaths(h) /\ page.fileEvents # <<>>
    BY <1>4, <2>1, <2>2 DEF take_files
  <2>4. /\ h \in Seq(Batches) /\ Len(h) = 1 /\ h[1] = page.fileEvents[1] /\ r \in Seq(Batches) /\ Len(page.fileEvents) \in Nat
        /\ Len(r) = Len(page.fileEvents) - 1 /\ 1 \in 1..Len(page.fileEvents)
        /\ \A i \in 1..Len(r) : r[i] = page.fileEvents[i + 1] /\ i + 1 \in 1..Len(page.fileEvents) /\ i + 1 # 1
    BY <1>2, <2>1, <2>2, <2>3
  <2>5. Waits(h, handled, opened) /\ Waits(r, handled, opened)
    <3>1. \A i \in 1..Len(h) : i = 1
      BY <2>4
    <3>2. \A i, j \in 1..Len(r) : r[i] = r[j] => i = j
      <4> SUFFICES ASSUME NEW i \in 1..Len(r), NEW j \in 1..Len(r), r[i] = r[j] PROVE i = j
        OBVIOUS
      <4>1. i + 1 = j + 1
        BY <1>2, <2>4 DEF Waits
      <4> QED
        BY <4>1
    <3>3. Waits(h, handled, opened)
      <4>1. \A i \in 1..Len(h) : h[i] \in opened /\ handled[h[i]] = 0
        BY <1>2, <2>4, <3>1 DEF Waits
      <4> QED
        BY <2>4, <3>1, <4>1 DEF Waits
    <3>4. Waits(r, handled, opened)
      <4>1. \A i \in 1..Len(r) : r[i] \in opened /\ handled[r[i]] = 0
        <5>1. \A j \in 1..Len(page.fileEvents) : page.fileEvents[j] \in opened /\ handled[page.fileEvents[j]] = 0
          BY <1>2 DEF Waits
        <5>2. \A i \in 1..Len(r) : i + 1 \in 1..Len(page.fileEvents) /\ r[i] = page.fileEvents[i + 1]
          BY <2>4
        <5> QED
          BY <5>1, <5>2
      <4> QED
        BY <2>4, <3>2, <4>1 DEF Waits
    <3> QED
      BY <3>3, <3>4
  <2>6. /\ Apart(h, r) /\ Apart(fileHost.pending, h) /\ Apart(fileHost.pending, r) /\ Apart(page.fileAnswer, h)
        /\ Apart(page.fileAnswer, r)
    <3>1. \A i \in 1..Len(h) : i = 1
      BY <2>4
    <3>2. Apart(h, r)
      BY <1>2, <2>4, <3>1 DEF Waits, Apart
    <3> QED
      BY <1>2, <2>4, <3>1, <3>2 DEF Apart
  <2>7. /\ handled' \in [Batches -> Nat] /\ \A b \in Batches : handled'[b] <= 1 /\ (b \notin opened => handled'[b] = 0)
        /\ Waits(fileHost.pending, handled', opened) /\ Waits(page.fileAnswer, handled', opened) /\ Waits(r, handled', opened)
    BY <1>2, <2>3, <2>4, <2>5, <2>6, TakenOnce DEF DeliveryInv
  <2>8. page' \in Pages /\ page'.fileEvents = r /\ page'.fileAnswer = page.fileAnswer
    BY <2>3, <2>4 DEF DeliveryInv, DeliveryTyped, Pages
  <2> QED
    BY <1>1, <1>2, <2>6, <2>7, <2>8 DEF DeliveryInv, DeliveryTyped, BatchesFit
<1> QED
  BY <1>3, <1>4

\* The ready call moves the buffer into its answer.
LEMMA ReadyFits ==
    ASSUME DeliveryInv, file_open_ready
    PROVE  DeliveryInv'
<1>1. PICK e : e = <<>>
  OBVIOUS
<1>2. /\ page' = [page EXCEPT !.overlay = "called", !.fileAnswer = fileHost.pending] /\ fileHost' = [ready |-> TRUE, pending |-> e]
      /\ handled' = handled /\ linkHost' = linkHost /\ opened' = opened
  BY <1>1 DEF file_open_ready, KeepsLinks
<1>3. e \in Seq(Batches) /\ Waits(e, handled, opened) /\ \A s : Apart(e, s)
  BY <1>1, NoneWait
<1>4. /\ page' \in Pages /\ page'.fileAnswer = fileHost.pending /\ page'.fileEvents = page.fileEvents
      /\ fileHost' \in [ready : BOOLEAN, pending : Seq(Batches)] /\ fileHost'.pending = e
  BY <1>2, <1>3 DEF DeliveryInv, DeliveryTyped, Pages
<1> QED
  BY <1>2, <1>3, <1>4 DEF DeliveryInv, DeliveryTyped, BatchesFit

\* Steps of the listeners and of links leave files alone, a reload forgets them.
LEMMA OthersFit ==
    ASSUME DeliveryInv,
           \/ mount_overlay \/ overlay_listens \/ bridge_listens \/ deep_link_ready \/ follow_buffered \/ follow_link \/ reload
           \/ \E l \in Links : deliver(l)
    PROVE  DeliveryInv'
<1>1. CASE mount_overlay \/ overlay_listens \/ bridge_listens \/ deep_link_ready \/ follow_buffered \/ follow_link
  <2>1. fileHost' = fileHost /\ handled' = handled /\ opened' = opened
    BY <1>1 DEF mount_overlay, overlay_listens, bridge_listens, deep_link_ready, follow_buffered, follow_link, KeepsLinks, KeepsFiles
  <2>2. page' \in Pages /\ page'.fileAnswer = page.fileAnswer /\ page'.fileEvents = page.fileEvents
    <3>1. CASE mount_overlay \/ overlay_listens \/ bridge_listens
      BY <3>1 DEF mount_overlay, overlay_listens, bridge_listens, DeliveryInv, DeliveryTyped, Pages
    <3>2. CASE deep_link_ready \/ follow_buffered
      BY <3>2 DEF deep_link_ready, follow_buffered, DeliveryInv, DeliveryTyped, Pages
    <3>3. CASE follow_link
      <4>1. PICK r : r = Tail(page.linkEvents)
        OBVIOUS
      <4>2. page' = [page EXCEPT !.linkEvents = r] /\ page.linkEvents # <<>>
        BY <3>3, <4>1 DEF follow_link
      <4>3. r \in Seq(Links)
        <5>1. page.linkEvents \in Seq(Links)
          BY DEF DeliveryInv, DeliveryTyped, Pages
        <5> QED
          BY <4>1, <4>2, <5>1
      <4> QED
        BY <4>2, <4>3 DEF DeliveryInv, DeliveryTyped, Pages
    <3> QED
      BY <1>1, <3>1, <3>2, <3>3
  <2>3. linkHost' \in [ready : BOOLEAN, pending : Links \cup {NoLink}]
    <3>1. linkHost' = linkHost \/ linkHost' = [ready |-> TRUE, pending |-> NoLink]
      BY <1>1 DEF mount_overlay, overlay_listens, bridge_listens, deep_link_ready, follow_buffered, follow_link, KeepsLinks
    <3>2. [ready |-> TRUE, pending |-> NoLink] \in [ready : BOOLEAN, pending : Links \cup {NoLink}]
      OBVIOUS
    <3> QED
      BY <3>1, <3>2 DEF DeliveryInv, DeliveryTyped
  <2> QED
    BY <2>1, <2>2, <2>3 DEF DeliveryInv, DeliveryTyped
<1>2. CASE reload
  <2>1. PICK e : e = <<>>
    OBVIOUS
  <2>2. page' \in Pages /\ page'.fileAnswer = e /\ page'.fileEvents = e
    BY <1>2, <2>1 DEF reload, NewPage, Pages
  <2>3. Waits(e, handled, opened) /\ \A s : Apart(s, e)
    BY <2>1, NoneWait
  <2>4. fileHost' = fileHost /\ linkHost' = linkHost /\ handled' = handled /\ opened' = opened
    BY <1>2 DEF reload
  <2> QED
    BY <2>2, <2>3, <2>4 DEF DeliveryInv, DeliveryTyped, BatchesFit
<1>3. ASSUME NEW l \in Links, deliver(l) PROVE DeliveryInv'
  <2>1. fileHost' = fileHost /\ handled' = handled /\ opened' = opened \cup {l}
    BY <1>3 DEF deliver
  <2>2. page' \in Pages /\ page'.fileAnswer = page.fileAnswer /\ page'.fileEvents = page.fileEvents
    <3>1. PICK e : e = Append(page.linkEvents, l)
      OBVIOUS
    <3>2. page.linkEvents \in Seq(Links)
      BY DEF DeliveryInv, DeliveryTyped, Pages
    <3>3. e \in Seq(Links) /\ (page' = [page EXCEPT !.linkEvents = e] \/ page' = page)
      BY <1>3, <3>1, <3>2 DEF deliver
    <3> QED
      BY <3>3 DEF DeliveryInv, DeliveryTyped, Pages
  <2>3. linkHost' \in [ready : BOOLEAN, pending : Links \cup {NoLink}]
    <3>1. linkHost' = linkHost \/ linkHost' = [linkHost EXCEPT !.pending = l]
      BY <1>3 DEF deliver
    <3> QED
      BY <3>1 DEF DeliveryInv, DeliveryTyped
  <2>4. \A s : Waits(s, handled, opened) => Waits(s, handled, opened \cup {l})
    BY DEF Waits
  <2> QED
    BY <2>1, <2>2, <2>3, <2>4 DEF DeliveryInv, DeliveryTyped, BatchesFit
<1> QED
  BY <1>1, <1>2, <1>3

LEMMA DeliveryStart ==
    ASSUME DeliveryInit
    PROVE  DeliveryInv
<1>1. PICK e : e = <<>>
  OBVIOUS
<1>2. /\ page \in Pages /\ page.fileAnswer = e /\ page.fileEvents = e
      /\ fileHost \in [ready : BOOLEAN, pending : Seq(Batches)] /\ fileHost.pending = e
      /\ linkHost \in [ready : BOOLEAN, pending : Links \cup {NoLink}]
      /\ handled \in [Batches -> Nat] /\ \A b \in Batches : handled[b] = 0
  BY <1>1 DEF DeliveryInit, NewPage, Pages
<1>3. Waits(e, handled, opened) /\ Apart(e, e)
  BY <1>1, NoneWait
<1> QED
  BY <1>2, <1>3 DEF DeliveryInv, DeliveryTyped, BatchesFit

LEMMA DeliveryStep ==
    ASSUME DeliveryInv, [DeliveryNext]_deliveryVars
    PROVE  DeliveryInv'
<1>1. CASE UNCHANGED deliveryVars
  <2>1. page' = page /\ fileHost' = fileHost /\ linkHost' = linkHost /\ handled' = handled /\ opened' = opened
    BY <1>1 DEF deliveryVars
  <2> QED
    BY <2>1 DEF DeliveryInv, DeliveryTyped
<1>2. CASE DeliveryNext
  BY <1>2, OpenFits, TakeFits, ReadyFits, OthersFit DEF DeliveryNext, PageStep
<1> QED
  BY <1>1, <1>2

\* However the system's events, the ready call, its answer and reloads cross, the page takes a batch of files at most once,
\* and none that was not opened (file_open.rs, DropOverlay.tsx).
THEOREM FilesHold == DeliverySpec => []FilesOnce
<1>1. DeliveryInv => FilesOnce
  BY DEF DeliveryInv, DeliveryTyped, BatchesFit, FilesOnce
<1> QED
  BY <1>1, DeliveryStart, DeliveryStep, PTL DEF DeliverySpec

\* The page has nothing on its way any more: the ready call was answered, and no event waits.
FilesQuiet == page.overlay = "called" /\ page.fileAnswer = <<>> /\ page.fileEvents = <<>>
LinksQuiet == page.called /\ page.linkAnswer = NoLink /\ page.linkEvents = <<>>

\* Whatever was opened has arrived then, if the page was not reloaded: each batch of files once; each link, unless a
\* newer one took its place in the buffer or it was emitted to a page that did not listen (what FilesArrive and
\* LinksArrive ask for in the end).
ArrivedWhenQuiet ==
    reloads = 0 =>
       /\ FilesQuiet => \A b \in Batches \cap opened : handled[b] = 1
       /\ LinksQuiet => \A l \in Links \cap opened : followed[l] > 0 \/ l \in lost \cup replaced

\* Its inductive invariant: nothing is dropped between the buffer, the answer, the events and the page; the ready flags
\* and the calls that set them go together.
Within(x, s) == \E i \in 1..Len(s) : s[i] = x
FileComes(b) ==
    handled[b] > 0 \/ Within(b, fileHost.pending) \/ Within(b, page.fileAnswer) \/ Within(b, page.fileEvents)
LinkComes(l) ==
    followed[l] > 0 \/ linkHost.pending = l \/ page.linkAnswer = l \/ Within(l, page.linkEvents) \/ l \in lost \cup replaced
FilesOnTheWay ==
    /\ fileHost.ready <=> page.overlay = "called"
    /\ fileHost.ready => fileHost.pending = <<>>
    /\ ~fileHost.ready => page.fileAnswer = <<>>
    /\ \A b \in Batches \cap opened : FileComes(b)
LinksOnTheWay ==
    /\ linkHost.ready <=> page.called
    /\ page.called => linkHost.pending = NoLink
    /\ ~page.called => page.linkAnswer = NoLink
    /\ \A l \in Links \cap opened : LinkComes(l)
WayInv ==
    /\ DeliveryInv
    /\ followed \in [Links -> Nat] /\ reloads \in Nat
    /\ reloads = 0 => FilesOnTheWay /\ LinksOnTheWay

\* What is appended is within, and so is what was; the rest behind the first is within the tail.
LEMMA WithinAppend ==
    ASSUME NEW T, NEW s \in Seq(T), NEW x \in T
    PROVE  \A y : Within(y, Append(s, x)) <=> y = x \/ Within(y, s)
<1>1. PICK q : q = Append(s, x)
  OBVIOUS
<1>2. Len(q) = Len(s) + 1 /\ Len(s) \in Nat /\ q[Len(s) + 1] = x /\ \A i \in 1..Len(s) : q[i] = s[i]
  BY <1>1
<1>3. ASSUME NEW y PROVE Within(y, q) <=> y = x \/ Within(y, s)
  <2>1. ASSUME NEW i \in 1..Len(q), q[i] = y PROVE y = x \/ Within(y, s)
    <3>1. i \in 1..Len(s) \/ i = Len(s) + 1
      BY <1>2
    <3> QED
      BY <1>2, <2>1, <3>1 DEF Within
  <2>2. Len(s) + 1 \in 1..Len(q) /\ \A i \in 1..Len(s) : i \in 1..Len(q)
    BY <1>2
  <2> QED
    BY <1>2, <2>1, <2>2 DEF Within
<1> QED
  BY <1>1, <1>3

LEMMA WithinTail ==
    ASSUME NEW T, NEW s \in Seq(T), s # <<>>
    PROVE  \A y : Within(y, s) => y = Head(s) \/ Within(y, Tail(s))
<1>1. PICK r : r = Tail(s)
  OBVIOUS
<1>2. Len(r) = Len(s) - 1 /\ Len(s) \in Nat /\ Head(s) = s[1] /\ \A i \in 1..Len(r) : r[i] = s[i + 1]
  BY <1>1
<1>3. ASSUME NEW y, NEW i \in 1..Len(s), s[i] = y PROVE y = Head(s) \/ Within(y, r)
  <2>1. CASE i = 1
    BY <1>2, <1>3, <2>1
  <2>2. CASE i # 1
    <3>1. i - 1 \in 1..Len(r) /\ (i - 1) + 1 = i
      BY <1>2, <2>2
    <3>2. r[i - 1] = y
      BY <1>2, <1>3, <3>1
    <3> QED
      BY <3>1, <3>2 DEF Within
  <2> QED
    BY <2>1, <2>2
<1> QED
  BY <1>1, <1>3 DEF Within

LEMMA WithinNone == \A y : ~Within(y, <<>>)
BY EmptySeq DEF Within

\* The page takes a batch: it has it from then on, and keeps what it had.
LEMMA TakenIsHandled ==
    ASSUME DeliveryTyped, NEW s \in Seq(Batches), handlePaths(s)
    PROVE  \A b \in Batches : handled'[b] >= handled[b] /\ (Within(b, s) => handled'[b] > 0)
<1>1. ASSUME NEW b \in Batches PROVE handled'[b] >= handled[b] /\ (Within(b, s) => handled'[b] > 0)
  <2>1. PICK hits : hits = {i \in 1..Len(s) : s[i] = b}
    OBVIOUS
  <2>2. IsFiniteSet(hits)
    <3>1. IsFiniteSet(1..Len(s)) /\ hits \subseteq 1..Len(s)
      BY <2>1, FS_Interval
    <3> QED
      BY <3>1, FS_Subset
  <2>3. Cardinality(hits) \in Nat /\ (Cardinality(hits) = 0 <=> hits = {})
    BY <2>2, FS_CardinalityType, FS_EmptySet
  <2>4. handled'[b] = handled[b] + Cardinality(hits) /\ handled[b] \in Nat
    BY <2>1 DEF handlePaths, DeliveryTyped
  <2>5. Within(b, s) => hits # {}
    BY <2>1 DEF Within
  <2> QED
    BY <2>3, <2>4, <2>5
<1> QED
  BY <1>1

\* What a step changes of files: nothing, or one of the four.
LEMMA FilesUntouched ==
    ASSUME Batches \cap Links = {}, WayInv, FilesOnTheWay,
           \/ mount_overlay \/ overlay_listens \/ bridge_listens \/ deep_link_ready \/ follow_buffered \/ follow_link
           \/ \E l \in Links : deliver(l)
    PROVE  FilesOnTheWay'
<1>0. page \in Pages
  BY DEF WayInv, DeliveryInv, DeliveryTyped
<1>1. /\ fileHost' = fileHost /\ handled' = handled
      /\ \A b \in Batches : b \in opened' => b \in opened
  BY DEF mount_overlay, overlay_listens, bridge_listens, deep_link_ready, follow_buffered, follow_link, deliver,
     KeepsLinks, KeepsFiles
<1>2. /\ page'.fileAnswer = page.fileAnswer /\ page'.fileEvents = page.fileEvents
      /\ page'.overlay = "called" <=> page.overlay = "called"
  <2>1. CASE mount_overlay \/ overlay_listens
    BY <1>0, <2>1 DEF mount_overlay, overlay_listens, Pages
  <2>2. CASE bridge_listens \/ deep_link_ready \/ follow_buffered
    BY <1>0, <2>2 DEF bridge_listens, deep_link_ready, follow_buffered, Pages
  <2>3. CASE follow_link \/ \E l \in Links : deliver(l)
    <3>1. PICK e : page' = [page EXCEPT !.linkEvents = e] \/ page' = page
      BY <2>3 DEF follow_link, deliver
    <3> QED
      BY <1>0, <3>1 DEF Pages
  <2> QED
    BY <2>1, <2>2, <2>3
<1> QED
  BY <1>1, <1>2 DEF FilesOnTheWay, FileComes, Within

LEMMA OpenedComes ==
    ASSUME WayInv, FilesOnTheWay, NEW b \in Batches, open_files(b)
    PROVE  FilesOnTheWay'
<1>0. page \in Pages /\ page.fileEvents \in Seq(Batches) /\ fileHost.pending \in Seq(Batches)
      /\ fileHost \in [ready : BOOLEAN, pending : Seq(Batches)]
  BY DEF WayInv, DeliveryInv, DeliveryTyped, Pages
<1>1. opened' = opened \cup {b} /\ handled' = handled
  BY DEF open_files
<1>2. CASE fileHost.ready
  <2>1. PICK e : e = Append(page.fileEvents, b)
    OBVIOUS
  <2>2. page' = [page EXCEPT !.fileEvents = e] /\ fileHost' = fileHost
    BY <1>2, <2>1 DEF open_files, FilesOnTheWay
  <2>3. page'.fileEvents = e /\ page'.fileAnswer = page.fileAnswer /\ page'.overlay = page.overlay
    BY <1>0, <2>2 DEF Pages
  <2>4. \A y : Within(y, e) <=> y = b \/ Within(y, page.fileEvents)
    BY <1>0, <2>1, WithinAppend
  <2> QED
    BY <1>1, <2>2, <2>3, <2>4 DEF FilesOnTheWay, FileComes, Within
<1>3. CASE ~fileHost.ready
  <2>1. PICK e : e = Append(fileHost.pending, b)
    OBVIOUS
  <2>2. fileHost' = [fileHost EXCEPT !.pending = e] /\ page' = page
    BY <1>3, <2>1 DEF open_files
  <2>3. fileHost'.pending = e /\ fileHost'.ready = fileHost.ready
    BY <1>0, <2>2
  <2>4. \A y : Within(y, e) <=> y = b \/ Within(y, fileHost.pending)
    BY <1>0, <2>1, WithinAppend
  <2> QED
    BY <1>1, <1>3, <2>2, <2>3, <2>4, SMTT(30) DEF FilesOnTheWay, FileComes, Within
<1> QED
  BY <1>2, <1>3

LEMMA ReadyComes ==
    ASSUME WayInv, FilesOnTheWay, file_open_ready
    PROVE  FilesOnTheWay'
<1>0. page \in Pages
  BY DEF WayInv, DeliveryInv, DeliveryTyped
<1>1. PICK e : e = <<>>
  OBVIOUS
<1>2. /\ page' = [page EXCEPT !.overlay = "called", !.fileAnswer = fileHost.pending] /\ page.overlay = "listening"
      /\ fileHost' = [ready |-> TRUE, pending |-> e] /\ handled' = handled /\ opened' = opened
  BY <1>1 DEF file_open_ready, KeepsLinks
<1>3. /\ page'.overlay = "called" /\ page'.fileAnswer = fileHost.pending /\ page'.fileEvents = page.fileEvents
      /\ fileHost'.ready /\ fileHost'.pending = e
  BY <1>0, <1>2 DEF Pages
<1>4. page.fileAnswer = e
  BY <1>1, <1>2 DEF FilesOnTheWay
<1>5. \A y : ~Within(y, page.fileAnswer)
  BY <1>1, <1>4, WithinNone
<1> QED
  BY <1>1, <1>2, <1>3, <1>5 DEF FilesOnTheWay, FileComes, Within

LEMMA TakenComes ==
    ASSUME WayInv, FilesOnTheWay, take_buffered \/ take_files
    PROVE  FilesOnTheWay'
<1>0. page \in Pages /\ DeliveryTyped /\ page.fileAnswer \in Seq(Batches) /\ page.fileEvents \in Seq(Batches)
  BY DEF WayInv, DeliveryInv, DeliveryTyped, Pages
<1>1. fileHost' = fileHost /\ opened' = opened
  BY DEF take_buffered, take_files, KeepsLinks
<1>2. CASE take_buffered
  <2>1. PICK e : e = <<>>
    OBVIOUS
  <2>2. page' = [page EXCEPT !.fileAnswer = e] /\ handlePaths(page.fileAnswer)
    BY <1>2, <2>1 DEF take_buffered
  <2>3. page'.fileAnswer = e /\ page'.fileEvents = page.fileEvents /\ page'.overlay = page.overlay
    BY <1>0, <2>2 DEF Pages
  <2>4. \A b \in Batches : handled'[b] >= handled[b] /\ (Within(b, page.fileAnswer) => handled'[b] > 0)
    BY <1>0, <2>2, TakenIsHandled
  <2>5. \A b \in Batches : handled[b] \in Nat
    BY <1>0 DEF DeliveryTyped
  <2>7. handled' \in [Batches -> Nat]
    BY <1>2, TakeFits DEF WayInv, DeliveryInv, DeliveryTyped
  <2>6. \A b \in Batches : handled[b] > 0 => handled'[b] > 0
    BY <2>4, <2>5, <2>7
  <2> QED
    BY <1>1, <2>1, <2>3, <2>4, <2>6 DEF FilesOnTheWay, FileComes, Within
<1>3. CASE take_files
  <2>1. PICK h : h = <<Head(page.fileEvents)>>
    OBVIOUS
  <2>2. PICK r : r = Tail(page.fileEvents)
    OBVIOUS
  <2>3. page' = [page EXCEPT !.fileEvents = r] /\ handlePaths(h) /\ page.fileEvents # <<>>
    BY <1>3, <2>1, <2>2 DEF take_files
  <2>4. page'.fileAnswer = page.fileAnswer /\ page'.fileEvents = r /\ page'.overlay = page.overlay
    BY <1>0, <2>3 DEF Pages
  <2>5. h \in Seq(Batches) /\ Within(Head(page.fileEvents), h)
    <3>1. Head(page.fileEvents) \in Batches
      BY <1>0, <2>3
    <3>2. Len(h) = 1 /\ h[1] = Head(page.fileEvents) /\ h \in Seq(Batches)
      BY <2>1, <3>1
    <3>3. 1 \in 1..Len(h)
      BY <3>2
    <3> QED
      BY <3>2, <3>3 DEF Within
  <2>6. \A b \in Batches : handled'[b] >= handled[b] /\ (Within(b, h) => handled'[b] > 0)
    BY <1>0, <2>3, <2>5, TakenIsHandled
  <2>7. handled \in [Batches -> Nat] /\ handled' \in [Batches -> Nat]
    BY <1>3, TakeFits DEF WayInv, DeliveryInv, DeliveryTyped
  <2>8. \A y : Within(y, page.fileEvents) => y = Head(page.fileEvents) \/ Within(y, r)
    BY <1>0, <2>2, <2>3, WithinTail
  <2>9. \A b \in Batches : handled[b] > 0 => handled'[b] > 0
    BY <2>6, <2>7
  <2>10. ASSUME NEW b \in Batches, FileComes(b) PROVE FileComes(b)'
    <3>1. handled'[b] > 0 \/ Within(b, fileHost.pending) \/ Within(b, page.fileAnswer) \/ Within(b, r)
      BY <2>5, <2>6, <2>8, <2>9, <2>10 DEF FileComes
    <3> QED
      BY <1>1, <2>4, <3>1 DEF FileComes, Within
  <2> QED
    BY <1>1, <2>4, <2>10 DEF FilesOnTheWay
<1> QED
  BY <1>2, <1>3

\* Steps of files leave links alone.
LEMMA LinksUntouched ==
    ASSUME Batches \cap Links = {}, WayInv, LinksOnTheWay,
           \/ mount_overlay \/ overlay_listens \/ bridge_listens \/ file_open_ready \/ take_buffered \/ take_files
           \/ \E b \in Batches : open_files(b)
    PROVE  LinksOnTheWay' /\ followed' = followed
<1>0. page \in Pages
  BY DEF WayInv, DeliveryInv, DeliveryTyped
<1>1. /\ linkHost' = linkHost /\ followed' = followed /\ replaced' = replaced /\ lost \subseteq lost'
      /\ \A l \in Links : l \in opened' => l \in opened
  BY DEF mount_overlay, overlay_listens, bridge_listens, file_open_ready, take_buffered, take_files, open_files,
     KeepsLinks, KeepsFiles
<1>2. page'.linkAnswer = page.linkAnswer /\ page'.linkEvents = page.linkEvents /\ page'.called = page.called
  <2>1. CASE mount_overlay \/ overlay_listens
    BY <1>0, <2>1 DEF mount_overlay, overlay_listens, Pages
  <2>2. CASE bridge_listens \/ file_open_ready
    BY <1>0, <2>2 DEF bridge_listens, file_open_ready, Pages
  <2>3. CASE take_buffered
    BY <1>0, <2>3 DEF take_buffered, Pages
  <2>4. CASE take_files \/ \E b \in Batches : open_files(b)
    <3>1. PICK e : page' = [page EXCEPT !.fileEvents = e] \/ page' = page
      BY <2>4 DEF take_files, open_files
    <3> QED
      BY <1>0, <3>1 DEF Pages
  <2> QED
    BY <2>1, <2>2, <2>3, <2>4
<1> QED
  BY <1>1, <1>2 DEF LinksOnTheWay, LinkComes, Within

LEMMA DeliveredComes ==
    ASSUME NoLink \notin Links, WayInv, LinksOnTheWay, NEW l \in Links, deliver(l)
    PROVE  LinksOnTheWay' /\ followed' = followed
<1>0. page \in Pages /\ page.linkEvents \in Seq(Links) /\ linkHost \in [ready : BOOLEAN, pending : Links \cup {NoLink}]
  BY DEF WayInv, DeliveryInv, DeliveryTyped, Pages
<1>1. opened' = opened \cup {l} /\ followed' = followed /\ lost \subseteq lost' /\ replaced \subseteq replaced'
  BY DEF deliver
<1>2. PICK e : e = Append(page.linkEvents, l)
  OBVIOUS
<1>3. \A y : Within(y, e) <=> y = l \/ Within(y, page.linkEvents)
  BY <1>0, <1>2, WithinAppend
<1>4. page' = (IF page.bridge = "listening" THEN [page EXCEPT !.linkEvents = e] ELSE page)
  BY <1>2 DEF deliver
<1>5. /\ page'.linkAnswer = page.linkAnswer /\ page'.called = page.called
      /\ page'.linkEvents = IF page.bridge = "listening" THEN e ELSE page.linkEvents
  BY <1>0, <1>4 DEF Pages
<1>6. \A y : Within(y, page.linkEvents) => Within(y, page'.linkEvents)
  BY <1>3, <1>5
<1>7. CASE linkHost.ready
  <2>1. linkHost' = linkHost /\ (page.bridge # "listening" => l \in lost')
    BY <1>7 DEF deliver
  <2>2. LinkComes(l)'
    BY <1>3, <1>5, <2>1 DEF LinkComes
  <2>3. ASSUME NEW k \in Links, LinkComes(k) PROVE LinkComes(k)'
    <3>1. followed'[k] > 0 \/ linkHost'.pending = k \/ page'.linkAnswer = k \/ Within(k, page'.linkEvents) \/ k \in lost' \cup replaced'
      BY <1>1, <1>5, <1>6, <2>1, <2>3 DEF LinkComes
    <3> QED
      BY <3>1 DEF LinkComes, Within
  <2> QED
    BY <1>1, <1>5, <2>1, <2>2, <2>3 DEF LinksOnTheWay
<1>8. CASE ~linkHost.ready
  <2>1. linkHost' = [linkHost EXCEPT !.pending = l] /\ replaced' = replaced \cup ({linkHost.pending} \ {NoLink})
    BY <1>8 DEF deliver
  <2>2. linkHost'.pending = l /\ linkHost'.ready = linkHost.ready
    BY <1>0, <2>1
  <2>3. ASSUME NEW k \in Links, LinkComes(k) PROVE LinkComes(k)'
    <3>1. followed'[k] > 0 \/ page'.linkAnswer = k \/ Within(k, page'.linkEvents) \/ k \in lost' \cup replaced'
      BY <1>1, <1>5, <1>6, <2>1, <2>3 DEF LinkComes
    <3> QED
      BY <3>1 DEF LinkComes, Within
  <2>4. LinkComes(l)'
    BY <2>2 DEF LinkComes
  <2> QED
    BY <1>1, <1>5, <1>8, <2>2, <2>3, <2>4 DEF LinksOnTheWay
<1> QED
  BY <1>7, <1>8

LEMMA CalledComes ==
    ASSUME NoLink \notin Links, WayInv, LinksOnTheWay, deep_link_ready
    PROVE  LinksOnTheWay' /\ followed' = followed
<1>0. page \in Pages
  BY DEF WayInv, DeliveryInv, DeliveryTyped
<1>1. /\ page' = [page EXCEPT !.called = TRUE, !.linkAnswer = linkHost.pending] /\ ~page.called
      /\ linkHost' = [ready |-> TRUE, pending |-> NoLink] /\ followed' = followed
      /\ opened' = opened /\ lost' = lost /\ replaced' = replaced
  BY DEF deep_link_ready, KeepsFiles
<1>2. /\ page'.called /\ page'.linkAnswer = linkHost.pending /\ page'.linkEvents = page.linkEvents
      /\ linkHost'.ready /\ linkHost'.pending = NoLink
  BY <1>0, <1>1 DEF Pages
<1>3. page.linkAnswer = NoLink
  BY <1>1 DEF LinksOnTheWay
<1> QED
  BY <1>1, <1>2, <1>3 DEF LinksOnTheWay, LinkComes, Within

LEMMA FollowedComes ==
    ASSUME NoLink \notin Links, WayInv, LinksOnTheWay, follow_buffered \/ follow_link
    PROVE  LinksOnTheWay' /\ followed' \in [Links -> Nat]
<1>0. /\ page \in Pages /\ page.linkEvents \in Seq(Links) /\ page.linkAnswer \in Links \cup {NoLink}
      /\ followed \in [Links -> Nat]
  BY DEF WayInv, DeliveryInv, DeliveryTyped, Pages
<1>1. linkHost' = linkHost /\ opened' = opened /\ lost' = lost /\ replaced' = replaced
  BY DEF follow_buffered, follow_link, KeepsFiles
<1>2. ASSUME NEW h \in Links, followed' = [followed EXCEPT ![h] = @ + 1],
             page'.called = page.called,
             ~page.called => page'.linkAnswer = NoLink,
             \A l \in Links : page.linkAnswer = l => l = h \/ page'.linkAnswer = l,
             \A l \in Links : Within(l, page.linkEvents) => l = h \/ Within(l, page'.linkEvents)
      PROVE  LinksOnTheWay' /\ followed' \in [Links -> Nat]
  <2>1. followed' \in [Links -> Nat] /\ followed'[h] > 0 /\ \A l \in Links : followed[l] > 0 => followed'[l] > 0
    BY <1>0, <1>2
  <2>2. ASSUME NEW l \in Links, LinkComes(l) PROVE LinkComes(l)'
    <3>1. followed'[l] > 0 \/ linkHost'.pending = l \/ page'.linkAnswer = l \/ Within(l, page'.linkEvents) \/ l \in lost' \cup replaced'
      BY <1>1, <1>2, <2>1, <2>2 DEF LinkComes
    <3> QED
      BY <3>1 DEF LinkComes, Within
  <2> QED
    BY <1>1, <1>2, <2>1, <2>2 DEF LinksOnTheWay
<1>3. CASE follow_buffered
  <2>1. page' = [page EXCEPT !.linkAnswer = NoLink] /\ page.linkAnswer # NoLink /\ openChat(page.linkAnswer)
    BY <1>3 DEF follow_buffered
  <2>2. page'.linkAnswer = NoLink /\ page'.called = page.called /\ page'.linkEvents = page.linkEvents
    BY <1>0, <2>1 DEF Pages
  <2>3. PICK h \in Links : h = page.linkAnswer
    BY <1>0, <2>1
  <2>4. followed' = [followed EXCEPT ![h] = @ + 1]
    BY <2>1, <2>3 DEF openChat
  <2> QED
    BY <1>2, <2>2, <2>3, <2>4
<1>4. CASE follow_link
  <2>1. PICK r : r = Tail(page.linkEvents)
    OBVIOUS
  <2>2. page' = [page EXCEPT !.linkEvents = r] /\ page.linkEvents # <<>> /\ openChat(Head(page.linkEvents))
    BY <1>4, <2>1 DEF follow_link
  <2>3. page'.linkEvents = r /\ page'.called = page.called /\ page'.linkAnswer = page.linkAnswer
    BY <1>0, <2>2 DEF Pages
  <2>4. Head(page.linkEvents) \in Links
    BY <1>0, <2>2
  <2>5. PICK h : h = Head(page.linkEvents)
    OBVIOUS
  <2>6. followed' = [followed EXCEPT ![h] = @ + 1] /\ h \in Links
    BY <2>2, <2>4, <2>5 DEF openChat
  <2>7. \A y : Within(y, page.linkEvents) => y = h \/ Within(y, r)
    BY <1>0, <2>1, <2>2, <2>5, WithinTail
  <2>8. ~page.called => page'.linkAnswer = NoLink
    BY <2>3 DEF LinksOnTheWay
  <2> QED
    BY <1>2, <2>3, <2>6, <2>7, <2>8
<1> QED
  BY <1>3, <1>4

LEMMA WayStart ==
    ASSUME DeliveryInit
    PROVE  WayInv
<1>1. PICK e : e = <<>>
  OBVIOUS
<1>2. /\ page.overlay = "unmounted" /\ ~page.called /\ page.fileAnswer = e /\ page.linkAnswer = NoLink
      /\ ~fileHost.ready /\ ~linkHost.ready /\ opened = {} /\ followed \in [Links -> Nat] /\ reloads = 0
  BY <1>1 DEF DeliveryInit, NewPage
<1> QED
  BY <1>1, <1>2, DeliveryStart DEF WayInv, FilesOnTheWay, LinksOnTheWay

LEMMA WayStep ==
    ASSUME Batches \cap Links = {}, NoLink \notin Links, WayInv, [DeliveryNext]_deliveryVars
    PROVE  WayInv'
<1>0. DeliveryInv' /\ reloads \in Nat
  BY DeliveryStep DEF WayInv
<1>1. CASE UNCHANGED deliveryVars
  <2>1. /\ page' = page /\ fileHost' = fileHost /\ linkHost' = linkHost /\ handled' = handled /\ opened' = opened
        /\ followed' = followed /\ lost' = lost /\ replaced' = replaced /\ reloads' = reloads
    BY <1>1 DEF deliveryVars
  <2> QED
    BY <1>0, <2>1 DEF WayInv, FilesOnTheWay, LinksOnTheWay, FileComes, LinkComes
<1>2. CASE reload
  <2>1. reloads' = reloads + 1 /\ followed' = followed
    BY <1>2 DEF reload
  <2> QED
    BY <1>0, <2>1 DEF WayInv
<1>3. CASE DeliveryNext /\ ~reload
  <2>1. reloads' = reloads
    BY <1>3 DEF DeliveryNext, PageStep, open_files, deliver, mount_overlay, overlay_listens, file_open_ready, take_buffered,
       take_files, bridge_listens, deep_link_ready, follow_buffered, follow_link, KeepsLinks, KeepsFiles
  <2>2. ASSUME reloads = 0 PROVE FilesOnTheWay'
    BY <1>3, <2>2, FilesUntouched, OpenedComes, ReadyComes, TakenComes DEF WayInv, DeliveryNext, PageStep
  <2>3. ASSUME reloads = 0 PROVE LinksOnTheWay'
    BY <1>3, <2>3, LinksUntouched, DeliveredComes, CalledComes, FollowedComes DEF WayInv, DeliveryNext, PageStep
  <2>4. followed' \in [Links -> Nat]
    <3>1. CASE follow_buffered \/ follow_link
      <4>1. PICK h : followed' = [followed EXCEPT ![h] = @ + 1]
        BY <3>1 DEF follow_buffered, follow_link, openChat
      <4>2. PICK f : f = followed
        OBVIOUS
      <4>3. f \in [Links -> Nat] /\ followed' = [f EXCEPT ![h] = f[h] + 1]
        BY <4>1, <4>2 DEF WayInv
      <4>4. CASE h \in Links
        BY <4>3, <4>4
      <4>5. CASE h \notin Links
        <5>1. [f EXCEPT ![h] = f[h] + 1] = f
          BY <4>3, <4>5
        <5> QED
          BY <4>3, <5>1
      <4> QED
        BY <4>4, <4>5
    <3>2. followed' = followed \/ follow_buffered \/ follow_link
      BY <1>3 DEF DeliveryNext, PageStep, open_files, deliver, mount_overlay, overlay_listens, file_open_ready, take_buffered,
         take_files, bridge_listens, deep_link_ready, KeepsLinks, KeepsFiles
    <3> QED
      BY <3>1, <3>2 DEF WayInv
  <2> QED
    BY <1>0, <2>1, <2>2, <2>3, <2>4 DEF WayInv
<1> QED
  BY <1>1, <1>2, <1>3

\* Nothing is dropped on the way: when the page has nothing left to take, it has taken every batch once, and every link
\* that no newer one replaced and that was not emitted before it listened (file_open.rs, deep_link.rs).
THEOREM ArrivalsHold ==
    ASSUME Batches \cap Links = {}, NoLink \notin Links
    PROVE  DeliverySpec => []ArrivedWhenQuiet
<1>1. WayInv => ArrivedWhenQuiet
  <2> SUFFICES ASSUME WayInv, reloads = 0 PROVE
         /\ FilesQuiet => \A b \in Batches \cap opened : handled[b] = 1
         /\ LinksQuiet => \A l \in Links \cap opened : followed[l] > 0 \/ l \in lost \cup replaced
    BY DEF ArrivedWhenQuiet
  <2>1. FilesOnTheWay /\ LinksOnTheWay
    BY DEF WayInv
  <2>2. ASSUME FilesQuiet, NEW b \in Batches \cap opened PROVE handled[b] = 1
    <3>1. fileHost.pending = <<>> /\ page.fileAnswer = <<>> /\ page.fileEvents = <<>>
      BY <2>1, <2>2 DEF FilesQuiet, FilesOnTheWay
    <3>2. ~Within(b, fileHost.pending) /\ ~Within(b, page.fileAnswer) /\ ~Within(b, page.fileEvents)
      BY <3>1, WithinNone
    <3>3. handled[b] > 0
      BY <2>1, <3>2 DEF FilesOnTheWay, FileComes
    <3>4. handled[b] <= 1 /\ handled[b] \in Nat
      BY DEF WayInv, DeliveryInv, DeliveryTyped, BatchesFit
    <3> QED
      BY <3>3, <3>4
  <2>3. ASSUME LinksQuiet, NEW l \in Links \cap opened PROVE followed[l] > 0 \/ l \in lost \cup replaced
    <3>1. ~Within(l, page.linkEvents)
      BY <2>3, WithinNone DEF LinksQuiet
    <3> QED
      BY <2>1, <2>3, <3>1 DEF LinksQuiet, LinksOnTheWay, LinkComes
  <2> QED
    BY <2>2, <2>3
<1> QED
  BY <1>1, WayStart, WayStep, PTL DEF DeliverySpec

==============================================================================
