---------------------------- MODULE MediaSendProofs ----------------------------
(***************************************************************************)
(* What holds of the media pipeline for any messages, contents, cache      *)
(* names and downloads: when cached files are whole, and what the messages *)
(* this device sends are stored with.                                      *)
(***************************************************************************)
EXTENDS MCMediaSend, FiniteSetTheorems, TLAPS

\* Messages whose cache files have one name carry one content: the name is made of the digest.
NamesTellContents ==
    \A m, n \in Msgs : cache_file_name[m] = cache_file_name[n] => ContentOf[m] = ContentOf[n]

Writing(t) == Step(t, "write")

Shape == [step : {"idle", "create", "write", "record"}, msg : Msgs \cup {None},
          inode : {0} \cup Inodes, at : Nat]

FilesTyped ==
    /\ task \in [Tasks -> Shape]
    /\ part \in [Files -> {0} \cup Inodes] /\ final \in [Files -> {0} \cup Inodes]
    /\ disk \in [Inodes -> Seq(Contents \cup {Hole})]

TasksFit ==
    \A t \in Tasks :
        /\ ~Step(t, "idle") => task[t].msg \in Msgs
        /\ Writing(t) => task[t].inode \in Inodes /\ task[t].at <= Size(task[t].msg)
        /\ ~Writing(t) => task[t].inode = 0 /\ task[t].at = 0

\* A file has one name, and who writes into a file that has a name has opened it under that name.
LinkedOnce ==
    /\ \A f, g \in Files : part[f] # 0 => part[f] # final[g] /\ (part[f] = part[g] => f = g)
    /\ \A f, g \in Files : final[f] # 0 /\ final[f] = final[g] => f = g
WritersFit ==
    \A t \in Tasks, f \in Files :
        Writing(t) /\ task[t].inode \in {part[f], final[f]} => f = cache_file_name[task[t].msg]

FilesInv == FilesTyped /\ TasksFit /\ LinkedOnce /\ WritersFit

-----------------------------------------------------------------------------
(* Lemmas about the operators of the model *)

\* The greater of two numbers.
LEMMA MaxOfTwo ==
    ASSUME NEW a \in Nat, NEW b \in Nat
    PROVE  Max({a, b}) = IF a >= b THEN a ELSE b
<1>1. PICK x \in {a, b} : \A y \in {a, b} : x >= y
  OBVIOUS
<1>2. Max({a, b}) \in {a, b} /\ \A y \in {a, b} : Max({a, b}) >= y
  BY <1>1 DEF Max
<1> QED
  BY <1>2

\* A write through a handle puts one block, leaves those that were there, and makes the file longer
\* where it has to.
LEMMA WriteAtIs ==
    ASSUME NEW s \in Seq(Contents \cup {Hole}), NEW at \in Nat, NEW b \in Contents
    PROVE  /\ WriteAt(s, at, b) \in Seq(Contents \cup {Hole})
           /\ Len(WriteAt(s, at, b)) = IF Len(s) >= at + 1 THEN Len(s) ELSE at + 1
           /\ \A p \in 1..Len(s) : p # at + 1 => WriteAt(s, at, b)[p] = s[p]
           /\ WriteAt(s, at, b)[at + 1] = b
<1>1. PICK n \in Nat : n = (IF Len(s) >= at + 1 THEN Len(s) ELSE at + 1)
  OBVIOUS
<1>2. Max({Len(s), at + 1}) = n
  BY <1>1, MaxOfTwo
<1>3. WriteAt(s, at, b) = [i \in 1..n |-> IF i = at + 1 THEN b ELSE IF i <= Len(s) THEN s[i] ELSE Hole]
  BY <1>2 DEF WriteAt
<1>4. \A i \in 1..n : (IF i = at + 1 THEN b ELSE IF i <= Len(s) THEN s[i] ELSE Hole) \in Contents \cup {Hole}
  OBVIOUS
<1>5. WriteAt(s, at, b) \in Seq(Contents \cup {Hole}) /\ Len(WriteAt(s, at, b)) = n
  BY <1>3, <1>4
<1> QED
  BY <1>1, <1>3, <1>5

\* A content has at least one block.
LEMMA Sizes ==
    ASSUME NEW m \in Msgs
    PROVE  Size(m) \in Nat /\ Size(m) >= 1 /\ ContentOf[m] \in Contents /\ cache_file_name[m] \in Files
BY CacheAssumption DEF Size

\* A task takes up a record, the others stay.
LEMMA Becoming ==
    ASSUME FilesTyped, NEW t \in Tasks, NEW r, Becomes(t, r)
    PROVE  /\ task'[t] = r /\ \A u \in Tasks \ {t} : task'[u] = task[u]
           /\ r \in Shape => task' \in [Tasks -> Shape]
BY DEF FilesTyped, Becomes

\* A step of a download gives its task a record.
LEMMA StepsBecome ==
    ASSUME FilesTyped, NEW t \in Tasks, DownloadStep(t), task'[t] \in Shape
    PROVE  task' \in [Tasks -> Shape]
<1>1. \E r : Becomes(t, r)
  <2>1. ASSUME NEW m \in Msgs, download_media(t, m) PROVE \E r : Becomes(t, r)
    BY <2>1 DEF download_media
  <2>2. CASE create(t)
    BY <2>2 DEF create
  <2>3. CASE write(t)
    BY <2>3 DEF write
  <2>4. CASE rename(t)
    BY <2>4 DEF rename
  <2>5. CASE download_fails(t) \/ upsert_media_record(t)
    BY <2>5 DEF download_fails, upsert_media_record
  <2> QED
    BY <2>1, <2>2, <2>3, <2>4, <2>5 DEF DownloadStep
<1> QED
  BY <1>1, Becoming

\* The values of a function on a finite set are no more than the set has members.
LEMMA FewValues ==
    ASSUME NEW S, IsFiniteSet(S), NEW g
    PROVE  IsFiniteSet({g[x] : x \in S}) /\ Cardinality({g[x] : x \in S}) <= Cardinality(S)
<1>1. [x \in S |-> g[x]] \in Surjection(S, {g[x] : x \in S})
  BY DEF Surjection
<1> QED
  BY <1>1, FS_Surjection

\* The handles of other tasks and the names take up fewer files than there may be, so that a new
\* file is always a new one.
LEMMA SomeInodeIsFree ==
    ASSUME FilesInv, NEW t \in Tasks, task[t].inode = 0
    PROVE  \E i \in Inodes : ~InUse(i)
<1>1. PICK nf \in Nat, nt \in Nat : nf = Cardinality(Files) /\ nt = Cardinality(Tasks)
  BY CacheAssumption, FS_CardinalityType
<1>2. IsFiniteSet(Files) /\ IsFiniteSet(Tasks) /\ IsFiniteSet(Tasks \ {t}) /\ Cardinality(Tasks \ {t}) = nt - 1
  BY <1>1, CacheAssumption, FS_RemoveElement
<1>3. IsFiniteSet(Inodes) /\ Cardinality(Inodes) = 2 * nf + nt
  <2>1. 2 * nf + nt \in Nat
    OBVIOUS
  <2>2. Inodes = 1..(2 * nf + nt)
    BY <1>1 DEF Inodes
  <2> QED
    BY <2>1, <2>2, FS_Interval
<1> DEFINE Parts == {part[f] : f \in Files}
           Finals == {final[f] : f \in Files}
           Handles == {task[u].inode : u \in Tasks \ {t}}
<1>4. IsFiniteSet(Parts) /\ Cardinality(Parts) <= nf
  BY <1>1, <1>2, FewValues
<1>5. IsFiniteSet(Finals) /\ Cardinality(Finals) <= nf
  BY <1>1, <1>2, FewValues
<1>6. IsFiniteSet(Handles) /\ Cardinality(Handles) <= nt - 1
  <2>1. PICK g : g = [u \in Tasks |-> task[u].inode]
    OBVIOUS
  <2>2. Handles = {g[u] : u \in Tasks \ {t}}
    BY <2>1
  <2> QED
    BY <1>2, <2>2, FewValues
<1>7. ASSUME NEW i \in Inodes, InUse(i) PROVE i \in Parts \cup Finals \cup Handles
  BY <1>7 DEF InUse, Inodes
<1> HIDE DEF Parts, Finals, Handles
<1>8. PICK np \in Nat, nn \in Nat, nh \in Nat : np = Cardinality(Parts) /\ nn = Cardinality(Finals) /\ nh = Cardinality(Handles)
  BY <1>4, <1>5, <1>6, FS_CardinalityType
<1>9. IsFiniteSet(Parts \cup Finals) /\ Cardinality(Parts \cup Finals) <= np + nn
  <2>1. Cardinality(Parts \cup Finals) = Cardinality(Parts) + Cardinality(Finals) - Cardinality(Parts \cap Finals)
    BY <1>4, <1>5, FS_Union
  <2>2. Cardinality(Parts \cap Finals) \in Nat
    BY <1>4, FS_Intersection, FS_CardinalityType
  <2>3. IsFiniteSet(Parts \cup Finals)
    BY <1>4, <1>5, FS_Union
  <2> QED
    BY <1>8, <2>1, <2>2, <2>3
<1>10. PICK nu \in Nat : nu = Cardinality(Parts \cup Finals)
  BY <1>9, FS_CardinalityType
<1>11. IsFiniteSet(Parts \cup Finals \cup Handles) /\ Cardinality(Parts \cup Finals \cup Handles) <= nu + nh
  <2>1. Cardinality((Parts \cup Finals) \cup Handles)
          = Cardinality(Parts \cup Finals) + Cardinality(Handles) - Cardinality((Parts \cup Finals) \cap Handles)
    BY <1>6, <1>9, FS_Union
  <2>2. Cardinality((Parts \cup Finals) \cap Handles) \in Nat
    BY <1>9, FS_Intersection, FS_CardinalityType
  <2>3. IsFiniteSet((Parts \cup Finals) \cup Handles)
    BY <1>6, <1>9, FS_Union
  <2> QED
    BY <1>8, <1>10, <2>1, <2>2, <2>3
<1>12. CASE \A i \in Inodes : InUse(i)
  <2>1. Inodes \subseteq Parts \cup Finals \cup Handles
    BY <1>7, <1>12
  <2>2. Cardinality(Inodes) <= Cardinality(Parts \cup Finals \cup Handles)
    BY <1>11, <2>1, FS_Subset
  <2>3. PICK n \in Nat : n = Cardinality(Parts \cup Finals \cup Handles)
    BY <1>11, FS_CardinalityType
  <2> QED
    BY <1>3, <1>4, <1>5, <1>6, <1>8, <1>9, <1>10, <1>11, <2>2, <2>3
<1> QED
  BY <1>12

\* The record of a task that has nothing open.
LEMMA IdleBut ==
    ASSUME NEW m, NEW s
    PROVE  [Idle EXCEPT !.msg = m, !.step = s] = [step |-> s, msg |-> m, inode |-> 0, at |-> 0]
<1>1. PICK d : d = [Idle EXCEPT !.msg = m]
  OBVIOUS
<1>2. d = [step |-> "idle", msg |-> m, inode |-> 0, at |-> 0]
  BY <1>1 DEF Idle
<1>3. [d EXCEPT !.step = s] = [step |-> s, msg |-> m, inode |-> 0, at |-> 0]
  BY <1>2
<1> QED
  BY <1>1, <1>3

-----------------------------------------------------------------------------
(* What the steps of a download do *)

\* A download starts with nothing open.
LEMMA Started ==
    ASSUME FilesInv, NEW t \in Tasks, NEW m \in Msgs, download_media(t, m)
    PROVE  /\ \E s \in {"record", "create"} : task'[t] = [step |-> s, msg |-> m, inode |-> 0, at |-> 0]
           /\ \A u \in Tasks \ {t} : task'[u] = task[u]
           /\ ~Writing(t)
           /\ UNCHANGED <<disk, part, final, clean>>
<1>1. PICK s \in {"record", "create"} : Becomes(t, [Idle EXCEPT !.msg = m, !.step = s])
  BY DEF download_media
<1>2. [Idle EXCEPT !.msg = m, !.step = s] = [step |-> s, msg |-> m, inode |-> 0, at |-> 0]
  BY IdleBut
<1> QED
  BY <1>1, <1>2, Becoming DEF download_media, FilesInv, Writing, Step

\* create empties the file that has the name, or makes a new one.
LEMMA Created ==
    ASSUME FilesInv, NEW t \in Tasks, create(t)
    PROVE  \E m \in Msgs, i \in Inodes :
             /\ m = task[t].msg
             /\ i = part[cache_file_name[m]] \/ (part[cache_file_name[m]] = 0 /\ ~InUse(i))
             /\ part' = [part EXCEPT ![cache_file_name[m]] = i]
             /\ disk' = [disk EXCEPT ![i] = <<>>]
             /\ task'[t] = [step |-> "write", msg |-> m, inode |-> i, at |-> 0]
             /\ \A u \in Tasks \ {t} : task'[u] = task[u]
             /\ ~Writing(t) /\ UNCHANGED <<final, clean>>
<1>1. Step(t, "create") /\ ~Writing(t)
  BY DEF create, Writing, Step
<1>2. PICK m \in Msgs : m = task[t].msg
  BY <1>1 DEF FilesInv, TasksFit, Step
<1>3. task[t].inode = 0 /\ task[t].at = 0
  BY <1>1 DEF FilesInv, TasksFit
<1>4. cache_file_name[m] \in Files
  BY Sizes
<1>5. PICK i : i = IF part[cache_file_name[m]] # 0 THEN part[cache_file_name[m]] ELSE CHOOSE x \in Inodes : ~InUse(x)
  OBVIOUS
<1>6. i \in Inodes /\ (i = part[cache_file_name[m]] \/ (part[cache_file_name[m]] = 0 /\ ~InUse(i)))
  <2>1. CASE part[cache_file_name[m]] # 0
    BY <1>4, <1>5, <2>1 DEF FilesInv, FilesTyped, Shape
  <2>2. CASE part[cache_file_name[m]] = 0
    BY <1>3, <1>5, <2>2, SomeInodeIsFree
  <2> QED
    BY <2>1, <2>2
<1>7. /\ part' = [part EXCEPT ![cache_file_name[m]] = i]
      /\ disk' = [disk EXCEPT ![i] = <<>>]
      /\ Becomes(t, [task[t] EXCEPT !.step = "write", !.inode = i])
      /\ UNCHANGED <<final, clean>>
  BY <1>2, <1>5 DEF create
<1>8. [task[t] EXCEPT !.step = "write", !.inode = i] = [step |-> "write", msg |-> m, inode |-> i, at |-> 0]
  <2>1. PICK s : task[t] = [step |-> s, msg |-> m, inode |-> 0, at |-> 0]
    BY <1>2, <1>3 DEF FilesInv, FilesTyped, Shape
  <2>2. PICK d : d = [task[t] EXCEPT !.step = "write"]
    OBVIOUS
  <2>3. d = [step |-> "write", msg |-> m, inode |-> 0, at |-> 0]
    BY <2>1, <2>2
  <2>4. [d EXCEPT !.inode = i] = [step |-> "write", msg |-> m, inode |-> i, at |-> 0]
    BY <2>3
  <2> QED
    BY <2>2, <2>4
<1>9. task'[t] = [step |-> "write", msg |-> m, inode |-> i, at |-> 0] /\ \A u \in Tasks \ {t} : task'[u] = task[u]
  BY <1>7, <1>8, Becoming DEF FilesInv
<1> QED
  BY <1>1, <1>2, <1>6, <1>7, <1>9

\* A write puts the next block into the file that is open.
LEMMA Written ==
    ASSUME FilesInv, NEW t \in Tasks, write(t)
    PROVE  \E m \in Msgs, i \in Inodes, a \in Nat :
             /\ Writing(t) /\ m = task[t].msg /\ i = task[t].inode /\ a = task[t].at /\ a < Size(m)
             /\ disk' = [disk EXCEPT ![i] = WriteAt(disk[i], a, ContentOf[m])]
             /\ task'[t] = [step |-> "write", msg |-> m, inode |-> i, at |-> a + 1]
             /\ \A u \in Tasks \ {t} : task'[u] = task[u]
             /\ UNCHANGED <<part, final, clean>>
<1>1. Step(t, "write") /\ Writing(t) /\ task[t].at < Size(task[t].msg)
  BY DEF write, Writing
<1>2. PICK m \in Msgs : m = task[t].msg
  BY <1>1 DEF FilesInv, TasksFit, Step
<1>3. PICK i \in Inodes, a \in Nat : i = task[t].inode /\ a = task[t].at
  BY <1>1 DEF FilesInv, TasksFit, FilesTyped, Shape
<1>4. /\ disk' = [disk EXCEPT ![i] = WriteAt(disk[i], a, ContentOf[m])]
      /\ Becomes(t, [task[t] EXCEPT !.at = a + 1])
      /\ UNCHANGED <<part, final, clean>>
  BY <1>2, <1>3 DEF write, FilesInv, FilesTyped
<1>5. [task[t] EXCEPT !.at = a + 1] = [step |-> "write", msg |-> m, inode |-> i, at |-> a + 1]
  BY <1>1, <1>2, <1>3 DEF FilesInv, FilesTyped, Shape, Step
<1>6. task'[t] = [step |-> "write", msg |-> m, inode |-> i, at |-> a + 1] /\ \A u \in Tasks \ {t} : task'[u] = task[u]
  BY <1>4, <1>5, Becoming DEF FilesInv
<1> QED
  BY <1>1, <1>2, <1>3, <1>4, <1>6

\* A download that has written everything moves the file that has the .part name, whoever writes it.
LEMMA Renamed ==
    ASSUME FilesInv, NEW t \in Tasks, rename(t)
    PROVE  \E m \in Msgs :
             /\ Writing(t) /\ m = task[t].msg /\ task[t].at = Size(m)
             /\ \/ /\ part[cache_file_name[m]] # 0
                   /\ final' = [final EXCEPT ![cache_file_name[m]] = part[cache_file_name[m]]]
                   /\ part' = [part EXCEPT ![cache_file_name[m]] = 0]
                   /\ task'[t] = [step |-> "record", msg |-> m, inode |-> 0, at |-> 0]
                \/ part[cache_file_name[m]] = 0 /\ task'[t] = Idle /\ UNCHANGED <<final, part>>
             /\ \A u \in Tasks \ {t} : task'[u] = task[u]
             /\ UNCHANGED <<disk, clean>>
<1>1. Writing(t) /\ task[t].at = Size(task[t].msg)
  BY DEF rename, Writing
<1>2. PICK m \in Msgs : m = task[t].msg
  BY <1>1 DEF FilesInv, TasksFit, Writing, Step
<1>3. UNCHANGED <<disk, clean>>
  BY DEF rename
<1>4. CASE /\ part[cache_file_name[m]] # 0
           /\ final' = [final EXCEPT ![cache_file_name[m]] = part[cache_file_name[m]]]
           /\ part' = [part EXCEPT ![cache_file_name[m]] = 0]
           /\ Becomes(t, [Idle EXCEPT !.msg = m, !.step = "record"])
  <2>1. [Idle EXCEPT !.msg = m, !.step = "record"] = [step |-> "record", msg |-> m, inode |-> 0, at |-> 0]
    BY IdleBut
  <2>2. Becomes(t, [step |-> "record", msg |-> m, inode |-> 0, at |-> 0])
    BY <1>4, <2>1
  <2>3. task'[t] = [step |-> "record", msg |-> m, inode |-> 0, at |-> 0] /\ \A u \in Tasks \ {t} : task'[u] = task[u]
    BY <2>2, Becoming DEF FilesInv
  <2> QED
    BY <1>1, <1>2, <1>3, <1>4, <2>3
<1>5. CASE part[cache_file_name[m]] = 0 /\ Becomes(t, Idle) /\ UNCHANGED <<final, part>>
  BY <1>1, <1>2, <1>3, <1>5, Becoming DEF FilesInv
<1> QED
  BY <1>2, <1>4, <1>5 DEF rename

\* A failed download removes what has the .part name.
LEMMA Failed ==
    ASSUME FilesInv, NEW t \in Tasks, download_fails(t)
    PROVE  \E m \in Msgs :
             /\ Writing(t) /\ m = task[t].msg
             /\ part' = [part EXCEPT ![cache_file_name[m]] = 0]
             /\ task'[t] = Idle /\ \A u \in Tasks \ {t} : task'[u] = task[u]
             /\ clean' = FALSE /\ UNCHANGED <<disk, final>>
<1>1. Writing(t)
  BY DEF download_fails, Writing
<1>2. PICK m \in Msgs : m = task[t].msg
  BY <1>1 DEF FilesInv, TasksFit, Writing, Step
<1> QED
  BY <1>1, <1>2, Becoming DEF download_fails, FilesInv

\* The record of a download leaves the files alone.
LEMMA Recorded ==
    ASSUME FilesInv, NEW t \in Tasks, upsert_media_record(t)
    PROVE  /\ ~Writing(t) /\ task'[t] = Idle /\ \A u \in Tasks \ {t} : task'[u] = task[u]
           /\ UNCHANGED <<disk, part, final, clean>>
BY Becoming DEF upsert_media_record, FilesInv, Writing, Step

\* What the steps of the sends and the end of the process do to the files.
LEMMA OtherSteps ==
    ASSUME Next
    PROVE  \/ \E t \in Tasks : DownloadStep(t)
           \/ \E f \in Files : file_removed(f)
           \/ task' = [t \in Tasks |-> Idle] /\ clean' = FALSE /\ UNCHANGED <<disk, part, final>>
           \/ UNCHANGED <<task, disk, part, final, clean>>
BY DEF Next, process_ends, crash, SendStep, send_file_with, uploaded, server_accepts, send_answered,
       save_outgoing_message, set_raw_proto, cacheVars
-----------------------------------------------------------------------------
(* Files and handles *)

\* The number of a file is not that of no file.
LEMMA InodesAreNotZero == \A i \in Inodes : i # 0
BY DEF Inodes

\* Names that go away leave the rest as it was.
LEMMA NamesDropped ==
    ASSUME FilesInv,
           \A f \in Files : part'[f] = part[f] \/ part'[f] = 0,
           \A f \in Files : final'[f] = final[f] \/ final'[f] = 0,
           \A u \in Tasks : task'[u] = task[u] \/ task'[u] = Idle
    PROVE  LinkedOnce' /\ WritersFit'
<1>1. LinkedOnce'
  BY DEF FilesInv, LinkedOnce
<1>2. ASSUME NEW u \in Tasks, NEW f \in Files, Writing(u)', task'[u].inode \in {part'[f], final'[f]}
      PROVE  f = cache_file_name[task'[u].msg]
  <2>1. task'[u] = task[u] /\ Writing(u)
    BY <1>2 DEF Writing, Step, Idle
  <2>2. task[u].inode # 0
    BY <2>1, InodesAreNotZero DEF FilesInv, TasksFit
  <2> QED
    BY <1>2, <2>1, <2>2 DEF FilesInv, WritersFit
<1> QED
  BY <1>1, <1>2 DEF WritersFit

\* One step of one task that opens nothing new keeps who has what open, when no name is added.
LEMMA HandlesKept ==
    ASSUME FilesInv, NEW t \in Tasks, \A u \in Tasks \ {t} : task'[u] = task[u],
           Writing(t)' => Writing(t) /\ task'[t].inode = task[t].inode /\ task'[t].msg = task[t].msg,
           UNCHANGED <<part, final>>
    PROVE  LinkedOnce' /\ WritersFit'
<1>1. LinkedOnce'
  BY DEF FilesInv, LinkedOnce
<1>2. ASSUME NEW u \in Tasks, NEW f \in Files, Writing(u)', task'[u].inode \in {part[f], final[f]}
      PROVE  f = cache_file_name[task'[u].msg]
  BY <1>2 DEF FilesInv, WritersFit, Writing, Step
<1> QED
  BY <1>1, <1>2 DEF WritersFit

\* The files and handles keep their shape, and their names keep to one file.
LEMMA FilesStep ==
    ASSUME FilesInv, [Next]_vars
    PROVE  FilesInv'
<1>0. FilesTyped /\ TasksFit /\ LinkedOnce /\ WritersFit
  BY DEF FilesInv
<1>1. ASSUME NEW t \in Tasks, NEW m \in Msgs, download_media(t, m) PROVE FilesInv'
  <2>1. PICK s \in {"record", "create"} : task'[t] = [step |-> s, msg |-> m, inode |-> 0, at |-> 0]
    BY <1>1, Started
  <2>2. (\A u \in Tasks \ {t} : task'[u] = task[u]) /\ UNCHANGED <<disk, part, final>>
    BY <1>1, Started
  <2>3. ~Writing(t)'
    BY <2>1 DEF Writing, Step
  <2>4. task' \in [Tasks -> Shape]
    BY <1>0, <1>1, <2>1, StepsBecome DEF DownloadStep, Shape
  <2>5. FilesTyped'
    BY <1>0, <2>2, <2>4 DEF FilesTyped
  <2>6. TasksFit'
    BY <1>0, <2>1, <2>2 DEF TasksFit, Writing, Step
  <2> QED
    BY <2>2, <2>3, <2>5, <2>6, HandlesKept DEF FilesInv
<1>2. ASSUME NEW t \in Tasks, create(t) PROVE FilesInv'
  <2>1. PICK m \in Msgs, i \in Inodes :
             /\ m = task[t].msg
             /\ i = part[cache_file_name[m]] \/ (part[cache_file_name[m]] = 0 /\ ~InUse(i))
             /\ part' = [part EXCEPT ![cache_file_name[m]] = i]
             /\ disk' = [disk EXCEPT ![i] = <<>>]
             /\ task'[t] = [step |-> "write", msg |-> m, inode |-> i, at |-> 0]
             /\ \A u \in Tasks \ {t} : task'[u] = task[u]
             /\ ~Writing(t) /\ UNCHANGED <<final, clean>>
    BY <1>2, Created
  <2>2. PICK n \in Files : n = cache_file_name[m]
    BY Sizes
  <2>3. task' \in [Tasks -> Shape]
    BY <1>0, <1>2, <2>1, StepsBecome DEF DownloadStep, Shape
  <2>4. part'[n] = i /\ \A f \in Files \ {n} : part'[f] = part[f]
    BY <1>0, <2>1, <2>2 DEF FilesTyped
  <2>5. FilesTyped'
    <3>1. <<>> \in Seq(Contents \cup {Hole})
      OBVIOUS
    <3>2. disk' \in [Inodes -> Seq(Contents \cup {Hole})]
      BY <1>0, <2>1, <3>1 DEF FilesTyped
    <3>3. part' \in [Files -> {0} \cup Inodes]
      BY <1>0, <2>1 DEF FilesTyped
    <3> QED
      BY <1>0, <2>1, <2>3, <3>2, <3>3 DEF FilesTyped
  <2>6. TasksFit'
    <3>1. Size(m) \in Nat
      BY Sizes
    <3>2. ASSUME NEW u \in Tasks \ {t}
          PROVE  /\ (~Step(u, "idle"))' => task'[u].msg \in Msgs
                 /\ Writing(u)' => task'[u].inode \in Inodes /\ task'[u].at <= Size(task'[u].msg)
                 /\ ~Writing(u)' => task'[u].inode = 0 /\ task'[u].at = 0
      BY <1>0, <2>1 DEF TasksFit, Writing, Step
    <3>3. Writing(t)' /\ task'[t].inode \in Inodes /\ task'[t].at <= Size(task'[t].msg) /\ task'[t].msg \in Msgs
      BY <2>1, <3>1 DEF Writing, Step
    <3> QED
      BY <3>2, <3>3 DEF TasksFit
  <2>7. \A f \in Files \ {n} : i # part[f]
    BY <1>0, <2>1, <2>2, InodesAreNotZero DEF LinkedOnce, InUse
  <2>8. \A f \in Files : i # final[f]
    BY <1>0, <2>1, <2>2, InodesAreNotZero DEF LinkedOnce, InUse
  <2>9. LinkedOnce'
    BY <1>0, <2>1, <2>4, <2>7, <2>8 DEF LinkedOnce
  <2>10. WritersFit'
    <3>1. ASSUME NEW f \in Files, i \in {part'[f], final'[f]} PROVE f = n
      BY <2>1, <2>4, <2>7, <2>8, <3>1
    <3>2. ASSUME NEW u \in Tasks \ {t}, NEW f \in Files, Writing(u), task[u].inode \in {part'[f], final[f]}
          PROVE  f = cache_file_name[task[u].msg]
      <4>1. CASE f # n \/ task[u].inode = final[f] \/ i = part[n]
        BY <1>0, <2>4, <3>2, <4>1 DEF WritersFit
      <4>2. CASE f = n /\ task[u].inode = i /\ ~InUse(i)
        BY <4>2 DEF InUse
      <4> QED
        BY <2>1, <2>2, <2>4, <3>2, <4>1, <4>2
    <3>3. ASSUME NEW u \in Tasks \ {t}, NEW f \in Files, Writing(u)', task'[u].inode \in {part'[f], final'[f]}
          PROVE  f = cache_file_name[task'[u].msg]
      <4>1. task'[u] = task[u] /\ final' = final /\ Writing(u)
        BY <2>1, <3>3 DEF Writing, Step
      <4> QED
        BY <3>2, <3>3, <4>1
    <3>4. task'[t].inode = i /\ task'[t].msg = m
      BY <2>1
    <3> QED
      BY <2>2, <3>1, <3>3, <3>4 DEF WritersFit
  <2> QED
    BY <2>5, <2>6, <2>9, <2>10 DEF FilesInv
<1>3. ASSUME NEW t \in Tasks, write(t) PROVE FilesInv'
  <2>1. PICK m \in Msgs, i \in Inodes, a \in Nat :
             /\ Writing(t) /\ m = task[t].msg /\ i = task[t].inode /\ a = task[t].at /\ a < Size(m)
             /\ disk' = [disk EXCEPT ![i] = WriteAt(disk[i], a, ContentOf[m])]
             /\ task'[t] = [step |-> "write", msg |-> m, inode |-> i, at |-> a + 1]
             /\ \A u \in Tasks \ {t} : task'[u] = task[u]
             /\ UNCHANGED <<part, final, clean>>
    BY <1>3, Written
  <2>2. task' \in [Tasks -> Shape]
    BY <1>0, <1>3, <2>1, StepsBecome DEF DownloadStep, Shape
  <2>3. disk' \in [Inodes -> Seq(Contents \cup {Hole})]
    <3>1. disk[i] \in Seq(Contents \cup {Hole}) /\ ContentOf[m] \in Contents
      BY <1>0, Sizes DEF FilesTyped
    <3>2. WriteAt(disk[i], a, ContentOf[m]) \in Seq(Contents \cup {Hole})
      BY <3>1, WriteAtIs
    <3> QED
      BY <1>0, <2>1, <3>2 DEF FilesTyped
  <2>4. FilesTyped'
    BY <1>0, <2>1, <2>2, <2>3 DEF FilesTyped
  <2>5. TasksFit'
    <3>1. Size(m) \in Nat
      BY Sizes
    <3>2. ASSUME NEW u \in Tasks \ {t}
          PROVE  /\ (~Step(u, "idle"))' => task'[u].msg \in Msgs
                 /\ Writing(u)' => task'[u].inode \in Inodes /\ task'[u].at <= Size(task'[u].msg)
                 /\ ~Writing(u)' => task'[u].inode = 0 /\ task'[u].at = 0
      BY <1>0, <2>1 DEF TasksFit, Writing, Step
    <3>3. Writing(t)' /\ task'[t].inode \in Inodes /\ task'[t].at <= Size(task'[t].msg) /\ task'[t].msg \in Msgs
      BY <2>1, <3>1 DEF Writing, Step
    <3> QED
      BY <3>2, <3>3 DEF TasksFit
  <2>6. Writing(t)' => Writing(t) /\ task'[t].inode = task[t].inode /\ task'[t].msg = task[t].msg
    BY <2>1
  <2> QED
    BY <2>1, <2>4, <2>5, <2>6, HandlesKept DEF FilesInv
<1>4. ASSUME NEW t \in Tasks, rename(t) PROVE FilesInv'
  <2>1. PICK m \in Msgs :
             /\ Writing(t) /\ m = task[t].msg /\ task[t].at = Size(m)
             /\ \/ /\ part[cache_file_name[m]] # 0
                   /\ final' = [final EXCEPT ![cache_file_name[m]] = part[cache_file_name[m]]]
                   /\ part' = [part EXCEPT ![cache_file_name[m]] = 0]
                   /\ task'[t] = [step |-> "record", msg |-> m, inode |-> 0, at |-> 0]
                \/ part[cache_file_name[m]] = 0 /\ task'[t] = Idle /\ UNCHANGED <<final, part>>
             /\ \A u \in Tasks \ {t} : task'[u] = task[u]
             /\ UNCHANGED <<disk, clean>>
    BY <1>4, Renamed
  <2>2. PICK n \in Files : n = cache_file_name[m]
    BY Sizes
  <2>3. \E s \in {"idle", "record"}, k \in {m, None} : task'[t] = [step |-> s, msg |-> k, inode |-> 0, at |-> 0] /\ (s = "record" => k = m)
    BY <2>1 DEF Idle
  <2>4. task' \in [Tasks -> Shape]
    BY <1>0, <1>4, <2>3, StepsBecome DEF DownloadStep, Shape
  <2>5. FilesTyped'
    <3>1. part[n] \in {0} \cup Inodes
      BY <1>0, <2>2 DEF FilesTyped
    <3>2. final' \in [Files -> {0} \cup Inodes]
      BY <1>0, <2>1, <2>2, <3>1 DEF FilesTyped
    <3>3. part' \in [Files -> {0} \cup Inodes]
      BY <1>0, <2>1, <2>2 DEF FilesTyped
    <3> QED
      BY <1>0, <2>1, <2>4, <3>2, <3>3 DEF FilesTyped
  <2>6. TasksFit'
    BY <1>0, <2>1, <2>3 DEF TasksFit, Writing, Step
  <2>7. ~Writing(t)'
    BY <2>3 DEF Writing, Step
  <2>8. CASE UNCHANGED <<final, part>>
    BY <2>1, <2>5, <2>6, <2>7, <2>8, HandlesKept DEF FilesInv
  <2>9. CASE /\ part[n] # 0
             /\ final' = [final EXCEPT ![n] = part[n]]
             /\ part' = [part EXCEPT ![n] = 0]
    <3>1. final'[n] = part[n] /\ part'[n] = 0 /\ \A f \in Files \ {n} : final'[f] = final[f] /\ part'[f] = part[f]
      BY <1>0, <2>9 DEF FilesTyped
    <3>2. LinkedOnce'
      BY <1>0, <2>9, <3>1 DEF LinkedOnce
    <3>3. ASSUME NEW u \in Tasks \ {t}, NEW f \in Files, Writing(u)', task'[u].inode \in {part'[f], final'[f]}
          PROVE  f = cache_file_name[task'[u].msg]
      <4>1. task'[u] = task[u] /\ Writing(u) /\ task[u].inode # 0
        BY <1>0, <2>1, <3>3, InodesAreNotZero DEF Writing, Step, TasksFit
      <4>2. task[u].inode \in {part[f], final[f]}
        BY <3>1, <3>3, <4>1
      <4> QED
        BY <1>0, <4>1, <4>2 DEF WritersFit
    <3>4. WritersFit'
      BY <2>7, <3>3 DEF WritersFit
    <3> QED
      BY <2>5, <2>6, <3>2, <3>4 DEF FilesInv
  <2> QED
    BY <2>1, <2>2, <2>8, <2>9
<1>5. ASSUME NEW t \in Tasks, download_fails(t) PROVE FilesInv'
  <2>1. PICK m \in Msgs :
             /\ Writing(t) /\ m = task[t].msg
             /\ part' = [part EXCEPT ![cache_file_name[m]] = 0]
             /\ task'[t] = Idle /\ \A u \in Tasks \ {t} : task'[u] = task[u]
             /\ clean' = FALSE /\ UNCHANGED <<disk, final>>
    BY <1>5, Failed
  <2>2. \A f \in Files : part'[f] = part[f] \/ part'[f] = 0
    BY <1>0, <2>1 DEF FilesTyped
  <2>3. task' \in [Tasks -> Shape]
    BY <1>0, <1>5, <2>1, StepsBecome DEF DownloadStep, Shape, Idle
  <2>4. FilesTyped'
    BY <1>0, <2>1, <2>3 DEF FilesTyped
  <2>5. TasksFit'
    BY <1>0, <2>1 DEF TasksFit, Writing, Step, Idle
  <2>6. LinkedOnce' /\ WritersFit'
    BY <1>0, <2>1, <2>2, NamesDropped
  <2> QED
    BY <2>4, <2>5, <2>6 DEF FilesInv
<1>6. ASSUME NEW t \in Tasks, upsert_media_record(t) PROVE FilesInv'
  <2>1. ~Writing(t) /\ task'[t] = Idle /\ (\A u \in Tasks \ {t} : task'[u] = task[u]) /\ UNCHANGED <<disk, part, final>>
    BY <1>6, Recorded
  <2>2. task' \in [Tasks -> Shape]
    BY <1>0, <1>6, <2>1, StepsBecome DEF DownloadStep, Shape, Idle
  <2>3. FilesTyped'
    BY <1>0, <2>1, <2>2 DEF FilesTyped
  <2>4. TasksFit'
    BY <1>0, <2>1 DEF TasksFit, Writing, Step, Idle
  <2>5. ~Writing(t)'
    BY <2>1 DEF Writing, Step, Idle
  <2> QED
    BY <2>1, <2>3, <2>4, <2>5, HandlesKept DEF FilesInv
<1>7. ASSUME NEW n \in Files, file_removed(n) PROVE FilesInv'
  <2>1. final' = [final EXCEPT ![n] = 0] /\ UNCHANGED <<task, disk, part>>
    BY <1>7 DEF file_removed
  <2>2. \A f \in Files : final'[f] = final[f] \/ final'[f] = 0
    BY <1>0, <2>1 DEF FilesTyped
  <2>3. FilesTyped' /\ TasksFit'
    BY <1>0, <2>1 DEF FilesTyped, TasksFit, Writing, Step
  <2>4. LinkedOnce' /\ WritersFit'
    BY <1>0, <2>1, <2>2, NamesDropped
  <2> QED
    BY <2>3, <2>4 DEF FilesInv
<1>8. CASE task' = [t \in Tasks |-> Idle] /\ UNCHANGED <<disk, part, final>>
  <2>1. \A t \in Tasks : task'[t] = Idle
    BY <1>8
  <2>2. FilesTyped'
    BY <1>0, <1>8 DEF FilesTyped, Shape, Idle
  <2>3. TasksFit' /\ WritersFit'
    BY <2>1 DEF TasksFit, WritersFit, Writing, Step, Idle
  <2>4. LinkedOnce'
    BY <1>0, <1>8 DEF LinkedOnce
  <2> QED
    BY <2>2, <2>3, <2>4 DEF FilesInv
<1>9. CASE UNCHANGED <<task, disk, part, final>>
  BY <1>0, <1>9 DEF FilesInv, FilesTyped, Shape, TasksFit, LinkedOnce, WritersFit, Writing, Step
<1>10. CASE UNCHANGED vars
  BY <1>9, <1>10 DEF vars, cacheVars
<1> QED
  BY <1>1, <1>2, <1>3, <1>4, <1>5, <1>6, <1>7, <1>8, <1>9, <1>10, OtherSteps DEF DownloadStep
-----------------------------------------------------------------------------
(* Downloads that race *)

\* A file that has a name will have every block of its message: each is there, or somebody who writes
\* into the file has not come to it yet.
Comes(i, m) ==
    /\ Len(disk[i]) <= Size(m)
    /\ \A p \in 1..Size(m) :
          \/ p <= Len(disk[i]) /\ disk[i][p] = ContentOf[m]
          \/ \E t \in Tasks : Writing(t) /\ task[t].inode = i /\ task[t].at < p
FilesCome ==
    \A m \in Msgs, i \in Inodes : i = part[cache_file_name[m]] \/ i = FileOf(m) => Comes(i, m)

\* The invariant of downloads none of which has failed.
RaceInv == FilesInv /\ (clean => FilesCome)

\* A file that nobody touches still comes when who writes into it goes on or is through.
LEMMA StillComes ==
    ASSUME FilesTyped, NEW i \in Inodes, NEW m \in Msgs, Comes(i, m), disk'[i] = disk[i],
           \A u \in Tasks : Writing(u) /\ task[u].inode = i /\ task[u].at < Size(m) => task'[u] = task[u]
    PROVE  Comes(i, m)'
<1>1. Len(disk'[i]) <= Size(m)
  BY DEF Comes
<1>2. ASSUME NEW p \in 1..Size(m), ~(p <= Len(disk[i]) /\ disk[i][p] = ContentOf[m])
      PROVE  \E t \in Tasks : Writing(t)' /\ task'[t].inode = i /\ task'[t].at < p
  <2>1. PICK t \in Tasks : Writing(t) /\ task[t].inode = i /\ task[t].at < p
    BY <1>2 DEF Comes
  <2>2. task[t].at < Size(m)
    BY <2>1, Sizes DEF FilesTyped, Shape
  <2>3. task'[t] = task[t]
    BY <2>1, <2>2
  <2> QED
    BY <2>1, <2>3 DEF Writing, Step
<1> QED
  BY <1>1, <1>2 DEF Comes

\* No step of a download undoes what the others rely on.
LEMMA RaceStep ==
    ASSUME NamesTellContents, RaceInv, [Next]_vars
    PROVE  RaceInv'
<1>0. FilesInv'
  BY FilesStep DEF RaceInv
<1> SUFFICES ASSUME clean', NEW m \in Msgs, NEW i \in Inodes,
                    i = part'[cache_file_name[m]] \/ i = final'[cache_file_name[m]]
             PROVE  Comes(i, m)'
  BY <1>0 DEF RaceInv, FilesCome, FileOf
<1>1. FilesInv /\ FilesTyped /\ TasksFit /\ LinkedOnce /\ WritersFit
  BY DEF RaceInv, FilesInv
<1>2. PICK f \in Files : f = cache_file_name[m]
  BY Sizes
<1>3. ASSUME clean, i = part[f] \/ i = final[f] PROVE Comes(i, m)
  BY <1>2, <1>3 DEF RaceInv, FilesCome, FileOf
<1>4. ASSUME NEW t \in Tasks, NEW n \in Msgs, download_media(t, n) PROVE Comes(i, m)'
  <2>1. /\ \A u \in Tasks \ {t} : task'[u] = task[u]
        /\ ~Writing(t) /\ UNCHANGED <<disk, part, final, clean>>
    BY <1>1, <1>4, Started
  <2> QED
    BY <1>1, <1>2, <1>3, <2>1, StillComes
<1>5. ASSUME NEW t \in Tasks, create(t) PROVE Comes(i, m)'
  <2>1. PICK n \in Msgs, j \in Inodes :
             /\ n = task[t].msg
             /\ j = part[cache_file_name[n]] \/ (part[cache_file_name[n]] = 0 /\ ~InUse(j))
             /\ part' = [part EXCEPT ![cache_file_name[n]] = j]
             /\ disk' = [disk EXCEPT ![j] = <<>>]
             /\ task'[t] = [step |-> "write", msg |-> n, inode |-> j, at |-> 0]
             /\ \A u \in Tasks \ {t} : task'[u] = task[u]
             /\ ~Writing(t) /\ UNCHANGED <<final, clean>>
    BY <1>1, <1>5, Created
  <2>2. CASE i = j
    <3>1. disk'[i] = <<>>
      BY <1>1, <2>1, <2>2 DEF FilesTyped
    <3>2. Writing(t)' /\ task'[t].inode = i /\ task'[t].at = 0
      BY <2>1, <2>2 DEF Writing, Step
    <3>3. Len(disk'[i]) = 0
      BY <3>1
    <3>4. Size(m) \in Nat
      BY Sizes
    <3>5. \A p \in 1..Size(m) : \E u \in Tasks : Writing(u)' /\ task'[u].inode = i /\ task'[u].at < p
      BY <3>2, <3>4
    <3> QED
      BY <3>3, <3>4, <3>5 DEF Comes
  <2>3. CASE i # j
    <3>1. disk'[i] = disk[i]
      BY <1>1, <2>1, <2>3 DEF FilesTyped
    <3>2. i = part[f] \/ i = final[f]
      BY <1>1, <1>2, <2>1, <2>3 DEF FilesTyped
    <3> QED
      BY <1>1, <1>2, <1>3, <2>1, <3>1, <3>2, StillComes
  <2> QED
    BY <2>2, <2>3
<1>6. ASSUME NEW t \in Tasks, write(t) PROVE Comes(i, m)'
  <2>1. PICK n \in Msgs, j \in Inodes, a \in Nat :
             /\ Writing(t) /\ n = task[t].msg /\ j = task[t].inode /\ a = task[t].at /\ a < Size(n)
             /\ disk' = [disk EXCEPT ![j] = WriteAt(disk[j], a, ContentOf[n])]
             /\ task'[t] = [step |-> "write", msg |-> n, inode |-> j, at |-> a + 1]
             /\ \A u \in Tasks \ {t} : task'[u] = task[u]
             /\ UNCHANGED <<part, final, clean>>
    BY <1>1, <1>6, Written
  <2>2. Comes(i, m)
    BY <1>2, <1>3, <2>1
  <2>3. CASE i # j
    <3>1. disk'[i] = disk[i]
      BY <1>1, <2>1, <2>3 DEF FilesTyped
    <3> QED
      BY <1>1, <2>1, <2>2, <2>3, <3>1, StillComes
  <2>4. CASE i = j
    <3>1. cache_file_name[n] = cache_file_name[m]
      BY <1>1, <1>2, <2>1, <2>4 DEF WritersFit
    <3>2. ContentOf[n] = ContentOf[m] /\ Size(n) = Size(m)
      BY <3>1 DEF NamesTellContents, Size
    <3>3. PICK s \in Seq(Contents \cup {Hole}) : s = disk[i]
      BY <1>1 DEF FilesTyped
    <3>4. PICK c \in Contents : c = ContentOf[m]
      BY Sizes
    <3>5. PICK w : w = WriteAt(s, a, c)
      OBVIOUS
    <3>6. /\ Len(w) = IF Len(s) >= a + 1 THEN Len(s) ELSE a + 1
          /\ \A p \in 1..Len(s) : p # a + 1 => w[p] = s[p]
          /\ w[a + 1] = c
      BY <3>5, WriteAtIs
    <3>7. disk'[i] = w
      BY <1>1, <2>1, <2>4, <3>2, <3>3, <3>4, <3>5 DEF FilesTyped
    <3>8. PICK z \in Nat : z = Size(m)
      BY Sizes
    <3>9. Len(s) \in Nat /\ Len(s) <= z /\ a < z
      BY <2>1, <2>2, <3>2, <3>3, <3>8 DEF Comes
    <3>10. Len(w) <= z
      BY <3>6, <3>9
    <3>11. ASSUME NEW p \in 1..z, ~(p <= Len(w) /\ w[p] = c)
           PROVE  \E u \in Tasks : Writing(u)' /\ task'[u].inode = i /\ task'[u].at < p
      <4>1. p # a + 1 /\ ~(p <= Len(s) /\ s[p] = c)
        BY <3>6, <3>9, <3>11
      <4>2. PICK u \in Tasks : Writing(u) /\ task[u].inode = i /\ task[u].at < p
        BY <2>2, <3>3, <3>4, <3>8, <4>1 DEF Comes
      <4>3. CASE u = t
        <5>1. a < p
          BY <2>1, <4>2, <4>3
        <5>2. task'[t].at < p
          BY <2>1, <4>1, <5>1
        <5> QED
          BY <2>1, <2>4, <5>2 DEF Writing, Step
      <4>4. CASE u # t
        BY <2>1, <4>2, <4>4 DEF Writing, Step
      <4> QED
        BY <4>3, <4>4
    <3> QED
      BY <3>4, <3>7, <3>8, <3>10, <3>11 DEF Comes
  <2> QED
    BY <2>3, <2>4
<1>7. ASSUME NEW t \in Tasks, rename(t) PROVE Comes(i, m)'
  <2>1. PICK n \in Msgs :
             /\ Writing(t) /\ n = task[t].msg /\ task[t].at = Size(n)
             /\ \/ /\ part[cache_file_name[n]] # 0
                   /\ final' = [final EXCEPT ![cache_file_name[n]] = part[cache_file_name[n]]]
                   /\ part' = [part EXCEPT ![cache_file_name[n]] = 0]
                   /\ task'[t] = [step |-> "record", msg |-> n, inode |-> 0, at |-> 0]
                \/ part[cache_file_name[n]] = 0 /\ task'[t] = Idle /\ UNCHANGED <<final, part>>
             /\ \A u \in Tasks \ {t} : task'[u] = task[u]
             /\ UNCHANGED <<disk, clean>>
    BY <1>1, <1>7, Renamed
  <2>2. i = part[f] \/ i = final[f]
    BY <1>1, <1>2, <2>1, InodesAreNotZero DEF FilesTyped
  <2>3. ASSUME task[t].inode = i PROVE task[t].at = Size(m)
    <3>1. cache_file_name[n] = cache_file_name[m]
      BY <1>1, <1>2, <2>1, <2>2, <2>3 DEF WritersFit
    <3> QED
      BY <2>1, <3>1 DEF NamesTellContents, Size
  <2>4. Size(m) \in Nat
    BY Sizes
  <2>5. \A u \in Tasks : Writing(u) /\ task[u].inode = i /\ task[u].at < Size(m) => task'[u] = task[u]
    BY <2>1, <2>3, <2>4
  <2> QED
    BY <1>1, <1>3, <2>1, <2>2, <2>5, StillComes
<1>8. ASSUME NEW t \in Tasks, download_fails(t) PROVE FALSE
  BY <1>8 DEF download_fails
<1>9. ASSUME NEW t \in Tasks, upsert_media_record(t) PROVE Comes(i, m)'
  <2>1. ~Writing(t) /\ (\A u \in Tasks \ {t} : task'[u] = task[u]) /\ UNCHANGED <<disk, part, final, clean>>
    BY <1>1, <1>9, Recorded
  <2> QED
    BY <1>1, <1>2, <1>3, <2>1, StillComes
<1>10. ASSUME NEW n \in Files, file_removed(n) PROVE Comes(i, m)'
  <2>1. final' = [final EXCEPT ![n] = 0] /\ UNCHANGED <<task, disk, part, clean>>
    BY <1>10 DEF file_removed
  <2>2. i = part[f] \/ i = final[f]
    BY <1>1, <1>2, <2>1, InodesAreNotZero DEF FilesTyped
  <2> QED
    BY <1>1, <1>3, <2>1, <2>2, StillComes
<1>11. CASE UNCHANGED <<task, disk, part, final, clean>>
  BY <1>1, <1>2, <1>3, <1>11, StillComes
<1>12. CASE UNCHANGED vars
  BY <1>11, <1>12 DEF vars, cacheVars
<1> QED
  BY <1>4, <1>5, <1>6, <1>7, <1>8, <1>9, <1>10, <1>11, <1>12, OtherSteps DEF DownloadStep
-----------------------------------------------------------------------------
(* One download at a time *)

\* A cached file has every block of its messages, and the one being written, which still has its .part name, has
\* those that were written.
FilesWhole == \A m \in Msgs : FileOf(m) # 0 => disk[FileOf(m)] = Full(m)
WrittenSoFar ==
    \A t \in Tasks :
        Writing(t) => /\ part[cache_file_name[task[t].msg]] = task[t].inode
                      /\ Len(disk[task[t].inode]) = task[t].at
                      /\ \A p \in 1..task[t].at : disk[task[t].inode][p] = ContentOf[task[t].msg]

AloneInv == FilesInv /\ FilesWhole /\ WrittenSoFar

\* What messages of one name are made of.
LEMMA OneContent ==
    ASSUME NamesTellContents, NEW m \in Msgs, NEW n \in Msgs, cache_file_name[m] = cache_file_name[n]
    PROVE  Full(m) = Full(n) /\ Size(m) = Size(n) /\ ContentOf[m] = ContentOf[n]
<1>1. ContentOf[m] = ContentOf[n]
  BY DEF NamesTellContents
<1> QED
  BY <1>1 DEF Full, Size

\* A file that has every block is the whole content.
LEMMA WholeIsFull ==
    ASSUME NEW m \in Msgs, NEW s \in Seq(Contents \cup {Hole}), Len(s) = Size(m), \A p \in 1..Size(m) : s[p] = ContentOf[m]
    PROVE  s = Full(m)
<1>1. s = [p \in 1..Len(s) |-> s[p]]
  OBVIOUS
<1> QED
  BY <1>1 DEF Full

\* Files that nobody writes and names that go away keep what is said of one download at a time.
LEMMA WholeStays ==
    ASSUME AloneInv, UNCHANGED disk,
           \A g \in Files : final'[g] = final[g] \/ final'[g] = 0,
           \A u \in Tasks : Writing(u)' => task'[u] = task[u] /\ part'[cache_file_name[task[u].msg]] = part[cache_file_name[task[u].msg]]
    PROVE  FilesWhole' /\ WrittenSoFar'
<1>1. ASSUME NEW m \in Msgs, final'[cache_file_name[m]] # 0 PROVE disk[final'[cache_file_name[m]]] = Full(m)
  <2>1. cache_file_name[m] \in Files
    BY Sizes
  <2>2. final'[cache_file_name[m]] = final[cache_file_name[m]]
    BY <1>1, <2>1
  <2> QED
    BY <1>1, <2>2 DEF AloneInv, FilesWhole, FileOf
<1>2. FilesWhole'
  BY <1>1 DEF FilesWhole, FileOf, Full, Size
<1>3. ASSUME NEW u \in Tasks, Writing(u)'
      PROVE  /\ part'[cache_file_name[task'[u].msg]] = task'[u].inode
             /\ Len(disk'[task'[u].inode]) = task'[u].at
             /\ \A p \in 1..task'[u].at : disk'[task'[u].inode][p] = ContentOf[task'[u].msg]
  <2>1. task'[u] = task[u] /\ Writing(u)
    BY <1>3 DEF Writing, Step
  <2> QED
    BY <1>3, <2>1 DEF AloneInv, WrittenSoFar
<1> QED
  BY <1>2, <1>3 DEF WrittenSoFar

\* While the others are idle, no step of the one download leaves a file that is not whole.
LEMMA AloneStep ==
    ASSUME NamesTellContents, AloneInv, OneAtATime, [Next]_vars
    PROVE  AloneInv'
<1>0. FilesInv'
  BY FilesStep DEF AloneInv
<1>1. FilesInv /\ FilesTyped /\ TasksFit /\ LinkedOnce /\ WritersFit /\ FilesWhole /\ WrittenSoFar
  BY DEF AloneInv, FilesInv
<1>2. ASSUME NEW t \in Tasks, ~Step(t, "idle"), NEW u \in Tasks \ {t} PROVE ~Writing(u)
  BY <1>2 DEF OneAtATime, Writing, Step
<1>3. ASSUME NEW t \in Tasks, NEW m \in Msgs, download_media(t, m) PROVE AloneInv'
  <2>1. PICK s \in {"record", "create"} : task'[t] = [step |-> s, msg |-> m, inode |-> 0, at |-> 0]
    BY <1>1, <1>3, Started
  <2>2. (\A u \in Tasks \ {t} : task'[u] = task[u]) /\ UNCHANGED <<disk, part, final>>
    BY <1>1, <1>3, Started
  <2>3. ~Writing(t)'
    BY <2>1 DEF Writing, Step
  <2> QED
    BY <1>0, <2>2, <2>3, WholeStays DEF AloneInv
<1>4. ASSUME NEW t \in Tasks, create(t) PROVE AloneInv'
  <2>1. PICK m \in Msgs, i \in Inodes :
             /\ m = task[t].msg
             /\ i = part[cache_file_name[m]] \/ (part[cache_file_name[m]] = 0 /\ ~InUse(i))
             /\ part' = [part EXCEPT ![cache_file_name[m]] = i]
             /\ disk' = [disk EXCEPT ![i] = <<>>]
             /\ task'[t] = [step |-> "write", msg |-> m, inode |-> i, at |-> 0]
             /\ \A u \in Tasks \ {t} : task'[u] = task[u]
             /\ ~Writing(t) /\ UNCHANGED <<final, clean>>
    BY <1>1, <1>4, Created
  <2>2. PICK f \in Files : f = cache_file_name[m]
    BY Sizes
  <2>3. \A g \in Files : final[g] # i
    BY <1>1, <2>1, <2>2, InodesAreNotZero DEF LinkedOnce, InUse
  <2>4. ASSUME NEW n \in Msgs, final[cache_file_name[n]] # 0 PROVE disk'[final[cache_file_name[n]]] = Full(n)
    <3>1. cache_file_name[n] \in Files
      BY Sizes
    <3>2. final[cache_file_name[n]] \in Inodes /\ final[cache_file_name[n]] # i
      BY <1>1, <2>3, <2>4, <3>1 DEF FilesTyped
    <3>3. disk'[final[cache_file_name[n]]] = disk[final[cache_file_name[n]]]
      BY <1>1, <2>1, <3>2 DEF FilesTyped
    <3> QED
      BY <1>1, <2>4, <3>3 DEF FilesWhole, FileOf
  <2>5. FilesWhole'
    BY <2>1, <2>4 DEF FilesWhole, FileOf, Full, Size
  <2>6. \A u \in Tasks \ {t} : ~Writing(u)'
    <3>1. ~Step(t, "idle")
      BY <1>4 DEF create, Step
    <3> QED
      BY <1>2, <2>1, <3>1 DEF Writing, Step
  <2>7. disk'[i] = <<>> /\ part'[f] = i
    BY <1>1, <2>1, <2>2 DEF FilesTyped
  <2>8. part'[cache_file_name[task'[t].msg]] = task'[t].inode /\ disk'[task'[t].inode] = <<>> /\ task'[t].at = 0
    BY <2>1, <2>2, <2>7
  <2>9. WrittenSoFar'
    <3>1. Len(<<>>) = 0
      OBVIOUS
    <3> QED
      BY <2>6, <2>8, <3>1 DEF WrittenSoFar
  <2> QED
    BY <1>0, <2>5, <2>9 DEF AloneInv
<1>5. ASSUME NEW t \in Tasks, write(t) PROVE AloneInv'
  <2>1. PICK m \in Msgs, i \in Inodes, a \in Nat :
             /\ Writing(t) /\ m = task[t].msg /\ i = task[t].inode /\ a = task[t].at /\ a < Size(m)
             /\ disk' = [disk EXCEPT ![i] = WriteAt(disk[i], a, ContentOf[m])]
             /\ task'[t] = [step |-> "write", msg |-> m, inode |-> i, at |-> a + 1]
             /\ \A u \in Tasks \ {t} : task'[u] = task[u]
             /\ UNCHANGED <<part, final, clean>>
    BY <1>1, <1>5, Written
  <2>2. PICK f \in Files : f = cache_file_name[m]
    BY Sizes
  <2>3. part[f] = i /\ Len(disk[i]) = a /\ \A p \in 1..a : disk[i][p] = ContentOf[m]
    BY <1>1, <2>1, <2>2 DEF WrittenSoFar
  <2>4. \A g \in Files : final[g] # i
    BY <1>1, <2>3, InodesAreNotZero DEF LinkedOnce
  <2>5. ASSUME NEW n \in Msgs, final[cache_file_name[n]] # 0 PROVE disk'[final[cache_file_name[n]]] = Full(n)
    <3>1. cache_file_name[n] \in Files
      BY Sizes
    <3>2. final[cache_file_name[n]] \in Inodes /\ final[cache_file_name[n]] # i
      BY <1>1, <2>4, <2>5, <3>1 DEF FilesTyped
    <3>3. disk'[final[cache_file_name[n]]] = disk[final[cache_file_name[n]]]
      BY <1>1, <2>1, <3>2 DEF FilesTyped
    <3> QED
      BY <1>1, <2>5, <3>3 DEF FilesWhole, FileOf
  <2>6. FilesWhole'
    BY <2>1, <2>5 DEF FilesWhole, FileOf, Full, Size
  <2>7. \A u \in Tasks \ {t} : ~Writing(u)'
    <3>1. ~Step(t, "idle")
      BY <2>1 DEF Writing, Step
    <3> QED
      BY <1>2, <2>1, <3>1 DEF Writing, Step
  <2>8. PICK s \in Seq(Contents \cup {Hole}), c \in Contents : s = disk[i] /\ c = ContentOf[m]
    BY <1>1, Sizes DEF FilesTyped
  <2>9. PICK w : w = WriteAt(s, a, c)
    OBVIOUS
  <2>10. disk'[i] = w
    BY <1>1, <2>1, <2>8, <2>9 DEF FilesTyped
  <2>11. /\ Len(w) = IF Len(s) >= a + 1 THEN Len(s) ELSE a + 1
         /\ \A p \in 1..Len(s) : p # a + 1 => w[p] = s[p]
         /\ w[a + 1] = c
    BY <2>8, <2>9, WriteAtIs
  <2>12. Len(w) = a + 1 /\ \A p \in 1..(a + 1) : w[p] = c
    BY <2>3, <2>8, <2>11
  <2>13. task'[t].msg = m /\ task'[t].inode = i /\ task'[t].at = a + 1
    BY <2>1
  <2>14. WrittenSoFar'
    BY <2>1, <2>2, <2>3, <2>7, <2>8, <2>10, <2>12, <2>13 DEF WrittenSoFar
  <2> QED
    BY <1>0, <2>6, <2>14 DEF AloneInv
<1>6. ASSUME NEW t \in Tasks, rename(t) PROVE AloneInv'
  <2>1. PICK m \in Msgs :
             /\ Writing(t) /\ m = task[t].msg /\ task[t].at = Size(m)
             /\ \/ /\ part[cache_file_name[m]] # 0
                   /\ final' = [final EXCEPT ![cache_file_name[m]] = part[cache_file_name[m]]]
                   /\ part' = [part EXCEPT ![cache_file_name[m]] = 0]
                   /\ task'[t] = [step |-> "record", msg |-> m, inode |-> 0, at |-> 0]
                \/ part[cache_file_name[m]] = 0 /\ task'[t] = Idle /\ UNCHANGED <<final, part>>
             /\ \A u \in Tasks \ {t} : task'[u] = task[u]
             /\ UNCHANGED <<disk, clean>>
    BY <1>1, <1>6, Renamed
  <2>2. PICK f \in Files : f = cache_file_name[m]
    BY Sizes
  <2>3. PICK i \in Inodes : i = task[t].inode
    BY <1>1, <2>1 DEF TasksFit
  <2>4. part[f] = i /\ Len(disk[i]) = Size(m) /\ \A p \in 1..Size(m) : disk[i][p] = ContentOf[m]
    BY <1>1, <2>1, <2>2, <2>3 DEF WrittenSoFar
  <2>5. disk[i] = Full(m)
    BY <1>1, <2>4, WholeIsFull DEF FilesTyped
  <2>6. final'[f] = i /\ \A g \in Files \ {f} : final'[g] = final[g]
    BY <1>1, <2>1, <2>2, <2>4, InodesAreNotZero DEF FilesTyped
  <2>7. ASSUME NEW n \in Msgs, final'[cache_file_name[n]] # 0 PROVE disk[final'[cache_file_name[n]]] = Full(n)
    <3>1. CASE cache_file_name[n] = f
      BY <2>2, <2>5, <2>6, <3>1, OneContent
    <3>2. CASE cache_file_name[n] # f
      <4>1. final'[cache_file_name[n]] = final[cache_file_name[n]]
        BY <2>6, <3>2, Sizes
      <4> QED
        BY <1>1, <2>7, <4>1 DEF FilesWhole, FileOf
    <3> QED
      BY <3>1, <3>2
  <2>8. FilesWhole'
    BY <2>1, <2>7 DEF FilesWhole, FileOf, Full, Size
  <2>9. \A u \in Tasks \ {t} : ~Writing(u)'
    <3>1. ~Step(t, "idle")
      BY <2>1 DEF Writing, Step
    <3> QED
      BY <1>2, <2>1, <3>1 DEF Writing, Step
  <2>10. ~Writing(t)'
    <3>1. task'[t].step \in {"record", "idle"}
      BY <2>1 DEF Idle
    <3> QED
      BY <3>1 DEF Writing, Step
  <2>11. WrittenSoFar'
    BY <2>9, <2>10 DEF WrittenSoFar
  <2> QED
    BY <1>0, <2>8, <2>11 DEF AloneInv
<1>7. ASSUME NEW t \in Tasks, download_fails(t) PROVE AloneInv'
  <2>1. task'[t] = Idle /\ (\A u \in Tasks \ {t} : task'[u] = task[u]) /\ UNCHANGED <<disk, final>>
    BY <1>1, <1>7, Failed
  <2>2. \A u \in Tasks : ~Writing(u)'
    <3>1. ~Step(t, "idle")
      BY <1>7 DEF download_fails, Step
    <3> QED
      BY <1>2, <2>1, <3>1 DEF Writing, Step, Idle
  <2> QED
    BY <1>0, <2>1, <2>2, WholeStays DEF AloneInv
<1>8. ASSUME NEW t \in Tasks, upsert_media_record(t) PROVE AloneInv'
  <2>1. task'[t] = Idle /\ (\A u \in Tasks \ {t} : task'[u] = task[u]) /\ UNCHANGED <<disk, part, final>>
    BY <1>1, <1>8, Recorded
  <2>2. ~Writing(t)'
    BY <2>1 DEF Writing, Step, Idle
  <2> QED
    BY <1>0, <2>1, <2>2, WholeStays DEF AloneInv
<1>9. ASSUME NEW n \in Files, file_removed(n) PROVE AloneInv'
  <2>1. final' = [final EXCEPT ![n] = 0] /\ UNCHANGED <<task, disk, part>>
    BY <1>9 DEF file_removed
  <2>2. \A f \in Files : final'[f] = final[f] \/ final'[f] = 0
    BY <1>1, <2>1 DEF FilesTyped
  <2> QED
    BY <1>0, <2>1, <2>2, WholeStays DEF AloneInv
<1>10. CASE task' = [t \in Tasks |-> Idle] /\ UNCHANGED <<disk, part, final>>
  <2>1. \A u \in Tasks : ~Writing(u)'
    BY <1>10 DEF Writing, Step, Idle
  <2> QED
    BY <1>0, <1>10, <2>1, WholeStays DEF AloneInv
<1>11. CASE UNCHANGED <<task, disk, part, final>>
  BY <1>0, <1>11, WholeStays DEF AloneInv
<1>12. CASE UNCHANGED vars
  BY <1>11, <1>12 DEF vars, cacheVars
<1> QED
  BY <1>3, <1>4, <1>5, <1>6, <1>7, <1>8, <1>9, <1>10, <1>11, <1>12, OtherSteps DEF DownloadStep

-----------------------------------------------------------------------------
(* The cache *)

\* A fresh client has no cached files and downloads nothing.
LEMMA CacheBegins ==
    ASSUME Init
    PROVE  AloneInv /\ RaceInv /\ \A t \in Tasks : Step(t, "idle")
<1>1. /\ disk = [i \in Inodes |-> <<>>]
      /\ part = [f \in Files |-> 0] /\ final = [f \in Files |-> 0]
      /\ task = [t \in Tasks |-> Idle]
  BY DEF Init, CacheInit
<1>2. <<>> \in Seq(Contents \cup {Hole})
  OBVIOUS
<1>3. Idle \in Shape
  BY DEF Idle, Shape
<1>4. FilesTyped
  BY <1>1, <1>2, <1>3 DEF FilesTyped
<1>5. \A t \in Tasks : Step(t, "idle") /\ ~Writing(t) /\ task[t].inode = 0 /\ task[t].at = 0
  BY <1>1 DEF Step, Writing, Idle
<1>6. TasksFit /\ WritersFit /\ WrittenSoFar
  BY <1>5 DEF TasksFit, WritersFit, WrittenSoFar
<1>7. LinkedOnce
  BY <1>1 DEF LinkedOnce
<1>8. FilesWhole /\ FilesCome
  BY <1>1, Sizes, InodesAreNotZero DEF FilesWhole, FilesCome, FileOf
<1> QED
  BY <1>4, <1>5, <1>6, <1>7, <1>8 DEF AloneInv, RaceInv, FilesInv

\* Once all downloads are through and none failed, what was to come has come.
LEMMA QuietIsWhole ==
    ASSUME RaceInv
    PROVE  QuietCacheIsWhole
<1> SUFFICES ASSUME clean, \A t \in Tasks : Step(t, "idle"), NEW m \in Msgs, FileOf(m) # 0
             PROVE  disk[FileOf(m)] = Full(m)
  BY DEF QuietCacheIsWhole
<1>1. cache_file_name[m] \in Files
  BY Sizes
<1>2. PICK i \in Inodes : i = FileOf(m)
  BY <1>1 DEF FileOf, RaceInv, FilesInv, FilesTyped
<1>3. Comes(i, m)
  BY <1>2 DEF RaceInv, FilesCome
<1>4. \A t \in Tasks : ~Writing(t)
  BY DEF Writing, Step
<1>5. PICK s \in Seq(Contents \cup {Hole}) : s = disk[i]
  BY DEF RaceInv, FilesInv, FilesTyped
<1>6. Len(s) <= Size(m) /\ \A p \in 1..Size(m) : p <= Len(s) /\ s[p] = ContentOf[m]
  BY <1>3, <1>4, <1>5 DEF Comes
<1>7. Size(m) \in Nat /\ Size(m) >= 1 /\ Len(s) \in Nat
  BY <1>5, Sizes
<1>8. Len(s) = Size(m)
  BY <1>6, <1>7
<1> QED
  BY <1>2, <1>5, <1>6, <1>8, WholeIsFull

\* However downloads that share a file truncate and overtake each other, once all are through and none
\* has failed every cached file is whole (download_to_cache).
THEOREM RacesEndWhole ==
    ASSUME NamesTellContents
    PROVE  Spec => []QuietCacheIsWhole
<1>1. RaceInv /\ [Next]_vars => RaceInv'
  BY RaceStep
<1>2. Init => RaceInv
  BY CacheBegins
<1>3. RaceInv => QuietCacheIsWhole
  BY QuietIsWhole
<1> QED
  BY <1>1, <1>2, <1>3, PTL DEF Spec

\* What the model checker's run calls alone.
CacheInv == RaceInv /\ (alone => OneAtATime /\ AloneInv)

\* A cached file that is served is whole while downloads run one after the other, wherever they fail or
\* the process ends, and once they are through when they race.
THEOREM CacheHolds ==
    ASSUME NamesTellContents
    PROVE  MCSpec => []CacheIsSound
<1>1. MCInit => CacheInv
  BY CacheBegins DEF MCInit, CacheInv, OneAtATime
<1>2. CacheInv /\ [MCNext]_<<vars, alone>> => CacheInv'
  <2>1. ASSUME CacheInv, MCNext PROVE CacheInv'
    <3>1. RaceInv'
      BY <2>1, RaceStep DEF CacheInv, MCNext
    <3>2. ASSUME alone' PROVE OneAtATime' /\ AloneInv'
      BY <2>1, <3>2, AloneStep DEF CacheInv, MCNext
    <3> QED
      BY <3>1, <3>2 DEF CacheInv
  <2>2. ASSUME CacheInv, UNCHANGED <<vars, alone>> PROVE CacheInv'
    <3>1. RaceInv'
      BY <2>2, RaceStep DEF CacheInv
    <3>2. ASSUME alone' PROVE OneAtATime' /\ AloneInv'
      <4>1. alone /\ UNCHANGED vars
        BY <2>2, <3>2
      <4>2. AloneInv'
        BY <2>2, <4>1, AloneStep DEF CacheInv
      <4>3. OneAtATime'
        BY <2>2, <4>1 DEF CacheInv, vars, cacheVars, OneAtATime, Step
      <4> QED
        BY <4>2, <4>3
    <3> QED
      BY <3>1, <3>2 DEF CacheInv
  <2> QED
    BY <2>1, <2>2
<1>3. CacheInv => CacheIsSound
  <2>1. AloneInv => EntriesAreComplete
    BY DEF AloneInv, FilesWhole, EntriesAreComplete, is_complete_cache_entry
  <2> QED
    BY <2>1, QuietIsWhole DEF CacheInv, CacheIsSound
<1> QED
  BY <1>1, <1>2, <1>3, PTL DEF MCSpec
-----------------------------------------------------------------------------
(* Sends *)

Kinds == {"image", "sticker", "gif", "video", "audio", "document"}
Legal(p) == p \in Pick /\ (p.video_note => classify_outgoing[p.extension] = "video")

SendTyped ==
    /\ pick \in [Sent -> Pick \cup {None}]
    /\ sending \in [Sent -> {"no", "upload", "send", "failed", "save", "raw", "done"}]
    /\ stored \in [Msgs -> Kinds \cup {None}]

\* What each step of a send has done: nothing is stored before the answer, and the kind that is stored is that of the
\* file that was picked.
PhaseFits(m) ==
    /\ ~At(m, "no") => Legal(pick[m])
    /\ sending[m] \in {"no", "upload", "send", "save"} => stored[m] = None /\ m \notin raw
    /\ At(m, "save") \/ stored[m] # None => m \in accepted
    /\ At(m, "raw") => stored[m] = KindOf(m)
    /\ At(m, "done") => m \in raw
    /\ m \in raw => stored[m] = KindOf(m)
SendInv == SendTyped /\ \A m \in Sent : PhaseFits(m)

\* Every extension stands for a kind.
LEMMA KindsAre ==
    ASSUME NEW m \in Sent, Legal(pick[m])
    PROVE  KindOf(m) \in Kinds /\ (pick[m].video_note => KindOf(m) = "video") /\ pick[m].video_note \in BOOLEAN
<1>1. \A e \in DOMAIN classify_outgoing : classify_outgoing[e] \in Kinds
  BY DEF classify_outgoing, Kinds
<1> QED
  BY <1>1 DEF Legal, Pick, KindOf

\* A reader of the payload takes it for what it was made of.
LEMMA PayloadTells ==
    ASSUME NEW m \in Sent, Legal(pick[m])
    PROVE  classify_media(build_outgoing_message(m)) = KindOf(m)
<1>1. KindOf(m) \in Kinds /\ (pick[m].video_note => KindOf(m) = "video") /\ pick[m].video_note \in BOOLEAN
  BY KindsAre
<1>2. CASE KindOf(m) \in {"image", "sticker", "audio", "document"}
  <2>1. FieldOf(m) = KindOf(m) /\ build_outgoing_message(m) = [field |-> KindOf(m), flag |-> FALSE]
    BY <1>2 DEF FieldOf, build_outgoing_message
  <2> QED
    BY <1>2, <2>1 DEF classify_media
<1>3. CASE KindOf(m) = "video"
  <2>1. FieldOf(m) \in {"video", "ptv"} /\ build_outgoing_message(m) = [field |-> FieldOf(m), flag |-> FALSE]
    BY <1>3 DEF FieldOf, build_outgoing_message
  <2> QED
    BY <1>3, <2>1 DEF classify_media
<1>4. CASE KindOf(m) = "gif"
  <2>1. FieldOf(m) = "video" /\ build_outgoing_message(m) = [field |-> "video", flag |-> TRUE]
    BY <1>1, <1>4 DEF FieldOf, build_outgoing_message
  <2> QED
    BY <1>4, <2>1 DEF classify_media
<1> QED
  BY <1>1, <1>2, <1>3, <1>4 DEF Kinds

\* A step of the downloads leaves the sends alone.
LEMMA OtherSends ==
    ASSUME SendInv, UNCHANGED <<sendVars, raw>>, clean' => clean
    PROVE  SendInv'
<1>1. SendTyped'
  BY DEF SendInv, SendTyped, sendVars
<1>2. ASSUME NEW m \in Sent PROVE PhaseFits(m)'
  BY DEF SendInv, PhaseFits, sendVars, At, KindOf
<1> QED
  BY <1>1, <1>2 DEF SendInv

\* A step of one send keeps what is said of all.
LEMMA SendKept ==
    ASSUME SendInv, NEW m \in Sent, Sent \subseteq Msgs, SendStep(m)
    PROVE  SendInv'
<1>0. SendTyped /\ PhaseFits(m) /\ \A n \in Sent : PhaseFits(n)
  BY DEF SendInv
<1>1. CASE send_file_with(m)
  <2>1. PICK p \in Pick : /\ p.video_note => classify_outgoing[p.extension] = "video" /\ p.readable
                          /\ pick' = [pick EXCEPT ![m] = p]
    BY <1>1 DEF send_file_with
  <2>2. At(m, "no") /\ sending' = [sending EXCEPT ![m] = "upload"] /\ UNCHANGED <<raw, clean, accepted, stored>>
    BY <1>1 DEF send_file_with, To, cacheVars
  <2>3. SendTyped'
    BY <1>0, <2>1, <2>2 DEF SendTyped
  <2>4. sending'[m] = "upload" /\ pick'[m] = p /\ \A n \in Sent \ {m} : sending'[n] = sending[n] /\ pick'[n] = pick[n]
    BY <1>0, <2>1, <2>2 DEF SendTyped
  <2>5. PhaseFits(m)'
    BY <1>0, <2>1, <2>2, <2>4 DEF PhaseFits, At, Legal
  <2>6. ASSUME NEW n \in Sent \ {m} PROVE PhaseFits(n)'
    BY <1>0, <2>2, <2>4 DEF PhaseFits, At, KindOf
  <2> QED
    BY <2>3, <2>5, <2>6 DEF SendInv
<1>2. CASE uploaded(m) \/ send_answered(m)
  <2>1. PICK s \in {"failed", "send", "save"} :
          /\ sending' = [sending EXCEPT ![m] = s]
          /\ s = "save" => m \in accepted
    BY <1>2 DEF uploaded, send_answered, To
  <2>2. sending[m] \in {"upload", "send"} /\ UNCHANGED <<raw, clean, pick, accepted, stored>>
    BY <1>2 DEF uploaded, send_answered, cacheVars, At
  <2>3. sending'[m] = s /\ \A n \in Sent \ {m} : sending'[n] = sending[n]
    BY <1>0, <2>1 DEF SendTyped
  <2>4. SendTyped'
    BY <1>0, <2>1, <2>2 DEF SendTyped
  <2>5. PhaseFits(m)'
    BY <1>0, <2>1, <2>2, <2>3 DEF PhaseFits, At, KindOf
  <2>6. ASSUME NEW n \in Sent \ {m} PROVE PhaseFits(n)'
    BY <1>0, <2>2, <2>3 DEF PhaseFits, At, KindOf
  <2> QED
    BY <2>4, <2>5, <2>6 DEF SendInv
<1>3. CASE server_accepts(m)
  <2>1. accepted \subseteq accepted' /\ UNCHANGED <<raw, clean, pick, sending, stored>>
    BY <1>3 DEF server_accepts, cacheVars
  <2>2. SendTyped'
    BY <1>0, <2>1 DEF SendTyped
  <2>3. ASSUME NEW n \in Sent PROVE PhaseFits(n)'
    BY <1>0, <2>1 DEF PhaseFits, At, KindOf
  <2> QED
    BY <2>2, <2>3 DEF SendInv
<1>4. CASE save_outgoing_message(m) /\ To(m, "raw")
  <2>1. /\ At(m, "save") /\ stored' = [stored EXCEPT ![m] = KindOf(m)] /\ sending' = [sending EXCEPT ![m] = "raw"]
        /\ UNCHANGED <<raw, clean, pick, accepted>>
    <3>1. stored' = [stored EXCEPT ![m] = KindOf(m)]
      <4>1. CASE To(m, "failed")
        BY <1>0, <1>4, <4>1 DEF To, SendTyped
      <4> QED
        BY <1>4, <4>1 DEF save_outgoing_message
    <3> QED
      BY <1>4, <3>1 DEF save_outgoing_message, To, cacheVars
  <2>2. KindOf(m) \in Kinds
    BY <1>0, <2>1, KindsAre DEF PhaseFits, At
  <2>3. SendTyped'
    BY <1>0, <2>1, <2>2 DEF SendTyped
  <2>4. /\ sending'[m] = "raw" /\ stored'[m] = KindOf(m)
        /\ \A n \in Sent \ {m} : sending'[n] = sending[n] /\ stored'[n] = stored[n]
    BY <1>0, <2>1 DEF SendTyped
  <2>5. PhaseFits(m)'
    BY <1>0, <2>1, <2>4 DEF PhaseFits, At, KindOf
  <2>6. ASSUME NEW n \in Sent \ {m} PROVE PhaseFits(n)'
    BY <1>0, <2>1, <2>4 DEF PhaseFits, At, KindOf
  <2> QED
    BY <2>3, <2>5, <2>6 DEF SendInv
<1>5. CASE set_raw_proto(m) /\ To(m, "done")
  <2>1. /\ At(m, "raw") /\ raw' = raw \cup {m} /\ sending' = [sending EXCEPT ![m] = "done"]
        /\ UNCHANGED <<clean, pick, accepted, stored>>
    <3>1. raw' = raw \cup {m}
      <4>1. CASE To(m, "failed")
        BY <1>0, <1>5, <4>1 DEF To, SendTyped
      <4> QED
        BY <1>5, <4>1 DEF set_raw_proto
    <3> QED
      BY <1>5, <3>1 DEF set_raw_proto, To
  <2>2. SendTyped'
    BY <1>0, <2>1 DEF SendTyped
  <2>3. sending'[m] = "done" /\ \A n \in Sent \ {m} : sending'[n] = sending[n]
    BY <1>0, <2>1 DEF SendTyped
  <2>4. PhaseFits(m)'
    BY <1>0, <2>1, <2>3 DEF PhaseFits, At, KindOf
  <2>5. ASSUME NEW n \in Sent \ {m} PROVE PhaseFits(n)'
    BY <1>0, <2>1, <2>3 DEF PhaseFits, At, KindOf
  <2> QED
    BY <2>2, <2>4, <2>5 DEF SendInv
<1> DEFINE WriteFails == /\ sending[m] \in {"save", "raw"} /\ To(m, "failed")
                         /\ UNCHANGED <<raw, clean, pick, accepted, stored>>
<1>6. CASE WriteFails
  <2>1. sending'[m] = "failed" /\ \A n \in Sent \ {m} : sending'[n] = sending[n]
    BY <1>0, <1>6 DEF SendTyped, To
  <2>2. SendTyped'
    BY <1>0, <1>6 DEF SendTyped, To
  <2>3. ASSUME NEW n \in Sent PROVE PhaseFits(n)'
    BY <1>0, <1>6, <2>1 DEF PhaseFits, At, KindOf
  <2> QED
    BY <2>2, <2>3 DEF SendInv
<1>7. save_outgoing_message(m) => (save_outgoing_message(m) /\ To(m, "raw")) \/ WriteFails
  BY DEF save_outgoing_message, At, cacheVars
<1>8. set_raw_proto(m) => (set_raw_proto(m) /\ To(m, "done")) \/ WriteFails
  BY DEF set_raw_proto, At
<1> QED
  BY <1>1, <1>2, <1>3, <1>4, <1>5, <1>6, <1>7, <1>8 DEF SendStep

\* Sends that the end of the process catches have failed, stored or not.
LEMMA EndsSends ==
    ASSUME SendInv, process_ends
    PROVE  SendInv'
<1>1. sending' = [m \in Sent |-> IF sending[m] \in {"no", "done"} THEN sending[m] ELSE "failed"]
  BY DEF process_ends
<1>2. clean' = FALSE /\ UNCHANGED <<raw, pick, accepted, stored>>
  BY DEF process_ends, crash
<1>3. SendTyped'
  BY <1>1, <1>2 DEF SendInv, SendTyped
<1>4. ASSUME NEW m \in Sent PROVE PhaseFits(m)'
  <2>1. sending'[m] = IF sending[m] \in {"no", "done"} THEN sending[m] ELSE "failed"
    BY <1>1
  <2> QED
    BY <1>2, <2>1 DEF SendInv, PhaseFits, At, KindOf
<1> QED
  BY <1>3, <1>4 DEF SendInv

\* Wherever the upload, the send or a write fails, a media message of this device is only shown when the server
\* took it, its payload says the kind it is shown with, and what send_file answers as sent can be fetched
\* (send_file_with).
THEOREM SendsHold ==
    ASSUME Sent \subseteq Msgs
    PROVE  Spec => []SendsAreWhole
<1>1. Init => SendInv
  <2> SUFFICES ASSUME Init PROVE SendInv
    OBVIOUS
  <2>1. /\ pick = [m \in Sent |-> None] /\ sending = [m \in Sent |-> "no"]
        /\ stored = [m \in Msgs |-> IF m \in Sent THEN None ELSE "image"] /\ raw = Msgs \ Sent
    BY DEF Init, SendInit
  <2>2. SendTyped
    BY <2>1 DEF SendTyped, Kinds
  <2>3. ASSUME NEW m \in Sent PROVE PhaseFits(m)
    BY <2>1 DEF PhaseFits, At
  <2> QED
    BY <2>2, <2>3 DEF SendInv
<1>2. SendInv /\ [Next]_vars => SendInv'
  <2>1. ASSUME SendInv, NEW t \in Tasks, DownloadStep(t), UNCHANGED sendVars PROVE SendInv'
    <3>1. UNCHANGED raw /\ (clean' => clean)
      <4>1. ASSUME NEW m \in Msgs, download_media(t, m) PROVE UNCHANGED raw /\ (clean' => clean)
        BY <4>1 DEF download_media
      <4>2. CASE create(t)
        BY <4>2 DEF create
      <4>3. CASE write(t)
        BY <4>3 DEF write
      <4>4. CASE rename(t)
        BY <4>4 DEF rename
      <4>5. CASE download_fails(t) \/ upsert_media_record(t)
        BY <4>5 DEF download_fails, upsert_media_record
      <4> QED
        BY <2>1, <4>1, <4>2, <4>3, <4>4, <4>5 DEF DownloadStep
    <3> QED
      BY <2>1, <3>1, OtherSends
  <2>2. ASSUME SendInv, NEW f \in Files, file_removed(f), UNCHANGED sendVars PROVE SendInv'
    BY <2>2, OtherSends DEF file_removed
  <2>3. ASSUME SendInv, UNCHANGED vars PROVE SendInv'
    BY <2>3, OtherSends DEF vars, cacheVars
  <2> QED
    BY <2>1, <2>2, <2>3, SendKept, EndsSends DEF Next
<1>3. SendInv => SendsAreWhole
  <2> SUFFICES ASSUME SendInv PROVE SendsAreWhole
    OBVIOUS
  <2>1. ASSUME NEW m \in Sent, m \in raw PROVE Legal(pick[m])
    BY <2>1 DEF SendInv, PhaseFits, At
  <2>2. SentAsStored
    BY <2>1, PayloadTells DEF SentAsStored, SendInv, PhaseFits
  <2>3. AnsweredCanBeFetched
    <3> SUFFICES ASSUME NEW m \in Sent
                 PROVE  /\ At(m, "done") => m \in raw
                        /\ stored[m] # None /\ m \notin raw => sending[m] \in {"raw", "failed"}
      BY DEF AnsweredCanBeFetched
    <3>1. SendTyped /\ PhaseFits(m)
      BY DEF SendInv
    <3> QED
      BY <3>1 DEF SendTyped, PhaseFits, At
  <2> QED
    BY <2>2, <2>3 DEF SendsAreWhole
<1> QED
  BY <1>1, <1>2, <1>3, PTL DEF Spec
=============================================================================
