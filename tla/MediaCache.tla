------------------------------ MODULE MediaCache ------------------------------
(***************************************************************************)
(* The download side of the media pipeline (media.rs): the cache directory *)
(* as files and open handles, the media table, and download commands that  *)
(* check, write a .part file, rename it and record what they find.  A file *)
(* holds blocks; several messages may carry the same content, and a cache  *)
(* name is made of the digest the message carries.  The network and the    *)
(* process may fail at any point.                                          *)
(***************************************************************************)
EXTENDS Naturals, Sequences, FiniteSets, FiniteSetsExt

CONSTANTS
    Msgs, Contents, Files, None,
    ContentOf,      \* the content the sender uploaded for each message
    Blocks,         \* how many blocks each content has
    cache_file_name,\* the name of the cache file of each message
    Declares,       \* the messages that declare their length
    Tasks

ASSUME CacheAssumption ==
    /\ ContentOf \in [Msgs -> Contents]
    /\ Blocks \in [Contents -> Nat \ {0}]
    /\ cache_file_name \in [Msgs -> Files]
    /\ Declares \subseteq Msgs
    /\ IsFiniteSet(Files) /\ IsFiniteSet(Tasks)
    /\ None \notin Nat \cup Contents \cup Msgs \cup Files

\* A final and a .part file for each name, and one that only a task holds.
Inodes == 1..(2 * Cardinality(Files) + Cardinality(Tasks))
Hole == None

VARIABLES
    raw,        \* the messages whose payload is stored
    media,      \* the media table: the size recorded for a message, or None
    disk,       \* the blocks of each inode
    part,       \* the .part file of each name
    final,      \* the cache file of each name
    task,       \* the download each task runs
    clean       \* no download has failed and the process has not crashed

cacheVars == <<raw, media, disk, part, final, task, clean>>

Size(m) == Blocks[ContentOf[m]]
Full(m) == [i \in 1..Size(m) |-> ContentOf[m]]
Idle == [step |-> "idle", msg |-> None, inode |-> 0, at |-> 0]

CacheInit ==
    /\ media = [m \in Msgs |-> None]
    /\ disk = [i \in Inodes |-> <<>>]
    /\ part = [f \in Files |-> 0]
    /\ final = [f \in Files |-> 0]
    /\ task = [t \in Tasks |-> Idle]
    /\ clean = TRUE

InUse(i) == \/ \E f \in Files : part[f] = i \/ final[f] = i
            \/ \E t \in Tasks : task[t].inode = i

WriteAt(blocks, at, b) ==
    [i \in 1..Max({Len(blocks), at + 1}) |->
        IF i = at + 1 THEN b ELSE IF i <= Len(blocks) THEN blocks[i] ELSE Hole]

FileOf(m) == final[cache_file_name[m]]
FileLength(m) == Len(disk[FileOf(m)])

is_complete_cache_entry(m) == media[m] # None /\ FileOf(m) # 0 /\ media[m] \in {0, FileLength(m)}
cached_file_matches(m) == FileOf(m) # 0 /\ (m \in Declares => FileLength(m) = Size(m))

Step(t, s) == task[t].step = s
Becomes(t, r) == task' = [task EXCEPT ![t] = r]
Goes(t, s) == Becomes(t, [task[t] EXCEPT !.step = s])

\* A complete entry is returned as it is, a file that is there is only recorded.
download_media(t, m) ==
    /\ Step(t, "idle")
    /\ m \in raw
    /\ ~is_complete_cache_entry(m)
    /\ Becomes(t, [Idle EXCEPT !.msg = m, !.step = IF cached_file_matches(m) THEN "record" ELSE "create"])
    /\ UNCHANGED <<raw, media, disk, part, final, clean>>

\* File::create makes the .part file or empties the one that is there, whoever writes it.
create(t) ==
    LET f == cache_file_name[task[t].msg]
        i == IF part[f] # 0 THEN part[f] ELSE CHOOSE x \in Inodes : ~InUse(x) IN
    /\ Step(t, "create")
    /\ part' = [part EXCEPT ![f] = i]
    /\ disk' = [disk EXCEPT ![i] = <<>>]
    /\ Becomes(t, [task[t] EXCEPT !.step = "write", !.inode = i])
    /\ UNCHANGED <<raw, media, final, clean>>

\* mutant: a block past the end
write_past(t) ==
    LET d == task[t] IN
    /\ Step(t, "write") /\ d.at <= Size(d.msg)
    /\ disk' = [disk EXCEPT ![d.inode] = WriteAt(@, d.at, ContentOf[d.msg])]
    /\ Becomes(t, [d EXCEPT !.at = @ + 1])
    /\ UNCHANGED <<raw, media, part, final, clean>>
\* The library writes the next block through the handle.
write(t) ==
    LET d == task[t] IN
    /\ Step(t, "write") /\ d.at < Size(d.msg)
    /\ disk' = [disk EXCEPT ![d.inode] = WriteAt(@, d.at, ContentOf[d.msg])]
    /\ Becomes(t, [d EXCEPT !.at = @ + 1])
    /\ UNCHANGED <<raw, media, part, final, clean>>

\* mutant: moved before everything is written
rename_early(t) ==
    LET f == cache_file_name[task[t].msg] IN
    /\ Step(t, "write") /\ part[f] # 0
    /\ final' = [final EXCEPT ![f] = part[f]]
    /\ part' = [part EXCEPT ![f] = 0]
    /\ Becomes(t, [Idle EXCEPT !.msg = task[t].msg, !.step = "record"])
    /\ UNCHANGED <<raw, media, disk, clean>>
\* Everything is written: the .part file, if there is one, is moved into place.
rename(t) ==
    LET f == cache_file_name[task[t].msg] IN
    /\ Step(t, "write") /\ task[t].at = Size(task[t].msg)
    /\ \/ /\ part[f] # 0
          /\ final' = [final EXCEPT ![f] = part[f]]
          /\ part' = [part EXCEPT ![f] = 0]
          /\ Becomes(t, [Idle EXCEPT !.msg = task[t].msg, !.step = "record"])
       \/ part[f] = 0 /\ Becomes(t, Idle) /\ UNCHANGED <<final, part>>
    /\ UNCHANGED <<raw, media, disk, clean>>

\* The download failed: the .part file is removed.
download_fails(t) ==
    /\ Step(t, "write")
    /\ part' = [part EXCEPT ![cache_file_name[task[t].msg]] = 0]
    /\ Becomes(t, Idle)
    /\ clean' = FALSE
    /\ UNCHANGED <<raw, media, disk, final>>

\* The length of the file is recorded, or the declared one if the file is gone again.
upsert_media_record(t) ==
    LET m == task[t].msg IN
    /\ Step(t, "record")
    /\ media' = [media EXCEPT ![m] = IF FileOf(m) # 0 THEN FileLength(m) ELSE IF m \in Declares THEN Size(m) ELSE 0]
    /\ Becomes(t, Idle)
    /\ UNCHANGED <<raw, disk, part, final, clean>>

\* Somebody clears the cache directory of a file.
file_removed(f) ==
    /\ final[f] # 0
    /\ final' = [final EXCEPT ![f] = 0]
    /\ UNCHANGED <<raw, media, disk, part, task, clean>>

\* The process ends: files and rows stay, handles are gone.
crash ==
    /\ \E t \in Tasks : ~Step(t, "idle")
    /\ task' = [t \in Tasks |-> Idle]
    /\ clean' = FALSE
    /\ UNCHANGED <<raw, media, disk, part, final>>

DownloadStep(t) ==
    \/ \E m \in Msgs : download_media(t, m)
    \/ create(t) \/ write(t) \/ rename(t) \/ download_fails(t) \/ upsert_media_record(t)

-----------------------------------------------------------------------------
CacheTypeOK ==
    /\ raw \subseteq Msgs
    /\ media \in [Msgs -> Nat \cup {None}]
    /\ \A i \in Inodes : \A b \in 1..Len(disk[i]) : disk[i][b] \in Contents \cup {Hole}
    /\ part \in [Files -> {0} \cup Inodes] /\ final \in [Files -> {0} \cup Inodes]
    /\ task \in [Tasks -> [step : {"idle", "create", "write", "record"}, msg : Msgs \cup {None},
                           inode : {0} \cup Inodes, at : 0..Max({Blocks[c] : c \in Contents})]]

\* What a command takes for a complete entry has every block of the message it belongs
\* to: a failed attempt never leaves a plausible entry behind.
EntriesAreComplete == \A m \in Msgs : is_complete_cache_entry(m) => disk[FileOf(m)] = Full(m)

\* Downloads of one file that share its .part file truncate each other's work, but once
\* all of them are through and none failed, every cache file is whole.
QuietCacheIsWhole ==
    clean /\ (\A t \in Tasks : Step(t, "idle"))
       => \A m \in Msgs : FileOf(m) # 0 => disk[FileOf(m)] = Full(m)
=============================================================================
