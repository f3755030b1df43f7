------------------------------ MODULE MediaSend ------------------------------
(***************************************************************************)
(* The upload side of the media pipeline beside the downloads: send_file   *)
(* reads and checks a file, uploads it, builds the payload, sends it and   *)
(* stores the message and then the payload that later downloads, forwards  *)
(* and previews read.                                                      *)
(***************************************************************************)
EXTENDS MediaCache

CONSTANT Sent       \* the messages this device may send; the others arrive

VARIABLES
    pick,       \* the file a message is made of and how it is sent
    sending,    \* the step a send is at
    accepted,   \* the messages the server took
    stored      \* the kind a message is stored with, or None

sendVars == <<pick, sending, accepted, stored>>
vars == <<cacheVars, sendVars>>

\* The kind an extension stands for.
classify_outgoing == [
    jpg |-> "image", webp |-> "sticker", gif |-> "gif", mp4 |-> "video", ogg |-> "audio", pdf |-> "document"]
KindOf(m) == classify_outgoing[pick[m].extension]

\* A file by its extension, whether its duration or size can be read, and the option to
\* send a clip as a video note.
Pick == [extension : DOMAIN classify_outgoing, readable : BOOLEAN, video_note : BOOLEAN]

\* The field of the payload a kind travels in; a video note is a video under its own field.
FieldOf(m) ==
    IF KindOf(m) \notin {"video", "gif"} THEN KindOf(m) ELSE IF pick[m].video_note THEN "ptv" ELSE "video"

\* mutant: the gif_playback flag is not set
build_without_flag(m) == [field |-> FieldOf(m), flag |-> FALSE]
\* The payload, with the flag that tells kinds of one field apart.
build_outgoing_message(m) == [field |-> FieldOf(m), flag |-> KindOf(m) = "gif"]

\* What a reader of the payload takes it for; flag is gif_playback or ptt.
classify_media(p) ==
    CASE p.field = "video" -> IF p.flag THEN "gif" ELSE "video"
      [] p.field = "ptv" -> "video"
      [] p.field = "audio" -> IF p.flag THEN "voice" ELSE "audio"
      [] OTHER -> p.field

SendInit ==
    /\ pick = [m \in Sent |-> None]
    /\ sending = [m \in Sent |-> "no"]
    /\ accepted = {}
    /\ stored = [m \in Msgs |-> IF m \in Sent THEN None ELSE "image"]

Init == CacheInit /\ SendInit /\ raw = Msgs \ Sent

At(m, s) == sending[m] = s
To(m, s) == sending' = [sending EXCEPT ![m] = s]

\* The file is read; a video note must be a video whose length can be read.
send_file_with(m) ==
    /\ At(m, "no")
    /\ \E p \in Pick :
          /\ p.video_note => classify_outgoing[p.extension] = "video" /\ p.readable
          /\ pick' = [pick EXCEPT ![m] = p]
    /\ To(m, "upload")
    /\ UNCHANGED <<cacheVars, accepted, stored>>

\* upload, and the payload is built from its answer: a sticker whose size cannot be read
\* passes the check before the upload and is refused only here.
uploaded(m) ==
    /\ At(m, "upload")
    /\ \/ To(m, "failed")
       \/ (KindOf(m) = "sticker" => pick[m].readable) /\ To(m, "send")
    /\ UNCHANGED <<cacheVars, pick, accepted, stored>>

server_accepts(m) ==
    /\ At(m, "send") /\ m \notin accepted
    /\ accepted' = accepted \cup {m}
    /\ UNCHANGED <<cacheVars, pick, sending, stored>>

\* The answer came, or the request failed whether the server took the message or not.
send_answered(m) ==
    /\ At(m, "send")
    /\ (m \in accepted /\ To(m, "save")) \/ To(m, "failed")
    /\ UNCHANGED <<cacheVars, pick, accepted, stored>>

\* mutant: the payload is not stored
save_without_payload(m) ==
    /\ At(m, "save")
    /\ stored' = [stored EXCEPT ![m] = KindOf(m)]
    /\ To(m, "done")
    /\ UNCHANGED <<cacheVars, pick, accepted>>
\* The chat row and the message: nothing was stored before the answer.  A write that fails
\* ends send_file with its error, though the message was sent.
save_outgoing_message(m) ==
    /\ At(m, "save")
    /\ \/ stored' = [stored EXCEPT ![m] = KindOf(m)] /\ To(m, "raw")
       \/ To(m, "failed") /\ UNCHANGED stored
    /\ UNCHANGED <<cacheVars, pick, accepted>>

\* When this write fails the row stays without its payload, and nobody writes it again.
set_raw_proto(m) ==
    /\ At(m, "raw")
    /\ \/ raw' = raw \cup {m} /\ To(m, "done")
       \/ To(m, "failed") /\ UNCHANGED raw
    /\ UNCHANGED <<media, disk, part, final, task, clean, pick, accepted, stored>>

SendStep(m) ==
    \/ send_file_with(m) \/ uploaded(m) \/ server_accepts(m) \/ send_answered(m)
    \/ save_outgoing_message(m) \/ set_raw_proto(m)

process_ends ==
    /\ sending' = [m \in Sent |-> IF sending[m] \in {"no", "done"} THEN sending[m] ELSE "failed"]
    /\ \/ crash /\ UNCHANGED <<pick, accepted, stored>>
       \/ /\ \E m \in Sent : sending[m] \notin {"no", "done", "failed"}
          /\ task' = [t \in Tasks |-> Idle] /\ clean' = FALSE
          /\ UNCHANGED <<raw, media, disk, part, final, pick, accepted, stored>>

Next ==
    \/ process_ends
    \/ \E t \in Tasks : DownloadStep(t) /\ UNCHANGED sendVars
    \/ \E f \in Files : file_removed(f) /\ UNCHANGED sendVars
    \/ \E m \in Sent : SendStep(m)

Spec == Init /\ [][Next]_vars

-----------------------------------------------------------------------------
TypeOK ==
    /\ CacheTypeOK
    /\ pick \in [Sent -> Pick \cup {None}]
    /\ sending \in [Sent -> {"no", "upload", "send", "failed", "save", "raw", "done"}]
    /\ accepted \subseteq Sent
    /\ stored \in [Msgs -> {"image", "sticker", "gif", "video", "audio", "document", None}]

\* A media message of this device is only shown when the server took it, and when its
\* payload can be read it says the kind the message is stored and shown with.
SentAsStored ==
    \A m \in Sent : /\ stored[m] # None => m \in accepted
                    /\ m \in raw => classify_media(build_outgoing_message(m)) = stored[m]

\* What send_file answers as sent has the payload that its download, forward and
\* preview need; a row without its payload is one whose send has not answered or has failed.
AnsweredCanBeFetched ==
    \A m \in Sent : /\ At(m, "done") => m \in raw
                    /\ stored[m] # None /\ m \notin raw => sending[m] \in {"raw", "failed"}

\* A media message of this device is shown as it was sent, and can be fetched again unless its send
\* ended with an error or with the process, wherever the upload, the send or a write failed.
SendsAreWhole == SentAsStored /\ AnsweredCanBeFetched

\* More than the code keeps: every stored message of a process that lived on can be fetched.  The
\* write of the payload may be the one that fails (set_raw_proto).
StoredCanBeFetched ==
    clean => \A m \in Sent : stored[m] # None /\ ~At(m, "raw") => m \in raw
=============================================================================
