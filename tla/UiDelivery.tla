------------------------------ MODULE UiDelivery ------------------------------
(***************************************************************************)
(* Files and chat links the system hands to the host, on their way to the  *)
(* page of the main window (file_open.rs, deep_link.rs; the page's side is *)
(* DropOverlay.tsx and bridge.ts).  The handlers of the host run on the    *)
(* main thread, one at a time; registering a listener, calling a command,  *)
(* and the arrival of its answer and of an event are steps of their own.   *)
(* The page may be reloaded, which the host does not notice.               *)
(***************************************************************************)
EXTENDS Naturals, Sequences, FiniteSets

CONSTANTS
    Batches,        \* the selections of files that are opened
    Links,          \* the chat links that are followed
    NoLink,
    MaxReloads      \* bound: how often the page is reloaded

VARIABLES
    fileHost,       \* OpenFilesState: the ready flag and the pending batches
    linkHost,       \* DeliveryState: the ready flag and the pending link
    opened,         \* the batches and links the system handed over
    page,           \* the page's side: listeners, ready calls, answers, events under way
    handled,        \* how often the page took each batch
    followed,       \* the links whose chat was opened, and how often each was
    lost,           \* what was emitted, after a ready call, while nobody listened
    replaced,       \* links that a newer one took the place of in the buffer
    reloads

deliveryVars == <<fileHost, linkHost, opened, page, handled, followed, lost, replaced, reloads>>

\* A fresh page: the overlay that listens for files mounts once the device is paired.
NewPage ==
    [overlay |-> "unmounted",   \* unmounted, asked, listening, called
     bridge |-> "asked",        \* the link listener: asked for or in place
     called |-> FALSE,          \* deep_link_ready was called
     fileAnswer |-> <<>>, linkAnswer |-> NoLink,
     fileEvents |-> <<>>, linkEvents |-> <<>>]

DeliveryInit ==
    /\ fileHost = [ready |-> FALSE, pending |-> <<>>]
    /\ linkHost = [ready |-> FALSE, pending |-> NoLink]
    /\ opened = {}
    /\ page = NewPage
    /\ handled = [b \in Batches |-> 0]
    /\ followed = [l \in Links |-> 0]
    /\ lost = {}
    /\ replaced = {}
    /\ reloads = 0

-----------------------------------------------------------------------------
(* Files *)

\* mutant: buffered and emitted, like a link
open_files_both(b) ==
    /\ b \notin opened
    /\ opened' = opened \cup {b}
    /\ fileHost' = IF fileHost.ready THEN fileHost ELSE [fileHost EXCEPT !.pending = Append(@, b)]
    /\ page' = IF page.overlay \in {"listening", "called"} THEN [page EXCEPT !.fileEvents = Append(@, b)] ELSE page
    /\ UNCHANGED <<linkHost, handled, followed, lost, replaced, reloads>>
\* RunEvent::Opened: the batch is buffered or emitted, decided under the lock.
open_files(b) ==
    /\ b \notin opened
    /\ opened' = opened \cup {b}
    /\ IF fileHost.ready
       THEN /\ IF page.overlay \in {"listening", "called"}
               THEN page' = [page EXCEPT !.fileEvents = Append(@, b)] /\ UNCHANGED lost
               ELSE lost' = lost \cup {b} /\ UNCHANGED page
            /\ UNCHANGED fileHost
       ELSE fileHost' = [fileHost EXCEPT !.pending = Append(@, b)] /\ UNCHANGED <<page, lost>>
    /\ UNCHANGED <<linkHost, handled, followed, replaced, reloads>>

KeepsLinks == UNCHANGED <<linkHost, opened, followed, lost, replaced, reloads>>

\* The effect of DropOverlay, which mounts once the device is paired, asks for a listener, and calls file_open_ready once it is there.
mount_overlay ==
    /\ page.overlay = "unmounted"
    /\ page' = [page EXCEPT !.overlay = "asked"]
    /\ UNCHANGED <<fileHost, handled>> /\ KeepsLinks

overlay_listens ==
    /\ page.overlay = "asked"
    /\ page' = [page EXCEPT !.overlay = "listening"]
    /\ UNCHANGED <<fileHost, handled>> /\ KeepsLinks

\* mutant: the ready flag is not set
file_open_drain ==
    /\ page.overlay = "listening"
    /\ page' = [page EXCEPT !.overlay = "called", !.fileAnswer = fileHost.pending]
    /\ fileHost' = [fileHost EXCEPT !.pending = <<>>]
    /\ UNCHANGED handled /\ KeepsLinks
file_open_ready ==
    /\ page.overlay = "listening"
    /\ page' = [page EXCEPT !.overlay = "called", !.fileAnswer = fileHost.pending]
    /\ fileHost' = [ready |-> TRUE, pending |-> <<>>]
    /\ UNCHANGED handled /\ KeepsLinks

\* handlePaths, for the buffered paths and for each event.
handlePaths(paths) ==
    handled' = [b \in Batches |-> handled[b] + Cardinality({i \in 1..Len(paths) : paths[i] = b})]

take_buffered ==
    /\ page.fileAnswer # <<>>
    /\ handlePaths(page.fileAnswer)
    /\ page' = [page EXCEPT !.fileAnswer = <<>>]
    /\ UNCHANGED fileHost /\ KeepsLinks

take_files ==
    /\ page.fileEvents # <<>>
    /\ handlePaths(<<Head(page.fileEvents)>>)
    /\ page' = [page EXCEPT !.fileEvents = Tail(@)]
    /\ UNCHANGED fileHost /\ KeepsLinks

-----------------------------------------------------------------------------
(* Links *)

\* mutant: emitted only
emit_only(l) ==
    /\ l \notin opened
    /\ opened' = opened \cup {l}
    /\ page' = IF page.bridge = "listening" THEN [page EXCEPT !.linkEvents = Append(@, l)] ELSE page
    /\ lost' = IF linkHost.ready /\ page.bridge # "listening" THEN lost \cup {l} ELSE lost
    /\ UNCHANGED <<linkHost, replaced, fileHost, handled, followed, reloads>>
\* deliver(): buffered until the page is ready, the newest link only, and emitted in any case.
deliver(l) ==
    /\ l \notin opened
    /\ opened' = opened \cup {l}
    /\ IF linkHost.ready
       THEN UNCHANGED <<linkHost, replaced>>
       ELSE /\ linkHost' = [linkHost EXCEPT !.pending = l]
            /\ replaced' = replaced \cup ({linkHost.pending} \ {NoLink})
    /\ page' = IF page.bridge = "listening" THEN [page EXCEPT !.linkEvents = Append(@, l)] ELSE page
    /\ lost' = IF linkHost.ready /\ page.bridge # "listening" THEN lost \cup {l} ELSE lost
    /\ UNCHANGED <<fileHost, handled, followed, reloads>>

KeepsFiles == UNCHANGED <<fileHost, opened, handled, lost, replaced, reloads>>

\* The effect of useCoreBridge asks for a listener ...
bridge_listens ==
    /\ page.bridge = "asked"
    /\ page' = [page EXCEPT !.bridge = "listening"]
    /\ UNCHANGED <<linkHost, followed>> /\ KeepsFiles

\* ... and calls deep_link_ready without waiting for it.
deep_link_ready ==
    /\ ~page.called
    /\ page' = [page EXCEPT !.called = TRUE, !.linkAnswer = linkHost.pending]
    /\ linkHost' = [ready |-> TRUE, pending |-> NoLink]
    /\ UNCHANGED followed /\ KeepsFiles

openChat(l) == followed' = [followed EXCEPT ![l] = @ + 1]

follow_buffered ==
    /\ page.linkAnswer # NoLink
    /\ openChat(page.linkAnswer)
    /\ page' = [page EXCEPT !.linkAnswer = NoLink]
    /\ UNCHANGED linkHost /\ KeepsFiles

follow_link ==
    /\ page.linkEvents # <<>>
    /\ openChat(Head(page.linkEvents))
    /\ page' = [page EXCEPT !.linkEvents = Tail(@)]
    /\ UNCHANGED linkHost /\ KeepsFiles

\* The page starts over; its listeners and whatever was on its way to it are gone.
reload ==
    /\ reloads < MaxReloads
    /\ reloads' = reloads + 1
    /\ page' = NewPage
    /\ UNCHANGED <<fileHost, linkHost, opened, handled, followed, lost, replaced>>

PageStep ==
    \/ overlay_listens \/ file_open_ready \/ take_buffered \/ take_files
    \/ bridge_listens \/ deep_link_ready \/ follow_buffered \/ follow_link

DeliveryNext ==
    \/ \E b \in Batches : open_files(b)
    \/ \E l \in Links : deliver(l)
    \/ mount_overlay \/ PageStep \/ reload

\* The page's script and the host's main loop go on.
DeliverySpec == DeliveryInit /\ [][DeliveryNext]_deliveryVars /\ WF_deliveryVars(PageStep)

-----------------------------------------------------------------------------
\* A batch of files is taken at most once, however its arrival races file_open_ready and
\* reloads, and none is taken that was not opened: what is sent twice cannot be undone.
FilesOnce == \A b \in Batches : handled[b] <= (IF b \in opened THEN 1 ELSE 0)

\* Every batch is taken once the overlay is there, unless the page was reloaded: whatever
\* came before its listener and its ready call waits for them.
FilesArrive ==
    \A b \in Batches : b \in opened /\ page.overlay # "unmounted" ~> (handled[b] = 1 \/ reloads > 0)

\* A link is followed, unless a newer one took its place in the buffer, the page was
\* reloaded, or it was emitted after deep_link_ready to a page that did not listen yet.
LinksArrive ==
    \A l \in Links : l \in opened ~> (followed[l] > 0 \/ reloads > 0 \/ l \in lost \cup replaced)

\* After deep_link_ready every link is emitted to a page that listens.
NoneEmittedToNobody == reloads = 0 => lost = {}

\* What the system hands over is delivered, and files are not delivered twice.
DeliveredOnce == []FilesOnce /\ FilesArrive /\ LinksArrive
=============================================================================
