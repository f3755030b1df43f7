------------------------- MODULE HistoryRequestsProofs -------------------------
(***************************************************************************)
(* For any contacts and any budget, however requests, answers, restarts    *)
(* and sweeps come after each other: the sweep never takes a row whose     *)
(* history was asked for within the grace; rounds keep to their budget; no *)
(* empty row drops out of the queue, and no request for a name pass.       *)
(***************************************************************************)
EXTENDS HistoryRequests, FiniteSetTheorems, SequenceTheorems, TLAPS

RowsTyped == row \in [Contacts -> {"none", "empty", "filled"}]
RequestedIsASequence == \E S : requested \in Seq(S)

\* The worker sleeps over a request of this session.
GraceIsForARequest == worker = "grace" => sent # 0

\* Once the session has sent a request, the last one of its round is the last to grow old.
LastIsYoungest == sent # 0 /\ young # {} => requested # <<>> /\ Last(requested) \in young

\* What earlier sessions asked for has grown old before the last request of this one.
OldIsOlder == sent # 0 /\ young = {} => old = {}

SweepInv ==
    RowsTyped /\ RequestedIsASequence /\ sent \in Nat /\ GraceIsForARequest /\ LastIsYoungest /\ OldIsOlder

-----------------------------------------------------------------------------
\* A sequence stays one when a request is appended, and the request is its last.
LEMMA AppendIsLast ==
    ASSUME NEW S, NEW s \in Seq(S), NEW x
    PROVE  /\ Append(s, x) \in Seq(S \cup {x})
           /\ Append(s, x) # <<>>
           /\ Last(Append(s, x)) = x
<1>1. s \in Seq(S \cup {x})
  OBVIOUS
<1> QED
  BY <1>1 DEF Last

\* The rows that are there stay when the address book is read again.
LEMMA BackfillKeepsRows ==
    ASSUME NEW rows \in [Contacts -> {"none", "empty", "filled"}], backfill_chats_from_contacts(rows)
    PROVE  RowsTyped' /\ \A c \in Contacts : rows[c] # "none" => row'[c] = rows[c]
BY DEF backfill_chats_from_contacts, RowsTyped

\* Where there is nothing young there is nothing to spare.
LEMMA SweepFindsNoneYoung ==
    ASSUME SweepInv, sweep
    PROVE  young = {} /\ old = {}
BY DEF SweepInv, GraceIsForARequest, LastIsYoungest, OldIsOlder, sweep

\* A request is sent: it is the last of its round and young.
LEMMA RequestIsYoung ==
    ASSUME SweepInv, fetch_message_history
    PROVE  SweepInv'
<1>1. PICK S : requested \in Seq(S)
  BY DEF SweepInv, RequestedIsASequence
<1>2. requested' \in Seq(S \cup {Head(queue)}) /\ requested' # <<>> /\ Last(requested') = Head(queue)
  BY <1>1, AppendIsLast DEF fetch_message_history
<1>3. RequestedIsASequence'
  BY <1>2 DEF RequestedIsASequence
<1>4. LastIsYoungest' /\ OldIsOlder'
  BY <1>2 DEF LastIsYoungest, OldIsOlder, fetch_message_history
<1> QED
  BY <1>3, <1>4 DEF SweepInv, RowsTyped, GraceIsForARequest, fetch_message_history, MayAsk

\* The grace of a request passes: the last of the round stays while others are young, or there are older ones.
LEMMA LastGrowsOldLast ==
    ASSUME SweepInv, grace_passes
    PROVE  LastIsYoungest' /\ OldIsOlder'
<1>1. UNCHANGED <<sent, requested>>
  BY DEF grace_passes
<1>2. CASE old # {} /\ old' = {} /\ UNCHANGED young
  BY <1>1, <1>2 DEF SweepInv, LastIsYoungest, OldIsOlder
<1>3. CASE old = {} /\ UNCHANGED old
  <2>1. PICK c \in young : /\ requested # <<>> /\ c = Last(requested) => young = {c}
                           /\ young' = young \ {c}
    BY <1>3 DEF grace_passes
  <2> QED
    BY <1>1, <1>3, <2>1 DEF SweepInv, LastIsYoungest, OldIsOlder
<1> QED
  BY <1>2, <1>3 DEF grace_passes

\* Every other step keeps the round's last request, what is young, and the rows' shape.
LEMMA SweepInvKept ==
    ASSUME SweepInv, Next
    PROVE  SweepInv'
<1>1. CASE contact_backfill
  BY <1>1, BackfillKeepsRows DEF contact_backfill, SweepInv, RowsTyped, RequestedIsASequence, GraceIsForARequest, LastIsYoungest, OldIsOlder
<1>2. CASE skip \/ fetch_fails \/ idle
  BY <1>2 DEF skip, fetch_fails, idle, MayAsk, SweepInv, RowsTyped, RequestedIsASequence, GraceIsForARequest, LastIsYoungest, OldIsOlder
<1>3. CASE sweep
  <2>1. RowsTyped'
    BY <1>3 DEF sweep, delete_empty_contact_chats, SweepInv, RowsTyped
  <2>2. RequestedIsASequence'
    BY <1>3 DEF sweep, RequestedIsASequence
  <2>3. young' = {} /\ sent' = sent /\ worker' = "recv"
    BY <1>3, SweepFindsNoneYoung DEF sweep
  <2>4. old' = {}
    BY <1>3, SweepFindsNoneYoung DEF sweep
  <2> QED
    BY <2>1, <2>2, <2>3, <2>4 DEF SweepInv, GraceIsForARequest, LastIsYoungest, OldIsOlder
<1>4. CASE fetch_message_history
  BY <1>4, RequestIsYoung
<1>5. CASE new_session \/ new_connection
  <2>1. UNCHANGED row /\ requested' = <<>> /\ sent' = 0 /\ worker' = "connect"
    BY <1>5 DEF new_session, new_connection, new_tasks
  <2>2. RequestedIsASequence'
    BY <2>1 DEF RequestedIsASequence
  <2> QED
    BY <2>1, <2>2 DEF SweepInv, RowsTyped, GraceIsForARequest, LastIsYoungest, OldIsOlder
<1>9. CASE late_backfill \/ late_sweep
  <2>1. RowsTyped'
    BY <1>9 DEF late_backfill, late_sweep, delete_empty_contact_chats, SweepInv, RowsTyped
  <2> QED
    BY <1>9, <2>1 DEF late_backfill, late_sweep, SweepInv, RequestedIsASequence, GraceIsForARequest, LastIsYoungest, OldIsOlder
<1>6. CASE grace_passes
  <2>1. UNCHANGED <<row, sent, requested, worker>>
    BY <1>6 DEF grace_passes
  <2> QED
    BY <1>6, <2>1, LastGrowsOldLast DEF SweepInv, RowsTyped, RequestedIsASequence, GraceIsForARequest
<1>7. ASSUME NEW c \in Contacts, answer(c) PROVE SweepInv'
  <2>1. [row EXCEPT ![c] = IF c \in WithHistory THEN "filled" ELSE @] \in [Contacts -> {"none", "empty", "filled"}]
    BY DEF SweepInv, RowsTyped
  <2>2. RowsTyped'
    BY <1>7, <2>1, BackfillKeepsRows DEF answer
  <2> QED
    BY <1>7, <2>2 DEF answer, SweepInv, RequestedIsASequence, GraceIsForARequest, LastIsYoungest, OldIsOlder
<1>8. CASE handler_requests \/ notified \/ run_name_passes \/ pass_ends
  BY <1>8 DEF handler_requests, notified, run_name_passes, pass_ends, requestVars,
              SweepInv, RowsTyped, RequestedIsASequence, GraceIsForARequest, LastIsYoungest, OldIsOlder
<1> QED
  BY <1>1, <1>2, <1>3, <1>4, <1>5, <1>6, <1>7, <1>8, <1>9 DEF Next, Worker

\* No step takes an empty row that was asked for within the grace, but a late sweep one of the new session.
LEMMA StepSparesYoung ==
    ASSUME SweepInv, Next, NEW c \in Contacts, c \in young \cup old, row[c] = "empty", row'[c] = "none"
    PROVE  c \notin old /\ late = "sweep" /\ late' = "none"
<1>1. CASE sweep
  BY <1>1, SweepFindsNoneYoung
<1>2. CASE contact_backfill
  BY <1>2, BackfillKeepsRows DEF contact_backfill, SweepInv, RowsTyped
<1>3. ASSUME NEW d \in Contacts, answer(d) PROVE FALSE
  <2> DEFINE rows == [row EXCEPT ![d] = IF d \in WithHistory THEN "filled" ELSE @]
  <2>1. rows \in [Contacts -> {"none", "empty", "filled"}] /\ rows[c] # "none"
    BY DEF SweepInv, RowsTyped
  <2>2. backfill_chats_from_contacts(rows)
    BY <1>3 DEF answer
  <2> QED
    BY <2>1, <2>2, BackfillKeepsRows
<1>4. CASE row' = row
  BY <1>4
<1>5. CASE late_sweep
  BY <1>5 DEF late_sweep
<1>6. CASE late_backfill
  BY <1>6 DEF late_backfill
<1> QED
  BY <1>1, <1>2, <1>3, <1>4, <1>5, <1>6 DEF Next, Worker, skip, idle, fetch_message_history, fetch_fails, new_session,
     new_connection, new_tasks, grace_passes, handler_requests, notified, run_name_passes, pass_ends, requestVars

-----------------------------------------------------------------------------
\* delete_empty_contact_chats takes no row whose history was asked for within the grace, by this session or an earlier
\* one, but for what a session asks for while a worker of an earlier one still waits to sweep.
THEOREM SweepWaits == Spec => SweepSparesYoung
<1>1. Init => SweepInv
  BY DEF Init, SweepInv, RowsTyped, RequestedIsASequence, GraceIsForARequest, LastIsYoungest, OldIsOlder
<1>2. SweepInv /\ [Next]_vars => SweepInv'
  <2>1. ASSUME SweepInv, UNCHANGED vars PROVE SweepInv'
    BY <2>1 DEF vars, requestVars, SweepInv, RowsTyped, RequestedIsASequence, GraceIsForARequest, LastIsYoungest, OldIsOlder
  <2> QED
    BY <2>1, SweepInvKept
<1>3. SweepInv /\ [Next]_vars => 
        [\A c \in Contacts : c \in young \cup old /\ row[c] = "empty" /\ row'[c] = "none" =>
            c \notin old /\ late = "sweep" /\ late' = "none"]_vars
  BY StepSparesYoung
<1> QED
  BY <1>1, <1>2, <1>3, PTL DEF Spec, SweepSparesYoung

-----------------------------------------------------------------------------
(***************************************************************************)
(* What is queued and requested.                                           *)
(***************************************************************************)

\* The budget of a session bounds its requests, and a round requests no chat twice.
RoundFitsBudget ==
    /\ sent <= Cap
    /\ Len(requested) <= sent
    /\ \A i, j \in 1..Len(requested) : requested[i] = requested[j] => i = j

\* What BacklogConverges rests on: while no request has failed, no session left empty rows behind and the budget is not
\* spent, the history of every empty row was requested in this round or its request is queued.
NoneForgotten ==
    smooth /\ sent < Cap => \A c \in Contacts : row[c] = "empty" => c \in ToSet(queue) \cup ToSet(requested)

\* What RequestsAreSeen rests on: a request for a name pass that none has seen is kept as a permit, or by the burst.
RequestsAreKept == unseen => permit \/ pass = "debounce"

AskInv == TypeOK /\ RoundFitsBudget /\ NoneForgotten /\ RequestsAreKept

\* The contacts that are newer than one of a finite set are fewer than the set, ...
LEMMA NewerAreFewer ==
    ASSUME NEW S \in SUBSET Nat, IsFiniteSet(S), NEW c \in S
    PROVE  /\ IsFiniteSet(Newer(c, S)) /\ Cardinality(Newer(c, S)) \in Nat
           /\ Cardinality(Newer(c, S)) + 1 \in 1..Cardinality(S)
<1>1. IsFiniteSet(S \ {c}) /\ Cardinality(S \ {c}) = Cardinality(S) - 1 /\ Cardinality(S) \in Nat
  BY FS_RemoveElement, FS_CardinalityType
<1>2. Newer(c, S) \in SUBSET (S \ {c})
  BY DEF Newer
<1>3. IsFiniteSet(Newer(c, S)) /\ Cardinality(Newer(c, S)) <= Cardinality(S \ {c})
  BY <1>1, <1>2, FS_Subset
<1>4. Cardinality(Newer(c, S)) \in Nat
  BY <1>3, FS_CardinalityType
<1> QED
  BY <1>1, <1>3, <1>4

\* ... and as many only for one of them, ...
LEMMA NewerTellApart ==
    ASSUME NEW S \in SUBSET Nat, IsFiniteSet(S), NEW c \in S, NEW d \in S, c < d
    PROVE  Cardinality(Newer(c, S)) # Cardinality(Newer(d, S))
<1>1. d \in Newer(c, S) /\ Newer(d, S) \in SUBSET (Newer(c, S) \ {d})
  <2>1. \A x \in S : x > d => x > c /\ x # d
    OBVIOUS
  <2> QED
    BY <2>1 DEF Newer
<1>2. IsFiniteSet(Newer(c, S)) /\ Cardinality(Newer(c, S)) \in Nat /\ Cardinality(Newer(d, S)) \in Nat
  BY NewerAreFewer
<1>3. IsFiniteSet(Newer(c, S) \ {d}) /\ Cardinality(Newer(c, S) \ {d}) = Cardinality(Newer(c, S)) - 1
  BY <1>1, <1>2, FS_RemoveElement
<1>4. Cardinality(Newer(d, S)) <= Cardinality(Newer(c, S)) - 1
  BY <1>1, <1>3, FS_Subset
<1> QED
  BY <1>2, <1>4

\* ... so that every place of the list is taken by one.
LEMMA EveryPlaceIsTaken ==
    ASSUME NEW S \in SUBSET Nat, IsFiniteSet(S), NEW i \in 1..Cardinality(S)
    PROVE  \E c \in S : Cardinality(Newer(c, S)) = i - 1
<1>1. PICK f : f = [c \in S |-> Cardinality(Newer(c, S)) + 1]
  OBVIOUS
<1>2. PICK n : n = Cardinality(S)
  OBVIOUS
<1>3. n \in Nat
  BY <1>2, FS_CardinalityType
<1>4. f \in Injection(S, 1..n)
  <2>1. f \in [S -> 1..n]
    BY <1>1, <1>2, NewerAreFewer
  <2>2. ASSUME NEW c \in S, NEW d \in S, f[c] = f[d] PROVE c = d
    <3>1. Cardinality(Newer(c, S)) = Cardinality(Newer(d, S))
      BY <1>1, <2>2, NewerAreFewer
    <3>2. ~(c < d) /\ ~(d < c)
      BY <3>1, NewerTellApart
    <3> QED
      BY <3>2
  <2> QED
    BY <2>1, <2>2 DEF Injection, IsInjective
<1>5. IsFiniteSet(1..n) /\ Cardinality(1..n) = n
  BY <1>3, FS_Interval
<1>6. f \in Surjection(S, 1..n)
  BY <1>2, <1>4, <1>5, FS_Injection
<1>7. PICK c \in S : f[c] = i
  BY <1>2, <1>6 DEF Surjection
<1> QED
  BY <1>1, <1>7, NewerAreFewer

\* The address book is read: the contacts without a row are listed, each of them, and nothing else.
LEMMA MissingListsUnlisted ==
    ASSUME NEW rows
    PROVE  Missing(rows) \in Seq(Contacts) /\ ToSet(Missing(rows)) = Unlisted(rows)
<1>1. PICK S : S = Unlisted(rows)
  OBVIOUS
<1>2. S \in SUBSET Contacts /\ S \in SUBSET Nat /\ IsFiniteSet(S) /\ Cardinality(S) \in Nat
  <2>1. S \in SUBSET Contacts
    BY <1>1 DEF Unlisted
  <2> QED
    BY <2>1, HistoryAssumption, FS_Subset, FS_CardinalityType
<1>3. PICK q : q = [i \in 1..Cardinality(S) |-> CHOOSE c \in S : Cardinality(Newer(c, S)) = i - 1]
  OBVIOUS
<1>4. q = Missing(rows)
  BY <1>1, <1>3 DEF Missing
<1>5. \A i \in 1..Cardinality(S) : q[i] \in S /\ Cardinality(Newer(q[i], S)) = i - 1
  BY <1>2, <1>3, EveryPlaceIsTaken
<1>6. q \in Seq(Contacts) /\ Len(q) = Cardinality(S) /\ DOMAIN q = 1..Cardinality(S)
  <2>1. PICK n : n = Cardinality(S)
    OBVIOUS
  <2>2. n \in Nat /\ DOMAIN q = 1..n /\ \A i \in 1..n : q[i] \in Contacts
    BY <1>2, <1>3, <1>5, <2>1
  <2>3. q = [i \in 1..n |-> q[i]]
    BY <1>3, <2>1
  <2>4. q \in [1..n -> Contacts]
    BY <2>2, <2>3
  <2> QED
    BY <2>1, <2>2, <2>4
<1>7. ASSUME NEW c \in S PROVE c \in ToSet(q)
  <2>1. PICK i : i = Cardinality(Newer(c, S)) + 1
    OBVIOUS
  <2>2. i \in 1..Cardinality(S) /\ Cardinality(Newer(c, S)) = i - 1
    BY <1>2, <2>1, NewerAreFewer
  <2>3. q[i] \in S /\ Cardinality(Newer(q[i], S)) = Cardinality(Newer(c, S))
    BY <1>5, <2>2
  <2>4. PICK d \in S : d = q[i]
    BY <2>3
  <2>5. q[i] = c
    <3>1. ~(d < c) /\ ~(c < d)
      BY <1>2, <2>3, <2>4, NewerTellApart
    <3>2. c \in Nat /\ d \in Nat
      BY <1>2, <2>4
    <3> QED
      BY <2>4, <3>1, <3>2
  <2> QED
    BY <1>6, <2>2, <2>5 DEF ToSet
<1>8. ToSet(q) \subseteq S
  BY <1>5, <1>6 DEF ToSet
<1> QED
  BY <1>1, <1>4, <1>6, <1>7, <1>8

\* What is in a sequence when something is put behind it or its first is taken.
LEMMA BehindAndFirst ==
    ASSUME NEW S, NEW q \in Seq(S), NEW r \in Seq(S), NEW x \in S
    PROVE  /\ q \o r \in Seq(S) /\ ToSet(q \o r) = ToSet(q) \cup ToSet(r)
           /\ Append(q, x) \in Seq(S) /\ ToSet(Append(q, x)) = ToSet(q) \cup {x}
           /\ q # <<>> => Head(q) \in S /\ Tail(q) \in Seq(S) /\ ToSet(q) = ToSet(Tail(q)) \cup {Head(q)}
<1>1. PICK p : p = q \o r
  OBVIOUS
<1>2. /\ p \in Seq(S) /\ Len(p) = Len(q) + Len(r) /\ Len(q) \in Nat /\ Len(r) \in Nat
      /\ \A i \in 1..Len(q) : p[i] = q[i]
      /\ \A i \in 1..Len(r) : p[Len(q) + i] = r[i]
  BY <1>1
<1>3. DOMAIN p = 1..Len(p) /\ DOMAIN q = 1..Len(q) /\ DOMAIN r = 1..Len(r)
  BY <1>2
<1>4. ToSet(p) = ToSet(q) \cup ToSet(r)
  <2>1. ASSUME NEW i \in 1..Len(p) PROVE p[i] \in ToSet(q) \cup ToSet(r)
    <3>1. CASE i \in 1..Len(q)
      BY <1>2, <1>3, <3>1 DEF ToSet
    <3>2. CASE i \notin 1..Len(q)
      <4>1. i - Len(q) \in 1..Len(r) /\ Len(q) + (i - Len(q)) = i
        BY <1>2, <3>2
      <4>2. p[i] = r[i - Len(q)]
        BY <1>2, <4>1
      <4> QED
        BY <1>3, <4>1, <4>2 DEF ToSet
    <3> QED
      BY <3>1, <3>2
  <2>2. /\ \A i \in 1..Len(q) : i \in 1..Len(p)
        /\ \A i \in 1..Len(r) : Len(q) + i \in 1..Len(p)
    BY <1>2
  <2>3. (\A i \in 1..Len(q) : q[i] \in ToSet(p)) /\ \A i \in 1..Len(r) : r[i] \in ToSet(p)
    BY <1>2, <1>3, <2>2 DEF ToSet
  <2>4. ToSet(p) \subseteq ToSet(q) \cup ToSet(r)
    BY <1>3, <2>1 DEF ToSet
  <2>5. ToSet(q) \subseteq ToSet(p) /\ ToSet(r) \subseteq ToSet(p)
    BY <1>3, <2>3 DEF ToSet
  <2> QED
    BY <2>4, <2>5
<1>5. PICK a : a = Append(q, x)
  OBVIOUS
<1>6. /\ a \in Seq(S) /\ Len(a) = Len(q) + 1 /\ a[Len(q) + 1] = x /\ DOMAIN a = 1..Len(a)
      /\ \A i \in 1..Len(q) : a[i] = q[i]
  BY <1>5
<1>7. ToSet(a) = ToSet(q) \cup {x}
  <2>1. /\ \A i \in 1..Len(a) : i \in 1..Len(q) \/ i = Len(q) + 1
        /\ \A i \in 1..Len(q) : i \in 1..Len(a)
        /\ Len(q) + 1 \in 1..Len(a)
    BY <1>2, <1>6
  <2> QED
    BY <1>3, <1>6, <2>1 DEF ToSet
<1>8. ASSUME q # <<>> PROVE Head(q) \in S /\ Tail(q) \in Seq(S) /\ ToSet(q) = ToSet(Tail(q)) \cup {Head(q)}
  <2>1. PICK t : t = Tail(q)
    OBVIOUS
  <2>2. /\ t \in Seq(S) /\ Len(t) = Len(q) - 1 /\ Len(q) # 0 /\ Head(q) = q[1] /\ DOMAIN t = 1..Len(t)
        /\ \A i \in 1..Len(t) : t[i] = q[i + 1]
    BY <1>8, <2>1
  <2>3. /\ 1 \in 1..Len(q)
        /\ \A i \in 1..Len(t) : i + 1 \in 1..Len(q)
        /\ \A i \in 1..Len(q) : i = 1 \/ (i - 1 \in 1..Len(t) /\ (i - 1) + 1 = i)
    BY <1>2, <2>2
  <2>4. ASSUME NEW i \in 1..Len(q) PROVE q[i] \in ToSet(t) \cup {q[1]}
    <3>1. CASE i = 1
      BY <3>1
    <3>2. CASE i # 1
      <4>1. PICK j \in 1..Len(t) : j + 1 = i
        BY <2>3, <3>2
      <4>2. t[j] = q[i]
        BY <2>2, <4>1
      <4> QED
        BY <2>2, <4>2 DEF ToSet
    <3> QED
      BY <3>1, <3>2
  <2>5. ToSet(q) \subseteq ToSet(t) \cup {q[1]}
    BY <1>3, <2>4 DEF ToSet
  <2>6. ToSet(t) \subseteq ToSet(q) /\ q[1] \in ToSet(q)
    <3>1. ASSUME NEW i \in 1..Len(t) PROVE t[i] \in ToSet(q)
      <4>1. t[i] = q[i + 1] /\ i + 1 \in DOMAIN q
        BY <1>3, <2>2, <2>3
      <4> QED
        BY <4>1 DEF ToSet
    <3>2. ToSet(t) \subseteq ToSet(q)
      BY <2>2, <3>1 DEF ToSet
    <3>3. q[1] \in ToSet(q)
      BY <1>3, <2>3 DEF ToSet
    <3> QED
      BY <3>2, <3>3
  <2>7. q[1] \in S
    BY <2>3
  <2> QED
    BY <2>1, <2>2, <2>5, <2>6, <2>7
<1> QED
  BY <1>1, <1>2, <1>4, <1>5, <1>6, <1>7, <1>8

\* The address book is read: every contact without a row gets one and is queued, and what was queued stays.
LEMMA BackfillQueues ==
    ASSUME NEW rows \in [Contacts -> {"none", "empty", "filled"}], queue \in Seq(Contacts),
           backfill_chats_from_contacts(rows)
    PROVE  /\ row' \in [Contacts -> {"none", "empty", "filled"}]
           /\ queue' \in Seq(Contacts) /\ ToSet(queue) \subseteq ToSet(queue')
           /\ \A c \in Contacts : row'[c] = "empty" => rows[c] = "empty" \/ c \in ToSet(queue')
<1>1. PICK m : m = Missing(rows)
  OBVIOUS
<1>2. m \in Seq(Contacts) /\ ToSet(m) = Unlisted(rows)
  BY <1>1, MissingListsUnlisted
<1>3. queue' = queue \o m /\ row' = [c \in Contacts |-> IF rows[c] = "none" THEN "empty" ELSE rows[c]]
  BY <1>1 DEF backfill_chats_from_contacts
<1>4. queue' \in Seq(Contacts) /\ ToSet(queue') = ToSet(queue) \cup ToSet(m)
  <2>1. CASE Contacts = {}
    <3>1. m = <<>> /\ queue = <<>>
      BY <1>2, <2>1
    <3> QED
      BY <1>3, <3>1
  <2>2. ASSUME NEW x \in Contacts PROVE queue' \in Seq(Contacts) /\ ToSet(queue') = ToSet(queue) \cup ToSet(m)
    BY <1>2, <1>3, BehindAndFirst
  <2> QED
    BY <2>1, <2>2
<1>5. \A c \in Contacts : row'[c] = "empty" => rows[c] = "empty" \/ c \in Unlisted(rows)
  BY <1>3 DEF Unlisted
<1> QED
  BY <1>2, <1>3, <1>4, <1>5

\* A request is sent: the budget is not exceeded, and the chat was not requested in this round.
LEMMA RequestFits ==
    ASSUME AskInv, fetch_message_history
    PROVE  AskInv'
<1>1. PICK h : h = Head(queue)
  OBVIOUS
<1>2. PICK r : r = Append(requested, h)
  OBVIOUS
<1>3. /\ queue \in Seq(Contacts) /\ requested \in Seq(Contacts) /\ queue # <<>>
      /\ sent \in Nat /\ Cap \in Nat /\ sent < Cap /\ h \notin ToSet(requested) /\ Len(requested) \in Nat
  BY <1>1, HistoryAssumption DEF AskInv, TypeOK, fetch_message_history, MayAsk
<1>4. h \in Contacts
  BY <1>1, <1>3
<1>5. Tail(queue) \in Seq(Contacts) /\ ToSet(queue) = ToSet(Tail(queue)) \cup {h}
  BY <1>1, <1>3, <1>4, BehindAndFirst
<1>6. r \in Seq(Contacts) /\ ToSet(r) = ToSet(requested) \cup {h}
  BY <1>2, <1>3, <1>4, BehindAndFirst
<1>7. /\ sent' = sent + 1 /\ requested' = r /\ queue' = Tail(queue) /\ asked' = asked \cup {h} /\ young' = young \cup {h}
      /\ UNCHANGED <<row, worker, old, late, smooth, permit, unseen, pass>>
  BY <1>1, <1>2 DEF fetch_message_history, passVars
<1>8. TypeOK'
  <2>1. sent' \in 0..Cap
    BY <1>3, <1>7
  <2> QED
    BY <1>4, <1>5, <1>6, <1>7, <2>1 DEF AskInv, TypeOK
<1>9. RoundFitsBudget'
  <2>1. /\ Len(r) = Len(requested) + 1 /\ r[Len(requested) + 1] = h
        /\ \A i \in 1..Len(requested) : r[i] = requested[i]
    BY <1>2, <1>3
  <2>2. \A i \in 1..Len(requested) : requested[i] # h
    BY <1>3 DEF ToSet
  <2>3. \A i \in 1..Len(r) : i \in 1..Len(requested) \/ i = Len(requested) + 1
    BY <1>3, <2>1
  <2>4. \A i, j \in 1..Len(r) : r[i] = r[j] => i = j
    BY <2>1, <2>2, <2>3 DEF AskInv, RoundFitsBudget
  <2>5. sent + 1 <= Cap /\ Len(r) <= sent + 1
    BY <1>3, <2>1 DEF AskInv, RoundFitsBudget
  <2> QED
    BY <1>7, <2>4, <2>5 DEF RoundFitsBudget
<1>10. NoneForgotten'
  <2>1. sent' < Cap => sent < Cap
    BY <1>3, <1>7
  <2> QED
    BY <1>5, <1>6, <1>7, <2>1 DEF AskInv, NoneForgotten
<1>11. RequestsAreKept'
  BY <1>7 DEF AskInv, RequestsAreKept
<1> QED
  BY <1>8, <1>9, <1>10, <1>11 DEF AskInv

\* A request is passed over: the budget is spent, or the chat was requested in this round.
LEMMA SkipFits ==
    ASSUME AskInv, skip
    PROVE  AskInv'
<1>1. PICK h : h = Head(queue)
  OBVIOUS
<1>2. /\ queue \in Seq(Contacts) /\ queue # <<>> /\ sent \in Nat /\ Cap \in Nat
      /\ sent >= Cap \/ h \in ToSet(requested)
  BY <1>1, HistoryAssumption DEF AskInv, TypeOK, skip
<1>3. h \in Contacts
  BY <1>1, <1>2
<1>4. Tail(queue) \in Seq(Contacts) /\ ToSet(queue) = ToSet(Tail(queue)) \cup {h}
  BY <1>1, <1>2, <1>3, BehindAndFirst
<1>5. queue' = Tail(queue) /\ UNCHANGED <<row, sent, requested, worker, asked, young, old, late, smooth, permit, unseen, pass>>
  BY DEF skip, passVars
<1>6. TypeOK' /\ RoundFitsBudget' /\ RequestsAreKept'
  BY <1>4, <1>5 DEF AskInv, TypeOK, RoundFitsBudget, RequestsAreKept
<1>7. NoneForgotten'
  BY <1>2, <1>4, <1>5 DEF AskInv, NoneForgotten
<1> QED
  BY <1>6, <1>7 DEF AskInv

\* The phone answers: the row is filled, and the address book is read again.
LEMMA AnswerFits ==
    ASSUME AskInv, NEW c \in Contacts, answer(c)
    PROVE  AskInv'
<1>1. PICK rows : rows = [row EXCEPT ![c] = IF c \in WithHistory THEN "filled" ELSE @]
  OBVIOUS
<1>2. rows \in [Contacts -> {"none", "empty", "filled"}] /\ \A d \in Contacts : rows[d] = "empty" => row[d] = "empty"
  BY <1>1 DEF AskInv, TypeOK
<1>3. /\ backfill_chats_from_contacts(rows) /\ request
      /\ asked' = asked \ {c} /\ UNCHANGED <<sent, requested, worker, young, old, late, smooth, pass>>
  BY <1>1 DEF answer
<1>4. /\ row' \in [Contacts -> {"none", "empty", "filled"}]
      /\ queue' \in Seq(Contacts) /\ ToSet(queue) \subseteq ToSet(queue')
      /\ \A d \in Contacts : row'[d] = "empty" => rows[d] = "empty" \/ d \in ToSet(queue')
  BY <1>2, <1>3, BackfillQueues DEF AskInv, TypeOK
<1>5. TypeOK' /\ RoundFitsBudget' /\ RequestsAreKept'
  BY <1>3, <1>4 DEF AskInv, TypeOK, RoundFitsBudget, RequestsAreKept, request
<1>6. NoneForgotten'
  BY <1>2, <1>3, <1>4 DEF AskInv, NoneForgotten
<1> QED
  BY <1>5, <1>6 DEF AskInv

LEMMA AskStart == Init => AskInv
<1> SUFFICES ASSUME Init PROVE AskInv
  OBVIOUS
<1>1. Len(<<>>) = 0 /\ <<>> \in Seq(Contacts)
  BY EmptySeq
<1>2. TypeOK
  BY <1>1, HistoryAssumption DEF Init, TypeOK
<1>3. RoundFitsBudget
  BY <1>1, HistoryAssumption DEF Init, RoundFitsBudget
<1>4. NoneForgotten /\ RequestsAreKept
  BY DEF Init, NoneForgotten, RequestsAreKept
<1> QED
  BY <1>2, <1>3, <1>4 DEF AskInv

LEMMA AskStep ==
    ASSUME AskInv, [Next]_vars
    PROVE  AskInv'
<1>1. CASE contact_backfill
  <2>1. /\ row \in [Contacts -> {"none", "empty", "filled"}] /\ queue \in Seq(Contacts)
        /\ backfill_chats_from_contacts(row)
        /\ worker' = "recv" /\ UNCHANGED <<sent, requested, asked, young, old, late, smooth, permit, unseen, pass>>
    BY <1>1 DEF AskInv, TypeOK, contact_backfill, passVars
  <2>2. /\ row' \in [Contacts -> {"none", "empty", "filled"}]
        /\ queue' \in Seq(Contacts) /\ ToSet(queue) \subseteq ToSet(queue')
        /\ \A c \in Contacts : row'[c] = "empty" => row[c] = "empty" \/ c \in ToSet(queue')
    BY <2>1, BackfillQueues
  <2>3. TypeOK' /\ RoundFitsBudget' /\ RequestsAreKept'
    BY <2>1, <2>2 DEF AskInv, TypeOK, RoundFitsBudget, RequestsAreKept
  <2>4. NoneForgotten'
    BY <2>1, <2>2 DEF AskInv, NoneForgotten
  <2> QED
    BY <2>3, <2>4 DEF AskInv
<1>2. CASE skip
  BY <1>2, SkipFits
<1>3. CASE fetch_message_history
  BY <1>3, RequestFits
<1>4. CASE fetch_fails
  <2>1. queue \in Seq(Contacts) /\ queue # <<>>
    BY <1>4 DEF AskInv, TypeOK, fetch_fails, MayAsk
  <2>2. queue' \in Seq(Contacts) /\ ~smooth' /\ UNCHANGED <<row, sent, requested, worker, asked, young, old, late, permit, unseen, pass>>
    BY <1>4, <2>1 DEF fetch_fails, passVars
  <2>3. smooth' = FALSE
    BY <1>4 DEF fetch_fails
  <2> QED
    BY <2>2, <2>3 DEF AskInv, TypeOK, RoundFitsBudget, NoneForgotten, RequestsAreKept
<1>5. CASE idle
  BY <1>5 DEF idle, passVars, AskInv, TypeOK, RoundFitsBudget, NoneForgotten, RequestsAreKept
<1>6. CASE sweep
  <2>1. <<>> \in Seq(Contacts) /\ Len(<<>>) = 0
    BY EmptySeq
  <2>2. /\ row' = [c \in Contacts |-> IF row[c] = "empty" THEN "none" ELSE row[c]]
        /\ requested' = <<>> /\ worker' = "recv" /\ UNCHANGED <<queue, sent, asked, young, old, late, smooth, permit, unseen, pass>>
    BY <1>6 DEF sweep, delete_empty_contact_chats, passVars
  <2>3. \A c \in Contacts : row'[c] # "empty"
    BY <2>2
  <2>4. TypeOK'
    BY <2>1, <2>2 DEF AskInv, TypeOK
  <2>5. RoundFitsBudget'
    <3>1. sent \in Nat
      BY HistoryAssumption DEF AskInv, TypeOK
    <3> QED
      BY <2>1, <2>2, <3>1 DEF AskInv, RoundFitsBudget
  <2>6. NoneForgotten' /\ RequestsAreKept'
    BY <2>2, <2>3 DEF AskInv, NoneForgotten, RequestsAreKept
  <2> QED
    BY <2>4, <2>5, <2>6 DEF AskInv
<1>7. CASE new_session \/ new_connection
  <2>1. <<>> \in Seq(Contacts) /\ Len(<<>>) = 0
    BY EmptySeq
  <2>2. /\ requested' = <<>> /\ queue' = <<>> /\ sent' = 0 /\ worker' = "connect" /\ pass' = "wait"
        /\ smooth' = (smooth /\ \A c \in Contacts : row[c] # "empty")
        /\ permit' = TRUE /\ unseen' = TRUE /\ UNCHANGED <<row, asked>>
        /\ old' = old \cup young /\ young' = {}
    BY <1>7 DEF new_session, new_connection, new_tasks, request
  <2>3. smooth' \in BOOLEAN
    BY <2>2
  <2>4. TypeOK'
    <3>1. late' \in {"none", "backfill", "sweep"}
      BY <1>7 DEF new_session, new_connection
    <3> QED
      BY <2>1, <2>2, <2>3, <3>1, HistoryAssumption DEF AskInv, TypeOK
  <2>5. RoundFitsBudget'
    BY <2>1, <2>2, HistoryAssumption DEF RoundFitsBudget
  <2>6. NoneForgotten' /\ RequestsAreKept'
    BY <2>2 DEF NoneForgotten, RequestsAreKept
  <2> QED
    BY <2>4, <2>5, <2>6 DEF AskInv
<1>8. CASE grace_passes
  <2>1. /\ young' \subseteq young /\ old' \subseteq old
        /\ UNCHANGED <<row, queue, sent, requested, worker, asked, late, smooth, permit, unseen, pass>>
    BY <1>8 DEF grace_passes, passVars
  <2> QED
    BY <2>1 DEF AskInv, TypeOK, RoundFitsBudget, NoneForgotten, RequestsAreKept
<1>9. ASSUME NEW c \in Contacts, answer(c) PROVE AskInv'
  BY <1>9, AnswerFits
<1>10. CASE handler_requests \/ notified \/ run_name_passes \/ pass_ends \/ UNCHANGED vars
  <2>1. UNCHANGED requestVars
    BY <1>10 DEF handler_requests, notified, run_name_passes, pass_ends, vars
  <2>2. permit \in BOOLEAN /\ unseen \in BOOLEAN /\ pass \in {"wait", "debounce", "run"} /\ (unseen => permit \/ pass = "debounce")
    BY DEF AskInv, TypeOK, RequestsAreKept
  <2>3. permit' \in BOOLEAN /\ unseen' \in BOOLEAN /\ pass' \in {"wait", "debounce", "run"} /\ (unseen' => permit' \/ pass' = "debounce")
    <3>1. CASE handler_requests
      BY <2>2, <3>1 DEF handler_requests, request
    <3>2. CASE notified
      BY <2>2, <3>2 DEF notified
    <3>3. CASE run_name_passes
      BY <2>2, <3>3 DEF run_name_passes
    <3>4. CASE pass_ends
      BY <2>2, <3>4 DEF pass_ends
    <3>5. CASE UNCHANGED vars
      BY <2>2, <3>5 DEF vars, passVars
    <3> QED
      BY <1>10, <3>1, <3>2, <3>3, <3>4, <3>5
  <2> QED
    BY <2>1, <2>3 DEF requestVars, AskInv, TypeOK, RoundFitsBudget, NoneForgotten, RequestsAreKept
<1>11. CASE late_sweep
  <2>1. /\ row' = [c \in Contacts |-> IF row[c] = "empty" THEN "none" ELSE row[c]] /\ late' = "none"
        /\ UNCHANGED <<queue, sent, requested, worker, asked, young, old, smooth, permit, unseen, pass>>
    BY <1>11 DEF late_sweep, delete_empty_contact_chats, passVars
  <2>2. \A c \in Contacts : row'[c] # "empty"
    BY <2>1
  <2> QED
    BY <2>1, <2>2 DEF AskInv, TypeOK, RoundFitsBudget, NoneForgotten, RequestsAreKept
<1>12. CASE late_backfill
  <2>1. /\ row' = [c \in Contacts |-> IF row[c] = "none" THEN "empty" ELSE row[c]] /\ late' = "none"
        /\ smooth' = (smooth /\ Unlisted(row) = {})
        /\ UNCHANGED <<queue, sent, requested, worker, asked, young, old, permit, unseen, pass>>
    BY <1>12 DEF late_backfill, passVars
  <2>2. TypeOK'
    BY <2>1 DEF AskInv, TypeOK
  <2>3. ASSUME smooth' PROVE smooth /\ row' = row
    BY <2>1, <2>3 DEF AskInv, TypeOK, Unlisted
  <2>4. NoneForgotten'
    BY <2>1, <2>3 DEF AskInv, NoneForgotten
  <2> QED
    BY <2>1, <2>2, <2>4 DEF AskInv, RoundFitsBudget, RequestsAreKept
<1> QED
  BY <1>1, <1>2, <1>3, <1>4, <1>5, <1>6, <1>7, <1>8, <1>9, <1>10, <1>11, <1>12 DEF Next, Worker

LEMMA AskHolds == Spec => []AskInv
BY AskStart, AskStep, PTL DEF Spec

\* Every variable keeps its shape, and what is queued are contacts.
THEOREM TypeCorrect == Spec => []TypeOK
<1>1. AskInv => TypeOK
  BY DEF AskInv
<1> QED
  BY <1>1, AskHolds, PTL

\* However answers queue chats again, sweeps begin rounds and restarts sessions, the phone is not asked for more than
\* PDO_BACKFILL_CAP histories in a session, nor for one twice in a round.
THEOREM BudgetHolds == Spec => []RoundFitsBudget
<1>1. AskInv => RoundFitsBudget
  BY DEF AskInv
<1> QED
  BY <1>1, AskHolds, PTL

\* No chat made from a contact drops out between the address book, the queue and the phone while there is budget left and
\* the requests get through (backfill_chats_from_contacts, the worker of pdo_requests).
THEOREM BacklogIsKept == Spec => []NoneForgotten
<1>1. AskInv => NoneForgotten
  BY DEF AskInv
<1> QED
  BY <1>1, AskHolds, PTL

\* A request for a name pass that comes while one is running, or settling, is not lost: the permit of notify_one, or the
\* burst that took it, holds it until a pass begins.
THEOREM RequestsHold == Spec => []RequestsAreKept
<1>1. AskInv => RequestsAreKept
  BY DEF AskInv
<1> QED
  BY <1>1, AskHolds, PTL
=============================================================================
