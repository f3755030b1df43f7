------------------------- MODULE ChatIdentityProofs -------------------------
(* Theorems about ChatIdentity for every set of JIDs, names, messages, tasks. *)
EXTENDS MCChatIdentityScenes, SequenceTheorems, FiniteSetTheorems, TLAPS

(***************************************************************************)
(* Calls and the state of a handler.                                       *)
(***************************************************************************)
\* What a store call carries, by its operation.
LEMMA CallArguments ==
    ASSUME NEW c \in CallType
    PROVE  /\ c.op \in {"activity", "refresh", "history"} => c.jid \in Jids /\ c.arg \in Names \cup {None}
           /\ c.op \in {"name", "push", "rename", "backfill", "insert"} => c.jid \in Jids /\ c.arg \in Names
           /\ c.op \in {"meta", "read", "unread", "delete"} => c.jid \in Jids
           /\ c.op \in Stores => c.jid \in Jids /\ c.arg \in Msgs
           /\ c.op \in {"link", "register"} => c.jid \in Jids /\ c.arg \in Jids
           /\ c.op = "twin" => c.jid \in GroupLids
           /\ c.op = "sweep" => c.arg \in SUBSET Jids
           /\ c.op \in {"activity", "refresh", "history", "name", "push", "rename", "backfill", "insert",
                        "meta", "read", "unread", "delete", "link", "register", "twin", "select",
                        "twins", "sweep"} \cup Stores
BY SMT DEF CallType, Stores

\* How many JIDs a call resolves first.
LEMMA ResolvesValues ==
    ASSUME NEW c \in CallType
    PROVE  /\ Resolves(c.op) \in 0..2
           /\ Resolves(c.op) = 2 <=> c.op = "link"
           /\ Resolves(c.op) = 0 <=> c.op \in {"rename", "register", "insert", "select", "sweep", "twins", "twin"}
BY CallArguments, SMT DEF Resolves, Stores

\* Building calls of each kind.
LEMMA MakeCalls ==
    /\ \A j \in Jids, a \in Names \cup {None} :
          \A op \in {"activity", "refresh", "history"} : Call(op, j, a) \in CallType
    /\ \A j \in Jids, a \in Names :
          \A op \in {"name", "push", "rename", "backfill", "insert"} : Call(op, j, a) \in CallType
    /\ \A j \in Jids : \A op \in {"meta", "read", "unread", "delete"} : Call(op, j, None) \in CallType
    /\ \A j \in Jids, m \in Msgs : \A op \in Stores : Call(op, j, m) \in CallType
    /\ \A j, k \in Jids : \A op \in {"link", "register"} : Call(op, j, k) \in CallType
    /\ \A g \in GroupLids : Call("twin", g, None) \in CallType
    /\ \A op \in {"select", "twins"} : Call(op, None, None) \in CallType
    /\ \A S \in SUBSET Jids : Call("sweep", None, S) \in CallType
BY SMT DEF Call, CallType

\* A busy task has a well-formed call at its head and well-formed calls behind it.
LEMMA BusyTask ==
    ASSUME TypeOK, NEW t \in Tasks, ~Idle(t)
    PROVE  /\ todo[t] \in Seq(CallType)
           /\ Len(todo[t]) \in Nat \ {0}
           /\ Head1(t) \in CallType
           /\ Tail(todo[t]) \in Seq(CallType)
           /\ \A i \in 1..Len(todo[t]) : todo[t][i] \in CallType
<1>1. todo[t] \in Seq(CallType) /\ todo[t] # <<>>
  BY DEF TypeOK, Idle
<1>2. Len(todo[t]) \in Nat \ {0}
  BY <1>1, EmptySeq
<1>3. \A i \in 1..Len(todo[t]) : todo[t][i] \in CallType
  BY <1>1, ElementOfSeq
<1>4. Tail(todo[t]) \in Seq(CallType)
  BY <1>1, HeadTailProperties
<1>. QED  BY <1>1, <1>2, <1>3, <1>4 DEF Head1

\* When the statement of a call runs, its JIDs have been resolved to JIDs.
LEMMA HeldJids ==
    ASSUME TypeOK, NEW t \in Tasks, NEW op, Ready(t, op)
    PROVE  /\ Resolves(op) = 1 => held[t][1] \in Jids
           /\ Resolves(op) = 2 => held[t][1] \in Jids /\ held[t][2] \in Jids
BY ElementOfSeq, SMT DEF TypeOK, Ready

\* Returning with well-formed calls keeps the handlers well formed.
LEMMA ReturnKeepsTypes ==
    ASSUME TypeOK, NEW t \in Tasks, NEW rest \in Seq(CallType), ReturnWith(t, rest)
    PROVE  todo' \in [Tasks -> Seq(CallType)] /\ held' \in [Tasks -> Seq(Jids)]
BY EmptySeq DEF TypeOK, ReturnWith

\* canonical_jid answers with a JID.
LEMMA CanonicalIsJid ==
    ASSUME TypeOK, NEW j \in Jids
    PROVE  canonical_jid(j) \in Jids
BY DEF TypeOK, canonical_jid

LEMMA UserIsJid == \A j \in Jids : user(j) \in Jids
BY IdentityAssumption DEF user, Jids

\* The call at the head runs once its JIDs are resolved: one of them ...
LEMMA OneResolved ==
    ASSUME TypeOK, NEW t \in Tasks,
           NEW op \in {"activity", "refresh", "history", "name", "push", "backfill", "meta", "read",
                       "unread", "delete"} \cup Stores,
           Ready(t, op)
    PROVE  held[t][1] \in Jids
BY HeldJids, BusyTask, ResolvesValues, CallArguments, SMT DEF Ready, Stores

\* The twins are listed in some order: finitely many calls.
LEMMA OrdersAreSequences ==
    ASSUME NEW S, IsFiniteSet(S), NEW f \in Orders(S)
    PROVE  /\ DOMAIN f = 1..Cardinality(S)
           /\ Cardinality(S) \in Nat
           /\ \A i \in DOMAIN f : f[i] \in S
BY FS_CardinalityType DEF Orders

\* A function on 1..n with values in S is a sequence over S.
LEMMA FunctionIsSequence ==
    ASSUME NEW S, NEW n \in Nat, NEW f \in [1..n -> S]
    PROVE  f \in Seq(S)
BY SeqDef

(***************************************************************************)
(* Type correctness: one lemma per group of steps.                         *)
(***************************************************************************)
HandlersTyped == todo' \in [Tasks -> Seq(CallType)] /\ held' \in [Tasks -> Seq(Jids)]

LEMMA ReturnTyped ==
    ASSUME TypeOK, NEW t \in Tasks, ~Idle(t), Return(t)
    PROVE  HandlersTyped
BY BusyTask, ReturnKeepsTypes DEF Return, HandlersTyped

\* The JID a call resolves next: its own, or for a link the second one.
LEMMA NextIsJid ==
    ASSUME TypeOK, NEW t \in Tasks, ~Idle(t), Len(held[t]) < Resolves(Head1(t).op)
    PROVE  (IF held[t] = <<>> THEN Head1(t).jid ELSE Head1(t).arg) \in Jids
<1>1. Head1(t) \in CallType /\ held[t] \in Seq(Jids)
  BY BusyTask DEF TypeOK
<1>2. CASE held[t] = <<>>
  BY <1>1, <1>2, CallArguments, ResolvesValues, SMT DEF Stores
<1>3. CASE held[t] # <<>>
  <2>1. Len(held[t]) \in Nat \ {0}
    BY <1>1, <1>3, EmptySeq
  <2>2. Head1(t).op = "link"
    BY <1>1, <2>1, ResolvesValues, SMT
  <2>. QED  BY <1>1, <1>3, <2>2, CallArguments
<1>. QED  BY <1>2, <1>3

LEMMA ResolveTyped ==
    ASSUME TypeOK, NEW t \in Tasks, Resolve(t)
    PROVE  TypeOK'
<1> DEFINE call == Head1(t)
           next == IF held[t] = <<>> THEN call.jid ELSE call.arg
<1>1. ~Idle(t) /\ Len(held[t]) < Resolves(call.op) /\ UNCHANGED <<tables, refused>>
  BY DEF Resolve
<1>2. call \in CallType /\ held[t] \in Seq(Jids)
  BY <1>1, BusyTask DEF TypeOK
<1>3. next \in Jids
  BY <1>1, NextIsJid
<1>4. HandlersTyped
  <2>1. CASE call.op = "link" /\ (call.jid = call.arg \/ held[t] = <<canonical_jid(next)>>)
    BY <1>1, <2>1, ReturnTyped DEF Resolve
  <2>2. CASE ~(call.op = "link" /\ (call.jid = call.arg \/ held[t] = <<canonical_jid(next)>>))
    <3>1. held' = [held EXCEPT ![t] = Append(@, canonical_jid(next))] /\ UNCHANGED todo
      BY <2>2 DEF Resolve
    <3>2. Append(held[t], canonical_jid(next)) \in Seq(Jids)
      BY <1>2, <1>3, CanonicalIsJid, AppendProperties, SMTT(30)
    <3>. QED  BY <3>1, <3>2 DEF TypeOK, HandlersTyped
  <2>. QED  BY <2>1, <2>2
<1>. QED  BY <1>1, <1>4 DEF TypeOK, HandlersTyped, tables

\* The statements that write the chats table alone.
LEMMA ActivityPutsRow ==
    ASSUME TypeOK, NEW t \in Tasks, record_message_activity(t)
    PROVE  held[t][1] \in Jids /\ \E row \in Row : chats' = Put(held[t][1], row)
<1>1. PICK op \in {"activity", "refresh"} : Ready(t, op)
  BY DEF record_message_activity
<1>2. ~Idle(t) /\ Head1(t).op = op /\ Head1(t) \in CallType
  BY <1>1, BusyTask DEF Ready
<1> DEFINE j == held[t][1]
           hint == IF is_group(j) THEN None ELSE Head1(t).arg
<1>3. j \in Jids /\ hint \in Names \cup {None} /\ user(j) \in Jids
  BY <1>1, <1>2, OneResolved, CallArguments, UserIsJid
<1>4. contacts[j] \in Contact /\ chats[j] \in Row \cup {None}
  BY <1>3 DEF TypeOK
<1> DEFINE counted == Head1(t).op = "activity"
           known == contacts[j]
           fresh == [name |-> IF hint # None THEN hint
                              ELSE IF known.name # None /\ ~is_group(j) THEN known.name ELSE user(j),
                     src |-> IF hint # None THEN "pushname"
                             ELSE IF (known.name # None \/ known.push) /\ ~is_group(j)
                             THEN "contact" ELSE "placeholder",
                     dated |-> TRUE, unread |-> counted]
           rename == hint # None /\ name_is_placeholder(j, chats[j].name)
           refreshed == [name |-> IF rename THEN hint ELSE chats[j].name,
                         src |-> IF rename THEN "pushname" ELSE chats[j].src,
                         dated |-> TRUE, unread |-> chats[j].unread \/ counted]
<1>5. chats' = Put(j, IF Exists(j) THEN refreshed ELSE fresh)
  BY Zenon DEF record_message_activity
<1>6. fresh \in Row
  BY <1>3, <1>4 DEF Row, Sources, Contact
<1>7. Exists(j) => refreshed \in Row
  <2>1. Exists(j) => chats[j] \in Row
    BY <1>4 DEF Exists
  <2>. QED  BY <1>3, <2>1 DEF Row, Sources
<1>. QED  BY <1>3, <1>5, <1>6, <1>7

LEMMA ActivityTyped ==
    ASSUME TypeOK, NEW t \in Tasks, record_message_activity(t)
    PROVE  TypeOK'
<1>1. ~Idle(t)
  BY DEF record_message_activity, Ready
<1>2. chats' \in [Jids -> Row \cup {None}]
  BY ActivityPutsRow DEF TypeOK, Put
<1>3. HandlersTyped
  BY <1>1, ReturnTyped DEF record_message_activity
<1>. QED  BY <1>2, <1>3 DEF TypeOK, HandlersTyped, record_message_activity

LEMMA DeferredRowTyped == DeferredRow \in Row
BY DEF DeferredRow, Row, Sources

LEMMA FlagTyped ==
    ASSUME TypeOK, NEW t \in Tasks, set_chat_flag(t)
    PROVE  TypeOK'
<1>1. Ready(t, "meta") /\ ~Idle(t)
  BY DEF set_chat_flag, Ready
<1>2. held[t][1] \in Jids
  BY <1>1, OneResolved
<1>3. chats' \in [Jids -> Row \cup {None}]
  BY <1>2, DeferredRowTyped DEF set_chat_flag, TypeOK, Put
<1>4. HandlersTyped
  BY <1>1, ReturnTyped DEF set_chat_flag
<1>. QED  BY <1>3, <1>4 DEF TypeOK, HandlersTyped, set_chat_flag

LEMMA MarkTyped ==
    ASSUME TypeOK, NEW t \in Tasks, NEW op \in {"read", "unread"}, mark_chat(t, op)
    PROVE  TypeOK'
<1>1. Ready(t, op) /\ ~Idle(t)
  BY DEF mark_chat, Ready
<1>2. held[t][1] \in Jids
  BY <1>1, OneResolved
<1>3. \A row \in Row : [row EXCEPT !.unread = (op = "unread")] \in Row
  BY DEF Row
<1>4. chats' \in [Jids -> Row \cup {None}]
  BY <1>2, <1>3, DeferredRowTyped DEF mark_chat, TypeOK, Put, Exists
<1>5. HandlersTyped
  BY <1>1, ReturnTyped DEF mark_chat
<1>. QED  BY <1>4, <1>5 DEF TypeOK, HandlersTyped, mark_chat

LEMMA HistoryPutsRow ==
    ASSUME TypeOK, NEW t \in Tasks, upsert_chat_from_history(t)
    PROVE  held[t][1] \in Jids /\ \E row \in Row : chats' = Put(held[t][1], row)
<1>1. Ready(t, "history") /\ ~Idle(t) /\ Head1(t).op = "history" /\ Head1(t) \in CallType
  BY BusyTask DEF upsert_chat_from_history, Ready
<1> DEFINE j == held[t][1]
           real == Head1(t).arg
           src == IF real = None THEN "placeholder" ELSE IF is_group(j) THEN "subject" ELSE "contact"
           rename == real # None /\ name_is_placeholder(j, chats[j].name)
<1>2. j \in Jids /\ real \in Names \cup {None} /\ user(j) \in Jids
  BY <1>1, OneResolved, CallArguments, UserIsJid
<1>3. PICK dated, unread \in BOOLEAN :
         chats' = Put(j, IF Exists(j)
                         THEN [name |-> IF rename THEN real ELSE chats[j].name,
                               src |-> IF rename THEN src ELSE chats[j].src,
                               dated |-> chats[j].dated \/ dated, unread |-> unread]
                         ELSE [name |-> IF real = None THEN user(j) ELSE real, src |-> src,
                               dated |-> dated, unread |-> unread])
  BY DEF upsert_chat_from_history
<1>4. chats[j] \in Row \cup {None}
  BY <1>2 DEF TypeOK
<1>. QED  BY <1>2, <1>3, <1>4, SMT DEF Exists, Row, Sources

LEMMA HistoryTyped ==
    ASSUME TypeOK, NEW t \in Tasks, upsert_chat_from_history(t)
    PROVE  TypeOK'
<1>1. ~Idle(t)
  BY DEF upsert_chat_from_history, Ready
<1> DEFINE j == held[t][1]
           rest == [i \in 1..(Len(todo[t]) - 1) |->
                      LET c == todo[t][i + 1]
                      IN IF c.op \in {"imported", "refresh"} THEN [c EXCEPT !.jid = j] ELSE c]
<1>2. j \in Jids
  BY HistoryPutsRow
<1>3. chats' \in [Jids -> Row \cup {None}]
  BY HistoryPutsRow DEF TypeOK, Put
<1>4. rest \in Seq(CallType)
  <2>1. Len(todo[t]) - 1 \in Nat /\ \A i \in 1..(Len(todo[t]) - 1) : todo[t][i + 1] \in CallType
    BY <1>1, BusyTask, SMT
  <2>2. \A c \in CallType : c.op \in {"imported", "refresh"} => [c EXCEPT !.jid = j] \in CallType
    BY <1>2, SMT DEF CallType, Stores
  <2>3. rest \in [1..(Len(todo[t]) - 1) -> CallType]
    BY <2>1, <2>2
  <2>. QED  BY <2>1, <2>3, FunctionIsSequence
<1>5. HandlersTyped
  BY <1>4, ReturnKeepsTypes DEF upsert_chat_from_history, HandlersTyped
<1>. QED  BY <1>3, <1>5 DEF TypeOK, HandlersTyped, upsert_chat_from_history

LEMMA RenameTyped ==
    ASSUME TypeOK, NEW t \in Tasks, rename_chat(t)
    PROVE  TypeOK'
<1>1. ~Idle(t) /\ Head1(t).jid \in Jids /\ Head1(t).arg \in Names
  BY BusyTask, CallArguments DEF rename_chat, Ready
<1>2. \A row \in Row, n \in Names : [row EXCEPT !.name = n, !.src = "subject"] \in Row
  BY DEF Row, Sources
<1>3. chats' \in [Jids -> Row \cup {None}]
  BY <1>1, <1>2 DEF rename_chat, TypeOK, Exists, Put
<1>4. HandlersTyped
  BY <1>1, ReturnTyped DEF rename_chat
<1>. QED  BY <1>3, <1>4 DEF TypeOK, HandlersTyped, rename_chat

LEMMA ContactNameTyped ==
    ASSUME TypeOK, NEW t \in Tasks, apply_contact_name(t)
    PROVE  TypeOK'
<1>1. ~Idle(t) /\ Head1(t).arg \in Names
  BY BusyTask, CallArguments DEF apply_contact_name, Ready
<1>2. \A row \in Row, n \in Names : [row EXCEPT !.name = n, !.src = "contact"] \in Row
  BY DEF Row, Sources
<1>3. \A c \in Contact, n \in Names : [c EXCEPT !.name = n] \in Contact
  BY DEF Contact
<1>4. chats' \in [Jids -> Row \cup {None}] /\ contacts' \in [Jids -> Contact]
  BY <1>1, <1>2, <1>3 DEF apply_contact_name, TypeOK, Exists
<1>5. HandlersTyped
  BY <1>1, ReturnTyped DEF apply_contact_name
<1>. QED  BY <1>4, <1>5 DEF TypeOK, HandlersTyped, apply_contact_name

LEMMA PushNameTyped ==
    ASSUME TypeOK, NEW t \in Tasks, apply_push_name(t)
    PROVE  TypeOK'
<1>1. ~Idle(t) /\ Head1(t).jid \in Jids /\ Head1(t).arg \in Names
  BY BusyTask, CallArguments DEF apply_push_name, Ready
<1>2. \A row \in Row, n \in Names : [row EXCEPT !.name = n, !.src = "pushname"] \in Row
  BY DEF Row, Sources
<1>3. chats' \in [Jids -> Row \cup {None}]
  BY <1>1, <1>2 DEF apply_push_name, TypeOK, Exists
<1>4. contacts' \in [Jids -> Contact]
  <2>1. [contacts[Head1(t).jid] EXCEPT !.push = TRUE] \in Contact
    BY <1>1 DEF TypeOK, Contact
  <2>2. contacts' = [contacts EXCEPT ![Head1(t).jid] = [contacts[Head1(t).jid] EXCEPT !.push = TRUE]]
    BY <1>1 DEF apply_push_name, TypeOK
  <2>. QED  BY <1>1, <2>1, <2>2 DEF TypeOK
<1>5. HandlersTyped
  BY <1>1, ReturnTyped DEF apply_push_name
<1>. QED  BY <1>3, <1>4, <1>5 DEF TypeOK, HandlersTyped, apply_push_name

LEMMA ContactChatTyped ==
    ASSUME TypeOK, NEW t \in Tasks, upsert_chat_from_contact(t)
    PROVE  TypeOK'
<1>1. ~Idle(t) /\ Head1(t).jid \in Jids /\ Head1(t).arg \in Names
  BY BusyTask, CallArguments DEF upsert_chat_from_contact, Ready
<1>2. \A n \in Names : [DeferredRow EXCEPT !.name = n, !.src = "contact"] \in Row
  BY DEF Row, Sources, DeferredRow
<1>3. chats' \in [Jids -> Row \cup {None}]
  BY <1>1, <1>2 DEF upsert_chat_from_contact, TypeOK, Put
<1>4. HandlersTyped
  BY <1>1, ReturnTyped DEF upsert_chat_from_contact
<1>. QED  BY <1>3, <1>4 DEF TypeOK, HandlersTyped, upsert_chat_from_contact

LEMMA MessageTyped ==
    ASSUME TypeOK, NEW t \in Tasks, upsert_message(t)
    PROVE  TypeOK'
<1>1. PICK op \in Stores : Ready(t, op)
  BY DEF upsert_message
<1>2. ~Idle(t) /\ Head1(t).op = op /\ Head1(t) \in CallType
  BY <1>1, BusyTask DEF Ready
<1> DEFINE j == held[t][1]
           m == Head1(t).arg
<1>3. j \in Jids /\ m \in Msgs
  BY <1>1, <1>2, OneResolved, CallArguments
<1>4. messages' \in [Msgs -> Jids \cup {None}] /\ refused' \subseteq Stores
  <2>1. CASE messages[m] # None \/ Exists(j)
    BY <1>3, <2>1 DEF upsert_message, TypeOK
  <2>2. CASE ~(messages[m] # None \/ Exists(j))
    BY <1>2, <2>2 DEF upsert_message, TypeOK
  <2>. QED  BY <2>1, <2>2
<1>5. HandlersTyped
  <2> DEFINE from == IF Head1(t).op = "imported" THEN 3 ELSE 2
  <2>1. \A i \in from..Len(todo[t]) : todo[t][i] \in CallType
    BY <1>2, BusyTask, SMT
  <2>2. SubSeq(todo[t], from, Len(todo[t])) \in Seq(CallType)
    BY <1>2, <2>1, BusyTask, SubSeqProperties
  <2>3. CASE messages[m] # None \/ Exists(j)
    BY <1>2, <2>3, ReturnTyped DEF upsert_message
  <2>4. CASE ~(messages[m] # None \/ Exists(j))
    BY <2>2, <2>4, ReturnKeepsTypes DEF upsert_message, HandlersTyped
  <2>. QED  BY <2>3, <2>4
<1>. QED  BY <1>4, <1>5 DEF TypeOK, HandlersTyped, upsert_message

\* The canonical id is one of the two, and the merged row is a row or nothing.
LEMMA PickIsOneOfTwo == \A l, r : pick_canonical_jid(l, r) \in {l, r}
BY DEF pick_canonical_jid

LEMMA MergedRowTyped ==
    ASSUME TypeOK, NEW canonical \in Jids, NEW other \in Jids
    PROVE  MergedRow(canonical, other) \in Row \cup {None}
<1>1. chats[canonical] \in Row \cup {None} /\ chats[other] \in Row \cup {None}
  BY DEF TypeOK
<1>2. CASE ~Exists(other) \/ ~Exists(canonical)
  BY <1>1, <1>2 DEF MergedRow
<1>3. CASE Exists(other) /\ Exists(canonical)
  <2>1. chats[canonical] \in Row /\ chats[other] \in Row
    BY <1>1, <1>3 DEF Exists
  <2>2. MergedRow(canonical, other) =
          LET c == chats[canonical]
              o == chats[other]
              take == name_is_placeholder(canonical, c.name)
          IN [name |-> IF take THEN o.name ELSE c.name,
              src |-> IF take /\ o.src # "none" THEN o.src ELSE c.src,
              dated |-> c.dated \/ o.dated, unread |-> c.unread \/ o.unread]
    BY <1>3, Zenon DEF MergedRow
  <2>. QED  BY <2>1, <2>2, SMT DEF Row
<1>. QED  BY <1>2, <1>3

\* A link whose statement runs holds two JIDs.
LEMMA LinkHeld ==
    ASSUME TypeOK, NEW t \in Tasks, Ready(t, "link")
    PROVE  /\ ~Idle(t) /\ Head1(t).jid \in Jids /\ Head1(t).arg \in Jids
           /\ held[t][1] \in Jids /\ held[t][2] \in Jids /\ Len(held[t]) = 2
<1>1. ~Idle(t) /\ Head1(t).op = "link" /\ Len(held[t]) = Resolves("link")
  BY DEF Ready
<1>2. Resolves("link") = 2
  BY DEF Resolves
<1>3. Head1(t).jid \in Jids /\ Head1(t).arg \in Jids
  BY <1>1, BusyTask, CallArguments
<1>. QED  BY <1>1, <1>2, <1>3, HeldJids

LEMMA LinkTyped ==
    ASSUME TypeOK, NEW t \in Tasks, link_jids(t)
    PROVE  TypeOK'
<1> DEFINE call == Head1(t)
           canonical == pick_canonical_jid(held[t][1], held[t][2])
           other == IF canonical = held[t][1] THEN held[t][2] ELSE held[t][1]
<1>1. Ready(t, "link")
  BY DEF link_jids
<1>2. ~Idle(t) /\ canonical \in Jids /\ other \in Jids
  BY <1>1, LinkHeld, PickIsOneOfTwo
<1>3. HandlersTyped
  BY <1>2, ReturnTyped DEF link_jids
<1>4. CASE MessagesOf(other) # {} /\ ~Exists(canonical)
  BY <1>3, <1>4 DEF link_jids, tables, TypeOK, HandlersTyped
<1>5. CASE ~(MessagesOf(other) # {} /\ ~Exists(canonical))
  <2>1. /\ messages' = [m \in Msgs |-> IF messages[m] = other THEN canonical ELSE messages[m]]
        /\ chats' = [chats EXCEPT ![canonical] = MergedRow(canonical, other), ![other] = None]
        /\ jid_aliases' = Relinked({call.jid, call.arg, held[t][1], held[t][2]}, canonical, other)
        /\ UNCHANGED <<contacts, refused>>
    BY <1>5 DEF link_jids
  <2>2. messages' \in [Msgs -> Jids \cup {None}]
    BY <1>2, <2>1 DEF TypeOK
  <2>3. chats' \in [Jids -> Row \cup {None}]
    BY <1>2, <2>1, MergedRowTyped DEF TypeOK
  <2>4. jid_aliases' \in [Jids -> Jids \cup {None}]
    BY <1>2, <2>1 DEF TypeOK, Relinked
  <2>. QED  BY <1>3, <2>1, <2>2, <2>3, <2>4 DEF TypeOK, HandlersTyped
<1>. QED  BY <1>4, <1>5

LEMMA TwinsTyped ==
    ASSUME TypeOK, NEW t \in Tasks, merge_group_lid_twins(t)
    PROVE  TypeOK'
<1>1. HandlersTyped
  <2>1. CASE Ready(t, "twins")
    <3> DEFINE S == {g \in GroupLids : Exists(g)}
    <3>1. ~Idle(t) /\ Head1(t).op = "twins"
      BY <2>1 DEF Ready
    <3>2. PICK order \in Orders(S) :
             ReturnWith(t, [i \in DOMAIN order |-> Call("twin", order[i], None)] \o Tail(todo[t]))
      BY <3>1 DEF merge_group_lid_twins, Ready
    <3>3. IsFiniteSet(S)
      BY IdentityAssumption, FS_Subset DEF Jids
    <3>4. /\ Cardinality(S) \in Nat
          /\ [i \in DOMAIN order |-> Call("twin", order[i], None)] \in [1..Cardinality(S) -> CallType]
      <4>1. /\ DOMAIN order = 1..Cardinality(S) /\ Cardinality(S) \in Nat
            /\ \A i \in DOMAIN order : order[i] \in S
        <5> HIDE DEF S
        <5>. QED  BY <3>2, <3>3, OrdersAreSequences
      <4>2. \A i \in DOMAIN order : Call("twin", order[i], None) \in CallType
        BY <4>1, MakeCalls
      <4>. QED  BY <4>1, <4>2
    <3>5. [i \in DOMAIN order |-> Call("twin", order[i], None)] \o Tail(todo[t]) \in Seq(CallType)
      BY <3>1, <3>4, FunctionIsSequence, BusyTask, ConcatProperties
    <3>. QED  BY <3>2, <3>5, ReturnKeepsTypes DEF HandlersTyped
  <2>2. CASE Ready(t, "twin")
    <3> DEFINE g == Head1(t).jid
    <3>1. ~Idle(t) /\ Head1(t).op = "twin" /\ g \in GroupLids
      BY <2>2, BusyTask, CallArguments DEF Ready
    <3>2. Call("link", g, Twin[g]) \in CallType
      BY <3>1, IdentityAssumption, MakeCalls DEF Jids
    <3>3. <<Call("link", g, Twin[g])>> \o Tail(todo[t]) \in Seq(CallType)
      <4>1. <<Call("link", g, Twin[g])>> \in Seq(CallType)
        BY <3>2
      <4>. QED  BY <3>1, <4>1, BusyTask, ConcatProperties
    <3>4. \/ ReturnWith(t, <<Call("link", g, Twin[g])>> \o Tail(todo[t]))
          \/ Return(t)
      BY <3>1 DEF merge_group_lid_twins, Ready
    <3>. QED  BY <3>1, <3>3, <3>4, ReturnTyped, ReturnKeepsTypes DEF HandlersTyped
  <2>. QED  BY <2>1, <2>2 DEF merge_group_lid_twins
<1>. QED  BY <1>1 DEF TypeOK, HandlersTyped, merge_group_lid_twins, tables

LEMMA BackfillTyped ==
    ASSUME TypeOK, NEW t \in Tasks, contact_backfill_identity(t)
    PROVE  TypeOK'
<1> DEFINE j == Head1(t).jid
           name == Head1(t).arg
<1>1. Ready(t, "backfill") /\ ~Idle(t) /\ Head1(t).op = "backfill"
  BY DEF contact_backfill_identity, Ready
<1>2. j \in Jids /\ name \in Names /\ held[t][1] \in Jids /\ Tail(todo[t]) \in Seq(CallType)
  BY <1>1, BusyTask, CallArguments, OneResolved
<1>3. <<Call("insert", held[t][1], name)>> \o Tail(todo[t]) \in Seq(CallType)
  <2>1. <<Call("insert", held[t][1], name)>> \in Seq(CallType)
    BY <1>2, MakeCalls
  <2>. QED  BY <1>2, <2>1, ConcatProperties
<1>4. \A p \in Pns : <<Call("register", j, p), Call("insert", p, name)>> \o Tail(todo[t]) \in Seq(CallType)
  <2>1. ASSUME NEW p \in Pns
        PROVE  <<Call("register", j, p), Call("insert", p, name)>> \in Seq(CallType)
    BY <1>2, MakeCalls DEF Jids
  <2>. QED  BY <1>2, <2>1, ConcatProperties
<1>5. \/ ReturnWith(t, <<Call("insert", held[t][1], name)>> \o Tail(todo[t]))
      \/ \E p \in Pns : ReturnWith(t, <<Call("register", j, p), Call("insert", p, name)>> \o Tail(todo[t]))
  BY DEF contact_backfill_identity
<1>6. HandlersTyped
  BY <1>3, <1>4, <1>5, ReturnKeepsTypes DEF HandlersTyped
<1>. QED  BY <1>6 DEF TypeOK, HandlersTyped, contact_backfill_identity, tables

LEMMA RegisterTyped ==
    ASSUME TypeOK, NEW t \in Tasks, register_jid_alias(t)
    PROVE  TypeOK'
<1>1. ~Idle(t) /\ Head1(t).jid \in Jids /\ Head1(t).arg \in Jids
  BY BusyTask, CallArguments DEF register_jid_alias, Ready
<1>2. HandlersTyped
  BY <1>1, ReturnTyped DEF register_jid_alias
<1>. QED  BY <1>1, <1>2 DEF TypeOK, HandlersTyped, register_jid_alias

LEMMA SelectTyped ==
    ASSUME TypeOK, NEW t \in Tasks, empty_contact_chats(t)
    PROVE  TypeOK'
<1> DEFINE S == {j \in Jids : EmptyContactChat(j)}
<1>1. ~Idle(t)
  BY DEF empty_contact_chats, Ready
<1>2. <<Call("sweep", None, S)>> \o Tail(todo[t]) \in Seq(CallType)
  <2>1. S \in SUBSET Jids
    OBVIOUS
  <2> HIDE DEF S
  <2>2. <<Call("sweep", None, S)>> \in Seq(CallType)
    BY <2>1, MakeCalls
  <2>. QED  BY <1>1, <2>2, BusyTask, ConcatProperties
<1>3. HandlersTyped
  BY <1>2, ReturnKeepsTypes DEF empty_contact_chats, HandlersTyped
<1>. QED  BY <1>3 DEF TypeOK, HandlersTyped, empty_contact_chats, tables

LEMMA DeleteTyped ==
    ASSUME TypeOK, NEW t \in Tasks, delete_empty_contact_chats(t) \/ delete_chat(t)
    PROVE  TypeOK'
<1>1. ~Idle(t)
  BY DEF delete_empty_contact_chats, delete_chat, Ready
<1>2. HandlersTyped /\ UNCHANGED <<jid_aliases, contacts, refused>>
  BY <1>1, ReturnTyped DEF delete_empty_contact_chats, delete_chat
<1>3. PICK gone : DeleteRows(gone)
  BY DEF delete_empty_contact_chats, delete_chat
<1>. QED  BY <1>2, <1>3 DEF TypeOK, HandlersTyped, DeleteRows

(***************************************************************************)
(* The handlers start with well-formed calls.                              *)
(***************************************************************************)
LEMMA StartTyped ==
    ASSUME TypeOK, NEW t \in Tasks, NEW calls \in Seq(CallType), Start(t, calls)
    PROVE  TypeOK'
BY DEF Start, TypeOK, tables

LEMMA HandlerTyped ==
    ASSUME TypeOK, NEW t \in Tasks, Handler(t)
    PROVE  TypeOK'
<1>1. CASE handle_inbound_message(t)
  <2>1. PICK j \in Jids, m \in Msgs, hint \in Names \cup {None}, bump \in {"activity", "refresh"} :
           LET c == canonical_jid(j)
           IN Start(t, <<Call(bump, c, hint), Call("meta", c, None), Call("message", c, m)>>)
    BY <1>1 DEF handle_inbound_message
  <2> DEFINE c == canonical_jid(j)
             calls == <<Call(bump, c, hint), Call("meta", c, None), Call("message", c, m)>>
  <2>2. c \in Jids
    BY CanonicalIsJid
  <2>3. /\ Call(bump, c, hint) \in CallType /\ Call("meta", c, None) \in CallType
        /\ Call("message", c, m) \in CallType
    BY <2>2, MakeCalls DEF Stores
  <2>4. calls \in Seq(CallType)
    BY <2>3
  <2>. QED  BY <2>1, <2>4, StartTyped
<1>2. CASE send_text(t)
  <2>1. PICK j \in Jids, m \in Msgs :
           Start(t, <<Call("meta", j, None), Call("refresh", j, None), Call("message", j, m)>>)
    BY <1>2 DEF send_text
  <2>2. /\ Call("meta", j, None) \in CallType /\ Call("refresh", j, None) \in CallType
        /\ Call("message", j, m) \in CallType
    BY MakeCalls DEF Stores
  <2>3. <<Call("meta", j, None), Call("refresh", j, None), Call("message", j, m)>> \in Seq(CallType)
    BY <2>2
  <2>. QED  BY <2>1, <2>3, StartTyped
<1>3. CASE handle_undecryptable(t)
  <2>1. PICK j \in Jids, m \in Msgs, bump \in {"activity", "refresh"} :
           LET c == canonical_jid(j)
           IN Start(t, (IF messages[m] = None THEN <<Call("placeholder", c, m)>> ELSE <<>>)
                       \o <<Call(bump, c, None)>>)
    BY <1>3 DEF handle_undecryptable
  <2> DEFINE c == canonical_jid(j)
             first == IF messages[m] = None THEN <<Call("placeholder", c, m)>> ELSE <<>>
  <2>2. Call("placeholder", c, m) \in CallType /\ Call(bump, c, None) \in CallType
    BY CanonicalIsJid, MakeCalls DEF Stores
  <2>3. first \in Seq(CallType) /\ <<Call(bump, c, None)>> \in Seq(CallType)
    BY <2>2
  <2>4. first \o <<Call(bump, c, None)>> \in Seq(CallType)
    BY <2>3, ConcatProperties
  <2>. QED  BY <2>1, <2>4, StartTyped
<1>4. CASE import_history_sync(t)
  <2>1. PICK j \in Jids, n \in Names \cup {None}, push \in Names \cup {None}, m \in Msgs \cup {None} :
           Start(t, <<Call("history", j, n)>>
                    \o (IF m = None THEN <<>> ELSE <<Call("imported", j, m), Call("refresh", j, push)>>)
                    \o <<Call("twins", None, None)>>)
    BY <1>4 DEF import_history_sync
  <2> DEFINE head == <<Call("history", j, n)>>
             body == IF m = None THEN <<>> ELSE <<Call("imported", j, m), Call("refresh", j, push)>>
             last == <<Call("twins", None, None)>>
  <2>2. /\ Call("history", j, n) \in CallType /\ Call("refresh", j, push) \in CallType
        /\ Call("twins", None, None) \in CallType
    BY MakeCalls
  <2>a. m # None => Call("imported", j, m) \in CallType
    BY MakeCalls DEF Stores
  <2>3. head \in Seq(CallType) /\ body \in Seq(CallType) /\ last \in Seq(CallType)
    BY <2>2, <2>a
  <2> HIDE DEF head, body, last
  <2>4. head \o body \in Seq(CallType)
    BY <2>3, ConcatProperties
  <2>5. head \o body \o last \in Seq(CallType)
    BY <2>3, <2>4, ConcatProperties
  <2>. QED  BY <2>1, <2>5, StartTyped DEF head, body, last
<1>5. CASE handle_contact_update(t)
  <2>1. PICK p \in Pns, l \in Lids, n \in Names :
           \E targets \in {<<p>>, <<l>>, <<p, l>>, <<l, p>>} :
              Start(t, (IF Len(targets) = 2 THEN <<Call("link", targets[1], targets[2])>> ELSE <<>>)
                       \o [i \in DOMAIN targets |-> Call("name", targets[i], n)])
    BY <1>5 DEF handle_contact_update
  <2>2. PICK targets \in {<<p>>, <<l>>, <<p, l>>, <<l, p>>} :
           Start(t, (IF Len(targets) = 2 THEN <<Call("link", targets[1], targets[2])>> ELSE <<>>)
                    \o [i \in DOMAIN targets |-> Call("name", targets[i], n)])
    BY <2>1
  <2> DEFINE links == IF Len(targets) = 2 THEN <<Call("link", targets[1], targets[2])>> ELSE <<>>
             names == [i \in DOMAIN targets |-> Call("name", targets[i], n)]
  <2>3. targets \in Seq(Jids)
    <3>1. p \in Jids /\ l \in Jids
      BY DEF Jids
    <3>2. <<p>> \in Seq(Jids) /\ <<l>> \in Seq(Jids) /\ <<p, l>> \in Seq(Jids) /\ <<l, p>> \in Seq(Jids)
      BY <3>1
    <3>. QED  BY <3>2
  <2>4. links \in Seq(CallType)
    <3>1. Len(targets) = 2 => Call("link", targets[1], targets[2]) \in CallType
      <4>1. ASSUME Len(targets) = 2 PROVE targets[1] \in Jids /\ targets[2] \in Jids
        BY <2>3, <4>1, ElementOfSeq
      <4>. QED  BY <4>1, MakeCalls
    <3>. QED  BY <3>1
  <2>5. names \in Seq(CallType)
    <3>1. Len(targets) \in Nat /\ DOMAIN targets = 1..Len(targets)
      BY <2>3, LenProperties
    <3>2. \A i \in DOMAIN targets : Call("name", targets[i], n) \in CallType
      BY <2>3, <3>1, ElementOfSeq, MakeCalls
    <3>3. names \in [1..Len(targets) -> CallType]
      BY <3>1, <3>2
    <3>. QED  BY <3>1, <3>3, FunctionIsSequence
  <2>6. links \o names \in Seq(CallType)
    BY <2>4, <2>5, ConcatProperties
  <2>. QED  BY <2>2, <2>6, StartTyped
<1>6. CASE handle_push_name(t)
  <2>1. PICK j \in Pns \cup Lids, n \in Names : Start(t, <<Call("push", j, n)>>)
    BY <1>6 DEF handle_push_name
  <2>2. <<Call("push", j, n)>> \in Seq(CallType)
    BY MakeCalls DEF Jids
  <2>. QED  BY <2>1, <2>2, StartTyped
<1>7. CASE handle_flag_patch(t)
  <2>1. PICK j \in Jids, op \in {"meta", "read", "unread"} :
           Start(t, <<Call(op, canonical_jid(j), None)>>)
    BY <1>7 DEF handle_flag_patch
  <2>2. <<Call(op, canonical_jid(j), None)>> \in Seq(CallType)
    BY CanonicalIsJid, MakeCalls
  <2>. QED  BY <2>1, <2>2, StartTyped
<1>8. CASE handle_group_subject(t)
  <2>1. PICK g \in Groups \cup GroupLids, n \in Names : Start(t, <<Call("rename", canonical_jid(g), n)>>)
    BY <1>8 DEF handle_group_subject
  <2>2. canonical_jid(g) \in Jids
    BY CanonicalIsJid DEF Jids
  <2>3. <<Call("rename", canonical_jid(g), n)>> \in Seq(CallType)
    BY <2>2, MakeCalls
  <2>. QED  BY <2>1, <2>3, StartTyped
<1>9. CASE handle_delete_chat(t)
  <2>1. PICK j \in Jids : Start(t, <<Call("delete", canonical_jid(j), None)>>)
    BY <1>9 DEF handle_delete_chat
  <2>2. <<Call("delete", canonical_jid(j), None)>> \in Seq(CallType)
    BY CanonicalIsJid, MakeCalls
  <2>. QED  BY <2>1, <2>2, StartTyped
<1>10. CASE run_contact_name_pass(t)
  <2>1. PICK j \in Pns, l \in Lids, n \in Names \cup {None} :
           Start(t, <<Call("link", j, l)>> \o (IF n = None THEN <<>> ELSE <<Call("name", j, n)>>))
    BY <1>10 DEF run_contact_name_pass
  <2> DEFINE names == IF n = None THEN <<>> ELSE <<Call("name", j, n)>>
  <2>2. Call("link", j, l) \in CallType /\ (n # None => Call("name", j, n) \in CallType)
    BY MakeCalls DEF Jids
  <2>3. <<Call("link", j, l)>> \in Seq(CallType) /\ names \in Seq(CallType)
    BY <2>2
  <2>4. <<Call("link", j, l)>> \o names \in Seq(CallType)
    BY <2>3, ConcatProperties
  <2>. QED  BY <2>1, <2>4, StartTyped
<1>11. CASE backfill_chats_from_contacts(t)
  <2> DEFINE S == contacts_missing_chats
  <2>1. PICK order \in Orders(S) :
           Start(t, [i \in DOMAIN order |-> Call("backfill", order[i], contacts[order[i]].name)])
    BY <1>11 DEF backfill_chats_from_contacts
  <2>2. /\ S \subseteq Jids
        /\ \A j \in S : contacts[j].name \in Names
    BY DEF contacts_missing_chats, TypeOK, Contact
  <2>3. IsFiniteSet(S)
    BY <2>2, IdentityAssumption, FS_Subset
  <2>4. /\ DOMAIN order = 1..Cardinality(S) /\ Cardinality(S) \in Nat
        /\ \A i \in DOMAIN order : order[i] \in S
    BY <2>1, <2>3, OrdersAreSequences
  <2>5. \A i \in DOMAIN order : Call("backfill", order[i], contacts[order[i]].name) \in CallType
    BY <2>2, <2>4, MakeCalls
  <2>6. [i \in DOMAIN order |-> Call("backfill", order[i], contacts[order[i]].name)]
           \in [1..Cardinality(S) -> CallType]
    BY <2>4, <2>5
  <2>7. [i \in DOMAIN order |-> Call("backfill", order[i], contacts[order[i]].name)] \in Seq(CallType)
    BY <2>4, <2>6, FunctionIsSequence
  <2>. QED  BY <2>1, <2>7, StartTyped
<1>12. CASE sweep(t)
  <2>1. <<Call("select", None, None)>> \in Seq(CallType)
    BY MakeCalls
  <2>. QED  BY <1>12, <2>1, StartTyped DEF sweep
<1>. QED  BY <1>1, <1>2, <1>3, <1>4, <1>5, <1>6, <1>7, <1>8, <1>9, <1>10, <1>11, <1>12 DEF Handler

(***************************************************************************)
(* Type correctness.                                                       *)
(***************************************************************************)
LEMMA InitTyped == Init => TypeOK
BY EmptySeq DEF Init, TypeOK, Contact, Stores

LEMMA StatementTyped ==
    ASSUME TypeOK, NEW t \in Tasks, Statement(t)
    PROVE  TypeOK'
BY ActivityTyped, FlagTyped, MarkTyped, HistoryTyped, RenameTyped, ContactNameTyped, PushNameTyped,
   ContactChatTyped, MessageTyped, LinkTyped, TwinsTyped, BackfillTyped, RegisterTyped, SelectTyped,
   DeleteTyped DEF Statement

LEMMA StepTyped == TypeOK /\ [Next]_vars => TypeOK'
<1> SUFFICES ASSUME TypeOK, [Next]_vars PROVE TypeOK'
  OBVIOUS
<1>1. CASE UNCHANGED vars
  BY <1>1 DEF vars, TypeOK
<1>2. ASSUME NEW t \in Tasks, Resolve(t) \/ Statement(t) \/ Handler(t) PROVE TypeOK'
  BY <1>2, ResolveTyped, StatementTyped, HandlerTyped
<1>. QED  BY <1>1, <1>2 DEF Next

\* Every table and every task keeps its shape, whatever the handlers, the
\* names and the interleaving.
THEOREM TypeCorrect == Spec => []TypeOK
<1>. QED  BY InitTyped, StepTyped, PTL DEF Spec

(***************************************************************************)
(* The foreign key.  Alone it is not inductive: a link that held the same  *)
(* JID twice would move the messages onto a row it then deletes.           *)
(***************************************************************************)
\* canonical_jid's two answers differ whenever link_jids goes on with both.
HeldDiffer == \A t \in Tasks : Len(held[t]) = 2 => held[t][1] # held[t][2]

KeyInv == TypeOK /\ HeldDiffer /\ ForeignKey

LEMMA EmptyHeldDiffers ==
    ASSUME TypeOK, HeldDiffer, NEW t \in Tasks, NEW rest, ReturnWith(t, rest)
    PROVE  HeldDiffer'
BY EmptySeq DEF TypeOK, HeldDiffer, ReturnWith

LEMMA HeldDifferStep ==
    ASSUME TypeOK, HeldDiffer, NEW t \in Tasks, Resolve(t) \/ Statement(t) \/ Handler(t)
    PROVE  HeldDiffer'
<1>1. CASE Resolve(t)
  <2> DEFINE call == Head1(t)
             next == IF held[t] = <<>> THEN call.jid ELSE call.arg
  <2>1. ~Idle(t) /\ Len(held[t]) < Resolves(call.op) /\ call \in CallType /\ held[t] \in Seq(Jids)
    BY <1>1, BusyTask DEF Resolve, TypeOK
  <2>2. CASE call.op = "link" /\ (call.jid = call.arg \/ held[t] = <<canonical_jid(next)>>)
    BY <1>1, <2>2, EmptyHeldDiffers DEF Resolve, Return
  <2>3. CASE ~(call.op = "link" /\ (call.jid = call.arg \/ held[t] = <<canonical_jid(next)>>))
    <3>1. held' = [held EXCEPT ![t] = Append(@, canonical_jid(next))]
      BY <1>1, <2>3 DEF Resolve
    <3> DEFINE c == canonical_jid(next)
    <3>c. c \in Jids
      BY <2>1, NextIsJid, CanonicalIsJid
    <3>a. /\ Len(held[t]) \in Nat /\ Len(Append(held[t], c)) = Len(held[t]) + 1
          /\ Append(held[t], c)[Len(held[t]) + 1] = c
          /\ \A i \in 1..Len(held[t]) : Append(held[t], c)[i] = held[t][i]
      <4> HIDE DEF c
      <4>. QED  BY <2>1, <3>c, AppendProperties, LenProperties
    <3>2. CASE Len(held[t]) # 1
      <4>1. Len(held[t]) \in Nat /\ Len(Append(held[t], c)) = Len(held[t]) + 1
        BY <3>a
      <4>2. Len(Append(held[t], c)) # 2
        <5>1. \A n \in Nat : n # 1 => n + 1 # 2
          OBVIOUS
        <5>. QED  BY <5>1, <3>2, <4>1, Zenon
      <4>. QED  BY <3>1, <4>2 DEF HeldDiffer, TypeOK
    <3>3. CASE Len(held[t]) = 1
      <4>1. held[t] = <<held[t][1]>>
        <5>1. held[t][1] \in Jids
          BY <2>1, <3>3, ElementOfSeq
        <5>2. <<held[t][1]>> \in Seq(Jids) /\ Len(<<held[t][1]>>) = 1
          BY <5>1
        <5>. QED  BY <2>1, <3>3, <5>2, SeqEqual
      <4>2. call.op = "link"
        BY <2>1, <3>3, ResolvesValues, SMT
      <4>3. held[t][1] # canonical_jid(next)
        BY <2>3, <4>1, <4>2
      <4>4. held'[t][1] = held[t][1] /\ held'[t][2] = canonical_jid(next)
        BY <3>1, <3>3, <3>a DEF TypeOK
      <4>. QED  BY <3>1, <4>3, <4>4 DEF HeldDiffer, TypeOK
    <3>. QED  BY <3>2, <3>3
  <2>. QED  BY <2>2, <2>3
<1>2. CASE Statement(t)
  <2>1. \E rest : ReturnWith(t, rest)
    BY <1>2 DEF Statement, Return, record_message_activity, set_chat_flag, mark_chat, upsert_message,
       upsert_chat_from_history, rename_chat, apply_contact_name, apply_push_name, link_jids,
       merge_group_lid_twins, contact_backfill_identity, register_jid_alias, upsert_chat_from_contact,
       empty_contact_chats, delete_empty_contact_chats, delete_chat
  <2>. QED  BY <2>1, EmptyHeldDiffers
<1>3. CASE Handler(t)
  <2>1. held' = held
    BY <1>3 DEF Handler, Start, handle_inbound_message, send_text, handle_undecryptable,
       import_history_sync, handle_contact_update, handle_push_name, handle_flag_patch,
       handle_group_subject, handle_delete_chat, run_contact_name_pass,
       backfill_chats_from_contacts, sweep
  <2>. QED  BY <2>1 DEF HeldDiffer
<1>. QED  BY <1>1, <1>2, <1>3

\* A step that moves no message and deletes no row.
KeepsRows == messages' = messages /\ \A j \in Jids : Exists(j) => chats'[j] # None

LEMMA KeepingRows ==
    ASSUME TypeOK, ForeignKey, KeepsRows
    PROVE  ForeignKey'
BY DEF TypeOK, ForeignKey, KeepsRows, Exists

LEMMA PutKeepsRows ==
    ASSUME TypeOK, NEW j \in Jids, NEW row \in Row, chats' = Put(j, row), messages' = messages
    PROVE  KeepsRows
BY NoRowIsNone DEF TypeOK, KeepsRows, Put, Exists

LEMMA DeleteKeepsKey ==
    ASSUME TypeOK, ForeignKey, NEW gone, DeleteRows(gone)
    PROVE  ForeignKey'
BY DEF TypeOK, ForeignKey, DeleteRows, Exists

LEMMA LinkKeepsKey ==
    ASSUME KeyInv, NEW t \in Tasks, link_jids(t)
    PROVE  ForeignKey'
<1> DEFINE canonical == pick_canonical_jid(held[t][1], held[t][2])
           other == IF canonical = held[t][1] THEN held[t][2] ELSE held[t][1]
<1>1. Ready(t, "link") /\ TypeOK /\ HeldDiffer /\ ForeignKey
  BY DEF link_jids, KeyInv
<1>2. canonical \in Jids /\ other \in Jids /\ canonical # other
  BY <1>1, LinkHeld, PickIsOneOfTwo DEF HeldDiffer
<1>3. CASE MessagesOf(other) # {} /\ ~Exists(canonical)
  BY <1>1, <1>3 DEF link_jids, tables, ForeignKey, Exists
<1>4. CASE ~(MessagesOf(other) # {} /\ ~Exists(canonical))
  <2>1. /\ messages' = [m \in Msgs |-> IF messages[m] = other THEN canonical ELSE messages[m]]
        /\ chats' = [chats EXCEPT ![canonical] = MergedRow(canonical, other), ![other] = None]
    BY <1>4 DEF link_jids
  <2>2. \A j \in Jids : j # canonical /\ j # other => chats'[j] = chats[j]
    BY <1>1, <1>2, <2>1 DEF TypeOK
  <2>3. chats'[canonical] = MergedRow(canonical, other)
    BY <1>1, <1>2, <2>1 DEF TypeOK
  <2>4. Exists(canonical) => chats'[canonical] # None
    <3>1. CASE Exists(other) /\ Exists(canonical)
      <4>1. chats[canonical] \in Row /\ chats[other] \in Row
        BY <1>1, <1>2, <3>1 DEF TypeOK, Exists
      <4>2. MergedRow(canonical, other) \in Row
        BY <3>1, <4>1 DEF MergedRow, Row
      <4>. QED  BY <2>3, <4>2, NoRowIsNone
    <3>. QED  BY <2>3, <3>1 DEF MergedRow, Exists
  <2>5. ASSUME NEW m \in Msgs, messages'[m] # None
        PROVE  chats'[messages'[m]] # None
    <3>1. CASE messages[m] = other
      BY <1>4, <2>1, <2>4, <3>1 DEF MessagesOf
    <3>2. CASE messages[m] # other
      <4>1. messages[m] \in Jids /\ Exists(messages[m]) /\ messages'[m] = messages[m]
        BY <1>1, <2>1, <2>5, <3>2 DEF TypeOK, ForeignKey
      <4>. QED  BY <2>2, <2>4, <3>2, <4>1 DEF Exists
    <3>. QED  BY <3>1, <3>2
  <2>. QED  BY <2>5 DEF ForeignKey, Exists
<1>. QED  BY <1>3, <1>4

LEMMA MessageKeepsKey ==
    ASSUME KeyInv, NEW t \in Tasks, upsert_message(t)
    PROVE  ForeignKey'
<1>1. PICK op \in Stores : Ready(t, op)
  BY DEF upsert_message
<1>2. /\ TypeOK /\ ForeignKey /\ chats' = chats
      /\ held[t][1] \in Jids /\ Head1(t).arg \in Msgs
  BY <1>1, BusyTask, CallArguments, OneResolved DEF KeyInv, Ready, upsert_message
<1>3. CASE messages[Head1(t).arg] # None \/ Exists(held[t][1])
  BY <1>2, <1>3 DEF upsert_message, TypeOK, ForeignKey, Exists
<1>4. CASE ~(messages[Head1(t).arg] # None \/ Exists(held[t][1]))
  BY <1>2, <1>4 DEF upsert_message, ForeignKey, Exists
<1>. QED  BY <1>3, <1>4

\* Only a merge, a deletion or the sweep takes a chat row away; only upsert_message and a merge
\* besides them write messages.
LEMMA RowsStay ==
    ASSUME TypeOK, NEW t \in Tasks, Resolve(t) \/ Statement(t) \/ Handler(t),
           ~upsert_message(t), ~link_jids(t), ~delete_empty_contact_chats(t), ~delete_chat(t)
    PROVE  KeepsRows
<1>0. TypeOK
  OBVIOUS
<1>1. CASE Resolve(t) \/ Handler(t)
  BY <1>1 DEF Resolve, tables, Handler, Start, handle_inbound_message, send_text,
       handle_undecryptable, import_history_sync, handle_contact_update, handle_push_name,
       handle_flag_patch, handle_group_subject, handle_delete_chat, run_contact_name_pass,
       backfill_chats_from_contacts, sweep, KeepsRows, Exists
<1>2. CASE record_message_activity(t)
  BY <1>2, ActivityPutsRow, PutKeepsRows DEF record_message_activity
<1>3. CASE upsert_chat_from_history(t)
  BY <1>3, HistoryPutsRow, PutKeepsRows DEF upsert_chat_from_history
<1>4. CASE set_chat_flag(t)
  <2>1. KeepsRows
    <3>1. Ready(t, "meta")
      BY <1>4 DEF set_chat_flag
    <3>2. held[t][1] \in Jids
      BY <1>0, <3>1, OneResolved
    <3>. QED  BY <1>0, <1>4, <3>2, DeferredRowTyped, NoRowIsNone
         DEF set_chat_flag, Put, KeepsRows, Exists, TypeOK
  <2>. QED  BY <2>1
<1>5. ASSUME NEW op \in {"read", "unread"}, mark_chat(t, op) PROVE KeepsRows
  <2>1. held[t][1] \in Jids
    BY <1>0, <1>5, OneResolved DEF mark_chat
  <2>2. \A row \in Row : [row EXCEPT !.unread = (op = "unread")] \in Row
    BY DEF Row
  <2>3. (IF Exists(held[t][1]) THEN chats[held[t][1]] ELSE DeferredRow) \in Row
    BY <1>0, <2>1, DeferredRowTyped DEF TypeOK, Exists
  <2>4. \E row \in Row : chats' = Put(held[t][1], row)
    BY <1>5, <2>2, <2>3 DEF mark_chat
  <2>. QED  BY <1>0, <1>5, <2>1, <2>4, PutKeepsRows DEF mark_chat
<1>9. CASE \/ merge_group_lid_twins(t) \/ contact_backfill_identity(t) \/ register_jid_alias(t)
           \/ empty_contact_chats(t)
  BY <1>9 DEF merge_group_lid_twins, contact_backfill_identity, register_jid_alias,
     empty_contact_chats, tables, KeepsRows, Exists
<1>10. CASE rename_chat(t)
  <2>1. \A row \in Row, n \in Names : [row EXCEPT !.name = n, !.src = "subject"] \in Row
    BY DEF Row, Sources
  <2>2. Head1(t).jid \in Jids /\ Head1(t).arg \in Names
    BY <1>0, <1>10, BusyTask, CallArguments DEF rename_chat, Ready
  <2>3. \A j \in Jids : Exists(j) => chats[j] \in Row
    BY <1>0 DEF TypeOK, Exists
  <2>4. \A j \in Jids : Exists(j) => [chats[j] EXCEPT !.name = Head1(t).arg, !.src = "subject"] # None
    <3>1. ASSUME NEW j \in Jids, Exists(j)
          PROVE  [chats[j] EXCEPT !.name = Head1(t).arg, !.src = "subject"] \in Row
      <4>1. chats[j] \in Row
        BY <2>3, <3>1
      <4>. QED  BY <2>1, <2>2, <4>1, Zenon
    <3>. QED  BY <3>1, NoRowIsNone, Zenon
  <2>5. KeepsRows
    BY <1>0, <1>10, <2>2, <2>4 DEF rename_chat, Put, KeepsRows, Exists, TypeOK
  <2>. QED  BY <2>5
<1>11. CASE apply_contact_name(t) \/ apply_push_name(t)
  <2>1. \A row \in Row, n \in Names, s \in {"contact", "pushname"} :
           [row EXCEPT !.name = n, !.src = s] \in Row
    BY DEF Row, Sources
  <2>2. Head1(t).arg \in Names
    BY <1>0, <1>11, BusyTask, CallArguments DEF apply_contact_name, apply_push_name, Ready
  <2>3. \A j \in Jids : Exists(j) => chats[j] \in Row
    BY <1>0 DEF TypeOK, Exists
  <2>4. \A j \in Jids, s \in {"contact", "pushname"} :
           Exists(j) => [chats[j] EXCEPT !.name = Head1(t).arg, !.src = s] # None
    <3>1. ASSUME NEW j \in Jids, NEW s \in {"contact", "pushname"}, Exists(j)
          PROVE  [chats[j] EXCEPT !.name = Head1(t).arg, !.src = s] \in Row
      <4>1. chats[j] \in Row
        BY <2>3, <3>1
      <4>. QED  BY <2>1, <2>2, <4>1, Zenon
    <3>. QED  BY <3>1, NoRowIsNone, Zenon
  <2>5. KeepsRows
    <3>1. CASE apply_contact_name(t)
      BY <2>4, <3>1 DEF apply_contact_name, KeepsRows, Exists
    <3>2. CASE apply_push_name(t)
      BY <2>4, <3>2 DEF apply_push_name, KeepsRows, Exists
    <3>. QED  BY <1>11, <3>1, <3>2, SMTT(30)
  <2>. QED  BY <2>5
<1>12. CASE upsert_chat_from_contact(t)
  <2>1. \A n \in Names : [DeferredRow EXCEPT !.name = n, !.src = "contact"] \in Row
    BY DEF Row, Sources, DeferredRow
  <2>2. Head1(t).jid \in Jids /\ Head1(t).arg \in Names
    BY <1>0, <1>12, BusyTask, CallArguments DEF upsert_chat_from_contact, Ready
  <2>3. KeepsRows
    BY <1>0, <1>12, <2>1, <2>2, NoRowIsNone DEF upsert_chat_from_contact, Put, KeepsRows, Exists, TypeOK
  <2>. QED  BY <2>3
<1>. QED  BY <1>1, <1>2, <1>3, <1>4, <1>5, <1>9, <1>10, <1>11, <1>12 DEF Statement

LEMMA KeyStep ==
    ASSUME KeyInv, NEW t \in Tasks, Resolve(t) \/ Statement(t) \/ Handler(t)
    PROVE  ForeignKey'
<1>0. TypeOK /\ ForeignKey
  BY DEF KeyInv
<1>1. CASE upsert_message(t)
  BY <1>1, MessageKeepsKey
<1>2. CASE link_jids(t)
  BY <1>2, LinkKeepsKey
<1>3. CASE delete_empty_contact_chats(t) \/ delete_chat(t)
  BY <1>0, <1>3, DeleteKeepsKey DEF delete_empty_contact_chats, delete_chat
<1>4. CASE ~(upsert_message(t) \/ link_jids(t) \/ delete_empty_contact_chats(t) \/ delete_chat(t))
  BY <1>0, <1>4, RowsStay, KeepingRows
<1>. QED  BY <1>1, <1>2, <1>3, <1>4

\* No message is ever left without its chat row, for any number of tasks whose
\* statements interleave in any order (messages.chat_id REFERENCES chats).
THEOREM ForeignKeyHolds == Spec => []ForeignKey
<1>1. Init => KeyInv
  <2> SUFFICES ASSUME Init PROVE KeyInv
    OBVIOUS
  <2>1. TypeOK
    BY InitTyped
  <2>2. HeldDiffer
    BY EmptySeq DEF Init, HeldDiffer
  <2>3. ForeignKey
    BY DEF Init, ForeignKey
  <2>. QED  BY <2>1, <2>2, <2>3 DEF KeyInv
<1>2. KeyInv /\ [Next]_vars => KeyInv'
  <2> SUFFICES ASSUME KeyInv, [Next]_vars PROVE KeyInv'
    OBVIOUS
  <2>1. TypeOK'
    BY StepTyped DEF KeyInv
  <2>2. CASE UNCHANGED vars
    BY <2>1, <2>2 DEF vars, KeyInv, HeldDiffer, ForeignKey, Exists
  <2>3. ASSUME NEW t \in Tasks, Resolve(t) \/ Statement(t) \/ Handler(t) PROVE KeyInv'
    BY <2>1, <2>3, HeldDifferStep, KeyStep DEF KeyInv
  <2>. QED  BY <2>2, <2>3 DEF Next
<1>3. KeyInv => ForeignKey
  BY DEF KeyInv
<1>. QED  BY <1>1, <1>2, <1>3, PTL DEF Spec

(***************************************************************************)
(* Names from the address book.                                            *)
(***************************************************************************)
\* A name from the address book, or a group subject.
StrongRow(row) == row.src \in {"contact", "subject"}
KeepsStrongName(j) ==
    Named(j) /\ StrongRow(chats[j]) /\ chats'[j] # None
    => StrongRow(chats'[j]) /\ ~name_is_placeholder(j, chats'[j].name)

LEMMA SameRowKeepsName ==
    ASSUME NEW j, chats'[j] = chats[j] \/ chats'[j] = None
    PROVE  KeepsStrongName(j)
BY DEF KeepsStrongName, Named, StrongRow

\* A row that keeps its name and source keeps its strength.
LEMMA SameNameKeepsName ==
    ASSUME NEW j, Exists(j) => chats'[j].name = chats[j].name /\ chats'[j].src = chats[j].src
    PROVE  KeepsStrongName(j)
BY DEF KeepsStrongName, Named, StrongRow

\* A real name is never the number of a JID, and never blank.
LEMMA RealNames ==
    ASSUME NEW j \in Jids, NEW n \in Names
    PROVE  ~name_is_placeholder(j, n)
BY IdentityAssumption, UserIsJid DEF name_is_placeholder

LEMMA LinkKeepsNames ==
    ASSUME TypeOK, NEW t \in Tasks, link_jids(t), NEW j \in Jids
    PROVE  KeepsStrongName(j)
<1> DEFINE canonical == pick_canonical_jid(held[t][1], held[t][2])
           other == IF canonical = held[t][1] THEN held[t][2] ELSE held[t][1]
<1>1. Ready(t, "link") /\ canonical \in Jids /\ other \in Jids
  BY LinkHeld, PickIsOneOfTwo DEF link_jids
<1>2. CASE MessagesOf(other) # {} /\ ~Exists(canonical)
  BY <1>2, SameRowKeepsName DEF link_jids, tables
<1>3. CASE ~(MessagesOf(other) # {} /\ ~Exists(canonical))
  <2>1. chats' = [chats EXCEPT ![canonical] = MergedRow(canonical, other), ![other] = None]
    BY <1>3 DEF link_jids
  <2>2. CASE j = other
    BY <1>1, <2>1, <2>2, SameRowKeepsName DEF TypeOK
  <2>3. CASE j # other /\ j # canonical
    BY <1>1, <2>1, <2>3, SameRowKeepsName DEF TypeOK
  <2>4. CASE j # other /\ j = canonical
    <3>1. chats'[j] = MergedRow(j, other)
      BY <1>1, <2>1, <2>4 DEF TypeOK
    <3>2. SUFFICES ASSUME Named(j), Exists(j) PROVE KeepsStrongName(j)
      BY DEF KeepsStrongName, Named
    <3>3. MergedRow(j, other).name = chats[j].name /\ MergedRow(j, other).src = chats[j].src
      BY <3>2 DEF MergedRow, Named
    <3>. QED  BY <3>1, <3>3, SameNameKeepsName
  <2>. QED  BY <2>2, <2>3, <2>4
<1>. QED  BY <1>2, <1>3

LEMMA NamesStep ==
    ASSUME TypeOK, NEW t \in Tasks, Resolve(t) \/ Statement(t) \/ Handler(t), NEW j \in Jids
    PROVE  KeepsStrongName(j)
<1>1. CASE Resolve(t) \/ Handler(t)
  <2>1. UNCHANGED chats
    BY <1>1 DEF Resolve, tables, Handler, Start, handle_inbound_message, send_text,
       handle_undecryptable, import_history_sync, handle_contact_update, handle_push_name,
       handle_flag_patch, handle_group_subject, handle_delete_chat, run_contact_name_pass,
       backfill_chats_from_contacts, sweep
  <2>. QED  BY <2>1, SameRowKeepsName
<1>2. CASE record_message_activity(t)
  <2> DEFINE k == held[t][1]
             hint == IF is_group(k) THEN None ELSE Head1(t).arg
             rename == hint # None /\ name_is_placeholder(k, chats[k].name)
  <2>1. k \in Jids
    BY <1>2, ActivityPutsRow
  <2>2. CASE j = k /\ Named(j)
    <3>1. ~rename /\ Exists(k)
      BY <2>2 DEF Named
    <3>2. chats' = Put(k, [name |-> chats[k].name, src |-> chats[k].src, dated |-> TRUE,
                           unread |-> chats[k].unread \/ Head1(t).op = "activity"])
      BY <1>2, <3>1, Zenon DEF record_message_activity
    <3>. QED  BY <2>1, <2>2, <3>2, SameNameKeepsName DEF Put, TypeOK
  <2>3. CASE j # k \/ ~Named(j)
    <3>1. j # k => chats'[j] = chats[j]
      BY <1>2, <2>1, ActivityPutsRow DEF Put, TypeOK
    <3>. QED  BY <2>3, <3>1, SameRowKeepsName DEF KeepsStrongName
  <2>. QED  BY <2>2, <2>3
<1>3. CASE upsert_chat_from_history(t)
  <2> DEFINE k == held[t][1]
             real == Head1(t).arg
             src == IF real = None THEN "placeholder" ELSE IF is_group(k) THEN "subject" ELSE "contact"
             rename == real # None /\ name_is_placeholder(k, chats[k].name)
  <2>1. k \in Jids
    BY <1>3, HistoryPutsRow
  <2>2. CASE j = k /\ Named(j)
    <3>1. ~rename /\ Exists(k)
      BY <2>2 DEF Named
    <3>2. PICK dated, unread \in BOOLEAN :
             chats' = Put(k, IF Exists(k)
                             THEN [name |-> IF rename THEN real ELSE chats[k].name,
                                   src |-> IF rename THEN src ELSE chats[k].src,
                                   dated |-> chats[k].dated \/ dated, unread |-> unread]
                             ELSE [name |-> IF real = None THEN user(k) ELSE real, src |-> src,
                                   dated |-> dated, unread |-> unread])
      BY <1>3 DEF upsert_chat_from_history
    <3>. QED  BY <2>1, <2>2, <3>1, <3>2, SameNameKeepsName DEF Put, TypeOK
  <2>3. CASE j # k \/ ~Named(j)
    <3>1. j # k => chats'[j] = chats[j]
      BY <1>3, <2>1, HistoryPutsRow DEF Put, TypeOK
    <3>. QED  BY <2>3, <3>1, SameRowKeepsName DEF KeepsStrongName
  <2>. QED  BY <2>2, <2>3
<1>4. CASE set_chat_flag(t)
  BY <1>4, SameRowKeepsName DEF set_chat_flag, Put, TypeOK, KeepsStrongName, Named
<1>5. ASSUME NEW op \in {"read", "unread"}, mark_chat(t, op) PROVE KeepsStrongName(j)
  <2> DEFINE k == held[t][1]
             row == IF Exists(k) THEN chats[k] ELSE DeferredRow
  <2>1. k \in Jids /\ row \in Row
    BY <1>5, OneResolved, DeferredRowTyped DEF mark_chat, TypeOK, Exists
  <2>2. chats' = Put(k, [row EXCEPT !.unread = (op = "unread")])
    BY <1>5 DEF mark_chat
  <2>3. /\ [row EXCEPT !.unread = (op = "unread")].name = row.name
        /\ [row EXCEPT !.unread = (op = "unread")].src = row.src
    <3> HIDE DEF row
    <3>. QED  BY <2>1 DEF Row
  <2>4. CASE j = k
    BY <2>1, <2>2, <2>3, <2>4, SameNameKeepsName DEF Put, TypeOK
  <2>5. CASE j # k
    BY <2>1, <2>2, <2>5, SameRowKeepsName DEF Put, TypeOK
  <2>. QED  BY <2>4, <2>5
<1>6. CASE rename_chat(t) \/ apply_contact_name(t)
  <2>1. Head1(t).arg \in Names /\ (rename_chat(t) => Head1(t).jid \in Jids)
    BY <1>6, BusyTask, CallArguments DEF rename_chat, apply_contact_name, Ready
  <2>2. \/ chats'[j] = chats[j]
        \/ /\ Exists(j)
           /\ \E src \in {"contact", "subject"} :
                 chats'[j] = [chats[j] EXCEPT !.name = Head1(t).arg, !.src = src]
    <3>1. CASE rename_chat(t)
      BY <2>1, <3>1 DEF rename_chat, Put, TypeOK
    <3>2. CASE apply_contact_name(t)
      BY <3>2 DEF apply_contact_name
    <3>. QED  BY <1>6, <3>1, <3>2
  <2>3. ASSUME Exists(j), NEW src \in {"contact", "subject"},
               chats'[j] = [chats[j] EXCEPT !.name = Head1(t).arg, !.src = src]
        PROVE  KeepsStrongName(j)
    <3>1. chats[j] \in Row
      BY <2>3 DEF TypeOK, Exists
    <3>2. chats'[j].name = Head1(t).arg /\ chats'[j].src = src
      BY <2>3, <3>1 DEF Row
    <3>. QED  BY <2>1, <3>2, RealNames DEF KeepsStrongName, StrongRow
  <2>. QED  BY <2>2, <2>3, SameRowKeepsName
<1>7. CASE apply_push_name(t)
  <2>1. StrongRow(chats[j]) => chats'[j] = chats[j]
    BY <1>7 DEF apply_push_name, TakesPushName, StrongRow
  <2>. QED  BY <2>1, SameRowKeepsName DEF KeepsStrongName
<1>8. CASE link_jids(t)
  BY <1>8, LinkKeepsNames
<1>9. CASE upsert_chat_from_contact(t)
  <2>1. Exists(j) => chats'[j] = chats[j]
    BY <1>9 DEF upsert_chat_from_contact, Put, TypeOK
  <2>. QED  BY <2>1, SameRowKeepsName DEF KeepsStrongName, Named
<1>10. CASE delete_empty_contact_chats(t) \/ delete_chat(t)
  <2>1. chats'[j] = chats[j] \/ chats'[j] = None
    BY <1>10 DEF delete_empty_contact_chats, delete_chat, DeleteRows
  <2>. QED  BY <2>1, SameRowKeepsName
<1>11. CASE \/ merge_group_lid_twins(t) \/ contact_backfill_identity(t) \/ register_jid_alias(t)
            \/ empty_contact_chats(t) \/ upsert_message(t)
  <2>1. chats' = chats
    BY <1>11 DEF merge_group_lid_twins, contact_backfill_identity, register_jid_alias,
       empty_contact_chats, upsert_message, tables
  <2>. QED  BY <2>1, SameRowKeepsName
<1>. QED  BY <1>1, <1>2, <1>3, <1>4, <1>5, <1>6, <1>7, <1>8, <1>9, <1>10, <1>11 DEF Statement

\* Whatever writers interleave and whatever rows are merged, an address-book
\* name or a group subject is only ever replaced by another one.
THEOREM StrongNamesHold == Spec => StrongNamesStay
<1> DEFINE Keeps == \A j \in Jids : /\ Named(j) /\ chats[j].src \in {"contact", "subject"}
                                    /\ chats'[j] # None
                                    => /\ chats'[j].src \in {"contact", "subject"}
                                       /\ ~name_is_placeholder(j, chats'[j].name)
<1>1. TypeOK /\ [Next]_vars => [Keeps]_vars
  <2> SUFFICES ASSUME TypeOK, [Next]_vars, vars' # vars PROVE Keeps
    OBVIOUS
  <2>1. PICK t \in Tasks : Resolve(t) \/ Statement(t) \/ Handler(t)
    BY DEF Next
  <2>2. \A j \in Jids : KeepsStrongName(j)
    BY <2>1, NamesStep
  <2>. QED  BY <2>2 DEF KeepsStrongName, StrongRow
<1>. QED  BY <1>1, TypeCorrect, PTL DEF Spec, StrongNamesStay

(***************************************************************************)
(* Identities, groups and messages on their way: the invariants.           *)
(***************************************************************************)
\* The handlers that link, those that take a row away or an id from it, and the calls they do it with.
Linkers == {"import", "contacts", "names"}
Takers == Linkers \cup {"deletes", "sweep"}
Links == {"link", "twin", "twins"}
Takes == Links \cup {"delete", "select", "sweep"}

\* Each call of a handler is of one of its duties; a link, and an alias of the backfill, joins two
\* JIDs of one kind.
CallFits(t, c) ==
    /\ c.op \in Links => Duties[t] \cap Linkers # {}
    /\ c.op \in Takes => Duties[t] \cap Takers # {}
    /\ c.op \in {"backfill", "register", "insert"} => "backfill" \in Duties[t]
    /\ c.op \in {"link", "register"} => (is_group(c.jid) <=> is_group(c.arg))
CallsFit == \A t \in Tasks : \A i \in 1..Len(todo[t]) : CallFits(t, todo[t][i])

\* What a call at its head has resolved is the current canonical id.
HeldRight(t) ==
    /\ Len(held[t]) >= 1 => held[t][1] = canonical_jid(todo[t][1].jid)
    /\ Len(held[t]) >= 2 => held[t][2] = canonical_jid(todo[t][1].arg)
HeldIsCurrent == \A t \in Tasks : HeldRight(t)

\* An idle task holds nothing.
IdleHoldsNone == \A t \in Tasks : Idle(t) => held[t] = <<>>

\* At most one task links, others may run beside it; whoever links runs alone; no task is the contact backfill.
OneLinks == \A t, u \in Tasks : Duties[t] \cap Linkers # {} /\ Duties[u] \cap Linkers # {} => t = u
LinksAlone == \A t, u \in Tasks : Duties[t] \cap Linkers # {} => t = u
NoBackfill == \A t \in Tasks : "backfill" \notin Duties[t]

\* A task is inside link_jids: the first of its ids is resolved and the transaction has not run.
\* LinksApart: no two tasks are inside it at once, and no alias is registered without a merge.
\* LinksExclude: while a task is inside it no other has a resolved id in its hands, as if one lock
\* spanned the look-ups and the statement; and no contact row is made of an older look-up.
InLink(t) == ~Idle(t) /\ Head1(t).op = "link" /\ held[t] # <<>>
NoneAt(op) == \A t \in Tasks : ~Idle(t) => Head1(t).op # op
LinksApart == NoneAt("register") /\ \A t, u \in Tasks : InLink(t) /\ InLink(u) => t = u
LinksExclude ==
    /\ NoneAt("register") /\ NoneAt("insert")
    /\ \A t, u \in Tasks : InLink(t) /\ held[u] # <<>> => t = u

\* The aliases alone: whoever is about to link holds current ids.
LinkersHoldCurrent == \A t \in Tasks : InLink(t) => HeldRight(t)
AliasInv ==
    /\ TypeOK /\ HeldDiffer /\ CallsFit /\ IdleHoldsNone
    /\ LinkersHoldCurrent /\ CanonicalIsSettled

SettledInv ==
    /\ TypeOK /\ HeldDiffer /\ CallsFit /\ IdleHoldsNone
    /\ HeldIsCurrent /\ CanonicalIsSettled /\ OneRowPerIdentity

\* A message on its way has its chat row, or a call before it makes one; no call before it takes a
\* row away, and none renames the chat of a live message.
Creates == {"activity", "refresh", "meta", "history"}
Stored == {"message", "imported"}
ChatFor(calls, i) ==
    /\ \/ Exists(canonical_jid(calls[i].jid))
       \/ \E k \in 1..(i - 1) : /\ calls[k].op \in Creates
                                /\ canonical_jid(calls[k].jid) = canonical_jid(calls[i].jid)
    /\ \A k \in 1..(i - 1) : /\ calls[k].op \notin Takes
                             /\ calls[i].op = "message" => calls[k].op # "history"
ChatsFor(calls) == \A i \in 1..Len(calls) : calls[i].op \in Stored => ChatFor(calls, i)
ChatComes == \A t \in Tasks : ChatsFor(todo[t])
\* Whoever takes rows or ids away runs alone.
TakesAlone == \A t, u \in Tasks : Duties[t] \cap Takers # {} => t = u
MessagesInv == SettledInv /\ ChatComes /\ MessagesFindTheirChat

\* Aliases, and what is resolved, keep to a kind.
KindsKept ==
    /\ \A j \in Jids : jid_aliases[j] # None => (is_group(jid_aliases[j]) <=> is_group(j))
    /\ \A t \in Tasks :
          /\ Len(held[t]) >= 1 => (is_group(held[t][1]) <=> is_group(todo[t][1].jid))
          /\ Len(held[t]) >= 2 => (is_group(held[t][2]) <=> is_group(todo[t][1].arg))
GroupInv == TypeOK /\ CallsFit /\ IdleHoldsNone /\ KindsKept /\ GroupsNeverTakePushNames

(***************************************************************************)
(* The calls of a list fit the duties of its task.                         *)
(***************************************************************************)
FitAll(t, calls) == \A i \in 1..Len(calls) : CallFits(t, calls[i])

LEMMA FitTail ==
    ASSUME TypeOK, CallsFit, NEW t \in Tasks, ~Idle(t)
    PROVE  FitAll(t, Tail(todo[t])) /\ CallFits(t, Head1(t))
<1>1. todo[t] \in Seq(CallType) /\ todo[t] # <<>> /\ Len(todo[t]) \in Nat \ {0}
  BY BusyTask DEF Idle
<1>2. Len(Tail(todo[t])) = Len(todo[t]) - 1 /\ \A i \in 1..Len(Tail(todo[t])) : Tail(todo[t])[i] = todo[t][i + 1]
  BY <1>1, HeadTailProperties
<1>. QED  BY <1>1, <1>2 DEF CallsFit, FitAll, Head1

LEMMA FitConcat ==
    ASSUME NEW t, NEW a \in Seq(CallType), NEW b \in Seq(CallType), FitAll(t, a), FitAll(t, b)
    PROVE  FitAll(t, a \o b)
<1>1. /\ Len(a \o b) = Len(a) + Len(b) /\ Len(a) \in Nat /\ Len(b) \in Nat
      /\ \A i \in 1..Len(a) + Len(b) : (a \o b)[i] = IF i <= Len(a) THEN a[i] ELSE b[i - Len(a)]
  BY ConcatProperties, LenProperties
<1>. QED  BY <1>1 DEF FitAll

LEMMA FitLists ==
    ASSUME TypeOK, CallsFit, NEW t \in Tasks, NEW rest, FitAll(t, rest), todo' = [todo EXCEPT ![t] = rest]
    PROVE  CallsFit'
BY DEF TypeOK, CallsFit, FitAll, CallFits

LEMMA FitReturn ==
    ASSUME TypeOK, CallsFit, NEW t \in Tasks, ~Idle(t), Return(t)
    PROVE  CallsFit'
BY FitTail, FitLists DEF Return, ReturnWith

LEMMA FitLiteral ==
    ASSUME NEW t
    PROVE  /\ FitAll(t, <<>>)
           /\ \A a : CallFits(t, a) => FitAll(t, <<a>>)
           /\ \A a, b : CallFits(t, a) /\ CallFits(t, b) => FitAll(t, <<a, b>>)
           /\ \A a, b, c : CallFits(t, a) /\ CallFits(t, b) /\ CallFits(t, c) => FitAll(t, <<a, b, c>>)
<1>1. FitAll(t, <<>>)
  <2>1. Len(<<>>) = 0
    BY EmptySeq
  <2>. QED  BY <2>1 DEF FitAll
<1>2. ASSUME NEW a, CallFits(t, a) PROVE FitAll(t, <<a>>)
  BY <1>2 DEF FitAll
<1>3. ASSUME NEW a, NEW b, CallFits(t, a), CallFits(t, b) PROVE FitAll(t, <<a, b>>)
  <2>1. Len(<<a, b>>) = 2 /\ \A i \in 1..2 : <<a, b>>[i] \in {a, b}
    OBVIOUS
  <2>. QED  BY <1>3, <2>1 DEF FitAll
<1>4. ASSUME NEW a, NEW b, NEW c, CallFits(t, a), CallFits(t, b), CallFits(t, c) PROVE FitAll(t, <<a, b, c>>)
  <2>1. Len(<<a, b, c>>) = 3 /\ \A i \in 1..3 : <<a, b, c>>[i] \in {a, b, c}
    OBVIOUS
  <2>. QED  BY <1>4, <2>1 DEF FitAll
<1>. QED  BY <1>1, <1>2, <1>3, <1>4

\* Calls that need nothing of the task.
Plain == {"activity", "refresh", "history", "name", "push", "rename", "meta", "read", "unread"} \cup Stores
LEMMA PlainFits == \A t, j, arg : \A op \in Plain : CallFits(t, Call(op, j, arg))
BY DEF CallFits, Call, Plain, Links, Takes, Stores

LEMMA StatementFits ==
    ASSUME TypeOK, CallsFit, NEW t \in Tasks, Statement(t)
    PROVE  CallsFit'
<1>0. /\ ~Idle(t) /\ FitAll(t, Tail(todo[t])) /\ CallFits(t, Head1(t))
      /\ Tail(todo[t]) \in Seq(CallType) /\ Len(todo[t]) \in Nat \ {0} /\ todo[t] \in Seq(CallType)
      /\ Head1(t) \in CallType
  <2>1. ~Idle(t)
    BY DEF Statement, record_message_activity, set_chat_flag, mark_chat, upsert_message,
       upsert_chat_from_history, rename_chat, apply_contact_name, apply_push_name, link_jids,
       merge_group_lid_twins, contact_backfill_identity, register_jid_alias, upsert_chat_from_contact,
       empty_contact_chats, delete_empty_contact_chats, delete_chat, Ready
  <2>. QED  BY <2>1, FitTail, BusyTask
<1>1. CASE Return(t)
  BY <1>0, <1>1, FitReturn
<1>2. ASSUME NEW a \in Seq(CallType), FitAll(t, a), ReturnWith(t, a \o Tail(todo[t]))
      PROVE  CallsFit'
  BY <1>0, <1>2, FitConcat, FitLists DEF ReturnWith
<1>3. CASE upsert_message(t)
  <2> DEFINE from == IF Head1(t).op = "imported" THEN 3 ELSE 2
             rest == SubSeq(todo[t], from, Len(todo[t]))
  <2>1. Return(t) \/ ReturnWith(t, rest)
    BY <1>3 DEF upsert_message
  <2>2. FitAll(t, rest)
    <3>1. from \in {2, 3}
      OBVIOUS
    <3>2. \A i \in from..Len(todo[t]) : todo[t][i] \in CallType
      BY <1>0, <3>1, BusyTask
    <3>3. /\ Len(rest) = IF from <= Len(todo[t]) THEN Len(todo[t]) - from + 1 ELSE 0
          /\ \A i \in 1..Len(todo[t]) - from + 1 : rest[i] = todo[t][from + i - 1]
      BY <1>0, <3>1, <3>2, SubSeqProperties
    <3> HIDE DEF rest, from
    <3>. QED  BY <1>0, <3>1, <3>3 DEF FitAll, CallsFit
  <2>. QED  BY <1>1, <2>1, <2>2, FitLists DEF ReturnWith
<1>4. CASE upsert_chat_from_history(t)
  <2> DEFINE rest == [i \in 1..(Len(todo[t]) - 1) |->
                        LET c == todo[t][i + 1]
                        IN IF c.op \in {"imported", "refresh"} THEN [c EXCEPT !.jid = held[t][1]] ELSE c]
  <2>1. ReturnWith(t, rest)
    BY <1>4 DEF upsert_chat_from_history
  <2>2. ASSUME NEW c \in CallType, CallFits(t, c), c.op \in {"imported", "refresh"}
        PROVE  CallFits(t, [c EXCEPT !.jid = held[t][1]])
    <3>1. [c EXCEPT !.jid = held[t][1]].op = c.op
      BY DEF CallType
    <3>. QED  BY <2>2, <3>1 DEF CallFits, Links, Takes
  <2>3. \A i \in 1..(Len(todo[t]) - 1) : todo[t][i + 1] \in CallType /\ CallFits(t, todo[t][i + 1])
    BY <1>0, BusyTask DEF CallsFit
  <2>4. FitAll(t, rest)
    <3>1. Len(rest) = Len(todo[t]) - 1
      BY <1>0
    <3>. QED  BY <2>2, <2>3, <3>1 DEF FitAll
  <2> HIDE DEF rest
  <2>. QED  BY <2>1, <2>4, FitLists DEF ReturnWith
<1>5. CASE merge_group_lid_twins(t)
  <2>1. CASE Ready(t, "twins")
    <3> DEFINE S == {g \in GroupLids : Exists(g)}
    <3>1. Head1(t).op = "twins"
      BY <2>1 DEF Ready
    <3>2. PICK order \in Orders(S) :
             ReturnWith(t, [i \in DOMAIN order |-> Call("twin", order[i], None)] \o Tail(todo[t]))
      BY <1>5, <3>1 DEF merge_group_lid_twins, Ready
    <3>3. IsFiniteSet(S)
      BY IdentityAssumption, FS_Subset DEF Jids
    <3>4. /\ DOMAIN order = 1..Cardinality(S) /\ Cardinality(S) \in Nat
          /\ \A i \in DOMAIN order : order[i] \in S
      <4> HIDE DEF S
      <4>. QED  BY <3>2, <3>3, OrdersAreSequences
    <3>5. \A i \in DOMAIN order : Call("twin", order[i], None) \in CallType /\ CallFits(t, Call("twin", order[i], None))
      <4>1. Duties[t] \cap Linkers # {} /\ Duties[t] \cap Takers # {}
        BY <1>0, <3>1 DEF CallFits, Links, Takes
      <4>2. \A j : CallFits(t, Call("twin", j, None))
        BY <4>1 DEF CallFits, Call, Links, Takes
      <4>. QED  BY <3>4, <4>2, MakeCalls
    <3> DEFINE twins == [i \in DOMAIN order |-> Call("twin", order[i], None)]
    <3>6. twins \in Seq(CallType)
      <4>1. twins \in [1..Cardinality(S) -> CallType]
        BY <3>4, <3>5
      <4> HIDE DEF S, twins
      <4>. QED  BY <3>4, <4>1, FunctionIsSequence
    <3>7. FitAll(t, twins)
      <4>1. DOMAIN twins = 1..Len(twins) /\ DOMAIN twins = DOMAIN order
        BY <3>6, LenProperties
      <4>. QED  BY <3>5, <4>1 DEF FitAll
    <3> HIDE DEF twins
    <3>. QED  BY <1>2, <3>2, <3>6, <3>7 DEF twins
  <2>2. CASE Ready(t, "twin")
    <3> DEFINE g == Head1(t).jid
    <3>1. Head1(t).op = "twin" /\ g \in GroupLids /\ Twin[g] \in Groups
      BY <1>0, <2>2, CallArguments, IdentityAssumption DEF Ready
    <3>2. Call("link", g, Twin[g]) \in CallType
      BY <3>1, MakeCalls DEF Jids
    <3>3. CallFits(t, Call("link", g, Twin[g]))
      <4>1. Duties[t] \cap Linkers # {} /\ Duties[t] \cap Takers # {}
        BY <1>0, <3>1 DEF CallFits, Links, Takes
      <4>. QED  BY <3>1, <4>1 DEF CallFits, Call, Links, Takes, is_group
    <3>4. <<Call("link", g, Twin[g])>> \in Seq(CallType) /\ FitAll(t, <<Call("link", g, Twin[g])>>)
      BY <3>2, <3>3, FitLiteral
    <3>5. \/ ReturnWith(t, <<Call("link", g, Twin[g])>> \o Tail(todo[t]))
          \/ Return(t)
      BY <1>5, <3>1 DEF merge_group_lid_twins, Ready
    <3>. QED  BY <1>1, <1>2, <3>4, <3>5
  <2>. QED  BY <1>5, <2>1, <2>2 DEF merge_group_lid_twins
<1>6. CASE contact_backfill_identity(t)
  <2> DEFINE j == Head1(t).jid
             name == Head1(t).arg
  <2>1. Ready(t, "backfill") /\ Head1(t).op = "backfill" /\ "backfill" \in Duties[t]
    BY <1>0, <1>6 DEF contact_backfill_identity, Ready, CallFits
  <2>2. j \in Jids /\ name \in Names /\ held[t][1] \in Jids
    BY <1>0, <2>1, CallArguments, OneResolved
  <2>3. \A k \in Jids : Call("insert", k, name) \in CallType /\ CallFits(t, Call("insert", k, name))
    <3>1. \A k : CallFits(t, Call("insert", k, name))
      BY <2>1 DEF CallFits, Call, Links, Takes
    <3>. QED  BY <2>2, <3>1, MakeCalls
  <2>4. CASE ReturnWith(t, <<Call("insert", held[t][1], name)>> \o Tail(todo[t]))
    <3>1. <<Call("insert", held[t][1], name)>> \in Seq(CallType) /\ FitAll(t, <<Call("insert", held[t][1], name)>>)
      BY <2>2, <2>3, FitLiteral
    <3>. QED  BY <1>2, <2>4, <3>1
  <2>5. ASSUME NEW p \in Pns, j \in Lids,
               ReturnWith(t, <<Call("register", j, p), Call("insert", p, name)>> \o Tail(todo[t]))
        PROVE  CallsFit'
    <3>1. p \in Jids /\ ~is_group(j) /\ ~is_group(p)
      BY <2>5, IdentityAssumption DEF is_group, Jids
    <3>2. CallFits(t, Call("register", j, p)) /\ Call("register", j, p) \in CallType
      <4>1. CallFits(t, Call("register", j, p))
        BY <2>1, <3>1 DEF CallFits, Call, Links, Takes
      <4>. QED  BY <2>2, <3>1, <4>1, MakeCalls
    <3>3. /\ <<Call("register", j, p), Call("insert", p, name)>> \in Seq(CallType)
          /\ FitAll(t, <<Call("register", j, p), Call("insert", p, name)>>)
      BY <2>3, <3>1, <3>2, FitLiteral
    <3>. QED  BY <1>2, <2>5, <3>3
  <2>. QED  BY <1>6, <2>4, <2>5 DEF contact_backfill_identity
<1>7. CASE empty_contact_chats(t)
  <2> DEFINE S == {j \in Jids : EmptyContactChat(j)}
  <2>1. S \in SUBSET Jids /\ Head1(t).op = "select" /\ ReturnWith(t, <<Call("sweep", None, S)>> \o Tail(todo[t]))
    BY <1>7 DEF empty_contact_chats, Ready
  <2> HIDE DEF S
  <2>2. Duties[t] \cap Takers # {}
    BY <1>0, <2>1 DEF CallFits, Takes
  <2>3. CallFits(t, Call("sweep", None, S)) /\ Call("sweep", None, S) \in CallType
    <3>1. CallFits(t, Call("sweep", None, S))
      BY <2>2 DEF CallFits, Call, Links, Takes
    <3>. QED  BY <2>1, <3>1, MakeCalls
  <2>4. <<Call("sweep", None, S)>> \in Seq(CallType) /\ FitAll(t, <<Call("sweep", None, S)>>)
    BY <2>3, FitLiteral
  <2>. QED  BY <1>2, <2>1, <2>4
<1>. QED  BY <1>1, <1>3, <1>4, <1>5, <1>6, <1>7
          DEF Statement, record_message_activity, set_chat_flag, mark_chat,
       rename_chat, apply_contact_name, apply_push_name, link_jids,
       register_jid_alias, upsert_chat_from_contact, delete_empty_contact_chats, delete_chat

LEMMA StartFits ==
    ASSUME TypeOK, CallsFit, NEW t \in Tasks, NEW calls, FitAll(t, calls), Start(t, calls)
    PROVE  CallsFit'
BY FitLists DEF Start

\* A list of calls by position.
LEMMA FitEach ==
    ASSUME NEW t, NEW n \in Nat, NEW calls \in Seq(CallType), DOMAIN calls = 1..n,
           \A i \in 1..n : CallFits(t, calls[i])
    PROVE  FitAll(t, calls)
<1>1. DOMAIN calls = 1..Len(calls)
  BY LenProperties
<1>. QED  BY <1>1 DEF FitAll

LEMMA HandlerFits ==
    ASSUME TypeOK, CallsFit, NEW t \in Tasks, Handler(t)
    PROVE  CallsFit'
<1>1. CASE handle_inbound_message(t)
  <2>1. PICK j \in Jids, m \in Msgs, hint \in Names \cup {None}, bump \in {"activity", "refresh"} :
           LET c == canonical_jid(j)
           IN Start(t, <<Call(bump, c, hint), Call("meta", c, None), Call("message", c, m)>>)
    BY <1>1 DEF handle_inbound_message
  <2> DEFINE c == canonical_jid(j)
  <2>2. CallFits(t, Call(bump, c, hint)) /\ CallFits(t, Call("meta", c, None)) /\ CallFits(t, Call("message", c, m))
    BY PlainFits DEF Plain, Stores
  <2>3. FitAll(t, <<Call(bump, c, hint), Call("meta", c, None), Call("message", c, m)>>)
    BY <2>2, FitLiteral
  <2>. QED  BY <2>1, <2>3, StartFits
<1>2. CASE send_text(t)
  <2>1. PICK j \in Jids, m \in Msgs :
           Start(t, <<Call("meta", j, None), Call("refresh", j, None), Call("message", j, m)>>)
    BY <1>2 DEF send_text
  <2>2. CallFits(t, Call("meta", j, None)) /\ CallFits(t, Call("refresh", j, None)) /\ CallFits(t, Call("message", j, m))
    BY PlainFits DEF Plain, Stores
  <2>3. FitAll(t, <<Call("meta", j, None), Call("refresh", j, None), Call("message", j, m)>>)
    BY <2>2, FitLiteral
  <2>. QED  BY <2>1, <2>3, StartFits
<1>3. CASE handle_undecryptable(t)
  <2>1. PICK j \in Jids, m \in Msgs, bump \in {"activity", "refresh"} :
           LET c == canonical_jid(j)
           IN Start(t, (IF messages[m] = None THEN <<Call("placeholder", c, m)>> ELSE <<>>)
                       \o <<Call(bump, c, None)>>)
    BY <1>3 DEF handle_undecryptable
  <2> DEFINE c == canonical_jid(j)
             first == IF messages[m] = None THEN <<Call("placeholder", c, m)>> ELSE <<>>
  <2>2. CallFits(t, Call("placeholder", c, m)) /\ CallFits(t, Call(bump, c, None))
    BY PlainFits DEF Plain, Stores
  <2>3. Call("placeholder", c, m) \in CallType /\ Call(bump, c, None) \in CallType
    BY CanonicalIsJid, MakeCalls DEF Stores
  <2>4. first \in Seq(CallType) /\ <<Call(bump, c, None)>> \in Seq(CallType)
    BY <2>3
  <2>5. FitAll(t, first) /\ FitAll(t, <<Call(bump, c, None)>>)
    BY <2>2, FitLiteral
  <2> HIDE DEF first
  <2>6. FitAll(t, first \o <<Call(bump, c, None)>>)
    BY <2>4, <2>5, FitConcat
  <2>. QED  BY <2>1, <2>6, StartFits DEF first
<1>4. CASE "import" \in Duties[t] /\ import_history_sync(t)
  <2>1. PICK j \in Jids, n \in Names \cup {None}, push \in Names \cup {None}, m \in Msgs \cup {None} :
           Start(t, <<Call("history", j, n)>>
                    \o (IF m = None THEN <<>> ELSE <<Call("imported", j, m), Call("refresh", j, push)>>)
                    \o <<Call("twins", None, None)>>)
    BY <1>4 DEF import_history_sync
  <2> DEFINE head == <<Call("history", j, n)>>
             body == IF m = None THEN <<>> ELSE <<Call("imported", j, m), Call("refresh", j, push)>>
             last == <<Call("twins", None, None)>>
  <2>2. /\ Call("history", j, n) \in CallType /\ Call("refresh", j, push) \in CallType
        /\ Call("twins", None, None) \in CallType
    BY MakeCalls
  <2>3. m # None => Call("imported", j, m) \in CallType
    BY MakeCalls DEF Stores
  <2>4. head \in Seq(CallType) /\ body \in Seq(CallType) /\ last \in Seq(CallType)
    BY <2>2, <2>3
  <2>5. CallFits(t, Call("history", j, n)) /\ CallFits(t, Call("refresh", j, push)) /\ CallFits(t, Call("imported", j, m))
    BY PlainFits DEF Plain, Stores
  <2>6. CallFits(t, Call("twins", None, None))
    BY <1>4 DEF CallFits, Call, Links, Takes, Linkers, Takers
  <2>7. FitAll(t, head) /\ FitAll(t, body) /\ FitAll(t, last)
    BY <2>5, <2>6, FitLiteral
  <2> HIDE DEF head, body, last
  <2>8. head \o body \in Seq(CallType)
    BY <2>4, ConcatProperties
  <2>9. FitAll(t, head \o body)
    BY <2>4, <2>7, FitConcat
  <2>10. FitAll(t, (head \o body) \o last)
    BY <2>4, <2>7, <2>8, <2>9, FitConcat
  <2>. QED  BY <2>1, <2>10, StartFits DEF head, body, last
<1>5. CASE "contacts" \in Duties[t] /\ handle_contact_update(t)
  <2>1. PICK p \in Pns, l \in Lids, n \in Names :
           \E targets \in {<<p>>, <<l>>, <<p, l>>, <<l, p>>} :
              Start(t, (IF Len(targets) = 2 THEN <<Call("link", targets[1], targets[2])>> ELSE <<>>)
                       \o [i \in DOMAIN targets |-> Call("name", targets[i], n)])
    BY <1>5 DEF handle_contact_update
  <2>2. PICK targets \in {<<p>>, <<l>>, <<p, l>>, <<l, p>>} :
           Start(t, (IF Len(targets) = 2 THEN <<Call("link", targets[1], targets[2])>> ELSE <<>>)
                    \o [i \in DOMAIN targets |-> Call("name", targets[i], n)])
    BY <2>1
  <2> DEFINE links == IF Len(targets) = 2 THEN <<Call("link", targets[1], targets[2])>> ELSE <<>>
             names == [i \in DOMAIN targets |-> Call("name", targets[i], n)]
  <2>3. targets \in Seq(Jids) /\ Len(targets) \in Nat /\ DOMAIN targets = 1..Len(targets)
    <3>1. p \in Jids /\ l \in Jids
      BY DEF Jids
    <3>2. <<p>> \in Seq(Jids) /\ <<l>> \in Seq(Jids) /\ <<p, l>> \in Seq(Jids) /\ <<l, p>> \in Seq(Jids)
      BY <3>1
    <3>3. targets \in Seq(Jids)
      BY <3>2
    <3>. QED  BY <3>3, LenProperties
  <2>4. links \in Seq(CallType) /\ FitAll(t, links)
    <3>1. ASSUME Len(targets) = 2
          PROVE  Call("link", targets[1], targets[2]) \in CallType /\ CallFits(t, Call("link", targets[1], targets[2]))
      <4>1. targets[1] \in Pns \cup Lids /\ targets[2] \in Pns \cup Lids
        BY <3>1
      <4>2. /\ targets[1] \in Jids /\ targets[2] \in Jids
            /\ ~is_group(targets[1]) /\ ~is_group(targets[2])
        BY <4>1, IdentityAssumption DEF is_group, Jids
      <4>3. CallFits(t, Call("link", targets[1], targets[2]))
        BY <1>5, <4>2 DEF CallFits, Call, Links, Takes, Linkers, Takers
      <4>. QED  BY <4>2, <4>3, MakeCalls
    <3>2. CASE Len(targets) = 2
      <4>1. <<Call("link", targets[1], targets[2])>> \in Seq(CallType) /\ FitAll(t, <<Call("link", targets[1], targets[2])>>)
        BY <3>1, <3>2, FitLiteral
      <4>. QED  BY <3>2, <4>1
    <3>3. CASE Len(targets) # 2
      <4>1. <<>> \in Seq(CallType)
        OBVIOUS
      <4>. QED  BY <3>3, <4>1, FitLiteral
    <3>. QED  BY <3>2, <3>3
  <2>5. names \in Seq(CallType) /\ FitAll(t, names)
    <3>1. \A i \in DOMAIN targets : Call("name", targets[i], n) \in CallType /\ CallFits(t, Call("name", targets[i], n))
      <4>1. \A k : CallFits(t, Call("name", k, n))
        BY PlainFits DEF Plain
      <4>. QED  BY <2>3, <4>1, ElementOfSeq, MakeCalls
    <3>2. names \in [1..Len(targets) -> CallType] /\ DOMAIN names = 1..Len(targets)
      BY <2>3, <3>1
    <3>3. \A i \in 1..Len(targets) : names[i] = Call("name", targets[i], n)
      BY <2>3
    <3>4. names \in Seq(CallType)
      BY <2>3, <3>2, FunctionIsSequence
    <3> HIDE DEF names
    <3>. QED  BY <2>3, <3>1, <3>2, <3>3, <3>4, FitEach
  <2> HIDE DEF links, names
  <2>6. FitAll(t, links \o names)
    BY <2>4, <2>5, FitConcat
  <2>. QED  BY <2>2, <2>6, StartFits DEF links, names
<1>6. CASE handle_push_name(t)
  <2>1. PICK j \in Pns \cup Lids, n \in Names : Start(t, <<Call("push", j, n)>>)
    BY <1>6 DEF handle_push_name
  <2>2. FitAll(t, <<Call("push", j, n)>>)
    BY PlainFits, FitLiteral DEF Plain
  <2>. QED  BY <2>1, <2>2, StartFits
<1>7. CASE handle_flag_patch(t)
  <2>1. PICK j \in Jids, op \in {"meta", "read", "unread"} :
           Start(t, <<Call(op, canonical_jid(j), None)>>)
    BY <1>7 DEF handle_flag_patch
  <2>2. FitAll(t, <<Call(op, canonical_jid(j), None)>>)
    BY PlainFits, FitLiteral DEF Plain
  <2>. QED  BY <2>1, <2>2, StartFits
<1>8. CASE handle_group_subject(t)
  <2>1. PICK g \in Groups \cup GroupLids, n \in Names : Start(t, <<Call("rename", canonical_jid(g), n)>>)
    BY <1>8 DEF handle_group_subject
  <2>2. FitAll(t, <<Call("rename", canonical_jid(g), n)>>)
    BY PlainFits, FitLiteral DEF Plain
  <2>. QED  BY <2>1, <2>2, StartFits
<1>9. CASE "deletes" \in Duties[t] /\ handle_delete_chat(t)
  <2>1. PICK j \in Jids : Start(t, <<Call("delete", canonical_jid(j), None)>>)
    BY <1>9 DEF handle_delete_chat
  <2>2. CallFits(t, Call("delete", canonical_jid(j), None))
    BY <1>9 DEF CallFits, Call, Links, Takes, Linkers, Takers
  <2>3. FitAll(t, <<Call("delete", canonical_jid(j), None)>>)
    BY <2>2, FitLiteral
  <2>. QED  BY <2>1, <2>3, StartFits
<1>10. CASE "names" \in Duties[t] /\ run_contact_name_pass(t)
  <2>1. PICK j \in Pns, l \in Lids, n \in Names \cup {None} :
           Start(t, <<Call("link", j, l)>> \o (IF n = None THEN <<>> ELSE <<Call("name", j, n)>>))
    BY <1>10 DEF run_contact_name_pass
  <2> DEFINE names == IF n = None THEN <<>> ELSE <<Call("name", j, n)>>
  <2>2. Call("link", j, l) \in CallType /\ (n # None => Call("name", j, n) \in CallType)
    BY MakeCalls DEF Jids
  <2>3. <<Call("link", j, l)>> \in Seq(CallType) /\ names \in Seq(CallType)
    BY <2>2
  <2>4. CallFits(t, Call("link", j, l)) /\ CallFits(t, Call("name", j, n))
    <3>1. ~is_group(j) /\ ~is_group(l)
      BY IdentityAssumption DEF is_group
    <3>2. CallFits(t, Call("link", j, l))
      BY <1>10, <3>1 DEF CallFits, Call, Links, Takes, Linkers, Takers
    <3>. QED  BY <3>2, PlainFits DEF Plain
  <2>5. FitAll(t, <<Call("link", j, l)>>) /\ FitAll(t, names)
    BY <2>4, FitLiteral
  <2> HIDE DEF names
  <2>6. FitAll(t, <<Call("link", j, l)>> \o names)
    BY <2>3, <2>5, FitConcat
  <2>. QED  BY <2>1, <2>6, StartFits DEF names
<1>11. CASE "backfill" \in Duties[t] /\ backfill_chats_from_contacts(t)
  <2> DEFINE S == contacts_missing_chats
  <2>1. PICK order \in Orders(S) :
           Start(t, [i \in DOMAIN order |-> Call("backfill", order[i], contacts[order[i]].name)])
    BY <1>11 DEF backfill_chats_from_contacts
  <2>2. /\ S \subseteq Jids
        /\ \A j \in S : contacts[j].name \in Names
    BY DEF contacts_missing_chats, TypeOK, Contact
  <2>3. IsFiniteSet(S)
    BY <2>2, IdentityAssumption, FS_Subset
  <2>4. /\ DOMAIN order = 1..Cardinality(S) /\ Cardinality(S) \in Nat
        /\ \A i \in DOMAIN order : order[i] \in S
    BY <2>1, <2>3, OrdersAreSequences
  <2> DEFINE calls == [i \in DOMAIN order |-> Call("backfill", order[i], contacts[order[i]].name)]
  <2>5. \A j, arg : CallFits(t, Call("backfill", j, arg))
    BY <1>11 DEF CallFits, Call, Links, Takes
  <2>6. \A i \in DOMAIN order : Call("backfill", order[i], contacts[order[i]].name) \in CallType
    BY <2>2, <2>4, MakeCalls
  <2>7. calls \in [1..Cardinality(S) -> CallType] /\ \A i \in 1..Cardinality(S) : CallFits(t, calls[i])
    BY <2>4, <2>5, <2>6
  <2> HIDE DEF S, calls
  <2>8. calls \in Seq(CallType) /\ DOMAIN calls = 1..Cardinality(S)
    BY <2>4, <2>7, FunctionIsSequence
  <2>9. FitAll(t, calls)
    BY <2>4, <2>7, <2>8, FitEach
  <2>. QED  BY <2>1, <2>9, StartFits DEF calls
<1>12. CASE "sweep" \in Duties[t] /\ sweep(t)
  <2>1. CallFits(t, Call("select", None, None))
    BY <1>12 DEF CallFits, Call, Links, Takes, Linkers, Takers
  <2>2. FitAll(t, <<Call("select", None, None)>>)
    BY <2>1, FitLiteral
  <2>. QED  BY <1>12, <2>2, StartFits DEF sweep
<1>. QED  BY <1>1, <1>2, <1>3, <1>4, <1>5, <1>6, <1>7, <1>8, <1>9, <1>10, <1>11, <1>12 DEF Handler

LEMMA StepFits ==
    ASSUME TypeOK, CallsFit, [Next]_vars
    PROVE  CallsFit'
<1>1. CASE UNCHANGED vars
  BY <1>1 DEF vars, CallsFit
<1>2. ASSUME NEW t \in Tasks, Resolve(t) PROVE CallsFit'
  <2>1. Return(t) \/ UNCHANGED todo
    BY <1>2 DEF Resolve
  <2>2. CASE UNCHANGED todo
    BY <2>2 DEF CallsFit
  <2>. QED  BY <1>2, <2>1, <2>2, FitReturn DEF Resolve
<1>. QED  BY <1>1, <1>2, StatementFits, HandlerFits DEF Next

LEMMA InitFits == Init => CallsFit
<1>1. Len(<<>>) = 0
  BY EmptySeq
<1>. QED  BY <1>1 DEF Init, CallsFit

(***************************************************************************)
(* What the tasks hold.                                                    *)
(***************************************************************************)
\* What a step of t does to what the tasks hold: it drops it, leaves it with its call, or adds the
\* canonical id of the next JID of the call at the head of t and writes no table.
HeldGrows(t) ==
    /\ ~Idle(t) /\ todo' = todo /\ UNCHANGED tables
    /\ \/ /\ Len(held[t]) = 0 /\ Len(held'[t]) = 1
          /\ Head1(t).jid \in Jids
          /\ held'[t][1] = canonical_jid(Head1(t).jid)
       \/ /\ Len(held[t]) = 1 /\ Len(held'[t]) = 2
          /\ Head1(t).arg \in Jids
          /\ held'[t][1] = held[t][1]
          /\ held'[t][2] = canonical_jid(Head1(t).arg)
HeldStep(t) ==
    \A u \in Tasks : \/ held'[u] = <<>>
                     \/ u # t /\ held'[u] = held[u] /\ todo'[u] = todo[u]
                     \/ u = t /\ HeldGrows(t)

LEMMA ReturnDropsHeld ==
    ASSUME TypeOK, IdleHoldsNone, NEW t \in Tasks, NEW rest, ReturnWith(t, rest)
    PROVE  HeldStep(t) /\ IdleHoldsNone'
BY DEF ReturnWith, TypeOK, HeldStep, IdleHoldsNone, Idle

LEMMA HeldSteps ==
    ASSUME TypeOK, IdleHoldsNone, NEW t \in Tasks, Resolve(t) \/ Statement(t) \/ Handler(t)
    PROVE  HeldStep(t) /\ IdleHoldsNone'
<1>1. CASE Resolve(t)
  <2> DEFINE call == Head1(t)
             next == IF held[t] = <<>> THEN call.jid ELSE call.arg
  <2>1. ~Idle(t) /\ Len(held[t]) < Resolves(call.op) /\ call \in CallType /\ held[t] \in Seq(Jids)
    BY <1>1, BusyTask DEF Resolve, TypeOK
  <2>2. CASE call.op = "link" /\ (call.jid = call.arg \/ held[t] = <<canonical_jid(next)>>)
    BY <1>1, <2>2, ReturnDropsHeld DEF Resolve, Return
  <2>3. CASE ~(call.op = "link" /\ (call.jid = call.arg \/ held[t] = <<canonical_jid(next)>>))
    <3>1. /\ held' = [held EXCEPT ![t] = Append(@, canonical_jid(next))]
          /\ todo' = todo /\ UNCHANGED tables
      BY <1>1, <2>3 DEF Resolve
    <3> DEFINE c == canonical_jid(next)
    <3>2. c \in Jids
      BY <2>1, NextIsJid, CanonicalIsJid
    <3>3. /\ Len(held[t]) \in Nat /\ Len(Append(held[t], c)) = Len(held[t]) + 1
          /\ Append(held[t], c)[Len(held[t]) + 1] = c
          /\ \A i \in 1..Len(held[t]) : Append(held[t], c)[i] = held[t][i]
      <4> HIDE DEF c
      <4>. QED  BY <2>1, <3>2, AppendProperties, LenProperties
    <3>4. held'[t] = Append(held[t], c) /\ \A u \in Tasks : u # t => held'[u] = held[u]
      BY <3>1 DEF TypeOK
    <3>5. Len(held[t]) \in {0, 1}
      <4>1. PICK n : n = Len(held[t])
        OBVIOUS
      <4>2. PICK r : r = Resolves(call.op)
        OBVIOUS
      <4>3. n \in Nat /\ r \in 0..2 /\ n < r
        BY <2>1, <3>3, <4>1, <4>2, ResolvesValues
      <4>4. n \in {0, 1}
        BY <4>3
      <4>. QED  BY <4>1, <4>4
    <3>n. next \in Jids
      BY <2>1, NextIsJid
    <3>6. held[t] = <<>> <=> Len(held[t]) = 0
      BY <2>1, EmptySeq
    <3> HIDE DEF c
    <3>7. CASE Len(held[t]) = 0
      <4>1. c = canonical_jid(Head1(t).jid) /\ Head1(t).jid \in Jids
        BY <3>6, <3>7, <3>n DEF c
      <4>2. Len(held'[t]) = 1 /\ held'[t][1] = c
        BY <3>3, <3>4, <3>7
      <4>3. HeldGrows(t)
        BY <2>1, <3>1, <3>7, <4>1, <4>2 DEF HeldGrows
      <4>. QED  BY <2>1, <3>1, <3>4, <4>3 DEF HeldStep, IdleHoldsNone, Idle
    <3>8. CASE Len(held[t]) = 1
      <4>1. c = canonical_jid(Head1(t).arg) /\ Head1(t).arg \in Jids
        BY <3>6, <3>8, <3>n DEF c
      <4>2. Len(held'[t]) = 2 /\ held'[t][1] = held[t][1] /\ held'[t][2] = c
        BY <3>3, <3>4, <3>8
      <4>3. HeldGrows(t)
        BY <2>1, <3>1, <3>8, <4>1, <4>2 DEF HeldGrows
      <4>. QED  BY <2>1, <3>1, <3>4, <4>3 DEF HeldStep, IdleHoldsNone, Idle
    <3>. QED  BY <3>5, <3>7, <3>8
  <2>. QED  BY <2>2, <2>3
<1>2. CASE Statement(t)
  <2>1. \E rest : ReturnWith(t, rest)
    BY <1>2 DEF Statement, Return, record_message_activity, set_chat_flag, mark_chat, upsert_message,
       upsert_chat_from_history, rename_chat, apply_contact_name, apply_push_name, link_jids,
       merge_group_lid_twins, contact_backfill_identity, register_jid_alias, upsert_chat_from_contact,
       empty_contact_chats, delete_empty_contact_chats, delete_chat
  <2>. QED  BY <2>1, ReturnDropsHeld
<1>3. CASE Handler(t)
  <2>1. \E calls : Start(t, calls)
    BY <1>3 DEF Handler, handle_inbound_message, send_text, handle_undecryptable,
       import_history_sync, handle_contact_update, handle_push_name, handle_flag_patch,
       handle_group_subject, handle_delete_chat, run_contact_name_pass,
       backfill_chats_from_contacts, sweep
  <2>. QED  BY <2>1 DEF Start, HeldStep, IdleHoldsNone, Idle, TypeOK
<1>. QED  BY <1>1, <1>2, <1>3

(***************************************************************************)
(* Groups: aliases and what is resolved keep to a kind, so a group's row   *)
(* is only ever written, and merged, as a group's.                         *)
(***************************************************************************)
AliasKinds == \A j \in Jids : jid_aliases[j] # None => (is_group(jid_aliases[j]) <=> is_group(j))

LEMMA CanonicalKind ==
    ASSUME KindsKept, NEW j \in Jids
    PROVE  is_group(canonical_jid(j)) <=> is_group(j)
BY DEF KindsKept, canonical_jid

LEMMA LinkKinds ==
    ASSUME TypeOK, CallsFit, KindsKept, NEW t \in Tasks, Ready(t, "link")
    PROVE  /\ is_group(held[t][1]) <=> is_group(Head1(t).jid)
           /\ is_group(held[t][2]) <=> is_group(Head1(t).jid)
           /\ is_group(Head1(t).arg) <=> is_group(Head1(t).jid)
<1>1. ~Idle(t) /\ Len(held[t]) = 2 /\ Head1(t).op = "link"
  BY LinkHeld DEF Ready
<1>2. is_group(Head1(t).jid) <=> is_group(Head1(t).arg)
  BY <1>1, FitTail DEF CallFits
<1>. QED  BY <1>1, <1>2 DEF KindsKept, Head1

LEMMA AliasKindsStep ==
    ASSUME TypeOK, CallsFit, KindsKept, NEW t \in Tasks, Resolve(t) \/ Statement(t) \/ Handler(t)
    PROVE  AliasKinds'
<1>1. CASE link_jids(t)
  <2> DEFINE call == Head1(t)
             canonical == pick_canonical_jid(held[t][1], held[t][2])
             other == IF canonical = held[t][1] THEN held[t][2] ELSE held[t][1]
  <2>1. Ready(t, "link")
    BY <1>1 DEF link_jids
  <2>2. /\ is_group(held[t][1]) <=> is_group(call.jid)
        /\ is_group(held[t][2]) <=> is_group(call.jid)
        /\ is_group(call.arg) <=> is_group(call.jid)
        /\ canonical \in {held[t][1], held[t][2]} /\ other \in {held[t][1], held[t][2]}
    BY <2>1, LinkKinds, PickIsOneOfTwo
  <2>3. CASE jid_aliases' = jid_aliases
    BY <2>3 DEF AliasKinds, KindsKept
  <2>4. CASE jid_aliases' = Relinked({call.jid, call.arg, held[t][1], held[t][2]}, canonical, other)
    <3> HIDE DEF canonical, other
    <3>1. other \in Jids /\ other # None
      BY <2>1, <2>2, LinkHeld, IdentityAssumption
    <3>2. ASSUME NEW j \in Jids, jid_aliases'[j] # None
          PROVE  is_group(jid_aliases'[j]) <=> is_group(j)
      <4>1. \/ jid_aliases'[j] = jid_aliases[j]
            \/ jid_aliases'[j] = canonical /\ (j \in {call.jid, call.arg, held[t][1], held[t][2]} \/ jid_aliases[j] = other)
        BY <2>4 DEF Relinked
      <4>2. is_group(canonical) <=> is_group(call.jid)
        BY <2>2
      <4>3. is_group(other) <=> is_group(call.jid)
        BY <2>2
      <4>4. CASE jid_aliases'[j] = jid_aliases[j]
        BY <3>2, <4>4 DEF KindsKept
      <4>5. CASE jid_aliases'[j] = canonical /\ j \in {call.jid, call.arg, held[t][1], held[t][2]}
        BY <2>2, <4>2, <4>5
      <4>6. CASE jid_aliases'[j] = canonical /\ jid_aliases[j] = other
        BY <3>1, <4>2, <4>3, <4>6 DEF KindsKept
      <4>. QED  BY <4>1, <4>4, <4>5, <4>6
    <3>. QED  BY <3>2 DEF AliasKinds, is_group
  <2>. QED  BY <1>1, <2>3, <2>4 DEF link_jids, tables
<1>2. CASE register_jid_alias(t)
  <2>1. ~Idle(t) /\ Head1(t).op = "register"
    BY <1>2 DEF register_jid_alias, Ready
  <2>2. is_group(Head1(t).jid) <=> is_group(Head1(t).arg)
    BY <2>1, FitTail DEF CallFits
  <2>3. \A j \in Jids : jid_aliases'[j] = IF j = Head1(t).jid THEN Head1(t).arg ELSE jid_aliases[j]
    BY <1>2 DEF register_jid_alias, TypeOK
  <2>. QED  BY <2>2, <2>3 DEF AliasKinds, KindsKept, is_group
<1>3. CASE jid_aliases' = jid_aliases
  BY <1>3 DEF AliasKinds, KindsKept
<1>4. \/ jid_aliases' = jid_aliases \/ link_jids(t) \/ register_jid_alias(t)
  BY DEF Resolve, tables, Handler, Start, handle_inbound_message, send_text,
       handle_undecryptable, import_history_sync, handle_contact_update, handle_push_name,
       handle_flag_patch, handle_group_subject, handle_delete_chat, run_contact_name_pass,
       backfill_chats_from_contacts, sweep, Statement, record_message_activity, set_chat_flag, mark_chat, upsert_message,
       upsert_chat_from_history, rename_chat, apply_contact_name, apply_push_name,
       merge_group_lid_twins, contact_backfill_identity, upsert_chat_from_contact,
       empty_contact_chats, delete_empty_contact_chats, delete_chat
<1>. QED  BY <1>1, <1>2, <1>3, <1>4

LEMMA KindsStep ==
    ASSUME TypeOK, CallsFit, KindsKept, IdleHoldsNone, NEW t \in Tasks,
           Resolve(t) \/ Statement(t) \/ Handler(t)
    PROVE  KindsKept' /\ IdleHoldsNone'
<1>1. AliasKinds' /\ HeldStep(t) /\ IdleHoldsNone'
  BY AliasKindsStep, HeldSteps
<1>2. ASSUME NEW u \in Tasks
      PROVE  /\ Len(held'[u]) >= 1 => (is_group(held'[u][1]) <=> is_group(todo'[u][1].jid))
             /\ Len(held'[u]) >= 2 => (is_group(held'[u][2]) <=> is_group(todo'[u][1].arg))
  <2>1. CASE held'[u] = <<>>
    <3>1. Len(held'[u]) = 0
      BY <2>1, EmptySeq
    <3>. QED  BY <3>1
  <2>2. CASE u # t /\ held'[u] = held[u] /\ todo'[u] = todo[u]
    BY <2>2 DEF KindsKept
  <2>3. CASE u = t /\ HeldGrows(t)
    <3>1. todo'[u][1] = Head1(t)
      BY <2>3 DEF HeldGrows, Head1
    <3>2. CASE /\ Len(held[t]) = 0 /\ Len(held'[t]) = 1 /\ Head1(t).jid \in Jids
               /\ held'[t][1] = canonical_jid(Head1(t).jid)
      BY <2>3, <3>1, <3>2, CanonicalKind
    <3>3. CASE /\ Len(held[t]) = 1 /\ Len(held'[t]) = 2 /\ Head1(t).arg \in Jids
               /\ held'[t][1] = held[t][1] /\ held'[t][2] = canonical_jid(Head1(t).arg)
      <4>1. is_group(held[t][1]) <=> is_group(Head1(t).jid)
        BY <3>3 DEF KindsKept, Head1
      <4>. QED  BY <2>3, <3>1, <3>3, <4>1, CanonicalKind
    <3>. QED  BY <2>3, <3>2, <3>3 DEF HeldGrows
  <2>. QED  BY <1>1, <2>1, <2>2, <2>3 DEF HeldStep
<1>. QED  BY <1>1, <1>2 DEF KindsKept, AliasKinds, is_group

\* A step leaves the source of row j, or gives it one that is no push name, or drops the row.
SourceKept(j) ==
    Exists(j)' => \/ chats'[j].src # "pushname"
                  \/ Exists(j) /\ chats'[j].src = chats[j].src

LEMMA SourceOfSame ==
    ASSUME NEW j, chats'[j] = chats[j] \/ chats'[j] = None
    PROVE  SourceKept(j)
BY DEF SourceKept, Exists

LEMMA PutSource ==
    ASSUME TypeOK, NEW k \in Jids, NEW row \in Row, chats' = Put(k, row), NEW j \in Jids,
           k = j => row.src # "pushname" \/ (Exists(k) /\ row.src = chats[k].src)
    PROVE  SourceKept(j)
BY DEF SourceKept, Put, TypeOK, Exists

LEMMA LinkSource ==
    ASSUME TypeOK, CallsFit, KindsKept, GroupsNeverTakePushNames, NEW t \in Tasks, link_jids(t),
           NEW j \in Groups \cup GroupLids
    PROVE  SourceKept(j)
<1> DEFINE canonical == pick_canonical_jid(held[t][1], held[t][2])
           other == IF canonical = held[t][1] THEN held[t][2] ELSE held[t][1]
<1>1. Ready(t, "link") /\ canonical \in Jids /\ other \in Jids /\ j \in Jids
  BY LinkHeld, PickIsOneOfTwo DEF link_jids, Jids
<1>2. is_group(canonical) <=> is_group(other)
  BY <1>1, LinkKinds, PickIsOneOfTwo
<1>3. CASE UNCHANGED tables
  BY <1>3, SourceOfSame DEF tables
<1>4. CASE chats' = [chats EXCEPT ![canonical] = MergedRow(canonical, other), ![other] = None]
  <2> HIDE DEF canonical, other
  <2>1. CASE j = other
    BY <1>1, <1>4, <2>1, SourceOfSame DEF TypeOK
  <2>2. CASE j # other /\ j # canonical
    BY <1>1, <1>4, <2>2, SourceOfSame DEF TypeOK
  <2>3. CASE j # other /\ j = canonical
    <3>1. chats'[j] = MergedRow(j, other)
      BY <1>1, <1>4, <2>3 DEF TypeOK
    <3>2. other \in Groups \cup GroupLids
      BY <1>2, <2>3 DEF is_group
    <3>3. CASE ~Exists(other)
      BY <3>1, <3>3, SourceOfSame DEF MergedRow
    <3>4. CASE Exists(other) /\ ~Exists(j)
      BY <3>1, <3>2, <3>4 DEF MergedRow, SourceKept, GroupsNeverTakePushNames
    <3>5. CASE Exists(other) /\ Exists(j)
      <4>1. MergedRow(j, other).src \in {chats[j].src, chats[other].src}
        BY <3>5 DEF MergedRow
      <4>. QED  BY <3>1, <3>2, <3>5, <4>1 DEF SourceKept, GroupsNeverTakePushNames
    <3>. QED  BY <3>3, <3>4, <3>5
  <2>. QED  BY <2>1, <2>2, <2>3
<1>. QED  BY <1>3, <1>4 DEF link_jids

LEMMA GroupSourceStep ==
    ASSUME TypeOK, CallsFit, KindsKept, GroupsNeverTakePushNames, NEW t \in Tasks,
           Resolve(t) \/ Statement(t) \/ Handler(t), NEW j \in Groups \cup GroupLids
    PROVE  SourceKept(j)
<1>0. j \in Jids
  BY DEF Jids
<1>1. CASE Resolve(t) \/ Handler(t)
  <2>1. UNCHANGED chats
    BY <1>1 DEF Resolve, tables, Handler, Start, handle_inbound_message, send_text,
       handle_undecryptable, import_history_sync, handle_contact_update, handle_push_name,
       handle_flag_patch, handle_group_subject, handle_delete_chat, run_contact_name_pass,
       backfill_chats_from_contacts, sweep
  <2>. QED  BY <2>1, SourceOfSame
<1>2. CASE record_message_activity(t)
  <2> DEFINE k == held[t][1]
  <2>1. k \in Jids
    BY <1>2, ActivityPutsRow
  <2>2. CASE k # j
    BY <1>0, <1>2, <2>1, <2>2, SourceOfSame DEF record_message_activity, Put, TypeOK
  <2>3. CASE k = j
    <3>1. is_group(k)
      BY <2>3 DEF is_group
    <3>2. chats'[k] = IF Exists(k)
                      THEN [name |-> chats[k].name, src |-> chats[k].src, dated |-> TRUE,
                            unread |-> chats[k].unread \/ Head1(t).op = "activity"]
                      ELSE [name |-> user(k), src |-> "placeholder", dated |-> TRUE,
                            unread |-> Head1(t).op = "activity"]
      BY <1>2, <2>1, <3>1 DEF record_message_activity, Put, TypeOK
    <3>. QED  BY <2>3, <3>2 DEF SourceKept
  <2>. QED  BY <2>2, <2>3
<1>3. CASE upsert_chat_from_history(t)
  <2> DEFINE k == held[t][1]
             real == Head1(t).arg
             src == IF real = None THEN "placeholder" ELSE IF is_group(k) THEN "subject" ELSE "contact"
             rename == real # None /\ name_is_placeholder(k, chats[k].name)
  <2>1. k \in Jids
    BY <1>3, HistoryPutsRow
  <2>2. PICK dated, unread \in BOOLEAN :
           chats' = Put(k, IF Exists(k)
                           THEN [name |-> IF rename THEN real ELSE chats[k].name,
                                 src |-> IF rename THEN src ELSE chats[k].src,
                                 dated |-> chats[k].dated \/ dated, unread |-> unread]
                           ELSE [name |-> IF real = None THEN user(k) ELSE real, src |-> src,
                                 dated |-> dated, unread |-> unread])
    BY <1>3 DEF upsert_chat_from_history
  <2>3. CASE k # j
    BY <1>0, <2>1, <2>2, <2>3, SourceOfSame DEF Put, TypeOK
  <2>4. CASE k = j
    BY <2>1, <2>2, <2>4 DEF Put, TypeOK, SourceKept, Exists
  <2>. QED  BY <2>3, <2>4
<1>4. CASE set_chat_flag(t)
  BY <1>0, <1>4 DEF set_chat_flag, Put, TypeOK, SourceKept, Exists, DeferredRow
<1>5. ASSUME NEW op \in {"read", "unread"}, mark_chat(t, op) PROVE SourceKept(j)
  <2> DEFINE k == held[t][1]
             row == IF Exists(k) THEN chats[k] ELSE DeferredRow
  <2>1. k \in Jids /\ row \in Row
    BY <1>5, OneResolved, DeferredRowTyped DEF mark_chat, TypeOK, Exists
  <2>2. chats' = Put(k, [row EXCEPT !.unread = (op = "unread")])
    BY <1>5 DEF mark_chat
  <2>3. /\ [row EXCEPT !.unread = (op = "unread")].src = row.src
        /\ [row EXCEPT !.unread = (op = "unread")] \in Row
    <3> HIDE DEF row
    <3>. QED  BY <2>1 DEF Row
  <2>4. row.src # "pushname" \/ (Exists(k) /\ row.src = chats[k].src)
    BY DEF DeferredRow
  <2> DEFINE put == [row EXCEPT !.unread = (op = "unread")]
  <2>5. put \in Row /\ chats' = Put(k, put) /\ put.src = row.src
    BY <2>2, <2>3
  <2> HIDE DEF k, row, put
  <2>. QED  BY <1>0, <2>1, <2>4, <2>5, PutSource
<1>6. CASE rename_chat(t) \/ apply_contact_name(t) \/ apply_push_name(t)
  <2>1. rename_chat(t) => Head1(t).jid \in Jids
    BY <1>6, BusyTask, CallArguments DEF rename_chat, Ready
  <2>2. \/ chats'[j] = chats[j]
        \/ /\ Exists(j)
           /\ \E src \in {"contact", "subject"} :
                 chats'[j] = [chats[j] EXCEPT !.name = Head1(t).arg, !.src = src]
    <3>1. CASE rename_chat(t)
      BY <1>0, <2>1, <3>1 DEF rename_chat, Put, TypeOK
    <3>2. CASE apply_contact_name(t)
      BY <1>0, <3>2 DEF apply_contact_name
    <3>3. CASE apply_push_name(t)
      <4>1. ~TakesPushName(j)
        BY DEF TakesPushName, is_group
      <4>. QED  BY <1>0, <3>3, <4>1 DEF apply_push_name
    <3>. QED  BY <1>6, <3>1, <3>2, <3>3
  <2>3. ASSUME Exists(j), NEW src \in {"contact", "subject"},
               chats'[j] = [chats[j] EXCEPT !.name = Head1(t).arg, !.src = src]
        PROVE  SourceKept(j)
    <3>1. chats[j] \in Row
      BY <1>0, <2>3 DEF TypeOK, Exists
    <3>2. chats'[j].src = src
      BY <2>3, <3>1 DEF Row
    <3>. QED  BY <2>3, <3>2 DEF SourceKept
  <2>. QED  BY <2>2, <2>3, SourceOfSame
<1>7. CASE link_jids(t)
  BY <1>7, LinkSource
<1>8. CASE upsert_chat_from_contact(t)
  <2>1. chats'[j] = chats[j] \/ chats'[j] = [DeferredRow EXCEPT !.name = Head1(t).arg, !.src = "contact"]
    BY <1>0, <1>8 DEF upsert_chat_from_contact, Put, TypeOK
  <2>2. [DeferredRow EXCEPT !.name = Head1(t).arg, !.src = "contact"].src = "contact"
    BY DEF DeferredRow
  <2>. QED  BY <2>1, <2>2, SourceOfSame DEF SourceKept
<1>9. CASE delete_empty_contact_chats(t) \/ delete_chat(t)
  <2>1. chats'[j] = chats[j] \/ chats'[j] = None
    BY <1>0, <1>9 DEF delete_empty_contact_chats, delete_chat, DeleteRows
  <2>. QED  BY <2>1, SourceOfSame
<1>10. CASE \/ merge_group_lid_twins(t) \/ contact_backfill_identity(t) \/ register_jid_alias(t)
            \/ empty_contact_chats(t) \/ upsert_message(t)
  <2>1. chats' = chats
    BY <1>10 DEF merge_group_lid_twins, contact_backfill_identity, register_jid_alias,
       empty_contact_chats, upsert_message, tables
  <2>. QED  BY <2>1, SourceOfSame
<1>. QED  BY <1>1, <1>2, <1>3, <1>4, <1>5, <1>6, <1>7, <1>8, <1>9, <1>10 DEF Statement

\* A group is never named after a sender: for any JIDs and twins, any handlers, merges, renames and
\* pushes that interleave (record_message_activity, apply_push_name, link_jids).
THEOREM GroupNamesHold == Spec => []GroupsNeverTakePushNames
<1>1. Init => GroupInv
  <2>1. Len(<<>>) = 0
    BY EmptySeq
  <2>. QED  BY <2>1, InitTyped, InitFits DEF Init, GroupInv, IdleHoldsNone, KindsKept, GroupsNeverTakePushNames, Exists, Jids
<1>2. GroupInv /\ [Next]_vars => GroupInv'
  <2> SUFFICES ASSUME GroupInv, [Next]_vars PROVE GroupInv'
    OBVIOUS
  <2>0. TypeOK /\ CallsFit /\ IdleHoldsNone /\ KindsKept /\ GroupsNeverTakePushNames
    BY DEF GroupInv
  <2>1. TypeOK' /\ CallsFit'
    BY <2>0, StepTyped, StepFits
  <2>2. CASE UNCHANGED vars
    BY <2>0, <2>1, <2>2 DEF vars, GroupInv, IdleHoldsNone, Idle, KindsKept, GroupsNeverTakePushNames, Exists
  <2>3. ASSUME NEW t \in Tasks, Resolve(t) \/ Statement(t) \/ Handler(t) PROVE GroupInv'
    <3>1. KindsKept' /\ IdleHoldsNone'
      BY <2>0, <2>3, KindsStep
    <3>2. \A j \in Groups \cup GroupLids : SourceKept(j)
      BY <2>0, <2>3, GroupSourceStep
    <3>3. GroupsNeverTakePushNames'
      BY <2>0, <3>2 DEF SourceKept, GroupsNeverTakePushNames, Exists
    <3>. QED  BY <2>1, <3>1, <3>3 DEF GroupInv
  <2>. QED  BY <2>2, <2>3 DEF Next
<1>3. GroupInv => GroupsNeverTakePushNames
  BY DEF GroupInv
<1>. QED  BY <1>1, <1>2, <1>3, PTL DEF Spec

(***************************************************************************)
(* One row per identity: a merge sends both identities to one of them.     *)
(***************************************************************************)

\* A merge sends the identities of both rows to the canonical one and leaves all others.
Merges(c, o) ==
    \A j \in Jids : canonical_jid(j)' = IF canonical_jid(j) \in {c, o} THEN c ELSE canonical_jid(j)
NamedBoth(c, o) == (Named(c) \/ Named(o)) => Named(c)'

\* A transaction that runs merges the rows of the two ids it holds, re-points the aliases, and the id
\* that stays is named if one of the two was.
LEMMA LinkRuns ==
    ASSUME TypeOK, HeldDiffer, NEW t \in Tasks, link_jids(t), ~UNCHANGED tables
    PROVE  \E c, o \in Jids :
             /\ c # o /\ {c, o} = {held[t][1], held[t][2]}
             /\ jid_aliases' = Relinked({Head1(t).jid, Head1(t).arg, c, o}, c, o)
             /\ \A j \in Jids \ {c, o} : chats'[j] = chats[j]
             /\ chats'[o] = None /\ chats'[c] = MergedRow(c, o)
             /\ NamedBoth(c, o)
<1> DEFINE call == Head1(t)
<1>b. PICK c : c = pick_canonical_jid(held[t][1], held[t][2])
  OBVIOUS
<1>c. PICK o : o = IF c = held[t][1] THEN held[t][2] ELSE held[t][1]
  OBVIOUS
<1>0. TypeOK /\ HeldDiffer
  OBVIOUS
<1>1. Ready(t, "link") /\ Len(held[t]) = 2 /\ held[t][1] \in Jids /\ held[t][2] \in Jids
  BY <1>0, LinkHeld DEF link_jids
<1>2. held[t][1] # held[t][2]
  BY <1>0, <1>1 DEF HeldDiffer
<1>3. c \in Jids /\ o \in Jids /\ c # o /\ {c, o} = {held[t][1], held[t][2]}
  BY <1>1, <1>2, <1>b, <1>c, PickIsOneOfTwo
<1>4. /\ chats' = [chats EXCEPT ![c] = MergedRow(c, o), ![o] = None]
      /\ jid_aliases' = Relinked({call.jid, call.arg, held[t][1], held[t][2]}, c, o)
  BY <1>b, <1>c DEF link_jids
<1>5. (Named(held[t][1]) \/ Named(held[t][2])) => Named(c)
  <2>1. CASE Named(held[t][1]) /\ Named(held[t][2])
    BY <1>3, <2>1
  <2>2. CASE Named(held[t][1]) /\ ~Named(held[t][2])
    <3>1. c = held[t][1]
      BY <1>b, <2>2 DEF pick_canonical_jid
    <3>. QED  BY <2>2, <3>1
  <2>3. CASE ~Named(held[t][1]) /\ Named(held[t][2])
    <3>1. c = held[t][2]
      BY <1>b, <2>3 DEF pick_canonical_jid
    <3>. QED  BY <2>3, <3>1
  <2>. QED  BY <2>1, <2>2, <2>3
<1>6. (Named(c) \/ Named(o)) => Named(c)
  BY <1>3, <1>5
<1>7. {call.jid, call.arg, held[t][1], held[t][2]} = {call.jid, call.arg, c, o}
  BY <1>3
<1>8. jid_aliases' = Relinked({call.jid, call.arg, c, o}, c, o)
  BY <1>4, <1>7
<1>9. /\ \A j \in Jids \ {c, o} : chats'[j] = chats[j]
      /\ chats'[o] = None
      /\ chats'[c] = MergedRow(c, o)
  BY <1>0, <1>3, <1>4 DEF TypeOK
<1>10. NamedBoth(c, o)
  <2> SUFFICES ASSUME Named(c) PROVE Named(c)'
    BY <1>6 DEF NamedBoth
  <2>1. Exists(c) /\ ~name_is_placeholder(c, chats[c].name)
    BY DEF Named
  <2>2. MergedRow(c, o).name = chats[c].name
    BY <2>1 DEF MergedRow
  <2>3. MergedRow(c, o) # None
    <3>1. MergedRow(c, o) \in Row \/ MergedRow(c, o) = chats[c]
      <4>1. CASE ~Exists(o)
        BY <4>1 DEF MergedRow
      <4>2. CASE Exists(o)
        <5>1. chats[c] \in Row /\ chats[o] \in Row
          BY <1>0, <1>3, <2>1, <4>2 DEF TypeOK, Exists
        <5>. QED  BY <2>1, <4>2, <5>1 DEF MergedRow, Row
      <4>. QED  BY <4>1, <4>2
    <3>. QED  BY <2>1, <3>1, NoRowIsNone DEF Exists
  <2>. QED  BY <1>9, <2>1, <2>2, <2>3 DEF Named, Exists, name_is_placeholder
<1>. QED  BY <1>3, <1>8, <1>9, <1>10

LEMMA LinkMerges ==
    ASSUME TypeOK, HeldDiffer, CanonicalIsSettled, NEW t \in Tasks, HeldRight(t), link_jids(t), ~UNCHANGED tables
    PROVE  \E c, o \in Jids :
             /\ c # o /\ canonical_jid(c) = c /\ canonical_jid(o) = o
             /\ Merges(c, o) /\ NamedBoth(c, o)
             /\ \A j \in Jids \ {c, o} : chats'[j] = chats[j]
             /\ chats'[o] = None
             /\ chats'[c] # None => Exists(c) \/ Exists(o)
<1> DEFINE call == Head1(t)
<1>0. TypeOK /\ HeldDiffer /\ CanonicalIsSettled
  OBVIOUS
<1>1. Len(held[t]) = 2 /\ call.jid \in Jids /\ call.arg \in Jids
  BY <1>0, LinkHeld DEF link_jids
<1>2. PICK c \in Jids, o \in Jids :
             /\ c # o /\ {c, o} = {held[t][1], held[t][2]}
             /\ jid_aliases' = Relinked({call.jid, call.arg, c, o}, c, o)
             /\ \A j \in Jids \ {c, o} : chats'[j] = chats[j]
             /\ chats'[o] = None /\ chats'[c] = MergedRow(c, o)
             /\ NamedBoth(c, o)
  BY <1>0, LinkRuns
<1>3. held[t][1] = canonical_jid(call.jid) /\ held[t][2] = canonical_jid(call.arg)
  BY <1>1 DEF HeldRight, Head1
<1>4. canonical_jid(held[t][1]) = held[t][1] /\ canonical_jid(held[t][2]) = held[t][2]
  BY <1>0, <1>1, <1>3 DEF CanonicalIsSettled
<1>5. canonical_jid(c) = c /\ canonical_jid(o) = o
  BY <1>2, <1>4
<1>6. canonical_jid(call.jid) \in {c, o} /\ canonical_jid(call.arg) \in {c, o}
  BY <1>2, <1>3
<1> HIDE DEF call
<1>7. Merges(c, o)
  <2>1. ASSUME NEW j \in Jids
        PROVE  canonical_jid(j)' = IF canonical_jid(j) \in {c, o} THEN c ELSE canonical_jid(j)
    <3>1. jid_aliases'[j] = IF j \in {call.jid, call.arg, c, o} \/ jid_aliases[j] = o THEN c ELSE jid_aliases[j]
      BY <1>2 DEF Relinked
    <3>2. c # None /\ o # None
      BY <1>2, IdentityAssumption
    <3>3. CASE j \in {call.jid, call.arg, c, o}
      <4>1. canonical_jid(j) \in {c, o}
        BY <1>5, <1>6, <3>3
      <4>. QED  BY <3>1, <3>2, <3>3, <4>1 DEF canonical_jid
    <3>4. CASE j \notin {call.jid, call.arg, c, o}
      BY <3>1, <3>2, <3>4 DEF canonical_jid
    <3>. QED  BY <3>3, <3>4
  <2>. QED  BY <2>1 DEF Merges
<1>8. chats'[c] # None => Exists(c) \/ Exists(o)
  BY <1>2 DEF MergedRow, Exists
<1>. QED  BY <1>2, <1>5, <1>7, <1>8

\* After a merge of two canonical ids one look-up is enough, and whoever had one id still has.
LEMMA MergesSettle ==
    ASSUME TypeOK, CanonicalIsSettled, NEW c \in Jids, NEW o \in Jids, c # o, canonical_jid(c) = c, Merges(c, o)
    PROVE  CanonicalIsSettled' /\ KeepsLinks
<1>1. \A j \in Jids : canonical_jid(j) \in Jids
  BY CanonicalIsJid
<1>2. \A j \in Jids : canonical_jid(j)' = IF canonical_jid(j) \in {c, o} THEN c ELSE canonical_jid(j)
  BY DEF Merges
<1>3. ASSUME NEW j \in Jids PROVE (canonical_jid(canonical_jid(j)) = canonical_jid(j))'
  <2>1. PICK k \in Jids : k = canonical_jid(j)'
    BY <1>1, <1>2
  <2>2. canonical_jid(canonical_jid(j)) = canonical_jid(j)
    BY DEF CanonicalIsSettled
  <2>3. canonical_jid(k)' = k
    BY <1>1, <1>2, <2>1, <2>2
  <2>. QED  BY <2>1, <2>3 DEF canonical_jid
<1>4. KeepsLinks
  BY <1>2 DEF KeepsLinks
<1>. QED  BY <1>3, <1>4 DEF CanonicalIsSettled

\* Without the backfill none of its calls comes up.
LEMMA NoBackfillCalls ==
    ASSUME NoBackfill, TypeOK, CallsFit
    PROVE  NoneAt("register") /\ NoneAt("insert")
BY FitTail DEF NoneAt, CallFits, NoBackfill

\* A look-up and the start of a handler change no table.
LEMMA QuietSteps ==
    ASSUME NEW t \in Tasks
    PROVE  Resolve(t) \/ Handler(t) => UNCHANGED tables
BY ZenonT(60) DEF Resolve, Handler, Start, handle_inbound_message, send_text,
       handle_undecryptable, import_history_sync, handle_contact_update, handle_push_name,
       handle_flag_patch, handle_group_subject, handle_delete_chat, run_contact_name_pass,
       backfill_chats_from_contacts, sweep

\* With no alias registered only a link changes aliases.
LEMMA OnlyLinksAlias ==
    ASSUME NoneAt("register"), TypeOK, CallsFit, NEW t \in Tasks, Resolve(t) \/ Statement(t) \/ Handler(t)
    PROVE  jid_aliases' = jid_aliases \/ link_jids(t)
<1>1. ~register_jid_alias(t)
  BY DEF register_jid_alias, Ready, NoneAt
<1>2. jid_aliases' = jid_aliases \/ link_jids(t)
  BY <1>1, QuietSteps, ZenonT(60) DEF tables, Statement, record_message_activity, set_chat_flag, mark_chat, upsert_message,
       upsert_chat_from_history, rename_chat, apply_contact_name, apply_push_name,
       merge_group_lid_twins, contact_backfill_identity, upsert_chat_from_contact,
       empty_contact_chats, delete_empty_contact_chats, delete_chat
<1>. QED  BY <1>2

\* A step that changes no alias: a new row comes under a JID that was resolved.
LEMMA NewRows ==
    ASSUME NoneAt("insert"), TypeOK, CallsFit, NEW t \in Tasks, Resolve(t) \/ Statement(t) \/ Handler(t),
           ~link_jids(t), NEW j \in Jids, chats'[j] # None
    PROVE  \/ Exists(j)
           \/ Len(held[t]) >= 1 /\ j = held[t][1] /\ Head1(t).jid \in Jids
<1>1. CASE \/ record_message_activity(t) \/ upsert_chat_from_history(t) \/ set_chat_flag(t)
           \/ mark_chat(t, "read") \/ mark_chat(t, "unread")
  <2>1. PICK op \in {"activity", "refresh", "history", "meta", "read", "unread"} : Ready(t, op)
    BY <1>1 DEF record_message_activity, upsert_chat_from_history, set_chat_flag, mark_chat
  <2>2. held[t][1] \in Jids /\ Len(held[t]) = 1
    <3>1. Resolves(op) = 1
      BY DEF Resolves
    <3>. QED  BY <2>1, <3>1, OneResolved DEF Ready
  <2>3. Head1(t).jid \in Jids
    BY <2>1, BusyTask, CallArguments DEF Ready
  <2>4. j # held[t][1] => chats'[j] = chats[j]
    BY <1>1, <2>2 DEF record_message_activity, upsert_chat_from_history, set_chat_flag, mark_chat, Put, TypeOK
  <2>. QED  BY <2>2, <2>3, <2>4 DEF Exists
<1>2. CASE rename_chat(t)
  BY <1>2, BusyTask, CallArguments DEF rename_chat, Ready, Put, TypeOK, Exists
<1>3. CASE apply_contact_name(t) \/ apply_push_name(t)
  BY <1>3 DEF apply_contact_name, apply_push_name, Exists
<1>5. CASE upsert_chat_from_contact(t)
  BY <1>5 DEF upsert_chat_from_contact, Ready, NoneAt
<1>6. CASE delete_empty_contact_chats(t) \/ delete_chat(t)
  BY <1>6 DEF delete_empty_contact_chats, delete_chat, DeleteRows, Exists
<1>7. CASE chats' = chats
  BY <1>7 DEF Exists
<1>8. \/ chats' = chats \/ record_message_activity(t) \/ upsert_chat_from_history(t) \/ set_chat_flag(t)
      \/ mark_chat(t, "read") \/ mark_chat(t, "unread") \/ rename_chat(t) \/ apply_contact_name(t)
      \/ apply_push_name(t) \/ upsert_chat_from_contact(t)
      \/ delete_empty_contact_chats(t) \/ delete_chat(t)
  BY QuietSteps DEF tables, Statement, upsert_message,
       merge_group_lid_twins, contact_backfill_identity, register_jid_alias,
       empty_contact_chats
<1>. QED  BY <1>1, <1>2, <1>3, <1>5, <1>6, <1>7, <1>8

LEMMA SameAliases ==
    ASSUME jid_aliases' = jid_aliases
    PROVE  \A j : canonical_jid(j)' = canonical_jid(j)
BY DEF canonical_jid

\* The transaction runs from inside link_jids.
LEMMA RunsInLink ==
    ASSUME NEW t \in Tasks, link_jids(t)
    PROVE  InLink(t) /\ Len(held[t]) = 2
<1>1. ~Idle(t) /\ Head1(t).op = "link" /\ Len(held[t]) = 2
  BY DEF link_jids, Ready, Resolves
<1>. QED  BY <1>1, EmptySeq DEF InLink

\* No id resolved by another task is in use then.
LEMMA HeldStaysCurrent ==
    ASSUME LinksExclude, SettledInv, NEW t \in Tasks, Resolve(t) \/ Statement(t) \/ Handler(t)
    PROVE  HeldIsCurrent'
<1>0. TypeOK /\ CallsFit /\ IdleHoldsNone /\ HeldIsCurrent
  BY DEF SettledInv
<1>1. HeldStep(t)
  BY <1>0, HeldSteps
<1>2. ASSUME NEW u \in Tasks
      PROVE  HeldRight(u)'
  <2>1. CASE held'[u] = <<>>
    <3>1. Len(held'[u]) = 0
      BY <2>1, EmptySeq
    <3>. QED  BY <3>1 DEF HeldRight
  <2>2. CASE u # t /\ held'[u] = held[u] /\ todo'[u] = todo[u] /\ held[u] # <<>>
    <3>1. jid_aliases' = jid_aliases
      BY <1>0, <2>2, OnlyLinksAlias, RunsInLink DEF LinksExclude
    <3>2. HeldRight(u)
      BY <1>0 DEF HeldIsCurrent
    <3>. QED  BY <2>2, <3>1, <3>2 DEF HeldRight, canonical_jid
  <2>3. CASE u = t /\ HeldGrows(t)
    <3>1. todo' = todo /\ jid_aliases' = jid_aliases
      BY <2>3 DEF HeldGrows, tables
    <3>2. CASE /\ Len(held[t]) = 0 /\ Len(held'[t]) = 1
               /\ held'[t][1] = canonical_jid(Head1(t).jid)
      BY <2>3, <3>1, <3>2 DEF HeldRight, canonical_jid, Head1
    <3>3. CASE /\ Len(held[t]) = 1 /\ Len(held'[t]) = 2
               /\ held'[t][1] = held[t][1] /\ held'[t][2] = canonical_jid(Head1(t).arg)
      <4>1. held[t][1] = canonical_jid(Head1(t).jid)
        BY <1>0, <3>3 DEF HeldIsCurrent, HeldRight, Head1
      <4>. QED  BY <2>3, <3>1, <3>3, <4>1 DEF HeldRight, canonical_jid, Head1
    <3>. QED  BY <2>3, <3>2, <3>3 DEF HeldGrows
  <2>. QED  BY <1>1, <2>1, <2>2, <2>3 DEF HeldStep
<1>. QED  BY <1>2 DEF HeldIsCurrent

\* What a merge, or a step without one, does to identities.
IdentitiesKept ==
    /\ CanonicalIsSettled' /\ OneRowPerIdentity' /\ KeepsLinks /\ KeepsNames

LEMMA IdentitiesStep ==
    ASSUME LinksExclude, SettledInv, NEW t \in Tasks, Resolve(t) \/ Statement(t) \/ Handler(t)
    PROVE  IdentitiesKept
<1>0. /\ TypeOK /\ HeldDiffer /\ CallsFit /\ IdleHoldsNone /\ HeldIsCurrent /\ HeldRight(t)
      /\ CanonicalIsSettled /\ OneRowPerIdentity
  BY DEF SettledInv, HeldIsCurrent
<1>1. CASE link_jids(t) /\ ~UNCHANGED tables
  <2>1. PICK c \in Jids, o \in Jids :
             /\ c # o /\ canonical_jid(c) = c /\ canonical_jid(o) = o
             /\ Merges(c, o) /\ NamedBoth(c, o)
             /\ \A j \in Jids \ {c, o} : chats'[j] = chats[j]
             /\ chats'[o] = None
             /\ chats'[c] # None => Exists(c) \/ Exists(o)
    BY <1>0, <1>1, LinkMerges
  <2>2. \A j \in Jids : canonical_jid(j) \in Jids
    BY <1>0, CanonicalIsJid
  <2>3. \A j \in Jids : canonical_jid(j)' = IF canonical_jid(j) \in {c, o} THEN c ELSE canonical_jid(j)
    BY <2>1 DEF Merges
  <2>5. CanonicalIsSettled' /\ KeepsLinks
    BY <1>0, <2>1, MergesSettle
  <2>6. OneRowPerIdentity'
    <3>1. ASSUME NEW j \in Jids, chats'[j] # None PROVE canonical_jid(j)' = j
      <4>1. CASE j = c
        BY <2>1, <2>3, <4>1
      <4>2. CASE j # c /\ j # o
        <5>1. Exists(j)
          BY <2>1, <3>1, <4>2 DEF Exists
        <5>. QED  BY <1>0, <2>3, <4>2, <5>1 DEF OneRowPerIdentity
      <4>. QED  BY <2>1, <3>1, <4>1, <4>2
    <3>. QED  BY <3>1 DEF OneRowPerIdentity, Exists
  <2>8. KeepsNames
    <3>1. ASSUME NEW j \in Jids, Named(j) PROVE Named(canonical_jid(j))'
      <4>1. canonical_jid(j) = j
        BY <1>0, <3>1 DEF OneRowPerIdentity, Named
      <4>2. CASE j \in {c, o}
        <5>1. canonical_jid(j)' = c /\ Named(c)'
          BY <2>1, <2>3, <3>1, <4>1, <4>2 DEF NamedBoth
        <5>. QED  BY <5>1 DEF Named, Exists, name_is_placeholder, user
      <4>3. CASE j \notin {c, o}
        <5>1. canonical_jid(j)' = j /\ chats'[j] = chats[j]
          BY <2>1, <2>3, <4>1, <4>3
        <5>. QED  BY <3>1, <5>1 DEF Named, Exists, name_is_placeholder, user
      <4>. QED  BY <4>2, <4>3
    <3>. QED  BY <3>1 DEF KeepsNames
  <2>. QED  BY <2>5, <2>6, <2>8 DEF IdentitiesKept
<1>2. CASE link_jids(t) /\ UNCHANGED tables
  BY <1>0, <1>2 DEF tables, IdentitiesKept, CanonicalIsSettled, OneRowPerIdentity, KeepsLinks, KeepsNames,
     canonical_jid, Exists
<1>3. CASE ~link_jids(t)
  <2>1. jid_aliases' = jid_aliases
    BY <1>0, <1>3, OnlyLinksAlias DEF LinksExclude
  <2>2. CanonicalIsSettled' /\ KeepsLinks /\ KeepsNames
    BY <1>0, <2>1 DEF CanonicalIsSettled, KeepsLinks, KeepsNames, canonical_jid
  <2>3. ASSUME NEW j \in Jids, chats'[j] # None PROVE canonical_jid(j) = j
    <3>1. CASE Exists(j)
      BY <1>0, <3>1 DEF OneRowPerIdentity
    <3>2. CASE Len(held[t]) >= 1 /\ j = held[t][1] /\ Head1(t).jid \in Jids
      <4>1. j = canonical_jid(Head1(t).jid)
        BY <1>0, <3>2 DEF HeldIsCurrent, HeldRight, Head1
      <4>. QED  BY <1>0, <3>2, <4>1 DEF CanonicalIsSettled
    <3>. QED  BY <1>0, <1>3, <2>3, <3>1, <3>2, NewRows DEF LinksExclude
  <2>. QED  BY <2>1, <2>2, <2>3 DEF OneRowPerIdentity, Exists, canonical_jid, IdentitiesKept
<1>. QED  BY <1>1, <1>2, <1>3

LEMMA InitSettled == Init => SettledInv
<1>1. Len(<<>>) = 0
  BY EmptySeq
<1>2. Init => IdleHoldsNone /\ HeldIsCurrent /\ HeldDiffer /\ OneRowPerIdentity
  BY <1>1 DEF Init, IdleHoldsNone, HeldIsCurrent, HeldRight, HeldDiffer, OneRowPerIdentity, Exists
<1>3. Init => CanonicalIsSettled
  BY DEF Init, CanonicalIsSettled, canonical_jid
<1>. QED  BY <1>2, <1>3, InitTyped, InitFits DEF SettledInv

LEMMA SettledStep ==
    ASSUME LinksExclude, SettledInv, [Next]_vars
    PROVE  SettledInv' /\ (vars' # vars => IdentitiesKept)
<1>0. TypeOK /\ HeldDiffer /\ CallsFit /\ IdleHoldsNone /\ HeldIsCurrent /\ CanonicalIsSettled /\ OneRowPerIdentity
  BY DEF SettledInv
<1>1. TypeOK' /\ CallsFit'
  BY <1>0, StepTyped, StepFits
<1>2. CASE UNCHANGED vars
  BY <1>0, <1>1, <1>2 DEF vars, SettledInv, HeldDiffer, IdleHoldsNone, Idle, HeldIsCurrent, HeldRight, CanonicalIsSettled,
     OneRowPerIdentity, canonical_jid, Exists
<1>3. ASSUME NEW t \in Tasks, Resolve(t) \/ Statement(t) \/ Handler(t) PROVE SettledInv' /\ IdentitiesKept
  <2>1. HeldDiffer' /\ IdleHoldsNone'
    BY <1>0, <1>3, HeldDifferStep, HeldSteps
  <2>2. HeldIsCurrent' /\ IdentitiesKept
    BY <1>3, HeldStaysCurrent, IdentitiesStep
  <2>. QED  BY <1>1, <2>1, <2>2 DEF SettledInv, IdentitiesKept
<1>. QED  BY <1>2, <1>3 DEF Next

\* One person has one chat row, under the id every JID of theirs resolves to, in every behaviour in
\* which a link excludes resolved ids in other hands (link_jids, canonical_jid): what IdentityRace
\* breaks, one lock over the look-ups and the statement would keep.
THEOREM OneRowIfExcluded == Spec /\ []LinksExclude => []OneRowPerIdentity
<1>1. LinksExclude /\ SettledInv /\ [Next]_vars => SettledInv'
  BY SettledStep
<1>2. SettledInv => OneRowPerIdentity
  BY DEF SettledInv
<1>. QED  BY InitSettled, <1>1, <1>2, PTL DEF Spec

\* A merge keeps the name of a named row, under the same hypothesis.
THEOREM NamesKeptIfExcluded == Spec /\ []LinksExclude => NamesSurviveMerges
<1>1. LinksExclude /\ SettledInv /\ [Next]_vars => SettledInv' /\ [KeepsNames]_vars
  BY SettledStep DEF IdentitiesKept
<1>. QED  BY InitSettled, <1>1, PTL DEF Spec, NamesSurviveMerges

\* It holds throughout when whoever links runs alone and no task is the backfill.
LEMMA AloneExcludes ==
    ASSUME LinksAlone, NoBackfill, TypeOK, CallsFit
    PROVE  LinksExclude
<1>1. ASSUME NEW t \in Tasks, NEW u \in Tasks, InLink(t) PROVE t = u
  <2>1. Duties[t] \cap Linkers # {}
    BY <1>1, FitTail DEF CallFits, Links, InLink
  <2>. QED  BY <2>1 DEF LinksAlone
<1>. QED  BY <1>1, NoBackfillCalls DEF LinksExclude

LEMMA CallsFitAlways == Spec => [](TypeOK /\ CallsFit)
<1>1. TypeOK /\ CallsFit /\ [Next]_vars => TypeOK' /\ CallsFit'
  BY StepTyped, StepFits
<1>. QED  BY InitTyped, InitFits, <1>1, PTL DEF Spec

\* One row per person when whoever links runs alone and nothing registers aliases without merging.
THEOREM OneRowHolds ==
    ASSUME LinksAlone, NoBackfill
    PROVE  Spec => []OneRowPerIdentity
<1>1. TypeOK /\ CallsFit => LinksExclude
  BY AloneExcludes
<1>. QED  BY <1>1, CallsFitAlways, OneRowIfExcluded, PTL

\* Names survive merges then.
THEOREM NamesKept ==
    ASSUME LinksAlone, NoBackfill
    PROVE  Spec => NamesSurviveMerges
<1>1. TypeOK /\ CallsFit => LinksExclude
  BY AloneExcludes
<1>. QED  BY <1>1, CallsFitAlways, NamesKeptIfExcluded, PTL

\* A group and its group-LID twin are one row, which has no sender's name.
THEOREM GroupsHold ==
    ASSUME LinksAlone, NoBackfill
    PROVE  Spec => []GroupsAreWhole
<1>1. OneRowPerIdentity /\ GroupsNeverTakePushNames => GroupsAreWhole
  BY DEF GroupsAreWhole
<1>. QED  BY OneRowHolds, GroupNamesHold, <1>1, PTL

(***************************************************************************)
(* The aliases, with any other handlers between the steps of the linker.   *)
(***************************************************************************)

\* What a linker holds stays current: nobody else changes an alias meanwhile.
LEMMA LinkersStayCurrent ==
    ASSUME LinksApart, AliasInv, NEW t \in Tasks, Resolve(t) \/ Statement(t) \/ Handler(t)
    PROVE  LinkersHoldCurrent'
<1>0. TypeOK /\ CallsFit /\ IdleHoldsNone /\ LinkersHoldCurrent
  BY DEF AliasInv
<1>1. HeldStep(t)
  BY <1>0, HeldSteps
<1>2. ASSUME NEW u \in Tasks, InLink(u)'
      PROVE  HeldRight(u)'
  <2>1. held'[u] # <<>>
    BY <1>2 DEF InLink
  <2>2. CASE u # t /\ held'[u] = held[u] /\ todo'[u] = todo[u]
    <3>1. InLink(u)
      BY <1>2, <2>2 DEF InLink, Idle, Head1
    <3>2. jid_aliases' = jid_aliases
      BY <1>0, <2>2, <3>1, OnlyLinksAlias, RunsInLink DEF LinksApart
    <3>3. HeldRight(u)
      BY <1>0, <3>1 DEF LinkersHoldCurrent
    <3>. QED  BY <2>2, <3>2, <3>3 DEF HeldRight, canonical_jid
  <2>3. CASE u = t /\ HeldGrows(t)
    <3>1. todo' = todo /\ jid_aliases' = jid_aliases
      BY <2>3 DEF HeldGrows, tables
    <3>2. CASE /\ Len(held[t]) = 0 /\ Len(held'[t]) = 1
               /\ held'[t][1] = canonical_jid(Head1(t).jid)
      BY <2>3, <3>1, <3>2 DEF HeldRight, canonical_jid, Head1
    <3>3. CASE /\ Len(held[t]) = 1 /\ Len(held'[t]) = 2
               /\ held'[t][1] = held[t][1] /\ held'[t][2] = canonical_jid(Head1(t).arg)
      <4>1. held[t] # <<>>
        BY <3>3, EmptySeq
      <4>2. InLink(t)
        BY <1>2, <2>3, <3>1, <4>1 DEF InLink, Idle, Head1
      <4>3. held[t][1] = canonical_jid(Head1(t).jid)
        BY <1>0, <3>3, <4>2 DEF LinkersHoldCurrent, HeldRight, Head1
      <4>. QED  BY <2>3, <3>1, <3>3, <4>3 DEF HeldRight, canonical_jid, Head1
    <3>. QED  BY <2>3, <3>2, <3>3 DEF HeldGrows
  <2>. QED  BY <1>1, <2>1, <2>2, <2>3 DEF HeldStep
<1>. QED  BY <1>2 DEF LinkersHoldCurrent

LEMMA AliasStart == Init => AliasInv
<1>1. SettledInv => AliasInv
  BY DEF SettledInv, AliasInv, HeldIsCurrent, LinkersHoldCurrent
<1>. QED  BY <1>1, InitSettled

LEMMA AliasStep ==
    ASSUME LinksApart, AliasInv, [Next]_vars
    PROVE  AliasInv' /\ [KeepsLinks]_vars
<1>0. TypeOK /\ HeldDiffer /\ CallsFit /\ IdleHoldsNone /\ LinkersHoldCurrent /\ CanonicalIsSettled
  BY DEF AliasInv
<1>1. TypeOK' /\ CallsFit'
  BY <1>0, StepTyped, StepFits
<1>2. CASE UNCHANGED vars
  BY <1>0, <1>1, <1>2 DEF vars, AliasInv, HeldDiffer, IdleHoldsNone, Idle, InLink, Head1, LinkersHoldCurrent,
     HeldRight, CanonicalIsSettled, canonical_jid
<1>3. ASSUME NEW t \in Tasks, Resolve(t) \/ Statement(t) \/ Handler(t) PROVE AliasInv' /\ KeepsLinks
  <2>1. HeldDiffer' /\ IdleHoldsNone' /\ LinkersHoldCurrent'
    BY <1>0, <1>3, HeldDifferStep, HeldSteps, LinkersStayCurrent
  <2>2. CanonicalIsSettled' /\ KeepsLinks
    <3>1. CASE jid_aliases' = jid_aliases
      BY <1>0, <3>1 DEF CanonicalIsSettled, KeepsLinks, canonical_jid
    <3>2. CASE link_jids(t) /\ ~UNCHANGED tables
      <4>1. HeldRight(t)
        BY <1>0, <3>2, RunsInLink DEF LinkersHoldCurrent
      <4>2. PICK c \in Jids, o \in Jids : c # o /\ canonical_jid(c) = c /\ Merges(c, o)
        BY <1>0, <3>2, <4>1, LinkMerges
      <4>. QED  BY <1>0, <4>2, MergesSettle
    <3>. QED  BY <1>0, <1>3, <3>1, <3>2, OnlyLinksAlias DEF tables, LinksApart
  <2>. QED  BY <1>1, <2>1, <2>2 DEF AliasInv
<1>. QED  BY <1>2, <1>3 DEF Next

\* No alias names another alias (link_jids re-points all older ones), in every behaviour in which no
\* two tasks are inside link_jids at once; whatever the other tasks do between its steps.
THEOREM SettledIfApart == Spec /\ []LinksApart => []CanonicalIsSettled
<1>1. LinksApart /\ AliasInv /\ [Next]_vars => AliasInv'
  BY AliasStep
<1>2. AliasInv => CanonicalIsSettled
  BY DEF AliasInv
<1>. QED  BY AliasStart, <1>1, <1>2, PTL DEF Spec

\* Identities that were linked once never come apart, under the same hypothesis.
THEOREM LinksKeptIfApart == Spec /\ []LinksApart => LinkedStaysLinked
<1>1. LinksApart /\ AliasInv /\ [Next]_vars => AliasInv' /\ [KeepsLinks]_vars
  BY AliasStep
<1>. QED  BY AliasStart, <1>1, PTL DEF Spec, LinkedStaysLinked

\* It holds throughout when one task links and no task is the backfill.
LEMMA OneApart ==
    ASSUME OneLinks, NoBackfill, TypeOK, CallsFit
    PROVE  LinksApart
<1>1. ASSUME NEW t \in Tasks, InLink(t) PROVE Duties[t] \cap Linkers # {}
  BY <1>1, FitTail DEF CallFits, Links, InLink
<1>. QED  BY <1>1, NoBackfillCalls DEF LinksApart, OneLinks

\* Aliases are settled when one task links, any others run between its steps.
THEOREM SettledHolds ==
    ASSUME OneLinks, NoBackfill
    PROVE  Spec => []CanonicalIsSettled
<1>1. TypeOK /\ CallsFit => LinksApart
  BY OneApart
<1>. QED  BY <1>1, CallsFitAlways, SettledIfApart, PTL

\* Links are kept then.
THEOREM LinksKept ==
    ASSUME OneLinks, NoBackfill
    PROVE  Spec => LinkedStaysLinked
<1>1. TypeOK /\ CallsFit => LinksApart
  BY OneApart
<1>. QED  BY <1>1, CallsFitAlways, LinksKeptIfApart, PTL

(***************************************************************************)
(* The scenes: a phone number linked to two LIDs in turn, and the name     *)
(* pass beside live traffic.                                               *)
(***************************************************************************)

\* A JID that takes no part: no call names it, it has no alias, no other JID resolves to it, and no task holds it.
Unused(s) == \A t \in Tasks : ~Uses(t, s)
NotHeld(t, s) == \A i \in 1..Len(held[t]) : held[t][i] # s
Apart(s) ==
    /\ jid_aliases[s] = None
    /\ \A j \in Jids \ {s} : canonical_jid(j) # s
    /\ \A t \in Tasks : NotHeld(t, s)

\* The contact who tells the scenes apart takes part in none, the second LID in one only.
SceneInv ==
    /\ TypeOK /\ HeldDiffer /\ CallsFit /\ IdleHoldsNone
    /\ scene \in DOMAIN SideCalls
    /\ Apart(lid3) /\ (scene # "chain" => Apart(lid2))
    /\ scene = "chain" => SettledInv

LEMMA StrangerUnused ==
    ASSUME TypeOK, NEW s, Unused(s), NEW t \in Tasks, ~Idle(t)
    PROVE  Head1(t).jid # s /\ Head1(t).arg # s
<1>1. 1 \in DOMAIN todo[t]
  BY BusyTask, LenProperties
<1>. QED  BY <1>1 DEF Unused, Uses, Head1

\* What is known of the stranger tells the scene, and no step changes it.
LEMMA SceneStays ==
    ASSUME lid3 \in Lids, TypeOK, Apart(lid3), Unused(lid3), NEW t \in Tasks, Resolve(t) \/ Statement(t) \/ Handler(t)
    PROVE  scene' = scene
<1>0. lid3 \in Jids
  BY DEF Jids
<1>1. contacts'[lid3] = contacts[lid3]
  <2>1. CASE apply_contact_name(t)
    <3>1. Ready(t, "name") /\ ~Idle(t)
      BY <2>1 DEF apply_contact_name, Ready
    <3>2. Len(held[t]) = 1
      BY <3>1 DEF Ready, Resolves
    <3>3. held[t][1] # lid3
      BY <3>2 DEF Apart, NotHeld
    <3>. QED  BY <1>0, <2>1, <3>1, <3>3, StrangerUnused DEF apply_contact_name
  <2>2. CASE apply_push_name(t)
    <3>1. ~Idle(t)
      BY <2>2 DEF apply_push_name, Ready
    <3>. QED  BY <1>0, <2>2, <3>1, StrangerUnused DEF apply_push_name, TypeOK
  <2>3. contacts' = contacts \/ apply_contact_name(t) \/ apply_push_name(t)
    BY QuietSteps, ZenonT(60) DEF tables, Statement, record_message_activity, set_chat_flag, mark_chat, upsert_message,
       upsert_chat_from_history, rename_chat, link_jids, register_jid_alias,
       merge_group_lid_twins, contact_backfill_identity, upsert_chat_from_contact,
       empty_contact_chats, delete_empty_contact_chats, delete_chat
  <2>. QED  BY <2>1, <2>2, <2>3
<1>. QED  BY <1>1 DEF scene

\* No step brings the stranger in.
LEMMA StrangerStays ==
    ASSUME NEW s \in Jids, TypeOK, IdleHoldsNone, Apart(s), Unused(s), NEW t \in Tasks,
           Resolve(t) \/ Statement(t) \/ Handler(t)
    PROVE  Apart(s)'
<1>1. ASSUME NEW j \in Jids PROVE (j # s => canonical_jid(j)' # s) /\ jid_aliases'[s] = None
  <2>0. (j # s => canonical_jid(j) # s) /\ jid_aliases[s] = None
    BY DEF Apart
  <2>1. CASE jid_aliases' = jid_aliases
    BY <2>0, <2>1 DEF canonical_jid
  <2>2. CASE link_jids(t) /\ jid_aliases' # jid_aliases
    <3>1. PICK c : c = pick_canonical_jid(held[t][1], held[t][2])
      OBVIOUS
    <3>2. PICK o : o = IF c = held[t][1] THEN held[t][2] ELSE held[t][1]
      OBVIOUS
    <3>3. jid_aliases' = Relinked({Head1(t).jid, Head1(t).arg, held[t][1], held[t][2]}, c, o)
      BY <2>2, <3>1, <3>2 DEF link_jids, tables
    <3>4. Len(held[t]) = 2 /\ held[t][1] \in Jids /\ held[t][2] \in Jids
      BY <2>2, RunsInLink, LinkHeld DEF link_jids
    <3>5. held[t][1] # s /\ held[t][2] # s
      BY <3>4 DEF Apart, NotHeld
    <3>6. c # s
      BY <3>1, <3>4, <3>5, PickIsOneOfTwo
    <3>7. jid_aliases'[j] \in {c, jid_aliases[j]}
      BY <3>3 DEF Relinked
    <3>8. o \in Jids /\ None \notin Jids
      BY <3>2, <3>4, IdentityAssumption
    <3>9. Head1(t).jid # s /\ Head1(t).arg # s
      BY <2>2, RunsInLink, StrangerUnused DEF InLink
    <3>10. jid_aliases'[s] = None
      BY <2>0, <3>3, <3>5, <3>8, <3>9 DEF Relinked
    <3>. QED  BY <2>0, <3>6, <3>7, <3>10 DEF canonical_jid
  <2>3. CASE register_jid_alias(t)
    <3>1. ~Idle(t)
      BY <2>3 DEF register_jid_alias, Ready
    <3>2. Head1(t).jid # s /\ Head1(t).arg # s
      BY <3>1, StrangerUnused
    <3>3. jid_aliases'[j] \in {Head1(t).arg, jid_aliases[j]}
      BY <2>3 DEF register_jid_alias, TypeOK
    <3>4. jid_aliases'[s] = jid_aliases[s]
      BY <2>3, <3>2 DEF register_jid_alias, TypeOK
    <3>. QED  BY <2>0, <3>2, <3>3, <3>4 DEF canonical_jid
  <2>4. jid_aliases' = jid_aliases \/ link_jids(t) \/ register_jid_alias(t)
    BY QuietSteps, ZenonT(60) DEF tables, Statement, record_message_activity, set_chat_flag, mark_chat, upsert_message,
       upsert_chat_from_history, rename_chat, apply_contact_name, apply_push_name,
       merge_group_lid_twins, contact_backfill_identity, upsert_chat_from_contact,
       empty_contact_chats, delete_empty_contact_chats, delete_chat
  <2>. QED  BY <2>1, <2>2, <2>3, <2>4
<1>2. ASSUME NEW u \in Tasks PROVE NotHeld(u, s)'
  <2>0. NotHeld(u, s)
    BY DEF Apart
  <2>1. CASE held'[u] = <<>>
    <3>1. Len(held'[u]) = 0
      BY <2>1, EmptySeq
    <3>. QED  BY <3>1 DEF NotHeld
  <2>2. CASE held'[u] = held[u]
    BY <2>0, <2>2 DEF NotHeld
  <2>3. CASE u = t /\ HeldGrows(t)
    <3>1. ~Idle(t)
      BY <2>3 DEF HeldGrows
    <3>2. Head1(t).jid # s /\ Head1(t).arg # s
      BY <3>1, StrangerUnused
    <3>3. CASE /\ Len(held[t]) = 0 /\ Len(held'[t]) = 1 /\ Head1(t).jid \in Jids
               /\ held'[t][1] = canonical_jid(Head1(t).jid)
      <4>1. held'[t][1] # s
        BY <3>2, <3>3 DEF Apart
      <4>. QED  BY <2>3, <3>3, <4>1 DEF NotHeld
    <3>4. CASE /\ Len(held[t]) = 1 /\ Len(held'[t]) = 2 /\ Head1(t).arg \in Jids
               /\ held'[t][1] = held[t][1] /\ held'[t][2] = canonical_jid(Head1(t).arg)
      <4>1. held'[t][1] # s /\ held'[t][2] # s
        BY <2>0, <2>3, <3>2, <3>4 DEF Apart, NotHeld
      <4>. QED  BY <2>3, <3>4, <4>1 DEF NotHeld
    <3>. QED  BY <2>3, <3>3, <3>4 DEF HeldGrows
  <2>4. HeldStep(t)
    BY HeldSteps
  <2>. QED  BY <2>1, <2>2, <2>3, <2>4 DEF HeldStep
<1>. QED  BY <1>1, <1>2 DEF Apart

\* In the chain scene one task has all the calls.
LEMMA ChainApart ==
    ASSUME Tasks = {tLive, tSide}, Duties = SceneDuties, TypeOK, CallsFit, IdleHoldsNone, InScene, scene = "chain"
    PROVE  LinksExclude
<1>1. Runs(tSide) = {}
  BY DEF InScene, SideCalls
<1>2. Idle(tSide)
  <2> SUFFICES ASSUME ~Idle(tSide) PROVE FALSE
    OBVIOUS
  <2>1. 1 \in DOMAIN todo[tSide]
    BY BusyTask, LenProperties
  <2>. QED  BY <1>1, <2>1 DEF Runs
<1>3. "backfill" \notin Duties[tLive]
  BY DEF SceneDuties
<1>4. NoneAt("register") /\ NoneAt("insert")
  BY <1>2, <1>3, FitTail DEF NoneAt, CallFits
<1>5. held[tSide] = <<>>
  BY <1>2 DEF IdleHoldsNone
<1>. QED  BY <1>2, <1>4, <1>5 DEF LinksExclude, InLink

LEMMA SceneStart ==
    ASSUME n1 \in Names, lid2 \in Lids, lid3 \in Lids
    PROVE  SceneInit => SceneInv
<1> SUFFICES ASSUME SceneInit PROVE SceneInv
  OBVIOUS
<1>1. Len(<<>>) = 0 /\ \A S : <<>> \in Seq(S)
  BY EmptySeq
<1>2. DOMAIN Strangers = {"chain", "fill", "names"}
  BY DEF Strangers
<1>3. Strangers.chain \in Contact /\ Strangers.fill \in Contact /\ Strangers.names \in Contact
  BY DEF Strangers, Contact
<1>4. contacts \in [Jids -> Contact]
  BY <1>2, <1>3 DEF SceneInit
<1>5. TypeOK
  BY <1>1, <1>4 DEF SceneInit, TypeOK, Stores
<1>6. HeldDiffer /\ CallsFit /\ IdleHoldsNone
  BY <1>1 DEF SceneInit, HeldDiffer, CallsFit, IdleHoldsNone
<1>7. /\ \A s \in Jids : Apart(s)
      /\ HeldIsCurrent /\ CanonicalIsSettled /\ OneRowPerIdentity
  BY <1>1 DEF SceneInit, Apart, NotHeld, HeldIsCurrent, HeldRight, CanonicalIsSettled, canonical_jid,
     OneRowPerIdentity, Exists
<1>8. scene \in DOMAIN SideCalls
  <2>1. \E x \in DOMAIN Strangers : contacts[lid3] = Strangers[x]
    BY DEF SceneInit, Jids
  <2>2. scene \in DOMAIN Strangers
    BY <2>1 DEF scene
  <2>. QED  BY <1>2, <2>2 DEF SideCalls
<1>. QED  BY <1>5, <1>6, <1>7, <1>8 DEF SceneInv, SettledInv, Jids

\* Of two JIDs, whoever links them merges both rows, whatever another task did since it looked.
LEMMA PairKeepsNames ==
    ASSUME NEW p, NEW q, Jids = {p, q, lid2, lid3}, TypeOK, HeldDiffer, CallsFit, Apart(lid2), Apart(lid3),
           NoneAt("register"), NEW t \in Tasks, Resolve(t) \/ Statement(t) \/ Handler(t),
           (Apart(lid2) /\ Apart(lid3))'
    PROVE  KeepsNames
<1>0. TypeOK /\ HeldDiffer /\ CallsFit
  OBVIOUS
<1>1. CASE jid_aliases' = jid_aliases
  BY <1>1 DEF KeepsNames
<1>2. CASE link_jids(t) /\ jid_aliases' # jid_aliases
  <2>1. PICK c \in Jids, o \in Jids :
             /\ c # o /\ {c, o} = {held[t][1], held[t][2]}
             /\ jid_aliases' = Relinked({Head1(t).jid, Head1(t).arg, c, o}, c, o)
             /\ \A j \in Jids \ {c, o} : chats'[j] = chats[j]
             /\ chats'[o] = None /\ chats'[c] = MergedRow(c, o)
             /\ NamedBoth(c, o)
    BY <1>0, <1>2, LinkRuns DEF tables
  <2>2. Len(held[t]) = 2
    BY <1>2, RunsInLink
  <2>3. \A s \in {lid2, lid3} : held[t][1] # s /\ held[t][2] # s
    BY <2>2 DEF Apart, NotHeld
  <2>4. {c, o} = {p, q}
    BY <2>1, <2>3
  <2>5. c # None
    BY <2>1, IdentityAssumption
  <2>6. ASSUME NEW j \in Jids, Named(j) PROVE Named(canonical_jid(j))'
    <3>1. CASE j \in {c, o}
      <4>1. canonical_jid(j)' = c
        BY <2>1, <2>5, <3>1 DEF Relinked, canonical_jid
      <4>2. Named(c)'
        BY <2>1, <2>6, <3>1 DEF NamedBoth
      <4>. QED  BY <4>1, <4>2 DEF Named, Exists, name_is_placeholder, user
    <3>2. CASE j \notin {c, o}
      <4>1. j \in {lid2, lid3}
        BY <2>4, <3>2
      <4>2. canonical_jid(j)' = j
        BY <4>1 DEF Apart, canonical_jid
      <4>3. chats'[j] = chats[j]
        BY <2>1, <3>2
      <4>. QED  BY <2>6, <4>2, <4>3 DEF Named, Exists, name_is_placeholder, user
    <3>. QED  BY <3>1, <3>2
  <2>. QED  BY <2>6 DEF KeepsNames
<1>. QED  BY <1>0, <1>1, <1>2, OnlyLinksAlias

\* The name pass registers no alias, nor does the live task.
LEMMA NamesRegisterNone ==
    ASSUME Tasks = {tLive, tSide}, Duties = SceneDuties, TypeOK, CallsFit, InScene, scene = "names"
    PROVE  NoneAt("register")
<1>1. ~Idle(tSide) => Head1(tSide).op # "register"
  <2> SUFFICES ASSUME ~Idle(tSide) PROVE Head1(tSide).op # "register"
    OBVIOUS
  <2>1. 1 \in DOMAIN todo[tSide]
    BY BusyTask, LenProperties
  <2>2. Head1(tSide).op \in Runs(tSide)
    BY <2>1 DEF Runs, Head1
  <2>. QED  BY <2>2 DEF InScene, SideCalls
<1>2. ~Idle(tLive) => Head1(tLive).op # "register"
  <2>1. "backfill" \notin Duties[tLive]
    BY DEF SceneDuties
  <2>. QED  BY <2>1, FitTail DEF CallFits
<1>. QED  BY <1>1, <1>2 DEF NoneAt

LEMMA SceneStep ==
    ASSUME Tasks = {tLive, tSide}, Duties = SceneDuties, lid2 \in Lids, lid3 \in Lids, SceneInv, InScene, [Next]_vars
    PROVE  /\ SceneInv' /\ Apart(lid3)' /\ (scene # "chain" => Apart(lid2)')
           /\ vars' # vars /\ scene = "chain" => KeepsLinks /\ KeepsNames
<1>0. TypeOK /\ HeldDiffer /\ CallsFit /\ IdleHoldsNone /\ Apart(lid3)
      /\ (scene # "chain" => Apart(lid2)) /\ scene \in DOMAIN SideCalls
  BY DEF SceneInv
<1>1. TypeOK' /\ CallsFit'
  BY <1>0, StepTyped, StepFits
<1>2. ASSUME scene = "chain"
      PROVE  SettledInv' /\ (vars' # vars => KeepsLinks /\ KeepsNames)
  <2>1. SettledInv /\ LinksExclude
    BY <1>0, <1>2, ChainApart DEF SceneInv
  <2>. QED  BY <2>1, SettledStep DEF IdentitiesKept
<1>3. Unused(lid3) /\ (scene # "chain" => Unused(lid2)) /\ lid2 \in Jids /\ lid3 \in Jids
  BY DEF InScene, Unused, Jids
<1>4. HeldDiffer' /\ IdleHoldsNone' /\ Apart(lid3)' /\ (scene # "chain" => Apart(lid2)') /\ scene' = scene
  <2>1. CASE UNCHANGED vars
    BY <1>0, <2>1 DEF vars, HeldDiffer, IdleHoldsNone, Idle, Apart, NotHeld, canonical_jid, scene
  <2>2. ASSUME NEW t \in Tasks, Resolve(t) \/ Statement(t) \/ Handler(t)
        PROVE  HeldDiffer' /\ IdleHoldsNone' /\ Apart(lid3)' /\ (scene # "chain" => Apart(lid2)') /\ scene' = scene
    <3>1. HeldDiffer' /\ IdleHoldsNone' /\ scene' = scene
      BY <1>0, <1>3, <2>2, SceneStays, HeldDifferStep, HeldSteps
    <3>2. Apart(lid3)'
      BY <1>0, <1>3, <2>2, StrangerStays
    <3>3. scene # "chain" => Apart(lid2)'
      BY <1>0, <1>3, <2>2, StrangerStays
    <3>. QED  BY <3>1, <3>2, <3>3
  <2>. QED  BY <2>1, <2>2 DEF Next
<1>. QED  BY <1>0, <1>1, <1>2, <1>4 DEF SceneInv

\* A phone number linked to two LIDs in turn: no alias names another alias, for any number of JIDs
\* beside the stranger whose contact tells the scenes apart (link_jids, jid_aliases).
THEOREM ChainHolds ==
    ASSUME Tasks = {tLive, tSide}, Duties = SceneDuties, lid2 \in Lids, lid3 \in Lids, n1 \in Names
    PROVE  SceneSpec /\ []InScene => []ChainIsSettled
<1>1. SceneInit => SceneInv
  BY SceneStart
<1>2. SceneInv /\ InScene /\ [Next]_vars => SceneInv'
  BY SceneStep
<1>3. SceneInv => ChainIsSettled
  BY DEF SceneInv, ChainIsSettled, SettledInv
<1>. QED  BY <1>1, <1>2, <1>3, PTL DEF SceneSpec

\* In that scene linked JIDs stay linked and a merge loses no name: its parts of LinksKeep.
THEOREM ChainKeeps ==
    ASSUME Tasks = {tLive, tSide}, Duties = SceneDuties, lid2 \in Lids, lid3 \in Lids, n1 \in Names
    PROVE  SceneSpec /\ []InScene => [][scene = "chain" => KeepsLinks /\ KeepsNames]_vars
<1>1. SceneInit => SceneInv
  BY SceneStart
<1>2. SceneInv /\ InScene /\ [Next]_vars => SceneInv' /\ [scene = "chain" => KeepsLinks /\ KeepsNames]_vars
  BY SceneStep
<1>. QED  BY <1>1, <1>2, PTL DEF SceneSpec

\* Both scenes of LinksKeep, for any names and messages: also where live traffic and the name pass link the same phone
\* number and LID at once, no merge loses a name, since whichever is later merges both rows again (link_jids).
THEOREM ScenesKeep ==
    ASSUME NEW p, NEW q, Jids = {p, q, lid2, lid3},
           Tasks = {tLive, tSide}, Duties = SceneDuties, lid2 \in Lids, lid3 \in Lids, n1 \in Names
    PROVE  SceneSpec /\ []InScene => LinksKeep
<1> DEFINE Keeps == (scene = "chain" => KeepsLinks) /\ (scene # "fill" => KeepsNames)
<1>1. SceneInit => SceneInv
  BY SceneStart
<1>2. ASSUME SceneInv, InScene, [Next]_vars PROVE SceneInv' /\ [Keeps]_vars
  <2>1. SceneInv' /\ (vars' # vars /\ scene = "chain" => KeepsLinks /\ KeepsNames)
    BY <1>2, SceneStep
  <2>2. ASSUME vars' # vars, scene = "names" PROVE KeepsNames
    <3>1. TypeOK /\ HeldDiffer /\ CallsFit /\ Apart(lid2) /\ Apart(lid3)
      BY <1>2, <2>2 DEF SceneInv
    <3>2. NoneAt("register")
      BY <1>2, <2>2, <3>1, NamesRegisterNone
    <3>3. Apart(lid2)' /\ Apart(lid3)'
      BY <1>2, <2>2, <3>1, SceneStep
    <3>4. PICK t \in Tasks : Resolve(t) \/ Statement(t) \/ Handler(t)
      BY <1>2, <2>2 DEF Next
    <3>. QED  BY <3>1, <3>2, <3>3, <3>4, PairKeepsNames
  <2>3. scene \in {"chain", "fill", "names"}
    BY <1>2 DEF SceneInv, SideCalls
  <2>. QED  BY <2>1, <2>2, <2>3
<1>. QED  BY <1>1, <1>2, PTL DEF SceneSpec, LinksKeep

(***************************************************************************)
(* Messages find their chat.                                               *)
(***************************************************************************)

\* A step that keeps rows and aliases keeps a list that waits.
KeepsChats == jid_aliases' = jid_aliases /\ \A j \in Jids : Exists(j) => chats'[j] # None

LEMMA CallsHaveJids ==
    ASSUME NEW calls \in Seq(CallType), NEW i \in 1..Len(calls)
    PROVE  /\ calls[i] \in CallType
           /\ calls[i].op \in Stored \cup Creates => calls[i].jid \in Jids
<1>1. calls[i] \in CallType
  BY ElementOfSeq
<1>. QED  BY <1>1, CallArguments DEF Stored, Creates, Stores

LEMMA WaitingStays ==
    ASSUME TypeOK, NEW calls \in Seq(CallType), ChatsFor(calls), KeepsChats
    PROVE  ChatsFor(calls)'
<1>1. \A i \in 1..Len(calls) : calls[i].op \in Stored => canonical_jid(calls[i].jid) \in Jids
  BY CallsHaveJids, CanonicalIsJid
<1>. QED  BY <1>1 DEF ChatsFor, ChatFor, KeepsChats, canonical_jid, Exists

\* The list behind a call that has run: a chat it makes is there now.
LEMMA TailWaits ==
    ASSUME TypeOK, NEW calls \in Seq(CallType), calls # <<>>, ChatsFor(calls), KeepsChats,
           calls[1].op \in Creates => Exists(canonical_jid(calls[1].jid))'
    PROVE  ChatsFor(Tail(calls))'
<1>1. PICK n : n = Len(calls)
  OBVIOUS
<1>2. n \in Nat \ {0}
  BY <1>1, EmptySeq
<1>3. PICK rest : rest = Tail(calls)
  OBVIOUS
<1>4. Len(rest) = n - 1 /\ \A i \in 1..(n - 1) : rest[i] = calls[i + 1]
  BY <1>1, <1>3, HeadTailProperties
<1>5. ASSUME NEW i \in 1..(n - 1), rest[i].op \in Stored
      PROVE  ChatFor(rest, i)'
  <2>1. i + 1 \in 1..n /\ rest[i] = calls[i + 1]
    BY <1>2, <1>4
  <2>2. ChatFor(calls, i + 1) /\ calls[i + 1].jid \in Jids
    BY <1>1, <1>5, <2>1, CallsHaveJids DEF ChatsFor
  <2>3. \A k \in 1..(i - 1) : k + 1 \in 1..((i + 1) - 1) /\ rest[k] = calls[k + 1]
    BY <1>2, <1>4
  <2>4. \A k \in 1..(i - 1) : /\ rest[k].op \notin Takes
                              /\ rest[i].op = "message" => rest[k].op # "history"
    BY <2>1, <2>2, <2>3 DEF ChatFor
  <2>5. (Exists(canonical_jid(rest[i].jid)) \/ \E k \in 1..(i - 1) :
            rest[k].op \in Creates /\ canonical_jid(rest[k].jid) = canonical_jid(rest[i].jid))'
    <3>1. CASE Exists(canonical_jid(calls[i + 1].jid))
      <4>1. canonical_jid(calls[i + 1].jid) \in Jids
        BY <2>2, CanonicalIsJid
      <4>. QED  BY <2>1, <3>1, <4>1 DEF KeepsChats, canonical_jid, Exists
    <3>2. ASSUME NEW k \in 1..((i + 1) - 1), calls[k].op \in Creates,
                 canonical_jid(calls[k].jid) = canonical_jid(calls[i + 1].jid)
          PROVE  (Exists(canonical_jid(rest[i].jid)) \/ \E m \in 1..(i - 1) :
                     rest[m].op \in Creates /\ canonical_jid(rest[m].jid) = canonical_jid(rest[i].jid))'
      <4>1. CASE k = 1
        BY <2>1, <3>2, <4>1 DEF KeepsChats, canonical_jid, Exists
      <4>2. CASE k # 1
        <5>1. k - 1 \in 1..(i - 1) /\ rest[k - 1] = calls[k]
          BY <1>2, <1>4, <3>2, <4>2
        <5>. QED  BY <2>1, <3>2, <5>1 DEF KeepsChats, canonical_jid
      <4>. QED  BY <4>1, <4>2
    <3>. QED  BY <2>2, <3>1, <3>2 DEF ChatFor
  <2>. QED  BY <2>4, <2>5 DEF ChatFor
<1>6. ChatsFor(rest)'
  BY <1>4, <1>5 DEF ChatsFor
<1>. QED  BY <1>3, <1>6

\* A list without messages waits for nothing.
LEMMA NothingWaits ==
    ASSUME NEW calls, \A i \in 1..Len(calls) : calls[i].op \notin Stored
    PROVE  ChatsFor(calls) /\ ChatsFor(calls)'
BY DEF ChatsFor

\* Behind a call that takes rows there are no messages.
LEMMA TakesLast ==
    ASSUME TypeOK, ChatComes, NEW t \in Tasks, ~Idle(t), Head1(t).op \in Takes
    PROVE  \A i \in 1..Len(Tail(todo[t])) : Tail(todo[t])[i].op \notin Stored
<1>1. todo[t] \in Seq(CallType) /\ todo[t] # <<>> /\ Len(todo[t]) \in Nat \ {0}
  BY BusyTask DEF Idle
<1>2. Len(Tail(todo[t])) = Len(todo[t]) - 1 /\ \A i \in 1..Len(Tail(todo[t])) : Tail(todo[t])[i] = todo[t][i + 1]
  BY <1>1, HeadTailProperties
<1>3. ASSUME NEW i \in 1..(Len(todo[t]) - 1), todo[t][i + 1].op \in Stored PROVE FALSE
  <2>1. i + 1 \in 1..Len(todo[t]) /\ 1 \in 1..((i + 1) - 1)
    BY <1>1
  <2>2. ChatFor(todo[t], i + 1)
    BY <1>3, <2>1 DEF ChatComes, ChatsFor
  <2>. QED  BY <2>1, <2>2 DEF ChatFor, Head1
<1>. QED  BY <1>1, <1>2, <1>3

\* A call that makes a chat: the row of its canonical id is there when it returns.
LEMMA CreatesRow ==
    ASSUME SettledInv, NEW t \in Tasks,
           record_message_activity(t) \/ set_chat_flag(t) \/ upsert_chat_from_history(t)
    PROVE  /\ held[t][1] = canonical_jid(Head1(t).jid)
           /\ held[t][1] \in Jids /\ Head1(t).jid \in Jids
           /\ chats'[held[t][1]] # None
<1>0. TypeOK /\ HeldIsCurrent
  BY DEF SettledInv
<1>1. PICK op \in {"activity", "refresh", "meta", "history"} : Ready(t, op)
  BY DEF record_message_activity, set_chat_flag, upsert_chat_from_history
<1>2. held[t][1] \in Jids /\ Len(held[t]) = 1
  <2>1. Resolves(op) = 1
    BY DEF Resolves
  <2>. QED  BY <1>0, <1>1, <2>1, OneResolved DEF Ready
<1>3. held[t][1] = canonical_jid(Head1(t).jid)
  BY <1>0, <1>2 DEF HeldIsCurrent, HeldRight, Head1
<1>4. Head1(t).jid \in Jids
  BY <1>0, <1>1, BusyTask, CallArguments DEF Ready
<1>5. CASE record_message_activity(t) \/ upsert_chat_from_history(t)
  <2>1. PICK row \in Row : chats' = Put(held[t][1], row)
    BY <1>0, <1>5, ActivityPutsRow, HistoryPutsRow
  <2>. QED  BY <1>0, <1>2, <1>3, <1>4, <2>1, NoRowIsNone DEF Put, TypeOK
<1>6. CASE set_chat_flag(t)
  <2>1. chats'[held[t][1]] # None
    BY <1>0, <1>2, <1>6, DeferredRowTyped, NoRowIsNone DEF set_chat_flag, Put, TypeOK, Exists
  <2>. QED  BY <1>2, <1>3, <1>4, <2>1
<1>. QED  BY <1>5, <1>6

\* The importer writes the resolved id into the calls of the conversation; the row is under it.
LEMMA HistoryWaits ==
    ASSUME NoBackfill, SettledInv, ChatComes, NEW t \in Tasks, upsert_chat_from_history(t)
    PROVE  ChatsFor(todo[t])'
<1>0. TypeOK /\ CallsFit /\ CanonicalIsSettled
  BY DEF SettledInv
<1>1. ~Idle(t) /\ Head1(t).op = "history"
  BY DEF upsert_chat_from_history, Ready
<1>2. PICK calls : calls = todo[t]
  OBVIOUS
<1>3. PICK h : h = held[t][1]
  OBVIOUS
<1>4. PICK n : n = Len(calls)
  OBVIOUS
<1>5. n \in Nat \ {0} /\ (\A i \in 1..n : calls[i] \in CallType) /\ calls[1].op = "history"
  BY <1>0, <1>1, <1>2, <1>4, BusyTask DEF Head1
<1>6. PICK rest : rest = [i \in 1..(n - 1) |->
                        IF calls[i + 1].op \in {"imported", "refresh"} THEN [calls[i + 1] EXCEPT !.jid = h]
                        ELSE calls[i + 1]]
  OBVIOUS
<1>7. todo'[t] = rest
  <2>1. todo' = [todo EXCEPT ![t] = [i \in 1..(Len(todo[t]) - 1) |->
                        LET c == todo[t][i + 1]
                        IN IF c.op \in {"imported", "refresh"} THEN [c EXCEPT !.jid = held[t][1]] ELSE c]]
    BY DEF upsert_chat_from_history, ReturnWith
  <2>2. todo' = [todo EXCEPT ![t] = rest]
    BY <1>2, <1>3, <1>4, <1>6, <2>1
  <2>. QED  BY <1>0, <2>2 DEF TypeOK
<1>8. h \in Jids /\ canonical_jid(h) = h /\ chats'[h] # None
  <2>1. /\ h = canonical_jid(Head1(t).jid)
        /\ h \in Jids /\ Head1(t).jid \in Jids
        /\ chats'[h] # None
    BY <1>3, CreatesRow
  <2>. QED  BY <1>0, <2>1 DEF CanonicalIsSettled
<1>9. jid_aliases' = jid_aliases
  BY DEF upsert_chat_from_history
<1>10. Len(rest) = n - 1
  BY <1>5, <1>6
<1>11. ASSUME NEW i \in 1..(n - 1), rest[i].op \in Stored
       PROVE  ChatFor(rest, i)'
  <2>1. \A k \in 1..(n - 1) : rest[k].op = calls[k + 1].op
    <3>1. \A c \in CallType : [c EXCEPT !.jid = h].op = c.op
      BY DEF CallType
    <3>. QED  BY <1>5, <1>6, <3>1
  <2>2. i + 1 \in 1..n /\ calls[i + 1].op \in Stored /\ 1 \in 1..((i + 1) - 1)
    BY <1>5, <1>11, <2>1
  <2>3. ChatFor(calls, i + 1)
    BY <1>2, <1>4, <2>2 DEF ChatComes, ChatsFor
  <2>4. calls[i + 1].op = "imported"
    BY <1>5, <2>2, <2>3 DEF ChatFor, Stored
  <2>5. rest[i].jid = h
    <3>1. \A c \in CallType : [c EXCEPT !.jid = h].jid = h
      BY DEF CallType
    <3>. QED  BY <1>5, <1>6, <2>2, <2>4, <3>1
  <2>6. Exists(canonical_jid(rest[i].jid))'
    BY <1>8, <1>9, <2>5 DEF Exists, canonical_jid
  <2>7. \A k \in 1..(i - 1) : rest[k].op \notin Takes
    <3>1. \A k \in 1..(i - 1) : k \in 1..(n - 1) /\ k + 1 \in 1..((i + 1) - 1)
      BY <1>5
    <3>. QED  BY <2>1, <2>3, <3>1 DEF ChatFor
  <2>8. rest[i].op # "message"
    BY <2>1, <2>4
  <2>. QED  BY <2>6, <2>7, <2>8 DEF ChatFor
<1>12. ChatsFor(rest)'
  BY <1>10, <1>11 DEF ChatsFor
<1>. QED  BY <1>7, <1>12 DEF ChatsFor, ChatFor

\* A message at the head of a list finds its chat.
LEMMA HeadFinds ==
    ASSUME SettledInv, ChatComes, NEW t \in Tasks, NEW op \in Stored, Ready(t, op)
    PROVE  Exists(held[t][1])
<1>0. TypeOK /\ HeldIsCurrent
  BY DEF SettledInv
<1>1. ~Idle(t) /\ Head1(t).op = op /\ Len(held[t]) = 1
  <2>1. Resolves(op) = 1
    BY DEF Resolves, Stored
  <2>. QED  BY <2>1 DEF Ready
<1>2. Len(todo[t]) \in Nat \ {0}
  BY <1>0, <1>1, BusyTask
<1>3. ChatFor(todo[t], 1)
  BY <1>1, <1>2 DEF ChatComes, ChatsFor, Head1
<1>4. Exists(canonical_jid(todo[t][1].jid))
  BY <1>3 DEF ChatFor
<1>. QED  BY <1>0, <1>1, <1>4 DEF HeldIsCurrent, HeldRight

LEMMA RestFromTwo ==
    ASSUME NEW calls \in Seq(CallType), calls # <<>>
    PROVE  SubSeq(calls, 2, Len(calls)) = Tail(calls)
BY HeadTailProperties, EmptySeq

LEMMA MessageWaits ==
    ASSUME SettledInv, ChatComes, MessagesFindTheirChat, NEW t \in Tasks, upsert_message(t)
    PROVE  Return(t) /\ MessagesFindTheirChat'
<1>0. TypeOK
  BY DEF SettledInv
<1>1. PICK op \in Stores : Ready(t, op)
  BY DEF upsert_message
<1>2. ~Idle(t) /\ Head1(t).op = op
  BY <1>1 DEF Ready
<1>3. CASE op \in Stored
  <2>1. Exists(held[t][1])
    BY <1>1, <1>3, HeadFinds
  <2>. QED  BY <2>1 DEF upsert_message, MessagesFindTheirChat
<1>4. CASE op \notin Stored
  <2>1. op = "placeholder"
    BY <1>4 DEF Stores, Stored
  <2>2. todo[t] \in Seq(CallType) /\ todo[t] # <<>>
    BY <1>0, <1>2, BusyTask DEF Idle
  <2>3. SubSeq(todo[t], 2, Len(todo[t])) = Tail(todo[t])
    BY <2>2, RestFromTwo
  <2>4. /\ Return(t) \/ ReturnWith(t, SubSeq(todo[t], 2, Len(todo[t])))
        /\ refused' \in {refused, refused \cup {"placeholder"}}
    BY <1>2, <2>1 DEF upsert_message
  <2>. QED  BY <2>3, <2>4 DEF Return, MessagesFindTheirChat
<1>. QED  BY <1>3, <1>4

\* The list of a task after a call that returns.
LEMMA ReturnWaits ==
    ASSUME TypeOK, ChatComes, NEW t \in Tasks, ~Idle(t), Return(t), KeepsChats,
           Head1(t).op \in Creates => chats'[canonical_jid(Head1(t).jid)] # None
    PROVE  ChatsFor(todo[t])'
<1>1. todo[t] \in Seq(CallType) /\ todo[t] # <<>> /\ ChatsFor(todo[t])
  BY BusyTask DEF Idle, ChatComes
<1>2. PICK calls : calls = todo[t]
  OBVIOUS
<1>3. calls[1].op \in Creates => Exists(canonical_jid(calls[1].jid))'
  BY <1>2 DEF Head1, KeepsChats, canonical_jid, Exists
<1>4. ChatsFor(Tail(calls))'
  BY <1>1, <1>2, <1>3, TailWaits
<1>5. todo'[t] = Tail(calls)
  BY <1>2 DEF Return, ReturnWith, TypeOK
<1>. QED  BY <1>4, <1>5 DEF ChatsFor, ChatFor

\* The list of a task behind a call that takes: no messages, whatever calls take its place.
LEMMA TakesWait ==
    ASSUME TypeOK, ChatComes, NEW t \in Tasks, ~Idle(t), Head1(t).op \in Takes,
           NEW first \in Seq(CallType), \A i \in 1..Len(first) : first[i].op \notin Stored,
           todo'[t] = first \o Tail(todo[t])
    PROVE  ChatsFor(todo[t])'
<1>1. PICK rest : rest = Tail(todo[t])
  OBVIOUS
<1>2. rest \in Seq(CallType) /\ \A i \in 1..Len(rest) : rest[i].op \notin Stored
  BY <1>1, BusyTask, TakesLast
<1>3. /\ Len(first \o rest) = Len(first) + Len(rest) /\ Len(first) \in Nat /\ Len(rest) \in Nat
      /\ \A i \in 1..Len(first) + Len(rest) : (first \o rest)[i] = IF i <= Len(first) THEN first[i] ELSE rest[i - Len(first)]
  BY <1>2, ConcatProperties, LenProperties
<1>4. \A i \in 1..Len(first \o rest) : (first \o rest)[i].op \notin Stored
  BY <1>2, <1>3
<1>5. PICK calls : calls = first \o rest
  OBVIOUS
<1>6. ChatsFor(calls)'
  BY <1>4, <1>5, NothingWaits
<1>. QED  BY <1>1, <1>5, <1>6 DEF ChatsFor, ChatFor

LEMMA StatementWaits ==
    ASSUME NoBackfill, SettledInv, ChatComes, MessagesFindTheirChat, NEW t \in Tasks, Statement(t)
    PROVE  ChatsFor(todo[t])' /\ MessagesFindTheirChat'
<1>0. TypeOK /\ CallsFit
  BY DEF SettledInv
<1>1. ~Idle(t) /\ Head1(t) \in CallType
  <2>1. ~Idle(t)
    BY DEF Statement, record_message_activity, set_chat_flag, mark_chat, upsert_message,
       upsert_chat_from_history, rename_chat, apply_contact_name, apply_push_name, link_jids,
       merge_group_lid_twins, contact_backfill_identity, register_jid_alias, upsert_chat_from_contact,
       empty_contact_chats, delete_empty_contact_chats, delete_chat, Ready
  <2>. QED  BY <1>0, <2>1, BusyTask
<1>2. MessagesFindTheirChat'
  <2>1. CASE upsert_message(t)
    BY <2>1, MessageWaits
  <2>2. CASE ~upsert_message(t)
    <3>1. refused' = refused
      BY <2>2 DEF Statement, record_message_activity, set_chat_flag, mark_chat,
       upsert_chat_from_history, rename_chat, apply_contact_name, apply_push_name, link_jids,
       merge_group_lid_twins, contact_backfill_identity, register_jid_alias, upsert_chat_from_contact,
       empty_contact_chats, delete_empty_contact_chats, delete_chat
    <3>. QED  BY <3>1 DEF MessagesFindTheirChat
  <2>. QED  BY <2>1, <2>2
<1>3. CASE upsert_message(t)
  <2>1. Return(t) /\ Head1(t).op \in Stores /\ KeepsChats
    BY <1>3, MessageWaits DEF upsert_message, Ready, KeepsChats, Exists
  <2>2. Head1(t).op \notin Creates
    BY <2>1 DEF Creates, Stores
  <2>. QED  BY <1>0, <1>1, <1>2, <2>1, <2>2, ReturnWaits
<1>4. CASE link_jids(t) \/ delete_empty_contact_chats(t) \/ delete_chat(t)
  <2>1. Head1(t).op \in Takes /\ Return(t)
    BY <1>4 DEF link_jids, delete_empty_contact_chats, delete_chat, Ready, Takes, Links
  <2>2. PICK rest : rest = Tail(todo[t])
    OBVIOUS
  <2>3. ChatsFor(rest)'
    BY <1>0, <1>1, <2>1, <2>2, TakesLast, NothingWaits
  <2>4. todo'[t] = rest
    BY <1>0, <2>1, <2>2 DEF Return, ReturnWith, TypeOK
  <2>. QED  BY <1>2, <2>3, <2>4 DEF ChatsFor, ChatFor
<1>5. ASSUME ~upsert_message(t), ~link_jids(t), ~delete_empty_contact_chats(t), ~delete_chat(t)
      PROVE  KeepsChats
  BY <1>0, <1>5, RowsStay, OnlyLinksAlias, NoBackfillCalls DEF KeepsRows, KeepsChats
<1>6. CASE record_message_activity(t) \/ set_chat_flag(t)
  <2>1. Return(t) /\ KeepsChats
    <3>1. ~upsert_message(t) /\ ~link_jids(t) /\ ~delete_empty_contact_chats(t) /\ ~delete_chat(t)
      <4>1. Head1(t).op \in {"activity", "refresh", "meta"}
        BY <1>6 DEF record_message_activity, set_chat_flag, Ready
      <4>. QED  BY <4>1 DEF upsert_message, link_jids, delete_empty_contact_chats, delete_chat, Ready, Stores
    <3>. QED  BY <1>5, <1>6, <3>1 DEF record_message_activity, set_chat_flag
  <2>2. chats'[canonical_jid(Head1(t).jid)] # None
    BY <1>6, CreatesRow
  <2>. QED  BY <1>0, <1>1, <1>2, <2>1, <2>2, ReturnWaits
<1>7. CASE upsert_chat_from_history(t)
  BY <1>2, <1>7, HistoryWaits
<1>8. CASE rename_chat(t) \/ apply_contact_name(t) \/ apply_push_name(t) \/ mark_chat(t, "read") \/ mark_chat(t, "unread")
  <2>1. Head1(t).op \in {"rename", "name", "push", "read", "unread"} /\ Return(t)
    BY <1>8 DEF rename_chat, apply_contact_name, apply_push_name, mark_chat, Ready
  <2>2. ~upsert_message(t) /\ ~link_jids(t) /\ ~delete_empty_contact_chats(t) /\ ~delete_chat(t)
    BY <2>1 DEF upsert_message, link_jids, delete_empty_contact_chats, delete_chat, Ready, Stores
  <2>3. Head1(t).op \notin Creates
    BY <2>1 DEF Creates
  <2>. QED  BY <1>0, <1>1, <1>2, <1>5, <2>1, <2>2, <2>3, ReturnWaits
<1>9. CASE contact_backfill_identity(t) \/ register_jid_alias(t) \/ upsert_chat_from_contact(t)
  <2>1. Head1(t).op \in {"backfill", "register", "insert"}
    BY <1>9 DEF contact_backfill_identity, register_jid_alias, upsert_chat_from_contact, Ready
  <2>. QED  BY <1>0, <1>1, <2>1, FitTail DEF CallFits, NoBackfill
<1>10. CASE empty_contact_chats(t)
  <2> DEFINE S == {j \in Jids : EmptyContactChat(j)}
  <2>1. S \in SUBSET Jids /\ Head1(t).op = "select" /\ ReturnWith(t, <<Call("sweep", None, S)>> \o Tail(todo[t]))
    BY <1>10 DEF empty_contact_chats, Ready
  <2> HIDE DEF S
  <2>2. PICK first : first = <<Call("sweep", None, S)>>
    OBVIOUS
  <2>3. Call("sweep", None, S) \in CallType /\ Call("sweep", None, S).op = "sweep"
    BY <2>1, MakeCalls DEF Call
  <2>4. first \in Seq(CallType) /\ \A i \in 1..Len(first) : first[i].op \notin Stored
    BY <2>2, <2>3 DEF Stored
  <2>5. todo'[t] = first \o Tail(todo[t])
    BY <1>0, <2>1, <2>2 DEF ReturnWith, TypeOK
  <2>. QED  BY <1>0, <1>1, <1>2, <2>1, <2>4, <2>5, TakesWait DEF Takes
<1>11. CASE merge_group_lid_twins(t)
  <2>1. CASE Ready(t, "twins")
    <3> DEFINE S == {g \in GroupLids : Exists(g)}
    <3>1. Head1(t).op = "twins"
      BY <2>1 DEF Ready
    <3>2. PICK order \in Orders(S) :
             ReturnWith(t, [i \in DOMAIN order |-> Call("twin", order[i], None)] \o Tail(todo[t]))
      BY <1>11, <3>1 DEF merge_group_lid_twins, Ready
    <3>3. IsFiniteSet(S)
      BY IdentityAssumption, FS_Subset DEF Jids
    <3>4. /\ DOMAIN order = 1..Cardinality(S) /\ Cardinality(S) \in Nat
          /\ \A i \in DOMAIN order : order[i] \in S
      <4> HIDE DEF S
      <4>. QED  BY <3>2, <3>3, OrdersAreSequences
    <3>5. PICK twins : twins = [i \in DOMAIN order |-> Call("twin", order[i], None)]
      OBVIOUS
    <3>6. twins \in [1..Cardinality(S) -> CallType]
      BY <3>4, <3>5, MakeCalls
    <3>7. twins \in Seq(CallType) /\ Len(twins) = Cardinality(S)
      <4> HIDE DEF S
      <4>. QED  BY <3>4, <3>6, FunctionIsSequence, LenProperties
    <3>8. \A i \in 1..Len(twins) : twins[i].op \notin Stored
      <4>1. \A j : Call("twin", j, None).op = "twin"
        BY DEF Call
      <4>. QED  BY <3>4, <3>5, <3>7, <4>1 DEF Stored
    <3>9. todo'[t] = twins \o Tail(todo[t])
      BY <1>0, <3>2, <3>5 DEF ReturnWith, TypeOK
    <3>. QED  BY <1>0, <1>1, <1>2, <3>1, <3>7, <3>8, <3>9, TakesWait DEF Takes, Links
  <2>2. CASE Ready(t, "twin")
    <3>1. Head1(t).op = "twin" /\ Head1(t).jid \in GroupLids /\ Twin[Head1(t).jid] \in Groups
      BY <1>1, <2>2, CallArguments, IdentityAssumption DEF Ready
    <3>2. PICK link : link = Call("link", Head1(t).jid, Twin[Head1(t).jid])
      OBVIOUS
    <3>3. link \in CallType /\ link.op = "link"
      <4>1. Head1(t).jid \in Jids /\ Twin[Head1(t).jid] \in Jids
        BY <3>1 DEF Jids
      <4>2. link \in CallType
        BY <3>2, <4>1, MakeCalls
      <4>. QED  BY <3>2, <4>2 DEF Call
    <3>4. \/ ReturnWith(t, <<link>> \o Tail(todo[t]))
          \/ ReturnWith(t, Tail(todo[t]))
      BY <1>11, <3>1, <3>2 DEF merge_group_lid_twins, Ready, Return
    <3>5. PICK first : first = <<link>>
      OBVIOUS
    <3>6. first \in Seq(CallType) /\ \A i \in 1..Len(first) : first[i].op \notin Stored
      BY <3>3, <3>5 DEF Stored
    <3>7. CASE ReturnWith(t, <<link>> \o Tail(todo[t]))
      <4>1. todo'[t] = first \o Tail(todo[t])
        BY <1>0, <3>5, <3>7 DEF ReturnWith, TypeOK
      <4>. QED  BY <1>0, <1>1, <1>2, <3>1, <3>6, <4>1, TakesWait DEF Takes, Links
    <3>8. CASE ReturnWith(t, Tail(todo[t]))
      <4>1. PICK rest : rest = Tail(todo[t])
        OBVIOUS
      <4>2. ChatsFor(rest)'
        BY <1>0, <1>1, <3>1, <4>1, TakesLast, NothingWaits DEF Takes, Links
      <4>3. todo'[t] = rest
        BY <1>0, <3>8, <4>1 DEF ReturnWith, TypeOK
      <4>. QED  BY <1>2, <4>2, <4>3 DEF ChatsFor, ChatFor
    <3>. QED  BY <3>4, <3>7, <3>8
  <2>. QED  BY <1>11, <2>1, <2>2 DEF merge_group_lid_twins
<1>. QED  BY <1>3, <1>4, <1>6, <1>7, <1>8, <1>9, <1>10, <1>11 DEF Statement

\* Lists of handlers that store no message in a chat, and how they are put together.
NoneStored(calls) == \A i \in 1..Len(calls) : calls[i].op \notin Stored

LEMMA NoneStoredLiteral ==
    /\ NoneStored(<<>>)
    /\ \A a : a.op \notin Stored => NoneStored(<<a>>)
<1>1. Len(<<>>) = 0
  BY EmptySeq
<1>. QED  BY <1>1 DEF NoneStored

LEMMA NoneStoredConcat ==
    ASSUME NEW a \in Seq(CallType), NEW b \in Seq(CallType), NoneStored(a), NoneStored(b)
    PROVE  NoneStored(a \o b)
<1>1. /\ Len(a \o b) = Len(a) + Len(b) /\ Len(a) \in Nat /\ Len(b) \in Nat
      /\ \A i \in 1..Len(a) + Len(b) : (a \o b)[i] = IF i <= Len(a) THEN a[i] ELSE b[i - Len(a)]
  BY ConcatProperties, LenProperties
<1>. QED  BY <1>1 DEF NoneStored

LEMMA StartWaits ==
    ASSUME TypeOK, NEW t \in Tasks, NEW calls \in Seq(CallType), Start(t, calls), ChatsFor(calls)
    PROVE  ChatsFor(todo[t])'
<1>1. KeepsChats
  BY DEF Start, tables, KeepsChats, Exists
<1>2. ChatsFor(calls)'
  BY <1>1, WaitingStays
<1>3. todo'[t] = calls
  BY DEF Start, TypeOK
<1>. QED  BY <1>2, <1>3 DEF ChatsFor, ChatFor

LEMMA StartsPlain ==
    ASSUME TypeOK, NEW t \in Tasks, NEW calls \in Seq(CallType), Start(t, calls), NoneStored(calls)
    PROVE  ChatsFor(todo[t])'
BY NothingWaits, StartWaits DEF NoneStored

\* The list of a live message.
LEMMA LiveList ==
    ASSUME NEW a, NEW b, NEW m, a.op \in {"activity", "refresh", "meta"}, b.op \in {"activity", "refresh", "meta"},
           m.op = "message", a.jid = m.jid
    PROVE  ChatsFor(<<a, b, m>>)
<1>1. PICK calls : calls = <<a, b, m>>
  OBVIOUS
<1>2. Len(calls) = 3 /\ calls[1] = a /\ calls[2] = b /\ calls[3] = m
  BY <1>1
<1>3. ChatFor(calls, 3)
  <2>1. 1 \in 1..(3 - 1) /\ calls[1].op \in Creates /\ canonical_jid(calls[1].jid) = canonical_jid(calls[3].jid)
    BY <1>2 DEF Creates
  <2>2. \A k \in 1..(3 - 1) : calls[k].op \notin Takes /\ calls[k].op # "history"
    BY <1>2 DEF Takes, Links
  <2>. QED  BY <2>1, <2>2 DEF ChatFor
<1>4. ChatsFor(calls)
  BY <1>2, <1>3 DEF ChatsFor, Stored
<1>. QED  BY <1>1, <1>4

\* The list of an imported conversation.
LEMMA ImportList ==
    ASSUME NEW a \in CallType, NEW m \in CallType, NEW b \in CallType, NEW c \in CallType,
           a.op = "history", m.op = "imported", a.jid = m.jid, b.op \notin Stored, c.op \notin Stored
    PROVE  ChatsFor(<<a>> \o <<m, b>> \o <<c>>)
<1>1. PICK first : first = <<a>> \o <<m, b>>
  OBVIOUS
<1>2. PICK calls : calls = first \o <<c>>
  OBVIOUS
<1>3. /\ first \in Seq(CallType) /\ Len(first) = 3
      /\ first[1] = a /\ first[2] = m /\ first[3] = b
  <2>1. <<a>> \in Seq(CallType) /\ <<m, b>> \in Seq(CallType) /\ Len(<<a>>) = 1 /\ Len(<<m, b>>) = 2
    OBVIOUS
  <2>. QED  BY <1>1, <2>1, ConcatProperties
<1>4. /\ Len(calls) = 4
      /\ calls[1] = a /\ calls[2] = m /\ calls[3] = b /\ calls[4] = c
  <2>1. PICK last : last = <<c>>
    OBVIOUS
  <2>2. last \in Seq(CallType) /\ Len(last) = 1 /\ last[1] = c
    BY <2>1
  <2>a. /\ Len(calls) = Len(first) + Len(last)
        /\ \A i \in 1..Len(first) + Len(last) : calls[i] = IF i <= Len(first) THEN first[i] ELSE last[i - Len(first)]
    BY <1>2, <1>3, <2>1, <2>2, ConcatProperties
  <2>3. /\ Len(calls) = 3 + 1
        /\ \A i \in 1..(3 + 1) : calls[i] = IF i <= 3 THEN first[i] ELSE last[i - 3]
    BY <1>3, <2>2, <2>a
  <2>4. calls[1] = first[1] /\ calls[2] = first[2] /\ calls[3] = first[3] /\ calls[4] = last[1]
    BY <2>3
  <2>. QED  BY <1>3, <2>2, <2>3, <2>4
<1>5. ChatFor(calls, 2)
  <2>1. 1 \in 1..(2 - 1) /\ calls[1].op \in Creates /\ canonical_jid(calls[1].jid) = canonical_jid(calls[2].jid)
    BY <1>4 DEF Creates
  <2>2. \A k \in 1..(2 - 1) : calls[k].op \notin Takes /\ calls[2].op # "message"
    BY <1>4 DEF Takes, Links
  <2>. QED  BY <2>1, <2>2 DEF ChatFor
<1>6. ASSUME NEW i \in 1..4, calls[i].op \in Stored PROVE ChatFor(calls, i)
  <2>1. i = 2
    BY <1>4, <1>6 DEF Stored
  <2>. QED  BY <1>5, <2>1
<1>7. ChatsFor(calls)
  BY <1>4, <1>6 DEF ChatsFor
<1>. QED  BY <1>1, <1>2, <1>7

LEMMA HandlerWaits ==
    ASSUME NoBackfill, TypeOK, NEW t \in Tasks, Handler(t)
    PROVE  ChatsFor(todo[t])'
<1>0. \A op \in {"activity", "refresh", "history", "name", "push", "rename", "meta", "read", "unread", "delete",
                 "link", "twins", "select", "placeholder"} : \A j, arg : Call(op, j, arg).op \notin Stored
  BY DEF Call, Stored
<1>1. CASE handle_inbound_message(t)
  <2>1. PICK j \in Jids, m \in Msgs, hint \in Names \cup {None}, bump \in {"activity", "refresh"} :
           LET c == canonical_jid(j)
           IN Start(t, <<Call(bump, c, hint), Call("meta", c, None), Call("message", c, m)>>)
    BY <1>1 DEF handle_inbound_message
  <2>2. PICK c \in Jids : c = canonical_jid(j)
    BY CanonicalIsJid
  <2>3. PICK calls : calls = <<Call(bump, c, hint), Call("meta", c, None), Call("message", c, m)>>
    OBVIOUS
  <2>4. /\ Call(bump, c, hint) \in CallType /\ Call("meta", c, None) \in CallType
        /\ Call("message", c, m) \in CallType
    BY MakeCalls DEF Stores
  <2>5. calls \in Seq(CallType)
    BY <2>3, <2>4
  <2>6. ChatsFor(calls)
    <3>1. /\ Call(bump, c, hint).op = bump /\ Call(bump, c, hint).jid = c
          /\ Call("meta", c, None).op = "meta"
          /\ Call("message", c, m).op = "message" /\ Call("message", c, m).jid = c
      BY DEF Call
    <3>. QED  BY <2>3, <3>1, LiveList
  <2>7. Start(t, calls)
    BY <2>1, <2>2, <2>3
  <2>. QED  BY <2>5, <2>6, <2>7, StartWaits
<1>2. CASE send_text(t)
  <2>1. PICK j \in Jids, m \in Msgs :
           Start(t, <<Call("meta", j, None), Call("refresh", j, None), Call("message", j, m)>>)
    BY <1>2 DEF send_text
  <2>2. PICK calls : calls = <<Call("meta", j, None), Call("refresh", j, None), Call("message", j, m)>>
    OBVIOUS
  <2>3. /\ Call("meta", j, None) \in CallType /\ Call("refresh", j, None) \in CallType
        /\ Call("message", j, m) \in CallType
    BY MakeCalls DEF Stores
  <2>4. calls \in Seq(CallType)
    BY <2>2, <2>3
  <2>5. ChatsFor(calls)
    <3>1. /\ Call("meta", j, None).op = "meta" /\ Call("meta", j, None).jid = j
          /\ Call("refresh", j, None).op = "refresh"
          /\ Call("message", j, m).op = "message" /\ Call("message", j, m).jid = j
      BY DEF Call
    <3>. QED  BY <2>2, <3>1, LiveList
  <2>. QED  BY <2>1, <2>2, <2>4, <2>5, StartWaits
<1>3. CASE handle_undecryptable(t)
  <2>1. PICK j \in Jids, m \in Msgs, bump \in {"activity", "refresh"} :
           LET c == canonical_jid(j)
           IN Start(t, (IF messages[m] = None THEN <<Call("placeholder", c, m)>> ELSE <<>>)
                       \o <<Call(bump, c, None)>>)
    BY <1>3 DEF handle_undecryptable
  <2>2. PICK c \in Jids : c = canonical_jid(j)
    BY CanonicalIsJid
  <2>3. PICK first : first = IF messages[m] = None THEN <<Call("placeholder", c, m)>> ELSE <<>>
    OBVIOUS
  <2>4. Call("placeholder", c, m) \in CallType /\ Call(bump, c, None) \in CallType
    BY MakeCalls DEF Stores
  <2>5. first \in Seq(CallType) /\ <<Call(bump, c, None)>> \in Seq(CallType)
    BY <2>3, <2>4
  <2>6. NoneStored(first) /\ NoneStored(<<Call(bump, c, None)>>)
    BY <1>0, <2>3, NoneStoredLiteral
  <2>7. PICK calls : calls = first \o <<Call(bump, c, None)>>
    OBVIOUS
  <2>8. calls \in Seq(CallType) /\ NoneStored(calls) /\ Start(t, calls)
    BY <2>1, <2>2, <2>3, <2>5, <2>6, <2>7, NoneStoredConcat, ConcatProperties
  <2>. QED  BY <2>8, StartsPlain
<1>4. CASE import_history_sync(t)
  <2>1. PICK j \in Jids, n \in Names \cup {None}, push \in Names \cup {None}, m \in Msgs \cup {None} :
           Start(t, <<Call("history", j, n)>>
                    \o (IF m = None THEN <<>> ELSE <<Call("imported", j, m), Call("refresh", j, push)>>)
                    \o <<Call("twins", None, None)>>)
    BY <1>4 DEF import_history_sync
  <2>2. /\ Call("history", j, n) \in CallType /\ Call("refresh", j, push) \in CallType
        /\ Call("twins", None, None) \in CallType
    BY MakeCalls
  <2>3. CASE m = None
    <3>1. PICK calls : calls = <<Call("history", j, n)>> \o <<>> \o <<Call("twins", None, None)>>
      OBVIOUS
    <3>2. <<Call("history", j, n)>> \in Seq(CallType) /\ <<Call("twins", None, None)>> \in Seq(CallType) /\ <<>> \in Seq(CallType)
      BY <2>2
    <3>3. NoneStored(<<Call("history", j, n)>>) /\ NoneStored(<<Call("twins", None, None)>>) /\ NoneStored(<<>>)
      BY <1>0, NoneStoredLiteral
    <3>4. PICK first : first = <<Call("history", j, n)>> \o <<>>
      OBVIOUS
    <3>5. first \in Seq(CallType) /\ NoneStored(first)
      BY <3>2, <3>3, <3>4, NoneStoredConcat, ConcatProperties
    <3>6. calls \in Seq(CallType) /\ NoneStored(calls)
      BY <3>1, <3>2, <3>3, <3>4, <3>5, NoneStoredConcat, ConcatProperties
    <3>7. Start(t, calls)
      BY <2>1, <2>3, <3>1
    <3>. QED  BY <3>6, <3>7, StartsPlain
  <2>4. CASE m # None
    <3>1. PICK calls : calls = <<Call("history", j, n)>> \o <<Call("imported", j, m), Call("refresh", j, push)>>
                               \o <<Call("twins", None, None)>>
      OBVIOUS
    <3>2. Call("imported", j, m) \in CallType
      BY <2>4, MakeCalls DEF Stores
    <3>3. ChatsFor(calls)
      <4>1. /\ Call("history", j, n).op = "history" /\ Call("history", j, n).jid = j
            /\ Call("imported", j, m).op = "imported" /\ Call("imported", j, m).jid = j
        BY DEF Call
      <4>. QED  BY <1>0, <2>2, <3>1, <3>2, <4>1, ImportList
    <3>4. calls \in Seq(CallType)
      <4>1. /\ <<Call("history", j, n)>> \in Seq(CallType) /\ <<Call("twins", None, None)>> \in Seq(CallType)
            /\ <<Call("imported", j, m), Call("refresh", j, push)>> \in Seq(CallType)
        BY <2>2, <3>2
      <4>2. <<Call("history", j, n)>> \o <<Call("imported", j, m), Call("refresh", j, push)>> \in Seq(CallType)
        BY <4>1, ConcatProperties
      <4>. QED  BY <3>1, <4>1, <4>2, ConcatProperties
    <3>5. Start(t, calls)
      BY <2>1, <2>4, <3>1
    <3>. QED  BY <3>3, <3>4, <3>5, StartWaits
  <2>. QED  BY <2>3, <2>4
<1>5. CASE handle_contact_update(t)
  <2>1. PICK p \in Pns, l \in Lids, n \in Names :
           \E targets \in {<<p>>, <<l>>, <<p, l>>, <<l, p>>} :
              Start(t, (IF Len(targets) = 2 THEN <<Call("link", targets[1], targets[2])>> ELSE <<>>)
                       \o [i \in DOMAIN targets |-> Call("name", targets[i], n)])
    BY <1>5 DEF handle_contact_update
  <2>2. PICK targets \in {<<p>>, <<l>>, <<p, l>>, <<l, p>>} :
           Start(t, (IF Len(targets) = 2 THEN <<Call("link", targets[1], targets[2])>> ELSE <<>>)
                    \o [i \in DOMAIN targets |-> Call("name", targets[i], n)])
    BY <2>1
  <2>3. targets \in Seq(Jids) /\ Len(targets) \in Nat /\ DOMAIN targets = 1..Len(targets)
    <3>1. p \in Jids /\ l \in Jids
      BY DEF Jids
    <3>2. <<p>> \in Seq(Jids) /\ <<l>> \in Seq(Jids) /\ <<p, l>> \in Seq(Jids) /\ <<l, p>> \in Seq(Jids)
      BY <3>1
    <3>3. targets \in Seq(Jids)
      BY <3>2
    <3>. QED  BY <3>3, LenProperties
  <2>4. PICK links : links = IF Len(targets) = 2 THEN <<Call("link", targets[1], targets[2])>> ELSE <<>>
    OBVIOUS
  <2>5. links \in Seq(CallType) /\ NoneStored(links)
    <3>1. Len(targets) = 2 => Call("link", targets[1], targets[2]) \in CallType
      BY <2>3, ElementOfSeq, MakeCalls, SMTT(30)
    <3>2. CASE Len(targets) = 2
      BY <1>0, <2>4, <3>1, <3>2, NoneStoredLiteral
    <3>3. CASE Len(targets) # 2
      <4>1. links = <<>> /\ <<>> \in Seq(CallType)
        BY <2>4, <3>3
      <4>. QED  BY <4>1, NoneStoredLiteral
    <3>. QED  BY <3>2, <3>3
  <2>6. PICK names : names = [i \in DOMAIN targets |-> Call("name", targets[i], n)]
    OBVIOUS
  <2>7. names \in Seq(CallType) /\ NoneStored(names)
    <3>1. \A i \in DOMAIN targets : Call("name", targets[i], n) \in CallType
      BY <2>3, ElementOfSeq, MakeCalls
    <3>2. names \in [1..Len(targets) -> CallType] /\ DOMAIN names = 1..Len(targets)
      BY <2>3, <2>6, <3>1
    <3>3. names \in Seq(CallType)
      BY <2>3, <3>2, FunctionIsSequence
    <3>4. DOMAIN names = 1..Len(names)
      BY <3>3, LenProperties
    <3>5. \A i \in DOMAIN names : names[i].op \notin Stored
      <4>1. \A i \in DOMAIN names : names[i] = Call("name", targets[i], n)
        BY <2>6
      <4>. QED  BY <1>0, <4>1
    <3>. QED  BY <3>3, <3>4, <3>5 DEF NoneStored
  <2>8. PICK calls : calls = links \o names
    OBVIOUS
  <2>9. calls \in Seq(CallType) /\ NoneStored(calls)
    BY <2>5, <2>7, <2>8, NoneStoredConcat, ConcatProperties
  <2>10. Start(t, calls)
    BY <2>2, <2>4, <2>6, <2>8
  <2>. QED  BY <2>9, <2>10, StartsPlain
<1>6. CASE handle_push_name(t) \/ handle_flag_patch(t) \/ handle_group_subject(t) \/ handle_delete_chat(t) \/ sweep(t)
  <2>1. \E call \in CallType : call.op \notin Stored /\ Start(t, <<call>>)
    <3>1. CASE handle_push_name(t)
      <4>1. PICK j \in Pns \cup Lids, n \in Names : Start(t, <<Call("push", j, n)>>)
        BY <3>1 DEF handle_push_name
      <4>2. Call("push", j, n) \in CallType
        BY MakeCalls DEF Jids
      <4>. QED  BY <1>0, <4>1, <4>2
    <3>2. CASE handle_flag_patch(t)
      <4>1. PICK j \in Jids, op \in {"meta", "read", "unread"} : Start(t, <<Call(op, canonical_jid(j), None)>>)
        BY <3>2 DEF handle_flag_patch
      <4>2. Call(op, canonical_jid(j), None) \in CallType
        BY CanonicalIsJid, MakeCalls
      <4>. QED  BY <1>0, <4>1, <4>2
    <3>3. CASE handle_group_subject(t)
      <4>1. PICK g \in Groups \cup GroupLids, n \in Names : Start(t, <<Call("rename", canonical_jid(g), n)>>)
        BY <3>3 DEF handle_group_subject
      <4>2. canonical_jid(g) \in Jids
        BY CanonicalIsJid DEF Jids
      <4>3. Call("rename", canonical_jid(g), n) \in CallType
        BY <4>2, MakeCalls
      <4>. QED  BY <1>0, <4>1, <4>3
    <3>4. CASE handle_delete_chat(t)
      <4>1. PICK j \in Jids : Start(t, <<Call("delete", canonical_jid(j), None)>>)
        BY <3>4 DEF handle_delete_chat
      <4>2. Call("delete", canonical_jid(j), None) \in CallType
        BY CanonicalIsJid, MakeCalls
      <4>. QED  BY <1>0, <4>1, <4>2
    <3>5. CASE sweep(t)
      <4>1. Call("select", None, None) \in CallType
        BY MakeCalls
      <4>. QED  BY <1>0, <3>5, <4>1 DEF sweep
    <3>. QED  BY <1>6, <3>1, <3>2, <3>3, <3>4, <3>5
  <2>2. PICK call \in CallType : call.op \notin Stored /\ Start(t, <<call>>)
    BY <2>1
  <2>3. <<call>> \in Seq(CallType) /\ NoneStored(<<call>>)
    BY <2>2, NoneStoredLiteral
  <2>. QED  BY <2>2, <2>3, StartsPlain
<1>7. CASE run_contact_name_pass(t)
  <2>1. PICK j \in Pns, l \in Lids, n \in Names \cup {None} :
           Start(t, <<Call("link", j, l)>> \o (IF n = None THEN <<>> ELSE <<Call("name", j, n)>>))
    BY <1>7 DEF run_contact_name_pass
  <2>2. PICK names : names = IF n = None THEN <<>> ELSE <<Call("name", j, n)>>
    OBVIOUS
  <2>3. Call("link", j, l) \in CallType /\ (n # None => Call("name", j, n) \in CallType)
    BY MakeCalls DEF Jids
  <2>4. <<Call("link", j, l)>> \in Seq(CallType) /\ names \in Seq(CallType)
    BY <2>2, <2>3
  <2>5. NoneStored(<<Call("link", j, l)>>) /\ NoneStored(names)
    BY <1>0, <2>2, NoneStoredLiteral
  <2>6. PICK calls : calls = <<Call("link", j, l)>> \o names
    OBVIOUS
  <2>7. calls \in Seq(CallType) /\ NoneStored(calls) /\ Start(t, calls)
    BY <2>1, <2>2, <2>4, <2>5, <2>6, NoneStoredConcat, ConcatProperties
  <2>. QED  BY <2>7, StartsPlain
<1>. QED  BY <1>1, <1>2, <1>3, <1>4, <1>5, <1>6, <1>7 DEF Handler, NoBackfill

\* Whoever takes a row or an id away is the only task.
LEMMA TakerAlone ==
    ASSUME TakesAlone, TypeOK, CallsFit, NEW t \in Tasks,
           link_jids(t) \/ delete_empty_contact_chats(t) \/ delete_chat(t), NEW u \in Tasks
    PROVE  u = t
<1>1. ~Idle(t) /\ Head1(t).op \in Takes
  BY DEF link_jids, delete_empty_contact_chats, delete_chat, Ready, Takes, Links
<1>2. Duties[t] \cap Takers # {}
  BY <1>1, FitTail DEF CallFits
<1>. QED  BY <1>2 DEF TakesAlone

LEMMA MessagesStep ==
    ASSUME TakesAlone, NoBackfill, MessagesInv, NEW t \in Tasks, Resolve(t) \/ Statement(t) \/ Handler(t)
    PROVE  ChatComes' /\ MessagesFindTheirChat'
<1>0. SettledInv /\ ChatComes /\ MessagesFindTheirChat /\ TypeOK /\ CallsFit
  BY DEF MessagesInv, SettledInv
<1>1. MessagesFindTheirChat' /\ ChatsFor(todo[t])'
  <2>1. CASE Resolve(t)
    <3>1. ~Idle(t) /\ KeepsChats /\ refused' = refused
      BY <2>1 DEF Resolve, tables, KeepsChats, Exists
    <3>2. CASE Head1(t).op = "link" /\ Return(t)
      BY <1>0, <3>1, <3>2, ReturnWaits DEF Creates, MessagesFindTheirChat
    <3>3. CASE UNCHANGED todo
      <4>1. PICK calls : calls = todo[t]
        OBVIOUS
      <4>2. calls \in Seq(CallType) /\ ChatsFor(calls)
        BY <1>0, <4>1 DEF TypeOK, ChatComes
      <4>3. ChatsFor(calls)'
        BY <1>0, <3>1, <4>2, WaitingStays
      <4>. QED  BY <1>0, <3>1, <3>3, <4>1, <4>3 DEF ChatsFor, ChatFor, MessagesFindTheirChat
    <3>. QED  BY <2>1, <3>2, <3>3 DEF Resolve
  <2>2. CASE Statement(t)
    BY <1>0, <2>2, StatementWaits
  <2>3. CASE Handler(t)
    <3>1. refused' = refused
      BY <2>3 DEF Handler, Start, handle_inbound_message, send_text, handle_undecryptable,
       import_history_sync, handle_contact_update, handle_push_name, handle_flag_patch,
       handle_group_subject, handle_delete_chat, run_contact_name_pass,
       backfill_chats_from_contacts, sweep
    <3>. QED  BY <1>0, <2>3, <3>1, HandlerWaits, SMTT(30) DEF MessagesFindTheirChat
  <2>. QED  BY <2>1, <2>2, <2>3
<1>2. ASSUME NEW u \in Tasks, u # t PROVE ChatsFor(todo[u])'
  <2>1. ~link_jids(t) /\ ~delete_empty_contact_chats(t) /\ ~delete_chat(t)
    BY <1>0, <1>2, TakerAlone
  <2>2. KeepsChats
    <3>1. CASE upsert_message(t)
      BY <3>1 DEF upsert_message, KeepsChats, Exists
    <3>2. CASE ~upsert_message(t)
      BY <1>0, <2>1, <3>2, RowsStay, OnlyLinksAlias, NoBackfillCalls DEF KeepsRows, KeepsChats
    <3>. QED  BY <3>1, <3>2
  <2>3. todo'[u] = todo[u]
    <3>1. \E calls : todo' = [todo EXCEPT ![t] = calls] \/ todo' = todo
      BY DEF Resolve, Return, ReturnWith, Start, Statement, record_message_activity, set_chat_flag, mark_chat, upsert_message,
       upsert_chat_from_history, rename_chat, apply_contact_name, apply_push_name, link_jids,
       merge_group_lid_twins, contact_backfill_identity, register_jid_alias, upsert_chat_from_contact,
       empty_contact_chats, delete_empty_contact_chats, delete_chat,
       Handler, handle_inbound_message, send_text, handle_undecryptable,
       import_history_sync, handle_contact_update, handle_push_name, handle_flag_patch,
       handle_group_subject, handle_delete_chat, run_contact_name_pass,
       backfill_chats_from_contacts, sweep
    <3>. QED  BY <1>0, <1>2, <3>1 DEF TypeOK
  <2>4. PICK calls : calls = todo[u]
    OBVIOUS
  <2>5. calls \in Seq(CallType) /\ ChatsFor(calls)
    BY <1>0, <2>4 DEF TypeOK, ChatComes
  <2>6. ChatsFor(calls)'
    BY <1>0, <2>2, <2>5, WaitingStays
  <2>. QED  BY <2>3, <2>4, <2>6 DEF ChatsFor, ChatFor
<1>. QED  BY <1>1, <1>2 DEF ChatComes

\* No live or imported message is refused for want of its chat: for any number of tasks beside each
\* other as long as none merges or deletes, and for one task that does both.
THEOREM MessagesHold ==
    ASSUME TakesAlone, NoBackfill
    PROVE  Spec => []MessagesFindTheirChat
<1>0. LinksAlone
  BY DEF TakesAlone, LinksAlone, Takers
<1>1. Init => MessagesInv
  <2>1. Len(<<>>) = 0
    BY EmptySeq
  <2>2. Init => ChatComes
    BY <2>1 DEF Init, ChatComes, ChatsFor
  <2>. QED  BY <2>2, InitSettled DEF Init, MessagesInv, MessagesFindTheirChat
<1>2. MessagesInv /\ [Next]_vars => MessagesInv'
  <2> SUFFICES ASSUME MessagesInv, [Next]_vars PROVE MessagesInv'
    OBVIOUS
  <2>0. LinksExclude
    BY <1>0, AloneExcludes DEF MessagesInv, SettledInv
  <2>1. SettledInv'
    BY <2>0, SettledStep DEF MessagesInv
  <2>2. CASE UNCHANGED vars
    BY <2>1, <2>2 DEF vars, MessagesInv, ChatComes, ChatsFor, ChatFor, Exists, canonical_jid, MessagesFindTheirChat
  <2>3. ASSUME NEW t \in Tasks, Resolve(t) \/ Statement(t) \/ Handler(t) PROVE MessagesInv'
    BY <2>1, <2>3, MessagesStep DEF MessagesInv
  <2>. QED  BY <2>2, <2>3 DEF Next
<1>3. MessagesInv => MessagesFindTheirChat
  BY DEF MessagesInv
<1>. QED  BY <1>1, <1>2, <1>3, PTL DEF Spec
=============================================================================
