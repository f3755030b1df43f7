--------------------------- MODULE MessageLogProofs ---------------------------
(* Theorems about MessageLog for every set of messages, actors, tasks.       *)
EXTENDS MessageLog, SequenceTheorems, TLAPS

(***************************************************************************)
(* Calls and the state of a handler.                                       *)
(***************************************************************************)
\* The calls that carry a row: a message seen but not decrypted may come to be stored.
RowWriters == Writers \cup {"sighted"}

\* What a call carries, by its operation.
LEMMA CallArguments ==
    ASSUME NEW c \in CallType
    PROVE  /\ c.op \in {"activity", "refresh"} => c.msg \in Msgs \cup {None} /\ c.arg \in Texts
           /\ c.op \in {"meta", "drain", "tombstone", "delete", "sending", "echoing", "request"} => c.msg \in Msgs
           /\ c.op \in RowWriters => c.msg \in Msgs /\ c.arg \in Row
           /\ c.op \in Reacting =>
                c.msg \in Msgs /\ c.arg.actor \in Actors /\ c.arg.emoji \in Emojis \cup {Removed}
           /\ c.op = "status" => c.msg \in Msgs /\ c.arg \in Statuses
           /\ c.op = "text" => c.msg \in Msgs /\ c.arg \in Edits
BY SMT DEF CallType, RowWriters, Writers, Reacting

\* Building calls of each kind.
LEMMA MakeCalls ==
    /\ \A m \in Msgs \cup {None}, x \in Texts : \A op \in {"activity", "refresh"} : Call(op, m, x) \in CallType
    /\ \A m \in Msgs : \A op \in {"meta", "drain", "tombstone", "delete", "sending", "echoing", "request"} :
          Call(op, m, None) \in CallType
    /\ \A m \in Msgs, row \in Row : \A op \in RowWriters : Call(op, m, row) \in CallType
    /\ \A m \in Msgs, a \in Actors, e \in Emojis \cup {Removed} : \A op \in Reacting :
          Call(op, m, [actor |-> a, emoji |-> e]) \in CallType
    /\ \A m \in Msgs, s \in Statuses : Call("status", m, s) \in CallType
    /\ \A m \in Msgs, x \in Edits : Call("text", m, x) \in CallType
    /\ \A op \in {"list", "clear", "remove", "history"} : Call(op, None, None) \in CallType
    /\ \A mark \in {"read", "unread"} : Call("mark", None, mark) \in CallType
BY SMT DEF Call, CallType, RowWriters, Writers, Reacting

\* A busy task has a well-formed call at its head and well-formed calls behind it.
LEMMA BusyTask ==
    ASSUME TypeOK, NEW t \in Tasks, ~Idle(t)
    PROVE  /\ todo[t] \in Seq(CallType)
           /\ Len(todo[t]) \in Nat \ {0}
           /\ todo[t][1] \in CallType
           /\ Tail(todo[t]) \in Seq(CallType)
           /\ \A i \in 1..Len(todo[t]) : todo[t][i] \in CallType
<1>1. todo[t] \in Seq(CallType) /\ todo[t] # <<>>
  BY DEF TypeOK, Idle
<1>2. Len(todo[t]) \in Nat \ {0}
  BY <1>1, EmptySeq
<1>3. \A i \in 1..Len(todo[t]) : todo[t][i] \in CallType
  BY <1>1, ElementOfSeq
<1>4. Tail(todo[t]) \in Seq(CallType)
  BY <1>1, HeadTailProperties
<1>. QED  BY <1>1, <1>2, <1>3, <1>4

LEMMA HeadCall ==
    ASSUME TypeOK, NEW t \in Tasks, NEW op, At(t, op)
    PROVE  ~Idle(t) /\ todo[t][1] \in CallType /\ todo[t][1].op = op
BY BusyTask DEF At

(***************************************************************************)
(* Types alone are not inductive: the importer writes the newest message   *)
(* it stored into its last call, which has to be a refresh of the chat.    *)
(***************************************************************************)
EndsInRefresh(calls) ==
    (\E i \in 1..Len(calls) : calls[i].op = "imported") => calls[Len(calls)].op = "refresh"
ImportsEndInRefresh == \A t \in Tasks : EndsInRefresh(todo[t])
TypeInv == TypeOK /\ ImportsEndInRefresh

LEMMA TailEndsInRefresh ==
    ASSUME NEW calls \in Seq(CallType), calls # <<>>, EndsInRefresh(calls)
    PROVE  EndsInRefresh(Tail(calls))
<1> SUFFICES ASSUME NEW i \in 1..Len(Tail(calls)), Tail(calls)[i].op = "imported"
             PROVE  Tail(calls)[Len(Tail(calls))].op = "refresh"
  BY DEF EndsInRefresh
<1>1. /\ Len(calls) \in Nat \ {0} /\ Len(Tail(calls)) = Len(calls) - 1
      /\ \A k \in 1..Len(Tail(calls)) : Tail(calls)[k] = calls[k + 1]
  BY EmptySeq, HeadTailProperties
<1>2. calls[i + 1].op = "imported" /\ i + 1 \in 1..Len(calls)
  BY <1>1
<1>3. calls[Len(calls)].op = "refresh"
  BY <1>2 DEF EndsInRefresh
<1>. QED  BY <1>1, <1>3

HandlersTyped == todo' \in [Tasks -> Seq(CallType)] /\ ImportsEndInRefresh' /\ raced' = raced

LEMMA ReturnWithTyped ==
    ASSUME TypeInv, NEW t \in Tasks, NEW rest \in Seq(CallType), EndsInRefresh(rest), ReturnWith(t, rest)
    PROVE  HandlersTyped
BY DEF TypeInv, TypeOK, ImportsEndInRefresh, ReturnWith, HandlersTyped

LEMMA ReturnTyped ==
    ASSUME TypeInv, NEW t \in Tasks, ~Idle(t), Return(t)
    PROVE  HandlersTyped
<1>1. todo[t] \in Seq(CallType) /\ todo[t] # <<>> /\ Tail(todo[t]) \in Seq(CallType)
  BY BusyTask DEF TypeInv, Idle
<1>2. EndsInRefresh(Tail(todo[t]))
  BY <1>1, TailEndsInRefresh DEF TypeInv, ImportsEndInRefresh
<1>. QED  BY <1>1, <1>2, ReturnWithTyped DEF Return

\* A short list without imported messages.
LEMMA NoImport ==
    ASSUME NEW calls, \A i \in 1..Len(calls) : calls[i].op # "imported"
    PROVE  EndsInRefresh(calls)
BY DEF EndsInRefresh

(***************************************************************************)
(* Rows.                                                                   *)
(***************************************************************************)
LEMMA RanksAreNumbers == \A s \in Statuses : status_rank(s) \in 0..5
BY SMT DEF Statuses, status_rank

LEMMA RowsTyped ==
    /\ \A m \in Msgs : InboundRow(m) \in Row /\ PlaceholderRow(m) \in Row
    /\ \A s \in Statuses : OutgoingRow(s) \in Row
    /\ \A row \in Row, x \in Texts : [row EXCEPT !.text = x] \in Row
    /\ \A row \in Row, x \in Texts, k \in {"text", "unsupported"} : [row EXCEPT !.text = x, !.kind = k] \in Row
    /\ \A row \in Row, s \in Statuses : [row EXCEPT !.status = s] \in Row
    /\ \A old, new \in Row : OnConflict(old, new) \in Row
<1>1. \A m \in Msgs : InboundRow(m) \in Row
  BY DEF InboundRow, Row, Statuses, Texts
<1>2. \A row \in Row, x \in Texts : [row EXCEPT !.text = x] \in Row
  BY DEF Row
<1>3. \A row \in Row, x \in Texts, k \in {"text", "unsupported"} : [row EXCEPT !.text = x, !.kind = k] \in Row
  BY DEF Row
<1>4. \A row \in Row, s \in Statuses : [row EXCEPT !.status = s] \in Row
  BY DEF Row
<1>5. \A old, new \in Row : OnConflict(old, new) \in Row
  BY DEF OnConflict, Row
<1>6. \A m \in Msgs : PlaceholderRow(m) \in Row
  BY <1>1 DEF PlaceholderRow, Row, Texts
<1>7. \A s \in Statuses : OutgoingRow(s) \in Row
  BY DEF OutgoingRow, Row, Texts
<1>. QED  BY <1>1, <1>2, <1>3, <1>4, <1>5, <1>6, <1>7

LEMMA DeferredTyped == DeferredChat \in Chat
BY SMT DEF DeferredChat, Chat

LEMMA ActivityIsNumber == \A old, ts \in Nat : ActivityAfter(old, ts) \in Nat
BY DEF ActivityAfter

(***************************************************************************)
(* Type correctness: one lemma per store call.                             *)
(***************************************************************************)
\* The row a call on the chat starts from.
LEMMA ChatRowTyped ==
    ASSUME TypeOK
    PROVE  (IF chat = None THEN DeferredChat ELSE chat) \in Chat
BY DeferredTyped DEF TypeOK

LEMMA ActivityTyped ==
    ASSUME TypeInv, NEW t \in Tasks, record_message_activity(t)
    PROVE  TypeInv'
<1>1. PICK op \in {"activity", "refresh"} : At(t, op)
  BY DEF record_message_activity
<1>2. ~Idle(t) /\ Msg(t) \in Msgs \cup {None} /\ Arg(t) \in Texts
  BY <1>1, HeadCall, CallArguments DEF TypeInv, Msg, Arg
<1>3. HandlersTyped
  BY <1>2, ReturnTyped DEF record_message_activity
<1>4. CASE Msg(t) = None
  <2>1. UNCHANGED <<chat, fresh>>
    BY <1>4 DEF record_message_activity
  <2>. QED  BY <1>3, <2>1 DEF TypeInv, TypeOK, HandlersTyped, record_message_activity
<1>5. CASE Msg(t) # None
  <2>1. Msg(t) \in Msgs /\ Stamp[Msg(t)] \in Nat
    BY <1>2, <1>5, MessageLogAssumption
  <2>2. PICK row \in Chat : row = IF chat = None THEN DeferredChat ELSE chat
    BY ChatRowTyped DEF TypeInv
  <2>3. PICK shown \in Preview : shown = [of |-> Msg(t), text |-> Arg(t)]
    BY <1>2, <2>1 DEF Preview
  <2>4. chat' = [row EXCEPT !.preview = shown, !.activity = ActivityAfter(@, Stamp[Msg(t)]),
                            !.unread = IF increment_unread(todo[t][1].op) THEN @ + 1 ELSE @]
    BY <1>5, <2>2, <2>3, Zenon DEF record_message_activity
  <2>5. fresh' \in {fresh, fresh \cup {Msg(t)}}
    BY <1>5, Zenon DEF record_message_activity
  <2>6. ActivityAfter(row.activity, Stamp[Msg(t)]) \in Nat
    BY <2>1, ActivityIsNumber DEF Chat
  <2>7. (IF increment_unread(todo[t][1].op) THEN row.unread + 1 ELSE row.unread) \in Nat
    BY SMT DEF Chat, increment_unread
  <2>8. chat' \in Chat
    BY <2>4, <2>6, <2>7 DEF Chat
  <2>9. chat' \in Chat \cup {None} /\ fresh' \subseteq Msgs \cup {None}
    BY <2>1, <2>5, <2>8 DEF TypeInv, TypeOK
  <2>. QED  BY <1>3, <2>9 DEF TypeInv, TypeOK, HandlersTyped, record_message_activity
<1>. QED  BY <1>4, <1>5

LEMMA MetaTyped ==
    ASSUME TypeInv, NEW t \in Tasks, set_chat_last_message_meta(t)
    PROVE  TypeInv'
<1>1. ~Idle(t) /\ Msg(t) \in Msgs
  BY HeadCall, CallArguments DEF TypeInv, set_chat_last_message_meta, Msg
<1>2. HandlersTyped
  BY <1>1, ReturnTyped DEF set_chat_last_message_meta
<1>3. \A row \in Chat : [row EXCEPT !.meta = Msg(t)] \in Chat
  BY <1>1 DEF Chat
<1>4. chat' \in Chat
  BY <1>3, ChatRowTyped DEF TypeInv, set_chat_last_message_meta
<1>. QED  BY <1>2, <1>4 DEF TypeInv, TypeOK, HandlersTyped, set_chat_last_message_meta, history

LEMMA MarkTyped ==
    ASSUME TypeInv, NEW t \in Tasks, mark_chat(t)
    PROVE  TypeInv'
<1>1. ~Idle(t)
  BY HeadCall DEF TypeInv, mark_chat
<1>2. HandlersTyped
  BY <1>1, ReturnTyped DEF mark_chat
<1>3. \A row \in Chat : [row EXCEPT !.unread = IF Arg(t) = "read" THEN 0 ELSE IF @ = 0 THEN 1 ELSE @] \in Chat
  BY DEF Chat
<1>4. chat' \in Chat
  BY <1>3, ChatRowTyped DEF TypeInv, mark_chat
<1>5. fresh' \subseteq Msgs \cup {None}
  BY DEF mark_chat, TypeInv, TypeOK
<1>. QED  BY <1>2, <1>4, <1>5 DEF TypeInv, TypeOK, HandlersTyped, mark_chat

LEMMA HistoryTyped ==
    ASSUME TypeInv, NEW t \in Tasks, upsert_chat_from_history(t)
    PROVE  TypeInv'
<1>1. ~Idle(t)
  BY HeadCall DEF TypeInv, upsert_chat_from_history
<1>2. HandlersTyped
  BY <1>1, ReturnTyped DEF upsert_chat_from_history
<1>3. PICK row \in Chat : row = IF chat = None THEN DeferredChat ELSE chat
  BY ChatRowTyped DEF TypeInv
<1>4. PICK ts \in {0} \cup {Stamp[m] : m \in Msgs}, counter \in {0, 1, None} :
         chat' = [row EXCEPT !.activity = ActivityAfter(@, ts), !.unread = IF counter = None THEN @ ELSE counter]
  BY <1>3, Zenon DEF upsert_chat_from_history
<1>5. ts \in Nat
  BY MessageLogAssumption
<1>6. ActivityAfter(row.activity, ts) \in Nat
  BY <1>5, ActivityIsNumber DEF Chat
<1>7. (IF counter = None THEN row.unread ELSE counter) \in Nat
  BY DEF Chat
<1>8. chat' \in Chat
  BY <1>4, <1>6, <1>7 DEF Chat
<1>. QED  BY <1>2, <1>8 DEF TypeInv, TypeOK, HandlersTyped, upsert_chat_from_history, history

\* What upsert_message leaves to do when the foreign key refuses the row.
LEMMA RefusalTyped ==
    ASSUME TypeInv, NEW t \in Tasks, ~Idle(t)
    PROVE  AfterRefusal(t) \in Seq(CallType) /\ EndsInRefresh(AfterRefusal(t))
<1>1. todo[t] \in Seq(CallType) /\ todo[t] # <<>> /\ Tail(todo[t]) \in Seq(CallType)
  BY BusyTask DEF TypeInv, Idle
<1>2. EndsInRefresh(todo[t]) /\ EndsInRefresh(Tail(todo[t]))
  BY <1>1, TailEndsInRefresh DEF TypeInv, ImportsEndInRefresh
<1>3. CASE At(t, "placeholder")
  BY <1>1, <1>2, <1>3 DEF AfterRefusal
<1>4. CASE ~At(t, "placeholder") /\ At(t, "imported")
  <2>1. Len(todo[t]) \in Nat \ {0} /\ Len(Tail(todo[t])) = Len(todo[t]) - 1
    BY <1>1, EmptySeq, HeadTailProperties
  <2>2. todo[t][Len(todo[t])].op = "refresh" /\ todo[t][1].op = "imported"
    BY <1>2, <1>4, <2>1 DEF EndsInRefresh, At
  <2>3. Tail(todo[t]) # <<>>
    <3> SUFFICES ASSUME Tail(todo[t]) = <<>> PROVE FALSE
      OBVIOUS
    <3>1. Len(Tail(todo[t])) = 0
      BY EmptySeq, Zenon
    <3>2. Len(todo[t]) = 1
      BY <2>1, <3>1
    <3>. QED  BY <2>2, <3>2
  <2>4. Tail(Tail(todo[t])) \in Seq(CallType)
    BY <1>1, <2>3, HeadTailProperties
  <2>. QED  BY <1>1, <1>2, <1>4, <2>3, <2>4, TailEndsInRefresh DEF AfterRefusal
<1>5. CASE ~At(t, "placeholder") /\ ~At(t, "imported")
  <2>1. AfterRefusal(t) = <<>>
    BY <1>5 DEF AfterRefusal
  <2>2. <<>> \in Seq(CallType) /\ Len(<<>>) = 0
    BY EmptySeq
  <2>. QED  BY <2>1, <2>2 DEF EndsInRefresh
<1>. QED  BY <1>3, <1>4, <1>5

\* An imported message is noted in the refresh that ends the import.
LEMMA ImportedTyped ==
    ASSUME TypeInv, NEW t \in Tasks, At(t, "imported"), NEW f, f \in Msgs,
           NEW rest, rest = Tail(todo[t]),
           NEW noted, noted \in {f, rest[Len(rest)].msg},
           NEW next, next = [rest EXCEPT ![Len(rest)] = [@ EXCEPT !.msg = noted]]
    PROVE  next \in Seq(CallType) /\ EndsInRefresh(next)
<1>1. todo[t] \in Seq(CallType) /\ todo[t] # <<>> /\ rest \in Seq(CallType)
  BY BusyTask DEF TypeInv, Idle, At
<1>2. /\ Len(todo[t]) \in Nat \ {0} /\ Len(rest) = Len(todo[t]) - 1
      /\ \A k \in 1..Len(rest) : rest[k] = todo[t][k + 1]
  BY <1>1, EmptySeq, HeadTailProperties
<1>3. todo[t][Len(todo[t])].op = "refresh" /\ todo[t][1].op = "imported"
  BY <1>2 DEF TypeInv, ImportsEndInRefresh, EndsInRefresh, At
<1>4. Len(rest) \in 1..Len(rest) /\ rest[Len(rest)].op = "refresh"
  BY <1>2, <1>3
<1>5. PICK c \in CallType : c = rest[Len(rest)]
  BY <1>1, <1>4, ElementOfSeq
<1>6. c.op = "refresh" /\ c.msg \in Msgs \cup {None}
  BY <1>4, <1>5, CallArguments
<1>7. [c EXCEPT !.msg = noted] \in CallType /\ [c EXCEPT !.msg = noted].op = "refresh"
  <2> DEFINE Activities == [op : {"activity", "refresh"}, msg : Msgs \cup {None}, arg : Texts]
  <2>1. c \in Activities
    BY <1>6, SMT DEF CallType, Writers, Reacting
  <2>2. noted \in Msgs \cup {None}
    BY <1>5, <1>6
  <2>3. [c EXCEPT !.msg = noted] \in Activities /\ [c EXCEPT !.msg = noted].op = "refresh"
    BY <1>6, <2>1, <2>2
  <2>. QED  BY <2>3 DEF CallType
<1>8. next = [rest EXCEPT ![Len(rest)] = [c EXCEPT !.msg = noted]]
  BY <1>5
<1>9. /\ next \in Seq(CallType) /\ Len(next) = Len(rest)
      /\ next[Len(rest)] = [c EXCEPT !.msg = noted]
  <2> DEFINE last == [c EXCEPT !.msg = noted]
  <2>1. last \in CallType /\ next = [rest EXCEPT ![Len(rest)] = last]
    BY <1>7, <1>8
  <2> HIDE DEF last
  <2>2. [rest EXCEPT ![Len(rest)] = last] \in Seq(CallType)
    BY <1>1, <1>4, <2>1, ExceptSeq, Zenon
  <2>3. Len([rest EXCEPT ![Len(rest)] = last]) = Len(rest)
    BY <1>1, <1>4, <2>1, ExceptSeq
  <2>4. [rest EXCEPT ![Len(rest)] = last][Len(rest)] = last
    BY <1>1, <1>4, <2>1, ExceptSeq
  <2>. QED  BY <2>1, <2>2, <2>3, <2>4, Zenon DEF last
<1>. QED  BY <1>7, <1>9 DEF EndsInRefresh

LEMMA MessageTyped ==
    ASSUME TypeInv, NEW t \in Tasks, upsert_message(t)
    PROVE  TypeInv'
<1>1. PICK op \in RowWriters : At(t, op)
  BY DEF upsert_message, RowWriters
<1>2. ~Idle(t) /\ Msg(t) \in Msgs /\ Arg(t) \in Row
  BY <1>1, HeadCall, CallArguments DEF TypeInv, Msg, Arg
<1>3. CASE Stored(Msg(t)) \/ chat # None
  <2> DEFINE m == Msg(t)
             rest == Tail(todo[t])
             newest(n) == IF n = None \/ Stamp[m] >= Stamp[n] THEN m ELSE n
             noted == newest(rest[Len(rest)].msg)
             next == [rest EXCEPT ![Len(rest)] = [@ EXCEPT !.msg = noted]]
  <2>1. messages' = [messages EXCEPT ![m] = IF Stored(m) THEN OnConflict(@, Arg(t)) ELSE Arg(t)]
    BY <1>3, Zenon DEF upsert_message
  <2>2. ReturnWith(t, IF At(t, "imported") THEN next ELSE rest)
    BY <1>3 DEF upsert_message
  <2>3. (IF Stored(m) THEN OnConflict(messages[m], Arg(t)) ELSE Arg(t)) \in Row
    BY <1>2, RowsTyped DEF TypeInv, TypeOK, Stored
  <2>4. messages' \in [Msgs -> Row \cup {None}]
    BY <2>1, <2>3 DEF TypeInv, TypeOK
  <2>5. HandlersTyped
    <3>1. CASE At(t, "imported")
      <4>1. noted \in {m, rest[Len(rest)].msg}
        OBVIOUS
      <4> HIDE DEF noted
      <4>2. next \in Seq(CallType) /\ EndsInRefresh(next)
        BY <1>2, <3>1, <4>1, ImportedTyped
      <4> HIDE DEF next
      <4>. QED  BY <2>2, <3>1, <4>2, ReturnWithTyped
    <3>2. CASE ~At(t, "imported")
      BY <1>2, <2>2, <3>2, ReturnTyped DEF Return
    <3>. QED  BY <3>1, <3>2
  <2>. QED  BY <2>4, <2>5 DEF TypeInv, TypeOK, HandlersTyped, upsert_message, history
<1>4. CASE ~(Stored(Msg(t)) \/ chat # None)
  <2>1. ReturnWith(t, AfterRefusal(t)) /\ UNCHANGED messages
    BY <1>4, Zenon DEF upsert_message
  <2>2. HandlersTyped
    BY <1>2, <2>1, RefusalTyped, ReturnWithTyped
  <2>. QED  BY <2>1, <2>2 DEF TypeInv, TypeOK, HandlersTyped, upsert_message, history
<1>. QED  BY <1>3, <1>4

\* One cell of a table by message and actor.
LEMMA CellTyped ==
    ASSUME NEW S, NEW f \in [Msgs -> [Actors -> S]], NEW m \in Msgs, NEW a \in Actors, NEW x \in S
    PROVE  [f EXCEPT ![m][a] = x] \in [Msgs -> [Actors -> S]]
OBVIOUS

LEMMA VisibleTyped == \A e \in Emojis \cup {Removed} : Visible(e) \in Emojis \cup {None}
BY DEF Visible

\* The call at the head of a handler's list becomes another on the same message.
LEMMA BecomesTyped ==
    ASSUME TypeInv, NEW t \in Tasks, ~Idle(t), todo[t][1].op # "imported", NEW op, op # "imported",
           NEW c \in CallType, c = [todo[t][1] EXCEPT !.op = op], c.op = op, todo[t][1].op # "refresh",
           Becomes(t, op)
    PROVE  HandlersTyped
<1>1. todo[t] \in Seq(CallType) /\ Len(todo[t]) \in Nat \ {0} /\ 1 \in 1..Len(todo[t])
  BY BusyTask DEF TypeInv
<1>2. PICK next : next = [todo[t] EXCEPT ![1] = c]
  OBVIOUS
<1>3. ReturnWith(t, next)
  BY <1>2 DEF Becomes
<1>4. /\ next \in Seq(CallType) /\ Len(next) = Len(todo[t])
      /\ \A i \in 1..Len(todo[t]) : next[i] = IF i = 1 THEN c ELSE todo[t][i]
  BY <1>1, <1>2, ExceptSeq
<1>5. EndsInRefresh(todo[t])
  BY DEF TypeInv, ImportsEndInRefresh
<1>6. EndsInRefresh(next)
  <2> SUFFICES ASSUME NEW i \in 1..Len(todo[t]), next[i].op = "imported"
               PROVE  next[Len(todo[t])].op = "refresh"
    BY <1>4 DEF EndsInRefresh
  <2>1. i # 1 /\ todo[t][i].op = "imported"
    BY <1>4
  <2>2. todo[t][Len(todo[t])].op = "refresh"
    BY <1>5, <2>1 DEF EndsInRefresh
  <2>3. Len(todo[t]) # 1 /\ Len(todo[t]) \in 1..Len(todo[t])
    BY <1>1, <2>1
  <2>. QED  BY <1>4, <2>2, <2>3
<1>. QED  BY <1>3, <1>4, <1>6, ReturnWithTyped

LEMMA FindTyped ==
    ASSUME TypeInv, NEW t \in Tasks, find_reaction_target(t) \/ find_undecryptable(t)
    PROVE  TypeInv'
<1>1. ~Idle(t) /\ todo[t][1] \in CallType
  BY HeadCall DEF TypeInv, find_reaction_target, find_undecryptable
<1>2. CASE find_reaction_target(t)
  <2>1. PICK op \in {"react", "buffer"} : Becomes(t, op)
    BY <1>2 DEF find_reaction_target
  <2>2. todo[t][1].op = "lookup"
    BY <1>2 DEF find_reaction_target, At
  <2>3. PICK c : c = [todo[t][1] EXCEPT !.op = op]
    OBVIOUS
  <2>4. c \in CallType /\ c.op = op
    <3> DEFINE Reactings == [op : Reacting, msg : Msgs, arg : [actor : Actors, emoji : Emojis \cup {Removed}]]
    <3>1. todo[t][1] \in Reactings
      BY <1>1, <2>2, SMT DEF CallType, Writers, Reacting
    <3>2. c \in Reactings /\ c.op = op
      BY <2>3, <3>1 DEF Reacting
    <3>. QED  BY <3>2 DEF CallType
  <2>5. HandlersTyped
    BY <1>1, <2>1, <2>2, <2>3, <2>4, BecomesTyped
  <2>. QED  BY <1>2, <2>5 DEF find_reaction_target, TypeInv, TypeOK, HandlersTyped, tables, history
<1>3. CASE find_undecryptable(t)
  <2>1. HandlersTyped
    <3>1. CASE Stored(Msg(t))
      BY <1>1, <1>3, <3>1, ReturnTyped DEF find_undecryptable
    <3>2. CASE ~Stored(Msg(t))
      <4>1. Becomes(t, "placeholder") /\ todo[t][1].op = "sighted"
        BY <1>3, <3>2 DEF find_undecryptable, At
      <4>2. PICK c : c = [todo[t][1] EXCEPT !.op = "placeholder"]
        OBVIOUS
      <4>3. c \in CallType /\ c.op = "placeholder"
        <5> DEFINE Rows == [op : Writers \cup {"sighted"}, msg : Msgs, arg : Row]
        <5>1. todo[t][1] \in Rows
          BY <1>1, <4>1, SMT DEF CallType, Writers, Reacting
        <5>2. c \in Rows /\ c.op = "placeholder"
          BY <4>2, <5>1 DEF Writers
        <5>. QED  BY <5>2 DEF CallType
      <4>. QED  BY <1>1, <4>1, <4>2, <4>3, BecomesTyped
    <3>. QED  BY <3>1, <3>2
  <2>. QED  BY <1>3, <2>1 DEF find_undecryptable, TypeInv, TypeOK, HandlersTyped, tables, history
<1>. QED  BY <1>2, <1>3

LEMMA ReactTyped ==
    ASSUME TypeInv, NEW t \in Tasks, upsert_reaction(t)
    PROVE  TypeInv'
<1>1. /\ ~Idle(t) /\ Msg(t) \in Msgs
      /\ Arg(t).actor \in Actors /\ Arg(t).emoji \in Emojis \cup {Removed}
  BY HeadCall, CallArguments DEF TypeInv, Reacting, upsert_reaction, Msg, Arg
<1>2. HandlersTyped
  BY <1>1, ReturnTyped DEF upsert_reaction
<1>3. reactions' \in [Msgs -> [Actors -> Emojis \cup {None}]]
  <2>1. reactions' \in {reactions, [reactions EXCEPT ![Msg(t)][Arg(t).actor] = Visible(Arg(t).emoji)]}
    BY DEF upsert_reaction
  <2>2. reactions \in [Msgs -> [Actors -> Emojis \cup {None}]] /\ Visible(Arg(t).emoji) \in Emojis \cup {None}
    BY <1>1, VisibleTyped DEF TypeInv, TypeOK
  <2>3. [reactions EXCEPT ![Msg(t)][Arg(t).actor] = Visible(Arg(t).emoji)]
          \in [Msgs -> [Actors -> Emojis \cup {None}]]
    BY <1>1, <2>2, CellTyped, Zenon
  <2>. QED  BY <2>1, <2>2, <2>3
<1>4. latest' \in [Msgs -> [Actors -> Emojis \cup {Removed, None}]]
  <2>1. latest' \in {latest, [latest EXCEPT ![Msg(t)][Arg(t).actor] = Arg(t).emoji]}
    BY DEF upsert_reaction
  <2>2. /\ latest \in [Msgs -> [Actors -> Emojis \cup {Removed, None}]]
        /\ Arg(t).emoji \in Emojis \cup {Removed, None}
    BY <1>1 DEF TypeInv, TypeOK
  <2>3. [latest EXCEPT ![Msg(t)][Arg(t).actor] = Arg(t).emoji] \in [Msgs -> [Actors -> Emojis \cup {Removed, None}]]
    BY <1>1, <2>2, CellTyped, Zenon
  <2>. QED  BY <2>1, <2>2, <2>3
<1>. QED  BY <1>2, <1>3, <1>4 DEF TypeInv, TypeOK, HandlersTyped, upsert_reaction

LEMMA BufferTyped ==
    ASSUME TypeInv, NEW t \in Tasks, buffer_pending_reaction(t)
    PROVE  TypeInv'
<1>1. /\ ~Idle(t) /\ Msg(t) \in Msgs
      /\ Arg(t).actor \in Actors /\ Arg(t).emoji \in Emojis \cup {Removed}
  BY HeadCall, CallArguments DEF TypeInv, Reacting, buffer_pending_reaction, Msg, Arg
<1>2. HandlersTyped
  BY <1>1, ReturnTyped DEF buffer_pending_reaction
<1>3. /\ pending' = [pending EXCEPT ![Msg(t)][Arg(t).actor] = Arg(t).emoji]
      /\ latest' = [latest EXCEPT ![Msg(t)][Arg(t).actor] = Arg(t).emoji]
  BY DEF buffer_pending_reaction, Buffered
<1>4. /\ pending' \in [Msgs -> [Actors -> Emojis \cup {Removed, None}]]
      /\ latest' \in [Msgs -> [Actors -> Emojis \cup {Removed, None}]]
  BY <1>1, <1>3, CellTyped DEF TypeInv, TypeOK
<1>. QED  BY <1>2, <1>4 DEF TypeInv, TypeOK, HandlersTyped, buffer_pending_reaction

LEMMA NobodyTyped ==
    Nobody \in [Actors -> Emojis \cup {None}] /\ Nobody \in [Actors -> Emojis \cup {Removed, None}]
BY DEF Nobody

LEMMA DrainTyped ==
    ASSUME TypeInv, NEW t \in Tasks, drain_pending_reactions(t)
    PROVE  TypeInv'
<1>1. ~Idle(t) /\ Msg(t) \in Msgs
  BY HeadCall, CallArguments DEF TypeInv, drain_pending_reactions, Msg
<1>2. HandlersTyped
  BY <1>1, ReturnTyped DEF drain_pending_reactions
<1> DEFINE held == pending[Msg(t)]
           drained == [a \in Actors |-> IF held[a] = None THEN reactions[Msg(t)][a] ELSE Visible(held[a])]
<1>3. drained \in [Actors -> Emojis \cup {None}]
  <2>1. \A a \in Actors : held[a] \in Emojis \cup {Removed, None} /\ reactions[Msg(t)][a] \in Emojis \cup {None}
    BY <1>1 DEF TypeInv, TypeOK
  <2>. QED  BY <2>1, VisibleTyped
<1>4. \/ UNCHANGED <<reactions, pending>>
      \/ reactions' = [reactions EXCEPT ![Msg(t)] = drained] /\ pending' = [pending EXCEPT ![Msg(t)] = Nobody]
  BY DEF drain_pending_reactions
<1> HIDE DEF drained
<1>a. /\ reactions \in [Msgs -> [Actors -> Emojis \cup {None}]]
      /\ pending \in [Msgs -> [Actors -> Emojis \cup {Removed, None}]]
  BY DEF TypeInv, TypeOK
<1>b. [reactions EXCEPT ![Msg(t)] = drained] \in [Msgs -> [Actors -> Emojis \cup {None}]]
  BY <1>1, <1>3, <1>a
<1>c. [pending EXCEPT ![Msg(t)] = Nobody] \in [Msgs -> [Actors -> Emojis \cup {Removed, None}]]
  BY <1>1, <1>a, NobodyTyped
<1>5. /\ reactions' \in [Msgs -> [Actors -> Emojis \cup {None}]]
      /\ pending' \in [Msgs -> [Actors -> Emojis \cup {Removed, None}]]
  BY <1>4, <1>a, <1>b, <1>c, Zenon
<1>. QED  BY <1>2, <1>5 DEF TypeInv, TypeOK, HandlersTyped, drain_pending_reactions, history

LEMMA StatusTyped ==
    ASSUME TypeInv, NEW t \in Tasks, set_message_status(t)
    PROVE  TypeInv'
<1>1. ~Idle(t) /\ Msg(t) \in Msgs /\ Arg(t) \in Statuses
  BY HeadCall, CallArguments DEF TypeInv, set_message_status, Msg, Arg
<1>2. HandlersTyped
  BY <1>1, ReturnTyped DEF set_message_status
<1>3. messages' \in [Msgs -> Row \cup {None}]
  <2>1. messages[Msg(t)] \in Row \cup {None}
    BY <1>1 DEF TypeInv, TypeOK
  <2>2. messages[Msg(t)] # None => [messages[Msg(t)] EXCEPT !.status = Arg(t)] \in Row
    BY <1>1, <2>1, RowsTyped
  <2>3. \/ messages' = messages
        \/ /\ messages[Msg(t)] # None
           /\ messages' = [messages EXCEPT ![Msg(t)] = [messages[Msg(t)] EXCEPT !.status = Arg(t)]]
    BY <1>1 DEF set_message_status, TypeInv, TypeOK
  <2>. QED  BY <2>2, <2>3 DEF TypeInv, TypeOK
<1>4. told' \in [Msgs -> 0..5]
  BY <1>1, RanksAreNumbers DEF set_message_status, TypeInv, TypeOK
<1>. QED  BY <1>2, <1>3, <1>4 DEF TypeInv, TypeOK, HandlersTyped, set_message_status

LEMMA TextTyped ==
    ASSUME TypeInv, NEW t \in Tasks, mark_message_revoked(t) \/ update_message_text(t)
    PROVE  TypeInv'
<1>1. ~Idle(t) /\ Msg(t) \in Msgs /\ (update_message_text(t) => Arg(t) \in Edits)
  BY HeadCall, CallArguments DEF TypeInv, mark_message_revoked, update_message_text, Msg, Arg
<1>2. HandlersTyped
  BY <1>1, ReturnTyped DEF mark_message_revoked, update_message_text
<1>3. PICK x \in Texts, k \in {"text", "unsupported"} :
         messages' = [messages EXCEPT ![Msg(t)] = IF @ = None THEN None ELSE [@ EXCEPT !.text = x, !.kind = k]]
  BY <1>1, Zenon DEF mark_message_revoked, update_message_text, Texts
<1>4. messages[Msg(t)] # None => [messages[Msg(t)] EXCEPT !.text = x, !.kind = k] \in Row
  BY <1>1, RowsTyped DEF TypeInv, TypeOK
<1>5. messages' \in [Msgs -> Row \cup {None}]
  BY <1>1, <1>3, <1>4 DEF TypeInv, TypeOK
<1>. QED  BY <1>2, <1>5 DEF TypeInv, TypeOK, HandlersTyped, mark_message_revoked, update_message_text, history

\* Deleting messages leaves well-formed tables.
LEMMA DeletionTyped ==
    ASSUME TypeInv, NEW gone, DeleteMessages(gone)
    PROVE  /\ messages' \in [Msgs -> Row \cup {None}]
           /\ reactions' \in [Msgs -> [Actors -> Emojis \cup {None}]]
           /\ latest' \in [Msgs -> [Actors -> Emojis \cup {Removed, None}]]
           /\ told' \in [Msgs -> 0..5]
<1>1. /\ messages \in [Msgs -> Row \cup {None}]
      /\ reactions \in [Msgs -> [Actors -> Emojis \cup {None}]]
      /\ latest \in [Msgs -> [Actors -> Emojis \cup {Removed, None}]]
      /\ told \in [Msgs -> 0..5]
  BY DEF TypeInv, TypeOK
<1>2. messages' \in [Msgs -> Row \cup {None}]
  BY <1>1 DEF DeleteMessages
<1>3. reactions' \in [Msgs -> [Actors -> Emojis \cup {None}]]
  BY <1>1, NobodyTyped DEF DeleteMessages
<1>4. latest' \in [Msgs -> [Actors -> Emojis \cup {Removed, None}]]
  BY <1>1, NobodyTyped DEF DeleteMessages
<1>5. told' \in [Msgs -> 0..5]
  BY <1>1 DEF DeleteMessages
<1>. QED  BY <1>2, <1>3, <1>4, <1>5

LEMMA DeleteTyped ==
    ASSUME TypeInv, NEW t \in Tasks, delete_message(t) \/ clear_chat(t) \/ delete_chat(t)
    PROVE  TypeInv'
<1>1. ~Idle(t)
  BY HeadCall DEF TypeInv, delete_message, clear_chat, delete_chat
<1>2. HandlersTyped
  BY <1>1, ReturnTyped DEF delete_message, clear_chat, delete_chat
<1>3. CASE delete_message(t)
  BY <1>2, <1>3, DeletionTyped DEF delete_message, TypeInv, TypeOK, HandlersTyped
<1>4. CASE clear_chat(t)
  <2>1. chat # None => [DeferredChat EXCEPT !.activity = chat.activity] \in Chat
    BY DeferredTyped DEF TypeInv, TypeOK, Chat
  <2>2. CASE chat = None
    BY <1>2, <1>4, <2>2 DEF clear_chat, TypeInv, TypeOK, HandlersTyped
  <2>3. CASE chat # None
    BY <1>2, <1>4, <2>1, <2>3, DeletionTyped DEF clear_chat, TypeInv, TypeOK, HandlersTyped
  <2>. QED  BY <2>2, <2>3
<1>5. CASE delete_chat(t)
  <2>1. told' \in [Msgs -> 0..5] /\ messages' \in [Msgs -> Row \cup {None}]
    BY <1>5 DEF delete_chat
  <2>2. /\ reactions' \in [Msgs -> [Actors -> Emojis \cup {None}]]
        /\ pending' \in [Msgs -> [Actors -> Emojis \cup {Removed, None}]]
        /\ latest' \in [Msgs -> [Actors -> Emojis \cup {Removed, None}]]
    BY <1>5, NobodyTyped DEF delete_chat
  <2>. QED  BY <1>2, <1>5, <2>1, <2>2 DEF delete_chat, TypeInv, TypeOK, HandlersTyped
<1>. QED  BY <1>3, <1>4, <1>5

\* A single call that is not of an import makes a well-formed list.
LEMMA OneCall ==
    ASSUME NEW c \in CallType, c.op # "imported"
    PROVE  <<c>> \in Seq(CallType) /\ EndsInRefresh(<<c>>)
BY DEF EndsInRefresh

LEMMA NoCalls == <<>> \in Seq(CallType) /\ EndsInRefresh(<<>>)
BY EmptySeq DEF EndsInRefresh

LEMMA PreviewTyped ==
    ASSUME TypeInv, NEW t \in Tasks, refresh_preview(t)
    PROVE  TypeInv'
<1> DEFINE left == {m \in Msgs : Stored(m)}
<1>1. CASE left = {}
  <2>1. ReturnWith(t, <<Call("clear", None, None)>>)
    BY <1>1 DEF refresh_preview
  <2>2. Call("clear", None, None) \in CallType /\ Call("clear", None, None).op # "imported"
    BY MakeCalls DEF Call
  <2>. QED  BY <2>1, <2>2, OneCall, ReturnWithTyped
            DEF refresh_preview, TypeInv, TypeOK, HandlersTyped, tables, history
<1>2. CASE left # {}
  <2>1. PICK m \in Newest(left) : ReturnWith(t, <<Call("refresh", m, messages[m].text)>>)
    BY <1>2 DEF refresh_preview
  <2>2. m \in Msgs /\ Stored(m)
    BY <2>1 DEF Newest
  <2>3. messages[m].text \in Texts
    BY <2>2 DEF TypeInv, TypeOK, Stored, Row
  <2>4. /\ Call("refresh", m, messages[m].text) \in CallType
        /\ Call("refresh", m, messages[m].text).op # "imported"
    BY <2>2, <2>3, MakeCalls DEF Call
  <2>. QED  BY <2>1, <2>4, OneCall, ReturnWithTyped
            DEF refresh_preview, TypeInv, TypeOK, HandlersTyped, tables, history
<1>. QED  BY <1>1, <1>2

LEMMA NetworkTyped ==
    ASSUME TypeInv, NEW t \in Tasks,
           server_accepts(t) \/ send_answered(t) \/ echo_answered(t) \/ request_answered(t)
    PROVE  TypeInv'
<1>1. ~Idle(t)
  BY HeadCall DEF TypeInv, server_accepts, send_answered, echo_answered, request_answered
<1>2. CASE server_accepts(t)
  BY <1>2 DEF server_accepts, TypeInv, TypeOK, tables, ImportsEndInRefresh
<1>3. CASE send_answered(t)
  <2>1. PICK status \in {"sent", "failed"} : ReturnWith(t, AfterSend(Msg(t), status))
    BY <1>3 DEF send_answered
  <2>2. Msg(t) \in Msgs /\ status \in Statuses
    BY <1>3, HeadCall, CallArguments DEF TypeInv, send_answered, Msg, Statuses
  <2>3. Call("status", Msg(t), status) \in CallType /\ Call("status", Msg(t), status).op # "imported"
    BY <2>2, MakeCalls DEF Call
  <2>4. HandlersTyped
    BY <2>1, <2>3, OneCall, ReturnWithTyped DEF AfterSend
  <2>. QED  BY <1>3, <2>4 DEF send_answered, TypeInv, TypeOK, HandlersTyped, tables, history
<1>4. CASE echo_answered(t) \/ request_answered(t)
  <2>1. Return(t) \/ ReturnWith(t, <<>>)
    BY <1>4 DEF echo_answered, request_answered, Return
  <2>2. HandlersTyped
    BY <1>1, <2>1, NoCalls, ReturnTyped, ReturnWithTyped
  <2>. QED  BY <1>4, <2>2 DEF echo_answered, request_answered, TypeInv, TypeOK, HandlersTyped, tables, history
<1>. QED  BY <1>2, <1>3, <1>4

LEMMA StepTyped ==
    ASSUME TypeInv, NEW t \in Tasks, Step(t)
    PROVE  TypeInv'
BY ActivityTyped, MetaTyped, MarkTyped, HistoryTyped, MessageTyped, FindTyped, ReactTyped, BufferTyped, DrainTyped,
   StatusTyped, TextTyped, DeleteTyped, PreviewTyped, NetworkTyped DEF Step

(***************************************************************************)
(* Type correctness: the handlers.                                         *)
(***************************************************************************)
LEMMA StartTyped ==
    ASSUME TypeInv, NEW t \in Tasks, NEW calls \in Seq(CallType), EndsInRefresh(calls), Start(t, calls),
           arrived' \in [Msgs -> {"nothing", "placeholder", "drafted", "message"}],
           UNCHANGED <<latest, told, fresh>>
    PROVE  TypeInv'
<1>1. raced' \subseteq Msgs \X (Actors \cup {None})
  <2>1. Overlaps(t, calls) \subseteq Msgs \X (Actors \cup {None})
    BY DEF Overlaps
  <2>. QED  BY <2>1 DEF Start, TypeInv, TypeOK
<1>. QED  BY <1>1 DEF TypeInv, TypeOK, Start, tables, ImportsEndInRefresh

\* Lists of two, three and four calls.
LEMMA TwoCalls ==
    ASSUME NEW c \in CallType, NEW d \in CallType, c.op # "imported", d.op # "imported"
    PROVE  <<c, d>> \in Seq(CallType) /\ EndsInRefresh(<<c, d>>)
<1>1. <<c, d>> \in Seq(CallType) /\ Len(<<c, d>>) = 2
  OBVIOUS
<1>2. \A i \in 1..2 : <<c, d>>[i].op # "imported"
  OBVIOUS
<1>. QED  BY <1>1, <1>2, NoImport

LEMMA ThreeCalls ==
    ASSUME NEW c \in CallType, NEW d \in CallType, NEW e \in CallType,
           c.op # "imported", d.op # "imported", e.op # "imported"
    PROVE  <<c, d, e>> \in Seq(CallType) /\ EndsInRefresh(<<c, d, e>>)
<1>1. <<c, d, e>> \in Seq(CallType) /\ Len(<<c, d, e>>) = 3
  OBVIOUS
<1>2. \A i \in 1..3 : <<c, d, e>>[i].op # "imported"
  OBVIOUS
<1>. QED  BY <1>1, <1>2, NoImport

LEMMA FourCalls ==
    ASSUME NEW c \in CallType, NEW d \in CallType, NEW e \in CallType, NEW f \in CallType,
           c.op # "imported", d.op # "imported", e.op # "imported", f.op # "imported"
    PROVE  <<c, d, e, f>> \in Seq(CallType) /\ EndsInRefresh(<<c, d, e, f>>)
<1>1. <<c, d, e, f>> \in Seq(CallType) /\ Len(<<c, d, e, f>>) = 4
  OBVIOUS
<1>2. \A i \in 1..4 : <<c, d, e, f>>[i].op # "imported"
  OBVIOUS
<1>. QED  BY <1>1, <1>2, NoImport

\* An import ends in the refresh of its chat.
LEMMA RefreshLast ==
    ASSUME NEW calls \in Seq(CallType), NEW c \in CallType, c.op = "refresh"
    PROVE  calls \o <<c>> \in Seq(CallType) /\ EndsInRefresh(calls \o <<c>>)
<1>1. <<c>> \in Seq(CallType) /\ Len(<<c>>) = 1 /\ <<c>>[1] = c /\ Len(calls) \in Nat
  BY LenProperties
<1>2. /\ calls \o <<c>> \in Seq(CallType) /\ Len(calls \o <<c>>) = Len(calls) + 1
      /\ (calls \o <<c>>)[Len(calls) + 1] = c
  BY <1>1, ConcatProperties
<1>. QED  BY <1>2 DEF EndsInRefresh

\* The messages and bodies that handlers put into calls.
LEMMA CallOps ==
    ASSUME NEW op, NEW m, NEW arg
    PROVE  Call(op, m, arg).op = op
BY DEF Call

LEMMA InboundTyped ==
    ASSUME TypeInv, NEW t \in Tasks, handle_inbound_message(t)
    PROVE  TypeInv'
<1>1. PICK m \in Msgs : /\ Start(t, InboundCalls(m, Bump(m)))
                        /\ arrived' = [arrived EXCEPT ![m] = "message"]
                        /\ UNCHANGED <<latest, told, fresh>>
  BY DEF handle_inbound_message
<1> DEFINE bump == Call(Bump(m), m, Body)
<1>2. Bump(m) \in {"activity", "refresh"} /\ Body \in Texts
  BY DEF Bump, Texts
<1>3. /\ bump \in CallType /\ Call("meta", m, None) \in CallType
      /\ Call("store", m, InboundRow(m)) \in CallType /\ Call("drain", m, None) \in CallType
  BY <1>2, MakeCalls, RowsTyped DEF RowWriters, Writers
<1>4. /\ bump.op # "imported" /\ Call("meta", m, None).op # "imported"
      /\ Call("store", m, InboundRow(m)).op # "imported" /\ Call("drain", m, None).op # "imported"
  BY <1>2, CallOps
<1>5. InboundCalls(m, Bump(m)) \in Seq(CallType) /\ EndsInRefresh(InboundCalls(m, Bump(m)))
  BY <1>3, <1>4, FourCalls DEF InboundCalls
<1>6. arrived' \in [Msgs -> {"nothing", "placeholder", "drafted", "message"}]
  BY <1>1 DEF TypeInv, TypeOK
<1>. QED  BY <1>1, <1>5, <1>6, StartTyped

LEMMA UndecryptableTyped ==
    ASSUME TypeInv, NEW t \in Tasks, handle_undecryptable(t)
    PROVE  TypeInv'
<1>1. PICK m \in Msgs :
         /\ Start(t, <<Call("sighted", m, PlaceholderRow(m)), Call(Bump(m), m, None)>>)
         /\ arrived' = [arrived EXCEPT ![m] = "placeholder"]
         /\ UNCHANGED <<latest, told, fresh>>
  BY DEF handle_undecryptable
<1>2. Bump(m) \in {"activity", "refresh"} /\ None \in Texts
  BY DEF Bump, Texts
<1>3. /\ Call("sighted", m, PlaceholderRow(m)) \in CallType /\ Call(Bump(m), m, None) \in CallType
      /\ Call("sighted", m, PlaceholderRow(m)).op # "imported" /\ Call(Bump(m), m, None).op # "imported"
  <2>1. PlaceholderRow(m) \in Row /\ "sighted" \in RowWriters
    BY RowsTyped DEF RowWriters
  <2>2. Call("sighted", m, PlaceholderRow(m)) \in CallType
    BY <2>1, MakeCalls
  <2>3. Call(Bump(m), m, None) \in CallType
    BY <1>2, MakeCalls
  <2>. QED  BY <1>2, <2>2, <2>3, CallOps
<1>4. arrived' \in [Msgs -> {"nothing", "placeholder", "drafted", "message"}]
  BY <1>1 DEF TypeInv, TypeOK
<1>. QED  BY <1>1, <1>3, <1>4, TwoCalls, StartTyped

\* Handlers that make one store call.
LEMMA OneCallTyped ==
    ASSUME TypeInv, NEW t \in Tasks,
           \/ handle_reaction(t) \/ handle_receipt(t) \/ handle_revoke(t) \/ handle_edit(t)
           \/ handle_read(t) \/ handle_clear_chat(t) \/ handle_delete_chat(t)
    PROVE  TypeInv'
<1>1. ASSUME NEW c \in CallType, c.op # "imported", Start(t, <<c>>), UNCHANGED history PROVE TypeInv'
  BY <1>1, OneCall, StartTyped DEF history, TypeInv, TypeOK
<1>2. CASE handle_reaction(t)
  <2>1. PICK m \in Msgs, a \in Actors, e \in Emojis \cup {Removed} :
           /\ Start(t, <<Call("lookup", m, [actor |-> a, emoji |-> e])>>)
           /\ UNCHANGED history
    BY <1>2 DEF handle_reaction
  <2>. QED  BY <1>1, <2>1, MakeCalls, CallOps DEF Reacting
<1>3. CASE handle_receipt(t)
  <2>1. PICK m \in Msgs, s \in receipt_status : Start(t, <<Call("status", m, s)>>) /\ UNCHANGED history
    BY <1>3 DEF handle_receipt
  <2>2. s \in Statuses
    BY DEF receipt_status, Statuses
  <2>. QED  BY <1>1, <2>1, <2>2, MakeCalls, CallOps
<1>4. CASE handle_revoke(t)
  BY <1>1, <1>4, MakeCalls, CallOps DEF handle_revoke
<1>5. CASE handle_edit(t)
  BY <1>1, <1>5, MakeCalls, CallOps DEF handle_edit
<1>6. CASE handle_read(t)
  BY <1>1, <1>6, MakeCalls, CallOps DEF handle_read
<1>7. CASE handle_clear_chat(t)
  BY <1>1, <1>7, MakeCalls, CallOps DEF handle_clear_chat
<1>8. CASE handle_delete_chat(t)
  BY <1>1, <1>8, MakeCalls, CallOps DEF handle_delete_chat
<1>. QED  BY <1>2, <1>3, <1>4, <1>5, <1>6, <1>7, <1>8

LEMMA ForMeTyped ==
    ASSUME TypeInv, NEW t \in Tasks, handle_delete_for_me(t)
    PROVE  TypeInv'
<1>1. PICK m \in Msgs : Start(t, <<Call("delete", m, None), Call("list", None, None)>>) /\ UNCHANGED history
  BY DEF handle_delete_for_me
<1>2. /\ Call("delete", m, None) \in CallType /\ Call("list", None, None) \in CallType
      /\ Call("delete", m, None).op # "imported" /\ Call("list", None, None).op # "imported"
  BY MakeCalls, CallOps
<1>. QED  BY <1>1, <1>2, TwoCalls, StartTyped DEF history, TypeInv, TypeOK

LEMMA ImportTyped ==
    ASSUME TypeInv, NEW t \in Tasks, import_history_sync(t)
    PROVE  TypeInv'
<1> DEFINE one(x) == <<Call("imported", x, InboundRow(x)), Call("drain", x, None)>>
           first == <<Call("history", None, None)>>
           last == Call("refresh", None, Body)
<1>1. PICK m \in Msgs, n \in Msgs :
         /\ Start(t, first \o one(m) \o (IF n = m THEN <<>> ELSE one(n)) \o <<last>>)
         /\ UNCHANGED history
  BY Zenon DEF import_history_sync
<1>2. last \in CallType /\ last.op = "refresh" /\ first \in Seq(CallType)
  <2>1. None \in Msgs \cup {None} /\ Body \in Texts /\ "refresh" \in {"activity", "refresh"}
    BY DEF Texts
  <2>2. last \in CallType
    BY <2>1, MakeCalls, Zenon
  <2>3. last.op = "refresh"
    BY CallOps
  <2>4. PICK c \in CallType : c = Call("history", None, None)
    BY MakeCalls, Zenon
  <2>5. <<c>> \in Seq(CallType)
    OBVIOUS
  <2>. QED  BY <2>2, <2>3, <2>4, <2>5
<1>3. one(m) \in Seq(CallType) /\ one(n) \in Seq(CallType)
  <2>1. ASSUME NEW x \in Msgs PROVE one(x) \in Seq(CallType)
    <3>1. Call("imported", x, InboundRow(x)) \in CallType /\ Call("drain", x, None) \in CallType
      BY MakeCalls, RowsTyped DEF RowWriters, Writers
    <3>. QED  BY <3>1
  <2>. QED  BY <2>1
<1> DEFINE second == IF n = m THEN <<>> ELSE one(n)
<1>4. second \in Seq(CallType)
  BY <1>3, EmptySeq
<1> DEFINE most == first \o one(m) \o second
<1>5. most \in Seq(CallType)
  <2> HIDE DEF first, one, second
  <2>1. first \o one(m) \in Seq(CallType)
    BY <1>2, <1>3, ConcatProperties
  <2>. QED  BY <1>4, <2>1, ConcatProperties
<1>6. Start(t, most \o <<last>>)
  BY <1>1
<1> HIDE DEF most, last
<1>7. most \o <<last>> \in Seq(CallType) /\ EndsInRefresh(most \o <<last>>)
  BY <1>2, <1>5, RefreshLast
<1>. QED  BY <1>1, <1>6, <1>7, StartTyped DEF history, TypeInv, TypeOK

LEMMA SendTyped ==
    ASSUME TypeInv, NEW t \in Tasks, send_text(t) \/ persist_and_emit(t)
    PROVE  TypeInv'
<1>0. Body \in Texts
  BY DEF Texts
<1>1. CASE send_text(t)
  <2>1. PICK m \in Drafts :
           /\ Start(t, <<Call("meta", m, None), Call("refresh", m, Body),
                         Call("insert", m, OutgoingRow("pending")), Call("sending", m, None)>>)
           /\ arrived' = [arrived EXCEPT ![m] = "drafted"]
           /\ UNCHANGED <<latest, told, fresh>>
    BY <1>1 DEF send_text
  <2>2. m \in Msgs /\ OutgoingRow("pending") \in Row
    BY MessageLogAssumption, RowsTyped DEF Statuses
  <2>3. /\ Call("meta", m, None) \in CallType /\ Call("refresh", m, Body) \in CallType
        /\ Call("insert", m, OutgoingRow("pending")) \in CallType /\ Call("sending", m, None) \in CallType
    BY <1>0, <2>2, MakeCalls DEF RowWriters, Writers
  <2>4. /\ Call("meta", m, None).op # "imported" /\ Call("refresh", m, Body).op # "imported"
        /\ Call("insert", m, OutgoingRow("pending")).op # "imported" /\ Call("sending", m, None).op # "imported"
    BY CallOps
  <2>5. arrived' \in [Msgs -> {"nothing", "placeholder", "drafted", "message"}]
    BY <2>1, <2>2 DEF TypeInv, TypeOK
  <2>. QED  BY <2>1, <2>3, <2>4, <2>5, FourCalls, StartTyped
<1>2. CASE persist_and_emit(t)
  <2>1. PICK m \in Drafts :
           /\ Start(t, <<Call("echoing", m, None), Call("refresh", m, Body), Call("insert", m, OutgoingRow("sent"))>>)
           /\ arrived' = [arrived EXCEPT ![m] = "drafted"]
           /\ UNCHANGED <<latest, told, fresh>>
    BY <1>2 DEF persist_and_emit
  <2>2. m \in Msgs /\ OutgoingRow("sent") \in Row
    BY MessageLogAssumption, RowsTyped DEF Statuses
  <2>3. /\ Call("echoing", m, None) \in CallType /\ Call("refresh", m, Body) \in CallType
        /\ Call("insert", m, OutgoingRow("sent")) \in CallType
    BY <1>0, <2>2, MakeCalls DEF RowWriters, Writers
  <2>4. /\ Call("echoing", m, None).op # "imported" /\ Call("refresh", m, Body).op # "imported"
        /\ Call("insert", m, OutgoingRow("sent")).op # "imported"
    BY CallOps
  <2>5. arrived' \in [Msgs -> {"nothing", "placeholder", "drafted", "message"}]
    BY <2>1, <2>2 DEF TypeInv, TypeOK
  <2>. QED  BY <2>1, <2>3, <2>4, <2>5, ThreeCalls, StartTyped
<1>. QED  BY <1>1, <1>2

LEMMA RewriteTyped ==
    ASSUME TypeInv, NEW t \in Tasks, edit_message(t) \/ revoke_message(t)
    PROVE  TypeInv'
<1>1. PICK m \in Msgs, row \in Row, op \in {"edited", "revoked"} :
         /\ Start(t, <<Call("request", m, None), Call(op, m, row)>>)
         /\ UNCHANGED history
  <2>1. CASE edit_message(t)
    <3>1. PICK m \in Own, x \in Edits :
             /\ Stored(m)
             /\ Start(t, <<Call("request", m, None), Call("edited", m, [messages[m] EXCEPT !.text = x])>>)
             /\ UNCHANGED history
      BY <2>1 DEF edit_message
    <3>2. m \in Msgs /\ messages[m] \in Row /\ x \in Texts
      BY <3>1, MessageLogAssumption DEF TypeInv, TypeOK, Stored, Texts
    <3>3. [messages[m] EXCEPT !.text = x] \in Row
      BY <3>2, RowsTyped
    <3>. QED  BY <3>1, <3>2, <3>3
  <2>2. CASE revoke_message(t)
    <3>1. PICK m \in Msgs :
             /\ Stored(m)
             /\ Start(t, <<Call("request", m, None),
                           Call("revoked", m, [messages[m] EXCEPT !.text = None, !.kind = "unsupported"])>>)
             /\ UNCHANGED history
      BY <2>2 DEF revoke_message
    <3>2. m \in Msgs /\ messages[m] \in Row /\ None \in Texts
      BY <3>1 DEF TypeInv, TypeOK, Stored, Texts
    <3>3. [messages[m] EXCEPT !.text = None, !.kind = "unsupported"] \in Row
      BY <3>2, RowsTyped
    <3>. QED  BY <3>1, <3>2, <3>3
  <2>. QED  BY <2>1, <2>2
<1>2. /\ Call("request", m, None) \in CallType /\ Call(op, m, row) \in CallType
      /\ Call("request", m, None).op # "imported" /\ Call(op, m, row).op # "imported"
  BY <1>1, MakeCalls, CallOps DEF RowWriters, Writers
<1>. QED  BY <1>1, <1>2, TwoCalls, StartTyped DEF history, TypeInv, TypeOK

LEMMA HandlerTyped ==
    ASSUME TypeInv, NEW t \in Tasks, Handler(t)
    PROVE  TypeInv'
BY InboundTyped, UndecryptableTyped, OneCallTyped, ForMeTyped, ImportTyped, SendTyped, RewriteTyped DEF Handler

LEMMA InitTyped == Init => TypeInv
BY EmptySeq, NoCalls, NobodyTyped DEF Init, TypeInv, TypeOK, ImportsEndInRefresh

LEMMA NextTyped == TypeInv /\ [Next]_vars => TypeInv'
<1> SUFFICES ASSUME TypeInv, [Next]_vars PROVE TypeInv'
  OBVIOUS
<1>1. CASE UNCHANGED vars
  BY <1>1 DEF vars, tables, history, TypeInv, TypeOK, ImportsEndInRefresh
<1>2. ASSUME NEW t \in Tasks, Step(t) \/ Handler(t) PROVE TypeInv'
  BY <1>2, StepTyped, HandlerTyped
<1>. QED  BY <1>1, <1>2 DEF Next

LEMMA TypeInvHolds == Spec => []TypeInv
<1>. QED  BY InitTyped, NextTyped, PTL DEF Spec

\* Every table and every handler keeps its shape, whatever the messages, the
\* handlers and the interleaving.
THEOREM TypeCorrect == Spec => []TypeOK
<1>1. TypeInv => TypeOK
  BY DEF TypeInv
<1>. QED  BY <1>1, TypeInvHolds, PTL

(***************************************************************************)
(* Statuses.  When no handler writes rows that were stored before - history *)
(* pages, retries of undecryptable messages, edits and revokes of one's own *)
(* messages - a row is written once, and only receipts touch its status.   *)
(***************************************************************************)
Rewriters == {"import", "undecryptable", "edit", "revoke"}
NoRewriters == \A t \in Tasks : Duties[t] \cap Rewriters = {}

\* A row still to be written is the only one of its message, which has left the
\* server's queue and is not stored yet.
WritesOnce ==
    \A t \in Tasks : \A i \in 1..Len(todo[t]) :
       todo[t][i].op \in RowWriters =>
          /\ todo[t][i].op \in {"store", "insert"}
          /\ messages[todo[t][i].msg] = None
          /\ arrived[todo[t][i].msg] # "nothing"
          /\ \A u \in Tasks : \A k \in 1..Len(todo[u]) :
                todo[u][k].op \in RowWriters /\ todo[u][k].msg = todo[t][i].msg => u = t /\ k = i
\* What has not arrived is not stored, and arrives or is drafted only once.
ArrivesOnce ==
    \A m \in Msgs :
       /\ arrived[m] = "nothing" => messages[m] = None
       /\ arrived[m] # "placeholder"
       /\ m \notin Drafts => arrived[m] # "drafted"
WriteInv == TypeInv /\ WritesOnce /\ ArrivesOnce

LEMMA NotStoredYet ==
    ASSUME ArrivesOnce, NEW m \in Msgs, arrived[m] = "nothing"
    PROVE  messages[m] = None
BY DEF ArrivesOnce

LEMMA RowToWrite ==
    ASSUME WritesOnce, NEW t \in Tasks, NEW i \in 1..Len(todo[t]), todo[t][i].op \in RowWriters
    PROVE  /\ todo[t][i].op \in {"store", "insert"}
           /\ messages[todo[t][i].msg] = None
           /\ arrived[todo[t][i].msg] # "nothing"
           /\ \A u \in Tasks : \A k \in 1..Len(todo[u]) :
                 todo[u][k].op \in RowWriters /\ todo[u][k].msg = todo[t][i].msg => u = t /\ k = i
BY DEF WritesOnce

\* The rows that `rest` writes are rows the handler had still to write behind its first
\* call, in the same places or each one place ahead.
Behind(t, rest) ==
    \E d \in {0, 1} : \A i \in 1..Len(rest) :
       rest[i].op \in RowWriters =>
          i + d \in 1..Len(todo[t]) /\ i + d # 1 /\ rest[i] = todo[t][i + d]

LEMMA TailIsBehind ==
    ASSUME TypeInv, NEW t \in Tasks, ~Idle(t)
    PROVE  Behind(t, Tail(todo[t]))
<1>1. todo[t] \in Seq(CallType) /\ todo[t] # <<>>
  BY BusyTask DEF TypeInv, Idle
<1>2. /\ Len(todo[t]) \in Nat \ {0} /\ Len(Tail(todo[t])) = Len(todo[t]) - 1
      /\ \A k \in 1..Len(Tail(todo[t])) : Tail(todo[t])[k] = todo[t][k + 1]
  BY <1>1, EmptySeq, HeadTailProperties
<1>3. \A i \in 1..Len(Tail(todo[t])) :
         i + 1 \in 1..Len(todo[t]) /\ i + 1 # 1 /\ Tail(todo[t])[i] = todo[t][i + 1]
  BY <1>2
<1>. QED  BY <1>3 DEF Behind

LEMMA NothingBehind ==
    ASSUME NEW t \in Tasks, NEW c, c.op \notin RowWriters
    PROVE  Behind(t, <<>>) /\ Behind(t, <<c>>)
BY DEF Behind

\* A step of a handler keeps WritesOnce: it stores at most the message at its head.
LEMMA StepWritesOnce ==
    ASSUME TypeInv, WritesOnce, NEW t \in Tasks, ~Idle(t), NEW rest, TypeInv',
           ReturnWith(t, rest), Behind(t, rest),
           \A m \in Msgs : messages[m] = None /\ messages'[m] # None
                           => todo[t][1].op \in RowWriters /\ m = todo[t][1].msg,
           \A m \in Msgs : arrived[m] # "nothing" => arrived'[m] # "nothing"
    PROVE  WritesOnce'
<1>1. todo \in [Tasks -> Seq(CallType)] /\ Len(todo[t]) \in Nat \ {0}
  BY BusyTask DEF TypeInv, TypeOK
<1>2. /\ rest \in Seq(CallType)
      /\ \A u \in Tasks : todo'[u] = IF u = t THEN rest ELSE todo[u]
  BY <1>1 DEF ReturnWith, TypeInv, TypeOK
<1>0. PICK d \in {0, 1} : \A i \in 1..Len(rest) :
         rest[i].op \in RowWriters =>
            i + d \in 1..Len(todo[t]) /\ i + d # 1 /\ rest[i] = todo[t][i + d]
  BY DEF Behind
<1> DEFINE was(u, i) == IF u = t THEN i + d ELSE i
<1>3. ASSUME NEW u \in Tasks, NEW i \in 1..Len(todo'[u]), todo'[u][i].op \in RowWriters
      PROVE  /\ was(u, i) \in 1..Len(todo[u])
             /\ todo'[u][i] = todo[u][was(u, i)]
             /\ u = t => was(u, i) # 1
  <2>1. Len(rest) \in Nat /\ Len(todo[u]) \in Nat
    BY <1>1, <1>2, LenProperties
  <2>2. CASE u = t
    BY <1>0, <1>2, <1>3, <2>1, <2>2
  <2>3. CASE u # t
    BY <1>2, <1>3, <2>1, <2>3
  <2>. QED  BY <2>2, <2>3
<1> SUFFICES ASSUME NEW u \in Tasks, NEW i \in 1..Len(todo'[u]), todo'[u][i].op \in RowWriters
             PROVE  /\ todo'[u][i].op \in {"store", "insert"}
                    /\ messages'[todo'[u][i].msg] = None
                    /\ arrived'[todo'[u][i].msg] # "nothing"
                    /\ \A v \in Tasks : \A k \in 1..Len(todo'[v]) :
                          todo'[v][k].op \in RowWriters /\ todo'[v][k].msg = todo'[u][i].msg => v = u /\ k = i
  BY DEF WritesOnce
<1> DEFINE c == todo'[u][i]
<1>4. /\ was(u, i) \in 1..Len(todo[u]) /\ c = todo[u][was(u, i)] /\ (u = t => was(u, i) # 1)
  BY <1>3
<1>5. /\ c.op \in {"store", "insert"} /\ messages[c.msg] = None /\ arrived[c.msg] # "nothing"
      /\ \A v \in Tasks : \A k \in 1..Len(todo[v]) :
            todo[v][k].op \in RowWriters /\ todo[v][k].msg = c.msg => v = u /\ k = was(u, i)
  <2>1. PICK j \in 1..Len(todo[u]) : j = was(u, i)
    BY <1>4
  <2>2. c = todo[u][j] /\ c.op \in RowWriters
    BY <1>4, <2>1
  <2> HIDE DEF c, was
  <2>3. todo[u][j].op \in RowWriters
    BY <2>2
  <2>4. /\ todo[u][j].op \in {"store", "insert"}
        /\ messages[todo[u][j].msg] = None
        /\ arrived[todo[u][j].msg] # "nothing"
        /\ \A v \in Tasks : \A k \in 1..Len(todo[v]) :
              todo[v][k].op \in RowWriters /\ todo[v][k].msg = todo[u][j].msg => v = u /\ k = j
    BY <2>3, RowToWrite
  <2>. QED  BY <2>1, <2>2, <2>4, Zenon
<1>6. c.msg \in Msgs
  <2>1. c \in CallType
    BY <1>1, <1>4, ElementOfSeq
  <2>. QED  BY <2>1, CallArguments
<1>7. messages'[c.msg] = None
  <2> SUFFICES ASSUME messages'[c.msg] # None PROVE FALSE
    OBVIOUS
  <2>1. todo[t][1].op \in RowWriters /\ c.msg = todo[t][1].msg
    BY <1>5, <1>6
  <2>2. 1 \in 1..Len(todo[t])
    BY <1>1
  <2>3. t = u /\ 1 = was(u, i)
    BY <1>5, <2>1, <2>2
  <2>. QED  BY <1>4, <2>3
<1>8. ASSUME NEW v \in Tasks, NEW k \in 1..Len(todo'[v]), todo'[v][k].op \in RowWriters, todo'[v][k].msg = c.msg
      PROVE  v = u /\ k = i
  <2>1. was(v, k) \in 1..Len(todo[v]) /\ todo'[v][k] = todo[v][was(v, k)]
    BY <1>3, <1>8
  <2>2. v = u /\ was(v, k) = was(u, i)
    BY <1>5, <1>8, <2>1
  <2>. QED  BY <2>2
<1>. QED  BY <1>5, <1>6, <1>7, <1>8

\* What a step does to the rows: a new one is the message at the handler's head,
\* and a row that stays keeps its status or gets a higher one.
RowsKept(t) ==
    \A m \in Msgs :
       /\ messages[m] = None /\ messages'[m] # None => todo[t][1].op \in RowWriters /\ m = todo[t][1].msg
       /\ messages[m] # None /\ messages'[m] # None
            => status_rank(messages'[m].status) >= status_rank(messages[m].status)

LEMMA SameRowsKept ==
    ASSUME TypeInv, NEW t, messages' = messages
    PROVE  RowsKept(t)
<1>1. \A m \in Msgs : messages[m] # None => status_rank(messages[m].status) \in 0..5
  BY RanksAreNumbers DEF TypeInv, TypeOK, Row
<1>. QED  BY <1>1 DEF RowsKept

\* Rows that go, or stay with their status.
LEMMA StatusKept ==
    ASSUME TypeInv, NEW t,
           \A m \in Msgs : \/ messages'[m] = None
                           \/ messages[m] # None /\ messages'[m].status = messages[m].status
    PROVE  RowsKept(t)
<1>1. \A m \in Msgs : messages[m] # None => status_rank(messages[m].status) \in 0..5
  BY RanksAreNumbers DEF TypeInv, TypeOK, Row
<1>. QED  BY <1>1 DEF RowsKept

LEMMA StatusCallKeeps ==
    ASSUME TypeInv, NEW t \in Tasks, set_message_status(t)
    PROVE  RowsKept(t)
<1>1. Msg(t) \in Msgs /\ Arg(t) \in Statuses
  BY HeadCall, CallArguments DEF TypeInv, set_message_status, Msg, Arg
<1>2. \A m \in Msgs : messages[m] # None => messages[m] \in Row /\ status_rank(messages[m].status) \in 0..5
  BY RanksAreNumbers DEF TypeInv, TypeOK, Row
<1>3. \A m \in Msgs : m # Msg(t) => messages'[m] = messages[m]
  BY DEF TypeInv, TypeOK, set_message_status
<1>4. messages'[Msg(t)] = IF messages[Msg(t)] # None /\ Upgrades(messages[Msg(t)].status, Arg(t))
                          THEN [messages[Msg(t)] EXCEPT !.status = Arg(t)] ELSE messages[Msg(t)]
  BY <1>1 DEF TypeInv, TypeOK, set_message_status
<1>5. status_rank(Arg(t)) \in 0..5
  BY <1>1, RanksAreNumbers
<1>6. CASE messages[Msg(t)] = None \/ ~Upgrades(messages[Msg(t)].status, Arg(t))
  <2>1. \A m \in Msgs : messages'[m] = messages[m]
    BY <1>3, <1>4, <1>6
  <2>. QED  BY <1>2, <2>1 DEF RowsKept
<1>7. CASE messages[Msg(t)] # None /\ Upgrades(messages[Msg(t)].status, Arg(t))
  <2>1. messages'[Msg(t)].status = Arg(t)
    BY <1>1, <1>2, <1>4, <1>7 DEF Row
  <2>2. status_rank(Arg(t)) > status_rank(messages[Msg(t)].status)
    BY <1>7 DEF Upgrades
  <2> SUFFICES ASSUME NEW m \in Msgs
               PROVE  /\ messages[m] # None \/ messages'[m] = None
                      /\ messages[m] # None /\ messages'[m] # None
                           => status_rank(messages'[m].status) >= status_rank(messages[m].status)
    BY DEF RowsKept
  <2>3. CASE m = Msg(t)
    BY <1>2, <1>5, <1>7, <2>1, <2>2, <2>3
  <2>4. CASE m # Msg(t)
    BY <1>2, <1>3, <2>4
  <2>. QED  BY <2>3, <2>4
<1>. QED  BY <1>6, <1>7

LEMMA TextCallsKeep ==
    ASSUME TypeInv, NEW t \in Tasks, mark_message_revoked(t) \/ update_message_text(t)
    PROVE  RowsKept(t)
<1>1. \A m \in Msgs : messages[m] # None => messages[m] \in Row
  BY DEF TypeInv, TypeOK
<1>2. CASE mark_message_revoked(t)
  <2>1. \A m \in Msgs : messages'[m] \in {messages[m], IF messages[m] = None THEN None
                                          ELSE [messages[m] EXCEPT !.text = None, !.kind = "unsupported"]}
    BY <1>2 DEF TypeInv, TypeOK, mark_message_revoked
  <2>. QED  BY <1>1, <2>1, StatusKept DEF Row
<1>3. CASE update_message_text(t)
  <2>1. \A m \in Msgs : messages'[m] \in {messages[m], IF messages[m] = None THEN None
                                          ELSE [messages[m] EXCEPT !.text = Arg(t), !.kind = "text"]}
    BY <1>3 DEF TypeInv, TypeOK, update_message_text
  <2>. QED  BY <1>1, <2>1, StatusKept DEF Row
<1>. QED  BY <1>2, <1>3

LEMMA DeletesKeep ==
    ASSUME TypeInv, NEW t \in Tasks, delete_message(t) \/ clear_chat(t) \/ delete_chat(t)
    PROVE  RowsKept(t)
<1>1. \A m \in Msgs : messages'[m] = None \/ messages'[m] = messages[m]
  BY DEF delete_message, clear_chat, delete_chat, DeleteMessages, TypeInv, TypeOK
<1>. QED  BY <1>1, StatusKept

\* The messages of WritesOnce are written while they are not stored.
LEMMA WriterKeeps ==
    ASSUME TypeInv, WritesOnce, NEW t \in Tasks, upsert_message(t)
    PROVE  /\ RowsKept(t)
           /\ \E rest : ReturnWith(t, rest) /\ Behind(t, rest)
<1>1. PICK op \in RowWriters : At(t, op)
  BY DEF upsert_message, RowWriters
<1>2. ~Idle(t) /\ Msg(t) \in Msgs /\ Arg(t) \in Row /\ todo[t][1].op = op
  BY <1>1, HeadCall, CallArguments DEF TypeInv, Msg, Arg
<1>3. 1 \in 1..Len(todo[t])
  BY <1>2, BusyTask DEF TypeInv
<1>4. todo[t][1].op \in RowWriters
  BY <1>2
<1>5. op \in {"store", "insert"} /\ messages[Msg(t)] = None
  BY <1>2, <1>3, <1>4 DEF WritesOnce, Msg
<1>6. ~At(t, "imported") /\ ~At(t, "placeholder")
  BY <1>2, <1>5 DEF At
<1>7. \A m \in Msgs : m = Msg(t) \/ messages'[m] = messages[m]
  BY DEF upsert_message, TypeInv, TypeOK
<1>8. RowsKept(t)
  <2>1. \A m \in Msgs : messages[m] # None => status_rank(messages[m].status) \in 0..5
    BY RanksAreNumbers DEF TypeInv, TypeOK, Row
  <2>. QED  BY <1>4, <1>5, <1>7, <2>1 DEF RowsKept, Msg
<1>9. ReturnWith(t, Tail(todo[t])) \/ ReturnWith(t, <<>>)
  BY <1>6 DEF upsert_message, AfterRefusal
<1>10. Behind(t, Tail(todo[t]))
  BY <1>2, TailIsBehind
<1>11. Behind(t, <<>>)
  BY DEF Behind
<1>. QED  BY <1>8, <1>9, <1>10, <1>11

\* Every store call, and every answer of the server.
LEMMA StepKeeps ==
    ASSUME TypeInv, WritesOnce, NEW t \in Tasks, Step(t), ~server_accepts(t)
    PROVE  /\ ~Idle(t)
           /\ arrived' = arrived
           /\ RowsKept(t)
           /\ \E rest : ReturnWith(t, rest) /\ Behind(t, rest)
<1>1. ~Idle(t)
  BY DEF Step, find_reaction_target, find_undecryptable, At, record_message_activity, set_chat_last_message_meta, upsert_message, upsert_reaction,
         buffer_pending_reaction, drain_pending_reactions, set_message_status, mark_message_revoked,
         update_message_text, delete_message, refresh_preview, clear_chat, delete_chat, mark_chat,
         upsert_chat_from_history, server_accepts, send_answered, echo_answered, request_answered,
         find_reaction_target, find_undecryptable
<1>2. arrived' = arrived
  BY DEF Step, find_reaction_target, find_undecryptable, record_message_activity, set_chat_last_message_meta, upsert_message, upsert_reaction,
         buffer_pending_reaction, drain_pending_reactions, set_message_status, mark_message_revoked,
         update_message_text, delete_message, refresh_preview, clear_chat, delete_chat, mark_chat,
         upsert_chat_from_history, send_answered, echo_answered, request_answered, history
<1>3. Return(t) => \E rest : ReturnWith(t, rest) /\ Behind(t, rest)
  BY <1>1, TailIsBehind DEF Return
<1>4. CASE \/ record_message_activity(t) \/ set_chat_last_message_meta(t) \/ upsert_reaction(t)
           \/ buffer_pending_reaction(t) \/ drain_pending_reactions(t) \/ mark_chat(t)
           \/ upsert_chat_from_history(t)
  <2>1. messages' = messages /\ Return(t)
    BY <1>4 DEF record_message_activity, set_chat_last_message_meta, upsert_reaction,
                buffer_pending_reaction, drain_pending_reactions, mark_chat, upsert_chat_from_history
  <2>. QED  BY <1>1, <1>2, <1>3, <2>1, SameRowsKept
<1>5. CASE set_message_status(t)
  BY <1>1, <1>2, <1>3, <1>5, StatusCallKeeps DEF set_message_status
<1>6. CASE mark_message_revoked(t) \/ update_message_text(t)
  BY <1>1, <1>2, <1>3, <1>6, TextCallsKeep DEF mark_message_revoked, update_message_text
<1>7. CASE delete_message(t) \/ clear_chat(t) \/ delete_chat(t)
  BY <1>1, <1>2, <1>3, <1>7, DeletesKeep DEF delete_message, clear_chat, delete_chat
<1>8. CASE upsert_message(t)
  BY <1>1, <1>2, <1>8, WriterKeeps
<1>9. CASE refresh_preview(t)
  <2>1. messages' = messages
    BY <1>9 DEF refresh_preview, tables
  <2>2. \/ ReturnWith(t, <<Call("clear", None, None)>>)
        \/ \E m : ReturnWith(t, <<Call("refresh", m, messages[m].text)>>)
    BY <1>9 DEF refresh_preview
  <2>3. \A op \in {"clear", "refresh"} : \A m, x : Behind(t, <<Call(op, m, x)>>)
    <3>1. \A op \in {"clear", "refresh"} : \A m, x : Call(op, m, x).op \notin RowWriters
      BY DEF Call, RowWriters, Writers
    <3>. QED  BY <3>1, NothingBehind
  <2>4. \E rest : ReturnWith(t, rest) /\ Behind(t, rest)
    BY <2>2, <2>3
  <2>. QED  BY <1>1, <1>2, <2>1, <2>4, SameRowsKept
<1>10. CASE send_answered(t)
  <2>1. messages' = messages
    BY <1>10 DEF send_answered, tables
  <2>2. PICK m, x : ReturnWith(t, <<Call("status", m, x)>>)
    BY <1>10 DEF send_answered, AfterSend
  <2>3. Call("status", m, x).op \notin RowWriters
    BY DEF Call, RowWriters, Writers
  <2>4. Behind(t, <<Call("status", m, x)>>)
    BY <2>3, NothingBehind
  <2>. QED  BY <1>1, <1>2, <2>1, <2>2, <2>4, SameRowsKept
<1>11. CASE echo_answered(t) \/ request_answered(t)
  <2>1. messages' = messages
    BY <1>11 DEF echo_answered, request_answered, tables
  <2>2. Return(t) \/ ReturnWith(t, <<>>)
    BY <1>11 DEF echo_answered, request_answered, Return
  <2>3. Behind(t, <<>>)
    BY DEF Behind
  <2>. QED  BY <1>1, <1>2, <1>3, <2>1, <2>2, <2>3, SameRowsKept
<1>12. CASE find_reaction_target(t)
  <2>1. messages' = messages
    BY <1>12 DEF find_reaction_target, tables
  <2>2. PICK op \in {"react", "buffer"} : Becomes(t, op)
    BY <1>12 DEF find_reaction_target
  <2>3. PICK next : next = [todo[t] EXCEPT ![1].op = op]
    OBVIOUS
  <2>4. ReturnWith(t, next)
    BY <2>2, <2>3 DEF Becomes
  <2>5. Behind(t, next)
    <3>1. todo[t] \in Seq(CallType) /\ 1 \in 1..Len(todo[t])
      BY <1>1, BusyTask DEF TypeInv
    <3>2. PICK c : c = [todo[t][1] EXCEPT !.op = op]
      OBVIOUS
    <3>3. todo[t][1] \in CallType /\ todo[t][1].op = "lookup"
      BY <1>12, HeadCall DEF TypeInv, find_reaction_target
    <3>4. c \in CallType /\ c.op = op
      <4> DEFINE Reactings == [op : Reacting, msg : Msgs, arg : [actor : Actors, emoji : Emojis \cup {Removed}]]
      <4>1. todo[t][1] \in Reactings
        BY <3>3, SMT DEF CallType, Writers, Reacting
      <4>2. c \in Reactings /\ c.op = op
        BY <3>2, <4>1 DEF Reacting
      <4>. QED  BY <4>2 DEF CallType
    <3>5. next = [todo[t] EXCEPT ![1] = c]
      BY <2>3, <3>2
    <3>6. Len(next) = Len(todo[t]) /\ \A i \in 1..Len(todo[t]) : next[i] = IF i = 1 THEN c ELSE todo[t][i]
      BY <3>1, <3>4, <3>5, ExceptSeq
    <3>7. op \notin RowWriters
      BY DEF RowWriters, Writers
    <3>8. \A i \in 1..Len(next) :
             next[i].op \in RowWriters => i + 0 \in 1..Len(todo[t]) /\ i + 0 # 1 /\ next[i] = todo[t][i + 0]
      BY <3>4, <3>6, <3>7
    <3>. QED  BY <3>8 DEF Behind
  <2>. QED  BY <1>1, <1>2, <2>1, <2>4, <2>5, SameRowsKept
<1>13. CASE find_undecryptable(t)
  <2>1. todo[t][1].op = "sighted" /\ 1 \in 1..Len(todo[t])
    BY <1>1, <1>13, BusyTask DEF find_undecryptable, At, TypeInv
  <2>2. todo[t][1].op \in {"store", "insert"}
    BY <2>1, RowToWrite DEF RowWriters
  <2>. QED  BY <2>1, <2>2
<1>. QED  BY <1>4, <1>5, <1>6, <1>7, <1>8, <1>9, <1>10, <1>11, <1>12, <1>13 DEF Step

LEMMA StepKeepsWrites ==
    ASSUME WriteInv, NEW t \in Tasks, Step(t), TypeInv'
    PROVE  WritesOnce' /\ ArrivesOnce'
<1>1. CASE server_accepts(t)
  <2>1. /\ todo' = todo /\ messages' = messages /\ arrived[Msg(t)] = "drafted"
        /\ arrived' = [arrived EXCEPT ![Msg(t)] = "message"]
    BY <1>1 DEF server_accepts, tables
  <2>2. \A m \in Msgs : arrived'[m] = arrived[m] \/ (arrived'[m] = "message" /\ arrived[m] = "drafted")
    <3>1. arrived \in [Msgs -> {"nothing", "placeholder", "drafted", "message"}]
      BY DEF WriteInv, TypeInv, TypeOK
    <3>2. \A m \in Msgs : arrived'[m] = IF m = Msg(t) THEN "message" ELSE arrived[m]
      BY <2>1, <3>1
    <3>. QED  BY <2>1, <3>2
  <2>3. ArrivesOnce'
    BY <2>1, <2>2 DEF WriteInv, ArrivesOnce
  <2>4. ASSUME NEW u \in Tasks, NEW i \in 1..Len(todo[u]), todo[u][i].op \in RowWriters
        PROVE  arrived'[todo[u][i].msg] # "nothing"
    <3>1. todo[u][i].msg \in Msgs
      <4>1. todo[u] \in Seq(CallType)
        BY DEF WriteInv, TypeInv, TypeOK
      <4>2. todo[u][i] \in CallType
        BY <4>1, ElementOfSeq
      <4>. QED  BY <2>4, <4>2, CallArguments
    <3>2. arrived[todo[u][i].msg] # "nothing"
      BY <2>4, RowToWrite DEF WriteInv
    <3>. QED  BY <2>2, <3>1, <3>2
  <2>5. WritesOnce'
    BY <2>1, <2>4 DEF WriteInv, WritesOnce
  <2>. QED  BY <2>3, <2>5
<1>2. CASE ~server_accepts(t)
  <2>1. ~Idle(t) /\ arrived' = arrived /\ RowsKept(t)
    BY <1>2, StepKeeps DEF WriteInv
  <2>2. PICK rest : ReturnWith(t, rest) /\ Behind(t, rest)
    BY <1>2, StepKeeps DEF WriteInv
  <2>3. \A m \in Msgs : messages[m] = None /\ messages'[m] # None
                          => todo[t][1].op \in RowWriters /\ m = todo[t][1].msg
    BY <2>1 DEF RowsKept
  <2>4. WritesOnce'
    BY <2>1, <2>2, <2>3, StepWritesOnce DEF WriteInv
  <2>5. ASSUME NEW m \in Msgs, arrived[m] = "nothing", messages'[m] # None PROVE FALSE
    <3>1. messages[m] = None
      BY <2>5, NotStoredYet DEF WriteInv
    <3>2. todo[t][1].op \in RowWriters /\ m = todo[t][1].msg
      BY <2>3, <2>5, <3>1
    <3>3. 1 \in 1..Len(todo[t])
      BY <2>1, BusyTask DEF WriteInv, TypeInv
    <3>. QED  BY <2>5, <3>2, <3>3, RowToWrite DEF WriteInv
  <2>6. ArrivesOnce'
    BY <2>1, <2>5 DEF WriteInv, ArrivesOnce
  <2>. QED  BY <2>4, <2>6
<1>. QED  BY <1>1, <1>2

\* What a handler that starts writes: nothing, or its call number j, the row of a
\* message m that arrives with it.
NothingUnlearned == \A u \in Msgs : arrived[u] # "nothing" => arrived'[u] # "nothing"
WritesArrival(calls, m, j) ==
    \A i \in 1..Len(calls) : calls[i].op \in RowWriters =>
       /\ i = j
       /\ calls[i].op \in {"store", "insert"}
       /\ calls[i].msg = m
       /\ arrived[m] = "nothing"
       /\ arrived'[m] # "nothing"

\* No row of that message is stored, and no other is still to be written.
LEMMA StartWritesOnce ==
    ASSUME WriteInv, TypeInv', NEW t \in Tasks, NEW calls, Start(t, calls), NEW m, NEW j,
           NothingUnlearned, WritesArrival(calls, m, j)
    PROVE  WritesOnce'
<1>1. todo \in [Tasks -> Seq(CallType)] /\ todo' \in [Tasks -> Seq(CallType)]
  BY DEF WriteInv, TypeInv, TypeOK
<1>2. messages' = messages /\ \A u \in Tasks : todo'[u] = IF u = t THEN calls ELSE todo[u]
  BY <1>1 DEF Start, tables
<1>3. ASSUME NEW u \in Tasks, NEW i \in 1..Len(todo'[u]), todo'[u][i].op \in RowWriters
      PROVE  todo'[u][i].msg \in Msgs
  <2>1. todo'[u][i] \in CallType
    BY <1>1, ElementOfSeq
  <2>. QED  BY <1>3, <2>1, CallArguments
<1>4. ASSUME NEW u \in Tasks, NEW i \in 1..Len(todo'[u]), todo'[u][i].op \in RowWriters, u # t
      PROVE  /\ todo'[u][i].op \in {"store", "insert"}
             /\ messages[todo'[u][i].msg] = None
             /\ arrived[todo'[u][i].msg] # "nothing"
             /\ \A v \in Tasks \ {t} : \A k \in 1..Len(todo'[v]) :
                   todo'[v][k].op \in RowWriters /\ todo'[v][k].msg = todo'[u][i].msg => v = u /\ k = i
  <2>1. todo'[u] = todo[u] /\ \A v \in Tasks \ {t} : todo'[v] = todo[v]
    BY <1>2, <1>4
  <2>2. /\ todo[u][i].op \in {"store", "insert"}
        /\ messages[todo[u][i].msg] = None
        /\ arrived[todo[u][i].msg] # "nothing"
        /\ \A v \in Tasks : \A k \in 1..Len(todo[v]) :
              todo[v][k].op \in RowWriters /\ todo[v][k].msg = todo[u][i].msg => v = u /\ k = i
    BY <1>4, <2>1, RowToWrite DEF WriteInv
  <2>. QED  BY <2>1, <2>2
<1>5. ASSUME NEW i \in 1..Len(todo'[t]), todo'[t][i].op \in RowWriters
      PROVE  /\ i = j /\ todo'[t][i].op \in {"store", "insert"} /\ todo'[t][i].msg = m
             /\ arrived[m] = "nothing" /\ arrived'[m] # "nothing" /\ m \in Msgs /\ messages[m] = None
  <2>1. todo'[t] = calls
    BY <1>2
  <2>2. /\ i = j /\ todo'[t][i].op \in {"store", "insert"} /\ todo'[t][i].msg = m
        /\ arrived[m] = "nothing" /\ arrived'[m] # "nothing"
    BY <1>5, <2>1 DEF WritesArrival
  <2>3. m \in Msgs
    BY <1>3, <1>5, <2>2
  <2>4. messages[m] = None
    BY <2>2, <2>3, NotStoredYet DEF WriteInv
  <2>. QED  BY <2>2, <2>3, <2>4
<1> SUFFICES ASSUME NEW u \in Tasks, NEW i \in 1..Len(todo'[u]), todo'[u][i].op \in RowWriters
             PROVE  /\ todo'[u][i].op \in {"store", "insert"}
                    /\ messages'[todo'[u][i].msg] = None
                    /\ arrived'[todo'[u][i].msg] # "nothing"
                    /\ \A v \in Tasks : \A k \in 1..Len(todo'[v]) :
                          todo'[v][k].op \in RowWriters /\ todo'[v][k].msg = todo'[u][i].msg => v = u /\ k = i
  BY DEF WritesOnce
<1>6. CASE u = t
  <2>1. ASSUME NEW v \in Tasks, NEW k \in 1..Len(todo'[v]), todo'[v][k].op \in RowWriters, todo'[v][k].msg = todo'[u][i].msg
        PROVE  v = u /\ k = i
    <3>1. todo'[u][i].msg = m /\ arrived[m] = "nothing" /\ i = j
      BY <1>5, <1>6
    <3>2. v = t
      BY <1>4, <2>1, <3>1
    <3>. QED  BY <1>5, <1>6, <2>1, <3>1, <3>2
  <2>. QED  BY <1>2, <1>5, <1>6, <2>1
<1>7. CASE u # t
  <2>1. ASSUME NEW v \in Tasks, NEW k \in 1..Len(todo'[v]), todo'[v][k].op \in RowWriters, todo'[v][k].msg = todo'[u][i].msg
        PROVE  v = u /\ k = i
    <3>1. arrived[todo'[u][i].msg] # "nothing"
      BY <1>4, <1>7
    <3>2. v # t
      <4> SUFFICES ASSUME v = t PROVE FALSE
        OBVIOUS
      <4>1. todo'[v][k].msg = m /\ arrived[m] = "nothing"
        BY <1>5, <2>1
      <4>. QED  BY <2>1, <3>1, <4>1
    <3>. QED  BY <1>4, <1>7, <2>1, <3>2
  <2>2. arrived'[todo'[u][i].msg] # "nothing"
    BY <1>3, <1>4, <1>7 DEF NothingUnlearned
  <2>. QED  BY <1>2, <1>4, <1>7, <2>1, <2>2
<1>. QED  BY <1>6, <1>7

\* A handler that writes no row and learns of no arrival.
LEMMA QuietStart ==
    ASSUME WriteInv, TypeInv', NEW t \in Tasks, NEW calls, Start(t, calls), arrived' = arrived,
           \A i \in 1..Len(calls) : calls[i].op \notin RowWriters
    PROVE  WritesOnce' /\ ArrivesOnce' /\ messages' = messages
<1>1. messages' = messages
  BY DEF Start, tables
<1>2. ArrivesOnce'
  BY <1>1 DEF WriteInv, ArrivesOnce
<1>3. WritesArrival(calls, None, 1)
  BY DEF WritesArrival
<1>4. NothingUnlearned
  BY DEF NothingUnlearned
<1>5. WritesOnce'
  BY <1>3, <1>4, StartWritesOnce
<1>. QED  BY <1>1, <1>2, <1>5

\* A handler whose third call stores the message that arrives.
LEMMA StoringStart ==
    ASSUME WriteInv, TypeInv', NEW t \in Tasks, NEW calls, Start(t, calls),
           NEW m \in Msgs, NEW how \in {"message", "drafted"}, arrived[m] = "nothing",
           arrived' = [arrived EXCEPT ![m] = how], how = "drafted" => m \in Drafts,
           \A i \in 1..Len(calls) : calls[i].op \in RowWriters =>
              i = 3 /\ calls[i].op \in {"store", "insert"} /\ calls[i].msg = m
    PROVE  WritesOnce' /\ ArrivesOnce' /\ messages' = messages
<1>1. messages' = messages
  BY DEF Start, tables
<1>2. \A u \in Msgs : arrived'[u] = IF u = m THEN how ELSE arrived[u]
  <2>1. arrived \in [Msgs -> {"nothing", "placeholder", "drafted", "message"}]
    BY DEF WriteInv, TypeInv, TypeOK
  <2>. QED  BY <2>1
<1>3. arrived'[m] # "nothing" /\ \A u \in Msgs : arrived[u] # "nothing" => arrived'[u] # "nothing"
  BY <1>2
<1>4. ArrivesOnce'
  BY <1>1, <1>2 DEF WriteInv, ArrivesOnce
<1>5. WritesArrival(calls, m, 3)
  BY <1>3 DEF WritesArrival
<1>6. NothingUnlearned
  BY <1>3 DEF NothingUnlearned
<1>7. WritesOnce'
  BY <1>5, <1>6, StartWritesOnce
<1>. QED  BY <1>1, <1>4, <1>7

LEMMA HandlerKeepsWrites ==
    ASSUME NoRewriters, WriteInv, NEW t \in Tasks, Handler(t), TypeInv'
    PROVE  WritesOnce' /\ ArrivesOnce' /\ messages' = messages
<1>1. Duties[t] \cap {"import", "undecryptable", "edit", "revoke"} = {}
  BY DEF NoRewriters, Rewriters
<1>2. CASE handle_inbound_message(t)
  <2>1. PICK m \in Msgs : /\ m \notin Drafts /\ arrived[m] # "message"
                          /\ Start(t, InboundCalls(m, Bump(m)))
                          /\ arrived' = [arrived EXCEPT ![m] = "message"]
    BY <1>2 DEF handle_inbound_message
  <2>2. arrived[m] = "nothing"
    BY <2>1 DEF WriteInv, ArrivesOnce, TypeInv, TypeOK
  <2>3. \A i \in 1..Len(InboundCalls(m, Bump(m))) : InboundCalls(m, Bump(m))[i].op \in RowWriters =>
           /\ i = 3 /\ InboundCalls(m, Bump(m))[i].op \in {"store", "insert"}
           /\ InboundCalls(m, Bump(m))[i].msg = m
    BY DEF InboundCalls, Bump, Call, RowWriters, Writers
  <2> DEFINE calls == InboundCalls(m, Bump(m))
  <2> HIDE DEF calls
  <2>. QED  BY <2>1, <2>2, <2>3, StoringStart DEF calls
<1>3. CASE send_text(t)
  <2>1. PICK m \in Drafts :
           /\ arrived[m] = "nothing"
           /\ Start(t, <<Call("meta", m, None), Call("refresh", m, Body),
                         Call("insert", m, OutgoingRow("pending")), Call("sending", m, None)>>)
           /\ arrived' = [arrived EXCEPT ![m] = "drafted"]
    BY <1>3 DEF send_text
  <2>2. PICK calls : calls = <<Call("meta", m, None), Call("refresh", m, Body),
                               Call("insert", m, OutgoingRow("pending")), Call("sending", m, None)>>
    OBVIOUS
  <2>3. \A i \in 1..Len(calls) : calls[i].op \in RowWriters =>
           i = 3 /\ calls[i].op \in {"store", "insert"} /\ calls[i].msg = m
    BY <2>2 DEF Call, RowWriters, Writers
  <2>4. m \in Msgs /\ m \in Drafts
    BY MessageLogAssumption
  <2>5. Start(t, calls)
    BY <2>1, <2>2
  <2>6. arrived[m] = "nothing" /\ arrived' = [arrived EXCEPT ![m] = "drafted"]
    BY <2>1
  <2>. QED  BY <2>3, <2>4, <2>5, <2>6, StoringStart
<1>4. CASE persist_and_emit(t)
  <2>1. PICK m \in Drafts :
           /\ arrived[m] = "nothing"
           /\ Start(t, <<Call("echoing", m, None), Call("refresh", m, Body),
                         Call("insert", m, OutgoingRow("sent"))>>)
           /\ arrived' = [arrived EXCEPT ![m] = "drafted"]
    BY <1>4 DEF persist_and_emit
  <2>2. PICK calls : calls = <<Call("echoing", m, None), Call("refresh", m, Body),
                               Call("insert", m, OutgoingRow("sent"))>>
    OBVIOUS
  <2>3. \A i \in 1..Len(calls) : calls[i].op \in RowWriters =>
           i = 3 /\ calls[i].op \in {"store", "insert"} /\ calls[i].msg = m
    BY <2>2 DEF Call, RowWriters, Writers
  <2>4. m \in Msgs /\ m \in Drafts
    BY MessageLogAssumption
  <2>5. Start(t, calls)
    BY <2>1, <2>2
  <2>6. arrived[m] = "nothing" /\ arrived' = [arrived EXCEPT ![m] = "drafted"]
    BY <2>1
  <2>. QED  BY <2>3, <2>4, <2>5, <2>6, StoringStart
<1>5. CASE handle_reaction(t) \/ handle_receipt(t) \/ handle_revoke(t) \/ handle_edit(t) \/ handle_read(t)
           \/ handle_clear_chat(t) \/ handle_delete_chat(t)
  <2>1. arrived' = arrived
    BY <1>5 DEF handle_reaction, handle_receipt, handle_revoke, handle_edit, handle_read, handle_clear_chat,
                handle_delete_chat, Start, tables, history
  <2>2. \E op \in {"lookup", "status", "tombstone", "text", "mark", "clear", "remove"} :
        \E m, x : Start(t, <<Call(op, m, x)>>)
    <3>1. CASE handle_reaction(t)
      <4>1. PICK m \in Msgs, a \in Actors, e \in Emojis \cup {Removed} :
               Start(t, <<Call("lookup", m, [actor |-> a, emoji |-> e])>>)
        BY <3>1 DEF handle_reaction
      <4>. QED  BY <4>1
    <3>2. CASE handle_receipt(t) \/ handle_revoke(t) \/ handle_edit(t)
      BY <3>2 DEF handle_receipt, handle_revoke, handle_edit
    <3>3. CASE handle_read(t) \/ handle_clear_chat(t) \/ handle_delete_chat(t)
      BY <3>3 DEF handle_read, handle_clear_chat, handle_delete_chat
    <3>. QED  BY <1>5, <3>1, <3>2, <3>3
  <2>3. PICK op \in {"lookup", "status", "tombstone", "text", "mark", "clear", "remove"} :
        \E m, x : Start(t, <<Call(op, m, x)>>)
    BY <2>2
  <2>4. PICK m, x : Start(t, <<Call(op, m, x)>>)
    BY <2>3
  <2>5. \A i \in 1..Len(<<Call(op, m, x)>>) : <<Call(op, m, x)>>[i].op \notin RowWriters
    BY DEF Call, RowWriters, Writers
  <2>. QED  BY <2>1, <2>4, <2>5, QuietStart
<1>6. CASE handle_delete_for_me(t)
  <2>1. PICK m \in Msgs : Start(t, <<Call("delete", m, None), Call("list", None, None)>>)
    BY <1>6 DEF handle_delete_for_me
  <2>2. arrived' = arrived
    BY <1>6 DEF handle_delete_for_me, history
  <2>3. PICK calls : calls = <<Call("delete", m, None), Call("list", None, None)>>
    OBVIOUS
  <2>4. \A i \in 1..Len(calls) : calls[i].op \notin RowWriters
    BY <2>3 DEF Call, RowWriters, Writers
  <2>. QED  BY <2>1, <2>2, <2>3, <2>4, QuietStart
<1>. QED  BY <1>1, <1>2, <1>3, <1>4, <1>5, <1>6 DEF Handler

LEMMA WriteInvStart == Init => WriteInv
<1> SUFFICES ASSUME Init PROVE WriteInv
  OBVIOUS
<1>1. TypeInv
  BY InitTyped
<1>2. \A t \in Tasks : Len(todo[t]) = 0
  BY EmptySeq DEF Init
<1>3. WritesOnce
  BY <1>2 DEF WritesOnce
<1>4. ArrivesOnce
  BY DEF Init, ArrivesOnce
<1>. QED  BY <1>1, <1>3, <1>4 DEF WriteInv

\* The step of the body: rows are written once, and a status is never taken back.
LEMMA WriteInvStep ==
    ASSUME NoRewriters, WriteInv, [Next]_vars
    PROVE  /\ WriteInv'
           /\ \A m \in Msgs : messages[m] # None /\ messages'[m] # None
                => status_rank(messages'[m].status) >= status_rank(messages[m].status)
<1>1. TypeInv'
  BY NextTyped DEF WriteInv
<1>2. CASE UNCHANGED vars
  <2>1. WritesOnce' /\ ArrivesOnce' /\ messages' = messages
    BY <1>2 DEF vars, tables, history, WriteInv, WritesOnce, ArrivesOnce
  <2>2. RowsKept(None)
    BY <2>1, SameRowsKept DEF WriteInv
  <2>. QED  BY <1>1, <2>1, <2>2 DEF WriteInv, RowsKept
<1>3. ASSUME NEW t \in Tasks, Step(t)
      PROVE  WritesOnce' /\ ArrivesOnce' /\ RowsKept(t)
  <2>1. WritesOnce' /\ ArrivesOnce'
    BY <1>1, <1>3, StepKeepsWrites
  <2>2. CASE server_accepts(t)
    <3>1. messages' = messages
      BY <2>2 DEF server_accepts, tables
    <3>. QED  BY <2>1, <3>1, SameRowsKept DEF WriteInv
  <2>3. CASE ~server_accepts(t)
    BY <1>3, <2>1, <2>3, StepKeeps DEF WriteInv
  <2>. QED  BY <2>2, <2>3
<1>4. ASSUME NEW t \in Tasks, Handler(t)
      PROVE  WritesOnce' /\ ArrivesOnce' /\ RowsKept(t)
  <2>1. WritesOnce' /\ ArrivesOnce' /\ messages' = messages
    BY <1>1, <1>4, HandlerKeepsWrites
  <2>. QED  BY <2>1, SameRowsKept DEF WriteInv
<1>5. CASE Next
  <2>1. PICK t \in Tasks : Step(t) \/ Handler(t)
    BY <1>5 DEF Next
  <2>2. WritesOnce' /\ ArrivesOnce' /\ RowsKept(t)
    BY <1>3, <1>4, <2>1
  <2>. QED  BY <1>1, <2>2 DEF WriteInv, RowsKept
<1>. QED  BY <1>2, <1>5

\* "The status only ever upgrades": of any number of receipts, revokes, edits and
\* deletions by any number of tasks, with sends under way, none takes the status of
\* a stored message back.  The hypothesis leaves out the handlers that write a row
\* which may be stored already: an edit of one's own message, which writes back the
\* status it read before its request, breaks the property.
THEOREM StatusIsMonotone ==
    ASSUME NoRewriters
    PROVE  Spec => StatusOnlyUpgrades
<1>1. Init => WriteInv
  BY WriteInvStart
<1>2. WriteInv /\ [Next]_vars
        => WriteInv' /\ [\A m \in Msgs : messages[m] # None /\ messages'[m] # None
                           => status_rank(messages'[m].status) >= status_rank(messages[m].status)]_vars
  BY WriteInvStep
<1>. QED  BY <1>1, <1>2, PTL DEF Spec, StatusOnlyUpgrades

(***************************************************************************)
(* The shape of a handler's list, when no handler rewrites stored rows.    *)
(***************************************************************************)
\* Call number i of `calls` ends the list, or is followed by `op` on its message.
EndsAt(calls, i) == i = Len(calls)
ThenOnly(calls, i, op) ==
    Len(calls) = i + 1 /\ calls[i + 1].op = op /\ calls[i + 1].msg = calls[i].msg
\* What call number i of a handler of t may be: a row of a live message is drained next,
\* the row of a send awaits its answer next, a status or a reaction is alone in its list.
CallFits(t, calls, i) ==
    LET c == calls[i]
    IN /\ c.op \in RowWriters => c.op \in {"store", "insert"}
       /\ c.op = "store" => /\ c.msg \notin Drafts
                            /\ c.arg.status # "pending" /\ ThenOnly(calls, i, "drain")
       /\ c.op = "insert" => /\ c.msg \in Drafts
                             /\ \/ ThenOnly(calls, i, "sending")
                                \/ "echo" \in Duties[t] /\ c.arg.status # "pending"
       /\ c.op = "sending" => c.msg \in Drafts /\ EndsAt(calls, i)
       /\ c.op = "echoing" => "echo" \in Duties[t]
       /\ c.op = "list" => EndsAt(calls, i)
       /\ c.op \in Reacting => Len(calls) = 1
       /\ c.op = "status" => c.arg # "pending" /\ Len(calls) = 1
       /\ c.op # "request"
Fits(t, calls) == \A i \in 1..Len(calls) : CallFits(t, calls, i)
ListsFit == \A t \in Tasks : Fits(t, todo[t])

LEMMA TailFits ==
    ASSUME NEW t \in Tasks, NEW calls \in Seq(CallType), calls # <<>>, Fits(t, calls)
    PROVE  Fits(t, Tail(calls))
<1>1. /\ Len(calls) \in Nat \ {0} /\ Len(Tail(calls)) = Len(calls) - 1
      /\ \A k \in 1..Len(Tail(calls)) : Tail(calls)[k] = calls[k + 1]
  BY EmptySeq, HeadTailProperties
<1> SUFFICES ASSUME NEW i \in 1..Len(Tail(calls))
             PROVE  CallFits(t, Tail(calls), i)
  BY DEF Fits
<1>2. i + 1 \in 1..Len(calls) /\ Tail(calls)[i] = calls[i + 1] /\ Len(calls) # 1
  BY <1>1
<1>3. CallFits(t, calls, i + 1)
  BY <1>2 DEF Fits
<1>4. \A op : ThenOnly(calls, i + 1, op) => ThenOnly(Tail(calls), i, op)
  BY <1>1, <1>2 DEF ThenOnly
<1>5. EndsAt(calls, i + 1) => EndsAt(Tail(calls), i)
  <2>1. PICK n \in Nat : n = Len(calls) /\ Len(Tail(calls)) = n - 1 /\ i \in 1..(n - 1)
    BY <1>1
  <2>. QED  BY <2>1 DEF EndsAt
<1>. QED  BY <1>2, <1>3, <1>4, <1>5 DEF CallFits

LEMMA ShortFits ==
    ASSUME NEW t \in Tasks
    PROVE  /\ Fits(t, <<>>)
           /\ \A op \in {"clear", "refresh", "tombstone", "text", "mark", "remove"} : \A m, x : Fits(t, <<Call(op, m, x)>>)
           /\ \A m, x : x # "pending" => Fits(t, <<Call("status", m, x)>>)
           /\ \A c : c.op \in Reacting => Fits(t, <<c>>)
BY DEF Fits, CallFits, Call, RowWriters, Writers, Reacting

\* Where a handler goes on after a step: behind its first call, nowhere, or with
\* the one call an answer leads to.
GoesOn(t, rest) ==
    \/ rest = Tail(todo[t]) /\ ~At(t, "sending")
    \/ /\ rest = <<>>
       /\ \/ At(t, "echoing") \/ At(t, "request")
          \/ (\E op \in RowWriters : At(t, op)) /\ ~Stored(Msg(t)) /\ messages' = messages
    \/ At(t, "list") /\ \E op, m, x : op \in {"clear", "refresh"} /\ rest = <<Call(op, m, x)>>
    \/ At(t, "sending") /\ \E s \in {"sent", "failed"} : rest = <<Call("status", Msg(t), s)>>
    \/ /\ At(t, "lookup")
       /\ \E c : /\ rest = <<c>> /\ c.op \in {"react", "buffer"}
                 /\ c.msg = Msg(t) /\ c.arg = Arg(t)
                 /\ c.op = "buffer" => ~Stored(Msg(t))

LEMMA StepGoesOn ==
    ASSUME WriteInv, ListsFit, NEW t \in Tasks, Step(t), ~server_accepts(t)
    PROVE  \E rest : ReturnWith(t, rest) /\ GoesOn(t, rest)
<1>1. CASE \/ record_message_activity(t) \/ set_chat_last_message_meta(t) \/ upsert_reaction(t)
           \/ buffer_pending_reaction(t) \/ drain_pending_reactions(t) \/ set_message_status(t)
           \/ mark_message_revoked(t) \/ update_message_text(t) \/ delete_message(t) \/ clear_chat(t)
           \/ delete_chat(t) \/ mark_chat(t) \/ upsert_chat_from_history(t)
  BY <1>1 DEF record_message_activity, set_chat_last_message_meta, upsert_reaction, buffer_pending_reaction,
              drain_pending_reactions, set_message_status, mark_message_revoked, update_message_text,
              delete_message, clear_chat, delete_chat, mark_chat, upsert_chat_from_history, Return, GoesOn, At
<1>2. CASE upsert_message(t)
  <2>1. PICK op \in RowWriters : At(t, op)
    BY <1>2 DEF upsert_message, RowWriters
  <2>2. ~Idle(t) /\ todo[t][1].op = op
    BY <2>1, HeadCall DEF WriteInv, TypeInv
  <2>3. 1 \in 1..Len(todo[t])
    BY <2>2, BusyTask DEF WriteInv, TypeInv
  <2>4. op \in {"store", "insert"}
    BY <2>1, <2>2, <2>3 DEF WriteInv, WritesOnce
  <2>5. ~At(t, "imported") /\ ~At(t, "placeholder")
    BY <2>2, <2>4 DEF At
  <2>6. CASE Stored(Msg(t)) \/ chat # None
    <3>1. ReturnWith(t, Tail(todo[t])) /\ ~At(t, "sending")
      BY <1>2, <2>2, <2>4, <2>5, <2>6 DEF upsert_message, At
    <3>. QED  BY <3>1 DEF GoesOn
  <2>7. CASE ~(Stored(Msg(t)) \/ chat # None)
    <3>1. ReturnWith(t, <<>>) /\ messages' = messages
      BY <1>2, <2>5, <2>7 DEF upsert_message, AfterRefusal
    <3>. QED  BY <2>1, <2>7, <3>1 DEF GoesOn
  <2>. QED  BY <2>6, <2>7
<1>3. CASE refresh_preview(t)
  <2>0. PICK op \in {"clear", "refresh"} : \E m, x : ReturnWith(t, <<Call(op, m, x)>>)
    BY <1>3 DEF refresh_preview
  <2>1. PICK m, x : ReturnWith(t, <<Call(op, m, x)>>)
    BY <2>0
  <2>2. At(t, "list")
    BY <1>3 DEF refresh_preview
  <2>. QED  BY <2>1, <2>2 DEF GoesOn
<1>4. CASE send_answered(t)
  <2>1. PICK s \in {"sent", "failed"} : ReturnWith(t, <<Call("status", Msg(t), s)>>)
    BY <1>4 DEF send_answered, AfterSend
  <2>2. At(t, "sending")
    BY <1>4 DEF send_answered
  <2>. QED  BY <2>1, <2>2 DEF GoesOn
<1>5. CASE echo_answered(t) \/ request_answered(t)
  BY <1>5 DEF echo_answered, request_answered, Return, GoesOn, At
<1>6. CASE find_reaction_target(t)
  <2>1. PICK op \in {"react", "buffer"} : Becomes(t, op) /\ (op = "buffer" => ~Stored(Msg(t)))
    BY <1>6 DEF find_reaction_target
  <2>2. /\ ~Idle(t) /\ todo[t] \in Seq(CallType) /\ todo[t][1] \in CallType
        /\ todo[t][1].op = "lookup" /\ 1 \in 1..Len(todo[t])
    BY <1>6, HeadCall, BusyTask DEF WriteInv, TypeInv, find_reaction_target
  <2>3. Len(todo[t]) = 1
    BY <2>2 DEF ListsFit, Fits, CallFits, Reacting
  <2>4. PICK c : c = [todo[t][1] EXCEPT !.op = op]
    OBVIOUS
  <2>5. c \in CallType /\ c.op = op /\ c.msg = Msg(t) /\ c.arg = Arg(t)
    <3> DEFINE Reactings == [op : Reacting, msg : Msgs, arg : [actor : Actors, emoji : Emojis \cup {Removed}]]
    <3>1. todo[t][1] \in Reactings
      BY <2>2, SMT DEF CallType, Writers, Reacting
    <3>2. c \in Reactings /\ c.op = op /\ c.msg = todo[t][1].msg /\ c.arg = todo[t][1].arg
      BY <2>4, <3>1 DEF Reacting
    <3>. QED  BY <3>2 DEF CallType, Msg, Arg
  <2>6. PICK next : next = [todo[t] EXCEPT ![1].op = op]
    OBVIOUS
  <2>7. next = [todo[t] EXCEPT ![1] = c]
    BY <2>4, <2>6
  <2>8. next \in Seq(CallType) /\ Len(next) = 1 /\ next[1] = c
    BY <2>2, <2>3, <2>5, <2>7, ExceptSeq
  <2>9. next = <<c>>
    BY <2>8
  <2>10. ReturnWith(t, next) /\ At(t, "lookup")
    BY <1>6, <2>1, <2>6 DEF Becomes, find_reaction_target
  <2>. QED  BY <2>1, <2>5, <2>9, <2>10 DEF GoesOn
<1>7. CASE find_undecryptable(t)
  <2>1. ~Idle(t) /\ todo[t][1].op = "sighted"
    BY <1>7 DEF find_undecryptable, At
  <2>2. 1 \in 1..Len(todo[t])
    BY <2>1, BusyTask DEF WriteInv, TypeInv
  <2>3. todo[t][1].op \in {"store", "insert"}
    BY <2>1, <2>2, RowToWrite DEF WriteInv, RowWriters
  <2>. QED  BY <2>1, <2>3
<1>. QED  BY <1>1, <1>2, <1>3, <1>4, <1>5, <1>6, <1>7 DEF Step

LEMMA StepFits ==
    ASSUME WriteInv, ListsFit, NEW t \in Tasks, Step(t)
    PROVE  ListsFit'
<1>1. CASE server_accepts(t)
  BY <1>1 DEF server_accepts, ListsFit, Fits, CallFits, ThenOnly, EndsAt
<1>2. CASE ~server_accepts(t)
  <2>1. ~Idle(t)
    BY <1>2, StepKeeps DEF WriteInv
  <2>2. PICK rest : ReturnWith(t, rest) /\ GoesOn(t, rest)
    BY <1>2, StepGoesOn
  <2>3. todo[t] \in Seq(CallType) /\ todo[t] # <<>> /\ Len(todo[t]) \in Nat \ {0}
    BY <2>1, BusyTask DEF WriteInv, TypeInv, Idle
  <2>4. Fits(t, todo[t])
    BY DEF ListsFit
  <2>5. Fits(t, rest)
    <3>1. CASE rest = Tail(todo[t])
      BY <2>3, <2>4, <3>1, TailFits
    <3>2. CASE rest = <<>>
      BY <3>2, ShortFits
    <3>3. CASE \E op, m, x : op \in {"clear", "refresh"} /\ rest = <<Call(op, m, x)>>
      BY <3>3, ShortFits
    <3>4. CASE At(t, "sending") /\ \E s \in {"sent", "failed"} : rest = <<Call("status", Msg(t), s)>>
      BY <3>4, ShortFits
    <3>5. CASE \E c : rest = <<c>> /\ c.op \in {"react", "buffer"}
      BY <3>5, ShortFits DEF Reacting
    <3>. QED  BY <2>2, <3>1, <3>2, <3>3, <3>4, <3>5 DEF GoesOn
  <2>6. \A u \in Tasks : todo'[u] = IF u = t THEN rest ELSE todo[u]
    BY <2>2 DEF ReturnWith, WriteInv, TypeInv, TypeOK
  <2>7. \A u \in Tasks : Fits(u, todo'[u])
    BY <2>5, <2>6 DEF ListsFit
  <2>. QED  BY <2>7 DEF ListsFit, Fits, CallFits, ThenOnly, EndsAt
<1>. QED  BY <1>1, <1>2

\* The list a handler starts with.
StartsWith(t, calls) == Start(t, calls) /\ Fits(t, calls)

LEMMA HandlerFits ==
    ASSUME NoRewriters, NEW t \in Tasks, Handler(t)
    PROVE  \E calls : StartsWith(t, calls)
<1>1. CASE "inbound" \in Duties[t] /\ handle_inbound_message(t)
  <2>1. PICK m \in Msgs : m \notin Drafts /\ Start(t, InboundCalls(m, Bump(m)))
    BY <1>1 DEF handle_inbound_message
  <2>2. Fits(t, InboundCalls(m, Bump(m)))
    BY <1>1, <2>1 DEF InboundCalls, Bump, Call, InboundRow, Fits, CallFits, ThenOnly, EndsAt, RowWriters, Writers, Reacting
  <2>. QED  BY <2>1, <2>2 DEF StartsWith
<1>2. CASE "send" \in Duties[t] /\ send_text(t)
  <2>1. PICK m \in Drafts :
           Start(t, <<Call("meta", m, None), Call("refresh", m, Body),
                      Call("insert", m, OutgoingRow("pending")), Call("sending", m, None)>>)
    BY <1>2 DEF send_text
  <2>2. Fits(t, <<Call("meta", m, None), Call("refresh", m, Body),
                  Call("insert", m, OutgoingRow("pending")), Call("sending", m, None)>>)
    BY DEF Call, Fits, CallFits, ThenOnly, EndsAt, RowWriters, Writers, Reacting
  <2>. QED  BY <2>1, <2>2 DEF StartsWith
<1>3. CASE "echo" \in Duties[t] /\ persist_and_emit(t)
  <2>1. PICK m \in Drafts :
           Start(t, <<Call("echoing", m, None), Call("refresh", m, Body), Call("insert", m, OutgoingRow("sent"))>>)
    BY <1>3 DEF persist_and_emit
  <2>2. Fits(t, <<Call("echoing", m, None), Call("refresh", m, Body), Call("insert", m, OutgoingRow("sent"))>>)
    BY <1>3 DEF Call, OutgoingRow, Fits, CallFits, ThenOnly, EndsAt, RowWriters, Writers, Reacting
  <2>. QED  BY <2>1, <2>2 DEF StartsWith
<1>4. CASE "reactions" \in Duties[t] /\ handle_reaction(t)
  <2>1. PICK m, x : Start(t, <<Call("lookup", m, x)>>)
    BY <1>4 DEF handle_reaction
  <2>2. Fits(t, <<Call("lookup", m, x)>>)
    BY ShortFits DEF Call, Reacting
  <2>. QED  BY <2>1, <2>2 DEF StartsWith
<1>5. CASE "receipts" \in Duties[t] /\ handle_receipt(t)
  <2>1. PICK m \in Msgs, s \in receipt_status : Start(t, <<Call("status", m, s)>>)
    BY <1>5 DEF handle_receipt
  <2>2. Fits(t, <<Call("status", m, s)>>)
    BY <1>5, ShortFits DEF receipt_status
  <2>. QED  BY <2>1, <2>2 DEF StartsWith
<1>6. CASE handle_delete_for_me(t)
  <2>1. PICK m \in Msgs : Start(t, <<Call("delete", m, None), Call("list", None, None)>>)
    BY <1>6 DEF handle_delete_for_me
  <2>2. Fits(t, <<Call("delete", m, None), Call("list", None, None)>>)
    BY DEF Call, Fits, CallFits, EndsAt, RowWriters, Writers, Reacting
  <2>. QED  BY <2>1, <2>2 DEF StartsWith
<1>7. CASE handle_revoke(t) \/ handle_edit(t) \/ handle_read(t) \/ handle_clear_chat(t) \/ handle_delete_chat(t)
  <2>1. PICK op, m, x : op \in {"clear", "tombstone", "text", "mark", "remove"} /\ Start(t, <<Call(op, m, x)>>)
    <3>1. CASE handle_revoke(t) \/ handle_edit(t)
      BY <3>1 DEF handle_revoke, handle_edit
    <3>2. CASE handle_read(t) \/ handle_clear_chat(t) \/ handle_delete_chat(t)
      BY <3>2 DEF handle_read, handle_clear_chat, handle_delete_chat
    <3>. QED  BY <1>7, <3>1, <3>2
  <2>2. Fits(t, <<Call(op, m, x)>>)
    BY <2>1, ShortFits
  <2>. QED  BY <2>1, <2>2 DEF StartsWith
<1>. QED  BY <1>1, <1>2, <1>3, <1>4, <1>5, <1>6, <1>7 DEF Handler, NoRewriters, Rewriters

LEMMA SameLists ==
    ASSUME ListsFit, todo' = todo
    PROVE  ListsFit'
<1> SUFFICES ASSUME NEW t \in Tasks PROVE Fits(t, todo[t])'
  BY DEF ListsFit
<1>1. Fits(t, todo[t])
  BY DEF ListsFit
<1>2. Fits(t, todo[t])' <=> Fits(t, todo'[t])
  BY DEF Fits, CallFits, ThenOnly, EndsAt
<1>3. todo'[t] = todo[t]
  OBVIOUS
<1>. QED  BY <1>1, <1>2, <1>3

LEMMA ListsFitStart == Init => ListsFit
BY EmptySeq DEF Init, ListsFit, Fits

LEMMA HandlerKeepsFit ==
    ASSUME NoRewriters, WriteInv, ListsFit, NEW t \in Tasks, Handler(t)
    PROVE  ListsFit'
<1>1. PICK calls : StartsWith(t, calls)
  BY HandlerFits
<1>2. \A u \in Tasks : todo'[u] = IF u = t THEN calls ELSE todo[u]
  BY <1>1 DEF StartsWith, Start, WriteInv, TypeInv, TypeOK
<1>3. \A u \in Tasks : Fits(u, todo'[u])
  BY <1>1, <1>2 DEF StartsWith, ListsFit
<1>. QED  BY <1>3 DEF ListsFit, Fits, CallFits, ThenOnly, EndsAt

(***************************************************************************)
(* A pending row has its request under way.                                *)
(***************************************************************************)
UnderWay(m) == \E t \in Tasks : (At(t, "sending") \/ At(t, "status")) /\ Msg(t) = m
IsPending(m) == Stored(m) /\ messages[m].status = "pending"

\* What a step does to a pending row: only the insert of a send writes one.
LEMMA StepPending ==
    ASSUME WriteInv, ListsFit, NEW t \in Tasks, Step(t), ~server_accepts(t), NEW m \in Msgs, IsPending(m)'
    PROVE  \/ IsPending(m) /\ ~(At(t, "status") /\ Msg(t) = m)
           \/ /\ At(t, "insert") /\ Msg(t) = m
              /\ ReturnWith(t, Tail(todo[t])) /\ ThenOnly(todo[t], 1, "sending")
<1>1. ~Idle(t)
  BY StepKeeps DEF WriteInv
<1>2. todo[t] \in Seq(CallType) /\ 1 \in 1..Len(todo[t]) /\ CallFits(t, todo[t], 1)
  BY <1>1, BusyTask DEF WriteInv, TypeInv, ListsFit, Fits
<1>3. messages' \in [Msgs -> Row \cup {None}] /\ messages \in [Msgs -> Row \cup {None}]
  <2>1. TypeInv'
    BY StepTyped DEF WriteInv
  <2>. QED  BY <2>1 DEF WriteInv, TypeInv, TypeOK
<1>4. CASE set_message_status(t)
  <2>1. Arg(t) # "pending" /\ Arg(t) \in Statuses /\ Msg(t) \in Msgs
    BY <1>1, <1>2, <1>4, HeadCall, CallArguments DEF set_message_status, CallFits, At, Arg, Msg, WriteInv, TypeInv
  <2>2. Upgrades("pending", Arg(t))
    BY <2>1 DEF Upgrades, status_rank, Statuses
  <2>3. \A n \in Msgs : n # Msg(t) => messages'[n] = messages[n]
    BY <1>3, <1>4 DEF set_message_status
  <2>4. messages'[Msg(t)] = IF messages[Msg(t)] # None /\ Upgrades(messages[Msg(t)].status, Arg(t))
                            THEN [messages[Msg(t)] EXCEPT !.status = Arg(t)] ELSE messages[Msg(t)]
    BY <1>3, <1>4, <2>1 DEF set_message_status
  <2>5. m # Msg(t)
    <3> SUFFICES ASSUME m = Msg(t) PROVE FALSE
      OBVIOUS
    <3>1. CASE messages[m] # None /\ Upgrades(messages[m].status, Arg(t))
      BY <1>3, <2>1, <2>4, <3>1 DEF IsPending, Stored, Row
    <3>2. CASE ~(messages[m] # None /\ Upgrades(messages[m].status, Arg(t)))
      BY <2>2, <2>4, <3>2 DEF IsPending, Stored
    <3>. QED  BY <3>1, <3>2
  <2>. QED  BY <2>3, <2>5 DEF IsPending, Stored
<1>5. CASE upsert_message(t)
  <2>1. PICK op \in RowWriters : At(t, op)
    BY <1>5 DEF upsert_message, RowWriters
  <2>2. todo[t][1].op = op /\ op \in {"store", "insert"} /\ messages[Msg(t)] = None /\ Msg(t) \in Msgs /\ Arg(t) \in Row
    BY <1>1, <1>2, <2>1, HeadCall, CallArguments, RowToWrite DEF At, Arg, Msg, WriteInv, TypeInv
  <2>3. ~At(t, "imported") /\ ~At(t, "status")
    BY <2>2 DEF At
  <2>4. CASE chat = None
    BY <1>5, <2>2, <2>3, <2>4 DEF upsert_message, Stored, IsPending
  <2>5. CASE chat # None
    <3>1. messages' = [messages EXCEPT ![Msg(t)] = Arg(t)] /\ ReturnWith(t, Tail(todo[t]))
      BY <1>5, <2>2, <2>3, <2>5 DEF upsert_message, Stored
    <3>2. CASE m # Msg(t)
      BY <1>3, <2>3, <3>1, <3>2 DEF IsPending, Stored
    <3>3. CASE m = Msg(t)
      <4>1. Arg(t).status = "pending"
        BY <1>3, <2>2, <3>1, <3>3 DEF IsPending
      <4>2. op = "insert" /\ ThenOnly(todo[t], 1, "sending")
        BY <1>2, <2>2, <4>1 DEF CallFits, Arg
      <4>. QED  BY <2>1, <3>1, <3>3, <4>2
    <3>. QED  BY <3>2, <3>3
  <2>. QED  BY <2>4, <2>5
<1>6. CASE ~set_message_status(t) /\ ~upsert_message(t)
  <2>1. ~At(t, "status")
    BY <1>6 DEF Step, find_reaction_target, find_undecryptable, At, record_message_activity, set_chat_last_message_meta, upsert_reaction,
         buffer_pending_reaction, drain_pending_reactions, mark_message_revoked,
         update_message_text, delete_message, refresh_preview, clear_chat, delete_chat, mark_chat,
         upsert_chat_from_history, server_accepts, send_answered, echo_answered, request_answered
  <2>2. \A n \in Msgs : messages'[n] # None => messages[n] # None /\ messages'[n].status = messages[n].status
    <3>1. CASE mark_message_revoked(t) \/ update_message_text(t)
      <4>1. \A n \in Msgs : messages'[n] \in {messages[n],
              IF messages[n] = None THEN None ELSE [messages[n] EXCEPT !.text = None, !.kind = "unsupported"],
              IF messages[n] = None THEN None ELSE [messages[n] EXCEPT !.text = Arg(t), !.kind = "text"]}
        BY <1>3, <3>1 DEF mark_message_revoked, update_message_text
      <4>. QED  BY <1>3, <4>1 DEF Row
    <3>2. CASE delete_message(t) \/ clear_chat(t) \/ delete_chat(t)
      BY <1>3, <3>2 DEF delete_message, clear_chat, delete_chat, DeleteMessages
    <3>3. CASE messages' = messages
      BY <3>3
    <3>4. \/ mark_message_revoked(t) \/ update_message_text(t) \/ delete_message(t) \/ clear_chat(t)
          \/ delete_chat(t) \/ messages' = messages
      BY <1>6 DEF Step, find_reaction_target, find_undecryptable, record_message_activity, set_chat_last_message_meta, upsert_reaction,
         buffer_pending_reaction, drain_pending_reactions, refresh_preview, mark_chat, tables,
         upsert_chat_from_history, send_answered, echo_answered, request_answered
    <3>. QED  BY <3>1, <3>2, <3>3, <3>4
  <2>. QED  BY <2>1, <2>2 DEF IsPending, Stored
<1>. QED  BY <1>4, <1>5, <1>6

\* The invariant of PendingHolds.
PendingInv == WriteInv /\ ListsFit /\ PendingIsUnderWay

LEMMA PendingStep ==
    ASSUME PendingInv, NEW t \in Tasks, Step(t)
    PROVE  PendingIsUnderWay'
<1>1. CASE server_accepts(t)
  BY <1>1 DEF server_accepts, tables, PendingInv, PendingIsUnderWay, Stored, At, Idle, Msg
<1>2. CASE ~server_accepts(t)
  <2> SUFFICES ASSUME NEW m \in Msgs, IsPending(m)'
               PROVE  UnderWay(m)'
    BY DEF PendingIsUnderWay, IsPending, UnderWay
  <2>1. PICK rest : ReturnWith(t, rest) /\ GoesOn(t, rest)
    BY <1>2, StepGoesOn DEF PendingInv
  <2>2. todo[t] \in Seq(CallType) /\ todo[t] # <<>> /\ 1 \in 1..Len(todo[t]) /\ CallFits(t, todo[t], 1)
    BY <1>2, StepKeeps, BusyTask DEF PendingInv, WriteInv, TypeInv, ListsFit, Fits, Idle
  <2>3. \A u \in Tasks : todo'[u] = IF u = t THEN rest ELSE todo[u]
    BY <2>1 DEF ReturnWith, PendingInv, WriteInv, TypeInv, TypeOK
  <2>4. CASE IsPending(m) /\ ~(At(t, "status") /\ Msg(t) = m)
    <3>1. PICK u \in Tasks : (At(u, "sending") \/ At(u, "status")) /\ Msg(u) = m
      BY <2>4 DEF PendingInv, PendingIsUnderWay, IsPending
    <3>2. CASE u # t
      BY <2>3, <3>1, <3>2 DEF UnderWay, At, Msg, Idle
    <3>3. CASE u = t
      <4>1. At(t, "sending") /\ Msg(t) = m
        BY <2>4, <3>1, <3>3
      <4>2. PICK s \in {"sent", "failed"} : rest = <<Call("status", m, s)>>
        <5>1. ~At(t, "list") /\ ~At(t, "echoing") /\ ~At(t, "request") /\ ~At(t, "lookup")
              /\ ~(\E op \in RowWriters : At(t, op))
          BY <4>1 DEF At, RowWriters, Writers
        <5>. QED  BY <2>1, <4>1, <5>1 DEF GoesOn
      <4>. QED  BY <2>3, <4>2 DEF UnderWay, At, Msg, Idle, Call
    <3>. QED  BY <3>2, <3>3
  <2>5. CASE /\ At(t, "insert") /\ Msg(t) = m
             /\ ReturnWith(t, Tail(todo[t])) /\ ThenOnly(todo[t], 1, "sending")
    <3>1. /\ Len(Tail(todo[t])) = 1 /\ Tail(todo[t])[1] = todo[t][2]
      BY <2>2, <2>5, HeadTailProperties DEF ThenOnly
    <3>2. todo'[t] = Tail(todo[t])
      BY <2>5 DEF ReturnWith, PendingInv, WriteInv, TypeInv, TypeOK
    <3>3. todo[t][2].op = "sending" /\ todo[t][2].msg = m
      BY <2>5 DEF ThenOnly, Msg
    <3>4. Tail(todo[t]) # <<>>
      <4> SUFFICES ASSUME Tail(todo[t]) = <<>> PROVE FALSE
        OBVIOUS
      <4>1. Len(Tail(todo[t])) = 0
        BY EmptySeq, Zenon
      <4>. QED  BY <3>1, <4>1
    <3>5. At(t, "sending")' /\ Msg(t)' = m
      BY <3>1, <3>2, <3>3, <3>4 DEF At, Idle, Msg
    <3>. QED  BY <3>5 DEF UnderWay
  <2>. QED  BY <1>2, <2>4, <2>5, StepPending DEF PendingInv
<1>. QED  BY <1>1, <1>2

LEMMA PendingHandler ==
    ASSUME NoRewriters, PendingInv, NEW t \in Tasks, Handler(t)
    PROVE  PendingIsUnderWay'
<1>1. PICK calls : StartsWith(t, calls)
  BY HandlerFits
<1>2. /\ Idle(t) /\ messages' = messages
      /\ \A u \in Tasks : todo'[u] = IF u = t THEN calls ELSE todo[u]
  BY <1>1 DEF StartsWith, Start, tables, PendingInv, WriteInv, TypeInv, TypeOK
<1>. QED  BY <1>2 DEF PendingInv, PendingIsUnderWay, Stored, At, Msg, Idle

\* A message is shown as pending only while its request is under way or its answer
\* about to be written: send_text stores the row, waits for the server and sets the
\* status last, and no receipt, retry or deletion in between turns a row pending
\* again. Rewriters are left out: edit_message writes back the row it read.
THEOREM PendingHolds ==
    ASSUME NoRewriters
    PROVE  Spec => []PendingIsUnderWay
<1>1. Init => PendingInv
  <2>1. Init => PendingIsUnderWay
    BY DEF Init, PendingIsUnderWay, Stored
  <2>. QED  BY <2>1, WriteInvStart, ListsFitStart DEF PendingInv
<1>2. PendingInv /\ [Next]_vars => PendingInv'
  <2> SUFFICES ASSUME PendingInv, [Next]_vars PROVE PendingInv'
    OBVIOUS
  <2>1. WriteInv'
    BY WriteInvStep DEF PendingInv
  <2>2. CASE UNCHANGED vars
    <3>1. UNCHANGED <<messages, todo>>
      BY <2>2 DEF vars, tables
    <3>2. ListsFit'
      BY <3>1, SameLists DEF PendingInv
    <3>3. PendingIsUnderWay'
      BY <3>1 DEF PendingInv, PendingIsUnderWay, Stored, At, Msg, Idle
    <3>. QED  BY <2>1, <3>2, <3>3 DEF PendingInv
  <2>3. ASSUME NEW t \in Tasks, Step(t) PROVE PendingInv'
    BY <2>1, <2>3, StepFits, PendingStep DEF PendingInv
  <2>4. ASSUME NEW t \in Tasks, Handler(t) PROVE PendingInv'
    BY <2>1, <2>4, HandlerKeepsFit, PendingHandler DEF PendingInv
  <2>. QED  BY <2>2, <2>3, <2>4 DEF Next
<1>3. PendingInv => PendingIsUnderWay
  BY DEF PendingInv
<1>. QED  BY <1>1, <1>2, <1>3, PTL DEF Spec

(***************************************************************************)
(* Handlers under way together.                                            *)
(***************************************************************************)
\* Live events, each handled in a task of its own, in any number and any order, beside
\* sends, deletions, clears and reads; nobody rewrites a stored row, and no row is
\* written only after its request was answered (the echo of persist_and_emit).
LiveAndSends == NoRewriters /\ \A t \in Tasks : "echo" \notin Duties[t]

\* What a receipt or a reaction is about, in `raced`.
About(c) == IF c.op = "status" THEN None ELSE c.arg.actor

\* A call is about a message that is where the call takes it to be.
Timely(c) ==
    /\ c.op = "insert" => arrived[c.msg] = "drafted"
    /\ c.op \in {"sending", "status"} => arrived[c.msg] # "nothing"
    /\ c.op \in Reacting => OnServer(c.msg)
    /\ c.op = "buffer" => ~Stored(c.msg) \/ <<c.msg, About(c)>> \in raced
CallsTimely == \A t \in Tasks : \A i \in 1..Len(todo[t]) : Timely(todo[t][i])

\* The request of a draft, and what is told of it, comes after its row.
RowComesFirst ==
    \A t, u \in Tasks : \A i \in 1..Len(todo[t]), k \in 1..Len(todo[u]) :
       /\ todo[t][i].op \in {"sending", "status"} /\ todo[u][k].op = "insert"
       /\ todo[t][i].msg = todo[u][k].msg
       => u = t /\ i = k + 1

\* Two calls that meet were noted when the handler of the later one started.
RacesNoted ==
    \A t, u \in Tasks : t # u =>
       \A i \in 1..Len(todo[t]), k \in 1..Len(todo[u]), m \in Msgs, a \in Actors \cup {None} :
          Meets(todo[t][i], todo[u][k], m, a) => <<m, a>> \in raced

\* What is on its way in the handlers' lists; the invariant of all that follows.
QueueInv == WriteInv /\ ListsFit /\ CallsTimely /\ RowComesFirst /\ RacesNoted

\* A row of m is still to be written; its buffered reactions are still to be drained.
ToWrite(m) == \E t \in Tasks : \E i \in 1..Len(todo[t]) : todo[t][i].op \in RowWriters /\ todo[t][i].msg = m
ToDrain(m) == \E t \in Tasks : \E i \in 1..Len(todo[t]) : todo[t][i].op = "drain" /\ todo[t][i].msg = m

\* A call in a handler's list is a call.
LEMMA ListedCall ==
    ASSUME QueueInv, NEW t \in Tasks, NEW i \in 1..Len(todo[t])
    PROVE  todo[t][i] \in CallType /\ CallFits(t, todo[t], i) /\ Timely(todo[t][i])
<1>1. todo[t] \in Seq(CallType)
  BY DEF QueueInv, WriteInv, TypeInv, TypeOK
<1>. QED  BY <1>1, ElementOfSeq DEF QueueInv, ListsFit, Fits, CallsTimely

\* If a row is to come of a message that something is told of, the two were noted.
LEMMA NoRowToCome ==
    ASSUME LiveAndSends, QueueInv, NEW t \in Tasks, NEW i \in 1..Len(todo[t]), NEW c, c = todo[t][i],
           c.op \in Reacting \cup {"status"}, ToWrite(c.msg)
    PROVE  <<c.msg, About(c)>> \in raced
<1>1. PICK u \in Tasks : \E k \in 1..Len(todo[u]) : todo[u][k].op \in RowWriters /\ todo[u][k].msg = c.msg
  BY DEF ToWrite
<1>2. PICK k \in 1..Len(todo[u]) : todo[u][k].op \in RowWriters /\ todo[u][k].msg = c.msg
  BY <1>1
<1>3. c \in CallType /\ CallFits(t, todo[t], i) /\ Timely(c) /\ CallFits(u, todo[u], k) /\ Timely(todo[u][k])
  BY ListedCall
<1>4. todo[u][k].op \in {"store", "insert"} /\ Len(todo[t]) = 1 /\ i = 1
  <2>1. todo[u][k].op \in {"store", "insert"} /\ Len(todo[t]) = 1
    BY <1>2, <1>3 DEF CallFits
  <2>2. i \in 1..1
    BY <2>1
  <2>. QED  BY <2>1, <2>2
<1>5. u # t
  <2> SUFFICES ASSUME u = t PROVE FALSE
    OBVIOUS
  <2>1. k \in 1..1
    BY <1>4
  <2>2. k = 1
    BY <2>1
  <2>. QED  BY <1>2, <1>4, <2>2 DEF RowWriters, Writers, Reacting
<1>6. CASE todo[u][k].op = "store"
  <2>1. c.msg \in Msgs /\ About(c) \in Actors \cup {None}
    BY <1>3, CallArguments DEF About
  <2>2. Meets(c, todo[u][k], c.msg, About(c))
    BY <1>2, <1>6 DEF Meets, About, Storing, Reacting
  <2>. QED  BY <1>5, <2>1, <2>2 DEF QueueInv, RacesNoted
<1>7. CASE todo[u][k].op = "insert"
  <2>1. c.msg \in Drafts /\ arrived[c.msg] = "drafted"
    BY <1>2, <1>3, <1>7 DEF CallFits, Timely
  <2>2. c.op = "status"
    BY <1>3, <2>1 DEF Timely, OnServer
  <2>3. t = u
    BY <1>2, <1>7, <2>2 DEF QueueInv, RowComesFirst
  <2>. QED  BY <1>5, <2>3
<1>. QED  BY <1>4, <1>6, <1>7

\* The calls left after a step are calls that were there, or what the answer of a
\* request, of list_messages or of find_message leads to.
Was(t, u, i) == IF u = t THEN i + 1 ELSE i
LEMMA CallsLeft ==
    ASSUME WriteInv, ListsFit, NEW t \in Tasks, Step(t), ~server_accepts(t),
           NEW u \in Tasks, NEW i \in 1..Len(todo'[u])
    PROVE  \/ /\ Was(t, u, i) \in 1..Len(todo[u])
              /\ todo'[u][i] = todo[u][Was(t, u, i)]
              /\ u = t => Len(todo[t]) = Len(todo'[t]) + 1
           \/ /\ u = t /\ i = 1
              /\ \/ todo'[u][i].op \in {"clear", "refresh"}
                 \/ At(t, "sending") /\ todo'[u][i].op = "status" /\ todo'[u][i].msg = Msg(t)
                 \/ /\ At(t, "lookup") /\ todo'[u][i].op \in {"react", "buffer"}
                    /\ todo'[u][i].msg = Msg(t) /\ todo'[u][i].arg = Arg(t)
                    /\ todo'[u][i].op = "buffer" => ~Stored(Msg(t))
<1>1. PICK rest : ReturnWith(t, rest) /\ GoesOn(t, rest)
  BY StepGoesOn
<1>2. \A v \in Tasks : todo'[v] = IF v = t THEN rest ELSE todo[v]
  BY <1>1 DEF ReturnWith, WriteInv, TypeInv, TypeOK
<1>3. todo[t] \in Seq(CallType) /\ todo[t] # <<>>
  BY StepKeeps, BusyTask DEF WriteInv, TypeInv, Idle
<1>4. CASE u # t
  BY <1>2, <1>4 DEF Was
<1>5. CASE u = t /\ rest = Tail(todo[t])
  <2>1. /\ Len(todo[t]) \in Nat \ {0} /\ Len(rest) = Len(todo[t]) - 1
        /\ \A k \in 1..Len(rest) : rest[k] = todo[t][k + 1]
    BY <1>3, <1>5, EmptySeq, HeadTailProperties
  <2>2. todo'[u] = rest
    BY <1>2, <1>5
  <2>3. i \in 1..Len(rest)
    BY <2>2
  <2>4. /\ i + 1 \in 1..Len(todo[u]) /\ rest[i] = todo[u][i + 1]
        /\ Len(todo[t]) = Len(rest) + 1
    BY <1>5, <2>1, <2>3
  <2>. QED  BY <1>5, <2>2, <2>4 DEF Was
<1>6. CASE u = t /\ rest = <<>>
  <2>1. Len(todo'[u]) = 0
    BY <1>2, <1>6, EmptySeq
  <2>. QED  BY <2>1
<1>7. CASE u = t /\ \E op, m, x : op \in {"clear", "refresh"} /\ rest = <<Call(op, m, x)>>
  <2>1. PICK op, m, x : op \in {"clear", "refresh"} /\ rest = <<Call(op, m, x)>>
    BY <1>7
  <2> DEFINE d == Call(op, m, x)
  <2>2. d.op = op
    BY DEF Call
  <2> HIDE DEF d
  <2>3. PICK c : c = d /\ c.op = op
    BY <2>2
  <2>4. todo'[u] = <<c>>
    BY <1>2, <1>7, <2>1, <2>3 DEF d
  <2>5. i = 1 /\ todo'[u][i] = c
    BY <2>4
  <2>. QED  BY <1>7, <2>1, <2>3, <2>5
<1>8. CASE u = t /\ At(t, "sending") /\ \E s \in {"sent", "failed"} : rest = <<Call("status", Msg(t), s)>>
  <2>1. PICK s \in {"sent", "failed"} : rest = <<Call("status", Msg(t), s)>>
    BY <1>8
  <2> DEFINE d == Call("status", Msg(t), s)
  <2>2. d.op = "status" /\ d.msg = Msg(t)
    BY DEF Call
  <2> HIDE DEF d
  <2>3. PICK c : c = d /\ c.op = "status" /\ c.msg = Msg(t)
    BY <2>2
  <2>4. todo'[u] = <<c>>
    BY <1>2, <1>8, <2>1, <2>3 DEF d
  <2>5. i = 1 /\ todo'[u][i] = c
    BY <2>4
  <2>. QED  BY <1>8, <2>3, <2>5
<1>9. CASE /\ u = t /\ At(t, "lookup")
           /\ \E c : /\ rest = <<c>> /\ c.op \in {"react", "buffer"}
                     /\ c.msg = Msg(t) /\ c.arg = Arg(t)
                     /\ c.op = "buffer" => ~Stored(Msg(t))
  <2>1. PICK c : /\ rest = <<c>> /\ c.op \in {"react", "buffer"}
                 /\ c.msg = Msg(t) /\ c.arg = Arg(t)
                 /\ c.op = "buffer" => ~Stored(Msg(t))
    BY <1>9
  <2>2. todo'[u] = <<c>>
    BY <1>2, <1>9, <2>1
  <2>3. i = 1 /\ todo'[u][i] = c
    BY <2>2
  <2>. QED  BY <1>9, <2>1, <2>3
<1>. QED  BY <1>1, <1>4, <1>5, <1>6, <1>7, <1>8, <1>9 DEF GoesOn

\* A row that appears is the one at the head of the list, still to be written.
LEMMA RowAppears ==
    ASSUME WriteInv, NEW t \in Tasks, Step(t), NEW m \in Msgs, ~Stored(m), Stored(m)'
    PROVE  /\ upsert_message(t) /\ chat # None /\ Msg(t) = m /\ todo[t][1].op \in {"store", "insert"}
           /\ messages' = [messages EXCEPT ![m] = Arg(t)] /\ Arg(t) \in Row
           /\ ReturnWith(t, Tail(todo[t])) /\ ToWrite(m)
<1>1. ~server_accepts(t)
  BY DEF server_accepts, tables, Stored
<1>2. ~Idle(t) /\ todo[t][1].op \in RowWriters /\ m = Msg(t)
  BY <1>1, StepKeeps DEF WriteInv, RowsKept, Stored, Msg
<1>3. upsert_message(t)
  BY <1>1, <1>2 DEF Step, find_reaction_target, find_undecryptable, At, RowWriters, Writers, record_message_activity, set_chat_last_message_meta, upsert_reaction,
         buffer_pending_reaction, drain_pending_reactions, mark_message_revoked, set_message_status,
         update_message_text, delete_message, refresh_preview, clear_chat, delete_chat, mark_chat,
         upsert_chat_from_history, send_answered, echo_answered, request_answered, tables, Stored
<1>4. 1 \in 1..Len(todo[t])
  BY <1>2, BusyTask DEF WriteInv, TypeInv
<1>5. todo[t][1].op \in {"store", "insert"}
  BY <1>2, <1>4, RowToWrite DEF WriteInv
<1>6. PICK op \in RowWriters : At(t, op)
  BY <1>3 DEF upsert_message, RowWriters
<1>7. Arg(t) \in Row /\ ~At(t, "imported")
  BY <1>2, <1>5, <1>6, HeadCall, CallArguments DEF WriteInv, TypeInv, Arg, At
<1>8. chat # None
  BY <1>2, <1>3 DEF upsert_message, Stored
<1>9. messages' = [messages EXCEPT ![m] = Arg(t)] /\ ReturnWith(t, Tail(todo[t]))
  BY <1>2, <1>3, <1>7, <1>8 DEF upsert_message, Stored
<1>10. ToWrite(m)
  BY <1>2, <1>4 DEF ToWrite, Msg
<1>. QED  BY <1>2, <1>3, <1>5, <1>7, <1>8, <1>9, <1>10

\* The server accepts a draft whose row is stored, or was.
LEMMA AcceptTimely ==
    ASSUME LiveAndSends, QueueInv, NEW t \in Tasks, server_accepts(t)
    PROVE  CallsTimely' /\ RowComesFirst'
<1>1. UNCHANGED <<todo, messages, raced>> /\ arrived' = [arrived EXCEPT ![Msg(t)] = "message"]
  BY DEF server_accepts, tables
<1>2. ~Idle(t) /\ 1 \in 1..Len(todo[t]) /\ CallFits(t, todo[t], 1)
  BY BusyTask DEF server_accepts, At, QueueInv, WriteInv, TypeInv, ListsFit, Fits
<1>3. todo[t][1].op = "sending"
  BY <1>2 DEF server_accepts, At, CallFits, LiveAndSends
<1>4. \A m \in Msgs : arrived'[m] = IF m = Msg(t) THEN "message" ELSE arrived[m]
  BY <1>1 DEF QueueInv, WriteInv, TypeInv, TypeOK
<1> SUFFICES ASSUME NEW u \in Tasks, NEW i \in 1..Len(todo[u])
             PROVE  Timely(todo[u][i])'
  BY <1>1 DEF CallsTimely, RowComesFirst, QueueInv
<1>5. todo[u][i] \in CallType
  <2>1. todo[u] \in Seq(CallType)
    BY DEF QueueInv, WriteInv, TypeInv, TypeOK
  <2>. QED  BY <2>1, ElementOfSeq
<1>6. Timely(todo[u][i])
  BY DEF QueueInv, CallsTimely
<1>7. PICK c \in CallType : c = todo[u][i]
  BY <1>5
<1>8. c.op = "insert" => c.msg # Msg(t)
  BY <1>2, <1>3, <1>7 DEF QueueInv, RowComesFirst, Msg
<1>9. c.op \in {"insert", "sending", "status"} \cup Reacting => c.msg \in Msgs
  BY CallArguments, <1>7 DEF RowWriters, Writers
<1>10. Timely(c)'
  BY <1>1, <1>4, <1>6, <1>7, <1>8, <1>9 DEF Timely, OnServer, Stored, About, Reacting
<1>. QED  BY <1>1, <1>7, <1>10

LEMMA StepTimely ==
    ASSUME LiveAndSends, QueueInv, NEW t \in Tasks, Step(t), ~server_accepts(t)
    PROVE  CallsTimely' /\ RowComesFirst'
<1>1. arrived' = arrived /\ ~Idle(t) /\ raced' = raced
  BY StepKeeps DEF QueueInv, WriteInv, ReturnWith
<1>2. todo[t] \in Seq(CallType) /\ 1 \in 1..Len(todo[t]) /\ Timely(todo[t][1]) /\ CallFits(t, todo[t], 1)
  BY <1>1, BusyTask DEF QueueInv, WriteInv, TypeInv, CallsTimely, ListsFit, Fits
<1>3. ASSUME NEW u \in Tasks, NEW i \in 1..Len(todo[u]), NEW c, c = todo[u][i] PROVE Timely(c)'
  <2>1. Timely(c)
    BY <1>3 DEF QueueInv, CallsTimely
  <2>2. ASSUME c.op = "buffer", <<c.msg, About(c)>> \notin raced PROVE ~Stored(c.msg)'
    <3>1. ~ToWrite(c.msg) /\ ~Stored(c.msg)
      BY <1>3, <2>1, <2>2, NoRowToCome DEF Timely, Reacting
    <3>2. c.msg \in Msgs
      BY <1>3, <2>2, ListedCall, CallArguments DEF Reacting
    <3>. QED  BY <3>1, <3>2, RowAppears DEF QueueInv
  <2>. QED  BY <1>1, <2>1, <2>2 DEF Timely, OnServer, About
<1>4. CallsTimely'
  <2> SUFFICES ASSUME NEW u \in Tasks, NEW i \in 1..Len(todo'[u]), NEW c, c = todo'[u][i]
               PROVE  Timely(c)'
    BY DEF CallsTimely
  <2>1. CASE Was(t, u, i) \in 1..Len(todo[u]) /\ c = todo[u][Was(t, u, i)]
    BY <1>3, <2>1
  <2>2. CASE c.op \in {"clear", "refresh"}
    BY <2>2 DEF Timely, Reacting
  <2>3. CASE At(t, "sending") /\ c.op = "status" /\ c.msg = Msg(t)
    BY <1>1, <1>2, <2>3 DEF Timely, At, Msg, Reacting
  <2>4. CASE /\ At(t, "lookup") /\ c.op \in {"react", "buffer"} /\ c.msg = Msg(t)
             /\ c.op = "buffer" => ~Stored(Msg(t))
    <3>1. OnServer(c.msg) /\ OnServer(c.msg)'
      BY <1>1, <1>2, <2>4 DEF Timely, At, Msg, Reacting, OnServer
    <3>2. Msg(t) \in Msgs /\ todo[t][1].op = "lookup"
      BY <1>2, <2>4, HeadCall, CallArguments DEF QueueInv, WriteInv, TypeInv, Reacting, Msg
    <3>3. c.op = "buffer" => ~Stored(c.msg)'
      BY <2>4, <3>2, RowAppears DEF QueueInv
    <3>. QED  BY <2>4, <3>1, <3>3 DEF Timely, Reacting
  <2>. QED  BY <2>1, <2>2, <2>3, <2>4, CallsLeft DEF QueueInv
<1>5. RowComesFirst'
  <2> SUFFICES ASSUME NEW u \in Tasks, NEW v \in Tasks, NEW i \in 1..Len(todo'[u]), NEW k \in 1..Len(todo'[v]),
                      todo'[u][i].op \in {"sending", "status"}, todo'[v][k].op = "insert",
                      todo'[u][i].msg = todo'[v][k].msg
               PROVE  v = u /\ i = k + 1
    BY DEF RowComesFirst
  <2>1. Was(t, v, k) \in 1..Len(todo[v]) /\ todo'[v][k] = todo[v][Was(t, v, k)]
        /\ (v = t => Len(todo[t]) = Len(todo'[t]) + 1)
    BY CallsLeft DEF QueueInv
  <2>2. CASE Was(t, u, i) \in 1..Len(todo[u]) /\ todo'[u][i] = todo[u][Was(t, u, i)]
    <3>0. PICK j, l : j = Was(t, u, i) /\ l = Was(t, v, k)
      OBVIOUS
    <3>2. /\ j \in 1..Len(todo[u]) /\ l \in 1..Len(todo[v])
          /\ todo[u][j].op \in {"sending", "status"} /\ todo[v][l].op = "insert"
          /\ todo[u][j].msg = todo[v][l].msg
      BY <2>1, <2>2, <3>0
    <3>1. v = u /\ Was(t, u, i) = Was(t, v, k) + 1
      BY <3>0, <3>2 DEF QueueInv, RowComesFirst
    <3>. QED  BY <3>1 DEF Was
  <2>3. CASE u = t /\ i = 1 /\ At(t, "sending") /\ todo'[u][i].msg = Msg(t)
    <3>1. v = t /\ 1 = Was(t, v, k) + 1
      BY <1>2, <2>1, <2>3 DEF QueueInv, RowComesFirst, At, Msg
    <3>. QED  BY <2>1, <3>1
  <2>4. \/ Was(t, u, i) \in 1..Len(todo[u]) /\ todo'[u][i] = todo[u][Was(t, u, i)]
        \/ u = t /\ i = 1 /\ At(t, "sending") /\ todo'[u][i].msg = Msg(t)
    BY CallsLeft DEF QueueInv
  <2>. QED  BY <2>2, <2>3, <2>4
<1>. QED  BY <1>4, <1>5

\* A handler that starts with `calls`, in which drafted and accepted messages stay so.
LEMMA StartTimely ==
    ASSUME QueueInv, NEW t \in Tasks, NEW calls, Start(t, calls), calls \in Seq(CallType),
           \A m \in Msgs : /\ arrived[m] # "nothing" => arrived'[m] # "nothing"
                           /\ arrived[m] \in {"drafted", "message"} => arrived'[m] = arrived[m],
           \A i \in 1..Len(calls) : \A c : c = calls[i] => Timely(c)',
           \A i \in 1..Len(calls), k \in 1..Len(calls) :
              calls[i].op \in {"sending", "status"} /\ calls[k].op = "insert" /\ calls[i].msg = calls[k].msg
              => i = k + 1,
           \A i \in 1..Len(calls) : /\ calls[i].op = "insert" => arrived[calls[i].msg] = "nothing"
                                    /\ calls[i].op \in {"sending", "status"} => arrived[calls[i].msg] # "drafted"
    PROVE  CallsTimely' /\ RowComesFirst'
<1>1. /\ messages' = messages /\ raced \subseteq raced'
      /\ \A u \in Tasks : todo'[u] = IF u = t THEN calls ELSE todo[u]
  BY DEF Start, tables, QueueInv, WriteInv, TypeInv, TypeOK
<1>2. ASSUME NEW u \in Tasks, NEW i \in 1..Len(todo[u]), NEW c, c = todo[u][i]
      PROVE  Timely(c)'
  <2>1. c \in CallType
    <3>1. todo[u] \in Seq(CallType)
      BY DEF QueueInv, WriteInv, TypeInv, TypeOK
    <3>. QED  BY <1>2, <3>1, ElementOfSeq
  <2>2. Timely(c)
    BY <1>2 DEF QueueInv, CallsTimely
  <2>3. c.op \in {"insert", "sending", "status"} \cup Reacting => c.msg \in Msgs
    BY <2>1, CallArguments DEF RowWriters, Writers
  <2>. QED  BY <1>1, <2>2, <2>3 DEF Timely, OnServer, Stored, About, Reacting
<1>3. CallsTimely'
  <2> SUFFICES ASSUME NEW u \in Tasks, NEW i \in 1..Len(todo'[u]), NEW c, c = todo'[u][i]
               PROVE  Timely(c)'
    BY DEF CallsTimely
  <2>. QED  BY <1>1, <1>2
<1>4. RowComesFirst'
  <2> SUFFICES ASSUME NEW u \in Tasks, NEW v \in Tasks, NEW i \in 1..Len(todo'[u]), NEW k \in 1..Len(todo'[v]),
                      todo'[u][i].op \in {"sending", "status"}, todo'[v][k].op = "insert",
                      todo'[u][i].msg = todo'[v][k].msg
               PROVE  v = u /\ i = k + 1
    BY DEF RowComesFirst
  <2>1. CASE u # t /\ v # t
    <3>1. todo'[u] = todo[u] /\ todo'[v] = todo[v]
      BY <1>1, <2>1
    <3>2. /\ i \in 1..Len(todo[u]) /\ k \in 1..Len(todo[v]) /\ todo[u][i].op \in {"sending", "status"}
          /\ todo[v][k].op = "insert" /\ todo[u][i].msg = todo[v][k].msg
      BY <3>1
    <3>. QED  BY <3>2 DEF QueueInv, RowComesFirst
  <2>2. CASE u = t /\ v = t
    <3>1. /\ i \in 1..Len(calls) /\ k \in 1..Len(calls) /\ calls[i].op \in {"sending", "status"}
          /\ calls[k].op = "insert" /\ calls[i].msg = calls[k].msg
      BY <1>1, <2>2
    <3>. QED  BY <2>2, <3>1
  <2>3. CASE u = t /\ v # t
    <3>1. arrived[todo[v][k].msg] = "drafted" /\ arrived[todo[v][k].msg] # "drafted"
      <4>0. k \in 1..Len(todo[v]) /\ todo[v][k].op = "insert"
        BY <1>1, <2>3
      <4>1. arrived[todo[v][k].msg] = "drafted"
        BY <4>0 DEF QueueInv, CallsTimely, Timely
      <4>. QED  BY <1>1, <2>3, <4>1
    <3>. QED  BY <3>1
  <2>4. CASE u # t /\ v = t
    <3>1. arrived[todo[u][i].msg] # "nothing"
      BY <1>1, <2>4 DEF QueueInv, CallsTimely, Timely
    <3>. QED  BY <1>1, <2>4, <3>1
  <2>. QED  BY <2>1, <2>2, <2>3, <2>4
<1>. QED  BY <1>3, <1>4

LEMMA HandlerTimely ==
    ASSUME LiveAndSends, QueueInv, NEW t \in Tasks, Handler(t), TypeInv'
    PROVE  CallsTimely' /\ RowComesFirst'
<1>1. arrived \in [Msgs -> {"nothing", "placeholder", "drafted", "message"}]
  BY DEF QueueInv, WriteInv, TypeInv, TypeOK
<1>2. ASSUME NEW calls, Start(t, calls) PROVE calls \in Seq(CallType)
  BY <1>2 DEF Start, QueueInv, WriteInv, TypeInv, TypeOK
<1>3. CASE handle_inbound_message(t)
  <2>1. PICK m \in Msgs : /\ m \notin Drafts /\ arrived[m] # "message"
                          /\ Start(t, InboundCalls(m, Bump(m)))
                          /\ arrived' = [arrived EXCEPT ![m] = "message"]
    BY <1>3 DEF handle_inbound_message
  <2>2. arrived[m] = "nothing"
    BY <2>1 DEF QueueInv, WriteInv, ArrivesOnce, TypeInv, TypeOK
  <2>3. \A n \in Msgs : arrived'[n] = IF n = m THEN "message" ELSE arrived[n]
    BY <1>1, <2>1
  <2>4. PICK calls : calls = InboundCalls(m, Bump(m))
    OBVIOUS
  <2>5. \A i \in 1..Len(calls) :
           calls[i].op \notin {"insert", "sending", "status", "lookup", "react", "buffer"}
    BY <2>4 DEF InboundCalls, Bump, Call
  <2>6. \A i \in 1..Len(calls) : \A c : c = calls[i] => Timely(c)'
    BY <2>5 DEF Timely, Reacting
  <2>. QED  BY <1>2, <2>1, <2>2, <2>3, <2>4, <2>5, <2>6, StartTimely
<1>4. CASE send_text(t)
  <2>1. PICK m \in Drafts :
           /\ arrived[m] = "nothing"
           /\ Start(t, <<Call("meta", m, None), Call("refresh", m, Body),
                         Call("insert", m, OutgoingRow("pending")), Call("sending", m, None)>>)
           /\ arrived' = [arrived EXCEPT ![m] = "drafted"]
    BY <1>4 DEF send_text
  <2>2. \A n \in Msgs : arrived'[n] = IF n = m THEN "drafted" ELSE arrived[n]
    BY <1>1, <2>1
  <2>3. PICK calls : calls = <<Call("meta", m, None), Call("refresh", m, Body),
                               Call("insert", m, OutgoingRow("pending")), Call("sending", m, None)>>
    OBVIOUS
  <2>4. \A i \in 1..Len(calls) : /\ calls[i].op \notin {"status", "lookup", "react", "buffer"} /\ calls[i].msg = m
                                 /\ calls[i].op = "insert" => i = 3
                                 /\ calls[i].op = "sending" => i = 4
    BY <2>3 DEF Call
  <2>5. m \in Msgs
    BY MessageLogAssumption
  <2>6. \A i \in 1..Len(calls) : \A c : c = calls[i] => Timely(c)'
    BY <2>2, <2>4, <2>5 DEF Timely, Reacting
  <2>7. Start(t, calls) /\ calls \in Seq(CallType)
    BY <1>2, <2>1, <2>3
  <2>8. \A n \in Msgs : /\ arrived[n] # "nothing" => arrived'[n] # "nothing"
                        /\ arrived[n] \in {"drafted", "message"} => arrived'[n] = arrived[n]
    BY <2>1, <2>2
  <2>9. /\ \A i \in 1..Len(calls), k \in 1..Len(calls) :
              calls[i].op \in {"sending", "status"} /\ calls[k].op = "insert" /\ calls[i].msg = calls[k].msg
              => i = k + 1
        /\ \A i \in 1..Len(calls) : /\ calls[i].op = "insert" => arrived[calls[i].msg] = "nothing"
                                    /\ calls[i].op \in {"sending", "status"} => arrived[calls[i].msg] # "drafted"
    BY <2>1, <2>4
  <2>. QED  BY <2>6, <2>7, <2>8, <2>9, StartTimely
<1>5. CASE arrived' = arrived /\ ~handle_inbound_message(t) /\ ~send_text(t)
  <2>1. PICK calls : Start(t, calls) /\ \A i \in 1..Len(calls) :
                        /\ calls[i].op \notin {"insert", "sending"}
                        /\ calls[i].op = "status" => arrived[calls[i].msg] = "message"
                        /\ calls[i].op \in Reacting => calls[i].op = "lookup" /\ OnServer(calls[i].msg)
    <3>1. CASE handle_reaction(t)
      <4>1. PICK m \in Msgs, a \in Actors, e \in Emojis \cup {Removed} :
               OnServer(m) /\ Start(t, <<Call("lookup", m, [actor |-> a, emoji |-> e])>>)
        BY <3>1 DEF handle_reaction
      <4>. QED  BY <4>1 DEF Call, Reacting
    <3>2. CASE handle_receipt(t)
      <4>1. PICK m \in Msgs, s \in receipt_status : arrived[m] = "message" /\ Start(t, <<Call("status", m, s)>>)
        BY <3>2 DEF handle_receipt
      <4>. QED  BY <4>1 DEF Call, Reacting
    <3>3. CASE handle_delete_for_me(t)
      BY <3>3, SMTT(30) DEF handle_delete_for_me, Call, Reacting
    <3>4. CASE handle_revoke(t) \/ handle_edit(t) \/ handle_read(t) \/ handle_clear_chat(t) \/ handle_delete_chat(t)
      <4>1. PICK op, m, x : op \in {"clear", "tombstone", "text", "mark", "remove"} /\ Start(t, <<Call(op, m, x)>>)
        <5>1. CASE handle_revoke(t) \/ handle_edit(t)
          BY <5>1 DEF handle_revoke, handle_edit
        <5>2. CASE handle_read(t) \/ handle_clear_chat(t) \/ handle_delete_chat(t)
          BY <5>2 DEF handle_read, handle_clear_chat, handle_delete_chat
        <5>. QED  BY <3>4, <5>1, <5>2
      <4>. QED  BY <4>1 DEF Call, Reacting
    <3>. QED  BY <1>5, <3>1, <3>2, <3>3, <3>4 DEF Handler, LiveAndSends, NoRewriters, Rewriters
  <2>3. \A i \in 1..Len(calls) : \A c : c = calls[i] => Timely(c)'
    BY <1>5, <2>1 DEF Timely, OnServer, Reacting
  <2>. QED  BY <1>2, <1>5, <2>1, <2>3, StartTimely
<1>6. arrived' = arrived \/ handle_inbound_message(t) \/ send_text(t)
  BY DEF Handler, LiveAndSends, NoRewriters, Rewriters, handle_reaction, handle_receipt, handle_revoke, handle_edit,
         handle_read, handle_delete_for_me, handle_clear_chat, handle_delete_chat, history
<1>. QED  BY <1>3, <1>4, <1>5, <1>6

LEMMA QueueInvStart == Init => QueueInv
<1> SUFFICES ASSUME Init PROVE QueueInv
  OBVIOUS
<1>1. \A t \in Tasks : Len(todo[t]) = 0
  BY EmptySeq DEF Init
<1>. QED  BY <1>1, WriteInvStart, ListsFitStart DEF QueueInv, CallsTimely, RowComesFirst, RacesNoted

\* Calls that are about the same thing, and meet the same calls.
Alike(c, d) ==
    /\ c.msg = d.msg /\ c.arg = d.arg
    /\ c.op = d.op \/ (c.op \in Reacting /\ d.op \in Reacting)

\* The calls left after a step are like calls that were there, or meet nothing that
\* is stored from the server.
LEMMA LeftAlike ==
    ASSUME QueueInv, NEW t \in Tasks, Step(t), ~server_accepts(t),
           NEW u \in Tasks, NEW i \in 1..Len(todo'[u])
    PROVE  \/ \E j \in 1..Len(todo[u]) : Alike(todo'[u][i], todo[u][j])
           \/ todo'[u][i].op \in {"clear", "refresh"}
           \/ todo'[u][i].op = "status" /\ todo'[u][i].msg \in Drafts
<1>1. CASE Was(t, u, i) \in 1..Len(todo[u]) /\ todo'[u][i] = todo[u][Was(t, u, i)]
  <2>1. Alike(todo'[u][i], todo[u][Was(t, u, i)])
    BY <1>1 DEF Alike
  <2>. QED  BY <1>1, <2>1
<1>2. ASSUME ~Idle(t)
      PROVE  1 \in 1..Len(todo[t]) /\ CallFits(t, todo[t], 1)
  BY <1>2, BusyTask, ListedCall DEF QueueInv, WriteInv, TypeInv
<1>3. CASE At(t, "sending") /\ todo'[u][i].op = "status" /\ todo'[u][i].msg = Msg(t)
  BY <1>2, <1>3 DEF At, Msg, CallFits
<1>4. CASE /\ u = t /\ At(t, "lookup") /\ todo'[u][i].op \in {"react", "buffer"}
           /\ todo'[u][i].msg = Msg(t) /\ todo'[u][i].arg = Arg(t)
  <2>1. 1 \in 1..Len(todo[t]) /\ todo[t][1].op = "lookup"
    BY <1>2, <1>4 DEF At
  <2>2. Alike(todo'[u][i], todo[u][1])
    BY <1>4, <2>1 DEF Alike, Reacting, Msg, Arg
  <2>. QED  BY <1>4, <2>1, <2>2
<1>. QED  BY <1>1, <1>3, <1>4, CallsLeft DEF QueueInv

LEMMA AlikeMeet ==
    ASSUME NEW c, NEW d, NEW e, NEW f, NEW m, NEW a, Meets(c, d, m, a), Alike(c, e), Alike(d, f)
    PROVE  Meets(e, f, m, a)
<1>1. c.op \in Reacting => e.op \in Reacting
  BY DEF Alike
<1>2. d.op \in Reacting => f.op \in Reacting
  BY DEF Alike
<1>3. c.op = "status" => e.op = "status"
  BY DEF Alike, Reacting
<1>4. /\ d.op \in Storing => f.op \in Storing
      /\ d.op = "drain" => f.op = "drain"
  BY DEF Alike, Reacting, Storing
<1>5. c.msg = e.msg /\ c.arg = e.arg /\ d.msg = f.msg /\ d.arg = f.arg
  BY DEF Alike
<1>. QED  BY <1>1, <1>2, <1>3, <1>4, <1>5 DEF Meets

LEMMA SameRaces ==
    ASSUME RacesNoted, todo' = todo, raced' = raced
    PROVE  RacesNoted'
<1> SUFFICES ASSUME NEW t \in Tasks, NEW u \in Tasks, t # u,
                    NEW i \in 1..Len(todo[t]), NEW k \in 1..Len(todo[u]),
                    NEW m \in Msgs, NEW a \in Actors \cup {None}, Meets(todo[t][i], todo[u][k], m, a)
             PROVE  <<m, a>> \in raced
  BY DEF RacesNoted
<1>. QED  BY DEF RacesNoted

LEMMA StepRaces ==
    ASSUME QueueInv, ListsFit', NEW t \in Tasks, Step(t), ~server_accepts(t)
    PROVE  RacesNoted'
<1>1. raced' = raced
  BY StepKeeps DEF QueueInv, WriteInv, ReturnWith
<1> SUFFICES ASSUME NEW u \in Tasks, NEW v \in Tasks, u # v,
                    NEW i \in 1..Len(todo'[u]), NEW k \in 1..Len(todo'[v]),
                    NEW m \in Msgs, NEW a \in Actors \cup {None},
                    NEW c, c = todo'[u][i], NEW d, d = todo'[v][k], Meets(c, d, m, a)
             PROVE  <<m, a>> \in raced
  BY <1>1 DEF RacesNoted
<1>2. /\ c.op \in Reacting \cup {"status"} /\ d.op \in Storing \cup {"drain"} \cup Reacting
      /\ c.op = "status" => d.op \in Storing
      /\ c.msg = m /\ d.msg = m
  BY DEF Meets, Reacting
<1>3. d.op \in Storing => d.msg \notin Drafts
  <2>1. CallFits(v, todo[v], k)'
    BY DEF ListsFit, Fits
  <2>. QED  BY <2>1 DEF CallFits, Storing, RowWriters, Writers
<1>4. \E j \in 1..Len(todo[u]) : Alike(c, todo[u][j])
  <2>1. ~(c.op = "status" /\ c.msg \in Drafts)
    BY <1>2, <1>3
  <2>2. c.op \notin {"clear", "refresh"}
    BY <1>2 DEF Reacting
  <2>. QED  BY <2>1, <2>2, LeftAlike
<1>5. \E l \in 1..Len(todo[v]) : Alike(d, todo[v][l])
  <2>1. d.op \notin {"clear", "refresh", "status"}
    BY <1>2 DEF Reacting, Storing
  <2>. QED  BY <2>1, LeftAlike
<1>6. PICK j \in 1..Len(todo[u]) : Alike(c, todo[u][j])
  BY <1>4
<1>7. PICK l \in 1..Len(todo[v]) : Alike(d, todo[v][l])
  BY <1>5
<1>8. Meets(todo[u][j], todo[v][l], m, a)
  BY <1>6, <1>7, AlikeMeet
<1>. QED  BY <1>8 DEF QueueInv, RacesNoted

LEMMA HandlerRaces ==
    ASSUME QueueInv, NEW t \in Tasks, NEW calls, Start(t, calls)
    PROVE  RacesNoted'
<1>1. /\ raced' = raced \cup Overlaps(t, calls)
      /\ \A u \in Tasks : todo'[u] = IF u = t THEN calls ELSE todo[u]
  BY DEF Start, QueueInv, WriteInv, TypeInv, TypeOK
<1> SUFFICES ASSUME NEW u \in Tasks, NEW v \in Tasks, u # v,
                    NEW i \in 1..Len(todo'[u]), NEW k \in 1..Len(todo'[v]),
                    NEW m \in Msgs, NEW a \in Actors \cup {None},
                    Meets(todo'[u][i], todo'[v][k], m, a)
             PROVE  <<m, a>> \in raced'
  BY DEF RacesNoted
<1>2. CASE u # t /\ v # t
  BY <1>1, <1>2 DEF QueueInv, RacesNoted
<1>3. PICK p : p = <<m, a>> /\ p \in Msgs \X (Actors \cup {None}) /\ p[1] = m /\ p[2] = a
  <2>1. <<m, a>> \in Msgs \X (Actors \cup {None})
    OBVIOUS
  <2>2. <<m, a>>[1] = m /\ <<m, a>>[2] = a
    OBVIOUS
  <2>. QED  BY <2>1, <2>2
<1>4. CASE u = t
  <2>1. /\ todo'[u][i] \in Calls(calls) /\ todo'[v][k] \in Calls(todo[v]) /\ v \in Tasks \ {t}
    BY <1>1, <1>4 DEF Calls
  <2>2. p \in Overlaps(t, calls)
    BY <1>3, <2>1 DEF Overlaps
  <2>. QED  BY <1>1, <1>3, <2>2
<1>5. CASE v = t
  <2>1. /\ todo'[v][k] \in Calls(calls) /\ todo'[u][i] \in Calls(todo[u]) /\ u \in Tasks \ {t}
    BY <1>1, <1>5 DEF Calls
  <2>2. p \in Overlaps(t, calls)
    BY <1>3, <2>1 DEF Overlaps
  <2>. QED  BY <1>1, <1>3, <2>2
<1>. QED  BY <1>2, <1>4, <1>5

LEMMA QueueInvStep ==
    ASSUME LiveAndSends, QueueInv, [Next]_vars
    PROVE  QueueInv'
<1>1. WriteInv'
  BY WriteInvStep DEF QueueInv, LiveAndSends
<1>2. CASE UNCHANGED vars
  <2>1. UNCHANGED <<messages, todo, arrived, raced>>
    BY <1>2 DEF vars, tables, history
  <2>2. ListsFit'
    BY <2>1, SameLists DEF QueueInv
  <2>3. CallsTimely' /\ RowComesFirst'
    <3>1. ASSUME NEW c, Timely(c) PROVE Timely(c)'
      BY <2>1, <3>1 DEF Timely, OnServer, Stored, About
    <3>2. CallsTimely'
      BY <2>1, <3>1 DEF QueueInv, CallsTimely
    <3>3. RowComesFirst'
      BY <2>1 DEF QueueInv, RowComesFirst
    <3>. QED  BY <3>2, <3>3
  <2>4. RacesNoted'
    BY <2>1, SameRaces DEF QueueInv
  <2>. QED  BY <1>1, <2>2, <2>3, <2>4 DEF QueueInv
<1>3. ASSUME NEW t \in Tasks, Step(t) PROVE QueueInv'
  <2>1. ListsFit'
    BY <1>3, StepFits DEF QueueInv
  <2>2. CASE server_accepts(t)
    <3>1. RacesNoted'
      BY <2>2, SameRaces DEF server_accepts, QueueInv
    <3>. QED  BY <1>1, <2>1, <2>2, <3>1, AcceptTimely DEF QueueInv
  <2>3. CASE ~server_accepts(t)
    <3>1. RacesNoted'
      BY <1>3, <2>1, <2>3, StepRaces
    <3>. QED  BY <1>1, <1>3, <2>1, <2>3, <3>1, StepTimely DEF QueueInv
  <2>. QED  BY <2>2, <2>3
<1>4. ASSUME NEW t \in Tasks, Handler(t) PROVE QueueInv'
  <2>1. ListsFit'
    BY <1>4, HandlerKeepsFit DEF QueueInv, LiveAndSends
  <2>2. PICK calls : StartsWith(t, calls)
    BY <1>4, HandlerFits DEF LiveAndSends
  <2>3. RacesNoted'
    BY <2>2, HandlerRaces DEF StartsWith
  <2>. QED  BY <1>1, <1>4, <2>1, <2>3, HandlerTimely DEF QueueInv, WriteInv
<1>. QED  BY <1>2, <1>3, <1>4 DEF Next

(***************************************************************************)
(* Receipts and reactions of a message, before its row and after.          *)
(***************************************************************************)
\* The row of m may still appear.
MayStore(m) == arrived[m] = "nothing" \/ ToWrite(m)

LEMMA ArrivesForGood ==
    ASSUME QueueInv, [Next]_vars, NEW m \in Msgs, arrived'[m] = "nothing"
    PROVE  arrived[m] = "nothing"
<1>1. arrived \in [Msgs -> {"nothing", "placeholder", "drafted", "message"}]
  BY DEF QueueInv, WriteInv, TypeInv, TypeOK
<1>2. CASE UNCHANGED vars
  BY <1>2 DEF vars, history
<1>3. ASSUME NEW t \in Tasks, Step(t) PROVE arrived[m] = "nothing"
  <2>1. CASE server_accepts(t)
    BY <1>1, <2>1 DEF server_accepts
  <2>2. CASE ~server_accepts(t)
    BY <1>3, <2>2, StepKeeps DEF QueueInv, WriteInv
  <2>. QED  BY <2>1, <2>2
<1>4. ASSUME NEW t \in Tasks, Handler(t) PROVE arrived[m] = "nothing"
  <2>1. \/ arrived' = arrived
        \/ \E n \in Msgs, how \in {"message", "placeholder", "drafted"} : arrived' = [arrived EXCEPT ![n] = how]
    <3>1. CASE handle_inbound_message(t) \/ handle_undecryptable(t)
      BY <3>1 DEF handle_inbound_message, handle_undecryptable
    <3>2. CASE send_text(t) \/ persist_and_emit(t)
      BY <3>2, MessageLogAssumption DEF send_text, persist_and_emit
    <3>3. CASE ~(handle_inbound_message(t) \/ handle_undecryptable(t)) /\ ~(send_text(t) \/ persist_and_emit(t))
      BY <1>4, <3>3 DEF Handler, handle_reaction, handle_receipt, handle_revoke, handle_edit,
         handle_read, handle_delete_for_me, handle_clear_chat, handle_delete_chat, import_history_sync,
         edit_message, revoke_message, history
    <3>. QED  BY <3>1, <3>2, <3>3
  <2>. QED  BY <1>1, <2>1
<1>. QED  BY <1>2, <1>3, <1>4 DEF Next

\* A handler takes up a row to write only as its message arrives.
LEMMA StartsToWrite ==
    ASSUME LiveAndSends, QueueInv, NEW t \in Tasks, Handler(t), NEW m \in Msgs, ToWrite(m)'
    PROVE  MayStore(m)
<1>1. PICK calls : /\ Start(t, calls)
                   /\ \A i \in 1..Len(calls) : calls[i].op \in RowWriters => arrived[calls[i].msg] = "nothing"
  <2>1. CASE handle_inbound_message(t)
    <3>1. PICK n \in Msgs : n \notin Drafts /\ arrived[n] # "message" /\ Start(t, InboundCalls(n, Bump(n)))
      BY <2>1 DEF handle_inbound_message
    <3>2. arrived[n] = "nothing"
      BY <3>1 DEF QueueInv, WriteInv, ArrivesOnce, TypeInv, TypeOK
    <3>3. PICK calls : calls = InboundCalls(n, Bump(n))
      OBVIOUS
    <3>4. \A i \in 1..Len(calls) : calls[i].msg = n
      BY <3>3 DEF InboundCalls, Bump, Call
    <3>. QED  BY <3>1, <3>2, <3>3, <3>4
  <2>2. CASE send_text(t)
    <3>1. PICK n \in Drafts :
           /\ arrived[n] = "nothing"
           /\ Start(t, <<Call("meta", n, None), Call("refresh", n, Body),
                         Call("insert", n, OutgoingRow("pending")), Call("sending", n, None)>>)
      BY <2>2 DEF send_text
    <3>2. PICK calls : calls = <<Call("meta", n, None), Call("refresh", n, Body),
                                 Call("insert", n, OutgoingRow("pending")), Call("sending", n, None)>>
      OBVIOUS
    <3>3. \A i \in 1..Len(calls) : calls[i].msg = n
      BY <3>2 DEF Call
    <3>. QED  BY <3>1, <3>2, <3>3
  <2>3. CASE ~handle_inbound_message(t) /\ ~send_text(t)
    <3>1. CASE handle_delete_for_me(t)
      BY <3>1 DEF handle_delete_for_me, Call, RowWriters, Writers
    <3>2. CASE ~handle_delete_for_me(t)
      <4>1. PICK op, n, x : op \in {"lookup", "status", "tombstone", "text", "mark", "clear", "remove"} /\
               Start(t, <<Call(op, n, x)>>)
        <5>1. CASE handle_reaction(t)
          <6>1. PICK n \in Msgs, a \in Actors, e \in Emojis \cup {Removed} :
                   Start(t, <<Call("lookup", n, [actor |-> a, emoji |-> e])>>)
            BY <5>1 DEF handle_reaction
          <6>. QED  BY <6>1
        <5>2. CASE handle_receipt(t) \/ handle_revoke(t) \/ handle_edit(t)
          BY <5>2 DEF handle_receipt, handle_revoke, handle_edit
        <5>3. CASE handle_read(t) \/ handle_clear_chat(t) \/ handle_delete_chat(t)
          BY <5>3 DEF handle_read, handle_clear_chat, handle_delete_chat
        <5>. QED  BY <2>3, <3>2, <5>1, <5>2, <5>3 DEF Handler, LiveAndSends, NoRewriters, Rewriters
      <4>2. PICK c : c = Call(op, n, x)
        OBVIOUS
      <4>3. c.op \notin RowWriters
        BY <4>1, <4>2 DEF Call, RowWriters, Writers
      <4>. QED  BY <4>1, <4>2, <4>3
    <3>. QED  BY <3>1, <3>2
  <2>. QED  BY <2>1, <2>2, <2>3
<1>2. \A u \in Tasks : todo'[u] = IF u = t THEN calls ELSE todo[u]
  BY <1>1 DEF Start, QueueInv, WriteInv, TypeInv, TypeOK
<1>3. PICK u \in Tasks : \E i \in 1..Len(todo'[u]) : todo'[u][i].op \in RowWriters /\ todo'[u][i].msg = m
  BY DEF ToWrite
<1>. QED  BY <1>1, <1>2, <1>3 DEF MayStore, ToWrite

LEMMA NoNewRow ==
    ASSUME LiveAndSends, QueueInv, [Next]_vars, NEW m \in Msgs, MayStore(m)'
    PROVE  MayStore(m)
<1>1. CASE arrived'[m] = "nothing"
  BY <1>1, ArrivesForGood DEF MayStore
<1>2. CASE ToWrite(m)'
  <2>1. CASE UNCHANGED vars
    BY <1>2, <2>1 DEF vars, ToWrite, MayStore
  <2>2. ASSUME NEW t \in Tasks, Step(t) PROVE ToWrite(m)
    <3>1. CASE server_accepts(t)
      BY <1>2, <3>1 DEF server_accepts, ToWrite
    <3>2. CASE ~server_accepts(t)
      <4>0. PICK u \in Tasks : \E i \in 1..Len(todo'[u]) : todo'[u][i].op \in RowWriters /\ todo'[u][i].msg = m
        BY <1>2 DEF ToWrite
      <4>1. PICK i \in 1..Len(todo'[u]) : todo'[u][i].op \in RowWriters /\ todo'[u][i].msg = m
        BY <4>0
      <4>2. Was(t, u, i) \in 1..Len(todo[u]) /\ todo'[u][i] = todo[u][Was(t, u, i)]
        BY <2>2, <3>2, <4>1, CallsLeft DEF QueueInv, RowWriters, Writers
      <4>. QED  BY <4>1, <4>2 DEF ToWrite
    <3>. QED  BY <3>1, <3>2
  <2>3. ASSUME NEW t \in Tasks, Handler(t) PROVE MayStore(m)
    BY <1>2, <2>3, StartsToWrite
  <2>. QED  BY <2>1, <2>2, <2>3 DEF Next, MayStore
<1>. QED  BY <1>1, <1>2 DEF MayStore

\* Reactions of m that wait are drained, unless the message is gone.
LEMMA DrainsCome ==
    ASSUME LiveAndSends, QueueInv, NEW t \in Tasks, Step(t), NEW m \in Msgs, ToDrain(m), Stored(m)',
           ~(At(t, "drain") /\ Msg(t) = m)
    PROVE  ToDrain(m)'
<1>1. CASE server_accepts(t)
  BY <1>1 DEF server_accepts, ToDrain
<1>2. CASE ~server_accepts(t)
  <2>1. ~Idle(t)
    BY <1>2, StepKeeps DEF QueueInv, WriteInv
  <2>2. PICK rest : ReturnWith(t, rest) /\ GoesOn(t, rest)
    BY <1>2, StepGoesOn DEF QueueInv
  <2>3. \A u \in Tasks : todo'[u] = IF u = t THEN rest ELSE todo[u]
    BY <2>2 DEF ReturnWith, QueueInv, WriteInv, TypeInv, TypeOK
  <2>4. /\ todo[t] \in Seq(CallType) /\ todo[t] # <<>> /\ Len(todo[t]) \in Nat \ {0} /\ 1 \in 1..Len(todo[t])
        /\ CallFits(t, todo[t], 1)
    BY <2>1, BusyTask DEF QueueInv, WriteInv, TypeInv, Idle, ListsFit, Fits
  <2>0. PICK u \in Tasks : \E i \in 1..Len(todo[u]) : todo[u][i].op = "drain" /\ todo[u][i].msg = m
    BY DEF ToDrain
  <2>5. PICK i \in 1..Len(todo[u]) : todo[u][i].op = "drain" /\ todo[u][i].msg = m
    BY <2>0
  <2>6. CASE u # t
    BY <2>3, <2>5, <2>6 DEF ToDrain
  <2>7. CASE u = t
    <3>1. i # 1
      BY <2>1, <2>5, <2>7 DEF At, Msg
    <3>2. CASE rest = Tail(todo[t])
      <4>1. /\ Len(rest) = Len(todo[t]) - 1
            /\ \A k \in 1..Len(rest) : rest[k] = todo[t][k + 1]
        BY <2>4, <3>2, HeadTailProperties
      <4>2. i - 1 \in 1..Len(rest) /\ rest[i - 1] = todo[t][i]
        BY <2>4, <2>5, <2>7, <3>1, <4>1
      <4>3. PICK k \in 1..Len(rest) : rest[k] = todo[t][i]
        BY <4>2
      <4>4. todo'[t] = rest /\ rest[k].op = "drain" /\ rest[k].msg = m
        BY <2>3, <2>5, <2>7, <4>3
      <4>5. \E j \in 1..Len(todo'[t]) : todo'[t][j].op = "drain" /\ todo'[t][j].msg = m
        BY <4>4
      <4>. QED  BY <4>5, Zenon DEF ToDrain
    <3>3. CASE At(t, "list") \/ At(t, "sending") \/ At(t, "echoing") \/ At(t, "request") \/ At(t, "lookup")
      <4>1. 1 = Len(todo[t])
        BY <2>4, <3>3 DEF At, CallFits, EndsAt, LiveAndSends, Reacting
      <4>2. i \in 1..1
        BY <2>7, <4>1, Zenon
      <4>. QED  BY <3>1, <4>2
    <3>4. CASE (\E op \in RowWriters : At(t, op)) /\ ~Stored(Msg(t)) /\ messages' = messages
      <4>1. todo[t][1].op \in RowWriters
        BY <3>4 DEF At
      <4>2. Len(todo[t]) = 2 /\ todo[t][2].msg = Msg(t)
        BY <2>4, <4>1 DEF CallFits, ThenOnly, LiveAndSends, Msg
      <4>3. m = Msg(t)
        BY <2>5, <2>7, <3>1, <4>2
      <4>. QED  BY <3>4, <4>3 DEF Stored
    <3>. QED  BY <2>2, <3>2, <3>3, <3>4 DEF GoesOn
  <2>. QED  BY <2>6, <2>7
<1>. QED  BY <1>1, <1>2

\* Nothing is told of a message before its row, and a stored row has what was told,
\* unless a receipt met the row on its way.
ReceiptsFit ==
    \A m \in Msgs : <<m, None>> \notin raced =>
       /\ MayStore(m) => told[m] = 0
       /\ Stored(m) => told[m] <= status_rank(messages[m].status)

\* What a step makes of the statuses told: it forgets some, with their message, or
\* is a status call.
LEMMA Forgets ==
    ASSUME QueueInv, NEW t \in Tasks, Step(t), ~set_message_status(t), NEW m \in Msgs
    PROVE  told'[m] \in {told[m], 0}
<1>1. told \in [Msgs -> 0..5]
  BY DEF QueueInv, WriteInv, TypeInv, TypeOK
<1>2. CASE delete_message(t) \/ clear_chat(t) \/ delete_chat(t)
  BY <1>1, <1>2 DEF delete_message, clear_chat, delete_chat, DeleteMessages
<1>3. CASE ~(delete_message(t) \/ clear_chat(t) \/ delete_chat(t))
  BY <1>3 DEF Step, find_reaction_target, find_undecryptable, record_message_activity, set_chat_last_message_meta, upsert_message, upsert_reaction,
         buffer_pending_reaction, drain_pending_reactions, mark_message_revoked,
         update_message_text, refresh_preview, mark_chat, upsert_chat_from_history, server_accepts, send_answered,
         echo_answered, request_answered, history
<1>. QED  BY <1>2, <1>3

\* What met is never forgotten.
LEMMA RacesStay ==
    ASSUME QueueInv, [Next]_vars
    PROVE  raced \subseteq raced'
<1>1. CASE UNCHANGED vars
  BY <1>1 DEF vars
<1>2. ASSUME NEW t \in Tasks, Step(t) PROVE raced' = raced
  <2>1. CASE server_accepts(t)
    BY <2>1 DEF server_accepts
  <2>2. CASE ~server_accepts(t)
    BY <1>2, <2>2, StepKeeps DEF QueueInv, WriteInv, ReturnWith
  <2>. QED  BY <2>1, <2>2
<1>3. ASSUME NEW t \in Tasks, Handler(t) PROVE raced \subseteq raced'
  BY <1>3 DEF Handler, Start, handle_inbound_message, handle_undecryptable, handle_reaction, handle_receipt,
     handle_revoke, handle_edit, handle_read, handle_delete_for_me, handle_clear_chat, handle_delete_chat,
     import_history_sync, send_text, persist_and_emit, edit_message, revoke_message
<1>. QED  BY <1>1, <1>2, <1>3 DEF Next

LEMMA ReceiptsStep ==
    ASSUME LiveAndSends, QueueInv, ReceiptsFit, [Next]_vars
    PROVE  ReceiptsFit'
<1>1. \A s \in Statuses : status_rank(s) \in 0..5
  BY RanksAreNumbers
<1>2. messages \in [Msgs -> Row \cup {None}] /\ told \in [Msgs -> 0..5] /\ messages' \in [Msgs -> Row \cup {None}]
  <2>1. TypeInv'
    BY QueueInvStep DEF QueueInv, WriteInv
  <2>. QED  BY <2>1 DEF QueueInv, WriteInv, TypeInv, TypeOK
<1> SUFFICES ASSUME NEW m \in Msgs, <<m, None>> \notin raced'
             PROVE  /\ MayStore(m)' => told'[m] = 0
                    /\ Stored(m)' => told'[m] <= status_rank(messages'[m].status)
  BY DEF ReceiptsFit
<1>3. (MayStore(m)' => MayStore(m)) /\ <<m, None>> \notin raced
  BY NoNewRow, RacesStay
<1>4. Stored(m)' => messages'[m] \in Row /\ messages'[m].status \in Statuses /\ status_rank(messages'[m].status) \in 0..5
  BY <1>1, <1>2 DEF Stored, Row
<1>5. CASE messages' = messages /\ told' = told
  BY <1>3, <1>5 DEF ReceiptsFit, Stored
<1>6. ASSUME NEW t \in Tasks, Step(t), ~set_message_status(t)
      PROVE  /\ MayStore(m)' => told'[m] = 0
             /\ Stored(m)' => told'[m] <= status_rank(messages'[m].status)
  <2>1. told'[m] \in {told[m], 0}
    BY <1>6, Forgets
  <2>2. CASE Stored(m)
    <3>1. Stored(m)' => status_rank(messages'[m].status) >= status_rank(messages[m].status)
      BY <2>2, WriteInvStep DEF QueueInv, LiveAndSends, Stored
    <3>2. status_rank(messages[m].status) \in 0..5
      BY <1>1, <1>2, <2>2 DEF Stored, Row
    <3>. QED  BY <1>2, <1>3, <1>4, <2>1, <2>2, <3>1, <3>2 DEF ReceiptsFit
  <2>3. CASE ~Stored(m)
    <3>1. Stored(m)' => ToWrite(m)
      BY <1>6, <2>3, RowAppears DEF QueueInv
    <3>. QED  BY <1>3, <1>4, <2>1, <3>1 DEF ReceiptsFit, MayStore
  <2>. QED  BY <2>2, <2>3
<1>7. ASSUME NEW t \in Tasks, set_message_status(t)
      PROVE  /\ MayStore(m)' => told'[m] = 0
             /\ Stored(m)' => told'[m] <= status_rank(messages'[m].status)
  <2>1. ~Idle(t) /\ Msg(t) \in Msgs /\ Arg(t) \in Statuses /\ 1 \in 1..Len(todo[t])
    BY <1>7, HeadCall, CallArguments, BusyTask DEF set_message_status, Arg, Msg, QueueInv, WriteInv, TypeInv
  <2>2. /\ told' = [told EXCEPT ![Msg(t)] = IF status_rank(Arg(t)) > @ THEN status_rank(Arg(t)) ELSE @]
        /\ messages' = [messages EXCEPT ![Msg(t)] =
                          IF @ # None /\ Upgrades(@.status, Arg(t)) THEN [@ EXCEPT !.status = Arg(t)] ELSE @]
    BY <1>7 DEF set_message_status
  <2>3. CASE m # Msg(t)
    <3>1. told'[m] = told[m] /\ messages'[m] = messages[m]
      BY <1>2, <2>2, <2>3
    <3>. QED  BY <1>3, <3>1 DEF ReceiptsFit, Stored
  <2>4. CASE m = Msg(t)
    <3>1. told'[m] = IF status_rank(Arg(t)) > told[m] THEN status_rank(Arg(t)) ELSE told[m]
      BY <1>2, <2>1, <2>2, <2>4
    <3>2. messages'[m] = IF messages[m] # None /\ Upgrades(messages[m].status, Arg(t))
                         THEN [messages[m] EXCEPT !.status = Arg(t)] ELSE messages[m]
      BY <1>2, <2>1, <2>2, <2>4
    <3>3. ~MayStore(m)
      <4>1. todo[t][1].op = "status" /\ Timely(todo[t][1])
        BY <1>7, <2>1 DEF set_message_status, At, QueueInv, CallsTimely
      <4>2. ~ToWrite(m)
        BY <1>3, <2>1, <2>4, <4>1, NoRowToCome DEF About, Msg
      <4>3. arrived[m] # "nothing"
        BY <2>4, <4>1 DEF Timely, Msg
      <4>. QED  BY <4>2, <4>3 DEF MayStore
    <3>4. CASE messages[m] = None
      BY <1>3, <3>2, <3>3, <3>4 DEF Stored
    <3>5. CASE messages[m] # None
      <4>1. /\ messages[m] \in Row /\ messages[m].status \in Statuses /\ status_rank(messages[m].status) \in 0..5
            /\ status_rank(Arg(t)) \in 0..5 /\ told[m] \in 0..5 /\ told[m] <= status_rank(messages[m].status)
        BY <1>1, <1>2, <1>3, <2>1, <3>5 DEF ReceiptsFit, Stored, Row
      <4>2. CASE status_rank(Arg(t)) > status_rank(messages[m].status)
        <5>1. messages'[m].status = Arg(t)
          BY <3>2, <3>5, <4>1, <4>2 DEF Upgrades, Row
        <5>. QED  BY <1>3, <3>1, <3>3, <4>1, <4>2, <5>1
      <4>3. CASE ~(status_rank(Arg(t)) > status_rank(messages[m].status))
        <5>1. messages'[m] = messages[m]
          BY <3>2, <4>3 DEF Upgrades
        <5>. QED  BY <1>3, <3>1, <3>3, <4>1, <4>3, <5>1
      <4>. QED  BY <4>2, <4>3
    <3>. QED  BY <3>4, <3>5
  <2>. QED  BY <2>3, <2>4
<1>8. ASSUME NEW t \in Tasks, Handler(t) PROVE messages' = messages /\ told' = told
  <2>1. messages' = messages
    BY <1>8, QueueInvStep, HandlerKeepsWrites DEF QueueInv, WriteInv, LiveAndSends, Next
  <2>2. told' = told
    BY <1>8 DEF Handler, handle_reaction, handle_receipt, handle_revoke, handle_edit, handle_inbound_message,
         handle_read, handle_delete_for_me, handle_clear_chat, handle_delete_chat, import_history_sync,
         edit_message, revoke_message, send_text, persist_and_emit, handle_undecryptable, history
  <2>. QED  BY <2>1, <2>2
<1>9. CASE UNCHANGED vars
  BY <1>5, <1>9 DEF vars, tables, history
<1>. QED  BY <1>5, <1>6, <1>7, <1>8, <1>9 DEF Next

(***************************************************************************)
(* Reactions.                                                              *)
(***************************************************************************)
\* The reaction of a to m waits in the buffer, or is shown.
Held(m, a) == pending[m][a] = latest[m][a] /\ reactions[m][a] = None
Shown(m, a) == pending[m][a] = None /\ reactions[m][a] = Visible(latest[m][a])
\* Until the row of m comes the buffer has the last reactions; a stored message shows
\* them, or its drain is still to come.
ReactionFits(m, a) ==
    /\ MayStore(m) => pending[m][a] = latest[m][a]
    /\ Stored(m) => Shown(m, a) \/ (Held(m, a) /\ ToDrain(m))
\* A message that is not stored shows nothing, whatever met; the rest is said of the
\* actors whose reactions met nothing.
ReactionsFitOf(m) ==
    /\ ~Stored(m) => reactions[m] = Nobody
    /\ m \in Drafts /\ arrived[m] # "message" => pending[m] = Nobody /\ latest[m] = Nobody
    /\ \A a \in Actors : <<m, a>> \notin raced => ReactionFits(m, a)
ReactionsFit == \A m \in Msgs : ReactionsFitOf(m)

\* Nothing happens to m, as far as its reactions go.
SameReactions(m) ==
    pending'[m] = pending[m] /\ reactions'[m] = reactions[m] /\ latest'[m] = latest[m]
StillFits(m) ==
    /\ m \in Drafts /\ arrived'[m] # "message" => arrived[m] # "message"
    /\ MayStore(m)' => MayStore(m)
    /\ raced \subseteq raced'

LEMMA ArrivalsStay ==
    ASSUME LiveAndSends, QueueInv, [Next]_vars, NEW m \in Msgs
    PROVE  StillFits(m)
<1>1. MayStore(m)' => MayStore(m)
  BY NoNewRow
<1>2. arrived \in [Msgs -> {"nothing", "placeholder", "drafted", "message"}]
  BY DEF QueueInv, WriteInv, TypeInv, TypeOK
<1>3. ASSUME m \in Drafts, arrived[m] = "message" PROVE arrived'[m] = "message"
  <2>1. CASE UNCHANGED vars
    BY <1>3, <2>1 DEF vars, history
  <2>2. ASSUME NEW t \in Tasks, Step(t) PROVE arrived'[m] = "message"
    <3>1. CASE server_accepts(t)
      BY <1>2, <1>3, <3>1 DEF server_accepts
    <3>2. CASE ~server_accepts(t)
      BY <1>3, <2>2, <3>2, StepKeeps DEF QueueInv, WriteInv
    <3>. QED  BY <3>1, <3>2
  <2>3. ASSUME NEW t \in Tasks, Handler(t) PROVE arrived'[m] = "message"
    <3>1. CASE handle_inbound_message(t)
      <4>1. PICK n \in Msgs : n \notin Drafts /\ arrived' = [arrived EXCEPT ![n] = "message"]
        BY <3>1 DEF handle_inbound_message
      <4>. QED  BY <1>2, <1>3, <4>1
    <3>2. CASE send_text(t)
      <4>1. PICK n \in Drafts : arrived[n] = "nothing" /\ arrived' = [arrived EXCEPT ![n] = "drafted"]
        BY <3>2 DEF send_text
      <4>. QED  BY <1>2, <1>3, <4>1
    <3>3. CASE ~handle_inbound_message(t) /\ ~send_text(t)
      <4>1. arrived' = arrived
        BY <2>3, <3>3 DEF Handler, LiveAndSends, NoRewriters, Rewriters, handle_reaction, handle_receipt, handle_revoke,
           handle_edit, handle_read, handle_delete_for_me, handle_clear_chat, handle_delete_chat, history
      <4>. QED  BY <1>3, <4>1
    <3>. QED  BY <3>1, <3>2, <3>3
  <2>. QED  BY <2>1, <2>2, <2>3 DEF Next
<1>. QED  BY <1>1, <1>3, RacesStay DEF StillFits

\* A message whose reactions a step leaves alone, and that is stored before the step
\* exactly if it is after it.
LEMMA SameReactionsFit ==
    ASSUME NEW m \in Msgs, ReactionsFitOf(m), StillFits(m), SameReactions(m),
           Stored(m)' <=> Stored(m), ToDrain(m) /\ Stored(m)' => ToDrain(m)'
    PROVE  ReactionsFitOf(m)'
<1>1. ASSUME NEW a \in Actors, <<m, a>> \notin raced' PROVE ReactionFits(m, a)'
  <2>1. ReactionFits(m, a)
    BY <1>1 DEF ReactionsFitOf, StillFits
  <2>. QED  BY <2>1 DEF ReactionFits, Shown, Held, SameReactions, StillFits
<1>2. /\ ~Stored(m)' => reactions'[m] = Nobody
      /\ m \in Drafts /\ arrived'[m] # "message" => pending'[m] = Nobody /\ latest'[m] = Nobody
  BY DEF ReactionsFitOf, StillFits, SameReactions
<1>. QED  BY <1>1, <1>2 DEF ReactionsFitOf, Nobody

\* A message that goes takes its reactions along.
LEMMA GoneFits ==
    ASSUME NEW m \in Msgs, ReactionsFitOf(m), StillFits(m), ~Stored(m)', reactions'[m] = Nobody,
           \/ pending'[m] = pending[m] /\ latest'[m] = IF Stored(m) THEN Nobody ELSE latest[m]
           \/ pending'[m] = Nobody /\ latest'[m] = Nobody,
           Stored(m) => ~MayStore(m)
    PROVE  ReactionsFitOf(m)'
<1>1. ASSUME NEW a \in Actors, <<m, a>> \notin raced' PROVE ReactionFits(m, a)'
  <2>1. ReactionFits(m, a)
    BY <1>1 DEF ReactionsFitOf, StillFits
  <2>. QED  BY <2>1 DEF ReactionFits, StillFits
<1>2. m \in Drafts /\ arrived'[m] # "message" => pending'[m] = Nobody /\ latest'[m] = Nobody
  BY DEF ReactionsFitOf, StillFits
<1>. QED  BY <1>1, <1>2 DEF ReactionsFitOf, Nobody

\* A row that appears: the drain of its reactions is next, or there are none yet.
LEMMA NewRowFits ==
    ASSUME QueueInv, LiveAndSends, NEW m \in Msgs, ReactionsFitOf(m), StillFits(m), SameReactions(m),
           NEW t \in Tasks, Step(t), ~Stored(m), Stored(m)'
    PROVE  ReactionsFitOf(m)'
<1>1. /\ upsert_message(t) /\ Msg(t) = m /\ todo[t][1].op \in {"store", "insert"}
      /\ ReturnWith(t, Tail(todo[t])) /\ ToWrite(m) /\ MayStore(m)
  BY RowAppears DEF QueueInv, MayStore
<1>2. ~server_accepts(t) /\ ~Idle(t)
  <2>1. ~server_accepts(t)
    BY DEF server_accepts, tables, Stored
  <2>. QED  BY <2>1, StepKeeps DEF QueueInv, WriteInv
<1>3. /\ todo[t] \in Seq(CallType) /\ todo[t] # <<>> /\ 1 \in 1..Len(todo[t])
      /\ CallFits(t, todo[t], 1) /\ Timely(todo[t][1])
  BY <1>2, BusyTask DEF QueueInv, WriteInv, TypeInv, Idle, ListsFit, Fits, CallsTimely
<1>4. reactions[m] = Nobody
  BY DEF ReactionsFitOf
<1>5. m \in Drafts /\ arrived'[m] # "message" => pending'[m] = Nobody /\ latest'[m] = Nobody
  BY DEF ReactionsFitOf, StillFits, SameReactions
<1>6. ASSUME NEW a \in Actors, <<m, a>> \notin raced' PROVE ReactionFits(m, a)'
  <2>1. pending[m][a] = latest[m][a] /\ reactions[m][a] = None
    BY <1>1, <1>4, <1>6 DEF ReactionsFitOf, ReactionFits, StillFits, Nobody
  <2>2. CASE todo[t][1].op = "store"
    <3>1. ThenOnly(todo[t], 1, "drain")
      BY <1>1, <1>3, <2>2 DEF CallFits
    <3>2. Len(Tail(todo[t])) = 1 /\ Tail(todo[t])[1].op = "drain" /\ Tail(todo[t])[1].msg = m
      BY <1>1, <1>3, <3>1, HeadTailProperties DEF ThenOnly, Msg
    <3>3. todo'[t] = Tail(todo[t])
      BY <1>1 DEF ReturnWith, QueueInv, WriteInv, TypeInv, TypeOK
    <3>4. ToDrain(m)'
      <4>1. 1 \in 1..Len(todo'[t]) /\ todo'[t][1].op = "drain" /\ todo'[t][1].msg = m
        BY <3>2, <3>3, SMTT(30)
      <4>. QED  BY <4>1, Zenon DEF ToDrain
    <3>. QED  BY <2>1, <3>4 DEF ReactionFits, Held, SameReactions
  <2>3. CASE todo[t][1].op = "insert"
    <3>1. m \in Drafts /\ arrived[m] = "drafted"
      BY <1>1, <1>3, <2>3 DEF CallFits, Timely, Msg
    <3>2. pending[m][a] = None /\ latest[m][a] = None
      BY <3>1 DEF ReactionsFitOf, Nobody
    <3>3. Visible(latest[m][a]) = None
      BY <3>2 DEF Visible
    <3>. QED  BY <2>1, <3>2, <3>3 DEF ReactionFits, Shown, SameReactions
  <2>. QED  BY <1>1, <2>2, <2>3
<1>. QED  BY <1>5, <1>6 DEF ReactionsFitOf, Nobody

LEMMA ToComeIsNotStored ==
    ASSUME QueueInv, NEW m \in Msgs, MayStore(m)
    PROVE  ~Stored(m)
<1>1. CASE arrived[m] = "nothing"
  BY <1>1, NotStoredYet DEF QueueInv, WriteInv, Stored
<1>2. CASE ToWrite(m)
  <2>1. PICK t \in Tasks : \E i \in 1..Len(todo[t]) : todo[t][i].op \in RowWriters /\ todo[t][i].msg = m
    BY <1>2 DEF ToWrite
  <2>. QED  BY <2>1, RowToWrite DEF QueueInv, WriteInv, Stored
<1>. QED  BY <1>1, <1>2 DEF MayStore

LEMMA ReactionTypes ==
    ASSUME QueueInv
    PROVE  /\ messages \in [Msgs -> Row \cup {None}]
           /\ reactions \in [Msgs -> [Actors -> Emojis \cup {None}]]
           /\ pending \in [Msgs -> [Actors -> Emojis \cup {Removed, None}]]
           /\ latest \in [Msgs -> [Actors -> Emojis \cup {Removed, None}]]
BY DEF QueueInv, WriteInv, TypeInv, TypeOK

\* A reaction that meets nothing is handled when no row and no drain of its message is
\* to come.
LEMMA NoDrainToCome ==
    ASSUME LiveAndSends, QueueInv, NEW t \in Tasks, ~Idle(t), todo[t][1].op \in Reacting,
           <<Msg(t), Arg(t).actor>> \notin raced
    PROVE  ~ToDrain(Msg(t)) /\ ~ToWrite(Msg(t))
<1>1. 1 \in 1..Len(todo[t])
  BY BusyTask DEF QueueInv, WriteInv, TypeInv
<1>2. Len(todo[t]) = 1 /\ Msg(t) \in Msgs /\ Arg(t).actor \in Actors
  BY <1>1, ListedCall, CallArguments DEF CallFits, Msg, Arg
<1>3. ASSUME NEW u \in Tasks, NEW k \in 1..Len(todo[u]), todo[u][k].op = "drain", todo[u][k].msg = Msg(t)
      PROVE  FALSE
  <2>1. u # t
    <3> SUFFICES ASSUME u = t PROVE FALSE
      OBVIOUS
    <3>1. k \in 1..1
      BY <1>2
    <3>2. k = 1
      BY <3>1
    <3>. QED  BY <1>3, <3>2 DEF Reacting
  <2>2. Meets(todo[t][1], todo[u][k], Msg(t), Arg(t).actor)
    BY <1>3 DEF Meets, Msg, Arg
  <2>. QED  BY <1>1, <1>2, <2>1, <2>2 DEF QueueInv, RacesNoted
<1>4. ~ToDrain(Msg(t))
  BY <1>3 DEF ToDrain
<1>5. ~ToWrite(Msg(t))
  BY <1>1, NoRowToCome DEF About, Msg, Arg, Reacting
<1>. QED  BY <1>4, <1>5

LEMMA ReactFits ==
    ASSUME LiveAndSends, QueueInv, ReactionsFit, NEW t \in Tasks, upsert_reaction(t), TypeInv',
           NEW m \in Msgs, StillFits(m), m = Msg(t), Stored(m)
    PROVE  ReactionsFitOf(m)'
<1> DEFINE a == Arg(t).actor
           e == Arg(t).emoji
<1>1. a \in Actors /\ e \in Emojis \cup {Removed} /\ ~Idle(t) /\ todo[t][1].op \in Reacting
  BY HeadCall, CallArguments DEF upsert_reaction, Arg, QueueInv, WriteInv, TypeInv, Reacting
<1>2. /\ reactions' = [reactions EXCEPT ![m][a] = Visible(e)]
      /\ latest' = [latest EXCEPT ![m][a] = e]
      /\ UNCHANGED <<messages, pending, arrived, raced>>
  BY DEF upsert_reaction, Return, ReturnWith
<1>3. /\ reactions \in [Msgs -> [Actors -> Emojis \cup {None}]]
      /\ latest \in [Msgs -> [Actors -> Emojis \cup {Removed, None}]]
  BY DEF QueueInv, WriteInv, TypeInv, TypeOK
<1>4. /\ \A b \in Actors : reactions'[m][b] = IF b = a THEN Visible(e) ELSE reactions[m][b]
      /\ \A b \in Actors : latest'[m][b] = IF b = a THEN e ELSE latest[m][b]
  BY <1>1, <1>2, <1>3
<1> HIDE DEF a, e
<1>5. ~MayStore(m) /\ ~(MayStore(m)')
  BY ToComeIsNotStored DEF StillFits
<1>6. m \in Drafts => arrived[m] = "message"
  <2>1. Timely(todo[t][1])
    BY <1>1, BusyTask DEF QueueInv, WriteInv, TypeInv, CallsTimely
  <2>. QED  BY <1>1, <2>1 DEF Timely, OnServer, Msg
<1>7. ASSUME NEW b \in Actors, <<m, b>> \notin raced, b # a PROVE ReactionFits(m, b)'
  <2>1. ReactionFits(m, b)
    BY <1>7 DEF ReactionsFit, ReactionsFitOf
  <2>2. ToDrain(m) => ToDrain(m)'
    <3>1. Step(t) /\ ~At(t, "drain")
      BY <1>1 DEF Step, At, Reacting
    <3>. QED  BY <1>2, <3>1, DrainsCome DEF Stored
  <2>3. Shown(m, b) => Shown(m, b)'
    BY <1>2, <1>4, <1>7 DEF Shown
  <2>4. Held(m, b) => Held(m, b)'
    BY <1>2, <1>4, <1>7 DEF Held
  <2>. QED  BY <1>5, <2>1, <2>2, <2>3, <2>4 DEF ReactionFits
<1>8. ASSUME NEW b \in Actors, <<m, b>> \notin raced, b = a PROVE ReactionFits(m, b)'
  <2>1. ~ToDrain(m) /\ ReactionFits(m, b)
    BY <1>1, <1>8, NoDrainToCome DEF ReactionsFit, ReactionsFitOf, a
  <2>2. pending[m][b] = None
    BY <2>1 DEF ReactionFits, Shown
  <2>3. Shown(m, b)'
    BY <1>2, <1>4, <1>8, <2>2 DEF Shown
  <2>. QED  BY <1>5, <2>3 DEF ReactionFits
<1>. QED  BY <1>2, <1>6, <1>7, <1>8 DEF ReactionsFitOf, Stored

LEMMA BufferFits ==
    ASSUME LiveAndSends, QueueInv, ReactionsFit, NEW t \in Tasks, buffer_pending_reaction(t),
           NEW m \in Msgs, StillFits(m), m = Msg(t)
    PROVE  ReactionsFitOf(m)'
<1> DEFINE a == Arg(t).actor
           e == Arg(t).emoji
<1>1. a \in Actors /\ ~Idle(t) /\ todo[t][1].op = "buffer"
  BY HeadCall, CallArguments DEF buffer_pending_reaction, Arg, QueueInv, WriteInv, TypeInv, Reacting
<1>2. /\ pending' = [pending EXCEPT ![m][a] = e]
      /\ latest' = [latest EXCEPT ![m][a] = e]
      /\ UNCHANGED <<messages, reactions, arrived, raced>>
  BY DEF buffer_pending_reaction, Buffered, Return, ReturnWith
<1>3. Timely(todo[t][1])
  BY <1>1, BusyTask DEF QueueInv, WriteInv, TypeInv, CallsTimely
<1>4. /\ m \in Drafts => arrived[m] = "message"
      /\ ~Stored(m) \/ <<m, a>> \in raced
  BY <1>1, <1>3 DEF Timely, OnServer, Msg, Arg, About, Reacting
<1>5. /\ pending \in [Msgs -> [Actors -> Emojis \cup {Removed, None}]]
      /\ latest \in [Msgs -> [Actors -> Emojis \cup {Removed, None}]]
  BY DEF QueueInv, WriteInv, TypeInv, TypeOK
<1>6. /\ \A b \in Actors : pending'[m][b] = IF b = a THEN e ELSE pending[m][b]
      /\ \A b \in Actors : latest'[m][b] = IF b = a THEN e ELSE latest[m][b]
  BY <1>1, <1>2, <1>5
<1> HIDE DEF a, e
<1>7. ASSUME NEW b \in Actors, <<m, b>> \notin raced PROVE ReactionFits(m, b)'
  <2>1. ReactionFits(m, b)
    BY <1>7 DEF ReactionsFit, ReactionsFitOf
  <2>2. ToDrain(m) /\ Stored(m) => ToDrain(m)'
    <3>1. Step(t) /\ ~At(t, "drain")
      BY <1>1 DEF Step, At
    <3>. QED  BY <1>2, <3>1, DrainsCome DEF Stored
  <2>3. CASE b = a
    BY <1>2, <1>4, <1>6, <1>7, <2>3 DEF ReactionFits, Stored
  <2>4. CASE b # a
    <3>1. (Shown(m, b) => Shown(m, b)') /\ (Held(m, b) => Held(m, b)')
      BY <1>2, <1>6, <2>4 DEF Shown, Held
    <3>2. Stored(m)' <=> Stored(m)
      BY <1>2 DEF Stored
    <3>3. MayStore(m)' => pending'[m][b] = latest'[m][b]
      BY <1>6, <2>1, <2>4 DEF ReactionFits, StillFits
    <3>. QED  BY <2>1, <2>2, <3>1, <3>2, <3>3 DEF ReactionFits
  <2>. QED  BY <2>3, <2>4
<1>8. ~Stored(m) => reactions[m] = Nobody
  BY DEF ReactionsFit, ReactionsFitOf
<1>. QED  BY <1>2, <1>4, <1>7, <1>8 DEF ReactionsFitOf, Stored, Nobody

LEMMA DrainFits ==
    ASSUME LiveAndSends, QueueInv, ReactionsFit, NEW t \in Tasks, drain_pending_reactions(t),
           NEW m \in Msgs, StillFits(m), m = Msg(t), Stored(m)
    PROVE  /\ ReactionsFitOf(m)'
           /\ \A a \in Actors : pending[m][a] # None /\ <<m, a>> \notin raced => pending[m][a] = latest[m][a]
<1>1. /\ reactions' = [reactions EXCEPT ![m] =
                         [a \in Actors |-> IF pending[m][a] = None THEN @[a] ELSE Visible(pending[m][a])]]
      /\ pending' = [pending EXCEPT ![m] = Nobody]
      /\ UNCHANGED <<messages, latest, arrived, raced>>
  BY DEF drain_pending_reactions, history, Return, ReturnWith
<1>2. /\ \A a \in Actors : reactions'[m][a] = IF pending[m][a] = None THEN reactions[m][a] ELSE Visible(pending[m][a])
      /\ pending'[m] = Nobody
  BY <1>1, ReactionTypes
<1>3. ~MayStore(m) /\ ~(MayStore(m)')
  BY ToComeIsNotStored DEF StillFits
<1>4. m \in Drafts /\ arrived[m] # "message" => latest[m] = Nobody
  BY DEF ReactionsFit, ReactionsFitOf
<1>5. ASSUME NEW a \in Actors, <<m, a>> \notin raced
      PROVE  /\ ReactionFits(m, a)'
             /\ pending[m][a] # None => pending[m][a] = latest[m][a]
  <2>1. Shown(m, a) \/ Held(m, a)
    BY <1>5 DEF ReactionsFit, ReactionsFitOf, ReactionFits
  <2>2. /\ pending[m][a] = None => reactions[m][a] = Visible(latest[m][a])
        /\ pending[m][a] # None => pending[m][a] = latest[m][a]
    <3>1. CASE Shown(m, a)
      BY <3>1 DEF Shown
    <3>2. CASE Held(m, a)
      BY <3>2 DEF Held, Visible
    <3>. QED  BY <2>1, <3>1, <3>2
  <2>3. Shown(m, a)'
    BY <1>1, <1>2, <2>2 DEF Shown, Nobody
  <2>. QED  BY <1>3, <2>2, <2>3 DEF ReactionFits
<1>6. ReactionsFitOf(m)'
  BY <1>1, <1>2, <1>4, <1>5 DEF ReactionsFitOf, Stored, Nobody
<1>. QED  BY <1>5, <1>6

\* The calls on reactions leave those of other messages alone.
LEMMA OtherReactions ==
    ASSUME QueueInv, NEW t \in Tasks,
           upsert_reaction(t) \/ buffer_pending_reaction(t) \/ drain_pending_reactions(t), NEW m \in Msgs,
           m # Msg(t) \/ (~buffer_pending_reaction(t) /\ ~Stored(m))
    PROVE  SameReactions(m) /\ messages' = messages /\ arrived' = arrived
<1>1. CASE upsert_reaction(t)
  BY <1>1, ReactionTypes DEF upsert_reaction, SameReactions
<1>2. CASE buffer_pending_reaction(t)
  BY <1>2, ReactionTypes DEF buffer_pending_reaction, SameReactions
<1>3. CASE drain_pending_reactions(t)
  BY <1>3, ReactionTypes DEF drain_pending_reactions, SameReactions, history
<1>. QED  BY <1>1, <1>2, <1>3

LEMMA DeletedFit ==
    ASSUME LiveAndSends, QueueInv, ReactionsFit, NEW t \in Tasks, Step(t),
           delete_message(t) \/ clear_chat(t) \/ delete_chat(t), NEW m \in Msgs, StillFits(m)
    PROVE  ReactionsFitOf(m)'
<1>1. ReactionsFitOf(m)
  BY DEF ReactionsFit
<1>2. Stored(m) => ~MayStore(m)
  BY ToComeIsNotStored
<1>3. CASE UNCHANGED <<messages, reactions, latest, pending>> \/ (delete_message(t) /\ m # Msg(t))
  <2>1. SameReactions(m) /\ messages'[m] = messages[m]
    BY <1>3, ReactionTypes DEF delete_message, DeleteMessages, SameReactions
  <2>2. ~At(t, "drain")
    BY DEF delete_message, clear_chat, delete_chat, At
  <2>3. ToDrain(m) /\ Stored(m)' => ToDrain(m)'
    BY <2>2, DrainsCome
  <2>. QED  BY <1>1, <2>1, <2>3, SameReactionsFit DEF Stored
<1>4. CASE \/ delete_message(t) /\ m = Msg(t)
           \/ clear_chat(t) /\ chat # None
           \/ delete_chat(t)
  <2>1. ~Stored(m)' /\ reactions'[m] = Nobody
    BY <1>4, ReactionTypes DEF delete_message, clear_chat, delete_chat, DeleteMessages, Stored
  <2>2. \/ pending'[m] = pending[m] /\ latest'[m] = IF Stored(m) THEN Nobody ELSE latest[m]
        \/ pending'[m] = Nobody /\ latest'[m] = Nobody
    BY <1>4, ReactionTypes DEF delete_message, clear_chat, delete_chat, DeleteMessages
  <2>. QED  BY <1>1, <1>2, <2>1, <2>2, GoneFits
<1>5. \/ delete_message(t) \/ (clear_chat(t) /\ chat # None) \/ delete_chat(t)
      \/ UNCHANGED <<messages, reactions, latest, pending>>
  BY DEF clear_chat
<1>. QED  BY <1>3, <1>4, <1>5

\* A call that touches no reactions: rows may appear, none goes.
LEMMA UntouchedFit ==
    ASSUME LiveAndSends, QueueInv, ReactionsFit, NEW t \in Tasks, Step(t), NEW m \in Msgs, StillFits(m),
           SameReactions(m), Stored(m) => Stored(m)', ~(At(t, "drain") /\ Msg(t) = m)
    PROVE  ReactionsFitOf(m)'
<1>1. ReactionsFitOf(m)
  BY DEF ReactionsFit
<1>2. CASE ~Stored(m) /\ Stored(m)'
  BY <1>1, <1>2, NewRowFits
<1>3. CASE Stored(m)' <=> Stored(m)
  BY <1>1, <1>3, DrainsCome, SameReactionsFit
<1>. QED  BY <1>2, <1>3

LEMMA RowsStay ==
    ASSUME QueueInv, NEW t \in Tasks,
           upsert_message(t) \/ mark_message_revoked(t) \/ update_message_text(t) \/ set_message_status(t),
           NEW m \in Msgs, Stored(m)
    PROVE  Stored(m)'
<1>1. messages[m] \in Row /\ messages \in [Msgs -> Row \cup {None}]
  BY ReactionTypes DEF Stored
<1>2. CASE upsert_message(t)
  <2>1. PICK op \in RowWriters : At(t, op)
    BY <1>2 DEF upsert_message, RowWriters
  <2>2. Msg(t) \in Msgs /\ Arg(t) \in Row
    BY <2>1, HeadCall, CallArguments DEF QueueInv, WriteInv, TypeInv, Arg, Msg
  <2>3. OnConflict(messages[m], Arg(t)) \in Row
    BY <1>1, <2>2, RowsTyped
  <2>4. messages'[m] \in {messages[m], OnConflict(messages[m], Arg(t))}
    BY <1>1, <1>2, <2>2 DEF upsert_message, Stored
  <2>. QED  BY <1>1, <2>3, <2>4, NoneIsNoRow DEF Stored
<1>3. CASE mark_message_revoked(t) \/ update_message_text(t)
  <2>1. messages'[m] \in {messages[m], [messages[m] EXCEPT !.text = None, !.kind = "unsupported"],
                          [messages[m] EXCEPT !.text = Arg(t), !.kind = "text"]}
    BY <1>1, <1>3 DEF mark_message_revoked, update_message_text, Stored
  <2>2. update_message_text(t) => Arg(t) \in Edits
    BY HeadCall, CallArguments DEF update_message_text, QueueInv, WriteInv, TypeInv, Arg
  <2>3. [messages[m] EXCEPT !.text = None, !.kind = "unsupported"] \in Row
    BY <1>1, RowsTyped DEF Texts
  <2>4. update_message_text(t) => [messages[m] EXCEPT !.text = Arg(t), !.kind = "text"] \in Row
    BY <1>1, <2>2, RowsTyped DEF Texts
  <2>5. mark_message_revoked(t) => messages'[m] \in {messages[m], [messages[m] EXCEPT !.text = None, !.kind = "unsupported"]}
    BY <1>1 DEF mark_message_revoked, Stored
  <2>. QED  BY <1>1, <1>3, <2>1, <2>3, <2>4, <2>5, NoneIsNoRow DEF Stored
<1>4. CASE set_message_status(t)
  <2>1. Arg(t) \in Statuses
    BY <1>4, HeadCall, CallArguments DEF set_message_status, QueueInv, WriteInv, TypeInv, Arg
  <2>2. [messages[m] EXCEPT !.status = Arg(t)] \in Row
    BY <1>1, <2>1, RowsTyped
  <2>3. messages'[m] \in {messages[m], [messages[m] EXCEPT !.status = Arg(t)]}
    BY <1>1, <1>4 DEF set_message_status, Stored
  <2>. QED  BY <1>1, <2>2, <2>3, NoneIsNoRow DEF Stored
<1>. QED  BY <1>2, <1>3, <1>4

LEMMA ReactionsStep ==
    ASSUME LiveAndSends, QueueInv, ReactionsFit, [Next]_vars
    PROVE  ReactionsFit'
<1> SUFFICES ASSUME NEW m \in Msgs PROVE ReactionsFitOf(m)'
  BY DEF ReactionsFit
<1>1. StillFits(m)
  BY ArrivalsStay
<1>2. ReactionsFitOf(m)
  BY DEF ReactionsFit
<1>3. TypeInv'
  BY QueueInvStep DEF QueueInv, WriteInv
<1>4. CASE UNCHANGED vars
  <2>1. SameReactions(m) /\ (Stored(m)' <=> Stored(m)) /\ (ToDrain(m) => ToDrain(m)')
    BY <1>4 DEF vars, tables, history, SameReactions, Stored, ToDrain
  <2>. QED  BY <1>1, <1>2, <2>1, SameReactionsFit
<1>5. ASSUME NEW t \in Tasks, Step(t) PROVE ReactionsFitOf(m)'
  <2>1. CASE delete_message(t) \/ clear_chat(t) \/ delete_chat(t)
    BY <1>1, <1>5, <2>1, DeletedFit
  <2>2. CASE upsert_reaction(t) \/ buffer_pending_reaction(t) \/ drain_pending_reactions(t)
    <3>1. CASE m = Msg(t) /\ (buffer_pending_reaction(t) \/ Stored(m))
      BY <1>1, <1>3, <2>2, <3>1, ReactFits, BufferFits, DrainFits
    <3>2. CASE ~(m = Msg(t) /\ (buffer_pending_reaction(t) \/ Stored(m)))
      <4>1. SameReactions(m) /\ messages' = messages /\ arrived' = arrived
        BY <2>2, <3>2, OtherReactions
      <4>2. Stored(m)' <=> Stored(m)
        BY <4>1 DEF Stored
      <4>3. ToDrain(m) /\ Stored(m)' => ToDrain(m)'
        <5>1. CASE At(t, "drain") /\ Msg(t) = m
          <6>1. ~buffer_pending_reaction(t)
            BY <5>1 DEF buffer_pending_reaction, At
          <6>. QED  BY <3>2, <4>2, <5>1, <6>1
        <5>2. CASE ~(At(t, "drain") /\ Msg(t) = m)
          BY <1>5, <5>2, DrainsCome
        <5>. QED  BY <5>1, <5>2
      <4>. QED  BY <1>1, <1>2, <4>1, <4>2, <4>3, SameReactionsFit
    <3>. QED  BY <3>1, <3>2
  <2>3. CASE ~(delete_message(t) \/ clear_chat(t) \/ delete_chat(t)) /\ ~drain_pending_reactions(t)
             /\ ~upsert_reaction(t) /\ ~buffer_pending_reaction(t)
    <3>1. UNCHANGED <<reactions, pending, latest>> /\ ~At(t, "drain")
      BY <1>5, <2>3 DEF Step, find_reaction_target, find_undecryptable, record_message_activity, set_chat_last_message_meta, upsert_message,
         mark_message_revoked, update_message_text, refresh_preview, mark_chat, upsert_chat_from_history,
         set_message_status, server_accepts, send_answered, echo_answered, request_answered, history, tables, At, RowWriters, Writers
    <3>2. Stored(m) => Stored(m)'
      <4>2. CASE upsert_message(t) \/ mark_message_revoked(t) \/ update_message_text(t) \/ set_message_status(t)
        BY <2>3, <4>2, RowsStay
      <4>3. CASE messages' = messages
        BY <4>3 DEF Stored
      <4>. QED  BY <1>5, <2>3, <4>2, <4>3 DEF Step, find_reaction_target, find_undecryptable, record_message_activity, set_chat_last_message_meta,
         refresh_preview, mark_chat, upsert_chat_from_history,
         server_accepts, send_answered, echo_answered, request_answered, tables
    <3>3. SameReactions(m)
      BY <3>1 DEF SameReactions
    <3>. QED  BY <1>1, <1>5, <3>1, <3>2, <3>3, UntouchedFit
  <2>. QED  BY <2>1, <2>2, <2>3
<1>6. ASSUME NEW t \in Tasks, Handler(t) PROVE ReactionsFitOf(m)'
  <2>1. PICK calls : StartsWith(t, calls)
    BY <1>6, HandlerFits DEF LiveAndSends
  <2>2. /\ Idle(t) /\ UNCHANGED tables
        /\ \A u \in Tasks : todo'[u] = IF u = t THEN calls ELSE todo[u]
    BY <2>1 DEF StartsWith, Start, QueueInv, WriteInv, TypeInv, TypeOK
  <2>3. latest' = latest
    BY <1>6 DEF Handler, LiveAndSends, NoRewriters, Rewriters, handle_inbound_message, send_text, handle_reaction,
       handle_receipt, handle_revoke, handle_edit, handle_read, handle_delete_for_me, handle_clear_chat,
       handle_delete_chat, history
  <2>4. ToDrain(m) => ToDrain(m)'
    <3>1. Len(todo[t]) = 0
      BY <2>2, EmptySeq DEF Idle
    <3> SUFFICES ASSUME NEW u \in Tasks, NEW i \in 1..Len(todo[u]), todo[u][i].op = "drain", todo[u][i].msg = m
                 PROVE  ToDrain(m)'
      BY DEF ToDrain
    <3>2. u # t
      BY <3>1
    <3>3. todo'[u] = todo[u]
      BY <2>2, <3>2
    <3>. QED  BY <3>3 DEF ToDrain
  <2>5. SameReactions(m) /\ (Stored(m)' <=> Stored(m))
    BY <2>2, <2>3 DEF SameReactions, Stored, tables
  <2>. QED  BY <1>1, <1>2, <2>4, <2>5, SameReactionsFit
<1>. QED  BY <1>4, <1>5, <1>6 DEF Next

\* The invariant of the two theorems and of the refinement.
SettleInv == QueueInv /\ ReceiptsFit /\ ReactionsFit

LEMMA SettleStart == Init => SettleInv
<1> SUFFICES ASSUME Init PROVE SettleInv
  OBVIOUS
<1>1. ReceiptsFit
  BY DEF Init, ReceiptsFit, Stored
<1>2. ReactionsFit
  BY DEF Init, ReactionsFit, ReactionsFitOf, ReactionFits, Stored, Nobody
<1>. QED  BY <1>1, <1>2, QueueInvStart DEF SettleInv

LEMMA SettleStep ==
    ASSUME LiveAndSends, SettleInv, [Next]_vars
    PROVE  SettleInv'
BY QueueInvStep, ReceiptsStep, ReactionsStep DEF SettleInv

\* Between handlers, a stored message has every status it was told and shows every
\* reaction that came before or after it.
LEMMA SettledWhenQuiet == SettleInv => ReceiptsStick /\ ReactionsSettle
<1> SUFFICES ASSUME SettleInv, Quiet
             PROVE  ReceiptsStick /\ ReactionsSettle
  BY DEF ReceiptsStick, ReactionsSettle
<1>1. ASSUME NEW m \in Msgs, Stored(m), <<m, None>> \notin raced
      PROVE  status_rank(messages[m].status) >= told[m]
  <2>1. status_rank(messages[m].status) \in 0..5 /\ told[m] \in 0..5 /\ told[m] <= status_rank(messages[m].status)
    BY <1>1, RanksAreNumbers DEF SettleInv, ReceiptsFit, QueueInv, WriteInv, TypeInv, TypeOK, Row, Stored
  <2>. QED  BY <2>1
<1>2. ASSUME NEW m \in Msgs, NEW a \in Actors, Stored(m), <<m, a>> \notin raced
      PROVE  reactions[m][a] = Visible(latest[m][a]) /\ pending[m][a] = None
  <2>1. ~ToDrain(m)
    <3>1. \A t \in Tasks : Len(todo[t]) = 0
      BY EmptySeq DEF Quiet, Idle
    <3>. QED  BY <3>1 DEF ToDrain
  <2>2. Shown(m, a)
    BY <1>2, <2>1 DEF SettleInv, ReactionsFit, ReactionsFitOf, ReactionFits
  <2>. QED  BY <2>2 DEF Shown
<1>. QED  BY <1>1, <1>2 DEF ReceiptsStick, ReactionsSettle

\* No receipt is lost that is not handled beside its message: between handlers a stored
\* message has at least every status reported of it, however receipts, messages, sends,
\* reads and deletions interleave, each in a task of its own and in any order.  Of a
\* receipt whose handler ran beside the one that stores the message nothing is claimed:
\* set_message_status updates no row then (ReceiptsAlwaysStick does not hold).
THEOREM ReceiptsHold ==
    ASSUME LiveAndSends
    PROVE  Spec => []ReceiptsStick
<1>1. SettleInv /\ [Next]_vars => SettleInv'
  BY SettleStep
<1>. QED  BY <1>1, SettleStart, SettledWhenQuiet, PTL DEF Spec

\* No reaction is lost that is handled beside neither its message nor another one of its
\* actor: one that comes before its message waits in pending_reactions and the handler
\* that stores the message drains it, one that comes after is stored at once, and the
\* later one of an actor wins, also across a deletion of the chat, whatever handlers of
\* other events, sends and deletions run beside it.
THEOREM ReactionsHold ==
    ASSUME LiveAndSends
    PROVE  Spec => []ReactionsSettle
<1>1. SettleInv /\ [Next]_vars => SettleInv'
  BY SettleStep
<1>. QED  BY <1>1, SettleStart, SettledWhenQuiet, PTL DEF Spec

(***************************************************************************)
(* MessageLog implements MessageBoard.                                     *)
(***************************************************************************)
\* The refinement mapping is that of Board in MessageLog.
ranks == [m \in Msgs |-> IF Stored(m) THEN status_rank(messages[m].status) ELSE None]
boardVars == <<ranks, reactions, latest, raced>>

LEMMA OneRank ==
    ASSUME NEW m \in Msgs, \A n \in Msgs : n # m => messages'[n] = messages[n], Stored(m)'
    PROVE  ranks' = [ranks EXCEPT ![m] = status_rank(messages'[m].status)]
BY DEF ranks, Stored

LEMMA SameRanks ==
    ASSUME \A n \in Msgs : \/ messages'[n] = messages[n]
                           \/ Stored(n)' /\ Stored(n) /\ messages'[n].status = messages[n].status
    PROVE  ranks' = ranks
BY DEF ranks, Stored

LEMMA StepRacesNothing ==
    ASSUME QueueInv, NEW t \in Tasks, Step(t)
    PROVE  raced' = raced
<1>1. CASE server_accepts(t)
  BY <1>1 DEF server_accepts
<1>2. CASE ~server_accepts(t)
  BY <1>2, StepKeeps DEF QueueInv, WriteInv, ReturnWith
<1>. QED  BY <1>1, <1>2

LEMMA StoreRefines ==
    ASSUME QueueInv, QueueInv', NEW t \in Tasks, upsert_message(t), raced' = raced
    PROVE  [Board!Next]_boardVars
<1>1. PICK op \in RowWriters : At(t, op)
  BY DEF upsert_message, RowWriters
<1>2. ~Idle(t) /\ Msg(t) \in Msgs /\ Arg(t) \in Row /\ 1 \in 1..Len(todo[t]) /\ todo[t][1].op \in RowWriters
  BY <1>1, HeadCall, BusyTask, CallArguments DEF QueueInv, WriteInv, TypeInv, Msg, Arg
<1>3. ~Stored(Msg(t))
  BY <1>2, RowToWrite DEF QueueInv, WriteInv, Stored, Msg
<1>4. UNCHANGED <<reactions, latest>>
  BY DEF upsert_message, history
<1>5. CASE chat = None
  <2>1. messages' = messages
    BY <1>3, <1>5 DEF upsert_message
  <2>2. ranks' = ranks
    BY <2>1, SameRanks
  <2>. QED  BY <1>4, <2>2 DEF boardVars
<1>6. CASE chat # None
  <2>1. PICK m \in Msgs : m = Msg(t)
    BY <1>2
  <2>2. messages' = [messages EXCEPT ![m] = Arg(t)]
    BY <1>3, <1>6, <2>1 DEF upsert_message
  <2>3. Stored(m)' /\ \A n \in Msgs : n # m => messages'[n] = messages[n]
    BY <1>2, <2>1, <2>2, ReactionTypes, NoneIsNoRow DEF Stored
  <2>4. ranks' = [ranks EXCEPT ![m] = status_rank(messages'[m].status)] /\ ranks[m] = None
    BY <1>3, <2>1, <2>3, OneRank DEF ranks
  <2>5. status_rank(messages'[m].status) \in 0..5
    BY <1>2, <2>1, <2>2, ReactionTypes, RanksAreNumbers DEF Row
  <2>6. Board!Store(m)
    BY <1>4, <2>4, <2>5 DEF Board!Store, Board!Top, ranks
  <2>. QED  BY <2>6 DEF Board!Next
<1>. QED  BY <1>5, <1>6

LEMMA StatusRefines ==
    ASSUME QueueInv, QueueInv', NEW t \in Tasks, set_message_status(t), raced' = raced
    PROVE  [Board!Next]_boardVars
<1>1. PICK m \in Msgs : m = Msg(t) /\ Arg(t) \in Statuses
  BY HeadCall, CallArguments DEF set_message_status, QueueInv, WriteInv, TypeInv, Msg, Arg
<1>2. UNCHANGED <<reactions, latest>> /\ \A n \in Msgs : n # m => messages'[n] = messages[n]
  BY <1>1, ReactionTypes DEF set_message_status
<1>3. messages'[m] = IF messages[m] # None /\ Upgrades(messages[m].status, Arg(t))
                     THEN [messages[m] EXCEPT !.status = Arg(t)] ELSE messages[m]
  BY <1>1, ReactionTypes DEF set_message_status
<1>4. CASE messages[m] # None /\ Upgrades(messages[m].status, Arg(t))
  <2>1. messages[m] \in Row
    BY <1>4, ReactionTypes
  <2>2. messages'[m] \in Row /\ messages'[m].status = Arg(t)
    <3>1. messages'[m] = [messages[m] EXCEPT !.status = Arg(t)]
      BY <1>3, <1>4
    <3>. QED  BY <1>1, <2>1, <3>1 DEF Row
  <2>3. ranks' = [ranks EXCEPT ![m] = status_rank(Arg(t))]
    BY <1>2, <2>2, OneRank, NoneIsNoRow DEF Stored
  <2>4. ranks[m] = status_rank(messages[m].status) /\ ranks[m] \in 0..5
    BY <1>4, <2>1, RanksAreNumbers DEF ranks, Stored, Row
  <2>5. status_rank(Arg(t)) \in 0..5 /\ status_rank(Arg(t)) > ranks[m] /\ ranks[m] # None
    BY <1>1, <1>4, <2>4, RanksAreNumbers, NoneIsNoRow DEF Upgrades
  <2> HIDE DEF ranks
  <2>6. Board!Upgrade(m)
    BY <1>2, <2>3, <2>5 DEF Board!Upgrade, Board!Top, ranks
  <2>. QED  BY <2>6 DEF Board!Next
<1>5. CASE ~(messages[m] # None /\ Upgrades(messages[m].status, Arg(t)))
  <2>1. ranks' = ranks
    BY <1>2, <1>3, <1>5, SameRanks
  <2>. QED  BY <1>2, <2>1 DEF boardVars
<1>. QED  BY <1>4, <1>5

LEMMA BufferRefines ==
    ASSUME QueueInv, NEW t \in Tasks, buffer_pending_reaction(t), raced' = raced
    PROVE  [Board!Next]_boardVars
<1>1. PICK m \in Msgs, a \in Actors, e \in Emojis \cup {Removed} : m = Msg(t) /\ a = Arg(t).actor /\ e = Arg(t).emoji
  BY HeadCall, CallArguments DEF Reacting, buffer_pending_reaction, QueueInv, WriteInv, TypeInv, Msg, Arg
<1>2. latest' = [latest EXCEPT ![m][a] = e] /\ UNCHANGED <<messages, reactions>>
  BY <1>1 DEF buffer_pending_reaction
<1>3. ranks' = ranks
  BY <1>2, SameRanks
<1>4. Board!React(m)
  BY <1>2, <1>3 DEF Board!React, ranks
<1>. QED  BY <1>4 DEF Board!Next

LEMMA ReactRefines ==
    ASSUME QueueInv, NEW t \in Tasks, upsert_reaction(t), raced' = raced
    PROVE  [Board!Next]_boardVars
<1>1. PICK m \in Msgs, a \in Actors, e \in Emojis \cup {Removed} : m = Msg(t) /\ a = Arg(t).actor /\ e = Arg(t).emoji
  BY HeadCall, CallArguments DEF Reacting, upsert_reaction, QueueInv, WriteInv, TypeInv, Msg, Arg
<1>2. messages' = messages /\ ranks' = ranks
  BY SameRanks DEF upsert_reaction
<1>3. CASE Stored(m)
  <2>1. latest' = [latest EXCEPT ![m][a] = e] /\ reactions' = [reactions EXCEPT ![m][a] = Visible(e)]
    BY <1>1, <1>3 DEF upsert_reaction
  <2>2. messages[m] \in Row
    BY <1>3, ReactionTypes DEF Stored
  <2>3. ranks[m] # None
    BY <1>3, <2>2, RanksAreNumbers, NoneIsNoRow DEF ranks, Row
  <2>4. Board!React(m)
    BY <1>2, <2>1, <2>3 DEF Board!React, Board!Visible, Visible, ranks
  <2>. QED  BY <2>4 DEF Board!Next
<1>4. CASE ~Stored(m)
  BY <1>1, <1>2, <1>4 DEF upsert_reaction, boardVars
<1>. QED  BY <1>3, <1>4

LEMMA DrainRefines ==
    ASSUME LiveAndSends, QueueInv, ReactionsFit, NEW t \in Tasks, drain_pending_reactions(t), [Next]_vars,
           raced' = raced
    PROVE  [Board!Next]_boardVars
<1>1. PICK m \in Msgs : m = Msg(t)
  BY HeadCall, CallArguments DEF drain_pending_reactions, QueueInv, WriteInv, TypeInv, Msg
<1>2. UNCHANGED <<messages, latest>> /\ ranks' = ranks
  BY SameRanks DEF drain_pending_reactions, history
<1>3. CASE Stored(m)
  <2>1. \A a \in Actors : pending[m][a] # None /\ <<m, a>> \notin raced => pending[m][a] = latest[m][a]
    BY <1>1, <1>3, ArrivalsStay, DrainFits
  <2>2. PICK seen : seen = [a \in Actors |-> IF pending[m][a] = None THEN reactions[m][a] ELSE Visible(pending[m][a])]
    OBVIOUS
  <2>3. reactions' = [reactions EXCEPT ![m] = seen]
    BY <1>1, <1>3, <2>2 DEF drain_pending_reactions
  <2>4. seen \in [Actors -> Emojis \cup {None}]
    <3>1. \A a \in Actors : pending[m][a] # None => Visible(pending[m][a]) \in Emojis \cup {None}
      BY ReactionTypes, VisibleTyped
    <3>. QED  BY <2>2, <3>1, ReactionTypes
  <2>7. \A a \in Actors : seen[a] \in {reactions[m][a], Visible(latest[m][a])} \/ <<m, a>> \in raced
    BY <2>1, <2>2
  <2>5. ranks[m] # None
    BY <1>3, ReactionTypes, RanksAreNumbers, NoneIsNoRow DEF ranks, Row, Stored
  <2>6. Board!Show(m)
    BY <1>2, <2>3, <2>4, <2>5, <2>7 DEF Board!Show, Board!Visible, Visible, ranks
  <2>. QED  BY <2>6 DEF Board!Next
<1>4. CASE ~Stored(m)
  BY <1>1, <1>2, <1>4 DEF drain_pending_reactions, boardVars
<1>. QED  BY <1>3, <1>4

LEMMA DeleteRefines ==
    ASSUME QueueInv, NEW t \in Tasks, delete_message(t) \/ clear_chat(t) \/ delete_chat(t), raced' = raced
    PROVE  [Board!Next]_boardVars
<1>1. CASE UNCHANGED <<messages, reactions, latest>>
  <2>1. ranks' = ranks
    BY <1>1, SameRanks
  <2>. QED  BY <1>1, <2>1 DEF boardVars
<1>2. ASSUME NEW gone \in SUBSET Msgs, NEW forgotten \in SUBSET gone,
             messages' = [m \in Msgs |-> IF m \in gone THEN None ELSE messages[m]],
             reactions' = [m \in Msgs |-> IF m \in gone THEN Nobody ELSE reactions[m]],
             latest' = [m \in Msgs |-> IF m \in forgotten THEN Nobody ELSE latest[m]]
      PROVE  Board!Next
  <2>1. ranks' = [m \in Msgs |-> IF m \in gone THEN None ELSE ranks[m]]
    BY <1>2 DEF ranks, Stored
  <2>2. \A m \in forgotten : ranks'[m] = None
    BY <2>1
  <2>3. Board!Forget
    BY <1>2, <2>1, <2>2 DEF Board!Forget, Nobody, ranks
  <2>. QED  BY <2>3 DEF Board!Next
<1>3. CASE delete_message(t)
  <2>1. PICK m \in Msgs : m = Msg(t)
    BY <1>3, HeadCall, CallArguments DEF delete_message, QueueInv, WriteInv, TypeInv, Msg
  <2>2. PICK forgotten \in SUBSET {m} : forgotten = {n \in {m} : Stored(n)}
    OBVIOUS
  <2>3. /\ messages' = [n \in Msgs |-> IF n \in {m} THEN None ELSE messages[n]]
        /\ reactions' = [n \in Msgs |-> IF n \in {m} THEN Nobody ELSE reactions[n]]
        /\ latest' = [n \in Msgs |-> IF n \in forgotten THEN Nobody ELSE latest[n]]
    BY <1>3, <2>1, <2>2 DEF delete_message, DeleteMessages
  <2>4. {m} \in SUBSET Msgs
    OBVIOUS
  <2>. QED  BY <1>2, <2>3, <2>4
<1>4. CASE clear_chat(t) /\ chat # None
  <2>1. PICK forgotten \in SUBSET Msgs : forgotten = {n \in Msgs : Stored(n)}
    OBVIOUS
  <2>2. /\ messages' = [n \in Msgs |-> IF n \in Msgs THEN None ELSE messages[n]]
        /\ reactions' = [n \in Msgs |-> IF n \in Msgs THEN Nobody ELSE reactions[n]]
        /\ latest' = [n \in Msgs |-> IF n \in forgotten THEN Nobody ELSE latest[n]]
    BY <1>4, <2>1 DEF clear_chat, DeleteMessages
  <2>. QED  BY <1>2, <2>2
<1>5. CASE delete_chat(t)
  <2>1. /\ messages' = [n \in Msgs |-> IF n \in Msgs THEN None ELSE messages[n]]
        /\ reactions' = [n \in Msgs |-> IF n \in Msgs THEN Nobody ELSE reactions[n]]
        /\ latest' = [n \in Msgs |-> IF n \in Msgs THEN Nobody ELSE latest[n]]
    BY <1>5 DEF delete_chat
  <2>. QED  BY <1>2, <2>1
<1>. QED  BY <1>1, <1>3, <1>4, <1>5 DEF clear_chat

LEMMA StepRefines ==
    ASSUME LiveAndSends, SettleInv, [Next]_vars
    PROVE  [Board!Next]_boardVars
<1>1. QueueInv /\ QueueInv' /\ ReactionsFit
  BY QueueInvStep DEF SettleInv
<1>2. CASE UNCHANGED vars
  <2>1. messages' = messages /\ UNCHANGED <<reactions, latest>>
    BY <1>2 DEF vars, tables, history
  <2>2. raced' = raced
    BY <1>2 DEF vars
  <2>. QED  BY <2>1, <2>2, SameRanks DEF boardVars
<1>3. ASSUME NEW t \in Tasks, Handler(t) PROVE [Board!Next]_boardVars
  <2>0. PICK calls : Start(t, calls)
    BY <1>3, HandlerFits DEF LiveAndSends, StartsWith
  <2>1. UNCHANGED tables /\ raced' = raced \cup Overlaps(t, calls)
    BY <2>0 DEF Start
  <2>2. latest' = latest
    BY <1>3 DEF Handler, LiveAndSends, NoRewriters, Rewriters, handle_inbound_message, send_text, handle_reaction,
       handle_receipt, handle_revoke, handle_edit, handle_read, handle_delete_for_me, handle_clear_chat,
       handle_delete_chat, history
  <2>3. ranks' = ranks
    BY <2>1, SameRanks DEF tables
  <2>4. PICK more \in SUBSET (Msgs \X (Actors \cup {None})) : more = Overlaps(t, calls)
    BY DEF Overlaps
  <2>5. Board!Overlap
    BY <2>1, <2>2, <2>3, <2>4 DEF Board!Overlap, tables, ranks
  <2>. QED  BY <2>5 DEF Board!Next
<1>4. ASSUME NEW t \in Tasks, Step(t) PROVE [Board!Next]_boardVars
  <2>0. raced' = raced
    BY <1>1, <1>4, StepRacesNothing
  <2>1. CASE \/ upsert_message(t) \/ set_message_status(t) \/ buffer_pending_reaction(t) \/ upsert_reaction(t)
             \/ drain_pending_reactions(t) \/ delete_message(t) \/ clear_chat(t) \/ delete_chat(t)
    BY <1>1, <2>0, <2>1, StoreRefines, StatusRefines, BufferRefines, ReactRefines, DrainRefines, DeleteRefines
  <2>2. CASE mark_message_revoked(t) \/ update_message_text(t)
    <3>1. UNCHANGED <<reactions, latest>>
      BY <2>2 DEF mark_message_revoked, update_message_text, history
    <3>2. ranks' = ranks
      <4> SUFFICES ASSUME NEW n \in Msgs
                   PROVE  \/ messages'[n] = messages[n]
                          \/ Stored(n)' /\ Stored(n) /\ messages'[n].status = messages[n].status
        BY SameRanks
      <4>1. CASE messages[n] = None
        BY <2>2, <4>1, <1>1, ReactionTypes DEF mark_message_revoked, update_message_text
      <4>2. CASE messages[n] # None
        <5>1. messages[n] \in Row
          BY <4>2, <1>1, ReactionTypes
        <5>2. messages'[n] \in {messages[n], [messages[n] EXCEPT !.text = None, !.kind = "unsupported"],
                                [messages[n] EXCEPT !.text = Arg(t), !.kind = "text"]}
          BY <2>2, <4>2, <1>1, ReactionTypes DEF mark_message_revoked, update_message_text
        <5>3. messages'[n].status = messages[n].status
          BY <5>1, <5>2 DEF Row
        <5>4. Stored(n)'
          BY <1>1, <2>2, <4>2, RowsStay DEF Stored
        <5>. QED  BY <4>2, <5>3, <5>4 DEF Stored
      <4>. QED  BY <4>1, <4>2
    <3>. QED  BY <2>0, <3>1, <3>2 DEF boardVars
  <2>3. CASE UNCHANGED <<messages, reactions, latest>>
    BY <2>0, <2>3, SameRanks DEF boardVars
  <2>. QED  BY <1>4, <2>1, <2>2, <2>3 DEF Step, find_reaction_target, find_undecryptable, record_message_activity, set_chat_last_message_meta,
         refresh_preview, mark_chat, upsert_chat_from_history,
         server_accepts, send_answered, echo_answered, request_answered, tables, history
<1>. QED  BY <1>2, <1>3, <1>4 DEF Next

\* The store's calls, interleaved by any number of handlers, implement MessageBoard: what a
\* reader of the chat sees of a message is a status that only climbs, and of every actor
\* whose reaction met neither another one nor the row of its message the last reaction
\* handled, or the one before while its drain is to come.
THEOREM ImplementsBoard ==
    ASSUME LiveAndSends
    PROVE  Spec => BoardSpec
<1>1. Init => Board!Init
  BY DEF Init, Board!Init, Stored, Nobody
<1>2. SettleInv /\ [Next]_vars => SettleInv' /\ [Board!Next]_boardVars
  BY SettleStep, StepRefines
<1>. QED  BY <1>1, <1>2, SettleStart, PTL DEF Spec, BoardSpec, Board!Spec, boardVars, ranks
=============================================================================
