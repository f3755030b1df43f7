---------------------------- MODULE ChatRowProofs ----------------------------
(***************************************************************************)
(* Theorems about the chat's row of MessageLog: its place in the list      *)
(* (activity) and its badge (unread).                                      *)
(***************************************************************************)
EXTENDS MessageLogProofs, FiniteSetTheorems

(***************************************************************************)
(* The chat's row.                                                         *)
(***************************************************************************)
\* No handler deletes the chat. A handler that has raised the activity for its message and
\* has not stored it yet would otherwise store it into the row that another one creates
\* for an older message after the deletion.
NoDeletes == \A t \in Tasks : "deletes" \notin Duties[t]

\* The calls that raise the activity of the chat, and what they must have raised it to.
Bumps == {"activity", "refresh"}
Covered(m) == chat # None /\ chat.activity >= Stamp[m]

\* A list that comes to its end whatever the others do, and one that raises the activity to
\* the age of m on the way.
SteadyOps == {"history", "imported", "drain"} \cup Bumps
Steady(calls) ==
    \A i \in 1..Len(calls) :
       /\ calls[i].op \in SteadyOps
       /\ calls[i].op = "imported" => i + 1 \in 1..Len(calls) /\ calls[i + 1].op = "drain"
BumpAt(calls, i, m) == calls[i].op \in Bumps /\ calls[i].msg # None /\ Stamp[calls[i].msg] >= Stamp[m]
Promises(calls, m) == Steady(calls) /\ \E i \in 1..Len(calls) : BumpAt(calls, i, m)
Promised(m) == Covered(m) \/ \E t \in Tasks : Promises(todo[t], m)

\* What a handler still leaves to do after a step, whatever its duties: a lookup decides
\* on the call to make in its place.
Decides(t, rest) ==
    /\ At(t, "lookup") \/ At(t, "sighted")
    /\ Len(rest) = Len(todo[t]) /\ Tail(rest) = Tail(todo[t])
    /\ rest[1].op \in IF At(t, "lookup") THEN {"react", "buffer"} ELSE {"placeholder"}
    /\ rest[1].msg = Msg(t)
    /\ \A i \in 1..Len(rest) : i # 1 => rest[i] = todo[t][i]
StepLeaves(t, rest) ==
    \/ Decides(t, rest)
    \/ rest = Tail(todo[t])
    \/ rest = <<>> /\ ~(todo[t][1].op \in SteadyOps)
    \/ todo[t][1].op \in {"list", "sending"} /\ \E c : rest = <<c>> /\ c.op \in {"clear", "refresh", "status"}
    \/ At(t, "imported") /\ ~Stored(Msg(t)) /\ messages' = messages /\ rest = Tail(Tail(todo[t]))
    \/ /\ At(t, "imported")
       /\ \E n : /\ rest = [Tail(todo[t]) EXCEPT ![Len(Tail(todo[t]))] = [@ EXCEPT !.msg = n]]
                 /\ LET old == Tail(todo[t])[Len(Tail(todo[t]))].msg
                    IN n = IF old = None \/ Stamp[Msg(t)] >= Stamp[old] THEN Msg(t) ELSE old

LEMMA LookupDecides ==
    ASSUME TypeInv, NEW t \in Tasks, ~Idle(t), find_reaction_target(t) \/ (find_undecryptable(t) /\ ~Stored(Msg(t)))
    PROVE  \E rest : ReturnWith(t, rest) /\ Decides(t, rest)
<1>1. PICK op : /\ Becomes(t, op) /\ (At(t, "lookup") \/ At(t, "sighted"))
                /\ op \in IF At(t, "lookup") THEN {"react", "buffer"} ELSE {"placeholder"}
  <2>1. CASE find_reaction_target(t)
    BY <2>1 DEF find_reaction_target
  <2>2. CASE find_undecryptable(t) /\ ~Stored(Msg(t))
    BY <2>2 DEF find_undecryptable, At
  <2>. QED  BY <2>1, <2>2
<1>2. PICK rest : rest = [todo[t] EXCEPT ![1].op = op]
  OBVIOUS
<1>3. ReturnWith(t, rest)
  BY <1>1, <1>2 DEF Becomes
<1>4. todo[t] \in Seq(CallType) /\ Len(todo[t]) \in Nat \ {0} /\ todo[t][1] \in CallType /\ todo[t] # <<>>
  BY BusyTask DEF TypeInv, Idle
<1>5. PICK c : c = [todo[t][1] EXCEPT !.op = op]
  OBVIOUS
<1>6. c.op = op /\ c.msg = Msg(t)
  BY <1>4, <1>5, SMT DEF CallType, Msg
<1>7. PICK S : S = CallType \cup {c}
  OBVIOUS
<1>8. rest = [todo[t] EXCEPT ![1] = c]
  BY <1>2, <1>5
<1>9. todo[t] \in Seq(S) /\ c \in S /\ 1 \in 1..Len(todo[t])
  BY <1>4, <1>7
<1>10. /\ rest \in Seq(S) /\ Len(rest) = Len(todo[t])
       /\ \A i \in 1..Len(todo[t]) : rest[i] = IF i = 1 THEN c ELSE todo[t][i]
  BY <1>8, <1>9, ExceptSeq
<1>11. Tail(rest) = Tail(todo[t])
  <2>1. rest # <<>>
    BY <1>4, <1>10, EmptySeq
  <2>2. /\ Tail(rest) \in Seq(S) /\ Len(Tail(rest)) = Len(todo[t]) - 1
        /\ \A k \in 1..Len(Tail(rest)) : Tail(rest)[k] = rest[k + 1]
    BY <1>10, <2>1, HeadTailProperties
  <2>3. /\ Tail(todo[t]) \in Seq(S) /\ Len(Tail(todo[t])) = Len(todo[t]) - 1
        /\ \A k \in 1..Len(Tail(todo[t])) : Tail(todo[t])[k] = todo[t][k + 1]
    BY <1>4, <1>9, HeadTailProperties
  <2>4. ASSUME NEW k \in 1..Len(Tail(rest)) PROVE Tail(rest)[k] = Tail(todo[t])[k]
    <3>1. k + 1 \in 1..Len(todo[t]) /\ k + 1 # 1
      BY <1>4, <2>2
    <3>. QED  BY <1>10, <2>2, <2>3, <3>1
  <2>. QED  BY <2>2, <2>3, <2>4, SeqEqual
<1>12. Decides(t, rest)
  BY <1>1, <1>4, <1>6, <1>10, <1>11 DEF Decides
<1>. QED  BY <1>3, <1>12

LEMMA StepLeavesRest ==
    ASSUME TypeInv, NEW t \in Tasks, Step(t), ~server_accepts(t)
    PROVE  ~Idle(t) /\ \E rest : ReturnWith(t, rest) /\ StepLeaves(t, rest)
<1>1. ~Idle(t)
  BY DEF Step, At, record_message_activity, set_chat_last_message_meta, upsert_message, upsert_reaction,
         buffer_pending_reaction, drain_pending_reactions, set_message_status, mark_message_revoked,
         update_message_text, delete_message, refresh_preview, clear_chat, delete_chat, mark_chat,
         upsert_chat_from_history, server_accepts, send_answered, echo_answered, request_answered,
         find_reaction_target, find_undecryptable
<1>2. CASE \/ record_message_activity(t) \/ set_chat_last_message_meta(t) \/ upsert_reaction(t)
           \/ buffer_pending_reaction(t) \/ drain_pending_reactions(t) \/ set_message_status(t)
           \/ mark_message_revoked(t) \/ update_message_text(t) \/ delete_message(t) \/ clear_chat(t)
           \/ delete_chat(t) \/ mark_chat(t) \/ upsert_chat_from_history(t)
  BY <1>1, <1>2 DEF record_message_activity, set_chat_last_message_meta, upsert_reaction, buffer_pending_reaction,
              drain_pending_reactions, set_message_status, mark_message_revoked, update_message_text,
              delete_message, clear_chat, delete_chat, mark_chat, upsert_chat_from_history, Return, StepLeaves
<1>3. CASE upsert_message(t)
  <2>1. PICK op \in Writers : At(t, op)
    BY <1>3 DEF upsert_message
  <2>2. todo[t][1].op = op
    BY <2>1 DEF At
  <2>3. CASE Stored(Msg(t)) \/ chat # None
    <3>1. CASE At(t, "imported")
      <4> DEFINE rest == Tail(todo[t])
                 old == rest[Len(rest)].msg
                 n == IF old = None \/ Stamp[Msg(t)] >= Stamp[old] THEN Msg(t) ELSE old
      <4>1. ReturnWith(t, [rest EXCEPT ![Len(rest)] = [@ EXCEPT !.msg = n]])
        BY <1>3, <2>3, <3>1 DEF upsert_message
      <4>. QED  BY <1>1, <3>1, <4>1 DEF StepLeaves
    <3>2. CASE ~At(t, "imported")
      BY <1>1, <1>3, <2>3, <3>2 DEF upsert_message, StepLeaves
    <3>. QED  BY <3>1, <3>2
  <2>4. CASE ~(Stored(Msg(t)) \/ chat # None)
    <3>1. ReturnWith(t, AfterRefusal(t)) /\ messages' = messages
      BY <1>3, <2>4 DEF upsert_message
    <3>2. AfterRefusal(t) = <<>> => ~(todo[t][1].op \in SteadyOps) \/ At(t, "placeholder") \/ At(t, "imported")
      BY <1>1, <2>2 DEF SteadyOps, Bumps, Writers, At
    <3>. QED  BY <1>1, <2>2, <2>4, <3>1 DEF AfterRefusal, StepLeaves, SteadyOps, Bumps, Writers, At
  <2>. QED  BY <2>3, <2>4
<1>4. CASE refresh_preview(t)
  <2>0. PICK op \in {"clear", "refresh"} : \E m, x : ReturnWith(t, <<Call(op, m, x)>>)
    BY <1>4 DEF refresh_preview
  <2>1. PICK m, x : ReturnWith(t, <<Call(op, m, x)>>)
    BY <2>0
  <2>2. Call(op, m, x).op = op /\ todo[t][1].op = "list"
    BY <1>4 DEF refresh_preview, At, Call
  <2>. QED  BY <1>1, <2>1, <2>2 DEF StepLeaves
<1>5. CASE send_answered(t)
  <2>1. PICK s \in {"sent", "failed"} : ReturnWith(t, <<Call("status", Msg(t), s)>>)
    BY <1>5 DEF send_answered, AfterSend
  <2>2. Call("status", Msg(t), s).op = "status" /\ todo[t][1].op = "sending"
    BY <1>5 DEF send_answered, At, Call
  <2>. QED  BY <1>1, <2>1, <2>2 DEF StepLeaves
<1>6. CASE echo_answered(t) \/ request_answered(t)
  BY <1>1, <1>6 DEF echo_answered, request_answered, Return, StepLeaves, At, SteadyOps, Bumps
<1>7. CASE find_reaction_target(t) \/ (find_undecryptable(t) /\ ~Stored(Msg(t)))
  BY <1>1, <1>7, LookupDecides DEF StepLeaves
<1>8. CASE find_undecryptable(t) /\ Stored(Msg(t))
  BY <1>1, <1>8 DEF find_undecryptable, Return, StepLeaves
<1>. QED  BY <1>2, <1>3, <1>4, <1>5, <1>6, <1>7, <1>8 DEF Step

LEMMA TailSteady ==
    ASSUME NEW calls \in Seq(CallType), calls # <<>>, Steady(calls)
    PROVE  Steady(Tail(calls))
<1>1. /\ Len(calls) \in Nat \ {0} /\ Len(Tail(calls)) = Len(calls) - 1
      /\ \A k \in 1..Len(Tail(calls)) : Tail(calls)[k] = calls[k + 1]
  BY EmptySeq, HeadTailProperties
<1> SUFFICES ASSUME NEW i \in 1..Len(Tail(calls))
             PROVE  /\ Tail(calls)[i].op \in SteadyOps
                    /\ Tail(calls)[i].op = "imported" => i + 1 \in 1..Len(Tail(calls)) /\ Tail(calls)[i + 1].op = "drain"
  BY DEF Steady
<1>2. i + 1 \in 1..Len(calls) /\ Tail(calls)[i] = calls[i + 1]
  BY <1>1
<1>3. calls[i + 1].op \in SteadyOps /\ (calls[i + 1].op = "imported" => i + 2 \in 1..Len(calls) /\ calls[i + 2].op = "drain")
  BY <1>2 DEF Steady
<1>4. i + 2 \in 1..Len(calls) => i + 1 \in 1..Len(Tail(calls)) /\ Tail(calls)[i + 1] = calls[i + 2]
  BY <1>1
<1>. QED  BY <1>2, <1>3, <1>4

\* A promise outlives the call in front of it.
LEMMA TailPromises ==
    ASSUME NEW calls \in Seq(CallType), calls # <<>>, NEW m, Promises(calls, m), ~BumpAt(calls, 1, m)
    PROVE  Promises(Tail(calls), m)
<1>1. /\ Len(calls) \in Nat \ {0} /\ Len(Tail(calls)) = Len(calls) - 1
      /\ \A k \in 1..Len(Tail(calls)) : Tail(calls)[k] = calls[k + 1]
  BY EmptySeq, HeadTailProperties
<1>2. PICK i \in 1..Len(calls) : BumpAt(calls, i, m)
  BY DEF Promises
<1>3. PICK k \in 1..Len(Tail(calls)) : Tail(calls)[k] = calls[i]
  <2>1. i # 1
    BY <1>2
  <2>2. i - 1 \in 1..Len(Tail(calls)) /\ Tail(calls)[i - 1] = calls[i]
    BY <1>1, <2>1
  <2>. QED  BY <2>2
<1>4. BumpAt(Tail(calls), k, m)
  BY <1>2, <1>3 DEF BumpAt
<1>. QED  BY <1>4, TailSteady DEF Promises

LEMMA StampsTyped == \A m \in Msgs : Stamp[m] \in Nat
BY MessageLogAssumption

\* Recording the activity of a message covers it, and what was covered.
LEMMA BumpCovers ==
    ASSUME TypeInv, NEW t \in Tasks, record_message_activity(t), Msg(t) # None
    PROVE  /\ Msg(t) \in Msgs /\ chat' # None /\ chat'.activity \in Nat /\ chat'.activity >= Stamp[Msg(t)]
           /\ chat # None => chat'.activity >= chat.activity
<1>1. PICK op \in {"activity", "refresh"} : At(t, op)
  BY DEF record_message_activity
<1>2. Msg(t) \in Msgs /\ Stamp[Msg(t)] \in Nat /\ Arg(t) \in Texts
  BY <1>1, HeadCall, CallArguments, StampsTyped DEF TypeInv, Msg, Arg
<1>3. PICK row \in Chat : row = IF chat = None THEN DeferredChat ELSE chat
  BY ChatRowTyped DEF TypeInv
<1>4. PICK shown \in Preview : shown = [of |-> Msg(t), text |-> Arg(t)]
  BY <1>2 DEF Preview
<1>5. PICK count \in Nat : count = IF increment_unread(todo[t][1].op) THEN row.unread + 1 ELSE row.unread
  BY SMT DEF Chat, increment_unread
<1>6. chat' = [row EXCEPT !.preview = shown, !.activity = ActivityAfter(@, Stamp[Msg(t)]), !.unread = count]
  BY <1>3, <1>4, <1>5, Zenon DEF record_message_activity
<1>7. row.activity \in Nat /\ ActivityAfter(row.activity, Stamp[Msg(t)]) \in Nat
  BY <1>2, ActivityIsNumber DEF Chat
<1>8. chat'.activity = ActivityAfter(row.activity, Stamp[Msg(t)]) /\ chat' \in Chat
  BY <1>4, <1>6, <1>7 DEF Chat
<1>. QED  BY <1>2, <1>3, <1>7, <1>8, NoneIsNoRow DEF ActivityAfter

\* No call but the deletion of the chat takes its row away or its activity back.
LEMMA ActivityGrows ==
    ASSUME TypeInv, NEW t \in Tasks, Step(t), ~At(t, "remove"), chat # None
    PROVE  chat' # None /\ chat'.activity \in Nat /\ chat'.activity >= chat.activity
<1>1. chat \in Chat /\ chat.activity \in Nat
  BY DEF TypeInv, TypeOK, Chat
<1>2. CASE record_message_activity(t) /\ Msg(t) # None
  BY <1>2, BumpCovers
<1>3. CASE set_chat_last_message_meta(t) \/ mark_chat(t)
  <2>1. Msg(t) \in Msgs \/ mark_chat(t)
    BY <1>3, HeadCall, CallArguments DEF TypeInv, set_chat_last_message_meta, Msg
  <2>2. chat' \in Chat /\ chat'.activity = chat.activity
    BY <1>1, <1>3, <2>1 DEF set_chat_last_message_meta, mark_chat, Chat
  <2>. QED  BY <1>1, <2>2, NoneIsNoRow
<1>4. CASE upsert_chat_from_history(t)
  <2>1. PICK ts \in {0} \cup {Stamp[m] : m \in Msgs}, counter \in {0, 1, None} :
           chat' = [chat EXCEPT !.activity = ActivityAfter(@, ts), !.unread = IF counter = None THEN @ ELSE counter]
    BY <1>4, Zenon DEF upsert_chat_from_history
  <2>2. ts \in Nat
    BY StampsTyped
  <2>3. ActivityAfter(chat.activity, ts) \in Nat /\ ActivityAfter(chat.activity, ts) >= chat.activity
    BY <1>1, <2>2 DEF ActivityAfter
  <2>4. PICK count \in Nat : count = IF counter = None THEN chat.unread ELSE counter
    BY <1>1, <2>1 DEF Chat
  <2>5. chat' = [chat EXCEPT !.activity = ActivityAfter(chat.activity, ts), !.unread = count]
    BY <2>1, <2>4, Zenon
  <2>6. chat' \in Chat /\ chat'.activity = ActivityAfter(chat.activity, ts)
    BY <1>1, <2>3, <2>5 DEF Chat
  <2>. QED  BY <2>3, <2>6, NoneIsNoRow
<1>5. CASE clear_chat(t)
  <2>1. chat' = [DeferredChat EXCEPT !.activity = chat.activity]
    BY <1>5 DEF clear_chat
  <2>2. chat' \in Chat /\ chat'.activity = chat.activity
    BY <1>1, <2>1, DeferredTyped DEF Chat
  <2>. QED  BY <1>1, <2>2, NoneIsNoRow
<1>6. CASE chat' = chat
  BY <1>1, <1>6
<1>. QED  BY <1>2, <1>3, <1>4, <1>5, <1>6 DEF Step, record_message_activity, upsert_message, upsert_reaction,
         buffer_pending_reaction, drain_pending_reactions, set_message_status, mark_message_revoked,
         update_message_text, delete_message, refresh_preview, delete_chat,
         server_accepts, send_answered, echo_answered, request_answered,
         find_reaction_target, find_undecryptable, tables

LEMMA StaysCovered ==
    ASSUME TypeInv, NEW t \in Tasks, Step(t), ~At(t, "remove"), NEW m \in Msgs, Covered(m)
    PROVE  Covered(m)'
<1>1. chat # None /\ chat.activity \in Nat /\ chat.activity >= Stamp[m] /\ Stamp[m] \in Nat
  BY StampsTyped DEF Covered, TypeInv, TypeOK, Chat
<1>2. chat' # None /\ chat'.activity \in Nat /\ chat'.activity >= chat.activity
  BY <1>1, ActivityGrows
<1>. QED  BY <1>1, <1>2 DEF Covered

\* A bump at the head of a list is made: what it stands for is covered.
LEMMA BumpMade ==
    ASSUME TypeInv, NEW t \in Tasks, ~Idle(t), Step(t), ~server_accepts(t), NEW m \in Msgs, BumpAt(todo[t], 1, m)
    PROVE  Covered(m)'
<1>1. record_message_activity(t) /\ Msg(t) # None
  BY DEF BumpAt, Bumps, Msg, Step, At, Writers, record_message_activity, set_chat_last_message_meta, upsert_message, upsert_reaction,
         buffer_pending_reaction, drain_pending_reactions, set_message_status, mark_message_revoked,
         update_message_text, delete_message, refresh_preview, clear_chat, delete_chat, mark_chat,
         upsert_chat_from_history, send_answered, echo_answered, request_answered,
         find_reaction_target, find_undecryptable
<1>2. Msg(t) \in Msgs /\ chat' # None /\ chat'.activity \in Nat /\ chat'.activity >= Stamp[Msg(t)]
  BY <1>1, BumpCovers
<1>3. Stamp[Msg(t)] >= Stamp[m] /\ Stamp[m] \in Nat /\ Stamp[Msg(t)] \in Nat
  BY <1>2, StampsTyped DEF BumpAt, Msg
<1>. QED  BY <1>2, <1>3 DEF Covered

\* Of two messages, one is at least as new as both.
LEMMA NewerOf ==
    ASSUME NEW a \in Msgs, NEW b \in Msgs \cup {None},
           NEW n, n = IF b = None \/ Stamp[a] >= Stamp[b] THEN a ELSE b
    PROVE  n \in Msgs /\ Stamp[n] >= Stamp[a] /\ (b # None => Stamp[n] >= Stamp[b])
<1>1. PICK i \in Nat : i = Stamp[a]
  BY StampsTyped
<1>2. CASE b = None
  BY <1>1, <1>2
<1>3. CASE b # None
  <2>1. PICK j \in Nat : j = Stamp[b]
    BY <1>3, StampsTyped
  <2>2. CASE i >= j
    BY <1>1, <1>3, <2>1, <2>2
  <2>3. CASE ~(i >= j)
    <3>1. n = b /\ j >= i /\ j >= j
      BY <1>1, <1>3, <2>1, <2>3
    <3>. QED  BY <1>1, <1>3, <2>1, <3>1
  <2>. QED  BY <2>2, <2>3
<1>. QED  BY <1>2, <1>3

\* What newer and older stamps say together.
LEMMA NewerYet ==
    ASSUME NEW a \in Msgs, NEW b \in Msgs, NEW c \in Msgs, Stamp[a] >= Stamp[b], Stamp[b] >= Stamp[c]
    PROVE  Stamp[a] >= Stamp[c]
<1>1. PICK i \in Nat, j \in Nat, k \in Nat : i = Stamp[a] /\ j = Stamp[b] /\ k = Stamp[c]
  BY StampsTyped
<1>. QED  BY <1>1

\* `next` is `rest` with another last call.
EndsDifferently(rest, last, next) ==
    Len(next) = Len(rest) /\ \A k \in 1..Len(rest) : next[k] = IF k = Len(rest) THEN last ELSE rest[k]

\* The refresh that closes an import stands for the newest message it stored.
LEMMA LastPromises ==
    ASSUME TypeInv, NEW t \in Tasks, At(t, "imported"), Steady(todo[t]),
           NEW rest, rest = Tail(todo[t]), NEW old, old = rest[Len(rest)].msg,
           NEW n \in Msgs, Stamp[n] >= Stamp[Msg(t)], old # None => Stamp[n] >= Stamp[old],
           NEW last \in CallType, last.op = "refresh", last.msg = n,
           NEW next, EndsDifferently(rest, last, next),
           NEW m \in Msgs, m = Msg(t) \/ Promises(todo[t], m)
    PROVE  Promises(next, m)
<1>1. ~Idle(t) /\ todo[t] \in Seq(CallType) /\ todo[t] # <<>> /\ todo[t][1].op = "imported" /\ Msg(t) \in Msgs
  BY HeadCall, BusyTask, CallArguments DEF TypeInv, Idle, At, Msg, RowWriters, Writers
<1>2. /\ Len(todo[t]) \in Nat \ {0} /\ Len(rest) = Len(todo[t]) - 1 /\ rest \in Seq(CallType)
      /\ \A k \in 1..Len(rest) : rest[k] = todo[t][k + 1]
  BY <1>1, EmptySeq, HeadTailProperties
<1>3. todo[t][Len(todo[t])].op = "refresh"
  BY <1>1, <1>2 DEF TypeInv, ImportsEndInRefresh, EndsInRefresh
<1>4. Len(rest) \in 1..Len(rest) /\ rest[Len(rest)].op = "refresh" /\ rest[Len(rest)] \in CallType
  BY <1>1, <1>2, <1>3, ElementOfSeq
<1>5. old \in Msgs \cup {None}
  BY <1>4, CallArguments
<1>6. n \in Msgs /\ n # None /\ Stamp[n] >= Stamp[Msg(t)] /\ (old # None => Stamp[n] >= Stamp[old])
  BY MessageLogAssumption
<1>7. /\ Len(next) = Len(rest) /\ next[Len(rest)].op = "refresh" /\ next[Len(rest)].msg = n
      /\ \A k \in 1..Len(rest) : next[k].op = rest[k].op /\ (k # Len(rest) => next[k] = rest[k])
  <2>7. ASSUME NEW k \in 1..Len(rest) PROVE next[k].op = rest[k].op
    BY <1>4 DEF EndsDifferently
  <2>. QED  BY <1>4, <2>7 DEF EndsDifferently
<1>8. Steady(next)
  <2>1. Steady(rest)
    BY <1>1, TailSteady
  <2> SUFFICES ASSUME NEW i \in 1..Len(next)
               PROVE  /\ next[i].op \in SteadyOps
                      /\ next[i].op = "imported" => i + 1 \in 1..Len(next) /\ next[i + 1].op = "drain"
    BY DEF Steady
  <2>2. i \in 1..Len(rest) /\ next[i].op = rest[i].op
    BY <1>7
  <2>3. next[i].op \in SteadyOps
    BY <2>1, <2>2 DEF Steady
  <2>4. next[i].op = "imported" => i + 1 \in 1..Len(rest) /\ rest[i + 1].op = "drain"
    BY <2>1, <2>2 DEF Steady
  <2>. QED  BY <1>7, <2>3, <2>4
<1>9. CASE m = Msg(t)
  <2>1. BumpAt(next, Len(rest), m)
    BY <1>4, <1>6, <1>7, <1>9 DEF BumpAt, Bumps
  <2>. QED  BY <1>4, <1>7, <1>8, <2>1 DEF Promises
<1>10. CASE Promises(todo[t], m)
  <2>1. Promises(rest, m)
    BY <1>1, <1>10, TailPromises DEF BumpAt, Bumps
  <2>2. PICK k \in 1..Len(rest) : BumpAt(rest, k, m)
    BY <2>1 DEF Promises
  <2>3. CASE k # Len(rest)
    <3>1. BumpAt(next, k, m)
      BY <1>7, <2>2, <2>3 DEF BumpAt
    <3>. QED  BY <1>7, <1>8, <3>1 DEF Promises
  <2>4. CASE k = Len(rest)
    <3>1. old # None /\ Stamp[old] >= Stamp[m]
      BY <2>2, <2>4 DEF BumpAt
    <3>2. old \in Msgs /\ Stamp[n] >= Stamp[old]
      BY <1>5, <1>6, <3>1
    <3>3. BumpAt(next, Len(rest), m)
      BY <1>6, <1>7, <3>1, <3>2, NewerYet DEF BumpAt, Bumps
    <3>. QED  BY <1>4, <1>7, <1>8, <3>3 DEF Promises
  <2>. QED  BY <2>3, <2>4
<1>. QED  BY <1>9, <1>10

\* A call that stores m comes after one that raises the activity for it, or is followed by one.
BumpsFit(calls, i) ==
    LET c == calls[i]
    IN /\ c.op # "remove"
       /\ c.op \in {"edited", "revoked"} => Promised(c.msg)
       /\ c.op \in {"store", "insert"} => Covered(c.msg) \/ \E k \in 1..(i - 1) : BumpAt(calls, k, c.msg)
       /\ c.op \in {"sighted", "placeholder"} => i = 1 /\ Promises(Tail(calls), c.msg)
       /\ c.op = "imported" => Steady(calls)
StoredArePromised == \A m \in Msgs : Stored(m) => Promised(m)
BumpsCome == \A t \in Tasks : \A i \in 1..Len(todo[t]) : BumpsFit(todo[t], i)
\* The invariant of ActivityHolds.
CoverInv == TypeInv /\ StoredArePromised /\ BumpsCome

\* An import that stored a message has its refresh stand for it, as for the others.
LEMMA ImportedPromises ==
    ASSUME TypeInv, NEW t \in Tasks, At(t, "imported"), Steady(todo[t]),
           NEW x, NEW rest, rest = [Tail(todo[t]) EXCEPT ![Len(Tail(todo[t]))] = [@ EXCEPT !.msg = x]],
           LET old == Tail(todo[t])[Len(Tail(todo[t]))].msg
           IN x = IF old = None \/ Stamp[Msg(t)] >= Stamp[old] THEN Msg(t) ELSE old,
           NEW m \in Msgs, m = Msg(t) \/ Promises(todo[t], m)
    PROVE  Promises(rest, m)
<1> DEFINE tail == Tail(todo[t])
           old == tail[Len(tail)].msg
           last == [tail[Len(tail)] EXCEPT !.msg = x]
<1>1. ~Idle(t) /\ todo[t] \in Seq(CallType) /\ todo[t] # <<>> /\ Msg(t) \in Msgs
  BY HeadCall, BusyTask, CallArguments DEF TypeInv, Idle, At, Msg, RowWriters, Writers
<1>2. /\ Len(todo[t]) \in Nat \ {0} /\ Len(tail) = Len(todo[t]) - 1 /\ tail \in Seq(CallType)
      /\ \A k \in 1..Len(tail) : tail[k] = todo[t][k + 1]
  BY <1>1, EmptySeq, HeadTailProperties
<1>3. todo[t][Len(todo[t])].op = "refresh" /\ todo[t][1].op = "imported"
  BY <1>1, <1>2 DEF TypeInv, ImportsEndInRefresh, EndsInRefresh, At
<1>4. Len(tail) \in 1..Len(tail) /\ tail[Len(tail)].op = "refresh"
  BY <1>1, <1>2, <1>3
<1>5. PICK c \in CallType : c = tail[Len(tail)]
  BY <1>2, <1>4, ElementOfSeq
<1>6. c.op = "refresh" /\ c.msg \in Msgs \cup {None} /\ old = c.msg
  BY <1>4, <1>5, CallArguments
<1>7. x \in Msgs /\ Stamp[x] >= Stamp[Msg(t)] /\ (old # None => Stamp[x] >= Stamp[old])
  BY <1>1, <1>6, NewerOf, Zenon
<1>8. last \in CallType /\ last.op = "refresh" /\ last.msg = x
  <2> DEFINE Activities == [op : {"activity", "refresh"}, msg : Msgs \cup {None}, arg : Texts]
  <2>1. c \in Activities
    BY <1>6, SMT DEF CallType, Writers, Reacting
  <2>2. [c EXCEPT !.msg = x] \in Activities /\ [c EXCEPT !.msg = x].op = "refresh" /\ [c EXCEPT !.msg = x].msg = x
    BY <1>6, <1>7, <2>1
  <2>. QED  BY <1>5, <2>2 DEF CallType
<1>9. PICK r, o, l : r = tail /\ o = old /\ l = last
  OBVIOUS
<1>10. /\ r = Tail(todo[t]) /\ o = r[Len(r)].msg /\ x \in Msgs
       /\ Stamp[x] >= Stamp[Msg(t)] /\ (o # None => Stamp[x] >= Stamp[o])
       /\ l \in CallType /\ l.op = "refresh" /\ l.msg = x
  BY <1>7, <1>8, <1>9, Zenon
<1>11. rest = [r EXCEPT ![Len(r)] = l]
  BY <1>9, Zenon
<1> HIDE DEF last, tail, old
<1>12. r \in Seq(CallType) /\ Len(r) \in Nat /\ Len(r) \in 1..Len(r) /\ DOMAIN r = 1..Len(r)
  <2>1. r \in Seq(CallType) /\ Len(r) \in Nat /\ Len(r) \in 1..Len(r)
    BY <1>2, <1>4, <1>9
  <2>. QED  BY <2>1
<1>13. EndsDifferently(r, l, rest)
  <2>1. PICK p \in 1..Len(r) : p = Len(r)
    BY <1>12
  <2>2. rest = [r EXCEPT ![p] = l]
    BY <1>11, <2>1, Zenon
  <2>3. rest = [k \in 1..Len(r) |-> IF k = p THEN l ELSE r[k]]
    BY <1>12, <2>2, Zenon
  <2>4. Len(rest) = Len(r)
    BY <1>12, <2>3
  <2>. QED  BY <2>1, <2>3, <2>4, Zenon DEF EndsDifferently
<1>. QED  BY <1>10, <1>13, LastPromises, Zenon

LEMMA PromisesGoOn ==
    ASSUME TypeInv, NEW t \in Tasks, ~Idle(t), NEW rest, StepLeaves(t, rest),
           NEW m \in Msgs, Promises(todo[t], m), ~BumpAt(todo[t], 1, m)
    PROVE  Promises(rest, m)
<1>1. todo[t] \in Seq(CallType) /\ todo[t] # <<>> /\ 1 \in 1..Len(todo[t]) /\ Len(todo[t]) \in Nat
  BY BusyTask DEF TypeInv, Idle
<1>2. Steady(todo[t]) /\ todo[t][1].op \in SteadyOps
  BY <1>1 DEF Promises, Steady
<1>3. Promises(Tail(todo[t]), m)
  BY <1>1, TailPromises
<1>4. CASE At(t, "imported") /\ rest = Tail(Tail(todo[t]))
  <2>1. 2 \in 1..Len(todo[t]) /\ todo[t][2].op = "drain"
    BY <1>1, <1>2, <1>4 DEF At, Steady
  <2>2. /\ Tail(todo[t]) \in Seq(CallType) /\ Len(Tail(todo[t])) = Len(todo[t]) - 1
        /\ \A k \in 1..Len(Tail(todo[t])) : Tail(todo[t])[k] = todo[t][k + 1]
    BY <1>1, HeadTailProperties
  <2>3. 1 \in 1..Len(Tail(todo[t])) /\ Tail(todo[t])[1].op = "drain"
    BY <1>1, <2>1, <2>2
  <2>4. Tail(todo[t]) # <<>> /\ ~BumpAt(Tail(todo[t]), 1, m)
    <3>1. Tail(todo[t]) # <<>>
      <4> SUFFICES ASSUME Tail(todo[t]) = <<>> PROVE FALSE
        OBVIOUS
      <4>1. Len(Tail(todo[t])) = 0
        BY EmptySeq, Zenon
      <4>. QED  BY <1>1, <2>1, <2>2, <4>1
    <3>. QED  BY <2>3, <3>1 DEF BumpAt, Bumps
  <2>. QED  BY <1>3, <1>4, <2>2, <2>4, TailPromises
<1>5. CASE At(t, "imported") /\ rest # Tail(Tail(todo[t])) /\ rest # Tail(todo[t])
  BY <1>2, <1>5, ImportedPromises DEF StepLeaves, Decides, SteadyOps, Bumps, At
<1>6. ~Decides(t, rest)
  BY <1>2 DEF Decides, SteadyOps, Bumps, At
<1>. QED  BY <1>2, <1>3, <1>4, <1>5, <1>6 DEF StepLeaves, SteadyOps, Bumps, At

\* A list that holds a promise after a step makes it a promise of the chat.
LEMMA PromisedNow ==
    ASSUME NEW m, NEW u \in Tasks, NEW calls, calls = todo'[u], Promises(calls, m)
    PROVE  Promised(m)'
<1>1. \E v \in Tasks : Promises(todo'[v], m)
  BY Zenon
<1>. QED  BY <1>1 DEF Promised, Promises, Steady, BumpAt

\* No step breaks a promise.
LEMMA PromiseKept ==
    ASSUME CoverInv, NEW t \in Tasks, Step(t), NEW m \in Msgs, Promised(m)
    PROVE  Promised(m)'
<1>1. CASE server_accepts(t)
  BY <1>1 DEF server_accepts, tables, Promised, Covered, Promises, Steady, BumpAt
<1>2. CASE ~server_accepts(t)
  <2>1. PICK rest : ~Idle(t) /\ ReturnWith(t, rest) /\ StepLeaves(t, rest)
    BY <1>2, StepLeavesRest DEF CoverInv
  <2>2. \A u \in Tasks : todo'[u] = IF u = t THEN rest ELSE todo[u]
    BY <2>1 DEF ReturnWith, CoverInv, TypeInv, TypeOK
  <2>3. ~At(t, "remove")
    <3>1. 1 \in 1..Len(todo[t])
      BY <2>1, BusyTask DEF CoverInv, TypeInv
    <3>. QED  BY <3>1 DEF CoverInv, BumpsCome, BumpsFit, At
  <2>4. CASE Covered(m)
    BY <2>3, <2>4, StaysCovered DEF CoverInv, Promised
  <2>5. CASE BumpAt(todo[t], 1, m)
    BY <1>2, <2>1, <2>5, BumpMade DEF CoverInv, Promised
  <2>6. ASSUME ~Covered(m), ~BumpAt(todo[t], 1, m) PROVE Promised(m)'
    <3>1. PICK u \in Tasks : Promises(todo[u], m)
      BY <2>6 DEF Promised
    <3>2. CASE u = t
      <4>1. Promises(rest, m)
        BY <2>1, <2>6, <3>1, <3>2, PromisesGoOn DEF CoverInv
      <4>2. rest = todo'[t]
        BY <2>2
      <4>. QED  BY <4>1, <4>2, PromisedNow
    <3>3. CASE u # t
      <4>1. todo[u] = todo'[u]
        BY <2>2, <3>3
      <4>. QED  BY <3>1, <4>1, PromisedNow
    <3>. QED  BY <3>2, <3>3
  <2>. QED  BY <2>4, <2>5, <2>6
<1>. QED  BY <1>1, <1>2

\* Only upsert_message makes a stored message.
LEMMA StoredBy ==
    ASSUME TypeInv, NEW t \in Tasks, Step(t), NEW m \in Msgs, Stored(m)', ~Stored(m)
    PROVE  upsert_message(t) /\ Msg(t) = m /\ chat # None
<1>1. messages \in [Msgs -> Row \cup {None}] /\ messages[m] = None /\ messages'[m] # None
  BY DEF TypeInv, TypeOK, Stored
<1>2. CASE upsert_message(t)
  BY <1>1, <1>2 DEF upsert_message, Stored
<1>3. CASE set_message_status(t) \/ mark_message_revoked(t) \/ update_message_text(t)
  BY <1>1, <1>3 DEF set_message_status, mark_message_revoked, update_message_text
<1>4. CASE delete_message(t) \/ clear_chat(t) \/ delete_chat(t)
  BY <1>1, <1>4 DEF delete_message, clear_chat, delete_chat, DeleteMessages
<1>5. CASE messages' = messages
  BY <1>1, <1>5
<1>. QED  BY <1>2, <1>3, <1>4, <1>5 DEF Step, record_message_activity, set_chat_last_message_meta, upsert_reaction,
         buffer_pending_reaction, drain_pending_reactions, refresh_preview, mark_chat, tables,
         upsert_chat_from_history, server_accepts, send_answered, echo_answered, request_answered,
         find_reaction_target, find_undecryptable

\* A message is stored behind the bump that promises it.
LEMMA StoredPromised ==
    ASSUME CoverInv, NEW t \in Tasks, Step(t)
    PROVE  StoredArePromised'
<1> SUFFICES ASSUME NEW m \in Msgs, Stored(m)' PROVE Promised(m)'
  BY DEF StoredArePromised
<1>1. CASE Stored(m)
  BY <1>1, PromiseKept DEF CoverInv, StoredArePromised
<1>2. CASE ~Stored(m)
  <2>1. upsert_message(t) /\ Msg(t) = m /\ chat # None /\ ~server_accepts(t)
    <3>1. upsert_message(t) /\ Msg(t) = m /\ chat # None
      BY <1>2, StoredBy DEF CoverInv
    <3>. QED  BY <3>1 DEF upsert_message, server_accepts, At, Writers
  <2>2. PICK op \in Writers : At(t, op)
    BY <2>1 DEF upsert_message
  <2>3. ~Idle(t) /\ todo[t][1].op = op /\ todo[t][1].msg = m /\ 1 \in 1..Len(todo[t])
    BY <2>1, <2>2, BusyTask DEF At, Msg, CoverInv, TypeInv
  <2>4. BumpsFit(todo[t], 1)
    BY <2>3 DEF CoverInv, BumpsCome
  <2>5. CASE op \in {"store", "insert", "edited", "revoked"}
    <3>1. Promised(m)
      BY <2>3, <2>4, <2>5 DEF BumpsFit, Promised
    <3>. QED  BY <3>1, PromiseKept
  <2>6. CASE op = "placeholder"
    <3>1. Promises(Tail(todo[t]), m)
      BY <2>3, <2>4, <2>6 DEF BumpsFit
    <3>2. Tail(todo[t]) = todo'[t]
      BY <2>1, <2>3, <2>6 DEF upsert_message, ReturnWith, At, CoverInv, TypeInv, TypeOK
    <3>. QED  BY <3>1, <3>2, PromisedNow
  <2>7. CASE op = "imported"
    <3>1. At(t, "imported") /\ Steady(todo[t])
      BY <2>2, <2>3, <2>4, <2>7 DEF BumpsFit
    <3> DEFINE tail == Tail(todo[t])
               old == tail[Len(tail)].msg
               x == IF old = None \/ Stamp[Msg(t)] >= Stamp[old] THEN Msg(t) ELSE old
    <3>2. PICK rest : rest = [tail EXCEPT ![Len(tail)] = [@ EXCEPT !.msg = x]]
      OBVIOUS
    <3>3. ReturnWith(t, rest)
      BY <2>1, <3>1, <3>2 DEF upsert_message
    <3>4. Promises(rest, m)
      BY <2>1, <3>1, <3>2, ImportedPromises DEF CoverInv
    <3>5. rest = todo'[t]
      BY <3>3 DEF ReturnWith, CoverInv, TypeInv, TypeOK
    <3>. QED  BY <3>4, <3>5, PromisedNow
  <2>. QED  BY <2>5, <2>6, <2>7 DEF Writers
<1>. QED  BY <1>1, <1>2

\* What a call waits for still holds, or comes, after a step of any task.
LEMMA StillFitsCover ==
    ASSUME CoverInv, NEW t \in Tasks, Step(t), NEW calls \in Seq(CallType), NEW i \in 1..Len(calls), BumpsFit(calls, i),
           ~At(t, "remove")
    PROVE  BumpsFit(calls, i)'
<1>1. calls[i] \in CallType
  BY ElementOfSeq
<1>2. calls[i].op \in {"edited", "revoked"} => Promised(calls[i].msg)'
  BY <1>1, PromiseKept, CallArguments DEF BumpsFit, RowWriters, Writers
<1>3. calls[i].op \in {"store", "insert"}
        => Covered(calls[i].msg)' \/ \E k \in 1..(i - 1) : BumpAt(calls, k, calls[i].msg)
  BY <1>1, StaysCovered, CallArguments DEF BumpsFit, RowWriters, Writers, CoverInv
<1>. QED  BY <1>2, <1>3 DEF BumpsFit, Promises, Steady, BumpAt

\* The calls behind the first one wait for the same, or for nothing more.
LEMMA TailBumpsFit ==
    ASSUME CoverInv, NEW t \in Tasks, Step(t), ~server_accepts(t), ~Idle(t),
           NEW calls, calls = Tail(todo[t]), NEW i \in 1..Len(calls)
    PROVE  BumpsFit(calls, i)'
<1>1. /\ Len(todo[t]) \in Nat \ {0} /\ Len(calls) = Len(todo[t]) - 1 /\ calls \in Seq(CallType)
      /\ \A k \in 1..Len(calls) : calls[k] = todo[t][k + 1]
      /\ todo[t] \in Seq(CallType) /\ todo[t] # <<>>
  BY EmptySeq, HeadTailProperties DEF CoverInv, TypeInv, TypeOK, Idle
<1>2. i + 1 \in 1..Len(todo[t]) /\ calls[i] = todo[t][i + 1] /\ calls[i] \in CallType /\ 1 \in 1..Len(todo[t])
  BY <1>1, ElementOfSeq
<1>3. BumpsFit(todo[t], i + 1) /\ BumpsFit(todo[t], 1)
  BY <1>2 DEF CoverInv, BumpsCome
<1>4. ~At(t, "remove")
  BY <1>3 DEF BumpsFit, At
<1>5. calls[i].op \notin {"sighted", "placeholder"}
  BY <1>2, <1>3 DEF BumpsFit
<1>6. calls[i].op = "imported" => Steady(calls)
  BY <1>1, <1>2, <1>3, TailSteady DEF BumpsFit
<1>7. calls[i].op \in {"edited", "revoked"} => Promised(calls[i].msg)'
  BY <1>2, <1>3, PromiseKept, CallArguments DEF BumpsFit, RowWriters, Writers
<1>8. ASSUME calls[i].op \in {"store", "insert"}
      PROVE  Covered(calls[i].msg)' \/ \E k \in 1..(i - 1) : BumpAt(calls, k, calls[i].msg)
  <2>1. PICK m \in Msgs : m = calls[i].msg
    BY <1>2, <1>8, CallArguments DEF RowWriters, Writers
  <2>2. CASE Covered(m)
    BY <1>4, <2>1, <2>2, StaysCovered DEF CoverInv
  <2>3. CASE BumpAt(todo[t], 1, m)
    BY <2>1, <2>3, BumpMade DEF CoverInv
  <2>4. ASSUME NEW k \in 1..i, k # 1, BumpAt(todo[t], k, m)
        PROVE  \E j \in 1..(i - 1) : BumpAt(calls, j, m)
    <3>1. k - 1 \in 1..(i - 1) /\ k - 1 \in 1..Len(calls) /\ calls[k - 1] = todo[t][k]
      BY <1>1, <2>4
    <3>2. BumpAt(calls, k - 1, m)
      BY <2>4, <3>1 DEF BumpAt
    <3>. QED  BY <3>1, <3>2
  <2>5. Covered(m) \/ \E k \in 1..i : BumpAt(todo[t], k, m)
    <3>1. (i + 1) - 1 = i
      OBVIOUS
    <3>. QED  BY <1>2, <1>3, <1>8, <2>1, <3>1 DEF BumpsFit
  <2>. QED  BY <2>1, <2>2, <2>3, <2>4, <2>5
<1>. QED  BY <1>2, <1>3, <1>5, <1>6, <1>7, <1>8 DEF BumpsFit, Promises, Steady, BumpAt

\* A list of bumps and imports waits for nothing else.
LEMMA SteadyFits ==
    ASSUME NEW calls, Steady(calls), NEW i \in 1..Len(calls)
    PROVE  BumpsFit(calls, i)'
<1>1. calls[i].op \in SteadyOps
  BY DEF Steady
<1>. QED  BY <1>1 DEF BumpsFit, SteadyOps, Bumps, Steady

\* Nothing changes for the calls when neither they nor the chat's row do.
LEMMA SameCover ==
    ASSUME BumpsCome, todo' = todo, chat' = chat
    PROVE  BumpsCome'
<1>1. ASSUME NEW m, Promised(m) PROVE Promised(m)'
  BY <1>1 DEF Promised, Covered, Promises, Steady, BumpAt
<1>2. ASSUME NEW u \in Tasks, NEW c, c = todo[u], NEW i \in 1..Len(c) PROVE BumpsFit(c, i)'
  <2>1. BumpsFit(c, i)
    BY <1>2 DEF BumpsCome
  <2>2. Covered(c[i].msg)' <=> Covered(c[i].msg)
    BY DEF Covered
  <2>3. Promised(c[i].msg) => Promised(c[i].msg)'
    BY <1>1
  <2>. QED  BY <2>1, <2>2, <2>3 DEF BumpsFit, Promises, Steady, BumpAt
<1> SUFFICES ASSUME NEW u \in Tasks, NEW i \in 1..Len(todo'[u]) PROVE BumpsFit(todo[u], i)'
  BY DEF BumpsCome
<1>3. PICK c : c = todo'[u]
  OBVIOUS
<1>4. BumpsFit(c, i)'
  BY <1>2, <1>3
<1>. QED  BY <1>3, <1>4 DEF BumpsFit, Promised, Covered, Promises, Steady, BumpAt

\* The call a lookup decides on waits for what the lookup waited for.
LEMMA DecidedFits ==
    ASSUME CoverInv, NEW t \in Tasks, Step(t), ~Idle(t), NEW rest, Decides(t, rest), NEW i \in 1..Len(rest)
    PROVE  BumpsFit(rest, i)'
<1>1. PICK c : c = todo[t]
  OBVIOUS
<1>2. c \in Seq(CallType) /\ 1 \in 1..Len(c) /\ Len(c) \in Nat
  BY <1>1, BusyTask DEF CoverInv, TypeInv
<1>3. /\ Len(rest) = Len(c) /\ Tail(rest) = Tail(c) /\ c[1].op \in {"lookup", "sighted"}
      /\ rest[1].op \in (IF c[1].op = "lookup" THEN {"react", "buffer"} ELSE {"placeholder"}) /\ rest[1].msg = c[1].msg
      /\ \A k \in 1..Len(rest) : k # 1 => rest[k] = c[k]
  BY <1>1 DEF Decides, At, Msg
<1>4. BumpsFit(c, 1) /\ BumpsFit(c, i) /\ ~At(t, "remove")
  BY <1>1, <1>2, <1>3 DEF CoverInv, BumpsCome, BumpsFit, At
<1>5. CASE i = 1
  <2>1. rest[1].op = "placeholder" => Promises(Tail(rest), rest[1].msg)
    BY <1>3, <1>4 DEF BumpsFit
  <2>. QED  BY <1>3, <1>5, <2>1 DEF BumpsFit, Promises, Steady, BumpAt
<1>6. CASE i # 1
  <2>1. rest[i] = c[i] /\ BumpsFit(c, i)'
    BY <1>2, <1>3, <1>4, <1>6, StillFitsCover
  <2>2. c[i].op \notin {"sighted", "placeholder", "imported"}
    BY <1>2, <1>3, <1>4, <1>6 DEF BumpsFit, Steady, SteadyOps, Bumps
  <2>3. ASSUME NEW k \in 1..(i - 1), BumpAt(c, k, c[i].msg) PROVE BumpAt(rest, k, rest[i].msg)
    <3>1. k \in 1..Len(rest) /\ k # 1
      BY <1>2, <1>3, <2>3 DEF BumpAt, Bumps
    <3>. QED  BY <1>3, <2>1, <2>3, <3>1 DEF BumpAt
  <2>. QED  BY <2>1, <2>2, <2>3 DEF BumpsFit, Promises, Steady, BumpAt
<1>. QED  BY <1>5, <1>6

LEMMA BumpsStep ==
    ASSUME CoverInv, NEW t \in Tasks, Step(t)
    PROVE  BumpsCome'
<1>1. CASE server_accepts(t)
  BY <1>1, SameCover DEF server_accepts, tables, CoverInv
<1>2. CASE ~server_accepts(t)
  <2>1. PICK rest : ~Idle(t) /\ ReturnWith(t, rest) /\ StepLeaves(t, rest)
    BY <1>2, StepLeavesRest DEF CoverInv
  <2>2. \A u \in Tasks : todo'[u] = IF u = t THEN rest ELSE todo[u]
    BY <2>1 DEF ReturnWith, CoverInv, TypeInv, TypeOK
  <2>3. todo[t] \in Seq(CallType) /\ todo[t] # <<>> /\ 1 \in 1..Len(todo[t]) /\ Len(todo[t]) \in Nat
    BY <2>1, BusyTask DEF CoverInv, TypeInv, Idle
  <2>4. BumpsFit(todo[t], 1)
    BY <2>3 DEF CoverInv, BumpsCome
  <2>5. ASSUME NEW i \in 1..Len(rest) PROVE BumpsFit(rest, i)'
    <3>1. CASE rest = Tail(todo[t])
      BY <1>2, <2>1, <3>1, TailBumpsFit
    <3>2. CASE rest = <<>>
      BY <3>2, EmptySeq
    <3>3. CASE \E c : rest = <<c>> /\ c.op \in {"clear", "refresh", "status"}
      BY <3>3 DEF BumpsFit
    <3>4. CASE At(t, "imported") /\ rest # Tail(todo[t])
      <4>1. Steady(todo[t])
        BY <2>4, <3>4 DEF BumpsFit, At
      <4>2. CASE rest = Tail(Tail(todo[t]))
        <5>1. 2 \in 1..Len(todo[t])
          BY <2>3, <3>4, <4>1 DEF At, Steady
        <5>2. Tail(todo[t]) \in Seq(CallType) /\ Len(Tail(todo[t])) = Len(todo[t]) - 1 /\ Len(Tail(todo[t])) # 0
          <6>1. Tail(todo[t]) \in Seq(CallType) /\ Len(Tail(todo[t])) = Len(todo[t]) - 1
            BY <2>3, HeadTailProperties
          <6>2. Len(todo[t]) - 1 # 0
            <7>1. \A n \in Nat : 2 \in 1..n => n - 1 # 0
              OBVIOUS
            <7>. QED  BY <2>3, <5>1, <7>1, Zenon
          <6>. QED  BY <6>1, <6>2, Zenon
        <5>3. Tail(todo[t]) # <<>>
          <6> SUFFICES ASSUME Tail(todo[t]) = <<>> PROVE FALSE
            OBVIOUS
          <6>1. Len(Tail(todo[t])) = 0
            BY EmptySeq, Zenon
          <6>. QED  BY <5>2, <6>1
        <5>4. Steady(rest)
          BY <2>3, <4>1, <4>2, <5>2, <5>3, TailSteady
        <5>. QED  BY <5>4, SteadyFits
      <4>3. CASE rest # Tail(Tail(todo[t]))
        <5>1. Msg(t) \in Msgs
          BY <2>1, <2>3, <3>4, HeadCall, CallArguments, SMTT(30) DEF At, Msg, RowWriters, Writers, CoverInv, TypeInv
        <5>2. Promises(rest, Msg(t))
          BY <2>1, <3>4, <4>1, <4>3, <5>1, ImportedPromises DEF StepLeaves, Decides, At, SteadyOps, CoverInv
        <5>. QED  BY <5>2, SteadyFits DEF Promises
      <4>. QED  BY <4>2, <4>3
    <3>5. CASE Decides(t, rest)
      BY <2>1, <3>5, DecidedFits
    <3>. QED  BY <2>1, <3>1, <3>2, <3>3, <3>4, <3>5 DEF StepLeaves
  <2>6. ~At(t, "remove")
    BY <2>4 DEF BumpsFit, At
  <2>7. ASSUME NEW u \in Tasks, NEW c, c = todo'[u], NEW i \in 1..Len(c) PROVE BumpsFit(c, i)'
    <3>1. CASE u = t
      BY <2>2, <2>5, <2>7, <3>1
    <3>2. CASE u # t
      <4>1. c = todo[u] /\ c \in Seq(CallType)
        BY <2>2, <2>7, <3>2 DEF CoverInv, TypeInv, TypeOK
      <4>2. BumpsFit(c, i)
        BY <4>1 DEF CoverInv, BumpsCome
      <4>. QED  BY <2>6, <4>1, <4>2, StillFitsCover
    <3>. QED  BY <3>1, <3>2
  <2> SUFFICES ASSUME NEW u \in Tasks, NEW i \in 1..Len(todo'[u]) PROVE BumpsFit(todo[u], i)'
    BY DEF BumpsCome
  <2>8. PICK c : c = todo'[u]
    OBVIOUS
  <2>9. BumpsFit(c, i)'
    BY <2>7, <2>8
  <2>. QED  BY <2>8, <2>9 DEF BumpsFit, Promised, Covered, Promises, Steady, BumpAt
<1>. QED  BY <1>1, <1>2

\* A handler starts with calls that wait for nothing that does not come.
StartsCovered(t, calls) == Start(t, calls) /\ \A i \in 1..Len(calls) : BumpsFit(calls, i)

LEMMA StartCovers ==
    ASSUME CoverInv, NEW t \in Tasks, NEW calls, StartsCovered(t, calls)
    PROVE  StoredArePromised' /\ BumpsCome'
<1>1. /\ todo[t] = <<>> /\ messages' = messages /\ chat' = chat
      /\ \A u \in Tasks : todo'[u] = IF u = t THEN calls ELSE todo[u]
  BY DEF StartsCovered, Start, Idle, tables, CoverInv, TypeInv, TypeOK
<1>2. ASSUME NEW m, Promised(m) PROVE Promised(m)'
  <2>1. CASE Covered(m)
    BY <1>1, <2>1 DEF Covered, Promised
  <2>2. ASSUME NEW u \in Tasks, Promises(todo[u], m) PROVE Promised(m)'
    <3>1. u # t
      BY <1>1, <2>2, EmptySeq DEF Promises
    <3>2. todo[u] = todo'[u]
      BY <1>1, <3>1
    <3>. QED  BY <2>2, <3>2, PromisedNow
  <2>. QED  BY <1>2, <2>1, <2>2 DEF Promised
<1>3. StoredArePromised'
  BY <1>1, <1>2 DEF CoverInv, StoredArePromised, Stored
<1>4. ASSUME NEW u \in Tasks, NEW c, c = todo'[u], NEW i \in 1..Len(c) PROVE BumpsFit(c, i)'
  <2>1. BumpsFit(c, i)
    BY <1>1, <1>4 DEF StartsCovered, CoverInv, BumpsCome
  <2>2. Covered(c[i].msg)' <=> Covered(c[i].msg)
    BY <1>1 DEF Covered
  <2>3. Promised(c[i].msg) => Promised(c[i].msg)'
    BY <1>2
  <2>. QED  BY <2>1, <2>2, <2>3 DEF BumpsFit, Promises, Steady, BumpAt
<1>5. BumpsCome'
  <2> SUFFICES ASSUME NEW u \in Tasks, NEW i \in 1..Len(todo'[u]) PROVE BumpsFit(todo[u], i)'
    BY DEF BumpsCome
  <2>1. PICK c : c = todo'[u]
    OBVIOUS
  <2>2. BumpsFit(c, i)'
    BY <1>4, <2>1
  <2>. QED  BY <2>1, <2>2 DEF BumpsFit, Promised, Covered, Promises, Steady, BumpAt
<1>. QED  BY <1>3, <1>5

LEMMA SteadyAppend ==
    ASSUME NEW S, NEW r \in Seq(S), NEW s \in Seq(S), Steady(r), Steady(s)
    PROVE  r \o s \in Seq(S) /\ Steady(r \o s)
<1>1. Len(r) \in Nat /\ Len(s) \in Nat
  OBVIOUS
<1>2. /\ r \o s \in Seq(S) /\ Len(r \o s) = Len(r) + Len(s)
      /\ \A i \in 1..(Len(r) + Len(s)) : (r \o s)[i] = IF i <= Len(r) THEN r[i] ELSE s[i - Len(r)]
  BY ConcatProperties
<1> SUFFICES ASSUME NEW i \in 1..Len(r \o s)
             PROVE  /\ (r \o s)[i].op \in SteadyOps
                    /\ (r \o s)[i].op = "imported" => i + 1 \in 1..Len(r \o s) /\ (r \o s)[i + 1].op = "drain"
  BY <1>2 DEF Steady
<1>3. CASE i <= Len(r)
  <2>1. i \in 1..Len(r) /\ (r \o s)[i] = r[i]
    BY <1>1, <1>2, <1>3
  <2>2. i + 1 \in 1..Len(r) => i + 1 \in 1..Len(r \o s) /\ (r \o s)[i + 1] = r[i + 1]
    BY <1>1, <1>2
  <2>. QED  BY <2>1, <2>2 DEF Steady
<1>4. CASE ~(i <= Len(r))
  <2>1. i - Len(r) \in 1..Len(s) /\ (r \o s)[i] = s[i - Len(r)]
    BY <1>1, <1>2, <1>4
  <2>2. (i - Len(r)) + 1 \in 1..Len(s)
          => i + 1 \in 1..Len(r \o s) /\ (r \o s)[i + 1] = s[(i - Len(r)) + 1]
    BY <1>1, <1>2, <1>4
  <2>. QED  BY <2>1, <2>2 DEF Steady
<1>. QED  BY <1>3, <1>4

LEMMA ImportSteady ==
    ASSUME NEW m, NEW n
    PROVE  Steady(<<Call("history", None, None)>> \o <<Call("imported", m, InboundRow(m)), Call("drain", m, None)>>
                  \o (IF n = m THEN <<>> ELSE <<Call("imported", n, InboundRow(n)), Call("drain", n, None)>>)
                  \o <<Call("refresh", None, Body)>>)
<1>1. PICK a, b, c, e, f, d : /\ a = Call("history", None, None) /\ d = Call("refresh", None, Body)
                              /\ b = Call("imported", m, InboundRow(m)) /\ c = Call("drain", m, None)
                              /\ e = Call("imported", n, InboundRow(n)) /\ f = Call("drain", n, None)
  OBVIOUS
<1>2. a.op = "history" /\ b.op = "imported" /\ c.op = "drain" /\ e.op = "imported" /\ f.op = "drain" /\ d.op = "refresh"
  BY <1>1, CallOps
<1>3. PICK S : S = {a, b, c, d, e, f}
  OBVIOUS
<1>4. PICK ef : ef = IF n = m THEN <<>> ELSE <<e, f>>
  OBVIOUS
<1>5. <<a>> \in Seq(S) /\ <<b, c>> \in Seq(S) /\ ef \in Seq(S) /\ <<d>> \in Seq(S)
  <2>1. a \in S /\ b \in S /\ c \in S /\ d \in S /\ e \in S /\ f \in S
    BY <1>3
  <2>2. <<>> \in Seq(S) /\ <<e, f>> \in Seq(S)
    BY <2>1
  <2>3. ef \in Seq(S)
    BY <1>4, <2>2, Zenon
  <2>4. <<a>> \in Seq(S) /\ <<b, c>> \in Seq(S) /\ <<d>> \in Seq(S)
    BY <2>1
  <2>. QED  BY <2>3, <2>4
<1>6. Steady(<<a>>) /\ Steady(<<b, c>>) /\ Steady(ef) /\ Steady(<<d>>)
  BY <1>2, <1>4 DEF Steady, SteadyOps, Bumps
<1>7. Steady(<<a>> \o <<b, c>> \o ef \o <<d>>)
  BY <1>5, <1>6, SteadyAppend
<1>. QED  BY <1>1, <1>4, <1>7, Zenon

LEMMA HandlerCovers ==
    ASSUME NoDeletes, CoverInv, NEW t \in Tasks, Handler(t)
    PROVE  \E calls : StartsCovered(t, calls)
<1>1. CASE handle_inbound_message(t)
  <2>1. PICK m \in Msgs : Start(t, InboundCalls(m, Bump(m)))
    BY <1>1 DEF handle_inbound_message
  <2>2. m # None /\ Stamp[m] >= Stamp[m] /\ Bump(m) \in Bumps
    BY StampsTyped, MessageLogAssumption DEF Bump, Bumps
  <2>3. \A i \in 1..Len(InboundCalls(m, Bump(m))) : BumpsFit(InboundCalls(m, Bump(m)), i)
    BY <2>2 DEF InboundCalls, Call, BumpsFit, BumpAt, Bumps
  <2>. QED  BY <2>1, <2>3 DEF StartsCovered
<1>2. CASE handle_undecryptable(t)
  <2>1. PICK m \in Msgs : Start(t, <<Call("sighted", m, PlaceholderRow(m)), Call(Bump(m), m, None)>>)
    BY <1>2 DEF handle_undecryptable
  <2>2. m # None /\ Stamp[m] >= Stamp[m] /\ Bump(m) \in Bumps
    BY StampsTyped, MessageLogAssumption DEF Bump, Bumps
  <2>3. PICK b, p : b = Call(Bump(m), m, None) /\ p = Call("sighted", m, PlaceholderRow(m))
    OBVIOUS
  <2>4. b.op \in Bumps /\ b.msg = m /\ p.op = "sighted" /\ p.msg = m
    BY <2>2, <2>3 DEF Call
  <2>5. Promises(<<b>>, m)
    <3>1. Steady(<<b>>)
      BY <2>4 DEF Steady, SteadyOps, Bumps
    <3>2. BumpAt(<<b>>, 1, m) /\ 1 \in 1..Len(<<b>>)
      BY <2>2, <2>4 DEF BumpAt
    <3>. QED  BY <3>1, <3>2 DEF Promises
  <2>6. Tail(<<p, b>>) = <<b>>
    OBVIOUS
  <2>7. \A i \in 1..Len(<<p, b>>) : BumpsFit(<<p, b>>, i)
    BY <2>4, <2>5, <2>6 DEF BumpsFit, Bumps
  <2>. QED  BY <2>1, <2>3, <2>7 DEF StartsCovered
<1>3. CASE import_history_sync(t)
  <2>1. PICK m \in Msgs, n \in Msgs :
           Start(t, <<Call("history", None, None)>> \o <<Call("imported", m, InboundRow(m)), Call("drain", m, None)>>
                    \o (IF n = m THEN <<>> ELSE <<Call("imported", n, InboundRow(n)), Call("drain", n, None)>>)
                    \o <<Call("refresh", None, Body)>>)
    BY <1>3, Zenon DEF import_history_sync
  <2>2. PICK calls : Start(t, calls) /\ Steady(calls)
    BY <2>1, ImportSteady, Zenon
  <2>3. \A i \in 1..Len(calls) : BumpsFit(calls, i)
    BY <2>2 DEF Steady, SteadyOps, Bumps, BumpsFit
  <2>. QED  BY <2>2, <2>3 DEF StartsCovered
<1>4. CASE send_text(t)
  <2>1. PICK m \in Drafts :
           Start(t, <<Call("meta", m, None), Call("refresh", m, Body),
                      Call("insert", m, OutgoingRow("pending")), Call("sending", m, None)>>)
    BY <1>4 DEF send_text
  <2>2. m # None /\ Stamp[m] >= Stamp[m]
    BY StampsTyped, MessageLogAssumption
  <2>3. PICK calls : calls = <<Call("meta", m, None), Call("refresh", m, Body),
                               Call("insert", m, OutgoingRow("pending")), Call("sending", m, None)>>
    OBVIOUS
  <2>4. \A i \in 1..Len(calls) : BumpsFit(calls, i)
    BY <2>2, <2>3 DEF Call, BumpsFit, BumpAt, Bumps
  <2>. QED  BY <2>1, <2>3, <2>4 DEF StartsCovered
<1>5. CASE persist_and_emit(t)
  <2>1. PICK m \in Drafts :
           Start(t, <<Call("echoing", m, None), Call("refresh", m, Body), Call("insert", m, OutgoingRow("sent"))>>)
    BY <1>5 DEF persist_and_emit
  <2>2. m # None /\ Stamp[m] >= Stamp[m]
    BY StampsTyped, MessageLogAssumption
  <2>3. PICK calls : calls = <<Call("echoing", m, None), Call("refresh", m, Body), Call("insert", m, OutgoingRow("sent"))>>
    OBVIOUS
  <2>4. \A i \in 1..Len(calls) : BumpsFit(calls, i)
    BY <2>2, <2>3 DEF Call, BumpsFit, BumpAt, Bumps
  <2>. QED  BY <2>1, <2>3, <2>4 DEF StartsCovered
<1>6. CASE edit_message(t) \/ revoke_message(t)
  <2>1. PICK op, m, row : op \in {"edited", "revoked"} /\ m \in Msgs /\
           Stored(m) /\ Start(t, <<Call("request", m, None), Call(op, m, row)>>)
    BY <1>6, MessageLogAssumption DEF edit_message, revoke_message
  <2>2. Promised(m)
    BY <2>1 DEF CoverInv, StoredArePromised
  <2>3. PICK calls : calls = <<Call("request", m, None), Call(op, m, row)>>
    OBVIOUS
  <2>4. \A i \in 1..Len(calls) : BumpsFit(calls, i)
    BY <2>1, <2>2, <2>3 DEF Call, BumpsFit
  <2>. QED  BY <2>1, <2>3, <2>4 DEF StartsCovered
<1>7. CASE handle_delete_for_me(t)
  <2>1. PICK m \in Msgs : Start(t, <<Call("delete", m, None), Call("list", None, None)>>)
    BY <1>7 DEF handle_delete_for_me
  <2>2. \A i \in 1..Len(<<Call("delete", m, None), Call("list", None, None)>>) :
           BumpsFit(<<Call("delete", m, None), Call("list", None, None)>>, i)
    BY DEF Call, BumpsFit
  <2>. QED  BY <2>1, <2>2 DEF StartsCovered
<1>8. CASE \/ handle_reaction(t) \/ handle_receipt(t) \/ handle_revoke(t) \/ handle_edit(t) \/ handle_read(t)
           \/ handle_clear_chat(t)
  <2>1. PICK op, m, x : op \in {"lookup", "status", "clear", "tombstone", "text", "mark"} /\ Start(t, <<Call(op, m, x)>>)
    <3>1. CASE handle_revoke(t) \/ handle_edit(t)
      BY <3>1 DEF handle_revoke, handle_edit
    <3>2. CASE handle_read(t) \/ handle_clear_chat(t) \/ handle_receipt(t)
      BY <3>2 DEF handle_read, handle_clear_chat, handle_receipt
    <3>3. CASE handle_reaction(t)
      BY <3>3 DEF handle_reaction
    <3>. QED  BY <1>8, <3>1, <3>2, <3>3
  <2>2. \A i \in 1..Len(<<Call(op, m, x)>>) : BumpsFit(<<Call(op, m, x)>>, i)
    BY <2>1 DEF Call, BumpsFit
  <2>. QED  BY <2>1, <2>2 DEF StartsCovered
<1>. QED  BY <1>1, <1>2, <1>3, <1>4, <1>5, <1>6, <1>7, <1>8 DEF Handler, NoDeletes

\* A chat is sorted at or after the newest message it holds, whatever the
\* handlers interleave, as long as none of them deletes the chat.
THEOREM ActivityHolds ==
    ASSUME NoDeletes
    PROVE  Spec => []ActivityCovers
<1>1. Init => CoverInv
  <2>1. Init => StoredArePromised
    BY DEF Init, StoredArePromised, Stored
  <2>2. Init => BumpsCome
    BY EmptySeq DEF Init, BumpsCome
  <2>. QED  BY <2>1, <2>2, InitTyped DEF CoverInv
<1>2. CoverInv /\ [Next]_vars => CoverInv'
  <2> SUFFICES ASSUME CoverInv, [Next]_vars PROVE CoverInv'
    OBVIOUS
  <2>1. TypeInv'
    BY NextTyped DEF CoverInv
  <2>2. CASE UNCHANGED vars
    <3>1. BumpsCome'
      BY <2>2, SameCover DEF vars, tables, CoverInv
    <3>2. StoredArePromised'
      BY <2>2 DEF vars, tables, CoverInv, StoredArePromised, Stored, Promised, Covered, Promises, Steady, BumpAt
    <3>. QED  BY <2>1, <3>1, <3>2 DEF CoverInv
  <2>3. ASSUME NEW t \in Tasks, Step(t) PROVE CoverInv'
    BY <2>1, <2>3, StoredPromised, BumpsStep DEF CoverInv
  <2>4. ASSUME NEW t \in Tasks, Handler(t) PROVE CoverInv'
    BY <2>1, <2>4, HandlerCovers, StartCovers DEF CoverInv
  <2>. QED  BY <2>2, <2>3, <2>4 DEF Next
<1>3. CoverInv => ActivityCovers
  <2> SUFFICES ASSUME CoverInv, Quiet, NEW m \in Msgs, Stored(m) PROVE Covered(m)
    BY DEF ActivityCovers, Covered
  <2>1. Promised(m)
    BY DEF CoverInv, StoredArePromised
  <2>2. ASSUME NEW t \in Tasks, Promises(todo[t], m) PROVE FALSE
    BY <2>2, EmptySeq DEF Quiet, Idle, Promises
  <2>. QED  BY <2>1, <2>2 DEF Promised
<1>. QED  BY <1>1, <1>2, <1>3, PTL DEF Spec

(***************************************************************************)
(* The chat's badge.                                                       *)
(***************************************************************************)
\* No handler counts a message it may count again, or sets the counter.
NoImports == \A t \in Tasks : Duties[t] \cap {"import", "undecryptable"} = {}

\* A call that counts is about a message of the other side that has arrived for good and is
\* not counted yet; no two calls count the same.
Counts(c) == c.op = "activity"
CountFits(c) ==
    /\ c.op \notin {"history", "imported", "sighted", "placeholder"}
    /\ Counts(c) => c.msg \in Msgs \ (Own \cup fresh) /\ arrived[c.msg] = "message"
CountsFit == \A t \in Tasks : \A i \in 1..Len(todo[t]) : CountFits(todo[t][i])
CountsOnce ==
    \A t, u \in Tasks : \A i \in 1..Len(todo[t]), k \in 1..Len(todo[u]) :
       Counts(todo[t][i]) /\ Counts(todo[u][k]) /\ todo[t][i].msg = todo[u][k].msg => t = u /\ i = k
BadgeFits ==
    /\ IsFiniteSet(fresh)
    /\ chat = None => fresh = {}
    /\ UnreadIsExact
FreshArrived == \A m \in Msgs : arrived[m] # "placeholder" /\ (m \in fresh => arrived[m] = "message")
\* The invariant of UnreadHolds.
BadgeInv == TypeInv /\ CountsFit /\ CountsOnce /\ BadgeFits /\ FreshArrived

\* A list after a step: what was left of it, or a call that counts nothing.
Came(t, u, i) == IF u = t /\ ~At(t, "lookup") THEN i + 1 ELSE i
LEMMA CountsLeft ==
    ASSUME BadgeInv, NEW t \in Tasks, Step(t), ~server_accepts(t), NEW u \in Tasks, NEW c, c = todo'[u], NEW i \in 1..Len(c)
    PROVE  \/ Came(t, u, i) \in 1..Len(todo[u]) /\ c[i] = todo[u][Came(t, u, i)]
           \/ c[i].op \in {"clear", "refresh", "status", "react", "buffer"}
<1>1. PICK rest : ~Idle(t) /\ ReturnWith(t, rest) /\ StepLeaves(t, rest)
  BY StepLeavesRest DEF BadgeInv
<1>2. \A v \in Tasks : todo'[v] = IF v = t THEN rest ELSE todo[v]
  BY <1>1 DEF ReturnWith, BadgeInv, TypeInv, TypeOK
<1>3. CASE u # t
  BY <1>2, <1>3 DEF Came
<1>4. CASE u = t
  <2>1. todo[t] \in Seq(CallType) /\ todo[t] # <<>> /\ 1 \in 1..Len(todo[t]) /\ c = rest
    BY <1>1, <1>2, <1>4, BusyTask DEF BadgeInv, TypeInv, Idle
  <2>2. ~At(t, "imported")
    BY <2>1 DEF BadgeInv, CountsFit, CountFits, At
  <2>3. CASE rest = Tail(todo[t]) /\ ~At(t, "lookup")
    <3>1. /\ Len(todo[t]) \in Nat \ {0} /\ Len(rest) = Len(todo[t]) - 1
          /\ \A k \in 1..Len(rest) : rest[k] = todo[t][k + 1]
      BY <2>1, <2>3, EmptySeq, HeadTailProperties
    <3>2. i \in 1..Len(rest) /\ i + 1 \in 1..Len(todo[t]) /\ c[i] = todo[t][i + 1]
      BY <2>1, <3>1
    <3>. QED  BY <1>4, <2>3, <3>2 DEF Came
  <2>4. CASE rest = <<>>
    BY <2>1, <2>4, EmptySeq
  <2>5. CASE \E d : rest = <<d>> /\ d.op \in {"clear", "refresh", "status"}
    <3>1. PICK d : rest = <<d>> /\ d.op \in {"clear", "refresh", "status"}
      BY <2>5
    <3>2. c = <<d>> /\ i \in 1..1
      BY <2>1, <3>1
    <3>. QED  BY <3>1, <3>2
  <2>6. CASE Decides(t, rest)
    <3>1. At(t, "lookup")
      BY <2>1, <2>6 DEF Decides, BadgeInv, CountsFit, CountFits, At
    <3>. QED  BY <1>4, <2>1, <2>6, <3>1 DEF Decides, Came
  <2>7. CASE At(t, "lookup")
    <3>1. find_reaction_target(t)
      BY <2>7 DEF Step, At, Writers, record_message_activity, set_chat_last_message_meta, upsert_message, upsert_reaction,
         buffer_pending_reaction, drain_pending_reactions, set_message_status, mark_message_revoked,
         update_message_text, delete_message, refresh_preview, clear_chat, delete_chat, mark_chat,
         upsert_chat_from_history, server_accepts, send_answered, echo_answered, request_answered, find_undecryptable
    <3>2. PICK next : ReturnWith(t, next) /\ Decides(t, next)
      BY <1>1, <3>1, LookupDecides DEF BadgeInv
    <3>3. next = rest
      BY <1>2, <3>2 DEF ReturnWith, BadgeInv, TypeInv, TypeOK
    <3>. QED  BY <2>6, <3>2, <3>3
  <2>. QED  BY <1>1, <2>2, <2>3, <2>4, <2>5, <2>6, <2>7 DEF StepLeaves
<1>. QED  BY <1>3, <1>4

\* Where each message is stays known: it is delivered once.
LEMMA ArrivedStays ==
    ASSUME BadgeInv, NEW t \in Tasks, Step(t)
    PROVE  \A m \in Msgs : /\ arrived[m] = "message" => arrived'[m] = "message"
                           /\ arrived'[m] # "placeholder"
<1>1. arrived \in [Msgs -> {"nothing", "placeholder", "drafted", "message"}] /\ \A m \in Msgs : arrived[m] # "placeholder"
  BY DEF BadgeInv, TypeInv, TypeOK, FreshArrived
<1>2. CASE server_accepts(t)
  BY <1>1, <1>2 DEF server_accepts
<1>3. CASE arrived' = arrived
  BY <1>1, <1>3
<1>. QED  BY <1>2, <1>3 DEF Step, record_message_activity, set_chat_last_message_meta, upsert_message, upsert_reaction,
         buffer_pending_reaction, drain_pending_reactions, set_message_status, mark_message_revoked,
         update_message_text, delete_message, refresh_preview, clear_chat, delete_chat, mark_chat,
         upsert_chat_from_history, send_answered, echo_answered, request_answered,
         find_reaction_target, find_undecryptable, history

LEMMA BadgeIs ==
    ASSUME IsFiniteSet(fresh'), chat' # None, chat'.unread = Cardinality(fresh')
    PROVE  BadgeFits'
BY DEF BadgeFits, UnreadIsExact

\* What a step does to the badge: a counted message is a new one.
LEMMA BadgeStep ==
    ASSUME BadgeInv, NEW t \in Tasks, Step(t)
    PROVE  /\ BadgeFits'
           /\ \A m \in fresh' \cap Msgs : m \in fresh \/ (~Idle(t) /\ Counts(todo[t][1]) /\ m = Msg(t))
<1>1. ASSUME ~Idle(t) PROVE 1 \in 1..Len(todo[t]) /\ CountFits(todo[t][1]) /\ todo[t][1] \in CallType
  BY <1>1, BusyTask DEF BadgeInv, CountsFit, TypeInv
<1>2. /\ IsFiniteSet(fresh) /\ (chat = None => fresh = {}) /\ (chat # None => chat.unread = Cardinality(fresh))
      /\ chat \in Chat \cup {None}
  BY DEF BadgeInv, BadgeFits, UnreadIsExact, TypeInv, TypeOK
<1>3. Cardinality({}) = 0 /\ IsFiniteSet({}) /\ (Cardinality(fresh) = 0 <=> fresh = {}) /\ Cardinality(fresh) \in Nat
  BY <1>2, FS_EmptySet, FS_CardinalityType
<1>4. CASE record_message_activity(t) /\ Msg(t) # None
  <2>1. ~Idle(t) /\ Msg(t) \in Msgs /\ Arg(t) \in Texts /\ todo[t][1].op \in {"activity", "refresh"}
    BY <1>4, HeadCall, CallArguments DEF record_message_activity, BadgeInv, TypeInv, Msg, Arg
  <2>2. PICK row \in Chat : row = IF chat = None THEN DeferredChat ELSE chat
    BY ChatRowTyped DEF BadgeInv, TypeInv
  <2>3. row.unread = Cardinality(fresh)
    BY <1>2, <1>3, <2>2 DEF DeferredChat
  <2>4. PICK shown \in Preview : shown = [of |-> Msg(t), text |-> Arg(t)]
    BY <2>1 DEF Preview
  <2>5. PICK act \in Nat : act = ActivityAfter(row.activity, Stamp[Msg(t)])
    BY <2>1, ActivityIsNumber, StampsTyped DEF Chat
  <2>6. PICK count \in Nat : count = IF todo[t][1].op = "activity" THEN row.unread + 1 ELSE row.unread
    BY DEF Chat
  <2>7. chat' = [row EXCEPT !.preview = shown, !.activity = act, !.unread = count]
    BY <1>4, <2>2, <2>4, <2>5, <2>6, Zenon DEF record_message_activity, increment_unread
  <2>8. chat' \in Chat /\ chat'.unread = count /\ chat' # None
    <3>1. chat' \in Chat /\ chat'.unread = count
      BY <2>4, <2>5, <2>6, <2>7 DEF Chat
    <3>. QED  BY <3>1, NoneIsNoRow
  <2>9. CASE todo[t][1].op = "activity"
    <3>1. Msg(t) \notin fresh /\ Msg(t) \notin Own
      BY <1>1, <2>1, <2>9 DEF CountFits, Counts, Msg
    <3>2. fresh' = fresh \cup {Msg(t)}
      BY <1>4, <2>9, <3>1 DEF record_message_activity, At
    <3>3. IsFiniteSet(fresh') /\ Cardinality(fresh') = Cardinality(fresh) + 1
      BY <1>2, <3>1, <3>2, FS_AddElement
    <3>4. chat'.unread = Cardinality(fresh')
      BY <2>3, <2>6, <2>8, <2>9, <3>3
    <3>5. BadgeFits'
      BY <2>8, <3>3, <3>4, BadgeIs
    <3>. QED  BY <2>1, <2>9, <3>2, <3>5 DEF Counts
  <2>10. CASE todo[t][1].op = "refresh"
    <3>1. fresh' = fresh
      BY <1>4, <2>1, <2>10 DEF record_message_activity, At
    <3>2. chat'.unread = Cardinality(fresh') /\ IsFiniteSet(fresh')
      BY <1>2, <2>3, <2>6, <2>8, <2>10, <3>1
    <3>3. BadgeFits'
      BY <2>8, <3>2, BadgeIs
    <3>. QED  BY <3>1, <3>3
  <2>. QED  BY <2>1, <2>9, <2>10
<1>5. CASE set_chat_last_message_meta(t)
  <2>1. Msg(t) \in Msgs
    BY <1>5, HeadCall, CallArguments DEF set_chat_last_message_meta, BadgeInv, TypeInv, Msg
  <2>2. PICK row \in Chat : row = IF chat = None THEN DeferredChat ELSE chat
    BY ChatRowTyped DEF BadgeInv, TypeInv
  <2>3. row.unread = Cardinality(fresh)
    BY <1>2, <1>3, <2>2 DEF DeferredChat
  <2>4. chat' = [row EXCEPT !.meta = Msg(t)] /\ fresh' = fresh
    BY <1>5, <2>2 DEF set_chat_last_message_meta, history
  <2>5. chat' \in Chat /\ chat'.unread = row.unread
    BY <2>1, <2>4 DEF Chat
  <2>6. chat' # None
    BY <2>5, NoneIsNoRow
  <2>7. chat'.unread = Cardinality(fresh') /\ IsFiniteSet(fresh')
    BY <1>2, <2>3, <2>4, <2>5
  <2>. QED  BY <2>4, <2>6, <2>7, BadgeIs
<1>6. CASE mark_chat(t)
  <2>1. PICK row \in Chat : row = IF chat = None THEN DeferredChat ELSE chat
    BY ChatRowTyped DEF BadgeInv, TypeInv
  <2>2. row.unread = Cardinality(fresh)
    BY <1>2, <1>3, <2>1 DEF DeferredChat
  <2>3. PICK count \in Nat : count = IF Arg(t) = "read" THEN 0 ELSE IF row.unread = 0 THEN 1 ELSE row.unread
    BY DEF Chat
  <2>4. chat' = [row EXCEPT !.unread = count]
    BY <1>6, <2>1, <2>3, Zenon DEF mark_chat
  <2>5. chat' \in Chat /\ chat'.unread = count
    BY <2>3, <2>4 DEF Chat
  <2>6. chat' # None
    BY <2>5, NoneIsNoRow
  <2>7. fresh' = IF Arg(t) = "read" THEN {} ELSE IF fresh = {} THEN {None} ELSE fresh
    BY <1>6 DEF mark_chat
  <2>8. IsFiniteSet({None}) /\ Cardinality({None}) = 1
    BY FS_Singleton
  <2>9. IsFiniteSet(fresh') /\ Cardinality(fresh') = count
    <3>1. CASE Arg(t) = "read"
      BY <1>3, <2>3, <2>7, <3>1
    <3>2. CASE Arg(t) # "read" /\ fresh = {}
      BY <1>3, <2>2, <2>3, <2>7, <2>8, <3>2
    <3>3. CASE Arg(t) # "read" /\ fresh # {}
      BY <1>2, <1>3, <2>2, <2>3, <2>7, <3>3
    <3>. QED  BY <3>1, <3>2, <3>3
  <2>10. \A m \in fresh' \cap Msgs : m \in fresh
    BY <2>7, MessageLogAssumption
  <2>. QED  BY <2>5, <2>6, <2>9, <2>10 DEF BadgeFits, UnreadIsExact
<1>7. CASE clear_chat(t) /\ chat # None
  <2>1. chat' = [DeferredChat EXCEPT !.activity = chat.activity] /\ fresh' = {}
    BY <1>7 DEF clear_chat
  <2>2. chat' \in Chat /\ chat'.unread = 0
    BY <1>2, <1>7, <2>1, DeferredTyped DEF DeferredChat, Chat
  <2>3. chat' # None
    BY <2>2, NoneIsNoRow
  <2>4. chat'.unread = Cardinality(fresh') /\ IsFiniteSet(fresh')
    BY <1>3, <2>1, <2>2
  <2>. QED  BY <2>1, <2>3, <2>4, BadgeIs
<1>8. CASE delete_chat(t)
  BY <1>3, <1>8 DEF delete_chat, BadgeFits, UnreadIsExact
<1>9. CASE chat' = chat /\ fresh' = fresh
  BY <1>2, <1>9 DEF BadgeFits, UnreadIsExact
<1>10. ~upsert_chat_from_history(t)
  BY <1>1 DEF upsert_chat_from_history, At, CountFits
<1>11. \/ record_message_activity(t) /\ Msg(t) # None
       \/ set_chat_last_message_meta(t) \/ mark_chat(t)
       \/ clear_chat(t) /\ chat # None
       \/ delete_chat(t)
       \/ chat' = chat /\ fresh' = fresh
  BY <1>10 DEF Step, record_message_activity, upsert_message, upsert_reaction,
         buffer_pending_reaction, drain_pending_reactions, set_message_status, mark_message_revoked,
         update_message_text, delete_message, refresh_preview, clear_chat,
         server_accepts, send_answered, echo_answered, request_answered,
         find_reaction_target, find_undecryptable, history, tables
<1>. QED  BY <1>4, <1>5, <1>6, <1>7, <1>8, <1>9, <1>11

LEMMA CountsStep ==
    ASSUME BadgeInv, NEW t \in Tasks, Step(t)
    PROVE  CountsFit' /\ CountsOnce' /\ FreshArrived'
<1>1. CASE server_accepts(t)
  <2>1. todo' = todo /\ fresh' = fresh
    BY <1>1 DEF server_accepts
  <2>2. CountsFit'
    <3> SUFFICES ASSUME NEW u \in Tasks, NEW i \in 1..Len(todo[u]) PROVE CountFits(todo[u][i])'
      BY <2>1 DEF CountsFit
    <3>1. CountFits(todo[u][i])
      BY DEF BadgeInv, CountsFit
    <3>. QED  BY <2>1, <3>1, ArrivedStays DEF CountFits, Counts
  <2>3. CountsOnce'
    BY <2>1 DEF BadgeInv, CountsOnce, Counts
  <2>4. FreshArrived'
    BY <2>1, ArrivedStays DEF BadgeInv, FreshArrived
  <2>. QED  BY <2>2, <2>3, <2>4
<1>2. CASE ~server_accepts(t)
  <2>1. ~Idle(t)
    BY <1>2, StepLeavesRest DEF BadgeInv
  <2>2. 1 \in 1..Len(todo[t]) /\ Msg(t) = todo[t][1].msg /\ Len(todo[t]) \in Nat
    BY <2>1, BusyTask DEF BadgeInv, TypeInv, Msg
  <2>3. ASSUME NEW u \in Tasks, NEW c, c = todo'[u], NEW i \in 1..Len(c), Counts(c[i])
        PROVE  Came(t, u, i) \in 1..Len(todo[u]) /\ c[i] = todo[u][Came(t, u, i)]
    BY <1>2, <2>3, CountsLeft DEF Counts
  <2>4. ASSUME NEW u \in Tasks, NEW c, c = todo'[u], NEW i \in 1..Len(c) PROVE CountFits(c[i])'
    <3>1. c[i].op \notin {"history", "imported", "sighted", "placeholder"}
      BY <1>2, <2>4, CountsLeft DEF BadgeInv, CountsFit, CountFits
    <3>2. ASSUME Counts(c[i])
          PROVE  c[i].msg \in Msgs \ (Own \cup fresh') /\ arrived'[c[i].msg] = "message"
      <4>1. Came(t, u, i) \in 1..Len(todo[u]) /\ c[i] = todo[u][Came(t, u, i)]
        BY <2>3, <2>4, <3>2
      <4>2. CountFits(c[i])
        BY <4>1 DEF BadgeInv, CountsFit
      <4>3. c[i].msg \in Msgs \ (Own \cup fresh) /\ arrived'[c[i].msg] = "message"
        BY <3>2, <4>2, ArrivedStays DEF CountFits
      <4>4. ~(Counts(todo[t][1]) /\ c[i].msg = Msg(t))
        <5> SUFFICES ASSUME Counts(todo[t][1]), c[i].msg = Msg(t) PROVE FALSE
          OBVIOUS
        <5>1. u = t /\ Came(t, u, i) = 1
          BY <2>2, <3>2, <4>1 DEF BadgeInv, CountsOnce
        <5>2. ~At(t, "lookup")
          BY DEF At, Counts
        <5>3. i + 1 = 1
          BY <5>1, <5>2 DEF Came
        <5>. QED  BY <5>3
      <4>. QED  BY <4>3, <4>4, BadgeStep
    <3>. QED  BY <3>1, <3>2 DEF CountFits, Counts
  <2>5. CountsFit'
    <3> SUFFICES ASSUME NEW u \in Tasks, NEW i \in 1..Len(todo'[u]) PROVE CountFits(todo[u][i])'
      BY DEF CountsFit
    <3>1. PICK c : c = todo'[u]
      OBVIOUS
    <3>. QED  BY <2>4, <3>1 DEF CountFits, Counts
  <2>6. CountsOnce'
    <3> SUFFICES ASSUME NEW u \in Tasks, NEW v \in Tasks, NEW i \in 1..Len(todo'[u]), NEW k \in 1..Len(todo'[v]),
                        Counts(todo'[u][i]), Counts(todo'[v][k]), todo'[u][i].msg = todo'[v][k].msg
                 PROVE  u = v /\ i = k
      BY DEF CountsOnce, Counts
    <3>1. /\ Came(t, u, i) \in 1..Len(todo[u]) /\ todo'[u][i] = todo[u][Came(t, u, i)]
          /\ Came(t, v, k) \in 1..Len(todo[v]) /\ todo'[v][k] = todo[v][Came(t, v, k)]
      BY <2>3
    <3>2. u = v /\ Came(t, u, i) = Came(t, v, k)
      BY <3>1, SMTT(30) DEF BadgeInv, CountsOnce
    <3>. QED  BY <3>2 DEF Came
  <2>7. FreshArrived'
    <3> SUFFICES ASSUME NEW m \in Msgs PROVE arrived'[m] # "placeholder" /\ (m \in fresh' => arrived'[m] = "message")
      BY DEF FreshArrived
    <3>1. arrived'[m] # "placeholder"
      BY ArrivedStays
    <3>2. CASE m \in fresh
      BY <3>1, <3>2, ArrivedStays DEF BadgeInv, FreshArrived
    <3>3. CASE Counts(todo[t][1]) /\ m = Msg(t)
      <4>1. arrived[m] = "message"
        BY <2>2, <3>3 DEF BadgeInv, CountsFit, CountFits
      <4>. QED  BY <3>1, <4>1, ArrivedStays
    <3>. QED  BY <3>1, <3>2, <3>3, BadgeStep
  <2>. QED  BY <2>5, <2>6, <2>7
<1>. QED  BY <1>1, <1>2

\* What a handler without imports starts with: no call that counts, or one, of a
\* message that has arrived just now.
StartsCount(t, calls) ==
    /\ Start(t, calls) /\ fresh' = fresh
    /\ \A i \in 1..Len(calls) : calls[i].op \notin {"history", "imported", "sighted", "placeholder"}
    /\ \A m \in Msgs : /\ arrived[m] = "message" => arrived'[m] = "message"
                       /\ arrived'[m] # "placeholder"
    /\ \A i \in 1..Len(calls) : Counts(calls[i]) =>
          /\ i = 1
          /\ calls[i].msg \in Msgs \ Own
          /\ arrived[calls[i].msg] # "message" /\ arrived'[calls[i].msg] = "message"

LEMMA HandlerCounts ==
    ASSUME NoImports, BadgeInv, NEW t \in Tasks, Handler(t)
    PROVE  \E calls : StartsCount(t, calls)
<1>0. arrived \in [Msgs -> {"nothing", "placeholder", "drafted", "message"}] /\ \A m \in Msgs : arrived[m] # "placeholder"
  BY DEF BadgeInv, TypeInv, TypeOK, FreshArrived
<1>1. CASE handle_inbound_message(t)
  <2>1. PICK m \in Msgs : /\ arrived[m] # "message" /\ Start(t, InboundCalls(m, Bump(m)))
                          /\ arrived' = [arrived EXCEPT ![m] = "message"] /\ fresh' = fresh
    BY <1>1 DEF handle_inbound_message
  <2>2. PICK calls : calls = InboundCalls(m, Bump(m))
    OBVIOUS
  <2>3. \A i \in 1..Len(calls) : calls[i].op \notin {"history", "imported", "sighted", "placeholder"}
    BY <2>2 DEF InboundCalls, Bump, Call
  <2>4. \A i \in 1..Len(calls) : Counts(calls[i]) => i = 1 /\ calls[i].msg = m /\ m \notin Own
    BY <2>2 DEF InboundCalls, Bump, Call, Counts
  <2>. QED  BY <1>0, <2>1, <2>2, <2>3, <2>4 DEF StartsCount
<1>2. CASE send_text(t)
  <2>1. PICK m \in Drafts :
           /\ arrived[m] = "nothing" /\ arrived' = [arrived EXCEPT ![m] = "drafted"] /\ fresh' = fresh
           /\ Start(t, <<Call("meta", m, None), Call("refresh", m, Body), Call("insert", m, OutgoingRow("pending")),
                         Call("sending", m, None)>>)
    BY <1>2 DEF send_text
  <2>2. PICK calls : calls = <<Call("meta", m, None), Call("refresh", m, Body), Call("insert", m, OutgoingRow("pending")),
                         Call("sending", m, None)>>
    OBVIOUS
  <2>3. \A i \in 1..Len(calls) : calls[i].op \notin {"history", "imported", "sighted", "placeholder", "activity"}
    BY <2>2 DEF Call
  <2>. QED  BY <1>0, <2>1, <2>2, <2>3 DEF StartsCount, Counts
<1>4. CASE persist_and_emit(t)
  <2>1. PICK m \in Drafts :
           /\ arrived[m] = "nothing" /\ arrived' = [arrived EXCEPT ![m] = "drafted"] /\ fresh' = fresh
           /\ Start(t, <<Call("echoing", m, None), Call("refresh", m, Body), Call("insert", m, OutgoingRow("sent"))>>)
    BY <1>4 DEF persist_and_emit
  <2>2. PICK calls : calls = <<Call("echoing", m, None), Call("refresh", m, Body), Call("insert", m, OutgoingRow("sent"))>>
    OBVIOUS
  <2>3. \A i \in 1..Len(calls) : calls[i].op \notin {"history", "imported", "sighted", "placeholder", "activity"}
    BY <2>2 DEF Call
  <2>. QED  BY <1>0, <2>1, <2>2, <2>3 DEF StartsCount, Counts
<1>3. CASE \/ handle_delete_for_me(t) \/ edit_message(t) \/ revoke_message(t)
           \/ handle_reaction(t) \/ handle_receipt(t) \/ handle_revoke(t) \/ handle_edit(t) \/ handle_read(t)
           \/ handle_clear_chat(t) \/ handle_delete_chat(t)
  <2>1. PICK calls : /\ Start(t, calls) /\ UNCHANGED history
                     /\ \A i \in 1..Len(calls) : calls[i].op \notin {"history", "imported", "sighted", "placeholder", "activity"}
    <3>1. CASE handle_delete_for_me(t)
      BY <3>1 DEF handle_delete_for_me, Call
    <3>2. CASE edit_message(t) \/ revoke_message(t)
      <4>1. PICK op, m, row : /\ op \in {"edited", "revoked"} /\ UNCHANGED history
                              /\ Start(t, <<Call("request", m, None), Call(op, m, row)>>)
        BY <3>2 DEF edit_message, revoke_message
      <4>2. PICK calls : calls = <<Call("request", m, None), Call(op, m, row)>>
        OBVIOUS
      <4>3. \A i \in 1..Len(calls) : calls[i].op \notin {"history", "imported", "sighted", "placeholder", "activity"}
        BY <4>1, <4>2 DEF Call
      <4>. QED  BY <4>1, <4>2, <4>3
    <3>3. CASE ~handle_delete_for_me(t) /\ ~edit_message(t) /\ ~revoke_message(t)
      <4>1. PICK op, m, x : /\ op \in {"lookup", "status", "tombstone", "text", "mark", "clear", "remove"}
                            /\ UNCHANGED history /\ Start(t, <<Call(op, m, x)>>)
        <5>1. CASE handle_reaction(t)
          BY <5>1 DEF handle_reaction
        <5>2. CASE handle_receipt(t) \/ handle_revoke(t) \/ handle_edit(t)
          BY <5>2 DEF handle_receipt, handle_revoke, handle_edit
        <5>3. CASE handle_read(t) \/ handle_clear_chat(t) \/ handle_delete_chat(t)
          BY <5>3 DEF handle_read, handle_clear_chat, handle_delete_chat
        <5>. QED  BY <1>3, <3>3, <5>1, <5>2, <5>3
      <4>2. PICK calls : calls = <<Call(op, m, x)>>
        OBVIOUS
      <4>3. \A i \in 1..Len(calls) : calls[i].op \notin {"history", "imported", "sighted", "placeholder", "activity"}
        BY <4>1, <4>2 DEF Call
      <4>. QED  BY <4>1, <4>2, <4>3
    <3>. QED  BY <1>3, <3>1, <3>2, <3>3
  <2>. QED  BY <1>0, <2>1 DEF StartsCount, Counts, history
<1>. QED  BY <1>1, <1>2, <1>3, <1>4 DEF Handler, NoImports

LEMMA CountsHandler ==
    ASSUME NoImports, BadgeInv, NEW t \in Tasks, Handler(t)
    PROVE  CountsFit' /\ CountsOnce' /\ BadgeFits' /\ FreshArrived'
<1>1. PICK calls : StartsCount(t, calls)
  BY HandlerCounts
<1>2. /\ todo[t] = <<>> /\ chat' = chat /\ fresh' = fresh
      /\ \A u \in Tasks : todo'[u] = IF u = t THEN calls ELSE todo[u]
  BY <1>1 DEF StartsCount, Start, Idle, tables, BadgeInv, TypeInv, TypeOK
<1>3. BadgeFits'
  BY <1>2 DEF BadgeInv, BadgeFits, UnreadIsExact
<1>4. FreshArrived'
  BY <1>1, <1>2 DEF StartsCount, BadgeInv, FreshArrived
<1>5. ASSUME NEW u \in Tasks, NEW c, c = todo'[u], NEW i \in 1..Len(c) PROVE CountFits(c[i])'
  <2>1. CASE u = t
    <3>1. c = calls
      BY <1>2, <1>5, <2>1
    <3>2. Counts(c[i]) => c[i].msg \notin fresh
      BY <1>1, <3>1 DEF StartsCount, BadgeInv, FreshArrived
    <3>. QED  BY <1>1, <1>2, <3>1, <3>2 DEF StartsCount, CountFits, Counts
  <2>2. CASE u # t
    <3>1. c = todo[u]
      BY <1>2, <1>5, <2>2
    <3>2. CountFits(c[i])
      BY <3>1 DEF BadgeInv, CountsFit
    <3>. QED  BY <1>1, <1>2, <3>2 DEF StartsCount, CountFits, Counts
  <2>. QED  BY <2>1, <2>2
<1>6. CountsFit'
  <2> SUFFICES ASSUME NEW u \in Tasks, NEW i \in 1..Len(todo'[u]) PROVE CountFits(todo[u][i])'
    BY DEF CountsFit
  <2>1. PICK c : c = todo'[u]
    OBVIOUS
  <2>. QED  BY <1>5, <2>1 DEF CountFits, Counts
<1>7. CountsOnce'
  <2> SUFFICES ASSUME NEW u \in Tasks, NEW v \in Tasks, NEW i \in 1..Len(todo'[u]), NEW k \in 1..Len(todo'[v]),
                      Counts(todo'[u][i]), Counts(todo'[v][k]), todo'[u][i].msg = todo'[v][k].msg
               PROVE  u = v /\ i = k
    BY DEF CountsOnce, Counts
  <2>1. ASSUME NEW x \in Tasks, NEW j \in 1..Len(todo'[x]), Counts(todo'[x][j])
        PROVE  IF x = t THEN j = 1 /\ arrived[todo'[x][j].msg] # "message"
               ELSE j \in 1..Len(todo[x]) /\ todo'[x][j] = todo[x][j] /\ arrived[todo[x][j].msg] = "message"
    BY <1>1, <1>2, <2>1 DEF StartsCount, BadgeInv, CountsFit, CountFits
  <2>2. CASE u = t /\ v = t
    BY <2>1, <2>2
  <2>3. CASE u # t /\ v # t
    <3>1. /\ i \in 1..Len(todo[u]) /\ todo'[u][i] = todo[u][i]
          /\ k \in 1..Len(todo[v]) /\ todo'[v][k] = todo[v][k]
      BY <2>1, <2>3
    <3>. QED  BY <3>1 DEF BadgeInv, CountsOnce
  <2>4. CASE u = t /\ v # t
    <3>1. arrived[todo'[u][i].msg] # "message"
      BY <2>1, <2>4
    <3>2. arrived[todo'[v][k].msg] = "message"
      BY <2>1, <2>4
    <3>. QED  BY <3>1, <3>2
  <2>5. CASE u # t /\ v = t
    <3>1. arrived[todo'[v][k].msg] # "message"
      BY <2>1, <2>5
    <3>2. arrived[todo'[u][i].msg] = "message"
      BY <2>1, <2>5
    <3>. QED  BY <3>1, <3>2
  <2>. QED  BY <2>2, <2>3, <2>4, <2>5
<1>. QED  BY <1>3, <1>4, <1>6, <1>7

\* The unread counter stands for distinct messages of others, each counted once,
\* when no history is imported (its counter replaces the local one) and no
\* message arrives undecryptable first (it is counted again when it decrypts).
THEOREM UnreadHolds ==
    ASSUME NoImports
    PROVE  Spec => []UnreadIsExact
<1>1. Init => BadgeInv
  <2> SUFFICES ASSUME Init PROVE BadgeInv
    OBVIOUS
  <2>1. CountsFit /\ CountsOnce
    BY EmptySeq DEF Init, CountsFit, CountsOnce
  <2>2. BadgeFits
    BY FS_EmptySet DEF Init, BadgeFits, UnreadIsExact
  <2>3. FreshArrived
    BY DEF Init, FreshArrived
  <2>. QED  BY <2>1, <2>2, <2>3, InitTyped DEF BadgeInv
<1>2. BadgeInv /\ [Next]_vars => BadgeInv'
  <2> SUFFICES ASSUME BadgeInv, [Next]_vars PROVE BadgeInv'
    OBVIOUS
  <2>1. TypeInv'
    BY NextTyped DEF BadgeInv
  <2>2. CASE UNCHANGED vars
    BY <2>1, <2>2 DEF vars, tables, history, BadgeInv, CountsFit, CountFits, Counts, CountsOnce, BadgeFits,
                      UnreadIsExact, FreshArrived
  <2>3. ASSUME NEW t \in Tasks, Step(t) PROVE BadgeInv'
    BY <2>1, <2>3, CountsStep, BadgeStep DEF BadgeInv
  <2>4. ASSUME NEW t \in Tasks, Handler(t) PROVE BadgeInv'
    BY <2>1, <2>4, CountsHandler DEF BadgeInv
  <2>. QED  BY <2>2, <2>3, <2>4 DEF Next
<1>3. BadgeInv => UnreadIsExact
  BY DEF BadgeInv, BadgeFits
<1>. QED  BY <1>1, <1>2, <1>3, PTL DEF Spec

\* The chat's row fits the messages it stands for, its place in the list and its badge
\* together, for edits, revokes, reads and delete-for-me against sends, replies and commands.
THEOREM ChatRowHolds ==
    ASSUME NoDeletes, NoImports
    PROVE  Spec => []ChatRowFits
<1>1. ActivityCovers /\ UnreadIsExact => ChatRowFits
  BY DEF ChatRowFits
<1>. QED  BY <1>1, ActivityHolds, UnreadHolds, PTL
=============================================================================
