-------------------------------- MODULE CallLog --------------------------------
(***************************************************************************)
(* The call history (calls.rs and the call_log table of store.rs): records *)
(* of a history sync, imported one upsert at a time by the history task,   *)
(* live call items of the message handler, and the listing the user        *)
(* interface reads.  Video, link, creator and duration are carried along   *)
(* and left out; a record's position in `participants` is not.             *)
(***************************************************************************)
EXTENDS Integers, Sequences, FiniteSets

CONSTANTS
    Nothing,            \* an absent optional field
    GroupJids,
    CallRecords,        \* the protocol records of history syncs
    CallItems,          \* the call items that arrive as messages
    CallAlias,          \* [from, to]: the two chat ids a contact is linked under
    MaxCallTime         \* bound: seconds the clock runs

VARIABLES
    callRows,       \* the call_log table
    callSeen,       \* the entries that were imported
    callImport,     \* the history import under way: entries left and its `now`
    callLinked,     \* the two ids were linked
    callNow         \* the wall clock

callVars == <<callRows, callSeen, callImport, callLinked, callNow>>

-----------------------------------------------------------------------------
(* From protocol to entry to row and back. *)

CallLogResult == {"connected", "missed", "rejected", "cancelled", "acceptedElsewhere", "failed",
                  "unavailable", "upcoming", "abandoned", "ongoing", "invalid", "unknown"}
CallOutcome == {"missed", "answered", "declined", "failed", "ongoing"}

record_result(value) == IF value \in CallLogResult THEN value ELSE "unknown"

message_outcome(value) ==
    CASE value \in {"silencedByDnd", "silencedUnknownCaller"} -> "missed"
      [] value \in {"connected", "missed", "failed", "rejected", "acceptedElsewhere", "ongoing"} -> value
      [] OTHER -> "unknown"

from_result(result) ==
    CASE result \in {"connected", "acceptedElsewhere"} -> "answered"
      [] result = "rejected" -> "declined"
      [] result \in {"failed", "invalid"} -> "failed"
      [] result \in {"ongoing", "upcoming"} -> "ongoing"
      [] OTHER -> "missed"

DeclinedAsMissed(outcome) == IF outcome = "answered" THEN "connected" ELSE "missed"     \* mutant
to_result(outcome) ==
    CASE outcome = "answered" -> "connected"
      [] outcome = "declined" -> "rejected"
      [] OTHER -> outcome

call_log_entry_from_record(r) ==
    [id |-> r.id, participants |-> r.participants, group |-> r.group, incoming |-> r.incoming,
     result |-> record_result(r.result), start |-> r.start]

call_log_entry_from_message_with_direction(m) ==
    [id |-> Nothing, participants |-> m.participants, group |-> Nothing,
     incoming |-> IF m.from_me THEN "no" ELSE "yes",
     result |-> message_outcome(m.outcome), start |-> m.time]

\* mutant: the key of a record without a start holds the time of its import
KeyByImport(e) == <<e.incoming, e.result, IF e.start = Nothing THEN callNow ELSE e.start, e.group, e.participants>>
\* Injective, like the tagged bytes the code hashes.
record_key(e) == <<e.incoming, e.result, e.start, e.group, e.participants>>

\* started_at 0 stands for a start that was not reported; a negative one is clamped to it.
record_from_entry(e) ==
    [id |-> IF e.id # Nothing THEN e.id ELSE record_key(e),
     chat |-> IF e.group # Nothing THEN e.group
              ELSE IF e.participants # <<>> THEN Head(e.participants) ELSE Nothing,
     from_me |-> e.incoming = "no",
     outcome |-> from_result(e.result),
     started_at |-> IF e.start # Nothing /\ e.start > 0 THEN e.start ELSE 0]

entry_from_record(row) ==
    [id |-> row.id,
     participants |-> IF row.chat \in GroupJids \cup {Nothing} THEN <<>> ELSE <<row.chat>>,
     group |-> IF row.chat \in GroupJids THEN row.chat ELSE Nothing,
     incoming |-> IF row.from_me THEN "no" ELSE "yes",
     result |-> to_result(row.outcome),
     start |-> row.started_at]

CallEntries ==
    {call_log_entry_from_record(r) : r \in CallRecords}
        \cup {call_log_entry_from_message_with_direction(m) : m \in CallItems}

ASSUME CallAssumption ==
    /\ Nothing \notin GroupJids \cup Int
    /\ \A e \in CallEntries : record_key(e) # Nothing /\ e.start \in Int \cup {Nothing}

-----------------------------------------------------------------------------
NoImport == [left |-> <<>>, now |-> 0]

CallInit ==
    /\ callRows = {}
    /\ callSeen = {}
    /\ callImport = NoImport
    /\ callLinked = FALSE
    /\ callNow = 1

upsert_call_log(row) == callRows' = {r \in callRows : r.id # row.id} \cup {row}

\* mutant: every row gets the time of the import
import_one_now(e, now) ==
    /\ upsert_call_log([record_from_entry(e) EXCEPT !.started_at = now])
    /\ callSeen' = callSeen \cup {e}
\* One entry of import_call_log_into: a row without a start gets the time of the import.
import_one(e, now) ==
    LET row == record_from_entry(e)
    IN  /\ upsert_call_log(IF row.started_at = 0 THEN [row EXCEPT !.started_at = now] ELSE row)
        /\ callSeen' = callSeen \cup {e}

\* The records of a history chunk; the same ones may come again.
import_history(records) ==
    /\ callImport.left = <<>>
    /\ callImport' = [left |-> [i \in 1..Len(records) |-> call_log_entry_from_record(records[i])],
                      now |-> callNow]
    /\ UNCHANGED <<callRows, callSeen, callLinked, callNow>>

import_next ==
    /\ callImport.left # <<>>
    /\ import_one(Head(callImport.left), callImport.now)
    /\ callImport' = [callImport EXCEPT !.left = Tail(@)]
    /\ UNCHANGED <<callLinked, callNow>>

\* An upsert fails: the rest of the chunk is dropped.
import_fails ==
    /\ callImport.left # <<>>
    /\ callImport' = NoImport
    /\ UNCHANGED <<callRows, callSeen, callLinked, callNow>>

\* handle_inbound_message, for a message that carries a call item.
import_live(m) ==
    /\ import_one(call_log_entry_from_message_with_direction(m), callNow)
    /\ UNCHANGED <<callImport, callLinked, callNow>>

\* The call_log statement of link_chats: the rows of one id move to the other.
link_call_log ==
    /\ callLinked' = TRUE
    /\ callRows' = {[r EXCEPT !.chat = IF @ = CallAlias.from THEN CallAlias.to ELSE @] : r \in callRows}
    /\ UNCHANGED <<callSeen, callImport, callNow>>

call_tick ==
    /\ callNow < MaxCallTime
    /\ callNow' = callNow + 1
    /\ UNCHANGED <<callRows, callSeen, callImport, callLinked>>

CallNext ==
    \/ \E r, s \in CallRecords : import_history(<<r, s>>)
    \/ import_next \/ import_fails
    \/ \E m \in CallItems : import_live(m)
    \/ link_call_log \/ call_tick

CallSpec == CallInit /\ [][CallNext]_callVars

-----------------------------------------------------------------------------
\* Records merge: whatever is imported again, in any chunk and at any time, an entry
\* without an id still has its one row, because the time of the import is not in its key.
RecordsMerge ==
    /\ \A r, s \in callRows : r.id = s.id => r = s
    /\ Cardinality(callRows) <= Cardinality(callSeen)

\* A row tells what some imported entry of its id told; its chat may have moved in a
\* link, and only a row whose entry had no start carries the time of an import.
RowsTellTheirEntry ==
    \A r \in callRows : \E e \in callSeen :
       LET told == record_from_entry(e) IN
       /\ told.id = r.id
       /\ told.outcome = r.outcome /\ told.from_me = r.from_me
       /\ r.chat \in {told.chat} \cup (IF callLinked /\ told.chat = CallAlias.from THEN {CallAlias.to} ELSE {})
       /\ IF told.started_at > 0 THEN r.started_at = told.started_at ELSE r.started_at \in 1..callNow

\* What the listing hands out is a fixpoint: importing a listed entry gives back its row.
ListingReimports ==
    \A r \in callRows :
       /\ entry_from_record(r).result \in CallLogResult
       /\ record_from_entry(entry_from_record(r)) = r

\* A link keeps the calls of a contact in one place: no row stays behind under the old id.
CallsOfOneChat == callLinked => \A r \in callRows : r.chat # CallAlias.from

\* However often and in whatever order history and live items tell of a call, the log keeps
\* one row for it that tells what they told, and that can be imported again.
ImportsSettle == RecordsMerge /\ RowsTellTheirEntry /\ ListingReimports
=============================================================================
