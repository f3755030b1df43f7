------------------------------ MODULE MCHistory ------------------------------
(***************************************************************************)
(* The two tasks of HistoryRequests side by side: requests for a name pass *)
(* are all the requests and rows have to do with the passes, and those can *)
(* come at any time (handler_requests).  A behaviour is one of the address *)
(* book, where no pass is begun, or one of the names, where nothing is     *)
(* asked of the phone.                                                     *)
(***************************************************************************)
EXTENDS HistoryRequests

VARIABLE part       \* the task that a behaviour is about

MCInit == Init /\ part \in {"rows", "names"}
MCNext ==
    /\ UNCHANGED part
    /\ Next
    /\ CASE part = "rows" -> UNCHANGED passVars
         [] part = "names" -> UNCHANGED sent

\* That of HistoryRequests, each for the steps its part takes.
MCFairness ==
    /\ WF_vars(Worker) /\ WF_vars(late_backfill \/ late_sweep) /\ WF_vars(grace_passes)
    /\ \A c \in Contacts :
          /\ SF_vars(part = "rows" /\ fetch_message_history /\ Head(queue) = c)
          /\ WF_vars(part = "rows" /\ answer(c))
    /\ part = "names" => WF_vars(notified) /\ SF_vars(run_name_passes) /\ WF_vars(pass_ends)

MCSpec == MCInit /\ [][MCNext]_<<vars, part>> /\ MCFairness

\* Both tasks go on: no empty row and no request for a name pass waits for ever.
TasksGoOn == EmptyRowsGo /\ (part = "names" => RequestsAreSeen)
=============================================================================
