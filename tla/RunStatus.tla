----------------------------- MODULE RunStatus ------------------------------
(***************************************************************************)
(* What a task run looks like to everybody who reads its row: it is queued *)
(* once, may start, and ends once.  A run whose stop was accepted does not *)
(* end as if nobody had asked, and no run stays active for ever.           *)
(***************************************************************************)
EXTENDS Naturals

CONSTANT Runs

VARIABLES
  status,   \* task_runs.status, or "none" before the row exists
  stop      \* a stop request was accepted and the run has not ended yet

statusVars == <<status, stop>>

Active == {"queued", "running"}
Terminal == {"success", "failed", "cancelled", "timeout", "stale"}

Init ==
  /\ status = [r \in Runs |-> "none"]
  /\ stop = [r \in Runs |-> FALSE]

Create(r) ==
  /\ status[r] = "none"
  /\ status' = [status EXCEPT ![r] = "queued"]
  /\ UNCHANGED stop

Start(r) ==
  /\ status[r] = "queued"
  /\ status' = [status EXCEPT ![r] = "running"]
  /\ UNCHANGED stop

AcceptStop(r) ==
  /\ status[r] = "running"
  /\ stop' = [stop EXCEPT ![r] = TRUE]
  /\ UNCHANGED status

\* How a run may end, depending on how far it came and on what was asked of it.
Endings(r) ==
  CASE status[r] = "queued" -> {"failed", "cancelled", "timeout"}
    [] status[r] = "running" /\ ~stop[r] -> Terminal
    [] status[r] = "running" /\ stop[r] -> {"cancelled", "timeout", "stale"}
    [] OTHER -> {}

End(r) ==
  /\ \E s \in Endings(r) : status' = [status EXCEPT ![r] = s]
  /\ stop' = [stop EXCEPT ![r] = FALSE]

Next == \E r \in Runs : Create(r) \/ Start(r) \/ AcceptStop(r) \/ End(r)

Safety == Init /\ [][Next]_statusVars

\* Every run ends, and stays what it ended as.
Ends == \A r \in Runs : status[r] = "queued" ~> [](status[r] \in Terminal)

Spec == Safety /\ Ends

=============================================================================
