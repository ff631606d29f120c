------------------------------ MODULE Dispatch ------------------------------
(***************************************************************************)
(* What the process-level queue promises the rest of the backend, without  *)
(* its semaphores, dispatchers and asyncio tasks: a submitted run is       *)
(* executed at most once, at most MaxExecuting runs execute together, a    *)
(* run is dropped without executing only after somebody asked for it to    *)
(* stop, and every submitted run leaves the queue in the end.              *)
(***************************************************************************)
EXTENDS Naturals, FiniteSets

CONSTANTS
  Runs,           \* identifiers of task runs
  MaxExecuting    \* the process-wide concurrency guard

VARIABLES
  stage,          \* where each run is: idle, queued, executing or over
  stopRequested   \* runs somebody asked to stop

dispatchVars == <<stage, stopRequested>>

Stages == {"idle", "queued", "executing", "over"}

Executing == {r \in Runs : stage[r] = "executing"}

Init ==
  /\ stage = [r \in Runs |-> "idle"]
  /\ stopRequested = [r \in Runs |-> FALSE]

Submit(r) ==
  /\ stage[r] = "idle"
  /\ stage' = [stage EXCEPT ![r] = "queued"]
  /\ UNCHANGED stopRequested

\* Slots freed by one run may start others only later, so one run moves at a time.
Execute(r) ==
  /\ stage[r] = "queued"
  /\ ~stopRequested[r]
  /\ Cardinality(Executing) < MaxExecuting
  /\ stage' = [stage EXCEPT ![r] = "executing"]
  /\ UNCHANGED stopRequested

Complete(r) ==
  /\ stage[r] = "executing"
  /\ stage' = [stage EXCEPT ![r] = "over"]
  /\ UNCHANGED stopRequested

Drop(r) ==
  /\ stage[r] = "queued"
  /\ stopRequested[r]
  /\ stage' = [stage EXCEPT ![r] = "over"]
  /\ UNCHANGED stopRequested

\* A shutdown asks every run it knows of to stop, a stop button one of them.
RequestStop ==
  \E S \in SUBSET {r \in Runs : stage[r] # "idle"} :
    /\ stopRequested' = [r \in Runs |-> stopRequested[r] \/ r \in S]
    /\ UNCHANGED stage

Next ==
  \/ RequestStop
  \/ \E r \in Runs : Submit(r) \/ Execute(r) \/ Complete(r) \/ Drop(r)

Safety == Init /\ [][Next]_dispatchVars

\* Every run that was submitted is over in the end, whatever is asked of it.
Settles == \A r \in Runs : stage[r] = "queued" ~> stage[r] = "over"

Spec == Safety /\ Settles

=============================================================================
