------------------------- MODULE RunLifecycleProofs -------------------------
(***************************************************************************)
(* Proofs about the life of chat runs.                                     *)
(*                                                                         *)
(* The first part holds for any runs, whoever stops them.  What it adds to *)
(* the properties is where a run is: how far its row can be while it is    *)
(* with the socket handler, in the queue or in the executor, and what the  *)
(* copies of the row that are around (the executor's, the watchdog's, that *)
(* of the thread of a stop) still say about the row itself.                *)
(*                                                                         *)
(* The second part, which holds for any runs too, says who knows that a    *)
(* row has ended: two ends of a run conflict only if one of them is that   *)
(* of a stop over HTTP.                                                    *)
(*                                                                         *)
(* The third part supposes that stops come over the socket only.  Then     *)
(* everybody who writes the row is a block of the event loop, the copies   *)
(* are exact, and the rows implement RunStatus.                            *)
(***************************************************************************)
EXTENDS RunLifecycle, TLAPS

-----------------------------------------------------------------------------
\* The inductive invariant, of each run by itself.

\* The executor has asked the Gateway, and is not done.
Asking == {"streaming", "answering", "failing", "unwinding"}

\* A run begins with its row, and nothing can refer to a run without one.
BornWithRow(r) ==
  /\ pc[r] = "none" <=> status[r] = "none"
  /\ pc[r] = "none" => http[r] = "idle" /\ scan[r] = NoRow
  /\ pc[r] \in {"none", "created"} => ~event[r] /\ ~cancelReq[r]

\* The row is not running before the executor has marked it, and no thread has
\* seen it running.
RunningIsMarked(r) ==
  status[r] = "running" \/ http[r] = "sawRunning" =>
    pc[r] \in Asking \cup {"telling", "done", "lost"}

\* Whoever signals a run that waits in the queue has ended its row before; the
\* shutdown of the queue has not.
StopEndsQueued(r) ==
  /\ http[r] \in {"committed", "set"} /\ pc[r] \in {"created", "queued"} => status[r] \in Terminal
  /\ pc[r] = "queued" /\ (event[r] \/ cancelReq[r]) => status[r] \in Terminal \/ phase = "stopping"

\* A copy of the row that has ended is right about that, and the copies with which
\* a run is started or ended by the watchdog are of a row that had not ended.
CopiesAreOld(r) ==
  /\ pc[r] = "starting" => cache[r].status \notin Terminal
  /\ pc[r] \in Asking /\ cache[r].status \in Terminal => status[r] \in Terminal
  /\ scan[r] # NoRow => scan[r].status \in Active

\* The answer is saved before the executor marks the success.  It then only tells it,
\* and what can still change the message is its deadline, which ends it.
SuccessIsConcluded(r) ==
  /\ pc[r] = "answering" => message[r] = "success" \/ deleted
  /\ status[r] = "success" =>
       /\ pc[r] \in {"telling", "done", "lost"}
       /\ \/ message[r] = "success"
          \/ message[r] = "timeout" /\ pc[r] \in {"done", "lost"}
          \/ deleted

\* The row has ended before its end is told.
Settled(r) ==
  /\ pc[r] = "telling" => status[r] \in Terminal
  /\ pc[r] = "done" => status[r] \in Terminal \/ deleted \/ phase = "stopping"

NoOrphan(r) ==
  status[r] \in Terminal /\ pc[r] = "streaming" =>
    event[r] \/ cancelReq[r] \/ http[r] \in {"committed", "set"}

RunInv(r) ==
  /\ BornWithRow(r) /\ RunningIsMarked(r) /\ StopEndsQueued(r) /\ CopiesAreOld(r)
  /\ SuccessIsConcluded(r) /\ Settled(r) /\ NoOrphan(r)

\* A process that shuts down has a restart left.
RestartLeft == phase = "stopping" => restarts < MaxRestarts

LifecycleInv == TypeOK /\ RestartLeft /\ \A r \in Runs : RunInv(r)

-----------------------------------------------------------------------------
\* Stops over the socket only.

\* Who writes the row writes what it has read: in a block of the loop the executor's
\* copy and the watchdog's are the row, and so is the copy of a stream that nobody
\* has signalled.
CopiesAreExact(r) ==
  /\ pc[r] \in MidBlock => cache[r] = RowOf(r) /\ scan[r] = NoRow
  /\ scan[r] # NoRow => scan[r] = RowOf(r)
  /\ pc[r] = "streaming" /\ ~cancelReq[r] => cache[r] = RowOf(r)

\* The row is where the executor is.
RowFollows(r) ==
  /\ pc[r] = "starting" => status[r] = "queued"
  /\ pc[r] \in Asking => status[r] # "queued"

\* A stop that was accepted has reached the task, and keeps it from concluding.
StopReachesTask(r) ==
  cancelRequested[r] =>
    /\ status[r] = "running"
    /\ pc[r] \notin {"answering", "failing"}
    /\ pc[r] = "streaming" => cancelReq[r]

SocketRun(r) == http[r] = "idle" /\ CopiesAreExact(r) /\ RowFollows(r) /\ StopReachesTask(r)

SocketInv == \A r \in Runs : SocketRun(r)

-----------------------------------------------------------------------------
\* What the helpers do to the row.

\* Mark ends the row with the given status unless the copy says that it has ended;
\* it withdraws the request that the copy holds.
LEMMA MarkEffect ==
  ASSUME TypeOK, NEW r \in Runs, NEW s \in Statuses, NEW seen \in Row, Mark(r, s, seen)
  PROVE  /\ status' \in [Runs -> Statuses] /\ cancelRequested' \in [Runs -> BOOLEAN]
         /\ \A q \in Runs \ {r} :
               status'[q] = status[q] /\ cancelRequested'[q] = cancelRequested[q]
         /\ seen.status \in Terminal =>
              status'[r] = status[r] /\ cancelRequested'[r] = cancelRequested[r]
         /\ seen.status \notin Terminal =>
              status'[r] = s /\ (cancelRequested'[r] <=> cancelRequested[r] /\ ~seen.flag)
<1>1. CASE seen.status \in Terminal
  BY <1>1 DEF Mark, rowVars, TypeOK
<1>2. CASE seen.status \notin Terminal
  <2>1. /\ status' = [status EXCEPT ![r] = s]
        /\ cancelRequested' = [cancelRequested EXCEPT ![r] = cancelRequested[r] /\ ~seen.flag]
    BY <1>2 DEF Mark
  <2>2. (cancelRequested[r] /\ ~seen.flag) \in BOOLEAN
    OBVIOUS
  <2> QED BY <1>2, <2>1, <2>2 DEF TypeOK
<1> QED BY <1>1, <1>2

\* A request cancels a row that was queued, and is written on one that was running.
LEMMA RequestCancelEffect ==
  ASSUME TypeOK, NEW r \in Runs, NEW seen \in Statuses, RequestCancel(r, seen)
  PROVE  /\ status' \in [Runs -> Statuses] /\ cancelRequested' \in [Runs -> BOOLEAN]
         /\ \A q \in Runs \ {r} :
               status'[q] = status[q] /\ cancelRequested'[q] = cancelRequested[q]
         /\ seen = "queued" => status'[r] = "cancelled" /\ cancelRequested'[r] = cancelRequested[r]
         /\ seen = "running" => status'[r] = status[r] /\ cancelRequested'[r] = TRUE
         /\ seen \notin Active =>
              status'[r] = status[r] /\ cancelRequested'[r] = cancelRequested[r]
<1> DEFINE old == [status |-> "queued", flag |-> FALSE]
<1>1. CASE seen = "queued"
  <2>1. Mark(r, "cancelled", old)
    BY <1>1 DEF RequestCancel
  <2>2. old \in Row /\ old.status = "queued" /\ old.flag = FALSE
    BY DEF Row, Statuses, Active
  <2>3. "cancelled" \in Statuses /\ "queued" \notin Terminal
    BY DEF Statuses, Terminal
  <2> HIDE DEF old
  <2>4. /\ status' \in [Runs -> Statuses] /\ cancelRequested' \in [Runs -> BOOLEAN]
        /\ \A q \in Runs \ {r} :
               status'[q] = status[q] /\ cancelRequested'[q] = cancelRequested[q]
        /\ status'[r] = "cancelled" /\ (cancelRequested'[r] <=> cancelRequested[r])
    BY <2>1, <2>2, <2>3, MarkEffect
  <2>5. cancelRequested'[r] = cancelRequested[r]
    BY <2>4 DEF TypeOK
  <2> QED BY <1>1, <2>4, <2>5 DEF Active
<1>2. CASE seen = "running"
  BY <1>2 DEF RequestCancel, TypeOK, Active
<1>3. CASE seen \notin Active
  BY <1>3 DEF RequestCancel, TypeOK, Active, rowVars
<1> QED BY <1>1, <1>2, <1>3 DEF Active

\* Every row is one.
LEMMA RowOfType ==
  ASSUME TypeOK, NEW r \in Runs
  PROVE  RowOf(r) \in Row /\ RowOf(r).status = status[r] /\ RowOf(r).flag = cancelRequested[r]
<1> QED BY DEF TypeOK, RowOf, Row

\* What Signal does to the signals of the run, and to no other.
LEMMA SignalEffect ==
  ASSUME TypeOK, NEW r \in Runs, Signal(r)
  PROVE  /\ event' \in [Runs -> BOOLEAN] /\ cancelReq' \in [Runs -> BOOLEAN]
         /\ \A q \in Runs \ {r} : event'[q] = event[q] /\ cancelReq'[q] = cancelReq[q]
         /\ event'[r] <=> event[r] \/ pc[r] \in HasTask
         /\ cancelReq'[r] <=> cancelReq[r] \/ pc[r] \in HasTask
<1>1. (event[r] \/ pc[r] \in HasTask) \in BOOLEAN /\ (cancelReq[r] \/ pc[r] \in HasTask) \in BOOLEAN
  OBVIOUS
<1> QED BY <1>1 DEF Signal, TypeOK

-----------------------------------------------------------------------------
\* The invariant holds at the start and is kept by every action.

\* Nothing has happened to q.
Same(q) ==
  /\ status'[q] = status[q] /\ cancelRequested'[q] = cancelRequested[q] /\ message'[q] = message[q]
  /\ pc'[q] = pc[q] /\ cache'[q] = cache[q]
  /\ event'[q] = event[q] /\ cancelReq'[q] = cancelReq[q]
  /\ http'[q] = http[q] /\ scan'[q] = scan[q]

\* An action of one run leaves the others and the process as they are.
ActsOn(r) ==
  /\ TypeOK' /\ \A q \in Runs \ {r} : Same(q)
  /\ UNCHANGED <<deleted, phase, restarts>>

\* An action of one run keeps the invariant if it keeps that of the run.
LEMMA FrameInv ==
  ASSUME LifecycleInv, NEW r \in Runs, ActsOn(r), RunInv(r)'
  PROVE  LifecycleInv'
<1> SUFFICES ASSUME NEW q \in Runs \ {r} PROVE RunInv(q)'
  BY DEF LifecycleInv, ActsOn, RestartLeft
<1> QED BY DEF LifecycleInv, ActsOn, Same, RunInv, BornWithRow, RunningIsMarked, StopEndsQueued,
          CopiesAreOld, SuccessIsConcluded, Settled, NoOrphan

\* No run exists at the start.
LEMMA InitLifecycleInv == Init => LifecycleInv
<1> SUFFICES ASSUME Init PROVE LifecycleInv
  OBVIOUS
<1>1. TypeOK
  <2>1. restarts \in 0..MaxRestarts
    BY RunLifecycleAssumption DEF Init
  <2>2. NoRow \in Row
    BY DEF NoRow, Row, Statuses
  <2>3. cache \in [Runs -> Row] /\ scan \in [Runs -> Row]
    BY <2>2 DEF Init
  <2> QED BY <2>1, <2>3 DEF Init, TypeOK, Statuses
<1>2. ASSUME NEW r \in Runs PROVE RunInv(r)
  BY DEF Init, RunInv, BornWithRow, RunningIsMarked, StopEndsQueued, CopiesAreOld,
         SuccessIsConcluded, Settled, NoOrphan, Asking, Terminal
<1>3. RestartLeft
  BY DEF Init, RestartLeft
<1> QED BY <1>1, <1>2, <1>3 DEF LifecycleInv

\* The row is created, and the run is handed to the queue or abandoned.
LEMMA HandlerLifecycleInv ==
  ASSUME LifecycleInv, NEW r \in Runs, Submit(r) \/ Handler(r)
  PROVE  ActsOn(r) /\ RunInv(r)'
<1> USE DEF LifecycleInv, TypeOK, dbVars, rowVars, signalVars, processVars, HasTask, MidBlock,
            Statuses, Active, Terminal, GoTo
<1>1. CASE Submit(r)
  <2>1. ActsOn(r)
    BY <1>1 DEF Submit, ActsOn, Same
  <2>2. RunInv(r)'
    BY <1>1 DEF Submit, RunInv, BornWithRow, RunningIsMarked, StopEndsQueued, CopiesAreOld,
         SuccessIsConcluded, Settled, NoOrphan, Asking
  <2> QED BY <2>1, <2>2
<1>2. CASE Enqueue(r)
  <2>1. ActsOn(r)
    BY <1>2 DEF Enqueue, ActsOn, Same
  <2>2. RunInv(r)'
    BY <1>2 DEF Enqueue, RunInv, BornWithRow, RunningIsMarked, StopEndsQueued, CopiesAreOld,
         SuccessIsConcluded, Settled, NoOrphan, Asking
  <2> QED BY <2>1, <2>2
<1>3. CASE Abandon(r)
  <2>1. ActsOn(r)
    BY <1>3 DEF Abandon, ActsOn, Same
  <2>2. RunInv(r)'
    BY <1>3 DEF Abandon, RunInv, BornWithRow, RunningIsMarked, StopEndsQueued, CopiesAreOld,
         SuccessIsConcluded, Settled, NoOrphan, Asking
  <2> QED BY <2>1, <2>2
<1> QED BY <1>1, <1>2, <1>3 DEF Handler

\* The start of the executor.
LEMMA BeginLifecycleInv ==
  ASSUME LifecycleInv, NEW r \in Runs, DropQueued(r) \/ BeginRead(r) \/ BeginWrite(r)
  PROVE  ActsOn(r) /\ RunInv(r)'
<1> USE DEF LifecycleInv, TypeOK, dbVars, rowVars, signalVars, processVars, HasTask, MidBlock,
            Statuses, Active, Terminal, GoTo
<1>1. CASE DropQueued(r)
  <2>1. ActsOn(r)
    BY <1>1 DEF DropQueued, ActsOn, Same
  <2>2. RunInv(r)'
    BY <1>1 DEF DropQueued, RunInv, BornWithRow, RunningIsMarked, StopEndsQueued, CopiesAreOld,
         SuccessIsConcluded, Settled, NoOrphan, Asking
  <2> QED BY <2>1, <2>2
<1>2. CASE BeginRead(r)
  <2>1. ActsOn(r)
    BY <1>2, RowOfType DEF BeginRead, ActsOn, Same
  <2>2. RunInv(r)'
    BY <1>2, RowOfType DEF BeginRead, RunInv, BornWithRow, RunningIsMarked, StopEndsQueued,
         CopiesAreOld, SuccessIsConcluded, Settled, NoOrphan, Asking
  <2> QED BY <2>1, <2>2
<1>3. CASE BeginWrite(r)
  <2>1. cache[r] \in Row /\ cache[r].status \notin Terminal
    BY <1>3 DEF BeginWrite, RunInv, CopiesAreOld
  <2>2. /\ status' \in [Runs -> Statuses] /\ cancelRequested' \in [Runs -> BOOLEAN]
        /\ \A q \in Runs \ {r} :
               status'[q] = status[q] /\ cancelRequested'[q] = cancelRequested[q]
        /\ \/ status'[r] \in {"failed", "cancelled"} /\ pc' = [pc EXCEPT ![r] = "done"]
           \/ status'[r] = "running" /\ pc' = [pc EXCEPT ![r] = "streaming"]
    <3>1. ASSUME NEW s \in {"failed", "cancelled"}, Mark(r, s, cache[r]), GoTo(r, "done")
          PROVE  <2>2
      BY <3>1, <2>1, MarkEffect
    <3>2. ASSUME status' = [status EXCEPT ![r] = "running"], UNCHANGED cancelRequested,
                 GoTo(r, "streaming")
          PROVE  <2>2
      BY <3>2
    <3> QED BY <1>3, <3>1, <3>2 DEF BeginWrite
  <2>3. RowOf(r)' \in Row
    BY <2>2 DEF RowOf, Row
  <2>4. ActsOn(r)
    BY <1>3, <2>2, <2>3 DEF BeginWrite, ActsOn, Same
  <2>5. RunInv(r)'
    BY <1>3, <2>2 DEF BeginWrite, RowOf, RunInv, BornWithRow, RunningIsMarked, StopEndsQueued,
         CopiesAreOld, SuccessIsConcluded, Settled, NoOrphan, Asking
  <2> QED BY <2>4, <2>5
<1> QED BY <1>1, <1>2, <1>3

\* The message of r is written and no other.
WritesMessage(r) ==
  /\ message' \in [Runs -> {"none", "streaming", "success", "failed", "timeout", "cancelled"}]
  /\ \A q \in Runs \ {r} : message'[q] = message[q]

\* An executor that ends its run other than with a success.
LEMMA ConcludeLifecycleInv ==
  ASSUME LifecycleInv, NEW r \in Runs, NEW s \in {"failed", "timeout", "cancelled"},
         pc[r] \in Asking, Mark(r, s, cache[r]), WritesMessage(r),
         NEW where \in {"telling", "done"}, GoTo(r, where),
         UNCHANGED <<deleted, cache, signalVars, http, scan, processVars>>
  PROVE  ActsOn(r) /\ RunInv(r)'
<1> USE DEF LifecycleInv, TypeOK, dbVars, rowVars, signalVars, processVars, HasTask, MidBlock,
            Statuses, Active, Terminal, GoTo
<1>1. cache[r] \in Row /\ s \in Statuses
  OBVIOUS
<1>2. /\ status' \in [Runs -> Statuses] /\ cancelRequested' \in [Runs -> BOOLEAN]
      /\ \A q \in Runs \ {r} :
               status'[q] = status[q] /\ cancelRequested'[q] = cancelRequested[q]
  BY <1>1, MarkEffect
<1>3. status'[r] \in Terminal \ {"success"}
  <2>1. status[r] # "success"
    BY DEF RunInv, SuccessIsConcluded, Asking
  <2>2. cache[r].status \in Terminal => status'[r] = status[r] /\ status[r] \in Terminal
    BY <1>1, MarkEffect DEF RunInv, CopiesAreOld
  <2>3. cache[r].status \notin Terminal => status'[r] = s
    BY <1>1, MarkEffect
  <2> QED BY <2>1, <2>2, <2>3
<1>4. ActsOn(r)
  BY <1>2 DEF ActsOn, Same, WritesMessage
<1>5. RunInv(r)'
  BY <1>2, <1>3 DEF RunInv, BornWithRow, RunningIsMarked, StopEndsQueued,
         CopiesAreOld, SuccessIsConcluded, Settled, NoOrphan, Asking
<1> QED BY <1>4, <1>5

\* The stream, as long as it does not conclude.
LEMMA StreamLifecycleInv ==
  ASSUME LifecycleInv, NEW r \in Runs,
         Heartbeat(r) \/ Persist(r) \/ SeeTerminal(r) \/ Answer(r) \/ Break(r)
           \/ GatewayCancels(r) \/ StopSeen(r)
  PROVE  ActsOn(r) /\ RunInv(r)'
<1> USE DEF LifecycleInv, TypeOK, dbVars, rowVars, signalVars, processVars, HasTask, MidBlock,
            Statuses, Active, Terminal, GoTo
<1>1. CASE Heartbeat(r)
  <2>1. ActsOn(r)
    BY <1>1, RowOfType DEF Heartbeat, Streams, Upsert, CancelledErrorRaised, ActsOn, Same
  <2>2. RunInv(r)'
    BY <1>1, RowOfType DEF Heartbeat, Streams, Upsert, CancelledErrorRaised, RunInv, BornWithRow,
         RunningIsMarked, StopEndsQueued, CopiesAreOld, SuccessIsConcluded, Settled,
         NoOrphan, Asking
  <2> QED BY <2>1, <2>2
<1>2. CASE Persist(r)
  <2>1. ActsOn(r)
    BY <1>2, RowOfType DEF Persist, Streams, Upsert, CancelledErrorRaised, ActsOn, Same
  <2>2. RunInv(r)'
    BY <1>2, RowOfType DEF Persist, Streams, Upsert, CancelledErrorRaised, RunInv, BornWithRow,
         RunningIsMarked, StopEndsQueued, CopiesAreOld, SuccessIsConcluded, Settled,
         NoOrphan, Asking
  <2> QED BY <2>1, <2>2
<1>3. CASE SeeTerminal(r)
  <2>1. ActsOn(r)
    BY <1>3, RowOfType DEF SeeTerminal, Streams, Upsert, CancelledErrorRaised, ActsOn, Same
  <2>2. RunInv(r)'
    BY <1>3, RowOfType DEF SeeTerminal, Streams, Upsert, CancelledErrorRaised, RunInv, BornWithRow,
         RunningIsMarked, StopEndsQueued, CopiesAreOld, SuccessIsConcluded, Settled,
         NoOrphan, Asking
  <2> QED BY <2>1, <2>2
<1>4. CASE Answer(r)
  <2>1. ActsOn(r)
    BY <1>4, RowOfType DEF Answer, Streams, Upsert, CancelledErrorRaised, ActsOn, Same
  <2>2. RunInv(r)'
    BY <1>4, RowOfType DEF Answer, Streams, Upsert, CancelledErrorRaised, RunInv, BornWithRow,
         RunningIsMarked, StopEndsQueued, CopiesAreOld, SuccessIsConcluded, Settled,
         NoOrphan, Asking
  <2> QED BY <2>1, <2>2
<1>5. CASE Break(r)
  <2>1. ActsOn(r)
    BY <1>5, RowOfType DEF Break, Streams, Upsert, CancelledErrorRaised, ActsOn, Same
  <2>2. RunInv(r)'
    BY <1>5, RowOfType DEF Break, Streams, Upsert, CancelledErrorRaised, RunInv, BornWithRow,
         RunningIsMarked, StopEndsQueued, CopiesAreOld, SuccessIsConcluded, Settled,
         NoOrphan, Asking
  <2> QED BY <2>1, <2>2
<1>6. CASE GatewayCancels(r)
  <2>1. ActsOn(r)
    BY <1>6, RowOfType DEF GatewayCancels, Streams, Upsert, CancelledErrorRaised, ActsOn, Same
  <2>2. RunInv(r)'
    BY <1>6, RowOfType DEF GatewayCancels, Streams, Upsert, CancelledErrorRaised, RunInv,
         BornWithRow,
         RunningIsMarked, StopEndsQueued, CopiesAreOld, SuccessIsConcluded, Settled,
         NoOrphan, Asking
  <2> QED BY <2>1, <2>2
<1>7. CASE StopSeen(r)
  <2>1. ActsOn(r)
    BY <1>7, RowOfType DEF StopSeen, Streams, Upsert, CancelledErrorRaised, ActsOn, Same
  <2>2. RunInv(r)'
    BY <1>7, RowOfType DEF StopSeen, Streams, Upsert, CancelledErrorRaised, RunInv, BornWithRow,
         RunningIsMarked, StopEndsQueued, CopiesAreOld, SuccessIsConcluded, Settled,
         NoOrphan, Asking
  <2> QED BY <2>1, <2>2
<1> QED BY <1>1, <1>2, <1>3, <1>4, <1>5, <1>6, <1>7

\* What the conclusions write to the message.
LEMMA UpsertWrites ==
  ASSUME TypeOK, NEW r \in Runs, NEW m \in {"success", "failed", "timeout", "cancelled"},
         Upsert(r, m) \/ UpsertPartial(r, m) \/ UNCHANGED message
  PROVE  WritesMessage(r)
<1> QED BY DEF TypeOK, Upsert, UpsertPartial, WritesMessage

\* The end of a run.
LEMMA EndLifecycleInv ==
  ASSUME LifecycleInv, NEW r \in Runs,
         MarkSuccess(r) \/ ErrorEvent(r) \/ Deadline(r) \/ EndEmpty(r) \/ MarkFailed(r)
           \/ MarkCancelled(r)
  PROVE  ActsOn(r) /\ RunInv(r)'
<1> USE DEF LifecycleInv, Asking
<1>1. CASE MarkSuccess(r)
  <2>1. cache[r] \in Row /\ "success" \in Statuses
    BY DEF TypeOK, Statuses, Terminal
  <2>2. /\ status' \in [Runs -> Statuses] /\ cancelRequested' \in [Runs -> BOOLEAN]
        /\ \A q \in Runs \ {r} :
               status'[q] = status[q] /\ cancelRequested'[q] = cancelRequested[q]
        /\ status'[r] = "success" \/ (status'[r] = status[r] /\ cache[r].status \in Terminal)
    BY <1>1, <2>1, MarkEffect DEF MarkSuccess
  <2>3. status'[r] \in Terminal
    BY <1>1, <2>2 DEF MarkSuccess, RunInv, CopiesAreOld, Terminal
  <2>4. ActsOn(r)
    BY <1>1, <2>2 DEF MarkSuccess, ActsOn, Same, TypeOK, signalVars, processVars, GoTo, HasTask
  <2>5. RunInv(r)'
    BY <1>1, <2>2, <2>3 DEF MarkSuccess, signalVars, processVars, GoTo, Terminal, Active,
         TypeOK, HasTask,
       MidBlock, RunInv, BornWithRow, RunningIsMarked, StopEndsQueued, CopiesAreOld,
       SuccessIsConcluded, Settled, NoOrphan
  <2> QED BY <2>4, <2>5
<1>2. ASSUME NEW s \in {"failed", "timeout"}, Streams(r), Conclude(r, s),
             NEW where \in {"telling", "done"}, GoTo(r, where)
      PROVE  ActsOn(r) /\ RunInv(r)'
  <2>1. WritesMessage(r)
    BY <1>2, UpsertWrites DEF Conclude
  <2> QED BY <1>2, <2>1, ConcludeLifecycleInv DEF Conclude, Streams
<1>3. CASE ErrorEvent(r)
  BY <1>2, <1>3 DEF ErrorEvent
<1>4. CASE Deadline(r)
  BY <1>2, <1>4 DEF Deadline
<1>5. CASE EndEmpty(r)
  <2>1. WritesMessage(r)
    BY <1>5, UpsertWrites DEF EndEmpty
  <2> QED BY <1>5, <2>1, ConcludeLifecycleInv DEF EndEmpty, Streams
<1>6. CASE MarkFailed(r)
  <2>1. WritesMessage(r)
    BY <1>6, UpsertWrites DEF MarkFailed
  <2> QED BY <1>6, <2>1, ConcludeLifecycleInv DEF MarkFailed
<1>7. CASE MarkCancelled(r)
  <2>1. WritesMessage(r)
    BY <1>7, UpsertWrites DEF MarkCancelled
  <2> QED BY <1>7, <2>1, ConcludeLifecycleInv DEF MarkCancelled
<1> QED BY <1>1, <1>3, <1>4, <1>5, <1>6, <1>7

\* The end of a run is told.
LEMMA TellLifecycleInv ==
  ASSUME LifecycleInv, NEW r \in Runs, Told(r) \/ LateDeadline(r)
  PROVE  ActsOn(r) /\ RunInv(r)'
<1>1. /\ pc[r] = "telling" /\ pc' = [pc EXCEPT ![r] = "done"]
      /\ UNCHANGED <<rowVars, deleted, cache, signalVars, http, scan, processVars>>
  BY DEF Told, LateDeadline, GoTo, dbVars, rowVars
<1>2. WritesMessage(r) /\ message'[r] \in {message[r], "timeout", "success"}
  BY DEF LifecycleInv, TypeOK, Told, LateDeadline, dbVars, Upsert, WritesMessage
<1>3. ActsOn(r)
  BY <1>1, <1>2 DEF LifecycleInv, TypeOK, ActsOn, Same, WritesMessage, rowVars, signalVars,
       processVars, HasTask
<1>4. status[r] \in Terminal
  BY <1>1 DEF LifecycleInv, RunInv, Settled
<1>5. status[r] = "success" => message[r] = "success" \/ deleted
  BY <1>1 DEF LifecycleInv, RunInv, SuccessIsConcluded
<1>6. deleted => message'[r] = message[r]
  BY DEF Told, LateDeadline, dbVars
<1>7. SuccessIsConcluded(r)' /\ Settled(r)'
  BY <1>1, <1>2, <1>4, <1>5, <1>6 DEF LifecycleInv, TypeOK, SuccessIsConcluded, Settled, rowVars
<1>8. /\ BornWithRow(r)' /\ RunningIsMarked(r)' /\ StopEndsQueued(r)'
      /\ CopiesAreOld(r)' /\ NoOrphan(r)'
  BY <1>1 DEF LifecycleInv, TypeOK, RunInv, BornWithRow, RunningIsMarked, StopEndsQueued,
       CopiesAreOld, NoOrphan, Asking, rowVars, signalVars, processVars
<1> QED BY <1>3, <1>7, <1>8 DEF RunInv

\* Stops, over the socket and step by step over HTTP.
LEMMA StopLifecycleInv ==
  ASSUME LifecycleInv, NEW r \in Runs, StopOverSocket(r) \/ HttpRead(r) \/ HttpThread(r)
  PROVE  ActsOn(r) /\ RunInv(r)'
<1> USE DEF LifecycleInv, TypeOK, dbVars, rowVars, signalVars, processVars, HasTask, MidBlock,
            Statuses, Active, Terminal, GoTo
<1>1. CASE StopOverSocket(r)
  <2>1. status[r] \in Statuses /\ status[r] # "none"
    BY <1>1 DEF StopOverSocket
  <2>2. /\ status' \in [Runs -> Statuses] /\ cancelRequested' \in [Runs -> BOOLEAN]
        /\ \A q \in Runs \ {r} :
               status'[q] = status[q] /\ cancelRequested'[q] = cancelRequested[q]
        /\ status'[r] = IF status[r] = "queued" THEN "cancelled" ELSE status[r]
    <3>1. RequestCancel(r, status[r])
      BY <1>1 DEF StopOverSocket
    <3> QED BY <2>1, <3>1, RequestCancelEffect
  <2>3. /\ event' \in [Runs -> BOOLEAN] /\ cancelReq' \in [Runs -> BOOLEAN]
        /\ \A q \in Runs \ {r} : event'[q] = event[q] /\ cancelReq'[q] = cancelReq[q]
        /\ event'[r] <=> event[r] \/ pc[r] \in HasTask
        /\ cancelReq'[r] <=> cancelReq[r] \/ pc[r] \in HasTask
    BY <1>1, SignalEffect DEF StopOverSocket
  <2>4. ActsOn(r)
    BY <1>1, <2>2, <2>3 DEF StopOverSocket, ActsOn, Same
  <2>5. RunInv(r)'
    <3>1. BornWithRow(r)' /\ RunningIsMarked(r)' /\ StopEndsQueued(r)'
      BY <1>1, <2>1, <2>2, <2>3 DEF StopOverSocket, RunInv, BornWithRow, RunningIsMarked,
           StopEndsQueued, Asking
    <3>2. CopiesAreOld(r)'
      BY <1>1, <2>1, <2>2 DEF StopOverSocket, RunInv, CopiesAreOld, Asking
    <3>3. SuccessIsConcluded(r)' /\ Settled(r)'
      BY <1>1, <2>1, <2>2 DEF StopOverSocket, RunInv, SuccessIsConcluded, Settled
    <3>4. NoOrphan(r)'
      BY <1>1, <2>1, <2>2, <2>3 DEF StopOverSocket, RunInv, NoOrphan
    <3> QED BY <3>1, <3>2, <3>3, <3>4 DEF RunInv
  <2> QED BY <2>4, <2>5
<1>2. CASE HttpRead(r)
  <2>1. ActsOn(r)
    BY <1>2 DEF HttpRead, ActsOn, Same
  <2>2. RunInv(r)'
    BY <1>2 DEF HttpRead, RunInv, BornWithRow, RunningIsMarked, StopEndsQueued,
         CopiesAreOld, SuccessIsConcluded, Settled, NoOrphan, Asking
  <2> QED BY <2>1, <2>2
<1>3. CASE HttpCommit(r)
  <2>1. PICK seen \in {"queued", "running"} : RequestCancel(r, seen)
          /\ http[r] = IF seen = "queued" THEN "sawQueued" ELSE "sawRunning"
    BY <1>3 DEF HttpCommit
  <2>2. /\ status' \in [Runs -> Statuses] /\ cancelRequested' \in [Runs -> BOOLEAN]
        /\ \A q \in Runs \ {r} :
               status'[q] = status[q] /\ cancelRequested'[q] = cancelRequested[q]
        /\ seen = "queued" => status'[r] = "cancelled"
        /\ seen = "running" => status'[r] = status[r]
    BY <2>1, RequestCancelEffect
  <2>3. ActsOn(r)
    BY <1>3, <2>2 DEF HttpCommit, ActsOn, Same
  <2>4. RunInv(r)'
    BY <1>3, <2>1, <2>2 DEF HttpCommit, RunInv, BornWithRow, RunningIsMarked, StopEndsQueued,
         CopiesAreOld, SuccessIsConcluded, Settled, NoOrphan, Asking
  <2> QED BY <2>3, <2>4
<1>4. CASE HttpSetEvent(r)
  <2>1. /\ event' \in [Runs -> BOOLEAN]
        /\ \A q \in Runs \ {r} : event'[q] = event[q]
        /\ event'[r] <=> event[r] \/ pc[r] \in HasTask
    <3>1. (event[r] \/ pc[r] \in HasTask) \in BOOLEAN
      OBVIOUS
    <3> QED BY <1>4, <3>1 DEF HttpSetEvent
  <2>2. ActsOn(r)
    BY <1>4, <2>1 DEF HttpSetEvent, ActsOn, Same
  <2>3. RunInv(r)'
    BY <1>4, <2>1 DEF HttpSetEvent, RunInv, BornWithRow, RunningIsMarked, StopEndsQueued,
         CopiesAreOld, SuccessIsConcluded, Settled, NoOrphan, Asking
  <2> QED BY <2>2, <2>3
<1>5. CASE HttpCancelTask(r)
  <2>1. /\ cancelReq' \in [Runs -> BOOLEAN]
        /\ \A q \in Runs \ {r} : cancelReq'[q] = cancelReq[q]
        /\ cancelReq'[r] <=> cancelReq[r] \/ pc[r] \in HasTask
    <3>1. (cancelReq[r] \/ pc[r] \in HasTask) \in BOOLEAN
      OBVIOUS
    <3> QED BY <1>5, <3>1 DEF HttpCancelTask
  <2>2. ActsOn(r)
    BY <1>5, <2>1 DEF HttpCancelTask, ActsOn, Same
  <2>3. RunInv(r)'
    BY <1>5, <2>1 DEF HttpCancelTask, RunInv, BornWithRow, RunningIsMarked, StopEndsQueued,
         CopiesAreOld, SuccessIsConcluded, Settled, NoOrphan, Asking
  <2> QED BY <2>2, <2>3
<1> QED BY <1>1, <1>2, <1>3, <1>4, <1>5 DEF HttpThread

\* The watchdog.
LEMMA WatchdogLifecycleInv ==
  ASSUME LifecycleInv, NEW r \in Runs, WatchdogRead(r) \/ WatchdogMark(r)
  PROVE  ActsOn(r) /\ RunInv(r)'
<1> USE DEF LifecycleInv, TypeOK, dbVars, rowVars, signalVars, processVars, HasTask, MidBlock,
            Statuses, Active, Terminal, GoTo
<1>1. CASE WatchdogRead(r)
  <2>1. ActsOn(r)
    BY <1>1, RowOfType DEF WatchdogRead, ActsOn, Same
  <2>2. RunInv(r)'
    BY <1>1, RowOfType DEF WatchdogRead, RunInv, BornWithRow, RunningIsMarked, StopEndsQueued,
         CopiesAreOld, SuccessIsConcluded, Settled, NoOrphan, Asking
  <2> QED BY <2>1, <2>2
<1>2. CASE WatchdogMark(r)
  <2>1. scan[r] \in Row /\ scan[r].status \in Active /\ scan[r].status \notin Terminal
    BY <1>2 DEF WatchdogMark, RunInv, CopiesAreOld
  <2>2. PICK s \in {"timeout", "stale"} : Mark(r, s, scan[r])
    BY <1>2 DEF WatchdogMark
  <2>3. /\ status' \in [Runs -> Statuses] /\ cancelRequested' \in [Runs -> BOOLEAN]
        /\ \A q \in Runs \ {r} :
               status'[q] = status[q] /\ cancelRequested'[q] = cancelRequested[q]
        /\ status'[r] = s
    <3>1. s \in Statuses
      OBVIOUS
    <3> QED BY <2>1, <2>2, <3>1, MarkEffect
  <2>4. /\ event' \in [Runs -> BOOLEAN] /\ cancelReq' \in [Runs -> BOOLEAN]
        /\ \A q \in Runs \ {r} : event'[q] = event[q] /\ cancelReq'[q] = cancelReq[q]
        /\ event'[r] <=> event[r] \/ pc[r] \in HasTask
        /\ cancelReq'[r] <=> cancelReq[r] \/ pc[r] \in HasTask
    BY <1>2, SignalEffect DEF WatchdogMark
  <2>5. NoRow \in Row
    BY DEF NoRow, Row
  <2>6. ActsOn(r)
    BY <1>2, <2>3, <2>4, <2>5 DEF WatchdogMark, ActsOn, Same
  <2>7. pc[r] # "none"
    BY <1>2 DEF WatchdogMark, RunInv, BornWithRow
  <2>8. RunInv(r)'
    BY <1>2, <2>3, <2>4, <2>7 DEF WatchdogMark, RunInv, BornWithRow, RunningIsMarked,
         StopEndsQueued,
         CopiesAreOld, SuccessIsConcluded, Settled, NoOrphan, Asking
  <2> QED BY <2>6, <2>8
<1> QED BY <1>1, <1>2

\* What happens to one run.
RunNext(r) ==
  \/ Submit(r) \/ Handler(r) \/ Task(r) \/ Stream(r) \/ Deadline(r) \/ LateDeadline(r)
  \/ StopOverSocket(r) \/ HttpRead(r) \/ HttpThread(r)
  \/ WatchdogRead(r) \/ WatchdogMark(r)

\* Every action of one run acts on that run only, and keeps its invariant.
LEMMA RunNextInv ==
  ASSUME LifecycleInv, NEW r \in Runs, RunNext(r)
  PROVE  ActsOn(r) /\ RunInv(r)'
<1> QED BY HandlerLifecycleInv, BeginLifecycleInv, StreamLifecycleInv, EndLifecycleInv,
           TellLifecycleInv, StopLifecycleInv, WatchdogLifecycleInv DEF RunNext, Task, Stream

\* What happens to all runs at once.
LEMMA ProcessLifecycleInv ==
  ASSUME LifecycleInv, DeleteConversation \/ Crash \/ BeginShutdown \/ Restart
  PROVE  LifecycleInv'
<1> USE DEF LifecycleInv, TypeOK, dbVars, rowVars, signalVars, processVars, HasTask, MidBlock,
            Statuses, Active, Terminal, RestartLeft
<1>1. CASE DeleteConversation
  <2>1. TypeOK'
    BY <1>1 DEF DeleteConversation
  <2>2. ASSUME NEW q \in Runs PROVE RunInv(q)'
    BY <1>1 DEF DeleteConversation, RunInv, BornWithRow, RunningIsMarked, StopEndsQueued,
         CopiesAreOld, SuccessIsConcluded, Settled, NoOrphan, Asking
  <2>3. RestartLeft'
    BY <1>1 DEF DeleteConversation
  <2> QED BY <2>1, <2>2, <2>3
<1>2. CASE Reset /\ restarts' \in 0..MaxRestarts
  <2>1. NoRow \in Row
    BY DEF NoRow, Row
  <2>2. event' \in [Runs -> BOOLEAN] /\ cancelReq' \in [Runs -> BOOLEAN]
    BY <1>2 DEF Reset
  <2>3. TypeOK'
    BY <1>2, <2>1, <2>2 DEF Reset
  <2>4. ASSUME NEW q \in Runs PROVE RunInv(q)'
    BY <1>2 DEF Reset, RunInv, BornWithRow, RunningIsMarked, StopEndsQueued,
         CopiesAreOld, SuccessIsConcluded, Settled, NoOrphan, Asking
  <2>5. RestartLeft'
    BY <1>2 DEF Reset
  <2> QED BY <2>3, <2>4, <2>5
<1>3. CASE Crash
  <2>1. restarts' \in 0..MaxRestarts
    BY <1>3, RunLifecycleAssumption DEF Crash, Reset
  <2> QED BY <1>2, <1>3, <2>1 DEF Crash
<1>4. CASE BeginShutdown
  <2>1. ASSUME NEW q \in Runs
        PROVE  /\ (event[q] \/ pc[q] \in HasTask) \in BOOLEAN
               /\ (cancelReq[q] \/ pc[q] \in HasTask) \in BOOLEAN
    OBVIOUS
  <2>2. /\ event' \in [Runs -> BOOLEAN] /\ cancelReq' \in [Runs -> BOOLEAN]
        /\ \A q \in Runs : event'[q] <=> event[q] \/ pc[q] \in HasTask
        /\ \A q \in Runs : cancelReq'[q] <=> cancelReq[q] \/ pc[q] \in HasTask
    BY <1>4, <2>1 DEF BeginShutdown
  <2>3. TypeOK'
    BY <1>4, <2>2 DEF BeginShutdown
  <2>4. ASSUME NEW q \in Runs PROVE RunInv(q)'
    BY <1>4, <2>2 DEF BeginShutdown, RunInv, BornWithRow, RunningIsMarked, StopEndsQueued,
         CopiesAreOld, SuccessIsConcluded, Settled, NoOrphan, Asking
  <2>5. RestartLeft'
    BY <1>4 DEF BeginShutdown
  <2> QED BY <2>3, <2>4, <2>5
<1>5. CASE Restart
  <2>1. restarts' \in 0..MaxRestarts
    BY <1>5, RunLifecycleAssumption DEF Restart, Reset
  <2> QED BY <1>2, <1>5, <2>1 DEF Restart
<1> QED BY <1>1, <1>3, <1>4, <1>5

\* Every step keeps the invariant.
LEMMA NextLifecycleInv == LifecycleInv /\ [Next]_vars => LifecycleInv'
<1> SUFFICES ASSUME LifecycleInv, [Next]_vars PROVE LifecycleInv'
  OBVIOUS
<1>1. CASE UNCHANGED vars
  BY <1>1 DEF vars, dbVars, signalVars, processVars, LifecycleInv, TypeOK, RestartLeft,
       RunInv, BornWithRow, RunningIsMarked, StopEndsQueued,
         CopiesAreOld, SuccessIsConcluded, Settled, NoOrphan, Asking
<1>2. ASSUME NEW r \in Runs, RunNext(r) PROVE LifecycleInv'
  BY <1>2, RunNextInv, FrameInv
<1>3. CASE Next
  BY <1>2, <1>3, ProcessLifecycleInv DEF Next, RunNext
<1> QED BY <1>1, <1>3

\* The inductive invariant holds in every reachable state.
THEOREM LifecycleInvariant == Spec => []LifecycleInv
<1> QED BY InitLifecycleInv, NextLifecycleInv, PTL DEF Spec

-----------------------------------------------------------------------------
\* The properties of runs that anybody may stop.

\* Every variable keeps its type.
THEOREM LifecycleTypeCorrect == Spec => []TypeOK
<1>1. LifecycleInv => TypeOK
  BY DEF LifecycleInv
<1> QED BY <1>1, LifecycleInvariant, PTL

\* No crash and no stop makes a run a success whose answer is not saved.
THEOREM SuccessHasAnswer == Spec => []AnswerBeforeSuccess
<1>1. LifecycleInv => AnswerBeforeSuccess
  BY DEF LifecycleInv, RunInv, SuccessIsConcluded, AnswerBeforeSuccess
<1> QED BY <1>1, LifecycleInvariant, PTL

\* No executor ends without having ended its row.
THEOREM EveryEndIsSettled == Spec => []EndedRunIsSettled
<1>1. LifecycleInv => EndedRunIsSettled
  BY DEF LifecycleInv, RunInv, Settled, EndedRunIsSettled
<1> QED BY <1>1, LifecycleInvariant, PTL

\* No stream goes on for a run that has ended without somebody on the way to stop it.
THEOREM NoStreamIsOrphan == Spec => []NoOrphanStream
<1>1. LifecycleInv => NoOrphanStream
  BY DEF LifecycleInv, RunInv, NoOrphan, NoOrphanStream
<1> QED BY <1>1, LifecycleInvariant, PTL

-----------------------------------------------------------------------------
\* Two ends of a run conflict only if one is that of a stop over HTTP.

\* The endings of a run that nobody overwrites.
Kept(r) == IF r \in HttpStops THEN Terminal \ {"cancelled"} ELSE Terminal

\* Whoever could still mark a row that has such an ending knows that it has ended, or
\* has been signalled.
OneEnd(r) ==
  /\ r \notin HttpStops => http[r] = "idle"
  /\ pc[r] \in MidBlock => scan[r] = NoRow
  /\ status[r] \in Kept(r) =>
       /\ scan[r] = NoRow
       /\ pc[r] \in MidBlock => cache[r].status \in Terminal
       /\ pc[r] = "streaming" /\ ~cancelReq[r] => cache[r].status \in Terminal

OneEndInv == \A r \in Runs : OneEnd(r)

\* Such an ending is overwritten by the thread of a stop only.
KeptStep(r) ==
  status[r] \in Kept(r) /\ status'[r] # status[r] => r \in HttpStops /\ status'[r] = "cancelled"

\* Who knows that the row has ended leaves it.
LEMMA MarkKept ==
  ASSUME TypeOK, NEW r \in Runs, NEW s \in Statuses, NEW seen \in Row, Mark(r, s, seen),
         status[r] \in Kept(r) => seen.status \in Terminal
  PROVE  KeptStep(r)
<1> QED BY MarkEffect DEF KeptStep

\* The executor ends the run, or tells its end.
LEMMA EndOneEnd ==
  ASSUME LifecycleInv, OneEndInv, NEW r \in Runs,
         MarkSuccess(r) \/ ErrorEvent(r) \/ Deadline(r) \/ EndEmpty(r) \/ MarkFailed(r)
           \/ MarkCancelled(r) \/ Told(r) \/ LateDeadline(r)
  PROVE  OneEnd(r)' /\ KeptStep(r)
<1>1. TypeOK /\ OneEnd(r) /\ cache[r] \in Row
  BY DEF LifecycleInv, OneEndInv, TypeOK
<1>2. Streams(r) => pc[r] = "streaming" /\ ~cancelReq[r] /\ scan[r] = NoRow
  BY DEF Streams, LoopFree
<1>3. /\ scan[r] = NoRow /\ UNCHANGED <<http, scan>>
      /\ pc'[r] \in {"telling", "done"}
  BY <1>1, <1>2 DEF MarkSuccess, ErrorEvent, Deadline, Conclude, EndEmpty, MarkFailed,
       MarkCancelled, Told, LateDeadline, LoopFree, OneEnd, MidBlock, GoTo, TypeOK
<1>4. OneEnd(r)'
  BY <1>1, <1>3 DEF OneEnd, MidBlock
<1>5. ASSUME NEW s \in {"success", "failed", "timeout", "cancelled"}, Mark(r, s, cache[r]),
             Streams(r) \/ pc[r] \in MidBlock
      PROVE  KeptStep(r)
  BY <1>1, <1>2, <1>5, MarkKept DEF OneEnd, Statuses, Terminal
<1>6. KeptStep(r)
  <2>1. CASE Told(r) \/ LateDeadline(r)
    BY <2>1 DEF Told, LateDeadline, dbVars, rowVars, KeptStep
  <2>2. CASE MarkSuccess(r) \/ MarkFailed(r) \/ MarkCancelled(r)
    BY <1>5, <2>2 DEF MarkSuccess, MarkFailed, MarkCancelled, MidBlock
  <2>3. CASE ErrorEvent(r) \/ Deadline(r) \/ EndEmpty(r)
    BY <1>5, <2>3 DEF ErrorEvent, Deadline, EndEmpty, Conclude
  <2> QED BY <2>1, <2>2, <2>3
<1> QED BY <1>4, <1>6

\* What leaves the row as it is.
LEMMA ReadOneEnd ==
  ASSUME LifecycleInv, OneEndInv, NEW r \in Runs,
         Enqueue(r) \/ Abandon(r) \/ DropQueued(r) \/ BeginRead(r) \/ Heartbeat(r) \/ Persist(r)
           \/ SeeTerminal(r) \/ Answer(r) \/ Break(r) \/ GatewayCancels(r) \/ StopSeen(r)
           \/ WatchdogRead(r) \/ HttpRead(r) \/ HttpSetEvent(r) \/ HttpCancelTask(r)
  PROVE  OneEnd(r)' /\ KeptStep(r)
<1>1. UNCHANGED rowVars
  BY DEF Enqueue, Abandon, DropQueued, BeginRead, Heartbeat, Persist, SeeTerminal, Answer, Break,
         GatewayCancels, StopSeen, CancelledErrorRaised, WatchdogRead, HttpRead, HttpSetEvent,
         HttpCancelTask, dbVars, rowVars
<1>2. KeptStep(r)
  BY <1>1 DEF rowVars, KeptStep
<1>3. OneEnd(r) /\ TypeOK /\ UNCHANGED status
  BY <1>1 DEF OneEndInv, LifecycleInv, rowVars
<1>4. RowOf(r).status = status[r] /\ RowOf(r).status = status'[r]
  BY <1>3 DEF RowOf
<1>5. Kept(r) \subseteq Terminal
  BY DEF Kept
<1> USE DEF OneEnd, MidBlock, GoTo, TypeOK
<1>6. CASE Enqueue(r) \/ Abandon(r) \/ DropQueued(r) \/ SeeTerminal(r)
  BY <1>2, <1>3, <1>6 DEF Enqueue, Abandon, DropQueued, SeeTerminal, signalVars
<1>7. CASE BeginRead(r)
  BY <1>2, <1>3, <1>4, <1>5, <1>7 DEF BeginRead, LoopFree, signalVars
<1>8. CASE Heartbeat(r) \/ Persist(r) \/ Answer(r) \/ Break(r)
  BY <1>2, <1>3, <1>4, <1>5, <1>8 DEF Heartbeat, Persist, Answer, Break, Streams, LoopFree,
       signalVars
<1>9. CASE GatewayCancels(r) \/ StopSeen(r)
  BY <1>2, <1>3, <1>4, <1>5, <1>9 DEF GatewayCancels, StopSeen, CancelledErrorRaised, Streams,
       LoopFree
<1>10. CASE WatchdogRead(r)
  BY <1>2, <1>3, <1>5, <1>10 DEF WatchdogRead, LoopFree, Active, Terminal, signalVars
<1>11. CASE HttpRead(r)
  BY <1>2, <1>3, <1>11 DEF HttpRead, signalVars
<1>12. CASE HttpSetEvent(r) \/ HttpCancelTask(r)
  <2>1. cancelReq[r] => cancelReq'[r]
    BY <1>2, <1>3, <1>12 DEF HttpSetEvent, HttpCancelTask
  <2> QED BY <1>2, <1>3, <1>12, <2>1 DEF HttpSetEvent, HttpCancelTask
<1> QED BY <1>6, <1>7, <1>8, <1>9, <1>10, <1>11, <1>12

\* Who else writes the row: the socket handler, the start of the executor, stops and
\* the watchdog.
LEMMA WriteOneEnd ==
  ASSUME LifecycleInv, OneEndInv, NEW r \in Runs,
         Submit(r) \/ BeginWrite(r) \/ StopOverSocket(r) \/ HttpCommit(r) \/ WatchdogMark(r)
  PROVE  OneEnd(r)' /\ KeptStep(r)
<1>1. TypeOK /\ OneEnd(r) /\ RunInv(r)
  BY DEF LifecycleInv, OneEndInv
<1>2. Kept(r) \subseteq Terminal /\ (status[r] \in Kept(r) => status[r] \in Terminal)
  BY DEF Kept
<1>3. CASE Submit(r)
  <2>1. /\ status[r] = "none" /\ scan[r] = NoRow /\ status'[r] = "queued" /\ pc'[r] = "created"
        /\ UNCHANGED <<scan, http>>
    BY <1>1, <1>3 DEF Submit, RunInv, BornWithRow, TypeOK, GoTo
  <2> QED BY <1>1, <1>2, <2>1 DEF OneEnd, KeptStep, MidBlock, Terminal
<1>4. CASE BeginWrite(r)
  <2>1. cache[r] \in Row /\ cache[r].status \notin Terminal /\ pc[r] = "starting"
    BY <1>1, <1>4 DEF BeginWrite, RunInv, CopiesAreOld, TypeOK
  <2>2. status[r] \notin Kept(r) /\ scan[r] = NoRow /\ UNCHANGED <<scan, http>>
    BY <1>1, <1>4, <2>1 DEF BeginWrite, OneEnd, MidBlock
  <2>3. pc'[r] \in {"done", "streaming"} /\ (pc'[r] = "streaming" => status'[r] = "running")
    BY <1>1, <1>4 DEF BeginWrite, GoTo, TypeOK
  <2> QED BY <1>1, <1>2, <2>2, <2>3 DEF OneEnd, KeptStep, MidBlock, Terminal
<1>5. CASE StopOverSocket(r)
  <2>1. /\ pc[r] \notin MidBlock /\ scan[r] = NoRow /\ UNCHANGED <<pc, scan, http>>
        /\ status[r] \in Statuses /\ RequestCancel(r, status[r])
    BY <1>1, <1>5 DEF StopOverSocket, LoopFree, TypeOK
  <2>2. status[r] # "queued" => status'[r] = status[r]
    BY <1>1, <2>1, RequestCancelEffect DEF Active
  <2>3. pc[r] = "streaming" => cancelReq'[r]
    BY <1>1, <1>5, SignalEffect DEF StopOverSocket, HasTask
  <2> QED BY <1>1, <1>2, <2>1, <2>2, <2>3 DEF OneEnd, KeptStep, Terminal
<1>6. CASE HttpCommit(r)
  <2>1. /\ r \in HttpStops /\ UNCHANGED <<pc, cache, scan, cancelReq>>
        /\ RequestCancel(r, "queued") \/ RequestCancel(r, "running")
    BY <1>1, <1>6 DEF HttpCommit, OneEnd, signalVars
  <2>2. status'[r] \in {status[r], "cancelled"}
    BY <1>1, <2>1, RequestCancelEffect DEF Statuses, Active
  <2>3. status'[r] \in Kept(r) => status'[r] = status[r]
    BY <2>1, <2>2 DEF Kept
  <2> QED BY <1>1, <2>1, <2>2, <2>3 DEF OneEnd, KeptStep
<1>7. CASE WatchdogMark(r)
  <2>1. scan[r] # NoRow /\ scan'[r] = NoRow /\ UNCHANGED <<pc, http>>
    BY <1>1, <1>7 DEF WatchdogMark, TypeOK
  <2>2. pc[r] \notin MidBlock /\ status[r] \notin Kept(r)
    BY <1>1, <2>1 DEF OneEnd
  <2>3. pc[r] = "streaming" => cancelReq'[r]
    BY <1>1, <1>7, SignalEffect DEF WatchdogMark, HasTask
  <2> QED BY <1>1, <2>1, <2>2, <2>3 DEF OneEnd, KeptStep
<1> QED BY <1>3, <1>4, <1>5, <1>6, <1>7

\* Every step keeps such endings, except that of a stop over HTTP.
LEMMA NextOneEnd ==
  LifecycleInv /\ OneEndInv /\ [Next]_vars => OneEndInv' /\ \A r \in Runs : KeptStep(r)
<1> SUFFICES ASSUME LifecycleInv, OneEndInv, [Next]_vars, NEW q \in Runs
             PROVE  OneEnd(q)' /\ KeptStep(q)
  BY DEF OneEndInv
<1>1. OneEnd(q)
  BY DEF OneEndInv
<1>2. CASE UNCHANGED vars
  BY <1>1, <1>2 DEF vars, dbVars, signalVars, OneEnd, KeptStep
<1>3. ASSUME NEW r \in Runs, RunNext(r)
      PROVE  OneEnd(q)' /\ KeptStep(q)
  <2>1. OneEnd(r)' /\ KeptStep(r)
    BY <1>3, EndOneEnd, ReadOneEnd, WriteOneEnd DEF RunNext, Handler, Task, Stream, HttpThread
  <2>2. CASE q # r
    <3>1. Same(q)
      BY <1>3, <2>2, RunNextInv DEF ActsOn
    <3> QED BY <1>1, <3>1 DEF Same, OneEnd, KeptStep
  <2> QED BY <2>1, <2>2
<1>4. CASE DeleteConversation \/ BeginShutdown
  <2>1. UNCHANGED <<status, pc, cache, http, scan>> /\ (cancelReq[q] => cancelReq'[q])
    BY <1>4 DEF DeleteConversation, BeginShutdown, dbVars, rowVars, signalVars
  <2> QED BY <1>1, <2>1 DEF OneEnd, KeptStep
<1>5. CASE Reset
  BY <1>1, <1>5 DEF Reset, dbVars, OneEnd, KeptStep, MidBlock
<1> QED BY <1>2, <1>3, <1>4, <1>5 DEF Next, RunNext, Crash, Restart

\* Whatever interleaves, a run is ended twice only by a stop over HTTP and somebody
\* else, and a run that is not stopped over HTTP stays what it ended as.
THEOREM OneEndButForHttpStops == Spec => EndsConflictOnHttpStop
<1>1. Init => OneEndInv
  BY DEF Init, OneEndInv, OneEnd, MidBlock, Kept, Terminal
<1>2. (\A r \in Runs : KeptStep(r)) =>
        \A r \in Runs : status[r] \in Terminal /\ status'[r] # status[r] =>
          r \in HttpStops /\ "cancelled" \in {status[r], status'[r]}
  BY DEF KeptStep, Kept
<1>3. LifecycleInv /\ OneEndInv /\ [Next]_vars =>
        OneEndInv' /\ [\A r \in Runs : status[r] \in Terminal /\ status'[r] # status[r] =>
                        r \in HttpStops /\ "cancelled" \in {status[r], status'[r]}]_vars
  BY <1>2, NextOneEnd
<1> QED BY <1>1, <1>3, LifecycleInvariant, PTL DEF Spec, EndsConflictOnHttpStop

-----------------------------------------------------------------------------
\* Stops over the socket only: the copies stay exact.

\* At the start there is nothing to copy.
LEMMA InitSocketInv == Init => SocketInv
<1> QED BY DEF Init, SocketInv, SocketRun, CopiesAreExact, RowFollows, StopReachesTask, MidBlock,
          Asking

\* A run that nothing has happened to keeps its copies.
LEMMA FrameSocketInv ==
  ASSUME SocketInv, NEW r \in Runs, ActsOn(r), SocketRun(r)'
  PROVE  SocketInv'
<1> SUFFICES ASSUME NEW q \in Runs \ {r} PROVE SocketRun(q)'
  BY DEF SocketInv
<1>1. Same(q) /\ SocketRun(q)
  BY DEF ActsOn, SocketInv
<1>2. RowOf(q)' = RowOf(q)
  BY <1>1 DEF Same, RowOf
<1> QED BY <1>1, <1>2 DEF Same, SocketRun, CopiesAreExact, RowFollows, StopReachesTask

\* An action that leaves the row as it is, a block of the loop that begins with
\* reading it.
LEMMA ReadSocketInv ==
  ASSUME LifecycleInv, SocketInv, NEW r \in Runs,
         Enqueue(r) \/ Abandon(r) \/ DropQueued(r) \/ BeginRead(r) \/ Heartbeat(r) \/ Persist(r)
           \/ SeeTerminal(r) \/ Answer(r) \/ Break(r) \/ GatewayCancels(r) \/ StopSeen(r)
           \/ WatchdogRead(r) \/ Told(r) \/ LateDeadline(r)
  PROVE  SocketRun(r)' /\ UNCHANGED rowVars
<1> USE DEF LifecycleInv, TypeOK, dbVars, rowVars, signalVars, processVars, GoTo, SocketInv
<1>1. UNCHANGED rowVars
  BY DEF Enqueue, Abandon, DropQueued, BeginRead, Heartbeat, Persist, SeeTerminal, Answer, Break,
         GatewayCancels, StopSeen, CancelledErrorRaised, WatchdogRead, Told, LateDeadline
<1>2. RowOf(r)' = RowOf(r) /\ SocketRun(r) /\ RunInv(r)
  BY <1>1 DEF RowOf
<1> USE DEF SocketRun, CopiesAreExact, RowFollows, StopReachesTask, Asking, MidBlock, LoopFree
<1>3. CASE Enqueue(r)
  BY <1>2, <1>3 DEF Enqueue
<1>4. CASE Abandon(r)
  BY <1>2, <1>4 DEF Abandon
<1>5. CASE DropQueued(r)
  BY <1>2, <1>5 DEF DropQueued
<1>6. CASE BeginRead(r)
  BY <1>2, <1>6 DEF BeginRead, RunInv, BornWithRow, RunningIsMarked, Statuses, Active
<1>7. CASE Heartbeat(r)
  BY <1>2, <1>7 DEF Heartbeat, Streams
<1>8. CASE Persist(r)
  BY <1>2, <1>8 DEF Persist, Streams
<1>9. CASE SeeTerminal(r)
  BY <1>2, <1>9 DEF SeeTerminal, Streams
<1>10. CASE Answer(r)
  BY <1>2, <1>10 DEF Answer, Streams
<1>11. CASE Break(r)
  BY <1>2, <1>11 DEF Break, Streams
<1>12. CASE GatewayCancels(r)
  BY <1>2, <1>12 DEF GatewayCancels, Streams, CancelledErrorRaised
<1>13. CASE StopSeen(r)
  BY <1>2, <1>13 DEF StopSeen, CancelledErrorRaised
<1>14. CASE WatchdogRead(r)
  BY <1>2, <1>14 DEF WatchdogRead
<1>15. CASE Told(r) \/ LateDeadline(r)
  BY <1>2, <1>15 DEF Told, LateDeadline
<1> QED BY <1>1, <1>3, <1>4, <1>5, <1>6, <1>7, <1>8, <1>9, <1>10, <1>11, <1>12, <1>13, <1>14,
           <1>15

-----------------------------------------------------------------------------
\* Stops over the socket only: who writes the row does what RunStatus allows.

RowStep(r) ==
  Rows!Create(r) \/ Rows!Start(r) \/ Rows!AcceptStop(r) \/ Rows!End(r) \/ UNCHANGED rowVars

\* A row that ends is not asked to stop any more.
LEMMA EndEffect ==
  ASSUME TypeOK, NEW r \in Runs, NEW s \in Rows!Endings(r),
         status' \in [Runs -> Statuses], cancelRequested' \in [Runs -> BOOLEAN],
         \A q \in Runs \ {r} : status'[q] = status[q] /\ cancelRequested'[q] = cancelRequested[q],
         status'[r] = s, ~cancelRequested'[r]
  PROVE  Rows!End(r)
<1>1. status' = [status EXCEPT ![r] = s]
  BY DEF TypeOK
<1>2. cancelRequested'[r] = FALSE
  OBVIOUS
<1>3. cancelRequested' = [cancelRequested EXCEPT ![r] = FALSE]
  BY <1>2 DEF TypeOK
<1> QED BY <1>1, <1>3 DEF Rows!End

\* Mark with an exact copy ends the row in a way that RunStatus allows, or the row
\* has ended and stays as it is.
LEMMA MarkExact ==
  ASSUME TypeOK, NEW r \in Runs, StopReachesTask(r), NEW s \in Statuses,
         status[r] \in Terminal \/ s \in Rows!Endings(r), Mark(r, s, RowOf(r))
  PROVE  ~cancelRequested'[r] /\ (Rows!End(r) \/ UNCHANGED rowVars)
<1> DEFINE seen == RowOf(r)
<1>1. seen \in Row /\ seen.status = status[r] /\ (seen.flag <=> cancelRequested[r])
  BY RowOfType
<1>2. Mark(r, s, seen)
  OBVIOUS
<1> HIDE DEF seen
<1>3. CASE status[r] \in Terminal
  <2>1. UNCHANGED rowVars
    BY <1>1, <1>2, <1>3 DEF Mark
  <2> QED BY <2>1, <1>3 DEF rowVars, StopReachesTask, Terminal
<1>4. CASE status[r] \notin Terminal
  <2>1. /\ status' \in [Runs -> Statuses] /\ cancelRequested' \in [Runs -> BOOLEAN]
        /\ \A q \in Runs \ {r} :
               status'[q] = status[q] /\ cancelRequested'[q] = cancelRequested[q]
        /\ status'[r] = s /\ ~cancelRequested'[r]
    BY <1>1, <1>2, <1>4, MarkEffect
  <2> QED BY <2>1, <1>4, EndEffect
<1> QED BY <1>3, <1>4

\* The conclusions of the executor end the row, with what it knows.
LEMMA ConcludeSocketInv ==
  ASSUME LifecycleInv, SocketInv, NEW r \in Runs,
         NEW s \in {"failed", "timeout", "cancelled", "success"},
         pc[r] \in Asking, s \in {"failed", "success"} => ~cancelRequested[r],
         cache[r] = RowOf(r), scan[r] = NoRow, Mark(r, s, cache[r]),
         NEW where \in {"telling", "done"}, GoTo(r, where),
         UNCHANGED <<cache, signalVars, http, scan>>
  PROVE  SocketRun(r)' /\ RowStep(r)
<1>1. TypeOK /\ SocketRun(r) /\ RunInv(r)
  BY DEF LifecycleInv, SocketInv
<1>2. status[r] \in Terminal \cup {"running"}
  BY <1>1 DEF TypeOK, Statuses, Active, SocketRun, RowFollows, RunInv, BornWithRow, Asking
<1>3. status[r] = "running" => s \in Rows!Endings(r)
  BY DEF Rows!Endings, Rows!Terminal
<1>4. s \in Statuses
  BY DEF Statuses, Terminal
<1>5. ~cancelRequested'[r] /\ (Rows!End(r) \/ UNCHANGED rowVars)
  BY <1>1, <1>2, <1>3, <1>4, MarkExact DEF SocketRun
<1>6. pc'[r] \in {"telling", "done"} /\ http'[r] = "idle" /\ scan'[r] = NoRow
  BY <1>1 DEF GoTo, TypeOK, SocketRun
<1> QED BY <1>5, <1>6 DEF RowStep, SocketRun, CopiesAreExact, RowFollows, StopReachesTask, MidBlock,
          Asking

\* Mark never queues a row again.
LEMMA MarkTerminal ==
  ASSUME TypeOK, NEW r \in Runs, NEW s \in Terminal, Mark(r, s, RowOf(r))
  PROVE  status'[r] \in Terminal
<1> DEFINE seen == RowOf(r)
<1>1. seen \in Row /\ seen.status = status[r] /\ s \in Statuses /\ Mark(r, s, seen)
  BY RowOfType DEF Statuses
<1> HIDE DEF seen
<1> QED BY <1>1, MarkEffect

\* A stream that nobody has signalled, or a block of the executor, ends the run.
LEMMA EndSocketInv ==
  ASSUME LifecycleInv, SocketInv, NEW r \in Runs,
         MarkSuccess(r) \/ ErrorEvent(r) \/ Deadline(r) \/ EndEmpty(r) \/ MarkFailed(r)
           \/ MarkCancelled(r)
  PROVE  SocketRun(r)' /\ RowStep(r)
<1>1. SocketRun(r)
  BY DEF SocketInv
<1>2. Streams(r) => /\ pc[r] \in Asking /\ ~cancelRequested[r]
                    /\ cache[r] = RowOf(r) /\ scan[r] = NoRow
  BY <1>1 DEF Streams, LoopFree, SocketRun, CopiesAreExact, StopReachesTask, Asking
<1>3. pc[r] \in MidBlock => cache[r] = RowOf(r) /\ scan[r] = NoRow
  BY <1>1 DEF SocketRun, CopiesAreExact
<1>4. pc[r] \in {"answering", "failing"} => ~cancelRequested[r]
  BY <1>1 DEF SocketRun, StopReachesTask
<1>5. CASE MarkSuccess(r)
  BY <1>3, <1>4, <1>5, ConcludeSocketInv DEF MarkSuccess, MidBlock, Asking
<1>6. ASSUME NEW s \in {"failed", "timeout"}, Streams(r), Conclude(r, s),
             NEW where \in {"telling", "done"}, GoTo(r, where)
      PROVE  SocketRun(r)' /\ RowStep(r)
  BY <1>2, <1>6, ConcludeSocketInv DEF Conclude
<1>7. CASE ErrorEvent(r)
  BY <1>6, <1>7 DEF ErrorEvent
<1>8. CASE Deadline(r)
  BY <1>6, <1>8 DEF Deadline
<1>9. CASE EndEmpty(r)
  BY <1>2, <1>9, ConcludeSocketInv DEF EndEmpty
<1>10. CASE MarkFailed(r)
  BY <1>3, <1>4, <1>10, ConcludeSocketInv DEF MarkFailed, MidBlock, Asking
<1>11. CASE MarkCancelled(r)
  BY <1>3, <1>11, ConcludeSocketInv DEF MarkCancelled, MidBlock, Asking
<1> QED BY <1>5, <1>7, <1>8, <1>9, <1>10, <1>11

\* Who creates, starts or stops the row.
LEMMA WriteSocketInv ==
  ASSUME LifecycleInv, SocketInv, NEW r \in Runs,
         Submit(r) \/ BeginWrite(r) \/ StopOverSocket(r) \/ WatchdogMark(r)
  PROVE  SocketRun(r)' /\ RowStep(r)
<1>1. TypeOK /\ SocketRun(r) /\ RunInv(r)
  BY DEF LifecycleInv, SocketInv
<1> USE DEF SocketRun, CopiesAreExact, RowFollows, StopReachesTask, MidBlock, Asking, GoTo,
            dbVars, signalVars
<1>2. CASE Submit(r)
  <2>1. status[r] = "none" /\ ~event[r] /\ ~cancelReq[r] /\ scan[r] = NoRow
    BY <1>1, <1>2 DEF Submit, RunInv, BornWithRow
  <2>2. Rows!Create(r)
    BY <1>2, <2>1 DEF Submit, Rows!Create
  <2>3. SocketRun(r)'
    BY <1>1, <1>2, <2>1 DEF Submit, TypeOK
  <2> QED BY <2>2, <2>3 DEF RowStep
<1>3. CASE BeginWrite(r)
  <2>1. /\ status[r] = "queued" /\ ~cancelRequested[r]
        /\ cache[r] = RowOf(r) /\ scan[r] = NoRow
    BY <1>1, <1>3 DEF BeginWrite
  <2>2. cache'[r] = RowOf(r)' /\ UNCHANGED <<http, scan>>
    BY <1>1, <1>3 DEF BeginWrite, TypeOK
  <2>3. ASSUME NEW s \in {"failed", "cancelled"}, Mark(r, s, cache[r]), GoTo(r, "done")
        PROVE  SocketRun(r)' /\ RowStep(r)
    <3>1. s \in Rows!Endings(r) /\ s \in Statuses
      BY <2>1 DEF Rows!Endings, Statuses, Terminal
    <3>2. ~cancelRequested'[r] /\ (Rows!End(r) \/ UNCHANGED rowVars)
      BY <1>1, <2>1, <2>3, <3>1, MarkExact
    <3>3. pc'[r] = "done"
      BY <1>1, <2>3 DEF TypeOK
    <3> QED BY <1>1, <2>1, <2>2, <3>2, <3>3 DEF RowStep
  <2>4. ASSUME status' = [status EXCEPT ![r] = "running"], UNCHANGED cancelRequested,
               GoTo(r, "streaming")
        PROVE  SocketRun(r)' /\ RowStep(r)
    <3>1. Rows!Start(r)
      BY <2>1, <2>4 DEF Rows!Start
    <3>2. pc'[r] = "streaming" /\ status'[r] = "running" /\ ~cancelRequested'[r]
      BY <1>1, <2>1, <2>4 DEF TypeOK
    <3> QED BY <1>1, <2>1, <2>2, <3>1, <3>2 DEF RowStep
  <2> QED BY <1>3, <2>3, <2>4 DEF BeginWrite
<1>4. CASE StopOverSocket(r)
  <2>1. pc[r] \notin MidBlock /\ scan[r] = NoRow /\ UNCHANGED <<pc, cache, http, scan>>
    BY <1>4 DEF StopOverSocket, LoopFree
  <2>2. cancelReq'[r] <=> cancelReq[r] \/ pc[r] \in HasTask
    BY <1>1, <1>4, SignalEffect DEF StopOverSocket
  <2>3. status[r] \in Statuses /\ RequestCancel(r, status[r])
    BY <1>1, <1>4 DEF StopOverSocket, TypeOK
  <2>4. CASE status[r] = "queued"
    <3>1. /\ status' \in [Runs -> Statuses] /\ cancelRequested' \in [Runs -> BOOLEAN]
          /\ \A q \in Runs \ {r} :
               status'[q] = status[q] /\ cancelRequested'[q] = cancelRequested[q]
          /\ status'[r] = "cancelled" /\ cancelRequested'[r] = cancelRequested[r]
      BY <1>1, <2>3, <2>4, RequestCancelEffect
    <3>2. ~cancelRequested'[r]
      BY <1>1, <2>4, <3>1
    <3>3. "cancelled" \in Rows!Endings(r)
      BY <2>4 DEF Rows!Endings
    <3>4. Rows!End(r)
      BY <1>1, <3>1, <3>2, <3>3, EndEffect
    <3> QED BY <1>1, <2>1, <2>2, <2>4, <3>1, <3>2, <3>4 DEF RowStep, HasTask
  <2>5. CASE status[r] = "running"
    <3>1. cancelRequested' = [cancelRequested EXCEPT ![r] = TRUE] /\ UNCHANGED status
      BY <2>3, <2>5 DEF RequestCancel
    <3>2. Rows!AcceptStop(r)
      BY <2>5, <3>1 DEF Rows!AcceptStop
    <3> QED BY <1>1, <2>1, <2>2, <2>5, <3>1, <3>2 DEF RowStep, HasTask
  <2>6. CASE status[r] \notin Active
    <3>1. UNCHANGED rowVars
      BY <2>3, <2>6 DEF RequestCancel, Active
    <3>2. RowOf(r)' = RowOf(r)
      BY <3>1 DEF rowVars, RowOf
    <3> QED BY <1>1, <2>1, <2>2, <2>6, <3>1, <3>2 DEF RowStep, HasTask, rowVars
  <2> QED BY <2>4, <2>5, <2>6 DEF Active
<1>5. CASE WatchdogMark(r)
  <2>1. /\ scan[r] = RowOf(r) /\ status[r] \in Active /\ pc[r] \notin MidBlock
        /\ scan[r].status = status[r]
    BY <1>1, <1>5, RowOfType DEF WatchdogMark, RunInv, CopiesAreOld
  <2>2. cancelReq'[r] <=> cancelReq[r] \/ pc[r] \in HasTask
    BY <1>1, <1>5, SignalEffect DEF WatchdogMark
  <2>3. scan'[r] = NoRow /\ UNCHANGED <<pc, cache, http>>
    BY <1>1, <1>5 DEF WatchdogMark, TypeOK
  <2>4. PICK s \in IF status[r] = "queued" THEN {"timeout"} ELSE {"timeout", "stale"} :
          Mark(r, s, RowOf(r))
    BY <1>5, <2>1 DEF WatchdogMark
  <2>5. s \in Rows!Endings(r) /\ s \in Statuses
    BY <2>1, <2>4 DEF Rows!Endings, Rows!Terminal, Active, Statuses, Terminal
  <2>6. ~cancelRequested'[r] /\ (Rows!End(r) \/ UNCHANGED rowVars)
    BY <1>1, <2>4, <2>5, MarkExact
  <2>7. status'[r] # "queued"
    BY <1>1, <2>4, MarkTerminal DEF Terminal
  <2> QED BY <1>1, <2>1, <2>2, <2>3, <2>6, <2>7 DEF RowStep, HasTask
<1> QED BY <1>2, <1>3, <1>4, <1>5

\* A thread of a stop has nothing to do.
LEMMA RunSocketInv ==
  ASSUME HttpStops = {}, LifecycleInv, SocketInv, NEW r \in Runs, RunNext(r)
  PROVE  SocketRun(r)' /\ RowStep(r)
<1>1. ~HttpRead(r) /\ ~HttpThread(r)
  BY DEF SocketInv, SocketRun, HttpRead, HttpThread, HttpCommit, HttpSetEvent, HttpCancelTask
<1> QED BY <1>1, ReadSocketInv, EndSocketInv, WriteSocketInv
        DEF RunNext, Handler, Task, Stream, RowStep

\* A crash, a restart, a shutdown and the end of the conversation leave the rows alone.
LEMMA ProcessSocketInv ==
  ASSUME LifecycleInv, SocketInv, DeleteConversation \/ Crash \/ BeginShutdown \/ Restart
  PROVE  SocketInv' /\ UNCHANGED rowVars
<1>1. UNCHANGED rowVars
  BY DEF DeleteConversation, Crash, BeginShutdown, Restart, Reset, dbVars, rowVars
<1> SUFFICES ASSUME NEW q \in Runs PROVE SocketRun(q)'
  BY <1>1 DEF SocketInv
<1>2. RowOf(q)' = RowOf(q) /\ SocketRun(q)
  BY <1>1 DEF RowOf, rowVars, SocketInv
<1> USE DEF SocketRun, CopiesAreExact, RowFollows, StopReachesTask, MidBlock, Asking
<1>3. CASE DeleteConversation
  BY <1>1, <1>2, <1>3 DEF DeleteConversation, rowVars, signalVars
<1>4. CASE Reset
  BY <1>1, <1>2, <1>4 DEF Reset, rowVars
<1>5. CASE BeginShutdown
  <2>1. cancelReq[q] => cancelReq'[q]
    BY <1>5 DEF BeginShutdown
  <2> QED BY <1>1, <1>2, <1>5, <2>1 DEF BeginShutdown, rowVars
<1> QED BY <1>3, <1>4, <1>5 DEF Crash, Restart

\* Every step keeps the copies exact and does to the rows what RunStatus allows.
LEMMA NextSocketInv ==
  ASSUME HttpStops = {}
  PROVE  LifecycleInv /\ SocketInv /\ [Next]_vars =>
           SocketInv' /\ [Rows!Next]_(Rows!statusVars)
<1> SUFFICES ASSUME LifecycleInv, SocketInv, [Next]_vars
             PROVE  SocketInv' /\ [Rows!Next]_(Rows!statusVars)
  OBVIOUS
<1>1. CASE UNCHANGED vars
  <2>1. UNCHANGED <<status, cancelRequested, pc, cache, cancelReq, http, scan>>
    BY <1>1 DEF vars, dbVars, signalVars
  <2>2. ASSUME NEW q \in Runs PROVE SocketRun(q)'
    BY <2>1 DEF SocketInv, SocketRun, CopiesAreExact, RowFollows, StopReachesTask, RowOf
  <2> QED BY <2>1, <2>2 DEF SocketInv, Rows!statusVars
<1>2. ASSUME NEW r \in Runs, RunNext(r)
      PROVE  SocketInv' /\ [Rows!Next]_(Rows!statusVars)
  <2>1. SocketRun(r)' /\ RowStep(r)
    BY <1>2, RunSocketInv
  <2>2. SocketInv'
    BY <1>2, <2>1, RunNextInv, FrameSocketInv
  <2> QED BY <2>1, <2>2 DEF RowStep, Rows!Next, Rows!statusVars, rowVars
<1>3. CASE DeleteConversation \/ Crash \/ BeginShutdown \/ Restart
  BY <1>3, ProcessSocketInv DEF rowVars, Rows!statusVars
<1> QED BY <1>1, <1>2, <1>3 DEF Next, RunNext

\* As long as stops come over the socket, whoever they race with, the rows implement
\* the safety part of RunStatus: they start once, end once, and a run whose stop was
\* accepted does not end as if nobody had asked.
THEOREM RowsImplementRunStatus ==
  ASSUME HttpStops = {}
  PROVE  Spec => Rows!Safety
<1>1. Init => Rows!Init
  BY DEF Init, Rows!Init
<1>2. LifecycleInv /\ SocketInv /\ [Next]_vars => SocketInv' /\ [Rows!Next]_(Rows!statusVars)
  BY NextSocketInv
<1> QED BY <1>1, <1>2, InitSocketInv, LifecycleInvariant, PTL DEF Spec, Rows!Safety

=============================================================================
