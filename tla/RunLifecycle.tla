---------------------------- MODULE RunLifecycle ----------------------------
(***************************************************************************)
(* The life of chat runs of one conversation: the task_runs row and the    *)
(* assistant message in MySQL, and everybody who writes them.              *)
(*                                                                         *)
(*   - the socket handler creates the row and later enqueues the run;      *)
(*   - the executor streams the Gateway's answer and concludes the run;    *)
(*   - a stop request comes over the socket, on the event loop, or over    *)
(*     HTTP, on a worker thread;                                           *)
(*   - the watchdog ends runs that are too old or silent;                  *)
(*   - the process crashes, or shuts down and starts again.                *)
(*                                                                         *)
(* The event loop runs one block of code between two awaits at a time, but *)
(* a block commits several transactions, and what a worker thread commits  *)
(* comes between them.  So an action ends at an await or at the read that  *)
(* a later commit of the same block relies on; LoopFree keeps a second     *)
(* block of the loop from starting inside one.  The executor's session     *)
(* hands out the same ORM object until it commits, so what it knows of the *)
(* row is the snapshot of its last commit and refresh ("cache").  UPDATE   *)
(* writes changed columns only and checks no version.                      *)
(***************************************************************************)
EXTENDS Naturals, FiniteSets

CONSTANTS
  Runs,
  HttpStops,     \* runs that may be stopped over HTTP
  SocketStops,   \* runs that may be stopped over the socket
  MaxRestarts    \* bound on crashes and shutdowns

ASSUME RunLifecycleAssumption ==
  /\ HttpStops \subseteq Runs
  /\ SocketStops \subseteq Runs
  /\ MaxRestarts \in Nat

VARIABLES
  status,          \* task_runs.status, "none" before the row exists
  cancelRequested, \* task_runs.cancel_requested
  message,         \* raw_payload.status of the run's assistant message
  deleted,         \* the conversation was deleted
  pc,              \* where the run is in the socket handler, queue or executor
  cache,           \* the executor's copy of the row
  event,           \* cancel_event
  cancelReq,       \* Task.cancel() was called on the run's task
  http,            \* the worker thread that serves POST /runs/{id}/cancel
  scan,            \* the row as the watchdog read it
  phase,           \* of the process: up or stopping
  restarts

rowVars == <<status, cancelRequested>>
dbVars == <<status, cancelRequested, message, deleted>>
signalVars == <<event, cancelReq>>
processVars == <<phase, restarts>>
vars == <<dbVars, pc, cache, signalVars, http, scan, processVars>>

Active == {"queued", "running"}
Terminal == {"success", "failed", "cancelled", "timeout", "stale"}
Statuses == Active \cup Terminal \cup {"none"}
Row == [status : Statuses, flag : BOOLEAN]
NoRow == [status |-> "none", flag |-> FALSE]

\* Inside a block of the event loop, between two of its transactions.
MidBlock == {"starting", "answering", "unwinding", "failing"}
\* The run has a task that is not done, so the registry finds its dispatcher.
HasTask == {"queued", "streaming", "telling"} \cup MidBlock

TypeOK ==
  /\ status \in [Runs -> Statuses]
  /\ cancelRequested \in [Runs -> BOOLEAN]
  /\ message \in [Runs -> {"none", "streaming", "success", "failed", "timeout", "cancelled"}]
  /\ deleted \in BOOLEAN
  /\ pc \in [Runs -> HasTask \cup {"none", "created", "done", "lost"}]
  /\ cache \in [Runs -> Row]
  /\ event \in [Runs -> BOOLEAN]
  /\ cancelReq \in [Runs -> BOOLEAN]
  /\ http \in [Runs -> {"idle", "sawQueued", "sawRunning", "committed", "set"}]
  /\ scan \in [Runs -> Row]
  /\ phase \in {"up", "stopping"}
  /\ restarts \in 0..MaxRestarts

Init ==
  /\ status = [r \in Runs |-> "none"]
  /\ cancelRequested = [r \in Runs |-> FALSE]
  /\ message = [r \in Runs |-> "none"]
  /\ deleted = FALSE
  /\ pc = [r \in Runs |-> "none"]
  /\ cache = [r \in Runs |-> NoRow]
  /\ event = [r \in Runs |-> FALSE]
  /\ cancelReq = [r \in Runs |-> FALSE]
  /\ http = [r \in Runs |-> "idle"]
  /\ scan = [r \in Runs |-> NoRow]
  /\ phase = "up"
  /\ restarts = 0

-----------------------------------------------------------------------------
\* The row, and the helpers of run_service.py that write it.

RowOf(r) == [status |-> status[r], flag |-> cancelRequested[r]]

LoopFree == \A r \in Runs : pc[r] \notin MidBlock /\ scan[r] = NoRow

GoTo(r, where) == pc' = [pc EXCEPT ![r] = where]

\* mark_task_run_*: decided on the caller's copy of the row, written to the row;
\* cancel_requested = False is written if the copy holds True.
Mark(r, s, seen) ==
  IF seen.status \in Terminal
    THEN UNCHANGED rowVars
    ELSE /\ status' = [status EXCEPT ![r] = s]
         /\ cancelRequested' = [cancelRequested EXCEPT ![r] = @ /\ ~seen.flag]

\* upsert_assistant_message_for_run
Upsert(r, m) == message' = [message EXCEPT ![r] = m]

\* The upsert of a conclusion: of the text streamed so far if there is any, and
\* nothing once the conversation is gone.
UpsertPartial(r, m) ==
  IF deleted THEN UNCHANGED message
  ELSE \/ Upsert(r, m)
       \/ message[r] = "none" /\ UNCHANGED message

-----------------------------------------------------------------------------
\* The socket handler.

Submit(r) ==
  /\ phase = "up" /\ LoopFree /\ ~deleted
  /\ pc[r] = "none"
  /\ status' = [status EXCEPT ![r] = "queued"]
  /\ GoTo(r, "created")
  /\ UNCHANGED <<cancelRequested, message, deleted, cache, signalVars, http, scan, processVars>>

\* It saves the user's message, acknowledges and hands the run to the queue.
Enqueue(r) ==
  /\ LoopFree
  /\ pc[r] = "created"
  /\ GoTo(r, "queued")
  /\ UNCHANGED <<dbVars, cache, signalVars, http, scan, processVars>>

\* An exception in between: the row exists, the run was never enqueued.
Abandon(r) ==
  /\ LoopFree
  /\ pc[r] = "created"
  /\ GoTo(r, "lost")
  /\ UNCHANGED <<dbVars, cache, signalVars, http, scan, processVars>>

-----------------------------------------------------------------------------
\* The executor: start.

\* The queue drops a run that was stopped before its task function started.
DropQueued(r) ==
  /\ LoopFree
  /\ pc[r] = "queued"
  /\ event[r] \/ cancelReq[r]
  /\ GoTo(r, "done")
  /\ UNCHANGED <<dbVars, cache, signalVars, http, scan, processVars>>

BeginRead(r) ==
  /\ LoopFree
  /\ pc[r] = "queued"
  /\ ~event[r] /\ ~cancelReq[r]
  /\ GoTo(r, IF deleted \/ status[r] \in Terminal THEN "done" ELSE "starting")
  /\ cache' = [cache EXCEPT ![r] = RowOf(r)]
  /\ UNCHANGED <<dbVars, signalVars, http, scan, processVars>>

\* The run fails if one of its files is gone, is cancelled if that was asked,
\* and otherwise is marked running and asks the Gateway.
BeginWrite(r) ==
  /\ pc[r] = "starting"
  /\ \/ Mark(r, "failed", cache[r]) /\ GoTo(r, "done")
     \/ /\ event[r] \/ cache[r].flag
        /\ Mark(r, "cancelled", cache[r]) /\ GoTo(r, "done")
     \/ /\ ~event[r] /\ ~cache[r].flag
        /\ status' = [status EXCEPT ![r] = "running"]
        /\ UNCHANGED cancelRequested
        /\ GoTo(r, "streaming")
  /\ cache' = [cache EXCEPT ![r] = RowOf(r)']
  /\ UNCHANGED <<message, deleted, signalVars, http, scan, processVars>>

-----------------------------------------------------------------------------
\* The executor: the stream.  A cancelled task sees CancelledError first.

Streams(r) == LoopFree /\ pc[r] = "streaming" /\ ~cancelReq[r]

\* What it checks before it handles an event of the Gateway.
MayGoOn(r) == ~event[r] /\ cache[r].status \notin Terminal /\ ~cache[r].flag

Heartbeat(r) ==
  /\ Streams(r) /\ MayGoOn(r)
  /\ cache' = [cache EXCEPT ![r] = RowOf(r)]
  /\ UNCHANGED <<dbVars, pc, signalVars, http, scan, processVars>>

\* Mutant: the message takes over the status of the row.
PersistRowStatus(r) ==
  /\ Streams(r) /\ MayGoOn(r)
  /\ Upsert(r, status[r])
  /\ UNCHANGED <<rowVars, deleted, pc, cache, signalVars, http, scan, processVars>>

\* persist_output, every so often: text, heartbeat and the assistant message.
Persist(r) ==
  /\ Streams(r) /\ MayGoOn(r)
  /\ cache' = [cache EXCEPT ![r] = RowOf(r)]
  /\ IF deleted
       THEN GoTo(r, "failing") /\ UNCHANGED message
       ELSE Upsert(r, "streaming") /\ UNCHANGED pc
  /\ UNCHANGED <<rowVars, deleted, signalVars, http, scan, processVars>>

\* The run was ended by somebody else.
SeeTerminal(r) ==
  /\ Streams(r)
  /\ ~event[r] /\ cache[r].status \in Terminal
  /\ GoTo(r, "done")
  /\ UNCHANGED <<dbVars, cache, signalVars, http, scan, processVars>>

\* Mutant: the row is marked first, the message is left to a later step.
AnswerUnsaved(r) ==
  /\ Streams(r)
  /\ cache' = [cache EXCEPT ![r] = RowOf(r)]
  /\ GoTo(r, "answering")
  /\ UNCHANGED <<dbVars, signalVars, http, scan, processVars>>

\* done from the Gateway, the end of a stream that had text, or a deadline after
\* enough silence.  The message comes first, with a refresh of the row.
Answer(r) ==
  /\ Streams(r)
  /\ cache' = [cache EXCEPT ![r] = RowOf(r)]
  /\ IF deleted
       THEN GoTo(r, "failing") /\ UNCHANGED message
       ELSE GoTo(r, "answering") /\ Upsert(r, "success")
  /\ UNCHANGED <<rowVars, deleted, signalVars, http, scan, processVars>>

\* The row is marked; what remains of _finish_success is to tell the sockets.
MarkSuccess(r) ==
  /\ pc[r] = "answering"
  /\ Mark(r, "success", cache[r])
  /\ GoTo(r, "telling")
  /\ UNCHANGED <<message, deleted, cache, signalVars, http, scan, processVars>>

\* The row and the notice of a run that ends without an answer.
Conclude(r, s) ==
  /\ Mark(r, s, cache[r])
  /\ IF deleted THEN UNCHANGED message ELSE Upsert(r, s)
  /\ UNCHANGED <<deleted, cache, signalVars, http, scan, processVars>>

\* An error event of the Gateway concludes the run, which is then told.
ErrorEvent(r) ==
  /\ Streams(r) /\ MayGoOn(r)
  /\ \E s \in {"failed", "timeout"} : Conclude(r, s)
  /\ GoTo(r, "telling")

\* Mutant: a deadline that does not end the run's row.
DeadlineUnmarked(r) ==
  /\ Streams(r)
  /\ GoTo(r, "done")
  /\ UNCHANGED <<dbVars, cache, signalVars, http, scan, processVars>>

\* asyncio.timeout expires: the row is marked without reading it again.
Deadline(r) == Streams(r) /\ Conclude(r, "timeout") /\ GoTo(r, "done")

\* The stream ends before it brought any text.
EndEmpty(r) ==
  /\ Streams(r)
  /\ message[r] = "none"
  /\ Mark(r, "failed", cache[r])
  /\ GoTo(r, "done")
  /\ UNCHANGED <<message, deleted, cache, signalVars, http, scan, processVars>>

\* The broadcasts after the mark of a success or of an error event end, or are cut
\* short by a stop or an exception, whose handlers find that the row has ended.
Told(r) ==
  /\ LoopFree
  /\ pc[r] = "telling"
  /\ GoTo(r, "done")
  /\ UNCHANGED <<dbVars, cache, signalVars, http, scan, processVars>>

\* They are awaited inside asyncio.timeout.  If it expires there, its handler leaves
\* the row, which has ended, and writes the message again: of a timeout, or after
\* enough silence of a success.
LateDeadline(r) ==
  /\ LoopFree
  /\ pc[r] = "telling" /\ ~cancelReq[r]
  /\ IF deleted THEN UNCHANGED message ELSE \E m \in {"timeout", "success"} : Upsert(r, m)
  /\ GoTo(r, "done")
  /\ UNCHANGED <<rowVars, deleted, cache, signalVars, http, scan, processVars>>

-----------------------------------------------------------------------------
\* The executor: its two exception handlers read the row in a session of their
\* own, which is the copy they decide on.

Break(r) ==
  /\ Streams(r)
  /\ cache' = [cache EXCEPT ![r] = RowOf(r)]
  /\ GoTo(r, "failing")
  /\ UNCHANGED <<dbVars, signalVars, http, scan, processVars>>

MarkFailed(r) ==
  /\ pc[r] = "failing"
  /\ Mark(r, "failed", cache[r])
  /\ IF cache[r].status \in Terminal THEN UNCHANGED message ELSE UpsertPartial(r, "failed")
  /\ GoTo(r, "done")
  /\ UNCHANGED <<deleted, cache, signalVars, http, scan, processVars>>

CancelledErrorRaised(r) ==
  /\ event' = [event EXCEPT ![r] = TRUE]
  /\ cache' = [cache EXCEPT ![r] = RowOf(r)]
  /\ GoTo(r, "unwinding")
  /\ UNCHANGED <<dbVars, cancelReq, http, scan, processVars>>

\* CancelledError from the task, the receive loop or the checks of the event and
\* of the row.
StopSeen(r) ==
  /\ LoopFree
  /\ pc[r] = "streaming"
  /\ event[r] \/ cancelReq[r] \/ (cache[r].flag /\ cache[r].status \notin Terminal)
  /\ CancelledErrorRaised(r)

\* The Gateway itself says that the run was cancelled.
GatewayCancels(r) ==
  /\ Streams(r) /\ MayGoOn(r)
  /\ CancelledErrorRaised(r)

MarkCancelled(r) ==
  /\ pc[r] = "unwinding"
  /\ Mark(r, "cancelled", cache[r])
  /\ IF cache[r].status \in Terminal THEN UNCHANGED message ELSE UpsertPartial(r, "cancelled")
  /\ GoTo(r, "done")
  /\ UNCHANGED <<deleted, cache, signalVars, http, scan, processVars>>

-----------------------------------------------------------------------------
\* Stop requests.

\* Mutant: the event is set, the task is not cancelled.
SignalEventOnly(r) ==
  /\ event' = [event EXCEPT ![r] = @ \/ pc[r] \in HasTask]
  /\ UNCHANGED cancelReq

\* task_queue.cancel_task on the loop: event and task at once.
Signal(r) ==
  /\ event' = [event EXCEPT ![r] = @ \/ pc[r] \in HasTask]
  /\ cancelReq' = [cancelReq EXCEPT ![r] = @ \/ pc[r] \in HasTask]

\* request_task_run_cancel, decided on a copy of the row.
RequestCancel(r, seen) ==
  CASE seen = "queued" -> Mark(r, "cancelled", [status |-> seen, flag |-> FALSE])
    [] seen = "running" -> /\ cancelRequested' = [cancelRequested EXCEPT ![r] = TRUE]
                           /\ UNCHANGED status
    [] OTHER -> UNCHANGED rowVars

\* Mutant: the abort fast-path is not taken.
StopOverSocketUnsignalled(r) ==
  /\ r \in SocketStops /\ phase = "up" /\ LoopFree
  /\ status[r] # "none"
  /\ RequestCancel(r, status[r])
  /\ UNCHANGED <<message, deleted, pc, cache, signalVars, http, scan, processVars>>

StopOverSocket(r) ==
  /\ r \in SocketStops /\ phase = "up" /\ LoopFree
  /\ status[r] # "none"
  /\ RequestCancel(r, status[r])
  /\ Signal(r)
  /\ UNCHANGED <<message, deleted, pc, cache, http, scan, processVars>>

\* POST /runs/{id}/cancel, one step of its thread at a time: it reads the row,
HttpRead(r) ==
  /\ r \in HttpStops /\ http[r] = "idle"
  /\ status[r] # "none"
  /\ http' = [http EXCEPT ![r] = CASE status[r] = "queued" -> "sawQueued"
                                   [] status[r] = "running" -> "sawRunning"
                                   [] OTHER -> "committed"]
  /\ UNCHANGED <<dbVars, pc, cache, signalVars, scan, processVars>>

\* commits its change,
HttpCommit(r) ==
  /\ \/ http[r] = "sawQueued" /\ RequestCancel(r, "queued")
     \/ http[r] = "sawRunning" /\ RequestCancel(r, "running")
  /\ http' = [http EXCEPT ![r] = "committed"]
  /\ UNCHANGED <<message, deleted, pc, cache, signalVars, scan, processVars>>

\* sets the event if the run has a task,
HttpSetEvent(r) ==
  /\ http[r] = "committed"
  /\ event' = [event EXCEPT ![r] = @ \/ pc[r] \in HasTask]
  /\ http' = [http EXCEPT ![r] = IF pc[r] \in HasTask THEN "set" ELSE "idle"]
  /\ UNCHANGED <<dbVars, pc, cache, cancelReq, scan, processVars>>

\* and cancels the task if it is still not done.
HttpCancelTask(r) ==
  /\ http[r] = "set"
  /\ cancelReq' = [cancelReq EXCEPT ![r] = @ \/ pc[r] \in HasTask]
  /\ http' = [http EXCEPT ![r] = "idle"]
  /\ UNCHANGED <<dbVars, pc, cache, event, scan, processVars>>

\* DELETE /conversations/{id}, in one transaction of a worker thread.
DeleteConversation ==
  /\ ~deleted
  /\ deleted' = TRUE
  /\ message' = [r \in Runs |-> "none"]
  /\ UNCHANGED <<rowVars, pc, cache, signalVars, http, scan, processVars>>

-----------------------------------------------------------------------------
\* The watchdog.  scan_stale_task_runs reads the row once: db.get hands out the
\* same object again.  The ages it compares are abstracted: any run may be old.

\* Mutant: only running rows are looked at.
WatchdogReadRunning(r) ==
  /\ phase = "up" /\ LoopFree
  /\ status[r] = "running"
  /\ scan' = [scan EXCEPT ![r] = RowOf(r)]
  /\ UNCHANGED <<dbVars, pc, cache, signalVars, http, processVars>>

WatchdogRead(r) ==
  /\ phase = "up" /\ LoopFree
  /\ status[r] \in Active
  /\ scan' = [scan EXCEPT ![r] = RowOf(r)]
  /\ UNCHANGED <<dbVars, pc, cache, signalVars, http, processVars>>

\* Mutant: the row is marked, its task goes on.
WatchdogMarkOnly(r) ==
  /\ scan[r] # NoRow
  /\ \E s \in IF scan[r].status = "queued" THEN {"timeout"} ELSE {"timeout", "stale"} :
       Mark(r, s, scan[r])
  /\ scan' = [scan EXCEPT ![r] = NoRow]
  /\ UNCHANGED <<message, deleted, pc, cache, signalVars, http, processVars>>

WatchdogMark(r) ==
  /\ scan[r] # NoRow
  /\ Signal(r)
  /\ \E s \in IF scan[r].status = "queued" THEN {"timeout"} ELSE {"timeout", "stale"} :
       Mark(r, s, scan[r])
  /\ scan' = [scan EXCEPT ![r] = NoRow]
  /\ UNCHANGED <<message, deleted, pc, cache, http, processVars>>

-----------------------------------------------------------------------------
\* Crash, shutdown and restart.  Nothing but the database survives.

Reset ==
  /\ pc' = [r \in Runs |-> IF pc[r] = "none" THEN "none" ELSE "lost"]
  /\ cache' = [r \in Runs |-> NoRow]
  /\ event' = [r \in Runs |-> FALSE]
  /\ cancelReq' = [r \in Runs |-> FALSE]
  /\ http' = [r \in Runs |-> "idle"]
  /\ scan' = [r \in Runs |-> NoRow]
  /\ phase' = "up"
  /\ restarts' = restarts + 1
  /\ UNCHANGED dbVars

Crash == restarts < MaxRestarts /\ Reset

\* The queue's shutdown asks every task to stop and waits for them.
BeginShutdown ==
  /\ phase = "up" /\ LoopFree
  /\ restarts < MaxRestarts
  /\ phase' = "stopping"
  /\ event' = [r \in Runs |-> event[r] \/ pc[r] \in HasTask]
  /\ cancelReq' = [r \in Runs |-> cancelReq[r] \/ pc[r] \in HasTask]
  /\ UNCHANGED <<dbVars, pc, cache, http, scan, restarts>>

Restart ==
  /\ phase = "stopping"
  /\ \A r \in Runs : pc[r] \notin HasTask \cup {"created"}
  /\ Reset

-----------------------------------------------------------------------------
Handler(r) == Enqueue(r) \/ Abandon(r)

Task(r) ==
  \/ DropQueued(r) \/ BeginRead(r) \/ BeginWrite(r)
  \/ MarkSuccess(r) \/ Told(r) \/ MarkFailed(r) \/ StopSeen(r) \/ MarkCancelled(r)

Stream(r) ==
  \/ Heartbeat(r) \/ Persist(r) \/ SeeTerminal(r) \/ Answer(r)
  \/ ErrorEvent(r) \/ GatewayCancels(r) \/ EndEmpty(r) \/ Break(r)

HttpThread(r) == HttpCommit(r) \/ HttpSetEvent(r) \/ HttpCancelTask(r)

Next ==
  \/ \E r \in Runs :
       \/ Submit(r) \/ Handler(r) \/ Task(r) \/ Stream(r) \/ Deadline(r) \/ LateDeadline(r)
       \/ StopOverSocket(r) \/ HttpRead(r) \/ HttpThread(r)
       \/ WatchdogRead(r) \/ WatchdogMark(r)
  \/ DeleteConversation
  \/ Crash \/ BeginShutdown \/ Restart

\* The loop runs what is ready, broadcasts return, threads go on, the executor's
\* deadline expires, and the watchdog's limits are all finite: a row that stays
\* active is too old in the end.  Nothing is assumed of the Gateway, the users or
\* the process.
Fairness ==
  /\ \A r \in Runs :
       /\ WF_vars(Handler(r)) /\ WF_vars(Task(r)) /\ WF_vars(Deadline(r))
       /\ WF_vars(HttpThread(r))
       /\ WF_vars(WatchdogRead(r)) /\ WF_vars(WatchdogMark(r))
  /\ WF_vars(Restart)

Spec == Init /\ [][Next]_vars /\ Fairness

-----------------------------------------------------------------------------
\* Properties.

\* A run is reported as a success only after its answer is in the database, whatever
\* crashes and stops come in between (or its conversation is gone).  Nothing takes
\* the answer's status back later, except the executor itself: its deadline may
\* expire while it tells the sockets.
AnswerBeforeSuccess ==
  \A r \in Runs : status[r] = "success" =>
    \/ message[r] = "success"
    \/ message[r] = "timeout" /\ pc[r] \in {"done", "lost"}
    \/ deleted

\* An executor that has ended leaves its run in a final status: nobody waits for
\* a run that no code is working on.  The exceptions are a run that found its
\* conversation deleted and one that a shutdown took out of the queue.
EndedRunIsSettled ==
  \A r \in Runs :
    pc[r] = "done" => status[r] \in Terminal \/ deleted \/ phase = "stopping"

\* Nobody streams into a run that has ended, unless somebody is about to stop it.
NoOrphanStream ==
  \A r \in Runs :
    status[r] \in Terminal /\ pc[r] = "streaming" =>
      event[r] \/ cancelReq[r] \/ http[r] \in {"committed", "set"}

\* Executor, watchdog and socket never end a run twice: if a row that has ended changes
\* its status, then between that of a stop over HTTP and another one.
EndsConflictOnHttpStop ==
  [][\A r \in Runs : status[r] \in Terminal /\ status'[r] # status[r] =>
       r \in HttpStops /\ "cancelled" \in {status[r], status'[r]}]_vars

\* Every run ends and stays ended, through stops, deletion, crash and restart.
EveryRunEnds == \A r \in Runs : status[r] # "none" ~> [](status[r] \in Terminal)

\* As long as stops come over the socket, the rows behave as their readers expect.
Rows == INSTANCE RunStatus WITH stop <- cancelRequested

ImplementsRunStatus == Rows!Spec

\* backend/README.md: "Watchdog updates do not overwrite terminal runs."
WatchdogKeepsTerminal ==
  [][\A r \in Runs : WatchdogMark(r) /\ status[r] \in Terminal => status'[r] = status[r]]_vars

\* backend/README.md: stop requests "persist the final `cancelled` status": a
\* request that was accepted for a running run is not answered with a success.
AcceptedStopIsKept ==
  [][\A r \in Runs : cancelRequested[r] /\ status[r] = "running" => status'[r] # "success"]_vars

=============================================================================
