----------------------------- MODULE JobRunner ------------------------------
(***************************************************************************)
(* The life of one job: a runner of the event loop, the script it starts   *)
(* in the workspace of the agent, and everybody who stops the job.         *)
(*                                                                         *)
(* The three runners (daoban, ppt, mysql) have the same course and differ  *)
(* in what they signal, what they accept as a result and what they do with *)
(* an error after the success was stored.  A definition that stands for    *)
(* all three is mapped to one of them.                                     *)
(*                                                                         *)
(* An action ends at an await, or at the read a later commit of the same   *)
(* block relies on, since a worker thread can commit a stop in between.    *)
(* The two tasks that read the script's pipes are one reader here: it      *)
(* ends when script and helpers have closed the pipes, and it breaks on a  *)
(* line beyond the limit of the stream or an error of the database.  A     *)
(* script whose output nobody reads may block for ever.                    *)
(*                                                                         *)
(* Broadcasts never raise.  The conversation is not deleted meanwhile.     *)
(***************************************************************************)
EXTENDS Naturals

CONSTANTS
  Kinds,     \* runners the job may have
  MaxStops   \* bound on requests to stop the job

ASSUME JobRunnerAssumption ==
  /\ Kinds \subseteq {"daoban", "ppt", "mysql"}
  /\ MaxStops \in Nat

VARIABLES
  kind,       \* the runner
  status,     \* task_runs.status
  message,    \* raw_payload.status of the run's assistant message
  pc,         \* where the runner is
  guarded,    \* it is in the try block, not in an exception handler
  seen,       \* task_runs.status as its session last read it
  verdict,    \* what it is about to broadcast, or why it stops the script
  told,       \* the last run_status broadcast to the conversation
  event,      \* cancel_event
  cancelReq,  \* Task.cancel() was called and CancelledError not yet raised
  script,     \* the process of the runner
  helper,     \* a process the script started, which has its pipes
  exitCode,   \* of the script
  left,       \* what the script has left: a result it names, one it does not, or none
  report,     \* whose output the answer presents
  reader,     \* the tasks that read the pipes
  http,       \* the worker thread that serves POST /runs/{id}/cancel
  stops,      \* requests so far
  closing     \* the backend process shuts down

rowVars == <<status, message, seen>>
runnerVars == <<pc, guarded, verdict>>
signalVars == <<event, cancelReq>>
processVars == <<script, helper, exitCode, left>>
stopVars == <<http, stops, closing>>
vars == <<kind, rowVars, runnerVars, told, signalVars, processVars, report, reader, stopVars>>

-----------------------------------------------------------------------------
Terminal == {"success", "failed", "cancelled", "stale"}
Outcomes == {"success", "failed", "cancelled"}

PCs == {"queued", "preparing", "marking", "starting", "waiting", "gathering",
        "answering", "crediting", "registering", "stopping", "reaping", "failing",
        "recording", "unwinding", "cancelling", "telling", "ending", "done", "lost"}

TypeOK ==
  /\ kind \in Kinds
  /\ status \in {"queued", "running"} \cup Terminal
  /\ seen \in {"queued", "running"} \cup Terminal
  /\ message \in {"none"} \cup Outcomes
  /\ pc \in PCs /\ guarded \in BOOLEAN
  /\ verdict \in {"none"} \cup Outcomes
  /\ told \in {"none", "running"} \cup Outcomes
  /\ event \in BOOLEAN /\ cancelReq \in BOOLEAN
  /\ script \in {"none", "alive", "signalled", "exited", "stopped"}
  /\ helper \in {"none", "alive", "signalled", "gone"}
  /\ exitCode \in {"none", "zero", "nonzero"}
  /\ left \in {"none", "named", "unnamed", "nothing"}
  /\ report \in {"none", "own", "other"}
  /\ reader \in {"off", "reading", "eof", "broken"}
  /\ http \in {"idle", "sawQueued", "committed", "set"}
  /\ stops \in 0..MaxStops
  /\ closing \in BOOLEAN

Init ==
  /\ kind \in Kinds
  /\ status = "queued" /\ seen = "queued" /\ message = "none"
  /\ pc = "queued" /\ guarded = TRUE /\ verdict = "none"
  /\ told = "none"
  /\ event = FALSE /\ cancelReq = FALSE
  /\ script = "none" /\ helper = "none" /\ exitCode = "none" /\ left = "none"
  /\ report = "none" /\ reader = "off"
  /\ http = "idle" /\ stops = 0 /\ closing = FALSE

HasTask == pc \notin {"done", "lost"}
Running == {"alive", "signalled"}
ScriptRuns == script \in Running
HelperRuns == helper \in Running
\* Nobody can write to the pipes any more.
PipesClosed == ~ScriptRuns /\ ~HelperRuns

GoTo(p) == pc' = p /\ UNCHANGED <<guarded, verdict>>

-----------------------------------------------------------------------------
\* SIGTERM.  The daoban and the ppt runner signal the script they started, the
\* mysql runner its process group, as long as the script has not exited.

TerminateScript ==
  /\ script' = IF script = "alive" THEN "signalled" ELSE script
  /\ UNCHANGED <<helper, exitCode, left>>

TerminateGroup ==
  /\ script' = IF script = "alive" THEN "signalled" ELSE script
  /\ helper' = IF ScriptRuns /\ helper = "alive" THEN "signalled" ELSE helper
  /\ UNCHANGED <<exitCode, left>>

Terminate == IF kind = "mysql" THEN TerminateGroup ELSE TerminateScript

\* Mutant: the script gets all the time it wants.
WaitForExit ==
  /\ pc = "stopping" /\ ScriptRuns
  /\ UNCHANGED vars

\* stop_process sends SIGKILL when the script is still there after ten seconds, and
\* waits for its end.
Kill ==
  /\ pc = "stopping" /\ ScriptRuns
  /\ script' = "stopped" /\ exitCode' = "nonzero" /\ left' = "nothing"
  /\ helper' = IF kind = "mysql" /\ HelperRuns THEN "gone" ELSE helper
  /\ GoTo("reaping")
  /\ UNCHANGED <<kind, rowVars, told, signalVars, report, reader, stopVars>>

AfterStop == IF verdict = "cancelled" THEN "unwinding" ELSE "failing"

\* That wait begins before asyncio knows of the exit.  Depending on the release it
\* ends with the exit, or only when the pipes have been read to their end, which a
\* helper that has them, or a broken reader, can put off for ever.
Reaped ==
  /\ pc = "reaping"
  /\ GoTo(AfterStop)
  /\ UNCHANGED <<kind, rowVars, told, signalVars, processVars, report, reader, stopVars>>

-----------------------------------------------------------------------------
\* The runner: start.

\* The queue drops a job that was stopped before its task function started.
DropQueued ==
  /\ pc = "queued" /\ (event \/ cancelReq)
  /\ GoTo("done")
  /\ UNCHANGED <<kind, rowVars, told, signalVars, processVars, report, reader, stopVars>>

Begin ==
  /\ pc = "queued" /\ ~event /\ ~cancelReq
  /\ GoTo(IF status \in Terminal THEN "done" ELSE "preparing")
  /\ UNCHANGED <<kind, rowVars, told, signalVars, processVars, report, reader, stopVars>>

\* It commits what it knows of the job and reads the row again, or refuses the
\* job: attachments the ppt script cannot read, no dates for the mysql script.
Prepare ==
  /\ pc = "preparing"
  /\ \/ GoTo("marking")
     \/ kind \in {"ppt", "mysql"} /\ GoTo("failing")
  /\ seen' = status
  /\ UNCHANGED <<kind, status, message, told, signalVars, processVars, report, reader, stopVars>>

\* Without a look at whether it did mark the row, the runner goes on.
MarkRunning ==
  /\ pc = "marking"
  /\ status' = IF seen \in Terminal THEN status ELSE "running"
  /\ GoTo("starting")
  /\ UNCHANGED <<kind, message, seen, told, signalVars, processVars, report, reader, stopVars>>

\* Three events are broadcast and the process is created.  A task that is
\* cancelled meanwhile leaves no process.
Spawn ==
  /\ pc = "starting" /\ ~cancelReq
  /\ told' = "running"
  /\ script' = "alive"
  /\ reader' = "reading"
  /\ GoTo("waiting")
  /\ UNCHANGED <<kind, rowVars, signalVars, helper, exitCode, left, report, stopVars>>

-----------------------------------------------------------------------------
\* The runner: the script at work.

Heartbeat ==
  /\ pc = "waiting" /\ ScriptRuns /\ ~event /\ ~cancelReq
  /\ told' = "running"
  /\ UNCHANGED <<kind, rowVars, runnerVars, signalVars, processVars, report, reader, stopVars>>

\* Mutant: the readers are not waited for.
SkipReaders ==
  /\ pc = "waiting" /\ script \in {"exited", "stopped"} /\ ~cancelReq
  /\ GoTo(IF exitCode = "zero" /\ left = "named" THEN "answering" ELSE "failing")
  /\ UNCHANGED <<kind, rowVars, told, signalVars, processVars, report, reader, stopVars>>

SeeExit ==
  /\ pc = "waiting" /\ script \in {"exited", "stopped"} /\ ~cancelReq
  /\ GoTo("gathering")
  /\ UNCHANGED <<kind, rowVars, told, signalVars, processVars, report, reader, stopVars>>

\* A line is stored as an event of the run and broadcast, whatever the row says
\* and even after the runner has ended.
ReadLine ==
  /\ reader = "reading"
  /\ told' = "running"
  /\ UNCHANGED <<kind, rowVars, runnerVars, signalVars, processVars, report, reader, stopVars>>

ReadEof ==
  /\ reader = "reading" /\ PipesClosed
  /\ reader' = "eof"
  /\ UNCHANGED <<kind, rowVars, runnerVars, told, signalVars, processVars, report, stopVars>>

\* The exception stays in the reader's task until the script has exited.
ReaderBreaks ==
  /\ reader = "reading"
  /\ reader' = "broken"
  /\ UNCHANGED <<kind, rowVars, runnerVars, told, signalVars, processVars, report, stopVars>>

-----------------------------------------------------------------------------
\* What the runners accept of a script that has exited with zero.

\* Mutant: the outputs are not inspected.
AcceptsAnyDaoban == report' = "own"

\* The expected files are in the run's own directory.
AcceptsDaoban == left # "nothing" /\ report' = "own"

\* A JSON object with ok and a path on stdout.
AcceptsPpt == left = "named" /\ report' = "own"

\* A directory named on stdout, or else the one written last below the root that
\* all mysql jobs share.
AcceptsMysql ==
  \/ left = "named" /\ report' = "own"
  \/ left = "unnamed" /\ report' \in {"own", "other"}
  \/ left = "nothing" /\ report' = "other"

Accepts ==
  CASE kind = "daoban" -> AcceptsDaoban
    [] kind = "ppt" -> AcceptsPpt
    [] OTHER -> AcceptsMysql

\* The readers are done and the result is good.
Accept ==
  /\ pc = "gathering" /\ reader = "eof" /\ ~cancelReq
  /\ exitCode = "zero"
  /\ Accepts
  /\ GoTo("answering")
  /\ UNCHANGED <<kind, rowVars, told, signalVars, processVars, reader, stopVars>>

\* The exit code, the output, or (ok: false) what the script itself says is bad.
Refuse ==
  /\ pc = "gathering" /\ reader = "eof" /\ ~cancelReq
  /\ GoTo("failing")
  /\ UNCHANGED <<kind, rowVars, told, signalVars, processVars, report, reader, stopVars>>

-----------------------------------------------------------------------------
\* _finish_success: the assistant message, the row, the output files, and the
\* broadcasts, each with a commit of its own.

SaveAnswer ==
  /\ pc = "answering"
  /\ message' = "success" /\ seen' = status
  /\ GoTo("crediting")
  /\ UNCHANGED <<kind, status, told, signalVars, processVars, report, reader, stopVars>>

MarkSuccess ==
  /\ pc = "crediting"
  /\ status' = IF seen \in Terminal THEN status ELSE "success"
  /\ GoTo("registering")
  /\ UNCHANGED <<kind, message, seen, told, signalVars, processVars, report, reader, stopVars>>

\* Whatever became of the row, a success is broadcast.
Register ==
  /\ pc = "registering"
  /\ pc' = "telling" /\ verdict' = "success"
  /\ UNCHANGED <<kind, rowVars, guarded, told, signalVars, processVars, report, reader, stopVars>>

-----------------------------------------------------------------------------
\* _finish_failed: it reads the row, marks it unless it has ended, and replaces
\* the assistant message in either case.

\* Mutant: an error after the success is handled like any other.
FailReadAlways ==
  /\ pc = "failing"
  /\ seen' = status
  /\ GoTo("recording")
  /\ UNCHANGED <<kind, status, message, told, signalVars, processVars, report, reader, stopVars>>

\* The daoban runner's handler ignores an error that comes after the success.
FailRead ==
  /\ pc = "failing"
  /\ seen' = status
  /\ GoTo(IF kind = "daoban" /\ ~guarded /\ status = "success" THEN "done" ELSE "recording")
  /\ UNCHANGED <<kind, status, message, told, signalVars, processVars, report, reader, stopVars>>

FailWrite ==
  /\ pc = "recording"
  /\ status' = IF seen \in Terminal THEN status ELSE "failed"
  /\ message' = "failed"
  /\ pc' = "telling" /\ verdict' = "failed"
  /\ UNCHANGED <<kind, seen, guarded, told, signalVars, processVars, report, reader, stopVars>>

\* The last broadcast, to one socket after the other,
Tell ==
  /\ pc = "telling"
  /\ told' = verdict
  /\ GoTo("ending")
  /\ UNCHANGED <<kind, rowVars, signalVars, processVars, report, reader, stopVars>>

\* and with it the task ends.
End ==
  /\ pc = "ending"
  /\ GoTo("done")
  /\ UNCHANGED <<kind, rowVars, told, signalVars, processVars, report, reader, stopVars>>

-----------------------------------------------------------------------------
\* Exceptions.

\* Mutant: the script is left alone.
LeaveTry(why) ==
  /\ guarded' = FALSE /\ verdict' = why
  /\ pc' = IF why = "cancelled" THEN "unwinding" ELSE "failing"
  /\ UNCHANGED processVars

\* Both handlers of the try block stop the script first.
EnterHandler(why) ==
  /\ guarded' = FALSE /\ verdict' = why
  /\ pc' = IF ScriptRuns THEN "stopping"
           ELSE IF why = "cancelled" THEN "unwinding" ELSE "failing"
  /\ Terminate

\* An error: a missing script or file, the database.
Raise ==
  /\ guarded
  /\ pc \in {"preparing", "marking", "starting", "waiting", "failing", "recording",
            "answering", "crediting", "registering"}
  /\ EnterHandler("failed")
  /\ UNCHANGED <<kind, rowVars, told, signalVars, report, reader, stopVars>>

\* What broke the reader is raised when the runner waits for it.
RaiseBroken ==
  /\ pc = "gathering" /\ reader = "broken"
  /\ EnterHandler("failed")
  /\ UNCHANGED <<kind, rowVars, told, signalVars, report, reader, stopVars>>

\* CancelledError at an await, or at the check of the event.
Interrupt ==
  /\ guarded
  /\ \/ cancelReq /\ pc \in {"starting", "waiting", "gathering", "telling", "ending"}
     \/ event /\ pc = "waiting" /\ ScriptRuns
  /\ EnterHandler("cancelled")
  /\ cancelReq' = FALSE
  /\ UNCHANGED <<kind, rowVars, told, event, report, reader, stopVars>>

\* A handler is left by CancelledError at one of its awaits, or by an error.
HandlerInterrupted ==
  /\ ~guarded
  /\ cancelReq /\ pc \in {"stopping", "reaping", "telling", "ending"}
  /\ cancelReq' = FALSE
  /\ GoTo("done")
  /\ UNCHANGED <<kind, rowVars, told, event, processVars, report, reader, stopVars>>

HandlerFails ==
  /\ ~guarded
  /\ pc \in {"failing", "recording", "unwinding", "cancelling"}
  /\ GoTo("done")
  /\ UNCHANGED <<kind, rowVars, told, signalVars, processVars, report, reader, stopVars>>

\* stop_process returns when the script exits in time: at the latest after the ten
\* seconds, when asyncio knows of the exit.
Stopped ==
  /\ pc = "stopping" /\ ~ScriptRuns
  /\ GoTo(AfterStop)
  /\ UNCHANGED <<kind, rowVars, told, signalVars, processVars, report, reader, stopVars>>

CancelRead ==
  /\ pc = "unwinding"
  /\ seen' = status
  /\ GoTo("cancelling")
  /\ UNCHANGED <<kind, status, message, told, signalVars, processVars, report, reader, stopVars>>

\* Mutant: the message takes the status the row had.
CancelWriteStatus ==
  /\ pc = "cancelling"
  /\ IF seen \in Terminal THEN UNCHANGED <<status, message>>
     ELSE status' = "cancelled" /\ message' = seen
  /\ GoTo("telling")
  /\ UNCHANGED <<kind, seen, told, signalVars, processVars, report, reader, stopVars>>

CancelWrite ==
  /\ pc = "cancelling"
  /\ IF seen \in Terminal THEN UNCHANGED <<status, message>>
     ELSE status' = "cancelled" /\ message' = "cancelled"
  /\ GoTo("telling")
  /\ UNCHANGED <<kind, seen, told, signalVars, processVars, report, reader, stopVars>>

-----------------------------------------------------------------------------
\* The processes.  One that was signalled may exit, in any way, or not care.

ScriptForks ==
  /\ script = "alive" /\ helper = "none"
  /\ helper' = "alive"
  /\ UNCHANGED <<kind, rowVars, runnerVars, told, signalVars, script, exitCode, left, report,
                 reader, stopVars>>

ScriptExits ==
  /\ ScriptRuns
  /\ script' = IF script = "alive" THEN "exited" ELSE "stopped"
  /\ exitCode' \in {"zero", "nonzero"}
  /\ left' \in {"named", "unnamed", "nothing"}
  /\ UNCHANGED <<kind, rowVars, runnerVars, told, signalVars, helper, report, reader, stopVars>>

HelperExits ==
  /\ HelperRuns
  /\ helper' = "gone"
  /\ UNCHANGED <<kind, rowVars, runnerVars, told, signalVars, script, exitCode, left, report,
                 reader, stopVars>>

-----------------------------------------------------------------------------
\* Stops.  task_queue.cancel_task on the loop sets the event, calls the runner's
\* request_stop and cancels the task.

Signal ==
  IF HasTask
    THEN /\ event' = TRUE /\ cancelReq' = TRUE
         /\ IF pc = "queued" THEN UNCHANGED processVars ELSE Terminate
    ELSE UNCHANGED <<signalVars, processVars>>

Request == stops < MaxStops /\ stops' = stops + 1

StopOverSocket ==
  /\ Request /\ pc # "lost" /\ ~closing
  /\ status' = IF status = "queued" THEN "cancelled" ELSE status
  /\ Signal
  /\ UNCHANGED <<kind, message, seen, runnerVars, told, report, reader, http, closing>>

\* The watchdog ends, and the shutdown of the queue stops the task, leaves the row to
\* the runner and waits for it.
Shutdown ==
  /\ Request /\ HasTask /\ ~closing
  /\ closing' = TRUE
  /\ Signal
  /\ UNCHANGED <<kind, rowVars, runnerVars, told, report, reader, http>>

HttpRead ==
  /\ Request /\ http = "idle" /\ ~closing
  /\ http' = IF status = "queued" THEN "sawQueued" ELSE "committed"
  /\ UNCHANGED <<kind, rowVars, runnerVars, told, signalVars, processVars, report, reader, closing>>

HttpCommit ==
  /\ http = "sawQueued"
  /\ status' = "cancelled"
  /\ http' = "committed"
  /\ UNCHANGED <<kind, message, seen, runnerVars, told, signalVars, processVars, report, reader,
                 stops, closing>>

HttpSetEvent ==
  /\ http = "committed"
  /\ IF HasTask
       THEN /\ event' = TRUE /\ http' = "set"
            /\ IF pc = "queued" THEN UNCHANGED processVars ELSE Terminate
       ELSE /\ http' = "idle"
            /\ UNCHANGED <<event, processVars>>
  /\ UNCHANGED <<kind, rowVars, runnerVars, told, cancelReq, report, reader, stops, closing>>

HttpCancelTask ==
  /\ http = "set"
  /\ cancelReq' = (cancelReq \/ HasTask)
  /\ http' = "idle"
  /\ UNCHANGED <<kind, rowVars, runnerVars, told, event, processVars, report, reader, stops,
                 closing>>

\* Mutant: a run of another process is left alone.
WatchdogMarksOwn ==
  /\ status = "running" /\ ~closing
  /\ pc \in {"gathering", "reaping", "telling", "ending"}
  /\ status' = "stale"
  /\ Signal
  /\ UNCHANGED <<kind, message, seen, runnerVars, told, report, reader, stopVars>>

\* A running row without a heartbeat for half an hour is stale.  The loop of the
\* runner has one every few seconds, stopping takes no longer than that unless it
\* hangs after the kill, and queued jobs are left alone.
WatchdogMarks ==
  /\ status = "running" /\ ~closing
  /\ pc \in {"gathering", "reaping", "telling", "ending", "done", "lost"}
  /\ status' = "stale"
  /\ Signal
  /\ UNCHANGED <<kind, message, seen, runnerVars, told, report, reader, stopVars>>

\* The backend process ends and starts again.  Script and helper are processes of their own.
Crash ==
  /\ pc # "lost"
  /\ pc' = "lost" /\ guarded' = TRUE /\ verdict' = "none"
  /\ event' = FALSE /\ cancelReq' = FALSE
  /\ reader' = "off" /\ http' = "idle" /\ closing' = FALSE
  /\ UNCHANGED <<kind, rowVars, told, processVars, report, stops>>

-----------------------------------------------------------------------------
Runner ==
  \/ DropQueued \/ Begin \/ Prepare \/ MarkRunning \/ Spawn \/ SeeExit
  \/ Accept \/ Refuse \/ SaveAnswer \/ MarkSuccess \/ Register
  \/ FailRead \/ FailWrite \/ Tell \/ End \/ RaiseBroken \/ Interrupt
  \/ HandlerInterrupted \/ Kill \/ Stopped \/ CancelRead \/ CancelWrite

HttpThread == HttpCommit \/ HttpSetEvent \/ HttpCancelTask

Next ==
  \/ Runner \/ Reaped \/ Raise \/ HandlerFails \/ Heartbeat \/ ReadLine \/ ReadEof \/ ReaderBreaks
  \/ ScriptForks \/ ScriptExits \/ HelperExits
  \/ StopOverSocket \/ Shutdown \/ HttpRead \/ HttpThread
  \/ WatchdogMarks \/ Crash

\* The loop runs what is ready, threads go on, ten seconds pass, and a silent row
\* is stale in the end.  A process that can write what it has to write exits in
\* time, unless it was signalled, when nothing is assumed of it, and a helper that
\* outlives its script falls silent.  Waiting for a killed script is over once its
\* pipes are closed and read.  A process that shuts down ends when its tasks have.
\* Nobody has to fail.
Fairness ==
  /\ WF_vars(Runner) /\ WF_vars(ReadEof)
  /\ WF_vars(PipesClosed /\ reader # "broken" /\ Reaped)
  /\ WF_vars(closing /\ ~HasTask /\ Crash)
  /\ WF_vars(HttpThread) /\ WF_vars(WatchdogMarks)
  /\ WF_vars(reader = "reading" /\ script = "alive" /\ ScriptExits)

Spec == Init /\ [][Next]_vars /\ Fairness

-----------------------------------------------------------------------------
\* Properties.

\* A runner that has ended, by a result, an error or a stop, has not left its
\* script running unasked, and what the mysql script started was asked with it.
EndedJobIsSignalled ==
  /\ pc = "done" => script # "alive"
  /\ kind = "mysql" /\ script \in {"signalled", "stopped"} => helper # "alive"

\* A success of the daoban and ppt runners stands for a script that ended well
\* and for an output of this run, whoever else wrote the row.
SuccessIsEarned ==
  status = "success" /\ kind # "mysql" =>
    exitCode = "zero" /\ left # "nothing" /\ report = "own"

\* A daoban job that is a success has its summary, and no error in what follows
\* replaces it.
SuccessKeepsAnswer == status = "success" /\ kind = "daoban" => message = "success"

\* Once a success has been broadcast, no progress of the script and no failure comes
\* after it; a stop that interrupts that very broadcast is told as cancelled.
SuccessToldLast == [][told = "success" => told' \in {"success", "cancelled"}]_vars

\* The runner waits for the end of a script it has killed, and somebody keeps the
\* pipes from being read to their end.
Hung == pc = "reaping" /\ (HelperRuns \/ reader = "broken")

\* A job that is asked to stop ends, whatever its script does, unless the script had
\* to be killed and left its pipes to a helper the runner does not signal, or they
\* are not read any more.
StoppedJobEnds == cancelReq ~> (~HasTask \/ []Hung)

\* A running row ends, through errors, stops, crashes and shutdowns, unless the output
\* of its script is not read any more, or a shutdown hangs.
RunningJobEnds ==
  status = "running" ~> (status \in Terminal \/ reader = "broken" \/ [](closing /\ Hung))

\* backend/README.md: jobs "finish with one assistant summary for the same
\* `run_id`", from which, with the row, status and content are recovered: when
\* the runner has ended, the message of a successful run says so.
OneOutcome == pc = "done" /\ status = "success" => message = "success"

\* mysql_analysis_job_runner.py: a script that exits well without any output is
\* a failure: the report presented is that of the run.
OwnReport == status = "success" => report = "own"

=============================================================================
