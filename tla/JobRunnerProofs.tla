--------------------------- MODULE JobRunnerProofs ---------------------------
(***************************************************************************)
(* Proofs about the life of a job, for any set of runners and any number   *)
(* of stops.  The properties relate the row, the script and what was       *)
(* broadcast, but none of them says where the runner is; the inductive     *)
(* invariant does.  It says in which phases the script may be alive, what  *)
(* a runner that concludes has in hand, how far a runner is when its row   *)
(* is a success, and that its last word finds the readers at their end.    *)
(***************************************************************************)
EXTENDS JobRunner, TLAPS

-----------------------------------------------------------------------------
\* The inductive invariant.

\* Output of this run that its script, having ended well, has left.
Earned == exitCode = "zero" /\ left # "nothing" /\ report = "own"

\* A script that nobody has signalled is one that its runner waits for, or one
\* that a crash has orphaned.
ScriptWatched == script = "alive" => pc \in {"waiting", "lost"}

\* Whoever signals a mysql script signals what it has started, too.
HelperAsked == kind = "mysql" /\ script \in {"signalled", "stopped"} => helper # "alive"

\* Between the acceptance of the result and the last broadcast.
Concluding == {"answering", "crediting", "registering"}

\* A runner that concludes has a script that is gone, all of its output, a result
\* it has earned, and its answer stored before it marks the row.
ResultInHand ==
  /\ pc \in Concluding \cup {"gathering"} => ~ScriptRuns
  /\ pc \in Concluding => reader = "eof" /\ (kind # "mysql" => Earned)
  /\ pc = "crediting" => message = "success"

\* The runner has marked the row, whatever has happened since.
AfterSuccess == {"registering", "telling", "ending", "failing", "recording", "unwinding",
                 "cancelling", "done", "lost"}

\* What stays true of a row that is a success: its result cannot change any more.
SuccessStands ==
  status = "success" =>
    /\ pc \in AfterSuccess /\ ~ScriptRuns
    /\ kind # "mysql" => Earned

\* The daoban runner's handlers look at the row and leave the message of a success.
AnswerStands ==
  status = "success" /\ kind = "daoban" =>
    /\ message = "success"
    /\ pc # "recording"
    /\ pc = "failing" => ~guarded
    /\ pc = "cancelling" => seen = "success"

\* A success is told when the readers have ended, by a runner that then ends; a stop
\* that interrupts it has nothing else to tell than that.
LastWord ==
  /\ verdict = "success" =>
       pc \in {"telling", "ending", "done"} /\ reader # "reading" /\ ~ScriptRuns
  /\ told = "success" =>
       /\ pc \in {"ending", "unwinding", "cancelling", "telling", "done", "lost"}
       /\ reader # "reading" /\ ~ScriptRuns
       /\ pc \in {"unwinding", "cancelling", "telling"} => verdict = "cancelled"

JobInv ==
  /\ TypeOK
  /\ ScriptWatched /\ HelperAsked
  /\ ResultInHand /\ SuccessStands /\ AnswerStands /\ LastWord

-----------------------------------------------------------------------------
\* What a stop does to the processes: a script that runs is asked to end, or was
\* before, and goes on running; with a mysql script goes what it has started.
Asked ==
  /\ script' \in {"none", "alive", "signalled", "exited", "stopped"}
  /\ helper' \in {"none", "alive", "signalled", "gone"}
  /\ exitCode' = exitCode /\ left' = left
  /\ script' \in Running <=> ScriptRuns
  /\ script' = "alive" => pc \in {"done", "lost"} /\ script = "alive"
  /\ kind = "mysql" /\ script' \in {"signalled", "stopped"} => helper' # "alive"

\* stop_process asks what it is meant to, for each kind of runner.
LEMMA TerminateAsks ==
  ASSUME TypeOK, HelperAsked, Terminate
  PROVE  Asked
<1> USE DEF TypeOK, HelperAsked, Asked, Running, ScriptRuns
<1>1. CASE kind = "mysql"
  BY <1>1 DEF Terminate, TerminateGroup
<1>2. CASE kind # "mysql"
  BY <1>2 DEF Terminate, TerminateScript
<1> QED BY <1>1, <1>2

\* A job that waits in the queue has no script yet.
LEMMA SignalAsks ==
  ASSUME TypeOK, ScriptWatched, HelperAsked, Signal
  PROVE  Asked /\ event' \in BOOLEAN /\ cancelReq' \in BOOLEAN
<1>1. CASE HasTask /\ pc # "queued"
  BY <1>1, TerminateAsks DEF Signal
<1>2. CASE ~HasTask \/ pc = "queued"
  <2>1. UNCHANGED processVars /\ event' \in BOOLEAN /\ cancelReq' \in BOOLEAN
    BY <1>2 DEF Signal, signalVars, TypeOK
  <2> QED BY <2>1, <1>2 DEF processVars, Asked, TypeOK, HasTask, ScriptWatched, HelperAsked,
             Running, ScriptRuns
<1> QED BY <1>1, <1>2

\* A request leaves the number of requests below its bound.
LEMMA RequestCounts ==
  ASSUME TypeOK, Request
  PROVE  stops' \in 0..MaxStops
<1> QED BY JobRunnerAssumption DEF TypeOK, Request

-----------------------------------------------------------------------------
\* The invariant holds at the start and is kept by every action.

\* A queued job satisfies the invariant.
LEMMA InitJobInv == Init => JobInv
<1> SUFFICES ASSUME Init PROVE JobInv
  OBVIOUS
<1>1. TypeOK
  <2>1. stops \in 0..MaxStops
    BY JobRunnerAssumption DEF Init
  <2> QED BY <2>1 DEF Init, TypeOK, PCs, Outcomes, Terminal
<1>2. ScriptWatched /\ HelperAsked /\ ResultInHand /\ SuccessStands /\ AnswerStands /\ LastWord
  BY DEF Init, ScriptWatched, HelperAsked, Concluding, ResultInHand, SuccessStands,
         AnswerStands, LastWord
<1> QED BY <1>1, <1>2 DEF JobInv

\* The way of a job from the queue to its script keeps the invariant.
LEMMA StartJobInv ==
  ASSUME JobInv, DropQueued \/ Begin \/ Prepare \/ MarkRunning \/ Spawn
  PROVE  JobInv'
<1> USE DEF JobInv, TypeOK, ScriptWatched, HelperAsked, Concluding, ResultInHand,
            AfterSuccess, SuccessStands, AnswerStands, LastWord, ScriptRuns, Running, Earned,
            PCs, Outcomes, Terminal, GoTo, rowVars, signalVars, processVars, stopVars
<1>1. CASE DropQueued
  BY <1>1 DEF DropQueued
<1>2. CASE Begin
  BY <1>2 DEF Begin
<1>3. CASE Prepare
  BY <1>3 DEF Prepare
<1>4. CASE MarkRunning
  BY <1>4 DEF MarkRunning
<1>5. CASE Spawn
  BY <1>5 DEF Spawn
<1> QED BY <1>1, <1>2, <1>3, <1>4, <1>5

\* The script, its helper and the tasks that read their output keep the invariant.
LEMMA WorkJobInv ==
  ASSUME JobInv, Heartbeat \/ SeeExit \/ ReadLine \/ ReadEof \/ ReaderBreaks
            \/ ScriptForks \/ ScriptExits \/ HelperExits
  PROVE  JobInv'
<1> USE DEF JobInv, TypeOK, ScriptWatched, HelperAsked, Concluding, ResultInHand,
            AfterSuccess, SuccessStands, AnswerStands, LastWord, ScriptRuns, Running, Earned,
            PCs, Outcomes, Terminal, GoTo, rowVars, signalVars, processVars, stopVars
<1>1. CASE Heartbeat
  BY <1>1 DEF Heartbeat, runnerVars
<1>2. CASE SeeExit
  BY <1>2 DEF SeeExit
<1>3. CASE ReadLine
  BY <1>3 DEF ReadLine, runnerVars
<1>4. CASE ReadEof
  BY <1>4 DEF ReadEof, runnerVars, PipesClosed
<1>5. CASE ReaderBreaks
  BY <1>5 DEF ReaderBreaks, runnerVars
<1>6. CASE ScriptForks
  BY <1>6 DEF ScriptForks, runnerVars
<1>7. CASE ScriptExits
  BY <1>7 DEF ScriptExits, runnerVars
<1>8. CASE HelperExits
  BY <1>8 DEF HelperExits, runnerVars, HelperRuns
<1> QED BY <1>1, <1>2, <1>3, <1>4, <1>5, <1>6, <1>7, <1>8

\* A result that is accepted, stored, marked and told keeps the invariant.
LEMMA ConcludeJobInv ==
  ASSUME JobInv, Accept \/ Refuse \/ SaveAnswer \/ MarkSuccess \/ Register \/ Tell \/ End
  PROVE  JobInv'
<1> USE DEF JobInv, TypeOK, ScriptWatched, HelperAsked, Concluding, ResultInHand,
            AfterSuccess, SuccessStands, AnswerStands, LastWord, ScriptRuns, Running, Earned,
            PCs, Outcomes, Terminal, GoTo, rowVars, signalVars, processVars, stopVars
<1>1. CASE Accept
  <2>1. CASE kind = "mysql"
    <3>1. report' \in {"none", "own", "other"}
      BY <1>1, <2>1 DEF Accept, Accepts, AcceptsMysql
    <3> QED BY <1>1, <2>1, <3>1 DEF Accept
  <2>2. CASE kind # "mysql"
    <3>1. kind \in {"daoban", "ppt"}
      BY <2>2, JobRunnerAssumption
    <3>2. AcceptsDaoban \/ AcceptsPpt
      BY <1>1, <3>1 DEF Accept, Accepts
    <3>3. report' = "own" /\ exitCode = "zero" /\ left # "nothing"
      BY <1>1, <3>2 DEF Accept, AcceptsDaoban, AcceptsPpt
    <3> QED BY <1>1, <2>2, <3>3 DEF Accept
  <2> QED BY <2>1, <2>2
<1>2. CASE Refuse
  BY <1>2 DEF Refuse
<1>3. CASE SaveAnswer
  BY <1>3 DEF SaveAnswer
<1>4. CASE MarkSuccess
  BY <1>4 DEF MarkSuccess
<1>5. CASE Register
  BY <1>5 DEF Register
<1>6. CASE Tell
  BY <1>6 DEF Tell
<1>7. CASE End
  BY <1>7 DEF End
<1> QED BY <1>1, <1>2, <1>3, <1>4, <1>5, <1>6, <1>7

\* An exception, wherever the runner is, keeps the invariant.
LEMMA HandlerJobInv ==
  ASSUME JobInv, NEW why \in {"failed", "cancelled"}, EnterHandler(why), HasTask,
         told # "success" \/ why = "cancelled",
         UNCHANGED <<kind, rowVars, told, report, reader, stopVars>>,
         event' \in BOOLEAN, cancelReq' \in BOOLEAN
  PROVE  JobInv'
<1>1. Asked
  BY TerminateAsks DEF EnterHandler, JobInv
<1>2. /\ guarded' = FALSE /\ verdict' = why
      /\ pc' \in {"stopping", "unwinding", "failing"}
      /\ pc' = "stopping" => ScriptRuns
      /\ pc \notin {"done", "lost"}
  BY DEF EnterHandler, HasTask
<1>3. TypeOK'
  <2>1. guarded' \in BOOLEAN
    BY <1>2
  <2>2. /\ pc' \in PCs /\ verdict' \in {"none"} \cup Outcomes
        /\ UNCHANGED <<kind, status, message, seen, told, report, reader, http, stops,
                      closing>>
    BY <1>2 DEF PCs, Outcomes, rowVars, stopVars
  <2> QED BY <2>1, <2>2, <1>1 DEF JobInv, TypeOK, Asked
<1>4. ScriptWatched' /\ HelperAsked'
  BY <1>1, <1>2 DEF Asked, ScriptWatched, HelperAsked
<1>5. ResultInHand' /\ LastWord'
  <2>1. ScriptRuns' <=> ScriptRuns
    BY <1>1 DEF Asked, ScriptRuns
  <2>2. told = "success" => pc' = "unwinding"
    BY DEF JobInv, LastWord, EnterHandler
  <2> QED BY <1>2, <2>1, <2>2 DEF JobInv, ResultInHand, LastWord, Concluding
<1>6. SuccessStands'
  <2> SUFFICES ASSUME status = "success"
               PROVE  /\ pc' \in AfterSuccess /\ ~ScriptRuns'
                      /\ kind # "mysql" => Earned'
    BY DEF SuccessStands, rowVars
  <2>1. ~ScriptRuns /\ (kind # "mysql" => Earned)
    BY DEF JobInv, SuccessStands
  <2> QED BY <2>1, <1>1, <1>2 DEF Asked, ScriptRuns, Earned, AfterSuccess
<1>7. AnswerStands'
  BY <1>2 DEF JobInv, AnswerStands, rowVars
<1> QED BY <1>3, <1>4, <1>5, <1>6, <1>7 DEF JobInv

\* A stop, whoever asks for it, keeps the invariant, also with the end of a row that
\* is no success.
LEMMA SignalJobInv ==
  ASSUME JobInv, Signal, status' \in {status, "cancelled", "stale"},
         UNCHANGED <<kind, message, seen, runnerVars, told, report, reader, http>>,
         stops' \in 0..MaxStops, closing' \in BOOLEAN
  PROVE  JobInv'
<1>1. Asked /\ event' \in BOOLEAN /\ cancelReq' \in BOOLEAN
  BY SignalAsks DEF JobInv
<1>2. UNCHANGED <<kind, message, seen, pc, guarded, verdict, told, report, reader, http>>
  BY DEF runnerVars
<1>3. TypeOK'
  BY <1>1, <1>2 DEF JobInv, TypeOK, Asked, PCs, Outcomes, Terminal
<1>4. ScriptWatched' /\ HelperAsked'
  BY <1>1, <1>2 DEF JobInv, Asked, ScriptWatched, HelperAsked
<1>5. ResultInHand' /\ LastWord'
  BY <1>1, <1>2 DEF JobInv, Asked, ResultInHand, LastWord, Concluding, ScriptRuns, Earned
<1>6. SuccessStands' /\ AnswerStands'
  BY <1>1, <1>2 DEF JobInv, Asked, SuccessStands, AnswerStands, ScriptRuns, Earned
<1> QED BY <1>3, <1>4, <1>5, <1>6 DEF JobInv

\* Errors, whenever they are raised, and their handler keep the invariant.
LEMMA ErrorJobInv ==
  ASSUME JobInv, FailRead \/ FailWrite \/ Raise \/ RaiseBroken \/ HandlerFails
            \/ HandlerInterrupted
  PROVE  JobInv'
<1> USE DEF JobInv, TypeOK, ScriptWatched, HelperAsked, Concluding, ResultInHand,
            AfterSuccess, SuccessStands, AnswerStands, LastWord, ScriptRuns, Running, Earned,
            PCs, Outcomes, Terminal, GoTo, rowVars, signalVars, processVars, stopVars
<1>1. CASE FailRead
  BY <1>1 DEF FailRead
<1>2. CASE FailWrite
  BY <1>2 DEF FailWrite
<1>3. CASE Raise
  <2>1. HasTask /\ told # "success"
    BY <1>3 DEF Raise, HasTask
  <2> QED BY <1>3, <2>1, HandlerJobInv DEF Raise
<1>4. CASE RaiseBroken
  <2>1. HasTask /\ told # "success"
    BY <1>4 DEF RaiseBroken, HasTask
  <2> QED BY <1>4, <2>1, HandlerJobInv DEF RaiseBroken
<1>5. CASE HandlerFails \/ HandlerInterrupted
  <2>1. cancelReq' \in BOOLEAN
    BY <1>5 DEF HandlerFails, HandlerInterrupted
  <2>2. /\ pc \notin {"waiting", "lost"} /\ pc' = "done"
        /\ UNCHANGED <<kind, rowVars, guarded, verdict, told, event, processVars, report,
                       reader, stopVars>>
    BY <1>5 DEF HandlerFails, HandlerInterrupted
  <2>3. TypeOK'
    BY <2>1, <2>2
  <2> QED BY <2>2, <2>3
<1> QED BY <1>1, <1>2, <1>3, <1>4, <1>5

\* The runner's side of a stop keeps the invariant.
LEMMA StopJobInv ==
  ASSUME JobInv, Interrupt \/ Kill \/ Reaped \/ Stopped \/ CancelRead \/ CancelWrite
  PROVE  JobInv'
<1> USE DEF JobInv, TypeOK, ScriptWatched, HelperAsked, Concluding, ResultInHand,
            AfterSuccess, SuccessStands, AnswerStands, LastWord, ScriptRuns, Running, Earned,
            PCs, Outcomes, Terminal, GoTo, rowVars, signalVars, processVars, stopVars
<1>1. CASE Interrupt
  BY <1>1, HandlerJobInv DEF Interrupt, HasTask
<1>2. CASE Kill
  BY <1>2 DEF Kill, HelperRuns
<1>3. CASE Stopped \/ Reaped
  BY <1>3 DEF Stopped, Reaped, AfterStop
<1>4. CASE CancelRead
  BY <1>4 DEF CancelRead
<1>5. CASE CancelWrite
  BY <1>5 DEF CancelWrite
<1> QED BY <1>1, <1>2, <1>3, <1>4, <1>5

\* Whoever asks for a stop or ends the row, and a crash, keep the invariant.
LEMMA OutsideJobInv ==
  ASSUME JobInv, StopOverSocket \/ Shutdown \/ HttpRead \/ HttpCommit \/ HttpSetEvent
            \/ HttpCancelTask \/ WatchdogMarks \/ Crash
  PROVE  JobInv'
<1> USE DEF JobInv, TypeOK, ScriptWatched, HelperAsked, Concluding, ResultInHand,
            AfterSuccess, SuccessStands, AnswerStands, LastWord, ScriptRuns, Running, Earned,
            PCs, Outcomes, Terminal, GoTo, rowVars, signalVars, processVars, stopVars
<1>1. CASE StopOverSocket
  <2>1. closing' \in BOOLEAN
    BY <1>1 DEF StopOverSocket
  <2> QED BY <1>1, <2>1, SignalJobInv, RequestCounts DEF StopOverSocket
<1>2. CASE Shutdown
  <2>1. closing' \in BOOLEAN
    BY <1>2 DEF Shutdown
  <2> QED BY <1>2, <2>1, SignalJobInv, RequestCounts DEF Shutdown
<1>3. CASE HttpRead
  <2>1. TypeOK'
    BY <1>3, RequestCounts DEF HttpRead, runnerVars
  <2> QED BY <2>1, <1>3 DEF HttpRead, runnerVars
<1>4. CASE HttpCommit
  BY <1>4 DEF HttpCommit, runnerVars
<1>5. CASE HttpSetEvent
  <2>1. Asked
    BY <1>5, TerminateAsks DEF HttpSetEvent, Asked, HasTask
  <2>2. event' \in BOOLEAN /\ http' \in {"idle", "set"}
    BY <1>5 DEF HttpSetEvent
  <2>3. UNCHANGED <<kind, rowVars, pc, guarded, verdict, told, cancelReq, report, reader, stops,
                    closing>>
    BY <1>5 DEF HttpSetEvent, runnerVars
  <2>4. TypeOK'
    BY <2>1, <2>2, <2>3 DEF Asked
  <2> QED BY <2>1, <2>3, <2>4 DEF Asked
<1>6. CASE HttpCancelTask
  BY <1>6 DEF HttpCancelTask, HasTask, runnerVars
<1>7. CASE WatchdogMarks
  BY <1>7, SignalJobInv DEF WatchdogMarks
<1>8. CASE Crash
  <2>1. guarded' \in BOOLEAN /\ event' \in BOOLEAN /\ cancelReq' \in BOOLEAN
    BY <1>8 DEF Crash
  <2>2. /\ pc' = "lost" /\ verdict' = "none" /\ reader' = "off" /\ http' = "idle"
        /\ closing' \in BOOLEAN
        /\ UNCHANGED <<kind, rowVars, told, processVars, report, stops>>
    BY <1>8 DEF Crash
  <2>3. TypeOK'
    BY <2>1, <2>2
  <2> QED BY <2>2, <2>3
<1> QED BY <1>1, <1>2, <1>3, <1>4, <1>5, <1>6, <1>7, <1>8

\* Every step keeps the invariant.
LEMMA NextJobInv == JobInv /\ [Next]_vars => JobInv'
<1> SUFFICES ASSUME JobInv, [Next]_vars PROVE JobInv'
  OBVIOUS
<1>1. CASE UNCHANGED vars
  BY <1>1 DEF vars, rowVars, runnerVars, signalVars, processVars, stopVars, JobInv, TypeOK,
     ScriptWatched, HelperAsked, ResultInHand, SuccessStands, AnswerStands, LastWord,
     ScriptRuns, Earned
<1>2. CASE Next
  BY <1>2, StartJobInv, WorkJobInv, ConcludeJobInv, ErrorJobInv, StopJobInv, OutsideJobInv
  DEF Next, Runner, HttpThread
<1> QED BY <1>1, <1>2

\* The inductive invariant holds in every reachable state.
THEOREM JobInvariant == Spec => []JobInv
<1> QED BY InitJobInv, NextJobInv, PTL DEF Spec

-----------------------------------------------------------------------------
\* The properties.

\* Every variable keeps its type.
THEOREM JobTypeCorrect == Spec => []TypeOK
<1>1. JobInv => TypeOK
  BY DEF JobInv
<1> QED BY <1>1, JobInvariant, PTL

\* No runner, however it ends, leaves its script running unasked, nor a mysql
\* runner what the script has started.
THEOREM NoScriptLeftBehind == Spec => []EndedJobIsSignalled
<1>1. JobInv => EndedJobIsSignalled
  BY DEF JobInv, ScriptWatched, HelperAsked, EndedJobIsSignalled
<1> QED BY <1>1, JobInvariant, PTL

\* Whoever else writes the row, a success of the daoban and ppt runners stands for
\* an output of the run.
THEOREM EverySuccessEarned == Spec => []SuccessIsEarned
<1>1. JobInv => SuccessIsEarned
  BY DEF JobInv, SuccessStands, Earned, SuccessIsEarned
<1> QED BY <1>1, JobInvariant, PTL

\* No error that comes after the success replaces the summary of a daoban job.
THEOREM DaobanKeepsAnswer == Spec => []SuccessKeepsAnswer
<1>1. JobInv => SuccessKeepsAnswer
  BY DEF JobInv, AnswerStands, SuccessKeepsAnswer
<1> QED BY <1>1, JobInvariant, PTL

\* After a success was broadcast, neither the readers nor the runner broadcast progress
\* or a failure.
THEOREM SuccessIsLastWord == Spec => SuccessToldLast
<1>1. JobInv /\ [Next]_vars => (told = "success" => told' \in {"success", "cancelled"})
  <2> SUFFICES ASSUME JobInv, [Next]_vars, told = "success"
               PROVE  told' \in {"success", "cancelled"}
    OBVIOUS
  <2>1. /\ pc \in {"ending", "unwinding", "cancelling", "telling", "done", "lost"}
        /\ reader # "reading"
        /\ pc = "telling" => verdict = "cancelled"
    BY DEF JobInv, LastWord
  <2>2. ~Spawn /\ ~Heartbeat /\ ~ReadLine /\ (Tell => told' = "cancelled")
    BY <2>1 DEF Spawn, Heartbeat, ReadLine, Tell
  <2>3. ~Tell => told' = told
    BY <2>2 DEF Next, Runner, HttpThread, vars, DropQueued, Begin, Prepare, MarkRunning, SeeExit,
       Accept, Refuse, SaveAnswer, MarkSuccess, Register, FailRead, FailWrite, End, RaiseBroken,
       Interrupt, Kill, Reaped, Stopped, CancelRead, CancelWrite, Raise, HandlerFails,
       HandlerInterrupted, ReadEof, ReaderBreaks, ScriptForks, ScriptExits, HelperExits,
       StopOverSocket, Shutdown, HttpRead, HttpCommit, HttpSetEvent, HttpCancelTask,
       WatchdogMarks, Crash
  <2> QED BY <2>2, <2>3
<1> QED BY <1>1, JobInvariant, PTL DEF Spec, SuccessToldLast

=============================================================================
