----------------------------- MODULE TaskQueue ------------------------------
(***************************************************************************)
(* The in-process task queue (services/task_queue.py): one asyncio task    *)
(* per run, which takes a permit of its conversation, its agent, its user  *)
(* and the process before it executes, and the registry of dispatchers     *)
(* through which a stop request or the shutdown reaches it.                *)
(*                                                                         *)
(* The event loop runs one piece of code between two awaits at a time, so  *)
(* an action is such a piece.  A stop request may come from a worker       *)
(* thread of the HTTP server: there cancel_event.set() and task.cancel()   *)
(* are two steps, with steps of the loop between them.                     *)
(*                                                                         *)
(* asyncio.Semaphore is external.  A task that has to wait for a permit    *)
(* stands in its FIFO until it runs again.  A release wakes the first one  *)
(* that was neither woken nor cancelled and takes a permit out for it;     *)
(* the woken task leaves the FIFO when it runs, and wakes others in turn.  *)
(* Until then the semaphore is locked for newcomers, free permits or not.  *)
(***************************************************************************)
EXTENDS Integers, Sequences, FiniteSets, SequencesExt

CONSTANTS
  Runs, Conversations, Agents, Users,
  None,             \* an absent agent_id or user_id
  ConversationOf,   \* the arguments each run is enqueued with
  AgentOf,
  UserOf,
  Stoppable,        \* the runs somebody asks to stop one by one (a bound)
  PerConversation,  \* TASK_PER_CONVERSATION_CONCURRENCY
  PerAgent,         \* TASK_PER_AGENT_CONCURRENCY
  PerUser,          \* TASK_PER_USER_CONCURRENCY
  GlobalChat        \* TASK_GLOBAL_CHAT_CONCURRENCY

ASSUME TaskQueueAssumption ==
  /\ IsFiniteSet(Runs)
  /\ Stoppable \subseteq Runs
  /\ ConversationOf \in [Runs -> Conversations]
  /\ AgentOf \in [Runs -> Agents \cup {None}]
  /\ UserOf \in [Runs -> Users \cup {None}]
  /\ None \notin Agents \cup Users
  /\ {PerConversation, PerAgent, PerUser, GlobalChat} \subseteq Int

-----------------------------------------------------------------------------
\* The semaphores, their limits, and the chain of them a run acquires.

Global == <<"global", "chat">>

Semaphores ==
  ({"conversation"} \X Conversations) \cup ({"agent"} \X Agents)
    \cup ({"user"} \X Users) \cup {Global}

AtLeastOne(n) == IF n < 1 THEN 1 ELSE n

Limit(s) ==
  AtLeastOne(CASE s[1] = "conversation" -> PerConversation
               [] s[1] = "agent" -> PerAgent
               [] s[1] = "user" -> PerUser
               [] OTHER -> GlobalChat)

Chain(r) ==
  {<<"conversation", ConversationOf[r]>>, Global}
    \cup {<<"agent", a>> : a \in {AgentOf[r]} \ {None}}
    \cup {<<"user", u>> : u \in {UserOf[r]} \ {None}}

\* The position of a semaphore in the list every runner acquires in order.
Rank(s) ==
  CASE s[1] = "conversation" -> 1
    [] s[1] = "agent" -> 2
    [] s[1] = "user" -> 3
    [] OTHER -> 4

-----------------------------------------------------------------------------
VARIABLES
  pc,             \* what each run's asyncio task is doing
  permits,        \* the semaphore permits it owns
  sem,            \* each semaphore: its free permits, its FIFO, who was woken
  cancelEvent,    \* the asyncio.Event handed to the task function
  cancelReq,      \* Task.cancel() was called before the task was done
  stopping,       \* runs whose canceller is between set() and cancel()
  byRun,          \* _run_dispatchers
  byConversation, \* _active_dispatchers
  phase           \* of the process: up, stopping or stopped

semVars == <<permits, sem>>
registryVars == <<byRun, byConversation>>
vars == <<pc, permits, sem, cancelEvent, cancelReq, stopping,
          byRun, byConversation, phase>>

Queued == {"created", "waiting"}
Live == Queued \cup {"running"}

TypeOK ==
  /\ pc \in [Runs -> Live \cup {"idle", "done"}]
  /\ permits \in [Runs -> SUBSET Semaphores]
  /\ sem \in [Semaphores -> [value: Nat, fifo: Seq(Runs), woken: SUBSET Runs]]
  /\ cancelEvent \in [Runs -> BOOLEAN]
  /\ cancelReq \in [Runs -> BOOLEAN]
  /\ stopping \in SUBSET Runs
  /\ byRun \in SUBSET Runs
  /\ byConversation \in [Conversations -> SUBSET Runs]
  /\ phase \in {"up", "stopping", "stopped"}

Untouched(s) == [value |-> Limit(s), fifo |-> <<>>, woken |-> {}]

Init ==
  /\ pc = [r \in Runs |-> "idle"]
  /\ permits = [r \in Runs |-> {}]
  /\ sem = [s \in Semaphores |-> Untouched(s)]
  /\ cancelEvent = [r \in Runs |-> FALSE]
  /\ cancelReq = [r \in Runs |-> FALSE]
  /\ stopping = {}
  /\ byRun = {}
  /\ byConversation = [c \in Conversations |-> {}]
  /\ phase = "up"

-----------------------------------------------------------------------------
\* asyncio.Semaphore, of which m is the state.

\* The waiters whose futures are neither resolved nor cancelled.
Pending(m) == {q \in ToSet(m.fifo) \ m.woken : ~cancelReq[q]}

IndexOf(q, r) == CHOOSE i \in 1..Len(q) : q[i] = r

\* The first k of them.
First(m, k) ==
  LET Before(q) == {p \in Pending(m) : IndexOf(m.fifo, p) < IndexOf(m.fifo, q)}
  IN  {q \in Pending(m) : Cardinality(Before(q)) < k}

WakeUp(m, k) ==
  [m EXCEPT !.value = @ - Cardinality(First(m, k)), !.woken = @ \cup First(m, k)]

\* Mutant: only the waiters are looked at, not the permits that are left.
LockedIfSomebodyWaits(m) == \E q \in ToSet(m.fifo) : q \in m.woken \/ ~cancelReq[q]

\* A newcomer has to wait: also while one that was woken has not run yet.
Locked(m) == m.value = 0 \/ \E q \in ToSet(m.fifo) : q \in m.woken \/ ~cancelReq[q]

Taken(m) == [m EXCEPT !.value = @ - 1]
Joined(m, r) == [m EXCEPT !.fifo = Append(@, r)]

\* Mutant: a release counts the permit back but wakes nobody.
ReleaseToNobody(m) == [m EXCEPT !.value = @ + 1]

Release(m) == WakeUp([m EXCEPT !.value = @ + 1], 1)

\* Mutant: a waiter that is cancelled after it was woken keeps the permit.
LeftWithPermit(m, r) ==
  [m EXCEPT !.fifo = RemoveAt(@, IndexOf(@, r)), !.woken = @ \ {r}]

\* A waiter runs again: it leaves the FIFO, and gives the permit it was woken
\* with back if it is cancelled.
Left(m, r) ==
  [value |-> IF r \in m.woken /\ cancelReq[r] THEN m.value + 1 ELSE m.value,
   fifo |-> RemoveAt(m.fifo, IndexOf(m.fifo, r)),
   woken |-> m.woken \ {r}]

\* Mutant: it wakes nobody as it leaves.
DepartedSilently(m, r) == Left(m, r)

\* Then it wakes one waiter for every free permit.
Departed(m, r) == WakeUp(Left(m, r), Left(m, r).value)

-----------------------------------------------------------------------------
\* What a run has to do with the semaphores of its chain.

StandsIn(r) == {s \in Semaphores : r \in ToSet(sem[s].fifo)}

\* Where it was woken: it owns that permit as soon as it runs.
Woken(r) == {s \in Semaphores : r \in sem[s].woken}

\* Mutant: the layers are checked, the process-wide guard is not.
MissingOfLayers(r) == Chain(r) \ (permits[r] \cup Woken(r) \cup {Global})

Missing(r) == Chain(r) \ (permits[r] \cup Woken(r))
Blocked(r) == {s \in Missing(r) : Locked(sem[s])}
FirstBlocked(r) == CHOOSE s \in Blocked(r) : \A t \in Blocked(r) : Rank(s) <= Rank(t)

\* It goes on in the acquire() it waited in, if any, takes the permits S at once
\* and joins the FIFOs of J.
Acquire(r, S, J) ==
  /\ permits' = [permits EXCEPT ![r] = @ \cup Woken(r) \cup S]
  /\ sem' = [s \in Semaphores |->
               CASE s \in Woken(r) -> Departed(sem[s], r)
                 [] s \in S -> Taken(sem[s])
                 [] s \in J -> Joined(sem[s], r)
                 [] OTHER -> sem[s]]

\* Its task ends: every permit it owns is released, also one it was woken with
\* and takes before it leaves.
Leave(r) ==
  /\ pc' = [pc EXCEPT ![r] = "done"]
  /\ permits' = [permits EXCEPT ![r] = {}]
  /\ sem' = [s \in Semaphores |->
               CASE s \in permits[r] -> Release(sem[s])
                 [] s \in StandsIn(r) /\ cancelReq[r] -> Departed(sem[s], r)
                 [] s \in StandsIn(r) /\ ~cancelReq[r] -> Release(Departed(sem[s], r))
                 [] OTHER -> sem[s]]

-----------------------------------------------------------------------------
\* The runner, from one await to the next.

\* enqueue_conversation_task: create the task, register it, attach the callback.
Enqueue(r) ==
  /\ phase = "up"
  /\ pc[r] = "idle"
  /\ pc' = [pc EXCEPT ![r] = "created"]
  /\ byRun' = byRun \cup {r}
  /\ byConversation' = [byConversation EXCEPT ![ConversationOf[r]] = @ \cup {r}]
  /\ UNCHANGED <<semVars, cancelEvent, cancelReq, stopping, phase>>

\* The first step of the task sees that it was asked to stop and returns.
ReturnAtOnce(r) ==
  /\ pc[r] = "created" /\ cancelEvent[r]
  /\ Leave(r)

\* All remaining permits are free: the task function starts.
Enter(r) ==
  /\ Blocked(r) = {} /\ ~cancelEvent[r]
  /\ pc' = [pc EXCEPT ![r] = "running"]
  /\ Acquire(r, Missing(r), {})

\* It could take all remaining permits but was asked to stop: those have no
\* waiters and go back as they came, the others are released.
LeaveUnused(r) ==
  /\ pc[r] = "waiting"
  /\ Blocked(r) = {} /\ cancelEvent[r]
  /\ Leave(r)

\* It takes the free permits in order and waits at the first that is not free.
QueueUp(r) ==
  /\ Blocked(r) # {}
  /\ pc[r] = "created" => ~cancelEvent[r]
  /\ LET b == FirstBlocked(r)
     IN  Acquire(r, {s \in Missing(r) : Rank(s) < Rank(b)}, {b})
  /\ pc' = [pc EXCEPT ![r] = "waiting"]

\* The task is scheduled for the first time or because it was woken.
Advance(r) ==
  /\ pc[r] = "created" \/ Woken(r) # {}
  /\ ~cancelReq[r]
  /\ ReturnAtOnce(r) \/ Enter(r) \/ LeaveUnused(r) \/ QueueUp(r)
  /\ UNCHANGED <<cancelEvent, cancelReq, stopping, registryVars, phase>>

\* CancelledError reaches a task that is not in its task function.
Unwind(r) ==
  /\ pc[r] \in Queued
  /\ cancelReq[r]
  /\ Leave(r)
  /\ UNCHANGED <<cancelEvent, cancelReq, stopping, registryVars, phase>>

\* The task function returns or raises, cancelled or not.
Finish(r) ==
  /\ pc[r] = "running"
  /\ Leave(r)
  /\ UNCHANGED <<cancelEvent, cancelReq, stopping, registryVars, phase>>

\* Mutant: the registry forgets the task before it is done.
CleanupEarly(r) ==
  /\ pc[r] # "idle"
  /\ r \in byRun
  /\ byRun' = byRun \ {r}
  /\ byConversation' = [byConversation EXCEPT ![ConversationOf[r]] = @ \ {r}]
  /\ UNCHANGED <<pc, semVars, cancelEvent, cancelReq, stopping, phase>>

\* _cleanup_done_task, the done callback, which the loop runs later.
Cleanup(r) ==
  /\ pc[r] = "done"
  /\ r \in byRun
  /\ byRun' = byRun \ {r}
  /\ byConversation' = [byConversation EXCEPT ![ConversationOf[r]] = @ \ {r}]
  /\ UNCHANGED <<pc, semVars, cancelEvent, cancelReq, stopping, phase>>

-----------------------------------------------------------------------------
\* Stop requests and the shutdown.

\* cancel_task finds the dispatcher, sets its event and calls its abort, which
\* for a chat run sets the same event again.
BeginCancel(r) ==
  /\ r \in byRun \cap Stoppable
  /\ pc[r] # "done"
  /\ cancelEvent' = [cancelEvent EXCEPT ![r] = TRUE]
  /\ stopping' = stopping \cup {r}
  /\ UNCHANGED <<pc, semVars, cancelReq, registryVars, phase>>

\* task.cancel(), unless the task ended in the meantime.
EndCancel(r) ==
  /\ r \in stopping
  /\ cancelReq' = [cancelReq EXCEPT ![r] = @ \/ pc[r] # "done"]
  /\ stopping' = stopping \ {r}
  /\ UNCHANGED <<pc, semVars, cancelEvent, registryVars, phase>>

BeginShutdown ==
  /\ phase = "up"
  /\ phase' = "stopping"
  /\ cancelEvent' = [r \in Runs |-> cancelEvent[r] \/ r \in byRun]
  /\ cancelReq' = [r \in Runs |-> cancelReq[r] \/ (r \in byRun /\ pc[r] # "done")]
  /\ UNCHANGED <<pc, semVars, stopping, registryVars>>

\* Mutant: the shutdown cancels the tasks and does not await them.
EndShutdownUnawaited ==
  /\ phase = "stopping"
  /\ phase' = "stopped"
  /\ byRun' = {}
  /\ byConversation' = [c \in Conversations |-> {}]
  /\ UNCHANGED <<pc, semVars, cancelEvent, cancelReq, stopping>>

\* Every task was awaited: the registry and all but the global semaphore go.
EndShutdown ==
  /\ phase = "stopping"
  /\ \A r \in byRun : pc[r] = "done"
  /\ phase' = "stopped"
  /\ byRun' = {}
  /\ byConversation' = [c \in Conversations |-> {}]
  /\ sem' = [s \in Semaphores |-> IF s = Global THEN sem[s] ELSE Untouched(s)]
  /\ UNCHANGED <<pc, permits, cancelEvent, cancelReq, stopping>>

Next ==
  \/ \E r \in Runs :
       \/ Enqueue(r) \/ Advance(r) \/ Unwind(r) \/ Finish(r) \/ Cleanup(r)
       \/ BeginCancel(r) \/ EndCancel(r)
  \/ BeginShutdown
  \/ EndShutdown

\* The event loop runs every ready task and callback; a worker thread between
\* set() and cancel() goes on; a task function ends, by its own timeout or by
\* the watchdog's cancellation.
Fairness ==
  /\ \A r \in Runs : WF_vars(Advance(r)) /\ WF_vars(Unwind(r)) /\ WF_vars(Finish(r))
                       /\ WF_vars(Cleanup(r)) /\ WF_vars(EndCancel(r))
  /\ WF_vars(EndShutdown)

Spec == Init /\ [][Next]_vars /\ Fairness

-----------------------------------------------------------------------------
\* Properties.

Holders(s) == {r \in Runs : s \in permits[r]}
RunningIn(s) == {r \in Runs : pc[r] = "running" /\ s \in Chain(r)}

\* No permit is lost and none is made up, whatever is cancelled when: the free
\* permits of a semaphore, those its tasks own and those its woken waiters are
\* about to own are its limit.
PermitsConserved ==
  \A s \in Semaphores :
    sem[s].value + Cardinality(Holders(s)) + Cardinality(sem[s].woken) = Limit(s)

\* The layered limits by conversation, agent, user and process are kept.
LimitsKept == \A s \in Semaphores : Cardinality(RunningIn(s)) <= Limit(s)

\* No lost wakeup: a free permit lies beside a task that waits for it only while
\* another waiter was woken and has not run yet, which wakes the next as it runs.
NoIdlePermit ==
  \A s \in Semaphores :
    sem[s].value > 0 /\ Pending(sem[s]) # {} => sem[s].woken # {}

\* The registry can reach every task that is not done, under both of its keys,
\* so a stop request is never lost; the two dictionaries agree.
Reachable ==
  /\ \A r \in Runs : pc[r] \in Live => r \in byRun
  /\ \A r \in Runs : r \in byRun <=> r \in byConversation[ConversationOf[r]]

\* The shutdown leaves no task behind and no permit taken.
ShutdownDrains ==
  phase = "stopped" =>
    /\ \A r \in Runs : pc[r] \notin Live /\ permits[r] = {}
    /\ sem[Global] = Untouched(Global)

\* The queue implements the contract the rest of the backend relies on.
StageOf(r) ==
  CASE pc[r] \in Queued -> "queued"
    [] pc[r] = "running" -> "executing"
    [] pc[r] = "done" -> "over"
    [] OTHER -> "idle"

Contract == INSTANCE Dispatch WITH
  MaxExecuting <- Limit(Global),
  stage <- [r \in Runs |-> StageOf(r)],
  stopRequested <- cancelEvent

ImplementsDispatch == Contract!Spec

=============================================================================
