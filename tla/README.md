# A TLA+ model of sairui-front (openclaw-userlook)

`openclaw-userlook` is a web front for OpenClaw agents: a FastAPI backend that queues the messages
of its users as *task runs*, has them answered by the OpenClaw Gateway or by local job scripts, and
shows the answers in a Vue frontend. This directory holds the specifications kept beside that code:
TLA+ modules, the TLC configurations that check them on small instances, and proofs that TLAPS
checks for every value of the constants. Paths below are relative to `src/openclaw-userlook/`, and
`app/` is `backend/app/`. `PROJECT.json` maps every definition to the lines it models.

## 1. The system

One operating-system process runs everything in the backend (`backend/README.md:224`): an asyncio
event loop with the socket handlers, the run tasks, the watchdog and the connection pool, and a
thread pool in which FastAPI runs the plain (`def`) HTTP handlers. MySQL is the only thing that
survives it. Two kinds of concurrency follow. On the loop, code is atomic from one `await` to the
next. A worker thread's code runs, and commits, between any two steps of the loop's code.

| Component | State | Operations | Hard because |
|---|---|---|---|
| Task queue, `services/task_queue.py` | registry of dispatchers by run and by conversation; four layers of semaphores; a cancel event and a task per run | enqueue, acquire, run, cancel, clean up, shut down | a cancellation meets a permit that was just handed over; stops come from threads |
| Task runs, `services/run_service.py`, `models/task_run.py` | `task_runs` row: status, `cancel_requested`, output; the assistant's message | create, `mark_*`, `request_task_run_cancel`, upsert | five writers, no row version; each decides on its own copy |
| Gateway chat executor, `services/task_executor.py` | ORM copy of the row, text so far | begin, stream, persist, conclude in nine ways | every path must end the row; several commits per step |
| Watchdog, `services/run_watchdog.py` | none | scan active rows, cancel, mark | reads, then marks, while threads commit |
| Chat socket, `api/routes/ws_chat.py` | a session per socket | submit, deduplicate, classify, acknowledge, stop | many commits before the run is enqueued; reconnects send again |
| Connection pool, `services/gateway_connection_pool.py` | idle, all, active, reserved; a capacity semaphore | acquire, release, discard, shut down | two books (sets and semaphore) updated on both sides of awaits that may be cancelled |
| Gateway client, `services/openclaw_gateway_client.py` | frames of a stream | request, receive, attribute, time out | reused connections, silent or late frames |
| Job runners, `services/runners/*` | a script's process, the tasks that read its output, what was accepted and told | prepare, spawn, poll, read, stop, finish, handle errors | the script, the row and the broadcasts end separately; errors come after the success |
| Classification and pending inputs, `services/task_classifier.py`, `pending_task_service.py` | pending files and texts with a TTL | save, consume, cancel, expire | read before a send and consumed after it; files and text of one job come in several messages |
| Conversations, files, accounts, agents | rows and files | CRUD | little: one transaction each |
| Frontend, `frontend/src/views/ChatPage.vue` | messages, the active run | events, reconnect, polling | events overtake one another |

How they meet: the socket handler creates the row and calls the queue; the queue runs the executor,
which writes the row and the message and leases a connection of the pool; stop requests (socket or
`POST /runs/{id}/cancel`) write the row and then signal the queue's dispatcher; the watchdog does it
in the other order; the lifespan's end shuts down the queue, then the pool.

What makes each of them correct:

- *queue*: limits are kept, permits are conserved, stops are never lost, every run leaves it;
- *runs*: a row is queued, perhaps running, and final once; success implies a saved answer; a row
  nobody works on is ended by somebody; nobody goes on streaming into a run that has ended;
- *pool*: one lease per connection, at most `max_size` sockets, no lost wake-up, no leaked slot;
- *stream*: a run's text comes from its own frames, and a stream ends without the Gateway's help;
- *submission*: one run per client message, a job has its text and files, an acknowledged input is
  neither lost nor used twice;
- *jobs*: no script is left running unasked, a success stands for a result of this run, its summary
  stays, nothing is reported after it, and every job that is stopped or abandoned ends.

`PROJECT.json` lists the hazards of the code, each at its line, and the property that covers it.

## 2. Modules

| Module | Models | Lines of thought |
|---|---|---|
| `Dispatch` | what the queue promises, in five actions | abstract specification |
| `TaskQueue` | `services/task_queue.py` | refines `Dispatch` |
| `MCTaskQueue` | arguments of four runs | for TLC |
| `TaskQueueProofs` | theorems about `TaskQueue` | TLAPS, as each `...Proofs` |
| `RunStatus` | what readers of a row may expect | abstract specification |
| `RunLifecycle` | row, executor, stops, watchdog, crash and restart | refines `RunStatus` when stops come over the socket |
| `RunLifecycleProofs` | theorems about `RunLifecycle` | |
| `GatewayPool` | `services/gateway_connection_pool.py` | |
| `GatewayPoolProofs` | theorems about `GatewayPool` | |
| `GatewayStream` | `stream_chat`, the receive loop, the executor's loop over its events | over a reduced pool |
| `MCGatewayStream` | answers of two runs | for TLC |
| `GatewayStreamProofs` | theorems about `GatewayStream` | |
| `ChatSubmission` | `api/routes/ws_chat.py` up to the enqueued run, `task_classifier.py`, `pending_task_service.py` | ends where `RunLifecycle` and `JobRunner` begin |
| `MCChatSubmission` | symmetry | for TLC |
| `ChatSubmissionProofs` | theorems about `ChatSubmission` | |
| `JobRunner` | `services/runners/*`, the watchdog's view of long jobs | the counterpart of `RunLifecycle` for jobs |
| `JobRunnerProofs` | theorems about `JobRunner` | |

### TaskQueue

`pc[r]` is where the asyncio task of run `r` is: `created` (scheduled for the first time), `waiting`
in the FIFO of a semaphore, `running` its task function, or `done`. `sem` is the state of CPython's
`asyncio.Semaphore`, which is external to the code: the free permits (`value`), the futures that wait
(`fifo`), and which of them were woken (`woken`). `release()` wakes the first waiter that was neither
woken nor cancelled and takes a permit out for it (`Release`). The woken one stays in the FIFO until
its task runs; then it leaves (`Departed`) and wakes one waiter for each permit that is free. Until
then `locked()` is true (`Locked`), so a newcomer queues beside a free permit if the limit is two or
more. A waiter that is cancelled after it was woken gives its permit back when it runs (`Left`). This
is where permits get lost in practice. It is the semaphore of CPython 3.12.2 and later; before, a task
that left the FIFO woke one waiter only, and that one the next.

A step of a runner takes every permit that is free, in the order of the list (conversation, agent,
user, process), and stops at the first that is locked: awaiting a free semaphore does not suspend. A
cancellation is two steps (`BeginCancel`, `EndCancel`) because the HTTP handler runs it on a thread;
one over the socket is the two in a row. `Stoppable` bounds whom these two may ask. The shutdown is two
blocks with the awaits of all tasks between them, and asks everybody.

### RunLifecycle

The variables are the database (`status`, `cancelRequested`, `message`, `deleted`), the signals of
the queue (`event`, `cancelReq`), and what each actor remembers of what it read: `cache` for the
executor's ORM object, `scan` for the watchdog's, `http` for the thread's. The module turns on this
last kind of state. SQLAlchemy's `db.get` returns the object it already has, so after
`row = db.get(...)` a commit of somebody else is unseen until this session commits and refreshes.
`Mark(r, s, seen)` is every `mark_task_run_*`: its guard reads the copy (`seen`), its write goes to
the row. An action ends where an `await` is, or where a read is made that a later commit of the same
block relies on; `LoopFree` forbids another block of the event loop in between, and lets threads and
crashes in. `Crash` keeps the database only.

A success is two steps. `MarkSuccess` ends with the first broadcast of `_finish_success`; from there the
executor is `telling` the sockets, still inside its `asyncio.timeout`. `Told` is the end of that;
`LateDeadline` is the handler of a deadline that expires in it: the mark leaves the row, which is a
success, and the upsert rewrites the message to `timeout`. The error event of the Gateway has the same
course. A stop that comes then finds that the row has ended and changes nothing.

Abstracted: the text (a message has the status of its payload), the ages compared by the watchdog
(any active row may be too old; the fairness says it becomes so), the payloads of broadcasts.

### GatewayPool

A client is a call of `stream_chat`. The pool's lock is never held over a suspension, so the blocks
under it are atomic and an action is what lies between two real suspensions: waiting for the
condition, for the capacity semaphore, for the connect, for a close. `conn[c]` is the connection the
client has or is closing, `owes[c]` that it will release a capacity permit after the close.
`CancelPoints` names the awaits at which a client's task may be cancelled; `Cancelled` then skips
the rest of the block as `CancelledError` does, since the code's handlers catch `Exception` only. A
client that is cancelled during the handshake, or while it closes, may leave its socket open
(`StrandedOrGone`): it is `stranded`, no book holds it, and its permit is never given back.

### GatewayStream

A connection carries one request after the other, and its `inbox` may hold frames of an earlier one
when it is lent again. `pc[r]` is `reading` while the executor iterates over the stream and `left`
once it has left the `async for`, be it by `return` or by an exception: the two generators are then
closed later, by tasks of the event loop (`Finalize`), and the pool takes the connection for healthy,
since `GeneratorExit` sets no `tainted`. Ends inside the receive loop (`Cut`) do set it. What the
executor awaits for an event, its broadcast, is part of the step `Read`: nobody else can tell how
long it took, and that the task is interrupted in it is one of the step's outcomes (`LeaveEarly`).
A successor in the same conversation may begin as soon as the executor has left its loop, a little
earlier than the queue lets it.

The Gateway is external. What is assumed of it: frames of a connection arrive in order; a `res` frame
holds the id of its request; events hold `EventKeys`, and those of the runs in `Broadcast` go to every
connection, which the code expects, as it drops what is attributed to other runs. A request is replied
to by an acknowledgement, a refusal, or the whole answer (`Replies`), as
`backend/tests/test_task_executor_finish_success.py:92` does. Tokens stand for text. Deltas come in both
forms that `_extract_incremental_text` is written for: those of the runs in `Cumulative` repeat the text
so far, those of others are increments, as the mock stream of `app/services/openclaw_adapter.py:135` sends them. From
increments the function (`Incremental`) drops one that equals the end of the text, so an answer that
says something twice in a row (`Repeats`) may lose it; `Exact` are the runs to which this cannot happen.

### ChatSubmission

A message is handled in two blocks of the event loop, between which the acknowledgement is sent and
other sockets may run. `Receive` is the first: the lookup by `client_message_id` (`Known`, a
transaction of its own, `ReceiveAgain` when it finds the run), the validation of the files, the
classification with the pending row that comes first, and the new row of `task_runs`. The second is
`Remember` (the input is stored, the run is a success) or `Start` (the pending row is consumed, the
run is enqueued). `Abandon` is an exception or a crash in it, at any of its commits.

`socket[s]` is the run a handler has in hand and `seen` the active pending rows of the snapshot its
session reads after the acknowledgement was built; writes go to the rows as they are. `horizon` is
what a session's last snapshot knew of `task_runs`: the code rolls back before the lookup, so only
the mutant of `Known` uses it. `overlap` is a history variable: two submissions were under way at
once at some time. With it, the properties about pending inputs say what the code guarantees to a
client that waits for the answer, and no more.

Abstracted: a text is the class the classifiers' patterns put it into (`Texts`), a file is its
message and whether it is a PDF, the time of a pending row is whether it is `due`. Assumed: no send
takes hours, the lifetime of a pending row. Update times have the resolution of a second, so which
of several active rows comes first is open (`First`).

### JobRunner

`pc` is where the runner is between two awaits, `guarded` whether it is inside the `try` or in one of
its handlers. As in `RunLifecycle`, `seen` is the status its session last read, and the guard of a
`mark_task_run_*` reads that. `script` and `helper` are processes of the operating system: the
script may start the helper, both may ignore SIGTERM, and both survive a crash of the backend. The
daoban and ppt runners signal the script alone, the mysql runner its process group (`Terminate`).
The two tasks that read the pipes are one `reader`, which ends when script and helper have closed
them, or breaks. `told` is the last `run_status` broadcast, which readers write as well as the runner.
The last broadcast is a step of its own: while the runner is `telling`, a stop may still interrupt it.
`Kill` brings SIGKILL to the script, and then the runner is `reaping`: `process.wait()` returns when the
script is dead and the pipes are closed and read (`Reaped`). Whether it can return earlier depends on
the release of Python; both outcomes are there, and fairness is stated for the later one. `closing` is
a shutdown, which waits for its tasks.

`left` and `report` say what the script left behind and whose output the runner presents:
`inspect_daoban_outputs` looks into the run's own directory, the ppt runner reads a path from stdout,
and the mysql runner falls back to what was written last below a shared root (`Accepts`).

The three runners have the same course; a definition that stands for all is mapped to one of them,
and where they differ it names the kind. The differences that matter: who is signalled, what counts
as a result, and that only daoban's error handler looks at the row before it writes (`FailRead`).

Assumed: broadcasts never raise (`ws_connection_manager.py` drops a socket that fails), the
conversation is not deleted under its job, and `process.wait()` may be cancelled without losing the
exit (asyncio since Python 3.12.5). Abstracted: times, payloads and texts.

## 3. Runs

`task_queue` and `gateway_stream` take about two minutes, the others one at most. `CHECK_DEADLOCK FALSE`
in each: the process ends after a shutdown, runs and jobs end, and calls and messages stop coming.

| Run | Bounds | Shows |
|---|---|---|
| `task_queue` | 4 runs, 3 conversations, 1 agent, 1 user, limits 2/1/2 and 0 (which the code lifts to 1); 2 runs are stopped one by one | types, conservation of permits, limits, no lost wake-up, registry complete, shutdown drains; implements `Dispatch`, liveness included |
| `run_lifecycle_http` | 2 runs of a conversation, one stopped over HTTP too, both over the socket, 1 crash or restart | no success without its answer, an ended executor has settled its row, nobody streams into an ended run, ends conflict only with an HTTP stop, every run ends for good |
| `run_lifecycle_socket` | 2 runs of a conversation, stops over the socket, 1 crash or restart | implements `RunStatus` |
| `gateway_pool` | 3 clients, 4 identities, size 2, cancellation anywhere | exclusive lease, size and both books, no lost wake-up, shutdown closes all but the stranded sockets |
| `gateway_pool_liveness` | the same, cancellation only while waiting for a connection | the pool always recovers, every acquire ends |
| `gateway_stream` | 2 runs of a conversation, one with cumulative deltas and one with increments, 2 connections, answers of 2 tokens, all three replies | own text only, complete when the Gateway said so; requests in flight share a connection only after an executor left; only the reply to an abandoned request misleads another run; every stream ends |
| `chat_submission` | 4 kinds of agent, 2 sockets, 3 messages, 3 runs, 1 deleted file or run | one run per message, complete jobs; while submissions do not overlap, inputs are kept, one pending row, used once |
| `job_runner` | 3 kinds of runner, 1 job, 2 stops, 1 crash | no script left unasked, a success is earned and told last, daoban's summary stays, stopped and abandoned jobs end unless a helper holds the pipes of a killed script |
| `run_lifecycle_watchdog` | 1 run, stop over HTTP | *violated*: "Watchdog updates do not overwrite terminal runs" |
| `run_lifecycle_accepted_stop` | 1 run, stop over HTTP | *violated*: an accepted stop is persisted as `cancelled` |
| `gateway_pool_cancelled` | 2 clients, size 1, cancellation while closing | *violated*: every acquire ends |
| `job_runner_outcome` | mysql, no stop | *violated*: a success has the summary of a success |

Why the bounds are enough. *Queue*: the interesting cases are a run that waits with a permit in hand
(r1 and r2 at their agent), one that is woken and has to wait again at the next layer (r2 at the
process, against r3 and r4), one without an agent, and a cancellation in each. Four runs of a user of
limit two give the rest: two permits are released before the first of the woken has run, and a newcomer
waits beside a free one. The theorems carry the safety properties, of this and of every other module,
to any number. *Runs*: rows do not
interact except through the loop and the conversation; with HTTP one run already has all
interleavings of its five writers, and a second run adds the loop's exclusion. A second crash adds
nothing a first does not, since nothing but the database survives. *Pool*: two connections give an
order of idle ones, three clients a sleeper beside two leases; the fourth identity is for a socket
that is still being closed after it left the books. *Streams*: a mix-up needs a run that was left
and one that follows it, and the code keeps nothing of runs before; two tokens, repeated by the run
with cumulative deltas, are what order, gaps and repetitions need. That events may go to every
connection (`Broadcast`), and that increments may repeat themselves, is left to the theorems.
*Submissions*: an input is recorded, something happens to it, and it is used, which is three messages;
two sockets give every overlap of two blocks, and a third could only repeat one. One deletion suffices for each of the guards that look
at it. *Jobs*: a stop matters in a phase and, again, while the first is being carried out, which is
two; the database is the only thing two jobs share, apart from the mysql output root, where the
other job is the value `"other"` of `report`. Of the helper's pipes it matters that some are open,
not how many.

What the passing runs say together: on the event loop alone the design is sound, and what it promises
about rows breaks only through HTTP stops, which run beside it. What remains true even then is in
`run_lifecycle_http`.

### The violations

1. *The watchdog overwrites a stop* (`app/services/run_watchdog.py:86`). `latest = db.get(...)` looks
   like a second read and is none: the session returns the same object. A queued run that HTTP
   cancels between the scan's read and its mark ends as `timeout`.
2. *An accepted stop ends as success* (`app/services/task_executor.py:245`,
   `app/services/run_service.py:369`). The stop is committed after the executor's last refresh.
3. *A permit is lost on cancellation* (`app/services/gateway_connection_pool.py:118`), and the wait
   for a permit at `:143` has no deadline: an acquire may wait for ever.
4. *A late error replaces the answer* (`app/services/runners/mysql_analysis_job_runner.py:389`, and the
   same in `ppt_generation_job_runner.py:439`). After the row was marked a success, an error in the
   registration of outputs ends in `_finish_failed`, which leaves the row and overwrites the message.

`ImplementsRunStatus` is checked without HTTP stops because 1 and 2 refute it with HTTP stops. That they
are the only conflicts is `EndsConflictOnHttpStop`.

### What the code does not guarantee

Three more definitions are in the modules and in no run. Nothing in the repository promises them in so
many words, and TLC refutes each when it is added to a configuration:

- `GatewayPool!QuietPoolIsWhole` (an unused pool has all its slots; three clients, `CancelPoints = {}`):
  an acquire that sweeps stale connections forgets its reservation
  (`app/services/gateway_connection_pool.py:73`), a partial sweep forgets the stale ones (`:61`).
- `ChatSubmission!PendingUsedOnce` (two sockets, daoban): two messages that overlap are classified with
  the same pending row, and `consume_pending_task` (`app/services/pending_task_service.py:148`) does not
  look whether it was consumed meanwhile; both jobs start with it. `InputsKept` and `OnePendingRow`
  without their `overlap` disjunct fail likewise, over the snapshot of the second block.
- `JobRunner!OwnReport` (mysql): a script that exits well and names no output gets the report that was
  written last below the shared root (`app/services/mysql_analysis_service.py:487`).

Others are inside a property, which says what holds beside them:

- *A reply to somebody else* (`OwnAnswer`, `MisledOnlyByAbandoned`): the receive loop takes a `res` frame
  with another request's id for its own (`app/services/openclaw_gateway_client.py:1069`). If it is the
  reply to a request that was abandoned on the connection, a refusal fails the next run, and an answer
  becomes the next run's.
- *Increments that repeat themselves* (`OwnAnswer`, `Exact`): a delta that equals the end of the text is
  dropped, and one that begins with the whole text is cut (`app/services/task_executor.py:50`).
- *A success that says timeout* (`AnswerBeforeSuccess`): the deadline of the executor expires while it
  broadcasts its success (`app/services/task_executor.py:704`).
- *A socket in no book* (`ShutdownClosesAll`): a connect that is cancelled in its handshake leaves the
  WebSocket open (`app/services/openclaw_gateway_client.py:227`), and its slot is lost.
- *A runner that waits for a dead script* (`StoppedJobEnds`, `RunningJobEnds`, `Hung`): after SIGKILL,
  `process.wait()` waits for pipes that a helper of the script holds
  (`app/services/runners/daoban_job_runner.py:162`, `ppt_generation_job_runner.py:210`), and so does a
  shutdown.

## 4. Fairness

- *Queue*: weak fairness of everything the loop schedules (ready tasks, callbacks) and of the thread
  between `set()` and `cancel()`; of `Finish`, since the executor bounds its stream by
  `asyncio.timeout` and the watchdog cancels what is too old. None of `Enqueue`, of stops or of the
  beginning of a shutdown.
- *Runs*: the loop, the threads, broadcasts (which return), the executor's deadline, the end of a
  shutdown, and the watchdog: its limits are finite and it scans periodically, so a row that stays
  active is marked in the end.
  None of the Gateway (it may stay silent), the users, crashes, or the stream's events.
- *Streams*: the loop, and the timeouts of the receive loop: each turn looks at the clock before it
  receives, and a receive takes one tick at most. None of the Gateway, and none of the executor's own
  deadline: `StreamEnds` shows that the stream does not need it.
- *Submissions*: none is stated; every property is a safety property, and a client need not send.
- *Jobs*: the runner's task, the HTTP thread, `ReadEof`, and the watchdog, since a silent row is stale
  in the end. The script exits as long as its output is read and nobody has signalled it: a script
  works for a finite time, but nothing is assumed of one that handles SIGTERM, where `stop_process`
  brings SIGKILL after ten seconds (`Kill`, part of the runner). `process.wait()` then returns if the
  pipes are closed and read; else nothing is assumed of it, and `StoppedJobEnds` excepts a job that
  hangs there for ever (`Hung`). A process that shuts down ends once its tasks have, and
  `RunningJobEnds` excepts a shutdown that hangs with its job. Nothing forces a helper to exit, an error
  (`Raise`, `HandlerFails`) or a broken reader; a reader that did break is raised (`RaiseBroken`).
- *Pool*: weak for what is ready; connects and closes end by their own timeouts. Strong for the
  capacity semaphore, a FIFO, and for the deadline of acquire, which is an absolute time: waking up
  and sleeping again does not postpone it. Clients need not come and may keep a connection as long
  as they like. `AcquireEnds` excepts a client that finds stale connections over and over: the
  `continue` after a sweep does not look at the deadline.

## 5. Proofs

Each of the six detailed modules has one of theorems. They hold for every value of the constants:
any number of runs, clients, sockets, connections or messages, any limits and sizes. Every safety
invariant that a passing run checks is a theorem, and so are the two action properties.

The assumptions are of two kinds. Each component names what its constants are (`TaskQueueAssumption`,
`RunLifecycleAssumption` and so on); the runs evaluate these. Three groups of theorems suppose more, in
their statement, because the property is not true without it:

| Supposed | By | Why |
|---|---|---|
| `HttpStops = {}` | `RowsImplementRunStatus` | violations 1 and 2 refute it with HTTP stops |
| `CancelPoints \cap Creating = {}` | `QuietPoolCanServe` | a client cancelled while it waits for a permit or connects never gives its reservation back |
| `Attributed` | `FrameInvariant`, `OnlyAbandonedMislead`, `TextIsOwnAnswer` | about the Gateway: events name their run, or their conversation if no two runs share it |

Each is what the configuration of the run that checks the property says too, and none can be dropped:
TLC refutes the property on the same instance with HTTP stops, with cancellation anywhere, and with
events that name their shared conversation alone or nothing. The one about the Gateway is what the code
relies on, not what it enforces.

Hardly any property is inductive by itself. What each invariant adds is where the actors are.

### TaskQueueProofs

Most of it is about one semaphore and an operation on it. `Sound` says what a FIFO looks like: nobody
twice, the woken are in it and own nothing there, and the permits add up. `Unowned` says who may join,
`Vigilant` that a free permit beside somebody pending means that somebody was woken. The lemmas
(`WakeUpFacts`, `ReleaseFacts`, `TakenFacts`, `JoinedFacts`, `DepartedFacts`) say that each operation keeps
them; `FirstFacts` is the count behind the two that wake, that as many futures are resolved as permits
are taken out. `QueueInv` adds to the properties

- `WaitersWait`: who stands in a FIFO is waiting, and does not own a permit of that semaphore;
- `OneQueue`: a task stands in one FIFO;
- `OwnersAreBusy`: a task that has not begun or is done owns nothing, and one that executes owns its
  chain;
- `NothingAfterStop`: a stopped process has no live task.

A step of a runner goes through several semaphores. `LeaveInv` follows the permits that go back,
`AcquireInv` those that are taken and the FIFO that is joined, and `MoveInv` puts together what either
leaves. `LimitsKept` is then a count: the tasks that execute in a semaphore are among its holders. For
the contract, `StopInv` adds that a cancelled task had its event set, and each action is mapped to the
action of `Dispatch` it implements, or to a stutter.

| Theorem | States |
|---|---|
| `QueueInvariant` | `Spec => []QueueInv` |
| `TypeCorrect`, `NoPermitLost`, `LimitsAlwaysKept`, `NoLostWakeup`, `EveryTaskReachable`, `ShutdownAlwaysDrains` | the six invariants of the run |
| `QueueImplementsContract` | `Spec => Contract!Safety` |

### RunLifecycleProofs

Runs meet only in the process, so the invariant is one of each run (`RunInv`), and an action of one
run keeps those of the others. The properties compare the row with the message and the executor; none
says what the copies that decide about the row still say of it. `LifecycleInv` does:

- `RunningIsMarked`: the row is not running before the executor has marked it;
- `StopEndsQueued`: who signals a run that waits in the queue has ended its row, or is the shutdown;
- `CopiesAreOld`: a copy that says that the row has ended is right; it may only miss that it has;
- `SuccessIsConcluded`: a success is marked after the answer was saved; after that the executor only
  tells the sockets, and nothing but its deadline changes the message.

That ends conflict only with an HTTP stop needs `OneEndInv`: apart from the `cancelled` of such a stop,
whoever could still mark a row that has ended knows that it has, or was signalled.

With `HttpStops = {}`, `SocketInv` says that inside a block the copies are the row (`CopiesAreExact`),
that the row is where the executor is (`RowFollows`), and that an accepted stop has cancelled the task
(`StopReachesTask`). Every step is then a step of `RunStatus` or leaves the rows alone.

| Theorem | States |
|---|---|
| `LifecycleInvariant` | `Spec => []LifecycleInv` |
| `LifecycleTypeCorrect`, `SuccessHasAnswer`, `EveryEndIsSettled`, `NoStreamIsOrphan` | `TypeOK`, `AnswerBeforeSuccess`, `EndedRunIsSettled`, `NoOrphanStream`, whoever stops the run |
| `OneEndButForHttpStops` | `EndsConflictOnHttpStop`, whoever stops the run |
| `RowsImplementRunStatus` | `Rows!Safety`, with stops over the socket only |

### GatewayPoolProofs

The pool keeps two books, and cancellation leaves entries in both that belong to nobody, so neither is
exact; what can be proved is that they err on the safe side. `OneHolder` and `HeldInPlace` say who
holds what, and when. `PermitBooks` counts permits: the sockets that exist are covered by the pool, by its
shutdown, by a client that owes a permit, or are stranded, and the free permits, what is covered and
the connects are at most `MaxSize`. `SlotBooks` counts slots: each connect has a reservation, and
reservations and connections are at most `MaxSize`. `Handover` says that connections go to the shutdown
once. For `QuietPoolServes`, `SlotsInUse` adds that whenever the pool is full and nothing is idle, a
client holds a connection or creates one.

| Theorem | States |
|---|---|
| `PoolInvariant` | `Spec => []PoolInv` |
| `PoolTypeCorrect`, `LeasesAreExclusive`, `PoolStaysWithinSize`, `NobodySleepsOnWork`, `ShutdownLeavesNoSocket` | `TypeOK`, `ExclusiveLease`, `WithinSize`, `NoLostWakeup`, `ShutdownClosesAll`, cancelled anywhere |
| `QuietPoolCanServe` | `QuietPoolServes`, if none is cancelled while it has a reservation |

### GatewayStreamProofs

The invariant has three layers, each needing more of the Gateway. `StreamInv` needs nothing: a
connection has one lessee, a request is on the connection of its stream or was left behind by an
abandoned one, and nothing follows a final frame. `FrameInv` is about what waits in the inboxes of
connections that are lent again: a frame there has been asked for, a reply that ends a request waits for
the stream that asked or was abandoned, and nothing else waits of a run that was refused or answered at
once. `OrderInv` is about the text: what waits for a run that reads is the rest of its answer, no delta
holds less than the text or than a delta before it, and as long as the connection is open nothing that
was sent is missing. That a repeated token is kept rests on this: `_extract_incremental_text` sees the
whole text so far, and drops exactly that. With increments, what was taken and what waits are the answer
in order, and the function takes each as it is if none repeats what precedes it.

| Theorem | States |
|---|---|
| `StreamInvariant`, `StreamTypeCorrect`, `OverlapHasLeaver` | `StreamInv`, `TypeOK`, `OverlapNeedsLeaver`, whatever the Gateway does |
| `FrameInvariant`, `OnlyAbandonedMislead` | `StreamInv` with `FrameInv`, `MisledOnlyByAbandoned`, if `Attributed` |
| `TextIsOwnAnswer` | `OwnAnswer`, if `Attributed`, for any replies and both forms of deltas |

### ChatSubmissionProofs

`Grown` carries the part that holds always: what the operations on pending rows have in common is that
no row becomes pending again, so a row that was used stays used (`UsedUp`). Jobs are complete because
of what a pending row can hold (`PdfRows`) and of what the classifier makes of it (`Classifies`). What
is promised while submissions do not overlap needs `InTurn`: at most one handler is between its
blocks, the one of the last run; its snapshot is still what the table says, the row its job uses is
among the active ones, and there is at most one of these. An input that is kept is all of its run: the
text, and every file (for daoban's `save_pdf` every PDF, as the code stores no other).

| Theorem | States |
|---|---|
| `SubmissionInvariant` | `Spec => []SubmissionInv` |
| `SubmissionTypeCorrect`, `MessageHasOneRun`, `EveryJobIsComplete` | `TypeOK`, `OneRunPerMessage`, `JobIsComplete` |
| `OneRowIsPending`, `InputsAreKept`, `InputIsUsedOnce` | `OnePendingRow`, `InputsKept`, `SequentialUseOnce` (which say themselves: while nothing overlaps) |

### JobRunnerProofs

`JobInv` says in which phases a script may be alive and unasked (`ScriptWatched`, `HelperAsked`), that a
runner that concludes has a script that is gone, all of its output and an accepted result
(`ResultInHand`), which phases are left once the row is a success (`SuccessStands`, `AnswerStands`), and
that its last word comes after the readers' (`LastWord`). The property of `told` is an action property
and follows from the last: who told a success only ends, unless a stop interrupts that broadcast, and
nobody reads any more.

| Theorem | States |
|---|---|
| `JobInvariant` | `Spec => []JobInv` |
| `JobTypeCorrect`, `NoScriptLeftBehind`, `EverySuccessEarned`, `DaobanKeepsAnswer` | `TypeOK`, `EndedJobIsSignalled`, `SuccessIsEarned`, `SuccessKeepsAnswer` |
| `SuccessIsLastWord` | `Spec => SuccessToldLast` |

### Only model-checked

All liveness, which TLAPS does not reach: `EveryRunEnds`, `AcquireEnds`, `StreamEnds`,
`StoppedJobEnds`, `RunningJobEnds`, and the liveness halves of the two refinements
(`ImplementsDispatch`, `ImplementsRunStatus`), of which the theorems state the safety halves. What
`classify_task` computes of a text is outside the model, and the four violations are TLC's.

## 6. Plan

Done: the queue with its contract and proofs, the life of chat runs, the pool, the streams over it,
submissions with their pending inputs, and the jobs, each with its safety proved. Next, in this order:

1. `ChatView`: what ChatPage shows of a conversation from socket events, reconnects and polling;
   abstract specification: it ends up showing what the rows say.
2. `Uploads`: binding of uploads under concurrent messages. `Identity`: binding on sign-in.
3. The composition of a submission, the queue and the row: a run that was acknowledged and neither
   abandoned nor lost in a crash is executed.

Known gaps of the modules there are: the first scan of the watchdog, which may end its loop
(`app/services/run_watchdog.py:99`); the assistant message of a run that the watchdog ended
(`app/services/task_executor.py:860`); queued `long_job` rows after a crash, which
`backend/README.md:226` leaves to the in-process queue; a pending row whose file was deleted, of which
nothing says what it should come to.

Not modelled and not planned: pages that list and edit rows, schema migrations, password and token
formats, file-system and subprocess I/O as such, deployment scripts. More than one worker process is
excluded by the deployment's own rule.
