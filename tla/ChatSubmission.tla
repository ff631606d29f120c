--------------------------- MODULE ChatSubmission ---------------------------
(***************************************************************************)
(* How a user's message becomes a run: the socket handler of one           *)
(* conversation with the task classifier and the pending inputs.           *)
(*                                                                         *)
(* A message is looked up among the runs of the conversation, its files    *)
(* are checked, it is classified with the input that is still pending, and *)
(* its run is stored.  All that is one block of the event loop and ends    *)
(* with the acknowledgement, a send that waits when the client reads       *)
(* slowly.  What follows is another block: a pending input is remembered,  *)
(* or the pending input is consumed and the run is enqueued.               *)
(*                                                                         *)
(* Several sockets of one conversation (two tabs, a reconnect) are several *)
(* handlers, each with one long-lived database session.  A session reads   *)
(* the snapshot of its transaction, which building the acknowledgement     *)
(* opens: the second block looks for pending rows in that snapshot.  What  *)
(* it writes goes to the rows as they are.                                 *)
(*                                                                         *)
(* A file is the message it came with and its type, a text is the message  *)
(* it came with.  The age of a row is abstracted to "due", and how a run   *)
(* ends that was enqueued is left to RunLifecycle and JobRunner.           *)
(***************************************************************************)
EXTENDS Naturals, Sequences, FiniteSets

CONSTANTS
  Agents,    \* kinds of agent the conversation may be with
  Sockets,
  Messages,  \* client message ids
  NoText,
  MaxRuns,      \* bound on task_runs rows
  MaxDeletions  \* bound on deleted files and runs

ASSUME ChatSubmissionAssumption ==
  /\ Agents \subseteq {"daoban", "ppt", "mysql", "chat"}
  /\ NoText \notin Messages
  /\ MaxRuns \in Nat /\ MaxDeletions \in Nat

VARIABLES
  agent,      \* kind of the conversation's agent
  content,    \* what the client sends under a message id
  runs,       \* task_runs of the conversation, in the order of their ids
  memory,     \* pending_task_inputs of the conversation, likewise
  gone,       \* files whose record is deleted
  started,    \* runs that were enqueued
  socket,     \* the handler's block and what it knows
  horizon,    \* rows of task_runs that the socket's last snapshot has
  overlap     \* history: two submissions were under way at once

dbVars == <<runs, memory, gone>>
vars == <<agent, content, runs, memory, gone, started, socket, horizon, overlap>>

-----------------------------------------------------------------------------
\* The messages that the classifiers tell apart.  A "later" text announces more
\* material and has the intent of a job, a "vague" one announces material only.
\* An empty message is answered with an error and is not among them.
Texts == {"empty", "clear", "plain", "later", "vague", "intent", "help", "report", "dated"}

Just(texts) == [text : texts, files : {{}}]
With(texts, types) == [text : texts, files : {types}]

Contents(a) ==
  CASE a = "daoban" -> Just({"clear", "plain"}) \cup With({"plain"}, {"pdf"})
                         \cup With({"empty"}, {"other"}) \cup With({"empty"}, {"pdf", "other"})
    [] a = "ppt" -> Just({"clear", "vague", "intent"})
                      \cup With({"empty", "plain", "later"}, {"other"})
    [] a = "mysql" -> Just({"help", "report", "dated"})
    [] OTHER -> With({"plain"}, {"other"})

Unsent == [text |-> "unsent", files |-> {}]

Files == Messages \X {"pdf", "other"}
FilesOf(m, c) == {m} \X c.files
Pdfs(F) == {f \in F : f[2] = "pdf"}

\* The last of a list of files.  A message lists its PDF first.
LastOf(F) == {CHOOSE f \in F : f[2] = "pdf" => F = Pdfs(F)}

Kinds == {"short_chat", "long_job", "pending_input"}
Actions == {"none", "save_pdf", "save_files", "save_text", "save_text_and_files",
            "clear_pending", "consume_pending"}

RunRow == [msg : Messages, kind : Kinds, action : Actions, text : Messages \cup {NoText},
           files : SUBSET Files, pending : Nat, status : {"queued", "success"},
           deleted : BOOLEAN]

PendingRow == [status : {"pending", "consumed", "cancelled", "expired"},
               text : Messages \cup {NoText}, files : SUBSET Files, due : BOOLEAN]

\* A new row of pending_task_inputs.
EmptyRow == [status |-> "pending", text |-> NoText, files |-> {}, due |-> FALSE]

Idle == [run |-> 0, seen |-> {}]

TypeOK ==
  /\ agent \in Agents
  /\ content \in [Messages -> Contents(agent) \cup {Unsent}]
  /\ runs \in Seq(RunRow) /\ Len(runs) <= MaxRuns
  /\ memory \in Seq(PendingRow)
  /\ gone \in SUBSET Files
  /\ started \subseteq DOMAIN runs
  /\ socket \in [Sockets -> [run : {0} \cup DOMAIN runs, seen : SUBSET DOMAIN memory]]
  /\ horizon \in [Sockets -> 0..Len(runs)]
  /\ overlap \in BOOLEAN

Init ==
  /\ agent \in Agents
  /\ content = [m \in Messages |-> Unsent]
  /\ runs = <<>> /\ memory = <<>>
  /\ gone = {} /\ started = {}
  /\ socket = [s \in Sockets |-> Idle]
  /\ horizon = [s \in Sockets |-> 0]
  /\ overlap = FALSE

-----------------------------------------------------------------------------
\* Pending inputs.  Rows are found by their status, the one updated last first.
\* The update times have the resolution of a second, so of several active rows
\* any may come first.  Nothing keeps a second active row out.
Active(mem) == {p \in DOMAIN mem : mem[p].status = "pending"}

First(rows) == IF rows = {} THEN {0} ELSE rows

\* get_pending_task, with the row that came first: a row past its time is marked.
Retired(mem, p) == IF p # 0 /\ mem[p].due THEN [mem EXCEPT ![p].status = "expired"] ELSE mem
Found(mem, p) == IF p # 0 /\ ~mem[p].due THEN p ELSE 0

\* Mutant: every input gets a row of its own.
AlwaysCreate(mem, p) == Append(Retired(mem, p), EmptyRow)

GetOrCreate(mem, p) ==
  IF Found(mem, p) = 0 THEN Append(Retired(mem, p), EmptyRow) ELSE mem

Target(mem, p) == IF Found(mem, p) = 0 THEN Len(mem) + 1 ELSE p

SaveText(mem, p, t) ==
  [GetOrCreate(mem, p) EXCEPT ![Target(mem, p)].text = t, ![Target(mem, p)].due = FALSE]

\* Mutant: the row is written as a whole.
SaveFilesAnew(mem, p, F) ==
  [GetOrCreate(mem, p) EXCEPT ![Target(mem, p)] = [EmptyRow EXCEPT !.files = F]]

SaveFiles(mem, p, F) ==
  [GetOrCreate(mem, p) EXCEPT ![Target(mem, p)].files = F, ![Target(mem, p)].due = FALSE]

Cancel(mem, p) ==
  IF Found(mem, p) = 0 THEN Retired(mem, p) ELSE [mem EXCEPT ![p].status = "cancelled"]

\* Mutant: a status that no reader knows.
ConsumeAsDone(mem, p) == [mem EXCEPT ![p].status = "done"]

\* It does not look at the status the row has by now.
Consume(mem, p) == [mem EXCEPT ![p].status = "consumed"]

-----------------------------------------------------------------------------
\* The classifier.  p is the pending row, 0 if there is none.

Slot(p) == IF p = 0 THEN EmptyRow ELSE memory[p]
Said(t) == IF t = NoText THEN "empty" ELSE content[t].text

Job(p, t, F) ==
  [kind |-> "long_job", action |-> IF p = 0 THEN "none" ELSE "consume_pending",
   text |-> t, files |-> F, pending |-> p]

PendingInput(action, t, F) ==
  [kind |-> "pending_input", action |-> action, text |-> t, files |-> F, pending |-> 0]

ShortChat(t, F) ==
  [kind |-> "short_chat", action |-> "none", text |-> t, files |-> F, pending |-> 0]

ClassifyDaoban(m, c, p) ==
  LET own == FilesOf(m, c)
      hasPdf == Pdfs(own) # {}
      hasText == c.text # "empty"
      slot == Slot(p)
  IN IF c.text = "clear" THEN PendingInput("clear_pending", m, own)
     ELSE CASE hasPdf /\ hasText -> Job(p, m, own)
            [] hasPdf /\ ~hasText /\ slot.text # NoText -> Job(p, slot.text, own)
            [] hasPdf /\ ~hasText /\ slot.text = NoText -> PendingInput("save_pdf", NoText, own)
            [] ~hasPdf /\ hasText /\ slot.files # {} -> Job(p, m, LastOf(slot.files))
            [] ~hasPdf /\ hasText /\ slot.files = {} -> PendingInput("save_text", m, own)
            [] OTHER -> PendingInput("none", NoText, own)

Incomplete == {"later", "vague"}
HasIntent == {"later", "intent"}

\* A plain text beside the files that complete a pending text is dropped.
ClassifyPpt(m, c, p) ==
  LET own == FilesOf(m, c)
      slot == Slot(p)
      all == slot.files \cup own
      completes == own # {} /\ Said(slot.text) \in HasIntent
  IN CASE c.text = "clear" -> PendingInput("clear_pending", m, own)
       [] c.text \in Incomplete ->
            PendingInput(IF own # {} THEN "save_text_and_files" ELSE "save_text", m, all)
       [] c.text \in HasIntent \ Incomplete -> Job(p, m, all)
       [] c.text \in {"plain", "empty"} /\ completes -> Job(p, slot.text, all)
       [] c.text = "empty" /\ ~completes -> PendingInput("save_files", NoText, all)
       [] OTHER -> ShortChat(m, own)

AsksHelp == {"help"}
AsksReport == {"report", "dated"}
HasDates == {"dated"}

\* Without dates the user is asked for them, and nothing is remembered.
ClassifyMysql(m, c) ==
  CASE c.text \in AsksReport \ (AsksHelp \cup HasDates) -> PendingInput("none", m, FilesOf(m, c))
    [] c.text \in (AsksReport \cap HasDates) \ AsksHelp -> Job(0, m, FilesOf(m, c))
    [] OTHER -> ShortChat(m, FilesOf(m, c))

Classify(m, c, p) ==
  CASE agent = "daoban" -> ClassifyDaoban(m, c, p)
    [] agent = "ppt" -> ClassifyPpt(m, c, p)
    [] agent = "mysql" -> ClassifyMysql(m, c)
    [] OTHER -> ShortChat(m, FilesOf(m, c))

HasMemory == agent \in {"daoban", "ppt"}

-----------------------------------------------------------------------------
\* The first block of the handler.

\* Mutant: no rollback, the lookup reads the snapshot the session still has.
StaleKnown(s, m) ==
  \E r \in 1..horizon[s] : runs[r].msg = m /\ ~runs[r].deleted

\* The run of a client message, in a transaction of its own.
Known(s, m) == \E r \in DOMAIN runs : runs[r].msg = m /\ ~runs[r].deleted

\* Its run is reported, and nothing changes.
ReceiveAgain(s, m) ==
  /\ socket[s] = Idle
  /\ Known(s, m)
  /\ horizon' = [horizon EXCEPT ![s] = Len(runs)]
  /\ UNCHANGED <<agent, content, dbVars, started, socket, overlap>>

\* None of the files was deleted.
Usable(F) == F \cap gone = {}

NewRun(m, class) ==
  [msg |-> m, kind |-> class.kind, action |-> class.action, text |-> class.text,
   files |-> class.files, pending |-> class.pending, status |-> "queued",
   deleted |-> FALSE]

Submissions == {s \in Sockets : socket[s] # Idle}

\* A message with a deleted file, or that would take one from the pending input,
\* is answered with an error and leaves nothing behind.
Receive(s, m, c) ==
  /\ socket[s] = Idle /\ Len(runs) < MaxRuns
  /\ content[m] \in {Unsent, c}
  /\ ~Known(s, m)
  /\ Usable(FilesOf(m, c))
  /\ \E p \in IF HasMemory THEN First(Active(memory)) ELSE {0} :
       LET class == Classify(m, c, Found(memory, p)) IN
       /\ Usable(class.files)
       /\ memory' = Retired(memory, p)
       /\ runs' = Append(runs, NewRun(m, class))
  /\ content' = [content EXCEPT ![m] = c]
  /\ socket' = [socket EXCEPT ![s] = [run |-> Len(runs'), seen |-> Active(memory')]]
  /\ horizon' = [horizon EXCEPT ![s] = Len(runs')]
  /\ overlap' = (overlap \/ Submissions # {})
  /\ UNCHANGED <<agent, gone, started>>

-----------------------------------------------------------------------------
\* The second block.

\* Mutant: what is remembered is the list of all files of the message.
EveryFile(F) == F

\* save_pdf keeps the PDF files of the message only.
PdfOnly(F) == Pdfs(F)

\* What the memory action of run r makes of the pending rows, "seen" being the
\* active rows of the snapshot.  Its two commits read one after the other.
Remembered(r, seen) ==
  LET row == runs[r] IN
  CASE row.action = "save_pdf" ->
         {SaveFiles(memory, p, PdfOnly(row.files)) : p \in First(seen)}
    [] row.action = "save_files" -> {SaveFiles(memory, p, row.files) : p \in First(seen)}
    [] row.action = "save_text" -> {SaveText(memory, p, row.text) : p \in First(seen)}
    [] row.action = "save_text_and_files" ->
         UNION {{SaveFiles(mem, q, row.files) : q \in First(Active(mem))} :
                  mem \in {SaveText(memory, p, row.text) : p \in First(seen)}}
    [] row.action = "clear_pending" -> {Cancel(memory, p) : p \in First(seen)}
    [] row.action = "consume_pending" -> {Consume(memory, row.pending)}
    [] OTHER -> {memory}

Leave(s) ==
  /\ socket' = [socket EXCEPT ![s] = Idle]
  /\ horizon' = [horizon EXCEPT ![s] = Len(runs)]

\* The input is remembered and its run is a success.
Remember(s) ==
  LET r == socket[s].run IN
  /\ r # 0 /\ runs[r].kind = "pending_input"
  /\ memory' \in Remembered(r, socket[s].seen)
  /\ runs' = [runs EXCEPT ![r].status = "success"]
  /\ Leave(s)
  /\ UNCHANGED <<agent, content, gone, started, overlap>>

\* Mutant: the pending input is left as it is.
StartOnly(s) ==
  LET r == socket[s].run IN
  /\ r # 0 /\ runs[r].kind # "pending_input"
  /\ started' = started \cup {r}
  /\ Leave(s)
  /\ UNCHANGED <<agent, content, dbVars, overlap>>

\* The pending input is consumed and the run is enqueued.
Start(s) ==
  LET r == socket[s].run IN
  /\ r # 0 /\ runs[r].kind # "pending_input"
  /\ memory' \in Remembered(r, socket[s].seen)
  /\ started' = started \cup {r}
  /\ Leave(s)
  /\ UNCHANGED <<agent, content, runs, gone, overlap>>

\* An exception, before or after the pending rows were changed: the socket is
\* closed, and the client connects again.  The run stays as it is.  A crash of
\* the process does this to every socket.
Abandon(s) ==
  LET r == socket[s].run IN
  /\ r # 0
  /\ memory' \in {memory} \cup Remembered(r, socket[s].seen)
  /\ Leave(s)
  /\ UNCHANGED <<agent, content, runs, gone, started, overlap>>

-----------------------------------------------------------------------------
\* The rest of the system.

Deletions == Cardinality(gone) + Cardinality({r \in DOMAIN runs : runs[r].deleted})

\* An administrator deletes the record of a run that has ended, which one that
\* was enqueued may have.
DeleteRun(r) ==
  /\ Deletions < MaxDeletions
  /\ r \in started \/ runs[r].status = "success"
  /\ ~runs[r].deleted
  /\ runs' = [runs EXCEPT ![r].deleted = TRUE]
  /\ UNCHANGED <<agent, content, memory, gone, started, socket, horizon, overlap>>

\* A worker thread deletes the record of an uploaded file.
DeleteFile(f) ==
  /\ Deletions < MaxDeletions
  /\ f \in FilesOf(f[1], content[f[1]]) \ gone
  /\ gone' = gone \cup {f}
  /\ UNCHANGED <<agent, content, runs, memory, started, socket, horizon, overlap>>

\* A pending row reaches its time, hours after its last update.  No send lasts
\* that long.
TimePasses(p) ==
  /\ Submissions = {}
  /\ memory[p].status = "pending" /\ ~memory[p].due
  /\ memory' = [memory EXCEPT ![p].due = TRUE]
  /\ UNCHANGED <<agent, content, runs, gone, started, socket, horizon, overlap>>

Next ==
  \/ \E s \in Sockets :
       \/ \E m \in Messages :
            ReceiveAgain(s, m) \/ \E c \in Contents(agent) : Receive(s, m, c)
       \/ Remember(s) \/ Start(s) \/ Abandon(s)
  \/ \E r \in DOMAIN runs : DeleteRun(r)
  \/ \E f \in Files : DeleteFile(f)
  \/ \E p \in DOMAIN memory : TimePasses(p)

Spec == Init /\ [][Next]_vars

-----------------------------------------------------------------------------
\* Properties.

\* A message has one run, however often it is sent, over whichever socket, and
\* whatever fails in between.
OneRunPerMessage ==
  \A r, q \in DOMAIN runs :
    runs[r].msg = runs[q].msg /\ ~runs[r].deleted /\ ~runs[q].deleted => r = q

\* A job has what its runner needs, although its text and its files may come from
\* different messages and sockets: a PDF and a text for daoban, the intent of a
\* presentation for ppt.
JobIsComplete ==
  \A r \in DOMAIN runs :
    runs[r].kind = "long_job" =>
      /\ agent = "daoban" => runs[r].text # NoText /\ Pdfs(runs[r].files) # {}
      /\ agent = "ppt" => Said(runs[r].text) \in HasIntent

TextSaves == {"save_text", "save_text_and_files"}
FileSaves == {"save_pdf", "save_files", "save_text_and_files"}
Ends == {"clear_pending", "consume_pending"}

\* Later than r, a message came with one of these actions.
Later(r, actions) == \E q \in DOMAIN runs : q > r /\ runs[q].action \in actions

Expired == \E p \in DOMAIN memory : memory[p].status = "expired"

\* What a file save is to keep: all files of its run, which for ppt are those
\* already pending and its own, or the PDFs alone.
FilesToKeep(r) == IF runs[r].action = "save_pdf" THEN Pdfs(runs[r].files) ELSE runs[r].files

\* As long as submissions do not overlap, an input that was acknowledged as
\* recorded, its text and every file of it, stays in the active pending row until
\* a later message uses, clears or replaces it, or it expires.
InputsKept ==
  overlap \/ Expired \/
  \A r \in DOMAIN runs :
    runs[r].kind = "pending_input" /\ runs[r].status = "success" =>
      /\ runs[r].action \in TextSaves =>
           \/ Later(r, TextSaves \cup Ends)
           \/ \E p \in Active(memory) : memory[p].text = runs[r].text
      /\ runs[r].action \in FileSaves =>
           \/ Later(r, FileSaves \cup Ends)
           \/ \E p \in Active(memory) : FilesToKeep(r) \subseteq memory[p].files

\* As long as submissions do not overlap, there is one active pending row.
OnePendingRow == overlap \/ Cardinality(Active(memory)) <= 1

\* A pending input goes into one job.
PendingUsedOnce ==
  \A r, q \in started :
    runs[r].pending # 0 /\ runs[r].pending = runs[q].pending => r = q

\* As long as submissions do not overlap, it does, through crashes and failures.
SequentialUseOnce == overlap \/ PendingUsedOnce

=============================================================================
