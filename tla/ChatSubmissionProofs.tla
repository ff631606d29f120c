------------------------ MODULE ChatSubmissionProofs ------------------------
(***************************************************************************)
(* Proofs about how a user's messages become runs, for any sockets,        *)
(* messages and agents.                                                    *)
(*                                                                         *)
(* Whatever the sockets do, a row of pending_task_inputs that is no longer *)
(* pending never becomes so again, and daoban's rows hold PDF files only.  *)
(* What is promised of submissions that do not overlap rests on more: the  *)
(* one handler that is between its two blocks is the one of the last run,  *)
(* the snapshot it will read is still what the table says, and the row its *)
(* job uses is the active one.                                             *)
(***************************************************************************)
EXTENDS ChatSubmission, FiniteSetTheorems, SequenceTheorems, TLAPS

-----------------------------------------------------------------------------
\* The inductive invariant.

\* A run consumes a pending row exactly if it was made with one, and only daoban
\* remembers PDF files alone.
RunShape ==
  \A r \in DOMAIN runs :
    /\ runs[r].action = "consume_pending" <=> runs[r].pending # 0
    /\ runs[r].pending # 0 => runs[r].pending \in DOMAIN memory
    /\ agent = "daoban" => runs[r].action \notin {"save_files", "save_text_and_files"}

OnlyPdfs(mem) == \A p \in DOMAIN mem : mem[p].files = Pdfs(mem[p].files)

PdfRows == agent = "daoban" => OnlyPdfs(memory)

\* The row that a started run was made with is not pending any more.
UsedUp ==
  \A r \in started : runs[r].pending # 0 => memory[runs[r].pending].status # "pending"

OneActive(mem) == \A p, q \in Active(mem) : p = q

\* The socket that is between its blocks knows how things are.
UpToDate(s) ==
  LET r == socket[s].run IN
  /\ r = Len(runs)
  /\ runs[r].status = "queued"
  /\ socket[s].seen = Active(memory)
  /\ runs[r].pending # 0 => runs[r].pending \in Active(memory)

InTurn ==
  /\ \A s, t \in Submissions : s = t
  /\ \A s \in Submissions : UpToDate(s)
  /\ OneActive(memory)

SubmissionInv ==
  /\ TypeOK
  /\ OneRunPerMessage /\ JobIsComplete
  /\ RunShape /\ PdfRows /\ UsedUp
  /\ overlap \/ InTurn
  /\ InputsKept /\ SequentialUseOnce

-----------------------------------------------------------------------------
\* What the operations on the pending rows do to them.

HasExpired(mem) == \E p \in DOMAIN mem : mem[p].status = "expired"

\* Rows stay where they are, and none becomes pending again.
Grown(mem, new) ==
  /\ new \in Seq(PendingRow) /\ DOMAIN mem \subseteq DOMAIN new
  /\ \A q \in DOMAIN mem : new[q].status = "pending" => mem[q].status = "pending"

\* The row that an operation looks for is one of those it may see.
LEMMA FirstRow ==
  ASSUME NEW mem \in Seq(PendingRow), NEW rows \in SUBSET DOMAIN mem, NEW p \in First(rows)
  PROVE  p \in {0} \cup DOMAIN mem /\ (p = 0 => rows = {}) /\ (p # 0 => p \in rows)
<1>1. 0 \notin DOMAIN mem
  BY LenProperties
<1> QED BY <1>1 DEF First

\* One row is written.
LEMMA RowWritten ==
  ASSUME NEW mem \in Seq(PendingRow), NEW w \in DOMAIN mem, NEW e \in PendingRow
  PROVE  LET new == [mem EXCEPT ![w] = e] IN
         /\ new \in Seq(PendingRow) /\ DOMAIN new = DOMAIN mem /\ new[w] = e
         /\ \A q \in DOMAIN mem \ {w} : new[q] = mem[q]
<1>1. w \in 1..Len(mem)
  BY LenProperties
<1> QED BY <1>1, ExceptSeq

\* get_pending_task: the row it found is as it was, or it is expired and none is found.
LEMMA RetiredRows ==
  ASSUME NEW mem \in Seq(PendingRow), NEW p \in {0} \cup DOMAIN mem
  PROVE  LET new == Retired(mem, p) IN
         /\ new \in Seq(PendingRow) /\ DOMAIN new = DOMAIN mem
         /\ \A q \in DOMAIN mem : new[q].files = mem[q].files
         /\ \A q \in DOMAIN mem \ {p} : new[q] = mem[q]
         /\ \/ p # 0 /\ Found(mem, p) = p /\ new = mem
            \/ p # 0 /\ Found(mem, p) = 0 /\ new[p].status = "expired"
            \/ p = 0 /\ Found(mem, p) = 0 /\ new = mem
<1>1. CASE p = 0 \/ ~mem[p].due
  BY <1>1 DEF Retired, Found
<1>2. CASE p # 0 /\ mem[p].due
  <2> DEFINE e == [mem[p] EXCEPT !.status = "expired"]
  <2>1. p \in DOMAIN mem /\ mem[p] \in PendingRow
    BY <1>2, ElementOfSeq, LenProperties
  <2>2. e \in PendingRow /\ e.files = mem[p].files /\ e.status = "expired"
    BY <2>1 DEF PendingRow
  <2>3. Retired(mem, p) = [mem EXCEPT ![p] = e] /\ Found(mem, p) = 0
    BY <1>2 DEF Retired, Found
  <2> HIDE DEF e
  <2> QED BY <1>2, <2>1, <2>2, <2>3, RowWritten
<1> QED BY <1>1, <1>2

\* get_or_create: the row that is then written is the one found or a new one.
LEMMA TargetRow ==
  ASSUME NEW mem \in Seq(PendingRow), NEW p \in {0} \cup DOMAIN mem
  PROVE  LET g == GetOrCreate(mem, p)
             w == Target(mem, p)
         IN /\ g \in Seq(PendingRow) /\ w \in DOMAIN g
            /\ \/ p # 0 /\ w = p /\ g = mem
               \/ /\ w \notin DOMAIN mem /\ DOMAIN g = DOMAIN mem \cup {w} /\ g[w] = EmptyRow
                  /\ \A q \in DOMAIN mem : g[q] = Retired(mem, p)[q]
                  /\ p = 0 \/ Retired(mem, p)[p].status = "expired"
<1> DEFINE new == Retired(mem, p)
<1>1. /\ new \in Seq(PendingRow) /\ DOMAIN new = DOMAIN mem
      /\ \/ p # 0 /\ Found(mem, p) = p
         \/ Found(mem, p) = 0 /\ (p = 0 \/ new[p].status = "expired")
  BY RetiredRows
<1>2. /\ Len(mem) \in Nat /\ DOMAIN mem = 1..Len(mem)
      /\ Len(new) \in Nat /\ DOMAIN new = 1..Len(new)
  BY <1>1, LenProperties
<1>3. Len(new) = Len(mem)
  BY <1>1, <1>2
<1>4. CASE p # 0 /\ Found(mem, p) = p
  BY <1>4 DEF GetOrCreate, Target
<1>5. CASE Found(mem, p) = 0 /\ (p = 0 \/ new[p].status = "expired")
  <2> DEFINE g == Append(new, EmptyRow)
  <2>1. EmptyRow \in PendingRow
    BY DEF EmptyRow, PendingRow
  <2>2. /\ g \in Seq(PendingRow) /\ Len(g) = Len(mem) + 1
        /\ \A q \in 1..Len(mem) : g[q] = new[q]
        /\ g[Len(mem) + 1] = EmptyRow
    BY <1>1, <1>3, <2>1, AppendProperties
  <2>3. DOMAIN g = 1..(Len(mem) + 1)
    BY <2>2, LenProperties
  <2> HIDE DEF g, new
  <2>4. 1..(Len(mem) + 1) = 1..Len(mem) \cup {Len(mem) + 1} /\ Len(mem) + 1 \notin 1..Len(mem)
    BY <1>2
  <2>5. GetOrCreate(mem, p) = g /\ Target(mem, p) = Len(mem) + 1
    BY <1>5 DEF GetOrCreate, Target, g, new
  <2> QED BY <1>2, <1>5, <2>2, <2>3, <2>4, <2>5 DEF new
<1> QED BY <1>1, <1>4, <1>5

\* save_pending_text writes the text of that row,
LEMMA SaveTextRow ==
  ASSUME NEW mem \in Seq(PendingRow), NEW p \in {0} \cup DOMAIN mem,
         NEW t \in Messages \cup {NoText}
  PROVE  LET g == GetOrCreate(mem, p)
             w == Target(mem, p)
             new == SaveText(mem, p, t)
         IN /\ new \in Seq(PendingRow) /\ DOMAIN new = DOMAIN g
            /\ new[w].text = t /\ new[w].due = FALSE
            /\ \A q \in DOMAIN g : new[q].status = g[q].status /\ new[q].files = g[q].files
<1> DEFINE g == GetOrCreate(mem, p)
           w == Target(mem, p)
           e == [g[w] EXCEPT !.text = t, !.due = FALSE]
<1>1. g \in Seq(PendingRow) /\ w \in DOMAIN g
  BY TargetRow
<1>2. g[w] \in PendingRow
  BY <1>1, ElementOfSeq, LenProperties
<1> HIDE DEF g, w
<1>3. /\ e \in PendingRow /\ e.status = g[w].status /\ e.text = t
      /\ e.files = g[w].files /\ e.due = FALSE
  BY <1>2 DEF PendingRow
<1>4. [g EXCEPT ![w].text = t, ![w].due = FALSE] = [g EXCEPT ![w] = e]
  BY <1>1
<1> DEFINE new == SaveText(mem, p, t)
<1>5. new = [g EXCEPT ![w] = e]
  BY <1>4 DEF SaveText, g, w
<1> HIDE DEF e, new
<1>6. /\ new \in Seq(PendingRow) /\ DOMAIN new = DOMAIN g
      /\ new[w] = e /\ \A q \in DOMAIN g \ {w} : new[q] = g[q]
  BY <1>1, <1>3, <1>5, RowWritten
<1>7. \A q \in DOMAIN g : new[q] = IF q = w THEN e ELSE g[q]
  BY <1>6
<1> QED BY <1>1, <1>3, <1>6, <1>7 DEF g, w, new

\* save_pending_files its files.
LEMMA SaveFilesRow ==
  ASSUME NEW mem \in Seq(PendingRow), NEW p \in {0} \cup DOMAIN mem, NEW F \in SUBSET Files
  PROVE  LET g == GetOrCreate(mem, p)
             w == Target(mem, p)
             new == SaveFiles(mem, p, F)
         IN /\ new \in Seq(PendingRow) /\ DOMAIN new = DOMAIN g
            /\ new[w].files = F
            /\ \A q \in DOMAIN g : /\ new[q].status = g[q].status /\ new[q].text = g[q].text
                                  /\ new[q].files \in {g[q].files, F}
<1> DEFINE g == GetOrCreate(mem, p)
           w == Target(mem, p)
           e == [g[w] EXCEPT !.files = F, !.due = FALSE]
<1>1. g \in Seq(PendingRow) /\ w \in DOMAIN g
  BY TargetRow
<1>2. g[w] \in PendingRow
  BY <1>1, ElementOfSeq, LenProperties
<1> HIDE DEF g, w
<1>3. /\ e \in PendingRow /\ e.status = g[w].status /\ e.text = g[w].text
      /\ e.files = F /\ e.due = FALSE
  BY <1>2 DEF PendingRow
<1>4. [g EXCEPT ![w].files = F, ![w].due = FALSE] = [g EXCEPT ![w] = e]
  BY <1>1
<1> DEFINE new == SaveFiles(mem, p, F)
<1>5. new = [g EXCEPT ![w] = e]
  BY <1>4 DEF SaveFiles, g, w
<1> HIDE DEF e, new
<1>6. /\ new \in Seq(PendingRow) /\ DOMAIN new = DOMAIN g
      /\ new[w] = e /\ \A q \in DOMAIN g \ {w} : new[q] = g[q]
  BY <1>1, <1>3, <1>5, RowWritten
<1>7. \A q \in DOMAIN g : new[q] = IF q = w THEN e ELSE g[q]
  BY <1>6
<1> QED BY <1>1, <1>3, <1>6, <1>7 DEF g, w, new

\* cancel_pending and consume_pending write the status of one row.
LEMMA StatusRow ==
  ASSUME NEW mem \in Seq(PendingRow), NEW p \in DOMAIN mem, NEW st \in {"cancelled", "consumed"}
  PROVE  LET new == [mem EXCEPT ![p].status = st] IN
         /\ new \in Seq(PendingRow) /\ DOMAIN new = DOMAIN mem
         /\ new[p].status = st /\ new[p].files = mem[p].files
         /\ \A q \in DOMAIN mem \ {p} : new[q] = mem[q]
<1> DEFINE e == [mem[p] EXCEPT !.status = st]
<1>1. mem[p] \in PendingRow
  BY ElementOfSeq, LenProperties
<1>2. e \in PendingRow /\ e.status = st /\ e.files = mem[p].files
  BY <1>1 DEF PendingRow
<1>3. [mem EXCEPT ![p].status = st] = [mem EXCEPT ![p] = e]
  OBVIOUS
<1> HIDE DEF e
<1> QED BY <1>2, <1>3, RowWritten

\* A row that was consumed says so.
LEMMA ConsumedRow ==
  ASSUME NEW mem \in Seq(PendingRow), NEW p \in DOMAIN mem
  PROVE  Consume(mem, p)[p].status = "consumed"
<1>1. mem[p] \in PendingRow
  BY ElementOfSeq, LenProperties
<1>2. Consume(mem, p)[p] = [mem[p] EXCEPT !.status = "consumed"]
  BY DEF Consume
<1> QED BY <1>1, <1>2 DEF PendingRow

\* Rows stay in place while one operation follows the other.
LEMMA GrownTwice ==
  ASSUME NEW mem, NEW mid, NEW new, Grown(mem, mid), Grown(mid, new)
  PROVE  Grown(mem, new)
<1> QED BY DEF Grown

\* No operation makes a row pending that was not.
LEMMA SavesGrow ==
  ASSUME NEW mem \in Seq(PendingRow), NEW p \in {0} \cup DOMAIN mem,
         NEW t \in Messages \cup {NoText}, NEW F \in SUBSET Files
  PROVE  Grown(mem, SaveText(mem, p, t)) /\ Grown(mem, SaveFiles(mem, p, F))
<1> DEFINE g == GetOrCreate(mem, p)
           w == Target(mem, p)
<1>1. Grown(mem, g) /\ w \in DOMAIN g
  <2> DEFINE ret == Retired(mem, p)
  <2>1. /\ g \in Seq(PendingRow) /\ w \in DOMAIN g
        /\ \/ g = mem
           \/ DOMAIN g = DOMAIN mem \cup {w} /\ \A q \in DOMAIN mem : g[q] = ret[q]
    BY TargetRow
  <2>2. /\ \A q \in DOMAIN mem \ {p} : ret[q] = mem[q]
        /\ ret = mem \/ ret[p].status = "expired"
    BY RetiredRows
  <2> HIDE DEF g, w, ret
  <2>3. \A q \in DOMAIN mem : ret[q].status = "pending" => mem[q].status = "pending"
    BY <2>2
  <2> QED BY <2>1, <2>3 DEF Grown
<1>2. /\ SaveText(mem, p, t) \in Seq(PendingRow) /\ DOMAIN SaveText(mem, p, t) = DOMAIN g
      /\ \A q \in DOMAIN g : SaveText(mem, p, t)[q].status = g[q].status
  BY SaveTextRow
<1>3. /\ SaveFiles(mem, p, F) \in Seq(PendingRow) /\ DOMAIN SaveFiles(mem, p, F) = DOMAIN g
      /\ \A q \in DOMAIN g : SaveFiles(mem, p, F)[q].status = g[q].status
  BY SaveFilesRow
<1> HIDE DEF g
<1> QED BY <1>1, <1>2, <1>3 DEF Grown

\* Expiry, cancellation and consumption of a row make no row pending.
LEMMA EndsGrow ==
  ASSUME NEW mem \in Seq(PendingRow), NEW p \in {0} \cup DOMAIN mem
  PROVE  Grown(mem, Retired(mem, p)) /\ Grown(mem, Cancel(mem, p)) /\ Grown(mem, Consume(mem, p))
<1>1. Grown(mem, Retired(mem, p))
  <2> DEFINE ret == Retired(mem, p)
  <2>1. /\ ret \in Seq(PendingRow) /\ DOMAIN ret = DOMAIN mem
        /\ \A q \in DOMAIN mem \ {p} : ret[q] = mem[q]
        /\ ret = mem \/ ret[p].status = "expired"
    BY RetiredRows
  <2> HIDE DEF ret
  <2>2. Grown(mem, ret)
    BY <2>1 DEF Grown
  <2> QED BY <2>2 DEF ret
<1>2. Grown(mem, mem)
  BY DEF Grown
<1>3. ASSUME p \in DOMAIN mem, NEW st \in {"cancelled", "consumed"}
      PROVE  Grown(mem, [mem EXCEPT ![p].status = st])
  BY <1>3, StatusRow DEF Grown
<1>4. Grown(mem, Consume(mem, p))
  <2>1. CASE p \in DOMAIN mem
    BY <1>3, <2>1 DEF Consume
  <2>2. CASE p \notin DOMAIN mem
    <3>1. Consume(mem, p) = mem
      <4>1. [mem EXCEPT ![p].status = "consumed"] = [q \in DOMAIN mem |-> mem[q]]
        BY <2>2
      <4>2. mem = [q \in DOMAIN mem |-> mem[q]]
        BY LenProperties
      <4> QED BY <4>1, <4>2 DEF Consume
    <3> QED BY <1>2, <3>1
  <2> QED BY <2>1, <2>2
<1>5. Grown(mem, Cancel(mem, p))
  <2>1. CASE Found(mem, p) = 0
    BY <1>1, <2>1 DEF Cancel
  <2>2. CASE Found(mem, p) # 0
    <3>1. p \in DOMAIN mem
      BY <2>2 DEF Found
    <3> QED BY <1>3, <2>2, <3>1 DEF Cancel
  <2> QED BY <2>1, <2>2
<1> QED BY <1>1, <1>4, <1>5

\* Where all files are PDF files, they remain so if those that are saved are.
LEMMA PdfsStay ==
  ASSUME NEW mem \in Seq(PendingRow), NEW p \in {0} \cup DOMAIN mem, OnlyPdfs(mem),
         NEW t \in Messages \cup {NoText}, NEW F \in SUBSET Files
  PROVE  /\ OnlyPdfs(SaveText(mem, p, t)) /\ (F = Pdfs(F) => OnlyPdfs(SaveFiles(mem, p, F)))
         /\ OnlyPdfs(Retired(mem, p)) /\ OnlyPdfs(Cancel(mem, p)) /\ OnlyPdfs(Consume(mem, p))
<1> DEFINE g == GetOrCreate(mem, p)
           w == Target(mem, p)
<1>1. OnlyPdfs(Retired(mem, p))
  BY RetiredRows DEF OnlyPdfs
<1>2. OnlyPdfs(g) /\ w \in DOMAIN g
  <2> DEFINE ret == Retired(mem, p)
  <2>1. EmptyRow.files = Pdfs(EmptyRow.files)
    BY DEF EmptyRow, Pdfs
  <2>2. /\ w \in DOMAIN g
        /\ \/ g = mem
           \/ /\ DOMAIN g = DOMAIN mem \cup {w} /\ g[w] = EmptyRow
              /\ \A q \in DOMAIN mem : g[q] = ret[q]
    BY TargetRow
  <2>3. DOMAIN ret = DOMAIN mem
    BY RetiredRows
  <2> HIDE DEF g, w
  <2> QED BY <1>1, <2>1, <2>2, <2>3 DEF OnlyPdfs
<1>3. OnlyPdfs(SaveText(mem, p, t))
  <2>1. /\ DOMAIN SaveText(mem, p, t) = DOMAIN g
        /\ \A q \in DOMAIN g : SaveText(mem, p, t)[q].files = g[q].files
    BY SaveTextRow
  <2> HIDE DEF g
  <2> QED BY <1>2, <2>1 DEF OnlyPdfs
<1>4. ASSUME F = Pdfs(F) PROVE OnlyPdfs(SaveFiles(mem, p, F))
  <2>1. /\ DOMAIN SaveFiles(mem, p, F) = DOMAIN g
        /\ \A q \in DOMAIN g : SaveFiles(mem, p, F)[q].files \in {g[q].files, F}
    BY SaveFilesRow
  <2> HIDE DEF g
  <2> QED BY <1>2, <1>4, <2>1 DEF OnlyPdfs
<1>5. ASSUME p \in DOMAIN mem, NEW st \in {"cancelled", "consumed"}
      PROVE  OnlyPdfs([mem EXCEPT ![p].status = st])
  <2> DEFINE new == [mem EXCEPT ![p].status = st]
  <2>1. DOMAIN new = DOMAIN mem /\ \A q \in DOMAIN mem : new[q].files = mem[q].files
    BY <1>5, StatusRow
  <2> HIDE DEF new
  <2>2. OnlyPdfs(new)
    BY <2>1 DEF OnlyPdfs
  <2> QED BY <2>2 DEF new
<1>6. OnlyPdfs(Cancel(mem, p))
  <2>1. CASE Found(mem, p) = 0
    BY <1>1, <2>1 DEF Cancel
  <2>2. CASE Found(mem, p) # 0
    <3>1. p \in DOMAIN mem
      BY <2>2 DEF Found
    <3> QED BY <1>5, <2>2, <3>1 DEF Cancel
  <2> QED BY <2>1, <2>2
<1>7. OnlyPdfs(Consume(mem, p))
  <2>1. CASE p \in DOMAIN mem
    BY <1>5, <2>1 DEF Consume
  <2>2. CASE p \notin DOMAIN mem
    <3>1. /\ DOMAIN Consume(mem, p) = DOMAIN mem
          /\ \A q \in DOMAIN mem : Consume(mem, p)[q] = mem[q]
      BY <2>2 DEF Consume
    <3> QED BY <3>1 DEF OnlyPdfs
  <2> QED BY <2>1, <2>2
<1> QED BY <1>1, <1>3, <1>4, <1>6, <1>7

-----------------------------------------------------------------------------
\* The same operations when there is one active row and they see it.

\* What follows the look-up: expired rows stay expired, and if there are none, the
\* row that was active is still there.
LEMMA RetiredInTurn ==
  ASSUME NEW mem \in Seq(PendingRow), OneActive(mem), NEW p \in First(Active(mem))
  PROVE  LET new == Retired(mem, p) IN
         /\ OneActive(new) /\ Active(new) \subseteq Active(mem)
         /\ HasExpired(mem) => HasExpired(new)
         /\ Found(mem, p) # 0 => p \in Active(new)
         /\ HasExpired(new) \/ new = mem
<1>1. /\ p \in {0} \cup DOMAIN mem /\ (p = 0 => Active(mem) = {}) /\ (p # 0 => p \in Active(mem))
  BY FirstRow DEF Active
<1> DEFINE new == Retired(mem, p)
<1>2. /\ DOMAIN new = DOMAIN mem /\ \A q \in DOMAIN mem \ {p} : new[q] = mem[q]
      /\ \/ p # 0 /\ Found(mem, p) = p /\ new = mem
         \/ p # 0 /\ Found(mem, p) = 0 /\ new[p].status = "expired"
         \/ p = 0 /\ Found(mem, p) = 0 /\ new = mem
  BY <1>1, RetiredRows
<1> HIDE DEF new
<1>3. CASE new = mem
  BY <1>1, <1>2, <1>3 DEF new
<1>4. CASE p # 0 /\ Found(mem, p) = 0 /\ new[p].status = "expired"
  BY <1>1, <1>2, <1>4 DEF new, Active, OneActive, HasExpired
<1> QED BY <1>2, <1>3, <1>4

\* The row to be written is the only active one, and unless a row has expired it
\* is the one that was.
LEMMA TargetInTurn ==
  ASSUME NEW mem \in Seq(PendingRow), OneActive(mem), NEW p \in First(Active(mem))
  PROVE  LET g == GetOrCreate(mem, p)
             w == Target(mem, p)
         IN /\ g \in Seq(PendingRow) /\ w \in DOMAIN g /\ Active(g) = {w}
            /\ HasExpired(mem) => HasExpired(g)
            /\ HasExpired(g) \/ \A q \in Active(mem) : q = w /\ g[w] = mem[q]
<1> DEFINE g == GetOrCreate(mem, p)
           w == Target(mem, p)
           ret == Retired(mem, p)
<1>1. /\ p \in {0} \cup DOMAIN mem /\ (p = 0 => Active(mem) = {}) /\ (p # 0 => p \in Active(mem))
  BY FirstRow DEF Active
<1>2. /\ g \in Seq(PendingRow) /\ w \in DOMAIN g
      /\ \/ p # 0 /\ w = p /\ g = mem
         \/ /\ w \notin DOMAIN mem /\ DOMAIN g = DOMAIN mem \cup {w} /\ g[w] = EmptyRow
            /\ \A q \in DOMAIN mem : g[q] = ret[q]
            /\ p = 0 \/ ret[p].status = "expired"
  BY <1>1, TargetRow
<1>3. DOMAIN ret = DOMAIN mem /\ \A q \in DOMAIN mem \ {p} : ret[q] = mem[q]
  BY <1>1, RetiredRows
<1> HIDE DEF g, w, ret
<1>4. CASE p # 0 /\ w = p /\ g = mem
  BY <1>1, <1>2, <1>4 DEF g, w, Active, OneActive
<1>5. CASE /\ w \notin DOMAIN mem /\ DOMAIN g = DOMAIN mem \cup {w} /\ g[w] = EmptyRow
           /\ \A q \in DOMAIN mem : g[q] = ret[q]
           /\ p = 0 \/ ret[p].status = "expired"
  <2>1. EmptyRow.status = "pending"
    BY DEF EmptyRow
  <2>2. \A q \in DOMAIN mem : g[q].status = "pending" => q = p /\ p # 0
    <3>1. \A q \in DOMAIN mem \ {p} : g[q].status = "pending" => q \in Active(mem)
      BY <1>3, <1>5 DEF Active
    <3>2. \A q \in Active(mem) : q = p /\ p # 0
      BY <1>1 DEF OneActive
    <3> QED BY <1>1, <3>1, <3>2, <1>5 DEF Active
  <2>3. \A q \in DOMAIN mem : g[q].status # "pending"
    BY <1>5, <2>2
  <2>4. Active(g) = {w}
    BY <1>5, <2>1, <2>3 DEF Active
  <2>5. HasExpired(mem) => HasExpired(g)
    BY <1>1, <1>3, <1>5 DEF HasExpired, Active
  <2>6. HasExpired(g) \/ Active(mem) = {}
    BY <1>1, <1>5 DEF HasExpired, Active
  <2> QED BY <1>2, <2>4, <2>5, <2>6 DEF g, w
<1> QED BY <1>2, <1>4, <1>5

\* When one row is active, save_pending_text writes to that row and leaves its files alone.
LEMMA SaveTextInTurn ==
  ASSUME NEW mem \in Seq(PendingRow), OneActive(mem), NEW p \in First(Active(mem)),
         NEW t \in Messages \cup {NoText}
  PROVE  LET w == Target(mem, p)
             new == SaveText(mem, p, t)
         IN /\ Active(new) = {w} /\ new[w].text = t /\ new[w].due = FALSE
            /\ HasExpired(mem) => HasExpired(new)
            /\ HasExpired(new) \/ \A q \in Active(mem) : q = w /\ new[w].files = mem[q].files
<1> DEFINE g == GetOrCreate(mem, p)
           w == Target(mem, p)
           new == SaveText(mem, p, t)
<1>1. p \in {0} \cup DOMAIN mem
  BY FirstRow DEF Active
<1>2. /\ w \in DOMAIN g /\ Active(g) = {w} /\ (HasExpired(mem) => HasExpired(g))
      /\ HasExpired(g) \/ \A q \in Active(mem) : q = w /\ g[w] = mem[q]
  BY TargetInTurn
<1>3. /\ DOMAIN new = DOMAIN g /\ new[w].text = t /\ new[w].due = FALSE
      /\ \A q \in DOMAIN g : new[q].status = g[q].status /\ new[q].files = g[q].files
  BY <1>1, SaveTextRow, ZenonT(60)
<1> HIDE DEF g, w, new
<1>4. Active(new) = Active(g) /\ (HasExpired(new) <=> HasExpired(g))
  BY <1>3 DEF Active, HasExpired
<1> QED BY <1>2, <1>3, <1>4 DEF w, new

\* When one row is active, save_pending_files writes to that row and leaves its text alone.
LEMMA SaveFilesInTurn ==
  ASSUME NEW mem \in Seq(PendingRow), OneActive(mem), NEW p \in First(Active(mem)),
         NEW F \in SUBSET Files
  PROVE  LET w == Target(mem, p)
             new == SaveFiles(mem, p, F)
         IN /\ Active(new) = {w} /\ new[w].files = F
            /\ HasExpired(mem) => HasExpired(new)
            /\ HasExpired(new) \/ \A q \in Active(mem) : q = w /\ new[w].text = mem[q].text
<1> DEFINE g == GetOrCreate(mem, p)
           w == Target(mem, p)
           new == SaveFiles(mem, p, F)
<1>1. p \in {0} \cup DOMAIN mem
  BY FirstRow DEF Active
<1>2. /\ w \in DOMAIN g /\ Active(g) = {w} /\ (HasExpired(mem) => HasExpired(g))
      /\ HasExpired(g) \/ \A q \in Active(mem) : q = w /\ g[w] = mem[q]
  BY TargetInTurn
<1>3. /\ DOMAIN new = DOMAIN g /\ new[w].files = F
      /\ \A q \in DOMAIN g : new[q].status = g[q].status /\ new[q].text = g[q].text
  BY <1>1, SaveFilesRow
<1> HIDE DEF g, w, new
<1>4. Active(new) = Active(g) /\ (HasExpired(new) <=> HasExpired(g))
  BY <1>3 DEF Active, HasExpired
<1> QED BY <1>2, <1>3, <1>4 DEF w, new

\* Ending the row leaves at most one active.
LEMMA EndsInTurn ==
  ASSUME NEW mem \in Seq(PendingRow), OneActive(mem), NEW p \in First(Active(mem))
  PROVE  /\ OneActive(Cancel(mem, p)) /\ (HasExpired(mem) => HasExpired(Cancel(mem, p)))
         /\ p # 0 => /\ OneActive(Consume(mem, p))
                     /\ HasExpired(mem) => HasExpired(Consume(mem, p))
<1>1. /\ p \in {0} \cup DOMAIN mem /\ (p = 0 => Active(mem) = {}) /\ (p # 0 => p \in Active(mem))
  BY FirstRow DEF Active
<1>2. ASSUME p # 0, NEW st \in {"cancelled", "consumed"}
      PROVE  LET new == [mem EXCEPT ![p].status = st] IN
             OneActive(new) /\ (HasExpired(mem) => HasExpired(new))
  <2> DEFINE new == [mem EXCEPT ![p].status = st]
  <2>1. /\ DOMAIN new = DOMAIN mem /\ new[p].status = st /\ st # "pending"
        /\ \A q \in DOMAIN mem \ {p} : new[q] = mem[q]
    BY <1>1, <1>2, StatusRow
  <2> HIDE DEF new
  <2>2. OneActive(new) /\ (HasExpired(mem) => HasExpired(new))
    BY <1>1, <1>2, <2>1 DEF OneActive, Active, HasExpired
  <2> QED BY <2>2 DEF new
<1>3. CASE Found(mem, p) = 0
  BY <1>2, <1>3, RetiredInTurn DEF Cancel, Consume
<1>4. CASE Found(mem, p) # 0
  <2>1. p # 0
    BY <1>4 DEF Found
  <2> QED BY <1>2, <1>4, <2>1 DEF Cancel, Consume
<1> QED BY <1>3, <1>4

-----------------------------------------------------------------------------
\* What the second block makes of the pending rows.

\* What the parts of a run may be.
LEMMA RunParts ==
  ASSUME TypeOK, NEW r \in DOMAIN runs
  PROVE  /\ runs[r] \in RunRow /\ runs[r].action \in Actions
         /\ runs[r].text \in Messages \cup {NoText} /\ runs[r].files \in SUBSET Files
         /\ Pdfs(runs[r].files) \in SUBSET Files
         /\ Pdfs(Pdfs(runs[r].files)) = Pdfs(runs[r].files)
<1>1. runs[r] \in RunRow
  BY ElementOfSeq, LenProperties DEF TypeOK
<1>2. /\ runs[r].text \in Messages \cup {NoText} /\ runs[r].files \in SUBSET Files
      /\ runs[r].action \in Actions
  BY <1>1 DEF RunRow
<1> QED BY <1>1, <1>2 DEF Pdfs

\* The choices that a memory action has.
LEMMA RememberedCases ==
  ASSUME TypeOK, NEW r \in DOMAIN runs, NEW seen, NEW new \in Remembered(r, seen)
  PROVE  LET row == runs[r] IN
         \/ /\ row.action = "save_pdf"
            /\ \E p \in First(seen) : new = SaveFiles(memory, p, Pdfs(row.files))
         \/ /\ row.action = "save_files"
            /\ \E p \in First(seen) : new = SaveFiles(memory, p, row.files)
         \/ row.action = "save_text" /\ \E p \in First(seen) : new = SaveText(memory, p, row.text)
         \/ /\ row.action = "save_text_and_files"
            /\ \E p \in First(seen) :
                 LET mid == SaveText(memory, p, row.text) IN
                 \E q \in First(Active(mid)) : new = SaveFiles(mid, q, row.files)
         \/ row.action = "clear_pending" /\ \E p \in First(seen) : new = Cancel(memory, p)
         \/ row.action = "consume_pending" /\ new = Consume(memory, row.pending)
         \/ row.action = "none" /\ new = memory
<1>1. runs[r].action \in Actions
  BY RunParts
<1> DEFINE act == runs[r].action
<1>2. CASE act = "save_pdf"
  BY <1>2 DEF Remembered, PdfOnly
<1>3. CASE act = "save_files"
  BY <1>3 DEF Remembered
<1>4. CASE act = "save_text"
  BY <1>4 DEF Remembered
<1>5. CASE act = "save_text_and_files"
  BY <1>5 DEF Remembered
<1>6. CASE act = "clear_pending"
  BY <1>6 DEF Remembered
<1>7. CASE act = "consume_pending"
  BY <1>7 DEF Remembered
<1>8. CASE act = "none"
  BY <1>8 DEF Remembered
<1> QED BY <1>1, <1>2, <1>3, <1>4, <1>5, <1>6, <1>7, <1>8 DEF Actions

\* In any order of the sockets: no row becomes pending again, daoban's rows keep
\* PDF files only, and the row that a job was made with is consumed.
LEMMA RememberedGrows ==
  ASSUME TypeOK, RunShape, PdfRows,
         NEW r \in DOMAIN runs, NEW seen \in SUBSET DOMAIN memory, NEW new \in Remembered(r, seen)
  PROVE  /\ Grown(memory, new)
         /\ agent = "daoban" => OnlyPdfs(new)
         /\ runs[r].pending # 0 => new[runs[r].pending].status # "pending"
<1> DEFINE row == runs[r]
<1>1. memory \in Seq(PendingRow)
  BY DEF TypeOK
<1>2. \A p \in First(seen) : p \in {0} \cup DOMAIN memory
  BY <1>1, FirstRow
<1>3. /\ row.text \in Messages \cup {NoText} /\ row.files \in SUBSET Files
      /\ Pdfs(row.files) \in SUBSET Files /\ Pdfs(Pdfs(row.files)) = Pdfs(row.files)
  BY RunParts
<1>4. /\ row.action = "consume_pending" <=> row.pending # 0
      /\ row.pending # 0 => row.pending \in DOMAIN memory
      /\ agent = "daoban" => row.action \notin {"save_files", "save_text_and_files"}
  BY DEF RunShape
<1>5. agent = "daoban" => OnlyPdfs(memory)
  BY DEF PdfRows
<1> HIDE DEF row
<1>6. CASE row.action \in {"save_pdf", "save_files"}
  <2>1. PICK p \in First(seen), F \in {row.files, Pdfs(row.files)} :
          /\ new = SaveFiles(memory, p, F)
          /\ row.action = "save_pdf" => F = Pdfs(row.files)
    BY <1>6, RememberedCases DEF row
  <2>2. F \in SUBSET Files /\ (agent = "daoban" => F = Pdfs(F))
    BY <1>3, <1>4, <1>6, <2>1
  <2>3. Grown(memory, new) /\ (agent = "daoban" => OnlyPdfs(new))
    BY <1>1, <1>2, <1>3, <1>5, <2>1, <2>2, SavesGrow, PdfsStay
  <2> QED BY <1>4, <1>6, <2>3 DEF row
<1>7. CASE row.action = "save_text"
  <2>1. PICK p \in First(seen) : new = SaveText(memory, p, row.text)
    BY <1>7, RememberedCases DEF row
  <2>2. Grown(memory, new) /\ (agent = "daoban" => OnlyPdfs(new))
    BY <1>1, <1>2, <1>3, <1>5, <2>1, SavesGrow, PdfsStay
  <2> QED BY <1>4, <1>7, <2>2 DEF row
<1>8. CASE row.action = "save_text_and_files"
  <2>1. PICK p \in First(seen) :
          \E q \in First(Active(SaveText(memory, p, row.text))) :
            new = SaveFiles(SaveText(memory, p, row.text), q, row.files)
    BY <1>8, RememberedCases DEF row
  <2> DEFINE mid == SaveText(memory, p, row.text)
  <2>2. PICK q \in First(Active(mid)) : new = SaveFiles(mid, q, row.files)
    BY <2>1
  <2>3. Grown(memory, mid)
    BY <1>1, <1>2, <1>3, <2>1, SavesGrow
  <2> HIDE DEF mid
  <2>4. mid \in Seq(PendingRow) /\ q \in {0} \cup DOMAIN mid
    BY <2>3, FirstRow DEF Grown, Active
  <2>5. Grown(mid, new)
    BY <1>3, <2>2, <2>4, SavesGrow
  <2> QED BY <1>4, <1>8, <2>3, <2>5, GrownTwice DEF row
<1>9. CASE row.action = "clear_pending"
  <2>1. PICK p \in First(seen) : new = Cancel(memory, p)
    BY <1>9, RememberedCases DEF row
  <2>2. Grown(memory, new) /\ (agent = "daoban" => OnlyPdfs(new))
    BY <1>1, <1>2, <1>3, <1>5, <2>1, EndsGrow, PdfsStay
  <2> QED BY <1>4, <1>9, <2>2 DEF row
<1>10. CASE row.action = "consume_pending"
  <2>1. new = Consume(memory, row.pending) /\ row.pending \in DOMAIN memory
    BY <1>4, <1>10, RememberedCases DEF row
  <2>2. Grown(memory, new) /\ (agent = "daoban" => OnlyPdfs(new))
    BY <1>1, <1>3, <1>5, <2>1, EndsGrow, PdfsStay
  <2>3. new[row.pending].status = "consumed"
    BY <1>1, <2>1, ConsumedRow
  <2> QED BY <2>2, <2>3 DEF row
<1>11. CASE row.action = "none"
  <2>1. new = memory
    BY <1>11, RememberedCases DEF row
  <2> QED BY <1>1, <1>4, <1>5, <1>11, <2>1 DEF row, Grown
<1> QED BY <1>6, <1>7, <1>8, <1>9, <1>10, <1>11, RememberedCases DEF row

\* In turn: one row is active, what an action does not replace or end stays in it,
\* and what it saves is in it, unless a row has expired.
LEMMA RememberedInTurn ==
  ASSUME TypeOK, RunShape, OneActive(memory),
         NEW r \in DOMAIN runs, NEW new \in Remembered(r, Active(memory)),
         runs[r].pending # 0 => runs[r].pending \in Active(memory)
  PROVE  LET act == runs[r].action IN
         /\ OneActive(new) /\ (HasExpired(memory) => HasExpired(new))
         /\ \/ HasExpired(new)
            \/ /\ \/ act \in TextSaves \cup Ends
                  \/ \A p \in Active(memory) : p \in Active(new) /\ new[p].text = memory[p].text
               /\ \/ act \in FileSaves \cup Ends
                  \/ \A p \in Active(memory) : p \in Active(new) /\ new[p].files = memory[p].files
               /\ act \in TextSaves => \E p \in Active(new) : new[p].text = runs[r].text
               /\ act \in FileSaves =>
                    \E p \in Active(new) : FilesToKeep(r) \subseteq new[p].files
<1> DEFINE row == runs[r]
           seen == Active(memory)
<1>1. memory \in Seq(PendingRow)
  BY DEF TypeOK
<1>2. /\ row.text \in Messages \cup {NoText} /\ row.files \in SUBSET Files
      /\ Pdfs(row.files) \in SUBSET Files
      /\ row.action = "save_text_and_files" => row.files = FilesToKeep(r)
  BY RunParts DEF FilesToKeep
<1>3. row.action = "consume_pending" <=> row.pending # 0
  BY DEF RunShape
<1> HIDE DEF row
<1> USE DEF TextSaves, FileSaves, Ends
<1>4. CASE row.action \in {"save_pdf", "save_files"}
  <2>1. PICK p \in First(seen), F \in {row.files, Pdfs(row.files)} :
          new = SaveFiles(memory, p, F) /\ F = FilesToKeep(r)
    BY <1>4, RememberedCases DEF row, FilesToKeep
  <2> DEFINE w == Target(memory, p)
  <2>2. F \in SUBSET Files
    BY <1>2, <2>1
  <2>3. /\ Active(new) = {w} /\ new[w].files = F
        /\ HasExpired(memory) => HasExpired(new)
        /\ HasExpired(new) \/ \A q \in Active(memory) : q = w /\ new[w].text = memory[q].text
    BY <1>1, <2>1, <2>2, SaveFilesInTurn
  <2> HIDE DEF w
  <2> QED BY <1>4, <2>1, <2>3 DEF row, OneActive
<1>5. CASE row.action = "save_text"
  <2>1. PICK p \in First(seen) : new = SaveText(memory, p, row.text)
    BY <1>5, RememberedCases DEF row
  <2> DEFINE w == Target(memory, p)
  <2>2. /\ Active(new) = {w} /\ new[w].text = row.text
        /\ HasExpired(memory) => HasExpired(new)
        /\ HasExpired(new) \/ \A q \in Active(memory) : q = w /\ new[w].files = memory[q].files
    BY <1>1, <1>2, <2>1, SaveTextInTurn
  <2> HIDE DEF w
  <2> QED BY <1>5, <2>2 DEF row, OneActive
<1>6. CASE row.action = "save_text_and_files"
  <2>1. PICK p \in First(seen) :
          \E q \in First(Active(SaveText(memory, p, row.text))) :
            new = SaveFiles(SaveText(memory, p, row.text), q, row.files)
    BY <1>6, RememberedCases DEF row
  <2> DEFINE mid == SaveText(memory, p, row.text)
             w == Target(memory, p)
  <2>2. PICK q \in First(Active(mid)) : new = SaveFiles(mid, q, row.files)
    BY <2>1
  <2>3. /\ Active(mid) = {w} /\ mid[w].text = row.text
        /\ HasExpired(memory) => HasExpired(mid)
    BY <1>1, <1>2, <2>1, SaveTextInTurn
  <2>4. mid \in Seq(PendingRow)
    BY <1>1, <1>2, <2>1, SaveTextRow, FirstRow DEF Active
  <2> HIDE DEF mid, w
  <2> DEFINE v == Target(mid, q)
  <2>5. /\ Active(new) = {v} /\ new[v].files = row.files
        /\ HasExpired(mid) => HasExpired(new)
        /\ HasExpired(new) \/ \A x \in Active(mid) : x = v /\ new[v].text = mid[x].text
    <3>1. OneActive(mid)
      BY <2>3 DEF OneActive
    <3> QED BY <1>2, <2>2, <2>4, <3>1, SaveFilesInTurn
  <2> HIDE DEF v
  <2>6. HasExpired(new) \/ (v = w /\ new[v].text = row.text)
    BY <2>3, <2>5
  <2> QED BY <1>2, <1>6, <2>3, <2>5, <2>6 DEF row, OneActive
<1>7. CASE row.action = "clear_pending"
  <2>1. PICK p \in First(seen) : new = Cancel(memory, p)
    BY <1>7, RememberedCases DEF row
  <2> QED BY <1>1, <1>7, <2>1, EndsInTurn DEF row
<1>8. CASE row.action = "consume_pending"
  <2>1. new = Consume(memory, row.pending) /\ row.pending # 0 /\ row.pending \in Active(memory)
    BY <1>3, <1>8, RememberedCases DEF row
  <2>2. row.pending \in First(Active(memory))
    BY <2>1 DEF First
  <2> QED BY <1>1, <1>8, <2>1, <2>2, EndsInTurn DEF row
<1>9. CASE row.action = "none"
  <2>1. new = memory
    BY <1>9, RememberedCases DEF row
  <2> QED BY <1>9, <2>1 DEF row
<1> QED BY <1>4, <1>5, <1>6, <1>7, <1>8, <1>9, RememberedCases DEF row

-----------------------------------------------------------------------------
\* The classifiers.

\* What each answer of a classifier is like: its parts are what a run may have, it
\* uses the pending row exactly if it says so, and its job is complete.
WellClassified(m, c, p, class) ==
  /\ class.kind \in Kinds /\ class.action \in Actions
  /\ class.text \in Messages \cup {NoText} /\ class.files \in SUBSET Files
  /\ class.pending \in {0, p}
  /\ class.action = "consume_pending" <=> class.pending # 0
  /\ agent = "daoban" => class.action \notin {"save_files", "save_text_and_files"}
  /\ class.kind = "long_job" =>
       /\ agent = "daoban" => class.text # NoText /\ Pdfs(class.files) # {}
       /\ agent = "ppt" => \/ class.text = m /\ c.text \in HasIntent
                           \/ Said(class.text) \in HasIntent

\* The messages of an agent.
LEMMA ContentParts ==
  ASSUME NEW a \in Agents, NEW c \in Contents(a)
  PROVE  c.text \in Texts /\ c.files \in SUBSET {"pdf", "other"} /\ c # Unsent
<1>1. a \in {"daoban", "ppt", "mysql", "chat"}
  BY ChatSubmissionAssumption
<1>2. c.text \in Texts /\ c.files \in SUBSET {"pdf", "other"}
  <2>1. CASE a = "daoban"
    BY <2>1 DEF Contents, Just, With, Texts
  <2>2. CASE a = "ppt"
    BY <2>2 DEF Contents, Just, With, Texts
  <2>3. CASE a = "mysql"
    BY <2>3 DEF Contents, Just, With, Texts
  <2>4. CASE a = "chat"
    BY <2>4 DEF Contents, Just, With, Texts
  <2> QED BY <1>1, <2>1, <2>2, <2>3, <2>4
<1>3. Unsent.text \notin Texts
  BY DEF Unsent, Texts
<1> QED BY <1>2, <1>3

\* What is pending.
LEMMA SlotParts ==
  ASSUME TypeOK, PdfRows, NEW p \in {0} \cup DOMAIN memory
  PROVE  /\ Slot(p).text \in Messages \cup {NoText} /\ Slot(p).files \in SUBSET Files
         /\ agent = "daoban" => Slot(p).files = Pdfs(Slot(p).files)
<1>1. CASE p = 0
  BY <1>1 DEF Slot, EmptyRow, Pdfs
<1>2. CASE p # 0
  <2>1. memory[p] \in PendingRow
    BY <1>2, ElementOfSeq, LenProperties DEF TypeOK
  <2> QED BY <1>2, <2>1 DEF Slot, PendingRow, PdfRows, OnlyPdfs
<1> QED BY <1>1, <1>2

\* A single file of a pending row, which is a PDF if all are.
LEMMA LastPart ==
  ASSUME NEW F \in SUBSET Files, F # {}
  PROVE  LastOf(F) \in SUBSET Files /\ (F = Pdfs(F) => Pdfs(LastOf(F)) # {})
<1> DEFINE IsLast(f) == f[2] = "pdf" => F = Pdfs(F)
           last == CHOOSE f \in F : IsLast(f)
<1>1. \E f \in F : IsLast(f)
  BY DEF Pdfs
<1>2. last \in F /\ IsLast(last)
  BY <1>1
<1>3. LastOf(F) = {last}
  BY DEF LastOf
<1> HIDE DEF last
<1>4. ASSUME F = Pdfs(F) PROVE last[2] = "pdf"
  BY <1>2, <1>4 DEF Pdfs
<1> QED BY <1>2, <1>3, <1>4 DEF Pdfs

\* classify_task, for daoban: runs of a legal shape, and complete jobs.
LEMMA DaobanClassifies ==
  ASSUME TypeOK, PdfRows, agent = "daoban",
         NEW m \in Messages, NEW c \in Contents(agent), NEW p \in {0} \cup DOMAIN memory
  PROVE  WellClassified(m, c, p, ClassifyDaoban(m, c, p))
<1> DEFINE own == FilesOf(m, c)
           slot == Slot(p)
<1>1. own \in SUBSET Files /\ m # NoText
  BY ContentParts, ChatSubmissionAssumption DEF TypeOK, FilesOf, Files
<1>2. slot.text \in Messages \cup {NoText} /\ slot.files \in SUBSET Files
  BY SlotParts
<1>3. slot.files # {} => LastOf(slot.files) \in SUBSET Files /\ Pdfs(LastOf(slot.files)) # {}
  BY <1>2, LastPart, SlotParts
<1> USE DEF WellClassified, Kinds, Actions
<1>4. CASE c.text = "clear"
  <2>1. ClassifyDaoban(m, c, p) = PendingInput("clear_pending", m, own)
    BY <1>4 DEF ClassifyDaoban
  <2> HIDE DEF own
  <2> QED BY <1>1, <2>1 DEF PendingInput
<1>5. CASE c.text # "clear" /\ Pdfs(own) # {} /\ c.text # "empty"
  <2>1. ClassifyDaoban(m, c, p) = Job(p, m, own)
    BY <1>5 DEF ClassifyDaoban
  <2> HIDE DEF own
  <2> QED BY <1>1, <1>5, <2>1 DEF Job
<1>6. CASE c.text = "empty" /\ Pdfs(own) # {} /\ slot.text # NoText
  <2>1. ClassifyDaoban(m, c, p) = Job(p, slot.text, own)
    BY <1>6 DEF ClassifyDaoban
  <2> HIDE DEF own, slot
  <2> QED BY <1>1, <1>2, <1>6, <2>1 DEF Job
<1>7. CASE c.text = "empty" /\ Pdfs(own) # {} /\ slot.text = NoText
  <2>1. ClassifyDaoban(m, c, p) = PendingInput("save_pdf", NoText, own)
    BY <1>7 DEF ClassifyDaoban
  <2> HIDE DEF own, slot
  <2> QED BY <1>1, <2>1 DEF PendingInput
<1>8. CASE c.text \notin {"clear", "empty"} /\ Pdfs(own) = {} /\ slot.files # {}
  <2>1. ClassifyDaoban(m, c, p) = Job(p, m, LastOf(slot.files))
    BY <1>8 DEF ClassifyDaoban
  <2> HIDE DEF own, slot
  <2> QED BY <1>1, <1>3, <1>8, <2>1 DEF Job
<1>9. CASE c.text \notin {"clear", "empty"} /\ Pdfs(own) = {} /\ slot.files = {}
  <2>1. ClassifyDaoban(m, c, p) = PendingInput("save_text", m, own)
    BY <1>9 DEF ClassifyDaoban
  <2> HIDE DEF own, slot
  <2> QED BY <1>1, <2>1 DEF PendingInput
<1>10. CASE c.text = "empty" /\ Pdfs(own) = {}
  <2>1. ClassifyDaoban(m, c, p) = PendingInput("none", NoText, own)
    BY <1>10 DEF ClassifyDaoban
  <2> HIDE DEF own, slot
  <2> QED BY <1>1, <2>1 DEF PendingInput
<1> QED BY <1>4, <1>5, <1>6, <1>7, <1>8, <1>9, <1>10

\* The same for ppt.
LEMMA PptClassifies ==
  ASSUME TypeOK, PdfRows, agent = "ppt",
         NEW m \in Messages, NEW c \in Contents(agent), NEW p \in {0} \cup DOMAIN memory
  PROVE  WellClassified(m, c, p, ClassifyPpt(m, c, p))
<1> DEFINE own == FilesOf(m, c)
           slot == Slot(p)
           every == slot.files \cup own
           completes == own # {} /\ Said(slot.text) \in HasIntent
<1>1. own \in SUBSET Files
  BY ContentParts DEF TypeOK, FilesOf, Files
<1>2. slot.text \in Messages \cup {NoText} /\ every \in SUBSET Files
  BY <1>1, SlotParts
<1> USE DEF WellClassified, Kinds, Actions
<1>3. CASE c.text = "clear"
  <2>1. ClassifyPpt(m, c, p) = PendingInput("clear_pending", m, own)
    BY <1>3 DEF ClassifyPpt, Incomplete, HasIntent
  <2> HIDE DEF own, every
  <2> QED BY <1>1, <2>1 DEF PendingInput
<1>4. CASE c.text \in Incomplete
  <2>1. \E action \in {"save_text", "save_text_and_files"} :
          ClassifyPpt(m, c, p) = PendingInput(action, m, every)
    BY <1>4 DEF ClassifyPpt, Incomplete
  <2> HIDE DEF own, every
  <2> QED BY <1>2, <2>1 DEF PendingInput
<1>5. CASE c.text \in HasIntent \ Incomplete
  <2>1. ClassifyPpt(m, c, p) = Job(p, m, every)
    BY <1>5 DEF ClassifyPpt, Incomplete, HasIntent
  <2> HIDE DEF own, every
  <2> QED BY <1>2, <1>5, <2>1 DEF Job
<1>6. CASE c.text \in {"plain", "empty"} /\ completes
  <2>1. ClassifyPpt(m, c, p) = Job(p, slot.text, every)
    BY <1>6 DEF ClassifyPpt, Incomplete, HasIntent
  <2> HIDE DEF own, every, slot
  <2> QED BY <1>2, <1>6, <2>1 DEF Job
<1>7. CASE c.text = "empty" /\ ~completes
  <2>1. ClassifyPpt(m, c, p) = PendingInput("save_files", NoText, every)
    BY <1>7 DEF ClassifyPpt, Incomplete, HasIntent
  <2> HIDE DEF own, every, slot
  <2> QED BY <1>2, <2>1 DEF PendingInput
<1>8. CASE /\ c.text \notin {"clear", "empty"} \cup Incomplete \cup HasIntent
           /\ ~(c.text = "plain" /\ completes)
  <2>1. ClassifyPpt(m, c, p) = ShortChat(m, own)
    BY <1>8 DEF ClassifyPpt, Incomplete, HasIntent
  <2> HIDE DEF own, every, slot
  <2> QED BY <1>1, <2>1 DEF ShortChat
<1> QED BY <1>3, <1>4, <1>5, <1>6, <1>7, <1>8

\* The same for every agent.
LEMMA Classifies ==
  ASSUME TypeOK, PdfRows,
         NEW m \in Messages, NEW c \in Contents(agent), NEW p \in {0} \cup DOMAIN memory
  PROVE  WellClassified(m, c, p, Classify(m, c, p))
<1>1. FilesOf(m, c) \in SUBSET Files
  BY ContentParts DEF TypeOK, FilesOf, Files
<1>2. CASE agent = "daoban"
  BY <1>2, DaobanClassifies DEF Classify
<1>3. CASE agent = "ppt"
  BY <1>3, PptClassifies DEF Classify
<1>4. CASE agent \notin {"daoban", "ppt"}
  <2>1. Classify(m, c, p) \in {PendingInput("none", m, FilesOf(m, c)), Job(0, m, FilesOf(m, c)),
                               ShortChat(m, FilesOf(m, c))}
    BY <1>4 DEF Classify, ClassifyMysql
  <2> QED BY <1>1, <1>4, <2>1
      DEF WellClassified, Kinds, Actions, PendingInput, Job, ShortChat
<1> QED BY <1>2, <1>3, <1>4

-----------------------------------------------------------------------------
\* The first block keeps the invariant.

\* No message has been received at the start.
LEMMA InitSubmissionInv == Init => SubmissionInv
<1> SUFFICES ASSUME Init PROVE SubmissionInv
  OBVIOUS
<1>1. runs = <<>> /\ memory = <<>> /\ DOMAIN runs = {} /\ DOMAIN memory = {}
  BY DEF Init
<1>2. Submissions = {} /\ started = {}
  BY DEF Init, Submissions
<1>3. TypeOK
  <2>1. runs \in Seq(RunRow) /\ memory \in Seq(PendingRow) /\ Len(runs) = 0
    BY <1>1, EmptySeq
  <2>2. Len(runs) <= MaxRuns /\ 0 \in 0..Len(runs)
    BY <2>1, ChatSubmissionAssumption
  <2>3. overlap \in BOOLEAN
    BY DEF Init
  <2> QED BY <2>1, <2>2, <2>3 DEF Init, TypeOK, Idle
<1>4. OneRunPerMessage /\ JobIsComplete /\ RunShape /\ InputsKept
  BY <1>1 DEF OneRunPerMessage, JobIsComplete, RunShape, InputsKept
<1>5. PdfRows /\ UsedUp /\ SequentialUseOnce
  BY <1>1, <1>2 DEF PdfRows, OnlyPdfs, UsedUp, SequentialUseOnce, PendingUsedOnce
<1>6. InTurn
  BY <1>1, <1>2 DEF InTurn, OneActive, Active
<1> QED BY <1>3, <1>4, <1>5, <1>6 DEF SubmissionInv

\* A run joins at the end.
LEMMA RunAdded ==
  ASSUME TypeOK, NEW row \in RunRow, runs' = Append(runs, row)
  PROVE  LET n == Len(runs') IN
         /\ n = Len(runs) + 1 /\ n \in Nat \ {0}
         /\ runs' \in Seq(RunRow) /\ DOMAIN runs' = DOMAIN runs \cup {n} /\ n \notin DOMAIN runs
         /\ runs'[n] = row /\ \A q \in DOMAIN runs : runs'[q] = runs[q] /\ q < n
<1>1. runs \in Seq(RunRow) /\ Len(runs) \in Nat /\ DOMAIN runs = 1..Len(runs)
  BY LenProperties DEF TypeOK
<1>2. /\ runs' \in Seq(RunRow) /\ Len(runs') = Len(runs) + 1
      /\ \A q \in 1..Len(runs) : runs'[q] = runs[q]
      /\ runs'[Len(runs) + 1] = row
  BY <1>1, AppendProperties
<1>3. DOMAIN runs' = 1..(Len(runs) + 1)
  BY <1>2, LenProperties
<1> QED BY <1>1, <1>2, <1>3

\* What InputsKept says of a run.
TextKept(r) ==
  runs[r].action \in TextSaves =>
    \/ Later(r, TextSaves \cup Ends)
    \/ \E p \in Active(memory) : memory[p].text = runs[r].text

FilesKept(r) ==
  runs[r].action \in FileSaves =>
    \/ Later(r, FileSaves \cup Ends)
    \/ \E p \in Active(memory) : FilesToKeep(r) \subseteq memory[p].files

\* InputsKept survives a step that neither records an input nor loses one.
LEMMA KeptFrame ==
  ASSUME InputsKept, ~Expired' /\ ~overlap' => ~Expired /\ ~overlap,
         \A r \in DOMAIN runs' :
           runs'[r].kind = "pending_input" /\ runs'[r].status = "success" =>
             /\ r \in DOMAIN runs /\ runs[r].kind = "pending_input" /\ runs[r].status = "success"
             /\ TextKept(r) => TextKept(r)'
             /\ FilesKept(r) => FilesKept(r)'
  PROVE  InputsKept'
<1> SUFFICES ASSUME ~Expired', ~overlap' PROVE InputsKept'
  BY DEF InputsKept
<1>1. \A r \in DOMAIN runs :
        runs[r].kind = "pending_input" /\ runs[r].status = "success" => TextKept(r) /\ FilesKept(r)
  BY DEF InputsKept, TextKept, FilesKept
<1>2. \A r \in DOMAIN runs' :
        runs'[r].kind = "pending_input" /\ runs'[r].status = "success" =>
          TextKept(r)' /\ FilesKept(r)'
  BY <1>1
<1> QED BY <1>2 DEF InputsKept, TextKept, FilesKept

\* A message becomes a run.
LEMMA ReceiveInv ==
  ASSUME SubmissionInv, NEW s \in Sockets, NEW m \in Messages, NEW c \in Contents(agent),
         Receive(s, m, c)
  PROVE  SubmissionInv'
<1> USE DEF SubmissionInv
<1>1. /\ socket[s] = Idle /\ Len(runs) < MaxRuns /\ content[m] \in {Unsent, c} /\ ~Known(s, m)
      /\ content' = [content EXCEPT ![m] = c]
      /\ socket' = [socket EXCEPT ![s] = [run |-> Len(runs'), seen |-> Active(memory')]]
      /\ horizon' = [horizon EXCEPT ![s] = Len(runs')]
      /\ overlap' = (overlap \/ Submissions # {})
      /\ UNCHANGED <<agent, gone, started>>
  BY DEF Receive
<1>2. PICK p \in IF HasMemory THEN First(Active(memory)) ELSE {0} :
        /\ memory' = Retired(memory, p)
        /\ runs' = Append(runs, NewRun(m, Classify(m, c, Found(memory, p))))
  BY DEF Receive
<1> DEFINE f == Found(memory, p)
           class == Classify(m, c, f)
           row == NewRun(m, class)
           n == Len(runs')
<1>3. memory \in Seq(PendingRow) /\ 0 \notin DOMAIN memory /\ p \in {0} \cup DOMAIN memory
  <2>1. memory \in Seq(PendingRow) /\ 0 \notin DOMAIN memory
    BY LenProperties DEF TypeOK
  <2>2. First(Active(memory)) \subseteq {0} \cup DOMAIN memory
    BY <2>1, FirstRow DEF Active
  <2> QED BY <1>2, <2>1, <2>2
<1>4. /\ Grown(memory, memory') /\ DOMAIN memory' = DOMAIN memory
      /\ f \in {0} \cup DOMAIN memory
  BY <1>2, <1>3, EndsGrow, RetiredRows DEF Found
<1>5. WellClassified(m, c, f, class)
  BY <1>3, <1>4, Classifies
<1> HIDE DEF f, class
<1>6. /\ row \in RunRow /\ row.msg = m /\ row.status = "queued"
      /\ row.action = class.action /\ row.pending = class.pending /\ row.kind = class.kind
      /\ row.text = class.text /\ row.files = class.files
  <2>1. DOMAIN memory \subseteq Nat
    BY <1>3, LenProperties
  <2>2. class.pending \in Nat
    BY <1>4, <1>5, <2>1 DEF WellClassified
  <2> QED BY <1>5, <2>2 DEF NewRun, RunRow, WellClassified
<1>7. /\ n = Len(runs) + 1 /\ n \in Nat \ {0}
      /\ runs' \in Seq(RunRow) /\ DOMAIN runs' = DOMAIN runs \cup {n} /\ n \notin DOMAIN runs
      /\ runs'[n] = row /\ \A q \in DOMAIN runs : runs'[q] = runs[q] /\ q < n
  BY <1>2, <1>6, RunAdded DEF f, class
<1> HIDE DEF row, n
<1>8. TypeOK'
  <2>1. Len(runs) \in Nat /\ MaxRuns \in Nat /\ Len(runs') \in Nat
    BY <1>7, ChatSubmissionAssumption, LenProperties DEF TypeOK
  <2>2. /\ Len(runs') <= MaxRuns /\ Len(runs') \in 0..Len(runs')
        /\ 0..Len(runs) \subseteq 0..Len(runs')
    BY <1>1, <1>7, <2>1 DEF n
  <2>3. content' \in [Messages -> Contents(agent) \cup {Unsent}]
    BY <1>1 DEF TypeOK
  <2>4. socket' \in [Sockets -> [run : {0} \cup DOMAIN runs', seen : SUBSET DOMAIN memory']]
    <3>1. [run |-> Len(runs'), seen |-> Active(memory')]
            \in [run : {0} \cup DOMAIN runs', seen : SUBSET DOMAIN memory']
      BY <1>7 DEF Active, n
    <3>2. \A t \in Sockets :
            socket[t] \in [run : {0} \cup DOMAIN runs', seen : SUBSET DOMAIN memory']
      BY <1>4, <1>7 DEF TypeOK
    <3>3. socket \in [Sockets -> [run : {0} \cup DOMAIN runs', seen : SUBSET DOMAIN memory']]
      BY <3>2 DEF TypeOK
    <3> QED BY <1>1, <3>1, <3>3
  <2>5. horizon' \in [Sockets -> 0..Len(runs')]
    BY <1>1, <2>2 DEF TypeOK
  <2>6. overlap' \in BOOLEAN
    BY <1>1 DEF TypeOK
  <2> QED BY <1>1, <1>4, <1>7, <2>2, <2>3, <2>4, <2>5, <2>6 DEF TypeOK, Grown
<1>9. OneRunPerMessage'
  BY <1>1, <1>6, <1>7 DEF OneRunPerMessage, Known
<1>10. JobIsComplete'
  <2>1. /\ m # NoText /\ content'[m] = c
        /\ \A t \in Messages : content[t] # Unsent => content'[t] = content[t]
    BY <1>1, ChatSubmissionAssumption DEF TypeOK
  <2> DEFINE SaidThen(t) == IF t = NoText THEN "empty" ELSE content'[t].text
  <2>2. ASSUME NEW t \in Messages \cup {NoText}, Said(t) \in HasIntent
        PROVE  SaidThen(t) \in HasIntent
    <3>1. t \in Messages /\ t # NoText /\ content[t].text \in HasIntent
      BY <2>2 DEF Said, HasIntent
    <3>2. content[t] # Unsent
      BY <3>1 DEF Unsent, HasIntent
    <3> QED BY <2>1, <3>1, <3>2
  <2>3. c.text \in HasIntent => SaidThen(m) \in HasIntent
    BY <2>1
  <2> HIDE DEF SaidThen
  <2>4. ASSUME NEW q \in DOMAIN runs', runs'[q].kind = "long_job"
        PROVE  /\ agent = "daoban" => runs'[q].text # NoText /\ Pdfs(runs'[q].files) # {}
               /\ agent = "ppt" => SaidThen(runs'[q].text) \in HasIntent
    <3>1. CASE q = n
      <4>1. class.kind = "long_job" /\ runs'[q].text = class.text /\ runs'[q].files = class.files
        BY <1>6, <1>7, <2>4, <3>1
      <4>2. /\ agent = "daoban" => class.text # NoText /\ Pdfs(class.files) # {}
            /\ agent = "ppt" => \/ class.text = m /\ c.text \in HasIntent
                                \/ Said(class.text) \in HasIntent
            /\ class.text \in Messages \cup {NoText}
        BY <1>5, <4>1 DEF WellClassified
      <4>3. agent = "ppt" => SaidThen(class.text) \in HasIntent
        BY <2>2, <2>3, <4>2
      <4> QED BY <4>1, <4>2, <4>3
    <3>2. CASE q # n
      <4>1. q \in DOMAIN runs /\ runs'[q] = runs[q] /\ runs[q].text \in Messages \cup {NoText}
        BY <1>7, <3>2, RunParts
      <4>2. /\ agent = "daoban" => runs[q].text # NoText /\ Pdfs(runs[q].files) # {}
            /\ agent = "ppt" => Said(runs[q].text) \in HasIntent
        BY <2>4, <4>1 DEF JobIsComplete
      <4>3. agent = "ppt" => SaidThen(runs[q].text) \in HasIntent
        BY <2>2, <4>1, <4>2
      <4> QED BY <4>1, <4>2, <4>3
    <3> QED BY <3>1, <3>2
  <2> QED BY <1>1, <2>4 DEF JobIsComplete, Said, SaidThen
<1>11. RunShape'
  BY <1>1, <1>4, <1>5, <1>6, <1>7 DEF RunShape, WellClassified
<1>12. PdfRows'
  <2>1. agent = "daoban" => OnlyPdfs(Retired(memory, p))
    <3>1. NoText \in Messages \cup {NoText} /\ {} \in SUBSET Files
      OBVIOUS
    <3> QED BY <1>3, <3>1, PdfsStay DEF PdfRows
  <2> QED BY <1>1, <1>2, <2>1 DEF PdfRows
<1>13. UsedUp'
  BY <1>1, <1>4, <1>7 DEF UsedUp, TypeOK, RunShape, Grown
<1>14. overlap' \/ InTurn'
  <2> SUFFICES ASSUME ~overlap' PROVE InTurn'
    OBVIOUS
  <2>1. ~overlap /\ Submissions = {} /\ InTurn
    BY <1>1
  <2>2. Submissions' \subseteq {s}
    BY <1>1, <2>1 DEF Submissions, TypeOK
  <2>3. OneActive(memory') /\ (f # 0 => f \in Active(memory'))
    <3>1. CASE p \in First(Active(memory))
      <4>1. f # 0 => f = p
        BY DEF f, Found
      <4> QED BY <1>2, <1>3, <2>1, <3>1, <4>1, RetiredInTurn DEF InTurn, f
    <3>2. CASE p = 0
      BY <1>2, <2>1, <3>2 DEF InTurn, Retired, Found, f
    <3> QED BY <1>2, <3>1, <3>2
  <2>4. socket'[s] = [run |-> n, seen |-> Active(memory')]
    BY <1>1 DEF TypeOK, n
  <2>5. UpToDate(s)'
    BY <1>5, <1>6, <1>7, <2>3, <2>4 DEF UpToDate, WellClassified, n
  <2> QED BY <2>2, <2>3, <2>5 DEF InTurn
<1>15. InputsKept'
  <2> SUFFICES ASSUME ~overlap', ~Expired' PROVE InputsKept'
    BY DEF InputsKept
  <2>1. ~overlap /\ InTurn
    BY <1>1
  <2>2. memory' = memory
    <3>1. CASE p \in First(Active(memory))
      BY <1>2, <1>3, <2>1, <3>1, RetiredInTurn DEF InTurn, Expired, HasExpired
    <3>2. CASE p = 0
      BY <1>2, <3>2 DEF Retired
    <3> QED BY <1>2, <3>1, <3>2
  <2>3. ~Expired
    BY <2>2 DEF Expired
  <2>4. \A r \in DOMAIN runs : \A acts : Later(r, acts) => Later(r, acts)'
    BY <1>7 DEF Later
  <2>5. ASSUME NEW r \in DOMAIN runs', runs'[r].kind = "pending_input", runs'[r].status = "success"
        PROVE  r \in DOMAIN runs /\ runs'[r] = runs[r]
    BY <1>6, <1>7, <2>5
  <2>6. \A r \in DOMAIN runs : runs'[r] = runs[r] =>
           (TextKept(r) => TextKept(r)') /\ (FilesKept(r) => FilesKept(r)')
    BY <2>2, <2>4 DEF TextKept, FilesKept, FilesToKeep
  <2> QED BY <2>1, <2>3, <2>5, <2>6, KeptFrame
<1>16. SequentialUseOnce'
  <2> SUFFICES ASSUME ~overlap' PROVE PendingUsedOnce'
    BY DEF SequentialUseOnce
  <2>1. \A r \in started : r \in DOMAIN runs /\ runs'[r] = runs[r]
    BY <1>7 DEF TypeOK
  <2>2. PendingUsedOnce
    BY <1>1 DEF SequentialUseOnce
  <2> QED BY <1>1, <2>1, <2>2 DEF PendingUsedOnce
<1> QED BY <1>8, <1>9, <1>10, <1>11, <1>12, <1>13, <1>14, <1>15, <1>16

-----------------------------------------------------------------------------
\* The second block, and the rest of the system, keep the invariant.

\* Runs that differ only in how they ended and whether they were deleted.
Alike(old, new) ==
  /\ new \in Seq(RunRow) /\ Len(new) = Len(old) /\ DOMAIN new = DOMAIN old
  /\ \A q \in DOMAIN old :
       /\ new[q].msg = old[q].msg /\ new[q].kind = old[q].kind /\ new[q].action = old[q].action
       /\ new[q].text = old[q].text /\ new[q].files = old[q].files
       /\ new[q].pending = old[q].pending

\* What such a change leaves as it was.
LEMMA RunsFrame ==
  ASSUME TypeOK, Alike(runs, runs'), UNCHANGED <<agent, content>>,
         DOMAIN memory \subseteq DOMAIN memory'
  PROVE  /\ JobIsComplete => JobIsComplete'
         /\ RunShape => RunShape'
         /\ \A r \in DOMAIN runs : \A acts : Later(r, acts) => Later(r, acts)'
<1>1. JobIsComplete => JobIsComplete'
  BY DEF JobIsComplete, Alike, Said
<1>2. RunShape => RunShape'
  BY DEF RunShape, Alike
<1>3. \A r \in DOMAIN runs : \A acts : Later(r, acts) => Later(r, acts)'
  BY DEF Later, Alike
<1> QED BY <1>1, <1>2, <1>3

\* A run ends, or is deleted.
LEMMA RunEnds ==
  ASSUME TypeOK, NEW r \in DOMAIN runs
  PROVE  /\ LET new == [runs EXCEPT ![r].status = "success"] IN
            /\ Alike(runs, new) /\ \A q \in DOMAIN runs : new[q].deleted = runs[q].deleted
            /\ \A q \in DOMAIN runs \ {r} : new[q].status = runs[q].status
         /\ LET new == [runs EXCEPT ![r].deleted = TRUE] IN
            /\ Alike(runs, new) /\ \A q \in DOMAIN runs : new[q].status = runs[q].status
            /\ \A q \in DOMAIN runs : ~new[q].deleted => ~runs[q].deleted
<1> DEFINE e == [runs[r] EXCEPT !.status = "success"]
           d == [runs[r] EXCEPT !.deleted = TRUE]
<1>1. runs \in Seq(RunRow) /\ r \in 1..Len(runs) /\ runs[r] \in RunRow
  BY RunParts, LenProperties DEF TypeOK
<1>2. /\ e \in RunRow /\ e.msg = runs[r].msg /\ e.kind = runs[r].kind /\ e.action = runs[r].action
      /\ e.text = runs[r].text /\ e.files = runs[r].files /\ e.pending = runs[r].pending
      /\ e.deleted = runs[r].deleted
  BY <1>1 DEF RunRow
<1>3. /\ d \in RunRow /\ d.msg = runs[r].msg /\ d.kind = runs[r].kind /\ d.action = runs[r].action
      /\ d.text = runs[r].text /\ d.files = runs[r].files /\ d.pending = runs[r].pending
      /\ d.status = runs[r].status /\ d.deleted
  BY <1>1 DEF RunRow
<1>4. /\ [runs EXCEPT ![r].status = "success"] = [runs EXCEPT ![r] = e]
      /\ [runs EXCEPT ![r].deleted = TRUE] = [runs EXCEPT ![r] = d]
  OBVIOUS
<1> HIDE DEF e, d
<1>5. ASSUME NEW x \in RunRow
      PROVE  LET new == [runs EXCEPT ![r] = x] IN
             /\ new \in Seq(RunRow) /\ Len(new) = Len(runs) /\ DOMAIN new = DOMAIN runs
             /\ \A q \in DOMAIN runs : new[q] = IF q = r THEN x ELSE runs[q]
  BY <1>1, ExceptSeq, LenProperties
<1>6. LET new == [runs EXCEPT ![r] = e] IN
      /\ Alike(runs, new) /\ \A q \in DOMAIN runs : new[q].deleted = runs[q].deleted
      /\ \A q \in DOMAIN runs \ {r} : new[q].status = runs[q].status
  BY <1>2, <1>5 DEF Alike
<1>7. LET new == [runs EXCEPT ![r] = d] IN
      /\ Alike(runs, new) /\ \A q \in DOMAIN runs : new[q].status = runs[q].status
      /\ \A q \in DOMAIN runs : ~new[q].deleted => ~runs[q].deleted
  BY <1>3, <1>5 DEF Alike
<1> QED BY <1>4, <1>6, <1>7

\* The second block of a handler, whether it ends well or not.
LEMMA SecondBlockInv ==
  ASSUME SubmissionInv, NEW s \in Sockets, NEW r, r = socket[s].run, r # 0,
         UNCHANGED <<agent, content, gone, overlap>>, Leave(s),
         memory' \in {memory} \cup Remembered(r, socket[s].seen),
         runs' \in {runs, [runs EXCEPT ![r].status = "success"]},
         started' \in {started, started \cup {r}},
         runs' # runs \/ started' # started => memory' \in Remembered(r, socket[s].seen)
  PROVE  SubmissionInv'
<1> USE DEF SubmissionInv
<1>1. /\ r \in DOMAIN runs /\ s \in Submissions /\ socket[s].seen \in SUBSET DOMAIN memory
      /\ memory \in Seq(PendingRow)
  BY DEF TypeOK, Submissions, Idle
<1>2. /\ Grown(memory, memory') /\ (agent = "daoban" => OnlyPdfs(memory'))
      /\ \/ memory' = memory
         \/ runs[r].pending # 0 => memory'[runs[r].pending].status # "pending"
  <2>1. CASE memory' = memory
    BY <1>1, <2>1 DEF Grown, PdfRows
  <2>2. CASE memory' \in Remembered(r, socket[s].seen)
    BY <1>1, <2>2, RememberedGrows
  <2> QED BY <2>1, <2>2
<1>3. /\ Alike(runs, runs') /\ \A q \in DOMAIN runs : runs'[q].deleted = runs[q].deleted
      /\ \A q \in DOMAIN runs \ {r} : runs'[q].status = runs[q].status
  <2>1. CASE runs' = runs
    BY <2>1 DEF Alike, TypeOK
  <2>2. CASE runs' = [runs EXCEPT ![r].status = "success"]
    BY <1>1, <2>2, RunEnds
  <2> QED BY <2>1, <2>2
<1>4. /\ socket' = [socket EXCEPT ![s] = Idle] /\ horizon' = [horizon EXCEPT ![s] = Len(runs)]
      /\ Submissions' = Submissions \ {s}
  BY DEF Leave, Submissions, TypeOK
<1>5. TypeOK'
  <2>1. horizon' \in [Sockets -> 0..Len(runs')]
    <3>1. Len(runs) \in 0..Len(runs)
      BY LenProperties DEF TypeOK
    <3> QED BY <1>3, <1>4, <3>1 DEF TypeOK, Alike
  <2>2. socket' \in [Sockets -> [run : {0} \cup DOMAIN runs', seen : SUBSET DOMAIN memory']]
    <3>1. Idle \in [run : {0} \cup DOMAIN runs', seen : SUBSET DOMAIN memory']
      BY DEF Idle
    <3>2. \A t \in Sockets :
            socket[t] \in [run : {0} \cup DOMAIN runs', seen : SUBSET DOMAIN memory']
      BY <1>2, <1>3 DEF TypeOK, Grown, Alike
    <3>3. socket \in [Sockets -> [run : {0} \cup DOMAIN runs', seen : SUBSET DOMAIN memory']]
      BY <3>2 DEF TypeOK
    <3> QED BY <1>4, <3>1, <3>3
  <2>3. started' \subseteq DOMAIN runs'
    BY <1>1, <1>3 DEF TypeOK, Alike
  <2> QED BY <1>2, <1>3, <2>1, <2>2, <2>3 DEF TypeOK, Alike, Grown
<1>6. OneRunPerMessage'
  BY <1>3 DEF OneRunPerMessage, Alike
<1>7. /\ JobIsComplete' /\ RunShape'
      /\ \A q \in DOMAIN runs : \A acts : Later(q, acts) => Later(q, acts)'
  BY <1>2, <1>3, RunsFrame DEF Grown
<1>8. PdfRows'
  BY <1>2 DEF PdfRows
<1>9. UsedUp'
  <2> SUFFICES ASSUME NEW q \in started', runs'[q].pending # 0
               PROVE  memory'[runs'[q].pending].status # "pending"
    BY DEF UsedUp
  <2>1. q \in DOMAIN runs /\ runs'[q].pending = runs[q].pending
    BY <1>1, <1>3 DEF TypeOK, Alike
  <2>2. runs[q].pending \in DOMAIN memory
    BY <2>1 DEF RunShape
  <2>3. CASE q \in started
    BY <1>2, <2>1, <2>2, <2>3 DEF UsedUp, Grown
  <2>4. CASE q \notin started
    <3>1. q = r /\ started' # started
      BY <2>4
    <3>2. memory' \in Remembered(r, socket[s].seen)
      BY <3>1
    <3> QED BY <1>1, <2>1, <3>1, <3>2, RememberedGrows
  <2> QED BY <2>3, <2>4
<1>10. ASSUME ~overlap
       PROVE  /\ InTurn /\ UpToDate(s) /\ Submissions' = {} /\ PendingUsedOnce
              /\ r = Len(runs) /\ socket[s].seen = Active(memory)
  BY <1>1, <1>4, <1>10 DEF InTurn, UpToDate, SequentialUseOnce
<1>11. ASSUME ~overlap, memory' # memory \/ runs' # runs
       PROVE  /\ OneActive(memory') /\ (HasExpired(memory) => HasExpired(memory'))
              /\ \/ HasExpired(memory')
                 \/ /\ \/ runs[r].action \in TextSaves \cup Ends
                       \/ \A p \in Active(memory) :
                            p \in Active(memory') /\ memory'[p].text = memory[p].text
                    /\ \/ runs[r].action \in FileSaves \cup Ends
                       \/ \A p \in Active(memory) :
                            p \in Active(memory') /\ memory'[p].files = memory[p].files
                    /\ runs[r].action \in TextSaves =>
                         \E p \in Active(memory') : memory'[p].text = runs[r].text
                    /\ runs[r].action \in FileSaves =>
                         \E p \in Active(memory') : FilesToKeep(r) \subseteq memory'[p].files
  <2>1. memory' \in Remembered(r, Active(memory))
    BY <1>10, <1>11
  <2>2. OneActive(memory) /\ (runs[r].pending # 0 => runs[r].pending \in Active(memory))
    BY <1>10, <1>11 DEF InTurn, UpToDate
  <2> QED BY <1>1, <2>1, <2>2, RememberedInTurn
<1>12. overlap' \/ InTurn'
  <2> SUFFICES ASSUME ~overlap PROVE InTurn'
    OBVIOUS
  <2>1. OneActive(memory')
    BY <1>10, <1>11 DEF InTurn
  <2> QED BY <1>10, <2>1 DEF InTurn
<1>13. InputsKept'
  <2> SUFFICES ASSUME ~overlap, ~Expired' PROVE InputsKept'
    BY DEF InputsKept
  <2>1. r = Len(runs) /\ runs[r].status = "queued"
    BY <1>10 DEF UpToDate
  <2>2. \A q \in DOMAIN runs : q # r => q < r
    BY <2>1, LenProperties DEF TypeOK
  <2>3. ~HasExpired(memory') /\ ~HasExpired(memory) /\ ~Expired
    BY <1>11 DEF Expired, HasExpired
  <2>4. ASSUME NEW q \in DOMAIN runs', runs'[q].kind = "pending_input", runs'[q].status = "success"
        PROVE  /\ runs'[q].action \in TextSaves =>
                    \/ Later(q, TextSaves \cup Ends)'
                    \/ \E p \in Active(memory') : memory'[p].text = runs'[q].text
               /\ runs'[q].action \in FileSaves =>
                    \/ Later(q, FileSaves \cup Ends)'
                    \/ \E p \in Active(memory') : FilesToKeep(q)' \subseteq memory'[p].files
    <3>1. /\ q \in DOMAIN runs /\ runs'[q].kind = runs[q].kind /\ runs'[q].action = runs[q].action
          /\ runs'[q].text = runs[q].text /\ FilesToKeep(q)' = FilesToKeep(q)
      BY <1>3 DEF Alike, FilesToKeep
    <3>2. CASE q = r
      <4>1. runs' # runs
        BY <2>1, <2>4, <3>2
      <4> QED BY <1>11, <2>3, <3>1, <3>2, <4>1
    <3>3. CASE q # r
      <4>1. /\ runs[q].status = "success" /\ q < r
            /\ r \in DOMAIN runs' /\ runs'[r].action = runs[r].action
        BY <1>1, <1>3, <2>2, <2>4, <3>1, <3>3 DEF Alike
      <4>2. /\ runs[r].action \in TextSaves \cup Ends => Later(q, TextSaves \cup Ends)'
            /\ runs[r].action \in FileSaves \cup Ends => Later(q, FileSaves \cup Ends)'
        BY <4>1 DEF Later
      <4>3. /\ runs[q].action \in TextSaves =>
                 \/ Later(q, TextSaves \cup Ends)
                 \/ \E p \in Active(memory) : memory[p].text = runs[q].text
            /\ runs[q].action \in FileSaves =>
                 \/ Later(q, FileSaves \cup Ends)
                 \/ \E p \in Active(memory) : FilesToKeep(q) \subseteq memory[p].files
        BY <2>3, <2>4, <3>1, <4>1 DEF InputsKept
      <4>4. /\ Later(q, TextSaves \cup Ends) => Later(q, TextSaves \cup Ends)'
            /\ Later(q, FileSaves \cup Ends) => Later(q, FileSaves \cup Ends)'
        BY <1>7, <3>1
      <4>5. CASE memory' = memory
        BY <3>1, <4>3, <4>4, <4>5
      <4>6. CASE memory' # memory
        BY <1>11, <2>3, <3>1, <4>2, <4>3, <4>4, <4>6
      <4> QED BY <4>5, <4>6
    <3> QED BY <3>2, <3>3
  <2> QED BY <2>4 DEF InputsKept
<1>14. SequentialUseOnce'
  <2> SUFFICES ASSUME ~overlap, NEW q \in started', NEW x \in started',
                      runs'[q].pending # 0, runs'[q].pending = runs'[x].pending
               PROVE  q = x
    BY DEF SequentialUseOnce, PendingUsedOnce
  <2>1. /\ q \in DOMAIN runs /\ runs'[q].pending = runs[q].pending
        /\ x \in DOMAIN runs /\ runs'[x].pending = runs[x].pending
    BY <1>1, <1>3 DEF TypeOK, Alike
  <2>2. \A y \in started : runs[y].pending # 0 => runs[y].pending \notin Active(memory)
    BY DEF UsedUp, Active
  <2>3. runs[r].pending # 0 => runs[r].pending \in Active(memory)
    BY <1>10 DEF UpToDate
  <2>4. q \in started \cup {r} /\ x \in started \cup {r}
    OBVIOUS
  <2> QED BY <1>10, <2>1, <2>2, <2>3, <2>4 DEF PendingUsedOnce
<1> QED BY <1>5, <1>6, <1>7, <1>8, <1>9, <1>12, <1>13, <1>14

\* The second block, or what is left of it after an exception, keeps the invariant.
LEMMA LeaveInv ==
  ASSUME SubmissionInv, NEW s \in Sockets, Remember(s) \/ Start(s) \/ Abandon(s)
  PROVE  SubmissionInv'
<1> DEFINE r == socket[s].run
<1>1. PICK k : k = r
  OBVIOUS
<1>2. CASE Remember(s)
  BY <1>1, <1>2, SecondBlockInv DEF Remember
<1>3. CASE Start(s)
  BY <1>1, <1>3, SecondBlockInv DEF Start
<1>4. CASE Abandon(s)
  BY <1>1, <1>4, SecondBlockInv DEF Abandon
<1> QED BY <1>2, <1>3, <1>4

\* A message that is known already, and a file that is deleted, change no row.
LEMMA QuietInv ==
  ASSUME SubmissionInv, UNCHANGED <<agent, content, runs, memory, started, socket, overlap>>,
         gone' \in SUBSET Files, horizon' \in [Sockets -> 0..Len(runs)]
  PROVE  SubmissionInv'
<1> USE DEF SubmissionInv
<1>1. TypeOK'
  BY DEF TypeOK
<1>2. OneRunPerMessage' /\ JobIsComplete' /\ RunShape' /\ PdfRows' /\ UsedUp'
  BY DEF OneRunPerMessage, JobIsComplete, Said, RunShape, PdfRows, UsedUp
<1>3. overlap' \/ InTurn'
  BY DEF InTurn, UpToDate, Submissions
<1>4. InputsKept'
  BY DEF InputsKept, FilesToKeep, Expired, Later
<1>5. SequentialUseOnce'
  BY DEF SequentialUseOnce, PendingUsedOnce
<1> QED BY <1>1, <1>2, <1>3, <1>4, <1>5

\* The deletion of a run by an administrator keeps the invariant.
LEMMA DeleteRunInv ==
  ASSUME SubmissionInv, NEW r \in DOMAIN runs, DeleteRun(r)
  PROVE  SubmissionInv'
<1> USE DEF SubmissionInv
<1>1. /\ runs' = [runs EXCEPT ![r].deleted = TRUE]
      /\ UNCHANGED <<agent, content, memory, gone, started, socket, horizon, overlap>>
  BY DEF DeleteRun
<1>2. /\ Alike(runs, runs') /\ \A q \in DOMAIN runs : runs'[q].status = runs[q].status
      /\ \A q \in DOMAIN runs : ~runs'[q].deleted => ~runs[q].deleted
  BY <1>1, RunEnds
<1>3. TypeOK'
  BY <1>1, <1>2 DEF TypeOK, Alike
<1>4. OneRunPerMessage'
  BY <1>2 DEF OneRunPerMessage, Alike
<1>5. /\ JobIsComplete' /\ RunShape'
      /\ \A q \in DOMAIN runs : \A acts : Later(q, acts) => Later(q, acts)'
  BY <1>1, <1>2, RunsFrame
<1>6. PdfRows' /\ UsedUp'
  BY <1>1, <1>2 DEF PdfRows, UsedUp, Alike, TypeOK
<1>7. overlap' \/ InTurn'
  <2> SUFFICES ASSUME InTurn PROVE InTurn'
    BY <1>1
  <2>1. Submissions' = Submissions
    BY <1>1 DEF Submissions
  <2>2. ASSUME NEW s \in Submissions PROVE UpToDate(s)'
    <3>1. UpToDate(s) /\ socket[s].run \in {0} \cup DOMAIN runs /\ socket[s].run # 0
      BY <2>2 DEF InTurn, Submissions, TypeOK, UpToDate, Idle
    <3> QED BY <1>1, <1>2, <3>1 DEF UpToDate, Alike
  <2> QED BY <1>1, <2>1, <2>2 DEF InTurn
<1>8. InputsKept'
  <2>1. ASSUME NEW q \in DOMAIN runs', runs'[q].kind = "pending_input", runs'[q].status = "success"
        PROVE  /\ q \in DOMAIN runs /\ runs[q].kind = "pending_input" /\ runs[q].status = "success"
               /\ TextKept(q) => TextKept(q)'
               /\ FilesKept(q) => FilesKept(q)'
    <3>1. /\ q \in DOMAIN runs /\ runs[q].kind = runs'[q].kind /\ runs[q].status = runs'[q].status
          /\ runs'[q].action = runs[q].action /\ runs'[q].text = runs[q].text
          /\ runs'[q].files = runs[q].files
      BY <1>2 DEF Alike
    <3> QED BY <1>1, <1>5, <2>1, <3>1 DEF TextKept, FilesKept, FilesToKeep
  <2>2. Expired' <=> Expired
    BY <1>1 DEF Expired
  <2> QED BY <1>1, <2>1, <2>2, KeptFrame
<1>9. SequentialUseOnce'
  <2> SUFFICES ASSUME ~overlap PROVE PendingUsedOnce'
    BY <1>1 DEF SequentialUseOnce
  <2> QED BY <1>1, <1>2 DEF SequentialUseOnce, PendingUsedOnce, Alike, TypeOK
<1> QED BY <1>3, <1>4, <1>5, <1>6, <1>7, <1>8, <1>9

\* That a pending row becomes due keeps the invariant.
LEMMA TimePassesInv ==
  ASSUME SubmissionInv, NEW p \in DOMAIN memory, TimePasses(p)
  PROVE  SubmissionInv'
<1> USE DEF SubmissionInv
<1> DEFINE e == [memory[p] EXCEPT !.due = TRUE]
<1>1. /\ Submissions = {} /\ memory' = [memory EXCEPT ![p] = e]
      /\ UNCHANGED <<agent, content, runs, gone, started, socket, horizon, overlap>>
  BY DEF TimePasses
<1>2. memory \in Seq(PendingRow) /\ memory[p] \in PendingRow
  BY ElementOfSeq, LenProperties DEF TypeOK
<1>3. /\ e \in PendingRow /\ e.status = memory[p].status /\ e.text = memory[p].text
      /\ e.files = memory[p].files
  BY <1>2 DEF PendingRow
<1> HIDE DEF e
<1>4. /\ memory' \in Seq(PendingRow) /\ DOMAIN memory' = DOMAIN memory
      /\ \A q \in DOMAIN memory : /\ memory'[q].status = memory[q].status
                                  /\ memory'[q].text = memory[q].text
                                  /\ memory'[q].files = memory[q].files
  <2>1. /\ memory' \in Seq(PendingRow) /\ DOMAIN memory' = DOMAIN memory /\ memory'[p] = e
        /\ \A q \in DOMAIN memory \ {p} : memory'[q] = memory[q]
    BY <1>1, <1>2, <1>3, RowWritten
  <2> QED BY <1>3, <2>1
<1>5. Active(memory') = Active(memory) /\ (Expired' <=> Expired) /\ Submissions' = {}
  BY <1>1, <1>4 DEF Active, Expired, Submissions
<1>6. TypeOK'
  BY <1>1, <1>4 DEF TypeOK
<1>7. OneRunPerMessage' /\ JobIsComplete' /\ RunShape' /\ PdfRows' /\ UsedUp'
  <2>1. OneRunPerMessage' /\ JobIsComplete'
    BY <1>1 DEF OneRunPerMessage, JobIsComplete, Said
  <2>2. RunShape' /\ PdfRows'
    BY <1>1, <1>4 DEF RunShape, PdfRows, OnlyPdfs
  <2>3. UsedUp'
    BY <1>1, <1>4 DEF UsedUp, RunShape, TypeOK
  <2> QED BY <2>1, <2>2, <2>3
<1>8. overlap' \/ InTurn'
  BY <1>1, <1>5 DEF InTurn, OneActive
<1>9. InputsKept'
  <2>1. \A q \in Active(memory) : /\ memory'[q].text = memory[q].text
                                  /\ memory'[q].files = memory[q].files
    BY <1>4 DEF Active
  <2>2. \A r \in DOMAIN runs : (TextKept(r) => TextKept(r)') /\ (FilesKept(r) => FilesKept(r)')
    BY <1>1, <1>5, <2>1 DEF TextKept, FilesKept, FilesToKeep, Later
  <2> QED BY <1>1, <1>5, <2>2, KeptFrame
<1>10. SequentialUseOnce'
  BY <1>1 DEF SequentialUseOnce, PendingUsedOnce
<1> QED BY <1>6, <1>7, <1>8, <1>9, <1>10

\* Every step keeps the invariant.
LEMMA NextSubmissionInv == SubmissionInv /\ [Next]_vars => SubmissionInv'
<1> SUFFICES ASSUME SubmissionInv, [Next]_vars PROVE SubmissionInv'
  OBVIOUS
<1>1. gone \in SUBSET Files /\ horizon \in [Sockets -> 0..Len(runs)] /\ Len(runs) \in 0..Len(runs)
  BY LenProperties DEF SubmissionInv, TypeOK
<1>2. CASE UNCHANGED vars
  BY <1>1, <1>2, QuietInv DEF vars, dbVars
<1>3. ASSUME NEW s \in Sockets, NEW m \in Messages, ReceiveAgain(s, m)
      PROVE  SubmissionInv'
  BY <1>1, <1>3, QuietInv DEF ReceiveAgain, dbVars
<1>4. ASSUME NEW s \in Sockets, NEW m \in Messages, NEW c \in Contents(agent), Receive(s, m, c)
      PROVE  SubmissionInv'
  BY <1>4, ReceiveInv
<1>5. ASSUME NEW s \in Sockets, Remember(s) \/ Start(s) \/ Abandon(s)
      PROVE  SubmissionInv'
  BY <1>5, LeaveInv
<1>6. ASSUME NEW r \in DOMAIN runs, DeleteRun(r) PROVE SubmissionInv'
  BY <1>6, DeleteRunInv
<1>7. ASSUME NEW f \in Files, DeleteFile(f) PROVE SubmissionInv'
  BY <1>1, <1>7, QuietInv DEF DeleteFile
<1>8. ASSUME NEW p \in DOMAIN memory, TimePasses(p) PROVE SubmissionInv'
  BY <1>8, TimePassesInv
<1> QED BY <1>2, <1>3, <1>4, <1>5, <1>6, <1>7, <1>8 DEF Next

\* The inductive invariant holds in every reachable state.
THEOREM SubmissionInvariant == Spec => []SubmissionInv
<1> QED BY InitSubmissionInv, NextSubmissionInv, PTL DEF Spec

-----------------------------------------------------------------------------
\* The properties that the run checks.

\* Runs, pending rows and handlers have the values they are meant to have.
THEOREM SubmissionTypeCorrect == Spec => []TypeOK
<1>1. SubmissionInv => TypeOK
  BY DEF SubmissionInv
<1> QED BY <1>1, SubmissionInvariant, PTL

\* ws_chat and create_chat_run: a client message id has one run that is not
\* deleted, over whichever socket it is sent and sent again.
THEOREM MessageHasOneRun == Spec => []OneRunPerMessage
<1>1. SubmissionInv => OneRunPerMessage
  BY DEF SubmissionInv
<1> QED BY <1>1, SubmissionInvariant, PTL

\* The classifiers: the text and the files of a job may come from different messages,
\* but daoban's has a PDF and a text, and ppt's the intent of a presentation.
THEOREM EveryJobIsComplete == Spec => []JobIsComplete
<1>1. SubmissionInv => JobIsComplete
  BY DEF SubmissionInv
<1> QED BY <1>1, SubmissionInvariant, PTL

\* pending_task_service: while submissions do not overlap, get_or_create makes no
\* second active row.
THEOREM OneRowIsPending == Spec => []OnePendingRow
<1>1. SubmissionInv => OnePendingRow
  <2> SUFFICES ASSUME OneActive(memory) PROVE Cardinality(Active(memory)) <= 1
    BY DEF SubmissionInv, InTurn, OnePendingRow
  <2>1. CASE Active(memory) = {}
    BY <2>1, FS_EmptySet
  <2>2. CASE Active(memory) # {}
    <3>1. PICK p : Active(memory) = {p}
      BY <2>2 DEF OneActive
    <3> QED BY <3>1, FS_Singleton
  <2> QED BY <2>1, <2>2
<1> QED BY <1>1, SubmissionInvariant, PTL

\* What was acknowledged as recorded is in the active row until a later message uses,
\* clears or replaces it, or it expires, while submissions do not overlap.
THEOREM InputsAreKept == Spec => []InputsKept
<1>1. SubmissionInv => InputsKept
  BY DEF SubmissionInv
<1> QED BY <1>1, SubmissionInvariant, PTL

\* consume_pending: a pending input goes into one job, while submissions do not
\* overlap, whatever is abandoned between the blocks.
THEOREM InputIsUsedOnce == Spec => []SequentialUseOnce
<1>1. SubmissionInv => SequentialUseOnce
  BY DEF SubmissionInv
<1> QED BY <1>1, SubmissionInvariant, PTL

=============================================================================
