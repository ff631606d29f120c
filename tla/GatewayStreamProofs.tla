------------------------- MODULE GatewayStreamProofs -------------------------
(***************************************************************************)
(* Proofs about the stream of an answer, for any number of runs and of     *)
(* connections and any answers.  The invariant comes in three layers, each *)
(* of which needs more of the Gateway than the one before it.              *)
(*                                                                         *)
(* StreamInv needs nothing: who has a connection, and that only a stream   *)
(* that was abandoned may leave a request behind on a connection that is   *)
(* lent again.                                                             *)
(*                                                                         *)
(* FrameInv needs events that name their run, or their conversation if no  *)
(* two runs share one: the frames a stream accepts are its own, except for *)
(* the replies to the requests of abandoned runs.                          *)
(*                                                                         *)
(* OrderInv needs no more: what waits on the connection of a run that      *)
(* reads is the rest of its answer, in order, whether its deltas repeat    *)
(* the text so far or not.                                                 *)
(***************************************************************************)
EXTENDS GatewayStream, SequenceTheorems, TLAPS

-----------------------------------------------------------------------------
\* First layer.

Final == {"done", "error", "refused"}

\* A connection is lent to one stream at a time, and is open or was until the peer
\* closed it.
Exclusive ==
  \A q, r \in Runs : lease[q] = lease[r] /\ lease[r] # NoConn => q = r

LeaseOpen ==
  \A r \in Runs : lease[r] # NoConn => socket[lease[r]] \in {"leased", "broken"}

\* How far the stream and the Gateway are with a run.  A request is on the
\* connection of the stream that made it, or was left behind by an abandoned one.
Progress(r) ==
  /\ pc[r] = "new" => gateway[r] = "none"
  /\ pc[r] \in {"new", "reading"} => decidedBy[r] = NoRun /\ verdict[r] = "none"
  /\ gateway[r] \in {"none"} \cup Settled => via[r] = NoConn
  /\ via[r] # NoConn => (pc[r] = "reading" /\ lease[r] = via[r]) \/ Abandoned(r)
  /\ pc[r] = "reading" /\ gateway[r] \in {"requested", "answering"} => via[r] = lease[r]

\* The Gateway has nothing more to say of a run after its final frame.
FinalFrames ==
  \A k \in Conns : \A i \in 1..Len(inbox[k]) :
    inbox[k][i].kind \in Final => gateway[inbox[k][i].run] \in Settled

StreamInv ==
  /\ TypeOK
  /\ Exclusive /\ LeaseOpen
  /\ \A r \in Runs : Progress(r)
  /\ FinalFrames

\* A step that delivers nothing: the frames of an inbox move up or are lost.
OldFrames ==
  \A k \in Conns : \E d \in Nat : \A i \in 1..Len(inbox'[k]) :
    i + d \in 1..Len(inbox[k]) /\ inbox'[k][i] = inbox[k][i + d]

\* What waits in an inbox is a frame of some run.
LEMMA WaitingFrame ==
  ASSUME TypeOK, NEW k \in Conns, NEW i \in 1..Len(inbox[k])
  PROVE  inbox[k][i] \in Frame /\ inbox[k][i].run \in Runs
<1>1. inbox[k] \in Seq(Frame)
  BY DEF TypeOK
<1>2. inbox[k][i] \in Frame
  BY <1>1
<1> QED  BY <1>2 DEF Frame

\* A step that leaves the inboxes alone brings no new frame.
LEMMA SameFrames ==
  ASSUME TypeOK, inbox' = inbox
  PROVE  inbox' \in [Conns -> Seq(Frame)] /\ OldFrames
<1>1. \A k \in Conns : Len(inbox[k]) \in Nat
  BY DEF TypeOK
<1>2. \A k \in Conns : \A i \in 1..Len(inbox[k]) : i + 0 = i
  BY <1>1
<1> QED  BY <1>2 DEF OldFrames, TypeOK

\* Delivery appends a frame to some inboxes and leaves the others alone.
LEMMA DeliverAppends ==
  ASSUME TypeOK, NEW f \in Frame, NEW ks, Deliver(f, ks)
  PROVE  /\ inbox' \in [Conns -> Seq(Frame)]
         /\ \A k \in Conns :
              IF k \in ks /\ Open(k)
                THEN inbox'[k] = Append(inbox[k], f) ELSE inbox'[k] = inbox[k]
         /\ \A k \in Conns : \A i \in 1..Len(inbox'[k]) :
              \/ i \in 1..Len(inbox[k]) /\ inbox'[k][i] = inbox[k][i]
              \/ k \in ks /\ i = Len(inbox[k]) + 1 /\ inbox'[k][i] = f
<1>1. inbox \in [Conns -> Seq(Frame)]
  BY DEF TypeOK
<1>2. \A k \in Conns : inbox'[k] = IF k \in ks /\ Open(k)
                                     THEN Append(inbox[k], f) ELSE inbox[k]
  BY DEF Deliver
<1>3. \A k \in Conns : inbox[k] \in Seq(Frame) /\ Append(inbox[k], f) \in Seq(Frame)
  BY <1>1, AppendProperties
<1>4. inbox' \in [Conns -> Seq(Frame)]
  BY <1>3 DEF Deliver
<1>5. ASSUME NEW k \in Conns, NEW i \in 1..Len(inbox'[k])
      PROVE  \/ i \in 1..Len(inbox[k]) /\ inbox'[k][i] = inbox[k][i]
             \/ k \in ks /\ i = Len(inbox[k]) + 1 /\ inbox'[k][i] = f
  <2>1. CASE k \in ks /\ Open(k)
    <3>1. inbox'[k] = Append(inbox[k], f)
      BY <1>2, <2>1
    <3>2. inbox[k] \in Seq(Frame)
      BY <1>3
    <3> QED  BY <2>1, <3>1, <3>2, AppendProperties
  <2>2. CASE ~(k \in ks /\ Open(k))
    BY <1>2, <2>2
  <2> QED  BY <2>1, <2>2
<1> QED  BY <1>2, <1>4, <1>5

\* A connection that is closed loses its frames, and the requests made on it their
\* connection.
LEMMA CloseEmpties ==
  ASSUME TypeOK, NEW k \in Conns, Close(k)
  PROVE  /\ socket' \in [Conns -> {"none", "idle", "leased", "broken"}]
         /\ inbox' \in [Conns -> Seq(Frame)]
         /\ via' \in [Runs -> Conns \cup {NoConn}]
         /\ socket'[k] = "none" /\ inbox'[k] = <<>>
         /\ \A j \in Conns \ {k} : socket'[j] = socket[j] /\ inbox'[j] = inbox[j]
         /\ \A r \in Runs : via'[r] = IF via[r] = k THEN NoConn ELSE via[r]
         /\ OldFrames
<1>1. inbox \in [Conns -> Seq(Frame)]
  BY DEF TypeOK
<1>2. inbox' \in [Conns -> Seq(Frame)] /\ inbox'[k] = <<>>
      /\ \A j \in Conns \ {k} : inbox'[j] = inbox[j]
  BY <1>1 DEF Close
<1>3. OldFrames
  <2>1. \A j \in Conns : inbox[j] \in Seq(Frame) /\ Len(inbox[j]) \in Nat
    BY <1>1
  <2>2. \A j \in Conns : \A i \in 1..Len(inbox'[j]) :
          i + 0 \in 1..Len(inbox[j]) /\ inbox'[j][i] = inbox[j][i + 0]
    BY <1>2, <2>1
  <2> QED  BY <2>2 DEF OldFrames
<1>4. \A r \in Runs : via'[r] = IF via[r] = k THEN NoConn ELSE via[r]
  BY DEF Close
<1>5. via' \in [Runs -> Conns \cup {NoConn}]
  BY DEF Close, TypeOK
<1>6. socket' \in [Conns -> {"none", "idle", "leased", "broken"}]
      /\ socket'[k] = "none" /\ \A j \in Conns \ {k} : socket'[j] = socket[j]
  BY DEF Close, TypeOK
<1> QED  BY <1>2, <1>3, <1>4, <1>5, <1>6

\* The first frame is read; the others move up.
LEMMA TailShifts ==
  ASSUME TypeOK, NEW k \in Conns, inbox[k] # <<>>,
         inbox' = [inbox EXCEPT ![k] = Tail(@)]
  PROVE  /\ inbox' \in [Conns -> Seq(Frame)]
         /\ Head(inbox[k]) \in Frame /\ Head(inbox[k]) = inbox[k][1]
         /\ Len(inbox[k]) \in Nat \ {0}
         /\ Len(inbox'[k]) = Len(inbox[k]) - 1
         /\ \A i \in 1..Len(inbox'[k]) : inbox'[k][i] = inbox[k][i + 1]
         /\ \A j \in Conns \ {k} : inbox'[j] = inbox[j]
         /\ OldFrames
<1>1. inbox \in [Conns -> Seq(Frame)] /\ inbox[k] \in Seq(Frame)
  BY DEF TypeOK
<1>2. inbox'[k] = Tail(inbox[k]) /\ \A j \in Conns \ {k} : inbox'[j] = inbox[j]
  BY <1>1
<1>3. /\ Tail(inbox[k]) \in Seq(Frame)
      /\ Len(Tail(inbox[k])) = Len(inbox[k]) - 1
      /\ \A i \in 1..Len(Tail(inbox[k])) : Tail(inbox[k])[i] = inbox[k][i + 1]
      /\ Head(inbox[k]) \in Frame
  BY <1>1, HeadTailProperties
<1>4. inbox' \in [Conns -> Seq(Frame)]
  BY <1>1, <1>3
<1>5. Head(inbox[k]) = inbox[k][1]
  BY <1>1
<1>6. Len(inbox[k]) \in Nat \ {0}
  BY <1>1, EmptySeq
<1>7. OldFrames
  <2>1. \A i \in 1..Len(inbox'[k]) :
          i + 1 \in 1..Len(inbox[k]) /\ inbox'[k][i] = inbox[k][i + 1]
    <3>1. \A i \in 1..Len(inbox'[k]) : inbox'[k][i] = inbox[k][i + 1]
      BY <1>2, <1>3
    <3>2. Len(inbox'[k]) = Len(inbox[k]) - 1
      BY <1>2, <1>3
    <3> QED  BY <1>6, <3>1, <3>2
  <2>2. \A j \in Conns \ {k} : \A i \in 1..Len(inbox'[j]) :
          i + 0 \in 1..Len(inbox[j]) /\ inbox'[j][i] = inbox[j][i + 0]
    <3>1. \A j \in Conns : Len(inbox[j]) \in Nat
      BY <1>1
    <3> QED  BY <1>2, <3>1
  <2> QED  BY <2>1, <2>2 DEF OldFrames
<1> QED  BY <1>2, <1>3, <1>4, <1>5, <1>6, <1>7

\* What the Gateway sends is a frame.
LEMMA EventFrame ==
  ASSUME NEW r \in Runs, NEW kind \in Kinds, NEW tokens \in Seq(Tokens)
  PROVE  /\ [run |-> r, keys |-> EventKeys, kind |-> kind, text |-> tokens] \in Frame
         /\ [run |-> r, keys |-> {"id"}, kind |-> kind, text |-> tokens] \in Frame
BY DEF Frame

\* What a delta holds is a part of the answer.
LEMMA DeltaText ==
  ASSUME TypeOK, NEW r \in Runs, NEW n \in sent[r] + 1..Len(Answer[r]),
         sent' = [sent EXCEPT ![r] = n]
  PROVE  /\ sent' \in [Runs -> Nat] /\ sent'[r] = n
         /\ \A q \in Runs \ {r} : sent'[q] = sent[q]
         /\ Chunk(r, sent[r], n) \in Seq(Tokens)
<1>1. Answer[r] \in Seq(Tokens)
  BY GatewayStreamAssumption
<1>2. sent \in [Runs -> Nat] /\ sent[r] \in Nat
  BY DEF TypeOK
<1>3. Len(Answer[r]) \in Nat
  BY <1>1
<1>4. n \in 1..Len(Answer[r]) /\ sent[r] + 1 \in 1..Len(Answer[r])
  BY <1>2, <1>3
<1>5. SubSeq(Answer[r], 1, n) \in Seq(Tokens)
  BY <1>1, <1>4, SubSeqProperties
<1>6. SubSeq(Answer[r], sent[r] + 1, n) \in Seq(Tokens)
  BY <1>1, <1>4, SubSeqProperties
<1>7. Chunk(r, sent[r], n) \in Seq(Tokens)
  BY <1>5, <1>6 DEF Chunk
<1> QED  BY <1>2, <1>4, <1>7

\* The Gateway sends a frame of a run it works on.
LEMMA SendKeeps ==
  ASSUME StreamInv, NEW r \in Runs, NEW f \in Frame, NEW ks,
         f.run = r, gateway[r] \in {"requested", "answering"},
         Deliver(f, ks), UNCHANGED <<socket, streamVars>>,
         \/ /\ gateway' = [gateway EXCEPT ![r] = "answering"]
            /\ via' = via /\ f.kind \notin Final /\ sent' \in [Runs -> Nat]
         \/ \E how \in Settled : Settle(r, how)
  PROVE  StreamInv'
<1> USE DEF StreamInv
<1>1. /\ inbox' \in [Conns -> Seq(Frame)]
      /\ \A k \in Conns : \A i \in 1..Len(inbox'[k]) :
           \/ i \in 1..Len(inbox[k]) /\ inbox'[k][i] = inbox[k][i]
           \/ k \in ks /\ i = Len(inbox[k]) + 1 /\ inbox'[k][i] = f
  BY DeliverAppends
<1>2. /\ gateway' \in [Runs -> {"none", "requested", "answering"} \cup Settled]
      /\ via' \in [Runs -> Conns \cup {NoConn}] /\ sent' \in [Runs -> Nat]
      /\ gateway'[r] \in {"answering"} \cup Settled
      /\ f.kind \in Final => gateway'[r] \in Settled
      /\ via'[r] = IF gateway'[r] \in Settled THEN NoConn ELSE via[r]
      /\ \A q \in Runs \ {r} : gateway'[q] = gateway[q] /\ via'[q] = via[q]
  <2>1. CASE \E how \in Settled : Settle(r, how)
    BY <2>1 DEF TypeOK, Settle
  <2>2. CASE /\ gateway' = [gateway EXCEPT ![r] = "answering"]
             /\ via' = via /\ f.kind \notin Final /\ sent' \in [Runs -> Nat]
    BY <2>2 DEF TypeOK, Settled
  <2> QED  BY <2>1, <2>2
<1>3. TypeOK'
  BY <1>1, <1>2 DEF TypeOK, streamVars
<1>4. Exclusive' /\ LeaseOpen'
  BY DEF Exclusive, LeaseOpen, streamVars
<1>5. ASSUME NEW q \in Runs PROVE Progress(q)'
  BY <1>2, <1>5 DEF Progress, Abandoned, Misled, Settled, streamVars
<1>6. FinalFrames'
  <2> SUFFICES ASSUME NEW k \in Conns, NEW i \in 1..Len(inbox'[k]),
                      inbox'[k][i].kind \in Final
               PROVE  gateway'[inbox'[k][i].run] \in Settled
    BY DEF FinalFrames
  <2>1. CASE i \in 1..Len(inbox[k]) /\ inbox'[k][i] = inbox[k][i]
    <3>1. inbox[k][i] \in Frame
      BY <2>1 DEF TypeOK
    <3>2. gateway[inbox[k][i].run] \in Settled
      BY <2>1 DEF FinalFrames
    <3>3. r \notin {q \in Runs : gateway[q] \in Settled}
      BY DEF Settled
    <3> QED  BY <1>2, <2>1, <3>1, <3>2, <3>3 DEF Frame
  <2>2. CASE inbox'[k][i] = f
    BY <1>2, <2>2
  <2> QED  BY <1>1, <2>1, <2>2
<1> QED  BY <1>3, <1>4, <1>5, <1>6

\* The Gateway's answer to chat.send keeps the first layer.
LEMMA RepliesKeeps ==
  ASSUME StreamInv, NEW r \in Runs, GatewayReplies(r)
  PROVE  StreamInv'
<1>1. PICK reply \in Replies :
        /\ reply = "refused" => Settle(r, "refused")
        /\ reply = "answer" => Settle(r, "answered")
        /\ reply \notin {"refused", "answer"} =>
             gateway' = [gateway EXCEPT ![r] = "answering"] /\ UNCHANGED <<via, sent>>
        /\ Deliver([run |-> r, keys |-> {"id"},
                    kind |-> IF reply = "answer" THEN "done" ELSE reply,
                    text |-> IF reply = "answer" THEN Answer[r] ELSE <<>>], {via[r]})
  BY DEF GatewayReplies
<1> DEFINE kind == IF reply = "answer" THEN "done" ELSE reply
           tokens == IF reply = "answer" THEN Answer[r] ELSE <<>>
           f == [run |-> r, keys |-> {"id"}, kind |-> kind, text |-> tokens]
<1>2. reply \in {"ack", "refused", "answer"} /\ Answer[r] \in Seq(Tokens)
  BY GatewayStreamAssumption
<1>3. f \in Frame
  <2>1. kind \in Kinds
    BY <1>2 DEF Kinds
  <2>2. tokens \in Seq(Tokens)
    BY <1>2
  <2> HIDE DEF kind, tokens
  <2> QED  BY <2>1, <2>2, EventFrame
<1>4. Deliver(f, {via[r]}) /\ f.run = r
  BY <1>1
<1>5. gateway[r] \in {"requested", "answering"} /\ UNCHANGED <<socket, streamVars>>
  BY DEF GatewayReplies
<1>6. \/ /\ gateway' = [gateway EXCEPT ![r] = "answering"]
         /\ via' = via /\ f.kind \notin Final /\ sent' \in [Runs -> Nat]
      \/ \E how \in Settled : Settle(r, how)
  BY <1>1, <1>2 DEF Final, Settled, StreamInv, TypeOK
<1> HIDE DEF f
<1> QED  BY <1>3, <1>4, <1>5, <1>6, SendKeeps

\* A delta keeps the first layer.
LEMMA DeltaKeeps ==
  ASSUME StreamInv, NEW r \in Runs, GatewayDelta(r)
  PROVE  StreamInv'
<1>0. PICK n \in sent[r] + 1..Len(Answer[r]) :
        /\ sent' = [sent EXCEPT ![r] = n]
        /\ SendEvent(r, "delta", Chunk(r, sent[r], n))
  BY DEF GatewayDelta
<1> DEFINE tokens == Chunk(r, sent[r], n)
           f == [run |-> r, keys |-> EventKeys, kind |-> "delta", text |-> tokens]
           ks == IF r \in Broadcast THEN Conns ELSE {via[r]}
<1>1. tokens \in Seq(Tokens) /\ sent' \in [Runs -> Nat]
  BY <1>0, DeltaText DEF StreamInv
<1>2. f \in Frame
  BY <1>1, EventFrame DEF Kinds
<1>3. Deliver(f, ks) /\ f.run = r /\ f.kind \notin Final
  BY <1>0 DEF SendEvent, Final
<1>4. /\ gateway[r] \in {"requested", "answering"} /\ UNCHANGED <<socket, streamVars>>
      /\ gateway' = [gateway EXCEPT ![r] = "answering"] /\ via' = via
  BY DEF GatewayDelta, StreamInv, TypeOK
<1> HIDE DEF f, ks
<1> QED  BY <1>1, <1>2, <1>3, <1>4, SendKeeps

\* The final events.
LEMMA EndKeeps ==
  ASSUME StreamInv, NEW r \in Runs, GatewayDone(r) \/ GatewayError(r)
  PROVE  StreamInv'
<1> DEFINE ks == IF r \in Broadcast THEN Conns ELSE {via[r]}
<1>1. PICK kind \in {"done", "error"}, tokens \in {Answer[r], <<>>} :
        SendEvent(r, kind, tokens)
  BY DEF GatewayDone, GatewayError
<1> DEFINE f == [run |-> r, keys |-> EventKeys, kind |-> kind, text |-> tokens]
<1>2. tokens \in Seq(Tokens) /\ kind \in Kinds
  <2>1. Answer[r] \in Seq(Tokens) /\ <<>> \in Seq(Tokens)
    BY GatewayStreamAssumption
  <2>2. kind \in Kinds
    BY DEF Kinds
  <2> QED  BY <2>1, <2>2
<1>3. f \in Frame
  BY <1>2, EventFrame
<1>4. Deliver(f, ks) /\ f.run = r
  BY <1>1 DEF SendEvent
<1>5. /\ gateway[r] \in {"requested", "answering"} /\ UNCHANGED <<socket, streamVars>>
      /\ \E how \in Settled : Settle(r, how)
  BY DEF GatewayDone, GatewayError, Settled
<1> HIDE DEF f, ks
<1> QED  BY <1>3, <1>4, <1>5, SendKeeps

\* A stream that leases a connection and sends its request keeps the first layer.
LEMMA RequestKeeps ==
  ASSUME StreamInv, NEW r \in Runs, Request(r)
  PROVE  StreamInv'
<1> USE DEF StreamInv
<1>1. PICK k \in Conns :
        /\ socket[k] \in {"idle", "none"}
        /\ socket' = [socket EXCEPT ![k] = "leased"]
        /\ lease' = [lease EXCEPT ![r] = k]
        /\ via' = [via EXCEPT ![r] = k]
  BY DEF Request
<1>2. /\ gateway' = [gateway EXCEPT ![r] = "requested"]
      /\ pc' = [pc EXCEPT ![r] = "reading"] /\ pc[r] = "new"
      /\ UNCHANGED <<inbox, sent, text, verdict, decidedBy>>
  BY DEF Request, GoTo
<1>3. k # NoConn
  BY GatewayStreamAssumption
<1>4. TypeOK'
  BY <1>1, <1>2, <1>3 DEF TypeOK
<1>5. /\ lease'[r] = k /\ pc'[r] = "reading" /\ via'[r] = k /\ gateway'[r] = "requested"
      /\ socket'[k] = "leased"
      /\ \A q \in Runs \ {r} : /\ lease'[q] = lease[q] /\ pc'[q] = pc[q]
                               /\ via'[q] = via[q] /\ gateway'[q] = gateway[q]
      /\ \A j \in Conns \ {k} : socket'[j] = socket[j]
  BY <1>1, <1>2 DEF TypeOK
<1>6. \A q \in Runs : lease[q] # k
  BY <1>1, <1>3 DEF LeaseOpen
<1>7. \A q \in Runs : lease[q] \in Conns \cup {NoConn}
  BY DEF TypeOK
<1>8. Exclusive' /\ LeaseOpen'
  BY <1>5, <1>6, <1>7 DEF Exclusive, LeaseOpen
<1>9. ASSUME NEW q \in Runs PROVE Progress(q)'
  <2>1. CASE q = r
    <3>1. decidedBy[r] = NoRun /\ verdict[r] = "none" /\ NoRun # r
      BY <1>2, GatewayStreamAssumption DEF Progress
    <3> QED  BY <1>2, <1>5, <2>1, <3>1 DEF Progress, Settled
  <2>2. CASE q # r
    BY <1>2, <1>5, <2>2 DEF Progress, Abandoned, Misled
  <2> QED  BY <2>1, <2>2
<1>10. FinalFrames'
  <2>1. gateway[r] = "none"
    BY <1>2 DEF Progress
  <2>2. \A q \in Runs : gateway[q] \in Settled => gateway'[q] \in Settled
    BY <1>5, <2>1 DEF Settled
  <2>3. \A j \in Conns : \A i \in 1..Len(inbox[j]) : inbox[j][i].run \in Runs
    BY WaitingFrame
  <2> QED  BY <1>2, <2>2, <2>3 DEF FinalFrames
<1> QED  BY <1>4, <1>8, <1>9, <1>10

\* Frames that are not new are final of runs that are over.
LEMMA OldFinals ==
  ASSUME TypeOK, FinalFrames, OldFrames, gateway' = gateway
  PROVE  FinalFrames'
BY DEF FinalFrames, OldFrames

\* A stream that ends inside the receive loop keeps the first layer.
LEMMA CutKeeps ==
  ASSUME StreamInv, NEW r \in Runs, Cut(r)
  PROVE  StreamInv'
<1> USE DEF StreamInv
<1>1. lease[r] \in Conns /\ lease[r] # NoConn
  BY DEF Cut, TypeOK
<1>2. Close(lease[r])
  BY DEF Cut
<1>3. /\ socket' \in [Conns -> {"none", "idle", "leased", "broken"}]
      /\ inbox' \in [Conns -> Seq(Frame)]
      /\ via' \in [Runs -> Conns \cup {NoConn}]
      /\ \A j \in Conns \ {lease[r]} : socket'[j] = socket[j]
      /\ \A q \in Runs : via'[q] = IF via[q] = lease[r] THEN NoConn ELSE via[q]
      /\ OldFrames
  BY <1>1, <1>2, CloseEmpties
<1>4. /\ verdict' = [verdict EXCEPT ![r] = "cut"] /\ decidedBy' = [decidedBy EXCEPT ![r] = NoRun]
      /\ pc' = [pc EXCEPT ![r] = "over"] /\ lease' = [lease EXCEPT ![r] = NoConn]
      /\ pc[r] = "reading" /\ UNCHANGED <<gateway, sent, text>>
  BY DEF Cut, Conclude, GoTo
<1>5. TypeOK'
  BY <1>3, <1>4 DEF TypeOK, Verdicts
<1>6. /\ lease'[r] = NoConn /\ pc'[r] = "over" /\ decidedBy'[r] = NoRun /\ verdict'[r] = "cut"
      /\ \A q \in Runs \ {r} : /\ lease'[q] = lease[q] /\ pc'[q] = pc[q]
                               /\ verdict'[q] = verdict[q] /\ decidedBy'[q] = decidedBy[q]
  BY <1>4 DEF TypeOK
<1>7. \A q \in Runs : lease[q] \in Conns \cup {NoConn}
  BY DEF TypeOK
<1>8. Exclusive' /\ LeaseOpen'
  <2>1. \A q \in Runs \ {r} : lease[q] # lease[r]
    BY <1>1 DEF Exclusive
  <2>2. Exclusive'
    BY <1>6 DEF Exclusive
  <2>3. \A q \in Runs : lease'[q] # NoConn =>
          q # r /\ lease'[q] = lease[q] /\ socket'[lease[q]] = socket[lease[q]]
    BY <1>3, <1>6, <1>7, <2>1
  <2>4. LeaseOpen'
    BY <2>3 DEF LeaseOpen
  <2> QED  BY <2>2, <2>4
<1>9. ASSUME NEW q \in Runs PROVE Progress(q)'
  <2>1. Progress(q) /\ Progress(r)
    OBVIOUS
  <2>2. CASE q = r
    <3>1. decidedBy[r] = NoRun /\ verdict[r] = "none" /\ NoRun # r
      BY <1>4, <2>1, GatewayStreamAssumption DEF Progress
    <3>2. via[r] = NoConn \/ via[r] = lease[r]
      BY <2>1, <3>1 DEF Progress, Abandoned, Misled
    <3>3. via'[r] = NoConn
      BY <1>3, <3>2
    <3> QED  BY <1>6, <2>2, <3>1, <3>3 DEF Progress
  <2>3. CASE q # r
    <3>1. lease[q] = lease[r] => FALSE
      BY <1>1, <2>3 DEF Exclusive
    <3>2. pc'[q] = pc[q] /\ lease'[q] = lease[q] /\ gateway'[q] = gateway[q]
          /\ verdict'[q] = verdict[q] /\ decidedBy'[q] = decidedBy[q]
      BY <1>4, <1>6, <2>3
    <3>3. via'[q] = via[q] \/ (via'[q] = NoConn /\ via[q] = lease[r])
      BY <1>3
    <3> QED  BY <2>1, <3>1, <3>2, <3>3 DEF Progress, Abandoned, Misled
  <2> QED  BY <2>2, <2>3
<1>10. FinalFrames'
  BY <1>3, <1>4, OldFinals
<1> QED  BY <1>5, <1>8, <1>9, <1>10

\* A stream leaves: its request, if the Gateway still works on it, stays behind.
LEMMA LeaveKeeps ==
  ASSUME StreamInv, NEW r \in Runs, pc[r] = "reading",
         NEW how \in {"done", "error", "left"}, NEW by \in Runs \cup {NoRun},
         how = "left" \/ gateway[r] \in Settled \/ by \notin {r, NoRun},
         Leave(r, how, by), text' \in [Runs -> Seq(Tokens)],
         inbox' \in [Conns -> Seq(Frame)], OldFrames,
         UNCHANGED <<socket, gatewayVars, lease>>
  PROVE  StreamInv'
<1> USE DEF StreamInv
<1>1. /\ verdict' = [verdict EXCEPT ![r] = how] /\ decidedBy' = [decidedBy EXCEPT ![r] = by]
      /\ pc' = [pc EXCEPT ![r] = "left"]
  BY DEF Leave, Conclude, GoTo
<1>2. /\ pc'[r] = "left" /\ decidedBy'[r] = by /\ verdict'[r] = how
      /\ \A q \in Runs \ {r} : /\ pc'[q] = pc[q] /\ verdict'[q] = verdict[q]
                               /\ decidedBy'[q] = decidedBy[q]
  BY <1>1 DEF TypeOK
<1>3. TypeOK'
  BY <1>1 DEF TypeOK, gatewayVars, Verdicts
<1>4. Exclusive' /\ LeaseOpen'
  BY DEF Exclusive, LeaseOpen
<1>5. ASSUME NEW q \in Runs PROVE Progress(q)'
  <2>1. Progress(q) /\ UNCHANGED <<gateway[q], via[q], lease[q]>>
    BY DEF gatewayVars
  <2>2. CASE q = r
    <3>1. via[r] # NoConn => how = "left" \/ by \notin {r, NoRun}
      BY <2>1, <2>2 DEF Progress
    <3> QED  BY <1>2, <2>1, <2>2, <3>1 DEF Progress, Abandoned, Misled
  <2>3. CASE q # r
    BY <1>2, <2>1, <2>3 DEF Progress, Abandoned, Misled
  <2> QED  BY <2>2, <2>3
<1>6. FinalFrames'
  BY OldFinals DEF gatewayVars
<1> QED  BY <1>3, <1>4, <1>5, <1>6

\* An executor that leaves between two frames keeps the first layer.
LEMMA LeaveOnTickKeeps ==
  ASSUME StreamInv, NEW r \in Runs, LeaveOnTick(r)
  PROVE  StreamInv'
<1>1. OldFrames /\ inbox' \in [Conns -> Seq(Frame)] /\ text' \in [Runs -> Seq(Tokens)]
  BY SameFrames DEF LeaveOnTick, netVars, StreamInv, TypeOK
<1>2. UNCHANGED <<socket, gatewayVars, lease>> /\ pc[r] = "reading" /\ Leave(r, "left", NoRun)
  BY DEF LeaveOnTick, netVars
<1>3. NoRun \notin Runs
  BY GatewayStreamAssumption
<1> QED  BY <1>1, <1>2, <1>3, LeaveKeeps

\* What an event adds to a text is made of tokens.
LEMMA ExtendText ==
  ASSUME TypeOK, NEW r \in Runs, NEW f \in Frame, Extend(r, f)
  PROVE  text' \in [Runs -> Seq(Tokens)]
<1> DEFINE added == Incremental(text[r], f.text)
<1>1. text[r] \in Seq(Tokens) /\ f.text \in Seq(Tokens)
  BY DEF TypeOK, Frame
<1>2. added \in Seq(Tokens)
  <2>1. IsPrefix(text[r], f.text) =>
          SubSeq(f.text, Len(text[r]) + 1, Len(f.text)) \in Seq(Tokens)
    <3>1. Len(text[r]) \in Nat /\ Len(f.text) \in Nat
      BY <1>1
    <3>2. IsPrefix(text[r], f.text) => Len(text[r]) <= Len(f.text)
      BY DEF IsPrefix
    <3>3. IsPrefix(text[r], f.text) =>
            /\ Len(text[r]) + 1 \in 1..Len(f.text) + 1
            /\ Len(f.text) \in (Len(text[r]) + 1) - 1..Len(f.text)
      BY <3>1, <3>2
    <3> QED  BY <1>1, <3>3, SubSeqProperties
  <2> QED  BY <1>1, <2>1 DEF Incremental
<1>3. text[r] \o added \in Seq(Tokens)
  BY <1>1, <1>2, ConcatProperties
<1>4. text' = [text EXCEPT ![r] = IF f.kind \in {"delta", "done"} THEN text[r] \o added
                                                                  ELSE text[r]]
  BY DEF Extend
<1> HIDE DEF added
<1> QED  BY <1>1, <1>3, <1>4 DEF TypeOK

\* Taking a frame from the inbox keeps the first layer.
LEMMA ReadKeeps ==
  ASSUME StreamInv, NEW r \in Runs, Read(r)
  PROVE  StreamInv'
<1> USE DEF StreamInv
<1> DEFINE f == Head(inbox[lease[r]])
<1>1. lease[r] \in Conns /\ inbox[lease[r]] # <<>> /\ pc[r] = "reading"
  BY DEF Read, TypeOK
<1>2. inbox' = [inbox EXCEPT ![lease[r]] = Tail(@)]
      /\ UNCHANGED <<socket, gatewayVars, lease>>
  BY DEF Read
<1>3. /\ inbox' \in [Conns -> Seq(Frame)] /\ OldFrames
      /\ f \in Frame /\ f = inbox[lease[r]][1] /\ 1 \in 1..Len(inbox[lease[r]])
  <2>1. /\ inbox' \in [Conns -> Seq(Frame)] /\ OldFrames
        /\ f \in Frame /\ f = inbox[lease[r]][1]
        /\ Len(inbox[lease[r]]) \in Nat \ {0}
    BY <1>1, <1>2, TailShifts
  <2>2. 1 \in 1..Len(inbox[lease[r]])
    BY <2>1
  <2> HIDE DEF f
  <2> QED  BY <2>1, <2>2
<1>4. f.run \in Runs /\ f.kind \in Kinds
  BY <1>3 DEF Frame
<1>5. f.kind \in Final => gateway[f.run] \in Settled
  BY <1>1, <1>3 DEF FinalFrames
<1>6. NoRun \notin Runs
  BY GatewayStreamAssumption
<1> HIDE DEF f
<1>7. CASE Handle(r, f)
  <2>1. text' \in [Runs -> Seq(Tokens)]
    BY <1>3, <1>7, ExtendText DEF Handle
  <2>2. CASE f.kind = "done"
    <3>1. Leave(r, "done", f.run)
      BY <1>7, <2>2 DEF Handle
    <3> QED  BY <1>1, <1>2, <1>3, <1>4, <1>5, <1>6, <2>1, <2>2, <3>1, LeaveKeeps DEF Final
  <2>3. CASE f.kind \in {"error", "refused"}
    <3>1. Leave(r, "error", f.run)
      BY <1>7, <2>3 DEF Handle
    <3> QED  BY <1>1, <1>2, <1>3, <1>4, <1>5, <1>6, <2>1, <2>3, <3>1, LeaveKeeps DEF Final
  <2>4. CASE f.kind \notin Final
    <3>1. UNCHANGED <<pc, verdict, decidedBy>>
      BY <1>7, <2>4 DEF Handle, Final
    <3>2. TypeOK'
      BY <1>2, <1>3, <2>1, <3>1 DEF TypeOK, gatewayVars
    <3>3. Exclusive' /\ LeaseOpen' /\ \A q \in Runs : Progress(q)'
      BY <1>2, <3>1 DEF Exclusive, LeaseOpen, Progress, Abandoned, Misled, gatewayVars
    <3>4. FinalFrames'
      BY <1>2, <1>3, OldFinals DEF gatewayVars
    <3> QED  BY <3>2, <3>3, <3>4
  <2> QED  BY <2>2, <2>3, <2>4 DEF Final
<1>8. CASE LeaveEarly(r, f)
  <2>1. text' \in [Runs -> Seq(Tokens)]
    BY <1>3, <1>8, ExtendText DEF LeaveEarly, TypeOK
  <2>2. PICK by \in {NoRun, f.run} : Leave(r, "left", by)
    BY <1>8 DEF LeaveEarly
  <2> QED  BY <1>1, <1>2, <1>3, <1>4, <2>1, <2>2, LeaveKeeps
<1>9. CASE UNCHANGED <<pc, text, verdict, decidedBy>>
  <2>1. TypeOK'
    BY <1>2, <1>3, <1>9 DEF TypeOK, gatewayVars
  <2>2. Exclusive' /\ LeaseOpen' /\ \A q \in Runs : Progress(q)'
    BY <1>2, <1>9 DEF Exclusive, LeaseOpen, Progress, Abandoned, Misled, gatewayVars
  <2>3. FinalFrames'
    BY <1>2, <1>3, OldFinals DEF gatewayVars
  <2> QED  BY <2>1, <2>2, <2>3
<1> QED  BY <1>7, <1>8, <1>9 DEF Read, f

\* Closing the generators of an abandoned stream keeps the first layer.
LEMMA FinalizeKeeps ==
  ASSUME StreamInv, NEW r \in Runs, Finalize(r)
  PROVE  StreamInv'
<1> USE DEF StreamInv
<1>1. lease[r] \in Conns /\ lease[r] # NoConn /\ pc[r] = "left"
  BY DEF Finalize, TypeOK
<1>2. /\ socket' \in [Conns -> {"none", "idle", "leased", "broken"}]
      /\ inbox' \in [Conns -> Seq(Frame)]
      /\ via' \in [Runs -> Conns \cup {NoConn}]
      /\ \A j \in Conns \ {lease[r]} : socket'[j] = socket[j]
      /\ \A q \in Runs : via'[q] = via[q] \/ (via[q] = lease[r] /\ via'[q] = NoConn)
      /\ OldFrames
  <2>1. CASE Close(lease[r])
    BY <1>1, <2>1, CloseEmpties
  <2>2. CASE socket' = [socket EXCEPT ![lease[r]] = "idle"] /\ UNCHANGED <<inbox, via>>
    BY <1>1, <2>2, SameFrames DEF TypeOK
  <2> QED  BY <2>1, <2>2 DEF Finalize
<1>3. /\ pc' = [pc EXCEPT ![r] = "over"] /\ lease' = [lease EXCEPT ![r] = NoConn]
      /\ UNCHANGED <<gateway, sent, text, verdict, decidedBy>>
  BY DEF Finalize, GoTo
<1>4. TypeOK'
  BY <1>2, <1>3 DEF TypeOK
<1>5. /\ lease'[r] = NoConn /\ pc'[r] = "over"
      /\ \A q \in Runs \ {r} : lease'[q] = lease[q] /\ pc'[q] = pc[q]
  BY <1>3 DEF TypeOK
<1>6. \A q \in Runs \ {r} : lease[q] # lease[r] /\ lease[q] \in Conns \cup {NoConn}
  BY <1>1 DEF Exclusive, TypeOK
<1>7. Exclusive'
  BY <1>5 DEF Exclusive
<1>8. LeaseOpen'
  <2>1. \A q \in Runs : lease'[q] # NoConn =>
          q # r /\ lease'[q] = lease[q] /\ socket'[lease[q]] = socket[lease[q]]
    BY <1>2, <1>5, <1>6
  <2> QED  BY <2>1 DEF LeaseOpen
<1>9. ASSUME NEW q \in Runs PROVE Progress(q)'
  <2>1. /\ Progress(q)
        /\ UNCHANGED <<gateway[q], verdict[q], decidedBy[q]>>
        /\ via'[q] = via[q] \/ (via[q] = lease[r] /\ via'[q] = NoConn)
    BY <1>2, <1>3
  <2>2. CASE q = r
    BY <1>1, <1>5, <2>1, <2>2 DEF Progress, Abandoned, Misled
  <2>3. CASE q # r
    BY <1>5, <1>6, <2>1, <2>3 DEF Progress, Abandoned, Misled
  <2> QED  BY <2>2, <2>3
<1>10. FinalFrames'
  BY <1>2, <1>3, OldFinals
<1> QED  BY <1>4, <1>7, <1>8, <1>9, <1>10

\* A connection that the peer closes keeps the first layer.
LEMMA PeerKeeps ==
  ASSUME StreamInv, NEW k \in Conns, PeerCloses(k)
  PROVE  StreamInv'
<1> USE DEF StreamInv
<1>1. CASE socket[k] = "idle" /\ Close(k) /\ UNCHANGED <<gateway, sent, streamVars>>
  <2>1. /\ socket' \in [Conns -> {"none", "idle", "leased", "broken"}]
        /\ inbox' \in [Conns -> Seq(Frame)]
        /\ via' \in [Runs -> Conns \cup {NoConn}]
        /\ \A j \in Conns \ {k} : socket'[j] = socket[j]
        /\ \A r \in Runs : via'[r] = IF via[r] = k THEN NoConn ELSE via[r]
        /\ OldFrames
    BY <1>1, CloseEmpties
  <2>2. TypeOK'
    BY <1>1, <2>1 DEF TypeOK, streamVars
  <2>3. \A r \in Runs : lease[r] # NoConn => lease[r] \in Conns \ {k}
    BY <1>1 DEF LeaseOpen, TypeOK
  <2>4. LeaseOpen' /\ Exclusive'
    BY <1>1, <2>1, <2>3 DEF LeaseOpen, Exclusive, streamVars
  <2>5. ASSUME NEW r \in Runs PROVE Progress(r)'
    <3>1. Progress(r) /\ UNCHANGED <<gateway[r], pc[r], lease[r], verdict[r], decidedBy[r]>>
      BY <1>1 DEF streamVars
    <3>2. via'[r] = via[r] \/ (via[r] = k /\ via'[r] = NoConn)
      BY <2>1
    <3>3. pc[r] = "reading" => lease[r] # k
      BY <2>3 DEF TypeOK
    <3> QED  BY <3>1, <3>2, <3>3 DEF Progress, Abandoned, Misled
  <2>6. FinalFrames'
    BY <1>1, <2>1, OldFinals
  <2> QED  BY <2>2, <2>4, <2>5, <2>6
<1>2. CASE /\ socket[k] = "leased" /\ socket' = [socket EXCEPT ![k] = "broken"]
           /\ UNCHANGED <<inbox, gatewayVars, streamVars>>
  <2>1. TypeOK'
    BY <1>2 DEF TypeOK, gatewayVars, streamVars
  <2>2. LeaseOpen' /\ Exclusive'
    BY <1>2 DEF LeaseOpen, Exclusive, streamVars, TypeOK
  <2>3. \A r \in Runs : Progress(r)'
    BY <1>2 DEF Progress, Abandoned, Misled, gatewayVars, streamVars
  <2>4. FinalFrames'
    BY <1>2 DEF FinalFrames, gatewayVars
  <2> QED  BY <2>1, <2>2, <2>3, <2>4
<1> QED  BY <1>1, <1>2 DEF PeerCloses

\* The first layer holds at the start.
LEMMA StreamInvInit == Init => StreamInv
<1> SUFFICES ASSUME Init PROVE StreamInv
  OBVIOUS
<1>1. NoRun \notin Runs /\ NoConn \notin Conns
  BY GatewayStreamAssumption
<1>2. TypeOK
  BY DEF Init, TypeOK, Verdicts
<1>3. Exclusive /\ LeaseOpen /\ FinalFrames
  BY <1>1 DEF Init, Exclusive, LeaseOpen, FinalFrames
<1>4. \A r \in Runs : Progress(r)
  BY <1>1 DEF Init, Progress
<1> QED  BY <1>2, <1>3, <1>4 DEF StreamInv

\* The first layer is inductive.
LEMMA StreamInvStep == StreamInv /\ [Next]_vars => StreamInv'
<1> SUFFICES ASSUME StreamInv, [Next]_vars PROVE StreamInv'
  OBVIOUS
<1>1. CASE UNCHANGED vars
  BY <1>1 DEF StreamInv, TypeOK, Exclusive, LeaseOpen, Progress, Abandoned, Misled, FinalFrames,
              vars, netVars, gatewayVars, streamVars
<1>2. ASSUME NEW r \in Runs, GatewayReplies(r) PROVE StreamInv'
  BY <1>2, RepliesKeeps
<1>3. ASSUME NEW r \in Runs, GatewayDelta(r) PROVE StreamInv'
  BY <1>3, DeltaKeeps
<1>4. ASSUME NEW r \in Runs, GatewayDone(r) \/ GatewayError(r) PROVE StreamInv'
  BY <1>4, EndKeeps
<1>5. ASSUME NEW r \in Runs, Request(r) PROVE StreamInv'
  BY <1>5, RequestKeeps
<1>6. ASSUME NEW r \in Runs, Read(r) PROVE StreamInv'
  BY <1>6, ReadKeeps
<1>7. ASSUME NEW r \in Runs, LeaveOnTick(r) PROVE StreamInv'
  BY <1>7, LeaveOnTickKeeps
<1>8. ASSUME NEW r \in Runs, TimesOut(r) \/ AssumesDone(r) \/ ConnectionEnds(r) \/ Interrupted(r)
      PROVE  StreamInv'
  BY <1>8, CutKeeps DEF TimesOut, AssumesDone, ConnectionEnds, Interrupted
<1>9. ASSUME NEW r \in Runs, Finalize(r) PROVE StreamInv'
  BY <1>9, FinalizeKeeps
<1>10. ASSUME NEW k \in Conns, PeerCloses(k) PROVE StreamInv'
  BY <1>10, PeerKeeps
<1> QED
  BY <1>1, <1>2, <1>3, <1>4, <1>5, <1>6, <1>7, <1>8, <1>9, <1>10 DEF Next

\* A connection has one stream, and a request that waits on another's connection is
\* that of an abandoned run, whatever the Gateway sends and in which order.
THEOREM StreamInvariant == Spec => []StreamInv
BY StreamInvInit, StreamInvStep, PTL DEF Spec

\* Frames, connections, streams and the Gateway have the values they are meant to have.
THEOREM StreamTypeCorrect == Spec => []TypeOK
<1>1. StreamInv => TypeOK
  BY DEF StreamInv
<1> QED  BY <1>1, StreamInvariant, PTL

\* Two requests on one connection: one of the two was abandoned.  No timeout, no
\* assumed end and no interrupted recv leads there (openclaw_gateway_client.py:
\* the taint of a connection whose stream did not end by itself).
THEOREM OverlapHasLeaver == Spec => []OverlapNeedsLeaver
<1>1. StreamInv => OverlapNeedsLeaver
  BY DEF StreamInv, Progress, Exclusive, OverlapNeedsLeaver, InFlight
<1> QED  BY <1>1, StreamInvariant, PTL

-----------------------------------------------------------------------------
\* Second layer.

\* What the receive loop needs of the Gateway to tell runs apart: events that name
\* their run, or their conversation if no two runs share one.
Attributed ==
  \/ "runId" \in EventKeys
  \/ /\ "sessionKey" \in EventKeys
     /\ \A q, r \in Runs : Conversation[q] = Conversation[r] => q = r

Shape(f) ==
  /\ f.kind \in {"ack", "refused"} => f.keys = {"id"}
  /\ f.kind \in {"delta", "error"} => f.keys = EventKeys
  /\ f.kind = "done" => f.keys \in {{"id"}, EventKeys}

\* A reply to chat.send that refuses it, or answers it at once.
FinalReply(f) == f.keys = {"id"} /\ f.kind \in {"refused", "done"}

\* It waits for the stream that asked, or that stream was abandoned.
Addressed(k, f) ==
  FinalReply(f) => (pc[f.run] = "reading" /\ lease[f.run] = k) \/ Abandoned(f.run)

\* The Gateway is where its frames say.
Consistent(f) ==
  /\ gateway[f.run] \in {"answering"} \cup Settled
  /\ FinalReply(f) => gateway[f.run] = IF f.kind = "refused" THEN "refused" ELSE "answered"

Waits(k, f) == \E i \in 1..Len(inbox[k]) : inbox[k][i] = f

\* A frame that waits is of a run whose request the Gateway has replied to.
Attribution ==
  \A k \in Conns, f \in Frame :
    Waits(k, f) => Shape(f) /\ Consistent(f) /\ Addressed(k, f)

\* Nothing else of a run that was refused or answered by a reply is in any inbox.
ReplyAlone ==
  \A k, l \in Conns : \A i \in 1..Len(inbox[k]) : \A j \in 1..Len(inbox[l]) :
    FinalReply(inbox[k][i]) /\ inbox[l][j].run = inbox[k][i].run => k = l /\ i = j

\* How a stream ends that takes the reply to another's request for its own.
Misleads(p, how) ==
  \/ gateway[p] = "refused" /\ how = "error"
  \/ gateway[p] = "answered" /\ how \in {"done", "left"}

FrameInv == Attribution /\ ReplyAlone /\ MisledOnlyByAbandoned

\* What a stream that reads accepts: its own, and replies to others.
LEMMA AcceptedFrames ==
  ASSUME Attributed, NEW f \in Frame, Shape(f), NEW r \in Runs, Belongs(f, r)
  PROVE  f.run = r \/ (f.keys = {"id"} /\ f.kind \in {"ack", "refused", "done"})
<1>1. f.kind \in {"ack", "refused", "delta", "done", "error"} /\ f.run \in Runs
  BY DEF Frame, Kinds
<1>2. f.keys = EventKeys => f.run = r
  <2>1. "id" \notin EventKeys
    BY GatewayStreamAssumption
  <2> QED  BY <1>1, <2>1 DEF Attributed, Belongs
<1> QED  BY <1>1, <1>2 DEF Shape

\* A step that delivers nothing.
LEMMA FramesKeep ==
  ASSUME StreamInv, FrameInv, StreamInv', OldFrames,
         \A q \in Runs : gateway[q] \in {"answering"} \cup Settled => gateway'[q] = gateway[q],
         \A q \in Runs : Abandoned(q) => Abandoned(q)',
         \A k \in Conns : \A f \in Frame :
           Waits(k, f)' /\ Addressed(k, f) => Addressed(k, f)',
         \A q, p \in Runs : decidedBy'[q] = p /\ p # q =>
           \/ decidedBy[q] = p /\ verdict'[q] = verdict[q]
           \/ Misleads(p, verdict'[q]) /\ Abandoned(p)
  PROVE  FrameInv'
<1> USE DEF FrameInv
<1>1. TypeOK /\ TypeOK'
  BY DEF StreamInv
<1>2. Attribution'
  <2> SUFFICES ASSUME NEW k \in Conns, NEW f \in Frame, Waits(k, f)'
               PROVE  Shape(f) /\ Consistent(f)' /\ Addressed(k, f)'
    BY DEF Attribution, Shape
  <2>1. Waits(k, f)
    BY DEF Waits, OldFrames
  <2>2. Shape(f) /\ Consistent(f) /\ Addressed(k, f)
    BY <2>1 DEF Attribution
  <2>3. f.run \in Runs
    BY DEF Frame
  <2>4. gateway'[f.run] = gateway[f.run]
    BY <2>2, <2>3 DEF Consistent
  <2> QED  BY <2>2, <2>4 DEF Consistent, FinalReply
<1>3. ReplyAlone'
  <2>1. ASSUME NEW k \in Conns, NEW l \in Conns,
               NEW i \in 1..Len(inbox'[k]), NEW j \in 1..Len(inbox'[l]),
               FinalReply(inbox'[k][i]), inbox'[l][j].run = inbox'[k][i].run
        PROVE  k = l /\ i = j
    <3>1. PICK d \in Nat : \A n \in 1..Len(inbox'[k]) :
            n + d \in 1..Len(inbox[k]) /\ inbox'[k][n] = inbox[k][n + d]
      BY DEF OldFrames
    <3>2. PICK e \in Nat : \A n \in 1..Len(inbox'[l]) :
            n + e \in 1..Len(inbox[l]) /\ inbox'[l][n] = inbox[l][n + e]
      BY DEF OldFrames
    <3>3. i + d \in 1..Len(inbox[k]) /\ FinalReply(inbox[k][i + d])
      BY <2>1, <3>1
    <3>4. j + e \in 1..Len(inbox[l]) /\ inbox[l][j + e].run = inbox[k][i + d].run
      BY <2>1, <3>1, <3>2
    <3>5. k = l
      BY <3>3, <3>4 DEF ReplyAlone
    <3>6. j + d \in 1..Len(inbox[k]) /\ inbox[k][j + d].run = inbox[k][i + d].run
      BY <2>1, <3>1, <3>5
    <3>7. i + d = j + d
      BY <3>3, <3>6 DEF ReplyAlone
    <3>8. i \in Nat /\ j \in Nat /\ d \in Nat
      OBVIOUS
    <3> QED  BY <3>5, <3>7, <3>8
  <2> QED  BY <2>1 DEF ReplyAlone, FinalReply
<1>4. MisledOnlyByAbandoned'
  <2>1. ASSUME NEW q \in Runs, NEW p \in Runs, decidedBy'[q] = p, p # q
        PROVE  Misleads(p, verdict'[q]) /\ gateway'[p] = gateway[p] /\ Abandoned(p)'
    <3>1. Misleads(p, verdict'[q]) /\ Abandoned(p)
      <4>1. p # NoRun
        BY GatewayStreamAssumption
      <4>2. decidedBy[q] = p => Misleads(p, verdict[q]) /\ Abandoned(p)
        BY <2>1, <4>1 DEF MisledOnlyByAbandoned, Misleads, Misled
      <4> QED  BY <2>1, <4>2
    <3>2. gateway'[p] = gateway[p]
      BY <3>1 DEF Misleads, Settled
    <3> QED  BY <3>1, <3>2
  <2>2. \A q \in Runs : decidedBy'[q] \in Runs \cup {NoRun}
    BY <1>1 DEF TypeOK
  <2> QED  BY <2>1, <2>2 DEF MisledOnlyByAbandoned, Abandoned, Misled, Misleads
<1> QED  BY <1>2, <1>3, <1>4

\* The Gateway sends a frame; a final reply, before anything else.
LEMMA SendFrames ==
  ASSUME StreamInv, FrameInv, StreamInv', NEW r \in Runs, NEW f \in Frame, NEW ks,
         f.run = r, Shape(f), gateway[r] \in {"requested", "answering"},
         Deliver(f, ks), UNCHANGED streamVars,
         gateway'[r] \in {"answering"} \cup Settled,
         \A q \in Runs \ {r} : gateway'[q] = gateway[q],
         FinalReply(f) =>
           /\ gateway[r] = "requested" /\ ks = {via[r]}
           /\ gateway'[r] = IF f.kind = "refused" THEN "refused" ELSE "answered"
  PROVE  FrameInv'
<1> USE DEF FrameInv
<1>1. TypeOK /\ FinalFrames /\ Progress(r)
  BY DEF StreamInv
<1>2. \A k \in Conns : \A i \in 1..Len(inbox'[k]) :
        \/ i \in 1..Len(inbox[k]) /\ inbox'[k][i] = inbox[k][i]
        \/ k \in ks /\ i = Len(inbox[k]) + 1 /\ inbox'[k][i] = f
  BY <1>1, DeliverAppends
<1>3. UNCHANGED <<pc, lease, verdict, decidedBy>>
  BY DEF streamVars
<1>4. ASSUME NEW k \in Conns, FinalReply(f), k \in ks PROVE Addressed(k, f)
  <2>1. k = via[r] /\ k # NoConn /\ gateway[r] = "requested"
    BY <1>4, GatewayStreamAssumption
  <2> QED  BY <1>1, <2>1 DEF Addressed, Progress
<1>5. Attribution'
  <2> SUFFICES ASSUME NEW k \in Conns, NEW g \in Frame, Waits(k, g)'
               PROVE  Shape(g) /\ Consistent(g)' /\ Addressed(k, g)'
    BY DEF Attribution, Shape
  <2>1. Waits(k, g) \/ (k \in ks /\ g = f)
    BY <1>2 DEF Waits
  <2>2. Shape(g) /\ Consistent(g)' /\ Addressed(k, g)
    <3>1. CASE Waits(k, g)
      <4>1. Shape(g) /\ Consistent(g) /\ Addressed(k, g) /\ g.run \in Runs
        BY <3>1 DEF Attribution, Frame
      <4>2. g.run = r => ~FinalReply(g)
        BY <4>1 DEF Consistent
      <4> QED  BY <4>1, <4>2 DEF Consistent, FinalReply
    <3>2. CASE k \in ks /\ g = f
      BY <1>4, <3>2 DEF Addressed, Consistent, FinalReply
    <3> QED  BY <2>1, <3>1, <3>2
  <2>3. Addressed(k, g)'
    BY <1>3, <2>2 DEF Addressed, FinalReply, Abandoned, Misled
  <2> QED  BY <2>2, <2>3
<1>6. ReplyAlone'
  <2>1. ASSUME NEW k \in Conns, NEW l \in Conns,
               NEW i \in 1..Len(inbox'[k]), NEW j \in 1..Len(inbox'[l]),
               FinalReply(inbox'[k][i]), inbox'[l][j].run = inbox'[k][i].run
        PROVE  k = l /\ i = j
    <3>1. CASE i \in 1..Len(inbox[k]) /\ inbox'[k][i] = inbox[k][i]
      <4>1. gateway[inbox[k][i].run] \notin {"requested", "answering"}
        BY <1>1, <2>1, <3>1 DEF FinalFrames, Final, FinalReply, Settled
      <4>2. inbox'[l][j] # f
        BY <2>1, <3>1, <4>1
      <4>3. j \in 1..Len(inbox[l]) /\ inbox'[l][j] = inbox[l][j]
        BY <1>2, <4>2
      <4> QED  BY <2>1, <3>1, <4>3 DEF ReplyAlone
    <3>2. CASE k \in ks /\ i = Len(inbox[k]) + 1 /\ inbox'[k][i] = f
      <4>1. gateway[r] = "requested" /\ ks = {via[r]}
        BY <2>1, <3>2
      <4>2. ~(j \in 1..Len(inbox[l]) /\ inbox'[l][j] = inbox[l][j])
        <5> SUFFICES ASSUME j \in 1..Len(inbox[l]), inbox'[l][j] = inbox[l][j] PROVE FALSE
          OBVIOUS
        <5>1. inbox[l][j] \in Frame /\ inbox[l][j].run = r
          BY <1>1, <2>1, <3>2, WaitingFrame
        <5>2. Waits(l, inbox[l][j])
          BY DEF Waits
        <5> QED  BY <4>1, <5>1, <5>2 DEF Attribution, Consistent, Settled
      <4>3. l \in ks /\ j = Len(inbox[l]) + 1
        BY <1>2, <4>2
      <4> QED  BY <3>2, <4>1, <4>3
    <3> QED  BY <1>2, <3>1, <3>2
  <2> QED  BY <2>1 DEF ReplyAlone, FinalReply
<1>7. MisledOnlyByAbandoned'
  <2> SUFFICES ASSUME NEW q \in Runs, Misled(q)
               PROVE  Abandoned(decidedBy[q]) /\ Misleads(decidedBy[q], verdict[q])'
    BY <1>3 DEF MisledOnlyByAbandoned, Abandoned, Misled, Misleads
  <2>1. Abandoned(decidedBy[q]) /\ Misleads(decidedBy[q], verdict[q])
    BY DEF MisledOnlyByAbandoned, Misleads
  <2>2. decidedBy[q] \in Runs \ {r}
    BY <1>1, <2>1 DEF Misled, Misleads, TypeOK
  <2> QED  BY <1>3, <2>1, <2>2 DEF Misleads
<1> QED  BY <1>5, <1>6, <1>7

\* The Gateway's answer to chat.send keeps the second layer.
LEMMA RepliesFrames ==
  ASSUME Attributed, StreamInv, FrameInv, NEW r \in Runs, GatewayReplies(r)
  PROVE  FrameInv'
<1>1. PICK reply \in Replies :
        /\ reply = "refused" => Settle(r, "refused")
        /\ reply = "answer" => Settle(r, "answered")
        /\ reply \notin {"refused", "answer"} =>
             gateway' = [gateway EXCEPT ![r] = "answering"] /\ UNCHANGED <<via, sent>>
        /\ Deliver([run |-> r, keys |-> {"id"},
                    kind |-> IF reply = "answer" THEN "done" ELSE reply,
                    text |-> IF reply = "answer" THEN Answer[r] ELSE <<>>], {via[r]})
  BY DEF GatewayReplies
<1>2. reply \in {"ack", "refused", "answer"} /\ Answer[r] \in Seq(Tokens)
  BY GatewayStreamAssumption
<1> DEFINE kind == IF reply = "answer" THEN "done" ELSE reply
           tokens == IF reply = "answer" THEN Answer[r] ELSE <<>>
           f == [run |-> r, keys |-> {"id"}, kind |-> kind, text |-> tokens]
<1>3. f \in Frame
  <2>1. kind \in Kinds
    BY <1>2 DEF Kinds
  <2>2. tokens \in Seq(Tokens)
    BY <1>2
  <2> HIDE DEF kind, tokens
  <2> QED  BY <2>1, <2>2, EventFrame
<1>4. Deliver(f, {via[r]})
  BY <1>1
<1>5. Shape(f) /\ f.run = r
  BY <1>2 DEF Shape
<1>6. gateway[r] = "requested" /\ UNCHANGED streamVars
  BY DEF GatewayReplies
<1>7. /\ gateway'[r] \in {"answering"} \cup Settled
      /\ \A q \in Runs \ {r} : gateway'[q] = gateway[q]
      /\ FinalReply(f) => gateway'[r] = IF f.kind = "refused" THEN "refused" ELSE "answered"
  BY <1>1, <1>2 DEF Settle, Settled, FinalReply, StreamInv, TypeOK
<1>8. StreamInv'
  BY RepliesKeeps
<1> HIDE DEF f
<1> QED  BY <1>3, <1>4, <1>5, <1>6, <1>7, <1>8, SendFrames

\* An event of a run that is being answered keeps the second layer.
LEMMA EventFrames ==
  ASSUME StreamInv, FrameInv, StreamInv', NEW r \in Runs, gateway[r] = "answering",
         NEW kind \in {"delta", "done", "error"}, NEW tokens \in Seq(Tokens),
         SendEvent(r, kind, tokens), UNCHANGED streamVars,
         gateway'[r] \in {"answering"} \cup Settled,
         \A q \in Runs \ {r} : gateway'[q] = gateway[q]
  PROVE  FrameInv'
<1> DEFINE f == [run |-> r, keys |-> EventKeys, kind |-> kind, text |-> tokens]
           ks == IF r \in Broadcast THEN Conns ELSE {via[r]}
<1>1. f \in Frame
  BY EventFrame DEF Kinds
<1>2. Deliver(f, ks)
  BY DEF SendEvent
<1>3. Shape(f) /\ f.run = r /\ ~FinalReply(f)
  BY GatewayStreamAssumption DEF Shape, FinalReply
<1> HIDE DEF f, ks
<1> QED  BY <1>1, <1>2, <1>3, SendFrames

\* The three events.
LEMMA AnswerFrames ==
  ASSUME StreamInv, FrameInv, NEW r \in Runs,
         GatewayDelta(r) \/ GatewayDone(r) \/ GatewayError(r)
  PROVE  FrameInv'
<1>1. gateway[r] = "answering" /\ UNCHANGED streamVars
  BY DEF GatewayDelta, GatewayDone, GatewayError
<1>2. StreamInv'
  BY DeltaKeeps, EndKeeps
<1>3. /\ gateway'[r] \in {"answering"} \cup Settled
      /\ \A q \in Runs \ {r} : gateway'[q] = gateway[q]
  BY <1>1 DEF GatewayDelta, GatewayDone, GatewayError, Settle, Settled, StreamInv, TypeOK
<1>4. \E kind \in {"delta", "done", "error"}, tokens \in Seq(Tokens) : SendEvent(r, kind, tokens)
  <2>1. Answer[r] \in Seq(Tokens) /\ <<>> \in Seq(Tokens)
    BY GatewayStreamAssumption
  <2>2. CASE GatewayDelta(r)
    <3>1. PICK n \in sent[r] + 1..Len(Answer[r]) :
            /\ sent' = [sent EXCEPT ![r] = n]
            /\ SendEvent(r, "delta", Chunk(r, sent[r], n))
      BY <2>2 DEF GatewayDelta
    <3>2. Chunk(r, sent[r], n) \in Seq(Tokens)
      BY <3>1, DeltaText DEF StreamInv
    <3> QED  BY <3>1, <3>2
  <2>3. CASE GatewayDone(r) \/ GatewayError(r)
    BY <2>1, <2>3 DEF GatewayDone, GatewayError
  <2> QED  BY <2>2, <2>3
<1> QED  BY <1>1, <1>2, <1>3, <1>4, EventFrames

\* A new request keeps the second layer: nothing of its run waits anywhere.
LEMMA RequestFrames ==
  ASSUME StreamInv, FrameInv, NEW r \in Runs, Request(r)
  PROVE  FrameInv'
<1>1. /\ pc' = [pc EXCEPT ![r] = "reading"] /\ pc[r] = "new"
      /\ gateway' = [gateway EXCEPT ![r] = "requested"]
      /\ \E k \in Conns : lease' = [lease EXCEPT ![r] = k]
      /\ UNCHANGED <<inbox, verdict, decidedBy>>
  BY DEF Request, GoTo
<1>2. gateway[r] = "none"
  BY <1>1 DEF StreamInv, Progress
<1>3. \A q \in Runs \ {r} : pc'[q] = pc[q] /\ lease'[q] = lease[q] /\ gateway'[q] = gateway[q]
  BY <1>1 DEF StreamInv, TypeOK
<1>4. StreamInv' /\ OldFrames
  BY <1>1, RequestKeeps, SameFrames DEF StreamInv
<1>5. \A q \in Runs : Abandoned(q) => Abandoned(q)'
  BY <1>1 DEF Abandoned, Misled
<1>6. ASSUME NEW k \in Conns, NEW f \in Frame, Waits(k, f)', Addressed(k, f)
      PROVE  Addressed(k, f)'
  <2>1. f.run # r /\ f.run \in Runs
    BY <1>1, <1>2, <1>6 DEF FrameInv, Attribution, Consistent, Settled, Waits, Frame
  <2> QED  BY <1>1, <1>3, <1>6, <2>1 DEF Addressed, Abandoned, Misled
<1>7. \A q \in Runs : gateway[q] \in {"answering"} \cup Settled => gateway'[q] = gateway[q]
  BY <1>2, <1>3 DEF Settled
<1>8. \A q, p \in Runs : decidedBy'[q] = p => decidedBy[q] = p /\ verdict'[q] = verdict[q]
  BY <1>1
<1> QED  BY <1>4, <1>5, <1>6, <1>7, <1>8, FramesKeep

\* A stream that ends inside the receive loop keeps the second layer.
LEMMA CutFrames ==
  ASSUME StreamInv, FrameInv, NEW r \in Runs, Cut(r)
  PROVE  FrameInv'
<1>1. TypeOK /\ Progress(r)
  BY DEF StreamInv
<1>2. lease[r] \in Conns /\ Close(lease[r]) /\ pc[r] = "reading"
  BY <1>1 DEF Cut, TypeOK
<1>3. OldFrames /\ inbox'[lease[r]] = <<>>
  BY <1>1, <1>2, CloseEmpties
<1>4. /\ verdict' = [verdict EXCEPT ![r] = "cut"] /\ decidedBy' = [decidedBy EXCEPT ![r] = NoRun]
      /\ pc' = [pc EXCEPT ![r] = "over"] /\ lease' = [lease EXCEPT ![r] = NoConn]
      /\ gateway' = gateway
  BY DEF Cut, Conclude, GoTo
<1>5. /\ decidedBy'[r] = NoRun
      /\ \A q \in Runs \ {r} : /\ pc'[q] = pc[q] /\ lease'[q] = lease[q]
                               /\ verdict'[q] = verdict[q] /\ decidedBy'[q] = decidedBy[q]
  BY <1>1, <1>4 DEF TypeOK
<1>6. ~Abandoned(r)
  BY <1>1, <1>2 DEF Abandoned, Misled, Progress
<1>7. \A q \in Runs : Abandoned(q) => Abandoned(q)'
  BY <1>5, <1>6 DEF Abandoned, Misled
<1>8. ASSUME NEW k \in Conns, NEW f \in Frame, Waits(k, f)', Addressed(k, f)
      PROVE  Addressed(k, f)'
  <2>1. k # lease[r]
    BY <1>3, <1>8 DEF Waits
  <2>2. f.run = r => ~FinalReply(f)
    BY <1>6, <1>8, <2>1 DEF Addressed
  <2>3. f.run \in Runs
    BY DEF Frame
  <2> QED  BY <1>5, <1>8, <2>2, <2>3 DEF Addressed, Abandoned, Misled
<1>9. NoRun \notin Runs
  BY GatewayStreamAssumption
<1>10. StreamInv'
  BY CutKeeps
<1>11. \A q, p \in Runs : decidedBy'[q] = p => decidedBy[q] = p /\ verdict'[q] = verdict[q]
  BY <1>5, <1>9
<1>12. \A q \in Runs : gateway'[q] = gateway[q]
  BY <1>4
<1> QED  BY <1>3, <1>7, <1>8, <1>10, <1>11, <1>12, FramesKeep

\* An executor that leaves its loop keeps the second layer, if what decided it may.
LEMMA LeaveFrames ==
  ASSUME StreamInv, FrameInv, StreamInv', NEW r \in Runs, pc[r] = "reading",
         NEW how, NEW by \in Runs \cup {NoRun},
         by = NoRun => how = "left",
         by \in Runs \ {r} => Misleads(by, how) /\ Abandoned(by),
         by = r => \/ how = "left"
                   \/ \A k \in Conns, f \in Frame :
                        Waits(k, f)' /\ f.run = r => ~FinalReply(f),
         Leave(r, how, by), OldFrames, UNCHANGED <<gateway, lease>>
  PROVE  FrameInv'
<1>1. TypeOK /\ Progress(r) /\ NoRun \notin Runs
  BY GatewayStreamAssumption DEF StreamInv
<1>2. /\ pc'[r] = "left" /\ decidedBy'[r] = by /\ verdict'[r] = how
      /\ \A q \in Runs \ {r} : /\ pc'[q] = pc[q] /\ verdict'[q] = verdict[q]
                               /\ decidedBy'[q] = decidedBy[q]
  BY <1>1 DEF Leave, Conclude, GoTo, TypeOK
<1>3. ~Abandoned(r)
  BY <1>1 DEF Abandoned, Misled, Progress
<1>4. \A q \in Runs : Abandoned(q) => Abandoned(q)'
  BY <1>2, <1>3 DEF Abandoned, Misled
<1>5. ASSUME NEW k \in Conns, NEW f \in Frame, Waits(k, f)', Addressed(k, f)
      PROVE  Addressed(k, f)'
  <2>1. f.run \in Runs
    BY DEF Frame
  <2>2. CASE f.run = r
    <3>1. by = r => how = "left" \/ ~FinalReply(f)
      BY <1>5, <2>2
    <3>2. by # r \/ how = "left" => Abandoned(r)'
      BY <1>2 DEF Abandoned, Misled
    <3> QED  BY <2>2, <3>1, <3>2 DEF Addressed
  <2>3. CASE f.run # r
    BY <1>2, <1>5, <2>1, <2>3 DEF Addressed, Abandoned, Misled
  <2> QED  BY <2>2, <2>3
<1>6. ASSUME NEW q \in Runs, NEW p \in Runs, decidedBy'[q] = p, p # q
      PROVE  \/ decidedBy[q] = p /\ verdict'[q] = verdict[q]
             \/ Misleads(p, verdict'[q]) /\ Abandoned(p)
  BY <1>2, <1>6
<1>7. \A q \in Runs : gateway'[q] = gateway[q]
  OBVIOUS
<1> QED  BY <1>4, <1>5, <1>6, <1>7, FramesKeep

\* A step that decides nothing and lets no connection go.
LEMMA QuietFrames ==
  ASSUME StreamInv, FrameInv, StreamInv', OldFrames,
         UNCHANGED <<gateway, pc, lease, verdict, decidedBy>>
  PROVE  FrameInv'
<1>1. \A q \in Runs : gateway'[q] = gateway[q] /\ (Abandoned(q) => Abandoned(q)')
  BY DEF Abandoned, Misled
<1>2. \A k \in Conns : \A f \in Frame : Addressed(k, f) => Addressed(k, f)'
  BY DEF Addressed, Abandoned, Misled
<1>3. \A q, p \in Runs : decidedBy'[q] = p => decidedBy[q] = p /\ verdict'[q] = verdict[q]
  OBVIOUS
<1> QED  BY <1>1, <1>2, <1>3, FramesKeep

\* Closing the generators of an abandoned stream keeps the second layer.
LEMMA FinalizeFrames ==
  ASSUME StreamInv, FrameInv, NEW r \in Runs, Finalize(r)
  PROVE  FrameInv'
<1>1. TypeOK /\ lease[r] \in Conns /\ pc[r] = "left"
  BY DEF Finalize, TypeOK, StreamInv
<1>2. OldFrames
  <2>1. CASE Close(lease[r])
    BY <1>1, <2>1, CloseEmpties
  <2>2. CASE UNCHANGED inbox
    BY <1>1, <2>2, SameFrames
  <2> QED  BY <2>1, <2>2 DEF Finalize
<1>3. /\ pc' = [pc EXCEPT ![r] = "over"] /\ lease' = [lease EXCEPT ![r] = NoConn]
      /\ UNCHANGED <<gateway, verdict, decidedBy>>
  BY DEF Finalize, GoTo
<1>4. \A q \in Runs \ {r} : pc'[q] = pc[q] /\ lease'[q] = lease[q]
  BY <1>1, <1>3 DEF TypeOK
<1>5. \A q \in Runs : gateway'[q] = gateway[q] /\ (Abandoned(q) => Abandoned(q)')
  BY <1>3 DEF Abandoned, Misled
<1>6. ASSUME NEW k \in Conns, NEW f \in Frame, Addressed(k, f)
      PROVE  Addressed(k, f)'
  <2>1. f.run \in Runs
    BY DEF Frame
  <2> QED  BY <1>1, <1>3, <1>4, <1>6, <2>1 DEF Addressed, Abandoned, Misled
<1>7. \A q, p \in Runs : decidedBy'[q] = p => decidedBy[q] = p /\ verdict'[q] = verdict[q]
  BY <1>3
<1>8. StreamInv'
  BY FinalizeKeeps
<1> QED  BY <1>2, <1>5, <1>6, <1>7, <1>8, FramesKeep

\* When a stream reads a frame of its own, no final reply to it is left.
LEMMA ReadOwn ==
  ASSUME TypeOK, ReplyAlone, NEW k \in Conns, inbox[k] # <<>>,
         inbox' = [inbox EXCEPT ![k] = Tail(@)],
         NEW l \in Conns, NEW f \in Frame, Waits(l, f)', f.run = Head(inbox[k]).run
  PROVE  ~FinalReply(f)
<1> SUFFICES ASSUME FinalReply(f) PROVE FALSE
  OBVIOUS
<1>1. PICK i \in 1..Len(inbox'[l]) : inbox'[l][i] = f
  BY DEF Waits
<1>2. /\ Head(inbox[k]) = inbox[k][1] /\ Len(inbox[k]) \in Nat \ {0}
      /\ Len(inbox'[k]) = Len(inbox[k]) - 1
      /\ \A n \in 1..Len(inbox'[k]) : inbox'[k][n] = inbox[k][n + 1]
      /\ \A j \in Conns \ {k} : inbox'[j] = inbox[j]
  BY TailShifts
<1>3. 1 \in 1..Len(inbox[k])
  BY <1>2
<1>4. CASE l = k
  <2>1. i + 1 \in 1..Len(inbox[k]) /\ inbox[k][i + 1] = f
    BY <1>1, <1>2, <1>4
  <2>2. i + 1 = 1
    BY <1>2, <1>3, <2>1 DEF ReplyAlone
  <2> QED  BY <2>2
<1>5. CASE l # k
  <2>1. i \in 1..Len(inbox[l]) /\ inbox[l][i] = f
    BY <1>1, <1>2, <1>5
  <2> QED  BY <1>2, <1>3, <1>5, <2>1 DEF ReplyAlone
<1> QED  BY <1>4, <1>5

\* Taking a frame keeps the second layer: it is the run's own, or a foreign reply.
LEMMA ReadFrames ==
  ASSUME Attributed, StreamInv, FrameInv, NEW r \in Runs, Read(r)
  PROVE  FrameInv'
<1> DEFINE f == Head(inbox[lease[r]])
<1>1. /\ TypeOK /\ Exclusive /\ NoRun \notin Runs
      /\ lease[r] \in Conns /\ lease[r] # NoConn
      /\ inbox[lease[r]] # <<>> /\ pc[r] = "reading"
  BY GatewayStreamAssumption DEF StreamInv, Read, TypeOK
<1>2. inbox' = [inbox EXCEPT ![lease[r]] = Tail(@)]
      /\ UNCHANGED <<gateway, lease>>
  BY DEF Read, gatewayVars
<1>3. /\ OldFrames /\ f \in Frame /\ f = inbox[lease[r]][1]
      /\ Len(inbox[lease[r]]) \in Nat \ {0}
  BY <1>1, <1>2, TailShifts
<1>4. StreamInv'
  BY ReadKeeps
<1>5. ASSUME f.run = r
      PROVE  \A k \in Conns, g \in Frame : Waits(k, g)' /\ g.run = r => ~FinalReply(g)
  BY <1>1, <1>2, <1>5, ReadOwn DEF FrameInv
<1>6. Read(r) => \/ Belongs(f, r) /\ (Handle(r, f) \/ LeaveEarly(r, f))
                 \/ UNCHANGED <<pc, text, verdict, decidedBy>>
  BY DEF Read
<1> HIDE DEF f
<1>7. Waits(lease[r], f)
  <2>1. 1 \in 1..Len(inbox[lease[r]])
    BY <1>3
  <2> QED  BY <1>3, <2>1 DEF Waits
<1>8. /\ f.run \in Runs /\ f.kind \in Kinds
      /\ Shape(f) /\ Consistent(f) /\ Addressed(lease[r], f)
  BY <1>1, <1>3, <1>7 DEF Frame, FrameInv, Attribution
  \* A foreign frame that the executor takes text or its end from is a final reply.
<1>9. ASSUME Belongs(f, r), f.run # r, f.kind # "ack"
      PROVE  /\ Abandoned(f.run) /\ f.kind \in {"refused", "done"}
             /\ gateway[f.run] = IF f.kind = "refused" THEN "refused" ELSE "answered"
  <2>1. FinalReply(f)
    BY <1>3, <1>8, <1>9, AcceptedFrames DEF FinalReply
  <2>2. Abandoned(f.run)
    BY <1>1, <1>8, <1>9, <2>1 DEF Addressed, Exclusive
  <2> QED  BY <1>8, <2>1, <2>2 DEF Consistent, FinalReply
<1>10. CASE Belongs(f, r) /\ (Handle(r, f) \/ LeaveEarly(r, f))
  <2>1. CASE UNCHANGED <<pc, verdict, decidedBy>>
    BY <1>2, <1>3, <1>4, <2>1, QuietFrames
  <2>2. CASE Leave(r, "left", NoRun)
    BY <1>1, <1>2, <1>3, <1>4, <2>2, LeaveFrames
  <2>3. CASE f.kind \in {"delta", "done"} /\ Leave(r, "left", f.run)
    <3>1. f.run # r => Misleads(f.run, "left") /\ Abandoned(f.run)
      BY <1>9, <1>10, <2>3 DEF Misleads
    <3> QED  BY <1>1, <1>2, <1>3, <1>4, <1>8, <2>3, <3>1, LeaveFrames
  <2>4. CASE f.kind = "done" /\ Leave(r, "done", f.run)
    <3>1. f.run # r => Misleads(f.run, "done") /\ Abandoned(f.run)
      BY <1>9, <1>10, <2>4 DEF Misleads
    <3> QED  BY <1>1, <1>2, <1>3, <1>4, <1>5, <1>8, <2>4, <3>1, LeaveFrames
  <2>5. CASE f.kind \in {"error", "refused"} /\ Leave(r, "error", f.run)
    <3>1. f.run # r => Misleads(f.run, "error") /\ Abandoned(f.run)
      BY <1>9, <1>10, <2>5 DEF Misleads
    <3> QED  BY <1>1, <1>2, <1>3, <1>4, <1>5, <1>8, <2>5, <3>1, LeaveFrames
  <2> QED  BY <1>10, <2>1, <2>2, <2>3, <2>4, <2>5 DEF Handle, LeaveEarly
<1>11. CASE UNCHANGED <<pc, text, verdict, decidedBy>>
  BY <1>2, <1>3, <1>4, <1>11, QuietFrames
<1> QED  BY <1>6, <1>10, <1>11

\* An executor that leaves between two frames keeps the second layer.
LEMMA LeaveOnTickFrames ==
  ASSUME StreamInv, FrameInv, NEW r \in Runs, LeaveOnTick(r)
  PROVE  FrameInv'
<1>1. /\ pc[r] = "reading" /\ Leave(r, "left", NoRun) /\ UNCHANGED <<inbox, gateway, lease>>
  BY DEF LeaveOnTick, netVars, gatewayVars
<1>2. StreamInv' /\ OldFrames /\ NoRun \notin Runs
  BY <1>1, LeaveOnTickKeeps, SameFrames, GatewayStreamAssumption DEF StreamInv
<1> QED  BY <1>1, <1>2, LeaveFrames

\* A connection that the peer closes keeps the second layer.
LEMMA PeerFrames ==
  ASSUME StreamInv, FrameInv, NEW k \in Conns, PeerCloses(k)
  PROVE  FrameInv'
<1>1. TypeOK /\ StreamInv'
  BY PeerKeeps DEF StreamInv
<1>2. OldFrames
  <2>1. CASE Close(k)
    BY <1>1, <2>1, CloseEmpties
  <2>2. CASE UNCHANGED inbox
    BY <1>1, <2>2, SameFrames
  <2> QED  BY <2>1, <2>2 DEF PeerCloses
<1>3. UNCHANGED <<gateway, pc, lease, verdict, decidedBy>>
  BY DEF PeerCloses, gatewayVars, streamVars
<1> QED  BY <1>1, <1>2, <1>3, QuietFrames

\* The second layer holds at the start.
LEMMA FrameInvInit == Init => FrameInv
<1> SUFFICES ASSUME Init PROVE FrameInv
  OBVIOUS
<1>1. Attribution /\ ReplyAlone
  BY DEF Init, Attribution, Waits, ReplyAlone
<1>2. MisledOnlyByAbandoned
  BY DEF Init, MisledOnlyByAbandoned, Misled
<1> QED  BY <1>1, <1>2 DEF FrameInv

\* The second layer is inductive, given the first.
LEMMA FrameInvStep ==
  ASSUME Attributed
  PROVE  StreamInv /\ FrameInv /\ [Next]_vars => FrameInv'
<1> SUFFICES ASSUME StreamInv, FrameInv, [Next]_vars PROVE FrameInv'
  OBVIOUS
<1>1. CASE UNCHANGED vars
  <2>1. UNCHANGED <<inbox, gateway, pc, lease, verdict, decidedBy>>
    BY <1>1 DEF vars, netVars, gatewayVars, streamVars
  <2>2. StreamInv' /\ OldFrames
    BY <2>1, StreamInvStep, SameFrames DEF StreamInv
  <2> QED  BY <2>1, <2>2, QuietFrames
<1>2. ASSUME NEW r \in Runs, GatewayReplies(r) PROVE FrameInv'
  BY <1>2, RepliesFrames
<1>3. ASSUME NEW r \in Runs, GatewayDelta(r) \/ GatewayDone(r) \/ GatewayError(r) PROVE FrameInv'
  BY <1>3, AnswerFrames
<1>4. ASSUME NEW r \in Runs, Request(r) PROVE FrameInv'
  BY <1>4, RequestFrames
<1>5. ASSUME NEW r \in Runs, Read(r) PROVE FrameInv'
  BY <1>5, ReadFrames
<1>6. ASSUME NEW r \in Runs, LeaveOnTick(r) PROVE FrameInv'
  BY <1>6, LeaveOnTickFrames
<1>7. ASSUME NEW r \in Runs, TimesOut(r) \/ AssumesDone(r) \/ ConnectionEnds(r) \/ Interrupted(r)
      PROVE  FrameInv'
  BY <1>7, CutFrames DEF TimesOut, AssumesDone, ConnectionEnds, Interrupted
<1>8. ASSUME NEW r \in Runs, Finalize(r) PROVE FrameInv'
  BY <1>8, FinalizeFrames
<1>9. ASSUME NEW k \in Conns, PeerCloses(k) PROVE FrameInv'
  BY <1>9, PeerFrames
<1> QED
  BY <1>1, <1>2, <1>3, <1>4, <1>5, <1>6, <1>7, <1>8, <1>9 DEF Next

\* The frames a stream finds on a connection that served others before it are its
\* own, or say nothing that another stream could take for its own but the reply to
\* the request of an abandoned run: a refusal, or an answer.
THEOREM FrameInvariant ==
  ASSUME Attributed
  PROVE  Spec => [](StreamInv /\ FrameInv)
<1>1. StreamInv /\ FrameInv /\ [Next]_vars => (StreamInv /\ FrameInv)'
  BY StreamInvStep, FrameInvStep
<1>2. Init => StreamInv /\ FrameInv
  BY StreamInvInit, FrameInvInit
<1> QED  BY <1>1, <1>2, PTL DEF Spec

\* No event of another run ends a run.  What may is the reply to the request of a run
\* that was abandoned: its refusal, or its answer (openclaw_gateway_client.py:
\* _is_frame_for_current_run).
THEOREM OnlyAbandonedMislead ==
  ASSUME Attributed
  PROVE  Spec => []MisledOnlyByAbandoned
<1>1. FrameInv => MisledOnlyByAbandoned
  BY DEF FrameInv
<1> QED  BY <1>1, FrameInvariant, PTL

-----------------------------------------------------------------------------
\* Third layer.

\* A delta says the tokens of its run's answer up to n, after others said those up to
\* m; another frame of the run says none, and an empty end comes after all of them.
Says(f, r, m, n) ==
  IF f.run = r /\ f.kind = "delta"
    THEN m <= n /\ f.text = Chunk(r, m, n)
    ELSE /\ m = n
         /\ f.run = r /\ f.kind = "done" =>
              f.text = Answer[r] \/ (f.text = <<>> /\ m = Len(Answer[r]))

\* What the frames of an inbox say of a run: the tokens from u[0] to u[Len(q)].
Told(q, r, u) ==
  /\ u \in [0..Len(q) -> 0..Len(Answer[r])]
  /\ \A i \in 1..Len(q) : Says(q[i], r, u[i - 1], u[i])

\* A text that was taken from the first n tokens of the answer.
Matches(t, r, n) ==
  /\ n \in 0..Len(Answer[r])
  /\ ToSet(t) = ToSet(SubSeq(Answer[r], 1, n))
  /\ Exact(r) => t = SubSeq(Answer[r], 1, n)

\* Text and inbox of a run make up what was sent, all of it if they are connected.
Follows(t, q, r, s, connected) ==
  \E u : Told(q, r, u) /\ Matches(t, r, u[0]) /\ (connected => u[Len(q)] = s)

Connected(r) == gateway[r] \in {"requested", "answering"} /\ socket[lease[r]] = "leased"

Order(r) ==
  pc[r] = "reading" => Follows(text[r], inbox[lease[r]], r, sent[r], Connected(r))

Fresh(r) == pc[r] = "new" => text[r] = <<>> /\ sent[r] = 0

\* The end of an answer holds nothing else.
Ending(f) == f.kind = "done" => f.text \in {Answer[f.run], <<>>}

Endings == \A k \in Conns, f \in Frame : Waits(k, f) => Ending(f)

OrderInv ==
  /\ Endings
  /\ \A r \in Runs : Fresh(r) /\ Order(r)
  /\ OwnAnswer

\* Sequences.

\* The elements of a concatenation.
LEMMA ConcatSet ==
  ASSUME NEW S, NEW c \in Seq(S), NEW d \in Seq(S)
  PROVE  c \o d \in Seq(S) /\ ToSet(c \o d) = ToSet(c) \cup ToSet(d)
<1>1. Range(c \o d) = Range(c) \cup Range(d)
  BY RangeConcatenation
<1>2. Range(c \o d) = ToSet(c \o d) /\ Range(c) = ToSet(c) /\ Range(d) = ToSet(d)
  BY DEF Range, ToSet
<1> QED  BY <1>1, <1>2, ConcatProperties

\* The first n elements of a sequence: the first m, and the others.
LEMMA FirstPart ==
  ASSUME NEW S, NEW s \in Seq(S), NEW n \in 0..Len(s), NEW m \in 0..n
  PROVE  /\ SubSeq(s, 1, n) \in Seq(S) /\ Len(SubSeq(s, 1, n)) = n
         /\ SubSeq(s, m + 1, n) \in Seq(S) /\ Len(SubSeq(s, m + 1, n)) = n - m
         /\ \A i \in 1..n : SubSeq(s, 1, n)[i] = s[i]
         /\ \A i \in 1..n - m : SubSeq(s, m + 1, n)[i] = s[m + i]
         /\ SubSeq(s, 1, m) \o SubSeq(s, m + 1, n) = SubSeq(s, 1, n)
         /\ IsPrefix(SubSeq(s, 1, n), s)
<1>1. /\ SubSeq(s, 1, n) \in Seq(S) /\ Len(SubSeq(s, 1, n)) = n
      /\ \A i \in 1..n : SubSeq(s, 1, n)[i] = s[i]
  <2>1. /\ SubSeq(s, 1, n) \in Seq(S) /\ Len(SubSeq(s, 1, n)) = IF 1 <= n THEN n - 1 + 1 ELSE 0
        /\ \A i \in 1..n - 1 + 1 : SubSeq(s, 1, n)[i] = s[1 + i - 1]
    <3>1. \A i \in 1..n : s[i] \in S
      OBVIOUS
    <3> QED  BY <3>1, SubSeqProperties
  <2> QED  BY <2>1
<1>2. /\ SubSeq(s, m + 1, n) \in Seq(S) /\ Len(SubSeq(s, m + 1, n)) = n - m
      /\ \A i \in 1..n - m : SubSeq(s, m + 1, n)[i] = s[m + i]
  <2>1. /\ SubSeq(s, m + 1, n) \in Seq(S)
        /\ Len(SubSeq(s, m + 1, n)) = IF m + 1 <= n THEN n - (m + 1) + 1 ELSE 0
        /\ \A i \in 1..n - (m + 1) + 1 : SubSeq(s, m + 1, n)[i] = s[m + 1 + i - 1]
    <3>1. \A i \in m + 1..n : s[i] \in S
      OBVIOUS
    <3>2. m + 1 \in Int /\ n \in Int
      OBVIOUS
    <3> QED  BY <3>1, <3>2, SubSeqProperties
  <2>2. \A i \in 1..n - m : i \in 1..n - (m + 1) + 1 /\ m + 1 + i - 1 = m + i
    OBVIOUS
  <2>3. (IF m + 1 <= n THEN n - (m + 1) + 1 ELSE 0) = n - m
    OBVIOUS
  <2> QED  BY <2>1, <2>2, <2>3
<1>3. SubSeq(s, 1, m) \o SubSeq(s, m + 1, n) = SubSeq(s, 1, n)
  <2>1. 1 \in 1..Len(s) + 1 /\ m \in 1 - 1..Len(s) /\ n \in m..Len(s)
    OBVIOUS
  <2> QED  BY <2>1, ConcatAdjacentSubSeq
<1>4. SubSeq(SubSeq(s, 1, n), 1, n) = SubSeq(s, 1, n)
  BY <1>1, SubSeqFull
<1>5. n <= Len(s)
  OBVIOUS
<1> QED  BY <1>1, <1>2, <1>3, <1>4, <1>5 DEF IsPrefix

\* The elements of the first n are those of the first m and of the others.
LEMMA PartSet ==
  ASSUME NEW S, NEW s \in Seq(S), NEW n \in 0..Len(s), NEW m \in 0..n
  PROVE  ToSet(SubSeq(s, 1, n)) = ToSet(SubSeq(s, 1, m)) \cup ToSet(SubSeq(s, m + 1, n))
<1> DEFINE c == SubSeq(s, 1, m)
           d == SubSeq(s, m + 1, n)
<1>1. m \in 0..Len(s) /\ m \in 0..m
  OBVIOUS
<1>2. c \in Seq(S)
  BY <1>1, FirstPart
<1>3. d \in Seq(S) /\ c \o d = SubSeq(s, 1, n)
  BY FirstPart
<1> HIDE DEF c, d
<1>4. ToSet(c \o d) = ToSet(c) \cup ToSet(d)
  BY <1>2, <1>3, ConcatSet
<1> QED  BY <1>3, <1>4 DEF c, d

\* The elements of a prefix come first.
LEMMA PrefixElements ==
  ASSUME NEW S, NEW c \in Seq(S), NEW d \in Seq(S), IsPrefix(c, d)
  PROVE  /\ Len(c) \in 0..Len(d)
         /\ c = SubSeq(d, 1, Len(c))
         /\ \A i \in 1..Len(c) : c[i] = d[i]
<1>1. Len(c) \in 0..Len(d)
  BY DEF IsPrefix
<1>2. c = SubSeq(d, 1, Len(c))
  BY SubSeqFull DEF IsPrefix
<1>3. 0 \in 0..Len(c)
  BY <1>1
<1>4. \A i \in 1..Len(c) : SubSeq(d, 1, Len(c))[i] = d[i]
  BY <1>1, <1>3, FirstPart
<1> QED  BY <1>1, <1>2, <1>4

\* The elements of a suffix come last.
LEMMA SuffixElements ==
  ASSUME NEW S, NEW c \in Seq(S), NEW d \in Seq(S), IsSuffix(d, c)
  PROVE  /\ Len(d) \in 0..Len(c)
         /\ \A i \in 1..Len(d) : d[i] = c[Len(c) - Len(d) + i]
<1>1. \A s \in Seq(S) : Reverse(s) \in Seq(S) /\ Len(Reverse(s)) = Len(s)
  BY DEF Reverse
<1>2. \A s \in Seq(S) : \A i \in 1..Len(s) : Reverse(s)[i] = s[Len(s) - i + 1]
  BY DEF Reverse
<1>3. /\ Len(d) \in 0..Len(c)
      /\ \A i \in 1..Len(d) : Reverse(d)[i] = Reverse(c)[i]
  <2> DEFINE a == Reverse(d)
             b == Reverse(c)
  <2>1. a \in Seq(S) /\ b \in Seq(S) /\ Len(a) = Len(d) /\ Len(b) = Len(c)
    BY <1>1
  <2>2. IsPrefix(a, b)
    BY DEF IsSuffix
  <2> HIDE DEF a, b
  <2>3. Len(a) \in 0..Len(b) /\ \A i \in 1..Len(a) : a[i] = b[i]
    BY <2>1, <2>2, PrefixElements
  <2> QED  BY <2>1, <2>3 DEF a, b
<1>4. ASSUME NEW i \in 1..Len(d) PROVE d[i] = c[Len(c) - Len(d) + i]
  <2> DEFINE j == Len(d) - i + 1
  <2>1. /\ j \in 1..Len(d) /\ j \in 1..Len(c)
        /\ Len(d) - j + 1 = i /\ Len(c) - j + 1 = Len(c) - Len(d) + i
    BY <1>3
  <2> HIDE DEF j
  <2>2. Reverse(d)[j] = d[i] /\ Reverse(c)[j] = c[Len(c) - Len(d) + i]
    BY <1>2, <2>1
  <2> QED  BY <1>3, <2>1, <2>2
<1> QED  BY <1>3, <1>4

\* Whatever an event adds to a text, the text then holds what it held and what the
\* event says, and nothing else.
LEMMA IncrementalSet ==
  ASSUME NEW S, NEW c \in Seq(S), NEW d \in Seq(S)
  PROVE  /\ c \o Incremental(c, d) \in Seq(S)
         /\ ToSet(c \o Incremental(c, d)) = ToSet(c) \cup ToSet(d)
<1>1. CASE c = <<>>
  <2>1. Incremental(c, d) = d
    BY <1>1 DEF Incremental
  <2> QED  BY <2>1, ConcatSet
<1>2. CASE c # <<>> /\ IsPrefix(c, d)
  <2>1. Len(c) \in 0..Len(d) /\ c = SubSeq(d, 1, Len(c)) /\ Len(d) \in 0..Len(d)
    BY <1>2, PrefixElements
  <2>2. Incremental(c, d) = SubSeq(d, Len(c) + 1, Len(d))
    BY <1>2 DEF Incremental
  <2>3. c \o Incremental(c, d) = SubSeq(d, 1, Len(d)) /\ Incremental(c, d) \in Seq(S)
    BY <2>1, <2>2, FirstPart
  <2>4. c \o Incremental(c, d) = d
    BY <2>3, SubSeqFull
  <2>5. ToSet(c \o Incremental(c, d)) = ToSet(c) \cup ToSet(Incremental(c, d))
    BY <2>3, ConcatSet
  <2> QED  BY <2>4, <2>5
<1>3. CASE c # <<>> /\ ~IsPrefix(c, d) /\ IsSuffix(d, c)
  <2>1. Incremental(c, d) = <<>>
    BY <1>3 DEF Incremental
  <2>2. c \o Incremental(c, d) = c
    BY <2>1, ConcatEmptySeq
  <2>3. ToSet(d) \subseteq ToSet(c)
    <3>1. /\ Len(d) \in 0..Len(c)
          /\ \A i \in 1..Len(d) : d[i] = c[Len(c) - Len(d) + i]
      BY <1>3, SuffixElements
    <3>2. \A i \in 1..Len(d) : Len(c) - Len(d) + i \in 1..Len(c)
      BY <3>1
    <3>3. DOMAIN c = 1..Len(c) /\ DOMAIN d = 1..Len(d)
      OBVIOUS
    <3> QED  BY <3>1, <3>2, <3>3 DEF ToSet
  <2> QED  BY <2>2, <2>3
<1>4. CASE c # <<>> /\ ~IsPrefix(c, d) /\ ~IsSuffix(d, c)
  <2>1. Incremental(c, d) = d
    BY <1>4 DEF Incremental
  <2> QED  BY <2>1, ConcatSet
<1> QED  BY <1>1, <1>2, <1>3, <1>4

\* A text that is a part of the answer grows to the part that a delta repeats.
LEMMA IncrementalTaken ==
  ASSUME NEW S, NEW s \in Seq(S), NEW n \in 0..Len(s), NEW m \in 0..n
  PROVE  SubSeq(s, 1, m) \o Incremental(SubSeq(s, 1, m), SubSeq(s, 1, n)) = SubSeq(s, 1, n)
<1> DEFINE c == SubSeq(s, 1, m)
           d == SubSeq(s, 1, n)
<1>1. m \in 0..Len(s) /\ 0 \in 0..m /\ n \in 0..Len(s)
  OBVIOUS
<1>2. /\ c \in Seq(S) /\ Len(c) = m /\ \A i \in 1..m : c[i] = s[i]
      /\ d \in Seq(S) /\ Len(d) = n /\ \A i \in 1..n : d[i] = s[i]
  BY <1>1, FirstPart
<1> HIDE DEF c, d
<1>3. c = SubSeq(d, 1, m)
  <2>1. m \in 0..Len(d) /\ 0 \in 0..m
    BY <1>2
  <2>2. /\ SubSeq(d, 1, m) \in Seq(S) /\ Len(SubSeq(d, 1, m)) = m
        /\ \A i \in 1..m : SubSeq(d, 1, m)[i] = d[i]
    BY <1>2, <2>1, FirstPart
  <2>3. \A i \in 1..m : c[i] = SubSeq(d, 1, m)[i]
    BY <1>2, <2>2
  <2> QED  BY <1>2, <2>2, <2>3, SeqEqual
<1>4. IsPrefix(c, d)
  BY <1>2, <1>3, SubSeqFull DEF IsPrefix
<1>5. m \in 0..Len(d) /\ Len(d) \in 0..Len(d)
  BY <1>2
<1>6. c \o SubSeq(d, m + 1, Len(d)) = d
  <2>1. /\ Len(d) \in 0..Len(d) /\ m \in 0..Len(d)
        /\ SubSeq(d, 1, m) \o SubSeq(d, m + 1, Len(d)) = SubSeq(d, 1, Len(d))
    BY <1>2, <1>5, FirstPart
  <2>2. SubSeq(d, 1, Len(d)) = d
    BY <1>2, SubSeqFull
  <2> QED  BY <1>3, <2>1, <2>2
<1>7. Incremental(c, d) = IF c = <<>> THEN d ELSE SubSeq(d, m + 1, Len(d))
  BY <1>2, <1>4 DEF Incremental
<1>8. c \o Incremental(c, d) = d
  BY <1>2, <1>6, <1>7, ConcatEmptySeq
<1> QED  BY <1>8 DEF c, d

\* Nothing is added by an event without text.
LEMMA IncrementalOfNothing ==
  ASSUME NEW S, NEW c \in Seq(S)
  PROVE  c \o Incremental(c, <<>>) = c
<1>1. ~IsPrefix(c, <<>>) \/ c = <<>>
  BY EmptySeq DEF IsPrefix
<1>2. Incremental(c, <<>>) = <<>>
  BY <1>1 DEF Incremental
<1> QED  BY <1>2, ConcatEmptySeq

\* Two stretches of a sequence that are equal and adjacent are a repetition.
LEMMA Adjacent ==
  ASSUME NEW S, NEW s \in Seq(S), NEW i \in 1..Len(s), NEW l \in 1..Len(s),
         i + 2 * l <= Len(s) + 1, \A j \in 0..l - 1 : s[i + j] = s[i + l + j]
  PROVE  Repeats(s)
<1> DEFINE a == SubSeq(s, i, i + l - 1)
           b == SubSeq(s, i + l, i + 2 * l - 1)
<1>1. /\ a \in Seq(S) /\ Len(a) = l
      /\ \A j \in 1..l : a[j] = s[i + j - 1]
  <2>1. /\ a \in Seq(S)
        /\ Len(a) = IF i <= i + l - 1 THEN i + l - 1 - i + 1 ELSE 0
        /\ \A j \in 1..i + l - 1 - i + 1 : a[j] = s[i + j - 1]
    <3>1. \A j \in i..i + l - 1 : s[j] \in S
      OBVIOUS
    <3>2. i \in Int /\ i + l - 1 \in Int
      OBVIOUS
    <3> QED  BY <3>1, <3>2, SubSeqProperties
  <2>2. i <= i + l - 1 /\ i + l - 1 - i + 1 = l
    OBVIOUS
  <2> QED  BY <2>1, <2>2
<1>2. /\ b \in Seq(S) /\ Len(b) = l
      /\ \A j \in 1..l : b[j] = s[i + l + j - 1]
  <2>1. /\ b \in Seq(S)
        /\ Len(b) = IF i + l <= i + 2 * l - 1 THEN i + 2 * l - 1 - (i + l) + 1 ELSE 0
        /\ \A j \in 1..i + 2 * l - 1 - (i + l) + 1 : b[j] = s[i + l + j - 1]
    <3>1. \A j \in i + l..i + 2 * l - 1 : s[j] \in S
      OBVIOUS
    <3>2. i + l \in Int /\ i + 2 * l - 1 \in Int
      OBVIOUS
    <3> QED  BY <3>1, <3>2, SubSeqProperties
  <2>2. i + l <= i + 2 * l - 1 /\ i + 2 * l - 1 - (i + l) + 1 = l
    OBVIOUS
  <2> QED  BY <2>1, <2>2
<1>3. \A j \in 1..l : a[j] = b[j]
  <2>1. \A j \in 1..l : j - 1 \in 0..l - 1 /\ i + (j - 1) = i + j - 1
                        /\ i + l + (j - 1) = i + l + j - 1
    OBVIOUS
  <2>2. \A j \in 1..l : s[i + j - 1] = s[i + l + j - 1]
    BY <2>1
  <2> HIDE DEF a, b
  <2> QED  BY <1>1, <1>2, <2>2
<1> HIDE DEF a, b
<1>4. a = b
  BY <1>1, <1>2, <1>3, SeqEqual
<1> QED  BY <1>4 DEF Repeats, a, b

\* What an increment says is added to the text, if nothing is said twice in a row.
LEMMA IncrementalNew ==
  ASSUME NEW S, NEW s \in Seq(S), NEW n \in 0..Len(s), NEW m \in 0..n, ~Repeats(s)
  PROVE  SubSeq(s, 1, m) \o Incremental(SubSeq(s, 1, m), SubSeq(s, m + 1, n)) = SubSeq(s, 1, n)
<1> DEFINE c == SubSeq(s, 1, m)
           d == SubSeq(s, m + 1, n)
<1>1. m \in 0..Len(s) /\ 0 \in 0..m /\ n \in 0..Len(s) /\ Len(s) \in Nat
  OBVIOUS
<1>2. /\ c \in Seq(S) /\ Len(c) = m /\ \A i \in 1..m : c[i] = s[i]
      /\ d \in Seq(S) /\ Len(d) = n - m /\ \A i \in 1..n - m : d[i] = s[m + i]
      /\ c \o d = SubSeq(s, 1, n)
  BY <1>1, FirstPart
<1> HIDE DEF c, d
<1>3. CASE n = m
  <2>1. d = <<>>
    BY <1>2, <1>3, EmptySeq
  <2>2. c \o d = c
    BY <1>2, <2>1, ConcatEmptySeq
  <2> QED  BY <1>2, <2>1, <2>2, IncrementalOfNothing DEF c, d
<1>4. CASE n # m
  <2>1. ~(IsPrefix(c, d) /\ c # <<>>)
    <3> SUFFICES ASSUME IsPrefix(c, d), c # <<>> PROVE FALSE
      OBVIOUS
    <3>1. m \in 0..n - m /\ \A i \in 1..m : c[i] = d[i]
      BY <1>2, PrefixElements
    <3>2. m # 0
      BY <1>2, EmptySeq
    <3>3. \A j \in 0..m - 1 : s[1 + j] = s[1 + m + j]
      <4> SUFFICES ASSUME NEW j \in 0..m - 1 PROVE s[1 + j] = s[1 + m + j]
        OBVIOUS
      <4>1. 1 + j \in 1..m /\ 1 + j \in 1..n - m /\ m + (1 + j) = 1 + m + j
        BY <1>1, <3>1
      <4>2. c[1 + j] = s[1 + j] /\ d[1 + j] = s[1 + m + j]
        BY <1>2, <4>1
      <4> QED  BY <3>1, <4>1, <4>2
    <3>4. 1 \in 1..Len(s) /\ m \in 1..Len(s) /\ 1 + 2 * m <= Len(s) + 1
      BY <1>1, <3>1, <3>2
    <3> QED  BY <3>3, <3>4, Adjacent
  <2>2. ~IsSuffix(d, c)
    <3> SUFFICES ASSUME IsSuffix(d, c) PROVE FALSE
      OBVIOUS
    <3>0. /\ Len(d) \in 0..Len(c)
          /\ \A i \in 1..Len(d) : d[i] = c[Len(c) - Len(d) + i]
      <4>1. c \in Seq(S) /\ d \in Seq(S)
        BY <1>2
      <4> QED  BY <4>1, SuffixElements
    <3> DEFINE l == n - m
    <3>1. l \in 0..m /\ \A i \in 1..l : d[i] = c[m - l + i]
      <4>1. Len(d) = l /\ Len(c) = m
        BY <1>2
      <4> HIDE DEF l
      <4> QED  BY <3>0, <4>1
    <3>2. l # 0
      BY <1>1, <1>4
    <3>3. l \in 1..m /\ m + l = n
      BY <1>1, <3>1, <3>2
    <3>4. \A i \in 1..l : d[i] = s[m + i]
      BY <1>2
    <3> HIDE DEF l
    <3>5. \A j \in 0..l - 1 : s[m - l + 1 + j] = s[m - l + 1 + l + j]
      <4> SUFFICES ASSUME NEW j \in 0..l - 1 PROVE s[m - l + 1 + j] = s[m - l + 1 + l + j]
        OBVIOUS
      <4>1. /\ 1 + j \in 1..l /\ m - l + (1 + j) \in 1..m
            /\ m - l + (1 + j) = m - l + 1 + j /\ m + (1 + j) = m - l + 1 + l + j
        BY <1>1, <3>3
      <4>2. d[1 + j] = c[m - l + (1 + j)] /\ d[1 + j] = s[m + (1 + j)]
        BY <3>1, <3>4, <4>1
      <4>3. c[m - l + (1 + j)] = s[m - l + (1 + j)]
        BY <1>2, <4>1
      <4> QED  BY <4>1, <4>2, <4>3
    <3>6. /\ m - l + 1 \in 1..Len(s) /\ l \in 1..Len(s)
          /\ m - l + 1 + 2 * l <= Len(s) + 1
      BY <1>1, <3>3
    <3> QED  BY <3>5, <3>6, Adjacent
  <2>3. Incremental(c, d) = d
    BY <2>1, <2>2 DEF Incremental
  <2> QED  BY <1>2, <2>3 DEF c, d
<1> QED  BY <1>3, <1>4

\* What a text is taken from.

\* A text that matches holds what it should.
LEMMA MatchingText ==
  ASSUME NEW r \in Runs, NEW t \in Seq(Tokens), NEW n, Matches(t, r, n)
  PROVE  /\ ToSet(t) \subseteq ToSet(Answer[r])
         /\ Exact(r) => IsPrefix(t, Answer[r])
         /\ n = Len(Answer[r]) =>
              ToSet(t) = ToSet(Answer[r]) /\ (Exact(r) => t = Answer[r])
<1>1. Answer[r] \in Seq(Tokens) /\ n \in 0..Len(Answer[r])
  BY GatewayStreamAssumption DEF Matches
<1>2. Len(Answer[r]) \in 0..Len(Answer[r])
  BY <1>1
<1>3. SubSeq(Answer[r], 1, Len(Answer[r])) = Answer[r]
  BY <1>1, SubSeqFull
<1>4. IsPrefix(SubSeq(Answer[r], 1, n), Answer[r])
  <2>1. n \in 0..n
    BY <1>1
  <2> QED  BY <1>1, <2>1, FirstPart
<1>5. ToSet(SubSeq(Answer[r], 1, n)) \subseteq ToSet(SubSeq(Answer[r], 1, Len(Answer[r])))
  BY <1>1, <1>2, PartSet
<1> QED  BY <1>3, <1>4, <1>5 DEF Matches

\* A delta that repeats the text so far, or the whole answer.
LEMMA TakePrefix ==
  ASSUME NEW r \in Runs, NEW t \in Seq(Tokens), NEW m, NEW n \in 0..Len(Answer[r]),
         Matches(t, r, m), m <= n
  PROVE  /\ t \o Incremental(t, SubSeq(Answer[r], 1, n)) \in Seq(Tokens)
         /\ Matches(t \o Incremental(t, SubSeq(Answer[r], 1, n)), r, n)
<1> DEFINE A == Answer[r]
           d == SubSeq(A, 1, n)
<1>1. A \in Seq(Tokens) /\ m \in 0..n
  BY GatewayStreamAssumption DEF Matches
<1>2. d \in Seq(Tokens)
  BY <1>1, FirstPart
<1>3. ToSet(SubSeq(A, 1, m)) \subseteq ToSet(d)
  BY <1>1, PartSet
<1> HIDE DEF d
<1>4. /\ t \o Incremental(t, d) \in Seq(Tokens)
      /\ ToSet(t \o Incremental(t, d)) = ToSet(t) \cup ToSet(d)
  BY <1>2, IncrementalSet
<1> USE DEF d
<1>5. Exact(r) => t \o Incremental(t, d) = d
  BY <1>1, IncrementalTaken DEF Matches
<1> QED  BY <1>3, <1>4, <1>5 DEF Matches

\* A delta, in the form its run's deltas have.
LEMMA TakeDelta ==
  ASSUME NEW r \in Runs, NEW t \in Seq(Tokens), NEW m, NEW n \in 0..Len(Answer[r]),
         Matches(t, r, m), m <= n
  PROVE  /\ t \o Incremental(t, Chunk(r, m, n)) \in Seq(Tokens)
         /\ Matches(t \o Incremental(t, Chunk(r, m, n)), r, n)
<1>1. CASE r \in Cumulative
  BY <1>1, TakePrefix DEF Chunk
<1>2. CASE r \notin Cumulative
  <2> DEFINE A == Answer[r]
             d == SubSeq(A, m + 1, n)
  <2>1. A \in Seq(Tokens) /\ m \in 0..n
    BY GatewayStreamAssumption DEF Matches
  <2>2. d \in Seq(Tokens)
    BY <2>1, FirstPart
  <2>3. ToSet(SubSeq(A, 1, n)) = ToSet(SubSeq(A, 1, m)) \cup ToSet(d)
    BY <2>1, PartSet
  <2> HIDE DEF d
  <2>4. /\ t \o Incremental(t, d) \in Seq(Tokens)
        /\ ToSet(t \o Incremental(t, d)) = ToSet(t) \cup ToSet(d)
    BY <2>2, IncrementalSet
  <2> USE DEF d
  <2>5. Exact(r) => t \o Incremental(t, d) = SubSeq(A, 1, n)
    BY <1>2, <2>1, IncrementalNew DEF Matches, Exact
  <2>6. Chunk(r, m, n) = d
    BY <1>2 DEF Chunk
  <2> QED  BY <2>3, <2>4, <2>5, <2>6 DEF Matches
<1> QED  BY <1>1, <1>2

\* Inboxes that grow at their end and are read at their head.

\* A frame arrives, and says the tokens up to n.
LEMMA ToldAppend ==
  ASSUME NEW q \in Seq(Frame), NEW g \in Frame, NEW r \in Runs, NEW u, Told(q, r, u),
         NEW n \in 0..Len(Answer[r]), Says(g, r, u[Len(q)], n)
  PROVE  \E v : Told(Append(q, g), r, v) /\ v[0] = u[0] /\ v[Len(q) + 1] = n
<1> DEFINE p == Append(q, g)
           l == Len(q)
           v == [i \in 0..l + 1 |-> IF i <= l THEN u[i] ELSE n]
<1>1. l \in Nat /\ Len(p) = l + 1 /\ p[l + 1] = g /\ \A i \in 1..l : p[i] = q[i]
  BY AppendProperties
<1>2. u \in [0..l -> 0..Len(Answer[r])] /\ \A i \in 1..l : Says(q[i], r, u[i - 1], u[i])
  BY DEF Told
<1>3. Says(g, r, u[l], n)
  OBVIOUS
<1> HIDE DEF p, l
<1>4. v[l + 1] = n /\ v[l] = u[l] /\ v[0] = u[0]
  BY <1>1
<1>5. \A i \in 0..l : v[i] = u[i]
  BY <1>1
<1>6. v \in [0..l + 1 -> 0..Len(Answer[r])]
  <2>1. \A i \in 0..l + 1 : i <= l => i \in 0..l
    BY <1>1
  <2> QED  BY <1>2, <2>1
<1> HIDE DEF v
<1>7. ASSUME NEW i \in 1..l + 1 PROVE Says(p[i], r, v[i - 1], v[i])
  <2>1. CASE i = l + 1
    <3>1. i - 1 = l
      BY <1>1, <2>1
    <3> QED  BY <1>1, <1>3, <1>4, <2>1, <3>1
  <2>2. CASE i # l + 1
    <3>1. i \in 1..l /\ i \in 0..l /\ i - 1 \in 0..l
      BY <1>1, <2>2
    <3> QED  BY <1>1, <1>2, <1>5, <3>1
  <2> QED  BY <2>1, <2>2
<1>8. Told(p, r, v)
  BY <1>1, <1>6, <1>7 DEF Told
<1> QED  BY <1>4, <1>8 DEF p, l

\* A frame of another run says nothing.
LEMMA FollowsForeign ==
  ASSUME NEW q \in Seq(Frame), NEW g \in Frame, NEW r \in Runs, g.run # r,
         NEW t, NEW s, NEW connected, Follows(t, q, r, s, connected)
  PROVE  Follows(t, Append(q, g), r, s, connected)
<1>1. PICK u : Told(q, r, u) /\ Matches(t, r, u[0]) /\ (connected => u[Len(q)] = s)
  BY DEF Follows
<1>2. Len(q) \in Nat /\ Len(q) \in 0..Len(q) /\ Len(Append(q, g)) = Len(q) + 1
  BY AppendProperties
<1>3. u[Len(q)] \in 0..Len(Answer[r])
  BY <1>1, <1>2 DEF Told
<1>4. Says(g, r, u[Len(q)], u[Len(q)])
  BY DEF Says
<1>5. PICK v : Told(Append(q, g), r, v) /\ v[0] = u[0] /\ v[Len(q) + 1] = u[Len(q)]
  BY <1>1, <1>3, <1>4, ToldAppend
<1> QED  BY <1>1, <1>2, <1>5 DEF Follows

\* A frame of the run is sent on its connection.
LEMMA FollowsOwn ==
  ASSUME NEW q \in Seq(Frame), NEW g \in Frame, NEW r \in Runs, NEW t, NEW s,
         Follows(t, q, r, s, TRUE), NEW n \in 0..Len(Answer[r]), Says(g, r, s, n)
  PROVE  Follows(t, Append(q, g), r, n, TRUE)
<1>1. PICK u : Told(q, r, u) /\ Matches(t, r, u[0]) /\ u[Len(q)] = s
  BY DEF Follows
<1>2. Len(Append(q, g)) = Len(q) + 1
  BY AppendProperties
<1>3. PICK v : Told(Append(q, g), r, v) /\ v[0] = u[0] /\ v[Len(q) + 1] = n
  BY <1>1, ToldAppend
<1> QED  BY <1>1, <1>2, <1>3 DEF Follows

\* More may be sent on a connection that was lost.
LEMMA FollowsLost ==
  ASSUME NEW q, NEW r, NEW t, NEW s, NEW connected, NEW n, Follows(t, q, r, s, connected)
  PROVE  Follows(t, q, r, n, FALSE)
BY DEF Follows

\* The first frame says the tokens from m + 1 to n, and the others the rest.
LEMMA FollowsTail ==
  ASSUME NEW q \in Seq(Frame), q # <<>>, NEW r \in Runs, NEW t, NEW s, NEW connected,
         Follows(t, q, r, s, connected)
  PROVE  \E m, n : /\ Matches(t, r, m) /\ n \in 0..Len(Answer[r]) /\ Says(Head(q), r, m, n)
                   /\ \A x : Matches(x, r, n) => Follows(x, Tail(q), r, s, connected)
<1>1. PICK u : Told(q, r, u) /\ Matches(t, r, u[0]) /\ (connected => u[Len(q)] = s)
  BY DEF Follows
<1> DEFINE p == Tail(q)
           l == Len(q)
           v == [i \in 0..l - 1 |-> u[i + 1]]
<1>2. /\ l \in Nat \ {0} /\ Len(p) = l - 1 /\ Head(q) = q[1]
      /\ \A i \in 1..l - 1 : p[i] = q[i + 1]
  <2>1. Len(q) \in Nat \ {0}
    BY EmptySeq
  <2>2. Len(Tail(q)) = Len(q) - 1 /\ \A i \in 1..Len(Tail(q)) : Tail(q)[i] = q[i + 1]
    BY HeadTailProperties
  <2> QED  BY <2>1, <2>2
<1>3. u \in [0..l -> 0..Len(Answer[r])] /\ \A i \in 1..l : Says(q[i], r, u[i - 1], u[i])
  BY <1>1 DEF Told
<1> HIDE DEF p, l
<1>4. \A i \in 0..l - 1 : i + 1 \in 0..l /\ i + 1 \in 1..l /\ i + 1 - 1 = i
  BY <1>2
<1>5. v \in [0..l - 1 -> 0..Len(Answer[r])] /\ \A i \in 0..l - 1 : v[i] = u[i + 1]
  BY <1>3, <1>4
<1> HIDE DEF v
<1>6. ASSUME NEW i \in 1..l - 1 PROVE Says(p[i], r, v[i - 1], v[i])
  <2>1. i \in 0..l - 1 /\ i - 1 \in 0..l - 1 /\ i - 1 + 1 = i
    BY <1>2
  <2>2. Says(q[i + 1], r, u[i + 1 - 1], u[i + 1])
    BY <1>3, <1>4, <2>1
  <2>3. v[i - 1] = u[i] /\ v[i] = u[i + 1] /\ i + 1 - 1 = i
    BY <1>4, <1>5, <2>1
  <2> QED  BY <1>2, <2>2, <2>3
<1>7. Told(p, r, v)
  BY <1>2, <1>5, <1>6 DEF Told
<1>8. /\ 0 \in 0..l - 1 /\ l - 1 \in 0..l - 1 /\ 1 \in 1..l /\ 1 \in 0..l
      /\ 0 + 1 = 1 /\ 1 - 1 = 0 /\ l - 1 + 1 = l
  BY <1>2
<1>9. v[0] = u[1] /\ v[l - 1] = u[l] /\ u[1] \in 0..Len(Answer[r])
  BY <1>3, <1>5, <1>8
<1>10. Says(Head(q), r, u[0], u[1])
  BY <1>2, <1>3, <1>8
<1>11. connected => v[Len(p)] = s
  BY <1>1, <1>2, <1>9 DEF l
<1>12. \A x : Matches(x, r, u[1]) => Follows(x, p, r, s, connected)
  BY <1>7, <1>9, <1>11 DEF Follows
<1> QED  BY <1>1, <1>9, <1>10, <1>12 DEF p

\* What the steps do to it.

\* Frames that waited before hold what they held.
LEMMA OldEndings ==
  ASSUME Endings, OldFrames
  PROVE  Endings'
<1> SUFFICES ASSUME NEW k \in Conns, NEW f \in Frame, Waits(k, f)' PROVE Ending(f)
  BY DEF Endings, Ending
<1>1. Waits(k, f)
  BY DEF Waits, OldFrames
<1> QED  BY <1>1 DEF Endings

\* A step that leaves the connection of a run that reads alone, but may break it.
LEMMA OrderUndisturbed ==
  ASSUME NEW r \in Runs, Order(r),
         pc'[r] = "reading" =>
           /\ pc[r] = "reading" /\ text'[r] = text[r]
           /\ lease'[r] = lease[r] /\ inbox'[lease[r]] = inbox[lease[r]]
           /\ socket'[lease[r]] = "leased" => socket[lease[r]] = "leased"
           /\ gateway'[r] = gateway[r] /\ sent'[r] = sent[r]
  PROVE  Order(r)'
<1> SUFFICES ASSUME pc'[r] = "reading" PROVE Order(r)'
  BY DEF Order
<1>1. /\ text'[r] = text[r] /\ inbox'[lease'[r]] = inbox[lease[r]] /\ sent'[r] = sent[r]
      /\ Connected(r)' => Connected(r)
  BY DEF Connected
<1>2. Follows(text'[r], inbox'[lease'[r]], r, sent'[r], Connected(r)')
  BY <1>1 DEF Order, Follows
<1> QED  BY <1>2 DEF Order

\* A step that changes no text and delivers nothing.
LEMMA QuietOrder ==
  ASSUME OrderInv, OldFrames, UNCHANGED <<text, gateway, sent>>,
         \A r \in Runs : /\ decidedBy'[r] = decidedBy[r]
                         /\ verdict'[r] = "done" => verdict[r] = "done"
                         /\ pc'[r] = "new" => pc[r] = "new",
         \A r \in Runs : pc'[r] = "reading" =>
           /\ pc[r] = "reading"
           /\ lease'[r] = lease[r] /\ inbox'[lease[r]] = inbox[lease[r]]
           /\ socket'[lease[r]] = "leased" => socket[lease[r]] = "leased"
  PROVE  OrderInv'
<1> USE DEF OrderInv
<1>1. Endings'
  BY OldEndings
<1>2. ASSUME NEW r \in Runs PROVE Fresh(r)' /\ Order(r)'
  <2>1. Order(r)'
    BY OrderUndisturbed
  <2> QED  BY <2>1 DEF Fresh
<1>3. OwnAnswer'
  BY DEF OwnAnswer, Misled, Exact
<1> QED  BY <1>1, <1>2, <1>3

\* A stream that ends inside the receive loop keeps the third layer.
LEMMA CutOrder ==
  ASSUME StreamInv, OrderInv, NEW r \in Runs, Cut(r)
  PROVE  OrderInv'
<1>1. TypeOK /\ Exclusive /\ Progress(r)
  BY DEF StreamInv
<1>2. lease[r] \in Conns /\ lease[r] # NoConn /\ Close(lease[r]) /\ pc[r] = "reading"
  BY <1>1 DEF Cut, TypeOK
<1>3. /\ OldFrames
      /\ \A j \in Conns \ {lease[r]} : socket'[j] = socket[j] /\ inbox'[j] = inbox[j]
  BY <1>1, <1>2, CloseEmpties
<1>4. /\ verdict' = [verdict EXCEPT ![r] = "cut"] /\ pc' = [pc EXCEPT ![r] = "over"]
      /\ decidedBy' = [decidedBy EXCEPT ![r] = NoRun]
      /\ lease' = [lease EXCEPT ![r] = NoConn] /\ UNCHANGED <<text, gateway, sent>>
  BY DEF Cut, Conclude, GoTo
<1>5. /\ pc'[r] = "over" /\ verdict'[r] = "cut" /\ decidedBy'[r] = decidedBy[r]
      /\ \A q \in Runs \ {r} : /\ pc'[q] = pc[q] /\ lease'[q] = lease[q]
                               /\ verdict'[q] = verdict[q] /\ decidedBy'[q] = decidedBy[q]
  BY <1>1, <1>2, <1>4 DEF TypeOK, Progress
<1>6. \A q \in Runs \ {r} : pc[q] = "reading" => lease[q] \in Conns \ {lease[r]}
  BY <1>1, <1>2 DEF Exclusive, TypeOK
<1>7. ASSUME NEW q \in Runs, pc'[q] = "reading"
      PROVE  /\ pc[q] = "reading"
             /\ lease'[q] = lease[q] /\ inbox'[lease[q]] = inbox[lease[q]]
             /\ socket'[lease[q]] = "leased" => socket[lease[q]] = "leased"
  BY <1>3, <1>5, <1>6, <1>7
<1>8. \A q \in Runs : /\ decidedBy'[q] = decidedBy[q]
                      /\ verdict'[q] = "done" => verdict[q] = "done"
                      /\ pc'[q] = "new" => pc[q] = "new"
  BY <1>5
<1> QED  BY <1>3, <1>4, <1>7, <1>8, QuietOrder

\* An executor that leaves between two frames keeps the third layer.
LEMMA LeaveOnTickOrder ==
  ASSUME StreamInv, OrderInv, NEW r \in Runs, LeaveOnTick(r)
  PROVE  OrderInv'
<1>1. /\ verdict' = [verdict EXCEPT ![r] = "left"] /\ pc' = [pc EXCEPT ![r] = "left"]
      /\ decidedBy' = [decidedBy EXCEPT ![r] = NoRun] /\ pc[r] = "reading"
      /\ UNCHANGED <<socket, inbox, lease, text, gateway, sent>>
  BY DEF LeaveOnTick, Leave, Conclude, GoTo, netVars, gatewayVars
<1>2. /\ pc'[r] = "left" /\ verdict'[r] = "left" /\ decidedBy'[r] = decidedBy[r]
      /\ \A q \in Runs \ {r} : /\ pc'[q] = pc[q] /\ verdict'[q] = verdict[q]
                               /\ decidedBy'[q] = decidedBy[q]
  BY <1>1 DEF StreamInv, TypeOK, Progress
<1>3. OldFrames
  BY <1>1, SameFrames DEF StreamInv
<1> QED  BY <1>1, <1>2, <1>3, QuietOrder

\* Closing the generators of an abandoned stream keeps the third layer.
LEMMA FinalizeOrder ==
  ASSUME StreamInv, OrderInv, NEW r \in Runs, Finalize(r)
  PROVE  OrderInv'
<1>1. TypeOK /\ Exclusive
  BY DEF StreamInv
<1>2. lease[r] \in Conns /\ lease[r] # NoConn /\ pc[r] = "left"
  BY <1>1 DEF Finalize, TypeOK
<1>3. /\ OldFrames
      /\ \A j \in Conns \ {lease[r]} : socket'[j] = socket[j] /\ inbox'[j] = inbox[j]
  <2>1. CASE Close(lease[r])
    BY <1>1, <1>2, <2>1, CloseEmpties
  <2>2. CASE socket' = [socket EXCEPT ![lease[r]] = "idle"] /\ UNCHANGED <<inbox, via>>
    BY <1>1, <2>2, SameFrames DEF TypeOK
  <2> QED  BY <2>1, <2>2 DEF Finalize
<1>4. /\ pc' = [pc EXCEPT ![r] = "over"] /\ lease' = [lease EXCEPT ![r] = NoConn]
      /\ UNCHANGED <<text, gateway, sent, verdict, decidedBy>>
  BY DEF Finalize, GoTo
<1>5. pc'[r] = "over" /\ \A q \in Runs \ {r} : pc'[q] = pc[q] /\ lease'[q] = lease[q]
  BY <1>1, <1>4 DEF TypeOK
<1>6. \A q \in Runs \ {r} : pc[q] = "reading" => lease[q] \in Conns \ {lease[r]}
  BY <1>1, <1>2 DEF Exclusive, TypeOK
<1>7. ASSUME NEW q \in Runs, pc'[q] = "reading"
      PROVE  /\ pc[q] = "reading"
             /\ lease'[q] = lease[q] /\ inbox'[lease[q]] = inbox[lease[q]]
             /\ socket'[lease[q]] = "leased" => socket[lease[q]] = "leased"
  BY <1>3, <1>5, <1>6, <1>7
<1>8. \A q \in Runs : pc'[q] = "new" => pc[q] = "new"
  BY <1>5
<1> QED  BY <1>3, <1>4, <1>7, <1>8, QuietOrder

\* A connection that the peer closes keeps the third layer.
LEMMA PeerOrder ==
  ASSUME StreamInv, OrderInv, NEW k \in Conns, PeerCloses(k)
  PROVE  OrderInv'
<1>1. TypeOK /\ LeaseOpen
  BY DEF StreamInv
<1>2. UNCHANGED <<text, gateway, sent, verdict, decidedBy, pc, lease>>
  BY DEF PeerCloses, gatewayVars, streamVars
<1>3. \A q \in Runs : pc[q] = "reading" =>
        lease[q] \in Conns /\ socket[lease[q]] \in {"leased", "broken"}
  BY <1>1 DEF LeaseOpen, TypeOK
<1>4. CASE socket[k] = "idle" /\ Close(k)
  <2>1. /\ OldFrames
        /\ \A j \in Conns \ {k} : socket'[j] = socket[j] /\ inbox'[j] = inbox[j]
    BY <1>1, <1>4, CloseEmpties
  <2>2. \A q \in Runs : pc[q] = "reading" => lease[q] \in Conns \ {k}
    BY <1>3, <1>4
  <2> QED  BY <1>2, <2>1, <2>2, QuietOrder
<1>5. CASE socket' = [socket EXCEPT ![k] = "broken"] /\ UNCHANGED inbox
  <2>1. OldFrames /\ \A j \in Conns : socket'[j] = "leased" => socket[j] = "leased"
    BY <1>1, <1>5, SameFrames DEF TypeOK
  <2> QED  BY <1>2, <1>3, <1>5, <2>1, QuietOrder
<1> QED  BY <1>4, <1>5 DEF PeerCloses

\* A run's stream begins on a connection that holds nothing of it.
LEMMA RequestOrder ==
  ASSUME StreamInv, FrameInv, OrderInv, NEW r \in Runs, Request(r)
  PROVE  OrderInv'
<1> USE DEF OrderInv
<1>1. PICK k \in Conns :
        /\ socket[k] \in {"idle", "none"}
        /\ socket' = [socket EXCEPT ![k] = "leased"]
        /\ lease' = [lease EXCEPT ![r] = k]
  BY DEF Request
<1>2. /\ gateway' = [gateway EXCEPT ![r] = "requested"]
      /\ pc' = [pc EXCEPT ![r] = "reading"] /\ pc[r] = "new"
      /\ UNCHANGED <<inbox, sent, text, verdict, decidedBy>>
  BY DEF Request, GoTo
<1>3. TypeOK /\ LeaseOpen /\ gateway[r] = "none"
  BY <1>2 DEF StreamInv, Progress
<1>4. /\ lease'[r] = k /\ pc'[r] = "reading"
      /\ \A q \in Runs \ {r} : /\ lease'[q] = lease[q] /\ pc'[q] = pc[q]
                               /\ gateway'[q] = gateway[q]
      /\ \A j \in Conns \ {k} : socket'[j] = socket[j]
  BY <1>1, <1>2, <1>3 DEF TypeOK
<1>5. Endings'
  BY <1>2 DEF Endings, Ending, Waits
<1>6. ASSUME NEW q \in Runs, q # r PROVE Fresh(q)' /\ Order(q)'
  <2>1. Fresh(q)'
    BY <1>2, <1>4, <1>6 DEF Fresh
  <2>2. pc[q] = "reading" => lease[q] \in Conns \ {k}
    BY <1>1, <1>3, GatewayStreamAssumption DEF LeaseOpen, TypeOK
  <2>3. Order(q)'
    BY <1>2, <1>4, <1>6, <2>2, OrderUndisturbed
  <2> QED  BY <2>1, <2>3
<1>7. Fresh(r)'
  BY <1>4 DEF Fresh
<1>8. Order(r)'
  <2> DEFINE q == inbox[k]
             u == [i \in 0..Len(q) |-> 0]
  <2>1. q \in Seq(Frame) /\ Answer[r] \in Seq(Tokens)
    BY <1>3, GatewayStreamAssumption DEF TypeOK
  <2>2. \A i \in 1..Len(q) : q[i].run # r
    <3> SUFFICES ASSUME NEW i \in 1..Len(inbox[k]), inbox[k][i].run = r PROVE FALSE
      OBVIOUS
    <3>1. inbox[k][i] \in Frame /\ Waits(k, inbox[k][i])
      BY <1>3, WaitingFrame DEF Waits
    <3>2. gateway[inbox[k][i].run] \in {"answering"} \cup Settled
      BY <3>1 DEF FrameInv, Attribution, Consistent
    <3> QED  BY <1>3, <3>2 DEF Settled
  <2> HIDE DEF q
  <2>3. 0 \in 0..Len(Answer[r]) /\ Len(q) \in Nat
    BY <2>1
  <2>4. u \in [0..Len(q) -> 0..Len(Answer[r])] /\ u[0] = 0 /\ u[Len(q)] = 0
    BY <2>3
  <2>5. \A i \in 1..Len(q) : Says(q[i], r, u[i - 1], u[i])
    <3> SUFFICES ASSUME NEW i \in 1..Len(q) PROVE Says(q[i], r, u[i - 1], u[i])
      OBVIOUS
    <3>1. u[i - 1] = 0 /\ u[i] = 0
      <4>1. i - 1 \in 0..Len(q) /\ i \in 0..Len(q)
        BY <2>3
      <4> QED  BY <4>1
    <3> QED  BY <2>2, <3>1 DEF Says
  <2> HIDE DEF u
  <2>6. Told(q, r, u)
    BY <2>4, <2>5 DEF Told
  <2>7. Matches(<<>>, r, 0)
    <3>1. SubSeq(Answer[r], 1, 0) = <<>>
      BY <2>1, SubSeqEmpty
    <3> QED  BY <2>3, <3>1 DEF Matches
  <2>8. text'[r] = <<>> /\ sent'[r] = 0 /\ inbox'[lease'[r]] = q
    BY <1>2, <1>4 DEF Fresh, q
  <2>9. Follows(text'[r], inbox'[lease'[r]], r, sent'[r], Connected(r)')
    BY <2>4, <2>6, <2>7, <2>8 DEF Follows
  <2> QED  BY <2>9 DEF Order
<1>9. OwnAnswer'
  BY <1>2 DEF OwnAnswer, Misled, Exact
<1> QED  BY <1>5, <1>6, <1>7, <1>8, <1>9

\* What is sent of a run that reads reaches it, as long as its connection is open.
LEMMA OwnDelivery ==
  ASSUME StreamInv, NEW r \in Runs, NEW f \in Frame, NEW ks, Deliver(f, ks),
         via[r] \in ks \/ Conns \subseteq ks,
         pc[r] = "reading", gateway[r] \in {"requested", "answering"}
  PROVE  /\ lease[r] \in Conns /\ inbox[lease[r]] \in Seq(Frame)
         /\ socket[lease[r]] = "leased" => inbox'[lease[r]] = Append(inbox[lease[r]], f)
         /\ socket[lease[r]] # "leased" => inbox'[lease[r]] = inbox[lease[r]]
<1>1. TypeOK /\ Progress(r) /\ LeaseOpen
  BY DEF StreamInv
<1>2. lease[r] \in Conns /\ lease[r] # NoConn
  BY <1>1 DEF TypeOK
<1>3. via[r] = lease[r] /\ socket[lease[r]] \in {"leased", "broken"}
  BY <1>1, <1>2 DEF Progress, LeaseOpen
<1>4. lease[r] \in ks
  BY <1>2, <1>3
<1>5. IF lease[r] \in ks /\ Open(lease[r])
        THEN inbox'[lease[r]] = Append(inbox[lease[r]], f)
        ELSE inbox'[lease[r]] = inbox[lease[r]]
  BY <1>1, <1>2, DeliverAppends
<1>6. inbox[lease[r]] \in Seq(Frame)
  BY <1>1, <1>2 DEF TypeOK
<1> QED  BY <1>2, <1>3, <1>4, <1>5, <1>6 DEF Open

\* What is sent of a run, in order, leaves its inbox in order, and disturbs no other.
LEMMA SendOrder ==
  ASSUME StreamInv, OrderInv, NEW r \in Runs, NEW f \in Frame, NEW ks, NEW n,
         f.run = r, Ending(f), Deliver(f, ks), UNCHANGED <<socket, streamVars>>,
         via[r] \in ks \/ Conns \subseteq ks, gateway[r] \in {"requested", "answering"},
         \A q \in Runs \ {r} : gateway'[q] = gateway[q] /\ sent'[q] = sent[q],
         sent'[r] = n \/ gateway'[r] \in Settled,
         sent[r] \in 0..Len(Answer[r]) =>
           n \in 0..Len(Answer[r]) /\ Says(f, r, sent[r], n)
  PROVE  OrderInv'
<1> USE DEF OrderInv
<1>1. TypeOK /\ Progress(r)
  BY DEF StreamInv
<1>2. /\ \A k \in Conns : inbox'[k] = inbox[k] \/ inbox'[k] = Append(inbox[k], f)
      /\ \A k \in Conns : \A i \in 1..Len(inbox'[k]) :
           \/ i \in 1..Len(inbox[k]) /\ inbox'[k][i] = inbox[k][i]
           \/ inbox'[k][i] = f
  BY <1>1, DeliverAppends
<1>3. UNCHANGED <<pc, lease, text, verdict, decidedBy>>
  BY DEF streamVars
<1>4. Endings'
  <2> SUFFICES ASSUME NEW k \in Conns, NEW g \in Frame, Waits(k, g)' PROVE Ending(g)
    BY DEF Endings, Ending
  <2>1. Waits(k, g) \/ g = f
    BY <1>2 DEF Waits
  <2> QED  BY <2>1 DEF Endings
<1>5. Fresh(r)'
  BY <1>1, <1>3 DEF Fresh, Progress
<1>6. Order(r)'
  <2> SUFFICES ASSUME pc[r] = "reading"
               PROVE  Follows(text[r], inbox'[lease[r]], r, sent'[r], Connected(r)')
    BY <1>3 DEF Order
  <2> DEFINE q == inbox[lease[r]]
  <2>1. /\ q \in Seq(Frame)
        /\ socket[lease[r]] = "leased" => inbox'[lease[r]] = Append(q, f)
        /\ socket[lease[r]] # "leased" => inbox'[lease[r]] = q
    BY OwnDelivery
  <2>2. Follows(text[r], q, r, sent[r], Connected(r))
    BY DEF Order
  <2>3. Connected(r) <=> socket[lease[r]] = "leased"
    BY DEF Connected
  <2>4. Connected(r)' => socket[lease[r]] = "leased" /\ gateway'[r] \notin Settled
    BY <1>3 DEF Connected, Settled
  <2> HIDE DEF q
  <2>5. CASE socket[lease[r]] = "leased"
    <3>1. Follows(text[r], q, r, sent[r], TRUE)
      BY <2>2, <2>3, <2>5 DEF Follows
    <3>2. sent[r] \in 0..Len(Answer[r])
      <4>1. Len(q) \in 0..Len(q)
        BY <2>1
      <4> QED  BY <3>1, <4>1 DEF Follows, Told
    <3>3. Follows(text[r], Append(q, f), r, n, TRUE)
      BY <2>1, <3>1, <3>2, FollowsOwn
    <3>4. CASE Connected(r)'
      <4>1. sent'[r] = n
        BY <2>4, <3>4
      <4> QED  BY <2>1, <2>5, <3>3, <3>4, <4>1 DEF Follows
    <3>5. CASE ~Connected(r)'
      <4>1. Follows(text[r], Append(q, f), r, sent'[r], FALSE)
        BY <3>3, FollowsLost
      <4> QED  BY <2>1, <2>5, <3>5, <4>1 DEF Follows
    <3> QED  BY <3>4, <3>5
  <2>6. CASE socket[lease[r]] # "leased"
    <3>1. Follows(text[r], q, r, sent'[r], FALSE)
      BY <2>2, FollowsLost
    <3> QED  BY <2>1, <2>4, <2>6, <3>1 DEF Follows
  <2> QED  BY <2>5, <2>6
<1>7. ASSUME NEW q \in Runs, q # r PROVE Fresh(q)' /\ Order(q)'
  <2>1. Fresh(q)'
    BY <1>3, <1>7 DEF Fresh
  <2>2. ASSUME pc[q] = "reading"
        PROVE  Follows(text[q], inbox'[lease[q]], q, sent[q], Connected(q))
    <3>1. lease[q] \in Conns /\ inbox[lease[q]] \in Seq(Frame)
      BY <1>1, <2>2 DEF TypeOK
    <3>2. Follows(text[q], inbox[lease[q]], q, sent[q], Connected(q))
      BY <2>2 DEF Order
    <3>3. Follows(text[q], Append(inbox[lease[q]], f), q, sent[q], Connected(q))
      BY <1>7, <3>1, <3>2, FollowsForeign
    <3> QED  BY <1>2, <3>1, <3>2, <3>3
  <2>3. sent'[q] = sent[q] /\ (Connected(q)' <=> Connected(q))
    BY <1>3, <1>7 DEF Connected
  <2>4. Order(q)'
    BY <1>3, <2>2, <2>3 DEF Order, Follows
  <2> QED  BY <2>1, <2>4
<1>8. OwnAnswer'
  BY <1>3 DEF OwnAnswer, Misled, Exact
<1> QED  BY <1>4, <1>5, <1>6, <1>7, <1>8

\* The Gateway's reply to chat.send keeps the third layer.
LEMMA RepliesOrder ==
  ASSUME StreamInv, OrderInv, NEW r \in Runs, GatewayReplies(r)
  PROVE  OrderInv'
<1>1. PICK reply \in Replies :
        /\ reply = "refused" => Settle(r, "refused")
        /\ reply = "answer" => Settle(r, "answered")
        /\ reply \notin {"refused", "answer"} =>
             gateway' = [gateway EXCEPT ![r] = "answering"] /\ UNCHANGED <<via, sent>>
        /\ Deliver([run |-> r, keys |-> {"id"},
                    kind |-> IF reply = "answer" THEN "done" ELSE reply,
                    text |-> IF reply = "answer" THEN Answer[r] ELSE <<>>], {via[r]})
  BY DEF GatewayReplies
<1>2. reply \in {"ack", "refused", "answer"} /\ Answer[r] \in Seq(Tokens)
  BY GatewayStreamAssumption
<1> DEFINE kind == IF reply = "answer" THEN "done" ELSE reply
           tokens == IF reply = "answer" THEN Answer[r] ELSE <<>>
           f == [run |-> r, keys |-> {"id"}, kind |-> kind, text |-> tokens]
<1>3. f \in Frame
  <2>1. kind \in Kinds
    BY <1>2 DEF Kinds
  <2>2. tokens \in Seq(Tokens)
    BY <1>2
  <2> HIDE DEF kind, tokens
  <2> QED  BY <2>1, <2>2, EventFrame
<1>4. Deliver(f, {via[r]})
  BY <1>1
<1>5. f.run = r /\ Ending(f) /\ Says(f, r, sent[r], sent[r])
  BY <1>2 DEF Ending, Says
<1>6. gateway[r] = "requested" /\ UNCHANGED <<socket, streamVars>> /\ TypeOK
  BY DEF GatewayReplies, StreamInv
<1>7. /\ sent'[r] = sent[r] \/ gateway'[r] \in Settled
      /\ \A q \in Runs \ {r} : gateway'[q] = gateway[q] /\ sent'[q] = sent[q]
  BY <1>1, <1>2, <1>6 DEF Settle, Settled, TypeOK
<1> HIDE DEF f
<1> QED  BY <1>3, <1>4, <1>5, <1>6, <1>7, SendOrder

\* A delta keeps the third layer.
LEMMA DeltaOrder ==
  ASSUME StreamInv, OrderInv, NEW r \in Runs, GatewayDelta(r)
  PROVE  OrderInv'
<1>1. PICK n \in sent[r] + 1..Len(Answer[r]) :
        /\ sent' = [sent EXCEPT ![r] = n]
        /\ SendEvent(r, "delta", Chunk(r, sent[r], n))
  BY DEF GatewayDelta
<1>2. gateway[r] = "answering" /\ UNCHANGED <<socket, gateway, streamVars>> /\ TypeOK
  BY DEF GatewayDelta, StreamInv
<1>3. /\ sent'[r] = n /\ \A q \in Runs \ {r} : sent'[q] = sent[q]
      /\ Chunk(r, sent[r], n) \in Seq(Tokens)
  BY <1>1, <1>2, DeltaText
<1> DEFINE f == [run |-> r, keys |-> EventKeys, kind |-> "delta", text |-> Chunk(r, sent[r], n)]
           ks == IF r \in Broadcast THEN Conns ELSE {via[r]}
<1>4. f \in Frame
  BY <1>3, EventFrame DEF Kinds
<1>5. Deliver(f, ks)
  BY <1>1 DEF SendEvent
<1>6. n \in 0..Len(Answer[r]) /\ sent[r] <= n
  <2>1. Answer[r] \in Seq(Tokens) /\ sent[r] \in Nat
    BY <1>2, GatewayStreamAssumption DEF TypeOK
  <2> QED  BY <2>1
<1>7. f.run = r /\ Ending(f) /\ Says(f, r, sent[r], n)
  BY <1>6 DEF Ending, Says
<1>8. via[r] \in ks \/ Conns \subseteq ks
  OBVIOUS
<1> HIDE DEF f, ks
<1> QED  BY <1>2, <1>3, <1>4, <1>5, <1>6, <1>7, <1>8, SendOrder

\* When the empty end of an answer is sent, all of it was said.
LEMMA EndOrder ==
  ASSUME StreamInv, OrderInv, NEW r \in Runs, GatewayDone(r) \/ GatewayError(r)
  PROVE  OrderInv'
<1>1. /\ gateway[r] = "answering" /\ Settle(r, "over") /\ TypeOK
      /\ UNCHANGED <<socket, streamVars>>
  BY DEF GatewayDone, GatewayError, StreamInv
<1>2. PICK kind \in {"done", "error"}, tokens \in {Answer[r], <<>>} :
        /\ SendEvent(r, kind, tokens)
        /\ kind = "done" /\ tokens # Answer[r] => sent[r] = Len(Answer[r])
  BY DEF GatewayDone, GatewayError
<1> DEFINE f == [run |-> r, keys |-> EventKeys, kind |-> kind, text |-> tokens]
           ks == IF r \in Broadcast THEN Conns ELSE {via[r]}
<1>3. gateway'[r] \in Settled
      /\ \A q \in Runs \ {r} : gateway'[q] = gateway[q] /\ sent'[q] = sent[q]
  BY <1>1 DEF Settle, Settled, TypeOK
<1>4. Deliver(f, ks)
  BY <1>2 DEF SendEvent
<1>5. f \in Frame
  <2>1. tokens \in Seq(Tokens)
    <3>1. Answer[r] \in Seq(Tokens) /\ <<>> \in Seq(Tokens)
      BY GatewayStreamAssumption
    <3> QED  BY <3>1
  <2>2. kind \in Kinds
    BY DEF Kinds
  <2> QED  BY <2>1, <2>2, EventFrame
<1>6. f.run = r /\ Ending(f) /\ Says(f, r, sent[r], sent[r])
  BY <1>2 DEF Ending, Says
<1>7. via[r] \in ks \/ Conns \subseteq ks
  OBVIOUS
<1> HIDE DEF f, ks
<1> QED  BY <1>1, <1>3, <1>4, <1>5, <1>6, <1>7, SendOrder

\* A frame that is accepted brings the text as far as it reaches; one of another run
\* brings nothing but the other's answer.
LEMMA ReadText ==
  ASSUME Attributed, StreamInv, FrameInv, OrderInv, NEW r \in Runs, pc[r] = "reading",
         inbox[lease[r]] # <<>>, NEW f \in Frame, f = Head(inbox[lease[r]]),
         Belongs(f, r), Extend(r, f),
         NEW m, NEW n \in 0..Len(Answer[r]), Matches(text[r], r, m), Says(f, r, m, n)
  PROVE  /\ text'[r] \in Seq(Tokens)
         /\ \A q \in Runs \ {r} : text'[q] = text[q]
         /\ f.run = r => Matches(text'[r], r, IF f.kind = "done" THEN Len(Answer[r]) ELSE n)
         /\ f.run # r => /\ f.kind # "done" => text'[r] = text[r]
                         /\ ToSet(text'[r]) \subseteq ToSet(text[r]) \cup ToSet(Answer[f.run])
<1> DEFINE q == inbox[lease[r]]
<1>1. TypeOK /\ lease[r] \in Conns
  BY DEF StreamInv, TypeOK
<1>2. q \in Seq(Frame) /\ q # <<>>
  BY <1>1 DEF TypeOK
<1>3. f = q[1] /\ 1 \in 1..Len(q)
  <2>1. Len(q) \in Nat \ {0}
    BY <1>2, EmptySeq
  <2> QED  BY <1>2, <2>1
<1>4. Waits(lease[r], f)
  BY <1>3 DEF Waits
<1> HIDE DEF q
<1>5. Shape(f) /\ Ending(f)
  BY <1>1, <1>4 DEF FrameInv, Attribution, OrderInv, Endings
<1>6. f.run = r \/ f.kind \in {"ack", "refused", "done"}
  BY <1>5, AcceptedFrames
<1>7. /\ text[r] \in Seq(Tokens) /\ f.text \in Seq(Tokens) /\ Answer[r] \in Seq(Tokens)
      /\ f.kind \in Kinds /\ f.run \in Runs
  BY <1>1, GatewayStreamAssumption DEF TypeOK, Frame
<1>8. /\ \A p \in Runs \ {r} : text'[p] = text[p]
      /\ text'[r] = IF f.kind \in {"delta", "done"}
                      THEN text[r] \o Incremental(text[r], f.text) ELSE text[r]
  <2>1. text' = [text EXCEPT ![r] = IF f.kind \in {"delta", "done"}
                                      THEN text[r] \o Incremental(text[r], f.text) ELSE text[r]]
    BY DEF Extend
  <2> QED  BY <1>1, <2>1 DEF TypeOK
<1>9. text[r] \o Incremental(text[r], f.text) \in Seq(Tokens)
      /\ ToSet(text[r] \o Incremental(text[r], f.text)) = ToSet(text[r]) \cup ToSet(f.text)
  BY <1>7, IncrementalSet
<1>10. text'[r] \in Seq(Tokens)
  BY <1>7, <1>8, <1>9
<1>11. ASSUME f.run = r
       PROVE  Matches(text'[r], r, IF f.kind = "done" THEN Len(Answer[r]) ELSE n)
  <2>1. CASE f.kind = "delta"
    <3>1. m <= n /\ f.text = Chunk(r, m, n)
      BY <1>11, <2>1 DEF Says
    <3> QED  BY <1>7, <1>8, <2>1, <3>1, TakeDelta
  <2>2. CASE f.kind = "done"
    <3>1. f.text = Answer[r] \/ (f.text = <<>> /\ m = Len(Answer[r]))
      BY <1>11, <2>2 DEF Says
    <3>2. CASE f.text = Answer[r]
      <4>1. SubSeq(Answer[r], 1, Len(Answer[r])) = f.text
        BY <1>7, <3>2, SubSeqFull
      <4>2. Len(Answer[r]) \in 0..Len(Answer[r]) /\ m <= Len(Answer[r])
        BY <1>7 DEF Matches
      <4>3. Matches(text[r] \o Incremental(text[r], f.text), r, Len(Answer[r]))
        BY <1>7, <4>1, <4>2, TakePrefix
      <4> QED  BY <1>8, <2>2, <4>3
    <3>3. CASE f.text = <<>> /\ m = Len(Answer[r])
      <4>1. text'[r] = text[r]
        BY <1>7, <1>8, <2>2, <3>3, IncrementalOfNothing
      <4> QED  BY <2>2, <3>3, <4>1
    <3> QED  BY <3>1, <3>2, <3>3
  <2>3. CASE f.kind \notin {"delta", "done"}
    <3>1. m = n /\ text'[r] = text[r]
      BY <1>8, <2>3 DEF Says
    <3> QED  BY <2>3, <3>1
  <2> QED  BY <2>1, <2>2, <2>3
<1>12. ASSUME f.run # r
       PROVE  /\ f.kind # "done" => text'[r] = text[r]
              /\ ToSet(text'[r]) \subseteq ToSet(text[r]) \cup ToSet(Answer[f.run])
  <2>1. CASE f.kind # "done"
    BY <1>6, <1>8, <1>12, <2>1
  <2>2. CASE f.kind = "done" /\ f.text = Answer[f.run]
    BY <1>8, <1>9, <2>2
  <2>3. CASE f.kind = "done" /\ f.text = <<>>
    <3>1. text'[r] = text[r]
      BY <1>7, <1>8, <2>3, IncrementalOfNothing
    <3> QED  BY <2>3, <3>1
  <2> QED  BY <1>5, <2>1, <2>2, <2>3 DEF Ending
<1> QED  BY <1>8, <1>10, <1>11, <1>12

\* Taking a frame keeps the third layer: the text grows by what is missing of it.
LEMMA ReadOrder ==
  ASSUME Attributed, StreamInv, FrameInv, OrderInv, NEW r \in Runs, Read(r)
  PROVE  OrderInv'
<1> USE DEF OrderInv
<1> DEFINE f == Head(inbox[lease[r]])
           own(by) == by \in {r, NoRun}
<1>1. /\ TypeOK /\ Exclusive /\ Progress(r) /\ NoRun \notin Runs
      /\ lease[r] \in Conns /\ lease[r] # NoConn
      /\ inbox[lease[r]] # <<>> /\ pc[r] = "reading"
      /\ text[r] \in Seq(Tokens) /\ inbox[lease[r]] \in Seq(Frame)
  BY GatewayStreamAssumption DEF StreamInv, Read, TypeOK
<1>2. inbox' = [inbox EXCEPT ![lease[r]] = Tail(@)]
      /\ UNCHANGED <<socket, gateway, sent, lease>>
  BY DEF Read, gatewayVars
<1>3. /\ OldFrames /\ f \in Frame
      /\ \A j \in Conns \ {lease[r]} : inbox'[j] = inbox[j]
  BY <1>1, <1>2, TailShifts
<1>4. inbox'[lease[r]] = Tail(inbox[lease[r]])
  BY <1>1, <1>2 DEF TypeOK
<1>5. Read(r) => \/ Belongs(f, r) /\ (Handle(r, f) \/ LeaveEarly(r, f))
                 \/ ~Belongs(f, r) /\ UNCHANGED <<pc, text, verdict, decidedBy>>
  BY DEF Read
<1>6. f = Head(inbox[lease[r]])
  OBVIOUS
<1> HIDE DEF f
<1>7. f.run \in Runs /\ f.kind \in Kinds
  BY <1>3 DEF Frame
<1>8. Endings'
  BY <1>3, OldEndings
<1>9. PICK m, n : /\ Matches(text[r], r, m) /\ n \in 0..Len(Answer[r]) /\ Says(f, r, m, n)
                  /\ \A x : Matches(x, r, n) =>
                       Follows(x, Tail(inbox[lease[r]]), r, sent[r], Connected(r))
  <2>1. Follows(text[r], inbox[lease[r]], r, sent[r], Connected(r))
    BY <1>1 DEF Order
  <2> QED  BY <1>1, <1>6, <2>1, FollowsTail
<1>10. ToSet(text[r]) \subseteq ToSet(Answer[r])
  BY <1>1, <1>9, MatchingText
<1>11. decidedBy[r] = NoRun /\ verdict[r] = "none"
  BY <1>1 DEF Progress
  \* Where the step leaves the run.
<1>12. Extend(r, f) /\ Belongs(f, r) =>
         /\ \A q \in Runs \ {r} : text'[q] = text[q]
         /\ f.run = r => Matches(text'[r], r, IF f.kind = "done" THEN Len(Answer[r]) ELSE n)
         /\ f.run # r => /\ f.kind # "done" => text'[r] = text[r]
                         /\ ToSet(text'[r]) \subseteq ToSet(Answer[r]) \cup ToSet(Answer[f.run])
  BY <1>1, <1>3, <1>6, <1>9, <1>10, ReadText
<1>13. f.run # r => m = n
  BY <1>9 DEF Says
<1>14. ASSUME NEW how, NEW by, Leave(r, how, by)
       PROVE  /\ pc'[r] = "left" /\ verdict'[r] = how /\ decidedBy'[r] = by
              /\ \A q \in Runs \ {r} : /\ pc'[q] = pc[q] /\ verdict'[q] = verdict[q]
                                       /\ decidedBy'[q] = decidedBy[q]
  BY <1>1, <1>14 DEF Leave, Conclude, GoTo, TypeOK
<1>15. /\ \A q \in Runs \ {r} : /\ text'[q] = text[q] /\ pc'[q] = pc[q]
                                /\ verdict'[q] = verdict[q] /\ decidedBy'[q] = decidedBy[q]
       /\ pc'[r] \in {"reading", "left"}
       /\ pc'[r] = "reading" => Matches(text'[r], r, n)
       /\ own(decidedBy'[r]) =>
            \E l : Matches(text'[r], r, l) /\ (verdict'[r] = "done" => l = Len(Answer[r]))
       /\ ~own(decidedBy'[r]) =>
            ToSet(text'[r]) \subseteq ToSet(Answer[r]) \cup ToSet(Answer[decidedBy'[r]])
  <2>1. CASE Belongs(f, r) /\ Extend(r, f) /\ f.kind = "done" /\ Leave(r, "done", f.run)
    <3>1. own(f.run) <=> f.run = r
      BY <1>1, <1>7
    <3> HIDE DEF own
    <3> QED  BY <1>12, <1>14, <2>1, <3>1
  <2>2. CASE Belongs(f, r) /\ Extend(r, f) /\ \E how \in {"error", "left"} : Leave(r, how, f.run)
    <3>1. own(f.run) <=> f.run = r
      BY <1>1, <1>7
    <3> HIDE DEF own
    <3> QED  BY <1>12, <1>14, <2>2, <3>1
  <2>3. CASE Belongs(f, r) /\ Extend(r, f) /\ UNCHANGED <<pc, verdict, decidedBy>>
             /\ f.kind # "done"
    <3>1. Matches(text'[r], r, n)
      <4>1. CASE f.run = r
        BY <1>12, <2>3, <4>1
      <4>2. CASE f.run # r
        BY <1>9, <1>12, <1>13, <2>3, <4>2
      <4> QED  BY <4>1, <4>2
    <3> QED  BY <1>1, <1>11, <1>12, <2>3, <3>1
  <2>4. CASE Leave(r, "left", NoRun) /\ UNCHANGED text
    BY <1>9, <1>14, <2>4
  <2>5. CASE ~Belongs(f, r) /\ UNCHANGED <<pc, text, verdict, decidedBy>>
    <3>1. f.run # r
      <4>1. Belongs(f, r) \/ f.run # r \/ "id" \notin f.keys
        BY DEF Belongs
      <4>2. f.run = r => Belongs(f, r)
        BY DEF Belongs
      <4> QED  BY <2>5, <4>2
    <3> QED  BY <1>1, <1>9, <1>11, <1>13, <2>5, <3>1
  <2> HIDE DEF own
  <2>6. Handle(r, f) => /\ Extend(r, f)
                        /\ \/ f.kind = "done" /\ Leave(r, "done", f.run)
                           \/ Leave(r, "error", f.run)
                           \/ f.kind # "done" /\ UNCHANGED <<pc, verdict, decidedBy>>
    BY DEF Handle
  <2>7. LeaveEarly(r, f) => \/ Leave(r, "left", NoRun) /\ UNCHANGED text
                            \/ Leave(r, "left", f.run) /\ Extend(r, f)
    BY DEF LeaveEarly
  <2> QED  BY <1>5, <2>1, <2>2, <2>3, <2>4, <2>5, <2>6, <2>7
<1>16. ASSUME NEW q \in Runs, q # r PROVE Fresh(q)' /\ Order(q)'
  <2>1. Fresh(q)'
    BY <1>2, <1>15, <1>16 DEF Fresh
  <2>2. pc[q] = "reading" => lease[q] \in Conns \ {lease[r]}
    BY <1>1, <1>16 DEF Exclusive, TypeOK
  <2>3. Order(q)'
    BY <1>2, <1>3, <1>15, <1>16, <2>2, OrderUndisturbed
  <2> QED  BY <2>1, <2>3
<1>17. Fresh(r)'
  BY <1>15 DEF Fresh
<1>18. Order(r)'
  <2> SUFFICES ASSUME pc'[r] = "reading"
               PROVE  Follows(text'[r], inbox'[lease'[r]], r, sent'[r], Connected(r)')
    BY DEF Order
  <2>1. Follows(text'[r], Tail(inbox[lease[r]]), r, sent[r], Connected(r))
    BY <1>9, <1>15
  <2>2. inbox'[lease'[r]] = Tail(inbox[lease[r]]) /\ sent'[r] = sent[r]
        /\ Connected(r)' = Connected(r)
    BY <1>2, <1>4 DEF Connected
  <2> QED  BY <2>1, <2>2
<1>19. OwnAnswer'
  <2>1. ASSUME NEW q \in Runs, q # r
        PROVE  text'[q] = text[q] /\ verdict'[q] = verdict[q] /\ decidedBy'[q] = decidedBy[q]
    BY <1>15, <2>1
  <2>2. StreamInv'
    BY ReadKeeps
  <2>3. text'[r] \in Seq(Tokens)
    BY <2>2 DEF StreamInv, TypeOK
  <2>4. own(decidedBy'[r]) =>
          /\ ToSet(text'[r]) \subseteq ToSet(Answer[r])
          /\ verdict'[r] = "done" => ToSet(text'[r]) = ToSet(Answer[r])
          /\ Exact(r) => /\ IsPrefix(text'[r], Answer[r])
                         /\ verdict'[r] = "done" => text'[r] = Answer[r]
    <3> HIDE DEF own
    <3> QED  BY <1>15, <2>3, MatchingText
  <2>5. /\ Misled(r)' <=> ~own(decidedBy'[r])
        /\ \A q \in Runs \ {r} : Misled(q)' <=> Misled(q)
        /\ \A q \in Runs : Exact(q)' <=> Exact(q)
    BY <2>1 DEF Misled, Exact
  <2> HIDE DEF own
  <2> QED  BY <1>15, <2>1, <2>4, <2>5 DEF OwnAnswer
<1> QED  BY <1>8, <1>16, <1>17, <1>18, <1>19

\* The third layer holds at the start.
LEMMA OrderInvInit == Init => OrderInv
<1> SUFFICES ASSUME Init PROVE OrderInv
  OBVIOUS
<1>1. Endings
  BY DEF Init, Endings, Waits
<1>2. \A r \in Runs : Fresh(r) /\ Order(r)
  BY DEF Init, Fresh, Order
<1>3. OwnAnswer
  <2> SUFFICES ASSUME NEW r \in Runs
               PROVE  /\ ~Misled(r) /\ verdict[r] # "done"
                      /\ ToSet(text[r]) \subseteq ToSet(Answer[r])
                      /\ IsPrefix(text[r], Answer[r])
    BY DEF OwnAnswer
  <2>1. Answer[r] \in Seq(Tokens) /\ text[r] = <<>> /\ verdict[r] = "none"
    BY GatewayStreamAssumption DEF Init
  <2>2. 0 \in 0..Len(Answer[r]) /\ 0 \in 0..0 /\ SubSeq(Answer[r], 1, 0) = <<>>
    BY <2>1, SubSeqEmpty
  <2>3. IsPrefix(SubSeq(Answer[r], 1, 0), Answer[r])
    BY <2>1, <2>2, FirstPart
  <2>4. ToSet(<<>>) = {}
    BY DEF ToSet
  <2> QED  BY <2>1, <2>2, <2>3, <2>4 DEF Init, Misled
<1> QED  BY <1>1, <1>2, <1>3 DEF OrderInv

\* The third layer is inductive, given the other two.
LEMMA OrderInvStep ==
  ASSUME Attributed
  PROVE  StreamInv /\ FrameInv /\ OrderInv /\ [Next]_vars => OrderInv'
<1> SUFFICES ASSUME StreamInv, FrameInv, OrderInv, [Next]_vars PROVE OrderInv'
  OBVIOUS
<1>1. CASE UNCHANGED vars
  <2>1. UNCHANGED <<socket, inbox, gateway, sent, pc, lease, text, verdict, decidedBy>>
    BY <1>1 DEF vars, netVars, gatewayVars, streamVars
  <2>2. OldFrames
    BY <2>1, SameFrames DEF StreamInv
  <2> QED  BY <2>1, <2>2, QuietOrder
<1>2. ASSUME NEW r \in Runs, GatewayReplies(r) PROVE OrderInv'
  BY <1>2, RepliesOrder
<1>3. ASSUME NEW r \in Runs, GatewayDelta(r) PROVE OrderInv'
  BY <1>3, DeltaOrder
<1>4. ASSUME NEW r \in Runs, GatewayDone(r) \/ GatewayError(r) PROVE OrderInv'
  BY <1>4, EndOrder
<1>5. ASSUME NEW r \in Runs, Request(r) PROVE OrderInv'
  BY <1>5, RequestOrder
<1>6. ASSUME NEW r \in Runs, Read(r) PROVE OrderInv'
  BY <1>6, ReadOrder
<1>7. ASSUME NEW r \in Runs, LeaveOnTick(r) PROVE OrderInv'
  BY <1>7, LeaveOnTickOrder
<1>8. ASSUME NEW r \in Runs, TimesOut(r) \/ AssumesDone(r) \/ ConnectionEnds(r) \/ Interrupted(r)
      PROVE  OrderInv'
  BY <1>8, CutOrder DEF TimesOut, AssumesDone, ConnectionEnds, Interrupted
<1>9. ASSUME NEW r \in Runs, Finalize(r) PROVE OrderInv'
  BY <1>9, FinalizeOrder
<1>10. ASSUME NEW k \in Conns, PeerCloses(k) PROVE OrderInv'
  BY <1>10, PeerOrder
<1> QED
  BY <1>1, <1>2, <1>3, <1>4, <1>5, <1>6, <1>7, <1>8, <1>9, <1>10 DEF Next

\* A run's text is a part of its own answer, and the whole of it when the Gateway
\* said so, in whichever form the answer comes, whatever else its connection carries
\* and whoever had it before; a run that takes the reply to an abandoned request for
\* its own holds nothing of a third (task_executor.py: _extract_incremental_text; the
\* receive loop of the client).
THEOREM TextIsOwnAnswer ==
  ASSUME Attributed
  PROVE  Spec => []OwnAnswer
<1>1. /\ StreamInv /\ FrameInv /\ OrderInv /\ [Next]_vars
           => (StreamInv /\ FrameInv /\ OrderInv)'
      /\ Init => StreamInv /\ FrameInv /\ OrderInv
      /\ StreamInv /\ FrameInv /\ OrderInv => OwnAnswer
  BY StreamInvInit, StreamInvStep, FrameInvInit, FrameInvStep, OrderInvInit,
     OrderInvStep DEF OrderInv
<1> QED  BY <1>1, PTL DEF Spec

=============================================================================
