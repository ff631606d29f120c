--------------------------- MODULE GatewayStream ----------------------------
(***************************************************************************)
(* How the answer of the Gateway reaches a run: stream_chat and its        *)
(* receive loop (services/openclaw_gateway_client.py), the adapter around  *)
(* them, and the executor's loop over the events.                          *)
(*                                                                         *)
(* A pooled connection carries one request after the other.  Frames are    *)
(* attributed to runs by what they say of themselves, since an answer may  *)
(* still be in flight when the connection is lent again: the executor may  *)
(* leave its loop early, which finalizes the generators as if the stream   *)
(* had ended well.  Time is abstracted: a timeout may strike whenever the  *)
(* code looks at the clock.  The pool (GatewayPool) is reduced to which    *)
(* connection is idle or leased, the row (RunLifecycle) to whether it has  *)
(* ended or a stop was requested.  The Gateway is external.                *)
(***************************************************************************)
EXTENDS Naturals, Sequences, SequencesExt

CONSTANTS
  Runs,
  Conversation,  \* of each run
  Answer,        \* of each run: the Gateway's answer, a sequence of tokens
  Conns,         \* as many as the pool may hold
  NoConn, NoRun,
  EventKeys,     \* what the Gateway's events say of their run
  Replies,       \* what the Gateway may reply to chat.send
  Broadcast,     \* runs whose events go to every connection
  Cumulative,    \* runs whose deltas repeat the text so far; others' are increments
  AssumeDone     \* task_assume_done_after_text_silence

Tokens == UNION {ToSet(Answer[r]) : r \in Runs}

ASSUME GatewayStreamAssumption ==
  /\ NoConn \notin Conns /\ NoRun \notin Runs
  /\ DOMAIN Conversation = Runs /\ DOMAIN Answer = Runs
  /\ \A r \in Runs : Answer[r] \in Seq(Tokens)
  /\ EventKeys \subseteq {"runId", "sessionKey"}
  /\ Replies \subseteq {"ack", "refused", "answer"}
  /\ Broadcast \subseteq Runs /\ Cumulative \subseteq Runs /\ AssumeDone \in BOOLEAN

VARIABLES
  socket,     \* of each connection: none, idle, leased, or broken while leased
  inbox,      \* frames that arrived and were not read
  gateway,    \* what the Gateway does with each run's request
  via,        \* the connection it was made on
  sent,       \* tokens sent as deltas
  pc,         \* where the stream of each run is
  lease,      \* the connection it has
  text,       \* assistant_content
  verdict,    \* how the stream ended
  decidedBy   \* whose frame it took last when it ended

netVars == <<socket, inbox>>
gatewayVars == <<gateway, via, sent>>
streamVars == <<pc, lease, text, verdict, decidedBy>>
vars == <<netVars, gatewayVars, streamVars>>

Kinds == {"ack", "refused", "delta", "done", "error"}
Frame == [run : Runs, keys : SUBSET (EventKeys \cup {"id"}), kind : Kinds, text : Seq(Tokens)]
Verdicts == {"none", "done", "error", "cut", "left"}
\* The Gateway has nothing more to say of a request: all was said in events, or in
\* its reply.
Settled == {"over", "refused", "answered"}

TypeOK ==
  /\ socket \in [Conns -> {"none", "idle", "leased", "broken"}]
  /\ inbox \in [Conns -> Seq(Frame)]
  /\ gateway \in [Runs -> {"none", "requested", "answering"} \cup Settled]
  /\ via \in [Runs -> Conns \cup {NoConn}]
  /\ sent \in [Runs -> Nat]
  /\ pc \in [Runs -> {"new", "reading", "left", "over"}]
  /\ lease \in [Runs -> Conns \cup {NoConn}]
  /\ \A r \in Runs : (lease[r] # NoConn) = (pc[r] \in {"reading", "left"})
  /\ text \in [Runs -> Seq(Tokens)]
  /\ verdict \in [Runs -> Verdicts]
  /\ decidedBy \in [Runs -> Runs \cup {NoRun}]

Init ==
  /\ socket = [k \in Conns |-> "none"]
  /\ inbox = [k \in Conns |-> <<>>]
  /\ gateway = [r \in Runs |-> "none"]
  /\ via = [r \in Runs |-> NoConn]
  /\ sent = [r \in Runs |-> 0]
  /\ pc = [r \in Runs |-> "new"]
  /\ lease = [r \in Runs |-> NoConn]
  /\ text = [r \in Runs |-> <<>>]
  /\ verdict = [r \in Runs |-> "none"]
  /\ decidedBy = [r \in Runs |-> NoRun]

-----------------------------------------------------------------------------
\* Frames.

Open(k) == k \in Conns /\ socket[k] \in {"idle", "leased"}

\* What the Gateway says on no open connection is no step.
Deliver(f, ks) ==
  /\ \E k \in ks : Open(k)
  /\ inbox' = [k \in Conns |->
                IF k \in ks /\ Open(k) THEN Append(inbox[k], f) ELSE inbox[k]]

\* Mutant: the run id is not looked at.
BelongsBySession(f, r) ==
  \/ "id" \in f.keys /\ f.run = r
  \/ "sessionKey" \in f.keys => Conversation[f.run] = Conversation[r]

\* _is_frame_for_current_run: a frame with the id of the request is the run's, and
\* so is every frame that holds no attribution that says otherwise.  An id other
\* than that of the request says nothing.  The other keys tell the same runs apart
\* as these two: the message or request, or the conversation.
Belongs(f, r) ==
  \/ "id" \in f.keys /\ f.run = r
  \/ /\ "runId" \in f.keys => f.run = r
     /\ "sessionKey" \in f.keys => Conversation[f.run] = Conversation[r]

\* Mutant: whatever comes is appended.
IncrementalAll(current, incoming) == incoming

\* _extract_incremental_text: what a delta adds to the text so far.
Incremental(current, incoming) ==
  IF current = <<>> THEN incoming
  ELSE IF IsPrefix(current, incoming)
    THEN SubSeq(incoming, Len(current) + 1, Len(incoming))
  ELSE IF IsSuffix(incoming, current) THEN <<>>
  ELSE incoming

-----------------------------------------------------------------------------
\* The Gateway.

Settle(r, how) ==
  /\ gateway' = [gateway EXCEPT ![r] = how]
  /\ via' = [via EXCEPT ![r] = NoConn]
  /\ sent' = [sent EXCEPT ![r] = 0]

\* The res frame that replies to chat.send: it accepts, refuses, or answers at once.
GatewayReplies(r) ==
  /\ gateway[r] = "requested"
  /\ \E reply \in Replies :
       /\ CASE reply = "refused" -> Settle(r, "refused")
            [] reply = "answer" -> Settle(r, "answered")
            [] OTHER -> /\ gateway' = [gateway EXCEPT ![r] = "answering"]
                        /\ UNCHANGED <<via, sent>>
       /\ Deliver([run |-> r, keys |-> {"id"},
                   kind |-> IF reply = "answer" THEN "done" ELSE reply,
                   text |-> IF reply = "answer" THEN Answer[r] ELSE <<>>], {via[r]})
  /\ UNCHANGED <<socket, streamVars>>

SendEvent(r, kind, tokens) ==
  Deliver([run |-> r, keys |-> EventKeys, kind |-> kind, text |-> tokens],
          IF r \in Broadcast THEN Conns ELSE {via[r]})

\* What a delta that says the tokens from m + 1 to n holds.
Chunk(r, m, n) == SubSeq(Answer[r], IF r \in Cumulative THEN 1 ELSE m + 1, n)

GatewayDelta(r) ==
  /\ gateway[r] = "answering"
  /\ \E n \in sent[r] + 1..Len(Answer[r]) :
       /\ sent' = [sent EXCEPT ![r] = n]
       /\ SendEvent(r, "delta", Chunk(r, sent[r], n))
  /\ UNCHANGED <<socket, gateway, via, streamVars>>

\* The final event holds the whole answer, or nothing once all deltas were sent.
GatewayDone(r) ==
  /\ gateway[r] = "answering"
  /\ Settle(r, "over")
  /\ \/ SendEvent(r, "done", Answer[r])
     \/ sent[r] = Len(Answer[r]) /\ SendEvent(r, "done", <<>>)
  /\ UNCHANGED <<socket, streamVars>>

GatewayError(r) ==
  /\ gateway[r] = "answering"
  /\ Settle(r, "over")
  /\ SendEvent(r, "error", <<>>)
  /\ UNCHANGED <<socket, streamVars>>

-----------------------------------------------------------------------------
\* Connections.

Close(k) ==
  /\ socket' = [socket EXCEPT ![k] = "none"]
  /\ inbox' = [inbox EXCEPT ![k] = <<>>]
  /\ via' = [r \in Runs |-> IF via[r] = k THEN NoConn ELSE via[r]]

\* The peer closes a connection.  The pool discards an idle one when it meets it;
\* a leased one is read to its last frame first.
PeerCloses(k) ==
  \/ /\ socket[k] = "idle"
     /\ Close(k)
     /\ UNCHANGED <<gateway, sent, streamVars>>
  \/ /\ socket[k] = "leased"
     /\ socket' = [socket EXCEPT ![k] = "broken"]
     /\ UNCHANGED <<inbox, gatewayVars, streamVars>>

-----------------------------------------------------------------------------
\* The stream of a run.

Conclude(r, how, by) ==
  /\ verdict' = [verdict EXCEPT ![r] = how]
  /\ decidedBy' = [decidedBy EXCEPT ![r] = by]

GoTo(r, where) == pc' = [pc EXCEPT ![r] = where]

\* The executor leaves its async for.  The generators are left where they are.
Leave(r, how, by) == Conclude(r, how, by) /\ GoTo(r, "left")

\* Mutant: the connection is still leased when the stream has ended.
CutKeepingLease(r) ==
  /\ pc[r] = "reading"
  /\ Conclude(r, "cut", NoRun)
  /\ GoTo(r, "over")
  /\ UNCHANGED <<netVars, gatewayVars, lease, text>>

\* The receive loop ends by itself.  The connection is tainted, closed, or both,
\* and the pool discards it.
Cut(r) ==
  /\ pc[r] = "reading"
  /\ Conclude(r, "cut", NoRun)
  /\ GoTo(r, "over")
  /\ lease' = [lease EXCEPT ![r] = NoConn]
  /\ Close(lease[r])
  /\ UNCHANGED <<gateway, sent, text>>

\* stream_chat up to the first recv.  The queue lets one run of a conversation
\* execute at a time; the pool prefers an idle connection to a new one.
Request(r) ==
  /\ pc[r] = "new"
  /\ \A q \in Runs : Conversation[q] = Conversation[r] => pc[q] # "reading"
  /\ \E k \in Conns :
       /\ \/ socket[k] = "idle"
          \/ socket[k] = "none" /\ \A j \in Conns : socket[j] # "idle"
       /\ socket' = [socket EXCEPT ![k] = "leased"]
       /\ lease' = [lease EXCEPT ![r] = k]
       /\ via' = [via EXCEPT ![r] = k]
  /\ gateway' = [gateway EXCEPT ![r] = "requested"]
  /\ GoTo(r, "reading")
  /\ UNCHANGED <<inbox, sent, text, verdict, decidedBy>>

\* The text an event adds.
Extend(r, f) ==
  text' = [text EXCEPT ![r] =
             IF f.kind \in {"delta", "done"} THEN @ \o Incremental(@, f.text) ELSE @]

\* What the executor does with an event, with the broadcast it awaits.
Handle(r, f) ==
  /\ Extend(r, f)
  /\ CASE f.kind = "done" -> Leave(r, "done", f.run)
       [] f.kind \in {"error", "refused"} -> Leave(r, "error", f.run)
       [] OTHER -> UNCHANGED <<pc, verdict, decidedBy>>

\* Before that it looks at its cancel event and at the row, and leaves if the row
\* has ended or a stop was requested.  During the broadcast the task may be
\* cancelled, or its deadline may pass, which makes it leave too.
LeaveEarly(r, f) ==
  \/ Leave(r, "left", NoRun) /\ UNCHANGED text
  \/ /\ f.kind \in {"delta", "done"}
     /\ Leave(r, "left", f.run)
     /\ Extend(r, f)

\* The next frame: dropped unless it belongs to the run.
Read(r) ==
  /\ pc[r] = "reading"
  /\ inbox[lease[r]] # <<>>
  /\ inbox' = [inbox EXCEPT ![lease[r]] = Tail(@)]
  /\ LET f == Head(inbox[lease[r]]) IN
       IF Belongs(f, r) THEN Handle(r, f) \/ LeaveEarly(r, f)
                        ELSE UNCHANGED <<pc, text, verdict, decidedBy>>
  /\ UNCHANGED <<socket, gatewayVars, lease>>

\* An event that names no run and is not a global one, a tick, is a run_status to
\* the executor, on which it may leave as well.  Else a tick changes nothing, nor
\* does a global event (health, presence...), and any number of them may come.
LeaveOnTick(r) ==
  /\ pc[r] = "reading" /\ socket[lease[r]] = "leased"
  /\ Leave(r, "left", NoRun)
  /\ UNCHANGED <<netVars, gatewayVars, lease, text>>

\* Mutant: the stream that was given up returns its connection.
TimesOutHealthy(r) ==
  /\ pc[r] = "reading"
  /\ text[r] = <<>> \/ ~AssumeDone
  /\ Leave(r, "cut", NoRun)
  /\ UNCHANGED <<netVars, gatewayVars, lease, text>>

\* No text within the first-token timeout, or no end within the response timeout.
TimesOut(r) ==
  /\ pc[r] = "reading"
  /\ text[r] = <<>> \/ ~AssumeDone
  /\ Cut(r)

\* Mutant: an assumed end does not taint the connection.
AssumesDoneHealthy(r) ==
  /\ pc[r] = "reading"
  /\ AssumeDone /\ text[r] # <<>>
  /\ Leave(r, "cut", NoRun)
  /\ UNCHANGED <<netVars, gatewayVars, lease, text>>

\* Text, and then silence: the run is assumed to be done.
AssumesDone(r) ==
  /\ pc[r] = "reading"
  /\ AssumeDone /\ text[r] # <<>>
  /\ Cut(r)

\* The connection is closed and read to its end.  A clean close after some text
\* ends the stream as if it were complete.
ConnectionEnds(r) ==
  /\ pc[r] = "reading"
  /\ socket[lease[r]] = "broken" /\ inbox[lease[r]] = <<>>
  /\ Cut(r)

\* The run's task is cancelled, or its deadline passes, in recv: the CancelledError
\* taints the connection.
Interrupted(r) == Cut(r)

\* Mutant: a connection that is closed is not released.
FinalizeOpen(r) ==
  /\ pc[r] = "left"
  /\ socket[lease[r]] = "leased"
  /\ socket' = [socket EXCEPT ![lease[r]] = "idle"]
  /\ GoTo(r, "over")
  /\ lease' = [lease EXCEPT ![r] = NoConn]
  /\ UNCHANGED <<inbox, gatewayVars, text, verdict, decidedBy>>

\* The event loop closes the generators that were left.  GeneratorExit taints
\* nothing, so the connection goes back to the pool if it is open.
Finalize(r) ==
  /\ pc[r] = "left"
  /\ IF socket[lease[r]] = "broken"
       THEN Close(lease[r])
       ELSE socket' = [socket EXCEPT ![lease[r]] = "idle"] /\ UNCHANGED <<inbox, via>>
  /\ GoTo(r, "over")
  /\ lease' = [lease EXCEPT ![r] = NoConn]
  /\ UNCHANGED <<gateway, sent, text, verdict, decidedBy>>

-----------------------------------------------------------------------------
Next ==
  \/ \E r \in Runs :
       \/ GatewayReplies(r) \/ GatewayDelta(r) \/ GatewayDone(r) \/ GatewayError(r)
       \/ Request(r) \/ Read(r) \/ LeaveOnTick(r)
       \/ TimesOut(r) \/ AssumesDone(r) \/ ConnectionEnds(r)
       \/ Interrupted(r) \/ Finalize(r)
  \/ \E k \in Conns : PeerCloses(k)

\* The loop runs what is ready.  Each turn of the receive loop looks at the clock
\* before it receives, and a recv takes one tick at most, so a stream that is back
\* in the loop again and again notices its timeout.  The Gateway owes nothing, nor
\* does anybody who may stop the run.
Fairness ==
  \A r \in Runs :
    /\ WF_vars(Read(r)) /\ WF_vars(Finalize(r))
    /\ WF_vars(TimesOut(r)) /\ WF_vars(AssumesDone(r))

Spec == Init /\ [][Next]_vars /\ Fairness

-----------------------------------------------------------------------------
\* Properties.

\* The last frame its executor took was of another run.
Misled(r) == decidedBy[r] \notin {r, NoRun}

\* A part of an answer is said twice in a row.
Repeats(a) ==
  \E i, n \in 1..Len(a) :
    i + 2 * n <= Len(a) + 1 /\ SubSeq(a, i, i + n - 1) = SubSeq(a, i + n, i + 2 * n - 1)

\* Deltas that repeat the text so far can be told from it, and so can increments that
\* do not repeat what just precedes them.
Exact(r) == r \in Cumulative \/ ~Repeats(Answer[r])

\* A run's text is its own answer, whatever else its connection carries: a part of
\* it, in order and without a gap or a repetition, and all of it once the Gateway
\* said that it is complete.  If the answer repeats itself and comes in increments,
\* some of these may be missing from the text or come twice, but only such as the
\* text holds.  A run that took the answer of another holds nothing of a third.
OwnAnswer ==
  \A r \in Runs :
    /\ Misled(r) => ToSet(text[r]) \subseteq ToSet(Answer[r]) \cup ToSet(Answer[decidedBy[r]])
    /\ ~Misled(r) =>
         /\ ToSet(text[r]) \subseteq ToSet(Answer[r])
         /\ verdict[r] = "done" => ToSet(text[r]) = ToSet(Answer[r])
         /\ Exact(r) => /\ IsPrefix(text[r], Answer[r])
                        /\ verdict[r] = "done" => text[r] = Answer[r]

\* The executor of q left while its request might still be worked on.
Abandoned(q) ==
  verdict[q] = "left" \/ Misled(q)

InFlight(r) == via[r] # NoConn /\ gateway[r] \in {"requested", "answering"}

\* The Gateway works on two requests of one connection only if the executor of one
\* of them left its loop: no other end of a stream, be it a timeout, an assumed end
\* or an error, returns a connection with a request in flight.
OverlapNeedsLeaver ==
  \A q, r \in Runs :
    q # r /\ InFlight(q) /\ InFlight(r) /\ via[q] = via[r] => Abandoned(q) \/ Abandoned(r)

\* A frame of another run ends a run only if it is what the Gateway replied to the
\* request of an abandoned run: a refusal makes the run fail, and an answer is taken
\* for the run's own.  No event of another run ends it.
MisledOnlyByAbandoned ==
  \A r \in Runs :
    Misled(r) =>
      /\ Abandoned(decidedBy[r])
      /\ \/ gateway[decidedBy[r]] = "refused" /\ verdict[r] = "error"
         \/ gateway[decidedBy[r]] = "answered" /\ verdict[r] \in {"done", "left"}

\* backend/README.md:200 and :202: whether the Gateway stays silent, sends ticks
\* only, or stops in the middle, the stream ends and its connection is returned.
StreamEnds ==
  \A r \in Runs : pc[r] \in {"reading", "left"} ~> pc[r] = "over"

=============================================================================
