---------------------------- MODULE GatewayPool -----------------------------
(***************************************************************************)
(* The pool of authenticated Gateway WebSockets                            *)
(* (services/gateway_connection_pool.py).  A client is a stream_chat call: *)
(* it acquires a connection, uses it alone, and releases or discards it.   *)
(*                                                                         *)
(* The pool's lock is never held across an await (Condition.wait gives it  *)
(* up), so its blocks run without a switch; an action is what happens      *)
(* between two awaits that do suspend: waiting for the condition, for the  *)
(* capacity semaphore, for connect_fn or for a socket to close.  The ages  *)
(* of idle connections are abstracted: the oldest ones may be stale.       *)
(***************************************************************************)
EXTENDS Integers, Sequences, FiniteSets, SequencesExt

CONSTANTS
  Clients,       \* stream_chat calls
  Conns,         \* identities of connections
  NoConn,
  MaxSize,       \* gateway_pool_max_size
  CancelPoints   \* the awaits at which a client's task may be cancelled

ASSUME GatewayPoolAssumption ==
  /\ NoConn \notin Conns
  /\ MaxSize \in Nat \ {0}
  /\ CancelPoints \subseteq {"waiting", "sweeping", "capacity", "connecting", "closing"}

VARIABLES
  idle,          \* _idle, oldest first
  all,           \* _all
  active,        \* _active
  reserved,      \* _reserved
  capacity,      \* free permits of _capacity
  shuttingDown,  \* _shutting_down
  toClose,       \* what the shutdown has still to close
  socket,        \* of each connection: none, open, broken by the peer, or stranded,
                 \* open when the client that opened or was closing it has gone
  pc,            \* what each client is doing
  conn,          \* the connection it has, or is closing
  stale,         \* idle connections it found stale and has not discarded yet
  owes,          \* it will release a capacity permit once conn is closed
  notified       \* clients the condition has woken up

poolVars == <<idle, all, active, reserved, capacity>>
clientVars == <<pc, conn, stale, owes>>
shutdownVars == <<shuttingDown, toClose>>
vars == <<poolVars, shutdownVars, socket, clientVars, notified>>

Creating == {"capacity", "connecting"}
Acquiring == Creating \cup {"waiting", "sweeping", "again"}
States == Acquiring \cup {"out", "leased", "closing"}
SocketStates == {"none", "open", "broken", "stranded"}

TypeOK ==
  /\ idle \in Seq(Conns)
  /\ all \subseteq Conns /\ active \subseteq Conns /\ toClose \subseteq Conns
  /\ reserved \in Nat
  /\ capacity \in 0..MaxSize
  /\ shuttingDown \in BOOLEAN
  /\ socket \in [Conns -> SocketStates]
  /\ pc \in [Clients -> States]
  /\ conn \in [Clients -> Conns \cup {NoConn}]
  /\ stale \in [Clients -> Seq(Conns)]
  /\ owes \in [Clients -> BOOLEAN]
  /\ notified \subseteq Clients

Init ==
  /\ idle = <<>> /\ all = {} /\ active = {}
  /\ reserved = 0
  /\ capacity = MaxSize
  /\ shuttingDown = FALSE /\ toClose = {}
  /\ socket = [k \in Conns |-> "none"]
  /\ pc = [c \in Clients |-> "out"]
  /\ conn = [c \in Clients |-> NoConn]
  /\ stale = [c \in Clients |-> <<>>]
  /\ owes = [c \in Clients |-> FALSE]
  /\ notified = {}

-----------------------------------------------------------------------------
Sleepers == {c \in Clients : pc[c] = "waiting"}
NotifyAll == notified' = notified \cup Sleepers

Room == Cardinality(all) + reserved < MaxSize

Unused ==
  {k \in Conns : /\ socket[k] = "none" /\ k \notin all /\ k \notin toClose
                 /\ \A c \in Clients : conn[c] # k /\ k \notin ToSet(stale[c])}

GoTo(c, where) == pc' = [pc EXCEPT ![c] = where]

\* Mutant: whoever is asleep is left asleep.
DropQuietly(c, k) ==
  /\ all' = all \ {k}
  /\ active' = active \ {k}
  /\ conn' = [conn EXCEPT ![c] = k]
  /\ owes' = [owes EXCEPT ![c] = k \in all]
  /\ UNCHANGED notified

\* Mutant: the permit goes back although somebody else has released it.
DropTwice(c, k) ==
  /\ all' = all \ {k}
  /\ active' = active \ {k}
  /\ conn' = [conn EXCEPT ![c] = k]
  /\ owes' = [owes EXCEPT ![c] = TRUE]
  /\ NotifyAll

\* discard up to the await of the close: client c takes k out of the books.
Drop(c, k) ==
  /\ all' = all \ {k}
  /\ active' = active \ {k}
  /\ conn' = [conn EXCEPT ![c] = k]
  /\ owes' = [owes EXCEPT ![c] = k \in all]
  /\ NotifyAll

\* discard after the await: the socket is closed, a permit that is owed goes back.
Closed(c) ==
  /\ socket' = [socket EXCEPT ![conn[c]] = "none"]
  /\ capacity' = IF owes[c] THEN capacity + 1 ELSE capacity

-----------------------------------------------------------------------------
\* acquire: the block that looks for a connection or for room.  A client runs it
\* when it comes, when it was woken up and after it has swept stale connections.

Looks(c) == pc[c] \in {"out", "again"} \/ (pc[c] = "waiting" /\ c \in notified)

Awake(c) == notified' = notified \ {c}

Refused(c) ==
  /\ Looks(c) /\ pc[c] # "out" /\ shuttingDown
  /\ GoTo(c, "out") /\ Awake(c)
  /\ UNCHANGED <<poolVars, shutdownVars, socket, conn, stale, owes>>

\* Mutant: the leased connection stays in the queue of idle ones.
LeaseKeepingIdle(c) ==
  /\ Looks(c) /\ ~shuttingDown
  /\ \E n \in 1..Len(idle) :
       /\ socket[idle[n]] = "open"
       /\ active' = active \cup {idle[n]}
       /\ conn' = [conn EXCEPT ![c] = idle[n]]
  /\ GoTo(c, "leased") /\ Awake(c)
  /\ UNCHANGED <<idle, all, reserved, capacity, shutdownVars, socket, stale, owes>>

\* The first n - 1 idle connections are stale, the n-th is reusable.
Lease(c) ==
  /\ Looks(c) /\ ~shuttingDown
  /\ \E n \in 1..Len(idle) :
       /\ socket[idle[n]] = "open"
       /\ active' = active \cup {idle[n]}
       /\ conn' = [conn EXCEPT ![c] = idle[n]]
       /\ idle' = SubSeq(idle, n + 1, Len(idle))
  /\ GoTo(c, "leased") /\ Awake(c)
  /\ UNCHANGED <<all, reserved, capacity, shutdownVars, socket, stale, owes>>

\* All idle connections are stale: they are discarded one by one.  If there is
\* room, should_create is set and counted first, and forgotten by the continue.
Sweep(c) ==
  /\ Looks(c) /\ ~shuttingDown
  /\ idle # <<>>
  /\ idle' = <<>>
  /\ reserved' = IF Room THEN reserved + 1 ELSE reserved
  /\ all' = all \ {Head(idle)}
  /\ active' = active \ {Head(idle)}
  /\ conn' = [conn EXCEPT ![c] = Head(idle)]
  /\ owes' = [owes EXCEPT ![c] = TRUE]
  /\ stale' = [stale EXCEPT ![c] = Tail(idle)]
  /\ GoTo(c, "sweeping")
  /\ notified' = (notified \cup Sleepers) \ {c}
  /\ UNCHANGED <<capacity, shutdownVars, socket>>

SweepNext(c) ==
  /\ pc[c] = "sweeping"
  /\ Closed(c)
  /\ IF stale[c] = <<>>
       THEN /\ GoTo(c, "again")
            /\ conn' = [conn EXCEPT ![c] = NoConn]
            /\ owes' = [owes EXCEPT ![c] = FALSE]
            /\ NotifyAll
            /\ UNCHANGED <<all, active, stale>>
       ELSE /\ Drop(c, Head(stale[c]))
            /\ stale' = [stale EXCEPT ![c] = Tail(@)]
            /\ UNCHANGED pc
  /\ UNCHANGED <<idle, reserved, shutdownVars>>

\* Mutant: the books are not consulted, the permits are trusted to be enough.
ReserveUnchecked(c) ==
  /\ Looks(c) /\ ~shuttingDown
  /\ idle = <<>>
  /\ reserved' = reserved + 1
  /\ GoTo(c, "capacity") /\ Awake(c)
  /\ UNCHANGED <<idle, all, active, capacity, shutdownVars, socket, conn, stale, owes>>

\* Nothing is idle and there is room: reserve it, and take a permit if one is free.
Reserve(c) ==
  /\ Looks(c) /\ ~shuttingDown
  /\ idle = <<>> /\ Room
  /\ reserved' = reserved + 1
  /\ IF capacity > 0 /\ \A d \in Clients : pc[d] # "capacity"
       THEN GoTo(c, "connecting") /\ capacity' = capacity - 1
       ELSE GoTo(c, "capacity") /\ UNCHANGED capacity
  /\ Awake(c)
  /\ UNCHANGED <<idle, all, active, shutdownVars, socket, conn, stale, owes>>

\* Nothing is idle and there is no room: sleep, or give up at the deadline.
Sleep(c) ==
  /\ Looks(c) /\ ~shuttingDown
  /\ idle = <<>> /\ ~Room
  /\ GoTo(c, "waiting") /\ Awake(c)
  /\ UNCHANGED <<poolVars, shutdownVars, socket, conn, stale, owes>>

TimeOut(c) ==
  /\ pc[c] = "waiting"
  /\ GoTo(c, "out") /\ Awake(c)
  /\ UNCHANGED <<poolVars, shutdownVars, socket, conn, stale, owes>>

-----------------------------------------------------------------------------
\* _create_reserved_connection

GetPermit(c) ==
  /\ pc[c] = "capacity" /\ capacity > 0
  /\ capacity' = capacity - 1
  /\ GoTo(c, "connecting")
  /\ UNCHANGED <<idle, all, active, reserved, shutdownVars, socket, conn, stale, owes, notified>>

Unreserved == reserved' = IF reserved > 0 THEN reserved - 1 ELSE 0

\* Mutant: the reservation of a connect that failed is not returned.
ConnectFailsReserved(c) ==
  /\ pc[c] = "connecting"
  /\ capacity' = capacity + 1
  /\ GoTo(c, "out") /\ NotifyAll
  /\ UNCHANGED <<idle, all, active, reserved, shutdownVars, socket, conn, stale, owes>>

ConnectFails(c) ==
  /\ pc[c] = "connecting"
  /\ Unreserved /\ capacity' = capacity + 1
  /\ GoTo(c, "out") /\ NotifyAll
  /\ UNCHANGED <<idle, all, active, shutdownVars, socket, conn, stale, owes>>

\* The connection is up: it is leased, or closed again if the pool shuts down.
Connected(c) ==
  /\ pc[c] = "connecting"
  /\ Unreserved
  /\ Unused # {}
  /\ LET k == CHOOSE k \in Unused : TRUE IN
       /\ socket' = [socket EXCEPT ![k] = "open"]
       /\ conn' = [conn EXCEPT ![c] = k]
       /\ IF shuttingDown
            THEN /\ GoTo(c, "closing") /\ owes' = [owes EXCEPT ![c] = TRUE]
                 /\ UNCHANGED <<all, active>>
            ELSE /\ GoTo(c, "leased") /\ UNCHANGED owes
                 /\ all' = all \cup {k} /\ active' = active \cup {k}
  /\ NotifyAll
  /\ UNCHANGED <<idle, capacity, shutdownVars, stale>>

-----------------------------------------------------------------------------
\* The end of a lease.

\* A healthy connection the pool still knows goes back to the idle ones,
Release(c) ==
  /\ pc[c] = "leased"
  /\ socket[conn[c]] = "open" /\ conn[c] \in all /\ ~shuttingDown
  /\ active' = active \ {conn[c]}
  /\ idle' = Append(idle, conn[c])
  /\ conn' = [conn EXCEPT ![c] = NoConn]
  /\ GoTo(c, "out") /\ NotifyAll
  /\ UNCHANGED <<all, reserved, capacity, shutdownVars, socket, stale, owes>>

\* any other one, and one whose stream ended in doubt, is discarded.
Discard(c) ==
  /\ pc[c] = "leased"
  /\ Drop(c, conn[c])
  /\ GoTo(c, "closing")
  /\ UNCHANGED <<idle, reserved, capacity, shutdownVars, socket, stale>>

\* Mutant: the permit is kept when the socket has been closed.
FinishCloseKeepingPermit(c) ==
  /\ pc[c] = "closing"
  /\ socket' = [socket EXCEPT ![conn[c]] = "none"]
  /\ conn' = [conn EXCEPT ![c] = NoConn]
  /\ owes' = [owes EXCEPT ![c] = FALSE]
  /\ GoTo(c, "out") /\ NotifyAll
  /\ UNCHANGED <<poolVars, shutdownVars, stale>>

FinishClose(c) ==
  /\ pc[c] = "closing"
  /\ Closed(c)
  /\ conn' = [conn EXCEPT ![c] = NoConn]
  /\ owes' = [owes EXCEPT ![c] = FALSE]
  /\ GoTo(c, "out") /\ NotifyAll
  /\ UNCHANGED <<idle, all, active, reserved, shutdownVars, stale>>

\* The peer or the network closes a socket.
PeerCloses(k) ==
  /\ socket[k] = "open"
  /\ socket' = [socket EXCEPT ![k] = "broken"]
  /\ UNCHANGED <<poolVars, shutdownVars, clientVars, notified>>

\* What a cancelled client leaves of the socket it was closing, or was opening:
\* create_gateway_connection closes that on an Exception only.
StrandedOrGone(c) ==
  \/ \E left \in {"none", "stranded"} :
       socket' = [k \in Conns |-> IF k # conn[c] THEN socket[k]
                                 ELSE IF socket[k] = "open" THEN left ELSE "none"]
  \/ /\ pc[c] = "connecting" /\ Unused # {}
     /\ socket' = [socket EXCEPT ![CHOOSE k \in Unused : TRUE] = "stranded"]

\* CancelledError is no Exception: what follows the await is skipped, be it the
\* return of a reservation and its permit, that of a permit after the close, or
\* the stale connections still to be discarded.
Cancelled(c) ==
  /\ pc[c] \in CancelPoints
  /\ StrandedOrGone(c)
  /\ conn' = [conn EXCEPT ![c] = NoConn]
  /\ owes' = [owes EXCEPT ![c] = FALSE]
  /\ stale' = [stale EXCEPT ![c] = <<>>]
  /\ GoTo(c, "out") /\ Awake(c)
  /\ UNCHANGED <<poolVars, shutdownVars>>

-----------------------------------------------------------------------------
\* shutdown, which the lifespan calls after the task queue's.

\* Mutant: only the idle connections are closed.
ShutdownIdleOnly ==
  /\ ~shuttingDown
  /\ shuttingDown' = TRUE
  /\ toClose' = ToSet(idle)
  /\ idle' = <<>> /\ active' = {} /\ all' = {}
  /\ NotifyAll
  /\ UNCHANGED <<reserved, capacity, socket, clientVars>>

Shutdown ==
  /\ ~shuttingDown
  /\ shuttingDown' = TRUE
  /\ toClose' = all
  /\ idle' = <<>> /\ active' = {} /\ all' = {}
  /\ NotifyAll
  /\ UNCHANGED <<reserved, capacity, socket, clientVars>>

ShutdownClose(k) ==
  /\ k \in toClose
  /\ toClose' = toClose \ {k}
  /\ socket' = [socket EXCEPT ![k] = "none"]
  /\ capacity' = IF capacity < MaxSize THEN capacity + 1 ELSE capacity
  /\ UNCHANGED <<idle, all, active, reserved, shuttingDown, clientVars, notified>>

-----------------------------------------------------------------------------
Look(c) == Refused(c) \/ Lease(c) \/ Sweep(c) \/ Reserve(c) \/ Sleep(c)

Connect(c) == ConnectFails(c) \/ Connected(c)

Next ==
  \/ \E c \in Clients :
       \/ Look(c) \/ SweepNext(c) \/ TimeOut(c) \/ GetPermit(c) \/ Connect(c)
       \/ Release(c) \/ Discard(c) \/ FinishClose(c) \/ Cancelled(c)
  \/ \E k \in Conns : PeerCloses(k) \/ ShutdownClose(k)
  \/ Shutdown

\* A client that was woken up runs, a connect and a close end (they have their
\* own timeouts), the capacity semaphore serves in the order of arrival, and the
\* deadline of acquire is absolute.  Clients need not come, and nothing is said
\* of how long they keep a connection.
Fairness ==
  /\ \A c \in Clients :
       /\ WF_vars(pc[c] # "out" /\ Look(c)) /\ WF_vars(SweepNext(c))
       /\ WF_vars(Connect(c)) /\ WF_vars(FinishClose(c))
       /\ SF_vars(GetPermit(c)) /\ SF_vars(TimeOut(c))
  /\ \A k \in Conns : WF_vars(ShutdownClose(k))

Spec == Init /\ [][Next]_vars /\ Fairness

-----------------------------------------------------------------------------
\* Properties.

Busy == {c \in Clients : pc[c] \in {"leased", "sweeping", "closing"}}

\* A connection is leased to exactly one stream_chat call at a time, is not idle
\* meanwhile, and nobody closes the connection of another client.
ExclusiveLease ==
  /\ \A c, d \in Busy : c # d => conn[c] # conn[d]
  /\ \A c \in Busy : conn[c] \notin ToSet(idle)
  /\ \A i, j \in 1..Len(idle) : idle[i] = idle[j] => i = j

\* The pool never has more sockets, open, being opened or stranded, than its size,
\* and its books agree: each is covered by a capacity permit that is taken.
WithinSize ==
  /\ Cardinality(all) + reserved <= MaxSize
  /\ Cardinality({k \in Conns : socket[k] # "none"})
       + Cardinality({c \in Clients : pc[c] = "connecting"}) <= MaxSize - capacity

\* Nobody sleeps while there is something to lease or room to connect, and
\* nobody sleeps through the shutdown: every change of either wakes the sleepers.
NoLostWakeup ==
  \A c \in Sleepers \ notified : idle = <<>> /\ ~Room /\ ~shuttingDown

\* Once the shutdown is through and all clients are gone, the only sockets left are
\* those in no book: their client was cancelled while it opened or closed them.
ShutdownClosesAll ==
  shuttingDown /\ toClose = {} /\ (\A c \in Clients : pc[c] = "out") =>
    \A k \in Conns : socket[k] \in {"none", "stranded"}

\* Every acquire ends, with a connection or with an error, unless its client finds
\* nothing but stale connections for ever: a sweep starts over without a look at
\* the deadline.
AcquireEnds ==
  \A c \in Clients :
    \/ []<>(pc[c] = "sweeping")
    \/ pc[c] \in Acquiring ~> pc[c] \in {"leased", "out"}

\* Whatever failed before, a pool that nobody uses can serve again: something is
\* idle or there is room to connect.
QuietPoolServes ==
  (\A c \in Clients : pc[c] = "out") /\ ~shuttingDown => idle # <<>> \/ Room

\* backend/README.md:204: "The default effective chat concurrency is 10", which is
\* the default of GATEWAY_POOL_MAX_SIZE.  So all slots of a pool that nobody uses
\* are available: free, or holding an idle connection.
QuietPoolIsWhole ==
  (\A c \in Clients : pc[c] = "out") /\ ~shuttingDown =>
    Cardinality(all) + reserved = Len(idle)

=============================================================================
