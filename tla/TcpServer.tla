------------------------------ MODULE TcpServer -------------------------------
(***************************************************************************)
(* siren::net::TcpServer with its Acceptor and its pool of I/O loops.      *)
(*                                                                         *)
(* Every loop polls, handles what was reported, runs the functors that     *)
(* were queued when the round of functors began, and looks at quit_.  The  *)
(* server lives on loop 0; start() is called there or on a thread of the   *)
(* user, the destructor there.  Of a connection only its life matters;     *)
(* TcpConnection.tla has the rest.                                         *)
(***************************************************************************)
EXTENDS Acceptor, EventLoopThreadPool

CONSTANT MaxStarts   \* bound: calls of start()

ASSUME TcpServerAssumption == MaxStarts \in Nat

VARIABLES
  started_, starts,   \* the counter, and the calls of start()
  starting,           \* who is in start() past its test: nobody, loop, thread
  connections_, nextConnId_,
  conn,      \* of each connection: none, new, up, closed (handleClose() has run),
             \* down (connectDestroyed() has run), freed
  ioLoop,    \* the loop of each connection
  queue,     \* pendingFunctors_ of each loop, with the batch being run in front
  batch,     \* functors of the round of each loop yet to be run
  active,    \* what the poll of each loop reported: 0 is the acceptor's channel
  server,    \* alive; in ~TcpServer(): conns, look, join; gone
  joined,    \* threads of the pool that have been joined
  failed     \* the assertion that failed, or the freed object that was used

startVars == <<started_, starts, starting>>
connVars == <<connections_, nextConnId_, conn, ioLoop>>
loopVars == <<quit_, pc, queue, batch, active>>
dyingVars == <<server, joined>>
vars == <<acceptorVars, poolVars, startVars, connVars, loopVars, dyingVars, failed>>

Conns == 1 .. MaxConns
Used == Cardinality({c \in Conns : conn[c] \notin {"none", "freed"}})

\* started_ is not initialized: 1 stands for any other positive value.
Init ==
  /\ AcceptorInit /\ PoolInit
  /\ started_ \in {-1, 0, 1} /\ starts = 0 /\ starting = "nobody"
  /\ connections_ = {} /\ nextConnId_ = 1
  /\ conn = [c \in Conns |-> "none"] /\ ioLoop = [c \in Conns |-> 0]
  /\ queue = [l \in Loops |-> <<>>] /\ batch = [l \in Loops |-> 0]
  /\ active = [l \in Loops |-> {}]
  /\ server = "alive" /\ joined = 0 /\ failed = "none"

\* queueInLoop(), and runInLoop() on another loop
Queue(l, op, c) ==
  /\ queue' = [queue EXCEPT ![l] = Append(@, <<op, c>>)]
  /\ failed' = IF pc[l] = "gone" THEN "loopGone" ELSE failed

-----------------------------------------------------------------------------
(* The loops *)

\* Loop 0 is not inside start() or ~TcpServer().
Idle == starting # "loop" /\ server \in {"alive", "gone"}

Ready(l) == {c \in Conns : conn[c] = "up" /\ ioLoop[c] = l}
              \cup IF l = 0 /\ listening_ /\ backlog > 0 THEN {0} ELSE {}

\* The connections reported are those that end.
Poll(l) ==
  /\ pc[l] = "poll"
  /\ \E r \in SUBSET Ready(l) : active' = [active EXCEPT ![l] = r]
  /\ Goto(l, "events")
  /\ UNCHANGED <<acceptorVars, poolVars, startVars, connVars, quit_, queue, batch,
                 dyingVars, failed>>

DoPendingFunctors(l) ==
  /\ pc[l] = "events" /\ active[l] = {}
  /\ batch' = [batch EXCEPT ![l] = Len(queue[l])]
  /\ Goto(l, "functors")
  /\ UNCHANGED <<acceptorVars, poolVars, startVars, connVars, quit_, queue, active,
                 dyingVars, failed>>

\* Mutation: quit_ is looked at only when loop() is entered.
RoundEndsUnchecked(l) ==
  /\ pc[l] = "functors" /\ batch[l] = 0
  /\ Goto(l, "poll")
  /\ UNCHANGED <<acceptorVars, poolVars, startVars, connVars, quit_, queue, batch,
                 active, dyingVars, failed>>

\* The base loop is never asked to quit.
RoundEnds(l) ==
  /\ pc[l] = "functors" /\ batch[l] = 0
  /\ Goto(l, IF l = 0 THEN "poll" ELSE "check")
  /\ UNCHANGED <<acceptorVars, poolVars, startVars, connVars, quit_, queue, batch,
                 active, dyingVars, failed>>

\* The functor op of connection c is next; its effect on the queues is q.
Functor(l, op, c, q) ==
  /\ pc[l] = "functors" /\ batch[l] > 0
  /\ Head(queue[l]) = <<op, c>>
  /\ batch' = [batch EXCEPT ![l] = @ - 1]
  /\ queue' = q
  /\ UNCHANGED <<poolVars, startVars, quit_, pc, active, dyingVars>>
Popped(l) == [queue EXCEPT ![l] = Tail(@)]

Event(l, c) ==
  /\ pc[l] = "events" /\ c \in active[l]
  /\ active' = [active EXCEPT ![l] = @ \ {c}]
  /\ UNCHANGED <<numThreads_, loops_, startVars, quit_, batch, dyingVars>>

-----------------------------------------------------------------------------
(* The acceptor's channel *)

\* newConnection(): the connection is established at once on the base loop.
NewConnection ==
  /\ Event(0, 0)
  /\ Accepts(Used)
  /\ LET l == NextLoop IN
       /\ next_' = Advance
       /\ nextConnId_' = nextConnId_ + 1
       /\ connections_' = connections_ \cup {nextConnId_}
       /\ ioLoop' = [ioLoop EXCEPT ![nextConnId_] = l]
       /\ conn' = [conn EXCEPT ![nextConnId_] = IF l = 0 THEN "up" ELSE "new"]
       /\ IF l = 0 THEN UNCHANGED <<queue, failed>>
                   ELSE Queue(l, "connectEstablished", nextConnId_)
  /\ UNCHANGED pc

HandleReadFails ==
  /\ Event(0, 0)
  /\ AcceptFails(Used)
  /\ UNCHANGED <<next_, connVars, pc, queue, failed>>

OutOfDescriptors ==
  /\ Event(0, 0)
  /\ CloseIdle(Used)
  /\ Goto(0, "reject")
  /\ UNCHANGED <<next_, connVars, queue, failed>>

Reject ==
  /\ \/ pc[0] = "reject" /\ AcceptAndDrop(Used) /\ Goto(0, "reopen")
     \/ pc[0] = "reopen" /\ ReopenIdle(Used) /\ Goto(0, "events")
  /\ UNCHANGED <<poolVars, startVars, connVars, quit_, queue, batch, active,
                 dyingVars, failed>>

-----------------------------------------------------------------------------
(* The connections *)

ConnectEstablished(l, c) ==
  /\ Functor(l, "connectEstablished", c, Popped(l))
  /\ conn' = [conn EXCEPT ![c] = "up"]
  /\ failed' = IF conn[c] = "new" THEN failed ELSE "connectEstablished"
  /\ UNCHANGED <<acceptorVars, connections_, nextConnId_, ioLoop>>

\* handleClose() and removeConnection(): runInLoop() is a call on the base loop.
Close(l, c) ==
  /\ Event(l, c) /\ c # 0
  /\ conn' = [conn EXCEPT ![c] = "closed"]
  /\ IF l = 0 THEN /\ connections_' = connections_ \ {c}
                   /\ Queue(0, "connectDestroyed", c)
              ELSE /\ Queue(0, "removeConnectionInLoop", c)
                   /\ UNCHANGED connections_
  /\ UNCHANGED <<acceptorVars, next_, nextConnId_, ioLoop, pc>>

\* Mutation: the connection is erased and nothing is queued for it.
RemoveConnectionInLoopForgets(c) ==
  /\ Functor(0, "removeConnectionInLoop", c, Popped(0))
  /\ connections_' = connections_ \ {c}
  /\ UNCHANGED <<acceptorVars, nextConnId_, conn, ioLoop, failed>>

RemoveConnectionInLoop(c) ==
  /\ Functor(0, "removeConnectionInLoop", c,
             IF server = "gone" THEN Popped(0)
             ELSE [Popped(0) EXCEPT ![ioLoop[c]] = Append(@, <<"connectDestroyed", c>>)])
  /\ connections_' = connections_ \ {c}
  /\ failed' = CASE server = "gone" -> "serverGone"
                 [] c \notin connections_ -> "erase"
                 [] OTHER -> failed
  /\ UNCHANGED <<acceptorVars, nextConnId_, conn, ioLoop>>

ConnectDestroyed(l, c) ==
  /\ Functor(l, "connectDestroyed", c, Popped(l))
  /\ conn' = [conn EXCEPT ![c] = "down"]
  /\ failed' = IF conn[c] \in {"up", "closed"} THEN failed ELSE "remove"
  /\ UNCHANGED <<acceptorVars, connections_, nextConnId_, ioLoop>>

\* The last reference goes, when the batch with connectDestroyed() in it and the
\* one with removeConnectionInLoop() have both ended; the socket is closed.
FreeConnection(c) ==
  /\ conn[c] = "down"
  /\ conn' = [conn EXCEPT ![c] = "freed"]
  /\ UNCHANGED <<acceptorVars, poolVars, startVars, connections_, nextConnId_, ioLoop,
                 loopVars, dyingVars, failed>>

-----------------------------------------------------------------------------
(* start() and the threads of the pool *)

\* On the base loop it is called from a functor of the user.
Start(who) ==
  /\ server = "alive" /\ starts < MaxStarts
  /\ who = "loop" => Idle /\ pc[0] = "functors"
  /\ starts' = starts + 1 /\ started_' = started_ + 1
  /\ starting' = IF started_ = 0 THEN who ELSE starting
  /\ UNCHANGED <<acceptorVars, poolVars, connVars, loopVars, dyingVars, failed>>

StartThreads ==
  /\ starting # "nobody"
  /\ Spawn \/ Started
  /\ UNCHANGED <<acceptorVars, startVars, connVars, queue, batch, active, dyingVars,
                 failed>>

StartListening ==
  /\ starting # "nobody" /\ loops_ = numThreads_
  /\ starting' = "nobody"
  /\ IF starting = "loop" THEN Listen /\ UNCHANGED <<queue, failed>>
                          ELSE Queue(0, "listen", 0) /\ UNCHANGED acceptorVars
  /\ UNCHANGED <<poolVars, started_, starts, connVars, quit_, pc, batch, active,
                 dyingVars>>

RunListen ==
  /\ Functor(0, "listen", 0, Popped(0))
  /\ IF server = "gone" THEN failed' = "serverGone" /\ UNCHANGED acceptorVars
                        ELSE Listen /\ UNCHANGED failed
  /\ UNCHANGED connVars

ThreadFunc(l) ==
  /\ Publish(l) \/ EnterLoop(l) \/ CheckQuit(l)
  /\ UNCHANGED <<acceptorVars, startVars, connVars, queue, batch, active, dyingVars,
                 failed>>

\* loop_ is cleared and the EventLoop goes with the functors it still has.  That
\* frees the connections nobody else holds, whose channels must no longer be in
\* the poller.
LoopDies(l) ==
  /\ pc[l] = "left"
  /\ Goto(l, "gone")
  /\ LET lost == {c \in Conns : /\ \E i \in DOMAIN queue[l] : queue[l][i][2] = c
                               /\ \A i \in DOMAIN queue[0] : queue[0][i][2] # c} IN
       /\ conn' = [c \in Conns |-> IF c \in lost THEN "freed" ELSE conn[c]]
       /\ failed' = IF \E c \in lost : conn[c] \in {"up", "closed"}
                    THEN "~Channel" ELSE failed
  /\ queue' = [queue EXCEPT ![l] = <<>>]
  /\ UNCHANGED <<acceptorVars, poolVars, startVars, connections_, nextConnId_, ioLoop,
                 quit_, batch, active, dyingVars>>

-----------------------------------------------------------------------------
(* ~TcpServer(), from a functor of the user on the base loop *)

Destroy ==
  /\ server = "alive" /\ Idle /\ starting = "nobody"
  /\ pc[0] = "functors"
  /\ server' = "conns"
  /\ UNCHANGED <<acceptorVars, poolVars, startVars, connVars, loopVars, joined, failed>>

\* The next connection of the map gets its connectDestroyed().
DestroyConnection(c) ==
  /\ server = "conns"
  /\ c \in connections_ /\ \A d \in connections_ : c <= d
  /\ connections_' = connections_ \ {c}
  /\ IF ioLoop[c] = 0
     THEN /\ conn' = [conn EXCEPT ![c] = "down"]
          /\ failed' = IF conn[c] \in {"up", "closed"} THEN failed ELSE "remove"
          /\ UNCHANGED queue
     ELSE Queue(ioLoop[c], "connectDestroyed", c) /\ UNCHANGED conn
  /\ UNCHANGED <<acceptorVars, poolVars, startVars, nextConnId_, ioLoop, quit_, pc,
                 batch, active, dyingVars>>

\* ~EventLoopThread() of the next thread: quit(), join().
QuitThread ==
  /\ server = "look" /\ joined < loops_
  /\ server' = "join"
  /\ Quit(joined + 1)
  /\ UNCHANGED <<acceptorVars, poolVars, startVars, connVars, pc, queue, batch, active,
                 joined, failed>>

JoinThread ==
  /\ server = "join" /\ Joined(joined + 1)
  /\ server' = "look" /\ joined' = joined + 1
  /\ UNCHANGED <<acceptorVars, poolVars, startVars, connVars, loopVars, failed>>

DestroyMembers ==
  /\ \/ server = "conns" /\ connections_ = {} /\ server' = "look"
        /\ UNCHANGED acceptorVars
     \/ server = "look" /\ joined = loops_ /\ server' = "gone" /\ DestroyAcceptor
  /\ UNCHANGED <<poolVars, startVars, connVars, loopVars, joined, failed>>

-----------------------------------------------------------------------------
LoopNext(l) ==
  /\ l = 0 => Idle
  /\ \/ Poll(l) \/ DoPendingFunctors(l) \/ RoundEnds(l)
     \/ \E c \in Conns : \/ ConnectEstablished(l, c) \/ ConnectDestroyed(l, c)
                         \/ Close(l, c)

BaseNext ==
  /\ Idle
  /\ \/ NewConnection \/ HandleReadFails \/ OutOfDescriptors \/ Reject \/ RunListen
     \/ \E c \in Conns : RemoveConnectionInLoop(c)

StartNext == StartThreads \/ StartListening
DestroyNext ==
  \/ \E c \in Conns : DestroyConnection(c)
  \/ QuitThread \/ JoinThread \/ DestroyMembers

World(A) == A /\ UNCHANGED <<poolVars, startVars, connVars, loopVars, dyingVars, failed>>

\* A failed assertion ends the process.
Next ==
  /\ failed = "none"
  /\ \/ \E l \in Loops : LoopNext(l)
     \/ \E l \in IoLoops : ThreadFunc(l) \/ LoopDies(l)
     \/ BaseNext \/ StartNext \/ DestroyNext \/ Destroy
     \/ \E c \in Conns : FreeConnection(c)
     \/ \E who \in {"loop", "thread"} : Start(who)
     \/ World(Arrive) \/ World(OtherOpens(Used)) \/ World(OtherCloses)

Spec == Init /\ [][Next]_vars

-----------------------------------------------------------------------------
(* Fairness: every thread goes on, the base loop is told again and again of a
   connection that waits, accept() does not fail for ever, and other threads do
   not win the place of the idle descriptor every time. *)
Going(A) == failed = "none" /\ A
Fairness ==
  /\ WF_vars(Going(LoopNext(0) \/ BaseNext))
  /\ WF_vars(Going(StartNext)) /\ WF_vars(Going(DestroyNext))
  /\ WF_vars(Going(\E c \in Conns : FreeConnection(c)))
  /\ \A l \in UNION {1 .. n : n \in ThreadNums} :
       WF_vars(Going(l \in IoLoops
               /\ (LoopNext(l) \/ ThreadFunc(l) \/ LoopDies(l))))
  /\ SF_vars(Going(Idle /\ Poll(0) /\ 0 \in active'[0]))
  /\ SF_vars(Going(Idle /\ (NewConnection \/ OutOfDescriptors)))
  /\ SF_vars(Going(pc[0] = "reject" /\ Free(Used) > 0 /\ Reject))
FairSpec == Spec /\ Fairness

-----------------------------------------------------------------------------
(* Properties *)

TypeOK ==
  /\ listening_ \in BOOLEAN /\ idleFd_ \in BOOLEAN
  /\ arrived \in 0 .. MaxConns /\ backlog \in 0 .. arrived /\ others \in 0 .. MaxOthers
  /\ Taken(Used) <= FdLimit
  /\ numThreads_ \in ThreadNums /\ loops_ \in 0 .. numThreads_
  /\ next_ \in 0 .. numThreads_ /\ (loops_ > 0 => next_ < loops_)
  /\ quit_ \in [Loops -> BOOLEAN]
  /\ pc \in [Loops -> {"none", "start", "ready", "check", "poll", "events", "reject",
                       "reopen", "functors", "left", "gone"}]
  /\ started_ \in Int /\ starts \in 0 .. MaxStarts
  /\ starting \in {"nobody", "loop", "thread"}
  /\ connections_ \subseteq Conns /\ nextConnId_ \in 1 .. MaxConns + 1
  /\ conn \in [Conns -> {"none", "new", "up", "closed", "down", "freed"}]
  /\ ioLoop \in [Conns -> Loops]
  /\ queue \in [Loops -> Seq({"connectEstablished", "connectDestroyed",
                              "removeConnectionInLoop", "listen"} \X (0 .. MaxConns))]
  /\ \A l \in Loops : batch[l] \in 0 .. Len(queue[l])
  /\ active \in [Loops -> SUBSET (0 .. MaxConns)]
  /\ server \in {"alive", "conns", "look", "join", "gone"} /\ joined \in 0 .. loops_
  /\ failed \in {"none", "connectEstablished", "remove", "erase", "~Channel",
                 "loopGone", "serverGone"}

Count(l, op, c) == Cardinality({i \in DOMAIN queue[l] : queue[l][i] = <<op, c>>})

\* A connection that is not yet torn down is in the server's map or has exactly one
\* connectDestroyed() queued on its own loop, never both and never neither; it has
\* been established before: newConnection(), removeConnectionInLoop() and
\* ~TcpServer() hand it over without losing it or tearing it down twice, as long as
\* its loop lives.
OneOwner ==
  failed = "none" =>
    \A c \in {d \in Conns : pc[ioLoop[d]] # "gone"} :
      /\ Count(ioLoop[c], "connectDestroyed", c)
           = IF conn[c] \in {"new", "up", "closed"} /\ c \notin connections_ THEN 1 ELSE 0
      /\ c \in connections_ => conn[c] \in {"new", "up", "closed"}
      /\ Count(ioLoop[c], "connectEstablished", c) = IF conn[c] = "new" THEN 1 ELSE 0

Load(l) == Cardinality({c \in Conns : c < nextConnId_ /\ ioLoop[c] = l})

\* getNextLoop() spreads the connections over the loops that start() has made, and
\* no loop gets two more than another.
Balanced ==
  /\ \A c \in Conns : c < nextConnId_ => (ioLoop[c] = 0 <=> numThreads_ = 0)
  /\ \A l, m \in IoLoops : Load(l) <= Load(m) + 1

\* The connections that wait for a server are accepted or dropped, however few descriptors there
\* are, unless another thread takes the place of the idle descriptor while
\* handleRead() has it closed.
BacklogDrained ==
  backlog > 0 ~>
    \/ backlog = 0 \/ server # "alive" \/ failed # "none"
    \/ ~idleFd_ /\ pc[0] \notin {"reject", "reopen"}

\* A closed connection is freed, and its descriptor with it, unless its loop has
\* been told to quit.
ClosedIsFreed ==
  \A c \in Conns :
    conn[c] = "closed" ~> (conn[c] = "freed" \/ failed # "none" \/ quit_[ioLoop[c]])

\* ~TcpServer() returns, unless it has called quit() on a loop that had not entered
\* loop() yet, which resets quit_.
DestroyReturns ==
  server # "alive" ~>
    \/ server = "gone" \/ failed # "none"
    \/ server = "join" /\ ~quit_[joined + 1]
=============================================================================
