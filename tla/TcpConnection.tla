---------------------------- MODULE TcpConnection ----------------------------
(***************************************************************************)
(* siren::net::TcpConnection: one connection accepted by a TcpServer, from *)
(* its creation to the removal of its channel.                             *)
(*                                                                         *)
(* Four actors: the I/O loop the connection belongs to (events, then the   *)
(* batch of functors, as EventLoop::loop() does), the user's threads that  *)
(* call send(), shutdown(), forceClose()... on it, the server's loop that  *)
(* removes it from connections_, and the peer.  The functor queue is taken *)
(* to be first-in first-out, as SerialExecutor promises.                   *)
(*                                                                         *)
(* The bytes of the output are numbered units.  state_ is read and written *)
(* without a lock by the user's threads: a call is a check, a write of     *)
(* state_ and a push on the queue, in three steps.                         *)
(***************************************************************************)
EXTENDS Naturals, Sequences, Channel

CONSTANTS
  Threads,         \* the user's threads
  LoopCalls,       \* calls the user's callbacks make on the I/O loop
  ThreadCalls,     \* calls the user's threads make
  ServerDies,      \* whether the TcpServer may be destroyed
  MaxCalls,        \* bound: calls made in all
  MaxLen,          \* bound: units in one send()
  MaxInput,        \* bound: messages from the peer
  highWaterMark_

Calls == {"send", "shutdown", "forceClose", "forceCloseWithDelay",
          "startRead", "stopRead"}

ASSUME TcpConnectionAssumption ==
  /\ LoopCalls \subseteq Calls /\ ThreadCalls \subseteq Calls
  /\ ServerDies \in BOOLEAN
  /\ MaxCalls \in Nat /\ MaxLen \in Nat /\ MaxInput \in Nat
  /\ highWaterMark_ \in Nat \ {0}

VARIABLES
  state_, reading_,
  events_, index_,   \* of channel_
  outputBuffer_,
  pc,                \* where the I/O loop is
  revents_,          \* events of channel_ yet to be handled
  functors,          \* functors queued on the I/O loop
  batch,             \* how many of them belong to the round being run
  timers,            \* pending timers of forceCloseWithDelay()
  call,              \* the call each thread is making, and how far it is
  made,              \* calls made
  sent,              \* units numbered so far
  connections_,      \* the server's map holds the connection
  removing,          \* removeConnectionInLoop() functors on the server's loop
  server,            \* the TcpServer exists
  peer,              \* open, fin (closed), rst (reset), gone (reset, noticed)
  inbox,             \* messages received by the kernel and not read
  received,          \* messages sent by the peer
  shutWrite,         \* shutdownWrite() has been called on the socket
  accepted,          \* units taken by sendInLoop(), in order
  wire,              \* units written to the socket, in order
  fault,             \* a write failed for good
  failed             \* the assertion that has ended the process, or "none"

connVars == <<state_, reading_, events_, index_, outputBuffer_>>
loopVars == <<pc, revents_, batch, timers>>
userVars == <<call, made, sent>>
serverVars == <<connections_, removing, server>>
inVars == <<inbox, received>>
outVars == <<shutWrite, accepted, wire, fault>>
vars == <<connVars, loopVars, functors, userVars, serverVars, peer, inVars,
          outVars, failed>>

Idle == [op |-> "none", data |-> <<>>, step |-> "out"]
Functor(op) == [op |-> op, data |-> <<>>]

\* TcpServer::newConnection(): the connection is in the map and the loop is to
\* run connectEstablished().
Init ==
  /\ state_ = "kConnecting" /\ reading_ = TRUE
  /\ events_ = {} /\ index_ = kNew
  /\ outputBuffer_ = <<>>
  /\ pc = "poll" /\ revents_ = {} /\ batch = 0 /\ timers = 0
  /\ functors = <<Functor("connectEstablished")>>
  /\ call = [t \in Threads |-> Idle]
  /\ made = 0 /\ sent = 0
  /\ connections_ = TRUE /\ removing = 0 /\ server = TRUE
  /\ peer = "open" /\ inbox = 0 /\ received = 0
  /\ shutWrite = FALSE /\ fault = FALSE
  /\ accepted = <<>> /\ wire = <<>>
  /\ failed = "none"

isWriting == "out" \in events_
isReading == "in" \in events_
Reset == peer \in {"rst", "gone"}
Writable == ~shutWrite /\ ~Reset

\* Channel::enableReading() and the others: events_ changes, then update().
SetEvents(events) == events_' = events /\ index_' = Updated(index_, events)

-----------------------------------------------------------------------------
(* What runs on the I/O loop; q is the functor queue it starts from. *)

NotifyHighWater(old, remaining) ==
  IF old + remaining >= highWaterMark_ /\ old < highWaterMark_
  THEN <<Functor("highWaterMark")>> ELSE <<>>

\* The end of sendInLoop(): what the socket did not take is buffered.
AppendOutput(rest, q) ==
  /\ outputBuffer_' = outputBuffer_ \o rest
  /\ SetEvents(events_ \cup {"out"})
  /\ functors' = q \o NotifyHighWater(Len(outputBuffer_), Len(rest))

\* Mutation: sendInLoop() writes although earlier data is still buffered.
SendInLoopOvertakes(data, q) ==
  \/ /\ state_ = "kDisconnected"
     /\ functors' = q
     /\ UNCHANGED <<outputBuffer_, events_, index_, accepted, wire, fault>>
  \/ /\ state_ # "kDisconnected" /\ Writable
     /\ accepted' = accepted \o data
     /\ \E n \in 0 .. Len(data) :
          /\ wire' = wire \o SubSeq(data, 1, n)
          /\ AppendOutput(SubSeq(data, n + 1, Len(data)), q)
     /\ UNCHANGED fault

SendInLoop(data, q) ==
  \/ /\ state_ = "kDisconnected"
     /\ functors' = q
     /\ UNCHANGED <<outputBuffer_, events_, index_, accepted, wire, fault>>
  \/ /\ state_ # "kDisconnected"
     /\ accepted' = accepted \o data
     /\ \/ /\ isWriting \/ outputBuffer_ # <<>>
           /\ AppendOutput(data, q)
           /\ UNCHANGED <<wire, fault>>
        \/ /\ ~isWriting /\ outputBuffer_ = <<>> /\ Writable
           /\ \E n \in 0 .. Len(data) :
                /\ wire' = wire \o SubSeq(data, 1, n)
                /\ IF n = Len(data)
                   THEN /\ functors' = Append(q, Functor("writeComplete"))
                        /\ UNCHANGED <<outputBuffer_, events_, index_>>
                   ELSE AppendOutput(SubSeq(data, n + 1, Len(data)), q)
           /\ UNCHANGED fault
        \/ /\ ~isWriting /\ outputBuffer_ = <<>> /\ ~Writable
           /\ fault' = TRUE
           /\ functors' = q
           /\ UNCHANGED <<outputBuffer_, events_, index_, wire>>

\* Mutation: the write side is shut down although data is still buffered.
ShutdownInLoopAtOnce == shutWrite' = TRUE

ShutdownInLoop == shutWrite' = (shutWrite \/ ~isWriting)

\* disableAll(), then connectionCallback_, which finds the connection closed: of
\* its calls startRead() and stopRead() still act on the channel, and several of
\* them leave what one of them, or none, leaves.
Lowered ==
  LET off == Updated(index_, {})
  IN  {[events |-> {}, index |-> off, reading |-> reading_]}
      \cup {[events |-> {"in"}, index |-> Updated(off, {"in"}), reading |-> TRUE] :
              op \in LoopCalls \cap {"startRead"}}
      \cup {[events |-> {}, index |-> Updated(off, {}), reading |-> TRUE] :
              op \in IF reading_ THEN LoopCalls \cap {"stopRead"} ELSE {}}

\* handleClose(), down to closeCallback_, which is removeConnection().
HandleClose ==
  \/ /\ state_ \in {"kConnected", "kDisconnecting"}
     /\ state_' = "kDisconnected"
     /\ \E c \in Lowered :
          events_' = c.events /\ index_' = c.index /\ reading_' = c.reading
     /\ removing' = removing + 1
     /\ UNCHANGED failed
  \/ /\ state_ \notin {"kConnected", "kDisconnecting"}
     /\ failed' = "handleClose"
     /\ UNCHANGED <<state_, reading_, events_, index_, removing>>

StartReadInLoop ==
  IF ~reading_ \/ ~isReading
  THEN SetEvents(events_ \cup {"in"}) /\ reading_' = TRUE
  ELSE UNCHANGED <<events_, index_, reading_>>

\* reading_ is set to true here as well.
StopReadInLoop ==
  IF reading_ \/ isReading
  THEN SetEvents(events_ \ {"in"}) /\ reading_' = TRUE
  ELSE UNCHANGED <<events_, index_, reading_>>

-----------------------------------------------------------------------------
(* The I/O loop: poll, handle the events of the channel, run the functors *)

\* What the kernel may report of the channel.  EPOLLHUP needs no interest; when
\* the socket takes more output is up to the peer.
Reportable ==
  IF index_ # kAdded THEN {{}}
  ELSE LET in == IF isReading /\ (inbox > 0 \/ peer # "open") THEN {"in"} ELSE {}
           hup == IF Reset \/ (peer = "fin" /\ shutWrite) THEN {"hup"} ELSE {}
       IN  {in \cup hup \cup out :
             out \in IF ~isWriting THEN {{}}
                     ELSE IF Reset THEN {{"out"}} ELSE {{}, {"out"}}}

Poll ==
  /\ pc = "poll"
  /\ revents_' \in Reportable
  /\ revents_' # {} \/ functors # <<>> \/ timers > 0
  /\ pc' = "event"
  /\ UNCHANGED <<connVars, batch, timers, functors, userVars, serverVars, peer,
                 inVars, outVars, failed>>

\* handleEventWithGuard(): hang-up without input closes the connection; what
\* follows finds the channel without events and does nothing.
HandleHup ==
  /\ pc = "event"
  /\ "hup" \in revents_ /\ "in" \notin revents_
  /\ HandleClose
  /\ revents_' = {}
  /\ UNCHANGED <<outputBuffer_, pc, batch, timers, functors, userVars,
                 connections_, server, peer, inVars, outVars>>

\* handleRead() gets data and calls messageCallback_.
HandleReadData ==
  /\ pc = "event"
  /\ "in" \in revents_
  /\ inbox > 0
  /\ inbox' = 0
  /\ revents_' = revents_ \cap {"out"}
  /\ pc' = "message"
  /\ UNCHANGED <<connVars, batch, timers, functors, userVars, serverVars, peer,
                 received, outVars, failed>>

\* After handleRead() the same handleEvent() goes on to the writing.
AfterRead(rest) == IF "out" \in rest THEN "write" ELSE "event"

\* handleRead() gets an error, which it only logs ...
HandleReadError ==
  /\ pc = "event"
  /\ "in" \in revents_
  /\ peer = "rst"
  /\ peer' = "gone"
  /\ revents_' = revents_ \cap {"out"}
  /\ pc' = AfterRead(revents_')
  /\ UNCHANGED <<connVars, batch, timers, functors, userVars, serverVars,
                 inVars, outVars, failed>>

\* ... or the end of the stream.
HandleReadEnd ==
  /\ pc = "event"
  /\ "in" \in revents_
  /\ inbox = 0 /\ peer \in {"fin", "gone"}
  /\ HandleClose
  /\ revents_' = {}
  /\ UNCHANGED <<outputBuffer_, pc, batch, timers, functors, userVars,
                 connections_, server, peer, inVars, outVars>>

\* Mutation: disableWriting() is forgotten when the buffer has been written.
HandleWriteKeepsWriting ==
  /\ pc \in {"event", "write"} /\ pc' = "event"
  /\ revents_ = {"out"}
  /\ revents_' = {}
  /\ isWriting /\ Writable /\ outputBuffer_ # <<>>
  /\ \E n \in 1 .. Len(outputBuffer_) :
       /\ wire' = wire \o SubSeq(outputBuffer_, 1, n)
       /\ outputBuffer_' = SubSeq(outputBuffer_, n + 1, Len(outputBuffer_))
  /\ UNCHANGED <<state_, reading_, events_, index_, batch, timers, functors,
                 userVars, serverVars, peer, inVars, shutWrite, accepted,
                 fault, failed>>

\* Mutation: the pending shutdown is forgotten when the buffer is written.
HandleWriteNoShutdown ==
  /\ pc \in {"event", "write"} /\ pc' = "event"
  /\ revents_ = {"out"}
  /\ revents_' = {}
  /\ IF isWriting /\ Writable
     THEN /\ wire' = wire \o outputBuffer_
          /\ outputBuffer_' = <<>>
          /\ SetEvents(events_ \ {"out"})
          /\ functors' = Append(functors, Functor("writeComplete"))
     ELSE UNCHANGED <<outputBuffer_, wire, functors, events_, index_>>
  /\ UNCHANGED <<state_, reading_, batch, timers, userVars, serverVars,
                 peer, inVars, shutWrite, accepted, fault, failed>>

\* handleWrite(): when the buffer has been written, writing is disabled and a
\* shutdown() that had to wait is completed.
HandleWrite ==
  /\ pc \in {"event", "write"} /\ pc' = "event"
  /\ revents_ = {"out"}
  /\ revents_' = {}
  /\ \/ /\ isWriting /\ Writable
        /\ \E n \in 1 .. Len(outputBuffer_) :
             /\ wire' = wire \o SubSeq(outputBuffer_, 1, n)
             /\ outputBuffer_' = SubSeq(outputBuffer_, n + 1, Len(outputBuffer_))
             /\ IF n = Len(outputBuffer_)
                THEN /\ SetEvents(events_ \ {"out"})
                     /\ functors' = Append(functors, Functor("writeComplete"))
                     /\ shutWrite' = (shutWrite \/ state_ = "kDisconnecting")
                ELSE UNCHANGED <<events_, index_, functors, shutWrite>>
     \/ /\ ~isWriting \/ ~Writable \/ outputBuffer_ = <<>>
        /\ UNCHANGED <<outputBuffer_, events_, index_, functors, wire, shutWrite>>
  /\ UNCHANGED <<state_, reading_, batch, timers, userVars, serverVars,
                 peer, inVars, accepted, fault, failed>>

\* The timer of forceCloseWithDelay() calls forceClose().
TimerFires ==
  /\ pc = "event"
  /\ timers > 0
  /\ timers' = timers - 1
  /\ IF state_ \in {"kConnected", "kDisconnecting"}
     THEN /\ state_' = "kDisconnecting"
          /\ functors' = Append(functors, Functor("forceClose"))
     ELSE UNCHANGED <<state_, functors>>
  /\ UNCHANGED <<reading_, events_, index_, outputBuffer_, pc, revents_, batch,
                 userVars, serverVars, peer, inVars, outVars, failed>>

\* Mutation: the round is one functor too long.
DoPendingFunctorsOneMore ==
  /\ pc = "event"
  /\ revents_ = {}
  /\ pc' = "functors"
  /\ batch' = Len(functors) + 1
  /\ UNCHANGED <<connVars, revents_, timers, functors, userVars, serverVars,
                 peer, inVars, outVars, failed>>

\* doPendingFunctors() takes what is queued now.
DoPendingFunctors ==
  /\ pc = "event"
  /\ revents_ = {}
  /\ pc' = "functors"
  /\ batch' = Len(functors)
  /\ UNCHANGED <<connVars, revents_, timers, functors, userVars, serverVars,
                 peer, inVars, outVars, failed>>

FunctorsDone ==
  /\ pc = "functors"
  /\ batch = 0
  /\ pc' = "poll"
  /\ UNCHANGED <<connVars, revents_, batch, timers, functors, userVars,
                 serverVars, peer, inVars, outVars, failed>>

\* The next functor of the round is op.
NextFunctor(op) ==
  /\ pc = "functors"
  /\ batch > 0
  /\ Head(functors).op = op
  /\ batch' = batch - 1
  /\ UNCHANGED <<revents_, userVars, connections_, server, peer, inVars>>

ConnectEstablished ==
  /\ NextFunctor("connectEstablished")
  /\ functors' = Tail(functors)
  /\ IF state_ = "kConnecting"
     THEN /\ state_' = "kConnected"
          /\ SetEvents(events_ \cup {"in"})
          /\ pc' = "callback"
          /\ UNCHANGED failed
     ELSE /\ failed' = "connectEstablished"
          /\ UNCHANGED <<state_, events_, index_, pc>>
  /\ UNCHANGED <<reading_, outputBuffer_, timers, removing, outVars>>

\* A connection still open is closed first, with its callback; then the channel
\* is removed.
ConnectDestroyed ==
  /\ NextFunctor("connectDestroyed")
  /\ functors' = Tail(functors)
  /\ state_' = IF state_ = "kConnected" THEN "kDisconnected" ELSE state_
  /\ \E c \in IF state_ = "kConnected" THEN Lowered
              ELSE {[events |-> events_, index |-> index_, reading |-> reading_]} :
       /\ events_' = c.events /\ reading_' = c.reading
       /\ IF Removable(c.index, c.events)
          THEN index_' = kNew /\ UNCHANGED failed
          ELSE index_' = c.index /\ failed' = "remove"
  /\ UNCHANGED <<outputBuffer_, pc, timers, removing, outVars>>

RunSend ==
  /\ NextFunctor("send")
  /\ SendInLoop(Head(functors).data, Tail(functors))
  /\ UNCHANGED <<state_, reading_, pc, timers, removing, shutWrite, failed>>

RunShutdown ==
  /\ NextFunctor("shutdown")
  /\ functors' = Tail(functors)
  /\ ShutdownInLoop
  /\ UNCHANGED <<connVars, pc, timers, removing, accepted, wire, fault, failed>>

\* Mutation: forceCloseInLoop() does not look at the state.
RunForceCloseAlways ==
  /\ NextFunctor("forceClose")
  /\ functors' = Tail(functors)
  /\ HandleClose
  /\ UNCHANGED <<outputBuffer_, pc, timers, outVars>>

\* forceCloseInLoop()
RunForceClose ==
  /\ NextFunctor("forceClose")
  /\ functors' = Tail(functors)
  /\ IF state_ \in {"kConnected", "kDisconnecting"}
     THEN HandleClose
     ELSE UNCHANGED <<state_, reading_, events_, index_, removing, failed>>
  /\ UNCHANGED <<outputBuffer_, pc, timers, outVars>>

RunReadControl ==
  /\ \/ NextFunctor("startRead") /\ StartReadInLoop
     \/ NextFunctor("stopRead") /\ StopReadInLoop
  /\ functors' = Tail(functors)
  /\ UNCHANGED <<state_, outputBuffer_, pc, timers, removing, outVars, failed>>

\* writeCompleteCallback_ and highWaterMarkCallback_
RunCallback ==
  /\ NextFunctor("writeComplete") \/ NextFunctor("highWaterMark")
  /\ functors' = Tail(functors)
  /\ pc' = "callback"
  /\ UNCHANGED <<connVars, timers, removing, outVars, failed>>

\* The functor of runAfter(), for a forceCloseWithDelay() on another thread
RunAddTimer ==
  /\ NextFunctor("forceCloseWithDelay")
  /\ functors' = Tail(functors)
  /\ timers' = timers + 1
  /\ UNCHANGED <<connVars, pc, removing, outVars, failed>>

-----------------------------------------------------------------------------
(* Calls of the user's callbacks, on the I/O loop *)

\* The units of the next send(): numbered from sent + 1.
NewData == {[i \in 1 .. n |-> sent + i] : n \in 1 .. MaxLen}

LoopCall(op) ==
  /\ pc \in {"message", "callback"}
  /\ op \in LoopCalls
  /\ made < MaxCalls
  /\ made' = made + 1
  /\ UNCHANGED <<pc, revents_, batch, call, serverVars, peer, inVars, failed>>

LoopSend ==
  /\ LoopCall("send")
  /\ state_ = "kConnected"
  /\ \E data \in NewData :
       /\ sent' = sent + Len(data)
       /\ SendInLoop(data, functors)
  /\ UNCHANGED <<state_, reading_, timers, shutWrite>>

LoopShutdown ==
  /\ LoopCall("shutdown")
  /\ state_ = "kConnected"
  /\ state_' = "kDisconnecting"
  /\ ShutdownInLoop
  /\ UNCHANGED <<reading_, events_, index_, outputBuffer_, timers, functors,
                 sent, accepted, wire, fault>>

\* forceClose() queues even on the loop's thread.
LoopForceClose ==
  /\ LoopCall("forceClose")
  /\ state_ \in {"kConnected", "kDisconnecting"}
  /\ state_' = "kDisconnecting"
  /\ functors' = Append(functors, Functor("forceClose"))
  /\ UNCHANGED <<reading_, events_, index_, outputBuffer_, timers, sent, outVars>>

LoopForceCloseWithDelay ==
  /\ LoopCall("forceCloseWithDelay")
  /\ state_ \in {"kConnected", "kDisconnecting"}
  /\ state_' = "kDisconnecting"
  /\ timers' = timers + 1
  /\ UNCHANGED <<reading_, events_, index_, outputBuffer_, functors, sent,
                 outVars>>

LoopReadControl ==
  /\ \/ LoopCall("startRead") /\ StartReadInLoop
     \/ LoopCall("stopRead") /\ StopReadInLoop
  /\ UNCHANGED <<state_, outputBuffer_, timers, functors, sent, outVars>>

CallbackReturns ==
  /\ pc \in {"message", "callback"}
  /\ pc' = IF pc = "message" THEN AfterRead(revents_) ELSE "functors"
  /\ UNCHANGED <<connVars, revents_, batch, timers, functors, userVars,
                 serverVars, peer, inVars, outVars, failed>>

-----------------------------------------------------------------------------
(* Calls of a user's thread t: check state_, write it, queue the functor *)

\* The states in which a call goes on
Allowed(op) ==
  CASE op \in {"send", "shutdown"} -> {"kConnected"}
    [] op \in {"forceClose", "forceCloseWithDelay"} -> {"kConnected", "kDisconnecting"}
    [] OTHER -> {"kConnected", "kDisconnecting", "kDisconnected"}

SetsState(op) == op \in {"shutdown", "forceClose", "forceCloseWithDelay"}

CheckState(t, op) ==
  /\ call[t] = Idle
  /\ op \in ThreadCalls
  /\ made < MaxCalls
  /\ made' = made + 1
  /\ state_ \in Allowed(op)
  /\ \E data \in IF op = "send" THEN NewData ELSE {<<>>} :
       /\ call' = [call EXCEPT ![t] =
                    [op |-> op, data |-> data,
                     step |-> IF SetsState(op) THEN "set" ELSE "queue"]]
       /\ sent' = sent + Len(data)
  /\ UNCHANGED <<connVars, loopVars, functors, serverVars, peer, inVars,
                 outVars, failed>>

SetState(t) ==
  /\ call[t].step = "set"
  /\ state_' = "kDisconnecting"
  /\ call' = [call EXCEPT ![t].step = "queue"]
  /\ UNCHANGED <<reading_, events_, index_, outputBuffer_, loopVars, functors,
                 made, sent, serverVars, peer, inVars, outVars, failed>>

\* runInLoop() or queueInLoop() on another thread
QueueCall(t) ==
  /\ call[t].step = "queue"
  /\ call' = [call EXCEPT ![t] = Idle]
  /\ functors' = Append(functors, [op |-> call[t].op, data |-> call[t].data])
  /\ UNCHANGED <<connVars, loopVars, made, sent, serverVars, peer, inVars,
                 outVars, failed>>

-----------------------------------------------------------------------------
(* The server's loop and the peer *)

\* Mutation: the connection is erased and nothing is queued for it.
RemoveConnectionForgets ==
  /\ removing > 0
  /\ removing' = removing - 1
  /\ connections_' = FALSE
  /\ UNCHANGED <<connVars, loopVars, functors, userVars, server, peer, inVars,
                 outVars, failed>>

\* TcpServer::removeConnectionInLoop(), with its assertion.
RemoveConnectionInLoop ==
  /\ removing > 0
  /\ removing' = removing - 1
  /\ connections_' = FALSE
  /\ IF connections_ /\ server
     THEN /\ functors' = Append(functors, Functor("connectDestroyed"))
          /\ UNCHANGED failed
     ELSE /\ failed' = IF server THEN "erase" ELSE "serverGone"
          /\ UNCHANGED functors
  /\ UNCHANGED <<connVars, loopVars, userVars, server, peer, inVars, outVars>>

\* TcpServer::~TcpServer()
DestroyServer ==
  /\ ServerDies
  /\ server
  /\ server' = FALSE
  /\ connections_' = FALSE
  /\ functors' = IF connections_ THEN Append(functors, Functor("connectDestroyed"))
                 ELSE functors
  /\ UNCHANGED <<connVars, loopVars, userVars, removing, peer, inVars, outVars,
                 failed>>

PeerSend ==
  /\ peer = "open"
  /\ received < MaxInput
  /\ received' = received + 1
  /\ inbox' = inbox + 1
  /\ UNCHANGED <<connVars, loopVars, functors, userVars, serverVars, peer,
                 outVars, failed>>

PeerClose ==
  /\ peer = "open"
  /\ peer' = "fin"
  /\ UNCHANGED <<connVars, loopVars, functors, userVars, serverVars, inVars,
                 outVars, failed>>

\* What has not been read is lost.
PeerReset ==
  /\ peer \in {"open", "fin"}
  /\ peer' = "rst"
  /\ inbox' = 0
  /\ UNCHANGED <<connVars, loopVars, functors, userVars, serverVars, received,
                 outVars, failed>>

-----------------------------------------------------------------------------
LoopStep ==
  \/ HandleHup \/ HandleReadData \/ HandleReadError \/ HandleReadEnd
  \/ HandleWrite \/ TimerFires \/ DoPendingFunctors \/ FunctorsDone
  \/ ConnectEstablished \/ ConnectDestroyed \/ RunSend \/ RunShutdown
  \/ RunForceClose \/ RunReadControl \/ RunCallback \/ RunAddTimer
  \/ CallbackReturns

LoopUser == \/ LoopSend \/ LoopShutdown \/ LoopForceClose
            \/ LoopForceCloseWithDelay \/ LoopReadControl

ThreadStep(t) == SetState(t) \/ QueueCall(t)

PeerStep == PeerSend \/ PeerClose \/ PeerReset

\* The process goes on until an assertion fails.
Running ==
  \/ Poll \/ LoopStep \/ LoopUser
  \/ \E t \in Threads : ThreadStep(t) \/ \E op \in Calls : CheckState(t, op)
  \/ RemoveConnectionInLoop \/ DestroyServer
  \/ PeerStep

Next == failed = "none" /\ Running

Spec == Init /\ [][Next]_vars

(***************************************************************************)
(* The loops and the threads go on, and timers fire.  The peer owes        *)
(* nothing, except that it reads: a socket the connection wants to write   *)
(* to takes data in the end.                                               *)
(***************************************************************************)
FairSpec ==
  /\ Spec
  /\ WF_vars(failed = "none" /\ Poll)
  /\ SF_vars(failed = "none" /\ Poll /\ "out" \in revents_')
  /\ WF_vars(failed = "none" /\ LoopStep)
  /\ SF_vars(failed = "none" /\ TimerFires)
  /\ WF_vars(failed = "none" /\ RemoveConnectionInLoop)
  /\ \A t \in Threads : WF_vars(failed = "none" /\ ThreadStep(t))

-----------------------------------------------------------------------------
(* Properties *)

Functors == [op : Calls \cup {"connectEstablished", "connectDestroyed",
                              "writeComplete", "highWaterMark"},
             data : Seq(Nat)]

\* The variables have their types; the round being run is in the queue.
TypeOK ==
  /\ state_ \in {"kConnecting", "kConnected", "kDisconnecting", "kDisconnected"}
  /\ reading_ \in BOOLEAN
  /\ events_ \in SUBSET Events /\ index_ \in Indices
  /\ outputBuffer_ \in Seq(Nat)
  /\ pc \in {"poll", "event", "message", "write", "functors", "callback"}
  /\ revents_ \in SUBSET {"in", "out", "hup"}
  /\ functors \in Seq(Functors)
  /\ batch \in 0 .. Len(functors)
  /\ timers \in Nat
  /\ call \in [Threads -> [op : Calls \cup {"none"}, data : Seq(Nat),
                           step : {"out", "set", "queue"}]]
  /\ made \in 0 .. MaxCalls /\ sent \in Nat
  /\ connections_ \in BOOLEAN /\ removing \in Nat /\ server \in BOOLEAN
  /\ peer \in {"open", "fin", "rst", "gone"}
  /\ inbox \in 0 .. MaxInput /\ received \in 0 .. MaxInput
  /\ shutWrite \in BOOLEAN /\ fault \in BOOLEAN
  /\ accepted \in Seq(Nat) /\ wire \in Seq(Nat)
  /\ failed \in {"none", "handleClose", "connectEstablished", "remove", "erase",
                 "serverGone"}

\* Unless a write has failed for good, what sendInLoop() has taken is what the
\* socket got followed by what is buffered: partial writes, direct or from
\* handleWrite(), neither lose nor reorder nor repeat a byte.
StreamInOrder == ~fault => accepted = wire \o outputBuffer_

\* While the connection is up the channel wants to write exactly when there is
\* something to write: neither a stalled buffer nor a busy loop.
WritingIffBuffered ==
  state_ \in {"kConnected", "kDisconnecting"} => (isWriting <=> outputBuffer_ # <<>>)

\* However the calls race, the channel never asks to write without data:
\* handleWrite() would write 0 bytes, take it for an error and be called again
\* at once, for ever.
WritingHasData == isWriting => outputBuffer_ # <<>>

\* shutdown() truncates no buffered output: while the connection is up the write
\* side is shut down only with an empty buffer.  (A send() still queued on the
\* loop then is another matter: its write fails.)
ShutdownDrains ==
  state_ = "kDisconnecting" /\ shutWrite => outputBuffer_ = <<>>

\* No assertion of TcpConnection, Channel, EPollPoller or TcpServer fails.
AssertionsHold == failed = "none"

\* Closed connections are taken out of the server and of the poller.
ClosedIsDestroyed == state_ = "kDisconnected" ~> (index_ = kNew /\ ~connections_)

\* A shutdown() reaches the socket, after the buffer, unless the connection
\* ends first.
ShutdownCompletes ==
  state_ = "kDisconnecting" ~> (shutWrite \/ state_ = "kDisconnected")

\* assert(n == 1) in TcpServer::removeConnectionInLoop()
EraseAssertion == failed # "erase"
=============================================================================
