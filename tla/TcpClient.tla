------------------------------ MODULE TcpClient ------------------------------
(***************************************************************************)
(* siren::net::TcpClient with its Connector on one loop.                   *)
(*                                                                         *)
(* Three actors: the loop (a poll that reports the connector's channel,    *)
(* expired retry timers and the end of the connection; then the batch of   *)
(* functors), the user's code on the loop, and one other thread of the     *)
(* user.  A call is the sequence of its accesses to shared state (Steps),  *)
(* taken one at a time; the loop waits for the calls made on it.           *)
(*                                                                         *)
(* Of the TcpConnection only its life matters here; TcpConnection.tla has  *)
(* the rest.                                                               *)
(***************************************************************************)
EXTENDS Connector, FiniteSets

CONSTANTS
  LoopCalls,     \* calls the user's code makes on the loop
  ThreadCalls,   \* calls the user's thread makes
  MaxConnects,   \* bound: calls of connect()
  MaxCalls       \* bound: calls in all

Actors == {"loop", "thread"}
Calls == {"connect", "disconnect", "stop", "enableRetry", "destroy"}

ASSUME TcpClientAssumption ==
  /\ LoopCalls \subseteq Calls /\ ThreadCalls \subseteq Calls
  /\ MaxConnects \in Nat /\ MaxCalls \in Nat

VARIABLES
  clientConnect,   \* TcpClient::connect_
  retry_,
  connection_,     \* the client holds a connection
  closeCb,         \* the close callback of the connection: client or detail
  conn,            \* the connection: none, up, shut (write side shut down)
  client,          \* the TcpClient: alive, dying (in its destructor), gone
  linger,          \* the timer that ~TcpClient() sets to keep the connector is pending
  pc,              \* the loop: poll, events, restart, functors
  active,          \* what the poll reported and is yet to be handled
  due,             \* expired timers of the round yet to be called
  batch,           \* functors of the round yet to be run
  todo,            \* what is left of the call the loop or the thread is making
  made, connects,  \* calls made, and those of connect()
  stopped          \* no, stopping (in stop()), yes: stop() has returned and no
                   \* connect() has overlapped or followed it

clientVars == <<clientConnect, retry_, connection_, closeCb, conn, client, linger>>
loopVars == <<pc, active, due, batch>>
userVars == <<todo, made, connects, stopped>>
vars == <<connect_, attempt, functors, failed, clientVars, loopVars, userVars>>

Init ==
  /\ ConnectorInit
  /\ clientConnect = TRUE /\ retry_ = FALSE /\ connection_ = FALSE
  /\ closeCb = "client" /\ conn = "none" /\ client = "alive" /\ linger = FALSE
  /\ pc = "poll" /\ active = {} /\ due = 0 /\ batch = 0
  /\ todo = [a \in Actors |-> <<>>] /\ made = 0 /\ connects = 0 /\ stopped = "no"

\* ~Connector() has run: the client, the timers of retry() and the timer of
\* ~TcpClient() held the only references.
Freed == client = "gone" /\ ~linger /\ timers + due = 0

\* No assertion has failed, that of ~Connector() that its channel has been reset
\* included, and nothing freed has been used.
Running == failed = "none" /\ ~(Freed /\ channel_)

-----------------------------------------------------------------------------
(* The loop: events *)

Events == {"channel", "conn", "linger"}
Reportable(e) == \/ e = "channel" /\ state_ = "kConnecting"
                 \/ e = "conn" /\ conn # "none"
                 \/ e = "linger" /\ linger

\* A channel is reported when epoll likes to; timers expire when they like to.
Poll ==
  /\ pc = "poll"
  /\ active' \in SUBSET {e \in Events : Reportable(e)}
  /\ \E n \in 0 .. timers : due' = n /\ timers' = timers - n
  /\ pc' = "events"
  /\ UNCHANGED <<connect_, state_, channel_, retryDelayMs_, open, gaveUp,
                 functors, failed, clientVars, batch, userVars>>

Event(e) ==
  /\ pc = "events"
  /\ e \in active
  /\ active' = active \ {e}
  /\ UNCHANGED <<due, batch, userVars>>

HandleError ==
  /\ Event("channel")
  /\ AttemptFails
  /\ UNCHANGED <<connect_, clientVars, pc>>

\* newConnection(), when the connector hands its socket over.
NewConnection ==
  /\ connection_' = TRUE /\ conn' = "up" /\ closeCb' = "client"
  /\ failed' = IF client # "gone" THEN failed ELSE "clientGone"

HandleWrite ==
  /\ Event("channel")
  /\ AttemptSucceeds
  /\ IF connect_ THEN NewConnection
                 ELSE UNCHANGED <<connection_, conn, closeCb, failed>>
  /\ UNCHANGED <<connect_, clientConnect, retry_, client, linger, pc>>

\* The timer of retry() calls startInLoop().
RetryTimer ==
  /\ pc = "events" /\ due > 0
  /\ due' = due - 1
  /\ StartInLoop(state_, connect_, retryDelayMs_)
  /\ UNCHANGED <<connect_, functors, clientVars, pc, active, batch, userVars>>

\* The connection closes and calls removeConnection() of TcpClient, up to the
\* test of retry_ and connect_, or the one ~TcpClient() has put in its place.
RemoveConnection(q, next) ==
  /\ conn' = "none"
  /\ functors' = Append(q, "connectDestroyed")
  /\ IF closeCb = "client"
     THEN /\ connection_' = FALSE
          /\ failed' = IF client # "gone" THEN failed ELSE "clientGone"
          /\ pc' = IF retry_ /\ clientConnect THEN "restart" ELSE next
     ELSE pc' = next /\ UNCHANGED <<failed, connection_>>

ConnectionCloses ==
  /\ Event("conn") /\ conn # "none"
  /\ RemoveConnection(functors, pc)
  /\ UNCHANGED <<connect_, attempt, clientConnect, retry_, closeCb, client, linger>>

\* The rest of removeConnection(): Connector::restart().
RestartConnector ==
  /\ pc = "restart"
  /\ pc' = IF batch > 0 THEN "functors" ELSE "events"
  /\ IF client # "gone" THEN Restart
     ELSE failed' = "clientGone" /\ UNCHANGED <<connect_, attempt>>
  /\ UNCHANGED <<functors, clientVars, active, due, batch, userVars>>

\* The timer of ~TcpClient() calls the empty removeConnector() and lets go.
RemoveConnector ==
  /\ Event("linger")
  /\ linger' = FALSE
  /\ UNCHANGED <<connect_, attempt, functors, failed, clientConnect, retry_,
                 connection_, closeCb, conn, client, pc>>

-----------------------------------------------------------------------------
(* The loop: functors *)

DoPendingFunctors ==
  /\ pc = "events" /\ active = {} /\ due = 0
  /\ pc' = IF functors = <<>> THEN "poll" ELSE "functors"
  /\ batch' = Len(functors)
  /\ UNCHANGED <<connect_, attempt, functors, failed, clientVars, active, due,
                 userVars>>

\* The next functor of the round is f; the last one ends it.
Functor(f) ==
  /\ pc = "functors"
  /\ Head(functors) = f
  /\ batch' = batch - 1
  /\ UNCHANGED <<active, due, userVars>>
Then == IF batch = 1 THEN "poll" ELSE "functors"

\* A functor bound to the connector's address finds it freed.
ConnectorGone ==
  /\ \E f \in {"startInLoop", "stopInLoop", "resetChannel"} : Functor(f)
  /\ Freed
  /\ failed' = "connectorGone"
  /\ UNCHANGED <<connect_, attempt, functors, clientVars, pc>>

RunStart ==
  /\ Functor("startInLoop") /\ ~Freed
  /\ functors' = Tail(functors) /\ pc' = Then
  /\ StartInLoop(state_, connect_, retryDelayMs_)
  /\ UNCHANGED <<connect_, clientVars>>

RunStop ==
  /\ Functor("stopInLoop") /\ ~Freed
  /\ StopInLoop(Tail(functors)) /\ pc' = Then
  /\ UNCHANGED <<connect_, clientVars>>

ResetChannel ==
  /\ Functor("resetChannel") /\ ~Freed
  /\ functors' = Tail(functors) /\ pc' = Then
  /\ channel_' = FALSE
  /\ UNCHANGED <<connect_, state_, retryDelayMs_, timers, open, gaveUp, failed,
                 clientVars>>

\* The connection is destroyed and its socket closed.
ConnectDestroyed ==
  /\ Functor("connectDestroyed")
  /\ functors' = Tail(functors) /\ pc' = Then
  /\ open' = open - 1
  /\ UNCHANGED <<connect_, state_, channel_, retryDelayMs_, timers, gaveUp,
                 failed, clientVars>>

RunSetCloseCallback ==
  /\ Functor("setCloseCallback")
  /\ functors' = Tail(functors) /\ pc' = Then
  /\ closeCb' = "detail"
  /\ UNCHANGED <<connect_, attempt, failed, clientConnect, retry_, connection_,
                 conn, client, linger>>

RunForceClose ==
  /\ Functor("forceClose")
  /\ IF conn # "none" THEN RemoveConnection(Tail(functors), Then)
     ELSE functors' = Tail(functors) /\ pc' = Then
          /\ UNCHANGED <<conn, connection_, failed>>
  /\ UNCHANGED <<connect_, attempt, clientConnect, retry_, closeCb, client, linger>>

-----------------------------------------------------------------------------
(* The user *)

\* What a call does, one access to shared state at a time.
Steps(op) ==
  CASE op = "connect" -> <<"client+", "connector+", "startInLoop">>
    [] op = "stop" -> <<"client-", "connector-", "stopInLoop">>
    [] op = "disconnect" -> <<"client-", "shutdown">>
    [] op = "enableRetry" -> <<"retry">>
    [] op = "destroy" -> <<"lookup">>

\* A connect() has not finished.
Starting == \E a \in Actors : \E i \in DOMAIN todo[a] : todo[a][i] = "startInLoop"

\* connect() is called, or called again once stop() has returned or the
\* connection has closed.
Again == connects = 0 \/ stopped = "yes" \/ (state_ = "kConnected" /\ conn = "none")

\* A call begins, on the loop from an event or a functor.  Nobody calls a client
\* that is being destroyed, or stops one before its connect() has returned.
Call(a, op) ==
  /\ IF a = "loop" THEN op \in LoopCalls /\ pc \in {"events", "functors"}
                   ELSE op \in ThreadCalls
  /\ client = "alive" /\ todo[a] = <<>> /\ made < MaxCalls
  /\ op = "connect" => connects < MaxConnects /\ Again
  /\ op = "stop" => connects > 0 /\ ~Starting
  /\ op = "destroy" => \A b \in Actors : todo[b] = <<>>
  /\ todo' = [todo EXCEPT ![a] = Steps(op)]
  /\ made' = made + 1
  /\ connects' = IF op = "connect" THEN connects + 1 ELSE connects
  /\ client' = IF op = "destroy" THEN "dying" ELSE client
  /\ stopped' = CASE op = "connect" -> "no"
                  [] op = "stop" -> "stopping"
                  [] OTHER -> stopped
  /\ UNCHANGED <<connect_, attempt, functors, failed, clientConnect, retry_,
                 connection_, closeCb, conn, linger, loopVars>>

\* The next step of the call of a is s.
Step(a, s) ==
  /\ todo[a] # <<>> /\ Head(todo[a]) = s
  /\ todo' = [todo EXCEPT ![a] = Tail(@)]
  /\ UNCHANGED <<loopVars, made, connects>>

SetConnect(a, s) ==
  /\ Step(a, s)
  /\ \/ s = "client+" /\ clientConnect' = TRUE /\ UNCHANGED connect_
     \/ s = "client-" /\ clientConnect' = FALSE /\ UNCHANGED connect_
     \/ s = "connector+" /\ connect_' = TRUE /\ UNCHANGED clientConnect
     \/ s = "connector-" /\ connect_' = FALSE /\ UNCHANGED clientConnect
  /\ UNCHANGED <<attempt, functors, failed, retry_, connection_, closeCb, conn,
                 client, linger, stopped>>

\* enableRetry(); disconnect(), which shuts the connection down.
SetRetry(a) ==
  /\ Step(a, "retry")
  /\ retry_' = TRUE
  /\ UNCHANGED <<connect_, attempt, functors, failed, clientConnect, connection_,
                 closeCb, conn, client, linger, stopped>>
Disconnect(a) ==
  /\ Step(a, "shutdown")
  /\ conn' = IF connection_ THEN "shut" ELSE conn
  /\ UNCHANGED <<connect_, attempt, functors, failed, clientConnect, retry_,
                 connection_, closeCb, client, linger, stopped>>

\* runInLoop(): at once on the loop.
StartNow ==
  /\ Step("loop", "startInLoop")
  /\ StartInLoop(state_, connect_, retryDelayMs_)
  /\ UNCHANGED <<connect_, functors, clientVars, stopped>>
SetCloseCallbackNow ==
  /\ Step("loop", "setCloseCallback")
  /\ closeCb' = "detail"
  /\ UNCHANGED <<connect_, attempt, functors, failed, clientConnect, retry_,
                 connection_, conn, client, linger, stopped>>

\* queueInLoop(), and runInLoop() on the other thread.
Queue(a, f) ==
  /\ Step(a, f)
  /\ a = "loop" => f \in {"stopInLoop", "forceClose"}
  /\ functors' = Append(functors, f)
  /\ stopped' = IF f = "stopInLoop" /\ stopped = "stopping" THEN "yes" ELSE stopped
  /\ UNCHANGED <<connect_, attempt, failed, clientVars>>

\* Mutation: ~TcpClient() does not stop the connector.
TeardownsOnly == IF connection_ THEN {<<"setCloseCallback", "free">>} ELSE {<<"release">>}

\* ~TcpClient(): a connection gets another close callback, and is closed when
\* nobody else holds it; without one the connector is stopped.
Teardowns ==
  IF connection_ THEN {<<"setCloseCallback", "free">>,
                       <<"setCloseCallback", "forceClose", "free">>}
                 ELSE {<<"connector-", "stopInLoop", "release">>}
LookUp(a) ==
  /\ todo[a] = <<"lookup">>
  /\ \E steps \in Teardowns : todo' = [todo EXCEPT ![a] = steps]
  /\ UNCHANGED <<connect_, attempt, functors, failed, clientVars, loopVars, made,
                 connects, stopped>>

\* The members go; a connector that was stopped is held by a timer of its own.
Release(a, s) ==
  /\ Step(a, s) /\ s \in {"free", "release"}
  /\ client' = "gone"
  /\ linger' = (s = "release")
  /\ UNCHANGED <<connect_, attempt, functors, failed, clientConnect, retry_,
                 connection_, closeCb, conn, stopped>>

-----------------------------------------------------------------------------
LoopNext ==
  /\ todo["loop"] = <<>>
  /\ \/ Poll \/ HandleError \/ HandleWrite \/ RetryTimer \/ ConnectionCloses
     \/ RestartConnector \/ RemoveConnector \/ DoPendingFunctors
     \/ ConnectorGone \/ RunStart \/ RunStop \/ ResetChannel
     \/ ConnectDestroyed \/ RunSetCloseCallback \/ RunForceClose

CallNext(a) ==
  \/ \E s \in {"client+", "client-", "connector+", "connector-"} : SetConnect(a, s)
  \/ SetRetry(a) \/ Disconnect(a) \/ LookUp(a)
  \/ \E f \in {"startInLoop", "stopInLoop", "setCloseCallback", "forceClose"} :
       Queue(a, f)
  \/ \E s \in {"free", "release"} : Release(a, s)

\* A failed assertion ends the process.
Next ==
  /\ Running
  /\ \/ LoopNext \/ StartNow \/ SetCloseCallbackNow
     \/ \E a \in Actors : CallNext(a) \/ \E op \in Calls : Call(a, op)

Spec == Init /\ [][Next]_vars

-----------------------------------------------------------------------------
(* Fairness: the loop goes on and calls come to their end; timers expire; a
   server asked again and again takes an attempt and answers at last. *)
Going(A) == Running /\ todo["loop"] = <<>> /\ A
Fairness ==
  /\ WF_vars(Running /\ LoopNext)
  /\ WF_vars(Running /\ (StartNow \/ SetCloseCallbackNow))
  /\ \A a \in Actors : WF_vars(Running /\ CallNext(a))
  /\ SF_vars(Going(Poll /\ timers > 0 /\ due' > 0))
  /\ SF_vars(Going(RetryTimer /\ state_' = "kConnecting"))
  /\ SF_vars(Going(Poll /\ "channel" \in active'))
  /\ SF_vars(Going(HandleWrite))
FairSpec == Spec /\ Fairness

-----------------------------------------------------------------------------
(* Properties *)

TypeOK ==
  /\ connect_ \in BOOLEAN /\ channel_ \in BOOLEAN /\ gaveUp \in BOOLEAN
  /\ state_ \in {"kDisconnected", "kConnecting", "kConnected"}
  /\ retryDelayMs_ \in kInitRetryDelayMs .. kMaxRetryDelayMs
  /\ timers \in Nat /\ open \in Nat /\ due \in Nat /\ batch \in 0 .. Len(functors)
  /\ functors \in Seq({"startInLoop", "stopInLoop", "resetChannel",
                       "connectDestroyed", "setCloseCallback", "forceClose"})
  /\ clientConnect \in BOOLEAN /\ retry_ \in BOOLEAN /\ connection_ \in BOOLEAN
  /\ closeCb \in {"client", "detail"} /\ conn \in {"none", "up", "shut"}
  /\ client \in {"alive", "dying", "gone"} /\ linger \in BOOLEAN
  /\ pc \in {"poll", "events", "restart", "functors"}
  /\ active \subseteq Events
  /\ made \in 0 .. MaxCalls /\ connects \in 0 .. MaxConnects
  /\ stopped \in {"no", "stopping", "yes"}

Count(f) == Cardinality({i \in DOMAIN functors : functors[i] = f})
Held(b) == IF b THEN 1 ELSE 0

\* Every socket that connect() made is that of the attempt under way, of the
\* connection, or of a connection whose connectDestroyed() is queued: retry(),
\* stopInLoop(), handleWrite() and the close callbacks leak none and close none
\* twice.
SocketsAccounted ==
  failed = "none" =>
    open = Held(state_ = "kConnecting") + Held(conn # "none")
           + Count("connectDestroyed")

\* The assertions of startInLoop() and connecting() hold: a retry timer, a queued
\* start and a restart never meet an attempt or a connection.
StartsAlone == failed \notin {"startInLoop", "connecting"}

\* No callback of the connector or of the connection reaches a destroyed client.
ClientNotCalledAfterDeath == failed # "clientGone"

\* After stop() no attempt begins until connect() is called again.
StopIsFinal ==
  [][stopped = "yes" /\ state_ # "kConnecting" => state_' # "kConnecting"]_vars

\* A client that wants a connection and is left alone gets it, or an error that is
\* not retried, however many attempts fail.
ConnectSucceeds ==
  (connect_ /\ state_ # "kConnected") ~>
    (state_ = "kConnected" \/ gaveUp \/ ~connect_ \/ ~Running)
=============================================================================
