------------------------------ MODULE Connector ------------------------------
(***************************************************************************)
(* siren::net::Connector: attempts to connect, one at a time, with a       *)
(* growing delay between them.                                             *)
(*                                                                         *)
(* The module has the connector's state and what each of its functions     *)
(* does to it; TcpClient puts them on a loop.  A function that queues on   *)
(* the loop gets the queue as a parameter, since its caller may have taken *)
(* a functor from it.  A delay is a number: kInitRetryDelayMs doubles up   *)
(* to kMaxRetryDelayMs.                                                    *)
(***************************************************************************)
EXTENDS Naturals, Sequences

CONSTANTS kInitRetryDelayMs, kMaxRetryDelayMs

ASSUME ConnectorAssumption ==
  /\ kInitRetryDelayMs \in Nat \ {0}
  /\ kMaxRetryDelayMs \in Nat /\ kInitRetryDelayMs <= kMaxRetryDelayMs

VARIABLES
  connect_,        \* written by any thread
  state_,
  channel_,        \* channel_ is not null
  retryDelayMs_,
  timers,          \* timers of retry() that have not expired
  functors,        \* functors queued on the loop
  open,            \* sockets made by connect() and not closed
  gaveUp,          \* connect() failed with an error that is not retried
  failed           \* the assertion that has ended the process, or "none"

attempt == <<state_, channel_, retryDelayMs_, timers, open, gaveUp>>

ConnectorInit ==
  /\ connect_ = FALSE /\ state_ = "kDisconnected" /\ channel_ = FALSE
  /\ retryDelayMs_ = kInitRetryDelayMs /\ timers = 0
  /\ functors = <<>> /\ open = 0 /\ gaveUp = FALSE /\ failed = "none"

\* Mutation: the delay is doubled without a limit.
DoubledUncapped(delay) == IF delay <= kMaxRetryDelayMs THEN 2 * delay ELSE delay

Doubled(delay) ==
  IF 2 * delay <= kMaxRetryDelayMs THEN 2 * delay ELSE kMaxRetryDelayMs

\* Mutation: no timer is set for the next attempt when the delay is at its maximum.
RetryForgets(wanted, delay, sockets) ==
  /\ open' = sockets - 1
  /\ state_' = "kDisconnected"
  /\ timers' = IF wanted /\ delay < kMaxRetryDelayMs THEN timers + 1 ELSE timers
  /\ retryDelayMs_' = Doubled(delay)

\* Mutation: the socket of the failed attempt is not closed.
RetryLeaks(wanted, delay, sockets) ==
  /\ open' = sockets
  /\ state_' = "kDisconnected"
  /\ timers' = IF wanted THEN timers + 1 ELSE timers
  /\ retryDelayMs_' = IF wanted THEN Doubled(delay) ELSE delay

\* retry(): one of the open sockets is closed, another attempt comes later.
Retry(wanted, delay, sockets) ==
  /\ open' = sockets - 1
  /\ state_' = "kDisconnected"
  /\ timers' = IF wanted THEN timers + 1 ELSE timers
  /\ retryDelayMs_' = IF wanted THEN Doubled(delay) ELSE delay

\* connecting(): the channel of the attempt is made and watched.
Connecting(delay) ==
  /\ state_' = "kConnecting"
  /\ open' = open + 1
  /\ channel_' = TRUE
  /\ failed' = IF channel_ THEN "connecting" ELSE failed
  /\ retryDelayMs_' = delay
  /\ UNCHANGED <<timers, gaveUp>>

\* connect(): the attempt is under way, or fails and is retried, or fails for good.
\* startInLoop() has found connect_ set, and retry() reads it again: a stop() that
\* another thread makes in between counts as made afterwards.  What differs is only
\* a timer, whose startInLoop() then finds connect_ cleared and does nothing.
Connect(delay) ==
  \/ Connecting(delay)
  \/ Retry(TRUE, delay, open + 1) /\ UNCHANGED <<channel_, gaveUp, failed>>
  \/ /\ gaveUp' = TRUE
     /\ retryDelayMs_' = delay
     /\ state_' = "kDisconnected"
     /\ UNCHANGED <<channel_, timers, open, failed>>

\* Mutation: startInLoop() does not look at connect_.
StartInLoopAnyway(state, wanted, delay) ==
  IF state # "kDisconnected"
  THEN failed' = "startInLoop" /\ UNCHANGED attempt
  ELSE Connect(delay)

\* startInLoop(), with the values restart() or an earlier call has left.
StartInLoop(state, wanted, delay) ==
  \/ /\ state # "kDisconnected"
     /\ failed' = "startInLoop"
     /\ UNCHANGED attempt
  \/ state = "kDisconnected" /\ wanted /\ Connect(delay)
  \/ /\ state = "kDisconnected" /\ ~wanted
     /\ UNCHANGED <<attempt, failed>>

\* restart(): connect_ is set whatever it was.
Restart ==
  /\ connect_' = TRUE
  /\ StartInLoop("kDisconnected", TRUE, kInitRetryDelayMs)

\* removeAndResetChannel(): the channel is not watched any more, and reset later.
RemoveAndResetChannel(q) == functors' = Append(q, "resetChannel")

\* stopInLoop(): an attempt under way is dropped.
StopInLoop(q) ==
  /\ IF state_ = "kConnecting"
     THEN RemoveAndResetChannel(q) /\ Retry(connect_, retryDelayMs_, open)
     ELSE functors' = q /\ UNCHANGED <<state_, timers, retryDelayMs_, open>>
  /\ UNCHANGED <<channel_, gaveUp, failed>>

\* Mutation: resetChannel() is not queued.
AttemptFailsKeepsChannel ==
  /\ functors' = functors
  /\ Retry(connect_, retryDelayMs_, open)
  /\ UNCHANGED <<channel_, gaveUp, failed>>

\* handleWrite() finds an error or a connection to itself, or handleError() is
\* called, after which the handleWrite() of the same event finds kDisconnected.
AttemptFails ==
  /\ RemoveAndResetChannel(functors)
  /\ Retry(connect_, retryDelayMs_, open)
  /\ UNCHANGED <<channel_, gaveUp, failed>>

\* handleWrite() finds the connection up: handed over if it is still wanted.
AttemptSucceeds ==
  /\ RemoveAndResetChannel(functors)
  /\ state_' = "kConnected"
  /\ open' = IF connect_ THEN open ELSE open - 1
  /\ UNCHANGED <<channel_, retryDelayMs_, timers, gaveUp>>
=============================================================================
