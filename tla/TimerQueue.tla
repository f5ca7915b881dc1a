----------------------------- MODULE TimerQueue -----------------------------
(***************************************************************************)
(* siren::net::TimerQueue with Timer, and EventLoop::runAt(), runAfter()   *)
(* and runEvery(): the timers of one loop, kept in a std::set ordered by   *)
(* expiration, and the one timerfd that is armed for the earliest of them. *)
(*                                                                         *)
(* Time is a counter of clock ticks.  The delay given to timerfd_settime() *)
(* is in whole microseconds, which is coarser than the clock: it is cut    *)
(* down to a multiple of Microsecond, so the timerfd may fire before the   *)
(* timer it was armed for is due.  The clock is assumed not to be set.     *)
(***************************************************************************)
EXTENDS Integers

CONSTANTS
  Timers,        \* Timer objects; each is created at most once
  MaxTime,       \* bound: the clock stops here
  Microsecond,   \* ticks per microsecond
  MinDelay,      \* minDelayMicroseconds, in ticks
  Second,        \* ticks per second
  Delays,        \* the delays, from now, that runAt()/runAfter() are called with
  Intervals,     \* the intervals that runEvery() is called with
  Off            \* the timerfd is neither armed nor readable

ASSUME TimerQueueAssumption ==
  /\ MaxTime \in Nat
  /\ Microsecond \in Nat \ {0} /\ MinDelay \in Nat \ {0} /\ Second \in Nat \ {0}
  /\ Delays \subseteq Nat
  /\ Intervals \subseteq Nat \ {0}
  /\ Off \notin Nat

VARIABLES
  now,            \* std::chrono::system_clock::now()
  timers_,        \* the timers in the set
  timerfd_,       \* when the timerfd becomes readable, or Off
  pc,             \* where the loop thread is
  readTime,       \* the local "now" of handleRead(); 0 outside
  expired,        \* the local vector of handleRead()
  called,         \* those of it whose callback has been called
  status,         \* of each timer: new, adding, live, dropped, deleted
  expiration_, interval_,
  returning       \* timers whose addTimer(), on another thread, has yet to
                  \* read timer->sequence()

timerVars == <<status, expiration_, interval_>>
callVars == <<readTime, expired, called>>
vars == <<now, timers_, timerfd_, pc, callVars, timerVars, returning>>

Init ==
  /\ now = 0
  /\ timers_ = {}
  /\ timerfd_ = Off
  /\ pc = "loop"
  /\ readTime = 0
  /\ expired = {}
  /\ called = {}
  /\ status = [t \in Timers |-> "new"]
  /\ expiration_ = [t \in Timers |-> 0]
  /\ interval_ = [t \in Timers |-> 0]
  /\ returning = {}

Larger(x, y) == IF x > y THEN x ELSE y

\* Mutation: the delay to a timer already due is negative.
HowMuchTimeFromNowNoMin(when) == ((when - now) \div Microsecond) * Microsecond

\* howMuchTimeFromNow(): whole microseconds, and never so few as to disarm.
HowMuchTimeFromNow(when) ==
  Larger(((when - now) \div Microsecond) * Microsecond, MinDelay)

\* Mutation: no minimum, so that a delay of 0 disarms the timerfd.
ResetTimerfdNoMin(when) ==
  IF (when - now) \div Microsecond > 0
  THEN now + ((when - now) \div Microsecond) * Microsecond ELSE Off

\* resetTimerfd(): a readable timerfd also becomes unreadable.
ResetTimerfd(when) == now + HowMuchTimeFromNow(when)

Readable == timerfd_ # Off /\ timerfd_ <= now

\* addTimer() takes its interval, a double, as an int64_t of seconds.
ToInt64(interval) == (interval \div Second) * Second

-----------------------------------------------------------------------------
Tick ==
  /\ now < MaxTime
  /\ now' = now + 1
  /\ UNCHANGED <<timers_, timerfd_, pc, callVars, timerVars, returning>>

\* The arguments that addTimer() gets from runAt() or runAfter(), which do not
\* repeat, and from runEvery().
Requests ==
  {[when |-> now + d, interval |-> 0] : d \in Delays}
    \cup {[when |-> now + i, interval |-> ToInt64(i)] : i \in Intervals}

\* new Timer(cb, when, interval)
NewTimer(t, r) ==
  /\ status[t] = "new"
  /\ expiration_' = [expiration_ EXCEPT ![t] = r.when]
  /\ interval_' = [interval_ EXCEPT ![t] = r.interval]

\* Mutation: the timerfd is armed only for the first timer of the set.
InsertFirstOnly(t, when) ==
  LET inserted == \A u \in timers_ : expiration_[u] # when IN
  /\ timers_' = IF inserted THEN timers_ \cup {t} ELSE timers_
  /\ status' = [status EXCEPT ![t] = IF inserted THEN "live" ELSE "dropped"]
  /\ timerfd_' = IF timers_ = {} THEN ResetTimerfd(when) ELSE timerfd_

\* addTimerInLoop() with insert(): TimerCmp compares expirations only, so the
\* set refuses a timer that expires with one it holds, and nobody looks.
Insert(t, when) ==
  LET earliestChanged == \A u \in timers_ : when < expiration_[u]
      inserted == \A u \in timers_ : expiration_[u] # when
  IN
  /\ timers_' = IF inserted THEN timers_ \cup {t} ELSE timers_
  /\ status' = [status EXCEPT ![t] = IF inserted THEN "live" ELSE "dropped"]
  /\ timerfd_' = IF earliestChanged THEN ResetTimerfd(when) ELSE timerfd_

\* addTimer() on the loop thread, outside handleRead() or in a callback.
AddTimer(t) ==
  /\ pc \in {"loop", "reported", "callback"}
  /\ \E r \in Requests : NewTimer(t, r) /\ Insert(t, r.when)
  /\ UNCHANGED <<now, pc, callVars, returning>>

\* addTimer() on another thread hands addTimerInLoop() to the loop ...
AddTimerElsewhere(t) ==
  /\ \E r \in Requests : NewTimer(t, r)
  /\ status' = [status EXCEPT ![t] = "adding"]
  /\ returning' = returning \cup {t}
  /\ UNCHANGED <<now, timers_, timerfd_, pc, callVars>>

\* ... which runs it from doPendingFunctors() ...
AddTimerInLoop(t) ==
  /\ pc = "loop"
  /\ status[t] = "adding"
  /\ Insert(t, expiration_[t])
  /\ UNCHANGED <<now, pc, callVars, expiration_, interval_, returning>>

\* ... while addTimer() reads timer->sequence() and returns.
ReturnTimerId(t) ==
  /\ t \in returning
  /\ returning' = returning \ {t}
  /\ UNCHANGED <<now, timers_, timerfd_, pc, callVars, timerVars>>

-----------------------------------------------------------------------------
(* The loop thread *)

\* epoll_wait() reports the timerfd.
Poll ==
  /\ pc = "loop"
  /\ Readable
  /\ pc' = "reported"
  /\ UNCHANGED <<now, timers_, timerfd_, callVars, timerVars, returning>>

\* Mutation: the set is searched with a later time than now.
GetExpiredEarly == {t \in timers_ : expiration_[t] <= now + 1}

\* Everything before upper_bound(now).
GetExpired == {t \in timers_ : expiration_[t] <= now}

\* handleRead() up to the callbacks.  A callback that ran since the report may
\* have re-armed the timerfd; the read then fails and leaves it armed.
HandleRead ==
  /\ pc = "reported"
  /\ readTime' = now
  /\ timerfd_' = IF Readable THEN Off ELSE timerfd_
  /\ expired' = GetExpired
  /\ timers_' = timers_ \ GetExpired
  /\ called' = {}
  /\ pc' = "calling"
  /\ UNCHANGED <<now, timerVars, returning>>

\* The callbacks are called in the order of the set.
Run(t) ==
  /\ pc = "calling"
  /\ t \in expired \ called
  /\ \A u \in expired \ called : expiration_[t] <= expiration_[u]
  /\ called' = called \cup {t}
  /\ pc' = "callback"
  /\ UNCHANGED <<now, timers_, timerfd_, readTime, expired, timerVars, returning>>

CallbackReturns ==
  /\ pc = "callback"
  /\ pc' = "calling"
  /\ UNCHANGED <<now, timers_, timerfd_, callVars, timerVars, returning>>

\* Timer::repeat() and the expiration that restart() sets
Repeat(t) == interval_[t] > 0
Restarted(t) == readTime + interval_[t]

\* Of the repeating timers of the vector the set accepts, for each new
\* expiration it does not hold yet, the first one.
Reinserted ==
  {t \in expired :
    /\ Repeat(t)
    /\ \A u \in timers_ : expiration_[u] # Restarted(t)
    /\ \A u \in expired : Repeat(u) /\ Restarted(u) = Restarted(t)
                            => expiration_[t] <= expiration_[u]}

\* Mutation: a repeating timer is not put back into the set.
ResetForgets ==
  /\ pc = "calling"
  /\ called = expired
  /\ expiration_' = [t \in Timers |-> IF t \in expired /\ Repeat(t)
                                      THEN Restarted(t) ELSE expiration_[t]]
  /\ status' = [t \in Timers |-> IF t \in expired /\ ~Repeat(t)
                                 THEN "deleted" ELSE status[t]]
  /\ IF timers_ = {} THEN timerfd_' = timerfd_
     ELSE \E t \in timers_ :
            /\ \A u \in timers_ : expiration_'[t] <= expiration_'[u]
            /\ timerfd_' = ResetTimerfd(expiration_'[t])
  /\ expired' = {}
  /\ called' = {}
  /\ readTime' = 0
  /\ pc' = "loop"
  /\ UNCHANGED <<now, timers_, interval_, returning>>

\* reset(): repeating timers are restarted and re-inserted, the others are
\* deleted; then the timerfd is armed for the earliest, if there is one.
Reset ==
  /\ pc = "calling"
  /\ called = expired
  /\ timers_' = timers_ \cup Reinserted
  /\ expiration_' = [t \in Timers |-> IF t \in expired /\ Repeat(t)
                                      THEN Restarted(t) ELSE expiration_[t]]
  /\ status' = [t \in Timers |->
                 CASE t \in expired /\ ~Repeat(t) -> "deleted"
                   [] t \in expired /\ Repeat(t) /\ t \notin Reinserted -> "dropped"
                   [] OTHER -> status[t]]
  /\ IF timers_' = {} THEN timerfd_' = timerfd_
     ELSE \E t \in timers_' :
            /\ \A u \in timers_' : expiration_'[t] <= expiration_'[u]
            /\ timerfd_' = ResetTimerfd(expiration_'[t])
  /\ expired' = {}
  /\ called' = {}
  /\ readTime' = 0
  /\ pc' = "loop"
  /\ UNCHANGED <<now, interval_, returning>>

-----------------------------------------------------------------------------
LoopThread == Poll \/ HandleRead \/ (\E t \in Timers : Run(t))
                \/ CallbackReturns \/ Reset

Next ==
  \/ Tick
  \/ LoopThread
  \/ \E t \in Timers : \/ AddTimer(t) \/ AddTimerElsewhere(t)
                       \/ AddTimerInLoop(t) \/ ReturnTimerId(t)

Spec == Init /\ [][Next]_vars

(***************************************************************************)
(* Time passes, the loop thread goes on (epoll_wait() reports a readable   *)
(* timerfd, callbacks return) and runs the functors queued on it.          *)
(***************************************************************************)
FairSpec ==
  /\ Spec
  /\ WF_vars(Tick)
  /\ WF_vars(LoopThread)
  /\ \A t \in Timers : WF_vars(AddTimerInLoop(t))

-----------------------------------------------------------------------------
(* Properties *)

\* The variables of TimerQueue and of its timers have their types.
TypeOK ==
  /\ now \in Nat
  /\ timers_ \in SUBSET Timers
  /\ timerfd_ \in Nat \cup {Off}
  /\ pc \in {"loop", "reported", "calling", "callback"}
  /\ readTime \in Nat
  /\ expired \in SUBSET Timers
  /\ called \in SUBSET expired
  /\ status \in [Timers -> {"new", "adding", "live", "dropped", "deleted"}]
  /\ expiration_ \in [Timers -> Nat]
  /\ interval_ \in [Timers -> Nat]
  /\ returning \in SUBSET Timers

\* Whenever the loop may go to sleep, the timerfd is armed for every timer of
\* the set: it will fire by the expiration or, for a timer that is due, within
\* the minimal delay.  addTimerInLoop() and reset() re-arm it, the read in
\* handleRead() disarms it, and callbacks may re-arm it in between.
TimerfdArmed ==
  pc = "loop" =>
    \A t \in timers_ : /\ timerfd_ # Off
                       /\ timerfd_ <= Larger(expiration_[t], now + MinDelay)

\* A live timer is in the set or among those handleRead() is serving, in one
\* of the two and nowhere else; the Timer objects deleted are in neither, so
\* no callback of a deleted timer is called.
HeldOnce ==
  /\ timers_ \cap expired = {}
  /\ timers_ \cup expired = {t \in Timers : status[t] = "live"}

\* No callback is called before the time it was asked for, although the
\* timerfd may fire early.
NeverEarly == [][\A t \in Timers : Run(t) => expiration_[t] <= now]_vars

\* A timer of the set leaves it to be run when it is due.  The one escape is
\* the bound of the clock: a timer due before it, but found so late that the
\* timerfd was armed for a time after it.
DueTimersRun ==
  \A t \in Timers :
    (t \in timers_ /\ expiration_[t] + MinDelay <= MaxTime)
      ~> (t \notin timers_ \/ (timerfd_ # Off /\ timerfd_ > MaxTime))

\* "Adds a recurring event": no timer given to runEvery() is ever forgotten.
\* (Two timers whose expirations coincide break this.)
NoTimerDropped == \A t \in Timers : status[t] # "dropped"
=============================================================================
