-------------------------- MODULE TimerQueueProofs --------------------------
(***************************************************************************)
(* Proofs about TimerQueue for any number of timers, any clock resolution  *)
(* and minimal delay, and any delays and intervals:                        *)
(*   - its variables keep their types;                                     *)
(*   - every live timer is held exactly once;                              *)
(*   - the timerfd is armed for every timer of the set;                    *)
(*   - no callback is called early.                                        *)
(***************************************************************************)
EXTENDS TimerQueue, TLAPS

-----------------------------------------------------------------------------
(* Arming the timerfd *)

LEMMA LargerBounds ==
  \A x \in Int, y \in Int :
    /\ Larger(x, y) \in Int
    /\ x <= Larger(x, y) /\ y <= Larger(x, y)
    /\ Larger(x, y) = x \/ Larger(x, y) = y
  BY DEF Larger

\* Cutting a delay down to whole microseconds never lengthens it.
LEMMA CutDown ==
  \A x \in Int : (x \div Microsecond) * Microsecond \in Int
                 /\ (x \div Microsecond) * Microsecond <= x
  BY TimerQueueAssumption

\* resetTimerfd() never disarms, and sets the timerfd to fire no later than the
\* expiration or, when that is too near, after the minimal delay.
LEMMA Arms ==
  now \in Nat => \A when \in Nat :
                   /\ ResetTimerfd(when) \in Nat
                   /\ ResetTimerfd(when) <= Larger(when, now + MinDelay)
<1> HAVE now \in Nat
<1> TAKE when \in Nat
<1> DEFINE cut == ((when - now) \div Microsecond) * Microsecond
<1>1. cut \in Int /\ cut <= when - now
  BY CutDown
<1> HIDE DEF cut
<1>2. ResetTimerfd(when) = now + Larger(cut, MinDelay)
  BY DEF ResetTimerfd, HowMuchTimeFromNow, cut
<1> QED
  BY <1>1, <1>2, TimerQueueAssumption DEF Larger
-----------------------------------------------------------------------------
(* Type correctness *)

\* What runAt(), runAfter() and runEvery() ask for.
LEMMA RequestTypes ==
  now \in Nat => \A r \in Requests : /\ r.when \in Nat
                                     /\ r.interval \in Nat
<1> HAVE now \in Nat
<1>1. \A i \in Nat : ToInt64(i) \in Nat
  BY TimerQueueAssumption DEF ToInt64
<1> QED
  BY <1>1, TimerQueueAssumption DEF Requests

\* One step of addTimerInLoop(), whoever calls it.
LEMMA InsertTypes ==
  ASSUME TypeOK, NEW t \in Timers, NEW when \in Nat, Insert(t, when)
  PROVE  /\ timers_' \in SUBSET Timers
         /\ status' \in [Timers -> {"new", "adding", "live", "dropped", "deleted"}]
         /\ timerfd_' \in Nat \cup {Off}
  BY Arms DEF TypeOK, Insert

LEMMA TypeNext == TypeOK /\ [Next]_vars => TypeOK'
<1> SUFFICES ASSUME TypeOK, [Next]_vars PROVE TypeOK'
  OBVIOUS
<1> USE DEF timerVars, callVars
<1>1. CASE Tick
  BY <1>1 DEF Tick, TypeOK
<1>2. CASE Poll
  BY <1>2 DEF Poll, TypeOK
<1>3. CASE HandleRead
  BY <1>3 DEF HandleRead, GetExpired, TypeOK
<1>4. ASSUME NEW t \in Timers, Run(t) PROVE TypeOK'
  BY <1>4 DEF Run, TypeOK
<1>5. CASE CallbackReturns
  BY <1>5 DEF CallbackReturns, TypeOK
<1>6. CASE Reset
  <2>1. expiration_' \in [Timers -> Nat]
    BY <1>6 DEF Reset, TypeOK, Restarted
  <2>2. timers_' \in SUBSET Timers
    BY <1>6 DEF Reset, TypeOK, Reinserted
  <2>3. timerfd_' \in Nat \cup {Off}
    BY <1>6, <2>1, <2>2, Arms DEF Reset, TypeOK
  <2>4. status' \in [Timers -> {"new", "adding", "live", "dropped", "deleted"}]
    BY <1>6 DEF Reset, TypeOK
  <2> QED
    BY <1>6, <2>1, <2>2, <2>3, <2>4 DEF Reset, TypeOK
<1>7. ASSUME NEW t \in Timers, AddTimer(t) PROVE TypeOK'
  <2>1. PICK r \in Requests : NewTimer(t, r) /\ Insert(t, r.when)
    BY <1>7 DEF AddTimer
  <2>2. r.when \in Nat /\ r.interval \in Nat
    BY RequestTypes DEF TypeOK
  <2>3. /\ timers_' \in SUBSET Timers
        /\ status' \in [Timers -> {"new", "adding", "live", "dropped", "deleted"}]
        /\ timerfd_' \in Nat \cup {Off}
    BY <2>1, <2>2, InsertTypes
  <2> QED
    BY <1>7, <2>1, <2>2, <2>3 DEF AddTimer, NewTimer, TypeOK
<1>8. ASSUME NEW t \in Timers, AddTimerElsewhere(t) PROVE TypeOK'
  BY <1>8, RequestTypes DEF AddTimerElsewhere, NewTimer, TypeOK
<1>9. ASSUME NEW t \in Timers, AddTimerInLoop(t) PROVE TypeOK'
  <2>1. /\ timers_' \in SUBSET Timers
        /\ status' \in [Timers -> {"new", "adding", "live", "dropped", "deleted"}]
        /\ timerfd_' \in Nat \cup {Off}
    BY <1>9, InsertTypes DEF AddTimerInLoop, TypeOK
  <2> QED
    BY <1>9, <2>1 DEF AddTimerInLoop, TypeOK
<1>10. ASSUME NEW t \in Timers, ReturnTimerId(t) PROVE TypeOK'
  BY <1>10 DEF ReturnTimerId, TypeOK
<1>11. CASE UNCHANGED vars
  BY <1>11 DEF vars, TypeOK
<1> QED
  BY <1>1, <1>2, <1>3, <1>4, <1>5, <1>6, <1>7, <1>8, <1>9, <1>10, <1>11
  DEF Next, LoopThread

\* The variables of TimerQueue and of its timers always have their types; in
\* particular the timerfd is never set to a time before the clock's origin.
THEOREM TypeCorrect == Spec => []TypeOK
<1>1. Init => TypeOK
  BY DEF Init, TypeOK
<1> QED
  BY <1>1, TypeNext, PTL DEF Spec
-----------------------------------------------------------------------------
(* The timers are held once, and served when due *)

\* handleRead() holds timers only while it serves them, all of them due; the
\* others of the set are held by the set.
HeldInv ==
  /\ HeldOnce
  /\ pc \in {"loop", "reported"} => expired = {}
  /\ \A t \in expired : expiration_[t] <= now

\* insert() of a timer that is held nowhere yet.
LEMMA InsertHeld ==
  ASSUME TypeOK, HeldOnce, NEW t \in Timers, NEW when \in Nat,
         status[t] \in {"new", "adding"}, Insert(t, when), expired' = expired
  PROVE  HeldOnce' /\ t \notin expired
<1>1. t \notin timers_ /\ t \notin expired
  BY DEF HeldOnce
<1> QED
  BY <1>1 DEF TypeOK, HeldOnce, Insert

LEMMA HeldNext == TypeOK /\ HeldInv /\ [Next]_vars => HeldInv'
<1> SUFFICES ASSUME TypeOK, HeldInv, [Next]_vars PROVE HeldInv'
  OBVIOUS
<1> USE DEF HeldInv, timerVars, callVars
<1>1. CASE Tick
  BY <1>1 DEF Tick, TypeOK, HeldOnce
<1>2. CASE Poll
  BY <1>2 DEF Poll, HeldOnce
<1>3. CASE HandleRead
  BY <1>3 DEF HandleRead, GetExpired, TypeOK, HeldOnce
<1>4. ASSUME NEW t \in Timers, Run(t) PROVE HeldInv'
  BY <1>4 DEF Run, HeldOnce
<1>5. CASE CallbackReturns
  BY <1>5 DEF CallbackReturns, HeldOnce
<1>6. CASE Reset
  <2>1. expired' = {} /\ timers_' = timers_ \cup Reinserted
    BY <1>6 DEF Reset
  <2>2. Reinserted = {t \in Reinserted : t \in expired /\ Repeat(t)}
    BY DEF Reinserted
  <2>3. \A t \in Timers : status'[t] = "live" <=> t \in timers_ \/ t \in Reinserted
    BY <1>6, <2>2 DEF Reset, HeldOnce
  <2>4. timers_' \in SUBSET Timers
    BY <2>1, <2>2 DEF TypeOK
  <2> QED
    BY <2>1, <2>3, <2>4 DEF HeldOnce
<1>7. ASSUME NEW t \in Timers, AddTimer(t) PROVE HeldInv'
  <2>1. PICK r \in Requests : NewTimer(t, r) /\ Insert(t, r.when)
    BY <1>7 DEF AddTimer
  <2>2. r.when \in Nat
    BY RequestTypes DEF TypeOK
  <2>3. HeldOnce' /\ t \notin expired
    BY <1>7, <2>1, <2>2, InsertHeld DEF AddTimer, NewTimer
  <2> QED
    BY <1>7, <2>1, <2>3 DEF AddTimer, NewTimer, TypeOK
<1>8. ASSUME NEW t \in Timers, AddTimerElsewhere(t) PROVE HeldInv'
  <2>1. status[t] = "new" /\ t \notin timers_ /\ t \notin expired
    BY <1>8 DEF AddTimerElsewhere, NewTimer, HeldOnce
  <2> QED
    BY <1>8, <2>1 DEF AddTimerElsewhere, NewTimer, HeldOnce, TypeOK
<1>9. ASSUME NEW t \in Timers, AddTimerInLoop(t) PROVE HeldInv'
  <2>1. HeldOnce'
    BY <1>9, InsertHeld DEF AddTimerInLoop, TypeOK
  <2> QED
    BY <1>9, <2>1 DEF AddTimerInLoop
<1>10. ASSUME NEW t \in Timers, ReturnTimerId(t) PROVE HeldInv'
  BY <1>10 DEF ReturnTimerId, HeldOnce
<1>11. CASE UNCHANGED vars
  BY <1>11 DEF vars, HeldOnce
<1> QED
  BY <1>1, <1>2, <1>3, <1>4, <1>5, <1>6, <1>7, <1>8, <1>9, <1>10, <1>11
  DEF Next, LoopThread

LEMMA HeldInvariant == Spec => []HeldInv
<1>1. Init => HeldInv
  BY DEF Init, HeldInv, HeldOnce
<1> QED
  BY <1>1, HeldNext, TypeCorrect, PTL DEF Spec

\* A live Timer is in the set or in the vector of handleRead(), in one of them
\* only, and a deleted one is in neither.
THEOREM TimersHeldOnce == Spec => []HeldOnce
<1>1. HeldInv => HeldOnce
  BY DEF HeldInv
<1> QED
  BY <1>1, HeldInvariant, PTL

\* No callback is called before its time, although the timerfd may fire early.
THEOREM NoneEarly == Spec => NeverEarly
<1>1. HeldInv => \A t \in Timers : Run(t) => expiration_[t] <= now
  BY DEF HeldInv, Run
<1>2. HeldInv => [\A t \in Timers : Run(t) => expiration_[t] <= now]_vars
  BY <1>1
<1> QED
  BY <1>2, HeldInvariant, PTL DEF NeverEarly
-----------------------------------------------------------------------------
(* The timerfd is armed *)

\* The timerfd as it is armed covers a timer that expires at when.
Covers(fd, when, time) == fd # Off /\ fd <= Larger(when, time + MinDelay)

\* Armed for a timer, it covers every later one, and it still does later on.
LEMMA CoversLater ==
  \A fd \in Nat \cup {Off}, w1 \in Nat, w2 \in Nat, n1 \in Nat, n2 \in Nat :
    Covers(fd, w1, n1) /\ w1 <= w2 /\ n1 <= n2 => Covers(fd, w2, n2)
  BY TimerQueueAssumption DEF Covers, Larger

\* What resetTimerfd() sets covers the timer it is set for.
LEMMA ArmsCovers ==
  now \in Nat => \A when \in Nat : Covers(ResetTimerfd(when), when, now)
  BY Arms, TimerQueueAssumption DEF Covers

\* insert() keeps the timerfd armed for all: for the new timer because it is
\* the earliest, or because the timerfd covers one that is earlier still.
LEMMA InsertArms ==
  ASSUME TypeOK, TimerfdArmed, pc = "loop", pc' = pc, now' = now,
         NEW t \in Timers, NEW when \in Nat, t \notin timers_,
         Insert(t, when), expiration_' \in [Timers -> Nat],
         expiration_'[t] = when,
         \A u \in timers_ : expiration_'[u] = expiration_[u]
  PROVE  TimerfdArmed'
<1> USE DEF TypeOK
<1>a. \A u \in timers_ : Covers(timerfd_, expiration_[u], now)
  BY DEF TimerfdArmed, Covers
<1>1. CASE \A u \in timers_ : when < expiration_[u]
  <2>1. timerfd_' = ResetTimerfd(when) /\ timerfd_' \in Nat
    BY <1>1, Arms DEF Insert
  <2>2. Covers(timerfd_', when, now)
    BY <2>1, ArmsCovers
  <2>3. \A u \in timers_ : Covers(timerfd_', expiration_[u], now)
    BY <1>1, <2>1, <2>2, CoversLater
  <2> QED
    BY <2>2, <2>3 DEF Insert, TimerfdArmed, Covers
<1>2. CASE \E u \in timers_ : expiration_[u] <= when
  <2>1. timerfd_' = timerfd_
    BY <1>2 DEF Insert
  <2>2. Covers(timerfd_, when, now)
    BY <1>a, <1>2, CoversLater
  <2> QED
    BY <1>a, <2>1, <2>2 DEF Insert, TimerfdArmed, Covers
<1> QED
  BY <1>1, <1>2

LEMMA ArmedNext == TypeOK /\ HeldInv /\ TimerfdArmed /\ [Next]_vars => TimerfdArmed'
<1> SUFFICES ASSUME TypeOK, HeldInv, TimerfdArmed, [Next]_vars
             PROVE  TimerfdArmed'
  OBVIOUS
<1>a. TypeOK'
  BY TypeNext
<1> USE DEF timerVars, callVars
<1>1. CASE Tick
  <2> SUFFICES ASSUME pc = "loop", NEW t \in timers_
               PROVE  Covers(timerfd_, expiration_[t], now + 1)
    BY <1>1 DEF Tick, TimerfdArmed, Covers
  <2>1. Covers(timerfd_, expiration_[t], now)
    BY DEF TimerfdArmed, Covers
  <2> QED
    BY <2>1, CoversLater DEF TypeOK
<1>2. CASE Poll
  BY <1>2 DEF Poll, TimerfdArmed
<1>3. CASE HandleRead
  BY <1>3 DEF HandleRead, TimerfdArmed
<1>4. ASSUME NEW t \in Timers, Run(t) PROVE TimerfdArmed'
  BY <1>4 DEF Run, TimerfdArmed
<1>5. CASE CallbackReturns
  BY <1>5 DEF CallbackReturns, TimerfdArmed
<1>6. CASE Reset
  <2> SUFFICES ASSUME NEW u \in timers_'
               PROVE  Covers(timerfd_', expiration_'[u], now)
    BY <1>6 DEF Reset, TimerfdArmed, Covers
  <2>1. PICK t \in timers_' :
          /\ \A v \in timers_' : expiration_'[t] <= expiration_'[v]
          /\ timerfd_' = ResetTimerfd(expiration_'[t])
    BY <1>6 DEF Reset
  <2>2. /\ now \in Nat /\ timerfd_' \in Nat \cup {Off}
        /\ expiration_'[t] \in Nat /\ expiration_'[u] \in Nat
    BY <1>a DEF TypeOK
  <2>3. Covers(timerfd_', expiration_'[t], now)
    BY <2>1, <2>2, ArmsCovers
  <2> QED
    BY <2>1, <2>2, <2>3, CoversLater
<1>7. ASSUME NEW t \in Timers, AddTimer(t) PROVE TimerfdArmed'
  <2>1. PICK r \in Requests : NewTimer(t, r) /\ Insert(t, r.when)
    BY <1>7 DEF AddTimer
  <2>2. r.when \in Nat
    BY RequestTypes DEF TypeOK
  <2>3. t \notin timers_
    BY <2>1 DEF NewTimer, HeldInv, HeldOnce
  <2>4. /\ expiration_' \in [Timers -> Nat]
        /\ expiration_'[t] = r.when
        /\ \A u \in timers_ : expiration_'[u] = expiration_[u]
    BY <1>a, <2>1, <2>3 DEF NewTimer, TypeOK
  <2>5. pc' = pc /\ now' = now
    BY <1>7 DEF AddTimer
  <2>6. CASE pc = "loop"
    BY <2>1, <2>2, <2>3, <2>4, <2>5, <2>6, InsertArms
  <2>7. CASE pc # "loop"
    BY <2>5, <2>7 DEF TimerfdArmed
  <2> QED
    BY <2>6, <2>7
<1>8. ASSUME NEW t \in Timers, AddTimerElsewhere(t) PROVE TimerfdArmed'
  <2>1. t \notin timers_
    BY <1>8 DEF AddTimerElsewhere, NewTimer, HeldInv, HeldOnce
  <2> QED
    BY <1>8, <2>1 DEF AddTimerElsewhere, NewTimer, TimerfdArmed, TypeOK
<1>9. ASSUME NEW t \in Timers, AddTimerInLoop(t) PROVE TimerfdArmed'
  <2>1. t \notin timers_
    BY <1>9 DEF AddTimerInLoop, HeldInv, HeldOnce
  <2>2. expiration_' = expiration_ /\ expiration_[t] \in Nat
    BY <1>9 DEF AddTimerInLoop, TypeOK
  <2>3. expiration_' \in [Timers -> Nat]
    BY <1>a DEF TypeOK
  <2> QED
    BY <1>9, <2>1, <2>2, <2>3, InsertArms DEF AddTimerInLoop
<1>10. ASSUME NEW t \in Timers, ReturnTimerId(t) PROVE TimerfdArmed'
  BY <1>10 DEF ReturnTimerId, TimerfdArmed
<1>11. CASE UNCHANGED vars
  BY <1>11 DEF vars, TimerfdArmed
<1> QED
  BY <1>1, <1>2, <1>3, <1>4, <1>5, <1>6, <1>7, <1>8, <1>9, <1>10, <1>11
  DEF Next, LoopThread

\* Whenever the loop may sleep the timerfd will fire in time for every timer of
\* the set, whatever the interleaving of callbacks, other threads and clock.
THEOREM AlwaysArmed == Spec => []TimerfdArmed
<1>1. Init => TimerfdArmed
  BY DEF Init, TimerfdArmed
<1> QED
  BY <1>1, ArmedNext, TypeCorrect, HeldInvariant, PTL DEF Spec
=============================================================================
