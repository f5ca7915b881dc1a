------------------------- MODULE EventLoopThreadPool --------------------------
(***************************************************************************)
(* siren::net::EventLoopThreadPool and its EventLoopThreads.  Loop 0 is    *)
(* the base loop; loop i > 0 lives on the stack of threadFunc() in thread  *)
(* i, from the construction of the EventLoop to its end.                   *)
(***************************************************************************)
EXTENDS Integers, Sequences, FiniteSets

CONSTANT ThreadNums   \* the arguments of setThreadNum() considered

ASSUME PoolAssumption == ThreadNums \subseteq Nat /\ IsFiniteSet(ThreadNums)

VARIABLES
  numThreads_,
  loops_,      \* how many loops start() has in its vector
  next_,
  quit_,       \* of each loop
  pc           \* of each loop: none, start (before loop_ is set), ready (loop_ is
               \* set), check (of quit_), poll, events, reject and reopen (in
               \* Acceptor::handleRead), functors, left, gone

poolVars == <<numThreads_, loops_, next_>>

IoLoops == 1 .. numThreads_
Loops == 0 .. numThreads_
Goto(l, p) == pc' = [pc EXCEPT ![l] = p]

PoolInit ==
  /\ numThreads_ \in ThreadNums
  /\ loops_ = 0 /\ next_ = 0
  /\ quit_ = [l \in Loops |-> FALSE]
  /\ pc = [l \in Loops |-> IF l = 0 THEN "poll" ELSE "none"]

-----------------------------------------------------------------------------
(* The thread of a loop: threadFunc() *)

\* The EventLoop is made, the user's callback called and loop_ published.
Publish(l) ==
  /\ pc[l] = "start"
  /\ Goto(l, "ready")
  /\ UNCHANGED <<poolVars, quit_>>

\* loop() begins with quit_ = false.
EnterLoop(l) ==
  /\ pc[l] = "ready"
  /\ quit_' = [quit_ EXCEPT ![l] = FALSE]
  /\ Goto(l, "check")
  /\ UNCHANGED poolVars

CheckQuit(l) ==
  /\ pc[l] = "check"
  /\ Goto(l, IF quit_[l] THEN "left" ELSE "poll")
  /\ UNCHANGED <<poolVars, quit_>>

-----------------------------------------------------------------------------
(* Calls of the pool *)

\* startLoop() makes the thread, and returns once loop_ is set.
Spawn ==
  /\ loops_ < numThreads_ /\ pc[loops_ + 1] = "none"
  /\ Goto(loops_ + 1, "start")
  /\ UNCHANGED <<poolVars, quit_>>
Started ==
  /\ loops_ < numThreads_ /\ pc[loops_ + 1] \notin {"none", "start", "gone"}
  /\ loops_' = loops_ + 1
  /\ UNCHANGED <<numThreads_, next_, quit_, pc>>

\* getNextLoop() and its effect on next_
NextLoop == IF loops_ = 0 THEN 0 ELSE next_ + 1

\* Mutations: next_ is not advanced; it wraps one too late.
AdvanceNever == next_
AdvanceLate == IF loops_ = 0 \/ next_ + 1 > loops_ THEN 0 ELSE next_ + 1

Advance == IF loops_ = 0 \/ next_ + 1 >= loops_ THEN 0 ELSE next_ + 1

\* ~EventLoopThread() reads loop_ and calls quit(); then it waits in join().
Quit(l) == quit_' = [quit_ EXCEPT ![l] = TRUE]
Joined(l) == pc[l] = "gone"
=============================================================================
