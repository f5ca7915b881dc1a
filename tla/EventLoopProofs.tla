--------------------------- MODULE EventLoopProofs ---------------------------
(***************************************************************************)
(* Proofs about EventLoop for any number of threads, functors and channels *)
(*   - its variables keep their types;                                     *)
(*   - without a data race the queue is first-in first-out, exactly once;  *)
(*   - the loop never sleeps on a functor or on a quit() that another      *)
(*     thread or a callback has made;                                      *)
(*   - it implements SerialExecutor.                                       *)
(***************************************************************************)
EXTENDS EventLoop, TLAPS

-----------------------------------------------------------------------------
(* Type correctness *)

\* A thread in the push_back of queueInLoop() pushes a functor.
PushArg == \A t \in Threads : threadPc[t] = "push" => arg[t] \in Functors

TypeInv == TypeOK /\ PushArg

\* The types hold of a fresh EventLoop.
LEMMA TypeInit == Init => TypeInv
<1> SUFFICES ASSUME Init PROVE TypeInv
  OBVIOUS
<1> USE DEF Init
<1>1. <<>> \in Seq(Functors)
  OBVIOUS
<1>2. seen \in [Threads -> Seq(Functors)]
  BY <1>1
<1>3. threadPc \in [Threads -> {"out", "push", "wake"}] /\ PushArg
  BY DEF PushArg
<1>4. arg \in [Threads -> Functors \cup {NoFunctor}]
  OBVIOUS
<1> QED
  BY <1>1, <1>2, <1>3, <1>4 DEF TypeInv, TypeOK

\* Every step of the loop thread and of the others keeps the types.
LEMMA TypeNext == TypeInv /\ [Next]_vars => TypeInv'
<1> SUFFICES ASSUME TypeInv, [Next]_vars PROVE TypeInv'
  OBVIOUS
<1> USE DEF TypeInv, TypeOK, PushArg, MayCrash, Pushing,
            loopVars, queueVars, threadVars, histVars
<1>1. CASE TestQuit
  BY <1>1 DEF TestQuit
<1>2. CASE Poll
  BY <1>2 DEF Poll
<1>3. CASE PollNothing
  BY <1>3 DEF PollNothing
<1>4. CASE HandleRead
  BY <1>4 DEF HandleRead
<1>5. CASE EventReturns
  BY <1>5 DEF EventReturns
<1>6. CASE DoPendingFunctors
  BY <1>6 DEF DoPendingFunctors
<1>7. CASE Swap
  <2>1. functors' \in Seq(Functors) /\ pendingFunctors_' \in Seq(Functors)
    BY <1>7 DEF Swap
  <2>2. ub' \in BOOLEAN /\ crashed' \in BOOLEAN
    BY <1>7, Zenon DEF Swap
  <2>3. overlapped' \in SUBSET Threads
    BY <1>7 DEF Swap
  <2> QED
    BY <1>7, <2>1, <2>2, <2>3 DEF Swap
<1>8. CASE RunFunctor
  BY <1>8 DEF RunFunctor
<1>9. CASE FunctorReturns
  BY <1>9 DEF FunctorReturns
<1>10. CASE FunctorsDone
  BY <1>10 DEF FunctorsDone
<1>11. ASSUME NEW c \in Channels, HandleEvent(c) PROVE TypeInv'
  BY <1>11 DEF HandleEvent
<1>12. CASE Loop
  BY <1>12 DEF Loop
<1>13. CASE LoopQuit
  BY <1>13 DEF LoopQuit
<1>14. ASSUME NEW f \in Functors, LoopQueueInLoop(f) PROVE TypeInv'
  <2>1. submitted' \in Seq(Functors)
    BY <1>14 DEF LoopQueueInLoop
  <2>2. pendingFunctors_' \in Seq(Functors)
    <3>1. Append(pendingFunctors_, f) \in Seq(Functors)
      OBVIOUS
    <3>2. pendingFunctors_' \in {Append(pendingFunctors_, f), pendingFunctors_}
      BY <1>14, Zenon DEF LoopQueueInLoop
    <3> QED
      BY <3>1, <3>2
  <2>3. ub' \in BOOLEAN /\ crashed' \in BOOLEAN /\ wakeupFd_' \in BOOLEAN
    BY <1>14, Zenon DEF LoopQueueInLoop
  <2>4. overlapped' \in SUBSET Threads /\ used' \in SUBSET Functors
    BY <1>14 DEF LoopQueueInLoop
  <2>5. idleQueued' \in SUBSET Functors
    BY <1>14 DEF LoopQueueInLoop
  <2> QED
    BY <1>14, <2>1, <2>2, <2>3, <2>4, <2>5 DEF LoopQueueInLoop
<1>15. ASSUME NEW f \in Functors, LoopRunInLoop(f) PROVE TypeInv'
  BY <1>15 DEF LoopRunInLoop
<1>16. ASSUME NEW t \in Threads, NEW f \in Functors, QueueInLoop(t, f)
       PROVE  TypeInv'
  BY <1>16 DEF QueueInLoop
<1>17. ASSUME NEW t \in Threads, PushBack(t) PROVE TypeInv'
  <2>1. arg[t] \in Functors
    BY <1>17 DEF PushBack
  <2>2. pendingFunctors_' \in Seq(Functors) /\ submitted' \in Seq(Functors)
    <3>1. /\ Append(seen[t], arg[t]) \in Seq(Functors)
          /\ Append(pendingFunctors_, arg[t]) \in Seq(Functors)
          /\ Append(submitted, arg[t]) \in Seq(Functors)
      BY <2>1
    <3>2. pendingFunctors_' \in {Append(pendingFunctors_, arg[t]),
                                 pendingFunctors_, Append(seen[t], arg[t])}
      BY <1>17, Zenon DEF PushBack
    <3> QED
      BY <1>17, <3>1, <3>2 DEF PushBack
  <2>3. crashed' \in BOOLEAN
    BY <1>17, Zenon DEF PushBack
  <2>4. seen' \in [Threads -> Seq(Functors)]
    BY <1>17 DEF PushBack
  <2>5. threadPc' \in [Threads -> {"out", "push", "wake"}]
    BY <1>17 DEF PushBack
  <2>6. arg' \in [Threads -> Functors \cup {NoFunctor}]
    BY <1>17 DEF PushBack
  <2>7. PushArg'
    BY <1>17 DEF PushBack
  <2>8. overlapped' \in SUBSET Threads
    BY <1>17 DEF PushBack
  <2> QED
    BY <1>17, <2>2, <2>3, <2>4, <2>5, <2>6, <2>7, <2>8 DEF PushBack
<1>18. ASSUME NEW t \in Threads, WakeupLoop(t) PROVE TypeInv'
  BY <1>18 DEF WakeupLoop
<1>19. ASSUME NEW t \in Threads, Quit(t) PROVE TypeInv'
  BY <1>19 DEF Quit
<1>20. CASE UNCHANGED vars
  BY <1>20 DEF vars
<1> QED
  BY <1>1, <1>2, <1>3, <1>4, <1>5, <1>6, <1>7, <1>8, <1>9, <1>10, <1>11,
     <1>12, <1>13, <1>14, <1>15, <1>16, <1>17, <1>18, <1>19, <1>20
  DEF Next, LoopStep, LoopUser, OtherThread, Dead

LEMMA TypeInvariant == Spec => []TypeInv
  BY TypeInit, TypeNext, PTL DEF Spec

\* The variables of the loop and of the threads that use it always have their
\* types: in particular no empty functor enters pendingFunctors_.
THEOREM TypeCorrect == Spec => []TypeOK
<1>1. TypeInv => TypeOK
  BY DEF TypeInv
<1> QED
  BY <1>1, TypeInvariant, PTL

-----------------------------------------------------------------------------
(* The queue *)

\* What FifoExactlyOnce rests on: doPendingFunctors() holds functors only while
\* it runs them, and a push_back is overlapped only if there was a data race.
FifoInv ==
  /\ loopPc \notin {"run", "functor"} => functors = <<>>
  /\ overlapped # {} => ub
  /\ FifoExactlyOnce

\* Concatenation and Append, as swap() and push_back() use them.
LEMMA AppendConcat ==
  \A s \in Seq(Functors), t \in Seq(Functors), x \in Functors :
    Append(s \o t, x) = s \o Append(t, x)
  OBVIOUS

LEMMA ConcatEmpty ==
  \A s \in Seq(Functors), t \in Seq(Functors) :
    (s \o <<>>) \o t = (s \o t) \o <<>>
  OBVIOUS

LEMMA MoveHead ==
  \A s \in Seq(Functors), t \in Seq(Functors) :
    t # <<>> => Append(s, Head(t)) \o Tail(t) = s \o t
  OBVIOUS

\* The inductive step for the queue, one case per action.
LEMMA FifoNext == TypeInv /\ FifoInv /\ [Next]_vars => FifoInv'
<1> SUFFICES ASSUME TypeInv, FifoInv, [Next]_vars PROVE FifoInv'
  OBVIOUS
<1> USE DEF FifoInv, FifoExactlyOnce, loopVars, queueVars, threadVars, histVars
<1>a. /\ pendingFunctors_ \in Seq(Functors) /\ functors \in Seq(Functors)
      /\ submitted \in Seq(Functors) /\ executed \in Seq(Functors)
      /\ executed \o functors \in Seq(Functors)
      /\ Pushing \in SUBSET Threads
  BY DEF TypeInv, TypeOK, Pushing
<1>1. CASE TestQuit
  BY <1>1 DEF TestQuit
<1>2. CASE Poll
  BY <1>2 DEF Poll
<1>3. CASE PollNothing
  BY <1>3 DEF PollNothing
<1>4. CASE HandleRead
  BY <1>4 DEF HandleRead
<1>5. CASE EventReturns
  BY <1>5 DEF EventReturns
<1>6. CASE DoPendingFunctors
  BY <1>6 DEF DoPendingFunctors
<1>7. CASE Swap
  <2>1. overlapped' # {} => ub'
    BY <1>7 DEF Swap
  <2>2. functors = <<>>
    BY <1>7 DEF Swap
  <2>3. ~ub' => submitted' = (executed' \o functors') \o pendingFunctors_'
    BY <1>7, <1>a, <2>2, ConcatEmpty DEF Swap
  <2> QED
    BY <1>7, <2>1, <2>3 DEF Swap
<1>8. CASE RunFunctor
  <2>1. Append(executed, Head(functors)) \o Tail(functors) = executed \o functors
    BY <1>8, <1>a, MoveHead DEF RunFunctor
  <2> QED
    BY <1>8, <2>1 DEF RunFunctor
<1>9. CASE FunctorReturns
  BY <1>9 DEF FunctorReturns
<1>10. CASE FunctorsDone
  BY <1>10 DEF FunctorsDone
<1>11. ASSUME NEW c \in Channels, HandleEvent(c) PROVE FifoInv'
  BY <1>11 DEF HandleEvent
<1>12. CASE Loop
  BY <1>12 DEF Loop
<1>13. CASE LoopQuit
  BY <1>13 DEF LoopQuit
<1>14. ASSUME NEW f \in Functors, LoopQueueInLoop(f) PROVE FifoInv'
  <2>1. overlapped' # {} => ub'
    BY <1>14 DEF LoopQueueInLoop
  <2>2. ~ub' => pendingFunctors_' = Append(pendingFunctors_, f)
    <3>1. ~ub' => Pushing = {}
      BY <1>14 DEF LoopQueueInLoop
    <3> QED
      BY <1>14, <3>1, Zenon DEF LoopQueueInLoop
  <2>3. ~ub' => submitted' = (executed' \o functors') \o pendingFunctors_'
    <3>1. Append((executed \o functors) \o pendingFunctors_, f)
            = (executed \o functors) \o Append(pendingFunctors_, f)
      BY <1>a, AppendConcat, Zenon
    <3>2. ~ub' => submitted = (executed \o functors) \o pendingFunctors_
      BY <1>14 DEF LoopQueueInLoop
    <3>3. /\ submitted' = Append(submitted, f)
          /\ executed' = executed /\ functors' = functors
      BY <1>14 DEF LoopQueueInLoop
    <3> QED
      BY <2>2, <3>1, <3>2, <3>3, Zenon
  <2> QED
    BY <1>14, <2>1, <2>3 DEF LoopQueueInLoop
<1>15. ASSUME NEW f \in Functors, LoopRunInLoop(f) PROVE FifoInv'
  BY <1>15 DEF LoopRunInLoop
<1>16. ASSUME NEW t \in Threads, NEW f \in Functors, QueueInLoop(t, f)
       PROVE  FifoInv'
  BY <1>16 DEF QueueInLoop
<1>17. ASSUME NEW t \in Threads, PushBack(t) PROVE FifoInv'
  <2>1. arg[t] \in Functors
    BY <1>17 DEF PushBack, TypeInv, PushArg
  <2>2. ~ub' => pendingFunctors_' = Append(pendingFunctors_, arg[t])
    <3>1. ~ub' => t \notin overlapped
      BY <1>17 DEF PushBack
    <3> QED
      BY <1>17, <3>1, Zenon DEF PushBack
  <2>3. ~ub' => submitted' = (executed' \o functors') \o pendingFunctors_'
    <3>1. Append((executed \o functors) \o pendingFunctors_, arg[t])
            = (executed \o functors) \o Append(pendingFunctors_, arg[t])
      BY <1>a, <2>1, AppendConcat, Zenon
    <3>2. ~ub' => submitted = (executed \o functors) \o pendingFunctors_
      BY <1>17 DEF PushBack
    <3>3. /\ submitted' = Append(submitted, arg[t])
          /\ executed' = executed /\ functors' = functors
      BY <1>17 DEF PushBack
    <3> QED
      BY <2>2, <3>1, <3>2, <3>3, Zenon
  <2> QED
    BY <1>17, <2>3 DEF PushBack
<1>18. ASSUME NEW t \in Threads, WakeupLoop(t) PROVE FifoInv'
  BY <1>18 DEF WakeupLoop
<1>19. ASSUME NEW t \in Threads, Quit(t) PROVE FifoInv'
  BY <1>19 DEF Quit
<1>20. CASE UNCHANGED vars
  BY <1>20 DEF vars
<1> QED
  BY <1>1, <1>2, <1>3, <1>4, <1>5, <1>6, <1>7, <1>8, <1>9, <1>10, <1>11,
     <1>12, <1>13, <1>14, <1>15, <1>16, <1>17, <1>18, <1>19, <1>20
  DEF Next, LoopStep, LoopUser, OtherThread, Dead

LEMMA FifoInvariant == Spec => []FifoInv
<1>1. Init => FifoInv
  BY DEF Init, FifoInv, FifoExactlyOnce
<1> QED
  BY <1>1, FifoNext, TypeInvariant, PTL DEF Spec

\* In an execution without a data race in queueInLoop(), every functor pushed
\* is run once and in the order of the pushes, or is still in the queue.
THEOREM QueueIsFifo == Spec => []FifoExactlyOnce
<1>1. FifoInv => FifoExactlyOnce
  BY DEF FifoInv
<1> QED
  BY <1>1, FifoInvariant, PTL
-----------------------------------------------------------------------------
(* Wakeups *)

\* Where the loop thread may reach poll() without looking at pendingFunctors_
\* again, work that is pending has a wakeup; between the return of poll() and
\* the swap it needs none.  This is why callingPendingFunctors_ is consulted
\* by queueInLoop(), and that flag must say exactly when the swap is behind.
WakeInv ==
  /\ callingPendingFunctors_ <=> loopPc \in {"swap", "run", "functor"}
  /\ loopPc \in {"idle", "test", "poll", "run", "functor"} /\ WorkPending
       => WakeupComing
  /\ NoSleepOnQuit

\* push_back adds no element but its argument.
LEMMA ElementsAppend ==
  \A s \in Seq(Functors), x \in Functors :
    Elements(Append(s, x)) \subseteq Elements(s) \cup {x}
<1> TAKE s \in Seq(Functors), x \in Functors
<1> SUFFICES ASSUME NEW i \in DOMAIN Append(s, x)
             PROVE  Append(s, x)[i] \in Elements(s) \cup {x}
  BY DEF Elements
<1>1. CASE i = Len(s) + 1
  BY <1>1
<1>2. CASE i # Len(s) + 1
  <2>1. i \in DOMAIN s /\ Append(s, x)[i] = s[i]
    BY <1>2
  <2> QED
    BY <2>1 DEF Elements
<1> QED
  BY <1>1, <1>2

LEMMA WakeNext == TypeInv /\ WakeInv /\ [Next]_vars => WakeInv'
<1> SUFFICES ASSUME TypeInv, WakeInv, [Next]_vars PROVE WakeInv'
  OBVIOUS
<1> USE DEF WakeInv, NoSleepOnQuit, WorkPending, WakeupComing,
            loopVars, queueVars, threadVars, histVars
<1>a. /\ pendingFunctors_ \in Seq(Functors)
      /\ threadPc \in [Threads -> {"out", "push", "wake"}]
      /\ wakeupFd_ \in BOOLEAN
  BY DEF TypeInv, TypeOK
<1>1. CASE TestQuit
  BY <1>1 DEF TestQuit
<1>2. CASE Poll
  BY <1>2 DEF Poll
<1>3. CASE PollNothing
  BY <1>3 DEF PollNothing
<1>4. CASE HandleRead
  BY <1>4 DEF HandleRead
<1>5. CASE EventReturns
  BY <1>5 DEF EventReturns
<1>6. CASE DoPendingFunctors
  BY <1>6 DEF DoPendingFunctors
<1>7. CASE Swap
  <2>1. ~WorkPending'
    BY <1>7 DEF Swap, Elements
  <2> QED
    BY <1>7, <2>1 DEF Swap
<1>8. CASE RunFunctor
  BY <1>8 DEF RunFunctor
<1>9. CASE FunctorReturns
  BY <1>9 DEF FunctorReturns
<1>10. CASE FunctorsDone
  BY <1>10 DEF FunctorsDone
<1>11. ASSUME NEW c \in Channels, HandleEvent(c) PROVE WakeInv'
  BY <1>11 DEF HandleEvent
<1>12. CASE Loop
  BY <1>12 DEF Loop
<1>13. CASE LoopQuit
  BY <1>13 DEF LoopQuit, InUserCode
<1>14. ASSUME NEW f \in Functors, LoopQueueInLoop(f) PROVE WakeInv'
  <2>1. WakeupComing => WakeupComing'
    BY <1>14, Zenon DEF LoopQueueInLoop
  <2>2. CASE loopPc = "idle"
    <3>1. pendingFunctors_' \in {Append(pendingFunctors_, f), pendingFunctors_}
      BY <1>14, Zenon DEF LoopQueueInLoop
    <3>2. Elements(pendingFunctors_') \subseteq Elements(pendingFunctors_) \cup {f}
      BY <1>a, <3>1, ElementsAppend
    <3>3. idleQueued' = idleQueued \cup {f}
      BY <1>14, <2>2 DEF LoopQueueInLoop
    <3>4. WorkPending' => WorkPending
      BY <3>2, <3>3
    <3> QED
      BY <1>14, <2>1, <2>2, <3>4 DEF LoopQueueInLoop
  <2>3. CASE loopPc = "event"
    BY <1>14, <2>3 DEF LoopQueueInLoop
  <2>4. CASE loopPc = "functor"
    <3>1. wakeupFd_'
      BY <1>14, <2>4, Zenon DEF LoopQueueInLoop
    <3> QED
      BY <1>14, <2>4, <3>1 DEF LoopQueueInLoop
  <2> QED
    BY <1>14, <2>2, <2>3, <2>4 DEF LoopQueueInLoop, InUserCode
<1>15. ASSUME NEW f \in Functors, LoopRunInLoop(f) PROVE WakeInv'
  BY <1>15 DEF LoopRunInLoop
<1>16. ASSUME NEW t \in Threads, NEW f \in Functors, QueueInLoop(t, f)
       PROVE  WakeInv'
  BY <1>16, <1>a DEF QueueInLoop
<1>17. ASSUME NEW t \in Threads, PushBack(t) PROVE WakeInv'
  <2>1. threadPc'[t] = "wake"
    BY <1>17, <1>a DEF PushBack
  <2> QED
    BY <1>17, <2>1 DEF PushBack
<1>18. ASSUME NEW t \in Threads, WakeupLoop(t) PROVE WakeInv'
  BY <1>18 DEF WakeupLoop
<1>19. ASSUME NEW t \in Threads, Quit(t) PROVE WakeInv'
  <2>1. threadPc'[t] = "wake"
    BY <1>19, <1>a DEF Quit
  <2> QED
    BY <1>19, <2>1 DEF Quit
<1>20. CASE UNCHANGED vars
  BY <1>20 DEF vars
<1> QED
  BY <1>1, <1>2, <1>3, <1>4, <1>5, <1>6, <1>7, <1>8, <1>9, <1>10, <1>11,
     <1>12, <1>13, <1>14, <1>15, <1>16, <1>17, <1>18, <1>19, <1>20
  DEF Next, LoopStep, LoopUser, OtherThread, Dead

LEMMA WakeInvariant == Spec => []WakeInv
<1>1. Init => WakeInv
  BY DEF Init, WakeInv, WorkPending, Elements, NoSleepOnQuit
<1> QED
  BY <1>1, WakeNext, TypeInvariant, PTL DEF Spec

\* The loop is never left sleeping in poll() on a functor queued by another
\* thread or by a callback: the write to wakeupFd_ is done or on its way.
THEOREM FunctorsWakeTheLoop == Spec => []NoSleepOnFunctors
<1>1. WakeInv => NoSleepOnFunctors
  BY DEF WakeInv, NoSleepOnFunctors
<1> QED
  BY <1>1, WakeInvariant, PTL

\* Nor on a quit(), from whichever thread, made since loop() was entered.
THEOREM QuitWakesTheLoop == Spec => []NoSleepOnQuit
<1>1. WakeInv => NoSleepOnQuit
  BY DEF WakeInv
<1> QED
  BY <1>1, WakeInvariant, PTL
-----------------------------------------------------------------------------
(* Refinement *)

\* The next functor run is the one SerialExecutor would run.
LEMMA NextInOrder ==
  \A e \in Seq(Functors), h \in Seq(Functors), p \in Seq(Functors) :
    h # <<>> => /\ Len(e) < Len((e \o h) \o p)
                /\ ((e \o h) \o p)[Len(e) + 1] = Head(h)
  OBVIOUS

\* Every step of EventLoop is a step of SerialExecutor or a stutter: a push is
\* a Submit, the call of a functor a Run, a data race and all after it a Break.
LEMMA ExecutorNext ==
  TypeInv /\ FifoInv /\ [Next]_vars => [Executor!Next]_(Executor!vars)
<1> SUFFICES ASSUME TypeInv, FifoInv, [Next]_vars
             PROVE  [Executor!Next]_(Executor!vars)
  OBVIOUS
<1> USE DEF Executor!vars, Executor!Next, loopVars, queueVars, threadVars,
            histVars
<1>1. CASE TestQuit
  BY <1>1 DEF TestQuit
<1>2. CASE Poll
  BY <1>2 DEF Poll
<1>3. CASE PollNothing
  BY <1>3 DEF PollNothing
<1>4. CASE HandleRead
  BY <1>4 DEF HandleRead
<1>5. CASE EventReturns
  BY <1>5 DEF EventReturns
<1>6. CASE DoPendingFunctors
  BY <1>6 DEF DoPendingFunctors
<1>7. CASE Swap
  BY <1>7 DEF Swap, Executor!Break, TypeInv, TypeOK
<1>8. CASE RunFunctor
  <2>1. CASE ub
    BY <1>8, <2>1 DEF RunFunctor, Executor!Break
  <2>2. CASE ~ub
    <3>1. submitted = (executed \o functors) \o pendingFunctors_
      BY <2>2 DEF FifoInv, FifoExactlyOnce
    <3>2. /\ Len(executed) < Len(submitted)
          /\ submitted[Len(executed) + 1] = Head(functors)
      BY <1>8, <3>1, NextInOrder DEF RunFunctor, TypeInv, TypeOK
    <3> QED
      BY <1>8, <3>2 DEF RunFunctor, Executor!Run
  <2> QED
    BY <2>1, <2>2
<1>9. CASE FunctorReturns
  BY <1>9 DEF FunctorReturns
<1>10. CASE FunctorsDone
  BY <1>10 DEF FunctorsDone
<1>11. ASSUME NEW c \in Channels, HandleEvent(c)
       PROVE  UNCHANGED Executor!vars
  BY <1>11 DEF HandleEvent
<1>12. CASE Loop
  BY <1>12 DEF Loop
<1>13. CASE LoopQuit
  BY <1>13 DEF LoopQuit
<1>14. ASSUME NEW f \in Functors, LoopQueueInLoop(f) PROVE Executor!Next
  <2>1. CASE ub'
    BY <1>14, <2>1 DEF LoopQueueInLoop, Executor!Break, TypeInv, TypeOK
  <2>2. CASE ~ub'
    <3>1. ub' = ub
      BY <1>14, <2>2 DEF LoopQueueInLoop, TypeInv, TypeOK
    <3> QED
      BY <1>14, <3>1 DEF LoopQueueInLoop, Executor!Submit
  <2> QED
    BY <2>1, <2>2
<1>15. ASSUME NEW f \in Functors, LoopRunInLoop(f)
       PROVE  UNCHANGED Executor!vars
  BY <1>15 DEF LoopRunInLoop
<1>16. ASSUME NEW t \in Threads, NEW f \in Functors, QueueInLoop(t, f)
       PROVE  Executor!Break \/ UNCHANGED Executor!vars
  BY <1>16 DEF QueueInLoop, Executor!Break, TypeInv, TypeOK
<1>17. ASSUME NEW t \in Threads, PushBack(t) PROVE Executor!Next
  <2>1. arg[t] \in Functors
    BY <1>17 DEF PushBack, TypeInv, PushArg
  <2> QED
    BY <1>17, <2>1 DEF PushBack, Executor!Submit
<1>18. ASSUME NEW t \in Threads, WakeupLoop(t) PROVE UNCHANGED Executor!vars
  BY <1>18 DEF WakeupLoop
<1>19. ASSUME NEW t \in Threads, Quit(t) PROVE UNCHANGED Executor!vars
  BY <1>19 DEF Quit
<1>20. CASE UNCHANGED vars
  BY <1>20 DEF vars
<1> QED
  BY <1>1, <1>2, <1>3, <1>4, <1>5, <1>6, <1>7, <1>8, <1>9, <1>10, <1>11,
     <1>12, <1>13, <1>14, <1>15, <1>16, <1>17, <1>18, <1>19, <1>20
  DEF Next, LoopStep, LoopUser, OtherThread, Dead

\* EventLoop implements SerialExecutor: the functors handed to it are run one
\* at a time, once, in the order accepted, as long as no push has raced.
THEOREM RunsSerially == Spec => ImplementsSerialExecutor
<1>1. Init => Executor!Init
  BY DEF Init, Executor!Init
<1> QED
  BY <1>1, ExecutorNext, TypeInvariant, FifoInvariant, PTL
  DEF Spec, ImplementsSerialExecutor, Executor!Spec
=============================================================================
