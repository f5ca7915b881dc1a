------------------------------ MODULE EventLoop ------------------------------
(***************************************************************************)
(* siren::net::EventLoop: the loop of one thread, the functors that other  *)
(* threads hand to it with runInLoop()/queueInLoop(), the eventfd that     *)
(* wakes it out of epoll_wait(), and quit().                               *)
(*                                                                         *)
(* queueInLoop() guards pendingFunctors_ with the statement                *)
(*     std::unique_lock<std::mutex>(mutex_);                               *)
(* which declares a local lock named mutex_ that owns no mutex.  The       *)
(* push_back is therefore not atomic with respect to the swap of           *)
(* doPendingFunctors() or to the push_back of another thread: it is a      *)
(* window (QueueInLoop .. PushBack) that other accesses may overlap.  An   *)
(* overlap is a data race; its outcome is chosen among those a growing     *)
(* std::vector can produce: the element is appended, it is lost, the       *)
(* contents seen when the window opened come back, the process crashes.    *)
(***************************************************************************)
EXTENDS Naturals, Sequences

CONSTANTS
  Threads,     \* threads other than the loop's own that use the loop
  Functors,    \* functors; each is handed to the loop at most once
  Channels,    \* channels of the user that the poller may report
  Wakeup,      \* wakeupChannel_
  NoFunctor    \* "no functor": the argument of a thread outside queueInLoop

ASSUME EventLoopAssumption ==
  /\ Wakeup \notin Channels
  /\ NoFunctor \notin Functors

VARIABLES
  loopPc,                   \* where the loop thread is
  quit_,
  callingPendingFunctors_,
  activeChannels_,          \* channels reported and not yet handled
  wakeupFd_,                \* the eventfd's counter is not zero
  pendingFunctors_,
  functors,                 \* the local vector of doPendingFunctors()
  threadPc,                 \* where each other thread is
  arg,                      \* the functor it is pushing
  seen,                     \* the vector's contents when its push began
  overlapped,               \* threads whose push another access overlapped
  ub,                       \* a data race has happened
  crashed,                  \* ... and it ended the process
  used,                     \* history: functors handed to the loop
  submitted,                \* history: functors pushed, in order
  executed,                 \* history: functors run from the queue, in order
  idleQueued                \* history: functors queued by the loop's own
                            \* thread while it was outside loop()

loopVars == <<loopPc, quit_, callingPendingFunctors_, activeChannels_, functors>>
queueVars == <<pendingFunctors_, overlapped, ub, crashed>>
threadVars == <<threadPc, arg, seen>>
histVars == <<used, submitted, executed, idleQueued>>
vars == <<loopVars, wakeupFd_, queueVars, threadVars, histVars>>

Pushing == {t \in Threads : threadPc[t] = "push"}

\* The loop thread is in code of the user: before or after loop(), in the
\* callback of a channel, or in a functor.
InUserCode == loopPc \in {"idle", "event", "functor"}

\* A data race may end the process.
MayCrash(race) == crashed' \in (IF race THEN BOOLEAN ELSE {FALSE})

Init ==
  /\ loopPc = "idle"
  /\ quit_ = FALSE
  /\ callingPendingFunctors_ = FALSE
  /\ activeChannels_ = {}
  /\ wakeupFd_ = FALSE
  /\ pendingFunctors_ = <<>>
  /\ functors = <<>>
  /\ threadPc = [t \in Threads |-> "out"]
  /\ arg = [t \in Threads |-> NoFunctor]
  /\ seen = [t \in Threads |-> <<>>]
  /\ overlapped = {}
  /\ ub = FALSE
  /\ crashed = FALSE
  /\ used = {}
  /\ submitted = <<>>
  /\ executed = <<>>
  /\ idleQueued = {}

-----------------------------------------------------------------------------
(* The loop thread: EventLoop::loop() *)

\* quit_ is reset on entry: a quit() that came before is forgotten.
Loop ==
  /\ loopPc = "idle"
  /\ loopPc' = "test"
  /\ quit_' = FALSE
  /\ UNCHANGED <<callingPendingFunctors_, activeChannels_, functors, wakeupFd_,
                 queueVars, threadVars, histVars>>

TestQuit ==
  /\ loopPc = "test"
  /\ loopPc' = IF quit_ THEN "idle" ELSE "poll"
  /\ UNCHANGED <<quit_, callingPendingFunctors_, activeChannels_, functors,
                 wakeupFd_, queueVars, threadVars, histVars>>

\* epoll_wait() reports the eventfd if it is readable, and any user channels.
Poll ==
  /\ loopPc = "poll"
  /\ \E ready \in SUBSET Channels :
       activeChannels_' = IF wakeupFd_ THEN ready \cup {Wakeup} ELSE ready
  /\ activeChannels_' # {}
  /\ loopPc' = "handle"
  /\ UNCHANGED <<quit_, callingPendingFunctors_, functors, wakeupFd_,
                 queueVars, threadVars, histVars>>

\* kPollTimeMs has passed, or epoll_wait() was interrupted.
PollNothing ==
  /\ loopPc = "poll"
  /\ ~wakeupFd_
  /\ activeChannels_' = {}
  /\ loopPc' = "handle"
  /\ UNCHANGED <<quit_, callingPendingFunctors_, functors, wakeupFd_,
                 queueVars, threadVars, histVars>>

\* EventLoop::handleRead(): reading the eventfd clears its counter.
HandleRead ==
  /\ loopPc = "handle"
  /\ Wakeup \in activeChannels_
  /\ activeChannels_' = activeChannels_ \ {Wakeup}
  /\ wakeupFd_' = FALSE
  /\ UNCHANGED <<loopPc, quit_, callingPendingFunctors_, functors,
                 queueVars, threadVars, histVars>>

HandleEvent(c) ==
  /\ loopPc = "handle"
  /\ c \in activeChannels_
  /\ activeChannels_' = activeChannels_ \ {c}
  /\ loopPc' = "event"
  /\ UNCHANGED <<quit_, callingPendingFunctors_, functors, wakeupFd_,
                 queueVars, threadVars, histVars>>

EventReturns ==
  /\ loopPc = "event"
  /\ loopPc' = "handle"
  /\ UNCHANGED <<quit_, callingPendingFunctors_, activeChannels_, functors,
                 wakeupFd_, queueVars, threadVars, histVars>>

\* The last channel is handled; doPendingFunctors() begins.
DoPendingFunctors ==
  /\ loopPc = "handle"
  /\ activeChannels_ = {}
  /\ callingPendingFunctors_' = TRUE
  /\ loopPc' = "swap"
  /\ UNCHANGED <<quit_, activeChannels_, functors, wakeupFd_,
                 queueVars, threadVars, histVars>>

\* Mutation: the vector is copied instead of swapped.
SwapCopies ==
  /\ loopPc = "swap"
  /\ functors' = pendingFunctors_
  /\ loopPc' = "run"
  /\ overlapped' = overlapped \cup Pushing
  /\ ub' = (ub \/ Pushing # {})
  /\ MayCrash(Pushing # {})
  /\ UNCHANGED <<quit_, callingPendingFunctors_, activeChannels_, wakeupFd_,
                 pendingFunctors_, threadVars, histVars>>

\* functors.swap(pendingFunctors_), under a lock that no other thread takes.
Swap ==
  /\ loopPc = "swap"
  /\ functors' = pendingFunctors_
  /\ pendingFunctors_' = <<>>
  /\ loopPc' = "run"
  /\ overlapped' = overlapped \cup Pushing
  /\ ub' = (ub \/ Pushing # {})
  /\ MayCrash(Pushing # {})
  /\ UNCHANGED <<quit_, callingPendingFunctors_, activeChannels_, wakeupFd_,
                 threadVars, histVars>>

\* Mutation: the vector is consumed from its end.
RunLastFunctor ==
  /\ loopPc = "run"
  /\ functors # <<>>
  /\ executed' = Append(executed, functors[Len(functors)])
  /\ functors' = SubSeq(functors, 1, Len(functors) - 1)
  /\ loopPc' = "functor"
  /\ UNCHANGED <<quit_, callingPendingFunctors_, activeChannels_, wakeupFd_,
                 queueVars, threadVars, used, submitted, idleQueued>>

RunFunctor ==
  /\ loopPc = "run"
  /\ functors # <<>>
  /\ executed' = Append(executed, Head(functors))
  /\ functors' = Tail(functors)
  /\ loopPc' = "functor"
  /\ UNCHANGED <<quit_, callingPendingFunctors_, activeChannels_, wakeupFd_,
                 queueVars, threadVars, used, submitted, idleQueued>>

FunctorReturns ==
  /\ loopPc = "functor"
  /\ loopPc' = "run"
  /\ UNCHANGED <<quit_, callingPendingFunctors_, activeChannels_, functors,
                 wakeupFd_, queueVars, threadVars, histVars>>

\* Mutation: quit_ is only tested when loop() is entered.
FunctorsDoneNoTest ==
  /\ loopPc = "run"
  /\ functors = <<>>
  /\ callingPendingFunctors_' = FALSE
  /\ loopPc' = "poll"
  /\ UNCHANGED <<quit_, activeChannels_, functors, wakeupFd_,
                 queueVars, threadVars, histVars>>

FunctorsDone ==
  /\ loopPc = "run"
  /\ functors = <<>>
  /\ callingPendingFunctors_' = FALSE
  /\ loopPc' = "test"
  /\ UNCHANGED <<quit_, activeChannels_, functors, wakeupFd_,
                 queueVars, threadVars, histVars>>

-----------------------------------------------------------------------------
(* Calls made by the user's code on the loop thread *)

\* Mutation: callingPendingFunctors_ is not consulted, so that a functor
\* queued by a functor does not wake the loop up.
LoopQueueInLoopNoWakeup(f) ==
  /\ InUserCode
  /\ f \notin used
  /\ used' = used \cup {f}
  /\ submitted' = Append(submitted, f)
  /\ pendingFunctors_' = Append(pendingFunctors_, f)
  /\ idleQueued' = IF loopPc = "idle" THEN idleQueued \cup {f} ELSE idleQueued
  /\ UNCHANGED <<loopVars, wakeupFd_, overlapped, ub, crashed, threadVars,
                 executed>>

\* queueInLoop() on the loop thread: it races only with other threads.
LoopQueueInLoop(f) ==
  /\ InUserCode
  /\ f \notin used
  /\ used' = used \cup {f}
  /\ submitted' = Append(submitted, f)
  /\ pendingFunctors_' \in
       {Append(pendingFunctors_, f)}
         \cup (IF Pushing = {} THEN {} ELSE {pendingFunctors_})
  /\ overlapped' = overlapped \cup Pushing
  /\ ub' = (ub \/ Pushing # {})
  /\ wakeupFd_' = (wakeupFd_ \/ callingPendingFunctors_)
  /\ idleQueued' = IF loopPc = "idle" THEN idleQueued \cup {f} ELSE idleQueued
  /\ MayCrash(Pushing # {})
  /\ UNCHANGED <<loopVars, threadVars, executed>>

\* runInLoop() on the loop thread calls the functor on the spot.
LoopRunInLoop(f) ==
  /\ InUserCode
  /\ f \notin used
  /\ used' = used \cup {f}
  /\ UNCHANGED <<loopVars, wakeupFd_, queueVars, threadVars, submitted,
                 executed, idleQueued>>

\* quit() on the loop thread needs no wakeup.
LoopQuit ==
  /\ InUserCode
  /\ quit_' = TRUE
  /\ UNCHANGED <<loopPc, callingPendingFunctors_, activeChannels_, functors,
                 wakeupFd_, queueVars, threadVars, histVars>>

-----------------------------------------------------------------------------
(* Calls made by another thread t *)

\* runInLoop() or queueInLoop() on another thread: the push_back begins.
QueueInLoop(t, f) ==
  /\ threadPc[t] = "out"
  /\ f \notin used
  /\ used' = used \cup {f}
  /\ threadPc' = [threadPc EXCEPT ![t] = "push"]
  /\ arg' = [arg EXCEPT ![t] = f]
  /\ seen' = [seen EXCEPT ![t] = pendingFunctors_]
  /\ overlapped' = IF Pushing = {} THEN overlapped
                   ELSE overlapped \cup Pushing \cup {t}
  /\ ub' = (ub \/ Pushing # {})
  /\ UNCHANGED <<loopVars, wakeupFd_, pendingFunctors_, crashed, submitted,
                 executed, idleQueued>>

\* Mutation: the functor is moved from before it is pushed.
PushBackMovedFrom(t) ==
  /\ threadPc[t] = "push"
  /\ threadPc' = [threadPc EXCEPT ![t] = "wake"]
  /\ arg' = [arg EXCEPT ![t] = NoFunctor]
  /\ pendingFunctors_' = Append(pendingFunctors_, arg'[t])
  /\ submitted' = Append(submitted, arg[t])
  /\ overlapped' = overlapped \ {t}
  /\ seen' = [seen EXCEPT ![t] = <<>>]
  /\ UNCHANGED <<loopVars, wakeupFd_, ub, crashed, used, executed, idleQueued>>

\* Mutation: the other thread does not wake the loop up.
PushBackNoWakeup(t) ==
  /\ threadPc[t] = "push"
  /\ threadPc' = [threadPc EXCEPT ![t] = "out"]
  /\ pendingFunctors_' = Append(pendingFunctors_, arg[t])
  /\ submitted' = Append(submitted, arg[t])
  /\ overlapped' = overlapped \ {t}
  /\ arg' = [arg EXCEPT ![t] = NoFunctor]
  /\ seen' = [seen EXCEPT ![t] = <<>>]
  /\ UNCHANGED <<loopVars, wakeupFd_, ub, crashed, used, executed, idleQueued>>

\* ... and ends.
PushBack(t) ==
  /\ threadPc[t] = "push"
  /\ threadPc' = [threadPc EXCEPT ![t] = "wake"]
  /\ pendingFunctors_' \in
       {Append(pendingFunctors_, arg[t])}
         \cup (IF t \in overlapped
               THEN {pendingFunctors_, Append(seen[t], arg[t])} ELSE {})
  /\ MayCrash(t \in overlapped)
  /\ submitted' = Append(submitted, arg[t])
  /\ overlapped' = overlapped \ {t}
  /\ arg' = [arg EXCEPT ![t] = NoFunctor]
  /\ seen' = [seen EXCEPT ![t] = <<>>]
  /\ UNCHANGED <<loopVars, wakeupFd_, ub, used, executed, idleQueued>>

\* wakeup(): writing the eventfd makes it readable.
WakeupLoop(t) ==
  /\ threadPc[t] = "wake"
  /\ threadPc' = [threadPc EXCEPT ![t] = "out"]
  /\ wakeupFd_' = TRUE
  /\ UNCHANGED <<loopVars, queueVars, arg, seen, histVars>>

\* Mutation: quit() does not wake the loop up.
QuitNoWakeup(t) ==
  /\ threadPc[t] = "out"
  /\ quit_' = TRUE
  /\ UNCHANGED <<loopPc, callingPendingFunctors_, activeChannels_, functors,
                 wakeupFd_, queueVars, threadVars, histVars>>

\* quit() on another thread: quit_ is set, then the loop is woken up.
Quit(t) ==
  /\ threadPc[t] = "out"
  /\ quit_' = TRUE
  /\ threadPc' = [threadPc EXCEPT ![t] = "wake"]
  /\ UNCHANGED <<loopPc, callingPendingFunctors_, activeChannels_, functors,
                 wakeupFd_, queueVars, arg, seen, histVars>>

-----------------------------------------------------------------------------
LoopStep ==
  \/ TestQuit \/ Poll \/ PollNothing
  \/ HandleRead \/ EventReturns \/ DoPendingFunctors
  \/ Swap \/ RunFunctor \/ FunctorReturns \/ FunctorsDone
  \/ \E c \in Channels : HandleEvent(c)

LoopUser ==
  \/ Loop \/ LoopQuit
  \/ \E f \in Functors : LoopQueueInLoop(f) \/ LoopRunInLoop(f)

OtherThread(t) ==
  \/ PushBack(t) \/ WakeupLoop(t) \/ Quit(t)
  \/ \E f \in Functors : QueueInLoop(t, f)

\* After the process has died nothing happens.
Dead == crashed /\ UNCHANGED vars

Next ==
  \/ ~crashed /\ (LoopStep \/ LoopUser \/ \E t \in Threads : OtherThread(t))
  \/ Dead

Spec == Init /\ [][Next]_vars

(***************************************************************************)
(* Fairness.  Threads are scheduled and callbacks return.  epoll_wait()    *)
(* returns when the eventfd is readable; nothing is assumed about user     *)
(* channels or about the poll timeout, so what is shown below never relies *)
(* on kPollTimeMs.                                                         *)
(***************************************************************************)
FairSpec ==
  /\ Spec
  /\ WF_vars(~crashed /\ TestQuit)
  /\ WF_vars(~crashed /\ wakeupFd_ /\ Poll)
  /\ WF_vars(~crashed /\ HandleRead)
  /\ WF_vars(~crashed /\ \E c \in Channels : HandleEvent(c))
  /\ WF_vars(~crashed /\ EventReturns)
  /\ WF_vars(~crashed /\ DoPendingFunctors)
  /\ WF_vars(~crashed /\ Swap)
  /\ WF_vars(~crashed /\ RunFunctor)
  /\ WF_vars(~crashed /\ FunctorReturns)
  /\ WF_vars(~crashed /\ FunctorsDone)
  /\ \A t \in Threads : WF_vars(~crashed /\ PushBack(t))
  /\ \A t \in Threads : WF_vars(~crashed /\ WakeupLoop(t))

-----------------------------------------------------------------------------
(* Properties *)

Elements(s) == {s[i] : i \in DOMAIN s}

\* A functor that the loop must not sleep on: queued from another thread or
\* by a callback, as opposed to queued by the loop's thread outside loop().
WorkPending == \E f \in Elements(pendingFunctors_) : f \notin idleQueued

\* The eventfd is readable, or some thread is about to make it so.
WakeupComing == wakeupFd_ \/ \E t \in Threads : threadPc[t] = "wake"

\* The variables of EventLoop and of the threads around it have their types;
\* in particular no empty functor ever enters pendingFunctors_.
TypeOK ==
  /\ loopPc \in {"idle", "test", "poll", "handle", "event", "swap", "run",
                 "functor"}
  /\ quit_ \in BOOLEAN
  /\ callingPendingFunctors_ \in BOOLEAN
  /\ activeChannels_ \in SUBSET (Channels \cup {Wakeup})
  /\ wakeupFd_ \in BOOLEAN
  /\ pendingFunctors_ \in Seq(Functors)
  /\ functors \in Seq(Functors)
  /\ threadPc \in [Threads -> {"out", "push", "wake"}]
  /\ arg \in [Threads -> Functors \cup {NoFunctor}]
  /\ seen \in [Threads -> Seq(Functors)]
  /\ overlapped \in SUBSET Threads
  /\ ub \in BOOLEAN
  /\ crashed \in BOOLEAN
  /\ used \in SUBSET Functors
  /\ submitted \in Seq(Functors)
  /\ executed \in Seq(Functors)
  /\ idleQueued \in SUBSET Functors

\* As long as no push_back of queueInLoop() has raced, the functors pushed are
\* those run, those swapped out by doPendingFunctors() and those pending, in
\* this order: none is lost, duplicated or overtaken.
FifoExactlyOnce ==
  ~ub => submitted = (executed \o functors) \o pendingFunctors_

\* The same without the exemption for data races, which is what the notes
\* "calling from other threads is thread safe" on runAt(), runAfter() and
\* runEvery() need of queueInLoop().
ThreadSafeQueueing ==
  submitted = (executed \o functors) \o pendingFunctors_

\* While the loop thread is in poll(), a functor that another thread or a
\* callback has queued has its wakeup written or about to be: it never waits
\* for the poll timeout.
NoSleepOnFunctors == loopPc = "poll" /\ WorkPending => WakeupComing

\* The same for a quit() made by another thread after loop() was entered.
NoSleepOnQuit == loopPc = "poll" /\ quit_ => WakeupComing

\* A functor in the queue is run, unless a race corrupts the queue or the loop
\* is told to quit; the poll timeout is not needed for it.
FunctorsRun ==
  \A f \in Functors :
    (f \in Elements(pendingFunctors_) \ idleQueued)
      ~> (f \in Elements(executed) \/ ub \/ loopPc = "idle")

\* A quit() that finds the thread inside loop() ends the loop, whichever
\* thread called it.
QuitEndsLoop == (quit_ /\ loopPc # "idle") ~> (loopPc = "idle" \/ crashed)

\* EventLoop keeps the promise of SerialExecutor until a data race.
Executor == INSTANCE SerialExecutor WITH broken <- ub
ImplementsSerialExecutor == Executor!Spec
=============================================================================
