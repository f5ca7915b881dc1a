-------------------------------- MODULE Poller --------------------------------
(***************************************************************************)
(* siren::net::EPollPoller under an EventLoop, with all the loop's         *)
(* channels: what poll() reports, and what callbacks and functors, which   *)
(* run on the loop's thread, do to channels in the meantime.               *)
(*                                                                         *)
(* A Channel is an object in memory: it is created on an open descriptor   *)
(* and destroyed later, and both its memory and the number of its          *)
(* descriptor are then used again.  The kernel's interest list holds the   *)
(* address of the channel, so does activeChannels_.                        *)
(***************************************************************************)
EXTENDS Integers, FiniteSets, Channel

CONSTANTS
  Chans,               \* places for Channel objects
  Fds,                 \* descriptor numbers
  None,                \* nullptr
  kInitEventListSize

ASSUME PollerAssumption ==
  /\ None \notin Chans
  /\ IsFiniteSet(Fds)
  /\ kInitEventListSize \in Nat \ {0}

VARIABLES
  live,            \* channels that exist
  fd_,
  events_,
  index_,
  opened,          \* channels whose descriptor is open and theirs
  channels_,       \* Poller::channels_, as a set of pairs
  kernel,          \* the interest list of epollfd_
  ready,           \* descriptors with an event to report
  cap,             \* size of EPollPoller::events_
  activeChannels_,
  left,            \* those of activeChannels_ the loop has not come to
  current,         \* currentActiveChannel_
  pc,              \* the loop: poll, events, functors
  failed           \* the assertion that has ended the process, or "none"

chanVars == <<live, fd_, events_, index_, opened, channels_, kernel>>
loopVars == <<cap, activeChannels_, left, current, pc>>
vars == <<chanVars, loopVars, ready, failed>>

Init ==
  /\ live = {} /\ opened = {} /\ channels_ = {} /\ kernel = {} /\ ready = {}
  /\ fd_ \in [Chans -> Fds]
  /\ events_ = [c \in Chans |-> {}] /\ index_ = [c \in Chans |-> kNew]
  /\ cap = kInitEventListSize /\ activeChannels_ = {} /\ left = {}
  /\ current = None /\ pc = "functors" /\ failed = "none"

-----------------------------------------------------------------------------
(* The kernel *)

\* epoll_ctl(): fails, which is only logged, when fd is watched already or not.
EpollCtl(op, fd, channel, events) ==
  LET others == {w \in kernel : w.fd # fd}
      watch == [fd |-> fd, ptr |-> channel, events |-> events]
  IN  IF (op = "ADD") = (\E w \in kernel : w.fd = fd) THEN kernel' = kernel
      ELSE kernel' = IF op = "DEL" THEN others ELSE others \cup {watch}

\* Something to report on a descriptor.
Arrive(f) ==
  /\ ready' = ready \cup {f}
  /\ UNCHANGED <<chanVars, loopVars, failed>>

-----------------------------------------------------------------------------
(* The loop *)

\* Mutation: the list of events keeps its size.
GrownNever(n) == cap

\* The list of events doubles when n events have filled it.
Grown(n) == IF n = cap THEN 2 * cap ELSE cap

\* poll() and fillActiveChannels(): no more events than the list has room for,
\* whichever the kernel likes; none after a timeout or a signal.
Poll ==
  /\ pc = "poll"
  /\ \E W \in SUBSET {w \in kernel : w.fd \in ready} :
       /\ Cardinality(W) <= cap
       /\ W # {w \in kernel : w.fd \in ready} => Cardinality(W) \in {0, cap}
       /\ activeChannels_' = {w.ptr : w \in W}
       /\ cap' = Grown(Cardinality(W))
  /\ left' = activeChannels_'
  /\ pc' = "events"
  /\ UNCHANGED <<chanVars, current, ready, failed>>

\* handleEvent() of the next active channel; current is None between two.
HandleEvent(c) ==
  /\ pc = "events" /\ current = None
  /\ c \in left
  /\ current' = c
  /\ left' = left \ {c}
  /\ UNCHANGED <<chanVars, cap, activeChannels_, pc, ready, failed>>

\* The callbacks of the channel return, and have dealt with the event or not.
CallbackReturns ==
  /\ current # None
  /\ ready' \in {ready, ready \ {fd_[current]}}
  /\ current' = None
  /\ UNCHANGED <<chanVars, cap, activeChannels_, left, pc, failed>>

DoPendingFunctors ==
  /\ pc = "events" /\ current = None /\ left = {}
  /\ pc' = "functors"
  /\ UNCHANGED <<chanVars, cap, activeChannels_, left, current, ready, failed>>

FunctorsDone ==
  /\ pc = "functors"
  /\ pc' = "poll"
  /\ activeChannels_' = {}
  /\ UNCHANGED <<chanVars, cap, left, current, ready, failed>>

-----------------------------------------------------------------------------
(* Channels, from callbacks and functors *)

Runs == current # None \/ pc = "functors"

\* A channel is made on a descriptor that no other channel owns.
NewChannel(c, f) ==
  /\ Runs
  /\ c \notin live /\ \A d \in opened : fd_[d] # f
  /\ live' = live \cup {c} /\ opened' = opened \cup {c}
  /\ fd_' = [fd_ EXCEPT ![c] = f]
  /\ events_' = [events_ EXCEPT ![c] = {}]
  /\ index_' = [index_ EXCEPT ![c] = kNew]
  /\ ready' = ready \ {f}
  /\ UNCHANGED <<channels_, kernel, loopVars, failed>>

HasChannel(c) == <<fd_[c], c>> \in channels_

\* The assertions of EPollPoller::updateChannel()
Updatable(c) ==
  CASE index_[c] = kNew -> \A e \in channels_ : e[1] # fd_[c]
    [] index_[c] = kDeleted -> HasChannel(c)
    [] OTHER -> TRUE

\* EPollPoller::updateChannel() and update()
UpdateChannel(c, events) ==
  /\ channels_' = IF index_[c] = kNew THEN channels_ \cup {<<fd_[c], c>>}
                                      ELSE channels_
  /\ index_' = [index_ EXCEPT ![c] = Updated(@, events)]
  /\ EpollCtl(IF index_[c] # kAdded THEN "ADD" ELSE IF events = {} THEN "DEL" ELSE "MOD",
              fd_[c], c, events)
  /\ failed' = IF Updatable(c) THEN failed ELSE "updateChannel"

\* enableReading(), disableWriting(), disableAll() and the others
SetEvents(c, events) ==
  /\ Runs
  /\ c \in opened
  /\ events_' = [events_ EXCEPT ![c] = events]
  /\ UpdateChannel(c, events)
  /\ UNCHANGED <<live, fd_, opened, loopVars, ready>>

\* Mutation: EventLoop::removeChannel() does not look at activeChannels_.
NotPendingMissing(c) == TRUE

\* The assertion of EventLoop::removeChannel()
NotPending(c) == current # None => c = current \/ c \notin activeChannels_

\* Mutation: a channel that wants no event is left in the interest list.
RemoveChannelKeepsWatch(c) ==
  /\ channels_' = channels_ \ {<<fd_[c], c>>}
  /\ kernel' = kernel
  /\ index_' = [index_ EXCEPT ![c] = kNew]
  /\ failed' = IF NotPending(c) /\ HasChannel(c) /\ Removable(index_[c], events_[c])
               THEN failed ELSE "removeChannel"

\* EPollPoller::removeChannel(), and the assertions on the way to it
RemoveChannel(c) ==
  /\ channels_' = channels_ \ {<<fd_[c], c>>}
  /\ IF index_[c] = kAdded THEN EpollCtl("DEL", fd_[c], c, {}) ELSE kernel' = kernel
  /\ index_' = [index_ EXCEPT ![c] = kNew]
  /\ failed' = IF NotPending(c) /\ HasChannel(c) /\ Removable(index_[c], events_[c])
               THEN failed ELSE "removeChannel"

Remove(c) ==
  /\ Runs
  /\ c \in opened
  /\ RemoveChannel(c)
  /\ UNCHANGED <<live, fd_, events_, opened, loopVars, ready>>

\* The descriptor is closed or goes to another object, as in Connector::retry()
\* and handleWrite(): after remove().
GiveUpFd(c) ==
  /\ Runs
  /\ c \in opened /\ index_[c] = kNew
  /\ opened' = opened \ {c}
  /\ UNCHANGED <<live, fd_, events_, index_, channels_, kernel, loopVars, ready,
                 failed>>

\* Mutation: the descriptor is not closed.
DestroyLeaks(c) ==
  /\ Runs
  /\ c \in live /\ c # current
  /\ live' = live \ {c}
  /\ opened' = opened
  /\ failed' = IF HasChannel(c) THEN "~Channel" ELSE failed
  /\ UNCHANGED <<fd_, events_, index_, channels_, kernel, loopVars, ready>>

\* ~Channel(), and the descriptor closed with it.  Nobody destroys a channel from
\* its own callback.
Destroy(c) ==
  /\ Runs
  /\ c \in live /\ c # current
  /\ live' = live \ {c}
  /\ opened' = opened \ {c}
  /\ failed' = IF HasChannel(c) THEN "~Channel" ELSE failed
  /\ UNCHANGED <<fd_, events_, index_, channels_, kernel, loopVars, ready>>

-----------------------------------------------------------------------------
LoopNext ==
  Poll \/ (\E c \in Chans : HandleEvent(c)) \/ CallbackReturns
       \/ DoPendingFunctors \/ FunctorsDone

ChannelNext(c) ==
  \/ \E f \in Fds : NewChannel(c, f)
  \/ \E E \in SUBSET Events : SetEvents(c, E)
  \/ Remove(c) \/ GiveUpFd(c) \/ Destroy(c)

\* A failed assertion ends the process.
Next ==
  /\ failed = "none"
  /\ \/ LoopNext
     \/ \E f \in Fds : Arrive(f)
     \/ \E c \in Chans : ChannelNext(c)

Spec == Init /\ [][Next]_vars

\* The loop goes on and its callbacks return; epoll_wait() does not time out or
\* fail for ever while there are events.
FairSpec ==
  /\ Spec
  /\ WF_vars(failed = "none" /\ LoopNext)
  /\ WF_vars(failed = "none" /\ (CallbackReturns \/ FunctorsDone))
  /\ SF_vars(failed = "none" /\ Poll /\ activeChannels_' # {})

-----------------------------------------------------------------------------
(* Properties *)

TypeOK ==
  /\ live \subseteq Chans /\ opened \subseteq live
  /\ fd_ \in [Chans -> Fds]
  /\ events_ \in [Chans -> SUBSET Events]
  /\ index_ \in [Chans -> Indices]
  /\ channels_ \subseteq Fds \X Chans
  /\ kernel \subseteq [fd : Fds, ptr : Chans, events : SUBSET Events]
  /\ ready \subseteq Fds /\ cap \in Nat \ {0}
  /\ activeChannels_ \subseteq Chans /\ left \subseteq activeChannels_
  /\ current \in Chans \cup {None}
  /\ pc \in {"poll", "events", "functors"}
  /\ failed \in {"none", "updateChannel", "removeChannel", "~Channel"}

Registered == {c \in live : index_[c] # kNew}

\* What the poller, its channels and the kernel believe agrees: channels_ has the
\* channels whose index_ is not kNew, and the kernel watches exactly those of them
\* that are kAdded, for the events they want, so that no epoll_ctl() and no assertion
\* of updateChannel() fails and no address of a destroyed channel is left in the
\* interest list.
KernelAgrees ==
  /\ failed # "updateChannel"
  /\ failed = "none" =>
    /\ channels_ = {<<fd_[c], c>> : c \in Registered}
    /\ kernel = {[fd |-> fd_[c], ptr |-> c, events |-> events_[c]] :
                   c \in {d \in Registered : index_[d] = kAdded}}

\* A channel reported by poll() that the loop has not come to yet still exists and
\* is still the one registered for its descriptor, whatever the callbacks before it
\* have removed, destroyed or made on the same number; so is the one being handled.
NoDanglingActive ==
  failed = "none" =>
    /\ left \subseteq Registered
    /\ current # None => current \in live

\* An event on a watched descriptor is handled, however many others keep the loop
\* busy and whichever the kernel prefers, since the list of events grows until they
\* all fit in.
ReadyIsServed ==
  \A c \in Chans :
    (c \in Registered /\ index_[c] = kAdded /\ fd_[c] \in ready)
      ~> (current = c \/ c \notin Registered \/ index_[c] # kAdded
          \/ fd_[c] \notin ready \/ failed # "none")
=============================================================================
