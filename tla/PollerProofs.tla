----------------------------- MODULE PollerProofs -----------------------------
(***************************************************************************)
(* The poller, its channels and the kernel agree, and no channel reported  *)
(* by poll() is gone before the loop comes to it: for any channels and     *)
(* descriptors.                                                            *)
(***************************************************************************)
EXTENDS Poller, TLAPS

\* Each registered channel owns its descriptor, and no two own the same.
Owners ==
  /\ failed = "none" => Registered \subseteq opened
  /\ \A c, d \in opened : fd_[c] = fd_[d] => c = d

\* Channels are handled between poll() and the functors only, each once.
Phases ==
  /\ pc # "events" => current = None /\ left = {}
  /\ current \notin left

IInv == TypeOK /\ KernelAgrees /\ NoDanglingActive /\ Owners /\ Phases

LEMMA InitIInv == Init => IInv
  BY PollerAssumption DEF Init, IInv, TypeOK, KernelAgrees, NoDanglingActive, Owners,
     Phases, Registered, Indices, kNew

LEMMA ArriveIInv == ASSUME IInv, NEW f \in Fds, Arrive(f) PROVE IInv'
  BY DEF IInv, TypeOK, KernelAgrees, NoDanglingActive, Owners, Phases, Registered,
     Arrive, chanVars, loopVars

LEMMA PollIInv == ASSUME IInv, failed = "none", Poll PROVE IInv'
<1>1. PICK W \in SUBSET {w \in kernel : w.fd \in ready} :
        activeChannels_' = {w.ptr : w \in W} /\ cap' = Grown(Cardinality(W))
        /\ Cardinality(W) <= cap
  BY DEF Poll
<1>2. activeChannels_' \subseteq Registered
  BY <1>1 DEF IInv, KernelAgrees, Registered
<1>3. cap' \in Nat \ {0}
  BY <1>1 DEF IInv, TypeOK, Grown
<1> QED
  BY <1>2, <1>3, PollerAssumption DEF IInv, TypeOK, KernelAgrees, NoDanglingActive, Owners,
     Phases, Registered, Poll, chanVars

LEMMA LoopIInv ==
  ASSUME IInv, failed = "none", LoopNext PROVE IInv'
<1>1. CASE Poll
  BY <1>1, PollIInv
<1>2. ASSUME NEW c \in Chans, HandleEvent(c) PROVE IInv'
  BY <1>2, PollerAssumption DEF IInv, TypeOK, KernelAgrees, NoDanglingActive, Owners, Phases,
     Registered, HandleEvent, chanVars
<1>3. CASE CallbackReturns
  BY <1>3, PollerAssumption DEF IInv, TypeOK, KernelAgrees, NoDanglingActive, Owners, Phases,
     Registered, CallbackReturns, chanVars
<1>4. CASE DoPendingFunctors
  BY <1>4, PollerAssumption DEF IInv, TypeOK, KernelAgrees, NoDanglingActive, Owners, Phases,
     Registered, DoPendingFunctors, chanVars
<1>5. CASE FunctorsDone
  BY <1>5, PollerAssumption DEF IInv, TypeOK, KernelAgrees, NoDanglingActive, Owners, Phases,
     Registered, FunctorsDone, chanVars
<1> QED
  BY <1>1, <1>2, <1>3, <1>4, <1>5 DEF LoopNext

-----------------------------------------------------------------------------
(* Channels *)

LEMMA NewChannelIInv ==
  ASSUME IInv, failed = "none", NEW c \in Chans, NEW f \in Fds, NewChannel(c, f)
  PROVE  IInv'
<1> USE DEF IInv, NewChannel, loopVars
<1>1. TypeOK'
  BY DEF TypeOK, Indices, kNew
<1>2. Registered' = Registered /\ \A d \in Registered : d # c
  BY DEF TypeOK, Registered, kNew
<1>3. \A d \in Registered :
        fd_'[d] = fd_[d] /\ events_'[d] = events_[d] /\ index_'[d] = index_[d]
  BY <1>2 DEF TypeOK, Registered
<1>4. KernelAgrees' /\ NoDanglingActive'
  BY <1>2, <1>3 DEF KernelAgrees, NoDanglingActive
<1>5. Owners' /\ Phases'
  BY <1>2 DEF Owners, Phases, TypeOK
<1> QED
  BY <1>1, <1>4, <1>5

LEMMA GiveUpFdIInv ==
  ASSUME IInv, failed = "none", NEW c \in Chans, GiveUpFd(c) PROVE IInv'
  BY DEF IInv, TypeOK, KernelAgrees, NoDanglingActive, Owners, Phases, Registered,
     GiveUpFd, loopVars

LEMMA DestroyIInv ==
  ASSUME IInv, failed = "none", NEW c \in Chans, Destroy(c) PROVE IInv'
<1> USE DEF IInv, Destroy, loopVars
<1>1. TypeOK' /\ Owners' /\ Phases'
  BY DEF TypeOK, Owners, Phases, Registered
<1>2. CASE HasChannel(c)
  BY <1>1, <1>2 DEF KernelAgrees, NoDanglingActive
<1>3. CASE ~HasChannel(c)
  <2>1. c \notin Registered
    BY <1>3 DEF KernelAgrees, HasChannel
  <2>2. Registered' = Registered
    BY <2>1 DEF Registered
  <2> QED
    BY <1>1, <2>2, <1>3, <2>1 DEF KernelAgrees, NoDanglingActive, Registered
<1> QED
  BY <1>2, <1>3

\* Another channel that is registered has another descriptor.
LEMMA OtherFds ==
  ASSUME IInv, failed = "none", NEW c \in opened
  PROVE  \A d \in Registered : d # c => fd_[d] # fd_[c]
  BY DEF IInv, Owners

LEMMA SetEventsIInv ==
  ASSUME IInv, failed = "none", NEW c \in Chans, NEW E \in SUBSET Events,
         SetEvents(c, E)
  PROVE  IInv'
<1> USE DEF SetEvents, loopVars
<1>1. c \in opened /\ c \in live
  BY DEF IInv, TypeOK
<1>2. \A d \in Registered : d # c => fd_[d] # fd_[c]
  BY <1>1, OtherFds
<1>3. Updated(index_[c], E) # kNew /\ Updated(index_[c], E) \in Indices
  BY DEF Updated, Indices, kNew, kAdded, kDeleted
<1>4. index_' = [index_ EXCEPT ![c] = Updated(index_[c], E)] /\ index_ \in [Chans -> Indices]
  BY DEF UpdateChannel, IInv, TypeOK
<1>5. Registered' = Registered \cup {c}
  BY <1>1, <1>3, <1>4 DEF Registered, IInv, TypeOK
<1>6. Updatable(c)
  <2>1. channels_ = {<<fd_[d], d>> : d \in Registered}
    BY DEF IInv, KernelAgrees
  <2>2. CASE index_[c] = kNew
    <3>1. \A e \in channels_ : e[1] # fd_[c]
      BY <2>1, <2>2, <1>2 DEF Registered
    <3> QED
      BY <2>2, <3>1 DEF Updatable, kNew, kDeleted
  <2>3. CASE index_[c] = kDeleted
    BY <2>1, <2>3, <1>1 DEF Registered, Updatable, HasChannel, kNew, kDeleted
  <2>4. CASE index_[c] = kAdded
    BY <2>4 DEF Updatable, kNew, kDeleted, kAdded
  <2> QED
    BY <2>2, <2>3, <2>4 DEF IInv, TypeOK, Indices
<1>7. failed' = "none"
  BY <1>6 DEF UpdateChannel
<1>8. channels_' = {<<fd_[d], d>> : d \in Registered'}
  <2>1. CASE index_[c] = kNew
    BY <2>1, <1>5 DEF UpdateChannel, IInv, KernelAgrees
  <2>2. CASE index_[c] # kNew
    BY <2>2, <1>1, <1>5 DEF UpdateChannel, IInv, KernelAgrees, Registered
  <2> QED
    BY <2>1, <2>2
<1> DEFINE Watch(d) == [fd |-> fd_[d], ptr |-> d, events |-> events_'[d]]
<1>9. kernel' = {Watch(d) : d \in {e \in Registered' : index_'[e] = kAdded}}
  <2>1. kernel = {[fd |-> fd_[d], ptr |-> d, events |-> events_[d]] :
                   d \in {e \in Registered : index_[e] = kAdded}}
    BY DEF IInv, KernelAgrees
  <2>2. events_' = [events_ EXCEPT ![c] = E] /\ events_ \in [Chans -> SUBSET Events]
    BY DEF IInv, TypeOK
  <2>3. {w \in kernel : w.fd # fd_[c]} =
        {Watch(d) : d \in {e \in Registered' \ {c} : index_'[e] = kAdded}}
    BY <2>1, <2>2, <1>2, <1>4, <1>5 DEF Registered, IInv, TypeOK
  <2>4. (\E w \in kernel : w.fd = fd_[c]) <=> index_[c] = kAdded
    <3>1. ASSUME index_[c] = kAdded PROVE \E w \in kernel : w.fd = fd_[c]
      <4>1. [fd |-> fd_[c], ptr |-> c, events |-> events_[c]] \in kernel
        BY <3>1, <2>1, <1>1 DEF Registered, kAdded, kNew
      <4> QED
        BY <4>1
    <3>2. ASSUME NEW w \in kernel, w.fd = fd_[c] PROVE index_[c] = kAdded
      BY <3>2, <2>1, <1>2
    <3> QED
      BY <3>1, <3>2
  <2>5. Watch(c) = [fd |-> fd_[c], ptr |-> c, events |-> E]
    BY <2>2
  <2>6. index_'[c] = kAdded <=> ~(index_[c] = kAdded /\ E = {})
    BY <1>4 DEF Updated, kAdded, kDeleted
  <2>7. kernel' = IF index_[c] = kAdded /\ E = {} THEN {w \in kernel : w.fd # fd_[c]}
                  ELSE {w \in kernel : w.fd # fd_[c]} \cup {Watch(c)}
    <3>1. CASE index_[c] # kAdded
      BY <3>1, <2>4, <2>5 DEF UpdateChannel, EpollCtl
    <3>2. CASE index_[c] = kAdded /\ E = {}
      BY <3>2, <2>4 DEF UpdateChannel, EpollCtl
    <3>3. CASE index_[c] = kAdded /\ E # {}
      BY <3>3, <2>4, <2>5 DEF UpdateChannel, EpollCtl
    <3> QED
      BY <3>1, <3>2, <3>3
  <2> HIDE DEF Watch
  <2> QED
    BY <2>3, <2>6, <2>7, <1>5
<1>10. KernelAgrees'
  BY <1>7, <1>8, <1>9 DEF KernelAgrees
<1>11. TypeOK'
  <2>1. channels_' \subseteq Fds \X Chans
    BY DEF UpdateChannel, IInv, TypeOK
  <2>2. kernel' \subseteq [fd : Fds, ptr : Chans, events : SUBSET Events]
    BY <1>9, <1>5 DEF IInv, TypeOK, Registered
  <2> QED
    BY <2>1, <2>2, <1>3, <1>4, <1>7 DEF IInv, TypeOK
<1>12. NoDanglingActive' /\ Owners' /\ Phases'
  BY <1>1, <1>5 DEF IInv, NoDanglingActive, Owners, Phases
<1> QED
  BY <1>10, <1>11, <1>12 DEF IInv

LEMMA RemoveIInv ==
  ASSUME IInv, failed = "none", NEW c \in Chans, Remove(c) PROVE IInv'
<1> USE DEF Remove, loopVars
<1>1. c \in opened /\ c \in live
  BY DEF IInv, TypeOK
<1>2. \A d \in Registered : d # c => fd_[d] # fd_[c]
  BY <1>1, OtherFds
<1>3. index_' = [index_ EXCEPT ![c] = kNew] /\ index_ \in [Chans -> Indices]
  BY DEF RemoveChannel, IInv, TypeOK
<1>4. Registered' = Registered \ {c}
  BY <1>1, <1>3 DEF Registered, IInv, TypeOK
<1>5. TypeOK'
  <2>1. kernel' \subseteq kernel
    BY DEF RemoveChannel, EpollCtl
  <2>2. channels_' \subseteq channels_ /\ failed' \in {failed, "removeChannel"}
    BY DEF RemoveChannel
  <2>3. kNew \in Indices
    BY DEF Indices
  <2> QED
    BY <2>1, <2>2, <2>3, <1>3 DEF IInv, TypeOK
<1>6. Owners' /\ Phases'
  BY <1>4 DEF IInv, Owners, Phases
<1>7. CASE failed' # "none"
  BY <1>5, <1>6, <1>7 DEF IInv, KernelAgrees, NoDanglingActive, RemoveChannel
<1>8. CASE failed' = "none"
  <2>1. NotPending(c) /\ index_[c] # kNew
    BY <1>8 DEF RemoveChannel, Removable
  <2>2. channels_' = {<<fd_[d], d>> : d \in Registered'}
    BY <1>4 DEF RemoveChannel, IInv, KernelAgrees
  <2>3. kernel = {[fd |-> fd_[d], ptr |-> d, events |-> events_[d]] :
                   d \in {e \in Registered : index_[e] = kAdded}}
    BY DEF IInv, KernelAgrees
  <2>4. kernel' = {[fd |-> fd_[d], ptr |-> d, events |-> events_[d]] :
                    d \in {e \in Registered \ {c} : index_[e] = kAdded}}
    <3>1. CASE index_[c] = kAdded
      <4>1. [fd |-> fd_[c], ptr |-> c, events |-> events_[c]] \in kernel
        BY <3>1, <2>1, <2>3, <1>1 DEF Registered
      <4>2. \E w \in kernel : w.fd = fd_[c]
        BY <4>1
      <4>3. kernel' = {w \in kernel : w.fd # fd_[c]}
        BY <3>1, <4>2 DEF RemoveChannel, EpollCtl
      <4> QED
        BY <4>3, <2>3, <1>2
    <3>2. CASE index_[c] # kAdded
      BY <3>2, <2>3 DEF RemoveChannel
    <3> QED
      BY <3>1, <3>2
  <2>5. {e \in Registered' : index_'[e] = kAdded} =
        {e \in Registered \ {c} : index_[e] = kAdded}
    BY <1>3, <1>4 DEF Registered, IInv, TypeOK
  <2>6. KernelAgrees'
    BY <1>8, <2>2, <2>4, <2>5 DEF KernelAgrees
  <2>7. c \notin left
    BY <2>1 DEF Runs, NotPending, IInv, Phases, TypeOK
  <2>8. NoDanglingActive'
    BY <2>7, <1>4 DEF IInv, NoDanglingActive
  <2> QED
    BY <1>5, <1>6, <2>6, <2>8 DEF IInv
<1> QED
  BY <1>7, <1>8

-----------------------------------------------------------------------------
LEMMA NextIInv == IInv /\ [Next]_vars => IInv'
<1> SUFFICES ASSUME IInv, [Next]_vars PROVE IInv'
  OBVIOUS
<1>1. CASE UNCHANGED vars
  BY <1>1 DEF IInv, TypeOK, KernelAgrees, NoDanglingActive, Owners, Phases,
     Registered, vars, chanVars, loopVars
<1>2. CASE Next
  <2>1. failed = "none"
    BY <1>2 DEF Next
  <2>2. CASE LoopNext
    BY <2>1, <2>2, LoopIInv
  <2>3. ASSUME NEW f \in Fds, Arrive(f) PROVE IInv'
    BY <2>3, ArriveIInv
  <2>4. ASSUME NEW c \in Chans, ChannelNext(c) PROVE IInv'
    BY <2>1, <2>4, NewChannelIInv, SetEventsIInv, RemoveIInv, GiveUpFdIInv,
       DestroyIInv DEF ChannelNext
  <2> QED
    BY <1>2, <2>2, <2>3, <2>4 DEF Next
<1> QED
  BY <1>1, <1>2

THEOREM InvariantHolds == Spec => []IInv
  BY InitIInv, NextIInv, PTL DEF Spec

\* The variables keep their types.
THEOREM TypeCorrect == Spec => []TypeOK
  BY InvariantHolds, PTL DEF IInv

\* channels_, index_ and the kernel's interest list agree, and no assertion of
\* updateChannel() fails.
THEOREM Agreement == Spec => []KernelAgrees
  BY InvariantHolds, PTL DEF IInv

\* No channel that poll() reported is gone when the loop comes to it.
THEOREM NothingDangles == Spec => []NoDanglingActive
  BY InvariantHolds, PTL DEF IInv
=============================================================================
