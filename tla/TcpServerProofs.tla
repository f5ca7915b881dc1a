--------------------------- MODULE TcpServerProofs ---------------------------
(***************************************************************************)
(* Proofs about TcpServer, for any number of threads, connections and      *)
(* descriptors: types are kept, the descriptors are never overdrawn, every *)
(* connection has one owner, and the pool's loops share the connections    *)
(* evenly.                                                                 *)
(***************************************************************************)
EXTENDS TcpServer, QueueLemmas, TLAPS

Ops == {"connectEstablished", "connectDestroyed", "removeConnectionInLoop", "listen"}
Entries == Ops \X (0 .. MaxConns)

-----------------------------------------------------------------------------
(* The invariant *)

\* TypeOK, by what changes together.
AcceptorType ==
  /\ listening_ \in BOOLEAN /\ idleFd_ \in BOOLEAN
  /\ arrived \in 0 .. MaxConns /\ backlog \in 0 .. arrived /\ others \in 0 .. MaxOthers
  /\ Taken(Used) <= FdLimit
PoolType ==
  /\ numThreads_ \in ThreadNums /\ loops_ \in 0 .. numThreads_
  /\ next_ \in 0 .. numThreads_ /\ (loops_ > 0 => next_ < loops_)
  /\ joined \in 0 .. loops_
StartType ==
  /\ started_ \in Int /\ starts \in 0 .. MaxStarts
  /\ starting \in {"nobody", "loop", "thread"}
ThreadType ==
  /\ quit_ \in [Loops -> BOOLEAN]
  /\ pc \in [Loops -> {"none", "start", "ready", "check", "poll", "events", "reject",
                       "reopen", "functors", "left", "gone"}]
ConnType ==
  /\ connections_ \subseteq Conns /\ nextConnId_ \in 1 .. MaxConns + 1
  /\ conn \in [Conns -> {"none", "new", "up", "closed", "down", "freed"}]
  /\ ioLoop \in [Conns -> Loops]
QueueType ==
  /\ queue \in [Loops -> Seq(Entries)]
  /\ \A l \in Loops : batch[l] \in 0 .. Len(queue[l])
ServerType ==
  /\ active \in [Loops -> SUBSET (0 .. MaxConns)]
  /\ server \in {"alive", "conns", "look", "join", "gone"}
  /\ failed \in {"none", "connectEstablished", "remove", "erase", "~Channel",
                 "loopGone", "serverGone"}

LEMMA TypeParts ==
  TypeOK <=> /\ AcceptorType /\ PoolType /\ StartType /\ ThreadType /\ ConnType
             /\ QueueType /\ ServerType
BY DEF TypeOK, AcceptorType, PoolType, StartType, ThreadType, ConnType, QueueType, ServerType,
       Entries, Ops

\* What a loop has to handle is there while it handles it; the base loop stays in the
\* functor that destroys the server.
LoopInv ==
  /\ batch \in [Loops -> Nat]
  /\ \A l \in Loops : pc[l] # "functors" => batch[l] = 0
  /\ \A l \in Loops : pc[l] \notin {"events", "reject", "reopen"} => active[l] = {}
  /\ server \notin {"alive", "gone"} => pc[0] = "functors"
  /\ server = "join" => joined < loops_
  /\ loops_ = 0 => next_ = 0

\* Only the loop of a connection ends it, and only the base loop empties the backlog.
ActiveInv ==
  /\ \A l \in Loops : \A c \in active[l] :
       IF c = 0 THEN l = 0 /\ backlog > 0 ELSE conn[c] = "up" /\ ioLoop[c] = l
  /\ pc[0] \in {"reject", "reopen"} => 0 \notin active[0]
  /\ pc[0] = "reject" => backlog > 0

\* A connection is counted once, and none comes before all threads have started.
AcceptInv ==
  /\ nextConnId_ + backlog <= arrived + 1
  /\ listening_ \/ backlog > 0 \/ Count(0, "listen", 0) # 0 => loops_ = numThreads_

FreshInv ==
  \A c \in Conns : c >= nextConnId_ => conn[c] = "none" /\ c \notin connections_

\* Functors are queued on the loop they belong to, for connections there have been.
QueueInv ==
  \A l \in Loops : \A c \in 0 .. MaxConns :
    /\ Count(l, "connectEstablished", c) # 0 \/ Count(l, "connectDestroyed", c) # 0 =>
         c \in Conns /\ c < nextConnId_ /\ ioLoop[c] = l
    /\ Count(l, "removeConnectionInLoop", c) # 0 =>
         l = 0 /\ c \in Conns /\ c < nextConnId_ /\ ioLoop[c] # 0
    /\ Count(l, "listen", c) # 0 => l = 0 /\ c = 0

\* A connection on the base loop is established, closed and erased in one step each.
BaseInv ==
  \A c \in Conns : ioLoop[c] = 0 => conn[c] # "new" /\ (conn[c] = "up" <=> c \in connections_)

\* Who owns a connection, as OneOwner has it.
Owned(c) ==
  /\ Count(ioLoop[c], "connectDestroyed", c)
       = IF conn[c] \in {"new", "up", "closed"} /\ c \notin connections_ THEN 1 ELSE 0
  /\ c \in connections_ => conn[c] \in {"new", "up", "closed"}
  /\ Count(ioLoop[c], "connectEstablished", c) = IF conn[c] = "new" THEN 1 ELSE 0
OwnerInv == \A c \in Conns : pc[ioLoop[c]] # "gone" => Owned(c)

\* The loops before next_ are one connection ahead.
Spread ==
  /\ \A c \in Conns : c < nextConnId_ => (ioLoop[c] = 0 <=> numThreads_ = 0)
  /\ \E k \in Nat : \A l \in IoLoops : Load(l) = IF l <= next_ THEN k + 1 ELSE k

Sound == LoopInv /\ ActiveInv /\ AcceptInv /\ FreshInv /\ QueueInv /\ BaseInv /\ OwnerInv
ServerInv == TypeOK /\ Spread /\ (failed = "none" => Sound)

-----------------------------------------------------------------------------
(* Queues *)

LEMMA CountType ==
  ASSUME QueueType, NEW l \in Loops, NEW op \in Ops, NEW c \in 0 .. MaxConns
  PROVE  /\ Count(l, op, c) = Occurrences(queue[l], <<op, c>>)
         /\ Count(l, op, c) \in Nat
         /\ Count(l, op, c) = 0 <=> \A i \in 1 .. Len(queue[l]) : queue[l][i] # <<op, c>>
<1>1. queue[l] \in Seq(Entries)
  BY DEF QueueType
<1>2. Count(l, op, c) = Occurrences(queue[l], <<op, c>>)
  BY DEF Count, Occurrences, Places
<1> QED
  BY <1>1, <1>2, OccurrencesType

\* The counts of a queue that stays.
LEMMA CountSame ==
  ASSUME NEW l, queue'[l] = queue[l]
  PROVE  \A op, c : Count(l, op, c)' = Count(l, op, c)
BY DEF Count

\* What appending to a queue and taking its head do to the numbers of its entries.
LEMMA Appends ==
  ASSUME NEW q \in Seq(Entries), NEW p \in Ops, NEW d \in 0 .. MaxConns
  PROVE  /\ Append(q, <<p, d>>) \in Seq(Entries) /\ Len(Append(q, <<p, d>>)) = Len(q) + 1
         /\ Occurrences(Append(q, <<p, d>>), <<p, d>>) = Occurrences(q, <<p, d>>) + 1
         /\ \A op \in Ops, c \in 0 .. MaxConns : op # p \/ c # d =>
              Occurrences(Append(q, <<p, d>>), <<op, c>>) = Occurrences(q, <<op, c>>)
<1> DEFINE e == <<p, d>>
<1>1. e \in Entries
  BY DEF Entries
<1>2. ASSUME NEW op \in Ops, NEW c \in 0 .. MaxConns, op # p \/ c # d
      PROVE  Occurrences(Append(q, e), <<op, c>>) = Occurrences(q, <<op, c>>)
  <2> DEFINE x == <<op, c>>
  <2>1. x # e
    BY <1>2
  <2> HIDE DEF e, x
  <2>2. Occurrences(Append(q, e), x) = Occurrences(q, x)
    BY <1>1, <2>1, OccurrencesMoved
  <2> QED
    BY <2>2 DEF x
<1> HIDE DEF e
<1>3. /\ Append(q, e) \in Seq(Entries) /\ Len(Append(q, e)) = Len(q) + 1
      /\ Occurrences(Append(q, e), e) = Occurrences(q, e) + 1
  BY <1>1, OccurrencesMoved
<1> QED
  BY <1>2, <1>3 DEF e

LEMMA Tails ==
  ASSUME NEW q \in Seq(Entries), q # <<>>, NEW p \in Ops, NEW d \in 0 .. MaxConns,
         Head(q) = <<p, d>>
  PROVE  /\ Tail(q) \in Seq(Entries) /\ Len(Tail(q)) = Len(q) - 1
         /\ Occurrences(Tail(q), <<p, d>>) \in Nat
         /\ Occurrences(q, <<p, d>>) = Occurrences(Tail(q), <<p, d>>) + 1
         /\ \A op \in Ops, c \in 0 .. MaxConns : op # p \/ c # d =>
              Occurrences(Tail(q), <<op, c>>) = Occurrences(q, <<op, c>>)
<1> DEFINE e == <<p, d>>
<1>1. ASSUME NEW op \in Ops, NEW c \in 0 .. MaxConns, op # p \/ c # d
      PROVE  Occurrences(Tail(q), <<op, c>>) = Occurrences(q, <<op, c>>)
  <2> DEFINE x == <<op, c>>
  <2>1. x # e
    BY <1>1
  <2>2. Head(q) = e
    OBVIOUS
  <2> HIDE DEF e, x
  <2>3. Occurrences(Tail(q), x) = Occurrences(q, x)
    BY <2>1, <2>2, OccurrencesMoved
  <2> QED
    BY <2>3 DEF x
<1>2. Head(q) = e
  OBVIOUS
<1> HIDE DEF e
<1>3. /\ Tail(q) \in Seq(Entries) /\ Len(Tail(q)) = Len(q) - 1
      /\ Occurrences(Tail(q), e) \in Nat
      /\ Occurrences(q, e) = Occurrences(Tail(q), e) + 1
  BY <1>2, OccurrencesMoved
<1> QED
  BY <1>1, <1>3 DEF e

\* A functor is queued.
LEMMA Puts ==
  ASSUME QueueType, NEW k \in Loops, NEW p \in Ops, NEW d \in 0 .. MaxConns,
         numThreads_' = numThreads_,
         queue' = [queue EXCEPT ![k] = Append(@, <<p, d>>)]
  PROVE  /\ queue' \in [Loops -> Seq(Entries)]
         /\ Len(queue'[k]) = Len(queue[k]) + 1
         /\ \A l \in Loops \ {k} : queue'[l] = queue[l]
         /\ Count(k, p, d)' = Count(k, p, d) + 1
         /\ \A l \in Loops, op \in Ops, c \in 0 .. MaxConns :
              l # k \/ op # p \/ c # d => Count(l, op, c)' = Count(l, op, c)
<1> DEFINE q == queue[k]
           r == Append(q, <<p, d>>)
<1>1. queue \in [Loops -> Seq(Entries)] /\ q \in Seq(Entries)
  BY DEF QueueType
<1>2. queue'[k] = r /\ \A l \in Loops \ {k} : queue'[l] = queue[l]
  BY <1>1
<1>3. \A op, c : /\ Count(k, op, c) = Occurrences(q, <<op, c>>)
                 /\ Count(k, op, c)' = Occurrences(r, <<op, c>>)
  BY <1>2 DEF Count, Occurrences, Places
<1>4. \A l \in Loops \ {k}, op \in Ops, c \in 0 .. MaxConns : Count(l, op, c)' = Count(l, op, c)
  BY <1>2, CountSame
<1>5. queue' = [queue EXCEPT ![k] = r]
  OBVIOUS
<1> HIDE DEF q
<1>6. /\ r \in Seq(Entries) /\ Len(r) = Len(q) + 1
      /\ Occurrences(r, <<p, d>>) = Occurrences(q, <<p, d>>) + 1
      /\ \A op \in Ops, c \in 0 .. MaxConns : op # p \/ c # d =>
           Occurrences(r, <<op, c>>) = Occurrences(q, <<op, c>>)
  BY <1>1, Appends
<1> HIDE DEF r
<1>7. queue' \in [Loops -> Seq(Entries)]
  BY <1>1, <1>5, <1>6
<1>8. Len(queue'[k]) = Len(queue[k]) + 1
  BY <1>2, <1>6 DEF q
<1>9. Count(k, p, d)' = Count(k, p, d) + 1
  BY <1>3, <1>6
<1>10. ASSUME NEW op \in Ops, NEW c \in 0 .. MaxConns, op # p \/ c # d
       PROVE  Count(k, op, c)' = Count(k, op, c)
  <2>1. Occurrences(r, <<op, c>>) = Occurrences(q, <<op, c>>)
    BY <1>6, <1>10
  <2> QED
    BY <1>3, <2>1
<1> QED
  BY <1>2, <1>4, <1>7, <1>8, <1>9, <1>10

\* A functor is taken.
LEMMA Takes ==
  ASSUME QueueType, NEW k \in Loops, NEW p \in Ops, NEW d \in 0 .. MaxConns,
         queue[k] # <<>>, Head(queue[k]) = <<p, d>>,
         numThreads_' = numThreads_, queue' = Popped(k)
  PROVE  /\ queue' \in [Loops -> Seq(Entries)]
         /\ Len(queue'[k]) = Len(queue[k]) - 1
         /\ \A l \in Loops \ {k} : queue'[l] = queue[l]
         /\ Count(k, p, d)' \in Nat /\ Count(k, p, d) = Count(k, p, d)' + 1
         /\ \A l \in Loops, op \in Ops, c \in 0 .. MaxConns :
              l # k \/ op # p \/ c # d => Count(l, op, c)' = Count(l, op, c)
<1> DEFINE q == queue[k]
           r == Tail(q)
<1>1. queue \in [Loops -> Seq(Entries)] /\ q \in Seq(Entries)
  BY DEF QueueType
<1>2. queue'[k] = r /\ \A l \in Loops \ {k} : queue'[l] = queue[l]
  BY <1>1 DEF Popped
<1>3. \A op, c : /\ Count(k, op, c) = Occurrences(q, <<op, c>>)
                 /\ Count(k, op, c)' = Occurrences(r, <<op, c>>)
  BY <1>2 DEF Count, Occurrences, Places
<1>4. \A l \in Loops \ {k}, op \in Ops, c \in 0 .. MaxConns : Count(l, op, c)' = Count(l, op, c)
  BY <1>2, CountSame
<1>5. queue' = [queue EXCEPT ![k] = r]
  BY DEF Popped
<1>6. q # <<>> /\ Head(q) = <<p, d>>
  OBVIOUS
<1> HIDE DEF q
<1>7. /\ r \in Seq(Entries) /\ Len(r) = Len(q) - 1
      /\ Occurrences(r, <<p, d>>) \in Nat
      /\ Occurrences(q, <<p, d>>) = Occurrences(r, <<p, d>>) + 1
      /\ \A op \in Ops, c \in 0 .. MaxConns : op # p \/ c # d =>
           Occurrences(r, <<op, c>>) = Occurrences(q, <<op, c>>)
  BY <1>1, <1>6, Tails
<1> HIDE DEF r
<1>8. queue' \in [Loops -> Seq(Entries)]
  BY <1>1, <1>5, <1>7
<1>9. Len(queue'[k]) = Len(queue[k]) - 1
  BY <1>2, <1>7 DEF q
<1>10. Count(k, p, d)' \in Nat /\ Count(k, p, d) = Count(k, p, d)' + 1
  BY <1>3, <1>7
<1>11. ASSUME NEW op \in Ops, NEW c \in 0 .. MaxConns, op # p \/ c # d
       PROVE  Count(k, op, c)' = Count(k, op, c)
  <2>1. Occurrences(r, <<op, c>>) = Occurrences(q, <<op, c>>)
    BY <1>7, <1>11
  <2> QED
    BY <1>3, <2>1
<1> QED
  BY <1>2, <1>4, <1>8, <1>9, <1>10, <1>11

\* removeConnectionInLoop() is taken from the base loop's queue and connectDestroyed()
\* put on another's.
LEMMA TakesAndPuts ==
  ASSUME QueueType, 0 \in Loops, NEW d \in 0 .. MaxConns,
         queue[0] # <<>>, Head(queue[0]) = <<"removeConnectionInLoop", d>>,
         NEW m \in Loops \ {0}, numThreads_' = numThreads_,
         queue' = [l \in Loops |-> queue'[l]], queue'[0] = Tail(queue[0]),
         queue'[m] = Append(queue[m], <<"connectDestroyed", d>>),
         \A l \in Loops \ {0, m} : queue'[l] = queue[l]
  PROVE  /\ queue' \in [Loops -> Seq(Entries)]
         /\ Len(queue'[0]) = Len(queue[0]) - 1 /\ Len(queue'[m]) = Len(queue[m]) + 1
         /\ \A l \in Loops \ {0, m} : queue'[l] = queue[l]
         /\ Count(0, "removeConnectionInLoop", d)' \in Nat
         /\ Count(0, "removeConnectionInLoop", d) = Count(0, "removeConnectionInLoop", d)' + 1
         /\ Count(m, "connectDestroyed", d)' = Count(m, "connectDestroyed", d) + 1
         /\ \A l \in Loops, op \in Ops, c \in 0 .. MaxConns :
              (l # 0 \/ op # "removeConnectionInLoop" \/ c # d)
                /\ (l # m \/ op # "connectDestroyed" \/ c # d)
                => Count(l, op, c)' = Count(l, op, c)
<1>0. "removeConnectionInLoop" \in Ops /\ "connectDestroyed" \in Ops
  BY DEF Ops
<1> DEFINE q == queue[0]
           r == Tail(q)
           u == queue[m]
           v == Append(u, <<"connectDestroyed", d>>)
<1>1. queue \in [Loops -> Seq(Entries)] /\ q \in Seq(Entries) /\ u \in Seq(Entries)
  BY DEF QueueType
<1>2. /\ queue'[0] = r /\ queue'[m] = v
      /\ \A l \in Loops \ {0, m} : queue'[l] = queue[l]
  OBVIOUS
<1>3. \A op, c : /\ Count(0, op, c) = Occurrences(q, <<op, c>>)
                 /\ Count(0, op, c)' = Occurrences(r, <<op, c>>)
                 /\ Count(m, op, c) = Occurrences(u, <<op, c>>)
                 /\ Count(m, op, c)' = Occurrences(v, <<op, c>>)
  BY <1>2 DEF Count, Occurrences, Places
<1>4. \A l \in Loops \ {0, m}, op \in Ops, c \in 0 .. MaxConns :
        Count(l, op, c)' = Count(l, op, c)
  BY <1>2, CountSame
<1>5. q # <<>> /\ Head(q) = <<"removeConnectionInLoop", d>>
  OBVIOUS
<1>6. queue' = [l \in Loops |-> queue'[l]]
  OBVIOUS
<1> HIDE DEF q, u
<1>7. /\ r \in Seq(Entries) /\ Len(r) = Len(q) - 1
      /\ Occurrences(r, <<"removeConnectionInLoop", d>>) \in Nat
      /\ Occurrences(q, <<"removeConnectionInLoop", d>>)
           = Occurrences(r, <<"removeConnectionInLoop", d>>) + 1
      /\ \A op \in Ops, c \in 0 .. MaxConns : op # "removeConnectionInLoop" \/ c # d =>
           Occurrences(r, <<op, c>>) = Occurrences(q, <<op, c>>)
  BY <1>0, <1>1, <1>5, Tails, SMTT(30)
<1>8. /\ v \in Seq(Entries) /\ Len(v) = Len(u) + 1
      /\ Occurrences(v, <<"connectDestroyed", d>>) = Occurrences(u, <<"connectDestroyed", d>>) + 1
      /\ \A op \in Ops, c \in 0 .. MaxConns : op # "connectDestroyed" \/ c # d =>
           Occurrences(v, <<op, c>>) = Occurrences(u, <<op, c>>)
  BY <1>0, <1>1, Appends
<1> HIDE DEF r, v
<1>9. queue' \in [Loops -> Seq(Entries)]
  BY <1>1, <1>2, <1>6, <1>7, <1>8
<1>10. Len(queue'[0]) = Len(queue[0]) - 1 /\ Len(queue'[m]) = Len(queue[m]) + 1
  BY <1>2, <1>7, <1>8 DEF q, u
<1>11. /\ Count(0, "removeConnectionInLoop", d)' \in Nat
         /\ Count(0, "removeConnectionInLoop", d) = Count(0, "removeConnectionInLoop", d)' + 1
       /\ Count(m, "connectDestroyed", d)' = Count(m, "connectDestroyed", d) + 1
  BY <1>3, <1>7, <1>8
<1>12. ASSUME NEW op \in Ops, NEW c \in 0 .. MaxConns
       PROVE  /\ (op # "removeConnectionInLoop" \/ c # d) => Count(0, op, c)' = Count(0, op, c)
              /\ (op # "connectDestroyed" \/ c # d) => Count(m, op, c)' = Count(m, op, c)
  <2>1. /\ (op # "removeConnectionInLoop" \/ c # d) =>
             Occurrences(r, <<op, c>>) = Occurrences(q, <<op, c>>)
        /\ (op # "connectDestroyed" \/ c # d) =>
             Occurrences(v, <<op, c>>) = Occurrences(u, <<op, c>>)
    BY <1>7, <1>8
  <2> QED
    BY <1>3, <2>1
<1> QED
  BY <1>2, <1>4, <1>9, <1>10, <1>11, <1>12

-----------------------------------------------------------------------------
(* Descriptors *)

Holders == {c \in Conns : conn[c] \notin {"none", "freed"}}

LEMMA UsedType == IsFiniteSet(Holders) /\ Used \in Nat
<1>1. IsFiniteSet(Conns)
  BY FS_Interval, AcceptorAssumption DEF Conns
<1>2. Holders \subseteq Conns
  BY DEF Holders
<1>3. IsFiniteSet(Holders)
  BY <1>1, <1>2, FS_Subset
<1> QED
  BY <1>3, FS_CardinalityType DEF Used, Holders

\* Connections that end take no descriptor.
LEMMA UsedShrinks ==
  ASSUME \A c \in Conns : conn'[c] \notin {"none", "freed"} => conn[c] \notin {"none", "freed"}
  PROVE  Used' \in Nat /\ Used' <= Used
<1>1. IsFiniteSet(Holders)
  BY UsedType
<1>2. Holders' \subseteq Holders
  BY DEF Holders, Conns
<1>3. /\ Used = Cardinality(Holders) /\ Used' = Cardinality(Holders')
  BY DEF Used, Holders
<1>4. IsFiniteSet(Holders') /\ Cardinality(Holders') <= Cardinality(Holders)
  BY <1>1, <1>2, FS_Subset
<1>5. Cardinality(Holders') \in Nat
  BY <1>4, FS_CardinalityType
<1> QED
  BY <1>3, <1>4, <1>5

\* A new connection takes one.
LEMMA UsedGrows ==
  ASSUME NEW d \in Conns, conn[d] = "none", conn'[d] \in {"new", "up"},
         \A c \in Conns \ {d} : conn'[c] = conn[c]
  PROVE  Used' = Used + 1
<1>1. IsFiniteSet(Holders) /\ d \notin Holders
  BY UsedType DEF Holders
<1>2. Holders' = Holders \cup {d}
  BY DEF Holders, Conns
<1>3. Cardinality(Holders') = Cardinality(Holders) + 1
  BY <1>1, <1>2, FS_AddElement
<1> QED
  BY <1>3 DEF Used, Holders

\* The acceptor's types when nothing is taken.
LEMMA AcceptorTypeKept ==
  ASSUME AcceptorType, UNCHANGED acceptorVars,
         \A c \in Conns : conn'[c] \notin {"none", "freed"} => conn[c] \notin {"none", "freed"}
  PROVE  AcceptorType'
<1>1. /\ Used \in Nat /\ Used' \in Nat /\ Used' <= Used
  BY UsedType, UsedShrinks
<1>2. /\ UNCHANGED <<listening_, idleFd_, backlog, arrived, others>>
      /\ idleFd_ \in BOOLEAN /\ others \in Nat /\ FdLimit \in Nat
      /\ Used + others + (IF idleFd_ THEN 1 ELSE 0) <= FdLimit
  BY AcceptorAssumption DEF AcceptorType, acceptorVars, Taken
<1>3. Used' + others' + (IF idleFd_' THEN 1 ELSE 0) <= FdLimit
  <2> DEFINE u == Used
             v == Used'
  <2>1. u \in Nat /\ v \in Nat /\ v <= u
    BY <1>1
  <2> HIDE DEF u, v
  <2>2. CASE idleFd_
    <3>1. u + others + 1 <= FdLimit
      BY <1>2, <2>2 DEF u
    <3>2. v + others + 1 <= FdLimit
      BY <1>2, <2>1, <3>1
    <3> QED
      BY <1>2, <2>2, <3>2 DEF v
  <2>3. CASE ~idleFd_
    <3>1. u + others + 0 <= FdLimit
      BY <1>2, <2>3 DEF u
    <3>2. v + others + 0 <= FdLimit
      BY <1>2, <2>1, <3>1
    <3> QED
      BY <1>2, <2>3, <3>2 DEF v
  <2> QED
    BY <1>2, <2>2, <2>3
<1> QED
  BY <1>2, <1>3 DEF AcceptorType, Taken

-----------------------------------------------------------------------------
(* Shares *)

LEMMA LoadType ==
  ASSUME NEW l
  PROVE  IsFiniteSet({c \in Conns : c < nextConnId_ /\ ioLoop[c] = l}) /\ Load(l) \in Nat
<1>1. IsFiniteSet(Conns)
  BY FS_Interval, AcceptorAssumption DEF Conns
<1>2. {c \in Conns : c < nextConnId_ /\ ioLoop[c] = l} \subseteq Conns
  OBVIOUS
<1>3. IsFiniteSet({c \in Conns : c < nextConnId_ /\ ioLoop[c] = l})
  BY <1>1, <1>2, FS_Subset
<1> QED
  BY <1>3, FS_CardinalityType DEF Load

LEMMA SpreadSame ==
  ASSUME Spread, UNCHANGED <<nextConnId_, ioLoop, numThreads_, next_>>
  PROVE  Spread'
<1>1. \A l : Load(l)' = Load(l)
  BY DEF Load, Conns
<1> QED
  BY <1>1 DEF Spread, IoLoops, Conns

\* Spread says all that Balanced does.
LEMMA SpreadBalances ==
  ASSUME Spread
  PROVE  Balanced
<1>1. PICK k \in Nat : \A l \in IoLoops : Load(l) = IF l <= next_ THEN k + 1 ELSE k
  BY DEF Spread
<1>2. \A l, m \in IoLoops : Load(l) <= Load(m) + 1
  BY <1>1
<1> QED
  BY <1>2 DEF Spread, Balanced

-----------------------------------------------------------------------------
(* Steps that leave the connections and the queues alone *)

LEMMA Parts ==
  ASSUME ServerInv, failed = "none"
  PROVE  /\ AcceptorType /\ PoolType /\ StartType /\ ThreadType /\ ConnType
         /\ QueueType /\ ServerType /\ Spread
         /\ LoopInv /\ ActiveInv /\ AcceptInv /\ FreshInv /\ QueueInv /\ BaseInv /\ OwnerInv
BY TypeParts DEF ServerInv, Sound

\* The loops are the base loop and those of the threads.
LEMMA LoopsAre ==
  ASSUME PoolType
  PROVE  /\ numThreads_ \in Nat /\ loops_ \in Nat /\ next_ \in Nat /\ joined \in Nat
         /\ 0 \in Loops /\ IoLoops = Loops \ {0}
<1>1. numThreads_ \in Nat
  BY PoolAssumption DEF PoolType
<1> QED
  BY <1>1 DEF PoolType, Loops, IoLoops

LEMMA PartsMake ==
  ASSUME AcceptorType', PoolType', StartType', ThreadType', ConnType', QueueType',
         ServerType', Spread',
         failed' = "none" => /\ LoopInv' /\ ActiveInv' /\ AcceptInv' /\ FreshInv' /\ QueueInv'
                             /\ BaseInv' /\ OwnerInv'
  PROVE  ServerInv'
<1>1. TypeOK'
  BY DEF TypeOK, AcceptorType, PoolType, StartType, ThreadType, ConnType, QueueType, ServerType,
         Entries, Ops
<1> QED
  BY <1>1 DEF ServerInv, Sound

LEMMA Rests ==
  ASSUME ServerInv, failed = "none",
         UNCHANGED <<connections_, nextConnId_, conn, ioLoop, queue, numThreads_, next_>>,
         \A l \in Loops : pc[l] = "gone" => pc'[l] = "gone",
         AcceptorType', PoolType', StartType', ThreadType', QueueType', ServerType',
         LoopInv', ActiveInv', AcceptInv'
  PROVE  ServerInv'
<1>1. \A l, op, c : Count(l, op, c)' = Count(l, op, c)
  BY DEF Count
<1>2. Loops' = Loops /\ Conns' = Conns
  BY DEF Loops, Conns
<1>3. ConnType' /\ FreshInv' /\ BaseInv'
  BY <1>2, Parts DEF ConnType, FreshInv, BaseInv
<1>4. QueueInv'
  BY <1>1, <1>2, Parts DEF QueueInv
<1>5. OwnerInv'
  <2> SUFFICES ASSUME NEW c \in Conns, pc'[ioLoop[c]] # "gone"
               PROVE  Owned(c)'
    BY <1>2 DEF OwnerInv
  <2>1. ioLoop[c] \in Loops
    BY Parts DEF ConnType
  <2>2. Owned(c)
    BY <2>1, Parts DEF OwnerInv
  <2> QED
    BY <1>1, <2>2 DEF Owned
<1>6. Spread'
  BY Parts, SpreadSame
<1> QED
  BY <1>3, <1>4, <1>5, <1>6, PartsMake

LEMMA CountsRest ==
  ASSUME ServerInv, failed = "none", UNCHANGED <<nextConnId_, arrived, backlog, listening_,
         loops_, numThreads_, queue>>
  PROVE  AcceptInv'
<1>1. Count(0, "listen", 0)' = Count(0, "listen", 0)
  BY DEF Count
<1> QED
  BY <1>1, Parts DEF AcceptInv

LEMMA PollKeeps ==
  ASSUME ServerInv, failed = "none", NEW l \in Loops, l = 0 => Idle, Poll(l)
  PROVE  ServerInv'
<1>1. /\ pc[l] = "poll" /\ pc' = [pc EXCEPT ![l] = "events"]
      /\ UNCHANGED <<acceptorVars, numThreads_, loops_, next_, started_, starts, starting,
                     connections_, nextConnId_, conn, ioLoop, quit_, queue, batch, server,
                     joined, failed>>
      /\ Loops' = Loops /\ Conns' = Conns
  BY DEF Poll, Goto, poolVars, startVars, connVars, dyingVars, Loops, Conns
<1>2. PICK r \in SUBSET Ready(l) : active' = [active EXCEPT ![l] = r]
  BY DEF Poll
<1>3. pc \in [Loops -> {"none", "start", "ready", "check", "poll", "events", "reject",
                       "reopen", "functors", "left", "gone"}]
      /\ active \in [Loops -> SUBSET (0 .. MaxConns)]
  BY Parts DEF ThreadType, ServerType
<1>4. Ready(l) \subseteq 0 .. MaxConns
  BY AcceptorAssumption DEF Ready, Conns
<1>5. /\ pc'[l] = "events" /\ active'[l] = r
      /\ \A m \in Loops \ {l} : pc'[m] = pc[m] /\ active'[m] = active[m]
  BY <1>1, <1>2, <1>3
<1>6. AcceptorType'
  BY <1>1, Parts, AcceptorTypeKept
<1>7. PoolType' /\ StartType'
  BY <1>1, Parts DEF PoolType, StartType
<1>8. ThreadType' /\ QueueType'
  BY <1>1, <1>3, Parts DEF ThreadType, QueueType
<1>9. ServerType'
  BY <1>1, <1>2, <1>3, <1>4, Parts DEF ServerType
<1>10. LoopInv'
  BY <1>1, <1>5, Parts DEF LoopInv, Idle, Loops
<1>11. ActiveInv'
  <2>1. ASSUME NEW m \in Loops, NEW c \in active'[m]
        PROVE  IF c = 0 THEN m = 0 /\ backlog' > 0 ELSE conn'[c] = "up" /\ ioLoop'[c] = m
    <3>1. CASE m = l
      <4>1. c \in Ready(l) /\ UNCHANGED <<backlog, conn, ioLoop>>
        BY <1>1, <1>5, <2>1, <3>1 DEF acceptorVars
      <4>2. IF c = 0 THEN l = 0 /\ backlog > 0 ELSE conn[c] = "up" /\ ioLoop[c] = l
        BY <4>1 DEF Ready, Conns
      <4> QED
        BY <3>1, <4>1, <4>2
    <3>2. CASE m # l
      BY <1>1, <1>5, <2>1, <3>2, Parts DEF ActiveInv, acceptorVars
    <3> QED
      BY <3>1, <3>2
  <2>2. l # 0 => pc'[0] = pc[0] /\ active'[0] = active[0]
    BY <1>5, Parts, LoopsAre
  <2> QED
    BY <1>1, <1>5, <2>1, <2>2, Parts DEF ActiveInv, acceptorVars
<1>12. AcceptInv'
  BY <1>1, CountsRest DEF acceptorVars
<1>13. \A m \in Loops : pc[m] = "gone" => pc'[m] = "gone"
  BY <1>1, <1>5
<1> QED
  BY <1>1, <1>6, <1>7, <1>8, <1>9, <1>10, <1>11, <1>12, <1>13, Rests

\* A loop goes on with nothing reported to handle.
LEMMA Moves ==
  ASSUME ServerInv, failed = "none", NEW l \in Loops, l = 0 => Idle,
         NEW p \in {"start", "ready", "check", "poll", "functors", "left"},
         pc[l] # "gone", active[l] = {}, pc' = [pc EXCEPT ![l] = p],
         UNCHANGED <<acceptorVars, poolVars, startVars, connVars, queue, active, dyingVars,
                     failed>>,
         quit_' \in [Loops -> BOOLEAN], batch' \in [Loops -> Nat],
         \A m \in Loops : batch'[m] <= Len(queue[m]) /\ (pc'[m] # "functors" => batch'[m] = 0)
  PROVE  ServerInv'
<1>1. /\ UNCHANGED <<acceptorVars, numThreads_, loops_, next_, started_, starts, starting,
                     connections_, nextConnId_, conn, ioLoop, queue, active, server, joined,
                     failed>>
      /\ Loops' = Loops /\ Conns' = Conns
  BY DEF poolVars, startVars, connVars, dyingVars, Loops, Conns
<1>2. pc \in [Loops -> {"none", "start", "ready", "check", "poll", "events", "reject",
                       "reopen", "functors", "left", "gone"}]
  BY Parts DEF ThreadType
<1>3. pc'[l] = p /\ \A m \in Loops \ {l} : pc'[m] = pc[m]
  BY <1>2
<1>4. AcceptorType'
  BY <1>1, Parts, AcceptorTypeKept
<1>5. PoolType' /\ StartType' /\ ServerType'
  BY <1>1, Parts DEF PoolType, StartType, ServerType
<1>6. ThreadType'
  BY <1>1, <1>2 DEF ThreadType
<1>7. QueueType'
  <2>1. \A m \in Loops : Len(queue[m]) \in Nat /\ batch'[m] \in Nat
    BY Parts DEF QueueType
  <2>2. \A m \in Loops : batch'[m] \in 0 .. Len(queue[m])
    BY <2>1
  <2> QED
    BY <1>1, <2>2, Parts DEF QueueType
<1>8. l # 0 => pc'[0] = pc[0]
  BY <1>3, Parts, LoopsAre
<1>9. LoopInv'
  <2>1. \A m \in Loops : pc'[m] \notin {"events", "reject", "reopen"} => active'[m] = {}
    BY <1>1, <1>3, Parts DEF LoopInv
  <2> QED
    BY <1>1, <1>8, <2>1, Parts DEF LoopInv, Idle
<1>10. ActiveInv'
  BY <1>1, <1>3, <1>8, Parts DEF ActiveInv, acceptorVars
<1>11. AcceptInv'
  BY <1>1, CountsRest DEF acceptorVars
<1>12. \A m \in Loops : pc[m] = "gone" => pc'[m] = "gone"
  BY <1>3
<1> QED
  BY <1>1, <1>4, <1>5, <1>6, <1>7, <1>9, <1>10, <1>11, <1>12, Rests

LEMMA DoPendingFunctorsKeeps ==
  ASSUME ServerInv, failed = "none", NEW l \in Loops, l = 0 => Idle, DoPendingFunctors(l)
  PROVE  ServerInv'
<1>1. /\ pc[l] = "events" /\ active[l] = {}
      /\ batch' = [batch EXCEPT ![l] = Len(queue[l])] /\ pc' = [pc EXCEPT ![l] = "functors"]
      /\ UNCHANGED <<acceptorVars, poolVars, startVars, connVars, quit_, queue, active,
                     dyingVars, failed>>
  BY DEF DoPendingFunctors, Goto
<1>2. /\ batch \in [Loops -> Nat] /\ quit_ \in [Loops -> BOOLEAN]
      /\ pc \in [Loops -> {"none", "start", "ready", "check", "poll", "events", "reject",
                       "reopen", "functors", "left", "gone"}]
      /\ \A m \in Loops : Len(queue[m]) \in Nat /\ batch[m] <= Len(queue[m])
      /\ \A m \in Loops : pc[m] # "functors" => batch[m] = 0
  BY Parts DEF LoopInv, QueueType, ThreadType
<1>3. batch' \in [Loops -> Nat] /\ batch'[l] = Len(queue[l]) /\ pc'[l] = "functors"
      /\ \A m \in Loops \ {l} : batch'[m] = batch[m] /\ pc'[m] = pc[m]
  BY <1>1, <1>2
<1>4. \A m \in Loops : batch'[m] <= Len(queue[m]) /\ (pc'[m] # "functors" => batch'[m] = 0)
  BY <1>2, <1>3
<1> QED
  BY <1>1, <1>2, <1>3, <1>4, Moves

LEMMA RoundEndsKeeps ==
  ASSUME ServerInv, failed = "none", NEW l \in Loops, l = 0 => Idle, RoundEnds(l)
  PROVE  ServerInv'
<1> DEFINE p == IF l = 0 THEN "poll" ELSE "check"
<1>1. /\ pc[l] = "functors" /\ batch[l] = 0 /\ pc' = [pc EXCEPT ![l] = p]
      /\ UNCHANGED <<acceptorVars, poolVars, startVars, connVars, quit_, queue, batch, active,
                     dyingVars, failed>>
  BY DEF RoundEnds, Goto
<1>2. p \in {"poll", "check"}
  OBVIOUS
<1> HIDE DEF p
<1>3. /\ batch \in [Loops -> Nat] /\ quit_ \in [Loops -> BOOLEAN] /\ active[l] = {}
      /\ pc \in [Loops -> {"none", "start", "ready", "check", "poll", "events", "reject",
                       "reopen", "functors", "left", "gone"}]
      /\ \A m \in Loops : Len(queue[m]) \in Nat /\ batch[m] <= Len(queue[m])
      /\ \A m \in Loops : pc[m] # "functors" => batch[m] = 0
  <2>1. /\ batch \in [Loops -> Nat] /\ active[l] = {}
        /\ \A m \in Loops : pc[m] # "functors" => batch[m] = 0
    BY <1>1, Parts DEF LoopInv
  <2>2. \A m \in Loops : Len(queue[m]) \in Nat /\ batch[m] <= Len(queue[m])
    BY <2>1, Parts DEF QueueType
  <2> QED
    BY <2>1, <2>2, Parts DEF ThreadType
<1>4. pc'[l] = p /\ \A m \in Loops \ {l} : pc'[m] = pc[m]
  BY <1>1, <1>3
<1>5. \A m \in Loops : batch'[m] <= Len(queue[m]) /\ (pc'[m] # "functors" => batch'[m] = 0)
  BY <1>1, <1>3, <1>4
<1> QED
  BY <1>1, <1>2, <1>3, <1>5, Moves

\* A thread of the pool goes from one place outside the functors to another.
LEMMA ThreadMoves ==
  ASSUME ServerInv, failed = "none", NEW l \in IoLoops,
         NEW p \in {"start", "ready", "check", "poll", "left"},
         pc[l] \in {"none", "start", "ready", "check"}, pc' = [pc EXCEPT ![l] = p],
         UNCHANGED <<acceptorVars, poolVars, startVars, connVars, queue, batch, active,
                     dyingVars, failed>>,
         quit_' \in [Loops -> BOOLEAN]
  PROVE  ServerInv'
<1>1. l \in Loops /\ l # 0
  BY Parts, LoopsAre
<1>2. active[l] = {}
  <2>1. pc[l] \notin {"events", "reject", "reopen"}
    OBVIOUS
  <2> QED
    BY <1>1, <2>1, Parts DEF LoopInv
<1>3. /\ batch \in [Loops -> Nat]
      /\ pc \in [Loops -> {"none", "start", "ready", "check", "poll", "events", "reject",
                       "reopen", "functors", "left", "gone"}]
      /\ \A m \in Loops : Len(queue[m]) \in Nat /\ batch[m] <= Len(queue[m])
      /\ \A m \in Loops : pc[m] # "functors" => batch[m] = 0
  BY Parts DEF LoopInv, QueueType, ThreadType
<1>4. pc'[l] = p /\ \A m \in Loops \ {l} : pc'[m] = pc[m]
  BY <1>1, <1>3
<1>5. \A m \in Loops : batch'[m] <= Len(queue[m]) /\ (pc'[m] # "functors" => batch'[m] = 0)
  BY <1>1, <1>3, <1>4
<1>6. pc[l] # "gone"
  OBVIOUS
<1> QED
  BY <1>1, <1>2, <1>3, <1>5, <1>6, Moves

LEMMA ThreadFuncKeeps ==
  ASSUME ServerInv, failed = "none", NEW l \in IoLoops, ThreadFunc(l)
  PROVE  ServerInv'
<1>1. quit_ \in [Loops -> BOOLEAN]
  BY Parts DEF ThreadType
<1>2. UNCHANGED <<acceptorVars, startVars, connVars, queue, batch, active, dyingVars, failed>>
  BY DEF ThreadFunc
<1>3. CASE Publish(l)
  BY <1>1, <1>2, <1>3, ThreadMoves DEF Publish, Goto
<1>4. CASE EnterLoop(l)
  <2>1. quit_' \in [Loops -> BOOLEAN]
    BY <1>1, <1>4 DEF EnterLoop
  <2> QED
    BY <1>2, <1>4, <2>1, ThreadMoves DEF EnterLoop, Goto
<1>5. CASE CheckQuit(l)
  <2> DEFINE p == IF quit_[l] THEN "left" ELSE "poll"
  <2>1. pc[l] = "check" /\ pc' = [pc EXCEPT ![l] = p] /\ UNCHANGED <<poolVars, quit_>>
    BY <1>5 DEF CheckQuit, Goto
  <2>2. p \in {"left", "poll"}
    OBVIOUS
  <2> HIDE DEF p
  <2> QED
    BY <1>1, <1>2, <2>1, <2>2, ThreadMoves
<1> QED
  BY <1>3, <1>4, <1>5 DEF ThreadFunc

-----------------------------------------------------------------------------
(* The acceptor *)

\* What the bound on the descriptors says, in plain numbers.
LEMMA Room ==
  ASSUME AcceptorType
  PROVE  /\ Used \in Nat /\ others \in Nat /\ FdLimit \in Nat /\ idleFd_ \in BOOLEAN
         /\ arrived \in Nat /\ backlog \in Nat
         /\ Used + others <= FdLimit /\ Free(Used) \in Int
         /\ idleFd_ => Used + others + 1 <= FdLimit
         /\ Free(Used) > 0 => Used + others + 1 <= FdLimit
         /\ Free(Used) > 0 /\ idleFd_ => Used + others + 2 <= FdLimit
<1>1. /\ Used \in Nat /\ others \in Nat /\ FdLimit \in Nat /\ idleFd_ \in BOOLEAN
      /\ arrived \in Nat /\ backlog \in Nat
  BY UsedType, AcceptorAssumption DEF AcceptorType
<1> DEFINE u == Used
<1>2. CASE idleFd_
  <2>1. u + others + 1 <= FdLimit /\ Free(Used) = FdLimit - (u + others + 1)
    BY <1>2 DEF AcceptorType, Taken, Free
  <2>2. u \in Nat
    BY <1>1
  <2> HIDE DEF u
  <2>3. u + others <= FdLimit /\ Free(Used) \in Int
        /\ (Free(Used) > 0 => u + others + 2 <= FdLimit)
    BY <1>1, <2>1, <2>2
  <2> QED
    BY <1>1, <1>2, <2>1, <2>2, <2>3 DEF u
<1>3. CASE ~idleFd_
  <2>1. u + others + 0 <= FdLimit /\ Free(Used) = FdLimit - (u + others + 0)
    BY <1>3 DEF AcceptorType, Taken, Free
  <2>2. u \in Nat
    BY <1>1
  <2> HIDE DEF u
  <2>3. u + others <= FdLimit /\ Free(Used) \in Int
        /\ (Free(Used) > 0 => u + others + 1 <= FdLimit)
    BY <1>1, <2>1, <2>2
  <2> QED
    BY <1>1, <1>3, <2>1, <2>2, <2>3 DEF u
<1> QED
  BY <1>1, <1>2, <1>3

LEMMA RoomMakes ==
  ASSUME Used' \in Nat, others' \in Nat, idleFd_' \in BOOLEAN,
         Used' + others' <= FdLimit, idleFd_' => Used' + others' + 1 <= FdLimit
  PROVE  Taken(Used)' <= FdLimit
<1>1. CASE idleFd_'
  BY <1>1 DEF Taken
<1>2. CASE ~idleFd_'
  <2>1. Used' + others' + 0 <= FdLimit
    OBVIOUS
  <2> QED
    BY <1>2, <2>1 DEF Taken
<1> QED
  BY <1>1, <1>2

\* A step of the acceptor that opens and closes no connection.
LEMMA AcceptorMoves ==
  ASSUME AcceptorType, UNCHANGED conn,
         listening_' \in BOOLEAN, idleFd_' \in BOOLEAN,
         arrived' \in 0 .. MaxConns, backlog' \in 0 .. arrived', others' \in 0 .. MaxOthers,
         Used + others' <= FdLimit, idleFd_' => Used + others' + 1 <= FdLimit
  PROVE  AcceptorType'
<1>1. Used' = Used /\ Used \in Nat /\ others' \in Nat
  BY UsedType DEF Used, Conns
<1>2. Taken(Used)' <= FdLimit
  BY <1>1, RoomMakes
<1> QED
  BY <1>2 DEF AcceptorType

\* The acceptor's step when the rest of the loops and the server stays.
LEMMA AcceptorSteps ==
  ASSUME ServerInv, failed = "none",
         UNCHANGED <<poolVars, startVars, connVars, loopVars, dyingVars, failed>>,
         AcceptorType', ActiveInv', AcceptInv'
  PROVE  ServerInv'
<1>1. /\ UNCHANGED <<numThreads_, loops_, next_, started_, starts, starting,
                     connections_, nextConnId_, conn, ioLoop, quit_, pc, queue, batch, active,
                     server, joined, failed>>
      /\ Loops' = Loops /\ Conns' = Conns
  BY DEF poolVars, startVars, connVars, loopVars, dyingVars, Loops, Conns
<1>2. PoolType' /\ StartType' /\ ServerType' /\ ThreadType' /\ QueueType'
  BY <1>1, Parts DEF PoolType, StartType, ServerType, ThreadType, QueueType
<1>3. LoopInv'
  BY <1>1, Parts DEF LoopInv
<1> QED
  BY <1>1, <1>2, <1>3, Rests

LEMMA WorldKeeps ==
  ASSUME ServerInv, failed = "none",
         World(Arrive) \/ World(OtherOpens(Used)) \/ World(OtherCloses)
  PROVE  ServerInv'
<1>1. /\ UNCHANGED <<poolVars, startVars, connVars, loopVars, dyingVars, failed>>
      /\ UNCHANGED <<nextConnId_, conn, ioLoop, loops_, numThreads_, queue, pc, active>>
      /\ Count(0, "listen", 0)' = Count(0, "listen", 0) /\ Loops' = Loops
  BY DEF World, connVars, poolVars, loopVars, Count, Loops
<1>2. /\ AcceptorType /\ Used \in Nat /\ others \in Nat /\ FdLimit \in Nat
      /\ listening_ \in BOOLEAN /\ idleFd_ \in BOOLEAN
      /\ arrived \in 0 .. MaxConns /\ backlog \in 0 .. arrived /\ others \in 0 .. MaxOthers
      /\ arrived \in Nat /\ backlog \in Nat /\ MaxConns \in Nat /\ MaxOthers \in Nat
      /\ nextConnId_ \in Nat
  BY Parts, Room, AcceptorAssumption DEF AcceptorType, ConnType
<1>3. CASE Arrive
  <2>1. /\ listening_ /\ arrived < MaxConns /\ arrived' = arrived + 1 /\ backlog' = backlog + 1
        /\ UNCHANGED <<listening_, idleFd_, others>>
    BY <1>3 DEF Arrive
  <2>2. arrived' \in 0 .. MaxConns /\ backlog' \in 0 .. arrived' /\ backlog' > 0
    BY <1>2, <2>1
  <2>3. AcceptorType'
    BY <1>1, <1>2, <2>1, <2>2, Room, AcceptorMoves
  <2>4. ActiveInv'
    BY <1>1, <2>2, Parts DEF ActiveInv
  <2>5. nextConnId_ + backlog <= arrived + 1 /\ loops_ = numThreads_
    BY <2>1, Parts DEF AcceptInv
  <2>6. AcceptInv'
    BY <1>1, <1>2, <2>1, <2>5 DEF AcceptInv
  <2> QED
    BY <1>1, <2>3, <2>4, <2>6, AcceptorSteps
<1>4. CASE OtherOpens(Used) \/ OtherCloses
  <2>1. UNCHANGED <<listening_, idleFd_, backlog, arrived>>
    BY <1>4 DEF OtherOpens, OtherCloses
  <2>2. /\ others' \in 0 .. MaxOthers /\ Used + others' <= FdLimit
        /\ idleFd_ => Used + others' + 1 <= FdLimit
    <3>1. CASE OtherOpens(Used)
      <4>1. Free(Used) > 0 /\ others < MaxOthers /\ others' = others + 1
        BY <3>1 DEF OtherOpens
      <4>2. Used + others + 1 <= FdLimit /\ (idleFd_ => Used + others + 2 <= FdLimit)
        BY <1>2, <4>1, Room
      <4> QED
        BY <1>2, <4>1, <4>2
    <3>2. CASE OtherCloses
      <4>1. others > 0 /\ others' = others - 1
        BY <3>2 DEF OtherCloses
      <4>2. Used + others <= FdLimit /\ (idleFd_ => Used + others + 1 <= FdLimit)
        BY <1>2, Room
      <4> QED
        BY <1>2, <4>1, <4>2
    <3> QED
      BY <1>4, <3>1, <3>2
  <2>3. AcceptorType'
    BY <1>1, <1>2, <2>1, <2>2, AcceptorMoves
  <2>4. ActiveInv'
    BY <1>1, <2>1, Parts DEF ActiveInv
  <2>5. AcceptInv'
    BY <1>1, <2>1, CountsRest
  <2> QED
    BY <1>1, <2>3, <2>4, <2>5, AcceptorSteps
<1> QED
  BY <1>3, <1>4 DEF World

\* The base loop handles, and takes from what was reported, its acceptor's channel.
LEMMA AcceptorEvent ==
  ASSUME ServerInv, failed = "none", Event(0, 0),
         NEW p \in {"events", "reject"}, pc' = [pc EXCEPT ![0] = p],
         p = "reject" => backlog' > 0,
         UNCHANGED <<next_, connVars, queue, failed>>, AcceptorType', AcceptInv'
  PROVE  ServerInv'
<1>1. /\ pc[0] = "events" /\ 0 \in active[0]
      /\ active' = [active EXCEPT ![0] = @ \ {0}]
      /\ UNCHANGED <<numThreads_, loops_, next_, started_, starts, starting,
                     connections_, nextConnId_, conn, ioLoop, quit_, queue, batch, server,
                     joined, failed>>
      /\ Loops' = Loops /\ Conns' = Conns
  BY DEF Event, startVars, connVars, dyingVars, Loops, Conns
<1>2. /\ 0 \in Loops
      /\ pc \in [Loops -> {"none", "start", "ready", "check", "poll", "events", "reject",
                       "reopen", "functors", "left", "gone"}]
      /\ active \in [Loops -> SUBSET (0 .. MaxConns)]
  BY Parts, LoopsAre DEF ThreadType, ServerType
<1>3. /\ pc'[0] = p /\ active'[0] = active[0] \ {0}
      /\ \A m \in Loops \ {0} : pc'[m] = pc[m] /\ active'[m] = active[m]
  BY <1>1, <1>2
<1>4. PoolType' /\ StartType'
  BY <1>1, Parts DEF PoolType, StartType
<1>5. ThreadType'
  BY <1>1, <1>2, Parts DEF ThreadType
<1>6. QueueType'
  BY <1>1, Parts DEF QueueType
<1>7. ServerType'
  BY <1>1, <1>2, Parts DEF ServerType
<1>8. LoopInv'
  <2>1. \A m \in Loops : pc'[m] # "functors" => batch'[m] = 0
    BY <1>1, <1>3, Parts DEF LoopInv
  <2>2. \A m \in Loops : pc'[m] \notin {"events", "reject", "reopen"} => active'[m] = {}
    BY <1>1, <1>3, Parts DEF LoopInv
  <2> QED
    BY <1>1, <2>1, <2>2, Parts DEF LoopInv
<1>9. ActiveInv'
  <2>1. ASSUME NEW m \in Loops, NEW c \in active'[m]
        PROVE  IF c = 0 THEN m = 0 /\ backlog' > 0 ELSE conn'[c] = "up" /\ ioLoop'[c] = m
    <3>1. c \in active[m]
      BY <1>3, <2>1
    <3>2. IF c = 0 THEN m = 0 /\ backlog > 0 ELSE conn[c] = "up" /\ ioLoop[c] = m
      BY <3>1, Parts DEF ActiveInv
    <3>3. c # 0
      BY <1>3, <2>1, <3>2
    <3> QED
      BY <1>1, <3>2, <3>3
  <2> QED
    BY <1>1, <1>3, <2>1 DEF ActiveInv
<1>10. \A m \in Loops : pc[m] = "gone" => pc'[m] = "gone"
  BY <1>1, <1>3
<1> QED
  BY <1>1, <1>4, <1>5, <1>6, <1>7, <1>8, <1>9, <1>10, Rests

\* What a reported channel of the acceptor says.
LEMMA AcceptorReported ==
  ASSUME ServerInv, failed = "none", Event(0, 0)
  PROVE  pc[0] = "events" /\ pc = [pc EXCEPT ![0] = "events"] /\ backlog > 0
         /\ loops_ = numThreads_
<1>1. pc[0] = "events" /\ 0 \in active[0] /\ 0 \in Loops
  BY Parts, LoopsAre DEF Event
<1>2. backlog > 0
  BY <1>1, Parts DEF ActiveInv
<1>3. loops_ = numThreads_
  BY <1>2, Parts DEF AcceptInv
<1>4. pc = [pc EXCEPT ![0] = "events"]
  BY <1>1, Parts DEF ThreadType
<1> QED
  BY <1>1, <1>2, <1>3, <1>4

LEMMA HandleReadFailsKeeps ==
  ASSUME ServerInv, failed = "none", HandleReadFails
  PROVE  ServerInv'
<1>1. /\ Event(0, 0) /\ backlog' \in {backlog, backlog - 1}
      /\ UNCHANGED <<listening_, idleFd_, arrived, others, next_, connVars, pc, queue, failed>>
  BY DEF HandleReadFails, AcceptFails
<1>2. UNCHANGED <<numThreads_, loops_, nextConnId_, conn>>
      /\ Count(0, "listen", 0)' = Count(0, "listen", 0)
  BY <1>1 DEF Event, connVars, Count
<1>3. backlog > 0 /\ loops_ = numThreads_ /\ pc' = [pc EXCEPT ![0] = "events"]
  BY <1>1, AcceptorReported
<1>4. /\ AcceptorType /\ arrived \in 0 .. MaxConns /\ backlog \in 0 .. arrived
      /\ listening_ \in BOOLEAN /\ idleFd_ \in BOOLEAN /\ others \in 0 .. MaxOthers
      /\ arrived \in Nat /\ backlog \in Nat /\ nextConnId_ \in Nat
      /\ nextConnId_ + backlog <= arrived + 1
  BY Parts, Room DEF AcceptorType, ConnType, AcceptInv
<1>5. backlog' \in 0 .. arrived /\ backlog' <= backlog /\ backlog' \in Nat
  BY <1>1, <1>3, <1>4
<1>6. AcceptorType'
  BY <1>1, <1>2, <1>4, <1>5, Room, AcceptorMoves
<1>7. AcceptInv'
  <2>1. nextConnId_ + backlog' <= arrived + 1
    <3> DEFINE b == backlog'
    <3>1. b \in Nat /\ b <= backlog
      BY <1>5
    <3> HIDE DEF b
    <3>2. nextConnId_ + b <= arrived + 1
      BY <1>4, <3>1
    <3> QED
      BY <3>2 DEF b
  <2>2. nextConnId_' + backlog' <= arrived' + 1
    BY <1>1, <1>2, <2>1
  <2> QED
    BY <1>2, <1>3, <2>2 DEF AcceptInv
<1> QED
  BY <1>1, <1>3, <1>6, <1>7, AcceptorEvent

LEMMA OutOfDescriptorsKeeps ==
  ASSUME ServerInv, failed = "none", OutOfDescriptors
  PROVE  ServerInv'
<1>1. /\ Event(0, 0) /\ idleFd_' = FALSE /\ pc' = [pc EXCEPT ![0] = "reject"]
      /\ UNCHANGED <<listening_, backlog, arrived, others, next_, connVars, queue, failed>>
  BY DEF OutOfDescriptors, CloseIdle, Goto
<1>2. UNCHANGED <<numThreads_, loops_, nextConnId_, conn>>
  BY <1>1 DEF Event, connVars
<1>3. backlog > 0
  BY <1>1, AcceptorReported
<1>4. /\ AcceptorType /\ arrived \in 0 .. MaxConns /\ backlog \in 0 .. arrived
      /\ listening_ \in BOOLEAN /\ others \in 0 .. MaxOthers
  BY Parts DEF AcceptorType
<1>5. AcceptorType'
  BY <1>1, <1>2, <1>4, Room, AcceptorMoves
<1>6. AcceptInv'
  BY <1>1, <1>2, CountsRest
<1> QED
  BY <1>1, <1>3, <1>5, <1>6, AcceptorEvent

LEMMA RejectKeeps ==
  ASSUME ServerInv, failed = "none", Reject
  PROVE  ServerInv'
<1>1. PICK p \in {"reopen", "events"} :
        /\ pc[0] \in {"reject", "reopen"} /\ pc' = [pc EXCEPT ![0] = p]
        /\ UNCHANGED <<listening_, arrived, others>>
        /\ \/ /\ pc[0] = "reject" /\ UNCHANGED idleFd_
              /\ backlog' = IF Free(Used) > 0 THEN backlog - 1 ELSE backlog
           \/ idleFd_' = (Free(Used) > 0) /\ UNCHANGED backlog
  BY DEF Reject, Goto, AcceptAndDrop, ReopenIdle
<1>2. /\ UNCHANGED <<numThreads_, loops_, next_, started_, starts, starting,
                     connections_, nextConnId_, conn, ioLoop, quit_, queue, batch, active,
                     server, joined, failed>>
      /\ Loops' = Loops /\ Conns' = Conns /\ Count(0, "listen", 0)' = Count(0, "listen", 0)
  BY DEF Reject, poolVars, startVars, connVars, dyingVars, Loops, Conns, Count
<1>3. /\ 0 \in Loops
      /\ pc \in [Loops -> {"none", "start", "ready", "check", "poll", "events", "reject",
                       "reopen", "functors", "left", "gone"}]
  BY Parts, LoopsAre DEF ThreadType
<1>4. pc'[0] = p /\ \A m \in Loops \ {0} : pc'[m] = pc[m]
  BY <1>1, <1>3
<1>5. /\ AcceptorType /\ arrived \in 0 .. MaxConns /\ backlog \in 0 .. arrived
      /\ listening_ \in BOOLEAN /\ idleFd_ \in BOOLEAN /\ others \in 0 .. MaxOthers
      /\ arrived \in Nat /\ backlog \in Nat /\ nextConnId_ \in Nat
      /\ nextConnId_ + backlog <= arrived + 1
      /\ pc[0] = "reject" => backlog > 0
      /\ listening_ \/ backlog > 0 \/ Count(0, "listen", 0) # 0 => loops_ = numThreads_
  BY Parts, Room DEF AcceptorType, ConnType, AcceptInv, ActiveInv
<1>6. backlog' \in 0 .. arrived /\ backlog' <= backlog /\ backlog' \in Nat
  <2>1. CASE UNCHANGED backlog
    BY <1>5, <2>1
  <2>2. CASE backlog' = backlog - 1 /\ pc[0] = "reject"
    BY <1>5, <2>2
  <2> QED
    BY <1>1, <2>1, <2>2
<1>7. idleFd_' \in BOOLEAN /\ (idleFd_' => idleFd_ \/ Free(Used) > 0)
  <2>1. CASE UNCHANGED idleFd_
    BY <1>5, <2>1
  <2>2. CASE idleFd_' = (Free(Used) > 0)
    <3>1. (Free(Used) > 0) \in BOOLEAN
      BY <1>5, Room
    <3> QED
      BY <2>2, <3>1, Zenon
  <2> QED
    BY <1>1, <2>1, <2>2
<1>8. idleFd_' => Used + others + 1 <= FdLimit
  BY <1>5, <1>7, Room
<1>9. AcceptorType'
  BY <1>1, <1>2, <1>5, <1>6, <1>7, <1>8, Room, AcceptorMoves
<1>10. AcceptInv'
  <2>1. listening_ \/ backlog' > 0 \/ Count(0, "listen", 0) # 0 => loops_ = numThreads_
    BY <1>5, <1>6
  <2>2. nextConnId_ + backlog' <= arrived + 1
    <3> DEFINE b == backlog'
    <3>1. b \in Nat /\ b <= backlog
      BY <1>6
    <3> HIDE DEF b
    <3>2. nextConnId_ + b <= arrived + 1
      BY <1>5, <3>1
    <3> QED
      BY <3>2 DEF b
  <2>3. nextConnId_' + backlog' <= arrived' + 1
    BY <1>1, <1>2, <2>2
  <2> QED
    BY <1>1, <1>2, <2>1, <2>3 DEF AcceptInv
<1>11. PoolType' /\ StartType' /\ ServerType'
  BY <1>2, Parts DEF PoolType, StartType, ServerType
<1>12. ThreadType'
  BY <1>1, <1>2, <1>3, Parts DEF ThreadType
<1>13. QueueType'
  BY <1>2, Parts DEF QueueType
<1>14. LoopInv'
  <2>1. \A m \in Loops : pc'[m] # "functors" => batch'[m] = 0
    BY <1>1, <1>2, <1>4, Parts DEF LoopInv
  <2>2. \A m \in Loops : pc'[m] \notin {"events", "reject", "reopen"} => active'[m] = {}
    BY <1>1, <1>2, <1>4, Parts DEF LoopInv
  <2>3. server \in {"alive", "gone"}
    BY <1>1, Parts DEF LoopInv
  <2> QED
    BY <1>2, <2>1, <2>2, <2>3, Parts DEF LoopInv
<1>15. ActiveInv'
  <2>1. 0 \notin active[0]
    BY <1>1, Parts DEF ActiveInv
  <2>2. \A m \in Loops : \A c \in active[m] : c # 0 /\ conn[c] = "up" /\ ioLoop[c] = m
    BY <2>1, Parts DEF ActiveInv
  <2> QED
    BY <1>2, <1>4, <2>1, <2>2 DEF ActiveInv
<1>16. \A m \in Loops : pc[m] = "gone" => pc'[m] = "gone"
  BY <1>1, <1>4
<1> QED
  BY <1>2, <1>9, <1>10, <1>11, <1>12, <1>13, <1>14, <1>15, <1>16, Rests

-----------------------------------------------------------------------------
(* start() and ~TcpServer(), as far as they leave the connections alone *)

LEMMA StartKeeps ==
  ASSUME ServerInv, failed = "none", NEW who \in {"loop", "thread"}, Start(who)
  PROVE  ServerInv'
<1>1. /\ starts < MaxStarts /\ starts' = starts + 1 /\ started_' = started_ + 1
      /\ starting' = IF started_ = 0 THEN who ELSE starting
      /\ UNCHANGED <<acceptorVars, numThreads_, loops_, next_, connections_, nextConnId_, conn,
                     ioLoop, quit_, pc, queue, batch, active, server, joined, failed>>
      /\ Loops' = Loops /\ Conns' = Conns
  BY DEF Start, poolVars, connVars, loopVars, dyingVars, Loops, Conns
<1>2. StartType'
  <2>1. starting' \in {"nobody", "loop", "thread"}
    BY <1>1, Parts DEF StartType
  <2> QED
    BY <1>1, <2>1, Parts, TcpServerAssumption DEF StartType
<1>3. AcceptorType'
  BY <1>1, Parts, AcceptorTypeKept
<1>4. PoolType' /\ ServerType' /\ ThreadType' /\ QueueType'
  BY <1>1, Parts DEF PoolType, ServerType, ThreadType, QueueType
<1>5. LoopInv' /\ ActiveInv'
  BY <1>1, Parts DEF LoopInv, ActiveInv, acceptorVars
<1>6. AcceptInv'
  BY <1>1, CountsRest DEF acceptorVars
<1> QED
  BY <1>1, <1>2, <1>3, <1>4, <1>5, <1>6, Rests

LEMMA StartThreadsKeeps ==
  ASSUME ServerInv, failed = "none", StartThreads
  PROVE  ServerInv'
<1>1. UNCHANGED <<acceptorVars, startVars, connVars, queue, batch, active, dyingVars, failed>>
  BY DEF StartThreads
<1>2. /\ numThreads_ \in Nat /\ loops_ \in Nat /\ next_ \in Nat /\ joined \in Nat
      /\ loops_ \in 0 .. numThreads_ /\ joined \in 0 .. loops_ /\ quit_ \in [Loops -> BOOLEAN]
  BY Parts, LoopsAre DEF PoolType, ThreadType
<1>3. CASE Spawn
  <2> DEFINE l == loops_ + 1
  <2>1. /\ l \in IoLoops /\ pc[l] = "none" /\ pc' = [pc EXCEPT ![l] = "start"]
        /\ UNCHANGED <<poolVars, quit_>>
    BY <1>2, <1>3 DEF Spawn, Goto, IoLoops
  <2> HIDE DEF l
  <2> QED
    BY <1>1, <1>2, <2>1, ThreadMoves
<1>4. CASE Started
  <2>1. /\ loops_ < numThreads_ /\ loops_' = loops_ + 1
        /\ UNCHANGED <<acceptorVars, numThreads_, next_, started_, starts, starting,
                       connections_, nextConnId_, conn, ioLoop, quit_, pc, queue, batch, active,
                       server, joined, failed>>
        /\ Loops' = Loops /\ Conns' = Conns /\ Count(0, "listen", 0)' = Count(0, "listen", 0)
    BY <1>1, <1>4 DEF Started, startVars, connVars, dyingVars, Loops, Conns, Count
  <2>2. next_ < loops_'
    BY <1>2, <2>1, Parts DEF PoolType, LoopInv
  <2>3. PoolType'
    BY <1>2, <2>1, <2>2, Parts DEF PoolType
  <2>4. AcceptorType'
    BY <2>1, Parts, AcceptorTypeKept
  <2>5. StartType' /\ ServerType' /\ ThreadType' /\ QueueType'
    BY <2>1, Parts DEF StartType, ServerType, ThreadType, QueueType
  <2>6. LoopInv'
    BY <1>2, <2>1, Parts DEF LoopInv
  <2>7. ActiveInv'
    BY <2>1, Parts DEF ActiveInv, acceptorVars
  <2>8. AcceptInv'
    BY <1>2, <2>1, Parts DEF AcceptInv, acceptorVars
  <2> QED
    BY <2>1, <2>3, <2>4, <2>5, <2>6, <2>7, <2>8, Rests
<1> QED
  BY <1>3, <1>4 DEF StartThreads

\* A step of the destructor that leaves the acceptor alone.
LEMMA DestructorMoves ==
  ASSUME ServerInv, failed = "none", pc[0] = "functors",
         server' \in {"conns", "look", "join"}, joined' \in 0 .. loops_,
         server' = "join" => joined' < loops_, quit_' \in [Loops -> BOOLEAN],
         UNCHANGED <<acceptorVars, poolVars, startVars, connVars, pc, queue, batch, active,
                     failed>>
  PROVE  ServerInv'
<1>1. /\ UNCHANGED <<acceptorVars, numThreads_, loops_, next_, started_, starts, starting,
                     connections_, nextConnId_, conn, ioLoop, pc, queue, batch, active, failed>>
      /\ Loops' = Loops /\ Conns' = Conns
  BY DEF poolVars, startVars, connVars, Loops, Conns
<1>2. AcceptorType'
  BY <1>1, Parts, AcceptorTypeKept
<1>3. PoolType' /\ StartType' /\ ThreadType' /\ QueueType'
  BY <1>1, Parts DEF PoolType, StartType, ThreadType, QueueType
<1>4. ServerType'
  BY <1>1, Parts DEF ServerType
<1>5. LoopInv'
  BY <1>1, Parts DEF LoopInv
<1>6. ActiveInv'
  BY <1>1, Parts DEF ActiveInv, acceptorVars
<1>7. AcceptInv'
  BY <1>1, CountsRest DEF acceptorVars
<1> QED
  BY <1>1, <1>2, <1>3, <1>4, <1>5, <1>6, <1>7, Rests

LEMMA DestroyKeeps ==
  ASSUME ServerInv, failed = "none", Destroy \/ QuitThread \/ JoinThread \/ DestroyMembers
  PROVE  ServerInv'
<1>1. /\ numThreads_ \in Nat /\ loops_ \in Nat /\ joined \in Nat /\ joined \in 0 .. loops_
      /\ loops_ \in 0 .. numThreads_ /\ quit_ \in [Loops -> BOOLEAN]
      /\ server \notin {"alive", "gone"} => pc[0] = "functors"
      /\ server = "join" => joined < loops_
  BY Parts, LoopsAre DEF PoolType, ThreadType, LoopInv
<1>2. CASE Destroy
  BY <1>1, <1>2, DestructorMoves DEF Destroy, loopVars
<1>3. CASE QuitThread
  <2>1. quit_' \in [Loops -> BOOLEAN]
    BY <1>1, <1>3 DEF QuitThread, Quit
  <2> QED
    BY <1>1, <1>3, <2>1, DestructorMoves DEF QuitThread
<1>4. CASE JoinThread
  <2>1. server = "join" /\ joined' = joined + 1 /\ server' = "look"
    BY <1>4 DEF JoinThread
  <2>2. joined' \in 0 .. loops_
    BY <1>1, <2>1
  <2> QED
    BY <1>1, <1>4, <2>1, <2>2, DestructorMoves DEF JoinThread, loopVars
<1>5. CASE server = "conns" /\ server' = "look" /\ UNCHANGED acceptorVars /\ DestroyMembers
  BY <1>1, <1>5, DestructorMoves DEF DestroyMembers, loopVars
<1>6. CASE server = "look" /\ server' = "gone" /\ DestroyAcceptor /\ DestroyMembers
  <2>1. /\ listening_' = FALSE /\ idleFd_' = FALSE /\ backlog' = 0 /\ server' = "gone"
        /\ UNCHANGED <<arrived, others, numThreads_, loops_, next_, started_, starts, starting,
                       connections_, nextConnId_, conn, ioLoop, quit_, pc, queue, batch, active,
                       joined, failed>>
        /\ Loops' = Loops /\ Conns' = Conns /\ Count(0, "listen", 0)' = Count(0, "listen", 0)
    BY <1>6 DEF DestroyMembers, DestroyAcceptor, poolVars, startVars, connVars, loopVars, Loops,
                Conns, Count
  <2>2. /\ AcceptorType /\ arrived \in 0 .. MaxConns /\ others \in 0 .. MaxOthers
        /\ arrived \in Nat /\ backlog \in Nat /\ nextConnId_ \in Nat
        /\ nextConnId_ + backlog <= arrived + 1 /\ Used + others <= FdLimit
        /\ Count(0, "listen", 0) # 0 => loops_ = numThreads_
    BY Parts, Room DEF AcceptorType, ConnType, AcceptInv
  <2>3. AcceptorType'
    <3>1. backlog' \in 0 .. arrived' /\ arrived' \in 0 .. MaxConns
      BY <2>1, <2>2
    <3>2. listening_' \in BOOLEAN /\ idleFd_' \in BOOLEAN /\ ~idleFd_'
      BY <2>1
    <3> QED
      BY <2>1, <2>2, <3>1, <3>2, AcceptorMoves
  <2>4. AcceptInv'
    BY <2>1, <2>2 DEF AcceptInv
  <2>5. PoolType' /\ StartType' /\ ServerType' /\ ThreadType' /\ QueueType'
    BY <2>1, Parts DEF PoolType, StartType, ServerType, ThreadType, QueueType
  <2>6. LoopInv'
    BY <2>1, Parts DEF LoopInv
  <2>7. ActiveInv'
    <3>1. pc[0] = "functors" /\ active[0] = {}
      BY <1>1, <1>6, Parts, LoopsAre DEF LoopInv
    <3>2. \A m \in Loops : \A c \in active[m] : c # 0 /\ conn[c] = "up" /\ ioLoop[c] = m
      BY <3>1, Parts DEF ActiveInv
    <3> QED
      BY <2>1, <3>1, <3>2 DEF ActiveInv
  <2> QED
    BY <2>1, <2>3, <2>4, <2>5, <2>6, <2>7, Rests
<1> QED
  BY <1>2, <1>3, <1>4, <1>5, <1>6 DEF DestroyMembers

-----------------------------------------------------------------------------
(* Functors *)

\* The connections that a step does not concern keep their owners.
LEMMA OwnersStay ==
  ASSUME ServerInv, failed = "none", NEW d \in Conns,
         \A m \in Loops : pc[m] = "gone" => pc'[m] = "gone",
         \A c \in Conns \ {d} :
           /\ ioLoop'[c] = ioLoop[c] /\ conn'[c] = conn[c]
           /\ c \in connections_' <=> c \in connections_,
         \A m \in Loops, c \in Conns \ {d} :
           /\ Count(m, "connectDestroyed", c)' = Count(m, "connectDestroyed", c)
           /\ Count(m, "connectEstablished", c)' = Count(m, "connectEstablished", c),
         pc'[ioLoop'[d]] # "gone" => Owned(d)'
  PROVE  OwnerInv'
<1> SUFFICES ASSUME NEW c \in Conns \ {d}, pc'[ioLoop'[c]] # "gone"
             PROVE  Owned(c)'
  BY DEF OwnerInv, Conns
<1>1. PICK k \in Loops : k = ioLoop[c]
  BY Parts DEF ConnType
<1>2. ioLoop'[c] = k /\ pc[k] # "gone"
  BY <1>1
<1>3. Owned(c)
  BY <1>1, <1>2, Parts DEF OwnerInv
<1>4. /\ Count(k, "connectDestroyed", c)' = Count(k, "connectDestroyed", c)
      /\ Count(k, "connectEstablished", c)' = Count(k, "connectEstablished", c)
  OBVIOUS
<1> QED
  BY <1>1, <1>2, <1>3, <1>4 DEF Owned

\* A queue that only loses functors.
LEMMA QueueInvShrinks ==
  ASSUME QueueInv, UNCHANGED <<nextConnId_, ioLoop, numThreads_>>,
         \A l \in Loops, op \in Ops, c \in 0 .. MaxConns :
           Count(l, op, c)' # 0 => Count(l, op, c) # 0
  PROVE  QueueInv'
<1>1. Loops' = Loops /\ Conns' = Conns
  BY DEF Loops, Conns
<1>2. ASSUME NEW l \in Loops, NEW c \in 0 .. MaxConns
      PROVE  /\ Count(l, "connectEstablished", c)' # 0 => Count(l, "connectEstablished", c) # 0
             /\ Count(l, "connectDestroyed", c)' # 0 => Count(l, "connectDestroyed", c) # 0
             /\ Count(l, "removeConnectionInLoop", c)' # 0
                  => Count(l, "removeConnectionInLoop", c) # 0
             /\ Count(l, "listen", c)' # 0 => Count(l, "listen", c) # 0
  BY <1>2 DEF Ops
<1> QED
  BY <1>1, <1>2 DEF QueueInv

\* What a loop that runs a functor finds, and what it leaves alone.
LEMMA FunctorHead ==
  ASSUME ServerInv, failed = "none", NEW l \in Loops, NEW p, NEW d, NEW q, Functor(l, p, d, q)
  PROVE  /\ pc[l] = "functors" /\ queue[l] # <<>> /\ Head(queue[l]) = <<p, d>>
         /\ queue' = q /\ batch' = [batch EXCEPT ![l] = @ - 1] /\ batch[l] > 0
         /\ active[l] = {}
         /\ UNCHANGED <<numThreads_, loops_, next_, started_, starts, starting, quit_, pc,
                        active, server, joined>>
         /\ Loops' = Loops /\ Conns' = Conns
<1>1. /\ pc[l] = "functors" /\ Head(queue[l]) = <<p, d>> /\ batch[l] > 0
      /\ queue' = q /\ batch' = [batch EXCEPT ![l] = @ - 1]
      /\ UNCHANGED <<numThreads_, loops_, next_, started_, starts, starting, quit_, pc,
                     active, server, joined>>
      /\ Loops' = Loops /\ Conns' = Conns
  BY DEF Functor, poolVars, startVars, dyingVars, Loops, Conns
<1>2. queue[l] # <<>>
  BY <1>1, Parts DEF QueueType
<1>3. active[l] = {}
  BY <1>1, Parts DEF LoopInv
<1> QED
  BY <1>1, <1>2, <1>3

LEMMA FunctorFrame ==
  ASSUME ServerInv, failed = "none", NEW l \in Loops, NEW p, NEW d, NEW q, Functor(l, p, d, q),
         q \in [Loops -> Seq(Entries)], Len(q[l]) >= Len(queue[l]) - 1,
         \A m \in Loops \ {l} : Len(q[m]) >= Len(queue[m])
  PROVE  PoolType' /\ StartType' /\ ThreadType' /\ QueueType' /\ LoopInv'
<1>1. /\ pc[l] = "functors" /\ queue' = q
      /\ batch' = [batch EXCEPT ![l] = @ - 1] /\ batch[l] > 0
      /\ UNCHANGED <<numThreads_, loops_, next_, started_, starts, starting, quit_, pc,
                     active, server, joined>>
      /\ Loops' = Loops
  BY FunctorHead
<1>2. /\ batch \in [Loops -> Nat]
      /\ \A m \in Loops : /\ Len(queue[m]) \in Nat /\ Len(q[m]) \in Nat
                          /\ batch[m] <= Len(queue[m])
  BY Parts DEF LoopInv, QueueType
<1>3. batch' \in [Loops -> Nat] /\ batch[l] = batch'[l] + 1
      /\ \A m \in Loops \ {l} : batch'[m] = batch[m]
  BY <1>1, <1>2
<1>4. \A m \in Loops : batch'[m] \in 0 .. Len(q[m])
  <2>1. batch'[l] <= Len(q[l])
    <3> DEFINE b == batch'[l]
               n == Len(q[l])
               o == Len(queue[l])
    <3>1. b \in Nat /\ n \in Nat /\ o \in Nat /\ b + 1 <= o /\ n >= o - 1
      BY <1>2, <1>3
    <3> HIDE DEF b, n, o
    <3>2. b <= n
      BY <3>1
    <3> QED
      BY <3>2 DEF b, n
  <2>2. ASSUME NEW m \in Loops \ {l}
        PROVE  batch'[m] <= Len(q[m])
    <3> DEFINE b == batch[m]
               n == Len(q[m])
               o == Len(queue[m])
    <3>1. b \in Nat /\ n \in Nat /\ o \in Nat /\ b <= o /\ n >= o /\ batch'[m] = b
      BY <1>2, <1>3
    <3> HIDE DEF b, n, o
    <3>2. b <= n
      BY <3>1
    <3> QED
      BY <3>1, <3>2 DEF n
  <2> QED
    BY <1>2, <1>3, <2>1, <2>2
<1>5. QueueType'
  BY <1>1, <1>4 DEF QueueType
<1>6. PoolType' /\ StartType' /\ ThreadType'
  BY <1>1, Parts DEF PoolType, StartType, ThreadType
<1>7. LoopInv'
  <2>1. \A m \in Loops : pc'[m] # "functors" => batch'[m] = 0
    BY <1>1, <1>3, Parts DEF LoopInv
  <2> QED
    BY <1>1, <1>3, <2>1, Parts DEF LoopInv
<1> QED
  BY <1>5, <1>6, <1>7

\* The functor that runs is popped and nothing is queued.
LEMMA FunctorPops ==
  ASSUME ServerInv, failed = "none", NEW l \in Loops, NEW p \in Ops, NEW d \in 0 .. MaxConns,
         Functor(l, p, d, Popped(l))
  PROVE  /\ PoolType' /\ StartType' /\ ThreadType' /\ QueueType' /\ LoopInv'
         /\ Count(l, p, d) # 0 /\ Count(l, p, d)' \in Nat
         /\ Count(l, p, d) = Count(l, p, d)' + 1
         /\ \A m \in Loops, op \in Ops, c \in 0 .. MaxConns :
              m # l \/ op # p \/ c # d => Count(m, op, c)' = Count(m, op, c)
         /\ \A m \in Loops, op \in Ops, c \in 0 .. MaxConns :
              Count(m, op, c)' # 0 => Count(m, op, c) # 0
<1>1. /\ queue[l] # <<>> /\ Head(queue[l]) = <<p, d>> /\ queue' = Popped(l)
      /\ UNCHANGED numThreads_
  BY FunctorHead
<1>2. /\ queue' \in [Loops -> Seq(Entries)]
      /\ Len(queue'[l]) = Len(queue[l]) - 1
      /\ \A m \in Loops \ {l} : queue'[m] = queue[m]
      /\ Count(l, p, d)' \in Nat /\ Count(l, p, d) = Count(l, p, d)' + 1
      /\ \A m \in Loops, op \in Ops, c \in 0 .. MaxConns :
           m # l \/ op # p \/ c # d => Count(m, op, c)' = Count(m, op, c)
  BY <1>1, Parts, Takes
<1>3. \A m \in Loops : Len(queue[m]) \in Nat /\ Len(queue'[m]) \in Nat
  BY <1>2, Parts DEF QueueType
<1>4. Len(Popped(l)[l]) >= Len(queue[l]) - 1
      /\ \A m \in Loops \ {l} : Len(Popped(l)[m]) >= Len(queue[m])
  BY <1>1, <1>2, <1>3
<1>5. Popped(l) \in [Loops -> Seq(Entries)]
  BY <1>1, <1>2
<1>6. PoolType' /\ StartType' /\ ThreadType' /\ QueueType' /\ LoopInv'
  BY <1>4, <1>5, FunctorFrame
<1>7. Count(l, p, d) # 0
  BY <1>2
<1>8. ASSUME NEW m \in Loops, NEW op \in Ops, NEW c \in 0 .. MaxConns,
             Count(m, op, c)' # 0
      PROVE  Count(m, op, c) # 0
  BY <1>2, <1>7, <1>8
<1> QED
  BY <1>2, <1>6, <1>7, <1>8

\* What a queued functor of a connection says of it: connectEstablished() and
\* connectDestroyed() are on the loop of the connection.
LEMMA QueuedHere ==
  ASSUME ServerInv, failed = "none", NEW l \in Loops, NEW d \in Conns,
         NEW p \in {"connectEstablished", "connectDestroyed"}, Count(l, p, d) # 0
  PROVE  d \in 0 .. MaxConns /\ d < nextConnId_ /\ ioLoop[d] = l
<1>1. d \in 0 .. MaxConns
  BY DEF Conns
<1> QED
  BY <1>1, Parts DEF QueueInv

LEMMA ConnectEstablishedKeeps ==
  ASSUME ServerInv, failed = "none", NEW l \in Loops, NEW d \in Conns, ConnectEstablished(l, d)
  PROVE  ServerInv'
<1>1. /\ Functor(l, "connectEstablished", d, Popped(l))
      /\ conn' = [conn EXCEPT ![d] = "up"]
      /\ failed' = IF conn[d] = "new" THEN failed ELSE "connectEstablished"
      /\ UNCHANGED <<acceptorVars, connections_, nextConnId_, ioLoop>>
  BY DEF ConnectEstablished
<1>2. d \in 0 .. MaxConns /\ "connectEstablished" \in Ops /\ "connectDestroyed" \in Ops
  BY DEF Conns, Ops
<1>3. /\ PoolType' /\ StartType' /\ ThreadType' /\ QueueType' /\ LoopInv'
      /\ Count(l, "connectEstablished", d) # 0 /\ Count(l, "connectEstablished", d)' \in Nat
      /\ Count(l, "connectEstablished", d) = Count(l, "connectEstablished", d)' + 1
      /\ \A m \in Loops, op \in Ops, c \in 0 .. MaxConns :
           m # l \/ op # "connectEstablished" \/ c # d => Count(m, op, c)' = Count(m, op, c)
      /\ \A m \in Loops, op \in Ops, c \in 0 .. MaxConns :
           Count(m, op, c)' # 0 => Count(m, op, c) # 0
  BY <1>1, <1>2, FunctorPops
<1>4. /\ pc[l] = "functors" /\ Loops' = Loops /\ Conns' = Conns
      /\ UNCHANGED <<numThreads_, loops_, next_, pc, active, server, joined>>
  BY <1>1, FunctorHead
<1>5. d < nextConnId_ /\ ioLoop[d] = l
  BY <1>2, <1>3, QueuedHere
<1>6. Owned(d)
  BY <1>4, <1>5, Parts DEF OwnerInv
<1>7. conn[d] = "new" /\ Count(l, "connectEstablished", d) = 1
  BY <1>3, <1>5, <1>6 DEF Owned
<1>8. conn \in [Conns -> {"none", "new", "up", "closed", "down", "freed"}]
      /\ ioLoop \in [Conns -> Loops]
  BY Parts DEF ConnType
<1>9. conn'[d] = "up" /\ failed' = "none" /\ \A c \in Conns \ {d} : conn'[c] = conn[c]
  BY <1>1, <1>7, <1>8
<1>10. AcceptorType'
  BY <1>1, <1>7, <1>9, Parts, AcceptorTypeKept
<1>11. ConnType' /\ ServerType'
  BY <1>1, <1>4, <1>8, <1>9, Parts DEF ConnType, ServerType
<1>12. ActiveInv'
  BY <1>1, <1>4, <1>9, Parts DEF ActiveInv, acceptorVars, ServerType, Conns
<1>13. AcceptInv'
  <2>1. Count(0, "listen", 0)' = Count(0, "listen", 0)
    BY <1>3, Parts, LoopsAre, AcceptorAssumption DEF Ops
  <2> QED
    BY <1>1, <1>4, <2>1, Parts DEF AcceptInv, acceptorVars
<1>14. FreshInv'
  BY <1>1, <1>4, <1>5, <1>9, Parts DEF FreshInv, ConnType
<1>15. QueueInv'
  BY <1>1, <1>3, <1>4, Parts, QueueInvShrinks
<1>16. BaseInv'
  <2>1. ioLoop[d] # 0
    BY <1>7, Parts DEF BaseInv
  <2> QED
    BY <1>1, <1>4, <1>9, <2>1, Parts DEF BaseInv
<1>17. OwnerInv'
  <2>1. Count(l, "connectDestroyed", d)' = Count(l, "connectDestroyed", d)
    BY <1>2, <1>3
  <2>2. Count(l, "connectEstablished", d)' = 0
    BY <1>3, <1>7
  <2>4. Owned(d)'
    BY <1>1, <1>5, <1>6, <1>7, <1>9, <2>1, <2>2 DEF Owned
  <2>5. ASSUME NEW m \in Loops, NEW c \in Conns \ {d}
        PROVE  /\ Count(m, "connectDestroyed", c)' = Count(m, "connectDestroyed", c)
               /\ Count(m, "connectEstablished", c)' = Count(m, "connectEstablished", c)
    <3>1. c \in 0 .. MaxConns /\ c # d
      BY DEF Conns
    <3> QED
      BY <1>2, <1>3, <3>1
  <2> QED
    BY <1>1, <1>4, <1>9, <2>4, <2>5, OwnersStay
<1>18. Spread'
  BY <1>1, <1>4, Parts, SpreadSame
<1> QED
  BY <1>3, <1>10, <1>11, <1>12, <1>13, <1>14, <1>15, <1>16, <1>17, <1>18, PartsMake

LEMMA ConnectDestroyedKeeps ==
  ASSUME ServerInv, failed = "none", NEW l \in Loops, NEW d \in Conns, ConnectDestroyed(l, d)
  PROVE  ServerInv'
<1>1. /\ Functor(l, "connectDestroyed", d, Popped(l))
      /\ conn' = [conn EXCEPT ![d] = "down"]
      /\ failed' = IF conn[d] \in {"up", "closed"} THEN failed ELSE "remove"
      /\ UNCHANGED <<acceptorVars, connections_, nextConnId_, ioLoop>>
  BY DEF ConnectDestroyed
<1>2. d \in 0 .. MaxConns /\ "connectEstablished" \in Ops /\ "connectDestroyed" \in Ops
  BY DEF Conns, Ops
<1>3. /\ PoolType' /\ StartType' /\ ThreadType' /\ QueueType' /\ LoopInv'
      /\ Count(l, "connectDestroyed", d) # 0 /\ Count(l, "connectDestroyed", d)' \in Nat
      /\ Count(l, "connectDestroyed", d) = Count(l, "connectDestroyed", d)' + 1
      /\ \A m \in Loops, op \in Ops, c \in 0 .. MaxConns :
           m # l \/ op # "connectDestroyed" \/ c # d => Count(m, op, c)' = Count(m, op, c)
      /\ \A m \in Loops, op \in Ops, c \in 0 .. MaxConns :
           Count(m, op, c)' # 0 => Count(m, op, c) # 0
  BY <1>1, <1>2, FunctorPops
<1>4. /\ pc[l] = "functors" /\ Loops' = Loops /\ Conns' = Conns /\ active[l] = {}
      /\ UNCHANGED <<numThreads_, loops_, next_, pc, active, server, joined>>
  BY <1>1, FunctorHead
<1>5. d < nextConnId_ /\ ioLoop[d] = l
  BY <1>2, <1>3, QueuedHere
<1>6. Owned(d)
  BY <1>4, <1>5, Parts DEF OwnerInv
<1>7. /\ conn[d] \in {"new", "up", "closed"} /\ d \notin connections_
      /\ Count(l, "connectDestroyed", d) = 1
  BY <1>3, <1>5, <1>6 DEF Owned
<1>8. conn \in [Conns -> {"none", "new", "up", "closed", "down", "freed"}]
      /\ ioLoop \in [Conns -> Loops]
  BY Parts DEF ConnType
<1>9. conn'[d] = "down" /\ \A c \in Conns \ {d} : conn'[c] = conn[c]
  BY <1>1, <1>8
<1>10. AcceptorType'
  BY <1>1, <1>7, <1>9, Parts, AcceptorTypeKept
<1>11. ConnType' /\ ServerType'
  <2>1. failed' \in {"none", "remove"}
    BY <1>1
  <2> QED
    BY <1>1, <1>4, <1>8, <1>9, <2>1, Parts DEF ConnType, ServerType
<1>12. ActiveInv'
  <2>1. ASSUME NEW m \in Loops, NEW c \in active[m]
        PROVE  c # d \/ c = 0
    BY <1>4, <1>5, <2>1, Parts DEF ActiveInv
  <2>2. d # 0 /\ \A m \in Loops : \A c \in active[m] : c = 0 \/ c \in Conns
    BY Parts DEF ServerType, Conns
  <2> QED
    BY <1>1, <1>4, <1>9, <2>1, <2>2, Parts DEF ActiveInv, acceptorVars
<1>13. AcceptInv'
  <2>1. Count(0, "listen", 0)' = Count(0, "listen", 0)
    BY <1>3, Parts, LoopsAre, AcceptorAssumption DEF Ops
  <2> QED
    BY <1>1, <1>4, <2>1, Parts DEF AcceptInv, acceptorVars
<1>14. FreshInv'
  <2>1. \A c \in Conns : c >= nextConnId_ => c # d
    BY <1>5, Parts DEF ConnType, Conns
  <2> QED
    BY <1>1, <1>4, <1>9, <2>1, Parts DEF FreshInv
<1>15. QueueInv'
  BY <1>1, <1>3, <1>4, Parts, QueueInvShrinks
<1>16. BaseInv'
  BY <1>1, <1>4, <1>7, <1>9, Parts DEF BaseInv
<1>17. ASSUME failed' = "none"
       PROVE  OwnerInv'
  <2>1. Count(l, "connectEstablished", d)' = Count(l, "connectEstablished", d)
    BY <1>2, <1>3
  <2>2. Count(l, "connectDestroyed", d)' = 0
    BY <1>3, <1>7
  <2>3. conn[d] # "new"
    BY <1>1, <1>17
  <2>4. Owned(d)'
    BY <1>1, <1>5, <1>6, <1>7, <1>9, <2>1, <2>2, <2>3 DEF Owned
  <2>5. ASSUME NEW m \in Loops, NEW c \in Conns \ {d}
        PROVE  /\ Count(m, "connectDestroyed", c)' = Count(m, "connectDestroyed", c)
               /\ Count(m, "connectEstablished", c)' = Count(m, "connectEstablished", c)
    <3>1. c \in 0 .. MaxConns /\ c # d
      BY DEF Conns
    <3> QED
      BY <1>2, <1>3, <3>1
  <2> QED
    BY <1>1, <1>4, <1>9, <2>4, <2>5, OwnersStay
<1>18. Spread'
  BY <1>1, <1>4, Parts, SpreadSame
<1> QED
  BY <1>3, <1>10, <1>11, <1>12, <1>13, <1>14, <1>15, <1>16, <1>17, <1>18, PartsMake

LEMMA RunListenKeeps ==
  ASSUME ServerInv, failed = "none", RunListen
  PROVE  ServerInv'
<1>1. /\ Functor(0, "listen", 0, Popped(0))
      /\ UNCHANGED <<connections_, nextConnId_, conn, ioLoop>>
      /\ UNCHANGED <<idleFd_, backlog, arrived, others>>
      /\ listening_' \in {listening_, TRUE} /\ failed' \in {"none", "serverGone"}
  BY DEF RunListen, connVars, acceptorVars, Listen
<1>2. 0 \in Loops /\ 0 \in 0 .. MaxConns /\ "listen" \in Ops
  BY Parts, LoopsAre, AcceptorAssumption DEF Ops
<1>3. /\ PoolType' /\ StartType' /\ ThreadType' /\ QueueType' /\ LoopInv'
      /\ Count(0, "listen", 0) # 0
      /\ \A m \in Loops, op \in Ops, c \in 0 .. MaxConns :
           m # 0 \/ op # "listen" \/ c # 0 => Count(m, op, c)' = Count(m, op, c)
      /\ \A m \in Loops, op \in Ops, c \in 0 .. MaxConns :
           Count(m, op, c)' # 0 => Count(m, op, c) # 0
  BY <1>1, <1>2, FunctorPops
<1>4. /\ Loops' = Loops /\ Conns' = Conns
      /\ UNCHANGED <<numThreads_, loops_, next_, pc, active, server, joined>>
  BY <1>1, <1>2, FunctorHead
<1>5. AcceptorType'
  <2>1. /\ AcceptorType /\ arrived \in 0 .. MaxConns /\ backlog \in 0 .. arrived
        /\ listening_' \in BOOLEAN /\ idleFd_ \in BOOLEAN /\ others \in 0 .. MaxOthers
    BY <1>1, Parts DEF AcceptorType
  <2> QED
    BY <1>1, <2>1, Room, AcceptorMoves
<1>6. ConnType' /\ ServerType' /\ FreshInv' /\ BaseInv'
  BY <1>1, <1>4, Parts DEF ConnType, ServerType, FreshInv, BaseInv
<1>7. ActiveInv'
  BY <1>1, <1>4, Parts DEF ActiveInv
<1>8. AcceptInv'
  BY <1>1, <1>3, <1>4, Parts DEF AcceptInv
<1>9. QueueInv'
  BY <1>1, <1>3, <1>4, Parts, QueueInvShrinks
<1>10. OwnerInv'
  <2> SUFFICES ASSUME NEW d \in Conns, pc[ioLoop[d]] # "gone"
               PROVE  Owned(d)'
    BY <1>1, <1>4 DEF OwnerInv
  <2>1. PICK k \in Loops : k = ioLoop[d]
    BY Parts DEF ConnType
  <2>2. d \in 0 .. MaxConns /\ "connectDestroyed" \in Ops /\ "connectEstablished" \in Ops
    BY DEF Conns, Ops
  <2>3. /\ Count(k, "connectDestroyed", d)' = Count(k, "connectDestroyed", d)
        /\ Count(k, "connectEstablished", d)' = Count(k, "connectEstablished", d)
    BY <1>3, <2>2
  <2>4. Owned(d)
    BY Parts DEF OwnerInv
  <2> QED
    BY <1>1, <2>1, <2>3, <2>4 DEF Owned
<1>11. Spread'
  BY <1>1, <1>4, Parts, SpreadSame
<1> QED
  BY <1>3, <1>5, <1>6, <1>7, <1>8, <1>9, <1>10, <1>11, PartsMake

LEMMA RemoveConnectionInLoopKeeps ==
  ASSUME ServerInv, failed = "none", NEW d \in Conns, RemoveConnectionInLoop(d)
  PROVE  ServerInv'
<1> DEFINE q == IF server = "gone" THEN Popped(0)
                ELSE [Popped(0) EXCEPT ![ioLoop[d]] = Append(@, <<"connectDestroyed", d>>)]
<1>1. /\ Functor(0, "removeConnectionInLoop", d, q)
      /\ connections_' = connections_ \ {d}
      /\ failed' = CASE server = "gone" -> "serverGone"
                     [] d \notin connections_ -> "erase"
                     [] OTHER -> failed
      /\ UNCHANGED <<acceptorVars, nextConnId_, conn, ioLoop>>
  BY DEF RemoveConnectionInLoop
<1>2. /\ 0 \in Loops /\ d \in 0 .. MaxConns /\ "removeConnectionInLoop" \in Ops
      /\ "connectDestroyed" \in Ops /\ "connectEstablished" \in Ops /\ "listen" \in Ops
      /\ 0 \in 0 .. MaxConns /\ d # 0
  BY Parts, LoopsAre, AcceptorAssumption DEF Ops, Conns
<1>3. /\ queue[0] # <<>> /\ Head(queue[0]) = <<"removeConnectionInLoop", d>> /\ queue' = q
      /\ Loops' = Loops /\ Conns' = Conns
      /\ UNCHANGED <<numThreads_, loops_, next_, pc, active, server, joined>>
  BY <1>1, <1>2, FunctorHead
<1>4. failed' \in {"none", "serverGone", "erase"}
      /\ (failed' = "none" => server # "gone" /\ d \in connections_)
  BY <1>1
<1>5. AcceptorType'
  BY <1>1, Parts, AcceptorTypeKept
<1>6. ConnType' /\ ServerType'
  BY <1>1, <1>3, <1>4, Parts DEF ConnType, ServerType
<1>7. Spread'
  BY <1>1, <1>3, Parts, SpreadSame
<1>8. CASE server = "gone"
  <2>1. Functor(0, "removeConnectionInLoop", d, Popped(0))
    BY <1>1, <1>8
  <2>2. PoolType' /\ StartType' /\ ThreadType' /\ QueueType'
    BY <1>2, <2>1, FunctorPops
  <2> QED
    BY <1>4, <1>5, <1>6, <1>7, <1>8, <2>2, PartsMake
<1>9. CASE server # "gone"
  <2>1. Count(0, "removeConnectionInLoop", d) # 0
    <3> DEFINE w == queue[0]
    <3>1. w \in Seq(Entries) /\ w # <<>> /\ Head(w) = <<"removeConnectionInLoop", d>>
      BY <1>2, <1>3, Parts DEF QueueType
    <3>2. Count(0, "removeConnectionInLoop", d)
            = Occurrences(w, <<"removeConnectionInLoop", d>>)
      BY <1>2, Parts, CountType
    <3> HIDE DEF w
    <3>3. Occurrences(w, <<"removeConnectionInLoop", d>>) # 0
      BY <1>2, <3>1, Tails
    <3> QED
      BY <3>2, <3>3
  <2>2. d < nextConnId_ /\ ioLoop[d] # 0
    BY <1>2, <2>1, Parts DEF QueueInv
  <2>3. PICK m \in Loops \ {0} : m = ioLoop[d]
    BY <2>2, Parts DEF ConnType
  <2>4. queue' = [Popped(0) EXCEPT ![m] = Append(@, <<"connectDestroyed", d>>)]
    BY <1>3, <1>9, <2>3
  <2>5. /\ queue' \in [Loops -> Seq(Entries)]
        /\ Len(queue'[0]) = Len(queue[0]) - 1 /\ Len(queue'[m]) = Len(queue[m]) + 1
        /\ \A l \in Loops \ {0, m} : queue'[l] = queue[l]
        /\ Count(0, "removeConnectionInLoop", d)' \in Nat
        /\ Count(m, "connectDestroyed", d)' = Count(m, "connectDestroyed", d) + 1
        /\ \A l \in Loops, op \in Ops, c \in 0 .. MaxConns :
              (l # 0 \/ op # "removeConnectionInLoop" \/ c # d)
                /\ (l # m \/ op # "connectDestroyed" \/ c # d)
                => Count(l, op, c)' = Count(l, op, c)
    <3> HIDE DEF q
    <3>1. /\ QueueType /\ numThreads_' = numThreads_ /\ queue \in [Loops -> Seq(Entries)]
          /\ queue[0] # <<>> /\ Head(queue[0]) = <<"removeConnectionInLoop", d>>
      BY <1>3, Parts DEF QueueType
    <3>2. /\ queue' = [l \in Loops |-> queue'[l]] /\ queue'[0] = Tail(queue[0])
          /\ queue'[m] = Append(queue[m], <<"connectDestroyed", d>>)
          /\ \A l \in Loops \ {0, m} : queue'[l] = queue[l]
      BY <1>2, <2>4, <3>1 DEF Popped
    <3> QED
      BY <1>2, <3>1, <3>2, TakesAndPuts
  <2>6. \A l \in Loops : Len(queue[l]) \in Nat /\ Len(queue'[l]) \in Nat
    BY <2>5, Parts DEF QueueType
  <2>7. q \in [Loops -> Seq(Entries)] /\ Len(q[0]) >= Len(queue[0]) - 1
        /\ \A l \in Loops \ {0} : Len(q[l]) >= Len(queue[l])
    <3>1. \A l \in Loops \ {0} : Len(queue'[l]) >= Len(queue[l])
      BY <2>5, <2>6
    <3>2. Len(queue'[0]) >= Len(queue[0]) - 1
      BY <1>2, <2>5, <2>6
    <3> HIDE DEF q
    <3> QED
      BY <1>3, <2>5, <3>1, <3>2
  <2>8. PoolType' /\ StartType' /\ ThreadType' /\ QueueType' /\ LoopInv'
    <3> HIDE DEF q
    <3> QED
      BY <1>1, <1>2, <2>7, FunctorFrame
  <2> HIDE DEF q
  <2>9. ActiveInv'
    BY <1>1, <1>3, Parts DEF ActiveInv, acceptorVars
  <2>10. AcceptInv'
    <3>1. Count(0, "listen", 0)' = Count(0, "listen", 0)
      BY <1>2, <2>5
    <3> QED
      BY <1>1, <1>3, <3>1, Parts DEF AcceptInv, acceptorVars
  <2>11. FreshInv' /\ BaseInv'
    BY <1>1, <1>3, <2>2, Parts DEF FreshInv, BaseInv
  <2>12. QueueInv'
    <3>1. ASSUME NEW l \in Loops, NEW c \in 0 .. MaxConns
          PROVE  /\ Count(l, "connectEstablished", c)' # 0 \/ Count(l, "connectDestroyed", c)' # 0
                      => c \in Conns /\ c < nextConnId_ /\ ioLoop[c] = l
                 /\ Count(l, "removeConnectionInLoop", c)' # 0 =>
                      l = 0 /\ c \in Conns /\ c < nextConnId_ /\ ioLoop[c] # 0
                 /\ Count(l, "listen", c)' # 0 => l = 0 /\ c = 0
      <4>1. /\ Count(l, "connectEstablished", c)' = Count(l, "connectEstablished", c)
            /\ Count(l, "listen", c)' = Count(l, "listen", c)
            /\ l # m \/ c # d => Count(l, "connectDestroyed", c)' = Count(l, "connectDestroyed", c)
            /\ l # 0 \/ c # d => Count(l, "removeConnectionInLoop", c)'
                                   = Count(l, "removeConnectionInLoop", c)
        BY <1>2, <2>5
      <4>2. CASE c = d
        BY <1>2, <2>2, <2>3, <4>1, <4>2, Parts DEF QueueInv
      <4>3. CASE c # d
        BY <4>1, <4>3, Parts DEF QueueInv
      <4> QED
        BY <4>2, <4>3
    <3> QED
      BY <1>1, <1>3, <3>1 DEF QueueInv
  <2>13. ASSUME failed' = "none"
         PROVE  OwnerInv'
    <3>1. ASSUME pc[m] # "gone"
          PROVE  Owned(d)'
      <4>1. Owned(d) /\ d \in connections_
        BY <1>4, <2>3, <2>13, <3>1, Parts DEF OwnerInv
      <4>2. conn[d] \in {"new", "up", "closed"} /\ Count(m, "connectDestroyed", d) = 0
        BY <2>3, <4>1 DEF Owned
      <4>3. Count(m, "connectDestroyed", d)' = 1
        BY <2>5, <4>2
      <4>4. Count(m, "connectEstablished", d)' = Count(m, "connectEstablished", d)
        BY <1>2, <2>5
      <4> QED
        BY <1>1, <2>3, <4>1, <4>2, <4>3, <4>4 DEF Owned
    <3>2. ASSUME NEW l \in Loops, NEW c \in Conns \ {d}
          PROVE  /\ Count(l, "connectDestroyed", c)' = Count(l, "connectDestroyed", c)
                 /\ Count(l, "connectEstablished", c)' = Count(l, "connectEstablished", c)
      <4>1. c \in 0 .. MaxConns /\ c # d
        BY DEF Conns
      <4> QED
        BY <1>2, <2>5, <4>1
    <3> QED
      BY <1>1, <1>3, <2>3, <3>1, <3>2, OwnersStay
  <2> QED
    BY <1>5, <1>6, <1>7, <2>8, <2>9, <2>10, <2>11, <2>12, <2>13, PartsMake
<1> QED
  BY <1>8, <1>9

-----------------------------------------------------------------------------
(* Steps that queue a functor, and the ends of connections and loops *)

QueuePut(k, p, d) == queue' = [queue EXCEPT ![k] = Append(@, <<p, d>>)]

\* A queue that grows by one functor keeps its types, and its loop what it counts.
LEMMA PutFrame ==
  ASSUME ServerInv, failed = "none", NEW k \in Loops, NEW p \in Ops, NEW d \in 0 .. MaxConns,
         UNCHANGED <<numThreads_, batch>>,
         QueuePut(k, p, d)
  PROVE  /\ QueueType'
         /\ Count(k, p, d)' = Count(k, p, d) + 1 /\ Count(k, p, d) \in Nat
         /\ \A l \in Loops, op \in Ops, c \in 0 .. MaxConns :
              l # k \/ op # p \/ c # d => Count(l, op, c)' = Count(l, op, c)
<1>1. /\ queue' \in [Loops -> Seq(Entries)]
      /\ Len(queue'[k]) = Len(queue[k]) + 1
      /\ \A l \in Loops \ {k} : queue'[l] = queue[l]
      /\ Count(k, p, d)' = Count(k, p, d) + 1
      /\ \A l \in Loops, op \in Ops, c \in 0 .. MaxConns :
              l # k \/ op # p \/ c # d => Count(l, op, c)' = Count(l, op, c)
  BY Parts, Puts DEF QueuePut
<1>2. Count(k, p, d) \in Nat
  BY Parts, CountType
<1>3. Loops' = Loops
  BY DEF Loops
<1>4. ASSUME NEW l \in Loops
      PROVE  batch[l] \in 0 .. Len(queue'[l])
  <2>1. batch[l] \in 0 .. Len(queue[l]) /\ Len(queue[l]) \in Nat
    BY Parts DEF QueueType
  <2>2. CASE l = k
    BY <1>1, <2>1, <2>2
  <2>3. CASE l # k
    BY <1>1, <2>1, <2>3
  <2> QED
    BY <2>2, <2>3
<1>5. QueueType'
  BY <1>1, <1>3, <1>4 DEF QueueType
<1> QED
  BY <1>1, <1>2, <1>5

LEMMA StartListeningKeeps ==
  ASSUME ServerInv, failed = "none", StartListening
  PROVE  ServerInv'
<1>1. /\ loops_ = numThreads_ /\ starting' = "nobody"
      /\ UNCHANGED <<numThreads_, loops_, next_, started_, starts, connections_, nextConnId_,
                     conn, ioLoop, quit_, pc, batch, active, server, joined>>
      /\ Loops' = Loops /\ Conns' = Conns
  BY DEF StartListening, poolVars, connVars, dyingVars, Loops, Conns
<1>2. PoolType' /\ StartType' /\ ThreadType' /\ ConnType'
  BY <1>1, Parts DEF PoolType, StartType, ThreadType, ConnType
<1>3. LoopInv' /\ FreshInv' /\ BaseInv'
  BY <1>1, Parts DEF LoopInv, FreshInv, BaseInv
<1>4. Spread'
  BY <1>1, Parts, SpreadSame
<1>5. CASE Listen /\ UNCHANGED <<queue, failed>>
  <2>1. listening_' = TRUE /\ UNCHANGED <<idleFd_, backlog, arrived, others>>
    BY <1>5 DEF Listen
  <2>2. AcceptorType'
    <3>1. /\ AcceptorType /\ arrived \in 0 .. MaxConns /\ backlog \in 0 .. arrived
          /\ idleFd_ \in BOOLEAN /\ others \in 0 .. MaxOthers
      BY Parts DEF AcceptorType
    <3> QED
      BY <1>1, <2>1, <3>1, Room, AcceptorMoves
  <2>3. ActiveInv'
    BY <1>1, <2>1, Parts DEF ActiveInv
  <2>4. AcceptInv'
    BY <1>1, <2>1, Parts DEF AcceptInv
  <2>5. QueueType' /\ ServerType'
    BY <1>1, <1>5, Parts DEF QueueType, ServerType
  <2> QED
    BY <1>1, <1>2, <1>3, <1>5, <2>2, <2>3, <2>4, <2>5, Rests
<1>6. CASE Queue(0, "listen", 0) /\ UNCHANGED acceptorVars
  <2>1. /\ 0 \in Loops /\ 0 \in 0 .. MaxConns /\ "listen" \in Ops
        /\ "connectDestroyed" \in Ops /\ "connectEstablished" \in Ops
        /\ "removeConnectionInLoop" \in Ops
    BY Parts, LoopsAre, AcceptorAssumption DEF Ops
  <2>2. QueuePut(0, "listen", 0) /\ failed' \in {"none", "loopGone"}
    BY <1>6 DEF Queue, QueuePut
  <2>3. /\ QueueType'
        /\ \A l \in Loops, op \in Ops, c \in 0 .. MaxConns :
             l # 0 \/ op # "listen" \/ c # 0 => Count(l, op, c)' = Count(l, op, c)
    BY <1>1, <2>1, <2>2, PutFrame
  <2>4. AcceptorType'
    BY <1>1, <1>6, Parts, AcceptorTypeKept
  <2>5. ServerType' /\ ActiveInv' /\ AcceptInv'
    BY <1>1, <1>6, <2>2, Parts DEF ServerType, ActiveInv, AcceptInv, acceptorVars
  <2>6. ASSUME NEW l \in Loops, NEW c \in 0 .. MaxConns
        PROVE  /\ Count(l, "connectEstablished", c)' = Count(l, "connectEstablished", c)
               /\ Count(l, "connectDestroyed", c)' = Count(l, "connectDestroyed", c)
               /\ Count(l, "removeConnectionInLoop", c)' = Count(l, "removeConnectionInLoop", c)
               /\ l # 0 \/ c # 0 => Count(l, "listen", c)' = Count(l, "listen", c)
    BY <2>1, <2>3
  <2>7. QueueInv'
    <3>1. \A l \in Loops : \A c \in 0 .. MaxConns :
            Count(l, "listen", c)' # 0 => l = 0 /\ c = 0
      BY <2>6, Parts DEF QueueInv
    <3> QED
      BY <1>1, <2>6, <3>1, Parts DEF QueueInv
  <2>8. OwnerInv'
    <3> SUFFICES ASSUME NEW d \in Conns, pc[ioLoop[d]] # "gone"
                 PROVE  Owned(d)'
      BY <1>1 DEF OwnerInv
    <3>1. PICK k \in Loops : k = ioLoop[d]
      BY Parts DEF ConnType
    <3>2. d \in 0 .. MaxConns
      BY DEF Conns
    <3>3. /\ Count(k, "connectDestroyed", d)' = Count(k, "connectDestroyed", d)
          /\ Count(k, "connectEstablished", d)' = Count(k, "connectEstablished", d)
      BY <2>6, <3>2
    <3>4. Owned(d)
      BY Parts DEF OwnerInv
    <3> QED
      BY <1>1, <3>1, <3>3, <3>4 DEF Owned
  <2> QED
    BY <1>2, <1>3, <1>4, <2>3, <2>4, <2>5, <2>7, <2>8, PartsMake
<1> QED
  BY <1>5, <1>6 DEF StartListening

LEMMA FreeConnectionKeeps ==
  ASSUME ServerInv, failed = "none", NEW d \in Conns, FreeConnection(d)
  PROVE  ServerInv'
<1>1. /\ conn[d] = "down" /\ conn' = [conn EXCEPT ![d] = "freed"]
      /\ UNCHANGED <<acceptorVars, numThreads_, loops_, next_, started_, starts, starting,
                     connections_, nextConnId_, ioLoop, quit_, pc, queue, batch, active, server,
                     joined, failed>>
      /\ Loops' = Loops /\ Conns' = Conns /\ \A l, op, c : Count(l, op, c)' = Count(l, op, c)
  BY DEF FreeConnection, poolVars, startVars, loopVars, dyingVars, Loops, Conns, Count
<1>2. conn \in [Conns -> {"none", "new", "up", "closed", "down", "freed"}]
  BY Parts DEF ConnType
<1>3. conn'[d] = "freed" /\ \A c \in Conns \ {d} : conn'[c] = conn[c]
  BY <1>1, <1>2
<1>4. AcceptorType'
  BY <1>1, <1>3, Parts, AcceptorTypeKept
<1>5. PoolType' /\ StartType' /\ ThreadType' /\ QueueType' /\ ServerType'
  BY <1>1, Parts DEF PoolType, StartType, ThreadType, QueueType, ServerType
<1>6. ConnType'
  BY <1>1, <1>2, Parts DEF ConnType
<1>7. LoopInv'
  BY <1>1, Parts DEF LoopInv
<1>8. ActiveInv'
  <2>1. \A m \in Loops : \A c \in active[m] : c = 0 \/ c \in Conns \ {d}
    BY <1>1, Parts DEF ServerType, ActiveInv, Conns
  <2> QED
    BY <1>1, <1>3, <2>1, Parts DEF ActiveInv, acceptorVars
<1>9. AcceptInv'
  BY <1>1, CountsRest DEF acceptorVars
<1>10. FreshInv' /\ BaseInv'
  BY <1>1, <1>3, Parts DEF FreshInv, BaseInv
<1>11. QueueInv'
  BY <1>1, Parts DEF QueueInv
<1>12. OwnerInv'
  <2>1. ASSUME pc[ioLoop[d]] # "gone"
        PROVE  Owned(d)'
    <3>1. Owned(d)
      BY <2>1, Parts DEF OwnerInv
    <3> QED
      BY <1>1, <1>3, <3>1 DEF Owned
  <2> QED
    BY <1>1, <1>3, <2>1, OwnersStay
<1>13. Spread'
  BY <1>1, Parts, SpreadSame
<1> QED
  BY <1>4, <1>5, <1>6, <1>7, <1>8, <1>9, <1>10, <1>11, <1>12, <1>13, PartsMake

LEMMA CloseKeeps ==
  ASSUME ServerInv, failed = "none", NEW l \in Loops, NEW d \in Conns, Close(l, d)
  PROVE  ServerInv'
<1>1. /\ pc[l] = "events" /\ d \in active[l] /\ active' = [active EXCEPT ![l] = @ \ {d}]
      /\ conn' = [conn EXCEPT ![d] = "closed"]
      /\ UNCHANGED <<acceptorVars, numThreads_, loops_, next_, started_, starts, starting,
                     nextConnId_, ioLoop, quit_, pc, batch, server, joined>>
      /\ Loops' = Loops /\ Conns' = Conns
  BY DEF Close, Event, startVars, dyingVars, Loops, Conns
<1>2. /\ 0 \in Loops /\ d \in 0 .. MaxConns /\ 0 \in 0 .. MaxConns /\ d # 0
      /\ "removeConnectionInLoop" \in Ops
      /\ "connectDestroyed" \in Ops /\ "connectEstablished" \in Ops /\ "listen" \in Ops
  BY Parts, LoopsAre, AcceptorAssumption DEF Ops, Conns
<1>3. conn[d] = "up" /\ ioLoop[d] = l
  BY <1>1, <1>2, Parts DEF ActiveInv
<1>4. Owned(d) /\ d < nextConnId_
  BY <1>1, <1>3, Parts DEF OwnerInv, FreshInv, ConnType, Conns
<1>5. PICK p \in {"connectDestroyed", "removeConnectionInLoop"} :
        /\ p = IF l = 0 THEN "connectDestroyed" ELSE "removeConnectionInLoop"
        /\ QueuePut(0, p, d) /\ p \in Ops
        /\ connections_' = IF l = 0 THEN connections_ \ {d} ELSE connections_
        /\ failed' \in {"none", "loopGone"}
  BY <1>2 DEF Close, Queue, QueuePut
<1>6. /\ QueueType'
      /\ Count(0, p, d)' = Count(0, p, d) + 1
      /\ \A m \in Loops, op \in Ops, c \in 0 .. MaxConns :
           m # 0 \/ op # p \/ c # d => Count(m, op, c)' = Count(m, op, c)
  BY <1>1, <1>2, <1>5, PutFrame
<1>7. /\ conn \in [Conns -> {"none", "new", "up", "closed", "down", "freed"}]
      /\ active \in [Loops -> SUBSET (0 .. MaxConns)]
  BY Parts DEF ConnType, ServerType
<1>8. /\ conn'[d] = "closed" /\ \A c \in Conns \ {d} : conn'[c] = conn[c]
      /\ active'[l] = active[l] \ {d} /\ \A m \in Loops \ {l} : active'[m] = active[m]
  BY <1>1, <1>7
<1>9. AcceptorType'
  BY <1>1, <1>3, <1>8, Parts, AcceptorTypeKept
<1>10. PoolType' /\ StartType' /\ ThreadType'
  BY <1>1, Parts DEF PoolType, StartType, ThreadType
<1>11. ConnType'
  BY <1>1, <1>5, <1>7, Parts DEF ConnType
<1>12. ServerType'
  BY <1>1, <1>5, <1>7, Parts DEF ServerType
<1>13. LoopInv'
  <2>1. \A m \in Loops : pc[m] \notin {"events", "reject", "reopen"} => active'[m] = {}
    BY <1>1, <1>8, Parts DEF LoopInv
  <2> QED
    BY <1>1, <2>1, Parts DEF LoopInv
<1>14. ActiveInv'
  <2>1. ASSUME NEW m \in Loops, NEW c \in active'[m]
        PROVE  IF c = 0 THEN m = 0 /\ backlog > 0 ELSE conn'[c] = "up" /\ ioLoop[c] = m
    <3>1. c \in active[m] /\ c \in 0 .. MaxConns
      BY <1>7, <1>8, <2>1
    <3>2. IF c = 0 THEN m = 0 /\ backlog > 0 ELSE conn[c] = "up" /\ ioLoop[c] = m
      BY <3>1, Parts DEF ActiveInv
    <3>3. c # d
      BY <1>2, <1>3, <1>8, <2>1, <3>2
    <3>4. c # 0 => c \in Conns \ {d}
      BY <3>1, <3>3 DEF Conns
    <3> QED
      BY <1>8, <3>2, <3>4
  <2>2. 0 \in active'[0] => 0 \in active[0]
    BY <1>2, <1>8
  <2> QED
    BY <1>1, <2>1, <2>2, Parts DEF ActiveInv, acceptorVars
<1>15. AcceptInv'
  <2>1. Count(0, "listen", 0)' = Count(0, "listen", 0)
    BY <1>2, <1>6
  <2> QED
    BY <1>1, <2>1, Parts DEF AcceptInv, acceptorVars
<1>16. FreshInv'
  <2>1. \A c \in Conns : c >= nextConnId_ => c # d
    BY <1>4, Parts DEF ConnType, Conns
  <2> QED
    BY <1>1, <1>5, <1>8, <2>1, Parts DEF FreshInv
<1>17. QueueInv'
  <2>1. ASSUME NEW m \in Loops, NEW c \in 0 .. MaxConns
        PROVE  /\ Count(m, "connectEstablished", c)' # 0 \/ Count(m, "connectDestroyed", c)' # 0
                    => c \in Conns /\ c < nextConnId_ /\ ioLoop[c] = m
               /\ Count(m, "removeConnectionInLoop", c)' # 0 =>
                    m = 0 /\ c \in Conns /\ c < nextConnId_ /\ ioLoop[c] # 0
               /\ Count(m, "listen", c)' # 0 => m = 0 /\ c = 0
    <3>1. /\ Count(m, "connectEstablished", c)' = Count(m, "connectEstablished", c)
          /\ Count(m, "listen", c)' = Count(m, "listen", c)
          /\ m # 0 \/ c # d \/ l # 0 =>
               Count(m, "connectDestroyed", c)' = Count(m, "connectDestroyed", c)
          /\ m # 0 \/ c # d \/ l = 0 =>
               Count(m, "removeConnectionInLoop", c)' = Count(m, "removeConnectionInLoop", c)
      BY <1>2, <1>5, <1>6
    <3>2. CASE c = d /\ m = 0
      BY <1>3, <1>4, <3>1, <3>2, Parts DEF QueueInv
    <3>3. CASE c # d \/ m # 0
      BY <3>1, <3>3, Parts DEF QueueInv
    <3> QED
      BY <3>2, <3>3
  <2> QED
    BY <1>1, <2>1 DEF QueueInv
<1>18. BaseInv'
  BY <1>1, <1>3, <1>5, <1>8, Parts DEF BaseInv
<1>19. OwnerInv'
  <2>1. Owned(d)'
    <3>1. Count(l, "connectEstablished", d)' = Count(l, "connectEstablished", d)
      BY <1>2, <1>5, <1>6
    <3>2. CASE l = 0
      <4>1. d \in connections_ /\ d \notin connections_'
        BY <1>3, <1>5, <3>2, Parts DEF BaseInv
      <4>2. Count(0, "connectDestroyed", d) = 0
        BY <1>3, <1>4, <3>2, <4>1 DEF Owned
      <4>3. Count(0, "connectDestroyed", d)' = 1
        BY <1>5, <1>6, <3>2, <4>2
      <4> QED
        BY <1>1, <1>3, <1>4, <1>8, <3>1, <3>2, <4>1, <4>3 DEF Owned
    <3>3. CASE l # 0
      <4>1. Count(l, "connectDestroyed", d)' = Count(l, "connectDestroyed", d)
        BY <1>2, <1>6, <3>3
      <4>2. connections_' = connections_
        BY <1>5, <3>3
      <4> QED
        BY <1>1, <1>3, <1>4, <1>8, <3>1, <4>1, <4>2 DEF Owned
    <3> QED
      BY <3>2, <3>3
  <2>2. ASSUME NEW m \in Loops, NEW c \in Conns \ {d}
        PROVE  /\ Count(m, "connectDestroyed", c)' = Count(m, "connectDestroyed", c)
               /\ Count(m, "connectEstablished", c)' = Count(m, "connectEstablished", c)
    <3>1. c \in 0 .. MaxConns /\ c # d
      BY DEF Conns
    <3> QED
      BY <1>2, <1>6, <3>1
  <2>3. \A c \in Conns \ {d} : c \in connections_' <=> c \in connections_
    BY <1>5
  <2> QED
    BY <1>1, <1>8, <2>1, <2>2, <2>3, OwnersStay
<1>20. Spread'
  BY <1>1, Parts, SpreadSame
<1> QED
  BY <1>6, <1>9, <1>10, <1>11, <1>12, <1>13, <1>14, <1>15, <1>16, <1>17, <1>18, <1>19, <1>20,
     PartsMake

LEMMA DestroyConnectionKeeps ==
  ASSUME ServerInv, failed = "none", NEW d \in Conns, DestroyConnection(d)
  PROVE  ServerInv'
<1>1. /\ server = "conns" /\ d \in connections_ /\ connections_' = connections_ \ {d}
      /\ UNCHANGED <<acceptorVars, numThreads_, loops_, next_, started_, starts, starting,
                     nextConnId_, ioLoop, quit_, pc, batch, active, server, joined>>
      /\ Loops' = Loops /\ Conns' = Conns
  BY DEF DestroyConnection, poolVars, startVars, dyingVars, Loops, Conns
<1>2. /\ 0 \in Loops /\ d \in 0 .. MaxConns /\ 0 \in 0 .. MaxConns /\ d # 0
      /\ "removeConnectionInLoop" \in Ops
      /\ "connectDestroyed" \in Ops /\ "connectEstablished" \in Ops /\ "listen" \in Ops
  BY Parts, LoopsAre, AcceptorAssumption DEF Ops, Conns
<1>3. pc[0] = "functors" /\ active[0] = {}
  BY <1>1, <1>2, Parts DEF LoopInv
<1>4. PoolType' /\ StartType' /\ ThreadType' /\ LoopInv'
  BY <1>1, Parts DEF PoolType, StartType, ThreadType, LoopInv
<1>5. Spread'
  BY <1>1, Parts, SpreadSame
<1>6. conn \in [Conns -> {"none", "new", "up", "closed", "down", "freed"}]
      /\ d < nextConnId_
  BY <1>1, Parts DEF ConnType, FreshInv, Conns
<1>7. CASE ioLoop[d] = 0
  <2>1. /\ conn' = [conn EXCEPT ![d] = "down"] /\ UNCHANGED queue
        /\ failed' = IF conn[d] \in {"up", "closed"} THEN failed ELSE "remove"
        /\ \A l, op, c : Count(l, op, c)' = Count(l, op, c)
    BY <1>7 DEF DestroyConnection, Count
  <2>2. conn[d] = "up" /\ failed' = "none"
    BY <1>1, <1>7, <2>1, Parts DEF BaseInv
  <2>3. conn'[d] = "down" /\ \A c \in Conns \ {d} : conn'[c] = conn[c]
    BY <1>6, <2>1
  <2>4. AcceptorType'
    BY <1>1, <2>2, <2>3, Parts, AcceptorTypeKept
  <2>5. ConnType' /\ QueueType' /\ ServerType'
    BY <1>1, <1>6, <2>1, <2>2, Parts DEF ConnType, QueueType, ServerType
  <2>6. ActiveInv'
    <3>1. \A m \in Loops : \A c \in active[m] : c = 0 \/ c \in Conns \ {d}
      BY <1>3, <1>7, Parts DEF ServerType, ActiveInv, Conns
    <3> QED
      BY <1>1, <2>3, <3>1, Parts DEF ActiveInv, acceptorVars
  <2>7. AcceptInv'
    BY <1>1, <2>1, CountsRest DEF acceptorVars
  <2>8. FreshInv'
    <3>1. \A c \in Conns : c >= nextConnId_ => c # d
      BY <1>6, Parts DEF ConnType, Conns
    <3> QED
      BY <1>1, <2>3, <3>1, Parts DEF FreshInv
  <2>9. BaseInv'
    BY <1>1, <2>3, Parts DEF BaseInv
  <2>10. QueueInv'
    BY <1>1, <2>1, Parts DEF QueueInv
  <2>11. Owned(d)'
    <3>1. Owned(d)
      BY <1>3, <1>7, Parts DEF OwnerInv
    <3> QED
      BY <1>1, <2>1, <2>2, <2>3, <3>1 DEF Owned
  <2>12. OwnerInv'
    BY <1>1, <2>1, <2>3, <2>11, OwnersStay
  <2> QED
    BY <1>4, <1>5, <2>4, <2>5, <2>6, <2>7, <2>8, <2>9, <2>10, <2>12, PartsMake
<1>8. CASE ioLoop[d] # 0
  <2>1. PICK m \in Loops : m = ioLoop[d]
    BY Parts DEF ConnType
  <2>2. /\ QueuePut(m, "connectDestroyed", d)
        /\ failed' = IF pc[m] = "gone" THEN "loopGone" ELSE failed
        /\ UNCHANGED conn
    BY <1>8, <2>1 DEF DestroyConnection, Queue, QueuePut
  <2>3. /\ QueueType'
        /\ Count(m, "connectDestroyed", d)' = Count(m, "connectDestroyed", d) + 1
        /\ \A l \in Loops, op \in Ops, c \in 0 .. MaxConns :
             l # m \/ op # "connectDestroyed" \/ c # d => Count(l, op, c)' = Count(l, op, c)
    BY <1>1, <1>2, <2>2, PutFrame
  <2>4. AcceptorType'
    BY <1>1, <2>2, Parts, AcceptorTypeKept
  <2>5. ConnType' /\ ServerType'
    <3>1. failed' \in {"none", "loopGone"}
      BY <2>2
    <3> QED
      BY <1>1, <2>2, <3>1, Parts DEF ConnType, ServerType
  <2>6. ActiveInv'
    BY <1>1, <2>2, Parts DEF ActiveInv, acceptorVars
  <2>7. AcceptInv'
    <3>1. Count(0, "listen", 0)' = Count(0, "listen", 0)
      BY <1>2, <2>3
    <3> QED
      BY <1>1, <3>1, Parts DEF AcceptInv, acceptorVars
  <2>8. FreshInv' /\ BaseInv'
    BY <1>1, <1>8, <2>2, Parts DEF FreshInv, BaseInv
  <2>9. QueueInv'
    <3>1. ASSUME NEW l \in Loops, NEW c \in 0 .. MaxConns
          PROVE  /\ Count(l, "connectEstablished", c)' # 0 \/ Count(l, "connectDestroyed", c)' # 0
                      => c \in Conns /\ c < nextConnId_ /\ ioLoop[c] = l
                 /\ Count(l, "removeConnectionInLoop", c)' # 0 =>
                      l = 0 /\ c \in Conns /\ c < nextConnId_ /\ ioLoop[c] # 0
                 /\ Count(l, "listen", c)' # 0 => l = 0 /\ c = 0
      <4>1. /\ Count(l, "connectEstablished", c)' = Count(l, "connectEstablished", c)
            /\ Count(l, "listen", c)' = Count(l, "listen", c)
            /\ l # m \/ c # d => Count(l, "connectDestroyed", c)' = Count(l, "connectDestroyed", c)
            /\ Count(l, "removeConnectionInLoop", c)' = Count(l, "removeConnectionInLoop", c)
        BY <1>2, <2>3
      <4>2. CASE c = d /\ l = m
        BY <1>6, <2>1, <4>1, <4>2, Parts DEF QueueInv
      <4>3. CASE c # d \/ l # m
        BY <4>1, <4>3, Parts DEF QueueInv
      <4> QED
        BY <4>2, <4>3
    <3> QED
      BY <1>1, <3>1 DEF QueueInv
  <2>10. ASSUME pc[m] # "gone"
         PROVE  Owned(d)'
    <3>1. Owned(d)
      BY <2>1, <2>10, Parts DEF OwnerInv
    <3>2. conn[d] \in {"new", "up", "closed"} /\ Count(m, "connectDestroyed", d) = 0
      BY <1>1, <2>1, <3>1 DEF Owned
    <3>3. Count(m, "connectDestroyed", d)' = 1
      BY <2>3, <3>2
    <3>4. Count(m, "connectEstablished", d)' = Count(m, "connectEstablished", d)
      BY <1>2, <2>3
    <3> QED
      BY <1>1, <2>1, <2>2, <3>1, <3>2, <3>3, <3>4 DEF Owned
  <2>11. ASSUME NEW l \in Loops, NEW c \in Conns \ {d}
         PROVE  /\ Count(l, "connectDestroyed", c)' = Count(l, "connectDestroyed", c)
                /\ Count(l, "connectEstablished", c)' = Count(l, "connectEstablished", c)
    <3>1. c \in 0 .. MaxConns /\ c # d
      BY DEF Conns
    <3> QED
      BY <1>2, <2>3, <3>1
  <2>12. OwnerInv'
    BY <1>1, <2>1, <2>2, <2>10, <2>11, OwnersStay
  <2> QED
    BY <1>4, <1>5, <2>3, <2>4, <2>5, <2>6, <2>7, <2>8, <2>9, <2>12, PartsMake
<1> QED
  BY <1>7, <1>8

\* The connections that go with a loop's queue are connections of that loop.
LEMMA LostAreOwn ==
  ASSUME ServerInv, failed = "none", NEW l \in Loops \ {0}, NEW c \in Conns,
         NEW i \in DOMAIN queue[l], queue[l][i][2] = c
  PROVE  ioLoop[c] = l /\ c < nextConnId_
<1>1. queue[l] \in Seq(Entries)
  BY Parts DEF QueueType
<1>2. queue[l][i] \in Entries /\ i \in 1 .. Len(queue[l])
  BY <1>1
<1>3. PICK op \in Ops : queue[l][i] = <<op, c>>
  BY <1>2 DEF Entries
<1>4. c \in 0 .. MaxConns
  BY DEF Conns
<1>5. Count(l, op, c) # 0
  BY <1>2, <1>3, <1>4, Parts, CountType
<1>6. \/ Count(l, "connectEstablished", c) # 0 \/ Count(l, "connectDestroyed", c) # 0
      \/ Count(l, "removeConnectionInLoop", c) # 0 \/ Count(l, "listen", c) # 0
  BY <1>5 DEF Ops
<1> QED
  BY <1>4, <1>6, Parts DEF QueueInv

LEMMA LoopDiesKeeps ==
  ASSUME ServerInv, failed = "none", NEW l \in IoLoops, LoopDies(l)
  PROVE  ServerInv'
<1> DEFINE lost == {c \in Conns : /\ \E i \in DOMAIN queue[l] : queue[l][i][2] = c
                                  /\ \A i \in DOMAIN queue[0] : queue[0][i][2] # c}
<1>1. /\ pc[l] = "left" /\ pc' = [pc EXCEPT ![l] = "gone"]
      /\ conn' = [c \in Conns |-> IF c \in lost THEN "freed" ELSE conn[c]]
      /\ failed' \in {"none", "~Channel"}
      /\ queue' = [queue EXCEPT ![l] = <<>>]
      /\ UNCHANGED <<acceptorVars, numThreads_, loops_, next_, started_, starts, starting,
                     connections_, nextConnId_, ioLoop, quit_, batch, active, server, joined>>
      /\ Loops' = Loops /\ Conns' = Conns
  BY DEF LoopDies, Goto, poolVars, startVars, dyingVars, Loops, Conns
<1>2. l \in Loops \ {0} /\ 0 \in Loops
  BY Parts, LoopsAre
<1>3. /\ pc \in [Loops -> {"none", "start", "ready", "check", "poll", "events", "reject",
                       "reopen", "functors", "left", "gone"}]
      /\ queue \in [Loops -> Seq(Entries)]
      /\ conn \in [Conns -> {"none", "new", "up", "closed", "down", "freed"}]
      /\ ioLoop \in [Conns -> Loops]
  BY Parts DEF ThreadType, QueueType, ConnType
<1>4. /\ pc'[l] = "gone" /\ queue'[l] = <<>>
      /\ \A m \in Loops \ {l} : pc'[m] = pc[m] /\ queue'[m] = queue[m]
  BY <1>1, <1>2, <1>3
<1>5. \A c \in lost : ioLoop[c] = l /\ c < nextConnId_
  BY <1>2, LostAreOwn
<1> HIDE DEF lost
<1>6. /\ \A c \in Conns : conn'[c] = IF c \in lost THEN "freed" ELSE conn[c]
      /\ conn' \in [Conns -> {"none", "new", "up", "closed", "down", "freed"}]
  BY <1>1, <1>3
<1>7. \A c \in Conns : ioLoop[c] # l \/ c >= nextConnId_ => conn'[c] = conn[c]
  BY <1>5, <1>6, Parts DEF ConnType, Conns
<1>8. \A m \in Loops \ {l} : \A op, c : Count(m, op, c)' = Count(m, op, c)
  BY <1>4 DEF Count
<1>9. \A op, c : Count(l, op, c)' = 0
  <2>1. \A op, c : {i \in DOMAIN queue'[l] : queue'[l][i] = <<op, c>>} = {}
    BY <1>4
  <2> QED
    BY <2>1, FS_EmptySet DEF Count
<1>10. AcceptorType'
  BY <1>1, <1>6, Parts, AcceptorTypeKept
<1>11. PoolType' /\ StartType'
  BY <1>1, Parts DEF PoolType, StartType
<1>12. ThreadType'
  BY <1>1, <1>3, Parts DEF ThreadType
<1>13. QueueType' /\ batch[l] = 0
  <2>1. queue' \in [Loops -> Seq(Entries)]
    <3> DEFINE e == <<>>
    <3>1. e \in Seq(Entries) /\ queue' = [queue EXCEPT ![l] = e]
      BY <1>1
    <3> HIDE DEF e
    <3> QED
      BY <1>2, <1>3, <3>1
  <2>2. batch[l] = 0
    BY <1>1, <1>2, Parts DEF LoopInv
  <2>3. \A m \in Loops : batch[m] \in 0 .. Len(queue'[m])
    BY <1>4, <2>2, Parts DEF QueueType
  <2> QED
    BY <1>1, <2>1, <2>2, <2>3 DEF QueueType
<1>14. ConnType' /\ ServerType'
  BY <1>1, <1>6, Parts DEF ConnType, ServerType
<1>15. LoopInv'
  <2>1. \A m \in Loops : pc'[m] # "functors" => batch[m] = 0
    BY <1>4, <1>13, Parts DEF LoopInv
  <2>2. \A m \in Loops : pc'[m] \notin {"events", "reject", "reopen"} => active[m] = {}
    BY <1>1, <1>2, <1>4, Parts DEF LoopInv
  <2>3. pc'[0] = pc[0]
    BY <1>2, <1>4
  <2> QED
    BY <1>1, <2>1, <2>2, <2>3, Parts DEF LoopInv
<1>16. ActiveInv'
  <2>1. pc'[0] = pc[0] /\ active[l] = {}
    BY <1>1, <1>2, <1>4, Parts DEF LoopInv
  <2>2. ASSUME NEW m \in Loops, NEW c \in active[m]
        PROVE  IF c = 0 THEN m = 0 /\ backlog > 0 ELSE conn'[c] = "up" /\ ioLoop[c] = m
    <3>1. m # l /\ c \in 0 .. MaxConns
      BY <2>1, <2>2, Parts DEF ServerType
    <3>2. IF c = 0 THEN m = 0 /\ backlog > 0 ELSE conn[c] = "up" /\ ioLoop[c] = m
      BY <2>2, Parts DEF ActiveInv
    <3>3. c # 0 => c \in Conns
      BY <3>1 DEF Conns
    <3> QED
      BY <1>7, <3>1, <3>2, <3>3
  <2> QED
    BY <1>1, <2>1, <2>2, Parts DEF ActiveInv, acceptorVars
<1>17. AcceptInv'
  BY <1>1, <1>2, <1>8, Parts DEF AcceptInv, acceptorVars
<1>18. FreshInv'
  BY <1>1, <1>7, Parts DEF FreshInv
<1>19. QueueInv'
  <2>1. \A m \in Loops, op \in Ops, c \in 0 .. MaxConns :
          Count(m, op, c)' # 0 => Count(m, op, c) # 0
    BY <1>8, <1>9
  <2> QED
    BY <1>1, <2>1, Parts, QueueInvShrinks
<1>20. BaseInv'
  BY <1>1, <1>2, <1>7, Parts DEF BaseInv
<1>21. OwnerInv'
  <2> SUFFICES ASSUME NEW d \in Conns, pc'[ioLoop[d]] # "gone"
               PROVE  Owned(d)'
    BY <1>1 DEF OwnerInv
  <2>1. PICK k \in Loops : k = ioLoop[d]
    BY <1>3
  <2>2. k # l /\ pc[k] # "gone" /\ conn'[d] = conn[d]
    BY <1>4, <1>7, <2>1
  <2>3. /\ Count(k, "connectDestroyed", d)' = Count(k, "connectDestroyed", d)
        /\ Count(k, "connectEstablished", d)' = Count(k, "connectEstablished", d)
    BY <1>8, <2>2
  <2>4. Owned(d)
    BY <2>1, <2>2, Parts DEF OwnerInv
  <2> QED
    BY <1>1, <2>1, <2>2, <2>3, <2>4 DEF Owned
<1>22. Spread'
  BY <1>1, Parts, SpreadSame
<1> QED
  BY <1>10, <1>11, <1>12, <1>13, <1>14, <1>15, <1>16, <1>17, <1>18, <1>19, <1>20, <1>21, <1>22,
     PartsMake

-----------------------------------------------------------------------------
(* newConnection() *)

\* The new connection adds one to the share of its loop and nothing to another's.
LEMMA LoadGrows ==
  ASSUME ConnType, nextConnId_ \in Conns, NEW l \in Loops,
         nextConnId_' = nextConnId_ + 1, ioLoop' = [ioLoop EXCEPT ![nextConnId_] = l]
  PROVE  Load(l)' = Load(l) + 1 /\ \A m : m # l => Load(m)' = Load(m)
<1> DEFINE S(m) == {c \in Conns : c < nextConnId_ /\ ioLoop[c] = m}
           T(m) == {c \in Conns : c < nextConnId_ + 1 /\ ioLoop'[c] = m}
           n == nextConnId_
<1>1. /\ n \in Conns /\ n \in Nat /\ ioLoop'[n] = l
      /\ \A c \in Conns \ {n} : ioLoop'[c] = ioLoop[c]
      /\ \A c \in Conns : c \in Nat
  BY DEF ConnType, Conns
<1>2. \A m : Load(m)' = Cardinality(T(m)) /\ Load(m) = Cardinality(S(m))
  BY DEF Load, Conns
<1>3. ~(n < n) /\ \A c \in Conns : c < n + 1 <=> c = n \/ c < n
  BY <1>1
<1>4. T(l) = S(l) \cup {n} /\ n \notin S(l)
  <2>1. \A c \in Conns : c \in T(l) <=> c \in S(l) \/ c = n
    BY <1>1, <1>3
  <2> QED
    BY <1>1, <1>3, <2>1
<1>5. ASSUME NEW m, m # l
      PROVE  T(m) = S(m)
  <2>1. \A c \in Conns : c \in T(m) <=> c \in S(m)
    BY <1>1, <1>3, <1>5
  <2> QED
    BY <2>1
<1>6. IsFiniteSet(S(l))
  BY LoadType
<1>7. Cardinality(T(l)) = Cardinality(S(l)) + 1
  <2> HIDE DEF S, T
  <2> QED
    BY <1>4, <1>6, FS_AddElement
<1> QED
  BY <1>2, <1>5, <1>7

\* getNextLoop() goes round: the loops before next_ stay one ahead.
LEMMA SpreadGrows ==
  ASSUME PoolType, ConnType, Spread, loops_ = numThreads_, UNCHANGED numThreads_,
         loops_ = 0 => next_ = 0,
         nextConnId_ \in Conns, next_' = Advance, nextConnId_' = nextConnId_ + 1,
         ioLoop' = [ioLoop EXCEPT ![nextConnId_] = NextLoop]
  PROVE  Spread' /\ NextLoop \in Loops /\ (NextLoop = 0 <=> numThreads_ = 0)
<1>1. /\ numThreads_ \in Nat /\ next_ \in Nat /\ next_ <= numThreads_
      /\ numThreads_ > 0 => next_ < numThreads_
      /\ Loops = 0 .. numThreads_ /\ IoLoops = 1 .. numThreads_ /\ IoLoops' = IoLoops
  BY LoopsAre DEF PoolType, Loops, IoLoops
<1>2. NextLoop = IF numThreads_ = 0 THEN 0 ELSE next_ + 1
  BY DEF NextLoop
<1>3. NextLoop \in Loops /\ (NextLoop = 0 <=> numThreads_ = 0)
  BY <1>1, <1>2
<1>4. PICK l \in Loops : l = NextLoop
  BY <1>3
<1>5. Load(l)' = Load(l) + 1 /\ \A m : m # l => Load(m)' = Load(m)
  BY <1>4, LoadGrows
<1>6. PICK k \in Nat : \A m \in IoLoops : Load(m) = IF m <= next_ THEN k + 1 ELSE k
  BY DEF Spread
<1>7. \A c \in Conns : c < nextConnId_' => (ioLoop'[c] = 0 <=> numThreads_ = 0)
  <2> SUFFICES ASSUME NEW c \in Conns, c < nextConnId_ + 1
               PROVE  ioLoop'[c] = 0 <=> numThreads_ = 0
    OBVIOUS
  <2>1. CASE c = nextConnId_
    BY <1>3, <2>1 DEF ConnType
  <2>2. CASE c # nextConnId_
    <3>1. c < nextConnId_ /\ ioLoop'[c] = ioLoop[c]
      BY <2>2 DEF ConnType, Conns
    <3> QED
      BY <3>1 DEF Spread
  <2> QED
    BY <2>1, <2>2
<1>8. \E j \in Nat : \A m \in IoLoops : Load(m)' = IF m <= next_' THEN j + 1 ELSE j
  <2>1. CASE numThreads_ = 0
    BY <1>1, <2>1
  <2>2. CASE numThreads_ > 0 /\ next_ + 1 >= numThreads_
    <3>1. next_' = 0 /\ next_ + 1 = numThreads_ /\ l = numThreads_
      BY <1>1, <1>2, <1>4, <2>2 DEF Advance
    <3>2. ASSUME NEW m \in IoLoops
          PROVE  Load(m)' = k + 1 /\ ~(m <= next_')
      <4>1. CASE m = l
        BY <1>1, <1>5, <1>6, <3>1, <4>1
      <4>2. CASE m # l
        BY <1>1, <1>5, <1>6, <3>1, <4>2
      <4> QED
        BY <4>1, <4>2
    <3>3. \A m \in IoLoops : Load(m)' = IF m <= next_' THEN (k + 1) + 1 ELSE k + 1
      BY <3>2
    <3> WITNESS k + 1 \in Nat
    <3> QED
      BY <3>3
  <2>3. CASE numThreads_ > 0 /\ ~(next_ + 1 >= numThreads_)
    <3>1. next_' = next_ + 1 /\ l = next_ + 1
      BY <1>1, <1>2, <1>4, <2>3 DEF Advance
    <3>2. ASSUME NEW m \in IoLoops
          PROVE  Load(m)' = IF m <= next_ + 1 THEN k + 1 ELSE k
      <4>1. CASE m = l
        BY <1>1, <1>5, <1>6, <3>1, <4>1
      <4>2. CASE m # l
        BY <1>1, <1>5, <1>6, <3>1, <4>2
      <4> QED
        BY <4>1, <4>2
    <3> QED
      BY <3>1, <3>2
  <2> QED
    BY <1>1, <2>1, <2>2, <2>3
<1>9. Spread'
  BY <1>1, <1>7, <1>8 DEF Spread, Conns
<1> QED
  BY <1>3, <1>9

\* The new connection has its owner, the map, and if its loop is another one the
\* functor that establishes it.
LEMMA NewConnectionKeeps ==
  ASSUME ServerInv, failed = "none", NewConnection
  PROVE  ServerInv'
<1>1. /\ Event(0, 0) /\ backlog > 0 /\ Free(Used) > 0 /\ backlog' = backlog - 1
      /\ nextConnId_' = nextConnId_ + 1 /\ connections_' = connections_ \cup {nextConnId_}
      /\ UNCHANGED <<listening_, idleFd_, arrived, others, pc>>
      /\ next_' = Advance /\ ioLoop' = [ioLoop EXCEPT ![nextConnId_] = NextLoop]
      /\ conn' = [conn EXCEPT ![nextConnId_] = IF NextLoop = 0 THEN "up" ELSE "new"]
      /\ IF NextLoop = 0 THEN UNCHANGED <<queue, failed>>
                         ELSE Queue(NextLoop, "connectEstablished", nextConnId_)
  BY DEF NewConnection, Accepts
<1>2. /\ pc[0] = "events" /\ 0 \in active[0] /\ active' = [active EXCEPT ![0] = @ \ {0}]
      /\ UNCHANGED <<numThreads_, loops_, started_, starts, starting, quit_, batch, server,
                     joined>>
      /\ Loops' = Loops /\ Conns' = Conns
  BY <1>1 DEF Event, startVars, dyingVars, Loops, Conns
<1>3. loops_ = numThreads_ /\ loops_ \in Nat /\ next_ \in Nat /\ (loops_ = 0 => next_ = 0)
  BY <1>1, Parts, LoopsAre, AcceptorReported DEF LoopInv
<1>4. /\ nextConnId_ \in Nat /\ arrived \in Nat /\ backlog \in Nat /\ MaxConns \in Nat
      /\ arrived <= MaxConns /\ nextConnId_ + backlog <= arrived + 1 /\ nextConnId_ >= 1
      /\ backlog <= arrived
  BY Parts, Room, AcceptorAssumption DEF ConnType, AcceptInv, AcceptorType
<1>5. nextConnId_ \in Conns /\ nextConnId_ <= MaxConns
  BY <1>1, <1>4 DEF Conns
<1>6. Spread' /\ NextLoop \in Loops /\ (NextLoop = 0 <=> numThreads_ = 0)
  BY <1>1, <1>2, <1>3, <1>5, Parts, SpreadGrows
<1>7. PICK l \in Loops, d \in Conns : l = NextLoop /\ d = nextConnId_
  BY <1>5, <1>6
<1>8. /\ 0 \in Loops /\ d \in 0 .. MaxConns /\ 0 \in 0 .. MaxConns /\ d # 0
      /\ "removeConnectionInLoop" \in Ops
      /\ "connectDestroyed" \in Ops /\ "connectEstablished" \in Ops /\ "listen" \in Ops
  BY Parts, LoopsAre, AcceptorAssumption DEF Ops, Conns
<1>9. /\ conn \in [Conns -> {"none", "new", "up", "closed", "down", "freed"}]
      /\ ioLoop \in [Conns -> Loops] /\ active \in [Loops -> SUBSET (0 .. MaxConns)]
  BY Parts DEF ConnType, ServerType
<1>10. conn[d] = "none" /\ d \notin connections_
  BY <1>4, <1>7, Parts DEF FreshInv
<1>11. /\ conn'[d] = (IF l = 0 THEN "up" ELSE "new") /\ ioLoop'[d] = l
       /\ \A c \in Conns \ {d} : conn'[c] = conn[c] /\ ioLoop'[c] = ioLoop[c]
       /\ active'[0] = active[0] \ {0} /\ \A m \in Loops \ {0} : active'[m] = active[m]
  BY <1>1, <1>2, <1>7, <1>8, <1>9
<1>12. /\ QueueType' /\ failed' \in {"none", "loopGone"}
       /\ l # 0 => Count(l, "connectEstablished", d)' = Count(l, "connectEstablished", d) + 1
       /\ \A m \in Loops, op \in Ops, c \in 0 .. MaxConns :
            l = 0 \/ m # l \/ op # "connectEstablished" \/ c # d =>
              Count(m, op, c)' = Count(m, op, c)
  <2>1. CASE l = 0
    <3>1. UNCHANGED <<queue, failed>> /\ \A m, op, c : Count(m, op, c)' = Count(m, op, c)
      BY <1>1, <1>7, <2>1 DEF Count
    <3>2. QueueType'
      BY <1>2, <3>1, Parts DEF QueueType
    <3> QED
      BY <2>1, <3>1, <3>2
  <2>2. CASE l # 0
    <3>1. QueuePut(l, "connectEstablished", d) /\ failed' \in {"none", "loopGone"}
      BY <1>1, <1>7, <2>2 DEF Queue, QueuePut
    <3>2. /\ QueueType'
          /\ Count(l, "connectEstablished", d)' = Count(l, "connectEstablished", d) + 1
          /\ \A m \in Loops, op \in Ops, c \in 0 .. MaxConns :
               m # l \/ op # "connectEstablished" \/ c # d => Count(m, op, c)' = Count(m, op, c)
      BY <1>2, <1>8, <3>1, PutFrame
    <3> QED
      BY <2>2, <3>1, <3>2
  <2> QED
    BY <2>1, <2>2
<1>13. \A m \in Loops : /\ Count(m, "connectEstablished", d) = 0
                        /\ Count(m, "connectDestroyed", d) = 0
                        /\ Count(m, "removeConnectionInLoop", d) = 0
                        /\ Count(m, "listen", d) = 0
  BY <1>4, <1>7, <1>8, Parts DEF QueueInv
<1>14. AcceptorType'
  <2>1. Used' = Used + 1
    BY <1>10, <1>11, UsedGrows
  <2>2. /\ Used \in Nat /\ others \in Nat /\ FdLimit \in Nat /\ idleFd_ \in BOOLEAN
        /\ Used + others + 1 <= FdLimit /\ (idleFd_ => Used + others + 2 <= FdLimit)
    BY <1>1, Parts, Room
  <2>3. /\ Used' \in Nat /\ Used' + others' <= FdLimit
        /\ idleFd_' => Used' + others' + 1 <= FdLimit
    <3> DEFINE u == Used
               v == Used'
    <3>1. u \in Nat /\ v = u + 1 /\ u + others + 1 <= FdLimit
          /\ (idleFd_ => u + others + 2 <= FdLimit)
      BY <2>1, <2>2
    <3> HIDE DEF u, v
    <3>2. /\ v \in Nat /\ v + others <= FdLimit
          /\ idleFd_ => v + others + 1 <= FdLimit
      BY <2>2, <3>1
    <3> QED
      BY <1>1, <3>2 DEF v
  <2>4. Taken(Used)' <= FdLimit
    BY <1>1, <2>2, <2>3, RoomMakes
  <2>5. backlog' \in 0 .. arrived
    BY <1>1, <1>4
  <2> QED
    BY <1>1, <2>4, <2>5, Parts DEF AcceptorType
<1>15. PoolType'
  <2>1. next_' \in 0 .. numThreads_ /\ (loops_ > 0 => next_' < loops_)
    BY <1>1, <1>3, Parts DEF PoolType, Advance
  <2> QED
    BY <1>2, <2>1, Parts DEF PoolType
<1>16. StartType' /\ ThreadType'
  BY <1>1, <1>2, Parts DEF StartType, ThreadType
<1>17. ConnType'
  <2>1. conn' \in [Conns -> {"none", "new", "up", "closed", "down", "freed"}]
    BY <1>1, <1>5, <1>9
  <2>2. ioLoop' \in [Conns -> Loops]
    BY <1>1, <1>5, <1>6, <1>9
  <2>3. nextConnId_' \in 1 .. MaxConns + 1 /\ connections_' \subseteq Conns
    BY <1>1, <1>4, <1>5, Parts DEF ConnType
  <2> QED
    BY <1>2, <2>1, <2>2, <2>3 DEF ConnType
<1>18. ServerType'
  BY <1>2, <1>9, <1>12, Parts DEF ServerType
<1>19. LoopInv'
  <2>1. \A m \in Loops : pc[m] \notin {"events", "reject", "reopen"} => active'[m] = {}
    BY <1>11, Parts DEF LoopInv
  <2>2. loops_ = 0 => next_' = 0
    BY <1>1 DEF Advance
  <2> QED
    BY <1>1, <1>2, <2>1, <2>2, Parts DEF LoopInv
<1>20. ActiveInv'
  <2>1. ASSUME NEW m \in Loops, NEW c \in active'[m]
        PROVE  c # 0 /\ conn'[c] = "up" /\ ioLoop'[c] = m
    <3>1. c \in active[m] /\ c \in 0 .. MaxConns /\ (m = 0 => c # 0)
      BY <1>9, <1>11, <2>1
    <3>2. IF c = 0 THEN m = 0 /\ backlog > 0 ELSE conn[c] = "up" /\ ioLoop[c] = m
      BY <3>1, Parts DEF ActiveInv
    <3>3. c # 0 /\ c # d
      BY <1>10, <3>1, <3>2
    <3>4. c \in Conns \ {d}
      BY <3>1, <3>3 DEF Conns
    <3> QED
      BY <1>11, <3>2, <3>3, <3>4
  <2> QED
    BY <1>1, <1>2, <2>1 DEF ActiveInv
<1>21. AcceptInv'
  <2>1. (nextConnId_ + 1) + (backlog - 1) <= arrived + 1
    BY <1>4
  <2>2. nextConnId_' + backlog' <= arrived' + 1
    BY <1>1, <2>1
  <2> QED
    BY <1>2, <1>3, <2>2 DEF AcceptInv
<1>22. FreshInv'
  <2>1. \A c \in Conns : c >= nextConnId_ + 1 => c >= nextConnId_ /\ c # nextConnId_
    BY <1>4 DEF Conns
  <2> QED
    BY <1>1, <1>2, <1>7, <1>11, <2>1, Parts DEF FreshInv
<1>23. QueueInv'
  <2>1. ASSUME NEW m \in Loops, NEW c \in 0 .. MaxConns
        PROVE  /\ Count(m, "connectEstablished", c)' # 0 \/ Count(m, "connectDestroyed", c)' # 0
                    => c \in Conns /\ c < nextConnId_ + 1 /\ ioLoop'[c] = m
               /\ Count(m, "removeConnectionInLoop", c)' # 0 =>
                    m = 0 /\ c \in Conns /\ c < nextConnId_ + 1 /\ ioLoop'[c] # 0
               /\ Count(m, "listen", c)' # 0 => m = 0 /\ c = 0
    <3>1. /\ Count(m, "connectDestroyed", c)' = Count(m, "connectDestroyed", c)
          /\ Count(m, "removeConnectionInLoop", c)' = Count(m, "removeConnectionInLoop", c)
          /\ Count(m, "listen", c)' = Count(m, "listen", c)
          /\ m # l \/ c # d =>
               Count(m, "connectEstablished", c)' = Count(m, "connectEstablished", c)
      BY <1>8, <1>12
    <3>2. CASE c = d
      <4>1. /\ Count(m, "connectDestroyed", c)' = 0 /\ Count(m, "listen", c)' = 0
            /\ Count(m, "removeConnectionInLoop", c)' = 0
            /\ Count(m, "connectEstablished", c)' # 0 => m = l
        BY <1>13, <3>1, <3>2
      <4>2. d < nextConnId_ + 1
        BY <1>4, <1>7
      <4> QED
        BY <1>11, <3>2, <4>1, <4>2
    <3>3. CASE c # d
      <4>1. /\ Count(m, "connectEstablished", c) # 0 \/ Count(m, "connectDestroyed", c) # 0 =>
                 c \in Conns /\ c < nextConnId_ /\ ioLoop[c] = m
            /\ Count(m, "removeConnectionInLoop", c) # 0 =>
                 m = 0 /\ c \in Conns /\ c < nextConnId_ /\ ioLoop[c] # 0
            /\ Count(m, "listen", c) # 0 => m = 0 /\ c = 0
        BY Parts DEF QueueInv
      <4>2. c < nextConnId_ => c < nextConnId_ + 1
        BY <1>4
      <4>3. c \in Conns => ioLoop'[c] = ioLoop[c]
        BY <1>11, <3>3
      <4> QED
        BY <3>1, <3>3, <4>1, <4>2, <4>3
    <3> QED
      BY <3>2, <3>3
  <2> QED
    BY <1>1, <1>2, <2>1 DEF QueueInv
<1>24. BaseInv'
  <2>1. ASSUME NEW c \in Conns, ioLoop'[c] = 0
        PROVE  conn'[c] # "new" /\ (conn'[c] = "up" <=> c \in connections_')
    <3>1. CASE c = d
      BY <1>1, <1>7, <1>11, <2>1, <3>1
    <3>2. CASE c # d
      <4>1. conn'[c] = conn[c] /\ ioLoop[c] = 0 /\ (c \in connections_' <=> c \in connections_)
        BY <1>1, <1>7, <1>11, <2>1, <3>2
      <4> QED
        BY <4>1, Parts DEF BaseInv
    <3> QED
      BY <3>1, <3>2
  <2> QED
    BY <1>2, <2>1 DEF BaseInv
<1>25. OwnerInv'
  <2>1. Owned(d)'
    <3>1. Count(l, "connectDestroyed", d)' = 0
      BY <1>8, <1>12, <1>13
    <3>2. Count(l, "connectEstablished", d)' = IF l = 0 THEN 0 ELSE 1
      BY <1>8, <1>12, <1>13
    <3>3. d \in connections_'
      BY <1>1, <1>7
    <3> QED
      BY <1>11, <3>1, <3>2, <3>3 DEF Owned
  <2>2. ASSUME NEW m \in Loops, NEW c \in Conns \ {d}
        PROVE  /\ Count(m, "connectDestroyed", c)' = Count(m, "connectDestroyed", c)
               /\ Count(m, "connectEstablished", c)' = Count(m, "connectEstablished", c)
    <3>1. c \in 0 .. MaxConns /\ c # d
      BY DEF Conns
    <3> QED
      BY <1>8, <1>12, <3>1
  <2>3. \A c \in Conns \ {d} : c \in connections_' <=> c \in connections_
    BY <1>1, <1>7
  <2> QED
    BY <1>1, <1>11, <2>1, <2>2, <2>3, OwnersStay
<1> QED
  BY <1>6, <1>12, <1>14, <1>15, <1>16, <1>17, <1>18, <1>19, <1>20, <1>21, <1>22, <1>23, <1>24,
     <1>25, PartsMake

-----------------------------------------------------------------------------
(* The invariant holds *)

LEMMA ServerInit ==
  ASSUME Init
  PROVE  ServerInv
<1>1. /\ listening_ = FALSE /\ idleFd_ = TRUE /\ backlog = 0 /\ arrived = 0 /\ others = 0
      /\ numThreads_ \in ThreadNums /\ loops_ = 0 /\ next_ = 0
      /\ quit_ = [l \in Loops |-> FALSE]
      /\ pc = [l \in Loops |-> IF l = 0 THEN "poll" ELSE "none"]
      /\ started_ \in {-1, 0, 1} /\ starts = 0 /\ starting = "nobody"
      /\ connections_ = {} /\ nextConnId_ = 1
      /\ conn = [c \in Conns |-> "none"] /\ ioLoop = [c \in Conns |-> 0]
      /\ queue = [l \in Loops |-> <<>>] /\ batch = [l \in Loops |-> 0]
      /\ active = [l \in Loops |-> {}]
      /\ server = "alive" /\ joined = 0 /\ failed = "none"
  BY DEF Init, AcceptorInit, PoolInit
<1>2. /\ numThreads_ \in Nat /\ MaxConns \in Nat /\ MaxOthers \in Nat /\ MaxStarts \in Nat
      /\ FdLimit \in Nat /\ FdLimit >= 1
  BY <1>1, PoolAssumption, AcceptorAssumption, TcpServerAssumption
<1>3. 0 \in Loops
  BY <1>2 DEF Loops
<1>4. \A l \in Loops : \A op, c : Count(l, op, c) = 0
  <2>1. \A l \in Loops : \A op, c : {i \in DOMAIN queue[l] : queue[l][i] = <<op, c>>} = {}
    BY <1>1
  <2> QED
    BY <2>1, FS_EmptySet DEF Count
<1>5. Used = 0
  <2>1. {c \in Conns : conn[c] \notin {"none", "freed"}} = {}
    BY <1>1
  <2> QED
    BY <2>1, FS_EmptySet DEF Used
<1>6. AcceptorType
  <2>1. Taken(Used) = 0 + 0 + 1
    BY <1>1, <1>5 DEF Taken
  <2>2. Taken(Used) <= FdLimit
    BY <1>2, <2>1
  <2>3. listening_ \in BOOLEAN /\ idleFd_ \in BOOLEAN
    BY <1>1
  <2>4. arrived \in 0 .. MaxConns /\ backlog \in 0 .. arrived /\ others \in 0 .. MaxOthers
    BY <1>1, <1>2
  <2> QED
    BY <2>2, <2>3, <2>4 DEF AcceptorType
<1>7. PoolType /\ StartType
  BY <1>1, <1>2 DEF PoolType, StartType
<1>8. ThreadType
  BY <1>1 DEF ThreadType
<1>9. ConnType
  BY <1>1, <1>2, <1>3 DEF ConnType
<1>10. QueueType
  <2> DEFINE e == <<>>
  <2>1. e \in Seq(Entries) /\ Len(e) = 0 /\ queue = [l \in Loops |-> e]
    BY <1>1
  <2> HIDE DEF e
  <2> QED
    BY <1>1, <2>1 DEF QueueType
<1>11. ServerType
  BY <1>1 DEF ServerType
<1>12. LoopInv
  BY <1>1, <1>3 DEF LoopInv
<1>13. ActiveInv
  BY <1>1, <1>3 DEF ActiveInv
<1>14. AcceptInv /\ FreshInv /\ BaseInv
  BY <1>1, <1>3, <1>4 DEF AcceptInv, FreshInv, BaseInv
<1>15. QueueInv
  BY <1>4 DEF QueueInv
<1>16. OwnerInv
  BY <1>1, <1>3, <1>4 DEF OwnerInv, Owned
<1>17. Spread
  <2>1. \A c \in Conns : ~(c < nextConnId_)
    BY <1>1, <1>2 DEF Conns
  <2>2. \A l : Load(l) = 0
    <3>1. \A l : {c \in Conns : c < nextConnId_ /\ ioLoop[c] = l} = {}
      BY <2>1
    <3> QED
      BY <3>1, FS_EmptySet DEF Load
  <2>3. \A l \in IoLoops : ~(l <= next_)
    BY <1>1, <1>2 DEF IoLoops
  <2>4. \A l \in IoLoops : Load(l) = IF l <= next_ THEN 0 + 1 ELSE 0
    BY <2>2, <2>3
  <2>5. 0 \in Nat
    OBVIOUS
  <2> QED
    BY <2>1, <2>4, <2>5 DEF Spread
<1> QED
  BY <1>6, <1>7, <1>8, <1>9, <1>10, <1>11, <1>12, <1>13, <1>14, <1>15, <1>16, <1>17, TypeParts
     DEF ServerInv, Sound

LEMMA ServerStutters ==
  ASSUME ServerInv, UNCHANGED vars
  PROVE  ServerInv'
<1>1. UNCHANGED <<listening_, idleFd_, backlog, arrived, others, numThreads_, loops_, next_,
                  started_, starts, starting, connections_, nextConnId_, conn, ioLoop, quit_,
                  pc, queue, batch, active, server, joined, failed>>
  BY DEF vars, acceptorVars, poolVars, startVars, connVars, loopVars, dyingVars
<1>2. Loops' = Loops /\ Conns' = Conns /\ \A l, op, c : Count(l, op, c)' = Count(l, op, c)
  BY <1>1 DEF Loops, Conns, Count
<1>3. TypeOK'
  BY <1>1 DEF ServerInv, TypeOK, Taken, Used, Loops, Conns
<1>4. Spread'
  BY <1>1, SpreadSame DEF ServerInv
<1>5. ASSUME failed = "none"
      PROVE  Sound'
  <2>1. LoopInv' /\ ActiveInv' /\ AcceptInv' /\ FreshInv' /\ BaseInv'
    BY <1>1, <1>2, <1>5, Parts DEF LoopInv, ActiveInv, AcceptInv, FreshInv, BaseInv
  <2>2. QueueInv'
    BY <1>1, <1>2, <1>5, Parts DEF QueueInv
  <2>3. OwnerInv'
    BY <1>1, <1>2, <1>5, Parts DEF OwnerInv, Owned
  <2> QED
    BY <2>1, <2>2, <2>3 DEF Sound
<1> QED
  BY <1>1, <1>3, <1>4, <1>5 DEF ServerInv

LEMMA ServerNext ==
  ASSUME ServerInv, Next
  PROVE  ServerInv'
<1>1. failed = "none"
  BY DEF Next
<1>2. ASSUME NEW l \in Loops, LoopNext(l)
      PROVE  ServerInv'
  BY <1>1, <1>2, PollKeeps, DoPendingFunctorsKeeps, RoundEndsKeeps, ConnectEstablishedKeeps,
     ConnectDestroyedKeeps, CloseKeeps DEF LoopNext
<1>3. ASSUME NEW l \in IoLoops, ThreadFunc(l) \/ LoopDies(l)
      PROVE  ServerInv'
  BY <1>1, <1>3, ThreadFuncKeeps, LoopDiesKeeps
<1>4. CASE BaseNext
  BY <1>1, <1>4, NewConnectionKeeps, HandleReadFailsKeeps, OutOfDescriptorsKeeps, RejectKeeps,
     RunListenKeeps, RemoveConnectionInLoopKeeps DEF BaseNext
<1>5. CASE StartNext
  BY <1>1, <1>5, StartThreadsKeeps, StartListeningKeeps DEF StartNext
<1>6. CASE DestroyNext \/ Destroy
  BY <1>1, <1>6, DestroyConnectionKeeps, DestroyKeeps DEF DestroyNext
<1>7. CASE \E c \in Conns : FreeConnection(c)
  BY <1>1, <1>7, FreeConnectionKeeps
<1>8. CASE \E who \in {"loop", "thread"} : Start(who)
  BY <1>1, <1>8, StartKeeps
<1>9. CASE World(Arrive) \/ World(OtherOpens(Used)) \/ World(OtherCloses)
  BY <1>1, <1>9, WorldKeeps
<1> QED
  BY <1>2, <1>3, <1>4, <1>5, <1>6, <1>7, <1>8, <1>9 DEF Next

\* The invariant is inductive.
THEOREM ServerInvHolds == Spec => []ServerInv
<1>1. Init => ServerInv
  BY ServerInit
<1>2. ServerInv /\ [Next]_vars => ServerInv'
  BY ServerNext, ServerStutters
<1> QED
  BY <1>1, <1>2, PTL DEF Spec

-----------------------------------------------------------------------------
(* The theorems *)

\* The types are kept whatever the number of threads, connections and descriptors;
\* handleRead(), which gives up idleFd_ and takes it back, and the other threads never
\* hold more descriptors together than the process may have.
THEOREM TypeCorrect == Spec => []TypeOK
<1>1. ServerInv => TypeOK
  BY DEF ServerInv
<1> QED
  BY <1>1, ServerInvHolds, PTL

\* Every connection that is not yet torn down is in connections_ or has exactly one
\* connectDestroyed() queued on its own loop: newConnection(), handleClose(),
\* removeConnectionInLoop() and ~TcpServer() hand it over and lose none, however their
\* steps and those of the loops fall, as long as the connection's loop lives.
THEOREM EveryConnectionHasOneOwner == Spec => []OneOwner
<1>1. ServerInv => OneOwner
  BY DEF ServerInv, Sound, OwnerInv, Owned, OneOwner
<1> QED
  BY <1>1, ServerInvHolds, PTL

\* getNextLoop() gives no loop of the pool two connections more than another, and the base
\* loop one only when there is no thread: connections come only after start() has all
\* its threads, so the round-robin index never meets a vector that still grows.
THEOREM LoopsShareEvenly == Spec => []Balanced
<1>1. ServerInv => Balanced
  BY SpreadBalances DEF ServerInv
<1> QED
  BY <1>1, ServerInvHolds, PTL
=============================================================================
