------------------------- MODULE TcpConnectionProofs -------------------------
(***************************************************************************)
(* Proofs about TcpConnection for any number of threads, any calls made on *)
(* the loop or elsewhere, and any bounds:                                  *)
(*   - its variables keep their types;                                     *)
(*   - the output stream keeps its order;                                  *)
(*   - the channel never asks to write nothing;                            *)
(* and, for the uses that LoopOwnsState and LoopEndsIt name:               *)
(*   - output is watched, and shutdown waits for it;                       *)
(*   - no assertion fails.                                                 *)
(***************************************************************************)
EXTENDS TcpConnection, SequenceTheorems, TLAPS

-----------------------------------------------------------------------------
(* Sequences of units *)

LEMMA ConcatType ==
  \A r \in Seq(Nat), s \in Seq(Nat) : r \o s \in Seq(Nat)
  OBVIOUS

LEMMA ConcatAssoc ==
  \A r \in Seq(Nat), s \in Seq(Nat), t \in Seq(Nat) :
    (r \o s) \o t = r \o (s \o t)
  OBVIOUS

\* What it means that n units of s are written after w and the rest is kept.
Splits(w, s, n) ==
  /\ SubSeq(s, 1, n) \in Seq(Nat)
  /\ SubSeq(s, n + 1, Len(s)) \in Seq(Nat)
  /\ (w \o SubSeq(s, 1, n)) \o SubSeq(s, n + 1, Len(s)) = w \o s
  /\ n < Len(s) => SubSeq(s, n + 1, Len(s)) # <<>>
  /\ n = Len(s) => SubSeq(s, n + 1, Len(s)) = <<>>

\* A partial write leaves the rest of the data, in order.
LEMMA WriteSplits ==
  \A w \in Seq(Nat), s \in Seq(Nat) : \A n \in 0 .. Len(s) : Splits(w, s, n)
<1> SUFFICES ASSUME NEW w \in Seq(Nat), NEW s \in Seq(Nat), NEW n \in 0 .. Len(s)
             PROVE  Splits(w, s, n)
  OBVIOUS
<1> DEFINE a == SubSeq(s, 1, n)
           b == SubSeq(s, n + 1, Len(s))
<1>1. Len(s) \in Nat /\ \A i \in 1 .. Len(s) : s[i] \in Nat
  OBVIOUS
<1>2. a \in Seq(Nat)
  BY <1>1, SubSeqProperties
<1>3. b \in Seq(Nat) /\ Len(b) = Len(s) - n
  BY <1>1, SubSeqProperties
<1>4. a \o b = s
  <2>1. 1 \in 1 .. Len(s) + 1 /\ n \in 1 - 1 .. Len(s) /\ Len(s) \in n .. Len(s)
    BY <1>1
  <2>2. a \o b = SubSeq(s, 1, Len(s))
    BY <2>1, ConcatAdjacentSubSeq, Zenon
  <2> QED
    BY <2>2, SubSeqFull
<1>5. (w \o a) \o b = w \o (a \o b)
  BY <1>2, <1>3, ConcatAssoc
<1>6. n < Len(s) => b # <<>>
  <2> HIDE DEF b
  <2> QED
    BY <1>1, <1>3
<1>7. n = Len(s) => b = <<>>
  BY <1>1, SubSeqEmpty
<1> QED
  BY <1>2, <1>3, <1>4, <1>5, <1>6, <1>7 DEF Splits

LEMMA ConcatNonEmpty ==
  \A r \in Seq(Nat), s \in Seq(Nat) :
    (r # <<>> \/ s # <<>>) => r \o s # <<>>
  OBVIOUS

-----------------------------------------------------------------------------
(* Type correctness *)

\* A thread in the middle of a call has something to queue, and what is in the
\* inbox has been sent by the peer.
TypeInv ==
  /\ TypeOK
  /\ \A t \in Threads : call[t].step # "out" => call[t].op \in Calls
  /\ inbox <= received

LEMMA AppendFunctor ==
  \A q \in Seq(Functors), f \in Functors :
    Append(q, f) \in Seq(Functors) /\ Len(Append(q, f)) = Len(q) + 1
  OBVIOUS

LEMMA QueueFunctor ==
  \A op \in Calls \cup {"connectEstablished", "connectDestroyed",
                        "writeComplete", "highWaterMark"} :
    Functor(op) \in Functors
  BY DEF Functor, Functors

\* The queue after one of the library's own functors may have been queued.
LEMMA Queued ==
  \A op \in {"forceClose", "connectDestroyed", "writeComplete"} :
    TypeInv /\ functors' \in {functors, Append(functors, Functor(op))} =>
      functors' \in Seq(Functors) /\ Len(functors') >= Len(functors)
<1> SUFFICES ASSUME NEW op \in {"forceClose", "connectDestroyed", "writeComplete"},
                    TypeInv, functors' \in {functors, Append(functors, Functor(op))}
             PROVE  functors' \in Seq(Functors) /\ Len(functors') >= Len(functors)
  OBVIOUS
<1>1. functors \in Seq(Functors)
  BY DEF TypeInv, TypeOK
<1>2. Functor(op) \in Functors
  BY QueueFunctor DEF Calls
<1> QED
  BY <1>1, <1>2, AppendFunctor

LEMMA SetEventsTypes ==
  \A events \in SUBSET Events :
    SetEvents(events) => events_' \in SUBSET Events /\ index_' \in Indices
  BY DEF SetEvents, Updated, Indices

\* A connection that goes down, whatever its callback calls, wants no writing and
\* is still known to the poller.
LEMMA LoweredTypes ==
  \A c \in Lowered :
    /\ c.events \in {{}, {"in"}} /\ c.index \in {kAdded, kDeleted}
    /\ reading_ \in BOOLEAN => c.reading \in BOOLEAN
<1> SUFFICES ASSUME NEW c \in Lowered
             PROVE  /\ c.events \in {{}, {"in"}} /\ c.index \in {kAdded, kDeleted}
                    /\ reading_ \in BOOLEAN => c.reading \in BOOLEAN
  BY Zenon
<1> DEFINE off == Updated(index_, {})
<1>1. \/ c = [events |-> {}, index |-> off, reading |-> reading_]
      \/ c = [events |-> {"in"}, index |-> Updated(off, {"in"}), reading |-> TRUE]
      \/ c = [events |-> {}, index |-> Updated(off, {}), reading |-> TRUE]
  BY DEF Lowered
<1>2. \A i, e : Updated(i, e) \in {kAdded, kDeleted}
  BY DEF Updated
<1>3. c.events \in {{}, {"in"}} /\ c.index \in {kAdded, kDeleted}
  BY <1>1, <1>2
<1>4. c.reading = reading_ \/ c.reading = TRUE
  <2>1. CASE c = [events |-> {}, index |-> off, reading |-> reading_]
    BY <2>1
  <2>2. CASE \E e, i : c = [events |-> e, index |-> i, reading |-> TRUE]
    <3>1. PICK e, i : c = [events |-> e, index |-> i, reading |-> TRUE]
      BY <2>2, Zenon
    <3>2. c["reading"] = TRUE
      BY <3>1
    <3> QED
      BY <3>2
  <2> QED
    BY <1>1, <2>1, <2>2, Zenon
<1> QED
  BY <1>3, <1>4, Zenon

\* The types hold of a connection that has just been accepted.
LEMMA TypeInit == Init => TypeInv
<1> SUFFICES ASSUME Init PROVE TypeInv
  OBVIOUS
<1> USE DEF Init
<1>1. functors \in Seq(Functors) /\ batch \in 0 .. Len(functors)
  <2>1. Functor("connectEstablished") \in Functors
    BY QueueFunctor
  <2> QED
    BY <2>1
<1>2. /\ call \in [Threads -> [op : Calls \cup {"none"}, data : Seq(Nat),
                               step : {"out", "set", "queue"}]]
      /\ \A t \in Threads : call[t].step # "out" => call[t].op \in Calls
  BY DEF Idle
<1>3. /\ outputBuffer_ \in Seq(Nat) /\ accepted \in Seq(Nat) /\ wire \in Seq(Nat)
      /\ made \in 0 .. MaxCalls /\ inbox \in 0 .. MaxInput
      /\ received \in 0 .. MaxInput
  BY TcpConnectionAssumption
<1>4. /\ reading_ \in BOOLEAN /\ connections_ \in BOOLEAN /\ server \in BOOLEAN
      /\ shutWrite \in BOOLEAN /\ fault \in BOOLEAN
  BY Zenon
<1> QED
  BY <1>1, <1>2, <1>3, <1>4 DEF TypeInv, TypeOK, Events, Indices, kNew

\* What sendInLoop() leaves, whatever part of the data the socket takes.
LEMMA SendTypes ==
  \A data \in Seq(Nat), q \in Seq(Functors) :
    TypeInv /\ SendInLoop(data, q) =>
      /\ outputBuffer_' \in Seq(Nat)
      /\ accepted' \in Seq(Nat) /\ wire' \in Seq(Nat)
      /\ fault' \in BOOLEAN
      /\ events_' \in SUBSET Events /\ index_' \in Indices
      /\ functors' \in Seq(Functors) /\ Len(functors') >= Len(q)
<1> SUFFICES ASSUME NEW data \in Seq(Nat), NEW q \in Seq(Functors),
                    TypeInv, SendInLoop(data, q)
             PROVE  /\ outputBuffer_' \in Seq(Nat)
                    /\ accepted' \in Seq(Nat) /\ wire' \in Seq(Nat)
                    /\ fault' \in BOOLEAN
                    /\ events_' \in SUBSET Events /\ index_' \in Indices
                    /\ functors' \in Seq(Functors) /\ Len(functors') >= Len(q)
  OBVIOUS
<1>1. /\ outputBuffer_ \in Seq(Nat) /\ accepted \in Seq(Nat) /\ wire \in Seq(Nat)
      /\ fault \in BOOLEAN /\ events_ \in SUBSET Events /\ index_ \in Indices
      /\ accepted \o data \in Seq(Nat)
  BY DEF TypeInv, TypeOK
<1>2. fault' \in BOOLEAN
  BY <1>1, Zenon DEF SendInLoop
<1>3. ASSUME NEW rest \in Seq(Nat), AppendOutput(rest, q)
      PROVE  /\ outputBuffer_' \in Seq(Nat)
             /\ events_' \in SUBSET Events /\ index_' \in Indices
             /\ functors' \in Seq(Functors) /\ Len(functors') >= Len(q)
  <2>1. events_ \cup {"out"} \in SUBSET Events
    BY <1>1 DEF Events
  <2>2. events_' \in SUBSET Events /\ index_' \in Indices
    BY <1>3, <2>1, SetEventsTypes DEF AppendOutput
  <2>3. outputBuffer_' \in Seq(Nat)
    BY <1>1, <1>3 DEF AppendOutput
  <2>4. Functor("highWaterMark") \in Functors
    BY QueueFunctor
  <2>5. <<>> \in Seq(Functors) /\ <<Functor("highWaterMark")>> \in Seq(Functors)
    BY <2>4
  <2>6. NotifyHighWater(Len(outputBuffer_), Len(rest)) \in Seq(Functors)
    BY <2>5, Zenon DEF NotifyHighWater
  <2>7. functors' = q \o NotifyHighWater(Len(outputBuffer_), Len(rest))
    BY <1>3 DEF AppendOutput
  <2>8. functors' \in Seq(Functors) /\ Len(functors') >= Len(q)
    <3> HIDE DEF NotifyHighWater
    <3> QED
      BY <2>6, <2>7
  <2> QED
    BY <2>2, <2>3, <2>8
<1>4. CASE state_ = "kDisconnected"
  BY <1>1, <1>2, <1>4 DEF SendInLoop
<1>5. CASE state_ # "kDisconnected" /\ (isWriting \/ outputBuffer_ # <<>>)
  <2>1. AppendOutput(data, q) /\ accepted' = accepted \o data /\ wire' = wire
    BY <1>5 DEF SendInLoop
  <2> QED
    BY <1>1, <1>2, <1>3, <2>1
<1>6. CASE state_ # "kDisconnected" /\ ~isWriting /\ outputBuffer_ = <<>> /\ ~Writable
  <2>1. /\ functors' = q /\ accepted' = accepted \o data
        /\ UNCHANGED <<outputBuffer_, events_, index_, wire>>
    BY <1>6, Zenon DEF SendInLoop
  <2> QED
    BY <1>1, <1>2, <2>1
<1>7. CASE state_ # "kDisconnected" /\ ~isWriting /\ outputBuffer_ = <<>> /\ Writable
  <2>1. PICK n \in 0 .. Len(data) :
          /\ wire' = wire \o SubSeq(data, 1, n)
          /\ IF n = Len(data)
             THEN /\ functors' = Append(q, Functor("writeComplete"))
                  /\ UNCHANGED <<outputBuffer_, events_, index_>>
             ELSE AppendOutput(SubSeq(data, n + 1, Len(data)), q)
    BY <1>7 DEF SendInLoop
  <2>2. SubSeq(data, 1, n) \in Seq(Nat) /\ SubSeq(data, n + 1, Len(data)) \in Seq(Nat)
    <3>1. Splits(wire, data, n)
      BY <1>1, WriteSplits
    <3> QED
      BY <3>1 DEF Splits
  <2>3. accepted' = accepted \o data
    BY <1>7 DEF SendInLoop
  <2>4. wire' \in Seq(Nat)
    BY <1>1, <2>1, <2>2
  <2>5. CASE n = Len(data)
    <3>1. Functor("writeComplete") \in Functors
      BY QueueFunctor
    <3>2. functors' \in Seq(Functors) /\ Len(functors') >= Len(q)
      BY <2>1, <2>5, <3>1
    <3> QED
      BY <1>1, <1>2, <2>1, <2>3, <2>4, <2>5, <3>2
  <2>6. CASE n # Len(data)
    <3>1. AppendOutput(SubSeq(data, n + 1, Len(data)), q)
      BY <2>1, <2>6
    <3> QED
      BY <1>1, <1>2, <1>3, <2>2, <2>3, <2>4, <3>1
  <2> QED
    BY <2>5, <2>6
<1> QED
  BY <1>4, <1>5, <1>6, <1>7

\* A close, or a failed assertion of handleClose(), keeps the types.
LEMMA CloseTypes ==
  TypeInv /\ HandleClose =>
    /\ state_' \in {"kConnecting", "kConnected", "kDisconnecting", "kDisconnected"}
    /\ reading_' \in BOOLEAN
    /\ events_' \in SUBSET Events /\ index_' \in Indices
    /\ removing' \in Nat
    /\ failed' \in {"none", "handleClose", "connectEstablished", "remove",
                    "erase", "serverGone"}
<1> SUFFICES ASSUME TypeInv, HandleClose
             PROVE  /\ reading_' \in BOOLEAN
                    /\ events_' \in SUBSET Events /\ index_' \in Indices
  BY DEF HandleClose, TypeInv, TypeOK
<1>1. CASE state_ \in {"kConnected", "kDisconnecting"}
  <2>1. PICK c \in Lowered : events_' = c.events /\ index_' = c.index /\ reading_' = c.reading
    BY <1>1 DEF HandleClose
  <2> QED
    BY <2>1, LoweredTypes DEF TypeInv, TypeOK, Events, Indices
<1>2. CASE state_ \notin {"kConnected", "kDisconnecting"}
  BY <1>2 DEF HandleClose, TypeInv, TypeOK
<1> QED
  BY <1>1, <1>2

\* startReadInLoop() and stopReadInLoop() keep the types.
LEMMA ReadControlTypes ==
  TypeInv /\ (StartReadInLoop \/ StopReadInLoop) =>
    reading_' \in BOOLEAN /\ events_' \in SUBSET Events /\ index_' \in Indices
<1> SUFFICES ASSUME TypeInv, StartReadInLoop \/ StopReadInLoop
             PROVE  /\ reading_' \in BOOLEAN
                    /\ events_' \in SUBSET Events /\ index_' \in Indices
  OBVIOUS
<1>1. reading_ \in BOOLEAN /\ events_ \in SUBSET Events /\ index_ \in Indices
  BY DEF TypeInv, TypeOK
<1>2. /\ events_ \cup {"in"} \in SUBSET Events
      /\ events_ \ {"in"} \in SUBSET Events
  BY <1>1 DEF Events
<1>3. reading_' \in BOOLEAN
  BY <1>1, Zenon DEF StartReadInLoop, StopReadInLoop
<1>4. events_' \in SUBSET Events /\ index_' \in Indices
  BY <1>1, <1>2, SetEventsTypes DEF StartReadInLoop, StopReadInLoop
<1> QED
  BY <1>3, <1>4

\* The queue when a functor of the round is taken from it.
LEMMA TakeFunctor ==
  \A op : TypeInv /\ NextFunctor(op) =>
    /\ Head(functors) \in Functors /\ Head(functors).data \in Seq(Nat)
    /\ Tail(functors) \in Seq(Functors)
    /\ batch' \in 0 .. Len(Tail(functors))
<1> SUFFICES ASSUME NEW op, TypeInv, NextFunctor(op)
             PROVE  /\ Head(functors) \in Functors
                    /\ Head(functors).data \in Seq(Nat)
                    /\ Tail(functors) \in Seq(Functors)
                    /\ batch' \in 0 .. Len(Tail(functors))
  OBVIOUS
<1>1. functors \in Seq(Functors) /\ batch \in 0 .. Len(functors)
  BY DEF TypeInv, TypeOK
<1>2. batch > 0 /\ batch' = batch - 1
  BY DEF NextFunctor
<1>3. Head(functors) \in Functors
  BY <1>1, <1>2
<1>4. Head(functors).data \in Seq(Nat)
  BY <1>3 DEF Functors
<1>5. Tail(functors) \in Seq(Functors) /\ Len(Tail(functors)) = Len(functors) - 1
  BY <1>1, <1>2
<1> QED
  BY <1>1, <1>2, <1>3, <1>4, <1>5

\* The units of a send() are numbers.
LEMMA DataTypes ==
  TypeInv => \A data \in NewData : data \in Seq(Nat) /\ data # <<>>
<1> SUFFICES ASSUME TypeInv, NEW n \in 1 .. MaxLen
             PROVE  /\ [i \in 1 .. n |-> sent + i] \in Seq(Nat)
                    /\ [i \in 1 .. n |-> sent + i] # <<>>
  BY DEF NewData
<1>1. sent \in Nat /\ n \in Nat /\ n > 0
  BY TcpConnectionAssumption DEF TypeInv, TypeOK
<1> DEFINE data == [i \in 1 .. n |-> sent + i]
<1>2. data \in [1 .. n -> Nat]
  BY <1>1
<1>3. data \in Seq(Nat) /\ Len(data) = n
  BY <1>1, <1>2
<1> QED
  BY <1>1, <1>3

\* Every step of the I/O loop keeps the types.
LEMMA TypeLoop == TypeInv /\ (Poll \/ LoopStep) => TypeInv'
<1> SUFFICES ASSUME TypeInv, Poll \/ LoopStep PROVE TypeInv'
  OBVIOUS
<1> USE DEF TypeInv, TypeOK, connVars, loopVars, userVars, serverVars, inVars,
            outVars
<1>1. CASE Poll
  BY <1>1 DEF Poll, Reportable, Reset
<1>2. CASE HandleHup
  BY <1>2, CloseTypes DEF HandleHup
<1>3. CASE HandleReadData
  BY <1>3, TcpConnectionAssumption DEF HandleReadData
<1>4. CASE HandleReadError
  BY <1>4 DEF HandleReadError, AfterRead
<1>5. CASE HandleReadEnd
  BY <1>5, CloseTypes DEF HandleReadEnd
<1>6. CASE HandleWrite
  <2>1. CASE isWriting /\ Writable /\ outputBuffer_ # <<>>
    <3>1. PICK n \in 1 .. Len(outputBuffer_) :
            /\ wire' = wire \o SubSeq(outputBuffer_, 1, n)
            /\ outputBuffer_' = SubSeq(outputBuffer_, n + 1, Len(outputBuffer_))
            /\ IF n = Len(outputBuffer_)
               THEN /\ SetEvents(events_ \ {"out"})
                    /\ functors' = Append(functors, Functor("writeComplete"))
                    /\ shutWrite' = (shutWrite \/ state_ = "kDisconnecting")
               ELSE UNCHANGED <<events_, index_, functors, shutWrite>>
      BY <1>6, <2>1 DEF HandleWrite
    <3>2. wire' \in Seq(Nat) /\ outputBuffer_' \in Seq(Nat)
      <4>1. Splits(wire, outputBuffer_, n)
        BY <3>1, WriteSplits
      <4>2. /\ SubSeq(outputBuffer_, 1, n) \in Seq(Nat)
            /\ SubSeq(outputBuffer_, n + 1, Len(outputBuffer_)) \in Seq(Nat)
        BY <4>1 DEF Splits
      <4>3. wire \in Seq(Nat)
        OBVIOUS
      <4> QED
        BY <3>1, <4>2, <4>3, ConcatType, Zenon
    <3>3. events_ \ {"out"} \in SUBSET Events
      OBVIOUS
    <3>4. events_' \in SUBSET Events /\ index_' \in Indices
      BY <3>1, <3>3, SetEventsTypes
    <3>5. shutWrite' \in BOOLEAN
      BY <3>1, Zenon
    <3>6. functors' \in Seq(Functors) /\ Len(functors') >= Len(functors)
      <4>1. functors' \in {functors, Append(functors, Functor("writeComplete"))}
        BY <3>1, Zenon
      <4> QED
        BY <4>1, Queued
    <3> QED
      BY <1>6, <3>2, <3>4, <3>5, <3>6, SMTT(20) DEF HandleWrite
  <2>2. CASE ~isWriting \/ ~Writable \/ outputBuffer_ = <<>>
    <3>1. UNCHANGED <<outputBuffer_, events_, index_, functors, wire, shutWrite>>
      BY <1>6, <2>2 DEF HandleWrite
    <3> QED
      BY <1>6, <3>1 DEF HandleWrite
  <2> QED
    BY <2>1, <2>2
<1>7. CASE TimerFires
  <2>1. functors' \in Seq(Functors) /\ Len(functors') >= Len(functors)
    <3>1. functors' \in {functors, Append(functors, Functor("forceClose"))}
      BY <1>7, Zenon DEF TimerFires
    <3> QED
      BY <3>1, Queued
  <2> QED
    BY <1>7, <2>1 DEF TimerFires
<1>8. CASE DoPendingFunctors
  BY <1>8 DEF DoPendingFunctors
<1>9. CASE FunctorsDone
  BY <1>9 DEF FunctorsDone
<1>10. CASE ConnectEstablished
  <2>1. functors' \in Seq(Functors) /\ batch' \in 0 .. Len(functors')
    BY <1>10, TakeFunctor DEF ConnectEstablished
  <2>2. events_ \cup {"in"} \in SUBSET Events
    BY DEF Events
  <2>3. events_' \in SUBSET Events /\ index_' \in Indices
    BY <1>10, <2>2, SetEventsTypes DEF ConnectEstablished
  <2> QED
    BY <1>10, <2>1, <2>3 DEF ConnectEstablished, NextFunctor
<1>11. CASE ConnectDestroyed
  <2>1. functors' \in Seq(Functors) /\ batch' \in 0 .. Len(functors')
    BY <1>11, TakeFunctor DEF ConnectDestroyed
  <2>2. /\ reading_' \in BOOLEAN
        /\ events_' \in SUBSET Events /\ index_' \in Indices
    <3>1. CASE state_ = "kConnected"
      <4>1. PICK c \in Lowered :
              /\ events_' = c.events /\ reading_' = c.reading
              /\ index_' \in {kNew, c.index}
        BY <1>11, <3>1 DEF ConnectDestroyed
      <4>2. /\ c.events \in {{}, {"in"}} /\ c.index \in {kAdded, kDeleted}
            /\ c.reading \in BOOLEAN
        BY LoweredTypes, Zenon
      <4> QED
        BY <4>1, <4>2 DEF Events, Indices
    <3>2. CASE state_ # "kConnected"
      BY <1>11, <3>2 DEF ConnectDestroyed, Indices
    <3> QED
      BY <3>1, <3>2
  <2> QED
    BY <1>11, <2>1, <2>2 DEF ConnectDestroyed, NextFunctor
<1>12. CASE RunSend
  <2>1. /\ Head(functors).data \in Seq(Nat) /\ Tail(functors) \in Seq(Functors)
        /\ batch' \in 0 .. Len(Tail(functors))
    BY <1>12, TakeFunctor DEF RunSend
  <2>2. SendInLoop(Head(functors).data, Tail(functors))
    BY <1>12 DEF RunSend
  <2>3. /\ outputBuffer_' \in Seq(Nat)
        /\ accepted' \in Seq(Nat) /\ wire' \in Seq(Nat)
        /\ fault' \in BOOLEAN
        /\ events_' \in SUBSET Events /\ index_' \in Indices
        /\ functors' \in Seq(Functors) /\ Len(functors') >= Len(Tail(functors))
    BY <2>1, <2>2, SendTypes, Zenon
  <2>4. batch' \in 0 .. Len(functors')
    BY <2>1, <2>3
  <2> QED
    BY <1>12, <2>3, <2>4 DEF RunSend, NextFunctor
<1>13. CASE RunShutdown
  BY <1>13, TakeFunctor DEF RunShutdown, NextFunctor, ShutdownInLoop
<1>14. CASE RunForceClose
  BY <1>14, TakeFunctor, CloseTypes, SMTT(30) DEF RunForceClose, NextFunctor
<1>15. CASE RunReadControl
  <2>1. functors' \in Seq(Functors) /\ batch' \in 0 .. Len(functors')
    BY <1>15, TakeFunctor DEF RunReadControl
  <2>2. reading_' \in BOOLEAN /\ events_' \in SUBSET Events /\ index_' \in Indices
    BY <1>15, ReadControlTypes DEF RunReadControl
  <2>3. UNCHANGED <<revents_, userVars, connections_, server, peer, inVars>>
    BY <1>15, Zenon DEF RunReadControl, NextFunctor
  <2> QED
    BY <1>15, <2>1, <2>2, <2>3 DEF RunReadControl
<1>16. CASE RunCallback
  <2>1. functors' \in Seq(Functors) /\ batch' \in 0 .. Len(functors')
    BY <1>16, TakeFunctor DEF RunCallback
  <2>2. UNCHANGED <<revents_, userVars, connections_, server, peer, inVars>>
    BY <1>16, Zenon DEF RunCallback, NextFunctor
  <2> QED
    BY <1>16, <2>1, <2>2 DEF RunCallback
<1>17. CASE RunAddTimer
  BY <1>17, TakeFunctor DEF RunAddTimer, NextFunctor
<1>18. CASE CallbackReturns
  BY <1>18 DEF CallbackReturns, AfterRead
<1> QED
  BY <1>1, <1>2, <1>3, <1>4, <1>5, <1>6, <1>7, <1>8, <1>9, <1>10, <1>11,
     <1>12, <1>13, <1>14, <1>15, <1>16, <1>17, <1>18 DEF LoopStep

\* Every step of the callbacks, the threads, the server and the peer does.
LEMMA TypeUsers ==
  TypeInv /\ (\/ LoopUser \/ RemoveConnectionInLoop \/ DestroyServer \/ PeerStep
              \/ \E t \in Threads : \/ ThreadStep(t)
                                    \/ \E op \in Calls : CheckState(t, op))
  => TypeInv'
<1> SUFFICES ASSUME TypeInv,
                    \/ LoopUser \/ RemoveConnectionInLoop \/ DestroyServer
                    \/ PeerStep
                    \/ \E t \in Threads : \/ ThreadStep(t)
                                          \/ \E op \in Calls : CheckState(t, op)
             PROVE  TypeInv'
  OBVIOUS
<1> USE DEF TypeInv, TypeOK, connVars, loopVars, userVars, serverVars, inVars,
            outVars
<1>1. CASE LoopSend
  <2>1. PICK data \in NewData :
          sent' = sent + Len(data) /\ SendInLoop(data, functors)
    BY <1>1 DEF LoopSend
  <2>2. data \in Seq(Nat) /\ Len(data) \in Nat
    BY DataTypes
  <2>3. /\ outputBuffer_' \in Seq(Nat)
        /\ accepted' \in Seq(Nat) /\ wire' \in Seq(Nat)
        /\ fault' \in BOOLEAN
        /\ events_' \in SUBSET Events /\ index_' \in Indices
        /\ functors' \in Seq(Functors) /\ Len(functors') >= Len(functors)
    BY <2>1, <2>2, SendTypes, Zenon
  <2>4. sent' \in Nat /\ made' \in 0 .. MaxCalls
    BY <1>1, <2>1, <2>2, TcpConnectionAssumption DEF LoopSend, LoopCall
  <2>5. batch' \in 0 .. Len(functors')
    BY <1>1, <2>3 DEF LoopSend, LoopCall
  <2> QED
    BY <1>1, <2>3, <2>4, <2>5 DEF LoopSend, LoopCall
<1>2. CASE LoopShutdown
  BY <1>2, TcpConnectionAssumption DEF LoopShutdown, LoopCall, ShutdownInLoop
<1>3. CASE LoopForceClose
  <2>1. functors' \in Seq(Functors) /\ Len(functors') >= Len(functors)
    <3>1. functors' \in {functors, Append(functors, Functor("forceClose"))}
      BY <1>3, Zenon DEF LoopForceClose
    <3> QED
      BY <3>1, Queued
  <2> QED
    BY <1>3, <2>1, TcpConnectionAssumption DEF LoopForceClose, LoopCall
<1>4. CASE LoopForceCloseWithDelay
  BY <1>4, TcpConnectionAssumption DEF LoopForceCloseWithDelay, LoopCall
<1>5. CASE LoopReadControl
  <2>1. reading_' \in BOOLEAN /\ events_' \in SUBSET Events /\ index_' \in Indices
    BY <1>5, ReadControlTypes DEF LoopReadControl
  <2>2. /\ made < MaxCalls /\ made' = made + 1
        /\ UNCHANGED <<pc, revents_, batch, call, serverVars, peer, inVars, failed>>
    BY <1>5, Zenon DEF LoopReadControl, LoopCall
  <2> QED
    BY <1>5, <2>1, <2>2, TcpConnectionAssumption DEF LoopReadControl
<1>6. CASE RemoveConnectionInLoop
  <2>1. functors' \in Seq(Functors) /\ Len(functors') >= Len(functors)
    <3>1. functors' \in {functors, Append(functors, Functor("connectDestroyed"))}
      BY <1>6, Zenon DEF RemoveConnectionInLoop
    <3> QED
      BY <3>1, Queued
  <2>2. connections_' \in BOOLEAN
    BY <1>6, Zenon DEF RemoveConnectionInLoop
  <2>3. failed' \in {"none", "handleClose", "connectEstablished", "remove",
                     "erase", "serverGone"}
    BY <1>6 DEF RemoveConnectionInLoop
  <2> QED
    BY <1>6, <2>1, <2>2, <2>3 DEF RemoveConnectionInLoop
<1>7. CASE DestroyServer
  <2>1. functors' \in Seq(Functors) /\ Len(functors') >= Len(functors)
    <3>1. functors' \in {functors, Append(functors, Functor("connectDestroyed"))}
      BY <1>7, Zenon DEF DestroyServer
    <3> QED
      BY <3>1, Queued
  <2>2. connections_' \in BOOLEAN /\ server' \in BOOLEAN
    BY <1>7, Zenon DEF DestroyServer
  <2> QED
    BY <1>7, <2>1, <2>2 DEF DestroyServer
<1>8. CASE PeerSend
  BY <1>8, TcpConnectionAssumption DEF PeerSend
<1>9. CASE PeerClose
  BY <1>9 DEF PeerClose
<1>10. CASE PeerReset
  BY <1>10, TcpConnectionAssumption DEF PeerReset
<1>11. ASSUME NEW t \in Threads, NEW op \in Calls, CheckState(t, op)
       PROVE  TypeInv'
  <2>1. PICK data \in Seq(Nat) :
          /\ call' = [call EXCEPT ![t] =
                       [op |-> op, data |-> data,
                        step |-> IF SetsState(op) THEN "set" ELSE "queue"]]
          /\ sent' = sent + Len(data)
    <3>1. <<>> \in Seq(Nat) /\ \A data \in NewData : data \in Seq(Nat)
      BY DataTypes
    <3> QED
      BY <1>11, <3>1, Zenon DEF CheckState
  <2>2. sent' \in Nat /\ made' \in 0 .. MaxCalls
    BY <1>11, <2>1, TcpConnectionAssumption DEF CheckState
  <2>3. /\ call' \in [Threads -> [op : Calls \cup {"none"}, data : Seq(Nat),
                                  step : {"out", "set", "queue"}]]
        /\ \A u \in Threads : call'[u].step # "out" => call'[u].op \in Calls
    BY <2>1
  <2>4. UNCHANGED <<connVars, loopVars, functors, serverVars, peer, inVars,
                    outVars, failed>>
    BY <1>11, Zenon DEF CheckState
  <2> QED
    BY <2>2, <2>3, <2>4
<1>12. ASSUME NEW t \in Threads, SetState(t) PROVE TypeInv'
  <2>1. /\ call' \in [Threads -> [op : Calls \cup {"none"}, data : Seq(Nat),
                                  step : {"out", "set", "queue"}]]
        /\ \A u \in Threads : call'[u].step # "out" => call'[u].op \in Calls
    BY <1>12, ZenonT(30) DEF SetState
  <2> QED
    BY <1>12, <2>1, SMTT(30) DEF SetState
<1>13. ASSUME NEW t \in Threads, QueueCall(t) PROVE TypeInv'
  BY <1>13, AppendFunctor DEF QueueCall, Idle, Functors
<1> QED
  BY <1>1, <1>2, <1>3, <1>4, <1>5, <1>6, <1>7, <1>8, <1>9, <1>10, <1>11,
     <1>12, <1>13 DEF LoopUser, PeerStep, ThreadStep

LEMMA TypeNext == TypeInv /\ [Next]_vars => TypeInv'
<1>1. TypeInv /\ UNCHANGED vars => TypeInv'
  BY DEF TypeInv, TypeOK, vars, connVars, loopVars, userVars, serverVars,
         inVars, outVars
<1> QED
  BY <1>1, TypeLoop, TypeUsers DEF Next, Running

LEMMA TypeInvariant == Spec => []TypeInv
  BY TypeInit, TypeNext, PTL DEF Spec

\* The variables of a connection, of its loop, its server and its users keep
\* their types, and the round of functors being run is in the queue.
THEOREM TypeCorrect == Spec => []TypeOK
<1>1. TypeInv => TypeOK
  BY DEF TypeInv
<1> QED
  BY <1>1, TypeInvariant, PTL

-----------------------------------------------------------------------------
(* The output stream *)

\* Inductive as they stand, given the types.
OutInv == StreamInOrder /\ WritingHasData

\* A step that leaves the stream alone and does not enable writing
Quiet ==
  /\ UNCHANGED <<accepted, wire, outputBuffer_, fault>>
  /\ "out" \in events_' => "out" \in events_

LEMMA QuietKeeps == OutInv /\ Quiet => OutInv'
  BY DEF OutInv, StreamInOrder, WritingHasData, Quiet, isWriting

\* The steps that do not write are quiet.
LEMMA CloseIsQuiet ==
  HandleClose => ("out" \in events_' => "out" \in events_)
<1>1. \A c \in Lowered : "out" \notin c.events
  BY LoweredTypes
<1> QED
  BY <1>1, Zenon DEF HandleClose

LEMMA DestroyIsQuiet ==
  ConnectDestroyed => ("out" \in events_' => "out" \in events_)
<1> SUFFICES ASSUME ConnectDestroyed PROVE "out" \in events_' => "out" \in events_
  OBVIOUS
<1>1. CASE state_ = "kConnected"
  <2>1. \E c \in Lowered : events_' = c.events
    BY <1>1 DEF ConnectDestroyed
  <2> QED
    BY <2>1, LoweredTypes
<1>2. CASE state_ # "kConnected"
  BY <1>2 DEF ConnectDestroyed
<1> QED
  BY <1>1, <1>2

LEMMA ReadControlIsQuiet ==
  StartReadInLoop \/ StopReadInLoop => ("out" \in events_' => "out" \in events_)
  BY DEF StartReadInLoop, StopReadInLoop, SetEvents

\* sendInLoop(): a direct write happens only on an empty buffer, and what it
\* leaves is buffered.
LEMMA SendKeepsStream ==
  \A data \in Seq(Nat) : \A q :
    TypeInv /\ OutInv /\ SendInLoop(data, q) => OutInv'
<1> SUFFICES ASSUME NEW data \in Seq(Nat), NEW q,
                    TypeInv, OutInv, SendInLoop(data, q)
             PROVE  OutInv'
  OBVIOUS
<1>1. outputBuffer_ \in Seq(Nat) /\ accepted \in Seq(Nat) /\ wire \in Seq(Nat)
  BY DEF TypeInv, TypeOK
<1>2. CASE state_ = "kDisconnected"
  <2>1. UNCHANGED <<outputBuffer_, events_, index_, accepted, wire, fault>>
    BY <1>2, Zenon DEF SendInLoop
  <2> QED
    BY <2>1, QuietKeeps DEF Quiet
<1>3. CASE state_ # "kDisconnected" /\ (isWriting \/ outputBuffer_ # <<>>)
  <2>1. /\ accepted' = accepted \o data /\ wire' = wire /\ fault' = fault
        /\ outputBuffer_' = outputBuffer_ \o data
    BY <1>3, Zenon DEF SendInLoop, AppendOutput
  <2>2. outputBuffer_ # <<>>
    BY <1>3 DEF OutInv, WritingHasData
  <2>3. outputBuffer_' # <<>>
    BY <1>1, <2>1, <2>2, ConcatNonEmpty, Zenon
  <2>4. ~fault => accepted = wire \o outputBuffer_
    BY DEF OutInv, StreamInOrder
  <2>5. (wire \o outputBuffer_) \o data = wire \o (outputBuffer_ \o data)
    BY <1>1, ConcatAssoc, Zenon
  <2>6. ~fault' => accepted' = wire' \o outputBuffer_'
    BY <2>1, <2>4, <2>5, Zenon
  <2> QED
    BY <2>3, <2>6, Zenon DEF OutInv, StreamInOrder, WritingHasData
<1>4. CASE state_ # "kDisconnected" /\ ~isWriting /\ outputBuffer_ = <<>> /\ ~Writable
  <2>1. fault' = TRUE /\ UNCHANGED <<outputBuffer_, events_>>
    BY <1>4, Zenon DEF SendInLoop
  <2> QED
    BY <1>4, <2>1 DEF OutInv, StreamInOrder, WritingHasData, isWriting
<1>5. CASE state_ # "kDisconnected" /\ ~isWriting /\ outputBuffer_ = <<>> /\ Writable
  <2>1. PICK n \in 0 .. Len(data) :
          /\ wire' = wire \o SubSeq(data, 1, n)
          /\ IF n = Len(data)
             THEN /\ functors' = Append(q, Functor("writeComplete"))
                  /\ UNCHANGED <<outputBuffer_, events_, index_>>
             ELSE AppendOutput(SubSeq(data, n + 1, Len(data)), q)
    BY <1>5 DEF SendInLoop
  <2>2. accepted' = accepted \o data /\ fault' = fault
    BY <1>5 DEF SendInLoop
  <2> DEFINE rest == SubSeq(data, n + 1, Len(data))
  <2>3. /\ rest \in Seq(Nat)
        /\ (wire \o SubSeq(data, 1, n)) \o rest = wire \o data
        /\ n < Len(data) => rest # <<>>
        /\ n = Len(data) => rest = <<>>
    <3>1. Splits(wire, data, n)
      BY <1>1, WriteSplits
    <3> QED
      BY <3>1 DEF Splits
  <2> HIDE DEF rest
  <2>4. n = Len(data) \/ n < Len(data)
    OBVIOUS
  <2>5. outputBuffer_' = rest
    <3>1. CASE n = Len(data)
      BY <1>5, <2>1, <2>3, <3>1
    <3>2. CASE n # Len(data)
      <4>1. outputBuffer_' = outputBuffer_ \o rest
        BY <2>1, <3>2 DEF AppendOutput, rest
      <4>2. <<>> \o rest = rest
        BY <2>3
      <4> QED
        BY <1>5, <4>1, <4>2
    <3> QED
      BY <3>1, <3>2
  <2>6. "out" \in events_' => rest # <<>>
    <3>1. CASE n = Len(data)
      BY <1>5, <2>1, <3>1 DEF isWriting
    <3>2. CASE n # Len(data)
      BY <2>3, <2>4, <3>2
    <3> QED
      BY <3>1, <3>2
  <2>7. ~fault => accepted = wire
    <3>1. wire \o <<>> = wire
      BY <1>1
    <3> QED
      BY <1>5, <3>1 DEF OutInv, StreamInOrder
  <2>8. ~fault' => accepted' = wire' \o outputBuffer_'
    BY <2>1, <2>2, <2>3, <2>5, <2>7, Zenon
  <2> QED
    BY <2>5, <2>6, <2>8, Zenon DEF OutInv, StreamInOrder, WritingHasData, isWriting
<1> QED
  BY <1>2, <1>3, <1>4, <1>5

\* handleWrite(): what it writes leaves the front of the buffer, and writing is
\* disabled when nothing is left.
LEMMA WriteKeepsStream == TypeInv /\ OutInv /\ HandleWrite => OutInv'
<1> SUFFICES ASSUME TypeInv, OutInv, HandleWrite PROVE OutInv'
  OBVIOUS
<1>1. outputBuffer_ \in Seq(Nat) /\ wire \in Seq(Nat)
  BY DEF TypeInv, TypeOK
<1>2. accepted' = accepted /\ fault' = fault
  BY DEF HandleWrite
<1>3. CASE UNCHANGED <<outputBuffer_, events_, index_, functors, wire, shutWrite>>
  BY <1>2, <1>3, QuietKeeps DEF Quiet
<1>4. ASSUME NEW n \in 1 .. Len(outputBuffer_),
             wire' = wire \o SubSeq(outputBuffer_, 1, n),
             outputBuffer_' = SubSeq(outputBuffer_, n + 1, Len(outputBuffer_)),
             n = Len(outputBuffer_) => SetEvents(events_ \ {"out"})
      PROVE  OutInv'
  <2>1. n \in Nat /\ n <= Len(outputBuffer_)
    OBVIOUS
  <2>2. /\ wire' \o outputBuffer_' = wire \o outputBuffer_
        /\ n < Len(outputBuffer_) => outputBuffer_' # <<>>
    <3>1. Splits(wire, outputBuffer_, n)
      BY <1>1, WriteSplits
    <3> QED
      BY <1>4, <3>1, Zenon DEF Splits
  <2>3. n = Len(outputBuffer_) => "out" \notin events_'
    BY <1>4 DEF SetEvents
  <2>4. n = Len(outputBuffer_) \/ n < Len(outputBuffer_)
    BY <1>1, <2>1
  <2>5. isWriting' => outputBuffer_' # <<>>
    BY <2>2, <2>3, <2>4, Zenon DEF isWriting
  <2>6. ~fault' => accepted' = wire' \o outputBuffer_'
    BY <1>2, <2>2, Zenon DEF OutInv, StreamInOrder
  <2> QED
    BY <2>5, <2>6, Zenon DEF OutInv, StreamInOrder, WritingHasData
<1> QED
  BY <1>3, <1>4, Zenon DEF HandleWrite

\* The inductive step for the stream.
LEMMA OutNext == TypeInv /\ OutInv /\ [Next]_vars => OutInv'
<1> SUFFICES ASSUME TypeInv, OutInv, [Next]_vars PROVE OutInv'
  OBVIOUS
<1> USE DEF connVars, outVars
<1>1. CASE HandleWrite
  BY <1>1, WriteKeepsStream
<1>2. CASE RunSend
  <2>1. Head(functors).data \in Seq(Nat)
    BY <1>2, TakeFunctor DEF RunSend
  <2> QED
    BY <1>2, <2>1, SendKeepsStream DEF RunSend
<1>3. CASE LoopSend
  <2>1. PICK data \in NewData : SendInLoop(data, functors)
    BY <1>3 DEF LoopSend
  <2>2. data \in Seq(Nat)
    BY DataTypes
  <2> QED
    BY <2>1, <2>2, SendKeepsStream
<1>4. CASE Poll \/ HandleReadData \/ HandleReadError \/ DoPendingFunctors
           \/ FunctorsDone \/ RunCallback \/ RunAddTimer \/ CallbackReturns
  BY <1>4, QuietKeeps
  DEF Quiet, Poll, HandleReadData, HandleReadError, DoPendingFunctors,
      FunctorsDone, RunCallback, RunAddTimer, CallbackReturns
<1>5. CASE HandleHup \/ HandleReadEnd \/ RunForceClose
  BY <1>5, QuietKeeps, CloseIsQuiet DEF Quiet, HandleHup, HandleReadEnd, RunForceClose
<1>6. CASE TimerFires \/ ConnectEstablished \/ ConnectDestroyed \/ RunShutdown
  <2>1. ConnectDestroyed => ("out" \in events_' => "out" \in events_)
    BY DestroyIsQuiet, Zenon
  <2> QED
    BY <1>6, <2>1, QuietKeeps
    DEF Quiet, TimerFires, ConnectEstablished, ConnectDestroyed, RunShutdown, SetEvents
<1>7. CASE RunReadControl \/ LoopReadControl
  BY <1>7, QuietKeeps, ReadControlIsQuiet DEF Quiet, RunReadControl, LoopReadControl
<1>8. CASE LoopShutdown \/ LoopForceClose \/ LoopForceCloseWithDelay
  BY <1>8, QuietKeeps
  DEF Quiet, LoopShutdown, LoopForceClose, LoopForceCloseWithDelay
<1>9. CASE RemoveConnectionInLoop \/ DestroyServer \/ PeerStep
  BY <1>9, QuietKeeps
  DEF Quiet, RemoveConnectionInLoop, DestroyServer, PeerStep, PeerSend,
      PeerClose, PeerReset
<1>10. ASSUME NEW t \in Threads,
              ThreadStep(t) \/ \E op \in Calls : CheckState(t, op)
       PROVE  OutInv'
  BY <1>10, QuietKeeps DEF Quiet, ThreadStep, SetState, QueueCall, CheckState
<1>11. CASE UNCHANGED vars
  BY <1>11, QuietKeeps DEF Quiet, vars
<1> QED
  BY <1>1, <1>2, <1>3, <1>4, <1>5, <1>6, <1>7, <1>8, <1>9, <1>10, <1>11
  DEF Next, Running, LoopStep, LoopUser

LEMMA OutInvariant == Spec => []OutInv
<1>1. Init => OutInv
  BY DEF Init, OutInv, StreamInOrder, WritingHasData, isWriting
<1> QED
  BY <1>1, OutNext, TypeInvariant, PTL DEF Spec

\* Unless a write fails for good, the units sendInLoop() has taken are those
\* the socket got and then those in outputBuffer_: for any interleaving of
\* callbacks, threads, peer and server no partial write loses, repeats or
\* reorders a byte.
THEOREM StreamKeepsOrder == Spec => []StreamInOrder
<1>1. OutInv => StreamInOrder
  BY DEF OutInv
<1> QED
  BY <1>1, OutInvariant, PTL

\* The channel never asks to write with nothing to write: handleWrite() cannot
\* spin on an empty buffer.
THEOREM NeverWritesNothing == Spec => []WritingHasData
<1>1. OutInv => WritingHasData
  BY DEF OutInv
<1> QED
  BY <1>1, OutInvariant, PTL

-----------------------------------------------------------------------------
(* Writing and shutting down, when only the loop writes state_ *)

\* No thread calls shutdown(), forceClose() or forceCloseWithDelay(); they may
\* send, start and stop reading.  Otherwise a late write of state_ revives a
\* closed connection with output that nobody will write.
LoopOwnsState == \A op \in ThreadCalls : ~SetsState(op)

\* Until it is closed, a connection with output wants to write and has not shut
\* down its write side.
UpInv ==
  /\ \A t \in Threads : call[t].step # "set"
  /\ state_ # "kDisconnected" /\ outputBuffer_ # <<>> => isWriting
  /\ state_ # "kDisconnected" /\ shutWrite => outputBuffer_ = <<>>

\* A step that leaves the output alone, revives nothing and keeps writing
\* enabled on a connection it leaves up
Calm ==
  /\ UNCHANGED <<outputBuffer_, shutWrite>>
  /\ state_' # "kDisconnected" => state_ # "kDisconnected"
  /\ state_' # "kDisconnected" /\ "out" \in events_ => "out" \in events_'

LEMMA CalmKeeps == UpInv /\ Calm /\ UNCHANGED call => UpInv'
  BY DEF UpInv, Calm, isWriting

LEMMA CloseIsCalm ==
  HandleClose =>
    /\ state_' # "kDisconnected" => state_ # "kDisconnected"
    /\ state_' # "kDisconnected" /\ "out" \in events_ => "out" \in events_'
  BY DEF HandleClose

LEMMA ReadControlIsCalm ==
  StartReadInLoop \/ StopReadInLoop => ("out" \in events_ => "out" \in events_')
  BY DEF StartReadInLoop, StopReadInLoop, SetEvents

\* shutdownInLoop() shuts down only what wants no writing, hence an empty buffer.
LEMMA ShutdownKeepsUp ==
  /\ UpInv /\ ShutdownInLoop
  /\ state_' # "kDisconnected" => state_ # "kDisconnected"
  /\ UNCHANGED <<outputBuffer_, events_, call>>
  => UpInv'
  BY DEF UpInv, ShutdownInLoop, isWriting

\* sendInLoop() buffers only what it also enables writing for.
LEMMA SendKeepsUp ==
  \A data, q :
    OutInv /\ UpInv /\ SendInLoop(data, q) /\ UNCHANGED <<state_, shutWrite, call>>
    => UpInv'
<1> SUFFICES ASSUME NEW data, NEW q, OutInv, UpInv, SendInLoop(data, q),
                    UNCHANGED <<state_, shutWrite, call>>
             PROVE  UpInv'
  OBVIOUS
<1>1. CASE UNCHANGED <<outputBuffer_, events_>>
  BY <1>1 DEF UpInv, isWriting
<1>2. ASSUME NEW rest, AppendOutput(rest, q),
             state_ # "kDisconnected" => ~shutWrite
      PROVE  UpInv'
  <2>1. "out" \in events_'
    BY <1>2 DEF AppendOutput, SetEvents
  <2> QED
    BY <1>2, <2>1 DEF UpInv, isWriting
<1>3. CASE isWriting \/ outputBuffer_ # <<>>
  <2>1. state_ # "kDisconnected" => ~shutWrite
    BY <1>3 DEF UpInv, OutInv, WritingHasData
  <2> QED
    BY <1>1, <1>2, <1>3, <2>1 DEF SendInLoop
<1>4. CASE ~(isWriting \/ outputBuffer_ # <<>>)
  <2>1. \/ UNCHANGED <<outputBuffer_, events_>>
        \/ ~shutWrite /\ \E rest : AppendOutput(rest, q)
    BY <1>4, Zenon DEF SendInLoop, Writable
  <2> QED
    BY <1>1, <1>2, <2>1
<1> QED
  BY <1>3, <1>4

\* handleWrite() disables writing, and completes a shutdown, when it has
\* emptied the buffer.
LEMMA WriteKeepsUp == TypeInv /\ UpInv /\ HandleWrite => UpInv'
<1> SUFFICES ASSUME TypeInv, UpInv, HandleWrite PROVE UpInv'
  OBVIOUS
<1>1. outputBuffer_ \in Seq(Nat) /\ wire \in Seq(Nat)
  BY DEF TypeInv, TypeOK
<1>2. state_' = state_ /\ call' = call
  BY DEF HandleWrite, userVars
<1>3. CASE UNCHANGED <<outputBuffer_, events_, index_, functors, wire, shutWrite>>
  BY <1>2, <1>3, CalmKeeps DEF Calm
<1>4. ASSUME isWriting, Writable,
             NEW n \in 1 .. Len(outputBuffer_),
             outputBuffer_' = SubSeq(outputBuffer_, n + 1, Len(outputBuffer_)),
             n # Len(outputBuffer_) => UNCHANGED <<events_, shutWrite>>
      PROVE  UpInv'
  <2>1. CASE n = Len(outputBuffer_)
    <3>1. Splits(wire, outputBuffer_, n)
      BY <1>1, WriteSplits
    <3>2. outputBuffer_' = <<>>
      BY <1>4, <2>1, <3>1 DEF Splits
    <3> QED
      BY <1>2, <3>2 DEF UpInv
  <2>2. CASE n # Len(outputBuffer_)
    BY <1>2, <1>4, <2>2 DEF UpInv, isWriting, Writable
  <2> QED
    BY <2>1, <2>2
<1> QED
  BY <1>3, <1>4, Zenon DEF HandleWrite

\* The inductive step, when only the loop writes state_.
LEMMA UpNext ==
  LoopOwnsState /\ TypeInv /\ OutInv /\ UpInv /\ [Next]_vars => UpInv'
<1> SUFFICES ASSUME LoopOwnsState, TypeInv, OutInv, UpInv, [Next]_vars
             PROVE  UpInv'
  OBVIOUS
<1> USE DEF connVars, userVars, outVars
<1>1. CASE HandleWrite
  BY <1>1, WriteKeepsUp
<1>2. CASE RunSend
  BY <1>2, SendKeepsUp DEF RunSend, NextFunctor
<1>3. CASE LoopSend
  BY <1>3, SendKeepsUp DEF LoopSend, LoopCall
<1>4. CASE RunShutdown
  BY <1>4, ShutdownKeepsUp DEF RunShutdown, NextFunctor
<1>5. CASE LoopShutdown
  BY <1>5, ShutdownKeepsUp DEF LoopShutdown, LoopCall
<1>6. CASE Poll \/ HandleReadData \/ HandleReadError \/ DoPendingFunctors
           \/ FunctorsDone \/ RunCallback \/ RunAddTimer \/ CallbackReturns
  BY <1>6, CalmKeeps
  DEF Calm, Poll, HandleReadData, HandleReadError, DoPendingFunctors,
      FunctorsDone, RunCallback, RunAddTimer, CallbackReturns, NextFunctor
<1>7. CASE HandleHup \/ HandleReadEnd \/ RunForceClose
  BY <1>7, CalmKeeps, CloseIsCalm
  DEF Calm, HandleHup, HandleReadEnd, RunForceClose, NextFunctor
<1>8. CASE TimerFires \/ ConnectEstablished \/ ConnectDestroyed
  BY <1>8, CalmKeeps
  DEF Calm, TimerFires, ConnectEstablished, ConnectDestroyed, SetEvents, NextFunctor
<1>9. CASE RunReadControl \/ LoopReadControl
  BY <1>9, CalmKeeps, ReadControlIsCalm
  DEF Calm, RunReadControl, LoopReadControl, NextFunctor, LoopCall
<1>10. CASE LoopForceClose \/ LoopForceCloseWithDelay
  BY <1>10, CalmKeeps
  DEF Calm, LoopForceClose, LoopForceCloseWithDelay, LoopCall
<1>11. CASE RemoveConnectionInLoop \/ DestroyServer \/ PeerStep
  BY <1>11, CalmKeeps
  DEF Calm, RemoveConnectionInLoop, DestroyServer, PeerStep, PeerSend,
      PeerClose, PeerReset
<1>12. ASSUME NEW t \in Threads, NEW op \in Calls, CheckState(t, op)
       PROVE  UpInv'
  <2>1. \A u \in Threads : call'[u].step # "set"
    <3>1. ~SetsState(op)
      BY <1>12 DEF CheckState, LoopOwnsState
    <3>2. PICK data : call' = [call EXCEPT ![t] = [op |-> op, data |-> data,
                                                   step |-> "queue"]]
      BY <1>12, <3>1 DEF CheckState
    <3> QED
      BY <3>2 DEF UpInv, TypeInv, TypeOK
  <2> QED
    BY <1>12, <2>1 DEF UpInv, CheckState, isWriting
<1>13. ASSUME NEW t \in Threads, SetState(t) PROVE UpInv'
  BY <1>13 DEF UpInv, SetState
<1>14. ASSUME NEW t \in Threads, QueueCall(t) PROVE UpInv'
  <2>1. \A u \in Threads : call'[u].step # "set"
    BY <1>14 DEF QueueCall, Idle, UpInv, TypeInv, TypeOK
  <2> QED
    BY <1>14, <2>1 DEF UpInv, QueueCall, isWriting
<1>15. CASE UNCHANGED vars
  BY <1>15, CalmKeeps DEF Calm, vars
<1> QED
  BY <1>1, <1>2, <1>3, <1>4, <1>5, <1>6, <1>7, <1>8, <1>9, <1>10, <1>11,
     <1>12, <1>13, <1>14, <1>15
  DEF Next, Running, LoopStep, LoopUser, ThreadStep

LEMMA UpInvariant == ASSUME LoopOwnsState PROVE Spec => []UpInv
<1>1. Init => UpInv
  BY DEF Init, UpInv, Idle
<1>2. TypeInv /\ OutInv /\ UpInv /\ [Next]_vars => UpInv'
  BY UpNext
<1> QED
  BY <1>1, <1>2, TypeInvariant, OutInvariant, PTL DEF Spec

\* While only the loop writes state_, a connection that is up wants to write
\* exactly when outputBuffer_ is not empty.
THEOREM OutputIsWatched == ASSUME LoopOwnsState PROVE Spec => []WritingIffBuffered
<1>1. UpInv /\ OutInv => WritingIffBuffered
  BY DEF UpInv, OutInv, WritingHasData, WritingIffBuffered
<1> QED
  BY <1>1, UpInvariant, OutInvariant, PTL

\* While only the loop writes state_, shutdown() truncates no buffered output: the write
\* side of a connection that is up is shut down only with an empty buffer.
THEOREM ShutdownWaits == ASSUME LoopOwnsState PROVE Spec => []ShutdownDrains
<1>1. UpInv => ShutdownDrains
  BY DEF UpInv, ShutdownDrains
<1> QED
  BY <1>1, UpInvariant, PTL

-----------------------------------------------------------------------------
(* The assertions, when the loop alone ends a connection *)

\* Callbacks send, shut down and force-close, threads only send, and the server
\* outlives the connection.  Each of the other calls breaks an assertion: reading
\* started again on a closed connection, or stopped before it closes, leaves its
\* channel registered; a thread's late write of state_ revives it; a dying server
\* destroys one that is shutting down.
LoopEndsIt ==
  /\ LoopCalls \cap {"startRead", "stopRead"} = {}
  /\ ThreadCalls \subseteq {"send"}
  /\ ~ServerDies

\* How often a functor is queued
Never(q, op) == \A i \in 1 .. Len(q) : q[i].op # op
AtMostOnce(q, op) == \A i, j \in 1 .. Len(q) : q[i].op = op /\ q[j].op = op => i = j

\* A connection that waits for connectEstablished()
Fresh ==
  /\ functors = <<Functor("connectEstablished")>>
  /\ index_ = kNew /\ connections_ /\ removing = 0
  /\ pc \in {"poll", "event", "functors"}
  /\ \A t \in Threads : call[t] = Idle

\* One that is up: its channel is watched and nobody removes it.
Up ==
  /\ index_ = kAdded /\ "in" \in events_ /\ connections_ /\ removing = 0
  /\ Never(functors, "connectDestroyed")

\* One that is closed goes through removeConnectionInLoop() and connectDestroyed(),
\* once each and in that order.
Closed ==
  /\ events_ = {} /\ index_ # kAdded /\ removing \in {0, 1}
  /\ AtMostOnce(functors, "connectDestroyed")
  /\ removing = 1 => connections_ /\ Never(functors, "connectDestroyed")
  /\ removing = 1 \/ ~Never(functors, "connectDestroyed") => index_ = kDeleted

\* What is queued or under way is nothing but sends and the loop's own doing, and
\* only a connection that is up has events to handle.
Tame ==
  /\ \A t \in Threads : call[t].op \in {"none", "send"} /\ call[t].step # "set"
  /\ Never(functors, "startRead") /\ Never(functors, "stopRead")
  /\ state_ # "kConnecting" => Never(functors, "connectEstablished")
  /\ revents_ # {} => state_ \in {"kConnected", "kDisconnecting"}
  /\ pc \in {"poll", "functors", "callback"} => revents_ = {}

LifeInv ==
  /\ failed = "none"
  /\ Tame
  /\ state_ = "kConnecting" => Fresh
  /\ state_ \in {"kConnected", "kDisconnecting"} => Up
  /\ state_ = "kDisconnected" => Closed

\* The queue loses its first functor.
LEMMA TailOp ==
  ASSUME NEW q \in Seq(Functors), q # <<>>, NEW op
  PROVE  /\ Never(q, op) => Never(Tail(q), op)
         /\ AtMostOnce(q, op) => AtMostOnce(Tail(q), op)
         /\ AtMostOnce(q, op) /\ Head(q).op = op => Never(Tail(q), op)
<1>1. Len(q) \in Nat \ {0} /\ Len(Tail(q)) = Len(q) - 1 /\ Head(q) = q[1]
  OBVIOUS
<1>2. \A i \in 1 .. Len(Tail(q)) : Tail(q)[i] = q[i + 1]
  OBVIOUS
<1>3. \A i \in 1 .. Len(Tail(q)) : i + 1 \in 1 .. Len(q) /\ i + 1 # 1 /\ i \in Nat
  BY <1>1
<1> DEFINE n == Len(Tail(q))
           r(i) == Tail(q)[i]
<1>4. ASSUME Never(q, op) PROVE Never(Tail(q), op)
  BY <1>2, <1>3, <1>4 DEF Never
<1>5. ASSUME AtMostOnce(q, op), NEW i \in 1 .. Len(Tail(q)), NEW j \in 1 .. Len(Tail(q)),
             Tail(q)[i].op = op, Tail(q)[j].op = op
      PROVE  i = j
  <2>1. q[i + 1].op = op /\ q[j + 1].op = op
    BY <1>2, <1>5, Zenon
  <2>2. i + 1 = j + 1
    BY <1>3, <1>5, <2>1, Zenon DEF AtMostOnce
  <2> QED
    BY <1>3, <2>2
<1>6. ASSUME AtMostOnce(q, op), Head(q).op = op PROVE Never(Tail(q), op)
  <2>1. 1 \in 1 .. Len(q) /\ q[1].op = op
    BY <1>1, <1>6
  <2> SUFFICES ASSUME NEW i \in 1 .. Len(Tail(q)), Tail(q)[i].op = op PROVE FALSE
    BY Zenon DEF Never
  <2>2. q[i + 1].op = op
    BY <1>2, Zenon
  <2> QED
    BY <1>3, <1>6, <2>1, <2>2, Zenon DEF AtMostOnce
<1>7. AtMostOnce(q, op) => AtMostOnce(Tail(q), op)
  BY <1>5, Zenon DEF AtMostOnce
<1> QED
  BY <1>4, <1>6, <1>7

\* The queue gets another functor.
LEMMA AppendOp ==
  ASSUME NEW q \in Seq(Functors), NEW f \in Functors, NEW op
  PROVE  /\ Never(q, op) => AtMostOnce(Append(q, f), op)
         /\ f.op # op => /\ Never(q, op) => Never(Append(q, f), op)
                         /\ AtMostOnce(q, op) => AtMostOnce(Append(q, f), op)
<1> DEFINE r == Append(q, f)
<1>1. Len(q) \in Nat /\ Len(r) = Len(q) + 1 /\ r[Len(q) + 1] = f
  OBVIOUS
<1>2. \A i \in 1 .. Len(q) : r[i] = q[i]
  OBVIOUS
<1>3. \A i \in 1 .. Len(r) : i \in 1 .. Len(q) \/ i = Len(q) + 1
  BY <1>1
<1> HIDE DEF r
<1>4. ASSUME Never(q, op) PROVE AtMostOnce(r, op)
  <2>1. \A i \in 1 .. Len(r) : r[i].op = op => i = Len(q) + 1
    BY <1>2, <1>3, <1>4, Zenon DEF Never
  <2> QED
    BY <2>1, Zenon DEF AtMostOnce
<1>5. ASSUME f.op # op PROVE \A i \in 1 .. Len(r) : r[i].op = op =>
                               i \in 1 .. Len(q) /\ q[i].op = op
  BY <1>1, <1>2, <1>3, <1>5, Zenon
<1>6. ASSUME f.op # op, Never(q, op) PROVE Never(r, op)
  BY <1>5, <1>6, Zenon DEF Never
<1>7. ASSUME f.op # op, AtMostOnce(q, op) PROVE AtMostOnce(r, op)
  BY <1>5, <1>7, Zenon DEF AtMostOnce
<1> QED
  BY <1>4, <1>6, <1>7 DEF r

\* Functors whose number matters
Rare == {"startRead", "stopRead", "connectEstablished", "connectDestroyed"}

\* From the queue q to the queue r no functor of Rare is added.
Adds(q, r) ==
  \A op \in Rare : /\ Never(q, op) => Never(r, op)
                   /\ AtMostOnce(q, op) => AtMostOnce(r, op)

LEMMA AddsPlain ==
  ASSUME NEW q \in Seq(Functors), NEW f \in Functors, f.op \notin Rare
  PROVE  Adds(q, Append(q, f))
  BY AppendOp, Zenon DEF Adds

LEMMA AddsTail ==
  ASSUME NEW q \in Seq(Functors), q # <<>>
  PROVE  Adds(q, Tail(q))
  BY TailOp, Zenon DEF Adds

LEMMA AddsTrans ==
  ASSUME NEW q, NEW r, NEW s, Adds(q, r), Adds(r, s)
  PROVE  Adds(q, s)
  BY DEF Adds

LEMMA AddsSame == ASSUME NEW q PROVE Adds(q, q)
  BY DEF Adds

LEMMA PlainFunctor ==
  ASSUME NEW op \in {"send", "forceClose", "writeComplete", "highWaterMark"}
  PROVE  Functor(op) \in Functors /\ Functor(op).op \notin Rare
<1>1. op \in Calls \cup {"writeComplete", "highWaterMark"}
  BY DEF Calls
<1> QED
  BY <1>1, QueueFunctor DEF Functor, Rare

\* sendInLoop() queues callbacks only, and keeps reading enabled.
LEMMA SendAdds ==
  ASSUME TypeInv, NEW data \in Seq(Nat), NEW q \in Seq(Functors), SendInLoop(data, q)
  PROVE  /\ Adds(q, functors')
         /\ \/ UNCHANGED <<events_, index_>>
            \/ /\ state_ # "kDisconnected"
               /\ events_' = events_ \cup {"out"}
               /\ index_' = Updated(index_, events_')
<1>1. ASSUME NEW rest, AppendOutput(rest, q) PROVE Adds(q, functors')
  <2>1. functors' = q \o NotifyHighWater(Len(outputBuffer_), Len(rest))
    BY <1>1 DEF AppendOutput
  <2>2. q \o <<>> = q /\ q \o <<Functor("highWaterMark")>> = Append(q, Functor("highWaterMark"))
    OBVIOUS
  <2>3. functors' = q \/ functors' = Append(q, Functor("highWaterMark"))
    BY <2>1, <2>2, Zenon DEF NotifyHighWater
  <2> QED
    BY <2>3, AddsSame, AddsPlain, PlainFunctor
<1>2. \/ functors' = q /\ UNCHANGED <<events_, index_>>
      \/ functors' = Append(q, Functor("writeComplete")) /\ UNCHANGED <<events_, index_>>
      \/ state_ # "kDisconnected" /\ \E rest : AppendOutput(rest, q)
  BY Zenon DEF SendInLoop
<1>3. Adds(q, functors')
  BY <1>1, <1>2, AddsSame, AddsPlain, PlainFunctor
<1> QED
  BY <1>2, <1>3 DEF AppendOutput, SetEvents

\* Nothing but connectEstablished() happens to a connection that waits for it.
LEMMA FreshNext ==
  ASSUME LoopEndsIt, TypeInv, LifeInv, state_ = "kConnecting", Next
  PROVE  LifeInv'
<1>1. /\ Fresh /\ failed = "none" /\ revents_ = {} /\ Head(functors).op = "connectEstablished"
      /\ functors = <<Functor("connectEstablished")>>
  BY DEF LifeInv, Fresh, Tame, Functor
<1>2. Never(functors, "startRead") /\ Never(functors, "stopRead")
  BY DEF LifeInv, Tame
<1>3. ASSUME UNCHANGED <<state_, index_, functors, connections_, removing, call, failed>>,
             revents_' = {}, pc' \in {"poll", "event", "functors"}
      PROVE  LifeInv'
  BY <1>1, <1>2, <1>3 DEF LifeInv, Fresh, Tame, Idle
<1>4. CASE Poll
  <2>1. revents_' = {}
    BY <1>1, <1>4 DEF Poll, Reportable, Fresh, kNew, kAdded
  <2> QED
    BY <1>3, <1>4, <2>1 DEF Poll, connVars, userVars, serverVars
<1>5. CASE TimerFires \/ DoPendingFunctors \/ FunctorsDone
  <2>1. UNCHANGED <<state_, index_, functors, connections_, removing, call, failed>>
    BY <1>5 DEF TimerFires, DoPendingFunctors, FunctorsDone, connVars, userVars, serverVars
  <2>2. revents_' = {} /\ pc' \in {"poll", "event", "functors"}
    BY <1>1, <1>5 DEF TimerFires, DoPendingFunctors, FunctorsDone, Fresh
  <2> QED
    BY <1>3, <2>1, <2>2
<1>6. CASE ConnectEstablished
  <2>1. functors' = <<>>
    BY <1>1, <1>6 DEF ConnectEstablished
  <2>2. \A op : Never(functors', op)
    BY <2>1 DEF Never
  <2>3. /\ state_' = "kConnected" /\ failed' = "none" /\ "in" \in events_' /\ index_' = kAdded
        /\ pc' = "callback"
    BY <1>1, <1>6 DEF ConnectEstablished, SetEvents, Updated
  <2>4. /\ revents_' = {} /\ call' = call /\ connections_' = connections_
        /\ removing' = removing
    BY <1>1, <1>6 DEF ConnectEstablished, NextFunctor, userVars
  <2> QED
    BY <1>1, <2>2, <2>3, <2>4 DEF LifeInv, Fresh, Tame, Up, Idle
<1>7. CASE PeerStep
  <2>1. UNCHANGED <<state_, index_, functors, connections_, removing, call, failed,
                    revents_, pc>>
    BY <1>7 DEF PeerStep, PeerSend, PeerClose, PeerReset, connVars, loopVars,
                userVars, serverVars
  <2> QED
    BY <1>1, <1>3, <2>1 DEF Fresh
<1>8. ~(HandleHup \/ HandleReadData \/ HandleReadError \/ HandleReadEnd \/ HandleWrite)
  BY <1>1 DEF HandleHup, HandleReadData, HandleReadError, HandleReadEnd, HandleWrite
<1>9. ~(ConnectDestroyed \/ RunSend \/ RunShutdown \/ RunForceClose \/ RunReadControl
        \/ RunCallback \/ RunAddTimer)
  BY <1>1 DEF ConnectDestroyed, RunSend, RunShutdown, RunForceClose, RunReadControl,
              RunCallback, RunAddTimer, NextFunctor
<1>10. ~(CallbackReturns \/ LoopUser)
  BY <1>1 DEF Fresh, CallbackReturns, LoopUser, LoopSend, LoopShutdown, LoopForceClose,
              LoopForceCloseWithDelay, LoopReadControl, LoopCall
<1>11. ~(RemoveConnectionInLoop \/ DestroyServer)
  BY <1>1 DEF RemoveConnectionInLoop, DestroyServer, Fresh, LoopEndsIt
<1>12. ASSUME NEW t \in Threads, NEW op \in Calls
       PROVE  ~ThreadStep(t) /\ ~CheckState(t, op)
  <2>1. call[t].step = "out"
    BY <1>1 DEF Fresh, Idle
  <2>2. op \in ThreadCalls => op = "send"
    BY DEF LoopEndsIt
  <2> QED
    BY <2>1, <2>2 DEF ThreadStep, SetState, QueueCall, CheckState, Allowed
<1> QED
  BY <1>4, <1>5, <1>6, <1>7, <1>8, <1>9, <1>10, <1>11, <1>12
  DEF Next, Running, LoopStep, Calls

\* A step that leaves the life of a connection alone: it may queue plain functors,
\* and change what an open channel wants, short of reading.
Ordinary ==
  /\ Adds(functors, functors')
  /\ UNCHANGED <<connections_, removing, failed>>
  /\ \/ state_' = state_
     \/ state_ = "kConnected" /\ state_' = "kDisconnecting"
  /\ \/ UNCHANGED <<events_, index_>>
     \/ /\ state_ # "kDisconnected" /\ index_' = Updated(index_, events_')
        /\ events_ \ {"out"} \subseteq events_'

LEMMA OrdinaryKeeps ==
  ASSUME LifeInv, state_ # "kConnecting", Ordinary,
         revents_' # {} => state_' \in {"kConnected", "kDisconnecting"},
         pc' \in {"poll", "functors", "callback"} => revents_' = {},
         \A t \in Threads : call'[t].op \in {"none", "send"} /\ call'[t].step # "set"
  PROVE  LifeInv'
<1>1. /\ failed' = "none" /\ state_' # "kConnecting"
      /\ state_' = "kDisconnected" <=> state_ = "kDisconnected"
  BY DEF LifeInv, Ordinary
<1>2. \A op \in Rare : /\ Never(functors, op) => Never(functors', op)
                       /\ AtMostOnce(functors, op) => AtMostOnce(functors', op)
  BY DEF Ordinary, Adds
<1>3. Tame'
  BY <1>1, <1>2 DEF LifeInv, Tame, Rare
<1>4. CASE state_ = "kDisconnected"
  <2>1. Closed /\ UNCHANGED <<events_, index_, connections_, removing>>
    BY <1>4 DEF LifeInv, Ordinary
  <2>2. "connectDestroyed" \in Rare
    BY DEF Rare
  <2>3. Closed'
    BY <1>2, <2>1, <2>2, Zenon DEF Closed
  <2> QED
    BY <1>1, <1>3, <1>4, <2>3 DEF LifeInv
<1>5. CASE state_ \in {"kConnected", "kDisconnecting"}
  <2>1. Up /\ UNCHANGED <<connections_, removing>>
    BY <1>5 DEF LifeInv, Ordinary
  <2>2. "in" \in events_' /\ index_' = kAdded
    BY <1>5, <2>1 DEF Ordinary, Up, Updated
  <2>3. Up'
    BY <1>2, <2>1, <2>2 DEF Up, Rare
  <2> QED
    BY <1>1, <1>3, <1>5, <2>3 DEF LifeInv, Ordinary
<1>6. state_ \notin {"kDisconnected", "kConnected", "kDisconnecting"} => LifeInv'
  BY <1>1, <1>3 DEF LifeInv, Ordinary
<1> QED
  BY <1>4, <1>5, <1>6

\* handleClose() on a connection that is up hands it to the server's loop.
LEMMA CloseKeeps ==
  ASSUME LoopEndsIt, LifeInv, HandleClose, state_ \in {"kConnected", "kDisconnecting"},
         Adds(functors, functors'), UNCHANGED <<connections_, call>>, revents_' = {}
  PROVE  LifeInv'
<1>1. Up /\ Tame /\ failed = "none"
  BY DEF LifeInv
<1>2. /\ state_' = "kDisconnected" /\ events_' = {} /\ index_' = kDeleted
      /\ removing' = 1 /\ failed' = "none"
  <2>1. PICK c \in Lowered : events_' = c.events /\ index_' = c.index
    BY DEF HandleClose
  <2>2. c = [events |-> {}, index |-> kDeleted, reading |-> reading_]
    BY <1>1 DEF Lowered, LoopEndsIt, Updated, Up
  <2> QED
    BY <1>1, <2>1, <2>2 DEF HandleClose, Up
<1>3. \A op \in Rare : Never(functors, op) => Never(functors', op)
  BY DEF Adds
<1>4. Never(functors', "connectDestroyed") /\ connections_'
  BY <1>1, <1>3 DEF Up, Rare
<1>5. AtMostOnce(functors', "connectDestroyed")
  BY <1>4 DEF Never, AtMostOnce
<1>6. Closed'
  BY <1>2, <1>4, <1>5 DEF Closed, kAdded, kDeleted
<1>7. Tame'
  BY <1>1, <1>2, <1>3 DEF Tame, Rare
<1> QED
  BY <1>2, <1>6, <1>7 DEF LifeInv

\* removeConnectionInLoop() finds the connection in the map and queues the one
\* connectDestroyed() it gets.
LEMMA RemoveKeeps ==
  ASSUME LoopEndsIt, TypeInv, LifeInv, server, state_ # "kConnecting",
         RemoveConnectionInLoop
  PROVE  LifeInv'
<1>1. removing > 0 /\ functors \in Seq(Functors)
  BY DEF RemoveConnectionInLoop, TypeInv, TypeOK
<1>2. state_ = "kDisconnected" /\ Closed /\ Tame /\ failed = "none"
  BY <1>1 DEF LifeInv, Up, TypeInv, TypeOK
<1>3. removing = 1 /\ connections_ /\ Never(functors, "connectDestroyed")
  BY <1>1, <1>2 DEF Closed
<1> DEFINE f == Functor("connectDestroyed")
<1>4. /\ functors' = Append(functors, f) /\ removing' = 0 /\ failed' = "none"
      /\ ~connections_'
      /\ UNCHANGED <<state_, events_, index_, revents_, pc, call>>
  BY <1>2, <1>3 DEF RemoveConnectionInLoop, connVars, loopVars, userVars
<1>5. f \in Functors /\ f.op = "connectDestroyed"
  BY QueueFunctor DEF Functor
<1> HIDE DEF f
<1>6. /\ AtMostOnce(functors', "connectDestroyed")
      /\ \A op \in Rare \ {"connectDestroyed"} : Never(functors, op) => Never(functors', op)
  BY <1>1, <1>3, <1>4, <1>5, AppendOp
<1>7. Closed'
  BY <1>2, <1>3, <1>4, <1>6 DEF Closed
<1>8. Tame'
  BY <1>2, <1>4, <1>6 DEF Tame, Rare
<1> QED
  BY <1>2, <1>4, <1>7, <1>8 DEF LifeInv

\* connectDestroyed() finds a channel that wants nothing and is registered.
LEMMA DestroyKeeps ==
  ASSUME TypeInv, LifeInv, state_ # "kConnecting", ConnectDestroyed
  PROVE  LifeInv'
<1>1. /\ functors \in Seq(Functors) /\ functors # <<>>
      /\ Head(functors).op = "connectDestroyed" /\ functors' = Tail(functors)
      /\ pc = "functors" /\ UNCHANGED <<revents_, call, connections_, removing, pc>>
  BY DEF TypeInv, TypeOK, ConnectDestroyed, NextFunctor, userVars
<1>2. ~Never(functors, "connectDestroyed")
  <2>1. Len(functors) > 0 /\ Head(functors) = functors[1]
    BY <1>1
  <2> QED
    BY <1>1, <2>1 DEF Never
<1>3. state_ = "kDisconnected" /\ Closed /\ Tame /\ failed = "none"
  BY <1>2 DEF LifeInv, Up, TypeInv, TypeOK
<1>4. removing = 0 /\ index_ = kDeleted /\ events_ = {}
  BY <1>2, <1>3 DEF Closed
<1>5. UNCHANGED <<state_, events_, failed>> /\ index_' = kNew
  BY <1>3, <1>4 DEF ConnectDestroyed, Removable, kNew, kDeleted
<1>6. /\ Never(functors', "connectDestroyed")
      /\ Adds(functors, functors')
  BY <1>1, <1>3, TailOp, AddsTail DEF Closed
<1>7. AtMostOnce(functors', "connectDestroyed")
  BY <1>6 DEF Never, AtMostOnce
<1>8. Closed'
  BY <1>1, <1>3, <1>4, <1>5, <1>6, <1>7 DEF Closed, kNew, kAdded
<1>9. Tame'
  BY <1>1, <1>3, <1>5, <1>6 DEF Tame, Adds, Rare
<1> QED
  BY <1>3, <1>5, <1>8, <1>9 DEF LifeInv

\* What a functor that is taken from the queue leaves of it
LEMMA TakeAdds ==
  ASSUME TypeInv, NEW op, NextFunctor(op)
  PROVE  /\ functors \in Seq(Functors) /\ functors # <<>>
         /\ Adds(functors, Tail(functors)) /\ ~Never(functors, op)
         /\ pc = "functors" /\ UNCHANGED <<revents_, call, connections_>>
<1>1. functors \in Seq(Functors) /\ functors # <<>> /\ Head(functors).op = op
  BY DEF TypeInv, TypeOK, NextFunctor
<1>2. 1 \in 1 .. Len(functors) /\ Head(functors) = functors[1]
  BY <1>1
<1> QED
  BY <1>1, <1>2, AddsTail DEF Never, NextFunctor, userVars

\* The inductive step for connections that have been established.
LEMMA LifeNext ==
  ASSUME LoopEndsIt, TypeInv, LifeInv, server, state_ # "kConnecting", Next
  PROVE  LifeInv'
<1>1. /\ Tame /\ failed = "none" /\ functors \in Seq(Functors)
      /\ state_ \in {"kConnected", "kDisconnecting", "kDisconnected"}
      /\ Adds(functors, functors)
  BY AddsSame DEF LifeInv, TypeInv, TypeOK
<1>2. ASSUME Ordinary, UNCHANGED call, revents_' = revents_ \/ revents_' = {},
             pc' \in {"poll", "functors", "callback"} => revents_' = {}
      PROVE  LifeInv'
  <2>1. revents_' # {} => state_' \in {"kConnected", "kDisconnecting"}
    BY <1>1, <1>2 DEF Tame, Ordinary
  <2> QED
    BY <1>1, <1>2, <2>1, OrdinaryKeeps DEF Tame
<1>3. CASE Poll
  <2>1. Ordinary /\ UNCHANGED <<call, state_>> /\ pc' = "event"
    BY <1>1, <1>3 DEF Poll, Ordinary, connVars, userVars, serverVars
  <2>2. revents_' # {} => index_ = kAdded
    BY <1>3 DEF Poll, Reportable
  <2>3. revents_' # {} => state_' \in {"kConnected", "kDisconnecting"}
    BY <1>1, <2>1, <2>2 DEF LifeInv, Closed
  <2> QED
    BY <1>1, <2>1, <2>3, OrdinaryKeeps DEF Tame
<1>4. CASE HandleHup \/ HandleReadEnd
  <2>1. state_ \in {"kConnected", "kDisconnecting"}
    BY <1>1, <1>4 DEF HandleHup, HandleReadEnd, Tame
  <2> QED
    BY <1>1, <1>4, <2>1, CloseKeeps DEF HandleHup, HandleReadEnd, userVars
<1>5. CASE HandleReadData \/ HandleReadError
  <2>1. /\ Ordinary /\ UNCHANGED <<call, state_>>
        /\ revents_ # {} /\ pc' \in {"message", "write", "event"}
    BY <1>1, <1>5 DEF HandleReadData, HandleReadError, Ordinary, connVars, userVars,
                      serverVars, AfterRead
  <2>2. state_' \in {"kConnected", "kDisconnecting"}
    BY <1>1, <2>1 DEF Tame
  <2> QED
    BY <1>1, <2>1, <2>2, OrdinaryKeeps DEF Tame
<1>6. CASE HandleWrite
  <2>1. functors' \in {functors, Append(functors, Functor("writeComplete"))}
    BY <1>6, Zenon DEF HandleWrite
  <2>2. Adds(functors, functors')
    BY <1>1, <2>1, AddsPlain, PlainFunctor
  <2>3. \/ UNCHANGED <<events_, index_>>
        \/ isWriting /\ SetEvents(events_ \ {"out"})
    BY <1>6, Zenon DEF HandleWrite
  <2>4. isWriting => state_ # "kDisconnected"
    BY DEF LifeInv, Closed, isWriting
  <2>5. /\ UNCHANGED <<connections_, removing, failed, state_, call>>
        /\ revents_' = {}
    BY <1>6 DEF HandleWrite, serverVars, userVars
  <2>6. Ordinary
    BY <2>2, <2>3, <2>4, <2>5 DEF Ordinary, SetEvents
  <2> QED
    BY <1>2, <2>5, <2>6
<1>7. CASE TimerFires
  <2>1. /\ functors' \in {functors, Append(functors, Functor("forceClose"))}
        /\ \/ state_' = state_
           \/ state_ \in {"kConnected", "kDisconnecting"} /\ state_' = "kDisconnecting"
    BY <1>7 DEF TimerFires
  <2>2. Adds(functors, functors')
    BY <1>1, <2>1, AddsPlain, PlainFunctor
  <2>3. /\ UNCHANGED <<connections_, removing, failed, events_, index_, call, revents_>>
        /\ pc' = "event"
    BY <1>7 DEF TimerFires, serverVars, userVars
  <2>4. Ordinary
    BY <2>1, <2>2, <2>3 DEF Ordinary
  <2> QED
    BY <1>2, <2>3, <2>4
<1>8. CASE DoPendingFunctors \/ FunctorsDone \/ CallbackReturns
  <2>1. Ordinary /\ UNCHANGED <<call, revents_>>
    BY <1>1, <1>8 DEF DoPendingFunctors, FunctorsDone, CallbackReturns, Ordinary,
                      connVars, userVars, serverVars
  <2>2. pc' \in {"poll", "functors", "callback"} => revents_' = {}
    BY <1>1, <1>8 DEF DoPendingFunctors, FunctorsDone, CallbackReturns, Tame, AfterRead
  <2> QED
    BY <1>2, <2>1, <2>2
<1>9. CASE ConnectEstablished \/ RunReadControl
  BY <1>1, <1>9, TakeAdds DEF ConnectEstablished, RunReadControl, Tame
<1>10. CASE ConnectDestroyed
  BY <1>10, DestroyKeeps
<1>11. CASE RunSend
  <2>1. /\ NextFunctor("send") /\ SendInLoop(Head(functors).data, Tail(functors))
        /\ UNCHANGED <<state_, pc, removing, failed>>
    BY <1>11 DEF RunSend
  <2>2. /\ Head(functors).data \in Seq(Nat) /\ Tail(functors) \in Seq(Functors)
        /\ Adds(functors, Tail(functors))
        /\ pc = "functors" /\ UNCHANGED <<revents_, call, connections_>>
    BY <2>1, TakeFunctor, TakeAdds
  <2>3. /\ Adds(functors, functors')
        /\ \/ UNCHANGED <<events_, index_>>
           \/ /\ state_ # "kDisconnected"
              /\ events_' = events_ \cup {"out"}
              /\ index_' = Updated(index_, events_')
    BY <2>1, <2>2, SendAdds, AddsTrans
  <2>4. Ordinary
    BY <2>1, <2>2, <2>3 DEF Ordinary
  <2> QED
    BY <1>1, <1>2, <2>1, <2>2, <2>4 DEF Tame
<1>12. CASE RunShutdown \/ RunCallback \/ RunAddTimer
  <2>1. /\ functors' = Tail(functors) /\ UNCHANGED <<state_, events_, index_, removing, failed>>
        /\ \E op : NextFunctor(op)
    BY <1>12 DEF RunShutdown, RunCallback, RunAddTimer, connVars
  <2>2. /\ Adds(functors, functors') /\ UNCHANGED <<revents_, call, connections_>>
        /\ pc = "functors"
    BY <2>1, TakeAdds
  <2>3. Ordinary
    BY <2>1, <2>2 DEF Ordinary
  <2> QED
    BY <1>1, <1>2, <2>2, <2>3 DEF Tame
<1>13. CASE RunForceClose
  <2>1. /\ Adds(functors, functors') /\ UNCHANGED <<revents_, call, connections_>>
        /\ pc = "functors" /\ revents_ = {}
    BY <1>1, <1>13, TakeAdds DEF RunForceClose, Tame
  <2>2. CASE state_ \in {"kConnected", "kDisconnecting"}
    BY <1>13, <2>1, <2>2, CloseKeeps DEF RunForceClose
  <2>3. CASE state_ \notin {"kConnected", "kDisconnecting"}
    <3>1. Ordinary
      BY <1>13, <2>1, <2>3 DEF RunForceClose, Ordinary
    <3> QED
      BY <1>2, <2>1, <3>1
  <2> QED
    BY <2>2, <2>3
<1>14. CASE LoopSend
  <2>1. /\ \E data \in NewData : SendInLoop(data, functors)
        /\ UNCHANGED <<state_, pc, removing, failed, revents_, call, connections_>>
    BY <1>14 DEF LoopSend, LoopCall, serverVars
  <2>2. PICK data \in NewData : SendInLoop(data, functors)
    BY <2>1
  <2>3. data \in Seq(Nat)
    BY DataTypes
  <2>4. /\ Adds(functors, functors')
        /\ \/ UNCHANGED <<events_, index_>>
           \/ /\ state_ # "kDisconnected"
              /\ events_' = events_ \cup {"out"}
              /\ index_' = Updated(index_, events_')
    BY <1>1, <2>2, <2>3, SendAdds
  <2>5. Ordinary
    BY <2>1, <2>4 DEF Ordinary
  <2> QED
    BY <1>1, <1>2, <2>1, <2>5 DEF Tame
<1>15. CASE LoopShutdown \/ LoopForceClose \/ LoopForceCloseWithDelay
  <2>1. /\ functors' \in {functors, Append(functors, Functor("forceClose"))}
        /\ state_ \in {"kConnected", "kDisconnecting"} /\ state_' = "kDisconnecting"
        /\ UNCHANGED <<pc, removing, failed, revents_, call, connections_, events_, index_>>
    BY <1>15 DEF LoopShutdown, LoopForceClose, LoopForceCloseWithDelay, LoopCall, serverVars
  <2>2. Adds(functors, functors')
    BY <1>1, <2>1, AddsPlain, PlainFunctor
  <2>3. Ordinary
    BY <2>1, <2>2 DEF Ordinary
  <2> QED
    BY <1>1, <1>2, <2>1, <2>3 DEF Tame
<1>16. ~LoopReadControl /\ ~DestroyServer
  BY DEF LoopReadControl, LoopCall, DestroyServer, LoopEndsIt
<1>17. CASE RemoveConnectionInLoop
  BY <1>17, RemoveKeeps
<1>18. CASE PeerStep
  <2>1. Ordinary /\ UNCHANGED <<call, revents_, pc>>
    BY <1>1, <1>18 DEF PeerStep, PeerSend, PeerClose, PeerReset, Ordinary, connVars,
                       loopVars, userVars, serverVars
  <2> QED
    BY <1>1, <1>2, <2>1 DEF Tame
<1>19. ASSUME NEW t \in Threads, NEW op \in Calls, CheckState(t, op) PROVE LifeInv'
  <2>1. op = "send"
    BY <1>19 DEF CheckState, LoopEndsIt
  <2>2. PICK data : call' = [call EXCEPT ![t] = [op |-> op, data |-> data,
                                                 step |-> "queue"]]
    BY <1>19, <2>1 DEF CheckState, SetsState
  <2>3. \A u \in Threads : call'[u].op \in {"none", "send"} /\ call'[u].step # "set"
    BY <1>1, <2>1, <2>2 DEF Tame, TypeInv, TypeOK
  <2>4. Ordinary /\ UNCHANGED <<revents_, pc, state_>>
    BY <1>1, <1>19 DEF CheckState, Ordinary, connVars, loopVars, serverVars
  <2> QED
    BY <1>1, <2>3, <2>4, OrdinaryKeeps DEF Tame
<1>20. ASSUME NEW t \in Threads, ThreadStep(t) PROVE LifeInv'
  <2>1. call[t].op \in {"none", "send"} /\ QueueCall(t)
    BY <1>1, <1>20 DEF Tame, ThreadStep, SetState
  <2>2. /\ functors' = Append(functors, [op |-> call[t].op, data |-> call[t].data])
        /\ call' = [call EXCEPT ![t] = Idle]
        /\ UNCHANGED <<state_, events_, index_, revents_, pc, connections_, removing, failed>>
    BY <2>1 DEF QueueCall, connVars, loopVars, serverVars
  <2>3. /\ [op |-> call[t].op, data |-> call[t].data] \in Functors
        /\ call[t].op \notin Rare
    BY <2>1 DEF QueueCall, TypeInv, TypeOK, Functors, Rare
  <2>4. Adds(functors, functors')
    BY <1>1, <2>2, <2>3, AddsPlain
  <2>5. Ordinary
    BY <2>2, <2>4 DEF Ordinary
  <2>6. \A u \in Threads : call'[u].op \in {"none", "send"} /\ call'[u].step # "set"
    BY <1>1, <2>2 DEF Tame, TypeInv, TypeOK, Idle
  <2> QED
    BY <1>1, <2>2, <2>5, <2>6, OrdinaryKeeps DEF Tame
<1> QED
  BY <1>3, <1>4, <1>5, <1>6, <1>7, <1>8, <1>9, <1>10, <1>11, <1>12, <1>13, <1>14,
     <1>15, <1>16, <1>17, <1>18, <1>19, <1>20
  DEF Next, Running, LoopStep, LoopUser

LEMMA LifeInvariant == ASSUME LoopEndsIt PROVE Spec => [](LifeInv /\ server)
<1>1. Init => LifeInv /\ server
  <2> SUFFICES ASSUME Init PROVE LifeInv /\ server
    OBVIOUS
  <2> USE DEF Init
  <2>1. Len(functors) = 1 /\ functors[1].op = "connectEstablished"
    BY DEF Functor
  <2>2. Never(functors, "startRead") /\ Never(functors, "stopRead")
    BY <2>1 DEF Never
  <2> QED
    BY <2>2 DEF LifeInv, Tame, Fresh, Idle
<1>2. TypeInv /\ LifeInv /\ server /\ [Next]_vars => (LifeInv /\ server)'
  <2> SUFFICES ASSUME TypeInv, LifeInv, server, [Next]_vars PROVE LifeInv' /\ server'
    OBVIOUS
  <2>1. CASE Next
    <3>1. server' = server
      BY <2>1 DEF Next, Running, Poll, LoopStep, LoopUser, ThreadStep, PeerStep, LoopEndsIt,
        HandleHup, HandleReadData, HandleReadError, HandleReadEnd, HandleWrite, TimerFires,
        DoPendingFunctors, FunctorsDone, ConnectEstablished, ConnectDestroyed, RunSend,
        RunShutdown, RunForceClose, RunReadControl, RunCallback, RunAddTimer,
        CallbackReturns, NextFunctor, LoopSend, LoopShutdown, LoopForceClose,
        LoopForceCloseWithDelay, LoopReadControl, LoopCall, SetState, QueueCall,
        CheckState, RemoveConnectionInLoop, DestroyServer, PeerSend, PeerClose,
        PeerReset, serverVars
    <3> QED
      BY <2>1, <3>1, FreshNext, LifeNext
  <2>2. CASE UNCHANGED vars
    BY <2>2 DEF vars, connVars, loopVars, userVars, serverVars, LifeInv, Tame, Fresh,
                Up, Closed
  <2> QED
    BY <2>1, <2>2
<1> QED
  BY <1>1, <1>2, TypeInvariant, PTL DEF Spec

\* When callbacks alone end a connection, threads only send and the server lives on,
\* no assertion fails on the way of a connection from newConnection() through both
\* loops to connectDestroyed(): it is established once, handleClose() runs once, it
\* is erased once, and its channel wants no event when it is removed.
THEOREM NoAssertionFails == ASSUME LoopEndsIt PROVE Spec => []AssertionsHold
<1>1. LifeInv => AssertionsHold
  BY DEF LifeInv, AssertionsHold
<1> QED
  BY <1>1, LifeInvariant, PTL
=============================================================================
