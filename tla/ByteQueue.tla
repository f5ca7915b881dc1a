------------------------------- MODULE ByteQueue -------------------------------
(***************************************************************************)
(* What a Buffer promises: each buffer is a queue of bytes, written at its *)
(* end, read at its front, to whose front something may be put back.  The  *)
(* bytes that callers hand in are numbered, so that none passes for        *)
(* another.  Lengths pass through an int on the way out: no promise is     *)
(* made of how many bytes leave when a reader asks for more than it holds. *)
(***************************************************************************)
EXTENDS Integers, Sequences

CONSTANTS
  Buffers,
  IntMax,   \* the largest length that a retrieval takes as it is
  MaxLen    \* bound: bytes handed in by one call

VARIABLES
  queue,   \* the bytes of each buffer
  next,    \* the number of the next byte
  out      \* what the last retrieveAsString() has returned

\* The next n bytes
Chunk(n) == [i \in 1 .. n |-> next + i - 1]

Init == queue = [b \in Buffers |-> <<>>] /\ next = 1 /\ out = <<>>

Write(b, n) ==
  /\ queue' = [queue EXCEPT ![b] = @ \o Chunk(n)]
  /\ next' = next + n /\ UNCHANGED out

PutBack(b, n) ==
  /\ queue' = [queue EXCEPT ![b] = Chunk(n) \o @]
  /\ next' = next + n /\ UNCHANGED out

\* How many bytes leave buffer b when n are asked for
Leaving(b, n) == IF n <= IntMax THEN {n} ELSE 0 .. Len(queue[b])

Drop(b, n) ==
  /\ \E k \in Leaving(b, n) : queue' = [queue EXCEPT ![b] = SubSeq(@, k + 1, Len(@))]
  /\ UNCHANGED <<next, out>>

Take(b, n) ==
  /\ \E k \in Leaving(b, n) : queue' = [queue EXCEPT ![b] = SubSeq(@, k + 1, Len(@))]
  /\ out' = SubSeq(queue[b], 1, n) /\ UNCHANGED next

Swap(b, c) ==
  /\ queue' = [queue EXCEPT ![b] = queue[c], ![c] = queue[b]]
  /\ UNCHANGED <<next, out>>

Next ==
  \E b \in Buffers :
    \/ \E n \in 0 .. MaxLen : Write(b, n) \/ PutBack(b, n)
    \/ \E n \in 0 .. Len(queue[b]) : Drop(b, n) \/ Take(b, n)
    \/ \E c \in Buffers : Swap(b, c)

Spec == Init /\ [][Next]_<<queue, next, out>>
=============================================================================
