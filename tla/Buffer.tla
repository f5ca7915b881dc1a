-------------------------------- MODULE Buffer --------------------------------
(***************************************************************************)
(* siren::net::Buffer: bytes readerIndex_ .. writerIndex_ - 1 of a vector  *)
(* that is compacted or grown when there is no room for more.              *)
(*                                                                         *)
(* The functions are operators on the record [buffer_, size, readerIndex_, *)
(* writerIndex_]; the actions are the calls that users of a buffer make.   *)
(* What a function asserts of its argument is the caller's business and    *)
(* guards the action; what it asserts of its own work is                   *)
(* BufferAssertionsHold.                                                   *)
(***************************************************************************)
EXTENDS Integers, Sequences

CONSTANTS
  Buffers,         \* the buffers
  kCheapPrepend,
  kInitialSize,
  ExtraBuf,        \* size of the second buffer of readFd()
  IntMax,          \* largest int
  MaxLen,          \* bound: bytes handed in by one call
  MaxBytes         \* bound: bytes handed in by all calls; for TLC, no proof uses it

ASSUME BufferAssumption ==
  /\ kCheapPrepend \in Nat /\ kInitialSize \in Nat /\ ExtraBuf \in Nat
  /\ IntMax \in Nat /\ MaxLen \in Nat /\ MaxBytes \in Nat

VARIABLES
  buf,      \* the state of each buffer
  next,     \* the number of the next byte that a caller hands in
  out,      \* what the last retrieveAsString() has returned
  failed    \* the assertion that has ended the process, or "none"

vars == <<buf, next, out, failed>>

-----------------------------------------------------------------------------
(* The functions *)

Make(data, size, reader, writer) ==
  [buffer_ |-> data, size |-> size, readerIndex_ |-> reader, writerIndex_ |-> writer]

New == Make([i \in 0 .. kCheapPrepend + kInitialSize - 1 |-> 0],
            kCheapPrepend + kInitialSize, kCheapPrepend, kCheapPrepend)

ReadableBytes(b) == b.writerIndex_ - b.readerIndex_
WritableBytes(b) == b.size - b.writerIndex_
PrependableBytes(b) == b.readerIndex_

\* The bytes from peek() on
Peek(b, n) == [i \in 1 .. n |-> b.buffer_[b.readerIndex_ + i - 1]]
Content(b) == Peek(b, ReadableBytes(b))

\* std::copy() of s into the vector
Copy(data, at, s) ==
  [i \in DOMAIN data |-> IF i \in at .. at + Len(s) - 1 THEN s[i - at + 1] ELSE data[i]]

Resize(b, n) ==
  Make([i \in 0 .. n - 1 |-> IF i < b.size THEN b.buffer_[i] ELSE 0],
       n, b.readerIndex_, b.writerIndex_)

RetrieveAll(b) == Make(b.buffer_, b.size, kCheapPrepend, kCheapPrepend)

\* A size_t as the int that retrieve() takes
ToInt(len) ==
  LET words == 2 * (IntMax + 1)
      low == len % words
  IN  IF low <= IntMax THEN low ELSE low - words

\* A negative int, compared with a size_t, is larger than any.
Retrieve(b, len) ==
  IF ToInt(len) \in 0 .. ReadableBytes(b) - 1
  THEN Make(b.buffer_, b.size, b.readerIndex_ + ToInt(len), b.writerIndex_)
  ELSE RetrieveAll(b)

\* Mutation: the bytes kept for prepend() are counted as free.
RoomInFrontAll(b, len) == WritableBytes(b) + PrependableBytes(b) >= len

RoomInFront(b, len) == WritableBytes(b) + PrependableBytes(b) >= len + kCheapPrepend

MakeSpace(b, len) ==
  IF RoomInFront(b, len)
  THEN Make(Copy(b.buffer_, kCheapPrepend, Content(b)), b.size,
            kCheapPrepend, kCheapPrepend + ReadableBytes(b))
  ELSE Resize(b, b.writerIndex_ + len)

EnsureWritableBytes(b, len) == IF WritableBytes(b) < len THEN MakeSpace(b, len) ELSE b

\* The assertions of makeSpace() and ensureWritableBytes()
EnsureAsserts(b, len) ==
  /\ WritableBytes(b) < len /\ RoomInFront(b, len) => kCheapPrepend < b.readerIndex_
  /\ WritableBytes(EnsureWritableBytes(b, len)) >= len

\* std::copy() to beginWrite(), then hasWritten()
Put(b, s) == Make(Copy(b.buffer_, b.writerIndex_, s), b.size,
                  b.readerIndex_, b.writerIndex_ + Len(s))

Appended(b, s) == Put(EnsureWritableBytes(b, Len(s)), s)

Prepended(b, s) ==
  Make(Copy(b.buffer_, b.readerIndex_ - Len(s), s), b.size,
       b.readerIndex_ - Len(s), b.writerIndex_)

\* readv() fills the vector, then extrabuf if the vector has less room than it.
ReadLimit(b) ==
  IF WritableBytes(b) < ExtraBuf THEN WritableBytes(b) + ExtraBuf ELSE WritableBytes(b)
InPlace(b, n) == IF n <= WritableBytes(b) THEN n ELSE WritableBytes(b)

\* What readFd() reads into the vector, and what into extrabuf
Filled(b, s) == Put(b, SubSeq(s, 1, InPlace(b, Len(s))))
Extra(b, s) == SubSeq(s, InPlace(b, Len(s)) + 1, Len(s))

\* Mutation: what came into extrabuf is appended to what was there before.
ReadFdLate(b, s) ==
  IF Extra(b, s) = <<>> THEN Filled(b, s) ELSE Appended(b, Extra(b, s))

\* Mutation: what did not fit into the vector is counted, and not appended.
ReadFdOverrun(b, s) == Put(b, s)

\* readFd(), when readv() has delivered s
ReadFd(b, s) ==
  IF Extra(b, s) = <<>> THEN Filled(b, s) ELSE Appended(Filled(b, s), Extra(b, s))

-----------------------------------------------------------------------------
(* The calls *)

Init ==
  /\ buf = [x \in Buffers |-> New]
  /\ next = 1 /\ out = <<>> /\ failed = "none"

Chunk(n) == [i \in 1 .. n |-> next + i - 1]

HandIn(n) == /\ n <= MaxLen /\ next + n <= MaxBytes + 1
             /\ next' = next + n

Asserted(ok) == failed' = IF ok THEN failed ELSE "assertion"

DoAppend(x, n) ==
  /\ HandIn(n)
  /\ buf' = [buf EXCEPT ![x] = Appended(@, Chunk(n))]
  /\ Asserted(EnsureAsserts(buf[x], n))
  /\ UNCHANGED out

\* 0 and errors of readv() leave the buffer alone.
DoReadFd(x, n) ==
  /\ HandIn(n) /\ n <= ReadLimit(buf[x])
  /\ buf' = [buf EXCEPT ![x] = ReadFd(@, Chunk(n))]
  /\ Asserted(EnsureAsserts(Filled(buf[x], Chunk(n)), Len(Extra(buf[x], Chunk(n)))))
  /\ UNCHANGED out

DoPrepend(x, n) ==
  /\ HandIn(n) /\ n <= PrependableBytes(buf[x])
  /\ buf' = [buf EXCEPT ![x] = Prepended(@, Chunk(n))]
  /\ UNCHANGED <<out, failed>>

\* The caller writes at beginWrite() itself.
DoHasWritten(x, n) ==
  /\ HandIn(n) /\ n <= WritableBytes(buf[x])
  /\ buf' = [buf EXCEPT ![x] = Put(@, Chunk(n))]
  /\ UNCHANGED <<out, failed>>

DoEnsureWritableBytes(x, n) ==
  /\ n <= MaxLen
  /\ buf' = [buf EXCEPT ![x] = EnsureWritableBytes(@, n)]
  /\ Asserted(EnsureAsserts(buf[x], n))
  /\ UNCHANGED <<next, out>>

\* A length above readableBytes() is the same as retrieveAll().
DoRetrieve(x, n) ==
  /\ n <= ReadableBytes(buf[x])
  /\ buf' = [buf EXCEPT ![x] = Retrieve(@, n)]
  /\ UNCHANGED <<next, out, failed>>

DoRetrieveAll(x) ==
  /\ buf' = [buf EXCEPT ![x] = RetrieveAll(@)]
  /\ UNCHANGED <<next, out, failed>>

\* retrieveAsString() and retrieveAllAsString()
DoRetrieveAsString(x, n) ==
  /\ n <= ReadableBytes(buf[x])
  /\ out' = Peek(buf[x], n)
  /\ buf' = [buf EXCEPT ![x] = Retrieve(@, n)]
  /\ UNCHANGED <<next, failed>>

DoSwap(x, y) ==
  /\ buf' = [buf EXCEPT ![x] = buf[y], ![y] = buf[x]]
  /\ UNCHANGED <<next, out, failed>>

\* A failed assertion ends the process.
Next ==
  /\ failed = "none"
  /\ \E x \in Buffers :
       \/ \E n \in 0 .. MaxLen :
            DoAppend(x, n) \/ DoReadFd(x, n) \/ DoPrepend(x, n)
              \/ DoHasWritten(x, n) \/ DoEnsureWritableBytes(x, n)
       \/ \E n \in 0 .. ReadableBytes(buf[x]) :
            DoRetrieve(x, n) \/ DoRetrieveAsString(x, n)
       \/ DoRetrieveAll(x)
       \/ \E y \in Buffers : DoSwap(x, y)

Spec == Init /\ [][Next]_vars

-----------------------------------------------------------------------------
(* Properties *)

IsBuffer(b) ==
  /\ b.size \in Nat /\ b.readerIndex_ \in Nat /\ b.writerIndex_ \in Nat
  /\ b.buffer_ \in [0 .. b.size - 1 -> Nat]
  /\ b.readerIndex_ <= b.writerIndex_ /\ b.writerIndex_ <= b.size
  /\ kCheapPrepend <= b.size

\* The indices are in order and within the vector, whatever calls were made.
TypeOK ==
  /\ DOMAIN buf = Buffers
  /\ \A x \in Buffers : IsBuffer(buf[x])
  /\ next \in Nat \ {0} /\ out \in Seq(Nat)
  /\ failed \in {"none", "assertion"}

\* No assertion about the buffer's own work fails: when makeSpace() compacts there
\* is something to gain, and ensureWritableBytes() has made the room it was asked
\* for, at every length and position of the indices.
BufferAssertionsHold == failed = "none"

\* The buffers are queues of bytes: growing, compacting, the two parts of readFd(),
\* prepend() and swap() lose, repeat and reorder none, and a retrieval takes what it
\* was asked for unless that was more than an int holds.
Queue == INSTANCE ByteQueue WITH queue <- [x \in Buffers |-> Content(buf[x])]
ImplementsByteQueue == Queue!Spec
=============================================================================
