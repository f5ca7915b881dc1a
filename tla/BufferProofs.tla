----------------------------- MODULE BufferProofs -----------------------------
(***************************************************************************)
(* Buffers of any sizes, used in any order: their indices stay in order,   *)
(* their assertions hold, and they are queues of bytes.                    *)
(***************************************************************************)
EXTENDS Buffer, TLAPS

LEMMA NewIsBuffer == IsBuffer(New)
  BY BufferAssumption DEF New, Make, IsBuffer

\* A copy that fits in keeps the vector a vector.
LEMMA CopyType ==
  ASSUME NEW size \in Nat, NEW data \in [0 .. size - 1 -> Nat], NEW at \in Nat,
         NEW s \in Seq(Nat)
  PROVE  Copy(data, at, s) \in [0 .. size - 1 -> Nat]
  BY DEF Copy

LEMMA ContentType ==
  ASSUME NEW b, IsBuffer(b), NEW n \in 0 .. ReadableBytes(b)
  PROVE  Peek(b, n) \in Seq(Nat) /\ Len(Peek(b, n)) = n
<1>1. \A i \in 1 .. n : b.buffer_[b.readerIndex_ + i - 1] \in Nat
  <2> TAKE i \in 1 .. n
  <2>1. b.readerIndex_ + i - 1 \in 0 .. b.size - 1
    BY DEF IsBuffer, ReadableBytes
  <2> QED
    BY <2>1 DEF IsBuffer
<1>2. n \in Nat
  BY DEF IsBuffer, ReadableBytes
<1> QED
  BY <1>1, <1>2 DEF Peek

LEMMA LowBits ==
  ASSUME NEW n \in Nat, NEW m \in Nat \ {0}
  PROVE  n % m \in Int /\ (n < m => n % m = n)
  OBVIOUS

\* What an int can hold is converted to itself.
LEMMA ToIntIs ==
  ASSUME NEW n \in Nat
  PROVE  ToInt(n) \in Int /\ (n <= IntMax => ToInt(n) = n)
<1>1. n % (2 * (IntMax + 1)) \in Int
      /\ (n < 2 * (IntMax + 1) => n % (2 * (IntMax + 1)) = n)
  BY BufferAssumption, LowBits
<1> QED
  BY <1>1, BufferAssumption DEF ToInt

\* What is left of b without its first k bytes
Rest(b, k) == Make(b.buffer_, b.size, b.readerIndex_ + k, b.writerIndex_)

LEMMA RestIsBuffer ==
  ASSUME NEW b, IsBuffer(b), NEW k \in 0 .. ReadableBytes(b)
  PROVE  IsBuffer(Rest(b, k))
  BY BufferAssumption DEF IsBuffer, Make, Rest, ReadableBytes

LEMMA RetrieveAllIsBuffer ==
  ASSUME NEW b, IsBuffer(b)
  PROVE  IsBuffer(RetrieveAll(b))
  BY BufferAssumption DEF IsBuffer, Make, RetrieveAll

LEMMA RetrieveIsBuffer ==
  ASSUME NEW b, IsBuffer(b), NEW n \in Nat
  PROVE  IsBuffer(Retrieve(b, n))
<1>1. CASE ToInt(n) \in 0 .. ReadableBytes(b) - 1
  <2>1. ToInt(n) \in 0 .. ReadableBytes(b)
    BY <1>1 DEF IsBuffer, ReadableBytes
  <2> QED
    BY <1>1, <2>1, RestIsBuffer DEF Retrieve, Rest
<1>2. CASE ToInt(n) \notin 0 .. ReadableBytes(b) - 1
  BY <1>2, RetrieveAllIsBuffer DEF Retrieve
<1> QED
  BY <1>1, <1>2

LEMMA ResizeIsBuffer ==
  ASSUME NEW b, IsBuffer(b), NEW n \in Nat, n >= b.size
  PROVE  /\ IsBuffer(Resize(b, n)) /\ Resize(b, n).size = n
         /\ Resize(b, n).writerIndex_ = b.writerIndex_
<1>1. [i \in 0 .. n - 1 |-> IF i < b.size THEN b.buffer_[i] ELSE 0] \in [0 .. n - 1 -> Nat]
  BY DEF IsBuffer
<1> QED
  BY <1>1, BufferAssumption DEF IsBuffer, Make, Resize

\* makeSpace() and ensureWritableBytes() make the room asked for.
Roomy(b, len, r) ==
  IsBuffer(r) /\ WritableBytes(r) >= len /\ EnsureAsserts(b, len)

LEMMA EnsureMakesRoom ==
  ASSUME NEW b, IsBuffer(b), NEW len \in Nat
  PROVE  Roomy(b, len, EnsureWritableBytes(b, len))
<1> DEFINE r == EnsureWritableBytes(b, len)
<1>1. CASE WritableBytes(b) >= len
  BY <1>1 DEF IsBuffer, WritableBytes, EnsureWritableBytes, EnsureAsserts, Roomy
<1>2. CASE WritableBytes(b) < len /\ ~RoomInFront(b, len)
  <2>1. r = Resize(b, b.writerIndex_ + len)
    BY <1>2 DEF EnsureWritableBytes, MakeSpace
  <2>2. b.writerIndex_ + len \in Nat /\ b.writerIndex_ + len >= b.size
    BY <1>2 DEF WritableBytes, IsBuffer
  <2>3. IsBuffer(r) /\ r.size = b.writerIndex_ + len /\ r.writerIndex_ = b.writerIndex_
    BY <2>1, <2>2, ResizeIsBuffer
  <2>4. WritableBytes(r) >= len
    BY <2>3 DEF WritableBytes, IsBuffer
  <2> QED
    BY <1>2, <2>3, <2>4 DEF EnsureAsserts, Roomy
<1>3. CASE WritableBytes(b) < len /\ RoomInFront(b, len)
  <2>1. kCheapPrepend < b.readerIndex_
    BY <1>3, BufferAssumption DEF RoomInFront, WritableBytes, PrependableBytes, IsBuffer
  <2>2. r = Make(Copy(b.buffer_, kCheapPrepend, Content(b)), b.size,
               kCheapPrepend, kCheapPrepend + ReadableBytes(b))
    BY <1>3 DEF EnsureWritableBytes, MakeSpace
  <2>3. Content(b) \in Seq(Nat)
    BY ContentType DEF Content, ReadableBytes, IsBuffer
  <2>4. Copy(b.buffer_, kCheapPrepend, Content(b)) \in [0 .. b.size - 1 -> Nat]
    BY <2>3, CopyType, BufferAssumption DEF IsBuffer
  <2>5. IsBuffer(r)
    BY <2>1, <2>2, <2>4, BufferAssumption DEF IsBuffer, Make, ReadableBytes
  <2>6. WritableBytes(r) >= len
    BY <1>3, <2>1, <2>2, BufferAssumption
       DEF IsBuffer, Make, ReadableBytes, WritableBytes, RoomInFront, PrependableBytes
  <2> QED
    BY <2>1, <2>5, <2>6 DEF EnsureAsserts, Roomy
<1> QED
  BY <1>1, <1>2, <1>3 DEF IsBuffer, WritableBytes

LEMMA PutIsBuffer ==
  ASSUME NEW b, IsBuffer(b), NEW s \in Seq(Nat), Len(s) <= WritableBytes(b)
  PROVE  IsBuffer(Put(b, s))
<1>1. Copy(b.buffer_, b.writerIndex_, s) \in [0 .. b.size - 1 -> Nat]
  BY CopyType DEF IsBuffer
<1>2. Len(s) \in Nat
  OBVIOUS
<1> QED
  BY <1>1, <1>2 DEF IsBuffer, Make, Put, WritableBytes

LEMMA AppendedIsBuffer ==
  ASSUME NEW b, IsBuffer(b), NEW s \in Seq(Nat)
  PROVE  IsBuffer(Appended(b, s)) /\ EnsureAsserts(b, Len(s))
<1>1. Roomy(b, Len(s), EnsureWritableBytes(b, Len(s)))
  BY EnsureMakesRoom
<1> QED
  BY <1>1, PutIsBuffer DEF Appended, Roomy

LEMMA PrependedIsBuffer ==
  ASSUME NEW b, IsBuffer(b), NEW s \in Seq(Nat), Len(s) <= PrependableBytes(b)
  PROVE  IsBuffer(Prepended(b, s))
<1>1. Len(s) \in Nat /\ b.readerIndex_ - Len(s) \in Nat
  BY DEF PrependableBytes, IsBuffer
<1>2. Copy(b.buffer_, b.readerIndex_ - Len(s), s) \in [0 .. b.size - 1 -> Nat]
  BY <1>1, CopyType DEF IsBuffer
<1> QED
  BY <1>1, <1>2 DEF IsBuffer, Make, Prepended, PrependableBytes

LEMMA ReadFdIsBuffer ==
  ASSUME NEW b, IsBuffer(b), NEW s \in Seq(Nat)
  PROVE  /\ IsBuffer(ReadFd(b, s))
         /\ EnsureAsserts(Filled(b, s), Len(Extra(b, s)))
<1>1. InPlace(b, Len(s)) \in 0 .. Len(s) /\ InPlace(b, Len(s)) <= WritableBytes(b)
      /\ Len(s) \in Nat
  BY DEF InPlace, IsBuffer, WritableBytes
<1>2. SubSeq(s, 1, InPlace(b, Len(s))) \in Seq(Nat)
      /\ Len(SubSeq(s, 1, InPlace(b, Len(s)))) = InPlace(b, Len(s))
  BY <1>1
<1>3. Extra(b, s) \in Seq(Nat)
  BY <1>1 DEF Extra
<1>4. IsBuffer(Filled(b, s))
  BY <1>1, <1>2, PutIsBuffer DEF Filled
<1>5. IsBuffer(Appended(Filled(b, s), Extra(b, s)))
      /\ EnsureAsserts(Filled(b, s), Len(Extra(b, s)))
  BY <1>3, <1>4, AppendedIsBuffer
<1> QED
  BY <1>4, <1>5 DEF ReadFd

-----------------------------------------------------------------------------
(* Types and assertions *)

Inv == TypeOK /\ BufferAssertionsHold

LEMMA ChunkType ==
  ASSUME next \in Nat \ {0}, NEW n \in Nat
  PROVE  Chunk(n) \in Seq(Nat) /\ Len(Chunk(n)) = n
  BY DEF Chunk

\* A step that leaves a buffer in place of one keeps the types.
LEMMA OneBuffer ==
  ASSUME TypeOK, NEW x \in Buffers, NEW b, IsBuffer(b), buf' = [buf EXCEPT ![x] = b]
  PROVE  DOMAIN buf' = Buffers /\ \A y \in Buffers : IsBuffer(buf'[y])
  BY DEF TypeOK

LEMMA WriteInv ==
  ASSUME Inv, NEW x \in Buffers, NEW n \in 0 .. MaxLen,
         DoAppend(x, n) \/ DoReadFd(x, n) \/ DoPrepend(x, n)
           \/ DoHasWritten(x, n) \/ DoEnsureWritableBytes(x, n)
  PROVE  Inv'
<1>1. n \in Nat /\ IsBuffer(buf[x]) /\ next \in Nat \ {0} /\ out \in Seq(Nat)
      /\ failed = "none"
  BY BufferAssumption DEF Inv, TypeOK, BufferAssertionsHold
<1>2. Chunk(n) \in Seq(Nat) /\ Len(Chunk(n)) = n
  BY <1>1, ChunkType
<1>3. next' \in Nat \ {0} /\ out' = out
  BY <1>1 DEF DoAppend, DoReadFd, DoPrepend, DoHasWritten, DoEnsureWritableBytes, HandIn
<1>4. CASE DoAppend(x, n)
  <2>1. IsBuffer(Appended(buf[x], Chunk(n))) /\ EnsureAsserts(buf[x], n)
    BY <1>1, <1>2, AppendedIsBuffer
  <2>2. buf' = [buf EXCEPT ![x] = Appended(buf[x], Chunk(n))] /\ failed' = "none"
    BY <1>1, <1>4, <2>1 DEF DoAppend, Asserted
  <2> QED
    BY <1>1, <1>3, <2>1, <2>2, OneBuffer DEF Inv, TypeOK, BufferAssertionsHold
<1>5. CASE DoReadFd(x, n)
  <2>1. IsBuffer(ReadFd(buf[x], Chunk(n)))
        /\ EnsureAsserts(Filled(buf[x], Chunk(n)), Len(Extra(buf[x], Chunk(n))))
    BY <1>1, <1>2, ReadFdIsBuffer
  <2>2. buf' = [buf EXCEPT ![x] = ReadFd(buf[x], Chunk(n))] /\ failed' = "none"
    BY <1>1, <1>5, <2>1 DEF DoReadFd, Asserted
  <2> QED
    BY <1>1, <1>3, <2>1, <2>2, OneBuffer DEF Inv, TypeOK, BufferAssertionsHold
<1>6. CASE DoPrepend(x, n)
  <2>1. IsBuffer(Prepended(buf[x], Chunk(n)))
    BY <1>1, <1>2, <1>6, PrependedIsBuffer DEF DoPrepend
  <2> QED
    BY <1>1, <1>3, <1>6, <2>1, OneBuffer DEF DoPrepend, Inv, TypeOK, BufferAssertionsHold
<1>7. CASE DoHasWritten(x, n)
  <2>1. IsBuffer(Put(buf[x], Chunk(n)))
    BY <1>1, <1>2, <1>7, PutIsBuffer DEF DoHasWritten
  <2> QED
    BY <1>1, <1>3, <1>7, <2>1, OneBuffer DEF DoHasWritten, Inv, TypeOK, BufferAssertionsHold
<1>8. CASE DoEnsureWritableBytes(x, n)
  <2>1. Roomy(buf[x], n, EnsureWritableBytes(buf[x], n))
    BY <1>1, EnsureMakesRoom
  <2>2. IsBuffer(EnsureWritableBytes(buf[x], n)) /\ EnsureAsserts(buf[x], n)
    BY <2>1 DEF Roomy
  <2>3. buf' = [buf EXCEPT ![x] = EnsureWritableBytes(buf[x], n)] /\ failed' = "none"
    BY <1>1, <1>8, <2>2 DEF DoEnsureWritableBytes, Asserted
  <2> QED
    BY <1>1, <1>3, <2>2, <2>3, OneBuffer DEF Inv, TypeOK, BufferAssertionsHold
<1> QED
  BY <1>4, <1>5, <1>6, <1>7, <1>8

LEMMA RetrieveInv ==
  ASSUME Inv, NEW x \in Buffers, NEW n \in 0 .. ReadableBytes(buf[x]),
         DoRetrieve(x, n) \/ DoRetrieveAsString(x, n)
  PROVE  Inv'
<1>1. n \in Nat /\ IsBuffer(buf[x]) /\ next \in Nat \ {0} /\ out \in Seq(Nat)
      /\ failed = "none"
  BY DEF Inv, TypeOK, BufferAssertionsHold, IsBuffer, ReadableBytes
<1>2. IsBuffer(Retrieve(buf[x], n)) /\ Peek(buf[x], n) \in Seq(Nat)
  BY <1>1, RetrieveIsBuffer, ContentType
<1>3. buf' = [buf EXCEPT ![x] = Retrieve(buf[x], n)] /\ out' \in Seq(Nat)
      /\ next' = next /\ failed' = failed
  BY <1>1, <1>2 DEF DoRetrieve, DoRetrieveAsString
<1> QED
  BY <1>1, <1>2, <1>3, OneBuffer DEF Inv, TypeOK, BufferAssertionsHold

LEMMA RetrieveAllInv ==
  ASSUME Inv, NEW x \in Buffers, DoRetrieveAll(x)
  PROVE  Inv'
<1>1. IsBuffer(RetrieveAll(buf[x]))
  BY RetrieveAllIsBuffer DEF Inv, TypeOK
<1> QED
  BY <1>1, OneBuffer DEF DoRetrieveAll, Inv, TypeOK, BufferAssertionsHold

LEMMA NextInv == Inv /\ [Next]_vars => Inv'
<1> SUFFICES ASSUME Inv, [Next]_vars PROVE Inv'
  OBVIOUS
<1>1. CASE UNCHANGED vars
  BY <1>1 DEF Inv, TypeOK, BufferAssertionsHold, vars
<1>2. ASSUME NEW x \in Buffers, NEW y \in Buffers, DoSwap(x, y) PROVE Inv'
  BY <1>2 DEF DoSwap, Inv, TypeOK, BufferAssertionsHold
<1> QED
  BY <1>1, <1>2, WriteInv, RetrieveInv, RetrieveAllInv DEF Next

LEMMA InvHolds == Spec => []Inv
<1>1. Init => Inv
  BY NewIsBuffer DEF Init, Inv, TypeOK, BufferAssertionsHold
<1> QED
  BY <1>1, NextInv, PTL DEF Spec

\* The indices of every buffer stay in order and within the vector.
THEOREM TypeCorrect == Spec => []TypeOK
  BY InvHolds, PTL DEF Inv

\* makeSpace() and ensureWritableBytes() never fail an assertion.
THEOREM NoAssertionFails == Spec => []BufferAssertionsHold
  BY InvHolds, PTL DEF Inv

-----------------------------------------------------------------------------
(* What the functions do to the content *)

LEMMA SameSeq ==
  ASSUME NEW s \in Seq(Nat), NEW t \in Seq(Nat), Len(s) = Len(t),
         \A i \in 1 .. Len(s) : s[i] = t[i]
  PROVE  s = t
  OBVIOUS

LEMMA ContentIs ==
  ASSUME NEW b, IsBuffer(b)
  PROVE  /\ Content(b) \in Seq(Nat) /\ Len(Content(b)) = ReadableBytes(b)
         /\ ReadableBytes(b) \in Nat
         /\ \A i \in 1 .. ReadableBytes(b) :
              Content(b)[i] = b.buffer_[b.readerIndex_ + i - 1]
<1>1. ReadableBytes(b) \in Nat
  BY DEF IsBuffer, ReadableBytes
<1>2. Content(b) \in Seq(Nat) /\ Len(Content(b)) = ReadableBytes(b)
  BY <1>1, ContentType DEF Content
<1> QED
  BY <1>1, <1>2 DEF Content, Peek

LEMMA ResizeContent ==
  ASSUME NEW b, IsBuffer(b), NEW n \in Nat, n >= b.size
  PROVE  Content(Resize(b, n)) = Content(b)
<1> DEFINE r == Resize(b, n)
<1>1. IsBuffer(r)
  BY ResizeIsBuffer
<1>2. r.readerIndex_ = b.readerIndex_ /\ r.writerIndex_ = b.writerIndex_
      /\ \A i \in 0 .. b.size - 1 : r.buffer_[i] = b.buffer_[i]
  BY DEF Resize, Make, IsBuffer
<1>3. ReadableBytes(r) = ReadableBytes(b)
  BY <1>2 DEF ReadableBytes
<1>4. \A i \in 1 .. ReadableBytes(b) : b.readerIndex_ + i - 1 \in 0 .. b.size - 1
  BY DEF ReadableBytes, IsBuffer
<1> HIDE DEF r
<1>5. \A i \in 1 .. ReadableBytes(b) : Content(r)[i] = Content(b)[i]
  BY <1>1, <1>2, <1>3, <1>4, ContentIs, ZenonT(30)
<1>6. Content(r) = Content(b)
  BY <1>1, <1>3, <1>5, ContentIs, SameSeq
<1> QED
  BY <1>6 DEF r

LEMMA MoveContent ==
  ASSUME NEW b, IsBuffer(b), kCheapPrepend < b.readerIndex_,
         NEW r, IsBuffer(r),
         r = Make(Copy(b.buffer_, kCheapPrepend, Content(b)), b.size,
                  kCheapPrepend, kCheapPrepend + ReadableBytes(b))
  PROVE  Content(r) = Content(b)
<1>1. Content(b) \in Seq(Nat) /\ Len(Content(b)) = ReadableBytes(b)
      /\ ReadableBytes(b) \in Nat
  BY ContentIs
<1>2. r.readerIndex_ = kCheapPrepend /\ ReadableBytes(r) = ReadableBytes(b)
  BY <1>1, BufferAssumption DEF Make, ReadableBytes
<1>3. \A i \in 1 .. ReadableBytes(b) : r.buffer_[kCheapPrepend + i - 1] = Content(b)[i]
  <2> TAKE i \in 1 .. ReadableBytes(b)
  <2>1. kCheapPrepend + i - 1 \in 0 .. b.size - 1 /\ DOMAIN b.buffer_ = 0 .. b.size - 1
    BY BufferAssumption, SMTT(30) DEF IsBuffer, ReadableBytes
  <2>2. kCheapPrepend + i - 1 \in kCheapPrepend .. kCheapPrepend + Len(Content(b)) - 1
        /\ (kCheapPrepend + i - 1) - kCheapPrepend + 1 = i
    BY <1>1, BufferAssumption
  <2>3. r.buffer_ = Copy(b.buffer_, kCheapPrepend, Content(b))
    BY DEF Make
  <2> QED
    BY <2>1, <2>2, <2>3 DEF Copy
<1> QED
  BY <1>1, <1>2, <1>3, ContentIs, SameSeq, ZenonT(30)

LEMMA EnsureContent ==
  ASSUME NEW b, IsBuffer(b), NEW len \in Nat
  PROVE  Content(EnsureWritableBytes(b, len)) = Content(b)
<1> DEFINE r == EnsureWritableBytes(b, len)
<1>1. CASE WritableBytes(b) >= len
  BY <1>1 DEF IsBuffer, WritableBytes, EnsureWritableBytes
<1>2. CASE WritableBytes(b) < len /\ ~RoomInFront(b, len)
  <2>1. r = Resize(b, b.writerIndex_ + len)
    BY <1>2 DEF EnsureWritableBytes, MakeSpace
  <2>2. b.writerIndex_ + len \in Nat /\ b.writerIndex_ + len >= b.size
    BY <1>2 DEF WritableBytes, IsBuffer
  <2> QED
    BY <2>1, <2>2, ResizeContent
<1>3. CASE WritableBytes(b) < len /\ RoomInFront(b, len)
  <2>1. kCheapPrepend < b.readerIndex_
    BY <1>3, BufferAssumption DEF RoomInFront, WritableBytes, PrependableBytes, IsBuffer
  <2>2. r = Make(Copy(b.buffer_, kCheapPrepend, Content(b)), b.size,
               kCheapPrepend, kCheapPrepend + ReadableBytes(b))
    BY <1>3 DEF EnsureWritableBytes, MakeSpace
  <2>3. IsBuffer(r)
    BY EnsureMakesRoom DEF Roomy
  <2> QED
    BY <2>1, <2>2, <2>3, MoveContent
<1> QED
  BY <1>1, <1>2, <1>3 DEF IsBuffer, WritableBytes

LEMMA PutContent ==
  ASSUME NEW b, IsBuffer(b), NEW s \in Seq(Nat), Len(s) <= WritableBytes(b)
  PROVE  Content(Put(b, s)) = Content(b) \o s
<1> DEFINE r == Put(b, s)
<1>1. IsBuffer(r)
  BY PutIsBuffer
<1>2. Content(b) \in Seq(Nat) /\ Len(Content(b)) = ReadableBytes(b)
      /\ ReadableBytes(b) \in Nat /\ Len(s) \in Nat
  BY ContentIs
<1>3. r.readerIndex_ = b.readerIndex_ /\ r.buffer_ = Copy(b.buffer_, b.writerIndex_, s)
      /\ r.writerIndex_ = b.writerIndex_ + Len(s)
  BY DEF Put, Make
<1>4. ReadableBytes(r) = ReadableBytes(b) + Len(s)
  BY <1>2, <1>3 DEF ReadableBytes, IsBuffer
<1>5. \A i \in 1 .. ReadableBytes(r) :
        r.buffer_[b.readerIndex_ + i - 1] = (Content(b) \o s)[i]
  <2> TAKE i \in 1 .. ReadableBytes(r)
  <2>1. b.readerIndex_ + i - 1 \in DOMAIN b.buffer_
    <3>1. b.readerIndex_ + i - 1 \in 0 .. b.size - 1
      BY <1>2, <1>4 DEF IsBuffer, ReadableBytes, WritableBytes
    <3> QED
      BY <3>1 DEF IsBuffer
  <2>2. CASE i <= ReadableBytes(b)
    <3>1. b.readerIndex_ + i - 1 \notin b.writerIndex_ .. b.writerIndex_ + Len(s) - 1
      BY <1>2, <2>2 DEF IsBuffer, ReadableBytes
    <3>2. r.buffer_[b.readerIndex_ + i - 1] = b.buffer_[b.readerIndex_ + i - 1]
      BY <1>3, <2>1, <3>1 DEF Copy
    <3>3. i \in 1 .. ReadableBytes(b)
      BY <1>2, <1>4, <2>2
    <3>4. (Content(b) \o s)[i] = Content(b)[i]
      BY <1>2, <3>3
    <3> QED
      BY <3>2, <3>3, <3>4, ContentIs
  <2>3. CASE i > ReadableBytes(b)
    <3>0. i \in Int /\ i <= ReadableBytes(b) + Len(s)
      BY <1>2, <1>4
    <3>1. /\ b.readerIndex_ + i - 1 \in b.writerIndex_ .. b.writerIndex_ + Len(s) - 1
          /\ (b.readerIndex_ + i - 1) - b.writerIndex_ + 1 = i - ReadableBytes(b)
      <4>1. b.writerIndex_ = b.readerIndex_ + ReadableBytes(b) /\ b.readerIndex_ \in Nat
        BY DEF IsBuffer, ReadableBytes
      <4> QED
        BY <4>1, <3>0, <1>2, <2>3
    <3>2. r.buffer_[b.readerIndex_ + i - 1] = s[i - ReadableBytes(b)]
      BY <1>3, <2>1, <3>1 DEF Copy
    <3>3. (Content(b) \o s)[i] = s[i - ReadableBytes(b)]
      BY <1>2, <1>4, <2>3
    <3> QED
      BY <3>2, <3>3
  <2> QED
    BY <1>2, <1>4, <2>2, <2>3
<1>6. Content(b) \o s \in Seq(Nat) /\ Len(Content(b) \o s) = ReadableBytes(r)
  BY <1>2, <1>4
<1> HIDE DEF r
<1>7. Content(r) \in Seq(Nat) /\ Len(Content(r)) = ReadableBytes(r)
      /\ \A i \in 1 .. ReadableBytes(r) : Content(r)[i] = r.buffer_[b.readerIndex_ + i - 1]
  BY <1>1, <1>3, ContentIs
<1>8. Content(r) = Content(b) \o s
  BY <1>5, <1>6, <1>7, SameSeq
<1> QED
  BY <1>8 DEF r

LEMMA AppendedContent ==
  ASSUME NEW b, IsBuffer(b), NEW s \in Seq(Nat)
  PROVE  Content(Appended(b, s)) = Content(b) \o s
<1> DEFINE r == EnsureWritableBytes(b, Len(s))
<1>1. IsBuffer(r) /\ WritableBytes(r) >= Len(s)
  BY EnsureMakesRoom DEF Roomy
<1>2. Content(r) = Content(b)
  BY EnsureContent
<1>3. WritableBytes(r) \in Int /\ Len(s) \in Nat
  BY <1>1 DEF WritableBytes, IsBuffer
<1> HIDE DEF r
<1>4. Content(Put(r, s)) = Content(b) \o s
  BY <1>1, <1>2, <1>3, PutContent
<1> QED
  BY <1>4 DEF Appended, r

\* The part of a sequence after its first n elements
LEMMA SuffixIs ==
  ASSUME NEW s \in Seq(Nat), NEW n \in 0 .. Len(s)
  PROVE  /\ SubSeq(s, n + 1, Len(s)) \in Seq(Nat)
         /\ Len(SubSeq(s, n + 1, Len(s))) = Len(s) - n
         /\ \A i \in 1 .. Len(s) - n : SubSeq(s, n + 1, Len(s))[i] = s[n + i]
<1>1. SubSeq(s, n + 1, Len(s)) \in Seq(Nat) /\ Len(SubSeq(s, n + 1, Len(s))) = Len(s) - n
  OBVIOUS
<1>2. \A i \in 1 .. Len(s) - n : SubSeq(s, n + 1, Len(s))[i] = s[n + i]
  OBVIOUS
<1> QED
  BY <1>1, <1>2

LEMMA ConcatIs ==
  ASSUME NEW s \in Seq(Nat), NEW t \in Seq(Nat)
  PROVE  /\ s \o t \in Seq(Nat) /\ Len(s \o t) = Len(s) + Len(t)
         /\ \A i \in 1 .. Len(s) + Len(t) :
              (s \o t)[i] = IF i <= Len(s) THEN s[i] ELSE t[i - Len(s)]
  OBVIOUS

\* s is cut into two
Halves(first, rest, s) ==
  /\ Len(first) + Len(rest) = Len(s)
  /\ \A i \in 1 .. Len(first) : first[i] = s[i]
  /\ \A i \in 1 .. Len(rest) : rest[i] = s[Len(first) + i]

LEMMA JoinSeq ==
  ASSUME NEW c \in Seq(Nat), NEW s \in Seq(Nat), NEW first \in Seq(Nat),
         NEW rest \in Seq(Nat), Halves(first, rest, s)
  PROVE  (c \o first) \o rest = c \o s
<1> DEFINE front == c \o first
<1>1. Len(s) \in Nat /\ Len(c) \in Nat /\ Len(first) \in Nat /\ Len(rest) \in Nat
      /\ Len(first) + Len(rest) = Len(s)
  BY DEF Halves
<1>2. /\ front \in Seq(Nat) /\ Len(front) = Len(c) + Len(first)
      /\ \A i \in 1 .. Len(c) + Len(first) :
           front[i] = IF i <= Len(c) THEN c[i] ELSE first[i - Len(c)]
  BY ConcatIs
<1>3. /\ c \o s \in Seq(Nat) /\ Len(c \o s) = Len(c) + Len(s)
      /\ \A i \in 1 .. Len(c) + Len(s) :
           (c \o s)[i] = IF i <= Len(c) THEN c[i] ELSE s[i - Len(c)]
  BY ConcatIs
<1> HIDE DEF front
<1>4. /\ front \o rest \in Seq(Nat) /\ Len(front \o rest) = Len(front) + Len(rest)
      /\ \A i \in 1 .. Len(front) + Len(rest) :
           (front \o rest)[i] = IF i <= Len(front) THEN front[i] ELSE rest[i - Len(front)]
  BY <1>2, ConcatIs
<1>5. ASSUME NEW i \in 1 .. Len(c) + Len(s)
      PROVE  (front \o rest)[i] = (c \o s)[i]
  <2>0. i \in Int /\ 1 <= i /\ i <= Len(c) + Len(s)
    BY <1>1
  <2>1. CASE i <= Len(c)
    <3>1. i \in 1 .. Len(front) + Len(rest) /\ i <= Len(front) /\ i \in 1 .. Len(c) + Len(first)
      BY <1>1, <1>2, <2>0, <2>1
    <3>2. (front \o rest)[i] = c[i]
      BY <1>2, <1>4, <2>1, <3>1
    <3> QED
      BY <1>3, <2>1, <3>2
  <2>2. CASE Len(c) < i /\ i <= Len(c) + Len(first)
    <3>1. (front \o rest)[i] = first[i - Len(c)]
      BY <1>1, <1>2, <1>4, <2>2, SMTT(30)
    <3>2. (c \o s)[i] = s[i - Len(c)] /\ i - Len(c) \in 1 .. Len(first)
      BY <1>1, <1>3, <2>2
    <3> QED
      BY <3>1, <3>2 DEF Halves
  <2>3. CASE Len(c) + Len(first) < i
    <3>1. (front \o rest)[i] = rest[i - (Len(c) + Len(first))]
      BY <1>1, <1>2, <1>4, <2>3, SMTT(30)
    <3>2. (c \o s)[i] = s[i - Len(c)]
      BY <1>1, <1>3, <2>3
    <3>3. i - (Len(c) + Len(first)) \in 1 .. Len(rest)
          /\ Len(first) + (i - (Len(c) + Len(first))) = i - Len(c)
      BY <1>1, <2>3
    <3> QED
      BY <3>1, <3>2, <3>3 DEF Halves
  <2>4. i <= Len(c) \/ (Len(c) < i /\ i <= Len(c) + Len(first)) \/ Len(c) + Len(first) < i
    BY <1>1, <2>0
  <2> QED
    BY <2>1, <2>2, <2>3, <2>4, Zenon
<1>6. Len(front \o rest) = Len(c \o s)
  <2>1. Len(front \o rest) = (Len(c) + Len(first)) + Len(rest)
    BY <1>2, <1>4
  <2> QED
    BY <1>1, <1>3, <2>1
<1>7. front \o rest = c \o s
  BY <1>3, <1>4, <1>5, <1>6, SameSeq
<1> QED
  BY <1>7 DEF front

LEMMA SplitSeq ==
  ASSUME NEW c \in Seq(Nat), NEW s \in Seq(Nat), NEW k \in 0 .. Len(s)
  PROVE  (c \o SubSeq(s, 1, k)) \o SubSeq(s, k + 1, Len(s)) = c \o s
<1>1. /\ SubSeq(s, 1, k) \in Seq(Nat) /\ Len(SubSeq(s, 1, k)) = k
      /\ k \in Nat /\ Len(s) \in Nat
      /\ \A i \in 1 .. k : SubSeq(s, 1, k)[i] = s[i]
  OBVIOUS
<1>2. /\ SubSeq(s, k + 1, Len(s)) \in Seq(Nat)
      /\ Len(SubSeq(s, k + 1, Len(s))) = Len(s) - k
      /\ \A i \in 1 .. Len(s) - k : SubSeq(s, k + 1, Len(s))[i] = s[k + i]
  BY SuffixIs
<1>3. k + (Len(s) - k) = Len(s)
  BY <1>1
<1>4. Halves(SubSeq(s, 1, k), SubSeq(s, k + 1, Len(s)), s)
  BY <1>1, <1>2, <1>3, Zenon DEF Halves
<1>5. SubSeq(s, 1, k) \in Seq(Nat) /\ SubSeq(s, k + 1, Len(s)) \in Seq(Nat)
  BY <1>1, <1>2, Zenon
<1> QED
  BY <1>4, <1>5, JoinSeq, Zenon

LEMMA ReadFdContent ==
  ASSUME NEW b, IsBuffer(b), NEW s \in Seq(Nat)
  PROVE  Content(ReadFd(b, s)) = Content(b) \o s
<1> DEFINE k == InPlace(b, Len(s))
<1>1. k \in 0 .. Len(s) /\ k <= WritableBytes(b) /\ Len(s) \in Nat
  BY DEF InPlace, IsBuffer, WritableBytes
<1>2. Content(b) \in Seq(Nat)
  BY ContentIs
<1> HIDE DEF k
<1>3. SubSeq(s, 1, k) \in Seq(Nat) /\ Len(SubSeq(s, 1, k)) = k
  BY <1>1
<1>4. SubSeq(s, k + 1, Len(s)) \in Seq(Nat) /\ Len(SubSeq(s, k + 1, Len(s))) = Len(s) - k
  BY <1>1
<1>5. IsBuffer(Put(b, SubSeq(s, 1, k)))
  BY <1>1, <1>3, PutIsBuffer
<1>6. Content(Put(b, SubSeq(s, 1, k))) = Content(b) \o SubSeq(s, 1, k)
  BY <1>1, <1>3, PutContent
<1>7. CASE SubSeq(s, k + 1, Len(s)) = <<>>
  <2>1. k = Len(s)
    <3>1. Len(SubSeq(s, k + 1, Len(s))) = Len(<<>>)
      BY <1>7, Zenon
    <3> QED
      BY <1>1, <1>4, <3>1
  <2>2. SubSeq(s, 1, k) = s
    BY <1>1, <2>1
  <2> QED
    BY <1>6, <1>7, <2>2 DEF ReadFd, Extra, Filled, k
<1>8. CASE SubSeq(s, k + 1, Len(s)) # <<>>
  <2>1. Content(Appended(Put(b, SubSeq(s, 1, k)), SubSeq(s, k + 1, Len(s))))
          = Content(Put(b, SubSeq(s, 1, k))) \o SubSeq(s, k + 1, Len(s))
    BY <1>4, <1>5, AppendedContent
  <2>2. Content(Put(b, SubSeq(s, 1, k))) \in Seq(Nat)
    BY <1>5, ContentIs
  <2>3. Content(Put(b, SubSeq(s, 1, k))) \o SubSeq(s, k + 1, Len(s)) = Content(b) \o s
    BY <1>1, <1>2, <1>6, SplitSeq
  <2> QED
    BY <1>8, <2>1, <2>3 DEF ReadFd, Extra, Filled, k
<1> QED
  BY <1>7, <1>8

LEMMA PeekIsFront ==
  ASSUME NEW b, IsBuffer(b), NEW n \in 0 .. ReadableBytes(b)
  PROVE  Peek(b, n) = SubSeq(Content(b), 1, n)
<1>1. Content(b) \in Seq(Nat) /\ Len(Content(b)) = ReadableBytes(b) /\ ReadableBytes(b) \in Nat
      /\ \A i \in 1 .. ReadableBytes(b) : Content(b)[i] = b.buffer_[b.readerIndex_ + i - 1]
  BY ContentIs
<1>2. Peek(b, n) \in Seq(Nat) /\ Len(Peek(b, n)) = n
  BY ContentType
<1>3. \A i \in 1 .. n : Peek(b, n)[i] = b.buffer_[b.readerIndex_ + i - 1]
  BY <1>1 DEF Peek
<1>4. SubSeq(Content(b), 1, n) \in Seq(Nat) /\ Len(SubSeq(Content(b), 1, n)) = n
      /\ \A i \in 1 .. n : SubSeq(Content(b), 1, n)[i] = Content(b)[i]
  BY <1>1
<1>5. \A i \in 1 .. n : Peek(b, n)[i] = SubSeq(Content(b), 1, n)[i]
  <2> TAKE i \in 1 .. n
  <2>1. i \in 1 .. ReadableBytes(b)
    BY <1>1
  <2> QED
    BY <1>1, <1>3, <1>4, <2>1
<1> QED
  BY <1>2, <1>4, <1>5, SameSeq

LEMMA RestContent ==
  ASSUME NEW b, IsBuffer(b), NEW k \in 0 .. ReadableBytes(b)
  PROVE  Content(Rest(b, k)) = SubSeq(Content(b), k + 1, Len(Content(b)))
<1> DEFINE r == Rest(b, k)
           rest == SubSeq(Content(b), k + 1, Len(Content(b)))
<1>1. Content(b) \in Seq(Nat) /\ Len(Content(b)) = ReadableBytes(b) /\ ReadableBytes(b) \in Nat
      /\ \A i \in 1 .. ReadableBytes(b) : Content(b)[i] = b.buffer_[b.readerIndex_ + i - 1]
  BY ContentIs
<1>2. k \in Nat /\ IsBuffer(r)
  BY <1>1, RestIsBuffer
<1>3. rest \in Seq(Nat) /\ Len(rest) = ReadableBytes(b) - k
      /\ \A i \in 1 .. ReadableBytes(b) - k : rest[i] = Content(b)[k + i]
  BY <1>1, SuffixIs
<1>4. r.readerIndex_ = b.readerIndex_ + k /\ r.writerIndex_ = b.writerIndex_
      /\ r.buffer_ = b.buffer_
  BY DEF Rest, Make
<1>5. ReadableBytes(r) = ReadableBytes(b) - k
  BY <1>4, <1>2 DEF ReadableBytes, IsBuffer
<1>6. \A i \in 1 .. ReadableBytes(r) : Content(r)[i] = r.buffer_[r.readerIndex_ + i - 1]
  BY <1>2, ContentIs
<1>7. \A i \in 1 .. ReadableBytes(b) - k :
        /\ k + i \in 1 .. ReadableBytes(b)
        /\ (b.readerIndex_ + k) + i - 1 = b.readerIndex_ + (k + i) - 1
  <2>1. b.readerIndex_ \in Nat
    BY DEF IsBuffer
  <2> QED
    BY <2>1, <1>1, <1>2
<1> HIDE DEF r, rest
<1>8. \A i \in 1 .. ReadableBytes(r) : Content(r)[i] = rest[i]
  <2> TAKE i \in 1 .. ReadableBytes(r)
  <2>1. i \in 1 .. ReadableBytes(b) - k
    BY <1>5
  <2>2. Content(r)[i] = b.buffer_[(b.readerIndex_ + k) + i - 1]
    BY <1>4, <1>6
  <2>3. rest[i] = b.buffer_[b.readerIndex_ + (k + i) - 1]
    BY <1>1, <1>3, <1>7, <2>1
  <2> QED
    BY <1>7, <2>1, <2>2, <2>3
<1>9. Content(r) = rest
  BY <1>2, <1>3, <1>5, <1>8, ContentIs, SameSeq
<1> QED
  BY <1>9 DEF r, rest

LEMMA RetrieveAllContent ==
  ASSUME NEW b, IsBuffer(b)
  PROVE  Content(RetrieveAll(b))
           = SubSeq(Content(b), ReadableBytes(b) + 1, Len(Content(b)))
<1> DEFINE r == RetrieveAll(b)
           rest == SubSeq(Content(b), ReadableBytes(b) + 1, Len(Content(b)))
<1>1. Content(b) \in Seq(Nat) /\ Len(Content(b)) = ReadableBytes(b) /\ ReadableBytes(b) \in Nat
  BY ContentIs
<1>2. rest \in Seq(Nat) /\ Len(rest) = 0
  BY <1>1, SuffixIs
<1>3. IsBuffer(r) /\ ReadableBytes(r) = 0
  BY RetrieveAllIsBuffer, BufferAssumption DEF RetrieveAll, Make, ReadableBytes
<1> HIDE DEF r, rest
<1>4. Content(r) = rest
  BY <1>2, <1>3, ContentIs, SameSeq
<1> QED
  BY <1>4 DEF r, rest

\* How many bytes retrieve(n) may drop
Dropped(b, n) == IF n <= IntMax THEN {n} ELSE 0 .. ReadableBytes(b)

LEMMA RetrieveContent ==
  ASSUME NEW b, IsBuffer(b), NEW n \in 0 .. ReadableBytes(b)
  PROVE  \E k \in Dropped(b, n) :
           Content(Retrieve(b, n)) = SubSeq(Content(b), k + 1, Len(Content(b)))
<1>1. n \in Nat /\ ReadableBytes(b) \in Nat
  BY ContentIs
<1>2. ToInt(n) \in Int /\ (n <= IntMax => ToInt(n) = n)
  BY <1>1, ToIntIs
<1>3. CASE ToInt(n) \in 0 .. ReadableBytes(b) - 1
  <2>1. ToInt(n) \in 0 .. ReadableBytes(b)
    BY <1>1, <1>3
  <2>2. Content(Retrieve(b, n)) = SubSeq(Content(b), ToInt(n) + 1, Len(Content(b)))
    BY <1>3, <2>1, RestContent DEF Retrieve, Rest
  <2>3. ToInt(n) \in Dropped(b, n)
    BY <1>2, <2>1 DEF Dropped
  <2> QED
    BY <2>2, <2>3
<1>4. CASE ToInt(n) \notin 0 .. ReadableBytes(b) - 1
  <2>1. Content(Retrieve(b, n)) = SubSeq(Content(b), ReadableBytes(b) + 1, Len(Content(b)))
    BY <1>4, RetrieveAllContent DEF Retrieve
  <2>2. n <= IntMax => n = ReadableBytes(b)
    BY <1>1, <1>2, <1>4
  <2>3. ReadableBytes(b) \in Dropped(b, n)
    BY <1>1, <2>2 DEF Dropped
  <2> QED
    BY <2>1, <2>3
<1> QED
  BY <1>3, <1>4

LEMMA PrependedContent ==
  ASSUME NEW b, IsBuffer(b), NEW s \in Seq(Nat), Len(s) <= PrependableBytes(b)
  PROVE  Content(Prepended(b, s)) = s \o Content(b)
<1> DEFINE r == Prepended(b, s)
<1>1. IsBuffer(r)
  BY PrependedIsBuffer
<1>2. Content(b) \in Seq(Nat) /\ Len(Content(b)) = ReadableBytes(b)
      /\ ReadableBytes(b) \in Nat /\ Len(s) \in Nat
      /\ \A i \in 1 .. ReadableBytes(b) : Content(b)[i] = b.buffer_[b.readerIndex_ + i - 1]
  BY ContentIs
<1>3. r.readerIndex_ = b.readerIndex_ - Len(s) /\ r.writerIndex_ = b.writerIndex_
      /\ r.buffer_ = Copy(b.buffer_, b.readerIndex_ - Len(s), s)
  BY DEF Prepended, Make
<1>4. b.readerIndex_ \in Nat /\ Len(s) <= b.readerIndex_
      /\ b.readerIndex_ + ReadableBytes(b) <= b.size /\ b.size \in Nat
      /\ DOMAIN b.buffer_ = 0 .. b.size - 1
  BY DEF IsBuffer, PrependableBytes, ReadableBytes
<1>5. ReadableBytes(r) = Len(s) + ReadableBytes(b)
  BY <1>2, <1>3, <1>4 DEF ReadableBytes, IsBuffer
<1> HIDE DEF r
<1>6. /\ s \o Content(b) \in Seq(Nat)
      /\ Len(s \o Content(b)) = Len(s) + Len(Content(b))
      /\ \A i \in 1 .. Len(s) + Len(Content(b)) :
           (s \o Content(b))[i] = IF i <= Len(s) THEN s[i] ELSE Content(b)[i - Len(s)]
  BY <1>2, ConcatIs, Zenon
<1>7. Content(r) \in Seq(Nat) /\ Len(Content(r)) = ReadableBytes(r)
      /\ \A i \in 1 .. ReadableBytes(r) : Content(r)[i] = r.buffer_[r.readerIndex_ + i - 1]
  BY <1>1, ContentIs
<1>8. ASSUME NEW i \in 1 .. Len(s) + ReadableBytes(b)
      PROVE  Content(r)[i] = (s \o Content(b))[i]
  <2> DEFINE j == b.readerIndex_ - Len(s) + i - 1
  <2>1. i \in Int /\ 1 <= i /\ i <= Len(s) + ReadableBytes(b)
    BY <1>2
  <2>2. j \in DOMAIN b.buffer_
    BY <1>2, <1>4, <2>1
  <2>3. Content(r)[i] = Copy(b.buffer_, b.readerIndex_ - Len(s), s)[j]
    BY <1>3, <1>5, <1>7
  <2>4. CASE i <= Len(s)
    <3>1. j \in b.readerIndex_ - Len(s) .. b.readerIndex_ - Len(s) + Len(s) - 1
          /\ j - (b.readerIndex_ - Len(s)) + 1 = i
      BY <1>2, <1>4, <2>1, <2>4, SMTT(30)
    <3>2. Content(r)[i] = s[i]
      BY <2>2, <2>3, <3>1 DEF Copy
    <3> QED
      BY <1>2, <1>6, <2>4, <3>2
  <2>5. CASE i > Len(s)
    <3>1. /\ j \notin b.readerIndex_ - Len(s) .. b.readerIndex_ - Len(s) + Len(s) - 1
          /\ j = b.readerIndex_ + (i - Len(s)) - 1 /\ i - Len(s) \in 1 .. ReadableBytes(b)
          /\ ~(i <= Len(s))
      BY <1>2, <1>4, <2>1, <2>5, SMTT(30)
    <3>2. Content(r)[i] = b.buffer_[j]
      BY <2>2, <2>3, <3>1 DEF Copy
    <3>3. Content(b)[i - Len(s)] = b.buffer_[j]
      BY <1>2, <3>1
    <3> QED
      BY <1>2, <1>6, <3>1, <3>2, <3>3
  <2> QED
    BY <1>2, <2>1, <2>4, <2>5
<1>9. Content(r) = s \o Content(b)
  <2>1. Len(Content(r)) = Len(s \o Content(b)) /\ Len(Content(r)) = Len(s) + ReadableBytes(b)
    BY <1>2, <1>5, <1>6, <1>7
  <2> QED
    BY <1>6, <1>7, <1>8, <2>1, SameSeq
<1> QED
  BY <1>9 DEF r

-----------------------------------------------------------------------------
(* Refinement *)

queues == [x \in Buffers |-> Content(buf[x])]

\* One buffer changes.
LEMMA OneQueue ==
  ASSUME TypeOK, NEW x \in Buffers, NEW b, buf' = [buf EXCEPT ![x] = b]
  PROVE  queues' = [queues EXCEPT ![x] = Content(b)]
  BY DEF TypeOK, queues

LEMMA WriteStep ==
  ASSUME Inv, NEW x \in Buffers, NEW n \in 0 .. MaxLen,
         DoAppend(x, n) \/ DoReadFd(x, n) \/ DoPrepend(x, n) \/ DoHasWritten(x, n)
  PROVE  /\ next' = next + n /\ out' = out
         /\ \E b : /\ buf' = [buf EXCEPT ![x] = b]
                   /\ Content(b) \in {Content(buf[x]) \o Chunk(n), Chunk(n) \o Content(buf[x])}
<1>1. n \in Nat /\ IsBuffer(buf[x]) /\ next \in Nat \ {0}
  BY BufferAssumption DEF Inv, TypeOK
<1>2. Chunk(n) \in Seq(Nat) /\ Len(Chunk(n)) = n
  BY <1>1, ChunkType
<1>3. next' = next + n /\ out' = out
  BY DEF DoAppend, DoReadFd, DoPrepend, DoHasWritten, HandIn
<1>4. CASE DoAppend(x, n)
  BY <1>1, <1>2, <1>3, <1>4, AppendedContent DEF DoAppend
<1>5. CASE DoReadFd(x, n)
  BY <1>1, <1>2, <1>3, <1>5, ReadFdContent DEF DoReadFd
<1>6. CASE DoPrepend(x, n)
  BY <1>1, <1>2, <1>3, <1>6, PrependedContent DEF DoPrepend
<1>7. CASE DoHasWritten(x, n)
  BY <1>1, <1>2, <1>3, <1>7, PutContent DEF DoHasWritten
<1> QED
  BY <1>4, <1>5, <1>6, <1>7

\* What a step means for the queues
QueueStep == [Queue!Next]_<<queues, next, out>>

LEMMA WriteRefines ==
  ASSUME Inv, NEW x \in Buffers, NEW n \in 0 .. MaxLen,
         DoAppend(x, n) \/ DoReadFd(x, n) \/ DoPrepend(x, n) \/ DoHasWritten(x, n)
  PROVE  QueueStep
<1>1. TypeOK
  BY DEF Inv
<1>2. PICK b : /\ buf' = [buf EXCEPT ![x] = b]
               /\ Content(b) \in {Content(buf[x]) \o Chunk(n), Chunk(n) \o Content(buf[x])}
  BY WriteStep
<1>3. next' = next + n /\ out' = out
  BY WriteStep
<1>4. queues' = [queues EXCEPT ![x] = Content(b)] /\ queues[x] = Content(buf[x])
  BY <1>1, <1>2, OneQueue DEF queues
<1>5. Chunk(n) = Queue!Chunk(n)
  BY DEF Chunk, Queue!Chunk
<1>6. Queue!Write(x, n) \/ Queue!PutBack(x, n)
  BY <1>2, <1>3, <1>4, <1>5 DEF Queue!Write, Queue!PutBack, queues
<1> QED
  BY <1>6 DEF QueueStep, Queue!Next

LEMMA EnsureRefines ==
  ASSUME Inv, NEW x \in Buffers, NEW n \in 0 .. MaxLen, DoEnsureWritableBytes(x, n)
  PROVE  QueueStep
<1> DEFINE b == EnsureWritableBytes(buf[x], n)
<1>1. n \in Nat /\ IsBuffer(buf[x]) /\ TypeOK
  BY BufferAssumption DEF Inv, TypeOK
<1>2. buf' = [buf EXCEPT ![x] = b] /\ next' = next /\ out' = out
  BY DEF DoEnsureWritableBytes
<1>3. Content(b) = Content(buf[x])
  BY <1>1, EnsureContent
<1> HIDE DEF b
<1>4. queues' = [queues EXCEPT ![x] = Content(b)]
  BY <1>1, <1>2, OneQueue
<1>5. queues' = queues
  BY <1>3, <1>4 DEF queues
<1> QED
  BY <1>2, <1>5 DEF QueueStep

\* A step that drops the first bytes of one buffer is a Drop or a Take.
LEMMA DropRefines ==
  ASSUME Inv, NEW x \in Buffers, NEW b, NEW n \in 0 .. ReadableBytes(buf[x]),
         NEW k \in Dropped(buf[x], n),
         buf' = [buf EXCEPT ![x] = b], next' = next,
         Content(b) = SubSeq(Content(buf[x]), k + 1, Len(Content(buf[x]))),
         out' = out \/ out' = Peek(buf[x], n)
  PROVE  QueueStep
<1> DEFINE c == Content(buf[x])
<1>1. IsBuffer(buf[x]) /\ TypeOK
  BY DEF Inv, TypeOK
<1>2. Len(c) = ReadableBytes(buf[x]) /\ Peek(buf[x], n) = SubSeq(c, 1, n)
  BY <1>1, ContentIs, PeekIsFront
<1> HIDE DEF c
<1>3. queues' = [queues EXCEPT ![x] = Content(b)] /\ queues[x] = c
  BY <1>1, OneQueue DEF queues, c
<1>4. queues' = [queues EXCEPT ![x] = SubSeq(queues[x], k + 1, Len(queues[x]))]
  BY <1>3 DEF c
<1>5. k \in Queue!Leaving(x, n) /\ n \in 0 .. Len(queues[x])
  BY <1>2, <1>3 DEF Dropped, Queue!Leaving, queues
<1>6. Queue!Drop(x, n) \/ Queue!Take(x, n)
  <2>1. CASE out' = out
    BY <2>1, <1>4, <1>5 DEF Queue!Drop, queues
  <2>2. CASE out' = Peek(buf[x], n)
    BY <2>2, <1>2, <1>3, <1>4, <1>5 DEF Queue!Take, queues
  <2> QED
    BY <2>1, <2>2
<1> QED
  BY <1>5, <1>6 DEF QueueStep, Queue!Next, queues

LEMMA RetrieveRefines ==
  ASSUME Inv, NEW x \in Buffers, NEW n \in 0 .. ReadableBytes(buf[x]),
         DoRetrieve(x, n) \/ DoRetrieveAsString(x, n)
  PROVE  QueueStep
<1>1. IsBuffer(buf[x])
  BY DEF Inv, TypeOK
<1>2. PICK k \in Dropped(buf[x], n) :
        Content(Retrieve(buf[x], n)) = SubSeq(Content(buf[x]), k + 1, Len(Content(buf[x])))
  BY <1>1, RetrieveContent
<1>3. buf' = [buf EXCEPT ![x] = Retrieve(buf[x], n)] /\ next' = next
      /\ (out' = out \/ out' = Peek(buf[x], n))
  BY DEF DoRetrieve, DoRetrieveAsString
<1> QED
  BY <1>2, <1>3, DropRefines

LEMMA RetrieveAllRefines ==
  ASSUME Inv, NEW x \in Buffers, DoRetrieveAll(x)
  PROVE  QueueStep
<1>1. IsBuffer(buf[x])
  BY DEF Inv, TypeOK
<1>2. ReadableBytes(buf[x]) \in Nat
  BY <1>1, ContentIs
<1>3. ReadableBytes(buf[x]) \in 0 .. ReadableBytes(buf[x])
      /\ ReadableBytes(buf[x]) \in Dropped(buf[x], ReadableBytes(buf[x]))
  BY <1>2 DEF Dropped
<1>4. Content(RetrieveAll(buf[x]))
        = SubSeq(Content(buf[x]), ReadableBytes(buf[x]) + 1, Len(Content(buf[x])))
  BY <1>1, RetrieveAllContent
<1>5. buf' = [buf EXCEPT ![x] = RetrieveAll(buf[x])] /\ next' = next /\ out' = out
  BY DEF DoRetrieveAll
<1> QED
  BY <1>3, <1>4, <1>5, DropRefines

LEMMA SwapRefines ==
  ASSUME Inv, NEW x \in Buffers, NEW y \in Buffers, DoSwap(x, y)
  PROVE  QueueStep
<1>1. buf' = [buf EXCEPT ![x] = buf[y], ![y] = buf[x]] /\ next' = next /\ out' = out
      /\ DOMAIN buf = Buffers
  BY DEF DoSwap, Inv, TypeOK
<1>2. queues' = [queues EXCEPT ![x] = queues[y], ![y] = queues[x]]
  BY <1>1 DEF queues
<1>3. Queue!Swap(x, y)
  BY <1>1, <1>2 DEF Queue!Swap, queues
<1> QED
  BY <1>3 DEF QueueStep, Queue!Next

\* The buffers are queues of bytes: whatever appends, reads from a descriptor,
\* retrievals, prepends and swaps come in whatever order and length, for however
\* long, growing and compacting the vector lose, repeat and reorder no byte, and a
\* retrieval of no more than IntMax bytes drops exactly those it was asked for.  Of
\* a longer one, which arrives at retrieve() as another int, ByteQueue leaves open
\* how many it drops.
THEOREM IsByteQueue == Spec => ImplementsByteQueue
<1>1. Init => Queue!Init
  <2>1. Content(New) = <<>>
    <3>1. ReadableBytes(New) = 0
      BY BufferAssumption DEF New, Make, ReadableBytes
    <3> QED
      BY <3>1, NewIsBuffer, ContentIs, SameSeq
  <2> QED
    BY <2>1 DEF Init, Queue!Init
<1>2. Inv /\ [Next]_vars => QueueStep
  <2> SUFFICES ASSUME Inv, [Next]_vars PROVE QueueStep
    OBVIOUS
  <2>1. CASE UNCHANGED vars
    BY <2>1 DEF vars, QueueStep, queues
  <2>2. CASE Next
    BY <2>2, WriteRefines, EnsureRefines, RetrieveRefines, RetrieveAllRefines, SwapRefines
       DEF Next
  <2> QED
    BY <2>1, <2>2
<1>3. QueueStep => [Queue!Next]_<<[x \in Buffers |-> Content(buf[x])], next, out>>
  BY DEF QueueStep, queues
<1> QED
  BY InvHolds, <1>1, <1>2, <1>3, PTL DEF Spec, ImplementsByteQueue, Queue!Spec
=============================================================================
