------------------------------ MODULE Buffer ------------------------------
(***************************************************************************)
(* seenet::net::Buffer (src/buffer.h, src/buffer.cpp): the bytes a         *)
(* connection has received and not handed on, or has to send and has not   *)
(* sent.  They lie in a vector between two indices:                        *)
(*                                                                         *)
(*    0      <=      m_readerIndex   <=   m_wirterIndex   <=   size()      *)
(*    |  prependable  |     readable     |     wirtable     |              *)
(*                                                                         *)
(* The first part of the module is the methods, as functions of the value  *)
(* of a buffer; the second one is a buffer whose owner calls them in any   *)
(* order, keeping to their asserts.  Indices count from 0 as in the code;  *)
(* the byte at index i is m_buff[i + 1].                                   *)
(***************************************************************************)
EXTENDS Integers, Sequences

CONSTANTS
  Byte,            \* the values of a byte
  Zero,            \* what vector::resize fills with
  CR, LF,          \* '\r' and '\n'
  kCheapPrepend,   \* room a fresh buffer keeps for a header
  kInitialSize,    \* room a fresh buffer keeps for data
  ExtraBuf,        \* sizeof(extraBuf) in readFd()
  MaxBytes         \* bound: how many bytes the owner lets pile up

ASSUME BufferAssumption ==
  /\ {Zero, CR, LF} \subseteq Byte
  /\ {kCheapPrepend, kInitialSize, MaxBytes} \subseteq Nat
  /\ ExtraBuf \in Nat \ {0}

BufferType == [m_buff : Seq(Byte), m_readerIndex : Nat, m_wirterIndex : Nat]

-----------------------------------------------------------------------------
(* The methods.                                                            *)

readableBytes(b) == b.m_wirterIndex - b.m_readerIndex
wirtableBytes(b) == Len(b.m_buff) - b.m_wirterIndex
prependableBytes(b) == b.m_readerIndex

\* The readable bytes: what peek() points to.
Content(b) == [i \in 1..readableBytes(b) |-> b.m_buff[b.m_readerIndex + i]]

\* std::copy of the bytes d to index at.
Copy(buff, at, d) ==
  [i \in 1..Len(buff) |-> IF at < i /\ i <= at + Len(d) THEN d[i - at] ELSE buff[i]]

\* vector::resize.
Resize(buff, n) == [i \in 1..n |-> IF i <= Len(buff) THEN buff[i] ELSE Zero]

Fresh == [m_buff        |-> [i \in 1..(kCheapPrepend + kInitialSize) |-> Zero],
          m_readerIndex |-> kCheapPrepend,
          m_wirterIndex |-> kCheapPrepend]

retrieveAll(b) == [b EXCEPT !.m_readerIndex = kCheapPrepend,
                            !.m_wirterIndex = kCheapPrepend]

retrieve(b, len) == IF len < readableBytes(b)
                    THEN [b EXCEPT !.m_readerIndex = @ + len]
                    ELSE retrieveAll(b)

\* Mutant: the room of the header is forgotten in the test for what is enough.
makeSpace_NoHeader(b, len) ==
  IF wirtableBytes(b) + prependableBytes(b) < len
  THEN [b EXCEPT !.m_buff = Resize(@, b.m_wirterIndex + len)]
  ELSE [m_buff        |-> Copy(b.m_buff, kCheapPrepend, Content(b)),
        m_readerIndex |-> kCheapPrepend,
        m_wirterIndex |-> kCheapPrepend + readableBytes(b)]

\* Mutant: the data are moved to the very front of the vector.
makeSpace_ToFront(b, len) ==
  IF wirtableBytes(b) + prependableBytes(b) < len + kCheapPrepend
  THEN [b EXCEPT !.m_buff = Resize(@, b.m_wirterIndex + len)]
  ELSE [m_buff        |-> Copy(b.m_buff, 0, Content(b)),
        m_readerIndex |-> 0,
        m_wirterIndex |-> readableBytes(b)]

\* Mutant: the vector is enlarged whenever there is too little room at its end.
makeSpace_NoMove(b, len) == [b EXCEPT !.m_buff = Resize(@, b.m_wirterIndex + len)]

\* Enlarge the vector, or move the readable bytes down if that is enough.
\* The two ranges of the copy may overlap: the bytes move to lower indices,
\* lowest first, so that none is overwritten before it has been moved.
makeSpace(b, len) ==
  IF wirtableBytes(b) + prependableBytes(b) < len + kCheapPrepend
  THEN [b EXCEPT !.m_buff = Resize(@, b.m_wirterIndex + len)]
  ELSE [m_buff        |-> Copy(b.m_buff, kCheapPrepend, Content(b)),
        m_readerIndex |-> kCheapPrepend,
        m_wirterIndex |-> kCheapPrepend + readableBytes(b)]

ensureWritableBytes(b, len) == IF wirtableBytes(b) < len THEN makeSpace(b, len) ELSE b

\* The bytes d are put at beginWrite() and counted.
hasWritten(b, d) == [b EXCEPT !.m_buff = Copy(@, b.m_wirterIndex, d),
                              !.m_wirterIndex = @ + Len(d)]

append(b, d) == hasWritten(ensureWritableBytes(b, Len(d)), d)

unwrite(b, len) == [b EXCEPT !.m_wirterIndex = @ - len]

prepend(b, d) == [b EXCEPT !.m_buff = Copy(@, b.m_readerIndex - Len(d), d),
                           !.m_readerIndex = @ - Len(d)]

\* A fresh buffer takes over the content, and the old vector is dropped.
shrink(b, reserve) ==
  append(ensureWritableBytes(Fresh, readableBytes(b) + reserve), Content(b))

\* Mutant: the search goes on to the end of the vector.
Occurrences_Stale(b, start, pattern) ==
  {i \in start..(Len(b.m_buff) - Len(pattern)) :
     \A k \in 1..Len(pattern) : b.m_buff[i + k] = pattern[k]}

\* Where the pattern lies, at start or after, in the bytes that were written.
Occurrences(b, start, pattern) ==
  {i \in start..(b.m_wirterIndex - Len(pattern)) :
     \A k \in 1..Len(pattern) : b.m_buff[i + k] = pattern[k]}

\* The first one; none when the code returns NULL.
First(b, start, pattern) ==
  {i \in Occurrences(b, start, pattern) : \A j \in Occurrences(b, start, pattern) : i <= j}

CRLF == <<CR, LF>>
EOL  == <<LF>>

\* std::search; memchr
findCRLF(b, start) == First(b, start, CRLF)
findEOL(b, start) == First(b, start, EOL)

retrieveUntil(b, end) == retrieve(b, end - b.m_readerIndex)

\* What one readv() can deliver: extraBuf takes part when the buffer has less
\* room than it.
ReadLimit(b) == IF wirtableBytes(b) < ExtraBuf THEN wirtableBytes(b) + ExtraBuf
                                               ELSE wirtableBytes(b)

\* Mutant: what went to extraBuf is forgotten.
readFd_NoExtra(b, d) ==
  LET writable == wirtableBytes(b)
  IN  IF Len(d) <= writable THEN hasWritten(b, d)
                            ELSE hasWritten(b, SubSeq(d, 1, writable))

\* readv() has delivered d: the end of the vector first, extraBuf next.
readFd(b, d) ==
  LET writable == wirtableBytes(b)
  IN  IF Len(d) <= writable
      THEN hasWritten(b, d)
      ELSE append(hasWritten(b, SubSeq(d, 1, writable)), SubSeq(d, writable + 1, Len(d)))

-----------------------------------------------------------------------------
(* A buffer and its owner.                                                 *)

VARIABLES buf,    \* the buffer
          call    \* the last call of its owner, in the terms of ByteQueue

vars == <<buf, call>>

\* The data an owner can bring without piling up more than MaxBytes.
Data == UNION {[1..n -> Byte] : n \in 0..(MaxBytes - readableBytes(buf))}

Init == buf = Fresh /\ call = [op |-> "arrange"]

\* append(), appendInt8() ... appendInt64().  An integer is its bytes, in
\* network order.
AppendData == \E d \in Data : /\ buf' = append(buf, d)
                              /\ call' = [op |-> "enqueue", data |-> d]

\* ensureWritableBytes() ahead of data
Reserve == \E n \in 0..(MaxBytes - readableBytes(buf)) :
             /\ buf' = ensureWritableBytes(buf, n)
             /\ call' = [op |-> "arrange"]

\* The owner writes at beginWrite() itself, then calls hasWritten().
WriteInPlace == \E d \in Data : /\ Len(d) <= wirtableBytes(buf)
                                /\ buf' = hasWritten(buf, d)
                                /\ call' = [op |-> "enqueue", data |-> d]

Unwrite == \E n \in 0..readableBytes(buf) : /\ buf' = unwrite(buf, n)
                                            /\ call' = [op |-> "withdraw", n |-> n]

\* prepend(), prependInt8() ... prependInt64()
Prepend == \E d \in Data : /\ Len(d) <= prependableBytes(buf)
                           /\ buf' = prepend(buf, d)
                           /\ call' = [op |-> "precede", data |-> d]

\* retrieve(), retrieveInt8() ... retrieveInt64(),
\* retrieveAllAsString()
Retrieve == \E n \in 0..readableBytes(buf) : /\ buf' = retrieve(buf, n)
                                             /\ call' = [op |-> "dequeue", n |-> n]

\* readInt16() ... readInt64(): the assert of peekIntN() asks for one byte more
\* than the integer has.  readInt8() returns nothing, which is undefined: no
\* owner calls it.
ReadInt == \E n \in {2, 4, 8} : /\ readableBytes(buf) > n
                                /\ buf' = retrieve(buf, n)
                                /\ call' = [op |-> "dequeue", n |-> n]

RetrieveAll == /\ buf' = retrieveAll(buf)
               /\ call' = [op |-> "dequeue", n |-> readableBytes(buf)]

TakeLine(start, i, end) ==
  /\ buf' = retrieveUntil(buf, i + Len(end))
  /\ call' = [op |-> "line", end |-> end, from |-> start - buf.m_readerIndex]

\* The owner consumes a line.  It may begin the search for "\r\n" where an earlier
\* one has ended; the assert of findEOL() lets it begin at peek() only.
RetrieveLine ==
  \/ \E start \in buf.m_readerIndex..buf.m_wirterIndex :
       \E i \in findCRLF(buf, start) : TakeLine(start, i, CRLF)
  \/ \E i \in findEOL(buf, buf.m_readerIndex) : TakeLine(buf.m_readerIndex, i, EOL)

Shrink == \E reserve \in 0..(MaxBytes - readableBytes(buf)) :
            /\ buf' = shrink(buf, reserve)
            /\ call' = [op |-> "arrange"]

ReadFd == \E d \in Data : /\ Len(d) <= ReadLimit(buf)
                          /\ buf' = readFd(buf, d)
                          /\ call' = [op |-> "enqueue", data |-> d]

Next == \/ AppendData \/ Reserve \/ WriteInPlace \/ Unwrite \/ Prepend
        \/ Retrieve \/ ReadInt \/ RetrieveAll \/ RetrieveLine \/ Shrink \/ ReadFd

Spec == Init /\ [][Next]_vars

-----------------------------------------------------------------------------
(* Properties.                                                             *)

Queue == INSTANCE ByteQueue WITH bytes <- Content(buf)

\* Type invariant: the indices are in order and inside the vector, which the
\* asserts of the methods take for granted, and a header fits in a buffer that
\* retrieveAll() has reset.
TypeOK ==
  /\ buf \in BufferType
  /\ buf.m_readerIndex <= buf.m_wirterIndex
  /\ buf.m_wirterIndex <= Len(buf.m_buff)
  /\ kCheapPrepend <= Len(buf.m_buff)
  /\ readableBytes(buf) <= MaxBytes
  /\ call \in Queue!Call

\* A connection that lives for ever does not use ever more memory: however its
\* owner mixes appending and partial retrieving, the vector stays within twice
\* the largest backlog the owner has let pile up, because makeSpace() moves the
\* data down instead of enlarging the vector whenever that is enough.
SpaceIsBounded ==
  \/ Len(buf.m_buff) <= kCheapPrepend + kInitialSize
  \/ Len(buf.m_buff) <= kCheapPrepend + 2 * MaxBytes

\* The room for a header in front of the data is used up by prepend() alone:
\* wherever another method moves the data, kCheapPrepend bytes, or what there
\* was of them, remain in front.
HeaderRoomKept ==
  [][ \/ prependableBytes(buf') >= kCheapPrepend
      \/ prependableBytes(buf') >= prependableBytes(buf)
      \/ Prepend ]_vars

\* The buffer is a queue of bytes: every method has the effect on the content
\* that ByteQueue gives to the call, so bytes are neither lost, repeated,
\* reordered nor taken from the stale part of the vector when the data are
\* moved, the vector is enlarged or the content is split over two iovecs.
IsByteQueue == Queue!Spec
=============================================================================
