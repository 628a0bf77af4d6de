--------------------------- MODULE Buffer_proofs ---------------------------
(***************************************************************************)
(* Proofs about Buffer, for any set of bytes and any sizes.  The lemmas    *)
(* say what each method does to a sound buffer: that it stays sound, what  *)
(* becomes of its content, of the room in front and of the vector's size.  *)
(***************************************************************************)
EXTENDS Buffer, SequenceTheorems, TLAPS

\* The indices are in order and inside the vector.
Sound(b) ==
  /\ b \in BufferType
  /\ b.m_readerIndex <= b.m_wirterIndex
  /\ b.m_wirterIndex <= Len(b.m_buff)
  /\ kCheapPrepend <= Len(b.m_buff)

\* The vector is as small as SpaceIsBounded asks.
Small(b) == \/ Len(b.m_buff) <= kCheapPrepend + kInitialSize
            \/ Len(b.m_buff) <= kCheapPrepend + 2 * MaxBytes

\* The room for a header in c is not less than in b, or is all that is asked.
RoomKept(b, c) == \/ prependableBytes(c) >= kCheapPrepend
                  \/ prependableBytes(c) >= prependableBytes(b)

IInv == /\ Sound(buf)
        /\ readableBytes(buf) <= MaxBytes
        /\ Small(buf)
        /\ call \in Queue!Call

-----------------------------------------------------------------------------
(* Sequences.                                                              *)

\* A function on 1..n is a sequence of length n.
LEMMA FunctionIsSeq ==
  ASSUME NEW S, NEW n \in Nat, NEW f \in [1..n -> S]
  PROVE  f \in Seq(S) /\ Len(f) = n /\ DOMAIN f = 1..n
  OBVIOUS

\* ConcatAssociative, for sequences of bytes.
LEMMA Associativity ==
  \A s, t, u \in Seq(Byte) : (s \o t) \o u = s \o (t \o u)
BY ConcatAssociative

\* Copying keeps the length, puts d at its place and leaves the rest alone.
LEMMA CopyProperties ==
  ASSUME NEW buff \in Seq(Byte), NEW at \in Nat, NEW d \in Seq(Byte)
  PROVE  /\ Copy(buff, at, d) \in Seq(Byte)
         /\ Len(Copy(buff, at, d)) = Len(buff)
         /\ \A i \in 1..Len(buff) :
              Copy(buff, at, d)[i] = IF at < i /\ i <= at + Len(d) THEN d[i - at] ELSE buff[i]
<1> DEFINE c == Copy(buff, at, d)
<1>1. Len(buff) \in Nat /\ Len(d) \in Nat
  BY LenProperties
<1>2. c = [i \in 1..Len(buff) |->
             IF at < i /\ i <= at + Len(d) THEN d[i - at] ELSE buff[i]]
  BY DEF Copy
<1>3. ASSUME NEW i \in 1..Len(buff)
      PROVE  (IF at < i /\ i <= at + Len(d) THEN d[i - at] ELSE buff[i]) \in Byte
  <2>1. at < i /\ i <= at + Len(d) => i - at \in 1..Len(d)
    BY <1>1
  <2> QED BY <1>1, <2>1, ElementOfSeq
<1>4. c \in [1..Len(buff) -> Byte]
  BY <1>2, <1>3
<1> QED BY <1>1, <1>2, <1>4, FunctionIsSeq

\* Enlarging keeps what was there.
LEMMA ResizeProperties ==
  ASSUME NEW buff \in Seq(Byte), NEW n \in Nat, Len(buff) <= n
  PROVE  /\ Resize(buff, n) \in Seq(Byte)
         /\ Len(Resize(buff, n)) = n
         /\ \A i \in 1..Len(buff) : Resize(buff, n)[i] = buff[i]
<1>1. Len(buff) \in Nat
  BY LenProperties
<1>2. ASSUME NEW i \in 1..n
      PROVE  (IF i <= Len(buff) THEN buff[i] ELSE Zero) \in Byte
  BY <1>1, ElementOfSeq, BufferAssumption
<1>3. Resize(buff, n) \in [1..n -> Byte]
  BY <1>2 DEF Resize
<1> QED BY <1>1, <1>3, FunctionIsSeq DEF Resize

\* The content is a sequence of bytes, as long as the indices say.
LEMMA ContentProperties ==
  ASSUME NEW b, Sound(b)
  PROVE  /\ readableBytes(b) \in Nat
         /\ Content(b) \in Seq(Byte)
         /\ Len(Content(b)) = readableBytes(b)
         /\ \A i \in 1..readableBytes(b) : Content(b)[i] = b.m_buff[b.m_readerIndex + i]
<1>1. /\ b.m_buff \in Seq(Byte) /\ b.m_readerIndex \in Nat /\ b.m_wirterIndex \in Nat
      /\ Len(b.m_buff) \in Nat /\ readableBytes(b) \in Nat
  BY LenProperties DEF Sound, BufferType, readableBytes
<1>2. ASSUME NEW i \in 1..readableBytes(b)
      PROVE  b.m_buff[b.m_readerIndex + i] \in Byte
  <2>1. b.m_readerIndex + i \in 1..Len(b.m_buff)
    BY <1>1 DEF Sound, readableBytes
  <2> QED BY <1>1, <2>1, ElementOfSeq
<1>3. Content(b) \in [1..readableBytes(b) -> Byte]
  BY <1>2 DEF Content
<1> QED BY <1>1, <1>3, FunctionIsSeq DEF Content

\* How the three regions of a sound buffer lie.
LEMMA Regions ==
  ASSUME NEW b, Sound(b)
  PROVE  /\ b.m_buff \in Seq(Byte) /\ Len(b.m_buff) \in Nat
         /\ b.m_readerIndex \in Nat /\ b.m_wirterIndex \in Nat
         /\ readableBytes(b) \in Nat /\ wirtableBytes(b) \in Nat
         /\ prependableBytes(b) = b.m_readerIndex
         /\ readableBytes(b) = b.m_wirterIndex - b.m_readerIndex
         /\ wirtableBytes(b) = Len(b.m_buff) - b.m_wirterIndex
         /\ kCheapPrepend \in Nat
<1>1. /\ b.m_buff \in Seq(Byte) /\ b.m_readerIndex \in Nat /\ b.m_wirterIndex \in Nat
      /\ b.m_readerIndex <= b.m_wirterIndex /\ b.m_wirterIndex <= Len(b.m_buff)
  BY DEF Sound, BufferType
<1>2. Len(b.m_buff) \in Nat
  BY <1>1, LenProperties
<1> QED BY <1>1, <1>2, BufferAssumption DEF readableBytes, wirtableBytes, prependableBytes

-----------------------------------------------------------------------------
(* The methods.                                                            *)

\* A fresh buffer is sound, empty, and has the room that was asked for.
LEMMA FreshProperties ==
  /\ Sound(Fresh)
  /\ readableBytes(Fresh) = 0
  /\ Content(Fresh) = <<>>
  /\ prependableBytes(Fresh) = kCheapPrepend
  /\ Len(Fresh.m_buff) = kCheapPrepend + kInitialSize
<1> DEFINE n == kCheapPrepend + kInitialSize
           z == [i \in 1..n |-> Zero]
<1>1. n \in Nat /\ kCheapPrepend \in Nat /\ kCheapPrepend <= n
  BY BufferAssumption
<1>2. z \in Seq(Byte) /\ Len(z) = n
  <2>1. z \in [1..n -> Byte]
    BY BufferAssumption
  <2> HIDE DEF z, n
  <2> QED BY <1>1, <2>1, FunctionIsSeq
<1>3. Fresh = [m_buff |-> z, m_readerIndex |-> kCheapPrepend, m_wirterIndex |-> kCheapPrepend]
  BY DEF Fresh
<1> HIDE DEF z
<1>4. Sound(Fresh) /\ readableBytes(Fresh) = 0
  BY <1>1, <1>2, <1>3 DEF Sound, BufferType, readableBytes
<1>5. Content(Fresh) = <<>>
  BY <1>4, ContentProperties, EmptySeq
<1> QED BY <1>2, <1>3, <1>4, <1>5 DEF prependableBytes

\* Writing behind the readable bytes appends to the content.
LEMMA HasWrittenProperties ==
  ASSUME NEW b, Sound(b), NEW d \in Seq(Byte), Len(d) <= wirtableBytes(b)
  PROVE  LET c == hasWritten(b, d)
         IN  /\ Sound(c)
             /\ Content(c) = Content(b) \o d
             /\ readableBytes(c) = readableBytes(b) + Len(d)
             /\ prependableBytes(c) = prependableBytes(b)
             /\ Len(c.m_buff) = Len(b.m_buff)
             /\ wirtableBytes(c) = wirtableBytes(b) - Len(d)
<1> DEFINE c == hasWritten(b, d)
           m == Copy(b.m_buff, b.m_wirterIndex, d)
<1>1. b.m_buff \in Seq(Byte)
  BY Regions
<1>2. /\ Len(b.m_buff) \in Nat /\ b.m_readerIndex \in Nat /\ b.m_wirterIndex \in Nat
      /\ readableBytes(b) \in Nat /\ wirtableBytes(b) \in Nat
      /\ readableBytes(b) = b.m_wirterIndex - b.m_readerIndex
      /\ wirtableBytes(b) = Len(b.m_buff) - b.m_wirterIndex
      /\ Len(d) \in Nat /\ Len(d) <= wirtableBytes(b)
  BY Regions, LenProperties
<1>3. /\ m \in Seq(Byte) /\ Len(m) = Len(b.m_buff)
      /\ \A i \in 1..Len(b.m_buff) :
           m[i] = IF b.m_wirterIndex < i /\ i <= b.m_wirterIndex + Len(d)
                  THEN d[i - b.m_wirterIndex] ELSE b.m_buff[i]
  <2>1. b.m_wirterIndex \in Nat
    BY <1>2
  <2> QED BY SMTT(30), <1>1, <2>1, CopyProperties
<1>4. /\ c.m_buff = m /\ c.m_readerIndex = b.m_readerIndex
      /\ c.m_wirterIndex = b.m_wirterIndex + Len(d)
      /\ c \in BufferType
  <2>1. b \in BufferType
    BY DEF Sound
  <2>2. c = [[b EXCEPT !.m_buff = m] EXCEPT !.m_wirterIndex = b.m_wirterIndex + Len(d)]
    BY <2>1 DEF hasWritten, BufferType
  <2>3. b.m_wirterIndex + Len(d) \in Nat
    BY <1>2
  <2> HIDE DEF c, m
  <2> QED BY <1>3, <2>1, <2>2, <2>3 DEF BufferType
<1> HIDE DEF c, m
<1>5. readableBytes(c) = readableBytes(b) + Len(d)
  BY <1>2, <1>4 DEF readableBytes
<1>6. Sound(c)
  <2>1. /\ b.m_readerIndex <= b.m_wirterIndex + Len(d)
        /\ b.m_wirterIndex + Len(d) <= Len(b.m_buff)
    BY <1>2
  <2>2. kCheapPrepend <= Len(b.m_buff)
    BY DEF Sound
  <2> QED BY <1>3, <1>4, <2>1, <2>2 DEF Sound
<1>7. Content(c) = Content(b) \o d
  <2>1. /\ Content(b) \o d \in Seq(Byte)
        /\ Len(Content(b) \o d) = readableBytes(b) + Len(d)
        /\ \A i \in 1..readableBytes(b) + Len(d) : (Content(b) \o d)[i] =
              IF i <= readableBytes(b) THEN Content(b)[i] ELSE d[i - readableBytes(b)]
    BY ContentProperties, ConcatProperties
  <2>2. ASSUME NEW i \in 1..readableBytes(b) + Len(d)
        PROVE  Content(c)[i] = (Content(b) \o d)[i]
    <3>1. i \in Nat /\ 1 <= i /\ i <= readableBytes(b) + Len(d)
      BY <1>2
    <3>2. Content(c)[i] = m[b.m_readerIndex + i]
      BY <1>4, <1>5, <1>6, ContentProperties
    <3>3. b.m_readerIndex + i \in 1..Len(b.m_buff)
      <4>1. /\ b.m_wirterIndex = b.m_readerIndex + readableBytes(b)
            /\ Len(b.m_buff) = b.m_wirterIndex + wirtableBytes(b)
        BY <1>2
      <4>2. /\ b.m_readerIndex \in Nat /\ readableBytes(b) \in Nat
            /\ wirtableBytes(b) \in Nat /\ Len(d) \in Nat /\ Len(d) <= wirtableBytes(b)
        BY <1>2
      <4>3. /\ Len(b.m_buff) = b.m_readerIndex + readableBytes(b) + wirtableBytes(b)
            /\ b.m_readerIndex + i <= b.m_readerIndex + readableBytes(b) + Len(d)
        BY <3>1, <4>1, <4>2
      <4> QED BY SMTT(30), <3>1, <4>2, <4>3
    <3>4. CASE i <= readableBytes(b)
      <4>1. ~(b.m_wirterIndex < b.m_readerIndex + i)
        BY <1>2, <3>1, <3>4
      <4>2. m[b.m_readerIndex + i] = b.m_buff[b.m_readerIndex + i]
        BY <1>3, <3>3, <4>1
      <4>3. i \in 1..readableBytes(b)
        BY <1>2, <3>1, <3>4
      <4> QED BY <2>1, <3>2, <3>4, <4>2, <4>3, ContentProperties
    <3>5. CASE ~(i <= readableBytes(b))
      <4>1. (Content(b) \o d)[i] = d[i - readableBytes(b)]
        BY <2>1, <3>5
      <4>2. /\ b.m_wirterIndex < b.m_readerIndex + i
            /\ b.m_readerIndex + i <= b.m_wirterIndex + Len(d)
            /\ (b.m_readerIndex + i) - b.m_wirterIndex = i - readableBytes(b)
        <5>1. b.m_wirterIndex = b.m_readerIndex + readableBytes(b)
          BY <1>2
        <5>2. /\ b.m_readerIndex \in Int /\ readableBytes(b) \in Int /\ i \in Int
              /\ Len(d) \in Int
          BY <1>2, <3>1
        <5> QED BY <3>1, <3>5, <5>1, <5>2
      <4> QED BY <1>3, <3>2, <3>3, <4>1, <4>2
    <3> QED BY <3>4, <3>5
  <2>3. Content(c) \in Seq(Byte) /\ Len(Content(c)) = readableBytes(b) + Len(d)
    BY <1>5, <1>6, ContentProperties
  <2> QED BY <2>1, <2>2, <2>3, SeqEqual
<1>8. /\ prependableBytes(c) = prependableBytes(b)
      /\ Len(c.m_buff) = Len(b.m_buff)
      /\ wirtableBytes(c) = wirtableBytes(b) - Len(d)
  BY <1>2, <1>3, <1>4 DEF prependableBytes, wirtableBytes
<1> QED BY <1>5, <1>6, <1>7, <1>8 DEF c

\* Making room changes no content: there is then room for len more bytes, the
\* room for a header is kept, and the vector is enlarged only when moving the
\* data down would not have been enough.
LEMMA EnsureProperties ==
  ASSUME NEW b, Sound(b), NEW len \in Nat
  PROVE  LET c == ensureWritableBytes(b, len)
         IN  /\ Sound(c)
             /\ Content(c) = Content(b)
             /\ readableBytes(c) = readableBytes(b)
             /\ len <= wirtableBytes(c)
             /\ RoomKept(b, c)
             /\ \/ Len(c.m_buff) = Len(b.m_buff)
                \/ Len(c.m_buff) < kCheapPrepend + readableBytes(b) + len + len
<1> DEFINE c == ensureWritableBytes(b, len)
<1>0. b.m_buff \in Seq(Byte)
  BY Regions
<1>1. /\ Len(b.m_buff) \in Nat
      /\ b.m_readerIndex \in Nat /\ b.m_wirterIndex \in Nat
      /\ readableBytes(b) \in Nat /\ wirtableBytes(b) \in Nat
      /\ prependableBytes(b) = b.m_readerIndex
      /\ readableBytes(b) = b.m_wirterIndex - b.m_readerIndex
      /\ wirtableBytes(b) = Len(b.m_buff) - b.m_wirterIndex
      /\ kCheapPrepend \in Nat
  BY Regions
<1>2. CASE len <= wirtableBytes(b)
  <2>1. c = b
    BY <1>1, <1>2 DEF ensureWritableBytes, wirtableBytes
  <2> QED BY <1>1, <1>2, <2>1 DEF RoomKept, prependableBytes
<1>3. CASE /\ wirtableBytes(b) < len
           /\ wirtableBytes(b) + prependableBytes(b) < len + kCheapPrepend
  <2> DEFINE m == Resize(b.m_buff, b.m_wirterIndex + len)
  <2>1. Len(b.m_buff) <= b.m_wirterIndex + len /\ b.m_wirterIndex + len \in Nat
    BY SMTT(30), <1>1, <1>3
  <2>2. /\ m \in Seq(Byte) /\ Len(m) = b.m_wirterIndex + len
        /\ \A i \in 1..Len(b.m_buff) : m[i] = b.m_buff[i]
    BY <1>0, <2>1, ResizeProperties
  <2>3. c = [b EXCEPT !.m_buff = m]
    BY <1>3 DEF ensureWritableBytes, makeSpace
  <2> HIDE DEF m
  <2>4. /\ c.m_buff = m /\ c.m_readerIndex = b.m_readerIndex
        /\ c.m_wirterIndex = b.m_wirterIndex /\ c \in BufferType
    BY <1>1, <2>2, <2>3 DEF Sound, BufferType
  <2> HIDE DEF c
  <2>5. Sound(c) /\ readableBytes(c) = readableBytes(b)
    BY <1>1, <2>1, <2>2, <2>4 DEF Sound, readableBytes
  <2>6. ASSUME NEW i \in 1..readableBytes(b)
        PROVE  Content(c)[i] = Content(b)[i]
    <3>1. b.m_readerIndex + i \in 1..Len(b.m_buff)
      <4>1. b.m_readerIndex + i <= b.m_wirterIndex
        BY <1>1
      <4>2. b.m_wirterIndex <= Len(b.m_buff)
        BY <1>1
      <4> QED BY <1>1, <4>1, <4>2
    <3> QED BY SMTT(30), <2>2, <2>4, <2>5, <3>1, ContentProperties
  <2>7. Content(c) = Content(b)
    BY <2>5, <2>6, ContentProperties, SeqEqual
  <2>8. Len(m) < kCheapPrepend + readableBytes(b) + len + len
    <3>1. b.m_readerIndex < len + kCheapPrepend
      <4>1. wirtableBytes(b) + b.m_readerIndex < len + kCheapPrepend
        BY <1>1, <1>3
      <4> QED BY <1>1, <4>1
    <3>2. Len(m) = b.m_wirterIndex + len
      BY <2>2
    <3>3. b.m_wirterIndex = b.m_readerIndex + readableBytes(b)
      BY <1>1
    <3> QED BY <1>1, <3>1, <3>2, <3>3
  <2>9. len <= wirtableBytes(c) /\ RoomKept(b, c)
    BY <1>1, <2>2, <2>4 DEF RoomKept, wirtableBytes, prependableBytes
  <2> QED BY <2>4, <2>5, <2>7, <2>8, <2>9 DEF c
<1>4. CASE /\ wirtableBytes(b) < len
           /\ ~(wirtableBytes(b) + prependableBytes(b) < len + kCheapPrepend)
  <2> DEFINE m == Copy(b.m_buff, kCheapPrepend, Content(b))
  <2>1. /\ m \in Seq(Byte) /\ Len(m) = Len(b.m_buff)
        /\ \A i \in 1..Len(b.m_buff) :
             m[i] = IF kCheapPrepend < i /\ i <= kCheapPrepend + readableBytes(b)
                    THEN Content(b)[i - kCheapPrepend] ELSE b.m_buff[i]
    <3>1. Content(b) \in Seq(Byte) /\ Len(Content(b)) = readableBytes(b)
      BY ContentProperties
    <3>2. /\ m \in Seq(Byte) /\ Len(m) = Len(b.m_buff)
          /\ \A i \in 1..Len(b.m_buff) :
               m[i] = IF kCheapPrepend < i /\ i <= kCheapPrepend + Len(Content(b))
                      THEN Content(b)[i - kCheapPrepend] ELSE b.m_buff[i]
      <4>1. kCheapPrepend \in Nat
        BY <1>1
      <4> QED BY SMTT(30), <1>0, <3>1, <4>1, CopyProperties
    <3> HIDE DEF m
    <3> QED BY <3>1, <3>2
  <2>2. c = [m_buff        |-> m,
             m_readerIndex |-> kCheapPrepend,
             m_wirterIndex |-> kCheapPrepend + readableBytes(b)]
    BY <1>4 DEF ensureWritableBytes, makeSpace
  <2> HIDE DEF m
  <2>3. /\ c.m_buff = m /\ c.m_readerIndex = kCheapPrepend
        /\ c.m_wirterIndex = kCheapPrepend + readableBytes(b) /\ c \in BufferType
    BY <1>1, <2>1, <2>2 DEF BufferType
  <2> HIDE DEF c
  <2>4. kCheapPrepend + readableBytes(b) + len <= Len(b.m_buff)
    <3>1. ~(wirtableBytes(b) + b.m_readerIndex < len + kCheapPrepend)
      BY <1>1, <1>4
    <3>2. Len(b.m_buff) = b.m_readerIndex + readableBytes(b) + wirtableBytes(b)
      BY <1>1
    <3> QED BY <1>1, <3>1, <3>2
  <2>5. Sound(c) /\ readableBytes(c) = readableBytes(b)
    BY <1>1, <2>1, <2>3, <2>4 DEF Sound, readableBytes
  <2>6. ASSUME NEW i \in 1..readableBytes(b)
        PROVE  Content(c)[i] = Content(b)[i]
    <3>1. /\ kCheapPrepend + i \in 1..Len(b.m_buff)
          /\ kCheapPrepend < kCheapPrepend + i
          /\ kCheapPrepend + i <= kCheapPrepend + readableBytes(b)
          /\ (kCheapPrepend + i) - kCheapPrepend = i
      <4>1. /\ i \in Nat /\ 1 <= i /\ i <= readableBytes(b) /\ kCheapPrepend \in Nat
            /\ Len(b.m_buff) \in Nat /\ kCheapPrepend + readableBytes(b) <= Len(b.m_buff)
        BY <1>1, <2>4
      <4>2. readableBytes(b) \in Nat
        BY <1>1
      <4> QED BY <4>1, <4>2
    <3>2. m[kCheapPrepend + i] = Content(b)[i]
      BY <2>1, <3>1
    <3> QED BY <2>3, <2>5, <3>2, ContentProperties
  <2>7. Content(c) = Content(b)
    BY <2>5, <2>6, ContentProperties, SeqEqual
  <2>8. len <= wirtableBytes(c) /\ RoomKept(b, c)
    BY <1>1, <2>1, <2>3, <2>4 DEF RoomKept, wirtableBytes, prependableBytes
  <2> QED BY <2>1, <2>3, <2>5, <2>7, <2>8 DEF c
<1> QED BY <1>1, <1>2, <1>3, <1>4 DEF wirtableBytes

\* Making room for data that the owner may bring keeps the vector small.
LEMMA EnsureSmall ==
  ASSUME NEW b, Sound(b), Small(b), NEW len \in Nat, readableBytes(b) + len <= MaxBytes
  PROVE  Small(ensureWritableBytes(b, len))
<1> DEFINE c == ensureWritableBytes(b, len)
<1>1. /\ readableBytes(b) \in Nat /\ kCheapPrepend \in Nat /\ MaxBytes \in Nat
      /\ Len(b.m_buff) \in Nat
  BY Regions, BufferAssumption
<1>2. /\ Sound(c)
      /\ \/ Len(c.m_buff) = Len(b.m_buff)
         \/ Len(c.m_buff) < kCheapPrepend + readableBytes(b) + len + len
  BY EnsureProperties
<1>3. Len(c.m_buff) \in Nat
  BY <1>2, Regions
<1> HIDE DEF c
<1>4. CASE Len(c.m_buff) = Len(b.m_buff)
  BY <1>4 DEF Small, c
<1>5. CASE Len(c.m_buff) < kCheapPrepend + readableBytes(b) + len + len
  <2>1. Len(c.m_buff) <= kCheapPrepend + 2 * MaxBytes
    BY <1>1, <1>3, <1>5
  <2> QED BY <2>1 DEF Small, c
<1> QED BY <1>2, <1>4, <1>5

\* append() appends.
LEMMA AppendMethodProperties ==
  ASSUME NEW b, Sound(b), NEW d \in Seq(Byte)
  PROVE  LET c == append(b, d)
         IN  /\ Sound(c)
             /\ Content(c) = Content(b) \o d
             /\ readableBytes(c) = readableBytes(b) + Len(d)
             /\ RoomKept(b, c)
             /\ Small(b) /\ readableBytes(b) + Len(d) <= MaxBytes => Small(c)
<1> DEFINE e == ensureWritableBytes(b, Len(d))
           c == hasWritten(e, d)
<1>1. Len(d) \in Nat
  BY LenProperties
<1>2. /\ Sound(e) /\ Content(e) = Content(b) /\ readableBytes(e) = readableBytes(b)
      /\ Len(d) <= wirtableBytes(e) /\ RoomKept(b, e)
  BY <1>1, EnsureProperties
<1>3. Small(b) /\ readableBytes(b) + Len(d) <= MaxBytes => Small(e)
  BY <1>1, EnsureSmall
<1> HIDE DEF e
<1>4. /\ Sound(c) /\ Content(c) = Content(e) \o d
      /\ readableBytes(c) = readableBytes(e) + Len(d)
      /\ prependableBytes(c) = prependableBytes(e)
      /\ Len(c.m_buff) = Len(e.m_buff)
  BY <1>2, HasWrittenProperties
<1>5. c = append(b, d)
  BY DEF append, e
<1> HIDE DEF c
<1> QED BY <1>2, <1>3, <1>4, <1>5 DEF RoomKept, Small

\* Consuming all of the content resets the indices.
LEMMA RetrieveAllProperties ==
  ASSUME NEW b, Sound(b)
  PROVE  LET c == retrieveAll(b)
         IN  /\ Sound(c)
             /\ Content(c) = SubSeq(Content(b), readableBytes(b) + 1, Len(Content(b)))
             /\ readableBytes(c) = 0
             /\ RoomKept(b, c)
             /\ c.m_buff = b.m_buff
<1> DEFINE c == retrieveAll(b)
<1>1. b \in BufferType /\ kCheapPrepend \in Nat /\ kCheapPrepend <= Len(b.m_buff)
  BY Regions DEF Sound
<1>2. /\ c.m_buff = b.m_buff /\ c.m_readerIndex = kCheapPrepend
      /\ c.m_wirterIndex = kCheapPrepend /\ c \in BufferType
  BY <1>1 DEF retrieveAll, BufferType
<1> HIDE DEF c
<1>3. readableBytes(c) = 0 /\ Sound(c) /\ RoomKept(b, c)
  BY <1>1, <1>2 DEF readableBytes, prependableBytes, RoomKept, Sound
<1>4. Content(c) = <<>>
  BY <1>3, ContentProperties, EmptySeq
<1>5. SubSeq(Content(b), readableBytes(b) + 1, Len(Content(b))) = <<>>
  <2>1. readableBytes(b) \in Nat /\ Len(Content(b)) = readableBytes(b)
    BY ContentProperties
  <2> QED BY <2>1, SubSeqEmpty
<1> QED BY <1>2, <1>3, <1>4, <1>5 DEF c

\* Consuming n bytes drops the first n bytes of the content.
LEMMA RetrieveProperties ==
  ASSUME NEW b, Sound(b), NEW n \in Nat, n <= readableBytes(b)
  PROVE  LET c == retrieve(b, n)
         IN  /\ Sound(c)
             /\ Content(c) = SubSeq(Content(b), n + 1, Len(Content(b)))
             /\ readableBytes(c) = readableBytes(b) - n
             /\ RoomKept(b, c)
             /\ c.m_buff = b.m_buff
<1> DEFINE c == retrieve(b, n)
<1>1. /\ b.m_readerIndex \in Nat /\ b.m_wirterIndex \in Nat /\ readableBytes(b) \in Nat
      /\ readableBytes(b) = b.m_wirterIndex - b.m_readerIndex
      /\ prependableBytes(b) = b.m_readerIndex
  BY Regions
<1>2. CASE n < readableBytes(b)
  <2>1. b \in BufferType
    BY DEF Sound
  <2>2. /\ c.m_buff = b.m_buff /\ c.m_readerIndex = b.m_readerIndex + n
        /\ c.m_wirterIndex = b.m_wirterIndex /\ c \in BufferType
    BY <1>2, <2>1 DEF retrieve, BufferType
  <2> HIDE DEF c
  <2>3. readableBytes(c) = readableBytes(b) - n
    BY <1>1, <2>2 DEF readableBytes
  <2>4. c.m_readerIndex <= c.m_wirterIndex
    BY <1>1, <1>2, <2>2
  <2>5. Sound(c)
    BY <2>2, <2>4 DEF Sound
  <2>6. RoomKept(b, c)
    BY <1>1, <2>2 DEF RoomKept, prependableBytes
  <2>7. /\ Content(b) \in Seq(Byte) /\ Len(Content(b)) = readableBytes(b)
        /\ Content(c) \in Seq(Byte) /\ Len(Content(c)) = readableBytes(b) - n
    BY <2>3, <2>5, ContentProperties
  <2> DEFINE t == SubSeq(Content(b), n + 1, Len(Content(b)))
  <2>8. /\ t \in Seq(Byte) /\ Len(t) = readableBytes(b) - n
        /\ \A i \in 1..readableBytes(b) - n : t[i] = Content(b)[n + i]
    <3>1. \A i \in (n + 1)..readableBytes(b) : Content(b)[i] \in Byte
      BY <1>1, <2>7, ElementOfSeq
    <3>2. /\ t \in Seq(Byte)
          /\ Len(t) = IF n + 1 <= readableBytes(b) THEN readableBytes(b) - (n + 1) + 1 ELSE 0
          /\ \A i \in 1..readableBytes(b) - (n + 1) + 1 : t[i] = Content(b)[(n + 1) + i - 1]
      BY <1>1, <2>7, <3>1, SubSeqProperties
    <3> HIDE DEF t
    <3>3. readableBytes(b) - (n + 1) + 1 = readableBytes(b) - n /\ n + 1 <= readableBytes(b)
      BY <1>1, <1>2
    <3>4. \A i \in 1..readableBytes(b) - n : (n + 1) + i - 1 = n + i
      BY <1>1
    <3> QED BY <3>2, <3>3, <3>4
  <2> HIDE DEF t
  <2>9. ASSUME NEW i \in 1..readableBytes(b) - n
        PROVE  Content(c)[i] = t[i]
    <3>1. i \in Nat /\ n + i \in 1..readableBytes(b)
      BY <1>1
    <3>2. Content(c)[i] = b.m_buff[(b.m_readerIndex + n) + i]
      BY <2>2, <2>3, <2>5, ContentProperties
    <3>3. Content(b)[n + i] = b.m_buff[b.m_readerIndex + (n + i)]
      BY <3>1, ContentProperties
    <3>4. (b.m_readerIndex + n) + i = b.m_readerIndex + (n + i)
      BY <1>1, <3>1
    <3> QED BY <2>8, <3>2, <3>3, <3>4
  <2>10. Content(c) = t
    BY <2>7, <2>8, <2>9, SeqEqual
  <2> QED BY <2>2, <2>3, <2>5, <2>6, <2>10 DEF c, t
<1>3. CASE ~(n < readableBytes(b))
  <2>1. n = readableBytes(b) /\ c = retrieveAll(b)
    BY <1>1, <1>3 DEF retrieve
  <2> HIDE DEF c
  <2>2. readableBytes(b) - n = 0
    BY <1>1, <2>1
  <2> QED BY <2>1, <2>2, RetrieveAllProperties DEF c
<1> QED BY <1>2, <1>3

\* What the search of a pattern finds is where the first line ends that does so
\* not before from bytes and the pattern.
LEMMA LineProperties ==
  ASSUME NEW b, Sound(b), NEW start \in b.m_readerIndex..b.m_wirterIndex,
         NEW end \in Seq(Byte), Len(end) >= 1, NEW i \in First(b, start, end)
  PROVE  LET n    == (i + Len(end)) - b.m_readerIndex
             from == start - b.m_readerIndex
         IN  /\ from \in Nat /\ n \in 1..readableBytes(b)
             /\ Queue!EndsAt(Content(b), n, end) /\ from + Len(end) <= n
             /\ \A m \in 1..(n - 1) :
                  Queue!EndsAt(Content(b), m, end) => m < from + Len(end)
<1> DEFINE n    == (i + Len(end)) - b.m_readerIndex
           from == start - b.m_readerIndex
           L    == Len(end)
           r    == b.m_readerIndex
           w    == b.m_wirterIndex
<1>1. /\ r \in Nat /\ w \in Nat /\ r <= w /\ L \in Nat /\ L >= 1
      /\ readableBytes(b) = w - r /\ start \in r..w
  BY Regions, LenProperties DEF Sound
<1>2. /\ i \in start..(w - L)
      /\ \A k \in 1..L : b.m_buff[i + k] = end[k]
      /\ \A j \in Occurrences(b, start, end) : i <= j
  BY DEF First, Occurrences
<1>3. n = (i + L) - r /\ from = start - r
  OBVIOUS
<1>4. \A k \in 1..readableBytes(b) : Content(b)[k] = b.m_buff[r + k]
  BY ContentProperties
<1>5. Occurrences(b, start, end) =
        {j \in start..(w - L) : \A k \in 1..L : b.m_buff[j + k] = end[k]}
  BY DEF Occurrences
<1>6. \A m : Queue!EndsAt(Content(b), m, end) <=>
              L <= m /\ \A k \in 1..L : Content(b)[m - L + k] = end[k]
  BY DEF Queue!EndsAt
<1> HIDE DEF n, from, L, r, w
<1>7. from \in Nat /\ n \in 1..readableBytes(b) /\ from + L <= n /\ L <= n
  BY <1>1, <1>2, <1>3
<1>8. Queue!EndsAt(Content(b), n, end)
  <2>1. ASSUME NEW k \in 1..L PROVE Content(b)[n - L + k] = end[k]
    <3>1. n - L + k \in 1..readableBytes(b) /\ r + (n - L + k) = i + k
      <4>1. k \in Int /\ 1 <= k /\ k <= L /\ i \in Int /\ start <= i /\ i <= w - L
        BY <1>1, <1>2
      <4>2. /\ r \in Int /\ w \in Int /\ L \in Int /\ start \in Int /\ r <= start
            /\ readableBytes(b) = w - r
        BY <1>1
      <4>3. n = (i + L) - r
        BY <1>3
      <4>4. n - L + k = i - r + k
        BY <4>1, <4>2, <4>3
      <4> QED BY <4>1, <4>2, <4>4
    <3>2. Content(b)[n - L + k] = b.m_buff[i + k]
      BY <1>4, <3>1
    <3> QED BY <1>2, <3>2
  <2> QED BY <1>6, <1>7, <2>1
<1>9. ASSUME NEW m \in 1..(n - 1), Queue!EndsAt(Content(b), m, end)
      PROVE  m < from + L
  <2> SUFFICES ASSUME ~(m < from + L) PROVE FALSE
    OBVIOUS
  <2> DEFINE j == r + m - L
  <2>1. /\ j \in start..(w - L) /\ ~(i <= j) /\ L <= m
        /\ m \in Nat /\ m <= readableBytes(b)
    <3>1. L <= m
      BY <1>6, <1>9
    <3>2. m \in Nat /\ m <= n - 1 /\ from + L <= m /\ n \in Nat /\ n <= w - r
      BY <1>1, <1>3, <1>7, <1>9
    <3> QED BY <1>1, <1>2, <1>3, <3>1, <3>2
  <2>2. ASSUME NEW k \in 1..L PROVE b.m_buff[j + k] = end[k]
    <3>1. m - L + k \in 1..readableBytes(b) /\ r + (m - L + k) = j + k
      <4>1. k \in Int /\ 1 <= k /\ k <= L /\ m \in Int /\ m <= readableBytes(b) /\ L <= m
        BY <1>1, <2>1
      <4>2. r \in Int /\ L \in Int /\ readableBytes(b) \in Int
        BY <1>1
      <4> QED BY <4>1, <4>2
    <3>2. Content(b)[m - L + k] = b.m_buff[j + k]
      BY <1>4, <3>1
    <3> QED BY <1>6, <1>9, <3>2
  <2> HIDE DEF j
  <2> QED BY <1>2, <1>5, <2>1, <2>2
<1> QED BY <1>7, <1>8, <1>9 DEF n, from, L, r

\* unwrite() drops the last n bytes of the content.
LEMMA UnwriteProperties ==
  ASSUME NEW b, Sound(b), NEW n \in Nat, n <= readableBytes(b)
  PROVE  LET c == unwrite(b, n)
         IN  /\ Sound(c)
             /\ Content(c) = SubSeq(Content(b), 1, Len(Content(b)) - n)
             /\ readableBytes(c) = readableBytes(b) - n
             /\ prependableBytes(c) = prependableBytes(b)
             /\ c.m_buff = b.m_buff
<1> DEFINE c == unwrite(b, n)
           k == readableBytes(b) - n
           t == SubSeq(Content(b), 1, Len(Content(b)) - n)
<1>1. /\ b.m_readerIndex \in Nat /\ b.m_wirterIndex \in Nat /\ readableBytes(b) \in Nat
      /\ readableBytes(b) = b.m_wirterIndex - b.m_readerIndex
      /\ Len(b.m_buff) \in Nat /\ b.m_wirterIndex <= Len(b.m_buff)
  BY Regions DEF Sound
<1>2. /\ b.m_wirterIndex - n \in Nat /\ b.m_readerIndex <= b.m_wirterIndex - n
      /\ b.m_wirterIndex - n <= Len(b.m_buff) /\ k \in Nat
  BY <1>1
<1>3. b \in BufferType
  BY DEF Sound
<1>4. /\ c.m_buff = b.m_buff /\ c.m_readerIndex = b.m_readerIndex
      /\ c.m_wirterIndex = b.m_wirterIndex - n /\ c \in BufferType
  BY <1>2, <1>3 DEF unwrite, BufferType
<1> HIDE DEF c
<1>5. readableBytes(c) = k
  BY <1>1, <1>4 DEF readableBytes
<1>6. Sound(c)
  BY <1>2, <1>4 DEF Sound
<1>7. /\ Content(b) \in Seq(Byte) /\ Len(Content(b)) = readableBytes(b)
      /\ Content(c) \in Seq(Byte) /\ Len(Content(c)) = k
  BY <1>5, <1>6, ContentProperties
<1>8. t \in Seq(Byte) /\ Len(t) = k /\ \A i \in 1..k : t[i] = Content(b)[i]
  <2>1. \A i \in 1..k : Content(b)[i] \in Byte
    BY <1>1, <1>7, ElementOfSeq
  <2>2. t = SubSeq(Content(b), 1, k)
    BY <1>7
  <2> HIDE DEF t, k
  <2>3. /\ t \in Seq(Byte) /\ Len(t) = IF 1 <= k THEN k - 1 + 1 ELSE 0
        /\ \A i \in 1..k - 1 + 1 : t[i] = Content(b)[1 + i - 1]
    BY <1>2, <2>1, <2>2, SubSeqProperties
  <2>4. k - 1 + 1 = k /\ (IF 1 <= k THEN k - 1 + 1 ELSE 0) = k
    BY <1>2
  <2>5. \A i \in 1..k : 1 + i - 1 = i
    BY <1>2
  <2> QED BY <2>3, <2>4, <2>5
<1>9. ASSUME NEW i \in 1..k
      PROVE  Content(c)[i] = t[i]
  <2>1. Content(c)[i] = b.m_buff[b.m_readerIndex + i]
    BY <1>4, <1>5, <1>6, ContentProperties
  <2>2. i \in 1..readableBytes(b)
    BY <1>1
  <2> HIDE DEF t, k
  <2> QED BY <1>8, <2>1, <2>2, ContentProperties
<1>10. Content(c) = t
  <2> HIDE DEF t, k
  <2> QED BY <1>7, <1>8, <1>9, SeqEqual
<1> QED BY <1>4, <1>5, <1>6, <1>10 DEF c, prependableBytes

\* prepend() puts a header in front of the content.
LEMMA PrependProperties ==
  ASSUME NEW b, Sound(b), NEW d \in Seq(Byte), Len(d) <= prependableBytes(b)
  PROVE  LET c == prepend(b, d)
         IN  /\ Sound(c)
             /\ Content(c) = d \o Content(b)
             /\ readableBytes(c) = readableBytes(b) + Len(d)
             /\ Len(c.m_buff) = Len(b.m_buff)
<1> DEFINE c == prepend(b, d)
           r == b.m_readerIndex - Len(d)
           m == Copy(b.m_buff, r, d)
<1>1. b.m_buff \in Seq(Byte) /\ b \in BufferType
  BY Regions DEF Sound
<1>2. /\ Len(b.m_buff) \in Nat /\ b.m_readerIndex \in Nat /\ b.m_wirterIndex \in Nat
      /\ readableBytes(b) \in Nat /\ readableBytes(b) = b.m_wirterIndex - b.m_readerIndex
      /\ Len(d) \in Nat /\ Len(d) <= b.m_readerIndex
      /\ b.m_wirterIndex <= Len(b.m_buff)
  BY Regions, LenProperties DEF Sound
<1>3. r \in Nat /\ r + Len(d) = b.m_readerIndex /\ r <= b.m_wirterIndex
  BY <1>2
<1>4. /\ m \in Seq(Byte) /\ Len(m) = Len(b.m_buff)
      /\ \A i \in 1..Len(b.m_buff) :
           m[i] = IF r < i /\ i <= r + Len(d) THEN d[i - r] ELSE b.m_buff[i]
  BY <1>1, <1>3, CopyProperties
<1>5. /\ c.m_buff = m /\ c.m_readerIndex = r
      /\ c.m_wirterIndex = b.m_wirterIndex /\ c \in BufferType
  <2>1. c = [[b EXCEPT !.m_buff = m] EXCEPT !.m_readerIndex = r]
    BY <1>1 DEF prepend, BufferType
  <2> HIDE DEF c, m, r
  <2> QED BY <1>1, <1>3, <1>4, <2>1 DEF BufferType
<1> HIDE DEF c, m
<1>6. readableBytes(c) = readableBytes(b) + Len(d)
  BY <1>2, <1>5 DEF readableBytes
<1>7. Sound(c)
  <2>1. kCheapPrepend <= Len(b.m_buff)
    BY DEF Sound
  <2> QED BY <1>2, <1>3, <1>4, <1>5, <2>1 DEF Sound
<1>8. Content(c) = d \o Content(b)
  <2>1. /\ d \o Content(b) \in Seq(Byte)
        /\ Len(d \o Content(b)) = Len(d) + readableBytes(b)
        /\ \A i \in 1..Len(d) + readableBytes(b) : (d \o Content(b))[i] =
              IF i <= Len(d) THEN d[i] ELSE Content(b)[i - Len(d)]
    BY ContentProperties, ConcatProperties
  <2>2. Content(c) \in Seq(Byte) /\ Len(Content(c)) = Len(d) + readableBytes(b)
    BY <1>2, <1>6, <1>7, ContentProperties
  <2>3. ASSUME NEW i \in 1..Len(d) + readableBytes(b)
        PROVE  Content(c)[i] = (d \o Content(b))[i]
    <3>1. i \in Nat /\ 1 <= i /\ i <= Len(d) + readableBytes(b) /\ i \in 1..readableBytes(c)
      BY <1>2, <1>6
    <3>2. Content(c)[i] = m[r + i]
      BY <1>5, <1>7, <3>1, ContentProperties
    <3>3. r + i \in 1..Len(b.m_buff) /\ r < r + i /\ (r + i) - r = i
      <4>1. i <= b.m_wirterIndex - r
        BY <1>2, <3>1
      <4> HIDE DEF r
      <4> QED BY <1>2, <1>3, <3>1, <4>1
    <3>4. CASE i <= Len(d)
      <4>1. r + i <= r + Len(d)
        BY <1>2, <3>1, <3>4
      <4> HIDE DEF r
      <4> QED BY <1>4, <2>1, <3>2, <3>3, <3>4, <4>1
    <3>5. CASE ~(i <= Len(d))
      <4>1. ~(r + i <= r + Len(d)) /\ r + i = b.m_readerIndex + (i - Len(d))
        BY <1>2, <3>1, <3>5
      <4>2. i - Len(d) \in 1..readableBytes(b)
        BY <1>2, <3>1, <3>5
      <4> HIDE DEF r
      <4>3. m[r + i] = b.m_buff[b.m_readerIndex + (i - Len(d))]
        BY <1>4, <3>3, <4>1
      <4> QED BY <2>1, <3>2, <3>5, <4>2, <4>3, ContentProperties
    <3> QED BY <3>4, <3>5
  <2> QED BY <2>1, <2>2, <2>3, SeqEqual
<1> QED BY <1>4, <1>5, <1>6, <1>7, <1>8 DEF c

\* shrink() changes no content, and gives the header all of its room.
LEMMA ShrinkProperties ==
  ASSUME NEW b, Sound(b), NEW reserve \in Nat
  PROVE  LET c == shrink(b, reserve)
         IN  /\ Sound(c)
             /\ Content(c) = Content(b)
             /\ readableBytes(c) = readableBytes(b)
             /\ prependableBytes(c) >= kCheapPrepend
             /\ readableBytes(b) + reserve <= MaxBytes => Small(c)
<1> DEFINE n == readableBytes(b) + reserve
           e == ensureWritableBytes(Fresh, n)
           c == append(e, Content(b))
<1>1. /\ readableBytes(b) \in Nat /\ Content(b) \in Seq(Byte)
      /\ Len(Content(b)) = readableBytes(b)
  BY ContentProperties
<1>2. n \in Nat
  BY <1>1
<1> HIDE DEF n
<1>3. /\ Sound(Fresh) /\ readableBytes(Fresh) = 0 /\ Content(Fresh) = <<>>
      /\ prependableBytes(Fresh) = kCheapPrepend /\ Small(Fresh)
      /\ kCheapPrepend \in Nat /\ MaxBytes \in Nat
  <2>1. Len(Fresh.m_buff) <= kCheapPrepend + kInitialSize
    BY FreshProperties, BufferAssumption
  <2> QED BY <2>1, FreshProperties, BufferAssumption DEF Small
<1>4. /\ Sound(e) /\ Content(e) = <<>> /\ readableBytes(e) = 0
      /\ RoomKept(Fresh, e)
  BY <1>2, <1>3, EnsureProperties
<1>5. n <= MaxBytes => Small(e)
  <2>1. 0 + n = n
    BY <1>2
  <2> QED BY <1>2, <1>3, <2>1, EnsureSmall
<1> HIDE DEF e
<1>6. /\ Sound(c) /\ Content(c) = <<>> \o Content(b)
      /\ readableBytes(c) = 0 + readableBytes(b) /\ RoomKept(e, c)
      /\ Small(e) /\ 0 + readableBytes(b) <= MaxBytes => Small(c)
  BY <1>1, <1>4, AppendMethodProperties
<1>7. c = shrink(b, reserve)
  BY DEF shrink, e, n
<1> HIDE DEF c
<1>8. <<>> \o Content(b) = Content(b)
  BY <1>1, ConcatEmptySeq
<1>9. 0 + readableBytes(b) = readableBytes(b)
  BY <1>1
<1>10. prependableBytes(e) \in Nat /\ prependableBytes(c) \in Nat
  BY <1>4, <1>6, Regions
<1>11. prependableBytes(c) >= kCheapPrepend
  BY <1>3, <1>4, <1>6, <1>10 DEF RoomKept
<1>12. n <= MaxBytes => readableBytes(b) <= MaxBytes
  BY <1>1, <1>3 DEF n
<1> QED BY <1>5, <1>6, <1>7, <1>8, <1>9, <1>11, <1>12 DEF n

\* readFd() appends all that readv() has delivered, also what did not fit into
\* the vector.
LEMMA ReadFdProperties ==
  ASSUME NEW b, Sound(b), NEW d \in Seq(Byte)
  PROVE  LET c == readFd(b, d)
         IN  /\ Sound(c)
             /\ Content(c) = Content(b) \o d
             /\ readableBytes(c) = readableBytes(b) + Len(d)
             /\ RoomKept(b, c)
             /\ Small(b) /\ readableBytes(b) + Len(d) <= MaxBytes => Small(c)
<1> DEFINE c == readFd(b, d)
           w == wirtableBytes(b)
           d1 == SubSeq(d, 1, w)
           d2 == SubSeq(d, w + 1, Len(d))
           e == hasWritten(b, d1)
<1>1. /\ Len(d) \in Nat /\ w \in Nat /\ readableBytes(b) \in Nat
      /\ prependableBytes(b) \in Nat
  BY Regions, LenProperties
<1>2. CASE Len(d) <= w
  <2>1. c = hasWritten(b, d)
    BY <1>2 DEF readFd
  <2> HIDE DEF c
  <2>2. /\ Sound(c) /\ Content(c) = Content(b) \o d
        /\ readableBytes(c) = readableBytes(b) + Len(d)
        /\ prependableBytes(c) = prependableBytes(b)
        /\ Len(c.m_buff) = Len(b.m_buff)
    BY <1>2, <2>1, HasWrittenProperties
  <2> QED BY <1>1, <2>2 DEF c, RoomKept, Small
<1>3. CASE ~(Len(d) <= w)
  <2>1. c = append(e, d2)
    BY <1>3 DEF readFd
  <2>2. /\ d1 \in Seq(Byte) /\ Len(d1) = w
        /\ d2 \in Seq(Byte) /\ Len(d2) = Len(d) - w
        /\ d1 \o d2 = d
    <3> HIDE DEF w
    <3>1. /\ \A i \in 1..w : d[i] \in Byte
          /\ \A i \in (w + 1)..Len(d) : d[i] \in Byte
      BY <1>1, <1>3, ElementOfSeq
    <3>2. d1 \in Seq(Byte) /\ Len(d1) = IF 1 <= w THEN w - 1 + 1 ELSE 0
      BY <1>1, <3>1, SubSeqProperties
    <3>3. d2 \in Seq(Byte) /\ Len(d2) = IF w + 1 <= Len(d) THEN Len(d) - (w + 1) + 1 ELSE 0
      BY <1>1, <3>1, SubSeqProperties
    <3>4. d1 \o d2 = d
      <4>1. 1 \in 1..Len(d) + 1 /\ w \in 1 - 1..Len(d) /\ Len(d) \in w..Len(d)
        BY <1>1, <1>3
      <4> QED BY <4>1, ConcatAdjacentSubSeq, SubSeqFull
    <3> HIDE DEF d1, d2
    <3> QED BY <1>1, <1>3, <3>2, <3>3, <3>4
  <2>3. /\ Sound(e) /\ Content(e) = Content(b) \o d1
        /\ readableBytes(e) = readableBytes(b) + w
        /\ prependableBytes(e) = prependableBytes(b)
        /\ Len(e.m_buff) = Len(b.m_buff)
    <3>1. Len(d1) <= wirtableBytes(b)
      BY <1>1, <2>2
    <3> HIDE DEF d1
    <3> QED BY <2>2, <3>1, HasWrittenProperties
  <2> HIDE DEF e, d1, d2, c
  <2>4. /\ Sound(c) /\ Content(c) = Content(e) \o d2
        /\ readableBytes(c) = readableBytes(e) + Len(d2)
        /\ RoomKept(e, c)
        /\ Small(e) /\ readableBytes(e) + Len(d2) <= MaxBytes => Small(c)
    BY <2>1, <2>2, <2>3, AppendMethodProperties
  <2>5. Content(c) = Content(b) \o d
    <3>1. Content(b) \in Seq(Byte)
      BY ContentProperties
    <3>2. (Content(b) \o d1) \o d2 = Content(b) \o (d1 \o d2)
      BY <2>2, <3>1, Associativity
    <3>3. d1 \o d2 = d /\ Content(e) = Content(b) \o d1 /\ Content(c) = Content(e) \o d2
      BY <2>2, <2>3, <2>4
    <3> QED BY <3>2, <3>3
  <2>6. readableBytes(e) + Len(d2) = readableBytes(b) + Len(d)
    <3>1. Len(d2) = Len(d) - w
      BY <2>2
    <3> HIDE DEF w
    <3> QED BY <1>1, <2>3, <3>1
  <2> QED BY <2>3, <2>4, <2>5, <2>6 DEF c, RoomKept, Small
<1> QED BY <1>2, <1>3

-----------------------------------------------------------------------------
(* The theorems.                                                           *)

\* The data an owner brings are bytes, and leave the content within its bound.
LEMMA DataProperties ==
  ASSUME Sound(buf), NEW d \in Data
  PROVE  d \in Seq(Byte) /\ Len(d) \in Nat /\ readableBytes(buf) + Len(d) <= MaxBytes
<1>1. readableBytes(buf) \in Nat /\ MaxBytes \in Nat
  BY Regions, BufferAssumption
<1>2. PICK n \in 0..(MaxBytes - readableBytes(buf)) : d \in [1..n -> Byte]
  BY DEF Data
<1>3. n \in Nat /\ readableBytes(buf) + n <= MaxBytes
  BY <1>1, <1>2
<1>4. d \in Seq(Byte) /\ Len(d) = n
  BY <1>2, <1>3, FunctionIsSeq
<1> QED BY <1>3, <1>4

\* What a step of the owner does, in the terms of ByteQueue.
Effect == /\ Sound(buf') /\ readableBytes(buf') <= MaxBytes /\ Small(buf')
          /\ call' \in Queue!Call
          /\ Prepend \/ RoomKept(buf, buf')
          /\ Queue!Enqueue \/ Queue!Dequeue \/ Queue!TakeLine \/ Queue!Withdraw
             \/ Queue!Precede \/ Queue!Arrange

LEMMA InitEstablishes == Init => IInv /\ Queue!Init
<1> SUFFICES ASSUME Init PROVE IInv /\ Queue!Init
  OBVIOUS
<1>1. /\ Sound(buf) /\ readableBytes(buf) = 0 /\ Content(buf) = <<>>
      /\ Len(buf.m_buff) = kCheapPrepend + kInitialSize /\ call = [op |-> "arrange"]
  BY FreshProperties DEF Init
<1>2. readableBytes(buf) <= MaxBytes /\ Small(buf)
  BY <1>1, BufferAssumption DEF Small
<1> QED BY <1>1, <1>2 DEF IInv, Queue!Init, Queue!Call

\* Every step from a state of the invariant has its effect.
LEMMA StepEffect == IInv /\ Next => Effect
<1> SUFFICES ASSUME IInv, Next PROVE Effect
  OBVIOUS
<1>1. /\ Sound(buf) /\ readableBytes(buf) <= MaxBytes /\ Small(buf)
      /\ readableBytes(buf) \in Nat /\ MaxBytes \in Nat
      /\ Content(buf) \in Seq(Byte) /\ Len(Content(buf)) = readableBytes(buf)
  BY Regions, ContentProperties, BufferAssumption DEF IInv
<1>2. CASE AppendData
  <2>1. PICK d \in Data : buf' = append(buf, d) /\ call' = [op |-> "enqueue", data |-> d]
    BY <1>2 DEF AppendData
  <2>2. d \in Seq(Byte) /\ readableBytes(buf) + Len(d) <= MaxBytes
    BY <1>1, DataProperties
  <2>3. /\ Sound(buf') /\ Content(buf') = Content(buf) \o d /\ RoomKept(buf, buf')
        /\ readableBytes(buf') <= MaxBytes /\ Small(buf')
    BY <1>1, <2>1, <2>2, AppendMethodProperties
  <2> QED BY <2>1, <2>2, <2>3 DEF Effect, Queue!Enqueue, Queue!Call
<1>3. CASE Reserve
  <2>1. PICK n \in 0..(MaxBytes - readableBytes(buf)) :
          buf' = ensureWritableBytes(buf, n) /\ call' = [op |-> "arrange"]
    BY <1>3 DEF Reserve
  <2>2. n \in Nat /\ readableBytes(buf) + n <= MaxBytes
    BY <1>1
  <2>3. /\ Sound(buf') /\ Content(buf') = Content(buf) /\ RoomKept(buf, buf')
        /\ readableBytes(buf') = readableBytes(buf)
    BY <1>1, <2>1, <2>2, EnsureProperties
  <2>4. Small(buf')
    BY <1>1, <2>1, <2>2, EnsureSmall
  <2> QED BY <1>1, <2>1, <2>3, <2>4 DEF Effect, Queue!Arrange, Queue!Call
<1>4. CASE WriteInPlace
  <2>1. PICK d \in Data : /\ Len(d) <= wirtableBytes(buf) /\ buf' = hasWritten(buf, d)
                          /\ call' = [op |-> "enqueue", data |-> d]
    BY <1>4 DEF WriteInPlace
  <2>2. d \in Seq(Byte) /\ readableBytes(buf) + Len(d) <= MaxBytes
    BY <1>1, DataProperties
  <2>3. /\ Sound(buf') /\ Content(buf') = Content(buf) \o d
        /\ prependableBytes(buf') = prependableBytes(buf)
        /\ readableBytes(buf') <= MaxBytes /\ Len(buf'.m_buff) = Len(buf.m_buff)
    BY <1>1, <2>1, <2>2, HasWrittenProperties
  <2>4. prependableBytes(buf) \in Nat
    BY <1>1, Regions
  <2>5. RoomKept(buf, buf') /\ Small(buf')
    BY <1>1, <2>3, <2>4 DEF RoomKept, Small
  <2> QED BY <2>1, <2>2, <2>3, <2>5 DEF Effect, Queue!Enqueue, Queue!Call
<1>5. CASE Unwrite
  <2>1. PICK n \in 0..readableBytes(buf) :
          buf' = unwrite(buf, n) /\ call' = [op |-> "withdraw", n |-> n]
    BY <1>5 DEF Unwrite
  <2>2. n \in Nat /\ n <= readableBytes(buf)
    BY <1>1
  <2>3. /\ Sound(buf') /\ Content(buf') = SubSeq(Content(buf), 1, Len(Content(buf)) - n)
        /\ readableBytes(buf') = readableBytes(buf) - n
        /\ prependableBytes(buf') = prependableBytes(buf) /\ buf'.m_buff = buf.m_buff
    BY <1>1, <2>1, <2>2, UnwriteProperties
  <2>4. prependableBytes(buf) \in Nat
    BY <1>1, Regions
  <2>5. RoomKept(buf, buf') /\ Small(buf')
    BY <1>1, <2>3, <2>4 DEF RoomKept, Small
  <2>6. readableBytes(buf') <= MaxBytes
    BY <1>1, <2>2, <2>3
  <2> QED BY <1>1, <2>1, <2>2, <2>3, <2>5, <2>6 DEF Effect, Queue!Withdraw, Queue!Call
<1>6. CASE Prepend
  <2>1. PICK d \in Data : /\ Len(d) <= prependableBytes(buf) /\ buf' = prepend(buf, d)
                          /\ call' = [op |-> "precede", data |-> d]
    BY <1>6 DEF Prepend
  <2>2. d \in Seq(Byte) /\ readableBytes(buf) + Len(d) <= MaxBytes
    BY <1>1, DataProperties
  <2>3. /\ Sound(buf') /\ Content(buf') = d \o Content(buf)
        /\ readableBytes(buf') <= MaxBytes /\ Len(buf'.m_buff) = Len(buf.m_buff)
    BY <1>1, <2>1, <2>2, PrependProperties
  <2>4. Small(buf')
    BY <1>1, <2>3 DEF Small
  <2> QED BY <1>6, <2>1, <2>2, <2>3, <2>4 DEF Effect, Queue!Precede, Queue!Call
<1>7. ASSUME NEW n \in 0..readableBytes(buf), buf' = retrieve(buf, n)
      PROVE  /\ n \in Nat /\ n <= readableBytes(buf)
             /\ Sound(buf') /\ readableBytes(buf') <= MaxBytes /\ Small(buf')
             /\ RoomKept(buf, buf')
             /\ Content(buf') = SubSeq(Content(buf), n + 1, Len(Content(buf)))
  <2>1. n \in Nat /\ n <= readableBytes(buf)
    BY <1>1
  <2>2. /\ Sound(buf') /\ Content(buf') = SubSeq(Content(buf), n + 1, Len(Content(buf)))
        /\ readableBytes(buf') = readableBytes(buf) - n
        /\ RoomKept(buf, buf') /\ buf'.m_buff = buf.m_buff
    BY <1>1, <1>7, <2>1, RetrieveProperties
  <2>3. readableBytes(buf') <= MaxBytes
    BY <1>1, <2>1, <2>2
  <2>4. Small(buf')
    BY <1>1, <2>2 DEF Small
  <2> QED BY <2>1, <2>2, <2>3, <2>4
<1>8. CASE Retrieve
  <2>1. PICK n \in 0..readableBytes(buf) :
          buf' = retrieve(buf, n) /\ call' = [op |-> "dequeue", n |-> n]
    BY <1>8 DEF Retrieve
  <2> QED BY <1>1, <1>7, <2>1 DEF Effect, Queue!Dequeue, Queue!Call
<1>9. CASE ReadInt
  <2>1. PICK n \in {2, 4, 8} : /\ readableBytes(buf) > n /\ buf' = retrieve(buf, n)
                                 /\ call' = [op |-> "dequeue", n |-> n]
    BY <1>9 DEF ReadInt
  <2>2. n \in 0..readableBytes(buf)
    BY <1>1, <2>1
  <2> QED BY <1>1, <1>7, <2>1, <2>2 DEF Effect, Queue!Dequeue, Queue!Call
<1>10. CASE RetrieveAll
  <2>1. /\ buf' = retrieveAll(buf) /\ call' = [op |-> "dequeue", n |-> readableBytes(buf)]
    BY <1>10 DEF RetrieveAll
  <2>2. /\ Sound(buf') /\ RoomKept(buf, buf') /\ buf'.m_buff = buf.m_buff
        /\ Content(buf') =
             SubSeq(Content(buf), readableBytes(buf) + 1, Len(Content(buf)))
        /\ readableBytes(buf') = 0
    BY <1>1, <2>1, RetrieveAllProperties
  <2>3. readableBytes(buf') <= MaxBytes /\ Small(buf')
    BY <1>1, <2>2 DEF Small
  <2> QED BY <1>1, <2>1, <2>2, <2>3 DEF Effect, Queue!Dequeue, Queue!Call
<1>11. CASE Shrink
  <2>1. PICK n \in 0..(MaxBytes - readableBytes(buf)) :
          buf' = shrink(buf, n) /\ call' = [op |-> "arrange"]
    BY <1>11 DEF Shrink
  <2>2. n \in Nat /\ readableBytes(buf) + n <= MaxBytes
    BY <1>1
  <2>3. /\ Sound(buf') /\ Content(buf') = Content(buf)
        /\ readableBytes(buf') = readableBytes(buf)
        /\ prependableBytes(buf') >= kCheapPrepend /\ Small(buf')
    BY <1>1, <2>1, <2>2, ShrinkProperties
  <2> QED BY <1>1, <2>1, <2>3 DEF Effect, RoomKept, Queue!Arrange, Queue!Call
<1>12. CASE ReadFd
  <2>1. PICK d \in Data : buf' = readFd(buf, d) /\ call' = [op |-> "enqueue", data |-> d]
    BY <1>12 DEF ReadFd
  <2>2. d \in Seq(Byte) /\ readableBytes(buf) + Len(d) <= MaxBytes
    BY <1>1, DataProperties
  <2>3. /\ Sound(buf') /\ Content(buf') = Content(buf) \o d /\ RoomKept(buf, buf')
        /\ readableBytes(buf') <= MaxBytes /\ Small(buf')
    BY <1>1, <2>1, <2>2, ReadFdProperties
  <2> QED BY <2>1, <2>2, <2>3 DEF Effect, Queue!Enqueue, Queue!Call
<1>13. CASE RetrieveLine
  <2>1. CRLF \in Seq(Byte) /\ Len(CRLF) >= 1 /\ EOL \in Seq(Byte) /\ Len(EOL) >= 1
    BY BufferAssumption DEF CRLF, EOL
  <2>2. buf.m_readerIndex \in buf.m_readerIndex..buf.m_wirterIndex
    BY <1>1, Regions DEF Sound
  <2>3. PICK pattern \in Seq(Byte), start \in buf.m_readerIndex..buf.m_wirterIndex :
          Len(pattern) >= 1 /\ \E i \in First(buf, start, pattern) : TakeLine(start, i, pattern)
    BY <1>13, <2>1, <2>2 DEF RetrieveLine, findCRLF, findEOL
  <2>4. PICK i \in First(buf, start, pattern) : TakeLine(start, i, pattern)
    BY <2>3
  <2> DEFINE n    == (i + Len(pattern)) - buf.m_readerIndex
             from == start - buf.m_readerIndex
  <2>5. /\ from \in Nat /\ n \in 1..readableBytes(buf)
        /\ Queue!EndsAt(Content(buf), n, pattern) /\ from + Len(pattern) <= n
        /\ \A m \in 1..(n - 1) :
             Queue!EndsAt(Content(buf), m, pattern) => m < from + Len(pattern)
    BY <1>1, <2>3, <2>4, LineProperties
  <2>6. buf' = retrieve(buf, n) /\ call' = [op |-> "line", end |-> pattern, from |-> from]
    BY <2>4 DEF TakeLine, retrieveUntil
  <2> HIDE DEF n, from
  <2>7. /\ Sound(buf') /\ readableBytes(buf') <= MaxBytes /\ Small(buf')
        /\ RoomKept(buf, buf')
        /\ Content(buf') = SubSeq(Content(buf), n + 1, Len(Content(buf)))
    BY <1>1, <1>7, <2>5, <2>6
  <2>8. call' \in Queue!Call
    BY <2>3, <2>5, <2>6 DEF Queue!Call
  <2>9. Queue!TakeLine
    BY <1>1, <2>5, <2>6, <2>7 DEF Queue!TakeLine
  <2> QED BY <2>7, <2>8, <2>9 DEF Effect
<1> QED
  BY <1>2, <1>3, <1>4, <1>5, <1>6, <1>8, <1>9, <1>10, <1>11, <1>12, <1>13 DEF Next

\* IInv is inductive.
LEMMA StepPreserves == IInv /\ [Next]_vars => IInv'
<1> SUFFICES ASSUME IInv, [Next]_vars PROVE IInv'
  OBVIOUS
<1>1. CASE Next
  BY <1>1, StepEffect DEF Effect, IInv
<1>2. CASE UNCHANGED vars
  BY <1>2 DEF vars, IInv, Sound, Small, readableBytes
<1> QED BY <1>1, <1>2

LEMMA Invariance == Spec => []IInv
BY InitEstablishes, StepPreserves, PTL DEF Spec

\* The indices are in order and inside the vector whatever the owner does, for
\* every size of the header, of the vector and of extraBuf.
THEOREM TypeCorrect == Spec => []TypeOK
<1>1. IInv => TypeOK
  BY DEF IInv, TypeOK, Sound
<1> QED BY <1>1, Invariance, PTL

\* The vector stays within twice the largest backlog and the header's room.
THEOREM SpaceBounded == Spec => []SpaceIsBounded
<1>1. IInv => SpaceIsBounded
  BY DEF IInv, Small, SpaceIsBounded
<1> QED BY <1>1, Invariance, PTL

\* Only prepend() uses up the room in front of the data.
THEOREM HeaderRoomIsKept == Spec => HeaderRoomKept
<1>1. IInv /\ [Next]_vars => [ \/ prependableBytes(buf') >= kCheapPrepend
                              \/ prependableBytes(buf') >= prependableBytes(buf)
                              \/ Prepend ]_vars
  BY StepEffect DEF Effect, RoomKept
<1> QED BY <1>1, Invariance, PTL DEF Spec, HeaderRoomKept

\* A Buffer implements a queue of bytes, for any bytes and any sizes: no method
\* loses, repeats, reorders or invents a byte.
THEOREM ImplementsByteQueue == Spec => IsByteQueue
<1>1. Init => Queue!Init
  BY InitEstablishes
<1>2. IInv /\ [Next]_vars => [Queue!Next]_(Queue!vars)
  <2> SUFFICES ASSUME IInv, [Next]_vars PROVE [Queue!Next]_(Queue!vars)
    OBVIOUS
  <2>1. CASE Next
    BY <2>1, StepEffect DEF Effect, Queue!Next
  <2>2. CASE UNCHANGED vars
    BY <2>2 DEF vars, Queue!vars, Content, readableBytes
  <2> QED BY <2>1, <2>2
<1> QED BY <1>1, <1>2, Invariance, PTL DEF Spec, IsByteQueue, Queue!Spec

=============================================================================
