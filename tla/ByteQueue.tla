----------------------------- MODULE ByteQueue -----------------------------
(***************************************************************************)
(* What a Buffer of seenet promises to its users: a queue of bytes that is *)
(* filled at its end and emptied at its front, where a header can also be  *)
(* put in front of what is queued, and the youngest bytes can be withdrawn *)
(* again.  Where the bytes lie, and when they are moved or the storage is  *)
(* enlarged, is left to Buffer, which implements this module.              *)
(***************************************************************************)
EXTENDS Sequences, Naturals

CONSTANT Byte      \* the values of a byte

VARIABLES bytes,   \* what is queued, oldest first
          call     \* the last call of the owner, with its argument

vars == <<bytes, call>>

Call == [op : {"enqueue", "precede"}, data : Seq(Byte)]
          \cup [op : {"dequeue", "withdraw"}, n : Nat]
          \cup [op : {"line"}, end : Seq(Byte), from : Nat]
          \cup [op : {"arrange"}]

Init == bytes = <<>> /\ call = [op |-> "arrange"]

\* The data arrive at the end.
Enqueue == /\ call'.op = "enqueue"
           /\ bytes' = bytes \o call'.data

\* The n oldest bytes are consumed.
Dequeue == /\ call'.op = "dequeue"
           /\ call'.n <= Len(bytes)
           /\ bytes' = SubSeq(bytes, call'.n + 1, Len(bytes))

\* The n first bytes of s end in end.
EndsAt(s, n, end) ==
  /\ Len(end) <= n
  /\ \A k \in 1..Len(end) : s[n - Len(end) + k] = end[k]

\* A line is consumed with its end, which is the first one after the first from
\* bytes.
TakeLine ==
  /\ call'.op = "line"
  /\ \E n \in 1..Len(bytes) :
        /\ EndsAt(bytes, n, call'.end) /\ call'.from + Len(call'.end) <= n
        /\ \A m \in 1..(n - 1) :
              EndsAt(bytes, m, call'.end) => m < call'.from + Len(call'.end)
        /\ bytes' = SubSeq(bytes, n + 1, Len(bytes))

\* The n youngest bytes are withdrawn.
Withdraw == /\ call'.op = "withdraw"
            /\ call'.n <= Len(bytes)
            /\ bytes' = SubSeq(bytes, 1, Len(bytes) - call'.n)

\* The data, a header, go in front.
Precede == /\ call'.op = "precede"
           /\ bytes' = call'.data \o bytes

\* The storage is rearranged: nothing a user can see.
Arrange == /\ call'.op = "arrange"
           /\ bytes' = bytes

Next == /\ call' \in Call
        /\ Enqueue \/ Dequeue \/ TakeLine \/ Withdraw \/ Precede \/ Arrange

Spec == Init /\ [][Next]_vars
=============================================================================
