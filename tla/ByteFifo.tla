------------------------------ MODULE ByteFifo ------------------------------
(***************************************************************************)
(* What common/RingBuffer.cpp promises to one writer and one reader: a     *)
(* bounded first-in first-out queue of bytes.  The writer appends a chunk, *)
(* the reader removes a prefix, and nothing else ever changes the bytes    *)
(* that wait in between.  Indices, the double mapping and the two-step     *)
(* wrap of advance_read are all below this level.                          *)
(***************************************************************************)
EXTENDS Naturals, Sequences

CONSTANTS Capacity,  \* bytes the queue can hold (m_capacity)
          Byte       \* the values of a byte

VARIABLE queue       \* the bytes written and not yet read

Chunks == UNION {[1..n -> Byte] : n \in 1..Capacity}

Init == queue = <<>>

Put(data) == /\ Len(queue) + Len(data) <= Capacity
             /\ queue' = queue \o data

Get(n) == queue' = SubSeq(queue, n + 1, Len(queue))

Next == \/ \E data \in Chunks : Put(data)
        \/ \E n \in 1..Len(queue) : Get(n)

Spec == Init /\ [][Next]_queue

=============================================================================
