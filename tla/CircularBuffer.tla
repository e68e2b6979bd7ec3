--------------------------- MODULE CircularBuffer ---------------------------
(***************************************************************************)
(* common/CircularBuffer.h: the last N packets, looked up by m_ts.  A      *)
(* packet is [m_ts, m_ptr]; m_ptr is a unique_ptr, 0 when it is null.      *)
(***************************************************************************)
EXTENDS Integers

CONSTANT N

ASSUME NAssumption == N \in Nat \ {0}

EmptyPacket == [m_ts |-> 0, m_ptr |-> 0]

NewBuffer == [m_array |-> [i \in 0..N-1 |-> EmptyPacket], m_write_index |-> 0]

\* Slip: the write index stops at the last slot.
updateStops(b, sq) ==
  [m_array |-> [b.m_array EXCEPT ![b.m_write_index] = sq],
   m_write_index |-> IF b.m_write_index + 1 = N THEN b.m_write_index
                     ELSE b.m_write_index + 1]

update(b, sq) ==
  [m_array |-> [b.m_array EXCEPT ![b.m_write_index] = sq],
   m_write_index |-> IF b.m_write_index + 1 = N THEN 0 ELSE b.m_write_index + 1]

\* Only what is below the write index is searched: once it has wrapped to 0,
\* nothing.  The search of the rest, "0 to write and read to end", is a comment.
Matches(b, timestamp) == {i \in 0..b.m_write_index-1 : b.m_array[i].m_ts = timestamp}

\* Slip: the packet is copied out.
findCopies(b, timestamp) ==
  LET found == Matches(b, timestamp)
      i == CHOOSE j \in found : \A k \in found : j <= k
  IN  IF found = {} THEN [has_value |-> FALSE, value |-> EmptyPacket, b |-> b]
      ELSE [has_value |-> TRUE, value |-> b.m_array[i], b |-> b]

\* The first match, moved out: m_ptr of the array becomes null, m_ts remains.
find(b, timestamp) ==
  LET found == Matches(b, timestamp)
      i == CHOOSE j \in found : \A k \in found : j <= k
  IN  IF found = {} THEN [has_value |-> FALSE, value |-> EmptyPacket, b |-> b]
      ELSE [has_value |-> TRUE, value |-> b.m_array[i],
            b |-> [m_array |-> [b.m_array EXCEPT ![i] = [m_ts |-> @.m_ts, m_ptr |-> 0]],
                   m_write_index |-> b.m_write_index]]

=============================================================================
