------------------------------ MODULE RingIndex ------------------------------
(***************************************************************************)
(* The index arithmetic of common/RingBuffer.cpp, shared by the modules    *)
(* that use the ring.  Indices are uint32_t counts of bytes; the read      *)
(* index runs over the first mapping and the write index over both.        *)
(***************************************************************************)
EXTENDS Integers

CONSTANTS Capacity,  \* m_capacity, the bytes of one mapping
          IdxMod     \* 2^32: the indices are uint32_t

ASSUME CapacityAssumption == Capacity \in Nat \ {0}
ASSUME IdxModAssumption == IdxMod \in Nat /\ IdxMod > 2 * Capacity

AddU32(a, b) == IF a + b < IdxMod THEN a + b ELSE a + b - IdxMod

SubU32(a, b) == IF a >= b THEN a - b ELSE a - b + IdxMod

\* The offset in the file behind both mappings.
Cell(a) == IF a < Capacity THEN a ELSE a - Capacity

-----------------------------------------------------------------------------
(* write_buffer: the condition of its loop, and the length it returns. *)

\* Slip: the loop is left without looking at the indices.
MustSpinDropped(write_idx, read_idx) == FALSE

MustSpin(write_idx, read_idx) == SubU32(write_idx, read_idx) > Capacity

\* Slip: what is unread is not subtracted.
FreeSpaceWhole(write_idx, read_idx) == Capacity

\* Slip: one byte more than is free.
FreeSpaceOneMore(write_idx, read_idx) == Capacity - SubU32(write_idx, read_idx) + 1

FreeSpace(write_idx, read_idx) == Capacity - SubU32(write_idx, read_idx)

(* advance_read: its test, and the indices after its two stores. *)

\* Slip: the wrap comes one byte late.
WrapsLate(read_idx) == read_idx > Capacity + 1

Wraps(read_idx) == read_idx > Capacity

WrappedRead(read_idx, increment) == SubU32(read_idx, SubU32(Capacity, increment))

\* Slip: only the read index wraps.
WrappedWriteForgotten(write_idx) == write_idx

WrappedWrite(write_idx) == SubU32(write_idx, Capacity)

=============================================================================
