----------------------------- MODULE RingBuffer -----------------------------
(***************************************************************************)
(* common/RingBuffer.{h,cpp}: a byte ring whose file is mapped twice, back *)
(* to back, so that every window of m_capacity bytes that starts in the    *)
(* first half is contiguous.  One thread writes (write_buffer, fill the    *)
(* window, advance_write), one thread reads (read_buffer, advance_read);   *)
(* they share the two atomic indices and nothing else.                     *)
(*                                                                         *)
(* An action is one access to the shared indices.  The loads of            *)
(* write_buffer are separate steps, and so are the two fetch_sub of an     *)
(* advance_read that wraps; read_buffer is one step because its first      *)
(* load is of an index only its own thread writes.  Loads are acquires,    *)
(* and stores are read-modify-writes that release, which are full barriers *)
(* on the x86 this code is written for (rdtsc): interleaving the accesses  *)
(* is what such a build does.                                              *)
(***************************************************************************)
EXTENDS RingIndex, Sequences

CONSTANTS Byte,      \* values of a byte
          Spare      \* bytes of an offered window the writer leaves unused

ASSUME ByteAssumption == Byte # {}
ASSUME SpareAssumption == Spare \in Nat /\ Spare <= Capacity

VARIABLES m_buf,        \* the file behind both mappings
          m_read_idx, m_write_idx,
          wpc,          \* writer: "idle", "loaded", "spin", "offered", "filled"
          w_read,       \* write_buffer's local read_idx
          w_ptr, w_len, \* the window write_buffer returned; bytes filled
          rpc,          \* reader: "idle", "view", "wrap"
          r_len         \* length of the window read_buffer returned

wvars == <<wpc, w_read, w_ptr, w_len>>
rvars == <<rpc, r_len>>
vars == <<m_buf, m_read_idx, m_write_idx, wvars, rvars>>

-----------------------------------------------------------------------------
(* The double mapping as the callers see it. *)

\* How far behind address a, going round the ring, cell c lies.
Offset(c, a) == IF c >= Cell(a) THEN c - Cell(a) ELSE c - Cell(a) + Capacity

Overwrite(buf, a, data) ==
  [c \in 0..Capacity-1 |-> IF Offset(c, a) < Len(data)
                           THEN data[Offset(c, a) + 1] ELSE buf[c]]

-----------------------------------------------------------------------------
\* A new file is filled with one and the same byte.
Init == /\ m_buf \in {[c \in 0..Capacity-1 |-> b] : b \in Byte}
        /\ m_read_idx = 0 /\ m_write_idx = 0
        /\ wpc = "idle" /\ w_read = 0 /\ w_ptr = 0 /\ w_len = 0
        /\ rpc = "idle" /\ r_len = 0

\* write_buffer, lines 107 and 112.
WriteBufferLoadRead ==
  /\ wpc \in {"idle", "spin"}
  /\ wpc' = "loaded"
  /\ w_read' = m_read_idx
  /\ UNCHANGED <<m_buf, m_read_idx, m_write_idx, w_ptr, w_len, rvars>>

\* write_buffer, lines 108 and 113: load the write index, then go round the
\* loop or return the window.
WriteBufferLoadWrite ==
  /\ wpc = "loaded"
  /\ IF MustSpin(m_write_idx, w_read)
     THEN /\ wpc' = "spin"
          /\ UNCHANGED <<w_ptr, w_len>>
     ELSE /\ wpc' = "offered"
          /\ w_ptr' = m_write_idx
          /\ w_len' = FreeSpace(m_write_idx, w_read)
  /\ UNCHANGED <<m_buf, m_read_idx, m_write_idx, w_read, rvars>>

\* The caller (a socket read, a memcpy) puts data at the front of the window.
Fill(data) ==
  /\ wpc = "offered"
  /\ Len(data) = 0 \/ Len(data) <= w_len - Spare
  /\ wpc' = "filled"
  /\ m_buf' = Overwrite(m_buf, w_ptr, data)
  /\ w_len' = Len(data)
  /\ UNCHANGED <<m_read_idx, m_write_idx, w_read, w_ptr, rvars>>

advance_write ==
  /\ wpc = "filled"
  /\ wpc' = "idle"
  /\ m_write_idx' = AddU32(m_write_idx, w_len)
  /\ UNCHANGED <<m_buf, m_read_idx, w_read, w_ptr, w_len, rvars>>

read_buffer ==
  /\ rpc = "idle"
  /\ rpc' = "view"
  /\ r_len' = SubU32(m_write_idx, m_read_idx)
  /\ UNCHANGED <<m_buf, m_read_idx, m_write_idx, wvars>>

\* advance_read up to its first store: the whole call when the index does not
\* wrap, otherwise the fetch_sub of the read index.
advance_read(increment) ==
  /\ rpc = "view"
  /\ increment <= r_len
  /\ r_len' = 0
  /\ IF Wraps(AddU32(m_read_idx, increment))
     THEN /\ m_read_idx' = WrappedRead(m_read_idx, increment)
          /\ rpc' = "wrap"
     ELSE /\ m_read_idx' = AddU32(m_read_idx, increment)
          /\ rpc' = "idle"
  /\ UNCHANGED <<m_buf, m_write_idx, wvars>>

\* advance_read's second store, line 131.
WrapWrite ==
  /\ rpc = "wrap"
  /\ rpc' = "idle"
  /\ m_write_idx' = WrappedWrite(m_write_idx)
  /\ UNCHANGED <<m_buf, m_read_idx, wvars, r_len>>

Chunks == UNION {[1..n -> Byte] : n \in 0..Capacity}

Writer == \/ WriteBufferLoadRead
          \/ WriteBufferLoadWrite
          \/ \E data \in Chunks : Fill(data)
          \/ advance_write

Reader == \/ read_buffer
          \/ \E increment \in 0..Capacity : advance_read(increment)
          \/ WrapWrite

Next == Writer \/ Reader

\* A thread inside a call of the class keeps running; nothing is assumed of
\* when a caller makes its next call.
Fairness == /\ WF_vars(wpc = "spin" /\ WriteBufferLoadRead)
            /\ WF_vars(WriteBufferLoadWrite)
            /\ WF_vars(WrapWrite)

Safety == Init /\ [][Next]_vars

Spec == Safety /\ Fairness

-----------------------------------------------------------------------------
(* What is read off the indices. *)

\* The write index, with the second half of a wrap in progress already done.
Settled == IF rpc = "wrap" THEN m_write_idx - Capacity ELSE m_write_idx

Unread == Settled - m_read_idx

\* The bytes written and not yet read, oldest first.
Contents == [i \in 1..Unread |-> m_buf[Cell(m_read_idx + i - 1)]]

Fifo == INSTANCE ByteFifo WITH queue <- Contents

-----------------------------------------------------------------------------
TypeOK ==
  /\ m_buf \in [0..Capacity-1 -> Byte]
  /\ m_read_idx \in 0..IdxMod-1
  /\ m_write_idx \in 0..IdxMod-1
  /\ wpc \in {"idle", "loaded", "spin", "offered", "filled"}
  /\ w_read \in 0..IdxMod-1
  /\ w_ptr \in 0..IdxMod-1
  /\ w_len \in 0..Capacity
  /\ rpc \in {"idle", "view", "wrap"}
  /\ r_len \in 0..IdxMod-1

\* Every window handed out by read_buffer or write_buffer lies inside the
\* 2 * m_capacity bytes alloc maps: no caller is ever sent past the mapping,
\* wherever the other thread stands in its two-step wrap.
WindowsInsideMapping ==
  /\ rpc = "view" => m_read_idx + r_len <= 2 * Capacity
  /\ wpc \in {"offered", "filled"} => w_ptr + w_len <= 2 * Capacity

\* No cell of the window write_buffer returned holds a byte the reader has
\* still to see, although the two indices behind it were loaded one after
\* the other while advance_read may have changed both.
OfferIsFree ==
  wpc = "offered" =>
    \A i \in 0..Unread-1 : Offset(Cell(m_read_idx + i), w_ptr) >= w_len

\* The ring implements the byte queue: what is read is what was written, in
\* order, once, and never more than m_capacity bytes wait.
IsFifo == Fifo!Spec

\* A writer that has entered write_buffer leaves it: the loop waits at most
\* for an advance_read that is under way.
SpinEnds == (wpc = "loaded") ~> (wpc = "offered")

=============================================================================
