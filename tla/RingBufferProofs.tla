-------------------------- MODULE RingBufferProofs --------------------------
(***************************************************************************)
(* RingBuffer is safe for every capacity, every index width above twice    *)
(* the capacity and every byte type, as long as the writer leaves at least *)
(* one byte of each window unused.  The inductive invariant RingInv says   *)
(* where a stale read index may stand (StaleReadOK) and where an offered   *)
(* window may stand (OfferOK) while the reader is between its two stores.  *)
(***************************************************************************)
EXTENDS RingBuffer, TLAPS

\* Where the indices stand with respect to each other.
IndexOK == /\ m_read_idx <= Capacity
           /\ m_write_idx <= 2 * Capacity
           /\ Unread \in 0..(Capacity - Spare)
           /\ rpc = "view" => r_len <= Unread

\* The read index write_buffer loaded is the current one or an older one, from
\* before the last wrap (second disjunct) or not.
StaleReadOK ==
  wpc = "loaded" =>
    /\ w_read <= Capacity
    /\ \/ w_read <= m_read_idx /\ Settled - w_read <= Capacity - Spare
       \/ w_read <= m_read_idx + Capacity /\ Settled - w_read <= - Spare

\* The offered window starts at the write index, or one capacity above it when
\* the wrap was completed after write_buffer returned.
OfferOK ==
  wpc \in {"offered", "filled"} =>
    /\ w_ptr = m_write_idx \/ (rpc # "wrap" /\ w_ptr = m_write_idx + Capacity)
    /\ w_ptr + w_len <= 2 * Capacity
    /\ w_len <= Capacity - Unread
    /\ wpc = "filled" => w_len <= Capacity - Spare - Unread

RingInv == TypeOK /\ IndexOK /\ StaleReadOK /\ OfferOK

-----------------------------------------------------------------------------
\* The constants, as the leaves below use them.
LEMMA Constants ==
  /\ Capacity \in Nat /\ Capacity > 0
  /\ IdxMod \in Nat /\ IdxMod > 2 * Capacity
  /\ Spare \in Nat /\ Spare <= Capacity
BY CapacityAssumption, IdxModAssumption, SpareAssumption

\* Storing a chunk leaves the ring a function from its cells to bytes.
LEMMA OverwriteType ==
  ASSUME NEW buf \in [0..Capacity-1 -> Byte], NEW a \in 0..(2 * Capacity),
         NEW data \in Chunks
  PROVE  Overwrite(buf, a, data) \in [0..Capacity-1 -> Byte]
<1>1. PICK n \in 0..Capacity : data \in [1..n -> Byte]
  BY DEF Chunks
<1>2. n \in Nat /\ data \in Seq(Byte) /\ Len(data) = n
  BY <1>1, Constants
<1>3. ASSUME NEW c \in 0..Capacity-1
      PROVE  (IF Offset(c, a) < Len(data)
              THEN data[Offset(c, a) + 1] ELSE buf[c]) \in Byte
  <2>1. Offset(c, a) \in Int /\ Offset(c, a) >= 0
    BY Constants DEF Offset, Cell
  <2>2. CASE Offset(c, a) < Len(data)
    <3>1. Offset(c, a) + 1 \in 1..n
      BY <2>1, <2>2, <1>2
    <3> QED BY <3>1, <2>2, <1>1
  <2>3. CASE ~(Offset(c, a) < Len(data))
    BY <2>3
  <2> QED BY <2>2, <2>3
<1> QED BY <1>3 DEF Overwrite

-----------------------------------------------------------------------------
\* An empty ring satisfies the invariant.
LEMMA InitInv == Init => RingInv
<1> SUFFICES ASSUME Init PROVE RingInv OBVIOUS
<1> QED BY Constants
    DEF Init, RingInv, TypeOK, IndexOK, StaleReadOK, OfferOK, Unread, Settled

\* Each access of either thread to the indices keeps the invariant.
LEMMA NextInv == ASSUME Spare >= 1, RingInv, Next
                 PROVE  RingInv'
<1> USE Constants DEF RingInv, IndexOK, StaleReadOK, OfferOK, Unread, Settled
<1>0. TypeOK BY DEF RingInv
<1>1. CASE WriteBufferLoadRead
  BY <1>0, <1>1 DEF TypeOK, WriteBufferLoadRead, rvars
<1>2. CASE WriteBufferLoadWrite
  <2>1. CASE MustSpin(m_write_idx, w_read)
    BY <1>0, <1>2, <2>1 DEF TypeOK, WriteBufferLoadWrite, FreeSpace, rvars
  <2>2. CASE ~MustSpin(m_write_idx, w_read)
    <3>1. SubU32(m_write_idx, w_read) = m_write_idx - w_read
      BY <1>0, <1>2, <2>2 DEF TypeOK, WriteBufferLoadWrite, MustSpin, SubU32
    <3>2. m_write_idx - w_read \in 0..Capacity
      BY <1>0, <2>2, <3>1 DEF TypeOK, MustSpin, SubU32
    <3>3. /\ w_ptr' = m_write_idx /\ w_len' = Capacity - (m_write_idx - w_read)
          /\ wpc = "loaded" /\ wpc' = "offered"
          /\ UNCHANGED <<m_buf, m_read_idx, m_write_idx, w_read, rpc, r_len>>
      BY <1>2, <2>2, <3>1 DEF WriteBufferLoadWrite, FreeSpace, rvars
    <3>4. TypeOK' /\ IndexOK' /\ StaleReadOK'
      BY <1>0, <3>2, <3>3 DEF TypeOK
    <3>5. OfferOK'
      BY <1>0, <3>2, <3>3 DEF TypeOK
    <3> QED BY <3>4, <3>5
  <2> QED BY <2>1, <2>2
<1>3. ASSUME NEW data \in Chunks, Fill(data) PROVE RingInv'
  <2>1. Len(data) \in 0..Capacity
    <3>1. PICK n \in 0..Capacity : data \in [1..n -> Byte]
      BY DEF Chunks
    <3> QED BY <3>1
  <2>2. m_buf' \in [0..Capacity-1 -> Byte]
    <3>1. m_buf \in [0..Capacity-1 -> Byte] /\ w_ptr \in 0..(2 * Capacity)
      BY <1>0, <1>3 DEF Fill, TypeOK
    <3>2. m_buf' = Overwrite(m_buf, w_ptr, data)
      BY <1>3 DEF Fill
    <3> QED BY <3>1, <3>2, OverwriteType
  <2>3. /\ wpc = "offered" /\ wpc' = "filled" /\ w_len' = Len(data)
        /\ Len(data) = 0 \/ Len(data) <= w_len - Spare
        /\ UNCHANGED <<m_read_idx, m_write_idx, w_read, w_ptr, rpc, r_len>>
    BY <1>3 DEF Fill, rvars
  <2> QED BY <1>0, <2>1, <2>2, <2>3 DEF TypeOK
<1>4. CASE advance_write
  <2>1. m_write_idx + w_len <= 2 * Capacity
    BY <1>0, <1>4 DEF TypeOK, advance_write
  <2>2. m_write_idx' = m_write_idx + w_len
    BY <1>0, <1>4, <2>1 DEF TypeOK, advance_write, AddU32
  <2> QED BY <1>0, <1>4, <2>1, <2>2 DEF TypeOK, advance_write, rvars
<1>5. CASE read_buffer
  <2>1. SubU32(m_write_idx, m_read_idx) = m_write_idx - m_read_idx
    BY <1>0, <1>5 DEF TypeOK, read_buffer, SubU32
  <2> QED BY <1>0, <1>5, <2>1 DEF TypeOK, read_buffer, wvars
<1>6. ASSUME NEW increment \in 0..Capacity, advance_read(increment)
      PROVE  RingInv'
  <2>1. AddU32(m_read_idx, increment) = m_read_idx + increment
    BY <1>0 DEF TypeOK, AddU32
  <2>2. CASE m_read_idx + increment > Capacity
    <3>1. m_read_idx' = m_read_idx + increment - Capacity
      BY <1>0, <1>6, <2>1, <2>2 DEF TypeOK, advance_read, Wraps, WrappedRead, SubU32
    <3>2. /\ rpc = "view" /\ rpc' = "wrap" /\ r_len' = 0 /\ increment <= r_len
          /\ UNCHANGED <<m_buf, m_write_idx, wpc, w_read, w_ptr, w_len>>
      BY <1>6, <2>1, <2>2 DEF advance_read, Wraps, wvars
    <3>3. TypeOK' /\ IndexOK'
      BY <1>0, <2>2, <3>1, <3>2 DEF TypeOK
    <3>4. StaleReadOK'
      BY <1>0, <2>2, <3>1, <3>2 DEF TypeOK
    <3>5. OfferOK'
      BY <1>0, <2>2, <3>1, <3>2 DEF TypeOK
    <3> QED BY <3>3, <3>4, <3>5
  <2>3. CASE ~(m_read_idx + increment > Capacity)
    <3>1. /\ m_read_idx' = m_read_idx + increment
          /\ rpc = "view" /\ rpc' = "idle" /\ r_len' = 0 /\ increment <= r_len
          /\ UNCHANGED <<m_buf, m_write_idx, wpc, w_read, w_ptr, w_len>>
      BY <1>6, <2>1, <2>3 DEF advance_read, Wraps, wvars
    <3> QED BY <1>0, <2>3, <3>1 DEF TypeOK
  <2> QED BY <2>2, <2>3
<1>7. CASE WrapWrite
  <2>1. m_write_idx' = m_write_idx - Capacity
    BY <1>0, <1>7 DEF TypeOK, WrapWrite, WrappedWrite, SubU32
  <2> QED BY <1>0, <1>7, <2>1 DEF TypeOK, WrapWrite, wvars
<1> QED
  BY <1>1, <1>2, <1>3, <1>4, <1>5, <1>6, <1>7 DEF Next, Writer, Reader

\* A step of neither thread keeps it.
LEMMA StutterInv == ASSUME RingInv, UNCHANGED vars PROVE RingInv'
BY DEF RingInv, TypeOK, IndexOK, StaleReadOK, OfferOK, Unread, Settled,
       vars, wvars, rvars

\* The inductive invariant holds in every state the two threads reach.
THEOREM RingInvariant == ASSUME Spare >= 1 PROVE Spec => []RingInv
<1>1. Init => RingInv
  BY InitInv
<1>2. RingInv /\ [Next]_vars => RingInv'
  BY NextInv, StutterInv
<1> QED BY <1>1, <1>2, PTL DEF Spec, Safety

\* The indices never leave uint32_t and the ring stays a function to bytes.
THEOREM TypeCorrect == ASSUME Spare >= 1 PROVE Spec => []TypeOK
<1>1. RingInv => TypeOK
  BY DEF RingInv
<1> QED BY <1>1, RingInvariant, PTL

\* read_buffer and write_buffer never hand out a byte beyond the double mapping
\* that alloc made, for every capacity.
THEOREM StaysInsideMapping ==
  ASSUME Spare >= 1 PROVE Spec => []WindowsInsideMapping
<1>1. RingInv => WindowsInsideMapping
  BY Constants DEF RingInv, TypeOK, IndexOK, OfferOK, Unread, Settled,
                   WindowsInsideMapping
<1> QED BY <1>1, RingInvariant, PTL

\* Going round the ring from an offered window, the unread bytes come after
\* the window.
LEMMA UnreadBehindOffer ==
  ASSUME RingInv, wpc \in {"offered", "filled"},
         NEW i \in 0..(Unread - 1)
  PROVE  /\ Cell(m_read_idx + i) \in 0..Capacity-1
         /\ Offset(Cell(m_read_idx + i), w_ptr) >= w_len
<1> DEFINE a == m_read_idx + i
<1>1. /\ m_read_idx \in 0..Capacity /\ w_len \in 0..Capacity
      /\ w_ptr \in 0..(2 * Capacity) /\ w_ptr + w_len <= 2 * Capacity
      /\ Settled \in Int /\ Unread = Settled - m_read_idx
      /\ w_ptr = Settled \/ w_ptr = Settled + Capacity
      /\ w_len <= Capacity - Unread /\ Unread \in 0..(Capacity - Spare)
  BY Constants DEF RingInv, TypeOK, IndexOK, OfferOK, Unread, Settled
<1>2. a \in Nat /\ m_read_idx <= a /\ a < Settled
  BY <1>1, Constants
<1>3. Cell(a) \in 0..Capacity-1
  BY <1>1, <1>2, Constants DEF Cell
<1>4. Offset(Cell(a), w_ptr) >= w_len
  BY <1>1, <1>2, <1>3, Constants DEF Cell, Offset
<1> QED BY <1>3, <1>4

\* The window write_buffer returns never covers an unread byte: the loads of
\* the two indices may straddle a wrap of the reader without harm.
THEOREM OffersAreFree == ASSUME Spare >= 1 PROVE Spec => []OfferIsFree
<1>1. RingInv => OfferIsFree
  BY UnreadBehindOffer DEF OfferIsFree
<1> QED BY <1>1, RingInvariant, PTL

-----------------------------------------------------------------------------
(* The ring implements the byte queue.  Window(buf, r, u) is the sequence of *)
(* the u bytes from address r on; Contents is one.                           *)

Window(buf, r, u) == [i \in 1..u |-> buf[Cell(r + i - 1)]]

\* A window is a sequence of bytes.
LEMMA WindowType ==
  ASSUME NEW buf \in [0..Capacity-1 -> Byte], NEW r \in 0..Capacity,
         NEW u \in 0..Capacity
  PROVE  /\ Window(buf, r, u) \in [1..u -> Byte]
         /\ Window(buf, r, u) \in Seq(Byte)
         /\ Len(Window(buf, r, u)) = u
<1>1. \A i \in 1..u : Cell(r + i - 1) \in 0..Capacity-1
  BY Constants DEF Cell
<1>2. Window(buf, r, u) \in [1..u -> Byte]
  BY <1>1 DEF Window
<1> QED BY <1>2, Constants

\* A sequence is its first u elements followed by the others.
LEMMA SplitSeq ==
  ASSUME NEW u \in Nat, NEW k \in Nat, NEW f \in [1..(u + k) -> Byte]
  PROVE  f = [i \in 1..u |-> f[i]] \o [i \in 1..k |-> f[u + i]]
<1> DEFINE g == [i \in 1..u |-> f[i]]
           h == [i \in 1..k |-> f[u + i]]
<1>1. g \in [1..u -> Byte] /\ h \in [1..k -> Byte]
  OBVIOUS
<1>2. g \in Seq(Byte) /\ Len(g) = u /\ h \in Seq(Byte) /\ Len(h) = k
  BY <1>1
<1>3. f \in Seq(Byte) /\ Len(f) = u + k
  OBVIOUS
<1>4. \A i \in 1..u : g[i] = f[i]
  OBVIOUS
<1>5. \A i \in 1..k : h[i] = f[u + i]
  OBVIOUS
<1> HIDE DEF g, h
<1>6. g \o h \in Seq(Byte) /\ Len(g \o h) = u + k
  BY <1>2
<1>7. ASSUME NEW i \in 1..(u + k) PROVE f[i] = (g \o h)[i]
  <2>1. CASE i <= u
    BY <2>1, <1>2, <1>4
  <2>2. CASE i > u
    <3>1. i - u \in 1..k /\ u + (i - u) = i
      BY <2>2
    <3>2. (g \o h)[i] = h[i - u]
      BY <2>2, <1>2
    <3> QED BY <3>1, <3>2, <1>5
  <2>3. i <= u \/ i > u
    OBVIOUS
  <2> QED BY <2>1, <2>2, <2>3
<1>8. f = g \o h
  BY <1>3, <1>6, <1>7
<1> QED BY <1>8 DEF g, h

\* Removing the first n elements of a sequence of u.
LEMMA DropSeq ==
  ASSUME NEW u \in Nat, NEW n \in 0..u, NEW f \in [1..u -> Byte]
  PROVE  SubSeq(f, n + 1, u) = [i \in 1..(u - n) |-> f[n + i]]
<1>1. f \in Seq(Byte) /\ Len(f) = u
  OBVIOUS
<1>2. SubSeq(f, n + 1, u) = [i \in 1..(u - (n + 1) + 1) |-> f[(n + 1) + i - 1]]
  BY <1>1
<1>3. u - (n + 1) + 1 = u - n
  OBVIOUS
<1>4. \A i \in 1..(u - n) : (n + 1) + i - 1 = n + i
  OBVIOUS
<1> QED BY <1>2, <1>3, <1>4

\* A longer window is the shorter one with a chunk appended.
LEMMA WindowPut ==
  ASSUME NEW buf \in [0..Capacity-1 -> Byte], NEW r \in 0..Capacity,
         NEW u \in Nat, NEW k \in Nat \ {0}, u + k <= Capacity
  PROVE  \E data \in Fifo!Chunks :
           /\ Len(data) = k
           /\ Window(buf, r, u + k) = Window(buf, r, u) \o data
<1> DEFINE f == Window(buf, r, u + k)
           data == [i \in 1..k |-> f[u + i]]
<1>1. f \in [1..(u + k) -> Byte]
  <2>1. u + k \in 0..Capacity
    BY Constants
  <2> QED BY <2>1, WindowType
<1>2. [i \in 1..u |-> f[i]] = Window(buf, r, u)
  <2>1. \A i \in 1..u : i \in 1..(u + k)
    OBVIOUS
  <2>2. \A i \in 1..u : f[i] = buf[Cell(r + i - 1)]
    BY <2>1 DEF Window
  <2> QED BY <2>2 DEF Window
<1>3. data \in [1..k -> Byte]
  BY <1>1
<1> HIDE DEF f
<1>4. f = [i \in 1..u |-> f[i]] \o [i \in 1..k |-> f[u + i]]
  BY <1>1, SplitSeq
<1>5. f = Window(buf, r, u) \o data
  BY <1>2, <1>4
<1> HIDE DEF data
<1>6. k \in 1..Capacity
  BY Constants
<1>7. data \in Fifo!Chunks
  BY <1>3, <1>6 DEF Fifo!Chunks
<1>8. Len(data) = k
  BY <1>3
<1> QED BY <1>5, <1>7, <1>8 DEF f

\* Moving the read index, wrapped or not, drops a prefix of the window.
LEMMA WindowGet ==
  ASSUME NEW buf \in [0..Capacity-1 -> Byte], NEW r \in 0..Capacity,
         NEW u \in 0..Capacity, NEW n \in 0..u, NEW s \in 0..Capacity,
         s = r + n \/ s = r + n - Capacity
  PROVE  Window(buf, s, u - n) = SubSeq(Window(buf, r, u), n + 1, u)
<1> DEFINE f == Window(buf, r, u)
<1>0. u \in Nat
  BY Constants
<1>1. f \in [1..u -> Byte]
  BY WindowType
<1>2. ASSUME NEW i \in 1..(u - n)
      PROVE  f[n + i] = buf[Cell(s + i - 1)]
  <2>1. n + i \in 1..u
    OBVIOUS
  <2>2. f[n + i] = buf[Cell(r + (n + i) - 1)]
    BY <2>1 DEF Window
  <2>3. Cell(r + (n + i) - 1) = Cell(s + i - 1)
    BY <2>1, Constants DEF Cell
  <2> QED BY <2>2, <2>3
<1>3. Window(buf, s, u - n) = [i \in 1..(u - n) |-> f[n + i]]
  BY <1>2 DEF Window
<1> HIDE DEF f
<1>4. SubSeq(f, n + 1, u) = [i \in 1..(u - n) |-> f[n + i]]
  BY <1>0, <1>1, DropSeq
<1> QED BY <1>3, <1>4 DEF f

\* Filling an offered window leaves the unread bytes alone.
LEMMA FillKeepsContents ==
  ASSUME RingInv, NEW data \in Chunks, Fill(data)
  PROVE  Contents' = Contents
<1>1. /\ m_read_idx' = m_read_idx /\ Unread' = Unread
      /\ m_buf' = Overwrite(m_buf, w_ptr, data)
      /\ wpc = "offered"
      /\ Len(data) = 0 \/ Len(data) <= w_len - Spare
      /\ Unread \in Int /\ m_read_idx \in Nat
  BY Constants DEF Fill, rvars, Unread, Settled, RingInv, TypeOK, IndexOK
<1>2. Len(data) \in Nat /\ w_len \in Nat
  <2>1. PICK n \in 0..Capacity : data \in [1..n -> Byte]
    BY DEF Chunks
  <2> QED BY <2>1, Constants DEF RingInv, TypeOK
<1>3. Len(data) <= w_len
  BY <1>1, <1>2, Constants
<1>4. ASSUME NEW i \in 1..Unread
      PROVE  m_buf'[Cell(m_read_idx + i - 1)] = m_buf[Cell(m_read_idx + i - 1)]
  <2>1. i - 1 \in 0..(Unread - 1) /\ m_read_idx + (i - 1) = m_read_idx + i - 1
    BY <1>1
  <2>2. wpc \in {"offered", "filled"}
    BY <1>1 
  <2>3. /\ Cell(m_read_idx + i - 1) \in 0..Capacity-1
        /\ Offset(Cell(m_read_idx + i - 1), w_ptr) >= w_len
    BY <2>1, <2>2, UnreadBehindOffer
  <2>4. Offset(Cell(m_read_idx + i - 1), w_ptr) \in Int
    BY <2>3, <1>1, Constants DEF Offset, Cell, RingInv, TypeOK
  <2>5. ~(Offset(Cell(m_read_idx + i - 1), w_ptr) < Len(data))
    BY <2>3, <2>4, <1>2, <1>3
  <2> QED BY <1>1, <2>3, <2>5 DEF Overwrite
<1> QED BY <1>1, <1>4 DEF Contents

\* Every step of the ring is a Put, a Get or no step of the queue.
LEMMA StepSimulation ==
  ASSUME Spare >= 1, RingInv, Next
  PROVE  [Fifo!Next]_Contents
<1>0. /\ m_buf \in [0..Capacity-1 -> Byte] /\ m_read_idx \in 0..Capacity
      /\ Unread \in 0..(Capacity - Spare) /\ Contents = Window(m_buf, m_read_idx, Unread)
      /\ Contents' = Window(m_buf', m_read_idx', Unread')
  BY Constants DEF RingInv, TypeOK, IndexOK, Contents, Window
<1>1. CASE WriteBufferLoadRead \/ WriteBufferLoadWrite \/ read_buffer
  <2>1. m_buf' = m_buf /\ m_read_idx' = m_read_idx /\ Unread' = Unread
    BY <1>1 DEF WriteBufferLoadRead, WriteBufferLoadWrite, read_buffer, rvars,
                wvars, Unread, Settled
  <2> QED BY <2>1 DEF Contents
<1>2. CASE WrapWrite
  <2>1. m_buf' = m_buf /\ m_read_idx' = m_read_idx
    BY <1>2 DEF WrapWrite
  <2>2. Settled' = Settled
    BY <1>2, Constants DEF WrapWrite, WrappedWrite, Settled, SubU32, RingInv, TypeOK, IndexOK,
                           Unread
  <2> QED BY <2>1, <2>2 DEF Contents, Unread
<1>3. ASSUME NEW data \in Chunks, Fill(data) PROVE [Fifo!Next]_Contents
  BY <1>3, FillKeepsContents
<1>4. CASE advance_write
  <2>1. /\ w_len \in Nat /\ Unread' = Unread + w_len /\ Unread + w_len <= Capacity
        /\ m_buf' = m_buf /\ m_read_idx' = m_read_idx
    BY <1>4, Constants DEF RingInv, TypeOK, IndexOK, OfferOK, advance_write,
                           AddU32, rvars, Unread, Settled
  <2>2. CASE w_len = 0
    BY <1>0, <2>1, <2>2
  <2>3. CASE w_len # 0
    <3>1. PICK data \in Fifo!Chunks :
            /\ Len(data) = w_len
            /\ Window(m_buf, m_read_idx, Unread + w_len)
                 = Window(m_buf, m_read_idx, Unread) \o data
      <4>1. w_len \in Nat \ {0} /\ Unread \in Nat /\ Unread + w_len <= Capacity
        BY <1>0, <2>1, <2>3, Constants
      <4> QED BY <1>0, <4>1, WindowPut
    <3>2. Len(Contents) = Unread
      BY <1>0, WindowType, Constants
    <3>3. Fifo!Put(data)
      BY <1>0, <2>1, <3>1, <3>2 DEF Fifo!Put
    <3> QED BY <3>3 DEF Fifo!Next
  <2> QED BY <2>2, <2>3
<1>5. ASSUME NEW increment \in 0..Capacity, advance_read(increment)
      PROVE  [Fifo!Next]_Contents
  <2>1. /\ increment \in 0..Unread /\ Unread' = Unread - increment
        /\ m_read_idx' \in 0..Capacity /\ m_buf' = m_buf
        /\ \/ m_read_idx' = m_read_idx + increment
           \/ m_read_idx' = m_read_idx + increment - Capacity
    <3>1. /\ AddU32(m_read_idx, increment) = m_read_idx + increment
          /\ increment \in 0..Unread
      BY <1>0, <1>5, Constants DEF AddU32, RingInv, TypeOK, IndexOK, advance_read
    <3>2. CASE m_read_idx + increment > Capacity
      <4>1. m_read_idx' = m_read_idx + increment - Capacity
        BY <1>0, <1>5, <3>1, <3>2, Constants DEF advance_read, Wraps, WrappedRead, SubU32
      <4> QED BY <1>0, <1>5, <3>1, <3>2, <4>1, Constants
              DEF advance_read, Wraps, Unread, Settled, RingInv, TypeOK, wvars
    <3>3. CASE ~(m_read_idx + increment > Capacity)
      BY <1>0, <1>5, <3>1, <3>3, Constants
      DEF advance_read, Wraps, Unread, Settled, RingInv, TypeOK, wvars
    <3> QED BY <3>2, <3>3
  <2>2. Len(Contents) = Unread /\ Unread \in 0..Capacity
    BY <1>0, WindowType, Constants
  <2>3. Contents' = SubSeq(Contents, increment + 1, Unread)
    <3> DEFINE u == Unread
               s == m_read_idx'
    <3>1. /\ m_buf \in [0..Capacity-1 -> Byte] /\ m_read_idx \in 0..Capacity
          /\ u \in 0..Capacity /\ increment \in 0..u /\ s \in 0..Capacity
          /\ s = m_read_idx + increment \/ s = m_read_idx + increment - Capacity
      BY <1>0, <2>1, <2>2
    <3> HIDE DEF u, s
    <3>2. Window(m_buf, s, u - increment)
            = SubSeq(Window(m_buf, m_read_idx, u), increment + 1, u)
      BY <3>1, WindowGet
    <3>3. Contents = Window(m_buf, m_read_idx, u) /\ Contents' = Window(m_buf, s, u - increment)
      BY <1>0, <2>1 DEF u, s
    <3> QED BY <3>2, <3>3 DEF u
  <2>4. CASE increment = 0
    <3>1. Unread \in Nat /\ Contents \in [1..Unread -> Byte]
      BY <1>0, <2>2, WindowType
    <3>2. SubSeq(Contents, 0 + 1, Unread) = [i \in 1..(Unread - 0) |-> Contents[0 + i]]
      BY <3>1, DropSeq
    <3>3. [i \in 1..(Unread - 0) |-> Contents[0 + i]] = Contents
      BY <3>1
    <3> QED BY <2>3, <2>4, <3>2, <3>3
  <2>5. CASE increment # 0
    <3>1. increment \in 1..Len(Contents)
      BY <2>1, <2>2, <2>5
    <3>2. Fifo!Get(increment)
      BY <2>2, <2>3 DEF Fifo!Get
    <3> QED BY <3>1, <3>2 DEF Fifo!Next
  <2> QED BY <2>4, <2>5
<1> QED
  BY <1>1, <1>2, <1>3, <1>4, <1>5 DEF Next, Writer, Reader

\* Under the one-spare-byte rule the ring is a FIFO of bytes for every
\* capacity: what advance_read drops is what advance_write published, in order.
THEOREM ImplementsFifo == ASSUME Spare >= 1 PROVE Spec => IsFifo
<1>1. Init => Fifo!Init
  BY DEF Init, Fifo!Init, Contents, Unread, Settled
<1>2. RingInv /\ [Next]_vars => [Fifo!Next]_Contents
  <2>1. ASSUME UNCHANGED vars PROVE Contents' = Contents
    BY <2>1 DEF Contents, Unread, Settled, vars, wvars, rvars
  <2> QED BY <2>1, StepSimulation
<1> QED BY <1>1, <1>2, RingInvariant, PTL DEF Spec, Safety, IsFifo, Fifo!Spec

=============================================================================
