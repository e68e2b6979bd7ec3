--------------------------- MODULE GapFeedProofs ---------------------------
(***************************************************************************)
(* First, the packet buffer of GapIdentifier is in order whatever its      *)
(* client does, for every buffer size, feed length and overflow policy, as *)
(* long as no payload is longer than a slot's m_obj ("over" not in Sizes). *)
(* Then, a feed handler on GapIdentifier gets every packet once and in     *)
(* order; and when it takes on every gap, a fetch is under way whenever    *)
(* packets wait.                                                           *)
(***************************************************************************)
EXTENDS GapFeed, TLAPS

\* write_index counts stored packets, each with a higher number than the last:
\* neither index reaches 2^32 before the sequence numbers do.
IndexBound == m_write_index <= m_max_seq_num

WindowOK == BufferSorted /\ FreeSlotsClear /\ IndexBound

GapInv == TypeOK /\ WindowOK /\ ReplaysAscend

-----------------------------------------------------------------------------
\* The constants, as the leaves below use them.
LEMMA Constants ==
  /\ Size \in Nat /\ Size > 0 /\ MaxSeq \in Nat /\ MaxSeq > 0
  /\ IdxMod \in Nat /\ IdxMod > MaxSeq + 1 /\ IdxMod > Size
BY SizeAssumption, MaxSeqAssumption, IdxModAssumption

\* Every index names a slot.
LEMMA IndexRange == \A i \in Nat : get_index(i) \in 0..Size-1
BY Constants DEF get_index

\* Division with remainder.
LEMMA DivMod ==
  ASSUME NEW i \in Nat
  PROVE  /\ i \div Size \in Int
         /\ i = Size * (i \div Size) + get_index(i)
BY Constants DEF get_index

\* No multiple of Size lies strictly between 0 and Size.
LEMMA NoMultiple ==
  ASSUME NEW d \in Int, 0 < Size * d, Size * d < Size
  PROVE  FALSE
<1>1. CASE d <= 0
  BY <1>1, Constants
<1>2. CASE d >= 1
  BY <1>2, Constants
<1> QED BY <1>1, <1>2

\* Two indices less than Size apart name different slots.
LEMMA IndexDistinct ==
  ASSUME NEW i \in Nat, NEW j \in Nat, i < j, j < i + Size
  PROVE  get_index(i) # get_index(j)
<1> SUFFICES ASSUME get_index(i) = get_index(j) PROVE FALSE
  OBVIOUS
<1> DEFINE p == i \div Size
           q == j \div Size
           m == get_index(i)
<1>1. p \in Int /\ q \in Int /\ m \in Int
  BY DivMod, IndexRange, Constants
<1>2. i = Size * p + m /\ j = Size * q + m
  BY DivMod
<1> HIDE DEF p, q, m
<1>3. Size * (q - p) = Size * q - Size * p
  BY <1>1, Constants
<1>4. Size * p \in Int /\ Size * q \in Int
  BY <1>1, Constants
<1>5. Size * (q - p) = j - i
  BY <1>1, <1>2, <1>3, <1>4
<1>6. 0 < Size * (q - p) /\ Size * (q - p) < Size
  BY <1>5, Constants
<1> QED BY <1>1, <1>6, NoMultiple

\* Size indices on, the same slot comes round.
LEMMA IndexPeriod ==
  ASSUME NEW i \in Nat PROVE get_index(i + Size) = get_index(i)
<1> DEFINE p == i \div Size
           q == (i + Size) \div Size
           m == get_index(i)
           n == get_index(i + Size)
<1>0. i + Size \in Nat
  BY Constants
<1>1. p \in Int /\ q \in Int /\ m \in 0..Size-1 /\ n \in 0..Size-1
  BY <1>0, DivMod, IndexRange
<1>2. i = Size * p + m /\ i + Size = Size * q + n
  BY <1>0, DivMod
<1> HIDE DEF p, q, m, n
<1>3. Size * (q - p - 1) = Size * q - Size * p - Size
  BY <1>1, Constants
<1>4. Size * p \in Int /\ Size * q \in Int
  BY <1>1, Constants
<1>5. Size * (q - p - 1) = m - n
  BY <1>1, <1>2, <1>3, <1>4, Constants
<1>6. Size * (p + 1 - q) = n - m
  <2>1. Size * (p + 1 - q) = Size * p + Size - Size * q
    BY <1>1, Constants
  <2> QED BY <1>1, <1>2, <1>4, <2>1, Constants
<1>7. ~(m - n > 0)
  BY <1>1, <1>5, NoMultiple, Constants
<1>8. ~(n - m > 0)
  BY <1>1, <1>6, NoMultiple, Constants
<1>9. m = n
  BY <1>1, <1>7, <1>8, Constants
<1> QED BY <1>9 DEF m, n

-----------------------------------------------------------------------------
(* The three ways the window moves. *)

\* The types the window lemmas need.
LEMMA WindowTypes ==
  ASSUME TypeOK, WindowOK
  PROVE  /\ m_read_index \in Nat /\ m_write_index \in Nat
         /\ m_read_index <= m_write_index
         /\ m_write_index <= m_read_index + Size
         /\ m_write_index <= MaxSeq /\ m_max_seq_num \in 0..MaxSeq
         /\ Inc(m_write_index) = m_write_index + 1
         /\ NonEmpty => Inc(m_read_index) = m_read_index + 1
         /\ Window \subseteq Nat
         /\ \A i \in Window : get_index(i) \in 0..Size-1
         /\ \A c \in 0..Size-1 : m_array[c] \in 0..MaxSeq
<1>1. /\ m_read_index \in Nat /\ m_write_index \in Nat
      /\ m_read_index <= m_write_index
      /\ m_write_index <= m_read_index + Size
      /\ m_write_index <= MaxSeq /\ m_max_seq_num \in 0..MaxSeq
  BY Constants DEF TypeOK, WindowOK, BufferSorted, IndexBound
<1>2. /\ Inc(m_write_index) = m_write_index + 1
      /\ NonEmpty => Inc(m_read_index) = m_read_index + 1
  BY <1>1, Constants DEF Inc, NonEmpty
<1>3. Window \subseteq Nat
  BY <1>1 DEF Window
<1>4. \A i \in Window : get_index(i) \in 0..Size-1
  BY <1>3, IndexRange
<1>5. \A c \in 0..Size-1 : m_array[c] \in 0..MaxSeq
  BY DEF TypeOK
<1> QED BY <1>1, <1>2, <1>3, <1>4, <1>5

\* A step that touches none of it.
LEMMA WindowSame ==
  ASSUME WindowOK, UNCHANGED <<m_array, m_read_index, m_write_index, m_max_seq_num>>
  PROVE  WindowOK'
BY DEF WindowOK, BufferSorted, FreeSlotsClear, IndexBound, Window, get_index

\* Storing a packet newer than all others in the next slot, when one is free.
LEMMA WindowInsert ==
  ASSUME TypeOK, WindowOK, m_write_index - m_read_index < Size,
         NEW s \in SeqNum, s > m_max_seq_num,
         m_array' = [m_array EXCEPT ![get_index(m_write_index)] = s],
         m_write_index' = Inc(m_write_index), m_read_index' = m_read_index,
         m_max_seq_num' = s
  PROVE  WindowOK'
<1> DEFINE w == m_write_index
           r == m_read_index
<1>1. /\ r \in Nat /\ w \in Nat /\ r <= w /\ w < r + Size /\ w' = w + 1
      /\ m_max_seq_num \in 0..MaxSeq /\ s \in 1..MaxSeq
  BY WindowTypes, Constants DEF SeqNum
<1>2. get_index(w) \in 0..Size-1
  BY <1>1, IndexRange
<1>3. Window' = Window \cup {w} /\ Window \subseteq Nat
  BY <1>1 DEF Window
<1>4. \A i \in Window : get_index(i) # get_index(w) /\ get_index(i) \in 0..Size-1
  <2>1. ASSUME NEW i \in Window PROVE get_index(i) # get_index(w)
    <3>1. i \in Nat /\ i < w /\ w < i + Size
      BY <1>1, Constants DEF Window
    <3> QED BY <3>1, <1>1, IndexDistinct
  <2> QED BY <2>1, WindowTypes
<1>5. /\ m_array'[get_index(w)] = s
      /\ \A i \in Window : m_array'[get_index(i)] = m_array[get_index(i)]
      /\ \A c \in 0..Size-1 : c # get_index(w) => m_array'[c] = m_array[c]
  BY <1>2, <1>4 DEF TypeOK
<1>6. \A i \in Window : m_array[get_index(i)] \in 0..MaxSeq
  BY WindowTypes
<1>7. BufferSorted'
  <2>1. (m_read_index <= m_write_index /\ m_write_index - m_read_index <= Size)'
    BY <1>1, Constants
  <2>2. ASSUME NEW i \in Window', NEW j \in Window', i < j
        PROVE  m_array'[get_index(i)] < m_array'[get_index(j)]
    <3>1. i \in Window
      BY <1>1, <1>3, <2>2 DEF Window
    <3>2. CASE j \in Window
      BY <2>2, <3>1, <3>2, <1>5 DEF WindowOK, BufferSorted
    <3>3. CASE j = w
      <4>1. m_array[get_index(i)] <= m_max_seq_num
        BY <3>1 DEF WindowOK, BufferSorted
      <4> QED BY <4>1, <3>1, <3>3, <1>1, <1>5, <1>6
    <3> QED BY <3>2, <3>3, <1>3
  <2>3. ASSUME NEW i \in Window'
        PROVE  0 < m_array'[get_index(i)] /\ m_array'[get_index(i)] <= s
    <3>1. CASE i \in Window
      <4>1. 0 < m_array[get_index(i)] /\ m_array[get_index(i)] <= m_max_seq_num
        BY <3>1 DEF WindowOK, BufferSorted
      <4> QED BY <4>1, <3>1, <1>1, <1>5, <1>6
    <3>2. CASE i = w
      BY <3>2, <1>1, <1>5
    <3> QED BY <3>1, <3>2, <1>3
  <2> QED BY <2>1, <2>2, <2>3 DEF BufferSorted, get_index
<1>8. FreeSlotsClear'
  <2>1. ASSUME NEW c \in 0..Size-1, \A i \in Window' : get_index(i) # c
        PROVE  m_array'[c] = 0
    <3>1. c # get_index(w) /\ \A i \in Window : get_index(i) # c
      BY <2>1, <1>3
    <3> QED BY <3>1, <1>5 DEF WindowOK, FreeSlotsClear
  <2> QED BY <2>1 DEF FreeSlotsClear, get_index
<1>9. IndexBound'
  BY <1>1 DEF WindowOK, IndexBound
<1> QED BY <1>7, <1>8, <1>9 DEF WindowOK

\* Freeing the front slot.
LEMMA WindowFree ==
  ASSUME TypeOK, WindowOK, NonEmpty, FreeFront,
         UNCHANGED <<m_write_index, m_max_seq_num>>
  PROVE  /\ WindowOK'
         /\ Window' \subseteq Window
         /\ \A i \in Window' : /\ m_array'[get_index(i)] = m_array[get_index(i)]
                               /\ Front < m_array[get_index(i)]
         /\ m_read_index' = m_read_index + 1
         /\ Front \in 1..MaxSeq /\ Front <= m_max_seq_num
<1> DEFINE w == m_write_index
           r == m_read_index
<1>1. /\ r \in Nat /\ w \in Nat /\ r < w /\ w <= r + Size /\ r' = r + 1 /\ w' = w
      /\ m_array' = [m_array EXCEPT ![get_index(r)] = 0]
  BY WindowTypes DEF FreeFront, NonEmpty
<1>2. get_index(r) \in 0..Size-1
  BY <1>1, IndexRange
<1>3. Window' \subseteq Window /\ r \in Window /\ Window \subseteq Nat
      /\ Window = Window' \cup {r} /\ \A i \in Window' : r < i
  BY <1>1 DEF Window
<1>4. \A i \in Window' : get_index(i) # get_index(r) /\ get_index(i) \in 0..Size-1
  <2>1. ASSUME NEW i \in Window' PROVE get_index(i) # get_index(r)
    <3>1. i \in Nat /\ r < i /\ i < r + Size
      BY <1>1, Constants DEF Window
    <3> QED BY <3>1, <1>1, IndexDistinct
  <2> QED BY <2>1, <1>3, WindowTypes
<1>5. /\ m_array'[get_index(r)] = 0
      /\ \A i \in Window' : m_array'[get_index(i)] = m_array[get_index(i)]
      /\ \A c \in 0..Size-1 : c # get_index(r) => m_array'[c] = m_array[c]
  BY <1>1, <1>2, <1>4 DEF TypeOK
<1>6. Front \in 1..MaxSeq /\ Front <= m_max_seq_num
  BY <1>2, <1>3, WindowTypes DEF Front, WindowOK, BufferSorted
<1>7. \A i \in Window' : Front < m_array[get_index(i)]
  BY <1>3 DEF Front, WindowOK, BufferSorted
<1>8. BufferSorted'
  <2>1. (m_read_index <= m_write_index /\ m_write_index - m_read_index <= Size)'
    BY <1>1, Constants
  <2>2. \A i, j \in Window' : i < j => m_array'[get_index(i)] < m_array'[get_index(j)]
    BY <1>3, <1>5 DEF WindowOK, BufferSorted
  <2>3. \A i \in Window' : /\ 0 < m_array'[get_index(i)]
                           /\ m_array'[get_index(i)] <= m_max_seq_num
    BY <1>3, <1>5 DEF WindowOK, BufferSorted
  <2> QED BY <2>1, <2>2, <2>3 DEF BufferSorted, get_index
<1>9. FreeSlotsClear'
  <2>1. ASSUME NEW c \in 0..Size-1, \A i \in Window' : get_index(i) # c
        PROVE  m_array'[c] = 0
    <3>1. CASE c = get_index(r)
      BY <3>1, <1>5
    <3>2. CASE c # get_index(r)
      <4>1. \A i \in Window : get_index(i) # c
        BY <2>1, <3>2, <1>3
      <4> QED BY <4>1, <3>2, <1>5 DEF WindowOK, FreeSlotsClear
    <3> QED BY <3>1, <3>2
  <2> QED BY <2>1 DEF FreeSlotsClear, get_index
<1>10. IndexBound'
  BY <1>1 DEF WindowOK, IndexBound
<1> QED BY <1>1, <1>3, <1>5, <1>6, <1>7, <1>8, <1>9, <1>10 DEF WindowOK

\* Overwriting the oldest packet with the newest, when no slot is free.
LEMMA WindowShift ==
  ASSUME TypeOK, WindowOK, m_write_index - m_read_index = Size,
         NEW s \in SeqNum, s > m_max_seq_num,
         m_array' = [m_array EXCEPT ![get_index(m_write_index)] = s],
         m_write_index' = Inc(m_write_index), m_read_index' = Inc(m_read_index),
         m_max_seq_num' = s
  PROVE  WindowOK'
<1> DEFINE w == m_write_index
           r == m_read_index
<1>1. /\ r \in Nat /\ w \in Nat /\ w = r + Size /\ w' = w + 1 /\ r' = r + 1
      /\ m_max_seq_num \in 0..MaxSeq /\ s \in 1..MaxSeq
  BY WindowTypes, Constants DEF SeqNum, NonEmpty
<1>2. get_index(w) \in 0..Size-1 /\ get_index(w) = get_index(r)
  BY <1>1, IndexRange, IndexPeriod
<1>3. /\ Window' = (Window \ {r}) \cup {w} /\ Window \subseteq Nat
      /\ \A i \in Window : r <= i /\ i < w
  BY <1>1, Constants DEF Window
<1>4. \A i \in Window \ {r} :
        get_index(i) # get_index(w) /\ get_index(i) \in 0..Size-1
  <2>1. ASSUME NEW i \in Window \ {r} PROVE get_index(i) # get_index(w)
    <3>1. i \in Nat /\ i < w /\ w < i + Size
      BY <1>1, Constants DEF Window
    <3> QED BY <3>1, <1>1, IndexDistinct
  <2> QED BY <2>1, WindowTypes
<1>5. /\ m_array'[get_index(w)] = s
      /\ \A i \in Window \ {r} : m_array'[get_index(i)] = m_array[get_index(i)]
      /\ \A c \in 0..Size-1 : c # get_index(w) => m_array'[c] = m_array[c]
  BY <1>2, <1>4 DEF TypeOK
<1>6. \A i \in Window : m_array[get_index(i)] \in 0..MaxSeq
  BY WindowTypes
<1>7. BufferSorted'
  <2>1. (m_read_index <= m_write_index /\ m_write_index - m_read_index <= Size)'
    BY <1>1, Constants
  <2>2. ASSUME NEW i \in Window', NEW j \in Window', i < j
        PROVE  m_array'[get_index(i)] < m_array'[get_index(j)]
    <3>1. i \in Window \ {r}
      BY <1>1, <1>3, <2>2
    <3>2. CASE j \in Window \ {r}
      BY <2>2, <3>1, <3>2, <1>5 DEF WindowOK, BufferSorted
    <3>3. CASE j = w
      <4>1. m_array[get_index(i)] <= m_max_seq_num
        BY <3>1 DEF WindowOK, BufferSorted
      <4> QED BY <4>1, <3>1, <3>3, <1>1, <1>5, <1>6
    <3> QED BY <3>2, <3>3, <1>3
  <2>3. ASSUME NEW i \in Window'
        PROVE  0 < m_array'[get_index(i)] /\ m_array'[get_index(i)] <= s
    <3>1. CASE i \in Window \ {r}
      <4>1. 0 < m_array[get_index(i)] /\ m_array[get_index(i)] <= m_max_seq_num
        BY <3>1 DEF WindowOK, BufferSorted
      <4> QED BY <4>1, <3>1, <1>1, <1>5, <1>6
    <3>2. CASE i = w
      BY <3>2, <1>1, <1>5
    <3> QED BY <3>1, <3>2, <1>3
  <2> QED BY <2>1, <2>2, <2>3 DEF BufferSorted, get_index
<1>8. FreeSlotsClear'
  <2>1. ASSUME NEW c \in 0..Size-1, \A i \in Window' : get_index(i) # c
        PROVE  m_array'[c] = 0
    <3>1. c # get_index(w) /\ \A i \in Window : get_index(i) # c
      BY <2>1, <1>2, <1>3
    <3> QED BY <3>1, <1>5 DEF WindowOK, FreeSlotsClear
  <2> QED BY <2>1 DEF FreeSlotsClear, get_index
<1>9. IndexBound'
  BY <1>1 DEF WindowOK, IndexBound
<1> QED BY <1>7, <1>8, <1>9 DEF WindowOK

-----------------------------------------------------------------------------
\* The constructor's state satisfies the invariant.
LEMMA InitInv == Init => GapInv
<1> SUFFICES ASSUME Init PROVE GapInv OBVIOUS
<1>1. TypeOK
  BY Constants DEF Init, TypeOK, NoGap, NoResult
<1>2. WindowOK
  BY Constants, IndexRange
  DEF Init, WindowOK, BufferSorted, FreeSlotsClear, IndexBound, Window
<1>3. ReplaysAscend
  BY DEF Init, ReplaysAscend
<1> QED BY <1>1, <1>2, <1>3 DEF GapInv

\* A step whose replayed' is 0 keeps ReplaysAscend.
LEMMA NoReplay == ASSUME replayed' = 0 PROVE ReplaysAscend'
BY DEF ReplaysAscend

\* Storing keeps m_array an array of sequence numbers.
LEMMA ArrayType ==
  ASSUME m_array \in [0..Size-1 -> 0..MaxSeq], NEW i \in Nat,
         NEW s \in 0..MaxSeq
  PROVE  [m_array EXCEPT ![get_index(i)] = s] \in [0..Size-1 -> 0..MaxSeq]
BY IndexRange

\* onPacketGap leaves gap and m_request_gap well typed.
LEMMA GapCallType ==
  ASSUME TypeOK, NEW buf \in 0..MaxSeq, NEW incr \in 0..MaxSeq,
         onPacketGap(m_expected_seq_num, buf, incr)
  PROVE  /\ gap' \in [exp : 0..(MaxSeq + 1), buf : 0..MaxSeq, incr : 0..MaxSeq]
         /\ m_request_gap' \in BOOLEAN
<1>1. m_expected_seq_num \in 0..(MaxSeq + 1) /\ m_request_gap \in BOOLEAN
  BY Constants DEF TypeOK
<1>2. PICK success \in Answers :
        m_request_gap' = IF success THEN FALSE ELSE m_request_gap
  BY DEF onPacketGap
<1>3. m_request_gap' \in BOOLEAN
  BY <1>1, <1>2, AnswersAssumption
<1>4. gap' \in [exp : 0..(MaxSeq + 1), buf : 0..MaxSeq, incr : 0..MaxSeq]
  BY <1>1 DEF onPacketGap
<1> QED BY <1>3, <1>4

\* update, through each of its returns, keeps the invariant.
LEMMA UpdateInv ==
  ASSUME "over" \notin Sizes, GapInv,
         NEW seq_num \in SeqNum, NEW size \in Sizes, update(seq_num, size)
  PROVE  GapInv'
<1>0. /\ TypeOK /\ WindowOK /\ seq_num \in 1..MaxSeq
      /\ Stored(seq_num, size) = {seq_num}
      /\ pc' = pc /\ upto' = upto
  BY DEF GapInv, SeqNum, Stored, update
<1>1. CASE updateRejects(seq_num, size)
  <2>1. WindowOK' /\ ReplaysAscend'
    BY <1>0, <1>1, WindowSame, NoReplay DEF updateRejects, NoCallback
  <2>2. TypeOK'
    BY <1>0, <1>1, Constants DEF updateRejects, NoCallback, TypeOK, NoGap
  <2> QED BY <2>1, <2>2 DEF GapInv
<1>2. CASE updateInSeq(seq_num)
  <2>1. WindowOK' /\ ReplaysAscend'
    BY <1>0, <1>2, WindowSame, NoReplay DEF updateInSeq, NoCallback
  <2>2. TypeOK'
    BY <1>0, <1>2, Constants DEF updateInSeq, NoCallback, TypeOK, NoGap
  <2> QED BY <2>1, <2>2 DEF GapInv
<1>3. CASE updateFull(seq_num, size) /\ ~Rejected(seq_num)
  <2>0. ReplaysAscend'
    BY <1>3, NoReplay DEF updateFull
  <2>1. m_write_index - m_read_index = Size /\ seq_num > m_max_seq_num
    BY <1>0, <1>3, WindowTypes, Constants DEF updateFull, numElements, Rejected
  <2>2. WindowOK'
    <3>1. CASE size # "empty" /\ Policy = "MIN_SEQ"
      BY <1>0, <1>3, <2>1, <3>1, WindowShift DEF updateFull
    <3>2. CASE ~(size # "empty" /\ Policy = "MIN_SEQ")
      BY <1>0, <1>3, <3>2, WindowSame DEF updateFull
    <3> QED BY <3>1, <3>2
  <2>3. /\ m_array' \in [0..Size-1 -> 0..MaxSeq] /\ m_max_seq_num' \in 0..MaxSeq
        /\ m_read_index' \in 0..IdxMod-1 /\ m_write_index' \in 0..IdxMod-1
        /\ m_expected_seq_num' = m_expected_seq_num
        /\ result' = [seq |-> seq_num, why |-> "full"] /\ replayed' = 0
    <3>0. m_array \in [0..Size-1 -> 0..MaxSeq] /\ seq_num \in 0..MaxSeq
      BY <1>0, Constants DEF TypeOK
    <3>1. CASE size # "empty" /\ Policy = "MIN_SEQ"
      <4>1. /\ m_array' = [m_array EXCEPT ![get_index(m_write_index)] = seq_num]
            /\ m_write_index' = Inc(m_write_index) /\ m_max_seq_num' = seq_num
            /\ m_read_index' = Inc(m_read_index)
        BY <1>0, <1>3, <3>1 DEF updateFull
      <4>2. /\ m_write_index \in Nat /\ m_read_index \in Nat
            /\ Inc(m_write_index) \in 0..IdxMod-1
            /\ Inc(m_read_index) \in 0..IdxMod-1
        BY <1>0, Constants DEF TypeOK, Inc
      <4>3. m_array' \in [0..Size-1 -> 0..MaxSeq]
        BY <3>0, <4>1, <4>2, ArrayType
      <4> QED BY <1>3, <3>0, <4>1, <4>2, <4>3 DEF updateFull
    <3>2. CASE ~(size # "empty" /\ Policy = "MIN_SEQ")
      BY <1>0, <1>3, <3>2 DEF updateFull, TypeOK
    <3> QED BY <3>1, <3>2
  <2>4. /\ gap' \in [exp : 0..(MaxSeq + 1), buf : 0..MaxSeq, incr : 0..MaxSeq]
        /\ m_request_gap' \in BOOLEAN
    <3>1. m_array'[get_index(m_read_index')] \in 0..MaxSeq /\ seq_num \in 0..MaxSeq
      BY <1>0, <2>3, IndexRange, Constants
    <3>2. CASE m_request_gap
      BY <1>0, <1>3, <3>1, <3>2, GapCallType DEF updateFull
    <3>3. CASE ~m_request_gap
      BY <1>0, <1>3, <3>3, Constants DEF updateFull, NoGap, TypeOK
    <3> QED BY <3>2, <3>3
  <2>5. TypeOK'
    BY <1>0, <2>3, <2>4, Constants, SMTT(20) DEF TypeOK
  <2> QED BY <2>0, <2>2, <2>5 DEF GapInv
<1>4. CASE updateInserts(seq_num, size) /\ ~Rejected(seq_num)
  <2>0. ReplaysAscend'
    BY <1>4, NoReplay DEF updateInserts
  <2>1. m_write_index - m_read_index < Size /\ seq_num > m_max_seq_num
    BY <1>0, <1>4, WindowTypes, Constants DEF updateInserts, numElements, Rejected
  <2>2. WindowOK'
    <3>1. CASE size # "empty"
      BY <1>0, <1>4, <2>1, <3>1, WindowInsert DEF updateInserts
    <3>2. CASE size = "empty"
      BY <1>0, <1>4, <3>2, WindowSame DEF updateInserts
    <3> QED BY <3>1, <3>2
  <2>3. /\ m_array' \in [0..Size-1 -> 0..MaxSeq] /\ m_max_seq_num' \in 0..MaxSeq
        /\ m_read_index' = m_read_index /\ m_write_index' \in 0..IdxMod-1
        /\ m_expected_seq_num' = m_expected_seq_num
        /\ result' = [seq |-> seq_num, why |-> "accepted"] /\ replayed' = 0
    <3>0. m_array \in [0..Size-1 -> 0..MaxSeq] /\ seq_num \in 0..MaxSeq
      BY <1>0, Constants DEF TypeOK
    <3>1. CASE size # "empty"
      <4>1. /\ m_array' = [m_array EXCEPT ![get_index(m_write_index)] = seq_num]
            /\ m_write_index' = Inc(m_write_index) /\ m_max_seq_num' = seq_num
            /\ m_read_index' = m_read_index
        BY <1>0, <1>4, <3>1 DEF updateInserts
      <4>2. /\ m_write_index \in Nat /\ m_read_index \in Nat
            /\ Inc(m_write_index) \in 0..IdxMod-1
            /\ Inc(m_read_index) \in 0..IdxMod-1
        BY <1>0, Constants DEF TypeOK, Inc
      <4>3. m_array' \in [0..Size-1 -> 0..MaxSeq]
        BY <3>0, <4>1, <4>2, ArrayType
      <4> QED BY <1>4, <3>0, <4>1, <4>2, <4>3 DEF updateInserts
    <3>2. CASE size = "empty"
      BY <1>0, <1>4, <3>2 DEF updateInserts, TypeOK
    <3> QED BY <3>1, <3>2
  <2>4. /\ gap' \in [exp : 0..(MaxSeq + 1), buf : 0..MaxSeq, incr : 0..MaxSeq]
        /\ m_request_gap' \in BOOLEAN
    <3>0. m_read_index \in Nat
      BY <1>0, Constants DEF TypeOK
    <3>1. m_array'[get_index(m_read_index)] \in 0..MaxSeq /\ seq_num \in 0..MaxSeq
      <4>1. get_index(m_read_index) \in 0..Size-1
        BY <3>0, IndexRange
      <4>2. m_array'[get_index(m_read_index)] \in 0..MaxSeq
        BY <2>3, <4>1
      <4> QED BY <1>0, <4>2, Constants
    <3>2. CASE m_request_gap
      BY <1>0, <1>4, <3>1, <3>2, GapCallType DEF updateInserts
    <3>3. CASE ~m_request_gap
      BY <1>0, <1>4, <3>3, Constants DEF updateInserts, NoGap, TypeOK
    <3> QED BY <3>2, <3>3
  <2>5. TypeOK'
    BY <1>0, <2>3, <2>4, Constants DEF TypeOK
  <2> QED BY <2>0, <2>2, <2>5 DEF GapInv
<1> QED BY <1>1, <1>2, <1>3, <1>4 DEF update

\* The calls that only set fields or start a loop.
LEMMA SetterInv ==
  ASSUME GapInv, NEW seq_num \in 0..MaxSeq,
         \/ updateSeqNum(seq_num) \/ updateSeqNumFlush(seq_num)
         \/ drainPacket(seq_num) \/ replayPacket(seq_num) \/ drainAndReplay
         \/ \E flag \in BOOLEAN : setReRequestFlag(flag)
  PROVE  GapInv'
<1>1. /\ UNCHANGED <<m_array, m_read_index, m_write_index, m_max_seq_num>>
      /\ gap' = NoGap /\ replayed' = 0 /\ result' = NoResult
  BY DEF updateSeqNum, updateSeqNumFlush, drainPacket, replayPacket,
         drainAndReplay, setReRequestFlag, NoCallback, NoVerdict
<1>2. seq_num + 1 \in 0..(MaxSeq + 1) /\ seq_num \in 0..(MaxSeq + 1)
  BY Constants
<1>3. /\ m_expected_seq_num' \in 0..(MaxSeq + 1) /\ upto' \in 0..MaxSeq
      /\ m_request_gap' \in BOOLEAN
      /\ pc' \in {"idle", "drainPacket", "drainAndReplay", "replayPacket"}
  BY <1>2 DEF GapInv, TypeOK, updateSeqNum, updateSeqNumFlush, drainPacket,
              replayPacket, drainAndReplay, setReRequestFlag
<1>4. TypeOK'
  BY <1>1, <1>3, Constants DEF GapInv, TypeOK, NoGap, NoResult
<1>5. WindowOK' /\ ReplaysAscend'
  BY <1>1, WindowSame, NoReplay DEF GapInv
<1> QED BY <1>4, <1>5 DEF GapInv

\* An iteration that frees the front slot, with or without a replay of it.
LEMMA FreeInv ==
  ASSUME GapInv, NonEmpty, FreeFront, gap' = NoGap, result' = NoResult,
         replayed' = 0 \/ replayed' = Front,
         m_expected_seq_num' \in 0..(MaxSeq + 1),
         UNCHANGED <<m_write_index, m_max_seq_num, m_request_gap, pc, upto>>
  PROVE  GapInv'
<1>1. TypeOK /\ WindowOK
  BY DEF GapInv
<1>2. /\ WindowOK'
      /\ \A i \in Window' : /\ m_array'[get_index(i)] = m_array[get_index(i)]
                            /\ Front < m_array[get_index(i)]
      /\ m_read_index' = m_read_index + 1
      /\ Front \in 1..MaxSeq /\ Front <= m_max_seq_num
  BY <1>1, WindowFree
<1>3. ReplaysAscend'
  <2>1. CASE replayed' = 0
    BY <2>1, NoReplay
  <2>2. CASE replayed' = Front
    <3>1. \A s \in Buffered' : replayed' < s
      BY <1>2, <2>2 DEF Buffered, get_index
    <3>2. replayed' <= m_max_seq_num'
      BY <1>2, <2>2
    <3> QED BY <3>1, <3>2 DEF ReplaysAscend
  <2> QED BY <2>1, <2>2
<1>4. m_array' \in [0..Size-1 -> 0..MaxSeq]
  <2>1. m_array \in [0..Size-1 -> 0..MaxSeq] /\ m_read_index \in Nat /\ 0 \in 0..MaxSeq
    BY <1>1, Constants DEF TypeOK
  <2>2. m_array' = [m_array EXCEPT ![get_index(m_read_index)] = 0]
    BY DEF FreeFront
  <2> QED BY <2>1, <2>2, ArrayType
<1>5. m_read_index' \in 0..IdxMod-1
  BY <1>1, <1>2, Constants, WindowTypes DEF NonEmpty
<1>6. replayed' \in 0..MaxSeq
  BY <1>2, Constants
<1>7. TypeOK'
  BY <1>1, <1>4, <1>5, <1>6, Constants DEF TypeOK, NoGap, NoResult
<1> QED BY <1>2, <1>3, <1>7 DEF GapInv

\* An iteration of drainPacket, drainAndReplay or replayPacket keeps it.
LEMMA LoopInv == ASSUME GapInv, Loop PROVE GapInv'
<1>0. /\ TypeOK /\ WindowOK /\ m_expected_seq_num \in 0..(MaxSeq + 1)
  BY DEF GapInv, TypeOK
<1>1. NonEmpty => Front \in 1..MaxSeq
  <2>1. ASSUME NonEmpty PROVE Front \in 1..MaxSeq
    <3>1. m_read_index \in Window /\ m_read_index \in Nat
      BY <1>0, <2>1, WindowTypes DEF Window, NonEmpty
    <3>2. get_index(m_read_index) \in 0..Size-1
      BY <3>1, IndexRange
    <3>3. m_array[get_index(m_read_index)] \in 0..MaxSeq
      BY <1>0, <3>2, WindowTypes
    <3> QED BY <1>0, <3>1, <3>3, Constants DEF Front, WindowOK, BufferSorted
  <2> QED BY <2>1
<1>2. NonEmpty /\ Front = m_expected_seq_num
        => m_expected_seq_num + 1 \in 0..(MaxSeq + 1)
  BY <1>1, Constants
<1>3. CASE DrainPacketStep
  <2>1. CASE NonEmpty /\ Front <= upto
    BY <1>0, <1>3, <2>1, FreeInv DEF DrainPacketStep, NoCallback, NoVerdict
  <2>2. CASE ~(NonEmpty /\ Front <= upto)
    <3>1. /\ UNCHANGED <<m_array, m_read_index, m_write_index, m_max_seq_num,
                         m_expected_seq_num, m_request_gap, upto>>
          /\ pc' = "idle" /\ gap' = NoGap /\ replayed' = 0 /\ result' = NoResult
      BY <1>3, <2>2 DEF DrainPacketStep, NoCallback, NoVerdict
    <3>2. TypeOK'
      BY <1>0, <3>1, Constants DEF TypeOK, NoGap, NoResult
    <3> QED BY <1>0, <3>1, <3>2, WindowSame, NoReplay DEF GapInv
  <2> QED BY <2>1, <2>2
<1>4. CASE DrainAndReplayStep
  <2>1. CASE NonEmpty /\ Front < m_expected_seq_num /\ FreeFront /\ replayed' = 0
             /\ UNCHANGED <<pc, m_expected_seq_num>>
    BY <1>0, <1>4, <2>1, FreeInv DEF DrainAndReplayStep, NoVerdict
  <2>2. CASE NonEmpty /\ Front = m_expected_seq_num /\ processBuffer /\ UNCHANGED pc
    BY <1>0, <1>2, <1>4, <2>2, FreeInv DEF DrainAndReplayStep, processBuffer, NoVerdict
  <2>3. CASE pc' = "idle" /\ replayed' = 0
             /\ UNCHANGED <<m_array, m_read_index, m_expected_seq_num>>
    <3>1. /\ UNCHANGED <<m_array, m_read_index, m_write_index, m_max_seq_num,
                         m_expected_seq_num, m_request_gap, upto>>
          /\ pc' = "idle" /\ gap' = NoGap /\ replayed' = 0 /\ result' = NoResult
      BY <1>4, <2>3 DEF DrainAndReplayStep, NoVerdict
    <3>2. TypeOK'
      BY <1>0, <3>1, Constants DEF TypeOK, NoGap, NoResult
    <3> QED BY <1>0, <3>1, <3>2, WindowSame, NoReplay DEF GapInv
  <2> QED BY <1>4, <2>1, <2>2, <2>3 DEF DrainAndReplayStep
<1>5. CASE ReplayPacketStep
  <2>1. CASE NonEmpty /\ Front = m_expected_seq_num
    BY <1>0, <1>2, <1>5, <2>1, FreeInv DEF ReplayPacketStep, processBuffer, NoVerdict
  <2>2. CASE ~(NonEmpty /\ Front = m_expected_seq_num)
    <3>1. /\ UNCHANGED <<m_array, m_read_index, m_write_index, m_max_seq_num,
                         m_expected_seq_num, upto>>
          /\ pc' = "idle" /\ replayed' = 0 /\ result' = NoResult
      BY <1>5, <2>2 DEF ReplayPacketStep, NoVerdict
    <3>2. /\ gap' \in [exp : 0..(MaxSeq + 1), buf : 0..MaxSeq, incr : 0..MaxSeq]
          /\ m_request_gap' \in BOOLEAN
      <4>1. CASE NonEmpty
        <5>1. Front \in 0..MaxSeq
          BY <1>1, <4>1
        <5> QED BY <1>0, <1>5, <2>2, <4>1, <5>1, GapCallType DEF ReplayPacketStep
      <4>2. CASE ~NonEmpty
        BY <1>0, <1>5, <2>2, <4>2, Constants DEF ReplayPacketStep, NoGap, TypeOK
      <4> QED BY <4>1, <4>2
    <3>3. TypeOK'
      BY <1>0, <3>1, <3>2, Constants DEF TypeOK, NoResult
    <3> QED BY <1>0, <3>1, <3>3, WindowSame, NoReplay DEF GapInv
  <2> QED BY <2>1, <2>2
<1> QED BY <1>3, <1>4, <1>5 DEF Loop

\* update takes no packet 0: m_max_seq_num is never below it.
LEMMA UpdateZero ==
  ASSUME GapInv, NEW size \in Sizes, update(0, size)
  PROVE  GapInv'
<1>1. TypeOK /\ WindowOK
  BY DEF GapInv
<1>2. Rejected(0)
  BY <1>1, Constants DEF TypeOK, Rejected
<1>3. updateRejects(0, size) /\ UNCHANGED <<pc, upto>>
  BY <1>2 DEF update
<1>4. /\ UNCHANGED <<m_array, m_read_index, m_write_index, m_max_seq_num,
                     m_expected_seq_num, m_request_gap, pc, upto>>
      /\ gap' = NoGap /\ replayed' = 0
      /\ result' \in [seq : 0..MaxSeq,
                      why : {"none", "accepted", "duplicate", "full", "too_large"}]
  BY <1>3, Constants DEF updateRejects, NoCallback
<1>5. TypeOK'
  BY <1>1, <1>4, Constants DEF TypeOK, NoGap
<1> QED BY <1>1, <1>4, <1>5, WindowSame, NoReplay DEF GapInv

\* Every step of any client keeps it.
LEMMA StepInv == ASSUME "over" \notin Sizes, GapInv, [Next]_vars PROVE GapInv'
<1>1. CASE UNCHANGED vars
  BY <1>1 DEF GapInv, TypeOK, WindowOK, BufferSorted, FreeSlotsClear, IndexBound,
              ReplaysAscend, Buffered, Window, vars, get_index
<1>2. MaxSeq \in 0..MaxSeq
  BY Constants
<1>3. ASSUME NEW seq_num \in 0..MaxSeq,
             \/ updateSeqNum(seq_num) \/ updateSeqNumFlush(seq_num)
             \/ drainPacket(seq_num) \/ replayPacket(seq_num)
      PROVE  GapInv'
  BY <1>3, SetterInv
<1>4. CASE drainAllPackets \/ drainAndReplay \/ \E flag \in BOOLEAN : setReRequestFlag(flag)
  BY <1>2, <1>4, SetterInv DEF drainAllPackets
<1>5. ASSUME NEW seq_num \in 0..MaxSeq, NEW size \in Sizes, update(seq_num, size)
      PROVE  GapInv'
  <2>1. CASE seq_num = 0
    BY <1>5, <2>1, UpdateZero
  <2>2. CASE seq_num # 0
    <3>1. seq_num \in SeqNum
      BY <2>2, Constants DEF SeqNum
    <3> QED BY <1>5, <3>1, UpdateInv
  <2> QED BY <2>1, <2>2
<1> QED BY <1>1, <1>3, <1>4, <1>5, LoopInv DEF Next

-----------------------------------------------------------------------------
\* GapInv is an invariant of the class under any client.
THEOREM GapInvariant == ASSUME "over" \notin Sizes PROVE Spec => []GapInv
<1>1. Init => GapInv
  BY InitInv
<1>2. GapInv /\ [Next]_vars => GapInv'
  BY StepInv
<1> QED BY <1>1, <1>2, PTL DEF Spec

\* Fields and callback arguments stay in range under any client.
THEOREM TypeCorrect == ASSUME "over" \notin Sizes PROVE Spec => []TypeOK
<1>1. GapInv => TypeOK
  BY DEF GapInv
<1> QED BY <1>1, GapInvariant, PTL

\* update, the drains and the replays keep the buffer sorted and within its
\* slots, in whatever order a client calls them.
THEOREM StaysSorted == ASSUME "over" \notin Sizes PROVE Spec => []BufferSorted
<1>1. GapInv => BufferSorted
  BY DEF GapInv, WindowOK
<1> QED BY <1>1, GapInvariant, PTL

\* The drains and processBuffer clear every slot they leave behind.
THEOREM StaysClear == ASSUME "over" \notin Sizes PROVE Spec => []FreeSlotsClear
<1>1. GapInv => FreeSlotsClear
  BY DEF GapInv, WindowOK
<1> QED BY <1>1, GapInvariant, PTL

\* processBuffer never hands out a packet twice or out of order.
THEOREM ReplayOrder == ASSUME "over" \notin Sizes PROVE Spec => []ReplaysAscend
<1>1. GapInv => ReplaysAscend
  BY DEF GapInv
<1> QED BY <1>1, GapInvariant, PTL

-----------------------------------------------------------------------------
(* The feed handler. *)


\* What the sorted buffer holds, in terms of its first packet.
BufferShape ==
  /\ NonEmpty => Front \in Buffered
  /\ ~NonEmpty => Buffered = {}
  /\ \A s \in Buffered : s \in 1..MaxSeq /\ s <= m_max_seq_num /\ Front <= s

\* drainPacket runs only between GapFetched and Resume, the other loops after.
LoopOfHandler ==
  /\ handler = "drained" => pc \in {"idle", "drainPacket"}
  /\ pc = "drainPacket" => handler = "drained" /\ upto = app

\* Unless drainPacket is running, the buffer holds nothing the application has.
BufferAhead == pc # "drainPacket" => \A s \in Buffered : s > app

FeedInv == /\ FeedTypeOK /\ GapInv /\ LoopOfHandler /\ BufferAhead
           /\ handler = "ready" => m_expected_seq_num = app + 1
           /\ ExpectedIsNext /\ GapWellFormed

\* What one step hands to the application.
StepInOrder == (replayed' # 0 => replayed' = app + 1) /\ app' >= app

-----------------------------------------------------------------------------
\* A sorted window has its smallest packet in front.
LEMMA BufferFacts == TypeOK /\ WindowOK => BufferShape
<1> SUFFICES ASSUME TypeOK, WindowOK PROVE BufferShape
  OBVIOUS
<1>0. /\ m_read_index \in Nat /\ m_write_index \in Nat /\ Window \subseteq Nat
      /\ \A i \in Window : get_index(i) \in 0..Size-1
      /\ \A c \in 0..Size-1 : m_array[c] \in 0..MaxSeq
  BY WindowTypes
<1>1. ASSUME NEW i \in Window
      PROVE  /\ m_array[get_index(i)] \in 1..MaxSeq
             /\ m_array[get_index(i)] <= m_max_seq_num
             /\ Front <= m_array[get_index(i)]
  <2>1. /\ m_array[get_index(i)] \in 0..MaxSeq /\ 0 < m_array[get_index(i)]
        /\ m_array[get_index(i)] <= m_max_seq_num
    BY <1>0 DEF WindowOK, BufferSorted
  <2>2. m_read_index \in Window /\ (m_read_index = i \/ m_read_index < i)
    BY <1>0 DEF Window
  <2>3. Front <= m_array[get_index(i)]
    <3>1. CASE m_read_index = i
      BY <2>1, <3>1, Constants DEF Front
    <3>2. CASE m_read_index < i
      <4>1. m_array[get_index(m_read_index)] < m_array[get_index(i)]
        BY <2>2, <3>2 DEF WindowOK, BufferSorted
      <4>2. m_array[get_index(m_read_index)] \in 0..MaxSeq
        BY <1>0, <2>2
      <4> QED BY <2>1, <4>1, <4>2, Constants DEF Front
    <3> QED BY <2>2, <3>1, <3>2
  <2> QED BY <2>1, <2>3, Constants
<1>2. NonEmpty => m_read_index \in Window
  BY <1>0 DEF NonEmpty, Window
<1>3. ~NonEmpty => Window = {}
  BY <1>0 DEF NonEmpty, Window
<1> QED BY <1>1, <1>2, <1>3 DEF BufferShape, Buffered, Front

\* update adds at most the packet it is given, and that one is a later one.
LEMMA UpdateBuffered ==
  ASSUME "over" \notin Sizes, GapInv, NEW s \in SeqNum, NEW size \in Sizes,
         update(s, size)
  PROVE  /\ Buffered' \subseteq Buffered \cup {s}
         /\ m_expected_seq_num' = m_expected_seq_num /\ replayed' = 0
         /\ pc' = pc /\ upto' = upto /\ pc = "idle"
<1>0. /\ TypeOK /\ WindowOK /\ Stored(s, size) = {s} /\ s \in 1..MaxSeq
      /\ m_array \in [0..Size-1 -> 0..MaxSeq]
  BY DEF GapInv, TypeOK, Stored, SeqNum
<1>1. /\ m_read_index \in Nat /\ m_write_index \in Nat
      /\ Inc(m_write_index) = m_write_index + 1
      /\ Window \subseteq Nat
      /\ NonEmpty => Inc(m_read_index) = m_read_index + 1
      /\ m_read_index <= m_write_index
  BY <1>0, WindowTypes
<1>2. /\ m_expected_seq_num' = m_expected_seq_num /\ replayed' = 0
      /\ pc' = pc /\ upto' = upto /\ pc = "idle"
  BY DEF update, updateRejects, updateInSeq, updateFull, updateInserts, NoCallback
<1>3. CASE UNCHANGED <<m_array, m_read_index, m_write_index>>
  BY <1>2, <1>3 DEF Buffered, Window, get_index
<1>4. CASE /\ m_array' = [m_array EXCEPT ![get_index(m_write_index)] = s]
           /\ m_write_index' = Inc(m_write_index)
           /\ m_read_index' = m_read_index \/ m_read_index' = m_read_index + 1
  <2>1. get_index(m_write_index) \in 0..Size-1
    BY <1>1, IndexRange
  <2>2. ASSUME NEW i \in Window'
        PROVE  m_array'[get_index(i)] \in Buffered \cup {s}
    <3>0. i \in Nat
      BY <1>1, <1>4 DEF Window
    <3>1. CASE i = m_write_index
      BY <1>0, <1>4, <2>1, <3>1
    <3>2. CASE i # m_write_index
      <4>1. i \in Window
        BY <1>1, <1>4, <3>0, <3>2 DEF Window
      <4>2. get_index(i) \in 0..Size-1
        BY <3>0, IndexRange
      <4>3. m_array'[get_index(i)] = s \/ m_array'[get_index(i)] = m_array[get_index(i)]
        BY <1>0, <1>4, <4>2
      <4> QED BY <4>1, <4>3 DEF Buffered
    <3> QED BY <3>1, <3>2
  <2>3. Buffered' \subseteq Buffered \cup {s}
    BY <2>2 DEF Buffered, get_index
  <2> QED BY <1>2, <2>3
<1>5. CASE updateRejects(s, size) \/ updateInSeq(s)
  BY <1>3, <1>5 DEF updateRejects, updateInSeq
<1>6. CASE updateInserts(s, size)
  <2>1. CASE size # "empty"
    BY <1>0, <1>4, <1>6, <2>1 DEF updateInserts
  <2>2. CASE size = "empty"
    BY <1>3, <1>6, <2>2 DEF updateInserts
  <2> QED BY <2>1, <2>2
<1>7. CASE updateFull(s, size)
  <2>1. CASE size # "empty" /\ Policy = "MIN_SEQ"
    <3>1. NonEmpty
      BY <1>1, <1>7, Constants DEF updateFull, numElements, NonEmpty
    <3> QED BY <1>0, <1>1, <1>4, <1>7, <2>1, <3>1 DEF updateFull
  <2>2. CASE ~(size # "empty" /\ Policy = "MIN_SEQ")
    BY <1>3, <1>7, <2>2 DEF updateFull
  <2> QED BY <2>1, <2>2
<1> QED BY <1>5, <1>6, <1>7 DEF update

\* onPacketGap was called in this step, for a packet s and a gap before it.
GapReported(s) ==
  /\ gap'.exp = m_expected_seq_num /\ gap'.incr = s
  /\ gap'.buf \in 1..MaxSeq
  /\ gap'.exp < gap'.buf /\ gap'.buf <= s
  /\ ~m_request_gap' \/ (FALSE \in Answers /\ m_request_gap' = m_request_gap)

\* A gap that update reports names one: from the expected packet to before a
\* later one, which is not later than the packet just given.
LEMMA UpdateGap ==
  ASSUME "over" \notin Sizes, GapInv, NEW s \in SeqNum, NEW size \in Sizes,
         update(s, size), s > m_expected_seq_num,
         \A x \in Buffered : x > m_expected_seq_num
  PROVE  \/ gap' = NoGap /\ m_request_gap' = m_request_gap
            /\ (~m_request_gap \/ NonEmpty' = NonEmpty)
         \/ GapReported(s)
<1>0. /\ TypeOK /\ WindowOK /\ s \in 1..MaxSeq /\ GapInv'
      /\ m_expected_seq_num \in 0..(MaxSeq + 1) /\ m_max_seq_num \in 0..MaxSeq
      /\ m_request_gap \in BOOLEAN
  BY UpdateInv DEF GapInv, TypeOK, SeqNum
<1>1. BufferShape' /\ BufferShape
  BY <1>0, BufferFacts, PTL DEF GapInv
<1>2. \A x \in Buffered' : x > m_expected_seq_num
  BY UpdateBuffered
<1>3. ASSUME NEW b, b \in 1..MaxSeq, b > m_expected_seq_num, b <= s,
             onPacketGap(m_expected_seq_num, b, s)
      PROVE  GapReported(s)
  <2>1. gap' = [exp |-> m_expected_seq_num, buf |-> b, incr |-> s]
    BY <1>3 DEF onPacketGap
  <2>2. ~m_request_gap' \/ (FALSE \in Answers /\ m_request_gap' = m_request_gap)
    <3>1. PICK success \in Answers :
            m_request_gap' = IF success THEN FALSE ELSE m_request_gap
      BY <1>3, Zenon DEF onPacketGap
    <3>2. success = TRUE \/ success = FALSE
      BY AnswersAssumption
    <3>3. CASE success = TRUE
      BY <3>1, <3>3, Zenon
    <3>4. CASE success = FALSE
      BY <3>1, <3>4, Zenon
    <3> QED BY <3>2, <3>3, <3>4
  <2> QED BY <1>3, <2>1, <2>2 DEF GapReported
<1>4. CASE updateRejects(s, size) \/ updateInSeq(s)
  BY <1>4 DEF updateRejects, updateInSeq, NoCallback, NonEmpty
<1>5. m_max_seq_num' <= s \/ updateRejects(s, size) \/ updateInSeq(s)
  BY <1>0 DEF update, updateFull, updateInserts, Rejected
<1>6. CASE ~m_request_gap
  BY <1>4, <1>6 DEF update, updateFull, updateInserts
<1>7. ASSUME NonEmpty', m_max_seq_num' <= s
      PROVE  Front' \in 1..MaxSeq /\ Front' > m_expected_seq_num /\ Front' <= s
  <2>1. Front' \in Buffered'
    BY <1>1, <1>7 DEF BufferShape
  <2>2. Front' \in 1..MaxSeq /\ Front' <= m_max_seq_num'
    BY <1>1, <2>1 DEF BufferShape
  <2>3. m_max_seq_num' \in 0..MaxSeq
    BY <1>0 DEF GapInv, TypeOK
  <2> QED BY <1>0, <1>2, <1>7, <2>1, <2>2, <2>3, Constants
<1>8. CASE updateFull(s, size) /\ m_request_gap /\ m_max_seq_num' <= s
  <2>1. onPacketGap(m_expected_seq_num, Front', s)
    BY <1>8 DEF updateFull, Front, get_index
  <2>2. NonEmpty'
    <3>1. /\ m_read_index \in Nat /\ m_write_index \in Nat
          /\ m_read_index <= m_write_index /\ Inc(m_write_index) = m_write_index + 1
          /\ NonEmpty => Inc(m_read_index) = m_read_index + 1
      BY <1>0, WindowTypes
    <3>2. NonEmpty
      BY <1>8, <3>1, Constants DEF updateFull, numElements, NonEmpty
    <3> QED BY <1>8, <3>1, <3>2 DEF updateFull, NonEmpty
  <2> QED BY <1>3, <1>7, <1>8, <2>1, <2>2
<1>9. CASE updateInserts(s, size) /\ m_request_gap /\ m_max_seq_num' <= s
  <2>1. onPacketGap(m_expected_seq_num, IF Front' # 0 THEN Front' ELSE s, s)
    BY <1>9 DEF updateInserts, Front, get_index
  <2>2. CASE NonEmpty'
    <3>1. Front' \in 1..MaxSeq /\ Front' > m_expected_seq_num /\ Front' <= s
      BY <1>7, <1>9, <2>2
    <3>2. (IF Front' # 0 THEN Front' ELSE s) = Front'
      BY <3>1, Constants
    <3>3. onPacketGap(m_expected_seq_num, Front', s)
      BY <2>1, <3>2
    <3> QED BY <1>3, <3>1, <3>3
  <2>3. CASE ~NonEmpty'
    <3>1. Window' = {} /\ m_read_index' \in Nat
      <4>1. m_read_index' \in Nat /\ m_write_index' \in Nat
        BY <1>0, Constants DEF GapInv, TypeOK
      <4>2. ~(m_read_index' < m_write_index')
        BY <2>3 DEF NonEmpty
      <4>3. m_read_index'..(m_write_index' - 1) = {}
        <5>1. ASSUME NEW a \in Nat, NEW b \in Nat, ~(a < b) PROVE a..(b - 1) = {}
          BY <5>1
        <5> QED BY <4>1, <4>2, <5>1
      <4> QED BY <4>1, <4>3 DEF Window
    <3>2. get_index(m_read_index') \in 0..Size-1
      BY <3>1, IndexRange
    <3>3. Front' = 0
      BY <1>0, <3>1, <3>2 DEF GapInv, WindowOK, FreeSlotsClear, Front, get_index
    <3>4. (IF Front' # 0 THEN Front' ELSE s) = s
      BY <3>3
    <3>5. onPacketGap(m_expected_seq_num, s, s)
      BY <2>1, <3>4
    <3>6. s > m_expected_seq_num /\ s <= s
      BY <1>0
    <3> QED BY <1>0, <1>3, <3>5, <3>6
  <2> QED BY <2>2, <2>3
<1> QED BY <1>0, <1>4, <1>5, <1>6, <1>8, <1>9 DEF update

-----------------------------------------------------------------------------
(* The handler's steps. *)

\* A step in which the class gets no packet and frees none.
LEMMA SameBuffer ==
  ASSUME UNCHANGED <<m_array, m_read_index, m_write_index>>
  PROVE  Buffered' = Buffered /\ NonEmpty' = NonEmpty /\ Front' = Front
BY DEF Buffered, Window, NonEmpty, Front, get_index

\* Freeing the front packet leaves the later ones.
LEMMA FreeBuffered ==
  ASSUME TypeOK, WindowOK, NonEmpty, FreeFront,
         UNCHANGED <<m_write_index, m_max_seq_num>>
  PROVE  /\ Buffered' \subseteq Buffered
         /\ \A s \in Buffered' : Front < s
<1>1. \A i \in Window' : /\ i \in Window
                         /\ m_array'[get_index(i)] = m_array[get_index(i)]
                         /\ Front < m_array[get_index(i)]
  BY WindowFree
<1> QED BY <1>1 DEF Buffered, get_index

\* A packet in sequence is processed; what waits behind it is looked at next.
LEMMA InSeqInv ==
  ASSUME FeedInv, NEW s \in SeqNum, InSeqPacket(s)
  PROVE  FeedInv' /\ StepInOrder
<1>0. /\ TypeOK /\ WindowOK /\ app \in 0..MaxSeq /\ s \in 1..MaxSeq /\ s = app + 1
      /\ pc = "idle" /\ handler = "ready" /\ upto \in 0..MaxSeq
      /\ GapInv /\ \A x \in Buffered : x > app + 1
  BY DEF FeedInv, FeedTypeOK, GapInv, TypeOK, SeqNum, InSeqPacket, isInSeq,
         updateSeqNumFlush, ExpectedIsNext
<1>1. GapInv'
  BY <1>0, SetterInv DEF InSeqPacket
<1>2. /\ app' = s /\ request' = request /\ handler' = handler
      /\ m_expected_seq_num' = s + 1 /\ gap' = NoGap /\ replayed' = 0 /\ upto' = upto
      /\ pc' = IF NonEmpty THEN "drainAndReplay" ELSE "idle"
      /\ UNCHANGED <<m_array, m_read_index, m_write_index, m_max_seq_num>>
  BY DEF InSeqPacket, updateSeqNumFlush, NoCallback
<1>3. Buffered' = Buffered
  BY <1>2, SameBuffer
<1>4. FeedTypeOK'
  BY <1>0, <1>1, <1>2, Constants DEF FeedInv, FeedTypeOK, GapInv
<1>5. LoopOfHandler' /\ GapWellFormed'
  BY <1>0, <1>2 DEF LoopOfHandler, GapWellFormed
<1>6. BufferAhead'
  BY <1>0, <1>2, <1>3 DEF BufferAhead
<1>7. ExpectedIsNext'
  <2>1. ~NonEmpty => Buffered = {}
    BY <1>0, BufferFacts DEF BufferShape
  <2> QED BY <1>0, <1>2, <1>3, <2>1 DEF ExpectedIsNext
<1>8. m_expected_seq_num' = app' + 1
  BY <1>2
<1>9. StepInOrder
  BY <1>0, <1>2, Constants DEF StepInOrder
<1> QED BY <1>1, <1>4, <1>5, <1>6, <1>7, <1>8, <1>9 DEF FeedInv

\* Any other packet goes to update.
LEMMA OtherPacketInv ==
  ASSUME "over" \notin Sizes, FeedInv, NEW s \in SeqNum, NEW size \in Sizes,
         OtherPacket(s, size)
  PROVE  FeedInv' /\ StepInOrder
<1>0. /\ app \in 0..MaxSeq /\ s \in 1..MaxSeq /\ handler = "ready" /\ GapInv
      /\ request \in 0..MaxSeq /\ update(s, size)
      /\ m_expected_seq_num = app + 1
  BY DEF FeedInv, FeedTypeOK, OtherPacket, SeqNum
<1>1. /\ Buffered' \subseteq Buffered \cup {s}
      /\ m_expected_seq_num' = m_expected_seq_num /\ replayed' = 0
      /\ pc' = pc /\ upto' = upto /\ pc = "idle"
  BY <1>0, UpdateBuffered
<1>2. s > app + 1 /\ \A x \in Buffered : x > app + 1
  BY <1>0, <1>1, Constants DEF FeedInv, ExpectedIsNext, OtherPacket, isInSeq, isDuplicate
<1>3. GapInv' /\ app' = app /\ handler' = handler /\ request' = Requested
  BY <1>0, UpdateInv DEF OtherPacket
<1>4. \/ gap' = NoGap
      \/ /\ gap'.buf \in 1..MaxSeq /\ gap'.exp = app + 1
         /\ gap'.exp < gap'.buf /\ gap'.buf <= gap'.incr
  BY <1>0, <1>2, UpdateGap DEF GapReported
<1>5. request' \in 0..MaxSeq
  <2>1. CASE request' = request
    BY <1>0, <2>1
  <2>2. CASE request' = gap'.buf - 1 /\ gap' # NoGap
    BY <1>4, <2>2, Constants
  <2> QED BY <1>3, <2>1, <2>2 DEF Requested
<1>6. FeedTypeOK' /\ GapWellFormed'
  BY <1>0, <1>3, <1>4, <1>5 DEF FeedTypeOK, GapInv, GapWellFormed
<1>7. LoopOfHandler'
  BY <1>0, <1>1, <1>3 DEF LoopOfHandler
<1>8. \A x \in Buffered' : x > app' + 1 /\ x > app'
  <2>1. BufferShape'
    BY <1>3, BufferFacts, PTL DEF GapInv
  <2> QED BY <1>0, <1>1, <1>2, <1>3, <2>1, Constants DEF BufferShape
<1>9. BufferAhead' /\ ExpectedIsNext' /\ m_expected_seq_num' = app' + 1
  BY <1>0, <1>1, <1>3, <1>8 DEF BufferAhead, ExpectedIsNext
<1>10. StepInOrder
  BY <1>0, <1>1, <1>3, Constants DEF StepInOrder
<1> QED BY <1>3, <1>6, <1>7, <1>9, <1>10 DEF FeedInv

\* The fetched packets are processed, and dropped from the buffer if they are
\* there too.
LEMMA GapFetchedInv == ASSUME FeedInv, GapFetched PROVE FeedInv' /\ StepInOrder
<1>0. /\ app \in 0..MaxSeq /\ request \in 1..MaxSeq /\ GapInv
      /\ app' = (IF request > app THEN request ELSE app)
  BY Constants DEF FeedInv, FeedTypeOK, GapFetched
<1>1. app' \in SeqNum /\ app' >= app /\ app' \in 0..MaxSeq
  BY <1>0, Constants DEF SeqNum
<1>2. drainPacket(app') /\ handler' = "drained" /\ request' = request
  BY DEF GapFetched
<1>3. GapInv'
  BY <1>0, <1>1, <1>2, SetterInv
<1>4. pc' = "drainPacket" /\ upto' = app' /\ gap' = NoGap /\ replayed' = 0
  BY <1>2 DEF drainPacket, NoCallback
<1>5. FeedTypeOK'
  BY <1>0, <1>1, <1>2, <1>3, Constants DEF FeedTypeOK, GapInv
<1>6. LoopOfHandler' /\ GapWellFormed' /\ BufferAhead' /\ ExpectedIsNext'
  BY <1>2, <1>4 DEF LoopOfHandler, GapWellFormed, BufferAhead, ExpectedIsNext
<1>7. StepInOrder
  BY <1>1, <1>4 DEF StepInOrder
<1> QED BY <1>2, <1>3, <1>5, <1>6, <1>7 DEF FeedInv

\* The class is told where the application stands; app + 1 may lie past the
\* end of the feed.
LEMMA ResumeInv == ASSUME FeedInv, Resume PROVE FeedInv' /\ StepInOrder
<1>0. /\ app \in 0..MaxSeq /\ GapInv /\ TypeOK /\ WindowOK /\ pc = "idle"
      /\ \A x \in Buffered : x > app
  BY DEF FeedInv, FeedTypeOK, GapInv, Resume, replayPacket, BufferAhead
<1>1. /\ app' = app /\ request' = 0 /\ handler' = "ready" /\ pc' = "replayPacket"
      /\ m_expected_seq_num' = app + 1 /\ m_request_gap' = TRUE
      /\ gap' = NoGap /\ replayed' = 0 /\ result' = NoResult
      /\ UNCHANGED <<m_array, m_read_index, m_write_index, m_max_seq_num, upto>>
  BY DEF Resume, replayPacket, NoCallback, NoVerdict
<1>2. TypeOK'
  BY <1>0, <1>1, Constants DEF TypeOK, NoGap, NoResult
<1>3. GapInv'
  BY <1>0, <1>1, <1>2, WindowSame, NoReplay DEF GapInv
<1>4. FeedTypeOK' /\ LoopOfHandler' /\ GapWellFormed' /\ ExpectedIsNext'
  BY <1>0, <1>1, <1>2, Constants DEF FeedTypeOK, LoopOfHandler, GapWellFormed, ExpectedIsNext
<1>5. BufferAhead'
  BY <1>0, <1>1, SameBuffer DEF BufferAhead
<1>6. StepInOrder
  BY <1>0, <1>1, Constants DEF StepInOrder
<1> QED BY <1>1, <1>3, <1>4, <1>5, <1>6 DEF FeedInv

\* The next packet is replayed and processed.
LEMMA ReplayedInv ==
  ASSUME FeedInv, GapInv', Callbacks, pc \in {"drainAndReplay", "replayPacket"},
         NonEmpty, Front = m_expected_seq_num, processBuffer,
         gap' = NoGap, UNCHANGED <<pc, upto, m_write_index, m_max_seq_num>>
  PROVE  FeedInv' /\ StepInOrder
<1>0. /\ app \in 0..MaxSeq /\ request \in 0..MaxSeq /\ TypeOK /\ WindowOK
      /\ handler = "ready" /\ m_expected_seq_num = app + 1
  BY DEF FeedInv, FeedTypeOK, GapInv, WindowOK, LoopOfHandler
<1>1. Front \in 1..MaxSeq
  BY <1>0, BufferFacts DEF BufferShape
<1>2. replayed' = app + 1 /\ m_expected_seq_num' = app + 2 /\ FreeFront
  BY <1>0 DEF processBuffer
<1>3. app' = app + 1 /\ request' = request /\ handler' = handler
  BY <1>0, <1>2, Constants DEF Callbacks, Requested
<1>4. \A x \in Buffered' : x > app'
  BY <1>0, <1>2, <1>3, FreeBuffered
<1>5. FeedTypeOK'
  BY <1>0, <1>1, <1>3, Constants DEF FeedTypeOK, GapInv
<1>6. LoopOfHandler' /\ GapWellFormed' /\ BufferAhead' /\ ExpectedIsNext'
  BY <1>0, <1>3, <1>4 DEF LoopOfHandler, GapWellFormed, BufferAhead, ExpectedIsNext
<1>7. StepInOrder /\ m_expected_seq_num' = app' + 1
  BY <1>0, <1>2, <1>3, Constants DEF StepInOrder
<1> QED BY <1>0, <1>3, <1>5, <1>6, <1>7 DEF FeedInv

\* The loop ends: the front packet, if there is one, is behind a gap.
LEMMA LoopEndsInv ==
  ASSUME FeedInv, GapInv', Callbacks, pc \in {"drainAndReplay", "replayPacket"},
         ~NonEmpty \/ Front > m_expected_seq_num, pc' = "idle", replayed' = 0,
         \/ gap' = NoGap
         \/ NonEmpty /\ gap' = [exp |-> m_expected_seq_num, buf |-> Front, incr |-> Front],
         UNCHANGED <<m_array, m_read_index, m_write_index, m_expected_seq_num, upto>>
  PROVE  FeedInv' /\ StepInOrder
<1>0. /\ app \in 0..MaxSeq /\ request \in 0..MaxSeq /\ TypeOK /\ WindowOK
      /\ handler = "ready" /\ m_expected_seq_num = app + 1
  BY DEF FeedInv, FeedTypeOK, GapInv, WindowOK, LoopOfHandler
<1>1. BufferShape
  BY <1>0, BufferFacts
<1>2. Buffered' = Buffered /\ \A x \in Buffered : x > app + 1
  <2>1. ASSUME NEW x \in Buffered PROVE x > app + 1
    <3>1. NonEmpty /\ x \in 1..MaxSeq /\ Front <= x /\ Front \in 1..MaxSeq
      BY <1>1 DEF BufferShape
    <3> QED BY <1>0, <3>1, Constants
  <2> QED BY <2>1, SameBuffer
<1>3. app' = app /\ handler' = handler /\ request' = Requested
  BY DEF Callbacks
<1>4. gap' # NoGap => /\ Front \in 1..MaxSeq /\ gap'.exp < gap'.buf
                      /\ gap'.buf <= gap'.incr /\ gap'.buf = Front
  <2>1. CASE gap' = NoGap
    BY <2>1
  <2>2. CASE /\ NonEmpty
             /\ gap' = [exp |-> m_expected_seq_num, buf |-> Front, incr |-> Front]
    <3>1. Front \in 1..MaxSeq
      BY <1>1, <2>2 DEF BufferShape
    <3> QED BY <1>0, <2>2, <3>1, Constants
  <2> QED BY <2>1, <2>2
<1>5. request' \in 0..MaxSeq
  <2>1. CASE request' = request
    BY <1>0, <2>1
  <2>2. CASE request' = gap'.buf - 1 /\ gap' # NoGap
    BY <1>4, <2>2, Constants
  <2> QED BY <1>3, <2>1, <2>2 DEF Requested
<1>6. FeedTypeOK' /\ GapWellFormed' /\ LoopOfHandler'
  BY <1>0, <1>3, <1>4, <1>5 DEF FeedTypeOK, GapInv, GapWellFormed, LoopOfHandler
<1>7. BufferAhead' /\ ExpectedIsNext'
  <2>1. \A x \in Buffered' : x > app' + 1 /\ x > app'
    BY <1>0, <1>1, <1>2, <1>3, Constants DEF BufferShape
  <2> QED BY <1>0, <1>3, <2>1 DEF BufferAhead, ExpectedIsNext
<1>8. StepInOrder
  BY <1>0, <1>3, Constants DEF StepInOrder
<1> QED BY <1>0, <1>3, <1>6, <1>7, <1>8 DEF FeedInv

\* drainPacket drops what the application has, and stops at the first packet
\* it has not.
LEMMA DrainedInv ==
  ASSUME FeedInv, GapInv', Callbacks, DrainPacketStep
  PROVE  FeedInv' /\ StepInOrder
<1>0. /\ app \in 0..MaxSeq /\ request \in 0..MaxSeq /\ TypeOK /\ WindowOK
      /\ pc = "drainPacket" /\ handler = "drained" /\ upto = app
  BY DEF FeedInv, FeedTypeOK, GapInv, LoopOfHandler, DrainPacketStep
<1>1. gap' = NoGap /\ replayed' = 0 /\ upto' = upto
  BY DEF DrainPacketStep, NoCallback
<1>2. app' = app /\ request' = request /\ handler' = handler
  BY <1>1 DEF Callbacks, Requested
<1>3. FeedTypeOK' /\ GapWellFormed' /\ ExpectedIsNext'
  BY <1>0, <1>1, <1>2 DEF FeedTypeOK, GapInv, GapWellFormed, ExpectedIsNext
<1>4. LoopOfHandler'
  BY <1>0, <1>1, <1>2 DEF LoopOfHandler, DrainPacketStep
<1>5. BufferAhead'
  <2>1. CASE NonEmpty /\ Front <= upto
    BY <1>0, <2>1 DEF BufferAhead, DrainPacketStep
  <2>2. CASE ~(NonEmpty /\ Front <= upto)
    <3>1. Buffered' = Buffered
      BY <2>2, SameBuffer DEF DrainPacketStep
    <3>2. ASSUME NEW x \in Buffered PROVE x > app
      <4>1. NonEmpty /\ x \in 1..MaxSeq /\ Front <= x /\ Front \in 1..MaxSeq
        BY <1>0, BufferFacts DEF BufferShape
      <4> QED BY <1>0, <2>2, <4>1, Constants
    <3> QED BY <1>2, <3>1, <3>2 DEF BufferAhead
  <2> QED BY <2>1, <2>2
<1>6. StepInOrder
  BY <1>0, <1>1, <1>2, Constants DEF StepInOrder
<1> QED BY <1>0, <1>2, <1>3, <1>4, <1>5, <1>6 DEF FeedInv

\* A round of a loop of the class, with what it calls the handler back with.
LEMMA CallbacksInv == ASSUME FeedInv, Callbacks PROVE FeedInv' /\ StepInOrder
<1>0. Loop /\ GapInv /\ TypeOK /\ WindowOK
  BY DEF Callbacks, FeedInv, GapInv
<1>1. GapInv'
  BY <1>0, LoopInv
<1>2. CASE DrainPacketStep
  BY <1>1, <1>2, DrainedInv
<1>3. CASE DrainAndReplayStep
  <2>0. pc = "drainAndReplay" /\ gap' = NoGap
        /\ UNCHANGED <<m_write_index, m_max_seq_num, upto>>
    BY <1>3 DEF DrainAndReplayStep
  <2>1. ~(NonEmpty /\ Front < m_expected_seq_num)
    <3> SUFFICES ASSUME NonEmpty PROVE ~(Front < m_expected_seq_num)
      OBVIOUS
    <3>1. Front \in 1..MaxSeq /\ Front > app
      BY <1>0, <2>0, BufferFacts DEF BufferShape, FeedInv, BufferAhead
    <3>2. m_expected_seq_num = app + 1 /\ app \in 0..MaxSeq
      BY <2>0 DEF FeedInv, LoopOfHandler, FeedTypeOK
    <3> QED BY <3>1, <3>2, Constants
  <2>2. CASE NonEmpty /\ Front = m_expected_seq_num /\ processBuffer /\ UNCHANGED pc
    BY <1>1, <2>0, <2>2, ReplayedInv
  <2>3. CASE /\ ~NonEmpty \/ Front > m_expected_seq_num
             /\ pc' = "idle" /\ replayed' = 0
             /\ UNCHANGED <<m_array, m_read_index, m_expected_seq_num>>
    BY <1>1, <2>0, <2>3, LoopEndsInv
  <2> QED BY <1>3, <2>1, <2>2, <2>3 DEF DrainAndReplayStep
<1>4. CASE ReplayPacketStep
  <2>0. pc = "replayPacket" /\ UNCHANGED <<m_write_index, m_max_seq_num, upto>>
    BY <1>4 DEF ReplayPacketStep
  <2>1. CASE NonEmpty /\ Front = m_expected_seq_num
    BY <1>1, <1>4, <2>0, <2>1, ReplayedInv DEF ReplayPacketStep
  <2>2. CASE ~(NonEmpty /\ Front = m_expected_seq_num)
    <3>1. ~NonEmpty \/ Front > m_expected_seq_num
      <4> SUFFICES ASSUME NonEmpty PROVE Front > m_expected_seq_num
        OBVIOUS
      <4>1. Front \in 1..MaxSeq /\ Front > app
        BY <1>0, <2>0, BufferFacts DEF BufferShape, FeedInv, BufferAhead
      <4>2. m_expected_seq_num = app + 1 /\ app \in 0..MaxSeq
        BY <2>0 DEF FeedInv, LoopOfHandler, FeedTypeOK
      <4> QED BY <2>2, <4>1, <4>2, Constants
    <3>2. /\ pc' = "idle" /\ replayed' = 0
          /\ UNCHANGED <<m_array, m_read_index, m_expected_seq_num>>
          /\ \/ gap' = NoGap
             \/ /\ NonEmpty
                /\ gap' = [exp |-> m_expected_seq_num, buf |-> Front, incr |-> Front]
      BY <1>4, <2>2 DEF ReplayPacketStep, onPacketGap
    <3> QED BY <1>1, <2>0, <3>1, <3>2, LoopEndsInv
  <2> QED BY <2>1, <2>2
<1> QED BY <1>0, <1>2, <1>3, <1>4 DEF Loop

\* The invariant holds of a new buffer and handler.
LEMMA FeedInitInv == FeedInit => FeedInv
<1> SUFFICES ASSUME FeedInit PROVE FeedInv
  OBVIOUS
<1>1. GapInv
  BY InitInv DEF FeedInit
<1>2. Buffered = {}
  BY <1>1, BufferFacts DEF GapInv, BufferShape, FeedInit, Init, NonEmpty
<1>3. FeedTypeOK
  BY <1>1, Constants DEF GapInv, FeedTypeOK, FeedInit
<1>4. LoopOfHandler /\ BufferAhead /\ m_expected_seq_num = app + 1
      /\ ExpectedIsNext /\ GapWellFormed
  BY <1>2 DEF FeedInit, Init, LoopOfHandler, BufferAhead, ExpectedIsNext, GapWellFormed
<1> QED BY <1>1, <1>3, <1>4 DEF FeedInv

\* Every step of the composition keeps the invariant and delivers in order.
LEMMA FeedStep ==
  ASSUME "over" \notin Sizes, FeedInv, FeedNext PROVE FeedInv' /\ StepInOrder
<1>1. CASE \E s \in SeqNum : InSeqPacket(s)
  BY <1>1, InSeqInv
<1>2. CASE \E s \in SeqNum : \E size \in Sizes : OtherPacket(s, size)
  BY <1>2, OtherPacketInv
<1> QED BY <1>1, <1>2, GapFetchedInv, ResumeInv, CallbacksInv DEF FeedNext

\* So does a step that changes nothing.
LEMMA FeedStutter == ASSUME FeedInv, UNCHANGED feedVars PROVE FeedInv'
<1>1. GapInv'
  BY DEF feedVars, vars, FeedInv, GapInv, TypeOK, WindowOK, BufferSorted, FreeSlotsClear,
         IndexBound, ReplaysAscend, Buffered, Window, get_index
<1>2. Buffered' = Buffered
  BY SameBuffer DEF feedVars, vars
<1> QED BY <1>1, <1>2 DEF feedVars, vars, FeedInv, FeedTypeOK, GapInv, LoopOfHandler,
                          BufferAhead, ExpectedIsNext, GapWellFormed

-----------------------------------------------------------------------------
(* A client that takes on every gap. *)

\* Once a gap is taken on a fetch is under way, and packets wait only behind a
\* gap taken on; while replayPacket runs, the next gap is to be reported.
FetchInv ==
  /\ handler = "ready" /\ pc \in {"idle", "drainAndReplay"} =>
       /\ ~m_request_gap => request # 0
       /\ NonEmpty => ~m_request_gap
  /\ pc = "replayPacket" => m_request_gap

\* A gap reported is taken on.
LEMMA Taken ==
  ASSUME Answers = {TRUE}, NEW e, NEW b, NEW i, onPacketGap(e, b, i)
  PROVE  m_request_gap' = FALSE /\ gap' = [exp |-> e, buf |-> b, incr |-> i]
BY Zenon DEF onPacketGap

\* The flag of the request is kept while packets wait.
LEMMA FetchStep ==
  ASSUME "over" \notin Sizes, Answers = {TRUE}, FeedInv, FetchInv, FeedNext
  PROVE  FetchInv'
<1>0. /\ TypeOK /\ WindowOK /\ GapInv /\ app \in 0..MaxSeq /\ m_request_gap \in BOOLEAN
  BY DEF FeedInv, FeedTypeOK, GapInv, TypeOK
<1>1. ASSUME NEW s \in SeqNum, InSeqPacket(s) PROVE FetchInv'
  <2>1. /\ UNCHANGED <<m_array, m_read_index, m_write_index, m_request_gap, request, handler>>
        /\ pc = "idle" /\ handler = "ready" /\ pc' # "replayPacket"
    BY <1>1 DEF InSeqPacket, updateSeqNumFlush
  <2>2. NonEmpty' = NonEmpty
    BY <2>1, SameBuffer
  <2> QED BY <2>1, <2>2 DEF FetchInv
<1>2. ASSUME NEW s \in SeqNum, NEW size \in Sizes, OtherPacket(s, size) PROVE FetchInv'
  <2>1. /\ update(s, size) /\ request' = Requested /\ handler' = handler
        /\ handler = "ready" /\ pc = "idle" /\ pc' = pc
    BY <1>2 DEF OtherPacket, update
  <2>2. /\ m_expected_seq_num = app + 1 /\ s \in 1..MaxSeq
        /\ \A x \in Buffered : x > app + 1
    BY <2>1 DEF FeedInv, ExpectedIsNext, SeqNum
  <2>3. s > m_expected_seq_num
    BY <1>0, <1>2, <2>2, Constants DEF OtherPacket, isInSeq, isDuplicate
  <2>4. CASE gap' = NoGap /\ m_request_gap' = m_request_gap
             /\ (~m_request_gap \/ NonEmpty' = NonEmpty)
    BY <2>1, <2>4 DEF FetchInv, Requested
  <2>5. CASE GapReported(s)
    <3>1. ~m_request_gap' /\ gap'.buf \in 1..MaxSeq /\ gap'.exp < gap'.buf
          /\ gap'.exp = m_expected_seq_num
      BY <2>5 DEF GapReported
    <3>2. gap' # NoGap /\ gap'.buf - 1 # 0
      BY <1>0, <2>2, <3>1, Constants DEF NoGap
    <3>3. request' # 0
      BY <2>1, <3>1, <3>2 DEF Requested
    <3> QED BY <2>1, <3>1, <3>3 DEF FetchInv
  <2> QED BY <1>0, <2>1, <2>2, <2>3, <2>4, <2>5, UpdateGap
<1>3. CASE GapFetched
  BY <1>3 DEF GapFetched, drainPacket, FetchInv
<1>4. CASE Resume
  BY <1>4 DEF Resume, replayPacket, FetchInv
<1>5. CASE Callbacks
  <2>1. request' = Requested /\ handler' = handler /\ Loop
    BY <1>5 DEF Callbacks
  <2>2. CASE DrainPacketStep
    BY <2>1, <2>2 DEF DrainPacketStep, FeedInv, LoopOfHandler, FetchInv
  <2>3. CASE DrainAndReplayStep
    <3>1. /\ pc = "drainAndReplay" /\ m_request_gap' = m_request_gap
          /\ request' = request /\ pc' # "replayPacket"
      BY <2>1, <2>3 DEF DrainAndReplayStep, Requested
    <3>2. NonEmpty' => NonEmpty
      <4>1. CASE UNCHANGED <<m_array, m_read_index>>
        BY <2>3, <4>1 DEF DrainAndReplayStep, NonEmpty
      <4>2. CASE NonEmpty
        BY <4>2
      <4> QED BY <2>3, <4>1, <4>2 DEF DrainAndReplayStep
    <3> QED BY <2>1, <3>1, <3>2 DEF FetchInv
  <2>4. CASE ReplayPacketStep
    <3>1. CASE NonEmpty /\ Front = m_expected_seq_num
      BY <2>4, <3>1 DEF ReplayPacketStep, FetchInv
    <3>2. CASE NonEmpty /\ Front # m_expected_seq_num
      <4>1. onPacketGap(m_expected_seq_num, Front, Front)
        BY <2>4, <3>2 DEF ReplayPacketStep
      <4>2. m_request_gap' = FALSE
            /\ gap' = [exp |-> m_expected_seq_num, buf |-> Front, incr |-> Front]
        BY <4>1, Taken
      <4>3. Front \in 1..MaxSeq /\ Front > app /\ m_expected_seq_num = app + 1
        BY <1>0, <2>4, <3>2, BufferFacts
        DEF BufferShape, FeedInv, BufferAhead, LoopOfHandler, FeedTypeOK, ReplayPacketStep
      <4>4. gap' # NoGap /\ gap'.buf - 1 # 0
        BY <1>0, <3>2, <4>2, <4>3, Constants DEF NoGap
      <4>5. pc' = "idle"
        BY <2>4, <3>2 DEF ReplayPacketStep
      <4> QED BY <2>1, <4>2, <4>4, <4>5 DEF FetchInv, Requested
    <3>3. CASE ~NonEmpty
      <4>1. UNCHANGED <<m_array, m_read_index, m_write_index, m_request_gap>>
        BY <2>4, <3>3 DEF ReplayPacketStep
      <4>2. ~NonEmpty'
        BY <3>3, <4>1 DEF NonEmpty
      <4> QED BY <2>1, <2>4, <4>1, <4>2 DEF FetchInv, ReplayPacketStep
    <3> QED BY <3>1, <3>2, <3>3
  <2> QED BY <2>1, <2>2, <2>3, <2>4 DEF Loop
<1> QED BY <1>1, <1>2, <1>3, <1>4, <1>5 DEF FeedNext

-----------------------------------------------------------------------------
\* The inductive invariant of the handler and the class it uses.
THEOREM FeedInvariant == ASSUME "over" \notin Sizes PROVE FeedSpec => []FeedInv
<1>1. FeedInit => FeedInv
  BY FeedInitInv
<1>2. FeedInv /\ [FeedNext]_feedVars => FeedInv'
  BY FeedStep, FeedStutter
<1> QED BY <1>1, <1>2, PTL DEF FeedSpec

\* Class and handler stay well typed, whatever the channel does.
THEOREM FeedTypeCorrect == ASSUME "over" \notin Sizes PROVE FeedSpec => []FeedTypeOK
<1>1. FeedInv => FeedTypeOK
  BY DEF FeedInv
<1> QED BY <1>1, FeedInvariant, PTL

\* The application gets every packet once and in order, from processBuffer or
\* from the fetch.
THEOREM DeliversInOrder == ASSUME "over" \notin Sizes PROVE FeedSpec => InOrderOnce
<1>1. FeedInv /\ [FeedNext]_feedVars
        => [ /\ replayed' # 0 => replayed' = app + 1
             /\ app' >= app ]_feedVars
  BY FeedStep DEF StepInOrder
<1> QED BY <1>1, FeedInvariant, PTL DEF FeedSpec, InOrderOnce

\* Between calls m_expected_seq_num is the packet the application lacks.
THEOREM ExpectsNext == ASSUME "over" \notin Sizes PROVE FeedSpec => []ExpectedIsNext
<1>1. FeedInv => ExpectedIsNext
  BY DEF FeedInv
<1> QED BY <1>1, FeedInvariant, PTL

\* onPacketGap is only called for gaps.
THEOREM GapsAreGaps == ASSUME "over" \notin Sizes PROVE FeedSpec => []GapWellFormed
<1>1. FeedInv => GapWellFormed
  BY DEF FeedInv
<1> QED BY <1>1, FeedInvariant, PTL

\* A client that takes on every gap never sits on packets that nobody fetches
\* the gap before: m_request_gap is not lost between update and replayPacket.
THEOREM AlwaysFetching ==
  ASSUME "over" \notin Sizes, Answers = {TRUE} PROVE FeedSpec => []GapIsBeingFetched
<1>1. FeedInit => FetchInv
  BY DEF FeedInit, Init, FetchInv, NonEmpty
<1>2. FeedInv /\ FetchInv /\ [FeedNext]_feedVars => FetchInv'
  <2>1. ASSUME FetchInv, UNCHANGED feedVars PROVE FetchInv'
    BY <2>1 DEF FetchInv, feedVars, vars, NonEmpty
  <2> QED BY <2>1, FetchStep
<1>3. FetchInv => GapIsBeingFetched
  BY DEF FetchInv, GapIsBeingFetched
<1> QED BY <1>1, <1>2, <1>3, FeedInvariant, PTL DEF FeedSpec

=============================================================================
