----------------------- MODULE StreamConnectionProofs -----------------------
(***************************************************************************)
(* The read loop of TcpConnection, ShmConnection and McastConnection logs  *)
(* the stream, for any ring and any number of bytes and writes.  The loop  *)
(* of UnixConnection does not: hence "unix" is not among the Kinds.        *)
(***************************************************************************)
EXTENDS StreamConnection, TLAPS

\* The windows a read may be given.
Windows == [place : {"ring", "stack"}, ptr : 0..2*Capacity, len : 0..Capacity]

\* What the queues and the log hold.
QueueTypes ==
  /\ reads \in Seq(Windows)
  /\ done \in Seq(1..Capacity)
  /\ log \in Seq(0..MaxBytes)

\* No read is started before the connection is made.
QuietBefore == state \in {"new", "connecting"} => reads = <<>> /\ done = <<>>

\* A read under way has the whole ring, from where the indices stand.
ReadIsOfRing ==
  reads # <<>> => reads[1] = [place |-> "ring", ptr |-> m_write_idx, len |-> Capacity]

\* What was moved and not yet logged is in the ring at the read index.
RingHoldsDone ==
  IF done = <<>> THEN Len(log) = taken
  ELSE /\ Len(log) = taken - done[1]
       /\ \A i \in 1..done[1] : m_buf[Cell(Cell(m_read_idx) + i - 1)] = Len(log) + i

Counts == taken <= arrived /\ writes <= written

StreamInv == /\ TypeOK /\ QueueTypes /\ NextWindowIsWhole /\ OneReadAtATime
             /\ QuietBefore /\ ReadIsOfRing /\ RingHoldsDone /\ Counts /\ LogIsStream

-----------------------------------------------------------------------------
\* The constants, as the leaves below use them.
LEMMA Constants ==
  /\ Capacity \in Nat /\ Capacity >= 1 /\ IdxMod \in Nat /\ IdxMod > 2 * Capacity
  /\ MaxBytes \in Nat /\ MaxWrites \in Nat
BY CapacityAssumption, IdxModAssumption, BoundAssumption

\* A queue is empty, or has a first element and a rest.
LEMMA QueueFacts ==
  ASSUME NEW S, NEW q \in Seq(S)
  PROVE  /\ Len(q) \in Nat
         /\ Len(q) = 0 <=> q = <<>>
         /\ q # <<>> => /\ Head(q) = q[1] /\ q[1] \in S
                        /\ Tail(q) \in Seq(S) /\ Len(Tail(q)) = Len(q) - 1
<1>1. Len(q) \in Nat
  OBVIOUS
<1>2. Len(q) = 0 <=> q = <<>>
  OBVIOUS
<1>3. q # <<>> => Head(q) = q[1] /\ q[1] \in S
  BY <1>1, <1>2
<1>4. q # <<>> => Tail(q) \in Seq(S) /\ Len(Tail(q)) = Len(q) - 1
  BY <1>1, <1>2
<1> QED BY <1>1, <1>2, <1>3, <1>4

\* A queue of one element.
LEMMA OneElement ==
  ASSUME NEW S, NEW x \in S
  PROVE  <<x>> \in Seq(S) /\ Len(<<x>>) = 1 /\ <<x>>[1] = x /\ <<x>> # <<>>
OBVIOUS

\* Of two queues with at most one element one is empty.
LEMMA AtMostOne ==
  ASSUME NEW a \in Nat, NEW b \in Nat, a + b <= 1
  PROVE  (a # 0 => a = 1 /\ b = 0) /\ (b # 0 => b = 1 /\ a = 0)
OBVIOUS

\* Cells of a window no longer than the ring are cells of it, and distinct.
LEMMA CellsDistinct ==
  ASSUME NEW r \in 0..Capacity, NEW i \in 1..Capacity, NEW j \in 1..Capacity
  PROVE  /\ Cell(Cell(r) + i - 1) \in 0..Capacity-1
         /\ Cell(Cell(r) + i - 1) = Cell(Cell(r) + j - 1) => i = j
BY Constants DEF Cell

\* An empty ring offers all of it, wherever the indices stand.
LEMMA EmptyOffersAll ==
  ASSUME NEW r \in 0..Capacity
  PROVE  RingWindow(r, r) = [place |-> "ring", ptr |-> r, len |-> Capacity]
BY Constants DEF RingWindow, FreeSpace, SubU32

\* advance_write and advance_read by the same amount leave the ring empty and
\* the indices in the first mapping, whether they wrap or not.
LEMMA AdvancedTogether ==
  ASSUME m_read_idx \in 0..Capacity, m_write_idx = m_read_idx, NEW n \in 1..Capacity
  PROVE  Advanced(n).r = Advanced(n).w /\ Advanced(n).r \in 0..Capacity
<1>1. AddU32(m_read_idx, n) = m_read_idx + n
  BY Constants DEF AddU32
<1>2. CASE m_read_idx + n > Capacity
  <2>1. WrappedRead(m_read_idx, n) = m_read_idx + n - Capacity
    BY <1>2, Constants DEF WrappedRead, SubU32
  <2>2. WrappedWrite(m_read_idx + n) = m_read_idx + n - Capacity
    BY <1>2, Constants DEF WrappedWrite, SubU32
  <2> QED BY <1>1, <1>2, <2>1, <2>2, Constants DEF Advanced, Wraps
<1>3. CASE ~(m_read_idx + n > Capacity)
  BY <1>1, <1>3, Constants DEF Advanced, Wraps
<1> QED BY <1>2, <1>3

-----------------------------------------------------------------------------
\* The invariant holds of a new connection.
LEMMA InitInv == Init => StreamInv
<1> SUFFICES ASSUME Init PROVE StreamInv
  OBVIOUS
<1>1. TypeOK
  BY Constants DEF Init, TypeOK
<1>2. QueueTypes
  BY DEF Init, QueueTypes
<1>3. NextWindowIsWhole /\ OneReadAtATime /\ QuietBefore /\ ReadIsOfRing /\ LogIsStream
  BY DEF Init, NextWindowIsWhole, OneReadAtATime, QuietBefore, ReadIsOfRing, LogIsStream
<1>4. RingHoldsDone /\ Counts
  BY DEF Init, RingHoldsDone, Counts
<1> QED BY <1>1, <1>2, <1>3, <1>4 DEF StreamInv

\* A step that moves no bytes and starts no read.
LEMMA QuietStep ==
  ASSUME StreamInv, UNCHANGED <<ringVars, done, taken, log>>,
         reads' = reads \/ reads' = <<>>,
         TypeOK', QuietBefore', Counts'
  PROVE  StreamInv'
<1> USE DEF StreamInv, ringVars
<1>1. QueueTypes' /\ NextWindowIsWhole'
  <2>1. QueueTypes'
    <3>1. <<>> \in Seq(Windows)
      OBVIOUS
    <3> QED BY <3>1 DEF QueueTypes, Windows
  <2>2. CASE reads' = reads
    BY <2>1, <2>2 DEF NextWindowIsWhole
  <2>3. CASE reads' = <<>>
    <3>1. 1..Len(reads') = {}
      BY <2>3
    <3> QED BY <2>1, <3>1 DEF NextWindowIsWhole
  <2> QED BY <2>2, <2>3
<1>2. OneReadAtATime'
  BY QueueFacts DEF OneReadAtATime, QueueTypes
<1>3. ReadIsOfRing' /\ RingHoldsDone' /\ LogIsStream'
  BY DEF ReadIsOfRing, RingHoldsDone, LogIsStream
<1> QED BY <1>1, <1>2, <1>3

\* Everything but the reads of a connection: its state, the peer, the writes.
LEMMA OtherInv ==
  ASSUME "unix" \notin Kinds, StreamInv,
         \/ connect \/ join_group \/ Arrive \/ ReadError
         \/ async_write \/ close \/ \E error \in BOOLEAN : handle_write(error)
  PROVE  StreamInv'
<1> USE DEF StreamInv, ringVars
<1>0. kind # "unix"
  BY DEF TypeOK
<1>1. UNCHANGED <<ringVars, done, taken, log>> /\ (reads' = reads \/ reads' = <<>>)
  BY <1>0 DEF connect, join_group, Arrive, ReadError, async_write, handle_write, close
<1>2. TypeOK'
  <2>1. \A i \in 1..Len(reads') :
          reads'[i] \in Windows
    BY <1>1 DEF TypeOK, Windows
  <2>2. arrived' \in 0..MaxBytes
    BY Constants DEF TypeOK, connect, join_group, Arrive, ReadError, async_write,
                     handle_write, close
  <2>3. writes' \in 0..MaxWrites /\ written' \in 0..MaxWrites
    <3>1. CASE async_write
      BY <3>1, Constants DEF TypeOK, Counts, async_write
    <3>2. CASE \E error \in BOOLEAN : handle_write(error)
      BY <3>2, Constants DEF TypeOK, handle_write
    <3>3. CASE connect \/ join_group \/ Arrive \/ ReadError \/ close
      BY <3>3 DEF TypeOK, connect, join_group, Arrive, ReadError, close
    <3> QED BY <3>1, <3>2, <3>3
  <2>4. kind' = kind
    BY DEF connect, join_group, Arrive, ReadError, async_write, handle_write, close
  <2>5. state' \in {"new", "connecting", "open", "joined", "failed", "closed"}
    BY DEF TypeOK, connect, join_group, Arrive, ReadError, async_write, handle_write, close
  <2> QED BY <1>1, <2>1, <2>2, <2>3, <2>4, <2>5 DEF TypeOK, Windows
<1>3. QuietBefore'
  BY <1>1 DEF QuietBefore, connect, join_group, Arrive, ReadError, async_write,
              handle_write, close
<1>4. Counts'
  BY Constants DEF TypeOK, Counts, connect, join_group, Arrive, ReadError, async_write,
                   handle_write, close
<1> QED BY <1>1, <1>2, <1>3, <1>4, QuietStep

\* A read started while none is under way is given the whole ring.
LEMMA StartInv ==
  ASSUME StreamInv, reads = <<>>, done = <<>>, state' \in {"open", "joined"},
         reads' = Append(reads, RingWindow(m_write_idx, m_read_idx)),
         UNCHANGED <<kind, ringVars, done, arrived, taken, writes, written, log>>
  PROVE  StreamInv'
<1> USE DEF StreamInv, ringVars
<1>0. m_read_idx \in 0..Capacity /\ m_write_idx = m_read_idx
  BY DEF TypeOK, NextWindowIsWhole
<1> DEFINE win == [place |-> "ring", ptr |-> m_write_idx, len |-> Capacity]
<1>1. reads' = <<win>>
  BY <1>0, EmptyOffersAll
<1>2. win \in Windows
  BY <1>0, Constants DEF Windows
<1>3. TypeOK'
  BY <1>1, <1>2 DEF TypeOK, Windows
<1>4. QueueTypes'
  BY <1>1, <1>2 DEF QueueTypes
<1>5. NextWindowIsWhole' /\ ReadIsOfRing'
  BY <1>0, <1>1, <1>2, OneElement, Constants DEF NextWindowIsWhole, ReadIsOfRing
<1>6. OneReadAtATime' /\ QuietBefore'
  BY <1>1 DEF OneReadAtATime, QuietBefore
<1>7. RingHoldsDone' /\ Counts' /\ LogIsStream'
  BY DEF RingHoldsDone, Counts, LogIsStream
<1> QED BY <1>3, <1>4, <1>5, <1>6, <1>7

\* The first read of a connection that is made, or not.
LEMMA FirstReadInv ==
  ASSUME StreamInv, NEW ok \in BOOLEAN, state \in {"new", "connecting"}, FirstRead(ok),
         UNCHANGED <<kind, ringVars, done, arrived, taken, writes, written, log>>
  PROVE  StreamInv'
<1> USE DEF StreamInv, ringVars
<1>1. reads = <<>> /\ done = <<>>
  BY DEF QuietBefore
<1>2. CASE ok
  BY <1>1, <1>2, StartInv DEF FirstRead
<1>3. CASE ~ok
  <2>1. reads' = reads /\ state' = "failed"
    BY <1>3 DEF FirstRead
  <2>2. TypeOK' /\ QuietBefore' /\ Counts'
    BY <2>1 DEF TypeOK, QuietBefore, Counts
  <2> QED BY <2>1, <2>2, QuietStep
<1> QED BY <1>2, <1>3

\* The read under way moves n bytes of the stream to the read index.
LEMMA ReadSomeInv ==
  ASSUME StreamInv, NEW n \in 1..Capacity, ReadSome(n)
  PROVE  StreamInv'
<1> USE DEF StreamInv
<1>0. /\ m_read_idx \in 0..Capacity /\ m_write_idx = m_read_idx
      /\ n \in Nat /\ taken \in Nat /\ taken + n <= arrived /\ arrived \in 0..MaxBytes
  BY Constants DEF TypeOK, NextWindowIsWhole, ReadSome
<1>1. reads # <<>>
  BY DEF ReadSome
<1>2. Len(reads) = 1 /\ done = <<>>
  <2>1. reads \in Seq(Windows) /\ done \in Seq(1..Capacity)
    BY DEF QueueTypes
  <2>2. Len(reads) \in Nat /\ Len(reads) # 0
    BY <1>1, <2>1, QueueFacts
  <2>3. Len(done) \in Nat /\ (Len(done) = 0 => done = <<>>)
    BY <2>1, QueueFacts
  <2>4. Len(reads) + Len(done) <= 1
    BY DEF OneReadAtATime
  <2>5. Len(reads) = 1 /\ Len(done) = 0
    BY <2>2, <2>3, <2>4, AtMostOne
  <2> QED BY <2>3, <2>5
<1>3. Head(reads) = [place |-> "ring", ptr |-> m_read_idx, len |-> Capacity]
  BY <1>0, <1>1, QueueFacts DEF ReadIsOfRing, QueueTypes
<1>4. reads' = <<>> /\ done' = <<n>>
  <2>1. Tail(reads) \in Seq(Windows) /\ Len(Tail(reads)) = 0
    BY <1>1, <1>2, QueueFacts DEF QueueTypes
  <2>2. Tail(reads) = <<>>
    BY <2>1, QueueFacts
  <2>3. Append(done, n) = <<n>>
    BY <1>2
  <2> QED BY <2>2, <2>3 DEF ReadSome
<1> DEFINE At(i) == Cell(Cell(m_read_idx) + i - 1)
<1>5. m_buf' = [c \in 0..Capacity-1 |->
                  IF \E i \in 1..n : c = At(i)
                  THEN taken + (CHOOSE i \in 1..n : c = At(i)) ELSE m_buf[c]]
  <2>1. Head(reads).place = "ring" /\ Head(reads).ptr = m_read_idx
    BY <1>3
  <2> QED BY <2>1, Zenon DEF ReadSome
<1>6. ASSUME NEW i \in 1..n PROVE m_buf'[At(i)] = taken + i
  <2>1. At(i) \in 0..Capacity-1 /\ \A j \in 1..n : At(i) = At(j) => i = j
    BY <1>0, CellsDistinct, Constants
  <2> HIDE DEF At
  <2>2. (CHOOSE j \in 1..n : At(i) = At(j)) = i
    BY <2>1
  <2> QED BY <1>5, <2>1, <2>2
<1>7. m_buf' \in [0..Capacity-1 -> 0..MaxBytes]
  <2>1. ASSUME NEW c \in 0..Capacity-1 PROVE m_buf'[c] \in 0..MaxBytes
    <3>1. CASE \E i \in 1..n : c = At(i)
      <4>1. PICK i \in 1..n : c = At(i)
        BY <3>1
      <4>2. m_buf'[c] = taken + i
        BY <1>6, <4>1
      <4> QED BY <1>0, <4>2, Constants
    <3>2. CASE ~\E i \in 1..n : c = At(i)
      BY <1>5, <3>2 DEF TypeOK
    <3> QED BY <3>1, <3>2
  <2> HIDE DEF At
  <2> QED BY <1>5, <2>1
<1>8. TypeOK'
  BY <1>0, <1>4, <1>7, Constants DEF TypeOK, ReadSome
<1>9. QueueTypes'
  BY <1>4 DEF QueueTypes, ReadSome
<1>10. NextWindowIsWhole' /\ ReadIsOfRing' /\ OneReadAtATime'
  BY <1>0, <1>4 DEF NextWindowIsWhole, ReadIsOfRing, OneReadAtATime, ReadSome
<1>11. QuietBefore'
  BY DEF QuietBefore, ReadSome, Reading
<1>12. RingHoldsDone'
  <2>1. log' = log /\ taken' = taken + n /\ m_read_idx' = m_read_idx
    BY DEF ReadSome
  <2>2. Len(log) = taken
    BY <1>2 DEF RingHoldsDone
  <2>3. done'[1] = n /\ done' # <<>>
    BY <1>4
  <2>4. \A i \in 1..n : m_buf'[Cell(Cell(m_read_idx') + i - 1)] = Len(log) + i
    BY <1>6, <2>1, <2>2
  <2> QED BY <1>0, <2>1, <2>2, <2>3, <2>4 DEF RingHoldsDone
<1>13. Counts' /\ LogIsStream'
  BY <1>0 DEF Counts, LogIsStream, ReadSome
<1> QED BY <1>8, <1>9, <1>10, <1>11, <1>12, <1>13

\* The handler logs these bytes and starts the next read.
LEMMA HandleReadInv == ASSUME StreamInv, handle_read PROVE StreamInv'
<1> USE DEF StreamInv
<1> DEFINE n == Head(done)
           idx == Advanced(n)
           new == Received(m_read_idx, n)
           win == [place |-> "ring", ptr |-> idx.r, len |-> Capacity]
<1>0. m_read_idx \in 0..Capacity /\ m_write_idx = m_read_idx /\ taken \in 0..MaxBytes
  BY DEF TypeOK, NextWindowIsWhole
<1>1. done # <<>>
  BY DEF handle_read
<1>2. Len(done) = 1 /\ reads = <<>> /\ n \in 1..Capacity /\ n = done[1]
  <2>1. reads \in Seq(Windows) /\ done \in Seq(1..Capacity)
    BY DEF QueueTypes
  <2>2. Len(done) \in Nat /\ Len(done) # 0
    BY <1>1, <2>1, QueueFacts
  <2>3. Len(reads) \in Nat /\ (Len(reads) = 0 => reads = <<>>)
    BY <2>1, QueueFacts
  <2>4. n = done[1] /\ done[1] \in 1..Capacity
    BY <1>1, <2>1, QueueFacts
  <2>5. Len(reads) + Len(done) <= 1
    BY DEF OneReadAtATime
  <2>6. Len(done) = 1 /\ Len(reads) = 0
    BY <2>2, <2>3, <2>5, AtMostOne
  <2> QED BY <2>3, <2>4, <2>6
<1>3. done' = <<>>
  <2>1. Tail(done) \in Seq(1..Capacity) /\ Len(Tail(done)) = 0
    BY <1>1, <1>2, QueueFacts DEF QueueTypes
  <2> QED BY <2>1, QueueFacts DEF handle_read
<1>4. idx.r = idx.w /\ idx.r \in 0..Capacity
  BY <1>0, <1>2, AdvancedTogether
<1>5. m_read_idx' = idx.r /\ m_write_idx' = idx.r
  BY <1>4 DEF handle_read
<1>6. RingWindow(idx.w, idx.r) = win
  BY <1>4, EmptyOffersAll
<1>7. reads' = <<>> \/ (reads' = <<win>> /\ Reading)
  BY <1>2, <1>6 DEF handle_read, async_read
<1>8. win \in Windows
  BY <1>4, Constants DEF Windows
<1> HIDE DEF idx, win
<1>9. Len(log) \in Nat /\ log \in Seq(0..MaxBytes) /\ Len(log) = taken - n
  BY <1>1, <1>2 DEF QueueTypes, RingHoldsDone
<1>10. \A i \in 1..n : new[i] = Len(log) + i
  BY <1>1, <1>2 DEF RingHoldsDone, Received
<1>11. new \in [1..n -> 0..MaxBytes] /\ new \in Seq(0..MaxBytes) /\ Len(new) = n
  <2>1. \A i \in 1..n : Len(log) + i \in 0..MaxBytes
    BY <1>0, <1>2, <1>9, Constants
  <2>2. new \in [1..n -> 0..MaxBytes]
    BY <1>2, <1>10, <2>1 DEF Received
  <2> HIDE DEF new
  <2> QED BY <1>2, <2>2, Constants
<1>12. log' = log \o new
  BY DEF handle_read
<1> HIDE DEF new
<1>13. log' \in Seq(0..MaxBytes) /\ Len(log') = taken
  <2>1. log' \in Seq(0..MaxBytes) /\ Len(log') = Len(log) + Len(new)
    <3>1. ASSUME NEW S, NEW a \in Seq(S), NEW b \in Seq(S)
          PROVE  a \o b \in Seq(S) /\ Len(a \o b) = Len(a) + Len(b)
      OBVIOUS
    <3> QED BY <1>9, <1>11, <1>12, <3>1
  <2> QED BY <1>0, <1>2, <1>9, <1>11, <2>1
<1>14. TypeOK'
  <2>1. \A i \in 1..Len(reads') : reads'[i] \in Windows
    BY <1>7, <1>8, OneElement
  <2>2. m_read_idx' \in 0..Capacity /\ m_write_idx' \in 0..2*Capacity
    BY <1>4, <1>5, Constants
  <2>3. UNCHANGED <<kind, state, m_buf, arrived, taken, writes, written>>
    BY DEF handle_read
  <2> QED BY <2>1, <2>2, <2>3 DEF TypeOK, Windows
<1>15. QueueTypes'
  <2>1. reads' \in Seq(Windows)
    <3>1. <<>> \in Seq(Windows)
      OBVIOUS
    <3> QED BY <1>7, <1>8, <3>1, OneElement
  <2> QED BY <1>3, <1>13, <2>1 DEF QueueTypes
<1>16. NextWindowIsWhole' /\ ReadIsOfRing' /\ OneReadAtATime'
  <2>1. Len(reads') = 0 \/ Len(reads') = 1
    BY <1>7, <1>8, OneElement
  <2>2. \A i \in 1..Len(reads') : reads'[i] = win
    BY <1>7, <1>8, <2>1, OneElement
  <2>3. NextWindowIsWhole'
    BY <1>4, <1>5, <2>2, Constants DEF NextWindowIsWhole, win
  <2>4. ReadIsOfRing'
    BY <1>5, <1>7, <1>8, OneElement DEF ReadIsOfRing, win
  <2>5. OneReadAtATime'
    <3>1. Len(done') = 0
      BY <1>3
    <3>2. Len(reads') + Len(done') <= 1
      BY <2>1, <3>1
    <3> QED BY <3>2 DEF OneReadAtATime
  <2> QED BY <2>3, <2>4, <2>5
<1>17. QuietBefore'
  BY <1>3, <1>7 DEF QuietBefore, handle_read, Reading
<1>18. RingHoldsDone' /\ Counts'
  BY <1>3, <1>13 DEF RingHoldsDone, Counts, handle_read
<1>19. LogIsStream'
  <2> SUFFICES ASSUME NEW i \in 1..Len(log') PROVE log'[i] = i
    BY DEF LogIsStream
  <2>1. CASE i <= Len(log)
    BY <1>9, <1>11, <1>12, <2>1 DEF LogIsStream
  <2>2. CASE i > Len(log)
    <3>1. i - Len(log) \in 1..n /\ log'[i] = new[i - Len(log)]
      BY <1>2, <1>9, <1>11, <1>12, <1>13, <2>2
    <3> QED BY <1>9, <1>10, <3>1
  <2> QED BY <1>9, <1>13, <2>1, <2>2
<1> QED BY <1>14, <1>15, <1>16, <1>17, <1>18, <1>19

\* Every step of the io thread, its peer and the owner keeps the invariant.
LEMMA StepInv ==
  ASSUME "unix" \notin Kinds, StreamInv, [Next]_vars PROVE StreamInv'
<1>1. CASE \E error \in BOOLEAN : handle_connect(error)
  BY <1>1, FirstReadInv DEF handle_connect
<1>2. CASE \E ok \in BOOLEAN : open(ok)
  BY <1>2, FirstReadInv DEF open
<1>5. CASE StartRead
  BY <1>5, StartInv DEF StartRead, async_read, Reading
<1>3. CASE \E n \in 1..Capacity : ReadSome(n)
  BY <1>3, ReadSomeInv
<1>4. CASE UNCHANGED vars
  <2>1. TypeOK' /\ QuietBefore' /\ Counts'
    BY <1>4 DEF StreamInv, TypeOK, QuietBefore, Counts, vars, ringVars
  <2> QED BY <1>4, <2>1, QuietStep DEF vars
<1> QED BY <1>1, <1>2, <1>3, <1>4, <1>5, OtherInv, HandleReadInv DEF Next, IoThread

-----------------------------------------------------------------------------
\* The inductive invariant of the read loop.
THEOREM StreamInvariant == ASSUME "unix" \notin Kinds PROVE Spec => []StreamInv
<1>1. Init => StreamInv
  BY InitInv
<1>2. StreamInv /\ [Next]_vars => StreamInv'
  BY StepInv
<1> QED BY <1>1, <1>2, PTL DEF Spec

\* The indices stay in their mappings and the counters in range.
THEOREM TypeCorrect == ASSUME "unix" \notin Kinds PROVE Spec => []TypeOK
<1>1. StreamInv => TypeOK
  BY DEF StreamInv
<1> QED BY <1>1, StreamInvariant, PTL

\* However often the ring has wrapped, the next read is given a whole capacity
\* inside the double mapping.
THEOREM WholeWindows == ASSUME "unix" \notin Kinds PROVE Spec => []NextWindowIsWhole
<1>1. StreamInv => NextWindowIsWhole
  BY DEF StreamInv
<1> QED BY <1>1, StreamInvariant, PTL

\* No two reads are ever under way, nor one beside a handler still to run.
THEOREM OneRead == ASSUME "unix" \notin Kinds PROVE Spec => []OneReadAtATime
<1>1. StreamInv => OneReadAtATime
  BY DEF StreamInv
<1> QED BY <1>1, StreamInvariant, PTL

\* What handle_read logs is the stream, byte for byte, for every capacity.
THEOREM LogsTheStream == ASSUME "unix" \notin Kinds PROVE Spec => []LogIsStream
<1>1. StreamInv => LogIsStream
  BY DEF StreamInv
<1> QED BY <1>1, StreamInvariant, PTL

=============================================================================
