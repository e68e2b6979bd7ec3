--------------------------- MODULE GapIdentifier ---------------------------
(***************************************************************************)
(* common/GapIdentifier.h: the buffer that holds the packets of a numbered *)
(* feed that arrived ahead of a gap, asks its client (GapIdentifierIF) to  *)
(* have the gap filled, and replays the buffered packets afterwards.       *)
(*                                                                         *)
(* The class is single threaded.  update and the setters are one action    *)
(* each; drainPacket, drainAndReplay and replayPacket are loops that call  *)
(* the client back, and are one action per iteration (pc says which loop). *)
(* A packet is identified with its sequence number.  Left out: m_packet_num*)
(* (written, never read), timestamps and message types (they only choose   *)
(* which overload of the client's replayPacket is called), the             *)
(* constructor's failure path, after which no method may be called, and    *)
(* calls of the class from inside one of its callbacks.                    *)
(***************************************************************************)
EXTENDS Integers

CONSTANTS Size,     \* slots of m_array (m_max_index + 1)
          MaxSeq,   \* bound: highest sequence number of the feed
          IdxMod,   \* 2^32: m_read_index and m_write_index are uint32_t
          Policy,   \* Overflow::MIN_SEQ or Overflow::MAX_SEQ
          Sizes,    \* sizes of payload the caller passes, see SizeClass
          Answers   \* what the client's onPacketGap may return

\* A payload is empty, fits m_obj, is larger than m_obj but not than the whole
\* SeqPacket, or is larger than that.
SizeClass == {"empty", "fits", "over", "large"}

ASSUME SizeAssumption == Size \in Nat \ {0}
ASSUME MaxSeqAssumption == MaxSeq \in Nat \ {0}
ASSUME IdxModAssumption == IdxMod \in Nat /\ IdxMod > MaxSeq + 1 /\ IdxMod > Size
ASSUME PolicyAssumption == Policy \in {"MIN_SEQ", "MAX_SEQ"}
ASSUME SizesAssumption == Sizes \subseteq SizeClass
ASSUME AnswersAssumption == Answers \subseteq BOOLEAN

SeqNum == 1..MaxSeq

VARIABLES m_array,      \* sequence number of each slot, 0 when free
          m_read_index, m_write_index,
          m_expected_seq_num, m_max_seq_num,
          m_request_gap,  \* TRUE: the next gap found is reported
          pc,             \* the loop being run, or "idle"
          upto,           \* the argument of drainPacket
          result,         \* the verdict of this step's update on its packet
          gap,            \* arguments of the onPacketGap call of this step
          replayed        \* argument of the replayPacket callback of this step

vars == <<m_array, m_read_index, m_write_index, m_expected_seq_num,
          m_max_seq_num, m_request_gap, pc, upto, result, gap, replayed>>

NoGap == [exp |-> 0, buf |-> 0, incr |-> 0]

NoResult == [seq |-> 0, why |-> "none"]

-----------------------------------------------------------------------------
get_index(idx) == idx % Size

Inc(idx) == IF idx + 1 < IdxMod THEN idx + 1 ELSE 0

numElements == IF m_write_index >= m_read_index
               THEN m_write_index - m_read_index
               ELSE m_write_index - m_read_index + IdxMod

isInSeq(seq_num) == m_expected_seq_num = seq_num

isDuplicate(seq_num) == m_expected_seq_num > seq_num

\* The packet the loops look at.
Front == m_array[get_index(m_read_index)]

NonEmpty == m_read_index < m_write_index

\* What a slot's m_seq_num holds after the packet is stored: a payload longer
\* than m_obj runs over the fields behind it, m_seq_num among them.
Stored(seq_num, size) == IF size = "over" THEN 0..MaxSeq ELSE {seq_num}

-----------------------------------------------------------------------------
Init == /\ m_array = [i \in 0..Size-1 |-> 0]
        /\ m_read_index = 0 /\ m_write_index = 0
        /\ m_expected_seq_num = 1 /\ m_max_seq_num = 0
        /\ m_request_gap = TRUE
        /\ pc = "idle" /\ upto = 0 /\ result = NoResult
        /\ gap = NoGap /\ replayed = 0

\* The client is told of a gap; if it takes it on, no other gap is reported
\* until replayPacket.
onPacketGap(exp, buf, incr) ==
  /\ gap' = [exp |-> exp, buf |-> buf, incr |-> incr]
  /\ \E success \in Answers :
       m_request_gap' = IF success THEN FALSE ELSE m_request_gap

NoCallback == gap' = NoGap /\ replayed' = 0

NoVerdict == result' = NoResult

\* Slip: only delivered packets count as duplicates, not buffered ones.
RejectedDelivered(seq_num) == seq_num < m_expected_seq_num

\* update: the two early returns.
Rejected(seq_num) == seq_num <= m_max_seq_num \/ seq_num < m_expected_seq_num

updateRejects(seq_num, size) ==
  /\ size = "large" \/ Rejected(seq_num)
  /\ result' = [seq |-> seq_num,
                why |-> IF size = "large" THEN "too_large" ELSE "duplicate"]
  /\ NoCallback
  /\ UNCHANGED <<m_array, m_read_index, m_write_index, m_expected_seq_num,
                 m_max_seq_num, m_request_gap>>

\* update: the packet that is expected is left to the caller.
updateInSeq(seq_num) ==
  /\ isInSeq(seq_num)
  /\ result' = [seq |-> seq_num, why |-> "accepted"]
  /\ NoCallback
  /\ UNCHANGED <<m_array, m_read_index, m_write_index, m_expected_seq_num,
                 m_max_seq_num, m_request_gap>>

\* update: every slot is taken.
updateFull(seq_num, size) ==
  /\ seq_num > m_expected_seq_num
  /\ numElements > Size - 1
  /\ result' = [seq |-> seq_num, why |-> "full"]
  /\ IF size # "empty" /\ Policy = "MIN_SEQ"
     THEN /\ \E s \in Stored(seq_num, size) :
               m_array' = [m_array EXCEPT ![get_index(m_write_index)] = s]
          /\ m_write_index' = Inc(m_write_index)
          /\ m_read_index' = Inc(m_read_index)
          /\ m_max_seq_num' = seq_num
     ELSE UNCHANGED <<m_array, m_write_index, m_read_index, m_max_seq_num>>
  /\ IF m_request_gap
     THEN onPacketGap(m_expected_seq_num, m_array'[get_index(m_read_index')],
                      seq_num)
     ELSE gap' = NoGap /\ UNCHANGED m_request_gap
  /\ replayed' = 0
  /\ UNCHANGED m_expected_seq_num

\* update: there is room.
updateInserts(seq_num, size) ==
  /\ seq_num > m_expected_seq_num
  /\ numElements <= Size - 1
  /\ result' = [seq |-> seq_num, why |-> "accepted"]
  /\ IF size # "empty"
     THEN /\ \E s \in Stored(seq_num, size) :
               m_array' = [m_array EXCEPT ![get_index(m_write_index)] = s]
          /\ m_write_index' = Inc(m_write_index)
          /\ m_max_seq_num' = seq_num
     ELSE UNCHANGED <<m_array, m_write_index, m_max_seq_num>>
  /\ IF m_request_gap
     THEN LET first == m_array'[get_index(m_read_index)]
          IN  onPacketGap(m_expected_seq_num,
                          IF first # 0 THEN first ELSE seq_num, seq_num)
     ELSE gap' = NoGap /\ UNCHANGED m_request_gap
  /\ replayed' = 0
  /\ UNCHANGED <<m_expected_seq_num, m_read_index>>

update(seq_num, size) ==
  /\ pc = "idle"
  /\ \/ updateRejects(seq_num, size)
     \/ /\ size # "large" /\ ~Rejected(seq_num)
        /\ \/ updateInSeq(seq_num)
           \/ updateFull(seq_num, size)
           \/ updateInserts(seq_num, size)
  /\ UNCHANGED <<pc, upto>>

-----------------------------------------------------------------------------
updateSeqNum(seq_num) ==
  /\ pc = "idle"
  /\ m_expected_seq_num' = seq_num + 1
  /\ NoCallback /\ NoVerdict
  /\ UNCHANGED <<m_array, m_read_index, m_write_index, m_max_seq_num,
                 m_request_gap, pc, upto>>

updateSeqNumFlush(seq_num) ==
  /\ pc = "idle"
  /\ m_expected_seq_num' = seq_num + 1
  /\ pc' = IF NonEmpty THEN "drainAndReplay" ELSE "idle"
  /\ NoCallback /\ NoVerdict
  /\ UNCHANGED <<m_array, m_read_index, m_write_index, m_max_seq_num,
                 m_request_gap, upto>>

drainPacket(seq_num) ==
  /\ pc = "idle"
  /\ pc' = "drainPacket"
  /\ upto' = seq_num
  /\ NoCallback /\ NoVerdict
  /\ UNCHANGED <<m_array, m_read_index, m_write_index, m_expected_seq_num,
                 m_max_seq_num, m_request_gap>>

\* drainPacket(): the loop without a limit.  No slot holds more than MaxSeq.
drainAllPackets == drainPacket(MaxSeq)

drainAndReplay ==
  /\ pc = "idle"
  /\ pc' = "drainAndReplay"
  /\ NoCallback /\ NoVerdict
  /\ UNCHANGED <<m_array, m_read_index, m_write_index, m_expected_seq_num,
                 m_max_seq_num, m_request_gap, upto>>

\* Slip: the argument is taken for the last packet processed.
replayPacketAfter(seq_num) ==
  /\ pc = "idle"
  /\ pc' = "replayPacket"
  /\ m_expected_seq_num' = seq_num + 1
  /\ m_request_gap' = TRUE
  /\ NoCallback /\ NoVerdict
  /\ UNCHANGED <<m_array, m_read_index, m_write_index, m_max_seq_num, upto>>

\* Slip: the request flag is not set again.
replayPacketKeepsFlag(seq_num) ==
  /\ pc = "idle"
  /\ pc' = "replayPacket"
  /\ m_expected_seq_num' = seq_num
  /\ NoCallback /\ NoVerdict
  /\ UNCHANGED <<m_array, m_read_index, m_write_index, m_max_seq_num,
                 m_request_gap, upto>>

replayPacket(seq_num) ==
  /\ pc = "idle"
  /\ pc' = "replayPacket"
  /\ m_expected_seq_num' = seq_num
  /\ m_request_gap' = TRUE
  /\ NoCallback /\ NoVerdict
  /\ UNCHANGED <<m_array, m_read_index, m_write_index, m_max_seq_num, upto>>

setReRequestFlag(flag) ==
  /\ pc = "idle"
  /\ m_request_gap' = flag
  /\ NoCallback /\ NoVerdict
  /\ UNCHANGED <<m_array, m_read_index, m_write_index, m_expected_seq_num,
                 m_max_seq_num, pc, upto>>

-----------------------------------------------------------------------------
(* One iteration of the loops. *)

\* Slip: the slot keeps its sequence number.
FreeFrontNotCleared ==
  /\ m_read_index' = Inc(m_read_index)
  /\ UNCHANGED m_array

\* Slip: the read index stays.
FreeFrontNotAdvanced ==
  /\ m_array' = [m_array EXCEPT ![get_index(m_read_index)] = 0]
  /\ UNCHANGED m_read_index

\* Free the front slot.
FreeFront ==
  /\ m_array' = [m_array EXCEPT ![get_index(m_read_index)] = 0]
  /\ m_read_index' = Inc(m_read_index)

\* Slip: the packet is handed over and stays in the buffer.
processBufferKeeps ==
  /\ replayed' = Front
  /\ m_expected_seq_num' = m_expected_seq_num + 1
  /\ UNCHANGED <<m_array, m_read_index>>

\* Slip: the packet is not counted.
processBufferNotCounted ==
  /\ replayed' = Front
  /\ FreeFront
  /\ UNCHANGED m_expected_seq_num

\* Hand the front packet to the client and count it.
processBuffer ==
  /\ replayed' = Front
  /\ FreeFront
  /\ m_expected_seq_num' = m_expected_seq_num + 1

\* Slip: the limit itself is not drained.
DrainPacketStepShort ==
  /\ pc = "drainPacket"
  /\ IF NonEmpty /\ Front < upto
     THEN FreeFront /\ UNCHANGED pc
     ELSE pc' = "idle" /\ UNCHANGED <<m_array, m_read_index>>
  /\ NoCallback /\ NoVerdict
  /\ UNCHANGED <<m_write_index, m_expected_seq_num, m_max_seq_num,
                 m_request_gap, upto>>

DrainPacketStep ==
  /\ pc = "drainPacket"
  /\ IF NonEmpty /\ Front <= upto
     THEN FreeFront /\ UNCHANGED pc
     ELSE pc' = "idle" /\ UNCHANGED <<m_array, m_read_index>>
  /\ NoCallback /\ NoVerdict
  /\ UNCHANGED <<m_write_index, m_expected_seq_num, m_max_seq_num,
                 m_request_gap, upto>>

\* Slip: old packets are replayed too.
DrainAndReplayStepOld ==
  /\ pc = "drainAndReplay"
  /\ IF NonEmpty /\ Front <= m_expected_seq_num
     THEN processBuffer /\ UNCHANGED pc
     ELSE /\ pc' = "idle"
          /\ replayed' = 0
          /\ UNCHANGED <<m_array, m_read_index, m_expected_seq_num>>
  /\ gap' = NoGap /\ NoVerdict
  /\ UNCHANGED <<m_write_index, m_max_seq_num, m_request_gap, upto>>

\* Slip: the replay does not stop at the next gap.
DrainAndReplayStepAll ==
  /\ pc = "drainAndReplay"
  /\ IF NonEmpty
     THEN processBuffer /\ UNCHANGED pc
     ELSE /\ pc' = "idle"
          /\ replayed' = 0
          /\ UNCHANGED <<m_array, m_read_index, m_expected_seq_num>>
  /\ gap' = NoGap /\ NoVerdict
  /\ UNCHANGED <<m_write_index, m_max_seq_num, m_request_gap, upto>>

DrainAndReplayStep ==
  /\ pc = "drainAndReplay"
  /\ \/ /\ NonEmpty /\ Front < m_expected_seq_num
        /\ FreeFront
        /\ replayed' = 0
        /\ UNCHANGED <<pc, m_expected_seq_num>>
     \/ /\ NonEmpty /\ Front = m_expected_seq_num
        /\ processBuffer
        /\ UNCHANGED pc
     \/ /\ ~NonEmpty \/ Front > m_expected_seq_num
        /\ pc' = "idle"
        /\ replayed' = 0
        /\ UNCHANGED <<m_array, m_read_index, m_expected_seq_num>>
  /\ gap' = NoGap /\ NoVerdict
  /\ UNCHANGED <<m_write_index, m_max_seq_num, m_request_gap, upto>>

\* Slip: a gap further on is not reported.
ReplayPacketStepSilent ==
  /\ pc = "replayPacket"
  /\ IF NonEmpty /\ Front = m_expected_seq_num
     THEN processBuffer /\ UNCHANGED pc
     ELSE /\ pc' = "idle"
          /\ replayed' = 0
          /\ UNCHANGED <<m_array, m_read_index, m_expected_seq_num>>
  /\ gap' = NoGap /\ NoVerdict
  /\ UNCHANGED <<m_write_index, m_max_seq_num, m_request_gap, upto>>

ReplayPacketStep ==
  /\ pc = "replayPacket"
  /\ IF NonEmpty /\ Front = m_expected_seq_num
     THEN /\ processBuffer
          /\ gap' = NoGap
          /\ UNCHANGED <<pc, m_request_gap>>
     ELSE /\ pc' = "idle"
          /\ IF NonEmpty
             THEN onPacketGap(m_expected_seq_num, Front, Front)
             ELSE gap' = NoGap /\ UNCHANGED m_request_gap
          /\ replayed' = 0
          /\ UNCHANGED <<m_array, m_read_index, m_expected_seq_num>>
  /\ NoVerdict
  /\ UNCHANGED <<m_write_index, m_max_seq_num, upto>>

Loop == DrainPacketStep \/ DrainAndReplayStep \/ ReplayPacketStep

\* Any client: the public methods in any order, each with any number up to MaxSeq,
\* 0 included.
Next == \/ \E seq_num \in 0..MaxSeq :
             \/ \E size \in Sizes : update(seq_num, size)
             \/ updateSeqNum(seq_num)
             \/ updateSeqNumFlush(seq_num)
             \/ drainPacket(seq_num)
             \/ replayPacket(seq_num)
        \/ drainAllPackets
        \/ drainAndReplay
        \/ \E flag \in BOOLEAN : setReRequestFlag(flag)
        \/ Loop

Spec == Init /\ [][Next]_vars /\ WF_vars(Loop)

-----------------------------------------------------------------------------
Window == m_read_index..(m_write_index - 1)

Buffered == {m_array[get_index(i)] : i \in Window}

TypeOK ==
  /\ m_array \in [0..Size-1 -> 0..MaxSeq]
  /\ m_read_index \in 0..IdxMod-1 /\ m_write_index \in 0..IdxMod-1
  /\ m_expected_seq_num \in 0..(MaxSeq + 1) /\ m_max_seq_num \in 0..MaxSeq
  /\ m_request_gap \in BOOLEAN
  /\ pc \in {"idle", "drainPacket", "drainAndReplay", "replayPacket"}
  /\ upto \in 0..MaxSeq
  /\ result \in [seq : 0..MaxSeq,
                 why : {"none", "accepted", "duplicate", "full", "too_large"}]
  /\ gap \in [exp : 0..(MaxSeq + 1), buf : 0..MaxSeq, incr : 0..MaxSeq]
  /\ replayed \in 0..MaxSeq

\* Whatever order the client calls the methods in, the buffered packets stand
\* in strictly increasing order, none above m_max_seq_num, and there are never
\* more of them than slots: wrapping around the array overwrites nothing.
BufferSorted ==
  /\ m_read_index <= m_write_index
  /\ m_write_index - m_read_index <= Size
  /\ \A i, j \in Window : i < j => m_array[get_index(i)] < m_array[get_index(j)]
  /\ \A i \in Window : /\ 0 < m_array[get_index(i)]
                       /\ m_array[get_index(i)] <= m_max_seq_num

\* A slot outside the window is clear.  update takes a non-zero front slot for
\* a buffered packet, so a stale number here would go into a gap request.
FreeSlotsClear ==
  \A c \in 0..Size-1 :
    (\A i \in Window : get_index(i) # c) => m_array[c] = 0

\* A replayed packet has left the buffer and everything still in it is newer,
\* so no client ever gets a packet replayed twice or out of order.
ReplaysAscend ==
  replayed # 0 => /\ replayed <= m_max_seq_num
                  /\ \A s \in Buffered : replayed < s

\* Every loop ends, whatever is buffered: each iteration frees a slot or leaves.
LoopsEnd == pc # "idle" ~> pc = "idle"

=============================================================================
