---------------------------- MODULE ReplayProofs ----------------------------
(***************************************************************************)
(* A publisher with a CircularBuffer and a subscriber with a Sequencer, for *)
(* any size of the buffer and any number of packets, calls and resets,     *)
(* whatever the channel loses, repeats and reorders.                       *)
(***************************************************************************)
EXTENDS Replay, TLAPS

Packets == [m_ts : Nat, m_ptr : Nat]

Expected == sequencer.m_expected_packet_num

\* What is under way was published.
PublisherTypes ==
  /\ published \in 0..MaxPublished
  /\ replayed \in [Numbers -> Nat]
  /\ channel \subseteq 1..published
  /\ buffer \in [m_array : [0..N-1 -> Packets], m_write_index : 0..N-1]

Gaps == [start : 0..GapMod-1, end : 0..GapMod-1]

Sequencers == [m_expected_packet_num : Nat \ {0}, m_mode : {"INCREMENTAL", "REPEAT"},
               m_packet_gaps : Seq(Gaps)]

SubscriberTypes ==
  /\ sequencer \in Sequencers
  /\ asks \in [Numbers -> Int]
  /\ base \in 1..Expected
  /\ accepted \in Seq(Nat)

\* Below the write index lie the packets published since it was 0, in order.
SlotsInOrder ==
  /\ buffer.m_write_index = published % N
  /\ \A i \in 0..buffer.m_write_index-1 :
       buffer.m_array[i].m_ts = published - buffer.m_write_index + i + 1

\* A payload is in its slot or went out again, and then once; none did that is
\* still to be published.
PayloadsKept ==
  /\ \A i \in 0..buffer.m_write_index-1 :
       LET s == buffer.m_array[i]
       IN  \/ s.m_ptr = s.m_ts /\ replayed[s.m_ts] = 0
           \/ s.m_ptr = 0 /\ replayed[s.m_ts] = 1
  /\ \A n \in Numbers : n > published => replayed[n] = 0

PublisherInv == PublisherTypes /\ SlotsInOrder /\ PayloadsKept /\ PayloadGoesOutOnce

\* What was accepted lies below the number expected.
AcceptedBelow == \A i \in 1..Len(accepted) : accepted[i] < Expected

SubscriberInv == SubscriberTypes /\ AcceptedBelow /\ SkipsOnlyWithoutCallback

ReplayInv == PublisherInv /\ SubscriberInv

-----------------------------------------------------------------------------
(* The write index is the number published modulo N. *)

\* No multiple of N lies strictly between 0 and N.
LEMMA NoMultiple ==
  ASSUME NEW d \in Int, 0 < N * d, N * d < N
  PROVE  FALSE
<1>0. N \in Nat /\ N > 0
  BY NAssumption
<1>1. CASE d <= 0
  BY <1>0, <1>1
<1>2. CASE d >= 1
  BY <1>0, <1>2
<1> QED BY <1>1, <1>2

\* A remainder is what it says.
LEMMA RemainderUnique ==
  ASSUME NEW p \in Nat, NEW q \in Int, NEW m \in 0..N-1, p = N * q + m
  PROVE  p % N = m
<1> DEFINE d == p \div N
           k == p % N
<1>0. N \in Nat /\ N > 0
  BY NAssumption
<1>1. d \in Int /\ k \in 0..N-1 /\ p = N * d + k
  BY <1>0
<1> HIDE DEF d, k
<1>2. N * d \in Int /\ N * q \in Int /\ N * (q - d) = N * q - N * d
      /\ N * (d - q) = N * d - N * q
  BY <1>0, <1>1
<1>3. N * (q - d) = k - m /\ N * (d - q) = m - k
  BY <1>0, <1>1, <1>2
<1>4. ~(k - m > 0)
  <2> SUFFICES ASSUME k - m > 0 PROVE FALSE
    OBVIOUS
  <2>1. q - d \in Int /\ 0 < N * (q - d) /\ N * (q - d) < N
    BY <1>0, <1>1, <1>3
  <2> QED BY <2>1, NoMultiple
<1>5. ~(m - k > 0)
  <2> SUFFICES ASSUME m - k > 0 PROVE FALSE
    OBVIOUS
  <2>1. d - q \in Int /\ 0 < N * (d - q) /\ N * (d - q) < N
    BY <1>0, <1>1, <1>3
  <2> QED BY <2>1, NoMultiple
<1>6. k = m
  BY <1>0, <1>1, <1>4, <1>5
<1> QED BY <1>6 DEF k

\* A remainder is not larger than the number.
LEMMA RemainderSmall == ASSUME NEW p \in Nat PROVE p % N <= p
<1> DEFINE d == p \div N
           k == p % N
<1>0. N \in Nat /\ N > 0
  BY NAssumption
<1>1. d \in Int /\ k \in 0..N-1 /\ p = N * d + k
  BY <1>0
<1> HIDE DEF d, k
<1>2. CASE d >= 0
  <2>1. N * d >= 0
    BY <1>0, <1>1, <1>2
  <2>2. k <= p
    BY <1>0, <1>1, <2>1
  <2> QED BY <2>2 DEF k
<1>3. CASE d <= -1
  BY <1>0, <1>1, <1>3
<1> QED BY <1>1, <1>2, <1>3

\* One packet on, the remainder is one more or starts again.
LEMMA NextRemainder ==
  ASSUME NEW p \in Nat
  PROVE  /\ p % N \in 0..N-1
         /\ (p + 1) % N = IF (p % N) + 1 = N THEN 0 ELSE (p % N) + 1
<1> DEFINE d == p \div N
           k == p % N
<1>0. N \in Nat /\ N > 0
  BY NAssumption
<1>1. d \in Int /\ k \in 0..N-1 /\ p = N * d + k
  BY <1>0
<1> HIDE DEF d, k
<1>2. CASE k + 1 = N
  <2>1. p + 1 = N * (d + 1) + 0
    BY <1>0, <1>1, <1>2
  <2>2. (p + 1) % N = 0
    BY <1>0, <1>1, <2>1, RemainderUnique
  <2> QED BY <1>0, <1>1, <1>2, <2>2 DEF k
<1>3. CASE k + 1 # N
  <2>1. p + 1 = N * d + (k + 1) /\ k + 1 \in 0..N-1
    BY <1>0, <1>1, <1>3
  <2>2. (p + 1) % N = k + 1
    BY <1>0, <1>1, <2>1, RemainderUnique
  <2> QED BY <1>0, <1>1, <1>3, <2>2 DEF k
<1> QED BY <1>2, <1>3

-----------------------------------------------------------------------------
(* The publisher. *)

\* The buffer once the payload of slot i is moved out.
TakenFrom(i) ==
  [m_array |-> [buffer.m_array EXCEPT
                  ![i] = [m_ts |-> buffer.m_array[i].m_ts, m_ptr |-> 0]],
   m_write_index |-> buffer.m_write_index]

\* find gives nothing and changes nothing, or gives the slot of the number and
\* leaves it without payload.
LEMMA FindFacts ==
  ASSUME PublisherInv, NEW n \in Nat
  PROVE  \/ /\ ~find(buffer, n).has_value
            /\ find(buffer, n).value.m_ptr = 0
            /\ find(buffer, n).b = buffer
            /\ ~(n > published - buffer.m_write_index /\ n <= published)
         \/ \E i \in 0..buffer.m_write_index-1 :
              /\ buffer.m_array[i].m_ts = n
              /\ n > published - buffer.m_write_index /\ n <= published
              /\ find(buffer, n).has_value
              /\ find(buffer, n).value = buffer.m_array[i]
              /\ find(buffer, n).b = TakenFrom(i)
<1> DEFINE w == buffer.m_write_index
           found == Matches(buffer, n)
           at == CHOOSE j \in found : \A k \in found : j <= k
<1>0. N \in Nat /\ N > 0 /\ published \in Nat /\ w \in 0..N-1
  BY NAssumption DEF PublisherInv, PublisherTypes
<1>1. \A i \in 0..w-1 : i \in found <=> published - w + i + 1 = n
  BY DEF PublisherInv, SlotsInOrder, Matches
<1>2. CASE found = {}
  <2>1. ~(n > published - w /\ n <= published)
    <3> SUFFICES ASSUME n > published - w /\ n <= published PROVE FALSE
      OBVIOUS
    <3>1. n - 1 - published + w \in 0..w-1
      BY <1>0
    <3>2. published - w + (n - 1 - published + w) + 1 = n
      BY <1>0
    <3> QED BY <1>1, <1>2, <3>1, <3>2
  <2> QED BY <1>2, <2>1 DEF find, EmptyPacket
<1>3. CASE found # {}
  <2>1. PICK i \in found : TRUE
    BY <1>3
  <2>2. i \in 0..w-1 /\ buffer.m_array[i].m_ts = n
    BY <2>1 DEF Matches
  <2>3. published - w + i + 1 = n
    BY <1>1, <2>1, <2>2
  <2>4. found \subseteq 0..w-1
    BY DEF Matches
  <2>5. \A j \in found : j = i
    BY <1>0, <1>1, <2>2, <2>3, <2>4
  <2>6. at = i
    <3> HIDE DEF found
    <3>1. \A k \in found : i <= k
      BY <1>0, <2>2, <2>5
    <3> QED BY <2>1, <2>5, <3>1
  <2>7. n > published - w /\ n <= published
    BY <1>0, <2>2, <2>3
  <2>8. find(buffer, n) = [has_value |-> TRUE, value |-> buffer.m_array[i],
                           b |-> TakenFrom(i)]
    BY <1>3, <2>6 DEF find, TakenFrom
  <2> QED BY <2>2, <2>7, <2>8
<1> QED BY <1>2, <1>3

\* Storing and sending the next packet.
LEMMA PublishInv == ASSUME ReplayInv, Publish PROVE ReplayInv'
<1> DEFINE w == buffer.m_write_index
           p == published
<1>0. /\ N \in Nat /\ N > 0 /\ p \in Nat /\ w \in 0..N-1 /\ w = p % N
      /\ buffer \in [m_array : [0..N-1 -> Packets], m_write_index : 0..N-1]
      /\ p \in 0..MaxPublished /\ p < MaxPublished /\ MaxPublished \in Nat
  BY NAssumption, BoundsAssumption
     DEF ReplayInv, PublisherInv, PublisherTypes, SlotsInOrder, Publish
<1>1. p' = p + 1 /\ replayed' = replayed /\ empty' = empty /\ UNCHANGED subscriber
  BY DEF Publish
<1>2. buffer' = [m_array |-> [buffer.m_array EXCEPT ![w] = [m_ts |-> p + 1, m_ptr |-> p + 1]],
                 m_write_index |-> IF w + 1 = N THEN 0 ELSE w + 1]
  BY <1>1 DEF Publish, update
<1>3. /\ buffer'.m_write_index = IF w + 1 = N THEN 0 ELSE w + 1
      /\ buffer'.m_array = [buffer.m_array EXCEPT ![w] = [m_ts |-> p + 1, m_ptr |-> p + 1]]
  BY <1>2
<1>4. PublisherTypes'
  <2>1. buffer' \in [m_array : [0..N-1 -> Packets], m_write_index : 0..N-1]
    BY <1>0, <1>2 DEF Packets
  <2>3. replayed' \in [Numbers -> Nat]
    BY <1>1 DEF ReplayInv, PublisherInv, PublisherTypes
  <2>2. channel' \subseteq 1..published'
    BY <1>0, <1>1 DEF Publish, ReplayInv, PublisherInv, PublisherTypes
  <2> QED BY <1>0, <1>1, <2>1, <2>2, <2>3 DEF PublisherTypes
<1>5. SlotsInOrder' /\ PayloadsKept'
  <2>1. buffer'.m_write_index = published' % N
    BY <1>0, <1>1, <1>3, NextRemainder
  <2>p. /\ p + 1 \in Numbers /\ replayed[p + 1] = 0
        /\ \A n \in Numbers : n > published' => replayed'[n] = 0
    BY <1>0, <1>1 DEF Numbers, ReplayInv, PublisherInv, PayloadsKept
  <2>2. CASE w + 1 = N
    BY <1>0, <1>3, <2>1, <2>2, <2>p DEF SlotsInOrder, PayloadsKept
  <2>3. CASE w + 1 # N
    <3>1. buffer'.m_write_index = w + 1
      BY <1>3, <2>3
    <3>2. ASSUME NEW i \in 0..w
          PROVE  /\ buffer'.m_array[i].m_ts = p' - (w + 1) + i + 1
                 /\ \/ /\ buffer'.m_array[i].m_ptr = buffer'.m_array[i].m_ts
                       /\ replayed'[buffer'.m_array[i].m_ts] = 0
                    \/ /\ buffer'.m_array[i].m_ptr = 0
                       /\ replayed'[buffer'.m_array[i].m_ts] = 1
      <4>1. CASE i = w
        <5>1. buffer'.m_array[i] = [m_ts |-> p + 1, m_ptr |-> p + 1]
          BY <1>0, <1>3, <4>1
        <5> QED BY <1>0, <1>1, <2>p, <4>1, <5>1
      <4>2. CASE i # w
        <5>1. i \in 0..w-1 /\ i \in 0..N-1
          BY <1>0, <4>2
        <5>2. buffer'.m_array[i] = buffer.m_array[i]
          BY <1>0, <1>3, <4>2, <5>1
        <5>3. buffer.m_array[i].m_ts = p - w + i + 1
          BY <5>1 DEF ReplayInv, PublisherInv, SlotsInOrder
        <5>4. \/ /\ buffer.m_array[i].m_ptr = buffer.m_array[i].m_ts
                 /\ replayed[buffer.m_array[i].m_ts] = 0
              \/ buffer.m_array[i].m_ptr = 0 /\ replayed[buffer.m_array[i].m_ts] = 1
          BY <5>1 DEF ReplayInv, PublisherInv, PayloadsKept
        <5>5. p - w + i + 1 = p' - (w + 1) + i + 1
          BY <1>0, <1>1
        <5> QED BY <1>1, <5>2, <5>3, <5>4, <5>5
      <4> QED BY <4>1, <4>2
    <3>3. 0..(w + 1)-1 = 0..w
      BY <1>0
    <3> QED BY <2>1, <2>p, <3>1, <3>2, <3>3 DEF SlotsInOrder, PayloadsKept
  <2> QED BY <2>2, <2>3
<1>6. PayloadGoesOutOnce'
  BY <1>1 DEF ReplayInv, PublisherInv, PayloadGoesOutOnce
<1>7. SubscriberInv'
  BY <1>1 DEF Publish, ReplayInv, SubscriberInv, SubscriberTypes, AcceptedBelow,
              SkipsOnlyWithoutCallback, Expected, subscriber
<1> QED BY <1>4, <1>5, <1>6, <1>7 DEF ReplayInv, PublisherInv

\* The publisher answers: a payload goes out once, then the slot is empty.
LEMMA AnswerInv ==
  ASSUME ReplayInv, NEW n \in Numbers, Answer(n) PROVE ReplayInv'
<1> DEFINE w == buffer.m_write_index
           f == find(buffer, n)
<1>0. /\ N \in Nat /\ N > 0 /\ published \in Nat /\ w \in 0..N-1 /\ n \in Nat
      /\ buffer \in [m_array : [0..N-1 -> Packets], m_write_index : 0..N-1]
      /\ replayed \in [Numbers -> Nat]
  BY NAssumption, BoundsAssumption DEF Numbers, ReplayInv, PublisherInv, PublisherTypes
<1>1. PublisherInv /\ published' = published /\ UNCHANGED subscriber
  BY DEF ReplayInv, Answer
<1>2. SubscriberInv'
  <2>1. asks' \in [Numbers -> Int]
    BY DEF Answer, ReplayInv, SubscriberInv, SubscriberTypes
  <2> QED BY <1>1, <2>1 DEF ReplayInv, SubscriberInv, SubscriberTypes, AcceptedBelow,
                            SkipsOnlyWithoutCallback, Expected, subscriber
<1>3. CASE ~f.has_value /\ f.value.m_ptr = 0 /\ f.b = buffer
  <2>1. UNCHANGED <<buffer, channel, replayed, empty>>
    BY <1>3 DEF Answer
  <2>2. PublisherInv'
    BY <1>1, <2>1 DEF PublisherInv, PublisherTypes, SlotsInOrder, PayloadsKept,
                      PayloadGoesOutOnce
  <2> QED BY <1>2, <2>2 DEF ReplayInv
<1>4. ASSUME NEW i \in 0..w-1, buffer.m_array[i].m_ts = n,
             n > published - w, n <= published,
             f.has_value, f.value = buffer.m_array[i], f.b = TakenFrom(i)
      PROVE  PublisherInv'
  <2>0. n \in 1..published
    <3>1. w <= published
      BY <1>0, <1>1, RemainderSmall DEF PublisherInv, SlotsInOrder
    <3> QED BY <1>0, <1>4, <3>1
  <2>1. i \in 0..N-1 /\ buffer.m_array[i] \in Packets
    BY <1>0
  <2>2. buffer' = TakenFrom(i)
    BY <1>4 DEF Answer
  <2>3. /\ buffer'.m_write_index = w
        /\ buffer'.m_array = [buffer.m_array EXCEPT ![i] = [m_ts |-> n, m_ptr |-> 0]]
    BY <1>4, <2>2 DEF TakenFrom
  <2>4. \/ buffer.m_array[i].m_ptr = n /\ replayed[n] = 0
        \/ buffer.m_array[i].m_ptr = 0 /\ replayed[n] = 1
    BY <1>1, <1>4 DEF PublisherInv, PayloadsKept
  <2>5. /\ replayed' \in [Numbers -> Nat] /\ replayed'[n] = 1
        /\ \A m \in Numbers : m # n => replayed'[m] = replayed[m]
    <3>1. CASE buffer.m_array[i].m_ptr = n /\ replayed[n] = 0
      <4>1. replayed' = [replayed EXCEPT ![n] = @ + 1]
        BY <1>0, <1>4, <2>0, <3>1 DEF Answer
      <4> QED BY <1>0, <3>1, <4>1
    <3>2. CASE buffer.m_array[i].m_ptr = 0 /\ replayed[n] = 1
      BY <1>0, <1>4, <3>2 DEF Answer
    <3> QED BY <2>4, <3>1, <3>2
  <2>6. PublisherTypes'
    <3>1. buffer' \in [m_array : [0..N-1 -> Packets], m_write_index : 0..N-1]
      BY <1>0, <1>4, <2>1, <2>2 DEF TakenFrom, Packets
    <3>2. channel' \subseteq channel \cup {n}
      BY <1>4, <2>4 DEF Answer
    <3> QED BY <1>1, <2>0, <2>5, <3>1, <3>2 DEF PublisherInv, PublisherTypes
  <2>7. ASSUME NEW j \in 0..w-1
        PROVE  /\ buffer'.m_array[j].m_ts = buffer.m_array[j].m_ts
               /\ \/ /\ buffer'.m_array[j].m_ptr = buffer'.m_array[j].m_ts
                     /\ replayed'[buffer'.m_array[j].m_ts] = 0
                  \/ /\ buffer'.m_array[j].m_ptr = 0
                     /\ replayed'[buffer'.m_array[j].m_ts] = 1
    <3>1. j \in 0..N-1
      BY <1>0
    <3>2. CASE j = i
      BY <1>0, <1>4, <2>1, <2>3, <2>5, <3>2
    <3>3. CASE j # i
      <4>1. buffer'.m_array[j] = buffer.m_array[j]
        BY <1>0, <2>3, <3>1, <3>3
      <4> DEFINE m == buffer.m_array[j].m_ts
      <4>2. m = published - w + j + 1 /\ n = published - w + i + 1
        BY <1>1, <1>4 DEF PublisherInv, SlotsInOrder
      <4>3. m # n /\ m \in Numbers
        <5>1. w <= published /\ published <= MaxPublished /\ MaxPublished \in Nat
          BY <1>0, <1>1, RemainderSmall, BoundsAssumption
             DEF PublisherInv, SlotsInOrder, PublisherTypes
        <5> HIDE DEF m
        <5>2. m \in Int /\ m # n
          BY <1>0, <3>3, <4>2
        <5>3. 1 <= m /\ m <= MaxPublished
          BY <1>0, <4>2, <5>1
        <5> QED BY <5>1, <5>2, <5>3 DEF Numbers
      <4>4. replayed'[m] = replayed[m]
        <5> HIDE DEF m
        <5> QED BY <2>5, <4>3
      <4>5. \/ buffer.m_array[j].m_ptr = m /\ replayed[m] = 0
            \/ buffer.m_array[j].m_ptr = 0 /\ replayed[m] = 1
        BY <1>1 DEF PublisherInv, PayloadsKept
      <4> QED BY <4>1, <4>4, <4>5
    <3> QED BY <3>2, <3>3
  <2>8. SlotsInOrder' /\ PayloadsKept'
    <3>1. \A m \in Numbers : m > published' => replayed'[m] = 0
      BY <1>0, <1>1, <2>0, <2>5 DEF PublisherInv, PayloadsKept, Numbers
    <3> QED BY <1>1, <2>3, <2>7, <3>1 DEF PublisherInv, SlotsInOrder, PayloadsKept
  <2>9. PayloadGoesOutOnce'
    <3>1. empty' \subseteq empty \cup {n}
      BY DEF Answer
    <3> QED BY <1>1, <2>5, <3>1 DEF PublisherInv, PayloadGoesOutOnce
  <2> QED BY <2>6, <2>8, <2>9 DEF PublisherInv
<1> HIDE DEF f
<1>5. \/ ~f.has_value /\ f.value.m_ptr = 0 /\ f.b = buffer
      \/ \E i \in 0..w-1 : /\ buffer.m_array[i].m_ts = n
                           /\ n > published - w /\ n <= published
                           /\ f.has_value /\ f.value = buffer.m_array[i]
                           /\ f.b = TakenFrom(i)
  BY <1>0, <1>1, FindFacts DEF f
<1> QED BY <1>2, <1>3, <1>4, <1>5 DEF ReplayInv

-----------------------------------------------------------------------------
(* The subscriber. *)

\* isInSeq refuses a packet and asks for at most the number expected, or
\* accepts one from that number on and moves past it; a later one only without
\* callback and never in mode REPEAT.
LEMMA IsInSeqFacts ==
  ASSUME SubscriberTypes, NEW n \in Nat, NEW needed \in BOOLEAN,
         NEW r, r = isInSeq(sequencer, n, needed)
  PROVE  /\ r.s \in Sequencers /\ r.s.m_mode = sequencer.m_mode
         /\ r.asked = 0 \/ (r.asked = Expected /\ Expected < n)
         /\ \/ r.ret = FALSE /\ r.s.m_expected_packet_num = Expected
            \/ /\ r.ret = TRUE /\ r.s.m_expected_packet_num = n + 1 /\ n >= Expected
               /\ needed \/ sequencer.m_mode = "REPEAT" => n = Expected
<1>0. sequencer \in Sequencers /\ Expected = sequencer.m_expected_packet_num
      /\ Expected \in Nat \ {0}
  BY DEF SubscriberTypes, Sequencers, Expected
<1>1. CASE r = Refuse(sequencer)
  BY <1>0, <1>1 DEF Refuse
<1>2. CASE r = NoteGap(sequencer, n) /\ n >= Expected /\ n # Expected
  <2> DEFINE g == [start |-> Expected % GapMod, end |-> (n - 1) % GapMod]
             gaps == Append(sequencer.m_packet_gaps, g)
  <2>1. g \in Gaps
    BY <1>0, <1>2, GapModAssumption DEF Gaps
  <2>2. gaps \in Seq(Gaps)
    BY <1>0, <2>1 DEF Sequencers
  <2>3. r = [s |-> [sequencer EXCEPT !.m_packet_gaps = gaps], ret |-> FALSE,
             asked |-> Expected]
    BY <1>0, <1>2 DEF NoteGap
  <2>4. Expected < n
    BY <1>0, <1>2
  <2> HIDE DEF gaps
  <2> QED BY <1>0, <2>2, <2>3, <2>4 DEF Sequencers
<1>3. CASE /\ r = [s |-> [sequencer EXCEPT !.m_expected_packet_num = n + 1],
                   ret |-> TRUE, asked |-> 0]
           /\ n >= Expected
           /\ needed \/ sequencer.m_mode = "REPEAT" => n = Expected
  BY <1>0, <1>3 DEF Sequencers
<1>4. isDuplicate(sequencer, n) \/ n >= Expected
  BY <1>0 DEF isDuplicate
<1> QED BY <1>0, <1>1, <1>2, <1>3, <1>4, Zenon DEF isInSeq

\* A packet is given to isInSeq.
LEMMA DeliverInv ==
  ASSUME ReplayInv, NEW n \in channel, NEW again \in BOOLEAN, NEW needed \in BOOLEAN,
         Deliver(n, again, needed)
  PROVE  ReplayInv'
<1> DEFINE r == isInSeq(sequencer, n, needed)
<1>0. n \in Nat /\ SubscriberTypes /\ SkipsOnlyWithoutCallback /\ AcceptedBelow
  BY DEF ReplayInv, PublisherInv, PublisherTypes, SubscriberInv
<1>1. PublisherInv'
  BY DEF ReplayInv, PublisherInv, PublisherTypes, SlotsInOrder, PayloadsKept,
         PayloadGoesOutOnce, Deliver
<1>2. /\ sequencer' = r.s /\ base' = base
      /\ asks' = IF r.asked = 0 THEN asks ELSE [asks EXCEPT ![r.asked] = @ + 1]
      /\ accepted' = IF r.ret THEN Append(accepted, n) ELSE accepted
      /\ skipped' = IF r.ret /\ ~needed
                    THEN skipped \cup Expected..(n - 1) ELSE skipped
  BY DEF Deliver, Expected
<1>3. /\ r.s \in Sequencers /\ r.s.m_mode = sequencer.m_mode
      /\ r.asked = 0 \/ (r.asked = Expected /\ Expected < n)
      /\ \/ r.ret = FALSE /\ r.s.m_expected_packet_num = Expected
         \/ /\ r.ret = TRUE /\ r.s.m_expected_packet_num = n + 1 /\ n >= Expected
            /\ needed \/ sequencer.m_mode = "REPEAT" => n = Expected
  BY <1>0, IsInSeqFacts
<1> HIDE DEF r
<1>4. Expected \in Nat \ {0} /\ base \in 1..Expected /\ accepted \in Seq(Nat)
      /\ asks \in [Numbers -> Int]
  BY <1>0 DEF SubscriberTypes, Sequencers, Expected
<1>5. Expected' = r.s.m_expected_packet_num /\ sequencer'.m_mode = sequencer.m_mode
  BY <1>2, <1>3 DEF Expected
<1>6. sequencer' \in Sequencers /\ asks' \in [Numbers -> Int]
  <2>1. sequencer' \in Sequencers
    BY <1>2, <1>3
  <2>2. CASE r.asked = 0
    BY <1>2, <1>4, <2>1, <2>2
  <2>3. CASE r.asked = Expected /\ Expected < n
    <3>1. n \in Numbers
      BY BoundsAssumption DEF ReplayInv, PublisherInv, PublisherTypes, Numbers
    <3>2. r.asked \in Numbers
      <4>1. Expected \in Nat /\ 1 <= Expected /\ n \in Nat /\ n <= MaxPublished
        BY <1>0, <1>4, <3>1, BoundsAssumption DEF Numbers
      <4>2. Expected \in 1..MaxPublished
        BY <2>3, <4>1, BoundsAssumption
      <4> QED BY <2>3, <4>2 DEF Numbers
    <3> QED BY <1>2, <1>4, <2>1, <3>2
  <2> QED BY <1>3, <2>2, <2>3
<1>7. CASE r.ret = FALSE /\ r.s.m_expected_packet_num = Expected
  <2>1. accepted' = accepted /\ skipped' = skipped /\ Expected' = Expected
    BY <1>2, <1>5, <1>7
  <2>2. SubscriberTypes'
    BY <1>2, <1>4, <1>6, <2>1 DEF SubscriberTypes
  <2>3. AcceptedBelow'
    BY <1>0, <2>1 DEF AcceptedBelow
  <2>4. SkipsOnlyWithoutCallback'
    BY <1>0, <1>2, <1>5, <2>1 DEF SkipsOnlyWithoutCallback, Expected
  <2> QED BY <1>1, <2>2, <2>3, <2>4 DEF ReplayInv, SubscriberInv
<1>8. CASE /\ r.ret = TRUE /\ r.s.m_expected_packet_num = n + 1 /\ n >= Expected
           /\ needed \/ sequencer.m_mode = "REPEAT" => n = Expected
  <2>1. accepted' = Append(accepted, n) /\ Expected' = n + 1
    BY <1>2, <1>5, <1>8
  <2>2. /\ Len(accepted) \in Nat /\ Len(accepted') = Len(accepted) + 1
        /\ accepted' \in Seq(Nat) /\ accepted'[Len(accepted) + 1] = n
        /\ \A i \in 1..Len(accepted) : accepted'[i] = accepted[i]
    BY <1>0, <1>4, <2>1
  <2>3. SubscriberTypes'
    BY <1>0, <1>2, <1>4, <1>6, <1>8, <2>1, <2>2 DEF SubscriberTypes
  <2>4. \A i \in 1..Len(accepted) : accepted[i] \in Nat /\ accepted[i] < Expected
    BY <1>0, <1>4 DEF AcceptedBelow
  <2>5. AcceptedBelow'
    <3> SUFFICES ASSUME NEW i \in 1..Len(accepted') PROVE accepted'[i] < n + 1
      BY <2>1 DEF AcceptedBelow
    <3>1. CASE i = Len(accepted) + 1
      BY <1>0, <2>2, <3>1
    <3>2. CASE i # Len(accepted) + 1
      <4>1. i \in 1..Len(accepted)
        BY <2>2, <3>2
      <4>2. accepted'[i] \in Nat /\ accepted'[i] < Expected
        BY <2>2, <2>4, <4>1
      <4> QED BY <1>0, <1>4, <1>8, <4>2
    <3> QED BY <3>1, <3>2
  <2>6. \A i \in 1..Len(accepted')-1 : accepted'[i] < accepted'[i + 1]
    <3> SUFFICES ASSUME NEW i \in 1..Len(accepted) PROVE accepted'[i] < accepted'[i + 1]
      BY <2>2
    <3>1. CASE i = Len(accepted)
      <4>1. accepted[i] \in Nat /\ accepted[i] < Expected
        BY <2>4
      <4>2. accepted'[i] = accepted[i] /\ accepted'[i + 1] = n
        BY <2>2, <3>1
      <4>3. Expected \in Nat /\ n >= Expected
        BY <1>4, <1>8
      <4> QED BY <1>0, <4>1, <4>2, <4>3
    <3>2. CASE i # Len(accepted)
      <4>1. i \in 1..Len(accepted)-1 /\ i + 1 \in 1..Len(accepted)
        BY <2>2, <3>2
      <4>2. accepted[i] < accepted[i + 1]
        BY <1>0, <4>1 DEF SkipsOnlyWithoutCallback
      <4> QED BY <2>2, <4>1, <4>2
    <3> QED BY <3>1, <3>2
  <2>7. ASSUME NEW k \in base'..(Expected' - 1)
        PROVE  k \in skipped' \/ \E i \in 1..Len(accepted') : accepted'[i] = k
    <3>0. k \in base..n
      BY <1>0, <1>2, <1>4, <2>1
    <3>1. CASE k = n
      <4>1. Len(accepted) + 1 \in 1..Len(accepted')
        BY <2>2
      <4> QED BY <2>2, <3>1, <4>1
    <3>2. CASE k < Expected
      <4>1. k \in base..(Expected - 1)
        BY <1>0, <1>4, <3>0, <3>2
      <4>2. k \in skipped \/ \E i \in 1..Len(accepted) : accepted[i] = k
        BY <1>0, <4>1 DEF SkipsOnlyWithoutCallback, Expected
      <4>3. skipped \subseteq skipped'
        BY <1>2
      <4>4. CASE \E i \in 1..Len(accepted) : accepted[i] = k
        <5>1. PICK i \in 1..Len(accepted) : accepted[i] = k
          BY <4>4
        <5>2. i \in 1..Len(accepted') /\ accepted'[i] = k
          BY <2>2, <5>1
        <5> QED BY <5>2
      <4> QED BY <4>2, <4>3, <4>4
    <3>3. CASE k # n /\ k >= Expected
      <4>1. k \in Expected..(n - 1) /\ n # Expected
        BY <1>0, <1>4, <3>0, <3>3
      <4>2. ~needed
        BY <1>8, <4>1
      <4> QED BY <1>2, <1>8, <4>1, <4>2
    <3> QED BY <1>0, <1>4, <3>0, <3>1, <3>2, <3>3
  <2>8. ASSUME sequencer'.m_mode = "REPEAT" PROVE skipped' = {}
    <3>1. n = Expected /\ skipped = {}
      BY <1>0, <1>5, <1>8, <2>8 DEF SkipsOnlyWithoutCallback
    <3>2. Expected..(n - 1) = {}
      BY <1>4, <3>1
    <3> QED BY <1>2, <3>1, <3>2
  <2>9. SkipsOnlyWithoutCallback'
    BY <2>6, <2>7, <2>8 DEF SkipsOnlyWithoutCallback, Expected
  <2> QED BY <1>1, <2>3, <2>5, <2>9 DEF ReplayInv, SubscriberInv
<1> QED BY <1>3, <1>7, <1>8

\* Starting over at a number.
LEMMA ResetInv == ASSUME ReplayInv, NEW n \in Numbers, Reset(n) PROVE ReplayInv'
<1>0. n \in Nat \ {0} /\ sequencer \in Sequencers /\ asks \in [Numbers -> Int]
  BY BoundsAssumption DEF Numbers, ReplayInv, SubscriberInv, SubscriberTypes
<1>1. PublisherInv'
  BY DEF ReplayInv, PublisherInv, PublisherTypes, SlotsInOrder, PayloadsKept,
         PayloadGoesOutOnce, Reset
<1>2. accepted' = <<>> /\ skipped' = {} /\ base' = n /\ asks' = asks
      /\ sequencer' = [sequencer EXCEPT !.m_expected_packet_num = n]
  BY DEF Reset, resetSeqNo
<1>3. sequencer' \in Sequencers /\ Expected' = n
  BY <1>0, <1>2 DEF Sequencers, Expected
<1>4. Len(accepted') = 0 /\ accepted' \in Seq(Nat)
  BY <1>2
<1>5. SubscriberTypes' /\ AcceptedBelow'
  BY <1>0, <1>2, <1>3, <1>4 DEF SubscriberTypes, AcceptedBelow
<1>6. SkipsOnlyWithoutCallback'
  <2>1. base'..(Expected' - 1) = {} /\ 1..Len(accepted')-1 = {}
    BY <1>0, <1>2, <1>3, <1>4
  <2> QED BY <1>2, <2>1 DEF SkipsOnlyWithoutCallback, Expected
<1> QED BY <1>1, <1>5, <1>6 DEF ReplayInv, SubscriberInv

-----------------------------------------------------------------------------
\* The invariant holds before anything is published.
LEMMA InitInv == Init => ReplayInv
<1> SUFFICES ASSUME Init PROVE ReplayInv
  OBVIOUS
<1>0. N \in Nat /\ N > 0
  BY NAssumption
<1>1. /\ published = 0 /\ channel = {} /\ buffer = NewBuffer /\ empty = {}
      /\ replayed = [n \in Numbers |-> 0] /\ MaxPublished \in Nat
  BY BoundsAssumption DEF Init
<1>2. PublisherTypes
  BY <1>0, <1>1 DEF PublisherTypes, NewBuffer, EmptyPacket, Packets
<1>3. SlotsInOrder /\ PayloadsKept /\ PayloadGoesOutOnce
  <2>1. 0 % N = 0
    BY <1>0, RemainderUnique
  <2> QED BY <1>0, <1>1, <2>1
      DEF SlotsInOrder, PayloadsKept, PayloadGoesOutOnce, NewBuffer
<1>4. /\ sequencer \in Sequencers /\ Expected = 1
      /\ accepted = <<>> /\ skipped = {} /\ base = 1 /\ asks \in [Numbers -> Int]
  <2>1. PICK mode \in {"INCREMENTAL", "REPEAT"} : sequencer = NewSequencer(mode)
    BY DEF Init
  <2>2. <<>> \in Seq(Gaps)
    OBVIOUS
  <2>3. sequencer \in Sequencers /\ Expected = 1
    BY <2>1, <2>2 DEF NewSequencer, Sequencers, Expected
  <2> QED BY <2>3 DEF Init
<1>5. Len(accepted) = 0 /\ accepted \in Seq(Nat)
  BY <1>4
<1>6. SubscriberTypes /\ AcceptedBelow
  BY <1>4, <1>5 DEF SubscriberTypes, AcceptedBelow
<1>7. SkipsOnlyWithoutCallback
  <2>1. base..(Expected - 1) = {} /\ 1..Len(accepted)-1 = {}
    BY <1>4, <1>5
  <2> QED BY <1>4, <2>1 DEF SkipsOnlyWithoutCallback, Expected
<1> QED BY <1>2, <1>3, <1>6, <1>7 DEF ReplayInv, PublisherInv, SubscriberInv

\* Every step keeps the invariant.
LEMMA StepInv == ASSUME ReplayInv, [Next]_vars PROVE ReplayInv'
<1>1. CASE \E n \in channel : Lose(n)
  BY <1>1 DEF ReplayInv, PublisherInv, SubscriberInv, PublisherTypes, SlotsInOrder,
              PayloadsKept, PayloadGoesOutOnce, SubscriberTypes, AcceptedBelow,
              SkipsOnlyWithoutCallback, Expected, Lose, subscriber
<1>2. CASE UNCHANGED vars
  BY <1>2 DEF ReplayInv, PublisherInv, SubscriberInv, PublisherTypes, SlotsInOrder,
              PayloadsKept, PayloadGoesOutOnce, SubscriberTypes, AcceptedBelow,
              SkipsOnlyWithoutCallback, Expected, vars, subscriber
<1>3. CASE \E n \in Numbers : Answer(n)
  BY <1>3, AnswerInv
<1>4. CASE \E n \in channel, again \in BOOLEAN, needed \in BOOLEAN :
             Deliver(n, again, needed)
  BY <1>4, DeliverInv
<1>5. CASE \E n \in Numbers : Reset(n)
  BY <1>5, ResetInv
<1> QED BY <1>1, <1>2, <1>3, <1>4, <1>5, PublishInv DEF Next

\* The inductive invariant of publisher and subscriber.
THEOREM ReplayInvariant == Spec => []ReplayInv
<1>1. Init => ReplayInv
  BY InitInv
<1>2. ReplayInv /\ [Next]_vars => ReplayInv'
  BY StepInv
<1> QED BY <1>1, <1>2, PTL DEF Spec

\* isInSeq moves past no number it did not accept, for any channel, unless the
\* caller passes callback_needed = false in mode INCREMENTAL.
THEOREM SkipsConfined == Spec => []SkipsOnlyWithoutCallback
<1>1. ReplayInv => SkipsOnlyWithoutCallback
  BY DEF ReplayInv, SubscriberInv
<1> QED BY <1>1, ReplayInvariant, PTL

\* find never answers with a packet that is no longer one of the last N, nor
\* with the payload of another one, for any N.
THEOREM FindIsSound == Spec => []FoundIsRecent
<1>1. ReplayInv => FoundIsRecent
  <2> SUFFICES ASSUME ReplayInv, NEW n \in 1..published, find(buffer, n).has_value
               PROVE  /\ n > published - N /\ find(buffer, n).value.m_ts = n
                      /\ find(buffer, n).value.m_ptr \in {0, n}
    BY DEF FoundIsRecent
  <2>1. /\ n \in Nat /\ n <= published /\ published \in Nat /\ N \in Nat
        /\ buffer.m_write_index \in 0..N-1 /\ PublisherInv
    BY NAssumption DEF ReplayInv, PublisherInv, PublisherTypes
  <2>2. PICK i \in 0..buffer.m_write_index-1 :
          /\ buffer.m_array[i].m_ts = n /\ n > published - buffer.m_write_index
          /\ find(buffer, n).value = buffer.m_array[i]
    BY <2>1, FindFacts
  <2>3. buffer.m_array[i].m_ptr \in {0, n}
    BY <2>1, <2>2 DEF PublisherInv, PayloadsKept
  <2>4. n > published - N
    BY <2>1, <2>2
  <2> QED BY <2>2, <2>3, <2>4
<1> QED BY <1>1, ReplayInvariant, PTL

\* find hands out a payload at most once, however often it is asked for, and
\* before it hands out an entry without one.
THEOREM PayloadOnce == Spec => []PayloadGoesOutOnce
<1>1. ReplayInv => PayloadGoesOutOnce
  BY DEF ReplayInv, PublisherInv
<1> QED BY <1>1, ReplayInvariant, PTL

=============================================================================
