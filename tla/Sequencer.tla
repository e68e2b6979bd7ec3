----------------------------- MODULE Sequencer ------------------------------
(***************************************************************************)
(* common/Sequencer.h: numbers the packets of a channel are checked by.  A *)
(* Sequencer is a record of its fields; a call gives the Sequencer after   *)
(* it, its result, and the number m_callback was called with (0: it was    *)
(* not called).                                                            *)
(***************************************************************************)
LOCAL INSTANCE Integers
LOCAL INSTANCE Sequences

CONSTANT GapMod   \* 2^32: the fields of PacketGap are narrower than the numbers

ASSUME GapModAssumption == GapMod \in Nat \ {0}

NewSequencer(mode) == [m_expected_packet_num |-> 1, m_mode |-> mode,
                       m_packet_gaps |-> <<>>]

isDuplicate(s, packet_num) == s.m_expected_packet_num > packet_num

Refuse(s) == [s |-> s, ret |-> FALSE, asked |-> 0]

\* Slip: the packet behind the gap counts as the last one seen.
NoteGapAndGoOn(s, packet_num) ==
  [s |-> [s EXCEPT !.m_expected_packet_num = packet_num + 1],
   ret |-> TRUE, asked |-> s.m_expected_packet_num]

\* The gap before packet_num is noted and asked for; the packet is refused.
NoteGap(s, packet_num) ==
  [s |-> [s EXCEPT !.m_packet_gaps =
            Append(@, [start |-> s.m_expected_packet_num % GapMod,
                       end   |-> (packet_num - 1) % GapMod])],
   ret |-> FALSE, asked |-> s.m_expected_packet_num]

isInSeq(s, packet_num, callback_needed) ==
  IF \/ s.m_mode = "REPEAT" /\ s.m_expected_packet_num # packet_num
     \/ isDuplicate(s, packet_num)
  THEN Refuse(s)
  ELSE IF s.m_expected_packet_num # packet_num /\ callback_needed
       THEN NoteGap(s, packet_num)
       ELSE [s |-> [s EXCEPT !.m_expected_packet_num = packet_num + 1],
             ret |-> TRUE, asked |-> 0]

resetSeqNo(s, seq_num) == [s EXCEPT !.m_expected_packet_num = seq_num]

=============================================================================
