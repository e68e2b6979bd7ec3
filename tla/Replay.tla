------------------------------- MODULE Replay -------------------------------
(***************************************************************************)
(* A channel of numbered packets between a publisher that keeps the last   *)
(* ones in a CircularBuffer, its timestamps being the numbers, and a       *)
(* subscriber that checks them with a Sequencer, whose callback asks the   *)
(* publisher for the packet it misses.  The two classes are the            *)
(* repository's, who calls them (the network, the callback) is external:   *)
(* packets are lost, duplicated and reordered.                             *)
(***************************************************************************)
EXTENDS CircularBuffer, Sequencer, Sequences, FiniteSets

CONSTANTS MaxPublished, MaxCalls, MaxResets   \* bounds

ASSUME BoundsAssumption == MaxPublished \in Nat /\ MaxCalls \in Nat /\ MaxResets \in Nat

Numbers == 1..MaxPublished

VARIABLES published,  \* the number of the last packet published
          buffer, sequencer,
          channel,    \* numbers of packets under way
          asks,       \* how often each number was asked for and not yet answered
          replayed,   \* how often the payload of each number went out again
          empty,      \* numbers answered without payload
          accepted,   \* numbers isInSeq said yes to, since the last reset
          skipped,    \* numbers a call without callback passed over
          base,       \* the number the last reset set
          calls, resets

subscriber == <<sequencer, accepted, skipped, base, calls, resets>>
vars == <<published, buffer, channel, asks, replayed, empty, subscriber>>

Init == /\ published = 0
        /\ buffer = NewBuffer
        /\ sequencer \in {NewSequencer(mode) : mode \in {"INCREMENTAL", "REPEAT"}}
        /\ channel = {} /\ empty = {}
        /\ asks = [n \in Numbers |-> 0] /\ replayed = [n \in Numbers |-> 0]
        /\ accepted = <<>> /\ skipped = {}
        /\ base = 1 /\ calls = 0 /\ resets = 0

\* The publisher stores a packet and sends it.
Publish ==
  /\ published < MaxPublished
  /\ published' = published + 1
  /\ buffer' = update(buffer, [m_ts |-> published', m_ptr |-> published'])
  /\ channel' = channel \cup {published'}
  /\ UNCHANGED <<asks, replayed, empty, subscriber>>

Lose(n) == /\ channel' = channel \ {n}
           /\ UNCHANGED <<published, buffer, asks, replayed, empty, subscriber>>

\* A packet arrives, and may arrive again; it is given to isInSeq.
Deliver(n, again, callback_needed) ==
  /\ calls < MaxCalls /\ calls' = calls + 1
  /\ channel' = IF again THEN channel ELSE channel \ {n}
  /\ LET r == isInSeq(sequencer, n, callback_needed)
     IN  /\ sequencer' = r.s
         /\ asks' = IF r.asked = 0 THEN asks ELSE [asks EXCEPT ![r.asked] = @ + 1]
         /\ accepted' = IF r.ret THEN Append(accepted, n) ELSE accepted
         /\ skipped' = IF r.ret /\ ~callback_needed
                       THEN skipped \cup sequencer.m_expected_packet_num..(n - 1)
                       ELSE skipped
  /\ UNCHANGED <<published, buffer, replayed, empty, base, resets>>

\* The publisher looks up a number and sends what it finds.
Answer(n) ==
  LET f == find(buffer, n)
  IN  /\ asks[n] > 0
      /\ buffer' = f.b
      /\ asks' = [asks EXCEPT ![n] = @ - 1]
      /\ channel' = IF f.value.m_ptr # 0 THEN channel \cup {f.value.m_ptr} ELSE channel
      /\ replayed' = IF f.value.m_ptr # 0 THEN [replayed EXCEPT ![n] = @ + 1] ELSE replayed
      /\ empty' = IF f.has_value /\ f.value.m_ptr = 0 THEN empty \cup {n} ELSE empty
      /\ UNCHANGED <<published, subscriber>>

Reset(n) ==
  /\ resets < MaxResets /\ resets' = resets + 1
  /\ sequencer' = resetSeqNo(sequencer, n)
  /\ accepted' = <<>> /\ skipped' = {} /\ base' = n
  /\ UNCHANGED <<published, buffer, channel, asks, replayed, empty, calls>>

Next == \/ Publish
        \/ \E n \in channel : Lose(n)
        \/ \E n \in channel, again \in BOOLEAN, callback_needed \in BOOLEAN :
             Deliver(n, again, callback_needed)
        \/ \E n \in Numbers : Answer(n)
        \/ \E n \in Numbers : Reset(n)

Spec == Init /\ [][Next]_vars

-----------------------------------------------------------------------------
\* Whatever the channel does, what isInSeq accepts ascends strictly, and it
\* moves past no number it did not accept; the exception is a call with
\* callback_needed false in mode INCREMENTAL, which passes over what is missing
\* without a note or a callback.
SkipsOnlyWithoutCallback ==
  /\ \A i \in 1..Len(accepted)-1 : accepted[i] < accepted[i + 1]
  /\ \A n \in base..(sequencer.m_expected_packet_num - 1) :
       n \in skipped \/ \E i \in 1..Len(accepted) : accepted[i] = n
  /\ sequencer.m_mode = "REPEAT" => skipped = {}

\* What find finds for a number is one of the last N packets, and that packet:
\* a slot that was written again no longer answers for its old packet.  It need
\* not find one of them that is there.
FoundIsRecent ==
  \A n \in 1..published :
    LET f == find(buffer, n)
    IN  f.has_value => n > published - N /\ f.value.m_ts = n /\ f.value.m_ptr \in {0, n}

\* However often a number is asked for before it is answered, and after, its
\* payload goes out again at most once, because find moves it out of the array;
\* an answer without payload only follows that one.
PayloadGoesOutOnce ==
  \A n \in Numbers : replayed[n] <= 1 /\ (n \in empty => replayed[n] = 1)

=============================================================================
