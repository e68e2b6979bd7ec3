------------------------------ MODULE GapFeed ------------------------------
(***************************************************************************)
(* GapIdentifier in use: a feed handler on a channel that loses, reorders  *)
(* and duplicates packets.  The repository has no client of GapIdentifier, *)
(* so the handler is the environment its public methods are made for:      *)
(*                                                                         *)
(*   - a packet in sequence is processed and updateSeqNumFlush called;     *)
(*   - a duplicate is dropped; any other packet goes to update;            *)
(*   - when the gap that onPacketGap announced has been fetched, the       *)
(*     handler processes what it still lacks, calls drainPacket for what   *)
(*     it has and replayPacket for the rest.                               *)
(***************************************************************************)
EXTENDS GapIdentifier

VARIABLES app,      \* last sequence number the application has processed
          request,  \* last packet of the gap being fetched, 0 if none is
          handler   \* "ready", or "drained" between drainPacket and replayPacket

feedVars == <<vars, app, request, handler>>

FeedInit == Init /\ app = 0 /\ request = 0 /\ handler = "ready"

\* The request opened by this step's onPacketGap, if the client took it on.
Requested == IF gap' # NoGap /\ ~m_request_gap' THEN gap'.buf - 1 ELSE request

InSeqPacket(s) ==
  /\ handler = "ready" /\ isInSeq(s)
  /\ updateSeqNumFlush(s)
  /\ app' = s
  /\ UNCHANGED <<request, handler>>

OtherPacket(s, size) ==
  /\ handler = "ready" /\ ~isInSeq(s) /\ ~isDuplicate(s)
  /\ update(s, size)
  /\ request' = Requested
  /\ UNCHANGED <<app, handler>>

\* The missing packets have been fetched.  Some may have come in meanwhile.
GapFetched ==
  /\ handler = "ready" /\ request # 0
  /\ app' = IF request > app THEN request ELSE app
  /\ drainPacket(app')
  /\ handler' = "drained"
  /\ UNCHANGED request

Resume ==
  /\ handler = "drained"
  /\ replayPacket(app + 1)
  /\ request' = 0
  /\ handler' = "ready"
  /\ UNCHANGED app

Callbacks ==
  /\ Loop
  /\ app' = IF replayed' # 0 THEN replayed' ELSE app
  /\ request' = Requested
  /\ UNCHANGED handler

FeedNext == \/ \E s \in SeqNum : \/ InSeqPacket(s)
                                 \/ \E size \in Sizes : OtherPacket(s, size)
            \/ GapFetched
            \/ Resume
            \/ Callbacks

\* The handler runs its calls to the end and every fetch is answered in the
\* end; no packet has to arrive.
FeedSpec == /\ FeedInit /\ [][FeedNext]_feedVars
            /\ WF_feedVars(Callbacks)
            /\ WF_feedVars(Resume)
            /\ WF_feedVars(GapFetched)

-----------------------------------------------------------------------------
FeedTypeOK == /\ TypeOK
              /\ app \in 0..MaxSeq /\ request \in 0..MaxSeq
              /\ handler \in {"ready", "drained"}

\* The application gets every packet exactly once and in order: a replay is
\* always of the packet after the last one processed, and nothing moves back.
InOrderOnce == [][ /\ replayed' # 0 => replayed' = app + 1
                   /\ app' >= app ]_feedVars

\* Between calls the class expects exactly the packet the application lacks,
\* and holds only packets the application does not have.
ExpectedIsNext ==
  pc = "idle" /\ handler = "ready" => /\ m_expected_seq_num = app + 1
                                      /\ \A s \in Buffered : s > app + 1

\* A gap request names a gap of the application's: from the packet it lacks to
\* before a later one, which is not later than the packet that revealed the gap.
GapWellFormed ==
  gap # NoGap => gap.exp = app + 1 /\ gap.exp < gap.buf /\ gap.buf <= gap.incr

\* As long as packets wait behind a gap, a fetch is under way: the handler
\* never sits on a buffer nobody will release.  (For a client that takes on
\* every gap.)
GapIsBeingFetched ==
  NonEmpty /\ pc = "idle" /\ handler = "ready" => request # 0 /\ ~m_request_gap

\* A packet that was buffered reaches the application, also when the overflow
\* policy dropped it from the buffer or a later gap showed up meanwhile.
BufferedIsDelivered ==
  \A s \in SeqNum : s \in Buffered ~> app >= s

=============================================================================
