-------------------------- MODULE EchoServerProofs --------------------------
(***************************************************************************)
(* The byte accounting of the echo servers, and that the servers of one    *)
(* session at a time echo to each client its own bytes, for any clients,   *)
(* buffer size and number of bytes.                                        *)
(***************************************************************************)
EXTENDS EchoServer, TLAPS

\* A session that has been accepted and not dropped.
Active(c) == session[c] \in {"reading", "read", "writing", "written"}

\* An echo under way has bytes left to move.
EchoUnderWay ==
  \A c \in Client : /\ session[c] = "read" => length[c] >= 1
                    /\ session[c] = "writing" => offset[c] < length[c]

\* The servers of one session accept the next client only when the session is
\* gone, so there is one reader of the buffer.
OneSession ==
  server \in Solo =>
    /\ \A c, d \in Client : Active(c) /\ Active(d) => c = d
    /\ accepting = "pending" => \A c \in Client : ~Active(c)

\* Until its echo is done, what a session read is in the buffer.
BufferHoldsRead ==
  server \in Solo =>
    \A c \in Client : session[c] \in {"read", "writing"} =>
      \A i \in 1..length[c] : buffer_[i] = <<c, taken[c] - length[c] + i>>

EchoInv == /\ TypeOK /\ EchoAccounting /\ EchoUnderWay
           /\ OneSession /\ BufferHoldsRead /\ SoloEchoesOwnBytes

-----------------------------------------------------------------------------
\* The constants, as the leaves below use them.
LEMMA Constants == BufSize \in Nat /\ BufSize >= 1 /\ MaxBytes \in Nat
BY BoundAssumption

\* The types of one client's counters.
LEMMA ClientTypes ==
  ASSUME TypeOK, NEW d \in Client
  PROVE  /\ sent[d] \in Nat /\ taken[d] \in Nat /\ length[d] \in Nat
         /\ offset[d] \in Nat /\ Len(echoed[d]) \in Nat
<1>1. echoed[d] \in Seq(Byte)
  BY DEF TypeOK
<1> QED BY <1>1, Constants DEF TypeOK

\* What EchoAccounting says of one client.
Accounted(d) == /\ taken[d] <= sent[d]
                /\ session[d] \notin {"closed", "failed"} =>
                     taken[d] = Len(echoed[d]) + InHand(d)

\* The invariant holds before the first client connects.
LEMMA InitInv == Init => EchoInv
<1> SUFFICES ASSUME Init PROVE EchoInv
  OBVIOUS
<1>1. TypeOK
  BY Constants DEF Init, TypeOK, Byte
<1>2. EchoAccounting
  <2> SUFFICES ASSUME NEW d \in Client PROVE Accounted(d)
    BY DEF EchoAccounting, Accounted
  <2>1. taken[d] = 0 /\ sent[d] = 0 /\ session[d] = "absent" /\ echoed[d] = <<>>
    BY DEF Init
  <2> QED BY <2>1 DEF Accounted, InHand
<1>3. EchoUnderWay /\ OneSession /\ BufferHoldsRead
  BY DEF Init, EchoUnderWay, OneSession, BufferHoldsRead, Active
<1>4. SoloEchoesOwnBytes
  BY DEF Init, SoloEchoesOwnBytes, OwnBytes
<1> QED BY <1>1, <1>2, <1>3, <1>4 DEF EchoInv

\* The clients and a failed accept touch no session that is being served.
LEMMA ClientInv ==
  ASSUME EchoInv, NEW c \in Client, Connect(c) \/ Send(c) \/ PeerClose(c)
  PROVE  EchoInv'
<1> USE DEF EchoInv
<1>1. TypeOK'
  <2>1. CASE Connect(c)
    BY <2>1 DEF TypeOK, Connect
  <2>2. CASE Send(c)
    BY <2>2, Constants DEF TypeOK, Send
  <2>3. CASE PeerClose(c)
    BY <2>3 DEF TypeOK, PeerClose
  <2> QED BY <2>1, <2>2, <2>3
<1>2. EchoAccounting'
  <2> SUFFICES ASSUME NEW d \in Client PROVE Accounted(d)'
    BY DEF EchoAccounting, Accounted
  <2>1. Accounted(d)
    BY DEF EchoAccounting, Accounted
  <2>2. CASE Connect(c)
    BY <2>1, <2>2, ClientTypes DEF TypeOK, Accounted, InHand, Connect
  <2>3. CASE Send(c)
    BY <2>1, <2>3, ClientTypes DEF TypeOK, Accounted, InHand, Send
  <2>4. CASE PeerClose(c)
    BY <2>1, <2>4, ClientTypes DEF Accounted, InHand, PeerClose
  <2> QED BY <2>2, <2>3, <2>4
<1>3. EchoUnderWay' /\ OneSession' /\ BufferHoldsRead'
  <2>1. CASE Connect(c)
    BY <2>1 DEF TypeOK, EchoUnderWay, OneSession, BufferHoldsRead, Active, Connect
  <2>2. CASE Send(c)
    BY <2>2 DEF TypeOK, EchoUnderWay, OneSession, BufferHoldsRead, Active, Send
  <2>3. CASE PeerClose(c)
    BY <2>3 DEF TypeOK, EchoUnderWay, OneSession, BufferHoldsRead, Active, PeerClose
  <2> QED BY <2>1, <2>2, <2>3
<1>4. SoloEchoesOwnBytes'
  BY DEF SoloEchoesOwnBytes, OwnBytes, Connect, Send, PeerClose
<1> QED BY <1>1, <1>2, <1>3, <1>4

\* A failed accept ends the listening only.
LEMMA AcceptErrorInv == ASSUME EchoInv, AcceptError PROVE EchoInv'
<1> USE DEF EchoInv, AcceptError
<1>1. TypeOK'
  BY DEF TypeOK
<1>2. EchoAccounting' /\ EchoUnderWay' /\ BufferHoldsRead' /\ SoloEchoesOwnBytes'
  BY DEF EchoAccounting, InHand, EchoUnderWay, BufferHoldsRead, SoloEchoesOwnBytes, OwnBytes
<1>3. OneSession'
  BY DEF OneSession, Active
<1> QED BY <1>1, <1>2, <1>3

\* A session starts with nothing read; a solo server has no other then.
LEMMA AcceptInv == ASSUME EchoInv, NEW c \in Client, Accept(c) PROVE EchoInv'
<1> USE DEF EchoInv, Accept
<1>1. TypeOK'
  BY DEF TypeOK
<1>2. EchoAccounting' /\ EchoUnderWay' /\ BufferHoldsRead'
  BY DEF TypeOK, EchoAccounting, InHand, EchoUnderWay, BufferHoldsRead
<1>3. OneSession'
  BY DEF TypeOK, OneSession, Active, KeepsAccepting
<1>4. SoloEchoesOwnBytes'
  BY DEF SoloEchoesOwnBytes, OwnBytes
<1> QED BY <1>1, <1>2, <1>3, <1>4

\* The one reader of a server of one session fills the buffer.
LEMMA ReadSomeInv ==
  ASSUME EchoInv, NEW c \in Client, NEW n \in 1..BufSize, ReadSome(c, n)
  PROVE  EchoInv'
<1> USE Constants DEF EchoInv, ReadSome
<1>0. /\ n \in Nat /\ n >= 1 /\ taken[c] \in Nat /\ sent[c] \in 0..MaxBytes
      /\ taken[c] + n <= sent[c]
  BY DEF TypeOK
<1>1. TypeOK'
  <2>1. \A i \in 1..n : <<c, taken[c] + i>> \in Byte
    BY <1>0 DEF Byte
  <2>2. buffer_' \in [1..BufSize -> Byte]
    BY <2>1 DEF TypeOK
  <2>3. taken' \in [Client -> 0..MaxBytes] /\ length' \in [Client -> 0..BufSize]
    BY <1>0 DEF TypeOK
  <2> QED BY <2>2, <2>3 DEF TypeOK
<1>2. EchoAccounting'
  <2> SUFFICES ASSUME NEW d \in Client PROVE Accounted(d)'
    BY DEF EchoAccounting, Accounted
  <2>1. Accounted(d)
    BY DEF EchoAccounting, Accounted
  <2>2. CASE d = c
    <3>1. /\ session'[c] = "read" /\ length'[c] = n /\ taken'[c] = taken[c] + n
          /\ sent'[c] = sent[c] /\ echoed'[c] = echoed[c]
      BY DEF TypeOK
    <3>2. taken[c] = Len(echoed[c])
      BY <2>1, <2>2, ClientTypes DEF Accounted, InHand
    <3> QED BY <1>0, <2>2, <3>1, <3>2, ClientTypes DEF Accounted, InHand
  <2>3. CASE d # c
    BY <2>1, <2>3 DEF TypeOK, Accounted, InHand
  <2> QED BY <2>2, <2>3
<1>3. EchoUnderWay'
  BY DEF TypeOK, EchoUnderWay
<1>4. OneSession'
  BY DEF TypeOK, OneSession, Active
<1>5. BufferHoldsRead'
  <2> SUFFICES ASSUME server \in Solo, NEW d \in Client, session'[d] \in {"read", "writing"},
                      NEW i \in 1..length'[d]
               PROVE  buffer_'[i] = <<d, taken'[d] - length'[d] + i>>
    BY DEF BufferHoldsRead
  <2>1. d = c
    BY DEF TypeOK, OneSession, Active
  <2>2. taken'[c] - length'[c] = taken[c] /\ length'[c] = n
    BY <1>0 DEF TypeOK
  <2>3. buffer_'[i] = <<c, taken[c] + i>>
    BY <2>1, <2>2 DEF Solo
  <2> QED BY <2>1, <2>2, <2>3
<1>6. SoloEchoesOwnBytes'
  BY DEF SoloEchoesOwnBytes, OwnBytes
<1> QED BY <1>1, <1>2, <1>3, <1>4, <1>5, <1>6

\* The handlers only move the session on.
LEMMA HandlerInv ==
  ASSUME EchoInv, NEW c \in Client,
         HandleRead(c) \/ HandleWrite(c) \/ ReadError(c) \/ WriteError(c)
  PROVE  EchoInv'
<1> USE DEF EchoInv, HandleRead, HandleWrite, ReadError, WriteError
<1>1. TypeOK'
  <2>1. CASE HandleRead(c)
    BY <2>1, Constants DEF TypeOK
  <2>2. CASE HandleWrite(c)
    BY <2>2 DEF TypeOK
  <2>3. CASE ReadError(c)
    BY <2>3 DEF TypeOK
  <2>4. CASE WriteError(c)
    BY <2>4 DEF TypeOK
  <2> QED BY <2>1, <2>2, <2>3, <2>4
<1>2. EchoAccounting'
  <2> SUFFICES ASSUME NEW d \in Client PROVE Accounted(d)'
    BY DEF EchoAccounting, Accounted
  <2>1. Accounted(d)
    BY DEF EchoAccounting, Accounted
  <2>2. CASE HandleRead(c)
    BY <2>1, <2>2, ClientTypes DEF TypeOK, Accounted, InHand
  <2>3. CASE HandleWrite(c)
    BY <2>1, <2>3, ClientTypes DEF TypeOK, Accounted, InHand
  <2>4. CASE ReadError(c)
    BY <2>1, <2>4, ClientTypes DEF TypeOK, Accounted, InHand
  <2>5. CASE WriteError(c)
    BY <2>1, <2>5, ClientTypes DEF TypeOK, Accounted, InHand
  <2> QED BY <2>2, <2>3, <2>4, <2>5
<1>3. EchoUnderWay'
  BY DEF TypeOK, EchoUnderWay
<1>4. OneSession'
  BY DEF TypeOK, OneSession, Active, Solo
<1>5. BufferHoldsRead'
  BY DEF TypeOK, BufferHoldsRead
<1>6. SoloEchoesOwnBytes'
  BY DEF SoloEchoesOwnBytes, OwnBytes
<1> QED BY <1>1, <1>2, <1>3, <1>4, <1>5, <1>6

\* The byte that goes out next is the one after those the client has.
LEMMA WriteSomeInv == ASSUME EchoInv, NEW c \in Client, WriteSome(c) PROVE EchoInv'
<1> DEFINE i == offset[c] + 1
<1> USE Constants DEF EchoInv
<1>0. PICK b \in Source(c, i) : echoed' = [echoed EXCEPT ![c] = Append(@, b)]
  BY DEF WriteSome
<1>1. /\ length[c] \in 0..BufSize /\ offset[c] \in Nat /\ taken[c] \in 0..MaxBytes
      /\ i \in 1..length[c] /\ i \in 1..BufSize
      /\ echoed[c] \in Seq(Byte) /\ Len(echoed[c]) \in Nat
  BY DEF WriteSome, TypeOK, EchoUnderWay
<1>2. taken[c] - length[c] + i = Len(echoed[c]) + 1 /\ Len(echoed[c]) + 1 <= taken[c]
  <2>1. session[c] = "writing"
    BY DEF WriteSome
  <2>2. Accounted(c)
    BY DEF EchoAccounting, Accounted
  <2>3. taken[c] = Len(echoed[c]) + (length[c] - offset[c])
    BY <2>1, <2>2 DEF Accounted, InHand
  <2> QED BY <1>1, <2>3, SMTT(20)
<1>3. b \in Byte
  <2>1. buffer_[i] \in Byte
    BY <1>1 DEF TypeOK
  <2>2. Len(echoed[c]) + 1 \in 1..MaxBytes
    BY <1>1, <1>2
  <2>3. <<c, taken[c] - length[c] + i>> \in Byte
    BY <1>2, <2>2 DEF Byte
  <2>4. Junk \in Byte
    BY DEF Byte
  <2> QED BY <2>1, <2>3, <2>4 DEF Source
<1>4. TypeOK'
  BY <1>0, <1>1, <1>3 DEF WriteSome, TypeOK
<1>5. /\ Len(echoed'[c]) = Len(echoed[c]) + 1
      /\ echoed'[c][Len(echoed[c]) + 1] = b
      /\ \A k \in 1..Len(echoed[c]) : echoed'[c][k] = echoed[c][k]
      /\ \A d \in Client : d # c => echoed'[d] = echoed[d]
  BY <1>0, <1>1, <1>3 DEF TypeOK
<1>6. EchoAccounting'
  <2> SUFFICES ASSUME NEW d \in Client PROVE Accounted(d)'
    BY DEF EchoAccounting, Accounted
  <2>1. Accounted(d)
    BY DEF EchoAccounting, Accounted
  <2> QED BY <1>1, <1>2, <1>5, <2>1, ClientTypes DEF WriteSome, TypeOK, Accounted, InHand
<1>7. EchoUnderWay'
  BY <1>1 DEF WriteSome, TypeOK, EchoUnderWay
<1>8. OneSession'
  BY DEF WriteSome, TypeOK, OneSession, Active
<1>9. BufferHoldsRead'
  BY DEF WriteSome, TypeOK, BufferHoldsRead
<1>10. SoloEchoesOwnBytes'
  <2> SUFFICES ASSUME server \in Solo, NEW d \in Client, NEW k \in 1..Len(echoed'[d])
               PROVE  echoed'[d][k] = <<d, k>>
    BY DEF WriteSome, SoloEchoesOwnBytes, OwnBytes
  <2>1. b = <<c, Len(echoed[c]) + 1>>
    BY <1>1, <1>2 DEF Source, Solo, BufferHoldsRead, WriteSome
  <2>2. CASE d = c
    <3>1. k \in 1..Len(echoed[c]) \/ k = Len(echoed[c]) + 1
      BY <1>1, <1>5, <2>2
    <3>2. \A m \in 1..Len(echoed[c]) : echoed[c][m] = <<c, m>>
      BY DEF SoloEchoesOwnBytes, OwnBytes
    <3> QED BY <1>5, <2>1, <2>2, <3>1, <3>2
  <2>3. CASE d # c
    BY <1>5, <2>3 DEF SoloEchoesOwnBytes, OwnBytes
  <2> QED BY <2>2, <2>3
<1> QED BY <1>4, <1>6, <1>7, <1>8, <1>9, <1>10

\* Every step of clients and server keeps the invariant.
LEMMA StepInv == ASSUME EchoInv, [Next]_vars PROVE EchoInv'
<1>1. CASE Next
  BY <1>1, ClientInv, AcceptErrorInv, AcceptInv, ReadSomeInv, HandlerInv, WriteSomeInv
     DEF Next, Serve
<1>2. CASE UNCHANGED vars
  BY <1>2 DEF vars, EchoInv, TypeOK, EchoAccounting, InHand, EchoUnderWay, OneSession,
              Active, BufferHoldsRead, SoloEchoesOwnBytes, OwnBytes
<1> QED BY <1>1, <1>2

-----------------------------------------------------------------------------
\* The inductive invariant of the echo servers.
THEOREM EchoInvariant == Spec => []EchoInv
<1>1. Init => EchoInv
  BY InitInv
<1>2. EchoInv /\ [Next]_vars => EchoInv'
  BY StepInv
<1> QED BY <1>1, <1>2, PTL DEF Spec

\* Sessions, counters and buffer stay in range in every server, and no read or
\* write goes past the buffer.
THEOREM TypeCorrect == Spec => []TypeOK
<1>1. EchoInv => TypeOK
  BY DEF EchoInv
<1> QED BY <1>1, EchoInvariant, PTL

\* However reads are chunked and writes split, and whatever other sessions do,
\* a session has echoed what it read but for what it has in hand.
THEOREM NoByteLost == Spec => []EchoAccounting
<1>1. EchoInv => EchoAccounting
  BY DEF EchoInv
<1> QED BY <1>1, EchoInvariant, PTL

\* server_single and server_runonce echo to each client its own bytes in order,
\* with any number of clients.
THEOREM OwnBytesEchoed == Spec => []SoloEchoesOwnBytes
<1>1. EchoInv => SoloEchoesOwnBytes
  BY DEF EchoInv
<1> QED BY <1>1, EchoInvariant, PTL

=============================================================================
