----------------------------- MODULE EchoServer -----------------------------
(***************************************************************************)
(* The echo servers, each on one io_context thread: server.cpp,            *)
(* server_single.cpp, server_runonce.cpp, and the server of                *)
(* common/TcpServerConnection.cpp, which is also that of                   *)
(* common/UnixServerConnection.cpp.  A client's session alternates one     *)
(* asynchronous read with one asynchronous write of what was read.  The    *)
(* servers differ in when they accept and in the buffer they echo from:    *)
(*                                                                         *)
(*   server               accepts at any time; one array for all sessions  *)
(*   TcpServerConnection  accepts at any time; reads into a local array    *)
(*                        that is gone when the read completes, and echoes *)
(*                        a copy of it taken before it was written         *)
(*   server_single        accepts again when the one session had a read    *)
(*                        error; one array                                 *)
(*   server_runonce       accepts again at once, into the same socket,     *)
(*                        which the library refuses as long as it is open: *)
(*                        it never closes it; one array                    *)
(*                                                                         *)
(* The library moves the bytes of an operation and runs its handler as two *)
(* steps, between which it may serve other sessions.  Byte number i that   *)
(* client c sends is <<c, i>>.                                             *)
(***************************************************************************)
EXTENDS Integers, Sequences

CONSTANTS Client,
          Servers,   \* the programs the behaviours are about
          BufSize,   \* sizeof buffer_
          MaxBytes   \* bound: bytes a client sends

ASSUME ServersAssumption ==
  Servers \subseteq {"server", "TcpServerConnection", "server_single",
                     "server_runonce"}
ASSUME BoundAssumption == BufSize \in Nat \ {0} /\ MaxBytes \in Nat

VARIABLES server,     \* which program this is; never changes
          accepting,  \* "pending": an accept that can succeed is; "none";
                      \* "failed": given up after an error
          session,    \* where each session stands
          peer_open,  \* the client has not closed its end
          sent, taken,  \* bytes each client sent, and the server read
          length,     \* bytesTransferred of the session's last read
          offset,     \* how much of the current write is done
          buffer_,    \* the server's array
          echoed      \* what each client got back

vars == <<server, accepting, session, peer_open, sent, taken, length, offset,
          buffer_, echoed>>

\* The programs that serve one client at a time.
Solo == {"server_single", "server_runonce"}

Junk == <<>>
Byte == (Client \X (1..MaxBytes)) \cup {Junk}

Init == /\ server \in Servers
        /\ accepting = "pending"
        /\ session = [c \in Client |-> "absent"]
        /\ peer_open = [c \in Client |-> TRUE]
        /\ sent = [c \in Client |-> 0] /\ taken = [c \in Client |-> 0]
        /\ length = [c \in Client |-> 0] /\ offset = [c \in Client |-> 0]
        /\ buffer_ = [i \in 1..BufSize |-> Junk]
        /\ echoed = [c \in Client |-> <<>>]

-----------------------------------------------------------------------------
(* The clients. *)

Connect(c) ==
  /\ session[c] = "absent"
  /\ session' = [session EXCEPT ![c] = "backlog"]
  /\ UNCHANGED <<server, accepting, peer_open, sent, taken, length, offset,
                 buffer_, echoed>>

Send(c) ==
  /\ session[c] # "absent" /\ peer_open[c] /\ sent[c] < MaxBytes
  /\ sent' = [sent EXCEPT ![c] = @ + 1]
  /\ UNCHANGED <<server, accepting, session, peer_open, taken, length, offset,
                 buffer_, echoed>>

PeerClose(c) ==
  /\ session[c] # "absent" /\ peer_open[c]
  /\ peer_open' = [peer_open EXCEPT ![c] = FALSE]
  /\ UNCHANGED <<server, accepting, session, sent, taken, length, offset,
                 buffer_, echoed>>

-----------------------------------------------------------------------------
(* The server. *)

\* Slip: a new accept at once, whatever the server.
KeepsAcceptingAlways == TRUE

\* Is the accept pending again after a client was accepted?
KeepsAccepting == server \notin Solo

\* The accept handler: arm the session's first read, and the next accept.
Accept(c) ==
  /\ accepting = "pending" /\ session[c] = "backlog"
  /\ session' = [session EXCEPT ![c] = "reading"]
  /\ accepting' = IF KeepsAccepting THEN "pending" ELSE "none"
  /\ UNCHANGED <<server, peer_open, sent, taken, length, offset,
                 buffer_, echoed>>

\* The accept handler with an error: server_single only logs it.
AcceptError ==
  /\ accepting = "pending"
  /\ accepting' = IF server = "server_single" THEN "failed" ELSE "pending"
  /\ UNCHANGED <<server, session, peer_open, sent, taken, length, offset,
                 buffer_, echoed>>

\* Slip: the length of the buffer is taken for the number of bytes read.
ReadSomeWholeBuffer(c, n) ==
  /\ session[c] = "reading"
  /\ n <= sent[c] - taken[c] /\ n <= BufSize
  /\ session' = [session EXCEPT ![c] = "read"]
  /\ taken' = [taken EXCEPT ![c] = @ + n]
  /\ length' = [length EXCEPT ![c] = BufSize]
  /\ UNCHANGED <<server, accepting, peer_open, sent, offset, buffer_, echoed>>

\* async_read_some moves n bytes to the front of the buffer.
ReadSome(c, n) ==
  /\ session[c] = "reading"
  /\ n <= sent[c] - taken[c] /\ n <= BufSize
  /\ session' = [session EXCEPT ![c] = "read"]
  /\ taken' = [taken EXCEPT ![c] = @ + n]
  /\ length' = [length EXCEPT ![c] = n]
  /\ buffer_' = IF server # "TcpServerConnection"
                THEN [i \in 1..BufSize |-> IF i <= n THEN <<c, taken[c] + i>>
                                                    ELSE buffer_[i]]
                ELSE buffer_
  /\ UNCHANGED <<server, accepting, peer_open, sent, offset, echoed>>

\* Slip: a terminator is echoed behind the bytes read, as of a string.
HandleReadTerminated(c) ==
  /\ session[c] = "read"
  /\ session' = [session EXCEPT ![c] = "writing"]
  /\ length' = [length EXCEPT ![c] = @ + 1]
  /\ offset' = [offset EXCEPT ![c] = 0]
  /\ UNCHANGED <<server, accepting, peer_open, sent, taken, buffer_, echoed>>

\* The read handler without an error: start the echo.
HandleRead(c) ==
  /\ session[c] = "read"
  /\ session' = [session EXCEPT ![c] = "writing"]
  /\ offset' = [offset EXCEPT ![c] = 0]
  /\ UNCHANGED <<server, accepting, peer_open, sent, taken, length,
                 buffer_, echoed>>

\* The byte at position i of what the echo is given.  An uninitialised copy may
\* hold anything: the right byte by chance, or another, which is Junk here.
Source(c, i) ==
  IF server # "TcpServerConnection" THEN {buffer_[i]}
  ELSE {Junk, <<c, taken[c] - length[c] + i>>}

\* async_write moves the next byte, and is done after the last.
WriteSome(c) ==
  LET i == offset[c] + 1
  IN  /\ session[c] = "writing"
      /\ \E b \in Source(c, i) : echoed' = [echoed EXCEPT ![c] = Append(@, b)]
      /\ offset' = [offset EXCEPT ![c] = i]
      /\ session' = [session EXCEPT ![c] = IF i = length[c] THEN "written" ELSE @]
      /\ UNCHANGED <<server, accepting, peer_open, sent, taken, length,
                     buffer_>>

\* The write handler without an error: read on.
HandleWrite(c) ==
  /\ session[c] = "written"
  /\ session' = [session EXCEPT ![c] = "reading"]
  /\ UNCHANGED <<server, accepting, peer_open, sent, taken, length, offset,
                 buffer_, echoed>>

\* Slip: nobody accepts again.
ReadErrorNoAccept(c) ==
  /\ session[c] = "reading" /\ ~peer_open[c]
  /\ session' = [session EXCEPT ![c] = "closed"]
  /\ UNCHANGED <<server, accepting, peer_open, sent, taken, length, offset,
                 buffer_, echoed>>

\* The read handler with an error: the session is dropped; server_single makes
\* a new socket and accepts into it.
ReadError(c) ==
  /\ session[c] = "reading" /\ ~peer_open[c]
  /\ session' = [session EXCEPT ![c] = "closed"]
  /\ accepting' = IF server = "server_single" THEN "pending" ELSE accepting
  /\ UNCHANGED <<server, peer_open, sent, taken, length, offset,
                 buffer_, echoed>>

\* The write handler with an error only logs it: no read, no accept.
WriteError(c) ==
  /\ session[c] = "writing" /\ ~peer_open[c]
  /\ session' = [session EXCEPT ![c] = "failed"]
  /\ UNCHANGED <<server, accepting, peer_open, sent, taken, length, offset,
                 buffer_, echoed>>

Serve(c) == \/ Accept(c)
            \/ \E n \in 1..BufSize : ReadSome(c, n)
            \/ HandleRead(c)
            \/ WriteSome(c)
            \/ HandleWrite(c)
            \/ ReadError(c)
            \/ WriteError(c)

Next == \/ \E c \in Client : Connect(c) \/ Send(c) \/ PeerClose(c) \/ Serve(c)
        \/ AcceptError

\* run() serves every operation that can complete.  Of the clients it is
\* assumed that they hang up in the end.
Spec == /\ Init /\ [][Next]_vars
        /\ \A c \in Client : WF_vars(Serve(c)) /\ WF_vars(PeerClose(c))

-----------------------------------------------------------------------------
\* With it: no echo is longer than the server's array, or goes on past its end.
TypeOK ==
  /\ server \in Servers /\ accepting \in {"pending", "none", "failed"}
  /\ session \in [Client -> {"absent", "backlog", "reading", "read", "writing",
                             "written", "closed", "failed"}]
  /\ peer_open \in [Client -> BOOLEAN]
  /\ sent \in [Client -> 0..MaxBytes] /\ taken \in [Client -> 0..MaxBytes]
  /\ length \in [Client -> 0..BufSize] /\ offset \in [Client -> 0..BufSize]
  /\ buffer_ \in [1..BufSize -> Byte]
  /\ echoed \in [Client -> Seq(Byte)]

\* Bytes the server has read and not yet echoed.
InHand(c) == IF session[c] = "read" THEN length[c]
             ELSE IF session[c] = "writing" THEN length[c] - offset[c] ELSE 0

\* As many bytes go back as came in: through partial writes, chunked reads and
\* other sessions' traffic no byte of a session is dropped or echoed twice.
EchoAccounting ==
  \A c \in Client : /\ taken[c] <= sent[c]
                    /\ session[c] \notin {"closed", "failed"} =>
                         taken[c] = Len(echoed[c]) + InHand(c)

\* server_single has nothing pending after a failed accept or write: run()
\* returns and the program ends.
Ended == /\ server = "server_single"
         /\ accepting = "failed" \/ \E c \in Client : session[c] = "failed"

\* A client in the backlog is served in the end: by the servers that keep
\* accepting whatever happens to other sessions, and by server_single when the
\* client before it hangs up, unless an accept or a write failed.
WaitingIsServed ==
  \A c \in Client :
    session[c] = "backlog" /\ server # "server_runonce"
      ~> session[c] # "backlog" \/ Ended

\* The bytes a client gets are its own, in the order it sent them.
OwnBytes == \A c \in Client : \A i \in 1..Len(echoed[c]) : echoed[c][i] = <<c, i>>

\* A server of one session at a time echoes to each client its own bytes: no
\* second reader gets at the buffer between a read and the echo of it.
SoloEchoesOwnBytes == server \in Solo => OwnBytes

\* "Echo the data back to the client", also with other clients connected.
EchoesTheData == OwnBytes

=============================================================================
