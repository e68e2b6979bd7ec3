-------------------------- MODULE StreamConnection --------------------------
(***************************************************************************)
(* The client connections of common/: TcpConnection, UnixConnection,       *)
(* ShmConnection and McastConnection (kind "mcp"), on one io_context       *)
(* thread.  The read loop of all four: offer the ring's write window to an *)
(* asynchronous read; when it completes, log the bytes at the ring's read  *)
(* index, advance both indices, offer the next window.                     *)
(*                                                                         *)
(* UnixConnection::handle_write starts one more read, into a local array   *)
(* that is gone when the read completes ("stack").                         *)
(*                                                                         *)
(* The library serves the reads of a socket in the order they were         *)
(* started, moves the bytes of one and runs its handler as two steps, and  *)
(* runs handlers in the order of completion.  Byte number i of the stream  *)
(* is i; 0 is a byte of the ring never written.  What is sent is left out. *)
(*                                                                         *)
(* The owner calls connect or open once, and calls async_read itself only  *)
(* where nothing else starts the loop, on a McastConnection.               *)
(***************************************************************************)
EXTENDS RingIndex, Sequences

CONSTANTS Kinds,
          MaxBytes,  \* bound: bytes that arrive
          MaxWrites  \* bound: calls of async_write

ASSUME KindsAssumption == Kinds \subseteq {"tcp", "unix", "shm", "mcp"}
ASSUME BoundAssumption == MaxBytes \in Nat /\ MaxWrites \in Nat

VARIABLES kind,
          state,      \* "new", "connecting", "open", "joined", "failed", "closed"
          m_buf, m_read_idx, m_write_idx,  \* m_read_buf
          reads,      \* windows of the reads under way, oldest first
          done,       \* bytes_transferred of reads whose handler is still to run
          arrived, taken,  \* bytes that reached the socket; that reads moved
          writes,     \* writes under way, on a socket open when they were started
          written,    \* calls of async_write so far
          log         \* bytes logged as "Received message"

ringVars == <<m_buf, m_read_idx, m_write_idx>>
vars == <<kind, state, ringVars, reads, done, arrived, taken, writes, written, log>>

Init == /\ kind \in Kinds
        /\ state = IF kind = "mcp" THEN "open" ELSE "new"   \* opened when created
        /\ m_buf = [c \in 0..Capacity-1 |-> 0]
        /\ m_read_idx = 0 /\ m_write_idx = 0
        /\ reads = <<>> /\ done = <<>>
        /\ arrived = 0 /\ taken = 0
        /\ writes = 0 /\ written = 0
        /\ log = <<>>

\* write_buffer, called on the thread that also reads.
RingWindow(w, r) == [place |-> "ring", ptr |-> w, len |-> FreeSpace(w, r)]

\* The descriptor is usable.
Reading == state \in {"open", "joined"}

StackWindow == [place |-> "stack", ptr |-> 0, len |-> Capacity]

-----------------------------------------------------------------------------
\* The first read, when the connection is made.
FirstRead(ok) ==
  IF ok THEN /\ state' = "open"
             /\ reads' = Append(reads, RingWindow(m_write_idx, m_read_idx))
        ELSE state' = "failed" /\ UNCHANGED reads

\* connect of TcpConnection and UnixConnection.
connect ==
  /\ kind \in {"tcp", "unix"} /\ state = "new"
  /\ state' = "connecting"
  /\ UNCHANGED <<kind, ringVars, reads, done, arrived, taken, writes, written, log>>

handle_connect(error) ==
  /\ state = "connecting"
  /\ FirstRead(~error)
  /\ UNCHANGED <<kind, ringVars, done, arrived, taken, writes, written, log>>

\* ShmConnection::open: open or mmap fails, or the descriptor is read from.
open(ok) ==
  /\ kind = "shm" /\ state = "new"
  /\ FirstRead(ok)
  /\ UNCHANGED <<kind, ringVars, done, arrived, taken, writes, written, log>>

\* join_group: the socket, bound when it was created, is bound again, which
\* throws.  The group has been joined by then, if set_option did not throw, and
\* no read is started.  leave_group throws as well: it leaves the address the
\* socket is bound to, which is no group.
join_group ==
  /\ kind = "mcp" /\ state = "open"
  /\ state' = "joined"
  /\ UNCHANGED <<kind, ringVars, reads, done, arrived, taken, writes, written, log>>

\* The peer's next byte reaches the socket.
Arrive ==
  /\ Reading /\ arrived < MaxBytes
  /\ arrived' = arrived + 1
  /\ UNCHANGED <<kind, state, ringVars, reads, done, taken, writes, written, log>>

\* The oldest read moves n bytes into its window.
ReadSome(n) ==
  /\ Reading /\ reads # <<>>
  /\ n <= Head(reads).len /\ n <= arrived - taken
  /\ IF Head(reads).place = "ring"
     THEN m_buf' = [c \in 0..Capacity-1 |->
                      IF \E i \in 1..n : c = Cell(Cell(Head(reads).ptr) + i - 1)
                      THEN taken + (CHOOSE i \in 1..n :
                                      c = Cell(Cell(Head(reads).ptr) + i - 1))
                      ELSE m_buf[c]]
     ELSE UNCHANGED m_buf
  /\ taken' = taken + n
  /\ reads' = Tail(reads)
  /\ done' = Append(done, n)
  /\ UNCHANGED <<kind, state, m_read_idx, m_write_idx, arrived, writes, written, log>>

\* The bytes logged as received, n of them from a read index on.
Received(r, n) == [i \in 1..n |-> m_buf[Cell(Cell(r) + i - 1)]]

\* advance_write, then advance_read.
Advanced(n) ==
  LET w == AddU32(m_write_idx, n)
      wraps == Wraps(AddU32(m_read_idx, n))
  IN  [r |-> IF wraps THEN WrappedRead(m_read_idx, n) ELSE AddU32(m_read_idx, n),
       w |-> IF wraps THEN WrappedWrite(w) ELSE w]

\* async_read, with the indices as they are by then.
async_read(idx) == reads' = IF Reading THEN Append(reads, RingWindow(idx.w, idx.r))
                                       ELSE reads

\* McastConnection::async_read, called by the owner: join_group does not get as
\* far as its first read.
StartRead ==
  /\ kind = "mcp" /\ Reading /\ reads = <<>> /\ done = <<>>
  /\ async_read([r |-> m_read_idx, w |-> m_write_idx])
  /\ UNCHANGED <<kind, state, ringVars, done, arrived, taken, writes, written, log>>

\* Slip: the bytes are logged after the read index has moved on.
handle_readLogsLate ==
  /\ done # <<>>
  /\ LET idx == Advanced(Head(done))
     IN  /\ log' = log \o Received(idx.r, Head(done))
         /\ m_write_idx' = idx.w /\ m_read_idx' = idx.r
         /\ async_read(idx)
  /\ done' = Tail(done)
  /\ UNCHANGED <<kind, state, m_buf, arrived, taken, writes, written>>

\* Slip: no next read is started.
handle_readOnce ==
  /\ done # <<>>
  /\ log' = log \o Received(m_read_idx, Head(done))
  /\ done' = Tail(done)
  /\ UNCHANGED <<kind, state, ringVars, reads, arrived, taken, writes, written>>

\* handle_read (handle_recv) without an error.
handle_read ==
  /\ done # <<>>
  /\ LET idx == Advanced(Head(done))
     IN  /\ log' = log \o Received(m_read_idx, Head(done))
         /\ m_write_idx' = idx.w /\ m_read_idx' = idx.r
         /\ async_read(idx)
  /\ done' = Tail(done)
  /\ UNCHANGED <<kind, state, m_buf, arrived, taken, writes, written>>

\* handle_read with an error (the peer is gone): the loop ends.
ReadError ==
  /\ Reading /\ reads # <<>>
  /\ reads' = <<>>
  /\ state' = "failed"
  /\ UNCHANGED <<kind, ringVars, done, arrived, taken, writes, written, log>>

\* TcpConnection and UnixConnection; the others have no async_write.  On a
\* socket that is not open the write fails at once, which is only logged.
async_write ==
  /\ kind \in {"tcp", "unix"} /\ written < MaxWrites
  /\ writes' = IF state \in {"connecting", "open"} THEN writes + 1 ELSE writes
  /\ written' = written + 1
  /\ UNCHANGED <<kind, state, ringVars, reads, done, arrived, taken, log>>

\* Slip: the reply to a write is read here as well as in handle_read.
handle_writeReads(error) ==
  /\ writes > 0 /\ state # "connecting"
  /\ writes' = writes - 1
  /\ reads' = IF ~error /\ state = "open"
              THEN Append(reads, RingWindow(m_write_idx, m_read_idx)) ELSE reads
  /\ UNCHANGED <<kind, state, ringVars, done, arrived, taken, written, log>>

\* A write is done when the socket is connected, or has failed.  An error is
\* only logged, and what is started after the end of the connection fails.
handle_write(error) ==
  /\ writes > 0 /\ state # "connecting"
  /\ writes' = writes - 1
  /\ reads' = IF ~error /\ kind = "unix" /\ state = "open"
              THEN Append(reads, StackWindow) ELSE reads
  /\ UNCHANGED <<kind, state, ringVars, done, arrived, taken, written, log>>

\* do_close ends nothing on shared memory and multicast, where it is empty.
CloseEnds == kind \in {"tcp", "unix"}

\* close and do_close: what is pending is cancelled; the handlers only log.
close ==
  /\ state \in {"connecting", "open", "failed"}
  /\ IF CloseEnds THEN state' = "closed" /\ reads' = <<>> ELSE UNCHANGED <<state, reads>>
  /\ UNCHANGED <<kind, ringVars, done, arrived, taken, writes, written, log>>

IoThread == \/ \E n \in 1..Capacity : ReadSome(n)
            \/ handle_read
            \/ \E error \in BOOLEAN : handle_write(error)

Next == \/ connect
        \/ \E error \in BOOLEAN : handle_connect(error)
        \/ \E ok \in BOOLEAN : open(ok)
        \/ join_group \/ StartRead
        \/ Arrive \/ ReadError \/ async_write \/ close
        \/ IoThread

\* run() moves what has arrived and runs the handlers of what is done.
Spec == /\ Init /\ [][Next]_vars
        /\ WF_vars(\E n \in 1..Capacity : ReadSome(n))
        /\ WF_vars(handle_read)

-----------------------------------------------------------------------------
TypeOK ==
  /\ kind \in Kinds
  /\ state \in {"new", "connecting", "open", "joined", "failed", "closed"}
  /\ m_buf \in [0..Capacity-1 -> 0..MaxBytes]
  /\ m_read_idx \in 0..Capacity /\ m_write_idx \in 0..2*Capacity
  /\ \A i \in 1..Len(reads) :
       reads[i] \in [place : {"ring", "stack"}, ptr : 0..2*Capacity,
                     len : 0..Capacity]
  /\ arrived \in 0..MaxBytes /\ taken \in 0..MaxBytes
  /\ writes \in 0..MaxWrites /\ written \in 0..MaxWrites

\* Between handlers the ring is empty, so the next read is always offered a
\* whole capacity, and that window is inside the double mapping however often
\* the indices have wrapped.
NextWindowIsWhole ==
  /\ m_read_idx = m_write_idx
  /\ \A i \in 1..Len(reads) : /\ reads[i].ptr + reads[i].len <= 2 * Capacity
                              /\ reads[i].len = Capacity

\* One read is under way, or one handler to run: two reads never share a window.
OneReadAtATime == Len(reads) + Len(done) <= 1

\* What is logged as "Received message" is what arrived, in order.
LogIsStream == \A i \in 1..Len(log) : log[i] = i

\* A loop is running that the owner of a McastConnection has to start.
Started == kind = "mcp" => Len(reads) + Len(done) > 0

\* Once the read loop runs, every byte that arrives is logged, unless the
\* connection ends first; close does not end it on shared memory and multicast.
ArrivedIsLogged ==
  \A k \in 1..MaxBytes :
    arrived >= k /\ Started ~> Len(log) >= k \/ state \in {"failed", "closed"}

=============================================================================
