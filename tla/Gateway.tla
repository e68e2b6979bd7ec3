------------------------------ MODULE Gateway -------------------------------
(***************************************************************************)
(* common/ConnClient, GWClient, ConnServer and GWServer: one endpoint,     *)
(* used by several threads under one recursive lock, and by the io thread  *)
(* without it.  m_conn is the connection in use (0 is nullptr; GWServer    *)
(* names it m_connection), an index into conns, the connections created.   *)
(*                                                                         *)
(* GWServer::send_packet is one step per put: two threads that both were   *)
(* in it would share m_packet.  The free functions put fall off their end, *)
(* so the result that serialize_packet tests is any Boolean.  What         *)
(* Connection::add_listener returns and when a listener is called is not   *)
(* in the repository: any result, any time.                                *)
(***************************************************************************)
EXTENDS NPacket, ConnectionFactory, FiniteSets

CONSTANTS Threads, Urls,
          Objects,     \* fields of an object given to send(const T&)
          UserPackets, \* fields a caller put into the packet of send(NPacket*)
          MaxSent, MaxConns  \* bounds: packets sent, connections created

Free == "free"
Running == "running"

ASSUME ThreadsAssumption == Free \notin Threads
ASSUME FieldsAssumption == Objects \subseteq Seq(Field) /\ UserPackets \subseteq Seq(Field)
ASSUME BoundsAssumption == MaxSent \in Nat /\ MaxConns \in Nat

VARIABLES side,      \* "client" or "server"
          m_lock,    \* the thread that holds the lock, or Free
          pc,        \* per thread: "idle", or where it is while it holds the lock
          msg, nput, \* per thread: the fields of its message; how many were put
          ret,       \* per thread: what its last call came to
          m_conn, conns,
          m_packet,  \* the packet of send_packet
          putters,   \* threads that put into m_packet since it was cleared
          whole,     \* every put since then found room
          sent,      \* packets given to the connection, with what they stand for
          dropped,   \* threads from whose call on_disconnect took the pointer
          status     \* Running, or what the process died of

packetVars == <<m_packet, putters, whole>>
vars == <<side, m_lock, pc, msg, nput, ret, m_conn, conns, packetVars, sent, dropped, status>>

Init ==
  /\ side \in {"client", "server"}
  /\ m_lock = Free
  /\ pc = [t \in Threads |-> "idle"] /\ msg = [t \in Threads |-> <<>>]
  /\ nput = [t \in Threads |-> 0]
  /\ ret = [t \in Threads |-> "none"]
  /\ conns = IF side = "server" THEN <<[class |-> "TcpConnection", open |-> TRUE]>>
                                ELSE <<>>
  /\ m_conn = Len(conns)
  /\ m_packet = NewPacket /\ putters = {} /\ whole = TRUE
  /\ sent = <<>> /\ dropped = {} /\ status = Running

\* Slip: the lock is not waited for.
LockUnguarded(t) == m_lock' = m_lock

\* RecursiveLock: its constructor, and its destructor at the end of the scope.
Lock(t) == m_lock \in {Free, t} /\ m_lock' = t
Unlock(t) == m_lock' = Free

is_connected == m_conn # 0

\* A call begins; is over within one step; goes on with the lock; returns.
Begins(t) == status = Running /\ pc[t] = "idle"
Atomic(t, result) == /\ m_lock = Free
                     /\ ret' = [ret EXCEPT ![t] = result]
                     /\ UNCHANGED <<m_lock, pc, msg, nput, dropped>>
Enters(t, at, fields) == /\ Lock(t)
                         /\ pc' = [pc EXCEPT ![t] = at]
                         /\ msg' = [msg EXCEPT ![t] = fields]
                         /\ UNCHANGED <<nput, ret, dropped>>
Returns(t, result) == /\ Unlock(t)
                      /\ pc' = [pc EXCEPT ![t] = "idle"]
                      /\ msg' = [msg EXCEPT ![t] = <<>>]
                      /\ nput' = [nput EXCEPT ![t] = 0]
                      /\ ret' = [ret EXCEPT ![t] = result]
                      /\ dropped' = dropped \ {t}

\* close and do_close: those of multicast and shared memory are empty.
Closed(c) == IF c.class \in {"McastConnection", "ShmConnection"} THEN c
             ELSE [c EXCEPT !.open = FALSE]

-----------------------------------------------------------------------------
\* ConnClient::connect: a URL that does not parse throws, and so may a
\* constructor; a creator's nullptr is logged and then used; a connection not
\* open is deleted; a second one replaces the first, which is neither closed nor
\* deleted.
connect(t, url, opened, listened) ==
  /\ side = "client" /\ Begins(t) /\ Len(conns) < MaxConns
  /\ LET u == parse(url)
         class == Creator(u, opened)
     IN  IF ~u.ok \/ class = Thrown
         THEN /\ Atomic(t, "throw")
              /\ UNCHANGED <<m_conn, conns, status>>
         ELSE IF class = None
         THEN /\ Atomic(t, "none")
              /\ m_conn' = 0 /\ status' = "null_connect"
              /\ UNCHANGED conns
         ELSE IF ~listened \/ ~OpenWhenCreated(class)
         THEN /\ Atomic(t, "false")
              /\ m_conn' = 0
              /\ UNCHANGED <<conns, status>>
         ELSE /\ Atomic(t, "true")
              /\ conns' = Append(conns, [class |-> class, open |-> TRUE])
              /\ m_conn' = Len(conns')
              /\ UNCHANGED status
  /\ UNCHANGED <<side, packetVars, sent>>

\* ConnClient::disconnect.
clientDisconnect(t) ==
  /\ side = "client" /\ Begins(t)
  /\ Atomic(t, "void")
  /\ conns' = IF is_connected THEN [conns EXCEPT ![m_conn] = Closed(@)] ELSE conns
  /\ m_conn' = 0
  /\ UNCHANGED <<side, packetVars, sent, status>>

\* GWClient::send of either kind: m_logged_in is false from the constructor
\* on, and nothing sets it.
clientSend(t) ==
  /\ side = "client" /\ Begins(t)
  /\ Atomic(t, "false")
  /\ UNCHANGED <<side, m_conn, conns, packetVars, sent, status>>

-----------------------------------------------------------------------------
\* Slip: the pointer is used without a test.
connectedAnyway == TRUE

\* The test of m_conn that ConnServer::disconnect begins with.
connectedTest == is_connected

\* ConnServer::disconnect: the test, then the use of the same pointer.
disconnect(t) ==
  /\ side = "server" /\ Begins(t)
  /\ IF connectedTest THEN Enters(t, "close", <<>>) ELSE Atomic(t, "void")
  /\ UNCHANGED <<side, m_conn, conns, packetVars, sent, status>>

disconnectClose(t) ==
  /\ status = Running /\ pc[t] = "close"
  /\ IF is_connected
     THEN /\ conns' = [conns EXCEPT ![m_conn] = Closed(@)]
          /\ m_conn' = 0
          /\ Returns(t, "void")
          /\ UNCHANGED status
     ELSE /\ status' = "null_close"
          /\ UNCHANGED <<m_lock, pc, msg, nput, ret, conns, m_conn, dropped>>
  /\ UNCHANGED <<side, packetVars, sent>>

\* ConnServer::on_disconnect, on the io thread, without the lock.  What it calls
\* then, on_client_disconnect and m_close_cb, are the owner's: nothing in the
\* repository defines them.
on_disconnect ==
  /\ side = "server" /\ status = Running
  /\ m_conn' = 0
  /\ dropped' = IF is_connected THEN {t \in Threads : pc[t] # "idle"} ELSE dropped
  /\ UNCHANGED <<side, m_lock, pc, msg, nput, ret, conns, packetVars, sent, status>>

-----------------------------------------------------------------------------
\* What serialize_packet puts: service, type of message, object, time.
serialized(obj) ==
  <<[kind |-> "T", v |-> <<0>>], [kind |-> "T", v |-> <<1>>]>> \o obj
    \o <<[kind |-> "T", v |-> <<2>>]>>

\* GWServer::send_packet up to serialize_packet; clear() empties m_packet.
send_packet(t, obj) ==
  /\ side = "server" /\ Begins(t) /\ Len(sent) < MaxSent
  /\ IF is_connected
     THEN /\ Enters(t, "put", serialized(obj))
          /\ m_packet' = reset_read(m_packet) /\ putters' = {} /\ whole' = TRUE
     ELSE /\ Atomic(t, "false")
          /\ UNCHANGED packetVars
  /\ UNCHANGED <<side, m_conn, conns, sent, status>>

\* One put of serialize_packet, with the result it is taken to have.
serialize_packet(t, result) ==
  /\ status = Running /\ pc[t] = "put" /\ nput[t] < Len(msg[t])
  /\ LET r == Put(m_packet, msg[t][nput[t] + 1])
     IN  /\ m_packet' = r.p
         /\ whole' = (whole /\ r.ok)
  /\ putters' = putters \cup {t}
  /\ IF result
     THEN nput' = [nput EXCEPT ![t] = @ + 1] /\ UNCHANGED <<m_lock, pc, msg, ret, dropped>>
     ELSE Returns(t, "false")
  /\ UNCHANGED <<side, m_conn, conns, sent, status>>

\* m_connection->send_packet, of m_packet or of the packet of a caller: it takes
\* the packet, or refuses it and the call returns one of refused.
Hand(t, packet, refused) ==
  /\ status = Running
  /\ IF is_connected
     THEN /\ \/ Returns(t, "true") /\ sent' = Append(sent, packet)
             \/ \E r \in refused : Returns(t, r) /\ sent' = sent
          /\ UNCHANGED status
     ELSE /\ status' = "null_send"
          /\ UNCHANGED <<m_lock, pc, msg, nput, ret, sent, dropped>>
  /\ UNCHANGED <<side, m_conn, conns, packetVars>>

\* A refused packet leaves send_packet without a result.
sendSerialized(t) ==
  /\ pc[t] = "put" /\ nput[t] = Len(msg[t])
  /\ Hand(t, [p |-> m_packet, fields |-> msg[t], by |-> putters, whole |-> whole],
          {"true", "false"})

\* GWServer::send(NPacket*); no fields at all stand for a null pointer.
send(t, fields) ==
  /\ side = "server" /\ Begins(t) /\ Len(sent) < MaxSent
  /\ IF fields # <<>> /\ is_connected THEN Enters(t, "send", fields)
                                      ELSE Atomic(t, "false")
  /\ UNCHANGED <<side, m_conn, conns, packetVars, sent, status>>

\* The fields put one after the other into a new packet.
Encoded(fields) == Encoding(fields)[Len(fields)]

sendUser(t) ==
  /\ pc[t] = "send"
  /\ LET e == Encoded(msg[t])
     IN  Hand(t, [p |-> e.p, fields |-> msg[t], by |-> {t}, whole |-> e.whole], {"false"})

Next == \/ on_disconnect
        \/ \E t \in Threads :
             \/ \E url \in Urls, opened, listened \in BOOLEAN :
                  connect(t, url, opened, listened)
             \/ clientDisconnect(t) \/ clientSend(t)
             \/ disconnect(t) \/ disconnectClose(t)
             \/ \E obj \in Objects : send_packet(t, obj)
             \/ \E result \in BOOLEAN : serialize_packet(t, result)
             \/ \E fields \in UserPackets : send(t, fields)
             \/ sendSerialized(t) \/ sendUser(t)

Spec == Init /\ [][Next]_vars

-----------------------------------------------------------------------------
\* With it: the lock is held exactly while a thread is inside a call, and no
\* put writes past the buffer of the packet.
TypeOK ==
  /\ side \in {"client", "server"}
  /\ pc \in [Threads -> {"idle", "put", "send", "close"}]
  /\ ret \in [Threads -> {"none", "true", "false", "void", "throw"}]
  /\ \A t \in Threads : m_lock = t <=> pc[t] # "idle"
  /\ \A t \in Threads : nput[t] \in 0..Len(msg[t])
  /\ m_conn \in 0..Len(conns)
  /\ Len(m_packet.buf) <= MaxPacketSize /\ m_packet.m_read_idx = 0
  /\ putters \subseteq Threads /\ whole \in BOOLEAN /\ dropped \subseteq Threads
  /\ status \in {Running, "null_connect", "null_send", "null_close"}

\* A packet that is sent holds the fields of one message, of one thread,
\* although all threads fill the same m_packet, and a message given up half
\* way leaves its fields there.
OnePacketOneMessage ==
  \A i \in 1..Len(sent) :
    /\ Cardinality(sent[i].by) = 1
    /\ sent[i].whole => sent[i].p = Encoded(sent[i].fields).p

\* A field as a reader gets it: a string up to its first NUL, and of strings and
\* arrays as much as 16 bits of the length say.
Carried(f) == CASE f.kind = "T"      -> f.v
                [] f.kind = "string" -> SubSeq(f.v, 1, strlen(f.v) % LenMod)
                [] f.kind = "array"  -> SubSeq(f.v, 1, Len(f.v) % LenMod)

\* The reader of a packet in which every field found room gets what was put,
\* up to and with the first array of 2^16 bytes or more; behind that one it
\* reads the bytes of the array as the next fields.
ReadAsPut ==
  \A i \in 1..Len(sent) :
    sent[i].whole =>
      \A k \in 1..Len(sent[i].fields) :
        (\A j \in 1..k-1 : LET f == sent[i].fields[j]
                           IN  ~(f.kind = "array" /\ Len(f.v) >= LenMod))
        => Decoding(sent[i].p, sent[i].fields)[k].v = Carried(sent[i].fields[k])

\* A server's thread that uses a null pointer had tested it in the same call:
\* on_disconnect, which takes no lock, cleared it in between.  Nothing else
\* does, disconnect of another thread included.
NullOnlyAfterDrop == status \in {"null_send", "null_close"} => m_lock \in dropped

=============================================================================
