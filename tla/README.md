# Verification of conn

TLA+ models of the connection library and trading-engine pieces of this
repository, model-checked with TLC, their safety proved with TLAPS. Paths below
are relative to `src/`.

## 1. The system

| Part | State | Operations | Hard because |
|---|---|---|---|
| `common/RingBuffer` | a file mapped twice, atomic read and write index | `alloc`, `write_buffer`, `advance_write`, `read_buffer`, `advance_read` | two threads; `write_buffer` loads two indices, `advance_read` wraps in two stores |
| `common/GapIdentifier.h` | slots, read/write index, expected and highest number, request flag | `update`, `updateSeqNum[Flush]`, `drainPacket`, `drainAndReplay`, `replayPacket`, flag | packets lost, repeated, reordered; overflow; any order of calls; callbacks |
| echo servers (`server.cpp`, `server_single.cpp`, `server_runonce.cpp`, `common/TcpServerConnection.cpp`, `common/UnixServerConnection.cpp`) | acceptor, sessions, buffer(s) | accept, read, write handlers | handlers of several sessions interleave on shared memory |
| `common/TcpConnection`, `UnixConnection`, `ShmConnection`, `McastConnection` | socket, `m_read_buf` | connect, read loop, `async_write`, close | asynchronous reads and writes under way at close or at each other's completion |
| `common/Url`, factories in `Connection.cpp`, `ServerConnection.cpp` | registry of creators | parse, look up, create | parsing edges |
| `ConnClient`, `ConnServer`, `GWClient`, `GWServer` | owned connection, recursive lock | connect, disconnect, callbacks, send | callbacks of the io thread against calls of the owner |
| `common/Sequencer.h`, `CircularBuffer.h`, `Packet.cpp`, `ReadWriteBuf.h`, `NotifierFd.cpp`, `NotifierQ.h` | counters, arrays, buffers, an eventfd | small sequential classes | boundaries |
| `engine/sm/StateMachine.h` | parent and child order state | Submit, PartialFill, Fill, Cancel | two tables that must stay in step |
| `engine/book` | books per exchange, composite books, configuration | snapshots, aggregation, main loop | multi-step aggregation over books that change |
| utilities, single-file experiments, engine stubs | none of interest | | |

The connections use the ring as their read buffer: an asynchronous read is given
the window of `write_buffer`, its handler logs the bytes at `read_buffer` and
advances both indices. `GapIdentifier` calls its client back through
`GapIdentifierIF`; nothing in the repository implements that interface yet. A
gateway owns a connection through `ConnClient`/`ConnServer`. The book engine
maps (exchange, symbol) to the streams each snapshot is applied to.

## 2. Modules

| Module | Models |
|---|---|
| `ByteFifo` | what the ring promises: a bounded queue of bytes |
| `RingIndex` | the `uint32_t` arithmetic of the ring's indices, shared by the next two |
| `RingBuffer` | writer and reader thread on the ring, one action per access to an index |
| `RingBufferProofs` | inductive invariant, safety and refinement of `ByteFifo` |
| `GapIdentifier` | the class under any client, one action per call and per loop iteration |
| `GapFeed` | `GapIdentifier` composed with a feed handler on a lossy channel |
| `GapFeedProofs` | inductive invariants and safety of `GapIdentifier`, then of the composition, with in-order delivery |
| `EchoServer` | the five echo servers with their clients |
| `EchoServerProofs` | inductive invariant, byte accounting and own bytes |
| `StreamConnection` | the four client connections: open, read loop on the ring, writes, close |
| `StreamConnectionProofs` | inductive invariant and safety of all but the Unix one |
| `NPacket` | `put` and `get` of a packet |
| `ConnectionFactory` | `Url` and the creators: from the text of a URL to a connection, or none |
| `Gateway` | `ConnClient`, `GWClient`, `ConnServer`, `GWServer` under threads and a dropping io thread; uses the two above |
| `MCGateway` | small URLs, objects and packets for it |
| `GatewayProofs` | inductive invariant of the endpoint, and the round trip of a packet |
| `Sequencer`, `CircularBuffer` | the two classes, as records and operators |
| `Replay` | a publisher with the one, a subscriber with the other, a lossy channel between |
| `ReplayProofs` | inductive invariants of publisher and subscriber, and safety |
| `Orders` | parent and child order machines, any number of orders |
| `OrdersProofs` | inductive invariant and action property |
| `BookUtils` | one step of a sort, insertion into a map, sums: shared by the next three |
| `BookConfig` | `ConfigBook::load`: the streams of a configuration file |
| `BookStream` | the books of a `Stream`, `onSnapshot` and when it leaves an array, as operators |
| `BookEngine` | `main`: load, create and register the streams, apply snapshots |
| `MCBook` | small files and snapshots for it |
| `BookEngineProofs` | inductive invariant of the engine, safety, and what its loops compute |

**RingBuffer.** Variables carry the fields' names; `wpc`/`rpc` are where each
thread stands between accesses, `w_read` is `write_buffer`'s local `read_idx`.
A run starts after a successful `alloc`. `m_buf` is the file (one copy of the
bytes), so both mappings show it by construction, as the two `MAP_SHARED`
mappings of `alloc` do. `Contents` reads
the queue off the indices; while a wrap is half done, the write index counts as
already moved (`Settled`).

**GapIdentifier.** A packet is its sequence number; `m_array` holds what
`m_seq_num` of each slot holds. `result`, `gap` and `replayed` record what the
current step returned or passed to the client and say nothing of the past. Every
argument is enumerated from 0 on, 0 being the number of a clear slot. A payload
belongs to one of four size classes, because the guard of `update`
compares with the whole `SeqPacket` while the copy goes to `m_obj`.

**GapFeed.** The handler is the environment: it processes packets in sequence,
passes others to `update`, and when a recovery is answered processes what it
still lacks, then calls `drainPacket` and `replayPacket`.

**EchoServer.** `server` says which program it is and never changes. Moving the
bytes of an operation and running its handler are separate steps, as in asio;
between them other sessions are served. The copy that `TcpServerConnection`
echoes is uninitialised memory, which may or may not hold the right byte.

**StreamConnection.** `reads` are the windows of the reads under way, `done` the
completions whose handler is still to run. The write side only counts writes; one
that is started on a socket not open fails at once. `kind` is the class of the
connection. Shared memory is opened. The socket of a `McastConnection` is open
and bound from its constructor on, so that the second `bind` of `join_group`
throws before the first read is started; the owner starts the loop with
`async_read`. `leave_group` throws too: it leaves the address the socket is bound
to. The `do_close` of these two kinds does nothing.

**Gateway.** A thread takes the lock when it enters a call and holds it over the
steps between a test of the pointer and its use; `on_disconnect` runs in between
without the lock. `dropped` are the threads inside a call when it took the
pointer away. `status` says what null pointer the process has used, after which
nothing happens any more. What `on_disconnect` calls then (`on_client_disconnect`,
`m_close_cb`) is the owner's and not in the repository. `send_packet` is one step per field, so that
only the lock keeps two messages out of one `m_packet`. The free `put` functions
have no `return`: what `serialize_packet` sees of them is any Boolean, and so is
the result of `send_packet` for a packet the connection refuses. `GWServer.h` is
included by no file and does not compile: `m_connection` is read as `m_conn`,
and `m_packet.clear()`, which `NPacket` lacks, as `reset_read`. `by` and `whole`
of a sent packet record whose fields are in it and whether all found room.

**ConnectionFactory.** A URL is given in its parts; cutting the text at "://",
':' and ',' is described at the head of the module. A `unix` URL has the type
of TCP, as in the code. The constructor of `McastConnection` opens and binds a
socket, which may throw (`opened`).

**NPacket.** A cell of a packet is a number; a string is put up to its first NUL
(`strlen`) and its length as 16 bits.

**Replay.** The two classes are the repository's; that a publisher keeps its
packets in one and a subscriber checks them with the other is how their comments
and fields suggest they be used, and is external. `asks` counts the requests for
each number, since every packet behind a gap asks again; `replayed` counts how
often a payload went out again, and `empty` has the numbers that were found
without one.

**Orders.** The tables are sets of rows. The Boost back end runs a row's action,
which forwards the event to the child, before it changes the state. `build`
chooses what the `assert(false)` of `no_transition` does. `StateMachine.h` does
not compile as committed (the `};` that closes `ParentOrderStateMachine_` before
line 117 is missing) and no file includes it; the model reads it as if the brace
were there. `example/test_sm.cpp` is a light switch and not about orders.

**BookStream.** A computed price is kept as size and cost (their quotient is the
price), which leaves out the rounding of doubles and nothing else. The loops a
property is about are recursive functions of the number of rounds done, so that
they can be proved about; what they do not reset is kept in the record. The books
are arrays of fixed length (`Depth` 100, `BookDepth` 20, `FullDepth` 10 in the
code) that no loop checks its index against. `Overruns` says when a call of
`onSnapshot` leaves one; such a call ends the model (`Overrun` of `BookEngine`),
because what the program does from there is undefined. Tiers and sizes are
natural numbers, and a level of a snapshot has a size: the code reads a negative
tier as well and does not look at it. Levels of one price and size keep their
order in the sweepable books; `std::sort` does that up to 16 of them only.
`StoreSnapshot` of `BookEngine` stands for code the repository lacks: nothing
fills the maps of snapshots that `onSnapshot` aggregates, so without it every
book stays empty.

Definitions named as slips ("Slip: ...") stand before the definition they vary;
they are what the properties are tested against and no specification uses them.

## 3. Runs

| Run | Configuration | Shows |
|---|---|---|
| `ring` | capacity 4, two byte values, one spare byte | the ring is a byte queue, windows stay in the mapping and free of unread bytes, `write_buffer` returns |
| `ring_race` (violation) | as above, no spare byte, capacity 3 | a full ring that wraps between the two loads is offered as empty |
| `gap` | 2 slots, numbers 0..4, `MAX_SEQ`, client may refuse gaps | sorted, clean buffer, ordered replays, loops end, under any calls |
| `gap_feed` | 2 slots, numbers 1..6, `MIN_SEQ`, client takes every gap | in order and once; every gap is fetched; what was buffered is delivered |
| `echo` | 2 clients, 2 bytes each, buffer of 2, all servers | byte accounting, own bytes for one-session servers, waiting clients served |
| `echo_mixed` (violation) | the same, `server.cpp` | clients get each other's bytes |
| `stream` | TCP, shared memory and multicast, capacity 3, 7 bytes, 2 writes | one read at a time, whole windows, log equals stream, what arrives is logged |
| `stream_unix` (violation) | the same, Unix | on an open connection, bytes lost to the read that `handle_write` starts |
| `gateway` | 2 threads, 11 URLs, 2 packets sent, 2 connections | one packet holds one message and is read as it was put; a server's call uses a null pointer only if the io thread took the pointer from that call |
| `replay` | 3 places, 5 packets, 4 calls of `isInSeq`, 1 reset | only calls without callback pass over a number; what `find` finds is the packet asked for; a payload is sent again once |
| `orders` | 3 orders, both builds | child and parent agree but after a fill in one go; final states stay |
| `book` | 6 files, 2 exchanges, 2 snapshots stored, 2 applied, until an array is left | every stream is given what its configuration names, as often; composite books are in ascending order and complete; bid tiers take exactly their units from them; final bid prices lie inside the swept book |

**Bounds.** The ring at capacity 4 is filled, emptied and wrapped at every
offset, with the writer's stale copy from before and after each wrap; `IdxMod`
only has to exceed twice the capacity (the indices never pass it, which is
proved), so 16 stands for 2^32. Two slots with six numbers make the array go
round three times, fill, overflow and hold a second gap behind the first. Two
clients suffice for every interference on one array: each session sees the
others only through it. Seven bytes over a capacity of three wrap the ring of a
connection twice. In `gateway` two threads and one drop give every overlap of a
call with the clearing of the pointer; `LenMod` 4 stands for 2^16, so that an
array of five cells has a length that does not fit, and a packet of 12 cells is
too small for one of the objects. Five packets in a buffer of three wrap the
write index and go on, and four calls see a gap twice and its answer. One order
of `orders` goes through all its states; the others are there because an
assertion in one ends all. In `book`, two snapshots stored before, between and
after two rounds, each applied up to three times, meet the unreset counts. The
capacities are chosen to be passed: `Depth` 8 stands for 100 and is left by
repeated merges, `BookDepth` 2 and `FullDepth` 2 stand for 20 and 10 and are less
than the three tiers of one file. Every disjunct of `Overruns` is reached.

**Fairness.** In `RingBuffer` a thread inside a call of the class goes on; no
caller has to make another call. In `GapIdentifier` a started loop is run to its
end by its thread. In `GapFeed` also a recovery is answered in the end; no packet
has to arrive. In `EchoServer` the io thread serves what can complete, and a
client hangs up in the end (an assumption on clients, needed for
`server_single`, where the next one waits for that). In `StreamConnection` the
io thread moves what has arrived and runs the handlers of what has completed.
The other specifications are checked for safety only and state no fairness: no
loop of theirs waits for another party.

Deadlock checking is off where the system may come to rest: all clients gone,
all bytes arrived, all packets delivered.

## 4. Proofs

`RingBufferProofs` (for every capacity, every set of bytes and every index
width over twice the capacity) proves type correctness, `WindowsInsideMapping`,
`OfferIsFree` and the refinement `IsFifo`. All assume `Spare >= 1`: the writer
leaves at least one byte of a window unused, so the ring is never exactly full.
`ring_race` shows that the assumption is needed. The safety properties are not
inductive: a writer between its two loads holds a read index that may be from
before a wrap. `RingInv` adds where the indices may stand in each phase of the
wrap (`IndexOK`), which stale copies are possible and what the loop does with
each (`StaleReadOK`), and that an offered window stays valid whatever the
reader does meanwhile (`OfferOK`). The refinement follows from what a window of
the ring is before and after each step (`WindowPut`, `WindowGet`,
`FillKeepsContents`).

`GapFeedProofs`, first part (for every size, policy, range of numbers and answer of
the client) proves type correctness, `BufferSorted`, `FreeSlotsClear` and
`ReplaysAscend`, for callers whose payloads fit `m_obj` or are refused
(`"over" \notin Sizes`). `GapInv` adds that the write index is bounded by the
highest number seen, so it does not pass 2^32 before the numbers do; the core is
the arithmetic of `get_index` (indices closer than `Size` name different slots,
`Size` apart the same) and what storing, overwriting and freeing do to the
window.

`OrdersProofs` (for every set of orders) proves `ChildFollowsParent` and
`FinalStays`. The invariant is the first together with `TypeOK`. The argument is
about the tables: wherever parent and child agree, a row of the parent that
forwards an event meets a row of the child that leads to the agreed state
(`RowsAgree`), the fill of a pending order being the only one without
(`OnlyFillIsMissed`); no row leaves a final state (`NoRowFromFinal`), and only a
new order has a row for Cancel (`NoLateCancel`).

`GapFeedProofs`, second part (for every buffer size, feed length and policy, on a channel
that loses, repeats and reorders; `"over" \notin Sizes` as above) proves
`FeedTypeOK`, `InOrderOnce`, `ExpectedIsNext` and `GapWellFormed`, and for a
client that takes on every gap (`Answers = {TRUE}`, the case in which the claim
makes sense) `GapIsBeingFetched`. It builds on `GapInv`. `FeedInv` adds which
loop of the class runs in which state of the handler (`LoopOfHandler`), and that
the buffer holds nothing the application already has unless `drainPacket` is
just removing it (`BufferAhead`): without it, in-order delivery is not
inductive, since `replayPacket` hands out whatever the front of the buffer is.
For `GapIsBeingFetched` the request flag has to survive the whole loop of
`replayPacket` (`FetchInv`); the first attempt, without that, was not inductive.

`EchoServerProofs` (for any clients, buffer size and number of bytes) proves
`TypeOK` and `EchoAccounting` for all five servers and `SoloEchoesOwnBytes` for
the ones with one session at a time. `EchoInv` adds that an echo under way has
bytes left to move (`EchoUnderWay`), that these servers have one session
(`OneSession`), and that until its echo is done, what the session read is in the
buffer (`BufferHoldsRead`), which is just what `server.cpp` lacks.

`StreamConnectionProofs` (for every capacity, number of bytes and writes, and
all kinds of connection but Unix, `"unix" \notin Kinds`) proves `TypeOK`,
`NextWindowIsWhole`, `OneReadAtATime` and `LogIsStream`. `StreamInv` adds that no
read is started before the connection is made (`QuietBefore`), that a read was
given the ring at its write index (`ReadIsOfRing`), and that the bytes of a read
whose handler is still to run are in the ring and next in the stream
(`RingHoldsDone`, `Counts`). `stream_unix` shows that the
hypothesis is needed.

`ReplayProofs` (for every size of the buffer, any number of packets, calls and
resets; no hypothesis) proves `SkipsOnlyWithoutCallback`, `FoundIsRecent` and
`PayloadGoesOutOnce`. `PublisherInv` says which packet is in which slot
(`SlotsInOrder`) and whether its payload is still there (`PayloadsKept`);
`SubscriberInv` that everything accepted is below the expected number
(`AcceptedBelow`), without which a repeated packet could pass for a new one.

`GatewayProofs` (for any threads, URLs and messages, every packet size, length
modulus and size of `size_t`) proves `TypeOK`, `OnePacketOneMessage`,
`NullOnlyAfterDrop` and `ReadAsPut`. `GatewayInv` has three parts: the lock
excludes (`LockInv`: a pointer that was tested under the lock is there or was
taken from this very call); `m_packet` is, field by field, the encoding of what the
thread inside has put so far (`PacketInv`); everything sent is the encoding of
its fields (`SentInv`). `OnePacketOneMessage` alone is not inductive: it says
nothing of a packet half filled. `ReadAsPut` then is a fact about packets
(`RoundTrip`): `put` adds one chunk or nothing (`PutFacts`), the chunks of a
whole message lie one behind the other (`ChunksLie`), `get` of a field whose
chunk lies at the index gives the field back and moves behind the chunk, unless
it is an array too long (`GetReadsChunk`).

`BookEngineProofs` (for any files, snapshots, number of exchanges, and any
capacities of the books) proves `TypeOK`, `DispatchedPerMention`,
`BidTiersCutLevels`, `FinalInsideSweep` and `MergeSortsAll`. Its only hypothesis
is what a file and a snapshot are (`InputAssumption`). The theorems speak of the
program up to the first call that leaves an array; with the code's own constants
that may be the first full merge (section 5). They say nothing about whether or
when that happens, and nothing about what follows.

None of the five is inductive. The number of calls of `onSnapshot` a stream has
had has to be tied to the messages (`Due`), and the books to the configuration
they were made with. `BookInv` is that, together with `StreamOK(st, c)`: what a
stream of configuration `c` is after any number of calls that left no array. The
argument is one lemma per loop:

- registration: `Register` adds a stream to one key once (`RegisterStep`), the
  four lists of a stream add it as often as they name the exchange
  (`RegisterStreamFacts`), all streams together give the map
  (`RegisterAllFacts`), and a message goes to a stream as often as it is
  mentioned (`TargetFacts`, `DueRaised`);
- `load`: whatever element throws, the configurations left are of elements that
  did not (`LoadFacts`), with sorted tiers (`LevelVecSorted`);
- merge: `insertion_sort` gives back the same levels, as often, in order
  (`InsertFacts`, `InsertionSortFacts`, `MergeSide`);
- tiers: after `i` levels every tier reached has the sum of its first units
  (`Filled`, `FillStep`, `BidTiersFacts`), where the units of a book are laid
  out one by one (`UnitsFacts`, `SumOfUnits`);
- sweep: what is taken from a venue keeps a price of the book and a size that is
  not 0, however levels are cut (`Swept`, `SweepStep`), and an average lies
  between (`AverageInside`); later tiers cut sizes and no price
  (`InsideSamePrices`);
- a round: the targets are served one after the other, a stream perhaps several
  times, up to a call that leaves an array (`CallKeeps`, `OnSnapshotsKeeps`).

`Encoding` and `Decoding` of `NPacket` and the loops of the book engine are
recursive functions over data of any length. The library's induction theorems
take an operator and cannot be used here, so `GatewayProofs` and
`BookEngineProofs` prove induction for sets of numbers, from the fact that a set
of naturals has a least element (`LeastNatural`, `Induction`), and with it that
the recursive functions exist (`Recursion`).

Only model-checked:

- the liveness properties, which need fairness and `ENABLED`;
- `UnixConnection`, excluded by hypothesis because the properties fail, and
  payloads between the two sizes in `GapIdentifier`.

## 5. Seen in the code

Beside the three violations, of which `PROJECT.json` has the details, the models
show the following as the code has it; the properties are stated around it and
do not catch it.

- `GapIdentifier::update` calls a packet from inside the gap a duplicate when a
  later one is in the buffer, though it was never seen.
- `main` of the book engine takes `ConfigBook::load`'s `true` for a failure:
  only files with an error in a later stream are run.
- `Stream::onSnapshot` never stores the snapshot it is given. The loop over the
  asks compares tiers with `bid.size`. The full-amount prices start at the maximum
  and only a higher one replaces them: none is ever set. The same is true of the
  asks of the final book. A level larger than what a tier misses is averaged whole
  and does not count, so a final bid need not have the size of its tier.
- The bids are not "with best prices" (`Stream.h:436`): `insertion_sort` is
  ascending for both sides, so a bid tier averages the lowest bids, and levels of
  earlier merges with them.
- No loop over the books compares an index with their size. The counts of the
  composite book are never reset and `main` loops for ever: 12 exchanges of 20
  levels pass its 100 at the first full merge. More than 20 tiers leave the order
  book and the final book, more than 10 the full-amount book.
- `Url.h:31-35` gives `tcp`, `unix`, `shm` and `chr` URLs as examples, but
  `ConnClient::connect` deletes every connection that is not open at once: all but
  multicast. A `unix` URL is taken for TCP and without a port gives a null
  pointer. A creator's null pointer is logged and then used. A second `connect`
  neither closes nor deletes the first connection.
- `McastConnection::join_group` and `leave_group` always throw.
- `ConnServer::on_disconnect` clears the pointer without the lock: a call that has
  tested it may use a null pointer.
- Nothing sets `m_logged_in` of `GWClient`: it sends nothing.
- An array of 65536 bytes or more in a packet is written in full behind a length
  of 16 bits: what follows it cannot be read.
- `CircularBuffer::find` searches below the write index only: of the last N packets
  it finds those stored since the index was last 0, none when it has just wrapped.
  The loop over the rest is commented out ("search from 0 to write and read to
  end", `CircularBuffer.h:83`).
- `Sequencer::isInSeq` with `callback_needed` false accepts a packet behind a gap
  without noting the gap; what was lost counts as a duplicate from then on.
- An order filled in one go leaves its child `New`, or ends a debug build.
- `server_single` ends after a failed write or accept, with clients in the backlog;
  `server_runonce` serves one client only.

## 6. Left out

- The numbers of `GapIdentifier` stay below 2^32, so `m_read_index <
  m_write_index` is never evaluated across the wrap of the indices.
- Memory below the language: stack frames damaged by a read into a local array
  are shown only as wrong bytes. `TcpConnection::connect` and others end
  without a return value; their callers ignore it.
- What is sent by `async_write`, its partial progress and the life of the
  caller's buffer.
- `alloc` and its failures, `free`, the event descriptor and `NotifierFd`.
- Calls of a `GapIdentifier` from inside its own callbacks.
- A second `connect` or `open` of a connection, and an `async_read` of the owner
  while the loop runs, which would start a second one: nothing in the repository
  does either.
- What the book engine does after a call that left an array; negative tiers; the
  order `std::sort` gives to equal levels beyond 16.
- `m_packet_num`, timestamps and message types of the gap buffer, which choose
  between overloads of the client's callback.
- The registry of `ServerConnection`, whose lookup is inverted so that nothing
  is ever registered; the destructors of clients and servers, and handlers that
  run after them; `get_connection`, which reads the pointer without the lock; the
  owner's `on_client_disconnect` and `m_close_cb`;
  `GWClient::on_packet`, whose body is commented out; the sender endpoint that
  `McastConnection` gives to a read and that has gone out of scope.
- `ReadWriteBuf` and `PriceCompare`, which do not compile and are used by
  nothing; the XML library; printing; the rounding of doubles.
- Utilities (`Timepoint`, `Operators`, logging), the single-file experiments and
  the engine stubs.

## 7. What could come next

1. `alloc` and `free` of the ring with `NotifierFd`: one of several steps
   failing, and a ring that is allocated again.
2. Destruction: no handler runs on a deleted connection.
3. The asks of the book engine, once the code fills their tiers from their own
   sizes: the lemmas about the bids carry over.
