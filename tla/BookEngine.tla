----------------------------- MODULE BookEngine -----------------------------
(***************************************************************************)
(* engine/book/main.cpp: load the configuration, create the streams and    *)
(* the map from exchange and symbol to the streams that want its           *)
(* snapshots, then apply one snapshot after the other.                     *)
(*                                                                         *)
(* The message of a round is a new L2SnapshotLite: its symbol is the empty *)
(* text and its exchange is not initialised, so any.  No code of the       *)
(* repository fills the maps of snapshots of a Stream; StoreSnapshot does  *)
(* it as their types say, a snapshot under the exchange it comes from, so  *)
(* that the aggregation is exercised.                                      *)
(***************************************************************************)
EXTENDS BookStream

CONSTANTS Files,       \* configuration files
          Snapshots,   \* the two sides of the snapshots, levels without venue
          Roles,       \* maps of snapshots that are filled
          MaxName,     \* the names of streams are 1..MaxName
          MaxStores, MaxRounds   \* bounds

EmptySymbol == 0

Count(seq, x) == Cardinality({i \in DOMAIN seq : seq[i] = x})

\* How often the lists of a stream's configuration name an exchange.
Mentions(c, ex) == Count(c.primary, ex) + Count(c.secondary, ex)
                     + Count(c.fullamount, ex) + Count(c.sweepable, ex)

\* An element <stream> of a file.
Element ==
  [name : 1..MaxName, symbol : Nat, primary : Seq(Int), secondary : Seq(Int),
   fullamount : Seq(Int), sweepable : Seq(Int),
   rules : Seq([level : Nat \cup {NaN}, exchanges : Seq(Int)]),
   levels : Seq(Nat \cup {NaN}), complete : BOOLEAN]

\* A level of a snapshot offers something, and has a price.
Offer == [size : Nat \ {0}, price : 0..MaxPrice]

ASSUME InputAssumption ==
  /\ MaxName \in Nat /\ MaxRounds \in Nat
  /\ Files \subseteq Seq(Element)
  /\ Snapshots \subseteq [bid : Seq(Offer), ask : Seq(Offer)]
  /\ Roles \subseteq {"l2order", "l2fullamount", "l2sweepable"}

VARIABLES pc,          \* "start", "exit" (return 1), "building", "running", "overrun"
          xml,
          cfg,         \* ConfigBook: what load returned and str_cfg
          by_key,      \* maps_exchange_stream_ptr
          streams,     \* map_stream_ptr
          stores,      \* snapshots stored so far
          seen,        \* messages of each exchange so far
          applied      \* calls of onSnapshot of each stream so far

vars == <<pc, xml, cfg, by_key, streams, stores, seen, applied>>

Key(symbol, ex) == <<symbol, ex>>

Init == /\ pc = "start"
        /\ xml \in Files
        /\ cfg = [result |-> FALSE, str_cfg |-> <<>>]
        /\ by_key = <<>> /\ streams = <<>>
        /\ stores = 0
        /\ seen = [ex \in EXCHANGE |-> 0]
        /\ applied = <<>>

\* Slip: a key that is in the map keeps the vector it has.
RegisterNew(map, name, key) ==
  IF key \in DOMAIN map THEN map ELSE MapInsert(map, key, <<name>>)

\* Find the key, push the stream back; or put a vector of one.
Register(map, name, key) ==
  IF key \in DOMAIN map THEN [map EXCEPT ![key] = Append(@, name)]
                        ELSE MapInsert(map, key, <<name>>)

\* The four loops over the exchanges of one stream.
RegisterStream(map, name, c) ==
  LET exs == c.primary \o c.secondary \o c.fullamount \o c.sweepable
      after[i \in 0..Len(exs)] ==
        IF i = 0 THEN map ELSE Register(after[i - 1], name, Key(c.symbol, exs[i]))
  IN  after[Len(exs)]

\* The streams are created in the order of str_cfg, that of their names.
RegisterAll(str_cfg) ==
  LET after[n \in 0..MaxName] ==
        IF n = 0 THEN <<>>
        ELSE IF n \in DOMAIN str_cfg THEN RegisterStream(after[n - 1], n, str_cfg[n])
        ELSE after[n - 1]
  IN  after[MaxName]

\* load, and the test of what it returns: true is taken for a failure.
Load ==
  /\ pc = "start"
  /\ cfg' = load(xml)
  /\ pc' = IF cfg'.result THEN "exit" ELSE "building"
  /\ UNCHANGED <<xml, by_key, streams, stores, seen, applied>>

CreateStreams ==
  /\ pc = "building"
  /\ by_key' = RegisterAll(cfg.str_cfg)
  /\ streams' = [n \in DOMAIN cfg.str_cfg |-> NewStream(cfg.str_cfg[n])]
  /\ applied' = [n \in DOMAIN cfg.str_cfg |-> 0]
  /\ pc' = "running"
  /\ UNCHANGED <<xml, cfg, stores, seen>>

Dispatch(key) == IF key \in DOMAIN by_key THEN by_key[key] ELSE <<>>

\* The call of a stream, unless a call before it has left an array.
Call(acc, n) ==
  CASE acc.overrun -> acc
    [] ~acc.overrun /\ Overruns(acc.sts[n]) -> [acc EXCEPT !.overrun = TRUE]
    [] ~acc.overrun /\ ~Overruns(acc.sts[n]) -> [acc EXCEPT !.sts[n] = onSnapshot(@)]

\* The streams after each of the targets got the snapshot.  One that is in the
\* vector n times gets it n times.
onSnapshots(sts, targets) ==
  LET after[i \in 0..Len(targets)] ==
        IF i = 0 THEN [sts |-> sts, overrun |-> FALSE] ELSE Call(after[i - 1], targets[i])
  IN  after[Len(targets)]

\* One round of the loop.
Round(ex) ==
  LET targets == Dispatch(Key(EmptySymbol, ex))
      calls == onSnapshots(streams, targets)
  IN  /\ pc = "running"
      /\ Total(seen) < MaxRounds
      /\ ~calls.overrun
      /\ streams' = calls.sts
      /\ applied' = [n \in DOMAIN applied |-> applied[n] + Count(targets, n)]
      /\ seen' = [seen EXCEPT ![ex] = @ + 1]
      /\ UNCHANGED <<pc, xml, cfg, by_key, stores>>

\* A round with a call that leaves an array.  What the program does from there is
\* undefined: the model ends, with the state the round found.
Overrun(ex) ==
  /\ pc = "running"
  /\ Total(seen) < MaxRounds
  /\ onSnapshots(streams, Dispatch(Key(EmptySymbol, ex))).overrun
  /\ pc' = "overrun"
  /\ UNCHANGED <<xml, cfg, by_key, streams, stores, seen, applied>>

\* A snapshot of an exchange reaches a stream's map for its kind of book.
StoreSnapshot(n, role, ex, snap) ==
  LET FromVenue(side) == [i \in DOMAIN side |->
                            [ex |-> ex, size |-> side[i].size, price |-> side[i].price]]
  IN  /\ pc = "running" /\ stores < MaxStores
      /\ streams' = [streams EXCEPT ![n][role][ex] =
                       [bid |-> FromVenue(snap.bid), ask |-> FromVenue(snap.ask)]]
      /\ stores' = stores + 1
      /\ UNCHANGED <<pc, xml, cfg, by_key, seen, applied>>

Next == \/ Load \/ CreateStreams
        \/ \E ex \in EXCHANGE : Round(ex) \/ Overrun(ex)
        \/ \E n \in DOMAIN streams, role \in Roles, ex \in EXCHANGE \ {null},
              snap \in Snapshots : StoreSnapshot(n, role, ex, snap)

Spec == Init /\ [][Next]_vars

-----------------------------------------------------------------------------
\* The types: main's map names only streams there are, and no level of a
\* sweepable book is cut down to nothing or less.  No bound is claimed for the
\* counts of the composite books: nothing in the code resets them, and Overrun
\* is where they leave the arrays.
TypeOK ==
  /\ pc \in {"start", "exit", "building", "running", "overrun"}
  /\ DOMAIN streams \subseteq DOMAIN cfg.str_cfg
  /\ \A key \in DOMAIN by_key : Range(by_key[key]) \subseteq DOMAIN streams
  /\ \A n \in DOMAIN streams :
       /\ Len(streams[n].bid) = Depth /\ streams[n].bid_count \in Nat
       /\ Len(streams[n].ask) = Depth /\ streams[n].ask_count \in Nat
       /\ \A l \in Range(streams[n].sweep_bid \o streams[n].sweep_ask) : l.size > 0

\* A stream gets a snapshot once for every time its configuration names the
\* exchange for that symbol, however the streams of a key were put together:
\* main's four loops and its dispatch lose and invent none.  (A file without an
\* error ends the program before: there are no streams then.)
DispatchedPerMention ==
  \A n \in DOMAIN applied :
    applied[n] = IF cfg.str_cfg[n].symbol # EmptySymbol THEN 0
                 ELSE Total([ex \in EXCHANGE |-> seen[ex] * Mentions(cfg.str_cfg[n], ex)])

Holds(book, levels) == \A l \in Range(levels) : Count(book, l) >= Count(levels, l)
Ascends(levels) == \A i \in 1..Len(levels) - 1 : levels[i].price <= levels[i + 1].price

\* After every round that leaves no array, the composite book of a stream that
\* was called holds each level of the stored snapshots, and within its counts,
\* which also cover what earlier merges left behind, both its sides are in
\* ascending order of the prices (mergeOrderBook, insertion_sort).
MergeSortsAll ==
  [][\A n \in DOMAIN streams : applied'[n] > applied[n] =>
       LET st == streams'[n]
           bids == SubSeq(st.bid, 1, st.bid_count)
           asks == SubSeq(st.ask, 1, st.ask_count)
       IN  /\ Ascends(bids) /\ Holds(bids, Levels(st.l2order, "bid"))
           /\ Ascends(asks) /\ Holds(asks, Levels(st.l2order, "ask"))]_vars

\* The prices of a side, one for every unit of size.
Units(side) == FlattenSeq([i \in DOMAIN side |-> [u \in 1..side[i].size |-> side[i].price]])

\* Every tier the composite bids are enough for, and the order book has a level
\* for, has the average price of exactly level_vec[k] units, taken in the order of
\* the composite book, however the tiers fall on its levels
\* (verticalIntergrationLevel).  That order is ascending for the bids too, stale
\* levels included: a tier averages the lowest bids, although Stream.h:436 calls
\* the book it is in one "with best prices".
BidTiersCutLevels ==
  \A n \in DOMAIN streams :
    LET st == streams[n]
        units == Units(SubSeq(st.bid, 1, st.bid_count))
        level_vec == st.cfg.level_vec
    IN  \A k \in DOMAIN level_vec \cap 1..BookDepth :
          level_vec[k] <= Len(units) =>
            st.order_book.bid[k] =
              [size |-> level_vec[k], cost |-> SumTo(units, level_vec[k])]

\* A bid price in the final book is an average of prices of the sweepable bids:
\* neither the cut levels nor the venues counted twice take it outside them.  Its
\* size need not be that of its tier.
FinalInsideSweep ==
  \A n \in DOMAIN streams :
    LET st == streams[n]
        prices == {l.price : l \in Range(st.sweep_bid)}
    IN  \A k \in DOMAIN st.final.bid :
          LET t == st.final.bid[k]
          IN  t.size > 0 => /\ \E p \in prices : p * t.size <= t.cost
                            /\ \E p \in prices : p * t.size >= t.cost

=============================================================================
