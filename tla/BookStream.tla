----------------------------- MODULE BookStream -----------------------------
(***************************************************************************)
(* engine/book/Stream.h: the books a Stream keeps and what onSnapshot      *)
(* makes of the snapshots of its venues.  A Stream is a record; every      *)
(* method is an operator from a Stream to a Stream.                        *)
(*                                                                         *)
(* Prices that the code computes are averages: such a level is kept as     *)
(* [size, cost], its price being cost / size.  A level of size 0 has no    *)
(* usable price (the maximum of a cleared level, or the 0 / 0 of two such  *)
(* levels).  Rounding of doubles is left out.                              *)
(*                                                                         *)
(* The books are arrays that no method checks an index against: Overruns   *)
(* says when a call of onSnapshot leaves one of them.  What the call does  *)
(* then is undefined, and onSnapshot says nothing about it.                *)
(***************************************************************************)
EXTENDS BookConfig

CONSTANTS Depth,      \* levels of the composite books (AggBook<Level, 100>)
          BookDepth,  \* levels of the order book and the final book (BOOK_DEPTH, 20)
          FullDepth,  \* levels of the full-amount book (AggBook<Level, 10>)
          MaxPrice    \* numeric_limits<double>::max(), above every price

ASSUME BookAssumption ==
  /\ Depth \in Nat \ {0} /\ BookDepth \in Nat /\ FullDepth \in Nat
  /\ MaxPrice \in Nat

ClearLevel == [ex |-> null, size |-> 0, price |-> MaxPrice]
NoPrice == [size |-> 0, cost |-> 0]

NoSnapshot == [bid |-> <<>>, ask |-> <<>>]
NoSnapshots == [ex \in EXCHANGE |-> NoSnapshot]

ClearBook(n) == [bid |-> [k \in 1..n |-> NoPrice], ask |-> [k \in 1..n |-> NoPrice]]

ClearRows == [i \in 1..FullDepth |-> MaxPrice]

NewStream(cfg) ==
  [cfg |-> cfg,
   l2order |-> NoSnapshots, l2fullamount |-> NoSnapshots, l2sweepable |-> NoSnapshots,
   bid |-> [i \in 1..Depth |-> ClearLevel], bid_count |-> 0,   \* m_composite_order_book
   ask |-> [i \in 1..Depth |-> ClearLevel], ask_count |-> 0,
   price_book |-> ClearBook(Depth),            \* m_composite_price_order_book
   order_book |-> ClearBook(BookDepth),
   fullamount |-> [bid |-> ClearRows, ask |-> ClearRows],  \* prices only
   final |-> ClearBook(BookDepth),
   sweep_bid |-> <<>>, sweep_ask |-> <<>>]

-----------------------------------------------------------------------------
\* The dearer levels belong behind the key.
InsertByPrice(vec, key) ==
  InsertKey(vec, key, {j \in DOMAIN vec : vec[j].price > key.price})

\* Slip: the loop starts at the third element.
insertion_sortLate(arr, len) ==
  LET sorted[k \in 2..Max({len, 2})] ==
        IF k = 2 THEN <<>> ELSE InsertByPrice(sorted[k - 1], arr[k])
  IN  SubSeq(arr, 1, 2) \o sorted[Max({len, 2})]
        \o SubSeq(arr, Max({len, 2}) + 1, Len(arr))

\* The first len levels in ascending order of price.
insertion_sort(arr, len) ==
  LET sorted[k \in 0..len] ==
        IF k = 0 THEN <<>> ELSE InsertByPrice(sorted[k - 1], arr[k])
  IN  sorted[len] \o SubSeq(arr, len + 1, Len(arr))

\* std::sort puts levels of one price and size in some order: up to 16 levels in
\* the order of arrival, which is taken here.  They differ in their venues only.
InsertBid(vec, key) ==
  InsertKey(vec, key, {j \in DOMAIN vec : \/ vec[j].price < key.price
                                         \/ /\ vec[j].price = key.price
                                            /\ vec[j].size < key.size})

InsertAsk(vec, key) ==
  InsertKey(vec, key, {j \in DOMAIN vec : \/ vec[j].price > key.price
                                         \/ /\ vec[j].price = key.price
                                            /\ vec[j].size < key.size})

SortBids(vec) ==
  LET sorted[k \in 0..Len(vec)] ==
        IF k = 0 THEN <<>> ELSE InsertBid(sorted[k - 1], vec[k])
  IN  sorted[Len(vec)]

SortAsks(vec) ==
  LET sorted[k \in 0..Len(vec)] ==
        IF k = 0 THEN <<>> ELSE InsertAsk(sorted[k - 1], vec[k])
  IN  sorted[Len(vec)]

\* The levels of the snapshots of a map, in the order of its keys.
Levels(l2, side) ==
  FlattenSeq([i \in 1..NumExchanges + 1 |-> l2[i - 1][side]])

-----------------------------------------------------------------------------
\* verticalIntergrationPrice, one side: levels at the price of the first one
\* are added up; one at any other price starts a new entry, which then counts
\* it twice.  What the last entry holds is stored even if there is no level.
IntegratePrice(old, side) ==
  LET At(p, s) == [size |-> s, cost |-> p * s]
      Step(acc, l) ==
        LET next == l.price # side[1].price
            held == IF next THEN At(l.price, l.size) ELSE acc.held
        IN  [out  |-> IF next THEN Append(acc.out, acc.held) ELSE acc.out,
             held |-> [size |-> held.size + l.size,
                       cost |-> held.cost + l.price * l.size]]
      end == IF side = <<>> THEN [out |-> <<>>, held |-> NoPrice]
             ELSE FoldLeft(Step, [out |-> <<>>, held |-> At(side[1].price, side[1].size)],
                           Tail(side))
      new == Append(end.out, end.held)
  IN  new \o SubSeq(old, Len(new) + 1, Len(old))

verticalIntergrationPrice(st) ==
  [st EXCEPT
     !.price_book.bid = IntegratePrice(@, SubSeq(st.bid, 1, st.bid_count)),
     !.price_book.ask = IntegratePrice(@, SubSeq(st.ask, 1, st.ask_count))]

\* Slip: a tier is filled with the whole of the level that completes it.
FillTiersWhole(acc, l, level_vec, held) ==
  LET reached == {k \in acc.lcount + 1..Len(level_vec) : level_vec[k] <= held + l.size}
  IN  IF acc.lcount >= Len(level_vec) THEN acc
      ELSE [size |-> acc.size + l.size, cost |-> acc.cost + l.price * l.size,
            lcount |-> acc.lcount + Cardinality(reached),
            tiers |-> [k \in DOMAIN acc.tiers |->
                         IF k \in reached
                         THEN [size |-> level_vec[k], cost |-> acc.cost + l.price * l.size]
                         ELSE acc.tiers[k]]]

\* One round of a loop of verticalIntergrationLevel: every tier that held plus
\* this level reaches gets the average of what was taken before and of the part
\* of this level it needs.  level_vec is sorted: the reached tiers are the next.
FillTiers(acc, l, level_vec, held) ==
  LET reached == {k \in acc.lcount + 1..Len(level_vec) : level_vec[k] <= held + l.size}
      vsiz(k) == level_vec[k] - acc.size
  IN  IF acc.lcount >= Len(level_vec) THEN acc
      ELSE [size |-> acc.size + l.size, cost |-> acc.cost + l.price * l.size,
            lcount |-> acc.lcount + Cardinality(reached),
            tiers |-> [k \in DOMAIN acc.tiers |->
                         IF k \in reached
                         THEN [size |-> level_vec[k], cost |-> l.price * vsiz(k) + acc.cost]
                         ELSE acc.tiers[k]]]

\* The loop over the bids compares the tiers with what it has so far.
BidTiers(tiers, side, level_vec) ==
  LET after[i \in 0..Len(side)] ==
        IF i = 0 THEN [size |-> 0, cost |-> 0, lcount |-> 0, tiers |-> tiers]
        ELSE LET acc == after[i - 1] IN FillTiers(acc, side[i], level_vec, acc.size)
  IN  after[Len(side)]

\* The one over the asks compares them with the size the other one ended with.
AskTiers(tiers, side, level_vec, held) ==
  LET after[i \in 0..Len(side)] ==
        IF i = 0 THEN [size |-> 0, cost |-> 0, lcount |-> 0, tiers |-> tiers]
        ELSE FillTiers(after[i - 1], side[i], level_vec, held)
  IN  after[Len(side)]

IntegrateBids(st) ==
  BidTiers(st.order_book.bid, SubSeq(st.bid, 1, st.bid_count), st.cfg.level_vec)
IntegrateAsks(st) ==
  AskTiers(st.order_book.ask, SubSeq(st.ask, 1, st.ask_count), st.cfg.level_vec,
           IntegrateBids(st).size)

verticalIntergrationLevel(st) ==
  [st EXCEPT !.order_book = [bid |-> IntegrateBids(st).tiers, ask |-> IntegrateAsks(st).tiers]]

\* The levels are written from the start of the arrays, and the counts grow by
\* their number: nothing resets the counts.
mergeOrderBook(st) ==
  LET bids == Levels(st.l2order, "bid")
      asks == Levels(st.l2order, "ask")
      nb == st.bid_count + Len(bids)
      na == st.ask_count + Len(asks)
      merged == [st EXCEPT
        !.bid = insertion_sort(bids \o SubSeq(@, Len(bids) + 1, Depth), nb),
        !.ask = insertion_sort(asks \o SubSeq(@, Len(asks) + 1, Depth), na),
        !.bid_count = nb, !.ask_count = na]
  IN  verticalIntergrationPrice(verticalIntergrationLevel(merged))

-----------------------------------------------------------------------------
\* Step 1 of onSnapshot, one side: the price of a level large enough for a tier
\* replaces the tier's if it is higher; for the bids it is stored in the row of
\* the level's own position.  Cleared rows hold MaxPrice: none is ever replaced.
FullAmount(l2, side, level_vec) ==
  LET Row(k, i) == IF side = "bid" THEN i ELSE k
      Raise(rows, k, i, l) == IF level_vec[k] <= l.size /\ rows[k] < l.price
                              THEN [rows EXCEPT ![Row(k, i)] = l.price] ELSE rows
      OfVenue(rows, k, ex) ==
        FoldLeftDomain(LAMBDA r, i : Raise(r, k, i, l2[ex][side][i]), rows, l2[ex][side])
      OfTier(rows, k) ==
        FoldLeft(LAMBDA r, ex : OfVenue(r, k, ex), rows, [i \in 1..NumExchanges + 1 |-> i - 1])
  IN  FoldLeftDomain(OfTier, ClearRows, level_vec)

\* Slip: the operands are swapped.
MissingSwapped(lit, cum) == cum - lit

\* What a tier still needs.
Missing(lit, cum) == lit - cum

\* One round of the loop over a sweepable book that looks for lit units: at most
\* one level of each venue is taken, in res.  One that is more than what is
\* missing is taken whole, but is cut down in the book, and does not count.
SweepLevel(acc, i, lit) ==
  LET l == acc.vec[i]
      known == l.ex \in DOMAIN acc.res
      more == l.size - acc.res[l.ex].size
  IN  CASE acc.cum >= lit -> acc
        [] acc.cum < lit /\ ~known /\ acc.cum + l.size <= lit ->
             [acc EXCEPT !.res = MapInsert(@, l.ex, l), !.cum = @ + l.size]
        [] acc.cum < lit /\ ~known /\ acc.cum + l.size > lit ->
             [acc EXCEPT !.res = MapInsert(@, l.ex, l), !.vec[i].size = Missing(lit, acc.cum)]
        [] acc.cum < lit /\ known /\ more <= 0 -> acc
        [] acc.cum < lit /\ known /\ more > 0 ->
             [acc EXCEPT
                !.res[l.ex].price = l.price,
                !.res[l.ex].size = IF acc.cum + more <= lit THEN l.size
                                   ELSE acc.cum + more - lit]

Sweep(vec, lit) ==
  LET after[i \in 0..Len(vec)] ==
        IF i = 0 THEN [vec |-> vec, res |-> <<>>, cum |-> 0]
        ELSE SweepLevel(after[i - 1], i, lit)
  IN  after[Len(vec)]

SizeOf(res) == Total([ex \in EXCHANGE |-> IF ex \in DOMAIN res THEN res[ex].size ELSE 0])
CostOf(res) ==
  Total([ex \in EXCHANGE |-> IF ex \in DOMAIN res THEN res[ex].size * res[ex].price ELSE 0])

\* Slip: the size asked for, and not the size taken, divides the sum.
AverageOfTier(res, lit) == [size |-> lit, cost |-> CostOf(res)]

\* The volume-weighted average price of what was taken.
Average(res, lit) == [size |-> SizeOf(res), cost |-> CostOf(res)]

\* A bid of the final book is replaced by a lower average, and a cleared one by
\* any; an ask by a higher one, and a cleared one by none.
BidReplaced(old, new) ==
  new.size > 0 /\ (old.size > 0 => old.cost * new.size > new.cost * old.size)
AskReplaced(old, new) ==
  new.size > 0 /\ old.size > 0 /\ old.cost * new.size < new.cost * old.size

\* One tier of step 3: both sides, until a side has not enough for the tier, or
\* the final book no level for it.
Tier(acc, k, lit) ==
  LET bid == Sweep(acc.sweep_bid, lit)
      ask == Sweep(acc.sweep_ask, lit)
      b == Average(bid.res, lit)
      a == Average(ask.res, lit)
  IN  CASE ~acc.go -> acc
        [] acc.go /\ bid.cum < lit -> [acc EXCEPT !.sweep_bid = bid.vec, !.go = FALSE]
        [] acc.go /\ bid.cum >= lit /\ k > BookDepth ->
             [acc EXCEPT !.overrun = TRUE, !.go = FALSE]
        [] acc.go /\ bid.cum >= lit /\ k <= BookDepth ->
             [acc EXCEPT
                !.sweep_bid = bid.vec, !.sweep_ask = ask.vec,
                !.final.bid[k] = IF BidReplaced(@, b) THEN b ELSE @,
                !.final.ask[k] = IF ask.cum >= lit /\ AskReplaced(@, a) THEN a ELSE @,
                !.go = ask.cum >= lit]

\* The levels of the sweepable snapshots are added to what the books hold from
\* the calls before.
SweepBooks(st) ==
  LET level_vec == st.cfg.level_vec
      after[k \in 0..Len(level_vec)] ==
        IF k = 0
        THEN [final |-> ClearBook(BookDepth),
              sweep_bid |-> SortBids(st.sweep_bid \o Levels(st.l2sweepable, "bid")),
              sweep_ask |-> SortAsks(st.sweep_ask \o Levels(st.l2sweepable, "ask")),
              go |-> TRUE, overrun |-> FALSE]
        ELSE Tier(after[k - 1], k, level_vec[k])
  IN  after[Len(level_vec)]

\* Step 1 looks at the row of a tier the full-amount book has no row for.
FullAmountOverruns(l2, level_vec) ==
  \E k \in FullDepth + 1..Len(level_vec), ex \in EXCHANGE :
    \E l \in Range(l2[ex].bid \o l2[ex].ask) : level_vec[k] <= l.size

\* A call of onSnapshot leaves an array: the counts, which only grow, pass the
\* composite books, or a tier is reached that a book has no level for.
Overruns(st) ==
  \/ st.bid_count + Len(Levels(st.l2order, "bid")) > Depth
  \/ st.ask_count + Len(Levels(st.l2order, "ask")) > Depth
  \/ IntegrateBids(mergeOrderBook(st)).lcount > BookDepth
  \/ IntegrateAsks(mergeOrderBook(st)).lcount > BookDepth
  \/ FullAmountOverruns(st.l2fullamount, st.cfg.level_vec)
  \/ SweepBooks(st).overrun

\* isOrderBook is true of every exchange.  The message itself is not stored,
\* and no level of the full-amount book is copied, its counts being 0.
onSnapshot(st) ==
  LET merged == mergeOrderBook(st)
      swept == SweepBooks(merged)
  IN  [merged EXCEPT
         !.fullamount = [bid |-> FullAmount(st.l2fullamount, "bid", st.cfg.level_vec),
                         ask |-> FullAmount(st.l2fullamount, "ask", st.cfg.level_vec)],
         !.final = swept.final,
         !.sweep_bid = swept.sweep_bid, !.sweep_ask = swept.sweep_ask]

=============================================================================
