------------------------------- MODULE MCBook -------------------------------
(* Small configuration files and snapshots for BookEngine. *)
EXTENDS BookEngine

S(name, symbol, primary, sweepable, levels, complete) ==
  [name |-> name, symbol |-> symbol, primary |-> primary, secondary |-> <<null>>,
   fullamount |-> <<Unknown>>, sweepable |-> sweepable,
   rules |-> <<[level |-> 1, exchanges |-> primary], [level |-> 1, exchanges |-> sweepable]>>,
   levels |-> levels, complete |-> complete]

Incomplete == S(3, EmptySymbol, <<1>>, <<1>>, <<1>>, FALSE)
BadLevel == S(3, EmptySymbol, <<1>>, <<1>>, <<1, NaN>>, TRUE)
BadRule == [S(3, EmptySymbol, <<1>>, <<1>>, <<1>>, TRUE) EXCEPT !.rules[2].level = NaN]

\* One stream, then one that does not parse; two streams of one name; three
\* streams, one with a symbol; more tiers than the books have levels; a file
\* without an error; one with nothing else.
MCFiles ==
  {<<S(1, EmptySymbol, <<1, 2>>, <<2>>, <<3, 1>>, TRUE), BadLevel>>,
   <<S(1, EmptySymbol, <<1>>, <<1>>, <<2>>, TRUE),
     S(1, EmptySymbol, <<2>>, <<2>>, <<1>>, TRUE), Incomplete>>,
   <<S(2, EmptySymbol, <<1, 2>>, <<null>>, <<1>>, TRUE),
     S(1, EmptySymbol, <<1>>, <<2>>, <<2>>, TRUE),
     S(4, 1, <<1>>, <<2>>, <<1>>, TRUE), BadLevel>>,
   <<S(1, EmptySymbol, <<2>>, <<null>>, <<2, 1, 1>>, TRUE), BadRule>>,
   <<S(1, EmptySymbol, <<1>>, <<2>>, <<1>>, TRUE)>>,
   <<Incomplete>>}

L(size, price) == [size |-> size, price |-> price]

MCSnapshots ==
  {[bid |-> <<L(1, 3), L(2, 1)>>, ask |-> <<L(1, 4), L(1, 5)>>],
   [bid |-> <<L(2, 2)>>, ask |-> <<L(3, 4)>>],
   [bid |-> <<L(1, 2), L(1, 1)>>, ask |-> <<>>],
   [bid |-> <<>>, ask |-> <<L(1, 3)>>]}
=============================================================================
