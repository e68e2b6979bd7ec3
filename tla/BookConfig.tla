----------------------------- MODULE BookConfig -----------------------------
(***************************************************************************)
(* engine/book/ConfigBook.h: what load makes of a configuration file.      *)
(*                                                                         *)
(* The file is a sequence of <stream> elements.  An exchange list is the   *)
(* sequence of its comma-separated names, never empty: the text without a  *)
(* comma, the empty text included, is one name.  A name is the number of   *)
(* its exchange in the enumeration EXCHANGE, or Unknown.  An element that  *)
(* lacks a child or an attribute is not complete, and a level that is no   *)
(* number, in the list or in a rule, is NaN: the library throws on both.   *)
(* Stream names are numbers, in the order of their texts.  The file is     *)
(* assumed to be XML: read_xml is called outside the try block and ends    *)
(* the program otherwise.                                                  *)
(***************************************************************************)
EXTENDS BookUtils

CONSTANT NumExchanges

ASSUME ExchangesAssumption == NumExchanges \in Nat

null == 0
EXCHANGE == null..NumExchanges
Unknown == -1
NaN == -1

\* Not in the table, or the empty text: no error, but EXCHANGE::null.
str2ex(name) == IF name \in EXCHANGE THEN name ELSE null

\* The sum of f over the exchanges.
Total(f) == f[null] + SumTo(f, NumExchanges)

splitExchanges(list) == [i \in DOMAIN list |-> str2ex(list[i])]

\* rule_map.insert keeps the first rule of a level.
ruleMap(rules) ==
  [l \in {rules[i].level : i \in DOMAIN rules} |->
     splitExchanges(rules[SelectInSeq(rules, LAMBDA r : r.level = l)].exchanges)]

InsertLevel(vec, l) == InsertKey(vec, l, {j \in DOMAIN vec : vec[j] > l})

\* std::sort of a few numbers is an insertion sort.
levelVec(levels) ==
  LET sorted[k \in 0..Len(levels)] ==
        IF k = 0 THEN <<>> ELSE InsertLevel(sorted[k - 1], levels[k])
  IN  sorted[Len(levels)]

Throws(s) == \/ ~s.complete
             \/ NaN \in Range(s.levels)
             \/ \E r \in Range(s.rules) : r.level = NaN

StreamConfig(s) ==
  [symbol    |-> s.symbol,
   primary   |-> splitExchanges(s.primary),
   secondary |-> splitExchanges(s.secondary),
   fullamount |-> splitExchanges(s.fullamount),
   sweepable |-> splitExchanges(s.sweepable),
   rule_map  |-> ruleMap(s.rules),
   level_vec |-> levelVec(s.levels)]

\* str_cfg.insert keeps the first stream of a name.
insertStreams(read) ==
  [n \in {read[i].name : i \in DOMAIN read} |->
     StreamConfig(read[SelectInSeq(read, LAMBDA s : s.name = n)])]

\* The streams before the one that throws are in str_cfg, and stay there.
load(xml) ==
  LET bad  == SelectInSeq(xml, Throws)
      read == IF bad = 0 THEN xml ELSE SubSeq(xml, 1, bad - 1)
  IN  [result  |-> bad = 0, str_cfg |-> insertStreams(read)]

=============================================================================
