--------------------------- MODULE BestIdentifiers ---------------------------
(***************************************************************************)
(* The best of the identifiers that match a query: what IdentifierStore    *)
(* promises, whatever sort IdentifierDatabase uses.                        *)
(***************************************************************************)
EXTENDS Naturals, FiniteSets, Sequences

(* How many of a number of results are kept, when at most limit are asked   *)
(* for, or all of them when limit is zero.                                  *)
Kept(number, limit) == IF limit \in 1..number THEN limit ELSE number

(* The places in a ranking of the identifiers that were found.              *)
Ranks(ranking, found) == {i \in DOMAIN ranking : ranking[i] \in found}

NotWorse(ranks, i) == Cardinality({j \in ranks : j <= i})

(* The k-th of the best is the one that k of those that were found are not  *)
(* worse than.                                                              *)
Best(ranking, found, limit) ==
  LET ranks == Ranks(ranking, found)
  IN  [k \in 1..Kept(Cardinality(ranks), limit) |->
         ranking[CHOOSE i \in ranks : NotWorse(ranks, i) = k]]
=============================================================================
