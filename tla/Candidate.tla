------------------------------- MODULE Candidate -------------------------------
(***************************************************************************)
(* Candidates: words with what the order of results needs to know of them, *)
(* and the match of a query with one of them (cpp/ycm/Candidate.cpp).      *)
(***************************************************************************)
EXTENDS Word, Result

(* The first character unless it is punctuation, then every capital after  *)
(* what is not one and every letter after punctuation.                     *)
WordBoundaryChars(characters) ==
  LET starts(i) ==
        IF i = 1 THEN ~ characters[1].punctuation
        ELSE \/ ~ characters[i - 1].upper /\ characters[i].upper
             \/ characters[i - 1].punctuation /\ characters[i].letter
      read[i \in 0..Len(characters)] ==
        CASE i = 0      -> <<>>
          [] i > 0 /\ starts(i) -> Append(read[i - 1], characters[i])
          [] OTHER      -> read[i - 1]
  IN  read[Len(characters)]

CandidateOf(word) ==
  [characters        |-> word.characters,
   bytes             |-> word.bytes,
   caseSwappedText   |-> FlattenSeq([i \in DOMAIN word.characters |->
                                      word.characters[i].swapped]),
   wordBoundaryChars |-> WordBoundaryChars(word.characters),
   isLowercase       |-> \A i \in DOMAIN word.characters :
                           ~ word.characters[i].upper]

NewCandidate(text) == CandidateOf(NewWord(text))

(* The loop over the candidate: how many characters of the query were met, *)
(* the sum of their indices, which start at zero, and whether the last one *)
(* was met at its own index.                                               *)
Match(candidate, query, n) ==
  LET read[i \in 0..n] ==
        IF i = 0 THEN [met |-> 0, sum |-> 0, prefix |-> FALSE]
        ELSE LET before == read[i - 1]
             IN  IF /\ before.met < Len(query)
                    /\ MatchesSmart(query[before.met + 1],
                                    candidate.characters[i])
                 THEN [met |-> before.met + 1, sum |-> before.sum + i - 1,
                       prefix |-> i = before.met + 1]
                 ELSE before
  IN  read[n]

(* Mutant: a prefix is taken for a match whose indices are all zero.       *)
ResultOf_FirstIndex(candidate, query, match) ==
  IF match.met < Len(query) THEN NotASubsequence
  ELSE NewResult(candidate, query, match.sum, query # <<>> /\ match.sum = 0)

(* The empty query is met by the empty match, and is no prefix. *)
ResultOf(candidate, query, match) ==
  IF match.met < Len(query) THEN NotASubsequence
  ELSE NewResult(candidate, query, match.sum, match.prefix)

QueryMatchResult(candidate, query) ==
  ResultOf(candidate, query,
           Match(candidate, query, Len(candidate.characters)))
=============================================================================
