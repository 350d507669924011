------------------------------ MODULE Result ------------------------------
(***************************************************************************)
(* The results of a query and their order (cpp/ycm/Result.cpp).            *)
(***************************************************************************)
EXTENDS Character

NotASubsequence == [isSubsequence |-> FALSE]

(* Mutant: one row, so that the one before is overwritten as it is read.   *)
NextRow_InPlace(previous, character, shorter) ==
  LET current[j \in 0..Len(shorter)] ==
        IF j = 0 THEN 0
        ELSE IF EqualsBase(character, shorter[j]) THEN current[j - 1] + 1
        ELSE Max({current[j - 1], previous[j]})
  IN  current

(* A turn of the outer loop.  Rows are indexed by the lengths of prefixes  *)
(* of the shorter one.                                                     *)
NextRow(previous, character, shorter) ==
  LET current[j \in 0..Len(shorter)] ==
        IF j = 0 THEN 0
        ELSE IF EqualsBase(character, shorter[j]) THEN previous[j - 1] + 1
        ELSE Max({current[j - 1], previous[j]})
  IN  current

LongestCommonSubsequenceLength(first, second) ==
  LET longer  == IF Len(first) > Len(second) THEN first ELSE second
      shorter == IF Len(first) > Len(second) THEN second ELSE first
      row[i \in 0..Len(longer)] ==
        IF i = 0 THEN [j \in 0..Len(shorter) |-> 0]
        ELSE NextRow(row[i - 1], longer[i], shorter)
  IN  row[Len(longer)][Len(shorter)]

(* candidate: a Candidate; query: the characters of the query. *)
NewResult(candidate, query, indexSum, queryIsPrefix) ==
  LET known == query # <<>> /\ candidate.characters # <<>>
  IN  [isSubsequence   |-> TRUE,
       queryLength     |-> Len(query),
       firstCharSame   |->
         known /\ EqualsBase(candidate.characters[1], query[1]),
       queryIsPrefix   |-> queryIsPrefix,
       indexSum        |-> indexSum,
       wbMatches       |-> IF known THEN LongestCommonSubsequenceLength(
                                           query, candidate.wordBoundaryChars)
                           ELSE 0,
       wbChars         |-> Len(candidate.wordBoundaryChars),
       length          |-> Len(candidate.characters),
       isLowercase     |-> candidate.isLowercase,
       caseSwappedText |-> candidate.caseSwappedText]

(* The order of texts as bytes in UTF-8 is that of their code points.      *)
TextLess(s, t) ==
  \E n \in 0..Len(s) :
    /\ n <= Len(t) /\ SubSeq(s, 1, n) = SubSeq(t, 1, n)
    /\ \/ n = Len(s) /\ n < Len(t)
       \/ n < Len(s) /\ n < Len(t) /\ s[n + 1] < t[n + 1]

(* Mutant: only the results on the left are asked for the whole query.     *)
LessThan_OneSide(r, other) ==
  LET complete == r.queryLength = r.wbMatches
      tests ==
        << <<r.firstCharSame # other.firstCharSame, r.firstCharSame>>,
           <<complete /\ r.wbMatches # other.wbMatches,
             r.wbMatches > other.wbMatches>>,
           <<complete /\ r.wbChars # other.wbChars, r.wbChars < other.wbChars>>,
           <<r.queryIsPrefix # other.queryIsPrefix, r.queryIsPrefix>>,
           <<r.wbMatches # other.wbMatches, r.wbMatches > other.wbMatches>>,
           <<r.wbChars # other.wbChars, r.wbChars < other.wbChars>>,
           <<r.indexSum # other.indexSum, r.indexSum < other.indexSum>>,
           <<r.length # other.length, r.length < other.length>>,
           <<r.isLowercase # other.isLowercase, r.isLowercase>> >>
      decisive == {i \in DOMAIN tests : r.queryLength > 0 /\ tests[i][1]}
  IN  IF decisive = {} THEN TextLess(r.caseSwappedText, other.caseSwappedText)
      ELSE tests[Min(decisive)][2]

(* Each test may decide; the first one that does, does.                    *)
LessThan(r, other) ==
  LET complete == r.queryLength \in {r.wbMatches, other.wbMatches}
      tests ==
        << <<r.firstCharSame # other.firstCharSame, r.firstCharSame>>,
           <<complete /\ r.wbMatches # other.wbMatches,
             r.wbMatches > other.wbMatches>>,
           <<complete /\ r.wbChars # other.wbChars, r.wbChars < other.wbChars>>,
           <<r.queryIsPrefix # other.queryIsPrefix, r.queryIsPrefix>>,
           <<r.wbMatches # other.wbMatches, r.wbMatches > other.wbMatches>>,
           <<r.wbChars # other.wbChars, r.wbChars < other.wbChars>>,
           <<r.indexSum # other.indexSum, r.indexSum < other.indexSum>>,
           <<r.length # other.length, r.length < other.length>>,
           <<r.isLowercase # other.isLowercase, r.isLowercase>> >>
      decisive == {i \in DOMAIN tests : r.queryLength > 0 /\ tests[i][1]}
  IN  IF decisive = {} THEN TextLess(r.caseSwappedText, other.caseSwappedText)
      ELSE tests[Min(decisive)][2]
=============================================================================
