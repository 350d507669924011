------------------------------ MODULE Matching ------------------------------
(***************************************************************************)
(* The matcher: a text is typed code point by code point and broken into   *)
(* characters as it grows; as a query it filters a list of candidates,     *)
(* which are then sorted and cut (FilterAndSortCandidates of               *)
(* cpp/ycm/PythonSupport.cpp).                                             *)
(***************************************************************************)
EXTENDS Candidate

CONSTANTS
  Alphabets,      \* what is typed: [codePoints : set, length : bound]
  Queries,        \* the code points and the length of what is looked up
  Texts,          \* the list of candidates, each a sequence of code points
  MaxCandidates   \* max_candidates: zero for no limit

(* Those that are not decomposed any further.                              *)
NormalCodePoints == {c \in DOMAIN CodePoint : CodePoint[c].normal = <<c>>}

ASSUME CodePointAssumption ==
  \A c \in DOMAIN CodePoint : CodePoint[c].normal \in Seq(NormalCodePoints)

(* Code points are numbers, in the other case too.                         *)
ASSUME SwappedAssumption ==
  \A c \in DOMAIN CodePoint : CodePoint[c].swapped \in Seq(Nat)

(* What goes on with a conjunct extends a character, and so does a mark,   *)
(* whose decomposition is of its class; a consonant is no mark.            *)
ASSUME PropertyAssumption ==
  \A c \in DOMAIN CodePoint :
    LET p == CodePoint[c]
    IN  /\ p.class \in Nat
        /\ p.indic \in {"EXTEND", "LINKER"} => p.break \in Extending
        /\ p.indic = "CONSONANT" => p.break = "OTHER"
        /\ p.class # 0 =>
             /\ p.break = "EXTEND" /\ p.indic \in {"EXTEND", "LINKER"}
             /\ \A d \in ToSet(p.normal) : CodePoint[d].class = p.class

ASSUME MatchingAssumption ==
  /\ Texts \in Seq(Seq(DOMAIN CodePoint))
  /\ MaxCandidates \in Nat

VARIABLES
  text,     \* the code points typed so far
  word,     \* characters and flags of BreakCodePointsIntoCharacters
  phase,    \* "typing", "filtering" or "sorting"
  query,    \* query_object: the text as a word
  index,    \* how many candidates the loop has seen
  matches,  \* result_and_objects: sequence of [index, result]
  sorted    \* the sorted front of result_and_objects

vars == <<text, word, phase, query, index, matches, sorted>>

Candidates == ForEach(NewCandidate, Texts)

NoQuery == NewWord(<<>>)

(* A text that alphabet allows. *)
Allows(alphabet, t) ==
  Len(t) <= alphabet.length /\ ToSet(t) \subseteq alphabet.codePoints

Init ==
  /\ text = <<>> /\ word = NoWord
  /\ phase = "typing" /\ query = NoQuery
  /\ index = 0 /\ matches = <<>> /\ sorted = <<>>

(* The loop of BreakCodePointsIntoCharacters takes one more code point.    *)
Type(code_point) ==
  /\ phase = "typing"
  /\ \E a \in Alphabets : Allows(a, Append(text, code_point))
  /\ text' = Append(text, code_point)
  /\ word' = IF text = <<>> THEN FirstCodePoint(code_point)
             ELSE ReadCodePoint(word, Last(text), code_point)
  /\ UNCHANGED <<phase, query, index, matches, sorted>>

NewText ==
  /\ phase = "typing" /\ text # <<>>
  /\ text' = <<>> /\ word' = NoWord
  /\ UNCHANGED <<phase, query, index, matches, sorted>>

FilterAndSortCandidates ==
  /\ phase = "typing" /\ Allows(Queries, text)
  /\ phase' = "filtering" /\ query' = NewWord(text)
  /\ UNCHANGED <<text, word, index, matches, sorted>>

(* A turn of the loop over the candidates. *)
NextCandidate ==
  /\ phase = "filtering" /\ index < Len(Candidates)
  /\ index' = index + 1
  /\ UNCHANGED <<text, word, phase, query, sorted>>

IsPossible(candidate) ==
  candidate.characters # <<>> /\ ContainsBytes(candidate, query)

SkipCandidate ==
  /\ NextCandidate
  /\ ~ IsPossible(Candidates[index'])
  /\ UNCHANGED matches

RejectCandidate ==
  /\ NextCandidate
  /\ IsPossible(Candidates[index'])
  /\ ~ QueryMatchResult(Candidates[index'], query.characters).isSubsequence
  /\ UNCHANGED matches

KeepCandidate ==
  /\ NextCandidate
  /\ IsPossible(Candidates[index'])
  /\ LET result == QueryMatchResult(Candidates[index'], query.characters)
     IN  /\ result.isSubsequence
         /\ matches' = Append(matches, [index |-> index', result |-> result])

(* How many elements of number are sorted and kept. *)
Kept(number) ==
  IF MaxCandidates > 0 /\ number >= MaxCandidates THEN MaxCandidates ELSE number

StartSort ==
  /\ phase = "filtering" /\ index = Len(Candidates)
  /\ phase' = "sorting"
  /\ UNCHANGED <<text, word, query, index, matches, sorted>>

(* The sort puts one of the smallest results next; those of one rank are   *)
(* in any order.                                                           *)
PartialSort ==
  /\ phase = "sorting" /\ Len(sorted) < Kept(Len(matches))
  /\ \E m \in ToSet(matches) \ ToSet(sorted) :
       /\ \A n \in ToSet(matches) \ ToSet(sorted) :
            ~ LessThan(n.result, m.result)
       /\ sorted' = Append(sorted, m)
  /\ UNCHANGED <<text, word, phase, query, index, matches>>

Return ==
  /\ phase = "sorting" /\ Len(sorted) = Kept(Len(matches))
  /\ phase' = "typing" /\ query' = NoQuery
  /\ index' = 0 /\ matches' = <<>> /\ sorted' = <<>>
  /\ UNCHANGED <<text, word>>

Next ==
  \/ \E c \in DOMAIN CodePoint : Type(c)
  \/ NewText \/ FilterAndSortCandidates
  \/ SkipCandidate \/ RejectCandidate \/ KeepCandidate
  \/ StartSort \/ PartialSort \/ Return

Spec == Init /\ [][Next]_vars

-----------------------------------------------------------------------------
(* The rules of UAX 29 as they are written: a break property of each code  *)
(* point, and when there is no break between the n-th and the next.        *)
Joins(t, n) ==
  LET break(i)  == CodePoint[t[i]].break
      indic(i)  == CodePoint[t[i]].indic
      before    == break(n)
      after     == break(n + 1)
      hangul    == \/ before = "L" /\ after \in {"L", "V", "LV", "LVT"}
                   \/ before \in {"LV", "V"} /\ after \in {"V", "T"}
                   \/ before \in {"LVT", "T"} /\ after = "T"
      conjunct  == /\ indic(n + 1) = "CONSONANT"
                   /\ \E i \in 1..n :
                        /\ indic(i) = "CONSONANT"
                        /\ \A j \in i + 1..n : indic(j) \in {"EXTEND", "LINKER"}
                        /\ \E j \in i + 1..n : indic(j) = "LINKER"
      emoji     == /\ before = "ZWJ" /\ after = "EXTPICT"
                   /\ \E i \in 1..n - 1 :
                        /\ break(i) = "EXTPICT"
                        /\ \A j \in i + 1..n - 1 : break(j) = "EXTEND"
      flags     == {i \in 1..n : \A j \in i..n + 1 :
                                   break(j) = "REGIONAL_INDICATOR"}
  IN  \/ before = "CR" /\ after = "LF"
      \/ /\ Controls \cap {before, after} = {}
         /\ \/ hangul \/ conjunct \/ emoji
            \/ after \in Extending \/ before = "PREPEND"
            \/ Cardinality(flags) % 2 = 1

(* A joiner before a mark: the machine keeps within_emoji_modifier over a  *)
(* mark that follows a joiner, which the rules do not.                     *)
JoinerBeforeMark(t) ==
  \E n \in 1..Len(t) - 1 : /\ CodePoint[t[n]].break = "ZWJ"
                           /\ CodePoint[t[n + 1]].break \in Extending

(* The increasing ways to place n characters in a sequence of given length. *)
Placements(n, length) ==
  {p \in [1..n -> 1..length] : \A i \in 1..n - 1 : p[i] < p[i + 1]}

(* The characters are those that the rules make of a text: p[i] is where   *)
(* the i-th starts, which goes on to the start of the next.                *)
BrokenByRules(t, characters) ==
  \E p \in Placements(Len(characters), Len(t)) :
    LET end(i) == IF i = Len(characters) THEN Len(t) ELSE p[i + 1] - 1
    IN  /\ ToSet(p) = {n \in DOMAIN t : n = 1 \/ ~ Joins(t, n - 1)}
        /\ \A i \in DOMAIN characters :
             characters[i] = Spell(SubSeq(t, p[i], end(i)), "normal")

(* Texts canonically equivalent to t: all code points are decomposed, or   *)
(* two adjacent marks of different classes change places.                  *)
Equivalent(t) ==
  LET class(i) == CodePoint[t[i]].class
      differ   == {i \in 1..Len(t) - 1 : /\ 0 \notin {class(i), class(i + 1)}
                                         /\ class(i) # class(i + 1)}
  IN  {Spell(t, "normal")} \cup
      {[t EXCEPT ![i] = t[i + 1], ![i + 1] = t[i]] : i \in differ}

CandidateCharacters ==
  UNION {ToSet(candidate.characters) : candidate \in ToSet(Candidates)}

Marks(character) ==
  FlattenSeq([i \in DOMAIN character.normal |->
                IF IsMark(character.normal[i]) THEN <<character.normal[i]>>
                ELSE <<>>])

Embeddings(q, characters) ==
  {p \in Placements(Len(q), Len(characters)) :
     \A i \in DOMAIN q : MatchesSmart(q[i], characters[p[i]])}

(* The sum of the first n indices of a placement, which start at zero.     *)
IndexSum(p, n) ==
  LET sum[i \in 0..n] == IF i = 0 THEN 0 ELSE sum[i - 1] + p[i] - 1
  IN  sum[n]

(* Some n characters of the query are, in order, among characters.         *)
HasCommon(n, q, characters) ==
  \E f \in Placements(n, Len(q)), g \in Placements(n, Len(characters)) :
    \A i \in 1..n : EqualsBase(q[f[i]], characters[g[i]])

(* The comment of Result.cpp:77-93: r has more weight than s if one of the *)
(* conditions is satisfied, in that order.                                 *)
Outranks(r, s) ==
  LET all(x) == x.wbMatches = x.wbChars
      conditions(x, y) ==
        << x.firstCharSame /\ ~ y.firstCharSame,
           (all(x) \/ all(y)) /\ x.wbMatches > y.wbMatches,
           all(x) /\ all(y) /\ x.wbChars < y.wbChars,
           x.queryIsPrefix /\ ~ y.queryIsPrefix,
           x.wbMatches > y.wbMatches,
           x.wbChars < y.wbChars,
           x.indexSum < y.indexSum,
           x.length < y.length,
           x.isLowercase /\ ~ y.isLowercase,
           TextLess(x.caseSwappedText, y.caseSwappedText) >>
      considered == IF r.queryLength = 0 THEN {10} ELSE 1..10
  IN  \E i \in considered :
        /\ conditions(r, s)[i]
        /\ \A j \in considered : j < i => ~ conditions(s, r)[j]
-----------------------------------------------------------------------------
(* Every character has code points, the loop loses none of them, and the   *)
(* results are of candidates it has seen.                                  *)
TypeOK ==
  /\ text \in Seq(DOMAIN CodePoint)
  /\ word.characters \in Seq(Seq(DOMAIN CodePoint) \ {<<>>})
  /\ {word.emoji, word.odd, word.within, word.seen} \subseteq BOOLEAN
  /\ FlattenSeq(word.characters) = Spell(text, "normal")
  /\ phase \in {"typing", "filtering", "sorting"}
  /\ index \in 0..Len(Candidates)
  /\ \A i \in DOMAIN matches : matches[i].index \in 1..index
  /\ ToSet(sorted) \subseteq ToSet(matches)

(* Word.cpp:259-261: the two state machines break a text where the rules   *)
(* of UAX 29 do, unless a joiner stands before a mark.                     *)
BreaksFollowRules ==
  ~ JoinerBeforeMark(text) => BrokenByRules(text, word.characters)

(* Character.cpp:80-82: texts that Unicode takes for the same have the     *)
(* same characters, however they were typed.                               *)
CanonicalEquivalence ==
  phase = "typing" /\ ~ JoinerBeforeMark(text) =>
    \A t \in Equivalent(text) : Characters(t) = Characters(text)

(* Character.h:87-91: a character matches those of its base, capitals only *)
(* if it is one, and only those of its own marks if it has any.            *)
SmartMatching ==
  phase = "typing" =>
    \A q \in ToSet(Characters(text)), c \in CandidateCharacters :
      MatchesSmart(q, c) <=> /\ q.base = c.base
                             /\ q.upper => c.upper
                             /\ Marks(q) # <<>> => Marks(q) = Marks(c)

(* Folding tells bases apart: characters that are the same, or the same up *)
(* to case, have the same base.                                            *)
FoldingKeepsBases(characters) ==
  \A c, d \in characters :
    EqualsIgnoreCase(c, d) \/ c.normal = d.normal => EqualsBase(c, d)

(* Candidate.cpp:79-89: a candidate is kept when the query can be embedded *)
(* in it, with the least sum of indices and a prefix found; the filter by  *)
(* bytes rejects none that would match.                                    *)
MatchIsEmbedding ==
  phase = "filtering" /\ index > 0 =>
    LET q          == query.characters
        candidate  == Candidates[index].characters
        embeddings == Embeddings(q, candidate)
        kept       == {m \in ToSet(matches) : m.index = index}
    IN  /\ (kept # {}) <=> (candidate # <<>> /\ embeddings # {})
        /\ \A m \in kept :
             /\ m.result.indexSum =
                  Min({IndexSum(p, Len(q)) : p \in embeddings})
             /\ q # <<>> => (m.result.queryIsPrefix <=>
                              [i \in DOMAIN q |-> i] \in embeddings)

(* Result.cpp:151: what is counted is the longest subsequence of the query *)
(* that is one of the word boundary characters too.                        *)
BoundaryMatchesAreLongest ==
  phase = "filtering" /\ index > 0 =>
    \A m \in ToSet(matches) : m.index = index =>
      m.result.wbMatches =
        Max({n \in 0..Len(query.characters) :
               HasCommon(n, query.characters,
                         Candidates[index].wordBoundaryChars)})

(* Utils.h:121-125: what std::partial_sort asks of operator<, a strict weak *)
(* order of all results of a query, though its tests of word boundary      *)
(* characters are made only for some pairs of them (Result.cpp:100-108).   *)
ResultsAreOrdered ==
  phase = "sorting" =>
    LET less(m, n) == LessThan(m.result, n.result)
    IN  \A m, n \in ToSet(matches) :
          /\ ~ (less(m, n) /\ less(n, m))
          /\ less(m, n) =>
               \A o \in ToSet(matches) : less(m, o) \/ less(o, n)

(* Result.cpp:77-93: the answer has the results that rank highest, in the  *)
(* documented order.  Violated: the code asks if the whole query is among  *)
(* the word boundary characters (:100), the comment if all word boundary   *)
(* characters of a result are matched.                                     *)
RankedAsDocumented ==
  phase = "sorting" =>
    \A i \in DOMAIN sorted :
      /\ \A j \in DOMAIN sorted :
           i < j => ~ Outranks(sorted[j].result, sorted[i].result)
      /\ \A m \in ToSet(matches) \ ToSet(sorted) :
           ~ Outranks(m.result, sorted[i].result)
-----------------------------------------------------------------------------
(* Scripts in which a character is one base and its marks, or bases that   *)
(* have no case, however its code points are decomposed.                   *)

Syllabic ==
  {"CR", "LF", "REGIONAL_INDICATOR", "L", "V", "T", "LV", "LVT"}

(* s is of bases and then of marks; only a base alone may be a capital.    *)
IsCluster(s) ==
  \E k \in 0..Len(s) :
    /\ \A i \in 1..k : ~ IsMark(s[i])
    /\ \A i \in k + 1..Len(s) : IsMark(s[i])
    /\ k <= 1 \/ \A i \in 1..k : ~ CodePoint[s[i]].upper

(* P has no joiner, no linker and no PREPEND; marks have no case, and no   *)
(* two capitals are the same without it.                                   *)
SimpleScript(P) ==
  LET normals  == UNION {ToSet(CodePoint[c].normal) : c \in P}
      bases    == {c \in DOMAIN CodePoint : ~ IsMark(c)}
      capitals == {c \in normals : CodePoint[c].upper}
  IN  /\ \A c \in P :
           LET p == CodePoint[c]
           IN  /\ p.break \notin {"ZWJ", "PREPEND"} /\ p.indic # "LINKER"
               /\ IsCluster(p.normal)
               /\ IsMark(c) => \A d \in ToSet(p.normal) : IsMark(d)
               /\ p.break \in Syllabic =>
                    \A d \in ToSet(p.normal) :
                      ~ IsMark(d) /\ ~ CodePoint[d].upper
      /\ \A c \in normals :
           IF IsMark(c) THEN c \notin capitals /\ CodePoint[c].folded = <<c>>
                        ELSE CodePoint[c].folded \in Seq(bases)
      /\ \A c, d \in capitals :
           CodePoint[c].folded = CodePoint[d].folded => c = d

(* A code point ends a text as what it is decomposed into does: the first  *)
(* of that is like it and the others go on with the first, or it is a      *)
(* syllable.                                                               *)
DecomposesAlike(c) ==
  LET p     == CodePoint[c]
      s     == p.normal
      at(i) == CodePoint[s[i]]
  IN  \/ /\ s # <<>> /\ at(1).break = p.break /\ at(1).indic = p.indic
         /\ \A i \in 2..Len(s) :
              \/ /\ at(i).break = "EXTEND" /\ at(i).indic = "EXTEND"
                 /\ p.break \in {"OTHER", "EXTEND", "SPACINGMARK"}
              \/ at(i).break = "V" /\ at(i).indic = "None" /\ p.break = "V"
      \/ /\ \A d \in {c} \cup ToSet(s) : CodePoint[d].indic = "None"
         /\ \/ /\ p.break = "LV" /\ Len(s) = 2
               /\ at(1).break = "L" /\ at(2).break = "V"
            \/ /\ p.break = "LVT" /\ Len(s) = 3
               /\ at(1).break = "L" /\ at(2).break = "V" /\ at(3).break = "T"

-----------------------------------------------------------------------------
(* The parts of an inductive invariant.                                    *)

(* The query is the text, and the parts of the answer are empty before     *)
(* their phase.                                                            *)
PhaseInv ==
  /\ text \in Seq(DOMAIN CodePoint)
  /\ phase \in {"typing", "filtering", "sorting"}
  /\ index \in 0..Len(Candidates)
  /\ phase # "typing" => query = NewWord(text)
  /\ phase = "typing" => index = 0
  /\ phase # "sorting" => sorted = <<>>

(* The matches are those of the candidates the loop has seen.              *)
MatchesInv ==
  /\ ToSet(matches) =
       {[index  |-> i,
         result |-> QueryMatchResult(Candidates[i], query.characters)] :
            i \in {i \in 1..index :
                     /\ IsPossible(Candidates[i])
                     /\ QueryMatchResult(Candidates[i], query.characters)
                          .isSubsequence}}
  /\ matches \in Seq(ToSet(matches))

(* What is sorted comes from the matches, each before what is not less.    *)
SortedInv ==
  /\ sorted \in Seq(ToSet(matches)) /\ Len(sorted) <= Kept(Len(matches))
  /\ \A i, j \in DOMAIN sorted :
       i < j => ~ LessThan(sorted[j].result, sorted[i].result)
  /\ \A m \in ToSet(matches) \ ToSet(sorted), i \in DOMAIN sorted :
       ~ LessThan(m.result, sorted[i].result)

IInv == PhaseInv /\ MatchesInv /\ SortedInv
=============================================================================
