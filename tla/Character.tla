------------------------------- MODULE Character -------------------------------
(***************************************************************************)
(* Characters, made of the code points of a grapheme cluster               *)
(* (cpp/ycm/Character.cpp and .h).  A code point is its number; what the   *)
(* Unicode table says of it (cpp/ycm/CodePoint.h) is given.                *)
(***************************************************************************)
EXTENDS Naturals, Sequences, SequencesExt, FiniteSetsExt

CONSTANT
  CodePoint   \* from code points to [normal, folded, swapped : Seq(code point),
              \*   letter, punctuation, upper : BOOLEAN, bytes : set of bytes,
              \*   break, indic : a break property, class : combining class]

(* The sequence of what Op makes of each element. *)
ForEach(Op(_), s) == [i \in DOMAIN s |-> Op(s[i])]

(* What a fold of the code points makes of a sequence of them. *)
Spell(code_points, field) ==
  FlattenSeq([i \in DOMAIN code_points |-> CodePoint[code_points[i]][field]])

(* Mutant: the code points stay in the order they were typed. *)
CanonicalSort_Typed(code_points) == code_points

(* s with c after the last code point that it may not pass. *)
InsertByClass(s, c) ==
  LET kept == {i \in DOMAIN s : \/ CodePoint[c].class = 0
                                \/ CodePoint[s[i]].class <= CodePoint[c].class}
  IN  InsertAt(s, 1 + Max(kept \cup {0}), c)

(* The code points between two of class zero are sorted by their class.    *)
(* std::sort is taken to keep the order of those of the same class.        *)
CanonicalSort(code_points) ==
  LET sort[n \in 0..Len(code_points)] ==
        IF n = 0 THEN <<>> ELSE InsertByClass(sort[n - 1], code_points[n])
  IN  sort[Len(code_points)]

IsMark(c) == CodePoint[c].break \in {"PREPEND", "EXTEND", "SPACINGMARK"}

Some(code_points, field) ==
  \E i \in DOMAIN code_points : CodePoint[code_points[i]][field]

CharacterOf(code_points) ==
  [normal      |-> Spell(code_points, "normal"),
   folded      |-> Spell(code_points, "folded"),
   swapped     |-> Spell(code_points, "swapped"),
   base        |-> FlattenSeq([i \in DOMAIN code_points |->
                                 IF IsMark(code_points[i]) THEN <<>>
                                 ELSE CodePoint[code_points[i]].folded]),
   isBase      |-> \A i \in DOMAIN code_points : ~ IsMark(code_points[i]),
   letter      |-> Some(code_points, "letter"),
   punctuation |-> Some(code_points, "punctuation"),
   upper       |-> Some(code_points, "upper")]

NewCharacter(cluster) == CharacterOf(CanonicalSort(cluster))

EqualsBase(c, other) == c.base = other.base

EqualsIgnoreCase(c, other) == c.folded = other.folded

(* Mutant: marks are ignored in capitals too. *)
MatchesSmart_AnyMarks(c, other) ==
  EqualsBase(c, other) /\ (~ c.upper \/ other.upper)

MatchesSmart(c, other) ==
  \/ c.isBase /\ EqualsBase(c, other) /\ (~ c.upper \/ other.upper)
  \/ ~ c.upper /\ EqualsIgnoreCase(c, other)
  \/ c.normal = other.normal
=============================================================================
