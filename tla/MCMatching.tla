------------------------------ MODULE MCMatching ------------------------------
(***************************************************************************)
(* Instance of Matching: a table with code points of every break property, *)
(* letters in both cases with and without marks, and marks of several      *)
(* combining classes.                                                      *)
(***************************************************************************)
EXTENDS Matching, TLC

(* What the table says of a code point that has no case and is not marked. *)
Plain(c, break, bytes) ==
  [normal |-> <<c>>, folded |-> <<c>>, swapped |-> <<c>>, letter |-> FALSE,
   punctuation |-> FALSE, upper |-> FALSE, bytes |-> bytes, break |-> break,
   indic |-> "None", class |-> 0]

Letter(c, other, bytes) ==
  [Plain(c, "OTHER", bytes) EXCEPT !.letter = TRUE, !.swapped = <<other>>]

Capital(c, other, bytes) ==
  [Letter(c, other, bytes) EXCEPT !.upper = TRUE, !.folded = <<other>>]

Mark(c, class, bytes) ==
  [Plain(c, "EXTEND", bytes) EXCEPT !.indic = "EXTEND", !.class = class]

Accented(record, letter, other, mark) ==
  [record EXCEPT !.normal = <<letter, mark>>, !.swapped = <<other, mark>>,
                 !.folded = <<IF record.upper THEN other ELSE letter, mark>>]

Syllable(parts, break, bytes) ==
  [Plain(0, break, bytes) EXCEPT !.normal = parts, !.folded = parts,
                                 !.swapped = parts, !.letter = TRUE]

MCCodePoint ==
  97 :> Letter(97, 65, {97}) @@
  65 :> Capital(65, 97, {65}) @@
  98 :> Letter(98, 66, {98}) @@
  66 :> Capital(66, 98, {66}) @@
  95 :> [Plain(95, "OTHER", {95}) EXCEPT !.punctuation = TRUE] @@
  225 :> Accented(Letter(225, 193, {195, 161}), 97, 65, 769) @@
  193 :> Accented(Capital(193, 225, {195, 129}), 65, 97, 769) @@
  769 :> Mark(769, 230, {204, 129}) @@
  803 :> Mark(803, 220, {204, 163}) @@
  13 :> Plain(13, "CR", {13}) @@
  10 :> Plain(10, "LF", {10}) @@
  1 :> Plain(1, "CONTROL", {1}) @@
  8205 :> [Plain(8205, "ZWJ", {226, 128, 141}) EXCEPT !.indic = "EXTEND"] @@
  127462 :> Plain(127462, "REGIONAL_INDICATOR", {240, 159, 135, 166}) @@
  1536 :> Plain(1536, "PREPEND", {216, 128}) @@
  2307 :> Plain(2307, "SPACINGMARK", {224, 164, 131}) @@
  4352 :> Syllable(<<4352>>, "L", {225, 132, 128}) @@
  4449 :> Syllable(<<4449>>, "V", {225, 133, 161}) @@
  4520 :> Syllable(<<4520>>, "T", {225, 134, 168}) @@
  44032 :> Syllable(<<4352, 4449>>, "LV", {234, 176, 128}) @@
  44033 :> Syllable(<<4352, 4449, 4520>>, "LVT",
                    {234, 176, 129}) @@
  9728 :> Plain(9728, "EXTPICT", {226, 152, 128}) @@
  2325 :> [Plain(2325, "OTHER", {224, 164, 149})
           EXCEPT !.letter = TRUE, !.indic = "CONSONANT"] @@
  2381 :> [Mark(2381, 9, {224, 165, 141}) EXCEPT !.indic = "LINKER"] @@
  2364 :> Mark(2364, 7, {224, 164, 188})

MCQueries == [codePoints |-> {97, 65, 98, 95, 225}, length |-> 3]

(* Every break property in texts of three code points, and the properties  *)
(* that act together (conjuncts, emoji and flags, marks) in longer ones.   *)
MCAlphabets ==
  { [codePoints |-> DOMAIN MCCodePoint \ {98, 66, 95, 193, 803}, length |-> 3],
    MCQueries,
    [codePoints |-> {2325, 2381, 2364, 8205}, length |-> 5],
    [codePoints |-> {9728, 8205, 769, 97}, length |-> 5],
    [codePoints |-> {9728, 8205, 769, 2307, 127462}, length |-> 4],
    [codePoints |-> {65, 225, 769, 803, 2381}, length |-> 4] }

MCTexts ==
  << <<97>>, <<65>>, <<98, 97>>, <<97, 98>>, <<97, 95, 98>>, <<65, 98>>,
     <<97, 66>>, <<66, 97, 97>>, <<225>>, <<97, 769>>, <<193, 98>>, <<>>,
     <<98, 225, 97>>, <<95, 97, 98>>, <<97, 98, 97, 95, 66>>, <<66, 65>>,
     <<97, 97, 98, 65>>, <<98, 95, 97>>, <<98, 98, 97, 65, 98>>,
     <<97, 803, 769, 98>>, <<97, 98, 95, 97, 66>>, <<97, 97>>, <<97>>,
     <<98, 65, 66, 65>>, <<97, 97, 98>>, <<97, 95, 97, 98>> >>

(* No two clusters of up to two code points fold to the same but for     *)
(* their bases.                                                            *)
ASSUME FoldingAssumption ==
  FoldingKeepsBases({NewCharacter(s) :
    s \in UNION {[1..n -> NormalCodePoints] : n \in 0..2}})

(* What is simple of the table: the letters, their marks and syllables,    *)
(* but for what joins code points that are no marks.                       *)
ASSUME SimpleAssumption ==
  LET simple == DOMAIN CodePoint \ {8205, 1536, 2381}
  IN  SimpleScript(simple) /\ Texts \in Seq(Seq(simple))

(* Each of its code points ends a text as what it is decomposed into does. *)
ASSUME DecompositionAssumption ==
  \A c \in DOMAIN CodePoint : DecomposesAlike(c)
=============================================================================
