------------------------------ MODULE Word ------------------------------
(***************************************************************************)
(* Words: sequences of code points broken into characters, with the loop   *)
(* and the flags of BreakCodePointsIntoCharacters (cpp/ycm/Word.cpp).      *)
(***************************************************************************)
EXTENDS Character

Extending == {"EXTEND", "ZWJ", "SPACINGMARK"}

Controls == {"CONTROL", "CR", "LF"}

(* The break properties that a code point of property previous joins.      *)
Joined(previous, w) ==
  CASE previous = "CR"                 -> {"LF"}
    [] previous \in {"CONTROL", "LF"}  -> {}
    [] previous = "L"                  -> Extending \cup {"L", "V", "LV", "LVT"}
    [] previous \in {"LV", "V"}        -> Extending \cup {"V", "T"}
    [] previous \in {"LVT", "T"}       -> Extending \cup {"T"}
    [] previous = "ZWJ"                ->
         Extending \cup (IF w.emoji THEN {"EXTPICT"} ELSE {})
    [] previous = "REGIONAL_INDICATOR" ->
         Extending \cup (IF w.odd THEN {} ELSE {"REGIONAL_INDICATOR"})
    [] OTHER                           -> Extending

(* Whether a break is allowed, and the flags after it: within_emoji_modifier *)
(* and is_regional_indicator_nb_odd.                                         *)
GraphemeBreakAllowed(previous, current, w) ==
  [allowed |-> IF previous = "PREPEND" THEN current \in Controls
               ELSE current \notin Joined(previous, w),
   emoji   |-> CASE previous = "EXTEND"  ->
                      w.emoji /\ current \in {"EXTEND", "ZWJ"}
                 [] previous = "ZWJ"     -> w.emoji /\ current \in Extending
                 [] previous = "EXTPICT" ->
                      w.emoji \/ current \in {"EXTEND", "ZWJ"}
                 [] OTHER                -> w.emoji,
   odd     |-> CASE previous = "REGIONAL_INDICATOR" ->
                      current = previous /\ ~ w.odd
                 [] previous = "ZWJ" -> w.odd /\ current \notin Extending
                 [] OTHER            -> w.odd]

(* Mutant: whether a linker was seen is forgotten at the next code point.  *)
IndicConjunctBreakAllowed_Forgets(previous, current, w) ==
  LET goesOn == current \in {"EXTEND", "LINKER"}
      within == goesOn /\ (previous = "CONSONANT" \/ w.within)
      ends   == current = "CONSONANT" /\ (IF previous = "EXTEND" THEN w.seen
                                                                 ELSE w.within)
  IN  IF previous = "None"
      THEN [allowed |-> TRUE, within |-> FALSE, seen |-> FALSE]
      ELSE [allowed |-> ~ within /\ (previous = "CONSONANT" \/ ~ ends),
            within  |-> within,
            seen    |-> previous = "LINKER" /\ within]

(* The same for conjuncts, with within_indic_conjunct_modifier and         *)
(* seen_linker.                                                            *)
IndicConjunctBreakAllowed(previous, current, w) ==
  LET goesOn == current \in {"EXTEND", "LINKER"}
      within == goesOn /\ (previous = "CONSONANT" \/ w.within)
      ends   == current = "CONSONANT" /\ (IF previous = "EXTEND" THEN w.seen
                                                                 ELSE w.within)
  IN  IF previous = "None"
      THEN [allowed |-> TRUE, within |-> FALSE, seen |-> FALSE]
      ELSE [allowed |-> ~ within /\ (previous = "CONSONANT" \/ ~ ends),
            within  |-> within,
            seen    |-> CASE previous = "CONSONANT" -> FALSE
                          [] previous = "LINKER"    -> within
                          [] OTHER                  -> goesOn /\ w.seen]

NoWord == [characters |-> <<>>, emoji |-> FALSE, odd |-> FALSE,
           within |-> FALSE, seen |-> FALSE]

(* normal joins the last character unless both allow a break. *)
Extend(characters, normal, grapheme, indic) ==
  [characters |-> IF grapheme.allowed /\ indic.allowed
                  THEN Append(characters, normal)
                  ELSE [characters EXCEPT ![Len(characters)] = @ \o normal],
   emoji |-> grapheme.emoji, odd |-> grapheme.odd,
   within |-> indic.within, seen |-> indic.seen]

(* A turn of the loop: code_point follows previous. *)
ReadCodePoint(w, previous, code_point) ==
  LET p == CodePoint[previous]
      c == CodePoint[code_point]
  IN  Extend(w.characters, c.normal,
             GraphemeBreakAllowed(p.break, c.break, w),
             IndicConjunctBreakAllowed(p.indic, c.indic, w))

FirstCodePoint(code_point) ==
  [NoWord EXCEPT !.characters = <<CodePoint[code_point].normal>>]

(* The characters and the flags after the last code point.                 *)
ReadCodePoints(text) ==
  LET read[n \in 0..Len(text)] ==
        CASE n = 0 -> NoWord
          [] n = 1 -> FirstCodePoint(text[1])
          [] OTHER -> ReadCodePoint(read[n - 1], text[n - 1], text[n])
  IN  read[Len(text)]

BreakCodePointsIntoCharacters(text) == ReadCodePoints(text).characters

(* Mutant: the bytes of the text, and not of the bases of its characters.  *)
BytesPresent_OfText(characters) ==
  UNION {CodePoint[c].bytes : c \in
    UNION {ToSet(characters[i].normal) : i \in DOMAIN characters}}

BytesPresent(characters) ==
  UNION {CodePoint[c].bytes : c \in
    UNION {ToSet(characters[i].base) : i \in DOMAIN characters}}

Characters(text) ==
  ForEach(NewCharacter, BreakCodePointsIntoCharacters(text))

WordOf(characters) ==
  [characters |-> characters, bytes |-> BytesPresent(characters)]

NewWord(text) == WordOf(Characters(text))

ContainsBytes(word, other) == other.bytes \subseteq word.bytes
=============================================================================
