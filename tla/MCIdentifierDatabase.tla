------------------------- MODULE MCIdentifierDatabase -------------------------
(* A small instance of IdentifierDatabase for TLC: two files of one        *)
(* filetype, one of them known from a tag file too, and keywords; another  *)
(* filetype with one file.                                                 *)
EXTENDS IdentifierDatabase

CONSTANTS t1, t2

Buffer == <<"cpp", "a.cpp">>
Header == <<"cpp", "a.h">>
Syntax == <<"cpp", "syntax">>
Script == <<"py", "a.py">>

MCPlaces == {Buffer, Header, Syntax, Script}
MCBufferPlaces == {Buffer, Script}
MCSyntaxPlaces == {Syntax}
MCTexts == {"", "foo", "fob", "fab", "long"}
MCRanking == "f" :> <<"fab", "fob", "foo">>
MCBufferContents == {<<>>, <<"foo", "fob", "foo">>}
MCKeywords == <<"fab">>
MCTagContents ==
  <<Header :> <<"foo">>, Header :> <<"long", "fob">> @@ Buffer :> <<"foo">> >>

(* Without the other filetype, no iterator becomes invalid. *)
RacePlaces == {Buffer, Header, Syntax}
RaceBufferPlaces == {Buffer}
=============================================================================
