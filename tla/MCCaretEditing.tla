---------------------------- MODULE MCCaretEditing ----------------------------
(***************************************************************************)
(* CaretEditing on a small instance.                                       *)
(***************************************************************************)
EXTENDS CaretEditing

OneByte == <<"a">>

\* A codepoint of two bytes, and two lines.
CodepointAndLines == {<<<<"lead", "cont">>>>, <<<<"a">>, << >>>>}

OneAndTwo == {<<"a">>, <<"a", "a">>}
=============================================================================
