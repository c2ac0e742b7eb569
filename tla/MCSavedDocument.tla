---------------------------- MODULE MCSavedDocument ----------------------------
(***************************************************************************)
(* SavedDocument on documents of few rows and few marks.                   *)
(***************************************************************************)
EXTENDS SavedDocument

PlainFormat ==
  [face |-> Inherit, size |-> Inherit, color |-> Inherit, highlight |-> Inherit,
   style |-> Inherit]

Defaults ==
  [face |-> "garamond", size |-> "medium", color |-> "auto", highlight |-> "none",
   style |-> "regular"]

\* Plain; and bold, pinned to the face that the document has anyway.
SomeFormats ==
  {PlainFormat, [PlainFormat EXCEPT !.face = "garamond", !.style = "bold"]}
=============================================================================
