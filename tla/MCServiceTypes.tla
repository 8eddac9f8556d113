--------------------------- MODULE MCServiceTypes ---------------------------
(***************************************************************************)
(* ServiceTypes for model checking: the sample values of the fields.       *)
(***************************************************************************)
EXTENDS ServiceTypes

\* two numbers that differ in their first and in their second byte
MCNumbers == {1, 258}

\* the empty text and a text of one byte
MCTexts == {<<>>, <<65>>}

\* a structure of one byte and one of two
MCStructures == {<<0>>, <<1, 7>>}

\* nothing follows, or the first byte of the next value
MCFollowers == {<<>>, <<9>>}

=============================================================================
