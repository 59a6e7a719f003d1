----------------------------- MODULE MCTextEdits -----------------------------
(* Documents with two wide characters in a line. *)
EXTENDS TextEdits

WideContents == {<<"w", "w">>, <<"a">>}
Insertions == {<<"a">>}

=============================================================================
