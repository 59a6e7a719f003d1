----------------------------- MODULE MCFeatures -----------------------------
(***************************************************************************)
(* Instances of the parts for TLC.                                         *)
(***************************************************************************)
EXTENDS Features

MCContents == {<<>>, <<"w", "a">>}
MCNewTexts == {<<>>, <<"a">>, <<"a", "n">>}

MCLabels == {<<"Function", <<"a">> >>, <<"Struct", <<"a", "b">> >>}
MCTexts == {<<"a", "b", "-", "a">>, <<"a", "a", "b", "-">>}

MCMatches == {<<"all", "f">>, <<"all", "g">>, <<"all", "log">>, <<"some", "g">>}

MCReports == {<<0, 1, 4>>, <<1, 1, 1>>, <<1, 1, 0>>}

Action(server, form, kind, title, edit, latent, run) ==
  [server |-> server, form |-> form, kind |-> kind, title |-> title, edit |-> edit,
   latent |-> latent, command |-> run]

MCActions ==
  [s1 |-> {Action("s1", "action", TRUE, TRUE, TRUE, TRUE, TRUE),
           Action("s1", "command", FALSE, FALSE, FALSE, FALSE, TRUE)},
   s2 |-> {Action("s2", "action", TRUE, FALSE, FALSE, TRUE, TRUE),
           Action("s2", "action", FALSE, TRUE, TRUE, TRUE, FALSE)}]

=============================================================================
