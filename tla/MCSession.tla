----------------------------- MODULE MCSession -----------------------------
(***************************************************************************)
(* Session on a small instance: two files in a project root each, one with *)
(* two servers, one with one of these that may be shared between roots;    *)
(* the other one may fail to start.                                        *)
(*                                                                         *)
(* Two questions are asked of it.  Routing and initialization take both    *)
(* files; text synchronization takes the file with one server only, and    *)
(* longer behaviours.                                                      *)
(***************************************************************************)
EXTENDS Session

CONSTANTS n1, n2, r1, r2, fileA, fileB

OneName == {n1}
Other == {n2}
TwoNames == {n1, n2}
BothRoots == {r1, r2}
BothBuffers == {fileA, fileB}
OwnRoots == [f \in BothBuffers |-> IF f = fileA THEN r1 ELSE r2]
OwnNames == [f \in BothBuffers |-> IF f = fileA THEN {n1, n2} ELSE {n1}]

Resolves(q) == \E i \in DOMAIN q : q[i].kind = "resolve"

\* Bound: once the file with two servers was opened the editor makes two versions of
\* each file and sends four messages, and none that is resolved while one is under way.
\* Before that it makes as many versions as there are, and sends more until a restart.
WithinBounds ==
  IF saved[fileA] = 0
  THEN sends < MaxSends \/ restarts = 0
  ELSE /\ sends < MaxSends
       /\ \A b \in Buffer : version[b] < MaxVersion
       /\ ~Resolves(pipe \o pending \o future)

\* The bounds are on what the editor does.
MCNext == Next /\ (UNCHANGED <<version, sends>> \/ WithinBounds')

MCSpec == Init /\ [][MCNext]_vars /\ Fairness
=============================================================================
