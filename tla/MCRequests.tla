----------------------------- MODULE MCRequests -----------------------------
(***************************************************************************)
(* Requests on small instances: two servers, requests of one plain kind    *)
(* (a completion, say, that the editor repeats while typing) and range     *)
(* formatting, which may be synchronous.                                   *)
(***************************************************************************)
EXTENDS Requests

CONSTANTS s1, s2, completion, rangeFormatting

MCServer == {s1, s2}
MCKey == {completion, rangeFormatting}
MCRangeKey == {rangeFormatting}
=============================================================================
