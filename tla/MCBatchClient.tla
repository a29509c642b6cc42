---------------------------- MODULE MCBatchClient ----------------------------
(***************************************************************************)
(* BatchClient on three concurrent calls.                                  *)
(***************************************************************************)
EXTENDS BatchRefinement

CONSTANTS c1, c2, c3, x, y

MCCalls == {c1, c2, c3}

\* Ids are chosen by the client or, once each, by the caller.
MCIdChoices == {NoId, x, y}
==============================================================================
