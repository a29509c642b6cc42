--------------------------- MODULE BatchRefinement ---------------------------
(***************************************************************************)
(* The batching client seen as a RequestReply service: a request is open   *)
(* from fetch() until a POST carries it.                                   *)
(***************************************************************************)
EXTENDS BatchClient

InBatch(c) ==
  \E b \in DOMAIN batches :
    \E i \in DOMAIN batches[b].body : batches[b].body[i] = c

StageOf(c) ==
  IF ~Started(c) THEN "idle"
  ELSE IF Settled(c) THEN pc[c]
  ELSE IF InBatch(c) THEN "posted" ELSE "open"

Abstract == INSTANCE RequestReply WITH
  stage <- [c \in Calls |-> StageOf(c)],
  answer <- result

\* The batching client implements RequestReply: one POST takes every open
\* request, each request leaves once, and each call ends with its own answer
\* or an error, only after its request was posted.
ImplementsRequestReply == Abstract!RRSpec
==============================================================================
