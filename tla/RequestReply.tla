----------------------------- MODULE RequestReply -----------------------------
(***************************************************************************)
(* What a batching client promises its callers, whatever it does inside:   *)
(* each call's request is posted exactly once, in a group of requests that *)
(* were open together, and the call then ends with the answer to its own   *)
(* request or with an error.                                               *)
(***************************************************************************)
EXTENDS FiniteSets

CONSTANTS
  Calls,   \* the calls
  NoCall   \* no result

VARIABLES
  stage,   \* stage of each call
  answer   \* the call whose request the result answers

rrVars == <<stage, answer>>

Open(c) ==
  /\ stage[c] = "idle"
  /\ stage' = [stage EXCEPT ![c] = "open"]
  /\ UNCHANGED answer

\* All the open requests leave in one POST.
Post ==
  /\ \E c \in Calls : stage[c] = "open"
  /\ stage' = [c \in Calls |-> IF stage[c] = "open" THEN "posted" ELSE stage[c]]
  /\ UNCHANGED answer

Answer(c) ==
  /\ stage[c] = "posted"
  /\ stage' = [stage EXCEPT ![c] = "answered"]
  /\ answer' = [answer EXCEPT ![c] = c]

Fail(c) ==
  /\ stage[c] = "posted"
  /\ stage' = [stage EXCEPT ![c] = "failed"]
  /\ UNCHANGED answer

RRInit ==
  /\ stage = [c \in Calls |-> "idle"]
  /\ answer = [c \in Calls |-> NoCall]

RRNext == Post \/ \E c \in Calls : Open(c) \/ Answer(c) \/ Fail(c)

RRSpec == RRInit /\ [][RRNext]_rrVars
==============================================================================
