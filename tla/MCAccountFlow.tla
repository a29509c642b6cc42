---- MODULE MCAccountFlow ----
(* Three calls for TLC: what two accounts may do at once. *)
EXTENDS AccountFlow

CONSTANTS c1, c2, c3, a, b, p, q

Job(account, method, addr, fee) ==
  [account |-> account, method |-> method, address |-> addr, feeGiven |-> fee]

\* c1 declares and deploys; c2 does anything at the same address, for the same account
\* or for the other one, which may give the fee; c3 is an execute() of the account a,
\* which takes nonces, or a deployment of b.
MCJobChoices ==
  {[c \in {c1, c2, c3} |-> CASE c = c1 -> Job(a, "declareAndDeploy", p, FALSE)
                              [] c = c2 -> two
                              [] c = c3 -> three] :
     two \in {Job(acc, m, p, acc = b) : acc \in {a, b}, m \in Methods}
              \union {Job(b, m, p, FALSE) : m \in {"deployContract", "declareAndDeploy"}},
     three \in {Job(a, "execute", p, FALSE), Job(b, "deployContract", q, FALSE)}}
====
