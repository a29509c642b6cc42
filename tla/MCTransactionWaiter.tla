------------------------- MODULE MCTransactionWaiter -------------------------
(* The default states, a caller for whom a revert is an error, one who drops  *)
(* REJECTED from the error states; one who waits for L1, and one for whom only *)
(* the execution counts.                                                       *)
EXTENDS TransactionWaiter

MCErrorChoices == {{"REJECTED"}, {"REJECTED", "REVERTED"}, {"REVERTED"}}

MCSuccessChoices ==
  {{"SUCCEEDED", "ACCEPTED_ON_L2", "ACCEPTED_ON_L1"}, {"ACCEPTED_ON_L1"},
   {"SUCCEEDED"}}
==============================================================================
