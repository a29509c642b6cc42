------------------------ MODULE TransactionWaiterProof ------------------------
(***************************************************************************)
(* The safety of waitForTransaction(), for every number of retries and     *)
(* every choice of success and error states that tell how it ended.        *)
(***************************************************************************)
EXTENDS TransactionWaiter, TLAPS

\* The retries left are those the requests have not used.
CountInv ==
  /\ polls <= Retries => retries = Retries - polls
  /\ polls = PollCap => retries = 0

IInv ==
  /\ TypeOK
  /\ CountInv
  /\ NoEarlyTimeout
  /\ ErrorStateIsReal
  /\ SuccessIsReal
  /\ pc \in {"receipt", "returned"} => ~InErrorState(tx)

\* A status that says how the transaction ended, whenever it was read, agrees with
\* its present one.
LEMMA ReportsAgree ==
  ASSUME TypeOK, NEW s \in Reported
  PROVE  /\ InErrorState(s) => InErrorState(tx)
         /\ InSuccessState(s) => InSuccessState(tx)
         /\ InSuccessState(s) /\ ~InErrorState(s) => ~InErrorState(tx)
<1>1. errorStates \subseteq {"REJECTED", "REVERTED"}
  BY StatesAssumption DEF TypeOK
<1>2. /\ successStates \intersect {"NOT_RECEIVED", "RECEIVED", "REJECTED", "none"} = {}
      /\ "ACCEPTED_ON_L2" \in successStates => "ACCEPTED_ON_L1" \in successStates
  BY StatesAssumption DEF TypeOK
<1>3. CASE s = tx
  BY <1>3
<1>4. CASE s = Received
  BY <1>1, <1>2, <1>4 DEF Received, Status, InErrorState, InSuccessState, States
<1>5. CASE s \in Accepted("ACCEPTED_ON_L2") /\ tx \in Included /\ s.exe = tx.exe
  <2>1. s.fin = "ACCEPTED_ON_L2" /\ tx.fin \in {"ACCEPTED_ON_L2", "ACCEPTED_ON_L1"}
    BY <1>5 DEF Accepted, Included, Status
  <2> QED BY <1>1, <1>2, <1>5, <2>1 DEF InErrorState, InSuccessState, States
<1> QED BY <1>3, <1>4, <1>5 DEF Reported

\* Once the transaction is in an error or success state it stays in it.
LEMMA OutcomesLast ==
  ASSUME TypeOK, NetworkAdvances
  PROVE  /\ InErrorState(tx) => InErrorState(tx)'
         /\ InSuccessState(tx) => InSuccessState(tx)'
         /\ InSuccessState(tx) /\ ~InErrorState(tx) => ~InErrorState(tx)'
         /\ tx' \in Statuses
<1>1. errorStates \subseteq {"REJECTED", "REVERTED"}
  BY StatesAssumption DEF TypeOK
<1>2. /\ successStates \intersect {"NOT_RECEIVED", "RECEIVED", "REJECTED", "none"} = {}
      /\ "ACCEPTED_ON_L2" \in successStates => "ACCEPTED_ON_L1" \in successStates
  BY StatesAssumption DEF TypeOK
<1>3. UNCHANGED <<errorStates, successStates>> /\ tx' \in NextStatuses
  BY DEF NetworkAdvances
<1>4. CASE tx \in {Unknown, Received}
  <2>1. ~InErrorState(tx) /\ ~InSuccessState(tx)
    <3>1. tx.fin \in {"NOT_RECEIVED", "RECEIVED"} /\ tx.exe = "none"
      BY <1>4 DEF Unknown, Received, Status
    <3>2. ~InErrorState(tx)
      BY <1>1, <3>1 DEF InErrorState, States
    <3>3. ~InSuccessState(tx)
      BY <1>2, <3>1 DEF InSuccessState, States
    <3> QED BY <3>2, <3>3
  <2>2. tx' \in Statuses
    BY <1>3, <1>4 DEF NextStatuses, Statuses, Included
  <2> QED BY <2>1, <2>2
<1>5. CASE tx.fin = "ACCEPTED_ON_L2" /\ tx \notin {Unknown, Received}
  <2>1. tx' = Status("ACCEPTED_ON_L1", tx.exe)
    BY <1>3, <1>5 DEF NextStatuses
  <2>2. tx'.fin = "ACCEPTED_ON_L1" /\ tx'.exe = tx.exe
    BY <2>1 DEF Status
  <2>3. tx.exe \in ExecutionStates
    BY <1>5 DEF TypeOK, Statuses, Included, Accepted, Status, Rejected
  <2>4. tx' \in Statuses
    BY <2>1, <2>3 DEF Statuses, Included, Accepted
  <2> QED BY <1>1, <1>2, <1>3, <1>5, <2>2, <2>4 DEF InErrorState, InSuccessState, States
<1> QED BY <1>3, <1>4, <1>5 DEF NextStatuses

------------------------------------------------------------------------------
LEMMA InitIInv == Init => IInv
<1> SUFFICES ASSUME Init PROVE IInv
  OBVIOUS
<1>1. TypeOK
  BY RetriesAssumption DEF Init, TypeOK, Statuses, PollCap
<1>2. CountInv
  BY RetriesAssumption DEF Init, CountInv, PollCap, Ended
<1> QED BY <1>1, <1>2 DEF Init, IInv, NoEarlyTimeout, ErrorStateIsReal, SuccessIsReal

\* What a request does to the counters.
LEMMA SpendCounts ==
  ASSUME IInv, Spend
  PROVE  /\ CountInv'
         /\ retries' \in 0 .. Retries /\ polls' \in 0 .. PollCap
         /\ OutOfRetries => polls' = PollCap
<1> USE RetriesAssumption DEF PollCap
<1>1. /\ retries \in 0 .. Retries /\ polls \in 0 .. PollCap
      /\ CountInv
  BY DEF IInv, TypeOK
<1>2. CASE polls <= Retries
  BY <1>1, <1>2 DEF Spend, RetriesAfter, CountInv, OutOfRetries
<1>3. CASE polls = PollCap
  BY <1>1, <1>3 DEF Spend, RetriesAfter, CountInv, OutOfRetries
<1> QED BY <1>1, <1>2, <1>3

\* Each turn of a loop, and each step of the network, keeps the invariant.
LEMMA NextIInv ==
  ASSUME IInv, [Next]_vars
  PROVE  IInv'
<1>t. TypeOK /\ CountInv /\ NoEarlyTimeout /\ ErrorStateIsReal /\ SuccessIsReal
  BY DEF IInv
<1>1. CASE NetworkAdvances
  <2>1. UNCHANGED <<errorStates, successStates, pc, retries, polls>>
    BY <1>1 DEF NetworkAdvances
  <2>2. TypeOK'
    BY <1>t, <1>1, <2>1, OutcomesLast DEF TypeOK
  <2>3. CountInv' /\ NoEarlyTimeout'
    BY <1>t, <2>1 DEF CountInv, NoEarlyTimeout, Ended
  <2>4. ErrorStateIsReal' /\ SuccessIsReal'
        /\ (pc \in {"receipt", "returned"} => ~InErrorState(tx))'
    BY <1>t, <1>1, <2>1, OutcomesLast DEF ErrorStateIsReal, SuccessIsReal, IInv
  <2> QED BY <2>2, <2>3, <2>4 DEF IInv
<1>2. CASE StatusFails
  <2>1. /\ UNCHANGED <<tx, errorStates, successStates>> /\ Spend
        /\ pc = "status"
        /\ pc' = IF OutOfRetries THEN "timedOut" ELSE "status"
    BY <1>2 DEF StatusFails, AfterFailure
  <2>2. /\ CountInv' /\ retries' \in 0 .. Retries /\ polls' \in 0 .. PollCap
        /\ (OutOfRetries => polls' = PollCap)
    BY <2>1, SpendCounts
  <2>3. TypeOK'
    BY <1>t, <2>1, <2>2 DEF TypeOK
  <2> QED BY <2>1, <2>2, <2>3 DEF IInv, NoEarlyTimeout, ErrorStateIsReal, SuccessIsReal, PollCap
<1>3. ASSUME NEW s \in Statuses, StatusArrives(s) PROVE IInv'
  <2>1. /\ UNCHANGED <<tx, errorStates, successStates>> /\ Spend
        /\ pc = "status" /\ s \in Reported
        /\ pc' = IF InErrorState(s) THEN "errorState"
                 ELSE IF InSuccessState(s) THEN "receipt" ELSE "status"
    BY <1>3 DEF StatusArrives, IsError, IsSuccess
  <2>2. /\ CountInv' /\ retries' \in 0 .. Retries /\ polls' \in 0 .. PollCap
    BY <2>1, SpendCounts
  <2>3. TypeOK'
    BY <1>t, <2>1, <2>2 DEF TypeOK
  <2>4. /\ InErrorState(s) => InErrorState(tx)
        /\ InSuccessState(s) => InSuccessState(tx)
        /\ InSuccessState(s) /\ ~InErrorState(s) => ~InErrorState(tx)
    BY <1>t, <2>1, ReportsAgree
  <2>5. (InErrorState(tx) <=> InErrorState(tx)') /\ (InSuccessState(tx) <=> InSuccessState(tx)')
    BY <2>1 DEF InErrorState, InSuccessState
  <2> QED BY <2>1, <2>2, <2>3, <2>4, <2>5
          DEF IInv, NoEarlyTimeout, ErrorStateIsReal, SuccessIsReal
<1>4. CASE ReceiptFails
  <2>1. /\ UNCHANGED <<tx, errorStates, successStates>> /\ Spend
        /\ pc = "receipt"
        /\ pc' = IF OutOfRetries THEN "timedOut" ELSE "receipt"
    BY <1>4 DEF ReceiptFails
  <2>2. /\ CountInv' /\ retries' \in 0 .. Retries /\ polls' \in 0 .. PollCap
        /\ (OutOfRetries => polls' = PollCap)
    BY <2>1, SpendCounts
  <2>3. TypeOK'
    BY <1>t, <2>1, <2>2 DEF TypeOK
  <2>4. (InErrorState(tx) <=> InErrorState(tx)') /\ (InSuccessState(tx) <=> InSuccessState(tx)')
    BY <2>1 DEF InErrorState, InSuccessState
  <2> QED BY <1>t, <2>1, <2>2, <2>3, <2>4
          DEF IInv, NoEarlyTimeout, ErrorStateIsReal, SuccessIsReal, PollCap
<1>5. CASE ReceiptArrives
  <2>1. /\ UNCHANGED <<tx, errorStates, successStates>> /\ Spend
        /\ pc = "receipt" /\ pc' = "returned"
    BY <1>5 DEF ReceiptArrives
  <2>2. /\ CountInv' /\ retries' \in 0 .. Retries /\ polls' \in 0 .. PollCap
    BY <2>1, SpendCounts
  <2>3. TypeOK'
    BY <1>t, <2>1, <2>2 DEF TypeOK
  <2>4. (InErrorState(tx) <=> InErrorState(tx)') /\ (InSuccessState(tx) <=> InSuccessState(tx)')
    BY <2>1 DEF InErrorState, InSuccessState
  <2> QED BY <1>t, <2>1, <2>2, <2>3, <2>4
          DEF IInv, NoEarlyTimeout, ErrorStateIsReal, SuccessIsReal
<1>6. CASE UNCHANGED vars
  BY <1>6 DEF vars, IInv, TypeOK, CountInv, Ended, NoEarlyTimeout, ErrorStateIsReal,
              SuccessIsReal, InErrorState, InSuccessState
<1> QED BY <1>1, <1>2, <1>3, <1>4, <1>5, <1>6 DEF Next, Poll

THEOREM Inductive == Spec => []IInv
<1>1. IInv /\ [Next]_vars => IInv'
  BY NextIInv
<1> QED BY <1>1, InitIInv, PTL DEF Spec

\* The waiter's variables keep their types, and `retries` its bounds, whatever the
\* node answers and however often it fails.
THEOREM TypeCorrect == Spec => []TypeOK
<1>1. IInv => TypeOK
  BY DEF IInv
<1> QED BY <1>1, Inductive, PTL

\* waitForTransaction() returns only a transaction in a success state and in no error
\* state, and throws an error state only of one in it, however old the answers were.
THEOREM OutcomeIsReal == Spec => []OutcomeTold
<1>1. IInv => OutcomeTold
  BY DEF IInv, OutcomeTold, NoErrorStateReturned
<1> QED BY <1>1, Inductive, PTL

\* It never times out before it has sent 1 + retries requests.
THEOREM TimeoutNotEarly == Spec => []NoEarlyTimeout
<1>1. IInv => NoEarlyTimeout
  BY DEF IInv
<1> QED BY <1>1, Inductive, PTL
==============================================================================
