----------------------------- MODULE BlockWaiter -----------------------------
(***************************************************************************)
(* waitForBlock() of src/src/provider/rpc.ts: ask the node for its block   *)
(* number until it is the target, at most `retries` times.  The chain      *)
(* grows by itself; a node may report an older height than another did.    *)
(***************************************************************************)
EXTENDS Naturals

CONSTANTS
  Retries,    \* the retries of the channel
  MaxHeight   \* bound on the height of the chain

ASSUME BlockAssumption == Retries \in Nat /\ MaxHeight \in Nat

VARIABLES
  height,     \* the last block of the chain
  wanted,     \* the argument: a block number, "pending" or "latest"
  target,     \* targetBlock, once it is known
  pc,         \* where the call is
  tries,      \* retriesCount, 0 where the code goes below it
  polls,      \* how many times the loop has asked for the height, up to PollCap
  seen        \* the last height it was told

vars == <<height, wanted, target, pc, tries, polls, seen>>

Heights == 0 .. MaxHeight

Pending == <<"pending", 0>>
Latest == <<"latest", 0>>
Blocks == {<<"number", n>> : n \in Heights} \union {Pending, Latest}

PollCap == IF Retries > 0 THEN Retries ELSE 1

------------------------------------------------------------------------------
ChainGrows ==
  /\ height < MaxHeight
  /\ height' = height + 1
  /\ UNCHANGED <<wanted, target, pc, tries, polls, seen>>

\* The node a request reaches may be behind the chain.
Answers == 0 .. height

\* A failed getBlockNumber() rejects the promise of waitForBlock().
RequestFails ==
  /\ pc \in {"start", "polling"}
  /\ wanted # Latest
  /\ pc' = "failed"
  /\ UNCHANGED <<height, wanted, target, tries, polls, seen>>

------------------------------------------------------------------------------
\* `latest` returns at once.
StartLatest ==
  /\ pc = "start"
  /\ wanted = Latest
  /\ pc' = "returned"
  /\ UNCHANGED <<height, wanted, target, tries, polls, seen>>

TargetBlock(current) == IF wanted = Pending THEN current + 1 ELSE wanted[2]

\* The first getBlockNumber(): no pause if the block exists already.
Start(current) ==
  /\ pc = "start"
  /\ wanted # Latest
  /\ current \in Answers
  /\ target' = TargetBlock(current)
  /\ pc' = IF target' <= current THEN "returned" ELSE "polling"
  /\ tries' = Retries
  /\ seen' = current
  /\ UNCHANGED <<height, wanted, polls>>

\* Mutant: the tries are never looked at.
NeverLast == FALSE

LastTry == tries <= 1

\* Mutant: the block before the target is enough.
Near(current) == current + 1 >= target

IsTargetBlock(current) == current = target

TriesAfter == IF tries > 0 THEN tries - 1 ELSE 0

\* One turn of the loop: retriesCount is looked at whether or not the target is
\* there.
Turn(current) ==
  /\ pc = "polling"
  /\ current \in Answers
  /\ seen' = current
  /\ polls' = IF polls < PollCap THEN polls + 1 ELSE polls
  /\ tries' = TriesAfter
  /\ pc' = IF LastTry THEN "timedOut"
           ELSE IF IsTargetBlock(current) THEN "returned"
           ELSE "polling"
  /\ UNCHANGED <<height, wanted, target>>

------------------------------------------------------------------------------
Init ==
  /\ height \in Heights
  /\ wanted \in Blocks
  /\ target = 0
  /\ pc = "start"
  /\ tries = Retries
  /\ polls = 0
  /\ seen = 0

Wait ==
  \/ StartLatest
  \/ \E current \in Heights : Start(current) \/ Turn(current)
  \/ RequestFails

Next == ChainGrows \/ Wait

Spec == Init /\ [][Next]_vars

WaitGoesOn == StartLatest \/ \E current \in Heights : Start(current) \/ Turn(current)
------------------------------------------------------------------------------
(* Properties *)

\* waitForBlock() returns only when the chain has the block, even if the nodes
\* that answer are behind one another.
BlockExists == pc = "returned" /\ wanted # Latest => target <= height

\* It gives up only after all its tries.
NoEarlyTimeout == pc = "timedOut" => polls = PollCap

\* Either way the caller is told the truth about the block and the wait.
OutcomeTold == BlockExists /\ NoEarlyTimeout
==============================================================================
