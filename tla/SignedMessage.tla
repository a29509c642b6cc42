--------------------------- MODULE SignedMessage ---------------------------
(***************************************************************************)
(* A message of an account: signed (src/src/account/default.ts,            *)
(* signMessage), then verified against another message, with the public    *)
(* key (src/src/utils/typedData.ts, verifyMessage) or by the account's     *)
(* contract (src/src/provider/rpc.ts, verifyMessageInStarknet); and proofs *)
(* for the leaves of a merkletree of such a message.                       *)
(*                                                                         *)
(* All accounts have one key, so that only what is hashed keeps their      *)
(* signatures apart.                                                       *)
(***************************************************************************)
EXTENDS TypedData

CONSTANTS
  Messages,   \* a sequence of messages
  Accounts,   \* their addresses, felts
  Contracts,  \* records [names, accept, refuse]: what is deployed for an account
  Options,    \* records [names, ok, nok, errors]: what verifyMessageInStarknet is given
  Forests,    \* the lists of leaves
  Sample      \* messages that are verified in Starknet whatever was signed

VARIABLES
  phase,
  message, account,   \* what is signed, by its place in Messages
  signature,          \* the hash that was signed
  asked,              \* what is verified: a message, an account, and how
  tries,              \* calls of the account's contract that told nothing
  lost,               \* whether a call failed on the way
  verdict,
  leaves, path        \* a tree and a proof

vars == <<phase, message, account, signature, asked, tries, lost, verdict, leaves, path>>

Unset == <<"unset">>
Nothing == [how |-> "nothing"]

HashOf == [i \in DOMAIN Messages, a \in Accounts |-> getMessageHash(Messages[i], a)]

------------------------------------------------------------------------------

Init ==
  /\ phase = "start" /\ message \in DOMAIN Messages /\ account \in Accounts
  /\ signature = Unset /\ asked = Nothing /\ tries = 0 /\ lost = FALSE /\ verdict = "none"
  /\ leaves = <<>> /\ path = <<>>

\* A message without a hash is not signed: signMessage() throws.
signMessage ==
  /\ phase = "start" /\ leaves = <<>>
  /\ signature' = HashOf[message, account]
  /\ phase' = IF signature' = Throws THEN "done" ELSE "signed"
  /\ UNCHANGED <<message, account, asked, tries, lost, verdict, leaves, path>>

Outcome(h) == IF h = Throws THEN "throws" ELSE IF h = signature THEN "valid" ELSE "invalid"

verifyMessage(i, a) ==
  /\ phase = "signed"
  /\ asked' = [message |-> i, account |-> a, how |-> "locally"]
  /\ verdict' = Outcome(HashOf[i, a])
  /\ phase' = "done"
  /\ UNCHANGED <<message, account, signature, tries, lost, leaves, path>>

\* Whether the contract would accept: it compares with the hash it is given.
Accepts == HashOf[asked.message, asked.account] = signature

verifyMessageInStarknet(i, a, contract, options) ==
  /\ phase = "signed"
  /\ asked' = [message |-> i, account |-> a, how |-> "in Starknet",
               contract |-> contract, options |-> options]
  /\ IF HashOf[i, a] = Throws
     THEN verdict' = "throws" /\ phase' = "done"
     ELSE verdict' = verdict /\ phase' = "asking"
  /\ UNCHANGED <<message, account, signature, tries, lost, leaves, path>>

\* What the contract answers to an entry point: <<"value", felt>>, an empty
\* list, or <<"error", phrases>>, with the phrases its text holds.
Answer(name) ==
  IF name \notin asked.contract.names THEN <<"error", {"no such entry point"}>>
  ELSE IF Accepts THEN asked.contract.accept ELSE asked.contract.refuse

\* A mutant: every error is a no.
JudgedByError(answer) ==
  LET known == asked.options
  IN CASE answer[1] = "value" /\ answer[2] \in known.nok -> "invalid"
       [] answer[1] = "value" /\ (known.ok = {} \/ answer[2] \in known.ok) -> "valid"
       [] OTHER -> "invalid"

\* A value that is not among the refusals is taken for a yes, unless the caller
\* gave the values that are.
Judged(answer) ==
  LET known == asked.options
  IN CASE answer[1] = "value" /\ answer[2] \in known.nok -> "invalid"
       [] answer[1] = "value" /\ (known.ok = {} \/ answer[2] \in known.ok) -> "valid"
       [] answer[1] = "error" /\ answer[2] \intersect known.errors # {} -> "invalid"
       [] OTHER -> "unknown"

Hears(answer) ==
  LET told == Judged(answer)
      last == tries + 1 = Len(asked.options.names)
  IN /\ verdict' = IF told # "unknown" THEN told ELSE IF last THEN "throws" ELSE "none"
     /\ tries' = IF told = "unknown" THEN tries + 1 ELSE tries
     /\ phase' = IF told # "unknown" \/ last THEN "done" ELSE "asking"
     /\ UNCHANGED <<message, account, signature, asked, leaves, path>>

CallAnswers ==
  /\ phase = "asking"
  /\ Hears(Answer(asked.options.names[tries + 1]))
  /\ UNCHANGED lost

CallFails ==
  /\ phase = "asking"
  /\ Hears(<<"error", {"no connection"}>>)
  /\ lost' = TRUE

------------------------------------------------------------------------------
(* Proofs of the leaves, of a page that has the tree.                       *)

BuildTree(list) ==
  /\ phase = "start" /\ message = 1 /\ account = Zero
  /\ leaves' = list
  /\ phase' = IF root(list) = Throws THEN "done" ELSE "tree"
  /\ UNCHANGED <<message, account, signature, asked, tries, lost, verdict, path>>

Prove(leaf) ==
  /\ phase = "tree"
  /\ asked' = [leaf |-> leaf, how |-> "by proof"]
  /\ path' = getProof(build(leaves), leaf)
  /\ phase' = IF Fails(path') THEN "done" ELSE "proved"
  /\ UNCHANGED <<message, account, signature, tries, lost, verdict, leaves>>

LeafFelts == {N(n) : n \in 0..3}

Levels == build(leaves)

\* What a path is checked of: a felt, or any node of the tree.
Checkable == LeafFelts \union UNION {Range(Levels[i]) : i \in DOMAIN Levels}

\* The paths that are checked: the proof that was made and its later parts.
EndsOfPath == {SubSeq(path, i, Len(path)) : i \in 1..(Len(path) + 1)}

Check(node, way) ==
  /\ phase = "proved"
  /\ asked' = [leaf |-> node, how |-> "by proof", of |-> asked.leaf, way |-> way]
  /\ verdict' = IF proofMerklePath(root(leaves), node, way) THEN "valid" ELSE "invalid"
  /\ phase' = "done"
  /\ UNCHANGED <<message, account, signature, tries, lost, leaves, path>>

Next ==
  \/ signMessage
  \/ \E i \in DOMAIN Messages, a \in Accounts : verifyMessage(i, a)
  \/ \E i \in {message} \union Sample, a \in Accounts :
       \E contract \in Contracts, options \in Options : verifyMessageInStarknet(i, a, contract, options)
  \/ CallAnswers
  \/ CallFails
  \/ \E list \in Forests : BuildTree(list)
  \/ \E leaf \in LeafFelts : Prove(leaf)
  \/ \E node \in Checkable, way \in EndsOfPath : Check(node, way)

Spec == Init /\ [][Next]_vars

------------------------------------------------------------------------------
(* Properties.                                                              *)

HasTree(m) ==
  \E name \in DOMAIN m.types : \E i \in DOMAIN m.types[name] :
    LET type == m.types[name][i].type
    IN type[1] = "merkletree" \/ (type[1] = "array" /\ type[2][1] = "merkletree")

Verified == verdict # "none" /\ asked.how # "by proof"

\* A signature is valid only for a message of the same meaning: the same
\* revision, domain, account, types and values.  The exception is a message that
\* gives a type of the library another definition, since encodeType() and
\* encodeValue() then use different ones.
VerifiedIsSigned ==
  Verified /\ verdict = "valid" =>
    \/ Meaning(Messages[asked.message], asked.account) = Meaning(Messages[message], account)
    \/ RedefinesPreset(Messages[asked.message]) \/ RedefinesPreset(Messages[message])
    \/ asked.how = "in Starknet" /\ ~Accepts

\* A message that means what was signed, with the same types, is verified,
\* however its values are written.  The leaves of a tree have an order.
SignedVerifies ==
  Verified /\ asked.how = "locally" /\ verdict # "valid" =>
    LET m == Messages[message] n == Messages[asked.message]
    IN \/ m.types # n.types \/ m.primaryType # n.primaryType
       \/ HashOf[asked.message, asked.account] = Throws
       \/ Meaning(n, asked.account) # Meaning(m, account)
       \/ HasTree(m)

\* The verdict of Starknet is the one of the account's contract, if the ways in
\* which it says no are among those looked for; a lost call is never a verdict.
VerdictIsContracts ==
  Verified /\ asked.how = "in Starknet" =>
    LET c == asked.contract o == asked.options
        known == IF c.refuse[1] = "value" THEN c.refuse[2] \in o.nok ELSE c.refuse[2] \intersect o.errors # {}
        said == c.accept[1] = "value" /\ (o.ok = {} \/ c.accept[2] \in o.ok)
    IN /\ verdict = "valid" /\ known => Accepts
       /\ verdict = "invalid" => ~Accepts
       /\ verdict = "throws" =>
            \/ lost \/ HashOf[asked.message, asked.account] = Throws
            \/ ~\E i \in DOMAIN o.names : o.names[i] \in c.names
            \/ IF Accepts THEN ~said ELSE ~known

\* Every leaf of a tree has a proof, and this proof verifies of it.
MembersProve ==
  asked.how = "by proof" =>
    /\ Fails(path) => \A i \in DOMAIN leaves : leaves[i] # asked.leaf
    /\ verdict = "invalid" => asked.leaf # asked.of \/ asked.way # path

\* A path that verifies leads to the root from a node as deep as the path is
\* long, or from the zero that fills up an odd level: as long as the tree is high,
\* it verifies of leaves alone.  A shorter one verifies of a branch, and the
\* empty one of the root, since proofMerklePath() is not told the height.
OnlyNodesProve ==
  verdict = "valid" /\ asked.how = "by proof" =>
    LET level == Levels[Len(Levels) - Len(asked.way)]
    IN asked.leaf \in Range(level) \/ (asked.leaf = Zero /\ Len(level) % 2 = 1)

\* getProof()'s proof of a leaf verifies, and what verifies is in the tree, at the
\* level that the path's length tells.
ProofsAreOfMembers == MembersProve /\ OnlyNodesProve
=============================================================================
