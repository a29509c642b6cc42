----------------------------- MODULE MCSigners -----------------------------
(***************************************************************************)
(* Two calls at once.  The first tries every kind of transaction with      *)
(* every signer; the second is a short one, of the same signer, of another *)
(* signer of the device, or nothing that the device hears of.              *)
(***************************************************************************)
EXTENDS Signers

MCCallers == {"first", "second"}

MCSignersSet == {"stark", "eth", "old", "new", "other"}

MCClassOf(s) ==
  CASE s = "old" -> "ledger111"
    [] s \in {"new", "other"} -> "ledger221"
    [] OTHER -> s

MCPathOf(s) == s

MCTransports == {"queued", "unordered", "refusing"}

Call(args) == [to |-> <<"to">>, selector |-> <<"selector">>, args |-> args]

\* Parts of three felts: a call without arguments, with one, with two and with
\* five takes one, one, two and three commands.
ShortCall == Call(<<<<"a">>>>)
NoArgsCall == Call(<<>>)
TwoPartCall == Call(<<<<"a">>, <<"b">>>>)
ThreePartCall == Call(<<<<"a">>, <<"b">>, <<"c">>, <<"d">>, <<"e">>>>)

Base ==
  [kind |-> "invoke", version |-> V(3), sender |-> <<"sender">>, chain |-> <<"chain">>,
   nonce |-> <<"nonce">>, maxFee |-> <<"maxFee">>, tip |-> <<"tip">>,
   l1 |-> [amount |-> 1, price |-> 0], l2 |-> [amount |-> 0, price |-> 1],
   paymaster |-> <<>>, deployData |-> <<>>, nonceDAM |-> "L1", feeDAM |-> "L2",
   calls |-> <<ShortCall>>, cairo |-> 1, classHash |-> <<"class">>,
   compiledClassHash |-> NoHash, salt |-> <<"salt">>, ctor |-> <<<<"a">>>>]

OddVersions == {F(1), F(3), <<"other", 1>>}

Invocations ==
  {[Base EXCEPT !.version = v, !.calls = calls] :
     v \in {V(1), V(3)},
     calls \in {<<>>, <<NoArgsCall, ShortCall>>, <<TwoPartCall>>, <<ThreePartCall, ShortCall>>}}
  \union {[Base EXCEPT !.version = v] : v \in OddVersions}
  \union {[Base EXCEPT !.version = v, !.cairo = 0] : v \in {V(1), V(3)}}
  \union {[Base EXCEPT !.paymaster = <<<<"p">>>>, !.deployData = d] :
            d \in {<<>>, <<<<"p">>>>, <<<<"d">>>>}}
  \union {[Base EXCEPT !.paymaster = <<<<"p">>, <<"p">>, <<"p">>, <<"p">>>>]}
  \union {[Base EXCEPT !.nonceDAM = "L2", !.feeDAM = "L1"]}

Deployments ==
  {[Base EXCEPT !.kind = "deploy", !.version = v, !.ctor = ctor] :
     v \in {V(1), V(3)}, ctor \in {<<>>, <<<<"a">>, <<"b">>, <<"c">>, <<"d">>>>}}
  \union {[Base EXCEPT !.kind = "deploy", !.version = v] : v \in OddVersions}

Declarations ==
  {[Base EXCEPT !.kind = "declare", !.version = V(1)]}
  \union {[Base EXCEPT !.kind = "declare", !.version = v, !.compiledClassHash = <<"compiled">>] :
            v \in {V(2), V(3), F(2), F(3)}}

Jobs(signers, txs) ==
  {[signer |-> s, op |-> tx.kind, message |-> <<"m">>, tx |-> tx] : s \in signers, tx \in txs}

Asks(signers, ops, m) ==
  {[signer |-> s, op |-> o, message |-> m, tx |-> Base] : s \in signers, o \in ops}

MCJobsOf(c) ==
  IF c = "first"
  THEN Jobs(MCSignersSet \ {"other"}, Invocations \union Deployments \union Declarations)
         \union Asks(MCSignersSet, {"pubKey", "message"}, <<"m">>)
  ELSE Jobs({"other"}, {[Base EXCEPT !.nonce = <<"next">>]})
         \union Asks({"new"}, {"pubKey", "message"}, <<"m2">>)
         \union Asks({"other"}, {"message"}, <<"m2">>)
=============================================================================
