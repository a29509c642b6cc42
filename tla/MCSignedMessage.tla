-------------------------- MODULE MCSignedMessage --------------------------
(***************************************************************************)
(* Messages of both revisions, most with one field of one type, with       *)
(* values in and out of the type's range, each verified against each; the  *)
(* contracts that verifyMessageInStarknet() names; trees of up to five     *)
(* leaves.                                                                 *)
(***************************************************************************)
EXTENDS SignedMessage

Obj(fields) == <<"obj", fields>>
Num(n) == <<"num", n>>
Digits(n) == <<"digits", n>>
Text(t) == <<"text", t>>
List(s) == <<"arr", s>>
Entry(variant, s) == <<"entry", variant, s>>

Felt_ == <<"felt">>
Ref(n) == <<"ref", n>>
Array(t) == <<"array", t>>
Enum(n) == <<"enum", n>>
Tree(t) == <<"merkletree", t>>
Variant(ts) == <<"variant", ts>>

ActiveDomain ==
  [StarknetDomain |-> <<Field("chainId", <<"shortstring">>), Field("revision", <<"shortstring">>)>>]
LegacyDomain == [StarkNetDomain |-> <<Field("chainId", Felt_)>>]

Message(domainTypes, domain, types, value) ==
  [types |-> types @@ domainTypes, primaryType |-> "Order", domain |-> Obj(domain),
   message |-> value]

\* A message with one field, of one type.
Active(types, type, v) ==
  Message(ActiveDomain, [chainId |-> Text("A"), revision |-> Digits(1)],
          types @@ [Order |-> <<Field("it", type)>>], Obj([it |-> v]))
Legacy(types, type, v) ==
  Message(LegacyDomain, [chainId |-> Text("A")],
          types @@ [Order |-> <<Field("it", type)>>], Obj([it |-> v]))

OtherChain(m) == [m EXCEPT !.domain[2].chainId = Text("B")]
Revision(m, r) == [m EXCEPT !.domain[2] = [revision |-> r] @@ @]

Person == [Person |-> <<Field("wallet", Felt_)>>]
Owner == [Person |-> <<Field("owner", Felt_)>>]
Team == Person @@ [Team |-> <<Field("members", Array(Ref("Person"))), Field("of", <<"u128">>)>>]
Enums == [E |-> <<Field("none", Variant(<<>>)), Field("one", Variant(<<<<"u128">>>>)),
                  Field("both", Variant(<<<<"u128">>, Array(Felt_)>>))>>]
EnumsSwapped == [E |-> <<Field("one", Variant(<<<<"u128">>>>)), Field("none", Variant(<<>>)),
                         Field("both", Variant(<<<<"u128">>, Array(Felt_)>>))>>]
PersonEnums == Person @@ [E |-> <<Field("one", Variant(<<Ref("Person")>>)),
                                  Field("both", Variant(<<Ref("Person"), U128>>))>>]
OwnerEnums == Owner @@ [E |-> PersonEnums.E]
Node == [Node |-> <<Field("next", Array(Ref("Node")))>>]
Swapped == [u256 |-> <<Field("high", U128), Field("low", U128)>>]
Alice == Obj([wallet |-> Num(5)])
Amount(l, h) == Obj([low |-> Num(l), high |-> Num(h)])

FeltMessages ==
  LET values == <<Num(0), Num(5), Digits(5), Text("five"), Num(15), Num(16), Num(-1)>>
  IN [i \in DOMAIN values |-> Active(NoTypes, Felt_, values[i])]
     \o [i \in DOMAIN values |-> Legacy(NoTypes, Felt_, values[i])]

NumberMessages ==
  [n \in 1..4 |-> Active(NoTypes, U128, Num(<<0, 7, 8, -1>>[n]))]
  \o [n \in 1..6 |-> Active(NoTypes, <<"i128">>, Num(<<-4, 3, -5, 4, 11, -1>>[n]))]

OtherBasics ==
  <<Active(NoTypes, <<"bool">>, <<"bool", TRUE>>), Active(NoTypes, <<"bool">>, Num(1)),
    Active(NoTypes, <<"string">>, Text("five")), Active(NoTypes, <<"string">>, Text("")),
    Active(NoTypes, <<"string">>, Digits(5)), Active(NoTypes, <<"string">>, <<"hex", N(5)>>),
    Legacy(NoTypes, <<"string">>, Digits(5)), Active(NoTypes, Felt_, <<"hex", N(5)>>),
    Active(NoTypes, <<"selector">>, Text("f")),
    Active(NoTypes, <<"selector">>, <<"hex", <<"selector", Text("f")>>>>),
    Active(NoTypes, <<"ContractAddress">>, Text("five")), Active(NoTypes, <<"ContractAddress">>, Num(5)),
    Active(NoTypes, Ref("Unknown"), Num(5)), Legacy(NoTypes, Ref("Unknown"), Num(5)),
    Legacy(NoTypes, <<"bool">>, <<"bool", TRUE>>), Legacy(NoTypes, <<"bool">>, Num(1)),
    Legacy(NoTypes, <<"string">>, Text("five")), Legacy(NoTypes, <<"selector">>, Text("f"))>>

Composed ==
  <<Active(NoTypes, Array(Felt_), List(<<>>)), Active(NoTypes, Array(Felt_), List(<<Num(5)>>)),
    Active(NoTypes, Array(Felt_), List(<<Num(5), Num(0)>>)),
    Active(NoTypes, Array(Array(Felt_)), List(<<List(<<Num(5)>>), List(<<Num(0)>>)>>)),
    Active(NoTypes, Array(Array(Felt_)), List(<<List(<<Num(5), Num(0)>>)>>)),
    Active(Person, Ref("Person"), Alice), Active(Owner, Ref("Person"), Obj([owner |-> Num(5)])),
    Active(Person, Ref("Person"), Obj([owner |-> Num(5)])), Active(Person, Ref("Person"), <<"null">>),
    Active(Team, Ref("Team"), Obj([members |-> List(<<Alice, Alice>>), of |-> Num(2)])),
    Active(Team, Ref("Team"), Obj([members |-> List(<<>>), of |-> Digits(2)])),
    Active(NoTypes, Ref("u256"), Amount(1, 2)), Active(Swapped, Ref("u256"), Amount(2, 1)),
    Active(NoTypes, Ref("TokenAmount"), Obj([token_address |-> Num(3), amount |-> Amount(1, 2)])),
    Active(NoTypes, Ref("NftId"), Obj([collection_address |-> Num(3), token_id |-> Amount(1, 2)])),
    Active(Node, Ref("Node"), Obj([next |-> List(<<>>)])),
    Legacy(Person, Ref("Person"), Alice), Legacy(Owner, Ref("Person"), Obj([owner |-> Num(5)]))>>

EnumMessages ==
  <<Active(Enums, Enum("E"), Entry("none", <<>>)), Active(Enums, Enum("E"), Entry("one", <<Num(0)>>)),
    Active(EnumsSwapped, Enum("E"), Entry("none", <<>>)),
    Active(EnumsSwapped, Enum("E"), Entry("one", <<Num(0)>>)),
    Active(Enums, Enum("E"), Entry("both", <<Num(0), List(<<Num(1)>>)>>)),
    Active(Enums, Enum("E"), Entry("both", <<Num(0)>>)), Active(Enums, Enum("E"), Entry("two", <<>>)),
    Active(Enums, Enum("E"), <<"null">>), Active(Enums, Array(Enum("E")), List(<<Entry("none", <<>>)>>)),
    Active(PersonEnums, Enum("E"), Entry("one", <<Alice>>)),
    Active(PersonEnums, Enum("E"), Entry("both", <<Alice, Num(1)>>)),
    Active(OwnerEnums, Enum("E"), Entry("both", <<Obj([owner |-> Num(5)]), Num(1)>>)),
    Legacy(Enums, Enum("E"), Entry("none", <<>>))>>

Trees ==
  <<Active(NoTypes, Tree(Felt_), List(<<Num(1), Num(2), Num(3)>>)),
    Active(NoTypes, Tree(Felt_), List(<<Num(1), Num(2), Num(3), Num(0)>>)),
    Active(NoTypes, Tree(Felt_), List(<<Num(2), Num(1), Num(3)>>)),
    Active(NoTypes, Tree(Felt_), List(<<Num(1), Num(3), Num(2)>>)),
    Active(NoTypes, Tree(U128), List(<<Num(1), Num(2), Num(3)>>)),
    Active(NoTypes, Tree(Felt_), List(<<>>)), Active(NoTypes, Tree(Array(Felt_)), List(<<>>)),
    Active(Person, Tree(Ref("Person")), List(<<Alice>>)), Active(Person, Ref("Person"), Alice),
    Legacy(NoTypes, Tree(Felt_), List(<<Num(1), Num(2), Num(3)>>)),
    Legacy(NoTypes, Array(Tree(Felt_)), List(<<List(<<Num(1), Num(2)>>), List(<<Num(3)>>)>>)),
    Legacy(NoTypes, Array(Tree(Felt_)), List(<<List(<<Num(1), Num(2)>>), List(<<>>)>>)),
    Active(NoTypes, Array(Tree(Felt_)), List(<<List(<<Num(1), Num(2)>>)>>))>>

Domains ==
  <<OtherChain(Active(NoTypes, Felt_, Num(5))), OtherChain(Legacy(NoTypes, Felt_, Num(5))),
    Revision(Active(NoTypes, Felt_, Num(5)), Num(1)), Revision(Legacy(NoTypes, Felt_, Num(5)), Digits(0)),
    Revision(Legacy(NoTypes, Felt_, Num(5)), Digits(1))>>

MCMessages == FeltMessages \o NumberMessages \o OtherBasics \o Composed \o EnumMessages \o Trees \o Domains

MCAccounts == {Zero, N(1)}

camel == "isValidSignature"
snake == "is_valid_signature"

Contract(names, accept, refuse) == [names |-> names, accept |-> accept, refuse |-> refuse]

\* OpenZeppelin before and after Cairo 1, Argent, a development node, a contract
\* of its own kind, one that answers nothing.
MCContracts ==
  {Contract({snake}, <<"value", "1">>, <<"error", {"is invalid"}>>),
   Contract({camel, snake}, <<"value", "VALID">>, <<"value", "0x0">>),
   Contract({camel}, <<"value", "VALID">>, <<"error", {"argent/invalid-signature"}>>),
   Contract({"check"}, <<"value", "1">>, <<"value", "2">>),
   Contract({camel}, <<"empty">>, <<"error", {"is invalid"}>>)}

MCOptions ==
  {[names |-> <<camel, snake>>, ok |-> {}, nok |-> {"0x0", "0x00"},
    errors |-> {"argent/invalid-signature", "is invalid", "INVALID_SIG"}],
   [names |-> <<"check">>, ok |-> {"1"}, nok |-> {"2"}, errors |-> {}],
   [names |-> <<"check">>, ok |-> {}, nok |-> {"0x0"}, errors |-> {}]}

MCForests == UNION {[1..n -> {N(1), N(2), N(3)}] : n \in 0..5}
=============================================================================
