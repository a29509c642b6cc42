--------------------------- MODULE MCContractCall ---------------------------
(* Values for the constants of ContractCall: methods with every kind of     *)
(* type, and for each good and bad arguments.                               *)
EXTENDS ContractCall

Felt == <<"felt">>
U8 == <<"u8">>
U256 == <<"u256">>
U512 == <<"u512">>
Secp == <<"secp256k1Point">>
Text(characters) == <<"text", characters>>
Dec(n) == <<"dec", n>>

\* Characters: the newline and another control character, and two letters.
Control == 2
A == 3
B == 4
Array(T) == <<"array", T>>
Span(T) == <<"span", T>>
Tuple(a, b) == <<"tuple", <<a, b>>>>
Struct(name) == <<"struct", name>>

Member(name, T) == [name |-> name, type |-> T]
MCStructs == [Point |-> <<Member("x", U256), Member("y", U8)>>, Empty |-> <<>>,
              Order |-> <<Member("nonce", U8)>>]
MCEnums == [Color |-> <<Member("Red", Unit), Member("Green", Tuple(Felt, U8))>>]
MCRangeEnd == [felt |-> 100, u8 |-> 2, ethAddress |-> 3, secp256k1Point |-> 16]

Param(name, T) == [name |-> name, len |-> FALSE, type |-> T]
LenParam(name, T) == [name |-> name, len |-> TRUE, type |-> T]
Method(inputs, outputs) == [inputs |-> inputs, outputs |-> outputs, interface |-> TRUE]
Echo(T) == Method(<<Param("a", T)>>, <<Param("", T)>>)
Pointers == <<LenParam("a_len", <<"felt0">>), Param("a", <<"array0", <<"felt0">>>>),
              Param("b", <<"felt0">>)>>

MCMethods ==
  {Echo(T) : T \in {Struct("Point"), Struct("Empty"), Tuple(U256, U8), <<"option", Struct("Point")>>,
                    <<"result", U8, Tuple(Felt, U8)>>, <<"enum", "Color">>, <<"byteArray">>,
                    Array(Array(U8)), Array(<<"byteArray">>), <<"nonzero", U256>>, <<"nonzero", Felt>>,
                    <<"ethAddress">>, <<"bytes31">>, Tuple(Span(Tuple(Felt, U8)), U8),
                    Tuple(Span(U8), Array(Tuple(U8, U8))), U512, Tuple(U512, Secp),
                    Array(U512), <<"nonzero", U512>>, Struct("Order")}
             } \union
  {Method(<<Param("a", Felt), Param("b", U8)>>, <<Param("", U256)>>),
   Method(<<Param("a", Array(Felt)), Param("b", U256)>>, <<Param("", Array(Struct("Point")))>>),
   Method(<<LenParam("a_len", U8), Param("b", <<"bool">>)>>, <<Param("", <<"bool">>)>>),
   [inputs |-> <<LenParam("a_len", U8), Param("b", U8)>>, outputs |-> <<Param("", U8)>>,
    interface |-> FALSE],
   [inputs |-> Pointers, outputs |-> Pointers, interface |-> FALSE]}

\* The values the page may give for a type, the bad ones too if it errs.
RECURSIVE Given(_, _)

Objects(name1, name2, values1, values2) ==
  UNION {{<<"obj", <<Pair(name1, v), Pair(name2, w)>>>>,
          <<"obj", <<Pair(name2, w), Pair(name1, v)>>>>} : v \in values1, w \in values2}

Listed(name) == {<<name>>, [i \in DOMAIN MCEnums.Color |-> MCEnums.Color[i].name]}

Given(T, errs) ==
  LET Bad(values) == IF errs THEN values ELSE {}
  IN CASE Kind(T) \in {"felt", "felt0"} ->
            {Num(0), Num(89), Dec(89), Text(<<A, B>>)}
            \union Bad({Num(90), Num(100), Dec(100), Num(-1), Text(<<A, B, A>>), <<"bool", TRUE>>,
                        Text(<<>>), Text(<<Control, A>>), Text(<<A, Control>>),
                        Text(<<A, Newline>>), Text(<<Newline, A>>)})
       [] Kind(T) = "u8" -> {Num(0), Num(1)} \union Bad({Dec(1), Num(2), Dec(2)})
       [] Kind(T) = "ethAddress" -> {Num(2)} \union Bad({Num(3), <<"arr", <<Num(1)>>>>})
       [] Kind(T) = "u256" ->
            {Num(2), <<"obj", <<Pair("high", Num(0)), Pair("low", Num(1))>>>>}
            \union Bad({Num(4), Dec(3), <<"obj", <<Pair("low", Num(2)), Pair("high", Num(0))>>>>,
                        <<"obj", <<Pair("low", Num(1))>>>>})
       [] Kind(T) = "u512" ->
            {Num(11), <<"obj", <<Pair("limb1", Num(0)), Pair("limb0", Num(1)),
                                 Pair("limb3", Num(1)), Pair("limb2", Num(0))>>>>}
            \union Bad({Num(16), <<"obj", <<Pair("low", Num(1)), Pair("high", Num(0))>>>>,
                        <<"obj", [i \in 1 .. 4 |-> Pair(LimbNames[i], Num(i - 1))]>>})
       [] Kind(T) = "secp256k1Point" -> {Num(11), Num(6)} \union Bad({Num(16)})
       [] Kind(T) = "bool" -> {<<"bool", TRUE>>, <<"bool", FALSE>>} \union Bad({Num(1)})
       [] Kind(T) = "bytes31" ->
            {Text(<<>>), Text(<<A>>), Text(<<B, A>>), Text(<<Control, A>>)}
            \union Bad({Text(<<A, B, A>>), Text(<<A, Control>>), Num(1), Dec(1), Dec(30)})
       [] Kind(T) = "byteArray" ->
            {Text(<<>>), Text(<<A>>), Text(<<A, B>>), Text(<<A, B, A>>), Text(<<A, B, Control>>)}
            \union Bad({Text(<<A, Control, B>>), Num(1), Dec(1)})
       [] Kind(T) = "nonzero" ->
            {Num(1), Dec(1)} \union Bad({Num(0), Dec(0), Dec(100), Text(<<A>>)})
       [] isTypeArray(T) ->
            {<<"arr", <<>>>>}
            \union {<<"arr", <<v>>>> : v \in Given(T[2], errs)}
            \union {<<"arr", <<v, w>>>> : v, w \in Given(T[2], FALSE)}
            \union (IF Kind(T[2]) \in {"felt", "felt0"} 
               THEN {Text(<<A, B, A>>), Text(<<B>>), Dec(1), Text(<<A, Control, B>>),
                     Text(<<A, B, A, Newline>>)}
               ELSE {})
            \union Bad({Num(1)})
       [] T = Struct("Point") ->
            Objects("x", "y", Given(U256, errs), Given(U8, errs))
            \union Bad({<<"obj", <<Pair("x", Num(1))>>>>, Num(1), <<"arr", <<Num(1), Num(1)>>>>})
       [] T = Struct("Order") -> {<<"obj", <<Pair("nonce", v)>>>> : v \in Given(U8, errs)}
       [] Kind(T) = "struct" -> {UnitValue}
       [] T = Unit -> {UnitValue}
       [] Kind(T) = "tuple" ->
            {<<"obj", <<Pair("0", v), Pair("1", w)>>>> :
               v \in Given(T[2][1], errs), w \in Given(T[2][2], errs)}
            \union Bad({<<"arr", <<Num(1), Num(1)>>>>, <<"obj", <<Pair("0", Num(1))>>>>,
                        <<"obj", <<Pair("0", Num(1)), Pair("1", Num(1)), Pair("2", Num(1))>>>>})
       [] Kind(T) = "option" -> {<<"none">>} \union {<<"some", v>> : v \in Given(T[2], errs)}
                                \union Bad({Num(1)})
       [] Kind(T) = "result" -> {<<"ok", v>> : v \in Given(T[2], errs)}
                                \union {<<"err", v>> : v \in Given(T[3], errs)}
       [] OTHER ->
            UNION {{<<"variant", MCEnums.Color[i].name, v, listed>> :
                      v \in Given(MCEnums.Color[i].type, errs),
                      listed \in Listed(MCEnums.Color[i].name)} : i \in DOMAIN MCEnums.Color}
            \union Bad({<<"variant", "Blue", UnitValue, <<"Blue">>>>})

MCOptions ==
  {<<"obj", <<Pair("addressSalt", Num(5))>>>>,
   <<"obj", <<Pair("nonce", Num(1)), Pair("parseRequest", <<"bool", FALSE>>)>>>>,
   <<"obj", <<Pair("parseRequest", <<"bool", TRUE>>)>>>>}

\* A list, one that is too short or too long, one with options, and the same values by
\* name in both orders, with a property that nobody asked for.
MCArgsOf(m) ==
  LET asked == Asked(m.inputs)
      GivenAt(i) == Given(asked[i].type, TRUE)
      Forms(values) ==
        {<<"arr", values>>, <<"arr", Tail(values)>>, <<"arr", Append(values, Num(1))>>}
        \union {<<"arr", Append(values, options)>> : options \in MCOptions}
        \union {<<"obj", pairs>> : pairs \in
                  LET named == [i \in DOMAIN asked |-> Pair(asked[i].name, values[i])]
                  IN {named, Tail(named), Reverse(named), <<Pair("z", Num(1))>> \o named}}
  IN IF Len(asked) = 1 THEN UNION {Forms(<<v>>) : v \in GivenAt(1)}
     ELSE UNION {Forms(<<v, w>>) : v \in GivenAt(1), w \in GivenAt(2)}

\* The contract returns values of its types.
AnswersOfTypes ==
  LET Returned(T) == {Means(v, T) : v \in Given(T, FALSE)} \ {NoMeaning}
  IN [outputs \in {Asked(m.outputs) : m \in MCMethods} |->
        IF Len(outputs) = 1 THEN {<<x>> : x \in Returned(outputs[1].type)}
        ELSE {<<x, y>> : x \in Returned(outputs[1].type), y \in Returned(outputs[2].type)}]

MCAnswers(outputs) == AnswersOfTypes[outputs]

MCOtherCall == <<7, 8>>

(* Contracts with components that have events of one name; with a flat      *)
(* component, and with one below a nested variant; and one of Cairo 0.      *)
Field(name, T, kind) == [name |-> name, len |-> FALSE, type |-> T, kind |-> kind]
EventOfMembers(name, members) == [name |-> name, members |-> members]
Variant(name, kind, type) == [name |-> name, kind |-> kind, type |-> type]
EnumOf(name, variants) == [name |-> name, variants |-> variants]

Transfer(name) == EventOfMembers(name, <<Field("to", Felt, "key"), Field("amount", U256, "data"),
                                         Field("id", U256, "key")>>)
Note(name) == EventOfMembers(name, <<Field("words", Array(Felt), "data")>>)

MCEventAbis ==
  {[cairo1 |-> TRUE, root |-> "Event",
    structs |-> <<Transfer("a::Deposit"), Note("b::Deposit"), Note("Trade")>>,
    enums |-> <<EnumOf("a::Event", <<Variant("Deposit", "nested", "a::Deposit")>>),
                EnumOf("Event", <<Variant("Trade", "nested", "Trade"),
                                  Variant("A", "nested", "a::Event"),
                                  Variant("B", "nested", "b::Event")>>),
                EnumOf("b::Event", <<Variant("Deposit", "nested", "b::Deposit")>>)>>],
   [cairo1 |-> TRUE, root |-> "Event",
    structs |-> <<Note("c::Trade"), Transfer("erc20::Transfer"), Note("d::Inner"), Note("Note")>>,
    enums |-> <<EnumOf("Event", <<Variant("Erc20", "flat", "erc20::Event"),
                                  Variant("C", "nested", "c::Event"),
                                  Variant("Note", "nested", "Note")>>),
                EnumOf("erc20::Event", <<Variant("Transfer", "nested", "erc20::Transfer")>>),
                EnumOf("c::Event", <<Variant("D", "flat", "d::Event"),
                                     Variant("Trade", "nested", "c::Trade")>>),
                EnumOf("d::Event", <<Variant("Inner", "nested", "d::Inner")>>)>>],
   [cairo1 |-> FALSE, root |-> "none", enums |-> <<>>,
    structs |-> <<EventOfMembers("Swap", <<[name |-> "a_len", len |-> TRUE, type |-> <<"felt0">>, kind |-> "data"],
                                           Field("a", <<"array0", <<"felt0">>>>, "data"),
                                           Field("b", <<"felt0">>, "data")>>),
                  EventOfMembers("Empty", <<>>)>>]}

MCSelectorOf == [Deposit |-> 101, Trade |-> 102, A |-> 103, B |-> 104, Transfer |-> 105, D |-> 106,
                 C |-> 107, Inner |-> 108, Note |-> 109, Swap |-> 110, Empty |-> 111, Erc20 |-> 112]

\* One value of each type, and two of some.
ValuesFor(T) ==
  CASE Kind(T) = "array0" -> {<<"arr", <<>>>>, <<"arr", <<Num(5), Num(6)>>>>}
    [] Kind(T) = "array" -> {<<"arr", <<Num(5)>>>>}
    [] Kind(T) = "u256" -> {Num(2)}
    [] OTHER -> {Num(7)}

\* The length of a Cairo 0 array is the array's.
MembersSets(event) ==
  LET free == {m \in ToSet(event.members) : ~m.len}
      choices == {values \in [{m.name : m \in free} -> UNION {ValuesFor(m.type) : m \in free}] :
                    \A m \in free : values[m.name] \in ValuesFor(m.type)}
  IN IF \E m \in ToSet(event.members) : m.len
     THEN {[name \in DOMAIN values \union {"a_len"} |->
              IF name = "a_len" THEN Num(Len(values["a"][2])) ELSE values[name]] : values \in choices}
     ELSE choices

\* Up to two logs, of this contract or another one.
EmittedBy ==
  [ofAbi \in MCEventAbis |->
     LET Routes(event) == IF ofAbi.cairo1 THEN RoutesTo(ofAbi, event.name) ELSE {<<>>}
         logs == UNION {{[own |-> own, event |-> event, route |-> route, values |-> values] :
                           own \in BOOLEAN, route \in Routes(event), values \in MembersSets(event)}
                        : event \in ToSet(ofAbi.structs)}
     IN {<<>>} \union {<<a>> : a \in logs} \union {<<a, b>> : a, b \in logs}]

MCEmits(ofAbi) == EmittedBy[ofAbi]
==============================================================================
