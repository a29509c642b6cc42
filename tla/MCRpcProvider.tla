---------------------------- MODULE MCRpcProvider ----------------------------
(* The calls that are checked.  An alphabet of three basic letters, the last of   *)
(* them standing for `stark`, and two big ones has every case of the numerals;    *)
(* labels of four letters end in up to four stars.                                *)
EXTENDS RpcProvider

MCLabels(n) == UNION {[1 .. k -> Basic \union Big] : k \in 1 .. n}

MCNames ==
  {<<>>} \union {<<l>> : l \in MCLabels(4)} \union (MCLabels(2) \X MCLabels(2))
    \union (MCLabels(1) \X MCLabels(1) \X MCLabels(1))

MCNameJobs ==
  [op : {"name"}, chain : {"SN_MAIN"}, given : {FALSE}, labels : MCNames]
    \union [op : {"name"}, chain : Chains, given : BOOLEAN, labels : {<<>>, <<<<1>>>>}]

\* With and without `.stark`, and with a letter of neither alphabet.
MCTexts(labels) ==
  LET text == TextOf(labels)
  IN {text, SubSeq(text, 1, Len(text) - 2), <<Foreign>> \o text}

\* Every name of these is asked for while every other is registered.
MCAddressJobs ==
  [op : {"address"}, chain : {"SN_SEPOLIA"}, given : {FALSE},
   labels : {<<l>> : l \in MCLabels(1)} \union (MCLabels(1) \X {<<1>>, <<Tld>>}),
   text : UNION {MCTexts(<<l>>) : l \in MCLabels(2)}
            \union UNION {MCTexts(<<l, m>>) : l \in {<<0>>, <<Star>>}, m \in MCLabels(2)}]

\* Whoever has no name has no profile either.
MCPersons ==
  [labels : {<<<<0, 1>>>>, <<<<4>>, <<0>>>>}, id : {31},
   data : {[f \in ToSet(Fields) |->
              CASE f = "twitter" -> d[1] [] f = "github" -> d[2] [] f = "discord" -> d[3]
                [] f = "proof_of_personhood" -> d[4] [] OTHER -> d[5]]
             : d \in {0, 11} \X {0, 12} \X {0, 13} \X {0, 1, 3} \X {0, 14}},
   token : {<<21, 22>>}, metadata : {<<>>, <<5, 6>>}]
    \union [labels : {<<>>}, id : {0}, data : {[f \in ToSet(Fields) |-> 0]},
            token : {<<0, 0>>}, metadata : {<<>>}]

MCProfileJobs ==
  [op : {"profile"}, chain : {"SN_MAIN", "SN_SEPOLIA"}, given : {FALSE}, person : MCPersons]

\* The fee of the gas alone, or of the gas and the data gas.
MCEstimates ==
  {[overall_fee |-> g * p + (IF withData THEN d ELSE 0), gas_consumed |-> g, gas_price |-> p,
    data_gas |-> withData]
     : g \in 0 .. 6, p \in 0 .. 5, d \in 0 .. 8, withData \in BOOLEAN}

MCMargin(fee, amount, price) ==
  [maxFee |-> fee, l1BoundMaxAmount |-> amount, l1BoundMaxPricePerUnit |-> price]

MCEstimateJobs ==
  [op : {"estimate"}, estimate : MCEstimates,
   margin : {MCMargin(0, 0, 0), MCMargin(50, 50, 50), MCMargin(50, 50, 0), MCMargin(0, 100, 10)}]

------------------------------------------------------------------------------
MCEntryPoints == [EntryPointTypes -> {<<>>, <<<<1, 2>>>>}]

MCSierra ==
  [sierra : {TRUE}, entryPoints : MCEntryPoints, abi : {"a", "b"}, program : {<<1>>, <<1, 2>>}]

MCLegacyClass(entryPoints, abi, program, builtins, attributes, debug) ==
  [sierra |-> FALSE, abi |-> abi, program |-> program, builtins |-> builtins,
   entryPoints |-> [t \in EntryPointTypes |-> IF t = entryPoints THEN <<<<1, 2>>>> ELSE <<>>],
   attributes |-> attributes, debug_info |-> debug]

MCLegacy ==
  {MCLegacyClass(t, abi, program, builtins, <<>>, 0)
     : t \in EntryPointTypes, abi \in {"a", "b"}, program \in {<<1>>, <<1, 2>>},
       builtins \in {<<>>, <<"range_check">>}}
  \union
  {MCLegacyClass("EXTERNAL", "a", <<1>>, <<>>, attributes, debug)
     : attributes \in {<<>>, <<"error">>}, debug \in {0, 1}}

\* The segments of a compiler cover the code.
MCCodes == {<<<<1, 2>>, <<>>>>, <<<<1, 2>>, <<2>>>>, <<<<1, 2>>, <<1, 1>>>>, <<<<1, 3>>, <<1, 1>>>>}

MCCasmEntry(b) == [selector |-> 1, offset |-> 2, builtins |-> b]

MCCasms ==
  {[entryPoints |-> e, bytecode |-> code[1], segments |-> code[2]]
     : code \in MCCodes,
       e \in [EntryPointTypes -> {<<>>, <<MCCasmEntry(<<>>)>>, <<MCCasmEntry(<<"pedersen">>)>>}]}

MCOneCasm == CHOOSE casm \in MCCasms : casm.segments = <<2>>

MCPayload(class, casm, compiledHash) ==
  [contract |-> class, casm |-> casm, compiledClassHash |-> compiledHash, classHash |-> <<>>]

MCOneClass == CHOOSE class \in MCSierra : class.program = <<1, 2>>

\* One class is asked for while another is on the chain, in every pair; and one class
\* is declared with every assembly, with the hash of one, or with neither.
MCDeclareJobs ==
  {[op |-> "declareIfNot", payload |-> MCPayload(class, <<MCOneCasm>>, <<>>),
    compiled |-> MCOneCasm, declared |-> {{other}}, others |-> {class}]
     : class \in MCSierra \union MCLegacy, other \in MCSierra \union MCLegacy}
  \union
  {[op |-> "declareIfNot", payload |-> MCPayload(MCOneClass, casm, hash),
    compiled |-> compiled, declared |-> {{}}, others |-> {}]
     : casm \in {<<c>> : c \in MCCasms} \union {<<>>},
       hash \in {<<>>, computeCompiledClassHash(MCOneCasm)},
       compiled \in {c \in MCCasms : c.entryPoints["L1_HANDLER"] = <<>>
                                       /\ c.entryPoints["CONSTRUCTOR"] = <<>>}}

MCDeclaration(class, casm) ==
  [type |-> "DECLARE", payload |-> MCPayload(class, casm, <<>>)]

MCInvocations ==
  {[type |-> "INVOKE", nr |-> n] : n \in 1 .. 2}
    \union {MCDeclaration(class, <<MCOneCasm>>) : class \in {c \in MCSierra : c.entryPoints =
              [t \in EntryPointTypes |-> <<>>] /\ c.abi = "a"}}
    \union {MCDeclaration(MCOneClass, <<>>),
            [MCDeclaration(MCOneClass, <<>>)
               EXCEPT !.payload.classHash = computeContractClassHash(MCOneClass)]}

MCPrepareJobs ==
  {[op |-> "prepareInvocations", invocations |-> invocations, declared |-> {{}, {MCOneClass}},
    others |-> {i.payload.contract : i \in {j \in MCInvocations : j.type = "DECLARE"}}]
     : invocations \in UNION {[1 .. n -> MCInvocations] : n \in 1 .. 3}}

MCJobs ==
  {[op |-> "block"]} \union MCNameJobs \union MCAddressJobs \union MCProfileJobs
    \union MCEstimateJobs \union MCDeclareJobs \union MCPrepareJobs
==============================================================================
