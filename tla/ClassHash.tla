------------------------------ MODULE ClassHash ------------------------------
(***************************************************************************)
(* Class hashes: src/src/utils/hash/classHash.ts and what                  *)
(* src/src/utils/contract.ts makes of a payload to declare.                *)
(*                                                                         *)
(* A hash function gives a tuple of its name and its input, so that no two *)
(* inputs have one hash; what is left to see is what becomes input.        *)
(*                                                                         *)
(* A class is a record: sierra (a Boolean), entryPoints, a function from   *)
(* EntryPointTypes to sequences of <<selector, place>>, abi, program; one  *)
(* of Cairo 0 has builtins, attributes and debug_info besides.  An         *)
(* assembly (casm) is a record [entryPoints, bytecode, segments], whose    *)
(* entry points have their builtins.                                       *)
(***************************************************************************)
EXTENDS Naturals, Sequences, SequencesExt

EntryPointTypes == {"EXTERNAL", "L1_HANDLER", "CONSTRUCTOR"}

Pedersen(elements) == <<"pedersen", elements>>
Poseidon(elements) == <<"poseidon", elements>>
Keccak(text) == <<"keccak", text>>

------------------------------------------------------------------------------
(* Classes of Cairo 0.                                                      *)

\* nullSkipReplacer(): debug information never counts, and attributes only if there
\* are any.
NoAttributes == <<"no attributes">>

Serialized(class) ==
  [abi |-> class.abi, program |-> class.program, builtins |-> class.builtins,
   attributes |-> IF class.attributes = <<>> THEN NoAttributes ELSE class.attributes]

computeHintedClassHash(class) == Keccak(Serialized(class))

FlatEntryPoints(entryPoints) == FlattenSeq(entryPoints)

computeLegacyContractClassHash(class) ==
  LET hashOf(type) == Pedersen(FlatEntryPoints(class.entryPoints[type]))
  IN Pedersen(<<"API_VERSION", hashOf("EXTERNAL"), hashOf("L1_HANDLER"),
                hashOf("CONSTRUCTOR"), Pedersen(class.builtins),
                computeHintedClassHash(class), Pedersen(class.program)>>)

------------------------------------------------------------------------------
(* Classes of Cairo 1, and their assembly.                                  *)

hashEntryPointSierra(entryPoints) == Poseidon(FlattenSeq(entryPoints))

\* Mutant: all kinds of entry points in one sequence.
OneList(class) ==
  Poseidon(<<"CONTRACT_CLASS_V0.1.0",
             hashEntryPointSierra(class.entryPoints["EXTERNAL"]
               \o class.entryPoints["L1_HANDLER"] \o class.entryPoints["CONSTRUCTOR"]),
             Keccak(class.abi), Poseidon(class.program)>>)

computeSierraContractClassHash(class) ==
  LET hashOf(type) == hashEntryPointSierra(class.entryPoints[type])
  IN Poseidon(<<"CONTRACT_CLASS_V0.1.0", hashOf("EXTERNAL"), hashOf("L1_HANDLER"),
                hashOf("CONSTRUCTOR"), Keccak(class.abi), Poseidon(class.program)>>)

computeContractClassHash(class) ==
  IF class.sierra THEN computeSierraContractClassHash(class)
  ELSE computeLegacyContractClassHash(class)

hashBuiltins(builtins) == Poseidon(builtins)

\* An entry point of an assembly is [selector, offset, builtins].
hashEntryPoint(entryPoints) ==
  Poseidon(FlattenSeq([i \in DOMAIN entryPoints |->
    <<entryPoints[i].selector, entryPoints[i].offset, hashBuiltins(entryPoints[i].builtins)>>]))

\* segmentStart before each segment, and after the last.
SegmentStarts(lengths) ==
  LET start[i \in 1 .. Len(lengths) + 1] ==
        IF i = 1 THEN 0 ELSE start[i - 1] + lengths[i - 1]
  IN start

\* Code beyond the last segment is not hashed.
hashByteCodeSegments(casm) ==
  LET lengths == casm.segments
      start == SegmentStarts(lengths)
      leaf(i) == <<lengths[i],
                   Poseidon(SubSeq(casm.bytecode, start[i] + 1, start[i] + lengths[i]))>>
  IN <<"1 +", Poseidon(FlattenSeq([i \in DOMAIN lengths |-> leaf(i)]))>>

\* An assembly of older compilers has no segments.
computeCompiledClassHash(casm) ==
  LET hashOf(type) == hashEntryPoint(casm.entryPoints[type])
  IN Poseidon(<<"COMPILED_CLASS_V1", hashOf("EXTERNAL"), hashOf("L1_HANDLER"),
                hashOf("CONSTRUCTOR"),
                IF casm.segments = <<>> THEN Poseidon(casm.bytecode)
                ELSE hashByteCodeSegments(casm)>>)

------------------------------------------------------------------------------
(* What a compiler writes.                                                  *)

IsList(list) == Len(list) \in Nat /\ list = [i \in 1 .. Len(list) |-> list[i]]

IsPair(pair) == pair = <<pair[1], pair[2]>>

IsClass(class) ==
  /\ class.entryPoints = [type \in EntryPointTypes |-> class.entryPoints[type]]
  /\ \A type \in EntryPointTypes :
       /\ IsList(class.entryPoints[type])
       /\ \A i \in DOMAIN class.entryPoints[type] : IsPair(class.entryPoints[type][i])
  /\ IF class.sierra
     THEN class = [sierra |-> TRUE, entryPoints |-> class.entryPoints, abi |-> class.abi,
                   program |-> class.program]
     ELSE /\ class = [sierra |-> FALSE, entryPoints |-> class.entryPoints, abi |-> class.abi,
                      program |-> class.program, builtins |-> class.builtins,
                      attributes |-> class.attributes, debug_info |-> class.debug_info]
          /\ class.attributes # NoAttributes

IsEntryPoint(point) ==
  point = [selector |-> point.selector, offset |-> point.offset, builtins |-> point.builtins]

\* The segments of a compiler cover the code.
IsAssembly(casm) ==
  /\ casm = [entryPoints |-> casm.entryPoints, bytecode |-> casm.bytecode,
             segments |-> casm.segments]
  /\ casm.entryPoints = [type \in EntryPointTypes |-> casm.entryPoints[type]]
  /\ \A type \in EntryPointTypes :
       /\ IsList(casm.entryPoints[type])
       /\ \A i \in DOMAIN casm.entryPoints[type] : IsEntryPoint(casm.entryPoints[type][i])
  /\ IsList(casm.bytecode)
  /\ casm.segments \in Seq(Nat)
  /\ casm.segments # <<>> =>
       SegmentStarts(casm.segments)[Len(casm.segments) + 1] = Len(casm.bytecode)

------------------------------------------------------------------------------
(* A payload: the class, and for one of Cairo 1 its assembly or the hash of *)
(* it; a value that is left out is <<>>.                                    *)

\* A compiled class hash that is given is believed.
CompiledClassHash(payload) ==
  IF payload.compiledClassHash = <<>> /\ payload.casm # <<>>
  THEN computeCompiledClassHash(payload.casm[1])
  ELSE payload.compiledClassHash

CanExtract(payload) == payload.contract.sierra => CompiledClassHash(payload) # <<>>

extractContractHashes(payload) ==
  [compiledClassHash |-> IF payload.contract.sierra THEN CompiledClassHash(payload) ELSE <<>>,
   classHash |-> IF payload.classHash # <<>> THEN payload.classHash
                 ELSE computeContractClassHash(payload.contract)]

\* A payload that names a class names its own.
IsPayload(payload) ==
  /\ IsClass(payload.contract)
  /\ payload.classHash \in {<<>>, computeContractClassHash(payload.contract)}
  /\ payload.casm # <<>> => IsAssembly(payload.casm[1])
==============================================================================
