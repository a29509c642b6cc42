----------------------------- MODULE TypedData -----------------------------
(***************************************************************************)
(* src/src/utils/typedData.ts: the hash of a message of SNIP-12, and next  *)
(* to it what a message means.                                             *)
(*                                                                         *)
(* A type is a tuple: <<"ref", name>> is a struct, or an enum's            *)
(* definition; <<"array", t>> is written t*; <<"enum", name>> and          *)
(* <<"merkletree", t>> carry what the field's `contains` says; <<"variant",*)
(* <<t1, ...>>>> is the type (t1,...) of an enum's variant; the others are *)
(* named by themselves.  `types` maps names to sequences of fields.        *)
(*                                                                         *)
(* A value is a tuple of its form and its content: num, digits (a number   *)
(* in a text), hex (a felt), text, bool, arr, obj, entry (an object whose  *)
(* first property is the given one), null and undefined.  Lists are given  *)
(* where the type has a list, and numbers not for selectors.               *)
(*                                                                         *)
(* A hash is a tuple of what is hashed: it has no collisions.  PRIME and   *)
(* the ranges are small.                                                   *)
(***************************************************************************)
EXTENDS MerkleTree, FiniteSets, TLC

CONSTANTS
  PRIME,      \* the felts are 0 .. PRIME - 1
  U128End,    \* u128 is 0 .. U128End - 1
  I128End     \* i128 is -I128End .. I128End - 1

Undefined == <<"undefined">>

NoRevision == "none"

ACTIVE == "1"
LEGACY == "0"

Field(name, type) == [name |-> name, type |-> type]

U128 == <<"u128">>

presetTypes ==
  [u256 |-> <<Field("low", U128), Field("high", U128)>>,
   TokenAmount |-> <<Field("token_address", <<"ContractAddress">>), Field("amount", <<"ref", "u256">>)>>,
   NftId |-> <<Field("collection_address", <<"ContractAddress">>), Field("token_id", <<"ref", "u256">>)>>]

NoTypes == [n \in {} |-> <<>>]

Presets(revision) == IF revision = ACTIVE THEN presetTypes ELSE NoTypes

domainName(revision) == IF revision = ACTIVE THEN "StarknetDomain" ELSE "StarkNetDomain"

\* starkCurve refuses a felt out of range for Pedersen; for Poseidon every felt
\* was checked.
hashMethod(revision, felts) ==
  IF \E i \in DOMAIN felts : felts[i] = Throws \/ (felts[i][1] = "n" /\ felts[i][2] \notin 0..(PRIME - 1))
  THEN Throws
  ELSE <<IF revision = ACTIVE THEN "poseidon" ELSE "pedersen", felts>>

------------------------------------------------------------------------------
(* The hash of a type: its definition and those of the types it depends on. *)

\* The name a type leads to.  A variant of several types, or of a list, and the
\* leaves of a merkletree lead nowhere.
BaseName(type, revision) ==
  CASE type[1] = "ref" -> type[2]
    [] type[1] = "array" /\ type[2][1] = "ref" -> type[2][2]
    [] revision = ACTIVE /\ type[1] = "enum" -> type[2]
    [] revision = ACTIVE /\ type[1] = "variant" /\ Len(type[2]) = 1 /\ type[2][1][1] = "ref" -> type[2][1][2]
    [] OTHER -> "none"

Overflow == "stack overflow"

\* A type that leads back to itself is looked up without end.
RECURSIVE getDependencies(_, _, _, _)
getDependencies(types, name, above, revision) ==
  IF name \in above THEN {Overflow}
  ELSE {name} \union UNION {getDependencies(types, n, above \union {name}, revision) :
         n \in {BaseName(types[name][i].type, revision) : i \in DOMAIN types[name]} \intersect DOMAIN types}

\* A type without what its field's `contains` says.
RECURSIVE Literal(_)
Literal(type) ==
  CASE type[1] \in {"enum", "merkletree"} -> <<type[1]>>
    [] type[1] = "array" -> <<"array", Literal(type[2])>>
    [] type[1] = "variant" -> <<"variant", [i \in DOMAIN type[2] |-> Literal(type[2][i])]>>
    [] OTHER -> type

\* A definition as it is written: an enum field as the name of its enum, a
\* merkletree without its leaves.
Written(type, revision) ==
  IF type[1] = "enum" /\ revision = ACTIVE THEN <<"ref", type[2]>> ELSE Literal(type)

Definition(types, name, revision) ==
  [i \in DOMAIN types[name] |-> Field(types[name][i].name, Written(types[name][i].type, revision))]

\* The library's types come first, whatever the message says of them.
encodeType(types, name, revision) ==
  LET all == Presets(revision) @@ types
      names == getDependencies(all, name, {}, revision)
  IN IF Overflow \in names THEN Throws
     ELSE <<"type", name, [n \in names |-> Definition(all, n, revision)]>>

\* A mutant: the struct's own name only.
encodeOneType(types, name, revision) ==
  LET all == Presets(revision) @@ types
  IN IF Overflow \in getDependencies(all, name, {}, revision) THEN Throws
     ELSE <<"type", name>>

getTypeHash(types, name, revision) == encodeType(types, name, revision)

------------------------------------------------------------------------------
(* The felt of a value.                                                     *)

Felt(n) == IF n < 0 THEN N(PRIME + n) ELSE N(n)

\* toHex(), or else the short string.  A negative number is written '0x-1',
\* which no hash takes.
getHex(v) ==
  CASE v[1] \in {"num", "digits"} -> N(v[2])
    [] v[1] = "hex" -> v[2]
    [] v[1] = "text" -> <<"short", v[2]>>
    [] v[1] = "bool" -> N(IF v[2] THEN 1 ELSE 0)
    [] OTHER -> Throws

\* BigInt() of the value, between first and last.
InRange(v, first, last) ==
  \/ v[1] \in {"num", "digits"} /\ v[2] \in first..last
  \/ v[1] = "hex" /\ IF v[2][1] = "n" THEN v[2][2] \in first..last ELSE last = PRIME - 1

Checked(v, ok) == IF ok THEN getHex(v) ELSE Throws

\* A mutant: a felt is taken for a name.
prepareName(v) ==
  CASE v[1] \in {"hex", "text", "digits"} -> <<"selector", v>>
    [] OTHER -> Throws

prepareSelector(v) ==
  CASE v[1] = "hex" -> v[2]
    [] v[1] \in {"text", "digits"} -> <<"selector", v>>
    [] OTHER -> Throws

\* The types that stand for themselves; every other name is a felt in LEGACY
\* and unknown in ACTIVE.
encodeBasic(type, v, revision) ==
  IF type[1] = "selector" THEN prepareSelector(v)
  ELSE IF revision = LEGACY THEN getHex(v)
  ELSE CASE type[1] = "string" ->
              IF v[1] \in {"text", "digits", "hex"} THEN <<"poseidon", <<<<"bytes", v>>>>>> ELSE Throws
         [] type[1] = "i128" ->
              IF InRange(v, -I128End, I128End - 1) THEN Felt(getHex(v)[2]) ELSE Throws
         [] type[1] \in {"u128", "timestamp"} -> Checked(v, InRange(v, 0, U128End - 1))
         [] type[1] \in {"felt", "shortstring"} ->
              Checked(v, v[1] \in {"text", "bool"} \/ InRange(v, 0, PRIME - 1))
         [] type[1] \in {"ClassHash", "ContractAddress"} -> Checked(v, InRange(v, 0, PRIME - 1))
         [] type[1] = "bool" -> Checked(v, v[1] = "bool")
         [] OTHER -> Throws

\* Without a field there is no `contains`; no type has the name raw.
getMerkleTreeType(type, field) == IF field THEN type[2] ELSE <<"raw">>

PlaceOf(fields, name) == CHOOSE i \in DOMAIN fields : fields[i].name = name

Has(v, name) == v[1] = "obj" /\ name \in DOMAIN v[2] /\ v[2][name] # Undefined

Item(items, i) == IF i \in DOMAIN items THEN items[i] ELSE Undefined

\* Whether the definition of an enum has the variant that the value names.
KnowsVariant(types, enum, v) ==
  /\ v[1] = "entry" /\ enum \in DOMAIN types
  /\ \E i \in DOMAIN types[enum] : types[enum][i].name = v[2] /\ types[enum][i].type[1] = "variant"

\* field says whether the type is that of a struct's field: the elements of a
\* list and the values of a variant have lost the name of theirs.
RECURSIVE encodeValue(_, _, _, _, _)
RECURSIVE getStructHash(_, _, _, _)

encodeItems(types, type, items, revision) ==
  [i \in DOMAIN items |-> encodeValue(types, type, items[i], FALSE, revision)]

encodeVariant(types, enum, v, revision) ==
  LET index == PlaceOf(types[enum], v[2])
      subtypes == types[enum][index].type[2]
  IN <<N(index - 1)>> \o
     (IF subtypes = <<>> THEN <<Zero>>   \* BigInt('')
      ELSE [i \in DOMAIN subtypes |-> encodeValue(types, subtypes[i], Item(v[3], i), FALSE, revision)])

encodeValue(types, type, v, field, revision) ==
  CASE type[1] = "ref" /\ type[2] \in DOMAIN types -> getStructHash(types, type[2], v, revision)
    [] type[1] = "ref" /\ type[2] \in DOMAIN Presets(revision) \ DOMAIN types ->
         getStructHash(Presets(revision), type[2], v, revision)
    [] type[1] = "array" ->
         IF v[1] # "arr" THEN Throws
         ELSE hashMethod(revision, encodeItems(types, type[2], v[2], revision))
    [] type[1] = "enum" /\ revision = ACTIVE ->
         IF ~field \/ ~KnowsVariant(types, type[2], v) THEN Throws
         ELSE hashMethod(revision, encodeVariant(types, type[2], v, revision))
    [] type[1] = "merkletree" ->
         IF v[1] # "arr" \/ (field /\ type[2][1] = "array") THEN Throws
         ELSE LET leaves == encodeItems(types, getMerkleTreeType(type, field), v[2], revision)
              IN IF hashMethod(revision, leaves) = Throws THEN Throws ELSE root(leaves)
    [] OTHER -> encodeBasic(type, v, revision)

encodeData(types, name, v, revision) ==
  LET fields == IF name \in DOMAIN types THEN types[name] ELSE Presets(revision)[name]
  IN <<getTypeHash(types, name, revision)>> \o
     [i \in DOMAIN fields |->
        IF Has(v, fields[i].name)
        THEN encodeValue(types, fields[i].type, v[2][fields[i].name], TRUE, revision)
        ELSE Throws]

getStructHash(types, name, v, revision) ==
  IF name \in DOMAIN types \union DOMAIN Presets(revision)
  THEN hashMethod(revision, encodeData(types, name, v, revision)) ELSE Throws

------------------------------------------------------------------------------
(* The hash of a message: a record [types, primaryType, domain, message],   *)
(* with domain an object.                                                   *)

DomainRevision(m) == IF "revision" \in DOMAIN m.domain[2] THEN m.domain[2].revision ELSE Undefined

identifyRevision(m) ==
  CASE domainName(ACTIVE) \in DOMAIN m.types /\ DomainRevision(m) = <<"digits", 1>> -> ACTIVE
    [] domainName(LEGACY) \in DOMAIN m.types /\ DomainRevision(m) \in {Undefined, <<"null">>, <<"digits", 0>>} -> LEGACY
    [] OTHER -> NoRevision

validateTypedData(m) == identifyRevision(m) # NoRevision

getMessageHash(m, account) ==
  IF ~validateTypedData(m) THEN Throws
  ELSE LET revision == identifyRevision(m)
       IN hashMethod(revision,
            <<<<"short", "StarkNet Message">>,
              getStructHash(m.types, domainName(revision), m.domain, revision),
              account,
              getStructHash(m.types, m.primaryType, m.message, revision)>>)

------------------------------------------------------------------------------
(* What a message means, by SNIP-12 and its types alone: the values, with   *)
(* the name and the definition of every struct and enum that has one.  The  *)
(* leaves of a merkletree are a set; zero is the one that fills it up.      *)

BasicMeaning(type, v, revision) ==
  CASE type[1] = "selector" /\ v[1] # "hex" -> <<"selector", v>>
    [] type[1] = "string" /\ revision = ACTIVE -> v
    [] v[1] \in {"num", "digits"} -> N(v[2])
    [] v[1] = "hex" -> v[2]
    [] v[1] = "bool" -> N(IF v[2] THEN 1 ELSE 0)
    [] OTHER -> v

RECURSIVE MeaningOf(_, _, _, _)
MeaningOf(types, type, v, revision) ==
  LET all == types @@ Presets(revision)
  IN CASE type[1] = "ref" /\ type[2] \in DOMAIN all ->
            LET fields == all[type[2]]
            IN <<"struct", type[2], Definition(all, type[2], revision),
                 [i \in DOMAIN fields |->
                    MeaningOf(types, fields[i].type, v[2][fields[i].name], revision)]>>
       [] type[1] = "array" -> <<"list", [i \in DOMAIN v[2] |-> MeaningOf(types, type[2], v[2][i], revision)]>>
       [] type[1] = "enum" /\ revision = ACTIVE ->
            LET subtypes == types[type[2]][PlaceOf(types[type[2]], v[2])].type[2]
            IN <<"variant", Definition(types, type[2], revision), v[2],
                 [i \in DOMAIN subtypes |-> MeaningOf(types, subtypes[i], v[3][i], revision)]>>
       [] type[1] = "merkletree" ->
            <<"leaves", {MeaningOf(types, type[2], v[2][i], revision) : i \in DOMAIN v[2]} \ {Zero}>>
       [] OTHER -> BasicMeaning(type, v, revision)

\* The meaning of a message that has a hash.
Meaning(m, account) ==
  LET revision == identifyRevision(m)
  IN <<revision, MeaningOf(m.types, <<"ref", domainName(revision)>>, m.domain, revision),
       account, MeaningOf(m.types, <<"ref", m.primaryType>>, m.message, revision)>>

\* A message that gives one of the library's types another definition.
RedefinesPreset(m) ==
  \E name \in DOMAIN m.types \intersect DOMAIN presetTypes : m.types[name] # presetTypes[name]
=============================================================================
