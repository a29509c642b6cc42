------------------------------ MODULE Calldata ------------------------------
(***************************************************************************)
(* The calldata codec of src/src/utils/calldata: a value of the user and a *)
(* type of the ABI give felts, and felts and a type give a value.          *)
(*                                                                         *)
(* A type is <<kind>>, <<kind, element>>, <<"tuple", members>>,            *)
(* <<"struct", name>>, <<"enum", name>> or <<"result", ok, err>>; "felt0"  *)
(* and "array0" are the felt and the pointer of Cairo 0.  A value is       *)
(* tagged: <<"num", n>> for a number, <<"dec", n>> for one in decimal      *)
(* text, <<"text", characters>> for any other text, <<"bool", b>>,         *)
(* <<"arr", values>>, <<"obj", pairs>>, <<"some", v>>, <<"none">>,         *)
(* <<"ok", v>>, <<"err", v>>, <<"variant", name, v, listed>> with the      *)
(* variants the page has listed.  A felt is a number.                      *)
(*                                                                         *)
(* The numbers are small: HalfEnd stands for 2^128, WordLen for the 31     *)
(* characters of a felt, HexBase for 16.  A character is a number of up to *)
(* two digits of that base; those below HexBase are control characters.    *)
(***************************************************************************)
EXTENDS Integers, Sequences, SequencesExt

CONSTANTS
  Structs,   \* the members of every struct, a sequence of [name, type]
  Enums,     \* the variants of every enum, a sequence of [name, type]
  HalfEnd,
  RangeEnd,  \* the first number the checks find beyond each numeric type
  WordLen,
  HexBase

Undefined == <<"undefined">>
Rejected == <<-100>>   \* an exception

Kind(T) == T[1]
NumberTypes == DOMAIN RangeEnd
Unit == <<"tuple", <<>>>>
UnitValue == <<"obj", <<>>>>
Untyped == <<"untyped">>

Num(n) == <<"num", n>>
IsNumber(v) == Kind(v) \in {"num", "dec"}
Pair(name, v) == <<name, v>>

\* The property of an object, and all of them in order.
Get(v, name) ==
  LET found == SelectSeq(v[2], LAMBDA p : p[1] = name)
  IN IF Kind(v) = "obj" /\ found # <<>> THEN found[1][2] ELSE Undefined

ValuesOf(v) ==
  IF Kind(v) = "obj" THEN [i \in DOMAIN v[2] |-> v[2][i][2]]
  ELSE IF Kind(v) = "arr" THEN v[2] ELSE <<>>

IsObject(v) == Kind(v) \notin {"num", "dec", "bool", "text", "arr", "undefined"}

Has(v, names) == \A name \in names : Get(v, name) # Undefined

\* What every part gives, one after the other, if none throws.
Joined(parts) ==
  IF \E i \in DOMAIN parts : parts[i] = Rejected THEN Rejected ELSE FlattenSeq(parts)

isTypeArray(T) == Kind(T) \in {"array", "span", "array0"}
isTypeEnum(T) == Kind(T) \in {"enum", "option", "result"}
isCairo1Type(T) == Kind(T) \notin {"felt0", "array0"}

\* What stands between the first < and the last >.
getArrayType(T) ==
  IF isTypeArray(T) \/ Kind(T) \in {"nonzero", "option"} THEN T[2] ELSE Untyped

\* enums[type].variants
Variants(T) ==
  CASE Kind(T) = "option" -> <<[name |-> "Some", type |-> T[2]], [name |-> "None", type |-> Unit]>>
    [] Kind(T) = "result" -> <<[name |-> "Ok", type |-> T[2]], [name |-> "Err", type |-> T[3]]>>
    [] OTHER -> Enums[T[2]]

------------------------------------------------------------------------------
(* Texts and words.                                                         *)

Newline == 1
LineEnd == -1   \* what stands in the hexadecimal for a newline, which has no digits

HexOf(char) ==
  CASE char = Newline -> <<LineEnd>>
    [] char < HexBase -> <<char>>
    [] OTHER -> <<char \div HexBase, char % HexBase>>

\* A hexadecimal number, the digits of every character one after the other: a control
\* character has one digit only, and a newline is left as it is.
encodeShortString(text) == FlattenSeq([i \in DOMAIN text |-> HexOf(text[i])])

\* BigInt() of a hexadecimal number: it drops what is blank at the end, and throws if it
\* finds no digits or a line end among them.
toFelt(hex) ==
  LET digits == SubSeq(hex, 1, Max({0} \union {i \in DOMAIN hex : hex[i] # LineEnd}))
  IN IF digits = <<>> \/ LineEnd \in ToSet(digits) THEN Rejected
     ELSE <<FoldLeft(LAMBDA n, digit : HexBase * n + digit, 0, digits)>>

\* The hexadecimal digits of a felt; of 0, one.
RECURSIVE DigitsOf(_)
DigitsOf(n) ==
  IF n < HexBase THEN <<n>> ELSE Append(DigitsOf(n \div HexBase), n % HexBase)

\* The character that writes a digit: decimal text is written with the same digits here.
DigitChar(digit) == 2 * HexBase + digit

WrittenOut(n) == [i \in DOMAIN DigitsOf(n) |-> DigitChar(DigitsOf(n)[i])]

\* Two digits make a character, from the left; a digit that is left over stays one.
decodeShortString(felt) ==
  LET hex == DigitsOf(felt)
  IN [i \in 1 .. (Len(hex) + 1) \div 2 |->
       IF 2 * i <= Len(hex) THEN HexBase * hex[2 * i - 1] + hex[2 * i]
       ELSE DigitChar(hex[2 * i - 1])]

LeastOf(a, b) == IF a < b THEN a ELSE b

splitLongString(text) ==
  [i \in 1 .. (Len(text) + WordLen - 1) \div WordLen |->
     SubSeq(text, (i - 1) * WordLen + 1, LeastOf(i * WordLen, Len(text)))]

\* The last word is pending if it is not full.
byteArrayFromString(text) ==
  LET words == [i \in DOMAIN splitLongString(text) |->
                  toFelt(encodeShortString(splitLongString(text)[i]))]
      rest == Len(text) % WordLen
  IN [data |-> IF rest = 0 THEN words ELSE Front(words),
      pending_word |-> IF rest = 0 THEN <<0>> ELSE Last(words),
      pending_word_len |-> <<rest>>]

parseByteArray(text) ==
  LET bytes == byteArrayFromString(text)
  IN Joined(<<<<Len(bytes.data)>>>> \o bytes.data
            \o <<bytes.pending_word, bytes.pending_word_len>>)

\* The length of the pending word is not looked at, and a word that is 0 is empty.
stringFromByteArray(felts) ==
  FlattenSeq([i \in 1 .. Len(felts) - 1 |->
    IF felts[i] = 0 THEN <<>> ELSE decodeShortString(felts[i])])

------------------------------------------------------------------------------
(* Tuples, whose members are cut out of the text of the type.               *)

RECURSIVE Commas(_)
Commas(T) ==
  CASE Kind(T) = "tuple" ->
         IF T[2] = <<>> THEN 0
         ELSE Len(T[2]) - 1 + FoldLeft(LAMBDA n, m : n + Commas(m), 0, T[2])
    [] Kind(T) = "result" -> 1 + Commas(T[2]) + Commas(T[3])
    [] isTypeArray(T) \/ Kind(T) \in {"option", "nonzero"} -> Commas(T[2])
    [] OTHER -> 0

\* Only a tuple, a Result, an Array and an Option are cut out whole: any other generic
\* is torn at its commas.
extractTupleMemberTypes(T) ==
  FlattenSeq([i \in DOMAIN T[2] |->
    IF Kind(T[2][i]) \in {"span", "nonzero"}
    THEN LET torn == Commas(T[2][i])
         IN IF torn = 0 THEN <<T[2][i]>> ELSE [j \in 1 .. torn + 1 |-> Untyped]
    ELSE <<T[2][i]>>])

------------------------------------------------------------------------------
(* From values to felts.                                                    *)

\* new CairoUint256(v).toApiRequest()
toApiRequest(v) ==
  CASE IsNumber(v) /\ v[2] \in 0 .. HalfEnd * HalfEnd - 1 ->
         <<v[2] % HalfEnd, v[2] \div HalfEnd>>
    [] Kind(v) = "obj" /\ Has(v, {"low", "high"}) ->
         LET halves == <<Get(v, "low")[2], Get(v, "high")[2]>>
         IN IF \A i \in 1 .. 2 : halves[i] \in 0 .. HalfEnd - 1 THEN halves ELSE Rejected
    [] OTHER -> Rejected

\* The limbs of a number, the lowest first.
LimbsOf(n) == [i \in 1 .. 4 |-> (n \div HalfEnd ^ (i - 1)) % HalfEnd]

LimbNames == <<"limb0", "limb1", "limb2", "limb3">>

IsBelowU512(v) == IsNumber(v) /\ v[2] \in 0 .. HalfEnd ^ 4 - 1

\* new CairoUint512(v).toApiRequest()
CairoUint512(v) ==
  CASE Kind(v) = "obj" /\ Has(v, ToSet(LimbNames)) ->
         LET limbs == [i \in 1 .. 4 |-> Get(v, LimbNames[i])[2]]
         IN IF \A i \in 1 .. 4 : limbs[i] \in 0 .. HalfEnd - 1 THEN limbs ELSE Rejected
    [] IsBelowU512(v) -> LimbsOf(v[2])
    [] OTHER -> Rejected

\* A point is one number, of which x is the upper half and y the lower one.
Secp256k1Point(v) ==
  IF IsBelowU512(v)
  THEN LET limbs == LimbsOf(v[2]) IN <<limbs[3], limbs[4], limbs[1], limbs[2]>>
  ELSE Rejected

CairoFelt(v) ==
  CASE IsNumber(v) -> <<v[2]>>
    [] Kind(v) = "bool" -> <<IF v[2] THEN 1 ELSE 0>>
    [] Kind(v) = "text" /\ Len(v[2]) <= WordLen -> toFelt(encodeShortString(v[2]))
    [] OTHER -> Rejected

\* A number is taken for the text that writes it.  What is no number is handed on, and
\* whoever takes it throws: this is the end of it here.
bytes31(v) ==
  LET text == IF IsNumber(v) THEN WrittenOut(v[2]) ELSE v[2]
  IN IF Len(text) <= WordLen THEN toFelt(encodeShortString(text)) ELSE Rejected

parseBaseTypes(T, v) ==
  CASE Kind(T) = "u256" -> toApiRequest(v)
    [] Kind(T) = "u512" -> CairoUint512(v)
    [] Kind(T) = "secp256k1Point" -> Secp256k1Point(v)
    [] Kind(T) = "bytes31" -> IF IsNumber(v) \/ Kind(v) = "text" THEN bytes31(v) ELSE Rejected
    [] OTHER -> CairoFelt(v)

RECURSIVE parseCalldataValue(_, _)

parseStruct(v, T) ==
  Joined([i \in DOMAIN Structs[T[2]] |->
            parseCalldataValue(Get(v, Structs[T[2]][i].name), Structs[T[2]][i].type)])

parseTuple(v, T) ==
  LET members == extractTupleMemberTypes(T)
  IN IF Len(ValuesOf(v)) # Len(members) THEN Rejected
     ELSE Joined([i \in DOMAIN members |-> parseCalldataValue(ValuesOf(v)[i], members[i])])

\* The variant that is set, and its content.
ActiveVariant(v) ==
  CASE v[1] = "some" -> <<"Some", v[2]>>
    [] v[1] = "none" -> <<"None", UnitValue>>
    [] v[1] = "ok" -> <<"Ok", v[2]>>
    [] v[1] = "err" -> <<"Err", v[2]>>
    [] v[1] = "variant" -> <<v[2], v[3]>>
    [] OTHER -> <<"not an enum", Undefined>>

parseEnum(v, T) ==
  LET active == ActiveVariant(v)
      number == SelectInSeq(Variants(T), LAMBDA variant : variant.name = active[1])
  IN IF number = 0 THEN Rejected
     ELSE IF Variants(T)[number].type = Unit THEN <<number - 1>>
     ELSE Joined(<<<<number - 1>>, parseCalldataValue(active[2], Variants(T)[number].type)>>)

\* Mutant: a nested array has no length of its own.
ElementsOnly(v, T) ==
  Joined([i \in DOMAIN v[2] |-> parseCalldataValue(v[2][i], getArrayType(T))])

parseArray(v, T) ==
  Joined(<<<<Len(v[2])>>>> \o
         [i \in DOMAIN v[2] |-> parseCalldataValue(v[2][i], getArrayType(T))])

parseCalldataValue(v, T) ==
  CASE v = Undefined -> Rejected
    [] Kind(v) = "arr" -> parseArray(v, T)
    [] Kind(T) = "ethAddress" -> CairoFelt(v)
    [] Kind(T) = "byteArray" ->
         CASE Kind(v) = "text" -> parseByteArray(v[2])
           [] Kind(v) = "dec" -> parseByteArray(WrittenOut(v[2]))
           [] OTHER -> Rejected
    [] Kind(T) = "struct" /\ Structs[T[2]] # <<>> -> parseStruct(v, T)
    [] Kind(T) = "tuple" -> parseTuple(v, T)
    [] Kind(T) = "u256" -> toApiRequest(v)
    [] Kind(T) = "u512" -> CairoUint512(v)
    [] isTypeEnum(T) -> parseEnum(v, T)
    [] Kind(T) = "nonzero" -> parseBaseTypes(getArrayType(T), v)
    [] OTHER -> IF IsObject(v) THEN Rejected ELSE parseBaseTypes(T, v)

\* One parameter of the method.
parseCalldataField(v, T) ==
  CASE isTypeArray(T) ->
         IF Kind(v) = "text"
         THEN LET words == splitLongString(v[2])
              IN parseArray(<<"arr", [i \in DOMAIN words |-> <<"text", words[i]>>]>>, T)
         ELSE IF Kind(v) = "arr" THEN parseArray(v, T) ELSE Rejected
    [] Kind(T) = "nonzero" -> parseBaseTypes(getArrayType(T), v)
    [] Kind(T) \in {"struct", "byteArray", "tuple", "u256", "u512"} \/ isTypeEnum(T) ->
         parseCalldataValue(v, T)
    [] OTHER -> parseBaseTypes(T, v)

------------------------------------------------------------------------------
(* An object is put in the order of the ABI.                                *)

RECURSIVE orderInput(_, _)

orderStruct(v, members) ==
  <<"obj", [i \in DOMAIN members |->
     Pair(members[i].name, orderInput(Get(v, members[i].name), members[i].type))]>>

\* By position, whatever the keys are; what is too much is left out.
orderTuple(v, T) ==
  LET members == extractTupleMemberTypes(T)
  IN <<"obj", [i \in DOMAIN members |->
       Pair(ToString(i - 1), orderInput(IF i \in DOMAIN ValuesOf(v) THEN ValuesOf(v)[i] ELSE Undefined,
                          members[i]))]>>

\* The content of a custom enum keeps its order: no type is found for it.
orderEnum(v, T) ==
  CASE Kind(T) = "option" /\ v[1] = "some" -> <<"some", orderInput(v[2], T[2])>>
    [] Kind(T) = "result" /\ v[1] = "ok" -> <<"ok", orderInput(v[2], T[2])>>
    [] OTHER -> v

\* A value of another kind is left for parseCalldataField, or throws here: both reject.
orderInput(v, T) ==
  CASE v = Undefined -> v
    [] isTypeArray(T) /\ Kind(v) = "arr" ->
         <<"arr", [i \in DOMAIN v[2] |-> orderInput(v[2][i], getArrayType(T))]>>
    [] isTypeEnum(T) /\ IsObject(v) -> orderEnum(v, T)
    [] Kind(T) = "tuple" /\ Kind(v) \in {"obj", "arr"} -> orderTuple(v, T)
    [] Kind(T) = "struct" /\ Kind(v) = "obj" -> orderStruct(v, Structs[T[2]])
    [] OTHER -> v

------------------------------------------------------------------------------
(* The checks made of a value before it is encoded.  They do not look into  *)
(* structs, tuples and enums.                                               *)

\* Every text that is not hexadecimal passes, a number in decimal text too; and the end
\* of the range, 2^252, lies beyond the prime of the field.
validateFelt(v) ==
  Kind(v) \in {"text", "dec"} \/ (Kind(v) = "num" /\ v[2] \in 0 .. RangeEnd["felt"] - 1)

validateUint(v, T) ==
  CASE Kind(T) = "u256" -> toApiRequest(v) # Rejected
    [] Kind(T) = "u512" -> CairoUint512(v) # Rejected
    [] OTHER -> IsNumber(v) /\ v[2] \in 0 .. RangeEnd[Kind(T)] - 1

validateBool(v) == Kind(v) = "bool"

validateBytes31(v) ==
  \/ Kind(v) = "text" /\ Len(v[2]) <= WordLen
  \/ Kind(v) = "dec" /\ Len(WrittenOut(v[2])) <= WordLen

\* What is in a tuple is not looked at.
validateTuple(v) == IsObject(v)

validateStruct(v, T) ==
  IF Kind(T) = "ethAddress" THEN validateUint(v, T)
  ELSE Kind(v) = "obj" /\ \A i \in DOMAIN Structs[T[2]] :
                             \E j \in DOMAIN v[2] : v[2][j][1] = Structs[T[2]][i].name

validateEnum(v, T) ==
  \/ Kind(T) = "option" /\ Kind(v) \in {"some", "none"}
  \/ Kind(T) = "result" /\ Kind(v) \in {"ok", "err"}
  \/ Kind(v) = "variant"

\* An array of bytes31, of ByteArray or of NonZero passes no check.
RECURSIVE validateArray(_, _)
validateArray(v, T) ==
  LET base == getArrayType(T)
      Check(it) == CASE Kind(base) \in {"felt", "felt0"} -> validateFelt(it)
                     [] Kind(base) = "tuple" -> validateTuple(it)
                     [] isTypeArray(base) -> validateArray(it, base)
                     [] Kind(base) \in {"struct", "ethAddress"} -> validateStruct(it, base)
                     [] isTypeEnum(base) -> validateEnum(it, base)
                     [] Kind(base) \in NumberTypes \union {"u256", "u512"} -> validateUint(it, base)
                     [] Kind(base) = "bool" -> validateBool(it)
                     [] OTHER -> FALSE
  IN \/ Kind(base) \in {"felt", "felt0"} /\ Kind(v) = "text" /\ Len(v[2]) > WordLen
     \/ Kind(v) = "arr" /\ \A i \in DOMAIN v[2] : Check(v[2][i])

\* Nothing but felts, u8 to u128 and u256.
validateNonZero(v, T) ==
  CASE Kind(T[2]) = "felt" -> validateFelt(v) /\ IsNumber(v) /\ v[2] > 0
    [] Kind(T[2]) = "u256" -> validateUint(v, T[2]) /\ toApiRequest(v) # <<0, 0>>
    [] Kind(T[2]) = "u8" -> validateUint(v, T[2]) /\ v[2] > 0
    [] OTHER -> FALSE

ValidateField(v, T) ==
  CASE Kind(T) \in {"felt", "felt0"} -> validateFelt(v)
    [] Kind(T) = "bytes31" -> validateBytes31(v)
    [] Kind(T) = "bool" -> validateBool(v)
    [] Kind(T) = "byteArray" -> Kind(v) \in {"text", "dec"}
    [] isTypeArray(T) -> validateArray(v, T)
    [] Kind(T) \in {"struct", "ethAddress"} -> validateStruct(v, T)
    [] isTypeEnum(T) -> validateEnum(v, T)
    [] Kind(T) = "tuple" -> validateTuple(v)
    [] Kind(T) = "nonzero" -> validateNonZero(v, T)
    [] OTHER -> validateUint(v, T)

------------------------------------------------------------------------------
(* Without an ABI: CallData.compile().                                      *)

\* An object of the page: its values as felts, one after the other, an array with its
\* length before it.
RECURSIVE createTree(_)
createTree(v) ==
  CASE Kind(v) = "arr" ->
         Joined(<<<<Len(v[2])>>>> \o [i \in DOMAIN v[2] |-> createTree(v[2][i])])
    [] Kind(v) = "obj" -> Joined([i \in DOMAIN v[2] |-> createTree(v[2][i][2])])
    [] Kind(v) = "text" /\ Len(v[2]) > WordLen -> parseByteArray(v[2])
    [] Kind(v) \in {"some", "ok"} -> Joined(<<<<0>>, createTree(v[2])>>)
    [] Kind(v) = "none" -> <<1>>
    [] Kind(v) = "err" -> Joined(<<<<1>>, createTree(v[2])>>)
    [] Kind(v) = "variant" ->
         LET number == SelectInSeq(v[4], LAMBDA name : name = v[2])
         IN Joined(<<<<number - 1>>, createTree(v[3])>>)
    [] OTHER -> CairoFelt(v)

------------------------------------------------------------------------------
(* From felts to values.  A reader gives the value and the felts left.      *)

Garbled == <<"garbled">>

VariantOf(T, name, v) ==
  <<"variant", name, v, [i \in DOMAIN Variants(T) |-> Variants(T)[i].name]>>

Torn(T) == Kind(T) = "tuple" /\ Untyped \in ToSet(extractTupleMemberTypes(T))

RECURSIVE parseResponseValue(_, _)

\* Mutant: the halves are read in the other order.
HighFirst(felts) == Num(felts[1] * HalfEnd + felts[2])

toBigInt(felts) == Num(felts[2] * HalfEnd + felts[1])

\* One after the other.
ReadAll(types, felts) ==
  FoldLeft(LAMBDA read, T : LET one == parseResponseValue(T, read[2])
                            IN <<Append(read[1], one[1]), one[2]>>,
           <<<<>>, felts>>, types)

FromLimbs(limbs) ==
  Num(limbs[1] + limbs[2] * HalfEnd + limbs[3] * HalfEnd ^ 2 + limbs[4] * HalfEnd ^ 3)

readBaseTypes(T, felts) ==
  CASE Kind(T) = "bool" -> <<<<"bool", Head(felts) # 0>>, Tail(felts)>>
    [] Kind(T) = "bytes31" -> <<<<"text", decodeShortString(Head(felts))>>, Tail(felts)>>
    [] Kind(T) = "secp256k1Point" ->
         <<FromLimbs(<<felts[3], felts[4], felts[1], felts[2]>>), SubSeq(felts, 5, Len(felts))>>
    [] OTHER -> <<Num(Head(felts)), Tail(felts)>>

parseResponseValue(T, felts) ==
  CASE Kind(T) = "u256" -> <<toBigInt(felts), SubSeq(felts, 3, Len(felts))>>
    [] Kind(T) = "u512" -> <<FromLimbs(SubSeq(felts, 1, 4)), SubSeq(felts, 5, Len(felts))>>
    [] Kind(T) = "byteArray" ->
         LET end == Head(felts) + 3
         IN <<<<"text", stringFromByteArray(SubSeq(felts, 2, end))>>,
              SubSeq(felts, end + 1, Len(felts))>>
    [] isTypeArray(T) ->
         LET read == ReadAll([i \in 1 .. Head(felts) |-> getArrayType(T)], Tail(felts))
         IN <<<<"arr", read[1]>>, read[2]>>
    [] Kind(T) = "nonzero" -> parseResponseValue(T[2], felts)
    [] Kind(T) = "struct" ->
         LET members == Structs[T[2]]
             read == ReadAll([i \in DOMAIN members |-> members[i].type], felts)
         IN <<<<"obj", [i \in DOMAIN members |-> Pair(members[i].name, read[1][i])]>>, read[2]>>
    [] isTypeEnum(T) ->
         LET variant == Variants(T)[Head(felts) + 1]
             read == parseResponseValue(variant.type, Tail(felts))
         IN CASE variant.name = "None" -> <<<<"none">>, read[2]>>
              [] Kind(T) = "option" -> <<<<"some", read[1]>>, read[2]>>
              [] variant.name = "Ok" -> <<<<"ok", read[1]>>, read[2]>>
              [] Kind(T) = "result" -> <<<<"err", read[1]>>, read[2]>>
              [] OTHER -> <<VariantOf(T, variant.name, read[1]), read[2]>>
    [] Kind(T) = "tuple" ->
         IF Torn(T) THEN <<Garbled, <<>>>>
         ELSE LET read == ReadAll(T[2], felts)
              IN <<<<"obj", [i \in DOMAIN T[2] |-> Pair(ToString(i - 1), read[1][i])]>>, read[2]>>
    [] OTHER -> readBaseTypes(T, felts)

\* One output of a method, or one member of an event.  A length is one felt; that of a
\* Cairo 0 array has been read right before it.
responseParser(output, read) ==
  CASE output.len -> <<Num(Head(read[2])), Tail(read[2])>>
    [] Kind(output.type) = "array0" ->
         LET all == ReadAll([i \in 1 .. Last(read[1])[2][2] |-> output.type[2]], read[2])
         IN <<<<"arr", all[1]>>, all[2]>>
    [] OTHER -> parseResponseValue(output.type, read[2])

\* One after the other, next to what has been read before.
readFields(outputs, felts, before) ==
  FoldLeft(LAMBDA read, output :
             LET one == responseParser(output, read)
             IN <<Append(read[1], Pair(output, one[1])), one[2]>>,
           <<before, felts>>, outputs)[1]

\* CallData.decodeParameters(): types without a method.
ValuesRead(read) == [i \in DOMAIN read |-> read[i][2]]

decodeParameters(types, felts) ==
  ValuesRead(readFields([i \in DOMAIN types |-> [len |-> FALSE, type |-> types[i]]],
                        felts, <<>>))
==============================================================================
