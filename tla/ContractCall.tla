---------------------------- MODULE ContractCall ----------------------------
(***************************************************************************)
(* A call of src/src/contract/default.ts, from the arguments of the page   *)
(* to the felts the contract is given, and from the felts it returns to    *)
(* the value the page reads; and what an account makes of such calls when  *)
(* it executes them together (src/src/utils/transaction.ts).               *)
(*                                                                         *)
(* The arguments are a list, or an object with named properties.  A path   *)
(* is the method the page uses:                                            *)
(*   call      contract.call(), invoke(), and estimate()                   *)
(*   method    contract.f(), contract.functions.f() and callStatic.f(),    *)
(*             whose last argument may be options                          *)
(*   populate  contract.populate(), and the method compile() of CallData   *)
(*   deploy    ContractFactory.deploy(), whose last argument may be too    *)
(*   raw       calldata without an ABI, as execute() takes it              *)
(* An account that executes calls encodes them as the contract of its      *)
(* class reads them; it learns the class once, and may be upgraded.        *)
(***************************************************************************)
EXTENDS Events

CONSTANTS
  Methods,   \* records [inputs, outputs, interface], the parameters [name, len, type]
  ArgsOf(_), \* the arguments the page may give to a method
  Answers(_),  \* the values a contract may return of a type
  Paths,
  FeltEnd,   \* the prime of the field, where the felts end
  OtherCall, \* the felts of another call, executed together with this one
  EventAbis, \* the ABIs of events a contract may have
  Emits(_)   \* the lists of logs its transaction may emit, see Keys and Data

VARIABLES
  phase, method, path, args,
  calldata,   \* the felts for the contract
  execution,  \* the felts for the account, if it executes the call
  returned,   \* what the contract returns
  result,     \* what the page reads
  abi,        \* the contract's ABI of events
  receipt,    \* [execution, rejected, emitted, logs] of the transaction
  events      \* what parseEvents() returned, the last time

callVars == <<method, path, args, calldata, execution, returned, result>>
receiptVars == <<abi, receipt, events>>
vars == <<phase, callVars, receiptVars>>

------------------------------------------------------------------------------
(* The request.                                                             *)

\* A parameter the library fills in: the length of a Cairo 0 array.
IsFilledIn(input) == input.len /\ ~isCairo1Type(input.type)

Asked(inputs) == SelectSeq(inputs, LAMBDA input : ~IsFilledIn(input))

\* The version of an ABI that has this method first.
getAbiContractVersion(m) ==
  LET io == IF m.inputs # <<>> THEN m.inputs ELSE m.outputs
  IN IF m.interface THEN [cairo |-> 1, compiler |-> 2]
     ELSE IF isCairo1Type(Head(io).type) THEN [cairo |-> 1, compiler |-> 1]
     ELSE [cairo |-> 0, compiler |-> 0]

isCairo1Abi(m) == getAbiContractVersion(m).cairo = 1

getAbiVersion(m) == IF m.interface THEN 2 ELSE IF isCairo1Abi(m) THEN 1 ELSE 0

HasParser2(m) == getAbiVersion(m) = 2

methodInputsLength(m) ==
  IF HasParser2(m) THEN Len(m.inputs)
  ELSE Len(SelectSeq(m.inputs, LAMBDA input : ~input.len))

\* The length is skipped whatever its type is, and its argument is not.
validateFields(m, given) ==
  LET checked == SelectSeq(m.inputs, LAMBDA input : ~input.len)
  IN \A i \in DOMAIN checked :
       i \in DOMAIN given /\ given[i] # Undefined /\ ValidateField(given[i], checked[i].type)

validate(m, given) ==
  Kind(given) = "arr" /\ Len(given[2]) = methodInputsLength(m) /\ validateFields(m, given[2])

orderPropsByAbi(m, given) ==
  LET asked == Asked(m.inputs)
  IN [i \in DOMAIN asked |-> orderInput(Get(given, asked[i].name), asked[i].type)]

\* Arguments that are too many are left out.
compileList(m, given) ==
  LET asked == Asked(m.inputs)
  IN Joined([i \in DOMAIN asked |->
       parseCalldataField(IF i \in DOMAIN given THEN given[i] ELSE Undefined, asked[i].type)])

compile(m, given) ==
  IF Kind(given) = "arr" THEN compileList(m, given[2])
  ELSE LET ordered == orderPropsByAbi(m, given)
       IN IF validateFields(m, ordered) THEN compileList(m, ordered) ELSE Rejected

\* The static compile(): neither a list nor an object has a length at the top.
staticCompile(given) ==
  Joined([i \in DOMAIN ValuesOf(given) |-> createTree(ValuesOf(given)[i])])

\* populateTransaction.f() and estimateFee.f() take all they are given for arguments.
TakesOptions == path \in {"method", "deploy"}

OptionNames ==
  {"blockIdentifier", "parseRequest", "parseResponse", "formatResponse", "maxFee", "nonce",
   "signature", "addressSalt"}

\* An object with a property that has the name of an option, an argument too.
IsOptions(v) == \E name \in OptionNames : Get(v, name) # Undefined

SplitsOff == TakesOptions /\ args[2] # <<>> /\ IsOptions(Last(args[2]))

splitArgsAndOptions ==
  IF SplitsOff THEN [args |-> <<"arr", Front(args[2])>>, options |-> Last(args[2])]
  ELSE [args |-> args, options |-> Undefined]

Arguments == splitArgsAndOptions.args

Option(name) == Get(splitArgsAndOptions.options, name)

IsChecked == path \in {"call", "method", "deploy"}

\* The options of a method are merged with the default, parseRequest: true.
MethodParses == Option("parseRequest") # <<"bool", FALSE>>

\* Whatever options deploy() is given replace the default.
DeployParses == SplitsOff => Option("parseRequest") = <<"bool", TRUE>>

parseRequest ==
  CASE path = "raw" -> FALSE
    [] path = "method" -> MethodParses
    [] path = "deploy" -> DeployParses
    [] OTHER -> TRUE

\* Mutant: call() and invoke() rely on the checks of compile().
CompileOnly == IF parseRequest THEN compile(method, Arguments) ELSE staticCompile(Arguments)

getCalldata ==
  IF ~parseRequest THEN staticCompile(Arguments)
  ELSE IF IsChecked /\ ~validate(method, Arguments) THEN Rejected
  ELSE compile(method, Arguments)

Compile ==
  /\ phase = "given"
  /\ calldata' = getCalldata
  /\ phase' = IF calldata' = Rejected THEN "failed" ELSE "compiled"
  /\ UNCHANGED <<method, path, args, execution, returned, result, receiptVars>>

------------------------------------------------------------------------------
(* The account executes the calls.  A call is written as its target, which  *)
(* stands for the address and the selector, and its data.                   *)

\* Class hash, salt and `unique` (1, 2 and 1 here) for the deployer contract.
buildUDCCall == <<1, 2, 1, Len(calldata)>> \o calldata

\* What is estimated of a deployment: a salt that is not given is 0, not a random one.
buildUDCContractPayload == <<1, 0, 1, Len(calldata)>> \o calldata

Deploys == path = "deploy"

Calls == LET data == IF Deploys THEN buildUDCCall ELSE calldata
         IN <<[to |-> 1, data |-> data], [to |-> 2, data |-> OtherCall], [to |-> 3, data |-> data]>>

\* The data is compiled once more, and a negative number is a text by now.
MinusSign == HexBase

Recompiled(data) ==
  [i \in DOMAIN data |->
     IF data[i] < 0
     THEN toFelt(encodeShortString(<<MinusSign>> \o WrittenOut(-data[i])))[1]
     ELSE data[i]]

RecompiledCalls == [i \in DOMAIN Calls |-> [Calls[i] EXCEPT !.data = Recompiled(@)]]

\* Mutant: the offset is not advanced.
OffsetOfFirst(calls, i) == 0

Offset(calls, i) ==
  FoldLeft(LAMBDA n, c : n + Len(c.data), 0, SubSeq(calls, 1, i - 1))

fromCallsToExecuteCalldata(calls) ==
  LET array == [i \in DOMAIN calls |-> <<calls[i].to, Offset(calls, i), Len(calls[i].data)>>]
      data == FlattenSeq([i \in DOMAIN calls |-> calls[i].data])
  IN <<Len(calls)>> \o FlattenSeq(array) \o <<Len(data)>> \o data

fromCallsToExecuteCalldata_cairo1(calls) ==
  <<Len(calls)>> \o FlattenSeq([i \in DOMAIN calls |->
                      <<calls[i].to, Len(calls[i].data)>> \o calls[i].data])

\* The arguments are of no use any more.
NoArgs == <<"arr", <<>>>>

NoExecution == [version |-> 0, account |-> 0, felts |-> <<>>]

Classes == 0 .. 1
Unknown == 2

\* The version of the class the node has for the account: only Cairo 1 has Sierra.
getContractVersion(class) == IF class = 1 THEN 1 ELSE 0

\* Known from the constructor or from an earlier call, or asked for.
getCairoVersion(cairoVersion, class) ==
  IF cairoVersion = Unknown THEN getContractVersion(class) ELSE cairoVersion

\* An account that is known as one of Cairo 0 may have been upgraded since.
LearnVersion ==
  /\ phase = "compiled"
  /\ \E class \in Classes, cairoVersion \in Classes \union {Unknown} :
       /\ cairoVersion = 1 => class = 1
       /\ execution' = [version |-> getCairoVersion(cairoVersion, class), account |-> class,
                        felts |-> <<>>]
  /\ phase' = "versioned"
  /\ args' = NoArgs
  /\ UNCHANGED <<method, path, calldata, returned, result, receiptVars>>

Upgrade ==
  /\ phase \in {"versioned", "executed"}
  /\ execution.account = 0
  /\ execution' = [execution EXCEPT !.account = 1]
  /\ UNCHANGED <<phase, method, path, args, calldata, returned, result, receiptVars>>

Execute ==
  /\ phase = "versioned"
  /\ execution' = [execution EXCEPT !.felts =
                     IF execution.version = 1 THEN fromCallsToExecuteCalldata_cairo1(RecompiledCalls)
                     ELSE fromCallsToExecuteCalldata(RecompiledCalls)]
  /\ phase' = "executed"
  /\ UNCHANGED <<method, path, args, calldata, returned, result, receiptVars>>

------------------------------------------------------------------------------
(* The answer.                                                              *)

\* The characters of a text in a felt, each in its two digits: Cairo's short strings.
FeltOf(text) == FoldLeft(LAMBDA n, char : HexBase * HexBase * n + char, 0, text)

\* What a contract writes of a value: this is Cairo's serialisation.
RECURSIVE Serde(_, _)

SerdeAll(values, types) == FlattenSeq([i \in DOMAIN types |-> Serde(values[i], types[i])])

Serde(x, T) ==
  CASE Kind(T) = "u256" -> <<x[2] % HalfEnd, x[2] \div HalfEnd>>
    [] Kind(T) = "u512" -> [i \in 1 .. 4 |-> (x[2] \div HalfEnd ^ (i - 1)) % HalfEnd]
    [] Kind(T) = "secp256k1Point" ->   \* x, the upper half, and y
         Serde(Num(x[2] \div HalfEnd ^ 2), <<"u256">>) \o Serde(Num(x[2] % HalfEnd ^ 2), <<"u256">>)
    [] Kind(T) = "bool" -> <<IF x[2] THEN 1 ELSE 0>>
    [] Kind(T) = "bytes31" -> <<FeltOf(x[2])>>
    [] Kind(T) = "byteArray" ->
         LET full == Len(x[2]) \div WordLen
         IN <<full>> \o [i \in 1 .. full |->
                FeltOf(SubSeq(x[2], (i - 1) * WordLen + 1, i * WordLen))]
            \o <<FeltOf(SubSeq(x[2], full * WordLen + 1, Len(x[2]))), Len(x[2]) % WordLen>>
    [] isTypeArray(T) -> <<Len(x[2])>> \o SerdeAll(x[2], [i \in DOMAIN x[2] |-> T[2]])
    [] Kind(T) = "nonzero" -> Serde(x, T[2])
    [] Kind(T) = "struct" ->
         SerdeAll(ValuesOf(x), [i \in DOMAIN Structs[T[2]] |-> Structs[T[2]][i].type])
    [] Kind(T) = "tuple" -> SerdeAll(ValuesOf(x), T[2])
    [] Kind(T) = "option" -> IF x = <<"none">> THEN <<1>> ELSE <<0>> \o Serde(x[2], T[2])
    [] Kind(T) = "result" -> IF x[1] = "ok" THEN <<0>> \o Serde(x[2], T[2])
                             ELSE <<1>> \o Serde(x[2], T[3])
    [] Kind(T) = "enum" ->
         LET i == CHOOSE i \in DOMAIN Enums[T[2]] : Enums[T[2]][i].name = x[2]
         IN <<i - 1>> \o Serde(x[3], Enums[T[2]][i].type)
    [] OTHER -> <<x[2]>>

\* The length of a Cairo 0 array is an output of its own, before the array.
Written(values, outputs) ==
  FlattenSeq([i \in DOMAIN outputs |-> Serde(values[i], outputs[i].type)])

Answer ==
  /\ phase = "compiled"
  /\ path = "call"
  /\ \E values \in Answers(Asked(method.outputs)) : returned' = values
  /\ phase' = "answered"
  /\ args' = NoArgs
  /\ calldata' = <<>>
  /\ UNCHANGED <<method, path, execution, result, receiptVars>>

\* The lengths are dropped, but for that of an empty array.
parse(outputs, felts) ==
  SelectSeq(readFields(outputs, felts, <<>>), LAMBDA p : ~p[1].len \/ p[2] = Num(0))

Parse ==
  /\ phase = "answered"
  /\ result' = parse(method.outputs, Written(returned, Asked(method.outputs)))
  /\ phase' = "read"
  /\ UNCHANGED <<method, path, args, calldata, execution, returned, receiptVars>>

------------------------------------------------------------------------------
(* The events of the transaction.                                           *)

ReceiptOf(status, rejected, emitted, logs) ==
  [execution |-> status, rejected |-> rejected, emitted |-> emitted, logs |-> logs]

\* Of a transaction that has reverted, was rejected, or of a node that tells neither.
NoReceipts ==
  {ReceiptOf("REVERTED", FALSE, <<>>, <<>>), ReceiptOf("none", TRUE, <<>>, <<>>),
   ReceiptOf("none", FALSE, <<>>, <<>>)}

NoReceipt == ReceiptOf("none", FALSE, <<>>, <<>>)

\* ReceiptTx
statusReceipt ==
  CASE receipt.execution = "SUCCEEDED" -> "success"
    [] receipt.execution = "REVERTED" -> "reverted"
    [] receipt.rejected -> "rejected"
    [] OTHER -> "error"

match(success, otherwise) == IF statusReceipt = "success" THEN success ELSE otherwise

\* The ways from the contract's own enum down to an event.
RECURSIVE RoutesTo(_, _)
RoutesTo(ofAbi, name) ==
  IF name = ofAbi.root THEN {<<>>}
  ELSE UNION {{Append(route, v) : route \in RoutesTo(ofAbi, e.name),
                                  v \in {v \in ToSet(e.variants) : v.type = name}}
              : e \in {e \in ToSet(ofAbi.enums) : \E v \in ToSet(e.variants) : v.type = name}}

\* What a contract writes of an event, emitted by a route of variants with a value for
\* each member: a nested variant adds its selector, a flat one nothing.
MembersOf(event, kind) == SelectSeq(Asked(event.members), LAMBDA m : m.kind = kind)

SerdeOf(log, kind) ==
  FlattenSeq([i \in DOMAIN MembersOf(log.event, kind) |->
    LET m == MembersOf(log.event, kind)[i] IN Serde(log.values[m.name], m.type)])

Emitted(ofAbi, log) ==
  [keys |-> (IF ofAbi.cairo1
             THEN SelectorsOf(SelectSeq(log.route, LAMBDA v : v.kind = "nested"))
             ELSE <<SelectorOf[log.event.name]>>) \o SerdeOf(log, "key"),
   data |-> SerdeOf(log, "data")]

Mine ==
  /\ phase = "executed"
  /\ path = "call"
  /\ abi' \in EventAbis
  /\ \/ \E emitted \in Emits(abi') :
          receipt' = ReceiptOf("SUCCEEDED", FALSE, emitted,
                               [i \in DOMAIN emitted |-> Emitted(abi', emitted[i])])
     \/ receipt' \in NoReceipts
  /\ phase' = "mined"
  /\ calldata' = <<>>
  /\ execution' = NoExecution
  /\ UNCHANGED <<method, path, args, returned, result, events>>

\* The logs of this contract; the receipt keeps what is left of their keys.
IsOwn(i) == receipt.emitted[i].own

OwnLogs == SelectSeq([i \in DOMAIN receipt.logs |-> i], IsOwn)

IsReadFrom(own, parsed) ==
  /\ events' = match(parsed.events, Rejected)
  /\ receipt' = [receipt EXCEPT !.logs = [i \in DOMAIN receipt.logs |->
                   IF IsOwn(i) THEN parsed.logs[SelectInSeq(own, LAMBDA j : j = i)]
                   ELSE receipt.logs[i]]]

ParseEvents ==
  /\ phase \in {"mined", "parsed"}
  /\ IsReadFrom(OwnLogs, parseEvents(abi, [j \in DOMAIN OwnLogs |-> receipt.logs[OwnLogs[j]]]))
  /\ phase' = IF phase = "mined" THEN "parsed" ELSE "parsedAgain"
  /\ UNCHANGED <<callVars, abi>>

------------------------------------------------------------------------------
Init ==
  /\ phase = "given"
  /\ method \in Methods
  /\ path \in Paths
  /\ args \in ArgsOf(method)
  /\ Kind(args) = "obj" => ~TakesOptions
  /\ calldata = <<>>
  /\ execution = NoExecution
  /\ returned = <<>>
  /\ result = <<>>
  /\ abi = CHOOSE a \in EventAbis : TRUE
  /\ receipt = NoReceipt
  /\ events = <<>>

\* The call has ended.
Done ==
  /\ phase \in {"failed", "read", "executed", "parsedAgain"}
  /\ UNCHANGED vars

Next ==
  \/ Compile
  \/ LearnVersion
  \/ Upgrade
  \/ Execute
  \/ Answer
  \/ Parse
  \/ Mine
  \/ ParseEvents
  \/ Done

Spec == Init /\ [][Next]_vars
------------------------------------------------------------------------------
(* What the arguments mean: the values the contract has to be given.        *)

NoMeaning == <<"no meaning">>

InRange(v, end) == IsNumber(v) /\ v[2] \in 0 .. end - 1

If(meaningful, meaning) == IF meaningful THEN meaning ELSE NoMeaning

NumberIn(v, end) == IF InRange(v, end) THEN Num(v[2]) ELSE NoMeaning

\* A number in decimal text is a text as well.
TextOf(v) ==
  CASE Kind(v) = "text" -> v
    [] Kind(v) = "dec" -> <<"text", WrittenOut(v[2])>>
    [] OTHER -> NoMeaning

RECURSIVE Means(_, _)

MeansAll(values, types) == [i \in DOMAIN types |-> Means(values[i], types[i])]

Together(tag, values) ==
  If(\A i \in DOMAIN values : values[i] # NoMeaning, <<tag, values>>)

Keyed(names, meaning) ==
  IF meaning = NoMeaning THEN NoMeaning
  ELSE <<"obj", [i \in DOMAIN names |-> Pair(names[i], meaning[2][i])]>>

Tagged(tag, meaning) == If(meaning # NoMeaning, <<tag, meaning>>)

WordsOf(text) == [i \in DOMAIN splitLongString(text) |->
                    Num(FeltOf(splitLongString(text)[i]))]

Means(v, T) ==
  CASE Kind(T) \in {"felt", "felt0"} ->
         IF Kind(v) = "text" THEN If(Len(v[2]) <= WordLen, Num(FeltOf(v[2])))
         ELSE NumberIn(v, FeltEnd)
    [] Kind(T) \in {"u8", "ethAddress", "secp256k1Point"} -> NumberIn(v, RangeEnd[Kind(T)])
    [] Kind(T) = "u256" ->
         IF Kind(v) = "obj"
         THEN If(Has(v, {"low", "high"})
                   /\ InRange(Get(v, "low"), HalfEnd) /\ InRange(Get(v, "high"), HalfEnd),
                 Num(Get(v, "high")[2] * HalfEnd + Get(v, "low")[2]))
         ELSE NumberIn(v, HalfEnd * HalfEnd)
    [] Kind(T) = "u512" ->
         IF Kind(v) = "obj"
         THEN If(Has(v, ToSet(LimbNames))
                   /\ \A name \in ToSet(LimbNames) : InRange(Get(v, name), HalfEnd),
                 Num(FoldLeft(LAMBDA n, name : n * HalfEnd + Get(v, name)[2], 0,
                              Reverse(LimbNames))))
         ELSE NumberIn(v, HalfEnd ^ 4)
    [] Kind(T) = "bool" -> If(Kind(v) = "bool", v)
    [] Kind(T) = "bytes31" ->
         If(TextOf(v) # NoMeaning /\ Len(TextOf(v)[2]) <= WordLen, TextOf(v))
    [] Kind(T) = "byteArray" -> TextOf(v)
    [] Kind(T) = "nonzero" -> If(Means(v, T[2]) # Num(0), Means(v, T[2]))
    [] isTypeArray(T) ->
         IF Kind(v) = "text" THEN If(Kind(T[2]) \in {"felt", "felt0"}, <<"arr", WordsOf(v[2])>>)
         ELSE IF Kind(v) = "arr"
         THEN Together("arr", MeansAll(v[2], [i \in DOMAIN v[2] |-> T[2]]))
         ELSE NoMeaning
    [] Kind(T) = "struct" ->
         LET members == Structs[T[2]]
             names == [i \in DOMAIN members |-> members[i].name]
         IN IF Kind(v) = "obj" /\ Has(v, ToSet(names))
            THEN Keyed(names, Together("obj", MeansAll([i \in DOMAIN names |-> Get(v, names[i])],
                                         [i \in DOMAIN members |-> members[i].type])))
            ELSE NoMeaning
    [] Kind(T) = "tuple" ->
         IF Kind(v) = "obj" /\ Len(v[2]) = Len(T[2])
         THEN Keyed([i \in DOMAIN T[2] |-> ToString(i - 1)],
                    Together("obj", MeansAll(ValuesOf(v), T[2])))
         ELSE NoMeaning
    [] Kind(T) = "option" ->
         IF Kind(v) = "some" THEN Tagged("some", Means(v[2], T[2]))
         ELSE If(Kind(v) = "none", v)
    [] Kind(T) = "result" ->
         IF Kind(v) = "ok" THEN Tagged("ok", Means(v[2], T[2]))
         ELSE IF Kind(v) = "err" THEN Tagged("err", Means(v[2], T[3]))
         ELSE NoMeaning
    [] OTHER ->
         IF Kind(v) = "variant" /\ \E i \in DOMAIN Enums[T[2]] : Enums[T[2]][i].name = v[2]
         THEN LET i == CHOOSE i \in DOMAIN Enums[T[2]] : Enums[T[2]][i].name = v[2]
                  meaning == Means(v[3], Enums[T[2]][i].type)
              IN If(meaning # NoMeaning, VariantOf(T, v[2], meaning))
         ELSE NoMeaning

Types(parameters) == [i \in DOMAIN parameters |-> parameters[i].type]

\* The arguments in the order of the ABI, or none if one is missing or too many.
Intended ==
  LET asked == Asked(method.inputs)
  IN IF Kind(args) = "arr"
     THEN IF Len(args[2]) = Len(asked) THEN args[2]
          ELSE IF SplitsOff /\ Len(Arguments[2]) = Len(asked) THEN Arguments[2]
          ELSE <<Undefined>>
     ELSE IF Has(args, {asked[i].name : i \in DOMAIN asked})
     THEN [i \in DOMAIN asked |-> Get(args, asked[i].name)]
     ELSE <<Undefined>>

IsMeaningful ==
  /\ <<Undefined>> # Intended
  /\ \A i \in DOMAIN Intended : Means(Intended[i], Types(Asked(method.inputs))[i]) # NoMeaning

Meant == LET types == Types(Asked(method.inputs)) IN SerdeAll(MeansAll(Intended, types), types)

------------------------------------------------------------------------------
(* Properties *)

\* The texts of a value, and their words.
RECURSIVE Texts(_)
Texts(v) ==
  CASE Kind(v) = "text" -> {v[2]}
    [] Kind(v) \in {"arr", "obj"} -> UNION {Texts(ValuesOf(v)[i]) : i \in DOMAIN ValuesOf(v)}
    [] Kind(v) \in {"some", "ok", "err"} -> Texts(v[2])
    [] Kind(v) = "variant" -> Texts(v[3])
    [] OTHER -> {}

Words(v) == UNION {ToSet(splitLongString(text)) : text \in Texts(v)}

\* A control character is written with one digit, and shifts what stands before it.
IsShifted(word) == \E i \in 2 .. Len(word) : word[i] < HexBase

\* Arguments that mean something for the method reach the contract as what they mean,
\* in a list or by name, in any order and form, with options after them or without, or
\* are refused: they are never encoded as something else.  Texts with a control
\* character after the first place of a word are the exception.
SentIsMeant ==
  (/\ parseRequest
   /\ calldata # Rejected
   /\ phase # "given"
   /\ IsMeaningful
   /\ \A word \in Words(args) : ~IsShifted(word))
    => calldata = Meant

\* The numbers in a value of a type of numbers or of an array of them, with their types.
NumbersIn(v, T) ==
  CASE Kind(T) \in NumberTypes \union {"felt0", "u256", "u512", "nonzero"} -> {<<v, T>>}
    [] isTypeArray(T) /\ Kind(v) = "arr" ->
         {<<v[2][i], T[2]>> : i \in IF Kind(T[2]) \in NumberTypes \union {"felt0", "u256", "u512"}
                                  THEN DOMAIN v[2] ELSE {}}
    [] OTHER -> {}

\* What the check of a felt lets pass: any number in decimal text, and those from the
\* prime of the field to the end of the range it knows.
IsUnchecked(v, T) ==
  /\ T \in {<<"felt">>, <<"felt0">>, <<"nonzero", <<"felt">>>>}
  /\ Kind(v) = "dec" \/ (Kind(v) = "num" /\ v[2] \in FeltEnd .. RangeEnd["felt"] - 1)

\* Numbers that call() lets pass, in an array or by themselves and in every form, are in
\* the range of their type, so that the contract can read them.  The exceptions are
\* felts in decimal text and felts beyond the prime.
CheckedIsInRange ==
  IsChecked /\ parseRequest /\ phase = "compiled" =>
    \A i \in DOMAIN Asked(method.inputs) :
      \A number \in NumbersIn(Arguments[2][i], Asked(method.inputs)[i].type) :
        Means(number[1], number[2]) # NoMeaning \/ IsUnchecked(number[1], number[2])

\* A text is read back if no word of it begins with a control character, which has one
\* digit only; of the empty bytes31 the digit of 0 is read.
IsLegible(x, T) ==
  /\ \A word \in Words(x) : word[1] >= HexBase
  /\ Kind(T) = "bytes31" => x[2] # <<>>

IsReturned(values) ==
  \A i \in DOMAIN values :
    values[i] # Garbled /\ IsLegible(returned[i], Asked(method.outputs)[i].type)
      => values[i] = returned[i]

\* The page reads the values the contract returns, whatever precedes them, with the
\* method as with the types alone.  A tuple that holds a span of tuples is an exception,
\* and so is a text with a control character at the beginning of a word.
ReadIsReturned ==
  phase = "read" =>
    /\ IsReturned(ValuesRead(SelectSeq(result, LAMBDA p : ~p[1].len)))
    /\ (\A i \in DOMAIN method.outputs : ~method.outputs[i].len) =>
         IsReturned(decodeParameters(Types(method.outputs), Written(returned, method.outputs)))

\* The calls an account reads from the felts, as its __execute__ does.
RECURSIVE ReadCalls(_, _)
ReadCalls(n, felts) ==
  IF n = 0 THEN <<>>
  ELSE <<[to |-> felts[1], data |-> SubSeq(felts, 3, 2 + felts[2])]>>
       \o ReadCalls(n - 1, SubSeq(felts, 3 + felts[2], Len(felts)))

ReadCallArray(felts) ==
  LET data == SubSeq(felts, 3 + 3 * felts[1], Len(felts))
      At(i, j) == felts[1 + 3 * (i - 1) + j]
  IN [i \in 1 .. felts[1] |->
        [to |-> At(i, 1), data |-> SubSeq(data, At(i, 2) + 1, At(i, 2) + At(i, 3))]]

\* The data the deployer gives the constructor.
ForConstructor(data) == SubSeq(data, 5, 4 + data[4])

\* The contract of the account makes the very calls it was asked to make, each with its
\* own data, and the deployer gives the constructor its calldata, as in the estimate of
\* it.  An account that was upgraded after its version was learned may fail to, and a
\* negative number, which no check finds in a tuple or in what is populated, turns into a
\* text on its way.
ExecutesTheCalls ==
  (/\ phase = "executed"
   /\ execution.version = execution.account
   /\ \A i \in DOMAIN calldata : calldata[i] >= 0)
    =>
    LET read == IF execution.account = 1
                THEN ReadCalls(Head(execution.felts), Tail(execution.felts))
                ELSE ReadCallArray(execution.felts)
    IN /\ read = Calls
       /\ \A i \in {1, 3} :
            calldata = IF Deploys THEN ForConstructor(read[i].data) ELSE read[i].data
       /\ Deploys => ForConstructor(buildUDCContractPayload) = calldata

\* An event that one route leads to, which has nested variants only, or flat ones down
\* to the last; any other of its name is such an event, too.
LastName(event) == Last(variantsTo(abi, event.name)).name

IsPlain(event) ==
  \E route \in RoutesTo(abi, event.name) :
    /\ RoutesTo(abi, event.name) = {route}
    /\ \/ \A v \in ToSet(route) : v.kind = "nested"
       \/ \A i \in DOMAIN route : i < Len(route) => route[i].kind = "flat"

IsFound(event) ==
  abi.cairo1 => \A e \in ToSet(abi.structs) : LastName(e) = LastName(event) => IsPlain(e)

Original(log) ==
  [name |-> log.event.name,
   members |-> {Pair(m.name, log.values[m.name]) : m \in ToSet(log.event.members)}]

\* The page reads the events the contract has emitted, in their order and with their
\* values, components' events among them, and no others; of a receipt it parses again
\* it reads no event that was not emitted, though not all of them.  It reads none of a
\* transaction that has not succeeded.
EventsAreRead ==
  LET own == SelectSeq(receipt.emitted, LAMBDA log : log.own)
      originals == [i \in DOMAIN own |-> Original(own[i])]
  IN IF receipt.execution # "SUCCEEDED"
     THEN phase \in {"parsed", "parsedAgain"} => events = Rejected
     ELSE (\A i \in DOMAIN own : IsFound(own[i].event)) =>
            /\ phase = "parsed" => events = originals
            /\ phase = "parsedAgain" => ToSet(events) \subseteq ToSet(originals)

\* "If for any reason ..., you want to define yourself the low-level parameters to send
\* to Starknet, you can use the `parseRequest` option": only then are they not parsed.
\* A deployment with a salt does not parse them either.
DeployIsMeant ==
  (/\ path = "deploy"
   /\ phase = "compiled"
   /\ IsMeaningful
   /\ Option("parseRequest") = Undefined
   /\ \A word \in Words(args) : ~IsShifted(word))
    => calldata = Meant
==============================================================================
