----------------------------- MODULE StarknetId -----------------------------
(***************************************************************************)
(* The names of Starknet.id: the numeral system of                         *)
(* src/src/utils/starknetId.ts, the texts that                             *)
(* src/src/provider/extensions/starknetId.ts takes and gives, and the      *)
(* calls it puts together for a profile.                                   *)
(*                                                                         *)
(* A letter is a number: first those of the basic alphabet, then those of  *)
(* the big one, then the dot and one letter of neither alphabet.  The five *)
(* letters of `stark` are one letter, Tld, the last of the basic ones.     *)
(***************************************************************************)
EXTENDS Naturals, SequencesExt

CONSTANTS
  BasicSize,   \* the length of basicAlphabet
  BigSize      \* the length of bigAlphabet

ASSUME AlphabetAssumption == BasicSize \in Nat \ {0, 1} /\ BigSize \in Nat \ {0, 1}

Basic == 0 .. BasicSize - 1
Big == BasicSize .. BasicSize + BigSize - 1
Dot == BasicSize + BigSize
Foreign == Dot + 1

Tld == BasicSize - 1
Star == BasicSize + BigSize - 1      \* the last big letter
EvenEnd == <<BasicSize, 1>>          \* the first big letter and the second basic one

------------------------------------------------------------------------------
(* A label and its number.                                                  *)

Stars(k) == [i \in 1 .. k |-> Star]

\* extractStars(): the label without the stars at its end, and how many they are.
extractStars(label) ==
  LET k == CHOOSE k \in 0 .. Len(label) :
             /\ \A i \in Len(label) - k + 1 .. Len(label) : label[i] = Star
             /\ k < Len(label) => label[Len(label) - k] # Star
  IN <<SubSeq(label, 1, Len(label) - k), k>>

\* The first letters of a number are its lowest digits, so a big letter before a
\* last 'b' has the digits of a last star: the stars at the end are written in odd
\* numbers, and an even number stands for that ending.
EndForEncoding(label) ==
  LET stem == SubSeq(label, 1, Len(label) - 2)
      even == extractStars(stem)
      odd == extractStars(label)
  IN IF IsSuffix(EvenEnd, label) THEN even[1] \o Stars(2 * (even[2] + 1))
     ELSE IF odd[2] > 0 THEN odd[1] \o Stars(1 + 2 * (odd[2] - 1))
     ELSE label

EndAfterDecoding(label) ==
  LET found == extractStars(label)
      k == found[2]
  IN IF k = 0 THEN label
     ELSE IF k % 2 = 0 THEN found[1] \o Stars((k \div 2) - 1) \o EvenEnd
     ELSE found[1] \o Stars(((k - 1) \div 2) + 1)

\* A letter 0 at the end would not show.
IsHiddenZero(letter, last) == letter = 0 /\ last

\* The number of a letter and of what follows it.  A letter of neither alphabet has
\* no digit.
WithLetter(letter, last, rest) ==
  LET newid == letter - BasicSize + (IF last THEN 1 ELSE 0)
  IN IF letter \in Basic
     THEN IF IsHiddenZero(letter, last) THEN BasicSize ELSE letter + (BasicSize + 1) * rest
     ELSE IF letter \in Big THEN BasicSize + (BasicSize + 1) * (newid + BigSize * rest)
     ELSE rest

\* The numbers of a text from each of its letters on.
Numbers(text) ==
  LET number[i \in 1 .. Len(text) + 1] ==
        IF i > Len(text) THEN 0 ELSE WithLetter(text[i], i = Len(text), number[i + 1])
  IN number

useEncoded(label) == Numbers(EndForEncoding(label))[1]

\* Mutant: a big letter at the end is read like one within.
AlwaysWithin(rest) == FALSE

IsLastBig(rest) == rest \div (BigSize + 1) = 0

LastBig(code) == IF code = 0 THEN 0 ELSE BasicSize + code - 1

\* The letters of a number are told by those of smaller numbers.
decodedLetters(n) ==
  LET letters[m \in 0 .. n] ==
        LET code == m % (BasicSize + 1)
            rest == m \div (BasicSize + 1)
        IN IF m = 0 THEN <<>>
           ELSE IF code # BasicSize THEN <<code>> \o letters[rest]
           ELSE IF IsLastBig(rest) THEN <<LastBig(rest % (BigSize + 1))>>
           ELSE <<BasicSize + (rest % BigSize)>> \o letters[rest \div BigSize]
  IN letters[n]

------------------------------------------------------------------------------
(* A name and the numbers of its labels.                                    *)

DotStark == <<Dot, Tld>>

\* useDecoded(): a text with its dots and `.stark`, or no text.
useDecoded(encoded) ==
  LET labels == [i \in DOMAIN encoded |->
                   EndAfterDecoding(decodedLetters(encoded[i])) \o <<Dot>>]
  IN IF encoded = <<>> THEN <<>> ELSE FlattenSeq(labels) \o <<Tld>>

\* replace('.stark', '') takes out the first one.
TailToRemove(tails) == CHOOSE i \in tails : \A j \in tails : i <= j

WithoutTail(text) ==
  LET tails == {i \in 1 .. Len(text) - 1 : SubSeq(text, i, i + 1) = DotStark}
      at == TailToRemove(tails)
  IN IF tails = {} THEN text ELSE SubSeq(text, 1, at - 1) \o SubSeq(text, at + 2, Len(text))

\* split('.'), of the first i letters.
SplitUpTo(text) ==
  LET split[i \in 0 .. Len(text)] ==
        IF i = 0 THEN <<<<>>>>
        ELSE IF text[i] = Dot THEN Append(split[i - 1], <<>>)
        ELSE [split[i - 1] EXCEPT ![Len(split[i - 1])] = Append(@, text[i])]
  IN split

Labels(text) == SplitUpTo(text)[Len(text)]

EncodedDomain(text) ==
  LET labels == Labels(WithoutTail(text))
  IN [i \in DOMAIN labels |-> useEncoded(labels[i])]

TextOf(labels) ==
  FlattenSeq([i \in DOMAIN labels |-> labels[i] \o <<Dot>>]) \o <<Tld>>

------------------------------------------------------------------------------
(* The contracts of Starknet.id.                                            *)

Chains == {"SN_MAIN", "SN_SEPOLIA", "OTHER"}

\* On any other chain the functions throw; the multicall contract has one address.
ContractOf(kind, chain) ==
  IF chain = "OTHER" THEN <<"none", chain>>
  ELSE IF kind = "multicall" THEN <<kind, "SN_MAIN">>
  ELSE <<kind, chain>>

IsDeployed(chain) == ContractOf("naming", chain)[1] # "none"

------------------------------------------------------------------------------
(* The calls behind a profile: executed in order, each may refer to what    *)
(* those before have returned.                                              *)

Always == <<"Static">>
IfNotEqual(i, j, value) == <<"IfNotEqual", i, j, value>>

Hardcoded(value) == <<"Hardcoded", value>>
Reference(i, j) == <<"Reference", i, j>>
ArrayReference(i, j) == <<"ArrayReference", i, j>>

Fields == <<"twitter", "github", "discord", "proof_of_personhood", "nft_pp_contract">>

VerifierOf(field, contract) ==
  CASE field = "proof_of_personhood" -> contract["pop"]
    [] field \in {"nft_pp_contract", "nft_pp_id"} -> contract["pfp"]
    [] OTHER -> contract["verifier"]

\* Mutant: the data of the domain instead of that of the id.
IdOfFirst == Reference(0, 0)

\* What the second call returns.
IdReference == Reference(1, 0)

FieldCall(field, contract) ==
  [when |-> Always, to |-> Hardcoded(contract["identity"]), selector |-> "get_verifier_data",
   args |-> <<IdReference, Hardcoded(field), Hardcoded(VerifierOf(field, contract)),
              Hardcoded(0)>>]

\* Only with a picture contract is it asked for the picture.
ProfileCalls(address, contract) ==
  <<[when |-> Always, to |-> Hardcoded(contract["naming"]), selector |-> "address_to_domain",
     args |-> <<Hardcoded(address), Hardcoded(0)>>],
    [when |-> Always, to |-> Hardcoded(contract["naming"]), selector |-> "domain_to_id",
     args |-> <<ArrayReference(0, 0)>>]>>
  \o [i \in DOMAIN Fields |-> FieldCall(Fields[i], contract)]
  \o <<[when |-> Always, to |-> Hardcoded(contract["identity"]),
        selector |-> "get_extended_verifier_data",
        args |-> <<IdReference, Hardcoded("nft_pp_id"), Hardcoded(2),
                   Hardcoded(VerifierOf("nft_pp_id", contract)), Hardcoded(0)>>],
       [when |-> IfNotEqual(6, 0, 0), to |-> Reference(6, 0), selector |-> "tokenURI",
        args |-> <<Reference(7, 1), Reference(7, 2)>>]>>

------------------------------------------------------------------------------
(* The answer to those calls: how many there are, then each with its length.*)

HasPicture(data) == data[1] = 9

\* `index` before each part is read, and after the last.
PartStarts(data) ==
  LET start[i \in 1 .. data[1] + 1] ==
        IF i = 1 THEN 2 ELSE start[i - 1] + 1 + data[start[i - 1]]
  IN start

FinalArray(data) ==
  LET start == PartStarts(data)
  IN [i \in 1 .. data[1] |-> SubSeq(data, start[i] + 1, start[i] + data[start[i]])]

\* A value of 0 is no value.  Without metadata the picture is drawn from the id.
ParsedProfile(data) ==
  LET final == FinalArray(data)
      metadata == IF HasPicture(data) THEN SubSeq(final[9], 2, Len(final[9])) ELSE <<>>
  IN [name |-> useDecoded(SubSeq(final[1], 2, Len(final[1]))),
      twitter |-> final[3][1], github |-> final[4][1], discord |-> final[5][1],
      proofOfPersonhood |-> final[6][1] = 1,
      picture |-> IF metadata = <<>> THEN <<"identicon", final[2][1]>>
                  ELSE <<"uri", metadata>>]
==============================================================================
