------------------------------- MODULE Events -------------------------------
(***************************************************************************)
(* The events of a contract, as src/src/utils/events/index.ts finds them   *)
(* in an ABI and reads them from what a transaction has emitted.           *)
(*                                                                         *)
(* An ABI of events is a record: cairo1; structs, a sequence of [name,     *)
(* members] with members [name, len, type, kind], the kind "key" or        *)
(* "data"; enums, a sequence of [name, variants] with variants [name,      *)
(* type, kind], the type the name of a struct or of an enum, the kind      *)
(* "nested" or "flat"; and root, the enum of the contract itself.          *)
(***************************************************************************)
EXTENDS Calldata

CONSTANT SelectorOf   \* the hash of each name, no two alike and none a value

------------------------------------------------------------------------------
(* The events of an ABI by the selectors that lead to them.                 *)

\* The variants that lead to an event or an enum, the outermost first.  Only the first
\* variant of that type is found.
RECURSIVE variantsTo(_, _)
variantsTo(abi, name) ==
  LET holders == SelectSeq(abi.enums, LAMBDA e : \E v \in ToSet(e.variants) : v.type = name)
  IN IF holders = <<>> THEN <<>>
     ELSE Append(variantsTo(abi, holders[1].name),
                 SelectSeq(holders[1].variants, LAMBDA v : v.type = name)[1])

SelectorsOf(variants) == [i \in DOMAIN variants |-> SelectorOf[variants[i].name]]

\* Mutant: flat variants are taken for nested ones.
EveryVariant(abi, event) ==
  IF abi.cairo1 THEN SelectorsOf(variantsTo(abi, event.name)) ELSE <<SelectorOf[event.name]>>

\* One flat variant, and only the last name counts.
selectorsTo(abi, event) ==
  LET variants == variantsTo(abi, event.name)
  IN CASE ~abi.cairo1 -> <<SelectorOf[event.name]>>
       [] \E v \in ToSet(variants) : v.kind = "flat" -> SelectorsOf(<<Last(variants)>>)
       [] OTHER -> SelectorsOf(variants)

\* Of several events at one place the last one has overwritten the others.
EventsAt(abi, selectors) == SelectSeq(abi.structs, LAMBDA e : selectorsTo(abi, e) = selectors)

LeadsOn(abi, selectors) ==
  \E e \in ToSet(abi.structs) : IsStrictPrefix(selectors, selectorsTo(abi, e))

------------------------------------------------------------------------------
(* Reading.  A log is a record [keys, data].                                *)

FirstKeys(log, n) == SubSeq(log.keys, 1, n)

\* How many keys are shifted: up to one that names an event or leads nowhere.
Shifted(abi, log) ==
  Min({n \in DOMAIN log.keys : EventsAt(abi, FirstKeys(log, n)) # <<>>
                                 \/ ~LeadsOn(abi, FirstKeys(log, n))}
      \union {Len(log.keys)})

WithoutFirst(abi, log) ==
  [log EXCEPT !.keys = SubSeq(log.keys, Shifted(abi, log) + 1, Len(log.keys))]

EventOf(abi, log) == EventsAt(abi, FirstKeys(log, Shifted(abi, log)))

\* A first key that is unknown is passed over; from there on the keys must name an event.
Fails(abi, log) ==
  log.keys # <<>> /\ LeadsOn(abi, FirstKeys(log, 1)) /\ EventOf(abi, log) = <<>>

MembersRead(read) == {Pair(p[1].name, p[2]) : p \in ToSet(read)}

parseEvent(event, log) ==
  LET Of(kind) == SelectSeq(event.members, LAMBDA m : m.kind = kind)
  IN [name |-> event.name,
      members |-> MembersRead(readFields(Of("data"), log.data,
                                         readFields(Of("key"), log.keys, <<>>)))]

\* What is read of the logs that name an event.
parseKnown(abi, logs) ==
  LET known == SelectSeq(logs, LAMBDA log : EventOf(abi, log) # <<>>)
  IN [i \in DOMAIN known |->
        parseEvent(Last(EventOf(abi, known[i])), WithoutFirst(abi, known[i]))]

\* The keys are shifted in place, up to the log that throws if one does.
parseEvents(abi, logs) ==
  LET failing == {i \in DOMAIN logs : Fails(abi, logs[i])}
      reached == Min(failing \union {Len(logs)})
  IN [events |-> IF failing = {} THEN parseKnown(abi, logs) ELSE Rejected,
      logs |-> [i \in DOMAIN logs |->
                  IF i <= reached THEN WithoutFirst(abi, logs[i]) ELSE logs[i]]]
==============================================================================
