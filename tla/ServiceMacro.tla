------------------------------ MODULE ServiceMacro ------------------------------
(* What #[rillet::service] makes of a struct (rillet-macros, service.rs):   *)
(* its capacities and view, the fields new() fills by itself, the getters,  *)
(* the gauges with the samplers that read them, and the fields it hides.    *)
(*                                                                          *)
(* A struct is whether it has named fields, the arguments of the attribute  *)
(* (args: a capacity with its literal, if it is one), its own attributes    *)
(* (attrs: `emits` with the events) and its fields, each with its           *)
(* attributes in order and its type.  Expressions and types are left out,   *)
(* but for a gauge's: the word it is stored in is modelled in full.         *)
EXTENDS Integers, Lists

CONSTANT WordBits        \* the width of a gauge's word: 64

ASSUME WordAssumption == WordBits \in Nat \ {0}

DefaultCapacity == 256

NoArgs == [ok |-> TRUE, view |-> FALSE,
           command |-> DefaultCapacity, event |-> DefaultCapacity]

(* parse_service_args and parse_capacity: the last of each name counts, and *)
(* a capacity is a positive integer literal.                                *)
ReadArg(args, arg) ==
    LET capacity == arg.is \in {"command_capacity", "event_capacity"}
    IN  [ok |-> /\ args.ok
                /\ arg.is = "view" \/ (capacity /\ arg.literal /\ arg.n # 0),
         view    |-> args.view \/ arg.is = "view",
         command |-> IF arg.is = "command_capacity" THEN arg.n ELSE args.command,
         event   |-> IF arg.is = "event_capacity" THEN arg.n ELSE args.event]

Args(s) == FoldLeft(ReadArg, NoArgs, s.args)

(* parse_struct_attrs: the events of every `emits`, in order. *)
Emits(s) == FlattenSeq([i \in DOMAIN s.attrs |-> s.attrs[i].events])
StructAttrsKnown(s) == \A i \in DOMAIN s.attrs : s.attrs[i].is = "emits"

(* parse_field_attrs: of several defaults the last counts. *)
NoFieldAttrs == [known |-> TRUE, get |-> FALSE, gauge |-> FALSE, default |-> "none"]

FieldMeet(attrs, meta) ==
    [known   |-> attrs.known /\ meta \in {"get", "gauge", "default", "default ="},
     get     |-> attrs.get \/ meta = "get",
     gauge   |-> attrs.gauge \/ meta = "gauge",
     default |-> IF meta \in {"default", "default ="} THEN meta
                 ELSE attrs.default]

FieldAttrs(f) == FoldLeft(FieldMeet, NoFieldAttrs, f.metas)

FieldRefused(f) ==
    ~FieldAttrs(f).known \/ (FieldAttrs(f).gauge /\ FieldAttrs(f).get)

StructRefused(s) ==
    \/ ~Args(s).ok
    \/ ~StructAttrsKnown(s)
    \/ ~s.named
    \/ \E i \in DOMAIN s.fields : FieldRefused(s.fields[i])

Gauges(s) == Only({f \in ToSet(s.fields) : FieldAttrs(f).gauge}, s.fields)
Getters(s) == Only({f \in ToSet(s.fields) : FieldAttrs(f).get}, s.fields)

(* generate_constructor: a field is initialised by its default expression,  *)
(* by Default (also a gauge without one), or from a parameter of its name.  *)
InitOf(f) ==
    CASE FieldAttrs(f).default = "default =" -> "expression"
      [] FieldAttrs(f).default = "default" -> "Default"
      [] FieldAttrs(f).default = "none" ->
            IF FieldAttrs(f).gauge THEN "Default" ELSE "parameter"

(* The hidden fields injected, each of which new() initialises.             *)
Hidden(s) ==
    (IF Emits(s) = <<>> THEN {} ELSE {"emitter"})
    \cup (IF Args(s).view THEN {"view_slot"} ELSE {})
    \cup {"cancel_token", "join_handles", "sampling_state", "ops"}

(* The methods given to the handle: on_<event>, getters and samplers.       *)
HandleMethods(s) ==
    [i \in DOMAIN Emits(s) |-> <<"on", Emits(s)[i]>>]
    \o [i \in DOMAIN Getters(s) |-> <<Getters(s)[i].name>>]
    \o [i \in DOMAIN Gauges(s) |-> <<Gauges(s)[i].name>>]

------------------------------------------------------------------------------
(* Gauges (gauge.rs).  A type is its kind and its width; a float is the     *)
(* unsigned integer of its bits.                                            *)
Pow2[n \in 0 .. WordBits] == IF n = 0 THEN 1 ELSE 2 * Pow2[n-1]

Values(type) ==
    CASE type.kind = "bool"     -> 0 .. 1
      [] type.kind = "unsigned" -> 0 .. Pow2[type.bits] - 1
      [] type.kind = "signed"   -> -Pow2[type.bits - 1] .. Pow2[type.bits - 1] - 1

(* `self as u64`: a signed value is extended with its sign. *)
ToBits(type, value) == value % Pow2[WordBits]

(* Slip: a signed word is read as if it were unsigned. *)
XFromBits(type, word) ==
    IF type.kind = "bool" THEN IF word # 0 THEN 1 ELSE 0
    ELSE word % Pow2[type.bits]

(* `bits as T`: the low bits of the word, by the type's sign. *)
FromBits(type, word) ==
    LET low == word % Pow2[type.bits]
    IN  CASE type.kind = "bool"     -> IF word # 0 THEN 1 ELSE 0
          [] type.kind = "unsigned" -> low
          [] type.kind = "signed"   ->
                IF low >= Pow2[type.bits - 1] THEN low - Pow2[type.bits] ELSE low

(* generate_gauge_impls: the cells a handle is given, a tuple in the order  *)
(* of the fields, and the place in it that the sampler of a field reads.    *)
GaugeCells(s, cell) == [i \in DOMAIN Gauges(s) |-> cell[Gauges(s)[i].name]]

IndexOf(s, name) == CHOOSE i \in DOMAIN Gauges(s) : Gauges(s)[i].name = name
==============================================================================
