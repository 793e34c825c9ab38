------------------------------ MODULE ModelPlans ------------------------------
(***************************************************************************)
(* What the schema compiler writes for a schema its lint let pass: one     *)
(* plan per field and oneof (wrapper/plans.rs), the messages made of them  *)
(* (wrapper/mod.rs), the limits (wrapper/limits.rs), the wire types and    *)
(* the contract lock (lock.rs).                                            *)
(*                                                                         *)
(* A plan says what the generated code does with a field: how the struct   *)
(* declares it, which wire shape decoding takes it from, where it stands   *)
(* in the canonical order, whether canonicalize sorts it, and the checks.  *)
(* A check is a tuple, its name first.                                     *)
(***************************************************************************)
EXTENDS SchemaLint

CONSTANTS
    TakenNames,     \* type names the generated module's header gives a meaning
    TypeName        \* the type name a oneof's name derives

(* A contract has so many messages.  Messages and enumerations have names  *)
(* of their own, no scalar's.                                              *)
ASSUME KindsAssumption ==
    /\ IsFiniteSet(ContractMessages)
    /\ {"string", "bool", "u64"} \cap (EnumKinds \cup MessageKinds) = {}
    /\ EnumKinds \cap MessageKinds = {}

(* What prost makes of a field (wire::generate). *)
WireShape(f) ==
    CASE IsList(f)           -> "vec"
      [] IsMap(f)            -> "map"
      [] SupportsPresence(f) -> "option"
      [] OTHER               -> "plain"

Planned(f, decl, takes, sortable, checks) ==
    [name |-> f.name, number |-> f.number, kind |-> f.kind,
     metadata |-> Has(f, "collection_metadata"), sortable |-> sortable,
     decl |-> decl, takes |-> takes, checks |-> checks]

\* The check an option asks for, if it is written.
If(f, o, check) == IF Has(f, o) THEN <<check>> ELSE <<>>
Limit(f, o) == IF Has(f, o) THEN f.opts[o] ELSE 0

(* Declared plainly and looked for, or an option. *)
Declared(f) == IF Has(f, "required") THEN "plain" ELSE "option"
-----------------------------------------------------------------------------
(* The arms of plan_field. *)
StringList(f) ==
    Planned(f, "vec", "vec", Has(f, "unordered"),
            If(f, "max_items", <<"max_items", Limit(f, "max_items")>>)
              \o If(f, "non_empty", <<"each_non_empty">>)
              \o If(f, "max_len", <<"each_max_len", Limit(f, "max_len")>>))

String(f) ==
    Planned(f, Declared(f), "option", FALSE,
            If(f, "non_empty", <<"non_empty">>)
              \o If(f, "max_len", <<"max_len", Limit(f, "max_len")>>))

(* copy_plan, of a bool or an u64: it never asks whether the field is      *)
(* repeated or has presence.                                               *)
Copied(f) == Planned(f, Declared(f), "option", FALSE, <<>>)

Enumeration(f) == Planned(f, Declared(f), "option", FALSE, << <<"enum">> >>)

\* Mutant: keys may stand anywhere in the order.
AdjacentScanSound_anywhere(schema, f) == Has(f, "unordered")

(* adjacent_scan_sound: sorted, and the keys are the leading visible       *)
(* fields of the element.                                                  *)
AdjacentScanSound(schema, f) ==
    LET visible == {g.number : g \in {h \in Fields(schema, f.kind) : ~Has(h, "collection_metadata")}}
        keys == {g.number : g \in {h \in Fields(schema, f.kind) : h.name \in Range(f.opts["unique_by"])}}
    IN  /\ Has(f, "unordered")
        /\ \A k \in keys, v \in visible : k \in visible /\ (v < k => v \in keys)

MessageList(schema, f) ==
    Planned(f, "vec", "vec", Has(f, "unordered"),
            If(f, "max_items", <<"max_items", Limit(f, "max_items")>>)
              \o IF ~Has(f, "unique_by") THEN <<>>
                 ELSE << <<IF AdjacentScanSound(schema, f) THEN "scan" ELSE "set", f.opts["unique_by"]>> >>)

(* A map field is a message to plan_field: its entry. *)
MessageField(f) ==
    Planned(f, Declared(f), "option", FALSE, <<>>)

(* plan_field: what it does not know how to reshape. *)
FieldRefused(f) ==
    \/ f.kind = "u64" /\ Has(f, "required")
    \/ f.kind \in EnumKinds /\ IsList(f)
    \/ f.kind \notin {"string", "bool", "u64"} \cup EnumKinds \cup MessageKinds

PlanField(schema, f) ==
    CASE f.kind = "string"         -> IF IsList(f) THEN StringList(f) ELSE String(f)
      [] f.kind \in {"bool", "u64"} -> Copied(f)
      [] f.kind \in EnumKinds      -> Enumeration(f)
      [] f.kind \in MessageKinds   -> IF IsList(f) THEN MessageList(schema, f) ELSE MessageField(f)

(* plan_oneof: message arms only; it stands where its first arm does, and  *)
(* no annotation of an arm reaches it.                                     *)
Arms(schema, m, o) == {f \in Fields(schema, m) : f.oneof = o}
OneofRefused(schema, m, o) == \E f \in Arms(schema, m, o) : f.kind \notin MessageKinds
PlanOneof(schema, m, o) ==
    [name |-> o, number |-> Min({f.number : f \in Arms(schema, m, o)}), kind |-> "oneof",
     metadata |-> FALSE, sortable |-> FALSE,
     decl |-> IF "required" \in DOMAIN schema[m].oneofs[o] THEN "plain" ELSE "option",
     takes |-> "option", checks |-> <<>>,
     arms |-> {<<f.number, f.name, f.kind>> : f \in Arms(schema, m, o)}]
-----------------------------------------------------------------------------
Outside(schema, m) == {f \in Fields(schema, m) : ~InDeclaredOneof(f)}
Oneofs(schema, m) == {f.oneof : f \in Fields(schema, m)} \ {""}

(* claim: every type name the module derives, once each and none of the    *)
(* header's: a message's own and its builder's, an enum's, a oneof's.      *)
Clash(schema) ==
    LET pairs == UNION {{m} \X Oneofs(schema, m) : m \in DOMAIN schema}
        name(p) == TypeName[p[2]]
        others == {<<"type", t>> : t \in ContractEnums \cup DOMAIN schema}
                    \cup {<<"builder", m>> : m \in DOMAIN schema}
    IN  \/ \E p, q \in pairs : p # q /\ name(p) = name(q)
        \/ {name(p) : p \in pairs} \cap (others \cup TakenNames) # {}

(* ord_needed, collect_ord: the types of keys, and what they hold. *)
OrdNeeded(schema) ==
    LET keyed(f) == IF Has(f, "unique_by") /\ f.kind \in DOMAIN schema
                    THEN {g.kind : g \in {h \in Fields(schema, f.kind) : h.name \in Range(f.opts["unique_by"])}}
                           \cap DOMAIN schema
                    ELSE {}
    IN  Closure(Nesting(schema), UNION {UNION {keyed(f) : f \in Fields(schema, m)} : m \in DOMAIN schema})

(* root_messages: the ones nothing else holds get a codec. *)
RootMessages(schema) == DOMAIN schema \ UNION {Nested(schema, m) : m \in DOMAIN schema}

(* model: a reason to refuse, or none. *)
ModelRefused(schema) ==
    \/ Clash(schema)
    \/ \E m \in DOMAIN schema : \/ \E f \in Outside(schema, m) : FieldRefused(f)
                                \/ \E o \in Oneofs(schema, m) : OneofRefused(schema, m, o)

(* A set as a sequence, given what comes before each element. *)
Ascending(S, before) ==
    LET placed == {<<Cardinality(before[x]), x>> : x \in S}
    IN  [n \in 1..Cardinality(S) |-> (CHOOSE place \in placed : place[1] = n - 1)[2]]

\* Mutant: by number alone.
Precedes_by_number(p, q) == p.number < q.number

(* sort_by_key (metadata, number): metadata is compared last. *)
Precedes(p, q) == IF p.metadata = q.metadata THEN p.number < q.number ELSE q.metadata

(* ordered_plans, without those of oneofs. *)
FieldPlans(schema, m) == {PlanField(schema, f) : f \in Outside(schema, m)}
CanonicalPlans(schema, m) ==
    LET plans == FieldPlans(schema, m)
    IN  Ascending(plans, [p \in plans |-> {q \in plans : Precedes(q, p)}])

(* message_items of every message. *)
MessageItems(schema, m) ==
    [plans |-> FieldPlans(schema, m), canonical |-> CanonicalPlans(schema, m),
     oneofs |-> {PlanOneof(schema, m, o) : o \in Oneofs(schema, m)},
     content_hash |-> "hashable" \in DOMAIN schema[m].opts,
     ord |-> m \in OrdNeeded(schema), codec |-> m \in RootMessages(schema)]
Model(schema) == [m \in DOMAIN schema |-> MessageItems(schema, m)]

(* Whether the crate that holds the generated model builds: each field is  *)
(* taken from the wire shape prost gives it, and is of a generated type.   *)
Builds(schema) ==
    \A m \in DOMAIN schema : \A f \in Outside(schema, m) :
        PlanField(schema, f).takes = WireShape(f)

(* limits: one constant per bound. *)
Limits(schema) ==
    UNION {{<<m, "", schema[m].opts["max_depth"], "MAX_DEPTH">> : x \in DOMAIN schema[m].opts \cap {"max_depth"}}
             \cup {<<m, f.name, f.opts["max_len"], "MAX_LEN">> : f \in {g \in Fields(schema, m) : Has(g, "max_len")}}
             \cup {<<m, f.name, f.opts["max_items"], "MAX_ITEMS">> : f \in {g \in Fields(schema, m) : Has(g, "max_items")}}
           : m \in DOMAIN schema}

(* wire::generate: the prost types, which know no annotation. *)
Wire(schema) ==
    [m \in DOMAIN schema |->
        {<<f.number, f.name, f.kind, WireShape(f), f.oneof>> : f \in Fields(schema, m)}]

\* Mutant: a column without a rendering.
Rendered_less(opts) == [o \in DOMAIN opts \ {"unordered"} |-> opts[o]]

(* render_field_invariant, render_message_invariant: every option written. *)
Rendered(opts) == opts

(* Snapshot::capture and render. *)
Lock(schema) ==
    [messages |-> [m \in DOMAIN schema |-> Rendered(schema[m].opts)],
     oneofs |-> UNION {{<<m, o, {f.number : f \in Arms(schema, m, o)},
                          "required" \in DOMAIN schema[m].oneofs[o]>> : o \in Oneofs(schema, m)}
                       : m \in DOMAIN schema},
     fields |-> [m \in DOMAIN schema |->
                   {<<f.number, f.name, f.kind, f.card, SupportsPresence(f)>> : f \in Fields(schema, m)}],
     annotations |-> [m \in DOMAIN schema |->
                   [n \in {f.number : f \in Fields(schema, m)} |->
                       Rendered((CHOOSE f \in Fields(schema, m) : f.number = n).opts)]]]
=============================================================================
