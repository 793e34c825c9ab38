----------------------------- MODULE SchemaLint -----------------------------
(***************************************************************************)
(* The rules a contract schema must keep (codegen/src/lint.rs), over a     *)
(* schema as the vocabulary reads it: a function from contract messages to *)
(* [opts, oneofs, fields], where oneofs holds the annotation of each       *)
(* declared oneof.  A violation is the subject, the reason and what it     *)
(* names.                                                                  *)
(***************************************************************************)
EXTENDS SchemaOptions

CONSTANT Keywords  \* names Rust reserves

Has(f, o) == o \in DOMAIN f.opts
Fields(schema, m) == schema[m].fields
FieldsNamed(schema, m, n) == {f \in Fields(schema, m) : f.name = n}

(* nested_messages; a foreign message leads nowhere the contract knows. *)
Nested(schema, m) == {f.kind : f \in Fields(schema, m)} \cap DOMAIN schema
Nesting(schema) == [m \in DOMAIN schema |-> Nested(schema, m)]

(* What next leads to from a set, in as many steps as there are messages. *)
Closure(next, from) ==
    LET reach[n \in 0..Cardinality(DOMAIN next)] ==
            IF n = 0 THEN from
            ELSE reach[n - 1] \cup UNION {next[m] : m \in reach[n - 1]}
    IN  reach[Cardinality(DOMAIN next)]

(* hash_reachable: through every field but metadata. *)
HashReachable(schema) ==
    LET visible == [m \in DOMAIN schema |->
                      {f.kind : f \in {g \in Fields(schema, m) : ~Has(g, "collection_metadata")}}
                        \cap DOMAIN schema]
    IN  Closure(visible, {m \in DOMAIN schema : "hashable" \in DOMAIN schema[m].opts})

(* self_referential. *)
SelfReferential(schema) ==
    {m \in DOMAIN schema : m \in Closure(Nesting(schema), Nested(schema, m))}
-----------------------------------------------------------------------------
(* contradiction, of two rows. *)
Contradict(first, second) ==
    \/ {first.zero, second.zero} = {"data", "invalid"}
    \/ {first.hash, second.hash} = {"always", "skipped"}

(* check_unique_by of one key that is not written twice: the first of the  *)
(* demands it does not meet.                                               *)
KeyReasons(schema, element, key) ==
    LET found == FieldsNamed(schema, element, key)
        member == CHOOSE f \in found : TRUE
        excluded == \E o \in DOMAIN member.opts : FIELD_OPTIONS[o].hash = "skipped"
        unvalidated == /\ member.kind \in MessageKinds
                       /\ \/ member.kind \notin DOMAIN schema
                          \/ "validated" \notin DOMAIN schema[member.kind].opts
        always == /\ ~InDeclaredOneof(member)
                  /\ \E o \in DOMAIN member.opts : FIELD_OPTIONS[o].guarantees_presence
    IN  IF found = {} THEN {"UnknownUniqueKey"}
        ELSE IF IsList(member) \/ IsMap(member) THEN {"RepeatedUniqueKey"}
        ELSE IF excluded THEN {"MetadataUniqueKey"}
        ELSE IF unvalidated THEN {"UnvalidatedUniqueKey"}
        ELSE IF ~always THEN {"OptionalUniqueKey"}
        ELSE {}

(* check_unique_by. A key of a foreign element resolves to nothing the     *)
(* contract declares.                                                      *)
CheckUniqueBy(schema, f) ==
    LET keys == f.opts["unique_by"]
        again == {i \in DOMAIN keys : \E j \in 1..(i - 1) : keys[j] = keys[i]}
        element == f.kind
    IN  (IF again # {} THEN {"DuplicateUniqueKey"} ELSE {})
          \cup UNION {IF element \in DOMAIN schema THEN KeyReasons(schema, element, keys[i])
                      ELSE {"UnknownUniqueKey"} : i \in DOMAIN keys \ again}

\* A reason that names nothing but its subject.
Plain(reasons) == {<<r, "">> : r \in reasons}

(* check_applicability: what is wrong with the annotation of a field. *)
CheckApplicability(schema, f, hash_visible) ==
    LET written == DOMAIN f.opts
        bound(o, n) == Has(f, o) /\ f.opts[o] = n
    IN  {<<"NotApplicable", o>> : o \in {w \in written : ~Permits(FIELD_OPTIONS[w].applies, f)}}
          \cup (IF Has(f, "required") /\ InDeclaredOneof(f) THEN {<<"NotApplicable", "required">>} ELSE {})
          \cup {<<"Conflicting", p>> : p \in {q \in written \X written :
                    q[1] # q[2] /\ Contradict(FIELD_OPTIONS[q[1]], FIELD_OPTIONS[q[2]])}}
          \cup (IF Has(f, "collection_metadata") /\ ~hash_visible
                THEN {<<"NotApplicable", "collection_metadata">>} ELSE {})
          \cup (IF Has(f, "non_empty") /\ bound("max_len", 0)
                THEN {<<"NotApplicable", "non_empty">>} ELSE {})
          \cup (IF bound("max_items", 0)
                THEN {<<"NotApplicable", o>> : o \in {w \in written : FIELD_OPTIONS[w].per_element}}
                ELSE {})
          \cup (IF Has(f, "unique_by") /\ f.opts["unique_by"] # <<>> /\ Permits("MessageLists", f)
                THEN {<<r, "unique_by">> : r \in CheckUniqueBy(schema, f)} ELSE {})

(* The presence rules of check_message, one field. *)
CheckPresence(f) ==
    IF f.kind \in ForeignMessages \/ (~IsMap(f) /\ f.kind \in ForeignEnums)
    THEN {"ForeignMessageType"}
    ELSE IF f.kind \in ContractMessages THEN {}
    ELSE IF IsMap(f) THEN {"ScalarMapValue"}
    ELSE IF IsList(f) \/ SupportsPresence(f) \/ Has(f, "zero_is_meaningful") THEN {}
    ELSE {"ImplicitPresence"}

(* check_message. *)
CheckMessage(schema, m, hash_visible, recursive) ==
    LET opts == DOMAIN schema[m].opts
    IN  {<<m, r>> : r \in Plain(
            (IF "hashable" \in opts /\ "validated" \notin opts THEN {"HashableWithoutValidated"} ELSE {})
              \cup (IF "max_depth" \in opts /\ ~recursive THEN {"NotRecursive"} ELSE {})
              \cup (IF {f.oneof : f \in Fields(schema, m)} \cap Keywords # {} THEN {"UnusableName"} ELSE {}))}
          \cup UNION {{<<f.name, r>> : r \in
                Plain((IF f.name \in Keywords THEN {"UnusableName"} ELSE {}) \cup CheckPresence(f))
                  \cup CheckApplicability(schema, f, hash_visible)}
                : f \in Fields(schema, m)}

(* presence: every rule over every message. *)
Violations(schema) ==
    LET visible == HashReachable(schema)
        recursive == SelfReferential(schema)
    IN  UNION {CheckMessage(schema, m, m \in visible, m \in recursive) : m \in DOMAIN schema}
=============================================================================
