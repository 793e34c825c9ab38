---------------------------- MODULE SchemaOptions ----------------------------
(***************************************************************************)
(* The annotation vocabulary of the schema compiler (options.rs): one row  *)
(* per option, where it may be written, what it says of the zero value and *)
(* of hashing, and how it is read back out of descriptors whose own        *)
(* declaration, annotations.proto, an author may change.                   *)
(*                                                                         *)
(* An annotation is a function from the options written to their values.   *)
(* A field is [name, number, kind, card, optional, oneof, opts]; its kind  *)
(* is a scalar or the name of a message or enumeration, and the kind of a  *)
(* map is that of its values.  oneof is "" outside a declared one.         *)
(***************************************************************************)
EXTENDS Integers, Sequences, FiniteSets, SequencesExt

CONSTANTS ContractMessages, ForeignMessages, ContractEnums, ForeignEnums

MessageKinds == ContractMessages \cup ForeignMessages
EnumKinds    == ContractEnums \cup ForeignEnums

IsMap(f)  == f.card = "map"
IsList(f) == f.card = "list"
InDeclaredOneof(f) == f.oneof # ""
SupportsPresence(f) ==
    f.card = "single" /\ (f.kind \in MessageKinds \/ InDeclaredOneof(f) \/ f.optional)

(* Applies::permits.  What a map holds are entries, messages of their own. *)
Permits(applies, f) ==
    CASE applies = "Anything"           -> TRUE
      [] applies = "Floats"             -> ~IsMap(f) /\ f.kind = "double"
      [] applies = "StringsAndBytes"    -> ~IsMap(f) /\ f.kind \in {"string", "bytes"}
      [] applies = "Enums"              -> ~IsMap(f) /\ f.kind \in EnumKinds
      [] applies = "Lists"              -> IsList(f)
      [] applies = "ListsAndMaps"       -> IsList(f) \/ IsMap(f)
      [] applies = "ImplicitScalars"    -> ~SupportsPresence(f) /\ ~IsList(f) /\ ~IsMap(f)
      [] applies = "FieldsWithPresence" -> SupportsPresence(f)
      [] applies = "MessageLists"       -> IsList(f) /\ f.kind \in MessageKinds

-----------------------------------------------------------------------------
(* The rows.  Columns: shape, applies, stance on zero, stance on hashing,  *)
(* whether it is about elements, whether it guarantees a value, and what   *)
(* the canary declares.                                                    *)
Row(shape, applies, zero, hash, per_element, guarantees, canary) ==
    [shape |-> shape, applies |-> applies, zero |-> zero, hash |-> hash,
     per_element |-> per_element, guarantees_presence |-> guarantees, canary |-> canary]

Bool           == "bool"
OptionalUint32 == "optional uint32"
RepeatedString == "repeated string"

zero_is_meaningful ==
    Row(Bool, "ImplicitScalars", "data", "always", FALSE, TRUE, TRUE)
finite    == Row(Bool, "Floats", "any", "any", TRUE, FALSE, TRUE)
required  == Row(Bool, "FieldsWithPresence", "any", "any", FALSE, TRUE, TRUE)
unordered == Row(Bool, "Lists", "any", "any", TRUE, FALSE, TRUE)
max_items == Row(OptionalUint32, "ListsAndMaps", "any", "any", FALSE, FALSE, 4)
max_len   == Row(OptionalUint32, "StringsAndBytes", "any", "any", TRUE, FALSE, 32)
collection_metadata ==
    Row(Bool, "Anything", "any", "skipped", FALSE, FALSE, TRUE)
non_empty == Row(Bool, "StringsAndBytes", "invalid", "any", TRUE, FALSE, TRUE)
reject_unspecified == Row(Bool, "Enums", "invalid", "any", TRUE, FALSE, TRUE)
unique_by == Row(RepeatedString, "MessageLists", "any", "any", TRUE, FALSE, <<"id">>)

FIELD_OPTIONS ==
    [zero_is_meaningful |-> zero_is_meaningful, finite |-> finite, required |-> required,
     unordered |-> unordered, max_items |-> max_items, max_len |-> max_len,
     collection_metadata |-> collection_metadata, non_empty |-> non_empty,
     reject_unspecified |-> reject_unspecified, unique_by |-> unique_by]

MessageRow(shape, canary) == [shape |-> shape, canary |-> canary]
MESSAGE_OPTIONS ==
    [validated |-> MessageRow(Bool, TRUE), hashable |-> MessageRow(Bool, TRUE),
     max_depth |-> MessageRow(OptionalUint32, 8)]
ONEOF_OPTIONS == [required |-> MessageRow(Bool, TRUE)]

Extensions == {"field", "message", "oneof"}
Options(x) ==
    CASE x = "field"   -> FIELD_OPTIONS
      [] x = "message" -> MESSAGE_OPTIONS
      [] x = "oneof"   -> ONEOF_OPTIONS

(* The rows as the tables list them. *)
Table(x) ==
    CASE x = "field"   -> <<"zero_is_meaningful", "finite", "required", "unordered", "max_items",
                            "max_len", "collection_metadata", "non_empty", "reject_unspecified",
                            "unique_by">>
      [] x = "message" -> <<"validated", "hashable", "max_depth">>
      [] x = "oneof"   -> <<"required">>
-----------------------------------------------------------------------------
(* The vocabulary as annotations.proto declares it: per extension, the     *)
(* shape of each option and what the canary writes; the extensions it      *)
(* declares; and those whose values some step of the encoding path drops.  *)
DeclaredVocabulary ==
    [extensions |-> Extensions, lost |-> {},
     shapes |-> [x \in Extensions |-> [o \in DOMAIN Options(x) |-> Options(x)[o].shape]],
     canary |-> [x \in Extensions |-> [o \in DOMAIN Options(x) |-> Options(x)[o].canary]]]

\* Mutant: the type alone decides.
Accepts_kind_only(want, declared) ==
    \/ declared = want
    \/ want = OptionalUint32 /\ declared = "uint32"

(* Shape::accepts. *)
Accepts(want, declared) == declared = want

(* boolean, unsigned, strings: what of a written value comes back, as a    *)
(* set of none or one.  A bound without presence of its own loses zero.    *)
Comes(want, declared, value) ==
    CASE declared = want -> {value}
      [] want = OptionalUint32 /\ declared = "uint32" /\ value # 0 -> {value}
      [] OTHER -> {}

(* read, then one reader per option: the annotation the compiler sees. *)
Read(vocabulary, x, written) ==
    LET back(o) == Comes(Options(x)[o].shape, vocabulary.shapes[x][o], written[o])
        seen == IF x \in vocabulary.lost THEN {}
                ELSE {o \in DOMAIN written \cap DOMAIN Options(x) : back(o) # {}}
    IN  [o \in seen |-> CHOOSE v \in back(o) : TRUE]

(* extension: declared, every option there and readable, none unread.  The *)
(* first row at fault is the one reported.                                 *)
Extension(vocabulary, x) ==
    LET declared   == vocabulary.shapes[x]
        missing(o) == o \notin DOMAIN declared
        faulty     == {i \in DOMAIN Table(x) :
                          missing(Table(x)[i]) \/ ~Accepts(Options(x)[Table(x)[i]].shape, declared[Table(x)[i]])}
    IN  IF x \notin vocabulary.extensions THEN "NotDefined"
        ELSE IF faulty # {} THEN IF missing(Table(x)[Min(faulty)]) THEN "MissingField" ELSE "WrongType"
        ELSE IF DOMAIN declared \ DOMAIN Options(x) # {} THEN "NotRead"
        ELSE "ok"

(* check_all_options_are_read. *)
AllOptionsAreRead(vocabulary) == vocabulary.extensions \subseteq Extensions

(* check_canary: every option reads back as the canary declares it. *)
CanaryReadsBack(vocabulary) ==
    \A x \in Extensions :
        LET back == Read(vocabulary, x, vocabulary.canary[x])
        IN  \A o \in DOMAIN Options(x) : o \in DOMAIN back /\ back[o] = Options(x)[o].canary

(* Vocabulary::resolve: the first thing wrong, or "ok". *)
Resolve(vocabulary) ==
    IF Extension(vocabulary, "field") # "ok" THEN Extension(vocabulary, "field")
    ELSE IF Extension(vocabulary, "message") # "ok" THEN Extension(vocabulary, "message")
    ELSE IF Extension(vocabulary, "oneof") # "ok" THEN Extension(vocabulary, "oneof")
    ELSE IF ~AllOptionsAreRead(vocabulary) THEN "NotRead"
    ELSE IF ~CanaryReadsBack(vocabulary) THEN "CanaryFailed"
    ELSE "ok"
=============================================================================
