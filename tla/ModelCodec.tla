----------------------------- MODULE ModelCodec -----------------------------
(***************************************************************************)
(* What the tables of ModelSchema mean: the canonical order, the content   *)
(* digest, the direct wire encoding, and the one way into a message, which *)
(* the builder and the decoder share: look for the fields, sort, check.    *)
(*                                                                         *)
(* A message is a record of its fields, each a sequence: empty when        *)
(* absent, one element when present, any number for a list.  Its wire form *)
(* is the same record over wire elements.  A sum (an enumeration, a        *)
(* NumericValue, a Value, the payload) is a pair: number or arm, content.  *)
(***************************************************************************)
EXTENDS ModelSchema, SequencesExt

CONSTANT Tables     \* of every message; Contract of ModelSchema

Schema == Tables

\* Doubles are integers, but for the two the model type refuses or rewrites.
NotFinite == 2000000
NegZero   == -2000000

(***************************************************************************)
(* Results and the path of a violation.                                    *)
(***************************************************************************)
Ok(v)       == <<"ok", v>>
Err(p, why) == <<"err", p, why>>
IsOk(r)     == r[1] = "ok"

NoIndex == -1
FieldErr(f, why)      == Err(<< <<f, NoIndex>> >>, why)
ElementErr(f, i, why) == Err(<< <<f, i>> >>, why)
At(r, seg, i)         == Err(<< <<seg, i>> >> \o r[2], r[3])

\* An answer carried on: its value wrapped in an arm, its error put at a field.
InArm(arm, r) == IF IsOk(r) THEN Ok(<<arm, r[2]>>) ELSE r
InField(r, f) == IF IsOk(r) THEN r ELSE At(r, f, NoIndex)

\* A function on 1..n as the tuple TLC evaluates once.
Tuple(f) == f \o <<>>

\* The first of these results that is an error, or Ok(v).
Worst(rs, bad, v) == IF bad = {} THEN Ok(v) ELSE rs[Min(bad)]
FirstErrOf(rs, v) == Worst(rs, {i \in DOMAIN rs : ~IsOk(rs[i])}, v)
FirstErr(rs, v) == FirstErrOf(Tuple(rs), v)

\* All their values, or the first error.
AllOf(rs) == IF \A i \in DOMAIN rs : IsOk(rs[i]) THEN Ok(Tuple([i \in DOMAIN rs |-> rs[i][2]]))
             ELSE FirstErrOf(rs, rs)
All(rs) == AllOf(Tuple(rs))

exceeds(actual, limit) == actual > limit

(***************************************************************************)
(* Types.                                                                  *)
(***************************************************************************)
Scalars == {"str", "int", "sint", "u64", "bool", "double", "bytes", "null"}
Enums   == DOMAIN Recognized_numbers

NumericValue_arms == <<"double", "sint", "u64">>
Value_arms == <<"null", "bool", "sint", "u64", "double", "str", "bytes", "Timestamp", "list", "map">>

ArmType(t, arm) ==
    CASE t = "NumericValue" -> NumericValue_arms[arm]
      [] t = "Value"        -> Value_arms[arm]
      [] t = "Payload"      -> Payload_arms[arm]

Sums == {"NumericValue", "Value", "Payload"}

Messages == DOMAIN Schema
FieldNames(t) == {Schema[t].fields[i].name : i \in DOMAIN Schema[t].fields}
FieldNamed(t, n) == LET fs == Schema[t].fields IN fs[CHOOSE i \in DOMAIN fs : fs[i].name = n]

IsMetadata(f) == f.metadata
IsVisible(f)  == ~f.metadata
Visible(t) == SelectSeq(Schema[t].fields, IsVisible)

\* Mutant: the metadata decides first.
CanonicalFields_metadata_first(t) == SelectSeq(Schema[t].fields, IsMetadata) \o Visible(t)

\* Mutant: the digest covers every field.
DigestFields_all(t) == Schema[t].fields

\* The canonical order ranks what hashing sees before what it does not, each
\* by wire number.
CanonicalFields(t) == Visible(t) \o SelectSeq(Schema[t].fields, IsMetadata)
DigestFields(t) == Visible(t)

(***************************************************************************)
(* The canonical order: -1, 0 or 1.                                        *)
(***************************************************************************)
CmpInt(a, b) == IF a < b THEN -1 ELSE IF a = b THEN 0 ELSE 1

\* The first of a sequence of comparisons that tells two things apart.
Telling(cs, told) == IF told = {} THEN 0 ELSE cs[Min(told)]
ThenWithTuple(cs) == Telling(cs, {i \in DOMAIN cs : cs[i] # 0})
ThenWith(cs) == ThenWithTuple(Tuple(cs))

RECURSIVE Cmp(_, _, _)
\* Element by element, then by length; an absent option sorts first.
cmp_slice(t, a, b) ==
    ThenWith([i \in 1..Min({Len(a), Len(b)}) |-> Cmp(t, a[i], b[i])]
             \o <<CmpInt(Len(a), Len(b))>>)
cmp_map(a, b) ==
    ThenWith([i \in 1..Min({Len(a), Len(b)}) |->
                 ThenWith(<<CmpInt(a[i][1], b[i][1]), Cmp("Value", a[i][2], b[i][2])>>)]
             \o <<CmpInt(Len(a), Len(b))>>)
cmp_fields(fs, a, b) ==
    ThenWith([i \in DOMAIN fs |-> cmp_slice(fs[i].type, a[fs[i].name], b[fs[i].name])])
canonical_cmp(t, a, b) == cmp_fields(CanonicalFields(t), a, b)
Cmp(t, a, b) ==
    CASE t \in Scalars -> CmpInt(a, b)
      [] t \in Enums   -> CmpInt(a[1], b[1])
      [] t \in Sums    -> IF a[1] # b[1] THEN CmpInt(a[1], b[1])
                          ELSE Cmp(ArmType(t, a[1]), a[2], b[2])
      [] t = "list"    -> cmp_slice("Value", a, b)
      [] t = "map"     -> cmp_map(a, b)
      [] OTHER         -> canonical_cmp(t, a, b)

\* The derived order of an identity (Subject, SignalKey): declaration order.
RECURSIVE DerivedCmp(_, _, _)
derived_slice(t, a, b) ==
    ThenWith([i \in 1..Min({Len(a), Len(b)}) |-> DerivedCmp(t, a[i], b[i])]
             \o <<CmpInt(Len(a), Len(b))>>)
derived_fields(fs, a, b) ==
    ThenWith([k \in DOMAIN fs |-> derived_slice(fs[k].type, a[fs[k].name], b[fs[k].name])])
DerivedCmp(t, a, b) ==
    IF t \in Scalars THEN CmpInt(a, b)
    ELSE derived_fields(Schema[t].fields, a, b)

(***************************************************************************)
(* The content digest, as the sequence of numbers written to the hasher.   *)
(***************************************************************************)
RECURSIVE Digest(_, _)
DigestAll(t, s) == FlattenSeq([i \in DOMAIN s |-> Digest(t, s[i])])
digest_map(m) == <<Len(m)>> \o FlattenSeq([i \in DOMAIN m |->
                     <<m[i][1], m[i][1]>> \o Digest("Value", m[i][2])])
digest_field(f, s) ==
    CASE f.list             -> <<f.number, Len(s)>> \o DigestAll(f.type, s)
      [] s = <<>>           -> <<>>
      [] f.type = "Payload" -> Digest("Payload", s[1])
      [] OTHER              -> <<f.number>> \o Digest(f.type, s[1])
digest_fields(fs, v) == FlattenSeq([i \in DOMAIN fs |-> digest_field(fs[i], v[fs[i].name])])
digest_message(t, v) == digest_fields(DigestFields(t), v) \o <<0>>
Digest(t, v) ==
    CASE t = "null"             -> <<>>
      [] t \in {"str", "bytes"} -> <<v, v>>
      [] t \in Scalars          -> <<v>>
      [] t \in Enums            -> <<v[1]>>
      [] t \in Sums             -> <<v[1]>> \o Digest(ArmType(t, v[1]), v[2])
      [] t = "list"             -> <<Len(v)>> \o DigestAll("Value", v)
      [] t = "map"              -> digest_map(v)
      [] OTHER                  -> digest_message(t, v)

(***************************************************************************)
(* The direct encoding.  A token is <<what, content, bytes>>: a key, a     *)
(* length, or a scalar with the length a string carries.  Nested content   *)
(* is prefixed with what emitted_len says before anything is emitted.      *)
(***************************************************************************)
Key == "key"
Length == "length"
Datum == "datum"

Varint(n) == CASE n < 0 -> 10 [] n < 128 -> 1 [] n < 16384 -> 2 [] n < 2097152 -> 3
              [] n < 268435456 -> 4 [] OTHER -> 5
ScalarLen(t, v) ==
    CASE t = "double"           -> 8
      [] t = "sint"             -> Varint(IF v < 0 THEN -2 * v - 1 ELSE 2 * v)
      [] t \in {"str", "bytes"} -> Varint(v) + v
      [] OTHER                  -> Varint(v)
KeyLen == 1

RECURSIVE EmittedLen(_, _), Emit(_, _)
\* Mutant: the length prefix is not counted.
nested_len_body_only(t, v) == KeyLen + EmittedLen(t, v)

Prefixed(n) == KeyLen + Varint(n) + n
nested_len(t, v) == Prefixed(EmittedLen(t, v))
one_len(t, v) ==
    CASE t = "null"        -> KeyLen + 1
      [] t \in Scalars     -> KeyLen + ScalarLen(t, v)
      [] t \in Enums       -> KeyLen + Varint(v[1])
      [] t = "Payload"     -> nested_len(ArmType(t, v[1]), v[2])
      [] OTHER             -> nested_len(t, v)
SumLen(s) == FoldSeq(LAMBDA n, m : n + m, 0, s)
field_len(t, s) == SumLen([i \in DOMAIN s |-> one_len(t, s[i])])
EmittedLen(t, v) ==
    CASE t \in {"NumericValue", "Value"} -> one_len(ArmType(t, v[1]), v[2])
      [] t = "list"  -> SumLen([i \in DOMAIN v |-> nested_len("Value", v[i])])
      [] t = "map"   -> SumLen([i \in DOMAIN v |-> nested_len("entry", v[i])])
      [] t = "entry" -> KeyLen + ScalarLen("str", v[1]) + nested_len("Value", v[2])
      [] OTHER       -> SumLen([k \in DOMAIN Schema[t].fields |->
                            LET f == Schema[t].fields[k] IN field_len(f.type, v[f.name])])

Prefix(tag, n) == << <<Key, tag, KeyLen>>, <<Length, n, Varint(n)>> >>
nested(tag, t, v) == Prefix(tag, EmittedLen(t, v)) \o Emit(t, v)
emit_one(tag, t, v) ==
    CASE t = "null"    -> Prefix(tag, 0)
      [] t \in Scalars -> << <<Key, tag, KeyLen>>, <<Datum, v, ScalarLen(t, v)>> >>
      [] t \in Enums   -> << <<Key, tag, KeyLen>>, <<Datum, v[1], Varint(v[1])>> >>
      [] t = "Payload" -> nested(v[1], ArmType(t, v[1]), v[2])
      [] OTHER         -> nested(tag, t, v)
emit_field(f, s) == FlattenSeq([i \in DOMAIN s |-> emit_one(f.number, f.type, s[i])])
Emit(t, v) ==
    CASE t \in {"NumericValue", "Value"} -> emit_one(v[1], ArmType(t, v[1]), v[2])
      [] t = "list"  -> FlattenSeq([i \in DOMAIN v |-> nested(1, "Value", v[i])])
      [] t = "map"   -> FlattenSeq([i \in DOMAIN v |-> nested(1, "entry", v[i])])
      [] t = "entry" -> emit_one(1, "str", v[1]) \o nested(2, "Value", v[2])
      [] OTHER       -> FlattenSeq([k \in DOMAIN Schema[t].fields |->
                            LET f == Schema[t].fields[k] IN emit_field(f, v[f.name])])
=============================================================================
