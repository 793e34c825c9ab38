----------------------------- MODULE ModelEntry -----------------------------
(***************************************************************************)
(* The way into a validated message: TryFrom for what came off the wire,   *)
(* build() for what a producer set, both ending in canonicalize and check, *)
(* with the cross-field rules of rules.rs; and the way out, From.          *)
(***************************************************************************)
EXTENDS ModelCodec

VALUE_MAX_DEPTH            == 16
VALUE_STRING_MAX_LEN       == 4096
VALUE_LIST_MAX_ITEMS       == 1024
VALUE_MAP_ENTRIES_MAX      == 1024
VALUE_MAP_ENTRY_KEY_MAX    == 256
NANOS_PER_SECOND           == 1000000000

(***************************************************************************)
(* Checks and canonicalization.                                            *)
(***************************************************************************)
\* Mutant: any unrecognized value is taken at its word.
enum_check_trusting(t, e) == Ok(e)

\* Refused: an unrecognized value that aliases the unspecified number or a
\* recognized one.
enum_check(t, e) ==
    CASE ~e[2]                           -> Ok(e)
      [] e[1] = 0                        -> Err(<<>>, "Unspecified")
      [] e[1] \in Recognized_numbers[t]  -> Err(<<>>, "Rule")
      [] OTHER                           -> Ok(e)

SameIdentity(ks, a, b) == \A i \in DOMAIN ks : a[ks[i]] = b[ks[i]]

\* The uniqueness check looks at neighbours only: the list is sorted.
unique_by(f, s, ks) ==
    LET twins == {i \in 2..Len(s) : SameIdentity(ks, s[i], s[i - 1])}
    IN  IF twins = {} THEN Ok(s) ELSE ElementErr(f, Min(twins) - 1, "Duplicate")

check_map(f, m) ==
    LET bad == {i \in DOMAIN m : m[i][1] = 0 \/ exceeds(m[i][1], VALUE_MAP_ENTRY_KEY_MAX)}
        i   == Min(bad)
    IN  CASE bad # {} -> Err(<< <<f, NoIndex>>, <<"entries", i - 1>>, <<"key", NoIndex>> >>,
                             IF m[i][1] = 0 THEN "Empty" ELSE "TooLong")
          [] exceeds(Len(m), VALUE_MAP_ENTRIES_MAX) -> FieldErr(f, "TooMany")
          [] OTHER -> Ok(m)

\* One test of a check table, on a field of v; an absent field passes.
Test(c, v) ==
    LET s == v[c.field] IN
    CASE c.test = "max_items" -> IF exceeds(Len(s), c.limit) THEN FieldErr(c.field, "TooMany") ELSE Ok(s)
      [] c.test = "unique_by" -> unique_by(c.field, s, c.keys)
      [] c.test = "elements"  ->
            FirstErr([i \in DOMAIN s |->
                CASE s[i] = 0                -> ElementErr(c.field, i - 1, "Empty")
                  [] exceeds(s[i], c.limit)  -> ElementErr(c.field, i - 1, "TooLong")
                  [] OTHER                   -> Ok(s)], s)
      [] s = <<>> \/ c.test = "sort" -> Ok(s)
      [] c.test = "non_empty" -> IF s[1] = 0 THEN FieldErr(c.field, "Empty") ELSE Ok(s)
      [] c.test = "max_len"   -> IF exceeds(s[1], c.limit) THEN FieldErr(c.field, "TooLong") ELSE Ok(s)
      [] c.test = "recognized" ->
            InField(enum_check(c.enum, s[1]), c.field)
      [] c.test = "map"       -> check_map(c.field, s[1])

canonicalize(t, v) ==
    LET sorted == {c \in Range(Schema[t].check) : c.test = "sort"}
    IN  [f \in DOMAIN v |->
            IF f \in {c.field : c \in sorted}
            THEN SortSeq(v[f], LAMBDA a, b : Cmp(FieldNamed(t, f).type, a, b) < 0)
            ELSE v[f]]

(***************************************************************************)
(* rules.rs: one operator per message that has cross-field rules.          *)
(***************************************************************************)
\* Binary search under the derived order of the key, as slice::binary_search_by.
RECURSIVE Bisect(_, _, _, _, _, _)
Bisect(s, key, t, k, lo, hi) ==
    IF lo > hi THEN FALSE
    ELSE LET mid == (lo + hi) \div 2
             c   == DerivedCmp(t, s[mid][key][1], k)
         IN  CASE c = 0 -> TRUE
               [] c < 0 -> Bisect(s, key, t, k, mid + 1, hi)
               [] OTHER -> Bisect(s, key, t, k, lo, mid - 1)
Found(s, key, t, k) == Bisect(s, key, t, k, 1, Len(s))

rules_timestamp(v) ==
    IF v.nanos[1] >= NANOS_PER_SECOND THEN FieldErr("nanos", "Rule") ELSE Ok(v)

rules_value_range(v) ==
    CASE v.min = <<>> /\ v.max = <<>>     -> FieldErr("min", "Rule")
      [] v.min = <<>> \/ v.max = <<>>     -> Ok(v)
      [] v.min[1][1] # v.max[1][1]        -> FieldErr("max", "Rule")
      [] v.min[1][2] > v.max[1][2]        -> FieldErr("max", "Rule")
      [] OTHER                            -> Ok(v)

rules_readings(v) ==
    LET lost == {i \in DOMAIN v.samples :
                    ~Found(v.descriptors, "key", "SignalKey", v.samples[i].key[1])}
    IN  IF lost = {} THEN Ok(v) ELSE ElementErr("samples", Min(lost) - 1, "Rule")

\* Observations of one series: every one stamped, no instant twice.  Series
\* are visited in key order and the first fault of a series is reported.
SeriesKey(o) == <<o.subject, o.facet, o.name>>
rules_states(v) ==
    LET os       == v.observations
        Before(i) == {j \in 1..(i - 1) : SeriesKey(os[j]) = SeriesKey(os[i])}
        Repeated(i) == \E j \in DOMAIN os \ {i} : SeriesKey(os[j]) = SeriesKey(os[i])
        Unstamped == {i \in DOMAIN os : Repeated(i) /\ os[i].observed_at = <<>>}
        Again     == {i \in DOMAIN os : \E j \in Before(i) : os[j].observed_at = os[i].observed_at}
        Faulty    == Unstamped \cup Again
        Earlier(i, j) ==
            ThenWith(<<DerivedCmp("Subject", os[i].subject[1], os[j].subject[1]),
                       cmp_slice("str", os[i].facet, os[j].facet),
                       cmp_slice("str", os[i].name, os[j].name), CmpInt(i, j)>>) < 0
        First(faulty) == CHOOSE i \in faulty : \A j \in faulty \ {i} : Earlier(i, j)
    IN  IF Faulty = {} THEN Ok(v) ELSE ElementErr("observations", First(Faulty) - 1, "Rule")

rules_resource_graph(v) ==
    LET lost == {i \in DOMAIN v.relations :
                    ~Found(v.resources, "subject", "Subject", v.relations[i].source[1])}
    IN  IF lost = {} THEN Ok(v) ELSE ElementErr("relations", Min(lost) - 1, "Rule")

rules_observation_window(v) ==
    IF v.end # <<>> /\ Cmp("Timestamp", v.end[1], v.start[1]) <= 0
    THEN FieldErr("end", "Rule") ELSE Ok(v)

rules_acquisition_status(v) ==
    LET newer == v.outcome[1][2] IN
    CASE newer -> Ok(v)
      [] v.outcome[1][1] = Failed /\ v.failure_class = <<>>    -> FieldErr("failure_class", "Rule")
      [] v.outcome[1][1] = Succeeded /\ v.failure_class # <<>> -> FieldErr("failure_class", "Rule")
      [] OTHER -> Ok(v)

rules_projection_issue(v) ==
    LET newer == v.kind[1][2] IN
    CASE newer -> Ok(v)
      [] v.kind[1][1] = InvalidKind /\ v.detail = <<>>     -> FieldErr("detail", "Rule")
      [] v.kind[1][1] = MissingRequired /\ v.detail # <<>> -> FieldErr("detail", "Rule")
      [] OTHER -> Ok(v)

rules_projection_issues(v) == IF v.issues = <<>> THEN FieldErr("issues", "Rule") ELSE Ok(v)

\* Breadth-first from the scope along the relations.
RECURSIVE Reach(_, _)
Reach(graph, seen) ==
    LET next == {graph.relations[i].target[1] : i \in
                    {j \in DOMAIN graph.relations : graph.relations[j].source[1] \in seen}}
    IN  IF next \subseteq seen THEN seen ELSE Reach(graph, seen \cup next)

IsComplete(v) == v.coverage[1].completeness[1] = <<Complete, FALSE>>
rules_observation_batch(v) ==
    LET arm      == v.payload[1][1]
        graph    == v.payload[1][2]
        Stranded == {i \in DOMAIN graph.resources :
                        graph.resources[i].subject[1] \notin Reach(graph, {v.coverage[1].scope[1]})}
    IN  CASE arm = 11 /\ IsComplete(v) ->
                Err(<< <<"coverage", NoIndex>>, <<"completeness", NoIndex>> >>, "Rule")
          [] arm # 14 \/ ~IsComplete(v) \/ v.coverage[1].scope = <<>> -> Ok(v)
          [] Stranded = {} -> Ok(v)
          [] OTHER -> Err(<< <<"payload", NoIndex>>, <<"resources", Min(Stranded) - 1>> >>, "Rule")

rules(t, v) ==
    CASE t = "Timestamp"         -> rules_timestamp(v)
      [] t = "ValueRange"        -> rules_value_range(v)
      [] t = "Readings"          -> rules_readings(v)
      [] t = "States"            -> rules_states(v)
      [] t = "ResourceGraph"     -> rules_resource_graph(v)
      [] t = "ObservationWindow" -> rules_observation_window(v)
      [] t = "AcquisitionStatus" -> rules_acquisition_status(v)
      [] t = "ProjectionIssue"   -> rules_projection_issue(v)
      [] t = "ProjectionIssues"  -> rules_projection_issues(v)
      [] t = "ObservationBatch"  -> rules_observation_batch(v)
      [] OTHER                   -> Ok(v)

\* The fields' tests in order, then the message's rules.
checked(t, v, r) == IF IsOk(r) THEN rules(t, v) ELSE r
check(t, v) ==
    checked(t, v, FirstErr([i \in DOMAIN Schema[t].check |-> Test(Schema[t].check[i], v)], v))

\* Mutant: the check runs on the list as it came.
Settle_check_first(t, v) == LET r == check(t, v) IN IF IsOk(r) THEN Ok(canonicalize(t, v)) ELSE r

\* The end both ways in share.
Settle(t, v) == check(t, canonicalize(t, v))

(***************************************************************************)
(* The value vocabulary.                                                   *)
(***************************************************************************)
Finite_new(x) ==
    CASE x = NotFinite -> FieldErr("double_value", "NotFinite")
      [] x = NegZero   -> Ok(0)
      [] OTHER         -> Ok(x)

RECURSIVE Depth(_)
Depth(v) ==
    LET kids == CASE v[1] = 9  -> {Depth(v[2][i]) : i \in DOMAIN v[2]}
                  [] v[1] = 10 -> {Depth(v[2][i][2]) : i \in DOMAIN v[2]}
                  [] OTHER     -> {}
    IN  IF kids = {} THEN 1 ELSE 1 + Max(kids)

\* A list or map of these values, refused when it would nest too deep.
container_depth(v, f) ==
    IF Depth(v) > VALUE_MAX_DEPTH THEN FieldErr(f, "TooDeep") ELSE Ok(v)

KeyErr(i, why) == Err(<< <<"entries", i - 1>>, <<"key", NoIndex>> >>, why)
collect_map(es) ==
    FirstErr([i \in DOMAIN es |->
                CASE es[i][1] = 0                                  -> KeyErr(i, "Empty")
                  [] exceeds(es[i][1], VALUE_MAP_ENTRY_KEY_MAX)    -> KeyErr(i, "TooLong")
                  [] \E j \in 1..(i - 1) : es[j][1] = es[i][1]     -> KeyErr(i, "Duplicate")
                  [] OTHER                                         -> Ok(es)]
             \o <<IF exceeds(Len(es), VALUE_MAP_ENTRIES_MAX)
                  THEN FieldErr("entries", "TooMany") ELSE Ok(es)>>,
             SortSeq(es, LAMBDA a, b : a[1] < b[1]))

(***************************************************************************)
(* Off the wire.                                                           *)
(***************************************************************************)
RECURSIVE TryFrom(_, _)

\* Every element of s converted, or the first error, at its segment.
Placed(t, r, seg, i) == IF IsOk(r) \/ t = "Payload" THEN r ELSE At(r, seg, i)
Converted(t, s, seg, indexed) ==
    All([i \in DOMAIN s |->
            Placed(t, TryFrom(t, s[i]), seg, IF indexed THEN i - 1 ELSE NoIndex)])

Entry(w, v) ==
    CASE w.key = <<>>   -> FieldErr("key", "Absent")
      [] w.value = <<>> -> FieldErr("value", "Absent")
      [] IsOk(v)        -> Ok(<<w.key[1], v[2]>>)
      [] OTHER          -> At(v, "value", NoIndex)
entries_from_wire(w) ==
    All([i \in DOMAIN w |-> Placed("Value", Entry(w[i], TryFrom("Value", w[i].value[1])), "entries", i - 1)])

collected(r) == IF IsOk(r) THEN collect_map(r[2]) ELSE r
map_from_wire(w) == collected(entries_from_wire(w))

numeric_from_wire(w) ==
    CASE w = <<>>      -> FieldErr("kind", "Absent")
      [] w[1][1] = 1   -> InArm(1, Finite_new(w[1][2]))
      [] OTHER         -> Ok(w[1])

contained(r, f) == IF IsOk(r) THEN container_depth(r[2], f) ELSE r
list_limited(w, v) ==
    IF exceeds(Len(w), VALUE_LIST_MAX_ITEMS) THEN FieldErr("values", "TooMany")
    ELSE container_depth(v, "values")

\* A refused element is told at its place alone, a refused list as list_value.
list_from_wire(w, r) == IF IsOk(r) THEN InField(list_limited(w, r[2]), "list_value") ELSE r
value_from_wire(w) ==
    IF w = <<>> THEN FieldErr("kind", "Absent")
    ELSE LET arm == w[1][1]
             x   == w[1][2]
         IN  CASE arm = 5 -> InArm(5, Finite_new(x))
               [] arm = 6 /\ exceeds(x, VALUE_STRING_MAX_LEN) -> FieldErr("string_value", "TooLong")
               [] arm = 7 /\ exceeds(x, VALUE_STRING_MAX_LEN) -> FieldErr("bytes_value", "TooLong")
               [] arm = 8  -> InField(InArm(8, TryFrom("Timestamp", x)), "timestamp_value")
               [] arm = 9  -> list_from_wire(x, InArm(9, Converted("Value", x, "values", TRUE)))
               [] arm = 10 -> InField(contained(InArm(10, map_from_wire(x)), "entries"), "map_value")
               [] OTHER    -> Ok(w[1])

PayloadName == (10 :> "readings") @@ (11 :> "logs") @@ (12 :> "states")
               @@ (13 :> "inventory") @@ (14 :> "resources")
payload_from_wire(w) ==
    InField(InArm(w[1], TryFrom(Payload_arms[w[1]], w[2])), PayloadName[w[1]])

enum_from_wire(t, n) ==
    IF n = 0 THEN Err(<<>>, "Unspecified") ELSE Ok(<<n, n \notin Recognized_numbers[t]>>)

\* The fields in order, each looked for and converted; then the shared end.
field_from_wire(t, w, d) ==
    IF d.how = "need" /\ w[d.field] = <<>> THEN FieldErr(d.field, "Absent")
    ELSE Converted(FieldNamed(t, d.field).type, w[d.field], d.field, d.how = "each")
settled(t, ds, r) ==
    IF IsOk(r) THEN Settle(t, [f \in FieldNames(t) |-> r[2][CHOOSE i \in DOMAIN ds : ds[i].field = f]])
    ELSE r
message_from_wire(t, w) ==
    settled(t, Schema[t].decode,
            All([i \in DOMAIN Schema[t].decode |-> field_from_wire(t, w, Schema[t].decode[i])]))

TryFrom(t, w) ==
    CASE t \in Scalars      -> Ok(w)
      [] t \in Enums        -> enum_from_wire(t, w)
      [] t = "NumericValue" -> numeric_from_wire(w)
      [] t = "Value"        -> value_from_wire(w)
      [] t = "map"          -> map_from_wire(w)
      [] t = "Payload"      -> payload_from_wire(w)
      [] OTHER              -> message_from_wire(t, w)

(***************************************************************************)
(* From a builder, whose fields are already of the model's types.          *)
(***************************************************************************)
Build(t, b) ==
    LET ds == Schema[t].decode
        absent == {i \in DOMAIN ds : ds[i].how = "need" /\ b[ds[i].field] = <<>>}
    IN  IF absent # {} THEN FieldErr(ds[Min(absent)].field, "Absent") ELSE Settle(t, b)

(***************************************************************************)
(* Back to the wire form, which wraps every field and keeps every order.   *)
(***************************************************************************)
RECURSIVE Into(_, _)
IntoAll(t, s) == [i \in DOMAIN s |-> Into(t, s[i])]
map_into_wire(m) ==
    [i \in DOMAIN m |-> [key |-> <<m[i][1]>>, value |-> <<Into("Value", m[i][2])>>]]
Into(t, v) ==
    CASE t \in Scalars    -> v
      [] t \in Enums      -> v[1]
      [] t = "NumericValue" -> <<v>>
      [] t = "Value"      -> << <<v[1], Into(ArmType(t, v[1]), v[2])>> >>
      [] t = "Payload"    -> <<v[1], Into(ArmType(t, v[1]), v[2])>>
      [] t = "list"       -> IntoAll("Value", v)
      [] t = "map"        -> map_into_wire(v)
      [] OTHER            -> [f \in FieldNames(t) |-> IntoAll(FieldNamed(t, f).type, v[f])]
=============================================================================
