---------------------------- MODULE GeneratedCode ----------------------------
(***************************************************************************)
(* What the code the compiler writes does with values: the canonical       *)
(* comparison, the sort, the digest and the uniqueness check that          *)
(* message_items (wrapper/mod.rs) assembles from the plans, run on every   *)
(* small value of a message of the generated model.                        *)
(*                                                                         *)
(* A value is a function from field names to numbers: 0 when the field is  *)
(* absent, else which of the values of its kind it holds, in the canonical *)
(* order of that kind.  A message in a field of an element holds no        *)
(* messages of its own, and no message holds a oneof.                      *)
(***************************************************************************)
EXTENDS ModelPlans

\* A function on 1..n as the tuple TLC evaluates once.
Tuple(f) == f \o <<>>

(* What may fill a field whose kind has so many values: no elements of an  *)
(* inner list.                                                             *)
Fills(p, count) ==
    CASE p.decl = "vec"    -> {0}
      [] p.decl = "plain"  -> 1..count
      [] p.decl = "option" -> 0..count

(* Every value of a message. *)
Values(plans, counts) ==
    {a \in [{p.name : p \in Range(plans)} -> UNION {Fills(plans[i], counts[i]) : i \in DOMAIN plans}] :
        \A i \in DOMAIN plans : a[plans[i].name] \in Fills(plans[i], counts[i])}

CmpInt(a, b) == IF a < b THEN -1 ELSE IF a = b THEN 0 ELSE 1

(* canonical_cmp: field by field in canonical order, absent first, until   *)
(* one tells the two apart (then_with, cmp_option).                        *)
CanonicalCmp(plans, a, b) ==
    LET cmp(i) == CmpInt(a[plans[i].name], b[plans[i].name])
        telling == {i \in DOMAIN plans : cmp(i) # 0}
    IN  IF telling = {} THEN 0 ELSE cmp(Min(telling))

(* The values of a message in canonical order. *)
Listing(plans, counts) ==
    LET values == Values(plans, counts)
    IN  Tuple(Ascending(values, [v \in values |-> {w \in values : CanonicalCmp(plans, w, v) < 0}]))

(* Of a scalar two values, and one where it may be absent. *)
Scalars(p) == IF p.decl = "plain" THEN 2 ELSE 1

Inner(model, m) ==
    LET plans == model[m].canonical
    IN  Listing(plans, [i \in DOMAIN plans |-> IF plans[i].kind \in DOMAIN model THEN 0
                                               ELSE Scalars(plans[i])])

Elements(model, m) ==
    LET plans == model[m].canonical
    IN  Listing(plans, Tuple([i \in DOMAIN plans |->
            IF plans[i].kind \in DOMAIN model THEN Len(Inner(model, plans[i].kind))
            ELSE Scalars(plans[i])]))

(* canonicalize: sorted when the plan says so, equal elements as they come.*)
(* An element is its position among all.                                   *)
Canonicalize(p, list) ==
    LET before == [i \in DOMAIN list |->
                     {j \in DOMAIN list : list[j] < list[i] \/ (list[j] = list[i] /\ j < i)}]
        places == Ascending(DOMAIN list, before)
    IN  IF p.sortable THEN [n \in DOMAIN list |-> list[places[n]]] ELSE list
-----------------------------------------------------------------------------
(* digest: visible fields labelled by number, lists counted.  within[i]    *)
(* has the digests of the values field i may hold.                         *)
Digest(plans, a, within) ==
    LET of(p, held) ==
            IF p.metadata THEN <<>>
            ELSE IF p.decl = "vec" THEN <<p.number, 0>>
            ELSE IF a[p.name] = 0 THEN <<>>
            ELSE <<p.number>> \o held[a[p.name]]
    IN  FlattenSeq([i \in DOMAIN plans |-> of(plans[i], within[i])]) \o <<0>>

(* What the schema calls content: everything but metadata. *)
Content(plans, a, within) ==
    {<<plans[i].name, IF a[plans[i].name] = 0 THEN <<>> ELSE <<within[i][a[plans[i].name]]>> >> :
        i \in {j \in DOMAIN plans : ~plans[j].metadata}}

(* What Digest or Content tells of every element, all the way in; scalar   *)
(* has what it tells of the values of a scalar.                            *)
InnerTold(model, m, tells(_, _, _), scalar) ==
    LET plans == model[m].canonical
        all == Inner(model, m)
    IN  Tuple([n \in DOMAIN all |-> tells(plans, all[n], [i \in DOMAIN plans |-> scalar])])
Told(model, m, tells(_, _, _), scalar) ==
    LET plans == model[m].canonical
        all == Elements(model, m)
        within == Tuple([i \in DOMAIN plans |->
                    IF plans[i].kind \in DOMAIN model
                    THEN InnerTold(model, plans[i].kind, tells, scalar) ELSE scalar])
    IN  Tuple([n \in DOMAIN all |-> tells(plans, all[n], within)])
-----------------------------------------------------------------------------
SameKeys(keys, a, b) == \A k \in Range(keys) : a[k] = b[k]

(* The uniqueness check as generated: neighbours, or a set of all seen. *)
Duplicate(check, list, all) ==
    LET same(i, j) == SameKeys(check[2], all[list[i]], all[list[j]])
    IN  IF check[1] = "scan" THEN \E i \in 2..Len(list) : same(i, i - 1)
        ELSE \E i, j \in DOMAIN list : i < j /\ same(i, j)

UniqueCheck(p) == CHOOSE check \in Range(p.checks) : check[1] \in {"scan", "set"}

(* For lists of three of which two agree on the keys. *)
CatchesDuplicates(schema, model, f) ==
    LET p == PlanField(schema, f)
        all == Elements(model, f.kind)
        same(i, j) == SameKeys(f.opts["unique_by"], all[i], all[j])
    IN  \A x \in DOMAIN all : \A z \in {i \in x..Len(all) : same(x, i)} : \A y \in DOMAIN all :
            Duplicate(UniqueCheck(p), Canonicalize(p, <<x, y, z>>), all)

(* For lists of two: one digest for one content. *)
DigestsContent(schema, model, f) ==
    LET p == PlanField(schema, f)
        digest == Told(model, f.kind, Digest, << <<1>>, <<2>> >>)
        content == Told(model, f.kind, Content, <<1, 2>>)
        of(pair) == LET list == Canonicalize(p, pair) IN digest[list[1]] \o digest[list[2]]
        says(pair) == IF p.sortable THEN {content[pair[1]], content[pair[2]]}
                      ELSE <<content[pair[1]], content[pair[2]]>>
        told == {<<says(pair), of(pair)>> : pair \in (DOMAIN digest) \X (DOMAIN digest)}
    IN  Cardinality({t[1] : t \in told}) = Cardinality(told)

(* An element whose order is decided by metadata before all its content is *)
(* compared: a visible field hides some and is not the last.               *)
HidesMetadata(schema, f) ==
    LET holds(m) == \E g \in Fields(schema, m) : Has(g, "collection_metadata")
        hides(g) == /\ g.kind \in DOMAIN schema
                    /\ \E m \in Closure(Nesting(schema), {g.kind}) : holds(m)
        visible == {g \in Fields(schema, f.kind) : ~Has(g, "collection_metadata")}
    IN  Has(f, "unordered") /\ \E g, h \in visible : g.number < h.number /\ hides(g)
=============================================================================
