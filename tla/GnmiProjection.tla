--------------------------- MODULE GnmiProjection ----------------------------
(***************************************************************************)
(* From a notification to observations and issues: sources/gnmi/src/       *)
(* projection.rs and projection/json.rs.                                   *)
(*                                                                         *)
(* A notification is [context, prefix, updates, deletes]; a context is     *)
(* [origin, target], a delete [context, path], and an update has a value   *)
(* besides: <<"none">>, <<"native", v>> or <<"json", v, ietf>>, v a scalar *)
(* <<sort, content>> ("digits" a string that reads as a number) or         *)
(* <<"array">>; and of JSON that begins like an object, <<"malformed">> or *)
(* <<"object", document, ietf>>.                                           *)
(*                                                                         *)
(* A document is a function on its places.  A place is the way to it, the  *)
(* numbers of the members from the root down, and holds [name, value]: the *)
(* member's name, which another may have too, and a scalar, <<"array">> or *)
(* <<"object">>.                                                           *)
(*                                                                         *)
(* An issue is the field it names ("update", "delete"), the index there    *)
(* and, where that is a member of an object, the names on the way to it.   *)
(***************************************************************************)
EXTENDS MappingRules, TLC

CONSTANTS
    PointerLimit,       \* names in the longest pointer an issue may carry
    ReadingsLimit, StatesLimit

Scalars == {"int", "bool", "text", "digits", "long"}
None == <<"none">>

Issue(field, at, pointer) == [field |-> field, at |-> at, pointer |-> pointer]
-----------------------------------------------------------------------------
(* resolve: the path below the prefix, if context and elements allow it.   *)
Conflict(a, b) == a # Empty /\ b # Empty /\ a # b
InContext(spec, n, item) ==
    \A field \in {"origin", "target"} :
        LET said == {spec.context[field], n.context[field], item.context[field]}
        IN  \A a, b \in said : ~Conflict(a, b)
Resolved(n, item) == n.prefix \o item.path
Resolves(spec, n, item) ==
    /\ InContext(spec, n, item)
    /\ \A e \in Range(Resolved(n, item)) : Empty \notin {e.name[2]} \cup DOMAIN e.keys \cup Values(e)
-----------------------------------------------------------------------------
(* json.rs: places of a document, and the paths they stand for.            *)
Above(place) == {SubSeq(place, 1, k) : k \in 0..(Len(place) - 1)}
Pointer(doc, place) == [k \in DOMAIN place |-> doc[SubSeq(place, 1, k)].name]
Member(name) == [name |-> name, keys |-> <<>>]
Below(path, doc, place) == path \o [k \in DOMAIN place |-> Member(Pointer(doc, place)[k])]

IsObject(doc, place) == doc[place].value[1] = "object"
Repeats(doc, place) ==
    \E p, q \in {r \in DOMAIN doc : Len(r) = Len(place) + 1 /\ place \in Above(r)} :
        p # q /\ doc[p].name = doc[q].name

(* qualification_mismatch: the names from start on would match without     *)
(* their module, where the mapping gives none.                             *)
Unqualified(path, start, mapping) ==
    [i \in DOMAIN path |->
        IF i > start /\ i \in DOMAIN mapping.path /\ mapping.path[i].name[1] = Empty
        THEN [path[i] EXCEPT !.name = <<Empty, @[2]>>] ELSE path[i]]
Mismatch(spec, path, start) ==
    \E m \in spec.mappings :
        LET candidate == Unqualified(path, start, m) IN
        /\ Len(path) <= Len(m.path)
        /\ \A i \in DOMAIN path : candidate[i].name = m.path[i].name
        /\ Covers(m, candidate)

(* walk comes to every place below objects that may hold a mapping, and    *)
(* each is a leaf, an issue or neither; an object opened with a name twice *)
(* in it, and a pointer too long, are flaws.                               *)
Opens(spec, path, doc, place) == IsObject(doc, place) /\ Relevant(spec, Below(path, doc, place))
Visited(spec, path, doc) ==
    {p \in DOMAIN doc : \A q \in Above(p) : Opens(spec, path, doc, q) /\ ~Repeats(doc, q)}

Leads(spec, path, doc, place) ==
    LET at == Below(path, doc, place)
    IN  Mapped(spec, at) \/ (~IsObject(doc, place) /\ Relevant(spec, at))
Mismatched(spec, path, doc, ietf, place) ==
    LET at == Below(path, doc, place)
    IN  ~Relevant(spec, at) /\ ietf /\ Mismatch(spec, at, Len(path))

Leaf(path, doc, ietf, place) ==
    [path |-> Below(path, doc, place), pointer |-> Pointer(doc, place),
     value |-> IF doc[place].value[1] \in Scalars THEN <<"json", doc[place].value, ietf>> ELSE None]

Flaws(spec, path, doc, ietf) ==
    LET visited == Visited(spec, path, doc)
        long(p) == Len(p) > PointerLimit
                     /\ (Relevant(spec, Below(path, doc, p)) \/ Mismatched(spec, path, doc, ietf, p))
        repeating(p) == Opens(spec, path, doc, p) /\ Repeats(doc, p)
    IN  {<<>> : p \in {q \in visited : long(q)}}
          \cup {Pointer(doc, p) : p \in {q \in visited : repeating(q)}}

(* expand: the first flaw it comes to, here any, discards the update.      *)
Rejected(flaws) == [leaves |-> {}, issues |-> {CHOOSE f \in flaws : TRUE}]
Expand(spec, path, doc, ietf) ==
    LET visited == Visited(spec, path, doc)
        flaws == Flaws(spec, path, doc, ietf)
    IN  IF flaws # {} THEN Rejected(flaws)
        ELSE [leaves |-> {Leaf(path, doc, ietf, p) : p \in {q \in visited : Leads(spec, path, doc, q)}},
              issues |-> {Pointer(doc, p) : p \in {q \in visited : Mismatched(spec, path, doc, ietf, q)}}]

(* expand_update: all but objects, and what begins like one, is one leaf. *)
Expanded(spec, path, value) ==
    CASE value[1] = "object" -> Expand(spec, path, value[2], value[3])
      [] value[1] = "malformed" -> Rejected({<<>>})
      [] OTHER -> [leaves |-> {[path |-> path, pointer |-> <<>>, value |-> value]}, issues |-> {}]
-----------------------------------------------------------------------------
(* reading, state: what a type takes of a value. *)
Sorts == [int |-> {"int"}, boolean |-> {"bool"}, string |-> {"text", "digits"}]
Takes(type, value) ==
    /\ value # None
    /\ \/ value[2][1] \in Sorts[type]
       \/ type = "int" /\ value[1] = "json" /\ value[2][1] = "digits"

(* project_value, for a mapping. *)
Projectable(mapping, leaf) ==
    /\ mapping.collection => HasSubject(mapping, leaf.path)
    /\ Takes(mapping.type, leaf.value)
Identity(mapping, path) ==
    Output(mapping, IF mapping.collection THEN Subject(mapping, path) ELSE mapping.subject)
-----------------------------------------------------------------------------
(* project: the walk over updates from the last to the first, the paths    *)
(* seen, and the leaves in the order they are found.                       *)
Placed(leaf, i) == [at |-> i, path |-> leaf.path, pointer |-> leaf.pointer, value |-> leaf.value]

Updated(spec, n, walk, i) ==
    LET update == n.updates[i]
        path == Resolved(n, update)
        found == Expanded(spec, path, update.value)
    IN  IF ~Resolves(spec, n, update)
        THEN [walk EXCEPT !.issues = @ \cup {Issue("update", i, <<>>)}]
        ELSE IF (~Mapped(spec, path) /\ ~Relevant(spec, path)) \/ path \in walk.seen THEN walk
        ELSE [seen |-> walk.seen \cup {path},
              leaves |-> walk.leaves \o SetToSeq({Placed(l, i) : l \in found.leaves}),
              issues |-> walk.issues \cup {Issue("update", i, f) : f \in found.issues}]

\* Its state after the last k updates.
Walk(spec, n) ==
    LET walk[k \in 0..Len(n.updates)] ==
            IF k = 0 THEN [seen |-> {}, leaves |-> <<>>, issues |-> {}]
            ELSE Updated(spec, n, walk[k - 1], Len(n.updates) + 1 - k)
    IN  walk

(* Then over the leaves: the first of a path claims it, whatever its value *)
(* is worth; the second of an identity takes the first one's place away.   *)
Collided == <<>>
Candidate(identity, leaf, about) ==
    [about |-> about, item |-> [identity |-> identity, value |-> leaf.value[2][2]]]

Entered(state, identity, leaf, about) ==
    LET before == state.candidates[identity] IN
    IF identity \notin DOMAIN state.candidates
    THEN [state EXCEPT !.candidates = [id \in DOMAIN state.candidates \cup {identity} |->
             IF id = identity THEN Candidate(identity, leaf, about) ELSE state.candidates[id]]]
    ELSE [state EXCEPT !.candidates[identity] = Collided,
                       !.issues = @ \cup {about} \cup (IF before = Collided THEN {} ELSE {before.about})]

\* Mutant: only a value of the mapped type claims its leaf.
Projected_claims_late(spec, state, leaf) ==
    LET about == Issue("update", leaf.at, leaf.pointer)
        mapping == MappingOf(spec, leaf.path)
        claimed == [state EXCEPT !.claimed = @ \cup {leaf.path}]
    IN  IF leaf.path \in state.claimed THEN state
        ELSE IF ~Mapped(spec, leaf.path) \/ ~Projectable(mapping, leaf)
        THEN [state EXCEPT !.issues = @ \cup {about}]
        ELSE Entered(claimed, Identity(mapping, leaf.path), leaf, about)

Projected(spec, state, leaf) ==
    LET about == Issue("update", leaf.at, leaf.pointer)
        mapping == MappingOf(spec, leaf.path)
        claimed == [state EXCEPT !.claimed = @ \cup {leaf.path}]
    IN  IF leaf.path \in state.claimed THEN state
        ELSE IF ~Mapped(spec, leaf.path) \/ ~Projectable(mapping, leaf)
        THEN [claimed EXCEPT !.issues = @ \cup {about}]
        ELSE Entered(claimed, Identity(mapping, leaf.path), leaf, about)

\* Its state after the first k leaves.
Choice(spec, walked) ==
    LET state[k \in 0..Len(walked.leaves)] ==
            IF k = 0 THEN [claimed |-> {}, candidates |-> <<>>, issues |-> walked.issues]
            ELSE Projected(spec, state[k - 1], walked.leaves[k])
    IN  state

(* split_payloads: readings and states apart, each chunk to its limit; the *)
(* full ones go first.                                                     *)
Kept(candidates, kind) ==
    {candidates[id].item : id \in {i \in DOMAIN candidates : i[1] = kind /\ candidates[i] # Collided}}
Full(items, limit) == [c \in 1..(Len(items) \div limit) |-> SubSeq(items, (c - 1) * limit + 1, c * limit)]
Rest(items, limit) ==
    IF Len(items) % limit = 0 THEN <<>>
    ELSE << SubSeq(items, (Len(items) \div limit) * limit + 1, Len(items)) >>
Payloads(candidates) ==
    LET readings == SetToSeq(Kept(candidates, "reading"))
        states == SetToSeq(Kept(candidates, "state"))
    IN  Full(readings, ReadingsLimit) \o Full(states, StatesLimit)
          \o Rest(readings, ReadingsLimit) \o Rest(states, StatesLimit)

(* delete_issues. *)
DeleteIssues(spec, n) ==
    {Issue("delete", i, <<>>) : i \in {j \in DOMAIN n.deletes :
        ~Resolves(spec, n, n.deletes[j]) \/ Relevant(spec, Resolved(n, n.deletes[j]))}}

Project(spec, n) ==
    LET walked == Walk(spec, n)[Len(n.updates)]
        chosen == Choice(spec, walked)[Len(walked.leaves)]
    IN  [payloads |-> Payloads(chosen.candidates), issues |-> chosen.issues \cup DeleteIssues(spec, n)]
=============================================================================
