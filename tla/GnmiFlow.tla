------------------------------ MODULE GnmiFlow -------------------------------
(***************************************************************************)
(* A gNMI call whose target also says what is in a notification: modules   *)
(* GnmiSubscribe and GnmiProjection composed as perform composes them      *)
(* (sources/gnmi/src/lib.rs).                                              *)
(*                                                                         *)
(* Notifications are projected one by one, so the content of a call's      *)
(* first is followed, with the specification of the call, and the others   *)
(* are told apart as in GnmiSubscribe.                                     *)
(***************************************************************************)
EXTENDS GnmiSubscribe, GnmiProjection

CONSTANTS
    Requests, MappingLists,     \* what specifications are drawn from
    Context,                    \* their origin and target
    Contents                    \* what a target may notify

\* What the schema, the parsers and the constructors of spec.rs leave to come.
List(s) == s \in Seq(Range(s))
IsDocument(doc) ==
    /\ IsFiniteSet(DOMAIN doc) /\ DOMAIN doc \subseteq Seq(Nat)
    /\ \A p \in DOMAIN doc : \A q \in Above(p) : q \in DOMAIN doc /\ IsObject(doc, q)

ASSUME FlowAssumption ==
    /\ {ReadingsLimit, StatesLimit} \subseteq Nat \ {0}
    /\ \A list \in MappingLists :
          /\ List(list)
          /\ \A m \in Range(list) :
                List(m.path) /\ m.kind \in {"reading", "state"} /\ m.type \in DOMAIN Sorts
    /\ \A said \in Contents :
          /\ List(said.prefix) /\ List(said.updates)
          /\ \A u \in Range(said.updates) :
                List(u.path) /\ (u.value[1] = "object" => IsDocument(u.value[2]))

VARIABLE note     \* <<>>, or the notification just taken: [spec, said, told]

flowVars == <<vars, note>>

Specifications ==
    {[context |-> Context, mappings |-> Range(list)] :
        list \in {l \in MappingLists : Accepts(Requests, l)}}

FlowInit == Init /\ note = <<>>

Class(result) == IF result.issues = {} THEN "clean" ELSE "flawed"

Arrives ==
    /\ sent = <<>>
    /\ \E spec \in Specifications, said \in Contents :
         LET result == Project(spec, said) IN
         /\ note' = <<[spec |-> spec, said |-> said, told |-> result]>>
         /\ \/ OnceUpdate(Class(result))
            \/ StreamMessage(Class(result))

Goes == note' = <<>> /\ Next

FlowNext == Arrives \/ Goes
FlowSpec == FlowInit /\ [][FlowNext]_flowVars
-----------------------------------------------------------------------------
(* A notification read as the documentation of lib.rs reads it.            *)

(* Members on branches that can reach a mapping, and the first beyond. *)
OnBranches(spec, path, doc) ==
    {p \in DOMAIN doc : \A q \in Above(p) : Relevant(spec, Below(path, doc, q))}

(* "Malformed JSON or duplicate member names in a traversed object discard *)
(* the update's contribution"; "an overlong location rejects that object". *)
Discarded(spec, path, value) ==
    \/ value[1] = "malformed"
    \/ /\ value[1] = "object"
       /\ \E p \in OnBranches(spec, path, value[2]) :
            LET at == Below(path, value[2], p) IN
            \/ /\ Len(p) > PointerLimit
               /\ Relevant(spec, at) \/ (value[3] /\ Mismatch(spec, at, Len(path)))
            \/ /\ Relevant(spec, at)
               /\ IsObject(value[2], p)
               /\ Repeats(value[2], p)

(* The leaves an update says something of, what, and where in it: mapped   *)
(* paths, and what is opaque above one.                                    *)
Word(path, pointer, value) == [path |-> path, pointer |-> pointer, value |-> value]
Says(spec, path, value) ==
    LET doc == value[2]
        scalar(p) == Mapped(spec, Below(path, doc, p))
                       \/ (Relevant(spec, Below(path, doc, p)) /\ ~IsObject(doc, p))
    IN  IF value[1] # "object"
        THEN {w \in {Word(path, <<>>, value)} : Mapped(spec, path) \/ Relevant(spec, path)}
        ELSE {Word(Below(path, doc, p), Pointer(doc, p), <<"json", doc[p].value, value[3]>>) :
                 p \in {q \in DOMAIN doc : scalar(q)}}

(* Members of JSON_IETF that reach a mapping only without their module. *)
Misnamed(spec, path, value) ==
    IF value[1] # "object" \/ ~value[3] THEN {}
    ELSE {Pointer(value[2], p) : p \in
            {q \in OnBranches(spec, path, value[2]) :
                /\ ~Relevant(spec, Below(path, value[2], q))
                /\ Mismatch(spec, Below(path, value[2], q), Len(path))}}

Matches(m, path) ==
    \/ m.path = path
    \/ m.collection /\ Len(m.path) = Len(path) /\ PathContains(m.path, path)

(* Of the updates of one path only the last is heard, *)
Path(n, i) == Resolved(n, n.updates[i])
Located(spec, n) == {i \in DOMAIN n.updates : Resolves(spec, n, n.updates[i])}
Heard(spec, n) ==
    LET located == Located(spec, n)
    IN  {i \in located : \A j \in located : j > i => Path(n, j) # Path(n, i)}
Lost(spec, n) == {i \in Heard(spec, n) : Discarded(spec, Path(n, i), n.updates[i].value)}

(* and of all that is heard of a leaf the last word stands, a parent's or  *)
(* its own: it is observed if it is of the mapped type, its subject can be *)
(* named and no other leaf claims its identity.                            *)
Words(spec, n) ==
    UNION {{Placed(w, i) : w \in Says(spec, Path(n, i), n.updates[i].value)} :
              i \in Heard(spec, n) \ Lost(spec, n)}
Standing(spec, n) ==
    LET words == Words(spec, n)
    IN  {w \in words : \A v \in words : v.path = w.path => v.at <= w.at}
Sound(spec, n) ==
    {w \in Standing(spec, n) : Mapped(spec, w.path) /\ Projectable(MappingOf(spec, w.path), w)}
Claim(spec, w) == Identity(MappingOf(spec, w.path), w.path)
Observed(spec, n) ==
    LET sound == Sound(spec, n)
    IN  {w \in sound : \A v \in sound : v # w => Claim(spec, v) # Claim(spec, w)}
-----------------------------------------------------------------------------
(* What is told of it: at most one mapping has a say about any leaf        *)
(* (Accepts); *)
OneMapping(spec, n) ==
    \A w \in Words(spec, n) : Cardinality({m \in spec.mappings : Matches(m, w.path)}) <= 1

(* what is observed, nothing else and nothing twice, *)
ObservedOnce(spec, n, parts) ==
    /\ UNION {Range(p) : p \in Range(parts)} =
          {[identity |-> Claim(spec, w), value |-> w.value[2][2]] : w \in Observed(spec, n)}
    /\ \A c, d \in DOMAIN parts : \A i \in DOMAIN parts[c], j \in DOMAIN parts[d] :
          parts[c][i].identity = parts[d][j].identity => c = d /\ i = j

(* in payloads of one kind, not empty and within its limit; *)
PayloadLimit(kind) == IF kind = "reading" THEN ReadingsLimit ELSE StatesLimit
PayloadsFit(parts) ==
    \A p \in Range(parts) : \E kind \in {"reading", "state"} :
        /\ \A item \in Range(p) : item.identity[1] = kind
        /\ Len(p) \in 1..PayloadLimit(kind)

(* an issue at its update and member for every other word that stands, and *)
(* for every member under the wrong module;                                *)
RestAreIssues(spec, n, reported) ==
    LET observed == Observed(spec, n)
    IN  /\ \A w \in Standing(spec, n) :
              Issue("update", w.at, w.pointer) \in reported <=> w \notin observed
        /\ \A i \in Heard(spec, n) \ Lost(spec, n) :
              \A pointer \in Misnamed(spec, Path(n, i), n.updates[i].value) :
                  Issue("update", i, pointer) \in reported

(* an issue for what cannot be resolved or is discarded, none for what     *)
(* nobody hears;                                                           *)
Silent(reported, i) == \A e \in reported : e.field = "update" => e.at # i
UnheardAreSilent(spec, n, reported) ==
    LET located == Located(spec, n)
        heard == Heard(spec, n)
        lost == Lost(spec, n)
    IN  \A i \in DOMAIN n.updates :
            /\ i \notin located => ~Silent(reported, i)
            /\ i \in lost /\ Relevant(spec, Path(n, i)) => ~Silent(reported, i)
            /\ i \in located /\ (i \notin heard \/ ~Relevant(spec, Path(n, i))) => Silent(reported, i)

(* and an issue for every delete of what a mapping is about.               *)
DeletesAreIssues(spec, n, reported) ==
    \A j \in DOMAIN n.deletes :
        (\E m \in spec.mappings : Covers(m, Resolved(n, n.deletes[j])))
            => Issue("delete", j, <<>>) \in reported

(* A notification is told whole, and no more (project against the rules    *)
(* lib.rs states).                                                         *)
NotificationIsTold ==
    \A x \in Range(note) :
        /\ OneMapping(x.spec, x.said)
        /\ ObservedOnce(x.spec, x.said, x.told.payloads)
        /\ PayloadsFit(x.told.payloads)
        /\ RestAreIssues(x.spec, x.said, x.told.issues)
        /\ UnheardAreSilent(x.spec, x.said, x.told.issues)
        /\ DeletesAreIssues(x.spec, x.said, x.told.issues)
=============================================================================
