---------------------------- MODULE MappingRules -----------------------------
(***************************************************************************)
(* Which leaves a gNMI specification maps, and the checks that let it      *)
(* through: sources/gnmi/src/spec.rs.                                      *)
(*                                                                         *)
(* A path is a sequence of elements [name, keys], keys a function from key *)
(* names to values; a name is its module, "" without one, and the rest.  A *)
(* mapping is [path, collection, kind, subject, label, type]: the label is *)
(* what tells one subject's readings (facet) or states (facet and name)    *)
(* apart, and a subject is a sequence of values, which a collection draws  *)
(* from its path: <<"literal", v>>, or <<"key", position, key>>.           *)
(***************************************************************************)
EXTENDS Integers, Sequences, FiniteSets, SequencesExt

(* A wildcard; text that is not there; text over the model's limit.        *)
Wild == "*"
Empty == ""
Long == "long"

Concrete(text) == text \notin {Wild, Empty}
Values(element) == {element.keys[k] : k \in DOMAIN element.keys}
Names(path) == [i \in DOMAIN path |-> path[i].name]

\* valid of SubscriptionPath.
ValidPath(path) ==
    /\ path # <<>>
    /\ \A e \in Range(path) : \A text \in {e.name[2]} \cup DOMAIN e.keys \cup Values(e) : Concrete(text)

(* contains: the same names, and every key it has. *)
PathContains(path, other) ==
    /\ Len(path) <= Len(other)
    /\ \A i \in DOMAIN path :
         /\ path[i].name = other[i].name
         /\ \A k \in DOMAIN path[i].keys :
              k \in DOMAIN other[i].keys /\ other[i].keys[k] = path[i].keys[k]

(* compatible: some list entry has all the keys of both. *)
Compatible(e, f) ==
    e.name = f.name /\ \A k \in DOMAIN e.keys \cap DOMAIN f.keys : e.keys[k] = f.keys[k]
CompatiblePrefix(path, other, n) ==
    \A i \in DOMAIN path \cap DOMAIN other : i <= n => Compatible(path[i], other[i])

(* covers: what stands at ancestor may hold the mapping's leaf. *)
Covers(mapping, ancestor) ==
    IF mapping.collection
    THEN Len(ancestor) <= Len(mapping.path) /\ CompatiblePrefix(ancestor, mapping.path, Len(ancestor))
    ELSE PathContains(ancestor, mapping.path)

Relevant(spec, path) == \E m \in spec.mappings : Covers(m, path)

(* mapping: an equal path, or else the collection that matches; an         *)
(* accepted specification has no two.                                      *)
MappingsOf(spec, path) ==
    LET equal == {m \in spec.mappings : m.path = path}
    IN  IF equal # {} THEN equal
        ELSE {m \in spec.mappings :
                m.collection /\ Len(m.path) = Len(path) /\ PathContains(m.path, path)}
Mapped(spec, path) == MappingsOf(spec, path) # {}
MappingOf(spec, path) == CHOOSE m \in MappingsOf(spec, path) : TRUE
-----------------------------------------------------------------------------
(* SubjectTemplate: a component's value in a path; none is no subject, and *)
(* the model refuses one that is empty or too long.                        *)
Selectors(mapping) == {c \in Range(mapping.subject) : c[1] = "key"}
Missing(selector, path) ==
    selector[2] \notin DOMAIN path \/ selector[3] \notin DOMAIN path[selector[2]].keys
Component(component, path) ==
    IF component[1] = "literal" THEN component[2] ELSE path[component[2]].keys[component[3]]
Subject(mapping, path) == [i \in DOMAIN mapping.subject |-> Component(mapping.subject[i], path)]

HasSubject(mapping, path) ==
    /\ \A s \in Selectors(mapping) : ~Missing(s, path)
    /\ \A text \in Range(Subject(mapping, path)) : text \notin {Empty, Long}

(* validate: literals and filters are checked, what is received later not. *)
ValidTemplate(mapping) ==
    LET filter(c) == IF c[1] = "literal" THEN c[2]
                     ELSE IF Missing(c, mapping.path) THEN "key" ELSE Component(c, mapping.path)
    IN  /\ Selectors(mapping) # {}
        /\ \A s \in Selectors(mapping) : s[2] \in DOMAIN mapping.path /\ Concrete(s[3])
        /\ \A c \in Range(mapping.subject) : filter(c) \notin {Empty, Long}

(* same_collection_identity: one template over entries that may be one. *)
SameCollectionIdentity(m, o) ==
    /\ m.collection /\ o.collection
    /\ m.subject = o.subject /\ m.kind = o.kind /\ m.label = o.label
    /\ CompatiblePrefix(m.path, o.path, Max({s[2] : s \in Selectors(m)}))

Output(mapping, subject) == <<mapping.kind, subject, mapping.label>>
SameOutput(m, o) ==
    \/ SameCollectionIdentity(m, o)
    \/ ~m.collection /\ ~o.collection /\ Output(m, m.subject) = Output(o, o.subject)

(* collection_index: only a collection can meet another path. *)
Overlaps(m, o) ==
    /\ Names(m.path) = Names(o.path) /\ o.collection
    /\ IF m.collection THEN CompatiblePrefix(m.path, o.path, Len(m.path)) ELSE PathContains(o.path, m.path)

(* MappingSpec::new, for mappings in the order they are given. *)
Accepts(requests, mappings) ==
    /\ requests # {} /\ mappings # <<>>
    /\ \A r \in requests : ValidPath(r)
    /\ \A i \in DOMAIN mappings :
         LET m == mappings[i] IN
         /\ ValidPath(m.path)
         /\ \E r \in requests : PathContains(r, m.path)
         /\ m.collection => ValidTemplate(m)
         /\ \A j \in DOMAIN mappings \ {i} :
              LET o == mappings[j]
              IN  m.path # o.path /\ ~SameOutput(m, o) /\ ~Overlaps(m, o)
=============================================================================
