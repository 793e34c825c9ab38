---------------------------- MODULE MessageFlow ----------------------------
(***************************************************************************)
(* One message from producer to consumer: a builder whose setters overwrite*)
(* in any order, build(), encode_to_vec(), and the consumer's decode().    *)
(***************************************************************************)
EXTENDS ModelEntry

CONSTANTS Kinds,    \* the messages to build
          Samples   \* Samples[k][f]: what a producer may set field f of k to

ASSUME KindsAssumption == /\ Kinds \subseteq Messages
                          /\ \A k \in Kinds : DOMAIN Samples[k] = FieldNames(k)

VARIABLES kind, builder, stage,
          held,   \* the producer's build() result
          bytes,  \* what it sent
          got     \* the consumer's decode() result

vars == <<kind, builder, stage, held, bytes, got>>

Nothing == <<"none">>

(***************************************************************************)
(* prost's decoder, external: keys and length prefixes to the wire form.   *)
(***************************************************************************)
TagField(t, tag) ==
    LET fs == Schema[t].fields
    IN  fs[CHOOSE i \in DOMAIN fs :
              fs[i].number = tag \/ (fs[i].type = "Payload" /\ tag \in DOMAIN Payload_arms)]
TagType(t, tag) ==
    CASE t \in {"NumericValue", "Value"} -> ArmType(t, tag)
      [] t = "list"  -> "Value"
      [] t = "map"   -> "entry"
      [] t = "entry" -> IF tag = 1 THEN "str" ELSE "Value"
      [] OTHER       -> IF TagField(t, tag).type = "Payload" THEN Payload_arms[tag]
                        ELSE TagField(t, tag).type
EmptyWire(t) ==
    CASE t \in {"NumericValue", "Value", "list", "map"} -> <<>>
      [] t = "entry" -> [key |-> <<>>, value |-> <<>>]
      [] OTHER       -> [f \in FieldNames(t) |-> <<>>]
Put(t, w, tag, x) ==
    CASE t \in {"NumericValue", "Value"} -> << <<tag, x>> >>
      [] t \in {"list", "map"}           -> Append(w, x)
      [] t = "entry" -> IF tag = 1 THEN [w EXCEPT !.key = <<x>>] ELSE [w EXCEPT !.value = <<x>>]
      [] OTHER -> LET f == TagField(t, tag) IN
                  [w EXCEPT ![f.name] = CASE f.list             -> Append(@, x)
                                          [] f.type = "Payload" -> << <<tag, x>> >>
                                          [] OTHER              -> <<x>>]

Size(s) == SumLen([i \in DOMAIN s |-> s[i][3]])
\* The first tokens that make up n bytes, as their number, if some do.
Spans(s, n) == {k \in 0..Len(s) : Size(SubSeq(s, 1, k)) = n}
KnownTag(t, tag) ==
    CASE t = "NumericValue" -> tag \in DOMAIN NumericValue_arms
      [] t = "Value" -> tag \in DOMAIN Value_arms
      [] t \in {"list", "map"} -> tag = 1
      [] t = "entry" -> tag \in {1, 2}
      [] OTHER -> \E f \in Range(Schema[t].fields) :
                      f.number = tag \/ (f.type = "Payload" /\ tag \in DOMAIN Payload_arms)
Malformed == Err(<<>>, "Malformed")

RECURSIVE Parse(_, _, _)
Parse(t, s, w) ==
    IF s = <<>> THEN Ok(w)
    ELSE IF Len(s) = 1 \/ s[1][1] # Key \/ ~KnownTag(t, s[1][2]) THEN Malformed
    ELSE LET tag  == s[1][2]
             e    == TagType(t, tag)
             body == SubSeq(s, 3, Len(s))
             ks   == IF s[2][1] = Length THEN Spans(body, s[2][2]) ELSE {0}
             k    == Max(ks)
             x    == CASE s[2][1] # Length -> Ok(s[2][2])
                       [] e = "null"       -> Ok(0)
                       [] OTHER            -> Parse(e, SubSeq(body, 1, k), EmptyWire(e))
         IN  IF ks = {} \/ ~IsOk(x) THEN Malformed
             ELSE Parse(t, SubSeq(body, k + 1, Len(body)), Put(t, w, tag, x[2]))

\* decode(): prost's, then the conversion.
parsed(t, w) == IF IsOk(w) THEN TryFrom(t, w[2]) ELSE w
decode(t, s) == parsed(t, Parse(t, s, EmptyWire(t)))

(***************************************************************************)
(* The flow.                                                               *)
(***************************************************************************)
Init == /\ kind \in Kinds
        /\ builder = [f \in FieldNames(kind) |-> <<>>]
        /\ stage = "setting"
        /\ held = Nothing
        /\ bytes = <<>>
        /\ got = Nothing

\* A setter overwrites; there is no way to unset.
Set(f, x) == /\ stage = "setting"
             /\ builder' = [builder EXCEPT ![f] = x]
             /\ UNCHANGED <<kind, stage, held, bytes, got>>

Finish == /\ stage = "setting"
          /\ held' = Build(kind, builder)
          /\ stage' = "built"
          /\ UNCHANGED <<kind, builder, bytes, got>>

Send == /\ stage = "built"
        /\ IsOk(held)
        /\ bytes' = Emit(kind, held[2])
        /\ stage' = "sent"
        /\ UNCHANGED <<kind, builder, held, got>>

Receive == /\ stage = "sent"
           /\ got' = decode(kind, bytes)
           /\ stage' = "received"
           /\ UNCHANGED <<kind, builder, held, bytes>>

Next == \/ \E f \in FieldNames(kind) : \E x \in Samples[kind][f] : Set(f, x)
        \/ Finish
        \/ Send
        \/ Receive

Spec == Init /\ [][Next]_vars

(***************************************************************************)
(* Properties.                                                             *)
(***************************************************************************)
Built == stage = "built"
Accepted == Built /\ IsOk(held)

\* RoundTrip: whatever build() accepts, the consumer gets back as it was held:
\* the length prefixes computed before anything is emitted frame every nested
\* message, the bytes are those of the rebuilt wire tree, and no accepted value
\* (an unrecognized enumeration number, a newer arm) decodes as another one.
RoundTrip == stage = "received" =>
    /\ got = held
    /\ Parse(kind, bytes, EmptyWire(kind)) = Ok(Into(kind, held[2]))

\* The enumeration fields of a builder that alias: wire forms cannot say so.
Aliased == \E f \in FieldNames(kind) :
    /\ FieldNamed(kind, f).type \in Enums
    /\ builder[f] # <<>>
    /\ ~IsOk(enum_check(FieldNamed(kind, f).type, builder[f][1]))

\* A builder takes a map as it is; the decoder tests its keys while it converts,
\* before any check of the message.
BadKeys == \E f \in FieldNames(kind) :
    /\ FieldNamed(kind, f).type = "map"
    /\ builder[f] # <<>>
    /\ ~IsOk(check_map(f, builder[f][1]))

\* BuildIsDecode: build() and decoding the same content answer alike, the same
\* value or the same first violation at the same path ("validates everything at
\* once, exactly as decoding does").  What only a builder can hold, an aliasing
\* enumeration value, is refused, and so is a bad map key by both, though the
\* decoder may name another violation first.
BuildIsDecode == Built =>
    LET Alike(d) == CASE Aliased -> ~IsOk(held)
                      [] BadKeys -> ~IsOk(held) /\ ~IsOk(d)
                      [] OTHER   -> held = d
    IN  Alike(TryFrom(kind, Into(kind, builder)))

Unordered == {c.field : c \in {d \in Range(Schema[kind].check) : d.test = "sort"}}
Reorderings(s) == {[i \in DOMAIN s |-> s[p[i]]] : p \in Permutations(DOMAIN s)}

\* OrderFree: the order a producer lists things in carries no meaning: every
\* reordering of an unordered list builds to the same value, or is refused for
\* the same reason at the same place.
OrderFree == Built => \A f \in Unordered : \A s \in Reorderings(builder[f]) :
                         Build(kind, [builder EXCEPT ![f] = s]) = held

NoTwins(v) ==
    \A c \in {d \in Range(Schema[kind].check) : d.test = "unique_by"} :
        \A i, j \in DOMAIN v[c.field] :
            i # j => ~SameIdentity(c.keys, v[c.field][i], v[c.field][j])

\* A set of resources no relation enters, away from the scope, is unreachable.
Islands(graph, scope) ==
    {S \in SUBSET {graph.resources[i].subject[1] : i \in DOMAIN graph.resources} :
        /\ S # {} /\ scope \notin S
        /\ \A i \in DOMAIN graph.relations :
               graph.relations[i].target[1] \in S => graph.relations[i].source[1] \in S}

\* AcceptedIsSound: what the neighbour scan, the binary searches and the walk
\* of an accepted message vouch for holds of the whole message: no two elements
\* anywhere share an identity; every sample has its descriptor and every
\* relation its source; two observations of one state differ in their stamp; a
\* complete graph under a scope has no island.
AcceptedIsSound == Accepted =>
    LET v == held[2] IN
    /\ NoTwins(v)
    /\ kind = "Readings" => \A i \in DOMAIN v.samples :
          \E j \in DOMAIN v.descriptors : v.descriptors[j].key = v.samples[i].key
    /\ kind = "ResourceGraph" => \A i \in DOMAIN v.relations :
          \E j \in DOMAIN v.resources : v.resources[j].subject = v.relations[i].source
    /\ kind = "States" => \A i, j \in DOMAIN v.observations :
          LET a == v.observations[i]
              b == v.observations[j]
          IN  (i # j /\ SeriesKey(a) = SeriesKey(b)) =>
                 /\ a.observed_at # <<>>
                 /\ a.observed_at # b.observed_at
    /\ (kind = "ObservationBatch" /\ v.payload[1][1] = 14 /\ IsComplete(v)
           /\ v.coverage[1].scope # <<>>) =>
          Islands(v.payload[1][2], v.coverage[1].scope[1]) = {}

\* What a consumer may compare: the value without its collection metadata.
RECURSIVE Content(_, _)
Content(t, v) ==
    CASE t = "Payload" -> <<v[1], Content(Payload_arms[v[1]], v[2])>>
      [] t \in Messages -> [f \in {g.name : g \in Range(Visible(t))} |->
                               [i \in DOMAIN v[f] |-> Content(FieldNamed(t, f).type, v[f][i])]]
      [] OTHER -> v

\* DigestIsContent: two accepted messages one setter apart write the same
\* digest exactly when they agree in everything but collection metadata: an
\* entity tag or a read time moves no hash, and no two contents share one.
DigestIsContent == Accepted =>
    LET Agrees(other) ==
            IsOk(other) =>
              (Digest(kind, other[2]) = Digest(kind, held[2])
                   <=> Content(kind, other[2]) = Content(kind, held[2]))
    IN  \A f \in FieldNames(kind) : \A x \in Samples[kind][f] :
            Agrees(Build(kind, [builder EXCEPT ![f] = x]))
=============================================================================
