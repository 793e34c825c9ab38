---------------------------- MODULE Codegen_proofs ---------------------------
(***************************************************************************)
(* What the schema compiler promises of its runs, its vocabulary, its lock *)
(* and the code it writes, for every contract schema and every number of   *)
(* edits.                                                                  *)
(***************************************************************************)
EXTENDS CodegenValues, FiniteSetTheorems, SequenceTheorems, WellFoundedInduction, TLAPS

(* The state of a tree under a compiler whose output is up to date. *)
Tree ==
    /\ output = Compile(schema, vocabulary)
    /\ tree = [p \in Paths |-> tree[p]]
    /\ manifests \subseteq Outputs

(* What a run visits. *)
LEMMA ArtifactsAre ==
    ASSUME manifests \subseteq Outputs
    PROVE  /\ Artifacts \in Seq(Paths)
           /\ Range(Artifacts) = Range(Fixed) \cup manifests
<1>1. Fixed \in Seq(Paths) /\ Len(Fixed) = 6
  BY DEF Fixed, Paths, Range
<1>2. CASE manifests = {}
  <2>1. Cardinality(manifests) = 0
    BY <1>2, FS_EmptySet
  <2>2. SetToSeq(manifests) = <<>>
    <3>1. <<>> \in [1..0 -> {}]
      OBVIOUS
    <3>2. \A f \in [1..0 -> {}] : f = <<>>
      OBVIOUS
    <3>3. IsInjective(<<>>)
      BY DEF IsInjective
    <3> QED
      BY <1>2, <2>1, <3>1, <3>2, <3>3 DEF SetToSeq
  <2>3. Artifacts = Fixed
    BY <1>1, <2>2 DEF Artifacts
  <2> QED
    BY <1>1, <1>2, <2>3
<1>3. CASE manifests = {"projection"}
  <2>1. Cardinality(manifests) = 1
    BY <1>3, FS_Singleton
  <2>2. SetToSeq(manifests) = <<"projection">>
    <3> DEFINE S == {"projection"}
    <3>1. <<"projection">> \in [1..1 -> S]
      OBVIOUS
    <3>2. \A f \in [1..1 -> S] : f = <<"projection">>
      OBVIOUS
    <3>3. IsInjective(<<"projection">>)
      BY DEF IsInjective
    <3> QED
      BY <1>3, <2>1, <3>1, <3>2, <3>3 DEF SetToSeq
  <2>3. Artifacts = Append(Fixed, "projection")
    BY <1>1, <2>2 DEF Artifacts, Fixed
  <2>4. "projection" \in Paths
    BY DEF Paths, Outputs
  <2>5. /\ Artifacts \in Seq(Paths) /\ Len(Artifacts) = 7 /\ Artifacts[7] = "projection"
        /\ \A i \in 1..6 : Artifacts[i] = Fixed[i]
    <3>1. ASSUME NEW S, NEW t \in Seq(S), Len(t) = 6, NEW e \in S
          PROVE  /\ Append(t, e) \in Seq(S) /\ Len(Append(t, e)) = 7 /\ Append(t, e)[7] = e
                 /\ \A i \in 1..6 : Append(t, e)[i] = t[i]
      <4>1. Append(t, e) \in Seq(S) /\ Len(Append(t, e)) = Len(t) + 1
        BY AppendProperties
      <4>2. Append(t, e)[Len(t) + 1] = e
        BY AppendProperties
      <4>3. \A i \in 1..Len(t) : Append(t, e)[i] = t[i]
        BY AppendProperties
      <4> QED
        BY <3>1, <4>1, <4>2, <4>3
    <3> QED
      BY <1>1, <2>3, <2>4, <3>1
  <2>6. DOMAIN Artifacts = (1..6) \cup {7} /\ DOMAIN Fixed = 1..6
    BY <1>1, <2>5
  <2>7. Range(Artifacts) = Range(Fixed) \cup {"projection"}
    BY <2>5, <2>6 DEF Range
  <2> QED
    BY <1>3, <2>5, <2>7
<1> QED
  BY <1>2, <1>3 DEF Outputs

(* Types are kept. *)
LEMMA TreeInit == Init => Tree
  BY DEF Init, Tree

LEMMA TreeStep == ASSUME Tree, [Next]_vars PROVE Tree'
<1>1. CASE Author
  <2>1. output' = Compile(schema', vocabulary') /\ UNCHANGED <<tree, manifests>>
    BY <1>1 DEF Author, Annotate, Reshape, Renumber, AnnotateMessage, EditVocabulary, Edited
  <2> QED
    BY <2>1 DEF Tree
<1>2. CASE EditFile \/ DeleteFile
  BY <1>2 DEF EditFile, DeleteFile, Meddle, Tree
<1>3. CASE SetManifests
  BY <1>3 DEF SetManifests, Meddle, Tree
<1>4. CASE Run
  <2>1. UNCHANGED <<schema, vocabulary, output, manifests>>
    BY <1>4 DEF Run, Refused, Check, CheckFails, Generate, GenerateFails
  <2>2. tree' = [p \in Paths |-> tree'[p]]
    <3>1. CASE UNCHANGED tree
      BY <3>1 DEF Tree
    <3>2. ASSUME NEW written, tree' = After(written) PROVE tree' = [p \in Paths |-> tree'[p]]
      BY <3>2 DEF After
    <3>3. ASSUME NEW written, NEW p, tree' = [After(written) EXCEPT ![p] = Other]
          PROVE  tree' = [q \in Paths |-> tree'[q]]
      BY <3>3 DEF After
    <3> QED
      BY <1>4, <3>1, <3>2, <3>3 DEF Run, Refused, Check, CheckFails, Generate, GenerateFails
  <2> QED
    BY <2>1, <2>2 DEF Tree
<1>5. CASE UNCHANGED vars
  BY <1>5 DEF vars, Tree
<1> QED
  BY <1>1, <1>2, <1>3, <1>4, <1>5 DEF Next

LEMMA TreeHolds == Spec => []Tree
  BY TreeInit, TreeStep, PTL DEF Spec
-----------------------------------------------------------------------------
(* Where orphans may lie, only what is listed is none. *)
LEMMA OrphansAre ==
    ASSUME manifests \subseteq Outputs, NEW on
    PROVE  Orphans(on) = {p \in Outputs \cup Strays : p \notin manifests /\ on[p] # Absent}
<1>1. Range(Artifacts) = Range(Fixed) \cup manifests
  BY ArtifactsAre
<1>2. \A p \in Outputs \cup Strays : p \notin Range(Fixed)
  BY DEF Outputs, Strays, Fixed, Range
<1> QED
  BY <1>1, <1>2 DEF Orphans

(* The artifacts as a list of paths. *)
LEMMA ArtifactAt ==
    ASSUME manifests \subseteq Outputs
    PROVE  /\ Len(Artifacts) \in Nat
           /\ \A i \in 1..Len(Artifacts) : Artifacts[i] \in Paths
           /\ Range(Artifacts) = {Artifacts[i] : i \in 1..Len(Artifacts)}
<1>1. Artifacts \in Seq(Paths)
  BY ArtifactsAre
<1>2. Len(Artifacts) \in Nat /\ DOMAIN Artifacts = 1..Len(Artifacts)
  BY <1>1
<1> QED
  BY <1>1, <1>2 DEF Range

(* What a run that wrote the artifacts before the k-th left. *)
LEMMA AfterIs ==
    ASSUME manifests \subseteq Outputs, NEW k \in 1..(Len(Artifacts) + 1)
    PROVE  LET written == WrittenBefore(k)
           IN  /\ written \subseteq {p \in Range(Artifacts) : Stale(p)}
               /\ \A p \in Paths : /\ p \in written => After(written)[p] = output.files[p]
                                   /\ p \notin written => After(written)[p] = tree[p]
               /\ k = Len(Artifacts) + 1 => \A p \in Range(Artifacts) : Stale(p) => p \in written
<1>1. Len(Artifacts) \in Nat /\ Range(Artifacts) = {Artifacts[i] : i \in 1..Len(Artifacts)}
  BY ArtifactAt
<1>2. 1..(k - 1) \subseteq 1..Len(Artifacts)
  BY <1>1
<1>3. k = Len(Artifacts) + 1 => 1..(k - 1) = 1..Len(Artifacts)
  BY <1>1
<1>4. WrittenBefore(k) \subseteq {p \in Range(Artifacts) : Stale(p)}
  BY <1>1, <1>2 DEF WrittenBefore
<1>5. k = Len(Artifacts) + 1 => \A p \in Range(Artifacts) : Stale(p) => p \in WrittenBefore(k)
  BY <1>1, <1>3 DEF WrittenBefore
<1>6. \A written : \A p \in Paths : /\ p \in written => After(written)[p] = output.files[p]
                                    /\ p \notin written => After(written)[p] = tree[p]
  BY DEF After
<1> QED
  BY <1>4, <1>5, <1>6

(* What a run says, of what it did. *)
Truth ==
    LET changed == {p \in Paths : tree'[p] # tree[p]}
        whole == \A p \in Range(Artifacts) : tree'[p] = output.files[p]
        clean == \A p \in Outputs \cup Strays : p \notin manifests => tree'[p] = Absent
    IN  /\ changed \subseteq last'.written \cup last'.failed
        /\ last'.said = "success" <=> (last'.said \in {"success", "failure"} /\ whole /\ clean)
        /\ last'.mode = "check" => changed = {}
        /\ last'.said = "failure" => last'.stale # {} \/ last'.orphans # {}

LEMMA RefusedTells ==
    ASSUME Tree, NEW mode, Refused(mode)
    PROVE  Truth
<1>1. output.gate \in {"vocabulary", "schema", "backend", "ok"}
  BY DEF Tree, Compile, Gate
<1>2. last'.said \notin {"success", "failure"} /\ UNCHANGED tree
  BY <1>1 DEF Refused, NoRun
<1> QED
  BY <1>2 DEF Truth

LEMMA CheckTells ==
    ASSUME Tree, Check
    PROVE  Truth
<1> DEFINE stale == {p \in Range(Artifacts) : Stale(p)}
<1>1. /\ last'.stale = stale /\ last'.orphans = Orphans(tree)
      /\ last'.said = IF stale = {} /\ Orphans(tree) = {} THEN "success" ELSE "failure"
      /\ UNCHANGED tree
  BY DEF Check, NoRun
<1>2. stale = {} <=> \A p \in Range(Artifacts) : tree'[p] = output.files[p]
  BY <1>1 DEF Stale
<1>3. Orphans(tree) = {} <=> \A p \in Outputs \cup Strays : p \notin manifests => tree'[p] = Absent
  BY <1>1, OrphansAre DEF Tree
<1> HIDE DEF stale
<1> QED
  BY <1>1, <1>2, <1>3 DEF Truth

LEMMA CheckFailsTells ==
    ASSUME Tree, CheckFails
    PROVE  Truth
<1>1. last'.said = "io" /\ UNCHANGED tree
  BY DEF CheckFails, NoRun
<1> QED
  BY <1>1 DEF Truth

LEMMA GenerateTells ==
    ASSUME Tree, Generate
    PROVE  Truth
<1> DEFINE k == Len(Artifacts) + 1
           written == WrittenBefore(k)
           orphans == Orphans(After(written))
<1>1. /\ tree' = After(written) /\ last'.written = written /\ last'.orphans = orphans
      /\ last'.mode = "generate"
      /\ last'.said = IF orphans = {} THEN "success" ELSE "failure"
  BY DEF Generate, NoRun
<1>2. manifests \subseteq Outputs
  BY DEF Tree
<1>3. k \in 1..(Len(Artifacts) + 1)
  BY <1>2, ArtifactAt
<1>4. /\ written \subseteq {p \in Range(Artifacts) : Stale(p)}
      /\ \A p \in Paths : /\ p \in written => tree'[p] = output.files[p]
                          /\ p \notin written => tree'[p] = tree[p]
      /\ \A p \in Range(Artifacts) : Stale(p) => p \in written
  BY <1>1, <1>2, <1>3, AfterIs
<1>5. orphans = {} <=> \A p \in Outputs \cup Strays : p \notin manifests => tree'[p] = Absent
  BY <1>1, <1>2, OrphansAre
<1>6. \A p \in Range(Artifacts) : tree'[p] = output.files[p]
  <2>1. Range(Artifacts) \subseteq Paths
    BY <1>2, ArtifactAt
  <2> QED
    BY <1>4, <2>1 DEF Stale
<1> HIDE DEF written, orphans, k
<1> QED
  BY <1>1, <1>4, <1>5, <1>6 DEF Truth

LEMMA GenerateFailsTells ==
    ASSUME Tree, GenerateFails
    PROVE  Truth
<1>1. PICK k \in 1..(Len(Artifacts) + 1) :
         \/ tree' = After(WrittenBefore(k)) /\ (\E p : last' = IoError(k, p))
         \/ /\ tree' = [After(WrittenBefore(k)) EXCEPT ![Artifacts[k]] = Other]
            /\ last' = IoError(k, Artifacts[k])
  BY DEF GenerateFails
<1>2. manifests \subseteq Outputs
  BY DEF Tree
<1>3. \A p \in Paths : p \notin WrittenBefore(k) => After(WrittenBefore(k))[p] = tree[p]
  BY <1>2, AfterIs
<1>4. \A failed : /\ IoError(k, failed).said = "io" /\ IoError(k, failed).mode = "generate"
                  /\ IoError(k, failed).written = WrittenBefore(k)
                  /\ IoError(k, failed).failed = {failed}
  BY DEF IoError, NoRun
<1>5. last'.said = "io" /\ last'.mode = "generate" /\ last'.written = WrittenBefore(k)
  BY <1>1, <1>4
<1>6. \A p \in Paths : tree'[p] # tree[p] => p \in last'.written \cup last'.failed
  <2>1. CASE tree' = After(WrittenBefore(k))
    BY <1>3, <1>5, <2>1
  <2>2. CASE /\ last' = IoError(k, Artifacts[k])
             /\ tree' = [After(WrittenBefore(k)) EXCEPT ![Artifacts[k]] = Other]
    <3>1. last'.failed = {Artifacts[k]}
      BY <1>4, <2>2
    <3>2. \A p \in Paths : p # Artifacts[k] => tree'[p] = After(WrittenBefore(k))[p]
      BY <2>2 DEF After
    <3> QED
      BY <1>3, <1>5, <3>1, <3>2
  <2> QED
    BY <1>1, <2>1, <2>2
<1> QED
  BY <1>5, <1>6 DEF Truth

(* A run names every file it changed and says of the tree what is so: a    *)
(* success is a tree that is what the schema compiles to with nothing else *)
(* beside it, and a check leaves it alone (run of lib.rs).                 *)
THEOREM RunsSayWhatIs == Spec => RunsTellTruth
<1>1. ASSUME Tree, Next, last'.mode # "none" PROVE Truth
  <2>1. ~Author /\ ~EditFile /\ ~DeleteFile /\ ~SetManifests
    <3>1. NoRun.mode = "none"
      BY DEF NoRun
    <3>2. Author => last' = NoRun
      BY DEF Author, Annotate, Reshape, Renumber, AnnotateMessage, EditVocabulary, Edited
    <3>3. EditFile \/ DeleteFile \/ SetManifests => last' = NoRun
      BY DEF EditFile, DeleteFile, SetManifests, Meddle
    <3> QED
      BY <1>1, <3>1, <3>2, <3>3
  <2>2. Run
    BY <1>1, <2>1 DEF Next
  <2> QED
    BY <1>1, <2>2, RefusedTells, CheckTells, CheckFailsTells, GenerateTells, GenerateFailsTells DEF Run
<1>2. Tree /\ [Next]_vars =>
        [last'.mode # "none"
           => LET changed == {p \in Paths : tree'[p] # tree[p]}
                  whole == \A p \in Range(Artifacts) : tree'[p] = output.files[p]
                  clean == \A p \in Outputs \cup Strays : p \notin manifests => tree'[p] = Absent
              IN  /\ changed \subseteq last'.written \cup last'.failed
                  /\ last'.said = "success" <=> (last'.said \in {"success", "failure"} /\ whole /\ clean)
                  /\ last'.mode = "check" => changed = {}
                  /\ last'.said = "failure" => last'.stale # {} \/ last'.orphans # {}]_vars
  BY <1>1 DEF Truth
<1> QED
  BY TreeHolds, <1>2, PTL DEF Spec, RunsTellTruth
-----------------------------------------------------------------------------
(* What authors write stays a schema.                                      *)
LEMMA WritingAnnotates ==
    ASSUME NEW x \in Extensions, NEW opts, Annotated(x, opts), NEW known,
           known \subseteq DOMAIN Options(x), NEW new \in Annotations(opts, known)
    PROVE  Annotated(x, new)
<1>1. CASE \E o \in known : \E v : new = Written(opts, o, v)
  <2>1. PICK o \in known : \E v : new = Written(opts, o, v)
    BY <1>1
  <2>2. PICK v : new = Written(opts, o, v)
    BY <2>1
  <2> QED
    BY <2>1, <2>2 DEF Annotated, Written
<1>2. CASE \E o \in DOMAIN opts : new = Erased(opts, o)
  BY <1>2 DEF Annotated, Erased
<1>3. (\E o \in known : \E v : new = Written(opts, o, v))
        \/ (\E o \in DOMAIN opts : new = Erased(opts, o))
  BY DEF Annotations
<1> QED
  BY <1>1, <1>2, <1>3

LEMMA OneofsPut ==
    ASSUME NEW d, d = [opts |-> d.opts, oneofs |-> d.oneofs, fields |-> d.fields], NEW o, NEW w
    PROVE  [d EXCEPT !.oneofs[o] = w]
             = [opts |-> d.opts, oneofs |-> [d.oneofs EXCEPT ![o] = w], fields |-> d.fields]
OBVIOUS

LEMMA FieldsPut ==
    ASSUME NEW d, d = [opts |-> d.opts, oneofs |-> d.oneofs, fields |-> d.fields], NEW S
    PROVE  [d EXCEPT !.fields = S] = [opts |-> d.opts, oneofs |-> d.oneofs, fields |-> S]
OBVIOUS

(* A field may take the place of one of its number and name, and two may   *)
(* swap numbers.                                                           *)
LEMMA FieldReplaced ==
    ASSUME NEW d, IsMessage(d), NEW f \in d.fields, NEW g, IsField(g), g.number = f.number,
           g.name = f.name
    PROVE  IsMessage([d EXCEPT !.fields = (@ \ {f}) \cup {g}])
<1> DEFINE e == [d EXCEPT !.fields = (@ \ {f}) \cup {g}]
<1>1. e = [opts |-> d.opts, oneofs |-> d.oneofs, fields |-> (d.fields \ {f}) \cup {g}]
  BY FieldsPut DEF IsMessage
<1>2. \A h \in e.fields : IsField(h)
  BY <1>1 DEF IsMessage
<1>3. \A h, i \in e.fields : h.number = i.number \/ h.name = i.name => h = i
  BY <1>1 DEF IsMessage
<1>4. IsFiniteSet(e.fields)
  BY <1>1, FS_RemoveElement, FS_AddElement DEF IsMessage
<1> QED
  BY <1>1, <1>2, <1>3, <1>4 DEF IsMessage

LEMMA FieldsSwapped ==
    ASSUME NEW d, IsMessage(d), NEW f \in d.fields, NEW g \in d.fields, f # g
    PROVE  IsMessage([d EXCEPT !.fields = (@ \ {f, g})
                        \cup {[f EXCEPT !.number = g.number], [g EXCEPT !.number = f.number]}])
<1> DEFINE fg == [f EXCEPT !.number = g.number]
           gf == [g EXCEPT !.number = f.number]
           e == [d EXCEPT !.fields = (@ \ {f, g}) \cup {fg, gf}]
<1>1. e = [opts |-> d.opts, oneofs |-> d.oneofs, fields |-> (d.fields \ {f, g}) \cup {fg, gf}]
  BY FieldsPut DEF IsMessage
<1>2. /\ fg = [name |-> f.name, number |-> g.number, kind |-> f.kind, card |-> f.card,
                 optional |-> f.optional, oneof |-> f.oneof, opts |-> f.opts]
      /\ gf = [name |-> g.name, number |-> f.number, kind |-> g.kind, card |-> g.card,
                 optional |-> g.optional, oneof |-> g.oneof, opts |-> g.opts]
  <2>1. IsField(f) /\ IsField(g)
    BY DEF IsMessage
  <2> QED
    BY <2>1 DEF IsField
<1>3. /\ IsField(fg) /\ fg.number = g.number /\ fg.name = f.name
      /\ IsField(gf) /\ gf.number = f.number /\ gf.name = g.name
  BY <1>2 DEF IsMessage, IsField
<1> HIDE DEF fg, gf
<1>4. \A h \in e.fields : IsField(h)
  BY <1>1, <1>3 DEF IsMessage
<1>5. \A h, i \in e.fields : h.number = i.number \/ h.name = i.name => h = i
  <2>1. \A h \in d.fields \ {f, g} : /\ h.number # f.number /\ h.number # g.number
                                     /\ h.name # f.name /\ h.name # g.name
    BY DEF IsMessage
  <2>2. f.number # g.number /\ f.name # g.name
    BY DEF IsMessage
  <2> QED
    BY <1>1, <1>3, <2>1, <2>2 DEF IsMessage
<1>8. IsFiniteSet(e.fields)
  <2>1. IsFiniteSet(d.fields \ {f, g})
    BY FS_Subset DEF IsMessage
  <2>2. IsFiniteSet({fg, gf})
    <3>1. IsFiniteSet({fg} \cup {gf})
      BY FS_Singleton, FS_AddElement
    <3> QED
      BY <3>1
  <2> QED
    BY <1>1, <2>1, <2>2, FS_Union
<1> HIDE DEF e
<1>6. /\ e.opts = d.opts /\ e.oneofs = d.oneofs
      /\ e = [opts |-> e.opts, oneofs |-> e.oneofs, fields |-> e.fields]
  BY <1>1
<1>7. IsMessage(e)
  BY <1>4, <1>5, <1>6, <1>8 DEF IsMessage
<1> QED
  BY <1>7 DEF e, fg, gf

LEMMA ReshapedIs ==
    ASSUME NEW f, IsField(f), NEW g \in Reshapes(f)
    PROVE  IsField(g) /\ g.number = f.number /\ g.name = f.name
<1>1. \/ \E k : g = [f EXCEPT !.kind = k]
      \/ \E c : g = [f EXCEPT !.card = c]
      \/ \E c : g = [f EXCEPT !.card = c, !.optional = FALSE]
      \/ g = [f EXCEPT !.optional = ~f.optional]
      \/ \E o : g = [f EXCEPT !.oneof = o, !.optional = FALSE]
  BY DEF Reshapes
<1> QED
  BY <1>1 DEF IsField

(* One message of a schema may be replaced. *)
LEMMA MessageReplaced ==
    ASSUME IsSchema(schema), NEW m \in ContractMessages, NEW d, IsMessage(d)
    PROVE  IsSchema([schema EXCEPT ![m] = d])
BY DEF IsSchema

LEMMA SchemaStep == ASSUME IsSchema(schema), [Next]_vars PROVE IsSchema(schema)'
<1>1. DOMAIN schema = ContractMessages /\ \A m \in ContractMessages : IsMessage(schema[m])
  BY DEF IsSchema
<1>2. \A x \in Extensions : Writable(x) \subseteq DOMAIN Options(x)
  BY DEF Writable
<1>3. CASE Annotate
  <2>1. PICK m \in ContractMessages : \E f \in schema[m].fields :
           \E opts \in Annotations(f.opts, Writable("field")) :
              SetField(m, f, [f EXCEPT !.opts = opts])
    BY <1>1, <1>3 DEF Annotate
  <2>2. PICK f \in schema[m].fields : \E opts \in Annotations(f.opts, Writable("field")) :
              SetField(m, f, [f EXCEPT !.opts = opts])
    BY <2>1
  <2>3. PICK opts \in Annotations(f.opts, Writable("field")) : SetField(m, f, [f EXCEPT !.opts = opts])
    BY <2>2
  <2>4. IsField(f)
    BY <1>1 DEF IsMessage
  <2>5. Annotated("field", opts)
    BY <1>2, <2>4, WritingAnnotates DEF IsField, Extensions
  <2>6. /\ IsField([f EXCEPT !.opts = opts])
        /\ [f EXCEPT !.opts = opts].number = f.number /\ [f EXCEPT !.opts = opts].name = f.name
    BY <2>4, <2>5 DEF IsField
  <2>7. IsMessage([schema[m] EXCEPT !.fields = (@ \ {f}) \cup {[f EXCEPT !.opts = opts]}])
    BY <1>1, <2>6, FieldReplaced
  <2> QED
    BY <2>3, <2>7, MessageReplaced DEF SetField
<1>4. CASE Reshape
  <2>1. PICK m \in ContractMessages : \E f \in schema[m].fields : \E g \in Reshapes(f) : SetField(m, f, g)
    BY <1>1, <1>4 DEF Reshape
  <2>2. PICK f \in schema[m].fields : \E g \in Reshapes(f) : SetField(m, f, g)
    BY <2>1
  <2>3. PICK g \in Reshapes(f) : SetField(m, f, g)
    BY <2>2
  <2>4. IsField(g) /\ g.number = f.number /\ g.name = f.name
    BY <1>1, ReshapedIs DEF IsMessage
  <2>5. IsMessage([schema[m] EXCEPT !.fields = (@ \ {f}) \cup {g}])
    BY <1>1, <2>4, FieldReplaced
  <2> QED
    BY <2>3, <2>5, MessageReplaced DEF SetField
<1>5. CASE Renumber
  <2>1. PICK m \in ContractMessages : \E f, g \in schema[m].fields :
           /\ f.number < g.number
           /\ schema' = [schema EXCEPT ![m].fields =
                  (@ \ {f, g}) \cup {[f EXCEPT !.number = g.number], [g EXCEPT !.number = f.number]}]
    BY <1>1, <1>5 DEF Renumber
  <2>2. PICK f \in schema[m].fields, g \in schema[m].fields :
           /\ f.number < g.number
           /\ schema' = [schema EXCEPT ![m].fields =
                  (@ \ {f, g}) \cup {[f EXCEPT !.number = g.number], [g EXCEPT !.number = f.number]}]
    BY <2>1
  <2>3. CASE f = g
    <3>1. schema' = [schema EXCEPT ![m].fields = @]
      <4>1. [f EXCEPT !.number = f.number] = f
        <5>1. IsField(f)
          BY <1>1 DEF IsMessage
        <5> QED
          BY <5>1 DEF IsField
      <4>2. (schema[m].fields \ {f, f}) \cup {f, f} = schema[m].fields
        OBVIOUS
      <4> QED
        BY <2>2, <2>3, <4>1, <4>2
    <3>2. IsMessage([schema[m] EXCEPT !.fields = @])
      BY <1>1 DEF IsMessage
    <3> QED
      BY <3>1, <3>2, MessageReplaced
  <2>4. CASE f # g
    <3>1. IsMessage([schema[m] EXCEPT !.fields = (@ \ {f, g})
                        \cup {[f EXCEPT !.number = g.number], [g EXCEPT !.number = f.number]}])
      BY <1>1, <2>4, FieldsSwapped
    <3> QED
      BY <2>2, <3>1, MessageReplaced
  <2> QED
    BY <2>3, <2>4
<1>6. CASE AnnotateMessage
  <2>1. PICK m \in ContractMessages :
         \/ \E opts \in Annotations(schema[m].opts, Writable("message")) :
                schema' = [schema EXCEPT ![m].opts = opts]
         \/ \E o \in OneofNames :
                schema' = [schema EXCEPT ![m].oneofs[o] = IF DOMAIN @ = {} THEN [required |-> TRUE] ELSE <<>>]
    BY <1>1, <1>6 DEF AnnotateMessage
  <2>2. ASSUME NEW opts \in Annotations(schema[m].opts, Writable("message")),
               schema' = [schema EXCEPT ![m].opts = opts]
        PROVE  IsSchema(schema')
    <3>1. Annotated("message", opts)
      BY <1>1, <1>2, WritingAnnotates DEF IsMessage, Extensions
    <3>2. IsMessage([schema[m] EXCEPT !.opts = opts])
      BY <1>1, <3>1 DEF IsMessage
    <3> QED
      BY <2>2, <3>2, MessageReplaced
  <2>3. ASSUME NEW o,
               schema' = [schema EXCEPT ![m].oneofs[o] = IF DOMAIN @ = {} THEN [required |-> TRUE] ELSE <<>>]
        PROVE  IsSchema(schema')
    <3> DEFINE new == IF DOMAIN schema[m].oneofs[o] = {} THEN [required |-> TRUE] ELSE <<>>
    <3>1. Annotated("oneof", new)
      BY DEF Annotated, Options, ONEOF_OPTIONS
    <3> HIDE DEF new
    <3>2. IsMessage([schema[m] EXCEPT !.oneofs[o] = new])
      <4>1. IsMessage(schema[m])
        BY <1>1
      <4>2. [schema[m] EXCEPT !.oneofs[o] = new]
              = [opts |-> schema[m].opts, oneofs |-> [schema[m].oneofs EXCEPT ![o] = new],
                 fields |-> schema[m].fields]
        BY <4>1, OneofsPut DEF IsMessage
      <4>3. [schema[m].oneofs EXCEPT ![o] = new]
              = [p \in DOMAIN schema[m].oneofs |-> IF p = o THEN new ELSE schema[m].oneofs[p]]
        OBVIOUS
      <4> QED
        BY <3>1, <4>1, <4>2, <4>3 DEF IsMessage
    <3>3. schema' = [schema EXCEPT ![m] = [schema[m] EXCEPT !.oneofs[o] = new]]
      BY <2>3 DEF new
    <3> QED
      BY <3>2, <3>3, MessageReplaced
  <2> QED
    BY <2>1, <2>2, <2>3
<1>7. CASE UNCHANGED schema
  BY <1>7 DEF IsSchema
<1>8. CASE EditVocabulary \/ EditFile \/ DeleteFile \/ SetManifests \/ Run \/ UNCHANGED vars
  <2>1. UNCHANGED schema
    BY <1>8 DEF EditVocabulary, EditFile, DeleteFile, SetManifests, Meddle, Run, Refused, Check,
                CheckFails, Generate, GenerateFails, vars
  <2> QED
    BY <1>7, <2>1
<1> QED
  BY <1>3, <1>4, <1>5, <1>6, <1>8 DEF Next, Author

LEMMA SchemaHolds == Spec => []IsSchema(schema)
<1>1. Init => IsSchema(schema)
  BY CodegenAssumption DEF Init
<1> QED
  BY <1>1, SchemaStep, PTL DEF Spec
-----------------------------------------------------------------------------
(* Each row is in its table. *)
LEMMA RowsInTable ==
    ASSUME NEW x \in Extensions, NEW o \in DOMAIN Options(x)
    PROVE  \E i \in DOMAIN Table(x) : Table(x)[i] = o
<1>1. CASE x = "field"
  <2>1. DOMAIN Table(x) = 1..10
    BY <1>1 DEF Table
  <2>2. Options(x) = FIELD_OPTIONS
    BY <1>1 DEF Options
  <2> QED
    BY <1>1, <2>1, <2>2 DEF Table, FIELD_OPTIONS
<1>2. CASE x = "message"
  <2>1. DOMAIN Table(x) = 1..3
    BY <1>2 DEF Table
  <2> QED
    BY <1>2, <2>1 DEF Table, Options, MESSAGE_OPTIONS
<1>3. CASE x = "oneof"
  <2>1. DOMAIN Table(x) = 1..1
    BY <1>3 DEF Table
  <2> QED
    BY <1>3, <2>1 DEF Table, Options, ONEOF_OPTIONS
<1> QED
  BY <1>1, <1>2, <1>3 DEF Extensions

(* What a vocabulary that resolves reads back of an annotation: all of it. *)
LEMMA ReadsBack ==
    ASSUME NEW v, Resolve(v) = "ok", NEW x \in Extensions, NEW w, Annotated(x, w)
    PROVE  Read(v, x, w) = w
<1>1. Extension(v, x) = "ok" /\ CanaryReadsBack(v)
  <2>1. Extension(v, "field") = "ok" /\ Extension(v, "message") = "ok" /\ Extension(v, "oneof") = "ok"
    BY DEF Resolve
  <2>2. CanaryReadsBack(v)
    BY <2>1 DEF Resolve
  <2> QED
    BY <2>1, <2>2 DEF Extensions
<1>2. \A o \in DOMAIN Options(x) : v.shapes[x][o] = Options(x)[o].shape
  <2> DEFINE missing(o) == o \notin DOMAIN v.shapes[x]
             faulty == {i \in DOMAIN Table(x) :
                           missing(Table(x)[i]) \/ ~Accepts(Options(x)[Table(x)[i]].shape, v.shapes[x][Table(x)[i]])}
  <2>1. faulty # {} => Extension(v, x) \in {"NotDefined", "MissingField", "WrongType"}
    BY DEF Extension
  <2>2. faulty = {}
    BY <1>1, <2>1
  <2>3. \A o \in DOMAIN Options(x) : \E i \in DOMAIN Table(x) : Table(x)[i] = o
    BY RowsInTable
  <2> QED
    BY <2>2, <2>3 DEF Accepts
<1>3. x \notin v.lost
  <2>1. PICK o \in DOMAIN Options(x) : TRUE
    BY DEF Extensions, Options, FIELD_OPTIONS, MESSAGE_OPTIONS, ONEOF_OPTIONS
  <2>2. o \in DOMAIN Read(v, x, v.canary[x])
    BY <1>1, <2>1 DEF CanaryReadsBack
  <2> QED
    BY <2>2 DEF Read
<1> DEFINE back(o) == Comes(Options(x)[o].shape, v.shapes[x][o], w[o])
           seen == {o \in DOMAIN w \cap DOMAIN Options(x) : back(o) # {}}
<1>4. \A o \in DOMAIN w : o \in DOMAIN Options(x) /\ back(o) = {w[o]}
  BY <1>2 DEF Annotated, Comes
<1>5. seen = DOMAIN w
  BY <1>4
<1>6. Read(v, x, w) = [o \in seen |-> CHOOSE y \in back(o) : TRUE]
  BY <1>3 DEF Read
<1>7. \A o \in DOMAIN w : (CHOOSE y \in back(o) : TRUE) = w[o]
  BY <1>4
<1> HIDE DEF back, seen
<1>8. Read(v, x, w) = [o \in DOMAIN w |-> w[o]]
  BY <1>5, <1>6, <1>7
<1> QED
  BY <1>8 DEF Annotated

LEMMA SeenIsWritten ==
    ASSUME NEW s, IsSchema(s), NEW v, Resolve(v) = "ok"
    PROVE  Descriptors(s, v) = s
<1>1. ASSUME NEW m \in ContractMessages
      PROVE  [opts |-> Read(v, "message", s[m].opts),
              oneofs |-> [o \in DOMAIN s[m].oneofs |-> Read(v, "oneof", s[m].oneofs[o])],
              fields |-> {[f EXCEPT !.opts = Read(v, "field", f.opts)] : f \in s[m].fields}] = s[m]
  <2>1. IsMessage(s[m])
    BY DEF IsSchema
  <2>2. Read(v, "message", s[m].opts) = s[m].opts
    BY <2>1, ReadsBack DEF IsMessage, Extensions
  <2>3. [o \in DOMAIN s[m].oneofs |-> Read(v, "oneof", s[m].oneofs[o])] = s[m].oneofs
    <3>1. \A o \in DOMAIN s[m].oneofs : Read(v, "oneof", s[m].oneofs[o]) = s[m].oneofs[o]
      BY <2>1, ReadsBack DEF IsMessage, Extensions
    <3> QED
      BY <2>1, <3>1 DEF IsMessage
  <2>4. \A f \in s[m].fields : [f EXCEPT !.opts = Read(v, "field", f.opts)] = f
    <3> SUFFICES ASSUME NEW f \in s[m].fields
                 PROVE  [f EXCEPT !.opts = Read(v, "field", f.opts)] = f
      OBVIOUS
    <3>1. IsField(f)
      BY <2>1 DEF IsMessage
    <3>2. Read(v, "field", f.opts) = f.opts
      BY <3>1, ReadsBack DEF IsField, Extensions
    <3> QED
      BY <3>1, <3>2 DEF IsField
  <2>5. {[f EXCEPT !.opts = Read(v, "field", f.opts)] : f \in s[m].fields} = s[m].fields
    BY <2>4
  <2> QED
    BY <2>1, <2>2, <2>3, <2>5 DEF IsMessage
<1>2. DOMAIN s = ContractMessages /\ s = [m \in ContractMessages |-> s[m]]
  BY DEF IsSchema
<1> QED
  BY <1>1, <1>2 DEF Descriptors

(* Whatever became of annotations.proto or of the path the descriptors     *)
(* took, a vocabulary the compiler accepts (Vocabulary::resolve) reads     *)
(* every annotation back as it is written.                                 *)
THEOREM NoneSwitchedOff == Spec => []NothingSwitchedOff
<1>1. Tree /\ IsSchema(schema) => NothingSwitchedOff
  BY SeenIsWritten DEF Tree, NothingSwitchedOff, Compile
<1> QED
  BY <1>1, TreeHolds, SchemaHolds, PTL
-----------------------------------------------------------------------------
(* Two fields a reader of the lock cannot tell apart, and two schemas made *)
(* of such fields.  Whether presence was asked for or comes with a oneof   *)
(* or a message is one thing to the lock and to the generated code.        *)
Alike(f, g) ==
    /\ f.name = g.name /\ f.number = g.number /\ f.kind = g.kind /\ f.card = g.card
    /\ f.oneof = g.oneof /\ f.opts = g.opts
    /\ SupportsPresence(f) <=> SupportsPresence(g)

Required(s, m, o) == "required" \in DOMAIN s[m].oneofs[o]

Same(s, t) ==
    /\ DOMAIN s = ContractMessages /\ DOMAIN t = ContractMessages
    /\ \A m \in ContractMessages :
         /\ s[m].opts = t[m].opts
         /\ \A f \in Fields(s, m) : \E g \in Fields(t, m) : Alike(f, g)
         /\ \A g \in Fields(t, m) : \E f \in Fields(s, m) : Alike(f, g)
         /\ \A o \in Oneofs(s, m) : Required(s, m, o) <=> Required(t, m, o)

LEMMA AlikeTurns == \A f, g : Alike(f, g) => Alike(g, f)
  BY DEF Alike

LEMMA OneofsSame ==
    ASSUME NEW s, NEW t, Same(s, t), NEW m \in ContractMessages
    PROVE  Oneofs(s, m) = Oneofs(t, m)
<1>1. /\ \A f \in Fields(s, m) : \E g \in Fields(t, m) : f.oneof = g.oneof
      /\ \A g \in Fields(t, m) : \E f \in Fields(s, m) : f.oneof = g.oneof
  BY DEF Same, Alike
<1> QED
  BY <1>1 DEF Oneofs

LEMMA SameTurns == ASSUME NEW s, NEW t, Same(s, t) PROVE Same(t, s)
<1>1. \A m \in ContractMessages :
        /\ t[m].opts = s[m].opts
        /\ \A f \in Fields(t, m) : \E g \in Fields(s, m) : Alike(f, g)
        /\ \A g \in Fields(s, m) : \E f \in Fields(t, m) : Alike(f, g)
  BY AlikeTurns DEF Same
<1>2. \A m \in ContractMessages : \A o \in Oneofs(t, m) : Required(t, m, o) <=> Required(s, m, o)
  BY OneofsSame DEF Same
<1> QED
  BY <1>1, <1>2 DEF Same

(* A declared oneof of a schema stands in whatever has its lock, over the  *)
(* same numbers and as required as it was.                                 *)
ArmsAt(u, m, o) == {f.number : f \in Arms(u, m, o)}

LEMMA OneofStands ==
    ASSUME NEW u, NEW w, IsSchema(u), IsSchema(w), Lock(u).oneofs = Lock(w).oneofs,
           NEW m \in ContractMessages, NEW o \in Oneofs(u, m)
    PROVE  o \in Oneofs(w, m) /\ ArmsAt(u, m, o) = ArmsAt(w, m, o) /\ (Required(u, m, o) <=> Required(w, m, o))
<1>1. DOMAIN u = ContractMessages /\ DOMAIN w = ContractMessages
  BY DEF IsSchema
<1>2. <<m, o, ArmsAt(u, m, o), Required(u, m, o)>> \in Lock(u).oneofs
  BY <1>1 DEF Lock, Required, ArmsAt
<1>3. \E k \in ContractMessages : \E p \in Oneofs(w, k) :
        <<m, o, ArmsAt(u, m, o), Required(u, m, o)>> = <<k, p, ArmsAt(w, k, p), Required(w, k, p)>>
  <2>1. Lock(w).oneofs = UNION {{<<k, p, ArmsAt(w, k, p), Required(w, k, p)>> : p \in Oneofs(w, k)}
                                   : k \in DOMAIN w}
    BY DEF Lock, Required, ArmsAt
  <2> QED
    BY <1>1, <1>2, <2>1
<1>4. PICK k \in ContractMessages : \E p \in Oneofs(w, k) :
        <<m, o, ArmsAt(u, m, o), Required(u, m, o)>> = <<k, p, ArmsAt(w, k, p), Required(w, k, p)>>
  BY <1>3
<1>5. PICK p \in Oneofs(w, k) :
        <<m, o, ArmsAt(u, m, o), Required(u, m, o)>> = <<k, p, ArmsAt(w, k, p), Required(w, k, p)>>
  BY <1>4
<1>6. m = k /\ o = p /\ ArmsAt(u, m, o) = ArmsAt(w, k, p) /\ Required(u, m, o) = Required(w, k, p)
  BY <1>5
<1> QED
  BY <1>6

LEMMA ArmStands ==
    ASSUME NEW u, NEW w, IsSchema(u), IsSchema(w), Lock(u).oneofs = Lock(w).oneofs,
           NEW m \in ContractMessages
    PROVE  \A f \in Fields(u, m) : \A g \in Fields(w, m) :
             f.number = g.number /\ InDeclaredOneof(f) => g.oneof = f.oneof
<1> SUFFICES ASSUME NEW f \in Fields(u, m), NEW g \in Fields(w, m), f.number = g.number, InDeclaredOneof(f)
             PROVE  g.oneof = f.oneof
  OBVIOUS
<1>1. f.oneof \in Oneofs(u, m)
  BY DEF Oneofs, InDeclaredOneof
<1>2. f.number \in ArmsAt(u, m, f.oneof)
  BY DEF Arms, ArmsAt
<1>3. f.number \in ArmsAt(w, m, f.oneof)
  <2>1. ArmsAt(u, m, f.oneof) = ArmsAt(w, m, f.oneof)
    BY <1>1, OneofStands
  <2> QED
    BY <1>2, <2>1
<1>4. PICK h \in Fields(w, m) : h.oneof = f.oneof /\ h.number = f.number
  BY <1>3 DEF Arms, ArmsAt
<1>5. h = g
  <2>1. h \in w[m].fields /\ g \in w[m].fields /\ h.number = g.number
    BY <1>4 DEF Fields
  <2>2. IsMessage(w[m])
    BY DEF IsSchema
  <2> QED
    BY <2>1, <2>2 DEF IsMessage
<1> QED
  BY <1>4, <1>5

LEMMA OneofAgrees ==
    ASSUME NEW u, NEW w, IsSchema(u), IsSchema(w), Lock(u).oneofs = Lock(w).oneofs
    PROVE  \A m \in ContractMessages : \A f \in Fields(u, m) : \A g \in Fields(w, m) :
             f.number = g.number => f.oneof = g.oneof
<1> SUFFICES ASSUME NEW m \in ContractMessages, NEW f \in Fields(u, m), NEW g \in Fields(w, m),
                    f.number = g.number
             PROVE  f.oneof = g.oneof
  OBVIOUS
<1>1. \A f1 \in Fields(u, m) : \A g1 \in Fields(w, m) :
             f1.number = g1.number /\ InDeclaredOneof(f1) => g1.oneof = f1.oneof
  BY ArmStands
<1>2. \A f1 \in Fields(w, m) : \A g1 \in Fields(u, m) :
             f1.number = g1.number /\ InDeclaredOneof(f1) => g1.oneof = f1.oneof
  BY ArmStands
<1>3. CASE ~InDeclaredOneof(f) /\ ~InDeclaredOneof(g)
  BY <1>3 DEF InDeclaredOneof
<1> QED
  BY <1>1, <1>2, <1>3

(* The lock tells apart all that differ otherwise. *)
LEMMA LockSame ==
    ASSUME NEW s, NEW t, IsSchema(s), IsSchema(t), Lock(s) = Lock(t)
    PROVE  Same(s, t)
<1>1. DOMAIN s = ContractMessages /\ DOMAIN t = ContractMessages
  BY DEF IsSchema
<1>2. /\ [m \in DOMAIN s |-> s[m].opts] = [m \in DOMAIN t |-> t[m].opts]
      /\ Lock(s).oneofs = Lock(t).oneofs
      /\ Lock(s).fields = Lock(t).fields
      /\ Lock(s).annotations = Lock(t).annotations
  BY DEF Lock, Rendered
<1> DEFINE Line(f) == <<f.number, f.name, f.kind, f.card, SupportsPresence(f)>>
           Numbers(u, m) == {f.number : f \in Fields(u, m)}
           At(u, m, n) == CHOOSE f \in Fields(u, m) : f.number = n
<1>3. ASSUME NEW m \in ContractMessages
      PROVE  /\ s[m].opts = t[m].opts
             /\ {Line(f) : f \in Fields(s, m)} = {Line(f) : f \in Fields(t, m)}
             /\ Numbers(s, m) = Numbers(t, m)
             /\ \A n \in Numbers(s, m) : At(s, m, n).opts = At(t, m, n).opts
  <2>1. s[m].opts = t[m].opts
    <3>1. [k \in DOMAIN s |-> s[k].opts][m] = [k \in DOMAIN t |-> t[k].opts][m]
      BY <1>2
    <3> QED
      BY <1>1, <3>1
  <2>2. Lock(s).fields[m] = {Line(f) : f \in Fields(s, m)} /\ Lock(t).fields[m] = {Line(f) : f \in Fields(t, m)}
    BY <1>1 DEF Lock
  <2>3. /\ Lock(s).annotations[m] = [n \in Numbers(s, m) |-> At(s, m, n).opts]
        /\ Lock(t).annotations[m] = [n \in Numbers(t, m) |-> At(t, m, n).opts]
    BY <1>1 DEF Lock, Rendered
  <2>4. [n \in Numbers(s, m) |-> At(s, m, n).opts] = [n \in Numbers(t, m) |-> At(t, m, n).opts]
    BY <1>2, <2>3
  <2>5. Numbers(s, m) = Numbers(t, m)
    <3> HIDE DEF Numbers, At
    <3>1. DOMAIN [n \in Numbers(s, m) |-> At(s, m, n).opts] = DOMAIN [n \in Numbers(t, m) |-> At(t, m, n).opts]
      BY <2>4
    <3> QED
      BY <3>1
  <2>6. \A n \in Numbers(s, m) : At(s, m, n).opts = At(t, m, n).opts
    <3> HIDE DEF Numbers, At
    <3>1. \A n \in Numbers(s, m) : [k \in Numbers(s, m) |-> At(s, m, k).opts][n]
                                     = [k \in Numbers(t, m) |-> At(t, m, k).opts][n]
      BY <2>4
    <3> QED
      BY <2>5, <3>1
  <2> QED
    BY <1>2, <2>1, <2>2, <2>5, <2>6
<1>4. ASSUME NEW u, IsSchema(u), NEW m \in ContractMessages, NEW f \in Fields(u, m)
      PROVE  At(u, m, f.number) = f /\ f.number \in Numbers(u, m)
  BY <1>4 DEF IsSchema, IsMessage, Fields
<1>5. Lock(s).oneofs = Lock(t).oneofs
  BY <1>2
<1>6. \A m \in ContractMessages : \A f \in Fields(s, m) : \A g \in Fields(t, m) :
        f.number = g.number => f.oneof = g.oneof
  BY <1>5, OneofAgrees
<1>7. ASSUME NEW m \in ContractMessages, NEW f \in Fields(s, m), NEW g \in Fields(t, m), Line(f) = Line(g)
      PROVE  Alike(f, g)
  <2>1. /\ f.number = g.number /\ f.name = g.name /\ f.kind = g.kind /\ f.card = g.card
        /\ SupportsPresence(f) = SupportsPresence(g)
    BY <1>7
  <2>2. f.opts = g.opts
    <3>1. f.number \in Numbers(s, m) /\ At(s, m, f.number) = f /\ At(t, m, f.number) = g
      BY <1>4, <2>1
    <3> HIDE DEF At, Numbers, Line
    <3> QED
      BY <1>3, <3>1
  <2>3. f.oneof = g.oneof
    BY <1>6, <2>1
  <2> QED
    BY <2>1, <2>2, <2>3 DEF Alike
<1>8. ASSUME NEW m \in ContractMessages
      PROVE  /\ \A f \in Fields(s, m) : \E g \in Fields(t, m) : Line(f) = Line(g)
             /\ \A g \in Fields(t, m) : \E f \in Fields(s, m) : Line(f) = Line(g)
  <2>1. {Line(f) : f \in Fields(s, m)} = {Line(f) : f \in Fields(t, m)}
    BY <1>3
  <2> HIDE DEF Line
  <2> QED
    BY <2>1
<1> HIDE DEF Line
<1>9. \A m \in ContractMessages :
         /\ \A f \in Fields(s, m) : \E g \in Fields(t, m) : Alike(f, g)
         /\ \A g \in Fields(t, m) : \E f \in Fields(s, m) : Alike(f, g)
  BY <1>7, <1>8
<1>10. \A m \in ContractMessages : \A o \in Oneofs(s, m) : Required(s, m, o) <=> Required(t, m, o)
  BY <1>2, OneofStands
<1> QED
  BY <1>1, <1>3, <1>9, <1>10 DEF Same
-----------------------------------------------------------------------------
(* What the compiler writes depends on nothing the lock does not show:     *)
(* each part of it, for two schemas that are the same.                     *)
LEMMA NestingSame ==
    ASSUME NEW s, NEW t, Same(s, t)
    PROVE  Nesting(s) = Nesting(t) /\ RootMessages(s) = RootMessages(t)
<1>1. DOMAIN s = ContractMessages /\ DOMAIN t = ContractMessages
  BY DEF Same
<1>2. ASSUME NEW m \in ContractMessages PROVE Nested(s, m) = Nested(t, m)
  <2>1. /\ \A f \in Fields(s, m) : \E g \in Fields(t, m) : f.kind = g.kind
        /\ \A g \in Fields(t, m) : \E f \in Fields(s, m) : f.kind = g.kind
    BY DEF Same, Alike
  <2> QED
    BY <1>1, <2>1 DEF Nested
<1> QED
  BY <1>1, <1>2 DEF Nesting, RootMessages

LEMMA HasSame ==
    ASSUME NEW f, NEW g, Alike(f, g)
    PROVE  /\ \A o : Has(f, o) <=> Has(g, o)
           /\ \A o : Limit(f, o) = Limit(g, o)
           /\ \A o, check : If(f, o, check) = If(g, o, check)
           /\ Declared(f) = Declared(g) /\ (IsList(f) <=> IsList(g)) /\ (IsMap(f) <=> IsMap(g))
           /\ WireShape(f) = WireShape(g) /\ (InDeclaredOneof(f) <=> InDeclaredOneof(g))
           /\ (FieldRefused(f) <=> FieldRefused(g))
<1>1. \A o : Has(f, o) <=> Has(g, o)
  BY DEF Alike, Has
<1>2. (IsList(f) <=> IsList(g)) /\ (IsMap(f) <=> IsMap(g)) /\ (InDeclaredOneof(f) <=> InDeclaredOneof(g))
  BY DEF Alike, IsList, IsMap, InDeclaredOneof
<1>3. \A o : Limit(f, o) = Limit(g, o)
  BY <1>1 DEF Alike, Limit
<1>4. \A o, check : If(f, o, check) = If(g, o, check)
  BY <1>1 DEF If
<1>5. Declared(f) = Declared(g)
  BY <1>1 DEF Declared
<1>6. WireShape(f) = WireShape(g)
  BY <1>2 DEF Alike, WireShape
<1>7. FieldRefused(f) <=> FieldRefused(g)
  BY <1>1, <1>2 DEF Alike, FieldRefused
<1> QED
  BY <1>1, <1>2, <1>3, <1>4, <1>5, <1>6, <1>7

(* The numbers and kinds of some of the fields of a message. *)
VisibleNumbers(u, m) == {g.number : g \in {h \in Fields(u, m) : ~Has(h, "collection_metadata")}}
KeyNumbers(u, m, keys) == {g.number : g \in {h \in Fields(u, m) : h.name \in keys}}
KeyKinds(u, m, keys) == {g.kind : g \in {h \in Fields(u, m) : h.name \in keys}}

LEMMA NumbersSame ==
    ASSUME NEW s, NEW t, Same(s, t), NEW m \in ContractMessages
    PROVE  /\ VisibleNumbers(s, m) = VisibleNumbers(t, m)
           /\ \A keys : /\ KeyNumbers(s, m, keys) = KeyNumbers(t, m, keys)
                        /\ KeyKinds(s, m, keys) = KeyKinds(t, m, keys)
<1>1. ASSUME NEW u, NEW w, Same(u, w)
      PROVE  \A f \in Fields(u, m) : \E g \in Fields(w, m) :
                /\ f.number = g.number /\ f.name = g.name /\ f.kind = g.kind
                /\ Has(f, "collection_metadata") <=> Has(g, "collection_metadata")
  BY <1>1, HasSame DEF Same, Alike
<1>2. Same(t, s)
  BY SameTurns
<1>3. /\ \A f \in Fields(s, m) : \E g \in Fields(t, m) :
            /\ f.number = g.number /\ f.name = g.name /\ f.kind = g.kind
            /\ Has(f, "collection_metadata") <=> Has(g, "collection_metadata")
      /\ \A f \in Fields(t, m) : \E g \in Fields(s, m) :
            /\ f.number = g.number /\ f.name = g.name /\ f.kind = g.kind
            /\ Has(f, "collection_metadata") <=> Has(g, "collection_metadata")
  BY <1>1, <1>2
<1>4. VisibleNumbers(s, m) = VisibleNumbers(t, m)
  BY <1>3 DEF VisibleNumbers
<1>5. ASSUME NEW keys PROVE KeyNumbers(s, m, keys) = KeyNumbers(t, m, keys)
  BY <1>3 DEF KeyNumbers
<1>6. ASSUME NEW keys PROVE KeyKinds(s, m, keys) = KeyKinds(t, m, keys)
  BY <1>3 DEF KeyKinds
<1> QED
  BY <1>4, <1>5, <1>6

LEMMA ScanSame ==
    ASSUME NEW s, NEW t, Same(s, t), NEW f, NEW g, Alike(f, g), f.kind \in ContractMessages
    PROVE  AdjacentScanSound(s, f) <=> AdjacentScanSound(t, g)
<1>1. f.kind = g.kind /\ f.opts = g.opts /\ (Has(f, "unordered") <=> Has(g, "unordered"))
  BY HasSame DEF Alike
<1> DEFINE keys == Range(f.opts["unique_by"])
           Visible(u) == VisibleNumbers(u, f.kind)
           Keys(u) == KeyNumbers(u, f.kind, keys)
           Leading(u) == \A k \in Keys(u), v \in Visible(u) : k \in Visible(u) /\ (v < k => v \in Keys(u))
<1>2. Visible(s) = Visible(t) /\ Keys(s) = Keys(t)
  BY NumbersSame
<1>3. (AdjacentScanSound(s, f) <=> Has(f, "unordered") /\ Leading(s))
        /\ (AdjacentScanSound(t, g) <=> Has(g, "unordered") /\ Leading(t))
  BY <1>1 DEF AdjacentScanSound, VisibleNumbers, KeyNumbers
<1>4. Leading(s) <=> Leading(t)
  <2> HIDE DEF Visible, Keys
  <2> QED
    BY <1>2
<1> QED
  BY <1>1, <1>3, <1>4

LEMMA PlanSame ==
    ASSUME NEW s, NEW t, Same(s, t), NEW f, NEW g, Alike(f, g), ~FieldRefused(f),
           f.kind \in MessageKinds => f.kind \in ContractMessages
    PROVE  PlanField(s, f) = PlanField(t, g)
<1>1. /\ f.name = g.name /\ f.number = g.number /\ f.kind = g.kind /\ f.opts = g.opts
      /\ \A o : Has(f, o) <=> Has(g, o)
      /\ \A o : Limit(f, o) = Limit(g, o)
      /\ \A o, check : If(f, o, check) = If(g, o, check)
      /\ Declared(f) = Declared(g) /\ (IsList(f) <=> IsList(g))
  BY HasSame DEF Alike
<1>2. Has(f, "collection_metadata") = Has(g, "collection_metadata")
  BY <1>1 DEF Has
<1>3. Has(f, "unordered") = Has(g, "unordered")
  BY <1>1 DEF Has
<1>4. /\ StringList(f) = StringList(g) /\ String(f) = String(g) /\ Copied(f) = Copied(g)
      /\ Enumeration(f) = Enumeration(g) /\ MessageField(f) = MessageField(g)
  <2>1. StringList(f) = StringList(g)
    <3> DEFINE Checks(h) == If(h, "max_items", <<"max_items", Limit(h, "max_items")>>)
                              \o If(h, "non_empty", <<"each_non_empty">>)
                              \o If(h, "max_len", <<"each_max_len", Limit(h, "max_len")>>)
    <3>1. Checks(f) = Checks(g)
      <4> DEFINE items(h) == If(h, "max_items", <<"max_items", Limit(h, "max_items")>>)
                 empty(h) == If(h, "non_empty", <<"each_non_empty">>)
                 length(h) == If(h, "max_len", <<"each_max_len", Limit(h, "max_len")>>)
      <4>1. items(f) = items(g) /\ empty(f) = empty(g) /\ length(f) = length(g)
        BY <1>1
      <4>2. \A h : Checks(h) = items(h) \o empty(h) \o length(h)
        OBVIOUS
      <4> HIDE DEF items, empty, length, Checks
      <4> QED
        BY <4>1, <4>2
    <3>2. \A h : StringList(h) = Planned(h, "vec", "vec", Has(h, "unordered"), Checks(h))
      BY DEF StringList
    <3> HIDE DEF Checks
    <3> QED
      BY <1>1, <1>2, <1>3, <3>1, <3>2 DEF Planned
  <2>2. String(f) = String(g)
    BY <1>1, <1>2 DEF String, Planned
  <2>3. Copied(f) = Copied(g) /\ MessageField(f) = MessageField(g)
    BY <1>1, <1>2 DEF Copied, MessageField, Planned
  <2>4. Enumeration(f) = Enumeration(g)
    BY <1>1, <1>2 DEF Enumeration, Planned
  <2> QED
    BY <2>1, <2>2, <2>3, <2>4
<1>5. f.kind \in MessageKinds => MessageList(s, f) = MessageList(t, g)
  <2> SUFFICES ASSUME f.kind \in MessageKinds PROVE MessageList(s, f) = MessageList(t, g)
    OBVIOUS
  <2>1. AdjacentScanSound(s, f) <=> AdjacentScanSound(t, g)
    BY ScanSame
  <2> QED
    BY <1>1, <1>2, <1>3, <2>1 DEF MessageList, Planned
<1>6. f.kind \in {"string", "bool", "u64"} \cup EnumKinds \cup MessageKinds
  BY DEF FieldRefused
<1> QED
  BY <1>1, <1>4, <1>5, <1>6 DEF PlanField

(* What the checks before the first file make sure of. *)
LEMMA GateIs ==
    ASSUME NEW s, NEW v, DOMAIN s = ContractMessages, Gate(s, v) = "ok"
    PROVE  /\ Resolve(v) = "ok"
           /\ \A m \in ContractMessages :
                /\ \A f \in Fields(s, m) : f.kind \in MessageKinds => f.kind \in ContractMessages
                /\ \A f \in Outside(s, m) : ~FieldRefused(f)
<1>1. Resolve(v) = "ok" /\ Violations(s) = {} /\ ~ModelRefused(s)
  BY DEF Gate
<1>2. ASSUME NEW m \in ContractMessages, NEW f \in Fields(s, m), f.kind \in MessageKinds
      PROVE  f.kind \in ContractMessages
  <2>1. CheckMessage(s, m, m \in HashReachable(s), m \in SelfReferential(s)) = {}
    BY <1>1 DEF Violations
  <2> DEFINE reasons == (IF f.name \in Keywords THEN {"UnusableName"} ELSE {}) \cup CheckPresence(f)
             others == CheckApplicability(s, f, m \in HashReachable(s))
  <2>2. Plain(reasons) \cup others = {}
    <3>1. {<<f.name, r>> : r \in Plain(reasons) \cup others}
            \subseteq CheckMessage(s, m, m \in HashReachable(s), m \in SelfReferential(s))
      BY DEF CheckMessage
    <3> HIDE DEF reasons, others
    <3> QED
      BY <2>1, <3>1
  <2>3. CheckPresence(f) = {}
    <3>1. \A S : Plain(S) = {} => S = {}
      BY Zenon DEF Plain
    <3>2. reasons = {}
      <4> HIDE DEF reasons
      <4> QED
        BY <2>2, <3>1
    <3> QED
      BY <3>2
  <2>4. CASE f.kind \in ForeignMessages
    <3>1. CheckPresence(f) = {"ForeignMessageType"}
      BY <2>4 DEF CheckPresence
    <3> QED
      BY <2>3, <3>1
  <2> QED
    BY <1>2, <2>4 DEF MessageKinds
<1>3. \A m \in ContractMessages : \A f \in Outside(s, m) : ~FieldRefused(f)
  BY <1>1 DEF ModelRefused
<1> QED
  BY <1>1, <1>2, <1>3

LEMMA OrdSame ==
    ASSUME NEW s, NEW t, Same(s, t)
    PROVE  OrdNeeded(s) = OrdNeeded(t)
<1> DEFINE keyed(u, f) ==
              IF Has(f, "unique_by") /\ f.kind \in DOMAIN u
              THEN KeyKinds(u, f.kind, Range(f.opts["unique_by"])) \cap DOMAIN u ELSE {}
           Keyed(u, m) == UNION {keyed(u, f) : f \in Fields(u, m)}
           All(u) == UNION {Keyed(u, m) : m \in DOMAIN u}
<1>1. \A u : OrdNeeded(u) = Closure(Nesting(u), All(u))
  BY DEF OrdNeeded, KeyKinds
<1>2. DOMAIN s = ContractMessages /\ DOMAIN t = ContractMessages
  BY DEF Same
<1>3. ASSUME NEW f, NEW g, Alike(f, g)
      PROVE  keyed(s, f) = keyed(t, g)
  <2>1. f.kind = g.kind /\ f.opts = g.opts /\ (Has(f, "unique_by") <=> Has(g, "unique_by"))
    BY <1>3, HasSame DEF Alike
  <2>2. \A m \in ContractMessages : \A keys : KeyKinds(s, m, keys) = KeyKinds(t, m, keys)
    BY NumbersSame
  <2> QED
    BY <1>2, <2>1, <2>2
<1>4. ASSUME NEW m \in ContractMessages
      PROVE  Keyed(s, m) = Keyed(t, m)
  <2>1. /\ \A f \in Fields(s, m) : \E g \in Fields(t, m) : keyed(s, f) = keyed(t, g)
        /\ \A g \in Fields(t, m) : \E f \in Fields(s, m) : keyed(s, f) = keyed(t, g)
    <3> HIDE DEF keyed
    <3> QED
      BY <1>3 DEF Same
  <2> HIDE DEF keyed
  <2> QED
    BY <2>1
<1>5. All(s) = All(t)
  <2> HIDE DEF Keyed
  <2> QED
    BY <1>2, <1>4
<1> HIDE DEF All
<1> QED
  BY <1>1, <1>5, NestingSame

LEMMA OneofSame ==
    ASSUME NEW s, NEW t, Same(s, t), NEW m \in ContractMessages, NEW o \in Oneofs(s, m)
    PROVE  PlanOneof(s, m, o) = PlanOneof(t, m, o)
<1>1. /\ \A f \in Arms(s, m, o) : \E g \in Arms(t, m, o) : f.number = g.number /\ f.name = g.name /\ f.kind = g.kind
      /\ \A g \in Arms(t, m, o) : \E f \in Arms(s, m, o) : f.number = g.number /\ f.name = g.name /\ f.kind = g.kind
  BY DEF Same, Alike, Arms
<1>2. {f.number : f \in Arms(s, m, o)} = {f.number : f \in Arms(t, m, o)}
  BY <1>1
<1>3. {<<f.number, f.name, f.kind>> : f \in Arms(s, m, o)} = {<<f.number, f.name, f.kind>> : f \in Arms(t, m, o)}
  BY <1>1
<1>4. ("required" \in DOMAIN s[m].oneofs[o]) <=> ("required" \in DOMAIN t[m].oneofs[o])
  BY DEF Same, Required
<1> QED
  BY <1>2, <1>3, <1>4 DEF PlanOneof

(* The fields and oneofs of a message, and what is written of it. *)
LEMMA OutsideSame ==
    ASSUME NEW s, NEW t, Same(s, t), NEW m \in ContractMessages
    PROVE  /\ \A f \in Outside(s, m) : \E g \in Outside(t, m) : Alike(f, g)
           /\ \A g \in Outside(t, m) : \E f \in Outside(s, m) : Alike(f, g)
<1>1. \A f, g : Alike(f, g) => (InDeclaredOneof(f) <=> InDeclaredOneof(g))
  BY HasSame
<1> QED
  BY <1>1 DEF Same, Outside

LEMMA ModelSame ==
    ASSUME NEW s, NEW t, Same(s, t), NEW v, Gate(s, v) = "ok"
    PROVE  Model(s) = Model(t)
<1>1. DOMAIN s = ContractMessages /\ DOMAIN t = ContractMessages
  BY DEF Same
<1>2. ASSUME NEW m \in ContractMessages PROVE MessageItems(s, m) = MessageItems(t, m)
  <2>1. FieldPlans(s, m) = FieldPlans(t, m)
    <3>1. ASSUME NEW f \in Outside(s, m), NEW g, Alike(f, g) PROVE PlanField(s, f) = PlanField(t, g)
      <4>1. f \in Fields(s, m)
        BY DEF Outside
      <4>2. ~FieldRefused(f) /\ (f.kind \in MessageKinds => f.kind \in ContractMessages)
        BY <1>1, <4>1, GateIs
      <4> QED
        BY <3>1, <4>2, PlanSame
    <3>2. /\ \A f \in Outside(s, m) : \E g \in Outside(t, m) : PlanField(s, f) = PlanField(t, g)
          /\ \A g \in Outside(t, m) : \E f \in Outside(s, m) : PlanField(s, f) = PlanField(t, g)
      BY <3>1, OutsideSame
    <3> QED
      BY <3>2 DEF FieldPlans
  <2>2. {PlanOneof(s, m, o) : o \in Oneofs(s, m)} = {PlanOneof(t, m, o) : o \in Oneofs(t, m)}
    <3>1. Oneofs(s, m) = Oneofs(t, m)
      BY OneofsSame
    <3>2. \A o \in Oneofs(s, m) : PlanOneof(s, m, o) = PlanOneof(t, m, o)
      BY OneofSame
    <3> QED
      BY <3>1, <3>2
  <2>3. s[m].opts = t[m].opts
    BY DEF Same
  <2>4. OrdNeeded(s) = OrdNeeded(t) /\ RootMessages(s) = RootMessages(t)
    BY OrdSame, NestingSame
  <2>5. CanonicalPlans(s, m) = CanonicalPlans(t, m)
    BY <2>1 DEF CanonicalPlans
  <2> QED
    BY <2>1, <2>2, <2>3, <2>4, <2>5 DEF MessageItems
<1> QED
  BY <1>1, <1>2 DEF Model

LEMMA WireSame ==
    ASSUME NEW s, NEW t, Same(s, t)
    PROVE  Wire(s) = Wire(t)
<1> DEFINE Line(f) == <<f.number, f.name, f.kind, WireShape(f), f.oneof>>
<1>1. \A f, g : Alike(f, g) => Line(f) = Line(g)
  BY HasSame DEF Alike
<1>2. ASSUME NEW m \in ContractMessages
      PROVE  {Line(f) : f \in Fields(s, m)} = {Line(f) : f \in Fields(t, m)}
  <2>1. /\ \A f \in Fields(s, m) : \E g \in Fields(t, m) : Line(f) = Line(g)
        /\ \A g \in Fields(t, m) : \E f \in Fields(s, m) : Line(f) = Line(g)
    <3> HIDE DEF Line
    <3> QED
      BY <1>1 DEF Same
  <2> HIDE DEF Line
  <2> QED
    BY <2>1
<1>3. DOMAIN s = ContractMessages /\ DOMAIN t = ContractMessages
  BY DEF Same
<1>4. \A u : Wire(u) = [m \in DOMAIN u |-> {Line(f) : f \in Fields(u, m)}]
  BY DEF Wire
<1> HIDE DEF Line
<1> QED
  BY <1>2, <1>3, <1>4

LEMMA LimitsSame ==
    ASSUME NEW s, NEW t, Same(s, t)
    PROVE  Limits(s) = Limits(t)
<1> DEFINE Depth(u, m) == {<<m, "", u[m].opts["max_depth"], "MAX_DEPTH">> : x \in DOMAIN u[m].opts \cap {"max_depth"}}
           Length(u, m) == {<<m, f.name, f.opts["max_len"], "MAX_LEN">> : f \in {g \in Fields(u, m) : Has(g, "max_len")}}
           Items(u, m) == {<<m, f.name, f.opts["max_items"], "MAX_ITEMS">> : f \in {g \in Fields(u, m) : Has(g, "max_items")}}
<1>1. DOMAIN s = ContractMessages /\ DOMAIN t = ContractMessages
  BY DEF Same
<1>2. ASSUME NEW m \in ContractMessages
      PROVE  Depth(s, m) = Depth(t, m) /\ Length(s, m) = Length(t, m) /\ Items(s, m) = Items(t, m)
  <2>1. s[m].opts = t[m].opts
    BY DEF Same
  <2>2. \A f, g : Alike(f, g) => f.name = g.name /\ f.opts = g.opts /\ \A o : Has(f, o) <=> Has(g, o)
    BY HasSame DEF Alike
  <2>3. /\ \A f \in Fields(s, m) : \E g \in Fields(t, m) : f.name = g.name /\ f.opts = g.opts /\ \A o : Has(f, o) <=> Has(g, o)
        /\ \A g \in Fields(t, m) : \E f \in Fields(s, m) : f.name = g.name /\ f.opts = g.opts /\ \A o : Has(f, o) <=> Has(g, o)
    BY <2>2 DEF Same
  <2>4. Length(s, m) = Length(t, m)
    BY <2>3
  <2>5. Items(s, m) = Items(t, m)
    BY <2>3
  <2>6. Depth(s, m) = Depth(t, m)
    BY Zenon, <2>1
  <2> QED
    BY <2>4, <2>5, <2>6
<1>3. \A u : Limits(u) = UNION {Depth(u, m) \cup Length(u, m) \cup Items(u, m) : m \in DOMAIN u}
  BY Zenon DEF Limits
<1> HIDE DEF Depth, Length, Items
<1> QED
  BY <1>1, <1>2, <1>3

(* An edit that changes what is on the wire, what is bounded or what the   *)
(* model does changes a line of the contract lock (Snapshot::render): two  *)
(* schemas of one lock compile to the same code.                           *)
THEOREM LockIsTheContract == Spec => LockShowsIt
<1>1. ASSUME NEW s, NEW t, NEW v, NEW w, IsSchema(s), IsSchema(t),
             Compile(s, v).gate = "ok", Compile(t, w).gate = "ok",
             Compile(s, v).files.lock = Compile(t, w).files.lock
      PROVE  /\ Compile(s, v).files.wire = Compile(t, w).files.wire
             /\ Compile(s, v).files.limits = Compile(t, w).files.limits
             /\ Compile(s, v).files.model = Compile(t, w).files.model
  <2>1. \A u, x : /\ Compile(u, x).gate = Gate(Descriptors(u, x), x)
                  /\ Compile(u, x).gate = "ok" => Compile(u, x).files = Rendering(Descriptors(u, x))
    BY DEF Compile
  <2>2. \A u, x : Gate(u, x) = "ok" => Resolve(x) = "ok"
    BY DEF Gate
  <2>3. Descriptors(s, v) = s /\ Descriptors(t, w) = t
    BY <1>1, <2>1, <2>2, SeenIsWritten
  <2>4. Gate(s, v) = "ok" /\ Compile(s, v).files = Rendering(s) /\ Compile(t, w).files = Rendering(t)
    BY <1>1, <2>1, <2>3
  <2>5. Lock(s) = Lock(t)
    BY <1>1, <2>4 DEF Rendering
  <2>6. Same(s, t)
    BY <1>1, <2>5, LockSame
  <2>7. Wire(s) = Wire(t) /\ Limits(s) = Limits(t) /\ Model(s) = Model(t)
    BY <2>4, <2>6, WireSame, LimitsSame, ModelSame
  <2> QED
    BY <2>4, <2>7 DEF Rendering
<1>2. Tree /\ Tree' /\ IsSchema(schema) /\ IsSchema(schema)' /\ [Next]_vars =>
        [edits' # edits /\ output.gate = "ok" /\ output'.gate = "ok"
           => (Enforced' # Enforced => output.files.lock' # output.files.lock)]_vars
  BY <1>1 DEF Tree, Enforced
<1> QED
  BY TreeHolds, SchemaHolds, <1>2, PTL DEF Spec, LockShowsIt
-----------------------------------------------------------------------------
(* The least of some numbers. *)
LEMMA LeastOf ==
    ASSUME NEW S \in SUBSET Nat, S # {}
    PROVE  Min(S) \in S /\ \A y \in S : Min(S) <= y
<1>1. PICK x \in S : \A y \in S : ~(<<y, x>> \in OpToRel(<, Nat))
  BY WFMin, NatLessThanWellFounded
<1>2. \A y \in S : x <= y
  <2> TAKE y \in S
  <2>1. x \in Nat /\ y \in Nat
    OBVIOUS
  <2>2. CASE y < x
    <3>1. <<y, x>> \in OpToRel(<, Nat)
      BY <2>1, <2>2 DEF OpToRel
    <3> QED
      BY <1>1, <3>1
  <2> QED
    BY <2>1, <2>2
<1> QED
  BY <1>2 DEF Min

(* What comes before each element puts a set in order. *)
Orderly(S, before) ==
    /\ \A x \in S : before[x] \subseteq S /\ x \notin before[x]
    /\ \A x, y \in S : x # y => x \in before[y] \/ y \in before[x]
    /\ \A x, y \in S : x \in before[y] => before[x] \subseteq before[y]

(* Ascending then lists each element once, after those that come before.   *)
LEMMA AscendingIs ==
    ASSUME NEW S, IsFiniteSet(S), NEW before, Orderly(S, before)
    PROVE  LET N == Cardinality(S)
               all == Ascending(S, before)
           IN  /\ N \in Nat
               /\ all \in [1..N -> S]
               /\ \A x \in S : \E n \in 1..N : all[n] = x
               /\ \A i, j \in 1..N : (i < j <=> all[i] \in before[all[j]]) /\ (all[i] = all[j] => i = j)
<1> DEFINE N == Cardinality(S)
           rank == [x \in S |-> Cardinality(before[x])]
           placed == {<<Cardinality(before[x]), x>> : x \in S}
           all == Ascending(S, before)
<1>1. N \in Nat
  BY FS_CardinalityType
<1>2. \A x \in S : IsFiniteSet(before[x]) /\ rank[x] \in 0..(N - 1)
  <2> SUFFICES ASSUME NEW x \in S PROVE IsFiniteSet(before[x]) /\ rank[x] \in 0..(N - 1)
    OBVIOUS
  <2>1. before[x] \in SUBSET S /\ x \notin before[x]
    BY DEF Orderly
  <2>2. IsFiniteSet(before[x]) /\ Cardinality(before[x]) <= N /\ (N = Cardinality(before[x]) => S = before[x])
    BY <2>1, FS_Subset
  <2>3. Cardinality(before[x]) \in Nat /\ N # Cardinality(before[x])
    BY <2>1, <2>2, FS_CardinalityType
  <2> QED
    BY <1>1, <2>2, <2>3
<1>3. \A x, y \in S : x \in before[y] => rank[x] < rank[y]
  <2> SUFFICES ASSUME NEW x \in S, NEW y \in S, x \in before[y] PROVE rank[x] < rank[y]
    OBVIOUS
  <2>1. before[x] \in SUBSET before[y] /\ before[x] # before[y]
    BY DEF Orderly
  <2>2. Cardinality(before[x]) <= Cardinality(before[y])
          /\ (Cardinality(before[y]) = Cardinality(before[x]) => before[y] = before[x])
    BY <1>2, <2>1, FS_Subset
  <2>3. rank[x] \in Nat /\ rank[y] \in Nat
    BY <1>1, <1>2
  <2> QED
    BY <2>1, <2>2, <2>3
<1>4. \A x, y \in S : rank[x] = rank[y] => x = y
  <2> SUFFICES ASSUME NEW x \in S, NEW y \in S, x # y PROVE rank[x] # rank[y]
    OBVIOUS
  <2>1. x \in before[y] \/ y \in before[x]
    BY DEF Orderly
  <2>2. rank[x] < rank[y] \/ rank[y] < rank[x]
    BY <1>3, <2>1
  <2> QED
    BY <1>1, <1>2, <2>2
<1>5. \A n \in 1..N : \E x \in S : rank[x] = n - 1
  <2>1. rank \in [S -> 0..(N - 1)]
    BY <1>2
  <2>2. rank \in Injection(S, 0..(N - 1))
    BY <1>4, <2>1 DEF Injection, IsInjective
  <2>3. IsFiniteSet(0..(N - 1)) /\ Cardinality(0..(N - 1)) = N
    BY <1>1, FS_Interval
  <2>4. rank \in Surjection(S, 0..(N - 1))
    BY <2>2, <2>3, FS_Injection
  <2>5. \A k \in 0..(N - 1) : \E x \in S : rank[x] = k
    BY <2>4 DEF Surjection
  <2> QED
    BY <1>1, <2>5
<1>6. \A n \in 1..N : all[n] \in S /\ rank[all[n]] = n - 1
  <2> SUFFICES ASSUME NEW n \in 1..N PROVE all[n] \in S /\ rank[all[n]] = n - 1
    OBVIOUS
  <2>1. PICK x \in S : rank[x] = n - 1
    BY <1>5
  <2>2. <<Cardinality(before[x]), x>> \in placed /\ Cardinality(before[x]) = n - 1
    BY <2>1
  <2> DEFINE place == CHOOSE p \in placed : p[1] = n - 1
  <2>3. place \in placed /\ place[1] = n - 1
    <3>1. \E p \in placed : p[1] = n - 1
      BY <2>2
    <3> HIDE DEF placed
    <3> QED
      BY <3>1
  <2>4. all[n] = place[2]
    BY DEF Ascending
  <2> HIDE DEF place
  <2>5. PICK y \in S : place = <<Cardinality(before[y]), y>>
    BY <2>3
  <2> QED
    BY <2>3, <2>4, <2>5
<1>7. all \in [1..N -> S]
  <2>1. all = [n \in 1..N |-> all[n]]
    BY DEF Ascending
  <2> HIDE DEF all
  <2> QED
    BY <1>6, <2>1
<1> HIDE DEF rank, all, N
<1>8. \A x \in S : \E n \in 1..N : all[n] = x
  <2> TAKE x \in S
  <2>1. rank[x] + 1 \in 1..N
    BY <1>1, <1>2
  <2>2. all[rank[x] + 1] = x
    BY <1>1, <1>2, <1>4, <1>6, <2>1
  <2> QED
    BY <2>1, <2>2
<1>9. \A i, j \in 1..N : (i < j <=> all[i] \in before[all[j]]) /\ (all[i] = all[j] => i = j)
  <2> SUFFICES ASSUME NEW i \in 1..N, NEW j \in 1..N
               PROVE  (i < j <=> all[i] \in before[all[j]]) /\ (all[i] = all[j] => i = j)
    OBVIOUS
  <2>1. all[i] \in S /\ all[j] \in S /\ rank[all[i]] = i - 1 /\ rank[all[j]] = j - 1
    BY <1>6
  <2>2. all[i] = all[j] => i = j
    BY <1>1, <2>1
  <2>3. all[i] \in before[all[j]] => i < j
    BY <1>1, <1>3, <2>1
  <2>4. all[j] \in before[all[i]] => j < i
    BY <1>1, <1>3, <2>1
  <2>5. i < j => all[i] # all[j]
    BY <1>1, <2>1
  <2>6. i < j => ~(j < i)
    BY <1>1
  <2>7. i < j => all[i] \in before[all[j]]
    BY <2>1, <2>4, <2>5, <2>6 DEF Orderly
  <2> QED
    BY <2>2, <2>3, <2>7
<1> QED
  BY <1>1, <1>7, <1>8, <1>9 DEF all, N
-----------------------------------------------------------------------------
(* The plans of a message.                                                 *)
LEMMA PlanIs ==
    ASSUME NEW s, NEW f, ~FieldRefused(f)
    PROVE  LET p == PlanField(s, f)
           IN  /\ p.name = f.name /\ p.number = f.number /\ p.kind = f.kind
               /\ p.metadata = Has(f, "collection_metadata")
               /\ p.decl \in {"vec", "plain", "option"}
               /\ p.sortable \in BOOLEAN
<1>1. \A decl, takes, sortable, checks :
        LET p == Planned(f, decl, takes, sortable, checks)
        IN  /\ p.name = f.name /\ p.number = f.number /\ p.kind = f.kind
            /\ p.metadata = Has(f, "collection_metadata") /\ p.decl = decl /\ p.sortable = sortable
  BY DEF Planned
<1>2. Declared(f) \in {"vec", "plain", "option"}
  BY DEF Declared
<1>3. Has(f, "unordered") \in BOOLEAN
  BY DEF Has
<1> DEFINE Fits(p) == /\ p.name = f.name /\ p.number = f.number /\ p.kind = f.kind
                      /\ p.metadata = Has(f, "collection_metadata")
                      /\ p.decl \in {"vec", "plain", "option"}
                      /\ p.sortable \in BOOLEAN
<1>4. \A decl \in {"vec", "plain", "option"} : \A takes : \A sortable \in BOOLEAN : \A checks :
        Fits(Planned(f, decl, takes, sortable, checks))
  BY <1>1
<1> HIDE DEF Fits
<1>5. /\ Fits(StringList(f)) /\ Fits(String(f)) /\ Fits(Copied(f)) /\ Fits(Enumeration(f))
      /\ Fits(MessageList(s, f)) /\ Fits(MessageField(f))
  <2>1. Fits(StringList(f)) /\ Fits(MessageList(s, f))
    BY <1>3, <1>4 DEF StringList, MessageList
  <2>2. Fits(String(f)) /\ Fits(Copied(f)) /\ Fits(Enumeration(f)) /\ Fits(MessageField(f))
    BY <1>2, <1>4 DEF String, Copied, Enumeration, MessageField
  <2> QED
    BY <2>1, <2>2
<1>6. f.kind \in {"string", "bool", "u64"} \cup EnumKinds \cup MessageKinds
  BY DEF FieldRefused
<1>7. Fits(PlanField(s, f))
  BY <1>5, <1>6 DEF PlanField
<1> QED
  BY <1>7 DEF Fits

(* canonical walks every field outside oneofs once, the visible ones by    *)
(* number, then the metadata.                                              *)
Walks(s, m, plans) ==
    /\ Len(plans) \in Nat /\ plans \in [1..Len(plans) -> FieldPlans(s, m)]
    /\ \A p \in FieldPlans(s, m) : \E i \in 1..Len(plans) : plans[i] = p
    /\ \A i, j \in 1..Len(plans) : i < j <=> Precedes(plans[i], plans[j])

LEMMA CanonicalIs ==
    ASSUME NEW s, NEW m, IsMessage(s[m]), \A f \in Outside(s, m) : ~FieldRefused(f)
    PROVE  Walks(s, m, CanonicalPlans(s, m))
<1> DEFINE P == FieldPlans(s, m)
           before == [p \in P |-> {q \in P : Precedes(q, p)}]
<1>1. IsFiniteSet(P)
  <2>1. IsFiniteSet(Outside(s, m))
    BY FS_Subset DEF Outside, Fields, IsMessage
  <2> DEFINE plan == [f \in Outside(s, m) |-> PlanField(s, f)]
  <2>2. plan \in Surjection(Outside(s, m), P)
    BY DEF Surjection, FieldPlans
  <2> QED
    BY <2>1, <2>2, FS_Surjection
<1>2. \A p \in P : p.number \in Nat /\ p.metadata \in BOOLEAN
  <2> SUFFICES ASSUME NEW f \in Outside(s, m)
               PROVE  PlanField(s, f).number \in Nat /\ PlanField(s, f).metadata \in BOOLEAN
    BY DEF FieldPlans
  <2>1. f.number \in Nat
    BY DEF Outside, Fields, IsMessage, IsField
  <2>2. PlanField(s, f).number = f.number /\ PlanField(s, f).metadata = Has(f, "collection_metadata")
    BY PlanIs
  <2>3. Has(f, "collection_metadata") \in BOOLEAN
    BY DEF Has
  <2> QED
    BY <2>1, <2>2, <2>3
<1>3. \A p, q \in P : p.number = q.number => p = q
  <2> SUFFICES ASSUME NEW f \in Outside(s, m), NEW g \in Outside(s, m),
                      PlanField(s, f).number = PlanField(s, g).number
               PROVE  f = g
    BY DEF FieldPlans
  <2>1. f.number = g.number
    BY PlanIs
  <2> QED
    BY <2>1 DEF Outside, Fields, IsMessage
<1>4. Orderly(P, before)
  <2>1. \A p \in P : before[p] \subseteq P /\ p \notin before[p]
    BY <1>2 DEF Precedes
  <2>2. \A p, q \in P : p # q => p \in before[q] \/ q \in before[p]
    BY <1>2, <1>3 DEF Precedes
  <2>3. \A p, q \in P : p \in before[q] => before[p] \subseteq before[q]
    <3> SUFFICES ASSUME NEW p \in P, NEW q \in P, Precedes(p, q), NEW r \in P, Precedes(r, p)
                 PROVE  Precedes(r, q)
      OBVIOUS
    <3> QED
      BY <1>2 DEF Precedes
  <2> QED
    BY <2>1, <2>2, <2>3 DEF Orderly
<1> DEFINE plans == CanonicalPlans(s, m)
           N == Cardinality(P)
<1>5. plans = Ascending(P, before)
  BY DEF CanonicalPlans
<1>6. /\ N \in Nat /\ plans \in [1..N -> P]
      /\ \A p \in P : \E i \in 1..N : plans[i] = p
      /\ \A i, j \in 1..N : i < j <=> plans[i] \in before[plans[j]]
  <2> HIDE DEF before, P
  <2> QED
    BY <1>1, <1>4, <1>5, AscendingIs
<1>7. Len(plans) = N
  BY <1>6
<1>8. \A i, j \in 1..N : plans[i] \in before[plans[j]] <=> Precedes(plans[i], plans[j])
  BY <1>6
<1> HIDE DEF plans, N, before
<1>9. Walks(s, m, plans)
  BY <1>6, <1>7, <1>8 DEF Walks
<1> QED
  BY <1>9 DEF plans
-----------------------------------------------------------------------------
(* The values of a message and their order.                                *)
LEMMA TupleIs ==
    ASSUME NEW n \in Nat, NEW f, f = [i \in 1..n |-> f[i]]
    PROVE  Tuple(f) = f /\ Len(f) = n
<1>1. f \in Seq({f[i] : i \in 1..n})
  <2>1. f \in [1..n -> {f[i] : i \in 1..n}]
    OBVIOUS
  <2> QED
    BY <2>1, SeqDef
<1>2. f \o <<>> = f
  BY <1>1, ConcatEmptySeq
<1>3. DOMAIN f = 1..n
  OBVIOUS
<1> QED
  BY <1>1, <1>2, <1>3 DEF Tuple

(* Plans as the compiler makes them, and how many values the kinds have.   *)
Planful(plans, counts) ==
    /\ Len(plans) \in Nat /\ DOMAIN plans = 1..Len(plans)
    /\ \A i \in 1..Len(plans) : /\ plans[i].decl \in {"vec", "plain", "option"}
                                /\ counts[i] \in Nat

LEMMA FillsAre ==
    ASSUME NEW p, p.decl \in {"vec", "plain", "option"}, NEW n \in Nat
    PROVE  Fills(p, n) \subseteq 0..n /\ IsFiniteSet(Fills(p, n))
<1>1. Fills(p, n) \subseteq 0..n
  BY DEF Fills
<1>2. IsFiniteSet(0..n)
  BY FS_Interval
<1> QED
  BY <1>1, <1>2, FS_Subset

(* Functions between finite sets are finitely many: each is its graph.     *)
LEMMA FunctionsFinite ==
    ASSUME NEW S, IsFiniteSet(S), NEW T, IsFiniteSet(T)
    PROVE  IsFiniteSet([S -> T])
<1> DEFINE graph == [f \in [S -> T] |-> {<<x, f[x]>> : x \in S}]
<1>1. IsFiniteSet(SUBSET (S \X T))
  BY FS_Product, FS_SUBSET
<1>2. graph \in [[S -> T] -> SUBSET (S \X T)]
  <2>1. \A f \in [S -> T] : {<<x, f[x]>> : x \in S} \in SUBSET (S \X T)
    OBVIOUS
  <2> QED
    BY <2>1
<1>3. \A f, g \in [S -> T] : graph[f] = graph[g] => f = g
  <2> SUFFICES ASSUME NEW f \in [S -> T], NEW g \in [S -> T],
                      {<<x, f[x]>> : x \in S} = {<<x, g[x]>> : x \in S}
               PROVE  f = g
    OBVIOUS
  <2>1. \A x \in S : f[x] = g[x]
    <3> TAKE x \in S
    <3>1. <<x, f[x]>> \in {<<y, g[y]>> : y \in S}
      OBVIOUS
    <3> QED
      BY <3>1
  <2> QED
    BY <2>1
<1>4. graph \in Injection([S -> T], SUBSET (S \X T))
  <2> HIDE DEF graph
  <2> QED
    BY <1>2, <1>3 DEF Injection, IsInjective
<1> QED
  BY <1>1, <1>4, FS_Injection

LEMMA ValuesAre ==
    ASSUME NEW plans, NEW counts, Planful(plans, counts)
    PROVE  /\ IsFiniteSet(Values(plans, counts))
           /\ \A a \in Values(plans, counts) : \A i \in 1..Len(plans) : a[plans[i].name] \in Nat
           /\ \A a, b \in Values(plans, counts) :
                (\A i \in 1..Len(plans) : a[plans[i].name] = b[plans[i].name]) => a = b
<1> DEFINE n == Len(plans)
           names == {p.name : p \in Range(plans)}
           all == UNION {Fills(plans[i], counts[i]) : i \in DOMAIN plans}
<1>1. n \in Nat /\ DOMAIN plans = 1..n
  BY DEF Planful
<1>2. names = {plans[i].name : i \in 1..n}
  BY <1>1 DEF Range
<1>3. \A i \in 1..n : Fills(plans[i], counts[i]) \subseteq Nat /\ IsFiniteSet(Fills(plans[i], counts[i]))
  BY FillsAre DEF Planful
<1>4. IsFiniteSet(names)
  <2> DEFINE name == [i \in 1..n |-> plans[i].name]
  <2>1. name \in Surjection(1..n, names)
    BY <1>2 DEF Surjection
  <2> QED
    BY <1>1, <2>1, FS_Interval, FS_Surjection
<1>5. IsFiniteSet(all)
  <2> DEFINE each == {Fills(plans[i], counts[i]) : i \in 1..n}
             fill == [i \in 1..n |-> Fills(plans[i], counts[i])]
  <2>1. fill \in Surjection(1..n, each)
    BY DEF Surjection
  <2>2. IsFiniteSet(each)
    BY <1>1, <2>1, FS_Interval, FS_Surjection
  <2>3. IsFiniteSet(UNION each)
    <3>1. \A T \in each : IsFiniteSet(T)
      BY <1>3
    <3> HIDE DEF each
    <3> QED
      BY <2>2, <3>1, FS_UNION
  <2> QED
    BY <1>1, <2>3
<1>6. Values(plans, counts) \subseteq [names -> all]
  BY DEF Values
<1>7. IsFiniteSet(Values(plans, counts))
  <2> HIDE DEF names, all
  <2> QED
    BY <1>4, <1>5, <1>6, FunctionsFinite, FS_Subset
<1>8. \A a \in Values(plans, counts) : \A i \in 1..n : a[plans[i].name] \in Nat
  BY <1>1, <1>3 DEF Values
<1>9. \A a, b \in Values(plans, counts) : (\A i \in 1..n : a[plans[i].name] = b[plans[i].name]) => a = b
  <2> SUFFICES ASSUME NEW a \in Values(plans, counts), NEW b \in Values(plans, counts),
                      \A i \in 1..n : a[plans[i].name] = b[plans[i].name]
               PROVE  a = b
    OBVIOUS
  <2>1. a \in [names -> all] /\ b \in [names -> all]
    BY <1>6
  <2>2. \A x \in names : a[x] = b[x]
    BY <1>2
  <2> HIDE DEF names, all
  <2> QED
    BY <2>1, <2>2
<1> QED
  BY <1>7, <1>8, <1>9

(* The first field two values differ in decides.                           *)
First(plans, a, b, i) ==
    /\ i \in 1..Len(plans) /\ a[plans[i].name] # b[plans[i].name]
    /\ \A j \in 1..(i - 1) : a[plans[j].name] = b[plans[j].name]

LEMMA CmpIs ==
    ASSUME NEW plans, NEW counts, Planful(plans, counts),
           NEW a \in Values(plans, counts), NEW b \in Values(plans, counts)
    PROVE  /\ a = b => CanonicalCmp(plans, a, b) = 0
           /\ a # b => \E i : First(plans, a, b, i)
           /\ \A i : First(plans, a, b, i) =>
                 CanonicalCmp(plans, a, b) = CmpInt(a[plans[i].name], b[plans[i].name])
<1> DEFINE n == Len(plans)
           x(i) == a[plans[i].name]
           y(i) == b[plans[i].name]
           telling == {i \in DOMAIN plans : CmpInt(x(i), y(i)) # 0}
<1>1. n \in Nat /\ DOMAIN plans = 1..n
  BY DEF Planful
<1>2. \A i \in 1..n : x(i) \in Nat /\ y(i) \in Nat
  BY ValuesAre
<1>3. telling = {i \in 1..n : x(i) # y(i)}
  BY <1>1, <1>2 DEF CmpInt
<1>4. CanonicalCmp(plans, a, b)
        = IF telling = {} THEN 0 ELSE CmpInt(x(Min(telling)), y(Min(telling)))
  BY DEF CanonicalCmp
<1>5. telling # {} => Min(telling) \in telling /\ \A j \in telling : Min(telling) <= j
  <2>1. telling \in SUBSET Nat
    BY <1>3
  <2> HIDE DEF telling
  <2> QED
    BY <2>1, LeastOf
<1>6. a = b => telling = {}
  BY <1>3
<1>9. telling \subseteq 1..n /\ \A i \in 1..n : i \in telling <=> x(i) # y(i)
  BY <1>3
<1> DEFINE least == Min(telling)
<1> HIDE DEF telling, least
<1>7. a # b => First(plans, a, b, least)
  <2> SUFFICES ASSUME a # b PROVE First(plans, a, b, least)
    OBVIOUS
  <2>1. telling # {}
    BY <1>9, ValuesAre
  <2>2. least \in 1..n /\ x(least) # y(least) /\ \A j \in telling : least <= j
    BY <1>5, <1>9, <2>1 DEF least
  <2>3. \A j \in 1..(least - 1) : x(j) = y(j)
    <3> SUFFICES ASSUME NEW j \in 1..(least - 1), j \in telling PROVE FALSE
      BY <1>1, <1>9, <2>2
    <3>1. least <= j
      BY <2>2
    <3> QED
      BY <1>1, <2>2, <3>1
  <2> QED
    BY <2>2, <2>3 DEF First
<1>8. ASSUME NEW i, First(plans, a, b, i) PROVE telling # {} /\ least = i
  <2>1. i \in 1..n /\ i \in telling /\ \A j \in 1..(i - 1) : x(j) = y(j)
    BY <1>8, <1>9 DEF First
  <2>2. least \in telling /\ least <= i /\ least \in 1..n /\ x(least) # y(least)
    BY <1>5, <1>9, <2>1 DEF least
  <2>3. least \notin 1..(i - 1)
    BY <2>1, <2>2
  <2> QED
    BY <1>1, <2>1, <2>2, <2>3
<1> QED
  BY <1>4, <1>6, <1>7, <1>8 DEF least

LEMMA ValuesOrderly ==
    ASSUME NEW plans, NEW counts, Planful(plans, counts)
    PROVE  LET values == Values(plans, counts)
           IN  Orderly(values, [v \in values |-> {w \in values : CanonicalCmp(plans, w, v) < 0}])
<1> DEFINE values == Values(plans, counts)
           less(a, b) == CanonicalCmp(plans, a, b) < 0
           x(a, i) == a[plans[i].name]
<1>1. Len(plans) \in Nat /\ \A a \in values : \A i \in 1..Len(plans) : x(a, i) \in Nat
  BY ValuesAre DEF Planful
<1>2. \A a, b \in values : \A i : First(plans, a, b, i) => (less(a, b) <=> x(a, i) < x(b, i))
  <2> SUFFICES ASSUME NEW a \in values, NEW b \in values, NEW i, First(plans, a, b, i)
               PROVE  less(a, b) <=> x(a, i) < x(b, i)
    OBVIOUS
  <2>1. CanonicalCmp(plans, a, b) = CmpInt(x(a, i), x(b, i))
    BY CmpIs
  <2>2. x(a, i) \in Nat /\ x(b, i) \in Nat
    BY <1>1 DEF First
  <2> QED
    BY <2>1, <2>2 DEF CmpInt
<1>3. \A a \in values : ~less(a, a)
  BY CmpIs
<1>4. \A a, b \in values : a # b => \E i : First(plans, a, b, i)
  BY CmpIs
<1>5. \A a, b \in values : a # b => less(a, b) \/ less(b, a)
  <2> SUFFICES ASSUME NEW a \in values, NEW b \in values, a # b PROVE less(a, b) \/ less(b, a)
    OBVIOUS
  <2>1. PICK i : First(plans, a, b, i)
    BY <1>4
  <2>2. First(plans, b, a, i)
    BY <2>1 DEF First
  <2>3. x(a, i) \in Nat /\ x(b, i) \in Nat /\ x(a, i) # x(b, i)
    BY <1>1, <2>1 DEF First
  <2> HIDE DEF less
  <2> QED
    BY <1>2, <2>1, <2>2, <2>3
<1>6. \A a, b, c \in values : less(a, b) /\ less(b, c) => less(a, c)
  <2> SUFFICES ASSUME NEW a \in values, NEW b \in values, NEW c \in values, less(a, b), less(b, c)
               PROVE  less(a, c)
    OBVIOUS
  <2>1. PICK i : First(plans, a, b, i)
    BY <1>3, <1>4
  <2>2. PICK j : First(plans, b, c, j)
    BY <1>3, <1>4
  <2>3. x(a, i) < x(b, i) /\ x(b, j) < x(c, j)
    BY <1>2, <2>1, <2>2
  <2>4. i \in 1..Len(plans) /\ j \in 1..Len(plans)
    BY <2>1, <2>2 DEF First
  <2>5. /\ \A k \in 1..(i - 1) : x(a, k) = x(b, k)
        /\ \A k \in 1..(j - 1) : x(b, k) = x(c, k)
    BY <2>1, <2>2 DEF First
  <2> HIDE DEF less
  <2>6. CASE i <= j
    <3>1. \A k \in 1..(i - 1) : k \in 1..(j - 1)
      BY <1>1, <2>4, <2>6
    <3>2. \A k \in 1..(i - 1) : x(a, k) = x(c, k)
      BY <2>5, <3>1
    <3>3. x(a, i) < x(c, i)
      <4>1. CASE i = j
        BY <1>1, <2>3, <2>4, <4>1
      <4>2. CASE i # j
        <5>1. i \in 1..(j - 1)
          BY <1>1, <2>4, <2>6, <4>2
        <5> QED
          BY <2>3, <2>5, <5>1
      <4> QED
        BY <4>1, <4>2
    <3>4. First(plans, a, c, i)
      BY <1>1, <2>4, <3>2, <3>3 DEF First
    <3> QED
      BY <1>2, <3>3, <3>4
  <2>7. CASE j < i
    <3>1. \A k \in 1..(j - 1) : k \in 1..(i - 1)
      BY <1>1, <2>4, <2>7
    <3>2. \A k \in 1..(j - 1) : x(a, k) = x(c, k)
      BY <2>5, <3>1
    <3>3. x(a, j) < x(c, j)
      <4>1. j \in 1..(i - 1)
        BY <1>1, <2>4, <2>7
      <4> QED
        BY <2>3, <2>5, <4>1
    <3>4. First(plans, a, c, j)
      BY <1>1, <2>4, <3>2, <3>3 DEF First
    <3> QED
      BY <1>2, <3>3, <3>4
  <2> QED
    BY <1>1, <2>4, <2>6, <2>7
<1> DEFINE before == [v \in values |-> {w \in values : less(w, v)}]
<1> HIDE DEF less, values
<1>7. Orderly(values, before)
  BY <1>3, <1>5, <1>6 DEF Orderly
<1> QED
  BY <1>7 DEF less, values

LEMMA ListingIs ==
    ASSUME NEW plans, NEW counts, Planful(plans, counts)
    PROVE  LET all == Listing(plans, counts)
               N == Len(all)
           IN  /\ N \in Nat /\ all \in [1..N -> Values(plans, counts)]
               /\ \A i, j \in 1..N : /\ i < j <=> CanonicalCmp(plans, all[i], all[j]) < 0
                                     /\ all[i] = all[j] => i = j
<1> DEFINE values == Values(plans, counts)
           before == [v \in values |-> {w \in values : CanonicalCmp(plans, w, v) < 0}]
           asc == Ascending(values, before)
           N == Cardinality(values)
<1>1. IsFiniteSet(values) /\ Orderly(values, before)
  BY ValuesAre, ValuesOrderly
<1>2. /\ N \in Nat /\ asc \in [1..N -> values]
      /\ \A i, j \in 1..N : (i < j <=> asc[i] \in before[asc[j]]) /\ (asc[i] = asc[j] => i = j)
  <2> HIDE DEF values, before
  <2> QED
    BY <1>1, AscendingIs
<1>3. \A i, j \in 1..N : asc[i] \in before[asc[j]] <=> CanonicalCmp(plans, asc[i], asc[j]) < 0
  BY <1>2
<1>4. Listing(plans, counts) = Tuple(asc)
  BY DEF Listing
<1> HIDE DEF asc, N, before
<1>5. Tuple(asc) = asc /\ Len(asc) = N
  <2>1. asc = [i \in 1..N |-> asc[i]]
    BY <1>2
  <2> QED
    BY <1>2, <2>1, TupleIs
<1> QED
  BY <1>2, <1>3, <1>4, <1>5

(* What the elements of a message of the model are.                        *)
LEMMA WalkIsPlanful ==
    ASSUME NEW s, NEW m, NEW plans, Walks(s, m, plans), \A f \in Outside(s, m) : ~FieldRefused(f),
           NEW counts, \A i \in 1..Len(plans) : counts[i] \in Nat
    PROVE  Planful(plans, counts)
<1>1. \A p \in FieldPlans(s, m) : p.decl \in {"vec", "plain", "option"}
  BY PlanIs DEF FieldPlans
<1>2. Len(plans) \in Nat /\ plans \in [1..Len(plans) -> FieldPlans(s, m)]
  BY DEF Walks
<1> QED
  BY <1>1, <1>2 DEF Planful

(* A model the compiler makes of a schema. *)
LEMMA ModelIs ==
    ASSUME NEW s, IsSchema(s), NEW v, Gate(s, v) = "ok", NEW m \in ContractMessages
    PROVE  /\ DOMAIN Model(s) = ContractMessages
           /\ Model(s)[m].canonical = CanonicalPlans(s, m)
           /\ Walks(s, m, CanonicalPlans(s, m))
           /\ \A f \in Outside(s, m) : ~FieldRefused(f)
<1>1. DOMAIN s = ContractMessages /\ IsMessage(s[m])
  BY DEF IsSchema
<1>2. \A f \in Outside(s, m) : ~FieldRefused(f)
  BY <1>1, GateIs
<1>3. Walks(s, m, CanonicalPlans(s, m))
  BY <1>1, <1>2, CanonicalIs
<1>4. Model(s)[m].canonical = CanonicalPlans(s, m)
  BY <1>1 DEF Model, MessageItems
<1> QED
  BY <1>1, <1>2, <1>3, <1>4 DEF Model

LEMMA InnerIs ==
    ASSUME NEW s, IsSchema(s), NEW v, Gate(s, v) = "ok", NEW m \in ContractMessages
    PROVE  \E counts : /\ Planful(CanonicalPlans(s, m), counts)
                       /\ \A i \in 1..Len(CanonicalPlans(s, m)) : counts[i] \in 0..2
                       /\ Inner(Model(s), m) = Listing(CanonicalPlans(s, m), counts)
<1> DEFINE plans == CanonicalPlans(s, m)
           counts == [i \in DOMAIN plans |-> IF plans[i].kind \in DOMAIN Model(s) THEN 0
                                              ELSE Scalars(plans[i])]
<1>1. /\ Model(s)[m].canonical = plans /\ Walks(s, m, plans)
      /\ \A f \in Outside(s, m) : ~FieldRefused(f)
  BY ModelIs
<1>2. \A i \in 1..Len(plans) : counts[i] \in Nat /\ counts[i] \in 0..2
  BY <1>1 DEF Walks, Scalars
<1>3. Inner(Model(s), m) = Listing(plans, counts)
  BY <1>1 DEF Inner
<1>4. Planful(plans, counts)
  <2> HIDE DEF counts, plans
  <2> QED
    BY <1>1, <1>2, WalkIsPlanful
<1> HIDE DEF counts
<1> QED
  BY <1>2, <1>3, <1>4

LEMMA ElementsAre ==
    ASSUME NEW s, IsSchema(s), NEW v, Gate(s, v) = "ok", NEW m \in ContractMessages
    PROVE  \E counts : /\ Planful(CanonicalPlans(s, m), counts)
                       /\ \A i \in 1..Len(CanonicalPlans(s, m)) :
                            LET kind == CanonicalPlans(s, m)[i].kind
                            IN  IF kind \in ContractMessages THEN counts[i] = Len(Inner(Model(s), kind))
                                ELSE counts[i] \in 0..2
                       /\ Elements(Model(s), m) = Listing(CanonicalPlans(s, m), counts)
<1> DEFINE plans == CanonicalPlans(s, m)
           counts == [i \in DOMAIN plans |->
                        IF plans[i].kind \in DOMAIN Model(s) THEN Len(Inner(Model(s), plans[i].kind))
                        ELSE Scalars(plans[i])]
<1>1. /\ Model(s)[m].canonical = plans /\ Walks(s, m, plans) /\ DOMAIN Model(s) = ContractMessages
      /\ \A f \in Outside(s, m) : ~FieldRefused(f)
  BY ModelIs
<1>2. \A k \in ContractMessages : Len(Inner(Model(s), k)) \in Nat
  BY InnerIs, ListingIs
<1>3. Len(plans) \in Nat /\ DOMAIN plans = 1..Len(plans)
  BY <1>1 DEF Walks
<1>4. \A i \in 1..Len(plans) : counts[i] \in Nat
  BY <1>1, <1>2, <1>3 DEF Scalars
<1>5. Elements(Model(s), m) = Listing(plans, Tuple(counts))
  BY <1>1 DEF Elements
<1>6. Tuple(counts) = counts
  <2>1. counts = [i \in 1..Len(plans) |-> counts[i]]
    BY <1>3
  <2> HIDE DEF counts
  <2> QED
    BY <1>3, <2>1, TupleIs
<1>7. Planful(plans, counts)
  <2> HIDE DEF counts, plans
  <2> QED
    BY <1>1, <1>4, WalkIsPlanful
<1>8. \A i \in 1..Len(plans) : IF plans[i].kind \in ContractMessages
                                THEN counts[i] = Len(Inner(Model(s), plans[i].kind))
                                ELSE counts[i] \in 0..2
  BY <1>1, <1>3 DEF Scalars
<1> HIDE DEF counts
<1> QED
  BY <1>5, <1>6, <1>7, <1>8

(* Of three values in order, of which the first and the last agree on the  *)
(* leading fields, the one between agrees with them.                       *)
Leading(plans, K) == K \subseteq 1..Len(plans) /\ \A k \in K : \A j \in 1..k : j \in K
Agree(plans, K, a, b) == \A k \in K : a[plans[k].name] = b[plans[k].name]
NotAfter(plans, a, b) == a = b \/ CanonicalCmp(plans, a, b) < 0

LEMMA BetweenAgrees ==
    ASSUME NEW plans, NEW counts, Planful(plans, counts), NEW a \in Values(plans, counts),
           NEW b \in Values(plans, counts), NEW c \in Values(plans, counts),
           NotAfter(plans, a, b), NotAfter(plans, b, c),
           NEW K, Leading(plans, K), Agree(plans, K, a, c)
    PROVE  Agree(plans, K, a, b)
<1> DEFINE x(d, i) == d[plans[i].name]
           values == Values(plans, counts)
<1> USE DEF Leading, Agree, NotAfter
<1>1. Len(plans) \in Nat /\ \A d \in values : \A i \in 1..Len(plans) : x(d, i) \in Nat
  BY ValuesAre DEF Planful
<1> SUFFICES ASSUME NEW k \in K, x(a, k) # x(b, k) PROVE FALSE
  OBVIOUS
<1>2. a # b /\ b # c
  OBVIOUS
<1>3. PICK i : First(plans, a, b, i)
  BY <1>2, CmpIs
<1>4. i \in 1..Len(plans) /\ x(a, i) # x(b, i) /\ \A j \in 1..(i - 1) : x(a, j) = x(b, j)
  BY <1>3 DEF First
<1>5. i \in 1..k /\ k \in 1..Len(plans)
  <2>1. k \notin 1..(i - 1) /\ k \in 1..Len(plans)
    BY <1>4
  <2> QED
    BY <1>1, <1>4, <2>1
<1>6. \A j \in 1..i : j \in K
  <2> TAKE j \in 1..i
  <2>1. j \in 1..k
    BY <1>1, <1>5
  <2> QED
    BY <2>1
<1>7. i \in K /\ \A j \in 1..(i - 1) : j \in K
  BY <1>1, <1>4, <1>6
<1>8. x(c, i) = x(a, i) /\ \A j \in 1..(i - 1) : x(b, j) = x(c, j)
  BY <1>4, <1>7
<1>9. First(plans, b, c, i)
  BY <1>4, <1>8 DEF First
<1>10. CmpInt(x(a, i), x(b, i)) < 0 /\ CmpInt(x(b, i), x(c, i)) < 0
  BY <1>2, <1>3, <1>9, CmpIs
<1>11. x(a, i) \in Nat /\ x(b, i) \in Nat
  BY <1>1, <1>4
<1> QED
  BY <1>8, <1>10, <1>11 DEF CmpInt

(* canonicalize of a list of positions: the same elements, ascending.      *)
Sorting(n, list, sorted, places) ==
    /\ places \in [1..n -> 1..n]
    /\ sorted = [k \in 1..n |-> list[places[k]]]
    /\ \A i \in 1..n : \E k \in 1..n : places[k] = i
    /\ \A i, j \in 1..n : /\ i < j => list[places[i]] <= list[places[j]]
                          /\ places[i] = places[j] => i = j

LEMMA SortedIs ==
    ASSUME NEW p, p.sortable, NEW n \in Nat, NEW list \in [1..n -> Nat]
    PROVE  \E places : Sorting(n, list, Canonicalize(p, list), places)
<1> DEFINE S == 1..n
           before == [i \in S |-> {j \in S : list[j] < list[i] \/ (list[j] = list[i] /\ j < i)}]
           places == Ascending(S, before)
<1>1. IsFiniteSet(S) /\ Cardinality(S) = n
  BY FS_Interval
<1>2. \A i \in S : list[i] \in Nat /\ i \in Nat
  OBVIOUS
<1>3. Orderly(S, before)
  <2>1. \A i \in S : before[i] \subseteq S /\ i \notin before[i]
    BY <1>2
  <2>2. \A i, j \in S : i # j => i \in before[j] \/ j \in before[i]
    BY <1>2
  <2>3. \A i, j \in S : i \in before[j] => before[i] \subseteq before[j]
    BY <1>2
  <2> QED
    BY <2>1, <2>2, <2>3 DEF Orderly
<1>4. /\ places \in [1..n -> S]
      /\ \A i \in S : \E k \in 1..n : places[k] = i
      /\ \A i, j \in 1..n : (i < j <=> places[i] \in before[places[j]]) /\ (places[i] = places[j] => i = j)
  <2> DEFINE N == Cardinality(S)
  <2>1. /\ places \in [1..N -> S]
        /\ \A i \in S : \E k \in 1..N : places[k] = i
        /\ \A i, j \in 1..N : (i < j <=> places[i] \in before[places[j]]) /\ (places[i] = places[j] => i = j)
    <3>1. IsFiniteSet(S)
      BY <1>1
    <3> HIDE DEF S, before
    <3> QED
      BY <3>1, <1>3, AscendingIs
  <2>2. N = n
    BY <1>1
  <2> HIDE DEF N, places
  <2> QED
    BY <2>1, <2>2
<1>5. Canonicalize(p, list) = [k \in 1..n |-> list[places[k]]]
  BY DEF Canonicalize
<1> HIDE DEF places
<1> HIDE DEF before
<1>6. \A i, j \in 1..n : i < j => list[places[i]] <= list[places[j]]
  <2> SUFFICES ASSUME NEW i \in 1..n, NEW j \in 1..n, i < j PROVE list[places[i]] <= list[places[j]]
    OBVIOUS
  <2>1. places[i] \in S /\ places[j] \in S /\ places[i] \in before[places[j]]
    BY <1>4
  <2> QED
    BY <1>2, <2>1 DEF before
<1>7. /\ places \in [1..n -> 1..n]
      /\ \A i \in 1..n : \E k \in 1..n : places[k] = i
      /\ \A i, j \in 1..n : /\ i < j => list[places[i]] <= list[places[j]]
                            /\ places[i] = places[j] => i = j
  BY <1>4, <1>6
<1> QED
  BY <1>5, <1>7 DEF Sorting
-----------------------------------------------------------------------------
(* The lint found each key among the fields of the element, outside oneofs *)
(* and part of its content.                                                *)
LEMMA KeysFound ==
    ASSUME NEW s, DOMAIN s = ContractMessages, NEW v, Gate(s, v) = "ok", NEW m \in ContractMessages,
           NEW f \in Fields(s, m), IsList(f), f.kind \in ContractMessages, Has(f, "unique_by"),
           NEW k \in Range(f.opts["unique_by"])
    PROVE  \E g \in Outside(s, f.kind) : g.name = k /\ ~Has(g, "collection_metadata")
<1> DEFINE keys == f.opts["unique_by"]
           again == {i \in DOMAIN keys : \E j \in 1..(i - 1) : keys[j] = keys[i]}
           reasons == CheckUniqueBy(s, f)
<1>1. PICK i \in DOMAIN keys : keys[i] = k
  BY DEF Range
<1>2. keys # <<>>
  BY <1>1
<1>3. Permits("MessageLists", f)
  BY DEF Permits, MessageKinds
<1>4. reasons = {}
  <2>1. Violations(s) = {}
    BY DEF Gate
  <2>2. CheckMessage(s, m, m \in HashReachable(s), m \in SelfReferential(s)) = {}
    BY <2>1 DEF Violations
  <2> DEFINE others == CheckApplicability(s, f, m \in HashReachable(s))
             plain == Plain((IF f.name \in Keywords THEN {"UnusableName"} ELSE {}) \cup CheckPresence(f))
  <2>3. {<<f.name, r>> : r \in plain \cup others}
          \subseteq CheckMessage(s, m, m \in HashReachable(s), m \in SelfReferential(s))
    BY DEF CheckMessage
  <2>4. others = {}
    <3> HIDE DEF others, plain
    <3> QED
      BY <2>2, <2>3
  <2>5. {<<r, "unique_by">> : r \in reasons} \subseteq others
    BY <1>2, <1>3 DEF CheckApplicability
  <2> HIDE DEF others, reasons
  <2> QED
    BY <2>4, <2>5
<1>5. again = {}
  BY <1>4 DEF CheckUniqueBy
<1>6. KeyReasons(s, f.kind, k) = {}
  <2>1. UNION {IF f.kind \in DOMAIN s THEN KeyReasons(s, f.kind, keys[j])
               ELSE {"UnknownUniqueKey"} : j \in DOMAIN keys \ again} = {}
    BY <1>4 DEF CheckUniqueBy
  <2>2. i \in DOMAIN keys \ again
    BY <1>5
  <2>3. KeyReasons(s, f.kind, keys[i]) \subseteq
          UNION {IF f.kind \in DOMAIN s THEN KeyReasons(s, f.kind, keys[j])
                 ELSE {"UnknownUniqueKey"} : j \in DOMAIN keys \ again}
    BY <2>2
  <2> QED
    BY <1>1, <2>1, <2>3
<1> DEFINE found == FieldsNamed(s, f.kind, k)
           member == CHOOSE g \in found : TRUE
<1>7. /\ found # {}
      /\ ~\E o \in DOMAIN member.opts : FIELD_OPTIONS[o].hash = "skipped"
      /\ ~InDeclaredOneof(member)
  BY <1>6 DEF KeyReasons
<1>8. member \in found
  BY <1>7
<1>9. FIELD_OPTIONS["collection_metadata"].hash = "skipped"
  BY DEF FIELD_OPTIONS, collection_metadata, Row
<1>10. ~Has(member, "collection_metadata")
  BY <1>7, <1>9 DEF Has
<1> QED
  BY <1>7, <1>8, <1>10 DEF FieldsNamed, Outside

LEMMA OneMore == ASSUME NEW x, NEW y PROVE <<x>> \o <<y>> = <<x, y>> /\ <<>> \o <<y>> = <<y>>
<1>1. <<x>> \in Seq({x, y}) /\ <<y>> \in Seq({x, y}) /\ <<>> \in Seq({x, y})
  OBVIOUS
<1>2. /\ Len(<<x>> \o <<y>>) = 2 /\ Len(<<>> \o <<y>>) = 1
      /\ (<<x>> \o <<y>>)[1] = x /\ (<<x>> \o <<y>>)[2] = y /\ (<<>> \o <<y>>)[1] = y
  BY <1>1
<1>3. <<x>> \o <<y>> \in Seq({x, y}) /\ <<>> \o <<y>> \in Seq({x, y})
  BY <1>1
<1>4. \A s \in Seq({x, y}) : Len(s) = 2 /\ s[1] = x /\ s[2] = y => s = <<x, y>>
  OBVIOUS
<1>5. \A s \in Seq({x, y}) : Len(s) = 1 /\ s[1] = y => s = <<y>>
  OBVIOUS
<1> QED
  BY <1>2, <1>3, <1>4, <1>5

(* What a list's check goes by.                                            *)
LEMMA UniqueCheckIs ==
    ASSUME NEW s, NEW f, IsList(f), f.kind \in ContractMessages, Has(f, "unique_by")
    PROVE  LET p == PlanField(s, f)
           IN  /\ p.sortable = Has(f, "unordered")
               /\ UniqueCheck(p) = <<IF AdjacentScanSound(s, f) THEN "scan" ELSE "set", f.opts["unique_by"]>>
<1>1. PlanField(s, f) = MessageList(s, f)
  BY KindsAssumption DEF PlanField, MessageKinds
<1> DEFINE bound == If(f, "max_items", <<"max_items", Limit(f, "max_items")>>)
           check == <<IF AdjacentScanSound(s, f) THEN "scan" ELSE "set", f.opts["unique_by"]>>
           p == MessageList(s, f)
<1>2. p.sortable = Has(f, "unordered") /\ p.checks = bound \o <<check>>
  BY DEF MessageList, Planned
<1>3. Range(p.checks) = Range(bound) \cup {check}
  <2>1. CASE Has(f, "max_items")
    <3>1. bound = << <<"max_items", Limit(f, "max_items")>> >>
      BY <2>1 DEF If
    <3>2. p.checks = << <<"max_items", Limit(f, "max_items")>>, check >>
      <4> HIDE DEF check, p, bound
      <4> QED
        BY <1>2, <3>1, OneMore
    <3> HIDE DEF check, p, bound
    <3> QED
      BY <3>1, <3>2 DEF Range
  <2>2. CASE ~Has(f, "max_items")
    <3>1. bound = <<>>
      BY <2>2 DEF If
    <3>2. p.checks = <<check>>
      <4> HIDE DEF check, p, bound
      <4> QED
        BY <1>2, <3>1, OneMore
    <3> HIDE DEF check, p, bound
    <3> QED
      BY <3>1, <3>2 DEF Range
  <2> QED
    BY <2>1, <2>2
<1>4. \A c \in Range(bound) : c[1] = "max_items"
  BY DEF If, Range
<1>5. check[1] \in {"scan", "set"}
  OBVIOUS
<1> HIDE DEF check, p, bound
<1>6. UniqueCheck(p) = check
  BY <1>3, <1>4, <1>5 DEF UniqueCheck
<1> QED
  BY <1>1, <1>2, <1>6 DEF check, p

(* Where the neighbour scan is chosen, the keys lead the canonical order.  *)
LEMMA KeysLead ==
    ASSUME NEW s, IsSchema(s), NEW v, Gate(s, v) = "ok", NEW m \in ContractMessages,
           NEW f \in Fields(s, m), IsList(f), f.kind \in ContractMessages, Has(f, "unique_by"),
           AdjacentScanSound(s, f)
    PROVE  LET plans == CanonicalPlans(s, f.kind)
               keys == Range(f.opts["unique_by"])
           IN  \A i \in 1..Len(plans) : \A j \in 1..i : plans[i].name \in keys => plans[j].name \in keys
<1> DEFINE e == f.kind
           plans == CanonicalPlans(s, e)
           keys == Range(f.opts["unique_by"])
<1>1. Walks(s, e, plans) /\ (\A g \in Outside(s, e) : ~FieldRefused(g)) /\ IsMessage(s[e])
  BY ModelIs DEF IsSchema
<1>2. DOMAIN s = ContractMessages
  BY DEF IsSchema
<1> SUFFICES ASSUME NEW i \in 1..Len(plans), NEW j \in 1..i, plans[i].name \in keys
             PROVE  plans[j].name \in keys
  OBVIOUS
<1>3. CASE j = i
  BY <1>3
<1>4. CASE j # i
  <2>1. j \in 1..Len(plans) /\ j < i
    BY <1>1, <1>4 DEF Walks
  <2>2. Precedes(plans[j], plans[i]) /\ plans[i] \in FieldPlans(s, e) /\ plans[j] \in FieldPlans(s, e)
    BY <1>1, <2>1 DEF Walks
  <2>3. PICK g \in Outside(s, e) : plans[i] = PlanField(s, g)
    BY <2>2 DEF FieldPlans
  <2>4. PICK h \in Outside(s, e) : plans[j] = PlanField(s, h)
    BY <2>2 DEF FieldPlans
  <2>5. /\ plans[i].name = g.name /\ plans[i].number = g.number
        /\ plans[i].metadata = Has(g, "collection_metadata")
        /\ plans[j].name = h.name /\ plans[j].number = h.number
        /\ plans[j].metadata = Has(h, "collection_metadata")
    BY <1>1, <2>3, <2>4, PlanIs
  <2>6. g \in Fields(s, e) /\ h \in Fields(s, e)
    BY DEF Outside
  <2>7. ~Has(g, "collection_metadata")
    <3>1. PICK found \in Outside(s, e) : found.name = g.name /\ ~Has(found, "collection_metadata")
      BY <1>2, <2>5, KeysFound
    <3>2. found = g
      BY <1>1, <2>6, <3>1 DEF IsMessage, Outside, Fields
    <3> QED
      BY <3>1, <3>2
  <2>8. ~Has(h, "collection_metadata") /\ h.number < g.number
    <3>1. Has(g, "collection_metadata") \in BOOLEAN /\ Has(h, "collection_metadata") \in BOOLEAN
      BY DEF Has
    <3> QED
      BY <2>2, <2>5, <2>7, <3>1 DEF Precedes
  <2>9. \E k \in Fields(s, e) : k.name \in keys /\ k.number = h.number
    <3> DEFINE Visible == {k.number : k \in {l \in Fields(s, e) : ~Has(l, "collection_metadata")}}
               Keys == {k.number : k \in {l \in Fields(s, e) : l.name \in keys}}
    <3>1. \A k \in Keys, w \in Visible : w < k => w \in Keys
      BY DEF AdjacentScanSound
    <3>2. g.number \in Keys
      BY <2>5, <2>6
    <3>3. h.number \in Visible
      BY <2>6, <2>8
    <3>4. h.number \in Keys
      <4> HIDE DEF Visible, Keys
      <4> QED
        BY <2>8, <3>1, <3>2, <3>3
    <3> QED
      BY <3>4
  <2> QED
    BY <1>1, <2>5, <2>6, <2>9 DEF IsMessage, Fields
<1> QED
  BY <1>3, <1>4

LEMMA SameKeysIs ==
    ASSUME NEW s, IsSchema(s), NEW v, Gate(s, v) = "ok", NEW m \in ContractMessages,
           NEW f \in Fields(s, m), IsList(f), f.kind \in ContractMessages, Has(f, "unique_by"),
           NEW a, NEW b
    PROVE  LET plans == CanonicalPlans(s, f.kind)
               keys == f.opts["unique_by"]
           IN  SameKeys(keys, a, b)
                 <=> \A i \in 1..Len(plans) : plans[i].name \in Range(keys)
                                              => a[plans[i].name] = b[plans[i].name]
<1> DEFINE plans == CanonicalPlans(s, f.kind)
           keys == f.opts["unique_by"]
<1>1. Walks(s, f.kind, plans) /\ (\A g \in Outside(s, f.kind) : ~FieldRefused(g))
  BY ModelIs
<1>2. \A k \in Range(keys) : \E i \in 1..Len(plans) : plans[i].name = k
  <2> TAKE k \in Range(keys)
  <2>1. PICK g \in Outside(s, f.kind) : g.name = k
    BY KeysFound DEF IsSchema
  <2>2. PlanField(s, g).name = k /\ PlanField(s, g) \in FieldPlans(s, f.kind)
    BY <1>1, <2>1, PlanIs DEF FieldPlans
  <2> QED
    BY <1>1, <2>2 DEF Walks
<1> HIDE DEF plans, keys
<1>3. SameKeys(keys, a, b) <=> \A i \in 1..Len(plans) : plans[i].name \in Range(keys)
                                              => a[plans[i].name] = b[plans[i].name]
  BY <1>2 DEF SameKeys
<1> QED
  BY <1>3 DEF plans, keys

LEMMA DuplicateIs ==
    ASSUME NEW how, NEW keys, NEW list, NEW all
    PROVE  /\ \A i \in 2..Len(list) :
                how = "scan" /\ SameKeys(keys, all[list[i]], all[list[i - 1]])
                => Duplicate(<<how, keys>>, list, all)
           /\ \A i, j \in DOMAIN list :
                how # "scan" /\ i < j /\ SameKeys(keys, all[list[i]], all[list[j]])
                => Duplicate(<<how, keys>>, list, all)
<1>1. <<how, keys>>[1] = how /\ <<how, keys>>[2] = keys
  OBVIOUS
<1> QED
  BY <1>1 DEF Duplicate

(* Sorting leaves the two that agree beside each other, or with the third  *)
(* between them.                                                           *)
LEMMA SortedThree ==
    ASSUME NEW p, p.sortable, NEW N \in Nat, NEW x \in 1..N, NEW y \in 1..N, NEW z \in 1..N
    PROVE  LET sorted == Canonicalize(p, <<x, y, z>>)
           IN  /\ sorted \in [1..3 -> 1..N] /\ DOMAIN sorted = 1..3 /\ Len(sorted) = 3
               /\ sorted[1] <= sorted[2] /\ sorted[2] <= sorted[3]
               /\ \E i, j \in 1..3 : i # j /\ sorted[i] = x /\ sorted[j] = z
<1> DEFINE list == <<x, y, z>>
           sorted == Canonicalize(p, list)
<1>1. list \in [1..3 -> 1..N] /\ list[1] = x /\ list[3] = z
  OBVIOUS
<1> HIDE DEF list
<1>2. list \in [1..3 -> Nat]
  BY <1>1
<1>0. PICK places : Sorting(3, list, sorted, places)
  BY <1>2, SortedIs
<1> HIDE DEF sorted
<1>3. /\ places \in [1..3 -> 1..3]
      /\ sorted = [k \in 1..3 |-> list[places[k]]]
      /\ \A i \in 1..3 : \E k \in 1..3 : places[k] = i
      /\ \A i, j \in 1..3 : /\ i < j => list[places[i]] <= list[places[j]]
                            /\ places[i] = places[j] => i = j
  BY <1>0 DEF Sorting
<1>4. sorted \in [1..3 -> 1..N]
  BY <1>1, <1>3
<1>5. DOMAIN sorted = 1..3 /\ Len(sorted) = 3
  BY <1>4
<1>6. sorted[1] <= sorted[2] /\ sorted[2] <= sorted[3]
  BY <1>3
<1>7. PICK i \in 1..3 : places[i] = 1
  BY <1>3
<1>8. PICK j \in 1..3 : places[j] = 3
  BY <1>3
<1>9. i # j /\ sorted[i] = x /\ sorted[j] = z
  BY <1>1, <1>3, <1>7, <1>8
<1>10. \E k, l \in 1..3 : k # l /\ sorted[k] = x /\ sorted[l] = z
  BY <1>9
<1> QED
  BY <1>4, <1>5, <1>6, <1>10 DEF sorted, list

(* The check the compiler writes finds two elements that agree on all keys.*)
LEMMA ScanCatches ==
    ASSUME NEW s, IsSchema(s), NEW v, Gate(s, v) = "ok", NEW m \in ContractMessages,
           NEW f \in Fields(s, m), IsList(f), f.kind \in ContractMessages, Has(f, "unique_by")
    PROVE  CatchesDuplicates(s, Model(s), f)
<1> DEFINE p == PlanField(s, f)
           all == Elements(Model(s), f.kind)
           keys == f.opts["unique_by"]
           plans == CanonicalPlans(s, f.kind)
           check == IF AdjacentScanSound(s, f) THEN "scan" ELSE "set"
<1>1. PICK counts : Planful(plans, counts) /\ all = Listing(plans, counts)
  BY ElementsAre
<1>2. /\ Len(all) \in Nat /\ all \in [1..Len(all) -> Values(plans, counts)]
      /\ \A i, j \in 1..Len(all) : i < j <=> CanonicalCmp(plans, all[i], all[j]) < 0
  BY <1>1, ListingIs
<1>3. p.sortable = Has(f, "unordered") /\ UniqueCheck(p) = <<check, keys>>
  BY UniqueCheckIs
<1>4. \A a, b : SameKeys(keys, a, b) => SameKeys(keys, b, a)
  BY DEF SameKeys
<1> SUFFICES ASSUME NEW x \in 1..Len(all), NEW z \in 1..Len(all), SameKeys(keys, all[x], all[z]),
                    NEW y \in 1..Len(all)
             PROVE  Duplicate(<<check, keys>>, Canonicalize(p, <<x, y, z>>), all)
  <2>1. \A x \in DOMAIN all : \A z \in x..Len(all) : x \in 1..Len(all) /\ z \in 1..Len(all)
    BY <1>2
  <2> QED
    BY <1>2, <1>3, <2>1 DEF CatchesDuplicates
<1> DEFINE list == <<x, y, z>>
           sorted == Canonicalize(p, list)
<1> SUFFICES Duplicate(<<check, keys>>, sorted, all)
  OBVIOUS
<1>5. CASE ~p.sortable
  <2>1. sorted = list
    BY <1>5 DEF Canonicalize
  <2>2. check # "scan"
    BY <1>3, <1>5 DEF AdjacentScanSound
  <2>3. 1 \in DOMAIN list /\ 3 \in DOMAIN list /\ 1 < 3 /\ list[1] = x /\ list[3] = z
    OBVIOUS
  <2> HIDE DEF list, check, all, keys, p
  <2>4. Duplicate(<<check, keys>>, list, all)
    BY <2>2, <2>3, DuplicateIs
  <2> QED
    BY <2>1, <2>4 DEF list
<1>6. CASE p.sortable
  <2>1. /\ sorted \in [1..3 -> 1..Len(all)] /\ DOMAIN sorted = 1..3 /\ Len(sorted) = 3
        /\ sorted[1] <= sorted[2] /\ sorted[2] <= sorted[3]
        /\ \E i, j \in 1..3 : i # j /\ sorted[i] = x /\ sorted[j] = z
    BY <1>2, <1>6, SortedThree
  <2> DEFINE at(i) == all[sorted[i]]
  <2>2. PICK i \in 1..3, j \in 1..3 : i < j /\ SameKeys(keys, at(i), at(j))
    <3>1. PICK i \in 1..3, j \in 1..3 : i # j /\ sorted[i] = x /\ sorted[j] = z
      BY <2>1
    <3> HIDE DEF sorted, all, keys
    <3>2. SameKeys(keys, at(i), at(j)) /\ SameKeys(keys, at(j), at(i))
      BY <1>4, <3>1
    <3>3. i < j \/ j < i
      BY <3>1
    <3> HIDE DEF at
    <3> QED
      BY <3>2, <3>3
  <2>3. CASE check # "scan"
    <3> HIDE DEF sorted, all, keys, check
    <3> QED
      BY <2>1, <2>2, <2>3, DuplicateIs
  <2>4. CASE check = "scan"
    <3>1. AdjacentScanSound(s, f)
      BY <2>4
    <3>2. \A k \in 2..3 : SameKeys(keys, at(k), at(k - 1)) => Duplicate(<<check, keys>>, sorted, all)
      <4> HIDE DEF sorted, all, keys, check
      <4> QED
        BY <2>1, <2>4, DuplicateIs
    <3>3. CASE j = i + 1
      <4>1. j \in 2..3 /\ j - 1 = i
        BY <3>3
      <4> HIDE DEF sorted, all, keys, check
      <4>2. SameKeys(keys, at(j), at(j - 1))
        BY <1>4, <2>2, <4>1
      <4> HIDE DEF at
      <4> QED
        BY <3>2, <4>1, <4>2
    <3>4. CASE j # i + 1
      <4>1. i = 1 /\ j = 3
        BY <2>2, <3>4
      <4> DEFINE a == at(1)
                 b == at(2)
                 c == at(3)
                 K == {k \in 1..Len(plans) : plans[k].name \in Range(keys)}
                 values == Values(plans, counts)
      <4>2. a \in values /\ b \in values /\ c \in values
        <5> HIDE DEF sorted, all, values
        <5>1. all \in [1..Len(all) -> values]
          BY <1>2 DEF values
        <5> QED
          BY <2>1, <5>1
      <4>3. (a = b \/ CanonicalCmp(plans, a, b) < 0) /\ (b = c \/ CanonicalCmp(plans, b, c) < 0)
        <5> HIDE DEF sorted, all, plans
        <5>1. /\ sorted[1] \in 1..Len(all) /\ sorted[2] \in 1..Len(all) /\ sorted[3] \in 1..Len(all)
          BY <2>1
        <5>2. /\ sorted[1] = sorted[2] \/ sorted[1] < sorted[2]
              /\ sorted[2] = sorted[3] \/ sorted[2] < sorted[3]
          BY <1>2, <2>1, <5>1
        <5> QED
          BY <1>2, <5>1, <5>2
      <4>4. Len(plans) \in Nat
        BY <1>1 DEF Planful
      <4>5. \A k \in K : \A l \in 1..k : l \in K
        <5>1. \A k \in 1..Len(plans) : \A l \in 1..k : l \in 1..Len(plans)
          BY <4>4
        <5>2. \A k \in 1..Len(plans) : \A l \in 1..k :
                 plans[k].name \in Range(keys) => plans[l].name \in Range(keys)
          BY <3>1, KeysLead
        <5> HIDE DEF plans, keys
        <5> QED
          BY <5>1, <5>2
      <4>6. SameKeys(keys, a, c)
        <5> HIDE DEF at
        <5> QED
          BY <2>2, <4>1
      <4> HIDE DEF a, b, c
      <4>7. \A k \in K : a[plans[k].name] = c[plans[k].name]
        <5>1. \A k \in 1..Len(plans) : plans[k].name \in Range(keys) => a[plans[k].name] = c[plans[k].name]
          BY <4>6, SameKeysIs
        <5> HIDE DEF plans, keys
        <5> QED
          BY <5>1
      <4>8. \A k \in K : a[plans[k].name] = b[plans[k].name]
        <5>1. Leading(plans, K) /\ NotAfter(plans, a, b) /\ NotAfter(plans, b, c) /\ Agree(plans, K, a, c)
          <6>1. K \subseteq 1..Len(plans)
            OBVIOUS
          <6> HIDE DEF plans, K
          <6> QED
            BY <4>3, <4>5, <4>7, <6>1 DEF Leading, NotAfter, Agree
        <5> HIDE DEF plans, K
        <5> QED
          BY <1>1, <4>2, <5>1, BetweenAgrees DEF Agree
      <4>9. SameKeys(keys, a, b)
        <5>1. \A k \in 1..Len(plans) : plans[k].name \in Range(keys) => a[plans[k].name] = b[plans[k].name]
          <6> HIDE DEF plans, keys
          <6> QED
            BY <4>8
        <5> QED
          BY <5>1, SameKeysIs
      <4>10. SameKeys(keys, at(2), at(1))
        <5> HIDE DEF all, sorted, keys
        <5> QED
          BY <1>4, <4>9 DEF a, b
      <4>11. 2 \in 2..3 /\ 2 - 1 = 1
        OBVIOUS
      <4> HIDE DEF at, all, sorted, keys, check
      <4>12. SameKeys(keys, at(2), at(2 - 1))
        BY <4>10, <4>11
      <4> QED
        BY <3>2, <4>11, <4>12
    <3> QED
      BY <3>3, <3>4
  <2> QED
    BY <2>3, <2>4
<1> QED
  BY <1>5, <1>6

(* Whatever contract schema the lint lets pass, the check the generated    *)
(* code makes of a keyed list (adjacent_scan_sound, message_items) finds   *)
(* every two elements that agree on all keys.                              *)
THEOREM UniquenessIsChecked == Spec => []UniquenessHolds
<1>1. Tree /\ IsSchema(schema) => UniquenessHolds
  <2> SUFFICES ASSUME Tree, IsSchema(schema), Compiled, NEW f \in Lists, Has(f, "unique_by")
               PROVE  CatchesDuplicates(output.seen, output.files.model[2], f)
    BY DEF UniquenessHolds
  <2> DEFINE seen == Descriptors(schema, vocabulary)
  <2>1. output.gate = "ok" /\ output = Compile(schema, vocabulary)
    BY DEF Compiled, Tree
  <2>2. Gate(seen, vocabulary) = "ok" /\ output.seen = seen /\ output.files = Rendering(seen)
    BY <2>1 DEF Compile
  <2>3. Resolve(vocabulary) = "ok"
    BY <2>2 DEF Gate
  <2>4. seen = schema
    BY <2>3, SeenIsWritten
  <2>5. output.files.model[2] = Model(schema)
    BY <2>2, <2>4 DEF Rendering
  <2>6. DOMAIN schema = ContractMessages
    BY DEF IsSchema
  <2>7. PICK m \in ContractMessages : f \in Fields(schema, m) /\ IsList(f) /\ f.kind \in ContractMessages
    BY <2>2, <2>4, <2>6 DEF Lists
  <2> QED
    BY <2>2, <2>4, <2>5, <2>7, ScanCatches
<1> QED
  BY <1>1, TreeHolds, SchemaHolds, PTL
-----------------------------------------------------------------------------
(* Closure of what a message nests holds that message: there is such a     *)
(* function as reach defines (else there were a least number up to which   *)
(* there is none), and it only grows.                                      *)
Reaching(next, from, n, r) ==
    r = [i \in 0..n |-> IF i = 0 THEN from ELSE r[i - 1] \cup UNION {next[m] : m \in r[i - 1]}]

LEMMA ReachExists == ASSUME NEW next, NEW from PROVE \A n \in Nat : \E r : Reaching(next, from, n, r)
<1> DEFINE None == {n \in Nat : ~\E r : Reaching(next, from, n, r)}
           n == Min(None)
<1> SUFFICES ASSUME None # {} PROVE FALSE
  OBVIOUS
<1>1. n \in None /\ \A k \in None : n <= k
  <2>1. None \in SUBSET Nat
    OBVIOUS
  <2> HIDE DEF None
  <2> QED
    BY <2>1, LeastOf
<1>2. CASE n = 0
  <2>1. Reaching(next, from, 0, [i \in 0..0 |-> from])
    BY DEF Reaching
  <2> HIDE DEF n
  <2> QED
    BY <1>1, <1>2, <2>1
<1>3. CASE n # 0
  <2>1. n \in Nat /\ n - 1 \in Nat /\ ~(n <= n - 1)
    BY <1>1, <1>3
  <2>2. PICK r : Reaching(next, from, n - 1, r)
    BY <1>1, <2>1
  <2> DEFINE step(i, q) == IF i = 0 THEN from ELSE q[i - 1] \cup UNION {next[m] : m \in q[i - 1]}
             q == [i \in 0..n |-> IF i = n THEN r[n - 1] \cup UNION {next[m] : m \in r[n - 1]} ELSE r[i]]
  <2>3. \A i \in 0..(n - 1) : r[i] = step(i, r)
    BY <2>2 DEF Reaching
  <2>4. \A i \in 0..n : i \in 0..(n - 1) \/ i = n
    BY <2>1
  <2>5. \A i \in 0..n : i # 0 => i - 1 \in 0..(n - 1) /\ i - 1 \in 0..n /\ i - 1 # n
    BY <2>1
  <2> HIDE DEF n
  <2>6. \A i \in 0..(n - 1) : q[i] = r[i]
    BY <2>1
  <2>7. \A i \in 0..n : q[i] = step(i, q)
    <3> TAKE i \in 0..n
    <3>1. CASE i = 0
      <4>1. 0 \in 0..(n - 1)
        BY <1>3, <2>1
      <4>2. q[0] = r[0] /\ r[0] = from
        BY <2>3, <2>6, <4>1
      <4> QED
        BY <3>1, <4>2
    <3>2. CASE i # 0 /\ i # n
      <4>1. q[i] = r[i] /\ r[i] = step(i, r) /\ q[i - 1] = r[i - 1]
        BY <2>3, <2>4, <2>5, <2>6, <3>2
      <4> QED
        BY <3>2, <4>1
    <3>3. CASE i = n
      <4>1. q[n - 1] = r[n - 1]
        BY <1>3, <2>1, <2>6
      <4> QED
        BY <1>3, <3>3, <4>1
    <3> QED
      BY <3>1, <3>2, <3>3
  <2>8. q = [i \in 0..n |-> step(i, q)]
    <3>1. DOMAIN q = 0..n /\ q = [i \in 0..n |-> q[i]]
      OBVIOUS
    <3> HIDE DEF q, step
    <3> QED
      BY <2>7, <3>1
  <2>9. Reaching(next, from, n, q)
    <3> HIDE DEF q
    <3> QED
      BY <2>8 DEF Reaching
  <2> QED
    BY <1>1, <2>9
<1> QED
  BY <1>2, <1>3

LEMMA ClosureHolds ==
    ASSUME NEW next, Cardinality(DOMAIN next) \in Nat, NEW from
    PROVE  from \subseteq Closure(next, from)
<1> DEFINE K == Cardinality(DOMAIN next)
           reach == CHOOSE r : Reaching(next, from, K, r)
           Lost == {n \in Nat : n <= K /\ ~(from \subseteq reach[n])}
           n == Min(Lost)
<1>1. Closure(next, from) = reach[K]
  BY DEF Closure, Reaching
<1> HIDE DEF K
<1>2. K \in Nat
  BY DEF K
<1>3. Reaching(next, from, K, reach)
  BY <1>2, ReachExists
<1> HIDE DEF reach
<1>4. /\ reach[0] = from
      /\ \A i \in 1..K : reach[i - 1] \subseteq reach[i]
  BY <1>2, <1>3 DEF Reaching
<1> SUFFICES ASSUME Lost # {} PROVE FALSE
  BY <1>1, <1>2
<1>5. n \in Lost /\ \A k \in Lost : n <= k
  <2>1. Lost \in SUBSET Nat
    OBVIOUS
  <2> HIDE DEF Lost
  <2> QED
    BY <2>1, LeastOf
<1> HIDE DEF n
<1>6. n # 0
  BY <1>4, <1>5
<1>7. n \in 1..K /\ n - 1 \in Nat /\ n - 1 <= K /\ ~(n <= n - 1)
  BY <1>2, <1>5, <1>6
<1> QED
  BY <1>4, <1>5, <1>7
-----------------------------------------------------------------------------
(* What a field tells of its value, absent or the u-th its kind has; and   *)
(* when that determines the value, what another tells of it, or where it   *)
(* stands in the canonical order.                                          *)
Tells(within, u) == IF u = 0 THEN <<>> ELSE <<within[u]>>
Visible(plans) == {i \in 1..Len(plans) : ~plans[i].metadata}

Sharp(told, N) == \A u, v \in 1..N : told[u] = told[v] => u = v
Follows(told, other, N) == \A u, v \in 1..N : told[u] = told[v] => other[u] = other[v]
Steady(told, N) ==
    \A u, v, x, y \in 1..N :
        told[u] # told[v] /\ told[x] = told[u] /\ told[y] = told[v] /\ u < v => x < y

LEMMA SharpIsSteady == ASSUME NEW told, NEW N, Sharp(told, N) PROVE Steady(told, N)
BY DEF Sharp, Steady

LEMMA TellsIs ==
    ASSUME NEW told, NEW N \in Nat, NEW u \in 0..N, NEW v \in 0..N
    PROVE  Tells(told, u) = Tells(told, v) <=> (u = 0 /\ v = 0) \/ (u # 0 /\ v # 0 /\ told[u] = told[v])
<1>1. \A x, y : <<x>> # <<>> /\ (<<x>> = <<y>> <=> x = y)
  OBVIOUS
<1> QED
  BY <1>1 DEF Tells

(* Plans that may be walked: names of their own, metadata last.            *)
Named(plans) ==
    /\ \A i, j \in 1..Len(plans) : plans[i].name = plans[j].name => i = j
    /\ \A i \in Visible(plans) : \A j \in 1..i : j \in Visible(plans)

(* Equal content: every visible field tells the same.                      *)
AllTell(plans, within, a, b) ==
    \A i \in Visible(plans) : Tells(within[i], a[plans[i].name]) = Tells(within[i], b[plans[i].name])

LEMMA ContentIs ==
    ASSUME NEW plans, Len(plans) \in Nat, DOMAIN plans = 1..Len(plans), Named(plans),
           NEW a, NEW b, NEW within
    PROVE  Content(plans, a, within) = Content(plans, b, within) <=> AllTell(plans, within, a, b)
<1> DEFINE x(i) == Tells(within[i], a[plans[i].name])
           y(i) == Tells(within[i], b[plans[i].name])
           V == Visible(plans)
<1>1. /\ Content(plans, a, within) = {<<plans[i].name, x(i)>> : i \in V}
      /\ Content(plans, b, within) = {<<plans[i].name, y(i)>> : i \in V}
  BY DEF Content, Tells, Visible
<1>2. \A i, j \in V : plans[i].name = plans[j].name => i = j
  BY DEF Named, Visible
<1> HIDE DEF x, y, V
<1>3. (\A i \in V : x(i) = y(i)) => Content(plans, a, within) = Content(plans, b, within)
  BY <1>1
<1>4. ASSUME Content(plans, a, within) = Content(plans, b, within), NEW i \in V PROVE x(i) = y(i)
  <2>1. <<plans[i].name, x(i)>> \in {<<plans[j].name, y(j)>> : j \in V}
    BY <1>1, <1>4
  <2>2. PICK j \in V : <<plans[i].name, x(i)>> = <<plans[j].name, y(j)>>
    BY <2>1
  <2>3. plans[i].name = plans[j].name /\ x(i) = y(j)
    BY <2>2
  <2> QED
    BY <1>2, <2>3
<1> QED
  BY <1>3, <1>4 DEF x, y, V, AllTell

(* Equal digests: every visible field has the same.                        *)
LEMMA DigestIs ==
    ASSUME NEW plans, Len(plans) \in Nat, DOMAIN plans = 1..Len(plans), NEW a, NEW b, NEW within,
           \A i \in Visible(plans) :
              LET u == a[plans[i].name]
                  v == b[plans[i].name]
              IN  (u = 0 /\ v = 0) \/ (u # 0 /\ v # 0 /\ within[i][u] = within[i][v])
    PROVE  Digest(plans, a, within) = Digest(plans, b, within)
<1> DEFINE of(p, held, c) ==
              IF p.metadata THEN <<>>
              ELSE IF p.decl = "vec" THEN <<p.number, 0>>
              ELSE IF c[p.name] = 0 THEN <<>>
              ELSE <<p.number>> \o held[c[p.name]]
           x == [i \in DOMAIN plans |-> of(plans[i], within[i], a)]
           y == [i \in DOMAIN plans |-> of(plans[i], within[i], b)]
<1>1. \A i \in DOMAIN plans : of(plans[i], within[i], a) = of(plans[i], within[i], b)
  <2> TAKE i \in DOMAIN plans
  <2>1. CASE plans[i].metadata
    BY <2>1
  <2>2. CASE ~plans[i].metadata
    <3>1. i \in Visible(plans)
      BY <2>2 DEF Visible
    <3> QED
      BY <3>1
  <2> QED
    BY <2>1, <2>2
<1>2. x = y
  <2> HIDE DEF of
  <2> QED
    BY <1>1
<1>3. Digest(plans, a, within) = FlattenSeq(x) \o <<0>> /\ Digest(plans, b, within) = FlattenSeq(y) \o <<0>>
  BY DEF Digest
<1> HIDE DEF x, y
<1> QED
  BY <1>2, <1>3
-----------------------------------------------------------------------------
LEMMA ValueIs ==
    ASSUME NEW plans, NEW counts, Planful(plans, counts), NEW a \in Values(plans, counts),
           NEW i \in 1..Len(plans)
    PROVE  a[plans[i].name] \in 0..counts[i]
<1>1. a[plans[i].name] \in Fills(plans[i], counts[i])
  BY DEF Values, Planful
<1>2. Fills(plans[i], counts[i]) \subseteq 0..counts[i]
  BY FillsAre DEF Planful
<1> QED
  BY <1>1, <1>2

(* What is told of the values of a message, in their order.                *)
Contents(plans, all, within) == [n \in 1..Len(all) |-> Content(plans, all[n], within)]
Digests(plans, all, within) == [n \in 1..Len(all) |-> Digest(plans, all[n], within)]

(* If, of every visible field, content says what is hashed, it does of the *)
(* message.                                                                *)
LEMMA MessageFollows ==
    ASSUME NEW plans, NEW counts, Planful(plans, counts), Named(plans), NEW told, NEW hashed,
           \A i \in Visible(plans) : Follows(told[i], hashed[i], counts[i])
    PROVE  LET all == Listing(plans, counts)
           IN  Follows(Contents(plans, all, told), Digests(plans, all, hashed), Len(all))
<1> DEFINE all == Listing(plans, counts)
           x(n, i) == all[n][plans[i].name]
<1>1. Len(all) \in Nat /\ all \in [1..Len(all) -> Values(plans, counts)]
  BY ListingIs
<1> SUFFICES ASSUME NEW u \in 1..Len(all), NEW v \in 1..Len(all),
                    Content(plans, all[u], told) = Content(plans, all[v], told)
             PROVE  Digest(plans, all[u], hashed) = Digest(plans, all[v], hashed)
  BY DEF Follows, Contents, Digests
<1>2. all[u] \in Values(plans, counts) /\ all[v] \in Values(plans, counts)
  BY <1>1
<1> HIDE DEF all
<1>3. Len(plans) \in Nat /\ DOMAIN plans = 1..Len(plans)
  BY DEF Planful
<1>4. \A i \in Visible(plans) : Tells(told[i], x(u, i)) = Tells(told[i], x(v, i))
  BY <1>3, ContentIs DEF AllTell
<1>5. ASSUME NEW i \in Visible(plans)
      PROVE  (x(u, i) = 0 /\ x(v, i) = 0)
               \/ (x(u, i) # 0 /\ x(v, i) # 0 /\ hashed[i][x(u, i)] = hashed[i][x(v, i)])
  <2>1. i \in 1..Len(plans) /\ counts[i] \in Nat
    BY DEF Visible, Planful
  <2>2. x(u, i) \in 0..counts[i] /\ x(v, i) \in 0..counts[i]
    BY <1>2, <2>1, ValueIs
  <2>3. Tells(told[i], x(u, i)) = Tells(told[i], x(v, i))
    BY <1>4, <1>5
  <2> HIDE DEF x
  <2>4. (x(u, i) = 0 /\ x(v, i) = 0) \/ (x(u, i) # 0 /\ x(v, i) # 0 /\ told[i][x(u, i)] = told[i][x(v, i)])
    BY <2>1, <2>2, <2>3, TellsIs
  <2>5. Follows(told[i], hashed[i], counts[i])
    BY <1>5
  <2>6. \A c : c # 0 /\ c \in 0..counts[i] => c \in 1..counts[i]
    BY <2>1
  <2> QED
    BY <2>2, <2>4, <2>5, <2>6 DEF Follows
<1> HIDE DEF x
<1>6. \A i \in Visible(plans) :
          (x(u, i) = 0 /\ x(v, i) = 0)
            \/ (x(u, i) # 0 /\ x(v, i) # 0 /\ hashed[i][x(u, i)] = hashed[i][x(v, i)])
  BY <1>5
<1> QED
  BY <1>3, <1>6, DigestIs DEF x

(* If every field is visible and its content determines its value, the     *)
(* content of the message determines its value.                            *)
LEMMA MessageSharp ==
    ASSUME NEW plans, NEW counts, Planful(plans, counts), Named(plans), NEW told,
           \A i \in 1..Len(plans) : i \in Visible(plans) /\ Sharp(told[i], counts[i])
    PROVE  LET all == Listing(plans, counts)
           IN  Sharp(Contents(plans, all, told), Len(all))
<1> DEFINE all == Listing(plans, counts)
           x(n, i) == all[n][plans[i].name]
<1>1. /\ Len(all) \in Nat /\ all \in [1..Len(all) -> Values(plans, counts)]
      /\ \A u, v \in 1..Len(all) : all[u] = all[v] => u = v
  BY ListingIs
<1> SUFFICES ASSUME NEW u \in 1..Len(all), NEW v \in 1..Len(all),
                    Content(plans, all[u], told) = Content(plans, all[v], told)
             PROVE  all[u] = all[v]
  BY <1>1 DEF Sharp, Contents
<1>2. all[u] \in Values(plans, counts) /\ all[v] \in Values(plans, counts)
  BY <1>1
<1> HIDE DEF all
<1>3. Len(plans) \in Nat /\ DOMAIN plans = 1..Len(plans)
  BY DEF Planful
<1>4. \A i \in Visible(plans) : Tells(told[i], x(u, i)) = Tells(told[i], x(v, i))
  BY <1>3, ContentIs DEF AllTell
<1>5. ASSUME NEW i \in 1..Len(plans) PROVE x(u, i) = x(v, i)
  <2>1. counts[i] \in Nat
    BY DEF Planful
  <2>2. x(u, i) \in 0..counts[i] /\ x(v, i) \in 0..counts[i]
    BY <1>2, ValueIs
  <2>3. Tells(told[i], x(u, i)) = Tells(told[i], x(v, i))
    BY <1>4
  <2> HIDE DEF x
  <2>4. (x(u, i) = 0 /\ x(v, i) = 0) \/ (x(u, i) # 0 /\ x(v, i) # 0 /\ told[i][x(u, i)] = told[i][x(v, i)])
    BY <2>1, <2>2, <2>3, TellsIs
  <2>5. \A c : c # 0 /\ c \in 0..counts[i] => c \in 1..counts[i]
    BY <2>1
  <2> QED
    BY <2>2, <2>4, <2>5 DEF Sharp
<1>6. \A i \in 1..Len(plans) : all[u][plans[i].name] = all[v][plans[i].name]
  BY <1>5
<1> QED
  BY <1>2, <1>6, ValuesAre

LEMMA SteadyTells ==
    ASSUME NEW told, NEW N \in Nat, Steady(told, N),
           NEW u \in 0..N, NEW v \in 0..N, NEW x \in 0..N, NEW y \in 0..N,
           Tells(told, u) # Tells(told, v), Tells(told, x) = Tells(told, u), Tells(told, y) = Tells(told, v),
           u < v
    PROVE  x < y
<1>1. v # 0 /\ y # 0 /\ told[y] = told[v]
  <2>1. v # 0
    OBVIOUS
  <2> QED
    BY <2>1, TellsIs
<1>2. CASE u = 0
  <2>1. x = 0
    BY <1>2, TellsIs
  <2> QED
    BY <1>1, <2>1
<1>3. CASE u # 0
  <2>1. x # 0 /\ told[x] = told[u]
    BY <1>3, TellsIs
  <2>2. told[u] # told[v]
    BY <1>1, <1>3, TellsIs
  <2>3. u \in 1..N /\ v \in 1..N /\ x \in 1..N /\ y \in 1..N
    BY <1>1, <1>3, <2>1
  <2> QED
    BY <1>1, <2>1, <2>2, <2>3 DEF Steady
<1> QED
  BY <1>2, <1>3

(* If the content of every visible field but the last determines its value,*)
(* and that of the last where it stands, then the content of the message   *)
(* says where it stands among messages of other content.                   *)
LEMMA MessageSteady ==
    ASSUME NEW plans, NEW counts, Planful(plans, counts), Named(plans), NEW told,
           \A i \in Visible(plans) : Steady(told[i], counts[i]),
           \A i, j \in Visible(plans) : i < j => Sharp(told[i], counts[i])
    PROVE  LET all == Listing(plans, counts)
           IN  Steady(Contents(plans, all, told), Len(all))
<1> DEFINE all == Listing(plans, counts)
           val(n, i) == all[n][plans[i].name]
           tell(n, i) == Tells(told[i], val(n, i))
           V == Visible(plans)
<1>1. /\ Len(all) \in Nat /\ all \in [1..Len(all) -> Values(plans, counts)]
      /\ \A u, v \in 1..Len(all) : u < v <=> CanonicalCmp(plans, all[u], all[v]) < 0
  BY ListingIs
<1> SUFFICES ASSUME NEW u \in 1..Len(all), NEW v \in 1..Len(all),
                    NEW x \in 1..Len(all), NEW y \in 1..Len(all),
                    Content(plans, all[u], told) # Content(plans, all[v], told),
                    Content(plans, all[x], told) = Content(plans, all[u], told),
                    Content(plans, all[y], told) = Content(plans, all[v], told),
                    u < v
             PROVE  x < y
  BY DEF Steady, Contents
<1>2. \A n \in 1..Len(all) : all[n] \in Values(plans, counts)
  BY <1>1
<1>3. Len(plans) \in Nat /\ DOMAIN plans = 1..Len(plans)
  BY DEF Planful
<1>4. \A i \in 1..Len(plans) : counts[i] \in Nat /\ \A n \in 1..Len(all) : val(n, i) \in 0..counts[i]
  BY <1>2, ValueIs DEF Planful
<1> HIDE DEF all
<1>5. \A m, n \in 1..Len(all) :
         Content(plans, all[m], told) = Content(plans, all[n], told)
           <=> \A i \in V : tell(m, i) = tell(n, i)
  <2> TAKE m, n \in 1..Len(all)
  <2>1. Content(plans, all[m], told) = Content(plans, all[n], told)
          <=> AllTell(plans, told, all[m], all[n])
    BY <1>3, ContentIs
  <2> QED
    BY <2>1 DEF AllTell
<1> HIDE DEF tell
<1> DEFINE Apart == {i \in V : tell(u, i) # tell(v, i)}
           k == Min(Apart)
<1>6. k \in V /\ k \in 1..Len(plans) /\ tell(u, k) # tell(v, k) /\ \A i \in Apart : k <= i
  <2>0. V \subseteq 1..Len(plans)
    BY DEF Visible
  <2>1. Apart # {} /\ Apart \in SUBSET Nat
    <3>1. \E i \in V : tell(u, i) # tell(v, i)
      <4> HIDE DEF V
      <4> QED
        BY <1>5
    <3>2. V \subseteq Nat
      <4> HIDE DEF V
      <4> QED
        BY <1>3, <2>0
    <3> HIDE DEF V
    <3> QED
      BY <3>1, <3>2
  <2>2. k \in Apart /\ \A i \in Apart : k <= i
    <3> HIDE DEF Apart
    <3> QED
      BY <2>1, LeastOf
  <2> HIDE DEF k, V
  <2> QED
    BY <2>0, <2>2
<1> HIDE DEF k
<1>7. \A i \in 1..(k - 1) : i \in V /\ i \in 1..Len(plans) /\ i < k
  <2> TAKE i \in 1..(k - 1)
  <2>1. i \in 1..k /\ i < k /\ i \in 1..Len(plans)
    BY <1>3, <1>6
  <2> QED
    BY <1>6, <2>1 DEF Named
<1>8. \A i \in 1..(k - 1) : tell(u, i) = tell(v, i)
  <2> SUFFICES ASSUME NEW i \in 1..(k - 1), tell(u, i) # tell(v, i) PROVE FALSE
    OBVIOUS
  <2>1. i \in Apart /\ i < k
    BY <1>7
  <2>2. k \in Int /\ i \in Int
    BY <1>6
  <2> QED
    BY <1>6, <2>1, <2>2
<1>9. \A i \in V : tell(x, i) = tell(u, i) /\ tell(y, i) = tell(v, i)
  BY <1>5
<1>10. \A m, n \in 1..Len(all) : \A i \in 1..(k - 1) : tell(m, i) = tell(n, i) => val(m, i) = val(n, i)
  <2> SUFFICES ASSUME NEW m \in 1..Len(all), NEW n \in 1..Len(all), NEW i \in 1..(k - 1),
                      tell(m, i) = tell(n, i)
               PROVE  val(m, i) = val(n, i)
    OBVIOUS
  <2>1. Sharp(told[i], counts[i])
    BY <1>6, <1>7
  <2>2. counts[i] \in Nat /\ val(m, i) \in 0..counts[i] /\ val(n, i) \in 0..counts[i]
    BY <1>4, <1>7
  <2> HIDE DEF val
  <2>3. \/ val(m, i) = 0 /\ val(n, i) = 0
        \/ val(m, i) # 0 /\ val(n, i) # 0 /\ told[i][val(m, i)] = told[i][val(n, i)]
    BY <2>2, TellsIs DEF tell
  <2>4. \A c : c # 0 /\ c \in 0..counts[i] => c \in 1..counts[i]
    BY <2>2
  <2> QED
    BY <2>1, <2>2, <2>3, <2>4 DEF Sharp
<1>11. First(plans, all[u], all[v], k)
  <2>1. val(u, k) # val(v, k)
    BY <1>6 DEF tell
  <2>2. \A i \in 1..(k - 1) : val(u, i) = val(v, i)
    BY <1>8, <1>10
  <2> QED
    BY <1>6, <2>1, <2>2 DEF First
<1>12. val(u, k) < val(v, k)
  <2>1. CmpInt(val(u, k), val(v, k)) < 0
    BY <1>1, <1>2, <1>11, CmpIs
  <2>2. val(u, k) \in Nat /\ val(v, k) \in Nat
    BY <1>4, <1>6
  <2> QED
    BY <2>1, <2>2 DEF CmpInt
<1>13. val(x, k) < val(y, k)
  <2>1. /\ counts[k] \in Nat /\ val(u, k) \in 0..counts[k] /\ val(v, k) \in 0..counts[k]
        /\ val(x, k) \in 0..counts[k] /\ val(y, k) \in 0..counts[k]
    BY <1>4, <1>6
  <2>2. Steady(told[k], counts[k])
    BY <1>6
  <2>3. tell(x, k) = tell(u, k) /\ tell(y, k) = tell(v, k)
    BY <1>6, <1>9
  <2> HIDE DEF val
  <2> QED
    BY <1>6, <1>12, <2>1, <2>2, <2>3, SteadyTells DEF tell
<1>14. First(plans, all[x], all[y], k)
  <2>1. val(x, k) # val(y, k)
    <3>1. val(x, k) \in Nat /\ val(y, k) \in Nat
      BY <1>4, <1>6
    <3> QED
      BY <1>13, <3>1
  <2>2. \A i \in 1..(k - 1) : tell(x, i) = tell(y, i)
    BY <1>7, <1>8, <1>9
  <2>3. \A i \in 1..(k - 1) : val(x, i) = val(y, i)
    BY <1>10, <2>2
  <2> QED
    BY <1>6, <2>1, <2>3 DEF First
<1>15. CanonicalCmp(plans, all[x], all[y]) = CmpInt(val(x, k), val(y, k))
  BY <1>2, <1>14, CmpIs
<1>16. CmpInt(val(x, k), val(y, k)) < 0
  BY <1>13 DEF CmpInt
<1> QED
  BY <1>1, <1>15, <1>16
-----------------------------------------------------------------------------
LEMMA CanonicalNamed ==
    ASSUME NEW s, IsSchema(s), NEW v, Gate(s, v) = "ok", NEW m \in ContractMessages
    PROVE  Named(CanonicalPlans(s, m))
<1> DEFINE plans == CanonicalPlans(s, m)
<1>1. Walks(s, m, plans) /\ (\A g \in Outside(s, m) : ~FieldRefused(g)) /\ IsMessage(s[m])
  BY ModelIs DEF IsSchema
<1> HIDE DEF plans
<1>2. /\ Len(plans) \in Nat
      /\ \A i, j \in 1..Len(plans) : i < j => Precedes(plans[i], plans[j])
  BY <1>1 DEF Walks
<1>3. \A i \in 1..Len(plans) : \E g \in Outside(s, m) :
         /\ plans[i] = PlanField(s, g) /\ plans[i].name = g.name
         /\ plans[i].metadata \in BOOLEAN /\ plans[i].number \in Nat
  <2> TAKE i \in 1..Len(plans)
  <2>1. PICK g \in Outside(s, m) : plans[i] = PlanField(s, g)
    BY <1>1 DEF Walks, FieldPlans
  <2>2. Has(g, "collection_metadata") \in BOOLEAN /\ g.number \in Nat
    BY <1>1 DEF Has, Outside, Fields, IsMessage, IsField
  <2> QED
    BY <1>1, <2>1, <2>2, PlanIs
<1>4. \A i, j \in 1..Len(plans) : plans[i].name = plans[j].name => plans[i] = plans[j]
  <2> SUFFICES ASSUME NEW i \in 1..Len(plans), NEW j \in 1..Len(plans), plans[i].name = plans[j].name
               PROVE  plans[i] = plans[j]
    OBVIOUS
  <2>1. PICK g \in Outside(s, m) : plans[i] = PlanField(s, g) /\ plans[i].name = g.name
    BY <1>3
  <2>2. PICK h \in Outside(s, m) : plans[j] = PlanField(s, h) /\ plans[j].name = h.name
    BY <1>3
  <2>3. g = h
    BY <1>1, <2>1, <2>2 DEF Outside, Fields, IsMessage
  <2> QED
    BY <2>1, <2>2, <2>3
<1>5. \A i, j \in 1..Len(plans) : i < j => plans[i] # plans[j]
  BY <1>2, <1>3 DEF Precedes
<1>6. \A i, j \in 1..Len(plans) : plans[i].name = plans[j].name => i = j
  BY <1>2, <1>4, <1>5
<1>7. \A i \in Visible(plans) : \A j \in 1..i : j \in Visible(plans)
  <2> SUFFICES ASSUME NEW i \in 1..Len(plans), ~plans[i].metadata, NEW j \in 1..i
               PROVE  j \in 1..Len(plans) /\ ~plans[j].metadata
    BY DEF Visible
  <2>1. j \in 1..Len(plans) /\ (j = i \/ j < i)
    BY <1>2
  <2>2. CASE j < i
    BY <1>2, <1>3, <2>1, <2>2 DEF Precedes
  <2> QED
    BY <2>1, <2>2
<1> QED
  BY <1>6, <1>7 DEF Named, plans

(* A scalar is its own content and digest. *)
LEMMA ScalarIs ==
    ASSUME NEW n \in 0..2
    PROVE  /\ Sharp(<<1, 2>>, n) /\ Steady(<<1, 2>>, n)
           /\ Follows(<<1, 2>>, << <<1>>, <<2>> >>, n)
<1>1. \A u \in 1..n : u \in {1, 2}
  OBVIOUS
<1>2. Sharp(<<1, 2>>, n)
  BY <1>1 DEF Sharp
<1>3. Follows(<<1, 2>>, << <<1>>, <<2>> >>, n)
  BY <1>2 DEF Sharp, Follows
<1> QED
  BY <1>2, <1>3, SharpIsSteady

(* What is told of a message inside an element. *)
LEMMA InnerTells ==
    ASSUME NEW s, IsSchema(s), NEW v, Gate(s, v) = "ok", NEW m \in ContractMessages
    PROVE  LET content == InnerTold(Model(s), m, Content, <<1, 2>>)
               digest == InnerTold(Model(s), m, Digest, << <<1>>, <<2>> >>)
               N == Len(Inner(Model(s), m))
           IN  /\ N \in Nat /\ Follows(content, digest, N) /\ Steady(content, N)
               /\ (\A f \in Fields(s, m) : ~Has(f, "collection_metadata")) => Sharp(content, N)
<1> DEFINE plans == CanonicalPlans(s, m)
           all == Inner(Model(s), m)
           N == Len(all)
           told == [i \in DOMAIN plans |-> <<1, 2>>]
           hashed == [i \in DOMAIN plans |-> << <<1>>, <<2>> >>]
<1>1. /\ Model(s)[m].canonical = plans /\ Walks(s, m, plans)
      /\ \A f \in Outside(s, m) : ~FieldRefused(f)
  BY ModelIs
<1>2. PICK counts : /\ Planful(plans, counts) /\ all = Listing(plans, counts)
                    /\ \A i \in 1..Len(plans) : counts[i] \in 0..2
  BY InnerIs
<1>3. N \in Nat /\ DOMAIN all = 1..N
  BY <1>2, ListingIs
<1>4. InnerTold(Model(s), m, Content, <<1, 2>>) = Contents(plans, all, told)
  <2>1. InnerTold(Model(s), m, Content, <<1, 2>>) = Tuple(Contents(plans, all, told))
    BY <1>1, <1>3 DEF InnerTold, Contents
  <2>2. Contents(plans, all, told) = [n \in 1..N |-> Contents(plans, all, told)[n]]
    BY DEF Contents
  <2> QED
    BY <1>3, <2>1, <2>2, TupleIs
<1>5. InnerTold(Model(s), m, Digest, << <<1>>, <<2>> >>) = Digests(plans, all, hashed)
  <2>1. InnerTold(Model(s), m, Digest, << <<1>>, <<2>> >>) = Tuple(Digests(plans, all, hashed))
    BY <1>1, <1>3 DEF InnerTold, Digests
  <2>2. Digests(plans, all, hashed) = [n \in 1..N |-> Digests(plans, all, hashed)[n]]
    BY DEF Digests
  <2> QED
    BY <1>3, <2>1, <2>2, TupleIs
<1>6. Named(plans) /\ DOMAIN plans = 1..Len(plans) /\ Len(plans) \in Nat
  BY <1>2, CanonicalNamed DEF Planful
<1>7. \A i \in 1..Len(plans) : /\ Sharp(told[i], counts[i]) /\ Steady(told[i], counts[i])
                               /\ Follows(told[i], hashed[i], counts[i])
  BY <1>2, <1>6, ScalarIs
<1>8. \A i \in Visible(plans) : i \in 1..Len(plans)
  BY DEF Visible
<1>9. (\A f \in Fields(s, m) : ~Has(f, "collection_metadata"))
        => \A i \in 1..Len(plans) : i \in Visible(plans)
  BY <1>1, PlanIs DEF Walks, FieldPlans, Visible, Outside
<1> HIDE DEF plans, told, hashed, all
<1>10. Follows(Contents(plans, all, told), Digests(plans, all, hashed), N)
  BY <1>2, <1>6, <1>7, <1>8, MessageFollows
<1>11. Steady(Contents(plans, all, told), N)
  BY <1>2, <1>6, <1>7, <1>8, MessageSteady
<1>12. (\A i \in 1..Len(plans) : i \in Visible(plans)) => Sharp(Contents(plans, all, told), N)
  BY <1>2, <1>6, <1>7, MessageSharp
<1> QED
  BY <1>3, <1>4, <1>5, <1>9, <1>10, <1>11, <1>12 DEF all

(* What a field that hides no metadata holds inside. *)
LEMMA NothingHidden ==
    ASSUME NEW s, IsSchema(s), NEW f, Has(f, "unordered"), ~HidesMetadata(s, f),
           NEW g \in Fields(s, f.kind), NEW h \in Fields(s, f.kind),
           ~Has(g, "collection_metadata"), ~Has(h, "collection_metadata"), g.number < h.number,
           g.kind \in ContractMessages
    PROVE  \A e \in Fields(s, g.kind) : ~Has(e, "collection_metadata")
<1>1. DOMAIN s = ContractMessages
  BY DEF IsSchema
<1>2. \A m \in Closure(Nesting(s), {g.kind}) :
         ~\E e \in Fields(s, m) : Has(e, "collection_metadata")
  BY <1>1 DEF HidesMetadata
<1>3. g.kind \in Closure(Nesting(s), {g.kind})
  <2> DEFINE next == Nesting(s)
  <2>1. DOMAIN next = ContractMessages
    BY <1>1 DEF Nesting
  <2>2. Cardinality(DOMAIN next) \in Nat
    BY <2>1, KindsAssumption, FS_CardinalityType
  <2> HIDE DEF next
  <2>3. {g.kind} \subseteq Closure(next, {g.kind})
    BY <2>2, ClosureHolds
  <2> QED
    BY <2>3 DEF next
<1> QED
  BY <1>2, <1>3

(* What is told of the elements of a list. *)
LEMMA ElementsTell ==
    ASSUME NEW s, IsSchema(s), NEW v, Gate(s, v) = "ok", NEW f, f.kind \in ContractMessages
    PROVE  LET content == Told(Model(s), f.kind, Content, <<1, 2>>)
               digest == Told(Model(s), f.kind, Digest, << <<1>>, <<2>> >>)
               N == Len(Elements(Model(s), f.kind))
           IN  /\ N \in Nat /\ DOMAIN digest = 1..N /\ Follows(content, digest, N)
               /\ Has(f, "unordered") /\ ~HidesMetadata(s, f) => Steady(content, N)
<1> DEFINE m == f.kind
           model == Model(s)
           plans == CanonicalPlans(s, m)
           all == Elements(model, m)
           N == Len(all)
           told == [i \in DOMAIN plans |->
                      IF plans[i].kind \in DOMAIN model
                      THEN InnerTold(model, plans[i].kind, Content, <<1, 2>>) ELSE <<1, 2>>]
           hashed == [i \in DOMAIN plans |->
                      IF plans[i].kind \in DOMAIN model
                      THEN InnerTold(model, plans[i].kind, Digest, << <<1>>, <<2>> >>)
                      ELSE << <<1>>, <<2>> >>]
<1>1. /\ model[m].canonical = plans /\ Walks(s, m, plans) /\ DOMAIN model = ContractMessages
      /\ \A g \in Outside(s, m) : ~FieldRefused(g)
  BY ModelIs
<1>2. PICK counts :
        /\ Planful(plans, counts) /\ all = Listing(plans, counts)
        /\ \A i \in 1..Len(plans) : IF plans[i].kind \in ContractMessages
                                     THEN counts[i] = Len(Inner(model, plans[i].kind))
                                     ELSE counts[i] \in 0..2
  BY ElementsAre
<1>3. N \in Nat /\ DOMAIN all = 1..N
  BY <1>2, ListingIs
<1>4. Named(plans) /\ DOMAIN plans = 1..Len(plans) /\ Len(plans) \in Nat
  BY <1>2, CanonicalNamed DEF Planful
<1>5. Told(model, m, Content, <<1, 2>>) = Contents(plans, all, told)
  <2>1. Told(model, m, Content, <<1, 2>>) = Tuple(Contents(plans, all, Tuple(told)))
    BY <1>1, <1>3 DEF Told, Contents
  <2>2. told = [i \in 1..Len(plans) |-> told[i]]
    BY <1>4
  <2> HIDE DEF told, plans, all
  <2>3. Tuple(told) = told
    BY <1>4, <2>2, TupleIs
  <2>4. Contents(plans, all, told) = [n \in 1..N |-> Contents(plans, all, told)[n]]
    BY DEF Contents
  <2> QED
    BY <1>3, <2>1, <2>3, <2>4, TupleIs
<1>6. Told(model, m, Digest, << <<1>>, <<2>> >>) = Digests(plans, all, hashed)
  <2>1. Told(model, m, Digest, << <<1>>, <<2>> >>) = Tuple(Digests(plans, all, Tuple(hashed)))
    BY <1>1, <1>3 DEF Told, Digests
  <2>2. hashed = [i \in 1..Len(plans) |-> hashed[i]]
    BY <1>4
  <2> HIDE DEF hashed, plans, all
  <2>3. Tuple(hashed) = hashed
    BY <1>4, <2>2, TupleIs
  <2>4. Digests(plans, all, hashed) = [n \in 1..N |-> Digests(plans, all, hashed)[n]]
    BY DEF Digests
  <2> QED
    BY <1>3, <2>1, <2>3, <2>4, TupleIs
<1>7. ASSUME NEW i \in 1..Len(plans)
      PROVE  /\ Follows(told[i], hashed[i], counts[i]) /\ Steady(told[i], counts[i])
             /\ plans[i].kind \notin ContractMessages => Sharp(told[i], counts[i])
             /\ plans[i].kind \in ContractMessages
                  => ((\A e \in Fields(s, plans[i].kind) : ~Has(e, "collection_metadata"))
                        => Sharp(told[i], counts[i]))
  <2> DEFINE k == plans[i].kind
  <2>1. CASE k \in ContractMessages
    <3>1. /\ told[i] = InnerTold(model, k, Content, <<1, 2>>)
          /\ hashed[i] = InnerTold(model, k, Digest, << <<1>>, <<2>> >>)
          /\ counts[i] = Len(Inner(model, k))
      BY <1>1, <1>2, <1>4, <2>1
    <3> HIDE DEF k, told, hashed
    <3> QED
      BY <2>1, <3>1, InnerTells DEF k
  <2>2. CASE k \notin ContractMessages
    <3>1. told[i] = <<1, 2>> /\ hashed[i] = << <<1>>, <<2>> >> /\ counts[i] \in 0..2
      BY <1>1, <1>2, <1>4, <2>2
    <3> HIDE DEF told, hashed
    <3> QED
      BY <2>2, <3>1, ScalarIs
  <2> QED
    BY <2>1, <2>2
<1>8. \A i \in Visible(plans) : i \in 1..Len(plans)
  BY DEF Visible
<1>9. ASSUME Has(f, "unordered"), ~HidesMetadata(s, f),
             NEW i \in Visible(plans), NEW j \in Visible(plans), i < j
      PROVE  Sharp(told[i], counts[i])
  <2>1. PICK g \in Outside(s, m) : plans[i] = PlanField(s, g)
    BY <1>1, <1>8 DEF Walks, FieldPlans
  <2>2. PICK h \in Outside(s, m) : plans[j] = PlanField(s, h)
    BY <1>1, <1>8 DEF Walks, FieldPlans
  <2>3. /\ plans[i].number = g.number /\ plans[i].kind = g.kind
        /\ plans[i].metadata = Has(g, "collection_metadata")
        /\ plans[j].number = h.number /\ plans[j].metadata = Has(h, "collection_metadata")
    BY <1>1, <2>1, <2>2, PlanIs
  <2>4. ~plans[i].metadata /\ ~plans[j].metadata
    BY DEF Visible
  <2>5. Precedes(plans[i], plans[j])
    BY <1>1, <1>8, <1>9 DEF Walks
  <2>6. Has(g, "collection_metadata") \in BOOLEAN /\ Has(h, "collection_metadata") \in BOOLEAN
    BY DEF Has
  <2> HIDE DEF plans, told
  <2>7. g.number < h.number /\ ~Has(g, "collection_metadata") /\ ~Has(h, "collection_metadata")
    BY <2>3, <2>4, <2>5, <2>6 DEF Precedes
  <2>8. g \in Fields(s, m) /\ h \in Fields(s, m)
    BY DEF Outside
  <2>9. g.kind \in ContractMessages => \A e \in Fields(s, g.kind) : ~Has(e, "collection_metadata")
    BY <1>9, <2>7, <2>8, NothingHidden
  <2> QED
    BY <1>7, <1>8, <2>3, <2>9
<1> HIDE DEF plans, told, hashed, all
<1>10. Follows(Contents(plans, all, told), Digests(plans, all, hashed), N)
  BY <1>2, <1>4, <1>7, <1>8, MessageFollows
<1>11. Has(f, "unordered") /\ ~HidesMetadata(s, f) => Steady(Contents(plans, all, told), N)
  BY <1>2, <1>4, <1>7, <1>8, <1>9, MessageSteady
<1>12. DOMAIN Digests(plans, all, hashed) = 1..N
  BY DEF Digests
<1> QED
  BY <1>3, <1>5, <1>6, <1>10, <1>11, <1>12 DEF all
-----------------------------------------------------------------------------
LEMMA SortedTwo ==
    ASSUME NEW p, p.sortable, NEW N \in Nat, NEW x \in 1..N, NEW y \in 1..N
    PROVE  LET sorted == Canonicalize(p, <<x, y>>)
           IN  \/ sorted[1] = x /\ sorted[2] = y /\ x <= y
               \/ sorted[1] = y /\ sorted[2] = x /\ y <= x
<1> DEFINE list == <<x, y>>
           sorted == Canonicalize(p, list)
<1>1. list[1] = x /\ list[2] = y /\ list \in [1..2 -> Nat]
  OBVIOUS
<1> HIDE DEF list
<1>2. PICK places : Sorting(2, list, sorted, places)
  BY <1>1, SortedIs
<1> HIDE DEF sorted
<1>3. /\ places \in [1..2 -> 1..2] /\ sorted = [k \in 1..2 |-> list[places[k]]]
      /\ list[places[1]] <= list[places[2]] /\ places[1] # places[2]
  BY <1>2 DEF Sorting
<1>4. sorted[1] = list[places[1]] /\ sorted[2] = list[places[2]]
  BY <1>3
<1>5. (places[1] = 1 /\ places[2] = 2) \/ (places[1] = 2 /\ places[2] = 1)
  BY <1>3
<1> HIDE DEF list
<1>6. \/ sorted[1] = x /\ sorted[2] = y /\ x <= y
      \/ sorted[1] = y /\ sorted[2] = x /\ y <= x
  BY <1>1, <1>3, <1>4, <1>5
<1> QED
  BY <1>6 DEF sorted, list

(* A function has as many arguments as pairs. *)
LEMMA PairsCounted ==
    ASSUME NEW told, IsFiniteSet(told), \A t, u \in told : t[1] = u[1] => t = u
    PROVE  Cardinality({t[1] : t \in told}) = Cardinality(told)
<1> DEFINE T == {t[1] : t \in told}
           g == [t \in told |-> t[1]]
<1>1. g \in Surjection(told, T)
  BY DEF Surjection
<1>2. \A t, u \in told : g[t] = g[u] => t = u
  OBVIOUS
<1>3. g \in [told -> T]
  OBVIOUS
<1> HIDE DEF g
<1>4. g \in Injection(told, T)
  BY <1>2, <1>3 DEF Injection, IsInjective
<1> QED
  BY <1>1, <1>4, FS_Surjection

(* Lists of two that say the same hash the same. *)
LEMMA ListsHash ==
    ASSUME NEW s, IsSchema(s), NEW v, Gate(s, v) = "ok", NEW m \in ContractMessages,
           NEW f \in Fields(s, m), IsList(f), f.kind \in ContractMessages, ~HidesMetadata(s, f)
    PROVE  DigestsContent(s, Model(s), f)
<1> DEFINE p == PlanField(s, f)
           digest == Told(Model(s), f.kind, Digest, << <<1>>, <<2>> >>)
           content == Told(Model(s), f.kind, Content, <<1, 2>>)
           N == Len(Elements(Model(s), f.kind))
           of(pair) == digest[Canonicalize(p, pair)[1]] \o digest[Canonicalize(p, pair)[2]]
           says(pair) == IF p.sortable THEN {content[pair[1]], content[pair[2]]}
                         ELSE <<content[pair[1]], content[pair[2]]>>
           D == DOMAIN digest
           told == {<<says(pair), of(pair)>> : pair \in D \X D}
<1>1. /\ N \in Nat /\ D = 1..N /\ Follows(content, digest, N)
      /\ Has(f, "unordered") => Steady(content, N)
  BY ElementsTell
<1>2. p.sortable = Has(f, "unordered")
  <2>1. p = MessageList(s, f)
    BY KindsAssumption DEF PlanField, MessageKinds
  <2> QED
    BY <2>1 DEF MessageList, Planned
<1> HIDE DEF p, digest, content, N
<1>3. ASSUME NEW x \in 1..N, NEW y \in 1..N, NEW u \in 1..N, NEW w \in 1..N,
             says(<<x, y>>) = says(<<u, w>>)
      PROVE  of(<<x, y>>) = of(<<u, w>>)
  <2>1. CASE ~p.sortable
    <3>1. /\ Canonicalize(p, <<x, y>>)[1] = x /\ Canonicalize(p, <<x, y>>)[2] = y
          /\ Canonicalize(p, <<u, w>>)[1] = u /\ Canonicalize(p, <<u, w>>)[2] = w
      <4>1. Canonicalize(p, <<x, y>>) = <<x, y>> /\ Canonicalize(p, <<u, w>>) = <<u, w>>
        BY <2>1 DEF Canonicalize
      <4> QED
        BY <4>1
    <3>2. content[x] = content[u] /\ content[y] = content[w]
      BY <1>3, <2>1
    <3>3. digest[x] = digest[u] /\ digest[y] = digest[w]
      BY <1>1, <3>2 DEF Follows
    <3> QED
      BY <3>1, <3>3
  <2>2. CASE p.sortable
    <3> DEFINE a == Canonicalize(p, <<x, y>>)
               b == Canonicalize(p, <<u, w>>)
    <3>1. {content[x], content[y]} = {content[u], content[w]}
      BY <1>3, <2>2
    <3>2. \/ a[1] = x /\ a[2] = y /\ x <= y
          \/ a[1] = y /\ a[2] = x /\ y <= x
      BY <1>1, <2>2, SortedTwo
    <3>3. \/ b[1] = u /\ b[2] = w /\ u <= w
          \/ b[1] = w /\ b[2] = u /\ w <= u
      BY <1>1, <2>2, SortedTwo
    <3> HIDE DEF a, b
    <3>4. /\ a[1] \in 1..N /\ a[2] \in 1..N /\ b[1] \in 1..N /\ b[2] \in 1..N
          /\ a[1] <= a[2] /\ b[1] <= b[2]
          /\ {content[a[1]], content[a[2]]} = {content[b[1]], content[b[2]]}
      BY <3>1, <3>2, <3>3
    <3>5. content[a[1]] = content[b[1]] /\ content[a[2]] = content[b[2]]
      <4> SUFFICES ASSUME content[a[1]] # content[b[1]] \/ content[a[2]] # content[b[2]] PROVE FALSE
        OBVIOUS
      <4>1. /\ content[a[1]] # content[a[2]]
            /\ content[b[2]] = content[a[1]] /\ content[b[1]] = content[a[2]]
        BY <3>4
      <4>2. a[1] # a[2]
        BY <4>1
      <4>3. a[1] < a[2]
        BY <1>1, <3>4, <4>2
      <4>4. b[2] < b[1]
        BY <1>1, <1>2, <2>2, <3>4, <4>1, <4>3 DEF Steady
      <4> QED
        BY <1>1, <3>4, <4>4
    <3>6. digest[a[1]] = digest[b[1]] /\ digest[a[2]] = digest[b[2]]
      BY <1>1, <3>4, <3>5 DEF Follows
    <3> QED
      BY <3>6 DEF a, b
  <2> QED
    BY <2>1, <2>2
<1> HIDE DEF says, of
<1>4. \A pair, other \in D \X D : says(pair) = says(other) => of(pair) = of(other)
  <2> TAKE pair, other \in D \X D
  <2>1. PICK x \in 1..N, y \in 1..N : pair = <<x, y>>
    BY <1>1
  <2>2. PICK u \in 1..N, w \in 1..N : other = <<u, w>>
    BY <1>1
  <2> QED
    BY <1>3, <2>1, <2>2
<1>5. \A t, u \in told : t[1] = u[1] => t = u
  <2> SUFFICES ASSUME NEW pair \in D \X D, NEW other \in D \X D, says(pair) = says(other)
               PROVE  of(pair) = of(other)
    <3>1. \A a, b : <<a, b>>[1] = a
      OBVIOUS
    <3> QED
      BY <3>1
  <2> QED
    BY <1>4
<1>6. IsFiniteSet(told)
  <2> DEFINE g == [pair \in D \X D |-> <<says(pair), of(pair)>>]
  <2>1. IsFiniteSet(D \X D)
    <3>1. IsFiniteSet(D)
      BY <1>1, FS_Interval
    <3> QED
      BY <3>1, FS_Product
  <2>2. g \in Surjection(D \X D, told)
    BY DEF Surjection
  <2> HIDE DEF g, told
  <2> QED
    BY <2>1, <2>2, FS_Surjection
<1>7. Cardinality({t[1] : t \in told}) = Cardinality(told)
  <2> HIDE DEF told
  <2> QED
    BY <1>5, <1>6, PairsCounted
<1> QED
  BY <1>7 DEF DigestsContent, p, digest, content, says, of

(* Whatever contract schema the lint lets pass, lists of two elements that *)
(* say the same have one digest (canonical_cmp, digest), where no field    *)
(* hides metadata before another is compared.                              *)
THEOREM ContentIsHashed == Spec => []HashIsContent
<1>1. Tree /\ IsSchema(schema) => HashIsContent
  <2> SUFFICES ASSUME Tree, IsSchema(schema), Compiled, NEW f \in Lists, ~HidesMetadata(output.seen, f)
               PROVE  DigestsContent(output.seen, output.files.model[2], f)
    BY DEF HashIsContent
  <2> DEFINE seen == Descriptors(schema, vocabulary)
  <2>1. output.gate = "ok" /\ output = Compile(schema, vocabulary)
    BY DEF Compiled, Tree
  <2>2. Gate(seen, vocabulary) = "ok" /\ output.seen = seen /\ output.files = Rendering(seen)
    BY <2>1 DEF Compile
  <2>3. Resolve(vocabulary) = "ok"
    BY <2>2 DEF Gate
  <2>4. seen = schema
    BY <2>3, SeenIsWritten
  <2>5. output.files.model[2] = Model(schema)
    BY <2>2, <2>4 DEF Rendering
  <2>6. DOMAIN schema = ContractMessages
    BY DEF IsSchema
  <2>7. PICK m \in ContractMessages : f \in Fields(schema, m) /\ IsList(f) /\ f.kind \in ContractMessages
    BY <2>2, <2>4, <2>6 DEF Lists
  <2> QED
    BY <2>2, <2>4, <2>5, <2>7, ListsHash
<1> QED
  BY <1>1, TreeHolds, SchemaHolds, PTL
=============================================================================
