------------------------------- MODULE Codegen -------------------------------
(***************************************************************************)
(* The schema compiler at work (codegen/src/lib.rs, main.rs).  Authors     *)
(* change the contract schema and the annotation vocabulary, edit or leave *)
(* behind files; `codegen generate` and `codegen check` run over the tree, *)
(* and a run may fail at any file.                                         *)
(*                                                                         *)
(* Messages the repository writes by hand (Value and its kin) and the      *)
(* order fields are declared in are left out.  What projection manifests   *)
(* compile to is external: a manifest has one output, or is refused.       *)
(***************************************************************************)
EXTENDS ModelPlans

CONSTANTS
    Bases,          \* schemas to begin from
    Kinds,          \* what a field may be turned into
    Bounds,         \* values of max_items, max_len and max_depth
    KeyLists,       \* values of unique_by
    OneofNames,
    MaxEdits,       \* edits of the schema before anything is generated
    RunEdits,       \* edits of a schema that is generated, in a tree nobody touched
    Followed,       \* messages whose edits are followed into runs
    MaxMeddles      \* changes to the tree, of a schema nobody edited

VARIABLES
    schema, vocabulary,     \* what the authors wrote
    output,                 \* what every run computes from that, kept until it changes
    tree,                   \* the generated files, path by path
    manifests,
    last,                   \* what the last run said
    edits, meddles

(* A schema as protoc lets it be written: annotations of known options, of *)
(* fields each with a number and a name of its own.                        *)
Annotated(x, opts) ==
    DOMAIN opts \subseteq DOMAIN Options(x) /\ opts = [o \in DOMAIN opts |-> opts[o]]
IsField(f) ==
    /\ f = [name |-> f.name, number |-> f.number, kind |-> f.kind, card |-> f.card,
            optional |-> f.optional, oneof |-> f.oneof, opts |-> f.opts]
    /\ f.number \in Nat \ {0}
    /\ Annotated("field", f.opts)
IsMessage(d) ==
    /\ d = [opts |-> d.opts, oneofs |-> d.oneofs, fields |-> d.fields]
    /\ Annotated("message", d.opts)
    /\ d.oneofs = [o \in DOMAIN d.oneofs |-> d.oneofs[o]]
    /\ \A o \in DOMAIN d.oneofs : Annotated("oneof", d.oneofs[o])
    /\ IsFiniteSet(d.fields)
    /\ \A f \in d.fields : IsField(f)
    /\ \A f, g \in d.fields : f.number = g.number \/ f.name = g.name => f = g
IsSchema(s) ==
    /\ s = [m \in ContractMessages |-> s[m]]
    /\ \A m \in ContractMessages : IsMessage(s[m])

ASSUME CodegenAssumption == \A base \in Bases : IsSchema(base)

vars == <<schema, vocabulary, output, tree, manifests, last, edits, meddles>>

Fixed == <<"lock", "wire", "limits", "model", "mod", "bindings">>
Outputs == {"projection"}    \* under sources/*/src/generated, with what is left there
Strays == {"stray"}
Paths == Range(Fixed) \cup Outputs \cup Strays
Absent == <<"absent">>
Other  == <<"other">>        \* edited, reformatted or half written
NoRun == [mode |-> "none", said |-> "nothing", written |-> {}, failed |-> {}, stale |-> {},
          orphans |-> {}]

(* The descriptors as the compiler reads them. *)
Descriptors(written, v) ==
    [m \in DOMAIN written |->
        [opts |-> Read(v, "message", written[m].opts),
         oneofs |-> [o \in DOMAIN written[m].oneofs |-> Read(v, "oneof", written[m].oneofs[o])],
         fields |-> {[f EXCEPT !.opts = Read(v, "field", f.opts)] : f \in written[m].fields}]]

(* The checks before any file is looked at. *)
Gate(seen, v) ==
    IF Resolve(v) # "ok" THEN "vocabulary"
    ELSE IF Violations(seen) # {} THEN "schema"
    ELSE IF ModelRefused(seen) THEN "backend"
    ELSE "ok"

Rendering(seen) ==
    [lock |-> <<"is", Lock(seen)>>, wire |-> <<"is", Wire(seen)>>,
     limits |-> <<"is", Limits(seen)>>, model |-> <<"is", Model(seen)>>,
     mod |-> <<"is">>, bindings |-> <<"is">>, projection |-> <<"is">>]

(* What run makes of a schema and a vocabulary. *)
Compile(written, v) ==
    LET seen == Descriptors(written, v)
        gate == Gate(seen, v)
    IN  [seen |-> seen, gate |-> gate, files |-> IF gate = "ok" THEN Rendering(seen) ELSE <<>>]

Init ==
    /\ schema \in Bases /\ vocabulary = DeclaredVocabulary
    /\ output = Compile(schema, vocabulary)
    /\ tree = [p \in Paths |-> Absent] /\ manifests = {}
    /\ last = NoRun /\ edits = 0 /\ meddles = 0
-----------------------------------------------------------------------------
(* The authors. *)
Untouched == \A p \in Paths : tree[p] = Absent
MayEdit ==
    /\ edits < (IF Untouched THEN MaxEdits ELSE RunEdits) /\ meddles = 0
Edited ==
    /\ edits' = edits + 1 /\ last' = NoRun /\ output' = Compile(schema', vocabulary')
    /\ UNCHANGED <<tree, manifests, meddles>>

OptionValues(o) ==
    CASE o \in {"max_items", "max_len", "max_depth"} -> Bounds
      [] o = "unique_by" -> KeyLists
      [] OTHER -> {TRUE}

Written(opts, o, v) == [p \in DOMAIN opts \cup {o} |-> IF p = o THEN v ELSE opts[p]]
Erased(opts, o) == [p \in DOMAIN opts \ {o} |-> opts[p]]
Annotations(opts, known) ==
    {Written(opts, p[1], p[2]) : p \in UNION {{o} \X OptionValues(o) : o \in known}}
      \cup {Erased(opts, o) : o \in DOMAIN opts}

(* What protoc lets a field be. *)
WellFormed(f) ==
    /\ f.optional => f.card = "single" /\ f.oneof = "" /\ f.kind \notin MessageKinds
    /\ f.oneof # "" => f.card = "single"

Reshapes(f) ==
    {g \in {[f EXCEPT !.kind = k] : k \in Kinds} \cup {[f EXCEPT !.card = c] : c \in {"single", "list", "map"}}
             \cup {[f EXCEPT !.card = c, !.optional = FALSE] : c \in {"list", "map"}}
             \cup {[f EXCEPT !.optional = ~f.optional]}
             \cup {[f EXCEPT !.oneof = o, !.optional = FALSE] : o \in OneofNames}
        : WellFormed(g)}

(* Options the vocabulary knows and this model follows. *)
Writable(x) ==
    IF x \in vocabulary.extensions THEN DOMAIN vocabulary.shapes[x] \cap DOMAIN Options(x) ELSE {}

SetField(m, f, g) == schema' = [schema EXCEPT ![m].fields = (@ \ {f}) \cup {g}]

Annotate ==
    /\ MayEdit
    /\ \E m \in DOMAIN schema : \E f \in schema[m].fields :
         \E opts \in Annotations(f.opts, Writable("field")) :
            SetField(m, f, [f EXCEPT !.opts = opts])
    /\ UNCHANGED vocabulary
    /\ Edited

Reshape ==
    /\ MayEdit
    /\ \E m \in DOMAIN schema : \E f \in schema[m].fields : \E g \in Reshapes(f) : SetField(m, f, g)
    /\ UNCHANGED vocabulary
    /\ Edited

Renumber ==
    /\ MayEdit
    /\ \E m \in DOMAIN schema : \E f, g \in schema[m].fields :
         /\ f.number < g.number
         /\ schema' = [schema EXCEPT ![m].fields =
                (@ \ {f, g}) \cup {[f EXCEPT !.number = g.number], [g EXCEPT !.number = f.number]}]
    /\ UNCHANGED vocabulary
    /\ Edited

AnnotateMessage ==
    /\ MayEdit
    /\ \E m \in DOMAIN schema :
         \/ \E opts \in Annotations(schema[m].opts, Writable("message")) :
                schema' = [schema EXCEPT ![m].opts = opts]
         \/ \E o \in OneofNames :
                /\ Writable("oneof") # {}
                /\ schema' = [schema EXCEPT ![m].oneofs[o] = IF DOMAIN @ = {} THEN [required |-> TRUE] ELSE <<>>]
    /\ UNCHANGED vocabulary
    /\ Edited

(* annotations.proto changes, in ways the schema still compiles under. *)
Uses(x) ==
    CASE x = "field"   -> UNION {DOMAIN f.opts : f \in UNION {schema[m].fields : m \in DOMAIN schema}}
      [] x = "message" -> UNION {DOMAIN schema[m].opts : m \in DOMAIN schema}
      [] x = "oneof"   -> UNION {DOMAIN schema[m].oneofs[o] : m \in DOMAIN schema, o \in OneofNames}

Wider(shape) ==
    CASE shape = OptionalUint32 -> {"uint32", "repeated uint32", "uint64"}
      [] shape = RepeatedString -> {"string"}
      [] OTHER -> {"repeated bool"}

EditVocabulary ==
    /\ MayEdit
    /\ \/ \E x \in Extensions : \E o \in DOMAIN vocabulary.shapes[x] :
            \/ /\ o \notin Uses(x)     \* withdrawn, and the canary with it
               /\ vocabulary' = [vocabulary EXCEPT !.shapes[x] = Erased(@, o), !.canary[x] = Erased(@, o)]
            \/ \E s \in Wider(vocabulary.shapes[x][o]) :
                  vocabulary' = [vocabulary EXCEPT !.shapes[x][o] = s]
            \/ /\ o \in DOMAIN vocabulary.canary[x]
               /\ vocabulary' = [vocabulary EXCEPT !.canary[x] = Erased(@, o)]
       \/ \E x \in Extensions :
            \/ vocabulary' = [vocabulary EXCEPT !.shapes[x] = Written(@, "unread", Bool)]
            \/ vocabulary' = [vocabulary EXCEPT !.lost = @ \cup {x}]
            \/ Uses(x) = {} /\ vocabulary' = [vocabulary EXCEPT !.extensions = @ \ {x}]
       \/ vocabulary' = [vocabulary EXCEPT !.extensions = @ \cup {"extra"}]
    /\ UNCHANGED schema
    /\ Edited
-----------------------------------------------------------------------------
Runnable ==
    /\ edits <= RunEdits
    /\ \A m \in DOMAIN schema \ Followed : \E b \in Bases : schema[m] = b[m]

(* The tree changes under the compiler. *)
Meddle ==
    /\ meddles < MaxMeddles /\ edits = 0
    /\ meddles' = meddles + 1 /\ last' = NoRun
    /\ UNCHANGED <<schema, vocabulary, output, edits>>

EditFile   == Meddle /\ (\E p \in Paths : tree' = [tree EXCEPT ![p] = Other]) /\ UNCHANGED manifests
DeleteFile == Meddle /\ (\E p \in Paths : tree[p] # Absent /\ tree' = [tree EXCEPT ![p] = Absent])
                     /\ UNCHANGED manifests
SetManifests == Meddle /\ manifests' \in SUBSET Outputs \ {manifests} /\ UNCHANGED tree
-----------------------------------------------------------------------------
(* run. *)

Artifacts == Fixed \o SetToSeq(manifests)
Stale(p) == tree[p] # output.files[p]

\* Mutant: whatever the compiler may write somewhere is no orphan.
Orphans_expected_wide(on) == {p \in Strays : on[p] # Absent}

(* generated_orphans, which looks under sources/ only. *)
Orphans(on) == {p \in (Outputs \cup Strays) \ Range(Artifacts) : on[p] # Absent}

(* A run ends before it looks at the tree. *)
Refused(mode) ==
    /\ Runnable
    /\ \/ output.gate # "ok" /\ last' = [NoRun EXCEPT !.mode = mode, !.said = output.gate]
       \/ /\ output.gate = "ok"     \* the gNMI protocol, or a manifest, does not compile
          /\ \E why \in {"backend"} \cup {"manifests" : x \in manifests} :
                last' = [NoRun EXCEPT !.mode = mode, !.said = why]
    /\ UNCHANGED <<schema, vocabulary, output, tree, manifests, edits, meddles>>

(* Mode::Check reads every file; the report fails on stale and orphans. *)
Check ==
    LET stale == {p \in Range(Artifacts) : Stale(p)}
    IN  /\ Runnable /\ output.gate = "ok"
        /\ last' = [NoRun EXCEPT !.mode = "check", !.stale = stale, !.orphans = Orphans(tree),
                      !.said = IF stale = {} /\ Orphans(tree) = {} THEN "success" ELSE "failure"]
        /\ UNCHANGED <<schema, vocabulary, output, tree, manifests, edits, meddles>>

(* Where a file is generated. *)
DirectoryOf(p) ==
    CASE p = "lock"                                 -> "schema"
      [] p \in {"wire", "limits", "model", "mod"}   -> "model/src/generated"
      [] p = "bindings"                             -> "sources/gnmi/src/generated"
      [] OTHER                                      -> "sources/redfish/src/generated"

(* Where the scan for orphans may fail: listing a directory, or asking     *)
(* what an entry of one is.                                                *)
Unscannable(on) ==
    LET below == {"bindings"} \cup Outputs \cup Strays
    IN  {"sources"} \cup {DirectoryOf(p) : p \in below} \cup {p \in below : on[p] # Absent}

(* A file cannot be read, or the scan fails: the run ends. *)
CheckFails ==
    /\ Runnable /\ output.gate = "ok"
    /\ \E p \in Range(Artifacts) \cup Unscannable(tree) :
         last' = [NoRun EXCEPT !.mode = "check", !.said = "io", !.failed = {p}]
    /\ UNCHANGED <<schema, vocabulary, output, tree, manifests, edits, meddles>>

(* The files before position k that differ are written. *)
WrittenBefore(k) == {p \in {Artifacts[i] : i \in 1..(k - 1)} : Stale(p)}
After(paths) == [p \in Paths |-> IF p \in paths THEN output.files[p] ELSE tree[p]]

Generate ==
    LET written == WrittenBefore(Len(Artifacts) + 1)
        orphans == Orphans(After(written))
    IN  /\ Runnable /\ output.gate = "ok"
        /\ tree' = After(written)
        /\ last' = [NoRun EXCEPT !.mode = "generate", !.written = written, !.orphans = orphans,
                      !.said = IF orphans = {} THEN "success" ELSE "failure"]
        /\ UNCHANGED <<schema, vocabulary, output, manifests, edits, meddles>>

(* Error::Io: the path, and what was written before it. *)
IoError(k, failed) ==
    [NoRun EXCEPT !.mode = "generate", !.said = "io", !.failed = {failed},
                  !.written = WrittenBefore(k)]

(* Reading or writing the k-th file fails, or creating its directory: the  *)
(* error is at the directory then.  A failed write may leave half a file.  *)
(* Or the scan for orphans fails, when everything is written.              *)
GenerateFails ==
    /\ Runnable /\ output.gate = "ok"
    /\ \E k \in 1..(Len(Artifacts) + 1) :
         LET left == After(WrittenBefore(k))
         IN  IF k > Len(Artifacts)
             THEN tree' = left /\ (\E p \in Unscannable(left) : last' = IoError(k, p))
             ELSE \/ tree' = left /\ last' = IoError(k, Artifacts[k])
                  \/ /\ Stale(Artifacts[k])
                     /\ \/ tree' = left /\ last' = IoError(k, DirectoryOf(Artifacts[k]))
                        \/ /\ tree' = [left EXCEPT ![Artifacts[k]] = Other]
                           /\ last' = IoError(k, Artifacts[k])
    /\ UNCHANGED <<schema, vocabulary, output, manifests, edits, meddles>>

Author == Annotate \/ Reshape \/ Renumber \/ AnnotateMessage \/ EditVocabulary
Run == Refused("check") \/ Refused("generate") \/ Check \/ CheckFails \/ Generate \/ GenerateFails
Next == Author \/ EditFile \/ DeleteFile \/ SetManifests \/ Run
Spec == Init /\ [][Next]_vars
-----------------------------------------------------------------------------
(* No annotation is switched off in silence: what an accepted vocabulary   *)
(* reads back is what the schema says, whatever became of annotations.proto*)
(* or of the path the descriptors took.                                    *)
NothingSwitchedOff == Resolve(vocabulary) = "ok" => output.seen = schema

(* The lock is the review surface: an edit that changes what is on the     *)
(* wire, what is bounded or what the model does changes a line of it.      *)
Enforced == <<output.files.wire, output.files.limits, output.files.model>>
LockShowsIt ==
    [][edits' # edits /\ output.gate = "ok" /\ output'.gate = "ok"
         => (Enforced' # Enforced => output.files.lock' # output.files.lock)]_vars

(* A run tells the truth about the tree: success means it is what the      *)
(* schema compiles to and nothing else lies beside it; a failed run names  *)
(* every file it changed; a check changes none, and says stale or orphaned *)
(* exactly of what a generate would have to change or cannot.              *)
RunsTellTruth ==
    [][last'.mode # "none"
           => LET changed == {p \in Paths : tree'[p] # tree[p]}
                  whole == \A p \in Range(Artifacts) : tree'[p] = output.files[p]
                  clean == \A p \in Outputs \cup Strays : p \notin manifests => tree'[p] = Absent
              IN  /\ changed \subseteq last'.written \cup last'.failed
                  /\ last'.said = "success" <=> (last'.said \in {"success", "failure"} /\ whole /\ clean)
                  /\ last'.mode = "check" => changed = {}
                  /\ last'.said = "failure" => last'.stale # {} \/ last'.orphans # {}]_vars
=============================================================================
