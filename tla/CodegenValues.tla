---------------------------- MODULE CodegenValues ----------------------------
(***************************************************************************)
(* What the generated code does with the values of a schema that module    *)
(* Codegen compiles: the properties that run it (GeneratedCode).           *)
(***************************************************************************)
EXTENDS Codegen, GeneratedCode

(* A schema the compiler makes a model of, and the model's crate builds.   *)
(* The schema alone decides: asked of it before the tree is touched.       *)
Compiled == Untouched /\ meddles = 0 /\ last = NoRun /\ output.gate = "ok" /\ Builds(output.seen)
Lists == UNION {{f \in Fields(output.seen, m) : IsList(f) /\ f.kind \in DOMAIN schema} : m \in DOMAIN schema}

(* Whatever schema the lint lets pass, the generated check of a keyed list *)
(* refuses exactly the lists in which two elements agree on all keys: the  *)
(* neighbour scan is chosen only where sorting brings them together.       *)
UniquenessHolds ==
    Compiled => \A f \in Lists : Has(f, "unique_by") => CatchesDuplicates(output.seen, output.files.model[2], f)

(* Equal content hashes equally: what differs only in metadata, and in the *)
(* order of an unordered list, has one digest.  Except where a field that  *)
(* hides metadata inside its message is compared before another one: the   *)
(* canonical order then sorts by what the digest leaves out.               *)
HashIsContent ==
    Compiled => \A f \in Lists :
        f.kind \in HashReachable(output.seen) /\ ~HidesMetadata(output.seen, f) => DigestsContent(output.seen, output.files.model[2], f)
=============================================================================
