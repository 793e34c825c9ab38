----------------------------- MODULE MC_Codegen -----------------------------
(***************************************************************************)
(* Codegen over a contract of three messages: a hashed root with a keyed   *)
(* list, its element with a message for a key, and the key.  Two edits     *)
(* reach a schema one annotation and one shape away from the base; a third *)
(* combination is not needed, for every rule relates at most two.          *)
(***************************************************************************)
EXTENDS CodegenValues, TLC

\* A field outside any oneof, with presence where a scalar stands alone.
Field(name, number, kind, card, opts) ==
    [name |-> name, number |-> number, kind |-> kind, card |-> card,
     optional |-> card = "single" /\ kind \notin MessageKinds, oneof |-> "", opts |-> opts]
Message(opts, fields) ==
    [opts |-> opts, oneofs |-> [o \in OneofNames |-> <<>>], fields |-> fields]

Required == [required |-> TRUE]
Base(sorted) ==
    [R |-> Message([validated |-> TRUE, hashable |-> TRUE],
                   {Field("items", 1, "E", "list", [unique_by |-> <<"k">>] @@ sorted),
                    Field("label", 2, "string", "single", [max_len |-> 2])}),
     E |-> Message([validated |-> TRUE],
                   {Field("k", 1, "K", "single", Required),
                    Field("n", 2, "string", "single", Required),
                    Field("t", 3, "string", "single", [collection_metadata |-> TRUE])}),
     K |-> Message([validated |-> TRUE],
                   {Field("a", 1, "string", "single", Required),
                    Field("b", 2, "bool", "single", <<>>)})]

MCBases == {Base([unordered |-> TRUE])}
MCContractMessages == {"R", "E", "K"}
MCKinds == {"string", "double", "u64", "Severity", "K", "R", "Timestamp"}
MCKeyLists == {<<"n">>, <<"k", "n">>, <<"n", "n">>, <<"t">>, <<"zz">>}
MCTypeName == [choice |-> <<"type", "Choice">>, r |-> <<"type", "R">>]
MCTakenNames == {<<"type", "Option">>}
=============================================================================
