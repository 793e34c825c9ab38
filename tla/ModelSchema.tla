---------------------------- MODULE ModelSchema ----------------------------
(***************************************************************************)
(* The validated messages of the contract, as the generated model writes   *)
(* them.  A message M has three tables, one for each part of its code:     *)
(*   M_fields   the struct with its Canonical, Digest and Emit             *)
(*              implementations: name, wire number, type, in number order; *)
(*   M_check    what check() tests, in the order it tests it, and what     *)
(*              canonicalize() sorts first;                                *)
(*   M_decode   the Builder, TryFrom and From: which fields are looked for,*)
(*              in the order an absent or an invalid one is reported.      *)
(* ModelCodec says what the tables mean, once for every message.           *)
(*                                                                         *)
(* A string of n bytes stands for n copies of one letter: emptiness, the   *)
(* length limits and the lexicographic order are the code's own.           *)
(***************************************************************************)
EXTENDS Integers, Sequences, TLC

\* Fields: singular, list, and collection metadata (ordered after what
\* hashing sees, and left out of the digest).
F(n, k, t) == [name |-> n, number |-> k, type |-> t, list |-> FALSE, metadata |-> FALSE]
L(n, k, t) == [F(n, k, t) EXCEPT !.list = TRUE]
M(n, k, t) == [F(n, k, t) EXCEPT !.metadata = TRUE]

\* Checks.
NonEmpty(f)     == [test |-> "non_empty", field |-> f]
MaxLen(f, n)    == [test |-> "max_len", field |-> f, limit |-> n]
MaxItems(f, n)  == [test |-> "max_items", field |-> f, limit |-> n]
Elements(f, n)  == [test |-> "elements", field |-> f, limit |-> n]
Recognized(f, t) == [test |-> "recognized", field |-> f, enum |-> t]
MapKeys(f)      == [test |-> "map", field |-> f]
UniqueBy(f, ks) == [test |-> "unique_by", field |-> f, keys |-> ks]
Sorts(f)        == [test |-> "sort", field |-> f]

\* Decoding: a field that must be there, one that may be, one per element.
Need(f) == [field |-> f, how |-> "need"]
May(f)  == [field |-> f, how |-> "may"]
Each(f) == [field |-> f, how |-> "each"]

(***************************************************************************)
(* Enumerations: the numbers this build recognizes.                        *)
(***************************************************************************)
FailureClass == 1..7
Outcome      == 1..2
Completeness == 1..2
IssueKind    == 1..2
Severity     == 1..5

Recognized_numbers ==
    [FailureClass |-> FailureClass, Outcome |-> Outcome, Completeness |-> Completeness,
     IssueKind |-> IssueKind, Severity |-> Severity]

Succeeded == 1
Failed    == 2
Complete  == 1
MissingRequired == 1
InvalidKind     == 2

(***************************************************************************)
(* The hand-written value vocabulary (NumericValue and Value are sums over *)
(* their arms, see ModelCodec).                                            *)
(***************************************************************************)
Timestamp_fields == <<F("seconds", 1, "int"), F("nanos", 2, "int")>>
Timestamp_check  == <<>>
Timestamp_decode == <<Need("seconds"), Need("nanos")>>

(***************************************************************************)
(* Identity.                                                               *)
(***************************************************************************)
Subject_fields == <<F("kind", 1, "str"), L("scope", 2, "str"), F("id", 3, "str")>>
Subject_check  == <<NonEmpty("kind"), MaxLen("kind", 128), MaxItems("scope", 16),
                    Elements("scope", 256), NonEmpty("id"), MaxLen("id", 256)>>
Subject_decode == <<Need("kind"), Each("scope"), Need("id")>>

SignalKey_fields == <<F("subject", 1, "Subject"), F("facet", 2, "str")>>
SignalKey_check  == <<NonEmpty("facet"), MaxLen("facet", 128)>>
SignalKey_decode == <<Need("subject"), May("facet")>>

(***************************************************************************)
(* Readings.                                                               *)
(***************************************************************************)
ValueRange_fields == <<F("min", 1, "NumericValue"), F("max", 2, "NumericValue")>>
ValueRange_check  == <<>>
ValueRange_decode == <<May("min"), May("max")>>

SignalDescriptor_fields == <<F("key", 1, "SignalKey"), F("kind", 2, "str"), F("unit", 3, "str"),
                             F("range", 4, "ValueRange")>>
SignalDescriptor_check  == <<NonEmpty("kind"), MaxLen("kind", 128),
                             NonEmpty("unit"), MaxLen("unit", 64)>>
SignalDescriptor_decode == <<Need("key"), May("kind"), May("unit"), May("range")>>

Reading_fields == <<F("key", 1, "SignalKey"), F("value", 2, "NumericValue"),
                    F("observed_at", 3, "Timestamp")>>
Reading_check  == <<>>
Reading_decode == <<Need("key"), Need("value"), May("observed_at")>>

Readings_fields == <<L("descriptors", 1, "SignalDescriptor"), L("samples", 2, "Reading")>>
Readings_check  == <<Sorts("descriptors"), Sorts("samples"),
                     MaxItems("descriptors", 65536), UniqueBy("descriptors", <<"key">>),
                     MaxItems("samples", 65536)>>
Readings_decode == <<Each("descriptors"), Each("samples")>>

(***************************************************************************)
(* Logs, states and inventory.                                             *)
(***************************************************************************)
LogRecord_fields == <<F("occurred_at", 1, "Timestamp"), F("severity", 2, "Severity"),
                      F("message", 3, "str"), F("subject", 4, "Subject"),
                      F("entry_id", 5, "str"), F("attributes", 6, "map")>>
LogRecord_check  == <<Recognized("severity", "Severity"), MaxLen("message", 65536),
                      NonEmpty("entry_id"), MaxLen("entry_id", 256), MapKeys("attributes")>>
LogRecord_decode == <<May("occurred_at"), May("severity"), Need("message"), May("subject"),
                      May("entry_id"), May("attributes")>>

Logs_fields == <<L("records", 1, "LogRecord")>>
Logs_check  == <<Sorts("records"), MaxItems("records", 65536)>>
Logs_decode == <<Each("records")>>

StateObservation_fields == <<F("subject", 1, "Subject"), F("name", 2, "str"),
                             F("value", 3, "Value"), F("observed_at", 4, "Timestamp"),
                             F("facet", 5, "str")>>
StateObservation_check  == <<NonEmpty("name"), MaxLen("name", 256),
                             NonEmpty("facet"), MaxLen("facet", 128)>>
StateObservation_decode == <<Need("subject"), Need("name"), Need("value"),
                             May("observed_at"), May("facet")>>

States_fields == <<L("observations", 1, "StateObservation")>>
States_check  == <<Sorts("observations"), MaxItems("observations", 65536)>>
States_decode == <<Each("observations")>>

InventoryItem_fields == <<F("subject", 1, "Subject"), F("attributes", 2, "map"),
                          F("source_key", 3, "str")>>
InventoryItem_check  == <<MapKeys("attributes"), NonEmpty("source_key"),
                          MaxLen("source_key", 1024)>>
InventoryItem_decode == <<Need("subject"), May("attributes"), May("source_key")>>

Inventory_fields == <<L("items", 1, "InventoryItem")>>
Inventory_check  == <<Sorts("items"), MaxItems("items", 65536),
                      UniqueBy("items", <<"subject">>)>>
Inventory_decode == <<Each("items")>>

(***************************************************************************)
(* The resource graph.                                                     *)
(***************************************************************************)
UnresolvedReference_fields == <<F("location", 1, "str"), F("property", 2, "str")>>
UnresolvedReference_check  == <<NonEmpty("location"), MaxLen("location", 1024),
                                NonEmpty("property"), MaxLen("property", 256)>>
UnresolvedReference_decode == <<Need("location"), May("property")>>

ObservedResource_fields ==
    <<F("subject", 1, "Subject"), F("source_key", 2, "str"), F("source_schema", 3, "str"),
      M("entity_tag", 4, "str"), M("observed_at", 5, "Timestamp"), F("properties", 6, "map"),
      F("properties_complete", 7, "bool"), L("unresolved", 8, "UnresolvedReference")>>
ObservedResource_check  ==
    <<Sorts("unresolved"), NonEmpty("source_key"), MaxLen("source_key", 1024),
      NonEmpty("source_schema"), MaxLen("source_schema", 256),
      NonEmpty("entity_tag"), MaxLen("entity_tag", 256), MapKeys("properties"),
      MaxItems("unresolved", 1024)>>
ObservedResource_decode ==
    <<Need("subject"), Need("source_key"), May("source_schema"), May("entity_tag"),
      May("observed_at"), May("properties"), Need("properties_complete"), Each("unresolved")>>

ResourceRelation_fields == <<F("source", 1, "Subject"), F("target", 2, "Subject"),
                             F("kind", 3, "str")>>
ResourceRelation_check  == <<NonEmpty("kind"), MaxLen("kind", 128)>>
ResourceRelation_decode == <<Need("source"), Need("target"), Need("kind")>>

ResourceGraph_fields == <<L("resources", 1, "ObservedResource"),
                          L("relations", 2, "ResourceRelation")>>
ResourceGraph_check  ==
    <<Sorts("resources"), Sorts("relations"),
      MaxItems("resources", 65536), UniqueBy("resources", <<"subject">>),
      MaxItems("relations", 131072), UniqueBy("relations", <<"source", "target", "kind">>)>>
ResourceGraph_decode == <<Each("resources"), Each("relations")>>

(***************************************************************************)
(* Envelopes.                                                              *)
(***************************************************************************)
EndpointContext_fields == <<F("endpoint_id", 1, "str"), F("attributes", 2, "map")>>
EndpointContext_check  == <<NonEmpty("endpoint_id"), MaxLen("endpoint_id", 256),
                            MapKeys("attributes")>>
EndpointContext_decode == <<Need("endpoint_id"), May("attributes")>>

Origin_fields == <<F("provider", 1, "str"), F("request_class", 2, "str")>>
Origin_check  == <<NonEmpty("provider"), MaxLen("provider", 128),
                   NonEmpty("request_class"), MaxLen("request_class", 128)>>
Origin_decode == <<Need("provider"), Need("request_class")>>

ObservationWindow_fields == <<F("start", 1, "Timestamp"), F("end", 2, "Timestamp")>>
ObservationWindow_check  == <<>>
ObservationWindow_decode == <<Need("start"), May("end")>>

Coverage_fields == <<F("completeness", 1, "Completeness"), F("scope", 2, "Subject")>>
Coverage_check  == <<Recognized("completeness", "Completeness")>>
Coverage_decode == <<Need("completeness"), May("scope")>>

\* The payload oneof: its arms carry the wire numbers, the field has none.
Payload_arms == (10 :> "Readings") @@ (11 :> "Logs") @@ (12 :> "States")
                @@ (13 :> "Inventory") @@ (14 :> "ResourceGraph")

ObservationBatch_fields ==
    <<F("endpoint", 1, "EndpointContext"), F("origin", 2, "Origin"),
      F("window", 3, "ObservationWindow"), F("coverage", 4, "Coverage"),
      F("payload", 10, "Payload")>>
ObservationBatch_check  == <<>>
ObservationBatch_decode == <<Need("endpoint"), Need("origin"), Need("window"),
                             Need("coverage"), Need("payload")>>

AcquisitionStatus_fields ==
    <<F("endpoint_id", 1, "str"), F("provider", 2, "str"), F("request_class", 3, "str"),
      F("outcome", 4, "Outcome"), F("failure_class", 5, "FailureClass"),
      F("retryable", 6, "bool"), F("started_at", 7, "Timestamp"),
      F("duration_nanos", 8, "u64"), F("detail", 9, "str")>>
AcquisitionStatus_check  ==
    <<NonEmpty("endpoint_id"), MaxLen("endpoint_id", 256), NonEmpty("provider"),
      MaxLen("provider", 128), NonEmpty("request_class"), MaxLen("request_class", 128),
      Recognized("outcome", "Outcome"), Recognized("failure_class", "FailureClass"),
      NonEmpty("detail"), MaxLen("detail", 4096)>>
AcquisitionStatus_decode ==
    <<Need("endpoint_id"), Need("provider"), Need("request_class"), Need("outcome"),
      May("failure_class"), May("retryable"), Need("started_at"), May("duration_nanos"),
      May("detail")>>

ProjectionIssue_fields == <<F("path", 1, "str"), F("kind", 2, "IssueKind"),
                            F("detail", 3, "str")>>
ProjectionIssue_check  == <<NonEmpty("path"), MaxLen("path", 1024),
                            Recognized("kind", "IssueKind"),
                            NonEmpty("detail"), MaxLen("detail", 4096)>>
ProjectionIssue_decode == <<Need("path"), Need("kind"), May("detail")>>

ProjectionIssues_fields == <<F("endpoint", 1, "EndpointContext"), F("origin", 2, "Origin"),
                             F("at", 3, "Timestamp"), L("issues", 4, "ProjectionIssue")>>
ProjectionIssues_check  == <<Sorts("issues"), MaxItems("issues", 65536),
                             UniqueBy("issues", <<"path">>)>>
ProjectionIssues_decode == <<Need("endpoint"), Need("origin"), Need("at"), Each("issues")>>

(***************************************************************************)
(* All of it.                                                              *)
(***************************************************************************)
Table(fs, cs, ds) == [fields |-> fs, check |-> cs, decode |-> ds]

Contract ==
  [Timestamp           |-> Table(Timestamp_fields, Timestamp_check, Timestamp_decode),
   Subject             |-> Table(Subject_fields, Subject_check, Subject_decode),
   SignalKey           |-> Table(SignalKey_fields, SignalKey_check, SignalKey_decode),
   ValueRange          |-> Table(ValueRange_fields, ValueRange_check, ValueRange_decode),
   SignalDescriptor    |-> Table(SignalDescriptor_fields, SignalDescriptor_check, SignalDescriptor_decode),
   Reading             |-> Table(Reading_fields, Reading_check, Reading_decode),
   Readings            |-> Table(Readings_fields, Readings_check, Readings_decode),
   LogRecord           |-> Table(LogRecord_fields, LogRecord_check, LogRecord_decode),
   Logs                |-> Table(Logs_fields, Logs_check, Logs_decode),
   StateObservation    |-> Table(StateObservation_fields, StateObservation_check, StateObservation_decode),
   States              |-> Table(States_fields, States_check, States_decode),
   InventoryItem       |-> Table(InventoryItem_fields, InventoryItem_check, InventoryItem_decode),
   Inventory           |-> Table(Inventory_fields, Inventory_check, Inventory_decode),
   UnresolvedReference |-> Table(UnresolvedReference_fields, UnresolvedReference_check, UnresolvedReference_decode),
   ObservedResource    |-> Table(ObservedResource_fields, ObservedResource_check, ObservedResource_decode),
   ResourceRelation    |-> Table(ResourceRelation_fields, ResourceRelation_check, ResourceRelation_decode),
   ResourceGraph       |-> Table(ResourceGraph_fields, ResourceGraph_check, ResourceGraph_decode),
   EndpointContext     |-> Table(EndpointContext_fields, EndpointContext_check, EndpointContext_decode),
   Origin              |-> Table(Origin_fields, Origin_check, Origin_decode),
   ObservationWindow   |-> Table(ObservationWindow_fields, ObservationWindow_check, ObservationWindow_decode),
   Coverage            |-> Table(Coverage_fields, Coverage_check, Coverage_decode),
   ObservationBatch    |-> Table(ObservationBatch_fields, ObservationBatch_check, ObservationBatch_decode),
   AcquisitionStatus   |-> Table(AcquisitionStatus_fields, AcquisitionStatus_check, AcquisitionStatus_decode),
   ProjectionIssue     |-> Table(ProjectionIssue_fields, ProjectionIssue_check, ProjectionIssue_decode),
   ProjectionIssues    |-> Table(ProjectionIssues_fields, ProjectionIssues_check, ProjectionIssues_decode)]
=============================================================================
