--------------------------- MODULE ReportAssembly ---------------------------
(***************************************************************************)
(* From what a source answers to the report the collector delivers:        *)
(* result.rs, issue.rs, acquire.rs and stream.rs of the source crate, then *)
(* report.rs and status.rs of the orchestration.                           *)
(*                                                                         *)
(* An outcome is <<"parts", payloads, issues>> or <<"failed", failure>>.   *)
(* A payload is "sound" or forms no batch.  Text is "empty", "fits" or     *)
(* "long"; so is the path of an issue that names no field.  An issue also  *)
(* counts how many it stands for.  A unit is [endpoint, origin].           *)
(***************************************************************************)
EXTENDS Integers, Sequences, SequencesExt

CONSTANT IssueLimit     \* PROJECTIONISSUES_ISSUES_MAX_ITEMS

FailureClasses ==
    {"Connectivity", "Authentication", "Timeout", "Protocol", "Unsupported", "Device", "Internal"}

(* AcquisitionFailureClass::is_endpoint_scoped. *)
EndpointScoped == {"Connectivity", "Authentication", "Timeout"}
(* default_retryable. *)
RetriedByDefault == {"Connectivity", "Timeout", "Device"}

(* bounded: text as a status or an issue may hold it. *)
Bounded(text) == CASE text = "empty" -> "none" [] text = "fits" -> "fits" [] OTHER -> "cut"

Issue(path, kind, detail) == [path |-> path, kind |-> kind, detail |-> detail, counts |-> 1]
OmittedLocator == "@omitted"
Omission(omitted) ==
    [path |-> OmittedLocator, kind |-> "Invalid", detail |-> "fits", counts |-> omitted]

\* Mutant: the closing issue is put on top.
BoundedIssues_on_top(issues) ==
    IF Len(issues) <= IssueLimit THEN issues
    ELSE Append(SubSeq(issues, 1, IssueLimit), Omission(Len(issues) - IssueLimit))

(* bounded_issues, which AcquisitionParts::new applies. *)
BoundedIssues(issues) ==
    IF Len(issues) <= IssueLimit THEN issues
    ELSE Append(SubSeq(issues, 1, IssueLimit - 1), Omission(Len(issues) - (IssueLimit - 1)))

(* ProjectionIssue::into_model: a path within its bound, and a detail      *)
(* where the value was unusable.                                           *)
IntoModel(issue) ==
    /\ issue.path \notin {"empty", "long"}
    /\ issue.kind = "Invalid" => Bounded(issue.detail) # "none"

Failure(class, retryable, detail) == [class |-> class, retryable |-> retryable, detail |-> detail]

(* resolved_retryable: the source's word, else the class's default. *)
Resolved(failure) ==
    IF failure.retryable # "unrefined" THEN failure.retryable
    ELSE IF failure.class \in RetriedByDefault THEN "yes" ELSE "no"

(* base, success_status and failed_status. *)
Status(unit, at, timed, outcome, class, retryable, detail) ==
    [endpoint_id |-> unit.endpoint.id, origin |-> unit.origin, at |-> at, timed |-> timed,
     outcome |-> outcome, class |-> class, retryable |-> retryable, detail |-> detail]
SuccessStatus(unit, at, timed) == Status(unit, at, timed, "Succeeded", "none", "none", "none")
FailedStatus(unit, at, timed, failure) ==
    Status(unit, at, timed, "Failed", failure.class, Resolved(failure), Bounded(failure.detail))

Bare(status) == [batches |-> <<>>, issues |-> <<>>, status |-> status]

(* issues_envelope: none, one, or a bug; an envelope holds a path once. *)
Enveloped(issues) ==
    /\ \A i \in DOMAIN issues : IntoModel(issues[i])
    /\ Len(issues) <= IssueLimit
    /\ \A i, j \in DOMAIN issues : issues[i].path = issues[j].path => i = j
IssuesEnvelope(unit, at, issues) ==
    IF issues = <<>> THEN <<>>
    ELSE <<[endpoint |-> unit.endpoint, origin |-> unit.origin, at |-> at, issues |-> issues]>>

(* assemble_success. *)
AssembleSuccess(unit, at, timed, payloads, issues) ==
    IF ~Enveloped(issues)
    THEN Bare(FailedStatus(unit, at, timed, Failure("Internal", "unrefined", "fits")))
    ELSE [batches |-> [i \in DOMAIN payloads |->
                          [endpoint |-> unit.endpoint, origin |-> unit.origin, at |-> at]] \o <<>>,
          issues |-> IssuesEnvelope(unit, at, issues), status |-> SuccessStatus(unit, at, timed)]

(* stamp, for acquire and stamp_item alike: parts that form no batch are a *)
(* failure of ours.                                                        *)
Stamp(outcome) ==
    IF outcome[1] = "parts" /\ \E i \in DOMAIN outcome[2] : outcome[2][i] # "sound"
    THEN <<"failed", Failure("Internal", "no", "fits")>>
    ELSE outcome

(* trips_endpoint_breaker: which side of the completion carries a failure. *)
Channel(class) == IF class \in EndpointScoped THEN "fault" ELSE "report"

(* assemble: the channel and the report; into_report keeps a fault's. *)
Assemble(unit, at, timed, outcome) ==
    LET stamped == Stamp(outcome)
    IN  IF stamped[1] = "parts"
        THEN <<"report", AssembleSuccess(unit, at, timed, stamped[2], BoundedIssues(stamped[3]))>>
        ELSE <<Channel(stamped[2].class), Bare(FailedStatus(unit, at, timed, stamped[2]))>>
=============================================================================
