------------------------------ MODULE Pipeline ------------------------------
(***************************************************************************)
(* One endpoint from needs to reports: a plan is made of what is needed    *)
(* and what providers declare, each planned acquisition is bound to a unit *)
(* by hand, the endpoint is added, and its polls and its streams run side  *)
(* by side on one clock.                                                   *)
(*                                                                         *)
(* When an acquisition starts is the dispatcher's choice (collector.rs,    *)
(* StreamUnit.tla); which units exist, who they are and what their reports *)
(* say is followed here.  The wall clock may be set either way.            *)
(***************************************************************************)
EXTENDS Admission, ReportAssembly, FiniteSets

CONSTANTS
    PollNeeds, StreamNeeds, Declarations,   \* what is drawn from
    MaxPolls, MaxStreams, MaxDeclarations,
    Policies, Reconnects,                   \* policies an endpoint, a stream may be given
    Identities,                             \* [endpoint, origin] of units bound by mistake
    Parts, Failures,                        \* what a source answers
    Walls,                                  \* readings of the wall clock
    InFlight,                               \* max_in_flight
    MaxSilent,
    Places                                  \* hashes of endpoint ids

(* Bounds and durations are whole; an envelope has room for an issue; what *)
(* a source answers are lists.                                             *)
ASSUME PipelineAssumption ==
    /\ {MaxPolls, MaxStreams, MaxDeclarations, MaxSilent, MaxDoublings} \subseteq Nat
    /\ IssueLimit \in Nat \ {0}
    /\ \A policy \in Reconnects : {policy.first, policy.max, policy.stagger} \subseteq Nat
    /\ Places \subseteq Nat
    /\ \A parts \in Parts : \A k \in {1, 2} : parts[k] \in Seq(Range(parts[k]))

VARIABLES
    asked,          \* [polls, streams, declarations]
    plan, seated,   \* Plan's answer; <<>> or <<what Subtree seated>>
    running,        \* attempts in flight, [mode, i, at]
    open, spoken,   \* streams that are open, and of these the ones with an item
    stopped,        \* streams that are over for good
    silent,         \* silent instances in a row, by stream
    last            \* <<>> or the last report, what it was made of and whose it is

vars == <<asked, plan, seated, running, open, spoken, stopped, silent, last>>

NoPlan == [fault |-> "none", polled |-> <<>>, streamed |-> <<>>]
UpTo(S, n) == UNION {[1..k -> S] : k \in 0..n}

Init ==
    /\ asked \in [polls : UpTo(PollNeeds, MaxPolls), streams : UpTo(StreamNeeds, MaxStreams),
                  declarations : UpTo(Declarations, MaxDeclarations)]
    /\ plan = NoPlan /\ seated = <<>> /\ running = {}
    /\ open = {} /\ spoken = {} /\ stopped = {} /\ silent = [i \in 1..MaxStreams |-> 0] /\ last = <<>>

MakePlan ==
    /\ plan = NoPlan
    /\ plan' = Plan(asked.polls, asked.streams, asked.declarations)
    /\ UNCHANGED <<asked, seated, running, open, spoken, stopped, silent, last>>

(* PollUnit::new and StreamUnit::new bind what they are given. *)
Bindings(planned) ==
    {[planned |-> planned, endpoint |-> who.endpoint, origin |-> who.origin] :
        who \in {planned} \cup Identities}

WithReconnect(unit, reconnect) ==
    [planned |-> unit.planned, endpoint |-> unit.endpoint, origin |-> unit.origin, reconnect |-> reconnect]

Add ==
    /\ plan.fault = "ok" /\ seated = <<>>
    /\ \E policy \in Policies :
       \E units \in [DOMAIN plan.polled -> UNION {Bindings(p) : p \in Range(plan.polled)}] :
       \E streams \in [DOMAIN plan.streamed -> UNION {Bindings(p) : p \in Range(plan.streamed)}] :
       \E reconnect \in Reconnects :
         LET bound == [i \in DOMAIN streams |-> WithReconnect(streams[i], reconnect)] \o <<>>
             answer == Subtree(policy, units \o <<>>, bound)
         IN  /\ \A i \in DOMAIN units : units[i].planned = plan.polled[i]
             /\ \A i \in DOMAIN streams : streams[i].planned = plan.streamed[i]
             /\ seated' = IF answer[1] = "ok" THEN <<answer[2]>> ELSE <<>>
    /\ UNCHANGED <<asked, plan, running, open, spoken, stopped, silent, last>>
-----------------------------------------------------------------------------
Seated(mode) == IF seated = <<>> THEN <<>> ELSE seated[1][mode]

(* Reports are delivered one by one. *)
Deliver ==
    /\ last # <<>> /\ last' = <<>>
    /\ UNCHANGED <<asked, plan, seated, running, open, spoken, stopped, silent>>

(* poll_future and connect_future read the clock when first polled.  No    *)
(* two attempts of one unit run at once.                                   *)
Begin(mode, i) ==
    /\ last = <<>> /\ Cardinality(running) < InFlight
    /\ \A r \in running : <<r.mode, r.i>> # <<mode, i>>
    /\ mode = "streamed" => i \notin open \cup stopped
    /\ \E now \in Walls : running' = running \cup {[mode |-> mode, i |-> i, at |-> now]}
    /\ UNCHANGED <<asked, plan, seated, open, spoken, stopped, silent, last>>

Outcomes == {<<"parts", p[1], p[2]>> : p \in Parts}
FailedOutcomes == {<<"failed", f>> : f \in Failures}

(* What the consumer gets, and what the breaker sees: a completion's       *)
(* channel, or nothing for the items of an open stream.                    *)
Report(mode, i, at, timed, outcome) ==
    LET answer == Assemble(Seated(mode)[i], at, timed, outcome)
    IN  last' = <<[mode |-> mode, i |-> i, at |-> at, fed |-> outcome, report |-> answer[2],
                   sample |-> IF timed THEN answer[1] ELSE "none"]>>

(* poll_future. *)
Poll(r) ==
    /\ last = <<>> /\ r.mode = "polled"
    /\ running' = running \ {r}
    /\ \E outcome \in Outcomes \cup FailedOutcomes : Report("polled", r.i, r.at, TRUE, outcome)
    /\ UNCHANGED <<asked, plan, seated, open, spoken, stopped, silent>>

(* connect_future: a stream that opens is no report. *)
Connect(r) ==
    /\ last = <<>> /\ r.mode = "streamed"
    /\ running' = running \ {r} /\ open' = open \cup {r.i}
    /\ UNCHANGED <<asked, plan, seated, spoken, stopped, silent, last>>

(* An instance ends: if it was silent the row grows, to its bound, and     *)
(* otherwise it is over; a failure that says so ends the stream for good   *)
(* (StreamLeaf::schedule).                                                 *)
InstanceEnds(i, retryable) ==
    /\ silent' = [silent EXCEPT ![i] = IF i \in spoken THEN 0 ELSE Least(@ + 1, MaxSilent)]
    /\ stopped' = IF retryable = "yes" THEN stopped ELSE stopped \cup {i}

ConnectFails(r) ==
    /\ last = <<>> /\ r.mode = "streamed"
    /\ running' = running \ {r}
    /\ \E outcome \in FailedOutcomes :
         Report("streamed", r.i, r.at, TRUE, outcome) /\ InstanceEnds(r.i, Resolved(outcome[2]))
    /\ UNCHANGED <<asked, plan, seated, open, spoken>>

(* poll_next: the item is stamped with the instant it arrives. *)
Item(i) ==
    /\ last = <<>> /\ spoken' = spoken \cup {i}
    /\ \E outcome \in Outcomes, now \in Walls : Report("streamed", i, now, FALSE, outcome)
    /\ UNCHANGED <<asked, plan, seated, running, open, stopped, silent>>

StreamFails(i) ==
    /\ last = <<>> /\ open' = open \ {i} /\ spoken' = spoken \ {i}
    /\ \E outcome \in FailedOutcomes, now \in Walls :
         Report("streamed", i, now, FALSE, outcome) /\ InstanceEnds(i, Resolved(outcome[2]))
    /\ UNCHANGED <<asked, plan, seated, running>>

StreamCloses(i) ==
    /\ last = <<>> /\ open' = open \ {i} /\ spoken' = spoken \ {i} /\ InstanceEnds(i, "yes")
    /\ UNCHANGED <<asked, plan, seated, running, last>>

Next ==
    \/ MakePlan \/ Add \/ Deliver
    \/ \E mode \in Modes : \E i \in DOMAIN Seated(mode) : Begin(mode, i)
    \/ \E r \in running : Poll(r) \/ Connect(r) \/ ConnectFails(r)
    \/ \E i \in open : Item(i) \/ StreamFails(i) \/ StreamCloses(i)
Spec == Init /\ [][Next]_vars
-----------------------------------------------------------------------------
(* Whatever was needed, declared and wired up: a report that is delivered  *)
(* names the endpoint the collector will retire and the one provider       *)
(* declared for the need its unit was planned for; and its batches, its    *)
(* issues and its status carry one identity and one instant, the one at    *)
(* which the attempt began or the item came (plan, endpoint_subtree,       *)
(* acquire, assemble).                                                     *)
ReportsAttributed ==
    \A x \in Range(last) :
        LET need == IF x.mode = "polled" THEN asked.polls[x.i] ELSE asked.streams[x.i]
            serving == {k \in DOMAIN asked.declarations :
                          /\ asked.declarations[k].mode = x.mode
                          /\ asked.declarations[k].class = need.class}
            origin == OriginOf(asked.declarations[CHOOSE k \in serving : TRUE])
            stamp == [endpoint |-> need.endpoint, origin |-> origin, at |-> x.at]
            r == x.report
        IN  /\ Cardinality(serving) = 1
            /\ r.status.endpoint_id = seated[1].endpoint.id
            /\ r.status.endpoint_id = need.endpoint.id
            /\ r.status.origin = origin /\ r.status.at = x.at
            /\ \A b \in Range(r.batches) : b = stamp
            /\ \A e \in Range(r.issues) : [endpoint |-> e.endpoint, origin |-> e.origin, at |-> e.at] = stamp

(* An issue list a provider may honestly have. *)
Honest(issues) ==
    /\ \A i, j \in DOMAIN issues : issues[i].path = issues[j].path => i = j
    /\ \A i \in DOMAIN issues : IntoModel(issues[i]) /\ issues[i].path # OmittedLocator

(* told holds the first kept of the issues and counts the others. *)
Accounts(told, issues, kept) ==
    told = SubSeq(issues, 1, kept)
             \o IF kept = Len(issues) THEN <<>> ELSE <<Omission(Len(issues) - kept)>>

(* What a device answered is not lost to how much there was to report: all *)
(* batches of sound parts are delivered with one success, and the issues   *)
(* are there as they came but for the last ones, which a closing issue     *)
(* counts (bounded_issues against the envelope's own bound).               *)
(* A failure delivers its class, no batch, and reaches the breaker as one  *)
(* only when it indicts the endpoint; an answer is a success to it.        *)
DeviceDataSurvives ==
    \A x \in Range(last) :
        LET r == x.report
            told == IF r.issues = <<>> THEN <<>> ELSE r.issues[1].issues
        IN  /\ x.fed[1] = "parts" /\ (\A p \in Range(x.fed[2]) : p = "sound") /\ Honest(x.fed[3])
                 => /\ r.status.outcome = "Succeeded"
                    /\ Len(r.batches) = Len(x.fed[2])
                    /\ \E kept \in 0..Len(x.fed[3]) : Accounts(told, x.fed[3], kept)
            /\ r.status.outcome = "Failed" => r.batches = <<>> /\ r.issues = <<>>
            /\ x.fed[1] = "failed" => r.status.outcome = "Failed" /\ r.status.class = x.fed[2].class
            /\ x.sample = "fault"
                 => x.fed[1] = "failed" /\ x.fed[2].class \in {"Connectivity", "Authentication", "Timeout"}

(* What a seated stream waits: between the first retry and the cap with    *)
(* the largest share on top; twice as long after each silent instance      *)
(* until the cap or the last doubling; and never in step with an endpoint  *)
(* whose share differs by a tick, not even at the cap                      *)
(* (ReconnectPolicy::delay, which saturates instead of overflowing).       *)
LadderSpreads ==
    \A i \in DOMAIN Seated("streamed") :
        LET policy == Seated("streamed")[i].reconnect
            row == silent[i]
            base == Base(policy, row)
            gap(near, far) == Share(policy, near) - Share(policy, far)
        IN  /\ \A place \in Places :
                 LET delay == RetryDelay(policy, row, place)
                 IN  /\ delay >= policy.first
                     /\ 100 * delay <= policy.max * (100 + policy.stagger)
            /\ Base(policy, row + 1) = IF row = 0 THEN policy.first
                                       ELSE IF row > MaxDoublings THEN base
                                       ELSE Least(2 * base, policy.max)
            /\ \A near, far \in Places :
                 base * gap(near, far) >= 100
                   => RetryDelay(policy, row, near) > RetryDelay(policy, row, far)
=============================================================================
