----------------------------- MODULE StreamUnit ------------------------------
(***************************************************************************)
(* One streamed acquisition: orchestration/src/stream.rs.                  *)
(*                                                                         *)
(* Three parties share one locked record (Shared): the connect leaf inside *)
(* the dispatcher's runtime, the connect attempt the runtime polls, and    *)
(* the reports the collector pulls.  A step is one critical section of     *)
(* that lock together with the local work up to the next one, so nothing   *)
(* is assumed about which thread polls which party.                        *)
(*                                                                         *)
(* Time is relative: wait is what is left, on the clock the leaf was last  *)
(* shown (last_now), until the due instant; a scan shows it a later one.   *)
(* The delay ladder is module Reconnect; here it is the constant function  *)
(* Delay.  An Option field is "none" or "some", a flag "no" or "yes".      *)
(***************************************************************************)
EXTENDS Integers

CONSTANTS
    Delay,       \* delay after n unproductive instances in a row
    U32Max,      \* where the unproductive counter saturates
    Horizon,     \* the longest delay an Instant can still represent
    MaxElapsed   \* bound: the most the clock moves between two scans

ASSUME StreamAssumption ==
    /\ U32Max \in Nat \ {0}
    /\ Delay \in [0..U32Max -> Nat]
    /\ Horizon \in Nat
    /\ MaxElapsed \in Nat \ {0}

VARIABLES
    phase,        \* Shared.phase
    wait,         \* ticks to the instant of Phase::Due, 0 for Due(None)
    end,          \* the payload of Phase::Ended
    connecting,   \* Shared.connecting, the abort handle of the attempt
    opened,       \* Shared.opened
    waker,        \* Shared.reports, the waker of parked reports
    sink,         \* Shared.runtime, the runtime's wake-up
    leaf,         \* the StreamLeaf: fresh (last_now is None), scanned, gone
    unproductive, \* StreamLeaf.unproductive
    attempt,      \* where the connect_future stands
    reports,      \* where the StreamReports stand
    current,      \* StreamReports.current
    productive,   \* StreamReports.productive
    wakes,        \* who was woken and has not run since
    silent,       \* history: instances in a row that delivered no item
    delivered     \* history: the current instance delivered an item

shared == <<phase, wait, end, connecting, opened, waker, sink>>
leafVars == <<leaf, unproductive>>
reportVars == <<reports, current, productive>>
history == <<silent, delivered>>
vars == <<shared, leafVars, attempt, reportVars, wakes, history>>

Option == {"none", "some"}
Flag == {"no", "yes"}
Phases == {"due", "connecting", "streaming", "ended", "stopped"}
Attempts == {"none", "queued", "performing", "aborted", "opened", "failed"}
(* polling is between poll_next's two critical sections; over returned     *)
(* None; aborting is a drop that took an abort handle out of Shared,       *)
(* dropping one that found none.                                           *)
ReportStates == {"live", "polling", "over", "dropping", "aborting", "dropped"}

TypeOK ==
    /\ phase \in Phases
    /\ wait \in Nat
    /\ end \in [retryable : Flag, productive : Flag]
    /\ connecting \in Option /\ opened \in Option
    /\ waker \in Option /\ sink \in Option
    /\ leaf \in {"fresh", "scanned", "gone"}
    /\ unproductive \in 0..U32Max
    /\ attempt \in Attempts
    /\ reports \in ReportStates
    /\ current \in Option /\ productive \in Flag
    /\ wakes \subseteq {"reports", "runtime"}
    /\ silent \in 0..U32Max /\ delivered \in Flag

(* StreamUnit::bind: due at once, nothing open, nobody parked. *)
Init ==
    /\ phase = "due" /\ wait = 0
    /\ end = [retryable |-> "no", productive |-> "no"]
    /\ connecting = "none" /\ opened = "none"
    /\ waker = "none" /\ sink = "none"
    /\ leaf = "fresh" /\ unproductive = 0
    /\ attempt = "none"
    /\ reports = "live" /\ current = "none" /\ productive = "no"
    /\ wakes = {"reports", "runtime"}
    /\ silent = 0 /\ delivered = "no"
-----------------------------------------------------------------------------
Wake(who) == wakes' = wakes \cup {who}

(* Shared::wake_reports: takes the waker, if any, and wakes its owner. *)
WakeReports ==
    /\ waker' = "none"
    /\ wakes' = IF waker = "some" THEN wakes \cup {"reports"} ELSE wakes

Saturating(n) == IF n < U32Max THEN n + 1 ELSE U32Max

(* Instances in a row that delivered nothing once one more ended. *)
Row(row, yielded) == IF yielded = "yes" THEN 0 ELSE Saturating(row)

(* The runtime takes the leaf and hands it its wake-up. *)
RegisterSink ==
    /\ sink = "none"
    /\ sink' = "some"
    /\ UNCHANGED <<phase, wait, end, connecting, opened, waker, leafVars,
                   attempt, reportVars, wakes, history>>

(* The runtime runs the leaf it holds. *)
Seated == sink = "some" /\ leaf # "gone"

(* A scan of the leaf's readiness, whatever woke the runtime. *)
Scanning ==
    /\ Seated
    /\ leaf' = "scanned"
    /\ UNCHANGED <<end, connecting, opened, sink, attempt, reportVars, history>>

\* Mutants.
RemainingFromScan(elapsed) == wait

(* What is left to the due instant once the clock moved on. *)
Remaining(elapsed) == IF wait > elapsed THEN wait - elapsed ELSE 0

(* StreamLeaf::update_ready, shown a clock that moved on: a due leaf sees  *)
(* its instant come nearer, and so does nobody else.                       *)
UpdateReady(elapsed) ==
    /\ Scanning
    /\ phase # "ended"
    /\ wait' = IF phase = "due" THEN Remaining(elapsed) ELSE wait
    /\ wakes' = wakes \ {"runtime"}
    /\ UNCHANGED <<phase, unproductive, waker>>

\* Mutants.
ScheduleMute ==
    LET row == Row(unproductive, end.productive)
    IN  /\ Scanning
        /\ phase = "ended"
        /\ unproductive' = row
        /\ IF end.retryable = "yes" /\ Delay[row] <= Horizon
           THEN phase' = "due" /\ wait' = Delay[row]
           ELSE phase' = "stopped" /\ UNCHANGED wait
        /\ wakes' = wakes \ {"runtime"} /\ UNCHANGED waker

(* update_ready of an ended instance, StreamLeaf::schedule: the next due   *)
(* instant, or the stop, which wakes the reports.                          *)
Schedule ==
    LET row == Row(unproductive, end.productive)
    IN  /\ Scanning
        /\ phase = "ended"
        /\ unproductive' = row
        /\ \/ /\ end.retryable = "yes" /\ Delay[row] <= Horizon
              /\ phase' = "due" /\ wait' = Delay[row]
              /\ wakes' = wakes \ {"runtime"} /\ UNCHANGED waker
           \/ /\ ~(end.retryable = "yes" /\ Delay[row] <= Horizon)
              /\ phase' = "stopped" /\ UNCHANGED wait
              /\ waker' = "none"
              /\ wakes' = (wakes \ {"runtime"})
                          \cup (IF waker = "some" THEN {"reports"} ELSE {})

(* StreamLeaf::take_next: a due leaf yields one connect attempt. *)
TakeNext ==
    /\ Seated /\ leaf = "scanned"
    /\ phase = "due" /\ wait = 0
    /\ phase' = "connecting"
    /\ attempt' = "queued"
    /\ UNCHANGED <<wait, end, connecting, opened, waker, sink, leafVars,
                   reportVars, wakes, history>>

(* The runtime drops its subtree and the attempt it polls: Drop for        *)
(* StreamLeaf.                                                             *)
DropRuntime ==
    /\ Seated
    /\ leaf' = "gone" /\ attempt' = "none"
    /\ phase' = "stopped" /\ WakeReports
    /\ UNCHANGED <<wait, end, connecting, opened, sink, unproductive,
                   reportVars, history>>
-----------------------------------------------------------------------------
\* Mutants.
BeginUnchecked ==
    /\ attempt = "queued"
    /\ connecting' = "some" /\ attempt' = "performing"
    /\ UNCHANGED <<phase, wait, end, opened, waker, sink, leafVars,
                   reportVars, wakes, history>>

(* connect_future up to its await: the abort handle is published and       *)
(* perform begins. *)
Begin ==
    /\ attempt = "queued" /\ phase # "stopped"
    /\ connecting' = "some" /\ attempt' = "performing"
    /\ UNCHANGED <<phase, wait, end, opened, waker, sink, leafVars,
                   reportVars, wakes, history>>

(* connect_future polled for the first time after the stop: no request. *)
BeginTooLate ==
    /\ attempt = "queued" /\ phase = "stopped"
    /\ attempt' = "none" /\ Wake("runtime")
    /\ UNCHANGED <<shared, leafVars, reportVars, history>>

(* perform answers: the abort handle is withdrawn. *)
Answer(answer) ==
    /\ attempt = "performing"
    /\ attempt' = answer
    /\ connecting' = "none"
    /\ UNCHANGED <<phase, wait, end, opened, waker, sink, leafVars,
                   reportVars, wakes, history>>

(* Abortable resolves to Aborted: no report, the admission is released. *)
Abandon ==
    /\ attempt = "aborted"
    /\ attempt' = "none" /\ Wake("runtime")
    /\ UNCHANGED <<shared, leafVars, reportVars, history>>

(* The attempt opened a stream: it goes to the reports. *)
SettleOpened ==
    /\ attempt = "opened" /\ phase # "stopped"
    /\ attempt' = "none"
    /\ phase' = "streaming" /\ opened' = "some" /\ delivered' = "no"
    /\ waker' = "none"
    /\ wakes' = wakes \cup {"runtime"}
                      \cup (IF waker = "some" THEN {"reports"} ELSE {})
    /\ UNCHANGED <<wait, end, connecting, sink, leafVars, reportVars, silent>>

(* The attempt failed: an instance that delivered nothing ended. *)
SettleFailed(retryable) ==
    /\ attempt = "failed" /\ phase # "stopped"
    /\ attempt' = "none" /\ Wake("runtime")
    /\ phase' = "ended"
    /\ end' = [retryable |-> retryable, productive |-> "no"]
    /\ silent' = Row(silent, "no") /\ delivered' = "no"
    /\ UNCHANGED <<wait, connecting, opened, waker, sink, leafVars, reportVars>>

(* Either answer after the stop: the phase stays, a stream is dropped. *)
SettleTooLate ==
    /\ attempt \in {"opened", "failed"} /\ phase = "stopped"
    /\ attempt' = "none" /\ Wake("runtime")
    /\ UNCHANGED <<shared, leafVars, reportVars, history>>
-----------------------------------------------------------------------------
(* The reports are polled only when woken. *)
Polled == sink = "some" /\ reports = "live" /\ "reports" \in wakes

(* StreamReports::ended: the end is recorded unless stopped. *)
Ended(retryable) ==
    /\ current' = "none"
    /\ \/ /\ phase # "stopped"
          /\ phase' = "ended"
          /\ end' = [retryable |-> retryable, productive |-> productive]
          /\ silent' = Row(silent, delivered) /\ delivered' = "no"
       \/ phase = "stopped" /\ UNCHANGED <<phase, end, history>>

(* poll_next, the open stream yields an item: one report. *)
PollItem ==
    /\ Polled /\ current = "some"
    /\ productive' = "yes" /\ delivered' = "yes"
    /\ UNCHANGED <<shared, leafVars, attempt, reports, current, wakes, silent>>

(* poll_next, the open stream yields its terminal failure: the last report *)
(* of the instance. The runtime is woken. *)
PollFailure(retryable) ==
    /\ Polled /\ current = "some"
    /\ Ended(retryable) /\ Wake("runtime")
    /\ UNCHANGED <<wait, connecting, opened, waker, sink, leafVars, attempt,
                   reports, productive>>

(* poll_next, the open stream is over; the loop goes on to the next lock. *)
PollClosed ==
    /\ Polled /\ current = "some"
    /\ Ended("yes")
    /\ reports' = "polling" /\ wakes' = (wakes \ {"reports"}) \cup {"runtime"}
    /\ UNCHANGED <<wait, connecting, opened, waker, sink, leafVars, attempt,
                   productive>>

(* poll_next, the open stream has nothing yet. *)
PollPending ==
    /\ Polled /\ current = "some"
    /\ wakes' = wakes \ {"reports"}
    /\ UNCHANGED <<shared, leafVars, attempt, reportVars, history>>

(* poll_next without an open stream goes straight to the lock. *)
PollShared ==
    /\ Polled /\ current = "none"
    /\ reports' = "polling" /\ wakes' = wakes \ {"reports"}
    /\ UNCHANGED <<shared, leafVars, attempt, current, productive, history>>
-----------------------------------------------------------------------------
\* Mutants.
TakeOpenedStale ==
    /\ reports = "polling" /\ opened = "some"
    /\ opened' = "none" /\ current' = "some"
    /\ reports' = "live" /\ Wake("reports")
    /\ UNCHANGED <<phase, wait, end, connecting, waker, sink, leafVars,
                   attempt, productive, history>>

(* The second critical section of poll_next: an opened stream is taken and *)
(* polled in turn, *)
TakeOpened ==
    /\ reports = "polling" /\ opened = "some"
    /\ opened' = "none" /\ current' = "some" /\ productive' = "no"
    /\ reports' = "live" /\ Wake("reports")
    /\ UNCHANGED <<phase, wait, end, connecting, waker, sink, leafVars,
                   attempt, history>>

\* Mutants.
FinishUnseatedOnly ==
    /\ reports = "polling" /\ opened = "none" /\ phase = "stopped"
    /\ leaf = "gone"
    /\ reports' = "over"
    /\ UNCHANGED <<shared, leafVars, attempt, current, productive, wakes,
                   history>>

(* or the reports end because nothing more can come, *)
Finish ==
    /\ reports = "polling" /\ opened = "none" /\ phase = "stopped"
    /\ reports' = "over"
    /\ UNCHANGED <<shared, leafVars, attempt, current, productive, wakes,
                   history>>

(* or they park. *)
Park ==
    /\ reports = "polling" /\ opened = "none" /\ phase # "stopped"
    /\ reports' = "live" /\ waker' = "some"
    /\ UNCHANGED <<phase, wait, end, connecting, opened, sink, leafVars,
                   attempt, current, productive, wakes, history>>

(* The provider's stream wakes the task that polls it. *)
ProviderWake ==
    /\ reports = "live" /\ "reports" \notin wakes
    /\ Wake("reports")
    /\ UNCHANGED <<shared, leafVars, attempt, reportVars, history>>

(* Drop for StreamReports, its critical section: stopped, the abort handle *)
(* and an opened stream taken out, *)
DropReports ==
    /\ reports \in {"live", "over"}
    /\ reports' = IF connecting = "some" THEN "aborting" ELSE "dropping"
    /\ phase' = "stopped" /\ connecting' = "none" /\ opened' = "none"
    /\ UNCHANGED <<wait, end, waker, sink, leafVars, attempt, current,
                   productive, wakes, history>>

\* Mutants.
DropFinishNoAbort ==
    /\ reports \in {"dropping", "aborting"}
    /\ reports' = "dropped" /\ current' = "none"
    /\ UNCHANGED <<shared, leafVars, attempt, productive, wakes, history>>

(* and outside the lock: the attempt is aborted, the open stream dropped. *)
DropFinish ==
    /\ reports \in {"dropping", "aborting"}
    /\ reports' = "dropped" /\ current' = "none"
    /\ attempt' = IF reports = "aborting" /\ attempt = "performing"
                  THEN "aborted" ELSE attempt
    /\ UNCHANGED <<shared, leafVars, productive, wakes, history>>
-----------------------------------------------------------------------------
Runtime ==
    \/ RegisterSink
    \/ \E elapsed \in 0..MaxElapsed : UpdateReady(elapsed)
    \/ Schedule \/ TakeNext \/ DropRuntime

Attempt ==
    \/ Begin \/ BeginTooLate
    \/ \E answer \in {"opened", "failed"} : Answer(answer)
    \/ Abandon
    \/ SettleOpened
    \/ \E retryable \in Flag : SettleFailed(retryable)
    \/ SettleTooLate

Reports ==
    \/ PollItem
    \/ \E retryable \in Flag : PollFailure(retryable)
    \/ PollClosed \/ PollPending \/ PollShared
    \/ TakeOpened \/ Finish \/ Park
    \/ ProviderWake
    \/ DropReports \/ DropFinish

Next == Runtime \/ Attempt \/ Reports

Spec == Init /\ [][Next]_vars

(* A scan the runtime was woken for, and the scan its sleep to the due     *)
(* instant ends in. *)
CausedScan ==
    /\ "runtime" \in wakes
    /\ Schedule \/ \E elapsed \in 0..MaxElapsed : UpdateReady(elapsed)
TimedScan ==
    /\ phase = "due" /\ wait > 0
    /\ \E elapsed \in 1..MaxElapsed : UpdateReady(elapsed)

(* A poll, whatever the provider's stream answers. *)
PollStep ==
    \/ PollItem \/ PollClosed \/ PollPending \/ PollShared
    \/ \E retryable \in Flag : PollFailure(retryable)

(* The collector's task keeps running: a woken party is polled, a step     *)
(* begun is finished, a due leaf is admitted in the end (the admission     *)
(* stack is the dispatcher's).  Nothing obliges a provider to answer a     *)
(* connect, to deliver or to close, nor anybody to drop a half.            *)
Fairness ==
    /\ WF_vars(RegisterSink) /\ WF_vars(CausedScan) /\ WF_vars(TimedScan)
    /\ WF_vars(TakeNext)
    /\ WF_vars(Begin) /\ WF_vars(BeginTooLate) /\ WF_vars(Abandon)
    /\ WF_vars(SettleOpened) /\ WF_vars(SettleTooLate)
    /\ WF_vars(\E retryable \in Flag : SettleFailed(retryable))
    /\ WF_vars(PollStep)
    /\ WF_vars(TakeOpened) /\ WF_vars(Finish) /\ WF_vars(Park)
    /\ WF_vars(DropFinish)

FairSpec == Spec /\ Fairness
-----------------------------------------------------------------------------
(* One subscription at a time: the endpoint never has two instances of the *)
(* stream (an attempt, an opened stream not yet taken, an open one), and a *)
(* leaf that is due has none at all, so no reconnect overlaps the instance *)
(* it replaces (take_next, connect_future, poll_next).                     *)
OneInstance ==
    /\ attempt # "none" => opened = "none" /\ current = "none"
    /\ opened = "some" => current = "none"
    /\ phase \in {"due", "ended"}
         => attempt = "none" /\ opened = "none" /\ current = "none"

(* Dropping the reports cancels the stream for good: no opened stream is   *)
(* left behind for nobody, and a request in flight is being aborted, so a  *)
(* hung connect cannot hold the retirement (Drop for StreamReports).       *)
DropCancels ==
    reports = "dropped" => /\ phase = "stopped"
                           /\ opened = "none" /\ current = "none"
                           /\ attempt # "performing"

(* No lost wake-up on the reports' side: reports with something to do, an  *)
(* opened stream to take or a stop to pass on, are woken (wake_reports at  *)
(* every place that opens or stops, poll_next's order of check and park).  *)
NoLostWakeUp ==
    /\ reports = "live" /\ current = "none"
    /\ opened = "some" \/ phase = "stopped"
    => "reports" \in wakes

(* No lost wake-up on the runtime's side: an ended instance the leaf has   *)
(* not scheduled yet is a cause to scan (ended pushes WakeUp, a resolved   *)
(* attempt is a completion).                                               *)
EndIsSeen == phase = "ended" => "runtime" \in wakes

(* The ladder counts what it says: instances in a row that delivered       *)
(* nothing, whatever mix of failed connects, silent streams and closed     *)
(* ones they were (productive reset in poll_next, unproductive in          *)
(* schedule).                                                              *)
LadderCountsSilence ==
    phase \in {"due", "connecting", "streaming"} => unproductive = silent

(* A stop is final: no late attempt, late end or late scan restarts the    *)
(* stream (the Stopped checks of connect_future and ended).                *)
StopIsFinal == [][phase = "stopped" => phase' = "stopped"]_vars

(* An end that may be retried is followed by another attempt or by a stop: *)
(* the leaf's scan, its sleep to the due instant and take_next.            *)
EndedReconnects ==
    phase = "ended" /\ end.retryable = "yes"
        ~> phase \in {"connecting", "stopped"}

(* Once stopped with no stream open or about to be, the reports end (or    *)
(* are dropped): poll_next's None, woken for by schedule and Drop for      *)
(* StreamLeaf.                                                             *)
StopEndsReports ==
    phase = "stopped" /\ current = "none" /\ opened = "none"
        ~> reports \notin {"live", "polling"}

-----------------------------------------------------------------------------
(* What the unit promises the endpoint, module Subscription: a request is  *)
(* outstanding from the first poll of perform until its answer is settled, *)
(* a stream is up until it is dropped.  Two at once are no state of the    *)
(* promise, and a request while one is up is no step of it.                *)
Asked == attempt \notin {"none", "queued"}

Link ==
    IF \/ opened = "some" /\ current = "some"
       \/ Asked /\ "some" \in {opened, current}
    THEN "twice"
    ELSE IF "some" \in {opened, current} THEN "up"
    ELSE IF Asked THEN "requesting"
    ELSE "down"

Promise == INSTANCE Subscription
               WITH link <- Link,
                    stopped <- IF phase = "stopped" THEN "yes" ELSE "no"

(* The unit implements that promise: whatever the interleaving of leaf,    *)
(* attempt and reports, one request or stream at a time, and after a stop  *)
(* no request is made and no stream comes up.                              *)
KeepsPromise == Promise!Spec
=============================================================================
