------------------------------ MODULE Collector ------------------------------
(***************************************************************************)
(* The collector: orchestration/src/collector.rs.                          *)
(*                                                                         *)
(* A registry under one lock, one task per added endpoint (drive and run), *)
(* and one bounded channel to one consumer.  A step is one critical        *)
(* section of the registry, one arm of run's select, or one await of       *)
(* drive.  The dispatcher's runtime is not in the repository: of it the    *)
(* model keeps how many units are due on its clock and how many            *)
(* acquisitions fly.  Units that do not form an endpoint are refused       *)
(* before the registry is touched (recipe.rs), which is not modelled here. *)
(***************************************************************************)
EXTENDS Integers, Sequences, FiniteSets

CONSTANTS
    Ids,         \* endpoint ids
    Capacity,    \* REPORTS_CAPACITY
    Modes,       \* how endpoints are collected: sets of "polls" and "streams"
    Units,       \* units of one endpoint, each stream's leaf included
    InFlight,    \* EndpointPolicy.max_in_flight
    Serials      \* bound: reports are numbered modulo this

ASSUME CollectorAssumption ==
    /\ IsFiniteSet(Ids)
    /\ Capacity \in Nat \ {0}
    /\ Modes \subseteq (SUBSET {"polls", "streams"}) \ {{}}
    /\ Units \in Nat \ {0}
    /\ InFlight \in Nat \ {0}
    /\ Serials \in Nat \ {0}

VARIABLES
    output,     \* State.output: "open" until shutdown
    endpoints,  \* the keys of State.endpoints
    notified,   \* ids whose Notify stores a permit
    consumer,   \* who has the Reports: "reading", "ended" (saw None), "gone"
    queued,     \* outputs in the mpsc queue, first in first out
    pc,         \* where the id's task stands
    retiring,   \* ids whose run has its local retiring set
    graceful,   \* ids whose handle.graceful_shutdown was called
    streaming,  \* ids whose run has its local streaming set
    polled,     \* ids whose Seated.polled is set
    due,        \* units due and not dispatched
    flying,     \* acquisitions in flight
    held,       \* drive's held, as serial numbers of reports
    finished,   \* history: the serial number of the last finished report
    last        \* history: the last output sent for the id, or why there is none

registry == <<output, endpoints, notified>>
locals == <<retiring, graceful, streaming, polled, due, flying>>
history == <<finished, last>>
vars == <<registry, consumer, queued, pc, locals, held, history>>

(* seated: registered, not spawned yet; running: in run's loop; flushing:  *)
(* delivering what it holds; reserving and reserved: retiring before and   *)
(* after it has a slot; silent: retiring without one.                      *)
PCs == {"free", "seated", "running", "flushing", "reserving", "reserved",
        "silent"}

(* What was last said of an id: a Collected; that it was added, which      *)
(* sends nothing; or that it left with nobody told.                        *)
Kinds == {"report", "retired", "added", "unsaid"}

TypeOK ==
    /\ output \in {"open", "shut"}
    /\ endpoints \in SUBSET Ids /\ notified \in SUBSET endpoints
    /\ consumer \in {"reading", "ended", "gone"}
    /\ queued \in 0..Capacity
    /\ pc \in [Ids -> PCs]
    /\ retiring \in SUBSET Ids /\ graceful \in SUBSET Ids
    /\ streaming \in SUBSET Ids /\ polled \in SUBSET Ids
    /\ due \in [Ids -> 0..Units] /\ flying \in [Ids -> 0..InFlight]
    /\ held \in [Ids -> Seq(0..(Serials - 1))]
    /\ finished \in [Ids -> 0..(Serials - 1)]
    /\ last \in [Ids -> [kind : Kinds, serial : 0..(Serials - 1)]]

(* Collector::new. *)
Init ==
    /\ output = "open" /\ endpoints = {} /\ notified = {}
    /\ consumer = "reading" /\ queued = 0
    /\ pc = [id \in Ids |-> "free"]
    /\ retiring = {} /\ graceful = {} /\ streaming = {} /\ polled = {}
    /\ due = [id \in Ids |-> 0] /\ flying = [id \in Ids |-> 0]
    /\ held = [id \in Ids |-> <<>>]
    /\ finished = [id \in Ids |-> 0]
    /\ last = [id \in Ids |-> [kind |-> "unsaid", serial |-> 0]]
-----------------------------------------------------------------------------
Reserved == {id \in Ids : pc[id] = "reserved"}

(* Free permits of the channel: a slot reserved and not yet used counts. *)
Room == queued + Cardinality(Reserved) < Capacity

Say(id, kind, serial) ==
    last' = [last EXCEPT ![id] = [kind |-> kind, serial |-> serial]]

(* A sent output joins the queue, unless the receiver is gone. *)
Send(id, kind, serial) ==
    /\ queued' = IF consumer = "gone" THEN queued ELSE queued + 1
    /\ Say(id, kind, serial)

Goto(id, label) == pc' = [pc EXCEPT ![id] = label]

With(set, id, condition) == IF condition THEN set \cup {id} ELSE set \ {id}

(* Entry::Vacant's insert, and the locals run starts with. *)
Seat(id, modes) ==
    /\ endpoints' = endpoints \cup {id}
    /\ Goto(id, "seated")
    /\ polled' = With(polled, id, "polls" \in modes)
    /\ streaming' = With(streaming, id, "streams" \in modes)
    /\ due' = [due EXCEPT ![id] = Units]
    /\ finished' = [finished EXCEPT ![id] = 0]
    /\ Say(id, "added", 0)
    /\ UNCHANGED <<output, notified, consumer, queued, retiring, graceful,
                   flying, held>>

\* Mutants.
AddAfterShutdown(id, modes) ==
    /\ consumer # "gone"
    /\ id \notin endpoints
    /\ Seat(id, modes)

(* Collector::add under the registry's lock, once the units form an        *)
(* endpoint: refused after shutdown, without a consumer, or while the id   *)
(* is collected or still retiring. Its units are due at once.              *)
Add(id, modes) ==
    /\ output = "open" /\ consumer # "gone"
    /\ id \notin endpoints
    /\ Seat(id, modes)

(* The end of add: the endpoint's task starts. *)
Spawn(id) ==
    /\ pc[id] = "seated"
    /\ Goto(id, "running")
    /\ UNCHANGED <<registry, consumer, queued, locals, held, history>>

(* Collector::remove of a collected id. *)
Remove(id) ==
    /\ id \in endpoints
    /\ notified' = notified \cup {id}
    /\ UNCHANGED <<output, endpoints, consumer, queued, pc, locals, held, history>>

\* Mutants.
ShutdownSpawnedOnly ==
    /\ output = "open"
    /\ output' = "shut"
    /\ notified' = notified \cup {id \in endpoints : pc[id] # "seated"}
    /\ UNCHANGED <<endpoints, consumer, queued, pc, locals, held, history>>

(* Collector::shutdown. *)
Shutdown ==
    /\ output = "open"
    /\ output' = "shut"
    /\ notified' = notified \cup endpoints
    /\ UNCHANGED <<endpoints, consumer, queued, pc, locals, held, history>>
-----------------------------------------------------------------------------
(* run's select polls its arms in order: a stop, then a gone consumer,     *)
(* then a slot for a held report, then everything else. A signal that      *)
(* arrives behind the poll of its arm is one that comes after the step.    *)
Stopping(id) == id \in notified /\ id \notin retiring
Attended(id) == pc[id] = "running" /\ ~Stopping(id) /\ consumer # "gone"
Holding(id) == held[id] # <<>>
Quiet(id) == Attended(id) /\ ~(Holding(id) /\ Room)

\* Mutants.
StopArmKeepsStreams(id) ==
    /\ pc[id] = "running" /\ Stopping(id)
    /\ retiring' = retiring \cup {id} /\ notified' = notified \ {id}
    /\ UNCHANGED <<output, endpoints, consumer, queued, pc, polled, flying,
                   held, history, streaming, graceful, due>>

(* stopped: the streams are dropped and nothing more is dispatched. *)
StopArm(id) ==
    /\ pc[id] = "running" /\ Stopping(id)
    /\ retiring' = retiring \cup {id} /\ notified' = notified \ {id}
    /\ streaming' = streaming \ {id} /\ graceful' = graceful \cup {id}
    /\ due' = [due EXCEPT ![id] = 0]
    /\ UNCHANGED <<output, endpoints, consumer, queued, pc, polled, flying,
                   held, history>>

(* run is over, by return, panic or drop: its runtime and its streams go. *)
EndRun(id, label) ==
    /\ Goto(id, label)
    /\ retiring' = retiring \ {id} /\ graceful' = graceful \ {id}
    /\ streaming' = streaming \ {id} /\ polled' = polled \ {id}
    /\ due' = [due EXCEPT ![id] = 0] /\ flying' = [flying EXCEPT ![id] = 0]

(* What a task held when it ended without delivering it is dropped. *)
DropHeld(id) ==
    /\ held' = [held EXCEPT ![id] = <<>>]
    /\ finished' = [finished EXCEPT ![id] = last[id].serial]

\* Mutants.
ClosedArmHolding(id) ==
    /\ pc[id] = "running" /\ ~Stopping(id) /\ consumer = "gone"
    /\ Holding(id)
    /\ EndRun(id, "silent") /\ DropHeld(id)
    /\ UNCHANGED <<registry, consumer, queued, last>>

(* closed, or a failed reserve: nobody listens, run returns false. *)
ClosedArm(id) ==
    /\ pc[id] = "running" /\ ~Stopping(id) /\ consumer = "gone"
    /\ EndRun(id, "silent") /\ DropHeld(id)
    /\ UNCHANGED <<registry, consumer, queued, last>>

SendHeld(id) ==
    /\ Holding(id) /\ consumer # "gone" /\ Room
    /\ Send(id, "report", Head(held[id]))
    /\ held' = [held EXCEPT ![id] = Tail(@)]

(* output.reserve: the oldest held report is sent. *)
ReserveArm(id) ==
    /\ Attended(id)
    /\ SendHeld(id)
    /\ UNCHANGED <<registry, consumer, pc, locals, finished>>

(* The runtime dispatches a due unit while it is polled, held reports or   *)
(* not.                                                                    *)
Dispatch(id) ==
    /\ Quiet(id) /\ id \notin graceful
    /\ due[id] > 0 /\ flying[id] < InFlight
    /\ due' = [due EXCEPT ![id] = @ - 1]
    /\ flying' = [flying EXCEPT ![id] = @ + 1]
    /\ UNCHANGED <<registry, consumer, queued, pc, retiring, graceful,
                   streaming, polled, held, history>>

\* Mutants.
AdvanceWhileHolding(id) ==
    /\ Quiet(id) /\ id \notin graceful
    /\ due[id] < Units
    /\ due' = [due EXCEPT ![id] = @ + 1]
    /\ UNCHANGED <<registry, consumer, queued, pc, retiring, graceful,
                   streaming, polled, flying, held, history>>

(* next_output brings the runtime's clock to the present, and a unit falls *)
(* due, not while a report is held. A unit that stays due falls due once.  *)
Advance(id) ==
    /\ Quiet(id) /\ ~Holding(id) /\ id \notin graceful
    /\ due[id] < Units
    /\ due' = [due EXCEPT ![id] = @ + 1]
    /\ UNCHANGED <<registry, consumer, queued, pc, retiring, graceful,
                   streaming, polled, flying, held, history>>

Succ(serial) == (serial + 1) % Serials

(* The next report of the id is finished and joins the held. *)
Hold(id) ==
    /\ held' = [held EXCEPT ![id] = Append(@, Succ(finished[id]))]
    /\ finished' = [finished EXCEPT ![id] = Succ(@)]
    /\ UNCHANGED last

(* RuntimeOutput::Work: its report is held; a connect that opened its      *)
(* stream, or was abandoned, has none.                                     *)
WorkDone(id) ==
    /\ Quiet(id) /\ flying[id] > 0
    /\ flying' = [flying EXCEPT ![id] = @ - 1]
    /\ Hold(id) \/ UNCHANGED <<held, history>>
    /\ UNCHANGED <<registry, consumer, queued, pc, retiring, graceful,
                   streaming, polled, due>>

(* RuntimeOutput::Shutdown: asked to stop, and nothing flies. *)
RuntimeShutdown(id) ==
    /\ Quiet(id) /\ id \in graceful /\ flying[id] = 0
    /\ EndRun(id, "flushing")
    /\ UNCHANGED <<registry, consumer, queued, held, history>>

(* streams.next yields a report: only while none is held. *)
StreamItem(id) ==
    /\ Quiet(id) /\ ~Holding(id) /\ id \in streaming
    /\ Hold(id)
    /\ UNCHANGED <<registry, consumer, queued, pc, locals>>

(* streams.next yields None: an endpoint that polls nothing retires. *)
StreamsOver(id) ==
    /\ Quiet(id) /\ ~Holding(id) /\ id \in streaming
    /\ streaming' = streaming \ {id}
    /\ graceful' = With(graceful, id, id \in graceful \/ id \notin polled)
    /\ due' = IF id \in polled THEN due ELSE [due EXCEPT ![id] = 0]
    /\ UNCHANGED <<registry, consumer, queued, pc, retiring, polled, flying,
                   held, history>>

Panics(id) == Quiet(id) /\ (flying[id] > 0 \/ (id \in streaming /\ ~Holding(id)))

\* Mutants.
PanicLosesHeld(id) ==
    /\ Panics(id)
    /\ EndRun(id, "flushing")
    /\ held' = [held EXCEPT ![id] = <<>>]
    /\ UNCHANGED <<registry, consumer, queued, history>>

(* A unit panics while it is polled: what flies is lost, what is held is   *)
(* not. *)
Panic(id) ==
    /\ Panics(id)
    /\ EndRun(id, "flushing")
    /\ UNCHANGED <<registry, consumer, queued, held, history>>
-----------------------------------------------------------------------------
(* drive after run: the held reports go out one by one, *)
Flush(id) ==
    /\ pc[id] = "flushing"
    /\ SendHeld(id)
    /\ UNCHANGED <<registry, consumer, pc, locals, finished>>

(* until none is left, or a send fails and the rest is dropped. *)
FlushOver(id) ==
    /\ pc[id] = "flushing"
    /\ \/ ~Holding(id) /\ UNCHANGED <<held, finished>>
       \/ consumer = "gone" /\ DropHeld(id)
    /\ Goto(id, "reserving")
    /\ UNCHANGED <<registry, consumer, queued, locals, last>>

(* Seat::retire awaits a slot for the retirement; none comes from a gone   *)
(* consumer. *)
RetireReserve(id) ==
    /\ pc[id] = "reserving"
    /\ \/ consumer # "gone" /\ Room /\ Goto(id, "reserved")
       \/ consumer = "gone" /\ Goto(id, "silent")
    /\ UNCHANGED <<registry, consumer, queued, locals, held, history>>

(* Drop for Seat: the task is dropped at one of its awaits, or could not   *)
(* be spawned. The id is freed all the same, and said if there is room.    *)
Abandon(id) ==
    /\ pc[id] \in {"seated", "running", "flushing", "reserving"}
    /\ EndRun(id, IF consumer # "gone" /\ Room THEN "reserved" ELSE "silent")
    /\ DropHeld(id)
    /\ UNCHANGED <<registry, consumer, queued, last>>

(* The id leaves the registry, its Notify with it, and its task is over. *)
Leave(id) ==
    /\ endpoints' = endpoints \ {id} /\ notified' = notified \ {id}
    /\ Goto(id, "free")
    /\ UNCHANGED <<output, consumer, locals, held, finished>>

\* Mutants.
RetireKeepsEntry(id) ==
    /\ pc[id] = "reserved"
    /\ Goto(id, "free")
    /\ Send(id, "retired", finished[id])
    /\ UNCHANGED <<registry, consumer, locals, held, finished>>

(* Registry::retire with a slot: freed and said under one lock. *)
Retire(id) ==
    /\ pc[id] = "reserved"
    /\ Leave(id)
    /\ Send(id, "retired", finished[id])

(* Registry::retire without one: nobody is told. *)
RetireSilently(id) ==
    /\ pc[id] = "silent"
    /\ Leave(id)
    /\ Say(id, "unsaid", finished[id]) /\ UNCHANGED queued
-----------------------------------------------------------------------------
(* Reports::poll_next yields an output. *)
Receive ==
    /\ consumer = "reading" /\ queued > 0
    /\ queued' = queued - 1
    /\ UNCHANGED <<registry, consumer, pc, locals, held, history>>

(* Reports::poll_next yields None: every sender is gone, the registry's    *)
(* and each seat's. *)
ReceiveEnd ==
    /\ consumer = "reading" /\ queued = 0
    /\ output = "shut" /\ \A id \in Ids : pc[id] = "free"
    /\ consumer' = "ended"
    /\ UNCHANGED <<registry, queued, pc, locals, held, history>>

(* The consumer drops the Reports, and with them what is queued. *)
DropReports ==
    /\ consumer # "gone"
    /\ consumer' = "gone" /\ queued' = 0
    /\ UNCHANGED <<registry, pc, locals, held, history>>
-----------------------------------------------------------------------------
Handles(id) == Remove(id) \/ \E modes \in Modes : Add(id, modes)

Running(id) ==
    \/ Spawn(id)
    \/ StopArm(id) \/ ClosedArm(id) \/ ReserveArm(id)
    \/ Dispatch(id) \/ Advance(id) \/ WorkDone(id) \/ RuntimeShutdown(id)
    \/ StreamItem(id) \/ StreamsOver(id)
    \/ Panic(id)

Leaving(id) ==
    \/ Flush(id) \/ FlushOver(id)
    \/ RetireReserve(id) \/ Abandon(id)
    \/ Retire(id) \/ RetireSilently(id)

Next ==
    \/ \E id \in Ids : Handles(id) \/ Running(id) \/ Leaving(id)
    \/ Shutdown
    \/ Receive \/ ReceiveEnd \/ DropReports

Spec == Init /\ [][Next]_vars

(* What the task of an id does once it is scheduled, *)
Scheduled(id) ==
    \/ Spawn(id) \/ StopArm(id) \/ ClosedArm(id)
    \/ FlushOver(id) \/ Retire(id) \/ RetireSilently(id)

(* what it does with a slot of the channel, *)
Granted(id) == ReserveArm(id) \/ Flush(id) \/ RetireReserve(id)

(* and what the end of an acquisition lets it do. *)
Finishes(id) == WorkDone(id) \/ RuntimeShutdown(id)

(* Tasks are scheduled; acquisitions finish (every provider bounds its     *)
(* own); the consumer keeps reading until it drops the stream. A waiter    *)
(* for a slot gets one in the end: tokio's semaphore serves waiters in     *)
(* order, and run, which gives up its place when another arm fires, can    *)
(* do so only for the units due when it began to hold.                     *)
Fairness ==
    /\ \A id \in Ids :
        /\ WF_vars(Scheduled(id))
        /\ SF_vars(Granted(id))
        /\ SF_vars(Finishes(id))
    /\ WF_vars(Receive \/ ReceiveEnd)

FairSpec == Spec /\ Fairness
-----------------------------------------------------------------------------
(* What a step says of an id may follow what was said last.                *)
SaidNext ==
    \A id \in Ids :
        LET before == last[id]
            now == last'[id]
        IN  now # before =>
              /\ now.kind \in {"report", "retired", "unsaid"}
                    => before.kind \in {"added", "report"}
              /\ now.kind = "added" => before.kind \in {"retired", "unsaid"}
              /\ now.kind = "report" => now.serial = Succ(before.serial)
              /\ now.kind = "retired" => now.serial = before.serial

(* What is said of one endpoint: its reports in the order they finished,   *)
(* none missing and none twice; then one Retired, once every finished      *)
(* report went out, and nothing until a later add; no add before the end   *)
(* of the addition before it. A panic, a removal, a re-add or a shutdown   *)
(* in between changes nothing of it (held, drive, Registry::retire's one   *)
(* lock).                                                                  *)
InOrder == [][SaidNext]_vars

(* The registry's ids are exactly the ids some task still answers for:     *)
(* none is freed while its task may still send, and none outlives its      *)
(* task, by whatever path the task ends (Seat, its Drop).                  *)
SeatsAreTasks == endpoints = {id \in Ids : pc[id] # "free"}

(* No endpoint misses the shutdown, however it races the add, the spawn    *)
(* and the endpoint's own retirement: its signal is stored, or it was      *)
(* acted on, or the endpoint is on its way out (add's lock, notify_one's   *)
(* permit).                                                                *)
ShutdownReachesAll ==
    output = "shut" =>
        \A id \in endpoints :
            \/ id \in notified \/ id \in retiring
            \/ pc[id] \notin {"seated", "running"}

(* A stalled consumer grows no queue: an endpoint holds at most what was   *)
(* due and in flight when it began to hold, and one stream item more       *)
(* (next_output's advance, the guards on streams and sleep).               *)
HeldBounded == \A id \in Ids : Len(held[id]) <= Units + InFlight + 1

(* A removal retires the endpoint, whatever it holds and flies. *)
RemovalRetires ==
    \A id \in Ids : id \in notified /\ pc[id] = "running" ~> pc[id] = "free"

(* Shutdown ends the Reports after the last retirement. *)
ShutdownEnds == output = "shut" ~> consumer # "reading"

(* Dropping the Reports shuts every endpoint down. *)
DropEmpties == consumer = "gone" ~> endpoints = {}
=============================================================================
