----------------------------- MODULE EventCursor -----------------------------
(***************************************************************************)
(* The Redfish event stream between its instances:                         *)
(* sources/redfish/src/stream.rs.                                          *)
(*                                                                         *)
(* The provider keeps a run and the last SSE id (Cursor); an instance      *)
(* starts after that id in that run, or live in a run of its own.  What    *)
(* orchestration guarantees is taken for granted: one instance at a time   *)
(* (module StreamUnit), items delivered unless the process ends (module    *)
(* Collector).  The device numbers its payloads from one at every boot and *)
(* keeps the latest few; the serial number that tells payloads of two      *)
(* boots apart is the model's, not the code's.  A payload carries one      *)
(* record, whose EventId is the payload's number.                          *)
(***************************************************************************)
EXTENDS Integers, FiniteSets

CONSTANTS
    Devices,     \* what the device may be: see DeviceTypes
    Retain,      \* payloads the device keeps for a resume
    Unread,      \* serial numbers of payloads that yield an issue, no record
    Metric,      \* serial numbers of metric reports
    MaxEvents    \* bound: payloads ever sent

(* ids: it sends SSE ids; outside: what it does with an id it does not     *)
(* keep; restarts: it may boot, and number from one again.                 *)
DeviceTypes == [ids : {"sent", "none"}, outside : {"refuses", "replays"},
                restarts : {"no", "yes"}]

ASSUME EventAssumption ==
    /\ Devices \subseteq DeviceTypes
    /\ Retain \in Nat \ {0} /\ MaxEvents \in Nat
    /\ Unread \subseteq 1..MaxEvents /\ Metric \subseteq 1..MaxEvents
    /\ Unread \cap Metric = {}

VARIABLES
    device,    \* the device's kind, fixed
    written,   \* payloads it produced, in all its boots
    base,      \* payloads it produced before this boot
    next,      \* serial number it sends next, 0 on a dead or closed stream
    gap,       \* it owes the stream an EventBufferExceeded
    run,       \* Cursor.run, 0 for None
    after,     \* Cursor.last_event_id, 0 for None
    link,      \* the instance: "down", "starting" (past start), "open"
    start,     \* its Start: run, and the id it resumes after, 0 to start live
    seen,      \* Live.metric_reports_seen
    held,      \* payloads in items read and not yet delivered
    kept,      \* the position the embedder stored, <<>> or <<position>>
    known,     \* history: payloads the consumer got a record or an issue for
    lost,      \* history: payloads held when the process ended
    shipped,   \* history: the records that left the provider
    since,     \* history: the first payload of the resumable sequence, 0 if none
    rewound    \* history: a position older than the cursor was handed back

world == <<device, written, base>>
sent == <<next, gap>>
cursor == <<run, after>>
instance == <<link, start, seen>>
history == <<known, lost, shipped, since, rewound>>
vars == <<world, sent, cursor, instance, held, kept, history>>

Serials == 1..MaxEvents
Ids == 0..MaxEvents
Runs == 0..(MaxEvents + 1)
Flag == {"no", "yes"}

TypeOK ==
    /\ device \in Devices
    /\ written \in 0..MaxEvents /\ base \in 0..written
    /\ next \in 0..(written + 1) /\ gap \in Flag
    /\ run \in Runs /\ after \in Ids
    /\ link \in {"down", "starting", "open"}
    /\ start \in [run : Runs, after : Ids] /\ seen \in Flag
    /\ held \subseteq Serials
    /\ kept = <<>> \/ kept \in [{1} -> [run : Runs \ {0}, after : Ids \ {0}]]
    /\ known \subseteq Serials /\ lost \subseteq Serials
    /\ shipped \subseteq [run : Runs \ {0}, id : Serials, serial : Serials]
    /\ since \in 0..MaxEvents /\ rewound \in Flag

(* EventStream::new: the first instance starts live. *)
Init ==
    /\ device \in Devices /\ written = 0 /\ base = 0
    /\ next = 0 /\ gap = "no"
    /\ run = 0 /\ after = 0
    /\ link = "down" /\ start = [run |-> 0, after |-> 0] /\ seen = "no"
    /\ held = {} /\ kept = <<>>
    /\ known = {} /\ lost = {} /\ shipped = {} /\ since = 0 /\ rewound = "no"
-----------------------------------------------------------------------------
(* The device. *)

Most(a, b) == IF a > b THEN a ELSE b

(* The payloads it keeps are Oldest..written. *)
Oldest == Most(base, written - Retain) + 1

Emit ==
    /\ written < MaxEvents /\ written' = written + 1
    /\ UNCHANGED <<device, base, sent, cursor, instance, held, kept, history>>

(* It boots: its history is gone, its streams die. *)
Restart ==
    /\ device.restarts = "yes" /\ written > base
    /\ base' = written /\ next' = 0 /\ gap' = "no"
    /\ UNCHANGED <<device, written, cursor, instance, held, kept, history>>
-----------------------------------------------------------------------------
(* A connect attempt. *)

(* A run nobody names yet: what a minted UUID is. *)
Named == {key.run : key \in shipped} \cup {kept[i].run : i \in DOMAIN kept}
Fresh == CHOOSE r \in Runs \ {0} : r \notin Named /\ \A q \in 1..(r - 1) : q \in Named

\* Mutants.
StartKeepsRun ==
    IF run # 0 THEN [run |-> run, after |-> after] ELSE [run |-> Fresh, after |-> 0]
StartFresh == [run |-> Fresh, after |-> after]

(* Cursor::start: after the last id in its run, or live in a new one. *)
Start ==
    IF run # 0 /\ after # 0 THEN [run |-> run, after |-> after]
    ELSE [run |-> Fresh, after |-> 0]

(* perform up to the request for the stream: a root or service that cannot *)
(* be read, or has no stream, ends it before it touches the cursor.        *)
Begin ==
    /\ link = "down"
    /\ link' = "starting" /\ start' = Start
    /\ run' = Start.run /\ after' = Start.after
    /\ UNCHANGED <<world, sent, seen, held, kept, history>>

(* The stream is not opened (no answer, a refused position, a service id   *)
(* no scope can carry) or the attempt is dropped: the position stays.      *)
OpenFails ==
    /\ link = "starting"
    /\ link' = "down"
    /\ UNCHANGED <<world, sent, cursor, start, seen, held, kept, history>>

(* The device answers: from now on, after the id it still keeps, or, if it *)
(* does not refuse an id it lacks, with all it has, a gap first.           *)
Retained(id) == base + id \in Oldest..written
Opens ==
    /\ link = "starting"
    /\ \/ start.after = 0 /\ next' = written + 1 /\ gap' = "no"
       \/ /\ start.after # 0 /\ Retained(start.after)
          /\ next' = base + start.after + 1 /\ gap' = "no"
       \/ /\ start.after # 0 /\ ~Retained(start.after) /\ device.outside = "replays"
          /\ next' = Oldest /\ gap' = "yes"
    /\ link' = "open" /\ seen' = "no"
    /\ UNCHANGED <<world, cursor, start, held, kept, history>>
-----------------------------------------------------------------------------
(* The open stream: items. *)

Live == link = "open" /\ next # 0

(* Payloads the device dropped before the stream got to them. *)
Overrun == gap = "yes" \/ next < Oldest

\* Mutants.
ReadGapMute ==
    /\ Live /\ Overrun
    /\ gap' = "no" /\ next' = Most(next, Oldest)
    /\ UNCHANGED <<world, cursor, instance, held, kept, history>>
ReadGapEnds ==
    /\ Live /\ Overrun
    /\ held' = held \cup (base + 1)..(Oldest - 1)
    /\ link' = "down" /\ next' = 0 /\ gap' = "no"
    /\ UNCHANGED <<world, cursor, start, seen, kept, history>>

(* An EventBufferExceeded record: an issue, never a record. It has no id.  *)
ReadGap ==
    /\ Live /\ Overrun
    /\ held' = held \cup (base + 1)..(Oldest - 1)
    /\ gap' = "no" /\ next' = Most(next, Oldest)
    /\ UNCHANGED <<world, cursor, instance, kept, history>>

(* A payload arrives: its id, if any, moves the cursor before anything is  *)
(* made of it.                                                             *)
Arrives ==
    /\ Live /\ ~Overrun /\ next <= written
    /\ after' = IF device.ids = "sent" THEN next - base ELSE after
    /\ since' = IF since = 0 /\ device.ids = "sent" THEN next ELSE since
    /\ UNCHANGED <<world, gap, run, start, kept, known, lost, rewound>>

(* An Event: its record ships under the instance's run. *)
ReadEvent ==
    /\ Arrives /\ next \notin Unread \cup Metric
    /\ shipped' = shipped \cup {[run |-> start.run, id |-> next - base, serial |-> next]}
    /\ held' = held \cup {next} /\ next' = next + 1
    /\ UNCHANGED <<link, seen>>

(* A payload that does not decode, or refers to its record: an issue. *)
ReadIssue ==
    /\ Arrives /\ next \in Unread
    /\ held' = held \cup {next} /\ next' = next + 1
    /\ UNCHANGED <<link, seen, shipped>>

(* A metric report: an issue the first time, nothing after that. *)
ReadMetric ==
    /\ Arrives /\ next \in Metric
    /\ seen' = "yes" /\ next' = next + 1
    /\ held' = IF seen = "no" THEN held \cup {next} ELSE held
    /\ UNCHANGED <<link, shipped>>

(* A record that cannot be projected ends the stream with that failure. *)
ReadBreaks ==
    /\ Arrives /\ next \notin Unread \cup Metric
    /\ held' = held \cup {next} /\ link' = "down" /\ next' = 0
    /\ UNCHANGED <<seen, shipped>>

(* The transport fails, the device closes, or the instance is dropped. *)
Ends ==
    /\ link = "open"
    /\ link' = "down" /\ next' = 0 /\ gap' = "no"
    /\ UNCHANGED <<world, cursor, start, seen, held, kept, history>>

(* The consumer receives what was read. *)
Deliver ==
    /\ held # {}
    /\ \E s \in held : known' = known \cup {s} /\ held' = held \ {s}
    /\ UNCHANGED <<world, sent, cursor, instance, kept, lost, shipped, since, rewound>>
-----------------------------------------------------------------------------
(* The embedder. *)

(* resume_position: None before the first id. *)
Position == IF run # 0 /\ after # 0 THEN <<[run |-> run, after |-> after]>> ELSE <<>>

Keep ==
    /\ Position # <<>> /\ kept' = Position
    /\ UNCHANGED <<world, sent, cursor, instance, held, history>>

(* The process ends with what it held, and the next one hands back the     *)
(* stored position (with_resume_position) or starts afresh.                *)
Reborn(position) ==
    /\ run' = IF position = <<>> THEN 0 ELSE position[1].run
    /\ after' = IF position = <<>> THEN 0 ELSE position[1].after
    /\ kept' = position
    /\ since' = IF position = <<>> THEN 0 ELSE since
    /\ rewound' = IF position # <<>> /\ position # Position THEN "yes" ELSE rewound
    /\ link' = "down" /\ next' = 0 /\ gap' = "no"
    /\ lost' = lost \cup held /\ held' = {}
    /\ UNCHANGED <<world, start, seen, known, shipped>>

Crash == Reborn(kept) \/ Reborn(<<>>)
-----------------------------------------------------------------------------
Read == ReadGap \/ ReadEvent \/ ReadIssue \/ ReadMetric \/ ReadBreaks

Next ==
    \/ Emit \/ Restart
    \/ Begin \/ OpenFails \/ Opens
    \/ Read \/ Ends \/ Deliver
    \/ Keep \/ Crash

Spec == Init /\ [][Next]_vars

(* StreamUnit reconnects after every end that may be retried, an open      *)
(* stream is polled, and the collector delivers.                           *)
FairSpec ==
    /\ Spec
    /\ WF_vars(Begin) /\ WF_vars(Opens) /\ WF_vars(Read) /\ WF_vars(Deliver)
-----------------------------------------------------------------------------
(* A reconnect passes over nothing in silence: from the first payload with *)
(* an id up to the cursor, every one was delivered as a record or an       *)
(* issue, the gap issue included, or is on its way, or was on its way when *)
(* the process ended (start resumes after the last id, a refused position  *)
(* stays, EventBufferExceeded is an issue).  Metric reports are another    *)
(* source's data.                                                          *)
PassedIsAccounted ==
    device.restarts = "no" /\ since # 0 =>
        since..after \subseteq known \cup held \cup lost \cup Metric

(* Two events never ship under one dedup key, while positions are only     *)
(* handed back as they stood or the device's ids never start over (a run   *)
(* is minted for every live start).                                        *)
KeysTellApart ==
    rewound = "no" \/ device.restarts = "no" =>
        \A a, b \in shipped : a.run = b.run /\ a.id = b.id => a.serial = b.serial

(* An event that ships again, replayed after a crash say, ships under the  *)
(* key it had, so the consumer can collapse the two (a resumed instance    *)
(* continues its run).                                                     *)
ReplaysCollapse ==
    \A a, b \in shipped : a.serial = b.serial => a.run = b.run

(* Once connects stop failing, every payload after the first with an id is *)
(* delivered or reported: no id, gap or undecodable payload wedges the     *)
(* stream on a device that replays.                                        *)
StreamCatchesUp ==
    (device.outside = "replays" /\ <>[][~OpenFails /\ ~Ends /\ ~Crash]_vars)
      => []<>(since # 0 => since..written \subseteq known \cup lost \cup Metric)

(* The module documentation, without its exception: the dedup key never    *)
(* collapses distinct events.                                              *)
KeysNeverCollapse ==
    \A a, b \in shipped : a.run = b.run /\ a.id = b.id => a.serial = b.serial
=============================================================================
