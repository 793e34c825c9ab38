-------------------------- MODULE EventCursor_proofs -------------------------
(***************************************************************************)
(* What module EventCursor promises of one event stream, for every number  *)
(* of payloads, every retention and every device of the assumption.        *)
(*                                                                         *)
(* Three facts carry the three properties.  The cursor never leaves the    *)
(* run of what it counts, nor falls behind its first payload (Placed).     *)
(* What stands before the next payload of an open stream is accounted for, *)
(* or a gap is owed that will account for it (Told).  And the records of   *)
(* another run are older than any payload that may still come (Older),     *)
(* those of this run have smaller ids, unless a rewound position or a boot *)
(* made the device repeat itself (Ahead).                                  *)
(***************************************************************************)
EXTENDS EventCursor, WellFoundedInduction, TLAPS

Keys == [run : Nat \ {0}, id : Nat \ {0}, serial : Nat \ {0}]
Positions == [run : Nat \ {0}, after : Nat \ {0}]

Types ==
    /\ device \in Devices
    /\ written \in Nat /\ written <= MaxEvents
    /\ base \in Nat /\ base <= written
    /\ next \in Nat /\ next <= written + 1
    /\ gap \in Flag /\ seen \in Flag /\ rewound \in Flag
    /\ run \in Nat /\ after \in Nat /\ since \in Nat
    /\ link \in {"down", "starting", "open"}
    /\ start \in [run : Nat, after : Nat]
    /\ shipped \subseteq Keys
    /\ kept = <<>> \/ \E p \in Positions : kept = <<p>>

(* Where the cursor stands: in the instance's run, and, where it can be    *)
(* resumed after, at or past the first payload of its sequence.            *)
Reaches(id) == since <= base + id /\ (since > base => base + id <= written)
Placed ==
    /\ next # 0 => link = "open" /\ next > base
    /\ link # "down" => start.run = run /\ run # 0
    /\ link = "starting" => start.after = after
    /\ after # 0 <=> since # 0
    /\ after # 0 => run # 0 /\ device.ids = "sent" /\ Reaches(after) /\ since <= written
    /\ \A i \in DOMAIN kept : /\ after # 0 /\ kept[i].run = run /\ Reaches(kept[i].after)
    /\ next # 0 /\ since # 0 => since <= next
    /\ device.restarts = "no" => base = 0

(* What a reconnect or an open stream may have behind it. *)
Told == known \cup held \cup lost \cup Metric
Accounted ==
    device.restarts = "no" /\ since # 0 =>
        /\ \A s \in Nat : since <= s /\ s <= after => s \in Told
        /\ \A i \in DOMAIN kept : kept[i].after <= after
        /\ next # 0 => after < next
        /\ next # 0 /\ gap = "yes" => next <= Oldest
        /\ next # 0 /\ gap = "no" => \A s \in Nat : since <= s /\ s < next => s \in Told

(* Records of other runs are older than what may come. *)
Older ==
    /\ \A a \in shipped : a.serial <= written /\ a.run <= a.serial
    /\ \A a \in shipped : a.run # run /\ since # 0 => a.serial < since
    /\ \A a \in shipped : a.run # run /\ next # 0 => a.serial < next
    /\ \A a \in shipped : link = "starting" /\ after = 0 => a.run # run
    /\ run <= written + 1
    /\ since # 0 => run <= since
    /\ next # 0 => run <= next

Orderly == device.restarts = "no" \/ device.ids = "none" \/ device.outside = "refuses"

(* Records of this run have smaller ids than what may come. *)
Ahead ==
    /\ device.restarts = "no" => \A a \in shipped : a.id = a.serial
    /\ rewound = "no" /\ Orderly /\ device.restarts = "yes" =>
         /\ after # 0 => \A a \in shipped : a.run = run => a.id <= after
         /\ next # 0 => \A a \in shipped : a.run = run => base + a.id < next

IInv == Types /\ Placed /\ Accounted /\ Older /\ Ahead /\ ReplaysCollapse
        /\ (Orderly => KeysTellApart)

-----------------------------------------------------------------------------
(* A run is always left to mint, and it is none that a record names. *)
LEMMA FreshIsNew ==
    ASSUME Types, Older, kept = <<>>
    PROVE  /\ Fresh \in Nat \ {0} /\ Fresh <= written + 1
           /\ \A a \in shipped : a.run # Fresh
<1> DEFINE P(r) == r \notin Named /\ \A q \in 1..(r - 1) : q \in Named
           Unnamed == {r \in Nat \ {0} : r \notin Named}
<1>1. written \in Nat /\ written <= MaxEvents /\ MaxEvents \in Nat
  BY EventAssumption DEF Types
<1>2. \A r \in Named : r <= written
  BY DEF Named, Older, Types, Keys
<1>3. written + 1 \in Unnamed
  BY <1>1, <1>2
<1>4. PICK r \in Unnamed : \A q \in Unnamed : ~ (<<q, r>> \in OpToRel(<, Nat))
  BY <1>3, NatLessThanWellFounded, WFMin
<1>5. \A q \in Unnamed : r <= q
  <2>1. \A q \in Unnamed : ~ (q < r)
    BY <1>4, Zenon DEF OpToRel
  <2> QED
    BY <2>1
<1>6. r \in Runs \ {0} /\ P(r)
  BY <1>1, <1>3, <1>5 DEF Runs
<1>7. Fresh \in Runs \ {0} /\ P(Fresh)
  BY <1>6 DEF Fresh
<1>8. Fresh <= written + 1
  BY <1>1, <1>3, <1>7 DEF Runs
<1> QED
  BY <1>1, <1>7, <1>8 DEF Runs, Named

(* A stored position is one. *)
LEMMA KeptIs ==
    Types => /\ \A i \in DOMAIN kept : kept[i] \in Positions /\ i = 1
             /\ kept # <<>> => 1 \in DOMAIN kept /\ kept = <<kept[1]>>
  BY DEF Types

(* The oldest payload kept only moves up. *)
LEMMA OldestMoves ==
    ASSUME Types
    PROVE  /\ Oldest \in Int /\ base < Oldest
           /\ Emit => Oldest' \in Int /\ Oldest <= Oldest'
  BY EventAssumption DEF Types, Emit, Oldest, Most

(* The invariant at the start. *)
LEMMA Initially == Init => IInv
  BY EventAssumption DEF Init, IInv, Types, Placed, Accounted, Older, Ahead,
     ReplaysCollapse, KeysTellApart, Flag

(* The device's own steps. *)
LEMMA DeviceSteps == ASSUME IInv, Emit \/ Restart PROVE IInv'
<1> USE DEF IInv
<1>1. CASE Emit
  <2> USE DEF world, sent, cursor, instance, history
  <2>1. Types'
    BY <1>1, EventAssumption DEF Emit, Types
  <2>2. Placed'
    BY <1>1, KeptIs DEF Emit, Types, Placed, Reaches, Positions
  <2>3. Accounted'
    BY <1>1, OldestMoves DEF Emit, Types, Accounted, Told
  <2>4. Older'
    BY <1>1 DEF Emit, Types, Older, Keys
  <2>5. Ahead' /\ ReplaysCollapse' /\ (Orderly => KeysTellApart)'
    BY <1>1 DEF Emit, Ahead, Orderly, ReplaysCollapse, KeysTellApart
  <2> QED
    BY <2>1, <2>2, <2>3, <2>4, <2>5
<1>2. CASE Restart
  <2> USE DEF world, sent, cursor, instance, history
  <2>1. Types'
    BY <1>2 DEF Restart, Types, Flag
  <2>2. Placed'
    BY <1>2, KeptIs DEF Restart, Types, Placed, Reaches, Positions
  <2>3. Accounted'
    BY <1>2 DEF Restart, Accounted
  <2>4. Older'
    BY <1>2 DEF Restart, Types, Older
  <2>5. Ahead' /\ ReplaysCollapse' /\ (Orderly => KeysTellApart)'
    BY <1>2 DEF Restart, Ahead, Orderly, ReplaysCollapse, KeysTellApart
  <2> QED
    BY <2>1, <2>2, <2>3, <2>4, <2>5
<1> QED
  BY <1>1, <1>2

(* A start after the last id keeps the cursor; a live one begins a run. *)
LEMMA BeginStep == ASSUME IInv, Begin PROVE IInv'
<1> USE DEF IInv
<1>1. /\ UNCHANGED <<device, written, base, next, gap, seen, held, kept>>
      /\ UNCHANGED <<known, lost, shipped, since, rewound>>
      /\ link = "down" /\ link' = "starting" /\ next = 0
  BY DEF Begin, Placed, world, sent, history
<1>2. CASE run # 0 /\ after # 0
  <2>1. start' = [run |-> run, after |-> after] /\ run' = run /\ after' = after
    BY <1>2 DEF Begin, Start
  <2>2. Types' /\ Placed'
    BY <1>1, <1>2, <2>1 DEF Types, Placed, Reaches
  <2>3. Accounted'
    BY <1>1, <2>1 DEF Accounted, Told
  <2>4. Older' /\ Ahead' /\ ReplaysCollapse' /\ (Orderly => KeysTellApart)'
    BY <1>1, <1>2, <2>1 DEF Older, Ahead, Orderly, ReplaysCollapse, KeysTellApart
  <2> QED
    BY <2>2, <2>3, <2>4
<1>3. CASE ~ (run # 0 /\ after # 0)
  <2>1. start' = [run |-> Fresh, after |-> 0] /\ run' = Fresh /\ after' = 0
    BY <1>3 DEF Begin, Start
  <2>2. after = 0 /\ since = 0 /\ kept = <<>>
    BY <1>3 DEF Placed, Types
  <2>3. /\ Fresh \in Nat \ {0} /\ Fresh <= written + 1
        /\ \A a \in shipped : a.run # Fresh
    BY <2>2, FreshIsNew
  <2>4. Types' /\ Placed'
    BY <1>1, <2>1, <2>2, <2>3 DEF Types, Placed
  <2>5. Accounted'
    BY <1>1, <2>2 DEF Accounted
  <2>6. Older' /\ Ahead' /\ ReplaysCollapse' /\ (Orderly => KeysTellApart)'
    BY <1>1, <2>1, <2>2, <2>3 DEF Older, Ahead, Orderly, ReplaysCollapse, KeysTellApart
  <2> QED
    BY <2>4, <2>5, <2>6
<1> QED
  BY <1>2, <1>3

(* The device's answer to a start. *)
LEMMA OpensStep == ASSUME IInv, Opens PROVE IInv'
<1> USE DEF IInv
<1>1. /\ UNCHANGED <<device, written, base, run, after, start, held, kept>>
      /\ UNCHANGED <<known, lost, shipped, since, rewound>>
      /\ link = "starting" /\ link' = "open" /\ seen' = "no" /\ start.after = after
      /\ start.run = run
  BY DEF Opens, Placed, world, cursor, history
<1>2. /\ written \in Nat /\ base \in Nat /\ base <= written /\ after \in Nat /\ since \in Nat
      /\ Oldest \in Int /\ base < Oldest /\ Oldest <= written + 1 /\ Oldest' = Oldest
  BY <1>1, EventAssumption, OldestMoves DEF Types, Oldest, Most
<1>3. /\ next' \in Nat /\ base < next' /\ next' <= written + 1 /\ gap' \in Flag
      /\ since # 0 => since <= next'
      /\ since = 0 => next' = written + 1
      /\ after # 0 /\ gap' = "no" => next' = base + after + 1
      /\ gap' = "yes" => next' = Oldest /\ after # 0 /\ device.outside = "replays"
      /\ after = 0 => gap' = "no"
      /\ device.restarts = "no" /\ since # 0 => after < next'
  <2>1. CASE start.after = 0 /\ next' = written + 1 /\ gap' = "no"
    BY <1>1, <1>2, <2>1 DEF Placed, Flag
  <2>2. CASE start.after # 0 /\ Retained(start.after) /\ next' = base + start.after + 1 /\ gap' = "no"
    BY <1>1, <1>2, <2>2 DEF Placed, Reaches, Retained, Flag
  <2>3. CASE /\ start.after # 0 /\ ~Retained(start.after) /\ device.outside = "replays"
             /\ next' = Oldest /\ gap' = "yes"
    <3>1. since <= base \/ base + after < Oldest
      BY <1>1, <1>2, <2>3 DEF Placed, Reaches, Retained
    <3> QED
      BY <1>1, <1>2, <2>3, <3>1 DEF Placed, Reaches, Flag
  <2> QED
    BY <2>1, <2>2, <2>3 DEF Opens
<1>4. Types' /\ Placed'
  BY <1>1, <1>2, <1>3 DEF Types, Placed, Reaches, Flag
<1>5. Accounted'
  BY <1>1, <1>2, <1>3 DEF Accounted, Told, Placed, Flag
<1>6. Older'
  BY <1>1, <1>2, <1>3 DEF Older, Placed, Types, Keys
<1>7. Ahead' /\ ReplaysCollapse' /\ (Orderly => KeysTellApart)'
  BY <1>1, <1>2, <1>3 DEF Ahead, Orderly, Older, Placed, Types, Keys, Flag, DeviceTypes,
     ReplaysCollapse, KeysTellApart
<1> QED
  BY <1>4, <1>5, <1>6, <1>7

(* A stream that ends, or was never opened. *)
LEMMA EndsStep == ASSUME IInv, OpenFails \/ Ends PROVE IInv'
<1> USE DEF IInv
<1>1. /\ UNCHANGED <<device, written, base, run, after, start, seen, held, kept>>
      /\ UNCHANGED <<known, lost, shipped, since, rewound>>
      /\ link' = "down" /\ next' = 0 /\ gap' \in Flag
  BY DEF OpenFails, Ends, Placed, Types, Flag, world, sent, cursor, history
<1>2. Types' /\ Placed'
  BY <1>1 DEF Types, Placed, Reaches
<1>3. Accounted' /\ Older' /\ Ahead'
  BY <1>1 DEF Accounted, Told, Older, Ahead, Orderly
<1> QED
  BY <1>1, <1>2, <1>3 DEF ReplaysCollapse, KeysTellApart, Orderly

(* A gap becomes an issue, and the stream goes on behind it. *)
LEMMA GapStep == ASSUME IInv, ReadGap PROVE IInv'
<1> USE DEF IInv
<1>1. /\ UNCHANGED <<device, written, base, run, after, link, start, seen, kept>>
      /\ UNCHANGED <<known, lost, shipped, since, rewound>>
      /\ held' = held \cup (base + 1)..(Oldest - 1)
      /\ gap' = "no" /\ next' = Most(next, Oldest) /\ next # 0 /\ link = "open"
      /\ gap = "yes" \/ next < Oldest
  BY DEF ReadGap, Live, Overrun, world, cursor, instance, history
<1>2. /\ Oldest \in Int /\ base < Oldest /\ Oldest <= written + 1
      /\ next' \in Nat /\ next <= next' /\ next' <= written + 1
      /\ Oldest <= next' /\ base < next'
  BY <1>1, EventAssumption, OldestMoves DEF Types, Placed, Oldest, Most
<1>3. Types' /\ Placed'
  BY <1>1, <1>2 DEF Types, Placed, Reaches, Flag
<1>4. Accounted'
  <2> SUFFICES ASSUME device.restarts = "no", since # 0 PROVE Accounted'
    BY <1>1 DEF Accounted
  <2>1. base = 0
    BY DEF Placed
  <2>2. next' = Oldest
    BY <1>1, <1>2 DEF Accounted, Most, Types
  <2>3. \A s \in Nat : since <= s /\ s < next' => s \in Told'
    BY <1>1, <1>2, <2>1, <2>2 DEF Told, Types
  <2>4. \A s \in Nat : s \in Told => s \in Told'
    BY <1>1 DEF Told
  <2> QED
    BY <1>1, <1>2, <2>3, <2>4 DEF Accounted, Types
<1>5. Older'
  BY <1>1, <1>2 DEF Older, Types, Keys
<1>6. Ahead' /\ ReplaysCollapse' /\ (Orderly => KeysTellApart)'
  BY <1>1, <1>2 DEF Ahead, Orderly, Types, Keys, ReplaysCollapse, KeysTellApart
<1> QED
  BY <1>3, <1>4, <1>5, <1>6
(***************************************************************************)
(* A payload read.                                                         *)
(***************************************************************************)
(* What every payload that arrives leaves behind, whatever is made of it:  *)
(* the cursor at its id, and it told unless it is a metric report.         *)
LEMMA ArrivesStep ==
    ASSUME IInv, Arrives, held \subseteq held', next \in held' \cup Metric,
           seen' \in Flag,
           \/ next' = next + 1 /\ link' = link
           \/ next' = 0 /\ link' = "down",
           \/ shipped' = shipped
           \/ shipped' = shipped \cup {[run |-> start.run, id |-> next - base, serial |-> next]}
    PROVE  IInv'
<1> USE DEF IInv
<1>1. /\ UNCHANGED <<device, written, base, gap, run, start, kept, known, lost, rewound>>
      /\ link = "open" /\ next # 0 /\ gap = "no" /\ Oldest <= next /\ next <= written
      /\ after' = IF device.ids = "sent" THEN next - base ELSE after
      /\ since' = IF since = 0 /\ device.ids = "sent" THEN next ELSE since
  BY OldestMoves DEF Arrives, Live, Overrun, world, Types, Flag
<1>2. /\ written \in Nat /\ base \in Nat /\ next \in Nat /\ base < next /\ next - base \in Nat \ {0}
      /\ start.run = run /\ run \in Nat \ {0} /\ run <= next
      /\ after \in Nat /\ since \in Nat /\ since <= next
  BY <1>1 DEF Types, Placed, Older
<1>3. /\ after' \in Nat /\ since' \in Nat
      /\ since = 0 => after = 0
      /\ device.ids = "sent" => after' = next - base /\ since' \in Nat \ {0} /\ since' <= next
      /\ device.ids # "sent" => after' = 0 /\ since' = 0 /\ after = 0
  BY <1>1, <1>2 DEF Placed
<1>4. \A a \in shipped' : /\ a \in Keys
                          /\ a \in shipped \/ (a.run = run /\ a.id = next - base /\ a.serial = next)
  BY <1>2 DEF Types, Keys
<1>5. Types'
  BY <1>1, <1>2, <1>3, <1>4 DEF Types, Placed
<1>6. Placed'
  <2>1. \A i \in DOMAIN kept' : after' # 0 /\ kept'[i].run = run' /\ Reaches(kept[i].after)'
    BY <1>1, <1>2, <1>3 DEF Placed, Reaches
  <2> QED
    BY <1>1, <1>2, <1>3, <2>1 DEF Placed, Reaches
<1>7. Accounted'
  <2> SUFFICES ASSUME device.restarts = "no", since' # 0 PROVE Accounted'
    BY <1>1 DEF Accounted
  <2>1. base = 0 /\ device.ids = "sent"
    BY <1>3 DEF Placed
  <2>2. after' = next
    BY <1>1, <1>2, <2>1
  <2>3. \A s \in Nat : s \in Told => s \in Told'
    BY <1>1 DEF Told
  <2>4. next \in Told'
    BY DEF Told
  <2>5. \A s \in Nat : since' <= s /\ s <= next => s \in Told'
    <3> SUFFICES ASSUME NEW s \in Nat, since' <= s, s <= next PROVE s \in Told'
      OBVIOUS
    <3>1. CASE s = next
      BY <2>4, <3>1
    <3>2. CASE s # next
      <4>1. since # 0 /\ since <= s /\ s < next
        BY <1>1, <1>2, <2>1, <3>2
      <4>2. s \in Told
        BY <1>1, <4>1 DEF Accounted
      <4> QED
        BY <2>3, <4>2
    <3> QED
      BY <3>1, <3>2
  <2>6. \A i \in DOMAIN kept' : kept'[i].after <= after'
    <3>1. \A i \in DOMAIN kept : since # 0 /\ Reaches(kept[i].after)
      BY <1>3 DEF Placed
    <3>2. \A i \in DOMAIN kept : kept[i].after <= after
      BY <3>1 DEF Accounted
    <3>3. after <= next
      BY <1>1, <1>2, <1>3 DEF Accounted
    <3> QED
      BY <1>1, <1>2, <2>2, <3>2, <3>3, KeptIs DEF Positions
  <2>7. next' # 0 => gap' = "no" /\ next' = next + 1
    BY <1>1
  <2> QED
    BY <1>1, <1>2, <2>2, <2>5, <2>6, <2>7 DEF Accounted
<1>8. Older'
  BY <1>1, <1>2, <1>3, <1>4 DEF Older, Keys
<1>9. Ahead'
  BY <1>1, <1>2, <1>3, <1>4 DEF Ahead, Orderly, Placed, Keys
<1>10. ReplaysCollapse'
  BY <1>1, <1>2, <1>4 DEF ReplaysCollapse, Older
<1>11. (Orderly => KeysTellApart)'
  <2> SUFFICES ASSUME Orderly, rewound = "no" \/ device.restarts = "no",
                      NEW a \in shipped', NEW b \in shipped', a.run = b.run, a.id = b.id
               PROVE  a.serial = b.serial
    BY <1>1 DEF KeysTellApart, Orderly
  <2>1. CASE device.restarts = "no"
    BY <1>1, <1>9, <2>1 DEF Ahead
  <2>2. CASE device.restarts # "no"
    <3>1. rewound = "no" /\ device.restarts = "yes"
      BY <2>2, EventAssumption DEF Types, DeviceTypes
    <3>2. \A c \in shipped : c.run = run => base + c.id < next
      BY <1>1, <3>1 DEF Ahead
    <3>3. a \in shipped /\ b \in shipped => a.serial = b.serial
      BY <3>1 DEF KeysTellApart
    <3> QED
      BY <1>2, <1>4, <3>2, <3>3 DEF Keys
  <2> QED
    BY <2>1, <2>2
<1> QED
  BY <1>5, <1>6, <1>7, <1>8, <1>9, <1>10, <1>11
LEMMA ReadStep == ASSUME IInv, Read PROVE IInv'
<1> USE DEF Read
<1>1. CASE ReadGap
  BY <1>1, GapStep
<1>2. CASE ReadEvent
  BY <1>2, ArrivesStep DEF ReadEvent, IInv, Types, Flag
<1>3. CASE ReadIssue
  BY <1>3, ArrivesStep DEF ReadIssue, IInv, Types, Flag
<1>4. CASE ReadMetric
  <2>1. Arrives /\ next \in Metric /\ seen' \in Flag /\ next' = next + 1 /\ link' = link
    BY <1>4 DEF ReadMetric, Flag
  <2>2. held \subseteq held' /\ shipped' = shipped
    BY <1>4 DEF ReadMetric
  <2> QED
    BY <2>1, <2>2, ArrivesStep
<1>5. CASE ReadBreaks
  BY <1>5, ArrivesStep DEF ReadBreaks, IInv, Types, Flag
<1> QED
  BY <1>1, <1>2, <1>3, <1>4, <1>5

(***************************************************************************)
(* The consumer, the embedder, the end of the process.                     *)
(***************************************************************************)
LEMMA DeliverStep == ASSUME IInv, Deliver PROVE IInv'
<1> USE DEF IInv
<1>1. /\ UNCHANGED <<device, written, base, next, gap, run, after, link, start, seen, kept>>
      /\ UNCHANGED <<lost, shipped, since, rewound>>
      /\ Told \subseteq Told'
  BY DEF Deliver, Told, world, sent, cursor, instance
<1>2. Types' /\ Placed'
  BY <1>1 DEF Types, Placed, Reaches
<1>3. Accounted'
  BY <1>1 DEF Accounted, Oldest
<1>4. Older' /\ Ahead' /\ ReplaysCollapse' /\ (Orderly => KeysTellApart)'
  BY <1>1 DEF Older, Ahead, Orderly, ReplaysCollapse, KeysTellApart
<1> QED
  BY <1>2, <1>3, <1>4

LEMMA KeepStep == ASSUME IInv, Keep PROVE IInv'
<1> USE DEF IInv
<1>1. /\ UNCHANGED <<device, written, base, next, gap, run, after, link, start, seen, held>>
      /\ UNCHANGED <<known, lost, shipped, since, rewound>>
      /\ run # 0 /\ after # 0 /\ kept' = <<[run |-> run, after |-> after]>>
  BY DEF Keep, Position, world, sent, cursor, instance, history
<1>2. Types'
  <2>1. [run |-> run, after |-> after] \in Positions
    BY <1>1 DEF Types, Positions
  <2> QED
    BY <1>1, <2>1 DEF Types
<1>3. \A i \in DOMAIN kept' : kept'[i].run = run /\ kept'[i].after = after
  BY <1>1
<1>4. Placed'
  BY <1>1, <1>3 DEF Placed, Reaches
<1>5. Accounted'
  BY <1>1, <1>3 DEF Accounted, Told, Oldest, Types
<1>6. Older' /\ Ahead' /\ ReplaysCollapse' /\ (Orderly => KeysTellApart)'
  BY <1>1 DEF Older, Ahead, Orderly, ReplaysCollapse, KeysTellApart
<1> QED
  BY <1>2, <1>4, <1>5, <1>6

(* The next process: at the stored position, which is not ahead of the     *)
(* cursor, or with no cursor at all.                                       *)
LEMMA CrashStep == ASSUME IInv, Crash PROVE IInv'
<1> USE DEF IInv
<1>1. CASE kept # <<>> /\ Reborn(kept)
  <2>1. /\ kept[1] \in Positions /\ 1 \in DOMAIN kept /\ kept[1].run = run /\ after # 0
        /\ \A i \in DOMAIN kept : i = 1
        /\ Reaches(kept[1].after) /\ since # 0
    BY <1>1, KeptIs DEF Placed
  <2>2. /\ UNCHANGED <<device, written, base, start, seen, known, shipped, run, since, kept>>
        /\ after' = kept[1].after /\ after' \in Nat \ {0}
        /\ link' = "down" /\ next' = 0 /\ gap' = "no"
        /\ rewound' = IF kept # Position THEN "yes" ELSE rewound
        /\ Told \subseteq Told'
    BY <1>1, <2>1 DEF Reborn, Positions, Told, world
  <2>3. rewound' = "no" => rewound = "no" /\ after' = after
    BY <2>1, <2>2 DEF Position, Placed
  <2>4. Types'
    BY <2>2 DEF Types, Flag
  <2>5. Placed'
    BY <2>1, <2>2 DEF Placed, Reaches
  <2>6. Accounted'
    <3>1. device.restarts = "no" => after' <= after
      BY <2>1, <2>2 DEF Accounted
    <3> QED
      BY <2>1, <2>2, <3>1 DEF Accounted, Types
  <2>7. Older'
    BY <2>2 DEF Older
  <2>8. Ahead' /\ ReplaysCollapse' /\ (Orderly => KeysTellApart)'
    BY <2>1, <2>2, <2>3 DEF Ahead, Orderly, ReplaysCollapse, KeysTellApart
  <2> QED
    BY <2>4, <2>5, <2>6, <2>7, <2>8
<1>2. CASE Reborn(<<>>)
  <2>1. /\ UNCHANGED <<device, written, base, start, seen, known, shipped, rewound>>
        /\ run' = 0 /\ after' = 0 /\ since' = 0 /\ kept' = <<>>
        /\ link' = "down" /\ next' = 0 /\ gap' = "no"
    BY <1>2 DEF Reborn, world
  <2>2. Types' /\ Placed' /\ Accounted'
    BY <2>1 DEF Types, Placed, Accounted, Flag
  <2>3. Older' /\ Ahead' /\ ReplaysCollapse' /\ (Orderly => KeysTellApart)'
    BY <2>1 DEF Older, Ahead, Orderly, ReplaysCollapse, KeysTellApart, Types
  <2> QED
    BY <2>2, <2>3
<1> QED
  BY <1>1, <1>2 DEF Crash

(* The invariant holds of every behaviour. *)
THEOREM Invariant == Spec => []IInv
<1>1. IInv /\ [Next]_vars => IInv'
  <2> SUFFICES ASSUME IInv, [Next]_vars PROVE IInv'
    OBVIOUS
  <2>1. CASE UNCHANGED vars
    BY <2>1 DEF vars, world, sent, cursor, instance, history, IInv, Types, Placed, Reaches,
       Accounted, Told, Oldest, Older, Ahead, Orderly, ReplaysCollapse, KeysTellApart
  <2> QED
    BY <2>1, DeviceSteps, BeginStep, OpensStep, EndsStep, ReadStep, DeliverStep, KeepStep,
       CrashStep DEF Next
<1> QED
  BY <1>1, Initially, PTL DEF Spec

(***************************************************************************)
(* The properties, for any number of payloads.                             *)
(***************************************************************************)

(* A reconnect passes over nothing in silence, whatever the device keeps,  *)
(* however the transport and the process fail.                             *)
THEOREM NothingPassedOver == Spec => []PassedIsAccounted
<1>1. IInv => PassedIsAccounted
  <2> SUFFICES ASSUME IInv, device.restarts = "no", since # 0
               PROVE  since..after \subseteq Told
    BY DEF PassedIsAccounted, Told
  <2>1. since \in Nat /\ after \in Nat
    BY DEF IInv, Types
  <2> QED
    BY <2>1 DEF IInv, Accounted
<1> QED
  BY Invariant, <1>1, PTL

(* A payload that ships again ships under the run it had, on every device. *)
THEOREM ReplayHasItsKey == Spec => []ReplaysCollapse
<1>1. IInv => ReplaysCollapse
  BY DEF IInv
<1> QED
  BY Invariant, <1>1, PTL

(* Keys tell events apart on every device that never boots, sends no ids,  *)
(* or refuses an id it does not keep: all but the ones the finding of      *)
(* KeysNeverCollapse is about.                                             *)
THEOREM KeysAreDistinct ==
    ASSUME \A d \in Devices :
              d.restarts = "no" \/ d.ids = "none" \/ d.outside = "refuses"
    PROVE  Spec => []KeysTellApart
<1>1. IInv => KeysTellApart
  BY DEF IInv, Types, Orderly
<1> QED
  BY Invariant, <1>1, PTL
=============================================================================
