------------------------------- MODULE LogWalk -------------------------------
(***************************************************************************)
(* A log service read poll after poll: LogKind of                          *)
(* sources/redfish/src/provider.rs, against a device whose log grows,      *)
(* rotates and is cleared meanwhile.                                       *)
(*                                                                         *)
(* One read keeps a cursor (LogCursor) between its polls.  A poll opens a  *)
(* window of the collection, visits its members newest first until the     *)
(* cursor's member or the budget, may doubt the collection's order and     *)
(* probe its other end, and stores the new cursor only when its records    *)
(* ship.  The device may change between any two requests.  Members are     *)
(* ids; entries are told apart by a serial number the code never sees.     *)
(***************************************************************************)
EXTENDS Integers, Sequences, FiniteSets, SequencesExt

CONSTANTS
    Devices,     \* what the device may be: see DeviceTypes
    LogSize,     \* entries the device keeps before it rotates the oldest out
    PageSize,    \* members of one page of the collection
    Budget,      \* WalkBudget.members
    Faulty,      \* serial numbers of entries that project no record
    MaxEntries,  \* bound: entries ever written
    MaxClock     \* bound: the device's clock, in seconds

(* order: how the collection lists its members; numbered: the ids count    *)
(* entries as they arrive; skip, filter: what the device does with the     *)
(* query option; counts: it reports Members@odata.count; links: whether    *)
(* its nextLink can be followed; steps: its clock may be set back, and the *)
(* service says what the clock reads.                                      *)
DeviceTypes ==
    [order : {"oldest", "newest"}, numbered : {"yes", "no"},
     skip : {"honored", "ignored", "refused"},
     filter : {"unadvertised", "honored", "ignored", "refused"},
     counts : {"yes", "no"}, links : {"good", "broken"},
     steps : {"never", "told", "untold"}]

ASSUME LogAssumption ==
    /\ Devices \subseteq DeviceTypes
    /\ LogSize \in Nat \ {0} /\ PageSize \in Nat \ {0} /\ Budget \in Nat \ {0}
    /\ MaxEntries \in Nat /\ MaxClock \in Nat \ {0}
    /\ Faulty \subseteq 1..MaxEntries

VARIABLES
    device,    \* the device's kind, fixed
    log,       \* its entries, in the order they arrived
    nextId,    \* the id its next entry gets
    written,   \* entries ever written
    clock,     \* its clock
    cursor,    \* LogCursor.position, <<>> or <<position>>
    support,   \* LogCursor.filter
    pc,        \* where the poll that holds the cursor stands
    walk,      \* that poll's visit: window and progress
    said,      \* locators of the issues reported since the last poll began
    shipped,   \* history: how often each entry shipped, up to twice
    peak,      \* history: the latest the device's clock ever read
    known,     \* history: entries shipped or reported by a poll that returned
    raced      \* history: what the walk cannot tell happened: see Race, Strays,
               \* Shifts, Mistaken and ProbeFlips

world == <<device, log, nextId, written, clock>>
read == <<cursor, support>>
history == <<said, shipped, known, peak, raced>>
vars == <<world, read, pc, walk, history>>

Serials == 1..MaxEntries
Entries == [serial : Serials, id : Serials, at : 1..MaxClock]
Orders == {"oldest", "newest"}
Flags == {"no", "yes"}
Positions == [member : Serials, at : 1..MaxClock, order : Orders, probed : Flags,
              count : 0..(LogSize + Budget + PageSize)]
Locators == {"@truncated", "@in-flight", "@filter", "member"}
PCs == {"idle", "opening", "asking", "heading", "paging", "visiting", "judging",
        "probing", "shipping"}

Least(a, b) == IF a < b THEN a ELSE b
Most(a, b) == IF a > b THEN a ELSE b

TypeOK ==
    /\ device \in Devices
    /\ log \in Seq(Entries) /\ Len(log) <= LogSize
    /\ nextId \in 1..(MaxEntries + 1) /\ written \in 0..MaxEntries
    /\ clock \in 1..MaxClock
    /\ cursor = <<>> \/ cursor \in [{1} -> Positions]
    /\ support \in {"unknown", "advertised", "absent"}
    /\ pc \in PCs
    /\ said \subseteq Locators
    /\ shipped \in [Serials -> 0..2] /\ known \subseteq Serials
    /\ peak \in clock..MaxClock
    /\ raced \in Flags
    /\ pc \in {"paging", "visiting", "judging", "probing", "shipping"} =>
        /\ walk.order \in Orders /\ walk.visited <= Budget
        /\ walk.records \subseteq Serials /\ walk.issues \subseteq Serials

(* A pass before its first page: the order a probe forced, if one did, and *)
(* what the poll's earlier passes learned.                                 *)
NoWalk == [pass |-> "jump", forced |-> {}, late |-> "no", refused |-> "no"]

Init ==
    /\ device \in Devices
    /\ log = <<>> /\ nextId = 1 /\ written = 0 /\ clock = 1
    /\ cursor = <<>> /\ support = "unknown"
    /\ pc = "idle" /\ walk = NoWalk
    /\ said = {} /\ shipped = [s \in Serials |-> 0] /\ known = {}
    /\ peak = 1 /\ raced = "no"
-----------------------------------------------------------------------------
(* The device. *)

(* The log cleared, or the clock set back, in the middle of a walk. *)
Race == raced' = IF pc = "idle" THEN raced ELSE "yes"

(* An arrival moves the members a later page would start from. *)
Shifts == device.order = "newest" \/ Len(log) = LogSize

(* An entry arrives; a full log rotates its oldest out. *)
Write ==
    /\ written < MaxEntries
    /\ LET entry == [serial |-> written + 1, id |-> nextId, at |-> clock]
           kept == IF Len(log) = LogSize THEN Tail(log) ELSE log
       IN  log' = Append(kept, entry)
    /\ written' = written + 1 /\ nextId' = nextId + 1
    /\ raced' = IF pc = "paging" /\ Shifts THEN "yes" ELSE raced
    /\ UNCHANGED <<device, clock, read, pc, walk, said, shipped, known, peak>>

(* The log is cleared and numbers its entries from the start again. The    *)
(* next entry comes a second later at least: an id refilled on its very    *)
(* second is, as the code says, invisible.  So the log is cleared only     *)
(* where the clock never returns to a second.                              *)
Clear ==
    /\ device.steps = "never"
    /\ log # <<>> /\ clock < MaxClock
    /\ log' = <<>> /\ nextId' = 1 /\ clock' = clock + 1
    /\ peak' = Most(peak, clock + 1) /\ Race
    /\ UNCHANGED <<device, written, read, pc, walk, said, shipped, known>>

(* The clock that was set back runs on before a poll saw it behind, and an *)
(* entry may keep a stamp that a filter by the cursor's leaves out.        *)
Strays ==
    clock < peak /\ \E i \in DOMAIN log : log[i].at <= clock /\ log[i].serial \notin known

Tick ==
    /\ clock < MaxClock /\ clock' = clock + 1
    /\ peak' = Most(peak, clock + 1)
    /\ raced' = IF Strays THEN "yes" ELSE raced
    /\ UNCHANGED <<device, log, nextId, written, read, pc, walk, said, shipped, known>>

SetBack ==
    /\ device.steps # "never"
    /\ clock > 1 /\ clock' = clock - 1
    /\ Race
    /\ UNCHANGED <<device, log, nextId, written, read, pc, walk, said, shipped, known, peak>>

(* The collection as the device lists it. *)
Listing == IF device.order = "oldest" THEN log ELSE Reverse(log)

Found(id) == {i \in DOMAIN log : log[i].id = id}
Entry(id) == log[CHOOSE i \in Found(id) : TRUE]
Sound(entry) == entry.serial \notin Faulty
-----------------------------------------------------------------------------
(* The window one pass reads. *)

(* The members stamped at or after the cursor's, or the collection. *)
Since(listed, at) ==
    LET kept[n \in 0..Len(listed)] ==
            IF n = 0 THEN <<>>
            ELSE IF listed[n].at >= at THEN Append(kept[n - 1], listed[n])
            ELSE kept[n - 1]
    IN  kept[Len(listed)]
Matching ==
    IF device.filter = "ignored" THEN Listing ELSE Since(Listing, cursor[1].at)
Base(filtered) == IF filtered = "yes" THEN Matching ELSE Listing

(* The ids of the page that starts after `from` members, and its nextLink. *)
PageAt(base, from) ==
    [i \in 1..Most(0, Least(PageSize, Len(base) - from)) |-> base[from + i].id]
LinkAt(base, from) == IF from + PageSize < Len(base) THEN <<from + PageSize>> ELSE <<>>

(* Order::hinted_by: the direction most neighbours on the page agree on. *)
Rising(page) == Cardinality({i \in 1..(Len(page) - 1) : page[i] < page[i + 1]})
Falling(page) == Cardinality({i \in 1..(Len(page) - 1) : page[i] > page[i + 1]})

\* Mutants.
HintedByNothing(page) == {}

HintedBy(page) ==
    IF device.numbered = "no" \/ Rising(page) = Falling(page) THEN {}
    ELSE {IF Rising(page) > Falling(page) THEN "oldest" ELSE "newest"}

(* collect_entries' choice of the order, and whether a probe made it. *)
Remembered == cursor # <<>> /\ cursor[1].probed = "yes"
Chosen(forced, first) ==
    IF forced # {} THEN forced
    ELSE IF Remembered THEN {cursor[1].order}
    ELSE IF HintedBy(first) # {} THEN HintedBy(first)
    ELSE IF cursor # <<>> THEN {cursor[1].order}
    ELSE {"oldest"}

(* Where a paged, oldest-first collection is entered: the budget's worth   *)
(* before its end, or the cursor's last index, whichever is later.         *)
BudgetSkip(count) == IF count > Budget THEN {count - Budget} ELSE {}
CursorSkip(first, count) ==
    IF cursor # <<>> /\ cursor[1].count - 1 \in Len(first)..(count - 1)
    THEN {cursor[1].count - 1} ELSE {}

(* A pass as its first page leaves it: pages to follow, nothing visited. *)
Pass(filtered) ==
    LET base == Base(filtered)
        first == PageAt(base, 0)
        link == LinkAt(base, 0)
        count == IF link # <<>> /\ device.counts = "yes" THEN Len(base) ELSE 0
        order == CHOOSE o \in Chosen(walk.forced, first) : TRUE
        byCursor == IF walk.pass = "jump" /\ filtered = "no" THEN CursorSkip(first, count) ELSE {}
        enters == link # <<>> /\ order = "oldest"
    IN  [pass |-> walk.pass, late |-> walk.late, refused |-> walk.refused,
         filtered |-> filtered, order |-> order,
         probed |-> IF walk.forced # {} \/ Remembered THEN "yes" ELSE "no",
         count |-> count, first |-> first, members |-> first, link |-> link,
         skips |-> IF enters THEN BudgetSkip(count) \cup byCursor ELSE {},
         cursorSkip |-> byCursor, offset |-> 0, jumped |-> "no", incomplete |-> "no",
         listed |-> {base[i].serial : i \in DOMAIN base},
         present |-> {log[i].serial : i \in DOMAIN log},
         todo |-> <<>>, visited |-> 0, records |-> {}, issues |-> {}, newest |-> <<>>,
         stopped |-> "no", reached |-> "no", stalled |-> "no", refilled |-> "no"]
-----------------------------------------------------------------------------
(* The poll. *)

(* LogKind::acquire takes the cursor, and asks once, when there is a stamp *)
(* to filter by, whether the device filters.                               *)
Begin ==
    /\ pc = "idle"
    /\ pc' = "opening" /\ walk' = NoWalk
    /\ support' = IF cursor = <<>> \/ support # "unknown" THEN support
                  ELSE IF device.filter = "unadvertised" THEN "absent" ELSE "advertised"
    /\ said' = {}
    /\ UNCHANGED <<world, cursor, shipped, known, peak, raced>>

(* A poll that finds a walk in flight ships nothing and says so. *)
Overlap ==
    /\ pc # "idle"
    /\ said' = {"@in-flight"}
    /\ UNCHANGED <<world, read, pc, walk, shipped, known, peak, raced>>

\* Mutants.
ClockBehindNever == FALSE

(* clock_behind: the service's own clock reads earlier than the cursor. *)
ClockBehind == device.steps = "told" /\ cursor # <<>> /\ clock < cursor[1].at

(* The service is read: its entries are asked for by filter when there is  *)
(* a stamp, the device advertises it and its clock is not behind.          *)
ReadService ==
    /\ pc = "opening"
    /\ pc' = IF support = "advertised" /\ cursor # <<>> /\ ~ClockBehind
             THEN "asking" ELSE "heading"
    /\ UNCHANGED <<world, read, walk, history>>

(* open_collection by filter: a device that refuses it, or answers nothing *)
(* though the cursor's own member should match, is read from the head.     *)
AskFilter ==
    /\ pc = "asking"
    /\ \/ /\ device.filter = "refused"
          /\ walk' = [walk EXCEPT !.refused = "yes"] /\ pc' = "heading"
       \/ /\ device.filter # "refused" /\ Matching = <<>>
          /\ pc' = "heading" /\ UNCHANGED walk
       \/ /\ device.filter # "refused" /\ Matching # <<>>
          /\ walk' = Pass("yes") /\ pc' = "paging"
    /\ UNCHANGED <<world, read, history>>

(* open_collection from the head. *)
OpenHead ==
    /\ pc = "heading"
    /\ walk' = Pass("no") /\ pc' = "paging"
    /\ UNCHANGED <<world, read, history>>

(* skipped_tail: a page that does not start like the first one replaces    *)
(* it.  A device may ignore $skip, refuse it, or hold nothing there.       *)
Skip ==
    /\ pc = "paging" /\ walk.skips # {}
    /\ LET base == Base(walk.filtered)
           skip == Max(walk.skips)
           from == IF device.skip = "ignored" THEN 0 ELSE skip
           tail == PageAt(base, from)
           honored == /\ device.skip # "refused" /\ tail # <<>>
                      /\ walk.first # <<>> => tail[1] # walk.first[1]
       IN  walk' = IF honored
                   THEN [walk EXCEPT !.skips = {}, !.members = tail, !.offset = skip,
                                     !.link = LinkAt(base, from),
                                     !.jumped = IF walk.cursorSkip = {skip} THEN "yes" ELSE "no"]
                   ELSE [walk EXCEPT !.skips = {}]
    /\ UNCHANGED <<world, read, pc, history>>

(* The nextLink is followed while less than a budget's worth is read. *)
FollowLink ==
    /\ pc = "paging" /\ walk.skips = {} /\ walk.link # <<>>
    /\ Len(walk.members) < Budget /\ device.links = "good"
    /\ LET base == Base(walk.filtered)
           page == PageAt(base, walk.link[1])
       IN  walk' = IF page = <<>> THEN [walk EXCEPT !.link = <<>>, !.incomplete = "yes"]
                   ELSE [walk EXCEPT !.members = @ \o page, !.link = LinkAt(base, @[1])]
    /\ UNCHANGED <<world, read, pc, history>>

(* The pages end, before the collection's last if a link is left.  The     *)
(* members are visited newest first.                                       *)
PagesOver ==
    /\ pc = "paging" /\ walk.skips = {}
    /\ walk.link # <<>> => Len(walk.members) >= Budget \/ device.links = "broken"
    /\ walk' = [walk EXCEPT
                  !.incomplete = IF walk.link # <<>> THEN "yes" ELSE @,
                  !.todo = IF walk.order = "oldest" THEN Reverse(walk.members)
                           ELSE walk.members]
    /\ pc' = "visiting"
    /\ UNCHANGED <<world, read, history>>

(* Members the collection holds, as far as the window tells. *)
Total == Most(walk.count, walk.offset + Len(walk.members))

(* budget.exhausted: the members or the time is spent before a member. *)
Exhausted ==
    /\ pc = "visiting" /\ walk.todo # <<>>
    /\ \/ walk.visited >= Budget /\ walk' = [walk EXCEPT !.stopped = "members"]
       \/ walk.visited < Budget /\ walk' = [walk EXCEPT !.stopped = "time", !.late = "yes"]
    /\ pc' = "judging"
    /\ UNCHANGED <<world, read, history>>

Member == Head(walk.todo)

Visiting ==
    /\ pc = "visiting" /\ walk.todo # <<>>
    /\ walk.visited < Budget /\ walk.late = "no"
IsCursor == cursor # <<>> /\ walk.refilled = "no" /\ cursor[1].member = Member

(* The cursor's member ends the walk. *)
Reach(visit) ==
    /\ walk' = [visit EXCEPT !.reached = "yes",
                             !.stalled = IF visit.visited = 1 THEN "yes" ELSE "no"]
    /\ pc' = "judging"

Visited == [walk EXCEPT !.visited = @ + 1, !.todo = Tail(@)]
Reported(visit) ==
    [visit EXCEPT !.issues = @ \cup {log[i].serial : i \in Found(Member)}]

\* Mutants.
RefusedPastCursor ==
    /\ Visiting
    /\ walk' = Reported(Visited) /\ UNCHANGED pc
    /\ UNCHANGED <<world, read, history>>

(* The id is the cursor's, but the log was refilled: unread, no stamp tells. *)
Mistaken == IsCursor /\ \E i \in Found(Member) : log[i].at # cursor[1].at

(* A member the device answers for but does not serve, rotated out say, is *)
(* recorded; the cursor's ends the walk all the same.                      *)
VisitRefused ==
    /\ Visiting
    /\ IF IsCursor THEN Reach(Reported(Visited))
       ELSE walk' = Reported(Visited) /\ UNCHANGED pc
    /\ raced' = IF Mistaken THEN "yes" ELSE raced
    /\ UNCHANGED <<world, read, said, shipped, known, peak>>

\* Mutants.
PlacedById(entry) == IF IsCursor THEN "covered" ELSE "newer"

(* Position::place. *)
Placed(entry) ==
    IF ~IsCursor THEN "newer"
    ELSE IF Sound(entry) /\ entry.at = cursor[1].at THEN "covered" ELSE "refilled"

(* A sound member is shipped, a faulty one reported. *)
Projected(visit, entry) ==
    IF Sound(entry)
    THEN [visit EXCEPT !.records = @ \cup {entry.serial},
                       !.newest = IF @ = <<>> THEN <<entry.id, entry.at>> ELSE @]
    ELSE [visit EXCEPT !.issues = @ \cup {entry.serial}]

(* A member read: the cursor's own ends the walk, its id under another     *)
(* stamp voids the cursor.                                                 *)
VisitMember ==
    /\ Visiting /\ Found(Member) # {}
    /\ LET entry == Entry(Member)
           place == Placed(entry)
           marked == [Visited EXCEPT !.refilled = IF place = "refilled" THEN "yes" ELSE @]
       IN  IF place = "covered" THEN Reach(Visited)
           ELSE walk' = Projected(marked, entry) /\ UNCHANGED pc
    /\ UNCHANGED <<world, read, history>>

(* The window is spent. *)
VisitOver ==
    /\ pc = "visiting" /\ walk.todo = <<>>
    /\ pc' = "judging"
    /\ UNCHANGED <<world, read, walk, history>>
-----------------------------------------------------------------------------
(* walk_entries judges the pass. *)

\* Mutants.
MissedJumpNever == FALSE

(* The jump did not find the cursor where the collection last held it. *)
MissedJump ==
    /\ walk.pass = "jump" /\ walk.jumped = "yes" /\ walk.stopped = "no"
    /\ walk.reached = "no" \/ walk.refilled = "yes"

(* What was read contradicts the order the walk took for granted. *)
Doubted ==
    /\ walk.pass # "forced" /\ cursor # <<>>
    /\ IF walk.filtered = "yes" THEN walk.stalled = "yes" /\ Len(walk.members) > 1
       ELSE \/ walk.stalled = "yes" /\ Total > cursor[1].count
            \/ /\ walk.reached = "no" /\ walk.refilled = "no"
               /\ Total > 0 /\ Total = cursor[1].count

(* Another pass, unfiltered and without a jump. *)
Again(pass, forced) ==
    /\ walk' = [pass |-> pass, forced |-> forced, late |-> walk.late,
                refused |-> walk.refused]
    /\ pc' = "heading"

(* The collection is read once more, from its head. *)
Rewalk ==
    /\ pc = "judging" /\ MissedJump
    /\ Again("head", {})
    /\ UNCHANGED <<world, read, history>>

Doubt ==
    /\ pc = "judging" /\ ~MissedJump /\ Doubted
    /\ pc' = "probing"
    /\ UNCHANGED <<world, read, walk, history>>

Settle ==
    /\ pc = "judging" /\ ~MissedJump /\ ~Doubted
    /\ pc' = "shipping"
    /\ UNCHANGED <<world, read, walk, history>>

Reference == IF walk.newest # <<>> THEN walk.newest[2] ELSE cursor[1].at
Flipped == IF walk.order = "oldest" THEN "newest" ELSE "oldest"

(* other_end: the member at the end not taken for the newest, if read. *)
OtherEnd ==
    IF walk.order = "oldest" THEN {walk.first[i] : i \in DOMAIN walk.first \cap {1}}
    ELSE IF walk.incomplete = "yes" THEN {}
    ELSE {walk.members[i] : i \in DOMAIN walk.members \cap {Len(walk.members)}}

(* newer_at_other_end: the far member is stamped later, and the collection *)
(* is walked the other way round.                                          *)
NewerAt(id) == Found(id) # {} /\ Sound(Entry(id)) /\ Entry(id).at > Reference
ProbeFlips ==
    /\ pc = "probing"
    /\ \E id \in OtherEnd : NewerAt(id)
    /\ Again("forced", {Flipped})
    /\ raced' = IF walk.order = device.order THEN "yes" ELSE raced
    /\ UNCHANGED <<world, read, said, shipped, known, peak>>

(* No evidence: no such member, or it is no later. *)
ProbeStands ==
    /\ pc = "probing"
    /\ \A id \in OtherEnd : Found(id) # {} /\ ~NewerAt(id)
    /\ pc' = "shipping"
    /\ UNCHANGED <<world, read, walk, history>>

(* The device refuses the far member: the issue made of it is dropped, and *)
(* the reading stands although the documentation promises a report.        *)
ProbeRefused ==
    /\ pc = "probing" /\ OtherEnd # {}
    /\ pc' = "shipping"
    /\ UNCHANGED <<world, read, walk, history>>

(* truncation: members of the window, or before it, left unread. *)
Truncated ==
    \/ walk.incomplete = "yes"
    \/ /\ walk.reached = "no"
       /\ walk.offset > 0 \/ walk.visited < Len(walk.members)

\* Mutants.
AfterForgets ==
    IF walk.newest # <<>>
    THEN <<[member |-> walk.newest[1], at |-> walk.newest[2], order |-> walk.order,
            probed |-> walk.probed, count |-> Total]>>
    ELSE <<>>

(* Position::after. *)
After ==
    LET previous == IF walk.refilled = "yes" THEN <<>> ELSE cursor
        count == IF walk.filtered = "yes" /\ previous # <<>>
                 THEN previous[1].count ELSE Total
        anchor(member, at) == [member |-> member, at |-> at, order |-> walk.order,
                               probed |-> walk.probed, count |-> count]
    IN  IF walk.newest # <<>> THEN <<anchor(walk.newest[1], walk.newest[2])>>
        ELSE IF previous # <<>> THEN <<anchor(previous[1].member, previous[1].at)>>
        ELSE <<>>

(* What the issue is about: members listed, by the collection when it was  *)
(* opened or by a later page, and not read.                                *)
Paged == {i \in DOMAIN log : \E n \in DOMAIN walk.members : walk.members[n] = log[i].id}
LeftOut ==
    IF Truncated THEN walk.listed \cup {log[i].serial : i \in Paged} ELSE {}

(* The records ship, and only now does the cursor move. *)
Ship ==
    /\ pc = "shipping"
    /\ cursor' = After
    /\ support' = IF walk.refused = "yes" THEN "absent" ELSE support
    /\ said' = {l \in Locators :
                  \/ l = "@truncated" /\ Truncated
                  \/ l = "@filter" /\ walk.refused = "yes"
                  \/ l = "member" /\ walk.issues # {}}
    /\ shipped' = [s \in Serials |->
                     IF s \in walk.records THEN Least(2, shipped[s] + 1) ELSE shipped[s]]
    /\ known' = known \cup walk.records \cup walk.issues \cup LeftOut
    /\ pc' = "idle" /\ walk' = NoWalk
    /\ UNCHANGED <<world, peak, raced>>

\* Mutants.
FailMovesCursor ==
    /\ pc \notin {"idle", "shipping"}
    /\ cursor' = IF pc = "visiting" THEN After ELSE cursor
    /\ pc' = "idle" /\ walk' = NoWalk
    /\ UNCHANGED <<world, support, history>>

(* A request fails to reach the device, or the deadline cancels the poll. *)
Fail ==
    /\ pc \notin {"idle", "shipping"}
    /\ pc' = "idle" /\ walk' = NoWalk
    /\ UNCHANGED <<world, read, history>>
-----------------------------------------------------------------------------
Device == Write \/ Clear \/ Tick \/ SetBack

Poll ==
    \/ Begin \/ Overlap \/ ReadService \/ AskFilter \/ OpenHead
    \/ Skip \/ FollowLink \/ PagesOver
    \/ Exhausted \/ VisitRefused \/ VisitMember \/ VisitOver
    \/ Rewalk \/ Doubt \/ Settle \/ ProbeFlips
    \/ ProbeStands \/ ProbeRefused
    \/ Ship \/ Fail

Next == Device \/ Poll

Spec == Init /\ [][Next]_vars

(* The dispatcher starts a poll every cadence, and a started poll runs.    *)
FairSpec ==
    /\ Spec
    /\ WF_vars(Begin) /\ WF_vars(ReadService) /\ WF_vars(AskFilter)
    /\ WF_vars(OpenHead) /\ WF_vars(Skip) /\ WF_vars(FollowLink)
    /\ WF_vars(PagesOver) /\ WF_vars(Exhausted \/ VisitRefused \/ VisitMember \/ VisitOver)
    /\ WF_vars(Rewalk) /\ WF_vars(Doubt) /\ WF_vars(Settle)
    /\ WF_vars(ProbeFlips \/ ProbeStands \/ ProbeRefused) /\ WF_vars(Ship)
-----------------------------------------------------------------------------
(* The cursor's member is in the log, as it was shipped. *)
Anchored == cursor # <<>> /\ \E i \in Found(cursor[1].member) :
                                Sound(log[i]) /\ log[i].at = cursor[1].at
AnchorAt == CHOOSE i \in Found(cursor[1].member) : TRUE

(* No entry is passed over in silence: what the device wrote before the    *)
(* cursor's member, and what the next walk will therefore never visit, was *)
(* shipped or reported (the cursor moves only with the records, a jump     *)
(* that misses is walked again, a cut is said).                            *)
NoSilentLoss ==
    pc = "idle" /\ raced = "no" /\ Anchored /\ cursor[1].order = device.order
      => \A i \in 1..(AnchorAt - 1) : log[i].serial \in known

(* A poll that calls nothing truncated accounts for every entry the log    *)
(* held when it was opened: shipped now or before, or reported.  A filter  *)
(* by stamp hides none, even when the device's clock was set back, as long *)
(* as its service says so: a filter presumes that much.                    *)
PollAccounts ==
    pc = "shipping" /\ raced = "no" /\ walk.order = device.order /\ ~Truncated
    /\ ~(device.filter = "honored" /\ device.steps = "untold")
      => \A i \in DOMAIN log :
            log[i].serial \in walk.present
              => log[i].serial \in known \cup walk.records \cup walk.issues

(* A log the budget has room for is never cut, wherever the cursor's       *)
(* remembered index leads: a jump that misses is walked again.             *)
FitsIsWhole ==
    (/\ pc = "shipping" /\ raced = "no" /\ walk.late = "no" /\ device.links = "good"
     /\ Cardinality(walk.present) <= Budget /\ Total <= Budget /\ Len(log) <= Budget)
      => ~Truncated

(* No entry ships twice while the order is read right and the clock runs   *)
(* forward: not after a burst in one second, a rotation, a refill under    *)
(* the same ids, a jump, a filter that is ignored or an unreadable cursor. *)
(* The order is read off neighbours on a page, and a walk reaches the end  *)
(* of its window by the links: of pages of one member, or where links lead *)
(* nowhere, the cursor may come to stand beyond the next window.           *)
NoRepeat ==
    (/\ raced = "no" /\ device.numbered = "yes" /\ device.steps = "never"
     /\ device.links = "good" /\ PageSize > 1)
      => \A s \in Serials : shipped[s] <= 1

(* Every entry the device holds on to is shipped or reported in the end,   *)
(* once polls stop failing: no cursor, count or learned filter wedges the  *)
(* read on a log it no longer follows.                                     *)
CatchesUp ==
    ([](raced = "no") /\ <>[][~Fail]_vars)
      => []<>(\A i \in DOMAIN log : log[i].serial \in known)
=============================================================================
