------------------------- MODULE EndpointReads_proofs ------------------------
(***************************************************************************)
(* What the reads of one Redfish endpoint keep, for every value of the     *)
(* constants: first the platform slot by itself, then the firmware walk by *)
(* itself, then both composed.                                             *)
(*                                                                         *)
(* FreshUnlessOvertaken speaks of an endpoint that is up; while it is down *)
(* the slot must stay empty, and no root may be on its way but the         *)
(* endpoint's own: Settled.                                                *)
(*                                                                         *)
(* InventoryIsTold speaks of a walk that has shipped.  The invariant       *)
(* follows the walk: every page asked for but the current one is read to   *)
(* its end (Paged), every member listed is accounted for (Accounted,       *)
(* Complete), and the members visited are as many as are listed unless one *)
(* was repeated (Numbered).                                                *)
(*                                                                         *)
(* The composition restricts both, so its steps are steps of each.         *)
(***************************************************************************)
EXTENDS EndpointReads, FiniteSetTheorems, TLAPS

(* After a fault was seen, slot and roots on their way are the endpoint's. *)
Settled ==
    warned = "yes" /\ overtaken = "no" =>
        /\ endpoint = "down" => /\ slot = None
                                /\ \A r \in Readers : pc[r] # "answered"
        /\ endpoint = "up" => /\ slot \in {None, firmware}
                              /\ \A r \in Readers :
                                    pc[r] = "answered" => platform[r] = firmware

IInv == TypeOK /\ Settled

(* Every step keeps the types. *)
LEMMA TypeStep ==
    ASSUME TypeOK, [Next]_vars PROVE TypeOK'
<1> USE PlatformAssumption DEF TypeOK, PCs, world
<1>1. CASE GoesDown
  BY <1>1 DEF GoesDown
<1>2. CASE ComesBack
  BY <1>2 DEF ComesBack
<1>3. ASSUME NEW r \in Readers, Answers(r) PROVE TypeOK'
  BY <1>3 DEF Answers
<1>4. ASSUME NEW r \in Readers, Compat(r) PROVE TypeOK'
  BY <1>4 DEF Compat
<1>5. ASSUME NEW r \in Readers, AskRoot(r) PROVE TypeOK'
  BY <1>5 DEF AskRoot
<1>6. ASSUME NEW r \in Readers, Classified(r) PROVE TypeOK'
  BY <1>6 DEF Classified
<1>7. ASSUME NEW r \in Readers, Done(r) PROVE TypeOK'
  BY <1>7 DEF Done, Leaves
<1>8. ASSUME NEW r \in Readers, Fault(r) PROVE TypeOK'
  BY <1>8 DEF Fault, Leaves
<1>9. CASE UNCHANGED vars
  BY <1>9 DEF vars
<1> QED
  BY <1>1, <1>2, <1>3, <1>4, <1>5, <1>6, <1>7, <1>8, <1>9 DEF Next

(* Every step keeps slot and roots settled. *)
LEMMA SettledStep ==
    ASSUME TypeOK, Settled, [Next]_vars PROVE Settled'
<1> USE DEF TypeOK, PCs, Settled, world
<1>1. CASE GoesDown
  BY <1>1 DEF GoesDown
<1>2. CASE ComesBack
  BY <1>2 DEF ComesBack
<1>3. ASSUME NEW r \in Readers, Answers(r) PROVE Settled'
  BY <1>3 DEF Answers
<1>4. ASSUME NEW r \in Readers, Compat(r) PROVE Settled'
  BY <1>4 DEF Compat
<1>5. ASSUME NEW r \in Readers, AskRoot(r) PROVE Settled'
  BY <1>5 DEF AskRoot
<1>6. ASSUME NEW r \in Readers, Classified(r) PROVE Settled'
  BY <1>6 DEF Classified
<1>7. ASSUME NEW r \in Readers, Done(r) PROVE Settled'
  BY <1>7 DEF Done, Leaves
<1>8. ASSUME NEW r \in Readers, Fault(r) PROVE Settled'
  BY <1>8 DEF Fault, Leaves
<1>9. CASE UNCHANGED vars
  BY <1>9 DEF vars
<1> QED
  BY <1>1, <1>2, <1>3, <1>4, <1>5, <1>6, <1>7, <1>8, <1>9 DEF Next

(* The inductive invariant holds of every behaviour. *)
THEOREM Invariant == Spec => []IInv
<1>1. Init => IInv
  BY PlatformAssumption DEF Init, IInv, TypeOK, Settled, PCs
<1>2. IInv /\ [Next]_vars => IInv'
  BY TypeStep, SettledStep DEF IInv
<1> QED
  BY <1>1, <1>2, PTL DEF Spec

(* Once a read saw the endpoint away, nothing classified before is in the  *)
(* slot when it is back, unless a root was on its way (Platform::failed).  *)
THEOREM FreshAfterOutage == Spec => []FreshUnlessOvertaken
<1>1. IInv => FreshUnlessOvertaken
  BY DEF IInv, Settled, FreshUnlessOvertaken
<1> QED
  BY Invariant, <1>1, PTL
-----------------------------------------------------------------------------
(* A page read to its end: its members are listed, its link was followed. *)
Read(q) ==
    LET page == device.pages[q] IN
    /\ q \in DOMAIN device.pages
    /\ \A i \in DOMAIN page.members : page.members[i] \in walk.listed
    /\ page.link = <<>> \/ page.link[1] \in walk.seen

Underway == stage \in {"opening", "asking", "visiting"}

Paged ==
    /\ 1 \in walk.seen /\ 0 \notin walk.seen
    /\ Underway => walk.page \in walk.seen /\ walk.cut = "no"
    /\ \A q \in walk.seen : walk.cut = "yes" \/ (Underway /\ q = walk.page) \/ Read(q)
    /\ stage = "visiting" =>
         /\ walk.page \in DOMAIN device.pages
         /\ walk.members = device.pages[walk.page].members
         /\ walk.link = device.pages[walk.page].link
         /\ walk.at <= Len(walk.members)
         /\ \A i \in 1..walk.at : walk.members[i] \in walk.listed

Counted ==
    /\ stage \in {"opening", "asking"} /\ walk.page = 1 => walk.count = <<>>
    /\ stage \in {"visiting", "ending"} \/ walk.page # 1 =>
         (device.pages[1].count # <<>> => walk.count = device.pages[1].count)
    /\ stage = "ending" /\ walk.cut = "no" /\ walk.count # <<>>
         => walk.count[1] <= walk.visited

Accounted ==
    /\ \A id \in walk.listed :
          \/ <<id, device.doc[id]>> \in walk.items
          \/ \E fault \in Faults : <<fault, id>> \in walk.issues
    /\ \A item \in walk.items : item[1] \in walk.listed
    /\ \A fault \in Faults, id \in Members : <<fault, id>> \in walk.issues => id \in walk.listed

Complete ==
    walk.complete = "yes" =>
        /\ walk.cut = "no"
        /\ \A id \in walk.listed :
              <<id, device.doc[id]>> \in walk.items \/ <<"nameless", id>> \in walk.issues

Numbered ==
    /\ IsFiniteSet(walk.listed)
    /\ \/ walk.visited = Cardinality(walk.listed)
       \/ \E id \in Members : <<"repeat", id>> \in walk.issues

Follows == Paged /\ Counted /\ Accounted /\ Complete /\ Numbered

WalkIInv ==
    /\ WalkTypeOK
    /\ stage # "idle" => batch = NoBatch
    /\ moved = "no" /\ stage # "idle" => Follows
    /\ InventoryIsTold
-----------------------------------------------------------------------------
(* A listing of the constant has the shape the model gives it. *)
LEMMA ListingShape ==
    ASSUME NEW l \in Listings
    PROVE  /\ l.pages \in Seq(Page) /\ l.pages # <<>> /\ 1 \in DOMAIN l.pages
           /\ l.doc \in [Members -> Subjects \cup {Nobody}]
           /\ \A p \in DOMAIN l.pages :
                /\ p \in Nat /\ p # 0
                /\ l.pages[p] \in Page
                /\ l.pages[p].link = <<>> \/ (/\ Len(l.pages[p].link) = 1
                                              /\ l.pages[p].link[1] \in Nat
                                              /\ DOMAIN l.pages[p].link = {1})
<1>1. l \in Listing /\ l.pages # <<>>
  BY FirmwareAssumption
<1>2. l.pages \in Seq(Page) /\ l.doc \in [Members -> Subjects \cup {Nobody}]
  BY <1>1 DEF Listing
<1>3. DOMAIN l.pages = 1..Len(l.pages) /\ Len(l.pages) \in Nat /\ Len(l.pages) # 0
  BY <1>1, <1>2
<1>4. ASSUME NEW p \in DOMAIN l.pages
      PROVE  /\ p \in Nat /\ p # 0
             /\ l.pages[p] \in Page
             /\ l.pages[p].link = <<>> \/ (/\ Len(l.pages[p].link) = 1
                                           /\ l.pages[p].link[1] \in Nat
                                           /\ DOMAIN l.pages[p].link = {1})
  <2>1. l.pages[p] \in Page
    BY <1>2, <1>3
  <2>2. l.pages[p].link \in Seq(Nat)
    BY <2>1 DEF Page
  <2>3. l.pages[p].link = <<>> \/ Len(l.pages[p].link) = 1
    BY FirmwareAssumption
  <2> QED BY <1>3, <2>1, <2>2, <2>3
<1> QED BY <1>1, <1>2, <1>3, <1>4

(* The fields keep their types. *)
LEMMA CutType == ASSUME NEW w \in Locals PROVE Cut(w) \in Locals
  BY DEF Cut, Locals, Flags

LEMMA ItemsType ==
    ASSUME NEW w \in Locals, NEW items \in SUBSET (Members \X Subjects)
    PROVE  [w EXCEPT !.items = items] \in Locals
  BY DEF Locals

LEMMA VisitType ==
    ASSUME NEW w \in Locals, NEW at \in Nat, NEW visited \in Nat,
           NEW listed \in SUBSET Members, NEW issues \in SUBSET (Faults \X Members),
           NEW complete \in Flags
    PROVE  [w EXCEPT !.at = at, !.visited = visited, !.listed = listed,
                     !.issues = issues, !.complete = complete] \in Locals
  BY DEF Locals

LEMMA VisitedType ==
    ASSUME walk \in Locals, Member \in Members, NEW fault PROVE Visited(fault) \in Locals
<1> DEFINE issues == IF fault \in Faults THEN walk.issues \cup {<<fault, Member>>}
                                        ELSE walk.issues
           complete == IF fault \in {"refused", "twin"} THEN "no" ELSE walk.complete
<1>1. issues \in SUBSET (Faults \X Members) /\ complete \in Flags
  BY DEF Locals, Flags
<1>2. Visited(fault) = [walk EXCEPT !.at = walk.at + 1, !.visited = walk.visited + 1,
                                    !.listed = walk.listed \cup {Member},
                                    !.issues = issues, !.complete = complete]
  BY DEF Visited
<1>3. /\ walk.at + 1 \in Nat /\ walk.visited + 1 \in Nat
      /\ walk.listed \cup {Member} \in SUBSET Members
  BY DEF Locals
<1> HIDE DEF issues, complete
<1>4. [walk EXCEPT !.at = walk.at + 1, !.visited = walk.visited + 1,
                   !.listed = walk.listed \cup {Member},
                   !.issues = issues, !.complete = complete] \in Locals
  BY ONLY <1>1, <1>3, VisitType, walk \in Locals
<1> QED BY <1>2, <1>4

LEMMA FreshType == Fresh \in Locals
  BY DEF Fresh, Locals, Flags

(* Type correctness, one action at a time. *)
LEMMA WalkTypeStep == ASSUME WalkTypeOK, WalkNext PROVE WalkTypeOK'
<1> USE DEF WalkTypeOK, Stages
<1>1. CASE Changes
  BY <1>1 DEF Changes, Flags
<1>2. CASE Open
  BY <1>2, FreshType DEF Open, Flags, NoBatch
<1>3. CASE ServiceArrives
  BY <1>3 DEF ServiceArrives
<1>4. CASE PageArrives
  <2> DEFINE page == device.pages[walk.page]
             counted == [walk EXCEPT !.count = IF @ = <<>> THEN page.count ELSE @]
  <2>1. page \in Page
    BY <1>4, ListingShape DEF PageArrives
  <2>2. counted \in Locals
    BY <2>1 DEF Page, Locals
  <2>3. Cut(counted) \in Locals
    BY <2>2, CutType
  <2>4. [counted EXCEPT !.members = page.members, !.link = page.link, !.at = 0] \in Locals
    BY <2>1, <2>2 DEF Page, Locals
  <2> HIDE DEF counted
  <2> QED BY <1>4, <2>3, <2>4 DEF PageArrives, counted
<1>5. CASE Exhausted
  BY <1>5, CutType DEF Exhausted
<1>6. CASE Visit
  <2>1. Member \in Members
    BY <1>6 DEF Visit, Visiting, Member, Locals
  <2>2. CASE \E fault \in Faults : walk' = Visited(fault)
    BY <1>6, <2>1, <2>2, VisitedType DEF Visit
  <2>3. CASE /\ device.doc[Member] \in Subjects
             /\ walk' = [Visited("none") EXCEPT !.items = @ \cup {<<Member, device.doc[Member]>>}]
    <3>1. Visited("none") \in Locals
      BY <2>1, VisitedType
    <3>2. Visited("none").items \cup {<<Member, device.doc[Member]>>}
            \in SUBSET (Members \X Subjects)
      BY <2>1, <2>3, <3>1 DEF Locals
    <3>3. walk' \in Locals
      BY <2>3, <3>1, <3>2, ItemsType
    <3> QED BY <1>6, <3>3 DEF Visit
  <2>4. /\ "repeat" \in Faults /\ "refused" \in Faults
        /\ "nameless" \in Faults /\ "twin" \in Faults
    BY DEF Faults
  <2> DEFINE claimed == device.doc[Member]
  <2>5. CASE walk' = Visited("repeat")
    BY <2>2, <2>4, <2>5
  <2>6. CASE walk' = Visited("refused")
    BY <2>2, <2>4, <2>6
  <2>7. CASE walk' = Visited("nameless")
    BY <2>2, <2>4, <2>7
  <2>8. CASE walk' = Visited("twin")
    BY <2>2, <2>4, <2>8
  <2> QED BY ONLY <1>6, <2>3, <2>5, <2>6, <2>7, <2>8 DEF Visit
<1>7. CASE PageOver
  <2>1. walk.link # <<>> => walk.link[1] \in Nat
    BY DEF Locals
  <2>2. walk.link # <<>> =>
          [walk EXCEPT !.page = walk.link[1], !.seen = @ \cup {walk.link[1]}] \in Locals
    BY <2>1 DEF Locals
  <2> QED BY <1>7, <2>2, CutType DEF PageOver
<1>8. CASE Ships
  BY <1>8, FreshType DEF Ships, Locals
<1>9. CASE Fails
  BY <1>9, FreshType DEF Fails
<1> QED BY <1>1, <1>2, <1>3, <1>4, <1>5, <1>6, <1>7, <1>8, <1>9 DEF WalkNext, Reading

(* Types: the walk and its batch keep the shape the code gives them. *)
THEOREM WalkTypeCorrect == WalkSpec => []WalkTypeOK
<1>1. WalkInit => WalkTypeOK
  BY FreshType DEF WalkInit, WalkTypeOK, Flags, Stages, NoBatch
<1>2. WalkTypeOK /\ UNCHANGED walkVars => WalkTypeOK'
  BY DEF WalkTypeOK, walkVars
<1> QED BY <1>1, <1>2, WalkTypeStep, PTL DEF WalkSpec
-----------------------------------------------------------------------------
(* What a visit changes, whatever came of it. *)
LEMMA VisitFrame ==
    ASSUME WalkTypeOK, Visit
    PROVE  /\ Member \in Members /\ walk.at + 1 \in DOMAIN walk.members
           /\ Member = walk.members[walk.at + 1]
           /\ stage = "visiting" /\ stage' = "visiting"
           /\ device' = device /\ moved' = moved
           /\ walk'.page = walk.page /\ walk'.seen = walk.seen
           /\ walk'.members = walk.members /\ walk'.link = walk.link
           /\ walk'.count = walk.count /\ walk'.cut = walk.cut
           /\ walk'.at = walk.at + 1 /\ walk'.visited = walk.visited + 1
           /\ walk'.listed = walk.listed \cup {Member}
<1>1. Member \in Members /\ walk.at + 1 \in DOMAIN walk.members
  BY DEF Visit, Visiting, Member, WalkTypeOK, Locals
<1>2. Member = walk.members[walk.at + 1]
  BY DEF Member
<1>3. stage = "visiting" /\ stage' = "visiting" /\ device' = device /\ moved' = moved
  BY DEF Visit, Visiting
<1>4. walk \in Locals
  BY DEF WalkTypeOK
<1> DEFINE Frame(w) ==
           /\ w.page = walk.page /\ w.seen = walk.seen
           /\ w.members = walk.members /\ w.link = walk.link
           /\ w.count = walk.count /\ w.cut = walk.cut
           /\ w.at = walk.at + 1 /\ w.visited = walk.visited + 1
           /\ w.listed = walk.listed \cup {Member}
<1>5. ASSUME NEW fault PROVE Frame(Visited(fault))
  BY <1>4 DEF Visited, Locals
<1>6. ASSUME NEW items PROVE Frame([Visited("none") EXCEPT !.items = items])
  BY <1>4 DEF Visited, Locals
<1>7. Frame(walk')
  <2> HIDE DEF Frame
  <2> QED BY <1>5, <1>6 DEF Visit
<1> QED BY <1>1, <1>2, <1>3, <1>7

(* The listing's data a walk relies on. *)
LEMMA DeviceShape ==
    ASSUME WalkTypeOK
    PROVE  /\ 1 \in DOMAIN device.pages
           /\ \A p \in DOMAIN device.pages :
                /\ p \in Nat /\ p # 0
                /\ device.pages[p] \in Page
                /\ device.pages[p].link = <<>> \/ (/\ Len(device.pages[p].link) = 1
                                                  /\ device.pages[p].link[1] \in Nat
                                                  /\ DOMAIN device.pages[p].link = {1})
  BY ListingShape DEF WalkTypeOK

(* A visit keeps every part of what the walk follows. *)
LEMMA VisitFollows ==
    ASSUME WalkTypeOK, Follows, Visit PROVE Follows'
<1> USE VisitFrame
<1>t. walk \in Locals
  BY DEF WalkTypeOK
<1>1. Paged'
  <2>1. ASSUME NEW q, Read(q) PROVE Read(q)'
    BY <2>1 DEF Read
  <2>2. \A i \in 1..walk'.at : walk'.members[i] \in walk'.listed
    BY <1>t DEF Follows, Paged, Locals
  <2>3. walk'.at <= Len(walk'.members)
    BY <1>t DEF Locals
  <2> QED BY <2>1, <2>2, <2>3 DEF Follows, Paged, Underway
<1>2. Counted'
  BY DEF Follows, Counted
<1> DEFINE claimed == device.doc[Member]
<1>3. CASE Member \in walk.listed /\ walk' = Visited("repeat")
  <2>1. /\ walk'.items = walk.items
        /\ walk'.issues = walk.issues \cup {<<"repeat", Member>>}
        /\ walk'.complete = walk.complete /\ walk'.listed = walk.listed
    BY <1>3, <1>t DEF Visited, Locals, Faults
  <2>2. Accounted' /\ Complete'
    BY <2>1 DEF Follows, Accounted, Complete
  <2>3. Numbered'
    BY <2>1 DEF Follows, Numbered
  <2> QED BY <1>1, <1>2, <2>2, <2>3 DEF Follows
<1>4. ASSUME Member \notin walk.listed PROVE Numbered' \/ ~(walk.issues \subseteq walk'.issues)
  <2>1. IsFiniteSet(walk.listed)
    BY DEF Follows, Numbered
  <2>2. /\ IsFiniteSet(walk.listed \cup {Member})
        /\ Cardinality(walk.listed \cup {Member}) = Cardinality(walk.listed) + 1
    BY <1>4, <2>1, FS_AddElement
  <2>3. CASE walk.visited = Cardinality(walk.listed)
    BY <2>2, <2>3 DEF Numbered
  <2>4. CASE \E id \in Members : <<"repeat", id>> \in walk.issues
    BY <2>2, <2>4 DEF Numbered
  <2> QED BY <2>3, <2>4 DEF Follows, Numbered
<1>5. ASSUME NEW fault \in {"refused", "twin"},
             Member \notin walk.listed, walk' = Visited(fault)
      PROVE  Follows'
  <2>1. /\ walk'.items = walk.items
        /\ walk'.issues = walk.issues \cup {<<fault, Member>>}
        /\ walk'.complete = "no" /\ fault \in Faults
    BY <1>5, <1>t DEF Visited, Locals, Faults
  <2>2. Accounted' /\ Complete'
    BY <2>1 DEF Follows, Accounted, Complete
  <2> QED BY <1>1, <1>2, <1>4, <1>5, <2>1, <2>2 DEF Follows
<1>6. CASE Member \notin walk.listed /\ walk' = Visited("nameless")
  <2>1. /\ walk'.items = walk.items
        /\ walk'.issues = walk.issues \cup {<<"nameless", Member>>}
        /\ walk'.complete = walk.complete /\ "nameless" \in Faults
    BY <1>6, <1>t DEF Visited, Locals, Faults
  <2>2. Accounted' /\ Complete'
    BY <2>1 DEF Follows, Accounted, Complete
  <2> QED BY <1>1, <1>2, <1>4, <1>6, <2>1, <2>2 DEF Follows
<1>7. CASE /\ Member \notin walk.listed
           /\ walk' = [Visited("none") EXCEPT !.items = @ \cup {<<Member, claimed>>}]
  <2>1. /\ walk'.items = walk.items \cup {<<Member, claimed>>}
        /\ walk'.issues = walk.issues
        /\ walk'.complete = walk.complete
    BY <1>7, <1>t DEF Visited, Locals, Faults
  <2>2. Accounted' /\ Complete'
    BY <2>1 DEF Follows, Accounted, Complete
  <2> QED BY <1>1, <1>2, <1>4, <1>7, <2>1, <2>2 DEF Follows
<1>8. \/ Member \in walk.listed /\ walk' = Visited("repeat")
      \/ Member \notin walk.listed /\ walk' = Visited("refused")
      \/ Member \notin walk.listed /\ walk' = Visited("nameless")
      \/ Member \notin walk.listed /\ walk' = Visited("twin")
      \/ /\ Member \notin walk.listed
         /\ walk' = [Visited("none") EXCEPT !.items = @ \cup {<<Member, claimed>>}]
  BY DEF Visit
<1> QED BY <1>3, <1>5, <1>6, <1>7, <1>8

(* So does every other step of a walk that goes on over one listing. *)
LEMMA FollowsStep ==
    ASSUME WalkTypeOK, stage # "idle" => Follows, moved = "no" \/ Open,
           WalkNext, moved' = "no", stage' # "idle"
    PROVE  Follows'
<1>t. walk \in Locals
  BY DEF WalkTypeOK
<1>1. CASE Changes
  BY <1>1 DEF Changes
<1>2. CASE Open
  <2>1. walk' = Fresh /\ stage' = "opening"
    BY <1>2 DEF Open
  <2>2. Paged' /\ Counted' /\ Accounted' /\ Complete'
    BY <2>1 DEF Fresh, Paged, Underway, Counted, Accounted, Complete
  <2>3. Numbered'
    BY <2>1, FS_EmptySet DEF Fresh, Numbered
  <2> QED BY <2>2, <2>3 DEF Follows
<1>3. CASE ServiceArrives
  BY <1>3 DEF ServiceArrives, Follows, Paged, Underway, Read, Counted, Accounted, Complete, Numbered
<1>4. CASE PageArrives
  <2> DEFINE page == device.pages[walk.page]
             count == IF walk.count = <<>> THEN page.count ELSE walk.count
  <2>1. Follows /\ stage = "asking" /\ device' = device /\ walk.page \in DOMAIN device.pages
    BY <1>4 DEF PageArrives
  <2>2. /\ walk'.page = walk.page /\ walk'.seen = walk.seen /\ walk'.count = count
        /\ walk'.visited = walk.visited /\ walk'.listed = walk.listed
        /\ walk'.items = walk.items /\ walk'.issues = walk.issues
    BY <1>4, <1>t DEF PageArrives, Cut, Locals
  <2>3. \/ stage' = "ending" /\ walk'.cut = "yes" /\ walk'.complete = "no"
        \/ /\ stage' = "visiting" /\ walk'.cut = walk.cut /\ walk'.complete = walk.complete
           /\ walk'.members = page.members /\ walk'.link = page.link /\ walk'.at = 0
    BY <1>4, <1>t DEF PageArrives, Cut, Locals
  <2>4. page.members \in Seq(Members)
    BY <2>1, DeviceShape DEF Page
  <2>5. Paged'
    BY <2>1, <2>2, <2>3, <2>4 DEF Follows, Paged, Underway, Read
  <2>6. Counted'
    BY <2>1, <2>2, <2>3 DEF Follows, Counted
  <2>7. Accounted' /\ Complete' /\ Numbered'
    BY <2>1, <2>2, <2>3 DEF Follows, Accounted, Complete, Numbered
  <2> QED BY <2>5, <2>6, <2>7 DEF Follows
<1>5. ASSUME Follows, stage = "visiting", device' = device,
             walk' = Cut(walk), stage' = "ending"
      PROVE  Follows'
  <2>1. /\ walk'.seen = walk.seen /\ walk'.count = walk.count /\ walk'.page = walk.page
        /\ walk'.visited = walk.visited /\ walk'.listed = walk.listed
        /\ walk'.items = walk.items /\ walk'.issues = walk.issues
        /\ walk'.cut = "yes" /\ walk'.complete = "no"
    BY <1>5, <1>t DEF Cut, Locals
  <2>2. Paged'
    BY <1>5, <2>1 DEF Follows, Paged, Underway, Read
  <2>3. Counted' /\ Accounted' /\ Complete' /\ Numbered'
    BY <1>5, <2>1 DEF Follows, Counted, Accounted, Complete, Numbered
  <2> QED BY <2>2, <2>3 DEF Follows
<1>6. CASE Exhausted
  BY <1>5, <1>6 DEF Exhausted, Visiting
<1>7. CASE Visit
  BY <1>7, VisitFollows DEF Visit, Visiting
<1>8. CASE PageOver
  <2>1. Follows /\ stage = "visiting" /\ device' = device /\ walk.at = Len(walk.members)
    BY <1>8 DEF PageOver
  <2>2. /\ walk.page \in DOMAIN device.pages
        /\ walk.members = device.pages[walk.page].members
        /\ walk.link = device.pages[walk.page].link
        /\ \A i \in DOMAIN walk.members : walk.members[i] \in walk.listed
    BY <2>1, <1>t DEF Follows, Paged, Locals
  <2>3. CASE walk.link = <<>> /\ walk' = walk /\ stage' = "ending"
             /\ ~(walk.count # <<>> /\ walk.count[1] > walk.visited)
    <3>1. Read(walk.page)
      BY <2>2, <2>3 DEF Read
    <3>2. Paged'
      BY <2>1, <2>3, <3>1 DEF Follows, Paged, Underway, Read
    <3>3. walk.count # <<>> => walk.count[1] \in Nat
      BY <1>t DEF Locals
    <3>4. Counted'
      BY <2>1, <2>3, <3>3, <1>t DEF Follows, Counted, Locals
    <3>5. Accounted' /\ Complete' /\ Numbered'
      BY <2>1, <2>3 DEF Follows, Accounted, Complete, Numbered
    <3> QED BY <3>2, <3>4, <3>5 DEF Follows
  <2>4. CASE walk' = Cut(walk) /\ stage' = "ending"
    BY <1>5, <2>1, <2>4
  <2>5. CASE /\ walk.link # <<>> /\ walk.link[1] # 0 /\ walk.link[1] \notin walk.seen
             /\ walk' = [walk EXCEPT !.page = walk.link[1], !.seen = @ \cup {walk.link[1]}]
             /\ stage' = "asking"
    <3>1. /\ walk'.page = walk.link[1] /\ walk'.seen = walk.seen \cup {walk.link[1]}
          /\ walk'.count = walk.count /\ walk'.cut = walk.cut
          /\ walk'.visited = walk.visited /\ walk'.listed = walk.listed
          /\ walk'.items = walk.items /\ walk'.issues = walk.issues
          /\ walk'.complete = walk.complete
      BY <2>5, <1>t DEF Locals
    <3>2. \A q : q = walk.page => Read(q)'
      BY <2>1, <2>2, <3>1 DEF Read
    <3>3. \A q : Read(q) => Read(q)'
      BY <2>1, <3>1 DEF Read
    <3>4. Paged'
      BY <2>1, <2>5, <3>1, <3>2, <3>3 DEF Follows, Paged, Underway
    <3>5. Counted'
      BY <2>1, <2>5, <3>1 DEF Follows, Counted, Paged
    <3>6. Accounted' /\ Complete' /\ Numbered'
      BY <2>1, <3>1 DEF Follows, Accounted, Complete, Numbered
    <3> QED BY <3>4, <3>5, <3>6 DEF Follows
  <2> QED BY <1>8, <2>3, <2>4, <2>5 DEF PageOver
<1>9. CASE Ships
  BY <1>9 DEF Ships
<1>10. CASE Fails
  BY <1>10 DEF Fails
<1> QED
  BY <1>1, <1>2, <1>3, <1>4, <1>6, <1>7, <1>8, <1>9, <1>10 DEF WalkNext, Reading
-----------------------------------------------------------------------------
(* Nothing was cut: the pages asked for are closed under their links, so   *)
(* they hold every page the listing leads to.                              *)
LEMMA AllRead ==
    ASSUME WalkTypeOK, Paged, stage = "ending", walk.cut = "no", NEW p \in Reached
    PROVE  p \in walk.seen /\ Read(p)
<1>1. \A q \in walk.seen : Read(q)
  BY DEF Paged, Underway
<1>2. walk.seen \in SUBSET DOMAIN device.pages
  BY <1>1 DEF Read
<1>3. Closed(walk.seen)
  BY <1>1, <1>2, DeviceShape DEF Closed, Read, Paged
<1>4. p \in walk.seen
  BY <1>2, <1>3 DEF Reached
<1> QED BY <1>1, <1>4

(* What ships tells what the walk saw. *)
LEMMA ShipStep ==
    ASSUME WalkTypeOK, moved = "no" => Follows, Ships
    PROVE  InventoryIsTold'
<1> SUFFICES ASSUME moved = "no", NEW p \in Reached'
             PROVE LET page == device.pages[p] IN
        /\ batch'.cut = "no" =>
             /\ page.link = <<>> \/ page.link[1] # 0
             /\ \A id \in Range(page.members) :
                   <<id, device.doc[id]>> \in batch'.items \/ Told(id)'
        /\ batch'.claim = "complete" =>
             /\ batch'.cut = "no"
             /\ \A id \in Range(page.members) :
                   <<id, device.doc[id]>> \in batch'.items \/ <<"nameless", id>> \in batch'.issues
             /\ p = 1 /\ page.count # <<>>
                  => \/ Cardinality(Named') >= page.count[1]
                     \/ \E id \in Members : <<"repeat", id>> \in batch'.issues
  BY DEF InventoryIsTold, Ships
<1> DEFINE page == device.pages[p]
<1>1. Follows /\ stage = "ending" /\ device' = device
  BY DEF Ships
<1>2. p \in Reached
  BY <1>1 DEF Reached, Closed
<1>3. /\ batch'.items = walk.items /\ batch'.issues = walk.issues /\ batch'.cut = walk.cut
      /\ batch'.claim = "complete" => walk.complete = "yes"
  BY DEF Ships
<1>4. ASSUME walk.cut = "no"
      PROVE  /\ page.link = <<>> \/ page.link[1] # 0
             /\ \A id \in Range(page.members) : id \in walk.listed
  <2>1. Read(p)
    BY <1>1, <1>2, <1>4, AllRead DEF Follows
  <2> QED BY <1>1, <2>1 DEF Read, Range, Follows, Paged
<1>5. ASSUME walk.cut = "no", NEW id \in Range(page.members)
      PROVE  <<id, device.doc[id]>> \in batch'.items \/ Told(id)'
  BY <1>1, <1>3, <1>4, <1>5 DEF Told, Follows, Accounted
<1>6. ASSUME walk.complete = "yes"
      PROVE  /\ walk.cut = "no"
             /\ \A id \in Range(page.members) :
                   <<id, device.doc[id]>> \in batch'.items \/ <<"nameless", id>> \in batch'.issues
  BY <1>1, <1>3, <1>4, <1>6 DEF Follows, Complete
<1>7. ASSUME walk.complete = "yes", p = 1, page.count # <<>>
      PROVE  \/ Cardinality(Named') >= page.count[1]
             \/ \E id \in Members : <<"repeat", id>> \in batch'.issues
  <2>1. Named' = walk.listed
    <3>1. ASSUME NEW id \in walk.listed PROVE id \in Named'
      <4>1. id \in Members
        BY DEF WalkTypeOK, Locals
      <4>2. CASE <<id, device.doc[id]>> \in walk.items
        <5>1. \E item \in batch'.items : item[1] = id
          BY <1>3, <4>2
        <5> QED BY <4>1, <5>1 DEF Named
      <4>3. CASE \E fault \in Faults : <<fault, id>> \in walk.issues
        BY <1>3, <4>1, <4>3 DEF Named, Told
      <4> QED BY <1>1, <3>1, <4>2, <4>3 DEF Follows, Accounted
    <3>2. \A id \in Named' : id \in walk.listed
      BY <1>1, <1>3 DEF Follows, Accounted, Named, Told
    <3> QED BY <3>1, <3>2
  <2>2. walk.count = page.count /\ walk.count[1] <= walk.visited
    BY <1>1, <1>6, <1>7 DEF Follows, Counted
  <2>3. walk.count[1] \in Nat /\ walk.visited \in Nat
    BY <1>7, <2>2 DEF WalkTypeOK, Locals
  <2> QED BY <1>1, <1>3, <2>1, <2>2, <2>3 DEF Follows, Numbered
<1> QED BY <1>3, <1>4, <1>5, <1>6, <1>7

(* The inductive invariant holds of every behaviour. *)
THEOREM WalkInvariant == WalkSpec => []WalkIInv
<1>1. WalkInit => WalkIInv
  <2>1. WalkInit => WalkTypeOK
    BY FreshType DEF WalkInit, WalkTypeOK, Flags, Stages, NoBatch
  <2>2. WalkInit => InventoryIsTold
    BY DEF WalkInit, InventoryIsTold, NoBatch
  <2> QED BY <2>1, <2>2 DEF WalkIInv, WalkInit
<1>2. ASSUME WalkIInv, WalkNext PROVE WalkIInv'
  <2>1. WalkTypeOK'
    BY <1>2, WalkTypeStep DEF WalkIInv
  <2>2. stage' # "idle" => batch' = NoBatch
    BY <1>2 DEF WalkIInv, WalkNext, Reading, Changes, Open, ServiceArrives, PageArrives,
                Exhausted, Visit, Visiting, PageOver, Ships, Fails
  <2>3. moved' = "no" => moved = "no" \/ Open
    BY <1>2 DEF WalkNext, Reading, Changes, Open, ServiceArrives, PageArrives,
                Exhausted, Visit, PageOver, Ships, Fails
  <2>4. moved' = "no" /\ stage' # "idle" => Follows'
    <3> SUFFICES ASSUME moved' = "no", stage' # "idle" PROVE Follows'
      OBVIOUS
    <3>1. CASE Open
      <4>1. stage = "idle"
        BY <3>1 DEF Open
      <4> QED BY <1>2, <3>1, <4>1, FollowsStep DEF WalkIInv
    <3>2. CASE moved = "no"
      BY <1>2, <3>2, FollowsStep DEF WalkIInv
    <3> QED BY <2>3, <3>1, <3>2
  <2>5. InventoryIsTold'
    <3>1. CASE Ships
      BY <1>2, <3>1, ShipStep DEF WalkIInv, Ships
    <3>2. CASE Fails
      BY <1>2, <3>2 DEF WalkIInv, InventoryIsTold, Fails, NoBatch
    <3>3. CASE Changes
      BY <3>3 DEF Changes, InventoryIsTold
    <3>4. CASE Open \/ Reading
      BY <3>4 DEF Open, Reading, ServiceArrives, PageArrives, Exhausted, Visit, Visiting,
                  PageOver, InventoryIsTold
    <3> QED BY <1>2, <3>1, <3>2, <3>3, <3>4 DEF WalkNext
  <2> QED BY <2>1, <2>2, <2>4, <2>5 DEF WalkIInv
<1>3. ASSUME WalkIInv, UNCHANGED walkVars PROVE WalkIInv'
  <2>1. /\ device' = device /\ stage' = stage /\ walk' = walk
        /\ batch' = batch /\ moved' = moved
    BY <1>3 DEF walkVars
  <2>2. WalkTypeOK'
    BY <1>3, <2>1 DEF WalkIInv, WalkTypeOK
  <2>3. Follows => Follows'
    BY <2>1 DEF Follows, Paged, Underway, Read, Counted, Accounted, Complete, Numbered
  <2>4. Reached' = Reached /\ Named' = Named /\ \A id : Told(id)' = Told(id)
    BY <2>1 DEF Reached, Closed, Named, Told
  <2>5. InventoryIsTold'
    BY <1>3, <2>1, <2>4 DEF WalkIInv, InventoryIsTold
  <2> QED BY <1>3, <2>1, <2>2, <2>3, <2>5 DEF WalkIInv
<1> QED BY <1>1, <1>2, <1>3, PTL DEF WalkSpec

(* A batch claimed complete names every member the listing held, and a     *)
(* batch not cut says of every other what became of it (complete in        *)
(* FirmwareWalk::visit, walk_firmware, assemble_firmware).                 *)
THEOREM BatchesTell == WalkSpec => []InventoryIsTold
<1>1. WalkIInv => InventoryIsTold
  BY DEF WalkIInv
<1> QED BY WalkInvariant, <1>1, PTL
-----------------------------------------------------------------------------
(* A step of the endpoint and its reads is a step of the slot and one of   *)
(* the walk, or leaves it alone.                                           *)
LEMMA StepOfEach ==
    ASSUME [EndpointNext]_allVars PROVE [Next]_vars /\ [WalkNext]_walkVars
<1>1. CASE Endpoint
  BY <1>1 DEF Endpoint, ChangesOnce, Next, WalkNext
<1>2. CASE Others
  BY <1>2 DEF Others, Next
<1>3. CASE Begins
  BY <1>3, WalkerAssumption DEF Begins, Next, WalkNext
<1>4. CASE Walks
  BY <1>4 DEF Walks, WalkNext, Reading
<1>5. CASE Ends
  BY <1>5, WalkerAssumption DEF Ends, Next, WalkNext
<1>6. CASE Indicts
  BY <1>6, WalkerAssumption DEF Indicts, Next, WalkNext
<1>7. CASE NeverBegins
  BY <1>7, WalkerAssumption DEF NeverBegins, Next
<1>8. CASE UNCHANGED allVars
  BY <1>8 DEF allVars
<1> QED
  BY <1>1, <1>2, <1>3, <1>4, <1>5, <1>6, <1>7, <1>8 DEF EndpointNext

(* The reads of an endpoint keep both promises at once: the slot is never  *)
(* what the endpoint was before an outage some read saw, and a firmware    *)
(* batch tells what the listing held (perform, Link, FirmwareWalk).        *)
THEOREM ReadsKeepBoth == EndpointSpec => []FreshUnlessOvertaken /\ []InventoryIsTold
<1>1. EndpointInit => Init /\ WalkInit
  BY DEF EndpointInit
<1>2. EndpointSpec => Spec /\ WalkSpec
  BY <1>1, StepOfEach, PTL DEF EndpointSpec, Spec, WalkSpec
<1> QED BY <1>2, FreshAfterOutage, BatchesTell, PTL
=============================================================================
