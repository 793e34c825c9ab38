----------------------------- MODULE FirmwareWalk ----------------------------
(***************************************************************************)
(* One walk of an update service's firmware inventory: FirmwareKind of     *)
(* sources/redfish/src/provider.rs.                                        *)
(*                                                                         *)
(* The walk reads a collection page by page and each member by itself, and *)
(* ends in one batch.  A batch claimed complete names the whole            *)
(* population: a consumer may retire a component absent from it.  The      *)
(* collection is live, and what a device lists need not be what it holds:  *)
(* members repeat, documents claim one identity twice, links lead back or  *)
(* nowhere, pages are empty, counts do not add up.                         *)
(***************************************************************************)
EXTENDS Integers, Sequences, FiniteSets, Functions

CONSTANTS
    Members,    \* ids of the collection's members
    Subjects,   \* identities their documents may claim
    Nobody,     \* the claim of a document whose Id cannot be used
    Listings,   \* what a device may list
    Budget      \* members one walk visits

(* A page's link is <<>> (the last page), <<p>> for page p, or <<0>> for a *)
(* link that does not resolve; its count is <<>> or the count it gives.    *)
Page == [members : Seq(Members), link : Seq(Nat), count : Seq(Nat)]
Listing == [pages : Seq(Page), doc : [Members -> Subjects \cup {Nobody}]]

ASSUME FirmwareAssumption ==
    /\ Nobody \notin Subjects /\ Budget \in Nat
    /\ Listings \subseteq Listing
    /\ \A l \in Listings :
         /\ l.pages # <<>>
         /\ \A p \in DOMAIN l.pages : l.pages[p].link = <<>> \/ Len(l.pages[p].link) = 1

VARIABLES
    device,     \* what the device lists now
    stage,      \* where the walk stands
    walk,       \* FirmwareWalk and the locals of walk_firmware
    batch,      \* what the last walk shipped
    moved       \* history: the listing changed since that walk began

walkVars == <<device, stage, walk, batch, moved>>

Flags == {"no", "yes"}
Stages == {"idle", "opening", "asking", "visiting", "ending"}

(* What an issue says of a member. *)
Faults == {"repeat", "refused", "nameless", "twin"}

NoBatch == [claim |-> "none", items |-> {}, issues |-> {}, cut |-> "no"]

(* FirmwareWalk::new, about to ask for the collection itself: page 1. *)
Fresh ==
    [page |-> 1, seen |-> {1}, members |-> <<>>, link |-> <<>>, at |-> 0,
     visited |-> 0, count |-> <<>>, listed |-> {}, items |-> {}, issues |-> {},
     complete |-> "yes", cut |-> "no"]

Locals ==
    [page : Nat, seen : SUBSET Nat, members : Seq(Members), link : Seq(Nat),
     at : Nat, visited : Nat, count : Seq(Nat), listed : SUBSET Members,
     items : SUBSET (Members \X Subjects), issues : SUBSET (Faults \X Members),
     complete : Flags, cut : Flags]

WalkTypeOK ==
    /\ device \in Listings
    /\ stage \in Stages
    /\ walk \in Locals
    /\ batch \in [claim : {"none", "partial", "complete"},
                  items : SUBSET (Members \X Subjects),
                  issues : SUBSET (Faults \X Members), cut : Flags]
    /\ moved \in Flags

WalkInit ==
    /\ device \in Listings
    /\ stage = "idle" /\ walk = Fresh /\ batch = NoBatch /\ moved = "no"
-----------------------------------------------------------------------------
(* Members come and go: an update is applied, the endpoint restarts. *)
Changes ==
    /\ device' \in Listings \ {device} /\ moved' = "yes"
    /\ UNCHANGED <<stage, walk, batch>>
-----------------------------------------------------------------------------
(* The acquisition's first poll. *)
Open ==
    /\ stage = "idle" /\ stage' = "opening"
    /\ walk' = Fresh /\ batch' = NoBatch /\ moved' = "no"
    /\ UNCHANGED device

(* FirmwareKind::acquire: the service names its scope and its collection. *)
ServiceArrives ==
    /\ stage = "opening" /\ stage' = "asking"
    /\ UNCHANGED <<device, walk, batch, moved>>

(* A stop: the walk says so once and gives up its claim. *)
Cut(w) == [w EXCEPT !.cut = "yes", !.complete = "no"]

(* A page that may be walked: the first may be empty, a later one may not. *)
PageArrives ==
    /\ stage = "asking" /\ walk.page \in DOMAIN device.pages
    /\ LET page == device.pages[walk.page]
           counted == [walk EXCEPT !.count = IF @ = <<>> THEN page.count ELSE @]
       IN  IF page.members = <<>> /\ walk.page # 1
           THEN /\ walk' = Cut(counted) /\ stage' = "ending"
           ELSE /\ walk' = [counted EXCEPT !.members = page.members,
                                           !.link = page.link, !.at = 0]
                /\ stage' = "visiting"
    /\ UNCHANGED <<device, batch, moved>>

Visiting == stage = "visiting" /\ walk.at < Len(walk.members)
Member == walk.members[walk.at + 1]

(* WalkBudget::exhausted before a member: the members or the time. *)
Exhausted ==
    /\ Visiting
    /\ walk' = Cut(walk) /\ stage' = "ending"
    /\ UNCHANGED <<device, batch, moved>>

\* Mutants.
VisitedStaysComplete(fault) ==
    [walk EXCEPT !.at = @ + 1, !.visited = @ + 1, !.listed = @ \cup {Member},
                 !.issues = IF fault \in Faults THEN @ \cup {<<fault, Member>>} ELSE @,
                 !.complete = IF fault = "refused" THEN "no" ELSE @]

Visited(fault) ==
    [walk EXCEPT !.at = @ + 1, !.visited = @ + 1, !.listed = @ \cup {Member},
                 !.issues = IF fault \in Faults THEN @ \cup {<<fault, Member>>} ELSE @,
                 !.complete = IF fault \in {"refused", "twin"} THEN "no" ELSE @]

(* FirmwareWalk::visit: a member listed before is not read again; one the  *)
(* device would not serve, or whose document claims the identity of an     *)
(* item already taken, is recorded; one without a usable Id projects only  *)
(* its issue; any other is an item.                                        *)
Visit ==
    /\ Visiting /\ walk.visited < Budget
    /\ LET claimed == device.doc[Member] IN
       \/ /\ Member \in walk.listed
          /\ walk' = Visited("repeat")
       \/ /\ Member \notin walk.listed
          /\ walk' = Visited("refused")
       \/ /\ Member \notin walk.listed /\ claimed = Nobody
          /\ walk' = Visited("nameless")
       \/ /\ Member \notin walk.listed
          /\ \E item \in walk.items : item[2] = claimed
          /\ walk' = Visited("twin")
       \/ /\ Member \notin walk.listed /\ claimed \in Subjects
          /\ \A item \in walk.items : item[2] # claimed
          /\ walk' = [Visited("none") EXCEPT !.items = @ \cup {<<Member, claimed>>}]
    /\ UNCHANGED <<device, stage, batch, moved>>

(* The page is read: the next one is asked for, or the listing ends.  A    *)
(* link that does not resolve or leads back is a stop, and so is an end    *)
(* short of the count the device gave.                                     *)
PageOver ==
    /\ stage = "visiting" /\ walk.at = Len(walk.members)
    /\ LET next == walk.link
           short == walk.count # <<>> /\ walk.count[1] > walk.visited
       IN  IF next = <<>>
           THEN /\ walk' = IF short THEN Cut(walk) ELSE walk
                /\ stage' = "ending"
           ELSE IF next[1] = 0 \/ next[1] \in walk.seen
           THEN /\ walk' = Cut(walk) /\ stage' = "ending"
           ELSE /\ walk' = [walk EXCEPT !.page = next[1], !.seen = @ \cup {next[1]}]
                /\ stage' = "asking"
    /\ UNCHANGED <<device, batch, moved>>

(* assemble_firmware: an inventory is shipped when the walk was complete,  *)
(* empty or not, or read an item at all; its states go with the items.     *)
Ships ==
    /\ stage = "ending" /\ stage' = "idle"
    /\ batch' = [claim |-> IF walk.complete = "yes" THEN "complete"
                           ELSE IF walk.items # {} THEN "partial" ELSE "none",
                 items |-> walk.items, issues |-> walk.issues, cut |-> walk.cut]
    /\ walk' = Fresh
    /\ UNCHANGED <<device, moved>>

(* The service has no inventory or no usable Id, a request does not reach  *)
(* the endpoint, or the deadline cancels the walk: nothing is shipped.     *)
Fails ==
    /\ stage # "idle" /\ stage' = "idle" /\ walk' = Fresh
    /\ UNCHANGED <<device, batch, moved>>
-----------------------------------------------------------------------------
Reading == ServiceArrives \/ PageArrives \/ Exhausted \/ Visit \/ PageOver

WalkNext == Changes \/ Open \/ Reading \/ Ships \/ Fails

WalkSpec == WalkInit /\ [][WalkNext]_walkVars
-----------------------------------------------------------------------------
(* The pages a reader of the listing comes to: those in every set of pages *)
(* that holds the first and, with each, the one it links to.               *)
Closed(S) ==
    /\ 1 \in S
    /\ \A p \in S : \A i \in DOMAIN device.pages[p].link :
          device.pages[p].link[i] \in DOMAIN device.pages => device.pages[p].link[i] \in S
Reached == {p \in DOMAIN device.pages : \A S \in SUBSET DOMAIN device.pages :
                                          Closed(S) => p \in S}

Told(id) == \E fault \in Faults : <<fault, id>> \in batch.issues
Named == {id \in Members : Told(id) \/ \E item \in batch.items : item[1] = id}

(* A batch says what its listing held (complete in FirmwareWalk::visit,    *)
(* walk_firmware and assemble_firmware; the doc comment of FirmwareKind).  *)
(* Claimed complete: every page led to a page or was the last, every       *)
(* member listed is an item under the identity it claims, or is named as   *)
(* one without any, and the count the collection gave is reached unless a  *)
(* member was listed twice.  Not cut: every member listed is an item or    *)
(* named in an issue.                                                      *)
InventoryIsTold ==
    stage = "idle" /\ moved = "no" /\ (batch.claim # "none" \/ batch.issues # {}) =>
    \A p \in Reached :
        LET page == device.pages[p] IN
        /\ batch.cut = "no" =>
             /\ page.link = <<>> \/ page.link[1] # 0
             /\ \A id \in Range(page.members) :
                   <<id, device.doc[id]>> \in batch.items \/ Told(id)
        /\ batch.claim = "complete" =>
             /\ batch.cut = "no"
             /\ \A id \in Range(page.members) :
                   <<id, device.doc[id]>> \in batch.items \/ <<"nameless", id>> \in batch.issues
             /\ p = 1 /\ page.count # <<>>
                  => \/ Cardinality(Named) >= page.count[1]
                     \/ \E id \in Members : <<"repeat", id>> \in batch.issues
=============================================================================
