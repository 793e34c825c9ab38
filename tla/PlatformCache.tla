---------------------------- MODULE PlatformCache ----------------------------
(***************************************************************************)
(* The classified platform of one Redfish endpoint, shared by all its      *)
(* reads: sources/redfish/src/transport.rs and failure.rs.                 *)
(*                                                                         *)
(* A read takes the platform from the slot, or reads the service root and  *)
(* classifies it; a fault that indicts the endpoint empties the slot.  No  *)
(* lock is held across a request, so an answer may be on its way while     *)
(* other reads fail.  The endpoint goes away and comes back, perhaps on    *)
(* other firmware.  A platform is the firmware it was classified from.     *)
(***************************************************************************)
EXTENDS Naturals

CONSTANTS
    Readers,    \* reads and event streams of the endpoint
    Firmware,   \* what the endpoint may run
    None        \* an empty slot

ASSUME PlatformAssumption == None \notin Firmware

VARIABLES
    endpoint,   \* "up" or "down"
    firmware,   \* what it runs
    slot,       \* Platform
    pc,         \* where each read stands
    platform,   \* the root on its way to a read, then the layer it reads through
    warned,     \* history: a read saw the last outage
    overtaken   \* history: it saw it while a root was on its way to another

world == <<endpoint, firmware>>
vars == <<world, slot, pc, platform, warned, overtaken>>

(* asking: the root's GET is out; answered: the root is on its way back;   *)
(* reading: the layer is built and documents, or frames, are read.         *)
PCs == {"idle", "asking", "answered", "reading"}

TypeOK ==
    /\ endpoint \in {"up", "down"} /\ firmware \in Firmware
    /\ slot \in Firmware \cup {None}
    /\ pc \in [Readers -> PCs]
    /\ platform \in [Readers -> Firmware \cup {None}]
    /\ \A r \in Readers : pc[r] \in {"answered", "reading"} <=> platform[r] # None
    /\ warned \in {"no", "yes"} /\ overtaken \in {"no", "yes"}

(* RedfishService::new. *)
Init ==
    /\ endpoint = "up" /\ firmware \in Firmware
    /\ slot = None
    /\ pc = [r \in Readers |-> "idle"]
    /\ platform = [r \in Readers |-> None]
    /\ warned = "no" /\ overtaken = "no"
-----------------------------------------------------------------------------
GoesDown ==
    /\ endpoint = "up" /\ endpoint' = "down"
    /\ warned' = "no" /\ overtaken' = "no"
    /\ UNCHANGED <<firmware, slot, pc, platform>>

ComesBack ==
    /\ endpoint = "down" /\ endpoint' = "up"
    /\ firmware' \in Firmware
    /\ UNCHANGED <<slot, pc, platform, warned, overtaken>>

(* The root leaves the endpoint. *)
Answers(r) ==
    /\ endpoint = "up" /\ pc[r] = "asking"
    /\ pc' = [pc EXCEPT ![r] = "answered"]
    /\ platform' = [platform EXCEPT ![r] = firmware]
    /\ UNCHANGED <<world, slot, warned, overtaken>>
-----------------------------------------------------------------------------
(* compat with a classified platform: no request. *)
Compat(r) ==
    /\ pc[r] = "idle" /\ slot # None
    /\ pc' = [pc EXCEPT ![r] = "reading"]
    /\ platform' = [platform EXCEPT ![r] = slot]
    /\ UNCHANGED <<world, slot, warned, overtaken>>

(* compat without one, or root, which never looks: the root is asked for. *)
AskRoot(r) ==
    /\ pc[r] = "idle"
    /\ pc' = [pc EXCEPT ![r] = "asking"]
    /\ UNCHANGED <<world, slot, platform, warned, overtaken>>

(* classified: the platform the root names is kept for the reads after. *)
Classified(r) ==
    /\ pc[r] = "answered"
    /\ slot' = platform[r]
    /\ pc' = [pc EXCEPT ![r] = "reading"]
    /\ UNCHANGED <<world, platform, warned, overtaken>>

Leaves(r) ==
    /\ pc' = [pc EXCEPT ![r] = "idle"]
    /\ platform' = [platform EXCEPT ![r] = None]

(* The read is over: served, dropped, or failed for a reason that does not *)
(* indict the endpoint (its status, its document, the client).             *)
Done(r) ==
    /\ pc[r] # "idle"
    /\ Leaves(r)
    /\ UNCHANGED <<world, slot, warned, overtaken>>

\* Mutants.
FaultKeeps(r) ==
    /\ pc[r] # "idle"
    /\ Leaves(r) /\ UNCHANGED slot
    /\ warned' = IF endpoint = "down" THEN "yes" ELSE warned
    /\ overtaken' = IF \E q \in Readers \ {r} : pc[q] = "answered" THEN "yes" ELSE overtaken
    /\ UNCHANGED world

(* Platform::failed: no connection, no answer in time, credentials         *)
(* refused.  It can strike an endpoint that is up, and a root or document  *)
(* on its way.                                                             *)
Fault(r) ==
    /\ pc[r] # "idle"
    /\ Leaves(r) /\ slot' = None
    /\ warned' = IF endpoint = "down" THEN "yes" ELSE warned
    /\ overtaken' = IF \E q \in Readers \ {r} : pc[q] = "answered" THEN "yes" ELSE overtaken
    /\ UNCHANGED world
-----------------------------------------------------------------------------
Next ==
    \/ GoesDown \/ ComesBack
    \/ \E r \in Readers :
         \/ Answers(r)
         \/ Compat(r) \/ AskRoot(r) \/ Classified(r) \/ Done(r) \/ Fault(r)

Spec == Init /\ [][Next]_vars
-----------------------------------------------------------------------------
(* An endpoint that came back is not read as what it was before, once a    *)
(* read saw it away, unless a root was already on its way to another read  *)
(* when the slot was emptied (Platform::failed, classified).  That root    *)
(* may fill the slot with what the endpoint was, until the next fault or   *)
(* the next stream.                                                        *)
FreshUnlessOvertaken ==
    warned = "yes" /\ overtaken = "no" /\ endpoint = "up" => slot \in {None, firmware}
=============================================================================
