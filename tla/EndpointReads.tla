---------------------------- MODULE EndpointReads ----------------------------
(***************************************************************************)
(* Reads of one Redfish endpoint, one of them a firmware walk: modules     *)
(* PlatformCache and FirmwareWalk composed as perform and Link compose     *)
(* them (sources/redfish/src/provider.rs, transport.rs).                   *)
(*                                                                         *)
(* The walk goes through the layer it classified when it began.  A fault   *)
(* of any of its requests ends the walk and may empty the slot; a fault of *)
(* another read empties the slot under it, and the walk goes on.           *)
(***************************************************************************)
EXTENDS PlatformCache, FirmwareWalk

CONSTANT Walker     \* the read that walks

ASSUME WalkerAssumption == Walker \in Readers

allVars == <<vars, walkVars>>

EndpointInit == Init /\ WalkInit

(* Another firmware may list other members; an update may change them      *)
(* while the endpoint is up.  Bound: once in a walk, or between two.       *)
ChangesOnce == moved = "no" /\ Changes

Endpoint ==
    \/ GoesDown /\ UNCHANGED walkVars
    \/ ComesBack /\ UNCHANGED walkVars
    \/ ComesBack /\ ChangesOnce
    \/ endpoint = "up" /\ ChangesOnce /\ UNCHANGED vars

Others ==
    /\ \E r \in Readers :
         \/ AskRoot(r) \/ Answers(r)
         \/ r # Walker /\ (Compat(r) \/ Classified(r) \/ Done(r) \/ Fault(r))
    /\ UNCHANGED walkVars

(* perform: the platform first, then the walk through its layer. *)
Begins == (Compat(Walker) \/ Classified(Walker)) /\ Open

(* An answer leaves an endpoint that is up; what the walk decides between  *)
(* two requests it decides by itself.                                      *)
Walks ==
    /\ \/ endpoint = "up" /\ (ServiceArrives \/ PageArrives \/ Visit)
       \/ Exhausted \/ PageOver
    /\ UNCHANGED vars

(* The walk ships; it fails at the device's answer or its deadline; or a   *)
(* fault indicts the endpoint.                                             *)
Ends == Done(Walker) /\ (Ships \/ Fails)
Indicts == Fault(Walker) /\ Fails

(* The same before the platform is known: there is no walk yet. *)
NeverBegins ==
    /\ stage = "idle"
    /\ Done(Walker) \/ Fault(Walker)
    /\ UNCHANGED walkVars

EndpointNext ==
    \/ Endpoint \/ Others
    \/ Begins \/ Walks \/ Ends \/ Indicts \/ NeverBegins

EndpointSpec == EndpointInit /\ [][EndpointNext]_allVars
=============================================================================
