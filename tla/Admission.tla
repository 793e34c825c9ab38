----------------------------- MODULE Admission ------------------------------
(***************************************************************************)
(* What endpoint_subtree of orchestration/src/recipe.rs lets into one      *)
(* endpoint's admission stack.  A bound unit is [planned, endpoint,        *)
(* origin], the last two its own; a stream's has a reconnect policy too.   *)
(* Fractions are in percent; NaN fails the comparison as zero does.        *)
(* The stack itself, the dispatcher's, is external.                        *)
(***************************************************************************)
EXTENDS Planner, Reconnect

CONSTANT Year    \* MAX_POLICY_INTERVAL

(* validate. *)
Validate(policy) ==
    CASE ~(policy.threshold > 0 /\ policy.threshold <= 100)        -> "InvalidPolicy"
      [] policy.window = 0 \/ policy.samples = 0                   -> "InvalidPolicy"
      [] policy.samples > policy.window                            -> "InvalidPolicy"
      [] policy.cool_down = 0 \/ policy.cool_down > Year           -> "InvalidPolicy"
      [] policy.per # 0 /\ (policy.burst = 0 \/ policy.refill = 0) -> "InvalidPolicy"
      [] policy.per > Year                                         -> "InvalidPolicy"
      [] OTHER                                                     -> "ok"

\* Mutant: identities are compared by endpoint only.
UnitFault_endpoint_only(id, unit) ==
    CASE unit.planned.endpoint.id # id          -> "MixedEndpoints"
      [] unit.planned.endpoint # unit.endpoint  -> "EndpointMismatch"
      [] OTHER                                  -> "ok"

(* The three checks of a unit against the first one's id and its own plan. *)
UnitFault(id, unit) ==
    CASE unit.planned.endpoint.id # id          -> "MixedEndpoints"
      [] unit.planned.endpoint # unit.endpoint  -> "EndpointMismatch"
      [] unit.planned.origin # unit.origin      -> "OriginMismatch"
      [] OTHER                                  -> "ok"

SeatStream(id, stream) ==
    CASE UnitFault(id, stream) # "ok"             -> UnitFault(id, stream)
      [] ~ValidReconnect(stream.reconnect, Year)  -> "InvalidPolicy"
      [] OTHER                                    -> "ok"

(* endpoint_subtree: the first unit, or else the first stream, names the   *)
(* endpoint, context and all.                                              *)
Subtree(policy, units, streams) ==
    LET first == (units \o streams)[1].planned.endpoint
        fault == FirstFault(<<Validate(policy)>>
                              \o [i \in DOMAIN units |-> UnitFault(first.id, units[i])]
                              \o [i \in DOMAIN streams |-> SeatStream(first.id, streams[i])])
    IN  CASE units \o streams = <<>> -> <<"NoUnits">>
          [] fault # "ok"            -> <<fault>>
          [] OTHER                   -> <<"ok", [endpoint |-> first, polled |-> units, streamed |-> streams]>>
=============================================================================
