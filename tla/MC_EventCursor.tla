--------------------------- MODULE MC_EventCursor ----------------------------
(* One event stream, a device that keeps two payloads. *)
EXTENDS EventCursor

SteadyDevices == {d \in DeviceTypes : d.restarts = "no"}
RefusingDevices == {d \in DeviceTypes : d.outside = "refuses" /\ d.restarts = "yes"}
PassDevices == SteadyDevices \cup RefusingDevices
RestartingDevices == {[ids |-> "sent", outside |-> "replays", restarts |-> "yes"]}
=============================================================================
