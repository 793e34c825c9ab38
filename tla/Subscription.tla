---------------------------- MODULE Subscription -----------------------------
(***************************************************************************)
(* What one streamed acquisition promises its endpoint, whatever its       *)
(* halves do: at most one request or open stream at a time, and after the  *)
(* stop neither a new request nor a newly opened stream.                   *)
(***************************************************************************)
VARIABLES
    link,     \* "down", "requesting" or "up"
    stopped   \* "yes" once the stream was stopped

vars == <<link, stopped>>

Init == link = "down" /\ stopped = "no"

Request ==
    stopped = "no" /\ link = "down" /\ link' = "requesting" /\ UNCHANGED stopped
Open ==
    stopped = "no" /\ link = "requesting" /\ link' = "up" /\ UNCHANGED stopped
Fail == link = "requesting" /\ link' = "down" /\ UNCHANGED stopped
Lose == link = "up" /\ link' = "down" /\ UNCHANGED stopped
Stop == stopped' = "yes" /\ link' \in {link, "down"}

Next == Request \/ Open \/ Fail \/ Lose \/ Stop

Spec == Init /\ [][Next]_vars
=============================================================================
