------------------------------ MODULE Reconnect ------------------------------
(***************************************************************************)
(* When a stream that ended is opened again: ReconnectPolicy::delay of     *)
(* orchestration/src/stream.rs, and the checks endpoint_subtree makes of a *)
(* policy before it seats a stream (recipe.rs).                            *)
(*                                                                         *)
(* Durations are whole ticks.  An endpoint's FNV-1a hash is a number       *)
(* (place): only its remainder reaches the delay.                          *)
(***************************************************************************)
EXTENDS Integers

(* The most doublings the code applies: a u32 is shifted at most this far. *)
CONSTANT MaxDoublings

Least(a, b) == IF a < b THEN a ELSE b

(* How often first_retry is doubled after `unproductive` silent instances. *)
Doublings(unproductive) ==
    Least(IF unproductive > 0 THEN unproductive - 1 ELSE 0, MaxDoublings)

(* 1 shifted n times. *)
Shifted[n \in Nat] == IF n = 0 THEN 1 ELSE 2 * Shifted[n - 1]

(* The ladder before the stagger: doubling, capped at max_retry. *)
Base(policy, unproductive) ==
    Least(policy.first * Shifted[Doublings(unproductive)], policy.max)

(* place: an endpoint's fixed share, in percent, of its delay. *)
Share(policy, place) == place % (policy.stagger + 1)

\* Mutant: the cap over the stagger.
DelayCappedLast(policy, unproductive, place) ==
    LET base == Base(policy, unproductive)
    IN  Least(base + (base * Share(policy, place)) \div 100, policy.max)

(* The delay before the next instance after an end that may be retried.    *)
(* The stagger rides above the cap.                                        *)
RetryDelay(policy, unproductive, place) ==
    LET base == Base(policy, unproductive)
    IN  base + (base * Share(policy, place)) \div 100

(* validate_reconnect: what endpoint_subtree accepts; year is the longest  *)
(* delay any policy may name.                                              *)
ValidReconnect(policy, year) ==
    /\ policy.first > 0
    /\ policy.max >= policy.first
    /\ policy.max <= year
    /\ policy.stagger <= 100
=============================================================================
