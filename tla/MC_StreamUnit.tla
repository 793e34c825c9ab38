----------------------------- MODULE MC_StreamUnit ---------------------------
(***************************************************************************)
(* One stream on a short ladder: waits of 1, 1, 3 and 4 ticks, the counter *)
(* saturating after three silent instances.  The delays are the code's     *)
(* own, for an endpoint whose share of the stagger is a half.              *)
(***************************************************************************)
EXTENDS StreamUnit

Ladder == INSTANCE Reconnect WITH MaxDoublings <- 31

MCPolicy == [first |-> 1, max |-> 3, stagger |-> 100]
MCU32Max == 3
MCDelay == [row \in 0..MCU32Max |-> Ladder!RetryDelay(MCPolicy, row, 50)]
=============================================================================
