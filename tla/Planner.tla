------------------------------ MODULE Planner -------------------------------
(***************************************************************************)
(* The match of needs with declarations: plan of orchestration/src/plan.rs.*)
(*                                                                         *)
(* A declaration is [provider, class, mode, cost]; a need is [endpoint,    *)
(* class, cadence], without cadence when it asks for a stream.  An empty   *)
(* name stands for any an Origin refuses, and the position of a need for   *)
(* its target, which only labels errors.                                   *)
(***************************************************************************)
EXTENDS Integers, Sequences, SequencesExt

CONSTANT MaxCadence     \* MAX_CADENCE, a year

Modes == {"polled", "streamed"}     \* the ones this build knows

OriginOf(d) == [provider |-> d.provider, class |-> d.class]

(* offer: why a declaration makes none. *)
OfferFault(d) ==
    CASE d.cost = 0                          -> "ZeroCost"
      [] d.provider = "" \/ d.class = ""     -> "InvalidDeclaration"
      [] OTHER                               -> "ok"

(* One turn of the loop over the declarations, which passes over the modes *)
(* this build does not know.                                               *)
DeclarationFault(declarations, i) ==
    LET d == declarations[i] IN
    IF d.mode \notin Modes THEN "ok"
    ELSE IF OfferFault(d) # "ok" THEN OfferFault(d)
    ELSE IF \E j \in 1..(i - 1) : declarations[j].mode = d.mode /\ declarations[j].class = d.class
         THEN "AmbiguousProviders"
         ELSE "ok"

(* What the map of a mode holds for a class. *)
Serving(declarations, class, mode) ==
    {d \in Range(declarations) : d.class = class /\ d.mode = mode}

PollFault(declarations, need) ==
    CASE Serving(declarations, need.class, "polled") = {}          -> "NoProviderFor"
      [] need.cadence = 0 \/ need.cadence > MaxCadence      -> "InvalidCadence"
      [] OTHER                                              -> "ok"

StreamFault(declarations, need) ==
    IF Serving(declarations, need.class, "streamed") = {} THEN "NoProviderFor" ELSE "ok"

(* The first fault of a row, or "ok". *)
FirstFault(faults) ==
    LET bad == {i \in DOMAIN faults : faults[i] # "ok"}
    IN  IF bad = {} THEN "ok" ELSE faults[Min(bad)]

(* A need with the identity and cost of the declaration that serves it. *)
Planned(declarations, mode, need) ==
    LET d == CHOOSE x \in Serving(declarations, need.class, mode) : TRUE
    IN  [endpoint |-> need.endpoint, origin |-> OriginOf(d), cost |-> d.cost]

(* plan: declarations, then polls, then streams; one fault refuses all. *)
Plan(polls, streams, declarations) ==
    LET fault == FirstFault([i \in DOMAIN declarations |-> DeclarationFault(declarations, i)]
                              \o [i \in DOMAIN polls |-> PollFault(declarations, polls[i])]
                              \o [i \in DOMAIN streams |-> StreamFault(declarations, streams[i])])
    IN  IF fault # "ok" THEN [fault |-> fault, polled |-> <<>>, streamed |-> <<>>]
        ELSE [fault |-> "ok",
              polled |-> [i \in DOMAIN polls |-> Planned(declarations, "polled", polls[i])] \o <<>>,
              streamed |-> [i \in DOMAIN streams |-> Planned(declarations, "streamed", streams[i])] \o <<>>]
=============================================================================
