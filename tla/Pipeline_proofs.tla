--------------------------- MODULE Pipeline_proofs ---------------------------
(***************************************************************************)
(* Whatever is needed, declared and wired: the reports of one endpoint are *)
(* its own, keep what the source answered, and its streams wait as their   *)
(* policies say, for every value of the constants of module Pipeline.      *)
(*                                                                         *)
(* IInv says where each part of a report comes from: a seated unit is the  *)
(* planned one in its place (SeatedAsPlanned), an attempt and an open      *)
(* stream are a seated unit's (Attempts), and the last report is what      *)
(* Assemble makes of an answer for one (Reported).                         *)
(***************************************************************************)
EXTENDS Pipeline, SequenceTheorems, FiniteSetTheorems, WellFoundedInduction, TLAPS

(* A finite list. *)
List(s) == s \in Seq(Range(s))

(* A set of numbers has a least member. *)
LEMMA MinOf ==
    ASSUME NEW S \in SUBSET Nat, S # {}
    PROVE  Min(S) \in S /\ \A y \in S : Min(S) <= y
<1>1. PICK x \in S : \A y \in S : ~(<<y, x>> \in OpToRel(<, Nat))
  BY WFMin, NatLessThanWellFounded
<1>2. \A y \in S : x <= y
  <2> TAKE y \in S
  <2>1. x \in Nat /\ y \in Nat
    OBVIOUS
  <2>2. CASE y < x
    <3>1. <<y, x>> \in OpToRel(<, Nat)
      BY <2>1, <2>2 DEF OpToRel
    <3> QED
      BY <3>1, <1>1
  <2> QED
    BY <2>1, <2>2
<1> QED
  BY <1>1, <1>2 DEF Min

(* What is told of a function on 1..n holds of it as a list. *)
LEMMA IsList ==
    ASSUME NEW n \in Nat, NEW f, f \in [1..n -> Range(f)]
    PROVE  List(f) /\ Len(f) = n /\ DOMAIN f = 1..n
<1>1. f \in Seq(Range(f))
  BY SeqDef
<1> QED
  BY <1>1 DEF List

(* A list made element by element, with nothing appended. *)
LEMMA Mapped ==
    ASSUME NEW n \in Nat, NEW f, f = [i \in 1..n |-> f[i]]
    PROVE  List(f) /\ Len(f) = n /\ f \o <<>> = f
<1>1. f \in [1..n -> Range(f)]
  BY DEF Range
<1>2. List(f) /\ Len(f) = n
  BY <1>1, IsList
<1> QED
  BY <1>2 DEF List

(* No fault in a row of three parts: none in any of them. *)
LEMMA NoFault ==
    ASSUME NEW a, NEW b, NEW c, List(a), List(b), List(c),
           FirstFault(a \o b \o c) = "ok"
    PROVE  /\ \A i \in DOMAIN a : a[i] = "ok"
           /\ \A i \in DOMAIN b : b[i] = "ok"
           /\ \A i \in DOMAIN c : c[i] = "ok"
<1> DEFINE T == Range(a) \cup Range(b) \cup Range(c)
           row == a \o b \o c
           bad == {i \in DOMAIN row : row[i] # "ok"}
<1>1. a \in Seq(T) /\ b \in Seq(T) /\ c \in Seq(T)
  BY DEF List
<1> HIDE DEF T
<1>2. row \in Seq(T) /\ Len(row) = Len(a) + Len(b) + Len(c)
  BY <1>1
<1>3. bad = {}
  <2> SUFFICES ASSUME bad # {} PROVE FALSE
    OBVIOUS
  <2>1. bad \in SUBSET Nat
    BY <1>2
  <2>2. Min(bad) \in bad
    BY <2>1, MinOf
  <2>3. FirstFault(row) = row[Min(bad)]
    BY DEF FirstFault
  <2> QED
    BY <2>2, <2>3
<1>4. \A i \in DOMAIN row : row[i] = "ok"
  BY <1>3
<1>5. ASSUME NEW i \in DOMAIN a PROVE a[i] = "ok"
  <2>1. i \in DOMAIN row /\ row[i] = a[i]
    BY <1>1
  <2> QED
    BY <2>1, <1>4
<1>6. ASSUME NEW i \in DOMAIN b PROVE b[i] = "ok"
  <2>1. (Len(a) + i) \in DOMAIN row /\ row[Len(a) + i] = b[i]
    BY <1>1
  <2> QED
    BY <2>1, <1>4
<1>7. ASSUME NEW i \in DOMAIN c PROVE c[i] = "ok"
  <2>1. (Len(a) + Len(b) + i) \in DOMAIN row /\ row[Len(a) + Len(b) + i] = c[i]
    BY <1>1
  <2> QED
    BY <2>1, <1>4
<1> QED
  BY <1>5, <1>6, <1>7
-----------------------------------------------------------------------------
(* What is asked for: three lists. *)
Asking(a) ==
    \E k, l, m \in Nat :
        /\ a.polls \in [1..k -> PollNeeds] /\ a.streams \in [1..l -> StreamNeeds]
        /\ a.declarations \in [1..m -> Declarations]

(* The declaration that serves a class in a mode, and the only one. *)
Serves(declarations, k, class, mode) ==
    /\ k \in DOMAIN declarations
    /\ declarations[k].mode = mode /\ declarations[k].class = class
    /\ \A j \in DOMAIN declarations :
         declarations[j].mode = mode /\ declarations[j].class = class => j = k

(* Declarations without a fault: none beside the first of its mode and     *)
(* class.                                                                  *)
LEMMA OneServes ==
    ASSUME NEW n \in Nat, NEW declarations, DOMAIN declarations = 1..n,
           \A i \in 1..n : DeclarationFault(declarations, i) = "ok",
           NEW class, NEW mode \in Modes, Serving(declarations, class, mode) # {}
    PROVE  \E k \in 1..n : /\ Serves(declarations, k, class, mode)
                           /\ (CHOOSE d \in Serving(declarations, class, mode) : TRUE) = declarations[k]
<1>1. PICK k \in 1..n : declarations[k].class = class /\ declarations[k].mode = mode
  BY DEF Serving, Range
<1>2. ASSUME NEW i \in 1..n, NEW j \in 1..n, j < i,
             declarations[i].mode = mode, declarations[i].class = class,
             declarations[j].mode = mode, declarations[j].class = class
      PROVE  FALSE
  <2>1. j \in 1..(i - 1)
    BY <1>2
  <2>2. \E x \in 1..(i - 1) : /\ declarations[x].mode = declarations[i].mode
                              /\ declarations[x].class = declarations[i].class
    BY <1>2, <2>1
  <2>3. DeclarationFault(declarations, i) = "ok"
    OBVIOUS
  <2> QED
    BY <1>2, <2>2, <2>3 DEF DeclarationFault
<1>3. ASSUME NEW j \in 1..n, declarations[j].mode = mode, declarations[j].class = class
      PROVE  j = k
  <2>1. ~(j < k) /\ ~(k < j)
    BY <1>1, <1>2, <1>3
  <2> QED
    BY <2>1
<1>4. Serves(declarations, k, class, mode)
  BY <1>1, <1>3 DEF Serves
<1>5. Serving(declarations, class, mode) = {declarations[k]}
  BY <1>1, <1>3 DEF Serving, Range
<1> QED
  BY <1>4, <1>5

(* A plan without a fault: each need has its one declaration. *)
Matched(planned, needs, declarations, mode) ==
    /\ List(planned) /\ DOMAIN planned = DOMAIN needs
    /\ \A i \in DOMAIN needs :
         \E k \in DOMAIN declarations :
            /\ Serves(declarations, k, needs[i].class, mode)
            /\ planned[i].endpoint = needs[i].endpoint
            /\ planned[i].origin = OriginOf(declarations[k])

Planful(answer, a) ==
    /\ Matched(answer.polled, a.polls, a.declarations, "polled")
    /\ Matched(answer.streamed, a.streams, a.declarations, "streamed")

LEMMA MatchedIs ==
    ASSUME NEW n \in Nat, NEW needs, DOMAIN needs = 1..n,
           NEW m \in Nat, NEW declarations, DOMAIN declarations = 1..m,
           \A i \in 1..m : DeclarationFault(declarations, i) = "ok",
           NEW mode \in Modes,
           \A i \in 1..n : Serving(declarations, needs[i].class, mode) # {}
    PROVE  Matched([i \in DOMAIN needs |-> Planned(declarations, mode, needs[i])] \o <<>>,
                   needs, declarations, mode)
<1> DEFINE f == [i \in 1..n |-> Planned(declarations, mode, needs[i])]
<1>1. f = [i \in 1..n |-> f[i]]
  OBVIOUS
<1>2. \A i \in 1..n : f[i] = Planned(declarations, mode, needs[i])
  OBVIOUS
<1>3. [i \in DOMAIN needs |-> Planned(declarations, mode, needs[i])] = f
  OBVIOUS
<1> HIDE DEF f
<1>4. List(f) /\ Len(f) = n /\ f \o <<>> = f
  BY <1>1, Mapped
<1>5. DOMAIN f = 1..n
  BY <1>1
<1>6. ASSUME NEW i \in 1..n
      PROVE  \E k \in DOMAIN declarations :
                /\ Serves(declarations, k, needs[i].class, mode)
                /\ f[i].endpoint = needs[i].endpoint
                /\ f[i].origin = OriginOf(declarations[k])
  <2>1. PICK k \in 1..m :
             /\ Serves(declarations, k, needs[i].class, mode)
             /\ (CHOOSE d \in Serving(declarations, needs[i].class, mode) : TRUE) = declarations[k]
    BY OneServes
  <2>2. Planned(declarations, mode, needs[i]) =
            [endpoint |-> needs[i].endpoint, origin |-> OriginOf(declarations[k]),
             cost |-> declarations[k].cost]
    BY <2>1, Zenon DEF Planned
  <2>3. f[i].endpoint = needs[i].endpoint /\ f[i].origin = OriginOf(declarations[k])
    BY <1>2, <2>2
  <2> QED
    BY <2>1, <2>3
<1> QED
  BY <1>3, <1>4, <1>5, <1>6 DEF Matched

(* Plan refuses what it cannot match. *)
LEMMA PlanIs ==
    ASSUME NEW a, Asking(a), Plan(a.polls, a.streams, a.declarations).fault = "ok"
    PROVE  Planful(Plan(a.polls, a.streams, a.declarations), a)
<1>1. PICK k, l, m \in Nat : /\ DOMAIN a.polls = 1..k /\ DOMAIN a.streams = 1..l
                             /\ DOMAIN a.declarations = 1..m
  BY DEF Asking
<1> DEFINE ds == a.declarations
           d == [i \in 1..m |-> DeclarationFault(ds, i)]
           p == [i \in 1..k |-> PollFault(ds, a.polls[i])]
           s == [i \in 1..l |-> StreamFault(ds, a.streams[i])]
<1>2. /\ d = [i \in 1..m |-> d[i]] /\ p = [i \in 1..k |-> p[i]] /\ s = [i \in 1..l |-> s[i]]
      /\ DOMAIN d = 1..m /\ DOMAIN p = 1..k /\ DOMAIN s = 1..l
  OBVIOUS
<1>3. /\ \A i \in 1..m : d[i] = DeclarationFault(ds, i)
      /\ \A i \in 1..k : p[i] = PollFault(ds, a.polls[i])
      /\ \A i \in 1..l : s[i] = StreamFault(ds, a.streams[i])
  OBVIOUS
<1>4. FirstFault(d \o p \o s) = "ok" /\
      Plan(a.polls, a.streams, ds) =
          [fault |-> "ok",
           polled |-> [i \in DOMAIN a.polls |-> Planned(ds, "polled", a.polls[i])] \o <<>>,
           streamed |-> [i \in DOMAIN a.streams |-> Planned(ds, "streamed", a.streams[i])] \o <<>>]
  BY <1>1 DEF Plan
<1> HIDE DEF ds, d, p, s
<1>5. List(d) /\ List(p) /\ List(s)
  BY <1>2, Mapped
<1>6. /\ \A i \in 1..m : d[i] = "ok"
      /\ \A i \in 1..k : p[i] = "ok"
      /\ \A i \in 1..l : s[i] = "ok"
  BY <1>2, <1>4, <1>5, NoFault
<1>7. \A i \in 1..m : DeclarationFault(ds, i) = "ok"
  BY <1>3, <1>6
<1>8. \A i \in 1..k : Serving(ds, a.polls[i].class, "polled") # {}
  BY <1>3, <1>6 DEF PollFault
<1>9. \A i \in 1..l : Serving(ds, a.streams[i].class, "streamed") # {}
  BY <1>3, <1>6 DEF StreamFault
<1>10. DOMAIN ds = 1..m
  BY <1>1 DEF ds
<1>11. Matched([i \in DOMAIN a.polls |-> Planned(ds, "polled", a.polls[i])] \o <<>>,
               a.polls, ds, "polled")
  BY <1>1, <1>7, <1>8, <1>10, MatchedIs DEF Modes
<1>12. Matched([i \in DOMAIN a.streams |-> Planned(ds, "streamed", a.streams[i])] \o <<>>,
               a.streams, ds, "streamed")
  BY <1>1, <1>7, <1>9, <1>10, MatchedIs DEF Modes
<1> QED
  BY <1>4, <1>11, <1>12 DEF Planful, ds
-----------------------------------------------------------------------------
(* A unit that stands for what was planned in its place. *)
AsPlanned(unit, planned, id) ==
    /\ unit.endpoint = planned.endpoint /\ unit.origin = planned.origin
    /\ unit.endpoint.id = id

SeatedAsPlanned(seat) ==
    /\ DOMAIN seat.polled = DOMAIN plan.polled /\ DOMAIN seat.streamed = DOMAIN plan.streamed
    /\ \A i \in DOMAIN seat.polled : AsPlanned(seat.polled[i], plan.polled[i], seat.endpoint.id)
    /\ \A i \in DOMAIN seat.streamed :
         /\ AsPlanned(seat.streamed[i], plan.streamed[i], seat.endpoint.id)
         /\ seat.streamed[i].reconnect \in Reconnects
         /\ ValidReconnect(seat.streamed[i].reconnect, Year)

Asked ==
    asked \in [polls : UpTo(PollNeeds, MaxPolls), streams : UpTo(StreamNeeds, MaxStreams),
               declarations : UpTo(Declarations, MaxDeclarations)]

Placed ==
    /\ plan.fault = "ok" => Planful(plan, asked)
    /\ seated # <<>> => /\ plan.fault = "ok" /\ seated = <<seated[1]>>
                        /\ SeatedAsPlanned(seated[1])

Attempts ==
    /\ \A r \in running : r.mode \in Modes /\ r.i \in DOMAIN Seated(r.mode) /\ r.at \in Walls
    /\ open \subseteq DOMAIN Seated("streamed")

Answers == Outcomes \cup FailedOutcomes
ReportOf(mode, i, at, timed, outcome) ==
    LET answer == Assemble(Seated(mode)[i], at, timed, outcome)
    IN  [mode |-> mode, i |-> i, at |-> at, fed |-> outcome, report |-> answer[2],
         sample |-> IF timed THEN answer[1] ELSE "none"]
Reported ==
    last = <<>> \/ \E mode \in Modes : \E i \in DOMAIN Seated(mode) :
                   \E at \in Walls, timed \in BOOLEAN, outcome \in Answers :
                       last = <<ReportOf(mode, i, at, timed, outcome)>>

Rows == silent \in [1..MaxStreams -> 0..MaxSilent]

IInv == Asked /\ Placed /\ Attempts /\ Reported /\ Rows

(* What is asked for, as lists. *)
LEMMA AskedIs ==
    ASSUME Asked
    PROVE  Asking(asked) /\ DOMAIN asked.streams \subseteq 1..MaxStreams
<1>1. PICK k \in 0..MaxPolls, l \in 0..MaxStreams, m \in 0..MaxDeclarations :
         /\ asked.polls \in [1..k -> PollNeeds] /\ asked.streams \in [1..l -> StreamNeeds]
         /\ asked.declarations \in [1..m -> Declarations]
  BY PipelineAssumption DEF Asked, UpTo
<1>2. k \in Nat /\ l \in Nat /\ m \in Nat /\ 1..l \subseteq 1..MaxStreams
  BY PipelineAssumption
<1> QED
  BY <1>1, <1>2 DEF Asking

(* Nothing is seated, nothing runs. *)
LEMMA Idle ==
    ASSUME IInv, seated = <<>>
    PROVE  running = {} /\ open = {} /\ last = <<>>
<1>1. \A mode \in Modes : DOMAIN Seated(mode) = {}
  BY DEF Seated
<1> QED
  BY <1>1 DEF IInv, Attempts, Reported, Modes

(* The streams that may be seated have a row each. *)
LEMMA Counted ==
    ASSUME IInv, NEW i \in DOMAIN Seated("streamed")
    PROVE  i \in DOMAIN silent
<1>1. seated # <<>>
  BY DEF Seated
<1>2. Planful(plan, asked) /\ DOMAIN seated[1].streamed = DOMAIN plan.streamed
  BY <1>1 DEF IInv, Placed, SeatedAsPlanned
<1>3. i \in DOMAIN asked.streams
  BY <1>1, <1>2 DEF Planful, Matched, Seated
<1> QED
  BY <1>3, AskedIs DEF IInv, Rows

LEMMA Initially == Init => IInv
<1> SUFFICES ASSUME Init PROVE IInv
  OBVIOUS
<1>1. Rows
  BY PipelineAssumption DEF Init, Rows
<1>2. Placed /\ Attempts /\ Reported /\ Asked
  BY DEF Init, Placed, Attempts, Reported, Asked, NoPlan
<1> QED
  BY <1>1, <1>2 DEF IInv

(* What Subtree seats. *)
LEMMA SubtreeIs ==
    ASSUME NEW policy, NEW units, NEW streams, List(units), List(streams),
           Subtree(policy, units, streams)[1] = "ok"
    PROVE  \E id, seat :
              /\ Subtree(policy, units, streams)[2] = seat
              /\ seat.polled = units /\ seat.streamed = streams /\ seat.endpoint.id = id
              /\ \A i \in DOMAIN units : UnitFault(id, units[i]) = "ok"
              /\ \A i \in DOMAIN streams : SeatStream(id, streams[i]) = "ok"
<1> DEFINE first == (units \o streams)[1].planned.endpoint
           v == <<Validate(policy)>>
           u == [i \in DOMAIN units |-> UnitFault(first.id, units[i])]
           w == [i \in DOMAIN streams |-> SeatStream(first.id, streams[i])]
           fault == FirstFault(v \o u \o w)
           seat == [endpoint |-> first, polled |-> units, streamed |-> streams]
<1>1. Subtree(policy, units, streams) =
          CASE units \o streams = <<>> -> <<"NoUnits">>
            [] fault # "ok"            -> <<fault>>
            [] OTHER                   -> <<"ok", seat>>
  BY DEF Subtree
<1>2. /\ \A i \in DOMAIN units : u[i] = UnitFault(first.id, units[i])
      /\ \A i \in DOMAIN streams : w[i] = SeatStream(first.id, streams[i])
  OBVIOUS
<1>3. /\ DOMAIN units = 1..Len(units) /\ DOMAIN streams = 1..Len(streams)
      /\ Len(units) \in Nat /\ Len(streams) \in Nat
  BY DEF List
<1>4. u = [i \in 1..Len(units) |-> u[i]] /\ w = [i \in 1..Len(streams) |-> w[i]]
  BY <1>3
<1>5. DOMAIN u = DOMAIN units /\ DOMAIN w = DOMAIN streams
  OBVIOUS
<1>6. seat.polled = units /\ seat.streamed = streams /\ seat.endpoint.id = first.id
  OBVIOUS
<1> HIDE DEF u, w, first, seat
<1>7. fault = "ok" /\ Subtree(policy, units, streams) = <<"ok", seat>>
  BY <1>1
<1>8. List(v)
  BY DEF List, Range
<1>9. List(u) /\ List(w)
  BY <1>3, <1>4, Mapped
<1> HIDE DEF v
<1>10. (\A i \in DOMAIN u : u[i] = "ok") /\ (\A i \in DOMAIN w : w[i] = "ok")
  BY <1>7, <1>8, <1>9, NoFault
<1>11. Subtree(policy, units, streams)[2] = seat
  BY <1>7
<1> QED
  BY <1>2, <1>5, <1>6, <1>10, <1>11

(* Planning and wiring. *)
LEMMA MakePlanStep == ASSUME IInv, MakePlan PROVE IInv'
<1> USE DEF MakePlan
<1>1. seated = <<>>
  BY DEF IInv, Placed, NoPlan
<1>2. Planful(plan', asked) \/ plan'.fault # "ok"
  BY AskedIs, PlanIs DEF IInv
<1>3. Placed'
  BY <1>1, <1>2 DEF Placed
<1>4. Asked' /\ Rows'
  BY DEF IInv, Asked, Rows
<1>5. Attempts' /\ Reported'
  BY <1>1, Idle DEF Attempts, Reported, Seated
<1> QED
  BY <1>3, <1>4, <1>5 DEF IInv

LEMMA AddStep == ASSUME IInv, Add PROVE IInv'
<1>1. PICK policy \in Policies,
           units \in [DOMAIN plan.polled -> UNION {Bindings(x) : x \in Range(plan.polled)}],
           streams \in [DOMAIN plan.streamed -> UNION {Bindings(x) : x \in Range(plan.streamed)}],
           reconnect \in Reconnects :
         LET bound == [i \in DOMAIN streams |-> WithReconnect(streams[i], reconnect)] \o <<>>
             answer == Subtree(policy, units \o <<>>, bound)
         IN  /\ \A i \in DOMAIN units : units[i].planned = plan.polled[i]
             /\ \A i \in DOMAIN streams : streams[i].planned = plan.streamed[i]
             /\ seated' = IF answer[1] = "ok" THEN <<answer[2]>> ELSE <<>>
  BY DEF Add
<1> DEFINE bound == [i \in DOMAIN streams |-> WithReconnect(streams[i], reconnect)]
           answer == Subtree(policy, units, bound)
<1>2. Planful(plan, asked) /\ plan.fault = "ok" /\ seated = <<>>
  BY DEF IInv, Placed, Add
<1>3. /\ DOMAIN plan.polled = 1..Len(plan.polled) /\ Len(plan.polled) \in Nat
      /\ DOMAIN plan.streamed = 1..Len(plan.streamed) /\ Len(plan.streamed) \in Nat
  BY <1>2 DEF Planful, Matched, List
<1>4. units = [i \in 1..Len(plan.polled) |-> units[i]]
  BY <1>3
<1>5. bound = [i \in 1..Len(plan.streamed) |-> bound[i]]
  BY <1>3
<1>6. /\ DOMAIN bound = DOMAIN plan.streamed /\ DOMAIN streams = DOMAIN plan.streamed
      /\ \A i \in DOMAIN bound : bound[i] = WithReconnect(streams[i], reconnect)
  OBVIOUS
<1> HIDE DEF bound
<1>7. List(units) /\ units \o <<>> = units /\ List(bound) /\ bound \o <<>> = bound
  BY <1>3, <1>4, <1>5, Mapped
<1>8. /\ \A i \in DOMAIN units : units[i].planned = plan.polled[i]
      /\ \A i \in DOMAIN streams : streams[i].planned = plan.streamed[i]
      /\ seated' = IF answer[1] = "ok" THEN <<answer[2]>> ELSE <<>>
  BY <1>1, <1>7 DEF bound
<1>9. UNCHANGED <<asked, plan, running, open, spoken, stopped, silent, last>>
  BY DEF Add
<1>10. running = {} /\ open = {} /\ last = <<>>
  BY <1>2, Idle
<1>11. CASE answer[1] = "ok"
  <2> HIDE DEF answer
  <2>1. PICK id, seat :
              /\ answer[2] = seat
              /\ seat.polled = units /\ seat.streamed = bound /\ seat.endpoint.id = id
              /\ \A i \in DOMAIN units : UnitFault(id, units[i]) = "ok"
              /\ \A i \in DOMAIN bound : SeatStream(id, bound[i]) = "ok"
    BY <1>7, <1>11, SubtreeIs DEF answer
  <2>2. seated' = <<seat>>
    BY <1>8, <1>11, <2>1
  <2>3. ASSUME NEW i \in DOMAIN units PROVE AsPlanned(units[i], plan.polled[i], id)
    <3>1. UnitFault(id, units[i]) = "ok" /\ units[i].planned = plan.polled[i]
      BY <1>8, <2>1
    <3> QED
      BY <3>1 DEF UnitFault, AsPlanned
  <2>4. ASSUME NEW i \in DOMAIN bound
        PROVE  /\ AsPlanned(bound[i], plan.streamed[i], id)
               /\ bound[i].reconnect \in Reconnects /\ ValidReconnect(bound[i].reconnect, Year)
    <3>1. bound[i].planned = plan.streamed[i] /\ bound[i].reconnect = reconnect
      <4>1. bound[i] = WithReconnect(streams[i], reconnect) /\ streams[i].planned = plan.streamed[i]
        BY <1>6, <1>8
      <4> QED
        BY <4>1 DEF WithReconnect
    <3>2. SeatStream(id, bound[i]) = "ok"
      BY <2>1
    <3>3. UnitFault(id, bound[i]) = "ok" /\ ValidReconnect(bound[i].reconnect, Year)
      BY <3>2 DEF SeatStream
    <3> QED
      BY <3>1, <3>3 DEF UnitFault, AsPlanned
  <2>5. SeatedAsPlanned(seat)'
    BY <1>6, <1>9, <2>1, <2>3, <2>4 DEF SeatedAsPlanned, AsPlanned
  <2>6. seated'[1] = seat
    BY <2>2
  <2>7. Placed'
    BY <1>2, <1>9, <2>2, <2>5, <2>6 DEF Placed
  <2> QED
    BY <1>9, <1>10, <2>7 DEF IInv, Asked, Rows, Attempts, Reported
<1>12. CASE answer[1] # "ok"
  <2>1. seated' = <<>>
    BY <1>8, <1>12
  <2> QED
    BY <1>2, <1>9, <1>10, <2>1 DEF IInv, Asked, Rows, Attempts, Reported, Placed
<1> QED
  BY <1>11, <1>12

(* What stays seated stays as planned. *)
LEMMA Kept ==
    ASSUME IInv, UNCHANGED <<asked, plan, seated>>, Attempts', Reported', Rows'
    PROVE  IInv'
  BY DEF IInv, Asked, Placed, SeatedAsPlanned

LEMMA ReportIs ==
    ASSUME UNCHANGED seated, NEW mode \in Modes, NEW i \in DOMAIN Seated(mode), NEW at \in Walls,
           NEW timed \in BOOLEAN, NEW outcome \in Answers, Report(mode, i, at, timed, outcome)
    PROVE  Reported'
<1>1. last' = <<ReportOf(mode, i, at, timed, outcome)>>
  BY DEF Report, ReportOf
<1>2. Seated(mode)' = Seated(mode) /\ ReportOf(mode, i, at, timed, outcome)' = ReportOf(mode, i, at, timed, outcome)
  BY DEF Seated, ReportOf
<1>3. i \in DOMAIN Seated(mode)'
  BY <1>2
<1> QED
  BY <1>1, <1>2, <1>3 DEF Reported, Answers, Outcomes, FailedOutcomes

(* A row of silent instances stays within its bound. *)
LEMMA RowsKept ==
    ASSUME IInv, NEW i \in DOMAIN Seated("streamed"), NEW retryable, InstanceEnds(i, retryable)
    PROVE  Rows'
<1>1. i \in 1..MaxStreams /\ silent[i] \in 0..MaxSilent
  BY Counted DEF IInv, Rows
<1>2. Least(silent[i] + 1, MaxSilent) \in 0..MaxSilent
  BY <1>1, PipelineAssumption DEF Least
<1>3. 0 \in 0..MaxSilent
  BY PipelineAssumption
<1>4. PICK n \in 0..MaxSilent : silent' = [silent EXCEPT ![i] = n]
  BY <1>2, <1>3 DEF InstanceEnds
<1> QED
  BY <1>4 DEF Rows, IInv

(* Attempts of seated units stay so while fewer of them run or are open. *)
LEMMA AttemptsKept ==
    ASSUME IInv, UNCHANGED seated, running' \subseteq running, open' \subseteq open
    PROVE  Attempts'
<1>1. \A mode : Seated(mode)' = Seated(mode)
  BY DEF Seated
<1> QED
  BY <1>1 DEF IInv, Attempts

LEMMA DeliverStep == ASSUME IInv, Deliver PROVE IInv'
<1> USE DEF Deliver
<1>1. Attempts'
  BY AttemptsKept
<1> QED
  BY <1>1, Kept DEF Reported, IInv, Rows

LEMMA BeginStep ==
    ASSUME IInv, NEW mode \in Modes, NEW i \in DOMAIN Seated(mode), Begin(mode, i)
    PROVE  IInv'
<1> USE DEF Begin
<1>1. \A m : Seated(m)' = Seated(m)
  BY DEF Seated
<1>2. PICK now \in Walls : running' = running \cup {[mode |-> mode, i |-> i, at |-> now]}
  OBVIOUS
<1>3. Attempts'
  BY <1>1, <1>2 DEF IInv, Attempts
<1>4. Reported' /\ Rows'
  BY DEF Reported, IInv, Rows
<1> QED
  BY <1>3, <1>4, Kept

LEMMA PollStep == ASSUME IInv, NEW r \in running, Poll(r) PROVE IInv'
<1> USE DEF Poll
<1>1. r.i \in DOMAIN Seated("polled") /\ r.at \in Walls
  BY DEF IInv, Attempts
<1>2. PICK outcome \in Answers : Report("polled", r.i, r.at, TRUE, outcome)
  BY DEF Answers
<1>3. Reported'
  BY <1>1, <1>2, ReportIs DEF Modes
<1>4. Attempts'
  BY AttemptsKept
<1> QED
  BY <1>3, <1>4, Kept DEF IInv, Rows

LEMMA ConnectStep == ASSUME IInv, NEW r \in running, Connect(r) PROVE IInv'
<1> USE DEF Connect
<1>1. r.i \in DOMAIN Seated("streamed")
  BY DEF IInv, Attempts
<1>2. \A m : Seated(m)' = Seated(m)
  BY DEF Seated
<1>3. Attempts'
  BY <1>1, <1>2 DEF IInv, Attempts
<1>4. Reported' /\ Rows'
  BY DEF Reported, IInv, Rows
<1> QED
  BY <1>3, <1>4, Kept

LEMMA ConnectFailsStep == ASSUME IInv, NEW r \in running, ConnectFails(r) PROVE IInv'
<1> USE DEF ConnectFails
<1>1. r.i \in DOMAIN Seated("streamed") /\ r.at \in Walls
  BY DEF IInv, Attempts
<1>2. PICK outcome \in Answers : /\ Report("streamed", r.i, r.at, TRUE, outcome)
                                 /\ InstanceEnds(r.i, Resolved(outcome[2]))
  BY DEF Answers
<1>3. Reported'
  BY <1>1, <1>2, ReportIs DEF Modes
<1>4. Rows'
  BY <1>1, <1>2, RowsKept
<1>5. Attempts'
  BY AttemptsKept
<1> QED
  BY <1>3, <1>4, <1>5, Kept

LEMMA ItemStep == ASSUME IInv, NEW i \in open, Item(i) PROVE IInv'
<1> USE DEF Item
<1>1. i \in DOMAIN Seated("streamed")
  BY DEF IInv, Attempts
<1>2. PICK outcome \in Answers, now \in Walls : Report("streamed", i, now, FALSE, outcome)
  BY DEF Answers
<1>3. Reported'
  BY <1>1, <1>2, ReportIs DEF Modes
<1>4. Attempts'
  BY AttemptsKept
<1> QED
  BY <1>3, <1>4, Kept DEF IInv, Rows

LEMMA StreamFailsStep == ASSUME IInv, NEW i \in open, StreamFails(i) PROVE IInv'
<1> USE DEF StreamFails
<1>1. i \in DOMAIN Seated("streamed")
  BY DEF IInv, Attempts
<1>2. PICK outcome \in Answers, now \in Walls :
         Report("streamed", i, now, FALSE, outcome) /\ InstanceEnds(i, Resolved(outcome[2]))
  BY DEF Answers
<1>3. Reported'
  BY <1>1, <1>2, ReportIs DEF Modes
<1>4. Rows'
  BY <1>1, <1>2, RowsKept
<1>5. Attempts'
  BY AttemptsKept
<1> QED
  BY <1>3, <1>4, <1>5, Kept

LEMMA StreamClosesStep == ASSUME IInv, NEW i \in open, StreamCloses(i) PROVE IInv'
<1> USE DEF StreamCloses
<1>1. i \in DOMAIN Seated("streamed")
  BY DEF IInv, Attempts
<1>2. Rows'
  BY <1>1, RowsKept
<1>3. Attempts'
  BY AttemptsKept
<1>4. Reported'
  BY DEF Reported
<1> QED
  BY <1>2, <1>3, <1>4, Kept

(* Every step keeps the invariant. *)
LEMMA Step == ASSUME IInv, [Next]_vars PROVE IInv'
<1>1. CASE MakePlan
  BY <1>1, MakePlanStep
<1>2. CASE Add
  BY <1>2, AddStep
<1>3. CASE Deliver
  BY <1>3, DeliverStep
<1>4. ASSUME NEW mode \in Modes, NEW i \in DOMAIN Seated(mode), Begin(mode, i) PROVE IInv'
  BY <1>4, BeginStep
<1>5. ASSUME NEW r \in running, Poll(r) \/ Connect(r) \/ ConnectFails(r) PROVE IInv'
  BY <1>5, PollStep, ConnectStep, ConnectFailsStep
<1>6. ASSUME NEW i \in open, Item(i) \/ StreamFails(i) \/ StreamCloses(i) PROVE IInv'
  BY <1>6, ItemStep, StreamFailsStep, StreamClosesStep
<1>7. CASE UNCHANGED vars
  <2>1. Attempts'
    BY <1>7, AttemptsKept DEF vars
  <2>2. UNCHANGED <<asked, plan, seated, last, silent>>
    BY <1>7 DEF vars
  <2>3. Reported'
    <3>1. \A m : Seated(m)' = Seated(m)
      BY <2>2 DEF Seated
    <3>2. \A m, i, at, timed, outcome : ReportOf(m, i, at, timed, outcome)' = ReportOf(m, i, at, timed, outcome)
      BY <3>1 DEF ReportOf
    <3> QED
      BY <2>2, <3>1, <3>2 DEF IInv, Reported, Answers, Outcomes, FailedOutcomes
  <2> QED
    BY <2>1, <2>2, <2>3, Kept DEF IInv, Rows
<1> QED
  BY <1>1, <1>2, <1>3, <1>4, <1>5, <1>6, <1>7 DEF Next

THEOREM Invariant == Spec => []IInv
<1>1. IInv /\ [Next]_vars => IInv'
  BY Step
<1> QED
  BY Initially, <1>1, PTL DEF Spec
-----------------------------------------------------------------------------
(* The need behind a seated unit, and the one declaration that serves it.  *)
Needed(mode) == IF mode = "polled" THEN asked.polls ELSE asked.streams

LEMMA UnitIs ==
    ASSUME IInv, NEW mode \in Modes, NEW i \in DOMAIN Seated(mode)
    PROVE  /\ seated # <<>> /\ seated = <<seated[1]>> /\ i \in DOMAIN Needed(mode)
           /\ Seated(mode)[i].endpoint = Needed(mode)[i].endpoint
           /\ Seated(mode)[i].endpoint.id = seated[1].endpoint.id
           /\ \E k \in DOMAIN asked.declarations :
                /\ Serves(asked.declarations, k, Needed(mode)[i].class, mode)
                /\ Seated(mode)[i].origin = OriginOf(asked.declarations[k])
<1>1. seated # <<>>
  BY DEF Seated
<1>2. SeatedAsPlanned(seated[1]) /\ Planful(plan, asked) /\ seated = <<seated[1]>>
  BY <1>1 DEF IInv, Placed
<1>3. CASE mode = "polled"
  <2>1. Seated(mode) = seated[1].polled /\ Needed(mode) = asked.polls
    BY <1>1, <1>3 DEF Seated, Needed
  <2>2. i \in DOMAIN plan.polled /\ AsPlanned(Seated(mode)[i], plan.polled[i], seated[1].endpoint.id)
    BY <1>2, <2>1 DEF SeatedAsPlanned
  <2>3. Matched(plan.polled, asked.polls, asked.declarations, "polled")
    BY <1>2 DEF Planful
  <2> QED
    BY <1>1, <1>2, <1>3, <2>1, <2>2, <2>3 DEF Matched, AsPlanned
<1>4. CASE mode = "streamed"
  <2>1. Seated(mode) = seated[1].streamed /\ Needed(mode) = asked.streams
    BY <1>1, <1>4 DEF Seated, Needed
  <2>2. i \in DOMAIN plan.streamed /\ AsPlanned(Seated(mode)[i], plan.streamed[i], seated[1].endpoint.id)
    BY <1>2, <2>1 DEF SeatedAsPlanned
  <2>3. Matched(plan.streamed, asked.streams, asked.declarations, "streamed")
    BY <1>2 DEF Planful
  <2> QED
    BY <1>1, <1>2, <1>4, <2>1, <2>2, <2>3 DEF Matched, AsPlanned
<1> QED
  BY <1>3, <1>4 DEF Modes

(* A report tells of a failure, or carries everything in the identity and  *)
(* at the instant of its status.                                           *)
FailedReport(r, unit, at, timed, failure) ==
    /\ r.batches = <<>> /\ r.issues = <<>>
    /\ r.status = FailedStatus(unit, at, timed, failure)
FullReport(r, unit, at, timed, payloads, issues) ==
    /\ r.batches = [i \in DOMAIN payloads |->
                      [endpoint |-> unit.endpoint, origin |-> unit.origin, at |-> at]]
    /\ r.issues = IssuesEnvelope(unit, at, issues)
    /\ r.status = SuccessStatus(unit, at, timed)

LEMMA AnswerIs ==
    ASSUME NEW outcome \in Answers
    PROVE  \/ /\ outcome[1] = "parts"
              /\ List(outcome[2]) /\ List(outcome[3])
           \/ outcome[1] = "failed"
<1>1. CASE outcome \in FailedOutcomes
  BY <1>1 DEF FailedOutcomes
<1>2. CASE outcome \in Outcomes
  <2>1. PICK x \in Parts : outcome = <<"parts", x[1], x[2]>>
    BY <1>2 DEF Outcomes
  <2>2. x[1] \in Seq(Range(x[1])) /\ x[2] \in Seq(Range(x[2]))
    BY PipelineAssumption
  <2>3. outcome[1] = "parts" /\ outcome[2] = x[1] /\ outcome[3] = x[2]
    BY <2>1
  <2> QED
    BY <2>2, <2>3 DEF List
<1> QED
  BY <1>1, <1>2 DEF Answers

(* assemble_success: all of it, or a failure of ours. *)
LEMMA SuccessIs ==
    ASSUME NEW unit, NEW at, NEW timed, NEW payloads, NEW issues, List(payloads),
           NEW r, r = AssembleSuccess(unit, at, timed, payloads, issues)
    PROVE  \/ /\ ~Enveloped(issues)
              /\ FailedReport(r, unit, at, timed, Failure("Internal", "unrefined", "fits"))
           \/ /\ Enveloped(issues)
              /\ FullReport(r, unit, at, timed, payloads, issues)
<1>1. CASE ~Enveloped(issues)
  BY <1>1 DEF AssembleSuccess, Bare, FailedReport
<1>2. CASE Enveloped(issues)
  <2> DEFINE f == [i \in DOMAIN payloads |->
                     [endpoint |-> unit.endpoint, origin |-> unit.origin, at |-> at]]
  <2>1. DOMAIN payloads = 1..Len(payloads) /\ Len(payloads) \in Nat
    BY DEF List
  <2>2. f = [i \in 1..Len(payloads) |-> f[i]]
    BY <2>1
  <2>3. f \o <<>> = f
    BY <2>1, <2>2, Mapped
  <2>4. r = [batches |-> f \o <<>>, issues |-> IssuesEnvelope(unit, at, issues),
             status |-> SuccessStatus(unit, at, timed)]
    BY <1>2 DEF AssembleSuccess
  <2> QED
    BY <1>2, <2>3, <2>4 DEF FullReport
<1> QED
  BY <1>1, <1>2

(* assemble: a failure keeps its class and fails the breaker only when it  *)
(* indicts the endpoint; parts are all there, or a failure of ours.        *)
LEMMA AssembleIs ==
    ASSUME NEW unit, NEW at, NEW timed, NEW outcome \in Answers,
           NEW answer, answer = Assemble(unit, at, timed, outcome)
    PROVE  \/ /\ outcome[1] = "failed" /\ answer[1] = Channel(outcome[2].class)
              /\ FailedReport(answer[2], unit, at, timed, outcome[2])
           \/ /\ outcome[1] = "parts" /\ answer[1] = "report"
              /\ \/ (\E i \in DOMAIN outcome[2] : outcome[2][i] # "sound")
                 \/ ~Enveloped(BoundedIssues(outcome[3]))
              /\ \E failure : FailedReport(answer[2], unit, at, timed, failure)
           \/ /\ outcome[1] = "parts" /\ answer[1] = "report"
              /\ FullReport(answer[2], unit, at, timed, outcome[2], BoundedIssues(outcome[3]))
<1>1. CASE outcome[1] = "failed"
  <2>1. Stamp(outcome) = outcome
    BY <1>1 DEF Stamp
  <2>2. answer = <<Channel(outcome[2].class), Bare(FailedStatus(unit, at, timed, outcome[2]))>>
    BY <1>1, <2>1 DEF Assemble
  <2> QED
    BY <1>1, <2>2 DEF Bare, FailedReport
<1>2. CASE outcome[1] = "parts" /\ \E i \in DOMAIN outcome[2] : outcome[2][i] # "sound"
  <2> DEFINE ours == Failure("Internal", "no", "fits")
  <2>1. Stamp(outcome) = <<"failed", ours>>
    BY <1>2 DEF Stamp
  <2>2. ours.class = "Internal"
    BY DEF Failure
  <2> HIDE DEF ours
  <2>3. answer = <<Channel(ours.class), Bare(FailedStatus(unit, at, timed, ours))>>
    BY <2>1 DEF Assemble
  <2>4. Channel(ours.class) = "report"
    BY <2>2 DEF Channel, EndpointScoped
  <2>5. FailedReport(answer[2], unit, at, timed, ours)
    BY <2>3 DEF Bare, FailedReport
  <2> QED
    BY <1>2, <2>3, <2>4, <2>5
<1>3. CASE outcome[1] = "parts" /\ \A i \in DOMAIN outcome[2] : outcome[2][i] = "sound"
  <2>1. Stamp(outcome) = outcome
    BY <1>3 DEF Stamp
  <2>2. answer = <<"report", AssembleSuccess(unit, at, timed, outcome[2], BoundedIssues(outcome[3]))>>
    BY <1>3, <2>1 DEF Assemble
  <2>3. List(outcome[2])
    BY <1>3, AnswerIs
  <2>4. answer[1] = "report" /\
        answer[2] = AssembleSuccess(unit, at, timed, outcome[2], BoundedIssues(outcome[3]))
    BY <2>2
  <2> QED
    BY <1>3, <2>3, <2>4, SuccessIs
<1> QED
  BY <1>1, <1>2, <1>3, AnswerIs

(* The last report, taken apart. *)
LEMMA LastIs ==
    ASSUME IInv, NEW x \in Range(last)
    PROVE  \E mode \in Modes : \E i \in DOMAIN Seated(mode) :
           \E at \in Walls, timed \in BOOLEAN, outcome \in Answers :
               x = ReportOf(mode, i, at, timed, outcome)
<1>1. last # <<>>
  BY DEF Range
<1>2. PICK mode \in Modes : \E i \in DOMAIN Seated(mode) :
        \E at \in Walls, timed \in BOOLEAN, outcome \in Answers :
            last = <<ReportOf(mode, i, at, timed, outcome)>>
  BY <1>1 DEF IInv, Reported
<1>3. PICK i \in DOMAIN Seated(mode) : \E at \in Walls, timed \in BOOLEAN, outcome \in Answers :
        last = <<ReportOf(mode, i, at, timed, outcome)>>
  BY <1>2
<1>4. PICK at \in Walls, timed \in BOOLEAN, outcome \in Answers :
        last = <<ReportOf(mode, i, at, timed, outcome)>>
  BY <1>3
<1>5. x = ReportOf(mode, i, at, timed, outcome)
  BY <1>4 DEF Range
<1> QED
  BY <1>5

(* Whose a report is. *)
LEMMA Attributed ==
    ASSUME IInv, NEW x \in Range(last)
    PROVE  LET need == IF x.mode = "polled" THEN asked.polls[x.i] ELSE asked.streams[x.i]
               serving == {k \in DOMAIN asked.declarations :
                             /\ asked.declarations[k].mode = x.mode
                             /\ asked.declarations[k].class = need.class}
               origin == OriginOf(asked.declarations[CHOOSE k \in serving : TRUE])
               stamp == [endpoint |-> need.endpoint, origin |-> origin, at |-> x.at]
               r == x.report
           IN  /\ Cardinality(serving) = 1
               /\ r.status.endpoint_id = seated[1].endpoint.id
               /\ r.status.endpoint_id = need.endpoint.id
               /\ r.status.origin = origin /\ r.status.at = x.at
               /\ \A b \in Range(r.batches) : b = stamp
               /\ \A e \in Range(r.issues) :
                    [endpoint |-> e.endpoint, origin |-> e.origin, at |-> e.at] = stamp
<1> DEFINE need == IF x.mode = "polled" THEN asked.polls[x.i] ELSE asked.streams[x.i]
           serving == {k \in DOMAIN asked.declarations :
                         /\ asked.declarations[k].mode = x.mode
                         /\ asked.declarations[k].class = need.class}
           origin == OriginOf(asked.declarations[CHOOSE k \in serving : TRUE])
           stamp == [endpoint |-> need.endpoint, origin |-> origin, at |-> x.at]
           r == x.report
<1>0. PICK mode \in Modes : \E i \in DOMAIN Seated(mode) :
        \E at \in Walls, timed \in BOOLEAN, outcome \in Answers :
            x = ReportOf(mode, i, at, timed, outcome)
  BY LastIs
<1>01. PICK i \in DOMAIN Seated(mode) :
        \E at \in Walls, timed \in BOOLEAN, outcome \in Answers :
            x = ReportOf(mode, i, at, timed, outcome)
  BY <1>0
<1>1. PICK at \in Walls, timed \in BOOLEAN, outcome \in Answers :
        x = ReportOf(mode, i, at, timed, outcome)
  BY <1>01
<1> DEFINE unit == Seated(mode)[i]
<1>2. x.mode = mode /\ x.i = i /\ x.at = at /\ r = Assemble(unit, at, timed, outcome)[2]
  BY <1>1 DEF ReportOf
<1>3. need = Needed(mode)[i]
  BY <1>2 DEF Needed
<1>4. PICK k \in DOMAIN asked.declarations :
        /\ Serves(asked.declarations, k, need.class, mode)
        /\ unit.origin = OriginOf(asked.declarations[k])
  BY <1>3, UnitIs
<1>5. unit.endpoint = need.endpoint /\ unit.endpoint.id = seated[1].endpoint.id
  BY <1>3, UnitIs
<1>6. serving = {k}
  BY <1>2, <1>4 DEF Serves
<1>7. Cardinality(serving) = 1 /\ unit.origin = origin
  BY <1>4, <1>6, FS_Singleton
<1>8. \/ \E failure : FailedReport(r, unit, at, timed, failure)
      \/ \E payloads, issues : FullReport(r, unit, at, timed, payloads, issues)
  <2>1. r = Assemble(unit, at, timed, outcome)[2]
    BY <1>2
  <2> HIDE DEF unit, r
  <2> QED
    BY <2>1, AssembleIs
<1> HIDE DEF need, serving, origin, unit, r
<1>9. CASE \E failure : FailedReport(r, unit, at, timed, failure)
  <2>1. Range(r.batches) = {} /\ Range(r.issues) = {}
    BY <1>9 DEF FailedReport, Range
  <2>2. /\ r.status.endpoint_id = unit.endpoint.id
        /\ r.status.origin = unit.origin /\ r.status.at = at
    BY <1>9 DEF FailedReport, FailedStatus, Status
  <2> QED
    BY <1>2, <1>5, <1>7, <2>1, <2>2 DEF need, serving, origin, unit, r
<1>10. CASE \E payloads, issues : FullReport(r, unit, at, timed, payloads, issues)
  <2>1. PICK payloads, issues : FullReport(r, unit, at, timed, payloads, issues)
    BY <1>10
  <2>2. \A b \in Range(r.batches) :
           b = [endpoint |-> unit.endpoint, origin |-> unit.origin, at |-> at]
    BY <2>1 DEF FullReport, Range
  <2>3. \A e \in Range(r.issues) :
           /\ e.endpoint = unit.endpoint /\ e.origin = unit.origin /\ e.at = at
    BY <2>1 DEF FullReport, Range, IssuesEnvelope
  <2>4. /\ r.status.endpoint_id = unit.endpoint.id
        /\ r.status.origin = unit.origin /\ r.status.at = at
    BY <2>1 DEF FullReport, SuccessStatus, Status
  <2>5. stamp = [endpoint |-> unit.endpoint, origin |-> unit.origin, at |-> at]
    BY <1>2, <1>5, <1>7
  <2> QED
    BY <1>2, <1>5, <1>7, <2>2, <2>3, <2>4, <2>5 DEF need, serving, origin, unit, r
<1> QED
  BY <1>8, <1>9, <1>10

(* A delivered report names the endpoint the collector will retire and the *)
(* one provider declared for the need, however units were wired (plan,     *)
(* endpoint_subtree, assemble).                                            *)
THEOREM ReportsAreAttributed == Spec => []ReportsAttributed
<1>1. IInv => ReportsAttributed
  BY Attributed DEF ReportsAttributed
<1> QED
  BY Invariant, <1>1, PTL
-----------------------------------------------------------------------------
(* bounded_issues: an honest list stays within the envelope's bound, and   *)
(* what does not fit is counted.                                           *)
LEMMA HonestFits ==
    ASSUME NEW issues, List(issues), Honest(issues)
    PROVE  /\ Enveloped(BoundedIssues(issues))
           /\ \E kept \in 0..Len(issues) : Accounts(BoundedIssues(issues), issues, kept)
<1> DEFINE T == Range(issues)
<1>1. issues \in Seq(T)
  BY DEF List
<1>2. /\ \A i, j \in DOMAIN issues : issues[i].path = issues[j].path => i = j
      /\ \A i \in DOMAIN issues : IntoModel(issues[i]) /\ issues[i].path # OmittedLocator
  BY DEF Honest
<1> HIDE DEF T
<1>3. CASE Len(issues) <= IssueLimit
  <2>1. BoundedIssues(issues) = issues
    BY <1>3 DEF BoundedIssues
  <2>2. Accounts(issues, issues, Len(issues))
    <3>1. SubSeq(issues, 1, Len(issues)) = issues
      BY <1>1
    <3>2. issues \o <<>> = issues
      BY <1>1
    <3> QED
      BY <3>1, <3>2 DEF Accounts
  <2>3. Len(issues) \in 0..Len(issues)
    BY <1>1
  <2> QED
    BY <1>2, <1>3, <2>1, <2>2, <2>3 DEF Enveloped
<1>4. CASE ~(Len(issues) <= IssueLimit)
  <2> DEFINE n == IssueLimit - 1
             rest == Omission(Len(issues) - n)
             kept == SubSeq(issues, 1, n)
             bounded == Append(kept, rest)
  <2>1. n \in 0..Len(issues) /\ n < Len(issues) /\ n + 1 = IssueLimit /\ n \in Nat
    BY <1>1, <1>4, PipelineAssumption
  <2>2. BoundedIssues(issues) = bounded
    BY <1>4 DEF BoundedIssues
  <2>3. rest.path = OmittedLocator /\ IntoModel(rest)
    BY DEF Omission, IntoModel, OmittedLocator, Bounded
  <2>4. kept \in Seq(T) /\ Len(kept) = n /\ \A i \in 1..n : kept[i] = issues[i]
    BY <1>1, <2>1
  <2>5. Accounts(bounded, issues, n)
    <3>1. n # Len(issues)
      BY <1>1, <2>1
    <3>2. ASSUME NEW U, NEW t \in Seq(U), NEW e PROVE Append(t, e) = t \o <<e>>
      <4>1. t \in Seq(U \cup {e}) /\ e \in U \cup {e}
        OBVIOUS
      <4> QED
        BY <4>1, AppendIsConcat
    <3>3. bounded = kept \o <<rest>>
      BY <2>4, <3>2
    <3> QED
      BY <3>1, <3>3 DEF Accounts
  <2> HIDE DEF n, rest, kept, bounded
  <2>6. /\ Len(bounded) = IssueLimit /\ DOMAIN bounded = 1..IssueLimit
        /\ bounded[IssueLimit] = rest
        /\ \A i \in 1..n : bounded[i] = issues[i] /\ i \in DOMAIN issues
    <3>1. bounded \in Seq(T \cup {rest}) /\ Len(bounded) = n + 1 /\ bounded[n + 1] = rest
      BY <2>1, <2>4 DEF bounded
    <3>2. \A i \in 1..n : bounded[i] = kept[i]
      BY <2>1, <2>4 DEF bounded
    <3>3. \A i \in 1..n : i \in DOMAIN issues
      BY <1>1, <2>1
    <3> QED
      BY <2>1, <2>4, <3>1, <3>2, <3>3
  <2>7. \A i \in DOMAIN bounded : i = IssueLimit \/ i \in 1..n
    BY <2>1, <2>6, PipelineAssumption
  <2>8. \A i \in DOMAIN bounded : IntoModel(bounded[i])
    BY <1>2, <2>3, <2>6, <2>7
  <2>9. ASSUME NEW i \in DOMAIN bounded, NEW j \in DOMAIN bounded,
               bounded[i].path = bounded[j].path
        PROVE  i = j
    <3>1. CASE i = IssueLimit /\ j = IssueLimit
      BY <3>1
    <3>2. CASE i \in 1..n /\ j \in 1..n
      BY <1>2, <2>6, <2>9, <3>2
    <3>3. CASE i = IssueLimit /\ j \in 1..n
      BY <1>2, <2>3, <2>6, <2>9, <3>3
    <3>4. CASE i \in 1..n /\ j = IssueLimit
      BY <1>2, <2>3, <2>6, <2>9, <3>4
    <3> QED
      BY <2>7, <3>1, <3>2, <3>3, <3>4
  <2>10. IssueLimit \in Nat
    BY PipelineAssumption
  <2>11. Enveloped(bounded)
    BY <2>6, <2>8, <2>9, <2>10 DEF Enveloped
  <2> QED
    BY <2>1, <2>2, <2>5, <2>11
<1> QED
  BY <1>3, <1>4

(* What a report keeps of the answer. *)
LEMMA Survives ==
    ASSUME IInv, NEW x \in Range(last)
    PROVE  LET r == x.report
               told == IF r.issues = <<>> THEN <<>> ELSE r.issues[1].issues
           IN  /\ x.fed[1] = "parts" /\ (\A p \in Range(x.fed[2]) : p = "sound") /\ Honest(x.fed[3])
                    => /\ r.status.outcome = "Succeeded"
                       /\ Len(r.batches) = Len(x.fed[2])
                       /\ \E kept \in 0..Len(x.fed[3]) : Accounts(told, x.fed[3], kept)
               /\ r.status.outcome = "Failed" => r.batches = <<>> /\ r.issues = <<>>
               /\ x.fed[1] = "failed" => r.status.outcome = "Failed" /\ r.status.class = x.fed[2].class
               /\ x.sample = "fault"
                    => x.fed[1] = "failed" /\ x.fed[2].class \in {"Connectivity", "Authentication", "Timeout"}
<1>1. PICK mode \in Modes : \E i \in DOMAIN Seated(mode) :
        \E at \in Walls, timed \in BOOLEAN, outcome \in Answers :
            x = ReportOf(mode, i, at, timed, outcome)
  BY LastIs
<1>2. PICK i \in DOMAIN Seated(mode) :
        \E at \in Walls, timed \in BOOLEAN, outcome \in Answers :
            x = ReportOf(mode, i, at, timed, outcome)
  BY <1>1
<1>3. PICK at \in Walls, timed \in BOOLEAN, outcome \in Answers :
        x = ReportOf(mode, i, at, timed, outcome)
  BY <1>2
<1> DEFINE unit == Seated(mode)[i]
           answer == Assemble(unit, at, timed, outcome)
           r == x.report
           told == IF r.issues = <<>> THEN <<>> ELSE r.issues[1].issues
<1>4. r = answer[2] /\ x.fed = outcome /\ x.sample = IF timed THEN answer[1] ELSE "none"
  BY <1>3 DEF ReportOf
<1> HIDE DEF unit, answer, r
<1>5. \/ /\ outcome[1] = "failed" /\ answer[1] = Channel(outcome[2].class)
         /\ FailedReport(r, unit, at, timed, outcome[2])
      \/ /\ outcome[1] = "parts" /\ answer[1] = "report"
         /\ \/ (\E k \in DOMAIN outcome[2] : outcome[2][k] # "sound")
            \/ ~Enveloped(BoundedIssues(outcome[3]))
         /\ \E failure : FailedReport(r, unit, at, timed, failure)
      \/ /\ outcome[1] = "parts" /\ answer[1] = "report"
         /\ FullReport(r, unit, at, timed, outcome[2], BoundedIssues(outcome[3]))
  BY <1>4, AssembleIs DEF answer
<1>6. \A failure : FailedReport(r, unit, at, timed, failure)
         => /\ r.status.outcome = "Failed" /\ r.status.class = failure.class
            /\ r.batches = <<>> /\ r.issues = <<>>
  BY DEF FailedReport, FailedStatus, Status
<1>7. CASE /\ outcome[1] = "failed" /\ answer[1] = Channel(outcome[2].class)
           /\ FailedReport(r, unit, at, timed, outcome[2])
  <2>1. x.sample = "fault" => outcome[2].class \in {"Connectivity", "Authentication", "Timeout"}
    BY <1>4, <1>7 DEF Channel, EndpointScoped
  <2> QED
    BY <1>4, <1>6, <1>7, <2>1 DEF r
<1>8. CASE /\ outcome[1] = "parts" /\ answer[1] = "report"
           /\ \/ (\E k \in DOMAIN outcome[2] : outcome[2][k] # "sound")
              \/ ~Enveloped(BoundedIssues(outcome[3]))
           /\ \E failure : FailedReport(r, unit, at, timed, failure)
  <2>1. ~((\A p \in Range(outcome[2]) : p = "sound") /\ Honest(outcome[3]))
    <3>1. ASSUME Honest(outcome[3]) PROVE Enveloped(BoundedIssues(outcome[3]))
      BY <1>8, <3>1, AnswerIs, HonestFits
    <3> QED
      BY <1>8, <3>1 DEF Range
  <2>2. r.batches = <<>> /\ r.issues = <<>>
    BY <1>6, <1>8
  <2>3. x.sample # "fault"
    BY <1>4, <1>8
  <2> QED
    BY <1>4, <1>8, <2>1, <2>2, <2>3 DEF r
<1>9. CASE /\ outcome[1] = "parts" /\ answer[1] = "report"
           /\ FullReport(r, unit, at, timed, outcome[2], BoundedIssues(outcome[3]))
  <2>1. List(outcome[2]) /\ List(outcome[3])
    BY <1>9, AnswerIs
  <2>2. r.status.outcome = "Succeeded"
    BY <1>9 DEF FullReport, SuccessStatus, Status
  <2>3. Len(r.batches) = Len(outcome[2])
    <3> DEFINE f == [k \in DOMAIN outcome[2] |->
                       [endpoint |-> unit.endpoint, origin |-> unit.origin, at |-> at]]
    <3>1. DOMAIN outcome[2] = 1..Len(outcome[2]) /\ Len(outcome[2]) \in Nat
      BY <2>1 DEF List
    <3>2. f = [k \in 1..Len(outcome[2]) |-> f[k]]
      BY <3>1
    <3>3. r.batches = f
      BY <1>9 DEF FullReport
    <3> HIDE DEF f
    <3> QED
      BY <3>1, <3>2, <3>3, Mapped
  <2>4. told = BoundedIssues(outcome[3])
    <3>1. r.issues = IssuesEnvelope(unit, at, BoundedIssues(outcome[3]))
      BY <1>9 DEF FullReport
    <3>2. CASE BoundedIssues(outcome[3]) = <<>>
      BY <3>1, <3>2 DEF IssuesEnvelope
    <3>3. CASE BoundedIssues(outcome[3]) # <<>>
      BY <3>1, <3>3 DEF IssuesEnvelope
    <3> QED
      BY <3>2, <3>3
  <2>5. Honest(outcome[3]) => \E kept \in 0..Len(outcome[3]) : Accounts(told, outcome[3], kept)
    BY <2>1, <2>4, HonestFits
  <2>6. x.sample # "fault"
    BY <1>4, <1>9
  <2> QED
    BY <1>4, <1>9, <2>2, <2>3, <2>5, <2>6 DEF r
<1> QED
  BY <1>5, <1>7, <1>8, <1>9

(* No sound part is lost to how much there was to report, issues that do   *)
(* not fit are counted, and only a failure that indicts the endpoint is    *)
(* one to its breaker (bounded_issues, assemble, trips_endpoint_breaker).  *)
THEOREM DataSurvives == Spec => []DeviceDataSurvives
<1>1. IInv => DeviceDataSurvives
  BY Survives DEF DeviceDataSurvives
<1> QED
  BY Invariant, <1>1, PTL
-----------------------------------------------------------------------------
(* A set that has zero, and with a number the next one, has them all. *)
LEMMA AllNumbers ==
    ASSUME NEW S, 0 \in S, \A n \in Nat : n \in S => n + 1 \in S
    PROVE  Nat \subseteq S
<1> SUFFICES ASSUME Nat \ S # {} PROVE FALSE
  OBVIOUS
<1> DEFINE m == Min(Nat \ S)
<1>1. m \in Nat \ S /\ \A y \in Nat \ S : m <= y
  BY MinOf
<1> HIDE DEF m
<1>2. m - 1 \in Nat /\ ~(m <= m - 1)
  BY <1>1
<1>3. m - 1 \in S
  BY <1>1, <1>2
<1>4. (m - 1) + 1 \in S
  BY <1>2, <1>3
<1> QED
  BY <1>1, <1>4

(* The first powers of two, to the n-th. *)
Powers(g, n) ==
    /\ g \in [0..n -> Nat] /\ g[0] = 1
    /\ \A i \in 1..n : g[i] = 2 * g[i - 1]

LEMMA PowersExist == \A n \in Nat : \E g : Powers(g, n)
<1> DEFINE S == {n \in Nat : \E g : Powers(g, n)}
<1>1. 0 \in S
  <2>1. Powers([i \in 0..0 |-> 1], 0)
    BY DEF Powers
  <2> QED
    BY <2>1
<1>2. ASSUME NEW n \in Nat, n \in S PROVE n + 1 \in S
  <2>1. PICK g : Powers(g, n)
    BY <1>2
  <2> DEFINE h == [i \in 0..(n + 1) |-> IF i = n + 1 THEN 2 * g[n] ELSE g[i]]
  <2>2. \A i \in 0..n : i \in 0..(n + 1) /\ i # n + 1 /\ g[i] \in Nat
    BY <2>1 DEF Powers
  <2>3. n \in 0..n /\ 0 \in 0..n /\ n + 1 \in 0..(n + 1)
    OBVIOUS
  <2>4. h[n + 1] = 2 * g[n] /\ \A i \in 0..n : h[i] = g[i]
    BY <2>2, <2>3
  <2>5. \A i \in 0..(n + 1) : i = n + 1 \/ i \in 0..n
    OBVIOUS
  <2>6. DOMAIN h = 0..(n + 1) /\ h = [i \in 0..(n + 1) |-> h[i]]
    OBVIOUS
  <2> HIDE DEF h
  <2>7. \A i \in 0..(n + 1) : h[i] \in Nat
    BY <2>2, <2>3, <2>4, <2>5
  <2>8. h \in [0..(n + 1) -> Nat]
    BY <2>6, <2>7
  <2>9. ASSUME NEW i \in 1..(n + 1) PROVE h[i] = 2 * h[i - 1]
    <3>1. i - 1 \in 0..n
      OBVIOUS
    <3>2. CASE i = n + 1
      BY <2>4, <3>1, <3>2
    <3>3. CASE i # n + 1
      <4>1. i \in 0..n /\ i \in 1..n
        BY <3>3
      <4> QED
        BY <2>1, <2>4, <3>1, <4>1 DEF Powers
    <3> QED
      BY <3>2, <3>3
  <2>10. Powers(h, n + 1)
    BY <2>1, <2>3, <2>4, <2>8, <2>9 DEF Powers
  <2> QED
    BY <2>10
<1> HIDE DEF S
<1>3. Nat \subseteq S
  BY <1>1, <1>2, AllNumbers
<1> QED
  BY <1>3 DEF S

LEMMA PowersAgree ==
    ASSUME NEW n \in Nat, NEW k \in Nat, NEW g, NEW h, Powers(g, n), Powers(h, k)
    PROVE  \A i \in Nat : i <= n /\ i <= k => g[i] = h[i]
<1> DEFINE S == {i \in Nat : i <= n /\ i <= k => g[i] = h[i]}
<1>1. 0 \in S
  BY DEF Powers
<1>2. ASSUME NEW i \in Nat, i \in S PROVE i + 1 \in S
  <2> SUFFICES ASSUME i + 1 <= n, i + 1 <= k PROVE g[i + 1] = h[i + 1]
    OBVIOUS
  <2>1. g[i] = h[i]
    BY <1>2
  <2>2. i + 1 \in 1..n /\ i + 1 \in 1..k /\ (i + 1) - 1 = i
    OBVIOUS
  <2>3. g[i + 1] = 2 * g[(i + 1) - 1] /\ h[i + 1] = 2 * h[(i + 1) - 1]
    BY <2>2 DEF Powers
  <2> QED
    BY <2>1, <2>2, <2>3
<1> HIDE DEF S
<1>3. Nat \subseteq S
  BY <1>1, <1>2, AllNumbers
<1> QED
  BY <1>3 DEF S

(* 1 << n: shifting by one more doubles. *)
LEMMA ShiftedIs ==
    /\ Shifted[0] = 1
    /\ \A n \in Nat : Shifted[n] \in Nat /\ Shifted[n] >= 1 /\ Shifted[n + 1] = 2 * Shifted[n]
<1> DEFINE F == [n \in Nat |-> (CHOOSE g : Powers(g, n))[n]]
           Next1(f) == [n \in Nat |-> IF n = 0 THEN 1 ELSE 2 * f[n - 1]]
<1>1. \A n \in Nat : Powers(CHOOSE g : Powers(g, n), n)
  BY PowersExist
<1>2. F[0] = 1
  BY <1>1 DEF Powers
<1>3. ASSUME NEW n \in Nat, n # 0 PROVE F[n] = 2 * F[n - 1]
  <2>1. PICK g : g = CHOOSE x : Powers(x, n)
    OBVIOUS
  <2>2. n - 1 \in Nat /\ n \in 1..n /\ n - 1 <= n
    BY <1>3
  <2>3. PICK h : h = CHOOSE x : Powers(x, n - 1)
    OBVIOUS
  <2>4. Powers(g, n) /\ Powers(h, n - 1)
    BY <1>1, <2>1, <2>2, <2>3
  <2>5. F[n] = g[n] /\ F[n - 1] = h[n - 1]
    BY <2>1, <2>2, <2>3
  <2>6. g[n] = 2 * g[n - 1]
    BY <2>2, <2>4 DEF Powers
  <2>7. g[n - 1] = h[n - 1]
    BY <2>2, <2>4, PowersAgree
  <2> QED
    BY <2>5, <2>6, <2>7
<1> HIDE DEF F
<1>4. F = Next1(F)
  <2>1. \A n \in Nat : F[n] = IF n = 0 THEN 1 ELSE 2 * F[n - 1]
    BY <1>2, <1>3
  <2>2. DOMAIN F = Nat /\ F = [n \in Nat |-> F[n]]
    BY DEF F
  <2> QED
    BY <2>1, <2>2
<1>5. Shifted = Next1(Shifted)
  <2>1. \E f : f = Next1(f)
    BY <1>4
  <2>2. Shifted = CHOOSE f : f = Next1(f)
    BY DEF Shifted
  <2> QED
    BY <2>1, <2>2
<1> DEFINE S == {n \in Nat : Shifted[n] \in Nat /\ Shifted[n] >= 1}
<1>6. \A n \in Nat : Shifted[n] = IF n = 0 THEN 1 ELSE 2 * Shifted[n - 1]
  BY <1>5
<1>7. Shifted[0] = 1 /\ \A n \in Nat : Shifted[n + 1] = 2 * Shifted[n]
  BY <1>6
<1>8. Nat \subseteq S
  <2>1. 0 \in S
    BY <1>7
  <2>2. \A n \in Nat : n \in S => n + 1 \in S
    BY <1>7
  <2> HIDE DEF S
  <2> QED
    BY <2>1, <2>2, AllNumbers
<1> QED
  BY <1>7, <1>8

(* Products of numbers. *)
LEMMA Products ==
    ASSUME NEW a \in Nat, NEW b \in Nat, NEW c \in Nat, NEW d \in Nat, a <= b, c <= d
    PROVE  a * c \in Nat /\ b * d \in Nat /\ a * c <= b * d
<1>1. a * c \in Nat /\ b * d \in Nat /\ b * c \in Nat
  OBVIOUS
<1>2. (b - a) * c >= 0 /\ b * (d - c) >= 0
  OBVIOUS
<1>3. (b - a) * c = b * c - a * c /\ b * (d - c) = b * d - b * c
  OBVIOUS
<1> QED
  BY <1>1, <1>2, <1>3

LEMMA Hundredth ==
    ASSUME NEW a \in Nat
    PROVE  /\ a \div 100 \in Nat
           /\ 100 * (a \div 100) <= a /\ a < 100 * (a \div 100) + 100
  OBVIOUS

(* A policy that may be seated. *)
Laddered(policy) ==
    /\ {policy.first, policy.max, policy.stagger} \subseteq Nat
    /\ policy.first > 0 /\ policy.max >= policy.first /\ policy.stagger <= 100

LEMMA BaseIs ==
    ASSUME NEW policy, Laddered(policy), NEW row \in Nat
    PROVE  /\ Base(policy, row) \in Nat
           /\ Base(policy, row) >= policy.first /\ Base(policy, row) <= policy.max
<1>1. MaxDoublings \in Nat
  BY PipelineAssumption
<1>2. Doublings(row) \in Nat
  BY <1>1 DEF Doublings, Least
<1> DEFINE k == Shifted[Doublings(row)]
<1>3. k \in Nat /\ k >= 1
  BY <1>2, ShiftedIs
<1>4. Base(policy, row) = Least(policy.first * k, policy.max)
  BY DEF Base
<1> HIDE DEF k
<1>5. policy.first * 1 <= policy.first * k /\ policy.first * k \in Nat
  BY <1>3, Products DEF Laddered
<1> QED
  BY <1>4, <1>5 DEF Least, Laddered

(* Each silent instance doubles the wait until the cap. *)
LEMMA LadderDoubles ==
    ASSUME NEW policy, Laddered(policy), NEW row \in Nat
    PROVE  Base(policy, row + 1) = IF row = 0 THEN policy.first
                                   ELSE IF row > MaxDoublings THEN Base(policy, row)
                                   ELSE Least(2 * Base(policy, row), policy.max)
<1>1. MaxDoublings \in Nat
  BY PipelineAssumption
<1>2. CASE row = 0
  <2>1. Doublings(row + 1) = 0
    BY <1>1, <1>2 DEF Doublings, Least
  <2>2. Base(policy, row + 1) = Least(policy.first * 1, policy.max)
    BY <2>1, ShiftedIs DEF Base
  <2> QED
    BY <1>2, <2>2 DEF Least, Laddered
<1>3. CASE row > MaxDoublings
  <2>1. Doublings(row + 1) = MaxDoublings /\ Doublings(row) = MaxDoublings
    BY <1>1, <1>3 DEF Doublings, Least
  <2> QED
    BY <1>1, <1>3, <2>1 DEF Base
<1>4. CASE row # 0 /\ ~(row > MaxDoublings)
  <2>1. Doublings(row + 1) = row /\ Doublings(row) = row - 1 /\ row - 1 \in Nat
    BY <1>1, <1>4 DEF Doublings, Least
  <2> DEFINE k == Shifted[row - 1]
             w == policy.first * k
  <2>2. k \in Nat /\ Shifted[row] = 2 * k
    <3>1. Shifted[(row - 1) + 1] = 2 * k /\ k \in Nat
      BY <2>1, ShiftedIs
    <3> QED
      BY <3>1
  <2>3. /\ Base(policy, row) = Least(w, policy.max)
        /\ Base(policy, row + 1) = Least(policy.first * Shifted[row], policy.max)
    BY <2>1 DEF Base
  <2> HIDE DEF k
  <2>4. w \in Nat /\ policy.first * (2 * k) = 2 * w
    BY <2>2 DEF Laddered
  <2> HIDE DEF w
  <2>5. Base(policy, row + 1) = Least(2 * w, policy.max)
    BY <2>2, <2>3, <2>4
  <2>6. Least(2 * w, policy.max) = Least(2 * Least(w, policy.max), policy.max)
    BY <2>4 DEF Least, Laddered
  <2> QED
    BY <1>4, <2>3, <2>5, <2>6
<1> QED
  BY <1>2, <1>3, <1>4

(* The stagger rides above the cap, and tells endpoints apart. *)
LEMMA Spreads ==
    ASSUME NEW policy, Laddered(policy), NEW row \in Nat, NEW place \in Nat
    PROVE  LET base == Base(policy, row)
               delay == RetryDelay(policy, row, place)
           IN  /\ Share(policy, place) \in Nat
               /\ delay >= policy.first
               /\ 100 * delay <= policy.max * (100 + policy.stagger)
               /\ \A far \in Nat :
                    base * (Share(policy, place) - Share(policy, far)) >= 100
                      => delay > RetryDelay(policy, row, far)
<1> DEFINE base == Base(policy, row)
<1>1. base \in Nat /\ base >= policy.first /\ base <= policy.max
  BY BaseIs
<1> HIDE DEF base
<1>2. \A x \in Nat : Share(policy, x) \in Nat /\ Share(policy, x) <= policy.stagger
  BY DEF Share, Laddered
<1>3. \A x \in Nat : RetryDelay(policy, row, x) = base + (base * Share(policy, x)) \div 100
  BY DEF RetryDelay, base
<1>4. \A x \in Nat : /\ base * Share(policy, x) \in Nat
                     /\ base * Share(policy, x) <= policy.max * policy.stagger
  BY <1>1, <1>2, Products DEF Laddered
<1> DEFINE w == base * Share(policy, place)
           c == w \div 100
<1>5. w \in Nat /\ w <= policy.max * policy.stagger
  BY <1>4
<1> HIDE DEF w
<1>6. c \in Nat /\ 100 * c <= w /\ w < 100 * c + 100
  BY <1>5, Hundredth
<1>7. RetryDelay(policy, row, place) = base + c
  BY <1>3 DEF w
<1> HIDE DEF c
<1>8. 100 * (base + c) <= policy.max * (100 + policy.stagger)
  <2>1. policy.max * (100 + policy.stagger) = 100 * policy.max + policy.max * policy.stagger
    BY DEF Laddered
  <2>2. policy.max * policy.stagger \in Nat
    BY DEF Laddered
  <2> QED
    BY <1>1, <1>5, <1>6, <2>1, <2>2 DEF Laddered
<1>9. ASSUME NEW far \in Nat, base * (Share(policy, place) - Share(policy, far)) >= 100
      PROVE  RetryDelay(policy, row, place) > RetryDelay(policy, row, far)
  <2> DEFINE v == base * Share(policy, far)
             e == v \div 100
  <2>1. v \in Nat
    BY <1>4
  <2>2. base * (Share(policy, place) - Share(policy, far)) = w - v
    BY <1>1, <1>2 DEF w
  <2>3. RetryDelay(policy, row, far) = base + e
    BY <1>3
  <2> HIDE DEF v
  <2>4. e \in Nat /\ 100 * e <= v
    BY <2>1, Hundredth
  <2> HIDE DEF e
  <2>5. w - v >= 100
    BY <1>9, <2>2
  <2>6. c > e
    BY <1>5, <1>6, <2>1, <2>4, <2>5
  <2> QED
    BY <1>1, <1>6, <1>7, <2>3, <2>4, <2>6
<1>10. base + c >= policy.first
  BY <1>1, <1>6 DEF Laddered
<1> QED
  BY <1>2, <1>7, <1>8, <1>9, <1>10 DEF base

(* What a seated stream waits lies between its first retry and its cap     *)
(* with the stagger on top, doubles with each silent instance, and is not  *)
(* in step with an endpoint of another share (ReconnectPolicy::delay).     *)
THEOREM StreamsSpread == Spec => []LadderSpreads
<1>1. ASSUME IInv PROVE LadderSpreads
  <2> SUFFICES ASSUME NEW i \in DOMAIN Seated("streamed")
               PROVE  LET policy == Seated("streamed")[i].reconnect
                          row == silent[i]
                          base == Base(policy, row)
                          gap(near, far) == Share(policy, near) - Share(policy, far)
                      IN  /\ \A place \in Places :
                               LET delay == RetryDelay(policy, row, place)
                               IN  /\ delay >= policy.first
                                   /\ 100 * delay <= policy.max * (100 + policy.stagger)
                          /\ Base(policy, row + 1) = IF row = 0 THEN policy.first
                                                     ELSE IF row > MaxDoublings THEN base
                                                     ELSE Least(2 * base, policy.max)
                          /\ \A near, far \in Places :
                               base * gap(near, far) >= 100
                                 => RetryDelay(policy, row, near) > RetryDelay(policy, row, far)
    BY DEF LadderSpreads
  <2> DEFINE policy == Seated("streamed")[i].reconnect
             row == silent[i]
  <2>1. policy \in Reconnects /\ ValidReconnect(policy, Year)
    <3>1. seated # <<>>
      BY DEF Seated
    <3>2. Seated("streamed") = seated[1].streamed /\ SeatedAsPlanned(seated[1])
      BY <1>1, <3>1 DEF Seated, IInv, Placed
    <3> QED
      BY <3>2 DEF SeatedAsPlanned
  <2>2. row \in Nat
    BY <1>1, Counted DEF IInv, Rows
  <2> HIDE DEF policy, row
  <2>3. Laddered(policy)
    BY <2>1, PipelineAssumption DEF Laddered, ValidReconnect
  <2>4. Places \subseteq Nat
    BY PipelineAssumption
  <2>5. \A place \in Places :
          /\ RetryDelay(policy, row, place) >= policy.first
          /\ 100 * RetryDelay(policy, row, place) <= policy.max * (100 + policy.stagger)
    BY <2>2, <2>3, <2>4, Spreads
  <2>6. \A near, far \in Places :
          Base(policy, row) * (Share(policy, near) - Share(policy, far)) >= 100
            => RetryDelay(policy, row, near) > RetryDelay(policy, row, far)
    BY <2>2, <2>3, <2>4, Spreads
  <2>7. Base(policy, row + 1) = IF row = 0 THEN policy.first
                                ELSE IF row > MaxDoublings THEN Base(policy, row)
                                ELSE Least(2 * Base(policy, row), policy.max)
    BY <2>2, <2>3, LadderDoubles
  <2> QED
    BY <2>5, <2>6, <2>7 DEF policy, row
<1> QED
  BY Invariant, <1>1, PTL
=============================================================================
