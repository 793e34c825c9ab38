-------------------------- MODULE StreamUnit_proofs --------------------------
(***************************************************************************)
(* Proofs about StreamUnit for every ladder, counter width and clock step. *)
(* The inductive invariant is Shape (which party may hold an instance in   *)
(* which phase), Cancel (who still owns the abort handle of a request in   *)
(* flight), Waking (who will run next) and Ladder (what the counter and    *)
(* the productive flag stand for).                                         *)
(***************************************************************************)
EXTENDS StreamUnit, TLAPS

(* An instance lives in one place only, and only in a phase that knows it. *)
Shape ==
    /\ attempt # "none" => /\ phase \in {"connecting", "stopped"}
                           /\ opened = "none" /\ current = "none"
    /\ opened = "some" => /\ phase \in {"streaming", "stopped"}
                          /\ current = "none"
    /\ current = "some" => phase \in {"streaming", "stopped"}

Dropped == {"dropping", "aborting", "dropped"}

(* A request in flight can be aborted until its drop has aborted it. *)
Cancel ==
    /\ reports \in Dropped => /\ phase = "stopped"
                              /\ opened = "none" /\ connecting = "none"
    /\ attempt = "performing" => connecting = "some" \/ reports = "aborting"
    /\ reports = "dropped" => current = "none"

(* Idle reports without a stream are woken or have left their waker. *)
Waking ==
    /\ NoLostWakeUp
    /\ EndIsSeen
    /\ reports = "live" /\ current = "none"
         => "reports" \in wakes \/ waker = "some"
    /\ reports = "polling" => current = "none"

(* The flag and the counter describe the instance they are about. *)
Ladder ==
    /\ LadderCountsSilence
    /\ phase = "ended" => silent = Row(unproductive, end.productive)
    /\ opened = "some" => delivered = "no"
    /\ current = "some" => productive = delivered

IInv == TypeOK /\ Shape /\ Cancel /\ Waking /\ Ladder

(* Every step keeps the types. *)
LEMMA TypeStep ==
    ASSUME TypeOK, [Next]_vars PROVE TypeOK'
<1> USE StreamAssumption DEF TypeOK, Row, Saturating, Option, Flag, Phases, Attempts, ReportStates, shared, leafVars,
           reportVars, history, Wake
<1>1. CASE RegisterSink
  BY <1>1 DEF RegisterSink
<1>2. ASSUME NEW elapsed \in 0..MaxElapsed, UpdateReady(elapsed)
      PROVE  TypeOK'
  BY <1>2 DEF UpdateReady, Scanning, Seated, Remaining
<1>3. CASE Schedule
  <2>1. Row(unproductive, end.productive) \in 0..U32Max
    OBVIOUS
  <2>2. wait' \in Nat
    BY <1>3, <2>1 DEF Schedule
  <2>3. phase' \in Phases /\ unproductive' \in 0..U32Max
    BY <1>3, <2>1 DEF Schedule
  <2>4. waker' \in Option /\ wakes' \subseteq {"reports", "runtime"}
    BY <1>3 DEF Schedule
  <2> QED
    BY <1>3, <2>2, <2>3, <2>4 DEF Schedule, Scanning
<1>4. CASE TakeNext
  BY <1>4 DEF TakeNext, Seated
<1>5. CASE DropRuntime
  BY <1>5 DEF DropRuntime, Seated, WakeReports
<1>6. CASE Begin
  BY <1>6 DEF Begin
<1>7. CASE BeginTooLate
  BY <1>7 DEF BeginTooLate
<1>8. ASSUME NEW answer \in {"opened", "failed"}, Answer(answer)
      PROVE  TypeOK'
  BY <1>8 DEF Answer
<1>9. CASE Abandon
  BY <1>9 DEF Abandon
<1>10. CASE SettleOpened
  BY <1>10 DEF SettleOpened
<1>11. ASSUME NEW retryable \in Flag, SettleFailed(retryable)
      PROVE  TypeOK'
  BY <1>11 DEF SettleFailed
<1>12. CASE SettleTooLate
  BY <1>12 DEF SettleTooLate
<1>13. CASE PollItem
  BY <1>13 DEF PollItem, Polled
<1>14. ASSUME NEW retryable \in Flag, PollFailure(retryable)
      PROVE  TypeOK'
  BY <1>14 DEF PollFailure, Polled, Ended
<1>15. CASE PollClosed
  BY <1>15 DEF PollClosed, Polled, Ended
<1>16. CASE PollPending
  BY <1>16 DEF PollPending, Polled
<1>17. CASE PollShared
  BY <1>17 DEF PollShared, Polled
<1>18. CASE TakeOpened
  BY <1>18 DEF TakeOpened
<1>19. CASE Finish
  BY <1>19 DEF Finish
<1>20. CASE Park
  BY <1>20 DEF Park
<1>21. CASE ProviderWake
  BY <1>21 DEF ProviderWake
<1>22. CASE DropReports
  BY <1>22 DEF DropReports
<1>23. CASE DropFinish
  BY <1>23 DEF DropFinish
<1>24. CASE UNCHANGED vars
  BY <1>24 DEF vars
<1> QED
  BY <1>1, <1>2, <1>3, <1>4, <1>5, <1>6, <1>7, <1>8, <1>9, <1>10,
     <1>11, <1>12, <1>13, <1>14, <1>15, <1>16, <1>17, <1>18, <1>19,
     <1>20, <1>21, <1>22, <1>23, <1>24 DEF Next, Runtime, Attempt,
     Reports

(* Every step keeps the instance in one place. *)
LEMMA ShapeStep ==
    ASSUME TypeOK, Shape, [Next]_vars PROVE Shape'
<1> USE DEF TypeOK, Shape, Option, Flag, Phases, Attempts, ReportStates, shared, leafVars,
           reportVars, history, Wake
<1>1. CASE RegisterSink
  BY <1>1 DEF RegisterSink
<1>2. ASSUME NEW elapsed \in 0..MaxElapsed, UpdateReady(elapsed)
      PROVE  Shape'
  BY <1>2 DEF UpdateReady, Scanning, Seated, Remaining
<1>3. CASE Schedule
  BY <1>3 DEF Schedule, Scanning, Seated
<1>4. CASE TakeNext
  BY <1>4 DEF TakeNext, Seated
<1>5. CASE DropRuntime
  BY <1>5 DEF DropRuntime, Seated, WakeReports
<1>6. CASE Begin
  BY <1>6 DEF Begin
<1>7. CASE BeginTooLate
  BY <1>7 DEF BeginTooLate
<1>8. ASSUME NEW answer \in {"opened", "failed"}, Answer(answer)
      PROVE  Shape'
  BY <1>8 DEF Answer
<1>9. CASE Abandon
  BY <1>9 DEF Abandon
<1>10. CASE SettleOpened
  BY <1>10 DEF SettleOpened
<1>11. ASSUME NEW retryable \in Flag, SettleFailed(retryable)
      PROVE  Shape'
  BY <1>11 DEF SettleFailed
<1>12. CASE SettleTooLate
  BY <1>12 DEF SettleTooLate
<1>13. CASE PollItem
  BY <1>13 DEF PollItem, Polled
<1>14. ASSUME NEW retryable \in Flag, PollFailure(retryable)
      PROVE  Shape'
  BY <1>14 DEF PollFailure, Polled, Ended
<1>15. CASE PollClosed
  BY <1>15 DEF PollClosed, Polled, Ended
<1>16. CASE PollPending
  BY <1>16 DEF PollPending, Polled
<1>17. CASE PollShared
  BY <1>17 DEF PollShared, Polled
<1>18. CASE TakeOpened
  BY <1>18 DEF TakeOpened
<1>19. CASE Finish
  BY <1>19 DEF Finish
<1>20. CASE Park
  BY <1>20 DEF Park
<1>21. CASE ProviderWake
  BY <1>21 DEF ProviderWake
<1>22. CASE DropReports
  BY <1>22 DEF DropReports
<1>23. CASE DropFinish
  BY <1>23 DEF DropFinish
<1>24. CASE UNCHANGED vars
  BY <1>24 DEF vars
<1> QED
  BY <1>1, <1>2, <1>3, <1>4, <1>5, <1>6, <1>7, <1>8, <1>9, <1>10,
     <1>11, <1>12, <1>13, <1>14, <1>15, <1>16, <1>17, <1>18, <1>19,
     <1>20, <1>21, <1>22, <1>23, <1>24 DEF Next, Runtime, Attempt,
     Reports

(* Every step keeps a request in flight within reach of the drop. *)
LEMMA CancelStep ==
    ASSUME TypeOK, Shape, Cancel, [Next]_vars PROVE Cancel'
<1> USE DEF TypeOK, Cancel, Dropped, Option, Flag, Phases, Attempts, ReportStates, shared, leafVars,
           reportVars, history, Wake
<1>1. CASE RegisterSink
  BY <1>1 DEF RegisterSink
<1>2. ASSUME NEW elapsed \in 0..MaxElapsed, UpdateReady(elapsed)
      PROVE  Cancel'
  BY <1>2 DEF UpdateReady, Scanning, Seated, Remaining
<1>3. CASE Schedule
  BY <1>3 DEF Schedule, Scanning, Seated
<1>4. CASE TakeNext
  BY <1>4 DEF TakeNext, Seated
<1>5. CASE DropRuntime
  BY <1>5 DEF DropRuntime, Seated, WakeReports
<1>6. CASE Begin
  BY <1>6 DEF Begin
<1>7. CASE BeginTooLate
  BY <1>7 DEF BeginTooLate
<1>8. ASSUME NEW answer \in {"opened", "failed"}, Answer(answer)
      PROVE  Cancel'
  BY <1>8 DEF Answer
<1>9. CASE Abandon
  BY <1>9 DEF Abandon
<1>10. CASE SettleOpened
  BY <1>10 DEF SettleOpened
<1>11. ASSUME NEW retryable \in Flag, SettleFailed(retryable)
      PROVE  Cancel'
  BY <1>11 DEF SettleFailed
<1>12. CASE SettleTooLate
  BY <1>12 DEF SettleTooLate
<1>13. CASE PollItem
  BY <1>13 DEF PollItem, Polled
<1>14. ASSUME NEW retryable \in Flag, PollFailure(retryable)
      PROVE  Cancel'
  BY <1>14 DEF PollFailure, Polled, Ended
<1>15. CASE PollClosed
  BY <1>15 DEF PollClosed, Polled, Ended
<1>16. CASE PollPending
  BY <1>16 DEF PollPending, Polled
<1>17. CASE PollShared
  BY <1>17 DEF PollShared, Polled
<1>18. CASE TakeOpened
  BY <1>18 DEF TakeOpened
<1>19. CASE Finish
  BY <1>19 DEF Finish
<1>20. CASE Park
  BY <1>20 DEF Park
<1>21. CASE ProviderWake
  BY <1>21 DEF ProviderWake
<1>22. CASE DropReports
  BY <1>22 DEF DropReports
<1>23. CASE DropFinish
  BY <1>23 DEF DropFinish
<1>24. CASE UNCHANGED vars
  BY <1>24 DEF vars
<1> QED
  BY <1>1, <1>2, <1>3, <1>4, <1>5, <1>6, <1>7, <1>8, <1>9, <1>10,
     <1>11, <1>12, <1>13, <1>14, <1>15, <1>16, <1>17, <1>18, <1>19,
     <1>20, <1>21, <1>22, <1>23, <1>24 DEF Next, Runtime, Attempt,
     Reports

(* Every step keeps whoever has something to do woken. *)
LEMMA WakingStep ==
    ASSUME TypeOK, Shape, Waking, [Next]_vars PROVE Waking'
<1> USE DEF TypeOK, Shape, Waking, NoLostWakeUp, EndIsSeen, Option, Flag, Phases, Attempts, ReportStates, shared, leafVars,
           reportVars, history, Wake
<1>1. CASE RegisterSink
  BY <1>1 DEF RegisterSink
<1>2. ASSUME NEW elapsed \in 0..MaxElapsed, UpdateReady(elapsed)
      PROVE  Waking'
  BY <1>2 DEF UpdateReady, Scanning, Seated, Remaining
<1>3. CASE Schedule
  BY <1>3 DEF Schedule, Scanning, Seated
<1>4. CASE TakeNext
  BY <1>4 DEF TakeNext, Seated
<1>5. CASE DropRuntime
  BY <1>5 DEF DropRuntime, Seated, WakeReports
<1>6. CASE Begin
  BY <1>6 DEF Begin
<1>7. CASE BeginTooLate
  BY <1>7 DEF BeginTooLate
<1>8. ASSUME NEW answer \in {"opened", "failed"}, Answer(answer)
      PROVE  Waking'
  BY <1>8 DEF Answer
<1>9. CASE Abandon
  BY <1>9 DEF Abandon
<1>10. CASE SettleOpened
  BY <1>10 DEF SettleOpened
<1>11. ASSUME NEW retryable \in Flag, SettleFailed(retryable)
      PROVE  Waking'
  BY <1>11 DEF SettleFailed
<1>12. CASE SettleTooLate
  BY <1>12 DEF SettleTooLate
<1>13. CASE PollItem
  BY <1>13 DEF PollItem, Polled
<1>14. ASSUME NEW retryable \in Flag, PollFailure(retryable)
      PROVE  Waking'
  BY <1>14 DEF PollFailure, Polled, Ended
<1>15. CASE PollClosed
  BY <1>15 DEF PollClosed, Polled, Ended
<1>16. CASE PollPending
  BY <1>16 DEF PollPending, Polled
<1>17. CASE PollShared
  BY <1>17 DEF PollShared, Polled
<1>18. CASE TakeOpened
  BY <1>18 DEF TakeOpened
<1>19. CASE Finish
  BY <1>19 DEF Finish
<1>20. CASE Park
  BY <1>20 DEF Park
<1>21. CASE ProviderWake
  BY <1>21 DEF ProviderWake
<1>22. CASE DropReports
  BY <1>22 DEF DropReports
<1>23. CASE DropFinish
  BY <1>23 DEF DropFinish
<1>24. CASE UNCHANGED vars
  BY <1>24 DEF vars
<1> QED
  BY <1>1, <1>2, <1>3, <1>4, <1>5, <1>6, <1>7, <1>8, <1>9, <1>10,
     <1>11, <1>12, <1>13, <1>14, <1>15, <1>16, <1>17, <1>18, <1>19,
     <1>20, <1>21, <1>22, <1>23, <1>24 DEF Next, Runtime, Attempt,
     Reports

(* Every step keeps the counter equal to the row of silent instances. *)
LEMMA LadderStep ==
    ASSUME TypeOK, Shape, Ladder, [Next]_vars PROVE Ladder'
<1> USE DEF TypeOK, Shape, Ladder, LadderCountsSilence, Option, Flag, Phases, Attempts, ReportStates, shared, leafVars,
           reportVars, history, Wake
<1>1. CASE RegisterSink
  BY <1>1 DEF RegisterSink
<1>2. ASSUME NEW elapsed \in 0..MaxElapsed, UpdateReady(elapsed)
      PROVE  Ladder'
  BY <1>2 DEF UpdateReady, Scanning, Seated, Remaining
<1>3. CASE Schedule
  BY <1>3 DEF Schedule, Scanning, Seated
<1>4. CASE TakeNext
  BY <1>4 DEF TakeNext, Seated
<1>5. CASE DropRuntime
  BY <1>5 DEF DropRuntime, Seated, WakeReports
<1>6. CASE Begin
  BY <1>6 DEF Begin
<1>7. CASE BeginTooLate
  BY <1>7 DEF BeginTooLate
<1>8. ASSUME NEW answer \in {"opened", "failed"}, Answer(answer)
      PROVE  Ladder'
  BY <1>8 DEF Answer
<1>9. CASE Abandon
  BY <1>9 DEF Abandon
<1>10. CASE SettleOpened
  BY <1>10 DEF SettleOpened
<1>11. ASSUME NEW retryable \in Flag, SettleFailed(retryable)
      PROVE  Ladder'
  BY <1>11 DEF SettleFailed
<1>12. CASE SettleTooLate
  BY <1>12 DEF SettleTooLate
<1>13. CASE PollItem
  BY <1>13 DEF PollItem, Polled
<1>14. ASSUME NEW retryable \in Flag, PollFailure(retryable)
      PROVE  Ladder'
  BY <1>14 DEF PollFailure, Polled, Ended
<1>15. CASE PollClosed
  BY <1>15 DEF PollClosed, Polled, Ended
<1>16. CASE PollPending
  BY <1>16 DEF PollPending, Polled
<1>17. CASE PollShared
  BY <1>17 DEF PollShared, Polled
<1>18. CASE TakeOpened
  BY <1>18 DEF TakeOpened
<1>19. CASE Finish
  BY <1>19 DEF Finish
<1>20. CASE Park
  BY <1>20 DEF Park
<1>21. CASE ProviderWake
  BY <1>21 DEF ProviderWake
<1>22. CASE DropReports
  BY <1>22 DEF DropReports
<1>23. CASE DropFinish
  BY <1>23 DEF DropFinish
<1>24. CASE UNCHANGED vars
  BY <1>24 DEF vars
<1> QED
  BY <1>1, <1>2, <1>3, <1>4, <1>5, <1>6, <1>7, <1>8, <1>9, <1>10,
     <1>11, <1>12, <1>13, <1>14, <1>15, <1>16, <1>17, <1>18, <1>19,
     <1>20, <1>21, <1>22, <1>23, <1>24 DEF Next, Runtime, Attempt,
     Reports

(* The invariant holds of every reachable state. *)
THEOREM Invariant == Spec => []IInv
<1>1. Init => IInv
  BY StreamAssumption
  DEF Init, IInv, TypeOK, Shape, Cancel, Dropped, Waking, NoLostWakeUp,
      EndIsSeen, Ladder, LadderCountsSilence, Option, Flag, Phases, Attempts,
      ReportStates
<1>2. IInv /\ [Next]_vars => IInv'
  BY TypeStep, ShapeStep, CancelStep, WakingStep, LadderStep DEF IInv
<1> QED
  BY <1>1, <1>2, PTL DEF Spec

(* The variables keep their types. *)
THEOREM TypeCorrect == Spec => []TypeOK
<1>1. IInv => TypeOK
  BY DEF IInv
<1> QED
  BY <1>1, Invariant, PTL

(* No reconnect ever overlaps the instance it replaces: take_next finds no *)
(* attempt, no opened and no open stream, for every interleaving.          *)
THEOREM NeverTwoInstances == Spec => []OneInstance
<1>1. IInv => OneInstance
  BY DEF IInv, TypeOK, Shape, OneInstance, Option, Phases, Attempts
<1> QED
  BY <1>1, Invariant, PTL

(* Dropping the reports leaves nothing open and no request out of reach of *)
(* its abort handle.                                                       *)
THEOREM DropAlwaysCancels == Spec => []DropCancels
<1>1. IInv => DropCancels
  BY DEF IInv, TypeOK, Cancel, Dropped, DropCancels, Option, Attempts
<1> QED
  BY <1>1, Invariant, PTL

(* Neither half ever sleeps through what it waits for.                     *)
THEOREM NoWakeUpIsLost == Spec => [](NoLostWakeUp /\ EndIsSeen)
<1>1. IInv => NoLostWakeUp /\ EndIsSeen
  BY DEF IInv, Waking
<1> QED
  BY <1>1, Invariant, PTL

(* The reconnect ladder is driven by the silent instances in a row, and by *)
(* nothing else.                                                           *)
THEOREM LadderIsHonest == Spec => []LadderCountsSilence
<1>1. IInv => LadderCountsSilence
  BY DEF IInv, Ladder
<1> QED
  BY <1>1, Invariant, PTL

(* A stopped stream stays stopped: none of the seven places that write the *)
(* phase brings it back.                                                   *)
THEOREM StopForGood == Spec => StopIsFinal
<1>1. [Next]_vars => [phase = "stopped" => phase' = "stopped"]_vars
  BY DEF Next, Runtime, Attempt, Reports, vars, shared, leafVars, reportVars,
         history, RegisterSink, UpdateReady, Scanning, Schedule, TakeNext,
         DropRuntime, Begin, BeginTooLate, Answer, Abandon, SettleOpened,
         SettleFailed, SettleTooLate, Ended, PollItem, PollFailure,
         PollClosed, PollPending, PollShared, TakeOpened, Finish, Park,
         ProviderWake, DropReports, DropFinish
<1> QED
  BY <1>1, PTL DEF Spec, StopIsFinal

(* One step of the unit is one step of its promise, or none. *)
LEMMA PromiseStep ==
    ASSUME IInv, [Next]_vars PROVE [Promise!Next]_Promise!vars
<1> USE DEF IInv, TypeOK, Shape, Option, Flag, Phases, Attempts,
           ReportStates, shared, leafVars, reportVars, history, Link, Asked,
           Promise!Next, Promise!Request, Promise!Open, Promise!Fail,
           Promise!Lose, Promise!Stop, Promise!vars
<1>1. CASE RegisterSink
  BY <1>1 DEF RegisterSink
<1>2. ASSUME NEW elapsed \in 0..MaxElapsed, UpdateReady(elapsed)
      PROVE  [Promise!Next]_Promise!vars
  BY <1>2 DEF UpdateReady, Scanning, Seated, Remaining
<1>3. CASE Schedule
  BY <1>3 DEF Schedule, Scanning, Seated
<1>4. CASE TakeNext
  BY <1>4 DEF TakeNext, Seated
<1>5. CASE DropRuntime
  BY <1>5 DEF DropRuntime, Seated, WakeReports
<1>6. CASE Begin
  BY <1>6 DEF Begin
<1>7. CASE BeginTooLate
  BY <1>7 DEF BeginTooLate
<1>8. ASSUME NEW answer \in {"opened", "failed"}, Answer(answer)
      PROVE  [Promise!Next]_Promise!vars
  BY <1>8 DEF Answer
<1>9. CASE Abandon
  BY <1>9 DEF Abandon
<1>10. CASE SettleOpened
  BY <1>10 DEF SettleOpened
<1>11. ASSUME NEW retryable \in Flag, SettleFailed(retryable)
      PROVE  [Promise!Next]_Promise!vars
  BY <1>11 DEF SettleFailed
<1>12. CASE SettleTooLate
  BY <1>12 DEF SettleTooLate
<1>13. CASE PollItem
  BY <1>13 DEF PollItem, Polled
<1>14. ASSUME NEW retryable \in Flag, PollFailure(retryable)
      PROVE  [Promise!Next]_Promise!vars
  BY <1>14 DEF PollFailure, Polled, Ended
<1>15. CASE PollClosed
  BY <1>15 DEF PollClosed, Polled, Ended
<1>16. CASE PollPending
  BY <1>16 DEF PollPending, Polled
<1>17. CASE PollShared
  BY <1>17 DEF PollShared, Polled
<1>18. CASE TakeOpened
  BY <1>18 DEF TakeOpened
<1>19. CASE Finish
  BY <1>19 DEF Finish
<1>20. CASE Park
  BY <1>20 DEF Park
<1>21. CASE ProviderWake
  BY <1>21 DEF ProviderWake
<1>22. CASE DropReports
  BY <1>22 DEF DropReports
<1>23. CASE DropFinish
  BY <1>23 DEF DropFinish
<1>24. CASE UNCHANGED vars
  BY <1>24 DEF vars
<1> QED
  BY <1>1, <1>2, <1>3, <1>4, <1>5, <1>6, <1>7, <1>8, <1>9, <1>10,
     <1>11, <1>12, <1>13, <1>14, <1>15, <1>16, <1>17, <1>18, <1>19,
     <1>20, <1>21, <1>22, <1>23, <1>24 DEF Next, Runtime, Attempt,
     Reports

(* The unit implements Subscription. *)
THEOREM KeepsItsPromise == Spec => KeepsPromise
<1>1. Init => Promise!Init
  BY DEF Init, Promise!Init, Link, Asked
<1> QED
  BY <1>1, PromiseStep, Invariant, PTL DEF Spec, KeepsPromise, Promise!Spec
=============================================================================
