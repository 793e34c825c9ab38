-------------------------- MODULE Collector_proofs ---------------------------
(***************************************************************************)
(* Proofs about Collector for every set of endpoints, capacity, number of  *)
(* units and concurrency.  The inductive invariant adds to the invariants  *)
(* the runs check: Slots (the queue and the slots promised fit in it),     *)
(* Idle (what a task outside run's loop no longer has), Backlog (what may  *)
(* still be held without the clock moving), Chain (the held reports follow *)
(* the last one sent without a gap) and Told (what was last said of an id  *)
(* fits where its task stands).                                            *)
(***************************************************************************)
EXTENDS Collector, FiniteSetTheorems, SequenceTheorems, TLAPS

(* The queue has room for every slot promised. *)
Slots == queued + Cardinality(Reserved) <= Capacity

(* Only run's loop has acquisitions, only drive holds reports. *)
Idle ==
    \A id \in Ids :
        /\ pc[id] # "running" => flying[id] = 0
        /\ pc[id] \notin {"running", "flushing"} => held[id] = <<>>

(* An endpoint that holds can only add what it already owes. *)
Owes(reports, waiting, running) ==
    reports # <<>> => Len(reports) + waiting + running <= Units + InFlight + 1

Backlog == \A id \in Ids : Owes(held[id], due[id], flying[id])

Numbers == 0..(Serials - 1)

(* Reports held after the one sent, up to the last finished, with no gap.  *)
Linked(reports, newest, sent) ==
    /\ reports = <<>> => newest = sent
    /\ reports # <<>> => /\ reports[1] = Succ(sent)
                         /\ newest = reports[Len(reports)]
    /\ \A i \in 1..(Len(reports) - 1) : reports[i + 1] = Succ(reports[i])

Chain == \A id \in Ids : Linked(held[id], finished[id], last[id].serial)

(* An addition has not been called over while its task stands. *)
Told ==
    \A id \in Ids :
        last[id].kind \in IF pc[id] = "free" THEN {"retired", "unsaid"}
                                             ELSE {"added", "report"}

(* A serial number is followed by a serial number. *)
LEMMA SuccType ==
    ASSUME NEW serial \in 0..(Serials - 1)
    PROVE  Succ(serial) \in 0..(Serials - 1)
BY CollectorAssumption DEF Succ

(* A report that finishes extends the chain at its end. *)
LEMMA LinkedHold ==
    ASSUME NEW reports \in Seq(Numbers), NEW newest \in Numbers, NEW sent \in Numbers,
           Linked(reports, newest, sent)
    PROVE  Linked(Append(reports, Succ(newest)), Succ(newest), sent)
<1> DEFINE longer == Append(reports, Succ(newest))
<1>1. Succ(newest) \in Numbers
  BY SuccType DEF Numbers
<1>2. /\ longer \in Seq(Numbers) /\ longer # <<>>
      /\ Len(longer) = Len(reports) + 1
      /\ \A i \in 1..Len(reports) : longer[i] = reports[i]
      /\ longer[Len(reports) + 1] = Succ(newest)
  BY <1>1, AppendProperties
<1>3. Len(reports) \in Nat /\ (reports # <<>> => Len(reports) > 0)
  OBVIOUS
<1> HIDE DEF longer
<1>4. longer[1] = Succ(sent)
  BY <1>2, <1>3 DEF Linked
<1>5. \A i \in 1..(Len(longer) - 1) : longer[i + 1] = Succ(longer[i])
  <2> SUFFICES ASSUME NEW i \in 1..Len(reports) PROVE longer[i + 1] = Succ(longer[i])
    BY <1>2, <1>3
  <2>1. CASE i = Len(reports)
    BY <2>1, <1>2, <1>3 DEF Linked
  <2>2. CASE i < Len(reports)
    BY <2>2, <1>2, <1>3 DEF Linked
  <2> QED
    BY <2>1, <2>2, <1>3
<1>6. Linked(longer, Succ(newest), sent)
  BY <1>2, <1>4, <1>5 DEF Linked
<1> QED
  BY <1>6 DEF longer

(* A report that is sent is the chain's first, and the rest follows it. *)
LEMMA LinkedSend ==
    ASSUME NEW reports \in Seq(Numbers), reports # <<>>,
           NEW newest \in Numbers, NEW sent \in Numbers,
           Linked(reports, newest, sent)
    PROVE  Linked(Tail(reports), newest, Head(reports))
<1> DEFINE rest == Tail(reports)
<1>1. /\ rest \in Seq(Numbers) /\ Len(rest) = Len(reports) - 1
      /\ \A i \in 1..Len(rest) : rest[i] = reports[i + 1]
  BY HeadTailProperties
<1>2. Len(reports) \in Nat /\ Len(reports) > 0 /\ Head(reports) = reports[1]
  OBVIOUS
<1>3. Len(rest) \in Nat /\ (rest = <<>> <=> Len(rest) = 0)
  BY <1>1
<1> HIDE DEF rest
<1>4. CASE Len(rest) = 0
  BY <1>1, <1>2, <1>3, <1>4 DEF Linked, rest
<1>5. CASE Len(rest) > 0
  <2>1. rest[1] = Succ(Head(reports))
    BY <1>1, <1>2, <1>5 DEF Linked
  <2>2. newest = rest[Len(rest)]
    BY <1>1, <1>2, <1>5 DEF Linked
  <2>3. \A i \in 1..(Len(rest) - 1) : rest[i + 1] = Succ(rest[i])
    BY <1>1, <1>2, <1>3 DEF Linked
  <2>4. Linked(rest, newest, Head(reports))
    BY <1>3, <1>5, <2>1, <2>2, <2>3 DEF Linked
  <2> QED
    BY <2>4 DEF rest
<1> QED
  BY <1>3, <1>4, <1>5

(* The slots promised are counted by a natural number. *)
LEMMA ReservedCount ==
    /\ IsFiniteSet(Reserved)
    /\ Cardinality(Reserved) \in Nat
<1>1. Reserved \subseteq Ids
  BY DEF Reserved
<1>2. IsFiniteSet(Reserved)
  BY <1>1, FS_Subset, CollectorAssumption
<1> QED
  BY <1>2, FS_CardinalityType

(* A slot taken is one more than before, at most. *)
LEMMA ReservedGrows ==
    ASSUME NEW id \in Ids, Reserved' \subseteq Reserved \cup {id}
    PROVE  /\ Cardinality(Reserved') <= Cardinality(Reserved) + 1
           /\ Cardinality(Reserved') \in Nat
<1>1. IsFiniteSet(Reserved) /\ Cardinality(Reserved) \in Nat
  BY ReservedCount
<1>2. IsFiniteSet(Reserved \cup {id})
      /\ Cardinality(Reserved \cup {id}) <= Cardinality(Reserved) + 1
  <2>1. Cardinality(Reserved \cup {id})
          = IF id \in Reserved THEN Cardinality(Reserved) ELSE Cardinality(Reserved) + 1
    BY <1>1, FS_AddElement, Zenon
  <2>2. IsFiniteSet(Reserved \cup {id})
    BY <1>1, FS_AddElement, Zenon
  <2> QED
    BY <1>1, <2>1, <2>2
<1>3. IsFiniteSet(Reserved')
  BY <1>2, FS_Subset
<1>4. Cardinality(Reserved') <= Cardinality(Reserved \cup {id})
  BY <1>2, FS_Subset
<1>5. Cardinality(Reserved') \in Nat /\ Cardinality(Reserved \cup {id}) \in Nat
  BY <1>2, <1>3, FS_CardinalityType
<1> QED
  BY <1>1, <1>2, <1>4, <1>5

(* A slot used is one less. *)
LEMMA ReservedShrinks ==
    ASSUME NEW id \in Reserved, Reserved' = Reserved \ {id}
    PROVE  Cardinality(Reserved') = Cardinality(Reserved) - 1
BY ReservedCount, FS_RemoveElement

(* Every step keeps the types. *)
LEMMA TypeStep ==
    ASSUME TypeOK, Slots, [Next]_vars PROVE TypeOK'
<1> USE CollectorAssumption DEF TypeOK, PCs, Kinds, registry, locals, history, Goto, Say, With
<1>1. ASSUME NEW id \in Ids, NEW modes \in Modes, Add(id, modes)
      PROVE  TypeOK'
  BY <1>1 DEF Add, Seat
<1>2. ASSUME NEW id \in Ids, Remove(id)
      PROVE  TypeOK'
  BY <1>2 DEF Remove
<1>3. ASSUME NEW id \in Ids, Spawn(id)
      PROVE  TypeOK'
  BY <1>3 DEF Spawn
<1>4. ASSUME NEW id \in Ids, StopArm(id)
      PROVE  TypeOK'
  BY <1>4 DEF StopArm, Stopping
<1>5. ASSUME NEW id \in Ids, ClosedArm(id)
      PROVE  TypeOK'
  BY <1>5 DEF ClosedArm, EndRun, DropHeld
<1>6. ASSUME NEW id \in Ids, ReserveArm(id)
      PROVE  TypeOK'
  <2>1. held[id] \in Seq(Numbers) /\ held[id] # <<>>
    BY <1>6 DEF ReserveArm, Attended, SendHeld, Holding, Numbers
  <2>2. Head(held[id]) \in Numbers /\ Tail(held[id]) \in Seq(Numbers)
    BY <2>1, HeadTailProperties
  <2>3. held' \in [Ids -> Seq(Numbers)]
    BY <1>6, <2>2 DEF ReserveArm, Attended, SendHeld, Numbers
  <2>4. last' \in [Ids -> [kind : Kinds, serial : Numbers]]
    BY <1>6, <2>2 DEF ReserveArm, Attended, SendHeld, Send, Numbers
  <2>5. queued' \in 0..Capacity
    BY <1>6, ReservedCount DEF ReserveArm, Attended, SendHeld, Send, Room
  <2> QED
    BY <1>6, <2>3, <2>4, <2>5 DEF ReserveArm, Attended, Numbers
<1>7. ASSUME NEW id \in Ids, Dispatch(id)
      PROVE  TypeOK'
  BY <1>7 DEF Dispatch, Quiet, Attended
<1>8. ASSUME NEW id \in Ids, Advance(id)
      PROVE  TypeOK'
  BY <1>8 DEF Advance, Quiet, Attended
<1>9. ASSUME NEW id \in Ids, WorkDone(id)
      PROVE  TypeOK'
  <2>1. Succ(finished[id]) \in Numbers
    BY SuccType DEF Numbers
  <2>2. held[id] \in Seq(Numbers)
    BY DEF Numbers
  <2>3. Append(held[id], Succ(finished[id])) \in Seq(Numbers)
    BY <2>1, <2>2, AppendProperties
  <2>5. held' \in [Ids -> Seq(Numbers)] /\ finished' \in [Ids -> Numbers]
    <3>1. CASE Hold(id)
      BY <2>1, <2>3, <3>1 DEF Hold, Numbers
    <3>2. CASE UNCHANGED <<held, history>>
      BY <3>2 DEF Numbers
    <3> QED
      BY <1>9, <3>1, <3>2 DEF WorkDone
  <2>6. UNCHANGED last
    BY <1>9 DEF WorkDone, Hold
  <2>7. flying' \in [Ids -> 0..InFlight]
    BY <1>9 DEF WorkDone
  <2> QED
    BY <1>9, <2>5, <2>6, <2>7 DEF WorkDone, Numbers
<1>10. ASSUME NEW id \in Ids, RuntimeShutdown(id)
      PROVE  TypeOK'
  BY <1>10 DEF RuntimeShutdown, EndRun, Quiet, Attended
<1>11. ASSUME NEW id \in Ids, StreamItem(id)
      PROVE  TypeOK'
  <2>1. Succ(finished[id]) \in Numbers
    BY SuccType DEF Numbers
  <2>2. held[id] \in Seq(Numbers)
    BY DEF Numbers
  <2>3. Append(held[id], Succ(finished[id])) \in Seq(Numbers)
    BY <2>1, <2>2, AppendProperties
  <2>4. held' \in [Ids -> Seq(Numbers)] /\ finished' \in [Ids -> Numbers]
    BY <1>11, <2>1, <2>3 DEF StreamItem, Hold, Numbers
  <2> QED
    BY <1>11, <2>4 DEF StreamItem, Hold, Quiet, Attended, Numbers
<1>12. ASSUME NEW id \in Ids, StreamsOver(id)
      PROVE  TypeOK'
  BY <1>12 DEF StreamsOver, Quiet, Attended
<1>13. ASSUME NEW id \in Ids, Panic(id)
      PROVE  TypeOK'
  BY <1>13 DEF Panic, Panics, EndRun, Quiet, Attended
<1>14. ASSUME NEW id \in Ids, Flush(id)
      PROVE  TypeOK'
  <2>1. held[id] \in Seq(Numbers) /\ held[id] # <<>>
    BY <1>14 DEF Flush, SendHeld, Holding, Numbers
  <2>2. Head(held[id]) \in Numbers /\ Tail(held[id]) \in Seq(Numbers)
    BY <2>1, HeadTailProperties
  <2>3. held' \in [Ids -> Seq(Numbers)]
    BY <1>14, <2>2 DEF Flush, SendHeld, Numbers
  <2>4. last' \in [Ids -> [kind : Kinds, serial : Numbers]]
    BY <1>14, <2>2 DEF Flush, SendHeld, Send, Numbers
  <2>5. queued' \in 0..Capacity
    BY <1>14, ReservedCount DEF Flush, SendHeld, Send, Room
  <2> QED
    BY <1>14, <2>3, <2>4, <2>5 DEF Flush, Numbers
<1>15. ASSUME NEW id \in Ids, FlushOver(id)
      PROVE  TypeOK'
  <2>1. CASE UNCHANGED <<held, finished>>
    BY <1>15, <2>1 DEF FlushOver
  <2>2. CASE DropHeld(id)
    BY <1>15, <2>2 DEF FlushOver, DropHeld
  <2> QED
    BY <1>15, <2>1, <2>2 DEF FlushOver
<1>16. ASSUME NEW id \in Ids, RetireReserve(id)
      PROVE  TypeOK'
  BY <1>16 DEF RetireReserve
<1>17. ASSUME NEW id \in Ids, Abandon(id)
      PROVE  TypeOK'
  BY <1>17 DEF Abandon, EndRun, DropHeld
<1>18. ASSUME NEW id \in Ids, Retire(id)
      PROVE  TypeOK'
  <2>1. id \in Reserved
    BY <1>18 DEF Retire, Reserved
  <2>2. Cardinality(Reserved) # 0
    BY <2>1, ReservedCount, FS_EmptySet
  <2>3. queued + 1 \in 0..Capacity
    BY <2>2, ReservedCount DEF Slots
  <2> QED
    BY <1>18, <2>3 DEF Retire, Leave, Send
<1>19. ASSUME NEW id \in Ids, RetireSilently(id)
      PROVE  TypeOK'
  BY <1>19 DEF RetireSilently, Leave
<1>20. CASE Shutdown
  BY <1>20 DEF Shutdown
<1>21. CASE Receive
  BY <1>21 DEF Receive
<1>22. CASE ReceiveEnd
  BY <1>22 DEF ReceiveEnd
<1>23. CASE DropReports
  BY <1>23 DEF DropReports
<1>24. CASE UNCHANGED vars
  BY <1>24 DEF vars
<1> QED
  BY <1>1, <1>2, <1>3, <1>4, <1>5, <1>6, <1>7, <1>8, <1>9, <1>10,
     <1>11, <1>12, <1>13, <1>14, <1>15, <1>16, <1>17, <1>18, <1>19, <1>20,
     <1>21, <1>22, <1>23, <1>24 DEF Next, Handles, Running, Leaving

(* Every step keeps the queue within its capacity. *)
LEMMA SlotsStep ==
    ASSUME TypeOK, SeatsAreTasks, Slots, [Next]_vars PROVE Slots'
<1> USE CollectorAssumption DEF TypeOK, PCs, Kinds, registry, locals, history, Goto, Say, With, Slots
<1>1. ASSUME NEW id \in Ids, NEW modes \in Modes, Add(id, modes)
      PROVE  Slots'
  <2>1. Reserved' = Reserved
    BY <1>1 DEF Add, Seat, SeatsAreTasks, Reserved
  <2> QED
    BY <1>1, <2>1 DEF Add, Seat, SeatsAreTasks
<1>2. ASSUME NEW id \in Ids, Remove(id)
      PROVE  Slots'
  <2>1. Reserved' = Reserved
    BY <1>2 DEF Remove, Reserved
  <2> QED
    BY <1>2, <2>1 DEF Remove
<1>3. ASSUME NEW id \in Ids, Spawn(id)
      PROVE  Slots'
  <2>1. Reserved' = Reserved
    BY <1>3 DEF Spawn, Reserved
  <2> QED
    BY <1>3, <2>1 DEF Spawn
<1>4. ASSUME NEW id \in Ids, StopArm(id)
      PROVE  Slots'
  <2>1. Reserved' = Reserved
    BY <1>4 DEF StopArm, Stopping, Reserved
  <2> QED
    BY <1>4, <2>1 DEF StopArm, Stopping
<1>5. ASSUME NEW id \in Ids, ClosedArm(id)
      PROVE  Slots'
  <2>1. Reserved' = Reserved
    BY <1>5 DEF ClosedArm, EndRun, DropHeld, Reserved
  <2> QED
    BY <1>5, <2>1 DEF ClosedArm, EndRun, DropHeld
<1>6. ASSUME NEW id \in Ids, ReserveArm(id)
      PROVE  Slots'
  <2>1. Reserved' = Reserved
    BY <1>6 DEF ReserveArm, SendHeld, Send, Attended, Reserved
  <2>2. Room
    BY <1>6 DEF ReserveArm, SendHeld, Send, Attended
  <2> QED
    BY <1>6, <2>1, <2>2, ReservedCount DEF ReserveArm, SendHeld, Send, Attended, Room
<1>7. ASSUME NEW id \in Ids, Dispatch(id)
      PROVE  Slots'
  <2>1. Reserved' = Reserved
    BY <1>7 DEF Dispatch, Quiet, Attended, Reserved
  <2> QED
    BY <1>7, <2>1 DEF Dispatch, Quiet, Attended
<1>8. ASSUME NEW id \in Ids, Advance(id)
      PROVE  Slots'
  <2>1. Reserved' = Reserved
    BY <1>8 DEF Advance, Quiet, Attended, Reserved
  <2> QED
    BY <1>8, <2>1 DEF Advance, Quiet, Attended
<1>9. ASSUME NEW id \in Ids, WorkDone(id)
      PROVE  Slots'
  <2>1. Reserved' = Reserved
    BY <1>9 DEF WorkDone, Reserved
  <2> QED
    BY <1>9, <2>1 DEF WorkDone
<1>10. ASSUME NEW id \in Ids, RuntimeShutdown(id)
      PROVE  Slots'
  <2>1. Reserved' = Reserved
    BY <1>10 DEF RuntimeShutdown, EndRun, Quiet, Attended, Reserved
  <2> QED
    BY <1>10, <2>1 DEF RuntimeShutdown, EndRun, Quiet, Attended
<1>11. ASSUME NEW id \in Ids, StreamItem(id)
      PROVE  Slots'
  <2>1. Reserved' = Reserved
    BY <1>11 DEF StreamItem, Reserved
  <2> QED
    BY <1>11, <2>1 DEF StreamItem
<1>12. ASSUME NEW id \in Ids, StreamsOver(id)
      PROVE  Slots'
  <2>1. Reserved' = Reserved
    BY <1>12 DEF StreamsOver, Quiet, Attended, Reserved
  <2> QED
    BY <1>12, <2>1 DEF StreamsOver, Quiet, Attended
<1>13. ASSUME NEW id \in Ids, Panic(id)
      PROVE  Slots'
  <2>1. Reserved' = Reserved
    BY <1>13 DEF Panic, Panics, EndRun, Quiet, Attended, Reserved
  <2> QED
    BY <1>13, <2>1 DEF Panic, Panics, EndRun, Quiet, Attended
<1>14. ASSUME NEW id \in Ids, Flush(id)
      PROVE  Slots'
  <2>1. Reserved' = Reserved
    BY <1>14 DEF Flush, SendHeld, Send, Reserved
  <2>2. Room
    BY <1>14 DEF Flush, SendHeld, Send
  <2> QED
    BY <1>14, <2>1, <2>2, ReservedCount DEF Flush, SendHeld, Send, Room
<1>15. ASSUME NEW id \in Ids, FlushOver(id)
      PROVE  Slots'
  <2>1. Reserved' = Reserved
    BY <1>15 DEF FlushOver, DropHeld, Reserved
  <2> QED
    BY <1>15, <2>1 DEF FlushOver, DropHeld
<1>16. ASSUME NEW id \in Ids, RetireReserve(id)
      PROVE  Slots'
  <2>1. CASE consumer # "gone" /\ Room /\ Goto(id, "reserved")
    <3>1. Reserved' \subseteq Reserved \cup {id}
      BY <2>1 DEF Reserved
    <3> QED
      <4>1. /\ Cardinality(Reserved') <= Cardinality(Reserved) + 1
            /\ Cardinality(Reserved') \in Nat
        BY <3>1, ReservedGrows
      <4> QED
        BY <1>16, <2>1, <4>1, ReservedCount DEF RetireReserve, Room
  <2>2. CASE consumer = "gone" /\ Goto(id, "silent")
    <3>1. Reserved' = Reserved
      BY <1>16, <2>2 DEF RetireReserve, Reserved
    <3> QED
      BY <1>16, <3>1 DEF RetireReserve
  <2> QED
    BY <1>16, <2>1, <2>2 DEF RetireReserve
<1>17. ASSUME NEW id \in Ids, Abandon(id)
      PROVE  Slots'
  <2>1. CASE consumer # "gone" /\ Room
    <3>1. Reserved' \subseteq Reserved \cup {id}
      BY <1>17, <2>1 DEF Abandon, EndRun, Reserved
    <3> QED
      <4>1. /\ Cardinality(Reserved') <= Cardinality(Reserved) + 1
            /\ Cardinality(Reserved') \in Nat
        BY <3>1, ReservedGrows
      <4> QED
        BY <1>17, <2>1, <4>1, ReservedCount DEF Abandon, Room
  <2>2. CASE ~(consumer # "gone" /\ Room)
    <3>1. Reserved' = Reserved
      BY <1>17, <2>2 DEF Abandon, EndRun, Reserved
    <3> QED
      BY <1>17, <3>1 DEF Abandon
  <2> QED
    BY <2>1, <2>2
<1>18. ASSUME NEW id \in Ids, Retire(id)
      PROVE  Slots'
  <2>1. id \in Reserved /\ Reserved' = Reserved \ {id}
    BY <1>18 DEF Retire, Leave, Reserved
  <2>2. Cardinality(Reserved') = Cardinality(Reserved) - 1
    BY <2>1, ReservedShrinks
  <2> QED
    BY <1>18, <2>2, ReservedCount DEF Retire, Leave, Send
<1>19. ASSUME NEW id \in Ids, RetireSilently(id)
      PROVE  Slots'
  <2>1. Reserved' = Reserved
    BY <1>19 DEF RetireSilently, Leave, Reserved
  <2> QED
    BY <1>19, <2>1 DEF RetireSilently, Leave
<1>20. CASE Shutdown
  <2>1. Reserved' = Reserved
    BY <1>20 DEF Shutdown, Reserved
  <2> QED
    BY <1>20, <2>1 DEF Shutdown
<1>21. CASE Receive
  <2>1. Reserved' = Reserved
    BY <1>21 DEF Receive, Reserved
  <2> QED
    BY <1>21, <2>1, ReservedCount DEF Receive
<1>22. CASE ReceiveEnd
  <2>1. Reserved' = Reserved
    BY <1>22 DEF ReceiveEnd, Reserved
  <2> QED
    BY <1>22, <2>1 DEF ReceiveEnd
<1>23. CASE DropReports
  <2>1. Reserved' = Reserved
    BY <1>23 DEF DropReports, Reserved
  <2> QED
    BY <1>23, <2>1, ReservedCount DEF DropReports
<1>24. CASE UNCHANGED vars
  <2>1. Reserved' = Reserved
    BY <1>24 DEF vars, Reserved
  <2> QED
    BY <1>24, <2>1 DEF vars
<1> QED
  BY <1>1, <1>2, <1>3, <1>4, <1>5, <1>6, <1>7, <1>8, <1>9, <1>10,
     <1>11, <1>12, <1>13, <1>14, <1>15, <1>16, <1>17, <1>18, <1>19, <1>20,
     <1>21, <1>22, <1>23, <1>24 DEF Next, Handles, Running, Leaving

(* Every step keeps the registry's ids those of the tasks. *)
LEMMA SeatsStep ==
    ASSUME TypeOK, SeatsAreTasks, [Next]_vars PROVE SeatsAreTasks'
<1> USE DEF TypeOK, PCs, Kinds, registry, locals, history, Goto, Say, With, SeatsAreTasks
<1>1. ASSUME NEW id \in Ids, NEW modes \in Modes, Add(id, modes)
      PROVE  SeatsAreTasks'
  BY <1>1 DEF Add, Seat
<1>2. ASSUME NEW id \in Ids, Remove(id)
      PROVE  SeatsAreTasks'
  BY <1>2 DEF Remove
<1>3. ASSUME NEW id \in Ids, Spawn(id)
      PROVE  SeatsAreTasks'
  BY <1>3 DEF Spawn
<1>4. ASSUME NEW id \in Ids, StopArm(id)
      PROVE  SeatsAreTasks'
  BY <1>4 DEF StopArm, Stopping
<1>5. ASSUME NEW id \in Ids, ClosedArm(id)
      PROVE  SeatsAreTasks'
  BY <1>5 DEF ClosedArm, EndRun, DropHeld
<1>6. ASSUME NEW id \in Ids, ReserveArm(id)
      PROVE  SeatsAreTasks'
  BY <1>6 DEF ReserveArm, SendHeld, Send, Attended
<1>7. ASSUME NEW id \in Ids, Dispatch(id)
      PROVE  SeatsAreTasks'
  BY <1>7 DEF Dispatch, Quiet, Attended
<1>8. ASSUME NEW id \in Ids, Advance(id)
      PROVE  SeatsAreTasks'
  BY <1>8 DEF Advance, Quiet, Attended
<1>9. ASSUME NEW id \in Ids, WorkDone(id)
      PROVE  SeatsAreTasks'
  BY <1>9 DEF WorkDone, Hold, Quiet, Attended
<1>10. ASSUME NEW id \in Ids, RuntimeShutdown(id)
      PROVE  SeatsAreTasks'
  BY <1>10 DEF RuntimeShutdown, EndRun, Quiet, Attended
<1>11. ASSUME NEW id \in Ids, StreamItem(id)
      PROVE  SeatsAreTasks'
  BY <1>11 DEF StreamItem, Hold, Quiet, Attended
<1>12. ASSUME NEW id \in Ids, StreamsOver(id)
      PROVE  SeatsAreTasks'
  BY <1>12 DEF StreamsOver, Quiet, Attended
<1>13. ASSUME NEW id \in Ids, Panic(id)
      PROVE  SeatsAreTasks'
  BY <1>13 DEF Panic, Panics, EndRun, Quiet, Attended
<1>14. ASSUME NEW id \in Ids, Flush(id)
      PROVE  SeatsAreTasks'
  BY <1>14 DEF Flush, SendHeld, Send
<1>15. ASSUME NEW id \in Ids, FlushOver(id)
      PROVE  SeatsAreTasks'
  BY <1>15 DEF FlushOver, DropHeld
<1>16. ASSUME NEW id \in Ids, RetireReserve(id)
      PROVE  SeatsAreTasks'
  BY <1>16 DEF RetireReserve
<1>17. ASSUME NEW id \in Ids, Abandon(id)
      PROVE  SeatsAreTasks'
  BY <1>17 DEF Abandon, EndRun, DropHeld
<1>18. ASSUME NEW id \in Ids, Retire(id)
      PROVE  SeatsAreTasks'
  BY <1>18 DEF Retire, Leave, Send
<1>19. ASSUME NEW id \in Ids, RetireSilently(id)
      PROVE  SeatsAreTasks'
  BY <1>19 DEF RetireSilently, Leave
<1>20. CASE Shutdown
  BY <1>20 DEF Shutdown
<1>21. CASE Receive
  BY <1>21 DEF Receive
<1>22. CASE ReceiveEnd
  BY <1>22 DEF ReceiveEnd
<1>23. CASE DropReports
  BY <1>23 DEF DropReports
<1>24. CASE UNCHANGED vars
  BY <1>24 DEF vars
<1> QED
  BY <1>1, <1>2, <1>3, <1>4, <1>5, <1>6, <1>7, <1>8, <1>9, <1>10,
     <1>11, <1>12, <1>13, <1>14, <1>15, <1>16, <1>17, <1>18, <1>19, <1>20,
     <1>21, <1>22, <1>23, <1>24 DEF Next, Handles, Running, Leaving

(* Every step keeps the shutdown known to every endpoint. *)
LEMMA ReachStep ==
    ASSUME TypeOK, ShutdownReachesAll, [Next]_vars PROVE ShutdownReachesAll'
<1> USE DEF TypeOK, PCs, Kinds, registry, locals, history, Goto, Say, With, ShutdownReachesAll
<1>1. ASSUME NEW id \in Ids, NEW modes \in Modes, Add(id, modes)
      PROVE  ShutdownReachesAll'
  BY <1>1 DEF Add, Seat
<1>2. ASSUME NEW id \in Ids, Remove(id)
      PROVE  ShutdownReachesAll'
  BY <1>2 DEF Remove
<1>3. ASSUME NEW id \in Ids, Spawn(id)
      PROVE  ShutdownReachesAll'
  BY <1>3 DEF Spawn
<1>4. ASSUME NEW id \in Ids, StopArm(id)
      PROVE  ShutdownReachesAll'
  BY <1>4 DEF StopArm, Stopping
<1>5. ASSUME NEW id \in Ids, ClosedArm(id)
      PROVE  ShutdownReachesAll'
  BY <1>5 DEF ClosedArm, EndRun, DropHeld
<1>6. ASSUME NEW id \in Ids, ReserveArm(id)
      PROVE  ShutdownReachesAll'
  BY <1>6 DEF ReserveArm, SendHeld, Send, Attended
<1>7. ASSUME NEW id \in Ids, Dispatch(id)
      PROVE  ShutdownReachesAll'
  BY <1>7 DEF Dispatch, Quiet, Attended
<1>8. ASSUME NEW id \in Ids, Advance(id)
      PROVE  ShutdownReachesAll'
  BY <1>8 DEF Advance, Quiet, Attended
<1>9. ASSUME NEW id \in Ids, WorkDone(id)
      PROVE  ShutdownReachesAll'
  BY <1>9 DEF WorkDone, Hold, Quiet, Attended
<1>10. ASSUME NEW id \in Ids, RuntimeShutdown(id)
      PROVE  ShutdownReachesAll'
  BY <1>10 DEF RuntimeShutdown, EndRun, Quiet, Attended
<1>11. ASSUME NEW id \in Ids, StreamItem(id)
      PROVE  ShutdownReachesAll'
  BY <1>11 DEF StreamItem, Hold, Quiet, Attended
<1>12. ASSUME NEW id \in Ids, StreamsOver(id)
      PROVE  ShutdownReachesAll'
  BY <1>12 DEF StreamsOver, Quiet, Attended
<1>13. ASSUME NEW id \in Ids, Panic(id)
      PROVE  ShutdownReachesAll'
  BY <1>13 DEF Panic, Panics, EndRun, Quiet, Attended
<1>14. ASSUME NEW id \in Ids, Flush(id)
      PROVE  ShutdownReachesAll'
  BY <1>14 DEF Flush, SendHeld, Send
<1>15. ASSUME NEW id \in Ids, FlushOver(id)
      PROVE  ShutdownReachesAll'
  BY <1>15 DEF FlushOver, DropHeld
<1>16. ASSUME NEW id \in Ids, RetireReserve(id)
      PROVE  ShutdownReachesAll'
  BY <1>16 DEF RetireReserve
<1>17. ASSUME NEW id \in Ids, Abandon(id)
      PROVE  ShutdownReachesAll'
  BY <1>17 DEF Abandon, EndRun, DropHeld
<1>18. ASSUME NEW id \in Ids, Retire(id)
      PROVE  ShutdownReachesAll'
  BY <1>18 DEF Retire, Leave, Send
<1>19. ASSUME NEW id \in Ids, RetireSilently(id)
      PROVE  ShutdownReachesAll'
  BY <1>19 DEF RetireSilently, Leave
<1>20. CASE Shutdown
  BY <1>20 DEF Shutdown
<1>21. CASE Receive
  BY <1>21 DEF Receive
<1>22. CASE ReceiveEnd
  BY <1>22 DEF ReceiveEnd
<1>23. CASE DropReports
  BY <1>23 DEF DropReports
<1>24. CASE UNCHANGED vars
  BY <1>24 DEF vars
<1> QED
  BY <1>1, <1>2, <1>3, <1>4, <1>5, <1>6, <1>7, <1>8, <1>9, <1>10,
     <1>11, <1>12, <1>13, <1>14, <1>15, <1>16, <1>17, <1>18, <1>19, <1>20,
     <1>21, <1>22, <1>23, <1>24 DEF Next, Handles, Running, Leaving

(* Every step keeps idle what is outside the loop. *)
LEMMA IdleStep ==
    ASSUME TypeOK, SeatsAreTasks, Idle, [Next]_vars PROVE Idle'
<1> USE DEF TypeOK, PCs, Kinds, registry, locals, history, Goto, Say, With, SeatsAreTasks, Idle, Holding
<1>1. ASSUME NEW id \in Ids, NEW modes \in Modes, Add(id, modes)
      PROVE  Idle'
  BY <1>1 DEF Add, Seat
<1>2. ASSUME NEW id \in Ids, Remove(id)
      PROVE  Idle'
  BY <1>2 DEF Remove
<1>3. ASSUME NEW id \in Ids, Spawn(id)
      PROVE  Idle'
  BY <1>3 DEF Spawn
<1>4. ASSUME NEW id \in Ids, StopArm(id)
      PROVE  Idle'
  BY <1>4 DEF StopArm, Stopping
<1>5. ASSUME NEW id \in Ids, ClosedArm(id)
      PROVE  Idle'
  BY <1>5 DEF ClosedArm, EndRun, DropHeld
<1>6. ASSUME NEW id \in Ids, ReserveArm(id)
      PROVE  Idle'
  BY <1>6 DEF ReserveArm, SendHeld, Send, Attended
<1>7. ASSUME NEW id \in Ids, Dispatch(id)
      PROVE  Idle'
  BY <1>7 DEF Dispatch, Quiet, Attended
<1>8. ASSUME NEW id \in Ids, Advance(id)
      PROVE  Idle'
  BY <1>8 DEF Advance, Quiet, Attended
<1>9. ASSUME NEW id \in Ids, WorkDone(id)
      PROVE  Idle'
  BY <1>9 DEF WorkDone, Hold, Quiet, Attended
<1>10. ASSUME NEW id \in Ids, RuntimeShutdown(id)
      PROVE  Idle'
  BY <1>10 DEF RuntimeShutdown, EndRun, Quiet, Attended
<1>11. ASSUME NEW id \in Ids, StreamItem(id)
      PROVE  Idle'
  BY <1>11 DEF StreamItem, Hold, Quiet, Attended
<1>12. ASSUME NEW id \in Ids, StreamsOver(id)
      PROVE  Idle'
  BY <1>12 DEF StreamsOver, Quiet, Attended
<1>13. ASSUME NEW id \in Ids, Panic(id)
      PROVE  Idle'
  BY <1>13 DEF Panic, Panics, EndRun, Quiet, Attended
<1>14. ASSUME NEW id \in Ids, Flush(id)
      PROVE  Idle'
  BY <1>14 DEF Flush, SendHeld, Send
<1>15. ASSUME NEW id \in Ids, FlushOver(id)
      PROVE  Idle'
  BY <1>15 DEF FlushOver, DropHeld
<1>16. ASSUME NEW id \in Ids, RetireReserve(id)
      PROVE  Idle'
  BY <1>16 DEF RetireReserve
<1>17. ASSUME NEW id \in Ids, Abandon(id)
      PROVE  Idle'
  BY <1>17 DEF Abandon, EndRun, DropHeld
<1>18. ASSUME NEW id \in Ids, Retire(id)
      PROVE  Idle'
  BY <1>18 DEF Retire, Leave, Send
<1>19. ASSUME NEW id \in Ids, RetireSilently(id)
      PROVE  Idle'
  BY <1>19 DEF RetireSilently, Leave
<1>20. CASE Shutdown
  BY <1>20 DEF Shutdown
<1>21. CASE Receive
  BY <1>21 DEF Receive
<1>22. CASE ReceiveEnd
  BY <1>22 DEF ReceiveEnd
<1>23. CASE DropReports
  BY <1>23 DEF DropReports
<1>24. CASE UNCHANGED vars
  BY <1>24 DEF vars
<1> QED
  BY <1>1, <1>2, <1>3, <1>4, <1>5, <1>6, <1>7, <1>8, <1>9, <1>10,
     <1>11, <1>12, <1>13, <1>14, <1>15, <1>16, <1>17, <1>18, <1>19, <1>20,
     <1>21, <1>22, <1>23, <1>24 DEF Next, Handles, Running, Leaving

(* Every step keeps the backlog within what was owed. *)
LEMMA BacklogStep ==
    ASSUME TypeOK, SeatsAreTasks, Idle, Backlog, [Next]_vars PROVE Backlog'
<1> USE DEF TypeOK, PCs, Kinds, registry, locals, history, Goto, Say, With
<1>1. ASSUME NEW id \in Ids, NEW modes \in Modes, Add(id, modes)
      PROVE  Backlog'
  <2>1. \A i \in Ids \ {id} :
          held'[i] = held[i] /\ due'[i] = due[i] /\ flying'[i] = flying[i]
    BY <1>1 DEF Add, Seat
  <2>2. /\ Len(held[id]) \in Nat /\ (held[id] = <<>> <=> Len(held[id]) = 0)
        /\ due[id] \in 0..Units /\ flying[id] \in 0..InFlight
    OBVIOUS
  <2>4. held'[id] = held[id] /\ due'[id] = Units /\ flying'[id] = flying[id] /\ held[id] = <<>>
    BY <1>1 DEF Add, Seat, Idle, SeatsAreTasks
  <2>5. Owes(held[id], due[id], flying[id])
    BY DEF Backlog
  <2>3. Owes(held'[id], due'[id], flying'[id])
    BY <1>1, <2>2, <2>4, <2>5, CollectorAssumption DEF Owes, Add, Seat
  <2> QED
    BY <2>1, <2>3 DEF Backlog
<1>2. ASSUME NEW id \in Ids, Remove(id)
      PROVE  Backlog'
  <2>1. UNCHANGED <<held, due, flying>>
    BY <1>2 DEF Remove
  <2> QED
    BY <2>1 DEF Backlog
<1>3. ASSUME NEW id \in Ids, Spawn(id)
      PROVE  Backlog'
  <2>1. UNCHANGED <<held, due, flying>>
    BY <1>3 DEF Spawn
  <2> QED
    BY <2>1 DEF Backlog
<1>4. ASSUME NEW id \in Ids, StopArm(id)
      PROVE  Backlog'
  <2>1. \A i \in Ids \ {id} :
          held'[i] = held[i] /\ due'[i] = due[i] /\ flying'[i] = flying[i]
    BY <1>4 DEF StopArm, Stopping
  <2>2. /\ Len(held[id]) \in Nat /\ (held[id] = <<>> <=> Len(held[id]) = 0)
        /\ due[id] \in 0..Units /\ flying[id] \in 0..InFlight
    OBVIOUS
  <2>4. held'[id] = held[id] /\ due'[id] = 0 /\ flying'[id] = flying[id]
    BY <1>4 DEF StopArm, Stopping
  <2>5. Owes(held[id], due[id], flying[id])
    BY DEF Backlog
  <2>3. Owes(held'[id], due'[id], flying'[id])
    BY <1>4, <2>2, <2>4, <2>5, CollectorAssumption DEF Owes, StopArm, Stopping
  <2> QED
    BY <2>1, <2>3 DEF Backlog
<1>5. ASSUME NEW id \in Ids, ClosedArm(id)
      PROVE  Backlog'
  <2>1. \A i \in Ids \ {id} :
          held'[i] = held[i] /\ due'[i] = due[i] /\ flying'[i] = flying[i]
    BY <1>5 DEF ClosedArm, EndRun, DropHeld
  <2>2. /\ Len(held[id]) \in Nat /\ (held[id] = <<>> <=> Len(held[id]) = 0)
        /\ due[id] \in 0..Units /\ flying[id] \in 0..InFlight
    OBVIOUS
  <2>4. held'[id] = <<>>
    BY <1>5 DEF ClosedArm, EndRun, DropHeld
  <2>5. Owes(held[id], due[id], flying[id])
    BY DEF Backlog
  <2>3. Owes(held'[id], due'[id], flying'[id])
    BY <1>5, <2>2, <2>4, <2>5, CollectorAssumption DEF Owes, ClosedArm, EndRun, DropHeld
  <2> QED
    BY <2>1, <2>3 DEF Backlog
<1>6. ASSUME NEW id \in Ids, ReserveArm(id)
      PROVE  Backlog'
  <2>1. \A i \in Ids \ {id} :
          held'[i] = held[i] /\ due'[i] = due[i] /\ flying'[i] = flying[i]
    BY <1>6 DEF ReserveArm, SendHeld, Send, Attended
  <2>2. /\ Len(held[id]) \in Nat /\ (held[id] = <<>> <=> Len(held[id]) = 0)
        /\ due[id] \in 0..Units /\ flying[id] \in 0..InFlight
    OBVIOUS
  <2>4. held'[id] = Tail(held[id]) /\ due'[id] = due[id] /\ flying'[id] = flying[id]
        /\ held[id] # <<>>
    BY <1>6 DEF ReserveArm, SendHeld, Send, Attended, Holding
  <2>5. Owes(held[id], due[id], flying[id])
    BY DEF Backlog
  <2>6. Len(held'[id]) = Len(held[id]) - 1
    BY <2>4
  <2>3. Owes(held'[id], due'[id], flying'[id])
    BY <2>2, <2>4, <2>5, <2>6, CollectorAssumption DEF Owes
  <2> QED
    BY <2>1, <2>3 DEF Backlog
<1>7. ASSUME NEW id \in Ids, Dispatch(id)
      PROVE  Backlog'
  <2>1. \A i \in Ids \ {id} :
          held'[i] = held[i] /\ due'[i] = due[i] /\ flying'[i] = flying[i]
    BY <1>7 DEF Dispatch, Quiet, Attended
  <2>2. /\ Len(held[id]) \in Nat /\ (held[id] = <<>> <=> Len(held[id]) = 0)
        /\ due[id] \in 0..Units /\ flying[id] \in 0..InFlight
    OBVIOUS
  <2>4. held'[id] = held[id] /\ due'[id] = due[id] - 1 /\ flying'[id] = flying[id] + 1
    BY <1>7 DEF Dispatch, Quiet, Attended
  <2>5. Owes(held[id], due[id], flying[id])
    BY DEF Backlog
  <2>3. Owes(held'[id], due'[id], flying'[id])
    BY <1>7, <2>2, <2>4, <2>5, CollectorAssumption DEF Owes, Dispatch, Quiet, Attended
  <2> QED
    BY <2>1, <2>3 DEF Backlog
<1>8. ASSUME NEW id \in Ids, Advance(id)
      PROVE  Backlog'
  <2>1. \A i \in Ids \ {id} :
          held'[i] = held[i] /\ due'[i] = due[i] /\ flying'[i] = flying[i]
    BY <1>8 DEF Advance, Quiet, Attended
  <2>2. /\ Len(held[id]) \in Nat /\ (held[id] = <<>> <=> Len(held[id]) = 0)
        /\ due[id] \in 0..Units /\ flying[id] \in 0..InFlight
    OBVIOUS
  <2>4. held'[id] = held[id] /\ held[id] = <<>>
    BY <1>8 DEF Advance, Quiet, Attended, Holding
  <2>5. Owes(held[id], due[id], flying[id])
    BY DEF Backlog
  <2>3. Owes(held'[id], due'[id], flying'[id])
    BY <1>8, <2>2, <2>4, <2>5, CollectorAssumption DEF Owes, Advance, Quiet, Attended
  <2> QED
    BY <2>1, <2>3 DEF Backlog
<1>9. ASSUME NEW id \in Ids, WorkDone(id)
      PROVE  Backlog'
  <2>1. \A i \in Ids \ {id} :
          held'[i] = held[i] /\ due'[i] = due[i] /\ flying'[i] = flying[i]
    BY <1>9 DEF WorkDone, Hold, Quiet, Attended
  <2>2. /\ Len(held[id]) \in Nat /\ (held[id] = <<>> <=> Len(held[id]) = 0)
        /\ due[id] \in 0..Units /\ flying[id] \in 0..InFlight
    OBVIOUS
  <2>4. due'[id] = due[id] /\ flying'[id] = flying[id] - 1 /\ flying[id] > 0
    BY <1>9 DEF WorkDone, Hold, Quiet, Attended
  <2>5. Owes(held[id], due[id], flying[id])
    BY DEF Backlog
  <2>6. Len(held'[id]) \in Nat /\ Len(held'[id]) <= Len(held[id]) + 1
    <3>1. held'[id] \in {held[id], Append(held[id], Succ(finished[id]))}
      BY <1>9 DEF WorkDone, Hold, Quiet, Attended
    <3> QED
      BY <3>1
  <2>7. Len(held[id]) + due[id] + flying[id] <= Units + InFlight + 1
    BY <2>2, <2>5, CollectorAssumption DEF Owes
  <2>8. Len(held'[id]) + due'[id] + flying'[id] <= Units + InFlight + 1
    <3>1. due[id] \in Nat /\ flying[id] \in Nat /\ Units \in Nat /\ InFlight \in Nat
      BY <2>2, CollectorAssumption
    <3>2. Len(held[id]) \in Nat
      BY <2>2
    <3>3. \A l, k, d, f, b \in Nat :
            k <= l + 1 /\ l + d + f <= b /\ f > 0 => k + d + (f - 1) <= b
      OBVIOUS
    <3>4. Units + InFlight + 1 \in Nat
      BY CollectorAssumption
    <3>5. Len(held'[id]) + due[id] + (flying[id] - 1) <= Units + InFlight + 1
      BY <2>4, <2>6, <2>7, <3>1, <3>2, <3>3, <3>4, Zenon
    <3> QED
      BY <2>4, <3>5, Zenon
  <2>3. Owes(held'[id], due'[id], flying'[id])
    BY <2>8 DEF Owes
  <2> QED
    BY <2>1, <2>3 DEF Backlog
<1>10. ASSUME NEW id \in Ids, RuntimeShutdown(id)
      PROVE  Backlog'
  <2>1. \A i \in Ids \ {id} :
          held'[i] = held[i] /\ due'[i] = due[i] /\ flying'[i] = flying[i]
    BY <1>10 DEF RuntimeShutdown, EndRun, Quiet, Attended
  <2>2. /\ Len(held[id]) \in Nat /\ (held[id] = <<>> <=> Len(held[id]) = 0)
        /\ due[id] \in 0..Units /\ flying[id] \in 0..InFlight
    OBVIOUS
  <2>4. held'[id] = held[id] /\ due'[id] = 0 /\ flying'[id] = 0
    BY <1>10 DEF RuntimeShutdown, EndRun, Quiet, Attended
  <2>5. Owes(held[id], due[id], flying[id])
    BY DEF Backlog
  <2>3. Owes(held'[id], due'[id], flying'[id])
    BY <1>10, <2>2, <2>4, <2>5, CollectorAssumption DEF Owes, RuntimeShutdown, EndRun, Quiet, Attended
  <2> QED
    BY <2>1, <2>3 DEF Backlog
<1>11. ASSUME NEW id \in Ids, StreamItem(id)
      PROVE  Backlog'
  <2>1. \A i \in Ids \ {id} :
          held'[i] = held[i] /\ due'[i] = due[i] /\ flying'[i] = flying[i]
    BY <1>11 DEF StreamItem, Hold, Quiet, Attended
  <2>2. /\ Len(held[id]) \in Nat /\ (held[id] = <<>> <=> Len(held[id]) = 0)
        /\ due[id] \in 0..Units /\ flying[id] \in 0..InFlight
    OBVIOUS
  <2>4. held[id] = <<>> /\ due'[id] = due[id] /\ flying'[id] = flying[id]
        /\ held'[id] = Append(held[id], Succ(finished[id]))
    BY <1>11 DEF StreamItem, Hold, Quiet, Attended, Holding
  <2>5. Len(held'[id]) = 1
    BY <2>4
  <2>3. Owes(held'[id], due'[id], flying'[id])
    BY <2>2, <2>4, <2>5, CollectorAssumption DEF Owes
  <2> QED
    BY <2>1, <2>3 DEF Backlog
<1>12. ASSUME NEW id \in Ids, StreamsOver(id)
      PROVE  Backlog'
  <2>1. \A i \in Ids \ {id} :
          held'[i] = held[i] /\ due'[i] = due[i] /\ flying'[i] = flying[i]
    BY <1>12 DEF StreamsOver, Quiet, Attended
  <2>2. /\ Len(held[id]) \in Nat /\ (held[id] = <<>> <=> Len(held[id]) = 0)
        /\ due[id] \in 0..Units /\ flying[id] \in 0..InFlight
    OBVIOUS
  <2>4. held'[id] = held[id] /\ due'[id] \in {0, due[id]} /\ flying'[id] = flying[id]
    BY <1>12 DEF StreamsOver, Quiet, Attended
  <2>5. Owes(held[id], due[id], flying[id])
    BY DEF Backlog
  <2>3. Owes(held'[id], due'[id], flying'[id])
    BY <1>12, <2>2, <2>4, <2>5, CollectorAssumption DEF Owes, StreamsOver, Quiet, Attended
  <2> QED
    BY <2>1, <2>3 DEF Backlog
<1>13. ASSUME NEW id \in Ids, Panic(id)
      PROVE  Backlog'
  <2>1. \A i \in Ids \ {id} :
          held'[i] = held[i] /\ due'[i] = due[i] /\ flying'[i] = flying[i]
    BY <1>13 DEF Panic, Panics, EndRun, Quiet, Attended
  <2>2. /\ Len(held[id]) \in Nat /\ (held[id] = <<>> <=> Len(held[id]) = 0)
        /\ due[id] \in 0..Units /\ flying[id] \in 0..InFlight
    OBVIOUS
  <2>4. held'[id] = held[id] /\ due'[id] = 0 /\ flying'[id] = 0
    BY <1>13 DEF Panic, Panics, EndRun, Quiet, Attended
  <2>5. Owes(held[id], due[id], flying[id])
    BY DEF Backlog
  <2>3. Owes(held'[id], due'[id], flying'[id])
    BY <1>13, <2>2, <2>4, <2>5, CollectorAssumption DEF Owes, Panic, Panics, EndRun, Quiet, Attended
  <2> QED
    BY <2>1, <2>3 DEF Backlog
<1>14. ASSUME NEW id \in Ids, Flush(id)
      PROVE  Backlog'
  <2>1. \A i \in Ids \ {id} :
          held'[i] = held[i] /\ due'[i] = due[i] /\ flying'[i] = flying[i]
    BY <1>14 DEF Flush, SendHeld, Send
  <2>2. /\ Len(held[id]) \in Nat /\ (held[id] = <<>> <=> Len(held[id]) = 0)
        /\ due[id] \in 0..Units /\ flying[id] \in 0..InFlight
    OBVIOUS
  <2>4. held'[id] = Tail(held[id]) /\ due'[id] = due[id] /\ flying'[id] = flying[id]
        /\ held[id] # <<>>
    BY <1>14 DEF Flush, SendHeld, Send, Holding
  <2>5. Owes(held[id], due[id], flying[id])
    BY DEF Backlog
  <2>6. Len(held'[id]) = Len(held[id]) - 1
    BY <2>4
  <2>3. Owes(held'[id], due'[id], flying'[id])
    BY <2>2, <2>4, <2>5, <2>6, CollectorAssumption DEF Owes
  <2> QED
    BY <2>1, <2>3 DEF Backlog
<1>15. ASSUME NEW id \in Ids, FlushOver(id)
      PROVE  Backlog'
  <2>1. \A i \in Ids \ {id} :
          held'[i] = held[i] /\ due'[i] = due[i] /\ flying'[i] = flying[i]
    BY <1>15 DEF FlushOver, DropHeld
  <2>2. /\ Len(held[id]) \in Nat /\ (held[id] = <<>> <=> Len(held[id]) = 0)
        /\ due[id] \in 0..Units /\ flying[id] \in 0..InFlight
    OBVIOUS
  <2>4. held'[id] = <<>>
    BY <1>15 DEF FlushOver, DropHeld, Holding
  <2>5. Owes(held[id], due[id], flying[id])
    BY DEF Backlog
  <2>3. Owes(held'[id], due'[id], flying'[id])
    BY <1>15, <2>2, <2>4, <2>5, CollectorAssumption DEF Owes, FlushOver, DropHeld
  <2> QED
    BY <2>1, <2>3 DEF Backlog
<1>16. ASSUME NEW id \in Ids, RetireReserve(id)
      PROVE  Backlog'
  <2>1. UNCHANGED <<held, due, flying>>
    BY <1>16 DEF RetireReserve
  <2> QED
    BY <2>1 DEF Backlog
<1>17. ASSUME NEW id \in Ids, Abandon(id)
      PROVE  Backlog'
  <2>1. \A i \in Ids \ {id} :
          held'[i] = held[i] /\ due'[i] = due[i] /\ flying'[i] = flying[i]
    BY <1>17 DEF Abandon, EndRun, DropHeld
  <2>2. /\ Len(held[id]) \in Nat /\ (held[id] = <<>> <=> Len(held[id]) = 0)
        /\ due[id] \in 0..Units /\ flying[id] \in 0..InFlight
    OBVIOUS
  <2>4. held'[id] = <<>>
    BY <1>17 DEF Abandon, EndRun, DropHeld
  <2>5. Owes(held[id], due[id], flying[id])
    BY DEF Backlog
  <2>3. Owes(held'[id], due'[id], flying'[id])
    BY <1>17, <2>2, <2>4, <2>5, CollectorAssumption DEF Owes, Abandon, EndRun, DropHeld
  <2> QED
    BY <2>1, <2>3 DEF Backlog
<1>18. ASSUME NEW id \in Ids, Retire(id)
      PROVE  Backlog'
  <2>1. UNCHANGED <<held, due, flying>>
    BY <1>18 DEF Retire, Leave, Send
  <2> QED
    BY <2>1 DEF Backlog
<1>19. ASSUME NEW id \in Ids, RetireSilently(id)
      PROVE  Backlog'
  <2>1. UNCHANGED <<held, due, flying>>
    BY <1>19 DEF RetireSilently, Leave
  <2> QED
    BY <2>1 DEF Backlog
<1>20. CASE Shutdown
  <2>1. UNCHANGED <<held, due, flying>>
    BY <1>20 DEF Shutdown
  <2> QED
    BY <2>1 DEF Backlog
<1>21. CASE Receive
  <2>1. UNCHANGED <<held, due, flying>>
    BY <1>21 DEF Receive
  <2> QED
    BY <2>1 DEF Backlog
<1>22. CASE ReceiveEnd
  <2>1. UNCHANGED <<held, due, flying>>
    BY <1>22 DEF ReceiveEnd
  <2> QED
    BY <2>1 DEF Backlog
<1>23. CASE DropReports
  <2>1. UNCHANGED <<held, due, flying>>
    BY <1>23 DEF DropReports
  <2> QED
    BY <2>1 DEF Backlog
<1>24. CASE UNCHANGED vars
  <2>1. UNCHANGED <<held, due, flying>>
    BY <1>24 DEF vars
  <2> QED
    BY <2>1 DEF Backlog
<1> QED
  BY <1>1, <1>2, <1>3, <1>4, <1>5, <1>6, <1>7, <1>8, <1>9, <1>10,
     <1>11, <1>12, <1>13, <1>14, <1>15, <1>16, <1>17, <1>18, <1>19, <1>20,
     <1>21, <1>22, <1>23, <1>24 DEF Next, Handles, Running, Leaving

(* Every step keeps the held reports without a gap. *)
LEMMA ChainStep ==
    ASSUME TypeOK, SeatsAreTasks, Idle, Chain, [Next]_vars PROVE Chain'
<1> USE DEF TypeOK, PCs, Kinds, registry, locals, history, Goto, Say, With
<1>1. ASSUME NEW id \in Ids, NEW modes \in Modes, Add(id, modes)
      PROVE  Chain'
  <2>1. \A i \in Ids \ {id} :
          held'[i] = held[i] /\ finished'[i] = finished[i] /\ last'[i] = last[i]
    BY <1>1 DEF Add, Seat
  <2>2. /\ held[id] \in Seq(Numbers) /\ finished[id] \in Numbers /\ last[id].serial \in Numbers
        /\ Linked(held[id], finished[id], last[id].serial)
    BY DEF Chain, Numbers
  <2>4. held'[id] = <<>> /\ finished'[id] = last'[id].serial
    BY <1>1 DEF Add, Seat, Idle, SeatsAreTasks
  <2>3. Linked(held'[id], finished'[id], last'[id].serial)
    BY <2>4 DEF Linked
  <2> QED
    BY <2>1, <2>3 DEF Chain
<1>2. ASSUME NEW id \in Ids, Remove(id)
      PROVE  Chain'
  <2>1. UNCHANGED <<held, finished, last>>
    BY <1>2 DEF Remove
  <2> QED
    BY <2>1 DEF Chain
<1>3. ASSUME NEW id \in Ids, Spawn(id)
      PROVE  Chain'
  <2>1. UNCHANGED <<held, finished, last>>
    BY <1>3 DEF Spawn
  <2> QED
    BY <2>1 DEF Chain
<1>4. ASSUME NEW id \in Ids, StopArm(id)
      PROVE  Chain'
  <2>1. UNCHANGED <<held, finished, last>>
    BY <1>4 DEF StopArm, Stopping
  <2> QED
    BY <2>1 DEF Chain
<1>5. ASSUME NEW id \in Ids, ClosedArm(id)
      PROVE  Chain'
  <2>1. \A i \in Ids \ {id} :
          held'[i] = held[i] /\ finished'[i] = finished[i] /\ last'[i] = last[i]
    BY <1>5 DEF ClosedArm, EndRun, DropHeld
  <2>2. /\ held[id] \in Seq(Numbers) /\ finished[id] \in Numbers /\ last[id].serial \in Numbers
        /\ Linked(held[id], finished[id], last[id].serial)
    BY DEF Chain, Numbers
  <2>4. held'[id] = <<>> /\ finished'[id] = last'[id].serial
    BY <1>5 DEF ClosedArm, EndRun, DropHeld
  <2>3. Linked(held'[id], finished'[id], last'[id].serial)
    BY <2>4 DEF Linked
  <2> QED
    BY <2>1, <2>3 DEF Chain
<1>6. ASSUME NEW id \in Ids, ReserveArm(id)
      PROVE  Chain'
  <2>1. \A i \in Ids \ {id} :
          held'[i] = held[i] /\ finished'[i] = finished[i] /\ last'[i] = last[i]
    BY <1>6 DEF ReserveArm, SendHeld, Send, Attended
  <2>2. /\ held[id] \in Seq(Numbers) /\ finished[id] \in Numbers /\ last[id].serial \in Numbers
        /\ Linked(held[id], finished[id], last[id].serial)
    BY DEF Chain, Numbers
  <2>4. /\ held[id] # <<>> /\ held'[id] = Tail(held[id])
        /\ finished'[id] = finished[id] /\ last'[id].serial = Head(held[id])
    BY <1>6 DEF ReserveArm, SendHeld, Send, Attended, Holding
  <2>3. Linked(held'[id], finished'[id], last'[id].serial)
    BY <2>2, <2>4, LinkedSend
  <2> QED
    BY <2>1, <2>3 DEF Chain
<1>7. ASSUME NEW id \in Ids, Dispatch(id)
      PROVE  Chain'
  <2>1. UNCHANGED <<held, finished, last>>
    BY <1>7 DEF Dispatch, Quiet, Attended
  <2> QED
    BY <2>1 DEF Chain
<1>8. ASSUME NEW id \in Ids, Advance(id)
      PROVE  Chain'
  <2>1. UNCHANGED <<held, finished, last>>
    BY <1>8 DEF Advance, Quiet, Attended
  <2> QED
    BY <2>1 DEF Chain
<1>9. ASSUME NEW id \in Ids, WorkDone(id)
      PROVE  Chain'
  <2>1. CASE Hold(id)
    <3>1. \A i \in Ids \ {id} :
            held'[i] = held[i] /\ finished'[i] = finished[i] /\ last'[i] = last[i]
      BY <2>1 DEF Hold
    <3>2. /\ held[id] \in Seq(Numbers) /\ finished[id] \in Numbers /\ last[id].serial \in Numbers
          /\ Linked(held[id], finished[id], last[id].serial)
      BY DEF Chain, Numbers
    <3>4. /\ held'[id] = Append(held[id], Succ(finished[id]))
          /\ finished'[id] = Succ(finished[id]) /\ last'[id].serial = last[id].serial
      BY <2>1 DEF Hold
    <3>3. Linked(held'[id], finished'[id], last'[id].serial)
      BY <3>2, <3>4, LinkedHold
    <3> QED
      BY <3>1, <3>3 DEF Chain
  <2>2. CASE UNCHANGED <<held, history>>
    BY <2>2 DEF Chain
  <2> QED
    BY <1>9, <2>1, <2>2 DEF WorkDone
<1>10. ASSUME NEW id \in Ids, RuntimeShutdown(id)
      PROVE  Chain'
  <2>1. UNCHANGED <<held, finished, last>>
    BY <1>10 DEF RuntimeShutdown, EndRun, Quiet, Attended
  <2> QED
    BY <2>1 DEF Chain
<1>11. ASSUME NEW id \in Ids, StreamItem(id)
      PROVE  Chain'
  <2>1. \A i \in Ids \ {id} :
          held'[i] = held[i] /\ finished'[i] = finished[i] /\ last'[i] = last[i]
    BY <1>11 DEF StreamItem, Hold, Quiet, Attended
  <2>2. /\ held[id] \in Seq(Numbers) /\ finished[id] \in Numbers /\ last[id].serial \in Numbers
        /\ Linked(held[id], finished[id], last[id].serial)
    BY DEF Chain, Numbers
  <2>4. /\ held'[id] = Append(held[id], Succ(finished[id]))
        /\ finished'[id] = Succ(finished[id]) /\ last'[id].serial = last[id].serial
    BY <1>11 DEF StreamItem, Hold, Quiet, Attended
  <2>3. Linked(held'[id], finished'[id], last'[id].serial)
    BY <2>2, <2>4, LinkedHold
  <2> QED
    BY <2>1, <2>3 DEF Chain
<1>12. ASSUME NEW id \in Ids, StreamsOver(id)
      PROVE  Chain'
  <2>1. UNCHANGED <<held, finished, last>>
    BY <1>12 DEF StreamsOver, Quiet, Attended
  <2> QED
    BY <2>1 DEF Chain
<1>13. ASSUME NEW id \in Ids, Panic(id)
      PROVE  Chain'
  <2>1. UNCHANGED <<held, finished, last>>
    BY <1>13 DEF Panic, Panics, EndRun, Quiet, Attended
  <2> QED
    BY <2>1 DEF Chain
<1>14. ASSUME NEW id \in Ids, Flush(id)
      PROVE  Chain'
  <2>1. \A i \in Ids \ {id} :
          held'[i] = held[i] /\ finished'[i] = finished[i] /\ last'[i] = last[i]
    BY <1>14 DEF Flush, SendHeld, Send
  <2>2. /\ held[id] \in Seq(Numbers) /\ finished[id] \in Numbers /\ last[id].serial \in Numbers
        /\ Linked(held[id], finished[id], last[id].serial)
    BY DEF Chain, Numbers
  <2>4. /\ held[id] # <<>> /\ held'[id] = Tail(held[id])
        /\ finished'[id] = finished[id] /\ last'[id].serial = Head(held[id])
    BY <1>14 DEF Flush, SendHeld, Send, Holding
  <2>3. Linked(held'[id], finished'[id], last'[id].serial)
    BY <2>2, <2>4, LinkedSend
  <2> QED
    BY <2>1, <2>3 DEF Chain
<1>15. ASSUME NEW id \in Ids, FlushOver(id)
      PROVE  Chain'
  <2>1. CASE UNCHANGED <<held, finished>>
    BY <1>15, <2>1 DEF FlushOver, Chain
  <2>2. CASE DropHeld(id)
    <3>1. \A i \in Ids \ {id} :
            held'[i] = held[i] /\ finished'[i] = finished[i] /\ last'[i] = last[i]
      BY <1>15, <2>2 DEF FlushOver, DropHeld
    <3>2. held'[id] = <<>> /\ finished'[id] = last'[id].serial
      BY <1>15, <2>2 DEF FlushOver, DropHeld
    <3>3. Linked(held'[id], finished'[id], last'[id].serial)
      BY <3>2 DEF Linked
    <3> QED
      BY <3>1, <3>3 DEF Chain
  <2> QED
    BY <1>15, <2>1, <2>2 DEF FlushOver
<1>16. ASSUME NEW id \in Ids, RetireReserve(id)
      PROVE  Chain'
  <2>1. UNCHANGED <<held, finished, last>>
    BY <1>16 DEF RetireReserve
  <2> QED
    BY <2>1 DEF Chain
<1>17. ASSUME NEW id \in Ids, Abandon(id)
      PROVE  Chain'
  <2>1. \A i \in Ids \ {id} :
          held'[i] = held[i] /\ finished'[i] = finished[i] /\ last'[i] = last[i]
    BY <1>17 DEF Abandon, EndRun, DropHeld
  <2>2. /\ held[id] \in Seq(Numbers) /\ finished[id] \in Numbers /\ last[id].serial \in Numbers
        /\ Linked(held[id], finished[id], last[id].serial)
    BY DEF Chain, Numbers
  <2>4. held'[id] = <<>> /\ finished'[id] = last'[id].serial
    BY <1>17 DEF Abandon, EndRun, DropHeld
  <2>3. Linked(held'[id], finished'[id], last'[id].serial)
    BY <2>4 DEF Linked
  <2> QED
    BY <2>1, <2>3 DEF Chain
<1>18. ASSUME NEW id \in Ids, Retire(id)
      PROVE  Chain'
  <2>1. \A i \in Ids \ {id} :
          held'[i] = held[i] /\ finished'[i] = finished[i] /\ last'[i] = last[i]
    BY <1>18 DEF Retire, Leave, Send
  <2>2. /\ held[id] \in Seq(Numbers) /\ finished[id] \in Numbers /\ last[id].serial \in Numbers
        /\ Linked(held[id], finished[id], last[id].serial)
    BY DEF Chain, Numbers
  <2>4. held[id] = <<>> /\ held'[id] = <<>> /\ finished'[id] = finished[id]
        /\ last'[id].serial = finished[id]
    BY <1>18 DEF Retire, Leave, Send, Idle
  <2>3. Linked(held'[id], finished'[id], last'[id].serial)
    BY <2>4 DEF Linked
  <2> QED
    BY <2>1, <2>3 DEF Chain
<1>19. ASSUME NEW id \in Ids, RetireSilently(id)
      PROVE  Chain'
  <2>1. \A i \in Ids \ {id} :
          held'[i] = held[i] /\ finished'[i] = finished[i] /\ last'[i] = last[i]
    BY <1>19 DEF RetireSilently, Leave
  <2>2. /\ held[id] \in Seq(Numbers) /\ finished[id] \in Numbers /\ last[id].serial \in Numbers
        /\ Linked(held[id], finished[id], last[id].serial)
    BY DEF Chain, Numbers
  <2>4. held[id] = <<>> /\ held'[id] = <<>> /\ finished'[id] = finished[id]
        /\ last'[id].serial = finished[id]
    BY <1>19 DEF RetireSilently, Leave, Idle
  <2>3. Linked(held'[id], finished'[id], last'[id].serial)
    BY <2>4 DEF Linked
  <2> QED
    BY <2>1, <2>3 DEF Chain
<1>20. CASE Shutdown
  <2>1. UNCHANGED <<held, finished, last>>
    BY <1>20 DEF Shutdown
  <2> QED
    BY <2>1 DEF Chain
<1>21. CASE Receive
  <2>1. UNCHANGED <<held, finished, last>>
    BY <1>21 DEF Receive
  <2> QED
    BY <2>1 DEF Chain
<1>22. CASE ReceiveEnd
  <2>1. UNCHANGED <<held, finished, last>>
    BY <1>22 DEF ReceiveEnd
  <2> QED
    BY <2>1 DEF Chain
<1>23. CASE DropReports
  <2>1. UNCHANGED <<held, finished, last>>
    BY <1>23 DEF DropReports
  <2> QED
    BY <2>1 DEF Chain
<1>24. CASE UNCHANGED vars
  <2>1. UNCHANGED <<held, finished, last>>
    BY <1>24 DEF vars
  <2> QED
    BY <2>1 DEF Chain
<1> QED
  BY <1>1, <1>2, <1>3, <1>4, <1>5, <1>6, <1>7, <1>8, <1>9, <1>10,
     <1>11, <1>12, <1>13, <1>14, <1>15, <1>16, <1>17, <1>18, <1>19, <1>20,
     <1>21, <1>22, <1>23, <1>24 DEF Next, Handles, Running, Leaving

(* Every step keeps what is said in line with the task. *)
LEMMA ToldStep ==
    ASSUME TypeOK, SeatsAreTasks, Told, [Next]_vars PROVE Told'
<1> USE DEF TypeOK, PCs, Kinds, registry, locals, history, Goto, Say, With, SeatsAreTasks, Told
<1>1. ASSUME NEW id \in Ids, NEW modes \in Modes, Add(id, modes)
      PROVE  Told'
  BY <1>1 DEF Add, Seat
<1>2. ASSUME NEW id \in Ids, Remove(id)
      PROVE  Told'
  BY <1>2 DEF Remove
<1>3. ASSUME NEW id \in Ids, Spawn(id)
      PROVE  Told'
  BY <1>3 DEF Spawn
<1>4. ASSUME NEW id \in Ids, StopArm(id)
      PROVE  Told'
  BY <1>4 DEF StopArm, Stopping
<1>5. ASSUME NEW id \in Ids, ClosedArm(id)
      PROVE  Told'
  BY <1>5 DEF ClosedArm, EndRun, DropHeld
<1>6. ASSUME NEW id \in Ids, ReserveArm(id)
      PROVE  Told'
  BY <1>6 DEF ReserveArm, SendHeld, Send, Attended
<1>7. ASSUME NEW id \in Ids, Dispatch(id)
      PROVE  Told'
  BY <1>7 DEF Dispatch, Quiet, Attended
<1>8. ASSUME NEW id \in Ids, Advance(id)
      PROVE  Told'
  BY <1>8 DEF Advance, Quiet, Attended
<1>9. ASSUME NEW id \in Ids, WorkDone(id)
      PROVE  Told'
  BY <1>9 DEF WorkDone, Hold, Quiet, Attended
<1>10. ASSUME NEW id \in Ids, RuntimeShutdown(id)
      PROVE  Told'
  BY <1>10 DEF RuntimeShutdown, EndRun, Quiet, Attended
<1>11. ASSUME NEW id \in Ids, StreamItem(id)
      PROVE  Told'
  BY <1>11 DEF StreamItem, Hold, Quiet, Attended
<1>12. ASSUME NEW id \in Ids, StreamsOver(id)
      PROVE  Told'
  BY <1>12 DEF StreamsOver, Quiet, Attended
<1>13. ASSUME NEW id \in Ids, Panic(id)
      PROVE  Told'
  BY <1>13 DEF Panic, Panics, EndRun, Quiet, Attended
<1>14. ASSUME NEW id \in Ids, Flush(id)
      PROVE  Told'
  BY <1>14 DEF Flush, SendHeld, Send
<1>15. ASSUME NEW id \in Ids, FlushOver(id)
      PROVE  Told'
  BY <1>15 DEF FlushOver, DropHeld
<1>16. ASSUME NEW id \in Ids, RetireReserve(id)
      PROVE  Told'
  BY <1>16 DEF RetireReserve
<1>17. ASSUME NEW id \in Ids, Abandon(id)
      PROVE  Told'
  BY <1>17 DEF Abandon, EndRun, DropHeld
<1>18. ASSUME NEW id \in Ids, Retire(id)
      PROVE  Told'
  BY <1>18 DEF Retire, Leave, Send
<1>19. ASSUME NEW id \in Ids, RetireSilently(id)
      PROVE  Told'
  BY <1>19 DEF RetireSilently, Leave
<1>20. CASE Shutdown
  BY <1>20 DEF Shutdown
<1>21. CASE Receive
  BY <1>21 DEF Receive
<1>22. CASE ReceiveEnd
  BY <1>22 DEF ReceiveEnd
<1>23. CASE DropReports
  BY <1>23 DEF DropReports
<1>24. CASE UNCHANGED vars
  BY <1>24 DEF vars
<1> QED
  BY <1>1, <1>2, <1>3, <1>4, <1>5, <1>6, <1>7, <1>8, <1>9, <1>10,
     <1>11, <1>12, <1>13, <1>14, <1>15, <1>16, <1>17, <1>18, <1>19, <1>20,
     <1>21, <1>22, <1>23, <1>24 DEF Next, Handles, Running, Leaving

IInv ==
    /\ TypeOK /\ Slots /\ SeatsAreTasks /\ ShutdownReachesAll
    /\ Idle /\ Backlog /\ Chain /\ Told

(* The inductive invariant holds of every behaviour of the collector. *)
THEOREM Invariant == Spec => []IInv
<1>1. Init => IInv
  <2> SUFFICES ASSUME Init PROVE IInv
    OBVIOUS
  <2>1. Reserved = {}
    BY DEF Init, Reserved
  <2>2. Cardinality(Reserved) = 0
    BY <2>1, FS_EmptySet
  <2>3. TypeOK
    BY CollectorAssumption DEF Init, TypeOK, PCs, Kinds
  <2>4. Slots
    BY <2>2, CollectorAssumption DEF Init, Slots
  <2>5. SeatsAreTasks /\ ShutdownReachesAll
    BY DEF Init, SeatsAreTasks, ShutdownReachesAll
  <2>6. Idle /\ Backlog /\ Chain /\ Told
    BY DEF Init, Idle, Backlog, Chain, Told, Owes, Linked
  <2> QED
    BY <2>3, <2>4, <2>5, <2>6 DEF IInv
<1>2. IInv /\ [Next]_vars => IInv'
  BY TypeStep, SlotsStep, SeatsStep, ReachStep, IdleStep, BacklogStep, ChainStep,
     ToldStep DEF IInv
<1> QED
  BY <1>1, <1>2, PTL DEF Spec

(* Types, and with them that the queue never outgrows its capacity.        *)
THEOREM TypeCorrect == Spec => []TypeOK
BY Invariant, PTL DEF IInv

(* The registry's ids are exactly the ids a task answers for.              *)
THEOREM RegistryIsExact == Spec => []SeatsAreTasks
BY Invariant, PTL DEF IInv

(* No endpoint misses the shutdown.                                        *)
THEOREM NobodyMissesShutdown == Spec => []ShutdownReachesAll
BY Invariant, PTL DEF IInv

(* A stalled consumer makes an endpoint hold no more than it already owed. *)
THEOREM HoldingIsBounded == Spec => []HeldBounded
<1>1. IInv => HeldBounded
  <2> SUFFICES ASSUME IInv, NEW id \in Ids
               PROVE  Len(held[id]) <= Units + InFlight + 1
    BY DEF HeldBounded
  <2>1. CASE held[id] = <<>>
    BY <2>1, CollectorAssumption
  <2>2. CASE held[id] # <<>>
    <3>1. Len(held[id]) \in Nat /\ due[id] \in Nat /\ flying[id] \in Nat
      BY DEF IInv, TypeOK
    <3> QED
      BY <2>2, <3>1, CollectorAssumption DEF IInv, Backlog, Owes
  <2> QED
    BY <2>1, <2>2
<1> QED
  BY <1>1, Invariant, PTL

(* One step says of an id only what may follow. *)
LEMMA OrderStep ==
    ASSUME TypeOK, SeatsAreTasks, Idle, Chain, Told, [Next]_vars PROVE SaidNext
<1> USE DEF TypeOK, PCs, Kinds, registry, locals, history, Goto, Say, With
<1>1. ASSUME NEW id \in Ids, NEW modes \in Modes, Add(id, modes)
      PROVE  SaidNext
  <2>1. \A i \in Ids \ {id} : last'[i] = last[i]
    BY <1>1 DEF Add, Seat
  <2>2. last'[id].kind = "added"
    BY <1>1 DEF Add, Seat
  <2>3. last[id].kind \in {"retired", "unsaid"}
    BY <1>1 DEF Add, Seat, Told, SeatsAreTasks
  <2> QED
    BY <2>1, <2>2, <2>3 DEF SaidNext
<1>2. ASSUME NEW id \in Ids, Remove(id)
      PROVE  SaidNext
  <2>1. UNCHANGED <<last>>
    BY <1>2 DEF Remove
  <2> QED
    BY <2>1 DEF SaidNext
<1>3. ASSUME NEW id \in Ids, Spawn(id)
      PROVE  SaidNext
  <2>1. UNCHANGED <<last>>
    BY <1>3 DEF Spawn
  <2> QED
    BY <2>1 DEF SaidNext
<1>4. ASSUME NEW id \in Ids, StopArm(id)
      PROVE  SaidNext
  <2>1. UNCHANGED <<last>>
    BY <1>4 DEF StopArm, Stopping
  <2> QED
    BY <2>1 DEF SaidNext
<1>5. ASSUME NEW id \in Ids, ClosedArm(id)
      PROVE  SaidNext
  <2>1. UNCHANGED <<last>>
    BY <1>5 DEF ClosedArm, EndRun, DropHeld
  <2> QED
    BY <2>1 DEF SaidNext
<1>6. ASSUME NEW id \in Ids, ReserveArm(id)
      PROVE  SaidNext
  <2>1. \A i \in Ids \ {id} : last'[i] = last[i]
    BY <1>6 DEF ReserveArm, SendHeld, Send, Attended
  <2>2. last'[id].kind = "report" /\ last'[id].serial = Head(held[id]) /\ held[id] # <<>>
        /\ last[id].kind \in {"added", "report"}
    BY <1>6 DEF ReserveArm, SendHeld, Send, Attended, Holding, Told
  <2>4. Linked(held[id], finished[id], last[id].serial) /\ Head(held[id]) = held[id][1]
    BY DEF Chain
  <2>3. last'[id].serial = Succ(last[id].serial)
    BY <2>2, <2>4 DEF Linked
  <2> QED
    BY <2>1, <2>2, <2>3 DEF SaidNext
<1>7. ASSUME NEW id \in Ids, Dispatch(id)
      PROVE  SaidNext
  <2>1. UNCHANGED <<last>>
    BY <1>7 DEF Dispatch, Quiet, Attended
  <2> QED
    BY <2>1 DEF SaidNext
<1>8. ASSUME NEW id \in Ids, Advance(id)
      PROVE  SaidNext
  <2>1. UNCHANGED <<last>>
    BY <1>8 DEF Advance, Quiet, Attended
  <2> QED
    BY <2>1 DEF SaidNext
<1>9. ASSUME NEW id \in Ids, WorkDone(id)
      PROVE  SaidNext
  <2>1. UNCHANGED <<last>>
    BY <1>9 DEF WorkDone, Hold, Quiet, Attended
  <2> QED
    BY <2>1 DEF SaidNext
<1>10. ASSUME NEW id \in Ids, RuntimeShutdown(id)
      PROVE  SaidNext
  <2>1. UNCHANGED <<last>>
    BY <1>10 DEF RuntimeShutdown, EndRun, Quiet, Attended
  <2> QED
    BY <2>1 DEF SaidNext
<1>11. ASSUME NEW id \in Ids, StreamItem(id)
      PROVE  SaidNext
  <2>1. UNCHANGED <<last>>
    BY <1>11 DEF StreamItem, Hold, Quiet, Attended
  <2> QED
    BY <2>1 DEF SaidNext
<1>12. ASSUME NEW id \in Ids, StreamsOver(id)
      PROVE  SaidNext
  <2>1. UNCHANGED <<last>>
    BY <1>12 DEF StreamsOver, Quiet, Attended
  <2> QED
    BY <2>1 DEF SaidNext
<1>13. ASSUME NEW id \in Ids, Panic(id)
      PROVE  SaidNext
  <2>1. UNCHANGED <<last>>
    BY <1>13 DEF Panic, Panics, EndRun, Quiet, Attended
  <2> QED
    BY <2>1 DEF SaidNext
<1>14. ASSUME NEW id \in Ids, Flush(id)
      PROVE  SaidNext
  <2>1. \A i \in Ids \ {id} : last'[i] = last[i]
    BY <1>14 DEF Flush, SendHeld, Send
  <2>2. last'[id].kind = "report" /\ last'[id].serial = Head(held[id]) /\ held[id] # <<>>
        /\ last[id].kind \in {"added", "report"}
    BY <1>14 DEF Flush, SendHeld, Send, Holding, Told
  <2>4. Linked(held[id], finished[id], last[id].serial) /\ Head(held[id]) = held[id][1]
    BY DEF Chain
  <2>3. last'[id].serial = Succ(last[id].serial)
    BY <2>2, <2>4 DEF Linked
  <2> QED
    BY <2>1, <2>2, <2>3 DEF SaidNext
<1>15. ASSUME NEW id \in Ids, FlushOver(id)
      PROVE  SaidNext
  <2>1. UNCHANGED <<last>>
    BY <1>15 DEF FlushOver, DropHeld
  <2> QED
    BY <2>1 DEF SaidNext
<1>16. ASSUME NEW id \in Ids, RetireReserve(id)
      PROVE  SaidNext
  <2>1. UNCHANGED <<last>>
    BY <1>16 DEF RetireReserve
  <2> QED
    BY <2>1 DEF SaidNext
<1>17. ASSUME NEW id \in Ids, Abandon(id)
      PROVE  SaidNext
  <2>1. UNCHANGED <<last>>
    BY <1>17 DEF Abandon, EndRun, DropHeld
  <2> QED
    BY <2>1 DEF SaidNext
<1>18. ASSUME NEW id \in Ids, Retire(id)
      PROVE  SaidNext
  <2>1. \A i \in Ids \ {id} : last'[i] = last[i]
    BY <1>18 DEF Retire, Leave, Send
  <2>2. last'[id].kind = "retired" /\ last'[id].serial = finished[id] /\ held[id] = <<>>
        /\ last[id].kind \in {"added", "report"}
    BY <1>18 DEF Retire, Leave, Send, Idle, Told
  <2>3. finished[id] = last[id].serial
    BY <2>2 DEF Chain, Linked
  <2> QED
    BY <2>1, <2>2, <2>3 DEF SaidNext
<1>19. ASSUME NEW id \in Ids, RetireSilently(id)
      PROVE  SaidNext
  <2>1. \A i \in Ids \ {id} : last'[i] = last[i]
    BY <1>19 DEF RetireSilently, Leave
  <2>2. last'[id].kind = "unsaid" /\ last'[id].serial = finished[id] /\ held[id] = <<>>
        /\ last[id].kind \in {"added", "report"}
    BY <1>19 DEF RetireSilently, Leave, Idle, Told
  <2>3. finished[id] = last[id].serial
    BY <2>2 DEF Chain, Linked
  <2> QED
    BY <2>1, <2>2, <2>3 DEF SaidNext
<1>20. CASE Shutdown
  <2>1. UNCHANGED <<last>>
    BY <1>20 DEF Shutdown
  <2> QED
    BY <2>1 DEF SaidNext
<1>21. CASE Receive
  <2>1. UNCHANGED <<last>>
    BY <1>21 DEF Receive
  <2> QED
    BY <2>1 DEF SaidNext
<1>22. CASE ReceiveEnd
  <2>1. UNCHANGED <<last>>
    BY <1>22 DEF ReceiveEnd
  <2> QED
    BY <2>1 DEF SaidNext
<1>23. CASE DropReports
  <2>1. UNCHANGED <<last>>
    BY <1>23 DEF DropReports
  <2> QED
    BY <2>1 DEF SaidNext
<1>24. CASE UNCHANGED vars
  <2>1. UNCHANGED <<last>>
    BY <1>24 DEF vars
  <2> QED
    BY <2>1 DEF SaidNext
<1> QED
  BY <1>1, <1>2, <1>3, <1>4, <1>5, <1>6, <1>7, <1>8, <1>9, <1>10,
     <1>11, <1>12, <1>13, <1>14, <1>15, <1>16, <1>17, <1>18, <1>19, <1>20,
     <1>21, <1>22, <1>23, <1>24 DEF Next, Handles, Running, Leaving

(* Reports leave in the order they finished, none is lost or doubled, and  *)
(* the retirement of an addition follows all of them and precedes the next *)
(* addition.                                                               *)
THEOREM OutputsInOrder == Spec => InOrder
<1>1. IInv /\ [Next]_vars => [SaidNext]_vars
  BY OrderStep DEF IInv
<1>2. [][SaidNext]_vars => InOrder
  BY PTL DEF SaidNext, InOrder
<1> QED
  BY <1>1, <1>2, Invariant, PTL DEF Spec
=============================================================================
