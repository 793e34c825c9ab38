---------------------------- MODULE GnmiFlow_proofs ---------------------------
(***************************************************************************)
(* What a gNMI call publishes, for calls of any length, and what is told   *)
(* of a notification, for every accepted specification, every number of    *)
(* updates and objects of any depth.                                       *)
(*                                                                         *)
(* OncePublishesWhole speaks of calls that are over; Reading says what the *)
(* loop of ONCE knows while it runs: the messages taken are a whole        *)
(* snapshot's so far, synced tells whether a sync is among them, and then  *)
(* every update stands before one.  The issues are Counted as a ONCE runs; *)
(* those of a Get are found from the back of its answer (TailsName).       *)
(*                                                                         *)
(* NotificationIsTold compares the loops of project with a reading of the  *)
(* notification that has no order of work in it.  What expand finds of one *)
(* update is what it says (HeardTold); the walk then knows, of the updates *)
(* it has come down to, what is heard (WalkSo), and the leaves it leaves   *)
(* are the words (LeavesAreWords); the choice knows, of the leaves it has  *)
(* come up to, which were first of their path and alone in their identity  *)
(* (ChoiceSo), and first among leaves is last among words (LeavesDecide).  *)
(***************************************************************************)
EXTENDS GnmiFlow, SequenceTheorems, FiniteSetTheorems, WellFoundedInduction,
        TLAPS

Calls ==
    /\ synced \in BOOLEAN
    /\ phase \in {"idle", "open", "published", "failed", "dropped"}
    /\ mode # "get" => sent \in Seq(Messages)
    /\ mode # "get" /\ phase = "idle" => sent = <<>> /\ ~synced /\ payloads = {}

AllBefore(s) == \E k \in DOMAIN s : s[k] = "synced" /\ \A u \in Updates(s) : u < k

Reading ==
    mode = "once" /\ phase = "open" =>
        /\ \A i \in DOMAIN sent : sent[i] \in Projects \cup Controls
        /\ payloads = Updates(sent)
        /\ synced => AllBefore(sent)
        /\ ~synced => \A i \in DOMAIN sent : sent[i] # "synced"

IInv == Calls /\ Reading /\ OncePublishesWhole /\ StreamTellsAll

(* One message more, and at most one place more that projects. *)
LEMMA UpdatesAppend ==
    ASSUME NEW s \in Seq(Messages), NEW m \in Messages
    PROVE  /\ Append(s, m) \in Seq(Messages)
           /\ DOMAIN Append(s, m) = DOMAIN s \cup {Len(s) + 1}
           /\ Len(Append(s, m)) = Len(s) + 1 /\ Append(s, m)[Len(s) + 1] = m
           /\ \A i \in DOMAIN s : Append(s, m)[i] = s[i] /\ i \in 1..Len(s)
           /\ Updates(Append(s, m)) =
                 IF m \in Projects THEN Updates(s) \cup {Len(s) + 1} ELSE Updates(s)
<1>1. /\ Append(s, m) \in Seq(Messages)
      /\ Len(s) \in Nat /\ DOMAIN s = 1..Len(s)
      /\ Len(Append(s, m)) = Len(s) + 1
      /\ DOMAIN Append(s, m) = 1..(Len(s) + 1)
      /\ Append(s, m)[Len(s) + 1] = m
      /\ \A i \in 1..Len(s) : Append(s, m)[i] = s[i]
  OBVIOUS
<1>2. 1..(Len(s) + 1) = 1..Len(s) \cup {Len(s) + 1}
  BY <1>1
<1> QED
  BY <1>1, <1>2 DEF Updates

(* A sequence that does not end with the end of the RPC is not whole. *)
LEMMA WholeEnds ==
    ASSUME NEW s \in Seq(Messages), NEW m \in Messages
    PROVE  Whole(Append(s, m)) <=>
              m = "eof" /\ AllBefore(s) /\ \A i \in DOMAIN s : s[i] \in Projects \cup Controls
<1>1. Append(s, m) # <<>> /\ DOMAIN s = 1..Len(s) /\ Len(s) \in Nat
  OBVIOUS
<1>2. (Len(s) + 1) - 1 = Len(s)
  BY <1>1
<1>3. CASE m = "eof"
  <2>1. Updates(Append(s, m)) = Updates(s)
    BY <1>3, UpdatesAppend DEF Projects
  <2>2. (\E k \in DOMAIN Append(s, m) : /\ Append(s, m)[k] = "synced"
                                        /\ \A u \in Updates(Append(s, m)) : u < k)
          <=> AllBefore(s)
    BY <1>3, <2>1, UpdatesAppend DEF AllBefore
  <2> QED
    BY <1>1, <1>2, <1>3, <2>2, UpdatesAppend DEF Whole
<1>4. CASE m # "eof"
  BY <1>4, UpdatesAppend DEF Whole
<1> QED
  BY <1>3, <1>4

(* The inductive invariant holds of every behaviour. *)
THEOREM Invariant == Spec => []IInv
<1> USE DEF Calls, Reading, OncePublishesWhole, StreamTellsAll
<1>1. Init => IInv
  <2>1. DOMAIN << >> = {} /\ << >> \in Seq(Messages)
    OBVIOUS
  <2>2. Updates(<< >>) = {} /\ ~Whole(<< >>)
    BY <2>1 DEF Updates, Whole
  <2> QED
    BY <2>1, <2>2 DEF Init, IInv
<1>2. IInv /\ [Next]_vars => IInv'
  <2> SUFFICES ASSUME IInv, [Next]_vars PROVE IInv'
    OBVIOUS
  <2> USE DEF IInv
  <2>1. CASE Subscribe
    BY <2>1 DEF Subscribe, Updates
  <2>2. CASE Refused
    BY <2>2 DEF Refused, Discard
  <2>3. CASE Drop
    <3>1. mode = "once" => ~Whole(sent)
      BY <2>3 DEF Drop
    <3> QED
      BY <2>3, <3>1 DEF Drop, Discard
  <2>4. ASSUME NEW m \in Messages, OnceUpdate(m) PROVE IInv'
    <3>1. sent \in Seq(Messages) /\ phase = "open" /\ sent' = Append(sent, m)
      BY <2>4 DEF OnceUpdate, Take
    <3>2. m \in Projects /\ m # "eof" /\ m # "synced"
      BY <2>4 DEF OnceUpdate, Projects
    <3>3. ~Whole(sent')
      BY <3>1, <3>2, WholeEnds
    <3>4. Len(sent') = Len(sent) + 1 /\ Updates(sent') = Updates(sent) \cup {Len(sent) + 1}
      BY <3>1, <3>2, UpdatesAppend
    <3>5. Reading'
      BY <2>4, <3>1, <3>2, <3>4, UpdatesAppend DEF OnceUpdate
    <3> QED
      BY <2>4, <3>1, <3>3, <3>5, UpdatesAppend DEF OnceUpdate
  <2>5. ASSUME NEW m \in Messages, OnceSync(m) PROVE IInv'
    <3>1. sent \in Seq(Messages) /\ phase = "open" /\ sent' = Append(sent, m)
      BY <2>5 DEF OnceSync, Take
    <3>2. m \in Controls /\ m # "eof" /\ m \notin Projects
      BY <2>5 DEF OnceSync, Controls, Projects
    <3>3. ~Whole(sent')
      BY <3>1, <3>2, WholeEnds
    <3>4. Updates(sent') = Updates(sent) /\ Len(sent) \in Nat /\ DOMAIN sent = 1..Len(sent)
      BY <3>1, <3>2, UpdatesAppend
    <3>5. AllBefore(sent) => AllBefore(sent')
      BY <3>1, <3>4, UpdatesAppend DEF AllBefore
    <3>6. m = "synced" => AllBefore(sent')
      <4> SUFFICES ASSUME m = "synced" PROVE AllBefore(sent')
        OBVIOUS
      <4>1. Len(sent) + 1 \in DOMAIN sent' /\ sent'[Len(sent) + 1] = "synced"
        BY <3>1, UpdatesAppend
      <4>2. \A u \in Updates(sent') : u < Len(sent) + 1
        BY <3>4 DEF Updates
      <4> QED
        BY <4>1, <4>2 DEF AllBefore
    <3>7. Reading'
      <4>1. \A i \in DOMAIN sent' : sent'[i] \in Projects \cup Controls
        BY <2>5, <3>1, <3>2, UpdatesAppend DEF OnceSync
      <4>2. payloads' = Updates(sent')
        BY <2>5, <3>1, <3>4 DEF OnceSync
      <4>3. synced' => AllBefore(sent')
        BY <2>5, <3>1, <3>5, <3>6 DEF OnceSync
      <4>4. ~synced' => \A i \in DOMAIN sent' : sent'[i] # "synced"
        <5>1. ~synced' => ~synced /\ m # "synced"
          BY <2>5 DEF OnceSync
        <5>2. ~synced => \A i \in DOMAIN sent : sent[i] # "synced"
          BY <2>5, <3>1 DEF OnceSync
        <5> QED
          BY <3>1, <5>1, <5>2, UpdatesAppend
      <4> QED
        BY <4>1, <4>2, <4>3, <4>4
    <3> QED
      BY <2>5, <3>1, <3>3, <3>7, UpdatesAppend DEF OnceSync
  <2>6. ASSUME NEW m \in Messages, OnceFails(m) PROVE IInv'
    <3>1. sent \in Seq(Messages) /\ phase = "open" /\ sent' = Append(sent, m)
      BY <2>6 DEF OnceFails, Take
    <3>2. m # "eof"
      BY <2>6 DEF OnceFails, Errors, Notifications, Projects
    <3>3. ~Whole(sent')
      BY <3>1, <3>2, WholeEnds
    <3> QED
      BY <2>6, <3>1, <3>3, UpdatesAppend DEF OnceFails, Discard
  <2>7. CASE OnceEnds
    <3>1. sent \in Seq(Messages) /\ phase = "open" /\ sent' = Append(sent, "eof")
      BY <2>7 DEF OnceEnds, Take
    <3>2. "eof" \in Messages /\ "eof" \notin Projects
      BY DEF Messages, Projects
    <3>3. Updates(sent') = Updates(sent) /\ sent' \in Seq(Messages)
      BY <3>1, <3>2, UpdatesAppend
    <3>4. Whole(sent') <=> AllBefore(sent)
      BY <2>7, <3>1, <3>2, WholeEnds DEF OnceEnds
    <3>5. AllBefore(sent) <=> synced
      BY <2>7, <3>1 DEF OnceEnds, AllBefore
    <3>6. CASE synced
      BY <2>7, <3>1, <3>3, <3>4, <3>5, <3>6 DEF OnceEnds, Publish
    <3>7. CASE ~synced
      BY <2>7, <3>1, <3>3, <3>4, <3>5, <3>7 DEF OnceEnds, Discard
    <3> QED
      BY <3>6, <3>7
  <2>8. ASSUME NEW m \in Messages, StreamMessage(m) PROVE IInv'
    <3>1. /\ sent \in Seq(Messages) /\ phase = "open" /\ sent' = Append(sent, m)
          /\ mode = "stream" /\ mode' = mode /\ synced' = synced
      BY <2>8 DEF StreamMessage, Take
    <3>2. \A i \in DOMAIN sent : sent[i] \in Projects \cup Controls
      BY <3>1
    <3>3. /\ DOMAIN sent = 1..Len(sent) /\ Len(sent) \in Nat
          /\ Len(sent') = Len(sent) + 1
          /\ DOMAIN sent' = DOMAIN sent \cup {Len(sent) + 1}
          /\ sent'[Len(sent) + 1] = m /\ \A i \in DOMAIN sent : sent'[i] = sent[i]
          /\ sent' \in Seq(Messages)
      BY <3>1, UpdatesAppend
    <3>4. CASE m \in Projects
      <4>1. Updates(sent') = Updates(sent) \cup {Len(sent) + 1}
        BY <3>1, <3>4, UpdatesAppend
      <4>2. out' = out \cup {Len(sent) + 1} /\ phase' = "open"
        BY <2>8, <3>1, <3>3, <3>4 DEF StreamMessage, Projects, Controls, Errors
      <4> QED
        BY <3>1, <3>2, <3>3, <3>4, <4>1, <4>2
    <3>5. CASE m \in Controls
      <4>1. Updates(sent') = Updates(sent) /\ out' = out /\ phase' = "open"
        BY <2>8, <3>1, <3>5, UpdatesAppend DEF StreamMessage, Projects, Controls, Errors
      <4> QED
        BY <3>1, <3>2, <3>3, <3>5, <4>1
    <3>6. CASE m \in Errors \cup {"broken", "eof"}
      <4>1. Updates(sent') = Updates(sent) /\ out' = out /\ phase' = "failed"
        BY <2>8, <3>1, <3>6, UpdatesAppend DEF StreamMessage, Projects, Controls, Errors
      <4>2. m \notin Projects \cup Controls
        BY <3>6 DEF Projects, Controls, Errors
      <4> QED
        BY <3>1, <3>2, <3>3, <4>1, <4>2
    <3> QED
      BY <2>8, <3>4, <3>5, <3>6 DEF StreamMessage
  <2>9. ASSUME NEW s \in Answers, GetAnswers(s) PROVE IInv'
    BY <2>9 DEF GetAnswers, Publish, Discard
  <2>10. CASE UNCHANGED vars
    BY <2>10 DEF vars
  <2> QED
    BY <2>1, <2>2, <2>3, <2>4, <2>5, <2>6, <2>7, <2>8, <2>9, <2>10 DEF Next
<1> QED
  BY <1>1, <1>2, PTL DEF Spec

(* Calls of any length: a ONCE publishes exactly the snapshots that are    *)
(* whole, and a STREAM hands over every notification and fails at the      *)
(* first message it cannot use.                                            *)
THEOREM CallsAreWhole == Spec => []CallsHandOverWhole
<1>1. IInv => CallsHandOverWhole
  BY DEF IInv, CallsHandOverWhole
<1> QED
  BY Invariant, <1>1, PTL
(***************************************************************************)
(* The issues of a ONCE.  While it runs, index counts the notifications    *)
(* taken, and the issues are as many as the flawed ones, each under the    *)
(* number of one of them, in rising order.                                 *)
(***************************************************************************)
Flawed(s) == {u \in Updates(s) : s[u] = "flawed"}
Number(s, u) == Cardinality({v \in Updates(s) : v < u})

Rising(i) == \A n, k \in DOMAIN i : n < k => i[n] < i[k]

Counted ==
    mode = "once" /\ phase \in {"idle", "open"} =>
        /\ index = Cardinality(Updates(sent))
        /\ issues \in Seq(Nat) /\ Len(issues) = Cardinality(Flawed(sent))
        /\ \A n \in DOMAIN issues : \E u \in Flawed(sent) : issues[n] = Number(sent, u)
        /\ Rising(issues) /\ \A n \in DOMAIN issues : issues[n] < index

(* IssuesAccounted, of any messages s and any issues b handed over. *)
Accounts(s, b) ==
    LET omitted == {n \in DOMAIN b : "omitted" \in DOMAIN b[n]}
    IN  /\ \A n \in DOMAIN b \ omitted : \E u \in Flawed(s) : b[n].index = Number(s, u)
        /\ \A n, k \in DOMAIN b \ omitted : n < k => b[n].index < b[k].index
        /\ IF omitted = {} THEN Len(b) = Cardinality(Flawed(s))
           ELSE /\ omitted = {Len(b)}
                /\ Len(b) - 1 + b[Len(b)].omitted = Cardinality(Flawed(s))

OnceAccounted == mode = "once" => IssuesAccounted

LEMMA Finite ==
    ASSUME NEW s \in Seq(Messages)
    PROVE  /\ IsFiniteSet(Updates(s)) /\ IsFiniteSet(Flawed(s))
           /\ Cardinality(Updates(s)) \in Nat /\ Cardinality(Flawed(s)) \in Nat
<1>1. DOMAIN s = 1..Len(s) /\ Len(s) \in Nat
  OBVIOUS
<1>2. IsFiniteSet(1..Len(s))
  BY <1>1, FS_Interval
<1>3. Updates(s) \in SUBSET (1..Len(s)) /\ Flawed(s) \in SUBSET (1..Len(s))
  BY <1>1 DEF Updates, Flawed
<1> QED
  BY <1>2, <1>3, FS_Subset, FS_CardinalityType

(* A notification more is one more in the count, and leaves the numbers of *)
(* those before it.                                                        *)
LEMMA NumbersAppend ==
    ASSUME NEW s \in Seq(Messages), NEW m \in Messages
    PROVE  /\ Flawed(Append(s, m)) =
                 IF m = "flawed" THEN Flawed(s) \cup {Len(s) + 1} ELSE Flawed(s)
           /\ m \in Projects =>
                 Cardinality(Updates(Append(s, m))) = Cardinality(Updates(s)) + 1
           /\ m = "flawed" =>
                 Cardinality(Flawed(Append(s, m))) = Cardinality(Flawed(s)) + 1
           /\ \A u \in Flawed(s) : Number(Append(s, m), u) = Number(s, u)
           /\ m = "flawed" => Number(Append(s, m), Len(s) + 1) = Cardinality(Updates(s))
<1>1. /\ DOMAIN s = 1..Len(s) /\ Len(s) \in Nat
      /\ Updates(s) \subseteq 1..Len(s) /\ Flawed(s) \subseteq 1..Len(s)
      /\ Len(s) + 1 \notin Updates(s) /\ Len(s) + 1 \notin Flawed(s)
  BY DEF Updates, Flawed
<1>2. Flawed(Append(s, m)) = IF m = "flawed" THEN Flawed(s) \cup {Len(s) + 1} ELSE Flawed(s)
  BY <1>1, UpdatesAppend DEF Flawed, Projects
<1>3. m \in Projects => Cardinality(Updates(Append(s, m))) = Cardinality(Updates(s)) + 1
  BY <1>1, UpdatesAppend, Finite, FS_AddElement
<1>4. m = "flawed" => Cardinality(Flawed(Append(s, m))) = Cardinality(Flawed(s)) + 1
  BY <1>1, <1>2, Finite, FS_AddElement
<1>5. \A u \in Flawed(s) : Number(Append(s, m), u) = Number(s, u)
  <2> SUFFICES ASSUME NEW u \in Flawed(s) PROVE Number(Append(s, m), u) = Number(s, u)
    OBVIOUS
  <2>1. {v \in Updates(Append(s, m)) : v < u} = {v \in Updates(s) : v < u}
    BY <1>1, UpdatesAppend
  <2> QED
    BY <2>1 DEF Number
<1>6. m = "flawed" => Number(Append(s, m), Len(s) + 1) = Cardinality(Updates(s))
  <2> SUFFICES ASSUME m = "flawed"
               PROVE  Number(Append(s, m), Len(s) + 1) = Cardinality(Updates(s))
    OBVIOUS
  <2>1. {v \in Updates(Append(s, m)) : v < Len(s) + 1} = Updates(s)
    BY <1>1, UpdatesAppend DEF Projects
  <2> QED
    BY <2>1 DEF Number
<1> QED
  BY <1>2, <1>3, <1>4, <1>5, <1>6

LEMMA IsSeq ==
    ASSUME NEW S, NEW n \in Nat, NEW f \in [1..n -> S]
    PROVE  f \in Seq(S) /\ Len(f) = n
<1>1. f \in Seq(S)
  BY SeqDef
<1> QED
  BY <1>1

(* bounded_issues ships every issue, or counts what it leaves out. *)
LEMMA BoundedTells ==
    ASSUME NEW i \in Seq(Nat)
    PROVE  /\ Len(i) <= Limit =>
                 /\ DOMAIN Bounded(i) = DOMAIN i /\ Len(Bounded(i)) = Len(i)
                 /\ \A n \in DOMAIN i : Bounded(i)[n] = [index |-> i[n]]
           /\ Len(i) > Limit =>
                 /\ DOMAIN Bounded(i) = 1..Limit /\ Len(Bounded(i)) = Limit
                 /\ \A n \in 1..(Limit - 1) :
                       n \in DOMAIN i /\ Bounded(i)[n] = [index |-> i[n]]
                 /\ Bounded(i)[Limit] = [omitted |-> Len(i) - (Limit - 1)]
<1>1. Limit \in Nat \ {0} /\ Len(i) \in Nat /\ DOMAIN i = 1..Len(i)
  BY GnmiAssumption
<1>2. ASSUME NEW s \in Seq(Nat)
      PROVE  /\ Named(s) \in Seq([index : Nat]) /\ Len(Named(s)) = Len(s)
             /\ DOMAIN Named(s) = 1..Len(s)
             /\ \A n \in 1..Len(s) : Named(s)[n] = [index |-> s[n]]
  <2>1. Len(s) \in Nat /\ DOMAIN s = 1..Len(s) /\ \A n \in 1..Len(s) : s[n] \in Nat
    BY <1>2
  <2>2. Named(s) \in [1..Len(s) -> [index : Nat]]
    BY <2>1 DEF Named
  <2>3. Named(s) \in Seq([index : Nat]) /\ Len(Named(s)) = Len(s)
    BY <2>1, <2>2, IsSeq
  <2>4. DOMAIN Named(s) = 1..Len(s) /\ \A n \in 1..Len(s) : Named(s)[n] = [index |-> s[n]]
    BY <2>1 DEF Named
  <2> QED
    BY <2>3, <2>4
<1>3. CASE Len(i) <= Limit
  <2>1. Bounded(i) = Named(i)
    BY <1>3 DEF Bounded
  <2> QED
    BY <1>1, <1>2, <1>3, <2>1
<1>4. CASE Len(i) > Limit
  <2> DEFINE head == SubSeq(i, 1, Limit - 1)
             rest == [omitted |-> Len(i) - (Limit - 1)]
  <2>1. /\ head \in Seq(Nat) /\ Len(head) = Limit - 1
        /\ \A n \in 1..(Limit - 1) : n \in DOMAIN i /\ head[n] = i[n]
    BY <1>1, <1>4, SubSeqProperties
  <2>2. Bounded(i) = Append(Named(head), rest)
    BY <1>1, <1>4 DEF Bounded
  <2> HIDE DEF head
  <2>3. rest \in [omitted : Nat]
    BY <1>1, <1>4
  <2>4. Named(head) \in Seq([index : Nat] \cup [omitted : Nat])
    BY <1>2, <2>1, SeqMonotonic
  <2>5. /\ Len(Bounded(i)) = Limit /\ DOMAIN Bounded(i) = 1..Limit
        /\ Bounded(i)[Limit] = rest
        /\ \A n \in 1..(Limit - 1) : Bounded(i)[n] = Named(head)[n]
    BY <1>1, <1>2, <2>1, <2>2, <2>3, <2>4, AppendProperties
  <2>6. \A n \in 1..(Limit - 1) : Named(head)[n] = [index |-> head[n]]
    BY <1>2, <2>1
  <2>7. \A n \in 1..(Limit - 1) : n \in DOMAIN i /\ Bounded(i)[n] = [index |-> i[n]]
    BY <2>1, <2>5, <2>6
  <2>8. ~(Len(i) <= Limit)
    BY <1>1, <1>4
  <2> QED
    BY <2>5, <2>7, <2>8
<1> QED
  BY <1>1, <1>3, <1>4

(* Publishing what was counted accounts for it. *)
LEMMA CountedIsAccounted ==
    ASSUME NEW s \in Seq(Messages), NEW i \in Seq(Nat), Len(i) = Cardinality(Flawed(s)),
           \A n \in DOMAIN i : \E u \in Flawed(s) : i[n] = Number(s, u), Rising(i),
           NEW b, b = Bounded(i)
    PROVE  Accounts(s, b)
<1> DEFINE omitted == {n \in DOMAIN b : "omitted" \in DOMAIN b[n]}
<1>1. Limit \in Nat \ {0} /\ Len(i) \in Nat /\ DOMAIN i = 1..Len(i)
  BY GnmiAssumption
<1>2. CASE Len(i) <= Limit
  <2>1. DOMAIN b = DOMAIN i /\ \A n \in DOMAIN b : b[n] = [index |-> i[n]]
    BY <1>2, BoundedTells
  <2>2. \A n \in DOMAIN b : DOMAIN b[n] = {"index"}
    BY <2>1
  <2>3. omitted = {} /\ Len(b) = Len(i) /\ DOMAIN b = DOMAIN i
    BY <1>2, <2>1, <2>2, BoundedTells
  <2> QED
    BY <2>1, <2>3 DEF Accounts, Rising
<1>3. CASE Len(i) > Limit
  <2>1. /\ DOMAIN b = 1..Limit /\ Len(b) = Limit
        /\ \A n \in 1..(Limit - 1) : n \in DOMAIN i /\ b[n] = [index |-> i[n]]
        /\ b[Limit] = [omitted |-> Len(i) - (Limit - 1)]
    BY <1>3, BoundedTells
  <2>2. omitted = {Limit}
    <3>1. DOMAIN b[Limit] = {"omitted"} /\ \A n \in 1..(Limit - 1) : DOMAIN b[n] = {"index"}
      BY <1>1, <2>1
    <3>2. Limit \in omitted /\ \A n \in 1..(Limit - 1) : n \notin omitted
      BY <1>1, <2>1, <3>1
    <3> QED
      BY <1>1, <2>1, <3>2
  <2>3. DOMAIN b \ omitted = 1..(Limit - 1)
    BY <1>1, <2>1, <2>2
  <2>4. Len(b) - 1 + b[Len(b)].omitted = Len(i)
    BY <1>1, <2>1
  <2>5. Limit \in DOMAIN b /\ omitted # {} /\ omitted \subseteq {Len(b)}
    BY <1>1, <2>1, <2>2
  <2>6. \A n \in DOMAIN b \ omitted : \E u \in Flawed(s) : b[n].index = Number(s, u)
    <3> SUFFICES ASSUME NEW n \in 1..(Limit - 1)
                 PROVE  \E u \in Flawed(s) : b[n].index = Number(s, u)
      BY <2>3
    <3>1. n \in DOMAIN i /\ b[n] = [index |-> i[n]]
      BY <2>1
    <3>2. PICK u \in Flawed(s) : i[n] = Number(s, u)
      BY <3>1
    <3> QED
      BY <3>1, <3>2
  <2>7. \A n, k \in DOMAIN b \ omitted : n < k => b[n].index < b[k].index
    <3> SUFFICES ASSUME NEW n \in 1..(Limit - 1), NEW k \in 1..(Limit - 1), n < k
                 PROVE  b[n].index < b[k].index
      BY <2>3
    <3>1. n \in DOMAIN i /\ k \in DOMAIN i
      BY <2>1
    <3>2. b[n] = [index |-> i[n]] /\ b[k] = [index |-> i[k]]
      BY <2>1
    <3> QED
      BY <3>1, <3>2 DEF Rising
  <2> HIDE DEF omitted
  <2>8. Len(b) - 1 + b[Len(b)].omitted = Cardinality(Flawed(s))
    BY <2>4
  <2> QED
    BY <2>5, <2>6, <2>7, <2>8 DEF Accounts, omitted
<1> QED
  BY <1>1, <1>2, <1>3

LEMMA CountedInvariant == Spec => [](Counted /\ OnceAccounted)
<1>1. Init => Counted /\ OnceAccounted
  <2>1. DOMAIN << >> = {} /\ << >> \in Seq(Nat) /\ Len(<< >>) = 0
    OBVIOUS
  <2>2. Updates(<< >>) = {} /\ Flawed(<< >>) = {}
    BY <2>1 DEF Updates, Flawed
  <2> QED
    BY <2>1, <2>2, FS_EmptySet DEF Init, Counted, OnceAccounted, IssuesAccounted, Rising
<1>2. IInv /\ Counted /\ OnceAccounted /\ [Next]_vars => (Counted /\ OnceAccounted)'
  <2> SUFFICES ASSUME IInv, Counted, OnceAccounted, [Next]_vars, mode = "once", mode' = "once"
               PROVE  (Counted /\ OnceAccounted)'
    BY DEF Counted, OnceAccounted, Next, vars, Subscribe, Refused, Drop, Discard, OnceUpdate,
       OnceSync, OnceFails, OnceEnds, StreamMessage, GetAnswers
  <2> USE DEF IInv, Calls
  <2>1. ASSUME NEW m \in Messages, OnceUpdate(m) PROVE (Counted /\ OnceAccounted)'
    <3>1. /\ sent \in Seq(Messages) /\ phase = "open" /\ sent' = Append(sent, m)
          /\ phase' = "open" /\ index' = index + 1 /\ m \in Projects
          /\ issues' = IF m = "flawed" THEN Append(issues, index) ELSE issues
      BY <2>1 DEF OnceUpdate, Take
    <3>2. /\ index = Cardinality(Updates(sent)) /\ index \in Nat
          /\ issues \in Seq(Nat) /\ Len(issues) = Cardinality(Flawed(sent))
          /\ \A n \in DOMAIN issues : \E u \in Flawed(sent) : issues[n] = Number(sent, u)
          /\ Rising(issues) /\ \A n \in DOMAIN issues : issues[n] < index
      BY <3>1, Finite DEF Counted
    <3>3. index' = Cardinality(Updates(sent'))
      BY <3>1, <3>2, NumbersAppend
    <3>4. issues' \in Seq(Nat) /\ Len(issues') = Cardinality(Flawed(sent'))
      BY <3>1, <3>2, NumbersAppend
    <3>5. \A n \in DOMAIN issues' : \E u \in Flawed(sent') : issues'[n] = Number(sent', u)
      <4>1. \A n \in DOMAIN issues : \E u \in Flawed(sent') : issues[n] = Number(sent', u)
        BY <3>1, <3>2, NumbersAppend
      <4>2. CASE m = "flawed"
        <5>1. Len(sent) + 1 \in Flawed(sent') /\ index = Number(sent', Len(sent) + 1)
          BY <3>1, <3>2, <4>2, NumbersAppend
        <5>2. /\ DOMAIN issues' = DOMAIN issues \cup {Len(issues) + 1}
              /\ issues'[Len(issues) + 1] = index
              /\ \A n \in DOMAIN issues : issues'[n] = issues[n]
          BY <3>1, <3>2, <4>2
        <5> QED
          BY <4>1, <5>1, <5>2
      <4>3. CASE m # "flawed"
        BY <3>1, <4>1, <4>3
      <4> QED
        BY <4>2, <4>3
    <3>6. Rising(issues') /\ \A n \in DOMAIN issues' : issues'[n] < index'
      <4>1. \A n \in DOMAIN issues : issues[n] \in Nat
        BY <3>2
      <4>2. CASE m = "flawed"
        <5>1. /\ DOMAIN issues' = DOMAIN issues \cup {Len(issues) + 1}
              /\ issues'[Len(issues) + 1] = index
              /\ \A n \in DOMAIN issues : issues'[n] = issues[n] /\ n \in 1..Len(issues)
          BY <3>1, <3>2, <4>2
        <5> QED
          BY <3>1, <3>2, <4>1, <5>1 DEF Rising
      <4>3. CASE m # "flawed"
        BY <3>1, <3>2, <4>1, <4>3
      <4> QED
        BY <4>2, <4>3
    <3> QED
      BY <3>1, <3>3, <3>4, <3>5, <3>6 DEF Counted, OnceAccounted, IssuesAccounted
  <2>2. ASSUME NEW m \in Messages, OnceSync(m) PROVE (Counted /\ OnceAccounted)'
    <3>1. /\ sent \in Seq(Messages) /\ phase = "open" /\ sent' = Append(sent, m)
          /\ phase' = "open" /\ index' = index /\ issues' = issues
          /\ m \notin Projects /\ m # "flawed"
      BY <2>2 DEF OnceSync, Take, Controls, Projects
    <3>2. Updates(sent') = Updates(sent) /\ Flawed(sent') = Flawed(sent)
      BY <3>1, UpdatesAppend, NumbersAppend
    <3>3. \A u \in Flawed(sent) : Number(sent', u) = Number(sent, u)
      BY <3>1, NumbersAppend
    <3> QED
      BY <3>1, <3>2, <3>3 DEF Counted, OnceAccounted, IssuesAccounted
  <2>3. CASE OnceEnds
    <3>1. sent \in Seq(Messages) /\ phase = "open" /\ sent' = Append(sent, "eof")
      BY <2>3 DEF OnceEnds, Take
    <3>2. "eof" \in Messages /\ "eof" \notin Projects /\ sent' \in Seq(Messages)
      BY <3>1, UpdatesAppend DEF Messages, Projects
    <3>3. /\ issues \in Seq(Nat) /\ Len(issues) = Cardinality(Flawed(sent'))
          /\ \A n \in DOMAIN issues : \E u \in Flawed(sent') : issues[n] = Number(sent', u)
          /\ Rising(issues)
      BY <3>1, <3>2, NumbersAppend DEF Counted
    <3>4. CASE phase' = "published" /\ told' = Bounded(issues)
      <4>1. Accounts(sent', told')
        BY <3>2, <3>3, <3>4, CountedIsAccounted
      <4>2. IssuesAccounted'
        BY <4>1 DEF IssuesAccounted, Accounts, Flawed, Number
      <4> QED
        BY <3>4, <4>2 DEF Counted, OnceAccounted
    <3>5. CASE phase' = "failed"
      BY <3>5 DEF Counted, OnceAccounted, IssuesAccounted
    <3> QED
      BY <2>3, <3>4, <3>5 DEF OnceEnds, Publish, Discard
  <2>4. CASE UNCHANGED vars
    BY <2>4 DEF vars, Counted, OnceAccounted, IssuesAccounted, Rising
  <2>5. CASE Subscribe
    BY <2>5 DEF Subscribe, Counted, OnceAccounted, IssuesAccounted
  <2>6. CASE Refused \/ Drop \/ \E m \in Messages : OnceFails(m)
    BY <2>6 DEF Refused, Drop, OnceFails, Discard, Counted, OnceAccounted, IssuesAccounted
  <2> QED
    BY <2>1, <2>2, <2>3, <2>4, <2>5, <2>6 DEF Next, StreamMessage, GetAnswers
<1> QED
  BY <1>1, <1>2, Invariant, PTL DEF Spec
(***************************************************************************)
(* The issues of a Get.  Indexed walks the answer from the front, so what  *)
(* is known of it is known of its tails: the tail from n names each flawed *)
(* notification from n on.                                                 *)
(***************************************************************************)
FlawedFrom(s, n) == {u \in n..Len(s) : s[u] = "flawed"}

(* What from[n] is made of, in Indexed. *)
Tail1(s, f, n) ==
    IF n > Len(s) THEN <<>>
    ELSE IF s[n] = "flawed" THEN <<n - 1>> \o f[n + 1] ELSE f[n + 1]

(* What holds at the end, and at n when it holds at n + 1, holds of all. *)
LEMMA Downwards ==
    ASSUME NEW L \in Nat, NEW S, L + 1 \in S, \A n \in 1..L : n + 1 \in S => n \in S
    PROVE  1..(L + 1) \subseteq S
<1> DEFINE T == {k \in 0..L : (L + 1) - k \notin S}
<1>1. T = {}
  <2> SUFFICES ASSUME T # {} PROVE FALSE
    OBVIOUS
  <2>1. T \subseteq Nat
    OBVIOUS
  <2>2. PICK k \in T : \A y \in T : ~(<<y, k>> \in OpToRel(<, Nat))
    BY <2>1, WFMin, NatLessThanWellFounded
  <2>3. \A y \in T : ~(y < k)
    BY <2>1, <2>2 DEF OpToRel
  <2>4. k \in 0..L /\ (L + 1) - k \notin S
    BY <2>2
  <2> HIDE DEF T
  <2>5. k # 0
    BY <2>4
  <2>6. k - 1 \in 0..L /\ k - 1 < k /\ (L + 1) - (k - 1) = ((L + 1) - k) + 1
    BY <2>4, <2>5
  <2>7. (L + 1) - (k - 1) \in S
    BY <2>3, <2>6 DEF T
  <2>8. (L + 1) - k \in 1..L
    BY <2>4, <2>5
  <2> QED
    BY <2>4, <2>6, <2>7, <2>8
<1>2. \A k \in 0..L : (L + 1) - k \in S
  BY <1>1
<1> SUFFICES ASSUME NEW n \in 1..(L + 1) PROVE n \in S
  OBVIOUS
<1>3. (L + 1) - n \in 0..L /\ (L + 1) - ((L + 1) - n) = n
  OBVIOUS
<1>4. (L + 1) - ((L + 1) - n) \in S
  BY <1>2, <1>3
<1> QED
  BY <1>3, <1>4

(* Indexed is defined: its tails can be given one after the other. *)
Unfolds(s, g, k) ==
    /\ g \in [k..(Len(s) + 1) -> Seq(Nat)]
    /\ \A n \in k..(Len(s) + 1) : g[n] = Tail1(s, g, n)

LEMMA TailsExist ==
    ASSUME NEW s \in Seq(Messages)
    PROVE  \E g : Unfolds(s, g, 1)
<1> DEFINE L == Len(s)
           S == {k \in 1..(L + 1) : \E g : Unfolds(s, g, k)}
<1>1. L \in Nat
  OBVIOUS
<1> HIDE DEF L
<1>2. L + 1 \in S
  <2>1. (L + 1)..(L + 1) = {L + 1} /\ L + 1 > L /\ << >> \in Seq(Nat)
    BY <1>1
  <2>2. Unfolds(s, [n \in {L + 1} |-> << >>], L + 1)
    BY <2>1 DEF Unfolds, Tail1, L
  <2> QED
    BY <1>1, <2>2
<1>3. ASSUME NEW n \in 1..L, n + 1 \in S PROVE n \in S
  <2>1. PICK g : Unfolds(s, g, n + 1)
    BY <1>3
  <2> DEFINE h == [i \in n..(L + 1) |-> IF i = n THEN Tail1(s, g, n) ELSE g[i]]
  <2>2. \A i \in n..(L + 1) : i = n \/ i \in (n + 1)..(L + 1)
    BY <1>1
  <2>3. n + 1 \in (n + 1)..(L + 1) /\ n \in n..(L + 1) /\ ~(n > L) /\ n - 1 \in Nat
    BY <1>1
  <2>4. \A i \in (n + 1)..(L + 1) : i \in n..(L + 1) /\ i # n
    BY <1>1
  <2>5. \A i \in (n + 1)..(L + 1) : g[i] \in Seq(Nat) /\ g[i] = Tail1(s, g, i)
    BY <2>1 DEF Unfolds, L
  <2>6. h[n] = Tail1(s, g, n) /\ \A i \in (n + 1)..(L + 1) : h[i] = g[i]
    BY <2>3, <2>4
  <2>7. DOMAIN h = n..(L + 1) /\ h = [i \in n..(L + 1) |-> h[i]]
    OBVIOUS
  <2> HIDE DEF h
  <2>8. Tail1(s, g, n) \in Seq(Nat)
    <3>1. g[n + 1] \in Seq(Nat) /\ <<n - 1>> \in Seq(Nat)
      BY <2>3, <2>5
    <3>2. <<n - 1>> \o g[n + 1] \in Seq(Nat)
      BY <3>1, ConcatProperties
    <3> QED
      BY <2>3, <3>1, <3>2 DEF Tail1, L
  <2>9. \A i \in n..(L + 1) : h[i] \in Seq(Nat)
    BY <2>2, <2>5, <2>6, <2>8
  <2>10. h \in [n..(L + 1) -> Seq(Nat)]
    BY <2>7, <2>9
  <2>11. ASSUME NEW i \in n..(L + 1) PROVE h[i] = Tail1(s, h, i)
    <3>1. i > L \/ i + 1 \in (n + 1)..(L + 1)
      BY <1>1
    <3>2. Tail1(s, h, i) = Tail1(s, g, i)
      BY <2>6, <3>1 DEF Tail1, L
    <3> QED
      BY <2>2, <2>5, <2>6, <3>2
  <2>12. Unfolds(s, h, n)
    BY <2>10, <2>11 DEF Unfolds, L
  <2> QED
    BY <1>1, <2>12
<1>4. 1..(L + 1) \subseteq S
  <2> HIDE DEF S
  <2> QED
    BY <1>1, <1>2, <1>3, Downwards
<1>5. 1 \in 1..(L + 1)
  BY <1>1
<1> QED
  BY <1>4, <1>5

(* Indexed walks those tails. *)
LEMMA IndexedIs ==
    ASSUME NEW s \in Seq(Messages)
    PROVE  \E f : /\ \A n \in 1..(Len(s) + 1) : f[n] = Tail1(s, f, n)
                  /\ Indexed(s) = f[1]
<1> DEFINE Next1(f) == [n \in 1..(Len(s) + 1) |-> Tail1(s, f, n)]
           F == CHOOSE f : f = Next1(f)
<1>1. \E f : f = Next1(f)
  <2>1. PICK g : Unfolds(s, g, 1)
    BY TailsExist
  <2>2. g = Next1(g)
    BY <2>1 DEF Unfolds
  <2> QED
    BY <2>2
<1>2. F = Next1(F)
  BY <1>1
<1>3. Indexed(s) = F[1]
  BY DEF Indexed, Tail1
<1> HIDE DEF F
<1>4. \A n \in 1..(Len(s) + 1) : F[n] = Tail1(s, F, n)
  BY <1>2
<1> QED
  BY <1>3, <1>4

(* Each tail names the flawed notifications from there on. *)
LEMMA TailsName ==
    ASSUME NEW s \in Seq(Messages), NEW f,
           \A n \in 1..(Len(s) + 1) : f[n] = Tail1(s, f, n)
    PROVE  /\ f[1] \in Seq(Nat) /\ Len(f[1]) = Cardinality(FlawedFrom(s, 1))
           /\ \A i \in DOMAIN f[1] : \E u \in FlawedFrom(s, 1) : f[1][i] = u - 1
           /\ Rising(f[1])
<1> DEFINE L == Len(s)
           NamesFrom(n) ==
              /\ f[n] \in Seq(Nat) /\ Len(f[n]) = Cardinality(FlawedFrom(s, n))
              /\ \A i \in DOMAIN f[n] : \E u \in FlawedFrom(s, n) : f[n][i] = u - 1
              /\ Rising(f[n])
           S == {n \in 1..(L + 1) : NamesFrom(n)}
<1>1. L \in Nat
  OBVIOUS
<1>2. L + 1 \in S
  <2>1. (L + 1)..L = {} /\ L + 1 > L /\ L + 1 \in 1..(L + 1)
    BY <1>1
  <2>2. f[L + 1] = << >> /\ FlawedFrom(s, L + 1) = {}
    BY <2>1 DEF Tail1, FlawedFrom
  <2>3. << >> \in Seq(Nat) /\ Len(<< >>) = 0 /\ DOMAIN << >> = {}
    OBVIOUS
  <2> QED
    BY <2>1, <2>2, <2>3, FS_EmptySet DEF Rising
<1>3. ASSUME NEW n \in 1..L, n + 1 \in S PROVE n \in S
  <2>1. NamesFrom(n + 1)
    BY <1>3
  <2> HIDE DEF L
  <2>2. n \in 1..(L + 1) /\ ~(n > L) /\ n - 1 \in Nat /\ n \in Nat
    BY <1>1
  <2>3. n..L = {n} \cup (n + 1)..L /\ n \notin (n + 1)..L
    BY <1>1
  <2>4. FlawedFrom(s, n) =
           IF s[n] = "flawed" THEN FlawedFrom(s, n + 1) \cup {n} ELSE FlawedFrom(s, n + 1)
    BY <2>3 DEF FlawedFrom, L
  <2>5. n \notin FlawedFrom(s, n + 1) /\ IsFiniteSet(FlawedFrom(s, n + 1))
    <3>1. FlawedFrom(s, n + 1) \in SUBSET ((n + 1)..L)
      BY DEF FlawedFrom, L
    <3>2. IsFiniteSet((n + 1)..L)
      BY <1>1, FS_Interval
    <3> QED
      BY <2>3, <3>1, <3>2, FS_Subset
  <2>6. f[n] = IF s[n] = "flawed" THEN <<n - 1>> \o f[n + 1] ELSE f[n + 1]
    BY <2>2 DEF Tail1, L
  <2>7. CASE s[n] = "flawed"
    <3>1. <<n - 1>> \in Seq(Nat) /\ Len(<<n - 1>>) = 1 /\ <<n - 1>>[1] = n - 1
      BY <2>2
    <3>2. /\ f[n] \in Seq(Nat) /\ Len(f[n]) = 1 + Len(f[n + 1])
          /\ \A i \in 1..(1 + Len(f[n + 1])) :
                f[n][i] = IF i <= 1 THEN <<n - 1>>[i] ELSE f[n + 1][i - 1]
      BY <2>1, <2>6, <2>7, <3>1, ConcatProperties
    <3>3. Cardinality(FlawedFrom(s, n)) = Cardinality(FlawedFrom(s, n + 1)) + 1
      BY <2>4, <2>5, <2>7, FS_AddElement
    <3>4. ASSUME NEW i \in DOMAIN f[n] PROVE \E u \in FlawedFrom(s, n) : f[n][i] = u - 1
      <4>1. i \in 1..(1 + Len(f[n + 1])) /\ Len(f[n + 1]) \in Nat
        BY <2>1, <3>2
      <4>2. CASE i = 1
        <5>1. f[n][i] = n - 1
          BY <3>1, <3>2, <4>1, <4>2
        <5>2. n \in FlawedFrom(s, n)
          BY <2>4, <2>7
        <5> QED
          BY <5>1, <5>2
      <4>3. CASE i # 1
        <5>1. i - 1 \in DOMAIN f[n + 1] /\ ~(i <= 1)
          BY <2>1, <4>1, <4>3
        <5>2. PICK u \in FlawedFrom(s, n + 1) : f[n + 1][i - 1] = u - 1
          BY <2>1, <5>1
        <5> QED
          BY <2>4, <2>7, <3>2, <4>1, <5>1, <5>2
      <4> QED
        BY <4>2, <4>3
    <3>5. Len(f[n]) = Cardinality(FlawedFrom(s, n))
      BY <2>1, <3>2, <3>3, FS_CardinalityType, <2>5
    <3>6. ASSUME NEW i \in DOMAIN f[n], NEW k \in DOMAIN f[n], i < k PROVE f[n][i] < f[n][k]
      <4>1. /\ i \in 1..(1 + Len(f[n + 1])) /\ k \in 1..(1 + Len(f[n + 1]))
            /\ Len(f[n + 1]) \in Nat /\ k - 1 \in DOMAIN f[n + 1] /\ ~(k <= 1)
        <5>1. DOMAIN f[n] = 1..(1 + Len(f[n + 1])) /\ DOMAIN f[n + 1] = 1..Len(f[n + 1])
          BY <2>1, <3>2
        <5>2. Len(f[n + 1]) \in Nat
          BY <2>1
        <5> QED
          BY <3>6, <5>1, <5>2
      <4>2. f[n][k] = f[n + 1][k - 1]
        BY <3>2, <4>1
      <4>3. CASE i = 1
        <5>1. PICK u \in FlawedFrom(s, n + 1) : f[n + 1][k - 1] = u - 1
          BY <2>1, <4>1
        <5>2. u \in (n + 1)..L
          BY DEF FlawedFrom, L
        <5>3. f[n][i] = n - 1
          BY <3>1, <3>2, <4>1, <4>3
        <5> QED
          BY <1>1, <4>2, <5>1, <5>2, <5>3
      <4>4. CASE i # 1
        <5>1. i - 1 \in DOMAIN f[n + 1] /\ ~(i <= 1) /\ i - 1 < k - 1
          BY <2>1, <3>6, <4>1, <4>4
        <5>2. f[n][i] = f[n + 1][i - 1]
          BY <3>2, <4>1, <5>1
        <5> QED
          BY <2>1, <4>1, <4>2, <5>1, <5>2 DEF Rising
      <4> QED
        BY <4>3, <4>4
    <3>7. NamesFrom(n)
      BY <3>2, <3>4, <3>5, <3>6 DEF Rising
    <3> QED
      BY <2>2, <3>7
  <2>8. CASE s[n] # "flawed"
    <3>1. f[n] = f[n + 1] /\ FlawedFrom(s, n) = FlawedFrom(s, n + 1)
      BY <2>4, <2>6, <2>8
    <3>2. NamesFrom(n)
      BY <2>1, <3>1
    <3> QED
      BY <2>2, <3>2
  <2> QED
    BY <2>7, <2>8
<1>4. 1..(L + 1) \subseteq S
  <2> HIDE DEF S, L
  <2> QED
    BY <1>1, <1>2, <1>3, Downwards
<1>5. 1 \in 1..(L + 1)
  BY <1>1
<1> QED
  BY <1>4, <1>5

(* The notifications of an answer that projects are numbered as they stand. *)
LEMMA AnswersNumbers ==
    ASSUME NEW s \in Seq(Messages), \A i \in DOMAIN s : s[i] \in Projects
    PROVE  Flawed(s) = FlawedFrom(s, 1) /\ \A u \in Flawed(s) : Number(s, u) = u - 1
<1>1. Len(s) \in Nat /\ DOMAIN s = 1..Len(s) /\ Updates(s) = 1..Len(s)
  BY DEF Updates
<1>2. Flawed(s) = FlawedFrom(s, 1)
  BY <1>1 DEF Flawed, FlawedFrom
<1>3. ASSUME NEW u \in Flawed(s) PROVE Number(s, u) = u - 1
  <2>1. u \in 1..Len(s)
    BY <1>1 DEF Flawed
  <2>2. {v \in Updates(s) : v < u} = 1..(u - 1)
    BY <1>1, <2>1
  <2>3. u - 1 \in Nat /\ Cardinality(1..(u - 1)) = u - 1
    BY <2>1, FS_Interval
  <2> QED
    BY <2>2, <2>3 DEF Number
<1> QED
  BY <1>2, <1>3

(* A Get that publishes accounts for its issues. *)
LEMMA GetAccounts ==
    ASSUME NEW s \in Seq(Messages), \A i \in DOMAIN s : s[i] \in Projects
    PROVE  Accounts(s, Bounded(Indexed(s)))
<1>1. PICK f : /\ \A n \in 1..(Len(s) + 1) : f[n] = Tail1(s, f, n)
               /\ Indexed(s) = f[1]
  BY IndexedIs
<1>2. /\ Indexed(s) \in Seq(Nat) /\ Len(Indexed(s)) = Cardinality(Flawed(s))
      /\ \A i \in DOMAIN Indexed(s) : \E u \in Flawed(s) : Indexed(s)[i] = Number(s, u)
      /\ Rising(Indexed(s))
  BY <1>1, TailsName, AnswersNumbers
<1> QED
  BY <1>2, CountedIsAccounted

(* Only a ONCE and a Get publish, and a Get what it accounts for. *)
OthersAccounted ==
    /\ mode \in {"get", "once", "stream"}
    /\ mode = "stream" => phase # "published"
    /\ mode = "get" => IssuesAccounted

LEMMA OthersInvariant == Spec => []OthersAccounted
<1>1. Init => OthersAccounted
  BY DEF Init, OthersAccounted, IssuesAccounted
<1>2. OthersAccounted /\ [Next]_vars => OthersAccounted'
  <2> SUFFICES ASSUME OthersAccounted, [Next]_vars PROVE OthersAccounted'
    OBVIOUS
  <2> USE DEF OthersAccounted
  <2>1. ASSUME NEW s \in Answers, GetAnswers(s) PROVE OthersAccounted'
    <3>1. mode = "get" /\ mode' = mode /\ sent' = s
      BY <2>1 DEF GetAnswers, Publish, Discard
    <3>2. CASE phase' = "failed"
      BY <3>1, <3>2 DEF IssuesAccounted
    <3>3. CASE (\A i \in DOMAIN s : s[i] \in Projects) /\ told' = Bounded(Indexed(s))
      <4>1. s \in Seq(Messages)
        <5>1. PICK n \in 0..MaxMessages : s \in [1..n -> Notifications]
          BY DEF Answers
        <5>2. s \in [1..n -> Messages] /\ n \in Nat
          BY <5>1, GnmiAssumption DEF Messages
        <5> QED
          BY <5>2, IsSeq
      <4>2. Accounts(sent', told')
        BY <3>1, <3>3, <4>1, GetAccounts
      <4>3. IssuesAccounted'
        BY <4>2 DEF IssuesAccounted, Accounts, Flawed, Number
      <4> QED
        BY <3>1, <4>3
    <3> QED
      BY <2>1, <3>2, <3>3 DEF GetAnswers, Publish, Discard
  <2>2. CASE Subscribe \/ Refused \/ Drop
    BY <2>2 DEF Subscribe, Refused, Drop, Discard, IssuesAccounted
  <2>3. ASSUME NEW m \in Messages,
               OnceUpdate(m) \/ OnceSync(m) \/ OnceFails(m) \/ OnceEnds
        PROVE  OthersAccounted'
    BY <2>3 DEF OnceUpdate, OnceSync, OnceFails, OnceEnds, Publish, Discard
  <2>4. ASSUME NEW m \in Messages, StreamMessage(m) PROVE OthersAccounted'
    BY <2>4 DEF StreamMessage, Take
  <2>5. CASE UNCHANGED vars
    <3>1. mode' = mode /\ phase' = phase /\ sent' = sent /\ told' = told
      BY <2>5 DEF vars
    <3>2. IssuesAccounted' <=> IssuesAccounted
      BY <3>1 DEF IssuesAccounted, Updates
    <3> QED
      BY <3>1, <3>2
  <2>6. "eof" \in Messages
    BY DEF Messages
  <2> QED
    BY <2>1, <2>2, <2>3, <2>4, <2>5, <2>6 DEF Next
<1> QED
  BY <1>1, <1>2, PTL DEF Spec

(* Every issue of a published ONCE or Get, whatever the target sends and   *)
(* however much, is shipped under the number of the notification it is     *)
(* about, or counted as omitted (bounded_issues, at_index).                *)
THEOREM CallsTellIssues == Spec => []IssuesAccounted
<1>1. OnceAccounted /\ OthersAccounted => IssuesAccounted
  BY DEF OnceAccounted, OthersAccounted, IssuesAccounted
<1> QED
  BY CountedInvariant, OthersInvariant, <1>1, PTL

-----------------------------------------------------------------------------
(* Mappings and paths.                                                     *)

(* One path begins another. *)
Begins(a, b) == Len(a) <= Len(b) /\ \A i \in 1..Len(a) : a[i] = b[i]

(* An accepted specification, as far as a notification needs it. *)
WellMade(spec) ==
    /\ \A m \in spec.mappings :
          List(m.path) /\ m.kind \in {"reading", "state"} /\ m.type \in DOMAIN Sorts
    /\ \A m, o \in spec.mappings : m # o => m.path # o.path /\ ~Overlaps(m, o)

(* What Accepts lets through is well made. *)
LEMMA AcceptedIsWellMade == \A spec \in Specifications : WellMade(spec)
<1> TAKE spec \in Specifications
<1>1. PICK list \in MappingLists : spec.mappings = Range(list) /\ Accepts(Requests, list)
  BY DEF Specifications
<1>2. \A m \in spec.mappings :
          List(m.path) /\ m.kind \in {"reading", "state"} /\ m.type \in DOMAIN Sorts
  BY <1>1, FlowAssumption
<1>3. ASSUME NEW m \in spec.mappings, NEW o \in spec.mappings, m # o
      PROVE  m.path # o.path /\ ~Overlaps(m, o)
  <2>1. PICK i \in DOMAIN list, j \in DOMAIN list : list[i] = m /\ list[j] = o
    BY <1>1 DEF Range
  <2>2. i # j
    BY <2>1, <1>3
  <2> QED
    BY <1>1, <2>1, <2>2 DEF Accepts
<1> QED
  BY <1>2, <1>3 DEF WellMade

(* A mapping that is below a path is below every beginning of it. *)
LEMMA CoversAbove ==
    ASSUME NEW m, List(m.path), NEW a, NEW b, List(a), List(b), Begins(a, b), Covers(m, b)
    PROVE  Covers(m, a)
<1>1. Len(a) \in Nat /\ DOMAIN a = 1..Len(a) /\ Len(b) \in Nat /\ DOMAIN b = 1..Len(b)
      /\ Len(m.path) \in Nat /\ DOMAIN m.path = 1..Len(m.path)
  BY DEF List
<1>2. CASE m.collection
  BY <1>1, <1>2 DEF Covers, CompatiblePrefix, Begins
<1>3. CASE ~m.collection
  BY <1>1, <1>3 DEF Covers, PathContains, Begins
<1> QED
  BY <1>2, <1>3

(* Likewise of some mapping. *)
LEMMA RelevantAbove ==
    ASSUME NEW spec, WellMade(spec), NEW a, NEW b, List(a), List(b), Begins(a, b), Relevant(spec, b)
    PROVE  Relevant(spec, a)
  BY CoversAbove DEF Relevant, WellMade

(* A mapping is at or below every path it matches. *)
LEMMA MatchingCovers ==
    ASSUME NEW m, List(m.path), NEW path, List(path), Matches(m, path)
    PROVE  Covers(m, path)
<1>1. Len(path) \in Nat /\ DOMAIN path = 1..Len(path)
      /\ Len(m.path) \in Nat /\ DOMAIN m.path = 1..Len(m.path)
  BY DEF List
<1>2. CASE m.path = path /\ m.collection
  BY <1>1, <1>2 DEF Covers, CompatiblePrefix, Compatible
<1>3. CASE m.path = path /\ ~m.collection
  BY <1>1, <1>3 DEF Covers, PathContains
<1>4. CASE m.path # path
  <2>1. m.collection /\ Len(m.path) = Len(path) /\ PathContains(m.path, path)
    BY <1>4 DEF Matches
  <2>2. ASSUME NEW i \in 1..Len(path) PROVE Compatible(path[i], m.path[i])
    <3>1. i \in DOMAIN m.path
      BY <1>1, <2>1
    <3> QED
      BY <2>1, <3>1 DEF PathContains, Compatible
  <2> QED
    BY <1>1, <2>1, <2>2 DEF Covers, CompatiblePrefix
<1> QED
  BY <1>2, <1>3, <1>4

(* A mapped path is relevant, and its mapping one of the specification. *)
LEMMA MappedIsRelevant ==
    ASSUME NEW spec, WellMade(spec), NEW path, List(path), Mapped(spec, path)
    PROVE  /\ Relevant(spec, path)
           /\ MappingOf(spec, path) \in spec.mappings
           /\ Matches(MappingOf(spec, path), path)
<1>1. MappingOf(spec, path) \in MappingsOf(spec, path)
  BY DEF Mapped, MappingOf
<1>2. \A m \in MappingsOf(spec, path) : m \in spec.mappings /\ Matches(m, path)
  BY DEF MappingsOf, Matches
<1> QED
  BY <1>1, <1>2, MatchingCovers DEF WellMade, Relevant

(* Only a collection matches another path, and no two mappings one path. *)
LEMMA OneMatches ==
    ASSUME NEW spec, WellMade(spec), NEW path, List(path),
           NEW m \in spec.mappings, NEW o \in spec.mappings, Matches(m, path), Matches(o, path)
    PROVE  m = o
<1> SUFFICES ASSUME m # o PROVE FALSE
  OBVIOUS
<1>1. m.path # o.path /\ ~Overlaps(m, o) /\ ~Overlaps(o, m)
  BY DEF WellMade
<1>2. Len(path) \in Nat /\ DOMAIN path = 1..Len(path) /\ List(m.path) /\ List(o.path)
  BY DEF List, WellMade
<1>3. \A x \in {m, o} : DOMAIN x.path = 1..Len(x.path)
  BY <1>2 DEF List
<1>4. ASSUME NEW x \in {m, o}, NEW y \in {m, o}, x.path = path, y.path # path,
             Matches(y, path), ~Overlaps(x, y)
      PROVE  FALSE
  <2>1. y.collection /\ Len(y.path) = Len(path) /\ PathContains(y.path, path)
    BY <1>4 DEF Matches
  <2>2. Names(x.path) = Names(y.path)
    BY <1>2, <1>3, <1>4, <2>1 DEF Names, PathContains
  <2>3. CompatiblePrefix(x.path, y.path, Len(x.path))
    BY <1>2, <1>3, <1>4, <2>1 DEF CompatiblePrefix, Compatible, PathContains
  <2> QED
    BY <1>4, <2>1, <2>2, <2>3 DEF Overlaps
<1>5. CASE m.path = path
  BY <1>1, <1>4, <1>5
<1>6. CASE o.path = path
  BY <1>1, <1>4, <1>6
<1>7. CASE m.path # path /\ o.path # path
  <2>1. /\ m.collection /\ Len(m.path) = Len(path) /\ PathContains(m.path, path)
        /\ o.collection /\ Len(o.path) = Len(path) /\ PathContains(o.path, path)
    BY <1>7 DEF Matches
  <2>2. DOMAIN m.path = DOMAIN o.path /\ DOMAIN m.path = DOMAIN path
    BY <1>2, <1>3, <2>1
  <2>3. Names(m.path) = Names(o.path)
    BY <2>1, <2>2 DEF Names, PathContains
  <2>4. ASSUME NEW i \in DOMAIN path PROVE Compatible(m.path[i], o.path[i])
    BY <2>1, <2>2 DEF PathContains, Compatible
  <2>5. CompatiblePrefix(m.path, o.path, Len(m.path))
    BY <2>2, <2>4 DEF CompatiblePrefix
  <2> QED
    BY <1>1, <2>1, <2>3, <2>5 DEF Overlaps
<1> QED
  BY <1>5, <1>6, <1>7

(* So at most one mapping has a say about a path. *)
LEMMA AtMostOneMatches ==
    ASSUME NEW spec, WellMade(spec), NEW path, List(path)
    PROVE  Cardinality({m \in spec.mappings : Matches(m, path)}) <= 1
<1> DEFINE S == {m \in spec.mappings : Matches(m, path)}
<1>1. CASE S = {}
  BY <1>1, FS_EmptySet
<1>2. CASE S # {}
  <2>1. PICK m \in S : TRUE
    BY <1>2
  <2>2. S = {m}
    BY <2>1, OneMatches
  <2> QED
    BY <2>2, FS_Singleton
<1> QED
  BY <1>1, <1>2

-----------------------------------------------------------------------------
(* Numbers.                                                                *)

Least(S) == CHOOSE x \in S : \A y \in S : x <= y

(* Numbers have a least. *)
LEMMA LeastOf ==
    ASSUME NEW S \in SUBSET Nat, S # {}
    PROVE  Least(S) \in S /\ \A y \in S : Least(S) <= y
<1>1. PICK x \in S : \A y \in S : ~(<<y, x>> \in OpToRel(<, Nat))
  BY WFMin, NatLessThanWellFounded
<1>2. \A y \in S : x <= y
  <2> TAKE y \in S
  <2>1. x \in Nat /\ y \in Nat
    OBVIOUS
  <2>2. CASE y < x
    <3>1. <<y, x>> \in OpToRel(<, Nat)
      BY <2>1, <2>2 DEF OpToRel
    <3> QED
      BY <3>1, <1>1
  <2> QED
    BY <2>1, <2>2
<1> QED
  BY <1>1, <1>2 DEF Least

(* Induction, over a set. *)
LEMMA AllNumbers ==
    ASSUME NEW S, 0 \in S, \A n \in Nat : n \in S => n + 1 \in S
    PROVE  Nat \subseteq S
<1> SUFFICES ASSUME Nat \ S # {} PROVE FALSE
  OBVIOUS
<1> DEFINE m == Least(Nat \ S)
<1>1. m \in Nat \ S /\ \A y \in Nat \ S : m <= y
  BY LeastOf
<1> HIDE DEF m
<1>2. m - 1 \in Nat /\ ~(m <= m - 1)
  BY <1>1
<1>3. m - 1 \in S
  BY <1>1, <1>2
<1>4. (m - 1) + 1 \in S
  BY <1>2, <1>3
<1> QED
  BY <1>1, <1>4
-----------------------------------------------------------------------------
(* Documents.                                                              *)

(* The places above a place are its proper beginnings. *)
LEMMA AboveIs ==
    ASSUME NEW p \in Seq(Nat)
    PROVE  /\ Len(p) \in Nat /\ DOMAIN p = 1..Len(p)
           /\ \A q \in Above(p) :
                 /\ q \in Seq(Nat) /\ Len(q) \in 0..(Len(p) - 1) /\ q = SubSeq(p, 1, Len(q))
                 /\ \A i \in 1..Len(q) : q[i] = p[i]
                 /\ Above(q) \subseteq Above(p)
           /\ \A k \in 0..(Len(p) - 1) : SubSeq(p, 1, k) \in Above(p) /\ Len(SubSeq(p, 1, k)) = k
<1>1. Len(p) \in Nat /\ DOMAIN p = 1..Len(p)
  OBVIOUS
<1>2. ASSUME NEW k \in 0..Len(p)
      PROVE  /\ SubSeq(p, 1, k) \in Seq(Nat) /\ Len(SubSeq(p, 1, k)) = k
             /\ \A i \in 1..k : SubSeq(p, 1, k)[i] = p[i]
  BY <1>1
<1>3. ASSUME NEW k \in 0..(Len(p) - 1), NEW j \in 0..(k - 1)
      PROVE  SubSeq(SubSeq(p, 1, k), 1, j) = SubSeq(p, 1, j)
  <2>1. k \in 0..Len(p) /\ j \in 0..Len(p) /\ j \in Nat
    BY <1>1
  <2> DEFINE q == SubSeq(p, 1, k)
             a == SubSeq(q, 1, j)
             b == SubSeq(p, 1, j)
  <2>2. q \in Seq(Nat) /\ Len(q) = k /\ \A i \in 1..k : q[i] = p[i]
    BY <1>2, <2>1
  <2> HIDE DEF q
  <2>3. a \in Seq(Nat) /\ Len(a) = j /\ \A i \in 1..j : a[i] = q[i]
    BY <2>1, <2>2
  <2>4. b \in Seq(Nat) /\ Len(b) = j /\ \A i \in 1..j : b[i] = p[i]
    BY <1>2, <2>1
  <2> HIDE DEF a, b
  <2>5. \A i \in 1..j : i \in 1..k
    BY <1>1
  <2>6. \A i \in 1..j : a[i] = b[i]
    BY <2>2, <2>3, <2>4, <2>5
  <2> QED
    BY <2>3, <2>4, <2>6 DEF q, a, b
<1>4. ASSUME NEW k \in 0..(Len(p) - 1)
      PROVE  /\ SubSeq(p, 1, k) \in Seq(Nat) /\ Len(SubSeq(p, 1, k)) = k
             /\ \A i \in 1..k : SubSeq(p, 1, k)[i] = p[i]
             /\ Above(SubSeq(p, 1, k)) \subseteq Above(p)
  <2>1. k \in 0..Len(p)
    BY <1>1
  <2>2. SubSeq(p, 1, k) \in Seq(Nat) /\ Len(SubSeq(p, 1, k)) = k
        /\ \A i \in 1..k : SubSeq(p, 1, k)[i] = p[i]
    BY <1>2, <2>1
  <2>3. ASSUME NEW j \in 0..(k - 1) PROVE SubSeq(SubSeq(p, 1, k), 1, j) \in Above(p)
    <3>1. j \in 0..(Len(p) - 1)
      BY <1>1
    <3> QED
      BY <1>3, <3>1 DEF Above
  <2>4. Above(SubSeq(p, 1, k)) = {SubSeq(SubSeq(p, 1, k), 1, j) : j \in 0..(k - 1)}
    BY <2>2 DEF Above
  <2> QED
    BY <2>2, <2>3, <2>4
<1>5. ASSUME NEW q \in Above(p)
      PROVE  /\ q \in Seq(Nat) /\ Len(q) \in 0..(Len(p) - 1) /\ q = SubSeq(p, 1, Len(q))
             /\ \A i \in 1..Len(q) : q[i] = p[i]
             /\ Above(q) \subseteq Above(p)
  <2>1. PICK k \in 0..(Len(p) - 1) : q = SubSeq(p, 1, k)
    BY DEF Above
  <2> QED
    BY <1>4, <2>1
<1>6. \A k \in 0..(Len(p) - 1) : SubSeq(p, 1, k) \in Above(p)
  BY DEF Above
<1> QED
  BY <1>1, <1>4, <1>5, <1>6

(* The path of a place is the update's and then the names of the pointer. *)
Joined(path, names) == path \o [k \in DOMAIN names |-> Member(names[k])]

(* A function on 1..n is a list. *)
LEMMA NumberedList ==
    ASSUME NEW n \in Nat, NEW s, DOMAIN s = 1..n, s = [i \in 1..n |-> s[i]]
    PROVE  List(s) /\ Len(s) = n
<1>1. s \in [1..n -> Range(s)]
  BY DEF Range
<1> QED
  BY <1>1 DEF List

(* Two lists, one after the other. *)
LEMMA ListConcat ==
    ASSUME NEW a, NEW b, List(a), List(b)
    PROVE  /\ List(a \o b) /\ Len(a \o b) = Len(a) + Len(b)
           /\ DOMAIN (a \o b) = 1..(Len(a) + Len(b))
           /\ \A i \in 1..Len(a) : (a \o b)[i] = a[i]
           /\ \A i \in 1..Len(b) : (a \o b)[Len(a) + i] = b[i]
<1> DEFINE T == Range(a) \cup Range(b)
<1>1. a \in Seq(T) /\ b \in Seq(T)
  BY DEF List
<1> HIDE DEF T
<1>2. Len(a) \in Nat /\ Len(b) \in Nat /\ a \o b \in Seq(T) /\ Len(a \o b) = Len(a) + Len(b)
      /\ DOMAIN (a \o b) = 1..(Len(a) + Len(b))
      /\ (\A i \in 1..Len(a) : (a \o b)[i] = a[i])
      /\ \A i \in 1..Len(b) : (a \o b)[Len(a) + i] = b[i]
  BY <1>1
<1>3. List(a \o b)
  <2> DEFINE s == a \o b
             n == Len(a) + Len(b)
  <2>1. s \in Seq(T) /\ n \in Nat /\ Len(s) = n /\ DOMAIN s = 1..n
    BY <1>2
  <2> HIDE DEF s, n
  <2>2. s = [i \in 1..n |-> s[i]]
    BY <2>1
  <2>3. List(s)
    BY <2>1, <2>2, NumberedList
  <2> QED
    BY <2>3 DEF s
<1> QED
  BY <1>2, <1>3

(* A path and the names below it. *)
LEMMA JoinedIs ==
    ASSUME NEW path, List(path), NEW names, List(names)
    PROVE  /\ List(Joined(path, names)) /\ Len(Joined(path, names)) = Len(path) + Len(names)
           /\ DOMAIN Joined(path, names) = 1..(Len(path) + Len(names))
           /\ \A i \in 1..Len(path) : Joined(path, names)[i] = path[i]
           /\ \A i \in 1..Len(names) : Joined(path, names)[Len(path) + i] = Member(names[i])
<1> DEFINE tail == [k \in DOMAIN names |-> Member(names[k])]
<1>1. Len(names) \in Nat /\ DOMAIN names = 1..Len(names) /\ Len(path) \in Nat
  BY DEF List
<1>2. tail = [i \in 1..Len(names) |-> tail[i]] /\ DOMAIN tail = 1..Len(names)
  BY <1>1
<1>3. List(tail) /\ Len(tail) = Len(names)
  BY <1>1, <1>2, NumberedList
<1>4. \A i \in 1..Len(names) : tail[i] = Member(names[i])
  BY <1>1
<1> HIDE DEF tail
<1>5. /\ List(path \o tail) /\ Len(path \o tail) = Len(path) + Len(tail)
      /\ DOMAIN (path \o tail) = 1..(Len(path) + Len(tail))
      /\ \A i \in 1..Len(path) : (path \o tail)[i] = path[i]
      /\ \A i \in 1..Len(tail) : (path \o tail)[Len(path) + i] = tail[i]
  BY <1>3, ListConcat
<1>6. Joined(path, names) = path \o tail
  BY DEF Joined, tail
<1> QED
  BY <1>3, <1>4, <1>5, <1>6

(* The names are told by the path they lead to. *)
LEMMA JoinedTells ==
    ASSUME NEW path, List(path), NEW a, NEW b, List(a), List(b), Joined(path, a) = Joined(path, b)
    PROVE  a = b
<1>1. /\ Len(path) \in Nat /\ Len(a) \in Nat /\ Len(b) \in Nat
      /\ DOMAIN a = 1..Len(a) /\ DOMAIN b = 1..Len(b)
      /\ a = [i \in 1..Len(a) |-> a[i]] /\ b = [i \in 1..Len(b) |-> b[i]]
  BY DEF List
<1>2. ASSUME NEW c, List(c)
      PROVE  /\ Len(Joined(path, c)) = Len(path) + Len(c)
             /\ \A i \in 1..Len(c) : Joined(path, c)[Len(path) + i] = Member(c[i])
  BY <1>2, JoinedIs
<1>3. Len(a) = Len(b)
  <2>1. Len(path) + Len(a) = Len(path) + Len(b)
    BY <1>2
  <2>2. Len(path) \in Nat /\ Len(a) \in Nat /\ Len(b) \in Nat
    BY <1>1
  <2> QED
    BY <2>1, <2>2
<1>4. ASSUME NEW i \in 1..Len(a) PROVE a[i] = b[i]
  <2>1. Joined(path, a)[Len(path) + i] = Member(a[i])
    BY <1>2
  <2>2. Joined(path, b)[Len(path) + i] = Member(b[i])
    BY <1>2, <1>3
  <2> QED
    BY <2>1, <2>2 DEF Member
<1> QED
  BY <1>1, <1>3, <1>4

(* A place's path is its update's, and the names on the way. *)
LEMMA PointerIs ==
    ASSUME NEW path, List(path), NEW doc, NEW p \in Seq(Nat)
    PROVE  /\ List(Pointer(doc, p)) /\ Len(Pointer(doc, p)) = Len(p)
           /\ Below(path, doc, p) = Joined(path, Pointer(doc, p))
           /\ List(Below(path, doc, p))
           /\ \A q \in Above(p) : Begins(Below(path, doc, q), Below(path, doc, p))
           /\ Begins(path, Below(path, doc, p))
<1>1. Len(p) \in Nat /\ DOMAIN p = 1..Len(p) /\ Len(path) \in Nat
  BY DEF List
<1>2. ASSUME NEW q \in Seq(Nat)
      PROVE  /\ List(Pointer(doc, q)) /\ Len(Pointer(doc, q)) = Len(q)
             /\ Below(path, doc, q) = Joined(path, Pointer(doc, q))
             /\ DOMAIN Pointer(doc, q) = DOMAIN q
  <2>1. Len(q) \in Nat /\ DOMAIN q = 1..Len(q)
    OBVIOUS
  <2>2. DOMAIN Pointer(doc, q) = 1..Len(q)
        /\ Pointer(doc, q) = [i \in 1..Len(q) |-> Pointer(doc, q)[i]]
    BY <2>1 DEF Pointer
  <2>3. List(Pointer(doc, q)) /\ Len(Pointer(doc, q)) = Len(q)
    BY <2>1, <2>2, NumberedList
  <2>4. Below(path, doc, q) = Joined(path, Pointer(doc, q))
    BY <2>1, <2>2 DEF Below, Joined
  <2> QED
    BY <2>1, <2>2, <2>3, <2>4
<1>3. ASSUME NEW q \in Above(p) PROVE Begins(Below(path, doc, q), Below(path, doc, p))
  <2>1. q \in Seq(Nat) /\ Len(q) \in 0..(Len(p) - 1) /\ q = SubSeq(p, 1, Len(q))
    BY AboveIs
  <2> DEFINE a == Pointer(doc, q)
             b == Pointer(doc, p)
  <2>2. List(a) /\ List(b) /\ Len(a) = Len(q) /\ Len(b) = Len(p)
    BY <1>2, <2>1
  <2>3. \A i \in 1..Len(q) : SubSeq(q, 1, i) = SubSeq(p, 1, i)
    <3> TAKE i \in 1..Len(q)
    <3>1. CASE i = Len(q)
      <4>1. SubSeq(q, 1, Len(q)) = q
        BY <2>1
      <4> QED
        BY <2>1, <3>1, <4>1
    <3>2. CASE i # Len(q)
      <4>1. i \in 0..(Len(q) - 1) /\ i \in 0..(Len(p) - 1)
        <5>1. Len(q) \in Nat /\ Len(q) <= Len(p) - 1
          BY <2>1, <1>1
        <5> QED
          BY <5>1, <3>2, <1>1
      <4>2. SubSeq(q, 1, i) \in Above(q) /\ Len(SubSeq(q, 1, i)) = i
        BY <2>1, <4>1, AboveIs
      <4>3. SubSeq(q, 1, i) \in Above(p)
        BY <4>2, AboveIs
      <4> QED
        BY <4>2, <4>3, AboveIs
    <3> QED
      BY <3>1, <3>2
  <2>4. \A i \in 1..Len(q) : a[i] = b[i]
    <3> TAKE i \in 1..Len(q)
    <3>1. i \in DOMAIN q /\ i \in DOMAIN p
      BY <1>1, <2>1
    <3> QED
      BY <2>3, <3>1 DEF Pointer
  <2> HIDE DEF a, b
  <2>5. /\ Len(Joined(path, a)) = Len(path) + Len(q)
        /\ \A k \in 1..Len(q) : Joined(path, a)[Len(path) + k] = Member(a[k])
        /\ Len(Joined(path, b)) = Len(path) + Len(p)
        /\ \A k \in 1..Len(p) : Joined(path, b)[Len(path) + k] = Member(b[k])
        /\ \A k \in 1..Len(path) : Joined(path, a)[k] = path[k] /\ Joined(path, b)[k] = path[k]
    <3>1. ASSUME NEW c, List(c)
          PROVE  /\ Len(Joined(path, c)) = Len(path) + Len(c)
                 /\ \A i \in 1..Len(c) : Joined(path, c)[Len(path) + i] = Member(c[i])
                 /\ \A k \in 1..Len(path) : Joined(path, c)[k] = path[k]
      BY <3>1, JoinedIs
    <3> QED
      BY <3>1, <2>2
  <2>6. Begins(Joined(path, a), Joined(path, b))
    <3>2. ASSUME NEW i \in 1..(Len(path) + Len(q)) PROVE Joined(path, a)[i] = Joined(path, b)[i]
      <4>1. CASE i <= Len(path)
        <5>1. i \in 1..Len(path)
          BY <4>1, <1>1
        <5> QED
          BY <5>1, <2>5
      <4>2. CASE i > Len(path)
        <5>1. PICK k \in 1..Len(q) : i = Len(path) + k /\ k \in 1..Len(p)
          <6>1. i - Len(path) \in 1..Len(q) /\ i = Len(path) + (i - Len(path))
                /\ i - Len(path) \in 1..Len(p)
            BY <4>2, <1>1, <2>1
          <6> QED
            BY <6>1
        <5> QED
          BY <5>1, <2>4, <2>5
      <4> QED
        BY <4>1, <4>2, <1>1, <2>1
    <3> QED
      <4>1. Len(p) \in Nat /\ Len(q) \in Nat /\ Len(q) <= Len(p) /\ Len(path) \in Nat
        BY <2>1, <1>1
      <4>2. Len(path) + Len(q) <= Len(path) + Len(p)
        BY <4>1
      <4> QED
        BY <2>5, <3>2, <4>2 DEF Begins
  <2> QED
    BY <1>2, <2>1, <2>6 DEF a, b
<1>4. Begins(path, Below(path, doc, p))
  <2> DEFINE b == Pointer(doc, p)
  <2>1. List(b) /\ Len(b) = Len(p) /\ Below(path, doc, p) = Joined(path, b)
    BY <1>2
  <2> HIDE DEF b
  <2>2. Len(Joined(path, b)) = Len(path) + Len(b) /\ \A k \in 1..Len(path) : Joined(path, b)[k] =
            path[k]
    BY <2>1, JoinedIs
  <2> QED
    BY <1>1, <2>1, <2>2 DEF Begins
<1>5. List(Below(path, doc, p))
  BY <1>2, JoinedIs
<1> QED
  BY <1>2, <1>3, <1>4, <1>5

(* Names tell places apart below objects without a name twice. *)
LEMMA NamesTell ==
    ASSUME NEW doc, IsDocument(doc), NEW p \in DOMAIN doc, NEW q \in DOMAIN doc,
           Pointer(doc, p) = Pointer(doc, q), \A a \in Above(p) : ~Repeats(doc, a)
    PROVE  p = q
<1> SUFFICES ASSUME p # q PROVE FALSE
  OBVIOUS
<1>1. p \in Seq(Nat) /\ q \in Seq(Nat)
  BY DEF IsDocument
<1>2. Len(p) \in Nat /\ DOMAIN p = 1..Len(p) /\ Len(q) \in Nat /\ DOMAIN q = 1..Len(q)
  BY <1>1
<1>3. DOMAIN p = DOMAIN q
  BY DEF Pointer
<1>4. Len(p) = Len(q)
  <2>1. \A i \in Nat \ {0} : i <= Len(p) <=> i <= Len(q)
    BY <1>2, <1>3
  <2>2. Len(p) # 0 => Len(p) <= Len(q)
    BY <1>2, <2>1
  <2>3. Len(q) # 0 => Len(q) <= Len(p)
    BY <1>2, <2>1
  <2>4. Len(p) \in Nat /\ Len(q) \in Nat
    BY <1>2
  <2> QED
    BY <2>2, <2>3, <2>4
<1> DEFINE D == {i \in 1..Len(p) : p[i] # q[i]}
<1>5. D # {}
  <2>1. p = [i \in 1..Len(p) |-> p[i]] /\ q = [i \in 1..Len(q) |-> q[i]]
    BY <1>1
  <2> QED
    BY <2>1, <1>4
<1>6. D \in SUBSET Nat
  BY <1>2
<1> DEFINE k == Least(D)
<1>7. k \in D /\ \A i \in D : k <= i
  BY <1>5, <1>6, LeastOf
<1>8. k \in 1..Len(p) /\ k - 1 \in 0..(Len(p) - 1) /\ p[k] # q[k] /\ \A i \in 1..(k - 1) :
          p[i] = q[i]
  <2>1. k \in 1..Len(p) /\ k - 1 \in 0..(Len(p) - 1)
    <3>1. k \in 1..Len(p)
      BY <1>7
    <3> HIDE DEF k
    <3> QED
      BY <1>2, <3>1
  <2>2. ASSUME NEW i \in 1..(k - 1) PROVE p[i] = q[i]
    <3>1. i \in 1..Len(p) /\ ~(k <= i)
      BY <1>2, <2>1
    <3> QED
      BY <1>7, <3>1
  <2> QED
    BY <1>7, <2>1, <2>2
<1> HIDE DEF D, k
<1> DEFINE r == SubSeq(p, 1, k - 1)
<1>9. ASSUME NEW x \in {p, q}
      PROVE  /\ SubSeq(x, 1, k) \in DOMAIN doc /\ Len(SubSeq(x, 1, k)) = Len(r) + 1
             /\ r \in Above(SubSeq(x, 1, k)) /\ SubSeq(x, 1, k)[k] = x[k]
             /\ doc[SubSeq(x, 1, k)].name = Pointer(doc, p)[k]
  <2>1. x \in Seq(Nat) /\ x \in DOMAIN doc /\ Len(x) = Len(p) /\ \A i \in 1..(k - 1) : x[i] = p[i]
    BY <1>1, <1>4, <1>8
  <2> DEFINE y == SubSeq(x, 1, k)
  <2>2. y \in Seq(Nat) /\ Len(y) = k /\ \A i \in 1..k : y[i] = x[i]
    BY <2>1, <1>8, <1>2
  <2>3. y \in DOMAIN doc
    <3>1. CASE k = Len(x)
      <4>1. SubSeq(x, 1, Len(x)) = x
        BY <2>1
      <4> QED
        BY <2>1, <3>1, <4>1
    <3>2. CASE k # Len(x)
      <4>1. k \in 0..(Len(x) - 1)
        BY <3>2, <2>1, <1>8, <1>2
      <4>2. y \in Above(x)
        BY <4>1, <2>1, AboveIs
      <4> QED
        BY <4>2, <2>1 DEF IsDocument
    <3> QED
      BY <3>1, <3>2
  <2>4. doc[y].name = Pointer(doc, x)[k]
    <3>1. k \in DOMAIN x
      BY <1>8, <2>1
    <3> QED
      BY <3>1 DEF Pointer
  <2>5. Pointer(doc, x) = Pointer(doc, p)
    OBVIOUS
  <2> HIDE DEF y
  <2>6. r \in Seq(Nat) /\ Len(r) = k - 1 /\ \A i \in 1..(k - 1) : r[i] = p[i]
    BY <1>1, <1>2, <1>8
  <2>7. k - 1 \in 0..(Len(y) - 1) /\ k \in Nat
    BY <1>8, <2>2, <1>2
  <2> DEFINE z == SubSeq(y, 1, k - 1)
  <2>8. z \in Above(y)
    BY <2>2, <2>7, AboveIs
  <2>9. z \in Seq(Nat) /\ Len(z) = k - 1 /\ \A i \in 1..(k - 1) : z[i] = y[i]
    BY <2>2, <2>7
  <2> HIDE DEF z, r
  <2>10. \A i \in 1..(k - 1) : i \in 1..k
    BY <2>7
  <2>11. \A i \in 1..(k - 1) : z[i] = r[i]
    BY <2>1, <2>2, <2>6, <2>9, <2>10
  <2>12. z = r
    BY <2>6, <2>9, <2>11
  <2> QED
    BY <2>2, <2>3, <2>4, <2>5, <2>6, <2>7, <2>8, <2>12 DEF y
<1>10. SubSeq(p, 1, k) # SubSeq(q, 1, k)
  BY <1>8, <1>9
<1>11. r \in Above(p)
  BY <1>1, <1>8, AboveIs
<1>12. doc[SubSeq(p, 1, k)].name = doc[SubSeq(q, 1, k)].name
  BY <1>9
<1>13. Repeats(doc, r)
  <2> HIDE DEF r
  <2> QED
    BY <1>9, <1>10, <1>12 DEF Repeats
<1> QED
  BY <1>11, <1>13

(* The walk comes to every place on the branches, unless it is discarded,  *)
(* and a place on them that it does not come to is behind a flaw.          *)
LEMMA VisitedOnBranches ==
    ASSUME NEW spec, NEW path, NEW doc
    PROVE  Visited(spec, path, doc) \subseteq OnBranches(spec, path, doc)
  BY DEF Visited, OnBranches, Opens

(* On a branch, but not visited: an opened object on the way repeats a name. *)
LEMMA FirstRepeat ==
    ASSUME NEW spec, NEW path, NEW doc, IsDocument(doc),
           NEW p \in OnBranches(spec, path, doc), p \notin Visited(spec, path, doc)
    PROVE  \E q \in Visited(spec, path, doc) : Opens(spec, path, doc, q) /\ Repeats(doc, q)
<1>1. p \in DOMAIN doc /\ p \in Seq(Nat)
  BY DEF OnBranches, IsDocument
<1>2. \A a \in Above(p) : a \in DOMAIN doc /\ Opens(spec, path, doc, a)
  BY <1>1 DEF OnBranches, IsDocument, Opens
<1> DEFINE L == {Len(a) : a \in {b \in Above(p) : Repeats(doc, b)}}
<1>3. L # {}
  BY <1>1, <1>2 DEF Visited
<1>4. L \in SUBSET Nat
  BY <1>1, AboveIs
<1>5. PICK q \in Above(p) : Repeats(doc, q) /\ \A k \in L : Len(q) <= k
  <2>1. Least(L) \in L /\ \A k \in L : Least(L) <= k
    BY <1>3, <1>4, LeastOf
  <2> QED
    BY <2>1
<1>6. q \in Seq(Nat) /\ Above(q) \subseteq Above(p) /\ Len(q) \in Nat
  BY <1>1, AboveIs
<1>7. ASSUME NEW a \in Above(q) PROVE ~Repeats(doc, a)
  <2>1. Len(a) \in 0..(Len(q) - 1)
    BY <1>6, AboveIs
  <2>2. ~(Len(q) <= Len(a))
    BY <2>1, <1>6
  <2> QED
    BY <2>2, <1>5, <1>6
<1> QED
  BY <1>2, <1>5, <1>6, <1>7 DEF Visited

(* expand meets a flaw just when the documentation discards the update. *)
LEMMA FlawedIsDiscarded ==
    ASSUME NEW spec, NEW path, NEW value, value[1] = "object", IsDocument(value[2])
    PROVE  Flaws(spec, path, value[2], value[3]) # {} <=> Discarded(spec, path, value)
<1> DEFINE doc == value[2]
           visited == Visited(spec, path, doc)
           long(p) == Len(p) > PointerLimit
                        /\ (Relevant(spec, Below(path, doc, p))
                              \/ (value[3] /\ Mismatch(spec, Below(path, doc, p), Len(path))))
           repeating(p) == Opens(spec, path, doc, p) /\ Repeats(doc, p)
<1>1. Flaws(spec, path, doc, value[3]) # {} <=> \E p \in visited : long(p) \/ repeating(p)
  BY DEF Flaws, Mismatched
<1>2. Discarded(spec, path, value) <=> \E p \in OnBranches(spec, path, doc) :
          long(p) \/ repeating(p)
  BY DEF Discarded, Opens
<1>3. visited \subseteq OnBranches(spec, path, doc)
  BY VisitedOnBranches
<1>4. ASSUME NEW p \in OnBranches(spec, path, doc), p \notin visited
      PROVE  \E q \in visited : repeating(q)
  BY <1>4, FirstRepeat
<1> HIDE DEF doc, visited, long, repeating
<1>5. Flaws(spec, path, doc, value[3]) # {} <=> Discarded(spec, path, value)
  BY <1>1, <1>2, <1>3, <1>4
<1> QED
  BY <1>5 DEF doc

(* Otherwise it visits all that is on branches, and no name repeats. *)
LEMMA BranchesVisited ==
    ASSUME NEW spec, NEW path, NEW value, value[1] = "object", IsDocument(value[2]),
           ~Discarded(spec, path, value)
    PROVE  /\ Visited(spec, path, value[2]) = OnBranches(spec, path, value[2])
           /\ \A p \in Visited(spec, path, value[2]) : \A a \in Above(p) : ~Repeats(value[2], a)
<1>1. Flaws(spec, path, value[2], value[3]) = {}
  BY FlawedIsDiscarded
<1>2. \A q \in Visited(spec, path, value[2]) :
          ~(Opens(spec, path, value[2], q) /\ Repeats(value[2], q))
  BY <1>1 DEF Flaws
<1> QED
  BY <1>2, FirstRepeat, VisitedOnBranches DEF Visited

(* A leaf of the walk and the word it is: one path, one pointer, and worth *)
(* the same to every mapping.                                              *)
Same(spec, l, w) ==
    /\ l.path = w.path /\ l.pointer = w.pointer
    /\ \A m \in spec.mappings :
          /\ Projectable(m, l) <=> Projectable(m, w)
          /\ Projectable(m, l) => l.value[2][2] = w.value[2][2]

(* What expanding a heard update finds is what it says. *)
ToldOf(spec, path, value, found) ==
    /\ \A w \in Says(spec, path, value) : \E l \in found.leaves : Same(spec, l, w)
    /\ \A l \in found.leaves : \E w \in Says(spec, path, value) : Same(spec, l, w)
    /\ \A v, w \in Says(spec, path, value) : v.path = w.path => v = w
    /\ \A k, l \in found.leaves : k.path = l.path => k = l
    /\ \A l \in found.leaves :
          List(l.pointer) /\ l.path = Joined(path, l.pointer) /\ l.pointer \notin found.issues
    /\ found.issues = Misnamed(spec, path, value)
    /\ IsFiniteSet(found.leaves)

(* Nothing is a list, *)
LEMMA EmptyList == List(<<>>) /\ Len(<<>>) = 0
  BY DEF List

(* and leads nowhere. *)
LEMMA JoinedNothing == ASSUME NEW path, List(path) PROVE Joined(path, <<>>) = path
<1>1. /\ List(Joined(path, <<>>)) /\ Len(Joined(path, <<>>)) = Len(path) + 0
      /\ \A i \in 1..Len(path) : Joined(path, <<>>)[i] = path[i]
  BY EmptyList, JoinedIs
<1> DEFINE j == Joined(path, <<>>)
<1> HIDE DEF j
<1>2. j \in Seq(Range(j)) /\ Len(j) = Len(path) /\ \A i \in 1..Len(path) : j[i] = path[i]
  BY <1>1 DEF List, j
<1>3. path \in Seq(Range(path))
  BY DEF List
<1>4. j = path
  BY <1>2, <1>3
<1> QED
  BY <1>4 DEF j

(* A value that is not an object is one leaf. *)
LEMMA OpaqueTold ==
    ASSUME NEW spec, NEW path, List(path), NEW value, value[1] \notin {"object", "malformed"},
           Mapped(spec, path) \/ Relevant(spec, path)
    PROVE  ToldOf(spec, path, value, Expanded(spec, path, value))
<1> DEFINE word == [path |-> path, pointer |-> <<>>, value |-> value]
<1>1. Expanded(spec, path, value) = [leaves |-> {word}, issues |-> {}]
  BY DEF Expanded
<1>2. Says(spec, path, value) = {word}
  BY DEF Says, Word
<1>3. Misnamed(spec, path, value) = {}
  BY DEF Misnamed
<1>4. Same(spec, word, word)
  BY DEF Same
<1>5. word.path = Joined(path, word.pointer) /\ List(word.pointer)
  BY JoinedNothing, EmptyList
<1>6. IsFiniteSet({word})
  BY FS_Singleton
<1> HIDE DEF word
<1>7. \A l \in Expanded(spec, path, value).leaves : l = word
  BY <1>1
<1>8. Expanded(spec, path, value).leaves = {word} /\ Expanded(spec, path, value).issues = {}
  BY <1>1
<1> HIDE DEF ToldOf
<1> QED
  BY <1>2, <1>3, <1>4, <1>5, <1>6, <1>8 DEF ToldOf

(* A value that is no scalar is worth nothing, as is none at all. *)
LEMMA LeafIsWord ==
    ASSUME NEW spec, WellMade(spec), NEW path, NEW doc, NEW ietf, NEW p
    PROVE  Same(spec, Leaf(path, doc, ietf, p),
                Word(Below(path, doc, p), Pointer(doc, p), <<"json", doc[p].value, ietf>>))
<1> DEFINE l == Leaf(path, doc, ietf, p)
           w == Word(Below(path, doc, p), Pointer(doc, p), <<"json", doc[p].value, ietf>>)
           v == doc[p].value
<1>1. /\ l.path = Below(path, doc, p) /\ l.pointer = Pointer(doc, p)
      /\ l.value = IF v[1] \in Scalars THEN <<"json", v, ietf>> ELSE None
      /\ w.path = Below(path, doc, p) /\ w.pointer = Pointer(doc, p)
      /\ w.value = <<"json", v, ietf>>
  BY DEF Leaf, Word
<1>2. ASSUME NEW m \in spec.mappings
      PROVE  /\ Projectable(m, l) <=> Projectable(m, w)
             /\ Projectable(m, l) => l.value[2][2] = w.value[2][2]
  <2>1. CASE v[1] \in Scalars
    BY <1>1, <2>1 DEF Projectable
  <2>2. CASE v[1] \notin Scalars
    <3>1. m.type \in {"int", "boolean", "string"}
      BY DEF WellMade, Sorts
    <3>2. v[1] \notin Sorts[m.type] /\ v[1] # "digits"
      BY <2>2, <3>1 DEF Sorts, Scalars
    <3>3. ~Takes(m.type, w.value)
      <4>1. w.value[2] = v
        BY <1>1
      <4> QED
        BY <3>2, <4>1 DEF Takes
    <3>4. ~Takes(m.type, l.value)
      BY <1>1, <2>2 DEF Takes
    <3> QED
      BY <3>3, <3>4 DEF Projectable
  <2> QED
    BY <2>1, <2>2
<1> HIDE DEF l, w
<1>3. Same(spec, l, w)
  BY <1>1, <1>2 DEF Same
<1> QED
  BY <1>3 DEF l, w

(* The image of a finite set is finite. *)
LEMMA ImageIsFinite ==
    ASSUME NEW S, IsFiniteSet(S), NEW f, DOMAIN f = S
    PROVE  IsFiniteSet({f[x] : x \in S})
<1> DEFINE T == {f[x] : x \in S}
           g == [x \in S |-> f[x]]
<1>1. g \in Surjection(S, T)
  BY DEF Surjection
<1> QED
  BY <1>1, FS_Surjection

(* Expanding an object finds what it says. *)
LEMMA ObjectTold ==
    ASSUME NEW spec, WellMade(spec), NEW path, List(path), NEW value,
           value[1] = "object", IsDocument(value[2]), ~Discarded(spec, path, value)
    PROVE  ToldOf(spec, path, value, Expanded(spec, path, value))
<1> DEFINE doc == value[2]
           ietf == value[3]
           found == Expanded(spec, path, value)
           visited == Visited(spec, path, doc)
           leading == {p \in visited : Leads(spec, path, doc, p)}
           word(p) == Word(Below(path, doc, p), Pointer(doc, p), <<"json", doc[p].value, ietf>>)
           leaf(p) == Leaf(path, doc, ietf, p)
<1>1. Flaws(spec, path, doc, ietf) = {}
  BY FlawedIsDiscarded
<1>2. found = [leaves |-> {leaf(p) : p \in leading},
               issues |-> {Pointer(doc, p) :
                   p \in {q \in visited : Mismatched(spec, path, doc, ietf, q)}}]
  BY <1>1 DEF Expanded, Expand
<1>3. visited = OnBranches(spec, path, doc) /\ \A p \in visited : \A a \in Above(p) :
          ~Repeats(doc, a)
  BY BranchesVisited
<1>4. \A p \in DOMAIN doc : p \in Seq(Nat) /\ \A a \in Above(p) : a \in DOMAIN doc /\ a \in Seq(Nat)
  BY DEF IsDocument
<1>5. ASSUME NEW p \in DOMAIN doc
      PROVE  /\ List(Pointer(doc, p)) /\ List(Below(path, doc, p))
             /\ Below(path, doc, p) = Joined(path, Pointer(doc, p))
             /\ \A q \in Above(p) : Begins(Below(path, doc, q), Below(path, doc, p))
                                      /\ List(Below(path, doc, q))
  <2>1. p \in Seq(Nat) /\ \A a \in Above(p) : a \in Seq(Nat)
    BY <1>4
  <2> QED
    BY <2>1, PointerIs
<1>6. ASSUME NEW p \in DOMAIN doc
      PROVE  Leads(spec, path, doc, p) <=>
                \/ Mapped(spec, Below(path, doc, p))
                \/ Relevant(spec, Below(path, doc, p)) /\ ~IsObject(doc, p)
  BY DEF Leads
<1>7. ASSUME NEW p \in DOMAIN doc, Leads(spec, path, doc, p)
      PROVE  Relevant(spec, Below(path, doc, p)) /\ p \in visited
  <2>1. Relevant(spec, Below(path, doc, p))
    BY <1>5, <1>6, <1>7, MappedIsRelevant
  <2>2. ASSUME NEW a \in Above(p) PROVE Relevant(spec, Below(path, doc, a))
    BY <1>5, <2>1, RelevantAbove
  <2> QED
    BY <1>3, <2>1, <2>2 DEF OnBranches
<1>8. leading = {p \in DOMAIN doc : Leads(spec, path, doc, p)}
  <2>1. \A p \in visited : p \in DOMAIN doc
    BY DEF Visited
  <2> QED
    BY <1>7, <2>1
<1>9. Says(spec, path, value) = {word(p) : p \in leading}
  <2>1. leading = {q \in DOMAIN doc : \/ Mapped(spec, Below(path, doc, q))
                                      \/ Relevant(spec, Below(path, doc, q)) /\ ~IsObject(doc, q)}
    BY <1>6, <1>8
  <2> HIDE DEF leading
  <2> QED
    BY <2>1 DEF Says
<1>10. \A p \in leading : Same(spec, leaf(p), word(p)) /\ leaf(p).path = Below(path, doc, p)
                            /\ leaf(p).pointer = Pointer(doc, p)
                                   /\ word(p).path = Below(path, doc, p)
  BY LeafIsWord DEF Leaf, Word
<1>11. ASSUME NEW p \in leading, NEW q \in leading, Below(path, doc, p) = Below(path, doc, q)
       PROVE  p = q
  <2>1. p \in visited /\ p \in DOMAIN doc /\ q \in DOMAIN doc
    BY DEF Visited
  <2>2. Pointer(doc, p) = Pointer(doc, q)
    BY <1>5, <1>11, <2>1, JoinedTells
  <2> QED
    BY <1>3, <2>1, <2>2, NamesTell
<1>12. found.issues = Misnamed(spec, path, value)
  <2> DEFINE wrong == {q \in visited : Mismatched(spec, path, doc, ietf, q)}
  <2>1. CASE ~ietf
    <3>1. wrong = {}
      BY <2>1 DEF Mismatched
    <3>2. Misnamed(spec, path, value) = {}
      BY <2>1 DEF Misnamed
    <3> QED
      BY <1>2, <3>1, <3>2
  <2>2. CASE ietf
    <3>1. wrong = {q \in OnBranches(spec, path, doc) :
                      /\ ~Relevant(spec, Below(path, doc, q))
                      /\ Mismatch(spec, Below(path, doc, q), Len(path))}
      BY <1>3, <2>2 DEF Mismatched
    <3> HIDE DEF wrong
    <3>2. Misnamed(spec, path, value) = {Pointer(doc, p) : p \in wrong}
      BY <2>2, <3>1 DEF Misnamed
    <3>3. found.issues = {Pointer(doc, p) : p \in wrong}
      BY <1>2 DEF wrong
    <3> QED
      BY <3>2, <3>3
  <2> QED
    BY <2>1, <2>2
<1>13. ASSUME NEW p \in leading PROVE Pointer(doc, p) \notin found.issues
  <2>1. p \in DOMAIN doc /\ Relevant(spec, Below(path, doc, p))
    BY <1>7, <1>8
  <2>2. ASSUME NEW q \in visited, Mismatched(spec, path, doc, ietf, q)
        PROVE  Pointer(doc, q) # Pointer(doc, p)
    <3>1. ~Relevant(spec, Below(path, doc, q))
      BY <2>2 DEF Mismatched
    <3>2. q \in DOMAIN doc
      BY DEF Visited
    <3> QED
      BY <1>5, <2>1, <3>1, <3>2
  <2> QED
    BY <1>2, <2>2
<1>14. IsFiniteSet(leading)
  <2>1. leading \in SUBSET (DOMAIN doc) /\ IsFiniteSet(DOMAIN doc)
    BY <1>8 DEF IsDocument
  <2> QED
    BY <2>1, FS_Subset
<1>15. found.leaves = {leaf(p) : p \in leading}
  BY <1>2
<1>16. IsFiniteSet(found.leaves)
  <2> DEFINE f == [p \in leading |-> leaf(p)]
  <2>1. found.leaves = {f[p] : p \in leading} /\ DOMAIN f = leading
    BY <1>15
  <2> HIDE DEF f, leading
  <2> QED
    BY <1>14, <2>1, ImageIsFinite
<1>17. \A p \in leading : List(Pointer(doc, p)) /\ Below(path, doc, p) =
           Joined(path, Pointer(doc, p))
  BY <1>5, <1>8
<1> HIDE DEF found, leading, doc, ietf, visited, leaf, word
<1>18. \A w \in Says(spec, path, value) : \E l \in found.leaves : Same(spec, l, w)
  BY <1>9, <1>10, <1>15
<1>19. \A l \in found.leaves : \E w \in Says(spec, path, value) : Same(spec, l, w)
  BY <1>9, <1>10, <1>15
<1>20. \A v, w \in Says(spec, path, value) : v.path = w.path => v = w
  BY <1>9, <1>10, <1>11
<1>21. \A k, l \in found.leaves : k.path = l.path => k = l
  BY <1>10, <1>11, <1>15
<1>22. \A l \in found.leaves :
          List(l.pointer) /\ l.path = Joined(path, l.pointer) /\ l.pointer \notin found.issues
  BY <1>10, <1>13, <1>15, <1>17
<1>23. ToldOf(spec, path, value, found)
  BY <1>12, <1>16, <1>18, <1>19, <1>20, <1>21, <1>22 DEF ToldOf
<1> QED
  BY <1>23 DEF found

(* A discarded update leaves an issue only, one nobody hears says nothing. *)
LEMMA DiscardedTold ==
    ASSUME NEW spec, NEW path, NEW value, value[1] = "object" => IsDocument(value[2]),
           Discarded(spec, path, value)
    PROVE  /\ Expanded(spec, path, value).leaves = {}
           /\ Expanded(spec, path, value).issues # {}
<1>1. CASE value[1] = "malformed"
  BY <1>1 DEF Expanded, Rejected
<1>2. CASE value[1] # "malformed"
  <2>1. value[1] = "object"
    BY <1>2 DEF Discarded
  <2>2. Flaws(spec, path, value[2], value[3]) # {}
    BY <2>1, FlawedIsDiscarded
  <2> QED
    BY <2>1, <2>2 DEF Expanded, Expand, Rejected
<1> QED
  BY <1>1, <1>2

(* And so of every value that is not discarded. *)
LEMMA HeardTold ==
    ASSUME NEW spec, WellMade(spec), NEW path, List(path),
               Mapped(spec, path) \/ Relevant(spec, path),
           NEW value, value[1] = "object" => IsDocument(value[2]), ~Discarded(spec, path, value)
    PROVE  ToldOf(spec, path, value, Expanded(spec, path, value))
<1>1. value[1] # "malformed"
  BY DEF Discarded
<1> QED
  BY <1>1, ObjectTold, OpaqueTold

(* Below a path that leads to no mapping, nothing is said. *)
LEMMA UnheardSaysNothing ==
    ASSUME NEW spec, WellMade(spec), NEW path, List(path), ~Relevant(spec, path),
           NEW value, value[1] = "object" => IsDocument(value[2])
    PROVE  ~Mapped(spec, path) /\ Says(spec, path, value) = {} /\ Misnamed(spec, path, value) = {}
<1>1. ~Mapped(spec, path)
  BY MappedIsRelevant
<1> DEFINE doc == value[2]
<1>2. CASE value[1] # "object"
  BY <1>1, <1>2 DEF Says, Misnamed
<1>3. CASE value[1] = "object"
  <2>1. \A p \in DOMAIN doc : p \in Seq(Nat)
    BY <1>3 DEF IsDocument
  <2>2. ASSUME NEW p \in DOMAIN doc
        PROVE  ~Relevant(spec, Below(path, doc, p)) /\ ~Mapped(spec, Below(path, doc, p))
    <3>1. List(Below(path, doc, p)) /\ Begins(path, Below(path, doc, p))
      BY <2>1, PointerIs
    <3> QED
      BY <3>1, RelevantAbove, MappedIsRelevant
  <2>3. Says(spec, path, value) = {}
    BY <1>3, <2>2 DEF Says
  <2>4. ASSUME NEW p \in OnBranches(spec, path, doc),
               Mismatch(spec, Below(path, doc, p), Len(path))
        PROVE  FALSE
    <3>1. p \in DOMAIN doc /\ p \in Seq(Nat) /\ Len(p) \in Nat
      BY <2>1 DEF OnBranches
    <3>2. \A a \in Above(p) : a \in DOMAIN doc /\ Relevant(spec, Below(path, doc, a))
      BY <1>3, <3>1 DEF OnBranches, IsDocument
    <3>3. Above(p) = {}
      BY <2>2, <3>2
    <3>4. Len(p) = 0
      <4>1. Len(p) # 0 => 0 \in 0..(Len(p) - 1)
        BY <3>1
      <4> QED
        BY <3>3, <4>1 DEF Above
    <3>5. Pointer(doc, p) = <<>>
      <4>1. List(Pointer(doc, p)) /\ Len(Pointer(doc, p)) = 0
        BY <3>1, <3>4, PointerIs
      <4> QED
        BY <4>1 DEF List
    <3>6. Below(path, doc, p) = path
      <4>1. Below(path, doc, p) = Joined(path, Pointer(doc, p))
        BY <3>1, PointerIs
      <4> QED
        BY <3>5, <4>1, JoinedNothing
    <3>7. PICK m \in spec.mappings : Covers(m, Unqualified(path, Len(path), m))
      BY <2>4, <3>6 DEF Mismatch
    <3>8. Unqualified(path, Len(path), m) = path
      <4>1. Len(path) \in Nat /\ DOMAIN path = 1..Len(path)
                /\ path = [i \in DOMAIN path |-> path[i]]
        BY DEF List
      <4>2. \A i \in DOMAIN path : ~(i > Len(path))
        BY <4>1
      <4>3. \A i \in DOMAIN path : Unqualified(path, Len(path), m)[i] = path[i]
        BY <4>2 DEF Unqualified
      <4> QED
        BY <4>1, <4>3 DEF Unqualified
    <3> QED
      BY <3>7, <3>8 DEF Relevant
  <2>5. Misnamed(spec, path, value) = {}
    BY <1>3, <2>4 DEF Misnamed
  <2> QED
    BY <1>1, <2>3, <2>5
<1> QED
  BY <1>1, <1>2, <1>3

(* A finite set as a list, each of its elements once. *)
LEMMA SetListed ==
    ASSUME NEW S, IsFiniteSet(S)
    PROVE  /\ List(SetToSeq(S)) /\ Len(SetToSeq(S)) = Cardinality(S)
           /\ \A x \in S : \E a \in DOMAIN SetToSeq(S) : SetToSeq(S)[a] = x
           /\ \A a \in DOMAIN SetToSeq(S) : SetToSeq(S)[a] \in S
           /\ \A a, b \in DOMAIN SetToSeq(S) : SetToSeq(S)[a] = SetToSeq(S)[b] => a = b
<1> DEFINE n == Cardinality(S)
           q == SetToSeq(S)
<1>1. n \in Nat /\ ExistsBijection(1..n, S)
  BY FS_CardinalityType
<1>2. \E f \in [1..n -> S] : IsInjective(f)
  BY <1>1 DEF ExistsBijection, Bijection, Injection
<1>3. q \in [1..n -> S] /\ IsInjective(q)
  BY <1>2 DEF SetToSeq
<1>4. q \in Injection(1..n, S)
  BY <1>3 DEF Injection
<1>5. IsFiniteSet(1..n) /\ Cardinality(1..n) = n
  <2>1. n \in Int /\ 1 \in Int /\ (n < 1 => n = 0)
    BY <1>1
  <2>2. Cardinality(1..n) = IF 1 > n THEN 0 ELSE n - 1 + 1
    BY <2>1, FS_Interval
  <2> HIDE DEF n
  <2> QED
    BY <1>1, <2>1, <2>2, FS_Interval
<1>6. q \in Surjection(1..n, S)
  BY <1>4, <1>5, FS_Injection
<1> HIDE DEF q, n
<1>7. DOMAIN q = 1..n /\ q = [i \in 1..n |-> q[i]]
  BY <1>3
<1>8. List(q) /\ Len(q) = n
  BY <1>1, <1>7, NumberedList
<1>9. \A x \in S : \E a \in 1..n : q[a] = x
  BY <1>6 DEF Surjection
<1>10. \A a, b \in DOMAIN q : q[a] = q[b] => a = b
  BY <1>3 DEF IsInjective
<1>11. \A a \in DOMAIN q : q[a] \in S
  BY <1>3, <1>7
<1> QED
  BY <1>7, <1>8, <1>9, <1>10, <1>11 DEF q, n

(* A notification, as far as projecting it needs it. *)
WellSaid(n) ==
    /\ List(n.prefix) /\ List(n.updates)
    /\ \A i \in DOMAIN n.updates :
          /\ List(n.updates[i].path)
          /\ n.updates[i].value[1] = "object" => IsDocument(n.updates[i].value[2])

(* What a target may notify is as WellSaid has it. *)
LEMMA ContentsAreWellSaid == \A said \in Contents : WellSaid(said)
<1> TAKE said \in Contents
<1>1. \A i \in DOMAIN said.updates : said.updates[i] \in Range(said.updates)
  BY DEF Range
<1> QED
  BY <1>1, FlowAssumption DEF WellSaid

(* Its paths are lists. *)
LEMMA PathIsList ==
    ASSUME NEW n, WellSaid(n), NEW i \in DOMAIN n.updates
    PROVE  List(Path(n, i))
  BY ListConcat DEF WellSaid, Path, Resolved

-----------------------------------------------------------------------------
(* The walk over the updates, from the last to the first.                  *)

Begun == [seen |-> {}, leaves |-> <<>>, issues |-> {}]
Steps(spec, n, g, k) ==
    g = [i \in 0..k |-> IF i = 0 THEN Begun ELSE Updated(spec, n, g[i - 1], Len(n.updates) + 1 - i)]

(* There is such a function, so Walk is what its recursion says. *)
LEMMA StepsExist == \A spec, n : \A k \in Nat : \E g : Steps(spec, n, g, k)
<1> TAKE spec, n
<1> DEFINE S == {k \in Nat : \E g : Steps(spec, n, g, k)}
<1>1. 0 \in S
  <2> DEFINE g == [i \in 0..0 |-> Begun]
  <2>1. Steps(spec, n, g, 0)
    BY DEF Steps
  <2> QED
    BY <2>1
<1>2. ASSUME NEW k \in Nat, k \in S PROVE k + 1 \in S
  <2>1. PICK g : Steps(spec, n, g, k)
    BY <1>2
  <2> DEFINE h == [i \in 0..(k + 1) |->
                      IF i = 0 THEN Begun
                      ELSE Updated(spec, n, IF i = k + 1 THEN g[k] ELSE g[i - 1],
                               Len(n.updates) + 1 - i)]
  <2>2. \A i \in 0..k : h[i] = g[i]
    <3> TAKE i \in 0..k
    <3>1. i \in 0..(k + 1) /\ i # k + 1
      OBVIOUS
    <3>2. g[i] = IF i = 0 THEN Begun ELSE Updated(spec, n, g[i - 1], Len(n.updates) + 1 - i)
      BY <2>1 DEF Steps
    <3> QED
      BY <3>1, <3>2
  <2>3. \A i \in 0..(k + 1) : i # 0 => (IF i = k + 1 THEN g[k] ELSE g[i - 1]) = h[i - 1]
    <3> TAKE i \in 0..(k + 1)
    <3> HAVE i # 0
    <3>1. i - 1 \in 0..k /\ k \in 0..k /\ (i = k + 1 => i - 1 = k)
      OBVIOUS
    <3> HIDE DEF h
    <3> QED
      BY <2>2, <3>1
  <2>4. h = [i \in 0..(k + 1) |-> IF i = 0 THEN Begun
            ELSE Updated(spec, n, h[i - 1], Len(n.updates) + 1 - i)]
    <3>1. \A i \in 0..(k + 1) :
             h[i] = IF i = 0 THEN Begun ELSE Updated(spec, n, h[i - 1], Len(n.updates) + 1 - i)
      <4> TAKE i \in 0..(k + 1)
      <4>1. h[i] = IF i = 0 THEN Begun
                   ELSE Updated(spec, n, IF i = k + 1 THEN g[k] ELSE g[i - 1],
                            Len(n.updates) + 1 - i)
        OBVIOUS
      <4> HIDE DEF h
      <4> QED
        BY <4>1, <2>3
    <3>2. h = [i \in 0..(k + 1) |-> h[i]]
      OBVIOUS
    <3> HIDE DEF h
    <3> QED
      BY <3>1, <3>2
  <2> HIDE DEF h
  <2>5. Steps(spec, n, h, k + 1)
    BY <2>4 DEF Steps
  <2> QED
    BY <2>5
<1> HIDE DEF S
<1>3. Nat \subseteq S
  BY <1>1, <1>2, AllNumbers
<1> QED
  BY <1>3 DEF S

(* The walk, update by update. *)
LEMMA WalkIs ==
    ASSUME NEW spec, NEW n, Len(n.updates) \in Nat
    PROVE  /\ Walk(spec, n)[0] = Begun
           /\ \A k \in 1..Len(n.updates) :
                 Walk(spec, n)[k] = Updated(spec, n, Walk(spec, n)[k - 1], Len(n.updates) + 1 - k)
<1> DEFINE g == Walk(spec, n)
<1>1. g = [i \in 0..Len(n.updates) |->
              IF i = 0 THEN Begun ELSE Updated(spec, n, g[i - 1], Len(n.updates) + 1 - i)]
  <2>1. \E f : f = [i \in 0..Len(n.updates) |->
              IF i = 0 THEN Begun ELSE Updated(spec, n, f[i - 1], Len(n.updates) + 1 - i)]
    <3>1. PICK f : Steps(spec, n, f, Len(n.updates))
      BY StepsExist
    <3> QED
      BY <3>1 DEF Steps
  <2> QED
    BY <2>1 DEF Walk, Begun
<1> HIDE DEF g
<1>2. \A k \in 1..Len(n.updates) : k \in 0..Len(n.updates) /\ k # 0
  OBVIOUS
<1>3. g[0] = Begun
  BY <1>1
<1>4. \A k \in 1..Len(n.updates) : g[k] = Updated(spec, n, g[k - 1], Len(n.updates) + 1 - k)
  BY <1>1, <1>2
<1> QED
  BY <1>3, <1>4 DEF g

Hearable(spec, n, i) == i \in Heard(spec, n) /\ Relevant(spec, Path(n, i))
Found(spec, n, i) == Expanded(spec, Path(n, i), n.updates[i].value)

(* What the walk knows when it has come down to update first. *)
SeenSo(spec, n, w, first) ==
    /\ \A i \in Located(spec, n) : i >= first /\ Relevant(spec, Path(n, i)) => Path(n, i) \in w.seen
    /\ \A x \in w.seen : \E i \in Located(spec, n) : i >= first /\ Path(n, i) = x
IssuesSo(spec, n, w, first) ==
    \A e : e \in w.issues <=>
        \E i \in DOMAIN n.updates : i >= first /\
            \/ i \notin Located(spec, n) /\ e = Issue("update", i, <<>>)
            \/ Hearable(spec, n, i) /\ \E f \in Found(spec, n, i).issues : e = Issue("update", i, f)
LeavesSo(spec, n, w, first) ==
    /\ List(w.leaves)
    /\ \A a \in DOMAIN w.leaves : \E i \in DOMAIN n.updates :
          /\ i >= first /\ Hearable(spec, n, i)
          /\ \E l \in Found(spec, n, i).leaves : w.leaves[a] = Placed(l, i)
    /\ \A i \in DOMAIN n.updates : i >= first /\ Hearable(spec, n, i) =>
          \A l \in Found(spec, n, i).leaves : \E a \in DOMAIN w.leaves : w.leaves[a] = Placed(l, i)
    /\ \A a, b \in DOMAIN w.leaves : a < b =>
          w.leaves[a].at >= w.leaves[b].at /\ w.leaves[a] # w.leaves[b]
WalkSo(spec, n, w, first) ==
    /\ w = [seen |-> w.seen, leaves |-> w.leaves, issues |-> w.issues]
    /\ SeenSo(spec, n, w, first)
    /\ IssuesSo(spec, n, w, first)
    /\ LeavesSo(spec, n, w, first)

(* What is found in an update is finite, so SetToSeq lists it. *)
LEMMA FoundIsFinite ==
    ASSUME NEW spec, WellMade(spec), NEW n, WellSaid(n), NEW i \in DOMAIN n.updates,
           Relevant(spec, Path(n, i))
    PROVE  IsFiniteSet(Found(spec, n, i).leaves)
<1>1. List(Path(n, i))
  BY PathIsList
<1>2. n.updates[i].value[1] = "object" => IsDocument(n.updates[i].value[2])
  BY DEF WellSaid
<1>3. CASE Discarded(spec, Path(n, i), n.updates[i].value)
  BY <1>2, <1>3, DiscardedTold, FS_EmptySet DEF Found
<1>4. CASE ~Discarded(spec, Path(n, i), n.updates[i].value)
  BY <1>1, <1>2, <1>4, HeardTold DEF Found, ToldOf
<1> QED
  BY <1>3, <1>4

(* Before any update: nothing is known. *)
LEMMA WalkBegins ==
    ASSUME NEW spec, NEW n, WellSaid(n)
    PROVE  WalkSo(spec, n, Begun, Len(n.updates) + 1)
<1>1. Len(n.updates) \in Nat /\ DOMAIN n.updates = 1..Len(n.updates)
  BY DEF WellSaid, List
<1>2. \A i \in DOMAIN n.updates : ~(i >= Len(n.updates) + 1)
  BY <1>1
<1>3. Located(spec, n) \subseteq DOMAIN n.updates
  BY DEF Located
<1>4. Begun.seen = {} /\ Begun.issues = {} /\ Begun.leaves = <<>>
      /\ Begun = [seen |-> Begun.seen, leaves |-> Begun.leaves, issues |-> Begun.issues]
  BY DEF Begun
<1>5. List(<<>>) /\ DOMAIN <<>> = {}
  BY EmptyList
<1> QED
  BY <1>2, <1>3, <1>4, <1>5 DEF WalkSo, SeenSo, IssuesSo, LeavesSo

(* One update more. *)
LEMMA WalkGoesOn ==
    ASSUME NEW spec, WellMade(spec), NEW n, WellSaid(n), NEW i \in DOMAIN n.updates,
           NEW w, WalkSo(spec, n, w, i + 1)
    PROVE  WalkSo(spec, n, Updated(spec, n, w, i), i)
<1> DEFINE path == Path(n, i)
           found == Found(spec, n, i)
           next == Updated(spec, n, w, i)
           located == Located(spec, n)
<1>1. Len(n.updates) \in Nat /\ DOMAIN n.updates = 1..Len(n.updates) /\ i \in Nat
  BY DEF WellSaid, List
<1>2. List(path) /\ (Mapped(spec, path) => Relevant(spec, path))
  BY PathIsList, MappedIsRelevant
<1>3. located \subseteq DOMAIN n.updates /\ (i \in located <=> Resolves(spec, n, n.updates[i]))
      /\ Heard(spec, n) \subseteq located
      /\ (i \in Heard(spec, n) <=> i \in located /\ \A j \in located : j > i => Path(n, j) # path)
  BY DEF Located, Heard
<1>4. \A j \in DOMAIN n.updates : (j >= i <=> j = i \/ j >= i + 1) /\ (j >= i + 1 <=> j > i)
  BY <1>1
<1>5. next = IF i \notin located
             THEN [w EXCEPT !.issues = @ \cup {Issue("update", i, <<>>)}]
             ELSE IF (~Mapped(spec, path) /\ ~Relevant(spec, path)) \/ path \in w.seen THEN w
             ELSE [seen |-> w.seen \cup {path},
                   leaves |-> w.leaves \o SetToSeq({Placed(l, i) : l \in found.leaves}),
                   issues |-> w.issues \cup {Issue("update", i, f) : f \in found.issues}]
  BY <1>3 DEF Updated, Path, Found
<1>6. w = [seen |-> w.seen, leaves |-> w.leaves, issues |-> w.issues]
      /\ SeenSo(spec, n, w, i + 1) /\ IssuesSo(spec, n, w, i + 1) /\ LeavesSo(spec, n, w, i + 1)
  BY DEF WalkSo
<1> HIDE DEF next, path, located
<1>7. CASE i \notin located
  <2>1. ~Hearable(spec, n, i)
    BY <1>3, <1>7 DEF Hearable
  <2>2. next = [w EXCEPT !.issues = @ \cup {Issue("update", i, <<>>)}]
    BY <1>5, <1>7
  <2>3. next.seen = w.seen /\ next.leaves = w.leaves /\ next.issues = w.issues
            \cup {Issue("update", i, <<>>)}
        /\ next = [seen |-> next.seen, leaves |-> next.leaves, issues |-> next.issues]
    BY <1>6, <2>2
  <2>4. SeenSo(spec, n, next, i)
    BY <1>3, <1>4, <1>6, <1>7, <2>3 DEF SeenSo, located
  <2>5. LeavesSo(spec, n, next, i)
    BY <1>4, <1>6, <2>1, <2>3 DEF LeavesSo
  <2>6. IssuesSo(spec, n, next, i)
    BY <1>4, <1>6, <1>7, <2>1, <2>3 DEF IssuesSo, located
  <2> QED
    BY <2>3, <2>4, <2>5, <2>6 DEF WalkSo, next
<1>8. CASE i \in located /\ (~Relevant(spec, path) \/ path \in w.seen)
  <2>1. next = w
    BY <1>2, <1>5, <1>8
  <2>2. ~Hearable(spec, n, i)
    <3>1. CASE ~Relevant(spec, path)
      BY <3>1 DEF Hearable, path
    <3>2. CASE path \in w.seen
      <4>1. PICK j \in located : j >= i + 1 /\ Path(n, j) = path
        BY <1>6, <3>2 DEF SeenSo, located
      <4>2. i \notin Heard(spec, n)
        BY <1>3, <1>4, <4>1
      <4> QED
        BY <4>2 DEF Hearable
    <3> QED
      BY <1>8, <3>1, <3>2
  <2>3. SeenSo(spec, n, w, i)
    BY <1>3, <1>4, <1>6, <1>8 DEF SeenSo, located, path
  <2>4. LeavesSo(spec, n, w, i)
    BY <1>4, <1>6, <2>2 DEF LeavesSo
  <2>5. IssuesSo(spec, n, w, i)
    BY <1>4, <1>6, <1>8, <2>2 DEF IssuesSo, located
  <2> QED
    BY <1>6, <2>1, <2>3, <2>4, <2>5 DEF WalkSo, next
<1>9. CASE i \in located /\ Relevant(spec, path) /\ path \notin w.seen
  <2> DEFINE S == {Placed(l, i) : l \in found.leaves}
             tail == SetToSeq(S)
  <2>1. /\ next.seen = w.seen \cup {path} /\ next.leaves = w.leaves \o tail
        /\ next.issues = w.issues \cup {Issue("update", i, f) : f \in found.issues}
        /\ next = [seen |-> next.seen, leaves |-> next.leaves, issues |-> next.issues]
    BY <1>5, <1>9
  <2>2. Hearable(spec, n, i)
    <3>1. ASSUME NEW j \in located, j > i PROVE Path(n, j) # path
      BY <1>3, <1>4, <1>6, <1>9, <3>1 DEF SeenSo, located
    <3> QED
      BY <1>3, <1>9, <3>1 DEF Hearable, path
  <2>3. SeenSo(spec, n, next, i)
    BY <1>3, <1>4, <1>6, <1>9, <2>1 DEF SeenSo, located, path
  <2>4. IssuesSo(spec, n, next, i)
    <3> SUFFICES ASSUME NEW e
                 PROVE  e \in next.issues <=>
                            \E j \in DOMAIN n.updates : j >= i /\
                                \/ j \notin Located(spec, n) /\ e = Issue("update", j, <<>>)
                                \/ Hearable(spec, n, j)
                                     /\ \E f \in Found(spec, n, j).issues :
                                            e = Issue("update", j, f)
      BY DEF IssuesSo
    <3>1. e \in next.issues <=> e \in w.issues \/ \E f \in found.issues : e = Issue("update", i, f)
      BY <2>1
    <3>2. e \in w.issues <=>
                            \E j \in DOMAIN n.updates : j >= i + 1 /\
                                \/ j \notin Located(spec, n) /\ e = Issue("update", j, <<>>)
                                \/ Hearable(spec, n, j)
                                     /\ \E f \in Found(spec, n, j).issues :
                                            e = Issue("update", j, f)
      BY <1>6 DEF IssuesSo
    <3>3. i \in Located(spec, n)
      BY <1>9 DEF located
    <3> QED
      BY <1>4, <2>2, <3>1, <3>2, <3>3
  <2>5. IsFiniteSet(S)
    <3>1. IsFiniteSet(found.leaves)
      BY <1>9, FoundIsFinite DEF path
    <3> DEFINE T == found.leaves
               f == [l \in T |-> Placed(l, i)]
    <3>2. S = {f[l] : l \in T} /\ DOMAIN f = T
      OBVIOUS
    <3> HIDE DEF f, T, S
    <3>3. IsFiniteSet(T)
      BY <3>1 DEF T
    <3> QED
      BY <3>2, <3>3, ImageIsFinite
  <2>6. \A s \in S : s.at = i
    BY DEF Placed
  <2>7. \A s : s \in S <=> \E l \in found.leaves : s = Placed(l, i)
    OBVIOUS
  <2> HIDE DEF S
  <2>8. /\ List(tail)
        /\ \A x \in S : \E a \in DOMAIN tail : tail[a] = x
        /\ \A a \in DOMAIN tail : tail[a] \in S
        /\ \A a, b \in DOMAIN tail : tail[a] = tail[b] => a = b
    BY <2>5, SetListed
  <2> HIDE DEF tail, found
  <2>9. LeavesSo(spec, n, next, i)
    <3> DEFINE A == w.leaves
               B == next.leaves
    <3>1. List(A) /\ B = A \o tail /\ List(tail)
      BY <1>6, <2>1, <2>8 DEF LeavesSo
    <3> HIDE DEF A, B
    <3>2. /\ List(B) /\ DOMAIN B = 1..(Len(A) + Len(tail))
          /\ \A a \in 1..Len(A) : B[a] = A[a]
          /\ \A a \in 1..Len(tail) : B[Len(A) + a] = tail[a]
      BY <3>1, ListConcat
    <3>3. Len(A) \in Nat /\ DOMAIN A = 1..Len(A) /\ Len(tail) \in Nat /\ DOMAIN tail = 1..Len(tail)
      BY <3>1 DEF List
    <3>4. ASSUME NEW a \in DOMAIN B
          PROVE  \/ a \in DOMAIN A /\ B[a] = A[a]
                 \/ a - Len(A) \in DOMAIN tail /\ B[a] = tail[a - Len(A)]
      <4>1. CASE a <= Len(A)
        BY <3>2, <3>3, <4>1
      <4>2. CASE a > Len(A)
        <5>1. a - Len(A) \in 1..Len(tail) /\ Len(A) + (a - Len(A)) = a
          BY <3>2, <3>3, <4>2
        <5> QED
          BY <3>2, <3>3, <5>1
      <4> QED
        BY <3>2, <3>3, <4>1, <4>2
    <3>5. (\A a \in DOMAIN A : a \in DOMAIN B /\ B[a] = A[a])
          /\ \A a \in DOMAIN tail : Len(A) + a \in DOMAIN B /\ B[Len(A) + a] = tail[a]
      BY <3>2, <3>3
    <3>6. /\ \A a \in DOMAIN A : \E j \in DOMAIN n.updates :
                /\ j >= i + 1 /\ Hearable(spec, n, j)
                /\ \E l \in Found(spec, n, j).leaves : A[a] = Placed(l, j)
          /\ \A j \in DOMAIN n.updates : j >= i + 1 /\ Hearable(spec, n, j) =>
                \A l \in Found(spec, n, j).leaves : \E a \in DOMAIN A : A[a] = Placed(l, j)
          /\ \A a, b \in DOMAIN A : a < b => A[a].at >= A[b].at /\ A[a] # A[b]
      BY <1>6 DEF LeavesSo, A
    <3>7. \A a \in DOMAIN A : A[a].at \in DOMAIN n.updates /\ A[a].at >= i + 1
      BY <3>6 DEF Placed
    <3>8. ASSUME NEW a \in DOMAIN B
          PROVE  \E j \in DOMAIN n.updates :
                /\ j >= i /\ Hearable(spec, n, j)
                /\ \E l \in Found(spec, n, j).leaves : B[a] = Placed(l, j)
      <4>1. CASE a \in DOMAIN A /\ B[a] = A[a]
        BY <1>4, <3>6, <4>1
      <4>2. CASE a - Len(A) \in DOMAIN tail /\ B[a] = tail[a - Len(A)]
        BY <1>4, <2>2, <2>7, <2>8, <4>2 DEF found
      <4> QED
        BY <3>4, <4>1, <4>2
    <3>9. ASSUME NEW j \in DOMAIN n.updates, j >= i, Hearable(spec, n, j),
                 NEW l \in Found(spec, n, j).leaves
          PROVE  \E a \in DOMAIN B : B[a] = Placed(l, j)
      <4>1. CASE j = i
        <5>1. Placed(l, j) \in S
          BY <2>7, <4>1 DEF found
        <5>2. PICK a \in DOMAIN tail : tail[a] = Placed(l, j)
          BY <2>8, <5>1
        <5> QED
          BY <3>5, <5>2
      <4>2. CASE j >= i + 1
        BY <3>5, <3>6, <3>9, <4>2
      <4> QED
        BY <1>4, <3>9, <4>1, <4>2
    <3>10. ASSUME NEW a \in DOMAIN B, NEW b \in DOMAIN B, a < b
           PROVE  B[a].at >= B[b].at /\ B[a] # B[b]
      <4>1. a \in Nat /\ b \in Nat
        BY <3>2, <3>3
      <4>2. CASE a \in DOMAIN A /\ b \in DOMAIN A
        BY <3>5, <3>6, <3>10, <4>2
      <4>3. CASE a \in DOMAIN A /\ b \notin DOMAIN A
        <5>1. B[b] \in S /\ B[b].at = i
          BY <2>6, <2>8, <3>4, <4>3
        <5>2. B[a].at \in Nat /\ B[a].at >= i + 1
          BY <1>1, <3>5, <3>7, <4>3
        <5> QED
          BY <1>1, <5>1, <5>2
      <4>4. CASE a \notin DOMAIN A
        <5>1. b \notin DOMAIN A
          BY <3>3, <3>10, <4>1, <4>4, <3>2
        <5>2. a - Len(A) \in DOMAIN tail /\ B[a] = tail[a - Len(A)]
              /\ b - Len(A) \in DOMAIN tail /\ B[b] = tail[b - Len(A)]
          BY <3>4, <4>4, <5>1
        <5>3. a - Len(A) # b - Len(A)
          BY <3>3, <3>10, <4>1
        <5>4. B[a] # B[b] /\ B[a].at = i /\ B[b].at = i
          BY <2>6, <2>8, <5>2, <5>3
        <5> QED
          BY <1>1, <5>4
      <4> QED
        BY <4>2, <4>3, <4>4
    <3> QED
      BY <3>2, <3>8, <3>9, <3>10 DEF LeavesSo, B
  <2> QED
    BY <2>1, <2>3, <2>4, <2>9 DEF WalkSo, next
<1> QED
  BY <1>7, <1>8, <1>9 DEF next

(* After the last, all of the notification. *)
LEMMA WalkTells ==
    ASSUME NEW spec, WellMade(spec), NEW n, WellSaid(n)
    PROVE  WalkSo(spec, n, Walk(spec, n)[Len(n.updates)], 1)
<1> DEFINE N == Len(n.updates)
           So(k) == WalkSo(spec, n, Walk(spec, n)[k], N + 1 - k)
           S == {k \in Nat : k <= N => So(k)}
<1>1. N \in Nat /\ DOMAIN n.updates = 1..N
  BY DEF WellSaid, List
<1>2. 0 \in S
  <2>1. Walk(spec, n)[0] = Begun /\ N + 1 - 0 = N + 1
    BY <1>1, WalkIs
  <2>2. So(0)
    BY <2>1, WalkBegins
  <2> QED
    BY <2>2
<1>3. ASSUME NEW k \in Nat, k \in S PROVE k + 1 \in S
  <2> SUFFICES ASSUME k + 1 <= N PROVE So(k + 1)
    <3>1. k + 1 \in Nat
      OBVIOUS
    <3> HIDE DEF So, N
    <3> QED
      BY <3>1
  <2>1. So(k)
    <3>1. k <= N
      BY <1>1
    <3> QED
      BY <1>3, <3>1
  <2> DEFINE i == N - k
             w == Walk(spec, n)[k]
  <2>2. i \in DOMAIN n.updates /\ N + 1 - k = i + 1 /\ N + 1 - (k + 1) = i
    <3>1. N \in Nat /\ k \in Nat /\ k + 1 <= N
      BY <1>1
    <3> HIDE DEF N
    <3>2. N - k \in 1..N /\ N + 1 - k = (N - k) + 1 /\ N + 1 - (k + 1) = N - k
      BY <3>1
    <3> QED
      BY <1>1, <3>2
  <2>3. Walk(spec, n)[k + 1] = Updated(spec, n, w, i)
    <3>1. k + 1 \in 1..N /\ (k + 1) - 1 = k
      BY <1>1
    <3> QED
      BY <1>1, <2>2, <3>1, WalkIs
  <2> HIDE DEF i, w, N
  <2>4. WalkSo(spec, n, w, i + 1)
    BY <2>1, <2>2 DEF w
  <2>5. WalkSo(spec, n, Updated(spec, n, w, i), i)
    BY <2>2, <2>4, WalkGoesOn
  <2> QED
    BY <2>2, <2>3, <2>5
<1> HIDE DEF S
<1>4. N \in S
  BY <1>1, <1>2, <1>3, AllNumbers
<1> QED
  BY <1>1, <1>4 DEF S

(* The leaves, in the order they are found.                                *)
About(l) == Issue("update", l.at, l.pointer)
First(L, a) == \A b \in 1..(a - 1) : L[b].path # L[a].path
Good(spec, L, a) ==
    /\ First(L, a) /\ Mapped(spec, L[a].path)
    /\ Projectable(MappingOf(spec, L[a].path), L[a])
Alone(spec, L, a, k) == \A b \in 1..k : b # a /\ Good(spec, L, b) =>
    Claim(spec, L[b]) # Claim(spec, L[a])

Unchosen(walked) == [claimed |-> {}, candidates |-> <<>>, issues |-> walked.issues]
Picks(spec, walked, g, k) ==
    g = [i \in 0..k |-> IF i = 0 THEN Unchosen(walked)
        ELSE Projected(spec, g[i - 1], walked.leaves[i])]

(* There is such a function, so Choice is what its recursion says. *)
LEMMA ChoicesExist == \A spec, walked : \A k \in Nat : \E g : Picks(spec, walked, g, k)
<1> TAKE spec, walked
<1> DEFINE S == {k \in Nat : \E g : Picks(spec, walked, g, k)}
           begun == Unchosen(walked)
<1>1. 0 \in S
  <2> DEFINE g == [i \in 0..0 |-> begun]
  <2>1. Picks(spec, walked, g, 0)
    BY DEF Picks
  <2> QED
    BY <2>1
<1>2. ASSUME NEW k \in Nat, k \in S PROVE k + 1 \in S
  <2>1. PICK g : Picks(spec, walked, g, k)
    BY <1>2
  <2> DEFINE h == [i \in 0..(k + 1) |->
                      IF i = 0 THEN begun
                      ELSE Projected(spec, IF i = k + 1 THEN g[k] ELSE g[i - 1], walked.leaves[i])]
  <2>2. \A i \in 0..k : h[i] = g[i]
    <3> TAKE i \in 0..k
    <3>1. i \in 0..(k + 1) /\ i # k + 1
      OBVIOUS
    <3>2. g[i] = IF i = 0 THEN begun ELSE Projected(spec, g[i - 1], walked.leaves[i])
      BY <2>1 DEF Picks
    <3> QED
      BY <3>1, <3>2
  <2>3. \A i \in 0..(k + 1) : i # 0 => (IF i = k + 1 THEN g[k] ELSE g[i - 1]) = h[i - 1]
    <3> TAKE i \in 0..(k + 1)
    <3> HAVE i # 0
    <3>1. i - 1 \in 0..k /\ k \in 0..k /\ (i = k + 1 => i - 1 = k)
      OBVIOUS
    <3> HIDE DEF h
    <3> QED
      BY <2>2, <3>1
  <2>4. h = [i \in 0..(k + 1) |-> IF i = 0 THEN begun
            ELSE Projected(spec, h[i - 1], walked.leaves[i])]
    <3>1. \A i \in 0..(k + 1) :
             h[i] = IF i = 0 THEN begun ELSE Projected(spec, h[i - 1], walked.leaves[i])
      <4> TAKE i \in 0..(k + 1)
      <4>1. h[i] = IF i = 0 THEN begun
                   ELSE Projected(spec, IF i = k + 1 THEN g[k] ELSE g[i - 1], walked.leaves[i])
        OBVIOUS
      <4> HIDE DEF h
      <4> QED
        BY <4>1, <2>3
    <3>2. h = [i \in 0..(k + 1) |-> h[i]]
      OBVIOUS
    <3> HIDE DEF h
    <3> QED
      BY <3>1, <3>2
  <2> HIDE DEF h
  <2>5. Picks(spec, walked, h, k + 1)
    BY <2>4 DEF Picks
  <2> QED
    BY <2>5
<1> HIDE DEF S
<1>3. Nat \subseteq S
  BY <1>1, <1>2, AllNumbers
<1> QED
  BY <1>3 DEF S

(* The choice, leaf by leaf. *)
LEMMA ChoiceIs ==
    ASSUME NEW spec, NEW walked, Len(walked.leaves) \in Nat
    PROVE  /\ Choice(spec, walked)[0] = Unchosen(walked)
           /\ \A k \in 1..Len(walked.leaves) :
                 Choice(spec, walked)[k] = Projected(spec, Choice(spec, walked)[k - 1],
                     walked.leaves[k])
<1> DEFINE g == Choice(spec, walked)
<1>1. g = [i \in 0..Len(walked.leaves) |->
              IF i = 0 THEN Unchosen(walked) ELSE Projected(spec, g[i - 1], walked.leaves[i])]
  <2>1. \E f : f = [i \in 0..Len(walked.leaves) |->
              IF i = 0 THEN Unchosen(walked) ELSE Projected(spec, f[i - 1], walked.leaves[i])]
    <3>1. PICK f : Picks(spec, walked, f, Len(walked.leaves))
      BY ChoicesExist
    <3> QED
      BY <3>1 DEF Picks
  <2> QED
    BY <2>1 DEF Choice, Unchosen
<1> HIDE DEF g
<1>2. \A k \in 1..Len(walked.leaves) : k \in 0..Len(walked.leaves) /\ k # 0
  OBVIOUS
<1>3. g[0] = Unchosen(walked)
  BY <1>1
<1>4. \A k \in 1..Len(walked.leaves) : g[k] = Projected(spec, g[k - 1], walked.leaves[k])
  BY <1>1, <1>2
<1> QED
  BY <1>3, <1>4 DEF g

(* What is chosen of the first k leaves. *)
ClaimedSo(L, s, k) == \A x : x \in s.claimed <=> \E a \in 1..k : L[a].path = x
CandidatesSo(spec, L, s, k) ==
    /\ \A id : id \in DOMAIN s.candidates <=> \E a \in 1..k : Good(spec, L, a)
           /\ Claim(spec, L[a]) = id
    /\ \A a \in 1..k : Good(spec, L, a) =>
          s.candidates[Claim(spec, L[a])] =
              IF Alone(spec, L, a, k) THEN Candidate(Claim(spec, L[a]), L[a], About(L[a]))
                  ELSE Collided
ChosenIssuesSo(spec, walked, s, k) ==
    LET L == walked.leaves
    IN  \A e : e \in s.issues <=>
            \/ e \in walked.issues
            \/ \E a \in 1..k : /\ First(L, a) /\ e = About(L[a])
                               /\ ~(Good(spec, L, a) /\ Alone(spec, L, a, k))
ChoiceSo(spec, walked, s, k) ==
    /\ s = [claimed |-> s.claimed, candidates |-> s.candidates, issues |-> s.issues]
    /\ ClaimedSo(walked.leaves, s, k)
    /\ CandidatesSo(spec, walked.leaves, s, k)
    /\ ChosenIssuesSo(spec, walked, s, k)

(* Before any leaf: nothing is chosen. *)
LEMMA ChoiceBegins == \A spec, walked : ChoiceSo(spec, walked, Unchosen(walked), 0)
<1> TAKE spec, walked
<1>1. 1..0 = {} /\ DOMAIN <<>> = {}
  OBVIOUS
<1> QED
  BY <1>1 DEF ChoiceSo, ClaimedSo, CandidatesSo, ChosenIssuesSo, Unchosen

(* A candidate has not collided. *)
LEMMA CandidateIsKept == \A id, l, about : Candidate(id, l, about) # Collided
                             /\ Candidate(id, l, about).about = about
<1> TAKE id, l, about
<1>1. DOMAIN Candidate(id, l, about) = {"about", "item"} /\ DOMAIN Collided = {}
  BY DEF Candidate, Collided
<1>2. Candidate(id, l, about).about = about
  BY DEF Candidate
<1> QED
  BY <1>1, <1>2

(* A leaf that is first of its path and worth something. *)
LEMMA EnteredIs ==
    ASSUME NEW s, s = [claimed |-> s.claimed, candidates |-> s.candidates, issues |-> s.issues],
           NEW id, NEW l, NEW about
    PROVE  LET r == Entered(s, id, l, about) IN
           /\ r = [claimed |-> r.claimed, candidates |-> r.candidates, issues |-> r.issues]
           /\ r.claimed = s.claimed
           /\ id \notin DOMAIN s.candidates =>
                 /\ DOMAIN r.candidates = DOMAIN s.candidates \cup {id}
                 /\ r.candidates[id] = Candidate(id, l, about)
                 /\ \A x \in DOMAIN s.candidates : r.candidates[x] = s.candidates[x]
                 /\ r.issues = s.issues
           /\ id \in DOMAIN s.candidates =>
                 /\ DOMAIN r.candidates = DOMAIN s.candidates
                 /\ r.candidates[id] = Collided
                 /\ \A x \in DOMAIN s.candidates : x # id => r.candidates[x] = s.candidates[x]
                 /\ r.issues = s.issues \cup {about}
                       \cup (IF s.candidates[id] = Collided THEN {} ELSE {s.candidates[id].about})
<1> DEFINE r == Entered(s, id, l, about)
           c == s.candidates
<1>1. CASE id \notin DOMAIN c
  <2> DEFINE d == [x \in DOMAIN c \cup {id} |-> IF x = id THEN Candidate(id, l, about) ELSE c[x]]
  <2>1. r = [s EXCEPT !.candidates = d]
    BY <1>1 DEF Entered
  <2>2. DOMAIN d = DOMAIN c \cup {id} /\ d[id] = Candidate(id, l, about)
        /\ \A x \in DOMAIN c : d[x] = c[x]
    BY <1>1
  <2>3. r.claimed = s.claimed /\ r.candidates = d /\ r.issues = s.issues
        /\ r = [claimed |-> r.claimed, candidates |-> r.candidates, issues |-> r.issues]
    BY <2>1
  <2> HIDE DEF d, r
  <2> QED
    BY <1>1, <2>2, <2>3 DEF r
<1>2. CASE id \in DOMAIN c
  <2>1. r = [s EXCEPT !.candidates[id] = Collided,
                      !.issues = @ \cup {about}
                          \cup (IF c[id] = Collided THEN {} ELSE {c[id].about})]
    BY <1>2 DEF Entered
  <2>2. r.claimed = s.claimed /\ r.candidates = [c EXCEPT ![id] = Collided]
        /\ r.issues = s.issues \cup {about} \cup (IF c[id] = Collided THEN {} ELSE {c[id].about})
        /\ r = [claimed |-> r.claimed, candidates |-> r.candidates, issues |-> r.issues]
    BY <2>1
  <2> HIDE DEF r
  <2> QED
    BY <1>2, <2>2 DEF r
<1> QED
  BY <1>1, <1>2

(* One leaf more. *)
LEMMA ChoiceGoesOn ==
    ASSUME NEW spec, NEW walked, NEW k \in Nat \ {0}, NEW s, ChoiceSo(spec, walked, s, k - 1)
    PROVE  ChoiceSo(spec, walked, Projected(spec, s, walked.leaves[k]), k)
<1> DEFINE L == walked.leaves
           l == L[k]
           r == Projected(spec, s, l)
           good(a) == Good(spec, L, a)
           id(a) == Claim(spec, L[a])
           was(a) == Alone(spec, L, a, k - 1)
           is(a) == Alone(spec, L, a, k)
<1>1. \A a : a \in 1..k <=> a \in 1..(k - 1) \/ a = k
  OBVIOUS
<1>2. k \in 1..k /\ k \notin 1..(k - 1)
  OBVIOUS
<1>3. s = [claimed |-> s.claimed, candidates |-> s.candidates, issues |-> s.issues]
      /\ (\A x : x \in s.claimed <=> \E a \in 1..(k - 1) : L[a].path = x)
      /\ (\A x : x \in DOMAIN s.candidates <=> \E a \in 1..(k - 1) : good(a) /\ id(a) = x)
      /\ (\A a \in 1..(k - 1) : good(a) =>
            s.candidates[id(a)] = IF was(a) THEN Candidate(id(a), L[a], About(L[a])) ELSE Collided)
      /\ \A e : e \in s.issues <=>
            \/ e \in walked.issues
            \/ \E a \in 1..(k - 1) : First(L, a) /\ e = About(L[a]) /\ ~(good(a) /\ was(a))
  BY DEF ChoiceSo, ClaimedSo, CandidatesSo, ChosenIssuesSo
<1>4. First(L, k) <=> l.path \notin s.claimed
  BY <1>3 DEF First
<1>5. \A a : is(a) <=> was(a) /\ (k # a /\ good(k) => id(k) # id(a))
  BY <1>1 DEF Alone
<1>6. good(k) <=> First(L, k) /\ Mapped(spec, l.path) /\ Projectable(MappingOf(spec, l.path), l)
  BY DEF Good
<1> DEFINE claimed == [s EXCEPT !.claimed = @ \cup {l.path}]
<1>7. claimed.claimed = s.claimed \cup {l.path} /\ claimed.candidates = s.candidates
      /\ claimed.issues = s.issues
      /\ claimed = [claimed |-> claimed.claimed, candidates |-> claimed.candidates,
             issues |-> claimed.issues]
  <2>1. s = [claimed |-> s.claimed, candidates |-> s.candidates, issues |-> s.issues]
    BY <1>3
  <2>2. claimed = [claimed |-> s.claimed \cup {l.path}, candidates |-> s.candidates,
            issues |-> s.issues]
    <3>1. ASSUME NEW x, NEW a, NEW b, NEW c, NEW y,
                     x = [claimed |-> a, candidates |-> b, issues |-> c]
          PROVE  [x EXCEPT !.claimed = @ \cup {y}] = [claimed |-> a \cup {y}, candidates |-> b,
                     issues |-> c]
      BY <3>1
    <3> QED
      BY <2>1, <3>1
  <2> HIDE DEF claimed
  <2> QED
    BY <2>2
<1>8. r = IF l.path \in s.claimed THEN s
          ELSE IF ~Mapped(spec, l.path) \/ ~Projectable(MappingOf(spec, l.path), l)
          THEN [claimed EXCEPT !.issues = @ \cup {About(l)}]
          ELSE Entered(claimed, id(k), l, About(l))
  BY DEF Projected, About, Claim
<1>9. id(k) = Claim(spec, l) /\ \A a : good(a) => First(L, a)
  BY DEF Good
<1> HIDE DEF good, id, was, is, claimed, r
<1> SUFFICES /\ r = [claimed |-> r.claimed, candidates |-> r.candidates, issues |-> r.issues]
             /\ \A x : x \in r.claimed <=> \E a \in 1..k : L[a].path = x
             /\ \A x : x \in DOMAIN r.candidates <=> \E a \in 1..k : good(a) /\ id(a) = x
             /\ \A a \in 1..k : good(a) =>
                   r.candidates[id(a)] = IF is(a) THEN Candidate(id(a), L[a], About(L[a]))
                       ELSE Collided
             /\ \A e : e \in r.issues <=>
                   \/ e \in walked.issues
                   \/ \E a \in 1..k : First(L, a) /\ e = About(L[a]) /\ ~(good(a) /\ is(a))
  BY DEF ChoiceSo, ClaimedSo, CandidatesSo, ChosenIssuesSo, good, id, was, is, r
<1> HIDE DEF L, l
<1>10. CASE ~First(L, k)
  <2>1. r = s /\ ~good(k)
    BY <1>4, <1>6, <1>8, <1>10
  <2>2. \A a : is(a) <=> was(a)
    BY <1>5, <2>1
  <2>3. \A x : x \in s.claimed <=> \E a \in 1..k : L[a].path = x
    BY <1>1, <1>3, <1>4, <1>10 DEF l
  <2>4. \A x : x \in DOMAIN s.candidates <=> \E a \in 1..k : good(a) /\ id(a) = x
    BY <1>1, <1>3, <2>1
  <2>5. \A a \in 1..k : good(a) =>
            s.candidates[id(a)] = IF is(a) THEN Candidate(id(a), L[a], About(L[a])) ELSE Collided
    BY <1>1, <1>3, <2>1, <2>2
  <2>6. \A e : e \in s.issues <=>
            \/ e \in walked.issues
            \/ \E a \in 1..k : First(L, a) /\ e = About(L[a]) /\ ~(good(a) /\ is(a))
    BY <1>1, <1>3, <1>10, <2>2
  <2> QED
    BY <1>3, <2>1, <2>3, <2>4, <2>5, <2>6
<1>11. CASE First(L, k) /\ ~good(k)
  <2>1. r = [claimed EXCEPT !.issues = @ \cup {About(l)}]
    BY <1>4, <1>6, <1>8, <1>11
  <2>2. r.claimed = s.claimed \cup {l.path} /\ r.candidates = s.candidates
        /\ r.issues = s.issues \cup {About(l)}
        /\ r = [claimed |-> r.claimed, candidates |-> r.candidates, issues |-> r.issues]
    BY <1>7, <2>1
  <2>3. \A a : is(a) <=> was(a)
    BY <1>5, <1>11
  <2>4. \A x : x \in r.claimed <=> \E a \in 1..k : L[a].path = x
    BY <1>1, <1>3, <2>2 DEF l
  <2>5. \A x : x \in DOMAIN r.candidates <=> \E a \in 1..k : good(a) /\ id(a) = x
    BY <1>1, <1>3, <1>11, <2>2
  <2>6. \A a \in 1..k : good(a) =>
            r.candidates[id(a)] = IF is(a) THEN Candidate(id(a), L[a], About(L[a])) ELSE Collided
    BY <1>1, <1>3, <1>11, <2>2, <2>3
  <2>7. \A e : e \in r.issues <=>
            \/ e \in walked.issues
            \/ \E a \in 1..k : First(L, a) /\ e = About(L[a]) /\ ~(good(a) /\ is(a))
    BY <1>1, <1>2, <1>3, <1>11, <2>2, <2>3 DEF l
  <2> QED
    BY <2>2, <2>4, <2>5, <2>6, <2>7
<1>12. CASE good(k)
  <2>1. First(L, k) /\ r = Entered(claimed, id(k), l, About(l))
    BY <1>4, <1>6, <1>8, <1>12
  <2> DEFINE c == s.candidates
             i == id(k)
  <2>2. /\ r = [claimed |-> r.claimed, candidates |-> r.candidates, issues |-> r.issues]
        /\ r.claimed = s.claimed \cup {l.path}
        /\ i \notin DOMAIN c =>
              /\ DOMAIN r.candidates = DOMAIN c \cup {i}
              /\ r.candidates[i] = Candidate(i, l, About(l))
              /\ \A x \in DOMAIN c : r.candidates[x] = c[x]
              /\ r.issues = s.issues
        /\ i \in DOMAIN c =>
              /\ DOMAIN r.candidates = DOMAIN c
              /\ r.candidates[i] = Collided
              /\ \A x \in DOMAIN c : x # i => r.candidates[x] = c[x]
              /\ r.issues = s.issues \cup {About(l)}
                     \cup (IF c[i] = Collided THEN {} ELSE {c[i].about})
    BY <1>7, <2>1, EnteredIs
  <2>3. \A x : x \in r.claimed <=> \E a \in 1..k : L[a].path = x
    BY <1>1, <1>3, <2>2 DEF l
  <2>4. \A a \in 1..(k - 1) : good(a) => id(a) \in DOMAIN c
    BY <1>3
  <2>5. \A a : a # k => (is(a) <=> was(a) /\ i # id(a))
    BY <1>5, <1>12
  <2>6. is(k) <=> i \notin DOMAIN c
    BY <1>2, <1>3 DEF is, Alone, good, id
  <2>7. \A x : x \in DOMAIN r.candidates <=> \E a \in 1..k : good(a) /\ id(a) = x
    BY <1>1, <1>3, <1>12, <2>2
  <2> HIDE DEF i, c
  <2>8. \A a \in 1..k : good(a) =>
            r.candidates[id(a)] = IF is(a) THEN Candidate(id(a), L[a], About(L[a])) ELSE Collided
    <3> TAKE a \in 1..k
    <3> HAVE good(a)
    <3>1. CASE a = k
      BY <2>2, <2>6, <3>1 DEF i, l
    <3>2. CASE a # k /\ id(a) = i
      <4>1. ~is(a) /\ i \in DOMAIN c
        BY <1>1, <2>4, <2>5, <3>2
      <4> QED
        BY <2>2, <3>2, <4>1
    <3>3. CASE a # k /\ id(a) # i
      <4>1. a \in 1..(k - 1) /\ (is(a) <=> was(a))
        BY <1>1, <2>5, <3>3
      <4>2. c[id(a)] = IF was(a) THEN Candidate(id(a), L[a], About(L[a])) ELSE Collided
        BY <1>3, <4>1 DEF c
      <4>3. r.candidates[id(a)] = c[id(a)]
        BY <2>2, <2>4, <3>3, <4>1
      <4> QED
        BY <4>1, <4>2, <4>3
    <3> QED
      BY <3>1, <3>2, <3>3
  <2>9. ASSUME NEW e
        PROVE  e \in r.issues <=>
            \/ e \in walked.issues
            \/ \E a \in 1..k : First(L, a) /\ e = About(L[a]) /\ ~(good(a) /\ is(a))
    <3>1. e \in s.issues <=>
            \/ e \in walked.issues
            \/ \E a \in 1..(k - 1) : First(L, a) /\ e = About(L[a]) /\ ~(good(a) /\ was(a))
      BY <1>3
    <3>2. CASE i \notin DOMAIN c
      <4>1. \A a \in 1..(k - 1) : good(a) => (is(a) <=> was(a))
        BY <1>2, <2>4, <2>5, <3>2
      <4>2. is(k) /\ r.issues = s.issues
        BY <2>2, <2>6, <3>2
      <4> QED
        BY <1>1, <1>12, <3>1, <4>1, <4>2
    <3>3. CASE i \in DOMAIN c
      <4>1. PICK b \in 1..(k - 1) : good(b) /\ id(b) = i
        BY <1>3, <3>3 DEF c
      <4>2. ~is(k) /\ ~is(b) /\ b # k /\ First(L, b)
        BY <1>2, <1>9, <2>5, <2>6, <3>3, <4>1
      <4>3. r.issues = s.issues \cup {About(l)} \cup (IF c[i] = Collided THEN {} ELSE {c[i].about})
        BY <2>2, <3>3
      <4>4. CASE was(b)
        <5>1. c[i] = Candidate(i, L[b], About(L[b]))
          BY <1>3, <4>1, <4>4 DEF c
        <5>2. r.issues = s.issues \cup {About(l)} \cup {About(L[b])}
          BY <4>3, <5>1, CandidateIsKept
        <5>3. \A a \in 1..(k - 1) : a # b /\ good(a) => id(a) # i
          BY <4>1, <4>4 DEF was, Alone, good, id
        <5>4. \A a \in 1..(k - 1) : a # b /\ good(a) => (is(a) <=> was(a))
          BY <1>2, <2>5, <5>3
        <5> QED
          BY <1>1, <2>1, <3>1, <4>1, <4>2, <4>4, <5>2, <5>4 DEF l
      <4>5. CASE ~was(b)
        <5>1. c[i] = Collided
          BY <1>3, <4>1, <4>5 DEF c
        <5>2. r.issues = s.issues \cup {About(l)}
          BY <4>3, <5>1
        <5>3. \A a \in 1..(k - 1) : good(a) /\ id(a) = i => ~was(a)
          <6> SUFFICES ASSUME NEW a \in 1..(k - 1), good(a), id(a) = i, was(a) PROVE FALSE
            OBVIOUS
          <6>1. c[i] = Candidate(i, L[a], About(L[a]))
            BY <1>3 DEF c
          <6> QED
            BY <5>1, <6>1, CandidateIsKept
        <5>4. \A a \in 1..(k - 1) : good(a) => (is(a) <=> was(a))
          BY <1>2, <2>5, <5>3
        <5> QED
          BY <1>1, <2>1, <3>1, <4>2, <5>2, <5>4 DEF l
      <4> QED
        BY <4>4, <4>5
    <3> QED
      BY <3>2, <3>3
  <2> QED
    BY <2>2, <2>3, <2>7, <2>8, <2>9
<1> QED
  BY <1>9, <1>10, <1>11, <1>12

(* After the last, all of them. *)
LEMMA ChoiceTells ==
    ASSUME NEW spec, NEW walked, List(walked.leaves)
    PROVE  ChoiceSo(spec, walked, Choice(spec, walked)[Len(walked.leaves)], Len(walked.leaves))
<1> DEFINE N == Len(walked.leaves)
           So(k) == ChoiceSo(spec, walked, Choice(spec, walked)[k], k)
           S == {k \in Nat : k <= N => So(k)}
<1>1. N \in Nat
  BY DEF List
<1>2. 0 \in S
  <2>1. Choice(spec, walked)[0] = Unchosen(walked)
    BY <1>1, ChoiceIs
  <2>2. So(0)
    BY <2>1, ChoiceBegins
  <2> QED
    BY <2>2
<1>3. ASSUME NEW k \in Nat, k \in S PROVE k + 1 \in S
  <2> SUFFICES ASSUME k + 1 <= N PROVE So(k + 1)
    <3>1. k + 1 \in Nat
      OBVIOUS
    <3> HIDE DEF So, N
    <3> QED
      BY <3>1
  <2>1. So(k)
    <3>1. k <= N
      BY <1>1
    <3> QED
      BY <1>3, <3>1
  <2> DEFINE s == Choice(spec, walked)[k]
  <2>2. Choice(spec, walked)[k + 1] = Projected(spec, s, walked.leaves[k + 1])
    <3>1. k + 1 \in 1..N /\ (k + 1) - 1 = k
      BY <1>1
    <3> QED
      BY <1>1, <3>1, ChoiceIs
  <2>3. k + 1 \in Nat \ {0} /\ (k + 1) - 1 = k
    OBVIOUS
  <2> HIDE DEF s, N
  <2>4. ChoiceSo(spec, walked, s, (k + 1) - 1)
    BY <2>1, <2>3 DEF s
  <2>5. ChoiceSo(spec, walked, Projected(spec, s, walked.leaves[k + 1]), k + 1)
    BY <2>3, <2>4, ChoiceGoesOn
  <2> QED
    BY <2>2, <2>5
<1> HIDE DEF S
<1>4. N \in S
  BY <1>1, <1>2, <1>3, AllNumbers
<1> QED
  BY <1>1, <1>4 DEF S

(* Chunks.                                                                 *)
LEMMA Division ==
    ASSUME NEW a \in Nat, NEW b \in Nat \ {0}
    PROVE  /\ a \div b \in Nat /\ a % b \in 0..(b - 1)
           /\ a = (a \div b) * b + (a % b)
  OBVIOUS

(* Products of numbers grow. *)
LEMMA ProductGrows ==
    ASSUME NEW b \in Nat, NEW c \in Nat, NEW d \in Nat, c <= d
    PROVE  c * b <= d * b /\ c * b \in Nat /\ d * b \in Nat
  OBVIOUS

(* The number of an item, and the chunk and place it has. *)
At(limit, c, j) == (c - 1) * limit + j

(* A number tells its chunk and place. *)
LEMMA AtTells ==
    ASSUME NEW b \in Nat \ {0}, NEW c \in Nat \ {0}, NEW d \in Nat \ {0}, NEW i \in 1..b,
               NEW j \in 1..b,
           At(b, c, i) = At(b, d, j)
    PROVE  c = d /\ i = j
<1>1. ASSUME NEW x \in Nat \ {0}, NEW y \in Nat \ {0}, NEW k \in 1..b, NEW l \in 1..b, x < y
      PROVE  At(b, x, k) < At(b, y, l)
  <2>1. x * b <= (y - 1) * b /\ x * b \in Nat /\ (y - 1) * b \in Nat
    BY <1>1, ProductGrows
  <2>2. (x - 1) * b + b = x * b /\ (x - 1) * b \in Nat
    OBVIOUS
  <2> DEFINE u == (x - 1) * b
             v == (y - 1) * b
             w == x * b
  <2>3. u \in Nat /\ v \in Nat /\ w \in Nat /\ u + b = w /\ w <= v
    BY <2>1, <2>2
  <2> HIDE DEF u, v, w
  <2>4. u + k < v + l
    BY <2>3
  <2> QED
    BY <2>4 DEF At, u, v
<1>2. At(b, c, i) \in Nat /\ At(b, d, j) \in Nat
  BY DEF At
<1>3. c = d
  <2>1. ~(c < d) /\ ~(d < c)
    BY <1>1, <1>2
  <2> QED
    BY <2>1
<1>4. i = j
  <2>1. (c - 1) * b \in Nat
    OBVIOUS
  <2>2. (c - 1) * b + i = (c - 1) * b + j
    BY <1>3 DEF At
  <2> DEFINE u == (c - 1) * b
  <2> HIDE DEF u
  <2>3. u \in Nat /\ u + i = u + j
    BY <2>1, <2>2 DEF u
  <2> QED
    BY <2>3
<1> QED
  BY <1>3, <1>4

(* And every number has one, in a full chunk or in the rest. *)
LEMMA AtCovers ==
    ASSUME NEW b \in Nat \ {0}, NEW n \in Nat
    PROVE  /\ n \div b \in Nat /\ n % b \in 0..(b - 1) /\ n = At(b, (n \div b) + 1, n % b)
           /\ \A c \in 1..(n \div b) : \A j \in 1..b : At(b, c, j) \in 1..n
           /\ \A j \in 1..(n % b) : At(b, (n \div b) + 1, j) \in 1..n
           /\ \A x \in 1..n : \/ \E c \in 1..(n \div b) : \E j \in 1..b : x = At(b, c, j)
                              \/ \E j \in 1..(n % b) : x = At(b, (n \div b) + 1, j)
<1> DEFINE D == n \div b
           R == n % b
           full == D * b
<1>1. D \in Nat /\ R \in 0..(b - 1) /\ n = full + R /\ full \in Nat
  <2>1. D \in Nat /\ R \in 0..(b - 1) /\ n = D * b + R
    BY Division
  <2> HIDE DEF D, R
  <2>2. D * b \in Nat
    BY <2>1
  <2> QED
    BY <2>1, <2>2
<1>2. At(b, D + 1, R) = full + R /\ \A j \in Nat : At(b, D + 1, j) = full + j
  BY <1>1 DEF At
<1>3. ASSUME NEW c \in 1..D, NEW j \in 1..b PROVE At(b, c, j) \in 1..full
  <2>1. c * b <= full /\ c * b \in Nat /\ c \in Nat
    BY <1>1, ProductGrows
  <2>2. (c - 1) * b + b = c * b /\ (c - 1) * b \in Nat
    BY <2>1
  <2> DEFINE u == (c - 1) * b
             v == c * b
  <2>3. u \in Nat /\ v \in Nat /\ u + b = v /\ v <= full
    BY <2>1, <2>2
  <2> HIDE DEF u, v, full
  <2>4. u + j \in 1..full
    BY <1>1, <2>3
  <2> QED
    BY <2>4 DEF At, u
<1>4. ASSUME NEW x \in 1..full PROVE \E c \in 1..D : \E j \in 1..b : x = At(b, c, j)
  <2> DEFINE c == ((x - 1) \div b) + 1
             j == ((x - 1) % b) + 1
  <2>0. x - 1 \in Nat
    BY <1>1
  <2>1. (x - 1) \div b \in Nat /\ (x - 1) % b \in 0..(b - 1)
        /\ x - 1 = ((x - 1) \div b) * b + ((x - 1) % b)
    BY <2>0, Division
  <2>2. j \in 1..b /\ c \in Nat \ {0}
    BY <2>1
  <2>3. x = At(b, c, j)
    <3> DEFINE u == (x - 1) \div b
               v == (x - 1) % b
    <3>1. u \in Nat /\ v \in Nat /\ x - 1 = u * b + v /\ u * b \in Nat
      BY <2>1
    <3> HIDE DEF u, v
    <3>2. x = ((u + 1) - 1) * b + (v + 1)
      BY <3>1
    <3> QED
      BY <3>2 DEF At, u, v
  <2> HIDE DEF c, j
  <2>4. c <= D
    <3> SUFFICES ASSUME D <= c - 1 PROVE FALSE
      BY <1>1, <2>2
    <3>1. D * b <= (c - 1) * b /\ (c - 1) * b \in Nat
      BY <1>1, <2>2, ProductGrows
    <3> DEFINE w == (c - 1) * b
    <3>2. w \in Nat /\ full <= w /\ x = w + j
      BY <2>3, <3>1 DEF At
    <3> HIDE DEF w, full
    <3> QED
      BY <1>1, <2>2, <3>2
  <2>5. c \in 1..D
    BY <1>1, <2>2, <2>4
  <2> QED
    BY <2>2, <2>3, <2>5
<1> HIDE DEF D, R, full
<1>5. \A x \in 1..n : x \in 1..full \/ (x - full \in 1..R /\ x = full + (x - full))
  BY <1>1
<1>6. \A x \in 1..n : \/ \E c \in 1..D : \E j \in 1..b : x = At(b, c, j)
                      \/ \E j \in 1..R : x = At(b, D + 1, j)
  <2> TAKE x \in 1..n
  <2>1. CASE x \in 1..full
    BY <1>4, <2>1
  <2>2. CASE x - full \in 1..R /\ x = full + (x - full)
    <3> DEFINE j == x - full
    <3>1. j \in 1..R /\ j \in Nat /\ x = full + j
      BY <1>1, <2>2
    <3> HIDE DEF j
    <3> QED
      BY <1>2, <3>1
  <2> QED
    BY <1>5, <2>1, <2>2
<1>7. \A j \in 1..R : At(b, D + 1, j) \in 1..n
  <2> TAKE j \in 1..R
  <2>1. j \in Nat /\ full + j \in 1..n
    BY <1>1
  <2> QED
    BY <1>2, <2>1
<1>8. \A c \in 1..D : \A j \in 1..b : At(b, c, j) \in 1..n
  <2> TAKE c \in 1..D
  <2> TAKE j \in 1..b
  <2>1. At(b, c, j) \in 1..full
    BY <1>3
  <2> QED
    BY <1>1, <2>1
<1> QED
  BY <1>1, <1>2, <1>6, <1>7, <1>8 DEF D, R

(* Payloads that hold an identity once, and the items of them all. *)
Sep(x) ==
    \A c, d \in DOMAIN x : \A i \in DOMAIN x[c], j \in DOMAIN x[d] :
        x[c][i].identity = x[d][j].identity => c = d /\ i = j
Items(x) == UNION {Range(p) : p \in Range(x)}
Apart(X, Y) == \A u \in X, v \in Y : u.identity # v.identity

(* Chunks after chunks. *)
LEMMA ItemsJoin ==
    ASSUME NEW x, NEW y, List(x), List(y)
    PROVE  /\ List(x \o y) /\ Range(x \o y) = Range(x) \cup Range(y)
           /\ Items(x \o y) = Items(x) \cup Items(y)
           /\ Sep(x) /\ Sep(y) /\ Apart(Items(x), Items(y)) => Sep(x \o y)
<1> DEFINE z == x \o y
           m == Len(x)
           n == Len(y)
<1>1. /\ m \in Nat /\ n \in Nat /\ DOMAIN x = 1..m /\ DOMAIN y = 1..n
      /\ List(z) /\ DOMAIN z = 1..(m + n)
      /\ (\A i \in 1..m : z[i] = x[i]) /\ (\A i \in 1..n : z[m + i] = y[i])
  BY ListConcat DEF List
<1> HIDE DEF z, m, n
<1>2. ASSUME NEW c \in DOMAIN z
      PROVE  \/ c \in DOMAIN x /\ z[c] = x[c]
             \/ c - m \in DOMAIN y /\ z[c] = y[c - m] /\ c \notin DOMAIN x
  <2>1. CASE c <= m
    BY <1>1, <2>1
  <2>2. CASE c > m
    <3>1. c - m \in 1..n /\ m + (c - m) = c
      BY <1>1, <2>2
    <3> QED
      BY <1>1, <2>2, <3>1
  <2> QED
    BY <1>1, <2>1, <2>2
<1>3. (\A i \in DOMAIN x : i \in DOMAIN z /\ z[i] = x[i])
      /\ \A i \in DOMAIN y : m + i \in DOMAIN z /\ z[m + i] = y[i]
  BY <1>1
<1>4. Range(z) = Range(x) \cup Range(y)
  BY <1>2, <1>3 DEF Range
<1>5. Items(z) = Items(x) \cup Items(y)
  BY <1>4 DEF Items
<1>6. ASSUME Sep(x), Sep(y), Apart(Items(x), Items(y)) PROVE Sep(z)
  <2> SUFFICES ASSUME NEW c \in DOMAIN z, NEW d \in DOMAIN z, NEW i \in DOMAIN z[c],
                          NEW j \in DOMAIN z[d],
                      z[c][i].identity = z[d][j].identity
               PROVE  c = d /\ i = j
    BY DEF Sep
  <2>1. CASE z[c] = x[c] /\ c \in DOMAIN x /\ z[d] = x[d] /\ d \in DOMAIN x
    BY <1>6, <2>1 DEF Sep
  <2>2. CASE c - m \in DOMAIN y /\ z[c] = y[c - m] /\ d - m \in DOMAIN y /\ z[d] = y[d - m]
    <3>1. c - m = d - m /\ i = j
      BY <1>6, <2>2 DEF Sep
    <3> QED
      BY <1>1, <3>1
  <2>3. ASSUME NEW a \in DOMAIN x, NEW b \in DOMAIN y, NEW k \in DOMAIN x[a], NEW l \in DOMAIN y[b]
        PROVE  x[a][k].identity # y[b][l].identity
    <3>1. x[a][k] \in Items(x) /\ y[b][l] \in Items(y)
      BY DEF Items, Range
    <3> QED
      BY <1>6, <3>1 DEF Apart
  <2> QED
    BY <1>2, <2>1, <2>2, <2>3
<1> QED
  BY <1>1, <1>4, <1>5, <1>6 DEF z

(* What split_payloads makes of one kind's items. *)
LEMMA PieceIs ==
    ASSUME NEW q, List(q), NEW a \in 1..(Len(q) + 1), NEW b \in Nat, b <= Len(q), a <= b + 1
    PROVE  /\ List(SubSeq(q, a, b)) /\ Len(SubSeq(q, a, b)) = b - a + 1
           /\ DOMAIN SubSeq(q, a, b) = 1..(b - a + 1)
           /\ \A j \in 1..(b - a + 1) : SubSeq(q, a, b)[j] = q[a + j - 1]
<1>1. Len(q) \in Nat /\ q \in Seq(Range(q))
  BY DEF List
<1> DEFINE p == SubSeq(q, a, b)
           n == b - a + 1
<1>2. n \in Nat
  BY <1>1
<1>3. /\ Len(p) = n /\ DOMAIN p = 1..n /\ p = [i \in 1..n |-> p[i]]
      /\ \A j \in 1..n : p[j] = q[a + j - 1]
  BY <1>1
<1> HIDE DEF p, n
<1>4. List(p)
  BY <1>2, <1>3, NumberedList
<1> QED
  BY <1>3, <1>4 DEF p, n

(* The full chunks. *)
LEMMA FullIs ==
    ASSUME NEW q, List(q), NEW limit \in Nat \ {0},
           \A x, y \in DOMAIN q : q[x].identity = q[y].identity => x = y
    PROVE  LET full == Full(q, limit) IN
           /\ List(full) /\ Sep(full) /\ DOMAIN full = 1..(Len(q) \div limit)
           /\ \A c \in DOMAIN full :
                 /\ Len(full[c]) = limit /\ DOMAIN full[c] = 1..limit
                 /\ \A j \in 1..limit : full[c][j] = q[At(limit, c, j)]
<1> DEFINE full == Full(q, limit)
           n == Len(q)
           D == n \div limit
<1>1. n \in Nat /\ DOMAIN q = 1..n
  BY DEF List
<1>2. D \in Nat /\ \A c \in 1..D : \A j \in 1..limit : At(limit, c, j) \in 1..n
  BY <1>1, AtCovers
<1>3. DOMAIN full = 1..D /\ full = [c \in 1..D |-> full[c]]
      /\ \A c \in 1..D : full[c] = SubSeq(q, (c - 1) * limit + 1, c * limit)
  BY DEF Full
<1> HIDE DEF full, D
<1>4. List(full)
  BY <1>2, <1>3, NumberedList
<1>5. ASSUME NEW c \in 1..D
      PROVE  /\ Len(full[c]) = limit /\ DOMAIN full[c] = 1..limit
             /\ \A j \in 1..limit : full[c][j] = q[At(limit, c, j)]
  <2> DEFINE u == (c - 1) * limit
             v == c * limit
  <2>0. c \in Nat \ {0} /\ c - 1 \in Nat
    BY <1>2
  <2>1. u \in Nat /\ v \in Nat /\ u + limit = v
    BY <2>0
  <2>2. u + 1 \in 1..n /\ v \in 1..n
    <3>1. At(limit, c, 1) \in 1..n /\ At(limit, c, limit) \in 1..n
      BY <1>2
    <3> QED
      BY <2>1, <3>1 DEF At
  <2>3. full[c] = SubSeq(q, u + 1, v) /\ \A j : At(limit, c, j) = u + j
    BY <1>3 DEF At
  <2> HIDE DEF u, v, n
  <2>4. u + 1 \in 1..(n + 1) /\ v <= n /\ u + 1 <= v + 1 /\ v - (u + 1) + 1 = limit
    BY <1>1, <2>1, <2>2
  <2>5. /\ Len(full[c]) = limit /\ DOMAIN full[c] = 1..limit
        /\ \A j \in 1..limit : full[c][j] = q[u + 1 + j - 1]
    BY <2>1, <2>3, <2>4, PieceIs DEF n
  <2>6. ASSUME NEW j \in 1..limit PROVE full[c][j] = q[At(limit, c, j)]
    <3>1. u + 1 + j - 1 = u + j
      BY <2>1
    <3>2. full[c][j] = q[u + 1 + j - 1] /\ At(limit, c, j) = u + j
      BY <2>3, <2>5
    <3> QED
      BY <3>1, <3>2
  <2> QED
    BY <2>5, <2>6
<1>6. Sep(full)
  <2> SUFFICES ASSUME NEW c \in 1..D, NEW d \in 1..D, NEW i \in 1..limit, NEW j \in 1..limit,
                      full[c][i].identity = full[d][j].identity
               PROVE  c = d /\ i = j
    <3>1. ASSUME NEW c \in DOMAIN full PROVE c \in 1..D /\ DOMAIN full[c] = 1..limit
      BY <1>3, <1>5
    <3> QED
      BY <3>1 DEF Sep
  <2>1. q[At(limit, c, i)].identity = q[At(limit, d, j)].identity
    BY <1>5
  <2>2. At(limit, c, i) = At(limit, d, j)
    BY <1>1, <1>2, <2>1
  <2>3. c \in Nat \ {0} /\ d \in Nat \ {0}
    BY <1>2
  <2> QED
    BY <2>2, <2>3, AtTells
<1> QED
  BY <1>3, <1>4, <1>5, <1>6 DEF full, D

(* What is left over, if anything. *)
LEMMA RestIs ==
    ASSUME NEW q, List(q), NEW limit \in Nat \ {0},
           \A x, y \in DOMAIN q : q[x].identity = q[y].identity => x = y
    PROVE  LET rest == Rest(q, limit) IN
           /\ List(rest) /\ Sep(rest) /\ DOMAIN rest = IF Len(q) % limit = 0 THEN {} ELSE {1}
           /\ \A c \in DOMAIN rest :
                 /\ Len(rest[c]) = Len(q) % limit /\ DOMAIN rest[c] = 1..(Len(q) % limit)
                 /\ \A j \in 1..(Len(q) % limit) : rest[c][j] =
                        q[At(limit, (Len(q) \div limit) + 1, j)]
<1> DEFINE rest == Rest(q, limit)
           n == Len(q)
           D == n \div limit
           R == n % limit
           p == SubSeq(q, D * limit + 1, n)
<1>1. n \in Nat /\ DOMAIN q = 1..n
  BY DEF List
<1>2. D \in Nat /\ R \in 0..(limit - 1) /\ n = D * limit + R /\ \A j \in 1..R :
          At(limit, D + 1, j) \in 1..n
  BY <1>1, AtCovers, Division
<1>3. rest = IF R = 0 THEN <<>> ELSE <<p>>
  BY DEF Rest
<1>4. /\ Len(p) = R /\ DOMAIN p = 1..R
      /\ \A j \in 1..R : p[j] = q[At(limit, D + 1, j)]
  <2> DEFINE u == D * limit
  <2> HIDE DEF D, R, n
  <2>1. u \in Nat
    BY <1>2
  <2>2. p = SubSeq(q, u + 1, n) /\ \A j : At(limit, D + 1, j) = u + j
    BY <1>2 DEF At
  <2>3. n = u + R
    BY <1>2
  <2> HIDE DEF u, p
  <2>4. u + 1 \in 1..(n + 1) /\ n <= n /\ u + 1 <= n + 1 /\ n - (u + 1) + 1 = R
    BY <1>1, <1>2, <2>1, <2>3
  <2>5. /\ Len(p) = R /\ DOMAIN p = 1..R
        /\ \A j \in 1..R : p[j] = q[u + 1 + j - 1]
    <3>1. n = Len(q)
      BY DEF n
    <3>2. ASSUME NEW a \in 1..(Len(q) + 1), NEW b \in Nat, b <= Len(q), a <= b + 1
          PROVE  /\ Len(SubSeq(q, a, b)) = b - a + 1
                 /\ DOMAIN SubSeq(q, a, b) = 1..(b - a + 1)
                 /\ \A j \in 1..(b - a + 1) : SubSeq(q, a, b)[j] = q[a + j - 1]
      BY <3>2, PieceIs
    <3> DEFINE a == u + 1
    <3>3. a \in 1..(Len(q) + 1) /\ n \in Nat /\ n <= Len(q) /\ a <= n + 1 /\ n - a + 1 = R
      BY <1>1, <2>4, <3>1
    <3>4. p = SubSeq(q, a, n)
      BY <2>2
    <3> HIDE DEF a
    <3>5. /\ Len(p) = R /\ DOMAIN p = 1..R
          /\ \A j \in 1..R : p[j] = q[a + j - 1]
      BY <3>2, <3>3, <3>4
    <3> QED
      BY <3>5 DEF a
  <2>6. \A j \in 1..R : u + 1 + j - 1 = u + j
    BY <2>1, <1>2
  <2> QED
    BY <2>2, <2>5, <2>6
<1> HIDE DEF p, rest, D, R
<1>5. CASE R = 0
  <2>1. rest = <<>> /\ DOMAIN rest = {}
    BY <1>3, <1>5
  <2>2. List(rest) /\ Sep(rest)
    BY <2>1, EmptyList DEF Sep
  <2> QED
    BY <1>5, <2>1, <2>2 DEF rest, D, R
<1>6. CASE R # 0
  <2>1. rest = <<p>> /\ DOMAIN rest = {1} /\ rest[1] = p
    BY <1>3, <1>6
  <2>2. List(rest)
    BY <2>1 DEF List, Range
  <2>3. Sep(rest)
    <3> SUFFICES ASSUME NEW i \in 1..R, NEW j \in 1..R, p[i].identity = p[j].identity
                 PROVE  i = j
      BY <1>4, <2>1 DEF Sep
    <3>1. q[At(limit, D + 1, i)].identity = q[At(limit, D + 1, j)].identity
      BY <1>4
    <3>2. At(limit, D + 1, i) = At(limit, D + 1, j)
      BY <1>1, <1>2, <3>1
    <3>3. D + 1 \in Nat \ {0} /\ i \in 1..limit /\ j \in 1..limit
      BY <1>2
    <3> QED
      BY <3>2, <3>3, AtTells
  <2> QED
    BY <1>4, <1>6, <2>1, <2>2, <2>3 DEF rest, D, R
<1> QED
  BY <1>5, <1>6

(* Together they hold every item, once. *)
LEMMA SplitIs ==
    ASSUME NEW q, List(q), NEW limit \in Nat \ {0},
           \A x, y \in DOMAIN q : q[x].identity = q[y].identity => x = y
    PROVE  /\ List(Full(q, limit)) /\ List(Rest(q, limit)) /\ Sep(Full(q, limit))
                  /\ Sep(Rest(q, limit))
           /\ Items(Full(q, limit)) \cup Items(Rest(q, limit)) = Range(q)
           /\ Apart(Items(Full(q, limit)), Items(Rest(q, limit)))
           /\ \A p \in Range(Full(q, limit)) \cup Range(Rest(q, limit)) : Len(p) \in 1..limit
<1> DEFINE full == Full(q, limit)
           rest == Rest(q, limit)
           n == Len(q)
           D == n \div limit
           R == n % limit
<1>1. n \in Nat /\ DOMAIN q = 1..n
  BY DEF List
<1>2. /\ D \in Nat /\ R \in 0..(limit - 1)
      /\ \A c \in 1..D : \A j \in 1..limit : At(limit, c, j) \in 1..n
      /\ \A j \in 1..R : At(limit, D + 1, j) \in 1..n
      /\ \A x \in 1..n : \/ \E c \in 1..D : \E j \in 1..limit : x = At(limit, c, j)
                         \/ \E j \in 1..R : x = At(limit, D + 1, j)
  BY <1>1, AtCovers
<1>3. /\ List(full) /\ Sep(full) /\ DOMAIN full = 1..D
      /\ \A c \in 1..D :
            /\ Len(full[c]) = limit /\ DOMAIN full[c] = 1..limit
            /\ \A j \in 1..limit : full[c][j] = q[At(limit, c, j)]
  BY FullIs
<1>4. /\ List(rest) /\ Sep(rest) /\ DOMAIN rest = IF R = 0 THEN {} ELSE {1}
      /\ \A c \in DOMAIN rest :
            /\ Len(rest[c]) = R /\ DOMAIN rest[c] = 1..R
            /\ \A j \in 1..R : rest[c][j] = q[At(limit, D + 1, j)]
  BY RestIs
<1> HIDE DEF full, rest, D, R, n
<1>5. \A u : u \in Items(full) <=> \E c \in 1..D : \E j \in 1..limit : u = q[At(limit, c, j)]
  BY <1>3 DEF Items, Range
<1>6. \A u : u \in Items(rest) <=> \E j \in 1..R : u = q[At(limit, D + 1, j)]
  <2>1. CASE R = 0
    <3>1. DOMAIN rest = {} /\ 1..R = {}
      BY <1>4, <2>1
    <3> QED
      BY <3>1 DEF Items, Range
  <2>2. CASE R # 0
    <3>1. DOMAIN rest = {1} /\ DOMAIN rest[1] = 1..R /\ \A j \in 1..R : rest[1][j] =
              q[At(limit, D + 1, j)]
      BY <1>4, <2>2
    <3>2. Range(rest) = {rest[1]}
      BY <3>1 DEF Range
    <3>3. Items(rest) = Range(rest[1])
      BY <3>2 DEF Items
    <3>4. Range(rest[1]) = {rest[1][j] : j \in 1..R}
      BY <3>1 DEF Range
    <3> QED
      BY <3>1, <3>3, <3>4
  <2> QED
    BY <2>1, <2>2
<1>7. Items(full) \cup Items(rest) = Range(q)
  <2>1. Range(q) = {q[x] : x \in 1..n}
    BY <1>1 DEF Range
  <2> QED
    BY <1>2, <1>5, <1>6, <2>1
<1>8. Apart(Items(full), Items(rest))
  <2> SUFFICES ASSUME NEW c \in 1..D, NEW i \in 1..limit, NEW j \in 1..R,
                      q[At(limit, c, i)].identity = q[At(limit, D + 1, j)].identity
               PROVE  FALSE
    BY <1>5, <1>6 DEF Apart
  <2>1. At(limit, c, i) = At(limit, D + 1, j)
    BY <1>1, <1>2
  <2>2. c \in Nat \ {0} /\ D + 1 \in Nat \ {0} /\ j \in 1..limit /\ c # D + 1
    BY <1>2
  <2> QED
    BY <2>1, <2>2, AtTells
<1>9. ASSUME NEW p \in Range(full) \cup Range(rest) PROVE Len(p) \in 1..limit
  <2>1. CASE p \in Range(full)
    BY <1>3, <2>1 DEF Range
  <2>2. CASE p \in Range(rest)
    <3>1. PICK c \in DOMAIN rest : p = rest[c]
      BY <2>2 DEF Range
    <3>2. Len(p) = R /\ R # 0
      BY <1>4, <3>1
    <3> QED
      BY <1>2, <3>2
  <2> QED
    BY <2>1, <2>2
<1> QED
  BY <1>3, <1>4, <1>7, <1>8, <1>9 DEF full, rest

(* split_payloads ships every candidate that stands, once and within limits. *)
LEMMA PayloadsTell ==
    ASSUME NEW cands, IsFiniteSet(DOMAIN cands),
           \A id \in DOMAIN cands : cands[id] # Collided =>
              cands[id].item.identity = id /\ id[1] \in {"reading", "state"}
    PROVE  /\ Items(Payloads(cands)) = {cands[id].item :
                  id \in {i \in DOMAIN cands : cands[i] # Collided}}
           /\ Sep(Payloads(cands))
           /\ PayloadsFit(Payloads(cands))
<1> DEFINE kept(kind) == Kept(cands, kind)
           q(kind) == SetToSeq(kept(kind))
           limit(kind) == PayloadLimit(kind)
           full(kind) == Full(q(kind), limit(kind))
           rest(kind) == Rest(q(kind), limit(kind))
           Kinds == {"reading", "state"}
<1>1. ASSUME NEW kind \in Kinds
      PROVE  /\ IsFiniteSet(kept(kind))
             /\ \A u \in kept(kind) : u.identity[1] = kind
             /\ \A u, v \in kept(kind) : u.identity = v.identity => u = v
  <2> DEFINE T == {i \in DOMAIN cands : i[1] = kind /\ cands[i] # Collided}
             f == [id \in T |-> cands[id].item]
  <2>1. IsFiniteSet(T)
    BY FS_Subset
  <2>2. kept(kind) = {f[id] : id \in T} /\ DOMAIN f = T
    BY DEF Kept
  <2>3. \A id \in T : f[id].identity = id /\ id[1] = kind
    OBVIOUS
  <2> HIDE DEF T, f, kept
  <2>4. IsFiniteSet(kept(kind))
    BY <2>1, <2>2, ImageIsFinite
  <2> QED
    BY <2>2, <2>3, <2>4
<1>2. limit("reading") = ReadingsLimit /\ limit("state") = StatesLimit
      /\ \A kind \in Kinds : limit(kind) \in Nat \ {0}
  BY FlowAssumption DEF PayloadLimit
<1>3. ASSUME NEW kind \in Kinds
      PROVE  /\ List(q(kind)) /\ Range(q(kind)) = kept(kind)
             /\ \A x, y \in DOMAIN q(kind) : q(kind)[x].identity = q(kind)[y].identity => x = y
  <2> DEFINE S == kept(kind)
  <2>1. IsFiniteSet(S) /\ \A u, v \in S : u.identity = v.identity => u = v
    BY <1>1
  <2> HIDE DEF S
  <2>2. /\ List(SetToSeq(S))
        /\ \A x \in S : \E a \in DOMAIN SetToSeq(S) : SetToSeq(S)[a] = x
        /\ \A a \in DOMAIN SetToSeq(S) : SetToSeq(S)[a] \in S
        /\ \A a, b \in DOMAIN SetToSeq(S) : SetToSeq(S)[a] = SetToSeq(S)[b] => a = b
    BY <2>1, SetListed
  <2>3. Range(SetToSeq(S)) = S
    BY <2>2 DEF Range
  <2>4. \A x, y \in DOMAIN SetToSeq(S) : SetToSeq(S)[x].identity = SetToSeq(S)[y].identity => x = y
    BY <2>1, <2>2
  <2> QED
    BY <2>2, <2>3, <2>4 DEF S
<1> HIDE DEF kept, q, limit, full, rest
<1>4. ASSUME NEW kind \in Kinds
      PROVE  /\ List(full(kind)) /\ List(rest(kind)) /\ Sep(full(kind)) /\ Sep(rest(kind))
             /\ Items(full(kind)) \cup Items(rest(kind)) = kept(kind)
             /\ Apart(Items(full(kind)), Items(rest(kind)))
             /\ \A p \in Range(full(kind)) \cup Range(rest(kind)) : Len(p) \in 1..limit(kind)
  <2> DEFINE qq == q(kind)
             ll == limit(kind)
  <2>1. List(qq) /\ ll \in Nat \ {0} /\ Range(qq) = kept(kind)
        /\ \A x, y \in DOMAIN qq : qq[x].identity = qq[y].identity => x = y
    BY <1>2, <1>3
  <2> HIDE DEF qq, ll
  <2>2. /\ List(Full(qq, ll)) /\ List(Rest(qq, ll)) /\ Sep(Full(qq, ll)) /\ Sep(Rest(qq, ll))
        /\ Items(Full(qq, ll)) \cup Items(Rest(qq, ll)) = Range(qq)
        /\ Apart(Items(Full(qq, ll)), Items(Rest(qq, ll)))
        /\ \A p \in Range(Full(qq, ll)) \cup Range(Rest(qq, ll)) : Len(p) \in 1..ll
    BY <2>1, SplitIs
  <2>3. full(kind) = Full(qq, ll) /\ rest(kind) = Rest(qq, ll)
    BY DEF full, rest, qq, ll
  <2> QED
    BY <2>1, <2>2, <2>3 DEF ll
<1> DEFINE a == full("reading")
           b == full("state")
           c == rest("reading")
           d == rest("state")
<1>5. Apart(kept("reading"), kept("state"))
  <2>1. ASSUME NEW u \in kept("reading"), NEW v \in kept("state") PROVE u.identity # v.identity
    <3>1. u.identity[1] = "reading" /\ v.identity[1] = "state"
      BY <1>1
    <3> QED
      BY <3>1
  <2> QED
    BY <2>1 DEF Apart
<1>6. /\ List(a) /\ List(c) /\ Sep(a) /\ Sep(c) /\ Items(a) \cup Items(c) = kept("reading")
      /\ Apart(Items(a), Items(c))
      /\ \A p \in Range(a) \cup Range(c) : Len(p) \in 1..limit("reading")
  BY <1>4
<1>7. /\ List(b) /\ List(d) /\ Sep(b) /\ Sep(d) /\ Items(b) \cup Items(d) = kept("state")
      /\ Apart(Items(b), Items(d))
      /\ \A p \in Range(b) \cup Range(d) : Len(p) \in 1..limit("state")
  BY <1>4
<1>8. Payloads(cands) = ((a \o b) \o c) \o d
  BY <1>2 DEF Payloads, full, rest, q, kept
<1> HIDE DEF a, b, c, d
<1> DEFINE x == a \o b
           y == x \o c
           z == y \o d
<1>9. List(x) /\ Sep(x) /\ Range(x) = Range(a) \cup Range(b) /\ Items(x) = Items(a) \cup Items(b)
  <2>1. Apart(Items(a), Items(b))
    BY <1>5, <1>6, <1>7 DEF Apart
  <2> QED
    BY <1>6, <1>7, <2>1, ItemsJoin
<1> HIDE DEF x
<1>10. List(y) /\ Sep(y) /\ Range(y) = Range(x) \cup Range(c) /\ Items(y) = Items(x) \cup Items(c)
  <2>1. Apart(Items(x), Items(c))
    <3>1. ASSUME NEW u \in Items(b), NEW v \in Items(c) PROVE u.identity # v.identity
      <4>1. v \in kept("reading") /\ u \in kept("state")
        BY <1>6, <1>7
      <4>2. v.identity # u.identity
        BY <1>5, <4>1 DEF Apart
      <4> QED
        BY <4>2
    <3> QED
      BY <1>6, <1>9, <3>1 DEF Apart
  <2> QED
    BY <1>6, <1>9, <2>1, ItemsJoin
<1> HIDE DEF y
<1>11. Sep(z) /\ Range(z) = Range(y) \cup Range(d) /\ Items(z) = Items(y) \cup Items(d)
  <2>1. Apart(Items(y), Items(d))
    <3>1. \A u \in Items(a) \cup Items(c), v \in Items(d) : u.identity # v.identity
      BY <1>5, <1>6, <1>7 DEF Apart
    <3>2. \A u \in Items(b), v \in Items(d) : u.identity # v.identity
      BY <1>7 DEF Apart
    <3> QED
      BY <1>9, <1>10, <3>1, <3>2 DEF Apart
  <2> QED
    BY <1>7, <1>10, <2>1, ItemsJoin
<1> HIDE DEF z
<1>12. z = Payloads(cands)
  BY <1>8 DEF z, y, x
<1>13. Items(z) = kept("reading") \cup kept("state")
  BY <1>6, <1>7, <1>9, <1>10, <1>11
<1>14. kept("reading") \cup kept("state") =
           {cands[id].item : id \in {i \in DOMAIN cands : cands[i] # Collided}}
  BY DEF kept, Kept
<1>15. PayloadsFit(z)
  <2>1. ASSUME NEW kind \in Kinds, NEW p \in Range(full(kind)) \cup Range(rest(kind))
        PROVE  /\ \A item \in Range(p) : item.identity[1] = kind
               /\ Len(p) \in 1..PayloadLimit(kind)
    <3>1. Range(p) \subseteq Items(full(kind)) \cup Items(rest(kind))
      BY DEF Items
    <3>2. Range(p) \subseteq kept(kind)
      BY <1>4, <3>1
    <3>3. Len(p) \in 1..limit(kind)
      BY <1>4
    <3> QED
      BY <1>1, <3>2, <3>3 DEF limit
  <2>2. Range(z) = (Range(a) \cup Range(c)) \cup (Range(b) \cup Range(d))
    BY <1>9, <1>10, <1>11
  <2>3. \A p \in Range(z) : \E kind \in Kinds : p \in Range(full(kind)) \cup Range(rest(kind))
    BY <2>2 DEF a, b, c, d
  <2> QED
    BY <2>1, <2>3 DEF PayloadsFit
<1> QED
  BY <1>11, <1>12, <1>13, <1>14, <1>15

-----------------------------------------------------------------------------
(* A leaf of the walk and a word of the notification.                      *)
Twins(spec, l, w) == l.at = w.at /\ Same(spec, l, w)

(* Placing both in an update keeps them alike. *)
LEMMA PlacedSame ==
    ASSUME NEW spec, NEW l, NEW w, NEW i, Same(spec, l, w)
    PROVE  Twins(spec, Placed(l, i), Placed(w, i))
<1>1. ASSUME NEW m, NEW x PROVE Projectable(m, Placed(x, i)) <=> Projectable(m, x)
  BY DEF Projectable, Placed
<1>2. \A x : /\ Placed(x, i).at = i /\ Placed(x, i).path = x.path
             /\ Placed(x, i).pointer = x.pointer /\ Placed(x, i).value = x.value
  BY DEF Placed
<1> QED
  BY <1>1, <1>2 DEF Twins, Same

(* What is found of an update, heard or not. *)
LEMMA HeardUpdates ==
    ASSUME NEW spec, WellMade(spec), NEW n, WellSaid(n), NEW i \in DOMAIN n.updates
    PROVE  LET value == n.updates[i].value IN
           /\ List(Path(n, i))
           /\ Hearable(spec, n, i) /\ i \notin Lost(spec, n) =>
                 ToldOf(spec, Path(n, i), value, Found(spec, n, i))
           /\ Hearable(spec, n, i) /\ i \in Lost(spec, n) =>
                 Found(spec, n, i).leaves = {} /\ Found(spec, n, i).issues # {}
           /\ i \in Heard(spec, n) /\ ~Hearable(spec, n, i) =>
                 Says(spec, Path(n, i), value) = {} /\ Misnamed(spec, Path(n, i), value) = {}
<1> DEFINE value == n.updates[i].value
           path == Path(n, i)
<1>1. List(path) /\ (value[1] = "object" => IsDocument(value[2]))
  BY PathIsList DEF WellSaid
<1>2. i \in Heard(spec, n) => (i \in Lost(spec, n) <=> Discarded(spec, path, value))
  BY DEF Lost
<1>3. ASSUME Hearable(spec, n, i), i \notin Lost(spec, n)
      PROVE  ToldOf(spec, path, value, Found(spec, n, i))
  BY <1>1, <1>2, <1>3, HeardTold DEF Hearable, Found
<1>4. ASSUME Hearable(spec, n, i), i \in Lost(spec, n)
      PROVE  Found(spec, n, i).leaves = {} /\ Found(spec, n, i).issues # {}
  BY <1>1, <1>2, <1>4, DiscardedTold DEF Hearable, Found
<1>5. ASSUME i \in Heard(spec, n), ~Hearable(spec, n, i)
      PROVE  Says(spec, path, value) = {} /\ Misnamed(spec, path, value) = {}
  BY <1>1, <1>5, UnheardSaysNothing DEF Hearable
<1> QED
  BY <1>1, <1>3, <1>4, <1>5

(* The leaves of the walk are the words of the notification. *)
LEMMA LeavesAreWords ==
    ASSUME NEW spec, WellMade(spec), NEW n, WellSaid(n), NEW w, WalkSo(spec, n, w, 1)
    PROVE  LET L == w.leaves
               words == Words(spec, n)
           IN  /\ \A a \in DOMAIN L : \E v \in words : Twins(spec, L[a], v)
               /\ \A v \in words : \E a \in DOMAIN L : Twins(spec, L[a], v)
               /\ \A u, v \in words : u.path = v.path /\ u.at = v.at => u = v
               /\ \A a, b \in DOMAIN L : L[a].path = L[b].path /\ L[a].at = L[b].at => a = b
               /\ \A a \in DOMAIN L :
                     LET i == L[a].at IN
                     /\ i \in DOMAIN n.updates /\ Hearable(spec, n, i) /\ i \notin Lost(spec, n)
                     /\ List(L[a].pointer) /\ L[a].path = Joined(Path(n, i), L[a].pointer)
                     /\ L[a].pointer \notin Found(spec, n, i).issues
<1> DEFINE L == w.leaves
           words == Words(spec, n)
           value(i) == n.updates[i].value
           says(i) == Says(spec, Path(n, i), value(i))
           found(i) == Found(spec, n, i)
           counts(i) == i \in DOMAIN n.updates /\ Hearable(spec, n, i) /\ i \notin Lost(spec, n)
<1>1. Len(n.updates) \in Nat /\ DOMAIN n.updates = 1..Len(n.updates) /\ List(L)
      /\ Len(L) \in Nat /\ DOMAIN L = 1..Len(L)
  BY DEF WellSaid, WalkSo, LeavesSo, List
<1>2. /\ \A a \in DOMAIN L : \E i \in DOMAIN n.updates :
            Hearable(spec, n, i) /\ \E l \in found(i).leaves : L[a] = Placed(l, i)
      /\ \A i \in DOMAIN n.updates : Hearable(spec, n, i) =>
            \A l \in found(i).leaves : \E a \in DOMAIN L : L[a] = Placed(l, i)
      /\ \A a, b \in DOMAIN L : a < b => L[a].at >= L[b].at /\ L[a] # L[b]
  <2>1. \A i \in DOMAIN n.updates : i >= 1
    BY <1>1
  <2> QED
    BY <2>1 DEF WalkSo, LeavesSo
<1>3. \A v : v \in words <=> \E i \in Heard(spec, n) \ Lost(spec, n) : \E x \in says(i) :
          v = Placed(x, i)
  BY DEF Words
<1>4. Heard(spec, n) \subseteq DOMAIN n.updates
  BY DEF Heard, Located
<1>5. ASSUME NEW i \in DOMAIN n.updates
      PROVE  /\ counts(i) => ToldOf(spec, Path(n, i), value(i), found(i))
             /\ Hearable(spec, n, i) /\ ~counts(i) => found(i).leaves = {}
             /\ i \in Heard(spec, n) /\ ~Hearable(spec, n, i) => says(i) = {}
  BY HeardUpdates
<1>6. \A v : v \in words <=> \E i \in DOMAIN n.updates : counts(i) /\ \E x \in says(i) :
          v = Placed(x, i)
  BY <1>3, <1>4, <1>5 DEF Hearable
<1>7. \A a \in DOMAIN L : \E i \in DOMAIN n.updates : counts(i) /\ \E l \in found(i).leaves :
          L[a] = Placed(l, i)
  BY <1>2, <1>5
<1>8. ASSUME NEW i \in DOMAIN n.updates, counts(i)
      PROVE  /\ \A x \in says(i) : \E l \in found(i).leaves : Same(spec, l, x)
             /\ \A l \in found(i).leaves : \E x \in says(i) : Same(spec, l, x)
             /\ \A u, v \in says(i) : u.path = v.path => u = v
             /\ \A k, l \in found(i).leaves : k.path = l.path => k = l
             /\ \A l \in found(i).leaves :
                   List(l.pointer) /\ l.path = Joined(Path(n, i), l.pointer)
                       /\ l.pointer \notin found(i).issues
  <2>1. ToldOf(spec, Path(n, i), value(i), found(i))
    BY <1>5, <1>8
  <2> HIDE DEF value, found
  <2> QED
    BY <2>1 DEF ToldOf
<1>9. \A x, i : /\ Placed(x, i).at = i /\ Placed(x, i).path = x.path
                /\ Placed(x, i).pointer = x.pointer /\ Placed(x, i).value = x.value
  BY DEF Placed
<1>10. \A i \in DOMAIN n.updates : counts(i) => Hearable(spec, n, i) /\ i \notin Lost(spec, n)
  OBVIOUS
<1> HIDE DEF L, words, says, found, counts
<1>11. ASSUME NEW a \in DOMAIN L PROVE \E v \in words : Twins(spec, L[a], v)
  <2>1. PICK i \in DOMAIN n.updates : counts(i) /\ \E l \in found(i).leaves : L[a] = Placed(l, i)
    BY <1>7
  <2>2. PICK l \in found(i).leaves : L[a] = Placed(l, i)
    BY <2>1
  <2>3. PICK x \in says(i) : Same(spec, l, x)
    BY <1>8, <2>1
  <2>4. Twins(spec, L[a], Placed(x, i)) /\ Placed(x, i) \in words
    BY <1>6, <2>1, <2>2, <2>3, PlacedSame
  <2> QED
    BY <2>4
<1>12. ASSUME NEW v \in words PROVE \E a \in DOMAIN L : Twins(spec, L[a], v)
  <2>1. PICK i \in DOMAIN n.updates : counts(i) /\ \E x \in says(i) : v = Placed(x, i)
    BY <1>6
  <2>2. PICK x \in says(i) : v = Placed(x, i)
    BY <2>1
  <2>3. PICK l \in found(i).leaves : Same(spec, l, x)
    BY <1>8, <2>1
  <2>4. PICK a \in DOMAIN L : L[a] = Placed(l, i)
    BY <1>2, <1>10, <2>1, <2>3
  <2> QED
    BY <2>2, <2>3, <2>4, PlacedSame
<1>13. ASSUME NEW u \in words, NEW v \in words, u.path = v.path, u.at = v.at PROVE u = v
  <2>1. PICK i \in DOMAIN n.updates : counts(i) /\ \E x \in says(i) : u = Placed(x, i)
    BY <1>6
  <2>2. PICK j \in DOMAIN n.updates : counts(j) /\ \E x \in says(j) : v = Placed(x, j)
    BY <1>6
  <2>3. i = j
    BY <1>9, <1>13, <2>1, <2>2
  <2> QED
    BY <1>8, <1>9, <1>13, <2>1, <2>2, <2>3
<1>14. ASSUME NEW a \in DOMAIN L, NEW b \in DOMAIN L, L[a].path = L[b].path, L[a].at = L[b].at
                  PROVE a = b
  <2>1. PICK i \in DOMAIN n.updates : counts(i) /\ \E x \in found(i).leaves : L[a] = Placed(x, i)
    BY <1>7
  <2>2. PICK j \in DOMAIN n.updates : counts(j) /\ \E x \in found(j).leaves : L[b] = Placed(x, j)
    BY <1>7
  <2>3. i = j
    BY <1>9, <1>14, <2>1, <2>2
  <2>4. L[a] = L[b]
    BY <1>8, <1>9, <1>14, <2>1, <2>2, <2>3
  <2>5. ~(a < b) /\ ~(b < a)
    BY <1>2, <2>4
  <2> QED
    BY <1>1, <2>5
<1>15. ASSUME NEW a \in DOMAIN L
       PROVE  LET i == L[a].at IN
              /\ i \in DOMAIN n.updates /\ Hearable(spec, n, i) /\ i \notin Lost(spec, n)
              /\ List(L[a].pointer) /\ L[a].path = Joined(Path(n, i), L[a].pointer)
              /\ L[a].pointer \notin found(i).issues
  BY <1>7, <1>8, <1>9, <1>10
<1> QED
  BY <1>11, <1>12, <1>13, <1>14, <1>15 DEF L, words, found

(* What stands, is sound and is observed of words is what is first, good   *)
(* and alone of leaves.                                                    *)
LEMMA LeavesDecide ==
    ASSUME NEW spec, WellMade(spec), NEW n, WellSaid(n), NEW w, WalkSo(spec, n, w, 1),
           NEW a \in DOMAIN w.leaves, NEW v \in Words(spec, n), Twins(spec, w.leaves[a], v)
    PROVE  LET L == w.leaves IN
           /\ Claim(spec, v) = Claim(spec, L[a])
           /\ v \in Standing(spec, n) <=> First(L, a)
           /\ v \in Sound(spec, n) <=> Good(spec, L, a)
           /\ v \in Observed(spec, n) <=> Good(spec, L, a) /\ Alone(spec, L, a, Len(L))
           /\ Good(spec, L, a) => v.value[2][2] = L[a].value[2][2]
<1> DEFINE L == w.leaves
           words == Words(spec, n)
           twins(b, u) == b \in DOMAIN L /\ u \in words /\ Twins(spec, L[b], u)
<1>1. List(L) /\ Len(L) \in Nat /\ DOMAIN L = 1..Len(L)
      /\ \A b, c \in DOMAIN L : b < c => L[b].at >= L[c].at
  BY DEF WalkSo, LeavesSo, List
<1>2. /\ \A b \in DOMAIN L : \E u : twins(b, u)
      /\ \A u \in words : \E b : twins(b, u)
      /\ \A u, x \in words : u.path = x.path /\ u.at = x.at => u = x
      /\ \A b, c \in DOMAIN L : L[b].path = L[c].path /\ L[b].at = L[c].at => b = c
      /\ \A b \in DOMAIN L : L[b].at \in DOMAIN n.updates /\ List(L[b].pointer)
                                /\ L[b].path = Joined(Path(n, L[b].at), L[b].pointer)
  BY LeavesAreWords
<1>3. \A b, u : twins(b, u) =>
         u.path = L[b].path /\ u.at = L[b].at /\ u \in words /\ b \in DOMAIN L
             /\ Same(spec, L[b], u)
  BY DEF Twins, Same
<1>4. \A b \in DOMAIN L : L[b].at \in Int /\ List(L[b].path)
  <2> TAKE b \in DOMAIN L
  <2>1. DOMAIN n.updates = 1..Len(n.updates) /\ Len(n.updates) \in Nat
    BY DEF WellSaid, List
  <2>2. List(Path(n, L[b].at)) /\ List(L[b].pointer) /\ L[b].at \in DOMAIN n.updates
        /\ L[b].path = Joined(Path(n, L[b].at), L[b].pointer)
    BY <1>2, PathIsList
  <2>3. List(Joined(Path(n, L[b].at), L[b].pointer))
    BY <2>2, JoinedIs
  <2> QED
    BY <2>1, <2>2, <2>3
<1>5. twins(a, v)
  OBVIOUS
<1>6. \A u : u \in Standing(spec, n) <=> u \in words /\ \A x \in words : x.path = u.path =>
          x.at <= u.at
  BY DEF Standing
<1>7. \A b : First(L, b) <=> \A c \in 1..(b - 1) : L[c].path # L[b].path
  BY DEF First
<1> HIDE DEF L, words, twins
<1>8. ASSUME NEW b, NEW u, twins(b, u) PROVE u \in Standing(spec, n) <=> First(L, b)
  <2>1. b \in DOMAIN L /\ u \in words /\ u.path = L[b].path /\ u.at = L[b].at /\ b \in 1..Len(L)
    BY <1>1, <1>3, <1>8
  <2>2. ASSUME First(L, b), NEW x \in words, x.path = u.path PROVE x.at <= u.at
    <3>1. PICK c : twins(c, x)
      BY <1>2
    <3>2. c \in 1..Len(L) /\ c \in DOMAIN L /\ L[c].path = L[b].path /\ x.at = L[c].at
      BY <1>1, <1>3, <2>1, <2>2, <3>1
    <3>3. c \notin 1..(b - 1)
      BY <1>7, <2>2, <3>2
    <3>4. c = b \/ b < c
      BY <1>1, <2>1, <3>2, <3>3
    <3> QED
      BY <1>1, <1>4, <2>1, <3>2, <3>4
  <2>3. ASSUME u \in Standing(spec, n), NEW c \in 1..(b - 1), L[c].path = L[b].path PROVE FALSE
    <3>1. c \in DOMAIN L /\ c < b
      BY <1>1, <2>1
    <3>2. PICK x : twins(c, x)
      BY <1>2, <3>1
    <3>3. x \in words /\ x.path = u.path /\ x.at = L[c].at
      BY <1>3, <2>1, <2>3, <3>2
    <3>4. L[c].at <= L[b].at /\ L[c].at >= L[b].at
      BY <1>1, <1>6, <2>1, <2>3, <3>1, <3>3
    <3>5. L[c].at = L[b].at
      BY <1>4, <2>1, <3>1, <3>4
    <3> QED
      BY <1>2, <2>1, <2>3, <3>1, <3>5
  <2> QED
    BY <1>6, <1>7, <2>1, <2>2, <2>3
<1>9. ASSUME NEW b, NEW u, twins(b, u)
      PROVE  /\ u \in Sound(spec, n) <=> Good(spec, L, b)
             /\ Good(spec, L, b) => u.value[2][2] = L[b].value[2][2]
  <2> DEFINE m == MappingOf(spec, L[b].path)
  <2>1. u \in words /\ u.path = L[b].path /\ Same(spec, L[b], u) /\ b \in DOMAIN L
    BY <1>3, <1>9
  <2>2. Mapped(spec, L[b].path) => m \in spec.mappings
    BY <1>4, <2>1, MappedIsRelevant
  <2>3. Mapped(spec, L[b].path) =>
           /\ Projectable(m, L[b]) <=> Projectable(m, u)
           /\ Projectable(m, L[b]) => L[b].value[2][2] = u.value[2][2]
    BY <2>1, <2>2 DEF Same
  <2>4. u \in Sound(spec, n) <=>
           u \in Standing(spec, n) /\ Mapped(spec, u.path)
               /\ Projectable(MappingOf(spec, u.path), u)
    BY DEF Sound
  <2>5. Good(spec, L, b) <=> First(L, b) /\ Mapped(spec, L[b].path) /\ Projectable(m, L[b])
    BY DEF Good
  <2> HIDE DEF m
  <2>6. MappingOf(spec, u.path) = m
    BY <2>1 DEF m
  <2> QED
    BY <1>8, <1>9, <2>1, <2>3, <2>4, <2>5, <2>6
<1>10. \A b, u : twins(b, u) => Claim(spec, u) = Claim(spec, L[b])
  BY <1>3 DEF Claim
<1>11. v \in Observed(spec, n) <=>
          v \in Sound(spec, n) /\ \A u \in Sound(spec, n) : v # u => Claim(spec, u) # Claim(spec, v)
  BY DEF Observed
<1>12. Sound(spec, n) \subseteq words
  BY DEF Sound, Standing, words
<1>13. ASSUME v \in Observed(spec, n), NEW b \in 1..Len(L), b # a, Good(spec, L, b)
       PROVE  Claim(spec, L[b]) # Claim(spec, L[a])
  <2>1. PICK u : twins(b, u)
    BY <1>1, <1>2
  <2>2. u \in Sound(spec, n)
    BY <1>9, <1>13, <2>1
  <2>3. u # v
    BY <1>2, <1>3, <1>5, <1>13, <2>1
  <2> QED
    BY <1>5, <1>10, <1>11, <1>13, <2>1, <2>2, <2>3
<1>14. ASSUME Good(spec, L, a), Alone(spec, L, a, Len(L)), NEW u \in Sound(spec, n), v # u
       PROVE  Claim(spec, u) # Claim(spec, v)
  <2>1. PICK b : twins(b, u)
    BY <1>2, <1>12
  <2>2. Good(spec, L, b) /\ b \in 1..Len(L)
    BY <1>1, <1>3, <1>9, <2>1
  <2>3. b # a
    BY <1>2, <1>3, <1>5, <1>14, <2>1
  <2>4. Claim(spec, L[b]) # Claim(spec, L[a])
    BY <1>14, <2>2, <2>3 DEF Alone
  <2> QED
    BY <1>5, <1>10, <2>1, <2>4
<1>15. v \in Observed(spec, n) <=> Good(spec, L, a) /\ Alone(spec, L, a, Len(L))
  BY <1>5, <1>9, <1>11, <1>13, <1>14 DEF Alone
<1> QED
  BY <1>5, <1>8, <1>9, <1>10, <1>15 DEF L

-----------------------------------------------------------------------------
(* What is told is what is observed. *)
LEMMA ObservationsTell ==
    ASSUME NEW spec, WellMade(spec), NEW n, WellSaid(n), NEW w, WalkSo(spec, n, w, 1),
           NEW s, ChoiceSo(spec, w, s, Len(w.leaves))
    PROVE  ObservedOnce(spec, n, Payloads(s.candidates)) /\ PayloadsFit(Payloads(s.candidates))
<1> DEFINE L == w.leaves
           K == Len(L)
           cands == s.candidates
           G == {a \in 1..K : Good(spec, L, a)}
           claim(a) == Claim(spec, L[a])
           item(v) == [identity |-> Claim(spec, v), value |-> v.value[2][2]]
<1>1. K \in Nat /\ DOMAIN L = 1..K
  BY DEF WalkSo, LeavesSo, List
<1>2. /\ \A id : id \in DOMAIN cands <=> \E a \in 1..K : Good(spec, L, a) /\ claim(a) = id
      /\ \A a \in 1..K : Good(spec, L, a) =>
            cands[claim(a)] = IF Alone(spec, L, a, K) THEN Candidate(claim(a), L[a], About(L[a]))
                ELSE Collided
  BY DEF ChoiceSo, CandidatesSo
<1>3. \A id, l, about : Candidate(id, l, about).item = [identity |-> id, value |-> l.value[2][2]]
                          /\ Candidate(id, l, about) # Collided
  BY CandidateIsKept DEF Candidate
<1>4. \A b \in DOMAIN L : List(L[b].path)
  <2> TAKE b \in DOMAIN L
  <2>1. L[b].at \in DOMAIN n.updates /\ List(L[b].pointer)
           /\ L[b].path = Joined(Path(n, L[b].at), L[b].pointer)
    BY LeavesAreWords
  <2>2. List(Path(n, L[b].at))
    BY <2>1, PathIsList
  <2>3. List(Joined(Path(n, L[b].at), L[b].pointer))
    BY <2>1, <2>2, JoinedIs
  <2> QED
    BY <2>1, <2>3
<1>5. \A a \in G : claim(a)[1] \in {"reading", "state"}
  <2> TAKE a \in G
  <2>1. MappingOf(spec, L[a].path) \in spec.mappings
    BY <1>1, <1>4, MappedIsRelevant DEF Good
  <2>2. claim(a)[1] = MappingOf(spec, L[a].path).kind
    BY DEF Claim, Identity, Output
  <2> QED
    BY <2>1, <2>2 DEF WellMade
<1>6. IsFiniteSet(DOMAIN cands)
  <2>1. IsFiniteSet(G)
    <3>1. IsFiniteSet(1..K)
      BY <1>1, FS_Interval
    <3>2. G \subseteq 1..K
      OBVIOUS
    <3> HIDE DEF G, K
    <3> QED
      BY <3>1, <3>2, FS_Subset
  <2> DEFINE f == [a \in G |-> claim(a)]
  <2>2. DOMAIN cands = {f[a] : a \in G} /\ DOMAIN f = G
    BY <1>2
  <2> HIDE DEF f, G
  <2> QED
    BY <2>1, <2>2, ImageIsFinite
<1>7. \A id \in DOMAIN cands : cands[id] # Collided =>
         \E a \in 1..K : /\ Good(spec, L, a) /\ Alone(spec, L, a, K) /\ claim(a) = id
                         /\ cands[id].item = [identity |-> id, value |-> L[a].value[2][2]]
  <2> TAKE id \in DOMAIN cands
  <2> HAVE cands[id] # Collided
  <2>1. PICK a \in 1..K : Good(spec, L, a) /\ claim(a) = id
    BY <1>2
  <2>2. cands[id] = IF Alone(spec, L, a, K) THEN Candidate(id, L[a], About(L[a])) ELSE Collided
    BY <1>2, <2>1
  <2> HIDE DEF cands, L, claim, K
  <2>3. Alone(spec, L, a, K) /\ cands[id] = Candidate(id, L[a], About(L[a]))
    BY <2>2
  <2>4. cands[id].item = [identity |-> id, value |-> L[a].value[2][2]]
    BY <1>3, <2>3
  <2> QED
    BY <2>1, <2>3, <2>4
<1>8. \A id \in DOMAIN cands : cands[id] # Collided =>
         cands[id].item.identity = id /\ id[1] \in {"reading", "state"}
  <2> TAKE id \in DOMAIN cands
  <2> HAVE cands[id] # Collided
  <2>1. PICK a \in 1..K : /\ Good(spec, L, a) /\ claim(a) = id
                          /\ cands[id].item = [identity |-> id, value |-> L[a].value[2][2]]
    BY <1>7
  <2>2. a \in G
    BY <2>1
  <2> HIDE DEF cands, claim, G
  <2> QED
    BY <1>5, <2>1, <2>2
<1> DEFINE parts == Payloads(cands)
           kept == {cands[id].item : id \in {i \in DOMAIN cands : cands[i] # Collided}}
           seen == {item(v) : v \in Observed(spec, n)}
<1> HIDE DEF cands
<1>9. Items(parts) = kept /\ Sep(parts) /\ PayloadsFit(parts)
  BY <1>6, <1>8, PayloadsTell
<1>10. ASSUME NEW v \in Observed(spec, n)
       PROVE  \E a \in DOMAIN L : Twins(spec, L[a], v) /\ Claim(spec, v) = claim(a)
                 /\ Good(spec, L, a) /\ Alone(spec, L, a, K) /\ v.value[2][2] = L[a].value[2][2]
  <2>1. v \in Words(spec, n)
    BY DEF Observed, Sound, Standing
  <2>2. PICK a \in DOMAIN L : Twins(spec, L[a], v)
    BY <2>1, LeavesAreWords
  <2> QED
    BY <2>1, <2>2, LeavesDecide
<1>11. ASSUME NEW a \in 1..K, Good(spec, L, a), Alone(spec, L, a, K)
       PROVE  \E v \in Observed(spec, n) : Claim(spec, v) = claim(a)
                  /\ v.value[2][2] = L[a].value[2][2]
  <2>1. PICK v \in Words(spec, n) : Twins(spec, L[a], v)
    BY <1>1, LeavesAreWords
  <2> QED
    BY <1>1, <1>11, <2>1, LeavesDecide
<1> HIDE DEF L, K, claim
<1>12. ASSUME NEW id \in DOMAIN cands, cands[id] # Collided PROVE cands[id].item \in seen
  <2>1. PICK a \in 1..K : /\ Good(spec, L, a) /\ Alone(spec, L, a, K) /\ claim(a) = id
                          /\ cands[id].item = [identity |-> id, value |-> L[a].value[2][2]]
    BY <1>7, <1>12
  <2>2. PICK v \in Observed(spec, n) : Claim(spec, v) = claim(a) /\ v.value[2][2] = L[a].value[2][2]
    BY <1>11, <2>1
  <2>3. cands[id].item = item(v)
    BY <2>1, <2>2
  <2> QED
    BY <2>3
<1>13. ASSUME NEW v \in Observed(spec, n) PROVE item(v) \in kept
  <2>1. PICK a \in DOMAIN L : Claim(spec, v) = claim(a) /\ v.value[2][2] = L[a].value[2][2]
                 /\ Good(spec, L, a) /\ Alone(spec, L, a, K)
    BY <1>10
  <2>2. claim(a) \in DOMAIN cands /\ cands[claim(a)] = Candidate(claim(a), L[a], About(L[a]))
    BY <1>1, <1>2, <2>1
  <2>3. cands[claim(a)] # Collided /\ cands[claim(a)].item = item(v)
    BY <1>3, <2>1, <2>2
  <2> QED
    BY <2>2, <2>3
<1>14. Items(parts) = seen
  BY <1>9, <1>12, <1>13
<1>15. ObservedOnce(spec, n, parts)
  BY <1>9, <1>14 DEF ObservedOnce, Items, Sep
<1> QED
  BY <1>9, <1>15 DEF cands

(* An issue has its three fields. *)
LEMMA IssueIs ==
    /\ \A f, i, p : Issue(f, i, p).field = f /\ Issue(f, i, p).at = i /\ Issue(f, i, p).pointer = p
    /\ "update" # "delete"
  BY DEF Issue

(* What is reported of updates. *)
LEMMA ReportedIs ==
    ASSUME NEW spec, WellMade(spec), NEW n, WellSaid(n), NEW w, WalkSo(spec, n, w, 1),
           NEW s, ChoiceSo(spec, w, s, Len(w.leaves))
    PROVE  LET reported == s.issues \cup DeleteIssues(spec, n)
               L == w.leaves
           IN  \A e : e.field = "update" => (e \in reported <=>
                 \/ \E i \in DOMAIN n.updates : i \notin Located(spec, n)
                        /\ e = Issue("update", i, <<>>)
                 \/ \E i \in DOMAIN n.updates :
                       Hearable(spec, n, i) /\ \E f \in Found(spec, n, i).issues :
                           e = Issue("update", i, f)
                 \/ \E a \in DOMAIN L : First(L, a) /\ e = About(L[a])
                       /\ ~(Good(spec, L, a) /\ Alone(spec, L, a, Len(L))))
<1>1. DOMAIN w.leaves = 1..Len(w.leaves)
  BY DEF WalkSo, LeavesSo, List
<1>2. \A i \in DOMAIN n.updates : i >= 1
  BY DEF WellSaid, List
<1>3. \A e : e \in s.issues <=>
            \/ e \in w.issues
            \/ \E a \in DOMAIN w.leaves :
                  /\ First(w.leaves, a) /\ e = About(w.leaves[a])
                  /\ ~(Good(spec, w.leaves, a) /\ Alone(spec, w.leaves, a, Len(w.leaves)))
  BY <1>1 DEF ChoiceSo, ChosenIssuesSo
<1>4. \A e : e \in w.issues <=>
        \E i \in DOMAIN n.updates :
            \/ i \notin Located(spec, n) /\ e = Issue("update", i, <<>>)
            \/ Hearable(spec, n, i) /\ \E f \in Found(spec, n, i).issues : e = Issue("update", i, f)
  BY <1>2 DEF WalkSo, IssuesSo
<1>5. \A e \in DeleteIssues(spec, n) : e.field # "update"
  BY IssueIs DEF DeleteIssues
<1> QED
  BY <1>3, <1>4, <1>5

(* The other words that stand are issues, and so is what is misnamed. *)
LEMMA RestTold ==
    ASSUME NEW spec, WellMade(spec), NEW n, WellSaid(n), NEW w, WalkSo(spec, n, w, 1),
           NEW s, ChoiceSo(spec, w, s, Len(w.leaves))
    PROVE  RestAreIssues(spec, n, s.issues \cup DeleteIssues(spec, n))
<1> DEFINE L == w.leaves
           reported == s.issues \cup DeleteIssues(spec, n)
           chosen(a) == Good(spec, L, a) /\ Alone(spec, L, a, Len(L))
<1>1. \A e : e.field = "update" => (e \in reported <=>
         \/ \E i \in DOMAIN n.updates : i \notin Located(spec, n) /\ e = Issue("update", i, <<>>)
         \/ \E i \in DOMAIN n.updates :
               Hearable(spec, n, i) /\ \E f \in Found(spec, n, i).issues : e = Issue("update", i, f)
         \/ \E a \in DOMAIN L : First(L, a) /\ e = About(L[a]) /\ ~chosen(a))
  BY ReportedIs
<1>2. /\ \A v \in Words(spec, n) : \E a \in DOMAIN L : Twins(spec, L[a], v)
      /\ \A a, b \in DOMAIN L : L[a].path = L[b].path /\ L[a].at = L[b].at => a = b
      /\ \A a \in DOMAIN L :
            LET i == L[a].at IN
            /\ i \in DOMAIN n.updates /\ Hearable(spec, n, i)
            /\ L[a].path = Joined(Path(n, i), L[a].pointer)
            /\ L[a].pointer \notin Found(spec, n, i).issues
  BY LeavesAreWords
<1>3. Standing(spec, n) \subseteq Words(spec, n)
  BY DEF Standing
<1>4. ASSUME NEW a \in DOMAIN L, NEW v \in Words(spec, n), Twins(spec, L[a], v)
      PROVE  /\ v \in Standing(spec, n) <=> First(L, a)
             /\ v \in Observed(spec, n) <=> chosen(a)
             /\ v.at = L[a].at /\ v.pointer = L[a].pointer
  <2>1. v.at = L[a].at /\ v.pointer = L[a].pointer
    BY <1>4 DEF Twins, Same
  <2> QED
    BY <1>4, <2>1, LeavesDecide
<1>5. \A a : About(L[a]) = Issue("update", L[a].at, L[a].pointer)
  BY DEF About
<1>6. \A i : Hearable(spec, n, i) => i \in Located(spec, n)
  BY DEF Hearable, Heard
<1> HIDE DEF L, chosen, reported
<1>7. ASSUME NEW v \in Standing(spec, n)
      PROVE  Issue("update", v.at, v.pointer) \in reported <=> v \notin Observed(spec, n)
  <2> DEFINE e == Issue("update", v.at, v.pointer)
  <2>1. PICK a \in DOMAIN L : Twins(spec, L[a], v)
    BY <1>2, <1>3
  <2>2. First(L, a) /\ (v \in Observed(spec, n) <=> chosen(a)) /\ v.at = L[a].at
            /\ v.pointer = L[a].pointer
    BY <1>3, <1>4, <2>1
  <2>3. e = About(L[a]) /\ e.field = "update" /\ e.at = L[a].at /\ e.pointer = L[a].pointer
    BY <1>5, <2>2, IssueIs
  <2>4. Hearable(spec, n, L[a].at) /\ L[a].pointer \notin Found(spec, n, L[a].at).issues
        /\ L[a].path = Joined(Path(n, L[a].at), L[a].pointer)
    BY <1>2
  <2> HIDE DEF e
  <2>5. ASSUME NEW i \in DOMAIN n.updates, i \notin Located(spec, n), e = Issue("update", i, <<>>)
        PROVE  FALSE
    BY <1>6, <2>3, <2>4, <2>5, IssueIs
  <2>6. ASSUME NEW i \in DOMAIN n.updates, NEW f \in Found(spec, n, i).issues,
                   e = Issue("update", i, f)
        PROVE  FALSE
    <3>1. i = L[a].at /\ f = L[a].pointer
      BY <2>3, <2>6, IssueIs
    <3> QED
      BY <2>4, <3>1
  <2>7. ASSUME NEW b \in DOMAIN L, e = About(L[b]) PROVE a = b
    <3>1. L[b].at = L[a].at /\ L[b].pointer = L[a].pointer
      BY <1>5, <2>3, <2>7, IssueIs
    <3>2. L[b].path = Joined(Path(n, L[b].at), L[b].pointer)
      BY <1>2
    <3>3. L[b].path = L[a].path
      BY <2>4, <3>1, <3>2
    <3> QED
      BY <1>2, <3>1, <3>3
  <2>8. e \in reported <=> ~chosen(a)
    BY <1>1, <2>2, <2>3, <2>5, <2>6, <2>7
  <2> QED
    BY <2>2, <2>8 DEF e
<1>8. ASSUME NEW i \in Heard(spec, n) \ Lost(spec, n),
                 NEW p \in Misnamed(spec, Path(n, i), n.updates[i].value)
      PROVE  Issue("update", i, p) \in reported
  <2>1. i \in DOMAIN n.updates
    BY DEF Heard, Located
  <2>2. Hearable(spec, n, i)
    BY <1>8, <2>1, HeardUpdates
  <2>3. ToldOf(spec, Path(n, i), n.updates[i].value, Found(spec, n, i))
    BY <2>1, <2>2, HeardUpdates
  <2>4. p \in Found(spec, n, i).issues
    BY <2>3 DEF ToldOf
  <2>5. Issue("update", i, p).field = "update"
    BY IssueIs
  <2> QED
    BY <1>1, <2>1, <2>2, <2>4, <2>5
<1> QED
  BY <1>7, <1>8 DEF RestAreIssues, reported

(* Issues are of nothing else. *)
LEMMA UnheardTold ==
    ASSUME NEW spec, WellMade(spec), NEW n, WellSaid(n), NEW w, WalkSo(spec, n, w, 1),
           NEW s, ChoiceSo(spec, w, s, Len(w.leaves))
    PROVE  UnheardAreSilent(spec, n, s.issues \cup DeleteIssues(spec, n))
<1> DEFINE L == w.leaves
           reported == s.issues \cup DeleteIssues(spec, n)
           chosen(a) == Good(spec, L, a) /\ Alone(spec, L, a, Len(L))
<1>1. \A e : e.field = "update" => (e \in reported <=>
         \/ \E i \in DOMAIN n.updates : i \notin Located(spec, n) /\ e = Issue("update", i, <<>>)
         \/ \E i \in DOMAIN n.updates :
               Hearable(spec, n, i) /\ \E f \in Found(spec, n, i).issues : e = Issue("update", i, f)
         \/ \E a \in DOMAIN L : First(L, a) /\ e = About(L[a]) /\ ~chosen(a))
  BY ReportedIs
<1>2. \A a \in DOMAIN L : Hearable(spec, n, L[a].at)
  BY LeavesAreWords
<1>3. \A a : About(L[a]).at = L[a].at
  BY IssueIs DEF About
<1>4. /\ Heard(spec, n) \subseteq Located(spec, n) /\ Lost(spec, n) \subseteq Heard(spec, n)
      /\ \A i : Hearable(spec, n, i) <=> i \in Heard(spec, n) /\ Relevant(spec, Path(n, i))
  BY DEF Heard, Lost, Hearable
<1> HIDE DEF L, chosen, reported
<1>5. ASSUME NEW i \in DOMAIN n.updates, i \notin Located(spec, n) PROVE ~Silent(reported, i)
  <2>1. Issue("update", i, <<>>) \in reported
    BY <1>1, <1>5, IssueIs
  <2> QED
    BY <2>1, IssueIs DEF Silent
<1>6. ASSUME NEW i \in DOMAIN n.updates, i \in Lost(spec, n), Relevant(spec, Path(n, i))
      PROVE  ~Silent(reported, i)
  <2>1. Hearable(spec, n, i)
    BY <1>4, <1>6
  <2>2. Found(spec, n, i).issues # {}
    BY <1>6, <2>1, HeardUpdates
  <2>3. PICK f \in Found(spec, n, i).issues : TRUE
    BY <2>2
  <2>4. Issue("update", i, f) \in reported
    BY <1>1, <2>1, <2>3, IssueIs
  <2> QED
    BY <2>4, IssueIs DEF Silent
<1>7. ASSUME NEW i \in DOMAIN n.updates, i \in Located(spec, n), ~Hearable(spec, n, i)
      PROVE  Silent(reported, i)
  <2> SUFFICES ASSUME NEW e \in reported, e.field = "update", e.at = i PROVE FALSE
    BY DEF Silent
  <2>1. ASSUME NEW j \in DOMAIN n.updates, j \notin Located(spec, n), e = Issue("update", j, <<>>)
        PROVE  FALSE
    BY <1>7, <2>1, IssueIs
  <2>2. ASSUME NEW j \in DOMAIN n.updates, Hearable(spec, n, j), NEW f, e = Issue("update", j, f)
        PROVE  FALSE
    BY <1>7, <2>2, IssueIs
  <2>3. ASSUME NEW a \in DOMAIN L, e = About(L[a]) PROVE FALSE
    BY <1>2, <1>3, <1>7, <2>3
  <2> QED
    BY <1>1, <2>1, <2>2, <2>3
<1> QED
  BY <1>4, <1>5, <1>6, <1>7 DEF UnheardAreSilent, reported

(* A delete of what a mapping is about is an issue. *)
LEMMA DeletesTold ==
    ASSUME NEW spec, NEW n, NEW reported, DeleteIssues(spec, n) \subseteq reported
    PROVE  DeletesAreIssues(spec, n, reported)
  BY DEF DeletesAreIssues, DeleteIssues, Relevant

(* One mapping at most has a say about a word. *)
LEMMA OneMappingTold ==
    ASSUME NEW spec, WellMade(spec), NEW n, WellSaid(n), NEW w, WalkSo(spec, n, w, 1)
    PROVE  OneMapping(spec, n)
<1> SUFFICES ASSUME NEW v \in Words(spec, n)
             PROVE  Cardinality({m \in spec.mappings : Matches(m, v.path)}) <= 1
  BY DEF OneMapping
<1>1. PICK a \in DOMAIN w.leaves : Twins(spec, w.leaves[a], v)
  BY LeavesAreWords
<1> DEFINE l == w.leaves[a]
<1>2. l.at \in DOMAIN n.updates /\ List(l.pointer) /\ l.path = Joined(Path(n, l.at), l.pointer)
  BY LeavesAreWords
<1>3. List(Path(n, l.at))
  BY <1>2, PathIsList
<1>4. List(Joined(Path(n, l.at), l.pointer))
  BY <1>2, <1>3, JoinedIs
<1>5. List(v.path)
  BY <1>1, <1>2, <1>4 DEF Twins, Same
<1> QED
  BY <1>5, AtMostOneMatches

(* What is told of a notification, by whatever specification. *)
LEMMA ProjectTells ==
    ASSUME NEW spec, WellMade(spec), NEW n, WellSaid(n)
    PROVE  LET result == Project(spec, n) IN
           /\ OneMapping(spec, n)
           /\ ObservedOnce(spec, n, result.payloads)
           /\ PayloadsFit(result.payloads)
           /\ RestAreIssues(spec, n, result.issues)
           /\ UnheardAreSilent(spec, n, result.issues)
           /\ DeletesAreIssues(spec, n, result.issues)
<1> DEFINE w == Walk(spec, n)[Len(n.updates)]
           s == Choice(spec, w)[Len(w.leaves)]
           result == Project(spec, n)
<1>1. result.payloads = Payloads(s.candidates) /\ result.issues = s.issues
          \cup DeleteIssues(spec, n)
  BY DEF Project
<1>2. WalkSo(spec, n, w, 1)
  BY WalkTells
<1>3. ChoiceSo(spec, w, s, Len(w.leaves))
  <2>1. List(w.leaves)
    BY <1>2 DEF WalkSo, LeavesSo
  <2> HIDE DEF w
  <2> QED
    BY <2>1, ChoiceTells
<1> HIDE DEF w, s, result
<1>4. ObservedOnce(spec, n, result.payloads) /\ PayloadsFit(result.payloads)
  BY <1>1, <1>2, <1>3, ObservationsTell
<1>5. RestAreIssues(spec, n, result.issues) /\ UnheardAreSilent(spec, n, result.issues)
  BY <1>1, <1>2, <1>3, RestTold, UnheardTold
<1>6. DeletesAreIssues(spec, n, result.issues)
  BY <1>1, DeletesTold
<1>7. OneMapping(spec, n)
  BY <1>2, OneMappingTold
<1> QED
  BY <1>4, <1>5, <1>6, <1>7 DEF result

-----------------------------------------------------------------------------
(* A note is of a specification that was accepted and of what may be said, *)
(* and what is told is the projection.                                     *)
Noted ==
    note = <<>> \/ \E spec \in Specifications, said \in Contents :
                      note = <<[spec |-> spec, said |-> said, told |-> Project(spec, said)]>>

(* Of such a note the property holds. *)
LEMMA NotedIsTold == Noted => NotificationIsTold
<1> SUFFICES ASSUME Noted, NEW x \in Range(note)
             PROVE  /\ OneMapping(x.spec, x.said)
                    /\ ObservedOnce(x.spec, x.said, x.told.payloads)
                    /\ PayloadsFit(x.told.payloads)
                    /\ RestAreIssues(x.spec, x.said, x.told.issues)
                    /\ UnheardAreSilent(x.spec, x.said, x.told.issues)
                    /\ DeletesAreIssues(x.spec, x.said, x.told.issues)
  BY DEF NotificationIsTold
<1>1. note # <<>>
  BY DEF Range
<1>2. PICK spec \in Specifications, said \in Contents :
         note = <<[spec |-> spec, said |-> said, told |-> Project(spec, said)]>>
  BY <1>1 DEF Noted
<1>3. x.spec = spec /\ x.said = said /\ x.told = Project(spec, said)
  BY <1>2 DEF Range
<1>4. WellMade(spec) /\ WellSaid(said)
  BY AcceptedIsWellMade, ContentsAreWellSaid
<1> QED
  BY <1>3, <1>4, ProjectTells

(* Of every notification, whatever accepted specification it is read by:   *)
(* one mapping at most has a say about a leaf; the last word on each is    *)
(* observed or an issue, once and never both; payloads keep to their       *)
(* limits; and what nobody hears is silent (project, collect_leaves and    *)
(* split_payloads of sources/gnmi/src/projection.rs).                      *)
THEOREM NotificationsAreTold == FlowSpec => []NotificationIsTold
<1>1. FlowInit => Noted
  BY DEF FlowInit, Noted
<1>2. Noted /\ [FlowNext]_flowVars => Noted'
  <2> SUFFICES ASSUME Noted, [FlowNext]_flowVars PROVE Noted'
    OBVIOUS
  <2>1. CASE Arrives
    BY <2>1 DEF Arrives, Noted
  <2>2. CASE Goes
    BY <2>2 DEF Goes, Noted
  <2>3. CASE UNCHANGED flowVars
    BY <2>3 DEF flowVars, Noted
  <2> QED
    BY <2>1, <2>2, <2>3 DEF FlowNext
<1> QED
  BY <1>1, <1>2, NotedIsTold, PTL DEF FlowSpec

(* A call with its first notification read is a call: what is proved of    *)
(* calls holds of it.                                                      *)
THEOREM FlowIsCall == FlowSpec => Spec
<1>1. FlowInit => Init
  BY DEF FlowInit
<1>2. [FlowNext]_flowVars => [Next]_vars
  <2> SUFFICES ASSUME [FlowNext]_flowVars PROVE [Next]_vars
    OBVIOUS
  <2>1. CASE Arrives
    <3>1. PICK c \in Messages : OnceUpdate(c) \/ StreamMessage(c)
      <4>1. PICK spec \in Specifications, said \in Contents :
               OnceUpdate(Class(Project(spec, said))) \/ StreamMessage(Class(Project(spec, said)))
        BY <2>1 DEF Arrives
      <4>2. Class(Project(spec, said)) \in Messages
        BY DEF Class, Messages, Notifications, Projects
      <4> QED
        BY <4>1, <4>2
    <3> QED
      BY <3>1 DEF Next
  <2>2. CASE Goes
    BY <2>2 DEF Goes
  <2>3. CASE UNCHANGED flowVars
    BY <2>3 DEF flowVars
  <2> QED
    BY <2>1, <2>2, <2>3 DEF FlowNext
<1> QED
  BY <1>1, <1>2, PTL DEF FlowSpec, Spec
=============================================================================
