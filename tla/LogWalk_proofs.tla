--------------------------- MODULE LogWalk_proofs ---------------------------
(***************************************************************************)
(* What module LogWalk promises of the entries a read ships, for every     *)
(* device, every size of log, page and budget and every number of entries. *)
(*                                                                         *)
(* IInv.  FitsIsWhole speaks of a walk about to ship.  Window says what    *)
(* the pages read leave unread, as long as the collection only grows at    *)
(* its end: a link leads on only where the log goes on, and a jump goes    *)
(* nowhere but to the budget's worth or the cursor's last index.  Visit    *)
(* says that a walk which neither met its cursor nor was stopped saw every *)
(* member of its window, and Judged that a missed jump is never what       *)
(* ships.                                                                  *)
(*                                                                         *)
(* Tells.  NoSilentLoss and PollAccounts speak of entries.  Numbered says  *)
(* that an id names one entry held, without gaps.  Segment and Listed say  *)
(* which ids a walk has to visit: of the entries asked for, an interval    *)
(* that leaves out only what arrived later or a jump passed over.  Seen    *)
(* says that a walk visits them in order and accounts for each.  Anchor,   *)
(* which shipping needs and restores, says that no entry below the         *)
(* cursor's member is unknown.  A filter leaves out what is stamped before *)
(* the cursor: Stamped says that it is known, since by Dated an entry      *)
(* nobody was told of is stamped no earlier than those before it, or Low,  *)
(* after the clock was set back.  Of the low ones a poll knows nothing if  *)
(* the service does not speak of its clock; they come after all that the   *)
(* filter keeps, so the cursor does not pass them either.                  *)
(*                                                                         *)
(* Once.  NoRepeat speaks of the records.  Behind says that what shipped   *)
(* and is held stands at or below the cursor's member, which is itself     *)
(* held as it was shipped.  Sided says that the order of a page of two     *)
(* members is read right, Ahead that the window reaches up to the cursor's *)
(* member or past it, and Closing that the visit records nothing that had  *)
(* shipped.  A device entered only at its start must reach the cursor's    *)
(* member within a budget's worth of what it is asked for, which a filter  *)
(* makes shorter: Reached counts from the cursor's own stamp, and Headed   *)
(* says that such a device goes on being asked by stamp while one that     *)
(* shipped is held.                                                        *)
(***************************************************************************)
EXTENDS LogWalk, SequenceTheorems, FiniteSetTheorems, NaturalsInduction, TLAPS

(* The walk of one collection, and the part of it after its pages. *)
Walking == {"paging", "visiting", "judging", "probing", "shipping"}
Walked == Walking \ {"paging"}

(* The fields of a pass. *)
Fields == {"pass", "late", "order", "count", "members", "link", "skips", "cursorSkip",
           "offset", "jumped", "incomplete", "todo", "visited", "stopped", "reached",
           "stalled", "refilled", "issues", "records", "newest", "first", "filtered",
           "listed", "present"}

(* Types. *)
Types ==
    /\ device \in Devices
    /\ log \in Seq(Entries)
    /\ written \in 0..MaxEntries /\ nextId \in 1..(written + 1) /\ clock \in 1..MaxClock
    /\ support = "advertised" => device.filter # "unadvertised"
    /\ raced \in Flags /\ pc \in PCs
    /\ pc = "asking" => support = "advertised"
    /\ pc \in Walking =>
         /\ Fields \subseteq DOMAIN walk
         /\ walk.count \in Nat /\ walk.offset \in Nat /\ walk.visited \in Nat
         /\ walk.first \in Seq(Serials) /\ walk.members \in Seq(Serials)
         /\ walk.todo \in Seq(Serials)
    /\ pc = "paging" =>
         /\ walk.filtered = "yes" => device.filter \in {"ignored", "honored"}
         /\ walk.link = <<>> \/ \E n \in Nat : walk.link = <<n>>
         /\ walk.skips \subseteq Nat
         /\ walk.skips # {} => \E k \in walk.skips : \A j \in walk.skips : k >= j

(* A jump, before and after it is made. *)
Jumps ==
    /\ walk.cursorSkip # {} => walk.pass = "jump"
    /\ walk.offset # 0 =>
         walk.count > Budget \/ (walk.jumped = "yes" /\ walk.cursorSkip # {})

(* The collection the pass reads: what the filter leaves of it, as it is now. *)
Asked == Base(walk.filtered)

(* The pages: where they start and where they lead. *)
Window ==
    raced = "no" /\ pc = "paging" =>
        /\ walk.link = <<>> \/ /\ walk.link = <<walk.offset + Len(walk.members)>>
                               /\ walk.offset + Len(walk.members) < Len(Asked)
        /\ walk.first # <<>> => Asked # <<>> /\ walk.first[1] = Asked[1].id
        /\ walk.skips # {} => walk.first # <<>> /\ walk.offset = 0
        /\ \A k \in walk.skips : walk.count > Budget \/ walk.cursorSkip = {k}
        /\ walk.incomplete = "no" /\ walk.visited = 0
        /\ walk.stopped = "no" /\ walk.reached = "no"
        /\ Jumps

(* The visit of the window's members. *)
Visit ==
    raced = "no" /\ pc \in Walked =>
        /\ Jumps
        /\ walk.incomplete = "yes" /\ device.links = "good" => Len(log) > Budget
        /\ pc = "visiting" =>
             /\ walk.stopped = "no" /\ walk.reached = "no"
             /\ walk.visited + Len(walk.todo) = Len(walk.members)
        /\ pc # "visiting" =>
             /\ walk.stopped \in {"no", "members", "time"}
             /\ walk.stopped = "no" => walk.reached = "yes" \/ walk.visited = Len(walk.members)
             /\ walk.stopped = "members" =>
                  walk.visited >= Budget /\ walk.visited < Len(walk.members)
             /\ walk.stopped = "time" => walk.late = "yes"

(* A jump that missed is never what ships. *)
Judged == pc \in {"probing", "shipping"} => ~MissedJump

(* The inductive invariant of the walk. *)
IInv == Types /\ Window /\ Visit /\ Judged
-----------------------------------------------------------------------------
(* No walk is under way at first. *)
LEMMA Initially == Init => IInv
  BY LogAssumption DEF Init, IInv, Types, Window, Visit, Judged, Walking, Walked, Flags, PCs,
     Entries

(* A function on 1..n is a sequence of length n. *)
LEMMA IsSeq ==
    ASSUME NEW S, NEW n \in Nat, NEW f \in [1..n -> S]
    PROVE  f \in Seq(S) /\ Len(f) = n
<1>1. f \in Seq(S)
  BY SeqDef
<1> QED
  BY <1>1

(* The collection is the log, in one order or the other. *)
LEMMA ListingIs ==
    ASSUME Types
    PROVE  Listing \in Seq(Entries) /\ Len(Listing) = Len(log)
<1>1. CASE device.order = "oldest"
  BY <1>1 DEF Listing, Types
<1>2. CASE device.order # "oldest"
  <2>1. Listing = [i \in 1..Len(log) |-> log[(Len(log) - i) + 1]]
    BY <1>2 DEF Listing, Reverse
  <2>2. \A i \in 1..Len(log) : log[(Len(log) - i) + 1] \in Entries
    BY DEF Types
  <2>3. Len(log) \in Nat
    BY DEF Types
  <2> QED
    BY <2>1, <2>2, <2>3, IsASeq
<1> QED
  BY <1>1, <1>2

-----------------------------------------------------------------------------
(***************************************************************************)
(* A filter by stamp.                                                      *)
(***************************************************************************)
Lowest(S) == CHOOSE x \in S : \A y \in S : x <= y

(* Numbers have a least. *)
LEMMA LowestOf ==
    ASSUME NEW S \in SUBSET Nat, S # {}
    PROVE  Lowest(S) \in S /\ \A y \in S : Lowest(S) <= y
<1>1. PICK x \in S : \A y \in S : ~(<<y, x>> \in OpToRel(<, Nat))
  BY WFMin, NatLessThanWellFounded
<1>2. \A y \in S : x <= y
  <2> TAKE y \in S
  <2>1. x \in Nat /\ y \in Nat
    OBVIOUS
  <2>2. CASE y < x
    <3>1. <<y, x>> \in OpToRel(<, Nat)
      BY <2>1, <2>2 DEF OpToRel
    <3> QED
      BY <3>1, <1>1
  <2> QED
    BY <2>1, <2>2
<1> QED
  BY <1>1, <1>2 DEF Lowest

(* Induction up to n, over a set. *)
LEMMA UpTo ==
    ASSUME NEW n \in Nat, NEW S, 0 \in S, \A k \in 0..(n - 1) : k \in S => k + 1 \in S
    PROVE  \A k \in 0..n : k \in S
<1> SUFFICES ASSUME (0..n) \ S # {} PROVE FALSE
  OBVIOUS
<1> DEFINE m == Lowest((0..n) \ S)
<1>1. m \in (0..n) \ S /\ \A y \in (0..n) \ S : m <= y
  BY LowestOf
<1> HIDE DEF m
<1>2. m - 1 \in 0..(n - 1) /\ ~(m <= m - 1)
  BY <1>1
<1>3. m - 1 \in S
  BY <1>1, <1>2
<1>4. (m - 1) + 1 \in S
  BY <1>2, <1>3
<1> QED
  BY <1>1, <1>4

(* Sifts: f holds, for every n, those of the first n that are stamped at or after a. *)
Sifted(s, a, f, n) == IF s[n].at >= a THEN Append(f[n - 1], s[n]) ELSE f[n - 1]
Sifts(s, a, f) == f[0] = <<>> /\ \A n \in 1..Len(s) : f[n] = Sifted(s, a, f, n)

(* There is a function that sifts: by induction over the length. *)
LEMMA SiftsExist ==
    ASSUME NEW s \in Seq(Entries), NEW a
    PROVE  \E f \in [0..Len(s) -> Seq(Entries)] : Sifts(s, a, f)
<1> DEFINE L == Len(s)
           T == Seq(Entries)
           Up(n, f) == f[0] = <<>> /\ \A k \in 1..n : f[k] = Sifted(s, a, f, k)
           S == {n \in 0..L : \E f \in [0..n -> T] : Up(n, f)}
<1>1. L \in Nat /\ \A i \in 1..L : s[i] \in Entries
  OBVIOUS
<1>2. 0 \in S
  <2>1. <<>> \in T
    OBVIOUS
  <2> DEFINE f == [k \in 0..0 |-> <<>>]
  <2>2. f \in [0..0 -> T] /\ f[0] = <<>>
    BY <2>1
  <2>3. \A k \in 1..0 : f[k] = Sifted(s, a, f, k)
    OBVIOUS
  <2>4. 0 \in 0..L
    BY <1>1
  <2> HIDE DEF f, T
  <2> QED
    BY <2>2, <2>3, <2>4
<1>3. ASSUME NEW n \in 0..(L - 1), n \in S PROVE n + 1 \in S
  <2>1. PICK f \in [0..n -> T] : Up(n, f)
    BY <1>3
  <2>2. n + 1 \in 0..L /\ n + 1 \in 1..L /\ n \in Nat
    BY <1>1
  <2> DEFINE next == IF s[n + 1].at >= a THEN Append(f[n], s[n + 1]) ELSE f[n]
             g == [k \in 0..(n + 1) |-> IF k <= n THEN f[k] ELSE next]
  <2>3. f[n] \in T /\ s[n + 1] \in Entries
    BY <1>1, <2>1, <2>2
  <2>4. next \in T
    <3>1. Append(f[n], s[n + 1]) \in T
      BY <2>3
    <3> QED
      BY <2>3, <3>1
  <2> HIDE DEF next
  <2>5. g \in [0..(n + 1) -> T]
    <3>1. ASSUME NEW k \in 0..(n + 1) PROVE (IF k <= n THEN f[k] ELSE next) \in T
      <4>1. k <= n => k \in 0..n
        BY <2>2
      <4> HIDE DEF T
      <4> QED
        BY <2>1, <2>4, <4>1
    <3> HIDE DEF T
    <3> QED
      BY <3>1
  <2>6. (\A k \in 0..n : g[k] = f[k]) /\ g[n + 1] = next
    BY <2>2
  <2> HIDE DEF g, T
  <2>7. g[0] = <<>>
    BY <2>1, <2>2, <2>6
  <2>8. ASSUME NEW k \in 1..(n + 1) PROVE g[k] = Sifted(s, a, g, k)
    <3>1. CASE k = n + 1
      BY <2>2, <2>6, <3>1 DEF Sifted, next
    <3>2. CASE k # n + 1
      <4>1. k \in 1..n /\ k \in 0..n /\ k - 1 \in 0..n
        BY <2>2, <3>2
      <4>2. f[k] = Sifted(s, a, f, k)
        BY <2>1, <4>1
      <4> QED
        BY <2>6, <4>1, <4>2 DEF Sifted
    <3> QED
      BY <3>1, <3>2
  <2> QED
    BY <2>2, <2>5, <2>7, <2>8
<1> HIDE DEF S
<1>4. \A k \in 0..L : k \in S
  BY <1>1, <1>2, <1>3, UpTo
<1>5. L \in S
  BY <1>1, <1>4
<1> QED
  BY <1>5 DEF S, Sifts

(* Since(s, a), as it is computed. *)
LEMMA SinceIs ==
    ASSUME NEW s \in Seq(Entries), NEW a
    PROVE  \E f \in [0..Len(s) -> Seq(Entries)] : Sifts(s, a, f) /\ Since(s, a) = f[Len(s)]
<1> DEFINE B(f) == [n \in 0..Len(s) |-> IF n = 0 THEN <<>>
                        ELSE IF s[n].at >= a THEN Append(f[n - 1], s[n]) ELSE f[n - 1]]
           c == CHOOSE f : f = B(f)
<1>1. PICK f \in [0..Len(s) -> Seq(Entries)] : Sifts(s, a, f)
  BY SiftsExist
<1>2. f = B(f)
  <2>1. ASSUME NEW n \in 0..Len(s) PROVE f[n] = B(f)[n]
    <3>1. CASE n = 0
      BY <1>1, <3>1 DEF Sifts
    <3>2. CASE n # 0
      <4>1. n \in 1..Len(s)
        BY <3>2
      <4> QED
        BY <1>1, <3>2, <4>1 DEF Sifts, Sifted
    <3> QED
      BY <3>1, <3>2
  <2> QED
    BY <1>1, <2>1
<1>3. c = B(c)
  BY <1>2
<1>4. Since(s, a) = c[Len(s)]
  BY DEF Since
<1> HIDE DEF c
<1>5. Len(s) \in Nat
  OBVIOUS
<1>6. DOMAIN c = 0..Len(s) /\ c[0] = <<>>
      /\ \A n \in 1..Len(s) : c[n] = Sifted(s, a, c, n)
  <2>1. \A n \in 1..Len(s) : n \in 0..Len(s) /\ n # 0
    BY <1>5
  <2>2. 0 \in 0..Len(s)
    BY <1>5
  <2> DEFINE D == B(c)
  <2>3. DOMAIN D = 0..Len(s) /\ D[0] = <<>>
    BY <2>2
  <2>4. \A n \in 1..Len(s) : D[n] = Sifted(s, a, c, n)
    BY <2>1 DEF Sifted
  <2>5. c = D
    BY <1>3
  <2> HIDE DEF D
  <2> QED
    BY <2>3, <2>4, <2>5
<1>7. \A n \in 0..Len(s) : c[n] \in Seq(Entries)
  <2> DEFINE S == {n \in 0..Len(s) : c[n] \in Seq(Entries)}
  <2>1. 0 \in S
    BY <1>5, <1>6
  <2>2. ASSUME NEW n \in 0..(Len(s) - 1), n \in S PROVE n + 1 \in S
    <3>1. n + 1 \in 1..Len(s) /\ n + 1 \in 0..Len(s) /\ (n + 1) - 1 = n
      BY <1>5
    <3>2. s[n + 1] \in Entries /\ c[n] \in Seq(Entries)
      BY <2>2, <3>1
    <3>3. Append(c[n], s[n + 1]) \in Seq(Entries)
      BY <3>2
    <3>4. c[n + 1] = IF s[n + 1].at >= a THEN Append(c[n], s[n + 1]) ELSE c[n]
      BY <1>6, <3>1 DEF Sifted
    <3> QED
      BY <3>1, <3>2, <3>3, <3>4
  <2> HIDE DEF S
  <2>3. \A k \in 0..Len(s) : k \in S
    BY <1>5, <2>1, <2>2, UpTo
  <2> QED
    BY <2>3 DEF S
<1>8. c = [n \in 0..Len(s) |-> c[n]]
  BY <1>3, <1>6
<1>9. c \in [0..Len(s) -> Seq(Entries)]
  BY <1>7, <1>8
<1> QED
  BY <1>4, <1>6, <1>9 DEF Sifts

(* Since(s, a) picks, in their order, the members of s stamped at or after a. *)
Picks(s, a, r, g) ==
    /\ \A k \in 1..Len(r) : r[k] = s[g[k]] /\ s[g[k]].at >= a /\ k <= g[k]
    /\ \A j, k \in 1..Len(r) : j < k => g[j] < g[k]

(* What Since leaves is picked, in order, from the sequence. *)
LEMMA SincePicks ==
    ASSUME NEW s \in Seq(Entries), NEW a
    PROVE  /\ Since(s, a) \in Seq(Entries) /\ Len(Since(s, a)) \in 0..Len(s)
           /\ \E g \in [1..Len(Since(s, a)) -> 1..Len(s)] :
                 /\ Picks(s, a, Since(s, a), g)
                 /\ \A i \in 1..Len(s) : s[i].at >= a => \E k \in 1..Len(Since(s, a)) : g[k] = i
<1> DEFINE L == Len(s)
           Gets(n, r, g) ==
               /\ Picks(s, a, r, g)
               /\ \A i \in 1..n : s[i].at >= a => \E k \in 1..Len(r) : g[k] = i
<1>1. PICK f \in [0..L -> Seq(Entries)] : Sifts(s, a, f) /\ Since(s, a) = f[L]
  BY SinceIs
<1> DEFINE S == {n \in 0..L : Len(f[n]) <= n /\ \E g \in [1..Len(f[n]) -> 1..n] : Gets(n, f[n], g)}
<1>2. L \in Nat /\ \A i \in 1..L : s[i] \in Entries
  OBVIOUS
<1>3. 0 \in S
  <2>1. f[0] = <<>> /\ 0 \in 0..L /\ Len(f[0]) = 0
    BY <1>1, <1>2 DEF Sifts
  <2>2. [k \in 1..0 |-> 0] \in [1..0 -> 1..0]
    OBVIOUS
  <2>3. Gets(0, f[0], [k \in 1..0 |-> 0])
    BY <2>1 DEF Picks
  <2> HIDE DEF Gets
  <2> QED
    BY <2>1, <2>2, <2>3
<1>4. ASSUME NEW n \in 0..(L - 1), n \in S PROVE n + 1 \in S
  <2>1. n + 1 \in 1..L /\ n + 1 \in 0..L /\ n \in 0..L /\ (n + 1) - 1 = n /\ n \in Nat
    BY <1>2
  <2>2. PICK g \in [1..Len(f[n]) -> 1..n] : Gets(n, f[n], g)
    BY <1>4
  <2>3. f[n] \in Seq(Entries) /\ Len(f[n]) \in Nat /\ Len(f[n]) <= n /\ s[n + 1] \in Entries
    <3>1. f[n] \in Seq(Entries)
      BY <1>1, <2>1
    <3>2. Len(f[n]) <= n
      BY <1>4
    <3> QED
      BY <1>2, <2>1, <3>1, <3>2
  <2>4. f[n + 1] = IF s[n + 1].at >= a THEN Append(f[n], s[n + 1]) ELSE f[n]
    BY <1>1, <2>1 DEF Sifts, Sifted
  <2>5. CASE ~(s[n + 1].at >= a)
    <3>1. f[n + 1] = f[n]
      BY <2>4, <2>5
    <3>2. g \in [1..Len(f[n]) -> 1..(n + 1)]
      BY <2>1, <2>2
    <3>3. \A i \in 1..(n + 1) : s[i].at >= a => i \in 1..n
      BY <2>1, <2>5
    <3>4. Gets(n + 1, f[n], g)
      BY <2>2, <3>3
    <3>5. Len(f[n]) <= n + 1
      BY <2>1, <2>3
    <3> HIDE DEF Gets
    <3> QED
      BY <2>1, <3>1, <3>2, <3>4, <3>5
  <2>6. CASE s[n + 1].at >= a
    <3> DEFINE m == Len(f[n])
               r == Append(f[n], s[n + 1])
               h == [k \in 1..(m + 1) |-> IF k = m + 1 THEN n + 1 ELSE g[k]]
    <3>1. f[n + 1] = r
      BY <2>4, <2>6
    <3>2. Len(r) = m + 1 /\ r[m + 1] = s[n + 1] /\ \A k \in 1..m : r[k] = f[n][k]
      BY <2>3
    <3>3. \A k \in 1..m : g[k] \in 1..n
      BY <2>2
    <3>4. m \in Nat /\ m <= n
      BY <2>3
    <3> HIDE DEF m
    <3>5. h \in [1..(m + 1) -> 1..(n + 1)]
      BY <2>1, <3>3, <3>4
    <3>6. h[m + 1] = n + 1 /\ \A k \in 1..m : h[k] = g[k] /\ k \in 1..(m + 1)
      BY <3>4
    <3>7. \A k \in 1..(m + 1) : k = m + 1 \/ k \in 1..m
      BY <3>4
    <3> HIDE DEF h, r
    <3>8. \A k \in 1..m : r[k] = s[h[k]] /\ s[h[k]].at >= a /\ k <= h[k]
      BY <2>2, <3>2, <3>6 DEF Picks, m
    <3>9. r[m + 1] = s[h[m + 1]] /\ s[h[m + 1]].at >= a /\ m + 1 <= h[m + 1]
      BY <2>1, <2>6, <3>2, <3>4, <3>6
    <3>10. \A j, k \in 1..(m + 1) : j < k => h[j] < h[k]
      <4> TAKE j, k \in 1..(m + 1)
      <4> HAVE j < k
      <4>1. j \in 1..m
        BY <3>4
      <4>2. CASE k = m + 1
        BY <2>1, <3>3, <3>6, <4>1, <4>2
      <4>3. CASE k \in 1..m
        BY <2>2, <3>6, <4>1, <4>3 DEF Picks, m
      <4> QED
        BY <3>7, <4>2, <4>3
    <3>11. \A i \in 1..(n + 1) : s[i].at >= a => \E k \in 1..(m + 1) : h[k] = i
      <4> TAKE i \in 1..(n + 1)
      <4> HAVE s[i].at >= a
      <4>1. CASE i = n + 1
        BY <3>4, <3>6, <4>1
      <4>2. CASE i # n + 1
        <5>1. i \in 1..n
          BY <2>1, <4>2
        <5>2. PICK k \in 1..m : g[k] = i
          BY <2>2, <5>1 DEF m
        <5> QED
          BY <3>6, <5>2
      <4> QED
        BY <4>1, <4>2
    <3>12. Picks(s, a, r, h)
      BY <3>2, <3>7, <3>8, <3>9, <3>10 DEF Picks
    <3>13. Gets(n + 1, r, h)
      BY <3>2, <3>11, <3>12
    <3>14. Len(r) <= n + 1
      BY <2>1, <3>2, <3>4
    <3> HIDE DEF Gets
    <3> QED
      BY <2>1, <3>1, <3>2, <3>5, <3>13, <3>14
  <2> QED
    BY <2>5, <2>6
<1> HIDE DEF S
<1>5. \A k \in 0..L : k \in S
  BY <1>2, <1>3, <1>4, UpTo
<1>6. L \in S /\ f[L] \in Seq(Entries)
  BY <1>1, <1>2, <1>5
<1>7. Len(f[L]) \in 0..L
  BY <1>2, <1>6 DEF S
<1> QED
  BY <1>1, <1>6, <1>7 DEF S

(* A member more. *)
LEMMA SinceGrows ==
    ASSUME NEW s \in Seq(Entries), NEW a, NEW e \in Entries
    PROVE  Since(Append(s, e), a) = IF e.at >= a THEN Append(Since(s, a), e) ELSE Since(s, a)
<1> DEFINE L == Len(s)
           t == Append(s, e)
<1>1. L \in Nat /\ t \in Seq(Entries) /\ Len(t) = L + 1 /\ t[L + 1] = e
      /\ \A i \in 1..L : t[i] = s[i]
  OBVIOUS
<1> HIDE DEF t
<1>2. PICK f \in [0..L -> Seq(Entries)] : Sifts(s, a, f) /\ Since(s, a) = f[L]
  BY SinceIs
<1>3. PICK h \in [0..(L + 1) -> Seq(Entries)] : Sifts(t, a, h) /\ Since(t, a) = h[L + 1]
  BY <1>1, SinceIs
<1> DEFINE S == {n \in 0..L : h[n] = f[n]}
<1>4. 0 \in S
  BY <1>1, <1>2, <1>3 DEF Sifts
<1>5. ASSUME NEW n \in 0..(L - 1), n \in S PROVE n + 1 \in S
  <2>1. n + 1 \in 1..L /\ n + 1 \in 0..L /\ n + 1 \in 1..(L + 1) /\ (n + 1) - 1 = n
    BY <1>1
  <2>2. h[n + 1] = Sifted(t, a, h, n + 1) /\ f[n + 1] = Sifted(s, a, f, n + 1)
    BY <1>1, <1>2, <1>3, <2>1 DEF Sifts
  <2>3. h[n] = f[n] /\ t[n + 1] = s[n + 1]
    BY <1>1, <1>5, <2>1
  <2> QED
    BY <2>1, <2>2, <2>3 DEF Sifted
<1> HIDE DEF S
<1>6. \A k \in 0..L : k \in S
  BY <1>1, <1>4, <1>5, UpTo
<1>7. h[L] = f[L]
  BY <1>1, <1>6 DEF S
<1>8. h[L + 1] = Sifted(t, a, h, L + 1)
  BY <1>1, <1>3 DEF Sifts
<1>9. (L + 1) - 1 = L
  BY <1>1
<1> QED
  BY <1>1, <1>2, <1>3, <1>7, <1>8, <1>9 DEF Sifted, t

(* The collection a pass reads is the listing, or picked from it. *)
LEMMA BaseIs ==
    ASSUME Types, NEW f
    PROVE  Base(f) \in Seq(Entries) /\ Len(Base(f)) \in 0..Len(log)
<1>1. Listing \in Seq(Entries) /\ Len(Listing) = Len(log) /\ Len(log) \in Nat
  BY ListingIs DEF Types
<1>2. CASE Base(f) = Listing
  BY <1>1, <1>2
<1>3. CASE Base(f) = Since(Listing, cursor[1].at)
  BY <1>1, <1>3, SincePicks
<1> QED
  BY <1>2, <1>3 DEF Base, Matching

(* A member more at its end, or none. *)
LEMMA BaseGrows ==
    ASSUME Types, device.order = "oldest", NEW e \in Entries, log' = Append(log, e),
           UNCHANGED <<device, cursor>>, NEW f
    PROVE  Base(f)' = IF f = "yes" /\ device.filter # "ignored" /\ ~(e.at >= cursor[1].at)
                      THEN Base(f) ELSE Append(Base(f), e)
<1>1. Listing = log /\ Listing' = Append(log, e) /\ log \in Seq(Entries)
  BY DEF Listing, Types
<1>2. Since(Append(log, e), cursor[1].at) =
        IF e.at >= cursor[1].at THEN Append(Since(log, cursor[1].at), e)
        ELSE Since(log, cursor[1].at)
  BY <1>1, SinceGrows
<1> QED
  BY <1>1, <1>2 DEF Base, Matching

(* A page, and the link it carries. *)
LEMMA PageIs ==
    ASSUME NEW b \in Seq(Entries), NEW from \in Nat
    PROVE  /\ PageAt(b, from) \in Seq(Serials)
           /\ Len(PageAt(b, from)) = Most(0, Least(PageSize, Len(b) - from))
           /\ PageAt(b, from) # <<>> => from < Len(b) /\ PageAt(b, from)[1] = b[from + 1].id
           /\ \A k \in 1..Len(PageAt(b, from)) :
                 from + k <= Len(b) /\ PageAt(b, from)[k] = b[from + k].id
           /\ from + PageSize < Len(b) => Len(PageAt(b, from)) = PageSize
           /\ LinkAt(b, from) = <<>> => from + Len(PageAt(b, from)) >= Len(b)
           /\ LinkAt(b, from) = <<>> \/ /\ from + PageSize < Len(b)
                                        /\ LinkAt(b, from) = <<from + PageSize>>
<1> DEFINE n == Most(0, Least(PageSize, Len(b) - from))
<1>1. PageSize \in Nat \ {0} /\ Len(b) \in Nat
  BY LogAssumption
<1>2. /\ n \in Nat /\ n <= PageSize
      /\ n > 0 => from + n <= Len(b)
      /\ from + PageSize < Len(b) => n = PageSize
      /\ ~(from + PageSize < Len(b)) => from + n >= Len(b)
  BY <1>1 DEF Most, Least
<1> HIDE DEF n
<1>3. \A i \in 1..n : from + i \in 1..Len(b)
  BY <1>1, <1>2
<1>4. \A i \in 1..n : b[from + i].id \in Serials
  <2>1. \A i \in 1..Len(b) : b[i] \in Entries
    BY <1>1
  <2> QED
    BY <1>3, <2>1 DEF Entries
<1>5. PageAt(b, from) = [i \in 1..n |-> b[from + i].id]
  BY DEF PageAt, n
<1>6. PageAt(b, from) \in Seq(Serials) /\ Len(PageAt(b, from)) = n
  <2>1. [i \in 1..n |-> b[from + i].id] \in [1..n -> Serials]
    BY <1>4
  <2> QED
    BY <1>2, <1>5, <2>1, IsSeq
<1>7. PageAt(b, from) # <<>> => n > 0
  BY <1>2, <1>6
<1>8. n > 0 => PageAt(b, from)[1] = b[from + 1].id
  BY <1>2, <1>5
<1>9. /\ LinkAt(b, from) = <<>> \/ /\ from + PageSize < Len(b)
                                    /\ LinkAt(b, from) = <<from + PageSize>>
      /\ LinkAt(b, from) = <<>> => ~(from + PageSize < Len(b))
  BY DEF LinkAt
<1>10. \A k \in 1..n : from + k <= Len(b) /\ PageAt(b, from)[k] = b[from + k].id
  BY <1>1, <1>3, <1>5
<1> QED
  BY <1>1, <1>2, <1>6, <1>7, <1>8, <1>9, <1>10 DEF n
-----------------------------------------------------------------------------
(* The device's own steps. *)

(* An arrival shifts no page, or the walk is called raced. *)
LEMMA WriteStep == IInv /\ Write => IInv'
<1> SUFFICES ASSUME IInv, Write PROVE IInv'
  OBVIOUS
<1> DEFINE entry == [serial |-> written + 1, id |-> nextId, at |-> clock]
           kept == IF Len(log) = LogSize THEN Tail(log) ELSE log
<1>1. entry \in Entries
  BY LogAssumption DEF Write, IInv, Types, Entries, Serials
<1>2. log \in Seq(Entries) /\ LogSize \in Nat \ {0} /\ Len(log) \in Nat
  BY LogAssumption DEF IInv, Types
<1>3. kept \in Seq(Entries) /\ Len(kept) + 1 >= Len(log)
  <2>1. CASE Len(log) = LogSize
    <3>1. log # <<>>
      BY <1>2, <2>1
    <3> QED
      BY <1>2, <2>1, <3>1, HeadTailProperties
  <2>2. CASE Len(log) # LogSize
    BY <1>2, <2>2
  <2> QED
    BY <2>1, <2>2
<1>4. log' = Append(kept, entry)
  BY DEF Write
<1> HIDE DEF entry, kept
<1>5. log' \in Seq(Entries) /\ Len(log') >= Len(log)
  <2>1. Append(kept, entry) \in Seq(Entries) /\ Len(Append(kept, entry)) = Len(kept) + 1
    BY <1>1, <1>3, AppendProperties
  <2> QED
    BY <1>2, <1>3, <1>4, <2>1
<1>6. /\ UNCHANGED <<device, clock, cursor, support, pc, walk>>
      /\ written' = written + 1 /\ nextId' = nextId + 1 /\ written < MaxEntries
      /\ raced' \in Flags /\ (raced' = "no" => raced = "no")
  BY DEF Write, read, IInv, Types, Flags
<1>7. Types'
  BY <1>5, <1>6, LogAssumption DEF IInv, Types
<1>8. Window'
  <2> SUFFICES ASSUME raced' = "no", pc = "paging" PROVE Window'
    BY <1>6 DEF Window
  <2>1. device.order = "oldest" /\ Len(log) # LogSize
    <3>1. device.order \in {"oldest", "newest"}
      BY LogAssumption DEF IInv, Types, DeviceTypes
    <3> QED
      BY <3>1 DEF Write, Shifts
  <2>2. log' = Append(log, entry)
    BY <1>4, <2>1 DEF kept
  <2>3. Asked \in Seq(Entries) /\ (Asked' = Asked \/ Asked' = Append(Asked, entry))
    <3>1. walk' = walk /\ Asked = Base(walk.filtered) /\ Asked' = Base(walk.filtered)'
      BY <1>6 DEF Asked
    <3>2. Base(walk.filtered)' = Base(walk.filtered)
          \/ Base(walk.filtered)' = Append(Base(walk.filtered), entry)
      BY <1>1, <1>6, <2>1, <2>2, BaseGrows DEF IInv
    <3>3. Base(walk.filtered) \in Seq(Entries)
      BY BaseIs DEF IInv
    <3> QED
      BY <3>1, <3>2, <3>3
  <2>4. /\ Asked # <<>> => Asked' # <<>> /\ Asked'[1] = Asked[1]
        /\ Len(Asked') >= Len(Asked) /\ Len(Asked) \in Nat /\ Len(Asked') \in Nat
    <3>1. CASE Asked' = Asked
      BY <2>3, <3>1
    <3>2. CASE Asked' = Append(Asked, entry)
      BY <1>1, <2>3, <3>2
    <3> QED
      BY <2>3, <3>1, <3>2
  <2>5. walk.offset + Len(walk.members) \in Nat
    BY DEF IInv, Types, Walking
  <2>6. \/ walk.link = <<>>
        \/ /\ walk.link = <<walk.offset + Len(walk.members)>>
           /\ walk.offset + Len(walk.members) < Len(Asked')
    BY <1>6, <2>4, <2>5 DEF IInv, Window
  <2>7. walk.first # <<>> => Asked' # <<>> /\ walk.first[1] = Asked'[1].id
    BY <1>6, <2>4 DEF IInv, Window
  <2> QED
    BY <1>6, <2>6, <2>7 DEF IInv, Window, Jumps
<1>9. Visit'
  BY <1>2, <1>5, <1>6, LogAssumption DEF IInv, Visit, Jumps
<1>10. Judged'
  BY <1>6 DEF IInv, Judged, MissedJump
<1> QED
  BY <1>7, <1>8, <1>9, <1>10 DEF IInv

(* The clock moves or the log is cleared. *)
LEMMA ClockSteps == IInv /\ (Clear \/ Tick \/ SetBack) => IInv'
<1> SUFFICES ASSUME IInv, Clear \/ Tick \/ SetBack PROVE IInv'
  OBVIOUS
<1>1. /\ UNCHANGED <<device, written, cursor, support, pc, walk>>
      /\ clock' \in 1..MaxClock /\ nextId' \in 1..(written + 1)
      /\ log' = log \/ (log' = <<>> /\ (pc # "idle" => raced' = "yes"))
      /\ raced' \in Flags /\ (raced' = "no" => raced = "no")
  <2>1. clock \in 1..MaxClock /\ MaxClock \in Nat /\ raced \in Flags
    BY LogAssumption DEF IInv, Types
  <2>2. nextId \in 1..(written + 1) /\ written \in Nat
    BY LogAssumption DEF IInv, Types
  <2>3. CASE Clear
    BY <2>1, <2>2, <2>3 DEF Clear, Race, read, Flags
  <2>4. CASE Tick
    BY <2>1, <2>2, <2>4 DEF Tick, read, Flags
  <2>5. CASE SetBack
    BY <2>1, <2>2, <2>5 DEF SetBack, Race, read, Flags
  <2> QED
    BY <2>3, <2>4, <2>5
<1>2. Types'
  <2>1. log \in Seq(Entries) /\ <<>> \in Seq(Entries)
    BY DEF IInv, Types
  <2>2. log' \in Seq(Entries)
    BY <1>1, <2>1
  <2> QED
    BY <1>1, <2>2 DEF IInv, Types
<1>3. log' = log \/ pc = "idle" \/ raced' = "yes"
  BY <1>1
<1>4. Window' /\ Visit'
  <2>1. log' = log => Asked' = Asked
    BY <1>1 DEF Asked, Base, Matching, Listing
  <2> QED
    BY <1>1, <1>3, <2>1 DEF IInv, Window, Visit, Jumps, Walked, Walking
<1>5. Judged'
  BY <1>1 DEF IInv, Judged, MissedJump
<1> QED
  BY <1>2, <1>4, <1>5 DEF IInv
-----------------------------------------------------------------------------
(* The poll: its pages. *)

(* A pass as its first page leaves it. *)
LEMMA PassOpens ==
    ASSUME IInv, NEW f, f = "yes" => device.filter \in {"ignored", "honored"},
           walk' = Pass(f), pc' = "paging", UNCHANGED <<world, read, history>>
    PROVE  IInv'
<1> DEFINE base == Base(f)
           first == PageAt(base, 0)
           link == LinkAt(base, 0)
           count == IF link # <<>> /\ device.counts = "yes" THEN Len(base) ELSE 0
           byCursor == walk'.cursorSkip
<1>1. base \in Seq(Entries) /\ Len(base) \in Nat
  BY BaseIs DEF IInv, Types
<1>2. /\ first \in Seq(Serials)
      /\ Len(first) = Most(0, Least(PageSize, Len(base)))
      /\ first # <<>> => 0 < Len(base) /\ first[1] = base[1].id
      /\ link = <<>> \/ (/\ PageSize < Len(base)
                       /\ link = <<PageSize>> /\ Len(first) = PageSize)
  <2>1. /\ first \in Seq(Serials)
        /\ Len(first) = Most(0, Least(PageSize, Len(base) - 0))
        /\ first # <<>> => 0 < Len(base) /\ first[1] = base[0 + 1].id
        /\ 0 + PageSize < Len(base) => Len(first) = PageSize
        /\ link = <<>> \/ (0 + PageSize < Len(base) /\ link = <<0 + PageSize>>)
    BY <1>1, PageIs
  <2>2. PageSize \in Nat /\ Len(base) \in Nat
    BY <1>1, LogAssumption
  <2> QED
    BY <2>1, <2>2
<1>3. /\ walk'.count = count /\ walk'.first = first /\ walk'.members = first
      /\ walk'.link = link /\ walk'.offset = 0 /\ walk'.visited = 0 /\ walk'.todo = <<>>
      /\ walk'.filtered = f /\ walk'.pass = walk.pass
      /\ walk'.incomplete = "no" /\ walk'.stopped = "no" /\ walk'.reached = "no"
      /\ Fields \subseteq DOMAIN walk'
  BY DEF Pass, Fields
<1>4. /\ byCursor \subseteq CursorSkip(first, count)
      /\ byCursor # {} => walk'.pass = "jump"
      /\ walk'.skips = {} \/ (link # <<>> /\ walk'.skips = BudgetSkip(count) \cup byCursor)
  BY DEF Pass
<1> HIDE DEF base, first, link, byCursor
<1>5. count \in Nat
  BY <1>1 DEF count
<1> HIDE DEF count
<1>6. byCursor = {} \/ \E k \in Nat : byCursor = {k}
  <2>1. CASE byCursor # {}
    <3>1. CursorSkip(first, count) = {cursor[1].count - 1}
          /\ cursor[1].count - 1 \in Len(first)..(count - 1)
      BY <1>4, <2>1 DEF CursorSkip
    <3>2. cursor[1].count - 1 \in Nat
      BY <1>2, <1>5, <3>1
    <3> QED
      BY <1>4, <2>1, <3>1, <3>2
  <2> QED
    BY <2>1
<1>7. BudgetSkip(count) = {} \/ (count > Budget /\ \E k \in Nat : BudgetSkip(count) = {k})
  BY <1>5, LogAssumption DEF BudgetSkip
<1>8. /\ walk'.skips \subseteq Nat
      /\ walk'.skips # {} => \E k \in walk'.skips : \A j \in walk'.skips : k >= j
      /\ \A k \in walk'.skips : count > Budget \/ byCursor = {k}
  <2> SUFFICES ASSUME walk'.skips = BudgetSkip(count) \cup byCursor PROVE <1>8
    BY <1>4
  <2>1. CASE BudgetSkip(count) = {} \/ byCursor = {}
    BY <1>6, <1>7, <2>1
  <2>2. CASE BudgetSkip(count) # {} /\ byCursor # {}
    <3>1. PICK k \in Nat, j \in Nat : BudgetSkip(count) = {k} /\ byCursor = {j}
      BY <1>6, <1>7, <2>2
    <3>2. walk'.skips = {k, j} /\ count > Budget
      BY <1>7, <2>2, <3>1
    <3> QED
      BY <3>1, <3>2
  <2> QED
    BY <2>1, <2>2
<1>9. UNCHANGED <<device, log, nextId, written, clock, cursor, support, raced>>
  BY DEF world, read, history
<1>10. Types'
  BY <1>2, <1>3, <1>5, <1>8, <1>9 DEF IInv, Types, PCs, count, link, Flags
<1>11. Window'
  <2>1. Asked' = base
    <3>1. Base(f)' = Base(f)
      BY <1>9 DEF Base, Matching, Listing
    <3> QED
      BY <1>3, <3>1 DEF Asked, base
  <2>2. walk'.skips # {} => walk'.first # <<>>
    BY <1>2, <1>3, <1>4, LogAssumption
  <2>3. link = <<>> \/ (link = <<0 + Len(first)>> /\ 0 + Len(first) < Len(base))
    BY <1>1, <1>2, LogAssumption
  <2>4. first # <<>> => base # <<>> /\ first[1] = base[1].id
    BY <1>1, <1>2
  <2> QED
    BY <1>3, <1>4, <1>8, <1>9, <2>1, <2>2, <2>3, <2>4 DEF Window, Jumps, byCursor
<1> QED
  BY <1>10, <1>11 DEF IInv, Visit, Judged, Walked, Walking

(* A poll begins with no walk. *)
LEMMA BeginStep == IInv /\ Begin => IInv'
<1> SUFFICES ASSUME IInv, Begin PROVE IInv'
  OBVIOUS
<1>1. /\ pc' = "opening"
      /\ UNCHANGED <<device, log, nextId, written, clock, raced>>
      /\ support' = "advertised" => support = "advertised" \/ device.filter # "unadvertised"
  BY DEF Begin, world
<1> QED
  BY <1>1 DEF IInv, Types, Window, Visit, Judged, Walked, Walking, PCs

(* Steps that leave no walk under way. *)
LEMMA IdleSteps ==
    ASSUME IInv, pc' \in {"idle", "heading"} \/ (pc' = "asking" /\ support' = "advertised"),
           UNCHANGED <<world>>, support' \in {support, "absent"},
           raced' \in Flags
    PROVE  IInv'
  BY DEF world, IInv, Types, Window, Visit, Judged, Walked, Walking, PCs

(* The service is read, the collection opened, or the poll fails. *)
LEMMA OpenSteps ==
    IInv /\ (ReadService \/ AskFilter \/ OpenHead \/ Fail) => IInv'
<1> SUFFICES ASSUME IInv, ReadService \/ AskFilter \/ OpenHead \/ Fail PROVE IInv'
  OBVIOUS
<1>1. CASE ReadService \/ Fail
  BY <1>1, IdleSteps DEF ReadService, Fail, read, history, IInv, Types
<1>2. CASE AskFilter
  <2>1. CASE pc' = "heading"
    BY <1>2, <2>1, IdleSteps DEF AskFilter, read, history, IInv, Types
  <2>2. CASE device.filter # "refused" /\ walk' = Pass("yes") /\ pc' = "paging"
    <3>1. device.filter \in {"unadvertised", "honored", "ignored", "refused"}
      BY LogAssumption DEF IInv, Types, DeviceTypes
    <3>2. device.filter \in {"ignored", "honored"}
      BY <1>2, <2>2, <3>1 DEF AskFilter, IInv, Types
    <3> QED
      BY <1>2, <2>2, <3>2, PassOpens DEF AskFilter
  <2> QED
    BY <1>2, <2>1, <2>2 DEF AskFilter
<1>3. CASE OpenHead
  BY <1>3, PassOpens DEF OpenHead
<1> QED
  BY <1>1, <1>2, <1>3

(* The greatest of a set that has one is a member of it. *)
LEMMA MaxIs ==
    ASSUME NEW S \in SUBSET Nat, \E k \in S : \A j \in S : k >= j
    PROVE  Max(S) \in S
  BY DEF Max

(* A jump lands where it was meant to, or the first page stays. *)
LEMMA SkipStep == IInv /\ Skip => IInv'
<1> SUFFICES ASSUME IInv, Skip PROVE IInv'
  OBVIOUS
<1> DEFINE base == Asked
           skip == Max(walk.skips)
           from == IF device.skip = "ignored" THEN 0 ELSE skip
           tail == PageAt(base, from)
           honored == /\ device.skip # "refused" /\ tail # <<>>
                      /\ walk.first # <<>> => tail[1] # walk.first[1]
           jumped == IF walk.cursorSkip = {skip} THEN "yes" ELSE "no"
<1>1. pc = "paging" /\ walk.skips # {} /\ pc' = pc
  BY DEF Skip
<1>2. skip \in walk.skips /\ skip \in Nat /\ from \in Nat
  BY <1>1, MaxIs DEF IInv, Types
<1>3. Base(walk.filtered) = base /\ base \in Seq(Entries) /\ Len(base) \in Nat
  BY BaseIs DEF IInv, Types, Asked
<1>4. walk' = IF honored
              THEN [walk EXCEPT !.skips = {}, !.members = tail, !.offset = skip,
                                !.link = LinkAt(base, from), !.jumped = jumped]
              ELSE [walk EXCEPT !.skips = {}]
  BY <1>3 DEF Skip
<1>5. /\ tail \in Seq(Serials)
      /\ tail # <<>> => from < Len(base) /\ tail[1] = base[from + 1].id
      /\ from + PageSize < Len(base) => Len(tail) = PageSize
      /\ LinkAt(base, from) = <<>> \/ (/\ from + PageSize < Len(base)
                                          /\ LinkAt(base, from) = <<from + PageSize>>)
  BY <1>2, <1>3, PageIs, LogAssumption DEF Most, Least
<1>6. Fields \subseteq DOMAIN walk
  BY <1>1 DEF IInv, Types, Walking
<1>7. UNCHANGED <<device, log, nextId, written, clock, cursor, support, raced, pc>>
  BY DEF Skip, world, read, history
<1> HIDE DEF base, skip, from, tail
<1>8. base = Asked
  BY DEF base
<1>9. CASE honored
  <2>1. /\ walk'.skips = {} /\ walk'.members = tail /\ walk'.offset = skip
        /\ walk'.link = LinkAt(base, from) /\ walk'.jumped = jumped
        /\ \A f \in {"pass", "count", "cursorSkip", "incomplete", "visited", "stopped",
                     "reached", "first", "filtered", "todo"} : walk'[f] = walk[f]
        /\ Fields \subseteq DOMAIN walk'
    BY <1>4, <1>6, <1>9 DEF Fields
  <2>2. Types'
    <3>1. walk'.link = <<>> \/ \E n \in Nat : walk'.link = <<n>>
      BY <1>2, <1>5, <2>1, LogAssumption
    <3>2. /\ walk'.count = walk.count /\ walk'.visited = walk.visited
          /\ walk'.first = walk.first /\ walk'.todo = walk.todo
          /\ walk'.filtered = walk.filtered
      BY <2>1
    <3> QED
      BY <1>1, <1>2, <1>5, <1>7, <2>1, <3>1, <3>2 DEF IInv, Types, Walking
  <2>3. Window'
    <3> SUFFICES ASSUME raced = "no" PROVE Window'
      BY <1>7 DEF Window
    <3>1. walk.first # <<>> /\ base # <<>> /\ walk.first[1] = base[1].id
      BY <1>8, <1>1 DEF IInv, Window
    <3>2. from = skip
      BY <1>5, <1>9, <3>1 DEF from
    <3>3. \/ walk'.link = <<>>
          \/ /\ walk'.link = <<walk'.offset + Len(walk'.members)>>
             /\ walk'.offset + Len(walk'.members) < Len(base)
      BY <1>3, <1>5, <1>7, <2>1, <3>2
    <3>4. walk.count > Budget \/ walk.cursorSkip = {skip}
      BY <1>1, <1>2 DEF IInv, Window
    <3>5. Jumps'
      BY <1>1, <2>1, <3>4 DEF IInv, Window, Jumps
    <3>6. Asked' = base
      BY <1>8, <1>7, <2>1 DEF Asked, Base, Matching, Listing
    <3> QED
      BY <1>8, <1>1, <1>7, <2>1, <3>3, <3>5, <3>6 DEF IInv, Window
  <2> QED
    BY <1>1, <1>7, <2>2, <2>3 DEF IInv, Visit, Judged, Walked
<1>10. CASE ~honored
  <2>1. /\ walk'.skips = {} /\ DOMAIN walk' = DOMAIN walk
        /\ \A f \in Fields \ {"skips"} : walk'[f] = walk[f]
    BY <1>4, <1>6, <1>10 DEF Fields
  <2>2. \A f \in {"pass", "count", "cursorSkip", "incomplete", "visited", "stopped",
                  "reached", "first", "filtered", "todo", "members", "offset", "link",
                  "jumped"} : walk'[f] = walk[f]
    BY <2>1 DEF Fields
  <2>3. Types'
    BY <1>1, <1>6, <1>7, <2>1, <2>2 DEF IInv, Types, Walking
  <2>4. Asked' = base
    BY <1>8, <1>7, <2>2 DEF Asked, Base, Matching, Listing
  <2>5. Window'
    BY <1>8, <1>1, <1>7, <2>1, <2>2, <2>4 DEF IInv, Window, Jumps
  <2> QED
    BY <1>1, <1>7, <2>3, <2>5 DEF IInv, Visit, Judged, Walked
<1> QED
  BY <1>9, <1>10

(* A link leads to a page with members, right behind those already read. *)
LEMMA FollowLinkStep == IInv /\ FollowLink => IInv'
<1> SUFFICES ASSUME IInv, FollowLink PROVE IInv'
  OBVIOUS
<1>1. pc = "paging" /\ pc' = "paging" /\ walk.skips = {} /\ walk.link # <<>>
  BY DEF FollowLink
<1>2. PICK n \in Nat : walk.link = <<n>>
  BY <1>1 DEF IInv, Types
<1> DEFINE base == Asked
           page == PageAt(base, n)
<1>3. Base(walk.filtered) = base /\ base \in Seq(Entries) /\ Len(base) \in Nat
  BY BaseIs DEF IInv, Types, Asked
<1>4. walk' = IF page = <<>> THEN [walk EXCEPT !.link = <<>>, !.incomplete = "yes"]
              ELSE [walk EXCEPT !.members = walk.members \o page, !.link = LinkAt(base, n)]
  BY <1>2, <1>3 DEF FollowLink
<1>5. /\ page \in Seq(Serials) /\ Len(page) = Most(0, Least(PageSize, Len(base) - n))
      /\ n + PageSize < Len(base) => Len(page) = PageSize
      /\ LinkAt(base, n) = <<>> \/ (/\ n + PageSize < Len(base)
                                       /\ LinkAt(base, n) = <<n + PageSize>>)
  BY <1>2, <1>3, PageIs
<1>6. Fields \subseteq DOMAIN walk
  BY <1>1 DEF IInv, Types, Walking
<1>7. UNCHANGED <<device, log, nextId, written, clock, cursor, support, raced, pc>>
  BY DEF FollowLink, world, read, history
<1>8. walk.members \in Seq(Serials)
  BY <1>1 DEF IInv, Types, Walking
<1> HIDE DEF base, page
<1>9. base = Asked
  BY DEF base
<1>10. /\ walk.members \o page \in Seq(Serials)
       /\ Len(walk.members \o page) = Len(walk.members) + Len(page)
  BY <1>5, <1>8, ConcatProperties
<1>11. /\ \A f \in Fields \ {"members", "link", "incomplete"} : walk'[f] = walk[f]
       /\ DOMAIN walk' = DOMAIN walk
       /\ page = <<>> => /\ walk'.members = walk.members /\ walk'.link = <<>>
       /\ page # <<>> => /\ walk'.members = walk.members \o page
                         /\ walk'.link = LinkAt(base, n)
                         /\ walk'.incomplete = walk.incomplete
  BY <1>4, <1>6 DEF Fields
<1>12. \A f \in {"pass", "count", "cursorSkip", "visited", "stopped", "reached", "first",
                 "filtered", "todo", "offset", "skips", "jumped"} : walk'[f] = walk[f]
  BY <1>11 DEF Fields
<1>13. Types'
  <2>1. walk'.link = <<>> \/ \E m \in Nat : walk'.link = <<m>>
    BY <1>2, <1>5, <1>11, LogAssumption
  <2>2. walk'.members \in Seq(Serials)
    BY <1>8, <1>10, <1>11
  <2>3. /\ walk'.count = walk.count /\ walk'.visited = walk.visited
        /\ walk'.first = walk.first /\ walk'.todo = walk.todo
        /\ walk'.filtered = walk.filtered /\ walk'.offset = walk.offset
        /\ walk'.skips = walk.skips
    BY <1>12
  <2> QED
    BY <1>1, <1>6, <1>7, <1>11, <2>1, <2>2, <2>3 DEF IInv, Types, Walking
<1>14. Window'
  <2> SUFFICES ASSUME raced = "no" PROVE Window'
    BY <1>7 DEF Window
  <2>1. n = walk.offset + Len(walk.members) /\ n < Len(base)
    BY <1>9, <1>1, <1>2 DEF IInv, Window
  <2>2. PageSize \in Nat \ {0} /\ Len(base) \in Nat /\ walk.offset \in Nat
    BY <1>1, <1>3, LogAssumption DEF IInv, Types, Walking
  <2>3. Len(page) > 0
    BY <1>2, <1>3, <1>5, <2>1, <2>2 DEF Most, Least
  <2>4. page # <<>>
    BY <2>3
  <2>5. \/ walk'.link = <<>>
        \/ /\ walk'.link = <<walk.offset + Len(walk'.members)>>
           /\ walk.offset + Len(walk'.members) < Len(base)
    <3>1. /\ walk'.link = LinkAt(base, n)
          /\ Len(walk'.members) = Len(walk.members) + Len(page)
      BY <1>10, <1>11, <2>4
    <3>2. CASE n + PageSize < Len(base) /\ LinkAt(base, n) = <<n + PageSize>>
      <4>1. Len(page) = PageSize /\ Len(walk.members) \in Nat
        BY <1>5, <1>8, <3>2
      <4>2. n + PageSize = walk.offset + Len(walk'.members)
        BY <2>1, <2>2, <3>1, <4>1
      <4> QED
        BY <1>3, <3>1, <3>2, <4>2
    <3> QED
      BY <1>5, <3>1, <3>2
  <2>6. Asked' = base
    BY <1>9, <1>7, <1>12 DEF Asked, Base, Matching, Listing
  <2> QED
    BY <1>9, <1>1, <1>7, <1>11, <1>12, <2>4, <2>5, <2>6 DEF IInv, Window, Jumps
<1> QED
  BY <1>1, <1>7, <1>13, <1>14 DEF IInv, Visit, Judged, Walked

(* A link that is left behind leads past a budget's worth. *)
LEMMA PagesOverStep == IInv /\ PagesOver => IInv'
<1> SUFFICES ASSUME IInv, PagesOver PROVE IInv'
  OBVIOUS
<1>1. /\ pc = "paging" /\ pc' = "visiting"
      /\ UNCHANGED <<device, log, nextId, written, clock, support, raced>>
      /\ walk.link # <<>> => Len(walk.members) >= Budget \/ device.links = "broken"
  BY DEF PagesOver, world, read, history
<1>2. Fields \subseteq DOMAIN walk /\ walk.members \in Seq(Serials)
  BY <1>1 DEF IInv, Types, Walking
<1>3. /\ walk'.todo = IF walk.order = "oldest" THEN Reverse(walk.members) ELSE walk.members
      /\ walk'.incomplete = IF walk.link # <<>> THEN "yes" ELSE walk.incomplete
      /\ \A f \in Fields \ {"todo", "incomplete"} : walk'[f] = walk[f]
      /\ DOMAIN walk' = DOMAIN walk
  BY <1>2 DEF PagesOver, Fields
<1>4. \A f \in {"pass", "count", "cursorSkip", "visited", "stopped", "reached", "first",
                "offset", "members", "jumped"} : walk'[f] = walk[f]
  BY <1>3 DEF Fields
<1>5. walk'.todo \in Seq(Serials) /\ Len(walk'.todo) = Len(walk.members)
  <2>1. CASE walk.order = "oldest"
    <3>1. walk'.todo = [i \in 1..Len(walk.members) |->
                           walk.members[(Len(walk.members) - i) + 1]]
      BY <1>3, <2>1 DEF Reverse
    <3>2. walk'.todo \in [1..Len(walk.members) -> Serials]
      BY <1>2, <3>1
    <3> QED
      BY <1>2, <3>2, IsSeq
  <2>2. CASE walk.order # "oldest"
    BY <1>2, <1>3, <2>2
  <2> QED
    BY <2>1, <2>2
<1>6. Types'
  <2>1. /\ walk'.count = walk.count /\ walk'.visited = walk.visited
        /\ walk'.first = walk.first /\ walk'.offset = walk.offset
        /\ walk'.members = walk.members
    BY <1>4
  <2> QED
    BY <1>1, <1>2, <1>3, <1>5, <2>1 DEF IInv, Types, Walking, PCs
<1>7. Visit'
  <2> SUFFICES ASSUME raced = "no" PROVE Visit'
    BY <1>1 DEF Visit
  <2>1. walk'.incomplete = "yes" /\ device.links = "good" => Len(log) > Budget
    <3> SUFFICES ASSUME walk.link # <<>>, device.links = "good" PROVE Len(log) > Budget
      BY <1>1, <1>3 DEF IInv, Window
    <3>1. Len(walk.members) >= Budget /\ walk.offset + Len(walk.members) < Len(Asked)
      BY <1>1 DEF IInv, Window
    <3>2. Len(Asked) \in 0..Len(log) /\ Len(log) \in Nat
      BY BaseIs DEF Asked, IInv, Types
    <3> QED
      BY <1>1, <1>2, <3>1, <3>2, LogAssumption DEF IInv, Types, Walking
  <2>2. walk'.visited + Len(walk'.todo) = Len(walk'.members)
    BY <1>1, <1>2, <1>4, <1>5 DEF IInv, Window
  <2> QED
    BY <1>1, <1>4, <2>1, <2>2 DEF IInv, Window, Visit, Jumps
<1> QED
  BY <1>1, <1>6, <1>7 DEF IInv, Window, Judged
-----------------------------------------------------------------------------
(* The poll: its visit. *)

(* A walk that goes on: what a step must keep. *)
Window0 == {"pass", "count", "cursorSkip", "offset", "members", "first", "jumped",
            "incomplete", "late", "filtered", "order"}
Keeps ==
    /\ UNCHANGED <<device, log, nextId, written, clock, support>>
    /\ raced' \in Flags /\ (raced' = "no" => raced = "no")
    /\ DOMAIN walk' = DOMAIN walk
    /\ \A f \in Window0 \ {"late"} : walk'[f] = walk[f]

(* What a walk that goes on keeps of its pages. *)
LEMMA KeepsPages ==
    ASSUME Keeps
    PROVE  /\ walk'.pass = walk.pass /\ walk'.count = walk.count
           /\ walk'.cursorSkip = walk.cursorSkip /\ walk'.offset = walk.offset
           /\ walk'.members = walk.members /\ walk'.first = walk.first
           /\ walk'.jumped = walk.jumped /\ walk'.incomplete = walk.incomplete
           /\ Jumps' = Jumps
  BY DEF Keeps, Window0, Jumps

(* A member visited, or the visit ended. *)
LEMMA VisitSteps ==
    ASSUME IInv, Keeps, pc = "visiting", pc' \in {"visiting", "judging"},
           walk'.visited \in Nat, walk'.todo \in Seq(Serials),
           pc' = "visiting" =>
             /\ walk'.stopped = walk.stopped /\ walk'.reached = walk.reached
             /\ walk'.visited + Len(walk'.todo) = walk.visited + Len(walk.todo),
           pc' = "judging" /\ raced = "no" =>
             /\ walk'.stopped \in {"no", "members", "time"}
             /\ walk'.stopped = "no" => walk'.reached = "yes" \/ walk'.visited = Len(walk.members)
             /\ walk'.stopped = "members" =>
                  walk'.visited >= Budget /\ walk'.visited < Len(walk.members)
             /\ walk'.stopped = "time" => walk'.late = "yes"
    PROVE  IInv'
<1>1. Types'
  BY KeepsPages DEF Keeps, IInv, Types, Walking, PCs
<1>2. Visit'
  BY KeepsPages DEF Keeps, IInv, Visit, Walked, Walking
<1> QED
  BY <1>1, <1>2 DEF IInv, Window, Judged

(* The visit counts its members, and says why it ends. *)
LEMMA VisitStep ==
    IInv /\ (Exhausted \/ VisitRefused \/ VisitMember \/ VisitOver) => IInv'
<1> SUFFICES ASSUME IInv, Exhausted \/ VisitRefused \/ VisitMember \/ VisitOver PROVE IInv'
  OBVIOUS
<1>1. /\ pc = "visiting"
      /\ UNCHANGED <<device, log, nextId, written, clock, support>>
      /\ raced' \in Flags /\ (raced' = "no" => raced = "no")
  BY DEF Flags, IInv, Types, Exhausted, VisitRefused, VisitMember, VisitOver, Visiting,
         world, read, history
<1>2. /\ Fields \subseteq DOMAIN walk /\ walk.visited \in Nat
      /\ walk.todo \in Seq(Serials) /\ walk.members \in Seq(Serials)
  BY <1>1 DEF IInv, Types, Walking
<1>3. raced = "no" => /\ walk.stopped = "no" /\ walk.reached = "no"
                      /\ walk.visited + Len(walk.todo) = Len(walk.members)
  BY <1>1 DEF IInv, Visit, Walked, Walking
<1>4. walk.todo # <<>> => /\ Tail(walk.todo) \in Seq(Serials)
                          /\ Len(Tail(walk.todo)) + 1 = Len(walk.todo)
  BY <1>2, HeadTailProperties
<1>5. CASE Exhausted
  <2>1. Len(walk.todo) > 0 /\ Len(walk.todo) \in Nat
    BY <1>2, <1>5 DEF Exhausted
  <2>2. CASE walk.visited >= Budget /\ walk' = [walk EXCEPT !.stopped = "members"]
    <3>1. Keeps
      BY <1>1, <1>2, <2>2 DEF Keeps, Window0, Fields
    <3>2. /\ walk'.stopped = "members" /\ walk'.visited = walk.visited
          /\ walk'.todo = walk.todo /\ pc' = "judging"
      BY <1>2, <1>5, <2>2 DEF Fields, Exhausted
    <3>3. raced = "no" => walk'.visited < Len(walk.members)
      BY <1>2, <1>3, <2>1, <3>2
    <3> QED
      BY <1>1, <1>2, <2>2, <3>1, <3>2, <3>3, VisitSteps
  <2>3. CASE walk' = [walk EXCEPT !.stopped = "time", !.late = "yes"]
    <3>1. Keeps
      BY <1>1, <1>2, <2>3 DEF Keeps, Window0, Fields
    <3>2. /\ walk'.stopped = "time" /\ walk'.late = "yes" /\ walk'.visited = walk.visited
          /\ walk'.todo = walk.todo /\ pc' = "judging"
      BY <1>2, <1>5, <2>3 DEF Fields, Exhausted
    <3> QED
      BY <1>1, <1>2, <3>1, <3>2, VisitSteps
  <2> QED
    BY <1>5, <2>2, <2>3 DEF Exhausted
<1>6. CASE VisitOver
  <2>1. walk' = walk /\ pc' = "judging" /\ walk.todo = <<>>
    BY <1>6 DEF VisitOver
  <2>2. Keeps
    BY <1>1, <2>1 DEF Keeps
  <2>3. raced = "no" => walk.visited = Len(walk.members)
    BY <1>2, <1>3, <2>1
  <2> QED
    BY <1>1, <1>2, <1>3, <2>1, <2>2, <2>3, VisitSteps
<1>7. ASSUME VisitRefused \/ VisitMember
      PROVE  /\ Keeps /\ walk.todo # <<>>
             /\ walk'.visited = walk.visited + 1 /\ walk'.todo = Tail(walk.todo)
             /\ walk'.stopped = walk.stopped
             /\ \/ pc' = "visiting" /\ walk'.reached = walk.reached
                \/ pc' = "judging" /\ walk'.reached = "yes"
  <2>1. walk.todo # <<>>
    BY <1>7 DEF VisitRefused, VisitMember, Visiting
  <2> DEFINE Untouched == {"visited", "todo", "issues", "records", "newest", "refilled",
                           "reached", "stalled"}
             Kept(v) == /\ DOMAIN v = DOMAIN walk
                        /\ \A f \in Fields \ Untouched : v[f] = walk[f]
                        /\ v.visited = walk.visited + 1 /\ v.todo = Tail(walk.todo)
                        /\ v.reached = walk.reached
  <2>2. Kept(Visited)
    BY <1>2 DEF Visited, Fields
  <2>3. ASSUME NEW v, Kept(v) PROVE Kept(Reported(v))
    BY <1>2, <2>3 DEF Reported, Fields
  <2>4. ASSUME NEW v, Kept(v), NEW e PROVE Kept(Projected(v, e))
    BY <1>2, <2>4 DEF Projected, Fields
  <2>5. ASSUME NEW v, Kept(v), NEW x PROVE Kept([v EXCEPT !.refilled = x])
    BY <1>2, <2>5 DEF Fields
  <2>6. ASSUME NEW v, Kept(v), Reach(v)
        PROVE  /\ DOMAIN walk' = DOMAIN walk /\ pc' = "judging"
               /\ \A f \in Fields \ Untouched : walk'[f] = walk[f]
               /\ walk'.visited = walk.visited + 1 /\ walk'.todo = Tail(walk.todo)
               /\ walk'.reached = "yes"
    BY <1>2, <2>6 DEF Reach, Fields
  <2>7. \/ \E v : Kept(v) /\ Reach(v)
        \/ Kept(walk') /\ pc' = pc
    <3>1. CASE VisitRefused
      BY <2>2, <2>3, <3>1 DEF VisitRefused
    <3>2. CASE VisitMember
      <4> DEFINE entry == Entry(Member)
                 x == IF Placed(entry) = "refilled" THEN "yes" ELSE Visited.refilled
                 marked == [Visited EXCEPT !.refilled = x]
      <4> HIDE DEF Kept
      <4>1. Kept(marked)
        BY <2>2, <2>5
      <4>2. Kept(Projected(marked, entry))
        BY <2>4, <4>1
      <4>3. Reach(Visited) \/ (walk' = Projected(marked, entry) /\ pc' = pc)
        BY <3>2 DEF VisitMember
      <4> QED
        BY <2>2, <4>2, <4>3
    <3> QED
      BY <1>7, <3>1, <3>2
  <2>8. /\ DOMAIN walk' = DOMAIN walk /\ \A f \in Fields \ Untouched : walk'[f] = walk[f]
        /\ walk'.visited = walk.visited + 1 /\ walk'.todo = Tail(walk.todo)
        /\ \/ pc' = pc /\ walk'.reached = walk.reached
           \/ pc' = "judging" /\ walk'.reached = "yes"
    BY <2>6, <2>7
  <2>9. Keeps /\ walk'.stopped = walk.stopped
    BY <1>1, <2>8 DEF Keeps, Window0, Fields
  <2> QED
    BY <1>1, <2>1, <2>8, <2>9
<1>8. CASE VisitRefused \/ VisitMember
  <2>1. /\ Keeps /\ walk.todo # <<>>
        /\ walk'.visited = walk.visited + 1 /\ walk'.todo = Tail(walk.todo)
        /\ walk'.stopped = walk.stopped
        /\ \/ pc' = "visiting" /\ walk'.reached = walk.reached
           \/ pc' = "judging" /\ walk'.reached = "yes"
    BY <1>7, <1>8
  <2>2. walk'.visited + Len(walk'.todo) = walk.visited + Len(walk.todo)
    <3>1. Len(walk.todo) \in Nat /\ Len(Tail(walk.todo)) \in Nat
      BY <1>2, <1>4, <2>1
    <3> QED
      BY <1>2, <1>4, <2>1, <3>1
  <2>3. walk'.visited \in Nat /\ walk'.todo \in Seq(Serials)
    BY <1>2, <1>4, <2>1
  <2> QED
    BY <1>1, <1>3, <2>1, <2>2, <2>3, VisitSteps
<1> QED
  BY <1>5, <1>6, <1>8
-----------------------------------------------------------------------------
(* The poll: its end. *)

(* A walk that is judged, and left as it is. *)
LEMMA JudgedSteps ==
    ASSUME IInv, pc \in {"judging", "probing"}, pc' \in {"probing", "shipping"},
           ~MissedJump, UNCHANGED <<world, read, history, walk>>
    PROVE  IInv'
<1>1. UNCHANGED <<device, log, nextId, written, clock, support, raced, walk>>
  BY DEF world, read, history
<1>2. Types'
  BY <1>1 DEF IInv, Types, Walking, PCs
<1>3. Visit'
  BY <1>1 DEF IInv, Visit, Walked, Walking, Jumps
<1>4. ~MissedJump'
  BY <1>1 DEF MissedJump
<1> QED
  BY <1>2, <1>3, <1>4 DEF IInv, Window, Judged

(* The pass is judged, probed, walked again or shipped. *)
LEMMA EndSteps ==
    IInv /\ (Rewalk \/ Doubt \/ Settle \/ ProbeFlips \/ ProbeStands \/ ProbeRefused \/ Ship)
      => IInv'
<1> SUFFICES ASSUME IInv, \/ Rewalk \/ Doubt \/ Settle
                          \/ ProbeFlips \/ ProbeStands \/ ProbeRefused \/ Ship
             PROVE  IInv'
  OBVIOUS
<1>1. CASE Rewalk \/ ProbeFlips
  BY <1>1, IdleSteps DEF Rewalk, ProbeFlips, Again, read, history, IInv, Types, Flags
<1>2. CASE Doubt \/ Settle
  BY <1>2, JudgedSteps DEF Doubt, Settle
<1>3. CASE ProbeStands \/ ProbeRefused
  BY <1>3, JudgedSteps DEF ProbeStands, ProbeRefused, IInv, Judged
<1>4. CASE Ship
  BY <1>4, IdleSteps DEF Ship, IInv, Types
<1> QED
  BY <1>1, <1>2, <1>3, <1>4

(* A step that leaves the log and the walk leaves the books. *)
LEMMA Undisturbed ==
    ASSUME IInv, UNCHANGED <<world, read, pc, walk, raced>>
    PROVE  IInv'
  BY DEF world, read, IInv, Types, Window, Visit, Judged, Jumps, MissedJump,
     Asked, Base, Matching, Listing

(* The walk keeps its books. *)
THEOREM Invariant == Spec => []IInv
<1>2. IInv /\ [Next]_vars => IInv'
  <2> SUFFICES ASSUME IInv, [Next]_vars PROVE IInv'
    OBVIOUS
  <2>1. CASE UNCHANGED vars \/ Overlap
    BY <2>1, Undisturbed DEF vars, read, history, Overlap
  <2> QED
    BY <2>1, WriteStep, ClockSteps, BeginStep, OpenSteps, SkipStep, FollowLinkStep,
       PagesOverStep, VisitStep, EndSteps DEF Next, Device, Poll
<1> QED
  BY <1>2, Initially, PTL DEF Spec

(* A log the budget has room for is never cut, for every size of log, page *)
(* and budget: a walk that neither met its cursor nor was stopped saw all  *)
(* of its window, a jump that missed is walked again from the head, and a  *)
(* link is left behind only where a budget's worth was read.               *)
THEOREM WhatFitsIsWhole == Spec => []FitsIsWhole
<1>1. IInv => FitsIsWhole
  <2> SUFFICES ASSUME IInv, pc = "shipping", raced = "no", walk.late = "no",
                      device.links = "good", Total <= Budget, Len(log) <= Budget
               PROVE  ~Truncated
    BY DEF FitsIsWhole
  <2>1. /\ walk.count \in Nat /\ walk.offset \in Nat /\ walk.visited \in Nat
        /\ Len(walk.members) \in Nat /\ Len(log) \in Nat /\ Budget \in Nat
    BY LogAssumption DEF IInv, Types, Walking
  <2>2. walk.count <= Budget /\ Len(walk.members) <= Budget
    BY <2>1 DEF Total, Most
  <2>3. walk.incomplete # "yes"
    BY <2>1 DEF IInv, Visit, Walked, Walking
  <2>4. walk.stopped = "no"
    BY <2>1, <2>2 DEF IInv, Visit, Walked, Walking
  <2>5. CASE walk.reached = "no"
    <3>1. walk.visited = Len(walk.members)
      BY <2>4, <2>5 DEF IInv, Visit, Walked, Walking
    <3>2. walk.offset = 0
      BY <2>1, <2>2, <2>4, <2>5 DEF IInv, Visit, Jumps, Judged, MissedJump, Walked, Walking
    <3> QED
      BY <2>1, <2>3, <3>1, <3>2 DEF Truncated
  <2> QED
    BY <2>3, <2>5 DEF Truncated
<1> QED
  BY Invariant, <1>1, PTL
-----------------------------------------------------------------------------
(***************************************************************************)
(* What is lost.  The entries held are numbered without a gap, so an id    *)
(* names one entry, and those before a held one that are not held any more *)
(* were rotated out.                                                       *)
(***************************************************************************)
(* The entries held, and the values of a sequence. *)
Held == {log[i] : i \in DOMAIN log}
Ids(s) == {s[k] : k \in DOMAIN s}

(* The walk can tell what happened. *)
Calm == raced = "no"

(* The device says so where its clock was set back. *)
Told == device.steps # "untold"

(* Ids and serials run without a gap, and a clock that runs forward has   *)
(* passed every stamp.                                                     *)
Numbered ==
    /\ Len(log) < nextId /\ Len(log) <= written
    /\ \A i \in DOMAIN log : /\ log[i].id = nextId - 1 - Len(log) + i
                             /\ log[i].serial = written - Len(log) + i
    /\ device.steps = "never" => \A e \in Held : e.at <= clock

(* An entry stamped after the clock was set back: neither a later entry    *)
(* nor the clock is past it again.                                         *)
Low(e) == clock <= e.at /\ \A f \in Held : e.id <= f.id => f.at <= e.at

(* An entry nobody was told of is such a one, or stamped at no earlier     *)
(* time than those before it.                                              *)
Dated ==
    /\ peak \in Nat /\ clock <= peak /\ \A e \in Held : e.at <= peak
    /\ Calm => \A e \in Held : e.serial \notin known =>
                  Low(e) \/ \A f \in Held : f.id <= e.id => f.at <= e.at

(* A member and its stamp that no entry to come can have, and that no      *)
(* entry after it, nobody was told of, is stamped before unless it is low. *)
Stands(member, at) ==
    /\ member \in Nat /\ at \in Nat /\ at <= peak
    /\ \/ member < nextId /\ \A e \in Held : e.id = member => e.at = at
       \/ device.steps = "never" /\ at < clock /\ \A e \in Held : e.at > at
    /\ device.steps = "never" => at <= clock
    /\ \A e \in Held : e.serial \notin known => Low(e) \/ e.id <= member \/ at <= e.at

(* Everything up to the cursor's member is known. *)
Anchor ==
    Calm /\ cursor # <<>> =>
        /\ Stands(cursor[1].member, cursor[1].at)
        /\ \A e \in Held : e.id = cursor[1].member /\ e.at = cursor[1].at =>
             \A f \in Held : f.id <= cursor[1].member => f.serial \in known

(* An entry the pass asks for. *)
MeetsIn(f, e) == f = "yes" /\ device.filter # "ignored" => e.at >= cursor[1].at
Meets(e) == MeetsIn(walk.filtered, e)

(* What a filter leaves out is known, or stamped after the clock was set   *)
(* back with nothing said of it.                                           *)
Stamped ==
    Calm /\ (pc = "asking" \/ (pc \in Walking /\ walk.filtered = "yes")) =>
        /\ cursor # <<>>
        /\ pc # "asking" => device.filter \in {"ignored", "honored"}
        /\ device.filter = "honored" =>
             /\ Told => cursor[1].at <= clock
             /\ \A e \in Held : ~(e.at >= cursor[1].at) =>
                   e.serial \in known \/ (~Told /\ Low(e))

(* A pass: what it knows of the log it opened. *)
Opened ==
    Calm /\ pc \in Walking =>
        /\ \A e \in Held : e.serial \in walk.present /\ Meets(e) => e.serial \in walk.listed
        /\ \A n \in walk.present : n \in Nat /\ n <= written
        /\ \A e \in Held, n \in walk.present : e.serial <= n => e.serial \in walk.present
        /\ walk.offset # 0 => walk.order = "oldest"

(* The pages read are a segment of what is asked for. *)
Segment ==
    Calm /\ pc = "paging" =>
        /\ \A k \in 1..Len(walk.members) :
              /\ walk.offset + k <= Len(Asked)
              /\ walk.members[k] = Asked[walk.offset + k].id
        /\ walk.link = <<>> =>
             \A i \in DOMAIN Asked :
                Asked[i].serial \in walk.present => i <= walk.offset + Len(walk.members)
        /\ walk.link # <<>> => walk.members # <<>>
        /\ \A i \in DOMAIN Asked : i <= walk.count => Asked[i].serial \in walk.present
        /\ walk.count <= Len(Asked)
        /\ \A k \in walk.skips : k < walk.count
        /\ walk.skips # {} => walk.order = "oldest"
        /\ walk.members # <<>> =>
             \A i \in DOMAIN Asked :
                i <= walk.offset + 1 => Asked[i].serial \in walk.present
        /\ walk.newest = <<>>

(* The members to visit: of those asked for, an interval of ids, that      *)
(* leaves out no newcomer below one of its own, and nothing of the log as  *)
(* it was opened but what a jump passed over.                              *)
Listed ==
    Calm /\ pc \in Walked =>
        /\ \A n \in Ids(walk.members) : n < nextId
        /\ \A e \in Held : e.id \in Ids(walk.members) => Meets(e)
        /\ \A x, z \in Ids(walk.members) : \A e \in Held :
              x <= e.id /\ e.id <= z /\ Meets(e) => e.id \in Ids(walk.members)
        /\ \A e \in Held, n \in Ids(walk.members) :
              e.id < n /\ e.serial \notin walk.present /\ Meets(e) => e.id \in Ids(walk.members)
        /\ walk.incomplete # "yes" /\ (walk.offset = 0 \/ walk.order = device.order) =>
             \A e \in Held : e.serial \in walk.present /\ Meets(e) =>
                \/ e.id \in Ids(walk.members)
                \/ walk.offset > 0 /\ \A n \in Ids(walk.members) : e.id < n

(* The visit: in order, nothing left out, up to the cursor's member. *)
Before(x, y) == IF walk.order = device.order THEN x > y ELSE x < y
Visits == Ids(walk.members) \ Ids(walk.todo)
Seen ==
    Calm /\ pc \in Walked =>
        /\ walk.reached \in Flags /\ walk.visited + Len(walk.todo) = Len(walk.members)
        /\ Ids(walk.todo) \subseteq Ids(walk.members)
        /\ \A k, l \in DOMAIN walk.todo : k < l => Before(walk.todo[k], walk.todo[l])
        /\ \A m \in Visits, t \in Ids(walk.todo) : Before(m, t)
        /\ \A e \in Held :
              e.id \in Visits /\ (walk.reached = "yes" => e.id # cursor[1].member)
                => e.serial \in walk.records \cup walk.issues
        /\ walk.newest # <<>> =>
             walk.newest[1] \in Visits /\ Stands(walk.newest[1], walk.newest[2])
        /\ walk.reached = "yes" =>
             /\ cursor # <<>> /\ cursor[1].member \in Visits
             /\ \A e \in Held : e.id = cursor[1].member => e.at = cursor[1].at
             /\ walk.newest # <<>> => Before(walk.newest[1], cursor[1].member)

(* The inductive invariant of the accounting. *)
Tells == Numbered /\ Dated /\ Anchor /\ Stamped /\ Opened /\ Segment /\ Listed /\ Seen
-----------------------------------------------------------------------------
(* Nothing is listed, seen or remembered at first. *)
LEMMA InitiallyTells == Init => Tells
<1> SUFFICES ASSUME Init PROVE Tells
  OBVIOUS
<1>1. /\ log = <<>> /\ Len(log) = 0 /\ DOMAIN log = {} /\ Held = {}
      /\ nextId = 1 /\ written = 0 /\ clock = 1 /\ peak = 1 /\ cursor = <<>> /\ pc = "idle"
  BY DEF Init, Held
<1> QED
  BY <1>1 DEF Tells, Numbered, Dated, Anchor, Stamped, Opened, Segment, Listed, Seen,
     Walking, Walked

(* What the numbers say of the entries held. *)
LEMMA HeldAre ==
    ASSUME Types, Numbered
    PROVE  /\ \A e \in Held : /\ e \in Entries /\ e.id \in Nat /\ e.serial \in Nat
                              /\ e.at \in Nat /\ e.id < nextId /\ e.serial <= written
           /\ \A e, f \in Held : e.id = f.id => e = f
           /\ \A e \in Held : \A n \in Nat : e.id <= n /\ n < nextId => \E f \in Held : f.id = n
           /\ \A e, f \in Held : e.id < f.id <=> e.serial < f.serial
           /\ nextId \in Nat /\ written \in Nat /\ clock \in Nat /\ Len(log) \in Nat
<1>1. /\ nextId \in Nat /\ written \in Nat /\ clock \in Nat /\ Len(log) \in Nat
      /\ DOMAIN log = 1..Len(log) /\ \A i \in DOMAIN log : log[i] \in Entries
  BY LogAssumption DEF Types
<1>2. \A i \in DOMAIN log : /\ log[i].id \in Nat /\ log[i].serial \in Nat /\ log[i].at \in Nat
                            /\ log[i].id < nextId /\ log[i].serial <= written
  BY <1>1, LogAssumption DEF Entries, Serials, Numbered
<1>3. ASSUME NEW i \in DOMAIN log, NEW j \in DOMAIN log, log[i].id = log[j].id PROVE i = j
  BY <1>1, <1>3 DEF Numbered
<1>4. ASSUME NEW i \in DOMAIN log, NEW n \in Nat, log[i].id <= n, n < nextId
      PROVE  \E j \in DOMAIN log : log[j].id = n
  <2> DEFINE j == n - (nextId - 1 - Len(log))
  <2>1. j \in DOMAIN log
    BY <1>1, <1>4 DEF Numbered
  <2>2. log[j].id = nextId - 1 - Len(log) + j
    BY <2>1 DEF Numbered
  <2>3. log[j].id = n
    BY <1>1, <2>2
  <2> QED
    BY <2>1, <2>3
<1>5. ASSUME NEW i \in DOMAIN log, NEW j \in DOMAIN log
      PROVE  log[i].id < log[j].id <=> log[i].serial < log[j].serial
  BY <1>1 DEF Numbered
<1> QED
  BY <1>1, <1>2, <1>3, <1>4, <1>5 DEF Held

(* The entries as the device lists them. *)
LEMMA ListingNumbers ==
    ASSUME Types, Numbered
    PROVE  /\ \A i \in 1..Len(log) :
                /\ Listing[i] \in Held
                /\ Listing[i].id = IF device.order = "oldest" THEN nextId - 1 - Len(log) + i
                                   ELSE nextId - i
                /\ Listing[i].serial = IF device.order = "oldest" THEN written - Len(log) + i
                                       ELSE written - i + 1
           /\ \A e \in Held : \E i \in 1..Len(log) : e = Listing[i]
<1>1. /\ DOMAIN log = 1..Len(log) /\ Len(log) \in Nat /\ nextId \in Nat /\ written \in Nat
      /\ \A i \in 1..Len(log) : log[i] \in Held
      /\ \A i \in 1..Len(log) : /\ log[i].id = nextId - 1 - Len(log) + i
                               /\ log[i].serial = written - Len(log) + i
  BY HeldAre DEF Types, Held, Numbered
<1>2. CASE device.order = "oldest"
  BY <1>1, <1>2 DEF Listing, Held
<1>3. CASE device.order # "oldest"
  <2>1. Listing = [i \in 1..Len(log) |-> log[(Len(log) - i) + 1]]
    BY <1>3 DEF Listing, Reverse
  <2>2. \A i \in 1..Len(log) : /\ (Len(log) - i) + 1 \in 1..Len(log)
                               /\ (Len(log) - ((Len(log) - i) + 1)) + 1 = i
    BY <1>1
  <2>3. \A i \in 1..Len(log) : /\ Listing[i] = log[(Len(log) - i) + 1]
                               /\ log[i] = Listing[(Len(log) - i) + 1]
    BY <2>1, <2>2
  <2>4. ASSUME NEW i \in 1..Len(log)
        PROVE  /\ Listing[i] \in Held
               /\ Listing[i].id = nextId - i /\ Listing[i].serial = written - i + 1
    <3> DEFINE j == (Len(log) - i) + 1
    <3>1. j \in 1..Len(log) /\ Listing[i] = log[j]
      BY <2>2, <2>3
    <3>2. log[j].id = nextId - 1 - Len(log) + j /\ log[j].serial = written - Len(log) + j
      BY <1>1, <3>1
    <3>3. /\ nextId - 1 - Len(log) + j = nextId - i
          /\ written - Len(log) + j = written - i + 1
      BY <1>1
    <3> QED
      BY <1>1, <3>1, <3>2, <3>3
  <2>5. \A e \in Held : \E i \in 1..Len(log) : e = Listing[i]
    <3>1. \A e \in Held : \E i \in 1..Len(log) : e = log[i]
      BY <1>1 DEF Held
    <3>2. \A i \in 1..Len(log) : \E j \in 1..Len(log) : log[i] = Listing[j]
      BY <2>2, <2>3
    <3> TAKE e \in Held
    <3>3. PICK i \in 1..Len(log) : e = log[i]
      BY <3>1
    <3> QED
      BY <3>2, <3>3
  <2> QED
    BY <1>3, <2>4, <2>5
<1> QED
  BY <1>2, <1>3

(* What a pass reads: of the entries held, those asked for, in order. *)
LEMMA BaseNumbers ==
    ASSUME Types, Numbered, NEW f
    PROVE  LET base == Base(f)
           IN  /\ base \in Seq(Entries) /\ Len(base) \in Nat /\ DOMAIN base = 1..Len(base)
               /\ \A i \in 1..Len(base) : base[i] \in Held /\ MeetsIn(f, base[i])
               /\ \A i, j \in 1..Len(base) :
                     i < j => IF device.order = "oldest" THEN base[i].id < base[j].id
                              ELSE base[j].id < base[i].id
               /\ \A e \in Held : MeetsIn(f, e) => \E i \in 1..Len(base) : e = base[i]
<1> DEFINE base == Base(f)
<1>1. /\ Listing \in Seq(Entries) /\ Len(Listing) = Len(log) /\ Len(log) \in Nat
      /\ DOMAIN Listing = 1..Len(Listing)
  BY ListingIs DEF Types
<1>2. /\ \A i \in 1..Len(Listing) : Listing[i] \in Held
      /\ \A e \in Held : \E i \in 1..Len(Listing) : e = Listing[i]
  BY <1>1, ListingNumbers
<1>3. ASSUME NEW i \in 1..Len(Listing), NEW j \in 1..Len(Listing), i < j
      PROVE  IF device.order = "oldest" THEN Listing[i].id < Listing[j].id
             ELSE Listing[j].id < Listing[i].id
  <2>1. nextId \in Nat
    BY HeldAre
  <2>2. /\ Listing[i].id = IF device.order = "oldest" THEN nextId - 1 - Len(log) + i
                           ELSE nextId - i
        /\ Listing[j].id = IF device.order = "oldest" THEN nextId - 1 - Len(log) + j
                           ELSE nextId - j
    BY <1>1, ListingNumbers
  <2> QED
    BY <1>1, <1>3, <2>1, <2>2
<1>4. CASE base = Listing /\ (f = "yes" => device.filter = "ignored")
  <2>1. \A e : MeetsIn(f, e)
    BY <1>4 DEF MeetsIn
  <2> HIDE DEF base
  <2>2. base = Listing
    BY <1>4
  <2>3. /\ base \in Seq(Entries) /\ Len(base) \in Nat /\ DOMAIN base = 1..Len(base)
        /\ \A i \in 1..Len(base) : base[i] \in Held /\ MeetsIn(f, base[i])
        /\ \A i, j \in 1..Len(base) :
              i < j => IF device.order = "oldest" THEN base[i].id < base[j].id
                       ELSE base[j].id < base[i].id
        /\ \A e \in Held : MeetsIn(f, e) => \E i \in 1..Len(base) : e = base[i]
    BY <1>1, <1>2, <1>3, <2>1, <2>2
  <2> QED
    BY <2>3 DEF base
<1>5. CASE base = Since(Listing, cursor[1].at) /\ f = "yes" /\ device.filter # "ignored"
  <2>1. \A e : MeetsIn(f, e) <=> e.at >= cursor[1].at
    BY <1>5 DEF MeetsIn
  <2> HIDE DEF base
  <2>2. base \in Seq(Entries) /\ Len(base) \in Nat /\ DOMAIN base = 1..Len(base)
    BY <1>1, <1>5, SincePicks
  <2>3. PICK g \in [1..Len(base) -> 1..Len(Listing)] :
           /\ Picks(Listing, cursor[1].at, base, g)
           /\ \A i \in 1..Len(Listing) : Listing[i].at >= cursor[1].at =>
                 \E k \in 1..Len(base) : g[k] = i
    BY <1>1, <1>5, SincePicks
  <2>4. /\ \A i \in 1..Len(base) : /\ base[i] = Listing[g[i]] /\ g[i] \in 1..Len(Listing)
                                   /\ Listing[g[i]].at >= cursor[1].at
        /\ \A i, j \in 1..Len(base) : i < j => g[i] < g[j]
    BY <2>3 DEF Picks
  <2>5. \A i \in 1..Len(base) : base[i] \in Held /\ MeetsIn(f, base[i])
    BY <1>2, <2>1, <2>4
  <2>6. \A i, j \in 1..Len(base) :
              i < j => IF device.order = "oldest" THEN base[i].id < base[j].id
                       ELSE base[j].id < base[i].id
    BY <1>3, <2>4
  <2>7. ASSUME NEW e \in Held, MeetsIn(f, e) PROVE \E i \in 1..Len(base) : e = base[i]
    <3>1. PICK i \in 1..Len(Listing) : e = Listing[i]
      BY <1>2
    <3>2. PICK k \in 1..Len(base) : g[k] = i
      BY <2>1, <2>3, <2>7, <3>1
    <3> QED
      BY <2>4, <3>1, <3>2
  <2>8. /\ base \in Seq(Entries) /\ Len(base) \in Nat /\ DOMAIN base = 1..Len(base)
        /\ \A i \in 1..Len(base) : base[i] \in Held /\ MeetsIn(f, base[i])
        /\ \A i, j \in 1..Len(base) :
              i < j => IF device.order = "oldest" THEN base[i].id < base[j].id
                       ELSE base[j].id < base[i].id
        /\ \A e \in Held : MeetsIn(f, e) => \E i \in 1..Len(base) : e = base[i]
    BY <2>2, <2>5, <2>6, <2>7
  <2> QED
    BY <2>8 DEF base
<1> QED
  BY <1>4, <1>5 DEF Base, Matching

(* An entry arrives: behind the others, of which at most one is lost. *)
LEMMA Arrives ==
    ASSUME Types, Numbered, Write
    PROVE  LET entry == [serial |-> written + 1, id |-> nextId, at |-> clock]
           IN  /\ log' \in Seq(Entries) /\ entry \in Entries
               /\ Held' \subseteq Held \cup {entry}
               /\ Len(log) # LogSize => log' = Append(log, entry)
               /\ nextId' = nextId + 1 /\ written' = written + 1
               /\ Numbered'
<1> DEFINE entry == [serial |-> written + 1, id |-> nextId, at |-> clock]
           kept == IF Len(log) = LogSize THEN Tail(log) ELSE log
<1>1. entry \in Entries
  BY LogAssumption DEF Write, Types, Entries, Serials
<1>2. /\ log \in Seq(Entries) /\ LogSize \in Nat \ {0} /\ Len(log) \in Nat
      /\ nextId \in Nat /\ written \in Nat /\ clock \in Nat
  BY LogAssumption DEF Types
<1>3. /\ entry.serial = written + 1 /\ entry.id = nextId /\ entry.at = clock
      /\ log' = Append(kept, entry) /\ nextId' = nextId + 1 /\ written' = written + 1
      /\ device' = device /\ clock' = clock
  BY DEF Write
<1>4. PICK drop \in {0, 1} : /\ kept \in Seq(Entries) /\ Len(kept) = Len(log) - drop
                             /\ \A i \in 1..Len(kept) : kept[i] = log[i + drop]
  <2>1. CASE Len(log) = LogSize
    <3>1. log # <<>>
      BY <1>2, <2>1
    <3>2. /\ Tail(log) \in Seq(Entries) /\ Len(Tail(log)) = Len(log) - 1
          /\ \A i \in 1..Len(Tail(log)) : Tail(log)[i] = log[i + 1]
      BY <1>2, <3>1, HeadTailProperties
    <3> QED
      BY <2>1, <3>2
  <2>2. CASE Len(log) # LogSize
    BY <1>2, <2>2
  <2> QED
    BY <2>1, <2>2
<1> HIDE DEF entry, kept
<1>5. /\ log' \in Seq(Entries) /\ Len(log') = Len(log) - drop + 1
      /\ \A i \in 1..(Len(log) - drop) : log'[i] = log[i + drop]
      /\ log'[Len(log) - drop + 1] = entry
  BY <1>1, <1>2, <1>3, <1>4, AppendProperties
<1>6. DOMAIN log' = 1..(Len(log) - drop + 1) /\ DOMAIN log = 1..Len(log)
  BY <1>2, <1>5
<1>7. /\ drop \in Nat /\ Len(log) - drop \in Nat
      /\ \A i \in 1..(Len(log) - drop) : i + drop \in 1..Len(log)
  <2>1. drop \in Nat /\ Len(kept) \in Nat /\ Len(kept) = Len(log) - drop
    BY <1>4
  <2> QED
    BY <1>2, <2>1
<1>8. Held' \subseteq Held \cup {entry}
  <2> SUFFICES ASSUME NEW i \in DOMAIN log' PROVE log'[i] \in Held \cup {entry}
    BY DEF Held
  <2>1. CASE i = Len(log) - drop + 1
    BY <1>5, <2>1
  <2>2. CASE i \in 1..(Len(log) - drop)
    <3>1. log'[i] = log[i + drop] /\ i + drop \in DOMAIN log
      BY <1>5, <1>6, <1>7, <2>2
    <3> QED
      BY <3>1 DEF Held
  <2> QED
    BY <1>6, <1>7, <2>1, <2>2
<1>9. Numbered'
  <2>1. ASSUME NEW i \in DOMAIN log'
        PROVE  /\ log'[i].id = nextId' - 1 - Len(log') + i
               /\ log'[i].serial = written' - Len(log') + i
    <3>1. CASE i = Len(log) - drop + 1
      BY <1>2, <1>3, <1>5, <1>7, <3>1
    <3>2. CASE i \in 1..(Len(log) - drop)
      <4>1. log'[i] = log[i + drop] /\ i + drop \in DOMAIN log
        BY <1>5, <1>6, <1>7, <3>2
      <4>2. /\ log'[i].id = nextId - 1 - Len(log) + (i + drop)
            /\ log'[i].serial = written - Len(log) + (i + drop)
        BY <4>1 DEF Numbered
      <4>3. i \in Nat
        BY <3>2
      <4>4. \A n, l, d, x \in Int : /\ n - 1 - l + (x + d) = (n + 1) - 1 - (l - d + 1) + x
                                     /\ n - l + (x + d) = (n + 1) - (l - d + 1) + x
        OBVIOUS
      <4>5. /\ nextId - 1 - Len(log) + (i + drop) = (nextId + 1) - 1 - (Len(log) - drop + 1) + i
            /\ written - Len(log) + (i + drop) = (written + 1) - (Len(log) - drop + 1) + i
        BY <1>2, <1>7, <4>3, <4>4
      <4> QED
        BY <1>3, <1>5, <4>2, <4>5
    <3> QED
      BY <1>6, <1>7, <2>1, <3>1, <3>2
  <2>2. device.steps = "never" => \A e \in Held' : e.at <= clock
    BY <1>2, <1>3, <1>8 DEF Numbered
  <2>3. Len(log') < nextId' /\ Len(log') <= written'
    BY <1>2, <1>3, <1>5, <1>7 DEF Numbered
  <2> QED
    BY <1>3, <2>1, <2>2, <2>3 DEF Numbered
<1> QED
  BY <1>1, <1>3, <1>5, <1>8, <1>9 DEF entry, kept

(* An entry that arrives is neither the cursor's member nor one the pass   *)
(* opened, nor below a member.                                             *)
LEMMA WriteTells == IInv /\ Tells /\ Write => Tells'
<1> SUFFICES ASSUME IInv, Tells, Write PROVE Tells'
  OBVIOUS
<1> DEFINE entry == [serial |-> written + 1, id |-> nextId, at |-> clock]
<1>1. Types /\ Numbered
  BY DEF IInv, Tells
<1>2. /\ Held' \subseteq Held \cup {entry} /\ Numbered'
      /\ nextId' = nextId + 1 /\ written' = written + 1
      /\ Len(log) # LogSize => log' = Append(log, entry)
      /\ entry \in Entries /\ log \in Seq(Entries)
  BY <1>1, Arrives DEF Types
<1>3. entry.id = nextId /\ entry.serial = written + 1 /\ entry.at = clock
  OBVIOUS
<1> HIDE DEF entry
<1>4. /\ UNCHANGED <<device, clock, peak, cursor, pc, walk, known>>
      /\ raced' \in Flags /\ (raced' = "no" => raced = "no")
      /\ raced' = "no" /\ pc = "paging" => ~Shifts
      /\ Calm' => Calm /\ raced' = "no"
  BY <1>1 DEF Write, read, Types, Flags, Calm
<1>5. /\ \A e \in Held : e.id < nextId /\ e.serial <= written /\ e.id \in Nat /\ e.serial \in Nat
                         /\ e.at \in Nat
      /\ nextId \in Nat /\ written \in Nat /\ clock \in Nat
  BY <1>1, HeldAre
<1>6. \A e \in Held' : e \notin Held \/ Low(e) => Low(e)'
  BY <1>2, <1>3, <1>4, <1>5 DEF Low
<1>7. ASSUME NEW m, NEW a, Stands(m, a)
      PROVE  Stands(m, a)' /\ ~(entry.id = m /\ entry.at = a)
  <2>1. m \in Nat /\ a \in Nat /\ a <= peak' /\ (device'.steps = "never" => a <= clock')
    BY <1>4, <1>7 DEF Stands
  <2>2. \/ m < nextId' /\ \A e \in Held' : e.id = m => e.at = a
        \/ device'.steps = "never" /\ a < clock' /\ \A e \in Held' : e.at > a
    <3>1. CASE m < nextId /\ \A e \in Held : e.id = m => e.at = a
      BY <1>2, <1>3, <1>5, <2>1, <3>1
    <3>2. CASE device.steps = "never" /\ a < clock /\ \A e \in Held : e.at > a
      BY <1>2, <1>3, <1>4, <1>5, <2>1, <3>2
    <3> QED
      BY <1>7, <3>1, <3>2 DEF Stands
  <2>3. \A e \in Held' : e.serial \notin known' => Low(e)' \/ e.id <= m \/ a <= e.at
    BY <1>2, <1>4, <1>7, <1>6 DEF Stands
  <2>4. ~(entry.id = m /\ entry.at = a)
    BY <1>3, <1>5, <1>7, <2>1 DEF Stands
  <2> QED
    BY <2>1, <2>2, <2>3, <2>4 DEF Stands
<1>8. Anchor'
  <2> SUFFICES ASSUME Calm, cursor # <<>> PROVE Anchor'
    BY <1>4 DEF Anchor
  <2> DEFINE m == cursor[1].member
             a == cursor[1].at
  <2>1. Stands(m, a) /\ Stands(m, a)' /\ ~(entry.id = m /\ entry.at = a)
    <3>1. Stands(m, a)
      BY DEF Tells, Anchor
    <3>2. ~(entry.id = m /\ entry.at = a)
      BY <1>7, <3>1
    <3>3. cursor' = cursor
      BY <1>4
    <3>4. \A x, y : Stands(x, y) => Stands(x, y)'
      BY <1>7
    <3>5. Stands(m, a)'
      BY <3>1, <3>3, <3>4 DEF Stands
    <3> QED
      BY <3>1, <3>2, <3>5
  <2>2. ASSUME NEW e \in Held', e.id = m, e.at = a, NEW f \in Held', f.id <= m
        PROVE  f.serial \in known
    <3>1. e \in Held
      BY <1>2, <2>1, <2>2
    <3>2. m < nextId
      BY <1>5, <2>2, <3>1
    <3>3. f \in Held
      BY <1>2, <1>3, <1>5, <2>1, <2>2, <3>2 DEF Stands
    <3> QED
      BY <2>2, <3>1, <3>3 DEF Tells, Anchor
  <2> QED
    BY <1>4, <2>1, <2>2 DEF Anchor
<1>9. \A e : Meets(e)' <=> Meets(e)
  BY <1>4 DEF Meets, MeetsIn
<1>10. Opened'
  <2> SUFFICES ASSUME Calm, pc \in Walking PROVE Opened'
    BY <1>4 DEF Opened
  <2>1. \A n \in walk.present : n \in Nat /\ n <= written
    BY DEF Tells, Opened
  <2>2. \A e \in Held', n \in walk.present : e.serial <= n => e.serial \in walk.present
    BY <1>2, <1>3, <1>5, <2>1 DEF Tells, Opened
  <2>3. \A e \in Held' : e.serial \in walk.present /\ Meets(e) => e.serial \in walk.listed
    BY <1>2, <1>3, <1>5, <2>1 DEF Tells, Opened
  <2>4. walk.offset # 0 => walk.order = "oldest"
    BY DEF Tells, Opened
  <2> QED
    BY <1>2, <1>4, <1>5, <1>9, <2>1, <2>2, <2>3, <2>4 DEF Opened
<1>11. Segment'
  <2> SUFFICES ASSUME Calm, raced' = "no", pc = "paging" PROVE Segment'
    BY <1>4 DEF Segment
  <2>1. device.order # "newest" /\ Len(log) # LogSize
    BY <1>4 DEF Shifts
  <2>2. device.order = "oldest"
    BY <1>1, <2>1, LogAssumption DEF Types, DeviceTypes
  <2>3. Asked' = Asked \/ Asked' = Append(Asked, entry)
    <3>1. walk' = walk /\ Asked = Base(walk.filtered) /\ Asked' = Base(walk.filtered)'
      BY <1>4 DEF Asked
    <3>2. log' = Append(log, entry) /\ entry \in Entries /\ UNCHANGED <<device, cursor, walk>>
      BY <1>2, <1>4, <2>1
    <3>4. \A f : Base(f)' = Base(f) \/ Base(f)' = Append(Base(f), entry)
      BY <1>1, <2>2, <3>2, BaseGrows
    <3>3. Base(walk.filtered)' = Base(walk.filtered)
          \/ Base(walk.filtered)' = Append(Base(walk.filtered), entry)
      BY <3>2, <3>4 DEF Base
    <3> QED
      BY <3>1, <3>3
  <2>4. Asked \in Seq(Entries) /\ Len(Asked) \in Nat /\ DOMAIN Asked = 1..Len(Asked)
    BY <1>1, BaseNumbers DEF Asked
  <2>5. entry.serial \notin walk.present
    BY <1>3, <1>4, <1>5 DEF Tells, Opened, Walking
  <2>6. walk.offset \in Nat /\ Len(walk.members) \in Nat /\ walk.count \in Nat
    BY <1>1 DEF Types, Walking
  <2>7. /\ \A k \in 1..Len(walk.members) :
              /\ walk.offset + k <= Len(Asked)
              /\ walk.members[k] = Asked[walk.offset + k].id
        /\ walk.link = <<>> =>
             \A i \in 1..Len(Asked) :
                Asked[i].serial \in walk.present => i <= walk.offset + Len(walk.members)
        /\ walk.link # <<>> => walk.members # <<>>
        /\ \A i \in 1..Len(Asked) : i <= walk.count => Asked[i].serial \in walk.present
        /\ walk.count <= Len(Asked)
        /\ \A k \in walk.skips : k < walk.count
        /\ walk.skips # {} => walk.order = "oldest"
        /\ walk.members # <<>> =>
             \A i \in 1..Len(Asked) : i <= walk.offset + 1 => Asked[i].serial \in walk.present
        /\ walk.newest = <<>>
    BY <2>4 DEF Tells, Segment
  <2>8. CASE Asked' = Asked
    <3>1. walk' = walk
      BY <1>4
    <3> QED
      BY <2>8, <3>1, <2>4, <2>7 DEF Segment
  <2>9. CASE Asked' = Append(Asked, entry)
    <3>1. /\ DOMAIN Asked' = 1..(Len(Asked) + 1)
          /\ Len(Asked') = Len(Asked) + 1
          /\ \A i \in 1..Len(Asked) : Asked'[i] = Asked[i]
          /\ Asked'[Len(Asked) + 1] = entry
      BY <1>2, <2>4, <2>9, AppendProperties
    <3>2. \A k \in 1..Len(walk.members) :
             /\ walk.offset + k <= Len(Asked')
             /\ walk.members[k] = Asked'[walk.offset + k].id
      BY <2>4, <2>6, <2>7, <3>1
    <3>3. walk.members # <<>> => walk.offset + 1 <= Len(Asked)
      <4> SUFFICES ASSUME walk.members # <<>> PROVE walk.offset + 1 <= Len(Asked)
        OBVIOUS
      <4>1. walk.members \in Seq(Serials)
        BY <1>1 DEF Types, Walking
      <4>2. 1 \in 1..Len(walk.members)
        BY <4>1
      <4> QED
        BY <2>7, <4>2
    <3>4. walk.count <= Len(Asked')
      BY <2>4, <2>6, <2>7, <3>1
    <3>5. \A i \in 1..(Len(Asked) + 1) :
            /\ i <= walk.count \/ (i <= walk.offset + 1 /\ walk.members # <<>>)
                 => i \in 1..Len(Asked)
            /\ i = Len(Asked) + 1 \/ i \in 1..Len(Asked)
      BY <2>4, <2>6, <2>7, <3>3
    <3>6. /\ walk.link = <<>> =>
              \A i \in DOMAIN Asked' :
                 Asked'[i].serial \in walk.present => i <= walk.offset + Len(walk.members)
          /\ \A i \in DOMAIN Asked' : i <= walk.count => Asked'[i].serial \in walk.present
          /\ walk.members # <<>> =>
              \A i \in DOMAIN Asked' : i <= walk.offset + 1 => Asked'[i].serial \in walk.present
      BY <2>5, <2>7, <3>1, <3>5
    <3>7. walk' = walk /\ pc' = pc
      BY <1>4
    <3>8. /\ walk.link # <<>> => walk.members # <<>>
          /\ \A k \in walk.skips : k < walk.count
          /\ walk.skips # {} => walk.order = "oldest"
          /\ walk.newest = <<>>
      BY <2>7
    <3> QED
      BY <3>2, <3>4, <3>6, <3>7, <3>8 DEF Segment
  <2> QED
    BY <2>3, <2>8, <2>9
<1>12. Listed'
  <2> SUFFICES ASSUME Calm, pc \in Walked PROVE Listed'
    BY <1>4 DEF Listed
  <2>1. entry.serial \notin walk.present
    BY <1>3, <1>4, <1>5 DEF Tells, Opened, Walked
  <2>2. \A n \in Ids(walk.members) : n < nextId /\ n \in Nat
    <3>1. walk.members \in Seq(Serials)
      BY <1>1 DEF Types, Walked
    <3> QED
      BY <3>1, LogAssumption DEF Tells, Listed, Ids, Serials
  <2>3. \A n \in Ids(walk.members) : n < nextId' /\ ~(entry.id < n) /\ ~(entry.id <= n)
    BY <1>2, <1>3, <1>5, <2>2
  <2>7. \A e \in Held' : e.id \in Ids(walk.members) => Meets(e)
    <3>1. entry.id \notin Ids(walk.members)
      BY <1>3, <1>5, <2>3
    <3> QED
      BY <1>2, <3>1 DEF Tells, Listed
  <2>4. \A e \in Held', n \in Ids(walk.members) :
           e.id < n /\ e.serial \notin walk.present /\ Meets(e) => e.id \in Ids(walk.members)
    BY <1>2, <2>3 DEF Tells, Listed
  <2>5. walk.incomplete # "yes" /\ (walk.offset = 0 \/ walk.order = device.order) =>
             \A e \in Held' : e.serial \in walk.present /\ Meets(e) =>
                \/ e.id \in Ids(walk.members)
                \/ walk.offset > 0 /\ \A n \in Ids(walk.members) : e.id < n
    BY <1>2, <2>1 DEF Tells, Listed
  <2>6. \A x, z \in Ids(walk.members) : \A e \in Held' :
              x <= e.id /\ e.id <= z /\ Meets(e) => e.id \in Ids(walk.members)
    BY <1>2, <2>3 DEF Tells, Listed
  <2> QED
    BY <1>4, <1>9, <2>3, <2>4, <2>5, <2>6, <2>7 DEF Listed
<1>13. Seen'
  <2> SUFFICES ASSUME Calm, pc \in Walked PROVE Seen'
    BY <1>4 DEF Seen
  <2>1. \A n \in Ids(walk.members) : n < nextId /\ n \in Nat
    <3>1. walk.members \in Seq(Serials)
      BY <1>1 DEF Types, Walked
    <3> QED
      BY <3>1, LogAssumption DEF Tells, Listed, Ids, Serials
  <2>2. entry.id \notin Ids(walk.members)
    BY <1>3, <1>5, <2>1
  <2>3. /\ \A e \in Held' : e.id \in Visits => e \in Held
        /\ walk.reached = "yes" => \A e \in Held' : e.id = cursor[1].member => e \in Held
    BY <1>2, <2>2 DEF Tells, Seen, Visits
  <2>4. walk.newest # <<>> => Stands(walk.newest[1], walk.newest[2])'
    BY <1>4, <1>7 DEF Tells, Seen
  <2> QED
    BY <1>4, <2>3, <2>4 DEF Tells, Seen, Visits, Before
<1>14. Dated'
  <2>1. peak \in Nat /\ clock <= peak /\ (\A e \in Held : e.at <= peak)
    BY DEF Tells, Dated
  <2>2. \A e \in Held' : e.at <= peak
    BY <1>2, <1>3, <1>5, <2>1
  <2>3. Calm => \A e \in Held' : e.serial \notin known =>
                  Low(e)' \/ \A f \in Held' : f.id <= e.id => f.at <= e.at
    <3> SUFFICES ASSUME Calm, NEW e \in Held', e.serial \notin known, ~Low(e)',
                        NEW f \in Held', f.id <= e.id
                 PROVE  f.at <= e.at
      OBVIOUS
    <3>1. e \in Held /\ ~Low(e)
      BY <1>2, <1>6
    <3>2. f \in Held
      BY <1>2, <1>3, <1>5, <3>1
    <3> QED
      BY <3>1, <3>2 DEF Tells, Dated
  <2> QED
    BY <1>4, <2>1, <2>2, <2>3 DEF Dated
<1>15. Stamped'
  <2> SUFFICES ASSUME Calm, pc = "asking" \/ (pc \in Walking /\ walk.filtered = "yes")
               PROVE  /\ cursor # <<>>
                      /\ pc # "asking" => device.filter \in {"ignored", "honored"}
                      /\ device.filter = "honored" =>
                           /\ Told => cursor[1].at <= clock
                           /\ \A e \in Held' : ~(e.at >= cursor[1].at) =>
                                 e.serial \in known \/ (~Told /\ Low(e)')
    BY <1>4 DEF Stamped, Told
  <2>1. cursor # <<>> /\ cursor[1].at \in Nat
    BY DEF Tells, Stamped, Anchor, Stands
  <2>2. Told => ~(entry.at < cursor[1].at) \/ device.filter # "honored"
    BY <1>3, <1>5, <2>1 DEF Tells, Stamped
  <2>3. entry.at \in Nat
    BY <1>3, <1>5
  <2> QED
    BY <1>2, <1>5, <1>6, <2>1, <2>2, <2>3 DEF Tells, Stamped
<1> QED
  BY <1>2, <1>8, <1>10, <1>11, <1>12, <1>13, <1>14, <1>15 DEF Tells

(* What stands still stands when the clock moves, or the log is cleared. *)
LEMMA ClockStands ==
    ASSUME IInv, Tells, Clear \/ Tick \/ SetBack, raced' = "no", Calm, NEW m, NEW a, Stands(m, a)
    PROVE  Stands(m, a)'
<1>1. /\ \A e \in Held : e.id \in Nat /\ e.at \in Nat /\ e.at <= peak
      /\ nextId \in Nat /\ written \in Nat /\ clock \in Nat /\ peak \in Nat /\ clock <= peak
  BY HeldAre DEF IInv, Tells, Dated
<1>2. device' = device /\ known' = known
  BY DEF Clear, Tick, SetBack
<1>3. CASE Clear
  <2>1. /\ device.steps = "never" /\ Held' = {} /\ nextId' = 1 /\ clock' = clock + 1
        /\ peak' = Most(peak, clock + 1)
    BY <1>3 DEF Clear, Held
  <2> QED
    BY <1>1, <1>2, <2>1 DEF Stands, Most
<1>4. CASE Tick
  <2>1. /\ Held' = Held /\ nextId' = nextId /\ clock' = clock + 1
        /\ peak' = Most(peak, clock + 1) /\ ~Strays
    BY <1>4 DEF Tick, Held
  <2>2. ASSUME NEW e \in Held, e.serial \notin known
        PROVE  Low(e)' \/ e.id <= m \/ a <= e.at
    <3>1. Low(e) \/ e.id <= m \/ a <= e.at
      BY <2>2 DEF Stands
    <3>2. CASE e.at = clock
      <4>1. clock = peak
        BY <1>1, <2>1, <2>2, <3>2 DEF Strays, Held
      <4> QED
        BY <1>1, <3>2, <4>1 DEF Stands
    <3>3. CASE e.at # clock
      BY <1>1, <2>1, <3>1, <3>3 DEF Low
    <3> QED
      BY <3>2, <3>3
  <2>3. m \in Nat /\ a \in Nat /\ a <= peak' /\ (device.steps = "never" => a <= clock + 1)
    BY <1>1, <2>1 DEF Stands, Most
  <2>4. \/ m < nextId /\ \A e \in Held : e.id = m => e.at = a
        \/ device.steps = "never" /\ a < clock + 1 /\ \A e \in Held : e.at > a
    BY <1>1 DEF Stands
  <2> QED
    BY <1>2, <2>1, <2>2, <2>3, <2>4 DEF Stands
<1>5. CASE SetBack
  <2>1. /\ Held' = Held /\ nextId' = nextId /\ clock' = clock - 1 /\ peak' = peak
        /\ device.steps # "never"
    BY <1>5 DEF SetBack, Held
  <2>2. \A e \in Held : Low(e) => Low(e)'
    BY <1>1, <2>1 DEF Low
  <2> QED
    BY <1>1, <1>2, <2>1, <2>2 DEF Stands
<1> QED
  BY <1>3, <1>4, <1>5

(* The clock moves, or the log is cleared: no walk saw it, and the cursor's *)
(* stamp is past.                                                          *)
LEMMA ClockTells == IInv /\ Tells /\ (Clear \/ Tick \/ SetBack) => Tells'
<1> SUFFICES ASSUME IInv, Tells, Clear \/ Tick \/ SetBack PROVE Tells'
  OBVIOUS
<1>1. Types /\ Numbered
  BY DEF IInv, Tells
<1>2. /\ UNCHANGED <<device, written, cursor, pc, walk, known>>
      /\ raced' = "no" => raced = "no"
      /\ \/ Clear /\ device.steps = "never" /\ log' = <<>> /\ nextId' = 1 /\ clock' = clock + 1
            /\ (pc # "idle" => raced' = "yes")
         \/ (Tick \/ SetBack) /\ log' = log /\ nextId' = nextId
            /\ (clock' = clock + 1 \/ (device.steps # "never" /\ (pc # "idle" => raced' = "yes")))
      /\ clock' \in Nat
      /\ Calm' => Calm /\ raced' = "no"
  BY <1>1, LogAssumption DEF Clear, Tick, SetBack, Race, read, Types, Flags, Calm
<1>3. /\ \A e \in Held : e.id \in Nat /\ e.at \in Nat /\ e.at <= peak
      /\ nextId \in Nat /\ written \in Nat /\ clock \in Nat /\ peak \in Nat /\ clock <= peak
  BY <1>1, HeldAre DEF Tells, Dated
<1>4. /\ Calm' /\ cursor # <<>> => Stands(cursor[1].member, cursor[1].at)'
      /\ Calm' /\ pc \in Walked /\ walk.newest # <<>> => Stands(walk.newest[1], walk.newest[2])'
  <2>1. Calm' => \A m, a : Stands(m, a) => Stands(m, a)'
    BY <1>2, ClockStands
  <2> QED
    BY <1>2, <2>1 DEF Tells, Anchor, Seen
<1>5. peak' \in Nat /\ clock' <= peak' /\ peak <= peak'
  <2>1. CASE clock' = clock + 1 /\ peak' = Most(peak, clock + 1)
    BY <1>3, <2>1 DEF Most
  <2>2. CASE clock' = clock - 1 /\ peak' = peak
    BY <1>3, <2>2
  <2> QED
    BY <2>1, <2>2 DEF Clear, Tick, SetBack
<1>6. CASE (Tick \/ SetBack) /\ log' = log /\ nextId' = nextId
  <2>1. Held' = Held /\ Asked' = Asked
    BY <1>2, <1>6 DEF Held, Asked, Base, Matching, Listing
  <2>2. Numbered'
    BY <1>2, <1>3, <1>6, <2>1 DEF Tells, Numbered
  <2>3. Anchor'
    BY <1>2, <1>4, <2>1 DEF Tells, Anchor
  <2>4. \A e : Meets(e)' <=> Meets(e)
    BY <1>2 DEF Meets, MeetsIn
  <2>5. Opened' /\ Segment' /\ Listed'
    BY <1>2, <1>6, <2>1, <2>4 DEF Tells, Opened, Segment, Listed
  <2>6. Seen'
    BY <1>2, <1>4, <1>6, <2>1 DEF Tells, Seen, Visits, Before
  <2>7. Dated'
    <3>1. ASSUME Calm', NEW e \in Held, e.serial \notin known, ~Low(e)',
                 NEW f \in Held, f.id <= e.id
          PROVE  f.at <= e.at
      <4>1. Low(e) \/ f.at <= e.at
        BY <1>2, <3>1 DEF Tells, Dated
      <4>2. CASE Low(e)
        <5>1. Tick /\ clock' = clock + 1 /\ e.at = clock
          <6>0. ~(clock' <= e.at) /\ clock <= e.at
            BY <2>1, <3>1, <4>2 DEF Low
          <6>1. ~(clock' = clock - 1)
            BY <1>3, <3>1, <6>0
          <6>2. Tick /\ clock' = clock + 1
            BY <1>6, <6>1 DEF SetBack, Tick
          <6> QED
            BY <1>3, <3>1, <6>0, <6>2
        <5>2. ~Strays
          BY <1>2, <3>1, <5>1 DEF Tick
        <5>3. clock = peak
          BY <1>3, <3>1, <5>1, <5>2 DEF Strays, Held
        <5> QED
          BY <1>3, <5>1, <5>3
      <4> QED
        BY <4>1, <4>2
    <3>2. \A e \in Held : e.at <= peak'
      BY <1>3, <1>5
    <3> QED
      BY <1>2, <1>5, <2>1, <3>1, <3>2 DEF Dated
  <2>8. Stamped'
    <3> SUFFICES ASSUME Calm', pc = "asking" \/ (pc \in Walking /\ walk.filtered = "yes")
                 PROVE  /\ cursor # <<>>
                        /\ pc # "asking" => device.filter \in {"ignored", "honored"}
                        /\ device.filter = "honored" =>
                             /\ Told => cursor[1].at <= clock'
                             /\ \A e \in Held : ~(e.at >= cursor[1].at) =>
                                   e.serial \in known \/ (~Told /\ Low(e)')
      BY <1>2, <2>1 DEF Stamped, Told
    <3>1. pc # "idle"
      BY DEF Walking
    <3>2. clock' = clock + 1 /\ Tick
      BY <1>2, <1>3, <1>6, <3>1 DEF Clear, Tick, SetBack
    <3>3. cursor # <<>> /\ cursor[1].at \in Nat /\ cursor[1].at <= peak
      BY <1>2 DEF Tells, Stamped, Anchor, Stands
    <3>4. ASSUME NEW e \in Held, ~(e.at >= cursor[1].at), e.serial \notin known, Low(e)
          PROVE  Low(e)'
      <4>1. ~Strays
        BY <1>2, <3>2 DEF Tick
      <4>2. e.at # clock
        BY <1>3, <3>3, <3>4, <4>1 DEF Strays, Held
      <4> QED
        BY <1>3, <2>1, <3>2, <3>4, <4>2 DEF Low
    <3>5. Told /\ device.filter = "honored" => cursor[1].at <= clock
      BY <1>2 DEF Tells, Stamped
    <3> QED
      BY <1>2, <1>3, <3>2, <3>3, <3>4, <3>5 DEF Tells, Stamped
  <2> QED
    BY <2>2, <2>3, <2>5, <2>6, <2>7, <2>8 DEF Tells
<1>7. CASE /\ device.steps = "never" /\ log' = <<>> /\ nextId' = 1 /\ clock' = clock + 1
           /\ pc # "idle" => raced' = "yes"
  <2>1. Held' = {}
    BY <1>7 DEF Held
  <2>2. Numbered'
    BY <1>2, <1>3, <1>7, <2>1 DEF Numbered
  <2>3. Anchor'
    BY <1>2, <1>4, <2>1 DEF Anchor
  <2>4. Dated'
    BY <1>5, <2>1 DEF Dated
  <2>5. Calm' => pc' = "idle"
    BY <1>2, <1>7
  <2>6. Stamped' /\ Opened' /\ Segment' /\ Listed' /\ Seen'
    BY <2>5 DEF Stamped, Opened, Segment, Listed, Seen, Walking, Walked
  <2> QED
    BY <2>2, <2>3, <2>4, <2>6 DEF Tells
<1> QED
  BY <1>2, <1>6, <1>7

(* A step of the poll that ships nothing leaves the log and the cursor. *)
Reads ==
    /\ UNCHANGED <<device, log, nextId, written, clock, peak, cursor, known>>
    /\ raced' = "no" => raced = "no"

(* A step that ships nothing keeps what the cursor says. *)
LEMMA ReadTells ==
    Tells /\ Reads => /\ Numbered' /\ Dated' /\ Anchor' /\ Held' = Held /\ Listing' = Listing
                      /\ (Calm' => Calm) /\ \A m, a : Stands(m, a)' <=> Stands(m, a)
<1> SUFFICES ASSUME Tells, Reads
             PROVE  /\ Numbered' /\ Dated' /\ Anchor' /\ Held' = Held /\ Listing' = Listing
                    /\ (Calm' => Calm) /\ \A m, a : Stands(m, a)' <=> Stands(m, a)
  OBVIOUS
<1>1. Held' = Held /\ Listing' = Listing /\ (Calm' => Calm)
  BY DEF Reads, Held, Listing, Calm
<1>2. \A m, a : Stands(m, a)' <=> Stands(m, a)
  BY <1>1 DEF Reads, Stands, Low
<1>3. Numbered' /\ Dated'
  BY <1>1 DEF Tells, Reads, Numbered, Dated, Low
<1>4. Anchor'
  BY <1>1, <1>2 DEF Tells, Reads, Anchor, Stands
<1> QED
  BY <1>1, <1>2, <1>3, <1>4

(* No walk, nothing to tell of it. *)
LEMMA IdleTells ==
    Tells /\ Reads /\ pc' \notin Walking /\ (pc' = "asking" => pc = "asking") => Tells'
<1> SUFFICES ASSUME Tells, Reads, pc' \notin Walking, pc' = "asking" => pc = "asking" PROVE Tells'
  OBVIOUS
<1>1. Numbered' /\ Dated' /\ Anchor' /\ Held' = Held /\ (Calm' => Calm)
  BY ReadTells
<1>2. Stamped'
  BY <1>1 DEF Tells, Reads, Stamped, Low, Told
<1> QED
  BY <1>1, <1>2 DEF Tells, Opened, Segment, Listed, Seen, Walked, Walking

(* A step that leaves the walk leaves what it tells. *)
LEMMA UndisturbedTells == Tells /\ Reads /\ UNCHANGED <<pc, walk>> => Tells'
<1> SUFFICES ASSUME Tells, Reads, UNCHANGED <<pc, walk>> PROVE Tells'
  OBVIOUS
<1>1. /\ Numbered' /\ Dated' /\ Anchor' /\ Held' = Held /\ Listing' = Listing /\ (Calm' => Calm)
      /\ \A m, a : Stands(m, a)' <=> Stands(m, a)
  BY ReadTells
<1>2. /\ \A e : Meets(e)' <=> Meets(e)
      /\ Asked' = Asked
  BY <1>1 DEF Reads, Meets, MeetsIn, Asked, Base, Matching
<1>3. Stamped' /\ Opened' /\ Segment' /\ Listed'
  BY <1>1, <1>2 DEF Tells, Reads, Stamped, Opened, Segment, Listed, Low, Told
<1>4. Seen'
  BY <1>1 DEF Tells, Reads, Seen, Visits, Before
<1> QED
  BY <1>1, <1>3, <1>4 DEF Tells

(* The service is read: where its entries are asked for by the cursor's    *)
(* stamp, those stamped before it are known.                               *)
LEMMA ReadServiceTells == IInv /\ Tells /\ ReadService => Tells'
<1> SUFFICES ASSUME IInv, Tells, ReadService PROVE Tells'
  OBVIOUS
<1>1. Reads /\ pc' \notin Walking
  BY DEF ReadService, Reads, world, read, history, Walking
<1>2. Numbered' /\ Dated' /\ Anchor' /\ Held' = Held /\ (Calm' => Calm)
  BY <1>1, ReadTells
<1>3. Stamped'
  <2> SUFFICES ASSUME Calm, pc' = "asking"
               PROVE  /\ cursor # <<>>
                      /\ device.filter = "honored" =>
                           /\ Told => cursor[1].at <= clock
                           /\ \A e \in Held : ~(e.at >= cursor[1].at) =>
                                 e.serial \in known \/ (~Told /\ Low(e))
    BY <1>1, <1>2 DEF Stamped, Reads, Told, Low
  <2> DEFINE m == cursor[1].member
             a == cursor[1].at
  <2>1. cursor # <<>> /\ ~ClockBehind
    BY DEF ReadService
  <2>2. Stands(m, a) /\ \A e \in Held : e.id = m /\ e.at = a =>
                           \A f \in Held : f.id <= m => f.serial \in known
    BY <2>1 DEF Tells, Anchor
  <2>3. /\ \A e \in Held : e.id \in Nat /\ e.at \in Nat
        /\ \A e \in Held : \A n \in Nat : e.id <= n /\ n < nextId => \E g \in Held : g.id = n
        /\ clock \in Nat /\ nextId \in Nat
    BY HeldAre DEF IInv, Tells
  <2> HIDE DEF m, a
  <2>4. ASSUME Told PROVE a <= clock
    <3>1. device.steps \in {"never", "told"}
      BY <2>4, LogAssumption DEF Told, IInv, Types, DeviceTypes
    <3>2. device.steps = "told" => ~(clock < a)
      BY <2>1 DEF ClockBehind, a
    <3> QED
      BY <2>2, <2>3, <3>1, <3>2 DEF Stands
  <2>5. ASSUME NEW e \in Held, ~(e.at >= a), e.serial \notin known, Told \/ ~Low(e)
        PROVE  FALSE
    <3>1. e.id <= m /\ m \in Nat /\ a \in Nat
      BY <2>2, <2>3, <2>4, <2>5 DEF Stands, Low
    <3>2. m < nextId /\ \A g \in Held : g.id = m => g.at = a
      BY <2>2, <2>3, <2>5, <3>1 DEF Stands
    <3>3. PICK g \in Held : g.id = m
      BY <2>3, <3>1, <3>2
    <3> QED
      BY <2>2, <2>5, <3>1, <3>2, <3>3
  <2> QED
    BY <2>1, <2>4, <2>5 DEF a
<1> QED
  BY <1>1, <1>2, <1>3 DEF Tells, Opened, Segment, Listed, Seen, Walked, Walking

(* A pass opened: its first page is where what is asked for starts. *)
LEMMA PassTells ==
    ASSUME IInv, Tells, NEW f, f = "yes" => pc = "asking",
           f = "yes" => device.filter \in {"ignored", "honored"},
           walk' = Pass(f), pc' = "paging", UNCHANGED <<world, read, history>>
    PROVE  Tells'
<1> DEFINE base == Base(f)
           first == PageAt(base, 0)
           link == LinkAt(base, 0)
           count == IF link # <<>> /\ device.counts = "yes" THEN Len(base) ELSE 0
<1>1. /\ base \in Seq(Entries) /\ DOMAIN base = 1..Len(base) /\ Len(base) \in Nat
      /\ \A i \in 1..Len(base) : base[i] \in Held
      /\ \A e \in Held : MeetsIn(f, e) => \E i \in 1..Len(base) : e = base[i]
      /\ PageSize \in Nat \ {0} /\ Budget \in Nat \ {0}
  BY BaseNumbers, LogAssumption DEF IInv, Tells
<1>2. Reads
  BY DEF Reads, world, read, history
<1>3. Numbered' /\ Dated' /\ Anchor' /\ Held' = Held /\ (Calm' => Calm)
  BY <1>2, ReadTells
<1>4. /\ walk'.count = count /\ walk'.first = first /\ walk'.members = first
      /\ walk'.link = link /\ walk'.offset = 0 /\ walk'.newest = <<>>
      /\ walk'.filtered = f
      /\ walk'.listed = {base[i].serial : i \in DOMAIN base}
      /\ walk'.present = {log[i].serial : i \in DOMAIN log}
      /\ walk'.skips = {} \/ (/\ walk'.order = "oldest"
                              /\ walk'.skips = BudgetSkip(count) \cup walk'.cursorSkip)
      /\ walk'.cursorSkip \subseteq CursorSkip(first, count)
  BY DEF Pass
<1>5. /\ first \in Seq(Serials)
      /\ Len(first) = Most(0, Least(PageSize, Len(base)))
      /\ \A k \in 1..Len(first) : first[k] = base[k].id
      /\ link = <<>> \/ (PageSize < Len(base) /\ Len(first) = PageSize)
      /\ link = <<>> => ~(PageSize < Len(base))
  <2> HIDE DEF base
  <2>1. /\ first \in Seq(Serials)
        /\ Len(first) = Most(0, Least(PageSize, Len(base) - 0))
        /\ 0 + PageSize < Len(base) => Len(first) = PageSize
        /\ link = <<>> \/ (0 + PageSize < Len(base) /\ link = <<0 + PageSize>>)
    BY <1>1, PageIs
  <2>2. first = [i \in 1..Most(0, Least(PageSize, Len(base) - 0)) |-> base[0 + i].id]
    BY DEF PageAt
  <2>3. \A k \in 1..Len(first) : first[k] = base[k].id
    <3> HIDE DEF first
    <3> SUFFICES ASSUME NEW k \in 1..Len(first) PROVE first[k] = base[k].id
      OBVIOUS
    <3>1. 0 + k = k
      OBVIOUS
    <3> QED
      BY <2>1, <2>2, <3>1
  <2>4. link = <<>> => ~(0 + PageSize < Len(base))
    BY DEF link, LinkAt
  <2> QED
    BY <1>1, <2>1, <2>3, <2>4
<1>6. /\ UNCHANGED <<device, log, cursor, known>>
      /\ Base(f)' = base
  BY <1>2 DEF Reads, Base, Matching, Listing
<1>7. Asked' = base
  BY <1>4, <1>6 DEF Asked
<1> HIDE DEF first, link, base
<1>8. Len(first) <= Len(base)
  <2> DEFINE p == PageSize
             l == Len(base)
  <2>1. p \in Nat /\ l \in Nat /\ Len(first) = Most(0, Least(p, l))
    BY <1>1, <1>5
  <2> HIDE DEF p, l
  <2>2. Most(0, Least(p, l)) <= l
    BY <2>1 DEF Most, Least
  <2> QED
    BY <2>1, <2>2 DEF l
<1>9. /\ \A i \in DOMAIN base : base[i].serial \in walk'.present
      /\ \A e \in Held : e.serial \in walk'.present
      /\ \A e \in Held : MeetsIn(f, e) => e.serial \in walk'.listed
  <2>1. \A e \in Held : e.serial \in walk'.present
    BY <1>4 DEF Held
  <2>2. ASSUME NEW e \in Held, MeetsIn(f, e) PROVE e.serial \in walk'.listed
    <3>1. PICK i \in 1..Len(base) : e = base[i]
      BY <1>1, <2>2
    <3> QED
      BY <1>1, <1>4, <3>1
  <2> QED
    BY <1>1, <2>1, <2>2
<1>10. count <= Len(base) /\ count \in Nat /\ \A k \in walk'.skips : k < count
  <2>1. count \in Nat /\ count <= Len(base)
    BY <1>1 DEF count
  <2> HIDE DEF count
  <2>2. \A k \in BudgetSkip(count) : k < count
    BY <1>1, <2>1 DEF BudgetSkip
  <2>3. \A k \in CursorSkip(first, count) : k < count
    <3>1. CursorSkip(first, count) # {} =>
             /\ CursorSkip(first, count) = {cursor[1].count - 1}
             /\ cursor[1].count - 1 \in Len(first)..(count - 1)
      BY DEF CursorSkip
    <3> QED
      BY <1>5, <2>1, <3>1
  <2> QED
    BY <1>4, <2>1, <2>2, <2>3
<1>11. Opened'
  <2>1. \A n \in walk'.present : n \in Nat /\ n <= written
    <3>1. \A e \in Held : e.serial \in Nat /\ e.serial <= written
      BY HeldAre DEF IInv, Tells
    <3> QED
      BY <1>4, <3>1 DEF Held
  <2>2. \A e : Meets(e)' <=> MeetsIn(f, e)
    BY <1>4, <1>6 DEF Meets, MeetsIn
  <2> QED
    BY <1>2, <1>3, <1>4, <1>9, <2>1, <2>2 DEF Opened, Reads
<1>12. Segment'
  <2>1. \A k \in 1..Len(first) : 0 + k <= Len(base) /\ first[k] = base[0 + k].id
    <3> SUFFICES ASSUME NEW k \in 1..Len(first)
                 PROVE  0 + k <= Len(base) /\ first[k] = base[0 + k].id
      OBVIOUS
    <3>1. 0 + k = k /\ k <= Len(base)
      BY <1>1, <1>5, <1>8
    <3> QED
      BY <1>5, <3>1
  <2>2. link = <<>> => \A i \in DOMAIN base : i <= 0 + Len(first)
    <3> SUFFICES ASSUME link = <<>> PROVE Len(first) = Len(base)
      BY <1>1, <1>5
    <3> QED
      BY <1>1, <1>5 DEF Most, Least
  <2>3. link # <<>> => first # <<>>
    BY <1>1, <1>5
  <2> QED
    BY <1>4, <1>7, <1>9, <1>10, <2>1, <2>2, <2>3 DEF Segment
<1>13. Stamped'
  BY <1>2, <1>3, <1>4 DEF Tells, Stamped, Reads, Low, Told
<1> QED
  BY <1>3, <1>11, <1>12, <1>13 DEF Tells, Listed, Seen, Walked, Walking

(* A jump lands among the members that were there. *)
LEMMA SkipTells == IInv /\ Tells /\ Skip => Tells'
<1> SUFFICES ASSUME IInv, Tells, Skip PROVE Tells'
  OBVIOUS
<1> DEFINE base == Base(walk.filtered)
           skip == Max(walk.skips)
           from == IF device.skip = "ignored" THEN 0 ELSE skip
           tail == PageAt(base, from)
           honored == /\ device.skip # "refused" /\ tail # <<>>
                      /\ walk.first # <<>> => tail[1] # walk.first[1]
           jumped == IF walk.cursorSkip = {skip} THEN "yes" ELSE "no"
<1>1. pc = "paging" /\ walk.skips # {} /\ pc' = pc
  BY DEF Skip
<1>2. skip \in walk.skips /\ skip \in Nat /\ from \in Nat
  BY <1>1, MaxIs DEF IInv, Types
<1>3. Asked = base /\ base \in Seq(Entries) /\ Len(base) \in Nat /\ DOMAIN base = 1..Len(base)
  BY BaseNumbers DEF IInv, Tells, Asked
<1>4. walk' = IF honored
              THEN [walk EXCEPT !.skips = {}, !.members = tail, !.offset = skip,
                                !.link = LinkAt(base, from), !.jumped = jumped]
              ELSE [walk EXCEPT !.skips = {}]
  BY DEF Skip
<1>5. Fields \subseteq DOMAIN walk /\ walk.count \in Nat
  BY <1>1 DEF IInv, Types, Walking
<1>6. Reads
  BY DEF Skip, world, read, history, Reads
<1>7. /\ Numbered' /\ Dated' /\ Anchor' /\ Held' = Held /\ log' = log /\ (Calm' => Calm)
      /\ UNCHANGED <<device, cursor, known>>
      /\ Base(walk.filtered)' = Base(walk'.filtered)
  BY <1>6, ReadTells DEF Reads, Base, Matching, Listing
<1> HIDE DEF skip, from, tail, base
<1>8. /\ tail \in Seq(Serials)
      /\ tail # <<>> => tail[1] = base[from + 1].id
      /\ \A k \in 1..Len(tail) : from + k <= Len(base) /\ tail[k] = base[from + k].id
      /\ LinkAt(base, from) = <<>> => from + Len(tail) >= Len(base)
      /\ LinkAt(base, from) # <<>> => Len(tail) = PageSize
  BY <1>2, <1>3, PageIs DEF tail
<1>9. walk'.filtered = walk.filtered /\ Asked' = Asked /\ \A e : Meets(e)' <=> Meets(e)
  <2>1. walk'.filtered = walk.filtered
    BY <1>4, <1>5 DEF Fields
  <2> QED
    BY <1>7, <2>1 DEF Asked, Base, Matching, Listing, Meets, MeetsIn
<1>10. Opened' /\ Segment'
  <2> SUFFICES ASSUME Calm PROVE Opened' /\ Segment'
    BY <1>7 DEF Opened, Segment
  <2>0. raced = "no"
    BY DEF Calm
  <2>1. /\ walk.first # <<>> /\ walk.first[1] = Asked[1].id
        /\ walk.order = "oldest" /\ skip < walk.count
        /\ \A i \in DOMAIN Asked : i <= walk.count => Asked[i].serial \in walk.present
        /\ walk.newest = <<>>
        /\ \A e \in Held : e.serial \in walk.present /\ Meets(e) => e.serial \in walk.listed
        /\ \A n \in walk.present : n \in Nat /\ n <= written
        /\ \A e \in Held, n \in walk.present : e.serial <= n => e.serial \in walk.present
    BY <1>1, <1>2, <2>0 DEF IInv, Window, Tells, Segment, Opened, Walking
  <2>2. CASE honored
    <3>1. /\ walk'.skips = {} /\ walk'.members = tail /\ walk'.offset = skip
          /\ walk'.link = LinkAt(base, from) /\ walk'.count = walk.count
          /\ walk'.newest = walk.newest /\ walk'.listed = walk.listed
          /\ walk'.present = walk.present /\ walk'.order = walk.order
      BY <1>4, <1>5, <2>2 DEF Fields
    <3>2. from = skip
      BY <1>3, <1>8, <2>1, <2>2 DEF from
    <3>3. Opened'
      BY <1>6, <1>7, <1>9, <2>1, <3>1 DEF Reads, Opened
    <3>4. \A k \in 1..Len(walk'.members) :
             /\ walk'.offset + k <= Len(Asked)
             /\ walk'.members[k] = Asked[walk'.offset + k].id
      BY <1>3, <1>8, <3>1, <3>2
    <3>5. walk'.link = <<>> => \A i \in DOMAIN Asked : i <= walk'.offset + Len(walk'.members)
      <4>1. Len(tail) \in Nat
        BY <1>8
      <4> QED
        BY <1>2, <1>3, <1>8, <3>1, <3>2, <4>1
    <3>6. walk'.members # <<>>
      BY <2>2, <3>1
    <3>7. \A i \in DOMAIN Asked : i <= walk'.offset + 1 => Asked[i].serial \in walk'.present
      BY <1>2, <1>3, <1>5, <2>1, <3>1
    <3>8. walk'.count <= Len(Asked) /\ walk'.newest = <<>>
      BY <1>1, <2>1, <3>1 DEF Tells, Segment
    <3> QED
      BY <1>7, <1>9, <2>1, <3>1, <3>3, <3>4, <3>5, <3>6, <3>7, <3>8 DEF Segment
  <2>3. CASE ~honored
    <3>1. /\ walk'.skips = {} /\ walk'.members = walk.members /\ walk'.offset = walk.offset
          /\ walk'.link = walk.link /\ walk'.count = walk.count
          /\ walk'.newest = walk.newest /\ walk'.listed = walk.listed
          /\ walk'.present = walk.present /\ walk'.order = walk.order
      BY <1>4, <1>5, <2>3 DEF Fields
    <3> QED
      BY <1>1, <1>6, <1>7, <1>9, <3>1 DEF Tells, Reads, Opened, Segment
  <2> QED
    BY <2>2, <2>3
<1>11. Stamped'
  BY <1>1, <1>6, <1>7, <1>9 DEF Tells, Stamped, Reads, Low, Told
<1> QED
  BY <1>1, <1>7, <1>10, <1>11 DEF Tells, Listed, Seen, Walked

(* The members of two sequences, one behind the other. *)
LEMMA Joined ==
    ASSUME NEW S, NEW s \in Seq(S), NEW t \in Seq(S)
    PROVE  /\ Len(s \o t) = Len(s) + Len(t)
           /\ \A i \in 1..Len(s) : (s \o t)[i] = s[i]
           /\ \A i \in (Len(s) + 1)..(Len(s) + Len(t)) : (s \o t)[i] = t[i - Len(s)]
  OBVIOUS

(* A page followed continues the segment. *)
LEMMA FollowLinkTells == IInv /\ Tells /\ FollowLink => Tells'
<1> SUFFICES ASSUME IInv, Tells, FollowLink PROVE Tells'
  OBVIOUS
<1>1. pc = "paging" /\ pc' = "paging" /\ walk.skips = {} /\ walk.link # <<>>
  BY DEF FollowLink
<1>2. PICK n \in Nat : walk.link = <<n>>
  BY <1>1 DEF IInv, Types
<1> DEFINE base == Base(walk.filtered)
           page == PageAt(base, n)
<1>3. /\ Asked = base /\ base \in Seq(Entries) /\ Len(base) \in Nat
      /\ DOMAIN base = 1..Len(base) /\ PageSize \in Nat \ {0}
  BY BaseNumbers, LogAssumption DEF IInv, Tells, Asked
<1>4. walk' = IF page = <<>> THEN [walk EXCEPT !.link = <<>>, !.incomplete = "yes"]
              ELSE [walk EXCEPT !.members = walk.members \o page, !.link = LinkAt(base, n)]
  BY <1>2 DEF FollowLink
<1>5. Fields \subseteq DOMAIN walk /\ walk.members \in Seq(Serials) /\ walk.offset \in Nat
  BY <1>1 DEF IInv, Types, Walking
<1>6. Reads
  BY DEF FollowLink, world, read, history, Reads
<1>7. /\ Numbered' /\ Dated' /\ Anchor' /\ Held' = Held /\ log' = log /\ (Calm' => Calm)
      /\ UNCHANGED <<device, cursor, known>>
      /\ Base(walk.filtered)' = Base(walk'.filtered)
  BY <1>6, ReadTells DEF Reads, Base, Matching, Listing
<1> HIDE DEF page, base
<1>8. /\ page \in Seq(Serials)
      /\ Len(page) = Most(0, Least(PageSize, Len(base) - n))
      /\ \A k \in 1..Len(page) : n + k <= Len(base) /\ page[k] = base[n + k].id
      /\ LinkAt(base, n) = <<>> => n + Len(page) >= Len(base)
  BY <1>2, <1>3, PageIs DEF page
<1>9. walk'.filtered = walk.filtered /\ Asked' = Asked /\ \A e : Meets(e)' <=> Meets(e)
  <2>1. walk'.filtered = walk.filtered
    BY <1>4, <1>5 DEF Fields
  <2> QED
    BY <1>7, <2>1 DEF Asked, Base, Matching, Listing, Meets, MeetsIn
<1>10. Opened' /\ Segment'
  <2> SUFFICES ASSUME Calm PROVE Opened' /\ Segment'
    BY <1>7 DEF Opened, Segment
  <2>1. n = walk.offset + Len(walk.members) /\ n < Len(base)
    BY <1>1, <1>2, <1>3 DEF IInv, Window, Calm
  <2>2. page # <<>>
    <3>1. Len(page) > 0
      BY <1>2, <1>3, <1>8, <2>1 DEF Most, Least
    <3> QED
      BY <3>1
  <2>3. /\ walk'.skips = walk.skips /\ walk'.members = walk.members \o page
        /\ walk'.offset = walk.offset
        /\ walk'.link = LinkAt(base, n) /\ walk'.count = walk.count
        /\ walk'.newest = walk.newest /\ walk'.listed = walk.listed
        /\ walk'.present = walk.present /\ walk'.order = walk.order
    BY <1>4, <1>5, <2>2 DEF Fields
  <2>4. Opened'
    BY <1>1, <1>6, <1>7, <1>9, <2>3 DEF Reads, Tells, Opened, Walking
  <2> DEFINE l == Len(walk.members)
  <2>5. /\ l \in Nat /\ Len(page) \in Nat /\ Len(walk'.members) = l + Len(page)
        /\ \A k \in 1..l : walk'.members[k] = walk.members[k]
        /\ \A k \in (l + 1)..(l + Len(page)) : walk'.members[k] = page[k - l]
    <3>1. /\ Len(walk.members \o page) = Len(walk.members) + Len(page)
          /\ \A i \in 1..Len(walk.members) : (walk.members \o page)[i] = walk.members[i]
          /\ \A i \in (Len(walk.members) + 1)..(Len(walk.members) + Len(page)) :
                (walk.members \o page)[i] = page[i - Len(walk.members)]
      BY <1>5, <1>8, Joined
    <3>2. Len(walk.members) \in Nat /\ Len(page) \in Nat
      BY <1>5, <1>8
    <3> QED
      BY <2>3, <3>1, <3>2
  <2> HIDE DEF l
  <2>6. ASSUME NEW k \in 1..Len(walk'.members)
        PROVE  /\ walk.offset + k <= Len(Asked)
               /\ walk'.members[k] = Asked[walk.offset + k].id
    <3>1. CASE k \in 1..l
      BY <1>1, <2>5, <3>1 DEF Tells, Segment, l
    <3>2. CASE k \in (l + 1)..(l + Len(page))
      <4>1. k - l \in 1..Len(page) /\ n + (k - l) = walk.offset + k
        BY <1>5, <2>1, <2>5, <3>2 DEF l
      <4>2. n + (k - l) <= Len(base) /\ page[k - l] = base[n + (k - l)].id
        BY <1>8, <4>1
      <4> QED
        BY <1>3, <2>5, <3>2, <4>1, <4>2
    <3> QED
      BY <2>5, <2>6, <3>1, <3>2
  <2>7. walk'.link = <<>> => \A i \in DOMAIN Asked : i <= walk.offset + Len(walk'.members)
    <3> SUFFICES ASSUME walk'.link = <<>> PROVE Len(base) <= walk.offset + Len(walk'.members)
      BY <1>3, <1>5, <2>5 DEF l
    <3>1. n + Len(page) >= Len(base)
      BY <1>8, <2>3
    <3>2. n + Len(page) = walk.offset + Len(walk'.members)
      BY <1>5, <2>1, <2>5 DEF l
    <3> QED
      BY <1>3, <3>1, <3>2
  <2>8. walk.members # <<>> /\ walk'.members # <<>>
    <3>1. walk.members # <<>>
      BY <1>1 DEF Tells, Segment
    <3>2. l # 0
      BY <1>5, <3>1 DEF l
    <3>3. Len(walk'.members) # 0
      BY <2>5, <3>2
    <3> QED
      BY <3>1, <3>3
  <2>9. Segment'
    BY <1>1, <1>7, <1>9, <2>3, <2>6, <2>7, <2>8 DEF Tells, Segment
  <2> QED
    BY <2>4, <2>9
<1>11. Stamped'
  BY <1>1, <1>6, <1>7, <1>9 DEF Tells, Stamped, Reads, Low, Told
<1> QED
  BY <1>1, <1>7, <1>10, <1>11 DEF Tells, Listed, Seen, Walked

(* The order a walk takes is one of the two. *)
Ordered ==
    /\ cursor # <<>> => cursor[1].order \in Orders
    /\ pc \in {"opening", "asking", "heading"} =>
         /\ "forced" \in DOMAIN walk
         /\ walk.forced = {} \/ \E o \in Orders : walk.forced = {o}
    /\ pc \in Walking => walk.order \in Orders

(* collect_entries takes one order, and one of the two. *)
LEMMA ChosenIs ==
    ASSUME Ordered, pc \in {"asking", "heading"}, NEW first
    PROVE  \E o \in Orders : Chosen(walk.forced, first) = {o}
<1>1. HintedBy(first) = {} \/ \E o \in Orders : HintedBy(first) = {o}
  BY DEF HintedBy, Orders
<1> QED
  BY <1>1 DEF Chosen, Remembered, Ordered, Orders

(* What is asked for, by number: its ids rise or fall with the index. *)
LEMMA AskedAre ==
    ASSUME IInv, Tells
    PROVE  /\ DOMAIN Asked = 1..Len(Asked) /\ Len(Asked) \in Nat
           /\ \A i \in 1..Len(Asked) : Asked[i] \in Held /\ Asked[i].id \in Nat
           /\ \A i, j \in 1..Len(Asked) :
                 IF device.order = "oldest" THEN Asked[i].id < Asked[j].id <=> i < j
                 ELSE Asked[i].id < Asked[j].id <=> j < i
           /\ \A e \in Held : Meets(e) => \E i \in 1..Len(Asked) : e = Asked[i]
           /\ \A i \in 1..Len(Asked) : Meets(Asked[i])
<1>1. /\ DOMAIN Asked = 1..Len(Asked) /\ Len(Asked) \in Nat
      /\ \A i \in 1..Len(Asked) : Asked[i] \in Held
      /\ \A i, j \in 1..Len(Asked) :
             i < j => IF device.order = "oldest" THEN Asked[i].id < Asked[j].id
                      ELSE Asked[j].id < Asked[i].id
      /\ \A e \in Held : Meets(e) => \E i \in 1..Len(Asked) : e = Asked[i]
      /\ \A i \in 1..Len(Asked) : Meets(Asked[i])
  BY BaseNumbers DEF IInv, Tells, Asked, Meets
<1>2. \A i \in 1..Len(Asked) : Asked[i].id \in Nat
  BY <1>1, HeldAre DEF IInv, Tells
<1>3. ASSUME NEW i \in 1..Len(Asked), NEW j \in 1..Len(Asked)
      PROVE  IF device.order = "oldest" THEN Asked[i].id < Asked[j].id <=> i < j
             ELSE Asked[i].id < Asked[j].id <=> j < i
  <2>1. i \in Nat /\ j \in Nat /\ Asked[i].id \in Nat /\ Asked[j].id \in Nat
    BY <1>1, <1>2
  <2>2. /\ i < j => IF device.order = "oldest" THEN Asked[i].id < Asked[j].id
                    ELSE Asked[j].id < Asked[i].id
        /\ j < i => IF device.order = "oldest" THEN Asked[j].id < Asked[i].id
                    ELSE Asked[i].id < Asked[j].id
        /\ i = j => Asked[i].id = Asked[j].id
    BY <1>1
  <2> DEFINE x == Asked[i].id
             y == Asked[j].id
  <2> HIDE DEF x, y
  <2>3. x \in Nat /\ y \in Nat
    BY <2>1 DEF x, y
  <2>4. /\ i < j => IF device.order = "oldest" THEN x < y ELSE y < x
        /\ j < i => IF device.order = "oldest" THEN y < x ELSE x < y
        /\ i = j => x = y
    BY <2>2 DEF x, y
  <2>5. IF device.order = "oldest" THEN x < y <=> i < j ELSE x < y <=> j < i
    BY <2>1, <2>3, <2>4
  <2> QED
    BY <2>5 DEF x, y
<1> QED
  BY <1>1, <1>2, <1>3

(* The pages over: what there is to visit, in the order of the visit. *)
LEMMA PagesOverTells == IInv /\ Tells /\ Ordered /\ PagesOver => Tells'
<1> SUFFICES ASSUME IInv, Tells, Ordered, PagesOver PROVE Tells'
  OBVIOUS
<1> DEFINE l == Len(walk.members)
           o == walk.offset
<1>1. pc = "paging" /\ pc' = "visiting" /\ walk.order \in Orders
  BY DEF PagesOver, Ordered, Walking
<1>2. /\ Fields \subseteq DOMAIN walk /\ walk.members \in Seq(Serials)
      /\ o \in Nat /\ l \in Nat /\ DOMAIN walk.members = 1..l
  BY <1>1 DEF IInv, Types, Walking
<1>3. /\ walk'.todo = IF walk.order = "oldest" THEN Reverse(walk.members) ELSE walk.members
      /\ walk'.incomplete = IF walk.link # <<>> THEN "yes" ELSE walk.incomplete
      /\ \A f \in Fields \ {"todo", "incomplete"} : walk'[f] = walk[f]
  BY <1>2 DEF PagesOver, Fields
<1>4. /\ walk'.members = walk.members /\ walk'.offset = walk.offset
      /\ walk'.order = walk.order /\ walk'.present = walk.present
      /\ walk'.listed = walk.listed /\ walk'.newest = walk.newest
      /\ walk'.reached = walk.reached /\ walk'.filtered = walk.filtered
  BY <1>3 DEF Fields
<1>5. Reads
  BY DEF PagesOver, world, read, history, Reads
<1>6. Numbered' /\ Dated' /\ Anchor' /\ Held' = Held /\ (Calm' => Calm)
  BY <1>5, ReadTells
<1>7. \A e : Meets(e)' <=> Meets(e)
  BY <1>4, <1>5 DEF Reads, Meets, MeetsIn
<1>8. Stamped'
  BY <1>1, <1>4, <1>5, <1>6 DEF Tells, Stamped, Reads, Walking, Low, Told
<1> SUFFICES ASSUME Calm PROVE Opened' /\ Listed' /\ Seen'
  BY <1>1, <1>6, <1>8 DEF Tells, Opened, Listed, Seen, Segment
<1>9. /\ DOMAIN Asked = 1..Len(Asked) /\ Len(Asked) \in Nat
      /\ \A i \in 1..Len(Asked) : Asked[i] \in Held /\ Asked[i].id \in Nat
      /\ \A i, j \in 1..Len(Asked) :
            IF device.order = "oldest" THEN Asked[i].id < Asked[j].id <=> i < j
            ELSE Asked[i].id < Asked[j].id <=> j < i
      /\ \A e \in Held : Meets(e) => \E i \in 1..Len(Asked) : e = Asked[i]
  BY AskedAre
<1>10. \A k \in 1..l : /\ o + k \in 1..Len(Asked)
                       /\ walk.members[k] = Asked[o + k].id /\ walk.members[k] \in Nat
  <2>1. \A k \in 1..l : o + k <= Len(Asked) /\ walk.members[k] = Asked[o + k].id
    BY <1>1 DEF Tells, Segment
  <2> HIDE DEF l, o
  <2>2. \A k \in 1..l : o + k \in 1..Len(Asked)
    BY <1>2, <1>9, <2>1
  <2> QED
    BY <1>9, <2>1, <2>2
<1>11. \A n \in Ids(walk.members) : \E k \in 1..l : n = walk.members[k]
  BY <1>2 DEF Ids
<1>12. \A i \in 1..Len(Asked) : o < i /\ i <= o + l => Asked[i].id \in Ids(walk.members)
  <2> SUFFICES ASSUME NEW i \in 1..Len(Asked), o < i, i <= o + l
               PROVE  Asked[i].id \in Ids(walk.members)
    OBVIOUS
  <2>1. i - o \in 1..l /\ o + (i - o) = i
    BY <1>2
  <2> QED
    BY <1>2, <1>10, <2>1 DEF Ids
<1> HIDE DEF l, o
<1>13. Opened'
  BY <1>1, <1>4, <1>5, <1>6, <1>7 DEF Reads, Tells, Opened, Walking
<1>14. Listed'
  <2>1. \A n \in Ids(walk.members) : n < nextId
    BY <1>9, <1>10, <1>11, HeldAre DEF IInv, Tells
  <2>2. ASSUME NEW x \in Ids(walk.members), NEW z \in Ids(walk.members),
               NEW e \in Held, x <= e.id, e.id <= z, Meets(e)
        PROVE  e.id \in Ids(walk.members)
    <3>1. PICK i \in 1..Len(Asked) : e = Asked[i]
      BY <1>9, <2>2
    <3>2. PICK k \in 1..l : x = Asked[o + k].id /\ o + k \in 1..Len(Asked)
      BY <1>10, <1>11
    <3>3. PICK j \in 1..l : z = Asked[o + j].id /\ o + j \in 1..Len(Asked)
      BY <1>10, <1>11
    <3>4. ~(Asked[i].id < Asked[o + k].id) /\ ~(Asked[o + j].id < Asked[i].id)
      BY <1>9, <2>2, <3>1, <3>2, <3>3
    <3>5. \/ ~(i < o + k) /\ ~(o + j < i)
          \/ ~(o + k < i) /\ ~(i < o + j)
      <4>1. CASE device.order = "oldest"
        BY <1>9, <3>2, <3>3, <3>4, <4>1
      <4>2. CASE device.order # "oldest"
        BY <1>9, <3>2, <3>3, <3>4, <4>2
      <4> QED
        BY <4>1, <4>2
    <3>6. o < i /\ i <= o + l
      BY <1>2, <1>9, <3>2, <3>3, <3>5
    <3> QED
      BY <1>12, <3>1, <3>6
  <2>3. ASSUME NEW e \in Held, NEW n \in Ids(walk.members), e.id < n,
               e.serial \notin walk.present, Meets(e)
        PROVE  e.id \in Ids(walk.members)
    <3>1. PICK i \in 1..Len(Asked) : e = Asked[i]
      BY <1>9, <2>3
    <3>2. PICK k \in 1..l : n = Asked[o + k].id /\ o + k \in 1..Len(Asked)
      BY <1>10, <1>11
    <3>3. /\ o + 1 \in 1..Len(Asked)
          /\ \A j \in 1..Len(Asked) : j <= o + 1 => Asked[j].serial \in walk.present
      <4>1. 1 \in 1..l
        BY <1>2, <3>2
      <4>2. walk.members # <<>>
        BY <1>2, <4>1
      <4>3. \A j \in DOMAIN Asked : j <= o + 1 => Asked[j].serial \in walk.present
        BY <1>1, <4>2 DEF Tells, Segment, o
      <4> QED
        BY <1>9, <1>10, <4>1, <4>3
    <3>4. o + 1 < i
      BY <1>2, <1>9, <2>3, <3>1, <3>3
    <3>5. CASE device.order = "oldest"
      <4>1. i < o + k
        BY <1>9, <2>3, <3>1, <3>2, <3>5
      <4>2. i <= o + l /\ o < i
        BY <1>2, <1>9, <3>4, <4>1
      <4> QED
        BY <1>12, <3>1, <4>2
    <3>6. CASE device.order # "oldest"
      <4>1. e.id < Asked[o + 1].id
        BY <1>9, <3>1, <3>3, <3>4, <3>6
      <4>2. e.serial < Asked[o + 1].serial /\ e.serial \in Nat /\ Asked[o + 1].serial \in Nat
        BY <1>9, <3>3, <4>1, HeldAre DEF IInv, Tells
      <4>3. Asked[o + 1].serial \in walk.present
        BY <1>2, <3>3
      <4>4. \A g \in Held, m \in walk.present : g.serial <= m => g.serial \in walk.present
        BY <1>1 DEF Tells, Opened, Walking
      <4>5. e.serial \in walk.present
        BY <4>2, <4>3, <4>4
      <4> QED
        BY <2>3, <4>5
    <3> QED
      BY <3>5, <3>6
  <2>4. ASSUME walk'.incomplete # "yes", o = 0 \/ walk.order = device.order,
               NEW e \in Held, e.serial \in walk.present, Meets(e)
        PROVE  e.id \in Ids(walk.members) \/ (o > 0 /\ \A n \in Ids(walk.members) : e.id < n)
    <3>1. PICK i \in 1..Len(Asked) : e = Asked[i]
      BY <1>9, <2>4
    <3>2. walk.link = <<>>
      BY <1>3, <2>4
    <3>3. i <= o + l
      BY <1>1, <1>9, <2>4, <3>1, <3>2 DEF Tells, Segment, o, l
    <3>4. CASE o < i
      BY <1>12, <3>1, <3>3, <3>4
    <3>5. CASE ~(o < i)
      <4>1. o > 0 /\ o # 0
        BY <1>2, <1>9, <3>5
      <4>2. walk.order = "oldest"
        BY <1>1, <4>1 DEF Tells, Opened, Walking, o
      <4>3. device.order = "oldest"
        BY <2>4, <4>1, <4>2
      <4>4. \A k \in 1..l : Asked[i].id < Asked[o + k].id
        <5>1. \A k \in 1..l : i < o + k
          BY <1>2, <1>9, <3>5
        <5> QED
          BY <1>9, <1>10, <4>3, <5>1
      <4> QED
        BY <1>10, <1>11, <3>1, <4>1, <4>4
    <3> QED
      BY <3>4, <3>5
  <2>5. nextId' = nextId /\ device' = device
    BY <1>5 DEF Reads
  <2>6. ASSUME NEW e \in Held, e.id \in Ids(walk.members) PROVE Meets(e)
    <3>1. PICK k \in 1..l : e.id = Asked[o + k].id /\ o + k \in 1..Len(Asked)
      BY <1>10, <1>11, <2>6
    <3>2. Asked[o + k] \in Held /\ Meets(Asked[o + k])
      BY <3>1, AskedAre
    <3>3. e.at = Asked[o + k].at
      BY <3>1, <3>2, HeldAre DEF IInv, Tells
    <3> QED
      BY <3>2, <3>3 DEF Meets, MeetsIn
  <2> QED
    BY <1>4, <1>6, <1>7, <2>1, <2>2, <2>3, <2>4, <2>5, <2>6 DEF Listed, o
<1>15. Seen'
  <2>1. /\ DOMAIN walk'.todo = 1..l
        /\ \A k \in 1..l : walk'.todo[k] = IF walk.order = "oldest" THEN walk.members[(l - k) + 1]
                                           ELSE walk.members[k]
    <3>1. Reverse(walk.members) = [k \in 1..l |-> walk.members[(l - k) + 1]]
      BY DEF Reverse, l
    <3> QED
      BY <1>2, <1>3, <3>1
  <2>2. Ids(walk'.todo) = Ids(walk.members)
    <3>1. \A k \in 1..l : (l - k) + 1 \in 1..l /\ (l - ((l - k) + 1)) + 1 = k
      BY <1>2
    <3>2. CASE walk.order = "oldest"
      <4>1. \A k \in 1..l : /\ walk'.todo[k] = walk.members[(l - k) + 1]
                            /\ walk.members[k] = walk'.todo[(l - k) + 1]
        BY <2>1, <3>1, <3>2
      <4>2. \A k \in 1..l : /\ walk'.todo[k] \in Ids(walk.members)
                            /\ walk.members[k] \in Ids(walk'.todo)
        BY <1>2, <2>1, <3>1, <4>1 DEF Ids
      <4>3. /\ Ids(walk'.todo) \subseteq Ids(walk.members)
            /\ Ids(walk.members) \subseteq Ids(walk'.todo)
        <5>1. /\ Ids(walk'.todo) = {walk'.todo[k] : k \in 1..l}
              /\ Ids(walk.members) = {walk.members[k] : k \in 1..l}
          BY <1>2, <2>1 DEF Ids
        <5> QED
          BY <4>2, <5>1
      <4> QED
        BY <4>3
    <3>3. CASE walk.order # "oldest"
      BY <1>2, <2>1, <3>3 DEF Ids
    <3> QED
      BY <3>2, <3>3
  <2>3. \A j, k \in 1..l : IF device.order = "oldest"
                           THEN walk.members[j] < walk.members[k] <=> j < k
                           ELSE walk.members[j] < walk.members[k] <=> k < j
    <3> SUFFICES ASSUME NEW j \in 1..l, NEW k \in 1..l
                 PROVE  IF device.order = "oldest"
                           THEN walk.members[j] < walk.members[k] <=> j < k
                           ELSE walk.members[j] < walk.members[k] <=> k < j
      OBVIOUS
    <3>1. /\ walk.members[j] = Asked[o + j].id /\ walk.members[k] = Asked[o + k].id
          /\ o + j \in 1..Len(Asked) /\ o + k \in 1..Len(Asked)
      BY <1>10
    <3>2. IF device.order = "oldest" THEN Asked[o + j].id < Asked[o + k].id <=> o + j < o + k
          ELSE Asked[o + j].id < Asked[o + k].id <=> o + k < o + j
      BY <1>9, <3>1
    <3>3. (o + j < o + k <=> j < k) /\ (o + k < o + j <=> k < j)
      BY <1>2
    <3> QED
      BY <3>1, <3>2, <3>3
  <2>4. ASSUME NEW j \in 1..l, NEW k \in 1..l, j < k
        PROVE  IF walk.order = device.order THEN walk'.todo[j] > walk'.todo[k]
               ELSE walk'.todo[j] < walk'.todo[k]
    <3>1. device.order \in Orders
      BY LogAssumption DEF IInv, Types, DeviceTypes, Orders
    <3>2. (l - j) + 1 \in 1..l /\ (l - k) + 1 \in 1..l /\ (l - k) + 1 < (l - j) + 1
      BY <1>2, <2>4
    <3>3. \A i \in 1..l : walk.members[i] \in Nat
      BY <1>10
    <3>4. CASE walk.order = "oldest"
      <4>1. walk'.todo[j] = walk.members[(l - j) + 1] /\ walk'.todo[k] = walk.members[(l - k) + 1]
        BY <2>1, <3>4
      <4>2. CASE device.order = "oldest"
        <5>1. walk.members[(l - k) + 1] < walk.members[(l - j) + 1]
          BY <2>3, <3>2, <4>2
        <5> QED
          BY <3>2, <3>3, <3>4, <4>1, <4>2, <5>1
      <4>3. CASE device.order # "oldest"
        <5>1. walk.members[(l - j) + 1] < walk.members[(l - k) + 1]
          BY <2>3, <3>2, <4>3
        <5> QED
          BY <3>4, <4>1, <4>3, <5>1
      <4> QED
        BY <4>2, <4>3
    <3>5. CASE walk.order # "oldest"
      <4>1. walk'.todo[j] = walk.members[j] /\ walk'.todo[k] = walk.members[k]
        BY <2>1, <3>5
      <4>2. CASE device.order = "oldest"
        <5>1. walk.members[j] < walk.members[k]
          BY <2>3, <2>4, <4>2
        <5> QED
          BY <3>5, <4>1, <4>2, <5>1
      <4>3. CASE device.order # "oldest"
        <5>1. walk.members[k] < walk.members[j]
          BY <2>3, <2>4, <4>3
        <5>2. walk.order = device.order
          BY <1>1, <3>1, <3>5, <4>3 DEF Orders
        <5> QED
          BY <3>3, <4>1, <5>1, <5>2
      <4> QED
        BY <4>2, <4>3
    <3> QED
      BY <3>4, <3>5
  <2>5. walk.reached = "no" /\ walk.newest = <<>>
    BY <1>1 DEF IInv, Window, Tells, Segment, Calm
  <2>6. device' = device
    BY <1>5 DEF Reads
  <2>7. Visits' = {}
    BY <1>4, <2>2 DEF Visits
  <2>8. \A j, k \in DOMAIN walk'.todo : j < k => Before(walk.todo[j], walk.todo[k])'
    BY <1>4, <2>1, <2>4, <2>6 DEF Before
  <2>9. walk'.visited + Len(walk'.todo) = Len(walk'.members)
    <3>1. IInv' /\ raced' = "no"
      BY PagesOverStep DEF Calm, PagesOver, history
    <3> QED
      BY <1>1, <3>1 DEF IInv, Visit, Walked, Walking
  <2> QED
    BY <1>4, <2>2, <2>5, <2>7, <2>8, <2>9 DEF Seen, Flags
<1> QED
  BY <1>13, <1>14, <1>15

(* A member visited is accounted for, unless it is the cursor's. *)
LEMMA OneVisitTells ==
    ASSUME IInv, Tells, Reads, Calm', pc = "visiting", pc' \in {"visiting", "judging"},
           walk.todo # <<>>, walk'.todo = Tail(walk.todo), walk'.visited = walk.visited + 1,
           walk'.reached \in Flags,
           \A f \in {"members", "order", "offset", "incomplete", "listed", "present",
                    "filtered"} : walk'[f] = walk[f],
           walk.records \subseteq walk'.records, walk.issues \subseteq walk'.issues,
           \A e \in Held : e.id = Member /\ (walk'.reached = "yes" => cursor[1].member # Member)
                           => e.serial \in walk'.records \cup walk'.issues,
           \/ walk'.newest = walk.newest
           \/ \E e \in Held : e.id = Member /\ walk'.newest = <<e.id, e.at>>,
           walk'.reached = "yes" =>
              /\ cursor # <<>> /\ cursor[1].member = Member /\ walk'.newest = walk.newest
              /\ \A e \in Held : e.id = Member => e.at = cursor[1].at
    PROVE  Tells'
<1>1. Numbered' /\ Dated' /\ Anchor' /\ Held' = Held /\ Calm /\ raced = "no"
  BY ReadTells DEF Calm
<1>2. /\ walk'.members = walk.members /\ walk'.order = walk.order /\ walk'.offset = walk.offset
      /\ walk'.incomplete = walk.incomplete /\ walk'.listed = walk.listed
      /\ walk'.present = walk.present /\ walk'.filtered = walk.filtered
  OBVIOUS
<1>3. UNCHANGED <<device, nextId, written, clock, cursor, known>>
  BY DEF Reads
<1>4. Opened' /\ Listed' /\ Segment' /\ Stamped'
  <2>1. \A e : Meets(e)' <=> Meets(e)
    BY <1>2, <1>3 DEF Meets, MeetsIn
  <2>2. Opened' /\ Listed' /\ Segment'
    BY <1>1, <1>2, <1>3, <2>1 DEF Tells, Opened, Listed, Segment, Walked, Walking
  <2>3. Stamped'
    BY <1>1, <1>2, <1>3 DEF Tells, Stamped, Walking, Low, Told
  <2> QED
    BY <2>2, <2>3
<1>5. /\ walk.todo \in Seq(Serials) /\ Tail(walk.todo) \in Seq(Serials)
      /\ Member = walk.todo[1] /\ Len(walk.todo) \in Nat /\ Len(walk.todo) > 0
      /\ DOMAIN walk.todo = 1..Len(walk.todo)
      /\ DOMAIN walk'.todo = 1..(Len(walk.todo) - 1)
      /\ \A k \in DOMAIN walk'.todo : walk'.todo[k] = walk.todo[k + 1]
      /\ Len(walk'.todo) = Len(walk.todo) - 1
  <2>1. walk.todo \in Seq(Serials)
    BY DEF IInv, Types, Walking
  <2>2. /\ Tail(walk.todo) \in Seq(Serials) /\ Len(Tail(walk.todo)) = Len(walk.todo) - 1
        /\ \A k \in 1..Len(Tail(walk.todo)) : Tail(walk.todo)[k] = walk.todo[k + 1]
        /\ Head(walk.todo) = walk.todo[1]
    BY <2>1, HeadTailProperties
  <2>3. Len(walk.todo) \in Nat /\ Len(walk.todo) > 0
    BY <2>1
  <2> QED
    BY <2>1, <2>2, <2>3 DEF Member
<1>6. /\ Ids(walk.todo) \subseteq Ids(walk.members)
      /\ \A k, l \in DOMAIN walk.todo : k < l => Before(walk.todo[k], walk.todo[l])
      /\ \A m \in Visits, t \in Ids(walk.todo) : Before(m, t)
      /\ \A e \in Held :
            e.id \in Visits /\ (walk.reached = "yes" => e.id # cursor[1].member)
              => e.serial \in walk.records \cup walk.issues
      /\ walk.newest # <<>> =>
           walk.newest[1] \in Visits /\ Stands(walk.newest[1], walk.newest[2])
  BY <1>1 DEF Tells, Seen, Walked, Walking
<1>7. /\ Member \in Ids(walk.todo) /\ Member \in Nat
      /\ Ids(walk'.todo) \subseteq Ids(walk.todo)
      /\ \A t \in Ids(walk.todo) : t = Member \/ t \in Ids(walk'.todo)
      /\ \A t \in Ids(walk'.todo) : Before(Member, t) /\ t \in Nat
  <2>1. 1 \in DOMAIN walk.todo
    BY <1>5
  <2>2. \A k \in DOMAIN walk'.todo : k + 1 \in DOMAIN walk.todo /\ 1 < k + 1
    BY <1>5
  <2>3. \A k \in DOMAIN walk.todo : k = 1 \/ (/\ k - 1 \in DOMAIN walk'.todo
                                              /\ walk'.todo[k - 1] = walk.todo[k])
    <3> SUFFICES ASSUME NEW k \in DOMAIN walk.todo, k # 1
                 PROVE  k - 1 \in DOMAIN walk'.todo /\ walk'.todo[k - 1] = walk.todo[k]
      OBVIOUS
    <3>1. k - 1 \in DOMAIN walk'.todo /\ (k - 1) + 1 = k
      BY <1>5
    <3> QED
      BY <1>5, <3>1
  <2>4. \A k \in DOMAIN walk.todo : walk.todo[k] \in Nat
    <3>1. \A k \in DOMAIN walk.todo : walk.todo[k] \in Serials
      BY <1>5
    <3> QED
      BY <3>1, LogAssumption DEF Serials
  <2>5. Member \in Ids(walk.todo) /\ Member \in Nat
    BY <1>5, <2>1, <2>4 DEF Ids
  <2>6. Ids(walk'.todo) \subseteq Ids(walk.todo)
    BY <1>5, <2>2 DEF Ids
  <2>7. \A t \in Ids(walk.todo) : t = Member \/ t \in Ids(walk'.todo)
    <3> SUFFICES ASSUME NEW k \in DOMAIN walk.todo, k # 1 PROVE walk.todo[k] \in Ids(walk'.todo)
      BY <1>5 DEF Ids
    <3>1. k - 1 \in DOMAIN walk'.todo /\ walk'.todo[k - 1] = walk.todo[k]
      BY <2>3
    <3> QED
      BY <3>1 DEF Ids
  <2>8. \A t \in Ids(walk'.todo) : Before(Member, t) /\ t \in Nat
    <3> SUFFICES ASSUME NEW k \in DOMAIN walk'.todo
                 PROVE  Before(Member, walk'.todo[k]) /\ walk'.todo[k] \in Nat
      BY DEF Ids
    <3>1. k + 1 \in DOMAIN walk.todo /\ 1 < k + 1 /\ walk'.todo[k] = walk.todo[k + 1]
      BY <1>5, <2>2
    <3> QED
      BY <1>5, <1>6, <2>1, <2>4, <3>1
  <2> QED
    BY <2>5, <2>6, <2>7, <2>8
<1>8. /\ Visits' \subseteq Visits \cup {Member} /\ Visits \subseteq Visits' /\ Member \in Visits'
  <2>1. Member \notin Ids(walk'.todo)
    BY <1>7 DEF Before
  <2> QED
    BY <1>2, <1>6, <1>7, <2>1 DEF Visits
<1>9. Seen'
  <2>1. \A k, l \in DOMAIN walk'.todo : k < l => Before(walk'.todo[k], walk'.todo[l])
    <3> SUFFICES ASSUME NEW k \in DOMAIN walk'.todo, NEW l \in DOMAIN walk'.todo, k < l
                 PROVE  Before(walk'.todo[k], walk'.todo[l])
      OBVIOUS
    <3>1. k + 1 \in DOMAIN walk.todo /\ l + 1 \in DOMAIN walk.todo /\ k + 1 < l + 1
      BY <1>5
    <3>2. walk'.todo[k] = walk.todo[k + 1] /\ walk'.todo[l] = walk.todo[l + 1]
      BY <1>5
    <3> QED
      BY <1>6, <3>1, <3>2
  <2>2. \A m \in Visits', t \in Ids(walk'.todo) : Before(m, t)
    BY <1>6, <1>7, <1>8
  <2>3. \A e \in Held :
            e.id \in Visits' /\ (walk'.reached = "yes" => e.id # cursor[1].member)
              => e.serial \in walk'.records \cup walk'.issues
    <3> SUFFICES ASSUME NEW e \in Held, e.id \in Visits',
                        walk'.reached = "yes" => e.id # cursor[1].member
                 PROVE  e.serial \in walk'.records \cup walk'.issues
      OBVIOUS
    <3>1. CASE e.id = Member
      BY <3>1
    <3>2. CASE e.id \in Visits
      <4>1. walk.reached # "yes"
        BY <1>1 DEF IInv, Visit, Walked, Walking
      <4> QED
        BY <1>6, <3>2, <4>1
    <3> QED
      BY <1>8, <3>1, <3>2
  <2>4. walk'.newest # <<>> =>
           walk'.newest[1] \in Visits' /\ Stands(walk'.newest[1], walk'.newest[2])
    <3>1. CASE walk'.newest = walk.newest
      BY <1>6, <1>8, <3>1
    <3>2. ASSUME NEW e \in Held, e.id = Member, walk'.newest = <<e.id, e.at>>
          PROVE  walk'.newest[1] \in Visits' /\ Stands(walk'.newest[1], walk'.newest[2])
      <4>1. e.id \in Nat /\ e.at \in Nat /\ e.id < nextId
        BY HeldAre DEF IInv, Tells
      <4>2. /\ device.steps = "never" => e.at <= clock
            /\ e.at <= peak
            /\ \A g \in Held : g.id = e.id => g.at = e.at
        BY HeldAre DEF IInv, Tells, Numbered, Dated
      <4>3. walk'.newest[1] = e.id /\ walk'.newest[2] = e.at
        BY <3>2
      <4>4. \A g \in Held : g.serial \notin known => Low(g) \/ g.id <= e.id \/ e.at <= g.at
        <5> SUFFICES ASSUME NEW g \in Held, g.serial \notin known, ~Low(g), ~(g.id <= e.id)
                     PROVE  e.at <= g.at
          OBVIOUS
        <5>1. e.id <= g.id
          BY <4>1, HeldAre DEF IInv, Tells
        <5> QED
          BY <1>1, <5>1 DEF Tells, Dated
      <4>5. Stands(e.id, e.at)
        BY <4>1, <4>2, <4>4 DEF Stands
      <4> QED
        BY <1>8, <3>2, <4>3, <4>5
    <3> QED
      BY <3>1, <3>2
  <2>5. walk'.reached = "yes" =>
           /\ cursor # <<>> /\ cursor[1].member \in Visits'
           /\ \A e \in Held : e.id = cursor[1].member => e.at = cursor[1].at
           /\ walk'.newest # <<>> => Before(walk'.newest[1], cursor[1].member)
    BY <1>6, <1>7, <1>8
  <2>6. Ids(walk'.todo) \subseteq Ids(walk.members)
    BY <1>6, <1>7
  <2>9. walk'.visited + Len(walk'.todo) = Len(walk'.members)
    <3>1. walk.visited \in Nat /\ walk.visited + Len(walk.todo) = Len(walk.members)
      BY <1>1 DEF IInv, Types, Tells, Seen, Walked, Walking
    <3>2. \A v, t \in Nat : t > 0 => (v + 1) + (t - 1) = v + t
      OBVIOUS
    <3>3. walk'.members = walk.members /\ walk'.visited = walk.visited + 1
      BY <1>2
    <3>4. (walk.visited + 1) + (Len(walk.todo) - 1) = walk.visited + Len(walk.todo)
      BY <1>5, <3>1, <3>2
    <3> QED
      BY <1>5, <3>1, <3>3, <3>4
  <2>7. \A x, y : Before(x, y) <=> IF walk'.order = device'.order THEN x > y ELSE x < y
    BY <1>2, <1>3 DEF Before
  <2>8. \A x, y : Stands(x, y)' <=> Stands(x, y)
    BY ReadTells
  <2>10. walk'.newest # <<>> => Stands(walk.newest[1], walk.newest[2])'
    <3>1. walk'.newest # <<>> => Stands(walk'.newest[1], walk'.newest[2])
      BY <2>4
    <3>2. UNCHANGED <<device, log, nextId, clock, peak, known>>
      BY DEF Reads
    <3> QED
      BY <1>1, <3>1, <3>2 DEF Stands, Low
  <2> QED
    BY <1>1, <1>2, <1>3, <2>1, <2>2, <2>3, <2>4, <2>5, <2>6, <2>7, <2>9, <2>10
       DEF Seen, Ids, Before
<1> QED
  BY <1>1, <1>4, <1>9 DEF Tells

(* The visit goes on or ends. *)
LEMMA VisitTells ==
    IInv /\ Tells /\ (Exhausted \/ VisitRefused \/ VisitMember \/ VisitOver) => Tells'
<1> SUFFICES ASSUME IInv, Tells, Exhausted \/ VisitRefused \/ VisitMember \/ VisitOver
             PROVE  Tells'
  OBVIOUS
<1>1. pc = "visiting" /\ pc' \in {"visiting", "judging"}
  BY DEF Exhausted, VisitRefused, VisitMember, VisitOver, Visiting, Reach
<1>2. Reads
  BY DEF Exhausted, VisitRefused, VisitMember, VisitOver, world, read, history, Reads
<1>3. Fields \subseteq DOMAIN walk
  BY <1>1 DEF IInv, Types, Walking
<1>4. Numbered' /\ Dated' /\ Anchor' /\ Held' = Held /\ (Calm' => Calm)
  BY <1>2, ReadTells
<1> SUFFICES ASSUME Calm' PROVE Tells'
  BY <1>1, <1>4 DEF Tells, Stamped, Opened, Segment, Listed, Seen
<1>5. Calm /\ raced = "no" /\ raced' = "no"
  BY <1>4 DEF Calm
<1>6. CASE Exhausted \/ VisitOver
  <2>1. \A f \in Fields \ {"stopped", "late"} : walk'[f] = walk[f]
    BY <1>3, <1>6 DEF Exhausted, VisitOver, Fields
  <2>2. /\ walk'.members = walk.members /\ walk'.order = walk.order
        /\ walk'.offset = walk.offset /\ walk'.incomplete = walk.incomplete
        /\ walk'.listed = walk.listed /\ walk'.present = walk.present
        /\ walk'.todo = walk.todo /\ walk'.records = walk.records
        /\ walk'.issues = walk.issues /\ walk'.newest = walk.newest
        /\ walk'.visited = walk.visited
        /\ walk'.reached = walk.reached /\ walk'.filtered = walk.filtered
    BY <2>1 DEF Fields
  <2>3. Opened' /\ Segment' /\ Listed' /\ Stamped'
    <3>1. \A e : Meets(e)' <=> Meets(e)
      BY <1>2, <2>2 DEF Reads, Meets, MeetsIn
    <3>2. Opened' /\ Segment' /\ Listed'
      BY <1>1, <1>2, <1>4, <1>5, <2>2, <3>1
         DEF Reads, Tells, Opened, Segment, Listed, Walked, Walking
    <3>3. Stamped'
      BY <1>1, <1>2, <1>4, <1>5, <2>2 DEF Reads, Tells, Stamped, Walking, Low, Told
    <3> QED
      BY <3>2, <3>3
  <2>4. Seen'
    BY <1>1, <1>2, <1>4, <1>5, <2>2
       DEF Reads, Tells, Seen, Visits, Before, Stands, Walked, Walking, Low
  <2> QED
    BY <1>4, <2>3, <2>4 DEF Tells
<1>7. ASSUME walk.todo # <<>>
      PROVE  /\ Visited.todo = Tail(walk.todo) /\ Visited.visited = walk.visited + 1
             /\ \A f \in Fields \ {"todo", "visited"} : Visited[f] = walk[f]
             /\ DOMAIN Visited = DOMAIN walk
  BY <1>3 DEF Visited, Fields
<1>8. \A e \in Held : e.id = Member <=> \E i \in Found(Member) : e = log[i]
  BY DEF Held, Found
<1>9. CASE VisitRefused
  <2>1. walk.todo # <<>>
    BY <1>9 DEF VisitRefused, Visiting
  <2> DEFINE all == {log[i].serial : i \in Found(Member)}
  <2>2. /\ Reported(Visited).todo = Tail(walk.todo)
        /\ Reported(Visited).visited = walk.visited + 1
        /\ Reported(Visited).issues = walk.issues \cup all
        /\ \A f \in Fields \ {"todo", "visited", "issues"} : Reported(Visited)[f] = walk[f]
        /\ DOMAIN Reported(Visited) = DOMAIN walk
    BY <1>3, <1>7, <2>1 DEF Reported, Fields
  <2> DEFINE v == Reported(Visited)
  <2> HIDE DEF v
  <2>3. /\ IsCursor => Reach(v)
        /\ ~IsCursor => walk' = v
        /\ ~Mistaken
    BY <1>5, <1>9 DEF VisitRefused, v
  <2>4. ASSUME Reach(v)
        PROVE  walk'.reached = "yes" /\ \A f \in Fields \ {"reached", "stalled"} : walk'[f] = v[f]
    BY <1>3, <2>2, <2>4 DEF Reach, Fields, v
  <2>5. /\ walk'.todo = Tail(walk.todo) /\ walk'.issues = walk.issues \cup all
        /\ walk'.records = walk.records /\ walk'.newest = walk.newest
        /\ \A f \in {"members", "order", "offset", "incomplete", "listed", "present",
                 "filtered"} :
              walk'[f] = walk[f]
        /\ walk'.reached = "yes" => IsCursor
        /\ walk'.visited = walk.visited + 1 /\ walk'.reached \in Flags
    <3>1. walk.reached = "no"
      BY <1>1, <1>5 DEF IInv, Visit, Walked, Walking
    <3> QED
      BY <2>2, <2>3, <2>4, <3>1 DEF Fields, Flags, v
  <2>6. \A e \in Held : e.id = Member => e.serial \in all
    BY <1>8
  <2>7. walk'.reached = "yes" => /\ cursor # <<>> /\ cursor[1].member = Member
                                /\ \A e \in Held : e.id = Member => e.at = cursor[1].at
    BY <1>8, <2>3, <2>5 DEF IsCursor, Mistaken
  <2> HIDE DEF all
  <2> QED
    BY <1>1, <1>2, <2>1, <2>5, <2>6, <2>7, OneVisitTells
<1>10. CASE VisitMember
  <2>1. walk.todo # <<>> /\ Found(Member) # {}
    BY <1>10 DEF VisitMember, Visiting
  <2> DEFINE entry == Entry(Member)
             x == IF Placed(entry) = "refilled" THEN "yes" ELSE Visited.refilled
             marked == [Visited EXCEPT !.refilled = x]
  <2>2. entry \in Held /\ entry.id = Member
    <3>1. \E i \in Found(Member) : entry = log[i]
      BY <2>1 DEF Entry
    <3> QED
      BY <3>1 DEF Held, Found
  <2>3. \A e \in Held : e.id = Member => e = entry
    BY <2>2, HeldAre DEF IInv, Tells
  <2>4. walk.reached = "no"
    BY <1>1, <1>5 DEF IInv, Visit, Walked, Walking
  <2>5. CASE Placed(entry) = "covered"
    <3>1. Reach(Visited)
      BY <1>10, <2>5 DEF VisitMember
    <3>2. walk'.reached = "yes" /\ \A f \in Fields \ {"reached", "stalled"} : walk'[f] = Visited[f]
      BY <1>3, <1>7, <2>1, <3>1 DEF Reach, Fields
    <3>3. /\ walk'.todo = Tail(walk.todo) /\ walk'.issues = walk.issues
          /\ walk'.visited = walk.visited + 1
          /\ walk'.records = walk.records /\ walk'.newest = walk.newest
          /\ \A f \in {"members", "order", "offset", "incomplete", "listed", "present",
                 "filtered"} :
                walk'[f] = walk[f]
      BY <1>7, <2>1, <3>2 DEF Fields
    <3>4. cursor # <<>> /\ cursor[1].member = Member /\ entry.at = cursor[1].at
      BY <2>5 DEF Placed, IsCursor
    <3>5. \A e \in Held : e.id = Member => e.at = cursor[1].at
      BY <2>3, <3>4
    <3> QED
      BY <1>1, <1>2, <2>1, <3>2, <3>3, <3>4, <3>5, OneVisitTells DEF Flags
  <2>6. CASE Placed(entry) # "covered"
    <3>1. walk' = Projected(marked, entry)
      BY <1>10, <2>6 DEF VisitMember
    <3>2. /\ marked.todo = Tail(walk.todo) /\ marked.visited = walk.visited + 1
          /\ DOMAIN marked = DOMAIN walk
          /\ \A f \in Fields \ {"todo", "visited", "refilled"} : marked[f] = walk[f]
      BY <1>3, <1>7, <2>1 DEF Fields
    <3> HIDE DEF marked, entry
    <3>3. /\ walk'.todo = Tail(walk.todo) /\ walk'.visited = walk.visited + 1
          /\ \A f \in Fields \ {"todo", "visited", "refilled", "records", "issues", "newest"} :
                walk'[f] = walk[f]
          /\ \/ /\ walk'.records = walk.records \cup {entry.serial}
                /\ walk'.issues = walk.issues
                /\ walk'.newest = IF walk.newest = <<>> THEN <<entry.id, entry.at>>
                                  ELSE walk.newest
             \/ /\ walk'.issues = walk.issues \cup {entry.serial}
                /\ walk'.records = walk.records /\ walk'.newest = walk.newest
      BY <1>3, <3>1, <3>2 DEF Projected, Fields
    <3>4. /\ \A f \in {"members", "order", "offset", "incomplete", "listed", "present",
                 "filtered"} :
                walk'[f] = walk[f]
          /\ walk'.reached = walk.reached
      BY <3>3 DEF Fields
    <3>5. /\ walk.records \subseteq walk'.records /\ walk.issues \subseteq walk'.issues
          /\ entry.serial \in walk'.records \cup walk'.issues
          /\ \/ walk'.newest = walk.newest
             \/ walk'.newest = <<entry.id, entry.at>>
      BY <3>3
    <3>6. \A e \in Held : e.id = Member => e.serial \in walk'.records \cup walk'.issues
      BY <2>3, <3>5 DEF entry
    <3>7. \/ walk'.newest = walk.newest
          \/ \E e \in Held : e.id = Member /\ walk'.newest = <<e.id, e.at>>
      BY <2>2, <3>5 DEF entry
    <3> QED
      BY <1>1, <1>2, <2>1, <2>4, <3>3, <3>4, <3>5, <3>6, <3>7, OneVisitTells DEF Flags
  <2> QED
    BY <2>5, <2>6
<1> QED
  BY <1>6, <1>9, <1>10

(* A walk judged, as it is. *)
LEMMA JudgedTells ==
    ASSUME Tells, Reads, pc \in Walked, pc' \in Walked, walk' = walk
    PROVE  Tells'
<1>1. /\ Numbered' /\ Dated' /\ Anchor' /\ Held' = Held /\ (Calm' => Calm)
      /\ \A m, a : Stands(m, a)' <=> Stands(m, a)
  BY ReadTells
<1>2. \A e : Meets(e)' <=> Meets(e)
  BY DEF Reads, Meets, MeetsIn
<1>3. Opened' /\ Segment' /\ Listed'
  BY <1>1, <1>2 DEF Tells, Reads, Opened, Segment, Listed, Walked, Walking
<1>4. Stamped'
  BY <1>1 DEF Tells, Reads, Stamped, Walked, Walking, Low, Told
<1>5. Seen'
  BY <1>1 DEF Tells, Reads, Seen, Visits, Before, Stands, Walked, Walking
<1> QED
  BY <1>1, <1>3, <1>4, <1>5 DEF Tells

(* What a filter leaves out is known, or later than what it keeps. *)
LEMMA UnaskedAre ==
    ASSUME IInv, Tells, Calm, pc \in Walking, NEW e \in Held, ~Meets(e)
    PROVE  e.serial \in known \/ (~Told /\ \A f \in Held : Meets(f) => f.id < e.id)
<1>1. walk.filtered = "yes" /\ device.filter # "ignored" /\ ~(e.at >= cursor[1].at)
  BY DEF Meets, MeetsIn
<1>2. device.filter = "honored" /\ cursor # <<>>
  BY <1>1 DEF Tells, Stamped, Walking
<1>3. e.serial \in known \/ (~Told /\ Low(e))
  BY <1>1, <1>2 DEF Tells, Stamped
<1>4. cursor[1].at \in Nat /\ \A f \in Held : f.id \in Nat /\ f.at \in Nat
  BY <1>2, HeldAre DEF IInv, Tells, Anchor, Stands
<1>5. ASSUME Low(e), NEW f \in Held, Meets(f)
      PROVE  f.id < e.id
  BY <1>1, <1>4, <1>5 DEF Low, Meets, MeetsIn
<1> QED
  BY <1>3, <1>5

(* What is shipped: members seen, down to the cursor's or to the end. *)
LEMMA ShippedAre ==
    ASSUME IInv, Tells, pc = "shipping", Calm, ~Truncated
    PROVE  /\ walk.incomplete # "yes"
           /\ \A e \in Held : e.id \in Visits /\ (walk.reached = "yes" => e.id # cursor[1].member)
                               => e.serial \in walk.records \cup walk.issues
           /\ walk.reached = "no" => walk.offset = 0 /\ Visits = Ids(walk.members)
           /\ walk.reached = "yes" =>
                /\ cursor[1].member \in Visits /\ cursor[1].member \in Nat
                /\ \A f \in Held : f.id <= cursor[1].member => f.serial \in known
                /\ \A n \in Ids(walk.members) \ Visits : Before(cursor[1].member, n)
           /\ walk.reached \in Flags
<1>1. pc \in Walked /\ pc \in Walking
  BY DEF Walked, Walking
<1>2. /\ walk.offset \in Nat /\ walk.visited \in Nat
      /\ walk.members \in Seq(Serials) /\ walk.todo \in Seq(Serials)
      /\ Len(walk.members) \in Nat /\ Len(walk.todo) \in Nat
  BY <1>1 DEF IInv, Types
<1>3. /\ walk.reached \in Flags /\ walk.visited + Len(walk.todo) = Len(walk.members)
      /\ Ids(walk.todo) \subseteq Ids(walk.members)
      /\ \A m \in Visits, t \in Ids(walk.todo) : Before(m, t)
      /\ \A e \in Held :
              e.id \in Visits /\ (walk.reached = "yes" => e.id # cursor[1].member)
                => e.serial \in walk.records \cup walk.issues
      /\ walk.reached = "yes" =>
             /\ cursor # <<>> /\ cursor[1].member \in Visits
             /\ \A e \in Held : e.id = cursor[1].member => e.at = cursor[1].at
  BY <1>1 DEF Tells, Seen
<1>4. ASSUME walk.reached = "no" PROVE walk.offset = 0 /\ Visits = Ids(walk.members)
  <2>1. walk.offset = 0 /\ Len(walk.todo) = 0
    BY <1>2, <1>3, <1>4 DEF Truncated
  <2>2. Ids(walk.todo) = {}
    BY <1>2, <2>1 DEF Ids
  <2> QED
    BY <2>1, <2>2 DEF Visits
<1>5. ASSUME walk.reached = "yes", NEW f \in Held, f.id <= cursor[1].member
      PROVE  f.serial \in known
  <2>1. cursor[1].member \in Nat /\ cursor # <<>>
    BY <1>3, <1>5 DEF Tells, Anchor, Stands
  <2>2. cursor[1].member < nextId
    BY <1>1, <1>3, <1>5 DEF Tells, Listed, Visits
  <2>3. PICK g \in Held : g.id = cursor[1].member
    BY <1>5, <2>1, <2>2, HeldAre DEF IInv, Tells
  <2>4. g.at = cursor[1].at
    BY <1>3, <1>5, <2>3
  <2> QED
    BY <1>5, <2>1, <2>3, <2>4 DEF Tells, Anchor
<1>6. ASSUME walk.reached = "yes"
      PROVE  /\ cursor[1].member \in Visits /\ cursor[1].member \in Nat
             /\ \A n \in Ids(walk.members) \ Visits : Before(cursor[1].member, n)
  BY <1>3, <1>6 DEF Visits, Tells, Anchor, Stands
<1> QED
  BY <1>3, <1>4, <1>5, <1>6 DEF Truncated

(* The cursor moves past nothing that is not known. *)
LEMMA ShipTells == IInv /\ Tells /\ Ship => Tells'
<1> SUFFICES ASSUME IInv, Tells, Ship PROVE Tells'
  OBVIOUS
<1>1. /\ pc = "shipping" /\ pc' = "idle" /\ cursor' = After
      /\ known' = known \cup walk.records \cup walk.issues \cup LeftOut
      /\ UNCHANGED <<device, log, nextId, written, clock, peak, raced>>
  BY DEF Ship, world
<1>2. Held' = Held /\ Numbered' /\ known \subseteq known' /\ (Calm' <=> Calm)
  BY <1>1 DEF Tells, Numbered, Held, Calm
<1>3. Dated'
  BY <1>1, <1>2 DEF Tells, Dated, Low
<1>4. \A x, y : Stands(x, y) => Stands(x, y)'
  BY <1>1, <1>2 DEF Stands, Low
<1>5. Anchor'
  <2> SUFFICES ASSUME Calm, After # <<>> PROVE Anchor'
    BY <1>1, <1>2 DEF Anchor
  <2>1. CASE walk.newest # <<>>
    <3> DEFINE m == walk.newest[1]
               a == walk.newest[2]
    <3>1. After[1].member = m /\ After[1].at = a
      BY <2>1 DEF After
    <3>2. /\ Stands(m, a) /\ m \in Ids(walk.members) /\ m \in Visits
          /\ walk.reached = "yes" => Before(m, cursor[1].member)
      BY <1>1, <2>1 DEF Tells, Seen, Visits, Walked, Walking
    <3>3. ASSUME NEW f \in Held, f.id <= m PROVE f.serial \in known'
      <4>1. f.id \in Nat /\ m \in Nat
        BY <3>2, HeldAre DEF IInv, Tells, Stands
      <4>2. CASE ~Meets(f)
        <5>1. m < nextId
          BY <1>1, <3>2 DEF Tells, Listed, Walked, Walking
        <5>2. PICK g \in Held : g.id = m
          BY <3>3, <4>1, <5>1, HeldAre DEF IInv, Tells
        <5>3. Meets(g)
          BY <1>1, <3>2, <5>2 DEF Tells, Listed, Walked, Walking
        <5> QED
          BY <1>1, <1>2, <3>3, <4>1, <4>2, <5>2, <5>3, UnaskedAre DEF Walking
      <4>3. CASE Meets(f)
        <5>1. f.serial \in walk.present \/ f.id \in Ids(walk.members)
          BY <1>1, <3>2, <3>3, <4>1, <4>3 DEF Tells, Listed, Walked, Walking
        <5>2. CASE Truncated
          <6>1. f.serial \in walk.present => f.serial \in walk.listed
            BY <1>1, <4>3 DEF Tells, Opened, Walking
          <6>2. f.id \in Ids(walk.members) => f.serial \in {log[i].serial : i \in Paged}
            <7>1. PICK i \in DOMAIN log : f = log[i]
              BY DEF Held
            <7> QED
              BY <7>1 DEF Paged, Ids
          <6> QED
            BY <1>1, <5>1, <5>2, <6>1, <6>2 DEF LeftOut
        <5>3. CASE ~Truncated /\ walk.reached = "no"
          <6>1. f.id \in Ids(walk.members)
            BY <1>1, <4>3, <5>1, <5>3, ShippedAre DEF Tells, Listed, Walked, Walking
          <6> QED
            BY <1>1, <5>3, <6>1, ShippedAre
        <5>4. CASE ~Truncated /\ walk.reached = "yes"
          <6> DEFINE c == cursor[1].member
          <6>1. /\ c \in Visits /\ c \in Nat
                /\ \A g \in Held : g.id <= c => g.serial \in known
                /\ \A n \in Ids(walk.members) \ Visits : Before(c, n)
                /\ \A e \in Held :
                     e.id \in Visits /\ e.id # c => e.serial \in walk.records \cup walk.issues
            BY <1>1, <5>4, ShippedAre
          <6> HIDE DEF c
          <6>2. CASE f.id <= c
            BY <1>1, <6>1, <6>2
          <6>3. CASE f.id > c
            <7>1. c <= f.id /\ f.id <= m /\ c \in Ids(walk.members)
              BY <3>3, <4>1, <6>1, <6>3 DEF Visits
            <7>2. f.id \in Ids(walk.members)
              BY <1>1, <3>2, <4>3, <7>1 DEF Tells, Listed, Walked, Walking
            <7>3. walk.order = device.order
              BY <3>2, <3>3, <4>1, <5>4, <6>1, <6>3 DEF Before, c
            <7>4. f.id \in Visits
              BY <4>1, <6>1, <6>3, <7>2, <7>3 DEF Before
            <7> QED
              BY <1>1, <4>1, <6>1, <6>3, <7>4
          <6> QED
            BY <4>1, <6>1, <6>2, <6>3
        <5> QED
          BY <1>1, <5>2, <5>3, <5>4, ShippedAre DEF Flags
      <4> QED
        BY <4>2, <4>3
    <3>4. After[1] = cursor'[1] /\ cursor'[1].member = m /\ cursor'[1].at = a
      BY <1>1, <3>1
    <3>5. Stands(cursor[1].member, cursor[1].at)'
      <4> HIDE DEF m, a
      <4>1. cursor'[1].member = m /\ cursor'[1].at = a
        BY <3>4
      <4>2. Stands(m, a)
        BY <3>2
      <4>3. \A x, y : Stands(x, y) => Stands(x, y)'
        BY <1>4
      <4> QED
        BY <1>1, <1>2, <4>1, <4>2 DEF Stands, Low
    <3> QED
      BY <1>1, <1>2, <3>3, <3>4, <3>5 DEF Anchor
  <2>2. CASE walk.newest = <<>>
    <3>1. /\ cursor # <<>> /\ After[1].member = cursor[1].member
          /\ After[1].at = cursor[1].at
      BY <2>2 DEF After
    <3>2. Stands(cursor[1].member, cursor[1].at)
      BY <3>1 DEF Tells, Anchor
    <3>3. Stands(cursor[1].member, cursor[1].at)'
      BY <1>1, <1>2, <3>1, <3>2 DEF Stands, Low
    <3> QED
      BY <1>1, <1>2, <3>1, <3>3 DEF Tells, Anchor
  <2> QED
    BY <2>1, <2>2
<1> QED
  BY <1>1, <1>2, <1>3, <1>5 DEF Tells, Stamped, Opened, Segment, Listed, Seen, Walking, Walked

(* No order is taken before a pass, nor remembered before a cursor. *)
LEMMA InitiallyOrdered == Init => Ordered
  BY DEF Init, Ordered, Walking

(* Every order a pass may take is one of the two. *)
LEMMA OrderedStays == IInv /\ Ordered /\ [Next]_vars => Ordered'
<1> SUFFICES ASSUME IInv, Ordered, [Next]_vars PROVE Ordered'
  OBVIOUS
<1>1. CASE \/ Write \/ Clear \/ Tick \/ SetBack \/ Overlap \/ UNCHANGED vars
  <2>1. UNCHANGED <<cursor, pc, walk>>
    BY <1>1 DEF Write, Clear, Tick, SetBack, Overlap, vars, read
  <2> QED
    BY <2>1 DEF Ordered
<1>2. CASE Begin \/ ReadService \/ Fail
  BY <1>2 DEF Begin, ReadService, Fail, NoWalk, read, Ordered, Walking
<1>3. ASSUME pc \in {"asking", "heading"}, NEW f, walk' = Pass(f)
      PROVE  walk'.order \in Orders
  <2>1. PICK o \in Orders : Chosen(walk.forced, PageAt(Base(f), 0)) = {o}
    BY <1>3, ChosenIs
  <2>2. walk'.order = CHOOSE x \in {o} : TRUE
    BY <1>3, <2>1 DEF Pass
  <2> QED
    BY <2>1, <2>2
<1>4. CASE AskFilter
  <2>1. pc = "asking" /\ cursor' = cursor
    BY <1>4 DEF AskFilter, read
  <2>2. CASE walk' = Pass("yes") /\ pc' = "paging"
    BY <1>3, <2>1, <2>2 DEF Ordered
  <2>3. CASE pc' = "heading" /\ (walk' = walk \/ walk' = [walk EXCEPT !.refused = "yes"])
    BY <2>1, <2>3 DEF Ordered, Walking
  <2> QED
    BY <1>4, <2>2, <2>3 DEF AskFilter
<1>5. CASE OpenHead
  BY <1>3, <1>5 DEF OpenHead, Ordered, read
<1>6. ASSUME pc \in Walking, pc' \in Walking, cursor' = cursor, walk'.order = walk.order
      PROVE  Ordered'
  BY <1>6 DEF Ordered, Walking
<1>7. CASE Skip \/ FollowLink \/ PagesOver
  <2>1. pc = "paging" /\ pc' \in Walking /\ cursor' = cursor
    BY <1>7 DEF Skip, FollowLink, PagesOver, read, Walking
  <2>2. Fields \subseteq DOMAIN walk
    BY <2>1 DEF IInv, Types, Walking
  <2>3. walk'.order = walk.order
    BY <1>7, <2>2 DEF Skip, FollowLink, PagesOver, Fields
  <2> QED
    BY <1>6, <2>1, <2>3 DEF Walking
<1>8. CASE Exhausted \/ VisitRefused \/ VisitMember \/ VisitOver
  <2>1. pc = "visiting" /\ pc' \in Walking /\ cursor' = cursor
    BY <1>8 DEF Exhausted, VisitRefused, VisitMember, VisitOver, Visiting, Reach, read, Walking
  <2>2. "order" \in DOMAIN walk
    BY <2>1 DEF IInv, Types, Walking, Fields
  <2>3. Visited.order = walk.order /\ "order" \in DOMAIN Visited
    BY <2>2 DEF Visited
  <2>4. CASE Exhausted \/ VisitOver
    BY <1>6, <2>1, <2>2, <2>4 DEF Exhausted, VisitOver, Walking
  <2>5. ASSUME NEW v, v.order = walk.order, "order" \in DOMAIN v, Reach(v)
        PROVE  walk'.order = walk.order
    BY <2>5 DEF Reach
  <2>6. CASE VisitRefused
    <3>1. Reported(Visited).order = walk.order /\ "order" \in DOMAIN Reported(Visited)
      BY <2>3 DEF Reported
    <3>2. walk'.order = walk.order
      BY <2>5, <2>6, <3>1 DEF VisitRefused
    <3> QED
      BY <1>6, <2>1, <3>2 DEF Walking
  <2>7. CASE VisitMember
    <3> DEFINE entry == Entry(Member)
               x == IF Placed(entry) = "refilled" THEN "yes" ELSE Visited.refilled
               marked == [Visited EXCEPT !.refilled = x]
    <3>1. marked.order = walk.order /\ "order" \in DOMAIN marked
      BY <2>3
    <3>2. Reach(Visited) \/ walk' = Projected(marked, entry)
      BY <2>7 DEF VisitMember
    <3> HIDE DEF marked, entry
    <3>3. Projected(marked, entry).order = walk.order
      BY <3>1 DEF Projected
    <3>4. walk'.order = walk.order
      BY <2>3, <2>5, <3>2, <3>3
    <3> QED
      BY <1>6, <2>1, <3>4 DEF Walking
  <2> QED
    BY <1>8, <2>4, <2>6, <2>7
<1>9. CASE Rewalk \/ ProbeFlips
  BY <1>9 DEF Rewalk, ProbeFlips, Again, Flipped, Ordered, Orders, Walking, read
<1>10. CASE Doubt \/ Settle \/ ProbeStands \/ ProbeRefused
  BY <1>6, <1>10 DEF Doubt, Settle, ProbeStands, ProbeRefused, Walking, read
<1>11. CASE Ship
  <2>1. pc = "shipping" /\ pc' = "idle" /\ cursor' = After
    BY <1>11 DEF Ship
  <2>2. walk.order \in Orders
    BY <2>1 DEF Ordered, Walking
  <2>3. After # <<>> => After[1].order = walk.order
    BY DEF After
  <2> QED
    BY <2>1, <2>2, <2>3 DEF Ordered, Walking
<1> QED
  BY <1>1, <1>2, <1>4, <1>5, <1>7, <1>8, <1>9, <1>10, <1>11 DEF Next, Device, Poll

(* Every step of the device and of the poll keeps what the walk tells. *)
LEMMA TellsStays == IInv /\ Tells /\ Ordered /\ [Next]_vars => Tells'
<1> SUFFICES ASSUME IInv, Tells, Ordered, [Next]_vars PROVE Tells'
  OBVIOUS
<1>1. CASE UNCHANGED vars \/ Overlap
  BY <1>1, UndisturbedTells DEF vars, world, read, history, Overlap, Reads
<1>2. CASE Begin \/ Fail
  BY <1>2, IdleTells DEF Begin, Fail, world, read, history, Reads, Walking
<1>3. CASE AskFilter
  <2>1. CASE pc' = "heading"
    BY <1>3, <2>1, IdleTells DEF AskFilter, world, read, history, Reads, Walking
  <2>2. CASE device.filter # "refused" /\ walk' = Pass("yes") /\ pc' = "paging"
    <3>1. device.filter \in {"unadvertised", "honored", "ignored", "refused"}
      BY LogAssumption DEF IInv, Types, DeviceTypes
    <3>2. device.filter \in {"ignored", "honored"}
      BY <1>3, <2>2, <3>1 DEF AskFilter, IInv, Types
    <3> QED
      BY <1>3, <2>2, <3>2, PassTells DEF AskFilter
  <2> QED
    BY <1>3, <2>1, <2>2 DEF AskFilter
<1>4. CASE OpenHead
  BY <1>4, PassTells DEF OpenHead
<1>5. CASE Rewalk \/ ProbeFlips
  <2>1. Reads /\ pc' = "heading"
    BY <1>5 DEF Rewalk, ProbeFlips, Again, world, read, history, Reads
  <2> QED
    BY <2>1, IdleTells DEF Walking
<1>6. CASE Doubt \/ Settle \/ ProbeStands \/ ProbeRefused
  <2>1. Reads /\ pc \in Walked /\ pc' \in Walked /\ walk' = walk
    BY <1>6 DEF Doubt, Settle, ProbeStands, ProbeRefused, world, read, history, Reads,
                Walked, Walking
  <2> QED
    BY <2>1, JudgedTells
<1> QED
  BY <1>1, <1>2, <1>3, <1>4, <1>5, <1>6, WriteTells, ClockTells, ReadServiceTells,
     SkipTells, FollowLinkTells, PagesOverTells, VisitTells, ShipTells DEF Next, Device, Poll

(* The cursor, the pages and the visit keep telling what was accounted for. *)
THEOREM TellsInvariant == Spec => [](IInv /\ Tells /\ Ordered)
<1>1. Init => Tells /\ Ordered
  BY InitiallyTells, InitiallyOrdered
<1>2. IInv /\ Tells /\ Ordered /\ [Next]_vars => Tells' /\ Ordered'
  BY TellsStays, OrderedStays
<1> QED
  BY <1>1, <1>2, Invariant, PTL DEF Spec

(* No entry is passed over in silence, for every size of log, page and     *)
(* budget and every number of entries: the cursor's member is the newest   *)
(* of a run of members that were all shipped or reported, or lay in a      *)
(* window that was said to be cut, the entries below it were known when    *)
(* the walk met its cursor, and what a filter left out lies above it or    *)
(* was known.                                                              *)
THEOREM NothingIsLost == Spec => []NoSilentLoss
<1>1. IInv /\ Tells => NoSilentLoss
  <2> SUFFICES ASSUME IInv, Tells, raced = "no", Anchored, NEW i \in 1..(AnchorAt - 1)
               PROVE  log[i].serial \in known
    BY DEF NoSilentLoss
  <2>0. Calm
    BY DEF Calm, IInv, Types
  <2> DEFINE c == cursor[1].member
             k == AnchorAt
  <2>1. PICK j \in Found(c) : log[j].at = cursor[1].at
    BY DEF Anchored
  <2>2. k \in Found(c)
    BY <2>1 DEF AnchorAt
  <2>3. /\ j \in DOMAIN log /\ k \in DOMAIN log /\ log[j].id = c /\ log[k].id = c
        /\ DOMAIN log = 1..Len(log) /\ Len(log) \in Nat /\ nextId \in Nat
    BY <2>1, <2>2, HeldAre DEF Found, IInv, Types, Tells
  <2> HIDE DEF c, k
  <2>4. i \in DOMAIN log /\ i < k
    BY <2>3 DEF k
  <2>5. log[i].id <= c
    <3>1. log[i].id = nextId - 1 - Len(log) + i /\ log[k].id = nextId - 1 - Len(log) + k
      BY <2>3, <2>4 DEF Tells, Numbered
    <3>2. i \in Nat /\ k \in Nat
      BY <2>3, <2>4
    <3> QED
      BY <2>3, <2>4, <3>1, <3>2
  <2>6. log[i] \in Held /\ log[j] \in Held
    BY <2>3, <2>4 DEF Held
  <2> QED
    BY <2>0, <2>1, <2>3, <2>5, <2>6 DEF Tells, Anchor, Anchored, c
<1> QED
  BY TellsInvariant, <1>1, PTL

(* A poll that calls nothing truncated accounts for what the log held when *)
(* it was opened, for every size of log, page and budget: what lies above  *)
(* the cursor's member was visited, and what lies below was known.  A      *)
(* filter by stamp presumes that the service says when its clock was set   *)
(* back; entries stamped after that which it says nothing of are left out. *)
THEOREM PollsAccount == Spec => []PollAccounts
<1>1. IInv /\ Tells => PollAccounts
  <2> SUFFICES ASSUME IInv, Tells, pc = "shipping", raced = "no", walk.order = device.order,
                      ~Truncated, ~(device.filter = "honored" /\ device.steps = "untold"),
                      NEW i \in DOMAIN log, log[i].serial \in walk.present
               PROVE  log[i].serial \in known \cup walk.records \cup walk.issues
    BY DEF PollAccounts
  <2>0. Calm
    BY DEF Calm, IInv, Types
  <2> DEFINE f == log[i]
             c == cursor[1].member
  <2>1. f \in Held /\ f.serial \in walk.present /\ f.id \in Nat
    <3>1. f \in Held
      BY DEF Held
    <3> QED
      BY <3>1, HeldAre DEF IInv, Tells
  <2> HIDE DEF f
  <2>2. CASE ~Meets(f)
    <3>1. Told
      BY <2>2 DEF Told, Meets, MeetsIn, IInv, Types, Tells, Stamped, Calm, Walking
    <3>2. f.serial \in known
      BY <2>0, <2>1, <2>2, <3>1, UnaskedAre DEF Walking
    <3> QED
      BY <3>2 DEF f
  <2>3. walk.offset \in Nat /\ pc \in Walked
    BY DEF IInv, Types, Walking, Walked
  <2>4. ASSUME Meets(f)
        PROVE  f.id \in Ids(walk.members)
               \/ (walk.offset > 0 /\ \A n \in Ids(walk.members) : f.id < n)
    BY <2>0, <2>1, <2>3, <2>4, ShippedAre DEF Tells, Listed
  <2>5. CASE Meets(f) /\ walk.reached = "no"
    <3>1. f.id \in Visits
      BY <2>0, <2>4, <2>5, ShippedAre
    <3>2. f.serial \in walk.records \cup walk.issues
      BY <2>0, <2>1, <2>5, <3>1, ShippedAre
    <3> QED
      BY <3>2 DEF f
  <2>6. CASE Meets(f) /\ walk.reached = "yes"
    <3>1. /\ c \in Visits /\ c \in Nat
          /\ \A g \in Held : g.id <= c => g.serial \in known
          /\ \A n \in Ids(walk.members) \ Visits : Before(c, n)
          /\ \A e \in Held :
               e.id \in Visits /\ e.id # c => e.serial \in walk.records \cup walk.issues
      BY <2>0, <2>6, ShippedAre
    <3> HIDE DEF c
    <3>2. CASE f.id <= c
      BY <2>1, <3>1, <3>2 DEF f
    <3>3. CASE f.id > c
      <4>1. f.id \in Ids(walk.members)
        BY <2>1, <2>4, <2>6, <3>1, <3>3 DEF Visits
      <4>2. f.id \in Visits
        BY <2>1, <3>1, <3>3, <4>1 DEF Before
      <4>3. f.serial \in walk.records \cup walk.issues
        BY <2>1, <3>1, <3>3, <4>2
      <4> QED
        BY <4>3 DEF f
    <3> QED
      BY <2>1, <3>1, <3>2, <3>3
  <2> QED
    BY <2>0, <2>2, <2>5, <2>6, ShippedAre DEF Flags
<1> QED
  BY TellsInvariant, <1>1, PTL
(***************************************************************************)
(* What ships twice: nothing, where the order can be told from a page.     *)
(***************************************************************************)
(* The premises of NoRepeat. *)
Orderly ==
    /\ raced = "no" /\ device.numbered = "yes" /\ device.steps = "never"
    /\ device.links = "good" /\ PageSize > 1

(* An entry that shipped. *)
Past(e) == shipped[e.serial] # 0

(* A device that can be entered at its end. *)
CanSkip == device.skip = "honored" /\ device.counts = "yes"

(* A place the first pages reach before they hold a budget's worth: of an  *)
(* entry among those held, or those a filter by its own stamp leaves.      *)
Within(i) == \E k \in Nat : i <= k * PageSize /\ (k - 1) * PageSize < Budget
Reached(c) ==
    \A f \in Held : (device.filter = "honored" => f.at >= c.at) => Within(c.id - f.id + 1)

(* The entries are stamped in their order. *)
Sorted == device.steps = "never" => \A e, f \in Held : e.id <= f.id => e.at <= f.at

(* What shipped and is held stands at or below the cursor's member. *)
Behind ==
    Orderly =>
        /\ shipped \in [Serials -> 0..1]
        /\ \A s \in Serials : shipped[s] # 0 => s <= written
        /\ \A e \in Held : Past(e) =>
             /\ cursor # <<>> /\ e.id <= cursor[1].member
             /\ \E c \in Held : /\ Past(c) /\ Sound(c)
                                /\ c.id = cursor[1].member /\ c.at = cursor[1].at
                                /\ device.order = "oldest" /\ ~CanSkip => Reached(c)

(* The order is read right, except off a single member. *)
Sided ==
    /\ pc \in Walking => "probed" \in DOMAIN walk
    /\ Orderly =>
         /\ cursor # <<>> => (cursor[1].probed = "yes" => cursor[1].order = device.order)
         /\ pc \in {"opening", "asking", "heading"} => walk.forced \subseteq {device.order}
         /\ pc \in Walking =>
              /\ walk.probed = "yes" => walk.order = device.order
              /\ walk.order # device.order =>
                   /\ Len(walk.members) <= 1
                   /\ pc = "paging" => walk.link = <<>> /\ walk.skips = {} /\ walk.offset = 0

(* The window of an oldest-first device ends with what is asked for, as it *)
(* was when the pass opened it, or where the first pages hold a budget's   *)
(* worth.                                                                  *)
Ahead ==
    Orderly /\ pc = "paging" =>
        /\ walk.records = {} /\ walk.refilled = "no"
        /\ \A e \in Held : Past(e) => e.serial \in walk.present
        /\ walk.skips # {} => walk.link # <<>> /\ device.counts = "yes"
        /\ device.order = "oldest" /\ CanSkip /\ walk.link # <<>> =>
             /\ \A i \in DOMAIN Asked : Asked[i].serial \in walk.present => i <= walk.count
             /\ walk.skips = {} => walk.count <= walk.offset + Budget
             /\ walk.skips # {} /\ walk.count > Budget => walk.count - Budget \in walk.skips
        /\ device.order = "oldest" /\ ~CanSkip =>
             /\ walk.offset = 0 /\ Within(Len(walk.members))
             /\ walk.link # <<>> => \E k \in Nat : Len(walk.members) = k * PageSize

(* The visit: nothing it records had shipped, and the newest it records    *)
(* tops all that did.                                                      *)
Closing ==
    Orderly /\ pc \in Walked =>
        /\ \A s \in walk.records : s \in Serials /\ s <= written /\ shipped[s] = 0
        /\ walk.newest = <<>> => walk.records = {}
        /\ walk.newest # <<>> =>
             /\ \A e \in Held : e.serial \in walk.records \/ Past(e) => e.id <= walk.newest[1]
             /\ \A e \in Held : e.id = walk.newest[1] =>
                  e.serial \in walk.records /\ Sound(e) /\ e.at = walk.newest[2]
        /\ walk.refilled \in Flags
        /\ walk.refilled = "yes" => \A e \in Held : ~Past(e)
        /\ pc = "visiting" =>
             \A e \in Held : Past(e) =>
                \/ cursor[1].member \in Ids(walk.todo)
                \/ \A t \in Ids(walk.todo) : cursor[1].member < t
        /\ device.order = "oldest" /\ ~CanSkip =>
             \A e \in Held : e.id \in Ids(walk.members) => Reached(e)

(* A device that selects by filter is asked for the entries by stamp as    *)
(* long as one that shipped is held.                                       *)
Headed ==
    /\ pc # "idle" => "refused" \in DOMAIN walk
    /\ pc \in Walking /\ walk.filtered = "yes" => walk.cursorSkip = {} /\ walk.jumped # "yes"
    /\ pc = "probing" /\ walk.filtered = "yes" => Len(walk.members) > 1
    /\ device.filter = "honored" =>
         /\ support \in {"unknown", "advertised"}
         /\ pc # "idle" => walk.refused # "yes" /\ (cursor # <<>> => support = "advertised")
         /\ Orderly /\ (pc = "heading" \/ (pc \in Walking /\ walk.filtered # "yes"))
              => \A e \in Held : ~Past(e)

(* The inductive invariant of what ships once. *)
Once == Sorted /\ Behind /\ Sided /\ Ahead /\ Closing /\ Headed
-----------------------------------------------------------------------------
(* Nothing has shipped at first. *)
LEMMA InitiallyOnce == Init => Once
  BY DEF Init, Once, Sorted, Behind, Sided, Ahead, Closing, Headed, Past, Held,
     Walking, Walked, NoWalk

(* An earlier place is within if a later one is. *)
LEMMA WithinDown ==
    ASSUME NEW i \in Int, NEW j \in Int, i <= j, Within(j)
    PROVE  Within(i)
<1>1. PICK k \in Nat : j <= k * PageSize /\ (k - 1) * PageSize < Budget
  BY DEF Within
<1>2. k * PageSize \in Int
  BY LogAssumption
<1>3. i <= k * PageSize
  BY <1>1, <1>2
<1> QED
  BY <1>1, <1>3 DEF Within

(* Whole pages that hold a budget's worth reach every place within. *)
LEMMA WithinFits ==
    ASSUME NEW i \in Int, Within(i), NEW k \in Nat, k * PageSize >= Budget
    PROVE  i <= k * PageSize
<1>1. PICK l \in Nat : i <= l * PageSize /\ (l - 1) * PageSize < Budget
  BY DEF Within
<1> DEFINE p == PageSize
           b == Budget
<1>2. p \in Nat /\ p > 0 /\ b \in Nat
  BY LogAssumption
<1>3. k * p \in Int /\ l * p \in Int /\ (l - 1) * p \in Int
  BY <1>2
<1>4. (l - 1) * p < k * p
  BY <1>1, <1>2, <1>3
<1> HIDE DEF p, b
<1>5. ASSUME k < l PROVE FALSE
  <2>1. PICK d \in Nat : l - 1 = k + d
    <3>1. l - 1 - k \in Nat /\ l - 1 = k + (l - 1 - k)
      BY <1>5
    <3> QED
      BY <3>1
  <2>2. (k + d) * p = k * p + d * p /\ d * p >= 0 /\ d * p \in Int
    BY <1>2
  <2> QED
    BY <1>3, <1>4, <2>1, <2>2
<1>6. PICK d \in Nat : k = l + d
  <2>1. k - l \in Nat /\ k = l + (k - l)
    BY <1>5
  <2> QED
    BY <2>1
<1>7. (l + d) * p = l * p + d * p /\ d * p >= 0 /\ d * p \in Int
  BY <1>2
<1> QED
  BY <1>1, <1>3, <1>6, <1>7 DEF p
-----------------------------------------------------------------------------
(* What lies past the start is within. *)
LEMMA WithinNone ==
    ASSUME NEW i \in Int, i <= 0
    PROVE  Within(i)
<1>1. 0 \in Nat /\ i <= 0 * PageSize /\ (0 - 1) * PageSize < Budget
  BY LogAssumption
<1> QED
  BY <1>1 DEF Within

(* An arrival takes nothing from between two entries that stay.            *)
LEMMA Remain ==
    ASSUME Types, Numbered, Write
    PROVE  /\ \A e \in Held' : e \in Held \/ (e.id = nextId /\ e.serial = written + 1)
           /\ \A e \in Held', c \in Held : e.id <= c.id => c \in Held'
<1> DEFINE entry == [serial |-> written + 1, id |-> nextId, at |-> clock]
           kept == IF Len(log) = LogSize THEN Tail(log) ELSE log
<1>1. /\ log' \in Seq(Entries) /\ Held' \subseteq Held \cup {entry} /\ entry \in Entries
      /\ nextId' = nextId + 1 /\ Numbered'
  BY Arrives
<1>2. entry.id = nextId /\ entry.serial = written + 1
  OBVIOUS
<1>3. log \in Seq(Entries) /\ LogSize \in Nat \ {0} /\ log' = Append(kept, entry)
  BY LogAssumption DEF Types, Write
<1>4. kept \in Seq(Entries) /\ Len(kept) <= Len(log)
  <2>1. CASE Len(log) = LogSize
    <3>1. log # <<>>
      BY <1>3, <2>1
    <3> QED
      BY <1>3, <2>1, <3>1, HeadTailProperties
  <2>2. CASE Len(log) # LogSize
    BY <1>3, <2>2
  <2> QED
    BY <2>1, <2>2
<1> HIDE DEF entry, kept
<1>5. Len(log') <= Len(log) + 1 /\ Len(log') \in Nat /\ Len(log) \in Nat
  BY <1>1, <1>3, <1>4, AppendProperties
<1>6. /\ \A e \in Held : e.id \in Nat /\ e.id < nextId /\ e.serial <= written
      /\ \A e, f \in Held : e.id = f.id => e = f
      /\ nextId \in Nat /\ written \in Nat
  BY HeldAre
<1>7. ASSUME NEW e \in Held', NEW c \in Held, e.id <= c.id PROVE c \in Held'
  <2> DEFINE j == c.id - (nextId' - 1 - Len(log'))
  <2>1. PICK i \in DOMAIN log' : e = log'[i]
    BY DEF Held
  <2>2. e.id = nextId' - 1 - Len(log') + i /\ i \in 1..Len(log') /\ DOMAIN log' = 1..Len(log')
    BY <1>1, <2>1 DEF Numbered
  <2>3. j \in DOMAIN log'
    BY <1>1, <1>5, <1>6, <1>7, <2>2
  <2>4. log'[j].id = nextId' - 1 - Len(log') + j
    BY <1>1, <2>3 DEF Numbered
  <2>5. log'[j].id = c.id
    BY <1>1, <1>5, <1>6, <2>4
  <2>6. log'[j] \in Held'
    BY <2>3 DEF Held
  <2>7. log'[j] \in Held
    BY <1>1, <1>2, <1>6, <2>5, <2>6
  <2>8. log'[j] = c
    BY <1>6, <2>5, <2>7
  <2> QED
    BY <2>6, <2>8
<1> QED
  BY <1>1, <1>2, <1>7

(* While pages are read, an arrival adds to what is asked for no more than *)
(* a member at its end, and one the pass did not open.                     *)
LEMMA AskedGrows ==
    ASSUME IInv, Tells, Write, Calm, pc = "paging", raced' = "no",
           NEW i \in DOMAIN Asked', Asked'[i].serial \in walk.present
    PROVE  i \in DOMAIN Asked /\ Asked'[i] = Asked[i]
<1> DEFINE entry == [serial |-> written + 1, id |-> nextId, at |-> clock]
<1>1. /\ entry \in Entries /\ (Len(log) # LogSize => log' = Append(log, entry))
      /\ written \in Nat
  BY Arrives, HeldAre DEF IInv, Tells
<1>2. entry.serial = written + 1
  OBVIOUS
<1> HIDE DEF entry
<1>3. device' = device /\ cursor' = cursor /\ walk' = walk /\ ~Shifts
  BY DEF Write, read
<1>4. device.order = "oldest" /\ Len(log) # LogSize
  BY <1>3, LogAssumption DEF Shifts, IInv, Types, DeviceTypes
<1>5. Asked' = Asked \/ Asked' = Append(Asked, entry)
  <2>1. Base(walk.filtered)' = Base(walk.filtered)
        \/ Base(walk.filtered)' = Append(Base(walk.filtered), entry)
    BY <1>1, <1>3, <1>4, BaseGrows DEF IInv
  <2>2. Asked' = Base(walk.filtered)'
    BY <1>3 DEF Asked
  <2> QED
    BY <2>1, <2>2 DEF Asked
<1>6. Asked \in Seq(Entries) /\ Len(Asked) \in Nat /\ DOMAIN Asked = 1..Len(Asked)
  BY BaseNumbers DEF IInv, Tells, Asked
<1>7. CASE Asked' = Append(Asked, entry)
  <2>1. /\ DOMAIN Asked' = 1..(Len(Asked) + 1)
        /\ \A j \in 1..Len(Asked) : Asked'[j] = Asked[j]
        /\ Asked'[Len(Asked) + 1] = entry
    BY <1>1, <1>6, <1>7, AppendProperties
  <2>2. entry.serial \notin walk.present
    BY <1>1, <1>2 DEF Tells, Opened, Walking
  <2>3. i # Len(Asked) + 1
    BY <2>1, <2>2
  <2> QED
    BY <1>6, <2>1, <2>3
<1> QED
  BY <1>5, <1>7

(* An arrival has not shipped, and rotates out from below. *)
LEMMA WriteOnce == IInv /\ Tells /\ Once /\ Write => Once'
<1> SUFFICES ASSUME IInv, Tells, Once, Write PROVE Once'
  OBVIOUS
<1>1. /\ \A e \in Held' : e \in Held \/ (e.id = nextId /\ e.serial = written + 1)
      /\ \A e \in Held', c \in Held : e.id <= c.id => c \in Held'
  BY Remain DEF IInv, Tells
<1>2. /\ UNCHANGED <<device, clock, cursor, pc, walk, shipped>>
      /\ nextId' = nextId + 1 /\ written' = written + 1 /\ written < MaxEntries
      /\ raced' = "no" => raced = "no"
      /\ raced' = "no" /\ pc = "paging" => ~Shifts
  BY DEF Write, read, IInv, Types, Flags
<1>3. /\ \A e \in Held : e.id \in Nat /\ e.id < nextId /\ e.serial <= written /\ e.serial \in Nat
      /\ \A e, f \in Held : e.id = f.id => e = f
      /\ nextId \in Nat /\ written \in Nat
  BY HeldAre DEF IInv, Tells
<1>4. Sided'
  BY <1>2 DEF Once, Sided, Orderly
<1>5. Sorted'
  <2> SUFFICES ASSUME device.steps = "never", NEW e \in Held', NEW f \in Held', e.id <= f.id
               PROVE  e.at <= f.at
    BY <1>2 DEF Sorted
  <2>1. /\ \A g \in Held : g.at <= clock
        /\ \A g, h \in Held : g.id <= h.id => g.at <= h.at
    BY DEF Once, Sorted, Tells, Numbered
  <2>2. clock \in Nat /\ \A g \in Held' \ Held : g.id = nextId /\ g.at = clock
    BY HeldAre, Arrives DEF IInv, Tells
  <2> QED
    BY <1>3, <2>1, <2>2
<1>6. Orderly' => Orderly
  BY <1>2 DEF Orderly
<1>7. Orderly => written + 1 \in Serials /\ shipped[written + 1] = 0
  <2> SUFFICES ASSUME Orderly PROVE written + 1 \in Serials /\ shipped[written + 1] = 0
    OBVIOUS
  <2>1. written + 1 \in Serials
    BY <1>2, <1>3, LogAssumption DEF Serials
  <2>2. shipped \in [Serials -> 0..1] /\ \A s \in Serials : shipped[s] # 0 => s <= written
    BY DEF Once, Behind
  <2> QED
    BY <1>3, <2>1, <2>2
<1>8. Headed'
  <2>1. \A e \in Held' : Orderly /\ Past(e)' => e \in Held /\ Past(e)
    BY <1>1, <1>2, <1>7 DEF Past
  <2>2. support' = support
    BY DEF Write, read
  <2> QED
    BY <1>2, <1>6, <2>1, <2>2 DEF Once, Headed
<1> SUFFICES ASSUME Orderly' PROVE Once'
  BY <1>4, <1>5, <1>8 DEF Once, Behind, Ahead, Closing
<1>9. Orderly
  BY <1>6
<1>10. written + 1 \in Serials /\ shipped[written + 1] = 0
  BY <1>9, <1>7
<1>11. /\ \A e : Past(e)' <=> Past(e)
       /\ \A e \in Held' : Past(e) => e \in Held
  BY <1>1, <1>2, <1>10 DEF Past
<1>12. Calm
  BY <1>9 DEF Orderly, Calm
<1>13. ASSUME NEW e \in Held, Reached(e) PROVE Reached(e)'
  <2> SUFFICES ASSUME NEW f \in Held', device.filter = "honored" => f.at >= e.at
               PROVE  Within(e.id - f.id + 1)
    BY <1>2 DEF Reached, Within
  <2>1. CASE f \in Held
    BY <1>13, <2>1 DEF Reached
  <2>2. CASE f \notin Held
    <3>1. f.id = nextId /\ e.id - f.id + 1 \in Int /\ e.id - f.id + 1 <= 0
      BY <1>1, <1>3, <2>2
    <3> QED
      BY <3>1, WithinNone
  <2> QED
    BY <2>1, <2>2
<1>14. Behind'
  <2>1. /\ shipped' \in [Serials -> 0..1]
        /\ \A s \in Serials : shipped'[s] # 0 => s <= written'
    <3>1. shipped \in [Serials -> 0..1] /\ \A s \in Serials : shipped[s] # 0 => s <= written
      BY <1>9 DEF Once, Behind
    <3>2. \A s \in Serials : s \in Int
      BY DEF Serials
    <3>3. \A s \in Serials : s <= written => s <= written'
      BY <1>2, <1>3, <3>2
    <3> QED
      BY <1>2, <3>1, <3>3
  <2>2. ASSUME NEW e \in Held', Past(e)'
        PROVE  /\ cursor' # <<>> /\ e.id <= cursor'[1].member
               /\ \E c \in Held' : /\ Past(c)' /\ Sound(c)'
                                   /\ c.id = cursor'[1].member /\ c.at = cursor'[1].at
                                   /\ device'.order = "oldest" /\ ~CanSkip' => Reached(c)'
    <3>1. e \in Held /\ Past(e)
      BY <1>11, <2>2
    <3>2. cursor # <<>> /\ e.id <= cursor[1].member
      BY <1>9, <3>1 DEF Once, Behind
    <3>3. PICK c \in Held : /\ Past(c) /\ Sound(c)
                            /\ c.id = cursor[1].member /\ c.at = cursor[1].at
                            /\ device.order = "oldest" /\ ~CanSkip => Reached(c)
      BY <1>9, <3>1 DEF Once, Behind
    <3>4. c \in Held'
      BY <1>1, <2>2, <3>2, <3>3
    <3>5. CanSkip' <=> CanSkip
      BY <1>2 DEF CanSkip
    <3>6. Sound(c)' <=> Sound(c)
      BY DEF Sound
    <3>7. device.order = "oldest" /\ ~CanSkip => Reached(c)'
      BY <1>13, <3>3
    <3> QED
      BY <1>2, <1>11, <3>2, <3>3, <3>4, <3>5, <3>6, <3>7
  <2> QED
    BY <2>1, <2>2 DEF Behind
<1>15. Ahead'
  <2> SUFFICES ASSUME pc = "paging" PROVE Ahead'
    BY <1>2 DEF Ahead
  <2>1. \A e \in Held' : Past(e)' => e.serial \in walk'.present
    BY <1>2, <1>9, <1>11 DEF Once, Ahead
  <2>2. written + 1 \notin walk.present
    <3>1. \A n \in walk.present : n \in Nat /\ n <= written
      BY <1>12 DEF Tells, Opened, Walking
    <3> QED
      BY <1>3, <3>1
  <2>3. ASSUME device.order = "oldest", CanSkip, walk.link # <<>>,
               NEW i \in DOMAIN Asked', Asked'[i].serial \in walk.present
        PROVE  i <= walk.count
    <3>1. raced' = "no"
      BY DEF Orderly
    <3>2. i \in DOMAIN Asked /\ Asked'[i] = Asked[i]
      BY <1>12, <2>3, <3>1, AskedGrows
    <3> QED
      BY <1>9, <2>3, <3>2 DEF Once, Ahead
  <2>4. CanSkip' <=> CanSkip
    BY <1>2 DEF CanSkip
  <2> QED
    BY <1>2, <1>9, <2>1, <2>3, <2>4 DEF Once, Ahead, Within
<1>16. Closing'
  <2> SUFFICES ASSUME pc \in Walked PROVE Closing'
    BY <1>2 DEF Closing
  <2>1. /\ \A s \in walk.records : s \in Serials /\ s <= written /\ shipped[s] = 0
        /\ walk.newest = <<>> => walk.records = {}
        /\ walk.newest # <<>> =>
             /\ \A e \in Held : e.serial \in walk.records \/ Past(e) => e.id <= walk.newest[1]
             /\ \A e \in Held : e.id = walk.newest[1] =>
                  e.serial \in walk.records /\ Sound(e) /\ e.at = walk.newest[2]
        /\ walk.refilled \in Flags
        /\ walk.refilled = "yes" => \A e \in Held : ~Past(e)
        /\ pc = "visiting" =>
             \A e \in Held : Past(e) =>
                \/ cursor[1].member \in Ids(walk.todo)
                \/ \A t \in Ids(walk.todo) : cursor[1].member < t
        /\ device.order = "oldest" /\ ~CanSkip =>
             \A e \in Held : e.id \in Ids(walk.members) => Reached(e)
    BY <1>9 DEF Once, Closing
  <2>2. \A s \in walk.records : s \in Serials /\ s <= written /\ s <= written' /\ s # written + 1
    <3>1. \A s \in Serials : s \in Int
      BY DEF Serials
    <3> QED
      BY <1>2, <1>3, <2>1, <3>1
  <2>3. \A e \in Held' : e.serial \in walk.records \/ Past(e) => e \in Held
    BY <1>1, <1>11, <2>2
  <2>4. ASSUME walk.newest # <<>>, NEW e \in Held'
        PROVE  /\ e.serial \in walk.records \/ Past(e) => e.id <= walk.newest[1]
               /\ e.id = walk.newest[1] =>
                    e.serial \in walk.records /\ Sound(e) /\ e.at = walk.newest[2]
    <3>1. walk.newest[1] < nextId /\ walk.newest[1] \in Nat
      BY <1>12, <2>4 DEF Tells, Seen, Listed, Visits, Stands
    <3>2. e.id = walk.newest[1] => e \in Held
      BY <1>1, <1>3, <3>1
    <3> QED
      BY <2>1, <2>3, <2>4, <3>2
  <2>5. nextId \notin Ids(walk.members)
    <3>1. \A n \in Ids(walk.members) : n < nextId
      BY <1>12 DEF Tells, Listed
    <3> QED
      BY <1>3, <3>1
  <2>6. ASSUME device.order = "oldest", ~CanSkip, NEW e \in Held', e.id \in Ids(walk.members)
        PROVE  Reached(e)'
    <3>1. e \in Held
      BY <1>1, <2>5, <2>6
    <3> QED
      BY <1>13, <2>1, <2>6, <3>1
  <2>7. CanSkip' <=> CanSkip
    BY <1>2 DEF CanSkip
  <2>8. \A e : Sound(e)' <=> Sound(e)
    BY DEF Sound
  <2> QED
    BY <1>2, <1>11, <2>1, <2>2, <2>4, <2>6, <2>7, <2>8 DEF Closing
<1> QED
  BY <1>4, <1>5, <1>8, <1>14, <1>15, <1>16 DEF Once

(* The clock runs on, or a cleared log holds nothing that shipped. *)
LEMMA ClockOnce == IInv /\ Tells /\ Once /\ (Clear \/ Tick \/ SetBack) => Once'
<1> SUFFICES ASSUME IInv, Tells, Once, Clear \/ Tick \/ SetBack PROVE Once'
  OBVIOUS
<1>1. /\ UNCHANGED <<device, written, read, pc, walk, shipped>>
      /\ raced' = "no" => raced = "no"
      /\ SetBack => device.steps # "never"
      /\ ~SetBack => (log' = log /\ nextId' = nextId)
                      \/ (log' = <<>> /\ (pc # "idle" => raced' = "yes"))
  BY DEF Clear, Tick, SetBack, Race, read, IInv, Types, Flags
<1>2. Sided'
  BY <1>1 DEF Once, Sided, Orderly, read
<1>3. Sorted'
  <2>1. device.steps = "never" => Held' = Held \/ Held' = {}
    BY <1>1 DEF Held
  <2> QED
    BY <1>1, <2>1 DEF Once, Sorted
<1>4. Headed'
  <2>1. (Orderly' => Orderly /\ ~SetBack) /\ \A e : Past(e)' <=> Past(e)
    BY <1>1 DEF Orderly, Past
  <2>2. ~SetBack => Held' = Held \/ Held' = {}
    BY <1>1 DEF Held
  <2> QED
    BY <1>1, <2>1, <2>2 DEF Once, Headed, read
<1> SUFFICES ASSUME Orderly' PROVE Once'
  BY <1>2, <1>3, <1>4 DEF Once, Behind, Ahead, Closing
<1>5. Orderly /\ ~SetBack
  BY <1>1 DEF Orderly
<1>6. CASE log' = log /\ nextId' = nextId
  <2>1. Held' = Held /\ (\A e : Past(e)' <=> Past(e)) /\ (CanSkip' <=> CanSkip)
        /\ (\A i : Within(i)' <=> Within(i)) /\ (\A e : Reached(e)' <=> Reached(e))
        /\ (\A e : Sound(e)' <=> Sound(e)) /\ Asked' = Asked
    BY <1>1, <1>6 DEF Held, Past, CanSkip, Within, Reached, Sound, Asked, Base, Matching,
       Listing, read
  <2>2. Behind'
    BY <1>1, <1>5, <2>1 DEF Once, Behind, read
  <2>3. Ahead'
    BY <1>1, <1>5, <2>1 DEF Once, Ahead, read
  <2>4. Closing'
    BY <1>1, <1>5, <2>1 DEF Once, Closing, read
  <2> QED
    BY <1>2, <1>3, <1>4, <2>2, <2>3, <2>4 DEF Once
<1>7. CASE log' = <<>> /\ (pc # "idle" => raced' = "yes")
  <2>1. Held' = {} /\ pc' = "idle"
    BY <1>1, <1>7 DEF Held, Orderly
  <2>2. Behind'
    BY <1>1, <1>5, <2>1 DEF Once, Behind, read
  <2> QED
    BY <1>2, <1>3, <1>4, <2>1, <2>2 DEF Once, Ahead, Closing, Walked, Walking
<1> QED
  BY <1>1, <1>5, <1>6, <1>7

(* A step that ships nothing leaves what the cursor stands for. *)
LEMMA ReadOnce ==
    ASSUME Reads, shipped' = shipped
    PROVE  /\ Held' = Held /\ (Orderly' => Orderly) /\ (CanSkip' <=> CanSkip)
           /\ \A e : Past(e)' <=> Past(e)
           /\ \A e : Reached(e)' <=> Reached(e)
           /\ \A i : Within(i)' <=> Within(i)
           /\ \A e : Sound(e)' <=> Sound(e)
           /\ Behind => Behind'
           /\ Sorted => Sorted'
<1>1. /\ Held' = Held /\ (Orderly' => Orderly) /\ (CanSkip' <=> CanSkip)
      /\ \A e : Past(e)' <=> Past(e)
      /\ \A e : Reached(e)' <=> Reached(e)
      /\ \A i : Within(i)' <=> Within(i)
      /\ \A e : Sound(e)' <=> Sound(e)
      /\ Sorted => Sorted'
  BY DEF Reads, Held, Orderly, CanSkip, Past, Within, Reached, Sound, Sorted
<1>2. ASSUME Behind PROVE Behind'
  <2> SUFFICES ASSUME Orderly' PROVE Behind'
    BY DEF Behind
  <2> QED
    BY <1>1, <1>2 DEF Reads, Behind
<1> QED
  BY <1>1, <1>2

(* No walk: what is left is the order a probe forced. *)
LEMMA IdleOnce ==
    ASSUME Once, Reads, shipped' = shipped, pc' \notin Walking,
           Orderly' /\ pc' \in {"opening", "asking", "heading"}
             => walk'.forced \subseteq {device.order},
           Headed'
    PROVE  Once'
<1>1. Behind' /\ Sorted' /\ (Orderly' => Orderly)
  BY ReadOnce DEF Once
<1>2. Sided'
  BY <1>1 DEF Reads, Once, Sided
<1> QED
  BY <1>1, <1>2 DEF Once, Ahead, Closing, Walked, Walking

(* A step that leaves the walk leaves all of it. *)
LEMMA UndisturbedOnce ==
    ASSUME Once, Reads, UNCHANGED <<shipped, walk, support>>,
           pc' = pc \/ (pc \in Walked /\ pc' \in Walked \ {"visiting"}),
           pc' = "probing" /\ walk.filtered = "yes" => Len(walk.members) > 1
    PROVE  Once'
<1>1. /\ Held' = Held /\ (Orderly' => Orderly) /\ (CanSkip' <=> CanSkip)
      /\ \A e : Past(e)' <=> Past(e)
      /\ \A e : Reached(e)' <=> Reached(e)
      /\ \A i : Within(i)' <=> Within(i)
      /\ \A e : Sound(e)' <=> Sound(e)
      /\ Behind' /\ Sorted'
  BY ReadOnce DEF Once
<1>2. Sided'
  BY <1>1 DEF Reads, Once, Sided, Walked, Walking
<1>3. Ahead'
  <2>1. Asked' = Asked
    BY DEF Reads, Asked, Base, Matching, Listing
  <2> QED
    BY <1>1, <2>1 DEF Reads, Once, Ahead, Walked
<1>4. Closing'
  <2> SUFFICES ASSUME Orderly', pc' \in Walked PROVE Closing'
    BY DEF Closing
  <2>1. Orderly /\ pc \in Walked /\ (pc' = "visiting" => pc = "visiting")
    BY <1>1
  <2> QED
    BY <1>1, <2>1 DEF Reads, Once, Closing
<1>5. Headed'
  <2>1. pc' \in Walking => pc \in Walking
    BY DEF Walked
  <2>2. pc' # "idle" => pc # "idle"
    BY DEF Walked, Walking
  <2>3. pc' = "heading" => pc = "heading"
    BY DEF Walked, Walking
  <2>4. device' = device /\ cursor' = cursor
    BY DEF Reads
  <2> QED
    BY <1>1, <2>1, <2>2, <2>3, <2>4 DEF Once, Headed
<1> QED
  BY <1>1, <1>2, <1>3, <1>4, <1>5 DEF Once
(* How many numbers an interval holds. *)
LEMMA Spread ==
    ASSUME NEW n \in Nat
    PROVE  Cardinality(1..n) = n /\ Cardinality({}) = 0
<1>1. Cardinality(1..n) = IF 1 > n THEN 0 ELSE n - 1 + 1
  BY FS_Interval
<1> QED
  BY <1>1, FS_EmptySet

(* What is asked for changes with the log, the cursor or the pass alone. *)
LEMMA AskedStays ==
    ASSUME UNCHANGED <<device, log, cursor>>, NEW f, walk'.filtered = f
    PROVE  Asked' = Base(f)
  BY DEF Asked, Base, Matching, Listing

(* A step of the walk that leaves what the pass asked for leaves how it    *)
(* asked.                                                                  *)
LEMMA HeadedKept ==
    ASSUME Once, Reads, UNCHANGED <<shipped, support>>, pc \in Walking, pc' \in Walking,
           pc' # "probing",
           "refused" \in DOMAIN walk', walk'.refused = walk.refused,
           walk'.filtered = walk.filtered, walk'.cursorSkip = walk.cursorSkip,
           walk'.jumped = walk.jumped \/ walk.cursorSkip # {} \/ walk'.jumped = "no"
    PROVE  Headed'
<1>1. Held' = Held /\ (Orderly' => Orderly) /\ \A e : Past(e)' <=> Past(e)
  BY ReadOnce
<1>2. device' = device /\ cursor' = cursor /\ pc # "idle" /\ pc' # "heading"
  BY DEF Reads, Walking
<1> QED
  BY <1>1, <1>2 DEF Once, Headed

(* Two members of a page already show the order. *)
LEMMA HintIs ==
    ASSUME Types, Numbered, device.numbered = "yes", device.order \in Orders,
           NEW f, Len(PageAt(Base(f), 0)) > 1
    PROVE  HintedBy(PageAt(Base(f), 0)) = {device.order}
<1> DEFINE base == Base(f)
           page == PageAt(base, 0)
           n == Len(page) - 1
<1>1. /\ base \in Seq(Entries) /\ Len(base) \in Nat
      /\ \A i \in 1..Len(base) : base[i] \in Held
      /\ \A i, j \in 1..Len(base) :
            i < j => IF device.order = "oldest" THEN base[i].id < base[j].id
                     ELSE base[j].id < base[i].id
  BY BaseNumbers
<1> HIDE DEF base
<1>2. /\ page \in Seq(Serials)
      /\ \A k \in 1..Len(page) : 0 + k <= Len(base) /\ page[k] = base[0 + k].id
  BY <1>1, PageIs
<1> HIDE DEF page
<1>3. n \in Nat /\ n > 0 /\ Len(page) = n + 1
  BY <1>2 DEF page, base
<1> HIDE DEF n
<1>4. ASSUME NEW i \in 1..(n + 1)
      PROVE  i \in 1..Len(base) /\ page[i] = base[i].id /\ base[i].id \in Nat
  <2>1. i \in 1..Len(base) /\ page[i] = base[i].id
    <3>1. 0 + i = i /\ i \in 1..Len(page)
      BY <1>3
    <3> QED
      BY <1>1, <1>2, <3>1
  <2> QED
    BY <1>1, <2>1, HeldAre
<1>5. ASSUME NEW i \in 1..n
      PROVE  IF device.order = "oldest" THEN page[i] < page[i + 1] /\ ~(page[i] > page[i + 1])
             ELSE page[i] > page[i + 1] /\ ~(page[i] < page[i + 1])
  <2>1. i \in 1..(n + 1) /\ i + 1 \in 1..(n + 1) /\ i < i + 1
    BY <1>3
  <2> DEFINE x == base[i].id
             y == base[i + 1].id
  <2>2. /\ page[i] = x /\ page[i + 1] = y /\ x \in Nat /\ y \in Nat
        /\ IF device.order = "oldest" THEN x < y ELSE y < x
    BY <1>1, <1>4, <2>1
  <2> HIDE DEF x, y
  <2> QED
    BY <2>2
<1>6. /\ Rising(page) = Cardinality({i \in 1..n : page[i] < page[i + 1]})
      /\ Falling(page) = Cardinality({i \in 1..n : page[i] > page[i + 1]})
  <2>1. Len(page) - 1 = n
    BY <1>3
  <2> QED
    BY <2>1 DEF Rising, Falling
<1>7. CASE device.order = "oldest"
  <2>1. {i \in 1..n : page[i] < page[i + 1]} = 1..n /\ {i \in 1..n : page[i] > page[i + 1]} = {}
    BY <1>5, <1>7
  <2>2. Rising(page) = n /\ Falling(page) = 0
    BY <1>3, <1>6, <2>1, Spread
  <2> QED
    BY <1>3, <1>7, <2>2 DEF HintedBy, page, base
<1>8. CASE device.order = "newest"
  <2>1. {i \in 1..n : page[i] < page[i + 1]} = {} /\ {i \in 1..n : page[i] > page[i + 1]} = 1..n
    BY <1>5, <1>8
  <2>2. Rising(page) = 0 /\ Falling(page) = n
    BY <1>3, <1>6, <2>1, Spread
  <2> QED
    BY <1>3, <1>8, <2>2 DEF HintedBy, page, base
<1> QED
  BY <1>7, <1>8 DEF Orders
-----------------------------------------------------------------------------
(* A pass takes the right order, unless it lists at most one member. *)
LEMMA PassSided ==
    ASSUME IInv, Tells, Ordered, Once, Orderly, pc \in {"asking", "heading"}, NEW f
    PROVE  LET first == PageAt(Base(f), 0)
               w == Pass(f)
           IN  /\ w.probed = "yes" => w.order = device.order
               /\ w.order # device.order =>
                    Len(first) <= 1 /\ w.link = <<>> /\ w.skips = {}
<1> DEFINE first == PageAt(Base(f), 0)
           link == LinkAt(Base(f), 0)
           w == Pass(f)
           chosen == Chosen(walk.forced, first)
<1>1. /\ Base(f) \in Seq(Entries) /\ PageSize \in Nat /\ Len(first) \in Nat
      /\ link = <<>> \/ Len(first) = PageSize
  <2>1. Base(f) \in Seq(Entries) /\ PageSize \in Nat
    BY BaseIs, LogAssumption DEF IInv
  <2>2. /\ first \in Seq(Serials)
        /\ 0 + PageSize < Len(Base(f)) => Len(first) = PageSize
        /\ link = <<>> \/ 0 + PageSize < Len(Base(f))
    BY <2>1, PageIs
  <2> QED
    BY <2>1, <2>2
<1>2. /\ w.order = CHOOSE o \in chosen : TRUE
      /\ w.link = link
      /\ w.link = <<>> => w.skips = {}
      /\ w.probed = "yes" => walk.forced # {} \/ Remembered
  BY DEF Pass
<1> HIDE DEF w
<1>3. chosen = {device.order} => w.order = device.order
  BY <1>2
<1>4. device.order \in Orders
  BY LogAssumption DEF IInv, Types, DeviceTypes, Orders
<1>5. walk.forced = {} \/ walk.forced = {device.order}
  BY DEF Once, Sided
<1>6. walk.forced # {} \/ Remembered => chosen = {device.order}
  BY <1>5 DEF Chosen, Remembered, Once, Sided
<1>7. ASSUME Len(first) > 1, walk.forced = {}, ~Remembered PROVE chosen = {device.order}
  <2>1. HintedBy(first) = {device.order}
    BY <1>4, <1>7, HintIs DEF IInv, Tells, Orderly
  <2> QED
    BY <1>7, <2>1 DEF Chosen
<1> HIDE DEF first, chosen, link
<1>8. w.order # device.order => Len(first) <= 1
  BY <1>1, <1>3, <1>6, <1>7
<1>9. w.order # device.order => w.link = <<>> /\ w.skips = {}
  BY <1>1, <1>2, <1>8 DEF Orderly
<1> QED
  BY <1>2, <1>3, <1>6, <1>8, <1>9 DEF first, w

(* A pass opens at the start of what it asks for, with what shipped in view. *)
LEMMA PassOnce ==
    ASSUME IInv, Tells, Ordered, Once, NEW f,
           (f = "yes" /\ pc = "asking") \/ (f = "no" /\ pc = "heading"),
           walk' = Pass(f), pc' = "paging", UNCHANGED <<world, read, history>>
    PROVE  Once'
<1> DEFINE base == Base(f)
           first == PageAt(base, 0)
           link == LinkAt(base, 0)
           count == IF link # <<>> /\ device.counts = "yes" THEN Len(base) ELSE 0
<1>1. /\ base \in Seq(Entries) /\ Len(base) \in Nat /\ DOMAIN base = 1..Len(base)
      /\ PageSize \in Nat \ {0} /\ Budget \in Nat \ {0}
  BY BaseNumbers, LogAssumption DEF IInv, Tells
<1>2. Reads /\ shipped' = shipped
  BY DEF Reads, world, read, history
<1>3. /\ Held' = Held /\ (Orderly' => Orderly) /\ (CanSkip' <=> CanSkip)
      /\ \A e : Past(e)' <=> Past(e)
      /\ \A i : Within(i)' <=> Within(i)
      /\ Behind' /\ Sorted'
  BY <1>2, ReadOnce DEF Once
<1>4. /\ first \in Seq(Serials) /\ Len(first) \in Nat /\ Len(first) <= PageSize
      /\ link = <<>> \/ Len(first) = PageSize
  <2>1. /\ first \in Seq(Serials)
        /\ Len(first) = Most(0, Least(PageSize, Len(base) - 0))
        /\ 0 + PageSize < Len(base) => Len(first) = PageSize
        /\ link = <<>> \/ 0 + PageSize < Len(base)
    BY <1>1, PageIs
  <2>2. Len(first) \in Nat
    BY <2>1
  <2>3. Most(0, Least(PageSize, Len(base) - 0)) <= PageSize
    BY <1>1 DEF Most, Least
  <2> QED
    BY <2>1, <2>2, <2>3
<1>5. /\ walk'.count = count /\ walk'.members = first /\ walk'.link = link /\ walk'.offset = 0
      /\ walk'.records = {} /\ walk'.refilled = "no"
      /\ walk'.present = {log[i].serial : i \in DOMAIN log}
      /\ walk'.skips = IF link # <<>> /\ walk'.order = "oldest"
                       THEN BudgetSkip(count) \cup walk'.cursorSkip ELSE {}
      /\ walk'.cursorSkip \subseteq CursorSkip(first, count)
      /\ "probed" \in DOMAIN walk' /\ "refused" \in DOMAIN walk'
      /\ walk'.refused = walk.refused /\ walk'.filtered = f /\ walk'.jumped = "no"
      /\ f = "yes" => walk'.cursorSkip = {}
  BY <1>1 DEF Pass
<1>6. Orderly => /\ walk'.probed = "yes" => walk'.order = device.order
                 /\ walk'.order # device.order =>
                      Len(first) <= 1 /\ walk'.link = <<>> /\ walk'.skips = {}
  BY <1>1, PassSided
<1>7. Asked' = base
  BY <1>2, <1>5, AskedStays DEF Reads
<1>8. Headed'
  <2>1. device' = device /\ cursor' = cursor /\ support' = support
    BY <1>2 DEF Reads, read
  <2> QED
    BY <1>3, <1>5, <2>1 DEF Once, Headed, Walking
<1> HIDE DEF base, first, link
<1>9. Sided'
  <2>1. cursor' = cursor /\ device' = device
    BY <1>2 DEF Reads
  <2> QED
    BY <1>3, <1>5, <1>6, <2>1 DEF Once, Sided
<1>10. Ahead'
  <2> SUFFICES ASSUME Orderly' PROVE Ahead'
    BY DEF Ahead
  <2>1. Orderly /\ device' = device
    BY <1>2, <1>3 DEF Reads
  <2>2. \A e \in Held' : e.serial \in walk'.present
    BY <1>3, <1>5 DEF Held
  <2>3. count \in Nat /\ (device.counts # "yes" => count = 0)
        /\ (link # <<>> /\ device.counts = "yes" => count = Len(base))
    BY <1>1
  <2> HIDE DEF count
  <2>4. walk'.skips # {} => link # <<>> /\ device.counts = "yes"
    <3>1. ASSUME count = 0 PROVE BudgetSkip(count) = {} /\ CursorSkip(first, count) = {}
      <4>1. BudgetSkip(0) = {}
        BY <1>1 DEF BudgetSkip
      <4>2. \A x : x \notin Len(first)..(0 - 1)
        BY <1>4
      <4>3. CursorSkip(first, 0) = {}
        BY <4>2 DEF CursorSkip
      <4> QED
        BY <3>1, <4>1, <4>3
    <3> QED
      BY <1>5, <2>3, <3>1
  <2>5. ASSUME device.order = "oldest", CanSkip, link # <<>>
        PROVE  /\ \A i \in DOMAIN base : i <= count
               /\ walk'.skips = {} => count <= 0 + Budget
               /\ walk'.skips # {} /\ count > Budget => count - Budget \in walk'.skips
    <3>1. walk'.order = "oldest" /\ count = Len(base)
      BY <1>5, <1>6, <2>1, <2>3, <2>5 DEF CanSkip
    <3>2. \A i \in DOMAIN base : i <= count
      BY <1>1, <3>1
    <3>3. BudgetSkip(count) \subseteq walk'.skips
      BY <1>5, <2>5, <3>1
    <3> QED
      BY <1>1, <2>3, <3>2, <3>3 DEF BudgetSkip
  <2>6. Within(Len(first)) /\ (link # <<>> => \E k \in Nat : Len(first) = k * PageSize)
    <3>1. 1 \in Nat /\ Len(first) <= 1 * PageSize /\ (1 - 1) * PageSize < Budget
      BY <1>1, <1>4
    <3>2. link # <<>> => Len(first) = 1 * PageSize
      BY <1>1, <1>4
    <3> QED
      BY <3>1, <3>2 DEF Within
  <2> QED
    BY <1>3, <1>5, <1>7, <2>1, <2>2, <2>4, <2>5, <2>6 DEF Ahead
<1> QED
  BY <1>3, <1>9, <1>10, <1>8 DEF Once, Closing, Walked

(* The latest of a few entries into the collection. *)
LEMMA MaxTops ==
    ASSUME NEW S \in SUBSET Nat, \E k \in S : \A j \in S : k >= j
    PROVE  Max(S) \in S /\ \A j \in S : j <= Max(S)
  BY DEF Max

(* A jump lands a budget's worth before the end, or later; where the       *)
(* device cannot be entered there, the first page stays.                   *)
LEMMA SkipOnce == IInv /\ Tells /\ Once /\ Skip => Once'
<1> SUFFICES ASSUME IInv, Tells, Once, Skip PROVE Once'
  OBVIOUS
<1> DEFINE base == Base(walk.filtered)
           skip == Max(walk.skips)
           from == IF device.skip = "ignored" THEN 0 ELSE skip
           tail == PageAt(base, from)
           honored == /\ device.skip # "refused" /\ tail # <<>>
                      /\ walk.first # <<>> => tail[1] # walk.first[1]
           jumped == IF walk.cursorSkip = {skip} THEN "yes" ELSE "no"
<1>1. /\ pc = "paging" /\ walk.skips # {} /\ pc' = pc
      /\ Reads /\ UNCHANGED <<shipped, support>> /\ pc \in Walking /\ pc \notin Walked
  BY DEF Skip, world, read, history, Reads, Walking, Walked
<1>2. /\ skip \in walk.skips /\ skip \in Nat /\ from \in Nat
      /\ \A k \in walk.skips : k <= skip
  BY <1>1, MaxTops DEF IInv, Types
<1>3. /\ Asked = base /\ base \in Seq(Entries) /\ Len(base) \in Nat
      /\ DOMAIN base = 1..Len(base) /\ PageSize \in Nat \ {0} /\ Budget \in Nat \ {0}
  BY BaseNumbers, LogAssumption DEF IInv, Tells, Asked
<1>4. walk' = IF honored
              THEN [walk EXCEPT !.skips = {}, !.members = tail, !.offset = skip,
                                !.link = LinkAt(base, from), !.jumped = jumped]
              ELSE [walk EXCEPT !.skips = {}]
  BY DEF Skip
<1>5. /\ Fields \subseteq DOMAIN walk /\ "probed" \in DOMAIN walk /\ "refused" \in DOMAIN walk
      /\ walk.count \in Nat /\ walk.offset \in Nat
  BY <1>1 DEF IInv, Types, Once, Sided, Headed, Walking
<1>6. /\ tail \in Seq(Serials)
      /\ Len(tail) = Most(0, Least(PageSize, Len(base) - from))
      /\ tail # <<>> => from < Len(base) /\ tail[1] = base[from + 1].id
  BY <1>2, <1>3, PageIs
<1>7. jumped = "yes" => walk.cursorSkip # {}
  OBVIOUS
<1>8. jumped = "yes" \/ jumped = "no"
  OBVIOUS
<1> HIDE DEF base, skip, from, tail, honored, jumped
<1>9. /\ walk'.skips = {} /\ "probed" \in DOMAIN walk' /\ walk'.probed = walk.probed
      /\ "refused" \in DOMAIN walk' /\ walk'.refused = walk.refused
      /\ \A f \in Fields \ {"skips", "members", "offset", "link", "jumped"} : walk'[f] = walk[f]
      /\ ~honored => walk'.members = walk.members /\ walk'.offset = walk.offset
                      /\ walk'.link = walk.link
                      /\ walk'.jumped = walk.jumped
      /\ honored => walk'.offset = skip /\ walk'.jumped = jumped
  BY <1>4, <1>5 DEF Fields
<1>10. /\ walk'.order = walk.order /\ walk'.records = walk.records
       /\ walk'.refilled = walk.refilled /\ walk'.present = walk.present
       /\ walk'.count = walk.count /\ walk'.filtered = walk.filtered
       /\ walk'.cursorSkip = walk.cursorSkip
  BY <1>9 DEF Fields
<1>11. /\ Held' = Held /\ (Orderly' => Orderly) /\ (CanSkip' <=> CanSkip)
       /\ \A e : Past(e)' <=> Past(e)
       /\ \A i : Within(i)' <=> Within(i)
       /\ Behind' /\ Sorted' /\ device' = device /\ cursor' = cursor /\ Asked' = Asked
  <2>1. Asked' = Base(walk.filtered)
    BY <1>1, <1>10, AskedStays DEF Reads
  <2> QED
    BY <1>1, <2>1, ReadOnce DEF Once, Reads, Asked
<1>12. Headed'
  BY <1>1, <1>9, <1>10, <1>7, <1>8, HeadedKept
<1>13. Sided'
  BY <1>1, <1>9, <1>10, <1>11 DEF Once, Sided
<1> SUFFICES ASSUME Orderly' PROVE Ahead'
  <2>1. pc' \notin Walked
    BY <1>1
  <2>2. Closing' /\ (~Orderly' => Ahead')
    BY <2>1 DEF Closing, Ahead
  <2> QED
    BY <1>11, <1>13, <1>12, <2>2 DEF Once
<1>14. /\ raced = "no" /\ Orderly
       /\ walk.link # <<>> /\ device.counts = "yes"
       /\ walk.order = "oldest" /\ device.order = "oldest" /\ walk.offset = 0
       /\ walk.first # <<>> /\ walk.first[1] = base[1].id
       /\ skip < walk.count /\ walk.count <= Len(base)
  <2>1. raced = "no" /\ Orderly
    BY <1>11 DEF Orderly
  <2>2. walk.link # <<>> /\ device.counts = "yes" /\ walk.order = device.order
    BY <1>1, <2>1 DEF Once, Ahead, Sided
  <2>3. /\ walk.order = "oldest" /\ walk.first # <<>> /\ walk.first[1] = Asked[1].id
        /\ skip < walk.count /\ walk.count <= Len(Asked) /\ walk.offset = 0
    BY <1>1, <1>2, <2>1 DEF IInv, Window, Tells, Segment, Orderly, Calm
  <2> QED
    BY <1>3, <2>1, <2>2, <2>3
<1>15. CASE CanSkip
  <2>1. /\ \A i \in DOMAIN Asked : Asked[i].serial \in walk.present => i <= walk.count
        /\ walk.count > Budget => walk.count - Budget \in walk.skips
    BY <1>1, <1>14, <1>15 DEF Once, Ahead
  <2>2. from = skip
    BY <1>15 DEF CanSkip, from
  <2>3. ASSUME walk.count > Budget PROVE honored
    <3>1. walk.count - Budget <= skip
      BY <1>2, <2>1, <2>3
    <3>2. skip > 0 /\ skip < Len(base)
      BY <1>2, <1>3, <1>5, <1>14, <2>3, <3>1
    <3>3. tail # <<>>
      <4> DEFINE b == Len(base)
      <4>0. b \in Nat /\ skip < b /\ Len(tail) = Most(0, Least(PageSize, b - skip))
        BY <1>3, <1>6, <2>2, <3>2
      <4> HIDE DEF b
      <4>1. Len(tail) > 0
        BY <1>2, <1>3, <4>0 DEF Most, Least
      <4> QED
        BY <4>1
    <3>4. tail[1] # walk.first[1]
      <4>1. tail[1] = base[skip + 1].id
        BY <1>6, <2>2, <3>3
      <4>2. skip + 1 \in 1..Len(base) /\ 1 \in 1..Len(base) /\ 1 < skip + 1
        BY <1>2, <1>3, <3>2
      <4>3. Asked[1].id < Asked[skip + 1].id /\ Asked[1].id \in Nat
        BY <1>3, <1>14, <4>2, AskedAre
      <4> QED
        BY <1>3, <1>14, <4>1, <4>3
    <3> QED
      BY <1>15, <3>3, <3>4 DEF CanSkip, honored
  <2>4. walk'.count <= walk'.offset + Budget
    <3>1. CASE walk.count > Budget
      <4>1. walk'.offset = skip /\ walk.count - Budget <= skip
        BY <1>2, <1>9, <2>1, <2>3, <3>1
      <4> QED
        BY <1>2, <1>3, <1>5, <1>10, <4>1
    <3>2. CASE ~(walk.count > Budget)
      <4>1. walk'.offset \in Nat
        BY <1>2, <1>5, <1>9
      <4> QED
        BY <1>3, <1>5, <1>10, <3>2, <4>1
    <3> QED
      BY <3>1, <3>2
  <2> QED
    BY <1>1, <1>9, <1>10, <1>11, <1>14, <1>15, <2>1, <2>4 DEF Once, Ahead
<1>16. CASE ~CanSkip
  <2>1. ~honored
    <3>1. CASE device.skip = "refused"
      BY <3>1 DEF honored
    <3>2. CASE device.skip = "ignored"
      <4>1. tail # <<>> => tail[1] = base[0 + 1].id
        BY <1>6, <3>2 DEF from
      <4>2. base[0 + 1].id = walk.first[1]
        BY <1>14
      <4> QED
        BY <1>14, <4>1, <4>2 DEF honored
    <3>3. device.skip \in {"honored", "ignored", "refused"}
      BY LogAssumption DEF IInv, Types, DeviceTypes
    <3> QED
      BY <1>14, <1>16, <3>1, <3>2, <3>3 DEF CanSkip
  <2> QED
    BY <1>1, <1>9, <1>10, <1>11, <1>14, <1>16, <2>1 DEF Once, Ahead
<1> QED
  BY <1>15, <1>16

(* A page followed is a whole one, but for the last. *)
LEMMA FollowLinkOnce == IInv /\ Tells /\ Once /\ FollowLink => Once'
<1> SUFFICES ASSUME IInv, Tells, Once, FollowLink PROVE Once'
  OBVIOUS
<1>1. /\ pc = "paging" /\ pc' = "paging" /\ walk.skips = {} /\ walk.link # <<>>
      /\ Len(walk.members) < Budget
      /\ Reads /\ UNCHANGED <<shipped, support>> /\ pc \in Walking /\ pc' \notin Walked
  BY DEF FollowLink, world, read, history, Reads, Walking, Walked
<1>2. PICK n \in Nat : walk.link = <<n>>
  BY <1>1 DEF IInv, Types
<1> DEFINE base == Base(walk.filtered)
           page == PageAt(base, n)
           link == LinkAt(base, n)
<1>3. /\ Asked = base /\ base \in Seq(Entries) /\ Len(base) \in Nat
      /\ PageSize \in Nat \ {0} /\ Budget \in Nat \ {0}
  BY BaseNumbers, LogAssumption DEF IInv, Tells, Asked
<1>4. walk' = IF page = <<>> THEN [walk EXCEPT !.link = <<>>, !.incomplete = "yes"]
              ELSE [walk EXCEPT !.members = walk.members \o page, !.link = link]
  BY <1>2 DEF FollowLink
<1>5. /\ Fields \subseteq DOMAIN walk /\ "probed" \in DOMAIN walk /\ "refused" \in DOMAIN walk
      /\ walk.members \in Seq(Serials)
  BY <1>1 DEF IInv, Types, Once, Sided, Headed
<1>6. /\ page \in Seq(Serials) /\ Len(page) \in Nat
      /\ Len(page) = Most(0, Least(PageSize, Len(base) - n))
      /\ link # <<>> => Len(page) = PageSize
  <2>1. /\ page \in Seq(Serials)
        /\ Len(page) = Most(0, Least(PageSize, Len(base) - n))
        /\ n + PageSize < Len(base) => Len(page) = PageSize
        /\ link = <<>> \/ n + PageSize < Len(base)
    BY <1>2, <1>3, PageIs
  <2> QED
    BY <2>1
<1> HIDE DEF base, page, link
<1>7. /\ walk'.skips = {} /\ "probed" \in DOMAIN walk' /\ walk'.probed = walk.probed
      /\ "refused" \in DOMAIN walk' /\ walk'.refused = walk.refused
      /\ \A f \in Fields \ {"members", "link", "incomplete"} : walk'[f] = walk[f]
  BY <1>1, <1>4, <1>5 DEF Fields
<1>8. /\ walk'.order = walk.order /\ walk'.records = walk.records
      /\ walk'.refilled = walk.refilled /\ walk'.present = walk.present
      /\ walk'.count = walk.count /\ walk'.offset = walk.offset
      /\ walk'.filtered = walk.filtered /\ walk'.cursorSkip = walk.cursorSkip
      /\ walk'.jumped = walk.jumped
  BY <1>7 DEF Fields
<1>9. /\ Held' = Held /\ (Orderly' => Orderly) /\ (CanSkip' <=> CanSkip)
      /\ \A e : Past(e)' <=> Past(e)
      /\ \A i : Within(i)' <=> Within(i)
      /\ Behind' /\ Sorted' /\ device' = device /\ cursor' = cursor /\ Asked' = Asked
  <2>1. Asked' = Base(walk.filtered)
    BY <1>1, <1>8, AskedStays DEF Reads
  <2> QED
    BY <1>1, <2>1, ReadOnce DEF Once, Reads, Asked
<1>10. Headed'
  BY <1>1, <1>7, <1>8, HeadedKept DEF Walking
<1>11. Orderly => walk.order = device.order
  BY <1>1 DEF Once, Sided
<1>12. Sided'
  BY <1>1, <1>7, <1>8, <1>9, <1>11 DEF Once, Sided
<1> SUFFICES ASSUME Orderly' PROVE Ahead'
  <2>1. Closing' /\ (~Orderly' => Ahead')
    BY <1>1 DEF Closing, Ahead
  <2> QED
    BY <1>9, <1>12, <1>10, <2>1 DEF Once
<1>13. raced = "no" /\ Orderly
  BY <1>9 DEF Orderly
<1>14. page # <<>>
  <2>1. n < Len(base)
    BY <1>1, <1>2, <1>3, <1>13 DEF IInv, Window
  <2>2. Len(page) > 0
    BY <1>2, <1>3, <1>6, <2>1 DEF Most, Least
  <2> QED
    BY <2>2
<1>15. /\ walk'.link = link /\ Len(walk.members) \in Nat
       /\ Len(walk'.members) = Len(walk.members) + Len(page)
  <2>1. walk'.members = walk.members \o page /\ walk'.link = link
    BY <1>4, <1>5, <1>14 DEF Fields
  <2>2. Len(walk.members \o page) = Len(walk.members) + Len(page)
    BY <1>5, <1>6, Joined
  <2>3. Len(walk.members) \in Nat
    BY <1>5
  <2> QED
    BY <2>1, <2>2, <2>3
<1>16. CASE CanSkip
  BY <1>1, <1>7, <1>8, <1>9, <1>13, <1>16 DEF Once, Ahead
<1>17. CASE ~CanSkip
  <2>1. ASSUME device.order = "oldest"
        PROVE  /\ Within(Len(walk'.members))
               /\ walk'.link # <<>> => \E k \in Nat : Len(walk'.members) = k * PageSize
    <3>1. PICK k \in Nat : Len(walk.members) = k * PageSize
      BY <1>1, <1>13, <1>17, <2>1 DEF Once, Ahead
    <3>2. Len(page) <= PageSize
      BY <1>2, <1>3, <1>6 DEF Most, Least
    <3> DEFINE p == PageSize
    <3>3. p \in Nat /\ k + 1 \in Nat /\ (k + 1) * p = k * p + p /\ (k + 1) - 1 = k
          /\ k * p \in Nat
      BY <1>3
    <3>4. Len(walk'.members) <= (k + 1) * p /\ ((k + 1) - 1) * p < Budget
      <4>1. Len(walk'.members) <= k * p + p
        BY <1>6, <1>15, <3>1, <3>2, <3>3
      <4> QED
        BY <1>1, <3>1, <3>3, <4>1
    <3>5. walk'.link # <<>> => Len(walk'.members) = (k + 1) * p
      BY <1>6, <1>15, <3>1, <3>3
    <3> QED
      BY <3>3, <3>4, <3>5 DEF Within
  <2> QED
    BY <1>1, <1>7, <1>8, <1>9, <1>13, <1>17, <2>1 DEF Once, Ahead
<1> QED
  BY <1>16, <1>17

(* A sequence turned round has the same members. *)
LEMMA Reversed ==
    ASSUME NEW S, NEW s \in Seq(S)
    PROVE  Ids(Reverse(s)) = Ids(s)
<1> DEFINE l == Len(s)
<1>1. l \in Nat /\ DOMAIN s = 1..l
  OBVIOUS
<1>2. Reverse(s) = [k \in 1..l |-> s[(l - k) + 1]]
  BY DEF Reverse
<1> HIDE DEF l
<1>3. \A k \in 1..l : (l - k) + 1 \in 1..l /\ (l - ((l - k) + 1)) + 1 = k
  BY <1>1
<1>4. \A k \in 1..l : Reverse(s)[k] = s[(l - k) + 1]
  BY <1>2
<1>5. \A k \in 1..l : s[k] = Reverse(s)[(l - k) + 1]
  BY <1>3, <1>4
<1>6. Ids(Reverse(s)) = {Reverse(s)[k] : k \in 1..l} /\ Ids(s) = {s[k] : k \in 1..l}
  BY <1>1, <1>2 DEF Ids
<1> QED
  BY <1>3, <1>4, <1>5, <1>6

(* Where the clock runs forward, what is asked for of an oldest-first      *)
(* device is numbered without a gap.                                       *)
LEMMA AskedSteps ==
    ASSUME IInv, Tells, Once, Orderly, device.order = "oldest", pc \in Walking
    PROVE  \A i \in 1..Len(Asked) : Asked[i].id = Asked[1].id + (i - 1)
<1>1. /\ Len(Asked) \in Nat
      /\ \A i \in 1..Len(Asked) : Asked[i] \in Held /\ Asked[i].id \in Nat
      /\ \A i, j \in 1..Len(Asked) : Asked[i].id < Asked[j].id <=> i < j
      /\ \A e \in Held : Meets(e) => \E i \in 1..Len(Asked) : e = Asked[i]
  BY AskedAre
<1>2. \A i \in 1..Len(Asked) : Meets(Asked[i])
  BY BaseNumbers DEF IInv, Tells, Asked, Meets
<1>3. /\ \A e \in Held : e.id \in Nat /\ e.at \in Nat /\ e.id < nextId
      /\ \A e \in Held : \A n \in Nat : e.id <= n /\ n < nextId => \E g \in Held : g.id = n
      /\ nextId \in Nat
  BY HeldAre DEF IInv, Tells
<1>4. ASSUME NEW e \in Held, NEW f \in Held, Meets(e), e.id <= f.id PROVE Meets(f)
  <2>1. e.at <= f.at /\ e.at \in Nat /\ f.at \in Nat
    BY <1>3, <1>4 DEF Once, Sorted, Orderly
  <2> SUFFICES ASSUME walk.filtered = "yes", device.filter # "ignored"
               PROVE  f.at >= cursor[1].at
    BY DEF Meets, MeetsIn
  <2>2. e.at >= cursor[1].at
    BY <1>4 DEF Meets, MeetsIn
  <2>3. cursor[1].at \in Nat
    BY DEF Tells, Stamped, Anchor, Stands, Orderly, Calm
  <2> QED
    BY <2>1, <2>2, <2>3
<1>5. ASSUME NEW i \in 1..Len(Asked), i + 1 \in 1..Len(Asked)
      PROVE  Asked[i + 1].id = Asked[i].id + 1
  <2> DEFINE x == Asked[i].id
             y == Asked[i + 1].id
  <2>1. x \in Nat /\ y \in Nat /\ x < y /\ y < nextId /\ Asked[i] \in Held
    <3>1. i < i + 1
      OBVIOUS
    <3> QED
      BY <1>1, <1>3, <1>5, <3>1
  <2>2. PICK g \in Held : g.id = x + 1
    <3>1. x + 1 \in Nat /\ x <= x + 1 /\ x + 1 < nextId
      BY <1>3, <2>1
    <3> QED
      BY <1>3, <2>1, <3>1
  <2>3. Meets(g)
    BY <1>2, <1>4, <2>1, <2>2
  <2>4. PICK k \in 1..Len(Asked) : g = Asked[k]
    BY <1>1, <2>3
  <2>5. Asked[i].id < Asked[k].id
    BY <2>1, <2>2, <2>4
  <2>6. i < k
    BY <1>1, <2>5
  <2>7. ~(i + 1 < k)
    <3>1. ~(y < x + 1)
      BY <2>1
    <3>2. ~(Asked[i + 1].id < Asked[k].id)
      <4>1. Asked[k].id = x + 1
        BY <2>2, <2>4
      <4> QED
        BY <2>1, <4>1
    <3> QED
      BY <1>1, <1>5, <3>2
  <2>8. k = i + 1
    BY <2>6, <2>7
  <2> QED
    BY <2>2, <2>4, <2>8
<1>6. \A i \in 1..Len(Asked) : Asked[i].id = Asked[1].id + (i - 1)
  <2> DEFINE S == {n \in 0..Len(Asked) : n = 0 \/ Asked[n].id = Asked[1].id + (n - 1)}
  <2>1. 0 \in S
    BY <1>1
  <2>2. ASSUME NEW n \in 0..(Len(Asked) - 1), n \in S PROVE n + 1 \in S
    <3>1. n + 1 \in 0..Len(Asked) /\ n + 1 \in 1..Len(Asked) /\ 1 \in 1..Len(Asked)
      BY <1>1
    <3>2. Asked[1].id \in Nat
      BY <1>1, <3>1
    <3>3. CASE n = 0
      <4>1. Asked[n + 1].id = Asked[1].id + ((n + 1) - 1)
        BY <3>2, <3>3
      <4> QED
        BY <3>1, <4>1
    <3>4. CASE n # 0
      <4>1. n \in 1..Len(Asked) /\ Asked[n].id = Asked[1].id + (n - 1)
        BY <1>1, <2>2, <3>4
      <4>2. Asked[n + 1].id = Asked[n].id + 1
        BY <1>5, <3>1, <4>1
      <4>3. Asked[n + 1].id = Asked[1].id + ((n + 1) - 1)
        BY <3>2, <4>1, <4>2
      <4> QED
        BY <3>1, <4>3
    <3> QED
      BY <3>3, <3>4
  <2> HIDE DEF S
  <2>3. \A k \in 0..Len(Asked) : k \in S
    BY <1>1, <2>1, <2>2, UpTo
  <2> QED
    BY <2>3 DEF S
<1> QED
  BY <1>6

(* The pages hold what is asked for, from one index to another. *)
LEMMA PagesAre ==
    ASSUME IInv, Tells, Calm, pc = "paging"
    PROVE  /\ walk.offset \in Nat /\ Len(walk.members) \in Nat
           /\ \A i \in 1..Len(Asked) :
                walk.offset < i /\ i <= walk.offset + Len(walk.members)
                  => Asked[i].id \in Ids(walk.members)
           /\ \A t \in Ids(walk.members) : \E i \in 1..Len(Asked) :
                /\ walk.offset < i /\ i <= walk.offset + Len(walk.members)
                /\ t = Asked[i].id
<1> DEFINE l == Len(walk.members)
           o == walk.offset
<1>1. o \in Nat /\ l \in Nat /\ DOMAIN walk.members = 1..l
  BY DEF IInv, Types, Walking
<1>2. \A k \in 1..l : o + k <= Len(Asked) /\ walk.members[k] = Asked[o + k].id
  BY DEF Tells, Segment
<1>3. Len(Asked) \in Nat
  BY AskedAre
<1> HIDE DEF l, o
<1>4. ASSUME NEW i \in 1..Len(Asked), o < i, i <= o + l
      PROVE  Asked[i].id \in Ids(walk.members)
  <2>1. i - o \in 1..l /\ o + (i - o) = i
    BY <1>1, <1>3, <1>4
  <2> QED
    BY <1>1, <1>2, <2>1 DEF Ids
<1>5. ASSUME NEW t \in Ids(walk.members)
      PROVE  \E i \in 1..Len(Asked) : o < i /\ i <= o + l /\ t = Asked[i].id
  <2>1. PICK k \in 1..l : t = walk.members[k]
    BY <1>1 DEF Ids
  <2>2. o + k \in 1..Len(Asked) /\ o < o + k /\ o + k <= o + l
    BY <1>1, <1>2, <1>3
  <2> QED
    BY <1>2, <2>1, <2>2
<1> QED
  BY <1>1, <1>4, <1>5 DEF l, o

(* The window reaches the newest that shipped: what it visits holds the    *)
(* cursor's member, or lies above it.                                      *)
LEMMA WindowReaches ==
    ASSUME IInv, Tells, Ordered, Once, Orderly, PagesOver,
           NEW c \in Held, Past(c), cursor # <<>>, c.at = cursor[1].at,
           device.order = "oldest" /\ ~CanSkip => Reached(c)
    PROVE  \/ c.id \in Ids(walk.members)
           \/ \A t \in Ids(walk.members) : c.id < t
<1> DEFINE l == Len(walk.members)
           o == walk.offset
<1>1. pc = "paging" /\ walk.skips = {} /\ raced = "no" /\ pc \in Walking /\ Calm
  BY DEF PagesOver, Orderly, Walking, Calm
<1>2. /\ Len(Asked) \in Nat /\ DOMAIN Asked = 1..Len(Asked)
      /\ \A i \in 1..Len(Asked) : Asked[i] \in Held /\ Asked[i].id \in Nat
      /\ \A i, j \in 1..Len(Asked) :
            IF device.order = "oldest" THEN Asked[i].id < Asked[j].id <=> i < j
            ELSE Asked[i].id < Asked[j].id <=> j < i
      /\ \A e \in Held : Meets(e) => \E i \in 1..Len(Asked) : e = Asked[i]
  BY AskedAre
<1>3. /\ o \in Nat /\ l \in Nat
      /\ \A i \in 1..Len(Asked) : o < i /\ i <= o + l => Asked[i].id \in Ids(walk.members)
      /\ \A t \in Ids(walk.members) : \E i \in 1..Len(Asked) :
            o < i /\ i <= o + l /\ t = Asked[i].id
  BY <1>1, PagesAre
<1>4. device.order \in Orders /\ walk.order \in Orders
  BY <1>1, LogAssumption DEF IInv, Types, DeviceTypes, Orders, Ordered
<1>5. Meets(c)
  <2>1. c.at \in Nat
    BY HeldAre DEF IInv, Tells
  <2> QED
    BY <2>1 DEF Meets, MeetsIn
<1>6. PICK p \in 1..Len(Asked) : c = Asked[p]
  BY <1>2, <1>5
<1>7. c.serial \in walk.present
  BY <1>1 DEF Once, Ahead
<1>8. CASE device.order = "oldest"
  <2>1. p <= o + l
    <3>1. CASE walk.link = <<>>
      BY <1>1, <1>2, <1>6, <1>7, <3>1 DEF Tells, Segment
    <3>2. CASE walk.link # <<>>
      <4>1. l >= Budget /\ Budget \in Nat
        BY <3>2, LogAssumption DEF PagesOver, Orderly
      <4>2. CASE CanSkip
        <5>1. p <= walk.count /\ walk.count <= o + Budget /\ walk.count \in Nat
          BY <1>1, <1>2, <1>6, <1>7, <1>8, <3>2, <4>2 DEF Once, Ahead, IInv, Types
        <5> HIDE DEF l, o
        <5> QED
          BY <1>3, <4>1, <5>1
      <4>3. CASE ~CanSkip
        <5>1. o = 0 /\ \E k \in Nat : l = k * PageSize
          BY <1>1, <1>8, <3>2, <4>3 DEF Once, Ahead
        <5>2. PICK k \in Nat : l = k * PageSize
          BY <5>1
        <5> DEFINE f == Asked[1]
        <5>3. 1 \in 1..Len(Asked) /\ f \in Held /\ Meets(f) /\ f.id \in Nat
          <6>1. 1 \in 1..Len(Asked)
            BY <1>2, <1>6
          <6>2. MeetsIn(walk.filtered, Base(walk.filtered)[1])
            BY <6>1, BaseNumbers DEF IInv, Tells, Asked
          <6> QED
            BY <1>2, <6>1, <6>2 DEF Asked, Meets
        <5>4. device.filter = "honored" => f.at >= c.at
          <6> SUFFICES ASSUME device.filter = "honored" PROVE f.at >= c.at
            OBVIOUS
          <6>1. walk.filtered = "yes"
            BY <1>1 DEF Once, Headed
          <6> QED
            BY <5>3, <6>1 DEF Meets, MeetsIn
        <5>5. Within(c.id - f.id + 1)
          BY <1>8, <4>3, <5>3, <5>4 DEF Reached
        <5>6. c.id = f.id + (p - 1)
          BY <1>1, <1>6, <1>8, AskedSteps
        <5>7. c.id - f.id + 1 = p
          BY <5>3, <5>6
        <5>8. p <= k * PageSize
          <6>1. p \in Int
            OBVIOUS
          <6> HIDE DEF f, l, o
          <6> QED
            BY <4>1, <5>2, <5>5, <5>7, <6>1, WithinFits
        <5> HIDE DEF l, o
        <5> QED
          BY <1>3, <5>1, <5>2, <5>8
      <4> QED
        BY <4>2, <4>3
    <3> QED
      BY <3>1, <3>2
  <2>2. CASE o < p
    BY <1>3, <1>6, <2>1, <2>2
  <2>3. CASE ~(o < p)
    <3> SUFFICES ASSUME NEW t \in Ids(walk.members) PROVE c.id < t
      OBVIOUS
    <3>1. PICK i \in 1..Len(Asked) : o < i /\ t = Asked[i].id
      BY <1>3
    <3> HIDE DEF o
    <3>2. p < i
      BY <1>2, <1>3, <2>3, <3>1
    <3> QED
      BY <1>2, <1>6, <1>8, <3>1, <3>2
  <2> QED
    BY <2>2, <2>3
<1>9. CASE device.order # "oldest"
  <2>1. o = 0
    <3>1. CASE walk.order = device.order
      BY <1>1, <1>9, <3>1 DEF Tells, Opened
    <3>2. CASE walk.order # device.order
      BY <1>1, <3>2 DEF Once, Sided
    <3> QED
      BY <3>1, <3>2
  <2> HIDE DEF l, o
  <2>2. CASE p <= l
    BY <1>2, <1>3, <1>6, <2>1, <2>2
  <2>3. CASE ~(p <= l)
    <3> SUFFICES ASSUME NEW t \in Ids(walk.members) PROVE c.id < t
      OBVIOUS
    <3>1. PICK i \in 1..Len(Asked) : i <= o + l /\ t = Asked[i].id
      BY <1>3
    <3>2. i < p
      BY <1>2, <1>3, <2>1, <2>3, <3>1
    <3> QED
      BY <1>2, <1>6, <1>9, <3>1, <3>2
  <2> QED
    BY <2>2, <2>3
<1> QED
  BY <1>8, <1>9

(* The pages over, nothing is recorded yet. *)
LEMMA PagesOverOnce == IInv /\ Tells /\ Ordered /\ Once /\ PagesOver => Once'
<1> SUFFICES ASSUME IInv, Tells, Ordered, Once, PagesOver PROVE Once'
  OBVIOUS
<1>1. /\ pc = "paging" /\ pc' = "visiting" /\ pc \in Walking /\ pc' \in Walking
      /\ Reads /\ UNCHANGED <<shipped, support>>
  BY DEF PagesOver, world, read, history, Reads, Walking
<1>2. /\ Fields \subseteq DOMAIN walk /\ walk.members \in Seq(Serials)
      /\ "probed" \in DOMAIN walk /\ "refused" \in DOMAIN walk
  BY <1>1 DEF IInv, Types, Once, Sided, Headed
<1>3. /\ walk'.todo = IF walk.order = "oldest" THEN Reverse(walk.members) ELSE walk.members
      /\ \A f \in Fields \ {"todo", "incomplete"} : walk'[f] = walk[f]
      /\ "probed" \in DOMAIN walk' /\ walk'.probed = walk.probed
      /\ "refused" \in DOMAIN walk' /\ walk'.refused = walk.refused
  BY <1>2 DEF PagesOver, Fields
<1>4. /\ walk'.order = walk.order /\ walk'.members = walk.members
      /\ walk'.records = walk.records /\ walk'.newest = walk.newest
      /\ walk'.refilled = walk.refilled /\ walk'.filtered = walk.filtered
      /\ walk'.cursorSkip = walk.cursorSkip /\ walk'.jumped = walk.jumped
  BY <1>3 DEF Fields
<1>5. /\ Held' = Held /\ (Orderly' => Orderly) /\ (CanSkip' <=> CanSkip)
      /\ \A e : Past(e)' <=> Past(e)
      /\ \A e : Reached(e)' <=> Reached(e)
      /\ Behind' /\ Sorted' /\ device' = device /\ cursor' = cursor
  BY <1>1, ReadOnce DEF Once, Reads
<1>6. Sided'
  BY <1>1, <1>3, <1>4, <1>5 DEF Once, Sided
<1>7. Headed'
  BY <1>1, <1>3, <1>4, HeadedKept
<1>8. Ahead'
  BY <1>1 DEF Ahead
<1>9. Closing'
  <2> SUFFICES ASSUME Orderly' PROVE Closing'
    BY DEF Closing
  <2>1. Orderly /\ raced = "no" /\ Calm
    BY <1>5 DEF Orderly, Calm
  <2>2. Ids(walk'.todo) = Ids(walk.members)
    BY <1>2, <1>3, Reversed
  <2>3. walk.records = {} /\ walk.refilled = "no" /\ walk.newest = <<>>
    BY <1>1, <2>1 DEF Once, Ahead, Tells, Segment
  <2>4. ASSUME NEW e \in Held, Past(e)
        PROVE  \/ cursor[1].member \in Ids(walk'.todo)
               \/ \A t \in Ids(walk'.todo) : cursor[1].member < t
    <3>1. PICK c \in Held : /\ Past(c) /\ c.id = cursor[1].member /\ c.at = cursor[1].at
                            /\ device.order = "oldest" /\ ~CanSkip => Reached(c)
      BY <2>1, <2>4 DEF Once, Behind
    <3>2. cursor # <<>>
      BY <2>1, <2>4 DEF Once, Behind
    <3> QED
      BY <2>1, <2>2, <3>1, <3>2, WindowReaches
  <2>5. ASSUME device.order = "oldest", ~CanSkip, NEW e \in Held, e.id \in Ids(walk.members)
        PROVE  Reached(e)
    <3> DEFINE l == Len(walk.members)
    <3>1. walk.offset = 0 /\ Within(l)
      BY <1>1, <2>1, <2>5 DEF Once, Ahead
    <3>2. l \in Nat /\ \E i \in 1..Len(Asked) : i <= 0 + l /\ e.id = Asked[i].id
      BY <1>1, <2>1, <2>5, <3>1, PagesAre
    <3> HIDE DEF l
    <3>3. PICK i \in 1..Len(Asked) : i <= l /\ e.id = Asked[i].id
      BY <3>2
    <3>4. /\ \A g \in Held : g.id \in Nat /\ g.at \in Nat
          /\ \A g, h \in Held : g.id = h.id => g = h
      BY HeldAre DEF IInv, Tells
    <3>5. /\ Len(Asked) \in Nat /\ \A j \in 1..Len(Asked) : Asked[j] \in Held
          /\ \A g \in Held : Meets(g) => \E j \in 1..Len(Asked) : g = Asked[j]
      BY AskedAre
    <3>6. e = Asked[i]
      BY <3>3, <3>4, <3>5
    <3>7. Meets(e)
      <4>1. MeetsIn(walk.filtered, Base(walk.filtered)[i])
        BY <3>3, BaseNumbers DEF IInv, Tells, Asked
      <4> QED
        BY <3>6, <4>1 DEF Asked, Meets
    <3> SUFFICES ASSUME NEW f \in Held, device.filter = "honored" => f.at >= e.at
                 PROVE  Within(e.id - f.id + 1)
      BY DEF Reached
    <3>8. CASE e.id < f.id
      <4>1. e.id - f.id + 1 \in Int /\ e.id - f.id + 1 <= 0
        BY <3>4, <3>8
      <4> QED
        BY <4>1, WithinNone
    <3>9. CASE ~(e.id < f.id)
      <4>1. Meets(f)
        <5> SUFFICES ASSUME walk.filtered = "yes", device.filter # "ignored"
                     PROVE  f.at >= cursor[1].at
          BY DEF Meets, MeetsIn
        <5>1. device.filter = "honored" /\ cursor # <<>>
          BY <1>1, <2>1 DEF Tells, Stamped
        <5>2. e.at >= cursor[1].at /\ cursor[1].at \in Nat
          BY <2>1, <3>7, <5>1 DEF Meets, MeetsIn, Tells, Anchor, Stands
        <5> QED
          BY <3>4, <5>1, <5>2
      <4>2. PICK j \in 1..Len(Asked) : f = Asked[j]
        BY <3>5, <4>1
      <4>3. e.id = Asked[1].id + (i - 1) /\ f.id = Asked[1].id + (j - 1)
        BY <1>1, <2>1, <2>5, <3>3, <4>2, AskedSteps
      <4>4. Asked[1].id \in Nat
        BY <3>4, <3>5
      <4>5. e.id - f.id + 1 \in Int /\ e.id - f.id + 1 <= l
        <5> DEFINE x == Asked[1].id
                   y == e.id
                   z == f.id
        <5>1. y = x + (i - 1) /\ z = x + (j - 1) /\ x \in Nat
          BY <4>3, <4>4
        <5> HIDE DEF x, y, z
        <5>2. y - z + 1 \in Int /\ y - z + 1 <= l
          BY <3>2, <3>3, <5>1
        <5> QED
          BY <5>2 DEF y, z
      <4> QED
        BY <3>1, <3>2, <4>5, WithinDown
    <3> QED
      BY <3>8, <3>9
  <2> QED
    BY <1>1, <1>4, <1>5, <2>1, <2>3, <2>4, <2>5 DEF Closing, Flags
<1> QED
  BY <1>5, <1>6, <1>8, <1>9, <1>7 DEF Once

(* A visit goes down, from below the newest it recorded. *)
LEMMA NextMember ==
    ASSUME IInv, Tells, Once, Orderly, pc = "visiting", walk.todo # <<>>
    PROVE  /\ Member \in Ids(walk.todo) /\ Member \in Nat
           /\ Ids(Tail(walk.todo)) \subseteq Ids(walk.todo)
           /\ \A t \in Ids(walk.todo) : t = Member \/ t \in Ids(Tail(walk.todo))
           /\ \A t \in Ids(Tail(walk.todo)) : t < Member
           /\ walk.newest # <<>> => /\ walk.newest[1] \in Ids(walk.members)
                                    /\ walk.newest[1] \in Nat /\ Member < walk.newest[1]
<1>1. pc \in Walking /\ pc \in Walked /\ Calm
  BY DEF Walking, Walked, Orderly, Calm
<1>2. walk.todo \in Seq(Serials) /\ walk.members \in Seq(Serials) /\ walk.visited \in Nat
  BY <1>1 DEF IInv, Types
<1> DEFINE n == Len(walk.todo)
           rest == Tail(walk.todo)
<1>3. /\ n \in Nat /\ n > 0 /\ DOMAIN walk.todo = 1..n
      /\ DOMAIN rest = 1..(n - 1) /\ \A k \in 1..(n - 1) : rest[k] = walk.todo[k + 1]
      /\ Member = walk.todo[1] /\ \A k \in 1..n : walk.todo[k] \in Nat
  <2>1. /\ rest \in Seq(Serials) /\ Len(rest) = Len(walk.todo) - 1
        /\ \A k \in 1..Len(rest) : rest[k] = walk.todo[k + 1]
        /\ Head(walk.todo) = walk.todo[1]
    BY <1>2, HeadTailProperties
  <2>2. n \in Nat /\ n > 0 /\ DOMAIN walk.todo = 1..n
    BY <1>2
  <2>3. \A k \in 1..n : walk.todo[k] \in Nat
    BY <1>2, <2>2, LogAssumption DEF Serials
  <2> QED
    BY <2>1, <2>2, <2>3 DEF Member
<1> HIDE DEF n, rest
<1>4. /\ Ids(walk.todo) \subseteq Ids(walk.members)
      /\ \A k, l \in DOMAIN walk.todo : k < l => Before(walk.todo[k], walk.todo[l])
      /\ \A m \in Visits, t \in Ids(walk.todo) : Before(m, t)
      /\ walk.newest # <<>> => walk.newest[1] \in Visits /\ walk.newest[1] \in Nat
      /\ walk.visited + Len(walk.todo) = Len(walk.members)
  BY <1>1 DEF Tells, Seen, Stands, Calm
<1>5. walk.order # device.order => Len(walk.members) <= 1
  BY <1>1 DEF Once, Sided
<1>6. /\ Member \in Ids(walk.todo) /\ Member \in Nat
      /\ Ids(rest) \subseteq Ids(walk.todo)
      /\ \A t \in Ids(walk.todo) : t = Member \/ t \in Ids(rest)
  <2>1. Member \in Ids(walk.todo) /\ Member \in Nat
    BY <1>3 DEF Ids
  <2>2. Ids(rest) \subseteq Ids(walk.todo)
    <3>1. \A k \in 1..(n - 1) : k + 1 \in 1..n
      BY <1>3
    <3> QED
      BY <1>3, <3>1 DEF Ids
  <2>3. ASSUME NEW k \in 1..n PROVE walk.todo[k] = Member \/ walk.todo[k] \in Ids(rest)
    <3>1. k = 1 \/ (k - 1 \in 1..(n - 1) /\ (k - 1) + 1 = k)
      BY <1>3
    <3> QED
      BY <1>3, <3>1 DEF Ids
  <2> QED
    BY <1>3, <2>1, <2>2, <2>3 DEF Ids
<1>7. \A t \in Ids(rest) : t < Member
  <2> SUFFICES ASSUME NEW k \in 1..(n - 1) PROVE rest[k] < Member
    BY <1>3 DEF Ids
  <2>1. /\ k + 1 \in 1..n /\ 1 \in 1..n /\ 1 < k + 1 /\ rest[k] = walk.todo[k + 1]
        /\ walk.todo[k + 1] \in Nat
    BY <1>3
  <2>2. walk.order = device.order
    BY <1>2, <1>3, <1>4, <1>5, <2>1 DEF n
  <2>3. Before(walk.todo[1], walk.todo[k + 1])
    BY <1>3, <1>4, <2>1
  <2> QED
    BY <1>3, <1>6, <2>1, <2>2, <2>3 DEF Before
<1>8. ASSUME walk.newest # <<>>
      PROVE  /\ walk.newest[1] \in Ids(walk.members)
             /\ walk.newest[1] \in Nat /\ Member < walk.newest[1]
  <2>1. /\ walk.newest[1] \in Ids(walk.members) /\ walk.newest[1] \notin Ids(walk.todo)
        /\ walk.newest[1] \in Nat /\ Before(walk.newest[1], Member)
    BY <1>4, <1>6, <1>8 DEF Visits
  <2>2. walk.order = device.order
    <3> SUFFICES ASSUME walk.order # device.order PROVE FALSE
      OBVIOUS
    <3>1. DOMAIN walk.members = 1..Len(walk.members) /\ Len(walk.members) \in Nat
      BY <1>2
    <3>2. \A k \in DOMAIN walk.members : k = 1
      BY <1>5, <3>1
    <3>3. walk.newest[1] = walk.members[1] /\ Member = walk.members[1]
      BY <1>4, <1>6, <2>1, <3>2 DEF Ids
    <3> QED
      BY <1>6, <2>1, <3>3
  <2> QED
    BY <1>6, <2>1, <2>2 DEF Before
<1> QED
  BY <1>6, <1>7, <1>8 DEF rest

(* A member the cursor's place does not cover has not shipped; one that    *)
(* voids the cursor shows that nothing held has.                           *)
LEMMA NotCovered ==
    ASSUME IInv, Tells, Once, Orderly, pc = "visiting", walk.todo # <<>>,
           NEW entry \in Held, entry.id = Member, Placed(entry) # "covered"
    PROVE  /\ ~Past(entry)
           /\ Placed(entry) = "refilled" => \A e \in Held : ~Past(e)
           /\ \A e \in Held : Past(e) => e.id < Member
           /\ \A e \in Held : Past(e) => cursor[1].member # Member
<1>1. pc \in Walked
  BY DEF Walking, Walked
<1>2. /\ \A e \in Held : e.id \in Nat
      /\ \A e, f \in Held : e.id = f.id => e = f
  BY HeldAre DEF IInv, Tells
<1>3. ASSUME NEW e \in Held, Past(e)
      PROVE  cursor[1].member # Member /\ cursor # <<>> /\ walk.refilled = "no"
  <2>1. walk.refilled = "no"
    BY <1>1, <1>3 DEF Once, Closing, Flags
  <2>2. PICK c \in Held : /\ Sound(c) /\ c.id = cursor[1].member /\ c.at = cursor[1].at
    BY <1>3 DEF Once, Behind
  <2>3. cursor # <<>>
    BY <1>3 DEF Once, Behind
  <2>4. cursor[1].member = Member => c = entry
    BY <1>2, <2>2
  <2> QED
    BY <2>1, <2>2, <2>3, <2>4 DEF Placed, IsCursor
<1>4. ASSUME NEW e \in Held, Past(e) PROVE e.id < Member
  <2>1. /\ Member \in Ids(walk.todo) /\ Member \in Nat
        /\ \A t \in Ids(walk.todo) : t = Member \/ t \in Ids(Tail(walk.todo))
        /\ \A t \in Ids(Tail(walk.todo)) : t < Member
    BY NextMember
  <2>2. \/ cursor[1].member \in Ids(walk.todo)
        \/ \A t \in Ids(walk.todo) : cursor[1].member < t
    BY <1>1, <1>4 DEF Once, Closing
  <2>3. cursor[1].member < Member
    BY <1>3, <1>4, <2>1, <2>2
  <2>4. e.id <= cursor[1].member
    BY <1>4 DEF Once, Behind
  <2>5. cursor[1].member \in Nat
    BY <1>3, <1>4 DEF Tells, Anchor, Stands, Orderly, Calm
  <2> QED
    BY <1>2, <2>1, <2>3, <2>4, <2>5
<1>5. ~Past(entry)
  BY <1>2, <1>4
<1>6. Placed(entry) = "refilled" => \A e \in Held : ~Past(e)
  BY <1>3 DEF Placed, IsCursor
<1> QED
  BY <1>3, <1>4, <1>5, <1>6

(* The visit goes on or ends: nothing that shipped is recorded again. *)
LEMMA VisitOnce ==
    IInv /\ Tells /\ Once /\ (Exhausted \/ VisitRefused \/ VisitMember \/ VisitOver) => Once'
<1> SUFFICES ASSUME IInv, Tells, Once, Exhausted \/ VisitRefused \/ VisitMember \/ VisitOver
             PROVE  Once'
  OBVIOUS
<1>1. /\ pc = "visiting" /\ pc' \in {"visiting", "judging"} /\ Reads
      /\ UNCHANGED <<shipped, support>> /\ pc \in Walking /\ pc \in Walked /\ pc' \in Walking
  BY DEF Exhausted, VisitRefused, VisitMember, VisitOver, Visiting, Reach, world, read,
         history, Reads, Walking, Walked
<1>2. Fields \subseteq DOMAIN walk /\ {"probed", "refused"} \subseteq DOMAIN walk
  BY <1>1 DEF IInv, Types, Once, Sided, Headed, Walking
<1> DEFINE kept == Fields \cup {"probed", "refused"}
<1>3. /\ Held' = Held /\ (Orderly' => Orderly) /\ (CanSkip' <=> CanSkip)
      /\ \A e : Past(e)' <=> Past(e)
      /\ \A e : Reached(e)' <=> Reached(e)
      /\ \A e : Sound(e)' <=> Sound(e)
      /\ Behind' /\ Sorted' /\ device' = device /\ cursor' = cursor /\ written' = written
  BY <1>1, ReadOnce DEF Once, Reads
<1>4. Ahead'
  BY <1>1 DEF Ahead
<1>5. ASSUME walk.todo # <<>>
      PROVE  /\ Visited.todo = Tail(walk.todo) /\ DOMAIN Visited = DOMAIN walk
             /\ \A f \in kept \ {"todo", "visited"} : Visited[f] = walk[f]
  BY <1>2 DEF Visited, Fields
<1>6. ASSUME walk'.order = walk.order, walk'.members = walk.members,
             walk'.probed = walk.probed, walk'.refused = walk.refused,
             {"probed", "refused"} \subseteq DOMAIN walk', walk'.filtered = walk.filtered,
             walk'.cursorSkip = walk.cursorSkip, walk'.jumped = walk.jumped
      PROVE  Sided' /\ Headed'
  <2>1. Sided'
    BY <1>1, <1>3, <1>6 DEF Once, Sided
  <2>2. Headed'
    BY <1>1, <1>6, HeadedKept
  <2> QED
    BY <2>1, <2>2
<1>7. Orderly =>
        /\ \A s \in walk.records : s \in Serials /\ s <= written /\ shipped[s] = 0
        /\ walk.newest = <<>> => walk.records = {}
        /\ walk.newest # <<>> =>
             /\ \A e \in Held : e.serial \in walk.records \/ Past(e) => e.id <= walk.newest[1]
             /\ \A e \in Held : e.id = walk.newest[1] =>
                  e.serial \in walk.records /\ Sound(e) /\ e.at = walk.newest[2]
        /\ walk.refilled \in Flags
        /\ walk.refilled = "yes" => \A e \in Held : ~Past(e)
        /\ \A e \in Held : Past(e) =>
              \/ cursor[1].member \in Ids(walk.todo)
              \/ \A t \in Ids(walk.todo) : cursor[1].member < t
        /\ device.order = "oldest" /\ ~CanSkip =>
             \A e \in Held : e.id \in Ids(walk.members) => Reached(e)
  BY <1>1 DEF Once, Closing
<1>8. ASSUME walk'.members = walk.members, walk'.records = walk.records,
             walk'.newest = walk.newest, walk'.refilled = walk.refilled,
             pc' = "visiting" /\ Orderly =>
               \A e \in Held : Past(e) =>
                 \/ cursor[1].member \in Ids(walk'.todo)
                 \/ \A t \in Ids(walk'.todo) : cursor[1].member < t
      PROVE  Closing'
  <2> SUFFICES ASSUME Orderly' PROVE Closing'
    BY DEF Closing
  <2>1. Orderly
    BY <1>3
  <2> QED
    BY <1>1, <1>3, <1>7, <1>8, <2>1 DEF Closing
<1>9. CASE Exhausted \/ VisitOver
  <2>1. \A f \in kept \ {"stopped", "late"} : walk'[f] = walk[f]
    BY <1>2, <1>9 DEF Exhausted, VisitOver, Fields
  <2>2. /\ walk'.members = walk.members /\ walk'.order = walk.order
        /\ walk'.records = walk.records /\ walk'.newest = walk.newest
        /\ walk'.refilled = walk.refilled /\ walk'.probed = walk.probed
        /\ walk'.refused = walk.refused /\ walk'.filtered = walk.filtered
        /\ walk'.cursorSkip = walk.cursorSkip /\ walk'.jumped = walk.jumped
    BY <2>1 DEF Fields
  <2>3. {"probed", "refused"} \subseteq DOMAIN walk' /\ pc' = "judging"
    BY <1>2, <1>9 DEF Exhausted, VisitOver
  <2> QED
    BY <1>3, <1>4, <1>6, <1>8, <2>2, <2>3 DEF Once
<1>10. CASE VisitRefused
  <2>1. walk.todo # <<>>
    BY <1>10 DEF VisitRefused, Visiting
  <2> DEFINE v == Reported(Visited)
  <2>2. /\ v.todo = Tail(walk.todo) /\ DOMAIN v = DOMAIN walk
        /\ \A f \in kept \ {"todo", "visited", "issues"} : v[f] = walk[f]
    BY <1>2, <1>5, <2>1 DEF Reported, Fields
  <2>3. (IsCursor /\ Reach(v)) \/ (~IsCursor /\ walk' = v /\ pc' = pc)
    BY <1>10 DEF VisitRefused
  <2> HIDE DEF v
  <2>4. /\ \A f \in kept \ {"todo", "visited", "issues", "reached", "stalled"} :
              walk'[f] = walk[f]
        /\ DOMAIN walk' = DOMAIN walk
        /\ pc' = "visiting" => walk'.todo = Tail(walk.todo) /\ ~IsCursor
    BY <1>2, <2>2, <2>3 DEF Reach, Fields
  <2>5. /\ walk'.members = walk.members /\ walk'.order = walk.order
        /\ walk'.records = walk.records /\ walk'.newest = walk.newest
        /\ walk'.refilled = walk.refilled /\ walk'.probed = walk.probed
        /\ walk'.refused = walk.refused /\ walk'.filtered = walk.filtered
        /\ walk'.cursorSkip = walk.cursorSkip /\ walk'.jumped = walk.jumped
    BY <2>4 DEF Fields
  <2>6. ASSUME pc' = "visiting", Orderly, NEW e \in Held, Past(e)
        PROVE  \/ cursor[1].member \in Ids(walk'.todo)
               \/ \A t \in Ids(walk'.todo) : cursor[1].member < t
    <3>1. cursor # <<>> /\ walk.refilled = "no"
      BY <1>7, <2>6 DEF Once, Behind, Flags
    <3>2. cursor[1].member # Member
      BY <2>4, <2>6, <3>1 DEF IsCursor
    <3> QED
      BY <1>1, <1>7, <2>1, <2>4, <2>6, <3>2, NextMember
  <2> QED
    BY <1>2, <1>3, <1>4, <1>6, <1>8, <2>4, <2>5, <2>6 DEF Once
<1>11. CASE VisitMember
  <2>1. walk.todo # <<>> /\ Found(Member) # {}
    BY <1>11 DEF VisitMember, Visiting
  <2> DEFINE entry == Entry(Member)
             x == IF Placed(entry) = "refilled" THEN "yes" ELSE Visited.refilled
             marked == [Visited EXCEPT !.refilled = x]
  <2>2. entry \in Held /\ entry.id = Member
    <3>1. \E i \in Found(Member) : entry = log[i]
      BY <2>1 DEF Entry
    <3> QED
      BY <3>1 DEF Held, Found
  <2>3. CASE Placed(entry) = "covered"
    <3>1. Reach(Visited)
      BY <1>11, <2>3 DEF VisitMember
    <3>2. /\ \A f \in kept \ {"todo", "visited", "reached", "stalled"} : walk'[f] = walk[f]
          /\ DOMAIN walk' = DOMAIN walk /\ pc' = "judging"
      BY <1>2, <1>5, <2>1, <3>1 DEF Reach, Fields
    <3>3. /\ walk'.members = walk.members /\ walk'.order = walk.order
          /\ walk'.records = walk.records /\ walk'.newest = walk.newest
          /\ walk'.refilled = walk.refilled /\ walk'.probed = walk.probed
        /\ walk'.refused = walk.refused /\ walk'.filtered = walk.filtered
        /\ walk'.cursorSkip = walk.cursorSkip /\ walk'.jumped = walk.jumped
      BY <3>2 DEF Fields
    <3> QED
      BY <1>2, <1>3, <1>4, <1>6, <1>8, <3>2, <3>3 DEF Once
  <2>4. CASE Placed(entry) # "covered"
    <3>1. walk' = Projected(marked, entry) /\ pc' = "visiting"
      BY <1>1, <1>11, <2>4 DEF VisitMember
    <3>2. /\ DOMAIN marked = DOMAIN walk /\ marked.todo = Tail(walk.todo) /\ marked.refilled = x
          /\ \A f \in kept \ {"todo", "visited", "refilled"} : marked[f] = walk[f]
      BY <1>2, <1>5, <2>1 DEF Fields
    <3>3. x = IF Placed(entry) = "refilled" THEN "yes" ELSE walk.refilled
      BY <1>5, <2>1 DEF Fields
    <3> HIDE DEF marked, x
    <3>4. /\ \A f \in kept \ {"todo", "visited", "refilled", "issues", "records", "newest"} :
                walk'[f] = walk[f]
          /\ DOMAIN walk' = DOMAIN walk /\ walk'.refilled = x /\ walk'.todo = Tail(walk.todo)
          /\ Sound(entry) => /\ walk'.records = walk.records \cup {entry.serial}
                             /\ walk'.newest = IF walk.newest = <<>>
                                               THEN <<entry.id, entry.at>> ELSE walk.newest
          /\ ~Sound(entry) => walk'.records = walk.records /\ walk'.newest = walk.newest
      BY <1>2, <3>1, <3>2 DEF Projected, Fields
    <3>5. /\ walk'.members = walk.members /\ walk'.order = walk.order
          /\ walk'.probed = walk.probed
          /\ walk'.refused = walk.refused /\ walk'.filtered = walk.filtered
          /\ walk'.cursorSkip = walk.cursorSkip /\ walk'.jumped = walk.jumped
      BY <3>4 DEF Fields
    <3> HIDE DEF entry
    <3>6. Closing'
      <4> SUFFICES ASSUME Orderly' PROVE Closing'
        BY DEF Closing
      <4>1. Orderly
        BY <1>3
      <4>2. /\ ~Past(entry)
            /\ Placed(entry) = "refilled" => \A e \in Held : ~Past(e)
            /\ \A e \in Held : Past(e) => e.id < Member
            /\ \A e \in Held : Past(e) => cursor[1].member # Member
        BY <1>1, <2>1, <2>2, <2>4, <4>1, NotCovered DEF entry
      <4>3. /\ Ids(Tail(walk.todo)) \subseteq Ids(walk.todo) /\ Member \in Nat
            /\ \A t \in Ids(walk.todo) : t = Member \/ t \in Ids(Tail(walk.todo))
            /\ walk.newest # <<>> => walk.newest[1] \in Nat /\ Member < walk.newest[1]
        BY <1>1, <2>1, <4>1, NextMember
      <4>4. /\ entry.serial \in Serials /\ entry.serial <= written
            /\ \A e \in Held : e.id \in Nat /\ (e.serial = entry.serial => e = entry)
            /\ \A e \in Held : e.id = entry.id => e = entry
        <5>1. /\ \A e \in Held : e \in Entries /\ e.id \in Nat /\ e.serial <= written
              /\ \A e, f \in Held : e.id = f.id => e = f
              /\ nextId \in Nat /\ written \in Nat /\ Len(log) \in Nat
          BY HeldAre DEF IInv, Tells
        <5>2. \A e \in Held : e.serial = e.id + (written - nextId + 1)
          <6> SUFFICES ASSUME NEW i \in DOMAIN log
                       PROVE  log[i].serial = log[i].id + (written - nextId + 1)
            BY DEF Held
          <6>1. /\ log[i].id = nextId - 1 - Len(log) + i
                /\ log[i].serial = written - Len(log) + i /\ i \in Nat
            BY DEF Tells, Numbered, IInv, Types
          <6> QED
            BY <5>1, <6>1
        <5>3. ASSUME NEW e \in Held, e.serial = entry.serial PROVE e = entry
          <6>1. e.id = entry.id
            BY <2>2, <5>1, <5>2, <5>3
          <6> QED
            BY <2>2, <5>1, <6>1
        <5> QED
          BY <2>2, <5>1, <5>3 DEF Entries
      <4>5. \A s \in walk'.records : s \in Serials /\ s <= written /\ shipped[s] = 0
        BY <1>7, <3>4, <4>1, <4>2, <4>4 DEF Past
      <4>6. walk'.newest = <<>> => walk'.records = {}
        BY <1>7, <3>4, <4>1
      <4>7. ASSUME walk'.newest # <<>>, NEW e \in Held
            PROVE  /\ e.serial \in walk'.records \/ Past(e) => e.id <= walk'.newest[1]
                   /\ e.id = walk'.newest[1] =>
                        e.serial \in walk'.records /\ Sound(e) /\ e.at = walk'.newest[2]
        <5>1. CASE walk.newest = <<>>
          <6>1. /\ Sound(entry) /\ walk'.records = {entry.serial}
                /\ walk'.newest[1] = entry.id /\ walk'.newest[2] = entry.at
            BY <1>7, <3>4, <4>1, <4>7, <5>1
          <6> QED
            BY <2>2, <4>2, <4>3, <4>4, <6>1
        <5>2. CASE walk.newest # <<>>
          <6>1. /\ walk'.newest = walk.newest /\ walk.records \subseteq walk'.records
                /\ walk'.records \subseteq walk.records \cup {entry.serial}
            BY <3>4, <5>2
          <6> QED
            BY <1>7, <2>2, <4>1, <4>3, <4>4, <5>2, <6>1
        <5> QED
          BY <5>1, <5>2
      <4>8. walk'.refilled \in Flags /\ (walk'.refilled = "yes" => \A e \in Held : ~Past(e))
        BY <1>7, <3>3, <3>4, <4>1, <4>2 DEF Flags
      <4>9. \A e \in Held : Past(e) =>
                \/ cursor[1].member \in Ids(walk'.todo)
                \/ \A t \in Ids(walk'.todo) : cursor[1].member < t
        BY <1>7, <3>4, <4>1, <4>2, <4>3
      <4> QED
        BY <1>1, <1>3, <1>7, <3>5, <4>1, <4>5, <4>6, <4>7, <4>8, <4>9 DEF Closing
    <3> QED
      BY <1>2, <1>3, <1>4, <1>6, <3>4, <3>5, <3>6 DEF Once
  <2> QED
    BY <2>3, <2>4
<1> QED
  BY <1>9, <1>10, <1>11

(* What ships moves the cursor to the newest of it. *)
LEMMA ShipOnce == IInv /\ Tells /\ Once /\ Ship => Once'
<1> SUFFICES ASSUME IInv, Tells, Once, Ship PROVE Once'
  OBVIOUS
<1>1. /\ pc = "shipping" /\ pc' = "idle" /\ cursor' = After
      /\ shipped' = [s \in Serials |->
                       IF s \in walk.records THEN Least(2, shipped[s] + 1) ELSE shipped[s]]
      /\ UNCHANGED <<device, log, nextId, written, clock, raced>>
      /\ pc \in Walking /\ pc \in Walked
  BY DEF Ship, world, Walking, Walked
<1>2. Ahead' /\ Closing' /\ pc' \notin Walking
  BY <1>1 DEF Ahead, Closing, Walking, Walked
<1>3. After # <<>> => After[1].probed = walk.probed /\ After[1].order = walk.order
  BY DEF After
<1>4. Sided'
  BY <1>1, <1>2, <1>3 DEF Once, Sided, Orderly
<1>5. Sorted'
  BY <1>1 DEF Once, Sorted, Held
<1>6. Headed'
  BY <1>1, <1>2 DEF Ship, Once, Headed
<1>7. Behind'
  <2> SUFFICES ASSUME Orderly PROVE Behind'
    BY <1>1 DEF Behind, Orderly
  <2>1. /\ \A s \in walk.records : s \in Serials /\ s <= written /\ shipped[s] = 0
        /\ walk.newest = <<>> => walk.records = {}
        /\ walk.newest # <<>> =>
             /\ \A e \in Held : e.serial \in walk.records \/ Past(e) => e.id <= walk.newest[1]
             /\ \A e \in Held : e.id = walk.newest[1] =>
                  e.serial \in walk.records /\ Sound(e) /\ e.at = walk.newest[2]
        /\ walk.refilled = "yes" => \A e \in Held : ~Past(e)
        /\ device.order = "oldest" /\ ~CanSkip =>
             \A e \in Held : e.id \in Ids(walk.members) => Reached(e)
    BY <1>1 DEF Once, Closing
  <2>2. shipped \in [Serials -> 0..1] /\ \A s \in Serials : shipped[s] # 0 => s <= written
    BY DEF Once, Behind
  <2>3. \A s \in walk.records : shipped'[s] = 1
    BY <1>1, <2>1 DEF Least
  <2>4. /\ shipped' \in [Serials -> 0..1]
        /\ \A s \in Serials : shipped'[s] # 0 => s <= written
        /\ \A s \in Serials : shipped'[s] # 0 => s \in walk.records \/ shipped[s] # 0
        /\ \A s \in Serials \ walk.records : shipped'[s] = shipped[s]
    <3>1. \A s \in Serials \ walk.records : shipped'[s] = shipped[s]
      BY <1>1
    <3>2. \A s \in Serials : shipped'[s] \in 0..1
      BY <2>2, <2>3, <3>1
    <3>3. shipped' = [s \in Serials |-> shipped'[s]]
      BY <1>1
    <3> QED
      BY <2>1, <2>2, <3>1, <3>2, <3>3
  <2>5. /\ \A e \in Held : e.serial \in Serials /\ e.id \in Nat
        /\ \A e \in Held : \A n \in Nat : e.id <= n /\ n < nextId => \E f \in Held : f.id = n
        /\ nextId \in Nat
    BY HeldAre DEF IInv, Tells, Entries
  <2>6. /\ Held' = Held /\ (CanSkip' <=> CanSkip) /\ device' = device /\ written' = written
        /\ \A e : Reached(e)' <=> Reached(e)
        /\ \A e : Sound(e)' <=> Sound(e)
    BY <1>1 DEF Held, CanSkip, Within, Reached, Sound
  <2>7. \A e \in Held : Past(e)' => e.serial \in walk.records \/ Past(e)
    BY <2>4, <2>5 DEF Past
  <2>8. \A e \in Held : e.serial \in walk.records \/ Past(e) => Past(e)'
    <3> SUFFICES ASSUME NEW e \in Held, e.serial \in walk.records \/ Past(e)
                 PROVE  shipped'[e.serial] # 0
      BY DEF Past
    <3> QED
      BY <2>3, <2>4, <2>5 DEF Past
  <2>9. ASSUME NEW e \in Held, Past(e)'
        PROVE  /\ After # <<>> /\ e.id <= After[1].member
               /\ \E c \in Held : /\ Past(c)' /\ Sound(c)
                                  /\ c.id = After[1].member /\ c.at = After[1].at
                                  /\ device.order = "oldest" /\ ~CanSkip => Reached(c)
    <3>1. CASE walk.newest # <<>>
      <4> DEFINE m == walk.newest[1]
      <4>1. After # <<>> /\ After[1].member = m /\ After[1].at = walk.newest[2]
        BY <3>1 DEF After
      <4>2. m \in Ids(walk.members) /\ m \in Nat /\ m < nextId
        BY <1>1, <3>1 DEF Tells, Seen, Visits, Stands, Listed, Orderly, Calm
      <4>3. e.id <= m
        BY <2>1, <2>7, <2>9, <3>1
      <4> HIDE DEF m
      <4>4. PICK c \in Held : c.id = m
        BY <2>5, <4>2, <4>3
      <4>5. c.serial \in walk.records /\ Sound(c) /\ c.at = walk.newest[2]
        BY <2>1, <3>1, <4>4 DEF m
      <4>6. device.order = "oldest" /\ ~CanSkip => Reached(c)
        BY <2>1, <4>2, <4>4
      <4> QED
        BY <2>8, <4>1, <4>3, <4>4, <4>5, <4>6
    <3>2. CASE walk.newest = <<>>
      <4>1. Past(e) /\ walk.refilled # "yes"
        BY <2>1, <2>7, <2>9, <3>2
      <4>2. /\ cursor # <<>> /\ e.id <= cursor[1].member
            /\ \E c \in Held : /\ Past(c) /\ Sound(c)
                               /\ c.id = cursor[1].member /\ c.at = cursor[1].at
                               /\ device.order = "oldest" /\ ~CanSkip => Reached(c)
        BY <4>1 DEF Once, Behind
      <4>3. /\ After # <<>> /\ After[1].member = cursor[1].member
            /\ After[1].at = cursor[1].at
        BY <3>2, <4>1, <4>2 DEF After
      <4> QED
        BY <2>8, <4>2, <4>3
    <3> QED
      BY <3>1, <3>2
  <2> QED
    BY <1>1, <2>4, <2>6, <2>9 DEF Behind
<1> QED
  BY <1>2, <1>4, <1>7, <1>5, <1>6 DEF Once

(* A poll begins, or reads the service: a device that selects by filter is *)
(* read from the head only while nothing that shipped is held.             *)
LEMMA OpensHeaded ==
    ASSUME IInv, Tells, Ordered, Once, Begin \/ ReadService \/ AskFilter \/ Fail,
           pc' \notin Walking
    PROVE  Once'
<1>1. /\ Reads /\ shipped' = shipped
      /\ ReadService \/ AskFilter => support' = support
  BY DEF Begin, ReadService, AskFilter, Fail, Reads, world, read, history
<1>2. /\ Held' = Held /\ (Orderly' => Orderly) /\ (\A e : Past(e)' <=> Past(e))
      /\ device' = device /\ cursor' = cursor
  BY <1>1, ReadOnce DEF Reads
<1>3. ReadService \/ AskFilter => walk' = walk \/ walk' = [walk EXCEPT !.refused = "yes"]
  BY DEF ReadService, AskFilter, Walking
<1>4. ReadService \/ AskFilter => "forced" \in DOMAIN walk /\ "refused" \in DOMAIN walk
  BY DEF ReadService, AskFilter, Ordered, Once, Headed
<1>5. Orderly' /\ pc' \in {"opening", "asking", "heading"} => walk'.forced \subseteq {device.order}
  <2>1. CASE Begin \/ Fail
    BY <2>1 DEF Begin, Fail, NoWalk
  <2>2. CASE ReadService \/ AskFilter
    <3>1. walk'.forced = walk.forced /\ pc \in {"opening", "asking"}
      BY <1>3, <1>4, <2>2 DEF ReadService, AskFilter
    <3> QED
      BY <1>2, <3>1 DEF Once, Sided
  <2> QED
    BY <2>1, <2>2
<1>6. ASSUME device.filter = "honored", Orderly, pc' = "heading", NEW e \in Held, Past(e)
      PROVE  FALSE
  <2>1. PICK c \in Held : c.id = cursor[1].member /\ c.at = cursor[1].at
    BY <1>6 DEF Once, Behind
  <2>2. cursor # <<>>
    BY <1>6 DEF Once, Behind
  <2>3. CASE ReadService
    <3>1. support = "advertised"
      BY <1>6, <2>2, <2>3 DEF Once, Headed, ReadService
    <3>2. ~ClockBehind
      BY <1>6 DEF ClockBehind, Orderly
    <3> QED
      BY <1>6, <2>2, <2>3, <3>1, <3>2 DEF ReadService
  <2>4. CASE AskFilter
    <3>1. Matching = <<>>
      BY <1>6, <2>4 DEF AskFilter
    <3>2. c.at \in Nat
      BY HeldAre DEF IInv, Tells
    <3>3. MeetsIn("yes", c)
      BY <2>1, <3>2 DEF MeetsIn
    <3>4. \E i \in 1..Len(Base("yes")) : c = Base("yes")[i]
      BY <3>3, BaseNumbers DEF IInv, Tells
    <3>5. Base("yes") = <<>>
      BY <3>1 DEF Base
    <3> QED
      BY <3>4, <3>5
  <2> QED
    BY <1>6, <2>3, <2>4 DEF Begin, Fail
<1>7. Headed'
  <2>1. pc' # "idle" => "refused" \in DOMAIN walk'
    BY <1>3, <1>4 DEF Begin, Fail, NoWalk
  <2>2. ASSUME device.filter = "honored"
        PROVE  /\ support' \in {"unknown", "advertised"}
               /\ pc' # "idle" =>
                    walk'.refused # "yes" /\ (cursor # <<>> => support' = "advertised")
    <3>1. CASE Begin
      BY <2>2, <3>1 DEF Begin, NoWalk, Once, Headed
    <3>2. CASE Fail
      BY <2>2, <3>2 DEF Fail, read, Once, Headed
    <3>3. CASE ReadService
      BY <1>1, <2>2, <3>3 DEF ReadService, Once, Headed
    <3>4. CASE AskFilter
      <4>1. walk' = walk /\ pc # "idle"
        BY <2>2, <3>4 DEF AskFilter, Walking
      <4> QED
        BY <1>1, <2>2, <3>4, <4>1 DEF Once, Headed
    <3> QED
      BY <3>1, <3>2, <3>3, <3>4
  <2>3. pc' # "probing"
    BY DEF Walking
  <2>4. device.filter = "honored" /\ Orderly' /\ pc' = "heading" => \A e \in Held : ~Past(e)
    BY <1>2, <1>6
  <2> QED
    BY <1>2, <2>1, <2>2, <2>3, <2>4 DEF Headed
<1> QED
  BY <1>1, <1>5, <1>7, IdleOnce

(* A pass walked once more is read from the head: of a device that selects *)
(* by filter, only when nothing that shipped is held.                      *)
LEMMA AgainHeaded ==
    ASSUME IInv, Tells, Ordered, Once, Rewalk \/ ProbeFlips
    PROVE  Once'
<1>1. /\ Reads /\ UNCHANGED <<shipped, support>> /\ pc' = "heading" /\ pc \in Walking
      /\ "refused" \in DOMAIN walk' /\ walk'.refused = walk.refused
  BY DEF Rewalk, ProbeFlips, Again, Reads, world, read, history, Walking
<1>2. /\ Held' = Held /\ (Orderly' => Orderly) /\ (\A e : Past(e)' <=> Past(e))
      /\ device' = device /\ cursor' = cursor
  BY <1>1, ReadOnce DEF Reads
<1>3. CASE Rewalk
  <2>1. walk.jumped = "yes" /\ walk'.forced = {}
    BY <1>3 DEF Rewalk, MissedJump, Again
  <2>2. walk.filtered # "yes"
    BY <1>1, <2>1 DEF Once, Headed
  <2>3. Headed'
    BY <1>1, <1>2, <2>2 DEF Once, Headed, Walking
  <2> QED
    BY <1>1, <2>1, <2>3, IdleOnce DEF Walking
<1>4. CASE ProbeFlips
  <2>1. /\ walk'.forced = {Flipped} /\ pc = "probing"
        /\ raced' = "no" => walk.order # device.order
    BY <1>4 DEF ProbeFlips, Again
  <2>2. walk.order \in Orders /\ device.order \in Orders
    BY <2>1, LogAssumption DEF Ordered, Walking, IInv, Types, DeviceTypes, Orders
  <2>3. Orderly' => walk'.forced \subseteq {device.order}
    BY <2>1, <2>2 DEF Orderly, Flipped, Orders
  <2>4. Orderly' => walk.filtered # "yes"
    <3> SUFFICES ASSUME Orderly', walk.filtered = "yes" PROVE FALSE
      OBVIOUS
    <3>1. Len(walk.members) > 1 /\ Len(walk.members) \in Nat
      BY <1>1, <2>1 DEF Once, Headed, IInv, Types
    <3>2. Len(walk.members) <= 1
      BY <1>1, <1>2, <2>1 DEF Once, Sided, Orderly
    <3> QED
      BY <3>1, <3>2
  <2>5. Headed'
    BY <1>1, <1>2, <2>4 DEF Once, Headed, Walking
  <2> QED
    BY <1>1, <2>3, <2>5, IdleOnce DEF Walking
<1> QED
  BY <1>3, <1>4

(* Every step of the device and of the poll keeps the cursor above what    *)
(* shipped.                                                                *)
LEMMA OnceStays == IInv /\ Tells /\ Ordered /\ Once /\ [Next]_vars => Once'
<1> SUFFICES ASSUME IInv, Tells, Ordered, Once, [Next]_vars PROVE Once'
  OBVIOUS
<1>1. CASE UNCHANGED vars \/ Overlap
  <2>1. Reads /\ UNCHANGED <<shipped, walk, support, pc>>
    BY <1>1 DEF vars, world, read, history, Overlap, Reads
  <2>2. pc' = "probing" /\ walk.filtered = "yes" => Len(walk.members) > 1
    BY <2>1 DEF Once, Headed
  <2> QED
    BY <2>1, <2>2, UndisturbedOnce
<1>2. CASE Begin \/ Fail \/ ReadService
  BY <1>2, OpensHeaded DEF Begin, Fail, ReadService, Walking
<1>3. CASE AskFilter
  <2>1. CASE pc' = "heading"
    BY <1>3, <2>1, OpensHeaded DEF Walking
  <2>2. CASE walk' = Pass("yes") /\ pc' = "paging"
    BY <1>3, <2>2, PassOnce DEF AskFilter
  <2> QED
    BY <1>3, <2>1, <2>2 DEF AskFilter
<1>4. CASE OpenHead
  BY <1>4, PassOnce DEF OpenHead
<1>5. CASE Doubt \/ Settle \/ ProbeStands \/ ProbeRefused
  <2>1. /\ Reads /\ UNCHANGED <<shipped, walk, support>>
        /\ pc \in Walked /\ pc' \in Walked \ {"visiting"}
        /\ pc' = "probing" => Doubted
    BY <1>5 DEF Doubt, Settle, ProbeStands, ProbeRefused, world, read, history, Reads,
                Walked, Walking
  <2>2. pc' = "probing" /\ walk.filtered = "yes" => Len(walk.members) > 1
    BY <2>1 DEF Doubted
  <2> QED
    BY <2>1, <2>2, UndisturbedOnce
<1> QED
  BY <1>1, <1>2, <1>3, <1>4, <1>5, AgainHeaded, WriteOnce, ClockOnce, SkipOnce, FollowLinkOnce,
     PagesOverOnce, VisitOnce, ShipOnce DEF Next, Device, Poll

(* No entry ships twice, for every size of log, page and budget and every  *)
(* number of entries, where the order is read off a page of two members at *)
(* least and the clock runs forward: the cursor stands at the newest entry *)
(* that shipped, every window reaches up from it or past it, and the walk  *)
(* ends where it is met or voids it only when the log was refilled.        *)
THEOREM NothingShipsTwice == Spec => []NoRepeat
<1>1. IInv /\ Tells /\ Ordered /\ Once /\ [Next]_vars => Once'
  BY OnceStays
<1>2. Once => NoRepeat
  <2> SUFFICES ASSUME Once, Orderly, NEW s \in Serials PROVE shipped[s] <= 1
    BY DEF NoRepeat, Orderly
  <2>1. shipped[s] \in 0..1
    BY DEF Once, Behind
  <2> QED
    BY <2>1
<1> QED
  BY InitiallyOnce, TellsInvariant, <1>1, <1>2, PTL DEF Spec
=============================================================================
