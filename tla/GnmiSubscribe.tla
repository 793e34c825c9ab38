---------------------------- MODULE GnmiSubscribe ----------------------------
(***************************************************************************)
(* One call of a gNMI provider: Get, Subscribe ONCE or Subscribe STREAM.   *)
(* sources/gnmi/src/lib.rs, and the bound on issues of source/src/         *)
(* result.rs.                                                              *)
(*                                                                         *)
(* A message is what the code tells apart of it.  A notification that      *)
(* projects is named by its place in what the target sent; a flawed one    *)
(* yields one issue.                                                       *)
(***************************************************************************)
EXTENDS Integers, Sequences, FiniteSets

CONSTANTS
    Limit,         \* issues an envelope may carry
    MaxMessages    \* bound: messages of one call

ASSUME GnmiAssumption == Limit \in Nat \ {0} /\ MaxMessages \in Nat

VARIABLES
    mode,       \* the provider: "get", "once", "stream"
    phase,      \* "idle", "open", "published", "failed", "dropped"
    sent,       \* history: what the target sent and the code took
    synced,     \* as in the code of ONCE
    index,      \* likewise
    payloads,   \* likewise: places in sent of what was projected
    issues,     \* likewise: the notification index each issue carries
    out,        \* places in sent of what the consumer was given
    told        \* the issues it was given

vars == <<mode, phase, sent, synced, index, payloads, issues, out, told>>

Projects == {"clean", "flawed"}
Notifications == Projects \cup {"broken"}     \* broken: project fails
Controls == {"synced", "unsynced"}            \* SyncResponse(true), (false)
Errors == {"error", "empty", "status"}        \* legacy Error, no field, gRPC status
Messages == Notifications \cup Controls \cup Errors \cup {"eof"}

Updates(s) == {i \in DOMAIN s : s[i] \in Projects}

TypeOK ==
    /\ mode \in {"get", "once", "stream"}
    /\ phase \in {"idle", "open", "published", "failed", "dropped"}
    /\ sent \in Seq(Messages) /\ Len(sent) <= MaxMessages
    /\ synced \in BOOLEAN /\ index \in Nat
    /\ payloads \subseteq Nat /\ out \subseteq Nat
    /\ issues \in Seq(Nat)
    /\ told \in Seq([index : Nat] \cup [omitted : Nat]) /\ Len(told) <= Limit

Init ==
    /\ mode \in {"get", "once", "stream"} /\ phase = "idle"
    /\ sent = <<>>
    /\ synced = FALSE /\ index = 0 /\ payloads = {} /\ issues = <<>>
    /\ out = {} /\ told = <<>>
-----------------------------------------------------------------------------
Named(i) == [n \in DOMAIN i |-> [index |-> i[n]]]

(* bounded_issues: the first Limit - 1, and one that counts the rest. *)
Bounded(i) ==
    IF Len(i) <= Limit THEN Named(i)
    ELSE Append(Named(SubSeq(i, 1, Limit - 1)), [omitted |-> Len(i) - (Limit - 1)])

(* AcquisitionParts::new. *)
Publish(p, i) ==
    /\ phase' = "published" /\ out' = p /\ told' = Bounded(i)
    /\ payloads' = {} /\ issues' = <<>>

(* A failure discards what was buffered. *)
Discard(end) ==
    /\ phase' = end
    /\ payloads' = {} /\ issues' = <<>>
    /\ UNCHANGED <<mode, synced, index, out, told>>

Take(message) ==
    /\ phase = "open" /\ Len(sent) < MaxMessages
    /\ sent' = Append(sent, message)
-----------------------------------------------------------------------------
(* The RPC is opened, or refused: a status, or the legacy error of a Get. *)
Subscribe ==
    /\ phase = "idle" /\ mode # "get" /\ phase' = "open"
    /\ UNCHANGED <<mode, sent, synced, index, payloads, issues, out, told>>

Refused ==
    /\ phase = "idle" /\ Discard("failed") /\ UNCHANGED sent

(* The acquisition's future, or its stream, is dropped. *)
Drop ==
    /\ phase \in {"idle", "open"} /\ Discard("dropped") /\ UNCHANGED sent
-----------------------------------------------------------------------------
(* ONCE. *)

\* Mutants.
OnceUpdateNamesIssues(message) ==
    /\ mode = "once" /\ ~synced /\ message \in Projects /\ Take(message)
    /\ payloads' = payloads \cup {Len(sent')}
    /\ issues' = IF message = "flawed" THEN Append(issues, index) ELSE issues
    /\ index' = IF message = "flawed" THEN index + 1 ELSE index
    /\ UNCHANGED <<mode, phase, synced, out, told>>

OnceUpdate(message) ==
    /\ mode = "once" /\ ~synced /\ message \in Projects /\ Take(message)
    /\ payloads' = payloads \cup {Len(sent')}
    /\ issues' = IF message = "flawed" THEN Append(issues, index) ELSE issues
    /\ index' = index + 1
    /\ UNCHANGED <<mode, phase, synced, out, told>>

\* Mutants.
OnceSyncLast(message) ==
    /\ mode = "once" /\ message \in Controls /\ Take(message)
    /\ synced' = (message = "synced")
    /\ UNCHANGED <<mode, phase, index, payloads, issues, out, told>>

OnceSync(message) ==
    /\ mode = "once" /\ message \in Controls /\ Take(message)
    /\ synced' = (synced \/ message = "synced")
    /\ UNCHANGED <<mode, phase, index, payloads, issues, out, told>>

(* An error, a notification that does not project, or one after the sync. *)
OnceFails(message) ==
    /\ mode = "once" /\ Take(message)
    /\ \/ message \in Errors \cup {"broken"}
       \/ message \in Notifications /\ synced
    /\ Discard("failed")

(* The end of the RPC with status OK. *)
OnceEnds ==
    /\ mode = "once" /\ Take("eof")
    /\ \/ synced /\ Publish(payloads, issues) /\ UNCHANGED <<mode, synced, index>>
       \/ ~synced /\ Discard("failed")
-----------------------------------------------------------------------------
(* STREAM: an item per notification, or the failure that ends it. *)

\* Mutants.
StreamMessageSkips(message) ==
    /\ mode = "stream" /\ Take(message)
    /\ \/ /\ message \in Projects
          /\ out' = out \cup {Len(sent')} /\ UNCHANGED phase
       \/ message \in Controls \cup {"broken"} /\ UNCHANGED <<out, phase>>
       \/ message \in Errors \cup {"eof"} /\ phase' = "failed" /\ UNCHANGED out
    /\ UNCHANGED <<mode, synced, index, payloads, issues, told>>

StreamMessage(message) ==
    /\ mode = "stream" /\ Take(message)
    /\ \/ /\ message \in Projects
          /\ out' = out \cup {Len(sent')} /\ UNCHANGED phase
       \/ message \in Controls /\ UNCHANGED <<out, phase>>
       \/ /\ message \in Errors \cup {"broken", "eof"}
          /\ phase' = "failed" /\ UNCHANGED out
    /\ UNCHANGED <<mode, synced, index, payloads, issues, told>>
-----------------------------------------------------------------------------
(* GET. *)

(* The index of every notification with an issue. *)
Indexed(s) == LET from[n \in 1..(Len(s) + 1)] ==
                    IF n > Len(s) THEN <<>>
                    ELSE IF s[n] = "flawed" THEN <<n - 1>> \o from[n + 1] ELSE from[n + 1]
              IN  from[1]

(* The answer, all at once: none, or one that does not project, fails it. *)
GetAnswers(s) ==
    /\ phase = "idle" /\ mode = "get" /\ sent' = s
    /\ \/ /\ s # <<>> /\ \A i \in DOMAIN s : s[i] \in Projects
          /\ Publish(Updates(s), Indexed(s)) /\ UNCHANGED <<mode, synced, index>>
       \/ /\ s = <<>> \/ \E i \in DOMAIN s : s[i] \notin Projects
          /\ Discard("failed")

Answers == UNION {[1..n -> Notifications] : n \in 0..MaxMessages}
-----------------------------------------------------------------------------
Next ==
    \/ Subscribe \/ Refused \/ Drop
    \/ \E message \in Messages :
         \/ OnceUpdate(message) \/ OnceSync(message) \/ OnceFails(message)
         \/ StreamMessage(message)
    \/ OnceEnds
    \/ \E s \in Answers : GetAnswers(s)

Spec == Init /\ [][Next]_vars
-----------------------------------------------------------------------------
(* What a target must have sent for a snapshot: notifications that project *)
(* before some SyncResponse(true), nothing but controls after it, and a    *)
(* clean end.                                                              *)
Whole(s) ==
    /\ s # <<>> /\ s[Len(s)] = "eof"
    /\ \A i \in 1..(Len(s) - 1) : s[i] \in Projects \cup Controls
    /\ \E k \in DOMAIN s : s[k] = "synced" /\ \A u \in Updates(s) : u < k

(* A ONCE snapshot is published exactly when the target sent a whole one,  *)
(* whatever false and repeated syncs stand in it, then with every          *)
(* notification, and otherwise not at all (the loop over messages of       *)
(* ConfiguredOnce::perform).                                               *)
OncePublishesWhole ==
    mode = "once" =>
        /\ phase = "published" <=> Whole(sent)
        /\ out = IF phase = "published" THEN Updates(sent) ELSE {}

(* An open STREAM has handed over every notification it took, and the      *)
(* first message that is neither that nor a sync ends it with a failure    *)
(* (the unfold of ConfiguredSubscription::perform).                        *)
StreamTellsAll ==
    mode = "stream" =>
        /\ out = Updates(sent)
        /\ \A i \in DOMAIN sent :
              sent[i] \notin Projects \cup Controls <=> i = Len(sent) /\ phase = "failed"

(* Whatever a target sends, and in whatever order, a call hands over all   *)
(* that it may and none of the rest: the two above, of one provider each.  *)
CallsHandOverWhole == OncePublishesWhole /\ StreamTellsAll

(* Every issue of a published ONCE or Get is shipped or counted as omitted *)
(* (bounded_issues), and names its notification by the number of           *)
(* notifications before it, syncs not counted (at_index), in the order     *)
(* they came and no two alike.                                             *)
IssuesAccounted ==
    phase = "published" =>
        LET flawed == {u \in Updates(sent) : sent[u] = "flawed"}
            number(u) == Cardinality({v \in Updates(sent) : v < u})
            omitted == {i \in DOMAIN told : "omitted" \in DOMAIN told[i]}
        IN  /\ \A i \in DOMAIN told \ omitted :
                  \E u \in flawed : told[i].index = number(u)
            /\ \A i, j \in DOMAIN told \ omitted : i < j => told[i].index < told[j].index
            /\ IF omitted = {} THEN Len(told) = Cardinality(flawed)
               ELSE /\ omitted = {Len(told)}
                    /\ Len(told) - 1 + told[Len(told)].omitted = Cardinality(flawed)
=============================================================================
