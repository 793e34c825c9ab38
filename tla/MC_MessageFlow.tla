--------------------------- MODULE MC_MessageFlow ---------------------------
(***************************************************************************)
(* Every message of the contract, with two or three things to set each     *)
(* field to: empty, longest and too-long strings, twins, unsorted lists,   *)
(* unrecognized and aliasing enumeration numbers, values at the depth      *)
(* limit.                                                                  *)
(***************************************************************************)
EXTENDS MessageFlow

None == {}
One(S) == {<<x>> : x \in S}
UpTo(S, n) == UNION {[1..k -> S] : k \in 0..n}

Stamp(s, n) == [seconds |-> <<s>>, nanos |-> <<n>>]
Subj(k)     == [kind |-> <<k>>, scope |-> <<>>, id |-> <<1>>]
Within(k)   == [kind |-> <<k>>, scope |-> <<1>>, id |-> <<1>>]
SigKey(k, fa) == [subject |-> <<Subj(k)>>, facet |-> fa]
Range_(lo, hi) == [min |-> lo, max |-> hi]
Descr(k, u) == [key |-> <<k>>, kind |-> <<>>, unit |-> u, range |-> <<>>]
Sample(k, x) == [key |-> <<k>>, value |-> << <<2, x>> >>, observed_at |-> <<>>]
Log(at, m)  == [occurred_at |-> at, severity |-> << <<3, FALSE>> >>, message |-> <<m>>,
                subject |-> <<>>, entry_id |-> <<>>, attributes |-> <<>>]
State(x, at, fa) == [subject |-> <<Subj(1)>>, name |-> <<1>>, value |-> << <<2, x>> >>,
                     observed_at |-> at, facet |-> fa]
Item(k, key) == [subject |-> <<Subj(k)>>, attributes |-> <<>>, source_key |-> key]
Unres(l)    == [location |-> <<l>>, property |-> <<>>]
Res(k, tag, props) == [subject |-> <<Subj(k)>>, source_key |-> <<1>>, source_schema |-> <<>>,
                       entity_tag |-> tag, observed_at |-> <<>>, properties |-> props,
                       properties_complete |-> <<1>>, unresolved |-> <<>>]
Rel(a, b, k) == [source |-> <<Subj(a)>>, target |-> <<Subj(b)>>, kind |-> <<k>>]
Endpoint    == [endpoint_id |-> <<1>>, attributes |-> <<>>]
Orig        == [provider |-> <<1>>, request_class |-> <<1>>]
Window      == [start |-> <<Stamp(1, 0)>>, end |-> <<>>]
Cover(c, s) == [completeness |-> << <<c, FALSE>> >>, scope |-> s]
Graph(rs, ls) == [resources |-> rs, relations |-> ls]
Issue(p, k, d) == [path |-> <<p>>, kind |-> << <<k, FALSE>> >>, detail |-> d]

RECURSIVE Nest(_)
Nest(n) == IF n = 1 THEN <<3, -1>> ELSE <<9, <<Nest(n - 1)>> >>
Maps == {<<>>, << <<1, <<6, 0>> >>, <<2, <<10, << <<1, <<1, 0>> >> >> >> >> >>,
         << <<256, Nest(16)>> >>, << <<257, <<2, 1>> >> >>, << <<0, <<2, 1>> >> >>}
Values == {<<1, 0>>, <<5, 3>>, <<6, 4096>>, <<8, Stamp(1, 5)>>, Nest(3),
           <<9, << <<7, 0>>, <<4, 200>> >> >>, <<10, << <<1, <<2, 0>> >> >> >>}
Numbers == {<<1, 0>>, <<2, -3>>, <<2, 5>>, <<3, 5>>}
Stamps  == {Stamp(0, 999999999), Stamp(-1, 0)}
Sigs    == {SigKey(1, <<>>), SigKey(2, <<>>), SigKey(1, <<2>>)}

TheSamples ==
  [Timestamp |-> [seconds |-> One({-1, 0, 7}), nanos |-> One({0, 999999999, 1000000000})],
   Subject |-> [kind |-> One({0, 1, 129}), scope |-> {<<>>, <<1>>, <<2, 1>>, <<0>>, <<257>>,
                    [i \in 1..16 |-> 1], [i \in 1..17 |-> 1]}, id |-> One({0, 256, 257})],
   SignalKey |-> [subject |-> One({Subj(1), Within(1)}), facet |-> One({0, 1, 128, 129})],
   ValueRange |-> [min |-> One(Numbers), max |-> One(Numbers)],
   SignalDescriptor |-> [key |-> One(Sigs), kind |-> One({0, 128}), unit |-> One({1, 65}),
                         range |-> One({Range_(<< <<2, 1>> >>, <<>>)})],
   Reading |-> [key |-> One(Sigs), value |-> One(Numbers), observed_at |-> One(Stamps)],
   Readings |-> [descriptors |-> UpTo({Descr(SigKey(1, <<>>), <<>>), Descr(SigKey(1, <<>>), <<1>>),
                                       Descr(SigKey(2, <<>>), <<>>), Descr(SigKey(1, <<2>>), <<>>)}, 3),
                 samples |-> UpTo({Sample(SigKey(1, <<>>), 4), Sample(SigKey(2, <<>>), 3)}, 2)],
   LogRecord |-> [occurred_at |-> One({Stamp(1, 0)}), severity |-> One({<<1, FALSE>>, <<9, TRUE>>, <<3, TRUE>>}),
                  message |-> One({0, 65536, 65537}), subject |-> One({Subj(1)}),
                  entry_id |-> One({0, 256}), attributes |-> One(Maps)],
   Logs |-> [records |-> UpTo({Log(<<>>, 1), Log(<<Stamp(2, 0)>>, 0), Log(<<>>, 0)}, 3)],
   StateObservation |-> [subject |-> One({Subj(1)}), name |-> One({0, 1}), value |-> One(Values),
                         observed_at |-> One({Stamp(1, 0)}), facet |-> One({0, 128})],
   States |-> [observations |-> UpTo({State(1, <<>>, <<>>), State(0, <<Stamp(1, 0)>>, <<>>),
                                      State(1, <<Stamp(1, 0)>>, <<>>), State(0, <<Stamp(2, 0)>>, <<>>),
                                      State(1, <<Stamp(1, 0)>>, <<1>>)}, 3)],
   InventoryItem |-> [subject |-> One({Subj(1), Subj(2)}), attributes |-> One(Maps),
                      source_key |-> One({0, 1024, 1025})],
   Inventory |-> [items |-> UpTo({Item(1, <<>>), Item(1, <<1>>), Item(2, <<>>)}, 3)],
   UnresolvedReference |-> [location |-> One({0, 1, 1025}), property |-> One({0, 256, 257})],
   ObservedResource |-> [subject |-> One({Subj(1)}), source_key |-> One({0, 1}),
                         source_schema |-> One({256}), entity_tag |-> One({1, 2}),
                         observed_at |-> One({Stamp(1, 0)}), properties |-> One({<<>>, << <<1, <<2, 1>> >> >>}),
                         properties_complete |-> One({0, 1}), unresolved |-> UpTo({Unres(1), Unres(2)}, 2)],
   ResourceRelation |-> [source |-> One({Subj(1), Subj(2)}), target |-> One({Subj(1)}), kind |-> One({0, 1, 129})],
   ResourceGraph |-> [resources |-> UpTo({Res(1, <<1>>, <<>>), Res(1, <<2>>, <<>>), Res(2, <<>>, <<>>),
                                          Res(1, <<>>, << <<>> >>)}, 3),
                      relations |-> UpTo({Rel(1, 2, 1), Rel(2, 1, 1), Rel(1, 2, 2)}, 2)],
   EndpointContext |-> [endpoint_id |-> One({0, 256, 257}), attributes |-> One(Maps)],
   Origin |-> [provider |-> One({0, 128, 129}), request_class |-> One({0, 1, 129})],
   ObservationWindow |-> [start |-> One({Stamp(1, 0), Stamp(1, 5)}),
                          end |-> One({Stamp(0, 9), Stamp(1, 5), Stamp(2, 0)})],
   Coverage |-> [completeness |-> One({<<1, FALSE>>, <<2, FALSE>>, <<3, TRUE>>, <<1, TRUE>>, <<0, TRUE>>}),
                 scope |-> One({Subj(1), Within(1)})],
   ObservationBatch |-> [endpoint |-> One({Endpoint}), origin |-> One({Orig}), window |-> One({Window}),
        coverage |-> One({Cover(1, <<>>), Cover(1, <<Subj(1)>>), Cover(2, <<Subj(1)>>)}),
        payload |-> One({<<10, [descriptors |-> <<>>, samples |-> <<>>]>>,
                         <<11, [records |-> <<Log(<<>>, 1)>>]>>, <<12, [observations |-> <<>>]>>,
                         <<13, [items |-> <<Item(1, <<>>)>>]>>,
                         <<14, Graph(<<Res(1, <<>>, <<>>), Res(2, <<>>, <<>>)>>, <<Rel(1, 2, 1)>>)>>,
                         <<14, Graph(<<Res(1, <<>>, <<>>), Res(2, <<>>, <<>>)>>, <<Rel(2, 1, 1)>>)>>,
                         <<14, Graph(<<Res(2, <<>>, <<>>), Res(3, <<>>, <<>>)>>,
                                     <<Rel(2, 3, 1), Rel(3, 2, 1)>>)>>})],
   AcquisitionStatus |-> [endpoint_id |-> One({1}), provider |-> One({1}), request_class |-> One({0, 1}),
        outcome |-> One({<<1, FALSE>>, <<2, FALSE>>, <<3, TRUE>>, <<2, TRUE>>}),
        failure_class |-> One({<<1, FALSE>>, <<8, TRUE>>, <<7, TRUE>>}), retryable |-> One({1}),
        started_at |-> One({Stamp(1, 0)}), duration_nanos |-> One({200}), detail |-> One({0, 4096})],
   ProjectionIssue |-> [path |-> One({0, 1, 1025}), kind |-> One({<<1, FALSE>>, <<2, FALSE>>, <<5, TRUE>>, <<1, TRUE>>}),
                        detail |-> One({0, 1})],
   ProjectionIssues |-> [endpoint |-> One({Endpoint}), origin |-> One({Orig}), at |-> One({Stamp(1, 0)}),
        issues |-> UpTo({Issue(1, 1, <<>>), Issue(1, 2, <<1>>), Issue(2, 1, <<>>)}, 3)]]

AllKinds == DOMAIN TheSamples
=============================================================================
