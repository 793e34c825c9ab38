---------------------------- MODULE MC_Pipeline -----------------------------
(***************************************************************************)
(* Pipeline over two endpoints, one of them under two contexts, two        *)
(* classes, and every kind of declaration, policy and wiring mistake.      *)
(***************************************************************************)
EXTENDS Pipeline

Rack(id, slot) == [id |-> id, slot |-> slot]
Poll_(endpoint, class, cadence) == [endpoint |-> endpoint, class |-> class, cadence |-> cadence]
MCPollNeeds ==
    {Poll_(Rack("a", 1), "logs", 1), Poll_(Rack("a", 2), "logs", 2), Poll_(Rack("b", 1), "logs", 1),
     Poll_(Rack("a", 1), "logs", 3)}
MCStreamNeeds == {[endpoint |-> Rack("a", 1), class |-> "logs"]}

Declaration(provider, class, mode, cost) ==
    [provider |-> provider, class |-> class, mode |-> mode, cost |-> cost]
MCDeclarations ==
    {Declaration("walk", "logs", "polled", 1), Declaration("events", "logs", "streamed", 2),
     Declaration("spare", "logs", "polled", 1), Declaration("free", "events", "polled", 0),
     Declaration("", "events", "streamed", 1), Declaration("later", "logs", "pushed", 0)}

Sound == [threshold |-> 50, window |-> 4, samples |-> 2, cool_down |-> 1,
          burst |-> 1, refill |-> 1, per |-> 1]
MCPolicies ==
    {Sound, [Sound EXCEPT !.threshold = 0], [Sound EXCEPT !.threshold = 101],
     [Sound EXCEPT !.samples = 0], [Sound EXCEPT !.samples = 5],
     [Sound EXCEPT !.cool_down = 0], [Sound EXCEPT !.cool_down = 801],
     [Sound EXCEPT !.refill = 0], [Sound EXCEPT !.per = 801]}

Ladder(first, max, stagger) == [first |-> first, max |-> max, stagger |-> stagger]
MCReconnects ==
    {Ladder(1, 7, 25), Ladder(3, 100, 100), Ladder(300, 800, 25),
     Ladder(0, 7, 25), Ladder(7, 3, 25), Ladder(1, 900, 25), Ladder(1, 7, 101)}

MCIdentities ==
    {[endpoint |-> Rack("a", 2), origin |-> [provider |-> "walk", class |-> "logs"]],
     [endpoint |-> Rack("b", 1), origin |-> [provider |-> "walk", class |-> "logs"]],
     [endpoint |-> Rack("a", 1), origin |-> [provider |-> "spare", class |-> "logs"]]}

p == Issue("p", "MissingRequired", "empty")
q == Issue("q", "Invalid", "long")
r == Issue("r", "Invalid", "fits")
s == Issue("s", "Invalid", "empty")
nowhere == Issue("empty", "MissingRequired", "empty")

(* Every short list of issues and some beyond the bound, beside one        *)
(* payload; every list of payloads beside one issue.                       *)
MCParts ==
    ({<<"sound">>} \X (UpTo({p, q, r, s, nowhere}, 2)
                        \cup {<<p, q, r>>, <<p, q, p>>, <<p, p, q>>, <<p, q, s>>, <<s, q, r>>,
                              <<p, nowhere, r>>, <<p, q, r, p>>}))
      \cup (UpTo({"sound", "unsound"}, 2) \X {<<>>, <<p>>})
MCFailures ==
    {Failure(class, "unrefined", "long") : class \in FailureClasses}
      \cup {Failure("Authentication", "yes", "empty"), Failure("Device", "no", "fits")}
=============================================================================
