----------------------------- MODULE MC_GnmiFlow -----------------------------
(***************************************************************************)
(* One call of each provider.  Mappings meet in every way the checks tell  *)
(* apart; a notification has up to two updates, or three of a few, of      *)
(* leaves and of the objects above them.                                   *)
(***************************************************************************)
EXTENDS GnmiFlow

Own(name) == [name |-> <<"", name>>, keys |-> <<>>]
From(module, name) == [name |-> <<module, name>>, keys |-> <<>>]
Entry(keys) == [name |-> <<"", "e">>, keys |-> keys]
A == Entry("n" :> "a")
B == Entry("n" :> "b")
AX == Entry("n" :> "a" @@ "k" :> "x")
AY == Entry("n" :> "a" @@ "k" :> "y")
Every == Entry(<<>>)
Count == Own("count")
Up == Own("up")

Fixed(path, kind, label, type) ==
    [path |-> path, collection |-> FALSE, kind |-> kind, subject |-> <<"a">>, label |-> label, type |-> type]
Each(path, subject, kind, label, type) ==
    [path |-> path, collection |-> TRUE, kind |-> kind, subject |-> subject, label |-> label, type |-> type]
ByName == << <<"key", 1, "n">> >>

MCMappings ==
    << Each(<<Every, Count>>, ByName, "reading", "count", "int"),
       Each(<<Every, Up>>, ByName, "state", "up", "boolean"),
       Each(<<Every, Own("qty")>>, ByName, "reading", "count", "int"),          \* the same outputs
       Each(<<Entry("k" :> "x"), Count>>, ByName, "reading", "x", "int"),     \* the same leaves
       Each(<<Every, Up>>, << <<"literal", "a">> >>, "state", "up", "boolean"),
       Each(<<Every, Own("deep"), Own("leaf")>>, ByName, "state", "leaf", "string"),
       Fixed(<<A, Count>>, "reading", "a", "int"),
       Fixed(<<Own("top")>>, "reading", "count", "int"),                      \* may collide
       Fixed(<<A>>, "state", "whole", "string"),                              \* over the others
       Fixed(<<A, From("m", "count")>>, "reading", "m", "int") >>
Steady == {MCMappings[i] : i \in {2, 6, 8}}
MCMappingLists ==
    {SelectSeq(MCMappings, LAMBDA m : m \in chosen) :
        chosen \in {s \in SUBSET Range(MCMappings) : Steady \subseteq s}}
MCRequests == {<<Every>>, <<Own("top")>>}

Here == [origin |-> "", target |-> ""]
MCContext == [origin |-> "o", target |-> ""]
Elsewhere == [origin |-> "", target |-> "t"]

Update(path, value) == [context |-> Here, path |-> path, value |-> value]
Num(i) == <<"int", i>>
Json(value) == <<"json", value, FALSE>>
Native(value) == <<"native", value>>
Held(value) == <<>> :> [name |-> Empty, value |-> value]
Obj(members) ==
    [p \in {<<>>} \cup UNION {{<<i>> \o q : q \in DOMAIN members[i][2]} : i \in DOMAIN members} |->
        CASE p = <<>> -> [name |-> Empty, value |-> <<"object">>]
          [] Len(p) = 1 -> [name |-> members[p[1]][1], value |-> members[p[1]][2][<<>>].value]
          [] OTHER -> members[p[1]][2][Tail(p)]]
Plain(members) == <<"object", Obj(members), FALSE>>
Ietf(members) == <<"object", Obj(members), TRUE>>
M(name, value) == <<name.name, Held(value)>>
O(name, members) == <<name.name, Obj(members)>>

One == Update(<<A, Count>>, Native(Num(1)))
Worded == Update(<<A, Count>>, Native(<<"digits", 2>>))
Both == Update(<<A>>, Plain(<<M(Count, Num(4)), M(Up, <<"bool", 0>>)>>))
Twice == Update(<<A>>, Plain(<<M(Count, Num(6)), M(Count, Num(7))>>))
Qualified == Update(<<A>>, Ietf(<<M(From("m", "count"), Num(9)), M(Up, <<"bool", 1>>)>>))
AtX == Update(<<AX, Count>>, Native(Num(12)))
AtY == Update(<<AY, Count>>, Native(Num(13)))
Thrice == {One, Worded, Both, Twice, Qualified}

MCUpdates ==
    { One, Worded,
      Update(<<A, Count>>, Json(<<"digits", 3>>)), Update(<<A, Up>>, Native(<<"bool", 1>>)),
      Both,
      Update(<<A>>, Plain(<<M(Count, <<"text", 5>>)>>)),
      Twice,
      Update(<<A>>, Plain(<<O(Own("z"), <<M(Count, Num(6)), M(Count, Num(7))>>), M(Up, <<"bool", 1>>)>>)),
      Update(<<A>>, Plain(<<O(Own("deep"), <<M(Own("leaf"), <<"text", 8>>)>>), M(Count, <<"array">>)>>)),
      Update(<<A>>, Plain(<<O(Own("deep"), <<M(Own("leaf"), <<"text", 8>>), M(Own("leaf"), Num(8))>>),
                               M(Up, <<"bool", 1>>)>>)),
      Update(<<A>>, <<"malformed">>), Update(<<A>>, Json(<<"array">>)), Update(<<A, Up>>, None),
      Qualified,
      Update(<<>>, Plain(<<M(Own("top"), Num(10)), O(Every, <<M(Count, Num(11))>>)>>)),
      Update(<<>>, Plain(<<O(Every, <<O(Own("deep"), <<M(Own("leaf"), <<"text", 10>>)>>)>>)>>)),
      AtX, AtY,
      Update(<<B, Count>>, Native(Num(14))), Update(<<Own("top")>>, Native(Num(15))),
      Update(<<Every, Count>>, Native(Num(16))), Update(<<Entry("n" :> Long), Count>>, Native(Num(17))),
      Update(<<Entry("n" :> Empty), Count>>, Native(Num(18))), Update(<<Own("other")>>, Native(Num(19))),
      [Update(<<A, Count>>, Native(Num(20))) EXCEPT !.context = Elsewhere] }

Notify(updates, deletes) == [context |-> Here, prefix |-> <<>>, updates |-> updates, deletes |-> deletes]
Delete(path) == [context |-> Here, path |-> path]
Spread == <<One, Update(<<B, Count>>, Native(Num(2))),
            Update(<<Entry("n" :> "c"), Count>>, Native(Num(3)))>>
OfA == {u \in MCUpdates : u.path \in {<<A>>, <<A, Count>>}}
MCContents ==
    {Notify(<<u, v>>, <<>>) : u \in MCUpdates, v \in MCUpdates}
      \cup {Notify(<<u, v, w>>, <<>>) : u \in Thrice, v \in Thrice, w \in Thrice}
      \cup {Notify(<<u>>, <<Delete(p)>>) : u \in OfA, p \in {<<A>>, <<A, Count>>, <<Own("other")>>}}
      \cup {Notify(Spread, <<>>), Notify(<<One, AtX, AtY>>, <<>>),
            Notify(<<>>, <<Delete(<<Entry("n" :> Empty)>>), Delete(<<B, Up>>)>>),
            [Notify(<<Update(<<Count>>, Native(Num(1)))>>, <<Delete(<<>>)>>) EXCEPT !.prefix = <<A>>],
            [Notify(<<One>>, <<>>) EXCEPT !.context = Elsewhere],
            [Notify(<<One>>, <<>>) EXCEPT !.context.origin = "p"]}
=============================================================================
