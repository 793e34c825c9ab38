--------------------------- MODULE MC_EndpointReads --------------------------
(* Two reads and a walk of an endpoint that runs one of two firmware       *)
(* versions and lists up to four members on up to two pages.               *)
EXTENDS EndpointReads, TLC

CONSTANTS a, b, c, x, y, z

P(members, link, count) == [members |-> members, link |-> link, count |-> count]

Plain == a :> x @@ b :> y @@ c :> z
Twins == [Plain EXCEPT ![c] = x]
Nameless == [Plain EXCEPT ![b] = Nobody]

L(pages, doc) == [pages |-> pages, doc |-> doc]
Whole == <<P(<<a, b>>, <<2>>, <<3>>), P(<<c>>, <<>>, <<3>>)>>

MCListings ==
    { L(Whole, Plain), L(Whole, Twins), L(Whole, Nameless),
      L(<<P(<<a, b>>, <<>>, <<3>>)>>, Plain),                             \* short of its count
      L(<<P(<<a, c>>, <<>>, <<>>)>>, Twins),                              \* without a count
      L(<<P(<<a, b>>, <<2>>, <<>>), P(<<b, c>>, <<>>, <<4>>)>>, Plain),   \* b listed twice
      L(<<P(<<a>>, <<0>>, <<>>)>>, Plain),                                \* a link to nowhere
      L(<<P(<<a>>, <<2>>, <<>>), P(<<b>>, <<1>>, <<>>)>>, Plain),         \* a link back
      L(<<P(<<a>>, <<2>>, <<>>), P(<<>>, <<>>, <<>>)>>, Plain),           \* an empty later page
      L(<<P(<<>>, <<>>, <<0>>)>>, Plain) }                                \* empty

Symmetry == Permutations(Readers \ {Walker}) \cup Permutations(Firmware)
=============================================================================
