--------------------------- MODULE MCNetmsgServer ---------------------------
(* NetmsgServer with the constants of the .cfg files MCNetmsgServer*.cfg *)
EXTENDS NetmsgServer

CONSTANTS ann, bob

Each(a, b) == [c \in Clients |-> IF c = ann THEN a ELSE b]
Asks(n) == [calls |-> Each(2, -1), junk |-> Each(n, 0), hangUp |-> {ann}, esc |-> "any"]

\* One client that asks twice, whose send buffer begins empty or with a length;
\* two clients that come and go; two clients when the server is ended.
MCPlans ==
  { Asks(0), Asks(1),
    [calls |-> Each(0, 0), junk |-> Each(1, 0), hangUp |-> {ann, bob}, esc |-> "no"],
    [calls |-> Each(0, 0), junk |-> Each(0, 0), hangUp |-> {}, esc |-> "idle"] }

\* The first of these alone.
WakePlans == {Asks(0)}
=============================================================================
