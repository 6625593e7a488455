---------------------------- MODULE MCNetmsgChat ----------------------------
(* NetmsgChat with the constants of MCNetmsgChat.cfg *)
EXTENDS NetmsgChat

\* The users' lines, which of them are short, and whether the talk may be ended.
Plan(s, c, ss, cs, q) == [lines |-> [server |-> s, client |-> c],
                          short |-> [server |-> ss, client |-> cs], quit |-> q]

\* Lines from both users, the same with a short one on each side, and a short talk
\* that either may end.
MCPlans ==
  {Plan(2, 2, {}, {}, FALSE), Plan(2, 3, {1}, {2}, FALSE), Plan(1, 0, {}, {}, TRUE)}
=============================================================================
