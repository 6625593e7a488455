------------------------------ MODULE MCMatIrc ------------------------------
(* MatIrc with the constants of MCMatIrc.cfg.  Bounds of the model: at most  *)
(* three buffers at a time; with two servers, or two windows open, nobody    *)
(* changes nick; and two lines are under way at a time, so that they may     *)
(* cross, only with one server and one window.                               *)
EXTENDS MatIrc, FiniteSets

UnderWay == FoldFunction(LAMBDA l, n : n + Len(l.toS) + Len(l.toC), 0, link)

NoNewNick == \A s \in ServerIds : srv[s].nick = UserNick

Few == /\ Len(servers) + Cardinality(Open) <= 3
       /\ Len(servers) > 1 \/ Cardinality(Open) > 1 => NoNewNick
       /\ UnderWay > 1 => Len(servers) = 1 /\ Cardinality(Open) <= 1
=============================================================================
