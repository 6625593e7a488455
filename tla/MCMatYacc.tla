------------------------------ MODULE MCMatYacc ------------------------------
(* MatYacc with the grammars of a textbook and all grammars of a small shape. *)
EXTENDS MatYacc

\* A rule of the text: the alternatives as words, "{}" an action.
Word(w) == [n \in DOMAIN w |-> IF w[n] = "{}" THEN <<w[n]>> ELSE <<"sym", w[n]>>]
Rule(lhs, alternatives) ==
  <<<<":", lhs>>>> \o FlattenSeq([n \in DOMAIN alternatives |->
                         (IF n = 1 THEN <<>> ELSE <<<<"|">>>>) \o Word(alternatives[n])])

Lists == Rule("S", <<<<"S", "A">>, <<"A">>>>) \o Rule("A", <<<<"a">>, <<"b">>>>)
Nested == Rule("S", <<<<"a", "S", "b">>, <<>>>>)
\* LALR(1) and not SLR(1).
Assignment ==
  Rule("S", <<<<"L", "eq", "R">>, <<"R">>>>)
    \o Rule("L", <<<<"star", "R">>, <<"id">>>>) \o Rule("R", <<<<"L">>>>)
\* LR(1) and not LALR(1): two reductions meet when states are merged.
NotLalr ==
  Rule("S", <<<<"a", "A", "a">>, <<"b", "B", "a">>, <<"a", "B", "b">>, <<"b", "A", "b">>>>)
    \o Rule("A", <<<<"c">>>>) \o Rule("B", <<<<"c">>>>)
\* Variables that can be empty, in a row and around a recursion.
Optional ==
  Rule("S", <<<<"A", "B", "C">>>>) \o Rule("A", <<<<"a">>, <<>>>>)
    \o Rule("B", <<<<"b">>, <<>>>>) \o Rule("C", <<<<"c">>, <<>>>>)
Component ==
  Rule("S", <<<<"A", "a">>>>) \o Rule("A", <<<<"b", "B">>, <<"c">>>>)
    \o Rule("B", <<<<"b", "A", "N">>, <<"A", "N">>>>) \o Rule("N", <<<<>>>>)
HiddenLeft == Rule("S", <<<<"N", "S", "b">>, <<"a">>>>) \o Rule("N", <<<<>>>>)
\* S : S, which no conflict tells of.
Circular == Rule("S", <<<<"S">>, <<"a">>>>)
Endless == Rule("S", <<<<"a", "S">>>>)
Twice == Rule("S", <<<<"a">>, <<"a", "b">>, <<"a">>>>)
IfElse == Rule("S", <<<<"if", "S">>, <<"if", "S", "else", "S">>, <<"x">>>>)
Expression ==
  <<<<"%nonassoc", "lt">>, <<"%left", "minus">>, <<"%right", "pow">>, <<"%left", "UNARY">>>>
    \o Rule("E", <<<<"E", "lt", "E">>, <<"E", "minus", "E">>, <<"E", "pow", "E">>>>)
    \o <<<<"|">>, <<"sym", "minus">>, <<"sym", "E">>, <<"%prec", "UNARY">>>>
    \o <<<<"|">>, <<"sym", "n">>>>
\* Actions between the symbols, two in a row, and one at the end.
Actions ==
  Rule("S", <<<<"{}", "a", "{}", "{}", "A", "{}">>, <<"b", "{}">>, <<"c", "{}", "A">>>>)
    \o Rule("A", <<<<"a", "{}", "b", "{}">>>>)
\* Statements that are skipped to their end after an error.
Statements ==
  <<<<"%start", "P">>, <<"%value", "end", 258>>, <<"%value", "x", 257>>, <<"%token", "y">>>>
    \o Rule("Q", <<<<"x">>, <<"x", "y">>, <<"error">>>>)
    \o Rule("P", <<<<>>, <<"P", "Q", "end">>>>)

Written ==
  {Lists, Nested, Assignment, NotLalr, Optional, Component, HiddenLeft, Circular, Endless,
   Twice, IfElse, Expression, Actions, Statements}

\* Two rules for S and one for A, of at most two symbols.
Symbols == {"S", "A", "a", "b"}
Words2 == SeqOf(Symbols, 2)
Shape == {Rule("S", <<u, v>>) \o Rule("A", <<w>>) :
            u \in {x \in Words2 : "A" \in Range(x)}, v \in {<<>>, <<"a">>, <<"b", "S">>, <<"A", "a">>},
            w \in Words2}

MCTexts == Written \union Shape
=============================================================================
