------------------------------ MODULE MatPicExpr ------------------------------
(***************************************************************************)
(* The expressions of matpic (misc.c): what an argument is worth at a      *)
(* place of the program, where labels and scopes are those of MatPic.      *)
(***************************************************************************)
EXTENDS MatPic, Bitwise

CONSTANT Unset    \* what a local variable holds that nothing has set

ASSUME ExprAssumption == Unset \in Int
-----------------------------------------------------------------------------
(* misc.c: expressions.  A value that cannot be had is <<>>, n is <<n>>.    *)

\* Machine words: the operators on bits see two's complement.
Word == 2^16
Bits(n) == n % Word
Signed(n) == IF n >= Word \div 2 THEN n - Word ELSE n
Truth(b) == IF b THEN 1 ELSE 0
Abs(n) == IF n < 0 THEN -n ELSE n
Quotient(a, b) == IF (a < 0) = (b < 0) THEN Abs(a) \div Abs(b) ELSE -(Abs(a) \div Abs(b))

calc(op, a, b) ==
  CASE op \in {"/", "%"} /\ b = 0 -> <<>>
    [] op = "*" -> <<a * b>>
    [] op = "/" /\ b # 0 -> <<Quotient(a, b)>>
    [] op = "%" /\ b # 0 -> <<a - b * Quotient(a, b)>>
    [] op = "+" -> <<a + b>>
    [] op = "-" -> <<a - b>>
    [] op = "<<" -> <<Signed(Bits(a * 2^b))>>
    [] op = ">>" -> <<a \div 2^b>>
    [] op = "&" -> <<Signed(Bits(a) & Bits(b))>>
    [] op = "^" -> <<Signed(Bits(a) ^^ Bits(b))>>
    [] op = "|" -> <<Signed(Bits(a) | Bits(b))>>
    [] op = "<" -> <<Truth(a < b)>>
    [] op = ">" -> <<Truth(a > b)>>
    [] op = "<=" -> <<Truth(a <= b)>>
    [] op = ">=" -> <<Truth(a >= b)>>
    [] op = "==" -> <<Truth(a = b)>>
    [] op = "!=" -> <<Truth(a # b)>>
    [] op = "&&" -> <<Truth(a # 0 /\ b # 0)>>
    [] op = "||" -> <<Truth(a # 0 \/ b # 0)>>

\* The calls of _calc in numarg: the operators of each, strongest first.
Levels == <<{"*", "/", "%"}, {"+", "-"}, {"<<", ">>"}, {"&"}, {"^"}, {"|"},
            {"<", ">", "<=", ">="}, {"==", "!="}, {"&&"}, {"||"}>>
LevelOf(op) == CHOOSE l \in DOMAIN Levels : op \in Levels[l]

\* One call: j is where the operand on the left of operator i has its value.
\* Mutant: it stays where the last operator of this level found it.
_calcStays(lval, op, level) ==
  LET Step(c, i) ==
        IF c.lval = <<>> \/ LevelOf(op[i]) # level THEN c
        ELSE LET v == calc(op[i], c.lval[i], c.lval[i + 1])
             IN [c EXCEPT !.lval = IF v = <<>> THEN <<>> ELSE [@ EXCEPT ![i] = v[1]]]
  IN FoldLeft(Step, [lval |-> lval, j |-> 1], [i \in DOMAIN op |-> i]).lval

_calc(lval, op, level) ==
  LET Step(c, i) ==
        IF c.lval = <<>> \/ LevelOf(op[i]) < level THEN c
        ELSE IF LevelOf(op[i]) > level THEN [c EXCEPT !.j = i + 1]
        ELSE LET v == calc(op[i], c.lval[c.j], c.lval[i + 1])
             IN [c EXCEPT !.lval = IF v = <<>> THEN <<>> ELSE [@ EXCEPT ![c.j] = v[1]]]
  IN FoldLeft(Step, [lval |-> lval, j |-> 1], [i \in DOMAIN op |-> i]).lval

\* A string is added to val, which nothing has set, with its first byte lowest; a
\* char has a sign.  Bound: four bytes, as an int takes no shift by more.
Char(byte) == IF byte < 128 THEN byte ELSE byte - 256
StringValue(bytes) ==
  FoldLeft(LAMBDA n, i : n + Char(bytes[i]) * 256^(i - 1), Unset, [i \in DOMAIN bytes |-> i])

\* All values, or none if one cannot be had.
AllOf(vals) ==
  IF \E i \in DOMAIN vals : vals[i] = <<>> THEN [ok |-> FALSE, v |-> <<>>]
  ELSE [ok |-> TRUE, v |-> FoldLeft(LAMBDA s, x : Append(s, x[1]), <<>>, vals)]
Combined(all, op) ==
  LET Level(l, level) == IF l = <<>> THEN l ELSE _calc(l, op, level)
  IN IF ~all.ok THEN <<>> ELSE FoldLeft(Level, all.v, [l \in DOMAIN Levels |-> l])
Leftmost(lval) == IF lval = <<>> THEN lval ELSE <<lval[1]>>
Apply(op, x) ==
  IF x = <<>> THEN x
  ELSE CASE op = "!" -> <<Truth(x[1] = 0)>> [] op = "~" -> <<-x[1] - 1>> [] op = "-" -> <<-x[1]>>

RECURSIVE getval(_, _)
numarg(a, e) ==
  LET n == Len(e) \div 2
      vals == [i \in 1..n + 1 |-> getval(a, e[2 * i - 1])]
  IN Leftmost(Combined(AllOf(vals), [i \in 1..n |-> e[2 * i]]))

LabelValue(a, i) == IF i = 0 THEN <<>> ELSE <<a.labels[i].address>>
getval(a, v) ==
  CASE v[1] = "num" -> <<v[2]>>
    [] v[1] = "here" -> <<a.address>>
    [] v[1] = "str" -> <<StringValue(v[2])>>
    [] v[1] = "()" -> numarg(a, v[2])
    [] v[1] = "id" -> LabelValue(a, FindLabel(a, v[2]))
    [] v[1] \in {"!", "~", "-"} -> Apply(v[1], getval(a, v[2]))

ArgValue(a, arg) == numarg(a, IF arg[1] = "str" THEN <<arg>> ELSE arg[2])
getargs(a, args) == AllOf([i \in DOMAIN args |-> ArgValue(a, args[i])])
-----------------------------------------------------------------------------
\* redme.txt 23: the operators as in C, but &, ^ and | bind more tightly than
\* the comparisons; each from left to right.  Here by taking an expression
\* apart at its weakest operator.
RECURSIVE Meaning(_, _)
Meaning(a, e) ==
  LET ops == {i \in DOMAIN e : i % 2 = 0}
      weakest == CHOOSE i \in ops : \A j \in ops :
                   \/ LevelOf(e[j]) < LevelOf(e[i]) \/ (LevelOf(e[j]) = LevelOf(e[i]) /\ j <= i)
      l == Meaning(a, SubSeq(e, 1, weakest - 1))
      r == Meaning(a, SubSeq(e, weakest + 1, Len(e)))
  IN IF Len(e) = 1
     THEN IF e[1][1] = "()" THEN Meaning(a, e[1][2]) ELSE getval(a, e[1])
     ELSE IF l = <<>> \/ r = <<>> THEN <<>> ELSE calc(e[weakest], l[1], r[1])

\* The ten passes of _calc over the flat list of operands, with values left in
\* the cell of the operand a group starts with, are the precedence of redme.txt.
PrecedenceKept == Here2 => \A e \in Expressions : numarg(asm, e) = Meaning(asm, e)
=============================================================================
