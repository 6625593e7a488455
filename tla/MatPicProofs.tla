---------------------------- MODULE MatPicProofs ----------------------------
(***************************************************************************)
(* Theorems about module MatPic, for any programs, any instruction sets,   *)
(* any expressions, any length of a segment and of a line of the hex file. *)
(***************************************************************************)
EXTENDS MatPic, TLAPS, SequenceTheorems, WellFoundedInduction

-----------------------------------------------------------------------------
(* Sequences, minima and recursion.                                        *)

\* What a sequence of anything is.
LEMMA SeqIs ==
  ASSUME NEW S, NEW s \in Seq(S)
  PROVE  IsSeq(s)
BY SeqOfRange DEF IsSeq

LEMMA SeqShape ==
  ASSUME NEW s, IsSeq(s)
  PROVE  Len(s) \in Nat /\ DOMAIN s = 1..Len(s)
BY LenProperties DEF IsSeq

\* A sequence written as a function.
LEMMA Tabulated ==
  ASSUME NEW n \in Nat, NEW s, s = [i \in 1..n |-> s[i]]
  PROVE  IsSeq(s) /\ Len(s) = n /\ DOMAIN s = 1..n
<1>1. s \in [1..n -> Range(s)]
  BY DEF Range
<1>2. s \in Seq(Range(s))
  BY <1>1
<1> QED
  BY <1>2, LenProperties, Z3 DEF IsSeq

\* t is s and one more.
Adds(s, t, e) ==
  /\ IsSeq(t) /\ Len(s) \in Nat /\ Len(t) = Len(s) + 1
  /\ DOMAIN s = 1..Len(s) /\ DOMAIN t = 1..Len(s) + 1
  /\ \A i \in 1..Len(s) : t[i] = s[i]
  /\ t[Len(s) + 1] = e

\* What the operators on sequences make.
LEMMA Appended ==
  ASSUME NEW s, IsSeq(s), NEW e, NEW t, t = Append(s, e)
  PROVE  Adds(s, t, e)
<1> DEFINE S == Range(s) \cup {e}
<1>1. s \in Seq(S)
  BY SeqMonotonic DEF IsSeq
<1>2. e \in S
  OBVIOUS
<1> HIDE DEF S
<1>3. /\ t \in Seq(S) /\ Len(t) = Len(s) + 1
      /\ \A i \in 1..Len(s) : t[i] = s[i]
      /\ t[Len(s) + 1] = e
  BY <1>1, <1>2, AppendProperties
<1> QED
  BY <1>3, SeqIs, SeqShape DEF Adds

\* u is s and then t.
Joins(s, t, u) ==
  /\ IsSeq(u) /\ Len(s) \in Nat /\ Len(t) \in Nat /\ Len(u) = Len(s) + Len(t)
  /\ DOMAIN s = 1..Len(s) /\ DOMAIN t = 1..Len(t) /\ DOMAIN u = 1..Len(s) + Len(t)
  /\ \A i \in 1..Len(s) : u[i] = s[i]
  /\ \A i \in 1..Len(t) : u[Len(s) + i] = t[i]

LEMMA Joined ==
  ASSUME NEW s, IsSeq(s), NEW t, IsSeq(t), NEW u, u = s \o t
  PROVE  Joins(s, t, u)
<1> DEFINE S == Range(s) \cup Range(t)
<1>1. s \in Seq(S) /\ t \in Seq(S)
  BY SeqMonotonic DEF IsSeq
<1> HIDE DEF S
<1>2. /\ u \in Seq(S) /\ Len(u) = Len(s) + Len(t)
      /\ \A i \in 1..Len(s) + Len(t) : u[i] = IF i <= Len(s) THEN s[i] ELSE t[i - Len(s)]
  BY <1>1, ConcatProperties
<1>3. Len(s) \in Nat /\ Len(t) \in Nat
  BY SeqShape
<1>4. IsSeq(u) /\ DOMAIN u = 1..Len(s) + Len(t)
  BY <1>2, SeqIs, SeqShape
<1>5. \A i \in 1..Len(s) : u[i] = s[i]
  BY <1>2, <1>3
<1>6. ASSUME NEW i \in 1..Len(t)  PROVE u[Len(s) + i] = t[i]
  <2>1. Len(s) + i \in 1..Len(s) + Len(t) /\ ~(Len(s) + i <= Len(s)) /\ (Len(s) + i) - Len(s) = i
    BY <1>3
  <2> QED
    BY <2>1, <1>2
<1> QED
  BY <1>2, <1>4, <1>5, <1>6, SeqShape DEF Joins

LEMMA Replaced ==
  ASSUME NEW s, IsSeq(s), NEW i \in DOMAIN s, NEW e, NEW t, t = [s EXCEPT ![i] = e]
  PROVE  IsSeq(t) /\ Len(t) = Len(s) /\ DOMAIN t = DOMAIN s
<1>1. Len(s) \in Nat /\ DOMAIN s = 1..Len(s)
  BY SeqShape
<1>2. t = [j \in 1..Len(s) |-> t[j]]
  BY <1>1
<1> QED
  BY <1>1, <1>2, Tabulated

LEMMA One == ASSUME NEW e  PROVE IsSeq(<<e>>) /\ Len(<<e>>) = 1 /\ <<e>>[1] = e
<1>1. <<e>> \in Seq({e})
  OBVIOUS
<1> QED
  BY <1>1, SeqIs

LEMMA None == IsSeq(<<>>) /\ Len(<<>>) = 0
<1>1. <<>> \in Seq({})
  OBVIOUS
<1> QED
  BY <1>1, SeqIs

\* Only of a sequence, which Head takes apart by its domain.
LEMMA HeadIsFirst ==
  ASSUME NEW S, NEW s \in Seq(S), s # <<>>
  PROVE  Head(s) = s[1]
<1>1. Len(s) \in Nat \ {0}
  BY EmptySeq
<1>2. 1 \in 1..Len(s) /\ Len(s) \in 1..Len(s)
  BY <1>1
<1> QED
  BY <1>2, HeadTailOfSubSeq, SubSeqFull

\* Numbers have a least one, and a greatest one when they are bounded.
LEMMA Least ==
  ASSUME NEW T \in SUBSET Nat, T # {}
  PROVE  Min(T) \in T /\ \A y \in T : Min(T) <= y
<1> DEFINE Less == {ss \in Nat \X Nat : ss[1] < ss[2]}
<1>0. IsWellFoundedOn(Less, Nat)
  BY NatLessThanWellFounded DEF OpToRel
<1>1. \E x \in T : \A y \in T : ~(<<y, x>> \in Less)
  <2> HIDE DEF Less
  <2> QED
    BY <1>0, WFMin
<1>2. \E x \in T : \A y \in T : x <= y
  <2>1. \A x \in T : \A y \in T : <<y, x>> \in Less <=> y < x
    OBVIOUS
  <2> HIDE DEF Less
  <2>2. PICK x \in T : \A y \in T : ~(<<y, x>> \in Less)
    BY <1>1
  <2>3. \A y \in T : ~(y < x)
    BY <2>1, <2>2
  <2> QED
    BY <2>3
<1> QED
  BY <1>2 DEF Min

LEMMA Greatest ==
  ASSUME NEW n \in Nat, NEW T \in SUBSET (0..n), T # {}
  PROVE  Max(T) \in T /\ \A y \in T : Max(T) >= y
<1> DEFINE U == {n - x : x \in T}
<1>1. U \in SUBSET Nat /\ U # {}
  <2>1. \A x \in T : x \in 0..n /\ n - x \in Nat
    OBVIOUS
  <2>2. PICK x : x \in T
    OBVIOUS
  <2>3. n - x \in U
    BY <2>2
  <2> QED
    BY <2>1, <2>3
<1>2. PICK m \in U : \A y \in U : m <= y
  <2> HIDE DEF U
  <2> QED
    BY <1>1, Least
<1>3. n - m \in T /\ \A y \in T : n - m >= y
  <2>1. PICK x \in T : m = n - x
    BY <1>2
  <2>2. n - m = x
    BY <2>1
  <2>3. ASSUME NEW y \in T  PROVE x >= y
    <3>1. n - y \in U
      OBVIOUS
    <3> HIDE DEF U
    <3>2. m <= n - y
      BY <1>2, <3>1
    <3> QED
      BY <2>1, <3>2
  <2> QED
    BY <2>2, <2>3
<1> QED
  BY <1>3 DEF Max

\* Induction, as a fact about sets.
LEMMA Inductive ==
  ASSUME NEW T \in SUBSET Nat, NEW n \in Nat, 0 \in T,
         \A i \in T : i < n => i + 1 \in T
  PROVE  \A i \in 0..n : i \in T
<1> SUFFICES ASSUME NEW b \in 0..n, b \notin T  PROVE FALSE
  OBVIOUS
<1> DEFINE U == (0..n) \ T
<1>1. U \in SUBSET Nat /\ U # {}
  OBVIOUS
<1> DEFINE m == Min(U)
<1>2. m \in U /\ \A y \in U : m <= y
  BY <1>1, Least
<1> HIDE DEF m
<1>3. m \in 1..n /\ m \notin T
  BY <1>2
<1>4. m - 1 \in T
  BY <1>2, <1>3
<1> QED
  BY <1>3, <1>4

\* A function by recursion on 0..n: there is one, as there is at each m up to n.
StaysIn(V, n, F) == \A v \in V : \A i \in 1..n : F[<<v, i>>] \in V
\* A step that stays in V makes a sequence of values of V, from b on.
LEMMA Recursion ==
  ASSUME NEW V, NEW b \in V, NEW n \in Nat, NEW F, StaysIn(V, n, F)
  PROVE  \E f \in [0..n -> V] : f[0] = b /\ \A i \in 1..n : f[i] = F[<<f[i - 1], i>>]
<1> DEFINE Is(f, m) == f \in [0..m -> V] /\ f[0] = b /\ \A i \in 1..m : f[i] = F[<<f[i - 1], i>>]
           T == {m \in Nat : m <= n => \E f : Is(f, m)}
<1>1. 0 \in T
  <2>1. Is([i \in 0..0 |-> b], 0)
    OBVIOUS
  <2> QED
    BY <2>1
<1>2. ASSUME NEW m \in T, m < n  PROVE m + 1 \in T
  <2> DEFINE k == m + 1
  <2>0. m \in Nat /\ k \in 1..n
    BY <1>2
  <2>1. PICK f : Is(f, m)
    BY <1>2
  <2>2. f[m] \in V /\ F[<<f[m], k>>] \in V
    BY <2>0, <2>1 DEF StaysIn
  <2> DEFINE g == [i \in 0..k |-> IF i = k THEN F[<<f[m], k>>] ELSE f[i]]
  <2>3. g \in [0..k -> V]
    BY <2>0, <2>1, <2>2
  <2>4. g[0] = b
    BY <2>0, <2>1
  <2>5. ASSUME NEW i \in 1..k  PROVE g[i] = F[<<g[i - 1], i>>]
    <3>1. CASE i = k
      <4>1. g[i - 1] = f[m]
        BY <2>0, <3>1
      <4>2. g[i] = F[<<f[m], k>>]
        BY <2>0, <3>1
      <4> HIDE DEF g
      <4> QED
        BY <4>1, <4>2, <3>1
    <3>2. CASE i # k
      <4>1. i \in 1..m /\ i - 1 \in 0..m
        BY <2>0, <3>2
      <4>2. g[i] = f[i] /\ g[i - 1] = f[i - 1]
        BY <2>0, <4>1
      <4> QED
        BY <4>1, <4>2, <2>1
    <3> QED
      BY <3>1, <3>2
  <2>6. Is(g, k)
    BY <2>3, <2>4, <2>5
  <2> HIDE DEF Is
  <2> QED
    BY <2>0, <2>6
<1>3. n \in T
  <2> HIDE DEF T
  <2>1. T \in SUBSET Nat
    BY DEF T
  <2>2. \A i \in 0..n : i \in T
    BY <1>1, <1>2, <2>1, Inductive
  <2> QED
    BY <2>2
<1> QED
  BY <1>3

-----------------------------------------------------------------------------
(* Data directives.                                                        *)

\* Rounding up gives a multiple that is not smaller.
LEMMA RoundUpFacts ==
  ASSUME NEW n \in Nat, NEW size, size \in {1, 2, 4}
  PROVE  RoundUp(n, size) \in Nat /\ RoundUp(n, size) >= n /\ RoundUp(n, size) % size = 0
<1>1. CASE size = 1
  BY <1>1 DEF RoundUp
<1>2. CASE size = 2
  BY <1>2 DEF RoundUp
<1>3. CASE size = 4
  BY <1>3 DEF RoundUp
<1> QED
  BY <1>1, <1>2, <1>3

LEMMA RoundUpAlign ==
  ASSUME NEW n \in Nat
  PROVE  /\ RoundUp(n, Align) - n \in {0, 1}
         /\ RoundUp(n, Align) = (RoundUp(n, Align) \div Align) * Align
         /\ RoundUp(n, Align) \in Nat /\ RoundUp(n, Align) \div Align \in Nat
BY DEF RoundUp, Align

\* A filled buffer has the length it was asked for.
LEMMA Filled ==
  ASSUME NEW n \in Nat, NEW what
  PROVE  IsSeq(Fill(n, what)) /\ Len(Fill(n, what)) = n
<1>1. Fill(n, what) = [i \in 1..n |-> Fill(n, what)[i]]
  BY DEF Fill
<1> QED
  BY <1>1, Tabulated

\* The arguments of a data directive, of which the strings are strings of bytes.
IsArgs(args) ==
  /\ IsSeq(args)
  /\ \A j \in DOMAIN args : args[j][1] = "str" => args[j][2] \in Seq(Bytes)

Counted == {d \in [n : Nat, strs : Seq(Seq(Bytes)), marks : Seq({0, 1})] :
              d.n = 0 => \A i \in DOMAIN d.strs : d.strs[i] = <<>>}

\* A number counts one.
OneMore(c, d) == c.n = d.n + 1 /\ c.strs = d.strs

\* Counting an argument of data counts one thing more.
LEMMA CountArgType ==
  ASSUME NEW args, IsArgs(args), NEW size, size \in {1, 2, 4}, NEW k \in 1..Len(args),
         NEW d \in Counted, NEW c, c = CountArg(d, args[k], size)
  PROVE  /\ c \in Counted
         /\ args[k][1] # "str" => OneMore(c, d)
<1>0. k \in DOMAIN args
  BY SeqShape DEF IsArgs
<1>1. d \in [n : Nat, strs : Seq(Seq(Bytes)), marks : Seq({0, 1})]
  BY DEF Counted
<1>2. CASE args[k][1] = "str"
  <2> DEFINE str == args[k][2]
             n == RoundUp(Len(str), size)
             t == Append(d.strs, str)
  <2>1. str \in Seq(Bytes) /\ Len(str) \in Nat
    BY <1>0, <1>2 DEF IsArgs
  <2>2. n \in Nat /\ n >= Len(str)
    BY <2>1, RoundUpFacts
  <2>3. Fill(n, 0) \in Seq({0, 1})
    BY <2>2 DEF Fill
  <2>4. c = [n |-> d.n + n, strs |-> t, marks |-> d.marks \o Fill(n, 0)]
    BY <1>2 DEF CountArg
  <2> HIDE DEF n
  <2>5. c.n \in Nat /\ c.n = d.n + n /\ c.strs = t
    BY <2>2, <2>4, <1>1
  <2>6. t \in Seq(Seq(Bytes))
    BY <1>1, <2>1
  <2>7. d.marks \o Fill(n, 0) \in Seq({0, 1})
    <3>1. d.marks \in Seq({0, 1})
      BY <1>1
    <3> QED
      BY <3>1, <2>3, ConcatProperties
  <2>8. c \in [n : Nat, strs : Seq(Seq(Bytes)), marks : Seq({0, 1})]
    BY <2>4, <2>5, <2>6, <2>7
  <2>9. ASSUME c.n = 0, NEW i \in DOMAIN t  PROVE t[i] = <<>>
    <3>1. d.n = 0 /\ n = 0
      BY <2>9, <2>5, <2>2, <1>1
    <3>2. Len(str) = 0
      BY <3>1, <2>1, <2>2
    <3>3. str = <<>>
      BY <3>2, <2>1, EmptySeq
    <3>4. \A j \in DOMAIN d.strs : d.strs[j] = <<>>
      BY <3>1 DEF Counted
    <3>5. d.strs \in Seq(Seq(Bytes))
      BY <1>1
    <3>6. /\ DOMAIN t = 1..Len(d.strs) + 1 /\ Len(d.strs) \in Nat /\ DOMAIN d.strs = 1..Len(d.strs)
          /\ \A j \in 1..Len(d.strs) : t[j] = d.strs[j]
          /\ t[Len(d.strs) + 1] = str
      <4>1. IsSeq(d.strs)
        BY <3>5, SeqIs
      <4> HIDE DEF str
      <4> QED
        BY <4>1, Appended DEF Adds
    <3> HIDE DEF t, str
    <3>7. CASE i = Len(d.strs) + 1
      BY <3>7, <3>6, <3>3
    <3>8. CASE i \in 1..Len(d.strs)
      BY <3>8, <3>6, <3>4
    <3> QED
      BY <3>6, <3>7, <3>8
  <2> QED
    BY <2>5, <2>8, <2>9, <1>2 DEF Counted
<1>3. CASE args[k][1] # "str"
  <2> DEFINE m == d.marks \o Fill(size, 1)
  <2>1. Fill(size, 1) \in Seq({0, 1})
    BY DEF Fill
  <2>2. m \in Seq({0, 1})
    <3>1. d.marks \in Seq({0, 1})
      BY <1>1
    <3> QED
      BY <3>1, <2>1, ConcatProperties
  <2>3. c = [n |-> d.n + 1, strs |-> d.strs, marks |-> m]
    BY <1>1, <1>3 DEF CountArg
  <2> HIDE DEF m
  <2>4. c \in [n : Nat, strs : Seq(Seq(Bytes)), marks : Seq({0, 1})]
    BY <1>1, <2>2, <2>3
  <2>5. c.n = d.n + 1 /\ c.strs = d.strs /\ c.n # 0
    BY <1>1, <2>2, <2>3
  <2> QED
    BY <2>4, <2>5 DEF Counted, OneMore
<1> QED
  BY <1>2, <1>3

\* CountArgs is what the recursion says: the arguments one after the other.
LEMMA CountArgsFacts ==
  ASSUME NEW args, IsArgs(args), NEW size, size \in {1, 2, 4}, NEW c, c = CountArgs(args, size)
  PROVE  /\ c \in Counted
         /\ (\A j \in DOMAIN args : args[j][1] # "str") => c.n = Len(args) /\ c.strs = <<>>
<1> DEFINE n == Len(args)
           Def(d) == [k \in 0..n |-> IF k = 0 THEN NoArgs ELSE CountArg(d[k - 1], args[k], size)]
           d == CHOOSE d : d = Def(d)
           F == [x \in Counted \X (1..n) |-> CountArg(x[1], args[x[2]], size)]
<1>0. n \in Nat /\ DOMAIN args = 1..n
  BY SeqShape DEF IsArgs
<1>1. c = d[n]
  BY DEF CountArgs
<1>2. NoArgs \in Counted
  <2>1. NoArgs \in [n : Nat, strs : Seq(Seq(Bytes)), marks : Seq({0, 1})]
    BY DEF NoArgs
  <2>2. DOMAIN NoArgs.strs = {}
    BY DEF NoArgs
  <2> QED
    BY <2>1, <2>2 DEF Counted
<1>3. \A v \in Counted : \A i \in 1..n : F[<<v, i>>] = CountArg(v, args[i], size)
  OBVIOUS
<1>4. \A v \in Counted : \A i \in 1..n : CountArg(v, args[i], size) \in Counted
  BY CountArgType
<1>5. \A v \in Counted : \A i \in 1..n : F[<<v, i>>] \in Counted
  <2> HIDE DEF F
  <2> QED
    BY <1>3, <1>4
<1>6. \E f \in [0..n -> Counted] :
        f[0] = NoArgs /\ \A i \in 1..n : f[i] = F[<<f[i - 1], i>>]
  <2> HIDE DEF F, n, Def, d
  <2>1. StaysIn(Counted, n, F)
    BY <1>5 DEF StaysIn
  <2> QED
    BY <1>0, <1>2, <2>1, Recursion
<1>7. PICK f \in [0..n -> Counted] :
        f[0] = NoArgs /\ \A i \in 1..n : f[i] = F[<<f[i - 1], i>>]
  BY <1>6
<1>8. ASSUME NEW i \in 1..n  PROVE f[i] = CountArg(f[i - 1], args[i], size)
  <2>1. f[i - 1] \in Counted
    BY <1>0, <1>7
  <2> HIDE DEF F
  <2> QED
    BY <1>3, <1>7, <2>1
<1>9. f = Def(f)
  <2> HIDE DEF F, n
  <2> QED
    BY <1>0, <1>7, <1>8
<1>10. d = Def(d)
  <2> HIDE DEF Def
  <2> QED
    BY <1>9
<1>11. d[0] = NoArgs /\ \A i \in 1..n : d[i] = CountArg(d[i - 1], args[i], size)
  <2> HIDE DEF d
  <2> QED
    BY <1>0, <1>10
<1> HIDE DEF d, F, Def
<1> DEFINE Plain == \A j \in DOMAIN args : args[j][1] # "str"
           T == {k \in Nat : k <= n => d[k] \in Counted /\ (Plain => d[k].n = k /\ d[k].strs = <<>>)}
<1>12. 0 \in T
  BY <1>2, <1>11 DEF NoArgs
<1>13. ASSUME NEW k \in T, k < n  PROVE k + 1 \in T
  <2>1. k \in Nat /\ k + 1 \in 1..n /\ (k + 1) - 1 = k
    BY <1>0, <1>13
  <2>2. d[k] \in Counted /\ (Plain => d[k].n = k /\ d[k].strs = <<>>)
    BY <1>13
  <2>3. d[k + 1] = CountArg(d[k], args[k + 1], size)
    BY <1>11, <2>1
  <2> HIDE DEF n
  <2>4. d[k + 1] \in Counted /\ (args[k + 1][1] # "str" => d[k + 1].n = d[k].n + 1 /\ d[k + 1].strs = d[k].strs)
    <3>1. k + 1 \in 1..Len(args)
      BY <2>1 DEF n
    <3>2. d[k + 1] \in Counted /\ (args[k + 1][1] # "str" => OneMore(d[k + 1], d[k]))
      BY <3>1, <2>2, <2>3, CountArgType
    <3> QED
      BY <3>2 DEF OneMore
  <2>5. Plain => args[k + 1][1] # "str"
    BY <2>1, <1>0
  <2> QED
    BY <2>1, <2>2, <2>4, <2>5
<1>14. n \in T
  <2> HIDE DEF T, n
  <2>1. T \in SUBSET Nat
    BY DEF T
  <2>2. \A i \in 0..n : i \in T
    BY <1>0, <1>12, <1>13, <2>1, Inductive
  <2> QED
    BY <1>0, <2>2
<1> QED
  BY <1>0, <1>1, <1>14

-----------------------------------------------------------------------------
(* The assembler's globals, and what they may be.                          *)

Fields == {"arch", "address", "labels", "llbl", "ctx", "strargs", "inss", "ats", "lorg",
           "outbuf", "nul", "bufp", "arg", "a", "out"}
Shape(a) == DOMAIN a = Fields
Same(a, b, X) == \A x \in Fields \ X : b[x] = a[x]

Going(a) == a.out = ""
Stopped(a) == a.out \in {"error", "crash"}

IsLabel(l) ==
  /\ DOMAIN l = {"name", "local", "parent", "address", "equ"}
  /\ l.local \in Nat /\ l.parent \in Nat

\* An entry of inss, where there are so many labels.
OrgEntry(e) == e \in [type : {"org"}, address : Int, start : Nat, end : Nat]
LblEntry(e, labels) == e.type = "lbl" /\ e.lbl \in 1..labels
DataEntry(e) == e.type = "data" /\ IsArgs(e.args) /\ e.size \in {1, 2, 4}
InsEntry(e) == e.type = "ins" /\ e.arch \in DOMAIN Arch /\ e.row \in DOMAIN Arch[e.arch].ocs
IsEntry(e, labels) ==
  \/ OrgEntry(e) \/ LblEntry(e, labels) \/ DataEntry(e) \/ InsEntry(e)
  \/ e.type \in {"ctx", "ctx_end", "end"}

\* In the passes and in ihex_write; in the passes.
BufInv(a) ==
  /\ IsSeq(a.inss) /\ Len(a.inss) > 0 /\ a.inss[1].type = "org" /\ IsSeq(a.outbuf)
  /\ IsSeq(a.labels) /\ \A k \in DOMAIN a.inss : IsEntry(a.inss[k], Len(a.labels))
AsmInv(a) ==
  /\ BufInv(a)
  /\ a.address \in Int /\ a.llbl \in Nat /\ a.lorg \in Nat /\ a.bufp \in Nat
  /\ a.arg \in Nat \ {0} /\ a.a \in Nat /\ a.strargs \in Seq(Seq(Bytes))
  /\ IsSeq(a.ats) /\ Len(a.ats) = Len(a.inss)
  /\ \A i \in DOMAIN a.labels : IsLabel(a.labels[i])

\* An instruction has one word or two (ArchAssumption).
LEMMA WordLength ==
  ASSUME NEW e, InsEntry(e)
  PROVE  Len(Arch[e.arch].ocs[e.row].oc) \in {2, 4}
BY ArchAssumption DEF InsEntry

\* What the second pass does to the globals while it lays down an entry.
Buffer == {"outbuf", "strargs", "arg", "a"}
Extends(a, b) ==
  /\ Shape(b) /\ IsSeq(b.outbuf) /\ Len(b.outbuf) >= Len(a.outbuf)
  /\ \A i \in 1..a.bufp : i <= Len(a.outbuf) => b.outbuf[i] = a.outbuf[i]

\* Bytes put into the outbuf are there, and leave what is before bufp.
LEMMA PutFacts ==
  ASSUME NEW a, Shape(a), IsSeq(a.outbuf), a.bufp \in Nat, NEW at, at \in Nat,
         NEW bytes, IsSeq(bytes), NEW p, p = Put(a, at, bytes)
  PROVE  /\ Same(a, p, {"outbuf"}) /\ Extends(a, p)
         /\ Len(p.outbuf) >= a.bufp + at + Len(bytes)
<1> DEFINE i == a.bufp + at
           end == i + Len(bytes)
           Now(j) == IF j > i /\ j <= end THEN bytes[j - i]
                     ELSE IF j <= Len(a.outbuf) THEN a.outbuf[j] ELSE IF a.nul THEN 0 ELSE Raw
           n == Larger(Len(a.outbuf), end)
           out == [j \in 1..n |-> Now(j)]
<1>1. p = [a EXCEPT !.outbuf = out]
  BY DEF Put
<1>2. Len(bytes) \in Nat /\ Len(a.outbuf) \in Nat
  BY SeqShape
<1>3. n \in Nat /\ n >= Len(a.outbuf) /\ n >= end
  BY <1>2 DEF Larger
<1>4. \A j \in 1..a.bufp : j <= Len(a.outbuf) => out[j] = a.outbuf[j]
  BY <1>2, <1>3
<1>5. out = [j \in 1..n |-> out[j]]
  OBVIOUS
<1> HIDE DEF out, n, Now
<1>6. IsSeq(out) /\ Len(out) = n
  BY <1>3, <1>5, Tabulated
<1>7. Shape(p) /\ Same(a, p, {"outbuf"}) /\ p.outbuf = out
  BY <1>1 DEF Shape, Same, Fields
<1> QED
  BY <1>3, <1>4, <1>6, <1>7 DEF Extends

\* numarg and getstrarg of data: one argument on, its bytes are in the outbuf.
LEMMA DataArgFacts ==
  ASSUME NEW s, Shape(s), AsmInv(s), NEW arg, NEW size, size \in {1, 2, 4}, NEW unknown,
         NEW t, t = DataArg(s, arg, size, unknown), ~Stopped(t)
  PROVE  /\ Same(s, t, Buffer) /\ Extends(s, t) /\ t.arg = s.arg + 1 /\ t.a \in Nat
         /\ \/ s.strargs # <<>> /\ t.strargs = Tail(s.strargs)
               /\ t.a = RoundUp(s.a + Len(s.strargs[1]), size)
            \/ t.strargs = s.strargs /\ t.a = s.a + size
<1> DEFINE str == Head(s.strargs)
           v == Value(s, arg)
           bytes == [i \in 1..size |-> Byte(v[1], size - i)]
<1>0. s.a \in Nat /\ IsSeq(s.outbuf) /\ s.bufp \in Nat /\ s.strargs \in Seq(Seq(Bytes))
  BY DEF AsmInv, BufInv
<1>1. CASE Cell(s, s.a, unknown) = 0
  <2>1. s.strargs # <<>>
    <3>1. CASE s.strargs = <<>>
      <4>1. t = [s EXCEPT !.out = "crash"]
        BY <1>1, <3>1 DEF DataArg
      <4>2. t.out = "crash"
        BY <4>1 DEF Shape, Fields
      <4> QED
        BY <4>2 DEF Stopped
    <3> QED
      BY <3>1
  <2>2. str \in Seq(Bytes) /\ str = s.strargs[1]
    <3>1. Head(s.strargs) \in Seq(Bytes)
      BY <1>0, <2>1, HeadTailProperties
    <3> QED
      BY <1>0, <2>1, <3>1, HeadIsFirst
  <2>3. IsSeq(str) /\ Len(str) \in Nat
    BY <2>2, SeqIs, SeqShape
  <2> DEFINE p == Put(s, s.a, str)
             n == RoundUp(s.a + Len(str), size)
  <2>4. t = [p EXCEPT !.strargs = Tail(@), !.arg = @ + 1, !.a = RoundUp(@ + Len(str), size)]
    BY <1>1, <2>1 DEF DataArg
  <2>6. n \in Nat
    <3> HIDE DEF str
    <3>1. s.a + Len(str) \in Nat
      BY <1>0, <2>3
    <3> QED
      BY <3>1, RoundUpFacts
  <2>50. p = Put(s, s.a, str)
    OBVIOUS
  <2> HIDE DEF p, str
  <2>5. Same(s, p, {"outbuf"}) /\ Extends(s, p)
    BY <1>0, <2>3, <2>50, PutFacts
  <2>7. p.a = s.a /\ p.arg = s.arg /\ p.strargs = s.strargs
    BY <2>5 DEF Same, Fields
  <2> HIDE DEF n
  <2>8. t = [p EXCEPT !.strargs = Tail(s.strargs), !.arg = s.arg + 1, !.a = n]
    BY <2>4, <2>7, <2>5 DEF n, Shape, Fields, Extends
  <2>9. Same(s, t, Buffer)
    BY <2>5, <2>8 DEF Same, Fields, Buffer, Shape, Extends
  <2>10. Extends(s, t)
    BY <2>5, <2>8 DEF Fields, Shape, Extends
  <2>11. t.arg = s.arg + 1 /\ t.strargs = Tail(s.strargs) /\ t.a = n
    BY <2>5, <2>8 DEF Fields, Shape, Extends
  <2> QED
    BY <2>1, <2>2, <2>6, <2>9, <2>10, <2>11 DEF n
<1>2. CASE Cell(s, s.a, unknown) # 0
  <2>1. v # <<>>
    <3>1. CASE v = <<>>
      <4>1. t = [s EXCEPT !.out = "error"]
        BY <1>2, <3>1 DEF DataArg
      <4>2. t.out = "error"
        BY <4>1 DEF Shape, Fields
      <4> QED
        BY <4>2 DEF Stopped
    <3> QED
      BY <3>1
  <2> DEFINE p == Put(s, s.a, bytes)
  <2>2. t = [p EXCEPT !.arg = @ + 1, !.a = @ + size]
    BY <1>2, <2>1 DEF DataArg
  <2>3. bytes = [i \in 1..size |-> bytes[i]]
    OBVIOUS
  <2>50. p = Put(s, s.a, bytes)
    OBVIOUS
  <2> HIDE DEF bytes, p
  <2>4. IsSeq(bytes)
    BY <2>3, Tabulated
  <2>5. Same(s, p, {"outbuf"}) /\ Extends(s, p)
    BY <1>0, <2>4, <2>50, PutFacts
  <2>6. p.a = s.a /\ p.arg = s.arg /\ p.strargs = s.strargs
    BY <2>5 DEF Same, Fields
  <2>7. t = [p EXCEPT !.arg = s.arg + 1, !.a = s.a + size]
    BY <2>2, <2>6, <2>5 DEF Shape, Fields, Extends
  <2>8. Same(s, t, Buffer)
    BY <2>5, <2>7 DEF Same, Fields, Buffer, Shape, Extends
  <2>9. Extends(s, t)
    BY <2>5, <2>7 DEF Fields, Shape, Extends
  <2>10. t.arg = s.arg + 1 /\ t.strargs = s.strargs /\ t.a = s.a + size
    BY <2>5, <2>6, <2>7 DEF Fields, Shape, Extends
  <2>11. t.a \in Nat
    <3>1. s.a \in Nat /\ size \in Nat /\ t.a = s.a + size
      BY <1>0, <2>10
    <3> QED
      BY <3>1
  <2> QED
    BY <2>8, <2>9, <2>10, <2>11
<1> QED
  BY <1>1, <1>2

\* Swapping the words of data leaves what is before them, and starts anew.
LEMMA DataWordsFacts ==
  ASSUME NEW s, Shape(s), AsmInv(s), NEW t, t = DataWords(s)
  PROVE  /\ Same(s, t, Buffer) /\ Extends(s, t) /\ t.arg = 1 /\ t.a = 0 /\ t.strargs = s.strargs
         /\ s.bufp + RoundUp(s.a, Align) <= Len(t.outbuf)
<1> DEFINE n == RoundUp(s.a, Align)
           padded == Put(s, s.a, Fill(n - s.a, 0))
           Old(i) == Cell(padded, i, 0)
           mask == Arch[s.arch].mask
           words == [i \in 1..n |-> Mask(Old(Swap(i - 1)), mask[(Swap(i - 1) % 2) + 1])]
           p == Put(padded, 0, words)
<1>0. s.a \in Nat /\ IsSeq(s.outbuf) /\ s.bufp \in Nat
  BY DEF AsmInv, BufInv
<1>1. t = [p EXCEPT !.arg = 1, !.a = 0]
  BY DEF DataWords
<1>2. n \in Nat /\ n - s.a \in Nat
  BY <1>0, RoundUpAlign
<1>3. words = [i \in 1..n |-> words[i]]
  OBVIOUS
<1> HIDE DEF n, words, Old
<1>4. IsSeq(words) /\ Len(words) = n
  BY <1>2, <1>3, Tabulated
<1>5. IsSeq(Fill(n - s.a, 0))
  BY <1>2, Filled
<1>60. padded = Put(s, s.a, Fill(n - s.a, 0)) /\ p = Put(padded, 0, words)
  OBVIOUS
<1>6. Same(s, padded, {"outbuf"}) /\ Extends(s, padded)
  <2> HIDE DEF padded, p
  <2> QED
    BY <1>0, <1>5, <1>60, PutFacts
<1> HIDE DEF padded, p
<1>7. padded.bufp = s.bufp /\ IsSeq(padded.outbuf) /\ Shape(padded)
  BY <1>6 DEF Same, Fields, Extends
<1>8. /\ Same(padded, p, {"outbuf"}) /\ Extends(padded, p)
      /\ Len(p.outbuf) >= padded.bufp + 0 + Len(words)
  BY <1>0, <1>4, <1>7, <1>60, PutFacts
<1>9. Same(s, p, {"outbuf"})
  BY <1>6, <1>8 DEF Same
<1>10. Len(padded.outbuf) \in Nat /\ Len(s.outbuf) \in Nat /\ Len(p.outbuf) \in Nat
  BY <1>0, <1>7, <1>8, SeqShape DEF Extends
<1>11. Extends(s, p)
  BY <1>0, <1>6, <1>7, <1>8, <1>10 DEF Extends
<1>12. s.bufp + n <= Len(p.outbuf)
  BY <1>0, <1>2, <1>4, <1>7, <1>8, <1>10
<1>13. Same(s, t, Buffer) /\ Extends(s, t) /\ t.strargs = s.strargs /\ t.outbuf = p.outbuf
  BY <1>1, <1>9, <1>11 DEF Same, Fields, Buffer, Shape, Extends
<1>14. t.arg = 1 /\ t.a = 0
  BY <1>1, <1>11 DEF Fields, Shape, Extends
<1> QED
  BY <1>12, <1>13, <1>14 DEF n

-----------------------------------------------------------------------------
(* What a line does to the globals in the first pass.                      *)

\* One more entry, at the address so far.
NextIns(a, b, ins) ==
  /\ Adds(a.inss, b.inss, ins)
  /\ Adds(a.ats, b.ats, a.address)

NewLabel(a, b, lbl) ==
  LET parent == Max({0} \cup {i \in DOMAIN a.labels : a.labels[i].local < lbl[1]})
  IN /\ Shape(b) /\ Same(a, b, {"labels", "inss", "ats"})
     /\ NextIns(a, b, [type |-> "lbl", lbl |-> Len(a.labels) + 1])
     /\ b.labels = Append(a.labels, [name |-> lbl[2], local |-> lbl[1], parent |-> parent,
                                     address |-> a.address, equ |-> FALSE])
     /\ ~ \E i \in DOMAIN a.labels : /\ a.labels[i].name = lbl[2] /\ a.labels[i].parent = parent
                                     /\ a.labels[i].local = lbl[1]
NewArch(a, b) == Shape(b) /\ Same(a, b, {"arch"}) /\ b.arch \in DOMAIN Arch
NewOrg(a, b) ==
  /\ Shape(b) /\ Same(a, b, {"inss", "ats", "address"})
  /\ b.address \in Int /\ NextIns(a, b, OrgIns(b.address))
NewEqu(a, b) ==
  /\ Shape(b) /\ Same(a, b, {"labels"})
  /\ IsSeq(b.labels) /\ Len(b.labels) = Len(a.labels)
  /\ \A i \in DOMAIN a.labels :
       LET l == b.labels[i]
           k == a.labels[i]
       IN /\ IsLabel(l) /\ l.name = k.name /\ l.local = k.local /\ l.parent = k.parent
          /\ l.equ \/ l = k
NewCtx(a, b) ==
  /\ Shape(b) /\ Same(a, b, {"inss", "ats", "ctx"})
  /\ \E type \in {"ctx", "ctx_end"} : NextIns(a, b, [type |-> type])
NewData(a, b, size, args) ==
  LET d == CountArgs(args, size)
      data == [type |-> "data", args |-> args, size |-> size]
  IN /\ Shape(b) /\ Same(a, b, {"strargs", "outbuf", "nul", "inss", "ats", "address"})
     /\ IsSeq(b.outbuf) /\ b.strargs = a.strargs \o d.strs /\ args # <<>>
     /\ \/ d.n = 0 /\ b.inss = a.inss /\ b.ats = a.ats /\ b.address = a.address
        \/ d.n # 0 /\ NextIns(a, b, data) /\ b.address = a.address + Words(d.n, size)
NewIns(a, b) ==
  \E ins : /\ InsEntry(ins) /\ NextIns(a, b, ins)
           /\ Shape(b) /\ Same(a, b, {"outbuf", "nul", "inss", "ats", "address"})
           /\ IsSeq(b.outbuf)
           /\ b.address = a.address + Len(Arch[ins.arch].ocs[ins.row].oc) \div Align

\* addins adds one entry.
LEMMA AddInsFacts ==
  ASSUME NEW a, Shape(a), IsSeq(a.inss), IsSeq(a.ats), NEW ins, NEW b, b = AddIns(a, ins)
  PROVE  Shape(b) /\ Same(a, b, {"inss", "ats"}) /\ NextIns(a, b, ins)
<1>1. b = [a EXCEPT !.inss = Append(a.inss, ins), !.ats = Append(a.ats, a.address)]
  BY DEF AddIns, Shape, Fields
<1>2. /\ Shape(b) /\ Same(a, b, {"inss", "ats"})
      /\ b.inss = Append(a.inss, ins) /\ b.ats = Append(a.ats, a.address)
  BY <1>1 DEF Shape, Fields, Same
<1> QED
  BY <1>2, Appended DEF NextIns

\* A failure stops the pass.
LEMMA Failed ==
  ASSUME NEW a, Shape(a), NEW b, b = Fail(a)
  PROVE  Stopped(b)
<1>1. b.out = "error"
  BY DEF Fail, Shape, Fields
<1> QED
  BY <1>1 DEF Stopped

\* addlabel adds a label and its entry, or fails.
LEMMA AddLabelEffect ==
  ASSUME NEW a, Shape(a), AsmInv(a), NEW lbl, NEW b, b = addlabel(a, lbl), ~Stopped(b)
  PROVE  NewLabel(a, b, lbl)
<1> DEFINE parent == Max({0} \cup {i \in DOMAIN a.labels : a.labels[i].local < lbl[1]})
           label == [name |-> lbl[2], local |-> lbl[1], parent |-> parent,
                     address |-> a.address, equ |-> FALSE]
           Old == \E i \in DOMAIN a.labels : /\ a.labels[i].name = lbl[2]
                                             /\ a.labels[i].parent = parent
                                             /\ a.labels[i].local = lbl[1]
           c == [a EXCEPT !.labels = Append(a.labels, label)]
           ins == [type |-> "lbl", lbl |-> Len(a.labels) + 1]
<1>0. IsSeq(a.inss) /\ IsSeq(a.ats)
  BY DEF AsmInv, BufInv
<1>1. Shape(c) /\ Same(a, c, {"labels"}) /\ c.labels = Append(a.labels, label)
  <2> HIDE DEF label
  <2> QED
    BY DEF Shape, Fields, Same
<1>2. CASE Old
  <2>1. b = Fail(a)
    BY <1>2 DEF addlabel
  <2> QED
    BY <2>1, Failed
<1>3. CASE ~Old
  <2>1. b = AddIns(c, ins)
    BY <1>3 DEF addlabel
  <2> HIDE DEF c, ins, label, Old
  <2>2. c.inss = a.inss /\ c.ats = a.ats /\ c.address = a.address
    BY <1>1 DEF Same, Fields
  <2>3. Shape(b) /\ Same(c, b, {"inss", "ats"}) /\ NextIns(c, b, ins)
    BY <2>1, <2>2, <1>0, <1>1, AddInsFacts
  <2>4. Same(a, b, {"labels", "inss", "ats"}) /\ b.labels = Append(a.labels, label)
    BY <2>3, <1>1 DEF Same, Fields
  <2>5. NextIns(a, b, ins)
    BY <2>2, <2>3 DEF NextIns
  <2> QED
    BY <2>3, <2>4, <2>5, <1>3 DEF NewLabel, ins, label, Old
<1> QED
  BY <1>2, <1>3

\* org and equ: an entry, or the address of the last label.
LEMMA OneNumberEffect ==
  ASSUME NEW a, Shape(a), AsmInv(a), NEW op, op \in {"org", "equ"}, NEW g,
         NEW b, b = OneNumber(a, op, g), ~Stopped(b)
  PROVE  NewOrg(a, b) \/ NewEqu(a, b)
<1>0. IsSeq(a.inss) /\ IsSeq(a.ats) /\ IsSeq(a.labels)
  BY DEF AsmInv, BufInv
<1>1. ~(~g.ok \/ g.v \notin [1..1 -> Int] \/ (op = "equ" /\ a.labels = <<>>))
  <2>1. CASE ~g.ok \/ g.v \notin [1..1 -> Int] \/ (op = "equ" /\ a.labels = <<>>)
    <3>1. b = Fail(a)
      BY <2>1 DEF OneNumber
    <3> QED
      BY <3>1, Failed
  <2> QED
    BY <2>1
<1>2. g.v[1] \in Int
  BY <1>1
<1> DEFINE n == g.v[1]
<1>3. CASE op = "org"
  <2> DEFINE c == AddIns(a, OrgIns(n))
  <2>1. b = [c EXCEPT !.address = n]
    BY <1>1, <1>3 DEF OneNumber
  <2>2. c = AddIns(a, OrgIns(n))
    OBVIOUS
  <2> HIDE DEF c, n
  <2>3. Shape(c) /\ Same(a, c, {"inss", "ats"}) /\ NextIns(a, c, OrgIns(n))
    BY <1>0, <2>2, AddInsFacts
  <2>4. Shape(b) /\ Same(a, b, {"inss", "ats", "address"}) /\ b.address = n
    BY <2>1, <2>3 DEF Shape, Fields, Same
  <2>5. b.inss = c.inss /\ b.ats = c.ats
    BY <2>1, <2>3 DEF Shape, Fields
  <2>6. NextIns(a, b, OrgIns(n))
    BY <2>3, <2>5 DEF NextIns
  <2> QED
    BY <1>2, <2>4, <2>6 DEF NewOrg, n
<1>4. CASE op # "org"
  <2> DEFINE k == Len(a.labels)
             old == a.labels[k]
             new == [old EXCEPT !.address = n, !.equ = TRUE]
             ls == [a.labels EXCEPT ![k] = new]
  <2>1. a.labels # <<>> /\ IsSeq(a.labels) /\ \A i \in DOMAIN a.labels : IsLabel(a.labels[i])
    BY <1>0, <1>1, <1>4 DEF AsmInv
  <2>2. k \in DOMAIN a.labels /\ k \in Nat \ {0} /\ DOMAIN a.labels = 1..k
    BY <2>1, SeqShape, EmptySeq DEF IsSeq
  <2>3. b = [a EXCEPT !.labels[Len(a.labels)].address = n, !.labels[Len(a.labels)].equ = TRUE]
    BY <1>1, <1>4 DEF OneNumber
  <2>4. b = [a EXCEPT !.labels = ls]
    BY <2>2, <2>3 DEF Shape, Fields
  <2>5. IsLabel(old) /\ IsLabel(new) /\ new.name = old.name /\ new.local = old.local
        /\ new.parent = old.parent /\ new.equ
    BY <2>1, <2>2 DEF IsLabel
  <2>6. ls = [a.labels EXCEPT ![k] = new]
    OBVIOUS
  <2>7. \A i \in DOMAIN a.labels : ls[i] = IF i = k THEN new ELSE a.labels[i]
    BY <2>2
  <2> HIDE DEF ls, new, n
  <2>8. IsSeq(ls) /\ Len(ls) = Len(a.labels)
    BY <2>1, <2>2, <2>6, Replaced
  <2>9. Shape(b) /\ Same(a, b, {"labels"}) /\ b.labels = ls
    BY <2>4 DEF Shape, Fields, Same
  <2>10. ASSUME NEW i \in DOMAIN a.labels
         PROVE  /\ IsLabel(ls[i]) /\ ls[i].name = a.labels[i].name
                /\ ls[i].local = a.labels[i].local /\ ls[i].parent = a.labels[i].parent
                /\ ls[i].equ \/ ls[i] = a.labels[i]
    <3>1. CASE i = k
      <4>1. ls[i] = new /\ a.labels[i] = old
        BY <2>7, <3>1
      <4> QED
        BY <4>1, <2>5
    <3>2. CASE i # k
      <4>1. ls[i] = a.labels[i]
        BY <2>7, <3>2
      <4> QED
        BY <4>1, <2>1
    <3> QED
      BY <3>1, <3>2
  <2> QED
    BY <2>8, <2>9, <2>10 DEF NewEqu
<1> QED
  BY <1>3, <1>4

\* An instruction adds an entry for the first row that takes its arguments.
LEMMA InstructionEffect ==
  ASSUME NEW a, Shape(a), AsmInv(a), a.arch \in DOMAIN Arch, NEW op, NEW args,
         NEW b, b = Instruction(a, RowsNamed(a.arch, op), args), ~Stopped(b)
  PROVE  NewIns(a, b)
<1> DEFINE rows == RowsNamed(a.arch, op)
           len == Len(Arch[a.arch].ocs[Min(rows)].oc)
           ins == [type |-> "ins", row |-> Min(rows), args |-> args, arch |-> a.arch]
           c == AddIns(a, ins)
           out == a.outbuf \o Fill(len, Raw)
<1>0. IsSeq(a.inss) /\ IsSeq(a.ats) /\ IsSeq(a.outbuf)
  BY DEF AsmInv, BufInv
<1>1. rows # {}
  <2>1. CASE rows = {}
    <3>1. b = Fail(a)
      BY <2>1 DEF Instruction
    <3> QED
      BY <3>1, Failed
  <2> QED
    BY <2>1
<1>2. rows \subseteq DOMAIN Arch[a.arch].ocs
  BY DEF RowsNamed
<1>3. DOMAIN Arch[a.arch].ocs \subseteq Nat
  <2>1. IsSeq(Arch[a.arch].ocs)
    BY ArchAssumption
  <2> QED
    BY <2>1, SeqShape
<1>4. Min(rows) \in DOMAIN Arch[a.arch].ocs
  <2> HIDE DEF rows
  <2>1. rows \in SUBSET Nat
    BY <1>2, <1>3
  <2> QED
    BY <2>1, <1>1, <1>2, Least
<1>5. InsEntry(ins) /\ Arch[ins.arch].ocs[ins.row].oc = Arch[a.arch].ocs[Min(rows)].oc
  BY <1>4 DEF InsEntry
<1>6. len \in {2, 4}
  BY <1>5, WordLength
<1>7. b = [c EXCEPT !.outbuf = @ \o Fill(len, Raw), !.nul = FALSE,
                    !.address = @ + len \div Align]
  BY <1>1 DEF Instruction
<1>8. c = AddIns(a, ins)
  OBVIOUS
<1> HIDE DEF c, ins, len, rows
<1>9. Shape(c) /\ Same(a, c, {"inss", "ats"}) /\ NextIns(a, c, ins)
  BY <1>0, <1>8, AddInsFacts
<1>10. c.outbuf = a.outbuf /\ c.address = a.address
  BY <1>9 DEF Same, Fields
<1>11. IsSeq(out)
  <2>1. len \in Nat
    BY <1>6
  <2>2. IsSeq(Fill(len, Raw))
    BY <2>1, Filled
  <2>3. out = a.outbuf \o Fill(len, Raw)
    OBVIOUS
  <2> HIDE DEF out
  <2> QED
    BY <1>0, <2>2, <2>3, Joined DEF Joins
<1>12. b = [c EXCEPT !.outbuf = out, !.nul = FALSE, !.address = a.address + len \div Align]
  BY <1>7, <1>9, <1>10 DEF Shape, Fields
<1> HIDE DEF out
<1>13. /\ Shape(b) /\ Same(a, b, {"outbuf", "nul", "inss", "ats", "address"})
       /\ b.inss = c.inss /\ b.ats = c.ats /\ b.outbuf = out
       /\ b.address = a.address + len \div Align
  BY <1>9, <1>12 DEF Shape, Fields, Same
<1>14. NextIns(a, b, ins)
  BY <1>9, <1>13 DEF NextIns
<1>15. len = Len(Arch[ins.arch].ocs[ins.row].oc)
  BY <1>5 DEF len
<1> QED
  BY <1>5, <1>11, <1>13, <1>14, <1>15 DEF NewIns

\* adddata adds an entry and its marks, unless there are no arguments.
LEMMA DataEffect ==
  ASSUME NEW a, Shape(a), AsmInv(a), NEW size, size \in {1, 2, 4}, NEW args, IsArgs(args),
         NEW b, b = adddata(a, size, args)
  PROVE  b = a \/ NewData(a, b, size, args)
<1> DEFINE d == CountArgs(args, size)
           data == [type |-> "data", args |-> args, size |-> size]
           out == a.outbuf \o d.marks
           strs == a.strargs \o d.strs
           c == [a EXCEPT !.strargs = strs, !.outbuf = out, !.nul = TRUE]
<1>0. IsSeq(a.inss) /\ IsSeq(a.ats) /\ IsSeq(a.outbuf)
  BY DEF AsmInv, BufInv
<1>1. d \in Counted
  BY CountArgsFacts
<1>2. CASE args = <<>>
  BY <1>2 DEF adddata
<1>3. CASE args # <<>>
  <2>1. b = IF d.n = 0 THEN c ELSE [AddIns(c, data) EXCEPT !.address = @ + Words(d.n, size)]
    <3>1. c = [a EXCEPT !.strargs = @ \o d.strs, !.outbuf = @ \o d.marks, !.nul = TRUE]
      BY DEF Shape, Fields
    <3> HIDE DEF c, d
    <3> QED
      BY <1>3, <3>1 DEF adddata, d
  <2>2. IsSeq(out)
    <3>1. IsSeq(d.marks)
      <4>1. d.marks \in Seq({0, 1})
        BY <1>1 DEF Counted
      <4> QED
        BY <4>1, SeqIs
    <3> HIDE DEF d
    <3>2. out = a.outbuf \o d.marks
      OBVIOUS
    <3> HIDE DEF out
    <3> QED
      BY <1>0, <3>1, <3>2, Joined DEF Joins
  <2> HIDE DEF d, out, strs
  <2>3. /\ Shape(c) /\ Same(a, c, {"strargs", "outbuf", "nul"})
        /\ c.strargs = strs /\ c.outbuf = out
        /\ c.inss = a.inss /\ c.ats = a.ats /\ c.address = a.address
    BY DEF Shape, Fields, Same
  <2> HIDE DEF c
  <2>4. CASE d.n = 0
    <3>1. b = c
      BY <2>1, <2>4
    <3>2. Same(a, b, {"strargs", "outbuf", "nul", "inss", "ats", "address"})
      BY <2>3, <3>1 DEF Same
    <3> QED
      BY <2>2, <2>3, <2>4, <3>1, <3>2, <1>3 DEF NewData, d, strs
  <2>5. CASE d.n # 0
    <3> DEFINE e == AddIns(c, data)
    <3>1. b = [e EXCEPT !.address = @ + Words(d.n, size)] /\ e = AddIns(c, data)
      BY <2>1, <2>5
    <3> HIDE DEF e, data
    <3>2. Shape(e) /\ Same(c, e, {"inss", "ats"}) /\ NextIns(c, e, data)
      BY <1>0, <2>3, <3>1, AddInsFacts
    <3>3. e.address = c.address
      BY <3>2 DEF Same, Fields
    <3>4. b = [e EXCEPT !.address = a.address + Words(d.n, size)]
      BY <3>1, <3>2, <3>3, <2>3 DEF Shape, Fields
    <3>5. /\ Shape(b) /\ Same(e, b, {"address"}) /\ b.address = a.address + Words(d.n, size)
      BY <3>2, <3>4 DEF Shape, Fields, Same
    <3>6. Same(a, b, {"strargs", "outbuf", "nul", "inss", "ats", "address"})
      BY <2>3, <3>2, <3>5 DEF Same
    <3>7. b.inss = e.inss /\ b.ats = e.ats /\ b.outbuf = out /\ b.strargs = strs
      BY <2>3, <3>2, <3>5 DEF Same, Fields
    <3>8. NextIns(a, b, data)
      BY <2>3, <3>2, <3>7 DEF NextIns
    <3> QED
      BY <2>2, <2>5, <3>5, <3>6, <3>7, <3>8, <1>3 DEF NewData, d, strs, data
  <2> QED
    BY <2>4, <2>5
<1> QED
  BY <1>2, <1>3

\* All that a line's operation does.
LEMMA InsfindEffect ==
  ASSUME NEW a, Shape(a), AsmInv(a), a.arch \in DOMAIN Arch, NEW op, NEW args,
         op \in DOMAIN Sizes => IsArgs(args),
         NEW b, b = insfind(a, op, args), ~Stopped(b)
  PROVE  \/ b = a \/ NewArch(a, b) \/ NewOrg(a, b) \/ NewEqu(a, b) \/ NewCtx(a, b) \/ NewIns(a, b)
         \/ op \in DOMAIN Sizes /\ NewData(a, b, Sizes[op], args)
<1>0. IsSeq(a.inss) /\ IsSeq(a.ats)
  BY DEF AsmInv, BufInv
<1>9. DOMAIN Sizes = {"db", "dw", "dd", "data"}
  BY DEF Sizes
<1>1. CASE op = "arch"
  <2>1. b = IF args[1] \in DOMAIN Arch THEN [a EXCEPT !.arch = args[1]] ELSE Fail(a)
    BY <1>1, <1>9 DEF insfind
  <2>2. CASE args[1] \in DOMAIN Arch
    <3>1. b = [a EXCEPT !.arch = args[1]]
      BY <2>1, <2>2
    <3>2. Shape(b) /\ Same(a, b, {"arch"}) /\ b.arch = args[1]
      BY <3>1 DEF Shape, Fields, Same
    <3> QED
      BY <2>2, <3>2 DEF NewArch
  <2>3. CASE args[1] \notin DOMAIN Arch
    BY <2>1, <2>3, Failed
  <2> QED
    BY <2>2, <2>3
<1>2. CASE op \in {"org", "equ"}
  <2>1. b = OneNumber(a, op, Values(a, args))
    BY <1>2, <1>9 DEF insfind
  <2> QED
    BY <1>2, <2>1, OneNumberEffect
<1>3. CASE op \in {"file", "expands"}
  <2> DEFINE ins == [type |-> "ctx"]
             c == AddIns(a, ins)
  <2>1. b = [c EXCEPT !.ctx = @ + 1] /\ c = AddIns(a, ins)
    BY <1>3, <1>9 DEF insfind
  <2> HIDE DEF c, ins
  <2>2. Shape(c) /\ Same(a, c, {"inss", "ats"}) /\ NextIns(a, c, ins)
    BY <1>0, <2>1, AddInsFacts
  <2>3. Shape(b) /\ Same(c, b, {"ctx"})
    BY <2>1, <2>2 DEF Shape, Fields, Same
  <2>4. Same(a, b, {"inss", "ats", "ctx"}) /\ b.inss = c.inss /\ b.ats = c.ats
    BY <2>2, <2>3 DEF Fields, Same
  <2>5. NextIns(a, b, ins)
    BY <2>2, <2>4 DEF NextIns
  <2> QED
    BY <2>3, <2>4, <2>5 DEF NewCtx, ins
<1>4. CASE op \in {"endfile", "endexp"}
  <2>1. b = IF a.ctx = 1 THEN Fail(a) ELSE [AddIns(a, [type |-> "ctx_end"]) EXCEPT !.ctx = @ - 1]
    BY <1>4, <1>9 DEF insfind
  <2>2. CASE a.ctx = 1
    BY <2>1, <2>2, Failed
  <2>3. CASE a.ctx # 1
    <3> DEFINE ins == [type |-> "ctx_end"]
               c == AddIns(a, ins)
    <3>1. b = [c EXCEPT !.ctx = @ - 1] /\ c = AddIns(a, ins)
      BY <2>1, <2>3
    <3> HIDE DEF c, ins
    <3>2. Shape(c) /\ Same(a, c, {"inss", "ats"}) /\ NextIns(a, c, ins)
      BY <1>0, <3>1, AddInsFacts
    <3>3. Shape(b) /\ Same(c, b, {"ctx"})
      BY <3>1, <3>2 DEF Shape, Fields, Same
    <3>4. Same(a, b, {"inss", "ats", "ctx"}) /\ b.inss = c.inss /\ b.ats = c.ats
      BY <3>2, <3>3 DEF Fields, Same
    <3>5. NextIns(a, b, ins)
      BY <3>2, <3>4 DEF NextIns
    <3> QED
      BY <3>3, <3>4, <3>5 DEF NewCtx, ins
  <2> QED
    BY <2>2, <2>3
<1>5. CASE op \in DOMAIN Sizes
  <2>1. op \in {"db", "dw", "dd", "data"} /\ Sizes[op] \in {1, 2, 4}
    BY <1>5 DEF Sizes, Align
  <2>2. b = adddata(a, Sizes[op], args)
    BY <1>5, <2>1 DEF insfind
  <2> QED
    BY <1>5, <2>1, <2>2, DataEffect
<1>6. CASE op = ""
  <2>1. b = a
    BY <1>6 DEF insfind, Sizes
  <2> QED
    BY <2>1
<1>7. CASE /\ op \notin {"arch", "org", "equ", "file", "expands", "endfile", "endexp", ""}
           /\ op \notin DOMAIN Sizes
  <2>1. b = Instruction(a, RowsNamed(a.arch, op), args)
    BY <1>7 DEF insfind
  <2> QED
    BY <2>1, InstructionEffect
<1> QED
  BY <1>1, <1>2, <1>3, <1>4, <1>5, <1>6, <1>7

-----------------------------------------------------------------------------
(* The first pass keeps the globals in order.                              *)

OneEnd(a) == \A k \in DOMAIN a.inss : a.inss[k].type # "end"
Start(a) == a.lorg = 0 /\ a.bufp = 0 /\ a.arg = 1 /\ a.a = 0 /\ a.llbl = 0
FirstInv(a) ==
  Shape(a) /\ AsmInv(a) /\ a.arch \in DOMAIN Arch /\ OneEnd(a) /\ Start(a) /\ Going(a)

\* An entry stays one when there are more labels.
LEMMA EntryStays ==
  ASSUME NEW m, m \in Nat, NEW n, n \in Nat, m <= n, NEW e, IsEntry(e, m)
  PROVE  IsEntry(e, n)
BY DEF IsEntry, LblEntry

\* The entries after one more, which is an entry.
LEMMA EntriesStay ==
  ASSUME NEW m, m \in Nat, NEW n, n \in Nat, m <= n, NEW s, NEW t, NEW e, Adds(s, t, e),
         Len(s) > 0, s[1].type = "org", \A k \in DOMAIN s : IsEntry(s[k], m) /\ s[k].type # "end",
         IsEntry(e, n), e.type # "end"
  PROVE  /\ IsSeq(t) /\ Len(t) > 0 /\ t[1].type = "org"
         /\ \A k \in DOMAIN t : IsEntry(t[k], n) /\ t[k].type # "end"
<1>1. /\ IsSeq(t) /\ Len(s) \in Nat /\ Len(t) = Len(s) + 1 /\ DOMAIN t = 1..Len(s) + 1
      /\ DOMAIN s = 1..Len(s) /\ \A i \in 1..Len(s) : t[i] = s[i]
      /\ t[Len(s) + 1] = e
  BY DEF Adds
<1>2. Len(t) > 0 /\ t[1].type = "org"
  <2>1. 1 \in 1..Len(s)
    BY <1>1
  <2> QED
    BY <1>1, <2>1
<1>3. ASSUME NEW k \in DOMAIN t  PROVE IsEntry(t[k], n) /\ t[k].type # "end"
  <2>1. CASE k = Len(s) + 1
    BY <2>1, <1>1
  <2>2. CASE k \in 1..Len(s)
    BY <2>2, <1>1, EntryStays
  <2> QED
    BY <1>1, <2>1, <2>2
<1> QED
  BY <1>1, <1>2, <1>3

Changed == {"arch", "labels", "strargs", "outbuf", "nul", "inss", "ats", "address", "ctx"}
MoreOrSame(a, b) ==
  \/ b.inss = a.inss /\ b.ats = a.ats
  \/ \E e : NextIns(a, b, e) /\ IsEntry(e, Len(b.labels)) /\ e.type # "end"

\* What keeps the globals in order in the first pass.
LEMMA FirstKept ==
  ASSUME NEW a, FirstInv(a), NEW b, Shape(b), Same(a, b, Changed),
         b.arch \in DOMAIN Arch, b.address \in Int, b.strargs \in Seq(Seq(Bytes)),
         IsSeq(b.outbuf), IsSeq(b.labels), Len(a.labels) <= Len(b.labels),
         \A i \in DOMAIN b.labels : IsLabel(b.labels[i]), MoreOrSame(a, b)
  PROVE  FirstInv(b)
<1>1. /\ Start(b) /\ Going(b) /\ b.llbl \in Nat /\ b.lorg \in Nat /\ b.bufp \in Nat
      /\ b.arg \in Nat \ {0} /\ b.a \in Nat
  <2>1. Start(b) /\ Going(b)
    BY DEF Same, Fields, Changed, FirstInv, Start, Going
  <2> QED
    BY <2>1 DEF Start
<1>2. /\ IsSeq(a.inss) /\ Len(a.inss) > 0 /\ a.inss[1].type = "org"
      /\ \A k \in DOMAIN a.inss : IsEntry(a.inss[k], Len(a.labels)) /\ a.inss[k].type # "end"
      /\ IsSeq(a.ats) /\ Len(a.ats) = Len(a.inss) /\ IsSeq(a.labels)
  BY DEF FirstInv, AsmInv, BufInv, OneEnd
<1>3. Len(a.labels) \in Nat /\ Len(b.labels) \in Nat
  BY <1>2, SeqShape
<1>4. /\ IsSeq(b.inss) /\ Len(b.inss) > 0 /\ b.inss[1].type = "org"
      /\ \A k \in DOMAIN b.inss : IsEntry(b.inss[k], Len(b.labels)) /\ b.inss[k].type # "end"
      /\ IsSeq(b.ats) /\ Len(b.ats) = Len(b.inss)
  <2>1. CASE b.inss = a.inss /\ b.ats = a.ats
    BY <2>1, <1>2, <1>3, EntryStays
  <2>2. CASE \E e : NextIns(a, b, e) /\ IsEntry(e, Len(b.labels)) /\ e.type # "end"
    <3>1. PICK e : NextIns(a, b, e) /\ IsEntry(e, Len(b.labels)) /\ e.type # "end"
      BY <2>2
    <3>2. Adds(a.inss, b.inss, e) /\ Adds(a.ats, b.ats, a.address)
      BY <3>1 DEF NextIns
    <3>3. /\ IsSeq(b.inss) /\ Len(b.inss) > 0 /\ b.inss[1].type = "org"
          /\ \A k \in DOMAIN b.inss : IsEntry(b.inss[k], Len(b.labels)) /\ b.inss[k].type # "end"
      BY <1>2, <1>3, <3>1, <3>2, EntriesStay
    <3>4. IsSeq(b.ats) /\ Len(b.ats) = Len(b.inss)
      BY <1>2, <3>2 DEF Adds
    <3> QED
      BY <3>3, <3>4
  <2> QED
    BY <2>1, <2>2 DEF MoreOrSame
<1> QED
  BY <1>1, <1>4 DEF FirstInv, AsmInv, BufInv, OneEnd

\* A label keeps them in order.
LEMMA FirstLabel ==
  ASSUME NEW a, FirstInv(a), NEW lbl, lbl[1] \in Nat, NEW b, NewLabel(a, b, lbl)
  PROVE  FirstInv(b)
<1> DEFINE parent == Max({0} \cup {i \in DOMAIN a.labels : a.labels[i].local < lbl[1]})
           label == [name |-> lbl[2], local |-> lbl[1], parent |-> parent,
                     address |-> a.address, equ |-> FALSE]
           ins == [type |-> "lbl", lbl |-> Len(a.labels) + 1]
<1>1. /\ Shape(b) /\ Same(a, b, {"labels", "inss", "ats"}) /\ NextIns(a, b, ins)
      /\ b.labels = Append(a.labels, label)
  BY DEF NewLabel
<1>2. /\ IsSeq(a.labels) /\ IsSeq(a.outbuf) /\ a.address \in Int /\ a.strargs \in Seq(Seq(Bytes))
      /\ \A i \in DOMAIN a.labels : IsLabel(a.labels[i])
      /\ a.arch \in DOMAIN Arch
  BY DEF FirstInv, AsmInv, BufInv
<1>3. Adds(a.labels, b.labels, label)
  <2> HIDE DEF label
  <2> QED
    BY <1>1, <1>2, Appended
<1>4. parent \in Nat
  <2> DEFINE S == {0} \cup {i \in DOMAIN a.labels : a.labels[i].local < lbl[1]}
  <2>1. S \in SUBSET (0..Len(a.labels)) /\ S # {} /\ Len(a.labels) \in Nat
    BY <1>2, SeqShape
  <2> HIDE DEF S
  <2>2. Max(S) \in S
    BY <2>1, Greatest
  <2> QED
    BY <2>1, <2>2 DEF S
<1>5. IsLabel(label)
  BY <1>4 DEF IsLabel
<1>6. Len(a.labels) <= Len(b.labels) /\ Len(a.labels) + 1 \in 1..Len(b.labels)
  BY <1>3 DEF Adds
<1>7. \A i \in DOMAIN b.labels : IsLabel(b.labels[i])
  <2> HIDE DEF label
  <2> QED
    BY <1>2, <1>3, <1>5 DEF Adds
<1>8. Same(a, b, Changed) /\ b.arch = a.arch /\ b.address = a.address
      /\ b.strargs = a.strargs /\ b.outbuf = a.outbuf
  BY <1>1 DEF Same, Changed, Fields
<1>9. MoreOrSame(a, b)
  BY <1>1, <1>6 DEF MoreOrSame, IsEntry, LblEntry
<1>10. IsSeq(b.labels)
  BY <1>3 DEF Adds
<1> QED
  BY <1>1, <1>2, <1>6, <1>7, <1>8, <1>9, <1>10, FirstKept

\* A count of words is a number.
LEMMA WordsFacts ==
  ASSUME NEW n, n \in Nat, NEW size, size \in {1, 2, 4}
  PROVE  Words(n, size) \in Int
<1>1. n * size \in Nat
  OBVIOUS
<1> QED
  BY <1>1, RoundUpAlign DEF Words

\* The strings that a data directive gives.
LEMMA DataStrings ==
  ASSUME NEW a, FirstInv(a), NEW size, size \in {1, 2, 4}, NEW args, IsArgs(args), NEW b, NewData(a, b, size, args)
  PROVE  b.strargs \in Seq(Seq(Bytes)) /\ CountArgs(args, size) \in Counted
<1> DEFINE d == CountArgs(args, size)
<1>1. d \in Counted
  BY CountArgsFacts
<1>2. d.strs \in Seq(Seq(Bytes)) /\ a.strargs \in Seq(Seq(Bytes))
  BY <1>1 DEF FirstInv, AsmInv, Counted
<1>3. b.strargs = a.strargs \o d.strs
  BY DEF NewData
<1> QED
  BY <1>1, <1>2, <1>3, ConcatProperties

\* An operation keeps them in order.
LEMMA FirstIns ==
  ASSUME NEW a, FirstInv(a), NEW op, NEW args, op \in DOMAIN Sizes => IsArgs(args),
         NEW b, b = insfind(a, op, args), ~Stopped(b)
  PROVE  FirstInv(b)
<1>1. /\ IsSeq(a.labels) /\ IsSeq(a.outbuf) /\ a.address \in Int /\ a.strargs \in Seq(Seq(Bytes))
      /\ \A i \in DOMAIN a.labels : IsLabel(a.labels[i])
      /\ a.arch \in DOMAIN Arch /\ Shape(a) /\ AsmInv(a) /\ Len(a.labels) \in Nat
  BY SeqShape DEF FirstInv, AsmInv, BufInv
<1>2. CASE NewArch(a, b)
  <2>1. Same(a, b, Changed) /\ b.address = a.address /\ b.strargs = a.strargs
        /\ b.outbuf = a.outbuf /\ b.labels = a.labels /\ b.inss = a.inss /\ b.ats = a.ats
        /\ Shape(b) /\ b.arch \in DOMAIN Arch
    BY <1>2 DEF NewArch, Same, Changed, Fields
  <2> QED
    BY <1>1, <2>1, FirstKept DEF MoreOrSame
<1>3. CASE NewOrg(a, b)
  <2>1. Same(a, b, Changed) /\ b.strargs = a.strargs
        /\ b.outbuf = a.outbuf /\ b.labels = a.labels /\ b.arch = a.arch
        /\ Shape(b)
    BY <1>3 DEF NewOrg, Same, Changed, Fields
  <2>2. b.address \in Int /\ NextIns(a, b, OrgIns(b.address))
    BY <1>3 DEF NewOrg
  <2>3. OrgEntry(OrgIns(b.address)) /\ OrgIns(b.address).type = "org"
    BY <2>2 DEF OrgEntry, OrgIns
  <2>4. MoreOrSame(a, b)
    BY <2>2, <2>3 DEF MoreOrSame, IsEntry
  <2> QED
    BY <1>1, <2>1, <2>2, <2>4, FirstKept
<1>4. CASE NewEqu(a, b)
  <2>1. Same(a, b, Changed) /\ b.address = a.address /\ b.strargs = a.strargs
        /\ b.outbuf = a.outbuf /\ b.arch = a.arch /\ b.inss = a.inss /\ b.ats = a.ats
        /\ Shape(b)
    BY <1>4 DEF NewEqu, Same, Changed, Fields
  <2>2. IsSeq(b.labels) /\ Len(b.labels) = Len(a.labels)
    BY <1>4 DEF NewEqu
  <2>3. DOMAIN b.labels = DOMAIN a.labels
    BY <1>1, <2>2, SeqShape
  <2>4. \A i \in DOMAIN b.labels : IsLabel(b.labels[i])
    BY <1>4, <2>3 DEF NewEqu
  <2> QED
    BY <1>1, <2>1, <2>2, <2>4, FirstKept DEF MoreOrSame
<1>5. CASE NewCtx(a, b)
  <2>1. Same(a, b, Changed) /\ b.address = a.address /\ b.strargs = a.strargs
        /\ b.outbuf = a.outbuf /\ b.labels = a.labels /\ b.arch = a.arch /\ Shape(b)
    BY <1>5 DEF NewCtx, Same, Changed, Fields
  <2>2. PICK type \in {"ctx", "ctx_end"} : NextIns(a, b, [type |-> type])
    BY <1>5 DEF NewCtx
  <2>3. MoreOrSame(a, b)
    BY <2>2 DEF MoreOrSame, IsEntry
  <2> QED
    BY <1>1, <2>1, <2>3, FirstKept
<1>6. CASE NewIns(a, b)
  <2>1. PICK ins : /\ InsEntry(ins) /\ NextIns(a, b, ins)
                   /\ Shape(b) /\ Same(a, b, {"outbuf", "nul", "inss", "ats", "address"})
                   /\ IsSeq(b.outbuf)
                   /\ b.address = a.address + Len(Arch[ins.arch].ocs[ins.row].oc) \div Align
    BY <1>6 DEF NewIns
  <2>2. Same(a, b, Changed) /\ b.strargs = a.strargs /\ b.labels = a.labels /\ b.arch = a.arch
    BY <2>1 DEF Same, Changed, Fields
  <2>3. MoreOrSame(a, b)
    BY <2>1 DEF MoreOrSame, IsEntry, InsEntry
  <2>4. b.address \in Int
    <3> DEFINE len == Len(Arch[ins.arch].ocs[ins.row].oc)
    <3>1. len \in {2, 4}
      BY <2>1, WordLength
    <3>2. len \div Align \in Int
      <4> HIDE DEF len
      <4> QED
        BY <3>1 DEF Align
    <3> HIDE DEF len
    <3> QED
      BY <1>1, <2>1, <3>2 DEF len
  <2> QED
    BY <1>1, <2>1, <2>2, <2>3, <2>4, FirstKept
<1>7. CASE op \in DOMAIN Sizes /\ NewData(a, b, Sizes[op], args)
  <2> DEFINE size == Sizes[op]
             d == CountArgs(args, size)
             data == [type |-> "data", args |-> args, size |-> size]
  <2>1. size \in {1, 2, 4} /\ IsArgs(args)
    BY <1>7 DEF Sizes, Align
  <2> HIDE DEF size
  <2>2. /\ Shape(b) /\ Same(a, b, {"strargs", "outbuf", "nul", "inss", "ats", "address"})
        /\ IsSeq(b.outbuf)
        /\ \/ d.n = 0 /\ b.inss = a.inss /\ b.ats = a.ats /\ b.address = a.address
           \/ d.n # 0 /\ NextIns(a, b, data) /\ b.address = a.address + Words(d.n, size)
    BY <1>7 DEF NewData, size
  <2>3. Same(a, b, Changed) /\ b.labels = a.labels /\ b.arch = a.arch
    BY <2>2 DEF Same, Changed, Fields
  <2>4. b.strargs \in Seq(Seq(Bytes)) /\ d \in Counted
    BY <1>7, <2>1, DataStrings DEF size
  <2>5. d.n \in Nat
    BY <2>4 DEF Counted
  <2> HIDE DEF d
  <2>6. b.address \in Int
    BY <1>1, <2>1, <2>2, <2>5, WordsFacts
  <2>7. MoreOrSame(a, b)
    BY <2>1, <2>2 DEF MoreOrSame, IsEntry, DataEntry
  <2> QED
    BY <1>1, <2>2, <2>3, <2>4, <2>6, <2>7, FirstKept
<1>8. CASE b = a
  BY <1>8
<1> QED
  BY <1>1, <1>2, <1>3, <1>4, <1>5, <1>6, <1>7, <1>8, InsfindEffect

-----------------------------------------------------------------------------
(* The state, in every phase.                                              *)

Dead == {"error", "crash", "done"}
NothingLaid ==
  /\ pc = 1 /\ map = <<>> /\ image = <<>> /\ clash = FALSE
  /\ mapitem = [start |-> 0, end |-> 0]
NothingRead == hex = <<>> /\ top = 0 /\ wbuf = 0 /\ rd = 1 /\ dsym = <<>> /\ inbuf = <<>>

Ended(inss) ==
  /\ inss[Len(inss)].type = "end"
  /\ \A k \in 1..Len(inss) - 1 : inss[k].type # "end"

\* k is the last org before entry n, or 0.
LastOrg(inss, k, n) ==
  /\ k \in 0..n - 1 /\ (k # 0 => inss[k].type = "org")
  /\ \A j \in k + 1..n - 1 : inss[j].type # "org"

Pass2Inv ==
  /\ AsmInv(asm) /\ Going(asm) /\ pc \in DOMAIN asm.inss /\ Ended(asm.inss)
  /\ LastOrg(asm.inss, asm.lorg, pc)
  /\ Ins.type # "data" => asm.arg = 1 /\ asm.a = 0

StateInv ==
  \/ phase \in Dead
  \/ /\ phase \in {"pass1", "pass2", "write", "line", "read", "dis"}
     /\ WellFormed(prog.lines) /\ WellFormed(list) /\ line \in Nat \ {0}
     /\ Shape(asm) /\ asm.arch \in DOMAIN Arch
     /\ phase = "pass1" => FirstInv(asm) /\ NothingLaid
     /\ phase = "pass2" => Pass2Inv
     /\ phase \in {"write", "line"} => BufInv(asm) /\ pc \in DOMAIN asm.inss /\ Ended(asm.inss)
     /\ phase = "line" => Ins.type = "org"
     /\ phase \in {"pass1", "pass2"} => NothingRead
     /\ phase # "dis" => list = <<>>

\* A new assembler is in order.
LEMMA NewAsmFacts ==
  ASSUME NEW arch, arch \in DOMAIN Arch, NEW a, a = NewAsm(arch)
  PROVE  /\ FirstInv(a) /\ a.labels = <<>> /\ a.strargs = <<>> /\ a.inss = <<OrgIns(0)>>
         /\ a.ats = <<0>> /\ a.address = 0
<1>1. /\ Shape(a) /\ a.arch = arch /\ a.address = 0 /\ a.labels = <<>> /\ a.llbl = 0
      /\ a.strargs = <<>> /\ a.inss = <<OrgIns(0)>> /\ a.ats = <<0>> /\ a.lorg = 0
      /\ a.outbuf = <<>> /\ a.bufp = 0 /\ a.arg = 1 /\ a.a = 0
  BY DEF NewAsm, Shape, Fields
<1>2. IsSeq(a.inss) /\ Len(a.inss) = 1 /\ DOMAIN a.inss = 1..1 /\ a.inss[1] = OrgIns(0)
  BY <1>1, One, SeqShape
<1>3. IsSeq(a.ats) /\ Len(a.ats) = 1
  BY <1>1, One
<1>4. IsSeq(a.labels) /\ IsSeq(a.outbuf) /\ DOMAIN a.labels = {}
  BY <1>1, None
<1>5. OrgEntry(OrgIns(0)) /\ OrgIns(0).type = "org"
  BY DEF OrgEntry, OrgIns
<1>6. \A k \in DOMAIN a.inss : IsEntry(a.inss[k], Len(a.labels)) /\ a.inss[k].type # "end"
  BY <1>2, <1>5 DEF IsEntry
<1>7. BufInv(a) /\ OneEnd(a)
  BY <1>2, <1>4, <1>5, <1>6 DEF BufInv, OneEnd
<1>8. a.strargs \in Seq(Seq(Bytes))
  BY <1>1, EmptySeq
<1>9. AsmInv(a)
  BY <1>1, <1>2, <1>3, <1>4, <1>7, <1>8 DEF AsmInv
<1>10. Going(a)
  BY DEF Going, NewAsm
<1> QED
  BY <1>1, <1>7, <1>9, <1>10 DEF FirstInv, Start

\* A listing without lines is a program.
LEMMA EmptyList == WellFormed(<<>>)
<1>1. IsSeq(<<>>) /\ DOMAIN <<>> = {}
  BY None
<1> QED
  BY <1>1 DEF WellFormed

\* At the start everything is in order.
LEMMA StateInit == Init => StateInv
<1> SUFFICES ASSUME Init  PROVE StateInv
  OBVIOUS
<1>1. prog.arch \in DOMAIN Arch /\ WellFormed(prog.lines)
  BY MatPicAssumption DEF Init
<1>2. FirstInv(asm)
  BY <1>1, NewAsmFacts DEF Init
<1>3. WellFormed(list)
  BY EmptyList DEF Init
<1>4. Shape(asm) /\ asm.arch \in DOMAIN Arch
  BY <1>2 DEF FirstInv
<1> QED
  BY <1>1, <1>2, <1>3, <1>4 DEF Init, StateInv, NothingLaid, NothingRead

-----------------------------------------------------------------------------
(* The first pass.                                                         *)

\* What a line is.
LEMMA LineFacts ==
  ASSUME WellFormed(prog.lines), line \in Nat \ {0}, line <= Len(prog.lines),
         NEW l, l = prog.lines[line]
  PROVE  /\ l.lbl = <<>> \/ l.lbl[1] \in Nat
         /\ l.op \in DOMAIN Sizes => IsArgs(l.args)
<1>1. line \in DOMAIN prog.lines
  BY SeqShape DEF WellFormed
<1> QED
  BY <1>1 DEF WellFormed, IsArgs

\* The label of a line, if it has one.
LEMMA Labelling ==
  ASSUME NEW a, FirstInv(a), NEW lbl, lbl = <<>> \/ lbl[1] \in Nat,
         NEW b, b = IF lbl = <<>> THEN a ELSE addlabel(a, lbl), ~Stopped(b)
  PROVE  b = a \/ (NewLabel(a, b, lbl) /\ FirstInv(b) /\ lbl[1] \in Nat)
<1>1. Shape(a) /\ AsmInv(a)
  BY DEF FirstInv
<1>2. CASE lbl = <<>>
  BY <1>2
<1>3. CASE lbl # <<>>
  <2>1. NewLabel(a, b, lbl)
    BY <1>1, <1>3, AddLabelEffect
  <2> QED
    BY <1>3, <2>1, FirstLabel
<1> QED
  BY <1>2, <1>3

\* A line of the first pass, which goes on: the label and then the rest.
Lined(a, c, b, l) ==
  /\ FirstInv(c) /\ (c = a \/ (NewLabel(a, c, l.lbl) /\ l.lbl[1] \in Nat))
  /\ b = insfind(c, l.op, l.args) /\ FirstInv(b)
  /\ l.op \in DOMAIN Sizes => IsArgs(l.args)

\* A pass that goes on has not stopped.
LEMMA GoingOn ==
  ASSUME NEW a, Going(a)
  PROVE  ~Stopped(a)
BY DEF Going, Stopped

\* A line of the first pass: its label, then its operation.
LEMMA LineEffect ==
  ASSUME StateInv, Pass1
  PROVE  \/ phase' \in Dead
         \/ phase' = phase /\ \E c : Lined(asm, c, asm', prog.lines[line])
<1> DEFINE l == prog.lines[line]
           c == Labelled(l.lbl)
<1>0. phase = "pass1" /\ FirstInv(asm) /\ WellFormed(prog.lines) /\ line \in Nat \ {0}
      /\ line <= Len(prog.lines)
  BY DEF StateInv, Pass1, Dead
<1>1. (l.lbl = <<>> \/ l.lbl[1] \in Nat) /\ (l.op \in DOMAIN Sizes => IsArgs(l.args))
  BY <1>0, LineFacts
<1>2. asm' = IF Going(c) THEN insfind(c, l.op, l.args) ELSE c
  BY DEF Pass1, AndThen, Going
<1>3. c = IF l.lbl = <<>> THEN asm ELSE addlabel(asm, l.lbl)
  BY DEF Labelled
<1>4. phase' = IF Going(asm') THEN phase ELSE asm'.out
  BY DEF Pass1, Going
<1> HIDE DEF l, c
<1>5. CASE Stopped(c)
  <2>1. ~Going(c)
    BY <1>5, GoingOn
  <2>2. asm' = c /\ phase' = c.out
    BY <2>1, <1>2, <1>4
  <2> QED
    BY <2>2, <1>5 DEF Stopped, Dead
<1>6. CASE ~Stopped(c)
  <2>1. c = asm \/ (NewLabel(asm, c, l.lbl) /\ FirstInv(c) /\ l.lbl[1] \in Nat)
    BY <1>0, <1>1, <1>3, <1>6, Labelling
  <2>2. FirstInv(c)
    BY <2>1, <1>0
  <2>3. Going(c)
    BY <2>2 DEF FirstInv
  <2>4. asm' = insfind(c, l.op, l.args)
    BY <2>3, <1>2
  <2>5. CASE Stopped(asm')
    <3>1. ~Going(asm')
      BY <2>5, GoingOn
    <3> QED
      BY <3>1, <2>5, <1>4 DEF Stopped, Dead
  <2>6. CASE ~Stopped(asm')
    <3>1. FirstInv(asm')
      BY <2>2, <2>4, <2>6, <1>1, FirstIns
    <3>2. Going(asm')
      BY <3>1 DEF FirstInv
    <3>3. Lined(asm, c, asm', l)
      BY <1>1, <2>1, <2>2, <2>4, <3>1 DEF Lined
    <3> QED
      BY <3>2, <3>3, <1>4 DEF l
  <2> QED
    BY <2>5, <2>6
<1> QED
  BY <1>5, <1>6

\* A line keeps the state in order.
LEMMA StatePass1 ==
  ASSUME StateInv, Pass1
  PROVE  StateInv'
<1>1. CASE phase' \in Dead
  BY <1>1 DEF StateInv
<1>2. CASE phase' = phase /\ \E c : Lined(asm, c, asm', prog.lines[line])
  <2>1. FirstInv(asm)'
    BY <1>2 DEF Lined
  <2>2. phase = "pass1" /\ phase' = "pass1"
    BY <1>2 DEF Pass1
  <2>3. /\ WellFormed(prog.lines)' /\ WellFormed(list)' /\ NothingLaid' /\ NothingRead'
        /\ list' = <<>> /\ line' \in Nat \ {0}
    <3>1. /\ WellFormed(prog.lines) /\ WellFormed(list) /\ NothingLaid /\ NothingRead
          /\ list = <<>> /\ line \in Nat \ {0}
      BY <2>2 DEF StateInv, Dead
    <3>2. /\ prog' = prog /\ list' = list /\ line' = line + 1
          /\ UNCHANGED <<pass2Vars, hexVars, readVars>>
      BY DEF Pass1, disVars
    <3>3. NothingLaid' /\ NothingRead'
      BY <3>1, <3>2 DEF pass2Vars, hexVars, readVars, NothingLaid, NothingRead
    <3>4. line' \in Nat \ {0}
      BY <3>1, <3>2
    <3> QED
      BY <3>1, <3>2, <3>3, <3>4
  <2>4. Shape(asm)' /\ asm'.arch \in DOMAIN Arch
    BY <2>1 DEF FirstInv
  <2> QED
    BY <2>1, <2>2, <2>3, <2>4 DEF StateInv
<1> QED
  BY <1>1, <1>2, LineEffect

\* The end of the first pass adds the last entry.
LEMMA EndPass1Effect ==
  ASSUME StateInv, EndPass1
  PROVE  /\ phase' \in {"pass2", "error"} /\ FirstInv(asm) /\ NothingLaid /\ NothingRead
         /\ Shape(asm') /\ Same(asm, asm', {"inss", "ats", "address"})
         /\ NextIns(asm, asm', [type |-> "end"]) /\ asm'.address = 0
         /\ UNCHANGED <<prog, line, pass2Vars, hexVars, readVars, disVars>>
<1> DEFINE ins == [type |-> "end"]
           c == AddIns(asm, ins)
<1>1. phase = "pass1" /\ FirstInv(asm) /\ NothingLaid /\ NothingRead
  BY DEF StateInv, EndPass1, Dead
<1>2. /\ asm' = [c EXCEPT !.address = 0] /\ phase' \in {"pass2", "error"}
      /\ UNCHANGED <<prog, line, pass2Vars, hexVars, readVars, disVars>>
  BY DEF EndPass1
<1>3. c = AddIns(asm, ins)
  OBVIOUS
<1>4. Shape(asm) /\ IsSeq(asm.inss) /\ IsSeq(asm.ats)
  BY <1>1 DEF FirstInv, AsmInv, BufInv
<1> HIDE DEF c, ins
<1>5. Shape(c) /\ Same(asm, c, {"inss", "ats"}) /\ NextIns(asm, c, ins)
  BY <1>3, <1>4, AddInsFacts
<1>6. /\ Shape(asm') /\ Same(c, asm', {"address"}) /\ asm'.address = 0
  BY <1>2, <1>5 DEF Shape, Fields, Same
<1>7. Same(asm, asm', {"inss", "ats", "address"}) /\ asm'.inss = c.inss /\ asm'.ats = c.ats
  BY <1>5, <1>6 DEF Same, Fields
<1>8. NextIns(asm, asm', ins)
  BY <1>5, <1>7 DEF NextIns
<1> QED
  BY <1>1, <1>2, <1>6, <1>7, <1>8 DEF ins

\* It keeps the state in order.
LEMMA StateEndPass1 ==
  ASSUME StateInv, EndPass1
  PROVE  StateInv'
<1> DEFINE e == [type |-> "end"]
<1>0. /\ phase' \in {"pass2", "error"} /\ FirstInv(asm) /\ NothingLaid /\ NothingRead
      /\ Shape(asm') /\ Same(asm, asm', {"inss", "ats", "address"})
      /\ NextIns(asm, asm', e) /\ asm'.address = 0
      /\ UNCHANGED <<prog, line, pass2Vars, hexVars, readVars, disVars>>
  BY EndPass1Effect
<1>1. CASE phase' = "error"
  BY <1>1 DEF StateInv, Dead
<1>2. CASE phase' = "pass2"
  <2>1. /\ asm'.labels = asm.labels /\ asm'.arch = asm.arch /\ asm'.outbuf = asm.outbuf
        /\ asm'.llbl = asm.llbl /\ asm'.lorg = asm.lorg /\ asm'.bufp = asm.bufp
        /\ asm'.arg = asm.arg /\ asm'.a = asm.a /\ asm'.strargs = asm.strargs
    BY <1>0 DEF Same, Fields
  <2>2. Going(asm') /\ Start(asm')
    BY <1>0, <2>1 DEF Same, Fields, Going, FirstInv, Start
  <2>3. /\ AsmInv(asm) /\ BufInv(asm) /\ OneEnd(asm) /\ asm.arch \in DOMAIN Arch
        /\ IsSeq(asm.inss) /\ IsSeq(asm.labels) /\ Len(asm.labels) \in Nat /\ Len(asm.inss) \in Nat
        /\ DOMAIN asm.inss = 1..Len(asm.inss)
    BY <1>0, SeqShape DEF FirstInv, AsmInv, BufInv
  <2>4. Adds(asm.inss, asm'.inss, e) /\ Adds(asm.ats, asm'.ats, asm.address)
    BY <1>0 DEF NextIns
  <2>5. BufInv(asm')
    <3>1. ASSUME NEW k \in DOMAIN asm'.inss  PROVE IsEntry(asm'.inss[k], Len(asm'.labels))
      <4>1. CASE k = Len(asm.inss) + 1
        <5>1. asm'.inss[k] = e
          BY <4>1, <2>4 DEF Adds
        <5> QED
          BY <5>1 DEF IsEntry
      <4>2. CASE k \in 1..Len(asm.inss)
        <5>1. asm'.inss[k] = asm.inss[k] /\ k \in DOMAIN asm.inss
          BY <4>2, <2>3, <2>4 DEF Adds
        <5> QED
          BY <5>1, <2>1, <2>3 DEF BufInv
      <4> QED
        BY <4>1, <4>2, <2>4 DEF Adds
    <3>2. /\ IsSeq(asm'.inss) /\ Len(asm'.inss) > 0 /\ asm'.inss[1].type = "org"
      BY <2>3, <2>4 DEF Adds, BufInv
    <3> QED
      BY <3>1, <3>2, <2>1, <2>3 DEF BufInv
  <2>6. Ended(asm'.inss)
    <3>1. Len(asm'.inss) = Len(asm.inss) + 1 /\ asm'.inss[Len(asm.inss) + 1] = e
          /\ \A k \in 1..Len(asm.inss) : asm'.inss[k] = asm.inss[k]
      BY <2>4 DEF Adds
    <3>2. \A k \in 1..Len(asm.inss) : asm.inss[k].type # "end"
      BY <2>3 DEF OneEnd
    <3>3. Len(asm'.inss) - 1 = Len(asm.inss)
      BY <2>3, <3>1
    <3> QED
      BY <3>1, <3>2, <3>3 DEF Ended
  <2>7. AsmInv(asm')
    <3>1. IsSeq(asm'.ats) /\ Len(asm'.ats) = Len(asm'.inss)
      BY <2>3, <2>4 DEF Adds, AsmInv
    <3> QED
      BY <3>1, <1>0, <2>1, <2>3, <2>5 DEF AsmInv
  <2>8. pc' = 1 /\ pc' \in DOMAIN asm'.inss
    <3>1. pc' = 1
      BY <1>0 DEF pass2Vars, NothingLaid
    <3>2. DOMAIN asm'.inss = 1..Len(asm.inss) + 1
      BY <2>4 DEF Adds
    <3> QED
      BY <3>1, <3>2, <2>3
  <2>9. LastOrg(asm'.inss, asm'.lorg, pc')
    BY <2>2, <2>8 DEF LastOrg, Start
  <2>10. Pass2Inv'
    BY <2>2, <2>6, <2>7, <2>8, <2>9 DEF Pass2Inv, Ins, Start
  <2>11. /\ WellFormed(prog.lines) /\ WellFormed(list) /\ line \in Nat \ {0} /\ list = <<>>
    BY DEF StateInv, EndPass1, Dead
  <2>12. prog' = prog /\ list' = list /\ line' = line /\ NothingRead'
    BY <1>0 DEF pass2Vars, hexVars, readVars, disVars, NothingRead
  <2> QED
    BY <1>0, <1>2, <2>1, <2>3, <2>10, <2>11, <2>12 DEF StateInv
<1> QED
  BY <1>0, <1>1, <1>2

-----------------------------------------------------------------------------
(* The second pass.                                                        *)

\* Entries that differ in where the bytes of an org are only.
Alike(s, t) ==
  /\ IsSeq(t) /\ Len(t) = Len(s) /\ DOMAIN t = DOMAIN s
  /\ \A k \in DOMAIN s :
       /\ t[k].type = s[k].type
       /\ s[k].type # "org" => t[k] = s[k]
       /\ s[k].type = "org" => OrgEntry(t[k]) /\ t[k].address = s[k].address

\* An entry called org is one.
LEMMA OrgOnly ==
  ASSUME NEW e, NEW n, IsEntry(e, n), e.type = "org"
  PROVE  OrgEntry(e)
BY DEF IsEntry, LblEntry, DataEntry, InsEntry

\* An org that is told where it starts or ends is as it was otherwise.
LEMMA MarkFacts ==
  ASSUME NEW s, IsSeq(s), NEW n, \A j \in DOMAIN s : IsEntry(s[j], n),
         NEW k \in DOMAIN s, s[k].type = "org", NEW m, m \in Nat, NEW t,
         t = [s EXCEPT ![k] = [s[k] EXCEPT !.end = m]] \/ t = [s EXCEPT ![k] = [s[k] EXCEPT !.start = m]]
  PROVE  Alike(s, t) /\ \A j \in DOMAIN s : j # k => t[j] = s[j]
<1>1. OrgEntry(s[k])
  BY OrgOnly
<1>2. PICK e : e = t[k]
  OBVIOUS
<1>3. IsSeq(t) /\ Len(t) = Len(s) /\ DOMAIN t = DOMAIN s
  BY Replaced
<1>4. \A j \in DOMAIN s : j # k => t[j] = s[j]
  OBVIOUS
<1>5. OrgEntry(e) /\ e.address = s[k].address /\ e.type = "org"
  <2>1. CASE t = [s EXCEPT ![k] = [s[k] EXCEPT !.end = m]]
    BY <1>1, <1>2, <2>1 DEF OrgEntry
  <2>2. CASE t = [s EXCEPT ![k] = [s[k] EXCEPT !.start = m]]
    BY <1>1, <1>2, <2>2 DEF OrgEntry
  <2> QED
    BY <2>1, <2>2
<1>6. \A j \in DOMAIN s : s[j].type = "org" => OrgEntry(s[j])
  BY OrgOnly
<1>7. ASSUME NEW j \in DOMAIN s
      PROVE  /\ t[j].type = s[j].type
             /\ s[j].type # "org" => t[j] = s[j]
             /\ s[j].type = "org" => OrgEntry(t[j]) /\ t[j].address = s[j].address
  <2>1. CASE j = k
    BY <2>1, <1>2, <1>5
  <2>2. CASE j # k
    BY <2>2, <1>4, <1>6
  <2> QED
    BY <2>1, <2>2
<1> QED
  BY <1>3, <1>4, <1>7 DEF Alike

\* Entries that differ in nothing but that are alike, which is an order.
LEMMA AlikeItself ==
  ASSUME NEW s, IsSeq(s), NEW n, \A j \in DOMAIN s : IsEntry(s[j], n)
  PROVE  Alike(s, s)
BY OrgOnly DEF Alike

LEMMA AlikeTwice ==
  ASSUME NEW s, NEW t, NEW u, Alike(s, t), Alike(t, u)
  PROVE  Alike(s, u)
BY DEF Alike

\* What is known of entries is known of entries that are alike.
LEMMA AlikeInv ==
  ASSUME NEW a, BufInv(a), NEW b, Alike(a.inss, b.inss), IsSeq(b.outbuf), b.labels = a.labels
  PROVE  /\ BufInv(b) /\ (Ended(a.inss) => Ended(b.inss))
         /\ \A k, n \in Nat : LastOrg(a.inss, k, n) /\ n \in DOMAIN a.inss => LastOrg(b.inss, k, n)
<1>1. /\ IsSeq(a.inss) /\ Len(a.inss) > 0 /\ a.inss[1].type = "org" /\ IsSeq(a.labels)
      /\ \A k \in DOMAIN a.inss : IsEntry(a.inss[k], Len(a.labels))
      /\ Len(a.inss) \in Nat /\ DOMAIN a.inss = 1..Len(a.inss)
  BY SeqShape DEF BufInv
<1>2. /\ IsSeq(b.inss) /\ Len(b.inss) = Len(a.inss) /\ DOMAIN b.inss = DOMAIN a.inss
      /\ \A k \in DOMAIN a.inss : b.inss[k].type = a.inss[k].type
  BY DEF Alike
<1>3. ASSUME NEW k \in DOMAIN a.inss  PROVE IsEntry(b.inss[k], Len(b.labels))
  <2>1. CASE a.inss[k].type = "org"
    BY <2>1 DEF Alike, IsEntry
  <2>2. CASE a.inss[k].type # "org"
    BY <2>2, <1>1 DEF Alike
  <2> QED
    BY <2>1, <2>2
<1>4. BufInv(b)
  <2>1. 1 \in DOMAIN a.inss
    BY <1>1
  <2> QED
    BY <1>1, <1>2, <1>3, <2>1 DEF BufInv
<1>5. ASSUME Ended(a.inss)  PROVE Ended(b.inss)
  <2>1. Len(a.inss) \in DOMAIN a.inss /\ \A k \in 1..Len(a.inss) - 1 : k \in DOMAIN a.inss
    BY <1>1
  <2> QED
    BY <1>2, <1>5, <2>1 DEF Ended
<1>6. ASSUME NEW k \in Nat, NEW n \in Nat, LastOrg(a.inss, k, n), n \in DOMAIN a.inss
      PROVE  LastOrg(b.inss, k, n)
  <2>1. k # 0 => k \in DOMAIN a.inss
    BY <1>1, <1>6 DEF LastOrg
  <2>2. \A j \in k + 1..n - 1 : j \in DOMAIN a.inss
    BY <1>1, <1>6
  <2> QED
    BY <1>2, <1>6, <2>1, <2>2 DEF LastOrg
<1> QED
  BY <1>4, <1>5, <1>6

\* EndOrg tells the last org where it ends.
LEMMA EndOrgFacts ==
  ASSUME NEW a, Shape(a), AsmInv(a),
         a.lorg # 0 => a.lorg \in DOMAIN a.inss /\ a.inss[a.lorg].type = "org",
         NEW b, b = EndOrg(a)
  PROVE  /\ Shape(b) /\ Same(a, b, {"inss"}) /\ Alike(a.inss, b.inss)
         /\ \A j \in DOMAIN a.inss : j # a.lorg => b.inss[j] = a.inss[j]
         /\ a.lorg # 0 => /\ b.inss[a.lorg].end = a.bufp
                          /\ b.inss[a.lorg].start = a.inss[a.lorg].start
<1>1. /\ IsSeq(a.inss) /\ a.bufp \in Nat
      /\ \A k \in DOMAIN a.inss : IsEntry(a.inss[k], Len(a.labels))
  BY DEF AsmInv, BufInv
<1>2. CASE a.lorg = 0
  <2>1. b = a
    BY <1>2 DEF EndOrg
  <2> QED
    BY <1>1, <1>2, <2>1, AlikeItself DEF Same
<1>3. CASE a.lorg # 0
  <2> DEFINE k == a.lorg
             e == [a.inss[k] EXCEPT !.end = a.bufp]
             t == [a.inss EXCEPT ![k] = e]
  <2>1. b = [a EXCEPT !.inss[a.lorg].end = a.bufp]
    BY <1>3 DEF EndOrg
  <2>2. b = [a EXCEPT !.inss = t]
    BY <2>1, <1>3 DEF Shape, Fields
  <2>3. k \in DOMAIN a.inss /\ a.inss[k].type = "org" /\ OrgEntry(a.inss[k])
    BY <1>1, <1>3, OrgOnly
  <2>4. e.end = a.bufp /\ e.start = a.inss[k].start
    BY <2>3 DEF OrgEntry
  <2>5. t[k] = e /\ t = [a.inss EXCEPT ![k] = [a.inss[k] EXCEPT !.end = a.bufp]]
    BY <2>3
  <2> HIDE DEF t, e
  <2>6. Alike(a.inss, t) /\ \A j \in DOMAIN a.inss : j # k => t[j] = a.inss[j]
    BY <1>1, <2>3, <2>5, MarkFacts
  <2>7. Shape(b) /\ Same(a, b, {"inss"}) /\ b.inss = t
    BY <2>2 DEF Shape, Fields, Same
  <2> QED
    BY <2>4, <2>5, <2>6, <2>7
<1> QED
  BY <1>2, <1>3

\* What an org does in the second pass.
OrgStep(a, b, k) ==
  /\ Shape(b) /\ Same(a, b, {"inss", "address", "lorg"}) /\ Alike(a.inss, b.inss)
  /\ \A j \in DOMAIN a.inss : j # a.lorg /\ j # k => b.inss[j] = a.inss[j]
  /\ a.lorg # 0 => /\ b.inss[a.lorg].end = a.bufp
                   /\ b.inss[a.lorg].start = a.inss[a.lorg].start
  /\ b.inss[k].start = a.bufp /\ b.inss[k].end = a.inss[k].end
  /\ b.address = a.inss[k].address /\ b.lorg = k

\* An org in the second pass.
LEMMA OrgFacts ==
  ASSUME NEW a, Shape(a), AsmInv(a), NEW k \in DOMAIN a.inss, a.inss[k].type = "org",
         LastOrg(a.inss, a.lorg, k), NEW b,
         b = [EndOrg(a) EXCEPT !.address = a.inss[k].address, !.lorg = k, !.inss[k].start = a.bufp]
  PROVE  OrgStep(a, b, k)
<1> DEFINE c == EndOrg(a)
<1>0. /\ IsSeq(a.inss) /\ a.bufp \in Nat /\ a.lorg \in Nat
      /\ \A j \in DOMAIN a.inss : IsEntry(a.inss[j], Len(a.labels))
      /\ DOMAIN a.inss = 1..Len(a.inss) /\ Len(a.inss) \in Nat
  BY SeqShape DEF AsmInv, BufInv
<1>1. a.lorg # k /\ (a.lorg # 0 => a.lorg \in DOMAIN a.inss /\ a.inss[a.lorg].type = "org")
  BY <1>0 DEF LastOrg
<1>2. c = EndOrg(a)
  OBVIOUS
<1> HIDE DEF c
<1>3. /\ Shape(c) /\ Same(a, c, {"inss"}) /\ Alike(a.inss, c.inss)
      /\ \A j \in DOMAIN a.inss : j # a.lorg => c.inss[j] = a.inss[j]
      /\ a.lorg # 0 => /\ c.inss[a.lorg].end = a.bufp
                       /\ c.inss[a.lorg].start = a.inss[a.lorg].start
  BY <1>1, <1>2, EndOrgFacts
<1> DEFINE e == [c.inss[k] EXCEPT !.start = a.bufp]
           t == [c.inss EXCEPT ![k] = e]
<1>4. b = [c EXCEPT !.address = a.inss[k].address, !.lorg = k, !.inss = t]
  <2>1. b = [c EXCEPT !.address = a.inss[k].address, !.lorg = k, !.inss[k].start = a.bufp]
    BY <1>2
  <2> QED
    BY <2>1, <1>3 DEF Shape, Fields
<1>5. c.inss[k] = a.inss[k] /\ DOMAIN c.inss = DOMAIN a.inss /\ IsSeq(c.inss)
  BY <1>1, <1>3 DEF Alike
<1>6. OrgEntry(a.inss[k])
  BY <1>0, OrgOnly
<1>7. e.start = a.bufp /\ e.end = a.inss[k].end
  BY <1>5, <1>6 DEF OrgEntry
<1>8. t[k] = e /\ t = [c.inss EXCEPT ![k] = [c.inss[k] EXCEPT !.start = a.bufp]]
  BY <1>5
<1>9. \A j \in DOMAIN c.inss : IsEntry(c.inss[j], Len(a.labels))
  <2>1. ASSUME NEW j \in DOMAIN a.inss  PROVE IsEntry(c.inss[j], Len(a.labels))
    <3>1. CASE a.inss[j].type = "org"
      BY <1>3, <3>1 DEF Alike, IsEntry
    <3>2. CASE a.inss[j].type # "org"
      BY <1>0, <1>3, <3>2 DEF Alike
    <3> QED
      BY <3>1, <3>2
  <2> QED
    BY <2>1, <1>5
<1> HIDE DEF t, e
<1>16. k \in DOMAIN c.inss /\ c.inss[k].type = "org"
  BY <1>5
<1>10. Alike(c.inss, t) /\ \A j \in DOMAIN c.inss : j # k => t[j] = c.inss[j]
  BY <1>0, <1>5, <1>8, <1>9, <1>16, MarkFacts
<1>11. Alike(a.inss, t)
  BY <1>3, <1>10, AlikeTwice
<1>12. /\ Shape(b) /\ b.inss = t /\ b.address = a.inss[k].address /\ b.lorg = k
       /\ Same(c, b, {"inss", "address", "lorg"})
  BY <1>3, <1>4 DEF Shape, Fields, Same
<1>13. Same(a, b, {"inss", "address", "lorg"})
  BY <1>3, <1>12 DEF Same
<1>14. \A j \in DOMAIN a.inss : j # a.lorg /\ j # k => t[j] = a.inss[j]
  BY <1>3, <1>5, <1>10
<1>15. a.lorg # 0 => t[a.lorg] = c.inss[a.lorg]
  BY <1>1, <1>5, <1>10
<1> QED
  BY <1>3, <1>7, <1>8, <1>11, <1>12, <1>13, <1>14, <1>15 DEF OrgStep

\* It keeps the state in order.
LEMMA StatePassOrg ==
  ASSUME StateInv, PassOrg
  PROVE  /\ StateInv' /\ OrgStep(asm, asm', pc) /\ Pass2Inv /\ Shape(asm) /\ Ins.type = "org"
<1>1. /\ phase = "pass2" /\ Pass2Inv /\ Shape(asm) /\ NothingRead /\ asm.arch \in DOMAIN Arch
      /\ WellFormed(prog.lines) /\ WellFormed(list) /\ line \in Nat \ {0} /\ list = <<>>
  BY DEF StateInv, PassOrg, InPass2, Dead
<1>2. /\ UNCHANGED <<phase, prog, line, hexVars, readVars, disVars>> /\ pc' = pc + 1
      /\ Ins.type = "org"
      /\ asm' = [EndOrg(asm) EXCEPT !.address = Ins.address, !.lorg = pc, !.inss[pc].start = asm.bufp]
  BY DEF PassOrg, InPass2
<1>3. /\ AsmInv(asm) /\ Going(asm) /\ pc \in DOMAIN asm.inss /\ Ended(asm.inss)
      /\ LastOrg(asm.inss, asm.lorg, pc) /\ asm.inss[pc].type = "org" /\ asm.arg = 1 /\ asm.a = 0
  BY <1>1, <1>2 DEF Pass2Inv, Ins
<1>4. OrgStep(asm, asm', pc)
  BY <1>1, <1>2, <1>3, OrgFacts DEF Ins
<1>5. /\ asm'.labels = asm.labels /\ asm'.arch = asm.arch /\ asm'.outbuf = asm.outbuf
      /\ asm'.llbl = asm.llbl /\ asm'.bufp = asm.bufp /\ asm'.arg = asm.arg /\ asm'.a = asm.a
      /\ asm'.strargs = asm.strargs /\ asm'.ats = asm.ats
  BY <1>4 DEF OrgStep, Same, Fields
<1>51. Going(asm')
  BY <1>3, <1>4 DEF OrgStep, Same, Fields, Going
<1>6. /\ IsSeq(asm.inss) /\ DOMAIN asm.inss = 1..Len(asm.inss) /\ Len(asm.inss) \in Nat
      /\ BufInv(asm) /\ IsSeq(asm.outbuf) /\ asm.inss[pc] \in [type : {"org"}, address : Int, start : Nat, end : Nat]
  BY <1>3, OrgOnly, SeqShape DEF AsmInv, BufInv, OrgEntry
<1>7. Alike(asm.inss, asm'.inss) /\ Len(asm'.inss) = Len(asm.inss) /\ DOMAIN asm'.inss = DOMAIN asm.inss
  BY <1>4 DEF OrgStep, Alike
<1>8. BufInv(asm') /\ Ended(asm'.inss)
  BY <1>3, <1>5, <1>6, <1>7, AlikeInv
<1>9. asm'.address \in Int /\ asm'.lorg = pc /\ pc \in Nat
  <2>1. asm'.address = asm.inss[pc].address /\ asm'.lorg = pc
    BY <1>4 DEF OrgStep
  <2>2. asm.inss[pc].address \in Int
    BY <1>6
  <2> QED
    BY <2>1, <2>2, <1>3, <1>6
<1>10. AsmInv(asm')
  BY <1>3, <1>5, <1>7, <1>8, <1>9 DEF AsmInv
<1>11. pc' \in DOMAIN asm'.inss
  <2>1. pc # Len(asm.inss)
    BY <1>3 DEF Ended
  <2> QED
    BY <2>1, <1>2, <1>3, <1>6, <1>7
<1>12. LastOrg(asm'.inss, asm'.lorg, pc')
  <2>1. asm'.inss[pc].type = "org"
    BY <1>3, <1>7 DEF Alike
  <2> QED
    BY <1>2, <1>6, <1>9, <2>1 DEF LastOrg
<1>13. Pass2Inv'
  BY <1>3, <1>5, <1>51, <1>8, <1>10, <1>11, <1>12 DEF Pass2Inv
<1>14. NothingRead'
  BY <1>1, <1>2 DEF NothingRead, hexVars, readVars
<1>15. Shape(asm')
  BY <1>4 DEF OrgStep
<1>16. list' = list
  BY <1>2 DEF disVars
<1> QED
  BY <1>1, <1>2, <1>3, <1>4, <1>5, <1>13, <1>14, <1>15, <1>16 DEF StateInv

\* An item of n bytes, which are in a's outbuf.
Item(a, n) ==
  /\ Same(asm, a, Buffer) /\ Extends(asm, a) /\ a.arg = 1 /\ a.a = 0 /\ a.strargs = asm.strargs
  /\ n \in Nat /\ n = (n \div Align) * Align /\ asm.bufp + n <= Len(a.outbuf)
  /\ Placed(a, n)
  /\ \/ Ins.type = "ins" /\ n = Len(Arch[Ins.arch].ocs[Ins.row].oc)
     \/ Ins.type = "data" /\ asm.arg > Len(Ins.args) /\ n = RoundUp(asm.a, Align)

\* What is known in the second pass.
LEMMA InPass2Facts ==
  ASSUME StateInv, phase = "pass2"
  PROVE  /\ Pass2Inv /\ Shape(asm) /\ NothingRead /\ asm.arch \in DOMAIN Arch
         /\ WellFormed(prog.lines) /\ WellFormed(list) /\ line \in Nat \ {0} /\ list = <<>>
         /\ AsmInv(asm) /\ BufInv(asm) /\ IsSeq(asm.inss) /\ IsSeq(asm.outbuf) /\ IsSeq(asm.labels)
         /\ DOMAIN asm.inss = 1..Len(asm.inss) /\ Len(asm.inss) \in Nat
         /\ pc \in Nat \ {0} /\ pc \in DOMAIN asm.inss /\ IsEntry(Ins, Len(asm.labels))
         /\ asm.bufp \in Nat /\ asm.address \in Int /\ asm.a \in Nat /\ asm.arg \in Nat \ {0}
         /\ Len(asm.outbuf) \in Nat /\ asm.lorg \in Nat
<1>1. /\ Pass2Inv /\ Shape(asm) /\ NothingRead /\ asm.arch \in DOMAIN Arch
      /\ WellFormed(prog.lines) /\ WellFormed(list) /\ line \in Nat \ {0} /\ list = <<>>
  BY DEF StateInv, Dead
<1>2. /\ AsmInv(asm) /\ BufInv(asm) /\ IsSeq(asm.inss) /\ IsSeq(asm.outbuf) /\ IsSeq(asm.labels)
      /\ pc \in DOMAIN asm.inss /\ IsEntry(Ins, Len(asm.labels))
      /\ asm.bufp \in Nat /\ asm.address \in Int /\ asm.a \in Nat /\ asm.arg \in Nat \ {0}
      /\ asm.lorg \in Nat
  BY <1>1 DEF Pass2Inv, AsmInv, BufInv, Ins
<1> QED
  BY <1>1, <1>2, SeqShape

\* An instruction, and data after their last argument, are items of n bytes.
LEMMA ItemIns ==
  ASSUME StateInv, PassIns
  PROVE  phase' = "error" \/ \E a, n : Item(a, n)
<1> DEFINE g == Values(asm, Ins.args)
           row == Arch[Ins.arch].ocs[Ins.row]
           op == Opcode(asm.arch, row, g.v, asm.address)
           bytes == [i \in 1..Len(row.oc) |-> op[Swap(i - 1) + 1]]
           a == Put(asm, 0, bytes)
           n == Len(bytes)
<1>0. phase = "pass2" /\ Ins.type = "ins"
  BY DEF PassIns, InPass2
<1>1. InsEntry(Ins)
  BY <1>0, InPass2Facts DEF IsEntry, OrgEntry, LblEntry, DataEntry
<1>2. Len(row.oc) \in {2, 4}
  BY <1>1, WordLength
<1>3. bytes = [i \in 1..Len(row.oc) |-> bytes[i]]
  OBVIOUS
<1>4. phase' = "error" \/ Placed(a, n)
  BY DEF PassIns, Stops
<1> HIDE DEF bytes, row, g, op
<1>5. IsSeq(bytes) /\ n = Len(row.oc)
  <2>1. Len(row.oc) \in Nat
    BY <1>2
  <2> QED
    BY <2>1, <1>3, Tabulated
<1>6. a = Put(asm, 0, bytes)
  OBVIOUS
<1> HIDE DEF a, n
<1>7. Same(asm, a, {"outbuf"}) /\ Extends(asm, a) /\ Len(a.outbuf) >= asm.bufp + 0 + Len(bytes)
  BY <1>0, <1>5, <1>6, InPass2Facts, PutFacts
<1>8. Same(asm, a, Buffer) /\ a.arg = asm.arg /\ a.a = asm.a /\ a.strargs = asm.strargs
  BY <1>7 DEF Same, Buffer, Fields
<1>9. asm.arg = 1 /\ asm.a = 0
  BY <1>0, InPass2Facts DEF Pass2Inv
<1>10. n \in Nat /\ n = (n \div Align) * Align
  <2>1. n \in {2, 4}
    BY <1>2, <1>5
  <2> QED
    BY <2>1 DEF Align
<1>11. asm.bufp + n <= Len(a.outbuf)
  <2>1. asm.bufp \in Nat /\ Len(a.outbuf) \in Nat
    BY <1>0, <1>7, InPass2Facts, SeqShape DEF Extends
  <2> QED
    BY <1>7, <1>10, <2>1 DEF n
<1>12. n = Len(Arch[Ins.arch].ocs[Ins.row].oc)
  BY <1>5 DEF row
<1> QED
  BY <1>0, <1>4, <1>7, <1>8, <1>9, <1>10, <1>11, <1>12 DEF Item

LEMMA ItemData ==
  ASSUME StateInv, PassData
  PROVE  \E a, n : Item(a, n)
<1> DEFINE a == DataWords(asm)
           n == RoundUp(asm.a, Align)
<1>0. phase = "pass2" /\ Ins.type = "data" /\ asm.arg > Len(Ins.args) /\ Placed(a, n)
  BY DEF PassData, InPass2
<1>1. a = DataWords(asm)
  OBVIOUS
<1> HIDE DEF a
<1>2. /\ Same(asm, a, Buffer) /\ Extends(asm, a) /\ a.arg = 1 /\ a.a = 0 /\ a.strargs = asm.strargs
      /\ asm.bufp + n <= Len(a.outbuf)
  BY <1>0, <1>1, InPass2Facts, DataWordsFacts
<1>3. n \in Nat /\ n = (n \div Align) * Align
  BY <1>0, InPass2Facts, RoundUpAlign
<1> HIDE DEF n
<1>4. n = RoundUp(asm.a, Align)
  BY DEF n
<1> QED
  BY <1>0, <1>2, <1>3, <1>4 DEF Item

\* The state after an item.
AfterItem == Buffer \cup {"bufp", "address"}
\* An item moves on by its bytes, and leaves those before it.
LEMMA ItemStep ==
  ASSUME StateInv, phase = "pass2", NEW a, NEW n, Item(a, n)
  PROVE  /\ Shape(asm') /\ Same(asm, asm', AfterItem) /\ IsSeq(asm'.outbuf) /\ asm'.outbuf = a.outbuf
         /\ asm'.arg = 1 /\ asm'.a = 0 /\ asm'.strargs = asm.strargs
         /\ asm'.bufp = asm.bufp + n /\ asm'.address = asm.address + n \div Align
         /\ \A i \in 1..asm.bufp : i <= Len(asm.outbuf) => asm'.outbuf[i] = asm.outbuf[i]
         /\ asm'.bufp <= Len(asm'.outbuf) /\ pc' = pc + 1 /\ UNCHANGED map
         /\ mapitem' = [mapitem EXCEPT !.end = asm'.address]
         /\ phase' = IF colcheck(map, mapitem.end, asm'.address) THEN "error" ELSE phase
<1> DEFINE end == a.address + n \div Align
<1>1. /\ Same(asm, a, Buffer) /\ Extends(asm, a) /\ a.arg = 1 /\ a.a = 0 /\ a.strargs = asm.strargs
      /\ n \in Nat /\ asm.bufp + n <= Len(a.outbuf) /\ Placed(a, n)
  BY DEF Item
<1>2. /\ mapitem' = [mapitem EXCEPT !.end = end]
      /\ asm' = [a EXCEPT !.bufp = @ + n, !.address = end]
      /\ phase' = IF colcheck(map, mapitem.end, end) THEN "error" ELSE phase
      /\ pc' = pc + 1 /\ UNCHANGED map
  BY <1>1 DEF Placed
<1>3. a.bufp = asm.bufp /\ a.address = asm.address
  BY <1>1 DEF Same, Buffer, Fields
<1>4. asm' = [a EXCEPT !.bufp = asm.bufp + n, !.address = end]
  BY <1>1, <1>2, <1>3 DEF Extends, Shape, Fields
<1> HIDE DEF end
<1>5. /\ Shape(asm') /\ Same(a, asm', {"bufp", "address"}) /\ asm'.bufp = asm.bufp + n
      /\ asm'.address = end
  BY <1>1, <1>4 DEF Extends, Shape, Fields, Same
<1>6. Same(asm, asm', AfterItem)
  BY <1>1, <1>5 DEF Same, AfterItem
<1>7. asm'.outbuf = a.outbuf /\ asm'.arg = 1 /\ asm'.a = 0 /\ asm'.strargs = asm.strargs
  BY <1>1, <1>5 DEF Same, Fields
<1>8. end = asm.address + n \div Align
  BY <1>3 DEF end
<1>9. IsSeq(a.outbuf) /\ \A i \in 1..asm.bufp : i <= Len(asm.outbuf) => a.outbuf[i] = asm.outbuf[i]
  BY <1>1 DEF Extends
<1> QED
  BY <1>1, <1>2, <1>5, <1>6, <1>7, <1>8, <1>9

\* What keeps the state in order in the second pass.
LEMMA Pass2Kept ==
  ASSUME StateInv, phase = "pass2", InPass2, phase' = "pass2",
         Shape(asm'), Same(asm, asm', AfterItem \cup {"llbl"}), IsSeq(asm'.outbuf),
         asm'.bufp \in Nat, asm'.address \in Int, asm'.arg \in Nat \ {0}, asm'.a \in Nat,
         asm'.strargs \in Seq(Seq(Bytes)), asm'.llbl \in Nat,
         \/ pc' = pc /\ Ins.type = "data"
         \/ pc' = pc + 1 /\ Ins.type \notin {"org", "end"} /\ asm'.arg = 1 /\ asm'.a = 0
  PROVE  StateInv'
<1>0. Pass2Inv
  BY InPass2Facts
<1>1. /\ asm'.labels = asm.labels /\ asm'.arch = asm.arch /\ asm'.inss = asm.inss
      /\ asm'.lorg = asm.lorg /\ asm'.ats = asm.ats
  BY DEF AfterItem, Buffer, Same, Fields
<1>2. Going(asm')
  <2>1. Going(asm)
    BY <1>0 DEF Pass2Inv
  <2> QED
    BY <2>1 DEF AfterItem, Buffer, Same, Fields, Going
<1>3. BufInv(asm')
  BY <1>1, InPass2Facts DEF BufInv
<1>4. AsmInv(asm')
  BY <1>1, <1>3, InPass2Facts DEF AsmInv
<1>5. Ended(asm'.inss)
  BY <1>0, <1>1 DEF Pass2Inv
<1>6. LastOrg(asm.inss, asm.lorg, pc)
  BY <1>0 DEF Pass2Inv
<1>7. pc' \in DOMAIN asm.inss /\ LastOrg(asm.inss, asm.lorg, pc')
      /\ (Ins'.type # "data" => asm'.arg = 1 /\ asm'.a = 0)
  <2>1. CASE pc' = pc /\ Ins.type = "data"
    <3>1. Ins'.type = "data"
      BY <2>1, <1>1 DEF Ins
    <3> QED
      BY <2>1, <1>6, <3>1, InPass2Facts
  <2>2. CASE pc' = pc + 1 /\ Ins.type \notin {"org", "end"} /\ asm'.arg = 1 /\ asm'.a = 0
    <3>1. pc # Len(asm.inss)
      BY <2>2, <1>0 DEF Pass2Inv, Ended, Ins
    <3>2. asm.inss[pc].type # "org"
      BY <2>2 DEF Ins
    <3>3. pc \in 1..Len(asm.inss) /\ Len(asm.inss) \in Nat /\ DOMAIN asm.inss = 1..Len(asm.inss)
      BY InPass2Facts
    <3>4. pc' \in DOMAIN asm.inss
      BY <2>2, <3>1, <3>3
    <3>5. LastOrg(asm.inss, asm.lorg, pc')
      BY <2>2, <1>6, <3>2, <3>3 DEF LastOrg
    <3> QED
      BY <2>2, <3>4, <3>5
  <2> QED
    BY <2>1, <2>2
<1>8. Pass2Inv'
  BY <1>1, <1>2, <1>4, <1>5, <1>7 DEF Pass2Inv
<1>9. /\ UNCHANGED <<prog, line, hexVars, readVars, disVars>>
  BY DEF InPass2
<1>10. NothingRead' /\ list' = list /\ prog' = prog /\ line' = line
  BY <1>9, InPass2Facts DEF NothingRead, hexVars, readVars, disVars
<1> QED
  BY <1>1, <1>8, <1>10, InPass2Facts DEF StateInv

\* It keeps the state in order.
LEMMA StatePassItem ==
  ASSUME StateInv, PassIns \/ PassData
  PROVE  StateInv'
<1>0. phase = "pass2" /\ InPass2 /\ Ins.type \in {"ins", "data"}
  BY DEF PassIns, PassData, InPass2
<1>1. CASE phase' = "error"
  BY <1>1 DEF StateInv, Dead
<1>2. CASE phase' # "error"
  <2>1. PICK a, n : Item(a, n)
    BY <1>2, ItemIns, ItemData
  <2>2. /\ Shape(asm') /\ Same(asm, asm', AfterItem) /\ IsSeq(asm'.outbuf)
        /\ asm'.arg = 1 /\ asm'.a = 0 /\ asm'.strargs = asm.strargs
        /\ asm'.bufp = asm.bufp + n /\ asm'.address = asm.address + n \div Align
        /\ pc' = pc + 1
        /\ phase' = IF colcheck(map, mapitem.end, asm'.address) THEN "error" ELSE phase
    BY <1>0, <2>1, ItemStep
  <2>3. n \in Nat
    BY <2>1 DEF Item
  <2>4. asm'.bufp \in Nat /\ asm'.address \in Int
    <3>1. asm.bufp \in Nat /\ asm.address \in Int
      BY <1>0, InPass2Facts
    <3> QED
      BY <2>2, <2>3, <3>1 DEF Align
  <2>5. asm'.llbl = asm.llbl /\ Same(asm, asm', AfterItem \cup {"llbl"})
    BY <2>2 DEF Same, AfterItem, Buffer, Fields
  <2>6. asm.strargs \in Seq(Seq(Bytes)) /\ asm.llbl \in Nat
    BY <1>0, InPass2Facts DEF AsmInv
  <2>7. phase' = "pass2"
    BY <1>0, <1>2, <2>2
  <2> QED
    BY <1>0, <2>2, <2>4, <2>5, <2>6, <2>7, Pass2Kept
<1> QED
  BY <1>1, <1>2

\* An argument of a data directive that goes on.
ArgStep(a, b, size) ==
  /\ Same(a, b, Buffer) /\ Extends(a, b) /\ b.arg = a.arg + 1 /\ b.a \in Nat
  /\ \/ a.strargs # <<>> /\ b.strargs = Tail(a.strargs)
        /\ b.a = RoundUp(a.a + Len(a.strargs[1]), size)
     \/ b.strargs = a.strargs /\ b.a = a.a + size

\* An argument of data moves on in its item.
LEMMA ArgEffect ==
  ASSUME StateInv, PassArg
  PROVE  /\ phase' \in Dead \/ (phase' = "pass2" /\ ArgStep(asm, asm', Ins.size))
         /\ phase = "pass2" /\ DataEntry(Ins) /\ asm.arg <= Len(Ins.args) /\ UNCHANGED pass2Vars
<1>0. /\ phase = "pass2" /\ Ins.type = "data" /\ asm.arg <= Len(Ins.args) /\ UNCHANGED pass2Vars
  BY DEF PassArg, InPass2
<1>1. DataEntry(Ins)
  BY <1>0, InPass2Facts DEF IsEntry, OrgEntry, LblEntry, InsEntry
<1>2. PICK unknown \in {0, 1} : asm' = DataArg(asm, Ins.args[asm.arg], Ins.size, unknown)
  BY DEF PassArg
<1>3. phase' = IF Going(asm') THEN "pass2" ELSE asm'.out
  BY <1>0 DEF PassArg, Going
<1>4. CASE Stopped(asm')
  <2>1. ~Going(asm')
    BY <1>4, GoingOn
  <2> QED
    BY <1>0, <1>1, <1>3, <1>4, <2>1 DEF Stopped, Dead
<1>5. CASE ~Stopped(asm')
  <2>1. Ins.size \in {1, 2, 4}
    BY <1>1 DEF DataEntry
  <2> DEFINE arg == Ins.args[asm.arg]
             size == Ins.size
  <2>2. size \in {1, 2, 4} /\ asm' = DataArg(asm, arg, size, unknown)
    BY <1>2, <2>1
  <2>3. Shape(asm) /\ AsmInv(asm)
    BY <1>0, InPass2Facts
  <2> HIDE DEF arg, size
  <2>4. ArgStep(asm, asm', size)
    BY <1>5, <2>2, <2>3, DataArgFacts DEF ArgStep
  <2>5. Going(asm')
    <3>1. Going(asm)
      BY <1>0, InPass2Facts DEF Pass2Inv
    <3> QED
      BY <2>4, <3>1 DEF ArgStep, Same, Buffer, Fields, Going
  <2> QED
    BY <1>0, <1>1, <1>3, <2>4, <2>5 DEF size
<1> QED
  BY <1>4, <1>5

\* It keeps the state in order.
LEMMA StatePassArg ==
  ASSUME StateInv, PassArg
  PROVE  StateInv'
<1>0. /\ phase' \in Dead \/ (phase' = "pass2" /\ ArgStep(asm, asm', Ins.size))
      /\ phase = "pass2" /\ DataEntry(Ins) /\ UNCHANGED pass2Vars
  BY ArgEffect
<1>1. CASE phase' \in Dead
  BY <1>1 DEF StateInv
<1>2. CASE phase' = "pass2" /\ ArgStep(asm, asm', Ins.size)
  <2>1. /\ Same(asm, asm', Buffer) /\ Extends(asm, asm') /\ asm'.arg = asm.arg + 1 /\ asm'.a \in Nat
        /\ \/ asm.strargs # <<>> /\ asm'.strargs = Tail(asm.strargs)
           \/ asm'.strargs = asm.strargs
    BY <1>2 DEF ArgStep
  <2>2. asm'.strargs \in Seq(Seq(Bytes))
    <3>1. asm.strargs \in Seq(Seq(Bytes))
      BY <1>0, InPass2Facts DEF AsmInv
    <3> QED
      BY <2>1, <3>1, HeadTailProperties
  <2>3. asm'.bufp = asm.bufp /\ asm'.address = asm.address /\ asm'.llbl = asm.llbl
        /\ Same(asm, asm', AfterItem \cup {"llbl"})
    BY <2>1 DEF Same, Buffer, AfterItem, Fields
  <2>4. asm.llbl \in Nat /\ asm.arg \in Nat \ {0} /\ asm.bufp \in Nat /\ asm.address \in Int
    BY <1>0, InPass2Facts DEF AsmInv
  <2>5. asm'.arg \in Nat \ {0}
    BY <2>1, <2>4
  <2>6. InPass2 /\ pc' = pc /\ Ins.type = "data"
    BY <1>0 DEF PassArg, pass2Vars, DataEntry
  <2> QED
    BY <1>0, <1>2, <2>1, <2>2, <2>3, <2>4, <2>5, <2>6, Pass2Kept DEF Extends
<1> QED
  BY <1>0, <1>1, <1>2

\* A label changes nothing but whose locals are in scope.
LEMMA StatePassLabel ==
  ASSUME StateInv, PassLabel
  PROVE  StateInv' /\ Same(asm, asm', {"llbl"}) /\ Shape(asm')
<1>0. /\ phase = "pass2" /\ InPass2 /\ Ins.type \in {"lbl", "ctx", "ctx_end"}
      /\ asm' = IF Ins.type = "lbl" THEN [asm EXCEPT !.llbl = Ins.lbl] ELSE asm
      /\ pc' = pc + 1 /\ phase' = "pass2"
  BY DEF PassLabel, InPass2
<1>1. /\ Shape(asm') /\ Same(asm, asm', {"llbl"})
      /\ asm'.llbl = IF Ins.type = "lbl" THEN Ins.lbl ELSE asm.llbl
  BY <1>0, InPass2Facts DEF Shape, Fields, Same
<1>2. asm'.llbl \in Nat
  <2>1. Ins.type = "lbl" => Ins.lbl \in 1..Len(asm.labels)
    BY <1>0, InPass2Facts DEF IsEntry, OrgEntry, LblEntry, DataEntry, InsEntry
  <2>2. Len(asm.labels) \in Nat /\ asm.llbl \in Nat
    BY <1>0, InPass2Facts, SeqShape DEF AsmInv
  <2> QED
    BY <1>1, <2>1, <2>2
<1>3. Pass2Inv /\ AsmInv(asm) /\ IsSeq(asm.outbuf)
  BY <1>0, InPass2Facts
<1>4. /\ Same(asm, asm', AfterItem \cup {"llbl"}) /\ asm'.outbuf = asm.outbuf /\ asm'.bufp = asm.bufp
      /\ asm'.address = asm.address /\ asm'.arg = asm.arg /\ asm'.a = asm.a
      /\ asm'.strargs = asm.strargs
  BY <1>1 DEF Same, AfterItem, Fields
<1>5. asm.arg = 1 /\ asm.a = 0
  BY <1>0, <1>3 DEF Pass2Inv
<1>6. /\ asm.bufp \in Nat /\ asm.address \in Int /\ asm.strargs \in Seq(Seq(Bytes))
  BY <1>3 DEF AsmInv
<1> QED
  BY <1>0, <1>1, <1>2, <1>3, <1>4, <1>5, <1>6, Pass2Kept

\* The end of the second pass tells the last org where it ends.
LEMMA StateEndPass2 ==
  ASSUME StateInv, EndPass2
  PROVE  /\ StateInv' /\ Shape(asm') /\ Same(asm, asm', {"inss", "llbl"}) /\ Alike(asm.inss, asm'.inss)
         /\ \A j \in DOMAIN asm.inss : j # asm.lorg => asm'.inss[j] = asm.inss[j]
         /\ asm.lorg # 0 => /\ asm'.inss[asm.lorg].end = asm.bufp
                            /\ asm'.inss[asm.lorg].start = asm.inss[asm.lorg].start
         /\ pc = Len(asm.inss)
<1>0. /\ phase = "pass2" /\ InPass2 /\ Ins.type = "end" /\ phase' = "write" /\ pc' = 1
      /\ asm' = [EndOrg(asm) EXCEPT !.llbl = 0]
  BY DEF EndPass2, InPass2
<1>1. Pass2Inv /\ AsmInv(asm) /\ BufInv(asm) /\ Shape(asm)
  BY <1>0, InPass2Facts
<1> DEFINE c == EndOrg(asm)
<1>2. asm.lorg # 0 => asm.lorg \in DOMAIN asm.inss /\ asm.inss[asm.lorg].type = "org"
  <2>1. asm.lorg \in 0..pc - 1 /\ (asm.lorg # 0 => asm.inss[asm.lorg].type = "org")
    BY <1>1 DEF Pass2Inv, LastOrg
  <2>2. pc \in 1..Len(asm.inss) /\ Len(asm.inss) \in Nat /\ DOMAIN asm.inss = 1..Len(asm.inss)
    BY <1>0, InPass2Facts
  <2> QED
    BY <2>1, <2>2
<1>3. c = EndOrg(asm) /\ asm' = [c EXCEPT !.llbl = 0]
  BY <1>0
<1> HIDE DEF c
<1>4. /\ Shape(c) /\ Same(asm, c, {"inss"}) /\ Alike(asm.inss, c.inss)
      /\ \A j \in DOMAIN asm.inss : j # asm.lorg => c.inss[j] = asm.inss[j]
      /\ asm.lorg # 0 => /\ c.inss[asm.lorg].end = asm.bufp
                         /\ c.inss[asm.lorg].start = asm.inss[asm.lorg].start
  BY <1>1, <1>2, <1>3, EndOrgFacts
<1>5. Shape(asm') /\ Same(c, asm', {"llbl"}) /\ asm'.inss = c.inss
  BY <1>3, <1>4 DEF Shape, Fields, Same
<1>6. Same(asm, asm', {"inss", "llbl"})
  BY <1>4, <1>5 DEF Same
<1>7. asm'.labels = asm.labels /\ asm'.outbuf = asm.outbuf /\ asm'.arch = asm.arch
  BY <1>6 DEF Same, Fields
<1>8. BufInv(asm') /\ Ended(asm'.inss)
  <2>1. Ended(asm.inss) /\ IsSeq(asm.outbuf)
    BY <1>1 DEF Pass2Inv, BufInv
  <2> QED
    BY <1>1, <1>4, <1>5, <1>7, <2>1, AlikeInv
<1>9. pc' \in DOMAIN asm'.inss
  <2>1. DOMAIN asm'.inss = 1..Len(asm.inss) /\ Len(asm.inss) \in Nat
    BY <1>0, <1>4, <1>5, InPass2Facts DEF Alike
  <2> QED
    BY <1>0, <1>1, <2>1 DEF BufInv
<1>10. pc = Len(asm.inss)
  <2>1. \A k \in 1..Len(asm.inss) - 1 : asm.inss[k].type # "end"
    BY <1>1 DEF Pass2Inv, Ended
  <2>2. pc \in 1..Len(asm.inss) /\ Len(asm.inss) \in Nat
    BY <1>0, InPass2Facts
  <2> QED
    BY <1>0, <2>1, <2>2 DEF Ins
<1>11. /\ UNCHANGED <<prog, line, hexVars, readVars, disVars>>
  BY <1>0 DEF InPass2
<1>12. list' = list /\ prog' = prog /\ line' = line
  BY <1>11 DEF disVars
<1>13. StateInv'
  BY <1>0, <1>5, <1>7, <1>8, <1>9, <1>12, InPass2Facts DEF StateInv
<1> QED
  BY <1>4, <1>5, <1>6, <1>10, <1>13

-----------------------------------------------------------------------------
(* The hex file and the listing.                                           *)

\* What is known while the hex file is written.
LEMMA InWriteFacts ==
  ASSUME StateInv, phase \in {"write", "line"}
  PROVE  /\ Shape(asm) /\ asm.arch \in DOMAIN Arch /\ BufInv(asm) /\ pc \in DOMAIN asm.inss
         /\ Ended(asm.inss) /\ WellFormed(prog.lines) /\ WellFormed(list) /\ line \in Nat \ {0}
         /\ list = <<>> /\ IsSeq(asm.inss) /\ IsSeq(asm.outbuf) /\ Len(asm.outbuf) \in Nat
         /\ DOMAIN asm.inss = 1..Len(asm.inss) /\ Len(asm.inss) \in Nat /\ pc \in Nat \ {0}
         /\ IsEntry(Ins, Len(asm.labels))
<1>1. /\ Shape(asm) /\ asm.arch \in DOMAIN Arch /\ BufInv(asm) /\ pc \in DOMAIN asm.inss
      /\ Ended(asm.inss) /\ WellFormed(prog.lines) /\ WellFormed(list) /\ line \in Nat \ {0}
      /\ list = <<>>
  BY DEF StateInv, Dead
<1>2. IsSeq(asm.inss) /\ IsSeq(asm.outbuf) /\ IsEntry(Ins, Len(asm.labels))
  BY <1>1 DEF BufInv, Ins
<1> QED
  BY <1>1, <1>2, SeqShape

\* What keeps the state in order then.
LEMMA WriteKept ==
  ASSUME StateInv, phase \in {"write", "line"}, phase' \in {"write", "line"}, InWrite,
         Shape(asm'), Same(asm, asm', {"address"}),
         pc' = pc \/ (pc' = pc + 1 /\ Ins.type # "end"),
         phase' = "line" => pc' = pc /\ Ins.type = "org"
  PROVE  StateInv'
<1>1. asm'.labels = asm.labels /\ asm'.outbuf = asm.outbuf /\ asm'.arch = asm.arch /\ asm'.inss = asm.inss
  BY DEF Same, Fields
<1>2. BufInv(asm') /\ Ended(asm'.inss)
  BY <1>1, InWriteFacts DEF BufInv
<1>3. pc' \in DOMAIN asm'.inss
  <2>1. pc = Len(asm.inss) => Ins.type = "end"
    BY InWriteFacts DEF Ended, Ins
  <2>2. pc \in 1..Len(asm.inss) /\ Len(asm.inss) \in Nat /\ DOMAIN asm'.inss = 1..Len(asm.inss)
    BY <1>1, InWriteFacts
  <2> QED
    BY <2>1, <2>2
<1>4. list' = list /\ prog' = prog /\ line' = line
  BY DEF InWrite, disVars
<1>5. phase' = "line" => Ins'.type = "org"
  BY <1>1 DEF Ins
<1> QED
  BY <1>1, <1>2, <1>3, <1>4, <1>5, InWriteFacts DEF StateInv

\* A line of the hex file keeps it.
LEMMA StateWrite ==
  ASSUME StateInv, WriteOrg \/ WriteLine \/ WriteNext
  PROVE  StateInv'
<1>0. /\ phase \in {"write", "line"} /\ phase' \in {"write", "line"} /\ InWrite
      /\ pc' = pc \/ (pc' = pc + 1 /\ Ins.type # "end")
      /\ phase' = "line" => pc' = pc /\ Ins.type = "org"
  <2>0. phase = "line" => Ins.type = "org"
    BY DEF StateInv, Dead
  <2>1. CASE WriteOrg
    BY <2>1 DEF WriteOrg
  <2>2. CASE WriteLine
    BY <2>0, <2>2 DEF WriteLine
  <2>3. CASE WriteNext
    BY <2>0, <2>3 DEF WriteNext
  <2> QED
    BY <2>1, <2>2, <2>3
<1>1. asm' = asm \/ \E n : asm' = [asm EXCEPT !.address = n]
  BY DEF WriteOrg, WriteLine, WriteNext, endln
<1>2. Shape(asm') /\ Same(asm, asm', {"address"})
  BY <1>0, <1>1, InWriteFacts DEF Shape, Fields, Same
<1> QED
  BY <1>0, <1>2, WriteKept

\* Reading the file keeps it.
LEMMA StateRead ==
  ASSUME StateInv, WriteEnd \/ Read
  PROVE  StateInv'
<1>0. /\ phase \in {"write", "read"} /\ phase' \in {"read", "dis"}
      /\ UNCHANGED <<prog, line, asm, list>>
  <2>1. CASE WriteEnd
    BY <2>1 DEF WriteEnd, InWrite, disVars
  <2>2. CASE Read
    BY <2>2 DEF Read, disVars
  <2> QED
    BY <2>1, <2>2
<1>1. /\ WellFormed(prog.lines) /\ WellFormed(list) /\ line \in Nat \ {0}
      /\ Shape(asm) /\ asm.arch \in DOMAIN Arch /\ list = <<>>
  BY <1>0 DEF StateInv, Dead
<1> QED
  BY <1>0, <1>1 DEF StateInv

\* The listing is a program, line by line.
LEMMA ListGrows ==
  ASSUME NEW s, WellFormed(s), NEW t, WellFormed(t)
  PROVE  WellFormed(s \o t)
<1> DEFINE u == s \o t
<1>1. IsSeq(s) /\ IsSeq(t) /\ u = s \o t
  BY DEF WellFormed
<1> HIDE DEF u
<1>2. Joins(s, t, u)
  BY <1>1, Joined
<1> SUFFICES ASSUME NEW i \in DOMAIN u
             PROVE  /\ u[i].lbl = <<>> \/ u[i].lbl[1] \in Nat
                    /\ u[i].op \in DOMAIN Sizes =>
                         /\ IsSeq(u[i].args)
                         /\ \A j \in DOMAIN u[i].args :
                              u[i].args[j][1] = "str" => u[i].args[j][2] \in Seq(Bytes)
  BY <1>1, <1>2 DEF WellFormed, Joins
<1>3. CASE i \in 1..Len(s)
  <2>1. u[i] = s[i] /\ i \in DOMAIN s
    BY <1>2, <1>3 DEF Joins
  <2> QED
    BY <2>1 DEF WellFormed
<1>4. CASE i \notin 1..Len(s)
  <2>1. i - Len(s) \in 1..Len(t) /\ i = Len(s) + (i - Len(s))
    BY <1>2, <1>4 DEF Joins
  <2>2. u[i] = t[i - Len(s)] /\ i - Len(s) \in DOMAIN t
    BY <1>2, <2>1 DEF Joins
  <2> QED
    BY <2>2 DEF WellFormed
<1> QED
  BY <1>3, <1>4

LEMMA LineWellFormed ==
  ASSUME NEW op, NEW args,
         op \in DOMAIN Sizes => IsSeq(args) /\ \A j \in DOMAIN args : args[j][1] # "str"
  PROVE  WellFormed(<<Line(op, args)>>)
<1> DEFINE l == Line(op, args)
<1>1. l.lbl = <<>> /\ l.op = op /\ l.args = args
  BY DEF Line
<1> HIDE DEF l
<1>2. IsSeq(<<l>>) /\ DOMAIN <<l>> = 1..1 /\ <<l>>[1] = l
  BY One
<1>3. WellFormed(<<l>>)
  BY <1>1, <1>2 DEF WellFormed
<1> QED
  BY <1>3 DEF l

LEMMA StartsWellFormed == WellFormed(Starts)
<1>1. WellFormed(<<>>)
  BY EmptyList
<1>2. WellFormed(<<Line("org", <<Num(dsym[sym].addr \div Align)>>)>>)
  <2>1. "org" \notin DOMAIN Sizes
    BY DEF Sizes
  <2> QED
    BY <2>1, LineWellFormed
<1> QED
  BY <1>1, <1>2 DEF Starts

\* What is decoded is in the table.
LEMMA DecodedFacts ==
  ASSUME asm.arch \in DOMAIN Arch, Decoded # 0
  PROVE  Decoded \in DOMAIN Arch[asm.arch].ocs
<1> DEFINE ocs == Arch[asm.arch].ocs
           I == {i \in 1..Len(ocs) : Matches(ocs[i])}
<1>1. Decoded = IF I # {} THEN Min(I) ELSE 0
  BY DEF Decoded, SelectInSeq
<1>2. IsSeq(ocs)
  BY ArchAssumption
<1>3. I \in SUBSET Nat /\ I \subseteq DOMAIN ocs
  BY <1>2, SeqShape
<1> HIDE DEF I
<1> QED
  BY <1>1, <1>3, Least

\* The disassembler keeps the state in order.
LEMMA StateDis ==
  ASSUME StateInv, DisIns \/ DisData \/ DisNext
  PROVE  StateInv'
<1>0. /\ phase = "dis" /\ phase' = "dis" /\ UNCHANGED <<prog, line>>
      /\ WellFormed(prog.lines) /\ WellFormed(list) /\ line \in Nat \ {0}
      /\ Shape(asm) /\ asm.arch \in DOMAIN Arch
  <2>1. phase = "dis" /\ phase' = "dis" /\ UNCHANGED <<prog, line>>
    BY DEF DisIns, DisData, DisNext, InDis
  <2> QED
    BY <2>1 DEF StateInv, Dead
<1>1. asm' = asm \/ \E n : asm' = [asm EXCEPT !.address = n]
  BY DEF DisIns, DisData, DisNext
<1>2. Shape(asm') /\ asm'.arch = asm.arch
  BY <1>0, <1>1 DEF Shape, Fields
<1>3. WellFormed(list')
  <2>1. CASE DisIns
    <3> DEFINE row == Arch[asm.arch].ocs[Decoded]
    <3>1. PICK args : list' = list \o Starts \o <<Line(row.name, args)>>
      BY <2>1 DEF DisIns
    <3>2. Decoded # 0
      BY <2>1 DEF DisIns
    <3>3. row.name \notin Directives
      BY <1>0, <3>2, DecodedFacts, ArchAssumption
    <3>4. row.name \notin DOMAIN Sizes
      BY <3>3 DEF Directives
    <3> HIDE DEF row
    <3>5. WellFormed(<<Line(row.name, args)>>)
      BY <3>4, LineWellFormed
    <3> QED
      BY <1>0, <3>1, <3>5, StartsWellFormed, ListGrows
  <2>2. CASE DisData
    <3> DEFINE n == Num(At(1) * 256 + At(0))
    <3>1. list' = list \o Starts \o <<Line("data", <<n>>)>>
      BY <2>2 DEF DisData
    <3>2. n[1] = "expr"
      BY DEF Num
    <3> HIDE DEF n
    <3>3. IsSeq(<<n>>) /\ \A j \in DOMAIN <<n>> : <<n>>[j][1] # "str"
      BY <3>2, One
    <3>4. WellFormed(<<Line("data", <<n>>)>>)
      BY <3>3, LineWellFormed
    <3> QED
      BY <1>0, <3>1, <3>4, StartsWellFormed, ListGrows
  <2>3. CASE DisNext
    BY <1>0, <2>3 DEF DisNext
  <2> QED
    BY <2>1, <2>2, <2>3
<1> QED
  BY <1>0, <1>2, <1>3 DEF StateInv

\* The assembler starts anew on the listing.
LEMMA StateAgain ==
  ASSUME StateInv, Again
  PROVE  /\ StateInv' /\ asm' = NewAsm(asm.arch) /\ FirstInv(asm') /\ phase' = "pass1" /\ NothingLaid'
<1>0. phase = "dis" /\ Fresh(asm.arch) /\ prog' = [arch |-> asm.arch, lines |-> list]
  BY DEF Again
<1>1. asm.arch \in DOMAIN Arch /\ WellFormed(list)
  BY <1>0 DEF StateInv, Dead
<1>2. /\ phase' = "pass1" /\ line' = 1 /\ asm' = NewAsm(asm.arch)
      /\ NothingLaid' /\ NothingRead' /\ list' = <<>>
  BY <1>0 DEF Fresh, NothingLaid, NothingRead
<1>3. FirstInv(asm') /\ WellFormed(list')
  BY <1>1, <1>2, NewAsmFacts, EmptyList
<1>4. Shape(asm') /\ asm'.arch \in DOMAIN Arch
  BY <1>3 DEF FirstInv
<1>5. WellFormed(prog'.lines)
  BY <1>0, <1>1
<1> QED
  BY <1>2, <1>3, <1>4, <1>5 DEF StateInv

\* Every step keeps the state in order; a stopped program takes none.
LEMMA StateStep ==
  ASSUME StateInv, [Next]_vars
  PROVE  StateInv'
<1>1. CASE UNCHANGED vars
  <2>1. /\ phase' = phase /\ prog' = prog /\ line' = line /\ asm' = asm /\ list' = list /\ pc' = pc
        /\ UNCHANGED <<map, mapitem, image, clash, hex, top, wbuf, rd, dsym, inbuf>>
    BY <1>1 DEF vars, pass2Vars, hexVars, readVars, disVars
  <2>2. Pass2Inv' = Pass2Inv /\ NothingLaid' = NothingLaid /\ NothingRead' = NothingRead
    BY <2>1 DEF Pass2Inv, Ins, NothingLaid, NothingRead
  <2>3. Ins' = Ins /\ NothingLaid' = NothingLaid
    BY <2>1, <2>2 DEF Ins
  <2> QED
    BY <2>1, <2>2, <2>3 DEF StateInv
<1>2. CASE Finish
  BY <1>2 DEF Finish, StateInv, Dead
<1> QED
  BY <1>1, <1>2, StatePass1, StateEndPass1, StatePassItem, StatePassArg, StatePassOrg,
     StatePassLabel, StateEndPass2, StateWrite, StateRead, StateDis, StateAgain DEF Next

-----------------------------------------------------------------------------
(* What an item does to the image.                                         *)

ItemImage(lo, hi, out, bufp) ==
  /\ DOMAIN image' = (lo..hi) \cup DOMAIN image
  /\ \A b \in lo..hi : image'[b] = out[bufp + b - lo + 1]
  /\ \A b \in DOMAIN image : b \notin lo..hi => image'[b] = image[b]
  /\ clash' = (clash \/ (lo..hi) \intersect DOMAIN image # {})

\* An item adds its bytes to the image, at its address.
LEMMA ImageStep ==
  ASSUME StateInv, phase = "pass2", NEW a, NEW n, Item(a, n)
  PROVE  ItemImage(asm.address * Align, asm'.address * Align - 1, asm'.outbuf, asm.bufp)
<1> DEFINE end == a.address + n \div Align
           bytes == [i \in a.address * Align..end * Align - 1 |->
                       a.outbuf[a.bufp + i - a.address * Align + 1]]
           lo == asm.address * Align
           hi == asm'.address * Align - 1
<1>1. Same(asm, a, Buffer) /\ Placed(a, n)
  BY DEF Item
<1>2. a.bufp = asm.bufp /\ a.address = asm.address
  BY <1>1 DEF Same, Buffer, Fields
<1>3. asm'.outbuf = a.outbuf /\ asm'.address = end
  BY <1>2, ItemStep
<1>4. /\ image' = [i \in DOMAIN bytes \cup DOMAIN image |->
                   IF i \in DOMAIN bytes THEN bytes[i] ELSE image[i]]
      /\ clash' = (clash \/ DOMAIN bytes \intersect DOMAIN image # {})
  BY <1>1 DEF Placed
<1>5. DOMAIN bytes = lo..hi /\ \A b \in lo..hi : bytes[b] = asm'.outbuf[asm.bufp + b - lo + 1]
  BY <1>2, <1>3
<1> HIDE DEF bytes, lo, hi
<1>6. /\ DOMAIN image' = DOMAIN bytes \cup DOMAIN image
      /\ \A x \in DOMAIN bytes : image'[x] = bytes[x]
      /\ \A x \in DOMAIN image : x \notin DOMAIN bytes => image'[x] = image[x]
  BY <1>4
<1>7. ItemImage(lo, hi, asm'.outbuf, asm.bufp)
  BY <1>4, <1>5, <1>6 DEF ItemImage
<1> QED
  BY <1>7 DEF lo, hi

-----------------------------------------------------------------------------
(* Collisions.                                                             *)

Areas == [start : Int, end : Int]
InArea(b, area) == b >= area.start * Align /\ b < area.end * Align
Covered(b, area, m) == b \in Int /\ (InArea(b, area) \/ \E j \in DOMAIN m : InArea(b, m[j]))
AreasInv(m, area, D) ==
  /\ IsSeq(m) /\ \A j \in DOMAIN m : m[j] \in Areas
  /\ area \in Areas /\ area.start <= area.end
  /\ \A b \in D : Covered(b, area, m)
Empty(strs) == \A i \in DOMAIN strs : strs[i] = <<>>
CollInv ==
  phase \in {"pass1", "pass2", "write", "line"} /\ OneWord =>
    /\ ~clash
    /\ phase \in {"pass1", "pass2"} => Empty(asm.strargs)
    /\ phase = "pass2" =>
         /\ AreasInv(map, mapitem, DOMAIN image) /\ mapitem.end = asm.address
         /\ Ins.type = "data" =>
              asm.arg <= 2 /\ asm.a \in {0, Ins.size} /\ (asm.arg = 1 => asm.a = 0)

OneWords(s) == \A i \in DOMAIN s : OneWordIns(s[i])

\* That every item has one word holds for entries alike, and for fewer.
LEMMA WordsAlike ==
  ASSUME NEW s, NEW t, Alike(s, t), OneWords(t)
  PROVE  OneWords(s)
<1> SUFFICES ASSUME NEW i \in DOMAIN s  PROVE OneWordIns(s[i])
  BY DEF OneWords
<1>1. CASE s[i].type = "org"
  BY <1>1 DEF OneWordIns
<1>2. CASE s[i].type # "org"
  <2>1. t[i] = s[i] /\ i \in DOMAIN t
    BY <1>2 DEF Alike
  <2> QED
    BY <2>1 DEF OneWords
<1> QED
  BY <1>1, <1>2

LEMMA WordsBefore ==
  ASSUME NEW s, NEW t, NEW e, Adds(s, t, e), OneWords(t)
  PROVE  OneWords(s) /\ OneWordIns(e)
<1>1. /\ Len(s) \in Nat /\ DOMAIN s = 1..Len(s) /\ DOMAIN t = 1..Len(s) + 1
      /\ \A i \in 1..Len(s) : t[i] = s[i]
      /\ t[Len(s) + 1] = e
  BY DEF Adds
<1>2. Len(s) + 1 \in DOMAIN t /\ \A i \in DOMAIN s : i \in DOMAIN t
  BY <1>1
<1> QED
  BY <1>1, <1>2 DEF OneWords

\* Empty strings stay empty.
LEMMA EmptyJoins ==
  ASSUME NEW s, IsSeq(s), Empty(s), NEW t, IsSeq(t), Empty(t), NEW u, u = s \o t
  PROVE  Empty(u)
<1>1. Joins(s, t, u)
  BY Joined
<1> SUFFICES ASSUME NEW i \in DOMAIN u  PROVE u[i] = <<>>
  BY DEF Empty
<1>2. CASE i \in 1..Len(s)
  BY <1>1, <1>2 DEF Joins, Empty
<1>3. CASE i \notin 1..Len(s)
  <2>1. i - Len(s) \in 1..Len(t) /\ i = Len(s) + (i - Len(s))
    BY <1>1, <1>3 DEF Joins
  <2> QED
    BY <1>1, <2>1 DEF Joins, Empty
<1> QED
  BY <1>2, <1>3

\* A line of the first pass: where each item after it is a word, each was before
\* it, and it leaves no string that has bytes.
LEMMA LineWords ==
  ASSUME NEW a, FirstInv(a), NEW op, NEW args, op \in DOMAIN Sizes => IsArgs(args),
         NEW b, b = insfind(a, op, args), ~Stopped(b), OneWords(b.inss)
  PROVE  OneWords(a.inss) /\ (Empty(a.strargs) => Empty(b.strargs))
<1>1. a.arch \in DOMAIN Arch /\ Shape(a) /\ AsmInv(a) /\ a.strargs \in Seq(Seq(Bytes))
  BY DEF FirstInv, AsmInv
<1>2. CASE b = a
  BY <1>2
<1>3. CASE NewArch(a, b) \/ NewEqu(a, b)
  <2>1. b.inss = a.inss /\ b.strargs = a.strargs
    BY <1>3 DEF NewArch, NewEqu, Same, Fields
  <2> QED
    BY <2>1
<1>4. CASE NewOrg(a, b) \/ NewCtx(a, b) \/ NewIns(a, b)
  <2>1. \E e : NextIns(a, b, e)
    BY <1>4 DEF NewOrg, NewCtx, NewIns
  <2>2. b.strargs = a.strargs
    BY <1>4 DEF NewOrg, NewCtx, NewIns, Same, Fields
  <2> QED
    BY <2>1, <2>2, WordsBefore DEF NextIns
<1>5. CASE op \in DOMAIN Sizes /\ NewData(a, b, Sizes[op], args)
  <2> DEFINE size == Sizes[op]
             d == CountArgs(args, size)
             data == [type |-> "data", args |-> args, size |-> size]
  <2>1. size \in {1, 2, 4} /\ IsArgs(args)
    BY <1>5 DEF Sizes, Align
  <2> HIDE DEF size
  <2>2. /\ b.strargs = a.strargs \o d.strs
        /\ (d.n = 0 /\ b.inss = a.inss) \/ (d.n # 0 /\ NextIns(a, b, data))
    BY <1>5 DEF NewData, size
  <2>3. d \in Counted /\ ((\A j \in DOMAIN args : args[j][1] # "str") => d.strs = <<>>)
    BY <2>1, CountArgsFacts
  <2> HIDE DEF d
  <2>4. IsSeq(d.strs) /\ IsSeq(a.strargs)
    <3>1. d.strs \in Seq(Seq(Bytes))
      BY <2>3 DEF Counted
    <3> QED
      BY <1>1, <3>1, SeqIs
  <2>5. CASE d.n = 0 /\ b.inss = a.inss
    <3>1. Empty(d.strs)
      BY <2>3, <2>5 DEF Counted, Empty
    <3> QED
      BY <2>2, <2>4, <2>5, <3>1, EmptyJoins
  <2>6. CASE NextIns(a, b, data)
    <3>1. OneWords(a.inss) /\ OneWordIns(data)
      BY <2>6, WordsBefore DEF NextIns
    <3>2. Len(args) = 1 /\ args[1][1] # "str"
      BY <3>1 DEF OneWordIns
    <3>3. DOMAIN args = 1..1
      BY <2>1, <3>2, SeqShape DEF IsArgs
    <3>4. d.strs = <<>>
      BY <2>3, <3>2, <3>3
    <3>5. Empty(d.strs)
      BY <3>4 DEF Empty
    <3> QED
      BY <2>2, <2>4, <3>1, <3>5, EmptyJoins
  <2> QED
    BY <2>2, <2>5, <2>6
<1> QED
  BY <1>1, <1>2, <1>3, <1>4, <1>5, InsfindEffect

\* The first pass lays nothing down.
LEMMA CollPass1 ==
  ASSUME StateInv, CollInv, Pass1
  PROVE  CollInv'
<1>0. phase = "pass1" /\ NothingLaid /\ FirstInv(asm) /\ UNCHANGED pass2Vars
  BY DEF StateInv, Pass1, Dead
<1>1. CASE phase' \in Dead
  BY <1>1 DEF CollInv, Dead
<1>2. CASE phase' = phase /\ \E c : Lined(asm, c, asm', prog.lines[line])
  <2> DEFINE l == prog.lines[line]
  <2>1. PICK c : Lined(asm, c, asm', l)
    BY <1>2
  <2> HIDE DEF l
  <2>2. /\ FirstInv(c) /\ (c = asm \/ NewLabel(asm, c, l.lbl))
        /\ asm' = insfind(c, l.op, l.args) /\ FirstInv(asm')
        /\ l.op \in DOMAIN Sizes => IsArgs(l.args)
    BY <2>1 DEF Lined
  <2>3. SUFFICES ASSUME OneWords(asm'.inss)
                 PROVE  ~clash' /\ Empty(asm'.strargs)
    BY <1>0, <1>2 DEF CollInv, OneWord, OneWords
  <2>4. ~Stopped(asm')
    BY <2>2, GoingOn DEF FirstInv
  <2>5. OneWords(c.inss) /\ (Empty(c.strargs) => Empty(asm'.strargs))
    BY <2>2, <2>3, <2>4, LineWords
  <2>6. OneWords(asm.inss) /\ c.strargs = asm.strargs
    <3>1. CASE c = asm
      BY <2>5, <3>1
    <3>2. CASE NewLabel(asm, c, l.lbl)
      <4>1. \E e : NextIns(asm, c, e)
        BY <3>2 DEF NewLabel
      <4>2. c.strargs = asm.strargs
        BY <3>2 DEF NewLabel, Same, Fields
      <4> QED
        BY <4>1, <4>2, <2>5, WordsBefore DEF NextIns
    <3> QED
      BY <2>2, <3>1, <3>2
  <2>7. ~clash /\ Empty(asm.strargs)
    BY <1>0, <2>6 DEF CollInv, OneWord, OneWords
  <2>8. clash' = clash
    BY <1>0 DEF pass2Vars
  <2> QED
    BY <2>5, <2>6, <2>7, <2>8
<1> QED
  BY <1>1, <1>2, LineEffect

LEMMA CollEndPass1 ==
  ASSUME StateInv, CollInv, EndPass1
  PROVE  CollInv'
<1>0. /\ phase' \in {"pass2", "error"} /\ NothingLaid /\ FirstInv(asm)
      /\ Same(asm, asm', {"inss", "ats", "address"})
      /\ NextIns(asm, asm', [type |-> "end"]) /\ asm'.address = 0 /\ UNCHANGED pass2Vars
  BY EndPass1Effect
<1>1. SUFFICES ASSUME OneWords(asm'.inss)
               PROVE  /\ ~clash' /\ Empty(asm'.strargs)
                      /\ AreasInv(map', mapitem', DOMAIN image') /\ mapitem'.end = asm'.address
                      /\ asm'.arg = 1 /\ asm'.a = 0
  BY <1>0 DEF CollInv, OneWord, OneWords
<1>2. OneWords(asm.inss)
  BY <1>0, <1>1, WordsBefore DEF NextIns
<1>3. phase = "pass1"
  BY DEF EndPass1
<1>4. ~clash /\ Empty(asm.strargs)
  BY <1>2, <1>3 DEF CollInv, OneWord, OneWords
<1>5. asm'.strargs = asm.strargs /\ asm'.arg = 1 /\ asm'.a = 0
  BY <1>0 DEF Same, Fields, FirstInv, Start
<1>6. /\ clash' = clash /\ map' = <<>> /\ image' = <<>> /\ mapitem' = [start |-> 0, end |-> 0]
  BY <1>0 DEF pass2Vars, NothingLaid
<1>7. AreasInv(map', mapitem', DOMAIN image')
  <2>1. IsSeq(<<>>) /\ DOMAIN <<>> = {}
    BY None
  <2> QED
    BY <1>6, <2>1 DEF AreasInv, Areas
<1> QED
  BY <1>0, <1>4, <1>5, <1>6, <1>7

\* A word that collides with no area before is none of them, and not in this one.
LEMMA WordApart ==
  ASSUME NEW m, NEW area, NEW D, AreasInv(m, area, D), NEW end, end = area.end \/ end = area.end + 1,
         ~colcheck(m, area.end, end)
  PROVE  /\ (area.end * Align..end * Align - 1) \intersect D = {}
         /\ AreasInv(m, [area EXCEPT !.end = end], (area.end * Align..end * Align - 1) \cup D)
<1> DEFINE new == [area EXCEPT !.end = end]
           N == area.end * Align..end * Align - 1
<1>1. /\ area \in Areas /\ area.start <= area.end /\ area.start \in Int /\ area.end \in Int
      /\ IsSeq(m) /\ \A j \in DOMAIN m : m[j] \in Areas
      /\ \A b \in D : Covered(b, area, m)
  BY DEF AreasInv, Areas
<1>2. /\ new \in Areas /\ new.start = area.start /\ new.end = end /\ end >= area.end /\ end \in Int
  BY <1>1 DEF Areas
<1> HIDE DEF new
<1>3. ASSUME NEW b \in N  PROVE b \in Int /\ InArea(b, new) /\ b >= area.end * 2 /\ b <= area.end * 2 + 1
  BY <1>1, <1>2 DEF InArea, Align
<1>4. ASSUME NEW b \in D  PROVE b \notin N /\ Covered(b, new, m)
  <2>1. Covered(b, area, m)
    BY <1>1
  <2>2. b \in Int
    BY <2>1 DEF Covered
  <2>3. CASE InArea(b, area)
    <3>1. b >= area.start * 2 /\ b < area.end * 2
      BY <2>3 DEF InArea, Align
    <3>2. b < end * 2
      BY <1>1, <1>2, <2>2, <3>1
    <3> QED
      BY <1>1, <1>2, <2>2, <3>1, <3>2 DEF Covered, InArea, Align
  <2>4. ASSUME NEW j \in DOMAIN m, InArea(b, m[j])  PROVE b \notin N
    <3>1. m[j].start \in Int /\ m[j].end \in Int
      BY <1>1 DEF Areas
    <3>2. b >= m[j].start * 2 /\ b < m[j].end * 2
      BY <2>4 DEF InArea, Align
    <3>3. ASSUME b \in N  PROVE FALSE
      <4>1. b >= area.end * 2 /\ b <= area.end * 2 + 1
        BY <1>3, <3>3
      <4>2. m[j].start <= area.end /\ m[j].end > area.end
        BY <1>1, <2>2, <3>1, <3>2, <4>1
      <4>3. m[j].start # m[j].end
        BY <3>1, <4>2, <1>1
      <4> QED
        BY <4>2, <4>3 DEF colcheck
    <3> QED
      BY <3>3
  <2> QED
    BY <2>1, <2>3, <2>4 DEF Covered
<1>5. \A b \in N \cup D : Covered(b, new, m)
  BY <1>3, <1>4 DEF Covered
<1>6. AreasInv(m, new, N \cup D)
  BY <1>1, <1>2, <1>5 DEF AreasInv
<1> QED
  BY <1>4, <1>6 DEF new

\* The area before an org is with the others from then on.
LEMMA AreaDone ==
  ASSUME NEW m, NEW area, NEW D, AreasInv(m, area, D), NEW new \in Areas, new.start <= new.end,
         NEW t, t = Append(m, area)
  PROVE  AreasInv(t, new, D)
<1>1. /\ area \in Areas /\ IsSeq(m) /\ \A j \in DOMAIN m : m[j] \in Areas
      /\ \A b \in D : Covered(b, area, m)
  BY DEF AreasInv
<1>2. Adds(m, t, area)
  BY <1>1, Appended
<1>3. /\ IsSeq(t) /\ DOMAIN m = 1..Len(m) /\ DOMAIN t = 1..Len(m) + 1 /\ Len(m) \in Nat
      /\ \A i \in 1..Len(m) : t[i] = m[i]
      /\ t[Len(m) + 1] = area
  BY <1>2 DEF Adds
<1>4. \A j \in DOMAIN t : t[j] \in Areas
  BY <1>1, <1>3
<1>5. ASSUME NEW b \in D  PROVE Covered(b, new, t)
  <2>1. Covered(b, area, m)
    BY <1>1
  <2>2. Len(m) + 1 \in DOMAIN t /\ \A j \in DOMAIN m : j \in DOMAIN t
    BY <1>3
  <2> QED
    BY <1>3, <2>1, <2>2 DEF Covered
<1> QED
  BY <1>3, <1>4, <1>5 DEF AreasInv

\* What is known in the second pass of a program whose items have one word.
LEMMA CollPass2Facts ==
  ASSUME CollInv, phase = "pass2", OneWords(asm.inss)
  PROVE  /\ ~clash /\ Empty(asm.strargs) /\ AreasInv(map, mapitem, DOMAIN image)
         /\ mapitem.end = asm.address /\ mapitem.end \in Int
         /\ Ins.type = "data" =>
              asm.arg <= 2 /\ asm.a \in {0, Ins.size} /\ (asm.arg = 1 => asm.a = 0)
BY DEF CollInv, OneWord, OneWords, AreasInv, Areas

\* An item of a word.
LEMMA ItemWord ==
  ASSUME StateInv, CollInv, phase = "pass2", OneWords(asm.inss), NEW a, NEW n, Item(a, n)
  PROVE  n \in {0, 2}
<1>1. pc \in DOMAIN asm.inss /\ IsEntry(Ins, Len(asm.labels))
  BY InPass2Facts
<1>2. OneWordIns(Ins)
  BY <1>1 DEF OneWords, Ins
<1>3. CASE Ins.type = "ins" /\ n = Len(Arch[Ins.arch].ocs[Ins.row].oc)
  BY <1>2, <1>3 DEF OneWordIns
<1>4. CASE Ins.type = "data" /\ asm.arg > Len(Ins.args) /\ n = RoundUp(asm.a, Align)
  <2>1. DataEntry(Ins)
    BY <1>1, <1>4 DEF IsEntry, OrgEntry, LblEntry, InsEntry
  <2>2. Ins.size \in {1, 2}
    BY <1>2, <1>4, <2>1 DEF OneWordIns, DataEntry
  <2>3. asm.a \in {0, 1, 2}
    BY <1>4, <2>2, CollPass2Facts
  <2>4. asm.a \in {0, 1, 2} => RoundUp(asm.a, 2) \in {0, 2}
    BY DEF RoundUp
  <2> QED
    BY <1>4, <2>3, <2>4 DEF Align
<1> QED
  BY <1>3, <1>4 DEF Item

\* An item that collides ends the run; the others add their word to the area.
LEMMA CollPassItem ==
  ASSUME StateInv, CollInv, PassIns \/ PassData
  PROVE  CollInv'
<1>0. phase = "pass2"
  BY DEF PassIns, PassData, InPass2
<1>1. CASE phase' = "error"
  BY <1>1 DEF CollInv
<1>2. CASE phase' # "error"
  <2>1. PICK a, n : Item(a, n)
    BY <1>2, ItemIns, ItemData
  <2>2. /\ Same(asm, asm', AfterItem) /\ asm'.arg = 1 /\ asm'.a = 0 /\ asm'.strargs = asm.strargs
        /\ asm'.address = asm.address + n \div Align
        /\ UNCHANGED map
        /\ mapitem' = [mapitem EXCEPT !.end = asm'.address]
        /\ phase' = IF colcheck(map, mapitem.end, asm'.address) THEN "error" ELSE phase
    BY <1>0, <2>1, ItemStep
  <2>3. asm'.inss = asm.inss /\ phase' = "pass2" /\ ~colcheck(map, mapitem.end, asm'.address)
    BY <1>0, <1>2, <2>2 DEF Same, AfterItem, Buffer, Fields
  <2>4. SUFFICES ASSUME OneWords(asm.inss)
                 PROVE  /\ ~clash' /\ AreasInv(map', mapitem', DOMAIN image')
                        /\ mapitem'.end = asm'.address /\ Empty(asm'.strargs)
    <3>1. asm'.a \in {0, Ins'.size} /\ asm'.arg <= 2
      BY <2>2
    <3> QED
      BY <2>2, <2>3, <2>4, <3>1 DEF CollInv, OneWord, OneWords
  <2>5. /\ ~clash /\ Empty(asm.strargs) /\ AreasInv(map, mapitem, DOMAIN image)
        /\ mapitem.end = asm.address /\ mapitem.end \in Int /\ mapitem \in Areas
    BY <1>0, <2>4, CollPass2Facts DEF AreasInv
  <2>6. asm'.address = mapitem.end \/ asm'.address = mapitem.end + 1
    <3>1. n \in {0, 2}
      BY <1>0, <2>1, <2>4, ItemWord
    <3>2. n \div Align \in {0, 1}
      BY <3>1 DEF Align
    <3> QED
      BY <2>2, <2>5, <3>2
  <2> DEFINE end == asm'.address
             N == mapitem.end * Align..end * Align - 1
             D == DOMAIN image
  <2>7. N \intersect D = {} /\ AreasInv(map, mapitem', N \cup D)
    <3> HIDE DEF end, D
    <3>1. end = mapitem.end \/ end = mapitem.end + 1
      BY <2>6 DEF end
    <3>2. AreasInv(map, mapitem, D) /\ ~colcheck(map, mapitem.end, end)
      BY <2>3, <2>5 DEF D, end
    <3>3. mapitem' = [mapitem EXCEPT !.end = end]
      BY <2>2 DEF end
    <3> QED
      BY <3>1, <3>2, <3>3, WordApart
  <2>8. DOMAIN image' = N \cup D /\ clash' = (clash \/ N \intersect D # {})
    BY <1>0, <2>1, <2>5, ImageStep DEF ItemImage
  <2>9. mapitem'.end = asm'.address
    BY <2>2, <2>5 DEF Areas
  <2> QED
    BY <2>2, <2>5, <2>7, <2>8, <2>9
<1> QED
  BY <1>1, <1>2

\* An argument adds nothing yet.
LEMMA CollPassArg ==
  ASSUME StateInv, CollInv, PassArg
  PROVE  CollInv'
<1>0. /\ phase' \in Dead \/ (phase' = "pass2" /\ ArgStep(asm, asm', Ins.size))
      /\ phase = "pass2" /\ DataEntry(Ins) /\ asm.arg <= Len(Ins.args) /\ UNCHANGED pass2Vars
  BY ArgEffect
<1>1. CASE phase' \in Dead
  BY <1>1 DEF CollInv, Dead
<1>2. CASE phase' = "pass2" /\ ArgStep(asm, asm', Ins.size)
  <2>1. /\ Same(asm, asm', Buffer) /\ asm'.arg = asm.arg + 1
        /\ \/ asm.strargs # <<>> /\ asm'.strargs = Tail(asm.strargs)
              /\ asm'.a = RoundUp(asm.a + Len(asm.strargs[1]), Ins.size)
           \/ asm'.strargs = asm.strargs /\ asm'.a = asm.a + Ins.size
    BY <1>2 DEF ArgStep
  <2>2. asm'.inss = asm.inss /\ asm'.address = asm.address
    BY <2>1 DEF Same, Buffer, Fields
  <2>3. UNCHANGED <<pc, map, mapitem, image, clash>>
    BY <1>0 DEF pass2Vars
  <2>4. Ins' = Ins
    BY <2>2, <2>3 DEF Ins
  <2>5. SUFFICES ASSUME OneWords(asm.inss)
                 PROVE  /\ Empty(asm'.strargs) /\ asm'.arg = 2 /\ asm'.a \in {0, Ins.size}
    <3>1. OneWords(asm.inss) => asm'.arg <= 2 /\ (asm'.arg = 1 => asm'.a = 0)
      BY <2>5
    <3>2. OneWords(asm.inss) => /\ ~clash' /\ AreasInv(map', mapitem', DOMAIN image')
                                /\ mapitem'.end = asm'.address
      BY <1>0, <2>2, <2>3, CollPass2Facts
    <3> QED
      BY <1>2, <2>2, <2>4, <2>5, <3>1, <3>2 DEF CollInv, OneWord, OneWords
  <2>6. pc \in DOMAIN asm.inss /\ asm.arg \in Nat \ {0} /\ asm.strargs \in Seq(Seq(Bytes))
    BY <1>0, InPass2Facts DEF AsmInv
  <2>7. Len(Ins.args) = 1 /\ Ins.size \in {1, 2}
    <3>1. OneWordIns(Ins)
      BY <2>5, <2>6 DEF OneWords, Ins
    <3> QED
      BY <1>0, <3>1 DEF OneWordIns, DataEntry
  <2>8. asm.arg = 1 /\ asm.a = 0 /\ Empty(asm.strargs)
    <3>1. asm.arg = 1
      BY <1>0, <2>6, <2>7
    <3> QED
      BY <1>0, <2>5, <3>1, CollPass2Facts DEF DataEntry
  <2>9. CASE /\ asm.strargs # <<>> /\ asm'.strargs = Tail(asm.strargs)
             /\ asm'.a = RoundUp(asm.a + Len(asm.strargs[1]), Ins.size)
    <3>1. /\ Len(asm.strargs) \in Nat /\ DOMAIN asm.strargs = 1..Len(asm.strargs)
          /\ Len(asm.strargs) > 0
      BY <2>6, <2>9, SeqIs, SeqShape, EmptySeq
    <3>2. asm.strargs[1] = <<>>
      BY <2>8, <3>1 DEF Empty
    <3>3. Len(asm.strargs[1]) = 0
      BY <3>2, None
    <3>4. RoundUp(0, 1) = 0 /\ RoundUp(0, 2) = 0
      BY DEF RoundUp
    <3>5. asm'.a = 0
      BY <2>7, <2>8, <2>9, <3>3, <3>4
    <3>6. Empty(asm'.strargs)
      <4> DEFINE s == asm.strargs
                 t == Tail(s)
      <4>1. s \in Seq(Seq(Bytes)) /\ s # <<>> /\ t = Tail(s)
        BY <2>6, <2>9
      <4> HIDE DEF s, t
      <4>2. /\ t \in Seq(Seq(Bytes)) /\ Len(t) = Len(s) - 1
            /\ \A i \in 1..Len(t) : t[i] = s[i + 1]
        BY <4>1, HeadTailProperties
      <4>3. DOMAIN t = 1..Len(t) /\ Len(t) \in Nat /\ DOMAIN s = 1..Len(s) /\ Len(s) \in Nat
        BY <4>1, <4>2, SeqIs, SeqShape
      <4>4. Empty(s)
        BY <2>8 DEF s
      <4>5. ASSUME NEW i \in DOMAIN t  PROVE t[i] = <<>>
        <5>1. i \in 1..Len(t) /\ i + 1 \in DOMAIN s
          BY <4>2, <4>3
        <5> QED
          BY <4>2, <4>4, <5>1 DEF Empty
      <4>6. Empty(t)
        BY <4>5 DEF Empty
      <4> QED
        BY <2>9, <4>6 DEF s, t
    <3> QED
      BY <2>1, <2>8, <3>5, <3>6
  <2>10. CASE asm'.strargs = asm.strargs /\ asm'.a = asm.a + Ins.size
    BY <2>1, <2>7, <2>8, <2>10
  <2> QED
    BY <2>1, <2>9, <2>10
<1> QED
  BY <1>0, <1>1, <1>2

\* An org ends an area, which is asked about no more, and starts one.
LEMMA CollPassOrg ==
  ASSUME StateInv, CollInv, PassOrg
  PROVE  CollInv'
<1>0. OrgStep(asm, asm', pc) /\ Pass2Inv /\ Pass2Inv' /\ Ins.type = "org" /\ phase = "pass2" /\ phase' = "pass2"
  <2>1. OrgStep(asm, asm', pc) /\ Pass2Inv /\ StateInv' /\ Ins.type = "org"
    BY StatePassOrg
  <2>2. phase = "pass2" /\ phase' = "pass2"
    BY DEF PassOrg, InPass2
  <2> QED
    BY <2>1, <2>2 DEF StateInv, Dead
<1>1. /\ Alike(asm.inss, asm'.inss) /\ asm'.address = Ins.address /\ asm'.strargs = asm.strargs
      /\ asm'.arg = asm.arg /\ asm'.a = asm.a
  BY <1>0 DEF OrgStep, Same, Fields, Ins
<1>2. /\ map' = Append(map, mapitem) /\ mapitem' = [start |-> Ins.address, end |-> Ins.address]
      /\ UNCHANGED <<image, clash>>
  BY DEF PassOrg
<1>3. asm'.arg = 1 /\ asm'.a = 0 /\ Ins.address \in Int
  <2>1. asm.arg = 1 /\ asm.a = 0 /\ AsmInv(asm') 
    BY <1>0 DEF Pass2Inv
  <2> QED
    BY <2>1, <1>1 DEF AsmInv
<1>4. SUFFICES ASSUME OneWords(asm'.inss)
               PROVE  /\ ~clash' /\ AreasInv(map', mapitem', DOMAIN image')
                      /\ mapitem'.end = asm'.address /\ Empty(asm'.strargs)
  BY <1>0, <1>3, <1>4 DEF CollInv, OneWord, OneWords
<1>5. OneWords(asm.inss)
  BY <1>1, <1>4, WordsAlike
<1>6. ~clash /\ Empty(asm.strargs) /\ AreasInv(map, mapitem, DOMAIN image)
  BY <1>0, <1>5, CollPass2Facts
<1>7. mapitem' \in Areas /\ mapitem'.start <= mapitem'.end /\ mapitem'.end = asm'.address
  BY <1>1, <1>2, <1>3 DEF Areas
<1>8. AreasInv(map', mapitem', DOMAIN image)
  BY <1>2, <1>6, <1>7, AreaDone
<1> QED
  BY <1>1, <1>2, <1>6, <1>7, <1>8

\* Nothing else changes the areas.
LEMMA CollPassLabel ==
  ASSUME StateInv, CollInv, PassLabel
  PROVE  CollInv'
<1>0. Same(asm, asm', {"llbl"}) /\ StateInv'
  BY StatePassLabel
<1>1. /\ phase = "pass2" /\ phase' = "pass2" /\ Ins.type # "data"
      /\ UNCHANGED <<map, mapitem, image, clash>>
  BY DEF PassLabel, InPass2
<1>2. Pass2Inv
  BY <1>1 DEF StateInv, Dead
<1>3. /\ asm'.inss = asm.inss /\ asm'.strargs = asm.strargs /\ asm'.address = asm.address
      /\ asm'.arg = 1 /\ asm'.a = 0
  BY <1>0, <1>1, <1>2 DEF Same, Fields, Pass2Inv
<1>4. OneWords(asm.inss) =>
        /\ ~clash' /\ AreasInv(map', mapitem', DOMAIN image')
        /\ mapitem'.end = asm'.address /\ Empty(asm'.strargs)
  BY <1>1, <1>3, CollPass2Facts
<1> QED
  BY <1>1, <1>3, <1>4 DEF CollInv, OneWord, OneWords

LEMMA CollEndPass2 ==
  ASSUME StateInv, CollInv, EndPass2
  PROVE  CollInv'
<1>1. Alike(asm.inss, asm'.inss)
  BY StateEndPass2
<1>2. phase = "pass2" /\ phase' = "write" /\ clash' = clash
  BY DEF EndPass2, InPass2
<1> QED
  BY <1>1, <1>2, WordsAlike, CollPass2Facts DEF CollInv, OneWord, OneWords

LEMMA CollWrite ==
  ASSUME StateInv, CollInv, WriteOrg \/ WriteLine \/ WriteNext
  PROVE  CollInv'
<1>1. /\ phase \in {"write", "line"} /\ phase' \in {"write", "line"} /\ clash' = clash
  BY DEF WriteOrg, WriteLine, WriteNext, InWrite
<1>2. asm' = asm \/ \E n : asm' = [asm EXCEPT !.address = n]
  BY DEF WriteOrg, WriteLine, WriteNext, endln
<1>3. asm'.inss = asm.inss
  BY <1>1, <1>2, InWriteFacts DEF Shape, Fields
<1> QED
  BY <1>1, <1>3 DEF CollInv, OneWord

\* Every step keeps it.
LEMMA CollStep ==
  ASSUME StateInv, CollInv, [Next]_vars
  PROVE  CollInv'
<1>1. CASE UNCHANGED vars
  <2>1. UNCHANGED <<phase, asm, pc, map, mapitem, image, clash>>
    BY <1>1 DEF vars, pass2Vars
  <2>2. Ins' = Ins /\ OneWord' = OneWord
    BY <2>1 DEF Ins, OneWord
  <2> QED
    BY <2>1, <2>2 DEF CollInv
<1>2. CASE WriteEnd \/ Read \/ DisIns \/ DisData \/ DisNext \/ Finish
  <2>1. phase' \notin {"pass1", "pass2", "write", "line"}
    BY <1>2 DEF WriteEnd, Read, DisIns, DisData, DisNext, Finish, InDis
  <2> QED
    BY <2>1 DEF CollInv
<1>3. CASE Again
  <2>1. asm' = NewAsm(asm.arch) /\ phase' = "pass1" /\ NothingLaid'
    BY <1>3, StateAgain
  <2>2. asm'.strargs = <<>>
    BY <2>1 DEF NewAsm
  <2>3. ~clash'
    BY <2>1 DEF NothingLaid
  <2> QED
    BY <2>1, <2>2, <2>3 DEF CollInv, Empty
<1> QED
  BY <1>1, <1>2, <1>3, CollPass1, CollEndPass1, CollPassItem, CollPassArg, CollPassOrg,
     CollPassLabel, CollEndPass2, CollWrite DEF Next

LEMMA CollInit == Init => CollInv
<1> SUFFICES ASSUME Init  PROVE CollInv
  OBVIOUS
<1>1. phase = "pass1" /\ clash = FALSE /\ asm.strargs = <<>>
  BY DEF Init, NewAsm
<1> QED
  BY <1>1 DEF CollInv, Empty

-----------------------------------------------------------------------------
(* The image, while it is laid down.                                       *)

Place(e) == e.address * Align
EndOf(a, k) == IF k = a.lorg THEN a.bufp ELSE a.inss[k].end

\* The bytes of an org up to end are in the image.
Laid(img, e, end, out) ==
  \A i \in e.start..end - 1 :
    /\ Place(e) + i - e.start \in DOMAIN img
    /\ img[Place(e) + i - e.start] = out[i + 1]
Holds(e, end, b) == b \in Int /\ b - Place(e) \in 0..end - e.start - 1

\* An org starts in the buffer where the one before it ended.
GoesOn(inss, k) ==
  \A j \in 0..k - 1 : LastOrg(inss, j, k) => inss[k].start = IF j = 0 THEN 0 ELSE inss[j].end

OrgInv(k) ==
  /\ asm.inss[k].start <= EndOf(asm, k) /\ EndOf(asm, k) <= asm.bufp
  /\ GoesOn(asm.inss, k)
  /\ ~clash => Laid(image, asm.inss[k], EndOf(asm, k), asm.outbuf)
OrgBytes(b) ==
  \E k \in 1..pc - 1 : asm.inss[k].type = "org" /\ Holds(asm.inss[k], EndOf(asm, k), b)

LaidInv ==
  phase = "pass2" =>
    /\ asm.lorg = 0 => pc = 1 /\ asm.bufp = 0 /\ DOMAIN image = {}
    /\ asm.bufp <= Len(asm.outbuf)
    /\ asm.lorg # 0 => (asm.address * Align) - Place(asm.inss[asm.lorg])
                         = asm.bufp - asm.inss[asm.lorg].start
    /\ \A k \in 1..pc - 1 : asm.inss[k].type = "org" => OrgInv(k)
    /\ \A b \in DOMAIN image : OrgBytes(b)

\* An org's address and ends are numbers.
LEMMA OrgNumbers ==
  ASSUME NEW a, BufInv(a), NEW k \in DOMAIN a.inss, a.inss[k].type = "org"
  PROVE  a.inss[k].address \in Int /\ a.inss[k].start \in Nat /\ a.inss[k].end \in Nat
<1>1. IsEntry(a.inss[k], Len(a.labels))
  BY DEF BufInv
<1>2. OrgEntry(a.inss[k])
  BY <1>1, OrgOnly
<1> QED
  BY <1>2 DEF OrgEntry

\* There is but one last org.
LEMMA OneLastOrg ==
  ASSUME NEW s, NEW n, n \in Nat, NEW j, j \in 0..n - 1, NEW k, k \in 0..n - 1,
         LastOrg(s, j, n), LastOrg(s, k, n)
  PROVE  j = k
<1>1. ~(j < k)
  BY DEF LastOrg
<1>2. ~(k < j)
  BY DEF LastOrg
<1> QED
  BY <1>1, <1>2

\* What is known of the image in the second pass.
LEMMA LaidFacts ==
  ASSUME StateInv, LaidInv, phase = "pass2"
  PROVE  /\ asm.lorg = 0 => pc = 1 /\ asm.bufp = 0 /\ DOMAIN image = {} /\ Ins.type = "org"
         /\ asm.bufp <= Len(asm.outbuf)
         /\ asm.lorg # 0 => (asm.address * Align) - Place(asm.inss[asm.lorg])
                              = asm.bufp - asm.inss[asm.lorg].start
         /\ \A k \in 1..pc - 1 : asm.inss[k].type = "org" => OrgInv(k)
         /\ \A b \in DOMAIN image : OrgBytes(b)
         /\ LastOrg(asm.inss, asm.lorg, pc)
         /\ asm.lorg # 0 => /\ asm.lorg \in 1..pc - 1 /\ asm.inss[asm.lorg].type = "org"
                            /\ asm.lorg \in DOMAIN asm.inss
         /\ \A k \in 1..pc - 1 : k \in DOMAIN asm.inss
<1>1. /\ Pass2Inv /\ BufInv(asm) /\ DOMAIN asm.inss = 1..Len(asm.inss) /\ Len(asm.inss) \in Nat
      /\ pc \in Nat \ {0} /\ pc \in DOMAIN asm.inss
  BY InPass2Facts
<1>2. LastOrg(asm.inss, asm.lorg, pc)
  BY <1>1 DEF Pass2Inv
<1>3. asm.lorg = 0 => pc = 1 /\ Ins.type = "org"
  BY <1>1 DEF BufInv, Ins, LaidInv
<1>4. \A k \in 1..pc - 1 : k \in DOMAIN asm.inss
  BY <1>1
<1>5. asm.lorg # 0 => asm.lorg \in 1..pc - 1 /\ asm.inss[asm.lorg].type = "org"
  BY <1>1, <1>2 DEF LastOrg
<1> QED
  BY <1>2, <1>3, <1>4, <1>5 DEF LaidInv

\* What does not touch the bytes so far leaves all as it is.
LEMMA LaidKept ==
  ASSUME StateInv, LaidInv, phase = "pass2", asm'.inss = asm.inss, asm'.lorg = asm.lorg,
         asm'.bufp = asm.bufp, asm'.address = asm.address, UNCHANGED <<image, clash>>,
         IsSeq(asm'.outbuf), Len(asm'.outbuf) >= Len(asm.outbuf),
         \A i \in 1..asm.bufp : i <= Len(asm.outbuf) => asm'.outbuf[i] = asm.outbuf[i],
         pc' = pc \/ pc' = pc + 1, Ins.type # "org"
  PROVE  LaidInv'
<1>1. /\ asm.bufp \in Nat /\ Len(asm.outbuf) \in Nat /\ Len(asm'.outbuf) \in Nat
      /\ pc \in Nat \ {0} /\ BufInv(asm)
  BY InPass2Facts, SeqShape
<1>2. /\ asm.lorg # 0 /\ asm.bufp <= Len(asm.outbuf)
      /\ (asm.address * Align) - Place(asm.inss[asm.lorg]) = asm.bufp - asm.inss[asm.lorg].start
      /\ \A k \in 1..pc - 1 : asm.inss[k].type = "org" => OrgInv(k) /\ k \in DOMAIN asm.inss
      /\ \A b \in DOMAIN image : OrgBytes(b)
  BY LaidFacts
<1>3. asm'.bufp <= Len(asm'.outbuf)
  BY <1>1, <1>2
<1>4. \A k : EndOf(asm', k) = EndOf(asm, k)
  BY DEF EndOf
<1>5. ASSUME NEW k \in 1..pc' - 1, asm'.inss[k].type = "org"  PROVE OrgInv(k)'
  <2>1. k \in 1..pc - 1
    BY <1>1, <1>5 DEF Ins
  <2>2. OrgInv(k) /\ k \in DOMAIN asm.inss
    BY <1>2, <1>5, <2>1
  <2>3. ASSUME ~clash'  PROVE Laid(image', asm'.inss[k], EndOf(asm', k), asm'.outbuf)
    <3> DEFINE e == asm.inss[k]
               end == EndOf(asm, k)
    <3>1. Laid(image, e, end, asm.outbuf) /\ e.start <= end /\ end <= asm.bufp
      BY <2>2, <2>3 DEF OrgInv
    <3>2. e.start \in Nat /\ end \in Nat /\ e.address \in Int
      BY <1>1, <1>5, <2>2, OrgNumbers DEF EndOf
    <3> HIDE DEF e, end
    <3>3. ASSUME NEW i \in e.start..end - 1  PROVE asm'.outbuf[i + 1] = asm.outbuf[i + 1]
      <4>1. i + 1 \in 1..asm.bufp /\ i + 1 <= Len(asm.outbuf)
        BY <1>1, <1>2, <3>1, <3>2
      <4> QED
        BY <4>1
    <3>4. Laid(image, e, end, asm'.outbuf)
      BY <3>1, <3>3 DEF Laid
    <3> QED
      BY <3>4, <1>4 DEF e, end
  <2> QED
    BY <1>4, <2>2, <2>3 DEF OrgInv
<1>6. ASSUME NEW b \in DOMAIN image'  PROVE OrgBytes(b)'
  <2>1. PICK k \in 1..pc - 1 : asm.inss[k].type = "org" /\ Holds(asm.inss[k], EndOf(asm, k), b)
    BY <1>2 DEF OrgBytes
  <2>2. k \in 1..pc' - 1
    BY <1>1
  <2> QED
    BY <1>4, <2>1, <2>2 DEF OrgBytes, Holds
<1> QED
  BY <1>2, <1>3, <1>5, <1>6 DEF LaidInv

\* Arguments and labels lay nothing down.
LEMMA LaidPassArg ==
  ASSUME StateInv, LaidInv, PassArg
  PROVE  LaidInv'
<1>0. /\ phase' \in Dead \/ (phase' = "pass2" /\ ArgStep(asm, asm', Ins.size))
      /\ phase = "pass2" /\ Ins.type # "org" /\ UNCHANGED <<pc, image, clash>>
  BY ArgEffect DEF DataEntry, pass2Vars
<1>1. CASE phase' \in Dead
  BY <1>1 DEF LaidInv, Dead
<1>2. CASE phase' = "pass2" /\ ArgStep(asm, asm', Ins.size)
  <2>1. Same(asm, asm', Buffer) /\ Extends(asm, asm')
    BY <1>2 DEF ArgStep
  <2>2. /\ asm'.inss = asm.inss /\ asm'.lorg = asm.lorg /\ asm'.bufp = asm.bufp
        /\ asm'.address = asm.address
    BY <2>1 DEF Same, Buffer, Fields
  <2> QED
    BY <1>0, <2>1, <2>2, LaidKept DEF Extends
<1> QED
  BY <1>0, <1>1, <1>2

LEMMA LaidPassLabel ==
  ASSUME StateInv, LaidInv, PassLabel
  PROVE  LaidInv'
<1>1. Same(asm, asm', {"llbl"})
  BY StatePassLabel
<1>2. /\ phase = "pass2" /\ Ins.type # "org" /\ pc' = pc + 1 /\ UNCHANGED <<image, clash>>
  BY DEF PassLabel, InPass2
<1>3. /\ asm'.inss = asm.inss /\ asm'.lorg = asm.lorg /\ asm'.bufp = asm.bufp
      /\ asm'.address = asm.address /\ asm'.outbuf = asm.outbuf
  BY <1>1 DEF Same, Fields
<1>4. IsSeq(asm.outbuf) /\ Len(asm.outbuf) >= Len(asm.outbuf)
  BY <1>2, InPass2Facts
<1> QED
  BY <1>2, <1>3, <1>4, LaidKept

\* At the start of the second pass there is no image.
LEMMA LaidEndPass1 ==
  ASSUME StateInv, EndPass1
  PROVE  LaidInv'
<1>0. /\ phase' \in {"pass2", "error"} /\ NothingLaid /\ FirstInv(asm)
      /\ Same(asm, asm', {"inss", "ats", "address"}) /\ UNCHANGED pass2Vars
  BY EndPass1Effect
<1>1. asm'.lorg = 0 /\ asm'.bufp = 0 /\ asm'.outbuf = asm.outbuf /\ IsSeq(asm.outbuf)
  BY <1>0 DEF Same, Fields, FirstInv, Start, AsmInv, BufInv
<1>2. asm'.bufp <= Len(asm'.outbuf)
  <2>1. Len(asm.outbuf) \in Nat
    BY <1>1, SeqShape
  <2> QED
    BY <1>1, <2>1
<1>3. pc' = 1 /\ DOMAIN image' = {}
  BY <1>0 DEF pass2Vars, NothingLaid
<1>4. 1..pc' - 1 = {}
  BY <1>3
<1> QED
  BY <1>1, <1>2, <1>3, <1>4 DEF LaidInv

\* What there was is there; n bytes of an org that is at bufp come to its address.
SameBytes(bufp, out, new) == \A i \in 1..bufp : new[i] = out[i]
SameImage(img, more) == \A b \in DOMAIN img : b \in DOMAIN more /\ more[b] = img[b]
NewImage(more, at, to, bufp, new) ==
  \A b \in at * Align..to * Align - 1 :
    b \in DOMAIN more /\ more[b] = new[bufp + b - (at * Align) + 1]
UnderWay(e, bufp, at) ==
  /\ e.start \in Nat /\ e.address \in Int /\ bufp \in Nat /\ e.start <= bufp /\ at \in Int
  /\ (at * Align) - Place(e) = bufp - e.start
Whole(n, at, to) == n \in Nat /\ n = (n \div Align) * Align /\ to = at + n \div Align

\* An item of whole words keeps an org's address and its bytes in step.
LEMMA ItemPlace ==
  ASSUME NEW e, NEW bufp, NEW at, UnderWay(e, bufp, at), NEW n, NEW to, Whole(n, at, to)
  PROVE  /\ Place(e) \in Int /\ Place(e) = (at * 2) - bufp + e.start /\ to \in Int
         /\ to * 2 = (at * 2) + n /\ n \in Nat /\ UnderWay(e, bufp + n, to)
<1>1. /\ e.start \in Nat /\ e.address \in Int /\ bufp \in Nat /\ e.start <= bufp /\ at \in Int
      /\ (at * 2) - Place(e) = bufp - e.start /\ n \in Nat
  BY DEF UnderWay, Whole, Align
<1>2. Place(e) \in Int
  BY <1>1 DEF Place, Align
<1>3. n = (n \div 2) * 2 /\ to = at + n \div 2 /\ n \div 2 \in Int
  BY <1>1 DEF Whole, Align
<1>4. Place(e) = (at * 2) - bufp + e.start
  BY <1>1, <1>2
<1>5. to \in Int /\ to * 2 = (at * 2) + n
  BY <1>1, <1>3
<1>6. (to * 2) - Place(e) = bufp + n - e.start /\ e.start <= bufp + n
  BY <1>1, <1>2, <1>4, <1>5
<1>7. UnderWay(e, bufp + n, to)
  BY <1>1, <1>5, <1>6 DEF UnderWay, Align
<1> QED
  BY <1>1, <1>2, <1>4, <1>5, <1>7

\* What an item adds to the image is in the outbuf where the org says.
LEMMA LaidMore ==
  ASSUME NEW e, NEW bufp, NEW at, UnderWay(e, bufp, at), NEW n, NEW to, Whole(n, at, to),
         NEW out, NEW new, SameBytes(bufp, out, new), NEW img, NEW more,
         Laid(img, e, bufp, out), SameImage(img, more), NewImage(more, at, to, bufp, new)
  PROVE  Laid(more, e, bufp + n, new)
<1>1. /\ Place(e) \in Int /\ Place(e) = (at * 2) - bufp + e.start
      /\ to * 2 = (at * 2) + n /\ n \in Nat
  BY ItemPlace
<1>2. e.start \in Nat /\ bufp \in Nat /\ at \in Int /\ to \in Int
  BY ItemPlace DEF UnderWay
<1> SUFFICES ASSUME NEW i \in e.start..bufp + n - 1
             PROVE  /\ Place(e) + i - e.start \in DOMAIN more
                    /\ more[Place(e) + i - e.start] = new[i + 1]
  BY <1>1, <1>2 DEF Laid
<1>3. CASE i < bufp
  <2>1. i \in e.start..bufp - 1 /\ i + 1 \in 1..bufp
    BY <1>1, <1>2, <1>3
  <2> QED
    BY <2>1 DEF Laid, SameBytes, SameImage
<1>4. CASE i >= bufp
  <2> DEFINE b == Place(e) + i - e.start
  <2>1. b = (at * 2) + i - bufp
    BY <1>1, <1>2
  <2>2. b \in at * 2..(to * 2) - 1 /\ bufp + b - (at * 2) + 1 = i + 1
    BY <1>1, <1>2, <1>4, <2>1
  <2> QED
    BY <2>2 DEF Align, NewImage
<1> QED
  BY <1>1, <1>2, <1>3, <1>4

\* The bytes before stay, whatever comes after them.
LEMMA LaidStays ==
  ASSUME NEW e, e.start \in Nat, NEW end, end \in Nat, NEW bufp, bufp \in Nat, end <= bufp,
         NEW out, NEW new, SameBytes(bufp, out, new), NEW img, NEW more,
         Laid(img, e, end, out), SameImage(img, more)
  PROVE  Laid(more, e, end, new)
<1> SUFFICES ASSUME NEW i \in e.start..end - 1
             PROVE  /\ Place(e) + i - e.start \in DOMAIN more
                    /\ more[Place(e) + i - e.start] = new[i + 1]
  BY DEF Laid
<1>1. i + 1 \in 1..bufp
  OBVIOUS
<1> QED
  BY <1>1 DEF Laid, SameBytes, SameImage

\* A byte that an org holds, and one that an item adds to it.
LEMMA HeldMore ==
  ASSUME NEW e, NEW bufp, NEW at, UnderWay(e, bufp, at), NEW n, NEW to, Whole(n, at, to),
         NEW b, b \in at * Align..to * Align - 1
  PROVE  Holds(e, bufp + n, b)
<1>1. /\ Place(e) \in Int /\ Place(e) = (at * 2) - bufp + e.start
      /\ to * 2 = (at * 2) + n /\ n \in Nat
  BY ItemPlace
<1>2. e.start \in Nat /\ bufp \in Nat /\ at \in Int /\ to \in Int /\ e.start <= bufp
  BY ItemPlace DEF UnderWay
<1>3. b \in Int /\ b >= at * 2 /\ b <= (to * 2) - 1
  BY <1>2 DEF Align
<1>4. b - Place(e) \in 0..bufp + n - e.start - 1
  BY <1>1, <1>2, <1>3
<1> QED
  BY <1>1, <1>2, <1>3, <1>4 DEF Holds

\* What an org holds it holds when it has more.
LEMMA HeldStill ==
  ASSUME NEW e, e.start \in Nat, NEW end, end \in Nat, NEW to, to \in Nat, end <= to, NEW b,
         Holds(e, end, b)
  PROVE  Holds(e, to, b)
<1> DEFINE d == b - Place(e)
<1>1. b \in Int /\ d \in 0..end - e.start - 1
  BY DEF Holds
<1> HIDE DEF d
<1>2. d \in 0..to - e.start - 1
  BY <1>1
<1> QED
  BY <1>1, <1>2 DEF Holds, d

\* An item keeps the image in step with the outbuf.
LEMMA LaidPassItem ==
  ASSUME StateInv, LaidInv, PassIns \/ PassData
  PROVE  LaidInv'
<1>0. phase = "pass2" /\ Ins.type # "org"
  BY DEF PassIns, PassData, InPass2
<1>1. CASE phase' = "error"
  BY <1>1 DEF LaidInv
<1>2. CASE phase' # "error"
  <2>1. PICK a, n : Item(a, n)
    BY <1>2, ItemIns, ItemData
  <2>2. /\ Same(asm, asm', AfterItem) /\ IsSeq(asm'.outbuf)
        /\ asm'.bufp = asm.bufp + n /\ asm'.address = asm.address + n \div Align
        /\ \A i \in 1..asm.bufp : i <= Len(asm.outbuf) => asm'.outbuf[i] = asm.outbuf[i]
        /\ asm'.bufp <= Len(asm'.outbuf) /\ pc' = pc + 1
    BY <1>0, <2>1, ItemStep
  <2>3. asm'.inss = asm.inss /\ asm'.lorg = asm.lorg
    BY <2>2 DEF Same, AfterItem, Buffer, Fields
  <2>4. n \in Nat /\ n = (n \div Align) * Align
    BY <2>1 DEF Item
  <2>5. /\ asm.bufp \in Nat /\ Len(asm.outbuf) \in Nat /\ pc \in Nat \ {0} /\ BufInv(asm)
        /\ asm.address \in Int
    BY <1>0, InPass2Facts
  <2> DEFINE org == asm.inss[asm.lorg]
             lo == asm.address * Align
             hi == asm'.address * Align - 1
  <2>6. /\ asm.lorg # 0 /\ asm.bufp <= Len(asm.outbuf)
        /\ (asm.address * Align) - Place(org) = asm.bufp - org.start
        /\ \A k \in 1..pc - 1 : k \in DOMAIN asm.inss
        /\ \A k \in 1..pc - 1 : asm.inss[k].type = "org" => OrgInv(k)
        /\ \A b \in DOMAIN image : OrgBytes(b)
        /\ asm.lorg \in 1..pc - 1 /\ org.type = "org" /\ asm.lorg \in DOMAIN asm.inss
    BY <1>0, LaidFacts
  <2>7. OrgInv(asm.lorg) /\ UnderWay(org, asm.bufp, asm.address) /\ Whole(n, asm.address, asm'.address)
    <3>1. OrgInv(asm.lorg)
      BY <2>6
    <3>2. org.start <= asm.bufp
      BY <3>1 DEF OrgInv, EndOf
    <3>3. org.start \in Nat /\ org.address \in Int
      BY <2>5, <2>6, OrgNumbers
    <3>4. UnderWay(org, asm.bufp, asm.address)
      BY <2>5, <2>6, <3>2, <3>3 DEF UnderWay
    <3> QED
      BY <2>2, <2>4, <3>1, <3>4 DEF Whole
  <2>8. ItemImage(lo, hi, asm'.outbuf, asm.bufp)
    BY <1>0, <2>1, ImageStep
  <2>9. SameBytes(asm.bufp, asm.outbuf, asm'.outbuf)
    BY <2>2, <2>5, <2>6 DEF SameBytes
  <2>10. ~clash' => ~clash /\ SameImage(image, image')
    <3> HIDE DEF lo, hi
    <3> QED
      BY <2>8 DEF ItemImage, SameImage
  <2>11. NewImage(image', asm.address, asm'.address, asm.bufp, asm'.outbuf)
    BY <2>8 DEF ItemImage, NewImage
  <2>15. UnderWay(org, asm'.bufp, asm'.address)
    BY <2>2, <2>7, ItemPlace
  <2>12. ASSUME NEW k \in 1..pc' - 1, asm'.inss[k].type = "org"  PROVE OrgInv(k)'
    <3>1. k \in 1..pc - 1 /\ asm.inss[k].type = "org"
      BY <1>0, <2>2, <2>3, <2>5, <2>12 DEF Ins
    <3>2. OrgInv(k)
      BY <2>6, <3>1
    <3>3. CASE k = asm.lorg
      <4>1. EndOf(asm', k) = asm.bufp + n /\ EndOf(asm, k) = asm.bufp
        BY <2>2, <2>3, <3>3 DEF EndOf
      <4>2. ASSUME ~clash'  PROVE Laid(image', org, asm.bufp + n, asm'.outbuf)
        <5>1. Laid(image, org, asm.bufp, asm.outbuf)
          BY <2>10, <3>2, <3>3, <4>1, <4>2 DEF OrgInv
        <5>2. SameImage(image, image')
          BY <2>10, <4>2
        <5> HIDE DEF org
        <5> QED
          BY <2>7, <2>9, <2>11, <5>1, <5>2, LaidMore
      <4>3. org.start <= asm'.bufp
        BY <2>15 DEF UnderWay
      <4>4. asm.bufp + n <= asm'.bufp
        BY <2>2, <2>4, <2>5
      <4> QED
        BY <2>2, <2>3, <3>2, <3>3, <4>1, <4>2, <4>3, <4>4 DEF OrgInv
    <3>4. CASE k # asm.lorg
      <4> DEFINE e == asm.inss[k]
                 bufp == asm.bufp
                 end == e.end
      <4>1. EndOf(asm', k) = end /\ EndOf(asm, k) = end
        BY <2>3, <3>4 DEF EndOf
      <4>2. e.start \in Nat /\ end \in Nat /\ bufp \in Nat
        BY <2>5, <2>6, <3>1, OrgNumbers
      <4>3. e.start <= end /\ end <= bufp /\ GoesOn(asm.inss, k)
        BY <3>2, <4>1 DEF OrgInv
      <4>4. ASSUME ~clash'  PROVE Laid(image', e, end, asm'.outbuf)
        <5>1. Laid(image, e, end, asm.outbuf)
          BY <2>10, <3>2, <4>1, <4>4 DEF OrgInv
        <5>2. SameBytes(bufp, asm.outbuf, asm'.outbuf) /\ SameImage(image, image')
          BY <2>9, <2>10, <4>4
        <5> HIDE DEF e, end, bufp
        <5> QED
          BY <5>1, <5>2, <4>2, <4>3, LaidStays
      <4>5. end <= asm'.bufp
        <5>1. asm'.bufp = bufp + n
          BY <2>2
        <5> HIDE DEF end, bufp
        <5> QED
          BY <2>4, <4>2, <4>3, <5>1
      <4> QED
        BY <2>3, <3>1, <4>1, <4>3, <4>4, <4>5 DEF OrgInv
    <3> QED
      BY <3>3, <3>4
  <2>13. ASSUME NEW b \in DOMAIN image'  PROVE OrgBytes(b)'
    <3>1. b \in lo..hi \/ b \in DOMAIN image
      <4> HIDE DEF lo, hi
      <4> QED
        BY <2>8 DEF ItemImage
    <3>2. CASE b \in DOMAIN image
      <4>1. PICK k \in 1..pc - 1 : asm.inss[k].type = "org" /\ Holds(asm.inss[k], EndOf(asm, k), b)
        BY <2>6, <3>2 DEF OrgBytes
      <4>2. k \in 1..pc' - 1 /\ k \in DOMAIN asm.inss
        BY <2>2, <2>5, <2>6
      <4>3. asm.inss[k].start \in Nat /\ asm.inss[k].end \in Nat
        BY <2>5, <4>1, <4>2, OrgNumbers
      <4>4. EndOf(asm, k) \in Nat /\ EndOf(asm', k) \in Nat /\ EndOf(asm, k) <= EndOf(asm', k)
        <5>1. asm'.bufp \in Nat /\ asm.bufp <= asm'.bufp
          BY <2>2, <2>4, <2>5
        <5>2. CASE k = asm.lorg
          BY <2>3, <2>5, <5>1, <5>2 DEF EndOf
        <5>3. CASE k # asm.lorg
          BY <2>3, <4>3, <5>3 DEF EndOf
        <5> QED
          BY <5>2, <5>3
      <4>5. Holds(asm.inss[k], EndOf(asm', k), b)
        BY <4>1, <4>3, <4>4, HeldStill
      <4> QED
        BY <2>3, <4>1, <4>2, <4>5 DEF OrgBytes
    <3>3. CASE b \in lo..hi
      <4>1. EndOf(asm', asm.lorg) = asm.bufp + n
        BY <2>2, <2>3 DEF EndOf
      <4>2. Holds(org, asm.bufp + n, b)
        <5>1. b \in asm.address * Align..asm'.address * Align - 1
          BY <3>3
        <5> HIDE DEF org
        <5> QED
          BY <2>7, <5>1, HeldMore
      <4>3. asm.lorg \in 1..pc' - 1
        BY <2>2, <2>5, <2>6
      <4> QED
        BY <2>3, <2>6, <4>1, <4>2, <4>3 DEF OrgBytes
    <3> QED
      BY <3>1, <3>2, <3>3
  <2>14. (asm'.address * Align) - Place(org) = asm'.bufp - org.start
    BY <2>15 DEF UnderWay
  <2> QED
    BY <2>2, <2>3, <2>6, <2>12, <2>13, <2>14 DEF LaidInv
<1> QED
  BY <1>1, <1>2

\* The orgs before entry n, when the last of them is told where it ends.
Closed(a, b, n) ==
  /\ Alike(a.inss, b.inss)
  /\ \A k \in 1..n - 1 : a.inss[k].type = "org" =>
       /\ b.inss[k].type = "org" /\ b.inss[k].start = a.inss[k].start
       /\ b.inss[k].address = a.inss[k].address /\ b.inss[k].end = EndOf(a, k)

\* The last org is the same of entries that are alike.
LEMMA LastOrgAlike ==
  ASSUME NEW s, NEW t, Alike(s, t), DOMAIN s = 1..Len(s), Len(s) \in Nat, NEW n \in DOMAIN s,
         NEW j, j \in 0..n - 1, LastOrg(t, j, n)
  PROVE  LastOrg(s, j, n)
<1>1. \A k \in DOMAIN s : t[k].type = s[k].type
  BY DEF Alike
<1>2. \A k \in 1..n - 1 : k \in DOMAIN s
  OBVIOUS
<1> QED
  BY <1>1, <1>2 DEF LastOrg

\* Orgs that go on from each other do so when the last one ends.
LEMMA ClosedGoesOn ==
  ASSUME NEW a, BufInv(a), NEW n, n \in DOMAIN a.inss, LastOrg(a.inss, a.lorg, n),
         NEW b, Closed(a, b, n), NEW k \in 1..n - 1, a.inss[k].type = "org", GoesOn(a.inss, k)
  PROVE  GoesOn(b.inss, k)
<1>1. DOMAIN a.inss = 1..Len(a.inss) /\ Len(a.inss) \in Nat /\ n \in Nat /\ k \in DOMAIN a.inss
  BY SeqShape DEF BufInv
<1> SUFFICES ASSUME NEW j \in 0..k - 1, LastOrg(b.inss, j, k)
             PROVE  b.inss[k].start = IF j = 0 THEN 0 ELSE b.inss[j].end
  BY DEF GoesOn
<1>2. LastOrg(a.inss, j, k)
  BY <1>1, LastOrgAlike DEF Closed
<1>3. a.inss[k].start = IF j = 0 THEN 0 ELSE a.inss[j].end
  BY <1>2 DEF GoesOn
<1>4. b.inss[k].start = a.inss[k].start
  BY DEF Closed
<1>5. CASE j = 0
  BY <1>3, <1>4, <1>5
<1>6. CASE j # 0
  <2>1. j \in 1..n - 1 /\ a.inss[j].type = "org"
    BY <1>1, <1>2, <1>6 DEF LastOrg
  <2>2. j # a.lorg
    BY <1>1, <2>1 DEF LastOrg
  <2>3. b.inss[j].end = a.inss[j].end
    BY <2>1, <2>2 DEF Closed, EndOf
  <2> QED
    BY <1>3, <1>4, <1>6, <2>3
<1> QED
  BY <1>5, <1>6

\* As far as an org's bytes go, only its place counts.
SamePlace(e, f) == f.start = e.start /\ f.address = e.address
\* Where an org's bytes are depends on its address and its start alone.
LEMMA LaidThere ==
  ASSUME NEW e, NEW f, SamePlace(e, f), NEW end, NEW img, NEW out, Laid(img, e, end, out)
  PROVE  Laid(img, f, end, out)
BY DEF Laid, Place, SamePlace

LEMMA HeldThere ==
  ASSUME NEW e, NEW f, SamePlace(e, f), NEW end, NEW b, Holds(e, end, b)
  PROVE  Holds(f, end, b)
BY DEF Holds, Place, SamePlace

\* An org keeps the image in step, from its own place on.
LEMMA LaidPassOrg ==
  ASSUME StateInv, LaidInv, PassOrg
  PROVE  LaidInv'
<1>0. /\ OrgStep(asm, asm', pc) /\ Ins.type = "org" /\ phase = "pass2" /\ phase' = "pass2"
      /\ pc' = pc + 1 /\ UNCHANGED <<image, clash>>
  BY StatePassOrg DEF PassOrg, InPass2
<1>1. /\ Same(asm, asm', {"inss", "address", "lorg"}) /\ Alike(asm.inss, asm'.inss)
      /\ \A j \in DOMAIN asm.inss : j # asm.lorg /\ j # pc => asm'.inss[j] = asm.inss[j]
      /\ asm.lorg # 0 => /\ asm'.inss[asm.lorg].end = asm.bufp
                         /\ asm'.inss[asm.lorg].start = asm.inss[asm.lorg].start
      /\ asm'.inss[pc].start = asm.bufp
      /\ asm'.address = asm.inss[pc].address /\ asm'.lorg = pc
  BY <1>0 DEF OrgStep
<1>2. asm'.bufp = asm.bufp /\ asm'.outbuf = asm.outbuf
  BY <1>1 DEF Same, Fields
<1>3. /\ asm.bufp \in Nat /\ pc \in Nat \ {0} /\ BufInv(asm) /\ pc \in DOMAIN asm.inss
      /\ DOMAIN asm.inss = 1..Len(asm.inss) /\ Len(asm.inss) \in Nat
  BY <1>0, InPass2Facts
<1>4. /\ asm.lorg = 0 => asm.bufp = 0
      /\ asm.bufp <= Len(asm.outbuf)
      /\ \A k \in 1..pc - 1 : asm.inss[k].type = "org" => OrgInv(k)
      /\ \A b \in DOMAIN image : OrgBytes(b)
      /\ LastOrg(asm.inss, asm.lorg, pc)
      /\ asm.lorg # 0 => asm.lorg \in 1..pc - 1
      /\ \A k \in 1..pc - 1 : k \in DOMAIN asm.inss
  BY <1>0, LaidFacts
<1>5. asm.inss[pc].type = "org" /\ asm'.inss[pc].type = "org" /\ asm'.inss[pc].address = asm.inss[pc].address
  BY <1>0, <1>1, <1>3 DEF Alike, Ins
<1>6. Closed(asm, asm', pc)
  <2> SUFFICES ASSUME NEW k \in 1..pc - 1, asm.inss[k].type = "org"
               PROVE  /\ asm'.inss[k].type = "org" /\ asm'.inss[k].start = asm.inss[k].start
                      /\ asm'.inss[k].address = asm.inss[k].address
                      /\ asm'.inss[k].end = EndOf(asm, k)
    BY <1>1 DEF Closed
  <2>1. k \in DOMAIN asm.inss /\ k # pc /\ k # 0
    BY <1>3, <1>4
  <2>2. asm'.inss[k].type = "org" /\ asm'.inss[k].address = asm.inss[k].address
    BY <1>1, <2>1 DEF Alike
  <2>3. asm'.inss[k].start = asm.inss[k].start /\ asm'.inss[k].end = EndOf(asm, k)
    BY <1>1, <2>1 DEF EndOf
  <2> QED
    BY <2>2, <2>3
<1>7. ASSUME NEW k \in 1..pc - 1, asm.inss[k].type = "org"
      PROVE  /\ EndOf(asm', k) = EndOf(asm, k) /\ OrgInv(k)'
             /\ \A b : Holds(asm.inss[k], EndOf(asm, k), b) => Holds(asm'.inss[k], EndOf(asm', k), b)
  <2>1. /\ asm'.inss[k].start = asm.inss[k].start /\ asm'.inss[k].address = asm.inss[k].address
        /\ asm'.inss[k].end = EndOf(asm, k)
    BY <1>6, <1>7 DEF Closed
  <2>2. EndOf(asm', k) = EndOf(asm, k)
    BY <1>1, <1>3, <2>1 DEF EndOf
  <2>3. OrgInv(k)
    BY <1>4, <1>7
  <2>4. GoesOn(asm'.inss, k)
    BY <1>3, <1>4, <1>6, <1>7, <2>3, ClosedGoesOn DEF OrgInv
  <2>5. SamePlace(asm.inss[k], asm'.inss[k])
    BY <2>1 DEF SamePlace
  <2> QED
    BY <1>0, <1>2, <2>1, <2>2, <2>3, <2>4, <2>5, LaidThere, HeldThere DEF OrgInv
<1>8. ASSUME NEW k, k = pc  PROVE OrgInv(k)'
  <2>1. EndOf(asm', pc) = asm.bufp
    BY <1>1, <1>2 DEF EndOf
  <2>2. ASSUME NEW j \in 0..pc - 1, LastOrg(asm'.inss, j, pc)
        PROVE  asm.bufp = IF j = 0 THEN 0 ELSE asm'.inss[j].end
    <3>1. LastOrg(asm.inss, j, pc)
      BY <1>1, <1>3, <2>2, LastOrgAlike
    <3>2. j = asm.lorg
      BY <1>3, <1>4, <3>1, OneLastOrg DEF LastOrg
    <3> QED
      BY <1>1, <1>4, <3>2
  <2>3. GoesOn(asm'.inss, pc)
    BY <1>1, <2>2 DEF GoesOn
  <2>4. Laid(image', asm'.inss[pc], asm.bufp, asm'.outbuf)
    <3>1. asm'.inss[pc].start..asm.bufp - 1 = {}
      BY <1>1, <1>3
    <3> QED
      BY <3>1 DEF Laid
  <2> QED
    BY <1>1, <1>2, <1>3, <1>8, <2>1, <2>3, <2>4 DEF OrgInv
<1>9. ASSUME NEW k \in 1..pc' - 1, asm'.inss[k].type = "org"  PROVE OrgInv(k)'
  <2>1. CASE k = pc
    BY <1>8, <2>1
  <2>2. CASE k # pc
    <3>1. k \in 1..pc - 1
      BY <1>0, <1>3, <2>2
    <3>2. asm.inss[k].type = "org"
      BY <1>1, <1>4, <1>9, <3>1 DEF Alike
    <3> QED
      BY <1>7, <3>1, <3>2
  <2> QED
    BY <2>1, <2>2
<1>10. ASSUME NEW b \in DOMAIN image'  PROVE OrgBytes(b)'
  <2>1. PICK k \in 1..pc - 1 : asm.inss[k].type = "org" /\ Holds(asm.inss[k], EndOf(asm, k), b)
    BY <1>0, <1>4 DEF OrgBytes
  <2>2. Holds(asm'.inss[k], EndOf(asm', k), b) /\ asm'.inss[k].type = "org"
    BY <1>6, <1>7, <2>1 DEF Closed
  <2>3. k \in 1..pc' - 1
    BY <1>0, <1>3
  <2> QED
    BY <2>2, <2>3 DEF OrgBytes
<1>11. (asm'.address * Align) - Place(asm'.inss[pc]) = asm'.bufp - asm'.inss[pc].start
  <2>1. asm'.inss[pc].address \in Int
    BY <1>3, <1>5, OrgNumbers
  <2> QED
    BY <1>1, <1>2, <1>3, <1>5, <2>1 DEF Place, Align
<1> QED
  BY <1>1, <1>2, <1>3, <1>4, <1>9, <1>10, <1>11 DEF LaidInv

-----------------------------------------------------------------------------
(* After the second pass: each org goes on where the one before it ended.  *)

DoneOrg(k) ==
  /\ asm.inss[k].start <= asm.inss[k].end /\ asm.inss[k].end <= Len(asm.outbuf)
  /\ GoesOn(asm.inss, k)
  /\ ~clash => Laid(image, asm.inss[k], asm.inss[k].end, asm.outbuf)
DoneInv ==
  phase \in {"write", "line"} =>
    \A k \in DOMAIN asm.inss : asm.inss[k].type = "org" => DoneOrg(k)

\* b is in an org from entry n on.
ToCome(b, n) ==
  \E k \in DOMAIN asm.inss : /\ k >= n /\ asm.inss[k].type = "org"
                             /\ Holds(asm.inss[k], asm.inss[k].end, b)

\* After the second pass every org says where its bytes are.
LEMMA DoneEndPass2 ==
  ASSUME StateInv, LaidInv, EndPass2
  PROVE  DoneInv' /\ \A b \in DOMAIN image' : ToCome(b, 1)'
<1>0. /\ phase = "pass2" /\ phase' = "write" /\ UNCHANGED <<image, clash>>
      /\ Same(asm, asm', {"inss", "llbl"}) /\ Alike(asm.inss, asm'.inss)
      /\ \A j \in DOMAIN asm.inss : j # asm.lorg => asm'.inss[j] = asm.inss[j]
      /\ asm.lorg # 0 => /\ asm'.inss[asm.lorg].end = asm.bufp
                         /\ asm'.inss[asm.lorg].start = asm.inss[asm.lorg].start
      /\ pc = Len(asm.inss) /\ Ins.type = "end"
  BY StateEndPass2 DEF EndPass2, InPass2
<1>1. asm'.bufp = asm.bufp /\ asm'.outbuf = asm.outbuf
  BY <1>0 DEF Same, Fields
<1>2. /\ asm.bufp \in Nat /\ pc \in Nat \ {0} /\ BufInv(asm) /\ pc \in DOMAIN asm.inss
      /\ DOMAIN asm.inss = 1..Len(asm.inss) /\ Len(asm.inss) \in Nat /\ Len(asm.outbuf) \in Nat
  BY <1>0, InPass2Facts
<1>3. /\ asm.bufp <= Len(asm.outbuf)
      /\ \A k \in 1..pc - 1 : asm.inss[k].type = "org" => OrgInv(k)
      /\ \A b \in DOMAIN image : OrgBytes(b)
      /\ LastOrg(asm.inss, asm.lorg, pc)
      /\ \A k \in 1..pc - 1 : k \in DOMAIN asm.inss
  BY <1>0, LaidFacts
<1>4. Closed(asm, asm', pc)
  <2> SUFFICES ASSUME NEW k \in 1..pc - 1, asm.inss[k].type = "org"
               PROVE  /\ asm'.inss[k].type = "org" /\ asm'.inss[k].start = asm.inss[k].start
                      /\ asm'.inss[k].address = asm.inss[k].address
                      /\ asm'.inss[k].end = EndOf(asm, k)
    BY <1>0 DEF Closed
  <2>1. k \in DOMAIN asm.inss /\ k # 0
    BY <1>3
  <2>2. asm'.inss[k].type = "org" /\ asm'.inss[k].address = asm.inss[k].address
    BY <1>0, <2>1 DEF Alike
  <2>3. asm'.inss[k].start = asm.inss[k].start /\ asm'.inss[k].end = EndOf(asm, k)
    BY <1>0, <2>1 DEF EndOf
  <2> QED
    BY <2>2, <2>3
<1>5. ASSUME NEW k \in DOMAIN asm'.inss, asm'.inss[k].type = "org"
      PROVE  k \in 1..pc - 1 /\ asm.inss[k].type = "org"
  <2>1. k \in DOMAIN asm.inss /\ asm.inss[k].type = "org"
    BY <1>0, <1>5 DEF Alike
  <2>2. k # pc
    BY <1>0, <2>1 DEF Ins
  <2> QED
    BY <1>0, <1>2, <2>1, <2>2
<1>6. ASSUME NEW k \in DOMAIN asm'.inss, asm'.inss[k].type = "org"  PROVE DoneOrg(k)'
  <2>1. k \in 1..pc - 1 /\ asm.inss[k].type = "org" /\ OrgInv(k) /\ k \in DOMAIN asm.inss
    BY <1>3, <1>5, <1>6
  <2>2. /\ asm'.inss[k].start = asm.inss[k].start /\ asm'.inss[k].address = asm.inss[k].address
        /\ asm'.inss[k].end = EndOf(asm, k)
    BY <1>4, <2>1 DEF Closed
  <2>3. GoesOn(asm'.inss, k)
    BY <1>2, <1>3, <1>4, <2>1, ClosedGoesOn DEF OrgInv
  <2>4. EndOf(asm, k) \in Nat
    BY <1>2, <2>1, OrgNumbers DEF EndOf
  <2>5. asm'.inss[k].start <= asm'.inss[k].end /\ asm'.inss[k].end <= Len(asm'.outbuf)
    BY <1>1, <1>2, <1>3, <2>1, <2>2, <2>4 DEF OrgInv
  <2>6. SamePlace(asm.inss[k], asm'.inss[k])
    BY <2>2 DEF SamePlace
  <2>7. ~clash' => Laid(image', asm'.inss[k], EndOf(asm, k), asm'.outbuf)
    BY <1>0, <1>1, <2>1, <2>6, LaidThere DEF OrgInv
  <2> QED
    BY <2>2, <2>3, <2>5, <2>7 DEF DoneOrg
<1>7. ASSUME NEW b \in DOMAIN image'  PROVE ToCome(b, 1)'
  <2>1. PICK k \in 1..pc - 1 : asm.inss[k].type = "org" /\ Holds(asm.inss[k], EndOf(asm, k), b)
    BY <1>0, <1>3 DEF OrgBytes
  <2>2. /\ asm'.inss[k].type = "org" /\ asm'.inss[k].end = EndOf(asm, k)
        /\ asm'.inss[k].start = asm.inss[k].start /\ asm'.inss[k].address = asm.inss[k].address
    BY <1>4, <2>1 DEF Closed
  <2>5. SamePlace(asm.inss[k], asm'.inss[k])
    BY <2>2 DEF SamePlace
  <2>3. Holds(asm'.inss[k], asm'.inss[k].end, b)
    BY <2>1, <2>2, <2>5, HeldThere
  <2>4. k \in DOMAIN asm'.inss /\ k >= 1
    BY <1>0, <1>3 DEF Alike
  <2> QED
    BY <2>2, <2>3, <2>4 DEF ToCome
<1> QED
  BY <1>0, <1>6, <1>7 DEF DoneInv

-----------------------------------------------------------------------------
(* The hex file.                                                           *)

Lies(l) == l.seg * SegLen + l.addr
Says(img, l) ==
  \A i \in 1..Len(l.data) : Lies(l) + i - 1 \in DOMAIN img /\ img[Lies(l) + i - 1] = l.data[i]
Covers(l, b) == b \in Int /\ b - Lies(l) \in 0..Len(l.data) - 1

\* Each line is under the upper half that the lines before it give; bad is clash.
IsLine(img, bad, l, seg) ==
  /\ l.seg \in Int
  /\ \/ /\ l.rtype = 0 /\ l.addr \in Int /\ l.seg = seg /\ IsSeq(l.data)
        /\ ~bad => Says(img, l)
     \/ l.rtype = 4 /\ l.data[1] = l.seg
SegAt(h, k) == IF k = 0 THEN 0 ELSE h[k].seg
HexInv(img, bad, h, n) == \A k \in 1..n : IsLine(img, bad, h[k], SegAt(h, k - 1))
Written(h, n, b) == \E k \in 1..n : h[k].rtype = 0 /\ Covers(h[k], b)

\* The bytes that are still to be written.
Remain(b) ==
  \/ /\ b \in Int
     /\ b - Place(Ins) \in wbuf - Ins.start..Ins.end - Ins.start - 1
  \/ ToCome(b, pc + 1)
WriteInv ==
  phase \in {"write", "line"} =>
    /\ IsSeq(hex) /\ HexInv(image, clash, hex, Len(hex)) /\ top = SegAt(hex, Len(hex))
    /\ wbuf \in Nat /\ dsym = <<>> /\ inbuf = <<>>
    /\ phase = "write" =>
         /\ \E j \in 0..pc - 1 :
              LastOrg(asm.inss, j, pc) /\ wbuf = IF j = 0 THEN 0 ELSE asm.inss[j].end
         /\ \A b \in DOMAIN image : Written(hex, Len(hex), b) \/ ToCome(b, pc)
    /\ phase = "line" =>
         /\ wbuf \in Ins.start..Ins.end
         /\ asm.address = Place(Ins) + wbuf - Ins.start
         /\ \A b \in DOMAIN image : Written(hex, Len(hex), b) \/ Remain(b)

\* A line more.
HexMore(h, t, l) ==
  /\ SegAt(t, Len(t)) = l.seg
  /\ \A b : Written(h, Len(h), b) => Written(t, Len(t), b)
  /\ l.rtype = 0 => \A b : Covers(l, b) => Written(t, Len(t), b)

\* A line that is right keeps the hex file right.
LEMMA HexAdds ==
  ASSUME NEW img, NEW bad, NEW h, HexInv(img, bad, h, Len(h)), NEW l,
         IsLine(img, bad, l, SegAt(h, Len(h))), NEW t, Adds(h, t, l)
  PROVE  HexInv(img, bad, t, Len(t)) /\ HexMore(h, t, l)
<1>1. /\ Len(h) \in Nat /\ Len(t) = Len(h) + 1 /\ \A i \in 1..Len(h) : t[i] = h[i]
      /\ t[Len(h) + 1] = l
  BY DEF Adds
<1>2. \A k \in 1..Len(h) + 1 : SegAt(t, k - 1) = SegAt(h, k - 1)
  BY <1>1 DEF SegAt
<1>3. ASSUME NEW k \in 1..Len(t)  PROVE IsLine(img, bad, t[k], SegAt(t, k - 1))
  <2>1. CASE k \in 1..Len(h)
    BY <1>1, <1>2, <2>1 DEF HexInv
  <2>2. CASE k = Len(h) + 1
    <3>1. t[k] = l /\ SegAt(t, k - 1) = SegAt(h, Len(h))
      BY <1>1, <1>2, <2>2
    <3> QED
      BY <3>1
  <2> QED
    BY <1>1, <2>1, <2>2
<1>4. SegAt(t, Len(t)) = l.seg
  BY <1>1 DEF SegAt
<1>5. \A k \in 1..Len(h) : k \in 1..Len(t)
  BY <1>1
<1>6. Len(t) \in 1..Len(t) /\ t[Len(t)] = l
  BY <1>1
<1>7. \A b : Written(h, Len(h), b) => Written(t, Len(t), b)
  BY <1>1, <1>5 DEF Written
<1>8. l.rtype = 0 => \A b : Covers(l, b) => Written(t, Len(t), b)
  BY <1>6 DEF Written
<1> QED
  BY <1>3, <1>4, <1>7, <1>8 DEF HexInv, HexMore

\* Joining one line, or none.
LEMMA JoinedOne ==
  ASSUME NEW s, IsSeq(s), NEW e, NEW t, t = s \o <<e>>
  PROVE  Adds(s, t, e)
<1> DEFINE o == <<e>>
<1>1. IsSeq(o) /\ Len(o) = 1 /\ o[1] = e
  BY One
<1>2. t = s \o o
  OBVIOUS
<1> HIDE DEF o
<1>3. Joins(s, o, t)
  BY <1>1, <1>2, Joined
<1>4. /\ IsSeq(t) /\ Len(s) \in Nat /\ Len(t) = Len(s) + 1
      /\ DOMAIN s = 1..Len(s) /\ DOMAIN t = 1..Len(s) + 1
      /\ \A i \in 1..Len(s) : t[i] = s[i]
      /\ t[Len(s) + 1] = e
  BY <1>1, <1>3 DEF Joins
<1> QED
  BY <1>4 DEF Adds

LEMMA JoinedNone ==
  ASSUME NEW s, IsSeq(s), NEW t, t = s \o <<>>
  PROVE  t = s
BY ConcatEmptySeq DEF IsSeq

\* An address has a segment and a place in it.
LEMMA SegParts ==
  ASSUME NEW n, n \in Int, NEW seg, seg = n \div SegLen, NEW rest, rest = n % SegLen
  PROVE  seg \in Int /\ rest \in Int /\ seg * SegLen + rest = n
<1>1. SegLen \in Nat \ {0}
  BY MatPicAssumption
<1> QED
  BY <1>1

\* What endln writes: a line that says what it is given, at the address.
LEMMA EndLine ==
  ASSUME IsSeq(hex), HexInv(image, clash, hex, Len(hex)), top = SegAt(hex, Len(hex)),
         asm.address \in Int, NEW bytes, IsSeq(bytes), endln(bytes),
         ~clash => \A i \in 1..Len(bytes) : /\ asm.address + i - 1 \in DOMAIN image
                                            /\ image[asm.address + i - 1] = bytes[i]
  PROVE  /\ IsSeq(hex') /\ HexInv(image, clash, hex', Len(hex')) /\ top' = SegAt(hex', Len(hex'))
         /\ \A b : Written(hex, Len(hex), b) => Written(hex', Len(hex'), b)
         /\ \A b \in Int : b - asm.address \in 0..Len(bytes) - 1 => Written(hex', Len(hex'), b)
<1> DEFINE seg == asm.address \div SegLen
           rest == asm.address % SegLen
           now == IF Upper(seg) = <<>> THEN top ELSE seg
           l == [rtype |-> 0, addr |-> asm.address % SegLen, data |-> bytes, seg |-> now]
           u == [rtype |-> 4, addr |-> 0, data |-> <<seg>>, seg |-> seg]
           h == hex \o Upper(seg)
<1>1. hex' = h \o <<l>> /\ top' = now
  BY DEF endln
<1>2. seg \in Int /\ rest \in Int /\ seg * SegLen + rest = asm.address
  BY SegParts
<1>3. u.rtype = 4 /\ u.data[1] = seg /\ u.seg = seg
  OBVIOUS
<1>4. /\ l.rtype = 0 /\ l.addr = rest /\ l.data = bytes /\ l.seg = now
  OBVIOUS
<1>5. \/ Upper(seg) = <<>> /\ h = hex \o <<>> /\ now = top /\ top = seg
      \/ h = hex \o <<u>> /\ now = seg
  <2>1. <<u>> # <<>>
    OBVIOUS
  <2> QED
    BY <2>1, <1>2 DEF Upper
<1> HIDE DEF h, l, u, now, seg, rest
<1>6. /\ IsSeq(h) /\ HexInv(image, clash, h, Len(h)) /\ SegAt(h, Len(h)) = now /\ now = seg
      /\ \A b : Written(hex, Len(hex), b) => Written(h, Len(h), b)
  <2>1. CASE h = hex \o <<>> /\ now = top /\ top = seg
    <3>1. h = hex
      BY <2>1, JoinedNone
    <3> QED
      BY <2>1, <3>1
  <2>2. CASE h = hex \o <<u>> /\ now = seg
    <3>1. Adds(hex, h, u)
      BY <2>2, JoinedOne
    <3>2. IsLine(image, clash, u, SegAt(hex, Len(hex)))
      BY <1>2, <1>3 DEF IsLine
    <3>3. HexInv(image, clash, h, Len(h)) /\ HexMore(hex, h, u)
      BY <3>1, <3>2, HexAdds
    <3> QED
      BY <1>3, <2>2, <3>1, <3>3 DEF HexMore, Adds
  <2> QED
    BY <1>5, <2>1, <2>2
<1>7. Lies(l) = asm.address
  BY <1>2, <1>4, <1>6 DEF Lies
<1>8. IsLine(image, clash, l, SegAt(h, Len(h)))
  <2>1. ~clash => Says(image, l)
    BY <1>4, <1>7 DEF Says
  <2> QED
    BY <1>2, <1>4, <1>6, <2>1 DEF IsLine
<1>9. Adds(h, hex', l)
  BY <1>1, <1>6, JoinedOne
<1>10. HexInv(image, clash, hex', Len(hex')) /\ HexMore(h, hex', l)
  BY <1>6, <1>8, <1>9, HexAdds
<1>11. \A b \in Int : b - asm.address \in 0..Len(bytes) - 1 => Covers(l, b)
  BY <1>4, <1>7 DEF Covers
<1> QED
  BY <1>1, <1>4, <1>6, <1>9, <1>10, <1>11 DEF HexMore, Adds

\* Nothing is written yet.
LEMMA WriteEndPass2 ==
  ASSUME StateInv, LaidInv, EndPass2
  PROVE  WriteInv'
<1>0. /\ phase' = "write" /\ pc' = 1 /\ UNCHANGED <<hexVars, readVars>> /\ NothingRead
  BY InPass2Facts DEF EndPass2, InPass2
<1>1. hex' = <<>> /\ top' = 0 /\ wbuf' = 0 /\ dsym' = <<>> /\ inbuf' = <<>>
  BY <1>0 DEF NothingRead, hexVars, readVars
<1>2. IsSeq(hex') /\ Len(hex') = 0
  BY <1>1, None
<1>3. 1..Len(hex') = {} /\ 1 - 1 = 0
  BY <1>2
<1>4. HexInv(image', clash', hex', Len(hex')) /\ top' = SegAt(hex', Len(hex'))
  BY <1>1, <1>2, <1>3 DEF HexInv, SegAt
<1>5. LastOrg(asm'.inss, 0, pc')
  BY <1>0 DEF LastOrg
<1>6. \A b \in DOMAIN image' : ToCome(b, pc)'
  BY <1>0, DoneEndPass2 DEF ToCome
<1>7. \E j \in 0..pc' - 1 : /\ LastOrg(asm'.inss, j, pc')
                            /\ wbuf' = IF j = 0 THEN 0 ELSE asm'.inss[j].end
  BY <1>0, <1>1, <1>5
<1> QED
  BY <1>0, <1>1, <1>2, <1>4, <1>6, <1>7 DEF WriteInv

\* What ihex_write leaves as it is.
LEMMA WriteSame ==
  ASSUME StateInv, DoneInv, phase \in {"write", "line"}, InWrite, Same(asm, asm', {"address"})
  PROVE  /\ asm'.inss = asm.inss /\ asm'.outbuf = asm.outbuf
         /\ UNCHANGED <<map, mapitem, image, clash, dsym, inbuf>>
         /\ DoneInv' /\ \A b, n : ToCome(b, n) => ToCome(b, n)'
<1>1. asm'.inss = asm.inss /\ asm'.outbuf = asm.outbuf
  BY DEF Same, Fields
<1>2. UNCHANGED <<map, mapitem, image, clash, dsym, inbuf>>
  BY DEF InWrite
<1>3. \A k \in DOMAIN asm.inss : asm.inss[k].type = "org" => DoneOrg(k)
  BY DEF DoneInv
<1>4. \A k : DoneOrg(k) => DoneOrg(k)'
  BY <1>1, <1>2 DEF DoneOrg
<1>5. DoneInv'
  BY <1>1, <1>3, <1>4 DEF DoneInv
<1> QED
  BY <1>1, <1>2, <1>5 DEF ToCome

\* An org that is to be written: its numbers, and what is known of its bytes.
LEMMA OrgToWrite ==
  ASSUME StateInv, DoneInv, phase \in {"write", "line"}, Ins.type = "org"
  PROVE  /\ Ins.start \in Nat /\ Ins.end \in Nat /\ Ins.address \in Int /\ Place(Ins) \in Int
         /\ DoneOrg(pc) /\ Ins.start <= Ins.end /\ Ins.end <= Len(asm.outbuf)
         /\ pc \in Nat \ {0} /\ pc \in DOMAIN asm.inss
<1>1. pc \in Nat \ {0} /\ pc \in DOMAIN asm.inss /\ BufInv(asm)
  BY InWriteFacts
<1>2. DoneOrg(pc)
  BY <1>1 DEF DoneInv, Ins
<1>3. Ins.start \in Nat /\ Ins.end \in Nat /\ Ins.address \in Int
  BY <1>1, OrgNumbers DEF Ins
<1>4. Place(Ins) \in Int
  BY <1>3 DEF Place, Align
<1> QED
  BY <1>1, <1>2, <1>3, <1>4 DEF DoneOrg, Ins

\* An org with bytes gives its lines a place to start from.
LEMMA WriteWriteOrg ==
  ASSUME StateInv, DoneInv, WriteInv, WriteOrg
  PROVE  DoneInv' /\ WriteInv'
<1>0. /\ phase = "write" /\ phase' = "line" /\ Ins.type = "org" /\ InWrite
      /\ asm' = [asm EXCEPT !.address = Ins.address * Align] /\ UNCHANGED <<pc, hex, top, wbuf>>
  BY DEF WriteOrg, hexVars
<1>1. Same(asm, asm', {"address"}) /\ asm'.address = Place(Ins)
  BY <1>0, InWriteFacts DEF Shape, Fields, Same, Place
<1>2. /\ asm'.inss = asm.inss /\ UNCHANGED <<image, clash, dsym, inbuf>>
      /\ DoneInv' /\ \A b, n : ToCome(b, n) => ToCome(b, n)'
  BY <1>0, <1>1, WriteSame
<1>3. /\ Ins.start \in Nat /\ Ins.end \in Nat /\ Place(Ins) \in Int
      /\ DoneOrg(pc) /\ Ins.start <= Ins.end /\ pc \in Nat \ {0} /\ pc \in DOMAIN asm.inss
  BY <1>0, OrgToWrite
<1>4. Ins' = Ins
  BY <1>0, <1>2 DEF Ins
<1>5. wbuf = Ins.start
  <2>1. PICK j \in 0..pc - 1 : /\ LastOrg(asm.inss, j, pc)
                               /\ wbuf = IF j = 0 THEN 0 ELSE asm.inss[j].end
    BY <1>0 DEF WriteInv
  <2> QED
    BY <1>3, <2>1 DEF DoneOrg, GoesOn, Ins
<1>6. ASSUME NEW b \in DOMAIN image, ToCome(b, pc)  PROVE Remain(b)'
  <2>1. PICK k \in DOMAIN asm.inss : /\ k >= pc /\ asm.inss[k].type = "org"
                                     /\ Holds(asm.inss[k], asm.inss[k].end, b)
    BY <1>6 DEF ToCome
  <2>2. k \in Nat
    BY <1>0, InWriteFacts
  <2>3. CASE k = pc
    <3>1. b \in Int /\ b - Place(Ins) \in 0..Ins.end - Ins.start - 1
      BY <2>1, <2>3 DEF Holds, Ins
    <3>2. wbuf' - Ins'.start = 0 /\ Ins' = Ins
      BY <1>0, <1>3, <1>4, <1>5
    <3> QED
      BY <3>1, <3>2 DEF Remain
  <2>4. CASE k # pc
    <3>1. k >= pc + 1
      BY <1>3, <2>1, <2>2, <2>4
    <3>2. ToCome(b, pc + 1)
      BY <2>1, <3>1 DEF ToCome
    <3>3. ToCome(b, pc + 1)'
      BY <1>0, <1>2, <3>2 DEF ToCome
    <3> QED
      BY <3>3 DEF Remain
  <2> QED
    BY <2>3, <2>4
<1>7. asm'.address = Place(Ins') + wbuf' - Ins'.start /\ wbuf' \in Ins'.start..Ins'.end
  <2>1. wbuf' = Ins.start
    BY <1>0, <1>5
  <2> DEFINE place == Place(Ins)
             start == Ins.start
             end == Ins.end
  <2>2. start \in Nat /\ end \in Nat /\ start <= end /\ place \in Int
    BY <1>3
  <2>3. asm'.address = place /\ wbuf' = start
    BY <1>1, <2>1
  <2> HIDE DEF place, start, end
  <2>4. asm'.address = place + wbuf' - start /\ wbuf' \in start..end
    BY <2>2, <2>3
  <2> QED
    BY <2>4, <1>4 DEF place, start, end
<1>8. \A b \in DOMAIN image : Written(hex, Len(hex), b) \/ ToCome(b, pc)
  BY <1>0 DEF WriteInv
<1> QED
  BY <1>0, <1>2, <1>6, <1>7, <1>8 DEF WriteInv

\* The next entry has the last org before it, and that one's bytes are written.
LEMMA WriteWriteNext ==
  ASSUME StateInv, DoneInv, WriteInv, WriteNext
  PROVE  DoneInv' /\ WriteInv'
<1>0. /\ phase' = "write" /\ InWrite /\ asm' = asm /\ UNCHANGED <<hex, top, wbuf>> /\ pc' = pc + 1
      /\ \/ phase = "line" /\ wbuf = Ins.end
         \/ phase = "write" /\ Ins.type \notin {"org", "end"}
  BY DEF WriteNext, hexVars
<1>1. /\ UNCHANGED <<image, clash, dsym, inbuf>>
      /\ DoneInv' /\ \A b, n : ToCome(b, n) => ToCome(b, n)'
  BY <1>0, WriteSame DEF Same
<1>2. pc \in Nat \ {0} /\ pc \in DOMAIN asm.inss
  BY <1>0, InWriteFacts
<1>3. \E j \in 0..pc' - 1 :
        LastOrg(asm.inss, j, pc') /\ wbuf = IF j = 0 THEN 0 ELSE asm.inss[j].end
  <2>1. CASE phase = "line" /\ wbuf = Ins.end
    <3>1. asm.inss[pc].type = "org"
      BY <2>1 DEF StateInv, Dead, Ins
    <3>2. LastOrg(asm.inss, pc, pc') /\ pc \in 0..pc' - 1
      BY <1>0, <1>2, <3>1 DEF LastOrg
    <3> QED
      BY <1>2, <2>1, <3>2 DEF Ins
  <2>2. CASE phase = "write" /\ Ins.type \notin {"org", "end"}
    <3>1. PICK j \in 0..pc - 1 : /\ LastOrg(asm.inss, j, pc)
                                 /\ wbuf = IF j = 0 THEN 0 ELSE asm.inss[j].end
      BY <2>2 DEF WriteInv
    <3>2. LastOrg(asm.inss, j, pc') /\ j \in 0..pc' - 1
      BY <1>0, <1>2, <2>2, <3>1 DEF LastOrg, Ins
    <3> QED
      BY <3>1, <3>2
  <2> QED
    BY <1>0, <2>1, <2>2
<1>4. ASSUME NEW b \in DOMAIN image  PROVE Written(hex, Len(hex), b) \/ ToCome(b, pc + 1)
  <2>1. CASE phase = "line" /\ wbuf = Ins.end
    <3>1. Written(hex, Len(hex), b) \/ Remain(b)
      BY <2>1 DEF WriteInv
    <3>2. wbuf - Ins.start..Ins.end - Ins.start - 1 = {}
      <4>1. Ins.type = "org"
        BY <2>1 DEF StateInv, Dead
      <4>2. Ins.start \in Nat /\ Ins.end \in Nat
        BY <2>1, <4>1, OrgToWrite
      <4> QED
        BY <2>1, <4>2
    <3> QED
      BY <3>1, <3>2 DEF Remain
  <2>2. CASE phase = "write" /\ Ins.type \notin {"org", "end"}
    <3>1. Written(hex, Len(hex), b) \/ ToCome(b, pc)
      BY <2>2 DEF WriteInv
    <3>2. ASSUME ToCome(b, pc)  PROVE ToCome(b, pc + 1)
      <4>1. PICK k \in DOMAIN asm.inss : /\ k >= pc /\ asm.inss[k].type = "org"
                                         /\ Holds(asm.inss[k], asm.inss[k].end, b)
        BY <3>2 DEF ToCome
      <4>2. k \in Nat /\ k # pc
        BY <1>0, <2>2, <4>1, InWriteFacts DEF Ins
      <4>3. k >= pc + 1
        BY <1>2, <4>1, <4>2
      <4> QED
        BY <4>1, <4>3 DEF ToCome
    <3> QED
      BY <3>1, <3>2
  <2> QED
    BY <1>0, <2>1, <2>2
<1>5. \A b \in DOMAIN image' : Written(hex', Len(hex'), b) \/ ToCome(b, pc)'
  BY <1>0, <1>1, <1>4 DEF ToCome
<1>6. phase \in {"write", "line"}
  BY <1>0
<1> QED
  BY <1>0, <1>1, <1>3, <1>5, <1>6 DEF WriteInv

\* A line of the file has the image's bytes, at their address.
LEMMA WriteWriteLine ==
  ASSUME StateInv, DoneInv, WriteInv, WriteLine
  PROVE  DoneInv' /\ WriteInv'
<1> DEFINE n == Smaller(Ins.end - wbuf, IHLL)
           bytes == [i \in 1..n |-> asm.outbuf[wbuf + i]]
           place == Place(Ins)
           start == Ins.start
           end == Ins.end
<1>0. /\ phase = "line" /\ phase' = "line" /\ InWrite /\ endln(bytes) /\ wbuf' = wbuf + n /\ pc' = pc
      /\ wbuf # end
  BY DEF WriteLine
<1>1. asm' = [asm EXCEPT !.address = @ + Len(bytes)]
  BY <1>0 DEF endln
<1>2. Same(asm, asm', {"address"}) /\ asm'.address = asm.address + Len(bytes)
  BY <1>0, <1>1, InWriteFacts DEF Shape, Fields, Same
<1>3. Ins.type = "org"
  BY <1>0 DEF StateInv, Dead
<1>4. /\ start \in Nat /\ end \in Nat /\ place \in Int
      /\ DoneOrg(pc) /\ start <= end /\ end <= Len(asm.outbuf)
  BY <1>0, <1>3, OrgToWrite
<1>5. /\ asm'.inss = asm.inss /\ UNCHANGED <<image, clash, dsym, inbuf>>
      /\ DoneInv' /\ \A b, m : ToCome(b, m) => ToCome(b, m)'
  BY <1>0, <1>2, WriteSame
<1>6. Ins' = Ins
  BY <1>0, <1>5 DEF Ins
<1>7. /\ IsSeq(hex) /\ HexInv(image, clash, hex, Len(hex)) /\ top = SegAt(hex, Len(hex))
      /\ wbuf \in start..end /\ asm.address = place + wbuf - start
      /\ \A b \in DOMAIN image : Written(hex, Len(hex), b) \/ Remain(b)
      /\ dsym = <<>> /\ inbuf = <<>>
  BY <1>0 DEF WriteInv
<1>8. n \in Nat /\ wbuf + n <= end /\ wbuf \in Nat
  <2>1. IHLL \in Nat \ {0}
    BY MatPicAssumption
  <2> HIDE DEF start, end
  <2>2. n = Smaller(end - wbuf, IHLL)
    BY DEF end
  <2> HIDE DEF n
  <2> QED
    BY <1>4, <1>7, <2>1, <2>2 DEF Smaller
<1>9. bytes = [i \in 1..n |-> bytes[i]] /\ \A i \in 1..n : bytes[i] = asm.outbuf[wbuf + i]
  OBVIOUS
<1>10. ~clash => Laid(image, Ins, end, asm.outbuf)
  BY <1>4 DEF DoneOrg, Ins
<1>11. ~clash => \A i \in start..end - 1 : /\ place + i - start \in DOMAIN image
                                           /\ image[place + i - start] = asm.outbuf[i + 1]
  BY <1>10 DEF Laid
<1> HIDE DEF n, bytes, place, start, end
<1>12. IsSeq(bytes) /\ Len(bytes) = n
  BY <1>8, <1>9, Tabulated
<1>13. ASSUME ~clash, NEW i \in 1..Len(bytes)
       PROVE  asm.address + i - 1 \in DOMAIN image /\ image[asm.address + i - 1] = bytes[i]
  <2> DEFINE j == wbuf + i - 1
  <2>1. /\ j \in start..end - 1 /\ place + j - start = asm.address + i - 1 /\ j + 1 = wbuf + i
        /\ i \in 1..n
    BY <1>4, <1>7, <1>8, <1>12
  <2>2. bytes[i] = asm.outbuf[j + 1]
    BY <1>9, <2>1
  <2> HIDE DEF j
  <2> QED
    BY <1>11, <1>13, <2>1, <2>2
<1>14. asm.address \in Int
  BY <1>4, <1>7, <1>8
<1>15. /\ IsSeq(hex') /\ HexInv(image, clash, hex', Len(hex')) /\ top' = SegAt(hex', Len(hex'))
       /\ \A b : Written(hex, Len(hex), b) => Written(hex', Len(hex'), b)
       /\ \A b \in Int : b - asm.address \in 0..Len(bytes) - 1 => Written(hex', Len(hex'), b)
  BY <1>0, <1>7, <1>12, <1>13, <1>14, EndLine
<1>16. ASSUME NEW b \in DOMAIN image, Remain(b)  PROVE Written(hex', Len(hex'), b) \/ Remain(b)'
  <2>1. CASE ToCome(b, pc + 1)
    BY <1>0, <1>5, <2>1 DEF Remain, ToCome
  <2>2. CASE b \in Int /\ b - place \in wbuf - start..end - start - 1
    <3>1. CASE b - place < wbuf + n - start
      <4>1. b - asm.address \in 0..n - 1
        BY <1>4, <1>7, <1>8, <2>2, <3>1
      <4> QED
        BY <1>12, <1>15, <2>2, <4>1
    <3>2. CASE ~(b - place < wbuf + n - start)
      <4>1. b - place \in wbuf + n - start..end - start - 1
        BY <1>4, <1>7, <1>8, <2>2, <3>2
      <4>9. wbuf' = wbuf + n
        BY <1>0
      <4>0. b - place \in wbuf' - start..end - start - 1
        BY <1>4, <1>7, <1>8, <2>2, <4>1, <4>9
      <4>2. b \in Int /\ b - Place(Ins) \in wbuf' - Ins.start..Ins.end - Ins.start - 1
        BY <2>2, <4>0 DEF place, start, end
      <4> QED
        BY <1>6, <4>2 DEF Remain
    <3> QED
      BY <3>1, <3>2
  <2> QED
    BY <1>16, <2>1, <2>2 DEF Remain, place, start, end
<1>17. wbuf' \in start..end /\ wbuf' \in Nat /\ asm'.address = place + wbuf' - start
  BY <1>0, <1>2, <1>4, <1>7, <1>8, <1>12
<1>18. wbuf' \in Ins'.start..Ins'.end /\ asm'.address = Place(Ins') + wbuf' - Ins'.start
  BY <1>6, <1>17 DEF place, start, end
<1> QED
  BY <1>0, <1>5, <1>7, <1>15, <1>16, <1>17, <1>18 DEF WriteInv

-----------------------------------------------------------------------------
(* What is read back.                                                      *)

AreaOf(ds, l) == \E n \in DOMAIN ds : ds[n].addr = Lies(l) /\ ds[n].len = Len(l.data)
GoodArea(img, bad, in, d) ==
  /\ d.len \in Nat /\ d.addr \in Int /\ d.at \in Nat /\ d.at + d.len <= Len(in)
  /\ ~bad => \A i \in 0..d.len - 1 : /\ d.addr + i \in DOMAIN img
                                     /\ img[d.addr + i] = in[d.at + i + 1]
GoodAreas(img, bad, in, ds) == \A n \in DOMAIN ds : GoodArea(img, bad, in, ds[n])
AreasOf(ds, h, n) == \A k \in 1..n : h[k].rtype = 0 => AreaOf(ds, h[k])
AllWritten == \A b \in DOMAIN image : Written(hex, Len(hex) - 1, b)
ReadInv ==
  phase = "read" =>
    /\ IsSeq(hex) /\ Len(hex) > 0 /\ hex[Len(hex)].rtype = 1
    /\ HexInv(image, clash, hex, Len(hex) - 1) /\ AllWritten
    /\ rd \in 1..Len(hex) /\ top = SegAt(hex, rd - 1)
    /\ IsSeq(dsym) /\ IsSeq(inbuf) /\ GoodAreas(image, clash, inbuf, dsym)
    /\ AreasOf(dsym, hex, rd - 1)

\* At the end of the program no org is to come.
LEMMA ReadWriteEnd ==
  ASSUME StateInv, DoneInv, WriteInv, WriteEnd
  PROVE  ReadInv'
<1> DEFINE eof == [rtype |-> 1, addr |-> 0, data |-> <<>>, seg |-> top]
<1>0. /\ phase = "write" /\ Ins.type = "end" /\ hex' = Append(hex, eof) /\ top' = 0 /\ rd' = 1
      /\ UNCHANGED <<image, clash, dsym, inbuf>>
  BY DEF WriteEnd, InWrite
<1>1. eof.rtype = 1
  OBVIOUS
<1> HIDE DEF eof
<1>2. /\ IsSeq(hex) /\ HexInv(image, clash, hex, Len(hex)) /\ dsym = <<>> /\ inbuf = <<>>
      /\ \A b \in DOMAIN image : Written(hex, Len(hex), b) \/ ToCome(b, pc)
  BY <1>0 DEF WriteInv
<1>3. Adds(hex, hex', eof)
  BY <1>0, <1>2, Appended
<1>4. /\ Len(hex) \in Nat /\ Len(hex') = Len(hex) + 1 /\ Len(hex') - 1 = Len(hex) /\ IsSeq(hex')
      /\ \A k \in 1..Len(hex) : hex'[k] = hex[k]
      /\ hex'[Len(hex')] = eof
  BY <1>3 DEF Adds
<1>5. \A k \in 1..Len(hex) : SegAt(hex', k - 1) = SegAt(hex, k - 1)
  BY <1>4 DEF SegAt
<1>6. HexInv(image', clash', hex', Len(hex') - 1)
  BY <1>0, <1>2, <1>4, <1>5 DEF HexInv
<1>7. ASSUME NEW b  PROVE ~ToCome(b, pc)
  <2>1. /\ pc \in Nat \ {0} /\ Len(asm.inss) \in Nat /\ DOMAIN asm.inss = 1..Len(asm.inss)
        /\ Ended(asm.inss) /\ pc \in DOMAIN asm.inss
    BY <1>0, InWriteFacts
  <2>2. pc = Len(asm.inss)
    BY <1>0, <2>1 DEF Ended, Ins
  <2>3. \A k \in DOMAIN asm.inss : k >= pc => k = pc
    BY <2>1, <2>2
  <2> QED
    BY <1>0, <2>3 DEF ToCome, Ins
<1>8. \A b \in DOMAIN image : Written(hex, Len(hex), b)
  BY <1>2, <1>7
<1>9. AllWritten'
  BY <1>0, <1>4, <1>8 DEF AllWritten, Written
<1>10. /\ IsSeq(dsym') /\ IsSeq(inbuf') /\ DOMAIN dsym' = {} /\ 1..rd' - 1 = {}
       /\ rd' - 1 = 0
  <2>1. Len(dsym') = 0 /\ IsSeq(dsym') /\ IsSeq(inbuf')
    BY <1>0, <1>2, None
  <2> QED
    BY <1>0, <2>1, SeqShape
<1>11. /\ GoodAreas(image', clash', inbuf', dsym') /\ AreasOf(dsym', hex', rd' - 1)
       /\ top' = SegAt(hex', rd' - 1)
  BY <1>0, <1>10 DEF GoodAreas, AreasOf, SegAt
<1> QED
  BY <1>0, <1>1, <1>4, <1>6, <1>9, <1>10, <1>11 DEF ReadInv

\* A line of data makes an area of it.
LEMMA AreaAdded ==
  ASSUME NEW img, NEW bad, NEW in, IsSeq(in), NEW ds, IsSeq(ds), GoodAreas(img, bad, in, ds),
         NEW l, l.rtype = 0, IsLine(img, bad, l, l.seg), Lies(l) \in Int,
         NEW d, d.addr = Lies(l), d.len = Len(l.data), d.at = Len(in),
         NEW inn, Joins(in, l.data, inn), NEW dss, Adds(ds, dss, d)
  PROVE  /\ GoodAreas(img, bad, inn, dss) /\ AreaOf(dss, l)
         /\ \A m : AreaOf(ds, m) => AreaOf(dss, m)
<1>0. IsSeq(l.data) /\ (~bad => Says(img, l))
  BY DEF IsLine
<1>1. /\ Len(l.data) \in Nat /\ Len(in) \in Nat /\ Len(inn) = Len(in) + Len(l.data)
      /\ \A i \in 1..Len(in) : inn[i] = in[i]
      /\ \A i \in 1..Len(l.data) : inn[Len(in) + i] = l.data[i]
  BY DEF Joins
<1>2. /\ Len(ds) \in Nat /\ DOMAIN ds = 1..Len(ds) /\ DOMAIN dss = 1..Len(ds) + 1
      /\ \A i \in 1..Len(ds) : dss[i] = ds[i]
      /\ dss[Len(ds) + 1] = d
  BY DEF Adds
<1>3. ASSUME NEW n \in 1..Len(ds)  PROVE GoodArea(img, bad, inn, dss[n])
  <2> DEFINE e == ds[n]
             len == e.len
             at == e.at
             addr == e.addr
  <2>1. GoodArea(img, bad, in, e) /\ dss[n] = e
    BY <1>2 DEF GoodAreas
  <2> HIDE DEF e
  <2>2. /\ len \in Nat /\ addr \in Int /\ at \in Nat /\ at + len <= Len(in)
        /\ ~bad => \A i \in 0..len - 1 : addr + i \in DOMAIN img /\ img[addr + i] = in[at + i + 1]
    BY <2>1 DEF GoodArea
  <2> HIDE DEF len, at, addr
  <2>3. at + len <= Len(inn)
    BY <1>1, <2>2
  <2>4. \A i \in 0..len - 1 : inn[at + i + 1] = in[at + i + 1]
    <3>1. \A i \in 0..len - 1 : at + i + 1 \in 1..Len(in)
      BY <1>1, <2>2
    <3> QED
      BY <1>1, <3>1
  <2>5. ~bad => \A i \in 0..len - 1 : addr + i \in DOMAIN img /\ img[addr + i] = inn[at + i + 1]
    BY <2>2, <2>4
  <2> QED
    BY <2>1, <2>2, <2>3, <2>5 DEF GoodArea, len, at, addr
<1>4. GoodArea(img, bad, inn, d)
  <2> DEFINE len == Len(l.data)
             at == Len(in)
             addr == Lies(l)
  <2>1. len \in Nat /\ at \in Nat /\ at + len <= Len(inn) /\ addr \in Int
    BY <1>1
  <2>2. ~bad => \A i \in 1..len : addr + i - 1 \in DOMAIN img /\ img[addr + i - 1] = l.data[i]
    BY <1>0 DEF Says
  <2>3. \A i \in 1..len : inn[at + i] = l.data[i]
    BY <1>1
  <2> HIDE DEF len, at, addr
  <2>4. ASSUME ~bad, NEW i \in 0..len - 1
        PROVE  addr + i \in DOMAIN img /\ img[addr + i] = inn[at + i + 1]
    <3> DEFINE j == i + 1
    <3>1. j \in 1..len /\ addr + j - 1 = addr + i /\ at + j = at + i + 1
      BY <2>1
    <3> HIDE DEF j
    <3> QED
      BY <2>2, <2>3, <2>4, <3>1
  <2> QED
    BY <2>1, <2>4 DEF GoodArea, len, at, addr
<1>5. GoodAreas(img, bad, inn, dss)
  <2> SUFFICES ASSUME NEW n \in DOMAIN dss  PROVE GoodArea(img, bad, inn, dss[n])
    BY DEF GoodAreas
  <2>1. n \in 1..Len(ds) \/ n = Len(ds) + 1
    BY <1>2
  <2> QED
    BY <1>2, <1>3, <1>4, <2>1
<1>6. Len(ds) + 1 \in DOMAIN dss
  BY <1>2
<1>7. AreaOf(dss, l)
  BY <1>2, <1>6 DEF AreaOf
<1>8. ASSUME NEW m, AreaOf(ds, m)  PROVE AreaOf(dss, m)
  <2>1. PICK n \in DOMAIN ds : ds[n].addr = Lies(m) /\ ds[n].len = Len(m.data)
    BY <1>8 DEF AreaOf
  <2>2. n \in DOMAIN dss /\ dss[n] = ds[n]
    BY <1>2, <2>1
  <2> QED
    BY <2>1, <2>2 DEF AreaOf
<1> QED
  BY <1>5, <1>7, <1>8

\* A line read is put after its area, or is one; at the end all were read.
LEMMA ReadRead ==
  ASSUME ReadInv, Read
  PROVE  ReadInv' /\ HexIsImage'
<1> DEFINE l == hex[rd]
<1>0. /\ phase = "read" /\ rd' = rd + 1 /\ UNCHANGED <<hex, image, clash>>
  BY DEF Read, pass2Vars
<1>1. /\ IsSeq(hex) /\ Len(hex) > 0 /\ hex[Len(hex)].rtype = 1
      /\ HexInv(image, clash, hex, Len(hex) - 1) /\ AllWritten
      /\ rd \in 1..Len(hex) /\ top = SegAt(hex, rd - 1)
      /\ IsSeq(dsym) /\ IsSeq(inbuf) /\ GoodAreas(image, clash, inbuf, dsym)
      /\ AreasOf(dsym, hex, rd - 1)
  BY <1>0 DEF ReadInv
<1>2. Len(hex) \in Nat /\ AllWritten'
  BY <1>0, <1>1, SeqShape DEF AllWritten
<1>3. rd \in 1..Len(hex) - 1 => IsLine(image, clash, l, top)
  BY <1>1 DEF HexInv
<1>4. rd' - 1 = rd /\ (rd # Len(hex) => rd' \in 1..Len(hex) /\ rd \in 1..Len(hex) - 1)
      /\ SegAt(hex, rd) = l.seg /\ rd' - 1 \in Int /\ rd \in Nat
  BY <1>0, <1>1, <1>2 DEF SegAt
<1>5. CASE l.rtype = 0
  <2> DEFINE area == [addr |-> top * SegLen + l.addr, len |-> Len(l.data), at |-> Len(inbuf)]
  <2>1. dsym' = Append(dsym, area) /\ inbuf' = inbuf \o l.data /\ UNCHANGED <<phase, top>>
    BY <1>5 DEF Read
  <2>2. rd # Len(hex)
    BY <1>1, <1>5
  <2>3. IsLine(image, clash, l, top)
    BY <1>3, <1>4, <2>2
  <2>4. l.seg = top /\ IsSeq(l.data) /\ l.addr \in Int /\ l.seg \in Int
    BY <1>5, <2>3 DEF IsLine
  <2>5. Lies(l) \in Int
    <3>1. SegLen \in Nat
      BY MatPicAssumption
    <3> QED
      BY <2>4, <3>1 DEF Lies
  <2>6. area.addr = Lies(l) /\ area.len = Len(l.data) /\ area.at = Len(inbuf)
    BY <2>4 DEF Lies
  <2> HIDE DEF area
  <2>7. Adds(dsym, dsym', area) /\ Joins(inbuf, l.data, inbuf')
    BY <1>1, <2>1, <2>4, Appended, Joined
  <2>8. IsLine(image, clash, l, l.seg)
    BY <2>3, <2>4
  <2> HIDE DEF l
  <2>9. /\ GoodAreas(image, clash, inbuf', dsym') /\ AreaOf(dsym', l)
        /\ \A m : AreaOf(dsym, m) => AreaOf(dsym', m)
    BY <1>1, <1>5, <2>5, <2>6, <2>7, <2>8, AreaAdded
  <2>10. AreasOf(dsym', hex', rd' - 1)
    <3> SUFFICES ASSUME NEW k \in 1..rd, hex[k].rtype = 0  PROVE AreaOf(dsym', hex[k])
      BY <1>0, <1>4 DEF AreasOf
    <3>1. k \in 1..rd - 1 \/ k = rd
      BY <1>4
    <3> QED
      BY <1>1, <2>9, <3>1 DEF AreasOf, l
  <2>11. top' = SegAt(hex', rd' - 1)
    BY <1>0, <1>4, <2>1, <2>4
  <2>12. phase' = "read" /\ HexIsImage'
    BY <1>0, <2>1 DEF HexIsImage
  <2> QED
    BY <1>0, <1>1, <1>2, <1>4, <2>2, <2>7, <2>9, <2>10, <2>11, <2>12 DEF ReadInv, Adds, Joins
<1>6. CASE l.rtype = 4
  <2>1. top' = l.data[1] /\ UNCHANGED <<phase, dsym, inbuf>>
    BY <1>6 DEF Read
  <2>2. rd # Len(hex)
    BY <1>1, <1>6
  <2>3. l.data[1] = l.seg
    BY <1>3, <1>4, <1>6, <2>2 DEF IsLine
  <2>4. AreasOf(dsym', hex', rd' - 1)
    <3> SUFFICES ASSUME NEW k \in 1..rd, hex[k].rtype = 0  PROVE AreaOf(dsym, hex[k])
      BY <1>0, <1>4, <2>1 DEF AreasOf
    <3>1. k \in 1..rd - 1 \/ k = rd
      BY <1>4
    <3> QED
      BY <1>1, <1>6, <3>1 DEF AreasOf
  <2>5. phase' = "read" /\ HexIsImage' /\ top' = SegAt(hex', rd' - 1)
    BY <1>0, <1>4, <2>1, <2>3 DEF HexIsImage
  <2> QED
    BY <1>0, <1>1, <1>2, <1>4, <2>1, <2>2, <2>4, <2>5 DEF ReadInv
<1>7. CASE l.rtype = 1
  <2>1. phase' = "dis" /\ UNCHANGED <<dsym, inbuf>>
    BY <1>7 DEF Read
  <2>2. rd = Len(hex)
    BY <1>3, <1>4, <1>7 DEF IsLine
  <2>3. ASSUME NEW b \in DOMAIN image
        PROVE  \E n \in DOMAIN dsym : b - dsym[n].addr \in 0..dsym[n].len - 1
    <3>1. PICK k \in 1..Len(hex) - 1 : hex[k].rtype = 0 /\ Covers(hex[k], b)
      BY <1>1 DEF AllWritten, Written
    <3>2. AreaOf(dsym, hex[k])
      BY <1>1, <2>2, <3>1 DEF AreasOf
    <3>3. PICK n \in DOMAIN dsym : dsym[n].addr = Lies(hex[k]) /\ dsym[n].len = Len(hex[k].data)
      BY <3>2 DEF AreaOf
    <3> QED
      BY <3>1, <3>3 DEF Covers
  <2>4. ~clash => \A k \in DOMAIN dsym : \A i \in 0..dsym[k].len - 1 :
                    /\ dsym[k].addr + i \in DOMAIN image
                    /\ image[dsym[k].addr + i] = inbuf[dsym[k].at + i + 1]
    BY <1>1 DEF GoodAreas, GoodArea
  <2> QED
    BY <1>0, <2>1, <2>3, <2>4 DEF HexIsImage, ReadInv
<1> QED
  BY <1>5, <1>6, <1>7 DEF Read

\* What is known of the image and of the hex file, in every phase.
ImageInv == LaidInv /\ DoneInv /\ WriteInv /\ ReadInv /\ HexIsImage

\* Outside these phases nothing is said of the image.
LEMMA ImageAway ==
  ASSUME phase \notin {"pass2", "write", "line", "read", "dis"}
  PROVE  ImageInv
BY DEF ImageInv, LaidInv, DoneInv, WriteInv, ReadInv, HexIsImage

\* The steps keep it, phase by phase.
LEMMA ImagePass2 ==
  ASSUME StateInv, LaidInv,
         EndPass1 \/ PassIns \/ PassArg \/ PassData \/ PassOrg \/ PassLabel
  PROVE  ImageInv'
<1>1. phase' \in {"pass2", "error", "crash", "done"}
  <2>1. CASE EndPass1
    BY <2>1 DEF EndPass1
  <2>2. CASE PassArg
    BY <2>2, ArgEffect DEF Dead
  <2>3. CASE PassOrg \/ PassLabel
    BY <2>3 DEF PassOrg, PassLabel, InPass2
  <2>4. CASE PassIns \/ PassData
    BY <2>4 DEF PassIns, PassData, InPass2, Placed, Stops
  <2> QED
    BY <2>1, <2>2, <2>3, <2>4
<1>2. LaidInv'
  BY LaidEndPass1, LaidPassItem, LaidPassArg, LaidPassOrg, LaidPassLabel
<1> QED
  BY <1>1, <1>2 DEF ImageInv, DoneInv, WriteInv, ReadInv, HexIsImage

LEMMA ImageWrite ==
  ASSUME StateInv, ImageInv, EndPass2 \/ WriteOrg \/ WriteLine \/ WriteNext
  PROVE  ImageInv'
<1>1. phase' \in {"write", "line"}
  BY DEF EndPass2, WriteOrg, WriteLine, WriteNext
<1>2. DoneInv' /\ WriteInv'
  BY DoneEndPass2, WriteEndPass2, WriteWriteOrg, WriteWriteLine, WriteWriteNext DEF ImageInv
<1> QED
  BY <1>1, <1>2 DEF ImageInv, LaidInv, ReadInv, HexIsImage

LEMMA ImageRead ==
  ASSUME StateInv, ImageInv, WriteEnd \/ Read
  PROVE  ImageInv'
<1>1. phase' \in {"read", "dis"}
  BY DEF WriteEnd, Read
<1>2. ReadInv' /\ HexIsImage'
  <2>1. CASE WriteEnd
    BY <2>1, ReadWriteEnd DEF ImageInv, WriteEnd, HexIsImage
  <2>2. CASE Read
    BY <2>2, ReadRead DEF ImageInv
  <2> QED
    BY <2>1, <2>2
<1> QED
  BY <1>1, <1>2 DEF ImageInv, LaidInv, DoneInv, WriteInv

\* Every step keeps it.
LEMMA ImageKept ==
  ASSUME StateInv, ImageInv, [Next]_vars
  PROVE  ImageInv'
<1>1. CASE UNCHANGED vars
  <2>1. /\ UNCHANGED <<phase, asm, pc, image, clash, hex, top, wbuf, rd, dsym, inbuf>>
    BY <1>1 DEF vars, pass2Vars, hexVars, readVars
  <2>3. LaidInv' = LaidInv
    BY <2>1 DEF LaidInv, OrgInv, OrgBytes
  <2>4. DoneInv' = DoneInv
    BY <2>1 DEF DoneInv, DoneOrg
  <2>5. WriteInv' = WriteInv
    BY <2>1 DEF WriteInv, Ins, Remain, ToCome
  <2>6. ReadInv' = ReadInv /\ HexIsImage' = HexIsImage
    BY <2>1 DEF ReadInv, AllWritten, HexIsImage
  <2> QED
    BY <2>3, <2>4, <2>5, <2>6 DEF ImageInv
<1>2. CASE Pass1 \/ Again \/ Finish
  <2>1. phase' \in {"pass1", "error", "crash", "done"}
    <3>1. CASE Pass1
      BY <3>1, LineEffect DEF Dead, Pass1
    <3>2. CASE Again
      BY <3>2, StateAgain
    <3>3. CASE Finish
      BY <3>3 DEF Finish
    <3> QED
      BY <1>2, <3>1, <3>2, <3>3
  <2> QED
    BY <2>1 DEF ImageInv, LaidInv, DoneInv, WriteInv, ReadInv, HexIsImage
<1>3. CASE DisIns \/ DisData \/ DisNext
  <2>1. phase = "dis" /\ UNCHANGED <<phase, image, clash, dsym, inbuf>>
    BY <1>3 DEF DisIns, DisData, DisNext, InDis, pass2Vars, readVars
  <2>2. HexIsImage' = HexIsImage
    BY <2>1 DEF HexIsImage
  <2> QED
    BY <2>1, <2>2 DEF ImageInv, LaidInv, DoneInv, WriteInv, ReadInv
<1> QED
  BY <1>1, <1>2, <1>3, ImagePass2, ImageWrite, ImageRead DEF Next, ImageInv

\* At the start there is none.
LEMMA ImageInit == Init => ImageInv
<1> SUFFICES ASSUME Init  PROVE ImageInv
  OBVIOUS
<1>1. phase = "pass1"
  BY DEF Init
<1> QED
  BY <1>1, ImageAway

-----------------------------------------------------------------------------
(* Labels.                                                                 *)

WordsOf(e) ==
  IF e.type = "ins" THEN Len(Arch[e.arch].ocs[e.row].oc) \div Align
  ELSE IF e.type = "data" THEN Words(Len(e.args), e.size) ELSE 0

\* The address after an entry that is at one.
After(e, address) == IF e.type = "org" THEN e.address ELSE address + WordsOf(e)

\* A label is where its entry is, and each entry where the one before it ends.
Plain(args) == \A j \in DOMAIN args : args[j][1] # "str"
InPlace(e, labels, at) ==
  /\ e.type = "lbl" => labels[e.lbl].equ \/ labels[e.lbl].address = at
  /\ e.type = "data" => Plain(e.args)
AddressInv(a) ==
  /\ a.strargs = <<>> /\ a.ats[1] = 0
  /\ \A k \in DOMAIN a.inss : InPlace(a.inss[k], a.labels, a.ats[k])
  /\ \A k \in 1..Len(a.inss) - 1 : a.ats[k + 1] = After(a.inss[k], a.ats[k])
AtEnd(a) == a.address = After(a.inss[Len(a.inss)], a.ats[Len(a.inss)])

\* Where the second pass is, and how far in a data directive.
DataAt(a, e) == e.type = "data" => a.arg - 1 <= Len(e.args) /\ a.a = (a.arg - 1) * e.size
LabelInv ==
  phase \in {"pass1", "pass2"} /\ ~Strings(prog.lines) =>
    /\ AddressInv(asm)
    /\ phase = "pass1" => AtEnd(asm)
    /\ phase = "pass2" => asm.address = asm.ats[pc] /\ DataAt(asm, Ins)

\* Labels stay, or are given a number.
Keeps(ls, ms) == \A i \in DOMAIN ls : ms[i].equ \/ ms[i] = ls[i]

\* A label in its place stays there when labels are added.
LEMMA StaysInPlace ==
  ASSUME NEW n, NEW e, IsEntry(e, n), NEW ls, DOMAIN ls = 1..n, NEW ms, Keeps(ls, ms),
         NEW at, InPlace(e, ls, at)
  PROVE  InPlace(e, ms, at)
<1>1. e.type = "lbl" => e.lbl \in DOMAIN ls
  BY DEF IsEntry, OrgEntry, LblEntry, DataEntry, InsEntry
<1>2. e.type = "lbl" => ms[e.lbl].equ \/ ms[e.lbl].address = at
  BY <1>1 DEF InPlace, Keeps
<1> QED
  BY <1>2 DEF InPlace

\* One entry more.
LEMMA AddressMore ==
  ASSUME NEW a, BufInv(a), AddressInv(a), AtEnd(a), IsSeq(a.ats), Len(a.ats) = Len(a.inss),
         NEW b, NEW e, NextIns(a, b, e), b.strargs = <<>>, Keeps(a.labels, b.labels),
         InPlace(e, b.labels, a.address)
  PROVE  AddressInv(b) /\ b.ats[Len(b.inss)] = a.address /\ b.inss[Len(b.inss)] = e
<1>1. /\ Len(a.inss) \in Nat /\ Len(b.inss) = Len(a.inss) + 1
      /\ DOMAIN a.inss = 1..Len(a.inss) /\ DOMAIN b.inss = 1..Len(a.inss) + 1
      /\ \A i \in 1..Len(a.inss) : b.inss[i] = a.inss[i] /\ b.ats[i] = a.ats[i]
      /\ b.inss[Len(a.inss) + 1] = e /\ b.ats[Len(a.inss) + 1] = a.address
  BY DEF NextIns, Adds
<1>2. Len(a.inss) > 0 /\ DOMAIN a.labels = 1..Len(a.labels)
      /\ \A k \in DOMAIN a.inss : IsEntry(a.inss[k], Len(a.labels))
  BY SeqShape DEF BufInv
<1>3. 1 \in 1..Len(a.inss) /\ Len(a.inss) \in 1..Len(a.inss)
  BY <1>1, <1>2
<1>4. b.ats[1] = 0
  BY <1>1, <1>3 DEF AddressInv
<1>5. ASSUME NEW k \in DOMAIN b.inss  PROVE InPlace(b.inss[k], b.labels, b.ats[k])
  <2>1. CASE k \in 1..Len(a.inss)
    <3>1. InPlace(a.inss[k], a.labels, a.ats[k]) /\ IsEntry(a.inss[k], Len(a.labels))
      BY <1>1, <1>2, <2>1 DEF AddressInv
    <3>2. InPlace(a.inss[k], b.labels, a.ats[k])
      BY <1>2, <3>1, StaysInPlace
    <3> QED
      BY <1>1, <2>1, <3>2
  <2>2. CASE k = Len(a.inss) + 1
    BY <1>1, <2>2
  <2> QED
    BY <1>1, <2>1, <2>2
<1>6. ASSUME NEW k \in 1..Len(b.inss) - 1  PROVE b.ats[k + 1] = After(b.inss[k], b.ats[k])
  <2>0. k \in 1..Len(a.inss)
    BY <1>1
  <2>1. CASE k = Len(a.inss)
    BY <1>1, <1>3, <2>1 DEF AtEnd
  <2>2. CASE k # Len(a.inss)
    <3>1. k \in 1..Len(a.inss) - 1 /\ k + 1 \in 1..Len(a.inss)
      BY <1>1, <2>0, <2>2
    <3> QED
      BY <1>1, <2>0, <3>1 DEF AddressInv
  <2> QED
    BY <2>1, <2>2
<1> QED
  BY <1>1, <1>4, <1>5, <1>6 DEF AddressInv

\* No entry more.
LEMMA AddressSame ==
  ASSUME NEW a, BufInv(a), AddressInv(a), AtEnd(a), NEW b, b.inss = a.inss, b.ats = a.ats,
         b.strargs = <<>>, b.address = a.address, Keeps(a.labels, b.labels)
  PROVE  AddressInv(b) /\ AtEnd(b)
<1>1. DOMAIN a.labels = 1..Len(a.labels) /\ \A k \in DOMAIN a.inss : IsEntry(a.inss[k], Len(a.labels))
  BY SeqShape DEF BufInv
<1>2. \A k \in DOMAIN b.inss : InPlace(b.inss[k], b.labels, b.ats[k])
  BY <1>1, StaysInPlace DEF AddressInv
<1> QED
  BY <1>2 DEF AddressInv, AtEnd

\* A label is where the address is.
LEMMA AddressLabel ==
  ASSUME NEW a, FirstInv(a), AddressInv(a), AtEnd(a), NEW lbl, NEW b, NewLabel(a, b, lbl)
  PROVE  AddressInv(b) /\ AtEnd(b)
<1> DEFINE parent == Max({0} \cup {i \in DOMAIN a.labels : a.labels[i].local < lbl[1]})
           label == [name |-> lbl[2], local |-> lbl[1], parent |-> parent,
                     address |-> a.address, equ |-> FALSE]
           ins == [type |-> "lbl", lbl |-> Len(a.labels) + 1]
<1>1. /\ Same(a, b, {"labels", "inss", "ats"}) /\ NextIns(a, b, ins)
      /\ b.labels = Append(a.labels, label)
  BY DEF NewLabel
<1>2. label.address = a.address /\ ins.type = "lbl" /\ ins.lbl = Len(a.labels) + 1
  OBVIOUS
<1> HIDE DEF label, ins
<1>3. /\ BufInv(a) /\ IsSeq(a.ats) /\ Len(a.ats) = Len(a.inss) /\ IsSeq(a.labels)
      /\ a.address \in Int
  BY DEF FirstInv, AsmInv, BufInv
<1>4. Adds(a.labels, b.labels, label)
  BY <1>1, <1>3, Appended
<1>5. Keeps(a.labels, b.labels)
  BY <1>4 DEF Adds, Keeps
<1>6. InPlace(ins, b.labels, a.address)
  BY <1>2, <1>4 DEF InPlace, Adds
<1>7. b.strargs = <<>> /\ b.address = a.address
  BY <1>1 DEF Same, Fields, AddressInv
<1>8. AddressInv(b) /\ b.ats[Len(b.inss)] = a.address /\ b.inss[Len(b.inss)] = ins
  BY <1>1, <1>3, <1>5, <1>6, <1>7, AddressMore
<1>9. After(ins, a.address) = a.address
  BY <1>2, <1>3 DEF After, WordsOf
<1> QED
  BY <1>7, <1>8, <1>9 DEF AtEnd

\* The first pass counts an operation's words as the entry's length does.
LEMMA AddressIns ==
  ASSUME NEW a, FirstInv(a), AddressInv(a), AtEnd(a), NEW op, NEW args,
         op \in DOMAIN Sizes => IsArgs(args) /\ Plain(args),
         NEW b, b = insfind(a, op, args), ~Stopped(b)
  PROVE  AddressInv(b) /\ AtEnd(b)
<1>1. /\ BufInv(a) /\ IsSeq(a.ats) /\ Len(a.ats) = Len(a.inss) /\ IsSeq(a.labels)
      /\ a.address \in Int /\ a.strargs = <<>> /\ Shape(a) /\ AsmInv(a) /\ a.arch \in DOMAIN Arch
  BY DEF FirstInv, AsmInv, BufInv, AddressInv
<1>2. Keeps(a.labels, a.labels)
  BY DEF Keeps
<1>3. CASE b = a
  BY <1>3
<1>4. CASE NewArch(a, b)
  <2>1. /\ b.inss = a.inss /\ b.ats = a.ats /\ b.strargs = <<>> /\ b.address = a.address
        /\ b.labels = a.labels
    BY <1>1, <1>4 DEF NewArch, Same, Fields
  <2> QED
    BY <1>1, <1>2, <2>1, AddressSame
<1>5. CASE NewOrg(a, b)
  <2> DEFINE e == OrgIns(b.address)
  <2>1. /\ b.strargs = <<>> /\ b.labels = a.labels /\ NextIns(a, b, e)
    BY <1>1, <1>5 DEF NewOrg, Same, Fields
  <2>2. e.type = "org" /\ e.address = b.address
    BY DEF OrgIns
  <2> HIDE DEF e
  <2>3. InPlace(e, b.labels, a.address)
    BY <2>2 DEF InPlace
  <2>4. AddressInv(b) /\ b.inss[Len(b.inss)] = e
    BY <1>1, <1>2, <2>1, <2>3, AddressMore
  <2> QED
    BY <2>2, <2>4 DEF AtEnd, After
<1>6. CASE NewEqu(a, b)
  <2>1. /\ b.inss = a.inss /\ b.ats = a.ats /\ b.strargs = <<>> /\ b.address = a.address
    BY <1>1, <1>6 DEF NewEqu, Same, Fields
  <2>2. Keeps(a.labels, b.labels)
    BY <1>6 DEF NewEqu, Keeps
  <2> QED
    BY <1>1, <2>1, <2>2, AddressSame
<1>7. CASE NewCtx(a, b)
  <2>1. b.strargs = <<>> /\ b.labels = a.labels /\ b.address = a.address
    BY <1>1, <1>7 DEF NewCtx, Same, Fields
  <2>2. PICK type \in {"ctx", "ctx_end"} : NextIns(a, b, [type |-> type])
    BY <1>7 DEF NewCtx
  <2> DEFINE e == [type |-> type]
  <2>3. e.type \in {"ctx", "ctx_end"} /\ NextIns(a, b, e)
    BY <2>2
  <2> HIDE DEF e
  <2>4. InPlace(e, b.labels, a.address)
    BY <2>3 DEF InPlace
  <2>5. /\ AddressInv(b) /\ b.ats[Len(b.inss)] = a.address /\ b.inss[Len(b.inss)] = e
    BY <1>1, <1>2, <2>1, <2>3, <2>4, AddressMore
  <2>6. After(e, a.address) = a.address
    BY <1>1, <2>3 DEF After, WordsOf
  <2> QED
    BY <2>1, <2>5, <2>6 DEF AtEnd
<1>8. CASE NewIns(a, b)
  <2>1. PICK e : /\ InsEntry(e) /\ NextIns(a, b, e)
                 /\ Same(a, b, {"outbuf", "nul", "inss", "ats", "address"})
                 /\ b.address = a.address + Len(Arch[e.arch].ocs[e.row].oc) \div Align
    BY <1>8 DEF NewIns
  <2>2. b.strargs = <<>> /\ b.labels = a.labels
    BY <1>1, <2>1 DEF Same, Fields
  <2>3. e.type = "ins"
    BY <2>1 DEF InsEntry
  <2>4. InPlace(e, b.labels, a.address)
    BY <2>3 DEF InPlace
  <2>5. /\ AddressInv(b) /\ b.ats[Len(b.inss)] = a.address /\ b.inss[Len(b.inss)] = e
    BY <1>1, <1>2, <2>1, <2>2, <2>4, AddressMore
  <2> QED
    BY <2>1, <2>3, <2>5 DEF AtEnd, After, WordsOf
<1>9. CASE op \in DOMAIN Sizes /\ NewData(a, b, Sizes[op], args)
  <2> DEFINE size == Sizes[op]
             d == CountArgs(args, size)
             data == [type |-> "data", args |-> args, size |-> size]
  <2>1. size \in {1, 2, 4} /\ IsArgs(args) /\ Plain(args)
    BY <1>9 DEF Sizes, Align
  <2>2. d.n = Len(args) /\ d.strs = <<>>
    <3> HIDE DEF size
    <3> QED
      BY <2>1, CountArgsFacts DEF Plain
  <2>3. data.type = "data" /\ data.args = args /\ data.size = size
    OBVIOUS
  <2>4. /\ Same(a, b, {"strargs", "outbuf", "nul", "inss", "ats", "address"})
        /\ b.strargs = a.strargs \o d.strs
        /\ \/ d.n = 0 /\ b.inss = a.inss /\ b.ats = a.ats /\ b.address = a.address
           \/ d.n # 0 /\ NextIns(a, b, data) /\ b.address = a.address + Words(d.n, size)
    BY <1>9 DEF NewData
  <2> HIDE DEF data, d, size
  <2>5. b.labels = a.labels /\ b.strargs = <<>>
    <3>1. b.strargs = <<>> \o <<>>
      BY <1>1, <2>2, <2>4
    <3>2. b.strargs = <<>>
      BY <3>1, None, JoinedNone
    <3> QED
      BY <2>4, <3>2 DEF Same, Fields
  <2>6. CASE b.inss = a.inss /\ b.ats = a.ats /\ b.address = a.address
    BY <1>1, <1>2, <2>5, <2>6, AddressSame
  <2>7. CASE NextIns(a, b, data) /\ b.address = a.address + Words(d.n, size)
    <3>1. InPlace(data, b.labels, a.address)
      BY <2>1, <2>3 DEF InPlace
    <3>2. /\ AddressInv(b) /\ b.ats[Len(b.inss)] = a.address /\ b.inss[Len(b.inss)] = data
      BY <1>1, <1>2, <2>5, <2>7, <3>1, AddressMore
    <3> QED
      BY <2>2, <2>3, <2>7, <3>2 DEF AtEnd, After, WordsOf
  <2> QED
    BY <2>4, <2>6, <2>7
<1> QED
  BY <1>1, <1>3, <1>4, <1>5, <1>6, <1>7, <1>8, <1>9, InsfindEffect

\* A line keeps the labels in their places.
LEMMA LabelPass1 ==
  ASSUME StateInv, LabelInv, Pass1
  PROVE  LabelInv'
<1>0. phase = "pass1" /\ FirstInv(asm) /\ WellFormed(prog.lines) /\ line \in Nat \ {0}
      /\ line <= Len(prog.lines) /\ prog' = prog
  BY DEF StateInv, Pass1, Dead
<1>1. CASE phase' \in Dead
  BY <1>1 DEF LabelInv, Dead
<1>2. CASE phase' = phase /\ \E c : Lined(asm, c, asm', prog.lines[line])
  <2> SUFFICES ASSUME ~Strings(prog.lines)  PROVE AddressInv(asm') /\ AtEnd(asm')
    BY <1>0, <1>2 DEF LabelInv
  <2> DEFINE l == prog.lines[line]
  <2>1. PICK c : Lined(asm, c, asm', l)
    BY <1>2
  <2>2. l.op \in DOMAIN Sizes => Plain(l.args)
    <3>1. line \in DOMAIN prog.lines
      BY <1>0, SeqShape DEF WellFormed
    <3>2. l \in Range(prog.lines)
      BY <3>1 DEF Range
    <3> HIDE DEF l
    <3>3. l.op \in DOMAIN Sizes => \A x \in Range(l.args) : x[1] # "str"
      BY <3>2 DEF Strings
    <3> QED
      BY <3>3 DEF Plain, Range
  <2> HIDE DEF l
  <2>3. /\ FirstInv(c) /\ (c = asm \/ NewLabel(asm, c, l.lbl))
        /\ asm' = insfind(c, l.op, l.args) /\ FirstInv(asm')
        /\ l.op \in DOMAIN Sizes => IsArgs(l.args)
    BY <2>1 DEF Lined
  <2>4. AddressInv(asm) /\ AtEnd(asm)
    BY <1>0 DEF LabelInv
  <2>5. AddressInv(c) /\ AtEnd(c)
    BY <1>0, <2>3, <2>4, AddressLabel
  <2>6. ~Stopped(asm')
    BY <2>3, GoingOn DEF FirstInv
  <2> QED
    BY <2>2, <2>3, <2>5, <2>6, AddressIns
<1> QED
  BY <1>1, <1>2, LineEffect

\* The second pass starts at address 0, as the first did.
LEMMA LabelEndPass1 ==
  ASSUME StateInv, LabelInv, EndPass1
  PROVE  LabelInv'
<1> DEFINE e == [type |-> "end"]
<1>0. /\ phase = "pass1" /\ phase' \in {"pass2", "error"} /\ FirstInv(asm) /\ NothingLaid
      /\ Same(asm, asm', {"inss", "ats", "address"})
      /\ NextIns(asm, asm', e) /\ asm'.address = 0 /\ UNCHANGED <<prog, pass2Vars>>
  BY EndPass1Effect DEF EndPass1
<1> SUFFICES ASSUME ~Strings(prog.lines), phase' = "pass2"
             PROVE  AddressInv(asm') /\ asm'.address = asm'.ats[pc'] /\ DataAt(asm', Ins')
  BY <1>0 DEF LabelInv
<1>1. AddressInv(asm) /\ AtEnd(asm)
  BY <1>0 DEF LabelInv
<1>2. /\ BufInv(asm) /\ IsSeq(asm.ats) /\ Len(asm.ats) = Len(asm.inss)
  BY <1>0 DEF FirstInv, AsmInv
<1>3. asm'.strargs = <<>> /\ asm'.labels = asm.labels
  BY <1>0, <1>1 DEF Same, Fields, AddressInv
<1>4. Keeps(asm.labels, asm'.labels) /\ InPlace(e, asm'.labels, asm.address)
  BY <1>3 DEF Keeps, InPlace
<1> HIDE DEF e
<1>5. AddressInv(asm')
  BY <1>0, <1>1, <1>2, <1>3, <1>4, AddressMore
<1>6. pc' = 1
  BY <1>0 DEF pass2Vars, NothingLaid
<1>7. Ins'.type = "org"
  <2>1. 1 \in 1..Len(asm.inss)
    BY <1>2, SeqShape DEF BufInv
  <2>2. asm'.inss[1] = asm.inss[1]
    BY <1>0, <2>1 DEF NextIns, Adds
  <2> QED
    BY <1>2, <1>6, <2>2 DEF BufInv, Ins
<1> QED
  BY <1>0, <1>5, <1>6, <1>7 DEF AddressInv, DataAt

\* The next entry of the second pass is where this one ends.
LEMMA LabelNext ==
  ASSUME StateInv, LabelInv, phase = "pass2", StateInv', phase' = "pass2", prog' = prog,
         pc' = pc + 1, asm'.inss = asm.inss, asm'.ats = asm.ats, asm'.labels = asm.labels,
         asm'.strargs = asm.strargs, asm'.arg = 1, asm'.a = 0,
         ~Strings(prog.lines) => asm'.address = After(Ins, asm.address)
  PROVE  LabelInv'
<1> SUFFICES ASSUME ~Strings(prog.lines)
             PROVE  AddressInv(asm') /\ asm'.address = asm'.ats[pc'] /\ DataAt(asm', Ins')
  BY DEF LabelInv
<1>1. AddressInv(asm) /\ asm.address = asm.ats[pc]
  BY DEF LabelInv
<1>2. AddressInv(asm')
  BY <1>1 DEF AddressInv
<1>3. /\ pc \in Nat \ {0} /\ pc' \in DOMAIN asm'.inss /\ DOMAIN asm.inss = 1..Len(asm.inss)
      /\ Len(asm.inss) \in Nat
  <2>1. pc' \in DOMAIN asm'.inss
    BY DEF StateInv, Pass2Inv, Dead
  <2> QED
    BY <2>1, InPass2Facts
<1>4. pc \in 1..Len(asm.inss) - 1
  BY <1>3
<1>5. asm'.address = asm'.ats[pc']
  BY <1>1, <1>4 DEF AddressInv, Ins
<1>6. DataAt(asm', Ins')
  <2> SUFFICES ASSUME Ins'.type = "data"
               PROVE  asm'.arg - 1 <= Len(Ins'.args) /\ asm'.a = (asm'.arg - 1) * Ins'.size
    BY DEF DataAt
  <2>1. IsEntry(Ins', Len(asm'.labels))
    BY <1>3 DEF StateInv, Pass2Inv, Dead, AsmInv, BufInv, Ins
  <2>2. DataEntry(Ins')
    BY <2>1 DEF IsEntry, OrgEntry, LblEntry, InsEntry
  <2>3. Len(Ins'.args) \in Nat /\ Ins'.size \in Nat
    BY <2>2, SeqShape DEF DataEntry, IsArgs
  <2> QED
    BY <2>3
<1> QED
  BY <1>2, <1>5, <1>6

\* An item's length is the words that the first pass counted.
LEMMA LabelPassItem ==
  ASSUME StateInv, LabelInv, PassIns \/ PassData, StateInv'
  PROVE  LabelInv'
<1>0. phase = "pass2" /\ Ins.type \in {"ins", "data"} /\ prog' = prog
  BY DEF PassIns, PassData, InPass2
<1>1. CASE phase' = "error"
  BY <1>1 DEF LabelInv
<1>2. CASE phase' # "error"
  <2>1. PICK a, n : Item(a, n)
    BY <1>2, ItemIns, ItemData
  <2>2. /\ Same(asm, asm', AfterItem) /\ asm'.arg = 1 /\ asm'.a = 0 /\ asm'.strargs = asm.strargs
        /\ asm'.address = asm.address + n \div Align /\ pc' = pc + 1
        /\ phase' = IF colcheck(map, mapitem.end, asm'.address) THEN "error" ELSE phase
    BY <1>0, <2>1, ItemStep
  <2>3. asm'.inss = asm.inss /\ asm'.ats = asm.ats /\ asm'.labels = asm.labels
    BY <2>2 DEF Same, AfterItem, Buffer, Fields
  <2>4. /\ \/ Ins.type = "ins" /\ n = Len(Arch[Ins.arch].ocs[Ins.row].oc)
           \/ Ins.type = "data" /\ asm.arg > Len(Ins.args) /\ n = RoundUp(asm.a, Align)
    BY <2>1 DEF Item
  <2>5. ASSUME ~Strings(prog.lines)  PROVE asm'.address = After(Ins, asm.address)
    <3>1. CASE Ins.type = "ins" /\ n = Len(Arch[Ins.arch].ocs[Ins.row].oc)
      BY <2>2, <3>1 DEF After, WordsOf
    <3>2. CASE Ins.type = "data" /\ asm.arg > Len(Ins.args) /\ n = RoundUp(asm.a, Align)
      <4>1. DataEntry(Ins)
        BY <1>0, <3>2, InPass2Facts DEF IsEntry, OrgEntry, LblEntry, InsEntry
      <4>2. Len(Ins.args) \in Nat /\ asm.arg \in Nat
        BY <1>0, <4>1, InPass2Facts, SeqShape DEF DataEntry, IsArgs
      <4>3. asm.arg - 1 <= Len(Ins.args) /\ asm.a = (asm.arg - 1) * Ins.size
        BY <1>0, <2>5, <3>2 DEF LabelInv, DataAt
      <4>4. asm.arg - 1 = Len(Ins.args)
        BY <3>2, <4>2, <4>3
      <4>5. n = RoundUp(Len(Ins.args) * Ins.size, Align)
        BY <3>2, <4>3, <4>4
      <4> QED
        BY <2>2, <3>2, <4>5 DEF After, WordsOf, Words
    <3> QED
      BY <2>4, <3>1, <3>2
  <2> QED
    BY <1>0, <1>2, <2>2, <2>3, <2>5, LabelNext
<1> QED
  BY <1>1, <1>2

\* An argument moves nothing; its strings are none.
LEMMA LabelPassArg ==
  ASSUME StateInv, LabelInv, PassArg
  PROVE  LabelInv'
<1>0. /\ phase' \in Dead \/ (phase' = "pass2" /\ ArgStep(asm, asm', Ins.size))
      /\ phase = "pass2" /\ DataEntry(Ins) /\ asm.arg <= Len(Ins.args)
      /\ UNCHANGED <<pc, prog>>
  BY ArgEffect DEF PassArg, InPass2, pass2Vars
<1>1. CASE phase' \in Dead
  BY <1>1 DEF LabelInv, Dead
<1>2. CASE phase' = "pass2" /\ ArgStep(asm, asm', Ins.size)
  <2> SUFFICES ASSUME ~Strings(prog.lines)
               PROVE  AddressInv(asm') /\ asm'.address = asm'.ats[pc'] /\ DataAt(asm', Ins')
    BY <1>0, <1>2 DEF LabelInv
  <2>1. AddressInv(asm) /\ asm.address = asm.ats[pc] /\ DataAt(asm, Ins) /\ asm.strargs = <<>>
    BY <1>0 DEF LabelInv, AddressInv
  <2>2. /\ Same(asm, asm', Buffer) /\ asm'.arg = asm.arg + 1
        /\ asm'.strargs = asm.strargs /\ asm'.a = asm.a + Ins.size
    BY <1>2, <2>1 DEF ArgStep
  <2>3. /\ asm'.inss = asm.inss /\ asm'.ats = asm.ats /\ asm'.labels = asm.labels
        /\ asm'.address = asm.address
    BY <2>2 DEF Same, Buffer, Fields
  <2>4. AddressInv(asm') /\ Ins' = Ins
    BY <1>0, <2>1, <2>2, <2>3 DEF AddressInv, Ins
  <2>5. DataAt(asm', Ins)
    <3> DEFINE size == Ins.size
               arg == asm.arg
               len == Len(Ins.args)
    <3>1. arg - 1 <= len /\ asm.a = (arg - 1) * size
      BY <1>0, <2>1 DEF DataAt, DataEntry
    <3>2. arg \in Nat /\ len \in Nat /\ arg <= len /\ size \in {1, 2, 4}
      BY <1>0, InPass2Facts, SeqShape DEF DataEntry, IsArgs
    <3>3. asm'.arg = arg + 1 /\ asm'.a = asm.a + size
      BY <2>2
    <3> HIDE DEF size, arg, len
    <3>4. asm'.arg - 1 <= len
      BY <3>2, <3>3
    <3>5. asm'.a = (asm'.arg - 1) * size
      <4>1. CASE size = 1
        BY <3>1, <3>2, <3>3, <4>1
      <4>2. CASE size = 2
        BY <3>1, <3>2, <3>3, <4>2
      <4>3. CASE size = 4
        BY <3>1, <3>2, <3>3, <4>3
      <4> QED
        BY <3>2, <4>1, <4>2, <4>3
    <3> QED
      BY <3>4, <3>5 DEF DataAt, len, size
  <2> QED
    BY <1>0, <2>1, <2>3, <2>4, <2>5
<1> QED
  BY <1>0, <1>1, <1>2

\* A label moves nothing.
LEMMA LabelPassLabel ==
  ASSUME StateInv, LabelInv, PassLabel
  PROVE  LabelInv'
<1>0. /\ phase = "pass2" /\ phase' = "pass2" /\ pc' = pc + 1 /\ prog' = prog
      /\ Ins.type \in {"lbl", "ctx", "ctx_end"}
  BY DEF PassLabel, InPass2
<1>1. StateInv' /\ Same(asm, asm', {"llbl"})
  BY StatePassLabel
<1>2. asm.arg = 1 /\ asm.a = 0 /\ asm.address \in Int
  BY <1>0, InPass2Facts DEF Pass2Inv
<1>3. /\ asm'.inss = asm.inss /\ asm'.ats = asm.ats /\ asm'.labels = asm.labels
      /\ asm'.strargs = asm.strargs /\ asm'.arg = 1 /\ asm'.a = 0 /\ asm'.address = asm.address
  BY <1>1, <1>2 DEF Same, Fields
<1>4. asm'.address = After(Ins, asm.address)
  BY <1>0, <1>2, <1>3 DEF After, WordsOf
<1> QED
  BY <1>0, <1>1, <1>3, <1>4, LabelNext

\* Entries that are alike end at the same address.
LEMMA AfterAlike ==
  ASSUME NEW s, NEW t, Alike(s, t), NEW k \in DOMAIN s, NEW at
  PROVE  After(t[k], at) = After(s[k], at)
<1>1. CASE s[k].type = "org"
  BY <1>1 DEF Alike, After
<1>2. CASE s[k].type # "org"
  BY <1>2 DEF Alike, After
<1> QED
  BY <1>1, <1>2

\* An org is where the first pass said.
LEMMA LabelPassOrg ==
  ASSUME StateInv, LabelInv, PassOrg
  PROVE  LabelInv'
<1>0. /\ StateInv' /\ OrgStep(asm, asm', pc) /\ Ins.type = "org" /\ phase = "pass2" /\ phase' = "pass2"
      /\ pc' = pc + 1 /\ prog' = prog
  BY StatePassOrg DEF PassOrg, InPass2
<1> SUFFICES ASSUME ~Strings(prog.lines)
             PROVE  AddressInv(asm') /\ asm'.address = asm'.ats[pc'] /\ DataAt(asm', Ins')
  BY <1>0 DEF LabelInv
<1>1. /\ Same(asm, asm', {"inss", "address", "lorg"}) /\ Alike(asm.inss, asm'.inss)
      /\ asm'.address = asm.inss[pc].address
  BY <1>0 DEF OrgStep
<1>2. /\ asm'.ats = asm.ats /\ asm'.labels = asm.labels /\ asm'.strargs = asm.strargs
      /\ asm'.arg = asm.arg /\ asm'.a = asm.a
  BY <1>1 DEF Same, Fields
<1>3. AddressInv(asm) /\ asm.arg = 1 /\ asm.a = 0
  BY <1>0, InPass2Facts DEF LabelInv, Pass2Inv
<1>4. /\ DOMAIN asm.inss = 1..Len(asm.inss) /\ Len(asm.inss) \in Nat /\ pc \in Nat \ {0}
      /\ pc' \in DOMAIN asm'.inss /\ pc \in DOMAIN asm.inss
  <2>1. pc' \in DOMAIN asm'.inss
    BY <1>0 DEF StateInv, Pass2Inv, Dead
  <2> QED
    BY <1>0, <2>1, InPass2Facts
<1>5. Len(asm'.inss) = Len(asm.inss) /\ DOMAIN asm'.inss = DOMAIN asm.inss
  BY <1>1 DEF Alike
<1>6. ASSUME NEW k \in DOMAIN asm'.inss  PROVE InPlace(asm'.inss[k], asm'.labels, asm'.ats[k])
  <2>1. InPlace(asm.inss[k], asm.labels, asm.ats[k])
    BY <1>3, <1>5 DEF AddressInv
  <2>2. CASE asm.inss[k].type = "org"
    BY <1>1, <1>5, <2>2 DEF Alike, InPlace
  <2>3. CASE asm.inss[k].type # "org"
    BY <1>1, <1>2, <1>5, <2>1, <2>3 DEF Alike
  <2> QED
    BY <2>2, <2>3
<1>7. ASSUME NEW k \in 1..Len(asm'.inss) - 1
      PROVE  asm'.ats[k + 1] = After(asm'.inss[k], asm'.ats[k])
  <2>1. k \in DOMAIN asm.inss /\ k \in 1..Len(asm.inss) - 1
    BY <1>4, <1>5
  <2>2. asm.ats[k + 1] = After(asm.inss[k], asm.ats[k])
    BY <1>3, <2>1 DEF AddressInv
  <2> QED
    BY <1>1, <1>2, <2>1, <2>2, AfterAlike
<1>8. AddressInv(asm')
  BY <1>2, <1>3, <1>6, <1>7 DEF AddressInv
<1>9. asm'.address = asm'.ats[pc']
  <2>1. pc \in 1..Len(asm.inss) - 1
    BY <1>0, <1>4, <1>5
  <2>2. asm.ats[pc + 1] = After(asm.inss[pc], asm.ats[pc])
    BY <1>3, <2>1 DEF AddressInv
  <2> QED
    BY <1>0, <1>1, <1>2, <2>2 DEF After, Ins
<1>10. DataAt(asm', Ins')
  <2> SUFFICES ASSUME Ins'.type = "data"
               PROVE  asm'.arg - 1 <= Len(Ins'.args) /\ asm'.a = (asm'.arg - 1) * Ins'.size
    BY DEF DataAt
  <2>1. IsEntry(Ins', Len(asm'.labels))
    BY <1>0, <1>4 DEF StateInv, Pass2Inv, Dead, AsmInv, BufInv, Ins
  <2>2. DataEntry(Ins')
    BY <2>1 DEF IsEntry, OrgEntry, LblEntry, InsEntry
  <2>3. Len(Ins'.args) \in Nat /\ Ins'.size \in Nat
    BY <2>2, SeqShape DEF DataEntry, IsArgs
  <2> QED
    BY <1>2, <1>3, <2>3
<1> QED
  BY <1>8, <1>9, <1>10

\* A new assembler has no labels.
LEMMA NewAsmLabels ==
  ASSUME NEW arch, arch \in DOMAIN Arch, NEW a, a = NewAsm(arch)
  PROVE  AddressInv(a) /\ AtEnd(a)
<1>1. /\ a.strargs = <<>> /\ a.inss = <<OrgIns(0)>> /\ a.ats = <<0>> /\ a.address = 0
  BY NewAsmFacts
<1>2. IsSeq(a.inss) /\ Len(a.inss) = 1 /\ a.inss[1] = OrgIns(0) /\ a.ats[1] = 0
  BY <1>1, One
<1>3. DOMAIN a.inss = {1} /\ 1..Len(a.inss) - 1 = {}
  BY <1>2, SeqShape
<1>4. OrgIns(0).type = "org" /\ OrgIns(0).address = 0
  BY DEF OrgIns
<1> QED
  BY <1>1, <1>2, <1>3, <1>4 DEF AddressInv, AtEnd, After, InPlace

\* Every step keeps it.
LEMMA LabelStep ==
  ASSUME StateInv, LabelInv, [Next]_vars
  PROVE  LabelInv'
<1>1. CASE UNCHANGED vars
  <2>1. UNCHANGED <<phase, prog, asm, pc>>
    BY <1>1 DEF vars, pass2Vars
  <2> QED
    BY <2>1 DEF LabelInv, Ins
<1>2. CASE EndPass2 \/ WriteOrg \/ WriteLine \/ WriteNext \/ WriteEnd \/ Read
           \/ DisIns \/ DisData \/ DisNext \/ Finish
  <2>1. phase' \notin {"pass1", "pass2"}
    BY <1>2 DEF EndPass2, WriteOrg, WriteLine, WriteNext, WriteEnd, Read,
                DisIns, DisData, DisNext, Finish, InDis
  <2> QED
    BY <2>1 DEF LabelInv
<1>3. CASE Again
  <2>1. asm' = NewAsm(asm.arch) /\ phase' = "pass1"
    BY <1>3, StateAgain
  <2>2. asm.arch \in DOMAIN Arch
    BY <1>3 DEF StateInv, Again, Dead
  <2> QED
    BY <2>1, <2>2, NewAsmLabels DEF LabelInv
<1>4. StateInv'
  BY StateStep
<1> QED
  BY <1>1, <1>2, <1>3, <1>4, LabelPass1, LabelEndPass1, LabelPassItem, LabelPassArg,
     LabelPassOrg, LabelPassLabel DEF Next

LEMMA LabelInit == Init => LabelInv
<1> SUFFICES ASSUME Init  PROVE LabelInv
  OBVIOUS
<1>1. phase = "pass1" /\ asm = NewAsm(prog.arch) /\ prog.arch \in DOMAIN Arch
  BY MatPicAssumption DEF Init
<1>2. AddressInv(asm) /\ AtEnd(asm)
  BY <1>1, NewAsmLabels
<1> QED
  BY <1>1, <1>2 DEF LabelInv

\* Then a label's address is the one the second pass comes to.
LEMMA LabelFinal == StateInv /\ LabelInv => LabelsInPlace
<1> SUFFICES ASSUME StateInv, LabelInv, phase = "pass2", Ins.type = "lbl",
                    ~asm.labels[Ins.lbl].equ, ~Strings(prog.lines)
             PROVE  asm.labels[Ins.lbl].address = asm.address
  BY DEF LabelsInPlace
<1>1. AddressInv(asm) /\ asm.address = asm.ats[pc]
  BY DEF LabelInv
<1>2. InPlace(Ins, asm.labels, asm.ats[pc])
  BY <1>1, InPass2Facts DEF AddressInv, Ins
<1> QED
  BY <1>1, <1>2 DEF InPlace

-----------------------------------------------------------------------------
(* Scopes.                                                                 *)

\* Between a label and the one it is local to there are none that are less local.
ScopedLabels(ls) ==
  /\ \A i \in DOMAIN ls : /\ ls[i].parent \in 0..i - 1 /\ ls[i].local \in Nat
                          /\ \A m \in ls[i].parent + 1..i - 1 : ls[m].local >= ls[i].local
  /\ \A i, j \in DOMAIN ls :
       ls[i].name = ls[j].name /\ ls[i].local = ls[j].local /\ ls[i].parent = ls[j].parent
         => i = j
ScopeInv ==
  phase \in {"pass1", "pass2"} =>
    IsSeq(asm.labels) /\ ScopedLabels(asm.labels) /\ asm.llbl \in 0..Len(asm.labels)

SameScopes(ls, ms) ==
  /\ IsSeq(ms) /\ Len(ms) = Len(ls) /\ DOMAIN ms = DOMAIN ls
  /\ \A i \in DOMAIN ls : /\ ms[i].name = ls[i].name /\ ms[i].local = ls[i].local
                          /\ ms[i].parent = ls[i].parent

\* Scopes depend on the names, levels and owners of labels alone.
LEMMA ScopesStay ==
  ASSUME NEW ls, IsSeq(ls), ScopedLabels(ls), NEW ms, SameScopes(ls, ms)
  PROVE  ScopedLabels(ms)
<1>1. Len(ls) \in Nat /\ DOMAIN ls = 1..Len(ls)
  BY SeqShape
<1>2. ASSUME NEW i \in DOMAIN ms
      PROVE  /\ ms[i].parent \in 0..i - 1 /\ ms[i].local \in Nat
             /\ \A m \in ms[i].parent + 1..i - 1 : ms[m].local >= ms[i].local
  <2>1. /\ i \in DOMAIN ls /\ ls[i].parent \in 0..i - 1 /\ ls[i].local \in Nat
        /\ \A m \in ls[i].parent + 1..i - 1 : ls[m].local >= ls[i].local
        /\ ms[i].local = ls[i].local /\ ms[i].parent = ls[i].parent
    BY DEF ScopedLabels, SameScopes
  <2>2. \A m \in ls[i].parent + 1..i - 1 : m \in DOMAIN ls
    BY <1>1, <2>1
  <2>3. \A m \in ls[i].parent + 1..i - 1 : ms[m].local = ls[m].local
    BY <2>2 DEF SameScopes
  <2> QED
    BY <2>1, <2>3
<1> QED
  BY <1>2 DEF ScopedLabels, SameScopes

LEMMA ScopesItself ==
  ASSUME NEW ls, IsSeq(ls)
  PROVE  SameScopes(ls, ls)
BY DEF SameScopes

\* The last label that is less local, of the first n.
Nearest(ls, n, level) == Max({0} \cup {j \in 1..n : ls[j].local < level})

\* What the nearest label is, and that it is the only one of its kind.
LEMMA NearestFacts ==
  ASSUME NEW ls, NEW n, n \in Nat, NEW level, NEW p, p = Nearest(ls, n, level)
  PROVE  /\ p \in 0..n /\ (p # 0 => ls[p].local < level)
         /\ \A j \in p + 1..n : ~(ls[j].local < level)
<1> DEFINE S == {0} \cup {j \in 1..n : ls[j].local < level}
<1>1. S \in SUBSET (0..n) /\ S # {}
  OBVIOUS
<1>2. p = Max(S)
  BY DEF Nearest
<1>3. \A j \in S : j = 0 \/ ls[j].local < level
  OBVIOUS
<1>4. \A j \in 1..n : ls[j].local < level => j \in S
  OBVIOUS
<1> HIDE DEF S
<1>5. p \in S /\ \A y \in S : p >= y
  BY <1>1, <1>2, Greatest
<1> QED
  BY <1>1, <1>3, <1>4, <1>5

LEMMA NearestIs ==
  ASSUME NEW ls, NEW n, n \in Nat, NEW level, NEW p, p \in 0..n, p # 0 => ls[p].local < level,
         \A j \in p + 1..n : ~(ls[j].local < level)
  PROVE  p = Nearest(ls, n, level)
<1> DEFINE q == Nearest(ls, n, level)
<1>1. /\ q \in 0..n /\ (q # 0 => ls[q].local < level)
      /\ \A j \in q + 1..n : ~(ls[j].local < level)
  BY NearestFacts
<1> HIDE DEF q
<1>2. ~(p < q)
  BY <1>1
<1>3. ~(q < p)
  BY <1>1
<1> QED
  BY <1>1, <1>2, <1>3 DEF q

\* A label whose owner is the nearest one keeps the scopes nested.
LEMMA ScopesMore ==
  ASSUME NEW ls, IsSeq(ls), ScopedLabels(ls), NEW l, l.local \in Nat,
         l.parent = Nearest(ls, Len(ls), l.local), NEW ms, Adds(ls, ms, l),
         ~ \E i \in DOMAIN ls : /\ ls[i].name = l.name /\ ls[i].local = l.local
                                /\ ls[i].parent = l.parent
  PROVE  ScopedLabels(ms)
<1>1. /\ Len(ls) \in Nat /\ DOMAIN ls = 1..Len(ls) /\ DOMAIN ms = 1..Len(ls) + 1
      /\ \A i \in 1..Len(ls) : ms[i] = ls[i]
      /\ ms[Len(ls) + 1] = l
  BY DEF Adds
<1> DEFINE n == Len(ls)
<1>2. l.parent \in 0..n /\ \A j \in l.parent + 1..n : ~(ls[j].local < l.local)
  BY <1>1, NearestFacts
<1>3. \A j \in 1..n : ls[j].local \in Nat
  BY <1>1 DEF ScopedLabels
<1>4. ASSUME NEW i \in 1..n
      PROVE  /\ ms[i].parent \in 0..i - 1 /\ ms[i].local \in Nat
             /\ \A m \in ms[i].parent + 1..i - 1 : ms[m].local >= ms[i].local
  <2>1. /\ ls[i].parent \in 0..i - 1 /\ ls[i].local \in Nat /\ ms[i] = ls[i]
        /\ \A m \in ls[i].parent + 1..i - 1 : ls[m].local >= ls[i].local
    BY <1>1 DEF ScopedLabels
  <2>2. \A m \in ls[i].parent + 1..i - 1 : ms[m] = ls[m]
    BY <1>1, <2>1
  <2> QED
    BY <2>1, <2>2
<1>5. /\ l.parent \in 0..(n + 1) - 1 /\ l.local \in Nat
      /\ \A m \in l.parent + 1..(n + 1) - 1 : ms[m].local >= l.local
  <2>1. ASSUME NEW m \in l.parent + 1..(n + 1) - 1  PROVE ms[m].local >= l.local
    <3>1. m \in l.parent + 1..n /\ m \in 1..n
      BY <1>1, <1>2
    <3>2. ms[m] = ls[m] /\ ls[m].local \in Nat /\ ~(ls[m].local < l.local)
      BY <1>1, <1>2, <1>3, <3>1
    <3> QED
      BY <3>2
  <2> QED
    BY <1>1, <1>2, <2>1
<1>6. ASSUME NEW i \in DOMAIN ms
      PROVE  /\ ms[i].parent \in 0..i - 1 /\ ms[i].local \in Nat
             /\ \A m \in ms[i].parent + 1..i - 1 : ms[m].local >= ms[i].local
  <2>1. i \in 1..n \/ i = n + 1
    BY <1>1
  <2> QED
    BY <1>1, <1>4, <1>5, <2>1
<1>7. ASSUME NEW i \in DOMAIN ms, NEW j \in DOMAIN ms, ms[i].name = ms[j].name,
             ms[i].local = ms[j].local, ms[i].parent = ms[j].parent
      PROVE  i = j
  <2>1. (i \in 1..n \/ i = n + 1) /\ (j \in 1..n \/ j = n + 1)
    BY <1>1
  <2>2. CASE i \in 1..n /\ j \in 1..n
    BY <1>1, <1>7, <2>2 DEF ScopedLabels
  <2>3. CASE i = n + 1 /\ j \in 1..n
    BY <1>1, <1>7, <2>3
  <2>4. CASE i \in 1..n /\ j = n + 1
    BY <1>1, <1>7, <2>4
  <2> QED
    BY <2>1, <2>2, <2>3, <2>4
<1> QED
  BY <1>6, <1>7 DEF ScopedLabels

\* addlabel takes the nearest one.
LEMMA ScopesLabel ==
  ASSUME NEW a, FirstInv(a), ScopedLabels(a.labels), NEW lbl, lbl[1] \in Nat,
         NEW b, NewLabel(a, b, lbl)
  PROVE  ScopedLabels(b.labels) /\ IsSeq(b.labels)
<1> DEFINE parent == Max({0} \cup {i \in DOMAIN a.labels : a.labels[i].local < lbl[1]})
           label == [name |-> lbl[2], local |-> lbl[1], parent |-> parent,
                     address |-> a.address, equ |-> FALSE]
<1>1. /\ b.labels = Append(a.labels, label)
      /\ ~ \E i \in DOMAIN a.labels : /\ a.labels[i].name = lbl[2] /\ a.labels[i].parent = parent
                                      /\ a.labels[i].local = lbl[1]
  BY DEF NewLabel
<1>2. IsSeq(a.labels) /\ DOMAIN a.labels = 1..Len(a.labels)
  BY SeqShape DEF FirstInv, AsmInv, BufInv
<1>3. label.local = lbl[1] /\ label.name = lbl[2] /\ label.parent = parent
  OBVIOUS
<1>4. parent = Nearest(a.labels, Len(a.labels), lbl[1])
  BY <1>2 DEF Nearest
<1> HIDE DEF label, parent
<1>5. Adds(a.labels, b.labels, label)
  BY <1>1, <1>2, Appended
<1>6. label.local \in Nat /\ label.parent = Nearest(a.labels, Len(a.labels), label.local)
  BY <1>3, <1>4
<1>7. ~ \E i \in DOMAIN a.labels : /\ a.labels[i].name = label.name
                                   /\ a.labels[i].local = label.local
                                   /\ a.labels[i].parent = label.parent
  BY <1>1, <1>3
<1>8. ScopedLabels(a.labels) /\ IsSeq(a.labels)
  BY <1>2
<1>9. ScopedLabels(b.labels)
  BY <1>5, <1>6, <1>7, <1>8, ScopesMore
<1> QED
  BY <1>5, <1>9 DEF Adds

\* Operations change no scope.
LEMMA ScopesIns ==
  ASSUME NEW a, FirstInv(a), NEW op, NEW args, op \in DOMAIN Sizes => IsArgs(args),
         NEW b, b = insfind(a, op, args), ~Stopped(b)
  PROVE  SameScopes(a.labels, b.labels)
<1>1. Shape(a) /\ AsmInv(a) /\ a.arch \in DOMAIN Arch /\ IsSeq(a.labels)
  BY DEF FirstInv, AsmInv, BufInv
<1>2. CASE b.labels = a.labels
  BY <1>1, <1>2, ScopesItself
<1>3. CASE NewEqu(a, b)
  <2>1. IsSeq(b.labels) /\ Len(b.labels) = Len(a.labels)
    BY <1>3 DEF NewEqu
  <2>2. DOMAIN b.labels = DOMAIN a.labels
    BY <1>1, <2>1, SeqShape
  <2> QED
    BY <1>3, <2>1, <2>2 DEF NewEqu, SameScopes
<1>4. b.labels = a.labels \/ NewEqu(a, b)
  <2>1. CASE NewArch(a, b)
    BY <2>1 DEF NewArch, Same, Fields
  <2>2. CASE NewOrg(a, b)
    BY <2>2 DEF NewOrg, Same, Fields
  <2>3. CASE NewCtx(a, b)
    BY <2>3 DEF NewCtx, Same, Fields
  <2>4. CASE NewIns(a, b)
    BY <2>4 DEF NewIns, Same, Fields
  <2>5. CASE NewData(a, b, Sizes[op], args)
    BY <2>5 DEF NewData, Same, Fields
  <2> QED
    BY <1>1, <2>1, <2>2, <2>3, <2>4, <2>5, InsfindEffect
<1> QED
  BY <1>2, <1>3, <1>4

\* A line keeps the scopes nested.
LEMMA ScopePass1 ==
  ASSUME StateInv, ScopeInv, Pass1
  PROVE  ScopeInv'
<1>0. phase = "pass1" /\ FirstInv(asm)
  BY DEF StateInv, Pass1, Dead
<1>1. CASE phase' \in Dead
  BY <1>1 DEF ScopeInv, Dead
<1>2. CASE phase' = phase /\ \E c : Lined(asm, c, asm', prog.lines[line])
  <2> DEFINE l == prog.lines[line]
  <2>1. PICK c : Lined(asm, c, asm', l)
    BY <1>2
  <2> HIDE DEF l
  <2>2. /\ FirstInv(c) /\ (c = asm \/ (NewLabel(asm, c, l.lbl) /\ l.lbl[1] \in Nat))
        /\ asm' = insfind(c, l.op, l.args) /\ FirstInv(asm')
        /\ l.op \in DOMAIN Sizes => IsArgs(l.args)
    BY <2>1 DEF Lined
  <2>3. IsSeq(asm.labels) /\ ScopedLabels(asm.labels)
    BY <1>0 DEF ScopeInv
  <2>4. IsSeq(c.labels) /\ ScopedLabels(c.labels)
    BY <1>0, <2>2, <2>3, ScopesLabel
  <2>5. ~Stopped(asm')
    BY <2>2, GoingOn DEF FirstInv
  <2>6. SameScopes(c.labels, asm'.labels)
    BY <2>2, <2>5, ScopesIns
  <2>7. ScopedLabels(asm'.labels) /\ IsSeq(asm'.labels)
    BY <2>4, <2>6, ScopesStay DEF SameScopes
  <2>8. asm'.llbl \in 0..Len(asm'.labels)
    <3>1. asm'.llbl = 0
      BY <2>2 DEF FirstInv, Start
    <3> QED
      BY <2>7, <3>1, SeqShape
  <2> QED
    BY <2>7, <2>8 DEF ScopeInv
<1> QED
  BY <1>1, <1>2, LineEffect

\* Nothing else makes labels.
LEMMA ScopeKept ==
  ASSUME StateInv, ScopeInv, phase \in {"pass1", "pass2"}, asm'.labels = asm.labels,
         asm'.llbl = asm.llbl \/ asm'.llbl \in 1..Len(asm.labels)
  PROVE  ScopeInv'
<1>1. IsSeq(asm.labels) /\ ScopedLabels(asm.labels) /\ asm.llbl \in 0..Len(asm.labels)
  BY DEF ScopeInv
<1>2. asm'.llbl \in 0..Len(asm.labels)
  BY <1>1, SeqShape
<1> QED
  BY <1>1, <1>2 DEF ScopeInv

\* In the second pass the last label passed moves, and nothing else.
LEMMA ScopePass2 ==
  ASSUME StateInv, ScopeInv, EndPass1 \/ PassIns \/ PassData \/ PassArg \/ PassOrg \/ PassLabel
  PROVE  ScopeInv'
<1>1. CASE EndPass1
  <2>1. asm'.labels = asm.labels /\ asm'.llbl = asm.llbl /\ phase = "pass1"
    BY <1>1, EndPass1Effect DEF Same, Fields, EndPass1
  <2> QED
    BY <2>1, ScopeKept
<1>2. CASE PassIns \/ PassData
  <2>1. phase = "pass2"
    BY <1>2 DEF PassIns, PassData, InPass2
  <2>2. CASE phase' = "error"
    BY <2>2 DEF ScopeInv
  <2>3. CASE phase' # "error"
    <3>1. PICK a, n : Item(a, n)
      BY <1>2, <2>3, ItemIns, ItemData
    <3>2. Same(asm, asm', AfterItem)
      BY <2>1, <3>1, ItemStep
    <3>3. asm'.labels = asm.labels /\ asm'.llbl = asm.llbl
      BY <3>2 DEF Same, AfterItem, Buffer, Fields
    <3> QED
      BY <2>1, <3>3, ScopeKept
  <2> QED
    BY <2>2, <2>3
<1>3. CASE PassArg
  <2>1. phase' \in Dead \/ (phase' = "pass2" /\ ArgStep(asm, asm', Ins.size))
    BY <1>3, ArgEffect
  <2>2. CASE phase' \in Dead
    BY <2>2 DEF ScopeInv, Dead
  <2>3. CASE ArgStep(asm, asm', Ins.size)
    <3>1. phase = "pass2" /\ Same(asm, asm', Buffer)
      BY <1>3, <2>3, ArgEffect DEF ArgStep
    <3>2. asm'.labels = asm.labels /\ asm'.llbl = asm.llbl
      BY <3>1 DEF Same, Buffer, Fields
    <3> QED
      BY <3>1, <3>2, ScopeKept
  <2> QED
    BY <2>1, <2>2, <2>3
<1>4. CASE PassOrg
  <2>1. phase = "pass2" /\ Same(asm, asm', {"inss", "address", "lorg"})
    BY <1>4, StatePassOrg DEF PassOrg, InPass2, OrgStep
  <2>2. asm'.labels = asm.labels /\ asm'.llbl = asm.llbl
    BY <2>1 DEF Same, Fields
  <2> QED
    BY <2>1, <2>2, ScopeKept
<1>5. CASE PassLabel
  <2>1. /\ phase = "pass2"
        /\ asm' = IF Ins.type = "lbl" THEN [asm EXCEPT !.llbl = Ins.lbl] ELSE asm
    BY <1>5 DEF PassLabel, InPass2
  <2>2. Ins.type = "lbl" => Ins.lbl \in 1..Len(asm.labels)
    BY <2>1, InPass2Facts DEF IsEntry, OrgEntry, LblEntry, DataEntry, InsEntry
  <2>3. asm'.labels = asm.labels /\ (asm'.llbl = asm.llbl \/ asm'.llbl \in 1..Len(asm.labels))
    BY <2>1, <2>2, InPass2Facts DEF Shape, Fields
  <2> QED
    BY <2>1, <2>3, ScopeKept
<1> QED
  BY <1>1, <1>2, <1>3, <1>4, <1>5

\* Without labels there are no scopes.
LEMMA NoScopes ==
  ASSUME NEW a, a.labels = <<>>, a.llbl = 0
  PROVE  IsSeq(a.labels) /\ ScopedLabels(a.labels) /\ a.llbl \in 0..Len(a.labels)
<1>1. IsSeq(a.labels) /\ Len(a.labels) = 0
  BY None
<1>2. DOMAIN a.labels = {}
  BY <1>1, SeqShape
<1> QED
  BY <1>1, <1>2 DEF ScopedLabels

\* Every step keeps it.
LEMMA ScopeStep ==
  ASSUME StateInv, ScopeInv, [Next]_vars
  PROVE  ScopeInv'
<1>1. CASE UNCHANGED vars
  <2>1. UNCHANGED <<phase, asm>>
    BY <1>1 DEF vars
  <2> QED
    BY <2>1 DEF ScopeInv
<1>2. CASE EndPass2 \/ WriteOrg \/ WriteLine \/ WriteNext \/ WriteEnd \/ Read
           \/ DisIns \/ DisData \/ DisNext \/ Finish
  <2>1. phase' \notin {"pass1", "pass2"}
    BY <1>2 DEF EndPass2, WriteOrg, WriteLine, WriteNext, WriteEnd, Read,
                DisIns, DisData, DisNext, Finish, InDis
  <2> QED
    BY <2>1 DEF ScopeInv
<1>3. CASE Again
  <2>1. asm' = NewAsm(asm.arch)
    BY <1>3, StateAgain
  <2>2. NewAsm(asm.arch).labels = <<>> /\ NewAsm(asm.arch).llbl = 0
    BY DEF NewAsm
  <2>3. asm'.labels = <<>> /\ asm'.llbl = 0
    BY <2>1, <2>2
  <2>4. IsSeq(asm'.labels) /\ ScopedLabels(asm'.labels) /\ asm'.llbl \in 0..Len(asm'.labels)
    BY <2>3, NoScopes
  <2> QED
    BY <2>4 DEF ScopeInv
<1> QED
  BY <1>1, <1>2, <1>3, ScopePass1, ScopePass2 DEF Next

\* The recursion to the labels that a label is local to ends at the nearest one.
LEMMA OwnerIsNearest ==
  ASSUME NEW a, IsSeq(a.labels), ScopedLabels(a.labels), NEW i, i \in 0..Len(a.labels),
         NEW level, level \in Nat
  PROVE  OwnerOf(a, i, level) = Nearest(a.labels, i, level)
<1> DEFINE ls == a.labels
           n == Len(ls)
           Def(f) == [j \in 0..n |-> IF j = 0 THEN 0
                                     ELSE IF ls[j].local < level THEN j ELSE f[ls[j].parent]]
           owner == CHOOSE f : f = Def(f)
           g == [j \in 0..n |-> Nearest(ls, j, level)]
<1>1. OwnerOf(a, i, level) = owner[i]
  BY DEF OwnerOf
<1>2. n \in Nat /\ DOMAIN ls = 1..n
  BY SeqShape
<1>3. \A j \in 1..n : /\ ls[j].parent \in 0..j - 1 /\ ls[j].local \in Nat
                      /\ \A m \in ls[j].parent + 1..j - 1 : ls[m].local >= ls[j].local
  BY <1>2 DEF ScopedLabels
<1> HIDE DEF ls, n
<1>4. \A j \in 0..n : g[j] = Nearest(ls, j, level)
  OBVIOUS
<1> HIDE DEF g
<1>5. g[0] = 0
  <2> DEFINE q == Nearest(ls, 0, level)
  <2>1. q \in 0..0
    BY NearestFacts
  <2>2. 0 \in 0..n
    BY <1>2
  <2> HIDE DEF q
  <2>3. q = 0
    BY <2>1
  <2> QED
    BY <1>4, <2>2, <2>3 DEF q
<1>6. ASSUME NEW j \in 1..n
      PROVE  g[j] = IF ls[j].local < level THEN j ELSE g[ls[j].parent]
  <2> DEFINE p == ls[j].parent
             q == Nearest(ls, p, level)
  <2>0. j \in Nat /\ p \in 0..j - 1 /\ p \in 0..n /\ j \in 0..n /\ p \in Nat
    BY <1>2, <1>3
  <2>1. CASE ls[j].local < level
    <3>1. /\ j \in Nat /\ j \in 0..j /\ (j # 0 => ls[j].local < level)
          /\ \A m \in j + 1..j : ~(ls[m].local < level)
      BY <2>0, <2>1
    <3> HIDE DEF p, q
    <3>2. j = Nearest(ls, j, level)
      BY <3>1, NearestIs
    <3> QED
      BY <1>4, <2>0, <2>1, <3>2
  <2>2. CASE ~(ls[j].local < level)
    <3>1. /\ q \in 0..p /\ (q # 0 => ls[q].local < level)
          /\ \A m \in q + 1..p : ~(ls[m].local < level)
      BY <2>0, NearestFacts
    <3>2. ASSUME NEW m \in p + 1..j  PROVE ~(ls[m].local < level)
      <4>1. CASE m = j
        BY <2>2, <4>1
      <4>2. CASE m # j
        <5>1. m \in p + 1..j - 1 /\ m \in 1..n
          BY <1>2, <2>0, <4>2
        <5>2. ls[m].local >= ls[j].local /\ ls[m].local \in Nat /\ ls[j].local \in Nat
          BY <1>3, <5>1
        <5> QED
          BY <2>2, <5>2
      <4> QED
        BY <4>1, <4>2
    <3> HIDE DEF q
    <3>3. \A m \in q + 1..j : ~(ls[m].local < level)
      <4>1. \A m \in q + 1..j : m \in q + 1..p \/ m \in p + 1..j
        BY <2>0, <3>1
      <4> QED
        BY <3>1, <3>2, <4>1
    <3>4. q \in 0..j
      BY <2>0, <3>1
    <3>5. q = Nearest(ls, j, level)
      BY <2>0, <3>1, <3>3, <3>4, NearestIs
    <3> QED
      BY <1>4, <2>0, <2>2, <3>5 DEF q
  <2> QED
    BY <2>1, <2>2
<1>7. g = Def(g)
  <2>1. \A j \in 0..n : g[j] = IF j = 0 THEN 0
                               ELSE IF ls[j].local < level THEN j ELSE g[ls[j].parent]
    <3>1. \A j \in 0..n : j # 0 => j \in 1..n
      BY <1>2
    <3> QED
      BY <1>5, <1>6, <3>1
  <2>2. g = [j \in 0..n |-> g[j]]
    BY DEF g
  <2> QED
    BY <2>1, <2>2
<1>8. owner = Def(owner)
  <2> HIDE DEF Def
  <2> QED
    BY <1>7
<1>9. \A j \in 0..n : owner[j] = IF j = 0 THEN 0
                                 ELSE IF ls[j].local < level THEN j ELSE owner[ls[j].parent]
  <2> HIDE DEF owner
  <2> QED
    BY <1>8
<1> HIDE DEF owner, Def
<1> DEFINE Other == {j \in 0..n : owner[j] # g[j]}
<1>10. Other = {}
  <2> SUFFICES ASSUME Other # {}  PROVE FALSE
    OBVIOUS
  <2> DEFINE m == Min(Other)
  <2>1. m \in Other /\ \A y \in Other : m <= y
    <3>1. Other \in SUBSET Nat
      BY <1>2
    <3> HIDE DEF Other
    <3> QED
      BY <3>1, Least
  <2> HIDE DEF m
  <2>2. m \in 0..n /\ owner[m] # g[m]
    BY <2>1
  <2>3. m # 0
    BY <1>5, <1>9, <2>2
  <2>4. m \in 1..n
    BY <1>2, <2>2, <2>3
  <2> DEFINE p == ls[m].parent
  <2>5. p \in 0..n /\ p < m
    BY <1>2, <1>3, <2>4
  <2>6. p \notin Other
    <3> HIDE DEF p, Other
    <3>1. m \in Nat /\ p \in Nat
      BY <1>2, <2>4, <2>5
    <3> QED
      BY <2>1, <2>5, <3>1
  <2>7. owner[p] = g[p]
    <3> HIDE DEF p
    <3> QED
      BY <2>5, <2>6
  <2> QED
    BY <1>6, <1>9, <2>2, <2>3, <2>4, <2>7
<1>11. i \in 0..n
  BY DEF n, ls
<1>12. owner[i] = g[i]
  BY <1>10, <1>11
<1> QED
  BY <1>1, <1>4, <1>11, <1>12 DEF ls

\* A name that is no label in scope starts no way either.
LEMMA NoWay ==
  ASSUME NEW a, IsSeq(a.labels), NEW path, Len(path) = 1, Simple(a, path) = {}
  PROVE  Path(a, path) = 0
<1> DEFINE n == Len(a.labels)
           Def(s) == [i \in 0..n |-> IF i = 0 THEN NoPath ELSE PathStep(a, path, s[i - 1], i)]
           s == CHOOSE s : s = Def(s)
           g == [i \in 0..n |-> NoPath]
<1>1. Path(a, path) = s[n].found
  BY DEF Path
<1>2. n \in Nat /\ DOMAIN a.labels = 1..n
  BY SeqShape
<1>3. NoPath.k = 1 /\ NoPath.l = -1 /\ NoPath.over = FALSE /\ NoPath.found = 0
  BY DEF NoPath
<1>4. ASSUME NEW i \in 1..n  PROVE PathStep(a, path, NoPath, i) = NoPath
  <2>1. \/ a.labels[i].name # path[1][2] \/ a.labels[i].local # path[1][1]
        \/ ~InScope(a, i)
    BY <1>2 DEF Simple
  <2> QED
    BY <1>3, <2>1 DEF PathStep
<1>5. g = Def(g)
  <2>1. \A i \in 1..n : g[i - 1] = NoPath
    BY <1>2
  <2>2. \A i \in 0..n : i # 0 => i \in 1..n
    BY <1>2
  <2>3. \A i \in 0..n : NoPath = IF i = 0 THEN NoPath ELSE PathStep(a, path, g[i - 1], i)
    <3> HIDE DEF g
    <3> QED
      BY <1>4, <2>1, <2>2
  <2> QED
    BY <2>3
<1>6. s = Def(s)
  <2> HIDE DEF Def
  <2> QED
    BY <1>5
<1>7. s[0] = NoPath /\ \A i \in 1..n : s[i] = PathStep(a, path, s[i - 1], i)
  <2> HIDE DEF s
  <2>1. \A i \in 0..n : s[i] = IF i = 0 THEN NoPath ELSE PathStep(a, path, s[i - 1], i)
    BY <1>6
  <2>2. 0 \in 0..n /\ \A i \in 1..n : i \in 0..n /\ i # 0
    BY <1>2
  <2> HIDE DEF Def
  <2> QED
    BY <2>1, <2>2
<1> HIDE DEF s, Def
<1> DEFINE T == {i \in Nat : i <= n => s[i] = NoPath}
<1>8. 0 \in T
  BY <1>7
<1>9. ASSUME NEW i \in T, i < n  PROVE i + 1 \in T
  <2>1. i \in Nat /\ i + 1 \in 1..n /\ (i + 1) - 1 = i /\ s[i] = NoPath
    BY <1>2, <1>9
  <2>2. s[i + 1] = NoPath
    BY <1>4, <1>7, <2>1
  <2> QED
    BY <2>1, <2>2
<1>10. s[n] = NoPath
  <2> HIDE DEF T, n
  <2>1. T \in SUBSET Nat
    BY DEF T
  <2>2. n \in T
    BY <1>2, <1>8, <1>9, <2>1, Inductive
  <2> QED
    BY <1>2, <2>2 DEF T
<1> QED
  BY <1>1, <1>3, <1>10

\* Of nested scopes the label found is the one that is meant.
LEMMA FoundIsMeant ==
  ASSUME NEW a, IsSeq(a.labels), ScopedLabels(a.labels), a.llbl \in 0..Len(a.labels),
         NEW path, Len(path) = 1,
         NEW meant, meant = {i \in DOMAIN a.labels :
                               /\ a.labels[i].name = path[1][2] /\ a.labels[i].local = path[1][1]
                               /\ a.labels[i].parent = OwnerOf(a, a.llbl, path[1][1])}
  PROVE  FindLabel(a, path) = IF meant = {} THEN 0 ELSE CHOOSE i \in meant : TRUE
<1>1. DOMAIN a.labels = 1..Len(a.labels) /\ Len(a.labels) \in Nat
  BY SeqShape
<1>2. ASSUME NEW i \in DOMAIN a.labels, a.labels[i].local = path[1][1]
      PROVE  InScope(a, i) <=> a.labels[i].parent = OwnerOf(a, a.llbl, path[1][1])
  <2>1. path[1][1] \in Nat
    BY <1>2 DEF ScopedLabels
  <2>2. OwnerOf(a, a.llbl, path[1][1]) = Nearest(a.labels, a.llbl, path[1][1])
    BY <2>1, OwnerIsNearest
  <2> QED
    BY <1>2, <2>2 DEF InScope, ScopeOf, Nearest
<1>3. Simple(a, path) = meant
  BY <1>2 DEF Simple
<1>4. CASE meant = {}
  BY <1>3, <1>4, NoWay DEF FindLabel, FirstOf
<1>5. CASE meant # {}
  <2>1. PICK i \in meant : TRUE
    BY <1>5
  <2>2. \A j \in meant : j = i
    BY <2>1 DEF ScopedLabels
  <2>3. meant = {i}
    BY <2>1, <2>2
  <2>4. i \in Nat
    BY <1>1, <2>1
  <2>5. Min(meant) \in meant
    <3>1. meant \in SUBSET Nat
      BY <2>3, <2>4
    <3> QED
      BY <1>5, <3>1, Least
  <2>6. (CHOOSE j \in meant : TRUE) = i /\ Min(meant) = i
    BY <2>3, <2>5
  <2> QED
    BY <1>3, <1>5, <2>6 DEF FindLabel, FirstOf
<1> QED
  BY <1>4, <1>5

\* Then an identifier in an instruction is the label it means.
LEMMA ScopeFinal == ScopeInv => LocalsAreScoped
<1> SUFFICES ASSUME ScopeInv, Here2  PROVE LocalsAreScoped
  BY DEF LocalsAreScoped
<1>1. IsSeq(asm.labels) /\ ScopedLabels(asm.labels) /\ asm.llbl \in 0..Len(asm.labels)
  BY DEF ScopeInv, Here2
<1>2. ASSUME NEW path, Len(path) = 1
      PROVE  FindLabel(asm, path) =
               LET meant == {i \in DOMAIN asm.labels :
                               /\ asm.labels[i].name = path[1][2]
                               /\ asm.labels[i].local = path[1][1]
                               /\ asm.labels[i].parent = OwnerOf(asm, asm.llbl, path[1][1])}
               IN IF meant = {} THEN 0 ELSE CHOOSE i \in meant : TRUE
  <2> DEFINE meant == {i \in DOMAIN asm.labels :
                         /\ asm.labels[i].name = path[1][2]
                         /\ asm.labels[i].local = path[1][1]
                         /\ asm.labels[i].parent = OwnerOf(asm, asm.llbl, path[1][1])}
             found == FindLabel(asm, path)
  <2>1. found = IF meant = {} THEN 0 ELSE CHOOSE i \in meant : TRUE
    <3> HIDE DEF found
    <3>1. \A S : S = meant => FindLabel(asm, path) = IF S = {} THEN 0 ELSE CHOOSE i \in S : TRUE
      BY <1>1, <1>2, FoundIsMeant
    <3> HIDE DEF meant
    <3> QED
      BY <3>1 DEF found
  <2> QED
    BY <2>1
<1> QED
  BY <1>2 DEF LocalsAreScoped

\* At the start there are no labels.
LEMMA ScopeInit == Init => ScopeInv
<1> SUFFICES ASSUME Init  PROVE ScopeInv
  OBVIOUS
<1>1. asm.labels = <<>> /\ asm.llbl = 0
  BY DEF Init, NewAsm
<1> QED
  BY <1>1, NoScopes DEF ScopeInv

-----------------------------------------------------------------------------
(* The theorems.                                                           *)

IInv == StateInv /\ CollInv /\ ImageInv /\ LabelInv /\ ScopeInv

\* The state the four theorems rest on: in order, of areas that collide nowhere,
\* of an image in step with the outbuf and the hex file, of labels where their
\* lines are and of nested scopes.
THEOREM Invariance == Spec => []IInv
<1>1. Init => IInv
  BY StateInit, CollInit, ImageInit, LabelInit, ScopeInit DEF IInv
<1>2. IInv /\ [Next]_vars => IInv'
  BY StateStep, CollStep, ImageKept, LabelStep, ScopeStep DEF IInv
<1> QED
  BY <1>1, <1>2, PTL DEF Spec

\* An item put where another one is does not get past the second pass
\* (insmapadd and colcheck of as.c), however the program's orgs and data lie, as
\* long as its items have one word: of longer ones colcheck asks about the ends.
THEOREM CollisionsAreFound == Spec => []CollisionsFound
<1>1. IInv => CollisionsFound
  BY DEF IInv, CollInv, CollisionsFound
<1> QED
  BY <1>1, Invariance, PTL

\* What ihex_read makes of the file that ihex_write wrote are the bytes that the
\* second pass assembled, each at its address, whatever the orgs, the length of a
\* line and the segments that a line or an org crosses.
THEOREM HexIsTheImage == Spec => []HexIsImage
<1>1. IInv => HexIsImage
  BY DEF IInv, ImageInv
<1> QED
  BY <1>1, Invariance, PTL

\* The first pass counts for every entry the address that the second pass comes to
\* (insfind and assemble of as.c): a label's address is its line's, for any program
\* without strings in its data.
THEOREM LabelsAreInPlace == Spec => []LabelsInPlace
<1>1. IInv => LabelsInPlace
  BY LabelFinal DEF IInv
<1> QED
  BY <1>1, Invariance, PTL

\* An identifier in an instruction or in data is the label of the nearest scope
\* around it (addlabel of as.c, getlabel of misc.c), or none, when there is none.
THEOREM LocalsAreInScope == Spec => []LocalsAreScoped
<1>1. IInv => LocalsAreScoped
  BY ScopeFinal DEF IInv
<1> QED
  BY <1>1, Invariance, PTL
=============================================================================
