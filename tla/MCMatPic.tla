------------------------------ MODULE MCMatPic ------------------------------
EXTENDS MatPicExpr, MatPicArch

N(n) == <<"num", n>>
X(e) == <<"expr", e>>
Op(op, args) == [lbl |-> <<>>, op |-> op, args |-> args]
At1(lbl, l) == [l EXCEPT !.lbl = lbl]
Prog14(lines) == [arch |-> "pic14b", lines |-> lines]
Prog18(lines) == [arch |-> "pic18f", lines |-> lines]

\* Expressions: operators of all ten levels.  No shift is by less than nothing.
Ops == {"*", "/", "-", "<<", "&", "^", "|", "<", "==", "&&", "||"}
Flat(n, p) == <<N(n[1]), p[1], N(n[2]), p[2], N(n[3]), p[3], N(n[4])>>
Unary ==
  {<<<<"-", N(3)>>, "+", <<"()", <<N(2), "-", <<"~", N(5)>>>>>>, op, <<"!", N(0)>>>> : op \in Ops}
MCExpressions ==
  {Prog14(<<Op("dd", <<X(e)>>)>>) :
     e \in {Flat(<<7, 5, 2, 1>>, p) : p \in [1..3 -> Ops]}
           \cup {Flat(<<6, 3, 3, 0>>, p) : p \in [1..3 -> {"/", "%", "+", ">>"}]} \cup Unary
           \cup {<<N(1), op, <<"str", <<97, 98>>>>>> : op \in Ops \ {"<<"}}}

\* Three labels, and at one of them or after them a goto to one of the names.
Lbls == (0..2) \X {"a", "b"}
Named(path) == X(<<<<"id", path>>>>)
MCScopes ==
  {Prog14([i \in 1..4 |->
            LET l == IF i = at THEN Op("goto", <<Named(path)>>) ELSE Op("nop", <<>>)
            IN IF i = 4 THEN l ELSE At1(lbls[i], l)]) :
     lbls \in {l \in [1..3 -> Lbls] : l[1][2] = "a"}, at \in 2..4,
     path \in {<<l>> : l \in Lbls} \cup {<<<<0, "a">>, <<1, "b">>>>}}

\* Items of one word and of more, in three areas that may overlap.
Items == {Op("nop", <<>>), Op("db", <<X(<<N(9)>>)>>), Op("dw", <<X(<<N(513)>>)>>), Op("dw", <<X(<<N(1)>>), X(<<N(2)>>)>>),
          Op("db", <<<<"str", <<97, 98, 99>>>>>>), Op("dd", <<X(<<N(5)>>)>>)}
Org(n) == Op("org", <<X(<<N(n)>>)>>)
MCLayouts ==
  {Prog14(<<At1(<<0, "a">>, i), Org(n), At1(<<0, "b">>, j), Org(m), k,
            At1(<<0, "c">>, Op("call", <<Named(<<<<0, "b">>>>)>>))>>) :
     i \in Items, j \in Items, k \in Items, n \in 0..2, m \in 0..3}

\* Every name of the tables, with all its numbers of arguments.
Instructions(arch) ==
  {[arch |-> arch, lines |-> <<Org(6), Op(row.name, v), Op("nop", <<>>)>>] :
     row \in Range(PicArch[arch].ocs),
     v \in UNION {[1..n -> {X(<<N(1)>>), X(<<N(2748)>>)}] : n \in 0..3}}

\* Areas across segments of the hex file; files, macros, equ and a few errors.
MCFiles ==
  {Prog18(<<Org(n), i, j, j, Org(m), i>>) :
     n \in {0, 3, 7, 12}, m \in {0, 9, 16, 21},
     i \in {Op("nop", <<>>), Op("goto", <<X(<<<<"here">>>>)>>)},
     j \in {Op("nop", <<>>), Op("goto", <<X(<<<<"here">>>>)>>)}}
  \cup {Prog14(<<Op(p, <<>>), At1(<<0, "a">>, Op("equ", <<X(<<N(n)>>)>>)), Org(n),
                 Op("goto", <<Named(<<<<0, "a">>>>)>>), Op(q, <<>>)>>) :
          p \in {"", "file", "expands", "endfile", "equ"}, n \in 0..1,
          q \in {"", "endfile", "endexp", "db", "foo"}}
  \cup {Prog14(<<Op("arch", <<a>>), Op("bra", <<X(<<<<"here">>>>)>>)>>) : a \in {"pic18f", "z80"}}

MCPrograms == MCExpressions \cup MCScopes \cup MCLayouts \cup MCFiles
              \cup Instructions("pic14b") \cup Instructions("pic18f")
MCTwoBytes == {Prog14(<<Op("db", <<X(<<N(n)>>)>>), Op(op, <<X(<<N(n)>>)>>)>>) :
                 n \in 1..3, op \in {"db", "dw"}} \cup MCFiles
=============================================================================
