------------------------------- MODULE MatYacc -------------------------------
(***************************************************************************)
(* matyacc: from a grammar's text to parse tables (reader.c, lr0.c,        *)
(* closure.c, warshall.c, lalr.c, mkpar.c, output.c) and the parser that   *)
(* runs on those tables (skeleton.c).                                      *)
(*                                                                         *)
(* A symbol is a number as in the code: tokens from 0 ($end) and 1 (error),*)
(* then start_symbol ($accept), the goal and the other variables.  A rule  *)
(* is its number; an item, in the code an index of ritem, is <<rule, dot>>,*)
(* which orders items as their indices do.  A state is its number.         *)
(***************************************************************************)
EXTENDS Integers, SequencesExt

CONSTANTS
  Texts,      \* grammars: sequences of elements, see Element
  InputLen,   \* longest input given to a generated parser
  MaxDepth    \* YYMAXDEPTH

VARIABLES
  phase,      \* "read" "states" "lalr" "mkpar" "output" "feed" "parse"
  text, G,    \* the grammar as text, and packed
  nextState,  \* this_state of generate_states
  aut,        \* cores, shifts and reductions, by state number
  la,         \* LA, by state and rule
  rows,       \* parser: the action lists, by state number
  tab,        \* the tables written to y.tab.c
  input, ss, yychar, yyerrflag, yynerrs, outcome,   \* yyparse
  shifted, failedAt,  \* history: tokens shifted; so many at the first error
  given, facts        \* history: the whole input; what the grammar is, see Facts

genVars == <<text, G, nextState, aut, la, rows, tab, facts>>
parseVars == <<input, ss, yychar, yyerrflag, yynerrs, outcome, shifted, failedAt, given>>
vars == <<phase, genVars, parseVars>>

UNDEFINED == -1
EMPTY == -1     \* YYEMPTY
ErrorToken == 1
Min2(a, b) == IF a < b THEN a ELSE b
\* The elements of S in the order Before, which is total on S.
SortedBy(S, Before(_, _)) ==
  LET Insert(x, s) == InsertAt(s, Len(SelectSeq(s, LAMBDA y : Before(y, x))) + 1, x)
  IN FoldSet(Insert, <<>>, S)
Sorted(S) == SortedBy(S, <)
-----------------------------------------------------------------------------
(* reader.c.  An element of a text is a tuple: <<"%left", a, ...>> and its  *)
(* like, <<"%start", s>>, <<"%value", a, n>> (a number after a name), and   *)
(* in the rules <<":", lhs>>, <<"sym", s>>, <<"|">>, <<"{}">>, <<"%prec", a>>. *)

NewBucket == [class |-> "UNKNOWN", value |-> UNDEFINED, prec |-> 0, assoc |-> "TOKEN"]

Empty == [order |-> <<"error">>, bucket |-> "error" :> [NewBucket EXCEPT !.class = "TERM"],
          goal |-> "", prec |-> 0, rules |-> <<>>, acted |-> FALSE, gensym |-> 0,
          alts |-> 0, cases |-> <<>>]

Lookup(r, n) ==
  IF n \in DOMAIN r.bucket THEN r
  ELSE [r EXCEPT !.order = Append(@, n), !.bucket = @ @@ (n :> NewBucket)]

DeclareToken(r, n, assoc) ==
  LET s == Lookup(r, n)
      set == IF assoc = "TOKEN" THEN s
             ELSE [s EXCEPT !.bucket[n].assoc = assoc, !.bucket[n].prec = s.prec]
  IN [set EXCEPT !.bucket[n].class = "TERM"]

DeclareTokens(r, names, assoc) ==
  FoldLeft(LAMBDA s, n : DeclareToken(s, n, assoc),
           IF assoc = "TOKEN" THEN r ELSE [r EXCEPT !.prec = @ + 1], names)

\* end_rule and start_rule; alt is history: the alternative's place in the text.
StartRule(r, lhs) ==
  [r EXCEPT !.bucket[lhs].class = "NONTERM", !.acted = FALSE, !.alts = @ + 1,
            !.goal = IF @ = "" THEN lhs ELSE @,
            !.rules = Append(@, [lhs |-> lhs, rhs |-> <<>>, prec |-> UNDEFINED,
                                 assoc |-> "TOKEN", alt |-> r.alts + 1])]

EmptyRuleFor(n) ==
  [lhs |-> n, rhs |-> <<>>, prec |-> 0, assoc |-> "TOKEN", alt |-> 0]

\* An action in the middle of a rule becomes an empty rule before it.
InsertEmptyRule(r) ==
  LET n == "$$" \o ToString(r.gensym + 1)
      last == Last(r.rules)
      s == Lookup(r, n)
  IN [s EXCEPT !.gensym = @ + 1, !.bucket[n].class = "NONTERM",
               !.rules = Front(@) \o <<EmptyRuleFor(n), [last EXCEPT !.rhs = Append(@, n)]>>]

FlushAction(r) == IF r.acted THEN InsertEmptyRule(r) ELSE r

AddSymbol(r, n) ==
  LET s == FlushAction(Lookup(r, n))
      k == Len(s.rules)
  IN [s EXCEPT !.acted = FALSE, !.rules[k].rhs = Append(@, n)]

\* Mutant of CopyAction: the number is taken before the empty rule is put in.
NumberFirst(r) ==
  LET s == FlushAction(r)
  IN [s EXCEPT !.acted = TRUE,
               !.cases = Append(@, [num |-> Len(r.rules), alt |-> s.alts,
                                    pos |-> Len(Last(s.rules).rhs) + 1])]

\* The number after "case" is written when the action is read.
CopyAction(r) ==
  LET s == FlushAction(r)
  IN [s EXCEPT !.acted = TRUE,
               !.cases = Append(@, [num |-> Len(s.rules), alt |-> s.alts,
                                    pos |-> Len(Last(s.rules).rhs) + 1])]

MarkSymbol(r, n) ==
  LET s == Lookup(r, n)
      k == Len(s.rules)
  IN [s EXCEPT !.rules[k].prec = s.bucket[n].prec, !.rules[k].assoc = s.bucket[n].assoc]

Element(r, e) ==
  CASE e[1] = "%token" -> DeclareTokens(r, Tail(e), "TOKEN")
    [] e[1] = "%left" -> DeclareTokens(r, Tail(e), "LEFT")
    [] e[1] = "%right" -> DeclareTokens(r, Tail(e), "RIGHT")
    [] e[1] = "%nonassoc" -> DeclareTokens(r, Tail(e), "NONASSOC")
    [] e[1] = "%value" -> [DeclareToken(r, e[2], "TOKEN") EXCEPT !.bucket[e[2]].value = e[3]]
    [] e[1] = "%start" -> [Lookup(r, e[2]) EXCEPT !.goal = e[2]]
    [] e[1] = ":" -> StartRule(Lookup(r, e[2]), e[2])
    [] e[1] = "|" -> StartRule(r, Last(r.rules).lhs)
    [] e[1] = "sym" -> AddSymbol(r, e[2])
    [] e[1] = "{}" -> CopyAction(r)
    [] e[1] = "%prec" -> MarkSymbol(r, e[2])

ReadGrammar(t) == FoldLeft(Element, Empty, t)

\* pack_symbols: where the symbols of a class go, in the order of the text.
ClassOf(r, n) == IF r.bucket[n].class = "UNKNOWN" THEN "TERM" ELSE r.bucket[n].class
Tokens(r) == SelectSeq(r.order, LAMBDA n : ClassOf(r, n) = "TERM")
Variables(r) ==
  <<r.goal>> \o SelectSeq(r.order, LAMBDA n : ClassOf(r, n) = "NONTERM" /\ n # r.goal)

\* Token numbers: what the text says, 256 for error, and for the others the
\* next number from 257 that the text does not use.
TokenValues(r) ==
  LET taken == {r.bucket[n].value : n \in DOMAIN r.bucket}
      NextFree(n) == CHOOSE m \in n..n + Cardinality(taken) :
                       m \notin taken /\ \A l \in n..m - 1 : l \in taken
      Assign(v, n) ==
        LET said == r.bucket[n].value
            m == NextFree(v.next)
        IN IF n = "error" /\ said = UNDEFINED THEN [v EXCEPT !.values = Append(@, 256)]
           ELSE IF said # UNDEFINED THEN [v EXCEPT !.values = Append(@, said)]
           ELSE [next |-> m + 1, values |-> Append(v.values, m)]
  IN FoldLeft(Assign, [next |-> 257, values |-> <<>>], Tokens(r)).values

PackSymbols(r) ==
  LET tokens == Tokens(r)
      variables == Variables(r)
      nt == Len(tokens) + 1
      IndexOf(n) == IF ClassOf(r, n) = "TERM" THEN CHOOSE i \in DOMAIN tokens : tokens[i] = n
                    ELSE nt + (CHOOSE i \in DOMAIN variables : variables[i] = n)
  IN [ntokens |-> nt, nsyms |-> nt + 1 + Len(variables),
      index |-> [n \in DOMAIN r.bucket |-> IndexOf(n)],
      value |-> [s \in 0..nt + Len(variables) |->
                   IF s = 0 THEN 0 ELSE IF s < nt THEN TokenValues(r)[s] ELSE s - nt - 1],
      prec |-> [s \in 0..nt - 1 |-> IF s = 0 THEN 0 ELSE r.bucket[tokens[s]].prec],
      assoc |-> [s \in 0..nt - 1 |-> IF s = 0 THEN "TOKEN" ELSE r.bucket[tokens[s]].assoc]]

\* pack_grammar: rule 2 is $accept: goal $end; a rule without %prec has the
\* precedence of its last token.
PackGrammar(r) ==
  LET S == PackSymbols(r)
      rule(k) == r.rules[k - 2]
      rhs == [k \in 2..Len(r.rules) + 2 |->
                IF k = 2 THEN <<S.index[r.goal], 0>>
                ELSE [i \in DOMAIN rule(k).rhs |-> S.index[rule(k).rhs[i]]]]
      terms(k) == SelectSeq(rhs[k], LAMBDA s : s < S.ntokens)
      ByToken(k, f(_), none) ==
        IF k = 2 \/ terms(k) = <<>> THEN none ELSE f(Last(terms(k)))
      TokenPrec(s) == S.prec[s]
      TokenAssoc(s) == S.assoc[s]
      marked(k) == k # 2 /\ rule(k).prec # UNDEFINED
  IN [sym |-> S, ntokens |-> S.ntokens, nsyms |-> S.nsyms,
      lhs |-> [k \in DOMAIN rhs |-> IF k = 2 THEN S.ntokens ELSE S.index[rule(k).lhs]],
      rhs |-> rhs,
      prec |-> [k \in DOMAIN rhs |->
                  IF marked(k) THEN rule(k).prec ELSE ByToken(k, TokenPrec, 0)],
      assoc |-> [k \in DOMAIN rhs |->
                   IF marked(k) THEN rule(k).assoc ELSE ByToken(k, TokenAssoc, "TOKEN")]]
-----------------------------------------------------------------------------
(* closure.c and warshall.c, lr0.c *)

Rules(g) == DOMAIN g.lhs
Vars(g) == g.ntokens..g.nsyms - 1
IsVar(g, s) == s >= g.ntokens
Derives(g, v) == {k \in Rules(g) : g.lhs[k] = v}

RECURSIVE NullableFrom(_, _)
NullableFrom(g, N) ==     \* set_nullable, until a pass adds nothing
  LET more == {g.lhs[k] : k \in {j \in Rules(g) : Range(g.rhs[j]) \subseteq N}}
  IN IF more \subseteq N THEN N ELSE NullableFrom(g, N \union more)
Nullable(g) == NullableFrom(g, {})

\* transitive_closure, in place: row j takes row i over if it has i.
TransitiveClosure(R) ==
  FoldLeft(LAMBDA Q, i : [j \in DOMAIN Q |-> IF i \in Q[j] THEN Q[j] \union Q[i] ELSE Q[j]],
           R, Sorted(DOMAIN R))
ReflexiveTransitiveClosure(R) ==
  LET Q == TransitiveClosure(R) IN [i \in DOMAIN Q |-> Q[i] \union {i}]

FirstDerives(g) ==
  LET heads(v) == {g.rhs[k][1] : k \in {j \in Derives(g, v) : g.rhs[j] # <<>>}}
      EFF == ReflexiveTransitiveClosure(
               [v \in Vars(g) |-> {s \in heads(v) : IsVar(g, s)}])
  IN [v \in Vars(g) |-> UNION {Derives(g, w) : w \in EFF[v]}]

\* The symbol after the dot; a dot at the end stands before the rule's number.
AtEnd(g, item) == item[2] = Len(g.rhs[item[1]])
Next1(g, item) == g.rhs[item[1]][item[2] + 1]
Open(g, items) == {i \in items : ~AtEnd(g, i)}

Closure(g, nucleus) ==
  LET FD == FirstDerives(g)
      seen == {Next1(g, i) : i \in Open(g, nucleus)}
  IN nucleus \union {<<k, 0>> : k \in UNION {FD[v] : v \in {s \in seen : IsVar(g, s)}}}

InitialStates(g) ==
  [kernel |-> 0 :> {<<k, 0>> : k \in Derives(g, g.ntokens)}, accessing |-> 0 :> 0,
   shift |-> <<>>, reduction |-> <<>>]

NStates(A) == Cardinality(DOMAIN A.kernel)

\* get_state, for the symbols in the order append_states sorts them.
GetState(g, items, B, s) ==
  LET kernel == {<<i[1], i[2] + 1>> : i \in {j \in Open(g, items) : Next1(g, j) = s}}
      n == NStates(B.aut)
  IN IF \E k \in DOMAIN B.aut.kernel : B.aut.kernel[k] = kernel
     THEN [B EXCEPT !.to = Append(@, CHOOSE k \in DOMAIN B.aut.kernel :
                                       B.aut.kernel[k] = kernel)]
     ELSE [aut |-> [B.aut EXCEPT !.kernel = @ @@ (n :> kernel), !.accessing = @ @@ (n :> s)],
           to |-> Append(B.to, n)]

\* One turn of generate_states: closure, save_reductions, new_itemsets,
\* append_states and save_shifts.  $end is never shifted.
GenerateState(g, A, k) ==
  LET items == Closure(g, A.kernel[k])
      symbols == {Next1(g, i) : i \in Open(g, items)} \ {0}
      B == FoldLeft(LAMBDA C, s : GetState(g, items, C, s),
                    [aut |-> A, to |-> <<>>], Sorted(symbols))
      reds == Sorted({i[1] : i \in items \ Open(g, items)})
  IN [B.aut EXCEPT !.shift = @ @@ (k :> B.to), !.reduction = @ @@ (k :> reds)]
-----------------------------------------------------------------------------
(* lalr.c.  A goto is a number; goto 1 here is goto 0 of the code, which is *)
(* that of state 0 over the goal, as gotos are sorted by variable, then by  *)
(* the state they leave.                                                    *)

ShiftTo(A, k, s) ==     \* the search in shift_table; s is always found
  CHOOSE to \in Range(A.shift[k]) : A.accessing[to] = s

Gotos(g, A) ==     \* set_goto_map
  LET all == {<<v, k>> \in Vars(g) \X DOMAIN A.kernel :
                \E to \in Range(A.shift[k]) : A.accessing[to] = v}
      Before(a, b) == a[1] < b[1] \/ (a[1] = b[1] /\ a[2] < b[2])
      seq == SortedBy(all, Before)
  IN [i \in DOMAIN seq |-> [sym |-> seq[i][1], from |-> seq[i][2],
                            to |-> ShiftTo(A, seq[i][2], seq[i][1])]]

MapGoto(gotos, k, s) == CHOOSE i \in DOMAIN gotos : gotos[i].from = k /\ gotos[i].sym = s

\* traverse: F(i) takes over the F of all it is related to; the members of a
\* strong component get the F of the one they were entered by.
RECURSIVE Traverse(_, _, _)
Traverse(R, i, t) ==
  LET height == Len(t.vertices) + 1
      infinity == Cardinality(DOMAIN R) + 2
      entered == [t EXCEPT !.vertices = Append(@, i), !.index[i] = height]
      Visit(u, j) ==
        LET w == IF u.index[j] = 0 THEN Traverse(R, j, u) ELSE u
        IN [w EXCEPT !.index[i] = Min2(@, w.index[j]), !.F[i] = @ \union w.F[j]]
      done == FoldLeft(Visit, entered, R[i])
      component == {done.vertices[n] : n \in height..Len(done.vertices)}
  IN IF done.index[i] # height THEN done
     ELSE [vertices |-> SubSeq(done.vertices, 1, height - 1),
           index |-> [j \in DOMAIN R |-> IF j \in component THEN infinity ELSE done.index[j]],
           F |-> [j \in DOMAIN R |-> IF j \in component THEN done.F[i] ELSE done.F[j]]]

Digraph(R, F) ==
  FoldLeft(LAMBDA t, i : IF t.index[i] = 0 /\ R[i] # <<>> THEN Traverse(R, i, t) ELSE t,
           [vertices |-> <<>>, index |-> [i \in DOMAIN R |-> 0], F |-> F],
           Sorted(DOMAIN R)).F

\* Mutant of InitializeF: variables that can be empty end what can be read.
DirectReads(g, A, gotos) ==
  LET after(i) == {A.accessing[k] : k \in Range(A.shift[gotos[i].to])}
  IN [i \in DOMAIN gotos |-> {s \in after(i) : ~IsVar(g, s)} \union (IF i = 1 THEN {0} ELSE {})]

\* initialize_F: the tokens that can be shifted after a goto, also after
\* gotos on variables that can be empty.
InitializeF(g, A, gotos) ==
  LET after(i) == [n \in DOMAIN A.shift[gotos[i].to] |-> A.accessing[A.shift[gotos[i].to][n]]]
      direct == [i \in DOMAIN gotos |-> {s \in Range(after(i)) : ~IsVar(g, s)}
                                          \union (IF i = 1 THEN {0} ELSE {})]
      empties(i) == SelectSeq(after(i), LAMBDA s : IsVar(g, s) /\ s \in Nullable(g))
      reads == [i \in DOMAIN gotos |->
                  [n \in DOMAIN empties(i) |-> MapGoto(gotos, gotos[i].to, empties(i)[n])]]
  IN Digraph(reads, direct)

\* The states a rule leads through from state k.
Path(g, A, k, r) == FoldLeft(LAMBDA p, s : Append(p, ShiftTo(A, Last(p), s)), <<k>>, g.rhs[r])

\* build_relations: walking back from the end of a rule while what is passed
\* can be empty; what follows the rule's goto i follows these gotos too.
RECURSIVE WalkBack(_, _, _, _, _)
\* Mutant of WalkBack: it does not go on past a variable that can be empty.
WalkBackOne(g, gotos, r, path, n) ==
  IF n = 0 \/ ~IsVar(g, g.rhs[r][n]) THEN <<>>
  ELSE <<MapGoto(gotos, path[n], g.rhs[r][n])>>
WalkBack(g, gotos, r, path, n) ==
  IF n = 0 \/ ~IsVar(g, g.rhs[r][n]) THEN <<>>
  ELSE <<MapGoto(gotos, path[n], g.rhs[r][n])>>
         \o (IF g.rhs[r][n] \in Nullable(g) THEN WalkBack(g, gotos, r, path, n - 1) ELSE <<>>)

Edges(g, A, gotos, i) ==
  FlattenSeq([n \in 1..Cardinality(Derives(g, gotos[i].sym)) |->
                LET r == Sorted(Derives(g, gotos[i].sym))[n]
                    path == Path(g, A, gotos[i].from, r)
                IN WalkBack(g, gotos, r, path, Len(g.rhs[r]))])

Transpose(R) ==
  [j \in DOMAIN R |-> SelectSeq(Sorted(DOMAIN R), LAMBDA i : j \in Range(R[i]))]

Lookback(g, A, gotos, k, r) ==
  {i \in DOMAIN gotos : /\ gotos[i].sym = g.lhs[r]
                        /\ Last(Path(g, A, gotos[i].from, r)) = k}

Lalr(g, A) ==
  LET gotos == Gotos(g, A)
      includes == Transpose([i \in DOMAIN gotos |-> Edges(g, A, gotos, i)])
      F == Digraph(includes, InitializeF(g, A, gotos))
      reducing == {<<k, r>> \in (DOMAIN A.kernel) \X Rules(g) : r \in Range(A.reduction[k])}
  IN [kr \in reducing |-> UNION {F[i] : i \in Lookback(g, A, gotos, kr[1], kr[2])}]
-----------------------------------------------------------------------------
(* mkpar.c *)

Shifts(g, A, k) ==     \* get_shifts
  {[symbol |-> A.accessing[to], number |-> to, prec |-> g.sym.prec[A.accessing[to]],
    code |-> "SHIFT", assoc |-> g.sym.assoc[A.accessing[to]], suppressed |-> 0] :
     to \in {t \in Range(A.shift[k]) : ~IsVar(g, A.accessing[t])}}

Reductions(g, A, L, k) ==     \* add_reductions
  UNION {{[symbol |-> s, number |-> r, prec |-> g.prec[r], code |-> "REDUCE",
           assoc |-> g.assoc[r], suppressed |-> 0] : s \in L[<<k, r>>]} :
           r \in Range(A.reduction[k])}

\* add_reduce keeps the list sorted by symbol, shifts before reductions.
ActionBefore(p, q) ==
  \/ p.symbol < q.symbol
  \/ p.symbol = q.symbol /\ p.code = "SHIFT" /\ q.code = "REDUCE"
  \/ p.symbol = q.symbol /\ p.code = q.code /\ p.number < q.number

ParseActions(g, A, L, k) ==
  SortedBy(Shifts(g, A, k) \union Reductions(g, A, L, k), ActionBefore)

FinalState(g, A) == ShiftTo(A, 0, g.rhs[2][1])

\* remove_conflicts, one action against the one preferred so far on its symbol.
Resolve(g, A, k, c, n) ==
  LET p == c.row[n]
      pref == c.row[c.pref]
      Keep == [c EXCEPT !.row[n].suppressed = 2]
      Change == [c EXCEPT !.row[c.pref].suppressed = 2, !.pref = n]
  IN IF c.pref = 0 \/ pref.symbol # p.symbol THEN [c EXCEPT !.pref = n]
     ELSE IF k = FinalState(g, A) /\ p.symbol = 0
       THEN [c EXCEPT !.sr = @ + 1, !.row[n].suppressed = 1]
     ELSE IF pref.code # "SHIFT" THEN [c EXCEPT !.rr = @ + 1, !.row[n].suppressed = 1]
     ELSE IF pref.prec = 0 \/ p.prec = 0
       THEN [c EXCEPT !.sr = @ + 1, !.row[n].suppressed = 1]
     ELSE CASE pref.prec < p.prec -> Change
            [] pref.prec > p.prec -> Keep
            [] pref.prec = p.prec /\ pref.assoc = "LEFT" -> Change
            [] pref.prec = p.prec /\ pref.assoc = "RIGHT" -> Keep
            [] OTHER -> [c EXCEPT !.row[c.pref].suppressed = 2, !.row[n].suppressed = 2]

RemoveConflicts(g, A, k, row) ==
  FoldLeft(LAMBDA c, n : Resolve(g, A, k, c, n),
           [row |-> row, pref |-> 0, sr |-> 0, rr |-> 0], [n \in DOMAIN row |-> n])

MakeParser(g, A, L) ==
  [k \in DOMAIN A.kernel |-> RemoveConflicts(g, A, k, ParseActions(g, A, L, k))]

\* sole_reduction: the default reduction of a state that only reduces, by one
\* rule, on more than the error token.
SoleReduction(row) ==
  LET live == SelectSeq(row, LAMBDA p : p.suppressed = 0)
      rules == {live[n].number : n \in DOMAIN live}
  IN IF /\ \A n \in DOMAIN live : live[n].code = "REDUCE"
        /\ Cardinality(rules) = 1
        /\ \E n \in DOMAIN live : live[n].symbol # ErrorToken
     THEN CHOOSE r \in rules : TRUE ELSE 0
-----------------------------------------------------------------------------
(* output.c.  A vector is a sequence of <<from, to>>; the shifts of state k *)
(* are vector k, its reductions nstates + k, the gotos of a variable        *)
(* 2 * nstates + its value.                                                 *)

Width(v) == LET froms == {v[n][1] : n \in DOMAIN v}
            IN (CHOOSE m \in froms : \A x \in froms : x <= m)
               - (CHOOSE m \in froms : \A x \in froms : x >= m) + 1

\* token_actions: what is left after conflicts, without the default reduction.
TokenVector(g, row, defred, code) ==
  LET live == SelectSeq(row, LAMBDA p : /\ p.suppressed = 0 /\ p.code = code
                                        /\ code = "REDUCE" => p.number # defred)
  IN [n \in DOMAIN live |-> <<g.sym.value[live[n].symbol],
                              IF code = "SHIFT" THEN live[n].number ELSE live[n].number - 2>>]

\* default_goto: where most gotos of the variable lead, the lowest such state.
DefaultGoto(gotos, v) ==
  LET own == {i \in DOMAIN gotos : gotos[i].sym = v}
      count(k) == Cardinality({i \in own : gotos[i].to = k})
      tos == {gotos[i].to : i \in own}
      Better(a, b) == count(a) > count(b) \/ (count(a) = count(b) /\ a < b)
  IN IF own = {} THEN 0 ELSE CHOOSE k \in tos : \A l \in tos \ {k} : Better(k, l)

GotoVector(gotos, v) ==     \* save_column
  LET column == SelectSeq(gotos, LAMBDA t : t.sym = v /\ t.to # DefaultGoto(gotos, v))
  IN [n \in DOMAIN column |-> <<column[n].from, column[n].to>>]

\* sort_actions: the widest vectors first, among them those with most entries.
SortActions(vec) ==
  LET Before(a, b) == \/ Width(vec[a]) > Width(vec[b])
                      \/ /\ Width(vec[a]) = Width(vec[b])
                         /\ Len(vec[a]) > Len(vec[b]) \/ (Len(vec[a]) = Len(vec[b]) /\ a < b)
  IN SortedBy({i \in DOMAIN vec : vec[i] # <<>>}, Before)

\* Whether a vector can be put at j: every entry is free, and no other vector
\* is there, as its entries would be taken for this one's; 0 stands for none.
\* Mutant: the second test is left out.
IsFree(p, v, j) == j # 0 /\ \A n \in DOMAIN v : j + v[n][1] \notin DOMAIN p.check
Fits(p, v, j) ==
  /\ j # 0
  /\ \A n \in DOMAIN v : j + v[n][1] \notin DOMAIN p.check
  /\ j \notin Range(p.pos)

\* pack_vector: the first place from the lowest free entry on.
PackVector(p, v) ==
  LET lowest == CHOOSE m \in {p.lowzero - v[n][1] : n \in DOMAIN v} :
                  \A n \in DOMAIN v : m >= p.lowzero - v[n][1]
      bound == p.high + Len(p.pos) + 2 + (IF lowest < 0 THEN 0 ELSE lowest)
      place == CHOOSE j \in lowest..bound : Fits(p, v, j) /\ \A l \in lowest..j - 1 : ~Fits(p, v, l)
      entries == {place + v[n][1] : n \in DOMAIN v}
      EntryAt(loc) == CHOOSE n \in DOMAIN v : place + v[n][1] = loc
      table == [loc \in entries |-> v[EntryAt(loc)][2]] @@ p.table
      check == [loc \in entries |-> v[EntryAt(loc)][1]] @@ p.check
      high == CHOOSE m \in entries \union {p.high} : \A x \in entries \union {p.high} : x <= m
  IN [p EXCEPT !.table = table, !.check = check, !.high = high, !.pos = Append(@, place),
               !.lowzero = CHOOSE m \in @..high + 1 : /\ m \notin DOMAIN check
                                                       /\ \A l \in @..m - 1 : l \in DOMAIN check]

\* matching_vector and pack_table: a row equal to the one of a vector placed
\* before, with only vectors of its width and length between, shares its place.
Place(vec, nrows, p, i) ==
  LET before == Len(p.pos)
      Like(n) == /\ Width(vec[p.order[n]]) = Width(vec[i])
                 /\ Len(vec[p.order[n]]) = Len(vec[i])
      equal == {n \in 1..before : /\ vec[p.order[n]] = vec[i]
                                  /\ \A m \in n..before : Like(m)}
  IN IF i < nrows /\ equal # {} THEN [p EXCEPT !.pos = Append(@, p.pos[
            CHOOSE n \in equal : \A m \in equal : m <= n])]
     ELSE PackVector(p, vec[i])

PackTable(vec, nrows) ==
  LET order == SortActions(vec)
      p == FoldLeft(LAMBDA q, i : Place(vec, nrows, q, i),
                    [table |-> <<>>, check |-> <<>>, lowzero |-> 0, high |-> 0,
                     pos |-> <<>>, order |-> order], order)
  IN [table |-> p.table, check |-> p.check, high |-> p.high,
      base |-> [i \in DOMAIN vec |->
                  IF vec[i] = <<>> THEN 0
                  ELSE p.pos[CHOOSE n \in DOMAIN order : order[n] = i]]]

Output(g, A, parser) ==
  LET N == NStates(A)
      nv == Cardinality(Vars(g)) - 1     \* $accept has no goto
      gotos == Gotos(g, A)
      defred == [k \in DOMAIN A.kernel |-> SoleReduction(parser[k].row)]
      vec == [i \in 0..2 * N + nv - 1 |->
                IF i < N THEN TokenVector(g, parser[i].row, defred[i], "SHIFT")
                ELSE IF i < 2 * N THEN TokenVector(g, parser[i - N].row, defred[i - N], "REDUCE")
                ELSE GotoVector(gotos, g.ntokens + 1 + i - 2 * N)]
      packed == PackTable(vec, 2 * N)
      Reduced(r) == IF r = 0 THEN 0 ELSE r - 2
  IN [defred |-> [k \in DOMAIN defred |-> Reduced(defred[k])],
      dgoto |-> [v \in 0..nv - 1 |-> DefaultGoto(gotos, g.ntokens + 1 + v)],
      sindex |-> [k \in 0..N - 1 |-> packed.base[k]],
      rindex |-> [k \in 0..N - 1 |-> packed.base[N + k]],
      gindex |-> [v \in 0..nv - 1 |-> packed.base[2 * N + v]],
      table |-> packed.table, check |-> packed.check, high |-> packed.high,
      len |-> [r \in {q - 2 : q \in Rules(g) \ {2}} |-> Len(g.rhs[r + 2])],
      lhs |-> [r \in {q - 2 : q \in Rules(g) \ {2}} |-> g.sym.value[g.lhs[r + 2]]],
      final |-> FinalState(g, A)]

\* A lookup in the tables, and what it finds.  Mutant of Has: yycheck is not asked.
HasAny(t, base, x) == base # 0 /\ base + x \in DOMAIN t.check
Has(t, base, x) == base # 0 /\ base + x \in DOMAIN t.check /\ t.check[base + x] = x
At(t, base, x) == t.table[base + x]
-----------------------------------------------------------------------------
(* skeleton.c: yyparse.  ss is the state stack, its last state yystate. *)

LexValue(toks) == IF toks = <<>> THEN 0 ELSE Head(toks)
Top == Last(ss)

\* After a reduction by rule r.  A parse ends in the final state before $end.
Reduce(r) ==
  LET rest == SubSeq(ss, 1, Len(ss) - tab.len[r])
      k == Last(rest)
      v == tab.lhs[r]
      to == IF Has(tab, tab.gindex[v], k) THEN At(tab, tab.gindex[v], k) ELSE tab.dgoto[v]
      next == IF yychar = EMPTY THEN LexValue(input) ELSE yychar
      ends == k = 0 /\ v = 0
  IN /\ IF ends
        THEN /\ ss' = Append(rest, tab.final)
             /\ yychar' = next
             /\ input' = IF yychar = EMPTY /\ input # <<>> THEN Tail(input) ELSE input
             /\ outcome' = IF next = 0 THEN "accept" ELSE outcome
        ELSE /\ IF Len(rest) >= MaxDepth THEN ss' = ss /\ outcome' = "overflow"
                ELSE ss' = Append(rest, to) /\ outcome' = outcome
             /\ UNCHANGED <<yychar, input>>
     /\ UNCHANGED <<yyerrflag, yynerrs, shifted, failedAt>>

DefaultReduce == tab.defred[Top] # 0 /\ Reduce(tab.defred[Top])

Lex ==
  /\ tab.defred[Top] = 0 /\ yychar = EMPTY
  /\ yychar' = LexValue(input)
  /\ input' = IF input = <<>> THEN input ELSE Tail(input)
  /\ UNCHANGED <<ss, yyerrflag, yynerrs, outcome, shifted, failedAt>>

Decides == tab.defred[Top] = 0 /\ yychar # EMPTY
Shifting == Has(tab, tab.sindex[Top], yychar)
Reducing == Has(tab, tab.rindex[Top], yychar)

Shift ==
  /\ Decides /\ Shifting
  /\ IF Len(ss) >= MaxDepth
     THEN outcome' = "overflow" /\ UNCHANGED <<ss, yychar, yyerrflag, shifted>>
     ELSE /\ ss' = Append(ss, At(tab, tab.sindex[Top], yychar))
          /\ yychar' = EMPTY
          /\ yyerrflag' = IF yyerrflag > 0 THEN yyerrflag - 1 ELSE 0
          /\ shifted' = shifted + 1
          /\ UNCHANGED outcome
  /\ UNCHANGED <<input, yynerrs, failedAt>>

TableReduce ==
  Decides /\ ~Shifting /\ Reducing /\ Reduce(At(tab, tab.rindex[Top], yychar))

Failing == Decides /\ ~Shifting /\ ~Reducing

\* yyinrecovery with yyerrflag < 3: back to a state that can shift error.
Recover ==
  LET code == G.sym.value[ErrorToken]
      able == {n \in 1..Len(ss) : Has(tab, tab.sindex[ss[n]], code)}
      n == CHOOSE m \in able : \A l \in able : l <= m
  IN /\ Failing /\ yyerrflag < 3
     /\ yyerrflag' = 3
     /\ yynerrs' = IF yyerrflag = 0 THEN yynerrs + 1 ELSE yynerrs
     /\ failedAt' = IF failedAt = EMPTY THEN shifted ELSE failedAt
     /\ ss' = IF able = {} THEN SubSeq(ss, 1, 1)
              ELSE IF n >= MaxDepth THEN ss
              ELSE Append(SubSeq(ss, 1, n), At(tab, tab.sindex[ss[n]], code))
     /\ outcome' = IF able = {} THEN "abort" ELSE IF n >= MaxDepth THEN "overflow" ELSE ""
     /\ UNCHANGED <<input, yychar, shifted>>

KeepToken ==     \* mutant of DiscardToken
  /\ Failing /\ yyerrflag = 3
  /\ outcome' = IF yychar = 0 THEN "abort" ELSE outcome
  /\ UNCHANGED <<input, ss, yychar, yyerrflag, yynerrs, shifted, failedAt>>

DiscardToken ==
  /\ Failing /\ yyerrflag = 3
  /\ IF yychar = 0 THEN outcome' = "abort" /\ yychar' = yychar
     ELSE outcome' = outcome /\ yychar' = EMPTY
  /\ UNCHANGED <<input, ss, yyerrflag, yynerrs, shifted, failedAt>>

Parse ==
  /\ phase = "parse" /\ outcome = ""
  /\ DefaultReduce \/ Lex \/ Shift \/ TableReduce \/ Recover \/ DiscardToken
  /\ UNCHANGED <<phase, genVars, given>>
-----------------------------------------------------------------------------
(* What the grammar means, by definition and not by the code: the sentences *)
(* up to a length, longer ones cut off there; the automaton of LR(1) items. *)

Cut(w, n) == SubSeq(w, 1, Min2(Len(w), n))

RECURSIVE WordsFrom(_, _, _)
WordsFrom(g, n, W) ==
  LET OfSymbol(s) == IF IsVar(g, s) THEN W[s] ELSE {<<s>>}
      Of(rhs) == FoldLeft(LAMBDA S, s : {Cut(a \o b, n) : a \in S, b \in OfSymbol(s)},
                          {<<>>}, rhs)
      V == [v \in DOMAIN W |-> UNION {Of(g.rhs[r]) : r \in Derives(g, v)}]
  IN IF V = W THEN W ELSE WordsFrom(g, n, V)
Words(g, n) == WordsFrom(g, n, [v \in Vars(g) \ {g.ntokens} |-> {}])

\* v derives itself, by rules all whose other symbols can be empty.
Cyclic(g, W) ==
  LET CanBeEmpty(s) == IsVar(g, s) /\ <<>> \in W[s]
      Unit(v) == UNION {{g.rhs[r][n] : n \in {m \in DOMAIN g.rhs[r] :
                            /\ IsVar(g, g.rhs[r][m])
                            /\ \A l \in DOMAIN g.rhs[r] \ {m} : CanBeEmpty(g.rhs[r][l])}}
                        : r \in Derives(g, v)}
      RECURSIVE Reach(_)
      Reach(S) == LET T == S \union UNION {Unit(v) : v \in S} IN IF T = S THEN S ELSE Reach(T)
  IN \E v \in DOMAIN W : v \in Reach(Unit(v))

Productive(W) == \A v \in DOMAIN W : W[v] # {}

Facts(g, parser) ==
  LET W == Words(g, InputLen + 1)
      value(w) == [n \in DOMAIN w |-> g.sym.value[w[n]]]
  IN [sentences |-> {value(w) : w \in W[g.ntokens + 1]},
      productive |-> Productive(W),
      cyclic |-> Cyclic(g, W),
      settled |-> \E k \in DOMAIN parser : \E n \in DOMAIN parser[k].row :
                    parser[k].row[n].suppressed # 0]

\* FIRST, with EMPTY for the empty word.
RECURSIVE FirstOf(_, _, _)
FirstOf(g, F, s) ==
  IF s = <<>> THEN {EMPTY}
  ELSE IF ~IsVar(g, Head(s)) THEN {Head(s)}
  ELSE (F[Head(s)] \ {EMPTY})
         \union (IF EMPTY \in F[Head(s)] THEN FirstOf(g, F, Tail(s)) ELSE {})
RECURSIVE Firsts(_, _)
Firsts(g, F) ==
  LET H == [v \in Vars(g) |-> UNION {FirstOf(g, F, g.rhs[r]) : r \in Derives(g, v)}]
  IN IF H = F THEN F ELSE Firsts(g, H)

\* LR(1) items <<rule, dot, token>>.
RECURSIVE Closure1(_, _, _)
Closure1(g, F, I) ==
  LET Rest(i) == SubSeq(g.rhs[i[1]], i[2] + 2, Len(g.rhs[i[1]])) \o <<i[3]>>
      new(i) == Derives(g, Next1(g, i)) \X {0} \X FirstOf(g, F, Rest(i))
      J == I \union UNION {new(i) : i \in {x \in Open(g, I) : IsVar(g, Next1(g, x))}}
  IN IF J = I THEN I ELSE Closure1(g, F, J)
Goto1(g, F, I, s) ==
  Closure1(g, F, {<<i[1], i[2] + 1, i[3]>> : i \in {x \in Open(g, I) : Next1(g, x) = s}})

RECURSIVE Canonical(_, _, _, _)
Canonical(g, F, done, todo) ==
  IF todo = {} THEN done
  ELSE LET I == CHOOSE J \in todo : TRUE
           all == done \union {I}
           out == {Goto1(g, F, I, s) : s \in {Next1(g, i) : i \in Open(g, I)} \ {0}}
       IN Canonical(g, F, all, (todo \union out) \ all)
LR1States(g) ==
  LET F == Firsts(g, [v \in Vars(g) |-> {}])
  IN Canonical(g, F, {}, {Closure1(g, F, {<<2, 0, 0>>})})

KernelOf(I) == {<<i[1], i[2]>> : i \in {x \in I : x[2] > 0 \/ x[1] = 2}}
-----------------------------------------------------------------------------
(* main.c: the phases *)

NoParse ==
  /\ input = <<>> /\ ss = <<0>> /\ yychar = EMPTY /\ yyerrflag = 0 /\ yynerrs = 0
  /\ outcome = "" /\ shifted = 0 /\ failedAt = EMPTY /\ given = <<>>

Init ==
  /\ phase = "read" /\ text \in Texts /\ G = <<>> /\ nextState = 0
  /\ aut = <<>> /\ la = <<>> /\ rows = <<>> /\ tab = <<>> /\ facts = <<>>
  /\ NoParse

Reader ==
  LET g == PackGrammar(ReadGrammar(text))
  IN /\ phase = "read" /\ phase' = "states"
     /\ G' = g /\ aut' = InitialStates(g)
     /\ UNCHANGED <<text, nextState, la, rows, tab, facts, parseVars>>

NextStates ==     \* a turn of the loop in generate_states
  /\ phase = "states" /\ nextState \in DOMAIN aut.kernel
  /\ aut' = GenerateState(G, aut, nextState)
  /\ nextState' = nextState + 1
  /\ UNCHANGED <<phase, text, G, la, rows, tab, facts, parseVars>>

Lookaheads ==
  /\ phase = "states" /\ nextState \notin DOMAIN aut.kernel
  /\ phase' = "lalr" /\ la' = Lalr(G, aut)
  /\ UNCHANGED <<text, G, nextState, aut, rows, tab, facts, parseVars>>

MkPar ==
  /\ phase = "lalr" /\ phase' = "mkpar" /\ rows' = MakeParser(G, aut, la)
  /\ UNCHANGED <<text, G, nextState, aut, la, tab, facts, parseVars>>

WriteTables ==
  /\ phase = "mkpar" /\ phase' = "output" /\ tab' = Output(G, aut, rows)
  /\ facts' = Facts(G, rows)
  /\ UNCHANGED <<text, G, nextState, aut, la, rows, parseVars>>

\* The generated parser is run on some input: tokens by their numbers.
UsedTokens == {G.sym.value[s] : s \in 2..G.ntokens - 1}
Run ==
  /\ phase = "output" /\ phase' = "parse"
  /\ input' \in SeqOf(UsedTokens, InputLen) /\ given' = input'
  /\ UNCHANGED <<genVars, ss, yychar, yyerrflag, yynerrs, outcome, shifted, failedAt>>

Next == Reader \/ NextStates \/ Lookaheads \/ MkPar \/ WriteTables \/ Run \/ Parse

Spec == Init /\ [][Next]_vars
\* yyparse runs on; nothing else need happen.
FairSpec == Spec /\ WF_parseVars(Parse)
-----------------------------------------------------------------------------
(* Properties *)

\* The states are those of the LR(0) automaton, each once, and the lookaheads
\* of a reduction are those of the LR(1) states with the same kernel, merged:
\* what the relations reads, includes and lookback compute is LALR(1).  (A
\* variable without a word has no FIRST, and so no LR(1) items beside it.)
AutomatonIsLalr ==
  phase = "lalr" /\ Productive(Words(G, 1)) =>
    LET C == LR1States(G)
        Merged(k) == UNION {I \in C : KernelOf(I) = aut.kernel[k]}
        wanted(k, r) == {i[3] : i \in {x \in Merged(k) : x[1] = r /\ x[2] = Len(G.rhs[r])}}
        complete(k) == {i[1] : i \in {x \in Merged(k) : AtEnd(G, x)}}
    IN /\ {KernelOf(I) : I \in C} = Range(aut.kernel)
       /\ \A k, l \in DOMAIN aut.kernel : aut.kernel[k] = aut.kernel[l] => k = l
       /\ DOMAIN la = UNION {{k} \X complete(k) : k \in DOMAIN aut.kernel}
       /\ \A kr \in DOMAIN la : la[kr] = wanted(kr[1], kr[2])

\* What is to be done in state k on a token: by precedence where a shift meets
\* one reduction and both have one, else the shift, else the first rule.
Wanted(k, s) ==
  LET to == {t \in Range(aut.shift[k]) : aut.accessing[t] = s}
      reds == {r \in Range(aut.reduction[k]) : s \in la[<<k, r>>]}
      t == CHOOSE x \in to : TRUE
      r == CHOOSE x \in reds : \A y \in reds : x <= y
      ByPrecedence == Cardinality(reds) = 1 /\ G.sym.prec[s] > 0 /\ G.prec[r] > 0
      higher == G.sym.prec[s] - G.prec[r]
      assoc == G.sym.assoc[s]
  IN IF to = {} /\ reds = {} THEN {<<"error">>}
     ELSE IF to = {} THEN {<<"reduce", r - 2>>}
     ELSE IF reds = {} \/ (~ByPrecedence /\ Cardinality(reds) = 1) THEN {<<"shift", t>>}
     ELSE IF Cardinality(reds) > 1 THEN {<<"shift", t>>, <<"error">>}
                                        \union {<<"reduce", x - 2>> : x \in reds}
     ELSE IF higher > 0 \/ (higher = 0 /\ assoc = "RIGHT") THEN {<<"shift", t>>}
     ELSE IF higher < 0 \/ (higher = 0 /\ assoc = "LEFT") THEN {<<"reduce", r - 2>>}
     ELSE {<<"error">>}

\* What yyparse finds in the packed tables.
Found(k, x) ==
  IF tab.defred[k] # 0 THEN <<"reduce", tab.defred[k]>>
  ELSE IF Has(tab, tab.sindex[k], x) THEN <<"shift", At(tab, tab.sindex[k], x)>>
  ELSE IF Has(tab, tab.rindex[k], x) THEN <<"reduce", At(tab, tab.rindex[k], x)>>
  ELSE <<"error">>

\* The rows and columns that pack_table laid over each other are read back as
\* they were: every token does what it should in every state, a default
\* reduction only in place of an error, and every goto leads where it should.
TablesAreRight ==
  phase = "output" =>
    /\ \A k \in DOMAIN aut.kernel, s \in 0..G.ntokens - 1 :
         LET found == Found(k, G.sym.value[s])
         IN \/ found \in Wanted(k, s)
            \/ <<"error">> \in Wanted(k, s) /\ tab.defred[k] # 0
    /\ \A k \in DOMAIN aut.kernel : \A t \in Range(aut.shift[k]) :
         LET v == G.sym.value[aut.accessing[t]]
         IN IsVar(G, aut.accessing[t]) =>
              t = IF Has(tab, tab.gindex[v], k) THEN At(tab, tab.gindex[v], k) ELSE tab.dgoto[v]

\* A case of the switch over the rules that yyparse reduces by has the number
\* of the rule its action belongs to: the alternative that ends in it, or the
\* empty rule of the symbol that took its place in the middle of one.
CaseIsRule ==
  phase = "states" /\ nextState = 0 =>
    LET r == ReadGrammar(text)
        Alternative(a) == CHOOSE n \in DOMAIN r.rules : r.rules[n].alt = a
    IN \A c \in Range(r.cases) :
         LET n == Alternative(c.alt)
             rhs == r.rules[n].rhs
         IN IF Len(rhs) < c.pos THEN c.num = n
            ELSE r.rules[c.num].lhs = rhs[c.pos] /\ r.rules[c.num].rhs = <<>>

Unambiguous == ~facts.settled

\* A parser made without a conflict accepts the sentences of its grammar and
\* nothing else.
ParsesLanguage ==
  phase = "parse" /\ outcome \in {"accept", "abort"} /\ Unambiguous =>
    ((outcome = "accept" /\ yynerrs = 0) <=> given \in facts.sentences)

\* An error is found at the first token with which no sentence goes on: the
\* tokens shifted before it begin a sentence, and with it they do not.
ErrorsAtOnce ==
  phase = "parse" /\ failedAt # EMPTY /\ Unambiguous /\ facts.productive =>
    LET before == SubSeq(given, 1, failedAt)
        Begins(u) == \E w \in facts.sentences : IsPrefix(u, w)
    IN /\ Begins(before)
       /\ IF failedAt = Len(given) THEN given \notin facts.sentences
          ELSE ~Begins(SubSeq(given, 1, failedAt + 1))

\* yyparse ends, with or without errors in the input, unless a variable
\* derives itself.
Terminates == (phase = "parse" /\ ~facts.cyclic) ~> outcome # ""
=============================================================================
