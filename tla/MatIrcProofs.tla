----------------------------- MODULE MatIrcProofs -----------------------------
(***************************************************************************)
(* Theorems about module MatIrc, for any nicks and channels, any number of *)
(* servers and windows and any number of lines under way.                  *)
(*                                                                         *)
(* The invariant has two halves: the client's windows (Apart, Marks,       *)
(* Firsts), and the connections (Lines), where a nick that changed on one  *)
(* side leaves a trail of NICK lines to the other and a channel joined on  *)
(* one side is a line, or a window, on the other.                          *)
(***************************************************************************)
EXTENDS MatIrc, TLAPS, WellFoundedInduction

-----------------------------------------------------------------------------
(* The inductive invariant *)

\* No window is one of two servers.
Apart ==
  \A s \in Range(servers) : \A t \in Range(servers) :
    s # t => Range(srv[s].channels) \cap Range(srv[t].channels) = {}

\* The buffer on the screen is not marked.
Marks == pc = "run" => /\ changed = unread
                       /\ Shown(scur, ccur) \notin changed

\* No window before one that will leave its channel has the same name.
FirstIn(cs, wins) ==
  \A i \in 1 .. Len(cs) : wins[cs[i]].part =>
    \A j \in 1 .. i - 1 : wins[cs[j]].name # wins[cs[i]].name

Firsts == \A s \in Range(servers) : FirstIn(srv[s].channels, win)

IsNick(l, i) == l.toC[i][1] = "nick"
IsJoin(l, i) == l.toC[i][1] = "join"

\* What the lines of a connection are about.
Lined(l) ==
  /\ \A i \in 1 .. Len(l.toS) : /\ l.toS[i][1] = "NICK" => l.toS[i][2] \in Nicks
                                /\ l.toS[i][1] = "JOIN" => l.toS[i][2] \in Names
  /\ \A i \in 1 .. Len(l.toC) :
       /\ IsNick(l, i) => l.toC[i][2] \in Nicks /\ l.toC[i][3] \in Nicks
       /\ IsJoin(l, i) => l.toC[i][2] \in Nicks /\ l.toC[i][3] \in Names

\* A NICK line on its way to the client, before place k, starts from this nick.
Leaves(l, nick, i, k) ==
  \E j \in i .. k - 1 : IsNick(l, j) /\ l.toC[j][2] = nick

\* The NICK lines of a server follow each other up to the nick the user has
\* there now, and a JOIN line has the nick reached before it.
Chained(l) ==
  \A i \in 1 .. Len(l.toC) : IsNick(l, i) =>
    /\ l.nick # None
    /\ l.toC[i][3] = l.nick \/ Leaves(l, l.toC[i][3], i + 1, Len(l.toC) + 1)
    /\ \A k \in i + 1 .. Len(l.toC) : IsJoin(l, k) =>
         l.toC[k][2] = l.toC[i][3] \/ Leaves(l, l.toC[i][3], i + 1, k)

\* A client with this nick will be led to the nick the server has the user under ...
OnTrail(l, nick) == nick = l.nick \/ Leaves(l, nick, 1, Len(l.toC) + 1)

\* ... or the last NICK it sent before place i makes it the server's.
Follows(l, nick, i) ==
  \/ OnTrail(l, nick)
  \/ \E k \in 1 .. i - 1 : /\ l.toS[k] = <<"NICK", nick>>
                           /\ \A j \in k + 1 .. i - 1 : l.toS[j][1] # "NICK"

\* The client will know that a join is the user's own.
JoinsFollow(l, nick) ==
  /\ \A i \in 1 .. Len(l.toS) : l.toS[i][1] = "JOIN" => Follows(l, nick, i)
  /\ \A i \in 1 .. Len(l.toC) : IsJoin(l, i) =>
       l.toC[i][2] = nick \/ Leaves(l, nick, 1, i)

\* A channel the server has the user in has a window that will leave it, will
\* get one, or is about to be left.
Covered(l, names) ==
  \A x \in l.joined :
    \/ x \in names
    \/ \E i \in 1 .. Len(l.toS) : l.toS[i] = <<"PART", x>>
    \/ \E i \in 1 .. Len(l.toC) : IsJoin(l, i) /\ l.toC[i][3] = x

LinkOK(l, nick, names) ==
  /\ Lined(l)
  /\ Chained(l)
  /\ ~l.refused => Follows(l, nick, Len(l.toS) + 1)
  /\ ~l.refused /\ ~l.crossed => JoinsFollow(l, nick) /\ Covered(l, names)

\* The names of the windows of s that will leave a channel.
PartNames(s) ==
  {win[w].name : w \in {v \in Range(srv[s].channels) : win[v].part}}

Lines ==
  \A s \in Range(servers) :
    srv[s].socket => LinkOK(link[s], srv[s].nick, PartNames(s))

Inv == TypeOK /\ Apart /\ Marks /\ Firsts /\ Lines

-----------------------------------------------------------------------------
(* Sequences and minima *)

\* A set of numbers has a least, and Lowest picks it.
LEMMA Least ==
  ASSUME NEW T \in SUBSET Nat, T # {}
  PROVE  /\ Lowest(T) \in T
         /\ \A y \in T : Lowest(T) <= y
<1> DEFINE Less == {ss \in Nat \X Nat : ss[1] < ss[2]}
<1>0. IsWellFoundedOn(Less, Nat)
  BY NatLessThanWellFounded DEF OpToRel
<1>1. \E x \in T : \A y \in T : ~(<<y, x>> \in Less)
  <2> HIDE DEF Less
  <2> QED
    BY <1>0, WFMin
<1>2. \E x \in T : \A y \in T : x <= y
  <2>1. \A x \in T : \A y \in T : <<y, x>> \in Less <=> y < x
    OBVIOUS
  <2> HIDE DEF Less
  <2>2. PICK x \in T : \A y \in T : ~(<<y, x>> \in Less)
    BY <1>1
  <2>3. \A y \in T : ~(y < x)
    BY <2>1, <2>2
  <2> QED
    BY <2>3
<1> QED
  BY <1>2 DEF Lowest

\* PlaceOf finds an element where it is.
LEMMA Place ==
  ASSUME NEW S, NEW seq \in Seq(S), NEW x, x \in Range(seq)
  PROVE  /\ PlaceOf(seq, x) \in 1 .. Len(seq)
         /\ seq[PlaceOf(seq, x)] = x
  BY DEF PlaceOf, Range

\* Taking out an element of a sequence of different ones.
LEMMA Removed ==
  ASSUME NEW S, NEW seq \in Seq(S), NEW x, x \in Range(seq), IsInjective(seq)
  PROVE  /\ Without(seq, x) \in Seq(S)
         /\ Len(Without(seq, x)) = Len(seq) - 1
         /\ Range(Without(seq, x)) = Range(seq) \ {x}
         /\ IsInjective(Without(seq, x))
         /\ \A i \in 1 .. Len(seq) - 1 :
              Without(seq, x)[i] = IF i < PlaceOf(seq, x) THEN seq[i] ELSE seq[i + 1]
<1> DEFINE p == PlaceOf(seq, x)
           r == Without(seq, x)
<1>0. p \in 1 .. Len(seq) /\ seq[p] = x
  BY Place
<1>n. Len(seq) - 1 \in Nat /\ Len(seq) \in Nat
  BY <1>0
<1>1. r = [i \in 1 .. Len(seq) - 1 |-> IF i < p THEN seq[i] ELSE seq[i + 1]]
  BY DEF Without
<1> HIDE DEF r, p
<1>2. \A i \in 1 .. Len(seq) - 1 : r[i] = IF i < p THEN seq[i] ELSE seq[i + 1]
  BY <1>1
<1>3. \A i \in 1 .. Len(seq) : seq[i] \in S
  OBVIOUS
<1>4. r \in [1 .. Len(seq) - 1 -> S]
  BY <1>0, <1>n, <1>1, <1>3
<1>5. r \in Seq(S) /\ Len(r) = Len(seq) - 1 /\ DOMAIN r = 1 .. Len(seq) - 1
  BY <1>4, <1>n
<1>6. IsInjective(r)
  <2> SUFFICES ASSUME NEW i \in 1 .. Len(seq) - 1, NEW j \in 1 .. Len(seq) - 1, r[i] = r[j]
               PROVE  i = j
    BY <1>5 DEF IsInjective
  <2>1. PICK k \in 1 .. Len(seq) : r[i] = seq[k] /\ k = (IF i < p THEN i ELSE i + 1)
    BY <1>0, <1>n, <1>2
  <2>2. PICK m \in 1 .. Len(seq) : r[j] = seq[m] /\ m = (IF j < p THEN j ELSE j + 1)
    BY <1>0, <1>n, <1>2
  <2>3. k = m
    <3>1. seq[k] = seq[m]
      BY <2>1, <2>2
    <3> QED
      BY <3>1 DEF IsInjective
  <2> QED
    BY <2>1, <2>2, <2>3, <1>0, <1>n
<1>7. Range(r) \subseteq Range(seq) \ {x}
  <2> SUFFICES ASSUME NEW i \in 1 .. Len(seq) - 1
               PROVE  r[i] \in Range(seq) /\ r[i] # x
    BY <1>5 DEF Range
  <2>1. PICK j \in 1 .. Len(seq) : r[i] = seq[j] /\ j # p
    BY <1>0, <1>n, <1>2
  <2> QED
    BY <2>1, <1>0 DEF Range, IsInjective
<1>8. ASSUME NEW y \in Range(seq), y # x
      PROVE  y \in Range(r)
  <2>1. PICK j \in 1 .. Len(seq) : seq[j] = y
    BY DEF Range
  <2>2. CASE j < p
    <3>1. j \in 1 .. Len(seq) - 1 /\ r[j] = y
      BY <2>1, <2>2, <1>0, <1>n, <1>2
    <3> QED
      BY <3>1, <1>5 DEF Range
  <2>3. CASE j > p
    <3>1. j - 1 \in 1 .. Len(seq) - 1 /\ r[j - 1] = y
      BY <2>1, <2>3, <1>0, <1>n, <1>2
    <3> QED
      BY <3>1, <1>5 DEF Range
  <2> QED
    BY <2>1, <2>2, <2>3, <1>0, <1>8
<1> QED
  BY <1>2, <1>5, <1>6, <1>7, <1>8 DEF r, p

-----------------------------------------------------------------------------
(* One connection: what a line sent or taken does to the invariant.  l is   *)
(* the connection before, m after.                                          *)

\* Nothing about the lines to the client depends on those to the server.
LEMMA SameToC ==
  ASSUME NEW l \in Links, NEW m \in Links, m.toC = l.toC, m.nick = l.nick
  PROVE  /\ Chained(l) => Chained(m)
         /\ \A n : OnTrail(l, n) <=> OnTrail(m, n)
         /\ \A n, i, k : Leaves(l, n, i, k) <=> Leaves(m, n, i, k)
         /\ \A i : (IsJoin(l, i) <=> IsJoin(m, i)) /\ (IsNick(l, i) <=> IsNick(m, i))
<1>1. \A i : (IsJoin(l, i) <=> IsJoin(m, i)) /\ (IsNick(l, i) <=> IsNick(m, i))
  BY DEF IsJoin, IsNick
<1>2. \A n, i, k : Leaves(l, n, i, k) <=> Leaves(m, n, i, k)
  BY <1>1 DEF Leaves
<1>3. \A n : OnTrail(l, n) <=> OnTrail(m, n)
  BY <1>2 DEF OnTrail
<1>4. Chained(l) => Chained(m)
  BY <1>1, <1>2 DEF Chained
<1> QED
  BY <1>1, <1>2, <1>3, <1>4

\* What one more line to the server leaves as it was.
LEMMA MoreToS ==
  ASSUME NEW l \in Links, NEW m \in Links, NEW x \in ToServer,
         m.toS = Append(l.toS, x), m.toC = l.toC, m.nick = l.nick
  PROVE  /\ Len(m.toS) = Len(l.toS) + 1 /\ Len(l.toS) \in Nat
         /\ m.toS[Len(l.toS) + 1] = x
         /\ \A i \in 1 .. Len(l.toS) : m.toS[i] = l.toS[i]
         /\ \A n : \A i \in 1 .. Len(l.toS) + 1 : Follows(l, n, i) => Follows(m, n, i)
<1>1. /\ l.toS \in Seq(ToServer) /\ m.toS \in Seq(ToServer)
      /\ l.toC \in Seq(ToClient) /\ m.toC \in Seq(ToClient)
  BY DEF Links
<1>2. /\ Len(m.toS) = Len(l.toS) + 1 /\ Len(l.toS) \in Nat
      /\ m.toS[Len(l.toS) + 1] = x
      /\ \A i \in 1 .. Len(l.toS) : m.toS[i] = l.toS[i]
  BY <1>1
<1>3. ASSUME NEW n, NEW i \in 1 .. Len(l.toS) + 1, NEW k \in 1 .. i - 1,
             l.toS[k] = <<"NICK", n>>, \A j \in k + 1 .. i - 1 : l.toS[j][1] # "NICK"
      PROVE  Follows(m, n, i)
  <2>1. m.toS[k] = <<"NICK", n>> /\ \A j \in k + 1 .. i - 1 : m.toS[j][1] # "NICK"
    BY <1>2, <1>3
  <2> QED
    BY <2>1 DEF Follows
<1>4. \A n : OnTrail(l, n) => OnTrail(m, n)
  BY SameToC
<1>5. ASSUME NEW n, NEW i \in 1 .. Len(l.toS) + 1, Follows(l, n, i)
      PROVE  Follows(m, n, i)
  BY <1>3, <1>4, <1>5 DEF Follows
<1> QED
  BY <1>2, <1>5

\* The user's lines to a server but NICK.
LEMMA Asks ==
  ASSUME NEW l \in Links, NEW m \in Links, NEW n \in Nicks, NEW x \in ToServer,
         NEW names, NEW names2, LinkOK(l, n, names),
         x[1] \in {"JOIN", "PART"}, x[1] = "JOIN" => x[2] \in Names,
         m.toS = Append(l.toS, x), m.toC = l.toC, m.nick = l.nick,
         m.joined = l.joined, m.refused = l.refused, m.crossed = l.crossed,
         \A y \in names : y \in names2 \/ x = <<"PART", y>>
  PROVE  LinkOK(m, n, names2)
<1>1. /\ Len(m.toS) = Len(l.toS) + 1 /\ Len(l.toS) \in Nat
      /\ m.toS[Len(l.toS) + 1] = x
      /\ \A i \in 1 .. Len(l.toS) : m.toS[i] = l.toS[i]
      /\ \A k : \A i \in 1 .. Len(l.toS) + 1 : Follows(l, k, i) => Follows(m, k, i)
  BY MoreToS
<1>2. Lined(m)
  BY <1>1 DEF LinkOK, Lined, IsNick, IsJoin
<1>3. Chained(m)
  BY SameToC DEF LinkOK
<1>4. OnTrail(l, n) => OnTrail(m, n)
  BY SameToC
<1>6. ASSUME Follows(l, n, Len(l.toS) + 1)
      PROVE  Follows(m, n, Len(m.toS) + 1)
  <2>1. CASE OnTrail(l, n)
    BY <2>1, <1>4 DEF Follows
  <2>2. CASE ~OnTrail(l, n)
    <3>1. PICK k \in 1 .. Len(l.toS) + 1 - 1 :
             /\ l.toS[k] = <<"NICK", n>>
             /\ \A j \in k + 1 .. Len(l.toS) + 1 - 1 : l.toS[j][1] # "NICK"
      BY <1>6, <2>2 DEF Follows
    <3>2. /\ m.toS[k] = <<"NICK", n>> /\ k \in 1 .. Len(m.toS) + 1 - 1
          /\ \A j \in k + 1 .. Len(m.toS) + 1 - 1 : m.toS[j][1] # "NICK"
      BY <1>1, <3>1
    <3> QED
      BY <3>2 DEF Follows
  <2> QED
    BY <2>1, <2>2
<1>7. l.refused \/ l.crossed \/ JoinsFollow(m, n)
  <2> SUFFICES ASSUME ~l.refused, ~l.crossed
               PROVE  JoinsFollow(m, n)
    OBVIOUS
  <2>1. JoinsFollow(l, n) /\ Follows(l, n, Len(l.toS) + 1)
    BY DEF LinkOK
  <2>2. \A i \in 1 .. Len(m.toS) : m.toS[i][1] = "JOIN" => Follows(m, n, i)
    BY <1>1, <2>1 DEF JoinsFollow
  <2> QED
    BY <2>1, <2>2, SameToC DEF JoinsFollow
<1>8. l.refused \/ l.crossed \/ Covered(m, names2)
  <2> SUFFICES ASSUME ~l.refused, ~l.crossed, NEW y \in l.joined,
                      y \notin names2, \A i \in 1 .. Len(l.toC) : ~(IsJoin(l, i) /\ l.toC[i][3] = y)
               PROVE  \E i \in 1 .. Len(m.toS) : m.toS[i] = <<"PART", y>>
    BY DEF Covered, IsJoin
  <2>1. y \in names \/ \E i \in 1 .. Len(l.toS) : l.toS[i] = <<"PART", y>>
    BY DEF LinkOK, Covered
  <2> QED
    BY <1>1, <2>1
<1> QED
  BY <1>2, <1>3, <1>6, <1>7, <1>8 DEF LinkOK

\* /nick.
LEMMA AsksNick ==
  ASSUME NEW l \in Links, NEW m \in Links, NEW n \in Nicks, NEW n2 \in Nicks,
         NEW names, LinkOK(l, n, names),
         m.toS = Append(l.toS, <<"NICK", n2>>), m.toC = l.toC, m.nick = l.nick,
         m.joined = l.joined, m.refused = l.refused,
         m.crossed \/ n2 = n
           \/ ~(\/ \E i \in 1 .. Len(l.toS) : l.toS[i][1] = "JOIN"
                \/ \E i \in 1 .. Len(l.toC) : l.toC[i][1] = "join"),
         l.crossed => m.crossed
  PROVE  LinkOK(m, n2, names)
<1>1. /\ Len(m.toS) = Len(l.toS) + 1 /\ Len(l.toS) \in Nat
      /\ m.toS[Len(l.toS) + 1] = <<"NICK", n2>>
      /\ \A i \in 1 .. Len(l.toS) : m.toS[i] = l.toS[i]
      /\ \A k : \A i \in 1 .. Len(l.toS) + 1 : Follows(l, k, i) => Follows(m, k, i)
  <2>1. <<"NICK", n2>> \in ToServer
    BY DEF ToServer, Titles
  <2> QED
    BY <2>1, MoreToS
<1>2. Lined(m)
  <2>1. Lined(l)
    BY DEF LinkOK
  <2>2. \A i \in 1 .. Len(m.toS) : /\ m.toS[i][1] = "NICK" => m.toS[i][2] \in Nicks
                                   /\ m.toS[i][1] = "JOIN" => m.toS[i][2] \in Names
    <3>1. <<"NICK", n2>>[1] = "NICK" /\ <<"NICK", n2>>[2] = n2
      OBVIOUS
    <3> QED
      BY <1>1, <2>1, <3>1 DEF Lined
  <2> QED
    BY <2>1, <2>2 DEF Lined, IsNick, IsJoin
<1>3. Chained(m)
  BY SameToC DEF LinkOK
<1>4. Follows(m, n2, Len(m.toS) + 1)
  <2>1. \A j \in Len(l.toS) + 2 .. Len(m.toS) : m.toS[j][1] # "NICK"
    BY <1>1
  <2> QED
    BY <1>1, <2>1 DEF Follows
<1>5. m.refused \/ m.crossed \/ JoinsFollow(m, n2)
  <2> SUFFICES ASSUME ~m.refused, ~m.crossed
               PROVE  JoinsFollow(m, n2)
    OBVIOUS
  <2>1. JoinsFollow(l, n)
    BY DEF LinkOK
  <2>2. CASE n2 = n
    <3>1. \A i \in 1 .. Len(m.toS) : m.toS[i][1] = "JOIN" => Follows(m, n, i)
      BY <1>1, <2>1 DEF JoinsFollow
    <3> QED
      BY <2>1, <2>2, <3>1, SameToC DEF JoinsFollow
  <2>3. CASE n2 # n
    BY <1>1, <2>3 DEF JoinsFollow, IsJoin
  <2> QED
    BY <2>2, <2>3
<1>6. m.refused \/ m.crossed \/ Covered(m, names)
  <2> SUFFICES ASSUME ~m.refused, ~m.crossed, NEW y \in l.joined,
                      y \notin names, \A i \in 1 .. Len(l.toC) : ~(IsJoin(l, i) /\ l.toC[i][3] = y)
               PROVE  \E i \in 1 .. Len(m.toS) : m.toS[i] = <<"PART", y>>
    BY DEF Covered, IsJoin
  <2>1. PICK i \in 1 .. Len(l.toS) : l.toS[i] = <<"PART", y>>
    BY DEF LinkOK, Covered
  <2>2. i \in 1 .. Len(m.toS) /\ m.toS[i] = l.toS[i]
    BY <1>1
  <2> QED
    BY <2>1, <2>2
<1> QED
  BY <1>2, <1>3, <1>4, <1>5, <1>6 DEF LinkOK

\* The client takes a line.
LEMMA Hearing ==
  ASSUME NEW l \in Links, NEW m \in Links, l.toC # <<>>,
         m.toC = Tail(l.toC), m.nick = l.nick
  PROVE  /\ Len(m.toC) = Len(l.toC) - 1 /\ Len(l.toC) \in Nat \ {0}
         /\ \A i \in 1 .. Len(m.toC) : m.toC[i] = l.toC[i + 1]
         /\ \A i \in 1 .. Len(m.toC) : /\ IsNick(m, i) <=> IsNick(l, i + 1)
                                       /\ IsJoin(m, i) <=> IsJoin(l, i + 1)
         /\ \A n : \A i \in 1 .. Len(l.toC) : \A k \in 1 .. Len(m.toC) + 1 :
              Leaves(l, n, i + 1, k + 1) => Leaves(m, n, i, k)
         /\ Chained(l) => Chained(m)
<1>1. l.toC \in Seq(ToClient) /\ m.toC \in Seq(ToClient)
  BY DEF Links
<1>2. /\ Len(m.toC) = Len(l.toC) - 1 /\ Len(l.toC) \in Nat \ {0}
      /\ \A i \in 1 .. Len(m.toC) : m.toC[i] = l.toC[i + 1]
  BY <1>1
<1>3. \A i \in 1 .. Len(m.toC) : /\ IsNick(m, i) <=> IsNick(l, i + 1)
                                 /\ IsJoin(m, i) <=> IsJoin(l, i + 1)
  BY <1>2 DEF IsNick, IsJoin
<1>4. ASSUME NEW n, NEW i \in 1 .. Len(l.toC), NEW k \in 1 .. Len(m.toC) + 1,
             Leaves(l, n, i + 1, k + 1)
      PROVE  Leaves(m, n, i, k)
  <2>1. PICK j \in i + 1 .. k + 1 - 1 : IsNick(l, j) /\ l.toC[j][2] = n
    BY <1>4 DEF Leaves
  <2>2. /\ j - 1 \in i .. k - 1 /\ j - 1 \in 1 .. Len(m.toC)
        /\ (j - 1) + 1 = j
    BY <1>2
  <2>3. IsNick(m, j - 1) /\ m.toC[j - 1][2] = n
    BY <1>2, <1>3, <2>1, <2>2
  <2> QED
    BY <2>2, <2>3 DEF Leaves
<1>5. ASSUME Chained(l), NEW i \in 1 .. Len(m.toC), IsNick(m, i)
      PROVE  /\ m.nick # None
             /\ m.toC[i][3] = m.nick \/ Leaves(m, m.toC[i][3], i + 1, Len(m.toC) + 1)
             /\ \A k \in i + 1 .. Len(m.toC) : IsJoin(m, k) =>
                  m.toC[k][2] = m.toC[i][3] \/ Leaves(m, m.toC[i][3], i + 1, k)
  <2>1. i + 1 \in 1 .. Len(l.toC) /\ IsNick(l, i + 1) /\ l.toC[i + 1] = m.toC[i]
    BY <1>2, <1>3, <1>5
  <2>2. /\ l.nick # None
        /\ m.toC[i][3] = l.nick \/ Leaves(l, m.toC[i][3], i + 1 + 1, Len(l.toC) + 1)
        /\ \A k \in i + 1 + 1 .. Len(l.toC) : IsJoin(l, k) =>
             l.toC[k][2] = m.toC[i][3] \/ Leaves(l, m.toC[i][3], i + 1 + 1, k)
    BY <1>5, <2>1 DEF Chained
  <2>3. m.toC[i][3] = m.nick \/ Leaves(m, m.toC[i][3], i + 1, Len(m.toC) + 1)
    <3>1. Len(l.toC) + 1 = Len(m.toC) + 1 + 1 /\ Len(m.toC) + 1 \in 1 .. Len(m.toC) + 1
      BY <1>2
    <3> QED
      BY <1>4, <2>1, <2>2, <3>1
  <2>4. ASSUME NEW k \in i + 1 .. Len(m.toC), IsJoin(m, k)
        PROVE  m.toC[k][2] = m.toC[i][3] \/ Leaves(m, m.toC[i][3], i + 1, k)
    <3>1. /\ k + 1 \in i + 1 + 1 .. Len(l.toC) /\ k \in 1 .. Len(m.toC)
          /\ k \in 1 .. Len(m.toC) + 1
      BY <1>2
    <3>2. IsJoin(l, k + 1) /\ l.toC[k + 1] = m.toC[k]
      BY <1>2, <1>3, <2>4, <3>1
    <3> QED
      BY <1>4, <2>1, <2>2, <3>1, <3>2
  <2> QED
    BY <2>2, <2>3, <2>4
<1>6. Chained(l) => Chained(m)
  BY <1>5 DEF Chained
<1> QED
  BY <1>2, <1>3, <1>4, <1>6

\* A line that is no NICK of the user's own leaves the client on its way.
LEMMA HearingKeeps ==
  ASSUME NEW l \in Links, NEW m \in Links, NEW n \in Nicks, l.toC # <<>>,
         m.toC = Tail(l.toC), m.toS = l.toS, m.nick = l.nick,
         ~(IsNick(l, 1) /\ l.toC[1][2] = n)
  PROVE  /\ \A i : Follows(l, n, i) => Follows(m, n, i)
         /\ \A k \in 1 .. Len(m.toC) + 1 : Leaves(l, n, 1, k + 1) => Leaves(m, n, 1, k)
<1>1. /\ Len(m.toC) = Len(l.toC) - 1 /\ Len(l.toC) \in Nat \ {0}
      /\ \A i \in 1 .. Len(l.toC) : \A k \in 1 .. Len(m.toC) + 1 :
           Leaves(l, n, i + 1, k + 1) => Leaves(m, n, i, k)
  BY Hearing
<1>2. ASSUME NEW k \in 1 .. Len(m.toC) + 1, Leaves(l, n, 1, k + 1)
      PROVE  Leaves(m, n, 1, k)
  <2>1. PICK j \in 1 .. k + 1 - 1 : IsNick(l, j) /\ l.toC[j][2] = n
    BY <1>2 DEF Leaves
  <2>2. j # 1 /\ j \in 1 + 1 .. k + 1 - 1
    BY <2>1
  <2>3. Leaves(l, n, 1 + 1, k + 1)
    BY <2>1, <2>2 DEF Leaves
  <2> QED
    BY <1>1, <2>3
<1>3. OnTrail(l, n) => OnTrail(m, n)
  <2>1. Len(l.toC) + 1 = Len(m.toC) + 1 + 1 /\ Len(m.toC) + 1 \in 1 .. Len(m.toC) + 1
    BY <1>1
  <2> QED
    BY <1>2, <2>1 DEF OnTrail
<1>4. \A i : Follows(l, n, i) => Follows(m, n, i)
  BY <1>3 DEF Follows
<1> QED
  BY <1>2, <1>4

\* A JOIN of the user's own, for which names2 has a window now, or a line that
\* is neither NICK nor JOIN.
LEMMA HearsOther ==
  ASSUME NEW l \in Links, NEW m \in Links, NEW n \in Nicks, l.toC # <<>>,
         NEW names, NEW names2, LinkOK(l, n, names),
         m.toC = Tail(l.toC), m.toS = l.toS, m.nick = l.nick,
         m.joined = l.joined, m.refused = l.refused, m.crossed = l.crossed,
         ~(IsNick(l, 1) /\ l.toC[1][2] = n),
         names \subseteq names2,
         IsJoin(l, 1) => l.toC[1][3] \in names2 \/ l.toC[1][2] # n
  PROVE  LinkOK(m, n, names2)
<1>1. /\ Len(m.toC) = Len(l.toC) - 1 /\ Len(l.toC) \in Nat \ {0}
      /\ \A i \in 1 .. Len(m.toC) : m.toC[i] = l.toC[i + 1]
      /\ \A i \in 1 .. Len(m.toC) : /\ IsNick(m, i) <=> IsNick(l, i + 1)
                                    /\ IsJoin(m, i) <=> IsJoin(l, i + 1)
  BY Hearing
<1>2. \A i \in 1 .. Len(m.toC) : i + 1 \in 1 .. Len(l.toC)
  BY <1>1
<1>3. Lined(m)
  BY <1>1, <1>2 DEF LinkOK, Lined
<1>4. Chained(m)
  BY Hearing DEF LinkOK
<1>5. ~m.refused => Follows(m, n, Len(m.toS) + 1)
  BY HearingKeeps DEF LinkOK
<1>6. ASSUME ~l.refused, ~l.crossed
      PROVE  JoinsFollow(m, n) /\ Covered(m, names2)
  <2>1. JoinsFollow(l, n) /\ Covered(l, names)
    BY <1>6 DEF LinkOK
  <2>2. \A i \in 1 .. Len(m.toS) : m.toS[i][1] = "JOIN" => Follows(m, n, i)
    BY <2>1, HearingKeeps DEF JoinsFollow
  <2>3. ASSUME NEW i \in 1 .. Len(m.toC), IsJoin(m, i)
        PROVE  m.toC[i][2] = n \/ Leaves(m, n, 1, i)
    <3>1. IsJoin(l, i + 1) /\ m.toC[i] = l.toC[i + 1] /\ i \in 1 .. Len(m.toC) + 1
      BY <1>1, <2>3
    <3>2. l.toC[i + 1][2] = n \/ Leaves(l, n, 1, i + 1)
      BY <1>2, <2>1, <3>1 DEF JoinsFollow
    <3> QED
      BY <3>1, <3>2, HearingKeeps
  <2>4. IsJoin(l, 1) => l.toC[1][3] \in names2
    <3>1. ~Leaves(l, n, 1, 1)
      BY DEF Leaves
    <3> QED
      BY <1>1, <2>1, <3>1 DEF JoinsFollow
  <2>5. ASSUME NEW x \in m.joined, x \notin names2,
               ~\E i \in 1 .. Len(m.toS) : m.toS[i] = <<"PART", x>>
        PROVE  \E i \in 1 .. Len(m.toC) : IsJoin(m, i) /\ m.toC[i][3] = x
    <3>1. PICK i \in 1 .. Len(l.toC) : IsJoin(l, i) /\ l.toC[i][3] = x
      BY <2>1, <2>5 DEF Covered
    <3>2. i # 1
      BY <2>4, <2>5, <3>1
    <3>3. i - 1 \in 1 .. Len(m.toC) /\ (i - 1) + 1 = i
      BY <1>1, <3>2
    <3> QED
      BY <1>1, <3>1, <3>3
  <2> QED
    BY <2>2, <2>3, <2>5 DEF JoinsFollow, Covered
<1> QED
  BY <1>3, <1>4, <1>5, <1>6 DEF LinkOK

\* A NICK of the user's own.
LEMMA HearsNick ==
  ASSUME NEW l \in Links, NEW m \in Links, NEW n \in Nicks, NEW n2 \in Nicks,
         l.toC # <<>>, NEW names, LinkOK(l, n, names),
         m.toC = Tail(l.toC), m.toS = l.toS, m.nick = l.nick,
         m.joined = l.joined, m.refused = l.refused, m.crossed = l.crossed,
         IsNick(l, 1), l.toC[1][2] = n, l.toC[1][3] = n2
  PROVE  LinkOK(m, n2, names)
<1>1. /\ Len(m.toC) = Len(l.toC) - 1 /\ Len(l.toC) \in Nat \ {0}
      /\ \A i \in 1 .. Len(m.toC) : m.toC[i] = l.toC[i + 1]
      /\ \A i \in 1 .. Len(m.toC) : /\ IsNick(m, i) <=> IsNick(l, i + 1)
                                    /\ IsJoin(m, i) <=> IsJoin(l, i + 1)
      /\ \A x : \A i \in 1 .. Len(l.toC) : \A k \in 1 .. Len(m.toC) + 1 :
           Leaves(l, x, i + 1, k + 1) => Leaves(m, x, i, k)
  BY Hearing
<1>2. \A i \in 1 .. Len(m.toC) : i + 1 \in 1 .. Len(l.toC)
  BY <1>1
<1>3. Lined(m)
  BY <1>1, <1>2 DEF LinkOK, Lined
<1>4. Chained(m)
  BY Hearing DEF LinkOK
<1>5. /\ n2 = l.nick \/ Leaves(l, n2, 1 + 1, Len(l.toC) + 1)
      /\ \A k \in 1 + 1 .. Len(l.toC) : IsJoin(l, k) =>
           l.toC[k][2] = n2 \/ Leaves(l, n2, 1 + 1, k)
  BY <1>1 DEF LinkOK, Chained
<1>6. OnTrail(m, n2)
  <2>1. /\ Len(l.toC) + 1 = Len(m.toC) + 1 + 1 /\ Len(m.toC) + 1 \in 1 .. Len(m.toC) + 1
        /\ 1 \in 1 .. Len(l.toC)
    BY <1>1
  <2> QED
    BY <1>1, <1>5, <2>1 DEF OnTrail
<1>7. \A i : Follows(m, n2, i)
  BY <1>6 DEF Follows
<1>8. ASSUME NEW i \in 1 .. Len(m.toC), IsJoin(m, i)
      PROVE  m.toC[i][2] = n2 \/ Leaves(m, n2, 1, i)
  <2>1. /\ IsJoin(l, i + 1) /\ m.toC[i] = l.toC[i + 1] /\ i \in 1 .. Len(m.toC) + 1
        /\ i + 1 \in 1 + 1 .. Len(l.toC) /\ 1 \in 1 .. Len(l.toC)
    BY <1>1, <1>8
  <2> QED
    BY <1>1, <1>5, <2>1
<1>9. ASSUME ~l.refused, ~l.crossed
      PROVE  Covered(m, names)
  <2>1. Covered(l, names)
    BY <1>9 DEF LinkOK
  <2>2. ASSUME NEW x \in m.joined, x \notin names,
               ~\E i \in 1 .. Len(m.toS) : m.toS[i] = <<"PART", x>>
        PROVE  \E i \in 1 .. Len(m.toC) : IsJoin(m, i) /\ m.toC[i][3] = x
    <3>1. PICK i \in 1 .. Len(l.toC) : IsJoin(l, i) /\ l.toC[i][3] = x
      BY <2>1, <2>2 DEF Covered
    <3>2. i # 1
      BY <3>1 DEF IsJoin, IsNick
    <3>3. i - 1 \in 1 .. Len(m.toC) /\ (i - 1) + 1 = i
      BY <1>1, <3>2
    <3> QED
      BY <1>1, <3>1, <3>3
  <2> QED
    BY <2>2 DEF Covered
<1> QED
  BY <1>3, <1>4, <1>7, <1>8, <1>9 DEF LinkOK, JoinsFollow

\* The server sends a line.
LEMMA MoreToC ==
  ASSUME NEW l \in Links, NEW m \in Links, NEW x \in ToClient, m.toC = Append(l.toC, x)
  PROVE  /\ Len(m.toC) = Len(l.toC) + 1 /\ Len(l.toC) \in Nat
         /\ m.toC[Len(l.toC) + 1] = x
         /\ \A i \in 1 .. Len(l.toC) : /\ m.toC[i] = l.toC[i]
                                       /\ IsNick(m, i) <=> IsNick(l, i)
                                       /\ IsJoin(m, i) <=> IsJoin(l, i)
         /\ \A n : \A i \in 1 .. Len(m.toC) : \A k \in 1 .. Len(m.toC) :
              Leaves(l, n, i, k) => Leaves(m, n, i, k)
         /\ \A n : \A i \in 1 .. Len(m.toC) :
              Leaves(l, n, i, Len(l.toC) + 1) => Leaves(m, n, i, Len(m.toC) + 1)
<1>1. l.toC \in Seq(ToClient) /\ m.toC \in Seq(ToClient)
  BY DEF Links
<1>2. /\ Len(m.toC) = Len(l.toC) + 1 /\ Len(l.toC) \in Nat
      /\ m.toC[Len(l.toC) + 1] = x
      /\ \A i \in 1 .. Len(l.toC) : m.toC[i] = l.toC[i]
  BY <1>1
<1>3. \A i \in 1 .. Len(l.toC) : /\ IsNick(m, i) <=> IsNick(l, i)
                                 /\ IsJoin(m, i) <=> IsJoin(l, i)
  BY <1>2 DEF IsNick, IsJoin
<1>4. ASSUME NEW n, NEW i \in 1 .. Len(m.toC), NEW k \in 1 .. Len(m.toC), Leaves(l, n, i, k)
      PROVE  Leaves(m, n, i, k) /\ Leaves(m, n, i, Len(m.toC) + 1)
  <2>1. PICK j \in i .. k - 1 : IsNick(l, j) /\ l.toC[j][2] = n
    BY <1>4 DEF Leaves
  <2>2. j \in 1 .. Len(l.toC) /\ j \in i .. Len(m.toC) + 1 - 1
    BY <1>2, <2>1
  <2>3. IsNick(m, j) /\ m.toC[j][2] = n
    BY <1>2, <1>3, <2>1, <2>2
  <2> QED
    BY <2>1, <2>2, <2>3 DEF Leaves
<1>5. Len(l.toC) + 1 \in 1 .. Len(m.toC)
  BY <1>2
<1> QED
  BY <1>2, <1>3, <1>4, <1>5

\* The chain after a line that keeps it.
LEMMA MoreChained ==
  ASSUME NEW l \in Links, NEW m \in Links, NEW x \in ToClient, m.toC = Append(l.toC, x),
         Chained(l),
         \/ x[1] # "nick" /\ m.nick = l.nick /\ (x[1] = "join" => x[2] = l.nick)
         \/ x[1] = "nick" /\ x[2] = l.nick /\ x[3] = m.nick /\ m.nick # None
  PROVE  Chained(m)
<1>1. /\ Len(m.toC) = Len(l.toC) + 1 /\ Len(l.toC) \in Nat
      /\ m.toC[Len(l.toC) + 1] = x
      /\ \A i \in 1 .. Len(l.toC) : /\ m.toC[i] = l.toC[i]
                                    /\ IsNick(m, i) <=> IsNick(l, i)
                                    /\ IsJoin(m, i) <=> IsJoin(l, i)
      /\ \A n : \A i \in 1 .. Len(m.toC) : \A k \in 1 .. Len(m.toC) :
           Leaves(l, n, i, k) => Leaves(m, n, i, k)
      /\ \A n : \A i \in 1 .. Len(m.toC) :
           Leaves(l, n, i, Len(l.toC) + 1) => Leaves(m, n, i, Len(m.toC) + 1)
  BY ONLY l \in Links, m \in Links, x \in ToClient, m.toC = Append(l.toC, x), MoreToC
<1>2. SUFFICES ASSUME NEW i \in 1 .. Len(m.toC), IsNick(m, i)
               PROVE  /\ m.nick # None
                      /\ m.toC[i][3] = m.nick \/ Leaves(m, m.toC[i][3], i + 1, Len(m.toC) + 1)
                      /\ \A k \in i + 1 .. Len(m.toC) : IsJoin(m, k) =>
                           m.toC[k][2] = m.toC[i][3] \/ Leaves(m, m.toC[i][3], i + 1, k)
  BY DEF Chained
<1>3. CASE i = Len(m.toC)
  <2>1. x[1] = "nick"
    BY <1>1, <1>2, <1>3 DEF IsNick
  <2> QED
    BY <1>1, <1>3, <2>1
<1>4. CASE i # Len(m.toC)
  <2>1. i \in 1 .. Len(l.toC) /\ IsNick(l, i) /\ m.toC[i] = l.toC[i] /\ i + 1 \in 1 .. Len(m.toC)
    BY <1>1, <1>2, <1>4
  <2>2. /\ l.nick # None
        /\ m.toC[i][3] = l.nick \/ Leaves(l, m.toC[i][3], i + 1, Len(l.toC) + 1)
        /\ \A k \in i + 1 .. Len(l.toC) : IsJoin(l, k) =>
             l.toC[k][2] = m.toC[i][3] \/ Leaves(l, m.toC[i][3], i + 1, k)
    BY <2>1 DEF Chained
  <2>3. m.nick # None
    BY <2>2
  <2>4. m.toC[i][3] = m.nick \/ Leaves(m, m.toC[i][3], i + 1, Len(m.toC) + 1)
    <3>1. CASE x[1] # "nick" \/ m.toC[i][3] # l.nick
      BY <1>1, <2>1, <2>2, <3>1
    <3>2. CASE x[1] = "nick" /\ m.toC[i][3] = l.nick
      <4>1. Len(m.toC) \in i + 1 .. Len(m.toC) + 1 - 1
        BY <1>1, <2>1
      <4>2. IsNick(m, Len(m.toC)) /\ m.toC[Len(m.toC)][2] = m.toC[i][3]
        BY <1>1, <3>2 DEF IsNick
      <4> QED
        BY <4>1, <4>2 DEF Leaves
    <3> QED
      BY <3>1, <3>2
  <2>5. ASSUME NEW k \in i + 1 .. Len(m.toC), IsJoin(m, k)
        PROVE  m.toC[k][2] = m.toC[i][3] \/ Leaves(m, m.toC[i][3], i + 1, k)
    <3>1. CASE k \in 1 .. Len(l.toC)
      <4>1. /\ IsJoin(l, k) /\ m.toC[k] = l.toC[k] /\ k \in 1 .. Len(m.toC)
            /\ k \in i + 1 .. Len(l.toC)
        BY <1>1, <2>5, <3>1
      <4> QED
        BY <1>1, <2>1, <2>2, <4>1
    <3>2. CASE k = Len(l.toC) + 1
      <4>1. m.toC[k] = x /\ x[1] = "join" /\ x[2] = l.nick
        BY <1>1, <2>5, <3>2 DEF IsJoin
      <4>2. k \in 1 .. Len(m.toC)
        BY <1>1, <3>2
      <4> QED
        BY <1>1, <2>1, <2>2, <3>2, <4>1, <4>2
    <3> QED
      BY <1>1, <2>1, <3>1, <3>2
  <2> QED
    BY <2>3, <2>4, <2>5
<1> QED
  BY <1>3, <1>4

\* A nick that leads to the server's still does after one more line.
LEMMA MoreFollows ==
  ASSUME NEW l \in Links, NEW m \in Links, NEW x \in ToClient, m.toC = Append(l.toC, x),
         m.toS = l.toS, m.nick = l.nick \/ (x[1] = "nick" /\ x[2] = l.nick)
  PROVE  \A n, i : Follows(l, n, i) => Follows(m, n, i)
<1>1. /\ Len(m.toC) = Len(l.toC) + 1 /\ Len(l.toC) \in Nat
      /\ m.toC[Len(l.toC) + 1] = x
      /\ \A i \in 1 .. Len(l.toC) : /\ m.toC[i] = l.toC[i]
                                    /\ IsNick(m, i) <=> IsNick(l, i)
                                    /\ IsJoin(m, i) <=> IsJoin(l, i)
      /\ \A n : \A i \in 1 .. Len(m.toC) : \A k \in 1 .. Len(m.toC) :
           Leaves(l, n, i, k) => Leaves(m, n, i, k)
      /\ \A n : \A i \in 1 .. Len(m.toC) :
           Leaves(l, n, i, Len(l.toC) + 1) => Leaves(m, n, i, Len(m.toC) + 1)
  BY ONLY l \in Links, m \in Links, x \in ToClient, m.toC = Append(l.toC, x), MoreToC
<1>2. ASSUME NEW n, OnTrail(l, n)
      PROVE  OnTrail(m, n)
  <2>1. CASE Leaves(l, n, 1, Len(l.toC) + 1) \/ m.nick = l.nick
    BY <1>1, <1>2, <2>1 DEF OnTrail
  <2>2. CASE n = l.nick /\ x[1] = "nick" /\ x[2] = l.nick
    <3>1. Len(m.toC) \in 1 .. Len(m.toC) + 1 - 1
      BY <1>1
    <3>2. IsNick(m, Len(m.toC)) /\ m.toC[Len(m.toC)][2] = n
      BY <1>1, <2>2 DEF IsNick
    <3> QED
      BY <3>1, <3>2 DEF OnTrail, Leaves
  <2> QED
    BY <1>2, <2>1, <2>2 DEF OnTrail
<1> QED
  BY <1>2 DEF Follows

\* The line sent is one the invariant allows: a rename, a join for a client that
\* follows, or text.
LEMMA Sends ==
  ASSUME NEW l \in Links, NEW m \in Links, NEW n \in Nicks, NEW x \in ToClient,
         NEW names, LinkOK(l, n, names), m.toC = Append(l.toC, x), m.toS = l.toS,
         l.refused => m.refused, l.crossed => m.crossed,
         \/ /\ x[1] \notin {"nick", "join"} /\ m.nick = l.nick
            /\ m.joined \subseteq l.joined
         \/ /\ x[1] = "nick" /\ x[2] = l.nick /\ x[3] = m.nick
            /\ l.nick \in Nicks /\ m.nick \in Nicks /\ m.joined = l.joined
         \/ /\ x[1] = "join" /\ x[2] = l.nick /\ m.nick = l.nick /\ l.nick \in Nicks
            /\ x[3] \in Names /\ m.joined = l.joined \union {x[3]}
            /\ l.refused \/ l.crossed \/ OnTrail(l, n)
  PROVE  LinkOK(m, n, names)
<1>1. /\ Len(m.toC) = Len(l.toC) + 1 /\ Len(l.toC) \in Nat
      /\ m.toC[Len(l.toC) + 1] = x
      /\ \A i \in 1 .. Len(l.toC) : /\ m.toC[i] = l.toC[i]
                                    /\ IsNick(m, i) <=> IsNick(l, i)
                                    /\ IsJoin(m, i) <=> IsJoin(l, i)
      /\ \A k : \A i \in 1 .. Len(m.toC) : \A j \in 1 .. Len(m.toC) :
           Leaves(l, k, i, j) => Leaves(m, k, i, j)
  BY ONLY l \in Links, m \in Links, x \in ToClient, m.toC = Append(l.toC, x), MoreToC
<1>2. None \notin Nicks
  BY MatIrcAssumption
<1>3. Lined(m)
  <2>1. \A i \in 1 .. Len(m.toS) : /\ m.toS[i][1] = "NICK" => m.toS[i][2] \in Nicks
                                   /\ m.toS[i][1] = "JOIN" => m.toS[i][2] \in Names
    BY DEF LinkOK, Lined
  <2>2. ASSUME NEW i \in 1 .. Len(m.toC)
        PROVE  /\ IsNick(m, i) => m.toC[i][2] \in Nicks /\ m.toC[i][3] \in Nicks
               /\ IsJoin(m, i) => m.toC[i][2] \in Nicks /\ m.toC[i][3] \in Names
    <3>1. CASE i \in 1 .. Len(l.toC)
      BY <1>1, <3>1 DEF LinkOK, Lined
    <3>2. CASE i = Len(l.toC) + 1
      BY <1>1, <3>2 DEF IsNick, IsJoin
    <3> QED
      BY <1>1, <3>1, <3>2
  <2> QED
    BY <2>1, <2>2 DEF Lined
<1>4. Chained(m)
  BY <1>2, MoreChained DEF LinkOK
<1>5. \A i : Follows(l, n, i) => Follows(m, n, i)
  BY MoreFollows
<1>6. ASSUME ~m.refused, ~m.crossed
      PROVE  JoinsFollow(m, n) /\ Covered(m, names)
  <2>1. JoinsFollow(l, n) /\ Covered(l, names) /\ ~l.refused /\ ~l.crossed
    BY <1>6 DEF LinkOK
  <2>2. \A i \in 1 .. Len(m.toS) : m.toS[i][1] = "JOIN" => Follows(m, n, i)
    BY <1>5, <2>1 DEF JoinsFollow
  <2>3. ASSUME NEW i \in 1 .. Len(m.toC), IsJoin(m, i)
        PROVE  m.toC[i][2] = n \/ Leaves(m, n, 1, i)
    <3>0. i \in 1 .. Len(l.toC) \/ i = Len(l.toC) + 1
      BY <1>1
    <3>1. 1 \in 1 .. Len(m.toC)
      BY <1>1
    <3>2. CASE i \in 1 .. Len(l.toC)
      BY <1>1, <2>1, <2>3, <3>1, <3>2 DEF JoinsFollow
    <3>3. CASE i = Len(l.toC) + 1
      <4>1. x[1] = "join"
        BY <1>1, <2>3, <3>3 DEF IsJoin
      <4>2. n = x[2] \/ Leaves(l, n, 1, Len(l.toC) + 1)
        BY <2>1, <4>1 DEF OnTrail
      <4> QED
        BY <1>1, <3>1, <3>3, <4>2
    <3> QED
      BY <3>0, <3>2, <3>3
  <2>4. ASSUME NEW y \in m.joined, y \notin names,
               ~\E i \in 1 .. Len(m.toS) : m.toS[i] = <<"PART", y>>
        PROVE  \E i \in 1 .. Len(m.toC) : IsJoin(m, i) /\ m.toC[i][3] = y
    <3>1. CASE y \in l.joined
      <4>1. PICK i \in 1 .. Len(l.toC) : IsJoin(l, i) /\ l.toC[i][3] = y
        BY <2>1, <2>4, <3>1 DEF Covered
      <4>2. i \in 1 .. Len(m.toC) /\ IsJoin(m, i) /\ m.toC[i][3] = y
        BY <1>1, <4>1
      <4> QED
        BY <4>2
    <3>2. CASE y \notin l.joined
      <4>1. x[1] = "join" /\ x[3] = y
        BY <2>4, <3>2
      <4>2. Len(m.toC) \in 1 .. Len(m.toC) /\ IsJoin(m, Len(m.toC)) /\ m.toC[Len(m.toC)][3] = y
        BY <1>1, <4>1 DEF IsJoin
      <4> QED
        BY <4>2
    <3> QED
      BY <3>1, <3>2
  <2> QED
    BY <2>2, <2>3, <2>4 DEF JoinsFollow, Covered
<1> QED
  BY <1>3, <1>4, <1>5, <1>6 DEF LinkOK

\* The server gives the user the first nick, or the one he has there.
LEMMA Named ==
  ASSUME NEW l \in Links, NEW m \in Links, NEW n \in Nicks,
         NEW names, LinkOK(l, n, names), m.toC = l.toC, m.toS = l.toS,
         m.joined = l.joined, m.refused = l.refused, m.crossed = l.crossed,
         m.nick = l.nick \/ l.nick = None
  PROVE  LinkOK(m, n, names)
<1>1. CASE m.nick = l.nick
  <2>1. /\ Chained(l) => Chained(m)
        /\ \A i : (IsJoin(l, i) <=> IsJoin(m, i)) /\ (IsNick(l, i) <=> IsNick(m, i))
        /\ \A k, i, j : Leaves(l, k, i, j) <=> Leaves(m, k, i, j)
        /\ OnTrail(l, n) => OnTrail(m, n)
    BY <1>1, SameToC
  <2>2. \A i : Follows(l, n, i) => Follows(m, n, i)
    BY <2>1 DEF Follows
  <2>3. Lined(l) => Lined(m)
    BY <2>1 DEF Lined
  <2>4. JoinsFollow(l, n) => JoinsFollow(m, n)
    BY <2>1, <2>2 DEF JoinsFollow
  <2>5. Covered(l, names) => Covered(m, names)
    BY <2>1 DEF Covered
  <2> QED
    BY <2>1, <2>2, <2>3, <2>4, <2>5 DEF LinkOK
<1>2. CASE l.nick = None
  <2>1. \A i \in 1 .. Len(l.toC) : ~IsNick(l, i)
    BY <1>2 DEF LinkOK, Chained
  <2>2. n # None
    BY MatIrcAssumption
  <2>3. ~OnTrail(l, n)
    BY <1>2, <2>1, <2>2 DEF OnTrail, Leaves
  <2>4. \A i : Follows(l, n, i) => Follows(m, n, i)
    BY <2>3 DEF Follows
  <2>5. Chained(m)
    BY <2>1 DEF Chained, IsNick
  <2>6. Lined(m)
    BY DEF LinkOK, Lined, IsNick, IsJoin
  <2>7. JoinsFollow(l, n) => JoinsFollow(m, n)
    BY <2>4 DEF JoinsFollow, IsJoin, IsNick, Leaves
  <2>8. Covered(l, names) => Covered(m, names)
    <3>1. \A i : IsJoin(m, i) <=> IsJoin(l, i)
      BY DEF IsJoin
    <3> QED
      BY <3>1 DEF Covered
  <2> QED
    BY <2>4, <2>5, <2>6, <2>7, <2>8 DEF LinkOK
<1> QED
  BY <1>1, <1>2

\* A line is taken whose effect is there.
LEMMA Takes1 ==
  ASSUME NEW l \in Links, NEW m \in Links, NEW n \in Nicks, l.toS # <<>>,
         NEW names, LinkOK(l, n, names), m.toS = Tail(l.toS), m.toC = l.toC,
         m.nick = l.nick, m.joined = l.joined, m.refused = l.refused, m.crossed = l.crossed,
         l.toS[1] = <<"NICK", n>> => l.refused \/ OnTrail(l, n),
         l.toS[1][1] = "PART" => l.toS[1][2] \notin l.joined
  PROVE  LinkOK(m, n, names)
<1>1. l.toS \in Seq(ToServer) /\ m.toS \in Seq(ToServer)
  BY DEF Links
<1>2. /\ Len(m.toS) = Len(l.toS) - 1 /\ Len(l.toS) \in Nat \ {0}
      /\ \A i \in 1 .. Len(m.toS) : m.toS[i] = l.toS[i + 1]
  BY <1>1
<1>3. /\ Chained(l) => Chained(m)
      /\ \A i : (IsJoin(l, i) <=> IsJoin(m, i)) /\ (IsNick(l, i) <=> IsNick(m, i))
      /\ \A k, i, j : Leaves(l, k, i, j) <=> Leaves(m, k, i, j)
      /\ OnTrail(l, n) => OnTrail(m, n)
  BY SameToC
<1>4. \A i \in 1 .. Len(m.toS) : i + 1 \in 1 .. Len(l.toS)
  BY <1>2
<1>5. Lined(m)
  BY <1>2, <1>3, <1>4 DEF LinkOK, Lined
<1>6. ASSUME NEW i \in 1 .. Len(m.toS) + 1, Follows(l, n, i + 1), ~l.refused
      PROVE  Follows(m, n, i)
  <2>1. CASE OnTrail(l, n)
    BY <1>3, <2>1 DEF Follows
  <2>2. CASE ~OnTrail(l, n)
    <3>1. PICK k \in 1 .. i + 1 - 1 : /\ l.toS[k] = <<"NICK", n>>
                                      /\ \A j \in k + 1 .. i + 1 - 1 : l.toS[j][1] # "NICK"
      BY <1>6, <2>2 DEF Follows
    <3>2. k # 1
      BY <1>6, <2>2, <3>1
    <3>3. /\ k - 1 \in 1 .. i - 1 /\ k - 1 \in 1 .. Len(m.toS)
          /\ (k - 1) + 1 = k
      BY <1>2, <3>1, <3>2
    <3>4. m.toS[k - 1] = <<"NICK", n>>
      BY <1>2, <3>1, <3>3
    <3>5. ASSUME NEW j \in (k - 1) + 1 .. i - 1
          PROVE  m.toS[j][1] # "NICK"
      <4>0. i \in Nat /\ k \in Nat /\ i <= Len(m.toS) + 1
        BY <1>2
      <4>1. j + 1 \in k + 1 .. i + 1 - 1 /\ j \in 1 .. Len(m.toS)
        BY <1>2, <3>3, <4>0
      <4> QED
        BY <1>2, <3>1, <4>1
    <3> QED
      BY <3>3, <3>4, <3>5 DEF Follows
  <2> QED
    BY <2>1, <2>2
<1>7. ~m.refused => Follows(m, n, Len(m.toS) + 1)
  <2>1. Len(m.toS) + 1 + 1 = Len(l.toS) + 1 /\ Len(m.toS) + 1 \in 1 .. Len(m.toS) + 1
    BY <1>2
  <2> QED
    BY <1>6, <2>1 DEF LinkOK
<1>8. ASSUME ~l.refused, ~l.crossed
      PROVE  JoinsFollow(m, n) /\ Covered(m, names)
  <2>1. JoinsFollow(l, n) /\ Covered(l, names)
    BY <1>8 DEF LinkOK
  <2>2. ASSUME NEW i \in 1 .. Len(m.toS), m.toS[i][1] = "JOIN"
        PROVE  Follows(m, n, i)
    <3>1. i \in 1 .. Len(m.toS) + 1 /\ Follows(l, n, i + 1)
      BY <1>2, <1>4, <2>1, <2>2 DEF JoinsFollow
    <3> QED
      BY <1>6, <1>8, <3>1
  <2>3. \A i \in 1 .. Len(m.toC) : IsJoin(m, i) => m.toC[i][2] = n \/ Leaves(m, n, 1, i)
    BY <1>3, <2>1 DEF JoinsFollow
  <2>4. ASSUME NEW y \in m.joined, y \notin names,
               ~\E i \in 1 .. Len(m.toC) : IsJoin(m, i) /\ m.toC[i][3] = y
        PROVE  \E i \in 1 .. Len(m.toS) : m.toS[i] = <<"PART", y>>
    <3>1. PICK i \in 1 .. Len(l.toS) : l.toS[i] = <<"PART", y>>
      BY <1>3, <2>1, <2>4 DEF Covered
    <3>2. i # 1
      BY <2>4, <3>1
    <3>3. i - 1 \in 1 .. Len(m.toS) /\ (i - 1) + 1 = i
      BY <1>2, <3>1, <3>2
    <3> QED
      BY <1>2, <3>1, <3>3
  <2> QED
    BY <2>2, <2>3, <2>4 DEF JoinsFollow, Covered
<1> QED
  BY <1>3, <1>5, <1>7, <1>8 DEF LinkOK

\* A connection just made.
LEMMA Fresh ==
  ASSUME NEW m \in Links, NEW n \in Nicks, NEW names,
         m = [NoLink EXCEPT !.toS = <<<<"NICK", n>>>>]
  PROVE  LinkOK(m, n, names)
<1>1. m.toS = <<<<"NICK", n>>>> /\ m.toC = <<>> /\ m.joined = {}
  BY DEF NoLink
<1>2. Len(m.toS) = 1 /\ m.toS[1] = <<"NICK", n>> /\ Len(m.toC) = 0
  BY <1>1
<1>3. Lined(m) /\ Chained(m) /\ Covered(m, names)
  BY <1>1, <1>2 DEF Lined, Chained, Covered
<1>4. Follows(m, n, 1 + 1)
  BY <1>2 DEF Follows
<1>5. JoinsFollow(m, n)
  BY <1>2 DEF JoinsFollow
<1> QED
  BY <1>2, <1>3, <1>4, <1>5 DEF LinkOK

-----------------------------------------------------------------------------
(* What the handlers share *)

Ids == ServerIds \union WindowIds
ServerTypes == [nick : Nicks, socket : BOOLEAN, channels : Seq(WindowIds)]

\* What is used of the constants.
LEMMA Constants ==
  /\ ServerIds \subseteq Nat /\ WindowIds \subseteq Nat
  /\ ServerIds \cap WindowIds = {} /\ 1 \in ServerIds
  /\ None \notin ServerIds /\ None \notin WindowIds /\ None \notin Titles
  /\ None \notin Nicks /\ UserNick \in Nicks /\ UserNick \in Titles
  BY MatIrcAssumption DEF ServerIds, WindowIds, Titles

\* The types of a listed server.
LEMMA Listed ==
  ASSUME TypeOK, NEW s \in Range(servers)
  PROVE  /\ s \in ServerIds /\ srv[s] \in ServerTypes
         /\ srv[s].nick \in Nicks /\ srv[s].channels \in Seq(WindowIds)
         /\ Range(srv[s].channels) \subseteq WindowIds
         /\ Range(srv[s].channels) \subseteq Open
         /\ link[s] \in Links
<1>1. s \in ServerIds
  BY DEF TypeOK, Range
<1>2. srv[s] \in ServerTypes /\ link[s] \in Links
  BY <1>1 DEF TypeOK, ServerTypes
<1>3. srv[s].nick \in Nicks /\ srv[s].channels \in Seq(WindowIds)
  BY <1>2 DEF ServerTypes
<1>4. Range(srv[s].channels) \subseteq WindowIds
  BY <1>3 DEF Range
<1>5. Range(srv[s].channels) \subseteq Open
  BY DEF Open
<1> QED
  BY <1>1, <1>2, <1>3, <1>4, <1>5

\* channel_focus: the buffer that is shown is not marked.
LEMMA Focused ==
  ASSUME NEW s \in ServerIds, NEW c \in WindowIds \union {None},
         NEW cs \in SUBSET Ids, NEW us \in SUBSET Ids, cs = us, FocusFrom(s, c, cs, us)
  PROVE  /\ changed' \in SUBSET Ids /\ unread' \in SUBSET Ids
         /\ changed' = unread' /\ Shown(scur', ccur') \notin changed'
         /\ scur' = s /\ ccur' = c
  BY DEF FocusFrom

\* screen_printf: exactly what is not shown gets marked.
LEMMA Printed ==
  ASSUME TypeOK, Marks, NEW s \in ServerIds, NEW cs \in SUBSET (WindowIds \union {None}),
         PrintAll(s, cs), pc = "run"
  PROVE  /\ changed' \in SUBSET Ids /\ unread' \in SUBSET Ids
         /\ changed' = unread' /\ Shown(scur', ccur') \notin changed'
         /\ scur' = scur /\ ccur' = ccur
<1> DEFINE hidden == {c \in cs : ~OnScreen(s, c)}
<1>0. scur \in ServerIds /\ ccur \in WindowIds \union {None}
  BY DEF TypeOK, Range
<1>1. \A c \in cs : Shown(s, c) \in Ids
  BY DEF Shown, Ids
<1>2. \A c \in cs : OnScreen(s, c) <=> Shown(s, c) = Shown(scur, ccur)
  BY <1>0, Constants DEF OnScreen, Shown
<1>3. /\ changed' = changed \union {Shown(s, c) : c \in hidden}
      /\ unread' = (unread \union {Shown(s, c) : c \in cs}) \ {Shown(scur, ccur)}
      /\ scur' = scur /\ ccur' = ccur
  BY DEF PrintAll
<1>4. changed = unread /\ Shown(scur, ccur) \notin changed /\ changed \subseteq Ids
  BY DEF Marks, TypeOK, Ids
<1>5. {Shown(s, c) : c \in hidden} = {Shown(s, c) : c \in cs} \ {Shown(scur, ccur)}
  BY <1>2
<1>6. {Shown(s, c) : c \in cs} \subseteq Ids
  BY <1>1
<1> HIDE DEF hidden
<1>7. changed' = unread' /\ Shown(scur, ccur) \notin changed'
  BY <1>3, <1>4, <1>5
<1>8. changed' \subseteq Ids
  BY <1>3, <1>4, <1>5, <1>6
<1> QED
  BY <1>3, <1>7, <1>8

-----------------------------------------------------------------------------
(* The windows of a server *)

\* FirstIn when no window changes ...
LEMMA FirstKept ==
  ASSUME NEW cs \in Seq(WindowIds), NEW wins, NEW wins2, FirstIn(cs, wins),
         \A w \in Range(cs) : wins2[w] = wins[w]
  PROVE  FirstIn(cs, wins2)
<1>1. \A i \in 1 .. Len(cs) : cs[i] \in Range(cs)
  BY DEF Range
<1> QED
  BY <1>1 DEF FirstIn

\* An element put at the end.
LEMMA Added ==
  ASSUME NEW cs \in Seq(WindowIds), NEW w \in WindowIds
  PROVE  /\ Append(cs, w) \in Seq(WindowIds)
         /\ Len(Append(cs, w)) = Len(cs) + 1 /\ Len(cs) \in Nat
         /\ Append(cs, w)[Len(cs) + 1] = w
         /\ \A i \in 1 .. Len(cs) : Append(cs, w)[i] = cs[i]
         /\ Range(Append(cs, w)) = Range(cs) \union {w}
         /\ w \notin Range(cs) /\ IsInjective(cs) => IsInjective(Append(cs, w))
<1>1. /\ Append(cs, w) \in Seq(WindowIds)
      /\ Len(Append(cs, w)) = Len(cs) + 1 /\ Len(cs) \in Nat
      /\ Append(cs, w)[Len(cs) + 1] = w
      /\ \A i \in 1 .. Len(cs) : Append(cs, w)[i] = cs[i]
  OBVIOUS
<1>2. DOMAIN Append(cs, w) = 1 .. Len(cs) + 1 /\ DOMAIN cs = 1 .. Len(cs)
  OBVIOUS
<1>3. Range(Append(cs, w)) = Range(cs) \union {w}
  BY <1>1, <1>2 DEF Range
<1>4. ASSUME w \notin Range(cs), IsInjective(cs)
      PROVE  IsInjective(Append(cs, w))
  <2>1. \A i \in 1 .. Len(cs) : cs[i] # w
    BY <1>2, <1>4 DEF Range
  <2> QED
    BY <1>1, <1>2, <1>4, <2>1 DEF IsInjective
<1> QED
  BY <1>1, <1>3, <1>4

\* ... when one is put at the end ...
LEMMA FirstAdded ==
  ASSUME NEW cs \in Seq(WindowIds), NEW w \in WindowIds, NEW wins, NEW wins2,
         FirstIn(cs, wins), \A v \in Range(cs) : wins2[v] = wins[v],
         \A i \in 1 .. Len(cs) : wins2[w].part => wins[cs[i]].name # wins2[w].name
  PROVE  FirstIn(Append(cs, w), wins2)
<1>1. /\ Len(Append(cs, w)) = Len(cs) + 1 /\ Len(cs) \in Nat
      /\ Append(cs, w)[Len(cs) + 1] = w
      /\ \A i \in 1 .. Len(cs) : Append(cs, w)[i] = cs[i]
  OBVIOUS
<1>2. \A i \in 1 .. Len(cs) : wins2[cs[i]] = wins[cs[i]]
  BY DEF Range
<1> SUFFICES ASSUME NEW i \in 1 .. Len(cs) + 1, wins2[Append(cs, w)[i]].part, NEW j \in 1 .. i - 1
             PROVE  wins2[Append(cs, w)[j]].name # wins2[Append(cs, w)[i]].name
  BY <1>1 DEF FirstIn
<1>3. j \in 1 .. Len(cs) /\ wins2[Append(cs, w)[j]] = wins[cs[j]]
  BY <1>1, <1>2
<1>4. CASE i \in 1 .. Len(cs)
  <2>1. wins2[Append(cs, w)[i]] = wins[cs[i]]
    BY <1>1, <1>2, <1>4
  <2> QED
    BY <1>3, <1>4, <2>1 DEF FirstIn
<1>5. CASE i = Len(cs) + 1
  BY <1>1, <1>3, <1>5
<1> QED
  BY <1>1, <1>4, <1>5

\* ... when one is taken out ...
LEMMA FirstRemoved ==
  ASSUME NEW cs \in Seq(WindowIds), NEW w \in Range(cs), IsInjective(cs),
         NEW wins, NEW wins2, FirstIn(cs, wins), \A v \in Range(cs) \ {w} : wins2[v] = wins[v]
  PROVE  FirstIn(Without(cs, w), wins2)
<1> DEFINE p == PlaceOf(cs, w)
           r == Without(cs, w)
<1>1. /\ Len(r) = Len(cs) - 1 /\ Len(cs) \in Nat
      /\ Range(r) = Range(cs) \ {w} /\ r \in Seq(WindowIds)
      /\ \A i \in 1 .. Len(cs) - 1 : r[i] = IF i < p THEN cs[i] ELSE cs[i + 1]
  BY Removed
<1>2. p \in 1 .. Len(cs) /\ cs[p] = w
  BY Place
<1> HIDE DEF p, r
<1>3. \A i \in 1 .. Len(r) : wins2[r[i]] = wins[r[i]]
  <2>1. \A i \in 1 .. Len(r) : r[i] \in Range(r)
    BY <1>1 DEF Range
  <2> QED
    BY <1>1, <2>1
<1> SUFFICES ASSUME NEW i \in 1 .. Len(cs) - 1, wins2[r[i]].part, NEW j \in 1 .. i - 1
             PROVE  wins2[r[j]].name # wins2[r[i]].name
  BY <1>1 DEF FirstIn, r
<1> DEFINE k == IF i < p THEN i ELSE i + 1
           m == IF j < p THEN j ELSE j + 1
<1>4. k \in 1 .. Len(cs) /\ m \in 1 .. k - 1 /\ j \in 1 .. Len(cs) - 1
  BY <1>1, <1>2
<1>5. r[i] = cs[k] /\ r[j] = cs[m]
  BY <1>1, <1>4
<1>6. wins2[r[i]] = wins[cs[k]] /\ wins2[r[j]] = wins[cs[m]]
  BY <1>1, <1>3, <1>4, <1>5
<1> HIDE DEF k, m
<1> QED
  BY <1>4, <1>6 DEF FirstIn

\* ... and when the first of its name learns that it was joined.
LEMMA FirstJoined ==
  ASSUME NEW cs \in Seq(WindowIds), NEW p \in 1 .. Len(cs), IsInjective(cs),
         NEW wins, NEW wins2, FirstIn(cs, wins),
         \A j \in 1 .. p - 1 : wins[cs[j]].name # wins[cs[p]].name,
         \A i \in 1 .. Len(cs) : wins2[cs[i]].name = wins[cs[i]].name,
         \A i \in 1 .. Len(cs) : i # p => (wins2[cs[i]].part => wins[cs[i]].part)
  PROVE  FirstIn(cs, wins2)
<1> SUFFICES ASSUME NEW i \in 1 .. Len(cs), wins2[cs[i]].part, NEW j \in 1 .. i - 1
             PROVE  wins2[cs[j]].name # wins2[cs[i]].name
  BY DEF FirstIn
<1>1. CASE i = p
  BY <1>1
<1>2. CASE i # p
  <2>1. wins[cs[i]].part
    BY <1>2
  <2> QED
    BY <2>1 DEF FirstIn
<1> QED
  BY <1>1, <1>2

\* The windows after a step in which servers keep theirs or lose them all.
LEMMA WindowsKept ==
  ASSUME TypeOK, Apart, Firsts,
         \A t \in Range(servers') :
           \/ srv'[t].channels = <<>>
           \/ /\ t \in Range(servers) /\ srv'[t].channels = srv[t].channels
              /\ \A w \in Range(srv[t].channels) : win'[w] = win[w]
  PROVE  /\ Apart' /\ Firsts'
         /\ \A t \in Range(servers') : srv'[t].channels # <<>> => PartNames(t)' = PartNames(t)
<1>0. Range(<<>>) = {}
  BY DEF Range
<1>1. Apart'
  <2> SUFFICES ASSUME NEW s \in Range(servers'), NEW t \in Range(servers'), s # t
               PROVE  Range(srv'[s].channels) \cap Range(srv'[t].channels) = {}
    BY DEF Apart
  <2>1. CASE srv'[s].channels = <<>> \/ srv'[t].channels = <<>>
    BY <1>0, <2>1
  <2>2. CASE srv'[s].channels # <<>> /\ srv'[t].channels # <<>>
    BY <2>2 DEF Apart
  <2> QED
    BY <2>1, <2>2
<1>2. Firsts'
  <2> SUFFICES ASSUME NEW t \in Range(servers')
               PROVE  FirstIn(srv'[t].channels, win')
    BY DEF Firsts
  <2>1. CASE srv'[t].channels = <<>>
    BY <2>1 DEF FirstIn
  <2>2. CASE srv'[t].channels # <<>>
    <3>1. /\ t \in Range(servers) /\ srv'[t].channels = srv[t].channels
          /\ \A w \in Range(srv[t].channels) : win'[w] = win[w]
      BY <2>2
    <3>2. FirstIn(srv[t].channels, win) /\ srv[t].channels \in Seq(WindowIds)
      BY <3>1, Listed DEF Firsts
    <3> QED
      BY <3>1, <3>2, FirstKept
  <2> QED
    BY <2>1, <2>2
<1>3. ASSUME NEW t \in Range(servers'), srv'[t].channels # <<>>
      PROVE  PartNames(t)' = PartNames(t)
  BY <1>3 DEF PartNames
<1> QED
  BY <1>1, <1>2, <1>3

\* channel_get finds the first window of the name.
LEMMA Got ==
  ASSUME TypeOK, NEW s \in Range(servers), NEW name, Places(s, name) # {}
  PROVE  \E p \in 1 .. Len(srv[s].channels) :
           /\ ChannelGet(s, name) = srv[s].channels[p]
           /\ srv[s].channels[p] \in Range(srv[s].channels)
           /\ win[srv[s].channels[p]].name = name
           /\ \A j \in 1 .. p - 1 : win[srv[s].channels[j]].name # name
<1>0. srv[s].channels \in Seq(WindowIds)
  BY Listed
<1> DEFINE P == Places(s, name)
           p == Lowest(P)
<1>1. P = {i \in 1 .. Len(srv[s].channels) : win[srv[s].channels[i]].name = name}
  BY <1>0 DEF Places
<1>2. P \in SUBSET Nat /\ P # {}
  BY <1>0, <1>1
<1>3. p \in P /\ \A y \in P : p <= y
  <2> HIDE DEF P
  <2> QED
    BY <1>2, Least
<1>4. ChannelGet(s, name) = srv[s].channels[p]
  BY DEF ChannelGet
<1> HIDE DEF p
<1>5. p \in 1 .. Len(srv[s].channels) /\ win[srv[s].channels[p]].name = name
  BY <1>1, <1>3
<1>6. \A j \in 1 .. p - 1 : win[srv[s].channels[j]].name # name
  <2> SUFFICES ASSUME NEW j \in 1 .. p - 1, win[srv[s].channels[j]].name = name
               PROVE  FALSE
    OBVIOUS
  <2>1. j \in 1 .. Len(srv[s].channels)
    BY <1>0, <1>5
  <2>2. j \in P
    BY <1>1, <2>1
  <2> QED
    BY <1>3, <1>5, <2>2
<1>7. srv[s].channels[p] \in Range(srv[s].channels)
  BY <1>0, <1>5 DEF Range
<1> QED
  BY <1>4, <1>5, <1>6, <1>7

\* channel_get finds a window, or none.
LEMMA GetTyped ==
  ASSUME TypeOK, NEW s \in Range(servers), NEW name
  PROVE  ChannelGet(s, name) \in WindowIds \union {None}
<1>1. CASE Places(s, name) = {}
  BY <1>1 DEF ChannelGet
<1>2. CASE Places(s, name) # {}
  BY <1>2, Got, Listed
<1> QED
  BY <1>1, <1>2

\* A window that was free joins those of s, at the end.
LEMMA WindowAdded ==
  ASSUME TypeOK, Apart, Firsts, NEW s \in Range(servers), NEW w \in WindowIds, w \notin Open,
         NEW name, NEW part \in BOOLEAN, part => Places(s, name) = {},
         servers' = servers,
         srv' = [srv EXCEPT ![s].channels = Append(@, w)],
         win' = [win EXCEPT ![w] = [name |-> name, part |-> part]]
  PROVE  /\ Apart' /\ Firsts'
         /\ \A t \in Range(servers) : PartNames(t) \subseteq PartNames(t)'
         /\ part => name \in PartNames(s)'
<1> DEFINE cs == srv[s].channels
<1>0. /\ cs \in Seq(WindowIds) /\ s \in ServerIds /\ srv \in [ServerIds -> ServerTypes]
      /\ win \in [WindowIds -> [name : Titles, part : BOOLEAN]]
      /\ \A t \in Range(servers) : t \in ServerIds
      /\ \A t \in Range(servers) : Range(srv[t].channels) \subseteq WindowIds
  BY Listed DEF TypeOK, ServerTypes
<1>1. /\ srv'[s].channels = Append(cs, w)
      /\ \A t \in Range(servers) \ {s} : srv'[t].channels = srv[t].channels
  BY <1>0 DEF ServerTypes
<1>2. Range(srv'[s].channels) = Range(cs) \union {w}
  BY <1>0, <1>1, Added
<1>3. \A t \in Range(servers) : \A v \in Range(srv[t].channels) : v # w /\ win'[v] = win[v]
  BY <1>0 DEF Open
<1>4. win'[w] = [name |-> name, part |-> part]
  BY <1>0
<1>5. Apart'
  <2> SUFFICES ASSUME NEW t \in Range(servers), NEW u \in Range(servers), t # u,
                      NEW v \in Range(srv'[t].channels), v \in Range(srv'[u].channels)
               PROVE  FALSE
    BY DEF Apart
  <2>1. v = w \/ v \in Range(srv[t].channels)
    BY <1>1, <1>2
  <2>2. v = w \/ v \in Range(srv[u].channels)
    BY <1>1, <1>2
  <2>3. v # w
    BY <1>1, <1>3
  <2> QED
    BY <2>1, <2>2, <2>3 DEF Apart
<1>6. Firsts'
  <2> SUFFICES ASSUME NEW t \in Range(servers)
               PROVE  FirstIn(srv'[t].channels, win')
    BY DEF Firsts
  <2>1. srv[t].channels \in Seq(WindowIds) /\ FirstIn(srv[t].channels, win)
    BY Listed DEF Firsts
  <2>2. \A v \in Range(srv[t].channels) : win'[v] = win[v]
    BY <1>3
  <2>3. CASE t # s
    <3>1. FirstIn(srv[t].channels, win')
      BY ONLY <2>1, <2>2, FirstKept
    <3> QED
      BY <1>1, <2>3, <3>1
  <2>4. CASE t = s
    <3>1. \A i \in 1 .. Len(cs) : win'[w].part => win[cs[i]].name # win'[w].name
      BY <1>0, <1>4 DEF Places
    <3>2. FirstIn(cs, win) /\ \A v \in Range(cs) : win'[v] = win[v]
      BY <2>1, <2>2, <2>4
    <3>3. FirstIn(Append(cs, w), win')
      <4>1. cs \in Seq(WindowIds) /\ w \in WindowIds
        BY <1>0
      <4> HIDE DEF cs
      <4> QED
        BY ONLY <3>1, <3>2, <4>1, FirstAdded
    <3> QED
      BY <1>1, <2>4, <3>3
  <2> QED
    BY <2>3, <2>4
<1>7. ASSUME NEW t \in Range(servers)
      PROVE  PartNames(t) \subseteq PartNames(t)'
  <2>1. Range(srv[t].channels) \subseteq Range(srv'[t].channels)
    BY <1>1, <1>2
  <2> QED
    BY <1>3, <2>1 DEF PartNames
<1>8. part => name \in PartNames(s)'
  BY <1>2, <1>4 DEF PartNames
<1> QED
  BY <1>5, <1>6, <1>7, <1>8

\* A window leaves those of s.
LEMMA WindowClosed ==
  ASSUME TypeOK, Apart, Firsts, NEW s \in Range(servers), NEW w \in Range(srv[s].channels),
         servers' = servers,
         srv' = [srv EXCEPT ![s].channels = Without(@, w)],
         win' = [win EXCEPT ![w] = NoWindow]
  PROVE  /\ Apart' /\ Firsts'
         /\ \A t \in Range(servers) : \A y \in PartNames(t) :
              y \in PartNames(t)' \/ (t = s /\ win[w].part /\ y = win[w].name)
<1> DEFINE cs == srv[s].channels
<1>0. /\ cs \in Seq(WindowIds) /\ s \in ServerIds /\ srv \in [ServerIds -> ServerTypes]
      /\ win \in [WindowIds -> [name : Titles, part : BOOLEAN]]
      /\ \A t \in Range(servers) : t \in ServerIds
      /\ \A t \in Range(servers) : Range(srv[t].channels) \subseteq WindowIds
      /\ IsInjective(cs) /\ w \in WindowIds
  BY Listed DEF TypeOK, ServerTypes
<1>1. /\ srv'[s].channels = Without(cs, w)
      /\ \A t \in Range(servers) \ {s} : srv'[t].channels = srv[t].channels
  BY <1>0 DEF ServerTypes
<1>2. Range(srv'[s].channels) = Range(cs) \ {w}
  BY <1>0, <1>1, Removed
<1>4. \A t \in Range(servers) : \A v \in Range(srv'[t].channels) :
        v \in Range(srv[t].channels) /\ win'[v] = win[v]
  <2> SUFFICES ASSUME NEW t \in Range(servers), NEW v \in Range(srv'[t].channels)
               PROVE  v \in Range(srv[t].channels) /\ v # w
    BY <1>0
  <2>1. CASE t = s
    BY <1>2, <2>1
  <2>2. CASE t # s
    BY <1>1, <2>2 DEF Apart
  <2> QED
    BY <2>1, <2>2
<1>5. Apart'
  BY <1>4 DEF Apart
<1>6. Firsts'
  <2> SUFFICES ASSUME NEW t \in Range(servers)
               PROVE  FirstIn(srv'[t].channels, win')
    BY DEF Firsts
  <2>1. srv[t].channels \in Seq(WindowIds) /\ FirstIn(srv[t].channels, win)
    BY Listed DEF Firsts
  <2>2. CASE t # s
    <3>1. srv'[t].channels = srv[t].channels
      BY <1>1, <2>2
    <3>2. \A v \in Range(srv[t].channels) : win'[v] = win[v]
      BY <1>4, <3>1
    <3>3. FirstIn(srv[t].channels, win')
      BY ONLY <2>1, <3>2, FirstKept
    <3> QED
      BY <3>1, <3>3
  <2>3. CASE t = s
    <3>1. \A v \in Range(cs) \ {w} : win'[v] = win[v]
      BY <1>2, <1>4
    <3>2. FirstIn(cs, win)
      BY <2>1, <2>3
    <3>3. FirstIn(Without(cs, w), win')
      <4> HIDE DEF cs
      <4>1. w \in Range(cs)
        BY DEF cs
      <4> QED
        BY ONLY <1>0, <3>1, <3>2, <4>1, FirstRemoved
    <3> QED
      BY <1>1, <2>3, <3>3
  <2> QED
    BY <2>2, <2>3
<1>7. ASSUME NEW t \in Range(servers), NEW y \in PartNames(t),
             ~(t = s /\ win[w].part /\ y = win[w].name)
      PROVE  y \in PartNames(t)'
  <2>1. PICK v \in Range(srv[t].channels) : win[v].part /\ win[v].name = y
    BY DEF PartNames
  <2>2. v \in Range(srv'[t].channels)
    BY <1>1, <1>2, <1>7, <2>1
  <2> QED
    BY <1>4, <2>1, <2>2 DEF PartNames
<1> QED
  BY <1>5, <1>6, <1>7

\* The first window of a name learns that its channel was joined.
LEMMA WindowJoined ==
  ASSUME TypeOK, Apart, Firsts, NEW s \in Range(servers), NEW name, Places(s, name) # {},
         servers' = servers, srv' = srv,
         win' = [win EXCEPT ![ChannelGet(s, name)].part = TRUE]
  PROVE  /\ Apart' /\ Firsts'
         /\ \A t \in Range(servers) : PartNames(t) \subseteq PartNames(t)'
         /\ name \in PartNames(s)'
<1>1. PICK p \in 1 .. Len(srv[s].channels) :
           /\ ChannelGet(s, name) = srv[s].channels[p]
           /\ srv[s].channels[p] \in Range(srv[s].channels)
           /\ win[srv[s].channels[p]].name = name
           /\ \A j \in 1 .. p - 1 : win[srv[s].channels[j]].name # name
  BY Got
<1> DEFINE w == srv[s].channels[p]
<1>0. /\ win \in [WindowIds -> [name : Titles, part : BOOLEAN]]
      /\ \A t \in Range(servers) : Range(srv[t].channels) \subseteq WindowIds
      /\ \A t \in Range(servers) : srv[t].channels \in Seq(WindowIds)
      /\ IsInjective(srv[s].channels) /\ s \in ServerIds
  BY Listed DEF TypeOK
<1>2. w \in WindowIds /\ w \in Range(srv[s].channels)
  BY <1>0, <1>1
<1>3. /\ win'[w].part /\ win'[w].name = name
      /\ \A v \in WindowIds : win'[v].name = win[v].name
      /\ \A v \in WindowIds : win[v].part => win'[v].part
      /\ \A v \in WindowIds \ {w} : win'[v].part = win[v].part
  BY <1>0, <1>1, <1>2
<1>4. Apart'
  BY DEF Apart
<1>5. Firsts'
  <2> SUFFICES ASSUME NEW t \in Range(servers)
               PROVE  FirstIn(srv[t].channels, win')
    BY DEF Firsts
  <2>1. srv[t].channels \in Seq(WindowIds) /\ FirstIn(srv[t].channels, win)
    BY Listed DEF Firsts
  <2>2. CASE t # s
    <3>1. \A v \in Range(srv[t].channels) : v # w
      BY <1>2, <2>2 DEF Apart
    <3>2. \A v \in Range(srv[t].channels) : win'[v] = win[v]
      BY <1>0, <3>1, <1>1
    <3> QED
      BY <2>1, <3>2, FirstKept
  <2>3. CASE t = s
    <3>1. \A i \in 1 .. Len(srv[t].channels) : srv[t].channels[i] \in WindowIds
      BY <2>1
    <3>2. \A i \in 1 .. Len(srv[t].channels) : i # p => srv[t].channels[i] # w
      BY <1>0, <1>1, <2>3 DEF IsInjective
    <3>3. \A j \in 1 .. p - 1 : win[srv[t].channels[j]].name # win[srv[t].channels[p]].name
      BY <1>1, <2>3
    <3>4. /\ \A i \in 1 .. Len(srv[t].channels) :
               win'[srv[t].channels[i]].name = win[srv[t].channels[i]].name
          /\ \A i \in 1 .. Len(srv[t].channels) :
               i # p => (win'[srv[t].channels[i]].part => win[srv[t].channels[i]].part)
      <4> HIDE DEF w
      <4> QED
        BY ONLY <1>3, <3>1, <3>2
    <3>5. p \in 1 .. Len(srv[t].channels) /\ IsInjective(srv[t].channels)
      BY <1>0, <2>3
    <3> QED
      BY ONLY <2>1, <3>3, <3>4, <3>5, FirstJoined
  <2> QED
    BY <2>2, <2>3
<1>6. ASSUME NEW t \in Range(servers)
      PROVE  PartNames(t) \subseteq PartNames(t)'
  BY <1>0, <1>3 DEF PartNames
<1>7. name \in PartNames(s)'
  BY <1>2, <1>3 DEF PartNames
<1> QED
  BY <1>4, <1>5, <1>6, <1>7

-----------------------------------------------------------------------------
(* Steps *)

ClientOK ==
  /\ pc \in {"run", "exit", "undefined"}
  /\ servers \in Seq(ServerIds) /\ servers # <<>> /\ IsInjective(servers)
  /\ srv \in [ServerIds -> ServerTypes]
  /\ \A s \in ServerIds : IsInjective(srv[s].channels)
  /\ win \in [WindowIds -> [name : Titles, part : BOOLEAN]]
  /\ scur \in Range(servers) /\ ccur \in WindowIds \union {None}
  /\ changed \in SUBSET Ids /\ unread \in SUBSET Ids

Client == ClientOK /\ Apart /\ Marks /\ Firsts

\* What a step may assume.
LEMMA Parts ==
  ASSUME Inv
  PROVE  /\ TypeOK /\ ClientOK /\ Client /\ Apart /\ Marks /\ Firsts /\ Lines
         /\ link \in [ServerIds -> Links]
         /\ \A s \in Range(servers) : s \in ServerIds
         /\ scur \in ServerIds /\ scur \in Range(servers)
<1>1. ClientOK
  BY DEF Inv, TypeOK, ClientOK, ServerTypes, Ids
<1>2. \A s \in Range(servers) : s \in ServerIds
  BY <1>1 DEF ClientOK, Range
<1> QED
  BY <1>1, <1>2 DEF Inv, TypeOK, Client

\* What a step has to show.
LEMMA Whole ==
  ASSUME Client', link' \in [ServerIds -> Links], Lines'
  PROVE  Inv'
<1>1. TypeOK'
  BY DEF Client, ClientOK, TypeOK, ServerTypes, Ids
<1> QED
  BY <1>1 DEF Inv, Client

\* More windows never hurt a connection.
LEMMA Widened ==
  ASSUME NEW l, NEW n, NEW names, NEW names2, LinkOK(l, n, names), names \subseteq names2
  PROVE  LinkOK(l, n, names2)
<1>1. Covered(l, names) => Covered(l, names2)
  BY DEF Covered
<1> QED
  BY <1>1 DEF LinkOK

\* The connections after a step that touches at most one.
LEMMA LinesKept ==
  ASSUME Lines,
         \A t \in Range(servers') : srv'[t].socket =>
           \/ /\ t \in Range(servers) /\ srv[t].socket /\ srv'[t].nick = srv[t].nick
              /\ link'[t] = link[t] /\ PartNames(t) \subseteq PartNames(t)'
           \/ LinkOK(link'[t], srv'[t].nick, PartNames(t)')
  PROVE  Lines'
<1> SUFFICES ASSUME NEW t \in Range(servers'), srv'[t].socket
             PROVE  LinkOK(link'[t], srv'[t].nick, PartNames(t)')
  BY DEF Lines
<1>1. CASE /\ t \in Range(servers) /\ srv[t].socket /\ srv'[t].nick = srv[t].nick
           /\ link'[t] = link[t] /\ PartNames(t) \subseteq PartNames(t)'
  <2>1. LinkOK(link[t], srv[t].nick, PartNames(t))
    BY <1>1 DEF Lines
  <2>2. LinkOK(link[t], srv[t].nick, PartNames(t)')
    BY ONLY <1>1, <2>1, Widened
  <2> QED
    BY <1>1, <2>2
<1> QED
  BY <1>1

\* The client's half of the invariant after a step that is not the client's.
LEMMA SameClient ==
  ASSUME Inv, UNCHANGED client
  PROVE  Client' /\ \A t \in Range(servers) : PartNames(t)' = PartNames(t)
<1>1. ClientOK'
  BY Parts DEF client, ClientOK
<1>2. Apart' /\ Marks'
  BY Parts DEF client, Apart, Marks
<1>3. Firsts'
  BY Parts DEF client, Firsts
<1>4. \A t \in Range(servers) : PartNames(t)' = PartNames(t)
  BY DEF client, PartNames
<1> QED
  BY <1>1, <1>2, <1>3, <1>4 DEF Client

\* Only the connection of s changes.
LEMMA LinkOnly ==
  ASSUME Inv, UNCHANGED client, NEW s \in Range(servers), NEW l \in Links,
         link' = [link EXCEPT ![s] = l],
         srv[s].socket => LinkOK(l, srv[s].nick, PartNames(s))
  PROVE  Inv'
<1>0. s \in ServerIds /\ link \in [ServerIds -> Links] /\ Lines
  BY Parts
<1>1. Client' /\ \A t \in Range(servers) : PartNames(t)' = PartNames(t)
  BY SameClient
<1>2. link' \in [ServerIds -> Links]
  BY <1>0
<1>3. servers' = servers /\ srv' = srv
  BY DEF client
<1>4. ASSUME NEW t \in Range(servers'), srv'[t].socket
      PROVE  \/ /\ t \in Range(servers) /\ srv[t].socket /\ srv'[t].nick = srv[t].nick
                /\ link'[t] = link[t] /\ PartNames(t) \subseteq PartNames(t)'
             \/ LinkOK(link'[t], srv'[t].nick, PartNames(t)')
  <2>1. t \in Range(servers) /\ srv[t].socket /\ t \in ServerIds
    BY <1>3, <1>4, Parts
  <2>2. CASE t = s
    BY <1>0, <1>1, <1>3, <2>1, <2>2
  <2>3. CASE t # s
    BY <1>0, <1>1, <1>3, <2>1, <2>3
  <2> QED
    BY <2>2, <2>3
<1>5. Lines'
  BY <1>0, <1>4, LinesKept
<1> QED
  BY <1>1, <1>2, <1>5, Whole

\* Only the focus and the marks change.
LEMMA FocusOnly ==
  ASSUME Inv, pc = "run", NEW s \in Range(servers), NEW c \in WindowIds \union {None},
         Focus(s, c), UNCHANGED <<pc, servers, srv, win, link>>
  PROVE  Inv'
<1>0. changed = unread /\ changed \in SUBSET Ids /\ unread \in SUBSET Ids /\ s \in ServerIds
  BY Parts DEF Marks, ClientOK
<1>1. /\ changed' \in SUBSET Ids /\ unread' \in SUBSET Ids
      /\ changed' = unread' /\ Shown(scur', ccur') \notin changed'
      /\ scur' = s /\ ccur' = c
  BY <1>0, Focused DEF Focus
<1>2. ClientOK'
  BY <1>1, Parts DEF ClientOK
<1>3. Apart'
  BY Parts DEF Apart
<1>4. Firsts'
  BY Parts DEF Firsts
<1>5. Marks'
  BY <1>1 DEF Marks
<1>6. Lines'
  <2>1. \A t \in Range(servers) : PartNames(t)' = PartNames(t)
    BY DEF PartNames
  <2> QED
    BY <2>1, Parts, LinesKept
<1> QED
  BY <1>2, <1>3, <1>4, <1>5, <1>6, Parts, Whole DEF Client

\* The key for the next window.
LEMMA NextWindowInv ==
  ASSUME Inv, NextWindow
  PROVE  Inv'
<1> DEFINE cs == srv[scur].channels
           i == IF ccur = None THEN 0
                ELSE IF ccur \in Range(cs) THEN PlaceOf(cs, ccur) ELSE Len(cs)
           j == PlaceOf(servers, scur)
<1>1. cs \in Seq(WindowIds) /\ servers \in Seq(ServerIds) /\ scur \in Range(servers)
  BY Parts, Listed DEF ClientOK
<1>2. i \in 0 .. Len(cs)
  <2> HIDE DEF cs
  <2> QED
    BY <1>1, Place
<1>3. j \in 1 .. Len(servers)
  BY <1>1, Place
<1>4. CASE i < Len(cs)
  <2>1. cs[i + 1] \in WindowIds
    BY <1>1, <1>2, <1>4
  <2>2. pc = "run" /\ Focus(scur, cs[i + 1]) /\ UNCHANGED <<pc, servers, srv, win, link>>
    BY <1>4 DEF NextWindow
  <2> HIDE DEF i, cs
  <2> QED
    BY <1>1, <2>1, <2>2, FocusOnly
<1>5. CASE ~(i < Len(cs))
  <2> DEFINE k == (j % Len(servers)) + 1
  <2>1. k \in 1 .. Len(servers)
    BY <1>1, <1>3
  <2>2. servers[k] \in Range(servers)
    BY <1>1, <2>1 DEF Range
  <2>3. pc = "run" /\ Focus(servers[k], None) /\ UNCHANGED <<pc, servers, srv, win, link>>
    BY <1>5 DEF NextWindow
  <2> HIDE DEF k
  <2> QED
    BY <2>2, <2>3, FocusOnly
<1> QED
  BY <1>4, <1>5

\* The key for the window before.
LEMMA PrevWindowInv ==
  ASSUME Inv, PrevWindow
  PROVE  Inv'
<1>1. servers \in Seq(ServerIds) /\ scur \in Range(servers) /\ pc = "run"
      /\ UNCHANGED <<pc, servers, srv, win, link>>
  BY Parts DEF ClientOK, PrevWindow
<1>2. CASE ccur = None
  <2> DEFINE j == PlaceOf(servers, scur)
             k == IF j > 1 THEN j - 1 ELSE Len(servers)
             s == servers[k]
  <2>1. j \in 1 .. Len(servers)
    BY <1>1, Place
  <2>2. k \in 1 .. Len(servers)
    BY <1>1, <2>1
  <2>3. s \in Range(servers)
    BY <1>1, <2>2 DEF Range
  <2>4. Focus(s, LastOf(srv[s].channels))
    BY <1>2 DEF PrevWindow
  <2> HIDE DEF s
  <2>5. srv[s].channels \in Seq(WindowIds)
    BY <2>3, Parts, Listed
  <2>6. LastOf(srv[s].channels) \in WindowIds \union {None}
    BY <2>5 DEF LastOf
  <2> QED
    BY <1>1, <2>3, <2>4, <2>6, FocusOnly
<1>3. CASE ccur # None
  <2> DEFINE cs == srv[scur].channels
             i == IF ccur \in Range(cs) THEN PlaceOf(cs, ccur) ELSE 1
             c == IF i > 1 THEN cs[i - 1] ELSE None
  <2>1. cs \in Seq(WindowIds)
    BY <1>1, Parts, Listed
  <2>2. i > 1 => i - 1 \in 1 .. Len(cs)
    <3> HIDE DEF cs
    <3> QED
      BY <2>1, Place
  <2>3. c \in WindowIds \union {None}
    <3> HIDE DEF i, cs
    <3> QED
      BY <2>1, <2>2
  <2>4. Focus(scur, c)
    BY <1>3 DEF PrevWindow
  <2> HIDE DEF c
  <2> QED
    BY <1>1, <2>3, <2>4, FocusOnly
<1> QED
  BY <1>2, <1>3

-----------------------------------------------------------------------------
(* The server's steps *)

\* Sending one line is appending it.
LEMMA Concat ==
  ASSUME NEW S, NEW q \in Seq(S), NEW x \in S
  PROVE  /\ q \o <<x>> = Append(q, x) /\ Append(q, x) \in Seq(S)
         /\ q \o <<>> = q
  OBVIOUS

\* The types of a connection and of its updates.
LEMMA LinkTyped ==
  ASSUME NEW l \in Links
  PROVE  /\ l.toS \in Seq(ToServer) /\ l.toC \in Seq(ToClient)
         /\ l.nick \in Nicks \union {None} /\ l.joined \subseteq Names
         /\ l.refused \in BOOLEAN /\ l.crossed \in BOOLEAN
         /\ \A q \in Seq(ToServer) : [l EXCEPT !.toS = q] \in Links
         /\ \A q \in Seq(ToClient) : [l EXCEPT !.toC = q] \in Links
         /\ \A k \in Nicks : [l EXCEPT !.nick = k] \in Links
         /\ \A j \in SUBSET Names : [l EXCEPT !.joined = j] \in Links
         /\ [l EXCEPT !.refused = TRUE] \in Links
         /\ \A b \in BOOLEAN : [l EXCEPT !.crossed = b] \in Links
         /\ l.toS # <<>> => Tail(l.toS) \in Seq(ToServer) /\ l.toS[1] \in ToServer
                            /\ Head(l.toS) = l.toS[1] /\ Len(l.toS) \in Nat \ {0}
         /\ l.toC # <<>> => Tail(l.toC) \in Seq(ToClient) /\ l.toC[1] \in ToClient
                            /\ Head(l.toC) = l.toC[1] /\ Len(l.toC) \in Nat \ {0}
<1>1. /\ l.toS \in Seq(ToServer) /\ l.toC \in Seq(ToClient)
      /\ l.nick \in Nicks \union {None} /\ l.joined \subseteq Names
      /\ l.refused \in BOOLEAN /\ l.crossed \in BOOLEAN
  BY DEF Links
<1>2. /\ l.toS # <<>> => Tail(l.toS) \in Seq(ToServer) /\ l.toS[1] \in ToServer
                         /\ Head(l.toS) = l.toS[1] /\ Len(l.toS) \in Nat \ {0}
      /\ l.toC # <<>> => Tail(l.toC) \in Seq(ToClient) /\ l.toC[1] \in ToClient
                         /\ Head(l.toC) = l.toC[1] /\ Len(l.toC) \in Nat \ {0}
  BY <1>1
<1>3. \A q \in Seq(ToServer) : [l EXCEPT !.toS = q] \in Links
  BY DEF Links
<1>4. \A q \in Seq(ToClient) : [l EXCEPT !.toC = q] \in Links
  BY DEF Links
<1>5. \A k \in Nicks : [l EXCEPT !.nick = k] \in Links
  BY DEF Links
<1>6. \A j \in SUBSET Names : [l EXCEPT !.joined = j] \in Links
  BY DEF Links
<1>7. [l EXCEPT !.refused = TRUE] \in Links /\ \A b \in BOOLEAN : [l EXCEPT !.crossed = b] \in Links
  BY DEF Links
<1> QED
  BY <1>1, <1>2, <1>3, <1>4, <1>5, <1>6, <1>7

\* What holds of a connection that is up.
LEMMA Serviced ==
  ASSUME Inv, NEW s \in Range(servers), srv[s].socket
  PROVE  /\ s \in ServerIds /\ link[s] \in Links /\ srv[s].nick \in Nicks
         /\ LinkOK(link[s], srv[s].nick, PartNames(s)) /\ Lined(link[s])
<1>1. LinkOK(link[s], srv[s].nick, PartNames(s))
  BY Parts DEF Lines
<1> QED
  BY <1>1, Parts, Listed DEF LinkOK

\* The lines of the model are lines.
LEMMA LineTyped ==
  /\ \A k \in Nicks \union {None}, n \in Titles \union {None} :
       <<"nick", k, n>> \in ToClient /\ <<"join", k, n>> \in ToClient
         /\ <<"text", k, n>> \in ToClient /\ <<"priv", k, n>> \in ToClient
         /\ <<"eof", k, n>> \in ToClient
  /\ \A n \in Titles : /\ <<"NICK", n>> \in ToServer /\ <<"JOIN", n>> \in ToServer
                       /\ <<"PART", n>> \in ToServer
  /\ Nicks \subseteq Titles /\ Names \subseteq Titles
<1>1. \A k \in Nicks \union {None}, n \in Titles \union {None} :
       <<"nick", k, n>> \in ToClient /\ <<"join", k, n>> \in ToClient
         /\ <<"text", k, n>> \in ToClient /\ <<"priv", k, n>> \in ToClient
         /\ <<"eof", k, n>> \in ToClient
  BY DEF ToClient
<1> QED
  BY <1>1 DEF ToServer, Titles

\* /join, /part and other lines the client passes on.
LEMMA SendRawInv ==
  ASSUME Inv, NEW line \in {"JOIN", "PART"} \X Names, SendRaw(line)
  PROVE  Inv'
<1> DEFINE l == link[scur]
           m == [l EXCEPT !.toS = Append(@, line)]
<1>1. scur \in Range(servers) /\ srv[scur].socket /\ UNCHANGED client
  BY Parts DEF SendRaw, client
<1>2. l \in Links /\ srv[scur].nick \in Nicks /\ LinkOK(l, srv[scur].nick, PartNames(scur))
  BY <1>1, Serviced
<1>3. line \in ToServer /\ line[1] \in {"JOIN", "PART"} /\ line[2] \in Names
  BY DEF ToServer, Titles
<1> HIDE DEF l
<1>4. l.toS \in Seq(ToServer) /\ Append(l.toS, line) \in Seq(ToServer)
      /\ l.toS \o <<line>> = Append(l.toS, line)
  <2>1. l.toS \in Seq(ToServer)
    BY <1>2, LinkTyped
  <2> QED
    BY <1>3, <2>1, Concat
<1>5. m \in Links
  BY <1>2, <1>4, LinkTyped
<1>6. link' = [link EXCEPT ![scur] = m]
  BY <1>1, <1>4, Parts DEF SendRaw, Sent, l
<1>7. /\ m.toS = Append(l.toS, line) /\ m.toC = l.toC /\ m.nick = l.nick
      /\ m.joined = l.joined /\ m.refused = l.refused /\ m.crossed = l.crossed
  BY <1>2 DEF Links
<1> HIDE DEF m
<1>8. LinkOK(m, srv[scur].nick, PartNames(scur))
  BY ONLY <1>2, <1>3, <1>5, <1>7, Asks
<1> QED
  BY <1>1, <1>5, <1>6, <1>8, LinkOnly

\* What the server knows of the line it takes.
LEMMA Served ==
  ASSUME Inv, NEW s \in Range(servers), NEW type, Takes(s, type)
  PROVE  /\ srv[s].socket /\ UNCHANGED client
         /\ link[s].toS # <<>> /\ link[s].toS[1][1] = type /\ Asked(s) = link[s].toS[1][2]
         /\ link[s].toS[1] \in ToServer /\ link[s].toS[1] = <<type, Asked(s)>>
         /\ link[s] \in Links /\ srv[s].nick \in Nicks /\ s \in ServerIds
         /\ LinkOK(link[s], srv[s].nick, PartNames(s))
         /\ type = "NICK" => Asked(s) \in Nicks
         /\ type = "JOIN" => Asked(s) \in Names
<1>1. /\ srv[s].socket /\ UNCHANGED client
      /\ link[s].toS # <<>> /\ Head(link[s].toS)[1] = type
  BY DEF Takes, Serving
<1>2. /\ link[s] \in Links /\ LinkOK(link[s], srv[s].nick, PartNames(s)) /\ Lined(link[s])
      /\ srv[s].nick \in Nicks /\ s \in ServerIds
  BY <1>1, Serviced
<1>3. /\ Head(link[s].toS) = link[s].toS[1] /\ link[s].toS[1] \in ToServer
      /\ 1 \in 1 .. Len(link[s].toS)
  <2> DEFINE l == link[s]
  <2>1. l \in Links /\ l.toS # <<>>
    BY <1>1, <1>2
  <2> HIDE DEF l
  <2>2. Head(l.toS) = l.toS[1] /\ l.toS[1] \in ToServer /\ 1 \in 1 .. Len(l.toS)
    <3>1. l.toS \in Seq(ToServer)
      BY <2>1, LinkTyped
    <3> QED
      BY <2>1, <3>1
  <2> QED
    BY <2>2 DEF l
<1>4. link[s].toS[1] = <<link[s].toS[1][1], link[s].toS[1][2]>>
  BY <1>3 DEF ToServer
<1>5. /\ link[s].toS[1][1] = "NICK" => link[s].toS[1][2] \in Nicks
      /\ link[s].toS[1][1] = "JOIN" => link[s].toS[1][2] \in Names
  BY <1>2, <1>3 DEF Lined
<1> QED
  BY <1>1, <1>2, <1>3, <1>4, <1>5 DEF Asked

\* The server grants a nick.
LEMMA ServerNickInv ==
  ASSUME Inv, NEW s \in Range(servers), ServerNick(s)
  PROVE  Inv'
<1> DEFINE l == link[s]
           a == Asked(s)
           n == srv[s].nick
           names == PartNames(s)
<1>1. /\ srv[s].socket /\ UNCHANGED client /\ l.toS # <<>> /\ l.toS[1] = <<"NICK", a>>
      /\ l \in Links /\ n \in Nicks /\ a \in Nicks /\ s \in ServerIds /\ LinkOK(l, n, names)
      /\ link \in [ServerIds -> Links]
  BY Served, Parts DEF ServerNick
<1>2. None \notin Nicks
  BY Constants
<1> DEFINE said == IF l.nick \in {None, a} THEN <<>> ELSE <<<<"nick", l.nick, a>>>>
           k == [[l EXCEPT !.toC = @ \o said] EXCEPT !.nick = a]
           m == [k EXCEPT !.toS = Tail(@)]
<1>3. link' = [link EXCEPT ![s] = [[l EXCEPT !.toS = Tail(@), !.toC = @ \o said] EXCEPT !.nick = a]]
  BY <1>1 DEF ServerNick, Taken
<1> HIDE DEF l, a, n, names
<1>4. /\ l.toC \in Seq(ToClient) /\ l.nick \in Nicks \union {None}
      /\ <<"nick", l.nick, a>> \in ToClient
  BY <1>1, LinkTyped, LineTyped
<1>14. /\ l.toC \o said \in Seq(ToClient)
       /\ l.nick \in {None, a} => l.toC \o said = l.toC
       /\ l.nick \notin {None, a} => l.toC \o said = Append(l.toC, <<"nick", l.nick, a>>)
  BY <1>4, Concat
<1>5. k \in Links
  <2> HIDE DEF said
  <2>1. [l EXCEPT !.toC = @ \o said] \in Links
    BY <1>1, <1>14, LinkTyped
  <2> QED
    BY <1>1, <2>1, LinkTyped
<1>6. /\ k.toC = l.toC \o said /\ k.nick = a /\ k.toS = l.toS
      /\ k.joined = l.joined /\ k.refused = l.refused /\ k.crossed = l.crossed
  BY <1>1 DEF Links
<1>7. m = [[l EXCEPT !.toS = Tail(@), !.toC = @ \o said] EXCEPT !.nick = a]
  BY <1>1 DEF Links
<1> HIDE DEF k
<1>8. LinkOK(k, n, names)
  <2>1. CASE l.nick \in {None, a}
    <3>1. k.toC = l.toC
      BY <1>14, <1>6, <2>1
    <3> QED
      BY <1>1, <1>5, <1>6, <2>1, <3>1, Named
  <2>2. CASE l.nick \notin {None, a}
    <3>1. k.toC = Append(l.toC, <<"nick", l.nick, a>>)
      BY <1>14, <1>6, <2>2
    <3>2. l.nick \in Nicks /\ <<"nick", l.nick, a>> \in ToClient
      BY <1>1, <2>2, LinkTyped, LineTyped
    <3> DEFINE x == <<"nick", l.nick, a>>
    <3>3. x[1] = "nick" /\ x[2] = l.nick /\ x[3] = a
      OBVIOUS
    <3>4. k.toC = Append(l.toC, x) /\ x \in ToClient
      BY <3>1, <3>2
    <3> HIDE DEF x
    <3> QED
      BY ONLY <1>1, <1>5, <1>6, <3>1, <3>2, <3>3, <3>4, Sends
  <2> QED
    BY <2>1, <2>2
<1>9. m \in Links
  BY <1>1, <1>5, <1>6, LinkTyped
<1>10. /\ m.toS = Tail(k.toS) /\ m.toC = k.toC /\ m.nick = k.nick
       /\ m.joined = k.joined /\ m.refused = k.refused /\ m.crossed = k.crossed
  BY <1>5 DEF Links
<1> HIDE DEF m
<1>11. OnTrail(k, a)
  BY <1>6 DEF OnTrail
<1>12. /\ k.toS[1] = <<"NICK", n>> => k.refused \/ OnTrail(k, n)
       /\ k.toS[1][1] = "PART" => k.toS[1][2] \notin k.joined
       /\ k.toS # <<>>
  BY <1>1, <1>6, <1>11
<1>15. LinkOK(m, n, names)
  BY ONLY <1>1, <1>5, <1>8, <1>9, <1>10, <1>12, Takes1
<1> QED
  BY <1>1, <1>3, <1>7, <1>9, <1>15, LinkOnly DEF n, names

\* The server refuses a nick.
LEMMA ServerRefuseInv ==
  ASSUME Inv, NEW s \in Range(servers), ServerRefuse(s)
  PROVE  Inv'
<1> DEFINE l == link[s]
           n == srv[s].nick
           names == PartNames(s)
           x == <<"text", None, None>>
           k == [[l EXCEPT !.toC = Append(@, x)] EXCEPT !.refused = TRUE]
           m == [k EXCEPT !.toS = Tail(@)]
<1>1. /\ srv[s].socket /\ UNCHANGED client /\ l.toS # <<>> /\ l.toS[1][1] = "NICK"
      /\ l \in Links /\ n \in Nicks /\ s \in ServerIds /\ LinkOK(l, n, names)
      /\ link \in [ServerIds -> Links]
  BY Served, Parts DEF ServerRefuse
<1>2. link' = [link EXCEPT ![s] =
         [[l EXCEPT !.toS = Tail(@), !.toC = @ \o <<x>>] EXCEPT !.refused = TRUE]]
  BY <1>1 DEF ServerRefuse, Taken
<1>3. x \in ToClient /\ x[1] \notin {"nick", "join"}
  BY LineTyped
<1> HIDE DEF l, n, names, x
<1>4. /\ l.toC \in Seq(ToClient) /\ l.toC \o <<x>> = Append(l.toC, x)
      /\ Append(l.toC, x) \in Seq(ToClient)
  <2>1. l.toC \in Seq(ToClient)
    BY <1>1, LinkTyped
  <2> QED
    BY <1>3, <2>1, Concat
<1>5. k \in Links
  <2>1. [l EXCEPT !.toC = Append(@, x)] \in Links
    BY <1>1, <1>4, LinkTyped
  <2> QED
    BY <2>1, LinkTyped
<1>6. /\ k.toC = Append(l.toC, x) /\ k.nick = l.nick /\ k.toS = l.toS
      /\ k.joined = l.joined /\ k.refused /\ k.crossed = l.crossed
  BY <1>1 DEF Links
<1>7. m = [[l EXCEPT !.toS = Tail(@), !.toC = @ \o <<x>>] EXCEPT !.refused = TRUE]
  BY <1>1, <1>4 DEF Links
<1> HIDE DEF k
<1>8. LinkOK(k, n, names)
  BY <1>1, <1>3, <1>5, <1>6, Sends
<1>9. m \in Links
  BY <1>1, <1>5, <1>6, LinkTyped
<1>10. /\ m.toS = Tail(k.toS) /\ m.toC = k.toC /\ m.nick = k.nick
       /\ m.joined = k.joined /\ m.refused = k.refused /\ m.crossed = k.crossed
  BY <1>5 DEF Links
<1> HIDE DEF m
<1>11. /\ k.toS[1] = <<"NICK", n>> => k.refused \/ OnTrail(k, n)
       /\ k.toS[1][1] = "PART" => k.toS[1][2] \notin k.joined
       /\ k.toS # <<>>
  BY <1>1, <1>6
<1>12. LinkOK(m, n, names)
  BY ONLY <1>1, <1>5, <1>8, <1>9, <1>10, <1>11, Takes1
<1> QED
  BY <1>1, <1>2, <1>7, <1>9, <1>12, LinkOnly DEF n, names

\* The server grants a join, of a user whose NICK came first.
LEMMA ServerJoinInv ==
  ASSUME Inv, NEW s \in Range(servers), ServerJoin(s)
  PROVE  Inv'
<1> DEFINE l == link[s]
           a == Asked(s)
           n == srv[s].nick
           names == PartNames(s)
           x == <<"join", l.nick, a>>
           heard == l.nick = None \/ a \in l.joined
           k == IF heard THEN l
                ELSE [[l EXCEPT !.toC = Append(@, x)] EXCEPT !.joined = @ \union {a}]
           m == [k EXCEPT !.toS = Tail(@)]
<1>1. /\ srv[s].socket /\ UNCHANGED client /\ l.toS # <<>> /\ l.toS[1] = <<"JOIN", a>>
      /\ l \in Links /\ n \in Nicks /\ a \in Names /\ s \in ServerIds /\ LinkOK(l, n, names)
      /\ link \in [ServerIds -> Links]
  BY Served, Parts DEF ServerJoin
<1>2. link' = [link EXCEPT ![s] =
         IF heard THEN [l EXCEPT !.toS = Tail(@), !.toC = @ \o <<>>]
                  ELSE [[l EXCEPT !.toS = Tail(@), !.toC = @ \o <<x>>]
                          EXCEPT !.joined = @ \union {a}]]
  BY <1>1 DEF ServerJoin, Taken
<1>3. l.nick \in Nicks \union {None} /\ x \in ToClient
  BY <1>1, LinkTyped, LineTyped
<1>x. x[1] = "join" /\ x[2] = l.nick /\ x[3] = a
  OBVIOUS
<1> HIDE DEF l, a, n, names, x
<1>4. /\ l.toC \in Seq(ToClient) /\ l.toC \o <<x>> = Append(l.toC, x)
      /\ Append(l.toC, x) \in Seq(ToClient) /\ l.toC \o <<>> = l.toC
  <2>1. l.toC \in Seq(ToClient)
    BY <1>1, LinkTyped
  <2> QED
    BY <1>3, <2>1, Concat
<1>5. k \in Links
  <2>1. [l EXCEPT !.toC = Append(@, x)] \in Links
    BY <1>1, <1>4, LinkTyped
  <2>2. [l EXCEPT !.toC = Append(@, x)].joined = l.joined /\ l.joined \union {a} \in SUBSET Names
    BY <1>1 DEF Links
  <2>3. [[l EXCEPT !.toC = Append(@, x)] EXCEPT !.joined = @ \union {a}] \in Links
    BY <2>1, <2>2, LinkTyped
  <2> QED
    BY <1>1, <2>3
<1>6. /\ k.nick = l.nick /\ k.toS = l.toS /\ k.refused = l.refused /\ k.crossed = l.crossed
      /\ ~heard => k.toC = Append(l.toC, x) /\ k.joined = l.joined \union {a}
  BY <1>1 DEF Links
<1>7. m = IF heard THEN [l EXCEPT !.toS = Tail(@), !.toC = @ \o <<>>]
                  ELSE [[l EXCEPT !.toS = Tail(@), !.toC = @ \o <<x>>]
                          EXCEPT !.joined = @ \union {a}]
  BY <1>1, <1>4 DEF Links
<1>8. LinkOK(k, n, names)
  <2>1. CASE heard
    BY <1>1, <2>1
  <2>2. CASE ~heard
    <3>1. l.refused \/ l.crossed \/ OnTrail(l, n)
      <4>1. Len(l.toS) \in Nat \ {0}
        BY <1>1, LinkTyped
      <4>2. ~l.refused /\ ~l.crossed => Follows(l, n, 1)
        BY <1>1, <4>1 DEF LinkOK, JoinsFollow
      <4> QED
        BY <4>2 DEF Follows
    <3>2. l.nick \in Nicks
      BY <1>3, <2>2
    <3> HIDE DEF k
    <3> QED
      BY <1>1, <1>3, <1>x, <1>5, <1>6, <2>2, <3>1, <3>2, Sends
  <2> QED
    BY <2>1, <2>2
<1> HIDE DEF k
<1>9. m \in Links
  BY <1>1, <1>5, <1>6, LinkTyped
<1>10. /\ m.toS = Tail(k.toS) /\ m.toC = k.toC /\ m.nick = k.nick
       /\ m.joined = k.joined /\ m.refused = k.refused /\ m.crossed = k.crossed
  BY <1>5 DEF Links
<1> HIDE DEF m
<1>11. /\ k.toS[1] = <<"NICK", n>> => k.refused \/ OnTrail(k, n)
       /\ k.toS[1][1] = "PART" => k.toS[1][2] \notin k.joined
       /\ k.toS # <<>>
  BY <1>1, <1>6
<1>12. LinkOK(m, n, names)
  BY ONLY <1>1, <1>5, <1>8, <1>9, <1>10, <1>11, Takes1
<1> QED
  BY <1>1, <1>2, <1>7, <1>9, <1>12, LinkOnly DEF n, names

\* The server takes a user off a channel.
LEMMA ServerPartInv ==
  ASSUME Inv, NEW s \in Range(servers), ServerPart(s)
  PROVE  Inv'
<1> DEFINE l == link[s]
           a == Asked(s)
           n == srv[s].nick
           names == PartNames(s)
           x == <<"text", None, a>>
           k == IF a \in l.joined
                THEN [[l EXCEPT !.toC = Append(@, x)] EXCEPT !.joined = @ \ {a}] ELSE l
           m == [k EXCEPT !.toS = Tail(@)]
<1>1. /\ srv[s].socket /\ UNCHANGED client /\ l.toS # <<>> /\ l.toS[1] = <<"PART", a>>
      /\ l \in Links /\ n \in Nicks /\ s \in ServerIds /\ LinkOK(l, n, names)
      /\ link \in [ServerIds -> Links] /\ l.toS[1] \in ToServer
  BY Served, Parts DEF ServerPart
<1>2. link' = [link EXCEPT ![s] =
         IF a \in l.joined
           THEN [[l EXCEPT !.toS = Tail(@), !.toC = @ \o <<x>>] EXCEPT !.joined = @ \ {a}]
           ELSE [l EXCEPT !.toS = Tail(@), !.toC = @ \o <<>>]]
  BY <1>1 DEF ServerPart, Taken
<1>3. x \in ToClient /\ x[1] \notin {"nick", "join"}
  <2>1. a \in Titles
    BY <1>1 DEF ToServer
  <2> QED
    BY <2>1, LineTyped
<1> HIDE DEF l, a, n, names, x
<1>4. /\ l.toC \in Seq(ToClient) /\ l.toC \o <<x>> = Append(l.toC, x)
      /\ Append(l.toC, x) \in Seq(ToClient) /\ l.toC \o <<>> = l.toC
  <2>1. l.toC \in Seq(ToClient)
    BY <1>1, LinkTyped
  <2> QED
    BY <1>3, <2>1, Concat
<1>5. k \in Links
  <2>1. [l EXCEPT !.toC = Append(@, x)] \in Links
    BY <1>1, <1>4, LinkTyped
  <2>2. [l EXCEPT !.toC = Append(@, x)].joined = l.joined /\ l.joined \ {a} \in SUBSET Names
    BY <1>1 DEF Links
  <2>3. [[l EXCEPT !.toC = Append(@, x)] EXCEPT !.joined = @ \ {a}] \in Links
    BY <2>1, <2>2, LinkTyped
  <2> QED
    BY <1>1, <2>3
<1>6. /\ k.nick = l.nick /\ k.toS = l.toS /\ k.refused = l.refused /\ k.crossed = l.crossed
      /\ a \in l.joined => k.toC = Append(l.toC, x) /\ k.joined \subseteq l.joined
      /\ a \notin k.joined
  BY <1>1 DEF Links
<1>7. m = IF a \in l.joined
          THEN [[l EXCEPT !.toS = Tail(@), !.toC = @ \o <<x>>] EXCEPT !.joined = @ \ {a}]
          ELSE [l EXCEPT !.toS = Tail(@), !.toC = @ \o <<>>]
  BY <1>1, <1>4 DEF Links
<1>8. LinkOK(k, n, names)
  <2>1. CASE a \notin l.joined
    BY <1>1, <2>1
  <2>2. CASE a \in l.joined
    <3> HIDE DEF k
    <3> QED
      BY <1>1, <1>3, <1>5, <1>6, <2>2, Sends
  <2> QED
    BY <2>1, <2>2
<1> HIDE DEF k
<1>9. m \in Links
  BY <1>1, <1>5, <1>6, LinkTyped
<1>10. /\ m.toS = Tail(k.toS) /\ m.toC = k.toC /\ m.nick = k.nick
       /\ m.joined = k.joined /\ m.refused = k.refused /\ m.crossed = k.crossed
  BY <1>5 DEF Links
<1> HIDE DEF m
<1>11. /\ k.toS[1] = <<"NICK", n>> => k.refused \/ OnTrail(k, n)
       /\ k.toS[1][1] = "PART" => k.toS[1][2] \notin k.joined
       /\ k.toS # <<>>
  BY <1>1, <1>6
<1>12. LinkOK(m, n, names)
  BY ONLY <1>1, <1>5, <1>8, <1>9, <1>10, <1>11, Takes1
<1> QED
  BY <1>1, <1>2, <1>7, <1>9, <1>12, LinkOnly DEF n, names

\* The server sends text.
LEMMA SaysInv ==
  ASSUME Inv, NEW s \in Range(servers), NEW x \in ToClient, x[1] \notin {"nick", "join"}, Says(s, x)
  PROVE  Inv'
<1> DEFINE l == link[s]
           m == [l EXCEPT !.toC = Append(@, x)]
<1>1. srv[s].socket /\ UNCHANGED client
  BY DEF Says, Serving
<1>2. /\ l \in Links /\ srv[s].nick \in Nicks /\ LinkOK(l, srv[s].nick, PartNames(s))
      /\ s \in ServerIds /\ link \in [ServerIds -> Links]
  BY <1>1, Serviced, Parts
<1>3. link' = [link EXCEPT ![s] = m]
  BY <1>2 DEF Says
<1> HIDE DEF l
<1>4. l.toC \in Seq(ToClient) /\ Append(l.toC, x) \in Seq(ToClient)
  BY <1>2, LinkTyped, Concat
<1>5. m \in Links
  BY <1>2, <1>4, LinkTyped
<1>6. /\ m.toC = Append(l.toC, x) /\ m.toS = l.toS /\ m.nick = l.nick
      /\ m.joined = l.joined /\ m.refused = l.refused /\ m.crossed = l.crossed
  BY <1>2 DEF Links
<1> HIDE DEF m
<1>7. LinkOK(m, srv[s].nick, PartNames(s))
  BY ONLY <1>2, <1>5, <1>6, x \in ToClient, x[1] \notin {"nick", "join"}, Sends
<1> QED
  BY <1>1, <1>3, <1>5, <1>7, LinkOnly

\* The server renames the user.
LEMMA ServerRenameInv ==
  ASSUME Inv, NEW s \in Range(servers), ServerRename(s)
  PROVE  Inv'
<1> DEFINE l == link[s]
<1>1. srv[s].socket /\ UNCHANGED client /\ l.nick # None
  BY DEF ServerRename, Serving
<1>2. /\ l \in Links /\ srv[s].nick \in Nicks /\ LinkOK(l, srv[s].nick, PartNames(s))
      /\ s \in ServerIds /\ link \in [ServerIds -> Links]
  BY <1>1, Serviced, Parts
<1>3. PICK a \in Nicks : link' = [link EXCEPT ![s].nick = a,
                                             ![s].toC = Append(@, <<"nick", l.nick, a>>)]
  BY DEF ServerRename
<1> DEFINE x == <<"nick", l.nick, a>>
           k == [l EXCEPT !.toC = Append(@, x)]
           m == [k EXCEPT !.nick = a]
<1>4. link' = [link EXCEPT ![s] = m]
  BY <1>2, <1>3 DEF Links
<1>5. l.nick \in Nicks /\ x \in ToClient /\ x[1] = "nick" /\ x[2] = l.nick /\ x[3] = a
  BY <1>1, <1>2, LinkTyped, LineTyped
<1> HIDE DEF l, x
<1>6. l.toC \in Seq(ToClient) /\ Append(l.toC, x) \in Seq(ToClient)
  BY <1>2, <1>5, LinkTyped, Concat
<1>7. m \in Links
  <2>1. k \in Links
    BY <1>2, <1>6, LinkTyped
  <2> QED
    BY <2>1, LinkTyped
<1>8. /\ m.toC = Append(l.toC, x) /\ m.toS = l.toS /\ m.nick = a
      /\ m.joined = l.joined /\ m.refused = l.refused /\ m.crossed = l.crossed
  BY <1>2 DEF Links
<1> HIDE DEF m
<1>9. LinkOK(m, srv[s].nick, PartNames(s))
  BY ONLY <1>2, <1>5, <1>7, <1>8, a \in Nicks, Sends
<1> QED
  BY <1>1, <1>4, <1>7, <1>9, LinkOnly

-----------------------------------------------------------------------------
(* The user's steps *)

\* The key for a new server.
LEMMA ServerCreateInv ==
  ASSUME Inv, ServerCreate
  PROVE  Inv'
<1> DEFINE s == Lowest(FreeServers)
<1>0. /\ ServerIds \subseteq Nat /\ servers \in Seq(ServerIds) /\ servers # <<>>
      /\ IsInjective(servers) /\ srv \in [ServerIds -> ServerTypes]
      /\ changed \in SUBSET Ids /\ unread \in SUBSET Ids /\ changed = unread
      /\ win \in [WindowIds -> [name : Titles, part : BOOLEAN]]
      /\ \A t \in ServerIds : IsInjective(srv[t].channels)
      /\ \A t \in Range(servers) : t \in ServerIds
  BY Parts, Constants DEF ClientOK, Marks, ServerCreate
<1>1. s \in ServerIds /\ s \notin Range(servers)
  <2>1. FreeServers \in SUBSET Nat /\ FreeServers # {}
    BY <1>0 DEF FreeServers, ServerCreate
  <2>2. s \in FreeServers
    BY <2>1, Least
  <2> QED
    BY <2>2 DEF FreeServers
<1>2. /\ pc = "run" /\ servers' = Append(servers, s) /\ srv' = [srv EXCEPT ![s] = NewServer]
      /\ FocusFrom(s, None, changed \ {s}, unread \ {s}) /\ pc' = pc /\ win' = win /\ link' = link
  BY DEF ServerCreate
<1> HIDE DEF s
<1>3. /\ servers' \in Seq(ServerIds) /\ servers' # <<>> /\ IsInjective(servers')
      /\ Range(servers') = Range(servers) \union {s}
  <2>1. /\ Append(servers, s) \in Seq(ServerIds) /\ Len(servers) \in Nat
        /\ Len(Append(servers, s)) = Len(servers) + 1
        /\ Append(servers, s)[Len(servers) + 1] = s
        /\ \A i \in 1 .. Len(servers) : Append(servers, s)[i] = servers[i]
    BY <1>0, <1>1
  <2>2. DOMAIN Append(servers, s) = 1 .. Len(servers) + 1 /\ DOMAIN servers = 1 .. Len(servers)
    BY <1>0, <2>1
  <2>3. \A i \in 1 .. Len(servers) : servers[i] # s
    BY <1>1, <2>2 DEF Range
  <2>4. IsInjective(Append(servers, s))
    BY <1>0, <2>1, <2>2, <2>3 DEF IsInjective
  <2>5. Range(Append(servers, s)) = Range(servers) \union {s}
    BY <2>1, <2>2 DEF Range
  <2>6. Append(servers, s) # <<>>
    BY <2>1
  <2> QED
    BY <1>2, <2>1, <2>4, <2>5, <2>6
<1>4. /\ NewServer \in ServerTypes /\ NewServer.channels = <<>> /\ ~NewServer.socket
  <2>1. <<>> \in Seq(WindowIds)
    OBVIOUS
  <2> QED
    BY <2>1, Constants DEF NewServer, ServerTypes
<1>5. /\ changed' \in SUBSET Ids /\ unread' \in SUBSET Ids
      /\ changed' = unread' /\ Shown(scur', ccur') \notin changed'
      /\ scur' = s /\ ccur' = None
  <2>1. changed \ {s} \in SUBSET Ids /\ unread \ {s} \in SUBSET Ids /\ changed \ {s} = unread \ {s}
    BY <1>0
  <2> QED
    BY <1>1, <1>2, <2>1, Focused
<1>6. /\ srv' \in [ServerIds -> ServerTypes] /\ srv'[s] = NewServer
      /\ \A t \in ServerIds \ {s} : srv'[t] = srv[t]
  BY <1>0, <1>1, <1>2, <1>4
<1>7. ClientOK'
  <2>1. \A t \in ServerIds : IsInjective(srv'[t].channels)
    <3>1. IsInjective(<<>>)
      BY DEF IsInjective
    <3> QED
      BY <1>0, <1>4, <1>6, <3>1
  <2> QED
    BY <1>0, <1>2, <1>3, <1>5, <1>6, <2>1, Parts DEF ClientOK
<1>8. Marks'
  BY <1>5 DEF Marks
<1>9. /\ Apart' /\ Firsts'
      /\ \A t \in Range(servers') : srv'[t].channels # <<>> => PartNames(t)' = PartNames(t)
  BY <1>0, <1>1, <1>2, <1>3, <1>4, <1>6, Parts, WindowsKept
<1>10. ASSUME NEW t \in Range(servers'), srv'[t].socket
       PROVE  /\ t \in Range(servers) /\ srv[t].socket /\ srv'[t].nick = srv[t].nick
              /\ link'[t] = link[t] /\ PartNames(t) \subseteq PartNames(t)'
  <2>1. t # s
    BY <1>4, <1>6, <1>10
  <2>2. t \in Range(servers) /\ srv'[t] = srv[t] /\ win' = win
    BY <1>0, <1>2, <1>3, <1>6, <2>1
  <2> QED
    BY <1>2, <1>10, <2>2 DEF PartNames
<1>11. Lines'
  BY <1>10, Parts, LinesKept
<1> QED
  BY <1>2, <1>7, <1>8, <1>9, <1>11, Parts, Whole DEF Client

\* Connections that were just reset, or made.
LEMMA LinkNoLink ==
  NoLink \in Links /\ \A n \in Nicks : [NoLink EXCEPT !.toS = <<<<"NICK", n>>>>] \in Links
<1>1. <<>> \in Seq(ToServer) /\ <<>> \in Seq(ToClient)
  OBVIOUS
<1>2. \A n \in Nicks : <<<<"NICK", n>>>> \in Seq(ToServer)
  BY DEF ToServer, Titles
<1> QED
  BY <1>1, <1>2 DEF NoLink, Links

\* The program ends.
LEMMA LeaveInv ==
  ASSUME Inv, Leave, UNCHANGED <<servers, win, scur, ccur, changed, unread>>
  PROVE  Inv'
<1>0. /\ srv \in [ServerIds -> ServerTypes] /\ \A s \in Range(servers) : s \in ServerIds
  BY Parts DEF ClientOK
<1>1. /\ srv' \in [ServerIds -> ServerTypes]
      /\ \A s \in ServerIds : srv'[s].channels = srv[s].channels /\ ~srv'[s].socket
  BY <1>0 DEF Leave, ServerTypes
<1>2. link' \in [ServerIds -> Links]
  BY LinkNoLink DEF Leave
<1>3. ClientOK'
  BY <1>1, Parts DEF ClientOK, Leave
<1>4. Marks'
  BY DEF Marks, Leave
<1>5. Apart' /\ Firsts'
  BY <1>0, <1>1, Parts, WindowsKept
<1>6. Lines'
  BY <1>0, <1>1, Parts, LinesKept
<1> QED
  BY <1>2, <1>3, <1>4, <1>5, <1>6, Whole DEF Client

\* Closing a window that is not the server's.
LEMMA CloseForeignChannelInv ==
  ASSUME Inv, CloseForeignChannel
  PROVE  Inv'
<1>1. UNCHANGED <<servers, srv, win, scur, ccur, changed, unread, link>> /\ pc' = "undefined"
  BY DEF CloseForeignChannel
<1>2. ClientOK' /\ Marks'
  BY <1>1, Parts DEF ClientOK, Marks
<1>3. Apart' /\ Firsts'
  BY <1>1, Parts, WindowsKept
<1>4. \A t \in Range(servers) : PartNames(t)' = PartNames(t)
  BY <1>1 DEF PartNames
<1>5. Lines'
  BY <1>1, <1>4, Parts, LinesKept
<1> QED
  BY <1>1, <1>2, <1>3, <1>5, Parts, Whole DEF Client

\* Closing a window: the channel it had is left by a PART line.
LEMMA CloseChannelInv ==
  ASSUME Inv, CloseChannel
  PROVE  Inv'
<1> DEFINE cs == srv[scur].channels
           w == ccur
           i == PlaceOf(cs, w)
           c == IF i > 1 THEN cs[i - 1] ELSE None
           l == link[scur]
           line == <<"PART", win[w].name>>
<1>0. /\ scur \in Range(servers) /\ scur \in ServerIds /\ cs \in Seq(WindowIds) /\ IsInjective(cs)
      /\ srv \in [ServerIds -> ServerTypes] /\ link \in [ServerIds -> Links]
      /\ win \in [WindowIds -> [name : Titles, part : BOOLEAN]]
      /\ changed \in SUBSET Ids /\ unread \in SUBSET Ids
      /\ \A t \in Range(servers) : t \in ServerIds
      /\ \A t \in ServerIds : IsInjective(srv[t].channels)
  BY Parts, Listed DEF ClientOK
<1>1. /\ pc = "run" /\ w \in Range(cs)
      /\ srv' = [srv EXCEPT ![scur].channels = Without(@, w)]
      /\ FocusFrom(scur, c, changed \ {w}, unread \ {w})
      /\ link' = IF win[w].part THEN Sent(scur, <<line>>) ELSE link
      /\ win' = [win EXCEPT ![w] = NoWindow] /\ servers' = servers /\ pc' = pc
  BY DEF CloseChannel, Owned
<1>2. changed = unread /\ w \in WindowIds
  BY <1>0, <1>1, Parts DEF Marks, Range
<1>3. c \in WindowIds \union {None}
  <2>1. i \in 1 .. Len(cs)
    BY <1>0, <1>1, Place
  <2> HIDE DEF i, cs
  <2> QED
    BY <1>0, <2>1
<1>4. /\ changed' \in SUBSET Ids /\ unread' \in SUBSET Ids
      /\ changed' = unread' /\ Shown(scur', ccur') \notin changed'
      /\ scur' = scur /\ ccur' = c
  <2>1. changed \ {w} \in SUBSET Ids /\ unread \ {w} \in SUBSET Ids /\ changed \ {w} = unread \ {w}
    BY <1>0, <1>2
  <2> HIDE DEF c, w
  <2> QED
    BY <1>0, <1>1, <1>3, <2>1, Focused
<1>5. /\ srv' \in [ServerIds -> ServerTypes]
      /\ \A t \in ServerIds : IsInjective(srv'[t].channels)
      /\ \A t \in ServerIds : srv'[t].nick = srv[t].nick /\ srv'[t].socket = srv[t].socket
  <2>1. Without(cs, w) \in Seq(WindowIds) /\ IsInjective(Without(cs, w))
    <3> HIDE DEF cs, w
    <3> QED
      BY <1>0, <1>1, Removed
  <2> QED
    BY <1>0, <1>1, <2>1 DEF ServerTypes
<1>6. win' \in [WindowIds -> [name : Titles, part : BOOLEAN]]
  <2>1. NoWindow \in [name : Titles, part : BOOLEAN]
    BY Constants DEF NoWindow
  <2> QED
    BY <1>0, <1>1, <2>1
<1>7. ClientOK'
  BY <1>1, <1>3, <1>4, <1>5, <1>6, Parts DEF ClientOK
<1>8. Marks'
  BY <1>4 DEF Marks
<1>13. PICK s \in Range(servers) : s = scur
  BY <1>0
<1>9. /\ Apart' /\ Firsts'
      /\ \A t \in Range(servers) : \A y \in PartNames(t) :
           y \in PartNames(t)' \/ (t = s /\ win[w].part /\ y = win[w].name)
  <2> HIDE DEF w
  <2> QED
    BY <1>0, <1>1, <1>13, Parts, WindowClosed
<1>10. ASSUME NEW t \in Range(servers), srv'[t].socket, t # s
       PROVE  /\ srv[t].socket /\ srv'[t].nick = srv[t].nick
              /\ link'[t] = link[t] /\ PartNames(t) \subseteq PartNames(t)'
  BY <1>0, <1>13, <1>1, <1>5, <1>9, <1>10 DEF Sent
<1>11. /\ link' \in [ServerIds -> Links]
       /\ srv'[s].socket => LinkOK(link'[s], srv'[s].nick, PartNames(s)')
  <2>1. CASE ~win[w].part
    <3>1. PartNames(s) \subseteq PartNames(s)'
      BY <1>0, <1>13, <1>9, <2>1
    <3>2. link' = link
      BY <1>1, <2>1
    <3>3. srv'[s].socket => LinkOK(link[s], srv[s].nick, PartNames(s))
      BY <1>0, <1>13, <1>5, Parts DEF Lines
    <3>4. LinkOK(link[s], srv[s].nick, PartNames(s)) =>
            LinkOK(link[s], srv[s].nick, PartNames(s)')
      BY ONLY <3>1, Widened
    <3> QED
      BY <1>0, <1>13, <1>5, <3>2, <3>3, <3>4
  <2>2. CASE win[w].part /\ ~srv[s].socket
    BY <1>0, <1>13, <1>1, <1>5, <2>2 DEF Sent
  <2>3. CASE win[w].part /\ srv[s].socket
    <3> DEFINE m == [l EXCEPT !.toS = Append(@, line)]
               n == srv[s].nick
               names == PartNames(s)
               names2 == PartNames(s)'
    <3>1. line \in ToServer /\ line[1] = "PART"
      <4>1. win[w].name \in Titles
        BY <1>0, <1>13, <1>2
      <4> QED
        BY <4>1, LineTyped
    <3>2. l \in Links /\ n \in Nicks /\ LinkOK(l, n, names)
      BY <1>0, <1>13, <2>3, Serviced
    <3>3. l.toS \in Seq(ToServer) /\ Append(l.toS, line) \in Seq(ToServer)
          /\ l.toS \o <<line>> = Append(l.toS, line)
      <4> HIDE DEF l, line
      <4>1. l.toS \in Seq(ToServer)
        BY <3>2, LinkTyped
      <4> QED
        BY <3>1, <4>1, Concat
    <3>4. link' = [link EXCEPT ![s] = m]
      BY <1>0, <1>13, <1>1, <2>3, <3>3 DEF Sent
    <3>5. \A y \in names : y \in names2 \/ line = <<"PART", y>>
      BY <1>0, <1>13, <1>9
    <3> HIDE DEF l, line, n, names, names2
    <3>6. m \in Links
      BY <3>2, <3>3, LinkTyped
    <3>7. /\ m.toS = Append(l.toS, line) /\ m.toC = l.toC /\ m.nick = l.nick
          /\ m.joined = l.joined /\ m.refused = l.refused /\ m.crossed = l.crossed
      BY <3>2 DEF Links
    <3> HIDE DEF m
    <3>8. LinkOK(m, n, names2)
      BY ONLY <3>1, <3>2, <3>5, <3>6, <3>7, Asks
    <3> QED
      BY <1>0, <1>13, <1>5, <3>4, <3>6, <3>8 DEF n, names2, l
  <2> QED
    BY <2>1, <2>2, <2>3
<1>12. Lines'
  <2>1. \A t \in Range(servers') : srv'[t].socket =>
          \/ /\ t \in Range(servers) /\ srv[t].socket /\ srv'[t].nick = srv[t].nick
             /\ link'[t] = link[t] /\ PartNames(t) \subseteq PartNames(t)'
          \/ LinkOK(link'[t], srv'[t].nick, PartNames(t)')
    BY <1>1, <1>10, <1>11
  <2> QED
    BY <2>1, Parts, LinesKept
<1> QED
  BY <1>7, <1>8, <1>9, <1>11, <1>12, Whole DEF Client

\* A server whose place is taken by a new one, or given up.
LEMMA Renewed ==
  ASSUME Inv, NEW s \in Range(servers), srv' = [srv EXCEPT ![s] = NewServer],
         link' = [link EXCEPT ![s] = NoLink], Range(servers') \subseteq Range(servers),
         \A t \in Range(servers') \ {s} : \A w \in Range(srv[t].channels) : win'[w] = win[w]
  PROVE  /\ srv' \in [ServerIds -> ServerTypes] /\ link' \in [ServerIds -> Links]
         /\ \A t \in ServerIds : IsInjective(srv'[t].channels)
         /\ \A t \in ServerIds \ {s} : srv'[t] = srv[t]
         /\ Apart' /\ Firsts' /\ Lines'
<1>0. /\ srv \in [ServerIds -> ServerTypes] /\ link \in [ServerIds -> Links]
      /\ s \in ServerIds /\ \A t \in Range(servers) : t \in ServerIds
      /\ \A t \in ServerIds : IsInjective(srv[t].channels)
  BY Parts DEF ClientOK
<1>1. /\ NewServer \in ServerTypes /\ NewServer.channels = <<>> /\ ~NewServer.socket
  <2>1. <<>> \in Seq(WindowIds)
    OBVIOUS
  <2> QED
    BY <2>1, Constants DEF NewServer, ServerTypes
<1>2. /\ srv' \in [ServerIds -> ServerTypes] /\ link' \in [ServerIds -> Links]
      /\ srv'[s] = NewServer /\ \A t \in ServerIds \ {s} : srv'[t] = srv[t] /\ link'[t] = link[t]
  BY <1>0, <1>1, LinkNoLink
<1>3. \A t \in ServerIds : IsInjective(srv'[t].channels)
  <2>1. IsInjective(<<>>)
    BY DEF IsInjective
  <2> QED
    BY <1>0, <1>1, <1>2, <2>1
<1>4. /\ Apart' /\ Firsts'
      /\ \A t \in Range(servers') : srv'[t].channels # <<>> => PartNames(t)' = PartNames(t)
  <2>1. \A t \in Range(servers') :
          \/ srv'[t].channels = <<>>
          \/ /\ t \in Range(servers) /\ srv'[t].channels = srv[t].channels
             /\ \A w \in Range(srv[t].channels) : win'[w] = win[w]
    BY <1>0, <1>1, <1>2
  <2> QED
    BY <2>1, Parts, WindowsKept
<1>5. ASSUME NEW t \in Range(servers'), srv'[t].socket
      PROVE  /\ t \in Range(servers) /\ srv[t].socket /\ srv'[t].nick = srv[t].nick
             /\ link'[t] = link[t] /\ PartNames(t) \subseteq PartNames(t)'
  <2>1. t # s /\ t \in Range(servers) /\ t \in ServerIds
    BY <1>0, <1>1, <1>2, <1>5
  <2>2. srv'[t] = srv[t] /\ link'[t] = link[t] /\ \A w \in Range(srv[t].channels) : win'[w] = win[w]
    BY <1>2, <2>1
  <2>3. PartNames(t) \subseteq PartNames(t)'
    BY <2>2 DEF PartNames
  <2> QED
    BY <1>5, <2>1, <2>2, <2>3
<1>6. Lines'
  BY <1>5, Parts, LinesKept
<1> QED
  BY <1>2, <1>3, <1>4, <1>6

\* Closing the only server.
LEMMA CloseLastServerInv ==
  ASSUME Inv, CloseLastServer
  PROVE  Inv'
<1>1. /\ srv' = [srv EXCEPT ![scur] = NewServer] /\ link' = [link EXCEPT ![scur] = NoLink]
      /\ changed' = {} /\ unread' = {} /\ win' = [w \in WindowIds |-> NoWindow]
      /\ pc' = pc /\ servers' = servers /\ scur' = scur /\ ccur' = ccur /\ Len(servers) = 1
  BY DEF CloseLastServer
<1>2. Range(servers) = {scur}
  <2>1. servers \in Seq(ServerIds) /\ scur \in Range(servers)
    BY Parts DEF ClientOK
  <2>2. DOMAIN servers = {1}
    BY <1>1, <2>1
  <2> QED
    BY <2>1, <2>2 DEF Range
<1>3. /\ srv' \in [ServerIds -> ServerTypes] /\ link' \in [ServerIds -> Links]
      /\ \A t \in ServerIds : IsInjective(srv'[t].channels)
      /\ Apart' /\ Firsts' /\ Lines'
  BY <1>1, <1>2, Renewed
<1>4. win' \in [WindowIds -> [name : Titles, part : BOOLEAN]]
  <2>1. NoWindow \in [name : Titles, part : BOOLEAN]
    BY Constants DEF NoWindow
  <2> QED
    BY <1>1, <2>1
<1>5. ClientOK' /\ Marks'
  BY <1>1, <1>3, <1>4, Parts DEF ClientOK, Marks
<1> QED
  BY <1>3, <1>5, Whole DEF Client

\* Closing one of several servers.
LEMMA CloseServerInv ==
  ASSUME Inv, CloseServer
  PROVE  Inv'
<1> DEFINE j == PlaceOf(servers, scur)
           rest == Without(servers, scur)
           k == IF j > 1 THEN j - 1 ELSE 1
           s == rest[k]
           gone == {scur} \union Range(srv[scur].channels)
           c == LastOf(srv[s].channels)
<1>0. /\ servers \in Seq(ServerIds) /\ scur \in Range(servers) /\ IsInjective(servers)
      /\ changed \in SUBSET Ids /\ unread \in SUBSET Ids
      /\ win \in [WindowIds -> [name : Titles, part : BOOLEAN]]
      /\ \A t \in Range(servers) : Range(srv[t].channels) \subseteq WindowIds
  BY Parts, Listed DEF ClientOK
<1>1. /\ pc = "run" /\ Len(servers) > 1 /\ servers' = rest
      /\ srv' = [srv EXCEPT ![scur] = NewServer] /\ link' = [link EXCEPT ![scur] = NoLink]
      /\ FocusFrom(s, c, changed \ gone, unread \ gone)
      /\ win' = [w \in WindowIds |-> IF w \in gone THEN NoWindow ELSE win[w]]
      /\ pc' = pc
  BY DEF CloseServer
<1>2. /\ rest \in Seq(ServerIds) /\ Len(rest) = Len(servers) - 1
      /\ Range(rest) = Range(servers) \ {scur} /\ IsInjective(rest)
  BY <1>0, Removed
<1>3. j \in 1 .. Len(servers)
  BY <1>0, Place
<1> HIDE DEF j, rest
<1>4. k \in 1 .. Len(rest) /\ rest # <<>>
  BY <1>0, <1>1, <1>2, <1>3
<1>5. s \in Range(rest) /\ s \in ServerIds /\ s \in Range(servers)
  <2>1. k \in DOMAIN rest
    BY <1>2, <1>4
  <2> HIDE DEF k
  <2>2. s \in Range(rest)
    BY <2>1 DEF Range
  <2> QED
    BY <1>2, <2>2, Parts
<1> HIDE DEF s
<1>6. c \in WindowIds \union {None}
  <2>1. srv[s].channels \in Seq(WindowIds)
    BY <1>5, Parts, Listed
  <2> QED
    BY <2>1 DEF LastOf
<1>7. /\ changed' \in SUBSET Ids /\ unread' \in SUBSET Ids
      /\ changed' = unread' /\ Shown(scur', ccur') \notin changed'
      /\ scur' = s /\ ccur' = c
  <2>1. changed = unread
    BY <1>1, Parts DEF Marks
  <2>2. /\ changed \ gone \in SUBSET Ids /\ unread \ gone \in SUBSET Ids
        /\ changed \ gone = unread \ gone
    BY <1>0, <2>1
  <2> HIDE DEF c, gone
  <2> QED
    BY <1>1, <1>5, <1>6, <2>2, Focused
<1>8. \A t \in Range(servers') \ {scur} : \A w \in Range(srv[t].channels) : win'[w] = win[w]
  <2> SUFFICES ASSUME NEW t \in Range(servers), t # scur, NEW w \in Range(srv[t].channels)
               PROVE  w \in WindowIds /\ w \notin gone
    BY <1>1, <1>2
  <2>1. w \in WindowIds
    BY <1>0
  <2>2. w # scur
    BY <2>1, Parts, Constants
  <2>3. w \notin Range(srv[scur].channels)
    BY <1>0, Parts DEF Apart
  <2> QED
    BY <2>1, <2>2, <2>3
<1>9. /\ srv' \in [ServerIds -> ServerTypes] /\ link' \in [ServerIds -> Links]
      /\ \A t \in ServerIds : IsInjective(srv'[t].channels)
      /\ Apart' /\ Firsts' /\ Lines'
  BY <1>0, <1>1, <1>2, <1>8, Renewed
<1>10. win' \in [WindowIds -> [name : Titles, part : BOOLEAN]]
  <2>1. NoWindow \in [name : Titles, part : BOOLEAN]
    BY Constants DEF NoWindow
  <2> QED
    BY <1>0, <1>1, <2>1
<1>11. ClientOK'
  <2>1. /\ servers' \in Seq(ServerIds) /\ servers' # <<>> /\ IsInjective(servers')
        /\ scur' \in Range(servers')
    BY <1>1, <1>2, <1>4, <1>5, <1>7
  <2> QED
    BY <1>1, <1>6, <1>7, <1>9, <1>10, <2>1, Parts DEF ClientOK
<1>12. Marks'
  BY <1>7 DEF Marks
<1> QED
  BY <1>9, <1>11, <1>12, Whole DEF Client

-----------------------------------------------------------------------------
(* Connections made, broken and used by the client *)

\* One server's nick and connection change, no windows.
LEMMA OneLink ==
  ASSUME Inv, NEW s \in Range(servers), NEW l \in Links, servers' = servers, win' = win,
         srv' \in [ServerIds -> ServerTypes], srv'[s].channels = srv[s].channels,
         \A t \in ServerIds \ {s} : srv'[t] = srv[t], link' = [link EXCEPT ![s] = l],
         srv'[s].socket => LinkOK(l, srv'[s].nick, PartNames(s))
  PROVE  /\ link' \in [ServerIds -> Links] /\ Apart' /\ Firsts' /\ Lines'
         /\ \A t \in ServerIds : IsInjective(srv'[t].channels)
<1>0. /\ srv \in [ServerIds -> ServerTypes] /\ link \in [ServerIds -> Links]
      /\ s \in ServerIds /\ \A t \in Range(servers) : t \in ServerIds
      /\ \A t \in ServerIds : IsInjective(srv[t].channels)
  BY Parts DEF ClientOK
<1>1. \A t \in ServerIds : srv'[t].channels = srv[t].channels
  BY <1>0
<1>2. /\ link' \in [ServerIds -> Links] /\ link'[s] = l
      /\ \A t \in ServerIds \ {s} : link'[t] = link[t]
  BY <1>0
<1>3. Apart' /\ Firsts'
  BY <1>0, <1>1, Parts, WindowsKept
<1>4. \A t \in Range(servers) : PartNames(t)' = PartNames(t)
  BY <1>0, <1>1 DEF PartNames
<1>5. \A t \in Range(servers') : srv'[t].socket =>
        \/ /\ t \in Range(servers) /\ srv[t].socket /\ srv'[t].nick = srv[t].nick
           /\ link'[t] = link[t] /\ PartNames(t) \subseteq PartNames(t)'
        \/ LinkOK(link'[t], srv'[t].nick, PartNames(t)')
  BY <1>0, <1>2, <1>4
<1>6. Lines'
  BY <1>5, Parts, LinesKept
<1>7. \A t \in ServerIds : IsInjective(srv'[t].channels)
  BY <1>0, <1>1
<1> QED
  BY <1>2, <1>3, <1>6, <1>7

\* An update of a nick.
LEMMA NickSet ==
  ASSUME NEW f \in [ServerIds -> ServerTypes], NEW s \in ServerIds, NEW n \in Nicks,
         NEW g, g = [f EXCEPT ![s].nick = n]
  PROVE  /\ g \in [ServerIds -> ServerTypes] /\ \A t \in ServerIds \ {s} : g[t] = f[t]
         /\ g[s].socket = f[s].socket /\ g[s].nick = n /\ g[s].channels = f[s].channels
  BY DEF ServerTypes

\* server_connect that succeeds.
LEMMA ConnectInv ==
  ASSUME Inv, Connect
  PROVE  Inv'
<1> DEFINE l == [NoLink EXCEPT !.toS = <<<<"NICK", srv[scur].nick>>>>]
<1>0. /\ scur \in Range(servers) /\ scur \in ServerIds /\ srv \in [ServerIds -> ServerTypes]
      /\ srv[scur].nick \in Nicks
  BY Parts, Listed DEF ClientOK
<1>1. l \in Links /\ LinkOK(l, srv[scur].nick, PartNames(scur))
  BY <1>0, LinkNoLink, Fresh
<1>2. /\ srv' = [srv EXCEPT ![scur].socket = TRUE] /\ link' = [link EXCEPT ![scur] = l]
      /\ UNCHANGED <<pc, servers, win, scur, ccur, changed, unread>>
  BY DEF Connect
<1> HIDE DEF l
<1>3. /\ srv' \in [ServerIds -> ServerTypes] /\ \A t \in ServerIds \ {scur} : srv'[t] = srv[t]
      /\ srv'[scur].nick = srv[scur].nick /\ srv'[scur].channels = srv[scur].channels
  BY <1>0, <1>2 DEF ServerTypes
<1>4. /\ link' \in [ServerIds -> Links] /\ Apart' /\ Firsts' /\ Lines'
      /\ \A t \in ServerIds : IsInjective(srv'[t].channels)
  BY <1>0, <1>1, <1>2, <1>3, OneLink
<1>5. ClientOK' /\ Marks'
  BY <1>2, <1>3, <1>4, Parts DEF ClientOK, Marks
<1> QED
  BY <1>4, <1>5, Whole DEF Client

\* The connection of s is no more, and text may be shown for it.
LEMMA Broken ==
  ASSUME Inv, NEW s \in Range(servers), pc = "run",
         srv' = [srv EXCEPT ![s].socket = FALSE], link' = [link EXCEPT ![s] = NoLink],
         UNCHANGED <<pc, servers, win>>,
         \/ UNCHANGED <<scur, ccur, changed, unread>>
         \/ \E cs \in SUBSET (WindowIds \union {None}) : PrintAll(s, cs)
  PROVE  Inv'
<1>0. s \in ServerIds /\ srv \in [ServerIds -> ServerTypes] /\ NoLink \in Links
  BY Parts, LinkNoLink DEF ClientOK
<1>1. /\ srv' \in [ServerIds -> ServerTypes] /\ \A t \in ServerIds \ {s} : srv'[t] = srv[t]
      /\ ~srv'[s].socket /\ srv'[s].channels = srv[s].channels
  BY <1>0 DEF ServerTypes
<1>2. /\ link' \in [ServerIds -> Links] /\ Apart' /\ Firsts' /\ Lines'
      /\ \A t \in ServerIds : IsInjective(srv'[t].channels)
  BY <1>0, <1>1, OneLink
<1>3. /\ changed' \in SUBSET Ids /\ unread' \in SUBSET Ids
      /\ changed' = unread' /\ Shown(scur', ccur') \notin changed'
      /\ scur' = scur /\ ccur' = ccur
  <2>1. CASE UNCHANGED <<scur, ccur, changed, unread>>
    BY <2>1, Parts DEF ClientOK, Marks
  <2>2. CASE \E cs \in SUBSET (WindowIds \union {None}) : PrintAll(s, cs)
    BY <1>0, <2>2, Parts, Printed
  <2> QED
    BY <2>1, <2>2
<1>4. ClientOK' /\ Marks'
  BY <1>1, <1>2, <1>3, Parts DEF ClientOK, Marks
<1> QED
  BY <1>2, <1>4, Whole DEF Client

\* server_connect that fails.
LEMMA ConnectFailsInv ==
  ASSUME Inv, ConnectFails
  PROVE  Inv'
<1>1. {None} \in SUBSET (WindowIds \union {None}) /\ scur \in Range(servers)
  BY Parts
<1> QED
  BY <1>1, Broken DEF ConnectFails, ScreenPrint

\* /disconnect.
LEMMA DisconnectInv ==
  ASSUME Inv, Disconnect
  PROVE  Inv'
  BY Parts, Broken DEF Disconnect

\* The end of a connection.
LEMMA HandleEOFInv ==
  ASSUME Inv, NEW s \in Range(servers), HandleEOF(s)
  PROVE  Inv'
<1>1. {None} \union Range(srv[s].channels) \in SUBSET (WindowIds \union {None})
  BY Parts, Listed
<1> QED
  BY <1>1, Broken DEF HandleEOF

\* /nick.
LEMMA ChangeNickInv ==
  ASSUME Inv, NEW n \in Nicks, ChangeNick(n)
  PROVE  Inv'
<1> DEFINE s == scur
           l == link[s]
           o == srv[s].nick
           line == <<"NICK", n>>
           names == PartNames(s)
           b == l.crossed \/ (n # o /\ JoinUnderWay(s))
           k == IF srv[s].socket THEN [l EXCEPT !.toS = Append(@, line)] ELSE l
           m == [k EXCEPT !.crossed = b]
<1>0. /\ s \in Range(servers) /\ s \in ServerIds /\ srv \in [ServerIds -> ServerTypes]
      /\ link \in [ServerIds -> Links] /\ l \in Links /\ o \in Nicks
  BY Parts, Listed DEF ClientOK
<1>1. /\ srv' = [srv EXCEPT ![s].nick = n]
      /\ link' = [Sent(s, <<line>>) EXCEPT ![s].crossed = @ \/ (n # o /\ JoinUnderWay(s))]
      /\ UNCHANGED <<pc, servers, win, scur, ccur, changed, unread>>
  BY DEF ChangeNick
<1>2. /\ srv' \in [ServerIds -> ServerTypes] /\ \A t \in ServerIds \ {s} : srv'[t] = srv[t]
      /\ srv'[s].nick = n /\ srv'[s].channels = srv[s].channels
      /\ srv'[s].socket = srv[s].socket
  BY <1>0, <1>1, NickSet
<1>3. JoinUnderWay(s) <=>
        \/ \E i \in 1 .. Len(l.toS) : l.toS[i][1] = "JOIN"
        \/ \E i \in 1 .. Len(l.toC) : l.toC[i][1] = "join"
  <2>1. DOMAIN l.toS = 1 .. Len(l.toS) /\ DOMAIN l.toC = 1 .. Len(l.toC)
    BY <1>0 DEF Links
  <2> QED
    BY <2>1 DEF JoinUnderWay
<1>4. line \in ToServer /\ l.toS \in Seq(ToServer) /\ Append(l.toS, line) \in Seq(ToServer)
      /\ l.toS \o <<line>> = Append(l.toS, line)
  <2> HIDE DEF l, line
  <2>1. l.toS \in Seq(ToServer)
    BY <1>0, LinkTyped
  <2>2. line \in ToServer
    BY LineTyped DEF line
  <2> QED
    BY <2>1, <2>2, Concat
<1>5. link' = [link EXCEPT ![s] = m]
  <2>1. CASE srv[s].socket
    <3>1. Sent(s, <<line>>) = [link EXCEPT ![s] = k]
      BY <1>0, <1>4, <2>1 DEF Sent
    <3>2. Sent(s, <<line>>)[s].crossed = l.crossed
      BY <1>0, <2>1, <3>1 DEF Links
    <3> HIDE DEF k, l, b
    <3> QED
      BY <1>0, <1>1, <3>1, <3>2 DEF b
  <2>2. CASE ~srv[s].socket
    <3>1. Sent(s, <<line>>) = link /\ k = l
      BY <2>2 DEF Sent
    <3> QED
      BY <1>0, <1>1, <3>1
  <2> QED
    BY <2>1, <2>2
<1>6. b \in BOOLEAN
  BY <1>0, <1>3 DEF Links
<1> HIDE DEF l, b, line
<1>7. k \in Links
  BY <1>0, <1>4, LinkTyped
<1> HIDE DEF k
<1>8. m \in Links
  BY <1>6, <1>7, LinkTyped
<1>9. srv[s].socket => LinkOK(m, n, names)
  <2> SUFFICES ASSUME srv[s].socket
               PROVE  LinkOK(m, n, names)
    OBVIOUS
  <2>1. /\ m.toS = Append(l.toS, line) /\ m.toC = l.toC /\ m.nick = l.nick
        /\ m.joined = l.joined /\ m.refused = l.refused /\ m.crossed = b
    BY <1>0, <1>6 DEF Links, k
  <2>2. LinkOK(l, o, names)
    BY <1>0, Serviced DEF l
  <2>3. /\ m.crossed \/ n = o
             \/ ~(\/ \E i \in 1 .. Len(l.toS) : l.toS[i][1] = "JOIN"
                  \/ \E i \in 1 .. Len(l.toC) : l.toC[i][1] = "join")
        /\ l.crossed => m.crossed
    BY <1>3, <2>1 DEF b
  <2>4. m.toS = Append(l.toS, <<"NICK", n>>)
    BY <2>1 DEF line
  <2> HIDE DEF m, names, o
  <2> QED
    BY ONLY <1>0, <1>8, <2>1, <2>2, <2>3, <2>4, n \in Nicks, AsksNick
<1>12. srv'[s].socket => LinkOK(m, srv'[s].nick, PartNames(s))
  BY <1>2, <1>9
<1>13. PICK r \in Range(servers) : r = s
  BY <1>0
<1>14. /\ servers' = servers /\ win' = win /\ srv'[r].channels = srv[r].channels
       /\ \A t \in ServerIds \ {r} : srv'[t] = srv[t]
       /\ link' = [link EXCEPT ![r] = m] /\ srv' \in [ServerIds -> ServerTypes]
       /\ srv'[r].socket => LinkOK(m, srv'[r].nick, PartNames(r))
  BY <1>1, <1>2, <1>5, <1>12, <1>13
<1> HIDE DEF m
<1>10. /\ link' \in [ServerIds -> Links] /\ Apart' /\ Firsts' /\ Lines'
       /\ \A t \in ServerIds : IsInjective(srv'[t].channels)
  BY <1>8, <1>13, <1>14, OneLink
<1>11. ClientOK' /\ Marks'
  BY <1>1, <1>2, <1>10, Parts DEF ClientOK, Marks
<1> QED
  BY <1>10, <1>11, Whole DEF Client

-----------------------------------------------------------------------------
(* Windows opened, and lines heard *)

\* channel_create takes a window no server has.
LEMMA Created ==
  ASSUME Inv, pc = "run", NEW s \in Range(servers), NEW name \in Titles, NEW part \in BOOLEAN,
         ChannelCreate(s, name, part), part => Places(s, name) = {},
         UNCHANGED <<pc, servers>>
  PROVE  /\ Client'
         /\ \A t \in Range(servers) : /\ srv'[t].nick = srv[t].nick
                                      /\ srv'[t].socket = srv[t].socket
                                      /\ PartNames(t) \subseteq PartNames(t)'
         /\ part => name \in PartNames(s)'
<1> DEFINE w == Lowest(FreeWindows)
<1>0. /\ s \in ServerIds /\ srv \in [ServerIds -> ServerTypes] /\ TypeOK /\ Apart /\ Firsts
      /\ \A t \in Range(servers) : t \in ServerIds
      /\ win \in [WindowIds -> [name : Titles, part : BOOLEAN]]
      /\ scur \in ServerIds /\ changed \in SUBSET Ids /\ unread \in SUBSET Ids
      /\ changed = unread
      /\ \A t \in ServerIds : IsInjective(srv[t].channels)
  BY Parts DEF ClientOK, Marks
<1>1. /\ FreeWindows # {}
      /\ win' = [win EXCEPT ![w] = [name |-> name, part |-> part]]
      /\ srv' = [srv EXCEPT ![s].channels = Append(@, w)]
      /\ Focus(scur, w)
  BY DEF ChannelCreate
<1>2. w \in WindowIds /\ w \notin Open
  <2>1. FreeWindows \in SUBSET Nat
    BY Constants DEF FreeWindows
  <2>2. w \in FreeWindows
    BY <1>1, <2>1, Least
  <2> QED
    BY <2>2 DEF FreeWindows
<1> HIDE DEF w
<1>3. /\ Apart' /\ Firsts'
      /\ \A t \in Range(servers) : PartNames(t) \subseteq PartNames(t)'
      /\ part => name \in PartNames(s)'
  BY <1>0, <1>1, <1>2, WindowAdded
<1>4. /\ changed' \in SUBSET Ids /\ unread' \in SUBSET Ids
      /\ changed' = unread' /\ Shown(scur', ccur') \notin changed'
      /\ scur' = scur /\ ccur' = w
  BY <1>0, <1>1, <1>2, Focused DEF Focus
<1> DEFINE cs == srv[s].channels
<1>5. /\ cs \in Seq(WindowIds) /\ w \notin Range(cs) /\ IsInjective(cs)
  BY <1>0, <1>2, Listed
<1>6. /\ Append(cs, w) \in Seq(WindowIds) /\ IsInjective(Append(cs, w))
  <2> HIDE DEF cs
  <2> QED
    BY <1>2, <1>5, Added
<1>7. /\ srv' \in [ServerIds -> ServerTypes]
      /\ \A t \in ServerIds : srv'[t].nick = srv[t].nick /\ srv'[t].socket = srv[t].socket
      /\ srv'[s].channels = Append(cs, w)
      /\ \A t \in ServerIds \ {s} : srv'[t].channels = srv[t].channels
  BY <1>0, <1>1, <1>6 DEF ServerTypes
<1>8. win' \in [WindowIds -> [name : Titles, part : BOOLEAN]]
  BY <1>0, <1>1
<1>9. \A t \in ServerIds : IsInjective(srv'[t].channels)
  BY <1>0, <1>6, <1>7
<1>10. ClientOK'
  BY <1>2, <1>4, <1>7, <1>8, <1>9, Parts DEF ClientOK
<1>11. Marks'
  BY <1>4 DEF Marks
<1> QED
  BY <1>0, <1>3, <1>7, <1>10, <1>11 DEF Client

\* /msg with a name.
LEMMA OpenWindowInv ==
  ASSUME Inv, NEW name \in Names, OpenWindow(name)
  PROVE  Inv'
<1>1. PICK s \in Range(servers) : s = scur
  BY Parts
<1>2. /\ pc = "run" /\ ChannelCreate(s, name, FALSE) /\ UNCHANGED <<pc, servers, link>>
      /\ name \in Titles
  BY <1>1 DEF OpenWindow, Titles
<1>3. /\ Client'
      /\ \A t \in Range(servers) : /\ srv'[t].nick = srv[t].nick
                                   /\ srv'[t].socket = srv[t].socket
                                   /\ PartNames(t) \subseteq PartNames(t)'
  BY <1>2, Created
<1>4. Lines'
  BY <1>2, <1>3, Parts, LinesKept
<1> QED
  BY <1>2, <1>3, <1>4, Parts, Whole

\* What the client knows of the line it hears.
LEMMA Heard ==
  ASSUME Inv, NEW s \in Range(servers), NEW type, Hears(s, type)
  PROVE  /\ pc = "run" /\ srv[s].socket /\ s \in ServerIds /\ srv[s].nick \in Nicks
         /\ link[s] \in Links /\ link[s].toC # <<>>
         /\ LinkOK(link[s], srv[s].nick, PartNames(s))
         /\ link[s].toC[1][1] = type /\ link[s].toC[1][2] = Who(s) /\ link[s].toC[1][3] = Arg(s)
         /\ type = "nick" => Who(s) \in Nicks /\ Arg(s) \in Nicks
         /\ type = "join" => Who(s) \in Nicks /\ Arg(s) \in Names
         /\ link' \in [ServerIds -> Links]
         /\ \A t \in ServerIds \ {s} : link'[t] = link[t]
         /\ link'[s].toC = Tail(link[s].toC) /\ link'[s].toS = link[s].toS
         /\ link'[s].nick = link[s].nick /\ link'[s].joined = link[s].joined
         /\ link'[s].refused = link[s].refused /\ link'[s].crossed = link[s].crossed
<1> DEFINE l == link[s]
           m == [l EXCEPT !.toC = Tail(@)]
<1>1. /\ pc = "run" /\ srv[s].socket /\ l.toC # <<>> /\ Head(l.toC)[1] = type
      /\ link' = [link EXCEPT ![s].toC = Tail(@)]
  BY DEF Hears
<1>2. /\ s \in ServerIds /\ l \in Links /\ srv[s].nick \in Nicks
      /\ LinkOK(l, srv[s].nick, PartNames(s)) /\ Lined(l) /\ link \in [ServerIds -> Links]
  BY <1>1, Serviced, Parts
<1>3. /\ Tail(l.toC) \in Seq(ToClient) /\ Head(l.toC) = l.toC[1] /\ 1 \in 1 .. Len(l.toC)
  <2> HIDE DEF l
  <2>1. l.toC \in Seq(ToClient)
    BY <1>2, LinkTyped
  <2> QED
    BY <1>1, <2>1
<1>4. l.toC[1][1] = type /\ l.toC[1][2] = Who(s) /\ l.toC[1][3] = Arg(s)
  BY <1>1, <1>3 DEF Who, Arg
<1>5. /\ type = "nick" => Who(s) \in Nicks /\ Arg(s) \in Nicks
      /\ type = "join" => Who(s) \in Nicks /\ Arg(s) \in Names
  BY <1>2, <1>3, <1>4 DEF Lined, IsNick, IsJoin
<1>6. link' = [link EXCEPT ![s] = m]
  BY <1>1, <1>2
<1> HIDE DEF l
<1>7. m \in Links
  BY <1>2, <1>3, LinkTyped
<1>8. /\ m.toC = Tail(l.toC) /\ m.toS = l.toS /\ m.nick = l.nick
      /\ m.joined = l.joined /\ m.refused = l.refused /\ m.crossed = l.crossed
  BY <1>2 DEF Links
<1> HIDE DEF m
<1>9. /\ link' \in [ServerIds -> Links] /\ link'[s] = m
      /\ \A t \in ServerIds \ {s} : link'[t] = link[t]
  BY <1>2, <1>6, <1>7
<1> QED
  BY <1>1, <1>2, <1>4, <1>5, <1>8, <1>9 DEF l

\* A line after which the client's nick is what it was.
LEMMA HeardKeeps ==
  ASSUME Inv, NEW s \in Range(servers), NEW type, Hears(s, type), Client', servers' = servers,
         \A t \in Range(servers) : /\ srv'[t].nick = srv[t].nick
                                   /\ srv'[t].socket = srv[t].socket
                                   /\ PartNames(t) \subseteq PartNames(t)',
         type = "nick" => Who(s) # srv[s].nick,
         type = "join" => Arg(s) \in PartNames(s)' \/ Who(s) # srv[s].nick
  PROVE  Inv'
<1> DEFINE l == link[s]
           m == link'[s]
           n == srv[s].nick
           names == PartNames(s)
           names2 == PartNames(s)'
<1>1. /\ n \in Nicks /\ s \in ServerIds /\ l \in Links /\ m \in Links /\ l.toC # <<>>
      /\ LinkOK(l, n, names)
      /\ m.toC = Tail(l.toC) /\ m.toS = l.toS /\ m.nick = l.nick
      /\ m.joined = l.joined /\ m.refused = l.refused /\ m.crossed = l.crossed
  BY Heard
<1>2. ~(IsNick(l, 1) /\ l.toC[1][2] = n)
  BY Heard DEF IsNick
<1>3. IsJoin(l, 1) => l.toC[1][3] \in names2 \/ l.toC[1][2] # n
  BY Heard DEF IsJoin
<1>4. names \subseteq names2
  OBVIOUS
<1>5. LinkOK(m, n, names2)
  <2> HIDE DEF l, m, n, names, names2
  <2> QED
    BY ONLY <1>1, <1>2, <1>3, <1>4, HearsOther
<1>6. \A t \in Range(servers) \ {s} : link'[t] = link[t]
  BY Heard, Parts
<1>7. Lines'
  BY <1>5, <1>6, Parts, LinesKept
<1> QED
  BY <1>7, Heard, Whole

\* Text is shown, and windows are what they were.
LEMMA Told ==
  ASSUME Inv, pc = "run", NEW s \in Range(servers), NEW name,
         ScreenPrint(s, ChannelGet(s, name)), UNCHANGED <<pc, servers, srv, win>>
  PROVE  /\ Client'
         /\ \A t \in Range(servers) : /\ srv'[t].nick = srv[t].nick
                                      /\ srv'[t].socket = srv[t].socket
                                      /\ PartNames(t) \subseteq PartNames(t)'
<1>1. {ChannelGet(s, name)} \in SUBSET (WindowIds \union {None})
  BY Parts, GetTyped
<1>2. /\ changed' \in SUBSET Ids /\ unread' \in SUBSET Ids
      /\ changed' = unread' /\ Shown(scur', ccur') \notin changed'
      /\ scur' = scur /\ ccur' = ccur
  BY <1>1, Parts, Printed DEF ScreenPrint
<1>3. ClientOK' /\ Marks'
  BY <1>2, Parts DEF ClientOK, Marks
<1>4. Apart' /\ Firsts'
  BY Parts, WindowsKept
<1>5. \A t \in Range(servers) : PartNames(t)' = PartNames(t)
  BY DEF PartNames
<1> QED
  BY <1>3, <1>4, <1>5 DEF Client

\* NICK from the server.
LEMMA HandleNickInv ==
  ASSUME Inv, NEW s \in Range(servers), HandleNick(s)
  PROVE  Inv'
<1>1. /\ Hears(s, "nick") /\ UNCHANGED <<pc, servers, win, scur, ccur, changed, unread>>
      /\ srv' = IF Who(s) = srv[s].nick THEN [srv EXCEPT ![s].nick = Arg(s)] ELSE srv
  BY DEF HandleNick
<1>2. CASE Who(s) # srv[s].nick
  <2>1. UNCHANGED client
    BY <1>1, <1>2 DEF client
  <2>2. Client' /\ \A t \in Range(servers) : PartNames(t)' = PartNames(t)
    BY <2>1, SameClient
  <2> QED
    BY <1>1, <1>2, <2>1, <2>2, HeardKeeps DEF client
<1>3. CASE Who(s) = srv[s].nick
  <2> DEFINE l == link[s]
             m == link'[s]
             n == srv[s].nick
             n2 == Arg(s)
             names == PartNames(s)
  <2>1. /\ n \in Nicks /\ s \in ServerIds /\ l \in Links /\ m \in Links /\ l.toC # <<>>
        /\ LinkOK(l, n, names) /\ n2 \in Nicks
        /\ m.toC = Tail(l.toC) /\ m.toS = l.toS /\ m.nick = l.nick
        /\ m.joined = l.joined /\ m.refused = l.refused /\ m.crossed = l.crossed
        /\ IsNick(l, 1) /\ l.toC[1][2] = n /\ l.toC[1][3] = n2
    BY <1>1, <1>3, Heard DEF IsNick
  <2>2. LinkOK(m, n2, names)
    <3> HIDE DEF l, m, n, n2, names
    <3> QED
      BY ONLY <2>1, HearsNick
  <2>3. srv \in [ServerIds -> ServerTypes] /\ link \in [ServerIds -> Links]
    BY Parts DEF ClientOK
  <2>4. link' = [link EXCEPT ![s] = m]
    BY <1>1, <2>1, <2>3 DEF Hears
  <2>5. srv' = [srv EXCEPT ![s].nick = n2]
    BY <1>1, <1>3
  <2> HIDE DEF n2, m
  <2>6. /\ srv' \in [ServerIds -> ServerTypes] /\ \A t \in ServerIds \ {s} : srv'[t] = srv[t]
        /\ srv'[s].nick = n2 /\ srv'[s].channels = srv[s].channels
    BY <2>1, <2>3, <2>5, NickSet
  <2>7. /\ link' \in [ServerIds -> Links] /\ Apart' /\ Firsts' /\ Lines'
        /\ \A t \in ServerIds : IsInjective(srv'[t].channels)
    BY <1>1, <2>1, <2>2, <2>4, <2>6, OneLink
  <2>8. ClientOK' /\ Marks'
    BY <1>1, <2>6, <2>7, Parts DEF ClientOK, Marks
  <2> QED
    BY <2>7, <2>8, Whole DEF Client
<1> QED
  BY <1>2, <1>3

\* JOIN of the user, for a channel with a window.
LEMMA HandleJoinKnownInv ==
  ASSUME Inv, NEW s \in Range(servers), HandleJoinKnown(s)
  PROVE  Inv'
<1> DEFINE name == Arg(s)
           c == ChannelGet(s, name)
<1>1. /\ Hears(s, "join") /\ Places(s, name) # {} /\ UNCHANGED <<pc, servers, srv>>
      /\ win' = [win EXCEPT ![c].part = TRUE] /\ ScreenPrint(s, c) /\ pc = "run"
  BY Heard DEF HandleJoinKnown
<1>2. /\ Apart' /\ Firsts'
      /\ \A t \in Range(servers) : PartNames(t) \subseteq PartNames(t)'
      /\ name \in PartNames(s)'
  BY <1>1, Parts, WindowJoined
<1>3. {c} \in SUBSET (WindowIds \union {None}) /\ s \in ServerIds
  BY Parts, GetTyped
<1>4. /\ changed' \in SUBSET Ids /\ unread' \in SUBSET Ids
      /\ changed' = unread' /\ Shown(scur', ccur') \notin changed'
      /\ scur' = scur /\ ccur' = ccur
  BY <1>1, <1>3, Parts, Printed DEF ScreenPrint
<1>5. win' \in [WindowIds -> [name : Titles, part : BOOLEAN]]
  <2>1. win \in [WindowIds -> [name : Titles, part : BOOLEAN]]
    BY Parts DEF ClientOK
  <2> HIDE DEF c
  <2> QED
    BY <1>1, <2>1
<1>6. ClientOK' /\ Marks'
  BY <1>1, <1>4, <1>5, Parts DEF ClientOK, Marks
<1>7. Client'
  BY <1>2, <1>6 DEF Client
<1> QED
  BY <1>1, <1>2, <1>7, HeardKeeps

\* JOIN of the user, for a channel without.
LEMMA HandleJoinNewInv ==
  ASSUME Inv, NEW s \in Range(servers), HandleJoinNew(s)
  PROVE  Inv'
<1>1. /\ Hears(s, "join") /\ Places(s, Arg(s)) = {} /\ UNCHANGED <<pc, servers>>
      /\ ChannelCreate(s, Arg(s), TRUE) /\ pc = "run" /\ Arg(s) \in Titles
  BY Heard DEF HandleJoinNew, Titles
<1>2. /\ Client'
      /\ \A t \in Range(servers) : /\ srv'[t].nick = srv[t].nick
                                   /\ srv'[t].socket = srv[t].socket
                                   /\ PartNames(t) \subseteq PartNames(t)'
      /\ Arg(s) \in PartNames(s)'
  BY <1>1, Created
<1> QED
  BY <1>1, <1>2, HeardKeeps

\* JOIN of somebody else.
LEMMA HandleJoinOtherInv ==
  ASSUME Inv, NEW s \in Range(servers), HandleJoinOther(s)
  PROVE  Inv'
  BY Heard, Told, HeardKeeps DEF HandleJoinOther

\* Text for a channel.
LEMMA HandleTextInv ==
  ASSUME Inv, NEW s \in Range(servers), HandleText(s)
  PROVE  Inv'
  BY Heard, Told, HeardKeeps DEF HandleText

\* Text for the user.
LEMMA HandlePrivateInv ==
  ASSUME Inv, NEW s \in Range(servers), HandlePrivate(s)
  PROVE  Inv'
<1>1. Hears(s, "priv") /\ UNCHANGED <<pc, servers>> /\ pc = "run"
  BY Heard DEF HandlePrivate
<1>2. CASE ChannelCreate(s, Arg(s), FALSE) /\ Arg(s) = srv[s].nick
  <2>1. Arg(s) \in Titles
    BY <1>1, <1>2, Heard DEF Titles
  <2>2. /\ Client'
        /\ \A t \in Range(servers) : /\ srv'[t].nick = srv[t].nick
                                     /\ srv'[t].socket = srv[t].socket
                                     /\ PartNames(t) \subseteq PartNames(t)'
    BY <1>1, <1>2, <2>1, Created
  <2> QED
    BY <1>1, <2>2, HeardKeeps
<1>3. CASE ScreenPrint(s, ChannelGet(s, Arg(s))) /\ UNCHANGED <<srv, win>>
  BY <1>1, <1>3, Told, HeardKeeps
<1> QED
  BY <1>2, <1>3 DEF HandlePrivate

-----------------------------------------------------------------------------
(* The invariant, and what it implies *)

\* The invariant holds at the start ...
LEMMA InitInv == Init => Inv
<1> SUFFICES ASSUME Init
             PROVE  Inv
  OBVIOUS
<1>1. /\ pc = "run" /\ servers = <<1>> /\ scur = 1 /\ ccur = None /\ changed = {} /\ unread = {}
      /\ srv = [s \in ServerIds |-> NewServer] /\ win = [w \in WindowIds |-> NoWindow]
      /\ link = [s \in ServerIds |-> NoLink]
  BY DEF Init
<1>2. 1 \in ServerIds /\ UserNick \in Nicks /\ UserNick \in Titles
  BY Constants
<1>3. <<>> \in Seq(WindowIds) /\ IsInjective(<<>>)
  BY DEF IsInjective
<1>4. servers \in Seq(ServerIds) /\ servers # <<>> /\ IsInjective(servers) /\ Range(servers) = {1}
  BY <1>1, <1>2 DEF IsInjective, Range
<1>5. TypeOK
  <2>1. srv \in [ServerIds -> [nick : Nicks, socket : BOOLEAN, channels : Seq(WindowIds)]]
    BY <1>1, <1>2, <1>3 DEF NewServer
  <2>2. \A s \in ServerIds : IsInjective(srv[s].channels)
    BY <1>1, <1>3 DEF NewServer
  <2>3. win \in [WindowIds -> [name : Titles, part : BOOLEAN]]
    BY <1>1, <1>2 DEF NoWindow
  <2>4. link \in [ServerIds -> Links]
    BY <1>1, LinkNoLink
  <2> QED
    BY <1>1, <1>4, <2>1, <2>2, <2>3, <2>4 DEF TypeOK
<1>6. Apart
  BY <1>4 DEF Apart
<1>7. Marks
  BY <1>1 DEF Marks
<1>8. Firsts
  BY <1>1, <1>2, <1>4 DEF Firsts, FirstIn, NewServer
<1>9. Lines
  BY <1>1, <1>2, <1>4 DEF Lines, NewServer
<1> QED
  BY <1>5, <1>6, <1>7, <1>8, <1>9 DEF Inv

\* ... and is kept by every step.
LEMMA StepInv == Inv /\ [Next]_vars => Inv'
<1> SUFFICES ASSUME Inv, [Next]_vars
             PROVE  Inv'
  OBVIOUS
<1>1. CASE UNCHANGED vars
  <2>1. UNCHANGED client /\ link' = link
    BY <1>1 DEF vars
  <2>2. Client' /\ \A t \in Range(servers) : PartNames(t)' = PartNames(t)
    BY <2>1, SameClient
  <2>3. Lines'
    BY <2>1, <2>2, Parts, LinesKept DEF client
  <2> QED
    BY <2>1, <2>2, <2>3, Parts, Whole
<1>2. CASE NextWindow
  BY <1>2, NextWindowInv
<1>3. CASE PrevWindow
  BY <1>3, PrevWindowInv
<1>4. CASE ServerCreate
  BY <1>4, ServerCreateInv
<1>5. CASE Quit \/ CloseLastChannelExits \/ CloseServerExits
  BY <1>5, LeaveInv DEF Quit, CloseLastChannelExits, CloseServerExits, ReallocFails
<1>6. CASE CloseChannel
  BY <1>6, CloseChannelInv
<1>7. CASE CloseForeignChannel
  BY <1>7, CloseForeignChannelInv
<1>8. CASE CloseServer
  BY <1>8, CloseServerInv
<1>9. CASE CloseLastServer
  BY <1>9, CloseLastServerInv
<1>10. CASE Connect
  BY <1>10, ConnectInv
<1>11. CASE ConnectFails
  BY <1>11, ConnectFailsInv
<1>12. CASE Disconnect
  BY <1>12, DisconnectInv
<1>13. ASSUME NEW n \in Nicks, ChangeNick(n)
       PROVE  Inv'
  BY <1>13, ChangeNickInv
<1>14. ASSUME NEW name \in Names, OpenWindow(name)
       PROVE  Inv'
  BY <1>14, OpenWindowInv
<1>15. ASSUME NEW line \in {"JOIN", "PART"} \X Names, SendRaw(line)
       PROVE  Inv'
  BY <1>15, SendRawInv
<1>16. ASSUME NEW s \in Range(servers), Network(s)
       PROVE  Inv'
  BY <1>16, HandleNickInv, HandleJoinKnownInv, HandleJoinNewInv, HandleJoinOtherInv,
     HandleTextInv, HandlePrivateInv, HandleEOFInv DEF Network
<1>17. ASSUME NEW s \in Range(servers), IrcServer(s)
       PROVE  Inv'
  <2>1. CASE ServerText(s)
    <3>1. PICK name \in link[s].joined : Says(s, <<"text", None, name>>)
      BY <2>1 DEF ServerText
    <3>2. link[s] \in Links
      BY Parts
    <3>3. name \in Titles
      BY <3>2, LinkTyped DEF Titles
    <3> DEFINE x == <<"text", None, name>>
    <3>4. x \in ToClient /\ x[1] \notin {"nick", "join"} /\ Says(s, x)
      BY <3>1, <3>3, LineTyped
    <3> HIDE DEF x
    <3> QED
      BY <3>4, SaysInv
  <2>2. CASE ServerPrivate(s)
    <3> DEFINE x == <<"priv", None, link[s].nick>>
    <3>1. link[s] \in Links
      BY Parts
    <3>2. link[s].nick \in Titles \union {None}
      BY <3>1, LinkTyped DEF Titles
    <3>3. x \in ToClient /\ x[1] \notin {"nick", "join"} /\ Says(s, x)
      BY <2>2, <3>2, LineTyped DEF ServerPrivate
    <3> HIDE DEF x
    <3> QED
      BY <3>3, SaysInv
  <2>3. CASE ServerClose(s)
    <3> DEFINE x == <<"eof", None, None>>
    <3>1. x \in ToClient /\ x[1] \notin {"nick", "join"} /\ Says(s, x)
      BY <2>3, LineTyped DEF ServerClose
    <3> HIDE DEF x
    <3> QED
      BY <3>1, SaysInv
  <2> QED
    BY <1>17, <2>1, <2>2, <2>3, ServerNickInv, ServerRefuseInv, ServerJoinInv, ServerPartInv,
       ServerRenameInv DEF IrcServer
<1> QED
  BY <1>1, <1>2, <1>3, <1>4, <1>5, <1>6, <1>7, <1>8, <1>9, <1>10, <1>11, <1>12, <1>13, <1>14,
     <1>15, <1>16, <1>17 DEF Next, User

\* The inductive invariant of the session: its types, the windows of the
\* servers and the lines under way.
THEOREM Invariant == Spec => []Inv
  BY InitInv, StepInv, PTL DEF Spec

\* What screen_printf put into a buffer unseen is marked in the status line
\* until channel_focus shows it, and nothing else is marked.
THEOREM UnreadMarked == Spec => []UnreadIsMarked
<1>1. Inv => UnreadIsMarked
  BY DEF Inv, Marks, UnreadIsMarked
<1> QED
  BY <1>1, Invariant, PTL

\* A window whose closing sends PART is the one channel_get finds for its
\* channel, so the channel's text is shown there.
THEOREM PartFirst == Spec => []PartIsFirst
<1>1. Inv => PartIsFirst
  <2> SUFFICES ASSUME Inv, NEW s \in Range(servers), NEW w \in Range(srv[s].channels), win[w].part
               PROVE  ChannelGet(s, win[w].name) = w
    BY DEF PartIsFirst
  <2> DEFINE cs == srv[s].channels
             name == win[w].name
  <2>1. /\ cs \in Seq(WindowIds) /\ FirstIn(cs, win) /\ TypeOK
    BY Parts, Listed DEF Firsts
  <2>2. PICK i \in 1 .. Len(cs) : cs[i] = w
    BY <2>1 DEF Range
  <2>3. Places(s, name) # {}
    BY <2>1, <2>2 DEF Places
  <2>4. PICK p \in 1 .. Len(cs) : /\ ChannelGet(s, name) = cs[p]
                                  /\ win[cs[p]].name = name
                                  /\ \A j \in 1 .. p - 1 : win[cs[j]].name # name
    BY <2>1, <2>3, Got
  <2>5. ~(p < i)
    BY <2>1, <2>2, <2>4 DEF FirstIn
  <2>6. ~(i < p)
    BY <2>2, <2>4
  <2>7. Len(cs) \in Nat
    BY <2>1
  <2> QED
    BY <2>2, <2>4, <2>5, <2>6, <2>7
<1> QED
  BY <1>1, Invariant, PTL

\* A connection on which nothing is under way.
LEMMA SettledLink ==
  ASSUME Inv, NEW s \in Range(servers), Settled(s), ~link[s].refused
  PROVE  /\ link[s].nick = srv[s].nick
         /\ ~link[s].crossed => link[s].joined \subseteq PartNames(s)
<1>1. /\ srv[s].socket /\ link[s].toS = <<>> /\ link[s].toC = <<>>
      /\ LinkOK(link[s], srv[s].nick, PartNames(s))
  BY Serviced DEF Settled
<1>2. Len(link[s].toS) = 0 /\ Len(link[s].toC) = 0
  BY <1>1
<1>3. Follows(link[s], srv[s].nick, 0 + 1)
  BY <1>1, <1>2 DEF LinkOK
<1>4. link[s].nick = srv[s].nick
  BY <1>2, <1>3 DEF Follows, OnTrail, Leaves
<1>5. ~link[s].crossed => link[s].joined \subseteq PartNames(s)
  BY <1>1, <1>2 DEF LinkOK, Covered
<1> QED
  BY <1>4, <1>5

\* Once all lines have arrived the nick the client goes by is the server's, for
\* every interleaving of /nick with renames by the server, if none was refused.
THEOREM NicksAgree == Spec => []NickAgrees
<1>1. Inv => NickAgrees
  BY SettledLink DEF NickAgrees
<1> QED
  BY <1>1, Invariant, PTL

\* Once all lines have arrived every channel the server has the user in has a
\* window that will leave it, if no NICK was refused and none crossed a JOIN.
THEOREM JoinedWindow == Spec => []JoinedHasWindow
<1>1. Inv => JoinedHasWindow
  BY SettledLink DEF JoinedHasWindow, PartNames
<1> QED
  BY <1>1, Invariant, PTL

-----------------------------------------------------------------------------
(* The focus *)

FocusStep ==
  Owned => Owned' \/ \E s \in Range(servers) \ {scur} :
                       ccur' \in Range(srv'[s].channels) \ Range(srv[s].channels)

\* The focus stays.
LEMMA SameFocus ==
  ASSUME scur' = scur, ccur' = ccur, srv'[scur].channels = srv[scur].channels
  PROVE  FocusStep
  BY DEF FocusStep, Owned

\* A step that changes no more of a server than its nick and its connection.
LEMMA SameWindows ==
  ASSUME Inv, scur' = scur, ccur' = ccur, NEW s \in ServerIds,
         \/ srv' = srv
         \/ \E b \in BOOLEAN : srv' = [srv EXCEPT ![s].socket = b]
         \/ \E n \in Nicks : srv' = [srv EXCEPT ![s].nick = n]
  PROVE  FocusStep
<1>1. scur \in ServerIds /\ srv \in [ServerIds -> ServerTypes]
  BY Parts DEF ClientOK
<1>2. srv'[scur].channels = srv[scur].channels
  <2>1. ASSUME NEW b, srv' = [srv EXCEPT ![s].socket = b]
        PROVE  srv'[scur].channels = srv[scur].channels
    BY <1>1, <2>1 DEF ServerTypes
  <2>2. ASSUME NEW n, srv' = [srv EXCEPT ![s].nick = n]
        PROVE  srv'[scur].channels = srv[scur].channels
    BY <1>1, <2>2 DEF ServerTypes
  <2> QED
    BY <2>1, <2>2
<1> QED
  BY <1>2, SameFocus

\* The keys that move the focus find a window of the server they move to.
LEMMA MovedFocus ==
  ASSUME Inv, NextWindow \/ PrevWindow
  PROVE  FocusStep
<1> DEFINE cs == srv[scur].channels
           i == IF ccur = None THEN 0
                ELSE IF ccur \in Range(cs) THEN PlaceOf(cs, ccur) ELSE Len(cs)
           h == IF ccur \in Range(cs) THEN PlaceOf(cs, ccur) ELSE 1
<1>0. cs \in Seq(WindowIds) /\ srv' = srv
  BY Parts, Listed DEF NextWindow, PrevWindow
<1>1. CASE NextWindow
  <2>1. i \in 0 .. Len(cs)
    <3> HIDE DEF cs
    <3> QED
      BY <1>0, Place
  <2>2. CASE i < Len(cs)
    <3>1. scur' = scur /\ ccur' = cs[i + 1]
      BY <1>1, <2>2 DEF NextWindow, Focus, FocusFrom
    <3>2. cs[i + 1] \in Range(cs)
      <4> HIDE DEF cs, i
      <4> QED
        BY <1>0, <2>1, <2>2 DEF Range
    <3> QED
      BY <1>0, <3>1, <3>2 DEF FocusStep, Owned
  <2>3. CASE ~(i < Len(cs))
    BY <1>1, <2>3 DEF NextWindow, Focus, FocusFrom, FocusStep, Owned
  <2> QED
    BY <2>2, <2>3
<1>2. CASE PrevWindow /\ ccur = None
  <2> DEFINE j == PlaceOf(servers, scur)
             s == servers[IF j > 1 THEN j - 1 ELSE Len(servers)]
  <2>1. servers \in Seq(ServerIds) /\ scur \in Range(servers)
    BY Parts DEF ClientOK
  <2>2. j \in 1 .. Len(servers)
    BY <2>1, Place
  <2>3. s \in Range(servers)
    BY <2>1, <2>2 DEF Range
  <2>4. scur' = s /\ ccur' = LastOf(srv[s].channels)
    BY <1>2 DEF PrevWindow, Focus, FocusFrom
  <2> HIDE DEF s
  <2>5. srv[s].channels \in Seq(WindowIds)
    BY <2>3, Parts, Listed
  <2>6. ccur' = None \/ ccur' \in Range(srv[s].channels)
    BY <2>4, <2>5 DEF LastOf, Range
  <2> QED
    BY <1>0, <2>4, <2>6 DEF FocusStep, Owned
<1>3. CASE PrevWindow /\ ccur # None
  <2>1. scur' = scur /\ ccur' = IF h > 1 THEN cs[h - 1] ELSE None
    BY <1>3 DEF PrevWindow, Focus, FocusFrom
  <2>2. h > 1 => cs[h - 1] \in Range(cs)
    <3> HIDE DEF cs
    <3>1. h > 1 => h - 1 \in 1 .. Len(cs)
      BY <1>0, Place
    <3> QED
      BY <1>0, <3>1 DEF Range
  <2> QED
    BY <1>0, <2>1, <2>2 DEF FocusStep, Owned
<1> QED
  BY <1>1, <1>2, <1>3

\* Closing a window shows another of the same server.
LEMMA ClosedFocus ==
  ASSUME Inv, CloseChannel
  PROVE  FocusStep
<1> DEFINE cs == srv[scur].channels
           w == ccur
           i == PlaceOf(cs, w)
<1>0. /\ cs \in Seq(WindowIds) /\ IsInjective(cs) /\ w \in Range(cs) /\ scur \in ServerIds
      /\ srv \in [ServerIds -> ServerTypes]
  BY Parts, Listed DEF CloseChannel, Owned, ClientOK
<1>1. /\ scur' = scur /\ ccur' = IF i > 1 THEN cs[i - 1] ELSE None
      /\ srv'[scur].channels = Without(cs, w)
  BY <1>0 DEF CloseChannel, FocusFrom, ServerTypes
<1> HIDE DEF cs, w
<1>2. i \in 1 .. Len(cs) /\ cs[i] = w
  BY <1>0, Place
<1>3. i > 1 => cs[i - 1] \in Range(cs) \ {w}
  BY <1>0, <1>2 DEF Range, IsInjective
<1>4. Range(Without(cs, w)) = Range(cs) \ {w}
  BY <1>0, Removed
<1> QED
  BY <1>1, <1>3, <1>4 DEF FocusStep, Owned

\* Closing a server shows a window of another.
LEMMA GivenFocus ==
  ASSUME Inv, CloseServer
  PROVE  FocusStep
<1> DEFINE j == PlaceOf(servers, scur)
           rest == Without(servers, scur)
           k == IF j > 1 THEN j - 1 ELSE 1
           s == rest[k]
<1>0. /\ servers \in Seq(ServerIds) /\ scur \in Range(servers) /\ IsInjective(servers)
      /\ srv \in [ServerIds -> ServerTypes] /\ Len(servers) > 1
  BY Parts DEF ClientOK, CloseServer
<1>1. /\ srv' = [srv EXCEPT ![scur] = NewServer]
      /\ scur' = s /\ ccur' = LastOf(srv[s].channels)
  BY DEF CloseServer, FocusFrom
<1>2. /\ rest \in Seq(ServerIds) /\ Len(rest) = Len(servers) - 1
      /\ Range(rest) = Range(servers) \ {scur}
  BY <1>0, Removed
<1>3. j \in 1 .. Len(servers)
  BY <1>0, Place
<1> HIDE DEF j, rest
<1>4. k \in 1 .. Len(rest)
  BY <1>0, <1>2, <1>3
<1>5. s \in Range(rest)
  <2> HIDE DEF k
  <2> QED
    BY <1>2, <1>4 DEF Range
<1> HIDE DEF s
<1>6. s # scur /\ s \in Range(servers) /\ s \in ServerIds
  BY <1>2, <1>5, Parts
<1>7. srv'[s] = srv[s] /\ srv[s].channels \in Seq(WindowIds)
  BY <1>0, <1>1, <1>6, Parts, Listed
<1>8. ccur' = None \/ ccur' \in Range(srv[s].channels)
  BY <1>1, <1>7 DEF LastOf, Range
<1> QED
  BY <1>1, <1>7, <1>8 DEF FocusStep, Owned

\* A new window is the current server's, or the one that takes the focus away.
LEMMA OpenedFocus ==
  ASSUME Inv, NEW s \in Range(servers), NEW name, NEW part, ChannelCreate(s, name, part)
  PROVE  FocusStep
<1> DEFINE w == Lowest(FreeWindows)
           cs == srv[s].channels
<1>0. /\ s \in ServerIds /\ srv \in [ServerIds -> ServerTypes]
      /\ cs \in Seq(WindowIds) /\ Range(cs) \subseteq Open
  BY Parts, Listed DEF ClientOK
<1>1. /\ FreeWindows # {} /\ srv' = [srv EXCEPT ![s].channels = Append(@, w)]
      /\ scur' = scur /\ ccur' = w
  BY DEF ChannelCreate, Focus, FocusFrom
<1>2. w \in WindowIds /\ w \notin Open
  <2>1. FreeWindows \in SUBSET Nat
    BY Constants DEF FreeWindows
  <2>2. w \in FreeWindows
    BY <1>1, <2>1, Least
  <2> QED
    BY <2>2 DEF FreeWindows
<1>3. srv'[s].channels = Append(cs, w)
  BY <1>0, <1>1 DEF ServerTypes
<1> HIDE DEF w
<1>4. w \in Range(Append(cs, w)) /\ w \notin Range(cs)
  <2>1. w \notin Range(cs)
    BY <1>0, <1>2
  <2> HIDE DEF cs
  <2> QED
    BY <1>0, <1>2, <2>1, Added
<1> QED
  BY <1>1, <1>3, <1>4 DEF FocusStep, Owned

\* Nothing moves when the program ends.
LEMMA LeftFocus ==
  ASSUME Inv, Leave, UNCHANGED <<scur, ccur>>
  PROVE  FocusStep
<1>1. scur \in ServerIds /\ srv \in [ServerIds -> ServerTypes]
  BY Parts DEF ClientOK
<1>2. srv'[scur].channels = srv[scur].channels
  BY <1>1 DEF Leave, ServerTypes
<1> QED
  BY <1>2, SameFocus

\* Every step keeps the focus where it belongs.
LEMMA StepFocus == Inv /\ [Next]_vars => FocusStep
<1> SUFFICES ASSUME Inv, [Next]_vars
             PROVE  FocusStep
  OBVIOUS
<1>0. scur \in Range(servers) /\ \A s \in Range(servers) : s \in ServerIds
  BY Parts
<1>1. CASE UNCHANGED client
  BY <1>1, SameFocus DEF client
<1>2. CASE NextWindow \/ PrevWindow
  BY <1>2, MovedFocus
<1>3. CASE ServerCreate \/ CloseLastServer
  BY <1>3 DEF ServerCreate, CloseLastServer, FocusFrom, FocusStep, Owned
<1>4. CASE Quit \/ CloseLastChannelExits \/ CloseServerExits
  BY <1>4, LeftFocus DEF Quit, CloseLastChannelExits, CloseServerExits, ReallocFails
<1>5. CASE CloseChannel
  BY <1>5, ClosedFocus
<1>6. CASE CloseForeignChannel
  BY <1>6, SameFocus DEF CloseForeignChannel
<1>7. CASE CloseServer
  BY <1>7, GivenFocus
<1>8. CASE Connect
  BY <1>0, <1>8, SameWindows DEF Connect
<1>9. CASE ConnectFails
  BY <1>0, <1>9, SameWindows DEF ConnectFails, ScreenPrint, PrintAll
<1>10. CASE Disconnect
  BY <1>0, <1>10, SameWindows DEF Disconnect
<1>11. ASSUME NEW n \in Nicks, ChangeNick(n)
       PROVE  FocusStep
  BY <1>0, <1>11, SameWindows DEF ChangeNick
<1>12. ASSUME NEW name \in Names, OpenWindow(name)
       PROVE  FocusStep
  BY <1>0, <1>12, OpenedFocus DEF OpenWindow
<1>13. ASSUME NEW line \in {"JOIN", "PART"} \X Names, SendRaw(line)
       PROVE  FocusStep
  BY <1>13, SameFocus DEF SendRaw
<1>14. ASSUME NEW s \in Range(servers), Network(s)
       PROVE  FocusStep
  <2>1. CASE HandleNick(s)
    BY <1>0, <2>1, Heard, SameWindows DEF HandleNick
  <2>2. CASE HandleJoinKnown(s) \/ HandleJoinOther(s) \/ HandleText(s)
    BY <2>2, SameFocus DEF HandleJoinKnown, HandleJoinOther, HandleText, ScreenPrint, PrintAll
  <2>3. CASE HandleJoinNew(s)
    BY <2>3, OpenedFocus DEF HandleJoinNew
  <2>4. CASE HandlePrivate(s)
    <3>1. CASE ChannelCreate(s, Arg(s), FALSE)
      BY <3>1, OpenedFocus
    <3>2. CASE ScreenPrint(s, ChannelGet(s, Arg(s))) /\ srv' = srv
      BY <3>2, SameFocus DEF ScreenPrint, PrintAll
    <3> QED
      BY <2>4, <3>1, <3>2 DEF HandlePrivate
  <2>5. CASE HandleEOF(s)
    BY <1>0, <2>5, SameWindows DEF HandleEOF, PrintAll
  <2> QED
    BY <1>14, <2>1, <2>2, <2>3, <2>4, <2>5 DEF Network
<1>15. ASSUME NEW s \in Range(servers), IrcServer(s)
       PROVE  FocusStep
  <2>1. UNCHANGED client
    BY <1>15 DEF IrcServer, ServerNick, ServerRefuse, ServerJoin, ServerPart, ServerText,
                 ServerPrivate, ServerClose, ServerRename, Takes, Says
  <2> QED
    BY <1>1, <2>1
<1> QED
  BY <1>1, <1>2, <1>3, <1>4, <1>5, <1>6, <1>7, <1>8, <1>9, <1>10, <1>11, <1>12, <1>13, <1>14,
     <1>15 DEF Next, User, vars

\* channel_current is a window of server_current until another server opens
\* one: all the code that moves or closes keeps the two together.
THEOREM FocusOwned == Spec => FocusStaysOwned
<1>1. Inv /\ [Next]_vars => [FocusStep]_vars
  BY StepFocus
<1>2. FocusStaysOwned <=> [][FocusStep]_vars
  BY DEF FocusStaysOwned, FocusStep
<1> QED
  BY <1>1, <1>2, Invariant, PTL DEF Spec
===============================================================================
