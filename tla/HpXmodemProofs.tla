--------------------------- MODULE HpXmodemProofs ---------------------------
(***************************************************************************)
(* Theorems about module HpXmodem, for any length of the file, number of   *)
(* retries and of faults, and any byte large enough for the control codes: *)
(* what a finished transfer has written (SuccessIsWhole), and when         *)
(* hpxm_get may say that it lost a packet (LostOnlyIfEarly).               *)
(***************************************************************************)
EXTENDS HpXmodem, TLAPS

-----------------------------------------------------------------------------
(* The inductive invariant *)

\* len, seq and the output count the same blocks, a loop that goes on has tries
\* left, and only a port that hung up makes pollread spin.
Counts ==
  /\ len = Len(out) /\ seq = Len(out) + 1
  /\ pc \in {"send", "creq"} => tries > 0
  /\ pc # "done" => resend_tries > 0
  /\ pc = "spin" => hung

Ordered == \A i \in 1..Len(out) : out[i] = i

(* First, whatever times out: a complement and the data behind it are of one *)
(* block. *)

\* Under way, nothing is missing in front of the data of a block, nor behind the
\* complement of its number.
Clean(w) == \A j \in 1..Len(w) :
  /\ \A k \in 1..NBlocks : w[j] = Data(k) => /\ j >= 2 => w[j - 1] = Complement(k)
                                             /\ j >= 3 => w[j - 2] = k
                                             /\ j >= 4 => w[j - 3] = SOH
  /\ \A m \in 1..NBlocks + 1 : w[j] = Complement(m) => j < Len(w) /\ w[j + 1] = Data(m)

Fits(s) == \A j \in 1..Len(s) - 1 : \A m \in 1..NBlocks + 1, k \in 1..NBlocks :
  s[j] = Complement(m) /\ s[j + 1] = Data(k) => m = k

\* What has arrived may end in the complement of a number whose data are lost:
\* it takes a fault for each cell to bring those of another block next to it.
Junction(s, w, f) == \A m \in 1..NBlocks + 1 : s # <<>> /\ s[Len(s)] = Complement(m) =>
  /\ w = <<>> => f >= 1
  /\ \A i \in 1..Len(w) : \A k \in 1..NBlocks :
       w[i] = Data(k) => (i = 1 /\ k = m) \/ f + i >= 5

Together == Tellable => Clean(wire) /\ Fits(inp) /\ Junction(inp, wire, faults) /\ Ordered

(* Second, as long as no poll timed out early: one message is under way. *)

Quiet == inp = <<>> /\ wire = <<>>
Spoilt(cell) == IF HoldsData(cell) THEN BadData ELSE Damaged

\* Of an answer x, some cells may be lost; if none is, each is as it was sent or
\* damaged.
Remains(x) ==
  /\ Len(inp) + Len(wire) <= Len(x)
  /\ Len(x) <= Len(inp) + Len(wire) + faults
  /\ \A i \in 1..Len(wire) : wire[i] = x[Len(x) - Len(wire) + i]
  /\ Len(inp) + Len(wire) = Len(x) =>
       \A i \in 1..Len(inp) : inp[i] \in {x[i], Spoilt(x[i])}

\* The output has the blocks up to n, or a byte cannot hold the next number.
Reached(n) == seq > n \/ seq >= ByteMod

Exchange ==
  /\ pc = "send" => c2s = <<>> /\ Quiet
  /\ pc = "creq" => \/ c2s = <<"G">> /\ Quiet
                    \/ c2s = <<>> /\ Quiet
                    \/ c2s = <<>> /\ srv = "ready" /\ Remains(<<ACK>>)
  /\ pc = "get" => \/ c2s \in {<<>>, <<"D">>} /\ Quiet
                   \/ c2s = <<"ack">> /\ Quiet /\ srv = "sending" /\ Reached(spos)
                   \/ c2s = <<>> /\ srv = "sending" /\ Remains(Block(spos))
                   \/ c2s = <<>> /\ srv = "eot" /\ Remains(<<EOT>>)

\* How far the calculator is: not past what the client has.
Near ==
  /\ srv \in {"idle", "ready"} => seq = 1
  /\ srv = "sending" => spos \in 1..NBlocks /\ Reached(spos - 1)
  /\ srv = "eot" => Reached(NBlocks)

Talking == /\ Exchange /\ Near /\ ret = "none"
           /\ pc \in {"send", "creq"} => srv \in {"idle", "ready"}
           /\ pc = "get" => srv \in {"ready", "sending", "eot"}

Ended == /\ Quiet /\ Near
         /\ c2s = <<>> \/ (c2s = <<"ack">> /\ srv = "eot")
         /\ ret = "len" => Reached(NBlocks)

Turn == ~early => /\ Ordered
                  /\ pc # "done" => Talking
                  /\ pc = "done" /\ ~misread /\ MaxFaults < BlockLen - 1 => Ended

Inv == TypeOK /\ Counts /\ Together /\ Turn

-----------------------------------------------------------------------------
(* Bytes and cells *)

LEMMA ConstantFacts ==
  /\ NBlocks \in Nat /\ ByteMod \in Nat /\ ByteMod > 21
  /\ Tries \in Nat /\ Tries > 0 /\ MaxFaults \in Nat
BY HpXmodemAssumption

\* The number of a block is a byte, and its own as long as bytes suffice.
LEMMA NumberFacts ==
  ASSUME NEW n \in Nat
  PROVE  Number(n) \in 0..ByteMod - 1 /\ (n < ByteMod => Number(n) = n)
<1>1. ByteMod \in Nat /\ ByteMod > 0
  BY ConstantFacts
<1>2. n % ByteMod \in 0..ByteMod - 1 /\ n = ByteMod * (n \div ByteMod) + (n % ByteMod)
  BY <1>1
<1> DEFINE q == n \div ByteMod
<1>3. q \in Int
  BY <1>1
<1>4. ASSUME n < ByteMod  PROVE n % ByteMod = n
  <2> HIDE DEF q
  <2>1. n = ByteMod * q + (n % ByteMod)
    BY <1>2 DEF q
  <2>2. q >= 1 => ByteMod * q >= ByteMod
    BY <1>1, <1>3
  <2>3. q <= -1 => ByteMod * q <= -ByteMod
    BY <1>1, <1>3
  <2>4. q = 0
    BY <1>1, <1>2, <1>3, <1>4, <2>1, <2>2, <2>3
  <2>5. QED
    BY <1>1, <1>2, <2>1, <2>4
<1>5. QED
  BY <1>2, <1>4 DEF Number

LEMMA CellFacts ==
  /\ {SOH, EOT, ACK, Damaged, BadData} \subseteq Cells
  /\ \A n \in 1..NBlocks : /\ Block(n) \in Seq(Cells) /\ Len(Block(n)) = 4
                           /\ Block(n)[1] = SOH /\ Block(n)[2] = Number(n)
                           /\ Block(n)[3] = Complement(Number(n)) /\ Block(n)[4] = Data(n)
  /\ <<EOT>> \in Seq(Cells) /\ <<ACK>> \in Seq(Cells)
  /\ Cells \subseteq Nat
<1> USE ConstantFacts DEF Cells, SOH, EOT, ACK, Damaged, BadData, Data
<1>1. {SOH, EOT, ACK, Damaged, BadData} \subseteq Cells /\ Cells \subseteq Nat
  OBVIOUS
<1>2. ASSUME NEW n \in 1..NBlocks
      PROVE  /\ Block(n) \in Seq(Cells) /\ Len(Block(n)) = 4
             /\ Block(n)[1] = SOH /\ Block(n)[2] = Number(n)
             /\ Block(n)[3] = Complement(Number(n)) /\ Block(n)[4] = Data(n)
  <2>1. Number(n) \in Cells /\ Complement(Number(n)) \in Cells
    BY NumberFacts DEF Complement
  <2>2. QED
    BY <2>1 DEF Block
<1>3. QED
  BY <1>1, <1>2

-----------------------------------------------------------------------------
(* Types and counts *)

LEMMA InitTyped == Init => TypeOK /\ Counts
<1> SUFFICES ASSUME Init  PROVE TypeOK /\ Counts
  OBVIOUS
<1>1. /\ out \in Seq(1..NBlocks) /\ inp \in Seq(Cells) /\ wire \in Seq(Cells)
      /\ c2s \in Seq(ClientBytes) /\ Len(out) = 0
  BY DEF Init
<1>2. /\ tries \in 0..Tries /\ resend_tries \in 0..Tries /\ tries > 0 /\ resend_tries > 0
      /\ seq \in Nat \ {0} /\ len \in Nat /\ spos \in 0..NBlocks /\ faults \in 0..MaxFaults
      /\ len = 0 /\ seq = 0 + 1
  BY ConstantFacts DEF Init
<1>3. early \in BOOLEAN /\ misread \in BOOLEAN /\ hung \in BOOLEAN
  BY DEF Init
<1>4. /\ pc = "send" /\ pc \in {"send", "creq", "get", "spin", "done"} /\ ret \in {"none", "fail", "len"}
      /\ srv \in {"idle", "ready", "sending", "eot", "done"}
  BY DEF Init
<1>5. QED
  BY <1>1, <1>2, <1>3, <1>4 DEF TypeOK, Counts

\* A read takes cells off the front, and they are still cells.
LEMMA FullReadType ==
  ASSUME TypeOK, FullRead
  PROVE  /\ inp' \in Seq(Cells) /\ inp[1] \in Cells /\ inp[2] \in Cells
         /\ inp[3] \in Cells /\ inp[4] \in Cells
<1>1. inp \in Seq(Cells) /\ Len(inp) \in Nat /\ Len(inp) >= 4
  BY DEF TypeOK, FullRead, BlockLen
<1>2. inp' = SubSeq(inp, 5, Len(inp))
  BY DEF FullRead, BlockLen
<1>3. QED
  BY <1>1, <1>2

LEMMA ClientTyped ==
  ASSUME TypeOK, Counts, Client
  PROVE  TypeOK' /\ Counts'
<1> USE ConstantFacts DEF ClientBytes
<1>1. CASE SendCommand
  BY <1>1 DEF SendCommand, Write, TypeOK, Counts, serverVars, history
<1>2. CASE ReadAck
  <2>1. inp' \in Seq(Cells)
    BY <1>2 DEF ReadAck, TypeOK
  <2>2. c2s' \in Seq(ClientBytes) /\ pc' \in {"creq", "get"}
    <3>1. \/ c2s' = Append(c2s, "D") /\ pc' = "get"
          \/ c2s' = c2s /\ pc' = "creq"
      BY <1>2 DEF ReadAck, Write
    <3>2. c2s \in Seq(ClientBytes)
      BY DEF TypeOK
    <3>3. QED
      BY <3>1, <3>2
  <2>3. QED
    BY <1>2, <2>1, <2>2 DEF ReadAck, TypeOK, Counts, serverVars, history
<1>3. CASE NoAck
  BY <1>3 DEF NoAck, TimesOut, UnderWay, TriesLeft, TypeOK, Counts, serverVars
<1>4. CASE NoData
  <2>1. c2s' \in Seq(ClientBytes) /\ early' \in BOOLEAN
    <3>1. early' = (early \/ UnderWay) /\ early \in BOOLEAN /\ UnderWay \in BOOLEAN
      BY <1>4 DEF NoData, TimesOut, UnderWay, TypeOK
    <3>2. c2s' = c2s \/ c2s' = Append(c2s, "D")
      BY <1>4 DEF NoData, Write
    <3>3. early' \in BOOLEAN
      BY <3>1, Zenon
    <3>4. c2s \in Seq(ClientBytes)
      BY DEF TypeOK
    <3>5. c2s' \in Seq(ClientBytes)
      BY <3>2, <3>4
    <3>6. QED
      BY <3>3, <3>5
  <2>2. QED
    BY <1>4, <2>1 DEF NoData, TriesLeft, TypeOK, Counts, serverVars
<1>5. CASE ShortEOT
  BY <1>5 DEF ShortEOT, ShortRead, Fragment, TimesOut, UnderWay, Write, TypeOK, Counts, serverVars
<1>6. CASE ShortCancel
  BY <1>6 DEF ShortCancel, ShortRead, TimesOut, UnderWay, TypeOK, Counts, serverVars
<1>7. CASE ShortOther
  BY <1>7 DEF ShortOther, ShortRead, TimesOut, UnderWay, TypeOK, Counts, clientVars, serverVars
<1>8. CASE BadHeader
  BY <1>8, FullReadType DEF BadHeader, FullRead, Write, TypeOK, Counts, serverVars
<1>9. CASE LostBlock
  <2>1. c2s' \in Seq(ClientBytes)
    BY <1>9 DEF LostBlock, TypeOK
  <2>2. misread' \in BOOLEAN
    BY <1>9 DEF LostBlock, Shows, Misplaced, TypeOK
  <2>3. QED
    BY <1>9, <2>1, <2>2, FullReadType DEF LostBlock, FullRead, TypeOK, Counts, serverVars
<1>10. CASE OldBlock
  BY <1>10, FullReadType DEF OldBlock, Shows, Misplaced, FullRead, Write, TypeOK, Counts, serverVars
<1>11. CASE BadCRC
  BY <1>11, FullReadType DEF BadCRC, Shows, Misplaced, FullRead, Write, TypeOK, Counts, serverVars
<1>12. CASE GoodBlock
  <2>1. inp[4] - BadData \in 1..NBlocks
    BY <1>12, FullReadType DEF GoodBlock, CRCOK, Cells, Data, BadData
  <2>2. out' \in Seq(1..NBlocks) /\ Len(out') = Len(out) + 1
    BY <1>12, <2>1 DEF GoodBlock, TypeOK
  <2>3. c2s' \in Seq(ClientBytes) /\ misread' \in BOOLEAN /\ inp' \in Seq(Cells)
    BY <1>12, FullReadType DEF GoodBlock, Shows, Misplaced, Write, TypeOK
  <2>4. len' = len + 1 /\ seq' = seq + 1 /\ len \in Nat /\ seq \in Nat
    BY <1>12 DEF GoodBlock, TypeOK
  <2>5. UNCHANGED <<pc, ret, tries, resend_tries, serverVars, wire, faults, hung, early>>
    BY <1>12 DEF GoodBlock, FullRead
  <2>6. QED
    BY <2>2, <2>3, <2>4, <2>5 DEF TypeOK, Counts, serverVars
<1>13. CASE PollSpins
  BY <1>13 DEF PollSpins, TypeOK, Counts, serverVars, history
<1>14. QED
  BY <1>1, <1>2, <1>3, <1>4, <1>5, <1>6, <1>7, <1>8, <1>9, <1>10, <1>11, <1>12, <1>13 DEF Client

\* The calculator's answers are the two control codes and the file's blocks.
Answers == {<<ACK>>, <<EOT>>} \union {Block(n) : n \in 1..NBlocks}

LEMMA ServerSends ==
  ASSUME TypeOK, ServerCommand \/ ServerData \/ ServerAck
  PROVE  /\ spos' \in 0..NBlocks /\ srv' \in {"ready", "sending", "eot"}
         /\ \E x \in Answers : wire' = wire \o x
         /\ UNCHANGED <<clientVars, inp, faults, hung, history>>
         /\ c2s # <<>> /\ c2s' = Tail(c2s)
<1> USE ConstantFacts DEF TypeOK
<1>1. CASE ServerCommand
  <2>1. <<ACK>> \in Answers /\ wire' = wire \o <<ACK>>
    BY <1>1 DEF Answers, ServerCommand, Emit
  <2>2. \E x \in Answers : wire' = wire \o x
    BY <2>1, Zenon
  <2>3. /\ spos' \in 0..NBlocks /\ srv' \in {"ready", "sending", "eot"}
        /\ UNCHANGED <<clientVars, inp, faults, hung, history>>
        /\ c2s # <<>> /\ c2s' = Tail(c2s)
    BY <1>1 DEF ServerCommand, Hears
  <2>4. QED
    BY <2>2, <2>3
<1>2. CASE ServerData \/ ServerAck
  <2>1. spos' \in 0..NBlocks /\ srv' \in {"sending", "eot"}
    BY <1>2 DEF ServerData, ServerAck
  <2>2. Answer \in Answers
    BY <2>1 DEF Answer, Answers
  <2>3. QED
    BY <1>2, <2>1, <2>2 DEF ServerData, ServerAck, Hears, Emit
<1>3. QED
  BY <1>1, <1>2

LEMMA ServerTyped ==
  ASSUME TypeOK, Counts, Server
  PROVE  TypeOK' /\ Counts'
<1>1. CASE ServerCommand \/ ServerData \/ ServerAck
  <2>1. PICK x \in Answers : wire' = wire \o x
    BY <1>1, ServerSends
  <2>2. x \in Seq(Cells)
    BY CellFacts DEF Answers
  <2>3. wire \in Seq(Cells) /\ c2s \in Seq(ClientBytes)
    BY DEF TypeOK
  <2>4. wire' \in Seq(Cells)
    BY <2>1, <2>2, <2>3
  <2>5. /\ spos' \in 0..NBlocks /\ srv' \in {"ready", "sending", "eot"}
        /\ UNCHANGED <<clientVars, inp, faults, hung, history>>
        /\ c2s # <<>> /\ c2s' = Tail(c2s)
    BY <1>1, ServerSends
  <2>6. c2s' \in Seq(ClientBytes)
    BY <2>3, <2>5
  <2>7. QED
    BY <2>4, <2>5, <2>6 DEF TypeOK, Counts, clientVars, history
<1>2. CASE ServerEnd \/ ServerDrop
  <2>1. c2s # <<>> /\ c2s' = Tail(c2s) /\ spos' = spos /\ srv' \in {srv, "done"}
    BY <1>2 DEF ServerEnd, ServerDrop, Hears, serverVars
  <2>2. c2s' \in Seq(ClientBytes)
    BY <2>1 DEF TypeOK
  <2>3. UNCHANGED <<clientVars, inp, wire, faults, hung, history>>
    BY <1>2 DEF ServerEnd, ServerDrop
  <2>4. QED
    BY <2>1, <2>2, <2>3 DEF TypeOK, Counts, clientVars, history
<1>3. QED
  BY <1>1, <1>2 DEF Server

\* The sequence z is u followed by the sequence x.
Joined(z, u, x) ==
  /\ Len(z) = Len(u) + Len(x)
  /\ \A i \in 1..Len(u) : z[i] = u[i]
  /\ \A i \in 1..Len(x) : z[Len(u) + i] = x[i]

LEMMA ConcatJoins ==
  ASSUME NEW S, NEW u \in Seq(S), NEW x \in Seq(S)
  PROVE  u \o x \in Seq(S) /\ Joined(u \o x, u, x)
<1>1. u \o x \in Seq(S) /\ Len(u \o x) = Len(u) + Len(x)
  OBVIOUS
<1>2. ASSUME NEW i \in 1..Len(u)  PROVE (u \o x)[i] = u[i]
  <2>1. Len(u) \in Nat /\ Len(x) \in Nat
    OBVIOUS
  <2>2. i \in 1..Len(u) + Len(x) /\ i <= Len(u)
    BY <2>1
  <2>3. QED
    BY <2>2
<1>3. ASSUME NEW i \in 1..Len(x)  PROVE (u \o x)[Len(u) + i] = x[i]
  <2>1. Len(u) \in Nat /\ Len(x) \in Nat
    OBVIOUS
  <2>2. Len(u) + i \in 1..Len(u) + Len(x) /\ Len(u) + i > Len(u) /\ (Len(u) + i) - Len(u) = i
    BY <2>1
  <2>3. QED
    BY <2>2
<1>4. QED
  BY <1>1, <1>2, <1>3 DEF Joined

\* What is under way arrives cell by cell.
LEMMA DeliverMoves ==
  ASSUME TypeOK, Deliver
  PROVE  \E n \in 1..Len(wire) :
           /\ inp' \in Seq(Cells) /\ Len(inp') = Len(inp) + n
           /\ \A i \in 1..Len(inp) : inp'[i] = inp[i]
           /\ \A i \in 1..n : inp'[Len(inp) + i] = wire[i]
           /\ wire' \in Seq(Cells) /\ Len(wire') = Len(wire) - n
           /\ \A i \in 1..Len(wire) - n : wire'[i] = wire[n + i]
<1>1. PICK n \in 1..Len(wire) : /\ inp' = inp \o SubSeq(wire, 1, n)
                                /\ wire' = SubSeq(wire, n + 1, Len(wire))
  BY DEF Deliver
<1>2. inp \in Seq(Cells) /\ wire \in Seq(Cells) /\ Len(wire) \in Nat /\ Len(inp) \in Nat
  BY DEF TypeOK
<1> DEFINE head == SubSeq(wire, 1, n)
<1>3. head \in Seq(Cells) /\ Len(head) = n /\ \A i \in 1..n : head[i] = wire[i]
  BY <1>2
<1>4. /\ wire' \in Seq(Cells) /\ Len(wire') = Len(wire) - n
      /\ \A i \in 1..Len(wire) - n : wire'[i] = wire[n + i]
  BY <1>1, <1>2
<1>5. inp' = inp \o head
  BY <1>1
<1> HIDE DEF head
<1>6. inp' \in Seq(Cells) /\ Joined(inp', inp, head)
  BY <1>2, <1>3, <1>5, ConcatJoins
<1>7. /\ Len(inp') = Len(inp) + n
      /\ \A i \in 1..Len(inp) : inp'[i] = inp[i]
      /\ \A i \in 1..n : inp'[Len(inp) + i] = wire[i]
  BY <1>3, <1>6 DEF Joined
<1>8. QED
  <2> WITNESS n \in 1..Len(wire)
  <2> QED
    BY <1>4, <1>6, <1>7

LEMMA LineTyped ==
  ASSUME TypeOK, Counts, Line
  PROVE  TypeOK' /\ Counts'
<1> USE ConstantFacts
<1>1. CASE Deliver
  <2>1. inp' \in Seq(Cells) /\ wire' \in Seq(Cells)
    BY <1>1, DeliverMoves
  <2>2. QED
    BY <1>1, <2>1 DEF Deliver, TypeOK, Counts, clientVars, serverVars, history
<1>2. CASE LoseCell \/ LoseByte
  <2>1. wire' \in Seq(Cells) /\ c2s' \in Seq(ClientBytes)
    <3>1. \/ wire # <<>> /\ wire' = Tail(wire) /\ c2s' = c2s
          \/ c2s # <<>> /\ c2s' = Tail(c2s) /\ wire' = wire
      BY <1>2 DEF LoseCell, LoseByte
    <3>2. wire \in Seq(Cells) /\ c2s \in Seq(ClientBytes)
      BY DEF TypeOK
    <3>3. CASE wire # <<>> /\ wire' = Tail(wire) /\ c2s' = c2s
      BY <3>2, <3>3
    <3>4. CASE c2s # <<>> /\ c2s' = Tail(c2s) /\ wire' = wire
      BY <3>2, <3>4
    <3>5. QED
      BY <3>1, <3>3, <3>4
  <2>2. UNCHANGED <<clientVars, serverVars, inp, hung, history>> /\ faults' \in 0..MaxFaults
    BY <1>2 DEF LoseCell, LoseByte, TypeOK
  <2>3. QED
    BY <2>1, <2>2 DEF TypeOK, Counts, clientVars, serverVars, history
<1>3. CASE DamageCell
  <2>1. inp' \in Seq(Cells) /\ wire' \in Seq(Cells)
    BY <1>3, CellFacts DEF DamageCell, TypeOK
  <2>2. QED
    BY <1>3, <2>1 DEF DamageCell, TypeOK, Counts, clientVars, serverVars, history
<1>4. CASE HangUp
  BY <1>4 DEF HangUp, TypeOK, Counts, clientVars, serverVars, history
<1>5. QED
  BY <1>1, <1>2, <1>3, <1>4 DEF Line

LEMMA NextTyped ==
  ASSUME TypeOK, Counts, [Next]_vars
  PROVE  TypeOK' /\ Counts'
<1>1. CASE UNCHANGED vars
  BY <1>1 DEF vars, clientVars, serverVars, history, TypeOK, Counts
<1>2. QED
  BY <1>1, ClientTyped, ServerTyped, LineTyped DEF Next

-----------------------------------------------------------------------------
(* A complement and the data behind it are of one block *)

\* What the cells of an answer look like where numbers and complements can be
\* told apart: only the last cell of a block is data, only the one before it is a
\* complement.
LEMMA AnswerCells ==
  ASSUME Tellable, NEW x \in Answers
  PROVE  /\ x \in Seq(Cells) /\ Len(x) \in {1, 4}
         /\ \A i \in 1..Len(x), k \in 1..NBlocks : x[i] = Data(k) =>
              i = 4 /\ x[3] = Complement(k) /\ x[2] = k /\ x[1] = SOH
         /\ \A i \in 1..Len(x), m \in 1..NBlocks + 1 : x[i] = Complement(m) =>
              i = 3 /\ Len(x) = 4 /\ x[4] = Data(m)
<1> USE ConstantFacts DEF Data, BadData, Complement, SOH, EOT, ACK
<1>1. 2 * NBlocks + 7 < ByteMod
  BY DEF Tellable
<1>2. CASE x \in {<<ACK>>, <<EOT>>}
  <2>1. x \in Seq(Cells) /\ Len(x) = 1 /\ x[1] \in {4, 6}
    BY <1>2, CellFacts
  <2>2. QED
    BY <1>1, <2>1
<1>3. ASSUME NEW n \in 1..NBlocks, x = Block(n)
      PROVE  /\ x \in Seq(Cells) /\ Len(x) \in {1, 4}
             /\ \A i \in 1..Len(x), k \in 1..NBlocks : x[i] = Data(k) =>
                  i = 4 /\ x[3] = Complement(k) /\ x[2] = k /\ x[1] = SOH
             /\ \A i \in 1..Len(x), m \in 1..NBlocks + 1 : x[i] = Complement(m) =>
                  i = 3 /\ Len(x) = 4 /\ x[4] = Data(m)
  <2>1. Number(n) = n
    BY <1>1, NumberFacts
  <2>2. /\ x \in Seq(Cells) /\ Len(x) = 4
        /\ x[1] = SOH /\ x[2] = n /\ x[3] = Complement(n) /\ x[4] = Data(n)
    BY <1>3, <2>1, CellFacts
  <2>3. QED
    BY <1>1, <2>2
<1>4. QED
  BY <1>2, <1>3 DEF Answers

LEMMA CleanJoined ==
  ASSUME Tellable, NEW w \in Seq(Cells), NEW x \in Answers, NEW z \in Seq(Cells),
         Joined(z, w, x), Clean(w)
  PROVE  Clean(z)
<1>1. /\ x \in Seq(Cells) /\ Len(x) \in {1, 4} /\ Len(w) \in Nat
      /\ Len(z) = Len(w) + Len(x)
  BY AnswerCells DEF Joined
<1> SUFFICES ASSUME NEW j \in 1..Len(z)
             PROVE  /\ \A k \in 1..NBlocks : z[j] = Data(k) =>
                         /\ j >= 2 => z[j - 1] = Complement(k)
                         /\ j >= 3 => z[j - 2] = k
                         /\ j >= 4 => z[j - 3] = SOH
                    /\ \A m \in 1..NBlocks + 1 : z[j] = Complement(m) =>
                         j < Len(z) /\ z[j + 1] = Data(m)
  BY DEF Clean
<1>2. CASE j <= Len(w)
  <2>1. j \in 1..Len(w) /\ \A i \in 1..Len(w) : z[i] = w[i]
    BY <1>1, <1>2 DEF Joined
  <2>2. ASSUME NEW k \in 1..NBlocks, z[j] = Data(k)
        PROVE  /\ j >= 2 => z[j - 1] = Complement(k)
               /\ j >= 3 => z[j - 2] = k
               /\ j >= 4 => z[j - 3] = SOH
    <3>1. w[j] = Data(k)
      BY <2>1, <2>2
    <3>2. /\ j >= 2 => w[j - 1] = Complement(k)
          /\ j >= 3 => w[j - 2] = k
          /\ j >= 4 => w[j - 3] = SOH
      BY <2>1, <3>1 DEF Clean
    <3>3. /\ j >= 2 => j - 1 \in 1..Len(w)
          /\ j >= 3 => j - 2 \in 1..Len(w)
          /\ j >= 4 => j - 3 \in 1..Len(w)
      BY <1>1, <2>1
    <3>4. QED
      BY <2>1, <3>2, <3>3
  <2>3. ASSUME NEW m \in 1..NBlocks + 1, z[j] = Complement(m)
        PROVE  j < Len(z) /\ z[j + 1] = Data(m)
    <3>1. w[j] = Complement(m)
      BY <2>1, <2>3
    <3>2. j < Len(w) /\ w[j + 1] = Data(m)
      BY <2>1, <3>1 DEF Clean
    <3>3. j + 1 \in 1..Len(w)
      BY <1>1, <2>1, <3>2
    <3>4. QED
      BY <1>1, <2>1, <3>2, <3>3
  <2>4. QED
    BY <2>2, <2>3
<1>3. CASE j > Len(w)
  <2> DEFINE i == j - Len(w)
  <2>1. i \in 1..Len(x) /\ j = Len(w) + i
    BY <1>1, <1>3
  <2> HIDE DEF i
  <2>2. \A d \in 1..Len(x) : z[Len(w) + d] = x[d]
    BY DEF Joined
  <2>3. z[j] = x[i]
    BY <2>1, <2>2
  <2>4. ASSUME NEW k \in 1..NBlocks, z[j] = Data(k)
        PROVE  z[j - 1] = Complement(k) /\ z[j - 2] = k /\ z[j - 3] = SOH
    <3>1. i = 4 /\ x[3] = Complement(k) /\ x[2] = k /\ x[1] = SOH
      <4>1. i \in 1..Len(x) /\ x[i] = Data(k)
        BY <2>1, <2>3, <2>4
      <4>2. QED
        BY <4>1, AnswerCells
    <3>2. /\ 1 \in 1..Len(x) /\ 2 \in 1..Len(x) /\ 3 \in 1..Len(x)
          /\ j - 1 = Len(w) + 3 /\ j - 2 = Len(w) + 2 /\ j - 3 = Len(w) + 1
      BY <1>1, <2>1, <3>1
    <3>3. QED
      BY <2>2, <3>1, <3>2
  <2>5. ASSUME NEW m \in 1..NBlocks + 1, z[j] = Complement(m)
        PROVE  j < Len(z) /\ z[j + 1] = Data(m)
    <3>1. i = 3 /\ Len(x) = 4 /\ x[4] = Data(m)
      <4>1. i \in 1..Len(x) /\ x[i] = Complement(m)
        BY <2>1, <2>3, <2>5
      <4>2. QED
        BY <4>1, AnswerCells
    <3>2. 4 \in 1..Len(x) /\ j + 1 = Len(w) + 4 /\ j < Len(z)
      BY <1>1, <2>1, <3>1
    <3>3. QED
      BY <2>2, <3>1, <3>2
  <2>6. QED
    BY <2>4, <2>5
<1>4. QED
  BY <1>1, <1>2, <1>3

\* The sequence z is u without its first n elements.
Dropped(z, u, n) ==
  /\ Len(z) = Len(u) - n
  /\ \A i \in 1..Len(u) - n : z[i] = u[n + i]

LEMMA CleanDropped ==
  ASSUME NEW w \in Seq(Cells), NEW n \in 0..Len(w), NEW z \in Seq(Cells),
         Dropped(z, w, n), Clean(w)
  PROVE  Clean(z)
<1>1. Len(w) \in Nat /\ n \in Nat /\ Len(z) = Len(w) - n /\ Len(z) \in Nat
  BY DEF Dropped
<1> SUFFICES ASSUME NEW j \in 1..Len(z)
             PROVE  /\ \A k \in 1..NBlocks : z[j] = Data(k) =>
                         /\ j >= 2 => z[j - 1] = Complement(k)
                         /\ j >= 3 => z[j - 2] = k
                         /\ j >= 4 => z[j - 3] = SOH
                    /\ \A m \in 1..NBlocks + 1 : z[j] = Complement(m) =>
                         j < Len(z) /\ z[j + 1] = Data(m)
  BY DEF Clean
<1>2. n + j \in 1..Len(w) /\ z[j] = w[n + j] /\ \A i \in 1..Len(z) : z[i] = w[n + i]
  BY <1>1 DEF Dropped
<1>3. ASSUME NEW k \in 1..NBlocks, z[j] = Data(k)
      PROVE  /\ j >= 2 => z[j - 1] = Complement(k)
             /\ j >= 3 => z[j - 2] = k
             /\ j >= 4 => z[j - 3] = SOH
  <2>1. w[n + j] = Data(k)
    BY <1>2, <1>3
  <2>2. /\ n + j >= 2 => w[(n + j) - 1] = Complement(k)
        /\ n + j >= 3 => w[(n + j) - 2] = k
        /\ n + j >= 4 => w[(n + j) - 3] = SOH
    BY <1>2, <2>1 DEF Clean
  <2>3. /\ (n + j) - 1 = n + (j - 1) /\ (n + j) - 2 = n + (j - 2)
        /\ (n + j) - 3 = n + (j - 3)
        /\ j >= 2 => j - 1 \in 1..Len(z) /\ n + j >= 2
        /\ j >= 3 => j - 2 \in 1..Len(z) /\ n + j >= 3
        /\ j >= 4 => j - 3 \in 1..Len(z) /\ n + j >= 4
    BY <1>1
  <2>4. QED
    BY <1>2, <2>2, <2>3
<1>4. ASSUME NEW m \in 1..NBlocks + 1, z[j] = Complement(m)
      PROVE  j < Len(z) /\ z[j + 1] = Data(m)
  <2>1. n + j < Len(w) /\ w[(n + j) + 1] = Data(m)
    BY <1>2, <1>4 DEF Clean
  <2>2. (n + j) + 1 = n + (j + 1) /\ j + 1 \in 1..Len(z) /\ j < Len(z)
    BY <1>1, <2>1
  <2>3. QED
    BY <1>2, <2>1, <2>2
<1>5. QED
  BY <1>3, <1>4

\* A read takes cells off the front of what has arrived.
LEMMA TogetherDropped ==
  ASSUME NEW s \in Seq(Cells), NEW w \in Seq(Cells), NEW f \in Nat,
         NEW n \in 0..Len(s), NEW z \in Seq(Cells),
         Dropped(z, s, n), Fits(s), Junction(s, w, f)
  PROVE  Fits(z) /\ Junction(z, w, f)
<1>1. Len(s) \in Nat /\ n \in Nat /\ Len(z) = Len(s) - n /\ Len(z) \in Nat
  BY DEF Dropped
<1>2. \A i \in 1..Len(z) : z[i] = s[n + i]
  BY <1>1 DEF Dropped
<1>3. ASSUME NEW j \in 1..Len(z) - 1, NEW m \in 1..NBlocks + 1, NEW k \in 1..NBlocks,
             z[j] = Complement(m), z[j + 1] = Data(k)
      PROVE  m = k
  <2>1. /\ n + j \in 1..Len(s) - 1 /\ j \in 1..Len(z) /\ j + 1 \in 1..Len(z)
        /\ n + (j + 1) = (n + j) + 1
    BY <1>1
  <2>2. s[n + j] = Complement(m) /\ s[(n + j) + 1] = Data(k)
    BY <1>2, <1>3, <2>1
  <2>3. QED
    BY <2>1, <2>2 DEF Fits
<1>4. ASSUME NEW m \in 1..NBlocks + 1, z # <<>>, z[Len(z)] = Complement(m)
      PROVE  /\ w = <<>> => f >= 1
             /\ \A i \in 1..Len(w) : \A k \in 1..NBlocks :
                  w[i] = Data(k) => (i = 1 /\ k = m) \/ f + i >= 5
  <2>1. Len(z) \in 1..Len(z) /\ n + Len(z) = Len(s) /\ s # <<>>
    BY <1>1, <1>4
  <2>2. s[Len(s)] = Complement(m)
    BY <1>2, <1>4, <2>1
  <2>3. QED
    BY <2>1, <2>2 DEF Junction
<1>5. QED
  BY <1>3, <1>4 DEF Fits, Junction

LEMMA SumNotEmpty ==
  ASSUME NEW z, NEW a \in Nat, NEW b \in {1, 4}, Len(z) = a + b
  PROVE  z # <<>>
OBVIOUS

\* The calculator sends an answer behind what is under way.
LEMMA JunctionJoined ==
  ASSUME Tellable, NEW s \in Seq(Cells), NEW w \in Seq(Cells), NEW f \in Nat,
         NEW x \in Answers, NEW z \in Seq(Cells), Joined(z, w, x), Junction(s, w, f)
  PROVE  Junction(s, z, f)
<1> SUFFICES ASSUME NEW m \in 1..NBlocks + 1, s # <<>>, s[Len(s)] = Complement(m)
             PROVE  /\ z = <<>> => f >= 1
                    /\ \A i \in 1..Len(z) : \A k \in 1..NBlocks :
                         z[i] = Data(k) => (i = 1 /\ k = m) \/ f + i >= 5
  BY DEF Junction
<1>1. /\ x \in Seq(Cells) /\ Len(x) \in {1, 4} /\ Len(w) \in Nat
      /\ Len(z) = Len(w) + Len(x) /\ \A i \in 1..Len(w) : z[i] = w[i]
      /\ \A i \in 1..Len(x) : z[Len(w) + i] = x[i]
  BY AnswerCells DEF Joined
<1>2. /\ w = <<>> => f >= 1
      /\ \A i \in 1..Len(w) : \A k \in 1..NBlocks :
           w[i] = Data(k) => (i = 1 /\ k = m) \/ f + i >= 5
  BY DEF Junction
<1>3. z # <<>>
  BY <1>1, SumNotEmpty
<1>4. ASSUME NEW j \in 1..Len(z), NEW k \in 1..NBlocks, z[j] = Data(k)
      PROVE  (j = 1 /\ k = m) \/ f + j >= 5
  <2>1. CASE j <= Len(w)
    <3>1. j \in 1..Len(w)
      BY <1>1, <2>1
    <3>2. QED
      BY <1>1, <1>2, <1>4, <3>1
  <2>2. CASE j > Len(w)
    <3>1. PICK i \in 1..Len(x) : j = Len(w) + i
      <4>1. j - Len(w) \in 1..Len(x) /\ j = Len(w) + (j - Len(w))
        BY <1>1, <2>2
      <4>2. QED
        BY <4>1
    <3>2. x[i] = Data(k)
      BY <1>1, <1>4, <3>1
    <3>3. i = 4
      BY <3>2, AnswerCells
    <3>4. w = <<>> \/ Len(w) >= 1
      BY <1>1
    <3>5. QED
      BY <1>1, <1>2, <3>1, <3>3, <3>4
  <2>3. QED
    BY <1>1, <2>1, <2>2
<1>5. QED
  BY <1>3, <1>4

\* What is under way arrives: the junction moves on.
LEMMA JunctionMoves ==
  ASSUME Tellable, NEW s \in Seq(Cells), NEW w \in Seq(Cells), NEW f \in Nat,
         f <= MaxFaults, NEW n \in 1..Len(w), NEW y \in Seq(Cells), NEW z \in Seq(Cells),
         Dropped(z, w, n), Len(y) = Len(s) + n,
         \A i \in 1..Len(s) : y[i] = s[i],
         \A i \in 1..n : y[Len(s) + i] = w[i],
         Clean(w), Fits(s), Junction(s, w, f)
  PROVE  Fits(y) /\ Junction(y, z, f)
<1>1. /\ Len(s) \in Nat /\ Len(w) \in Nat /\ n \in Nat /\ Len(z) = Len(w) - n
      /\ \A i \in 1..Len(z) : z[i] = w[n + i]
  <2>1. Len(z) = Len(w) - n /\ \A i \in 1..Len(w) - n : z[i] = w[n + i]
    BY DEF Dropped
  <2>2. Len(s) \in Nat /\ Len(w) \in Nat /\ n \in Nat
    OBVIOUS
  <2>3. QED
    BY <2>1, <2>2
<1>2. /\ \A m \in 1..NBlocks + 1 : Complement(m) \in Int /\ Complement(m) < ByteMod
      /\ \A m \in 1..NBlocks + 1, k \in 1..NBlocks : Data(m) # k /\ Data(m) # SOH
      /\ \A m \in 1..NBlocks + 1 : Data(m) > ByteMod
      /\ \A m \in 1..NBlocks + 1, k \in 1..NBlocks : Data(m) = Data(k) => m = k
      /\ f <= 3
  BY ConstantFacts DEF Tellable, BlockLen, Complement, Data, BadData, SOH
<1>3. ASSUME NEW j \in 1..Len(y) - 1, NEW m \in 1..NBlocks + 1, NEW k \in 1..NBlocks,
             y[j] = Complement(m), y[j + 1] = Data(k)
      PROVE  m = k
  <2>1. CASE j < Len(s)
    <3>1. j \in 1..Len(s) - 1 /\ j \in 1..Len(s) /\ j + 1 \in 1..Len(s)
      BY <1>1, <2>1
    <3>2. s[j] = Complement(m) /\ s[j + 1] = Data(k)
      BY <1>3, <3>1
    <3>3. QED
      BY <3>1, <3>2 DEF Fits
  <2>2. CASE j = Len(s)
    <3>1. s # <<>> /\ s[Len(s)] = Complement(m)
      BY <1>1, <1>3, <2>2
    <3>2. 1 \in 1..n /\ 1 \in 1..Len(w) /\ w[1] = Data(k)
      BY <1>1, <1>3, <2>2
    <3>3. (1 = 1 /\ k = m) \/ f + 1 >= 5
      BY <3>1, <3>2 DEF Junction
    <3>4. QED
      BY <1>2, <3>3
  <2>3. CASE j > Len(s)
    <3>1. PICK i \in 1..n - 1 : j = Len(s) + i
      <4>1. j - Len(s) \in 1..n - 1 /\ j = Len(s) + (j - Len(s))
        BY <1>1, <2>3
      <4>2. QED
        BY <4>1
    <3>2. i \in 1..n /\ i + 1 \in 1..n /\ i \in 1..Len(w) /\ j + 1 = Len(s) + (i + 1)
      BY <1>1, <3>1
    <3>3. w[i] = Complement(m) /\ w[i + 1] = Data(k)
      BY <1>3, <3>1, <3>2
    <3>4. w[i + 1] = Data(m)
      BY <3>2, <3>3 DEF Clean
    <3>5. QED
      BY <1>2, <3>3, <3>4
  <2>4. QED
    BY <1>1, <2>1, <2>2, <2>3
<1>4. ASSUME NEW m \in 1..NBlocks + 1, y # <<>>, y[Len(y)] = Complement(m)
      PROVE  /\ z = <<>> => f >= 1
             /\ \A i \in 1..Len(z) : \A k \in 1..NBlocks :
                  z[i] = Data(k) => (i = 1 /\ k = m) \/ f + i >= 5
  <2>1. w[n] = Complement(m)
    BY <1>1, <1>4
  <2>2. n < Len(w) /\ w[n + 1] = Data(m)
    BY <2>1 DEF Clean
  <2>3. z # <<>>
    BY <1>1, <2>2
  <2>4. ASSUME NEW i \in 1..Len(z), NEW k \in 1..NBlocks, z[i] = Data(k)
        PROVE  (i = 1 /\ k = m) \/ f + i >= 5
    <3>1. n + i \in 1..Len(w) /\ w[n + i] = Data(k)
      BY <1>1, <2>4
    <3>2. /\ w[(n + i) - 1] = Complement(k)
          /\ n + i >= 3 => w[(n + i) - 2] = k
          /\ n + i >= 4 => w[(n + i) - 3] = SOH
      BY <1>1, <3>1 DEF Clean
    <3>3. i = 1 => k = m
      BY <1>2, <2>2, <3>1
    <3>4. i = 2 => (n + i) - 1 = n + 1
      BY <1>1
    <3>5. i = 3 => (n + i) - 2 = n + 1 /\ n + i >= 3
      BY <1>1
    <3>6. i = 4 => (n + i) - 3 = n + 1 /\ n + i >= 4
      BY <1>1
    <3>7. i # 2
      <4>1. Complement(k) < ByteMod /\ Complement(k) \in Int /\ Data(m) > ByteMod
        BY <1>2, ConstantFacts
      <4>2. QED
        BY <2>2, <3>2, <3>4, <4>1, ConstantFacts
    <3>8. i # 3
      BY <1>2, <2>2, <3>2, <3>5
    <3>9. i # 4
      BY <1>2, <2>2, <3>2, <3>6
    <3>10. QED
      BY <1>1, <3>3, <3>7, <3>8, <3>9
  <2>5. QED
    BY <2>3, <2>4
<1>5. QED
  BY <1>3, <1>4 DEF Fits, Junction

LEMMA RestDropped ==
  ASSUME NEW S, NEW u \in Seq(S), NEW n \in 0..Len(u)
  PROVE  Dropped(SubSeq(u, n + 1, Len(u)), u, n)
<1>1. Len(u) \in Nat /\ n \in Nat /\ n <= Len(u)
  OBVIOUS
<1>2. Len(SubSeq(u, n + 1, Len(u))) = Len(u) - n
  BY <1>1
<1>3. ASSUME NEW i \in 1..Len(u) - n  PROVE SubSeq(u, n + 1, Len(u))[i] = u[n + i]
  BY <1>1
<1>4. QED
  BY <1>2, <1>3 DEF Dropped

LEMMA ClientReads ==
  ASSUME TypeOK, Client
  PROVE  /\ UNCHANGED <<wire, faults>>
         /\ \E n \in 0..Len(inp) : Dropped(inp', inp, n)
         /\ out' = out \/ GoodBlock
<1>1. /\ UNCHANGED <<wire, faults>> /\ (out' = out \/ GoodBlock)
      /\ inp' = inp \/ inp' = <<>> \/ (inp # <<>> /\ inp' = Tail(inp)) \/ FullRead
  BY DEF Client, PollSpins, SendCommand, ReadAck, NoAck, NoData, ShortEOT, ShortCancel, ShortOther,
         ShortRead, BadHeader, LostBlock, OldBlock, BadCRC, GoodBlock, FullRead, clientVars
<1>2. inp \in Seq(Cells) /\ Len(inp) \in Nat
  BY DEF TypeOK
<1>3. CASE inp' = inp
  <2>1. Dropped(inp', inp, 0) /\ 0 \in 0..Len(inp)
    BY <1>2, <1>3 DEF Dropped
  <2>2. QED
    BY <1>1, <2>1
<1>4. CASE inp' = <<>>
  <2>1. Dropped(inp', inp, Len(inp)) /\ Len(inp) \in 0..Len(inp)
    BY <1>2, <1>4 DEF Dropped
  <2>2. QED
    BY <1>1, <2>1
<1>5. CASE inp # <<>> /\ inp' = Tail(inp)
  <2>1. Len(inp) >= 1
    BY <1>2, <1>5
  <2>2. Dropped(inp', inp, 1) /\ 1 \in 0..Len(inp)
    BY <1>2, <1>5, <2>1 DEF Dropped
  <2>3. QED
    BY <1>1, <2>2
<1>6. CASE FullRead
  <2>1. Len(inp) >= 4 /\ inp' = SubSeq(inp, 4 + 1, Len(inp))
    BY <1>6 DEF FullRead, BlockLen
  <2>2. Dropped(inp', inp, 4) /\ 4 \in 0..Len(inp)
    BY <1>2, <2>1, RestDropped
  <2>3. QED
    BY <1>1, <2>2
<1>7. QED
  BY <1>1, <1>3, <1>4, <1>5, <1>6

\* An ordered output is no longer than the file.
LEMMA OrderedFits ==
  ASSUME TypeOK, Ordered
  PROVE  Len(out) \in Nat /\ Len(out) <= NBlocks
<1> USE ConstantFacts
<1>1. out \in Seq(1..NBlocks) /\ Len(out) \in Nat
  BY DEF TypeOK
<1>2. CASE Len(out) = 0
  BY <1>1, <1>2
<1>3. CASE Len(out) > 0
  <2>1. out[Len(out)] \in 1..NBlocks /\ out[Len(out)] = Len(out)
    BY <1>1, <1>3 DEF Ordered
  <2>2. QED
    BY <1>1, <2>1
<1>4. QED
  BY <1>1, <1>2, <1>3

\* Its number and its data show the block that is due.
LEMMA GoodBlockIsDue ==
  ASSUME TypeOK, Counts, Tellable, Fits(inp), Ordered, GoodBlock
  PROVE  out' = Append(out, seq)
<1> USE ConstantFacts
<1>1. /\ seq \in Nat /\ seq >= 1 /\ out \in Seq(1..NBlocks) /\ Len(out) \in Nat
      /\ seq = Len(out) + 1 /\ inp \in Seq(Cells) /\ Len(inp) \in Nat
  BY DEF TypeOK, Counts
<1>2. Len(out) <= NBlocks
  BY OrderedFits
<1>3. Len(inp) >= 4 /\ ~Misplaced /\ inp[4] > BadData /\ seq \in Numbers
  BY DEF GoodBlock, FullRead, CRCOK, Shows, BlockLen
<1>4. seq = inp[2] /\ inp[2] = Complement(inp[3])
  BY <1>3 DEF Numbers
<1>5. inp[3] \in Cells /\ inp[4] \in Cells
  BY <1>1, <1>3
<1>6. inp[3] = Complement(seq)
  BY <1>4, <1>5 DEF Complement, Cells, Data, BadData
<1>7. inp[4] - BadData \in 1..NBlocks /\ inp[4] = Data(inp[4] - BadData)
  BY <1>3, <1>5 DEF Cells, Data, BadData
<1>8. 3 \in 1..Len(inp) - 1 /\ seq \in 1..NBlocks + 1 /\ inp[3 + 1] = inp[4]
  BY <1>1, <1>2, <1>3
<1>9. seq = inp[4] - BadData
  BY <1>6, <1>7, <1>8 DEF Fits
<1>10. QED
  BY <1>9 DEF GoodBlock

LEMMA OrderedGrows ==
  ASSUME TypeOK, Counts, Ordered, out' = out \/ out' = Append(out, seq)
  PROVE  Ordered'
<1>1. out \in Seq(1..NBlocks) /\ Len(out) \in Nat /\ seq = Len(out) + 1
  BY DEF TypeOK, Counts
<1>2. CASE out' = out
  BY <1>2 DEF Ordered
<1>3. CASE out' = Append(out, seq)
  <2>1. /\ Len(out') = Len(out) + 1 /\ out'[Len(out) + 1] = seq
        /\ \A i \in 1..Len(out) : out'[i] = out[i]
    BY <1>1, <1>3
  <2>2. ASSUME NEW i \in 1..Len(out')  PROVE out'[i] = i
    <3>1. i \in 1..Len(out) \/ i = Len(out) + 1
      BY <1>1, <2>1
    <3>2. QED
      BY <1>1, <2>1, <3>1 DEF Ordered
  <2>3. QED
    BY <2>2 DEF Ordered
<1>4. QED
  BY <1>2, <1>3

LEMMA TogetherInit == Init => Together
<1> SUFFICES ASSUME Init  PROVE Clean(wire) /\ Fits(inp) /\ Junction(inp, wire, faults) /\ Ordered
  BY DEF Together
<1>1. wire = <<>> /\ inp = <<>> /\ Len(wire) = 0 /\ Len(inp) = 0 /\ Len(out) = 0
  BY DEF Init
<1>2. Clean(wire) /\ Fits(inp) /\ Ordered
  BY <1>1 DEF Clean, Fits, Ordered
<1>3. Junction(inp, wire, faults)
  BY <1>1 DEF Junction
<1>4. QED
  BY <1>2, <1>3

LEMMA TogetherClient ==
  ASSUME TypeOK, TypeOK', Counts, Together, Client
  PROVE  Together'
<1> SUFFICES ASSUME Tellable
             PROVE  Clean(wire') /\ Fits(inp') /\ Junction(inp', wire', faults') /\ Ordered'
  BY DEF Together, Tellable
<1>1. Clean(wire) /\ Fits(inp) /\ Junction(inp, wire, faults) /\ Ordered
  BY DEF Together
<1>2. /\ inp \in Seq(Cells) /\ inp' \in Seq(Cells) /\ wire \in Seq(Cells) /\ faults \in Nat
  BY ConstantFacts DEF TypeOK
<1>3. UNCHANGED <<wire, faults>>
  BY ClientReads
<1>4. PICK n \in 0..Len(inp) : Dropped(inp', inp, n)
  BY ClientReads
<1>5. Fits(inp') /\ Junction(inp', wire, faults)
  BY <1>1, <1>2, <1>4, TogetherDropped
<1>6. out' = out \/ out' = Append(out, seq)
  BY <1>1, ClientReads, GoodBlockIsDue
<1>7. Ordered'
  BY <1>1, <1>6, OrderedGrows
<1>8. QED
  BY <1>1, <1>3, <1>5, <1>7

LEMMA TogetherServer ==
  ASSUME TypeOK, TypeOK', Counts, Together, Server
  PROVE  Together'
<1> SUFFICES ASSUME Tellable
             PROVE  Clean(wire') /\ Fits(inp') /\ Junction(inp', wire', faults') /\ Ordered'
  BY DEF Together, Tellable
<1>1. Clean(wire) /\ Fits(inp) /\ Junction(inp, wire, faults) /\ Ordered
  BY DEF Together
<1>2. /\ inp \in Seq(Cells) /\ wire \in Seq(Cells) /\ wire' \in Seq(Cells) /\ faults \in Nat
  BY ConstantFacts DEF TypeOK
<1>3. UNCHANGED <<clientVars, inp, faults>>
  BY ServerSends DEF Server, ServerEnd, ServerDrop
<1>4. Ordered'
  BY <1>1, <1>3 DEF clientVars, Ordered
<1>5. CASE ServerEnd \/ ServerDrop
  <2>1. wire' = wire
    BY <1>5 DEF ServerEnd, ServerDrop
  <2>2. QED
    BY <1>1, <1>3, <1>4, <2>1
<1>6. CASE ServerCommand \/ ServerData \/ ServerAck
  <2>1. PICK x \in Answers : wire' = wire \o x
    BY <1>6, ServerSends
  <2>2. Joined(wire', wire, x)
    BY <1>2, <2>1, AnswerCells, ConcatJoins
  <2>3. Clean(wire') /\ Junction(inp, wire', faults)
    BY <1>1, <1>2, <2>2, CleanJoined, JunctionJoined
  <2>4. QED
    BY <1>1, <1>3, <1>4, <2>3
<1>7. QED
  BY <1>5, <1>6 DEF Server

LEMMA TogetherLine ==
  ASSUME TypeOK, TypeOK', Counts, Together, Line
  PROVE  Together'
<1> SUFFICES ASSUME Tellable
             PROVE  Clean(wire') /\ Fits(inp') /\ Junction(inp', wire', faults') /\ Ordered'
  BY DEF Together, Tellable
<1>1. Clean(wire) /\ Fits(inp) /\ Junction(inp, wire, faults) /\ Ordered
  BY DEF Together
<1>2. /\ inp \in Seq(Cells) /\ wire \in Seq(Cells) /\ inp' \in Seq(Cells) /\ wire' \in Seq(Cells)
      /\ Len(inp) \in Nat /\ Len(wire) \in Nat /\ faults \in Nat /\ faults <= MaxFaults
  BY ConstantFacts DEF TypeOK
<1>3. Ordered'
  BY <1>1 DEF Line, Deliver, LoseCell, DamageCell, LoseByte, HangUp, clientVars, Ordered
<1>4. CASE Deliver
  <2>1. PICK n \in 1..Len(wire) :
          /\ Len(inp') = Len(inp) + n
          /\ \A i \in 1..Len(inp) : inp'[i] = inp[i]
          /\ \A i \in 1..n : inp'[Len(inp) + i] = wire[i]
          /\ Len(wire') = Len(wire) - n
          /\ \A i \in 1..Len(wire) - n : wire'[i] = wire[n + i]
    BY <1>4, DeliverMoves
  <2>2. Dropped(wire', wire, n)
    BY <2>1 DEF Dropped
  <2>3. Fits(inp') /\ Junction(inp', wire', faults)
    BY <1>1, <1>2, <2>1, <2>2, JunctionMoves
  <2>4. n \in 0..Len(wire)
    BY <1>2
  <2>5. Clean(wire')
    BY <1>1, <1>2, <2>2, <2>4, CleanDropped
  <2>6. QED
    BY <1>3, <1>4, <2>3, <2>5 DEF Deliver
<1>5. CASE LoseCell \/ DamageCell
  <2>1. /\ wire # <<>> /\ wire' = Tail(wire) /\ faults' = faults + 1
        /\ inp' = inp \/ \E c \in {Damaged, BadData} : inp' = Append(inp, c)
    BY <1>5 DEF LoseCell, DamageCell
  <2>2. Len(wire) >= 1
    BY <1>2, <2>1
  <2>3. Dropped(wire', wire, 1) /\ 1 \in 0..Len(wire)
    BY <1>2, <2>1, <2>2 DEF Dropped
  <2>4. Clean(wire')
    BY <1>1, <1>2, <2>3, CleanDropped
  <2>5. CASE inp' = inp
    <3>1. ASSUME NEW m \in 1..NBlocks + 1, inp # <<>>, inp[Len(inp)] = Complement(m),
                 NEW i \in 1..Len(wire'), NEW k \in 1..NBlocks, wire'[i] = Data(k)
          PROVE  faults' + i >= 5
      <4>1. i + 1 \in 1..Len(wire) /\ wire[1 + i] = Data(k) /\ 1 + i = i + 1
        BY <1>2, <2>3, <3>1 DEF Dropped
      <4>2. (i + 1 = 1 /\ k = m) \/ faults + (i + 1) >= 5
        BY <1>1, <3>1, <4>1 DEF Junction
      <4>3. QED
        BY <1>2, <2>1, <4>2
    <3>2. faults' >= 1
      BY <1>2, <2>1
    <3>3. Junction(inp', wire', faults')
      BY <2>5, <3>1, <3>2 DEF Junction
    <3>4. QED
      BY <1>1, <1>3, <2>4, <2>5, <3>3
  <2>6. ASSUME NEW c \in {Damaged, BadData}, inp' = Append(inp, c)
        PROVE  Fits(inp') /\ Junction(inp', wire', faults')
    <3>1. /\ Len(inp') = Len(inp) + 1 /\ inp'[Len(inp) + 1] = c
          /\ \A i \in 1..Len(inp) : inp'[i] = inp[i]
      BY <1>2, <2>6, CellFacts
    <3>2. /\ \A m \in 1..NBlocks + 1 : c # Complement(m)
          /\ \A k \in 1..NBlocks : c # Data(k)
      BY ConstantFacts DEF Damaged, BadData, Data, Complement
    <3>3. ASSUME NEW j \in 1..Len(inp') - 1, NEW m \in 1..NBlocks + 1, NEW k \in 1..NBlocks,
                 inp'[j] = Complement(m), inp'[j + 1] = Data(k)
          PROVE  m = k
      <4>1. j # Len(inp)
        BY <3>1, <3>2, <3>3
      <4>2. j \in 1..Len(inp) - 1 /\ j \in 1..Len(inp) /\ j + 1 \in 1..Len(inp)
        BY <1>2, <3>1, <4>1
      <4>3. QED
        BY <1>1, <3>1, <3>3, <4>2 DEF Fits
    <3>4. QED
      BY <3>1, <3>2, <3>3 DEF Fits, Junction
  <2>7. QED
    BY <1>3, <2>1, <2>4, <2>5, <2>6
<1>6. CASE LoseByte
  <2>1. inp' = inp /\ wire' = wire /\ faults' = faults + 1
    BY <1>6 DEF LoseByte
  <2>2. Junction(inp, wire, faults + 1)
    BY <1>1, <1>2 DEF Junction
  <2>3. QED
    BY <1>1, <1>3, <2>1, <2>2
<1>7. CASE HangUp
  BY <1>1, <1>3, <1>7 DEF HangUp
<1>8. QED
  BY <1>4, <1>5, <1>6, <1>7 DEF Line

-----------------------------------------------------------------------------
(* One message under way at a time *)

LEMMA EarlyStays ==
  ASSUME Next, ~early'
  PROVE  ~early
BY DEF Next, Client, PollSpins, SendCommand, ReadAck, NoAck, NoData, ShortEOT, ShortCancel, ShortOther,
       ShortRead, TimesOut, BadHeader, LostBlock, OldBlock, BadCRC, GoodBlock, FullRead,
       Server, ServerCommand, ServerData, ServerAck, ServerEnd, ServerDrop,
       Line, Deliver, LoseCell, DamageCell, LoseByte, HangUp, history

\* A poll that times out in time has nothing to miss.
LEMMA InTime ==
  ASSUME TimesOut, ~early'
  PROVE  wire = <<>> /\ c2s = <<>>
BY DEF TimesOut, UnderWay

\* A whole block was read: it is the calculator's, with its number or with none.
LEMMA BlockRead ==
  ASSUME TypeOK, Talking, FullRead
  PROVE  /\ c2s = <<>> /\ wire = <<>> /\ srv = "sending"
         /\ spos \in 1..NBlocks /\ Reached(spos - 1)
         /\ Len(inp) = 4 /\ inp' = <<>> /\ ~Misplaced
         /\ inp[4] \in {Data(spos), BadData}
         /\ \A n \in Numbers : n = Number(spos)
<1> USE ConstantFacts
<1>1. pc = "get" /\ Len(inp) >= 4 /\ inp' = SubSeq(inp, 5, Len(inp))
  BY DEF FullRead, BlockLen
<1>2. /\ inp \in Seq(Cells) /\ wire \in Seq(Cells)
      /\ Len(inp) \in Nat /\ Len(wire) \in Nat /\ faults \in Nat
  BY DEF TypeOK
<1>3. ~Quiet
  BY <1>1 DEF Quiet
<1>4. ASSUME srv = "eot", Remains(<<EOT>>)  PROVE FALSE
  BY <1>1, <1>2, <1>4 DEF Remains
<1>5. c2s = <<>> /\ srv = "sending" /\ Remains(Block(spos))
  BY <1>1, <1>3, <1>4 DEF Talking, Exchange
<1>6. spos \in 1..NBlocks /\ Reached(spos - 1)
  BY <1>5 DEF Talking, Near
<1>7. /\ Block(spos) \in Seq(Cells) /\ Len(Block(spos)) = 4
      /\ Block(spos)[1] = SOH /\ Block(spos)[2] = Number(spos)
      /\ Block(spos)[3] = Complement(Number(spos)) /\ Block(spos)[4] = Data(spos)
  BY <1>6, CellFacts
<1>8. Len(inp) = 4 /\ Len(wire) = 0
  BY <1>1, <1>2, <1>5, <1>7 DEF Remains
<1>9. wire = <<>> /\ inp' = <<>>
  BY <1>1, <1>2, <1>8
<1>10. \A i \in 1..4 : inp[i] \in {Block(spos)[i], Spoilt(Block(spos)[i])}
  BY <1>5, <1>7, <1>8 DEF Remains
<1>11. Number(spos) \in 0..ByteMod - 1
  BY <1>6, NumberFacts
<1>12. /\ inp[1] \in {SOH, Damaged} /\ inp[2] \in {Number(spos), Damaged}
       /\ inp[3] \in {Complement(Number(spos)), Damaged}
  BY <1>7, <1>10, <1>11 DEF Spoilt, HoldsData, BadData, SOH, Complement
<1>13. inp[4] \in {Data(spos), BadData}
  BY <1>6, <1>7, <1>10 DEF Spoilt, HoldsData, BadData, Data
<1>14. ~Misplaced
  BY <1>11, <1>12 DEF Misplaced, HoldsData, BadData, SOH, Damaged, Complement
<1>15. ASSUME NEW n \in Numbers  PROVE n = Number(spos)
  <2>1. n = inp[2] /\ n = Complement(inp[3])
    BY <1>14, <1>15 DEF Numbers
  <2>2. QED
    BY <1>11, <1>12, <2>1 DEF Complement, Damaged
<1>16. QED
  BY <1>5, <1>6, <1>8, <1>9, <1>13, <1>14, <1>15

\* What the number says of the place in the file.
LEMMA NumberPlace ==
  ASSUME TypeOK, spos \in 1..NBlocks, Reached(spos - 1)
  PROVE  /\ Number(spos) <= seq
         /\ Number(spos) < seq => Reached(spos)
         /\ Number(spos) = seq => spos = seq
<1>1. Number(spos) \in 0..ByteMod - 1 /\ (spos < ByteMod => Number(spos) = spos)
  BY ConstantFacts, NumberFacts
<1>2. seq \in Nat /\ spos \in Nat /\ ByteMod \in Nat /\ (seq > spos - 1 \/ seq >= ByteMod)
  BY ConstantFacts DEF TypeOK, Reached
<1>3. QED
  BY <1>1, <1>2 DEF Reached

LEMMA TurnInit == Init => Turn
<1> SUFFICES ASSUME Init  PROVE Turn
  OBVIOUS
<1>1. /\ pc = "send" /\ ret = "none" /\ c2s = <<>> /\ Quiet /\ srv = "idle" /\ seq = 1
      /\ Len(out) = 0
  BY DEF Init, Quiet
<1>2. Ordered /\ Talking
  BY <1>1 DEF Ordered, Talking, Exchange, Near
<1>3. QED
  BY <1>1, <1>2 DEF Turn

LEMMA AtMostOne ==
  ASSUME NEW a \in Nat \ {0}, NEW b \in Nat, a + b <= 1
  PROVE  a = 1 /\ b = 0
OBVIOUS

LEMMA TurnAsks ==
  ASSUME TypeOK, Counts, Turn, SendCommand \/ ReadAck \/ NoAck \/ NoData, ~early'
  PROVE  Turn'
<1> USE ConstantFacts
<1>1. ~early /\ Ordered /\ Ordered'
  BY EarlyStays DEF Next, Client, Turn, SendCommand, ReadAck, NoAck, NoData, Ordered
<1>2. Talking
  BY <1>1 DEF Turn, SendCommand, ReadAck, NoAck, NoData
<1>3. Near' /\ UNCHANGED serverVars
  BY <1>2 DEF Talking, Near, Reached, SendCommand, ReadAck, NoAck, NoData, serverVars
<1>4. CASE SendCommand
  <2>1. c2s = <<>> /\ Quiet /\ ret = "none" /\ srv \in {"idle", "ready"}
    BY <1>2, <1>4 DEF Talking, Exchange, SendCommand
  <2>2. pc' = "creq" /\ c2s' = <<"G">> /\ Quiet' /\ ret' = "none" /\ srv' = srv
    BY <1>3, <1>4, <2>1 DEF SendCommand, Write, Quiet, serverVars
  <2>3. Exchange'
    BY <2>2 DEF Exchange
  <2>4. QED
    BY <1>1, <1>3, <2>1, <2>2, <2>3 DEF Talking, Turn
<1>5. CASE ReadAck
  <2>1. /\ pc = "creq" /\ inp # <<>> /\ ret = "none" /\ srv \in {"idle", "ready"}
        /\ inp \in Seq(Cells) /\ wire \in Seq(Cells)
    BY <1>2, <1>5 DEF Talking, ReadAck, TypeOK
  <2>2. c2s = <<>> /\ srv = "ready" /\ Remains(<<ACK>>)
    BY <1>2, <2>1 DEF Talking, Exchange, Quiet
  <2>3. Len(inp) + Len(wire) <= 1
    BY <2>2 DEF Remains
  <2>4. Len(inp) = 1 /\ Len(wire) = 0
    <3>1. Len(inp) \in Nat \ {0} /\ Len(wire) \in Nat
      BY <2>1
    <3>2. QED
      BY <2>3, <3>1, AtMostOne
  <2>5. inp' = <<>> /\ wire' = <<>> /\ srv' = srv /\ ret' = "none"
    BY <1>5, <2>1, <2>4 DEF ReadAck, serverVars
  <2>6. \/ pc' = "get" /\ c2s' = <<"D">>
        \/ pc' = "creq" /\ c2s' = <<>>
    BY <1>5, <2>1, <2>2 DEF ReadAck, Write
  <2>7. CASE pc' = "get" /\ c2s' = <<"D">>
    <3>1. Exchange'
      BY <2>5, <2>7 DEF Exchange, Quiet
    <3>2. QED
      BY <1>1, <1>3, <2>2, <2>5, <2>7, <3>1 DEF Talking, Turn
  <2>8. CASE pc' = "creq" /\ c2s' = <<>>
    <3>1. Exchange'
      BY <2>5, <2>8 DEF Exchange, Quiet
    <3>2. QED
      BY <1>1, <1>3, <2>2, <2>5, <2>8, <3>1 DEF Talking, Turn
  <2>9. QED
    BY <2>6, <2>7, <2>8
<1>6. CASE NoAck \/ NoData
  <2>1. /\ wire = <<>> /\ c2s = <<>> /\ inp = <<>> /\ ret = "none" /\ pc \in {"creq", "get"}
    BY <1>2, <1>6, InTime DEF Talking, NoAck, NoData
  <2>2. wire' = <<>> /\ inp' = <<>> /\ srv' = srv
    BY <1>6, <2>1 DEF NoAck, NoData, serverVars
  <2>3. \/ pc = "creq" /\ pc' = "send" /\ c2s' = <<>> /\ ret' = "none"
        \/ pc = "get" /\ pc' = "get" /\ c2s' = <<"D">> /\ ret' = "none"
        \/ pc' = "done" /\ c2s' = <<>> /\ ret' = "fail"
    BY <1>6, <2>1 DEF NoAck, NoData, Write
  <2>4. CASE pc = "creq" /\ pc' = "send" /\ c2s' = <<>> /\ ret' = "none"
    <3>1. Exchange'
      BY <2>2, <2>4 DEF Exchange, Quiet
    <3>2. srv' \in {"idle", "ready"}
      BY <1>2, <2>2, <2>4 DEF Talking
    <3>3. QED
      BY <1>1, <1>3, <2>4, <3>1, <3>2 DEF Talking, Turn
  <2>5. CASE pc = "get" /\ pc' = "get" /\ c2s' = <<"D">> /\ ret' = "none"
    <3>1. Exchange'
      BY <2>2, <2>5 DEF Exchange, Quiet
    <3>2. srv' \in {"ready", "sending", "eot"}
      BY <1>2, <2>2, <2>5 DEF Talking
    <3>3. QED
      BY <1>1, <1>3, <2>5, <3>1, <3>2 DEF Talking, Turn
  <2>6. CASE pc' = "done" /\ c2s' = <<>> /\ ret' = "fail"
    <3>1. Ended'
      BY <1>3, <2>2, <2>6 DEF Ended, Quiet
    <3>2. QED
      BY <1>1, <2>6, <3>1 DEF Turn
  <2>7. QED
    BY <2>3, <2>4, <2>5, <2>6
<1>7. QED
  BY <1>4, <1>5, <1>6

\* A client that spins in pollread changes nothing any more.
LEMMA TurnSpins ==
  ASSUME TypeOK, Counts, Turn, PollSpins, ~early'
  PROVE  Turn'
<1>1. ~early /\ Ordered /\ Talking /\ srv \in {"ready", "sending", "eot", "idle"}
  BY DEF Turn, Talking, PollSpins, history
<1>2. /\ pc' = "spin" /\ UNCHANGED <<seq, out, ret, serverVars>>
  BY DEF PollSpins
<1>3. Ordered' /\ Near' /\ ret' = "none"
  BY <1>1, <1>2 DEF Ordered, Talking, Near, Reached, serverVars
<1>4. QED
  BY <1>2, <1>3 DEF Turn, Talking, Exchange

LEMMA TurnShort ==
  ASSUME TypeOK, Counts, Turn, ShortEOT \/ ShortCancel \/ ShortOther, ~early'
  PROVE  Turn'
<1> USE ConstantFacts
<1>1. ~early /\ Ordered /\ Ordered' /\ Talking
  BY EarlyStays DEF Next, Client, Turn, ShortEOT, ShortCancel, ShortOther, ShortRead, clientVars,
     Ordered
<1>2. /\ pc = "get" /\ inp # <<>> /\ wire = <<>> /\ c2s = <<>> /\ inp' = <<>> /\ Len(inp) < 4
      /\ Len(inp) \in Nat /\ ret = "none"
  BY <1>1, InTime DEF Talking, ShortEOT, ShortCancel, ShortOther, ShortRead, BlockLen, TypeOK
<1>3. wire' = <<>> /\ srv' = srv /\ spos' = spos /\ seq' = seq
  BY <1>2 DEF ShortEOT, ShortCancel, ShortOther, clientVars, serverVars
<1>4. Near'
  BY <1>1, <1>3 DEF Talking, Near, Reached
<1>5. Quiet'
  BY <1>2, <1>3 DEF Quiet
<1>6. CASE ShortOther
  <2>1. pc' = "get" /\ c2s' = <<>> /\ ret' = "none"
    BY <1>2, <1>6 DEF ShortOther, clientVars
  <2>2. Exchange'
    BY <1>5, <2>1 DEF Exchange
  <2>3. srv' \in {"ready", "sending", "eot"}
    BY <1>1, <1>2, <1>3 DEF Talking
  <2>4. QED
    BY <1>1, <1>4, <2>1, <2>2, <2>3 DEF Talking, Turn
<1>7. CASE ShortCancel
  <2>1. pc' = "done" /\ misread'
    BY <1>7 DEF ShortCancel
  <2>2. QED
    BY <1>1, <2>1 DEF Turn
<1>8. CASE ShortEOT
  <2>1. pc' = "done" /\ c2s' = <<"ack">> /\ ret' = "len"
    BY <1>2, <1>8 DEF ShortEOT, Write
  <2>2. ASSUME MaxFaults < BlockLen - 1, ~misread', srv = "sending", Remains(Block(spos))
        PROVE  FALSE
    <3>1. spos \in 1..NBlocks
      BY <1>1, <2>2 DEF Talking, Near
    <3>2. Len(Block(spos)) = 4
      BY <3>1, CellFacts
    <3>3. inp = <<EOT>>
      BY <1>8, <2>2 DEF ShortEOT, Fragment
    <3>4. Len(inp) = 1 /\ Len(wire) = 0
      BY <1>2, <3>3
    <3>5. Len(inp) + Len(wire) + faults >= 4
      BY <2>2, <3>2, <3>4 DEF Remains, TypeOK
    <3>6. QED
      BY <2>2, <3>4, <3>5 DEF BlockLen, TypeOK
  <2>3. ASSUME MaxFaults < BlockLen - 1, ~misread'  PROVE srv = "eot"
    BY <1>1, <1>2, <2>2, <2>3 DEF Talking, Exchange, Quiet
  <2>4. ASSUME MaxFaults < BlockLen - 1, ~misread'  PROVE Ended'
    <3>1. Reached(NBlocks)'
      BY <1>1, <1>3, <2>3, <2>4 DEF Talking, Near, Reached
    <3>2. QED
      BY <1>3, <1>4, <1>5, <2>1, <2>3, <2>4, <3>1 DEF Ended
  <2>5. QED
    BY <1>1, <2>1, <2>4 DEF Turn
<1>9. QED
  BY <1>6, <1>7, <1>8

LEMMA TurnFull ==
  ASSUME TypeOK, Counts, Turn, ~early',
         BadHeader \/ LostBlock \/ OldBlock \/ BadCRC \/ GoodBlock
  PROVE  Turn'
<1> USE ConstantFacts
<1>1. ~early /\ Ordered /\ Talking /\ FullRead
  BY EarlyStays DEF Next, Client, Turn, BadHeader, LostBlock, OldBlock, BadCRC, GoodBlock, FullRead
<1>2. /\ pc = "get" /\ ret = "none" /\ c2s = <<>> /\ wire = <<>> /\ srv = "sending"
      /\ spos \in 1..NBlocks /\ Reached(spos - 1) /\ inp' = <<>> /\ ~Misplaced
      /\ inp[4] \in {Data(spos), BadData} /\ \A n \in Numbers : n = Number(spos)
  BY <1>1, BlockRead DEF Talking, FullRead
<1>3. /\ Number(spos) <= seq /\ (Number(spos) < seq => Reached(spos))
      /\ (Number(spos) = seq => spos = seq)
  BY <1>2, NumberPlace
<1>4. wire' = <<>> /\ srv' = "sending" /\ spos' = spos /\ Quiet'
  BY <1>1, <1>2 DEF FullRead, serverVars, Quiet
<1>5. seq \in Nat /\ out \in Seq(1..NBlocks) /\ seq = Len(out) + 1
  BY DEF TypeOK, Counts
<1>6. ~LostBlock
  <2>1. ASSUME LostBlock  PROVE FALSE
    <3>1. PICK n \in Numbers : n > seq
      BY <2>1 DEF LostBlock
    <3>2. n = Number(spos) /\ Number(spos) \in Nat
      BY <1>2, <3>1, NumberFacts
    <3>3. QED
      BY <1>3, <1>5, <3>1, <3>2
  <2>2. QED
    BY <2>1
<1>7. CASE BadHeader \/ BadCRC
  <2>1. pc' = "get" /\ c2s' = <<"D">> /\ ret' = "none" /\ seq' = seq /\ out' = out
    BY <1>2, <1>7 DEF BadHeader, BadCRC, Write
  <2>2. Exchange' /\ Ordered'
    BY <1>1, <1>4, <2>1 DEF Exchange, Ordered
  <2>3. Near'
    BY <1>2, <1>4, <2>1 DEF Near, Reached
  <2>4. QED
    BY <1>4, <2>1, <2>2, <2>3 DEF Talking, Turn
<1>8. CASE OldBlock
  <2>1. pc' = "get" /\ c2s' = <<"ack">> /\ ret' = "none" /\ seq' = seq /\ out' = out
    BY <1>2, <1>8 DEF OldBlock, Write
  <2>2. PICK n \in Numbers : Old(n)
    BY <1>8 DEF OldBlock
  <2>3. Reached(spos)
    BY <1>2, <1>3, <2>2 DEF Old
  <2>4. Reached(spos)'
    BY <1>4, <2>1, <2>3 DEF Reached
  <2>5. Exchange' /\ Ordered'
    BY <1>1, <1>4, <2>1, <2>4 DEF Exchange, Ordered
  <2>6. Near'
    BY <1>2, <1>4, <2>1 DEF Near, Reached
  <2>7. QED
    BY <1>4, <2>1, <2>5, <2>6 DEF Talking, Turn
<1>9. CASE GoodBlock
  <2>1. /\ pc' = "get" /\ c2s' = <<"ack">> /\ ret' = "none" /\ seq' = seq + 1
        /\ out' = Append(out, inp[4] - BadData)
    BY <1>2, <1>9 DEF GoodBlock, Write
  <2>2. spos = seq
    BY <1>2, <1>3, <1>9 DEF GoodBlock, Shows
  <2>3. inp[4] = Data(spos)
    BY <1>2, <1>9 DEF GoodBlock, CRCOK, BadData, Data
  <2>4. out' = Append(out, seq)
    BY <1>5, <2>1, <2>2, <2>3 DEF Data, BadData
  <2>5. Ordered'
    BY <1>1, <2>4, OrderedGrows
  <2>6. Reached(spos)' /\ Reached(spos - 1)'
    BY <1>4, <1>5, <2>1, <2>2 DEF Reached
  <2>7. Exchange'
    BY <1>4, <2>1, <2>6 DEF Exchange
  <2>8. Near'
    BY <1>2, <1>4, <2>6 DEF Near
  <2>9. QED
    BY <1>4, <2>1, <2>5, <2>7, <2>8 DEF Talking, Turn
<1>10. QED
  BY <1>6, <1>7, <1>8, <1>9

\* Cells that move from the line to what has arrived stay as many.
LEMMA Passed ==
  ASSUME NEW a \in Nat, NEW b \in Nat, NEW d \in Nat
  PROVE  (a + d) + (b - d) = a + b
OBVIOUS

LEMMA Placed ==
  ASSUME NEW a \in Nat, NEW b \in Nat, NEW c \in Nat, a + b = c, NEW d \in Nat
  PROVE  c - b + d = a + d
OBVIOUS

\* What is left of an answer stays so, whatever the line does to it.
LEMMA RemainsKept ==
  ASSUME TypeOK, TypeOK', Deliver \/ LoseCell \/ DamageCell,
         NEW x \in Seq(Cells), Remains(x)
  PROVE  Remains(x)'
<1>1. /\ inp \in Seq(Cells) /\ wire \in Seq(Cells) /\ inp' \in Seq(Cells) /\ wire' \in Seq(Cells)
      /\ Len(inp) \in Nat /\ Len(wire) \in Nat /\ Len(x) \in Nat /\ faults \in Nat
  BY ConstantFacts DEF TypeOK
<1>2. /\ Len(inp) + Len(wire) <= Len(x) /\ Len(x) <= Len(inp) + Len(wire) + faults
      /\ \A i \in 1..Len(wire) : wire[i] = x[Len(x) - Len(wire) + i]
      /\ Len(inp) + Len(wire) = Len(x) =>
           \A i \in 1..Len(inp) : inp[i] \in {x[i], Spoilt(x[i])}
  BY DEF Remains
<1>3. CASE Deliver
  <2>1. PICK n \in 1..Len(wire) :
          /\ Len(inp') = Len(inp) + n
          /\ \A i \in 1..Len(inp) : inp'[i] = inp[i]
          /\ \A i \in 1..n : inp'[Len(inp) + i] = wire[i]
          /\ Len(wire') = Len(wire) - n
          /\ \A i \in 1..Len(wire) - n : wire'[i] = wire[n + i]
    BY <1>3, DeliverMoves
  <2>2. faults' = faults /\ n \in Nat /\ Len(inp') + Len(wire') = Len(inp) + Len(wire)
    <3>1. faults' = faults /\ n \in Nat
      BY <1>1, <1>3 DEF Deliver
    <3>2. Len(inp') + Len(wire') = Len(inp) + Len(wire)
      BY <1>1, <2>1, <3>1, Passed
    <3>3. QED
      BY <3>1, <3>2
  <2>3. ASSUME NEW i \in 1..Len(wire')  PROVE wire'[i] = x[Len(x) - Len(wire') + i]
    <3>1. wire'[i] = wire[n + i] /\ n + i \in 1..Len(wire)
      BY <1>1, <2>1, <2>2
    <3>2. Len(x) - Len(wire) + (n + i) = Len(x) - Len(wire') + i
      BY <1>1, <2>1, <2>2
    <3>3. wire[n + i] = x[Len(x) - Len(wire) + (n + i)]
      BY <1>2, <3>1
    <3>4. QED
      BY <3>1, <3>2, <3>3
  <2>4. ASSUME Len(inp) + Len(wire) = Len(x), NEW i \in 1..Len(inp')
        PROVE  inp'[i] \in {x[i], Spoilt(x[i])}
    <3>1. CASE i <= Len(inp)
      <4>1. i \in 1..Len(inp)
        BY <1>1, <3>1
      <4>2. QED
        BY <1>2, <2>1, <2>4, <4>1
    <3>2. CASE i > Len(inp)
      <4> DEFINE d == i - Len(inp)
      <4>1. d \in 1..n /\ d \in 1..Len(wire) /\ i = Len(inp) + d
        BY <1>1, <2>1, <2>2, <3>2
      <4> HIDE DEF d
      <4>2. inp'[i] = wire[d] /\ wire[d] = x[Len(x) - Len(wire) + d]
        BY <1>2, <2>1, <4>1
      <4>3. Len(x) - Len(wire) + d = i
        <5>1. d \in Nat
          BY <2>2, <4>1
        <5>2. Len(x) = Len(inp) + Len(wire)
          BY <2>4
        <5>3. Len(x) - Len(wire) = Len(inp)
          BY <1>1, <5>2
        <5>4. QED
          BY <4>1, <5>3
      <4>4. QED
        BY <4>2, <4>3
    <3>3. QED
      BY <1>1, <2>1, <2>2, <3>1, <3>2
  <2>5. QED
    BY <1>2, <2>2, <2>3, <2>4 DEF Remains
<1>4. CASE LoseCell \/ DamageCell
  <2>1. /\ wire # <<>> /\ wire' = Tail(wire) /\ faults' = faults + 1
        /\ inp' = inp \/ inp' = Append(inp, Spoilt(Head(wire)))
    BY <1>4 DEF LoseCell, DamageCell, Spoilt
  <2>2. /\ Len(wire) >= 1 /\ Len(wire') = Len(wire) - 1 /\ Head(wire) = wire[1]
        /\ \A i \in 1..Len(wire') : wire'[i] = wire[i + 1]
    BY <1>1, <2>1
  <2>3. ASSUME NEW i \in 1..Len(wire')  PROVE wire'[i] = x[Len(x) - Len(wire') + i]
    <3>1. wire'[i] = wire[i + 1] /\ i + 1 \in 1..Len(wire)
      BY <1>1, <2>2
    <3>2. Len(x) - Len(wire) + (i + 1) = Len(x) - Len(wire') + i
      BY <1>1, <2>2
    <3>3. wire[i + 1] = x[Len(x) - Len(wire) + (i + 1)]
      BY <1>2, <3>1
    <3>4. QED
      BY <3>1, <3>2, <3>3
  <2>4. CASE inp' = inp
    BY <1>1, <1>2, <2>1, <2>2, <2>3, <2>4 DEF Remains
  <2>5. CASE inp' = Append(inp, Spoilt(Head(wire)))
    <3>1. /\ Len(inp') = Len(inp) + 1 /\ inp'[Len(inp) + 1] = Spoilt(wire[1])
          /\ \A i \in 1..Len(inp) : inp'[i] = inp[i]
      <4>1. Spoilt(Head(wire)) \in Cells
        BY CellFacts DEF Spoilt
      <4>2. QED
        BY <1>1, <2>2, <2>5, <4>1
    <3>2. ASSUME Len(inp) + Len(wire) = Len(x), NEW i \in 1..Len(inp')
          PROVE  inp'[i] \in {x[i], Spoilt(x[i])}
      <4>1. CASE i \in 1..Len(inp)
        BY <1>2, <3>1, <3>2, <4>1
      <4>2. CASE i = Len(inp) + 1
        <5>1. 1 \in 1..Len(wire) /\ Len(x) - Len(wire) + 1 = i
          <6>1. 1 \in 1..Len(wire)
            BY <1>1, <2>2
          <6>2. Len(x) - Len(wire) = Len(inp)
            BY <1>1, <3>2
          <6>3. QED
            BY <4>2, <6>1, <6>2
        <5>2. wire[1] = x[i]
          BY <1>2, <5>1
        <5>3. QED
          BY <3>1, <4>2, <5>2
      <4>3. QED
        BY <1>1, <3>1, <4>1, <4>2
    <3>3. Len(inp') + Len(wire') = Len(inp) + Len(wire) /\ faults <= faults'
      BY <1>1, <2>1, <2>2, <3>1
    <3>4. Len(x) <= Len(inp') + Len(wire') + faults'
      BY <1>1, <1>2, <2>1, <3>3
    <3>5. QED
      BY <1>2, <2>3, <3>2, <3>3, <3>4 DEF Remains
  <2>6. QED
    BY <2>1, <2>4, <2>5
<1>5. QED
  BY <1>3, <1>4

LEMMA TurnLine ==
  ASSUME TypeOK, TypeOK', Counts, Turn, Line, ~early'
  PROVE  Turn'
<1>1. ~early /\ Ordered /\ UNCHANGED <<clientVars, serverVars, history>>
  BY EarlyStays DEF Next, Turn, Line, Deliver, LoseCell, DamageCell, LoseByte, HangUp
<1>2. Ordered' /\ (Near => Near')
  BY <1>1 DEF clientVars, serverVars, Ordered, Near, Reached
<1>3. /\ pc' = pc /\ ret' = ret /\ srv' = srv /\ spos' = spos /\ misread' = misread /\ seq' = seq
      /\ pc # "spin"
  BY <1>1 DEF clientVars, serverVars, history, Counts, Line, Deliver, LoseCell, DamageCell,
     LoseByte, HangUp
<1>4. CASE LoseByte
  <2>1. c2s # <<>> /\ c2s' = Tail(c2s) /\ inp' = inp /\ wire' = wire
    BY <1>4 DEF LoseByte
  <2>2. ASSUME pc # "done"  PROVE Talking'
    <3>1. Talking
      BY <1>1, <2>2 DEF Turn
    <3>2. Quiet /\ c2s \in {<<"G">>, <<"D">>, <<"ack">>} /\ pc \in {"creq", "get"}
      BY <1>3, <2>1, <2>2, <3>1 DEF Talking, Exchange, TypeOK
    <3>3. Quiet' /\ c2s' = <<>>
      BY <2>1, <3>2 DEF Quiet
    <3>4. Exchange'
      BY <1>3, <3>2, <3>3 DEF Exchange
    <3>5. QED
      BY <1>2, <1>3, <3>1, <3>4 DEF Talking
  <2>3. ASSUME pc = "done", ~misread, MaxFaults < BlockLen - 1  PROVE Ended'
    <3>1. Ended
      BY <1>1, <2>3 DEF Turn
    <3>2. c2s = <<"ack">> /\ Quiet
      BY <2>1, <3>1 DEF Ended
    <3>3. c2s' = <<>>
      BY <2>1, <3>2
    <3>4. Quiet'
      BY <2>1, <3>2 DEF Quiet
    <3>5. QED
      BY <1>2, <1>3, <3>1, <3>3, <3>4 DEF Ended, Reached
  <2>4. QED
    BY <1>2, <1>3, <2>2, <2>3 DEF Turn
<1>5. CASE Deliver \/ LoseCell \/ DamageCell
  <2>1. c2s' = c2s /\ wire # <<>> /\ ~Quiet
    BY <1>5 DEF Deliver, LoseCell, DamageCell, Quiet
  <2>2. ASSUME pc # "done"  PROVE Talking'
    <3>1. Talking
      BY <1>1, <2>2 DEF Turn
    <3>2. CASE pc = "creq"
      <4>1. c2s = <<>> /\ srv = "ready" /\ Remains(<<ACK>>)
        BY <2>1, <3>1, <3>2 DEF Talking, Exchange
      <4>2. Remains(<<ACK>>)'
        BY <1>5, <4>1, CellFacts, RemainsKept
      <4>3. Exchange'
        BY <1>3, <2>1, <3>2, <4>1, <4>2 DEF Exchange
      <4>4. QED
        BY <1>2, <1>3, <3>1, <4>3 DEF Talking
    <3>3. CASE pc = "get" /\ srv = "sending" /\ c2s = <<>> /\ Remains(Block(spos))
      <4>1. PICK n \in 1..NBlocks : spos = n
        BY <3>1, <3>3 DEF Talking, Near
      <4>2. Remains(Block(n))'
        BY <1>5, <3>3, <4>1, CellFacts, RemainsKept
      <4>3. Remains(Block(spos))'
        BY <1>3, <4>1, <4>2
      <4>4. Exchange'
        BY <1>3, <2>1, <3>3, <4>3 DEF Exchange
      <4>5. QED
        BY <1>2, <1>3, <3>1, <4>4 DEF Talking
    <3>4. CASE pc = "get" /\ srv = "eot" /\ c2s = <<>> /\ Remains(<<EOT>>)
      <4>1. Remains(<<EOT>>)'
        BY <1>5, <3>4, CellFacts, RemainsKept
      <4>2. Exchange'
        BY <1>3, <2>1, <3>4, <4>1 DEF Exchange
      <4>3. QED
        BY <1>2, <1>3, <3>1, <4>2 DEF Talking
    <3>5. QED
      BY <1>3, <2>1, <2>2, <3>1, <3>2, <3>3, <3>4 DEF Talking, Exchange, TypeOK
  <2>3. ASSUME pc = "done", ~misread, MaxFaults < BlockLen - 1  PROVE FALSE
    BY <1>1, <2>1, <2>3 DEF Turn, Ended
  <2>4. QED
    BY <1>2, <1>3, <2>2, <2>3 DEF Turn
<1>6. CASE HangUp
  <2>1. inp' = inp /\ wire' = wire /\ c2s' = c2s /\ faults' = faults
    BY <1>6 DEF HangUp
  <2>2. Talking => Talking'
    BY <1>2, <1>3, <2>1 DEF Talking, Exchange, Reached, Quiet, Remains
  <2>3. Ended => Ended'
    BY <1>2, <1>3, <2>1 DEF Ended, Reached, Quiet
  <2>4. QED
    BY <1>1, <1>2, <1>3, <2>2, <2>3 DEF Turn
<1>7. QED
  BY <1>4, <1>5, <1>6 DEF Line

\* A fresh answer is all there.
LEMMA RemainsFresh ==
  ASSUME TypeOK, Quiet, inp' = inp, faults' = faults, NEW x \in Seq(Cells), wire' = wire \o x
  PROVE  Remains(x)'
<1>1. inp' = <<>> /\ wire' = x /\ faults' \in Nat /\ Len(x) \in Nat
  BY ConstantFacts DEF Quiet, TypeOK
<1>2. Len(inp') = 0
  BY <1>1
<1>3. \A i \in 1..Len(wire') : wire'[i] = x[Len(x) - Len(wire') + i]
  BY <1>1
<1>4. QED
  BY <1>1, <1>2, <1>3 DEF Remains

LEMMA TurnServer ==
  ASSUME TypeOK, TypeOK', Counts, Turn, Server, ~early'
  PROVE  Turn'
<1> USE ConstantFacts
<1>1. ~early /\ Ordered /\ UNCHANGED <<clientVars, inp, faults, hung, history>>
  BY EarlyStays, ServerSends DEF Next, Turn, Server, ServerEnd, ServerDrop
<1>2. /\ pc' = pc /\ ret' = ret /\ misread' = misread /\ seq' = seq /\ out' = out
      /\ inp' = inp /\ faults' = faults /\ Ordered'
  BY <1>1 DEF clientVars, history, Ordered
<1>3. c2s # <<>> /\ c2s' = Tail(c2s) /\ pc # "spin"
  BY DEF Server, ServerCommand, ServerData, ServerAck, ServerEnd, ServerDrop, Hears, Counts
<1>4. seq \in Nat \ {0} /\ spos \in 0..NBlocks
  BY DEF TypeOK
<1>5. ASSUME pc # "done"  PROVE Talking'
  <2>1. Talking
    BY <1>1, <1>5 DEF Turn
  <2>2. /\ Quiet /\ pc \in {"creq", "get"}
        /\ pc = "creq" => c2s = <<"G">> /\ srv \in {"idle", "ready"}
        /\ pc = "get" => \/ c2s = <<"D">> /\ srv \in {"ready", "sending", "eot"}
                         \/ c2s = <<"ack">> /\ srv = "sending" /\ Reached(spos)
    BY <1>3, <1>5, <2>1 DEF Talking, Exchange, TypeOK
  <2>3. c2s' = <<>> /\ ret' = "none"
    BY <1>2, <1>3, <2>1, <2>2 DEF Talking
  <2>4. Head(c2s) # "can" /\ ~ServerDrop /\ ~ServerEnd
    BY <2>2 DEF ServerDrop, ServerEnd, Hears
  <2>5. CASE ServerCommand
    <3>1. pc = "creq" /\ srv' = "ready" /\ wire' = wire \o <<ACK>>
      BY <2>2, <2>5 DEF ServerCommand, Hears, Emit
    <3>2. Remains(<<ACK>>)'
      BY <1>2, <2>2, <3>1, CellFacts, RemainsFresh
    <3>3. Exchange'
      BY <1>2, <2>3, <3>1, <3>2 DEF Exchange
    <3>4. seq' = 1
      BY <1>2, <2>1, <2>2, <3>1 DEF Talking, Near
    <3>5. QED
      BY <1>2, <2>3, <3>1, <3>3, <3>4 DEF Talking, Near
  <2>6. CASE ServerData \/ ServerAck
    <3>1. pc = "get" /\ wire' = wire \o Answer
      BY <2>2, <2>6 DEF ServerData, ServerAck, Hears, Emit
    <3>2. \/ srv' = "sending" /\ spos' \in 1..NBlocks /\ Reached(spos' - 1)
          \/ srv' = "eot" /\ Reached(NBlocks)
      <4>1. CASE ServerData
        <5>1. srv \in {"ready", "sending", "eot"}
          BY <4>1 DEF ServerData
        <5>2. CASE srv = "ready"
          <6>1. CASE NBlocks > 0
            <7>1. spos' = 1 /\ srv' = "sending"
              BY <4>1, <5>2, <6>1 DEF ServerData
            <7>2. QED
              BY <1>4, <6>1, <7>1 DEF Reached
          <6>2. CASE NBlocks = 0
            <7>1. srv' = "eot"
              BY <1>4, <4>1, <5>2, <6>2 DEF ServerData
            <7>2. QED
              BY <1>4, <6>2, <7>1 DEF Reached
          <6>3. QED
            BY <6>1, <6>2
        <5>3. CASE srv = "sending"
          <6>1. spos \in 1..NBlocks /\ Reached(spos - 1)
            BY <2>1, <5>3 DEF Talking, Near
          <6>2. spos' = spos /\ srv' = "sending"
            BY <4>1, <5>3, <6>1 DEF ServerData
          <6>3. QED
            BY <6>1, <6>2
        <5>4. CASE srv = "eot"
          <6>1. srv' = "eot"
            BY <4>1, <5>4 DEF ServerData
          <6>2. QED
            BY <2>1, <5>4, <6>1 DEF Talking, Near
        <5>5. QED
          BY <5>1, <5>2, <5>3, <5>4
      <4>2. CASE ServerAck
        <5>1. srv = "sending" /\ Reached(spos)
          BY <2>2, <4>2 DEF ServerAck, Hears
        <5>2. CASE spos < NBlocks
          <6>1. spos' = spos + 1 /\ srv' = "sending"
            BY <4>2, <5>1, <5>2 DEF ServerAck
          <6>2. spos' - 1 = spos /\ spos' \in 1..NBlocks
            BY <1>4, <5>2, <6>1
          <6>3. QED
            BY <5>1, <6>1, <6>2
        <5>3. CASE spos = NBlocks
          <6>1. srv' = "eot"
            BY <4>2, <5>3 DEF ServerAck
          <6>2. QED
            BY <5>1, <5>3, <6>1
        <5>4. QED
          BY <1>4, <5>2, <5>3
      <4>3. QED
        BY <2>6, <4>1, <4>2
    <3>3. CASE srv' = "sending" /\ spos' \in 1..NBlocks /\ Reached(spos' - 1)
      <4>1. PICK n \in 1..NBlocks : spos' = n
        BY <3>3
      <4>2. wire' = wire \o Block(n)
        BY <3>1, <3>3, <4>1 DEF Answer
      <4>3. Remains(Block(n))'
        BY <1>2, <2>2, <4>2, CellFacts, RemainsFresh
      <4>4. Remains(Block(spos))'
        BY <4>1, <4>3
      <4>5. Exchange'
        BY <1>2, <2>3, <3>1, <3>3, <4>4 DEF Exchange
      <4>6. Near'
        BY <1>2, <3>3 DEF Near, Reached
      <4>7. QED
        BY <1>2, <2>3, <3>1, <3>3, <4>5, <4>6 DEF Talking
    <3>4. CASE srv' = "eot" /\ Reached(NBlocks)
      <4>1. wire' = wire \o <<EOT>>
        BY <3>1, <3>4 DEF Answer
      <4>2. Remains(<<EOT>>)'
        BY <1>2, <2>2, <4>1, CellFacts, RemainsFresh
      <4>3. Exchange'
        BY <1>2, <2>3, <3>1, <3>4, <4>2 DEF Exchange
      <4>4. Near'
        BY <1>2, <3>4 DEF Near, Reached
      <4>5. QED
        BY <1>2, <2>3, <3>1, <3>4, <4>3, <4>4 DEF Talking
    <3>5. QED
      BY <3>2, <3>3, <3>4
  <2>7. QED
    BY <2>4, <2>5, <2>6 DEF Server
<1>6. ASSUME pc = "done", ~misread, MaxFaults < BlockLen - 1  PROVE Ended'
  <2>1. Ended
    BY <1>1, <1>6 DEF Turn
  <2>2. c2s = <<"ack">> /\ srv = "eot" /\ Quiet
    BY <1>3, <2>1 DEF Ended
  <2>3. ServerEnd
    BY <2>2 DEF Server, ServerCommand, ServerData, ServerAck, ServerDrop, Hears
  <2>4. c2s' = <<>>
    BY <1>3, <2>2
  <2>5. srv' = "done" /\ Quiet'
    BY <2>2, <2>3 DEF ServerEnd, Quiet
  <2>6. Near'
    BY <2>5 DEF Near
  <2>7. ret' = "len" => Reached(NBlocks)'
    BY <1>2, <2>1 DEF Ended, Reached
  <2>8. QED
    BY <2>4, <2>5, <2>6, <2>7 DEF Ended
<1>7. QED
  BY <1>2, <1>5, <1>6 DEF Turn

-----------------------------------------------------------------------------
(* The theorems *)

LEMMA TurnNext ==
  ASSUME TypeOK, TypeOK', Counts, Turn, Next
  PROVE  Turn'
<1>1. CASE early'
  BY <1>1 DEF Turn
<1>2. CASE ~early'
  BY <1>2, TurnAsks, TurnSpins, TurnShort, TurnFull, TurnServer, TurnLine DEF Next, Client
<1>3. QED
  BY <1>1, <1>2

\* The invariant holds from the start and every step keeps it.
THEOREM Invariant == Spec => []Inv
<1>1. Init => Inv
  BY InitTyped, TogetherInit, TurnInit DEF Inv
<1>2. Inv /\ [Next]_vars => Inv'
  <2> SUFFICES ASSUME Inv, [Next]_vars  PROVE Inv'
    OBVIOUS
  <2>1. TypeOK' /\ Counts'
    BY NextTyped DEF Inv
  <2>2. CASE Next
    <3>1. Together'
      BY <2>1, <2>2, TogetherClient, TogetherServer, TogetherLine DEF Next, Inv
    <3>2. Turn'
      BY <2>1, <2>2, TurnNext DEF Inv
    <3>3. QED
      BY <2>1, <3>1, <3>2 DEF Inv
  <2>3. CASE UNCHANGED vars
    <3>1. Together' /\ Turn'
      BY <2>3 DEF Inv, vars, clientVars, serverVars, history, Together, Tellable, Ordered,
         Turn, Talking, Ended, Exchange, Near, Reached, Quiet, Remains
    <3>2. QED
      BY <2>1, <3>1 DEF Inv
  <2>4. QED
    BY <2>2, <2>3
<1>3. QED
  BY <1>1, <1>2, PTL DEF Spec

LEMMA ReachedIsWhole ==
  ASSUME TypeOK, Counts, Ordered, NBlocks < ByteMod, Reached(NBlocks)
  PROVE  out = WholeFile
<1>1. Len(out) = NBlocks
  BY ConstantFacts, OrderedFits DEF Counts, Reached
<1>2. out \in Seq(1..NBlocks) /\ \A i \in 1..Len(out) : out[i] = i
  BY DEF TypeOK, Ordered
<1>3. out = [i \in 1..NBlocks |-> out[i]]
  BY <1>1, <1>2
<1>4. QED
  BY <1>1, <1>2, <1>3 DEF WholeFile

\* The output is a prefix of the file; a transfer that is reported as finished is
\* complete, and the calculator is never ahead of it, under the conditions that
\* SuccessIsWhole names.
THEOREM Whole == Spec => []SuccessIsWhole
<1>1. Inv => SuccessIsWhole
  <2> SUFFICES ASSUME Inv  PROVE SuccessIsWhole
    OBVIOUS
  <2>1. TypeOK /\ Counts
    BY DEF Inv
  <2>2. ASSUME ~early \/ Tellable  PROVE OutIsPrefix
    <3>1. Ordered
      BY <2>2 DEF Inv, Together, Turn
    <3>2. QED
      BY <2>1, <3>1, OrderedFits DEF OutIsPrefix, Ordered, Counts
  <2>3. ASSUME ~early, ~misread, NBlocks < ByteMod, MaxFaults < BlockLen - 1
        PROVE  NeverAhead /\ (ret = "len" => out = WholeFile)
    <3>1. Ordered /\ Near /\ (ret = "len" => Reached(NBlocks))
      BY <2>3 DEF Inv, Turn, Talking, Ended
    <3>2. Reached(NBlocks) => out = WholeFile
      BY <2>1, <2>3, <3>1, ReachedIsWhole
    <3>3. ASSUME srv = "sending"  PROVE Len(out) >= spos - 1
      <4>1. spos \in 1..NBlocks /\ Reached(spos - 1)
        BY <3>1, <3>3 DEF Near
      <4>2. Len(out) \in Nat /\ seq = Len(out) + 1
        BY <2>1, <3>1, OrderedFits DEF Counts
      <4>3. QED
        BY <2>3, <4>1, <4>2, ConstantFacts DEF Reached
    <3>4. srv = "eot" => out = WholeFile
      BY <3>1, <3>2 DEF Near
    <3>5. QED
      BY <3>1, <3>2, <3>3, <3>4 DEF NeverAhead
  <2>4. QED
    BY <2>1, <2>2, <2>3 DEF SuccessIsWhole
<1>2. QED
  BY <1>1, Invariant, PTL

\* hpxm_get gives up as "lost packet" only after a poll that timed out early or
\* when data stood in the place of a header.
THEOREM LostEarly == Spec => LostOnlyIfEarly
<1>1. Inv /\ [Next]_vars => [LostBlock => early \/ misread']_vars
  <2> SUFFICES ASSUME Inv, LostBlock, ~early  PROVE FALSE
    OBVIOUS
  <2>1. Talking /\ FullRead
    BY DEF Inv, Turn, LostBlock, FullRead
  <2>2. PICK n \in Numbers : n > seq
    BY DEF LostBlock
  <2>3. spos \in 1..NBlocks /\ Reached(spos - 1) /\ n = Number(spos)
    BY <2>1, <2>2, BlockRead DEF Inv
  <2>4. Number(spos) <= seq
    BY <2>3, NumberPlace DEF Inv
  <2>5. Number(spos) \in Nat /\ seq \in Nat
    BY <2>3, NumberFacts, ConstantFacts DEF Inv, TypeOK
  <2>6. QED
    BY <2>2, <2>3, <2>4, <2>5
<1>2. QED
  BY <1>1, Invariant, PTL DEF Spec, LostOnlyIfEarly

=============================================================================
