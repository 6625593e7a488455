-------------------------- MODULE NetmsgChatProofs --------------------------
(***************************************************************************)
(* That the chat loses and spoils no line that it sends, for any number of *)
(* lines.  The invariant follows a line from the user who types it (Held), *)
(* through the packet (Filling), the stream (Whole) and the packet of the  *)
(* other side (Received) to the screen (Shown).                            *)
(***************************************************************************)
EXTENDS NetmsgChat, TLAPS

\* The number of a line; a program's own words have number 0.
Num(t) == t[2]

\* The user's line is on its way into the stream.
InHand == {"msg", "type", "name", "send"}
Held(x) == main[x] \in InHand /\ Num(line[x]) > 0

\* The last line of x that can have got into the stream.
Limit(x) == IF Held(x) THEN typed[x] - 1 ELSE typed[x]

\* What the main thread has put into the packet so far is its line.
Filling(x) ==
  /\ line[x] \in {Control(x), <<x, typed[x]>>}
  /\ main[x] \in {"start", "input"} => line[x] = Control(x)
  /\ Num(line[x]) > 0 => kind[x] = "CHAT"
  /\ main[x] \in {"type", "name", "send"} =>
       packet[x].first = line[x] /\ packet[x].rest = line[x] /\ recv[x] \notin {"look", "print"}
  /\ main[x] \in {"name", "send"} /\ Num(line[x]) > 0 => packet[x].type = "CHAT"
  /\ main[x] = "send" => packet[x].user = x

\* A line of x's peer that has come as far as x.
FromPeer(x, t) == t[1] = Peer(x) /\ Num(t) <= Limit(Peer(x))

\* t comes after u.
After(t, u) == Num(t) > 0 => Num(u) < Num(t)

IsHead(x, i) == i \in 1..Len(stream[x]) /\ stream[x][i].part = "head"

\* The stream has whole packets, in the order of their lines, except that its
\* first cell may be a tail.
Whole(x) ==
  /\ \A i \in 1..Len(stream[x]) : IsHead(x, i) =>
       /\ stream[x][i].user = Peer(x) /\ FromPeer(x, stream[x][i].text)
       /\ i < Len(stream[x]) /\ stream[x][i + 1].part = "tail"
       /\ stream[x][i + 1].text = stream[x][i].text
  /\ \A i, j \in 1..Len(stream[x]) :
       IsHead(x, i) /\ IsHead(x, j) /\ i < j => After(stream[x][j].text, stream[x][i].text)

\* A packet that RecvThread has received and not yet shown.
Pending(x) == recv[x] \in {"look", "print"} /\ packet[x].type = "CHAT"
Received(x) ==
  /\ recv[x] = "print" => packet[x].type = "CHAT"
  /\ Pending(x) =>
       /\ packet[x].user = Peer(x) /\ packet[x].first = packet[x].rest
       /\ FromPeer(x, packet[x].first)
       /\ \A i \in 1..Len(stream[x]) : IsHead(x, i) => After(stream[x][i].text, packet[x].first)

Shown(x) ==
  \A i \in 1..Len(shown[x]) :
    /\ Genuine(x, i) /\ FromPeer(x, shown[x][i].first)
    /\ \A j \in 1..Len(stream[x]) : IsHead(x, j) => After(stream[x][j].text, shown[x][i].first)
    /\ Pending(x) => After(packet[x].first, shown[x][i].first)

\* What concerns the lines of x's peer, and all that holds until a clash.
Reading(x) == Whole(x) /\ Received(x) /\ Shown(x)
Core(x) == Filling(x) /\ Reading(x)

\* One of the two programs is over, and lines are thrown away.
Over == \E x \in Side : main[x] = "end"

\* Where line n of x's peer is, if it was long enough to be sent.
Somewhere(x, n) ==
  \/ Over \/ n \in Short(Peer(x))
  \/ Held(Peer(x)) /\ n = typed[Peer(x)]
  \/ \E i \in 1..Len(stream[x]) :
       IsHead(x, i) /\ stream[x][i].type = "CHAT" /\ Num(stream[x][i].text) = n
  \/ Pending(x) /\ Num(packet[x].first) = n
  \/ \E i \in 1..Len(shown[x]) : Num(shown[x][i].first) = n

\* What holds, besides, while the stream is not cut: no line is lost.
Uncut(x) ==
  /\ stream[x] # <<>> => IsHead(x, 1)
  /\ \A i \in 1..Len(stream[x]) - 1 : ~IsHead(x, i) => IsHead(x, i + 1)
  /\ \A n \in 1..typed[Peer(x)] : Somewhere(x, n)

\* What the invariant says beyond types.
Good == /\ ~clash => \A x \in Side : Core(x)
        /\ ~clash /\ ~cut => \A x \in Side : Uncut(x)

\* The packet with which the server answers the client's last one.
Cya(x) == [type |-> "CYA!", user |-> x, first |-> Control(x), rest |-> Control(x)]

-----------------------------------------------------------------------------
(* Sides, texts, packets and streams *)

LEMMA Sides ==
  /\ Side = {"server", "client"}
  /\ \A x \in Side : Peer(x) \in Side /\ Peer(x) # x /\ Peer(Peer(x)) = x
  /\ \A x, y \in Side : y = x \/ y = Peer(x)
BY DEF Side, Peer

\* Texts are pairs, and their second part is a number.
LEMMA TextFacts ==
  ASSUME plan \in Plans
  PROVE  /\ \A x \in Side : Lines(x) \in Nat
         /\ \A x \in Side : \A n \in 0..Lines(x) : <<x, n>> \in Texts
         /\ \A x \in Side : Control(x) \in Texts
         /\ Texts \subseteq AnyText /\ Torn \in AnyText
         /\ \A t \in AnyText : Num(t) \in Nat /\ t = <<t[1], Num(t)>>
<1>1. \A x \in Side : Lines(x) \in Nat
  BY NetmsgAssumption DEF Lines
<1>2. ASSUME NEW x \in Side, NEW n \in 0..Lines(x)  PROVE <<x, n>> \in Texts
  BY DEF Texts
<1>3. ASSUME NEW t \in Texts  PROVE Num(t) \in Nat /\ t = <<t[1], Num(t)>>
  <2>1. PICK x \in Side : t \in {x} \X (0..Lines(x))
    BY DEF Texts
  <2>2. QED
    BY <1>1, <2>1 DEF Num
<1>4. Num(Torn) \in Nat /\ Torn = <<Torn[1], Num(Torn)>>
  BY DEF Torn, Num
<1>5. QED
  BY <1>1, <1>2, <1>3, <1>4 DEF AnyText, Control

LEMMA CellType ==
  ASSUME NEW p \in Packets
  PROVE  Head1(p) \in Cells /\ Tail1(p) \in Cells
BY DEF Packets, Cells, Head1, Tail1, AnyType, AnyText

\* hReceive and SendProtoMsg write parts of a packet.
LEMMA WriteType ==
  ASSUME NEW p \in Packets, NEW c \in Cells, NEW d \in Cells
  PROVE  /\ WriteFirst(p, c) \in Packets
         /\ WriteRest(WriteFirst(p, c), d) \in Packets
<1>1. ASSUME NEW q \in Packets  PROVE WriteRest(q, d) \in Packets
  BY DEF Packets, Cells, WriteRest, AnyText
<1>2. WriteFirst(p, c) \in Packets
  BY DEF Packets, Cells, WriteFirst, AnyType, AnyText
<1>3. QED
  BY <1>1, <1>2

LEMMA FillType ==
  ASSUME NEW p \in Packets, NEW x \in Side, NEW t \in Texts, NEW k \in Kinds
  PROVE  /\ [p EXCEPT !.first = t, !.rest = t] \in Packets
         /\ [p EXCEPT !.type = k] \in Packets
         /\ [p EXCEPT !.user = x] \in Packets
BY DEF Packets, AnyType, AnyText

\* What a packet adds at the end of a stream.
LEMMA SendCells ==
  ASSUME NEW s \in Seq(Cells), NEW p \in Packets, NEW t, t = s \o <<Head1(p), Tail1(p)>>
  PROVE  /\ t \in Seq(Cells) /\ Len(t) = Len(s) + 2
         /\ \A i \in 1..Len(s) : t[i] = s[i]
         /\ t[Len(s) + 1] = Head1(p) /\ t[Len(s) + 2] = Tail1(p)
BY CellType

\* What is left of a stream after a receive.
LEMMA RestCells ==
  ASSUME NEW s \in Seq(Cells)
  PROVE  /\ s # <<>> => /\ s[1] \in Cells /\ Tail(s) \in Seq(Cells) /\ Len(Tail(s)) = Len(s) - 1
                        /\ \A i \in 1..(Len(s) - 1) : Tail(s)[i] = s[i + 1]
         /\ Len(s) >= 2 =>
              /\ s[1] \in Cells /\ s[2] \in Cells
              /\ SubSeq(s, 3, Len(s)) \in Seq(Cells) /\ Len(SubSeq(s, 3, Len(s))) = Len(s) - 2
              /\ \A i \in 1..(Len(s) - 2) : SubSeq(s, 3, Len(s))[i] = s[i + 2]
<1>1. s # <<>> => /\ s[1] \in Cells /\ Tail(s) \in Seq(Cells) /\ Len(Tail(s)) = Len(s) - 1
                  /\ \A i \in 1..(Len(s) - 1) : Tail(s)[i] = s[i + 1]
  OBVIOUS
<1>2. ASSUME Len(s) >= 2
      PROVE  /\ s[1] \in Cells /\ s[2] \in Cells
             /\ SubSeq(s, 3, Len(s)) \in Seq(Cells) /\ Len(SubSeq(s, 3, Len(s))) = Len(s) - 2
             /\ \A i \in 1..(Len(s) - 2) : SubSeq(s, 3, Len(s))[i] = s[i + 2]
  BY <1>2
<1>3. QED
  BY <1>1, <1>2

LEMMA Element ==
  ASSUME NEW T, NEW s \in Seq(T), NEW i \in 1..Len(s)
  PROVE  s[i] \in T
OBVIOUS

LEMMA AppendFacts ==
  ASSUME NEW T, NEW s \in Seq(T), NEW m \in T
  PROVE  /\ Append(s, m) \in Seq(T) /\ Len(Append(s, m)) = Len(s) + 1
         /\ \A i \in 1..Len(s) : Append(s, m)[i] = s[i]
         /\ Append(s, m)[Len(s) + 1] = m
OBVIOUS

LEMMA LastWords ==
  ASSUME plan \in Plans, NEW x \in Side
  PROVE  Cya(x) \in Packets
BY TextFacts DEF Packets, AnyType, Kinds, Cya

-----------------------------------------------------------------------------
(* Types *)

LEMMA TypeStep ==
  ASSUME plan \in Plans, plan' = plan,
         main' \in [Side -> {"start", "input", "end"} \union Sending],
         recv' \in [Side -> {"off", "recv", "look", "print", "status"}],
         \A x \in Side : recv'[x] = "off" <=> main'[x] \in {"start", "end"},
         packet' \in [Side -> Packets],
         kind' \in [Side -> Kinds], line' \in [Side -> Texts],
         typed' \in [Side -> Nat], \A x \in Side : typed'[x] <= Lines(x),
         stream' \in [Side -> Seq(Cells)],
         shown' \in [Side -> Seq([user : Side \union {"?"}, first : AnyText, rest : AnyText])],
         clash' \in BOOLEAN, cut' \in BOOLEAN
  PROVE  TypeOK'
<1>1. Texts' = Texts /\ AnyText' = AnyText /\ \A x : Lines(x)' = Lines(x)
  BY DEF Texts, AnyText, Lines
<1>2. Cells' = Cells /\ Packets' = Packets
  BY <1>1 DEF Cells, Packets
<1>3. QED
  BY <1>1, <1>2 DEF TypeOK

LEMMA ConnectType == TypeOK /\ Connect => TypeOK'
BY Sides DEF TypeOK, Connect, Start, Sending, Lines, Packets, Cells, Texts, AnyText

LEMMA AcceptType == TypeOK /\ Accept => TypeOK'
BY Sides DEF TypeOK, Accept, Start, Sending, Lines, Packets, Cells, Texts, AnyText

LEMMA LastStream ==
  ASSUME TypeOK, NEW x \in Side, LookFinal(x)
  PROVE  stream' = [y \in Side |-> IF y = x THEN <<>>
                                   ELSE IF x = "server"
                                     THEN stream[y] \o <<Head1(Cya(x)), Tail1(Cya(x))>>
                                     ELSE stream[y]]
<1>1. stream' = [stream EXCEPT ![x] = <<>>, ![Peer(x)] =
                   IF x = "server" THEN @ \o <<Head1(Cya(x)), Tail1(Cya(x))>> ELSE @]
  BY DEF LookFinal, Cya
<1>2. DOMAIN stream = Side /\ stream = [y \in Side |-> stream[y]]
  BY DEF TypeOK
<1>3. QED
  BY <1>1, <1>2, Sides

LEMMA TypeType ==
  ASSUME TypeOK, NEW x \in Side, Type(x)
  PROVE  TypeOK'
<1>1. plan \in Plans /\ plan' = plan /\ clash' \in BOOLEAN /\ cut' \in BOOLEAN
  BY DEF TypeOK, Type
<1>2. /\ main' \in [Side -> {"start", "input", "end"} \union Sending]
      /\ recv' \in [Side -> {"off", "recv", "look", "print", "status"}]
      /\ \A y \in Side : recv'[y] = "off" <=> main'[y] \in {"start", "end"}
  BY Sides DEF TypeOK, Type, Step, Sending
<1>3. packet' \in [Side -> Packets]
  BY DEF TypeOK, Type
<1>4. kind' \in [Side -> Kinds] /\ line' \in [Side -> Texts]
  <2>1. typed[x] + 1 \in 0..Lines(x) /\ typed'[x] = typed[x] + 1
    BY TextFacts DEF TypeOK, Type
  <2>2. <<x, typed'[x]>> \in Texts
    BY <2>1, TextFacts DEF TypeOK
  <2>3. QED
    BY <2>2 DEF TypeOK, Type, Kinds
<1>5. typed' \in [Side -> Nat] /\ \A y \in Side : typed'[y] <= Lines(y)
  BY TextFacts DEF TypeOK, Type, Step
<1>6. stream' \in [Side -> Seq(Cells)]
  BY DEF TypeOK, Type
<1>7. shown' \in [Side -> Seq([user : Side \union {"?"}, first : AnyText, rest : AnyText])]
  BY DEF TypeOK, Type
<1>8. QED
  BY <1>1, <1>2, <1>3, <1>4, <1>5, <1>6, <1>7, TypeStep

LEMMA TypeShortType ==
  ASSUME TypeOK, NEW x \in Side, TypeShort(x)
  PROVE  TypeOK'
<1>1. /\ UNCHANGED <<plan, main, recv, packet, kind, line, stream, shown, clash, cut>>
      /\ typed' = [typed EXCEPT ![x] = @ + 1]
  BY DEF TypeShort
<1>2. typed' \in [Side -> Nat] /\ \A y \in Side : typed'[y] <= Lines(y)
  BY <1>1, TextFacts DEF TypeOK, TypeShort
<1>3. QED
  BY <1>1, <1>2, TypeStep DEF TypeOK

LEMMA TypeQuitType ==
  ASSUME TypeOK, NEW x \in Side, TypeQuit(x)
  PROVE  TypeOK'
<1>1. plan \in Plans /\ plan' = plan /\ clash' \in BOOLEAN /\ cut' \in BOOLEAN
  BY DEF TypeOK, TypeQuit
<1>2. /\ main' \in [Side -> {"start", "input", "end"} \union Sending]
      /\ recv' \in [Side -> {"off", "recv", "look", "print", "status"}]
      /\ \A y \in Side : recv'[y] = "off" <=> main'[y] \in {"start", "end"}
  BY Sides DEF TypeOK, TypeQuit, Step, Sending
<1>3. packet' \in [Side -> Packets]
  BY DEF TypeOK, TypeQuit
<1>4. kind' \in [Side -> Kinds] /\ line' \in [Side -> Texts]
  BY TextFacts DEF TypeOK, TypeQuit, Kinds
<1>5. typed' \in [Side -> Nat] /\ \A y \in Side : typed'[y] <= Lines(y)
  BY DEF TypeOK, TypeQuit
<1>6. stream' \in [Side -> Seq(Cells)]
  BY DEF TypeOK, TypeQuit
<1>7. shown' \in [Side -> Seq([user : Side \union {"?"}, first : AnyText, rest : AnyText])]
  BY DEF TypeOK, TypeQuit
<1>8. QED
  BY <1>1, <1>2, <1>3, <1>4, <1>5, <1>6, <1>7, TypeStep

LEMMA SetMsgType ==
  ASSUME TypeOK, NEW x \in Side, SetMsg(x)
  PROVE  TypeOK'
<1>1. plan \in Plans /\ plan' = plan /\ clash' \in BOOLEAN /\ cut' \in BOOLEAN
  BY DEF TypeOK, SetMsg
<1>2. /\ main' \in [Side -> {"start", "input", "end"} \union Sending]
      /\ recv' \in [Side -> {"off", "recv", "look", "print", "status"}]
      /\ \A y \in Side : recv'[y] = "off" <=> main'[y] \in {"start", "end"}
  BY Sides DEF TypeOK, SetMsg, Step, Sending
<1>3. packet' \in [Side -> Packets]
  BY FillType DEF TypeOK, SetMsg, Kinds
<1>4. kind' \in [Side -> Kinds] /\ line' \in [Side -> Texts]
  BY TextFacts DEF TypeOK, SetMsg, Kinds
<1>5. typed' \in [Side -> Nat] /\ \A y \in Side : typed'[y] <= Lines(y)
  BY DEF TypeOK, SetMsg
<1>6. stream' \in [Side -> Seq(Cells)]
  BY DEF TypeOK, SetMsg
<1>7. shown' \in [Side -> Seq([user : Side \union {"?"}, first : AnyText, rest : AnyText])]
  BY DEF TypeOK, SetMsg
<1>8. QED
  BY <1>1, <1>2, <1>3, <1>4, <1>5, <1>6, <1>7, TypeStep

LEMMA SetTypeType ==
  ASSUME TypeOK, NEW x \in Side, SetType(x)
  PROVE  TypeOK'
<1>1. plan \in Plans /\ plan' = plan /\ clash' \in BOOLEAN /\ cut' \in BOOLEAN
  BY DEF TypeOK, SetType
<1>2. /\ main' \in [Side -> {"start", "input", "end"} \union Sending]
      /\ recv' \in [Side -> {"off", "recv", "look", "print", "status"}]
      /\ \A y \in Side : recv'[y] = "off" <=> main'[y] \in {"start", "end"}
  BY Sides DEF TypeOK, SetType, Step, Sending
<1>3. packet' \in [Side -> Packets]
  BY FillType DEF TypeOK, SetType, Kinds
<1>4. kind' \in [Side -> Kinds] /\ line' \in [Side -> Texts]
  BY TextFacts DEF TypeOK, SetType, Kinds
<1>5. typed' \in [Side -> Nat] /\ \A y \in Side : typed'[y] <= Lines(y)
  BY DEF TypeOK, SetType
<1>6. stream' \in [Side -> Seq(Cells)]
  BY DEF TypeOK, SetType
<1>7. shown' \in [Side -> Seq([user : Side \union {"?"}, first : AnyText, rest : AnyText])]
  BY DEF TypeOK, SetType
<1>8. QED
  BY <1>1, <1>2, <1>3, <1>4, <1>5, <1>6, <1>7, TypeStep

LEMMA SetNameType ==
  ASSUME TypeOK, NEW x \in Side, SetName(x)
  PROVE  TypeOK'
<1>1. plan \in Plans /\ plan' = plan /\ clash' \in BOOLEAN /\ cut' \in BOOLEAN
  BY DEF TypeOK, SetName
<1>2. /\ main' \in [Side -> {"start", "input", "end"} \union Sending]
      /\ recv' \in [Side -> {"off", "recv", "look", "print", "status"}]
      /\ \A y \in Side : recv'[y] = "off" <=> main'[y] \in {"start", "end"}
  BY Sides DEF TypeOK, SetName, Step, Sending
<1>3. packet' \in [Side -> Packets]
  BY FillType DEF TypeOK, SetName, Kinds
<1>4. kind' \in [Side -> Kinds] /\ line' \in [Side -> Texts]
  BY TextFacts DEF TypeOK, SetName, Kinds
<1>5. typed' \in [Side -> Nat] /\ \A y \in Side : typed'[y] <= Lines(y)
  BY DEF TypeOK, SetName
<1>6. stream' \in [Side -> Seq(Cells)]
  BY DEF TypeOK, SetName
<1>7. shown' \in [Side -> Seq([user : Side \union {"?"}, first : AnyText, rest : AnyText])]
  BY DEF TypeOK, SetName
<1>8. QED
  BY <1>1, <1>2, <1>3, <1>4, <1>5, <1>6, <1>7, TypeStep

LEMMA SendType ==
  ASSUME TypeOK, NEW x \in Side, Send(x)
  PROVE  TypeOK'
<1>1. plan \in Plans /\ plan' = plan /\ clash' \in BOOLEAN /\ cut' \in BOOLEAN
  BY DEF TypeOK, Send
<1>2. /\ main' \in [Side -> {"start", "input", "end"} \union Sending]
      /\ recv' \in [Side -> {"off", "recv", "look", "print", "status"}]
      /\ \A y \in Side : recv'[y] = "off" <=> main'[y] \in {"start", "end"}
  BY Sides DEF TypeOK, Send, Step, Sending
<1>3. packet' \in [Side -> Packets]
  BY DEF TypeOK, Send
<1>4. kind' \in [Side -> Kinds] /\ line' \in [Side -> Texts]
  BY TextFacts DEF TypeOK, Send, Kinds
<1>5. typed' \in [Side -> Nat] /\ \A y \in Side : typed'[y] <= Lines(y)
  BY DEF TypeOK, Send
<1>6. stream' \in [Side -> Seq(Cells)]
  <2>1. stream[Peer(x)] \in Seq(Cells) /\ packet[x] \in Packets
    BY Sides DEF TypeOK
  <2>2. stream[Peer(x)] \o <<Head1(packet[x]), Tail1(packet[x])>> \in Seq(Cells)
    BY <2>1, SendCells
  <2>3. QED
    BY <2>2 DEF TypeOK, Send
<1>7. shown' \in [Side -> Seq([user : Side \union {"?"}, first : AnyText, rest : AnyText])]
  BY DEF TypeOK, Send
<1>8. QED
  BY <1>1, <1>2, <1>3, <1>4, <1>5, <1>6, <1>7, TypeStep

LEMMA EchoType ==
  ASSUME TypeOK, NEW x \in Side, Echo(x)
  PROVE  TypeOK'
<1>1. plan \in Plans /\ plan' = plan /\ clash' \in BOOLEAN /\ cut' \in BOOLEAN
  BY DEF TypeOK, Echo
<1>2. /\ main' \in [Side -> {"start", "input", "end"} \union Sending]
      /\ recv' \in [Side -> {"off", "recv", "look", "print", "status"}]
      /\ \A y \in Side : recv'[y] = "off" <=> main'[y] \in {"start", "end"}
  BY Sides DEF TypeOK, Echo, End, Sending
<1>3. packet' \in [Side -> Packets]
  BY DEF TypeOK, Echo
<1>4. kind' \in [Side -> Kinds] /\ line' \in [Side -> Texts]
  BY TextFacts DEF TypeOK, Echo, Kinds, End
<1>5. typed' \in [Side -> Nat] /\ \A y \in Side : typed'[y] <= Lines(y)
  BY DEF TypeOK, Echo
<1>6. stream' \in [Side -> Seq(Cells)]
  <2>1. <<>> \in Seq(Cells) /\ (stream' = stream \/ stream' = [stream EXCEPT ![x] = <<>>])
    BY DEF Echo, End
  <2>2. QED
    BY <2>1 DEF TypeOK
<1>7. shown' \in [Side -> Seq([user : Side \union {"?"}, first : AnyText, rest : AnyText])]
  BY DEF TypeOK, Echo
<1>8. QED
  BY <1>1, <1>2, <1>3, <1>4, <1>5, <1>6, <1>7, TypeStep

LEMMA ReceivePartType ==
  ASSUME TypeOK, NEW x \in Side, ReceivePart(x)
  PROVE  TypeOK'
<1>1. plan \in Plans /\ plan' = plan /\ clash' \in BOOLEAN /\ cut' \in BOOLEAN
  BY DEF TypeOK, ReceivePart, Turn
<1>2. /\ main' \in [Side -> {"start", "input", "end"} \union Sending]
      /\ recv' \in [Side -> {"off", "recv", "look", "print", "status"}]
      /\ \A y \in Side : recv'[y] = "off" <=> main'[y] \in {"start", "end"}
  BY Sides DEF TypeOK, ReceivePart, Turn, Sending
<1>3. packet' \in [Side -> Packets]
  BY WriteType, RestCells DEF TypeOK, ReceivePart
<1>4. kind' \in [Side -> Kinds] /\ line' \in [Side -> Texts]
  BY TextFacts DEF TypeOK, ReceivePart, Kinds
<1>5. typed' \in [Side -> Nat] /\ \A y \in Side : typed'[y] <= Lines(y)
  BY DEF TypeOK, ReceivePart
<1>6. stream' \in [Side -> Seq(Cells)]
  BY RestCells DEF TypeOK, ReceivePart
<1>7. shown' \in [Side -> Seq([user : Side \union {"?"}, first : AnyText, rest : AnyText])]
  BY DEF TypeOK, ReceivePart
<1>8. QED
  BY <1>1, <1>2, <1>3, <1>4, <1>5, <1>6, <1>7, TypeStep

LEMMA ReceiveFullType ==
  ASSUME TypeOK, NEW x \in Side, ReceiveFull(x)
  PROVE  TypeOK'
<1>1. plan \in Plans /\ plan' = plan /\ clash' \in BOOLEAN /\ cut' \in BOOLEAN
  BY DEF TypeOK, ReceiveFull, Turn
<1>2. /\ main' \in [Side -> {"start", "input", "end"} \union Sending]
      /\ recv' \in [Side -> {"off", "recv", "look", "print", "status"}]
      /\ \A y \in Side : recv'[y] = "off" <=> main'[y] \in {"start", "end"}
  BY Sides DEF TypeOK, ReceiveFull, Turn, Sending
<1>3. packet' \in [Side -> Packets]
  BY WriteType, RestCells DEF TypeOK, ReceiveFull
<1>4. kind' \in [Side -> Kinds] /\ line' \in [Side -> Texts]
  BY TextFacts DEF TypeOK, ReceiveFull, Kinds
<1>5. typed' \in [Side -> Nat] /\ \A y \in Side : typed'[y] <= Lines(y)
  BY DEF TypeOK, ReceiveFull
<1>6. stream' \in [Side -> Seq(Cells)]
  BY RestCells DEF TypeOK, ReceiveFull
<1>7. shown' \in [Side -> Seq([user : Side \union {"?"}, first : AnyText, rest : AnyText])]
  BY DEF TypeOK, ReceiveFull
<1>8. QED
  BY <1>1, <1>2, <1>3, <1>4, <1>5, <1>6, <1>7, TypeStep

LEMMA ReceiveEOFType ==
  ASSUME TypeOK, NEW x \in Side, ReceiveEOF(x)
  PROVE  TypeOK'
<1>1. plan \in Plans /\ plan' = plan /\ clash' \in BOOLEAN /\ cut' \in BOOLEAN
  BY DEF TypeOK, ReceiveEOF
<1>2. /\ main' \in [Side -> {"start", "input", "end"} \union Sending]
      /\ recv' \in [Side -> {"off", "recv", "look", "print", "status"}]
      /\ \A y \in Side : recv'[y] = "off" <=> main'[y] \in {"start", "end"}
  BY Sides DEF TypeOK, ReceiveEOF, End, Sending
<1>3. packet' \in [Side -> Packets]
  BY DEF TypeOK, ReceiveEOF
<1>4. kind' \in [Side -> Kinds] /\ line' \in [Side -> Texts]
  BY TextFacts DEF TypeOK, ReceiveEOF, Kinds
<1>5. typed' \in [Side -> Nat] /\ \A y \in Side : typed'[y] <= Lines(y)
  BY DEF TypeOK, ReceiveEOF
<1>6. stream' \in [Side -> Seq(Cells)]
  BY Sides DEF TypeOK, ReceiveEOF, End
<1>7. shown' \in [Side -> Seq([user : Side \union {"?"}, first : AnyText, rest : AnyText])]
  BY DEF TypeOK, ReceiveEOF
<1>8. QED
  BY <1>1, <1>2, <1>3, <1>4, <1>5, <1>6, <1>7, TypeStep

LEMMA LookChatType ==
  ASSUME TypeOK, NEW x \in Side, LookChat(x)
  PROVE  TypeOK'
<1>1. plan \in Plans /\ plan' = plan /\ clash' \in BOOLEAN /\ cut' \in BOOLEAN
  BY DEF TypeOK, LookChat, Turn
<1>2. /\ main' \in [Side -> {"start", "input", "end"} \union Sending]
      /\ recv' \in [Side -> {"off", "recv", "look", "print", "status"}]
      /\ \A y \in Side : recv'[y] = "off" <=> main'[y] \in {"start", "end"}
  BY Sides DEF TypeOK, LookChat, Turn, Sending
<1>3. packet' \in [Side -> Packets]
  BY DEF TypeOK, LookChat
<1>4. kind' \in [Side -> Kinds] /\ line' \in [Side -> Texts]
  BY TextFacts DEF TypeOK, LookChat, Kinds
<1>5. typed' \in [Side -> Nat] /\ \A y \in Side : typed'[y] <= Lines(y)
  BY DEF TypeOK, LookChat
<1>6. stream' \in [Side -> Seq(Cells)]
  BY DEF TypeOK, LookChat
<1>7. shown' \in [Side -> Seq([user : Side \union {"?"}, first : AnyText, rest : AnyText])]
  BY DEF TypeOK, LookChat
<1>8. QED
  BY <1>1, <1>2, <1>3, <1>4, <1>5, <1>6, <1>7, TypeStep

LEMMA LookFinalType ==
  ASSUME TypeOK, NEW x \in Side, LookFinal(x)
  PROVE  TypeOK'
<1>1. plan \in Plans /\ plan' = plan /\ clash' \in BOOLEAN /\ cut' \in BOOLEAN
  BY DEF TypeOK, LookFinal
<1>2. /\ main' \in [Side -> {"start", "input", "end"} \union Sending]
      /\ recv' \in [Side -> {"off", "recv", "look", "print", "status"}]
      /\ \A y \in Side : recv'[y] = "off" <=> main'[y] \in {"start", "end"}
  BY Sides DEF TypeOK, LookFinal, Sending
<1>3. packet' \in [Side -> Packets]
  BY DEF TypeOK, LookFinal
<1>4. kind' \in [Side -> Kinds] /\ line' \in [Side -> Texts]
  BY TextFacts DEF TypeOK, LookFinal, Kinds
<1>5. typed' \in [Side -> Nat] /\ \A y \in Side : typed'[y] <= Lines(y)
  BY DEF TypeOK, LookFinal
<1>6. stream' \in [Side -> Seq(Cells)]
  <2>1. \A y \in Side : stream[y] \o <<Head1(Cya(x)), Tail1(Cya(x))>> \in Seq(Cells)
    BY LastWords, SendCells DEF TypeOK
  <2>2. <<>> \in Seq(Cells) /\ \A y \in Side : stream[y] \in Seq(Cells)
    BY DEF TypeOK
  <2>3. QED
    BY <2>1, <2>2, LastStream
<1>7. shown' \in [Side -> Seq([user : Side \union {"?"}, first : AnyText, rest : AnyText])]
  BY DEF TypeOK, LookFinal
<1>8. QED
  BY <1>1, <1>2, <1>3, <1>4, <1>5, <1>6, <1>7, TypeStep

LEMMA LookUnknownType ==
  ASSUME TypeOK, NEW x \in Side, LookUnknown(x)
  PROVE  TypeOK'
<1>1. plan \in Plans /\ plan' = plan /\ clash' \in BOOLEAN /\ cut' \in BOOLEAN
  BY DEF TypeOK, LookUnknown, Turn
<1>2. /\ main' \in [Side -> {"start", "input", "end"} \union Sending]
      /\ recv' \in [Side -> {"off", "recv", "look", "print", "status"}]
      /\ \A y \in Side : recv'[y] = "off" <=> main'[y] \in {"start", "end"}
  BY Sides DEF TypeOK, LookUnknown, Turn, Sending
<1>3. packet' \in [Side -> Packets]
  BY DEF TypeOK, LookUnknown
<1>4. kind' \in [Side -> Kinds] /\ line' \in [Side -> Texts]
  BY TextFacts DEF TypeOK, LookUnknown, Kinds
<1>5. typed' \in [Side -> Nat] /\ \A y \in Side : typed'[y] <= Lines(y)
  BY DEF TypeOK, LookUnknown
<1>6. stream' \in [Side -> Seq(Cells)]
  BY DEF TypeOK, LookUnknown
<1>7. shown' \in [Side -> Seq([user : Side \union {"?"}, first : AnyText, rest : AnyText])]
  BY DEF TypeOK, LookUnknown
<1>8. QED
  BY <1>1, <1>2, <1>3, <1>4, <1>5, <1>6, <1>7, TypeStep

LEMMA PrintChatType ==
  ASSUME TypeOK, NEW x \in Side, PrintChat(x)
  PROVE  TypeOK'
<1>1. plan \in Plans /\ plan' = plan /\ clash' \in BOOLEAN /\ cut' \in BOOLEAN
  BY DEF TypeOK, PrintChat, Turn
<1>2. /\ main' \in [Side -> {"start", "input", "end"} \union Sending]
      /\ recv' \in [Side -> {"off", "recv", "look", "print", "status"}]
      /\ \A y \in Side : recv'[y] = "off" <=> main'[y] \in {"start", "end"}
  BY Sides DEF TypeOK, PrintChat, Turn, Sending
<1>3. packet' \in [Side -> Packets]
  BY DEF TypeOK, PrintChat
<1>4. kind' \in [Side -> Kinds] /\ line' \in [Side -> Texts]
  BY TextFacts DEF TypeOK, PrintChat, Kinds
<1>5. typed' \in [Side -> Nat] /\ \A y \in Side : typed'[y] <= Lines(y)
  BY DEF TypeOK, PrintChat
<1>6. stream' \in [Side -> Seq(Cells)]
  BY DEF TypeOK, PrintChat
<1>7. shown' \in [Side -> Seq([user : Side \union {"?"}, first : AnyText, rest : AnyText])]
  <2>1. [user |-> packet[x].user, first |-> packet[x].first, rest |-> packet[x].rest] \in
          [user : Side \union {"?"}, first : AnyText, rest : AnyText]
    BY DEF TypeOK, Packets
  <2>2. CASE clash
    BY <2>2 DEF TypeOK, PrintChat
  <2>3. CASE ~clash
    <3>1. Append(shown[x], [user |-> packet[x].user, first |-> packet[x].first,
                            rest |-> packet[x].rest]) \in
            Seq([user : Side \union {"?"}, first : AnyText, rest : AnyText])
      BY <2>1, AppendFacts DEF TypeOK
    <3>2. QED
      BY <2>3, <3>1 DEF TypeOK, PrintChat
  <2>4. QED
    BY <2>2, <2>3
<1>8. QED
  BY <1>1, <1>2, <1>3, <1>4, <1>5, <1>6, <1>7, TypeStep

LEMMA StatusType ==
  ASSUME TypeOK, NEW x \in Side, Status(x)
  PROVE  TypeOK'
<1>1. plan \in Plans /\ plan' = plan /\ clash' \in BOOLEAN /\ cut' \in BOOLEAN
  BY DEF TypeOK, Status, Turn
<1>2. /\ main' \in [Side -> {"start", "input", "end"} \union Sending]
      /\ recv' \in [Side -> {"off", "recv", "look", "print", "status"}]
      /\ \A y \in Side : recv'[y] = "off" <=> main'[y] \in {"start", "end"}
  BY Sides DEF TypeOK, Status, Turn, Sending
<1>3. packet' \in [Side -> Packets]
  BY DEF TypeOK, Status
<1>4. kind' \in [Side -> Kinds] /\ line' \in [Side -> Texts]
  BY TextFacts DEF TypeOK, Status, Kinds
<1>5. typed' \in [Side -> Nat] /\ \A y \in Side : typed'[y] <= Lines(y)
  BY DEF TypeOK, Status
<1>6. stream' \in [Side -> Seq(Cells)]
  BY DEF TypeOK, Status
<1>7. shown' \in [Side -> Seq([user : Side \union {"?"}, first : AnyText, rest : AnyText])]
  BY DEF TypeOK, Status
<1>8. QED
  BY <1>1, <1>2, <1>3, <1>4, <1>5, <1>6, <1>7, TypeStep

-----------------------------------------------------------------------------
(* What the steps have in common *)

LEMMA LimitType ==
  ASSUME TypeOK, NEW x \in Side
  PROVE  /\ Num(line[x]) \in Nat /\ Limit(x) \in Int /\ Limit(x) <= typed[x]
         /\ typed[x] \in Nat
         /\ ~Held(x) => Limit(x) = typed[x]
         /\ Held(x) => Limit(x) = typed[x] - 1
<1>1. Num(line[x]) \in Nat
  BY TextFacts DEF TypeOK
<1>2. typed[x] \in Nat
  BY DEF TypeOK
<1>3. QED
  BY <1>1, <1>2 DEF Limit

\* The numbers of what is under way and shown.
LEMMA NumTypes ==
  ASSUME TypeOK, NEW x \in Side
  PROVE  /\ stream[x] \in Seq(Cells) /\ Len(stream[x]) \in Nat /\ Len(shown[x]) \in Nat
         /\ \A i \in 1..Len(stream[x]) : /\ stream[x][i] \in Cells
                                         /\ Num(stream[x][i].text) \in Nat
         /\ Num(packet[x].first) \in Nat
         /\ \A i \in 1..Len(shown[x]) : Num(shown[x][i].first) \in Nat
<1>1. stream[x] \in Seq(Cells) /\ plan \in Plans /\ packet[x] \in Packets
  BY DEF TypeOK
<1>2. shown[x] \in Seq([user : Side \union {"?"}, first : AnyText, rest : AnyText])
  BY DEF TypeOK
<1>3. \A t \in AnyText : Num(t) \in Nat
  BY <1>1, TextFacts
<1>4. ASSUME NEW i \in 1..Len(stream[x])
      PROVE  stream[x][i] \in Cells /\ Num(stream[x][i].text) \in Nat
  <2>1. stream[x][i] \in Cells
    BY <1>1
  <2>2. stream[x][i].text \in AnyText
    BY <2>1 DEF Cells
  <2>3. QED
    BY <1>3, <2>1, <2>2
<1>5. ASSUME NEW i \in 1..Len(shown[x])  PROVE Num(shown[x][i].first) \in Nat
  <2>1. shown[x][i] \in [user : Side \union {"?"}, first : AnyText, rest : AnyText]
    BY <1>2, Element
  <2>2. QED
    BY <1>3, <2>1
<1>6. Num(packet[x].first) \in Nat
  BY <1>1, <1>3 DEF Packets
<1>7. QED
  BY <1>1, <1>2, <1>4, <1>5, <1>6

LEMMA CoreParts == \A x : Core(x) <=> Filling(x) /\ Reading(x)
BY DEF Core, Reading

LEMMA CoreNext ==
  ASSUME NEW y, Filling(y)', Reading(y)'
  PROVE  Core(y)'
BY DEF Core

LEMMA FillingKept ==
  ASSUME NEW y \in Side, Filling(y),
         main'[y] = main[y], line'[y] = line[y], kind'[y] = kind[y], typed'[y] = typed[y],
         main[y] \in {"type", "name", "send"} => packet'[y] = packet[y],
         main[y] \in {"type", "name", "send"} /\ recv'[y] \in {"look", "print"} =>
           recv[y] \in {"look", "print"}
  PROVE  Filling(y)'
BY DEF Filling, Control

\* Nothing new is under way to y, or received, or shown.
LEMMA ReadingKept ==
  ASSUME TypeOK, TypeOK', NEW y \in Side, Reading(y),
         stream'[y] = stream[y] \/ stream'[y] = <<>>, shown'[y] = shown[y],
         Pending(y)' => Pending(y) /\ packet'[y] = packet[y],
         recv'[y] = "print" => packet'[y].type = "CHAT",
         Limit(Peer(y)) <= Limit(Peer(y))'
  PROVE  Reading(y)'
<1>1. Limit(Peer(y)) \in Int /\ Limit(Peer(y))' \in Int
  <2>1. Limit(Peer(y)) \in Int
    BY LimitType, Sides
  <2>2. Peer(y) \in Side /\ typed' \in [Side -> Nat]
    BY Sides DEF TypeOK
  <2>3. typed'[Peer(y)] \in Nat
    BY <2>2
  <2>4. QED
    BY <2>1, <2>3 DEF Limit
<1>2. \A t : Num(t) \in Nat /\ FromPeer(y, t) => FromPeer(y, t)'
  BY <1>1 DEF FromPeer, Num
<1>3. \A i \in 1..Len(stream'[y]) : i \in 1..Len(stream[y]) /\ stream'[y] = stream[y]
  BY NumTypes
<1>4. Whole(y)'
  <2>1. CASE stream'[y] = <<>>
    BY <2>1 DEF Whole, IsHead
  <2>2. CASE stream'[y] = stream[y]
    <3>1. \A i : IsHead(y, i)' <=> IsHead(y, i)
      BY <2>2 DEF IsHead
    <3>2. ASSUME NEW i \in 1..Len(stream[y]), IsHead(y, i)
          PROVE  /\ stream[y][i].user = Peer(y) /\ FromPeer(y, stream[y][i].text)'
                 /\ i < Len(stream[y]) /\ stream[y][i + 1].part = "tail"
                 /\ stream[y][i + 1].text = stream[y][i].text
      BY <1>2, <2>2, <3>2, NumTypes DEF Whole, Reading, FromPeer, Num
    <3>3. QED
      BY <2>2, <3>1, <3>2, NumTypes DEF Whole, Reading, FromPeer, After, Num
  <2>3. QED
    BY <2>1, <2>2
<1>5. Received(y)'
  BY <1>2, <1>3, NumTypes DEF Received, IsHead, Reading, FromPeer, After, Num
<1>6. Shown(y)'
  BY <1>2, <1>3, NumTypes DEF Shown, Genuine, IsHead, Reading, FromPeer, After, Num
<1>7. QED
  BY <1>4, <1>5, <1>6 DEF Reading

LEMMA LimitKept ==
  ASSUME NEW y, main'[y] = main[y], line'[y] = line[y], typed'[y] = typed[y]
  PROVE  Limit(y)' = Limit(y) /\ (Held(y)' <=> Held(y))
BY DEF Limit, Held, Num

LEMMA UncutKept ==
  ASSUME TypeOK, NEW y \in Side, Uncut(y), plan' = plan,
         stream'[y] = stream[y], shown'[y] = shown[y],
         Pending(y) => Pending(y)' /\ packet'[y] = packet[y],
         Over => Over',
         Held(Peer(y)) => Held(Peer(y))' /\ typed'[Peer(y)] = typed[Peer(y)],
         \A n \in 1..typed'[Peer(y)] :
           \/ n \in 1..typed[Peer(y)] \union Short(Peer(y))
           \/ Held(Peer(y))' /\ n = typed'[Peer(y)]
  PROVE  Uncut(y)'
<1>1. \A i : IsHead(y, i)' <=> IsHead(y, i)
  BY DEF IsHead
<1>2. ASSUME NEW n \in 1..typed'[Peer(y)]  PROVE Somewhere(y, n)'
  BY <1>1, <1>2 DEF Somewhere, Uncut, Num, Short
<1>3. QED
  BY <1>1, <1>2 DEF Uncut

LEMMA UncutEnded ==
  ASSUME NEW y \in Side, Over', stream'[y] = <<>> \/ (stream'[y] = stream[y] /\ Uncut(y))
  PROVE  Uncut(y)'
BY DEF Uncut, Somewhere, IsHead

\* A packet that arrives has its head behind what was there.
LEMMA HeadsArrive ==
  ASSUME NEW y \in Side, stream[y] \in Seq(Cells), NEW p \in Packets,
         stream'[y] = stream[y] \o <<Head1(p), Tail1(p)>>
  PROVE  \A i : IsHead(y, i)' <=> IsHead(y, i) \/ i = Len(stream[y]) + 1
<1> DEFINE n == Len(stream[y])
<1>1. /\ n \in Nat /\ Len(stream'[y]) = n + 2
      /\ \A i \in 1..n : stream'[y][i] = stream[y][i]
      /\ stream'[y][n + 1] = Head1(p) /\ stream'[y][n + 2] = Tail1(p)
  BY SendCells
<1>2. Head1(p).part = "head" /\ Tail1(p).part = "tail"
  BY DEF Head1, Tail1
<1>3. ASSUME NEW i \in 1..n+2  PROVE IsHead(y, i)' <=> IsHead(y, i) \/ i = n + 1
  <2>1. CASE i \in 1..n
    BY <1>1, <2>1 DEF IsHead
  <2>2. CASE i = n + 1
    BY <1>1, <1>2, <2>2 DEF IsHead
  <2>3. CASE i = n + 2
    BY <1>1, <1>2, <2>3 DEF IsHead
  <2>4. QED
    BY <1>1, <2>1, <2>2, <2>3
<1>4. ASSUME NEW i, i \notin 1..n+2  PROVE ~IsHead(y, i)' /\ ~IsHead(y, i) /\ i # n + 1
  BY <1>1, <1>4 DEF IsHead
<1>5. QED
  BY <1>3, <1>4

\* A packet p of y's peer is sent after all that came before it.
LEMMA ReadingArrives ==
  ASSUME TypeOK, TypeOK', NEW y \in Side, Reading(y), NEW p \in Packets,
         stream'[y] = stream[y] \o <<Head1(p), Tail1(p)>>,
         shown'[y] = shown[y], recv'[y] = recv[y], packet'[y] = packet[y],
         Limit(Peer(y)) <= Limit(Peer(y))', FromPeer(y, p.first)',
         p.user = Peer(y), p.first = p.rest,
         Num(p.first) > 0 => Limit(Peer(y)) < Num(p.first)
  PROVE  Reading(y)'
<1> DEFINE n == Len(stream[y])
<1>1. /\ n \in Nat /\ Len(stream'[y]) = n + 2
      /\ \A i \in 1..n : stream'[y][i] = stream[y][i]
      /\ stream'[y][n + 1] = Head1(p) /\ stream'[y][n + 2] = Tail1(p)
  BY SendCells, NumTypes
<1>2. \A i : IsHead(y, i)' <=> IsHead(y, i) \/ i = n + 1
  BY HeadsArrive, NumTypes
<1>3. Limit(Peer(y)) \in Int /\ Limit(Peer(y))' \in Int
  <2>1. Limit(Peer(y)) \in Int
    BY LimitType, Sides
  <2>2. Peer(y) \in Side /\ typed' \in [Side -> Nat]
    BY Sides DEF TypeOK
  <2>3. typed'[Peer(y)] \in Nat
    BY <2>2
  <2>4. QED
    BY <2>1, <2>3 DEF Limit
<1>4. ASSUME NEW t, Num(t) \in Nat, FromPeer(y, t)
      PROVE  FromPeer(y, t)' /\ After(p.first, t)
  <2>1. Num(p.first) \in Nat
    BY TextFacts DEF TypeOK, Packets
  <2>2. QED
    BY <1>3, <1>4, <2>1 DEF FromPeer, Num, After
<1>5. Whole(y)'
  <2>1. ASSUME NEW i \in 1..n, IsHead(y, i)
        PROVE  /\ stream[y][i].user = Peer(y) /\ FromPeer(y, stream[y][i].text)'
               /\ i < n /\ stream[y][i + 1].part = "tail"
               /\ stream[y][i + 1].text = stream[y][i].text
               /\ After(p.first, stream[y][i].text)
    BY <1>4, <2>1, NumTypes DEF Whole, Reading, FromPeer, Num
  <2>2. ASSUME NEW i \in 1..n+2, IsHead(y, i)'
        PROVE  /\ stream'[y][i].user = Peer(y) /\ FromPeer(y, stream[y][i].text)'
               /\ i < n + 2 /\ stream'[y][i + 1].part = "tail"
               /\ stream'[y][i + 1].text = stream'[y][i].text
    <3>1. CASE i = n + 1
      BY <1>1, <3>1 DEF Head1, Tail1
    <3>2. CASE i \in 1..n
      <4>1. IsHead(y, i) /\ i < n
        BY <1>1, <1>2, <2>1, <2>2, <3>2
      <4>2. i + 1 \in 1..n /\ i < n + 2
        BY <1>1, <3>2, <4>1
      <4>3. stream'[y][i] = stream[y][i] /\ stream'[y][i + 1] = stream[y][i + 1]
        BY <1>1, <3>2, <4>2
      <4>4. QED
        BY <2>1, <3>2, <4>1, <4>2, <4>3 DEF FromPeer, Num
    <3>3. QED
      BY <1>1, <1>2, <2>2, <3>1, <3>2 DEF IsHead
  <2>3. ASSUME NEW i \in 1..n+2, NEW j \in 1..n+2, IsHead(y, i)', IsHead(y, j)', i < j
        PROVE  After(stream[y][j].text, stream[y][i].text)'
    <3>1. i \in 1..n /\ IsHead(y, i)
      BY <1>1, <1>2, <2>3 DEF IsHead
    <3>2. CASE j = n + 1
      BY <1>1, <2>1, <3>1, <3>2 DEF After, Head1, Num
    <3>3. CASE j \in 1..n
      BY <1>1, <1>2, <2>3, <3>1, <3>3 DEF After, Whole, Reading, Num
    <3>4. QED
      BY <1>1, <1>2, <2>3, <3>2, <3>3 DEF IsHead
  <2>4. QED
    BY <1>1, <2>2, <2>3 DEF Whole
<1>6. Received(y)'
  <2>1. Pending(y)' <=> Pending(y)
    BY DEF Pending
  <2>2. Pending(y) => After(p.first, packet[y].first) /\ FromPeer(y, packet[y].first)'
    BY <1>4, NumTypes DEF Received, Reading, FromPeer, Num
  <2>3. \A i \in 1..n+2 : Pending(y) /\ IsHead(y, i)' => After(stream[y][i].text, packet[y].first)'
    <3>1. ASSUME Pending(y), NEW i \in 1..n, IsHead(y, i)
          PROVE  After(stream[y][i].text, packet[y].first)
      BY <3>1 DEF Received, Reading
    <3>2. \A i \in 1..n+2 : IsHead(y, i)' => (i \in 1..n /\ IsHead(y, i)) \/ i = n + 1
      BY <1>2 DEF IsHead
    <3>3. QED
      BY <1>1, <2>2, <3>1, <3>2 DEF After, Head1, Num
  <2>4. QED
    BY <1>1, <2>1, <2>2, <2>3 DEF Received, Reading, FromPeer, Num
<1>7. Shown(y)'
  <2>1. ASSUME NEW i \in 1..Len(shown[y])
        PROVE After(p.first, shown[y][i].first) /\ FromPeer(y, shown[y][i].first)'
    BY <1>4, NumTypes DEF Shown, Reading, FromPeer, Num
  <2>2. ASSUME NEW i \in 1..Len(shown[y]), NEW j \in 1..n+2, IsHead(y, j)'
        PROVE  After(stream[y][j].text, shown[y][i].first)'
    <3>1. IsHead(y, j) => After(stream[y][j].text, shown[y][i].first)
      BY DEF Shown, Reading, IsHead
    <3>2. (j \in 1..n /\ IsHead(y, j)) \/ j = n + 1
      BY <1>2, <2>2 DEF IsHead
    <3>3. QED
      BY <1>1, <2>1, <3>1, <3>2 DEF After, Head1, Num
  <2>3. \A i \in 1..Len(shown[y]) : Genuine(y, i)'
    BY DEF Shown, Reading, Genuine
  <2>4. QED
    BY <1>1, <2>1, <2>2, <2>3 DEF Shown, Reading, Pending, After, FromPeer, Num
<1>8. QED
  BY <1>5, <1>6, <1>7 DEF Reading

LEMMA UncutArrives ==
  ASSUME TypeOK, NEW y \in Side, Reading(y), Uncut(y), NEW p \in Packets,
         stream'[y] = stream[y] \o <<Head1(p), Tail1(p)>>,
         Over => Over', plan' = plan,
         shown'[y] = shown[y], recv'[y] = recv[y], packet'[y] = packet[y],
         typed'[Peer(y)] = typed[Peer(y)],
         Over' \/ (Held(Peer(y)) => p.type = "CHAT" /\ Num(p.first) = typed[Peer(y)])
  PROVE  Uncut(y)'
<1> DEFINE n == Len(stream[y])
<1>1. /\ n \in Nat /\ Len(stream'[y]) = n + 2
      /\ \A i \in 1..n : stream'[y][i] = stream[y][i]
      /\ stream'[y][n + 1] = Head1(p) /\ stream'[y][n + 2] = Tail1(p)
  BY SendCells, NumTypes
<1>2. \A i : IsHead(y, i)' <=> IsHead(y, i) \/ i = n + 1
  BY HeadsArrive, NumTypes
<1>3. n # 0 => IsHead(y, 1) /\ ~IsHead(y, n)
  <2>1. IsHead(y, n) => n < n
    BY DEF Whole, Reading, IsHead
  <2>2. n # 0 => stream[y] # <<>>
    OBVIOUS
  <2>3. QED
    BY <1>1, <2>1, <2>2 DEF Uncut
<1>4. IsHead(y, 1)'
  BY <1>1, <1>2, <1>3
<1>5. \A i \in 1..n+1 : ~IsHead(y, i)' => IsHead(y, i + 1)'
  BY <1>1, <1>2, <1>3 DEF Uncut
<1>6. ASSUME NEW k \in 1..typed[Peer(y)]  PROVE Somewhere(y, k)'
  <2>1. Somewhere(y, k)
    BY DEF Uncut
  <2>0. CASE Over'
    BY <2>0 DEF Somewhere
  <2>2. CASE ~Over' /\ Held(Peer(y)) /\ k = typed[Peer(y)]
    <3>1. PICK i \in 1..n+2 : IsHead(y, i)' /\ stream'[y][i] = Head1(p)
      <4>1. PICK j \in Nat : j = n + 1
        BY <1>1
      <4>2. IsHead(y, j)'
        BY <1>2, <4>1
      <4>3. j \in 1..n+2 /\ stream'[y][j] = Head1(p)
        BY <1>1, <4>1
      <4>4. QED
        BY <4>2, <4>3
    <3>2. stream'[y][i].type = "CHAT" /\ Num(stream[y][i].text)' = k
      BY <2>2, <3>1 DEF Head1, Num
    <3>3. QED
      BY <1>1, <3>1, <3>2 DEF Somewhere
  <2>3. CASE \E i \in 1..n : IsHead(y, i) /\ stream[y][i].type = "CHAT"
                             /\ Num(stream[y][i].text) = k
    <3>1. PICK i \in 1..n : IsHead(y, i) /\ stream[y][i].type = "CHAT"
                            /\ Num(stream[y][i].text) = k
      BY <2>3
    <3>2. i \in 1..n+2 /\ IsHead(y, i)' /\ stream'[y][i] = stream[y][i]
      BY <1>1, <1>2, <3>1
    <3>3. QED
      BY <1>1, <3>1, <3>2 DEF Somewhere, Num
  <2>4. CASE Over \/ (Pending(y) /\ Num(packet[y].first) = k)
             \/ \E i \in 1..Len(shown[y]) : Num(shown[y][i].first) = k
    BY <2>4 DEF Somewhere, Pending, Num
  <2>5. CASE k \in Short(Peer(y))
    BY <2>5 DEF Somewhere, Short
  <2>6. QED
    BY <2>0, <2>1, <2>2, <2>3, <2>4, <2>5 DEF Somewhere
<1>7. QED
  BY <1>1, <1>4, <1>5, <1>6 DEF Uncut

LEMMA Behind ==
  ASSUME NEW n \in Nat, NEW k \in Nat, NEW i \in 1..n-k
  PROVE  /\ i \in Nat /\ i + k \in 1..n /\ (i + 1) + k = (i + k) + 1
         /\ i + k < n => i + 1 \in 1..n-k /\ i < n - k
         /\ \A j \in 1..n-k : i < j => i + k < j + k
OBVIOUS

\* hReceive takes the first k cells.
LEMMA Shift ==
  ASSUME TypeOK, NEW x \in Side, NEW k \in {1, 2}, Whole(x), Shown(x),
         k <= Len(stream[x]), Len(stream'[x]) = Len(stream[x]) - k,
         \A i \in 1..(Len(stream[x]) - k) : stream'[x][i] = stream[x][i + k],
         Limit(Peer(x))' = Limit(Peer(x)), shown'[x] = shown[x]
  PROVE  /\ \A i : IsHead(x, i)' => IsHead(x, i + k) /\ stream'[x][i] = stream[x][i + k]
         /\ Whole(x)'
         /\ \A i \in 1..Len(shown[x]) : \A j :
              IsHead(x, j)' => After(stream[x][j].text, shown[x][i].first)'
         /\ ~Pending(x)' => Shown(x)'
<1> DEFINE n == Len(stream[x])
<1>0. n \in Nat /\ k \in Nat
  BY NumTypes
<1>1. ASSUME NEW i, IsHead(x, i)'
      PROVE  /\ i \in 1..n-k /\ IsHead(x, i + k) /\ stream'[x][i] = stream[x][i + k]
  BY <1>0, <1>1 DEF IsHead
<1>2. ASSUME NEW i, IsHead(x, i)'
      PROVE  /\ stream'[x][i].user = Peer(x) /\ FromPeer(x, stream[x][i].text)'
             /\ i < n - k /\ stream'[x][i + 1].part = "tail"
             /\ stream'[x][i + 1].text = stream'[x][i].text
  <2>1. i \in 1..n-k /\ i + k \in 1..n /\ IsHead(x, i + k) /\ stream'[x][i] = stream[x][i + k]
    BY <1>0, <1>1, <1>2, Behind
  <2>2. /\ stream[x][i + k].user = Peer(x) /\ FromPeer(x, stream[x][i + k].text)
        /\ i + k < n /\ stream[x][(i + k) + 1].part = "tail"
        /\ stream[x][(i + k) + 1].text = stream[x][i + k].text
    BY <2>1 DEF Whole
  <2>3. i + 1 \in 1..n-k /\ (i + 1) + k = (i + k) + 1
    BY <1>0, <2>1, <2>2, Behind
  <2>4. stream'[x][i + 1] = stream[x][(i + k) + 1]
    BY <2>3
  <2>5. i < n - k
    BY <1>0, <2>1, <2>2, Behind
  <2>6. QED
    BY <2>1, <2>2, <2>4, <2>5 DEF FromPeer, Num
<1>3. ASSUME NEW i, NEW j, IsHead(x, i)', IsHead(x, j)', i < j
      PROVE  After(stream[x][j].text, stream[x][i].text)'
  <2>1. /\ i \in 1..n-k /\ IsHead(x, i + k) /\ stream'[x][i] = stream[x][i + k]
        /\ j \in 1..n-k /\ IsHead(x, j + k) /\ stream'[x][j] = stream[x][j + k]
    BY <1>1, <1>3
  <2>2. i + k \in 1..n /\ j + k \in 1..n /\ i + k < j + k
    BY <1>0, <1>3, <2>1, Behind
  <2>3. After(stream[x][j + k].text, stream[x][i + k].text)
    BY <2>1, <2>2 DEF Whole
  <2>4. QED
    BY <2>1, <2>3 DEF After, Num
<1>4. Whole(x)'
  BY <1>0, <1>2, <1>3 DEF Whole
<1>5. ASSUME NEW i \in 1..Len(shown[x]), NEW j, IsHead(x, j)'
      PROVE  After(stream[x][j].text, shown[x][i].first)'
  <2>1. IsHead(x, j + k) /\ stream'[x][j] = stream[x][j + k]
    BY <1>1, <1>5
  <2>2. After(stream[x][j + k].text, shown[x][i].first)
    BY <2>1 DEF Shown, IsHead
  <2>3. QED
    BY <2>1, <2>2 DEF After, Num
<1>6. ASSUME ~Pending(x)'  PROVE Shown(x)'
  BY <1>5, <1>6 DEF Shown, Genuine, FromPeer, Num
<1>7. QED
  BY <1>1, <1>4, <1>5, <1>6

-----------------------------------------------------------------------------
(* The invariant, step by step: the main thread, RecvThread *)

\* A side that a step leaves alone, while its peer's line goes on.
LEMMA Bystander ==
  ASSUME TypeOK, TypeOK', NEW y \in Side, Core(y),
         main'[y] = main[y], recv'[y] = recv[y], packet'[y] = packet[y], kind'[y] = kind[y],
         line'[y] = line[y], typed'[y] = typed[y], stream'[y] = stream[y], shown'[y] = shown[y],
         Limit(Peer(y)) <= Limit(Peer(y))'
  PROVE  Core(y)'
<1>1. Filling(y)'
  BY FillingKept, CoreParts
<1>2. /\ Pending(y)' => Pending(y)
      /\ recv'[y] = "print" => packet'[y].type = "CHAT"
  BY DEF Pending, Core, Reading, Received
<1>3. Reading(y)'
  BY <1>2, ReadingKept, CoreParts
<1>4. Filling(y)' /\ Reading(y)' => Core(y)'
  BY DEF Core, Reading
<1>5. QED
  BY <1>1, <1>3, <1>4

\* A step of x that changes only where its threads are, and drops what they hold.
LEMMA Steady ==
  ASSUME TypeOK, TypeOK', Good, NEW x \in Side,
         \A y \in Side : y # x => main'[y] = main[y] /\ recv'[y] = recv[y] /\ line'[y] = line[y],
         UNCHANGED <<plan, packet, kind, typed, stream, shown, clash, cut>>,
         ~clash => Filling(x)', main[x] # "end",
         Limit(x)' = Limit(x), Held(x)' <=> Held(x), Pending(x)' <=> Pending(x),
         ~clash /\ recv'[x] = "print" => packet[x].type = "CHAT"
  PROVE  Good'
<1> SUFFICES ASSUME ~clash'
             PROVE  \A y \in Side : Core(y)' /\ (~cut' => Uncut(y)')
  BY DEF Good
<1> DEFINE y == Peer(x)
<1>1. y \in Side /\ y # x /\ Peer(y) = x
  BY Sides
<1>2. Core(x) /\ Core(y) /\ (~cut' => Uncut(x) /\ Uncut(y))
  BY <1>1 DEF Good
<1>3. /\ Limit(y)' = Limit(y) /\ (Held(y)' <=> Held(y)) /\ (Pending(y)' <=> Pending(y))
      /\ Limit(x) <= Limit(x)' /\ Limit(y) <= Limit(y)'
  BY <1>1, LimitKept, LimitType DEF Pending
<1>4. Core(x)'
  BY <1>1, <1>2, <1>3, CoreParts, ReadingKept, CoreNext
<1>5. Core(y)'
  BY <1>1, <1>2, <1>3, Bystander
<1>6. Over => Over'
  BY <1>1, Sides DEF Over
<1>7. ASSUME ~cut'  PROVE Uncut(x)' /\ Uncut(y)'
  BY <1>1, <1>2, <1>3, <1>6, <1>7, UncutKept
<1>8. QED
  BY <1>1, <1>4, <1>5, <1>7, Sides

LEMMA StartGood ==
  ASSUME TypeOK, TypeOK', Good, NEW x \in Side, Start(x),
         UNCHANGED <<plan, packet, kind, line, typed, stream, shown, clash, cut>>
  PROVE  Good'
<1>1. /\ main[x] = "start" /\ main'[x] = "input" /\ recv[x] = "off" /\ recv'[x] = "recv"
      /\ \A y \in Side : y # x => main'[y] = main[y] /\ recv'[y] = recv[y]
  BY DEF Start, TypeOK
<1>2. /\ Limit(x)' = Limit(x) /\ (Held(x)' <=> Held(x)) /\ (Pending(x)' <=> Pending(x))
  BY <1>1 DEF Limit, Held, Pending, InHand
<1>3. ~clash => Filling(x)'
  BY <1>1 DEF Good, Core, Reading, Filling, Control
<1>4. QED
  BY <1>1, <1>2, <1>3, Steady

LEMMA ConnectGood ==
  ASSUME TypeOK, Good, Connect
  PROVE  Good'
BY ConnectType, Sides, StartGood DEF Connect

LEMMA AcceptGood ==
  ASSUME TypeOK, Good, Accept
  PROVE  Good'
BY AcceptType, Sides, StartGood DEF Accept

\* A step with which program x is over; the server may send its last packet.
LEMMA Ends ==
  ASSUME TypeOK, TypeOK', Good, NEW x \in Side, main'[x] = "end", recv'[x] = "off",
         stream'[x] = <<>>, line'[x] \in {Control(x), line[x]},
         UNCHANGED <<plan, packet, kind, typed, shown, clash, cut>>,
         \A y \in Side : y # x => main'[y] = main[y] /\ recv'[y] = recv[y] /\ line'[y] = line[y],
         \A y \in Side : y # x => \/ stream'[y] = stream[y]
                                  \/ stream'[y] = stream[y] \o <<Head1(Cya(x)), Tail1(Cya(x))>>
  PROVE  Good'
<1> SUFFICES ASSUME ~clash'
             PROVE  \A y \in Side : Core(y)' /\ (~cut' => Uncut(y)')
  BY DEF Good
<1> DEFINE y == Peer(x)
<1>1. y \in Side /\ y # x /\ Peer(y) = x /\ Over'
  BY Sides DEF Over
<1>2. Core(x) /\ Core(y) /\ (~cut' => Uncut(x) /\ Uncut(y))
  BY <1>1 DEF Good
<1>3. Limit(x) <= Limit(x)' /\ Limit(y) <= Limit(y)'
  <2>1. ~Held(x)'
    BY DEF Held, InHand
  <2>2. Limit(x)' = typed[x]
    BY <2>1 DEF Limit
  <2>3. QED
    BY <1>1, <2>2, LimitType, LimitKept
<1>4. Filling(x)'
  BY <1>2 DEF Core, Reading, Filling, Control, Num
<1>5. Core(x)'
  <2>1. ~Pending(x)' /\ recv'[x] # "print"
    BY DEF Pending
  <2>2. QED
    BY <1>1, <1>2, <1>3, <1>4, <2>1, CoreParts, ReadingKept, CoreNext
<1>6. CASE stream'[y] = stream[y]
  <2>1. Core(y)'
    BY <1>1, <1>2, <1>3, <1>6, Bystander
  <2>2. QED
    BY <1>1, <1>2, <1>5, <1>6, <2>1, Sides, UncutEnded
<1>7. CASE stream'[y] = stream[y] \o <<Head1(Cya(x)), Tail1(Cya(x))>>
  <2>1. /\ Cya(x) \in Packets /\ Cya(x).user = x /\ Cya(x).first = Cya(x).rest
        /\ Cya(x).first = <<x, 0>>
    BY LastWords DEF TypeOK, Cya, Control
  <2>2. FromPeer(y, Cya(x).first)' /\ ~(Num(Cya(x).first) > 0)
    <3>1. Limit(x)' \in Int /\ 0 <= Limit(x)'
      BY LimitType DEF Limit, Held, InHand
    <3>2. QED
      BY <1>1, <2>1, <3>1 DEF FromPeer, Num
  <2>3. Reading(y)'
    BY <1>1, <1>2, <1>3, <1>7, <2>1, <2>2, CoreParts, ReadingArrives
  <2>4. Filling(y)'
    BY <1>1, <1>2, CoreParts, FillingKept
  <2>5. ~cut' => Uncut(y)'
    BY <1>1, <1>2, <1>7, <2>1, CoreParts, UncutArrives
  <2>6. ~cut' => Uncut(x)'
    BY <1>1, UncutEnded
  <2>7. QED
    BY <1>1, <1>5, <2>3, <2>4, <2>5, <2>6, CoreNext, Sides
<1>8. QED
  BY <1>1, <1>6, <1>7

LEMMA TypeGood ==
  ASSUME TypeOK, Good, NEW x \in Side, Type(x)
  PROVE  Good'
<1> SUFFICES ASSUME ~clash'
             PROVE  \A y \in Side : Core(y)' /\ (~cut' => Uncut(y)')
  BY DEF Good
<1> DEFINE y == Peer(x)
<1>1. TypeOK' /\ y \in Side /\ y # x /\ Peer(y) = x
  BY TypeType, Sides
<1>2. Core(x) /\ Core(y) /\ (~cut' => Uncut(x) /\ Uncut(y))
  BY <1>1 DEF Good, Type
<1>3. /\ main[x] = "input" /\ main'[x] = "msg"
      /\ stream' = stream /\ shown' = shown /\ recv' = recv /\ plan' = plan
  BY DEF TypeOK, Type, Step
<1>4. /\ main'[y] = main[y] /\ recv'[y] = recv[y] /\ packet'[y] = packet[y]
      /\ kind'[y] = kind[y] /\ line'[y] = line[y] /\ typed'[y] = typed[y]
  BY <1>1 DEF TypeOK, Type, Step
<1>5. /\ Limit(x)' = Limit(x) /\ ~Held(x)
      /\ line'[x] = <<x, typed'[x]>> /\ kind'[x] = "CHAT" /\ typed'[x] = typed[x] + 1
      /\ typed[x] \in Nat /\ Held(x)' /\ packet' = packet
  <2>1. /\ line'[x] = <<x, typed'[x]>> /\ kind'[x] = "CHAT" /\ typed'[x] = typed[x] + 1
        /\ typed[x] \in Nat /\ packet' = packet
    BY DEF TypeOK, Type
  <2>2. ~Held(x) /\ Limit(x) = typed[x]
    BY <1>3 DEF Held, Limit, InHand
  <2>3. Num(line[x])' > 0
    BY <2>1 DEF Num
  <2>4. Held(x)'
    BY <1>3, <2>3 DEF Held, InHand
  <2>5. Limit(x)' = typed[x]
    BY <2>1, <2>4 DEF Limit
  <2>6. QED
    BY <2>1, <2>2, <2>4, <2>5
<1>6. /\ Pending(x)' <=> Pending(x)
      /\ Pending(x) => packet'[x] = packet[x]
      /\ recv'[x] = "print" => packet'[x].type = "CHAT"
  BY <1>2, <1>3, <1>5 DEF Pending, Core, Reading, Received
<1>7. Filling(x)'
  BY <1>2, <1>3, <1>5 DEF TypeOK, Core, Reading, Filling, Type, Control, Num
<1>8. Core(x)' /\ Core(y)'
  <2>1. Limit(y) <= Limit(y)' /\ Limit(x) <= Limit(x)'
    BY <1>1, <1>4, <1>5, LimitType, LimitKept
  <2>2. Reading(x)'
    BY <1>1, <1>2, <1>3, <1>6, <2>1, CoreParts, ReadingKept
  <2>3. Core(y)'
    BY <1>1, <1>2, <1>3, <1>4, <2>1, Bystander
  <2>4. QED
    BY <1>7, <2>2, <2>3, CoreNext
<1>9. ASSUME ~cut'  PROVE Uncut(x)' /\ Uncut(y)'
  <2>1. /\ Held(y)' <=> Held(y)
        /\ Pending(y)' <=> Pending(y)
        /\ Over' <=> Over
    BY <1>1, <1>3, <1>4, Sides, LimitKept DEF Pending, Over
  <2>2. Uncut(x)'
    <3>2. \A n \in 1..typed'[y] : n \in 1..typed[y]
      BY <1>4
    <3>3. Held(y) => Held(y)' /\ typed'[y] = typed[y]
      BY <1>4, <2>1
    <3>4. QED
      BY <1>2, <1>3, <1>6, <1>9, <2>1, <3>2, <3>3, UncutKept
  <2>3. Uncut(y)'
    <3>1. \A n \in 1..typed'[x] : n \in 1..typed[x] \/ (Held(x)' /\ n = typed'[x])
      BY <1>5
    <3>2. Held(x) => Held(x)' /\ typed'[x] = typed[x]
      BY <1>5
    <3>3. QED
      BY <1>1, <1>2, <1>3, <1>4, <1>9, <2>1, <3>1, <3>2, UncutKept
  <2>4. QED
    BY <2>2, <2>3
<1>10. QED
  BY <1>1, <1>8, <1>9, Sides

LEMMA TypeShortGood ==
  ASSUME TypeOK, Good, NEW x \in Side, TypeShort(x)
  PROVE  Good'
<1> SUFFICES ASSUME ~clash'
             PROVE  \A y \in Side : Core(y)' /\ (~cut' => Uncut(y)')
  BY DEF Good
<1> DEFINE y == Peer(x)
<1>1. TypeOK' /\ y \in Side /\ y # x /\ Peer(y) = x
  BY TypeShortType, Sides
<1>2. Core(x) /\ Core(y) /\ (~cut' => Uncut(x) /\ Uncut(y))
  BY <1>1 DEF Good, TypeShort
<1>3. /\ UNCHANGED <<plan, main, recv, packet, kind, line, stream, shown>>
      /\ typed[x] \in Nat /\ typed'[x] = typed[x] + 1 /\ typed'[x] \in Short(x)
      /\ typed'[y] = typed[y] /\ main[x] = "input"
  BY <1>1 DEF TypeOK, TypeShort
<1>4. ~Held(x) /\ ~Held(x)' /\ Limit(x) = typed[x] /\ Limit(x)' = typed[x] + 1
  BY <1>3 DEF Held, Limit, InHand
<1>5. Limit(y)' = Limit(y) /\ (Held(y)' <=> Held(y))
  BY <1>3, LimitKept
<1>6. Filling(x)' /\ (recv'[x] = "print" => packet'[x].type = "CHAT")
  BY <1>2, <1>3 DEF Core, Reading, Filling, Received, Control
<1>7. Core(x)' /\ Core(y)'
  <2>1. Limit(y) <= Limit(y)' /\ Limit(x) <= Limit(x)'
    BY <1>1, <1>3, <1>4, <1>5, LimitType
  <2>2. Reading(x)'
    BY <1>1, <1>2, <1>3, <1>6, <2>1, CoreParts, ReadingKept DEF Pending
  <2>3. Core(y)'
    BY <1>1, <1>2, <1>3, <2>1, Bystander
  <2>4. QED
    BY <1>6, <2>2, <2>3, CoreNext
<1>8. ASSUME ~cut'  PROVE Uncut(x)' /\ Uncut(y)'
  <2>1. (Over' <=> Over) /\ \A z : Pending(z)' <=> Pending(z)
    BY <1>3 DEF Over, Pending
  <2>2. Uncut(x)'
    BY <1>2, <1>3, <1>5, <1>8, <2>1, UncutKept
  <2>3. \A n \in 1..typed'[x] : n \in 1..typed[x] \union Short(x)
    BY <1>3
  <2>4. Uncut(y)'
    BY <1>1, <1>2, <1>3, <1>4, <1>8, <2>1, <2>3, UncutKept
  <2>5. QED
    BY <2>2, <2>4
<1>9. QED
  BY <1>1, <1>7, <1>8, Sides

LEMMA TypeQuitGood ==
  ASSUME TypeOK, Good, NEW x \in Side, TypeQuit(x)
  PROVE  Good'
<1> SUFFICES ASSUME ~clash'
             PROVE  \A y \in Side : Core(y)' /\ (~cut' => Uncut(y)')
  BY DEF Good
<1> DEFINE y == Peer(x)
<1>1. TypeOK' /\ y \in Side /\ y # x /\ Peer(y) = x
  BY TypeQuitType, Sides
<1>2. Core(x) /\ Core(y) /\ (~cut' => Uncut(x) /\ Uncut(y))
  BY <1>1 DEF Good, TypeQuit
<1>3. /\ main[x] = "input" /\ main'[x] = "msg"
      /\ stream' = stream /\ shown' = shown /\ recv' = recv /\ plan' = plan
  BY DEF TypeOK, TypeQuit, Step
<1>4. /\ main'[y] = main[y] /\ recv'[y] = recv[y] /\ packet'[y] = packet[y]
      /\ kind'[y] = kind[y] /\ line'[y] = line[y] /\ typed'[y] = typed[y]
  BY <1>1 DEF TypeOK, TypeQuit, Step
<1>5. /\ Limit(x)' = Limit(x) /\ ~Held(x) /\ line'[x] = Control(x) /\ typed' = typed
      /\ packet' = packet
  BY <1>3 DEF TypeOK, TypeQuit, Limit, Held, Num, InHand, Control
<1>6. /\ Pending(x)' <=> Pending(x)
      /\ Pending(x) => packet'[x] = packet[x]
      /\ recv'[x] = "print" => packet'[x].type = "CHAT"
  BY <1>2, <1>3, <1>5 DEF Pending, Core, Reading, Received
<1>7. Filling(x)'
  BY <1>2, <1>3, <1>5 DEF TypeOK, Core, Reading, Filling, TypeQuit, Control, Num
<1>8. Core(x)' /\ Core(y)'
  <2>1. Limit(y) <= Limit(y)' /\ Limit(x) <= Limit(x)'
    BY <1>1, <1>4, <1>5, LimitType, LimitKept
  <2>2. Reading(x)'
    BY <1>1, <1>2, <1>3, <1>6, <2>1, CoreParts, ReadingKept
  <2>3. Core(y)'
    BY <1>1, <1>2, <1>3, <1>4, <2>1, Bystander
  <2>4. QED
    BY <1>7, <2>2, <2>3, CoreNext
<1>9. ASSUME ~cut'  PROVE Uncut(x)' /\ Uncut(y)'
  <2>1. /\ Held(y)' <=> Held(y)
        /\ Pending(y)' <=> Pending(y)
        /\ Over' <=> Over
    BY <1>1, <1>3, <1>4, Sides, LimitKept DEF Pending, Over
  <2>2. Uncut(x)'
    <3>2. \A n \in 1..typed'[y] : n \in 1..typed[y]
      BY <1>4
    <3>3. Held(y) => Held(y)' /\ typed'[y] = typed[y]
      BY <1>4, <2>1
    <3>4. QED
      BY <1>2, <1>3, <1>6, <1>9, <2>1, <3>2, <3>3, UncutKept
  <2>3. Uncut(y)'
    <3>1. \A n \in 1..typed'[x] : n \in 1..typed[x] \/ (Held(x)' /\ n = typed'[x])
      BY <1>5
    <3>2. Held(x) => Held(x)' /\ typed'[x] = typed[x]
      BY <1>5
    <3>3. QED
      BY <1>1, <1>2, <1>3, <1>4, <1>9, <2>1, <3>1, <3>2, UncutKept
  <2>4. QED
    BY <2>2, <2>3
<1>10. QED
  BY <1>1, <1>8, <1>9, Sides

LEMMA SetMsgGood ==
  ASSUME TypeOK, Good, NEW x \in Side, SetMsg(x)
  PROVE  Good'
<1> SUFFICES ASSUME ~clash'
             PROVE  \A y \in Side : Core(y)' /\ (~cut' => Uncut(y)')
  BY DEF Good
<1> DEFINE y == Peer(x)
<1>1. TypeOK' /\ y \in Side /\ y # x /\ Peer(y) = x
  BY SetMsgType, Sides
<1>2. Core(x) /\ Core(y) /\ (~cut' => Uncut(x) /\ Uncut(y))
  BY <1>1 DEF Good, SetMsg
<1>3. /\ main[x] = "msg" /\ main'[x] = "type"
      /\ stream' = stream /\ shown' = shown /\ recv' = recv /\ plan' = plan
  BY DEF TypeOK, SetMsg, Step
<1>4. /\ main'[y] = main[y] /\ recv'[y] = recv[y] /\ packet'[y] = packet[y]
      /\ kind'[y] = kind[y] /\ line'[y] = line[y] /\ typed'[y] = typed[y]
  BY <1>1 DEF TypeOK, SetMsg, Step
<1>5. /\ line' = line /\ kind' = kind /\ typed' = typed
      /\ Limit(x)' = Limit(x) /\ (Held(x)' <=> Held(x))
  BY <1>3 DEF SetMsg, Step, Limit, Held, Num, InHand
<1>6. /\ Pending(x)' <=> Pending(x)
      /\ Pending(x) => packet'[x] = packet[x]
      /\ recv'[x] = "print" => packet'[x].type = "CHAT"
  BY <1>3 DEF SetMsg, Pending
<1>7. Filling(x)'
  <2>1. packet'[x].first = line[x] /\ packet'[x].rest = line[x]
    BY DEF TypeOK, Packets, SetMsg
  <2>2. recv[x] \notin {"look", "print"}
    BY DEF SetMsg
  <2>3. QED
    BY <1>2, <1>3, <1>5, <2>1, <2>2 DEF Core, Reading, Filling, Control, Num
<1>8. Core(x)' /\ Core(y)'
  <2>1. Limit(y) <= Limit(y)' /\ Limit(x) <= Limit(x)'
    BY <1>1, <1>4, <1>5, LimitType, LimitKept
  <2>2. Reading(x)'
    BY <1>1, <1>2, <1>3, <1>6, <2>1, CoreParts, ReadingKept
  <2>3. Core(y)'
    BY <1>1, <1>2, <1>3, <1>4, <2>1, Bystander
  <2>4. QED
    BY <1>7, <2>2, <2>3, CoreNext
<1>9. ASSUME ~cut'  PROVE Uncut(x)' /\ Uncut(y)'
  <2>1. /\ Held(y)' <=> Held(y)
        /\ Pending(y)' <=> Pending(y)
        /\ Over' <=> Over
    BY <1>1, <1>3, <1>4, Sides, LimitKept DEF Pending, Over
  <2>2. Uncut(x)'
    <3>2. \A n \in 1..typed'[y] : n \in 1..typed[y]
      BY <1>4
    <3>3. Held(y) => Held(y)' /\ typed'[y] = typed[y]
      BY <1>4, <2>1
    <3>4. QED
      BY <1>2, <1>3, <1>6, <1>9, <2>1, <3>2, <3>3, UncutKept
  <2>3. Uncut(y)'
    <3>1. \A n \in 1..typed'[x] : n \in 1..typed[x] \/ (Held(x)' /\ n = typed'[x])
      BY <1>5
    <3>2. Held(x) => Held(x)' /\ typed'[x] = typed[x]
      BY <1>5
    <3>3. QED
      BY <1>1, <1>2, <1>3, <1>4, <1>9, <2>1, <3>1, <3>2, UncutKept
  <2>4. QED
    BY <2>2, <2>3
<1>10. QED
  BY <1>1, <1>8, <1>9, Sides

LEMMA SetTypeGood ==
  ASSUME TypeOK, Good, NEW x \in Side, SetType(x)
  PROVE  Good'
<1> SUFFICES ASSUME ~clash'
             PROVE  \A y \in Side : Core(y)' /\ (~cut' => Uncut(y)')
  BY DEF Good
<1> DEFINE y == Peer(x)
<1>1. TypeOK' /\ y \in Side /\ y # x /\ Peer(y) = x
  BY SetTypeType, Sides
<1>2. Core(x) /\ Core(y) /\ (~cut' => Uncut(x) /\ Uncut(y))
  BY <1>1 DEF Good, SetType
<1>3. /\ main[x] = "type" /\ main'[x] = "name"
      /\ stream' = stream /\ shown' = shown /\ recv' = recv /\ plan' = plan
  BY DEF TypeOK, SetType, Step
<1>4. /\ main'[y] = main[y] /\ recv'[y] = recv[y] /\ packet'[y] = packet[y]
      /\ kind'[y] = kind[y] /\ line'[y] = line[y] /\ typed'[y] = typed[y]
  BY <1>1 DEF TypeOK, SetType, Step
<1>5. /\ line' = line /\ kind' = kind /\ typed' = typed
      /\ Limit(x)' = Limit(x) /\ (Held(x)' <=> Held(x))
  BY <1>3 DEF SetType, Step, Limit, Held, Num, InHand
<1>6. /\ Pending(x)' <=> Pending(x)
      /\ Pending(x) => packet'[x] = packet[x]
      /\ recv'[x] = "print" => packet'[x].type = "CHAT"
  BY <1>2, <1>3 DEF Core, Reading, Filling, Received, Pending
<1>7. Filling(x)'
  BY <1>2, <1>3, <1>5 DEF TypeOK, Core, Reading, Filling, SetType, Control, Num
<1>8. Core(x)' /\ Core(y)'
  <2>1. Limit(y) <= Limit(y)' /\ Limit(x) <= Limit(x)'
    BY <1>1, <1>4, <1>5, LimitType, LimitKept
  <2>2. Reading(x)'
    BY <1>1, <1>2, <1>3, <1>6, <2>1, CoreParts, ReadingKept
  <2>3. Core(y)'
    BY <1>1, <1>2, <1>3, <1>4, <2>1, Bystander
  <2>4. QED
    BY <1>7, <2>2, <2>3, CoreNext
<1>9. ASSUME ~cut'  PROVE Uncut(x)' /\ Uncut(y)'
  <2>1. /\ Held(y)' <=> Held(y)
        /\ Pending(y)' <=> Pending(y)
        /\ Over' <=> Over
    BY <1>1, <1>3, <1>4, Sides, LimitKept DEF Pending, Over
  <2>2. Uncut(x)'
    <3>2. \A n \in 1..typed'[y] : n \in 1..typed[y]
      BY <1>4
    <3>3. Held(y) => Held(y)' /\ typed'[y] = typed[y]
      BY <1>4, <2>1
    <3>4. QED
      BY <1>2, <1>3, <1>6, <1>9, <2>1, <3>2, <3>3, UncutKept
  <2>3. Uncut(y)'
    <3>1. \A n \in 1..typed'[x] : n \in 1..typed[x] \/ (Held(x)' /\ n = typed'[x])
      BY <1>5
    <3>2. Held(x) => Held(x)' /\ typed'[x] = typed[x]
      BY <1>5
    <3>3. QED
      BY <1>1, <1>2, <1>3, <1>4, <1>9, <2>1, <3>1, <3>2, UncutKept
  <2>4. QED
    BY <2>2, <2>3
<1>10. QED
  BY <1>1, <1>8, <1>9, Sides

LEMMA SetNameGood ==
  ASSUME TypeOK, Good, NEW x \in Side, SetName(x)
  PROVE  Good'
<1> SUFFICES ASSUME ~clash'
             PROVE  \A y \in Side : Core(y)' /\ (~cut' => Uncut(y)')
  BY DEF Good
<1> DEFINE y == Peer(x)
<1>1. TypeOK' /\ y \in Side /\ y # x /\ Peer(y) = x
  BY SetNameType, Sides
<1>2. Core(x) /\ Core(y) /\ (~cut' => Uncut(x) /\ Uncut(y))
  BY <1>1 DEF Good, SetName
<1>3. /\ main[x] = "name" /\ main'[x] = "send"
      /\ stream' = stream /\ shown' = shown /\ recv' = recv /\ plan' = plan
  BY DEF TypeOK, SetName, Step
<1>4. /\ main'[y] = main[y] /\ recv'[y] = recv[y] /\ packet'[y] = packet[y]
      /\ kind'[y] = kind[y] /\ line'[y] = line[y] /\ typed'[y] = typed[y]
  BY <1>1 DEF TypeOK, SetName, Step
<1>5. /\ line' = line /\ kind' = kind /\ typed' = typed
      /\ Limit(x)' = Limit(x) /\ (Held(x)' <=> Held(x))
  BY <1>3 DEF SetName, Step, Limit, Held, Num, InHand
<1>6. /\ Pending(x)' <=> Pending(x)
      /\ Pending(x) => packet'[x] = packet[x]
      /\ recv'[x] = "print" => packet'[x].type = "CHAT"
  BY <1>2, <1>3 DEF Core, Reading, Filling, Received, Pending
<1>7. Filling(x)'
  BY <1>2, <1>3, <1>5 DEF TypeOK, Core, Reading, Filling, SetName, Control, Num
<1>8. Core(x)' /\ Core(y)'
  <2>1. Limit(y) <= Limit(y)' /\ Limit(x) <= Limit(x)'
    BY <1>1, <1>4, <1>5, LimitType, LimitKept
  <2>2. Reading(x)'
    BY <1>1, <1>2, <1>3, <1>6, <2>1, CoreParts, ReadingKept
  <2>3. Core(y)'
    BY <1>1, <1>2, <1>3, <1>4, <2>1, Bystander
  <2>4. QED
    BY <1>7, <2>2, <2>3, CoreNext
<1>9. ASSUME ~cut'  PROVE Uncut(x)' /\ Uncut(y)'
  <2>1. /\ Held(y)' <=> Held(y)
        /\ Pending(y)' <=> Pending(y)
        /\ Over' <=> Over
    BY <1>1, <1>3, <1>4, Sides, LimitKept DEF Pending, Over
  <2>2. Uncut(x)'
    <3>2. \A n \in 1..typed'[y] : n \in 1..typed[y]
      BY <1>4
    <3>3. Held(y) => Held(y)' /\ typed'[y] = typed[y]
      BY <1>4, <2>1
    <3>4. QED
      BY <1>2, <1>3, <1>6, <1>9, <2>1, <3>2, <3>3, UncutKept
  <2>3. Uncut(y)'
    <3>1. \A n \in 1..typed'[x] : n \in 1..typed[x] \/ (Held(x)' /\ n = typed'[x])
      BY <1>5
    <3>2. Held(x) => Held(x)' /\ typed'[x] = typed[x]
      BY <1>5
    <3>3. QED
      BY <1>1, <1>2, <1>3, <1>4, <1>9, <2>1, <3>1, <3>2, UncutKept
  <2>4. QED
    BY <2>2, <2>3
<1>10. QED
  BY <1>1, <1>8, <1>9, Sides

LEMMA SendGood ==
  ASSUME TypeOK, Good, NEW x \in Side, Send(x)
  PROVE  Good'
<1> SUFFICES ASSUME ~clash'
             PROVE  \A y \in Side : Core(y)' /\ (~cut' => Uncut(y)')
  BY DEF Good
<1> DEFINE y == Peer(x)
           p == packet[x]
<1>1. TypeOK' /\ y \in Side /\ y # x /\ Peer(y) = x
  BY SendType, Sides
<1>2. Core(x) /\ Core(y) /\ (~cut' => Uncut(x) /\ Uncut(y))
  BY <1>1 DEF Good, Send
<1>3. /\ main[x] = "send" /\ main'[x] = "echo" /\ main'[y] = main[y]
      /\ UNCHANGED <<plan, recv, packet, kind, line, typed, shown>> /\ stream'[x] = stream[x]
      /\ \/ main[y] = "end" /\ stream'[y] = stream[y]
         \/ main[y] # "end" /\ stream'[y] = stream[y] \o <<Head1(p), Tail1(p)>>
  BY <1>1 DEF TypeOK, Send, Step
<1>4. /\ Limit(y)' = Limit(y) /\ (Held(y)' <=> Held(y)) /\ (Over' <=> Over)
      /\ (Pending(x)' <=> Pending(x)) /\ (Pending(y)' <=> Pending(y))
  BY <1>1, <1>3, Sides, LimitKept DEF Pending, Over
<1>5. /\ p \in Packets /\ p.user = x /\ p.first = p.rest /\ p.first = line[x]
      /\ line[x] \in {Control(x), <<x, typed[x]>>}
      /\ Num(line[x]) > 0 => p.type = "CHAT"
  BY <1>2, <1>3 DEF TypeOK, Core, Reading, Filling
<1>6. /\ Num(line[x]) > 0 => Num(line[x]) = typed[x] /\ Limit(x) = typed[x] - 1
      /\ Held(x) <=> Num(line[x]) > 0
      /\ ~Held(x) => Limit(x) = typed[x]
      /\ Limit(x)' = typed[x] /\ ~Held(x)' /\ typed[x] \in Nat
  BY <1>3, <1>5, LimitType DEF Held, Limit, InHand, Control, Num
<1>7. Filling(x)' /\ Filling(y)'
  <2>1. Filling(x)'
    BY <1>2, <1>3 DEF Core, Reading, Filling, Control, Num
  <2>2. Filling(y)'
    BY <1>1, <1>2, <1>3, CoreParts, FillingKept
  <2>3. QED
    BY <2>1, <2>2
<1>8. Reading(x)'
  <2>1. Limit(y) <= Limit(y)'
    BY <1>1, <1>4, LimitType
  <2>2. recv'[x] = "print" => packet'[x].type = "CHAT"
    BY <1>2, <1>3 DEF Core, Reading, Received
  <2>3. QED
    BY <1>1, <1>2, <1>3, <1>4, <2>1, <2>2, CoreParts, ReadingKept
<1>9. ~cut' => Uncut(x)'
  BY <1>1, <1>2, <1>3, <1>4, UncutKept
<1>10. Limit(x) <= Limit(x)'
  BY <1>6, LimitType
<1>11. CASE main[y] = "end" /\ stream'[y] = stream[y]
  <2>1. recv'[y] = "print" => packet'[y].type = "CHAT"
    BY <1>2, <1>3 DEF Core, Reading, Received
  <2>2. Reading(y)'
    BY <1>1, <1>2, <1>3, <1>4, <1>10, <1>11, <2>1, CoreParts, ReadingKept
  <2>3. ~cut' => Uncut(y)'
    BY <1>1, <1>2, <1>4, <1>11, UncutEnded DEF Over
  <2>4. QED
    BY <1>7, <1>8, <1>9, <2>2, <2>3, CoreNext, Sides
<1>12. CASE stream'[y] = stream[y] \o <<Head1(p), Tail1(p)>>
  <2>1. FromPeer(y, p.first)'
    <3>1. line[x][1] = x /\ Num(line[x]) <= typed[x]
      BY <1>5, <1>6 DEF Control, Num
    <3>2. packet'[x].first = line[x]
      BY <1>3, <1>5
    <3>3. QED
      BY <1>1, <1>6, <3>1, <3>2 DEF FromPeer, Num
  <2>2. Num(p.first) > 0 => Limit(x) < Num(p.first)
    BY <1>5, <1>6
  <2>3. Reading(y)'
    BY <1>1, <1>2, <1>3, <1>5, <1>10, <1>12, <2>1, <2>2, CoreParts, ReadingArrives
  <2>4. Held(x) => p.type = "CHAT" /\ Num(p.first) = typed[x]
    BY <1>5, <1>6
  <2>5. ~cut' => Uncut(y)'
    BY <1>1, <1>2, <1>3, <1>4, <1>5, <1>12, <2>4, CoreParts, UncutArrives
  <2>6. QED
    BY <1>7, <1>8, <1>9, <2>3, <2>5, CoreNext, Sides
<1>13. QED
  BY <1>3, <1>11, <1>12

LEMMA EchoGood ==
  ASSUME TypeOK, Good, NEW x \in Side, Echo(x)
  PROVE  Good'
<1>1. TypeOK' /\ line'[x] = Control(x) /\ \A y \in Side : y # x => line'[y] = line[y]
  BY EchoType DEF TypeOK, Echo
<1>2. CASE End(x)
  <2>1. /\ main'[x] = "end" /\ recv'[x] = "off" /\ stream'[x] = <<>>
        /\ \A y \in Side : y # x => /\ main'[y] = main[y] /\ recv'[y] = recv[y]
                                   /\ stream'[y] = stream[y]
    BY <1>2 DEF TypeOK, End
  <2>2. UNCHANGED <<plan, packet, kind, typed, shown, clash, cut>>
    BY DEF Echo
  <2>3. QED
    BY <1>1, <2>1, <2>2, Ends
<1>3. CASE main' = [main EXCEPT ![x] = "input"] /\ UNCHANGED <<recv, stream>>
  <2>1. /\ main[x] = "echo" /\ main'[x] = "input" /\ recv'[x] = recv[x]
        /\ \A y \in Side : y # x => main'[y] = main[y]
    BY <1>3 DEF Echo, TypeOK
  <2>2. /\ Limit(x)' = Limit(x) /\ (Held(x)' <=> Held(x)) /\ (Pending(x)' <=> Pending(x))
    BY <1>3, <2>1 DEF Limit, Held, Pending, InHand, Echo
  <2>3. ~clash => Filling(x)'
    BY <1>1, <2>1 DEF Filling, Control, Num
  <2>4. ~clash /\ ~clash /\ recv'[x] = "print" => packet[x].type = "CHAT"
    BY <2>1 DEF Good, Core, Reading, Received
  <2>5. QED
    BY <1>1, <1>3, <2>1, <2>2, <2>3, <2>4, Steady DEF Echo
<1>4. QED
  BY <1>2, <1>3 DEF Echo

LEMMA TurnGood ==
  ASSUME TypeOK, TypeOK', Good, NEW x \in Side, NEW from, NEW to, Turn(x, from, to),
         UNCHANGED <<plan, main, packet, kind, line, typed, stream, shown, clash, cut>>,
         \/ from = "look" /\ to = "print" /\ packet[x].type = "CHAT"
         \/ from = "look" /\ to = "recv" /\ packet[x].type # "CHAT"
         \/ from = "status" /\ to = "recv"
  PROVE  Good'
<1>1. /\ recv[x] = from /\ recv'[x] = to
      /\ \A y \in Side : y # x => recv'[y] = recv[y]
  BY DEF Turn, TypeOK
<1>2. /\ Limit(x)' = Limit(x) /\ (Held(x)' <=> Held(x)) /\ (Pending(x)' <=> Pending(x))
  BY <1>1, LimitKept DEF Pending
<1>3. ~clash => Filling(x)'
  BY <1>1, FillingKept DEF Good, Core, Reading
<1>4. main[x] # "end"
  BY <1>1 DEF TypeOK
<1>5. QED
  BY <1>1, <1>2, <1>3, <1>4, Steady

LEMMA LookChatGood ==
  ASSUME TypeOK, Good, NEW x \in Side, LookChat(x)
  PROVE  Good'
BY LookChatType, TurnGood DEF LookChat

LEMMA LookUnknownGood ==
  ASSUME TypeOK, Good, NEW x \in Side, LookUnknown(x)
  PROVE  Good'
BY LookUnknownType, TurnGood DEF LookUnknown

LEMMA StatusGood ==
  ASSUME TypeOK, Good, NEW x \in Side, Status(x)
  PROVE  Good'
BY StatusType, TurnGood DEF Status

LEMMA ReceiveEOFGood ==
  ASSUME TypeOK, Good, NEW x \in Side, ReceiveEOF(x)
  PROVE  Good'
<1>1. TypeOK'
  BY ReceiveEOFType
<1>2. /\ main'[x] = "end" /\ recv'[x] = "off" /\ stream'[x] = <<>>
      /\ \A y \in Side : y # x => /\ main'[y] = main[y] /\ recv'[y] = recv[y]
                                 /\ stream'[y] = stream[y]
  BY DEF TypeOK, ReceiveEOF, End
<1>3. UNCHANGED <<plan, packet, kind, line, typed, shown, clash, cut>>
  BY DEF ReceiveEOF
<1>4. QED
  BY <1>1, <1>2, <1>3, Ends

LEMMA LookFinalGood ==
  ASSUME TypeOK, Good, NEW x \in Side, LookFinal(x)
  PROVE  Good'
<1>1. /\ TypeOK' /\ stream'[x] = <<>>
      /\ \A y \in Side : y # x => \/ stream'[y] = stream[y]
                                  \/ stream'[y] = stream[y] \o <<Head1(Cya(x)), Tail1(Cya(x))>>
  BY LookFinalType, LastStream
<1>2. QED
  BY <1>1, Ends DEF TypeOK, LookFinal

\* What a receive of x leaves alone.
LEMMA Receives ==
  ASSUME TypeOK, TypeOK', Good, NEW x \in Side, ~clash', ReceivePart(x) \/ ReceiveFull(x)
  PROVE  /\ Core(x) /\ Filling(x)' /\ (~cut' => Uncut(x) /\ Uncut(Peer(x))')
         /\ Core(Peer(x))' /\ recv[x] = "recv" /\ ~Pending(x) /\ shown' = shown
         /\ Limit(Peer(x))' = Limit(Peer(x)) /\ typed' = typed /\ plan' = plan
         /\ (Held(Peer(x))' <=> Held(Peer(x))) /\ (Over' <=> Over)
<1> DEFINE y == Peer(x)
<1>1. y \in Side /\ y # x /\ Peer(y) = x
  BY Sides
<1>2. Core(x) /\ Core(y) /\ (~cut' => Uncut(x) /\ Uncut(y))
  BY <1>1 DEF Good, ReceivePart, ReceiveFull
<1>3. /\ UNCHANGED <<plan, main, kind, line, typed, shown>> /\ recv[x] = "recv"
      /\ recv'[y] = recv[y] /\ packet'[y] = packet[y] /\ stream'[y] = stream[y]
      /\ main[x] \notin {"type", "name", "send"}
  BY <1>1 DEF TypeOK, ReceivePart, ReceiveFull, Turn, Clashes
<1>4. /\ Limit(x)' = Limit(x) /\ Limit(y)' = Limit(y) /\ (Held(y)' <=> Held(y))
      /\ (Held(x)' <=> Held(x)) /\ (Over' <=> Over) /\ ~Pending(x)
      /\ (Pending(y)' <=> Pending(y))
  BY <1>3, LimitKept DEF Pending, Over
<1>5. Limit(x) <= Limit(x)'
  BY <1>4, LimitType
<1>6. Core(y)'
  BY <1>1, <1>2, <1>3, <1>5, Bystander
<1>7. Filling(x)'
  BY <1>2, <1>3, CoreParts, FillingKept
<1>8. ~cut' => Uncut(y)'
  BY <1>1, <1>2, <1>3, <1>4, UncutKept
<1>9. QED
  BY <1>2, <1>3, <1>4, <1>6, <1>7, <1>8

LEMMA ReceivePartGood ==
  ASSUME TypeOK, Good, NEW x \in Side, ReceivePart(x)
  PROVE  Good'
<1> SUFFICES ASSUME ~clash'
             PROVE  \A y \in Side : Core(y)'
  BY DEF Good, ReceivePart
<1>1. TypeOK'
  BY ReceivePartType
<1>2. recv'[x] = "recv" /\ ~Pending(x)'
  BY DEF TypeOK, ReceivePart, Turn, Pending
<1>3. /\ 1 <= Len(stream[x]) /\ Len(stream'[x]) = Len(stream[x]) - 1
      /\ \A i \in 1..(Len(stream[x]) - 1) : stream'[x][i] = stream[x][i + 1]
  <2>1. stream[x] \in Seq(Cells) /\ stream[x] # <<>> /\ stream'[x] = Tail(stream[x])
    BY DEF TypeOK, ReceivePart
  <2>2. QED
    BY <2>1, RestCells
<1>4. Whole(x)' /\ Shown(x)'
  BY <1>1, <1>2, <1>3, Receives, Shift DEF Core, Reading
<1>5. Received(x)'
  BY <1>2 DEF Received
<1>6. QED
  BY <1>1, <1>4, <1>5, Receives, CoreNext, Sides DEF Reading

LEMMA ReceiveFullGood ==
  ASSUME TypeOK, Good, NEW x \in Side, ReceiveFull(x)
  PROVE  Good'
<1> SUFFICES ASSUME ~clash'
             PROVE  \A y \in Side : Core(y)' /\ (~cut' => Uncut(y)')
  BY DEF Good
<1> DEFINE n == Len(stream[x])
           a == stream[x][1]
           b == stream[x][2]
           y == Peer(x)
<1>0. TypeOK' /\ y \in Side /\ y # x /\ Peer(y) = x
  BY ReceiveFullType, Sides
<1>1. /\ Core(x) /\ Filling(x)' /\ (~cut' => Uncut(x) /\ Uncut(y)')
      /\ Core(y)' /\ recv[x] = "recv" /\ ~Pending(x) /\ shown' = shown
      /\ Limit(y)' = Limit(y) /\ typed' = typed /\ plan' = plan
      /\ (Held(y)' <=> Held(y)) /\ (Over' <=> Over)
  BY <1>0, Receives
<1>2. /\ n \in Nat /\ 2 <= n /\ Len(stream'[x]) = n - 2 /\ a \in Cells /\ b \in Cells
      /\ \A i \in 1..n-2 : stream'[x][i] = stream[x][i + 2]
  <2>1. stream[x] \in Seq(Cells) /\ n >= 2 /\ stream'[x] = SubSeq(stream[x], 3, n)
    BY DEF TypeOK, ReceiveFull
  <2>2. QED
    BY <2>1, RestCells
<1>3. /\ \A i : IsHead(x, i)' => IsHead(x, i + 2) /\ stream'[x][i] = stream[x][i + 2]
      /\ Whole(x)'
      /\ \A i \in 1..Len(shown[x]) : \A j :
           IsHead(x, j)' => After(stream[x][j].text, shown[x][i].first)'
      /\ ~Pending(x)' => Shown(x)'
  BY <1>0, <1>1, <1>2, Shift DEF Core, Reading
<1>4. /\ recv'[x] = "look" /\ packet[x] \in Packets
      /\ packet'[x] = WriteRest(WriteFirst(packet[x], a), b)
  BY DEF TypeOK, ReceiveFull, Turn
<1>5. CASE ~IsHead(x, 1)
  <2>1. packet'[x].type = "?"
    BY <1>2, <1>4, <1>5 DEF WriteRest, WriteFirst, IsHead, Cells, Packets
  <2>2. ~Pending(x)' /\ recv'[x] # "print"
    BY <1>4, <2>1 DEF Pending
  <2>3. Received(x)'
    BY <2>2 DEF Received
  <2>4. ~Uncut(x)
    BY <1>2, <1>5 DEF Uncut
  <2>5. QED
    BY <1>1, <1>3, <2>2, <2>3, <2>4, CoreNext, Sides DEF Reading
<1>6. CASE IsHead(x, 1)
  <2>1. /\ a.part = "head" /\ a.user = y /\ FromPeer(x, a.text)
        /\ b.part = "tail" /\ b.text = a.text
    BY <1>1, <1>6 DEF Core, Reading, Whole, IsHead
  <2>2. /\ packet'[x].type = a.type /\ packet'[x].user = y
        /\ packet'[x].first = a.text /\ packet'[x].rest = a.text
    BY <1>4, <2>1 DEF WriteRest, WriteFirst, Packets
  <2>3. Pending(x)' <=> a.type = "CHAT"
    BY <1>4, <2>2 DEF Pending
  <2>4. ASSUME NEW i, IsHead(x, i)'  PROVE After(stream[x][i].text, packet[x].first)'
    <3>1. i \in 1..n-2 /\ IsHead(x, i + 2) /\ stream'[x][i] = stream[x][i + 2]
      BY <1>2, <1>3, <2>4 DEF IsHead
    <3>2. i + 2 \in 1..n /\ 1 \in 1..n /\ 1 < i + 2
      BY <1>2, <3>1
    <3>3. After(stream[x][i + 2].text, a.text)
      BY <1>1, <1>6, <3>1, <3>2 DEF Core, Reading, Whole
    <3>4. QED
      BY <2>2, <3>1, <3>3 DEF After, Num
  <2>5. Received(x)'
    <3>1. FromPeer(x, packet[x].first)'
      BY <1>1, <2>1, <2>2 DEF FromPeer, Num
    <3>2. recv'[x] # "print"
      BY <1>4
    <3>3. QED
      BY <2>2, <2>4, <3>1, <3>2 DEF Received
  <2>6. Shown(x)'
    <3>1. ASSUME NEW i \in 1..Len(shown[x])
          PROVE  /\ Genuine(x, i)' /\ FromPeer(x, shown[x][i].first)'
                 /\ After(packet[x].first, shown[x][i].first)'
      <4>1. Genuine(x, i) /\ FromPeer(x, shown[x][i].first) /\ After(a.text, shown[x][i].first)
        BY <1>1, <1>2, <1>6 DEF Core, Reading, Shown
      <4>2. QED
        BY <1>1, <2>2, <4>1 DEF Genuine, FromPeer, After, Num
    <3>2. QED
      BY <1>1, <1>3, <3>1 DEF Shown
  <2>7. ASSUME ~cut'  PROVE Uncut(x)'
    <3>1. stream'[x] # <<>> => IsHead(x, 1)'
      <4>1. ~IsHead(x, 2)
        BY <2>1 DEF IsHead
      <4>2. stream'[x] # <<>> => n - 2 >= 1
        BY <1>2, <1>0 DEF TypeOK
      <4>3. n - 2 >= 1 => IsHead(x, 3)
        BY <1>1, <1>2, <2>7, <4>1 DEF Uncut
      <4>4. n - 2 >= 1 /\ IsHead(x, 3) => IsHead(x, 1)'
        BY <1>2 DEF IsHead
      <4>5. QED
        BY <4>2, <4>3, <4>4
    <3>2. ASSUME NEW i \in 1..(n - 2) - 1, ~IsHead(x, i)'  PROVE IsHead(x, i + 1)'
      <4>1. /\ i \in 1..n-2 /\ i + 1 \in 1..n-2 /\ i + 2 \in 1..n-1 /\ (i + 2) + 1 = (i + 1) + 2
            /\ (i + 1) + 2 \in 1..n /\ i + 2 \in 1..n
        BY <1>2
      <4>2. ~IsHead(x, i + 2)
        BY <1>2, <3>2, <4>1 DEF IsHead
      <4>3. IsHead(x, (i + 2) + 1)
        BY <1>1, <2>7, <4>1, <4>2 DEF Uncut
      <4>4. QED
        BY <1>2, <4>1, <4>3 DEF IsHead
    <3>3. ASSUME NEW k \in 1..typed[y]  PROVE Somewhere(x, k)'
      <4>1. Somewhere(x, k)
        BY <1>1, <2>7 DEF Uncut
      <4>2. CASE \E i \in 1..n : IsHead(x, i) /\ stream[x][i].type = "CHAT"
                                 /\ Num(stream[x][i].text) = k
        <5>1. PICK i \in 1..n : IsHead(x, i) /\ stream[x][i].type = "CHAT"
                                /\ Num(stream[x][i].text) = k
          BY <4>2
        <5>2. CASE i = 1
          BY <2>2, <2>3, <5>1, <5>2 DEF Somewhere, Num
        <5>3. CASE i > 2
          <6>1. i - 2 \in 1..n-2 /\ (i - 2) + 2 = i
            BY <1>2, <5>3
          <6>2. PICK h \in 1..n-2 : h + 2 = i
            BY <6>1
          <6>3. IsHead(x, h)' /\ stream'[x][h] = stream[x][i]
            BY <1>2, <5>1, <6>2 DEF IsHead
          <6>4. QED
            BY <1>2, <5>1, <6>3 DEF Somewhere, Num
        <5>4. i # 2
          BY <2>1, <5>1 DEF IsHead
        <5>5. QED
          BY <1>2, <5>2, <5>3, <5>4
      <4>3. CASE Over \/ (Held(y) /\ k = typed[y]) \/ k \in Short(y)
                 \/ \E i \in 1..Len(shown[x]) : Num(shown[x][i].first) = k
        BY <1>1, <4>3 DEF Somewhere, Num, Short
      <4>4. QED
        BY <1>1, <4>1, <4>2, <4>3 DEF Somewhere
    <3>4. QED
      BY <1>1, <1>2, <3>1, <3>2, <3>3 DEF Uncut
  <2>8. QED
    BY <1>1, <1>3, <2>5, <2>6, <2>7, CoreNext, Sides DEF Reading
<1>7. QED
  BY <1>5, <1>6

LEMMA PrintChatGood ==
  ASSUME TypeOK, Good, NEW x \in Side, PrintChat(x)
  PROVE  Good'
<1> SUFFICES ASSUME ~clash'
             PROVE  \A y \in Side : Core(y)' /\ (~cut' => Uncut(y)')
  BY DEF Good
<1> DEFINE n == Len(shown[x])
           y == Peer(x)
           m == [user |-> packet[x].user, first |-> packet[x].first, rest |-> packet[x].rest]
<1>0. TypeOK' /\ y \in Side /\ y # x /\ Peer(y) = x
  BY PrintChatType, Sides
<1>1. Core(x) /\ Core(y) /\ (~cut' => Uncut(x) /\ Uncut(y))
  BY <1>0 DEF Good, PrintChat
<1>2. /\ UNCHANGED <<plan, main, packet, kind, line, typed, stream>>
      /\ recv[x] = "print" /\ recv'[x] = "status" /\ recv'[y] = recv[y]
      /\ shown'[x] = Append(shown[x], m) /\ shown'[y] = shown[y]
  BY <1>0 DEF TypeOK, PrintChat, Turn
<1>3. /\ n \in Nat /\ Len(shown'[x]) = n + 1
      /\ \A i \in 1..n : shown'[x][i] = shown[x][i]
      /\ shown'[x][n + 1] = m
  BY <1>2, NumTypes
<1>4. /\ Limit(x)' = Limit(x) /\ Limit(y)' = Limit(y) /\ (Held(x)' <=> Held(x))
      /\ (Held(y)' <=> Held(y)) /\ (Over' <=> Over) /\ Pending(x) /\ ~Pending(x)'
      /\ (Pending(y)' <=> Pending(y)) /\ \A i : IsHead(x, i)' <=> IsHead(x, i)
  BY <1>1, <1>2, LimitKept DEF Pending, Over, IsHead, Core, Reading, Received
<1>5. Core(y)'
  <2>1. Limit(x) <= Limit(x)'
    BY <1>4, LimitType
  <2>2. QED
    BY <1>0, <1>1, <1>2, <2>1, Bystander
<1>6. Core(x)'
  <2>1. Filling(x)'
    BY <1>1, <1>2, CoreParts, FillingKept
  <2>2. Whole(x)' /\ Received(x)'
    BY <1>1, <1>2, <1>4 DEF Core, Reading, Whole, Received, FromPeer, After, Num
  <2>3. /\ m.user = y /\ m.first = m.rest /\ FromPeer(x, m.first)
        /\ \A i : IsHead(x, i) => After(stream[x][i].text, m.first)
        /\ \A i \in 1..n : After(m.first, shown[x][i].first)
    BY <1>1, <1>4 DEF Core, Reading, Received, Shown, IsHead
  <2>4. ASSUME NEW i \in 1..n
        PROVE  /\ Genuine(x, i)' /\ FromPeer(x, shown[x][i].first)'
               /\ \A j \in 1..Len(stream[x]) :
                    IsHead(x, j) => After(stream[x][j].text, shown[x][i].first)'
    <3>1. /\ Genuine(x, i) /\ FromPeer(x, shown[x][i].first)
          /\ \A j \in 1..Len(stream[x]) :
               IsHead(x, j) => After(stream[x][j].text, shown[x][i].first)
      BY <1>1 DEF Core, Reading, Shown
    <3>2. \A j \in 1..i-1 : j \in 1..n /\ shown'[x][j] = shown[x][j]
      BY <1>3
    <3>3. Genuine(x, i)'
      BY <1>3, <3>1, <3>2 DEF Genuine
    <3>4. QED
      BY <1>2, <1>3, <1>4, <3>1, <3>3 DEF FromPeer, After, Num
  <2>5. ASSUME NEW i, i = n + 1
        PROVE  /\ Genuine(x, i)' /\ FromPeer(x, shown[x][i].first)'
               /\ \A j \in 1..Len(stream[x]) :
                    IsHead(x, j) => After(stream[x][j].text, shown[x][i].first)'
    <3>1. shown'[x][i] = m /\ \A j \in 1..i-1 : j \in 1..n /\ shown'[x][j] = shown[x][j]
      BY <1>3, <2>5
    <3>2. Genuine(x, i)'
      BY <2>3, <3>1 DEF Genuine, FromPeer, After, Num
    <3>3. QED
      BY <1>2, <1>4, <2>3, <3>1, <3>2 DEF FromPeer, After, Num
  <2>6. Shown(x)'
    <3>1. \A i \in 1..n+1 : i \in 1..n \/ i = n + 1
      BY <1>3
    <3>2. QED
      BY <1>2, <1>3, <1>4, <2>4, <2>5, <3>1 DEF Shown
  <2>7. QED
    BY <2>1, <2>2, <2>6, CoreNext DEF Reading
<1>7. ~cut' => Uncut(y)'
  BY <1>0, <1>1, <1>2, <1>4, UncutKept
<1>8. ASSUME ~cut'  PROVE Uncut(x)'
  <2>1. ASSUME NEW k \in 1..typed[y]  PROVE Somewhere(x, k)'
    <3>1. Somewhere(x, k)
      BY <1>1, <1>8 DEF Uncut
    <3>2. CASE Pending(x) /\ Num(packet[x].first) = k
      <4>1. PICK i \in 1..n+1 : i = n + 1
        BY <1>3
      <4>2. Num(shown[x][i].first)' = k
        BY <1>3, <3>2, <4>1 DEF Num
      <4>3. QED
        BY <1>3, <4>2 DEF Somewhere
    <3>3. CASE \E i \in 1..n : Num(shown[x][i].first) = k
      <4>1. PICK i \in 1..n : Num(shown[x][i].first) = k
        BY <3>3
      <4>2. i \in 1..n+1 /\ Num(shown[x][i].first)' = k
        BY <1>3, <4>1 DEF Num
      <4>3. QED
        BY <1>3, <4>2 DEF Somewhere
    <3>4. CASE \/ Over \/ (Held(y) /\ k = typed[y]) \/ k \in Short(y)
               \/ \E i \in 1..Len(stream[x]) :
                    IsHead(x, i) /\ stream[x][i].type = "CHAT" /\ Num(stream[x][i].text) = k
      BY <1>2, <1>4, <3>4 DEF Somewhere, Num, Short
    <3>5. QED
      BY <3>1, <3>2, <3>3, <3>4 DEF Somewhere
  <2>2. QED
    BY <1>1, <1>2, <1>4, <1>8, <2>1 DEF Uncut
<1>9. QED
  BY <1>5, <1>6, <1>7, <1>8, Sides

-----------------------------------------------------------------------------
(* The theorem *)

LEMMA InitGood == Init => TypeOK /\ Good
<1> SUFFICES ASSUME Init  PROVE TypeOK /\ Good
  OBVIOUS
<1>1. TypeOK
  <2>1. NoPacket \in Packets /\ \A x \in Side : Control(x) \in Texts
    BY TextFacts DEF Init, NoPacket, Packets, AnyType, AnyText
  <2>2. /\ stream \in [Side -> Seq(Cells)]
        /\ shown \in [Side -> Seq([user : Side \union {"?"}, first : AnyText, rest : AnyText])]
    BY DEF Init
  <2>3. \A x \in Side : Lines(x) \in Nat
    BY TextFacts DEF Init
  <2>4. /\ packet \in [Side -> Packets] /\ line \in [Side -> Texts]
        /\ kind \in [Side -> Kinds] /\ typed \in [Side -> Nat]
        /\ \A x \in Side : typed[x] <= Lines(x)
    BY <2>1, <2>3 DEF Init, Kinds
  <2>5. /\ main \in [Side -> {"start", "input", "end"} \union Sending]
        /\ recv \in [Side -> {"off", "recv", "look", "print", "status"}]
        /\ \A x \in Side : recv[x] = "off" <=> main[x] \in {"start", "end"}
    BY DEF Init
  <2>6. QED
    BY <2>2, <2>4, <2>5 DEF Init, TypeOK
<1>2. ASSUME NEW x \in Side
      PROVE  Core(x) /\ Uncut(x)
  <2>1. /\ main[x] = "start" /\ recv[x] = "off" /\ line[x] = Control(x)
        /\ stream[x] = <<>> /\ shown[x] = <<>> /\ typed[Peer(x)] = 0
    BY <1>2, Sides DEF Init
  <2>2. Filling(x)
    BY <2>1 DEF Filling, Control, Num
  <2>3. Whole(x) /\ Received(x) /\ Shown(x)
    BY <2>1 DEF Whole, Received, Shown, IsHead, Pending
  <2>4. Uncut(x)
    BY <2>1 DEF Uncut
  <2>5. QED
    BY <2>2, <2>3, <2>4 DEF Core, Reading
<1>3. QED
  BY <1>1, <1>2 DEF Good

LEMMA QuietGood == TypeOK /\ Good /\ UNCHANGED vars => TypeOK' /\ Good'
<1> SUFFICES ASSUME TypeOK, Good, UNCHANGED vars  PROVE TypeOK' /\ Good'
  OBVIOUS
<1>1. TypeOK'
  BY DEF TypeOK, vars, Texts, AnyText, Cells, Packets, Lines
<1>2. ASSUME NEW x \in Side, ~clash'  PROVE Core(x)' /\ (~cut' => Uncut(x)')
  <2>1. Core(x) /\ (~cut => Uncut(x)) /\ clash' = clash /\ cut' = cut
    BY <1>2 DEF Good, vars
  <2>2. /\ Limit(Peer(x))' = Limit(Peer(x)) /\ (Held(Peer(x))' <=> Held(Peer(x)))
        /\ (Pending(x)' <=> Pending(x)) /\ (Over' <=> Over) /\ Peer(x) \in Side
    BY LimitKept, Sides DEF vars, Pending, Over
  <2>3. Limit(Peer(x)) <= Limit(Peer(x))'
    BY <2>2, LimitType
  <2>4. Core(x)'
    BY <1>1, <2>1, <2>3, Bystander DEF vars
  <2>5. ~cut' => Uncut(x)'
    BY <2>1, <2>2, UncutKept DEF vars
  <2>6. QED
    BY <2>4, <2>5
<1>3. QED
  BY <1>1, <1>2 DEF Good

LEMMA NextGood == TypeOK /\ Good /\ [Next]_vars => TypeOK' /\ Good'
<1> SUFFICES ASSUME TypeOK, Good, [Next]_vars  PROVE TypeOK' /\ Good'
  OBVIOUS
<1>1. CASE Connect
  BY <1>1, ConnectType, ConnectGood
<1>2. CASE Accept
  BY <1>2, AcceptType, AcceptGood
<1>3. ASSUME NEW x \in Side, User(x)  PROVE TypeOK' /\ Good'
  BY <1>3, TypeShortType, TypeShortGood, TypeType, TypeGood, TypeQuitType, TypeQuitGood DEF User
<1>4. ASSUME NEW x \in Side, MainThread(x)  PROVE TypeOK' /\ Good'
  BY <1>4, SetMsgType, SetMsgGood, SetTypeType, SetTypeGood, SetNameType, SetNameGood,
     SendType, SendGood, EchoType, EchoGood DEF MainThread
<1>5. ASSUME NEW x \in Side, RecvThread(x)  PROVE TypeOK' /\ Good'
  BY <1>5, ReceivePartType, ReceivePartGood, ReceiveFullType, ReceiveFullGood,
     ReceiveEOFType, ReceiveEOFGood, LookChatType, LookChatGood, LookFinalType, LookFinalGood,
     LookUnknownType, LookUnknownGood, PrintChatType, PrintChatGood, StatusType, StatusGood
     DEF RecvThread
<1>6. CASE UNCHANGED vars
  BY <1>6, QuietGood
<1>7. QED
  BY <1>1, <1>2, <1>3, <1>4, <1>5, <1>6 DEF Next

\* What the invariant means for what is shown.
LEMMA GoodShows == TypeOK /\ Good => NothingLost
<1> SUFFICES ASSUME TypeOK, Good  PROVE NothingLost
  OBVIOUS
<1>1. ASSUME ~clash, NEW x \in Side, NEW i \in DOMAIN shown[x]  PROVE Genuine(x, i)
  <2>1. i \in 1..Len(shown[x])
    BY DEF TypeOK
  <2>2. QED
    BY <1>1, <2>1 DEF Good, Core, Reading, Shown
<1>2. ASSUME ~clash, ~cut, NEW x \in Side, recv[x] = "recv", stream[x] = <<>>,
             main[Peer(x)] = "input", NEW n \in 1..typed[Peer(x)] \ Short(Peer(x))
      PROVE  \E i \in DOMAIN shown[x] : shown[x][i].first = <<Peer(x), n>>
  <2>1. Somewhere(x, n) /\ Shown(x)
    BY <1>2 DEF Good, Core, Reading, Uncut
  <2>2. ~Over /\ ~Held(Peer(x)) /\ ~Pending(x)
    BY <1>2, Sides DEF TypeOK, Over, Held, InHand, Pending
  <2>3. PICK i \in 1..Len(shown[x]) : Num(shown[x][i].first) = n
    BY <1>2, <2>1, <2>2 DEF Somewhere
  <2>4. i \in DOMAIN shown[x] /\ shown[x][i].first \in AnyText
    <3>1. shown[x] \in Seq([user : Side \union {"?"}, first : AnyText, rest : AnyText])
      BY DEF TypeOK
    <3>2. shown[x][i] \in [user : Side \union {"?"}, first : AnyText, rest : AnyText]
      BY <3>1, Element
    <3>3. QED
      BY <3>1, <3>2
  <2>5. shown[x][i].first[1] = Peer(x)
    BY <2>1 DEF Shown, FromPeer
  <2>6. shown[x][i].first = <<Peer(x), n>>
    BY <2>3, <2>4, <2>5, TextFacts DEF TypeOK
  <2>7. QED
    BY <2>4, <2>6
<1>3. QED
  BY <1>1, <1>2 DEF NothingLost

\* What a program shows as its peer's was typed there, whole, once and in order,
\* and no line of two characters or more is lost while both programs are up, for any
\* number of lines, as long as its two threads do not use the packet at the same
\* time (and, for the second part, TCP does not cut a packet).
THEOREM ShowsAll == Spec => []NothingLost
<1>1. TypeOK /\ Good /\ [Next]_vars => (TypeOK /\ Good)'
  BY NextGood
<1>2. QED
  BY <1>1, InitGood, GoodShows, PTL DEF Spec

=============================================================================
