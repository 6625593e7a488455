------------------------------ MODULE NetmsgChat ------------------------------
(***************************************************************************)
(* netmsg-fb: the chat server serv.bas and the chat client client.bas, one *)
(* of each, connected by TCP.                                              *)
(*                                                                         *)
(* Each program has two threads, the main loop that reads lines and sends  *)
(* them, and RecvThread, and one global packet that both of them use.  The *)
(* mutex guards SendProtoMsg and the status bar; hReceive writes to the    *)
(* packet without it.  The threads interleave at every access to packet.   *)
(*                                                                         *)
(* A packet on the stream is two cells: its head, with the type, the user  *)
(* and the first part of the message, and the rest of the message.  TCP    *)
(* keeps no boundaries: a receive may return one cell or two.              *)
(***************************************************************************)
EXTENDS Integers, Sequences

CONSTANTS
  Plans,     \* what the users may do (bounds of the model): the lines each types,
             \* which of them have at most one character, and whether they may
             \* type /quit, once each
  MayCut     \* TCP may deliver part of a packet

Side == {"server", "client"}

ASSUME NetmsgAssumption ==
  /\ Plans \subseteq [lines : [Side -> Nat], short : [Side -> SUBSET Nat], quit : BOOLEAN]
  /\ MayCut \in BOOLEAN

VARIABLES
  plan,      \* the users' plan, which no step changes
  main,      \* the main thread: "start" until connected, "input", "msg", "type",
             \* "name", "send", "echo" in SendProtoMsg, "end" when the program is over
  recv,      \* RecvThread: "off", "recv" in hReceive, "look", "print", "status"
  packet,    \* the global packet
  kind,      \* SendProtoMsg's mType
  line,      \* SendProtoMsg's msg
  typed,     \* lines the user has typed
  stream,    \* cells under way to each side
  shown,     \* the messages each side showed as its peer's, up to the first clash
  clash,     \* history: one thread wrote the packet while the other used it
  cut        \* history: hReceive returned part of a packet

vars == <<plan, main, recv, packet, kind, line, typed, stream, shown, clash, cut>>

-----------------------------------------------------------------------------
Peer(x) == IF x = "server" THEN "client" ELSE "server"
Lines(x) == plan.lines[x]
Short(x) == plan.short[x]

\* A text is the n-th line of a user, or his program's own words.
Control(x) == <<x, 0>>
Texts == UNION {{x} \X (0..Lines(x)) : x \in Side}
Torn == <<"torn", 0>>          \* bytes from the middle of a message
AnyText == Texts \union {Torn}
Kinds == {"CHAT", "BYE!", "CYA!"}
AnyType == Kinds \union {"?"}

Head1(p) == [part |-> "head", type |-> p.type, user |-> p.user, text |-> p.first]
Tail1(p) == [part |-> "tail", type |-> "?", user |-> "?", text |-> p.rest]
Cells == [part : {"head", "tail"}, type : AnyType, user : Side \union {"?"}, text : AnyText]

Packets == [type : AnyType, user : Side \union {"?"}, first : AnyText, rest : AnyText]
NoPacket == [type |-> "?", user |-> "?", first |-> Torn, rest |-> Torn]

\* hReceive writes cells over the packet from its start.
WriteFirst(p, c) ==
  IF c.part = "head" THEN [p EXCEPT !.type = c.type, !.user = c.user, !.first = c.text]
                     ELSE [p EXCEPT !.type = "?", !.user = "?", !.first = Torn]
WriteRest(p, c) == [p EXCEPT !.rest = IF c.part = "tail" THEN c.text ELSE Torn]

Sending == {"msg", "type", "name", "send", "echo"}       \* the mutex is held

TypeOK ==
  /\ plan \in Plans
  /\ main \in [Side -> {"start", "input", "end"} \union Sending]
  /\ recv \in [Side -> {"off", "recv", "look", "print", "status"}]
  /\ \A x \in Side : recv[x] = "off" <=> main[x] \in {"start", "end"}
  /\ packet \in [Side -> Packets]
  /\ kind \in [Side -> Kinds] /\ line \in [Side -> Texts]
  /\ typed \in [Side -> Nat] /\ \A x \in Side : typed[x] <= Lines(x)
  /\ stream \in [Side -> Seq(Cells)]
  /\ shown \in [Side -> Seq([user : Side \union {"?"}, first : AnyText, rest : AnyText])]
  /\ clash \in BOOLEAN /\ cut \in BOOLEAN

Init ==
  /\ plan \in Plans
  /\ main = [x \in Side |-> "start"] /\ recv = [x \in Side |-> "off"]
  /\ packet = [x \in Side |-> NoPacket]
  /\ kind = [x \in Side |-> "CHAT"] /\ line = [x \in Side |-> Control(x)]
  /\ typed = [x \in Side |-> 0]
  /\ stream = [x \in Side |-> <<>>] /\ shown = [x \in Side |-> <<>>]
  /\ clash = FALSE /\ cut = FALSE

-----------------------------------------------------------------------------
(* Connecting *)

Start(x) == /\ main[x] = "start"
            /\ main' = [main EXCEPT ![x] = "input"]
            /\ recv' = [recv EXCEPT ![x] = "recv"]

\* The server listens from its start, so the client's connect succeeds.
Connect ==
  /\ Start("client")
  /\ UNCHANGED <<plan, packet, kind, line, typed, stream, shown, clash, cut>>

\* Seeded bug: what the client sent before is thrown away.
AcceptAfresh ==
  /\ Start("server") /\ main["client"] # "start"
  /\ stream' = [stream EXCEPT !["server"] = <<>>]
  /\ UNCHANGED <<plan, packet, kind, line, typed, shown, clash, cut>>

\* The server accepts after its user has entered a nick.
Accept ==
  /\ Start("server") /\ main["client"] # "start"
  /\ UNCHANGED <<plan, packet, kind, line, typed, stream, shown, clash, cut>>

-----------------------------------------------------------------------------
(* The main thread: GetString and SendProtoMsg *)

Step(x, from, to) == main[x] = from /\ main' = [main EXCEPT ![x] = to]

\* A line of at most one character is not sent.
TypeShort(x) ==
  /\ main[x] = "input"
  /\ typed[x] < Lines(x) /\ typed[x] + 1 \in Short(x)
  /\ typed' = [typed EXCEPT ![x] = @ + 1]
  /\ UNCHANGED <<plan, main, recv, packet, kind, line, stream, shown, clash, cut>>

Type(x) ==
  /\ Step(x, "input", "msg")
  /\ typed[x] < Lines(x) /\ typed[x] + 1 \notin Short(x)
  /\ typed' = [typed EXCEPT ![x] = @ + 1]
  /\ line' = [line EXCEPT ![x] = <<x, typed'[x]>>]
  /\ kind' = [kind EXCEPT ![x] = "CHAT"]
  /\ UNCHANGED <<plan, recv, packet, stream, shown, clash, cut>>

\* /quit, once for each user (bound of the model).
TypeQuit(x) ==
  /\ plan.quit /\ Step(x, "input", "msg")
  /\ kind[x] = "CHAT"
  /\ kind' = [kind EXCEPT ![x] = IF x = "server" THEN "CYA!" ELSE "BYE!"]
  /\ line' = [line EXCEPT ![x] = Control(x)]
  /\ UNCHANGED <<plan, recv, packet, typed, stream, shown, clash, cut>>

SetMsg(x) ==
  /\ Step(x, "msg", "type")
  /\ packet' = [packet EXCEPT ![x] = [@ EXCEPT !.first = line[x], !.rest = line[x]]]
  /\ clash' = (clash \/ recv[x] \in {"look", "print"})
  /\ UNCHANGED <<plan, recv, kind, line, typed, stream, shown, cut>>

\* The client's packets are CHAT whatever was asked for.
SetType(x) ==
  /\ Step(x, "type", "name")
  /\ packet' = [packet EXCEPT ![x].type = IF x = "client" THEN "CHAT" ELSE kind[x]]
  /\ UNCHANGED <<plan, recv, kind, line, typed, stream, shown, clash, cut>>

SetName(x) ==
  /\ Step(x, "name", "send")
  /\ packet' = [packet EXCEPT ![x].user = x]
  /\ UNCHANGED <<plan, recv, kind, line, typed, stream, shown, clash, cut>>

Send(x) ==
  /\ Step(x, "send", "echo")
  /\ stream' = IF main[Peer(x)] = "end" THEN stream
               ELSE [stream EXCEPT ![Peer(x)] = @ \o <<Head1(packet[x]), Tail1(packet[x])>>]
  /\ UNCHANGED <<plan, recv, packet, kind, line, typed, shown, clash, cut>>

\* The program is over, with both threads; what it sent still arrives.
End(x) == /\ main' = [main EXCEPT ![x] = "end"]
          /\ recv' = [recv EXCEPT ![x] = "off"]
          /\ stream' = [stream EXCEPT ![x] = <<>>]

\* The line is echoed and the mutex released.  After /quit the server is done;
\* the client waits four seconds and reads on.
Echo(x) ==
  /\ main[x] = "echo"
  /\ IF x = "server" /\ kind[x] = "CYA!"
       THEN End(x)
       ELSE main' = [main EXCEPT ![x] = "input"] /\ UNCHANGED <<recv, stream>>
  /\ line' = [line EXCEPT ![x] = Control(x)]
  /\ UNCHANGED <<plan, packet, kind, typed, shown, clash, cut>>

-----------------------------------------------------------------------------
(* RecvThread *)

Turn(x, from, to) == recv[x] = from /\ recv' = [recv EXCEPT ![x] = to]

\* Writing the packet while the main thread fills it in or sends it.
Clashes(x) == main[x] \in {"type", "name", "send"}

\* hReceive returns less than a packet: it is dropped, but it is in the buffer.
ReceivePart(x) ==
  /\ MayCut /\ Turn(x, "recv", "recv")
  /\ stream[x] # <<>>
  /\ packet' = [packet EXCEPT ![x] = WriteFirst(@, stream[x][1])]
  /\ stream' = [stream EXCEPT ![x] = Tail(@)]
  /\ clash' = (clash \/ Clashes(x)) /\ cut' = TRUE
  /\ UNCHANGED <<plan, main, kind, line, typed, shown>>

\* hReceive returns as many bytes as a packet has.
ReceiveFull(x) ==
  /\ Turn(x, "recv", "look")
  /\ Len(stream[x]) >= 2
  /\ packet' = [packet EXCEPT ![x] = WriteRest(WriteFirst(@, stream[x][1]), stream[x][2])]
  /\ stream' = [stream EXCEPT ![x] = SubSeq(@, 3, Len(@))]
  /\ clash' = (clash \/ Clashes(x))
  /\ UNCHANGED <<plan, main, kind, line, typed, shown, cut>>

LookChat(x) ==
  /\ Turn(x, "look", "print")
  /\ packet[x].type = "CHAT"
  /\ UNCHANGED <<plan, main, packet, kind, line, typed, stream, shown, clash, cut>>

\* The packet that ends each program; the server would answer its own.
Final(x) == IF x = "server" THEN "BYE!" ELSE "CYA!"

LookFinal(x) ==
  /\ recv[x] = "look" /\ packet[x].type = Final(x)
  /\ x = "server" => main[x] \notin Sending
  /\ main' = [main EXCEPT ![x] = "end"]
  /\ recv' = [recv EXCEPT ![x] = "off"]
  /\ LET cya == [type |-> "CYA!", user |-> x, first |-> Control(x), rest |-> Control(x)]
     IN  stream' = [stream EXCEPT ![x] = <<>>, ![Peer(x)] =
           IF x = "server" THEN @ \o <<Head1(cya), Tail1(cya)>> ELSE @]
  /\ UNCHANGED <<plan, packet, kind, line, typed, shown, clash, cut>>

LookUnknown(x) ==
  /\ Turn(x, "look", "recv")
  /\ packet[x].type \notin {"CHAT", Final(x)}
  /\ UNCHANGED <<plan, main, packet, kind, line, typed, stream, shown, clash, cut>>

PrintChat(x) ==
  /\ Turn(x, "print", "status")
  /\ shown' = IF clash THEN shown ELSE [shown EXCEPT ![x] =
       Append(@, [user |-> packet[x].user, first |-> packet[x].first, rest |-> packet[x].rest])]
  /\ UNCHANGED <<plan, main, packet, kind, line, typed, stream, clash, cut>>

\* UpdateStatusBar takes the mutex and releases it.
Status(x) ==
  /\ Turn(x, "status", "recv")
  /\ main[x] \notin Sending
  /\ UNCHANGED <<plan, main, packet, kind, line, typed, stream, shown, clash, cut>>

\* Seeded bug: the end of the stream is read again and again.
ReceiveEOFIgnored(x) ==
  /\ recv[x] = "recv" /\ stream[x] = <<>> /\ main[Peer(x)] = "end"
  /\ UNCHANGED vars

ReceiveEOF(x) ==
  /\ recv[x] = "recv" /\ stream[x] = <<>> /\ main[Peer(x)] = "end"
  /\ End(x)
  /\ UNCHANGED <<plan, packet, kind, line, typed, shown, clash, cut>>

-----------------------------------------------------------------------------
MainThread(x) == SetMsg(x) \/ SetType(x) \/ SetName(x) \/ Send(x) \/ Echo(x)

RecvThread(x) ==
  \/ ReceivePart(x) \/ ReceiveFull(x) \/ ReceiveEOF(x)
  \/ LookChat(x) \/ LookFinal(x) \/ LookUnknown(x) \/ PrintChat(x) \/ Status(x)

User(x) == TypeShort(x) \/ Type(x) \/ TypeQuit(x)

Next == Connect \/ Accept \/ \E x \in Side : User(x) \/ MainThread(x) \/ RecvThread(x)

Spec == Init /\ [][Next]_vars

\* Threads run; users need not type, but the server's user enters a nick.
FairSpec ==
  /\ Spec
  /\ WF_vars(Accept)
  /\ \A x \in Side : WF_vars(MainThread(x)) /\ WF_vars(RecvThread(x))

-----------------------------------------------------------------------------
(* Properties *)

\* Message i that x shows: whole, under its sender's name, and later than those
\* before it.
Genuine(x, i) ==
  LET m == shown[x][i]
  IN  /\ m.user = Peer(x)
      /\ m.first = m.rest
      /\ m.first[1] = Peer(x)
      /\ \A j \in 1..i-1 : m.first[2] > 0 => shown[x][j].first[2] < m.first[2]

\* What is shown was typed by the user it is shown for, whole, once and in
\* order, wherever TCP cuts the stream, as long as the two threads of a program
\* do not use the packet at the same time; and no line of two characters or more
\* is lost between two programs that are up when the stream is not cut, the lines
\* typed before the server accepted included.
NothingLost ==
  /\ TypeOK
  /\ ~clash => \A x \in Side : \A i \in DOMAIN shown[x] : Genuine(x, i)
  /\ ~clash /\ ~cut =>
       \A x \in Side :
         recv[x] = "recv" /\ stream[x] = <<>> /\ main[Peer(x)] = "input" =>
           \A n \in 1..typed[Peer(x)] \ Short(Peer(x)) :
             \E i \in DOMAIN shown[x] : shown[x][i].first = <<Peer(x), n>>

\* When one program ends the other one does, also when the last packet was cut
\* or overwritten.
EndsTogether == \A x \in Side : (main[x] = "end") ~> (main[Peer(x)] = "end")

=============================================================================
