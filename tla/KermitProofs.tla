---------------------------- MODULE KermitProofs ----------------------------
(***************************************************************************)
(* Theorems about module Kermit, for every file length, every modulus of   *)
(* the sequence numbers from 2 up, every number of retries and every bound *)
(* on what is in flight.                                                   *)
(***************************************************************************)
EXTENDS Kermit, TLAPS

-----------------------------------------------------------------------------
(* The inductive invariant *)

\* The client is never more than one packet behind the calculator.
Lockstep == acc \in {spos - 1, spos}

\* A packet to the client lies between what it has accepted and what is being
\* sent; unless corrupt it is that packet of the file, or from before it.
InFlight(p) ==
  /\ acc <= p.pos /\ p.pos <= spos
  /\ p.ok => \/ p.pos >= 0 /\ p = FilePacket(p.pos)
             \/ p.pos = -1 /\ p.seq = 0 /\ p.type = "N"
             \/ p.pos = -1 /\ p.seq = 0 /\ p.type = "Y" /\ req = "short"

ToClient == \A i \in 1..Len(s2c) : InFlight(s2c[i])

\* The line keeps the order of the packets it delivers.
Ordered == \A i, j \in 1..Len(s2c) : i < j => s2c[i].pos <= s2c[j].pos

\* At most one ACK is in flight, that of the packet being sent.
ToServer ==
  /\ \A i \in 1..Len(c2s) :
       c2s[i].type = "Y" => spos >= 0 /\ acc = spos
  /\ \A i, j \in 1..Len(c2s) :
       c2s[i].type = "Y" /\ c2s[j].type = "Y" => i = j

\* lastseq identifies the last packet accepted.
LastSeen == lastseq = IF acc = -1 THEN -1 ELSE SeqAt(acc)

\* The shared buffer, once the line is down: a packet that kermit_get takes
\* for a repeat, or the client's own request or NAK.
Buffer == \/ kpkt.seq = lastseq
          \/ kpkt.type = "N" /\ kpkt.pos = acc
          \/ kpkt.type = "R" /\ kpkt.pos = acc /\ kpkt.seq = kseq

Written == Len(out) = Chunks(acc) /\ \A i \in 1..Len(out) : out[i] = i

Core ==
  /\ Lockstep /\ ToClient /\ Ordered /\ ToServer /\ Written
  /\ line = "down" => s2c = <<>> /\ c2s = <<>>
  /\ pc = "get" => Buffer
  /\ pc = "get" /\ line = "up" => LastSeen
  /\ pc = "send" /\ line = "up" => acc = -1
  /\ got = 1 => pc = "done" /\ (req = "short" \/ acc = Last)
  /\ acc = Last => pc = "done"
  /\ srv = "done" => spos = Last /\ acc = Last
  /\ req = "short" => spos = -1

IInv == TypeOK /\ (Sound => Core)

-----------------------------------------------------------------------------
(* Arithmetic of sequence numbers and positions *)

\* Neighbouring positions never share a sequence number, and the modulus is
\* all that keeps a repeat apart from the next packet.
LEMMA SeqFacts ==
  /\ SeqAt(0) = 0
  /\ \A p \in Nat : SeqAt(p) \in 0..SeqMod-1
  /\ \A p \in Nat : SeqAt(p + 1) # SeqAt(p)
<1>1. SeqMod \in Nat /\ SeqMod >= 2
  BY KermitAssumption
<1>2. \A p \in Int : p % SeqMod \in 0..SeqMod-1 /\ p = SeqMod * (p \div SeqMod) + (p % SeqMod)
  BY <1>1
<1>3. ASSUME NEW p \in Nat, SeqAt(p + 1) = SeqAt(p)  PROVE FALSE
  <2> DEFINE a == p \div SeqMod
             b == (p + 1) \div SeqMod
  <2>1. a \in Int /\ b \in Int
    BY <1>1
  <2>2. SeqMod * b - SeqMod * a = 1
    BY <1>1, <1>2, <1>3, <2>1 DEF SeqAt
  <2>3. SeqMod * (b - a) = 1
    BY <1>1, <2>1, <2>2
  <2> HIDE DEF a, b
  <2>4. CASE b - a >= 1
    BY <1>1, <2>1, <2>3, <2>4
  <2>5. CASE b - a <= 0
    BY <1>1, <2>1, <2>3, <2>5
  <2>6. QED
    BY <2>1, <2>4, <2>5
<1>4. SeqAt(0) = 0
  BY <1>1 DEF SeqAt
<1>5. QED
  BY <1>2, <1>3, <1>4 DEF SeqAt

\* A packet of the file is a packet, and its data number is the count of data
\* packets up to it.
LEMMA FilePacketType ==
  \A p \in 0..Last : FilePacket(p) \in Packets /\ FilePacket(p).type \in FileTypes
<1>1. NData \in Nat
  BY KermitAssumption
<1>2. QED
  BY <1>1, SeqFacts DEF FilePacket, Packet, Packets, TypeAt, DataAt, Types,
     FileTypes, Last, Garbage

LEMMA ChunksFacts ==
  /\ Chunks(-1) = 0 /\ Chunks(0) = 0
  /\ Chunks(Last) = NData
  /\ \A p \in 0..Last : /\ Chunks(p) \in 0..NData
                        /\ TypeAt(p) = "D" =>
                             Chunks(p) = Chunks(p - 1) + 1 /\ DataAt(p) = Chunks(p)
                        /\ TypeAt(p) # "D" => Chunks(p) = Chunks(p - 1)
                        /\ TypeAt(p) = "B" <=> p = Last
                        /\ Chunks(p - 1) \in 0..NData
BY KermitAssumption DEF Chunks, TypeAt, DataAt, Last

-----------------------------------------------------------------------------
(* Type correctness *)

LEMMA ConstantTypes ==
  /\ NData \in Nat /\ Last \in Nat /\ Last >= 3 /\ Garbage \in Nat
  /\ SeqMod \in Nat /\ SeqMod >= 2 /\ RetryMax \in Nat
  /\ MaxCorrupt \in Nat /\ MaxAborts \in Nat
  /\ 0 \in 0..SeqMod-1 /\ 0 \in 0..Garbage /\ Garbage \in 0..Garbage
  /\ -1 \in -1..Last
BY KermitAssumption DEF Last, Garbage

LEMMA PacketType ==
  ASSUME NEW type \in Types, NEW seq \in 0..SeqMod-1, NEW data \in 0..Garbage,
         NEW pos \in -1..Last
  PROVE  Packet(type, seq, data, pos) \in Packets
BY DEF Packet, Packets

LEMMA SendType ==
  ASSUME TypeOK, NEW type \in Types, NEW seq \in 0..SeqMod-1,
         acc' \in -1..Last, Send(type, seq)
  PROVE  kpkt' \in Packets /\ c2s' \in Seq(Packets)
<1>1. kpkt' \in Packets
  BY PacketType, ConstantTypes DEF Send
<1>2. QED
  BY <1>1 DEF Send, Put, TypeOK

\* What kermit_get's loop body leaves behind, whatever packet it is given.
LEMMA ProcessType ==
  ASSUME TypeOK, NEW p \in Packets, NEW seq \in 0..SeqMod-1, Process(p, seq)
  PROVE  /\ pc' \in {"send", "get", "wedged", "done"}
         /\ kpkt' \in Packets
         /\ kseq' \in 0..SeqMod-1
         /\ lastseq' \in -1..SeqMod-1
         /\ nretry' \in 0..RetryMax
         /\ out' \in Seq(0..Garbage)
         /\ got' \in {-2, -1, 0, 1}
         /\ ret' \in {-1, 0, 1}
         /\ acc' \in -1..Last
         /\ c2s' \in Seq(Packets)
<1> USE ConstantTypes
<1>0. /\ p.type \in Types /\ p.seq \in 0..SeqMod-1 /\ p.data \in 0..Garbage
      /\ p.pos \in -1..Last /\ 0 \in 0..SeqMod-1 /\ nretry' \in 0..RetryMax
      /\ "Y" \in Types
  BY DEF Packets, Process, Types
<1>1. CASE SkipDuplicate(p, seq)
  BY <1>0, <1>1 DEF SkipDuplicate, TypeOK
<1>2. ASSUME Accept(p)
      PROVE  lastseq' \in -1..SeqMod-1 /\ acc' \in -1..Last
  BY <1>0, <1>2 DEF Accept, TypeOK
<1>3. CASE TakeData(p, seq)
  <2>1. kpkt' \in Packets /\ c2s' \in Seq(Packets)
    BY <1>0, <1>2, <1>3, SendType DEF TakeData
  <2>2. QED
    BY <1>0, <1>2, <1>3, <2>1 DEF TakeData, TypeOK
<1>4. CASE TakeControl(p, seq)
  <2>1. kseq' \in 0..SeqMod-1
    BY <1>0, <1>4 DEF TakeControl
  <2>2. kpkt' \in Packets /\ c2s' \in Seq(Packets)
    BY <1>0, <1>2, <1>4, <2>1, SendType DEF TakeControl
  <2>3. QED
    BY <1>0, <1>2, <1>4, <2>1, <2>2 DEF TakeControl, TypeOK
<1>5. CASE TakeEnd(p, seq)
  <2>1. kpkt' \in Packets /\ c2s' \in Seq(Packets)
    BY <1>0, <1>2, <1>5, SendType DEF TakeEnd
  <2>2. QED
    BY <1>0, <1>2, <1>5, <2>1 DEF TakeEnd, TypeOK
<1>6. CASE TakeFinal(p, seq)
  BY <1>0, <1>2, <1>6 DEF TakeFinal, TypeOK
<1>7. CASE TakeNak(p, seq)
  BY <1>0, <1>2, <1>7 DEF TakeNak, TypeOK
<1>8. QED
  BY <1>1, <1>3, <1>4, <1>5, <1>6, <1>7 DEF Process

LEMMA TailType ==
  ASSUME NEW S, NEW q \in Seq(S), q # <<>>
  PROVE  Tail(q) \in Seq(S) /\ Head(q) \in S
OBVIOUS

LEMMA ReadType ==
  ASSUME TypeOK, ReadPacket
  PROVE  s2c' \in Seq(Packets) /\ Head(s2c) \in Packets /\ Head(s2c).seq \in 0..SeqMod-1
<1>1. s2c \in Seq(Packets) /\ s2c # <<>>
  BY DEF TypeOK, ReadPacket
<1>2. PICK last \in 1..Len(s2c) : s2c' = SubSeq(s2c, last + 1, Len(s2c))
  BY <1>1 DEF ReadPacket
<1>3. s2c' \in Seq(Packets)
  BY <1>1, <1>2
<1>4. Head(s2c) \in Packets
  BY <1>1
<1>5. QED
  BY <1>3, <1>4 DEF Packets

LEMMA ServerPackets ==
  /\ Packet("R", 0, 0, -1) \in Packets
  /\ IdleNak \in Packets /\ ShortReply \in Packets
  /\ \A p \in GarbagePackets : p \in Packets
<1>1. ASSUME NEW t \in Types, NEW q \in 0..SeqMod-1
      PROVE  Packet(t, q, Garbage, -1) \in Packets
  BY PacketType, ConstantTypes
<1>2. ASSUME NEW t \in Types
      PROVE  Packet(t, 0, 0, -1) \in Packets
  <2>1. 0 \in 0..SeqMod-1 /\ 0 \in 0..Garbage /\ -1 \in -1..Last
    BY ConstantTypes
  <2>2. QED
    BY <2>1, PacketType
<1>3. QED
  BY <1>1, <1>2 DEF GarbagePackets, IdleNak, ShortReply, Types

LEMMA ServerSendsType ==
  ASSUME TypeOK, NEW p \in Packets, ServerSends(p)
  PROVE  s2c' \in Seq(Packets)
BY DEF ServerSends, TypeOK

LEMMA InitType == Init => TypeOK
<1> SUFFICES ASSUME Init PROVE TypeOK
  OBVIOUS
<1> USE ConstantTypes DEF Init
<1>1. /\ kpkt \in Packets /\ kseq \in 0..SeqMod-1 /\ lastseq \in -1..SeqMod-1
      /\ nretry \in 0..RetryMax /\ acc \in -1..Last
  BY ServerPackets
<1>2. out \in Seq(0..Garbage) /\ s2c \in Seq(Packets) /\ c2s \in Seq(Packets)
  OBVIOUS
<1>3. /\ srv \in {"idle", "sending", "done"}
      /\ spos \in -1..Last /\ (srv = "idle") = (spos = -1)
      /\ req \in {"file", "short"}
      /\ naborts \in 0..MaxAborts /\ ncorrupt \in 0..MaxCorrupt
  OBVIOUS
<1>4. QED
  BY <1>1, <1>2, <1>3 DEF TypeOK

LEMMA ClientType ==
  ASSUME TypeOK, Client
  PROVE  TypeOK'
<1> USE ConstantTypes
<1>1. CASE Request
  <2>0. acc' \in -1..Last /\ kseq \in 0..SeqMod-1 /\ Send("R", kseq) /\ "R" \in Types
    BY <1>1 DEF Request, Types, TypeOK
  <2>1. kpkt' \in Packets /\ c2s' \in Seq(Packets)
    BY <2>0, SendType
  <2>2. QED
    BY <1>1, <2>0, <2>1 DEF Request, TypeOK, serverVars
<1>2. CASE ReceiveGood
  <2>1. Process(Head(s2c), Head(s2c).seq) /\ ReadPacket
    BY <1>2 DEF ReceiveGood
  <2>2. QED
    BY <1>2, <2>1, ReadType, ProcessType DEF ReceiveGood, TypeOK, serverVars
<1>3. CASE ReceiveBad
  <2>1. kpkt' \in Packets /\ c2s' \in Seq(Packets)
    BY <1>3, SendType DEF ReceiveBad, Types, TypeOK
  <2>2. s2c' \in Seq(Packets)
    BY <1>3, ReadType DEF ReceiveBad
  <2>3. nretry' \in 0..RetryMax
    BY <1>3 DEF ReceiveBad, RetriesLeft, TypeOK
  <2>4. QED
    BY <1>3, <2>1, <2>2, <2>3 DEF ReceiveBad, TypeOK, serverVars
<1>4. CASE GiveUp
  <2>1. PICK p \in GarbagePackets : Process(p, kseq)
    BY <1>4 DEF GiveUp
  <2>2. p \in Packets /\ kseq \in 0..SeqMod-1 /\ ReadPacket /\ gaveup' = TRUE
    BY <1>4, ServerPackets DEF TypeOK, GiveUp
  <2>3. QED
    BY <1>4, <2>1, <2>2, ReadType, ProcessType DEF GiveUp, TypeOK, serverVars
<1>5. CASE ReceiveBroken
  <2>1. Process(kpkt, kseq) /\ kpkt \in Packets /\ kseq \in 0..SeqMod-1
    BY <1>5 DEF ReceiveBroken, TypeOK
  <2>2. QED
    BY <1>5, <2>1, ProcessType DEF ReceiveBroken, TypeOK, serverVars
<1>6. QED
  BY <1>1, <1>2, <1>3, <1>4, <1>5 DEF Client

LEMMA ServerType ==
  ASSUME TypeOK, Server
  PROVE  TypeOK'
<1> USE ConstantTypes
<1>1. c2s # <<>> => Tail(c2s) \in Seq(Packets)
  BY DEF TypeOK
<1>2. srv = "sending" => spos \in 0..Last
  BY DEF TypeOK
<1>3. CASE ServerStart
  <2>1. s2c' \in Seq(Packets)
    BY <1>3, FilePacketType, ServerSendsType DEF ServerStart
  <2>2. QED
    BY <1>1, <1>3, <2>1 DEF ServerStart, ServerHears, TypeOK, clientVars
<1>4. CASE ServerReply \/ ServerReject
  <2>1. s2c' \in Seq(Packets)
    BY <1>4, ServerPackets, ServerSendsType DEF ServerReply, ServerReject
  <2>2. QED
    BY <1>1, <1>4, <2>1
    DEF ServerReply, ServerReject, ServerHears, TypeOK, clientVars, serverVars
<1>5. CASE ServerIdleNak
  <2>1. s2c' \in Seq(Packets)
    BY <1>5, ServerPackets, ServerSendsType DEF ServerIdleNak
  <2>2. QED
    BY <1>5, <2>1 DEF ServerIdleNak, TypeOK, clientVars, serverVars
<1>6. CASE ServerAdvance
  <2>1. spos + 1 \in 0..Last
    BY <1>2, <1>6 DEF ServerAdvance, AckOfCurrent
  <2>2. s2c' \in Seq(Packets)
    BY <1>6, <2>1, FilePacketType, ServerSendsType DEF ServerAdvance
  <2>3. QED
    BY <1>1, <1>2, <1>6, <2>1, <2>2
    DEF ServerAdvance, AckOfCurrent, ServerHears, TypeOK, clientVars
<1>7. CASE ServerFinish \/ ServerDrop
  BY <1>1, <1>2, <1>7
  DEF ServerFinish, ServerDrop, AckOfCurrent, ServerHears, TypeOK, clientVars, serverVars
<1>8. CASE ServerTimeout \/ ServerNak
  <2>1. s2c' \in Seq(Packets)
    BY <1>2, <1>8, FilePacketType, ServerSendsType DEF ServerTimeout, ServerNak
  <2>2. QED
    BY <1>1, <1>8, <2>1
    DEF ServerTimeout, ServerNak, ServerHears, TypeOK, clientVars, serverVars
<1>9. CASE ServerAbort
  <2>0. SeqAt(spos) \in 0..SeqMod-1 /\ "E" \in Types
    BY <1>2, <1>9, SeqFacts DEF ServerAbort, Types
  <2>1. Packet("E", SeqAt(spos), 0, -1) \in Packets
    BY <2>0, PacketType
  <2>2. s2c' \in Seq(Packets)
    BY <1>9, <2>1, ServerSendsType DEF ServerAbort
  <2>3. naborts' \in 0..MaxAborts
    BY <1>9, KermitAssumption DEF ServerAbort, TypeOK
  <2>4. QED
    BY <1>9, <2>2, <2>3 DEF ServerAbort, TypeOK, clientVars
<1>10. QED
  BY <1>3, <1>4, <1>5, <1>6, <1>7, <1>8, <1>9 DEF Server

LEMMA LineType ==
  ASSUME TypeOK, Line
  PROVE  TypeOK'
<1> USE ConstantTypes
<1>1. CASE LoseToClient
  BY <1>1, TailType DEF LoseToClient, TypeOK, clientVars, serverVars
<1>2. CASE LoseToServer
  BY <1>2, TailType DEF LoseToServer, TypeOK, clientVars, serverVars
<1>3. CASE CorruptToClient
  <2>1. s2c[1] \in Packets
    <3>1. s2c \in Seq(Packets) /\ s2c # <<>>
      BY <1>3 DEF CorruptToClient, TypeOK
    <3>2. QED
      BY <3>1
  <2>2. [s2c[1] EXCEPT !.ok = FALSE, !.data = Garbage] \in Packets
    BY <2>1 DEF Packets
  <2>3. s2c' \in Seq(Packets)
    BY <1>3, <2>2 DEF CorruptToClient, TypeOK
  <2>4. ncorrupt' \in 0..MaxCorrupt
    <3>1. ncorrupt \in 0..MaxCorrupt /\ ncorrupt < MaxCorrupt /\ ncorrupt' = ncorrupt + 1
      BY <1>3 DEF CorruptToClient, TypeOK
    <3>2. QED
      BY <3>1
  <2>5. QED
    BY <1>3, <2>3, <2>4 DEF CorruptToClient, TypeOK, clientVars, serverVars
<1>4. CASE Break
  <2>1. pc' \in {"send", "get", "wedged", "done"} /\ <<>> \in Seq(Packets)
    BY <1>4 DEF Break, TypeOK
  <2>2. QED
    BY <1>4, <2>1 DEF Break, TypeOK, serverVars
<1>5. QED
  BY <1>1, <1>2, <1>3, <1>4 DEF Line

LEMMA StepType ==
  ASSUME TypeOK, [Next]_vars
  PROVE  TypeOK'
<1>1. CASE UNCHANGED vars
  BY <1>1 DEF vars, clientVars, serverVars, TypeOK
<1>2. QED
  BY <1>1, ClientType, ServerType, LineType DEF Next

\* Every variable keeps its type; in particular kermit_recv never counts past
\* RETRY_MAX and the buffer always holds a packet of bounded fields.
THEOREM TypeCorrect == Spec => []TypeOK
<1>1. QED
  BY InitType, StepType, PTL DEF Spec

-----------------------------------------------------------------------------
(* The inductive invariant is preserved *)

LEMMA SoundBefore ==
  ASSUME TypeOK, Next, Sound'
  PROVE  Sound
<1>1. CASE Client
  BY <1>1 DEF Client, Request, ReceiveGood, ReceiveBad, GiveUp, ReceiveBroken,
              serverVars, Sound
<1>2. CASE Server
  <2>1. gaveup' = gaveup
    BY <1>2 DEF Server, ServerStart, ServerReply, ServerReject, ServerIdleNak,
       ServerAdvance, ServerFinish, ServerDrop, ServerTimeout, ServerNak,
       ServerAbort, clientVars
  <2>2. naborts \in Nat /\ naborts' \in {naborts, naborts + 1}
    BY <1>2 DEF Server, ServerStart, ServerReply, ServerReject, ServerIdleNak,
       ServerAdvance, ServerFinish, ServerDrop, ServerTimeout, ServerNak,
       ServerAbort, serverVars, TypeOK
  <2>3. QED
    BY <2>1, <2>2 DEF Sound
<1>3. CASE Line
  BY <1>3 DEF Line, LoseToClient, LoseToServer, CorruptToClient, Break,
              clientVars, serverVars, Sound
<1>4. QED
  BY <1>1, <1>2, <1>3 DEF Next

\* A read takes the first packet and leaves later ones, in their order.
LEMMA ReadOrder ==
  ASSUME TypeOK, ToClient, Ordered, ReadPacket
  PROVE  /\ InFlight(Head(s2c)) /\ Head(s2c) \in Packets
         /\ \A i \in 1..Len(s2c') : /\ InFlight(s2c'[i])
                                    /\ Head(s2c).pos <= s2c'[i].pos
         /\ Ordered'
         /\ line = "up" /\ pc = "get"
<1>1. s2c \in Seq(Packets) /\ s2c # <<>>
  BY DEF TypeOK, ReadPacket
<1>2. PICK last \in 1..Len(s2c) : s2c' = SubSeq(s2c, last + 1, Len(s2c))
  BY <1>1 DEF ReadPacket
<1>3. Len(s2c') = Len(s2c) - last
  BY <1>1, <1>2
<1>4. \A i \in 1..Len(s2c') : s2c'[i] = s2c[i + last] /\ i + last \in 2..Len(s2c)
  BY <1>1, <1>2, <1>3
<1>5. Head(s2c) = s2c[1] /\ 1 \in 1..Len(s2c)
  BY <1>1
<1>6. InFlight(Head(s2c)) /\ Head(s2c) \in Packets
  BY <1>1, <1>5 DEF ToClient
<1>7. ASSUME NEW i \in 1..Len(s2c')
      PROVE  InFlight(s2c'[i]) /\ Head(s2c).pos <= s2c'[i].pos
  <2>1. s2c'[i] = s2c[i + last] /\ i + last \in 1..Len(s2c) /\ 1 < i + last
    BY <1>4
  <2>2. InFlight(s2c[i + last])
    BY <2>1 DEF ToClient
  <2>3. s2c[1].pos <= s2c[i + last].pos
    BY <1>5, <2>1 DEF Ordered
  <2>4. QED
    BY <1>5, <2>1, <2>2, <2>3
<1>8. ASSUME NEW i \in 1..Len(s2c'), NEW j \in 1..Len(s2c'), i < j
      PROVE  s2c'[i].pos <= s2c'[j].pos
  <2>1. /\ s2c'[i] = s2c[i + last] /\ s2c'[j] = s2c[j + last]
        /\ i + last \in 1..Len(s2c) /\ j + last \in 1..Len(s2c) /\ i + last < j + last
    BY <1>2, <1>3, <1>4, <1>8
  <2>2. QED
    BY <2>1 DEF Ordered
<1>9. Ordered'
  BY <1>8 DEF Ordered
<1>10. QED
  BY <1>6, <1>7, <1>9 DEF ReadPacket

\* The sender appends what it is sending now, behind what it sent before.
LEMMA SendOrder ==
  ASSUME TypeOK, ToClient, Ordered, NEW p \in Packets, ServerSends(p),
         acc' = acc, req' = req, spos' \in -1..Last, spos <= spos',
         p.pos = spos', InFlight(p)'
  PROVE  ToClient' /\ Ordered'
<1>1. s2c \in Seq(Packets) /\ s2c' = Append(s2c, p) /\ spos \in Int
  BY DEF TypeOK, ServerSends
<1>2. /\ Len(s2c') = Len(s2c) + 1 /\ s2c'[Len(s2c) + 1] = p
      /\ \A i \in 1..Len(s2c) : s2c'[i] = s2c[i] /\ s2c[i].pos \in Int
  <2>1. Len(s2c') = Len(s2c) + 1 /\ s2c'[Len(s2c) + 1] = p
    BY <1>1
  <2>2. \A i \in 1..Len(s2c) : s2c'[i] = s2c[i]
    BY <1>1
  <2>3. ASSUME NEW i \in 1..Len(s2c) PROVE s2c[i].pos \in Int
    <3>1. s2c[i] \in Packets
      BY <1>1
    <3>2. QED
      BY <3>1, ConstantTypes DEF Packets
  <2>4. QED
    BY <2>1, <2>2, <2>3
<1>3. ASSUME NEW i \in 1..Len(s2c')
      PROVE  InFlight(s2c[i])'
  <2>1. CASE i = Len(s2c) + 1
    BY <1>2, <2>1 DEF InFlight
  <2>2. CASE i # Len(s2c) + 1
    <3>1. i \in 1..Len(s2c) /\ s2c'[i] = s2c[i] /\ s2c[i].pos \in Int
      BY <1>2, <2>2
    <3>2. InFlight(s2c[i])
      BY <3>1 DEF ToClient
    <3>3. spos \in Int /\ spos' \in Int /\ s2c[i].pos <= spos'
      BY <1>1, <3>1, <3>2, ConstantTypes DEF InFlight
    <3>4. QED
      BY <3>1, <3>2, <3>3 DEF InFlight
  <2>3. QED
    BY <2>1, <2>2
<1>4. ASSUME NEW i \in 1..Len(s2c'), NEW j \in 1..Len(s2c'), i < j
      PROVE  s2c'[i].pos <= s2c'[j].pos
  <2>1. i \in 1..Len(s2c) /\ s2c'[i] = s2c[i] /\ s2c[i].pos \in Int
    BY <1>2, <1>4
  <2>2. CASE j = Len(s2c) + 1
    <3>1. InFlight(s2c[i])
      BY <2>1 DEF ToClient
    <3>2. QED
      BY <1>1, <1>2, <2>1, <2>2, <3>1, ConstantTypes DEF InFlight
  <2>3. CASE j # Len(s2c) + 1
    BY <1>2, <2>1, <2>3, <1>4 DEF Ordered
  <2>4. QED
    BY <2>2, <2>3
<1>5. QED
  BY <1>3, <1>4 DEF ToClient, Ordered

\* What the read packet can be: a repeat of the last one accepted, something
\* the calculator sent before it heard the request, or the packet due next.
LEMMA HeadCases ==
  ASSUME TypeOK, Core, NEW p \in Packets, InFlight(p), p.ok, line = "up", pc = "get"
  PROVE  \/ p.pos = acc /\ acc >= 0 /\ p.seq = lastseq
         \/ /\ p.pos = -1 /\ acc = -1 /\ p.seq # lastseq
            /\ p.type = "N" \/ (p.type = "Y" /\ req = "short")
         \/ /\ p.pos = acc + 1 /\ p.pos = spos /\ p = FilePacket(spos) /\ p.seq # lastseq
            /\ spos \in 0..Last
<1>1. acc \in Int /\ spos \in Int /\ acc >= -1 /\ spos <= Last /\ p.pos \in Int
  BY ConstantTypes DEF TypeOK, Packets
<1>2. acc <= p.pos /\ p.pos <= spos /\ (acc = spos \/ acc = spos - 1)
  BY DEF Core, Lockstep, InFlight
<1>3. lastseq = IF acc = -1 THEN -1 ELSE SeqAt(acc)
  BY DEF Core, LastSeen
<1>4. CASE p.pos = -1
  BY <1>1, <1>2, <1>3, <1>4 DEF InFlight
<1>5. CASE p.pos >= 0 /\ p.pos = acc
  <2>1. p = FilePacket(acc)
    BY <1>1, <1>5 DEF InFlight
  <2>2. p.seq = SeqAt(acc)
    BY <2>1 DEF FilePacket, Packet
  <2>3. QED
    BY <1>1, <1>3, <1>5, <2>2
<1>6. CASE p.pos >= 0 /\ p.pos # acc
  <2>1. p.pos = acc + 1 /\ p.pos = spos
    BY <1>1, <1>2, <1>6
  <2>2. p = FilePacket(spos)
    BY <1>1, <1>6, <2>1 DEF InFlight
  <2>3. p.seq = SeqAt(acc + 1) /\ p.seq \in 0..SeqMod-1
    BY <2>1, <2>2 DEF FilePacket, Packet, Packets
  <2>4. acc \in Nat => SeqAt(acc + 1) # SeqAt(acc)
    BY SeqFacts
  <2>5. p.seq # lastseq
    BY <1>1, <1>3, <2>3, <2>4, ConstantTypes
  <2>6. QED
    BY <1>1, <1>6, <2>1, <2>2, <2>5, ConstantTypes
<1>7. QED
  BY <1>1, <1>2, <1>4, <1>5, <1>6

\* The packets that stay in flight when the client has accepted acc'.
LEMMA ReadRest ==
  ASSUME TypeOK, Core, ReadPacket, UNCHANGED <<spos, req>>, acc' \in -1..Last,
         acc' <= Head(s2c).pos
  PROVE  ToClient' /\ Ordered'
<1>1. /\ Ordered'
      /\ \A i \in 1..Len(s2c') : InFlight(s2c'[i]) /\ Head(s2c).pos <= s2c'[i].pos
  BY ReadOrder DEF Core
<1>2. Head(s2c).pos \in Int /\ s2c' \in Seq(Packets) /\ acc' \in Int
  BY ReadType, ConstantTypes DEF Packets
<1>3. ASSUME NEW i \in 1..Len(s2c')
      PROVE  InFlight(s2c[i])'
  <2>1. s2c'[i] \in Packets
    BY <1>2
  <2>2. s2c'[i].pos \in Int
    BY <2>1, ConstantTypes DEF Packets
  <2>3. acc' <= s2c'[i].pos
    BY <1>1, <1>2, <2>2
  <2>4. QED
    BY <1>1, <2>3 DEF InFlight
<1>4. QED
  BY <1>1, <1>3 DEF ToClient

\* Appending a packet that is not an ACK leaves the ACKs in flight alone.
LEMMA NoNewAck ==
  ASSUME TypeOK, ToServer, UNCHANGED <<spos, acc>>,
         NEW p \in Packets, p.type # "Y", c2s' = Put(c2s, p)
  PROVE  ToServer'
<1>1. c2s \in Seq(Packets)
  BY DEF TypeOK
<1>2. CASE c2s' = c2s
  BY <1>2 DEF ToServer
<1>3. CASE c2s' = Append(c2s, p)
  <2>1. Len(c2s') = Len(c2s) + 1 /\ c2s'[Len(c2s) + 1] = p
    BY <1>1, <1>3
  <2>2. \A i \in 1..Len(c2s) : c2s'[i] = c2s[i]
    BY <1>1, <1>3
  <2>3. \A i \in 1..Len(c2s') : c2s'[i].type = "Y" => i \in 1..Len(c2s)
    BY <1>1, <2>1
  <2>4. QED
    BY <2>2, <2>3 DEF ToServer
<1>4. QED
  BY <1>2, <1>3 DEF Put

\* An ACK for a packet the client accepts now is the only one in flight.
LEMMA OneNewAck ==
  ASSUME TypeOK, ToServer, UNCHANGED spos, acc # spos, acc' = spos, spos \in 0..Last,
         NEW p \in Packets, c2s' = Put(c2s, p)
  PROVE  ToServer'
<1>1. c2s \in Seq(Packets)
  BY DEF TypeOK
<1>2. \A i \in 1..Len(c2s) : c2s[i].type # "Y"
  BY DEF ToServer
<1>3. CASE c2s' = c2s
  BY <1>2, <1>3 DEF ToServer
<1>4. CASE c2s' = Append(c2s, p)
  <2>1. Len(c2s') = Len(c2s) + 1
    BY <1>1, <1>4
  <2>2. \A i \in 1..Len(c2s) : c2s'[i] = c2s[i]
    BY <1>1, <1>4
  <2>3. \A i \in 1..Len(c2s') : c2s'[i].type = "Y" => i = Len(c2s) + 1
    BY <1>1, <1>2, <2>1, <2>2
  <2>4. spos' >= 0 /\ acc' = spos'
    BY ConstantTypes
  <2>5. QED
    BY <2>3, <2>4 DEF ToServer
<1>5. QED
  BY <1>3, <1>4 DEF Put

\* Taking packets out of the queue to the calculator.
LEMMA FewerAcks ==
  ASSUME TypeOK, ToServer, UNCHANGED <<spos, acc>>, c2s # <<>>, c2s' = Tail(c2s)
  PROVE  ToServer'
<1>1. c2s \in Seq(Packets)
  BY DEF TypeOK
<1>2. Len(c2s') = Len(c2s) - 1 /\ \A i \in 1..Len(c2s') : c2s'[i] = c2s[i + 1]
  BY <1>1
<1>3. Len(c2s) \in Nat
  BY <1>1
<1>4. \A i \in 1..Len(c2s') : i + 1 \in 1..Len(c2s) /\ c2s'[i] = c2s[i + 1]
  BY <1>2, <1>3
<1>5. ASSUME NEW i \in 1..Len(c2s'), NEW j \in 1..Len(c2s'),
             c2s'[i].type = "Y", c2s'[j].type = "Y"
      PROVE  i = j
  <2>1. i + 1 = j + 1
    BY <1>4, <1>5 DEF ToServer
  <2>2. QED
    BY <2>1
<1>6. \A i \in 1..Len(c2s') : c2s'[i].type = "Y" => spos' >= 0 /\ acc' = spos'
  BY <1>4 DEF ToServer
<1>7. QED
  BY <1>5, <1>6 DEF ToServer

LEMMA RequestKeeps ==
  ASSUME TypeOK, Core, Request
  PROVE  Core'
<1> USE DEF Request, serverVars
<1>1. acc' = acc /\ kpkt' = Packet("R", kseq, 0, acc) /\ c2s' = Put(c2s, kpkt')
  BY DEF Core, Send
<1>2. kpkt' \in Packets
  BY ClientType DEF Client, TypeOK
<1>3. kpkt'.type = "R" /\ kpkt'.seq = kseq /\ kpkt'.pos = acc
  BY <1>1 DEF Packet
<1>4. ToServer'
  BY <1>1, <1>2, <1>3, NoNewAck DEF Core
<1>5. Lockstep' /\ ToClient' /\ Ordered' /\ Written'
  BY <1>1 DEF Core, Lockstep, ToClient, InFlight, Ordered, Written
<1>6. pc' = "get" => Buffer'
  BY <1>1, <1>3 DEF Buffer
<1>7. pc' = "get" /\ line' = "up" => LastSeen'
  BY <1>1 DEF LastSeen, Core
<1>8. line' = "down" => s2c' = <<>> /\ c2s' = <<>>
  BY <1>1 DEF Core, Put
<1>9. pc = "send" /\ got # 1 /\ acc # Last
  BY DEF Core
<1>10. QED
  BY <1>1, <1>4, <1>5, <1>6, <1>7, <1>8, <1>9 DEF Core

LEMMA ReceiveGoodKeeps ==
  ASSUME TypeOK, Core, ReceiveGood
  PROVE  Core'
<1> DEFINE p == Head(s2c)
<1> USE DEF ReceiveGood, serverVars
<1>1. /\ p \in Packets /\ p.ok /\ InFlight(p) /\ line = "up" /\ pc = "get"
      /\ ReadPacket /\ Process(p, p.seq)
  BY ReadOrder DEF Core, ChecksumOK
<1>2. acc \in Int /\ acc >= -1 /\ spos \in -1..Last /\ got # 1 /\ acc # Last
  BY <1>1, ConstantTypes DEF TypeOK, Core
<1> HIDE DEF p
<1>3. CASE p.pos = acc /\ acc >= 0 /\ p.seq = lastseq
  <2>1. SkipDuplicate(p, p.seq)
    BY <1>1, <1>3 DEF Process, TakeData, TakeControl, TakeEnd, TakeFinal, TakeNak,
       Accept, Duplicate
  <2>2. UNCHANGED <<pc, lastseq, out, got, ret, acc, c2s, spos, req, line, srv>>
        /\ kpkt' = p
    BY <2>1 DEF SkipDuplicate
  <2>3. ToClient' /\ Ordered'
    BY <1>1, <1>2, <1>3, <2>2, ConstantTypes, ReadRest DEF p, TypeOK
  <2>4. Buffer'
    BY <1>3, <2>2 DEF Buffer
  <2>5. ToServer' /\ Lockstep' /\ Written' /\ LastSeen'
    BY <1>1, <2>2 DEF Core, ToServer, Lockstep, Written, LastSeen
  <2>6. QED
    BY <1>1, <2>2, <2>3, <2>4, <2>5 DEF Core
<1>4. CASE /\ p.pos = -1 /\ acc = -1 /\ p.seq # lastseq
           /\ p.type = "N" \/ (p.type = "Y" /\ req = "short")
  <2>1. TakeFinal(p, p.seq) \/ TakeNak(p, p.seq)
    BY <1>1, <1>4 DEF Process, SkipDuplicate, TakeData, TakeControl, TakeEnd, Duplicate
  <2>2. /\ UNCHANGED <<out, acc, c2s, spos, req, line, srv>>
        /\ (pc' = "send" /\ got' = -1) \/ (pc' = "done" /\ (got' = 1 => req = "short"))
    BY <1>4, <2>1 DEF TakeFinal, TakeNak, Accept
  <2>3. ToClient' /\ Ordered'
    BY <1>1, <1>2, <1>4, <2>2, ConstantTypes, ReadRest DEF p, TypeOK
  <2>4. ToServer' /\ Lockstep' /\ Written'
    BY <2>2 DEF Core, ToServer, Lockstep, Written
  <2>5. QED
    BY <1>1, <1>2, <1>4, <2>2, <2>3, <2>4 DEF Core
<1>5. CASE /\ p.pos = acc + 1 /\ p.pos = spos /\ p = FilePacket(spos)
           /\ p.seq # lastseq /\ spos \in 0..Last
  <2>1. /\ p.type = TypeAt(spos) /\ p.seq = SeqAt(spos) /\ p.data = DataAt(spos)
        /\ p.type \in FileTypes
    BY <1>5, FilePacketType DEF FilePacket, Packet
  <2>2. TakeData(p, p.seq) \/ TakeControl(p, p.seq) \/ TakeEnd(p, p.seq)
    BY <1>1, <1>5, <2>1 DEF Process, SkipDuplicate, TakeFinal, TakeNak, Duplicate, FileTypes
  <2>3. acc' = spos /\ lastseq' = SeqAt(spos) /\ acc # spos
    BY <1>2, <1>5, <2>1, <2>2, ConstantTypes DEF TakeData, TakeControl, TakeEnd, Accept
  <2>4. /\ kseq' = SeqAt(spos) /\ kpkt' = Packet("Y", SeqAt(spos), 0, spos)
        /\ c2s' = Put(c2s, kpkt')
    <3>1. p.type = "S" => SeqAt(spos) = 0
      BY <1>5, <2>1, SeqFacts DEF TypeAt, Last
    <3>2. QED
      BY <2>1, <2>2, <2>3, <3>1 DEF TakeData, TakeControl, TakeEnd, Send
  <2>5. kpkt'.seq = lastseq' /\ kpkt' \in Packets
    BY <2>3, <2>4, ClientType DEF Packet, Client, TypeOK
  <2>6. ToServer'
    BY <1>5, <2>3, <2>4, <2>5, OneNewAck DEF Core
  <2>7. ToClient' /\ Ordered'
    BY <1>1, <1>2, <1>5, <2>3, ConstantTypes, ReadRest DEF p, TypeOK
  <2>8. Written'
    <3>1. Len(out) = Chunks(spos - 1) /\ \A i \in 1..Len(out) : out[i] = i
      BY <1>2, <1>5 DEF Core, Written
    <3>2. out \in Seq(0..Garbage) /\ Chunks(spos - 1) \in 0..NData
      BY <1>5, ChunksFacts DEF TypeOK
    <3>3. CASE p.type = "D"
      <4>1. out' = Append(out, DataAt(spos))
        BY <2>1, <2>2, <3>3 DEF TakeData, TakeControl, TakeEnd
      <4>2. DataAt(spos) = Len(out) + 1 /\ Chunks(spos) = Len(out) + 1
        BY <1>5, <2>1, <3>1, <3>2, <3>3, ChunksFacts
      <4>3. Len(out') = Len(out) + 1 /\ out'[Len(out) + 1] = Len(out) + 1
        BY <3>2, <4>1, <4>2
      <4>4. \A i \in 1..Len(out) : out'[i] = i
        BY <3>1, <3>2, <4>1
      <4>5. QED
        BY <2>3, <4>2, <4>3, <4>4 DEF Written
    <3>4. CASE p.type # "D"
      <4>1. out' = out
        BY <2>2, <3>4 DEF TakeData, TakeControl, TakeEnd
      <4>2. Chunks(spos) = Chunks(spos - 1)
        BY <1>5, <2>1, <3>4, ChunksFacts
      <4>3. QED
        BY <2>3, <3>1, <4>1, <4>2 DEF Written
    <3>5. QED
      BY <3>3, <3>4
  <2>9. /\ pc' = IF spos = Last THEN "done" ELSE "get"
        /\ got' = 1 => spos = Last
    BY <1>1, <1>2, <1>5, <2>1, <2>2, ChunksFacts DEF TakeData, TakeControl, TakeEnd
  <2>10. Lockstep' /\ Buffer' /\ LastSeen'
    BY <1>5, <2>3, <2>5, ConstantTypes DEF Lockstep, Buffer, LastSeen
  <2>11. srv # "done"
    BY <1>2 DEF Core
  <2>12. QED
    BY <1>1, <2>3, <2>6, <2>7, <2>8, <2>9, <2>10, <2>11 DEF Core
<1>6. QED
  BY <1>1, <1>3, <1>4, <1>5, HeadCases

LEMMA ReceiveBadKeeps ==
  ASSUME TypeOK, Core, ReceiveBad
  PROVE  Core'
<1> USE DEF ReceiveBad, serverVars
<1>1. /\ acc' = acc /\ kpkt' = Packet("N", kseq, 0, acc) /\ c2s' = Put(c2s, kpkt')
      /\ kpkt' \in Packets
  BY ClientType DEF Send, Client, TypeOK
<1>2. kpkt'.type = "N" /\ kpkt'.pos = acc
  BY <1>1 DEF Packet
<1>3. ToServer'
  BY <1>1, <1>2, NoNewAck DEF Core
<1>4. InFlight(Head(s2c)) /\ line = "up" /\ acc \in -1..Last
  BY ReadOrder DEF Core, TypeOK
<1>5. ToClient' /\ Ordered'
  BY <1>1, <1>4, ReadRest DEF InFlight
<1>6. Lockstep' /\ Written' /\ Buffer' /\ (LastSeen => LastSeen')
  BY <1>1, <1>2 DEF Core, Lockstep, Written, Buffer, LastSeen
<1>7. QED
  BY <1>1, <1>3, <1>4, <1>5, <1>6 DEF Core

\* On a broken line kermit_get handles its own request or NAK, or goes round
\* in circles; it neither writes nor reports success.
LEMMA ReceiveBrokenKeeps ==
  ASSUME TypeOK, Core, ReceiveBroken
  PROVE  Core'
<1> USE DEF ReceiveBroken, serverVars
<1>1. /\ line = "down" /\ pc = "get" /\ s2c = <<>> /\ c2s = <<>> /\ Buffer
      /\ got # 1 /\ acc # Last /\ Process(kpkt, kseq) /\ acc \in Int
  BY ConstantTypes DEF Core, TypeOK
<1>2. SkipDuplicate(kpkt, kseq) \/ TakeControl(kpkt, kseq) \/ TakeNak(kpkt, kseq)
  BY <1>1 DEF Buffer, Process, TakeData, TakeEnd, TakeFinal, Accept, Duplicate
<1>3. UNCHANGED <<out, acc, c2s, s2c, spos, req, line, srv>>
  BY <1>1, <1>2 DEF Buffer, SkipDuplicate, TakeControl, TakeNak, Accept, Duplicate, Send, Put
<1>4. /\ pc' = "get" => Buffer'
      /\ pc' \in {"get", "send"} /\ got' # 1
  <2>1. CASE SkipDuplicate(kpkt, kseq)
    BY <1>1, <2>1 DEF SkipDuplicate, Duplicate, Buffer
  <2>2. CASE TakeControl(kpkt, kseq)
    <3>1. kpkt.type = "R" /\ kpkt.seq = kseq
      BY <1>1, <2>2 DEF Buffer, TakeControl, Accept, Duplicate
    <3>2. kpkt'.seq = lastseq'
      BY <2>2, <3>1 DEF TakeControl, Accept, Send, Packet
    <3>3. QED
      BY <1>1, <2>2, <3>2 DEF TakeControl, Buffer
  <2>3. CASE TakeNak(kpkt, kseq)
    BY <1>1, <2>3 DEF TakeNak
  <2>4. QED
    BY <1>2, <2>1, <2>2, <2>3
<1>5. Lockstep' /\ ToClient' /\ Ordered' /\ ToServer' /\ Written'
  BY <1>3 DEF Core, Lockstep, ToClient, InFlight, Ordered, ToServer, Written
<1>6. QED
  BY <1>1, <1>3, <1>4, <1>5 DEF Core

\* A step of the calculator in which the client's variables do not change.
LEMMA ServerKeeps ==
  ASSUME TypeOK, Core, Server, Sound'
  PROVE  Core'
<1>1. /\ acc \in -1..Last /\ spos \in -1..Last /\ spos >= acc /\ Last \in Nat /\ Last >= 3
      /\ (srv = "idle") = (spos = -1)
  BY ConstantTypes DEF TypeOK, Core, Lockstep
<1>2. UNCHANGED <<clientVars, req, line>>
  BY DEF Server, ServerStart, ServerReply, ServerReject, ServerIdleNak,
     ServerAdvance, ServerFinish, ServerDrop, ServerTimeout, ServerNak,
     ServerAbort, serverVars
<1>3. UNCHANGED <<pc, kpkt, kseq, lastseq, out, got, acc, gaveup, req, line>>
  BY <1>2 DEF clientVars
<1>4. /\ Written' /\ (pc' = "get" => Buffer') /\ (pc' = "get" /\ line' = "up" => LastSeen')
      /\ (pc' = "send" /\ line' = "up" => acc' = -1)
      /\ (got' = 1 => pc' = "done" /\ (req' = "short" \/ acc' = Last))
      /\ (acc' = Last => pc' = "done")
  BY <1>3 DEF Core, Written, Buffer, LastSeen
<1>5. ASSUME Lockstep', ToClient', Ordered', ToServer', line = "up",
             srv' = "done" => spos' = Last /\ acc' = Last,
             req' = "short" => spos' = -1
      PROVE  Core'
  BY <1>3, <1>4, <1>5 DEF Core
<1> HIDE <1>4
<1>6. CASE ServerStart
  <2>1. /\ spos' = 0 /\ spos = -1 /\ acc = -1 /\ line = "up" /\ srv' = "sending"
        /\ req = "file" /\ ServerSends(FilePacket(0)) /\ c2s # <<>> /\ c2s' = Tail(c2s)
    BY <1>1, <1>6 DEF ServerStart, ServerHears
  <2>2. /\ FilePacket(0) \in Packets /\ FilePacket(0).pos = 0
        /\ FilePacket(FilePacket(0).pos) = FilePacket(0)
    BY <1>1, FilePacketType DEF FilePacket, Packet
  <2>3. InFlight(FilePacket(0))'
    BY <1>3, <2>1, <2>2 DEF InFlight
  <2>4. ToClient' /\ Ordered'
    <3>1. spos' \in -1..Last /\ spos <= spos' /\ FilePacket(0).pos = spos'
      BY <1>1, <2>1, <2>2
    <3>2. QED
      BY <1>3, <2>1, <2>2, <2>3, <3>1, SendOrder DEF Core
  <2>5. \A i \in 1..Len(c2s) : c2s[i].type # "Y"
    BY <2>1 DEF Core, ToServer
  <2>6. ToServer'
    <3>1. c2s \in Seq(Packets)
      BY DEF TypeOK
    <3>2. \A i \in 1..Len(c2s') : c2s'[i].type # "Y"
      BY <2>1, <2>5, <3>1
    <3>3. QED
      BY <3>2 DEF ToServer
  <2>7. QED
    BY <1>3, <1>5, <2>1, <2>4, <2>6 DEF Lockstep
<1>7. CASE ServerReply \/ ServerReject \/ ServerIdleNak
  <2>1. /\ spos' = spos /\ srv' = srv /\ spos = -1 /\ acc = -1 /\ line = "up"
        /\ ServerSends(IdleNak) \/ (ServerSends(ShortReply) /\ req = "short")
    BY <1>1, <1>7 DEF ServerReply, ServerReject, ServerIdleNak, ServerHears, ServerSends,
       serverVars
  <2>2. PICK p \in Packets : /\ ServerSends(p) /\ p.pos = -1 /\ p.seq = 0
                             /\ p.type = "N" \/ (p.type = "Y" /\ req = "short")
    <3>1. IdleNak.pos = -1 /\ IdleNak.seq = 0 /\ IdleNak.type = "N"
      BY DEF IdleNak, Packet
    <3>2. ShortReply.pos = -1 /\ ShortReply.seq = 0 /\ ShortReply.type = "Y"
      BY DEF ShortReply, Packet
    <3>3. QED
      BY <2>1, <3>1, <3>2, ServerPackets
  <2>4. InFlight(p)'
    BY <1>3, <2>1, <2>2 DEF InFlight
  <2>5. ToClient' /\ Ordered'
    BY <1>1, <1>3, <2>1, <2>2, <2>4, SendOrder DEF Core
  <2>6. ToServer'
    <3>1. CASE c2s' = c2s
      BY <1>3, <2>1, <3>1 DEF Core, ToServer
    <3>2. CASE c2s # <<>> /\ c2s' = Tail(c2s)
      BY <1>3, <2>1, <3>2, FewerAcks DEF Core
    <3>3. QED
      BY <1>7, <3>1, <3>2 DEF ServerReply, ServerReject, ServerIdleNak, ServerHears
  <2>7. QED
    BY <1>1, <1>3, <1>5, <2>1, <2>5, <2>6 DEF Lockstep, Core
<1>8. CASE ServerAdvance
  <2>1. /\ spos' = spos + 1 /\ spos \in 0..Last-1 /\ line = "up" /\ srv' = srv
        /\ srv = "sending" /\ c2s # <<>> /\ c2s' = Tail(c2s) /\ Head(c2s).type = "Y"
        /\ ServerSends(FilePacket(spos + 1))
    <3>1. /\ spos' = spos + 1 /\ spos < Last /\ line = "up" /\ srv' = srv
          /\ srv = "sending" /\ c2s # <<>> /\ c2s' = Tail(c2s) /\ Head(c2s).type = "Y"
          /\ ServerSends(FilePacket(spos + 1))
      BY <1>8 DEF ServerAdvance, AckOfCurrent, ServerHears
    <3>2. QED
      BY <1>1, <3>1
  <2>2. c2s \in Seq(Packets) /\ Head(c2s) = c2s[1] /\ 1 \in 1..Len(c2s)
    <3>1. c2s \in Seq(Packets)
      BY DEF TypeOK
    <3>2. QED
      BY <2>1, <3>1
  <2>3. acc = spos /\ \A i \in 1..Len(c2s) : c2s[i].type = "Y" => i = 1
    BY <2>1, <2>2 DEF Core, ToServer
  <2>4. ToServer'
    <3>1. \A i \in 1..Len(c2s') : c2s'[i] = c2s[i + 1] /\ i + 1 \in 1..Len(c2s) /\ i + 1 # 1
      BY <2>1, <2>2
    <3>2. \A i \in 1..Len(c2s') : c2s'[i].type # "Y"
      BY <2>3, <3>1
    <3>3. QED
      BY <3>2 DEF ToServer
  <2>5. PICK p \in Packets : /\ ServerSends(p) /\ p.pos = spos + 1
                             /\ p = FilePacket(p.pos) /\ p.pos \in 0..Last
    <3>1. spos + 1 \in 0..Last
      BY <1>1, <2>1
    <3>2. FilePacket(spos + 1) \in Packets /\ FilePacket(spos + 1).pos = spos + 1
      BY <3>1, FilePacketType DEF FilePacket, Packet
    <3>3. QED
      BY <2>1, <3>1, <3>2
  <2>6. InFlight(p)'
    BY <1>1, <1>3, <2>1, <2>3, <2>5 DEF InFlight
  <2>7. ToClient' /\ Ordered'
    <3>1. spos' \in -1..Last /\ spos <= spos' /\ p.pos = spos'
      BY <1>1, <2>1, <2>5
    <3>2. QED
      BY <1>3, <2>1, <2>5, <2>6, <3>1, SendOrder DEF Core
  <2>8. Lockstep'
    BY <1>1, <1>3, <2>1, <2>3 DEF Lockstep
  <2>9. req # "short"
    BY <2>1, <1>1 DEF Core
  <2>10. QED
    BY <1>3, <1>5, <2>1, <2>4, <2>7, <2>8, <2>9
<1>9. CASE ServerFinish \/ ServerDrop
  <2>1. /\ spos' = spos /\ s2c' = s2c /\ c2s # <<>> /\ c2s' = Tail(c2s) /\ line = "up"
    BY <1>9 DEF ServerFinish, ServerDrop, AckOfCurrent, ServerHears, serverVars
  <2>2. ToServer'
    BY <1>3, <2>1, FewerAcks DEF Core
  <2>3. ToClient' /\ Ordered' /\ Lockstep'
    BY <1>3, <2>1 DEF Core, ToClient, InFlight, Ordered, Lockstep
  <2>4. srv' = "done" => spos = Last /\ acc = Last
    <3>1. CASE ServerDrop
      BY <3>1 DEF ServerDrop, serverVars, Core
    <3>2. CASE ServerFinish
      <4>1. spos = Last /\ Head(c2s).type = "Y" /\ c2s \in Seq(Packets)
        BY <3>2 DEF ServerFinish, AckOfCurrent, ServerHears, TypeOK
      <4>2. c2s[1].type = "Y" /\ 1 \in 1..Len(c2s)
        BY <2>1, <4>1
      <4>3. QED
        BY <4>1, <4>2 DEF Core, ToServer
    <3>3. QED
      BY <1>9, <3>1, <3>2
  <2>5. QED
    BY <1>3, <1>5, <2>1, <2>2, <2>3, <2>4 DEF Core
<1>10. CASE ServerTimeout \/ ServerNak
  <2>1. /\ spos' = spos /\ srv' = srv /\ srv = "sending" /\ spos \in 0..Last /\ line = "up"
        /\ ServerSends(FilePacket(spos))
        /\ c2s' = c2s \/ (c2s # <<>> /\ c2s' = Tail(c2s))
    BY <1>1, <1>10 DEF ServerTimeout, ServerNak, ServerHears, ServerSends, serverVars
  <2>2. FilePacket(spos) \in Packets /\ FilePacket(spos).pos = spos
    BY <2>1, FilePacketType DEF FilePacket, Packet
  <2>3. InFlight(FilePacket(spos))'
    BY <1>1, <1>3, <2>1, <2>2 DEF InFlight
  <2>4. ToClient' /\ Ordered'
    BY <1>1, <1>3, <2>1, <2>2, <2>3, SendOrder DEF Core
  <2>5. ToServer'
    <3>1. CASE c2s' = c2s
      BY <1>3, <2>1, <3>1 DEF Core, ToServer
    <3>2. CASE c2s # <<>> /\ c2s' = Tail(c2s)
      BY <1>3, <2>1, <3>2, FewerAcks DEF Core
    <3>3. QED
      BY <2>1, <3>1, <3>2
  <2>6. QED
    BY <1>3, <1>5, <2>1, <2>4, <2>5 DEF Lockstep, Core
<1>11. CASE ServerAbort
  <2>1. naborts \in Nat /\ naborts' = naborts + 1 /\ naborts' = 0
    BY <1>11 DEF ServerAbort, Sound, TypeOK
  <2>2. QED
    BY <2>1
<1>12. QED
  BY <1>6, <1>7, <1>8, <1>9, <1>10, <1>11 DEF Server

LEMMA LineKeeps ==
  ASSUME TypeOK, Core, Line
  PROVE  Core'
<1>0. s2c \in Seq(Packets) /\ c2s \in Seq(Packets)
  BY DEF TypeOK
<1>1. CASE LoseToClient
  <2> USE <1>1 DEF LoseToClient, clientVars, serverVars
  <2>1. /\ Len(s2c') = Len(s2c) - 1
        /\ \A i \in 1..Len(s2c') : s2c'[i] = s2c[i + 1] /\ i + 1 \in 1..Len(s2c)
    BY <1>0
  <2>2. ToClient'
    <3>1. ASSUME NEW i \in 1..Len(s2c') PROVE InFlight(s2c[i])'
      <4>1. InFlight(s2c[i + 1]) /\ s2c'[i] = s2c[i + 1]
        BY <2>1 DEF Core, ToClient
      <4>2. QED
        BY <4>1 DEF InFlight
    <3>2. QED
      BY <3>1 DEF ToClient
  <2>3. Ordered'
    <3>1. ASSUME NEW i \in 1..Len(s2c'), NEW j \in 1..Len(s2c'), i < j
          PROVE  s2c'[i].pos <= s2c'[j].pos
      <4>1. i + 1 < j + 1 /\ Len(s2c) \in Nat
        BY <1>0, <2>1, <3>1
      <4>2. QED
        BY <2>1, <4>1 DEF Core, Ordered
    <3>2. QED
      BY <3>1 DEF Ordered
  <2>4. QED
    BY <2>2, <2>3 DEF Core, Lockstep, ToServer, LastSeen, Buffer, Written
<1>2. CASE LoseToServer
  <2> USE <1>2 DEF LoseToServer, clientVars, serverVars
  <2>1. ToServer'
    BY FewerAcks DEF Core
  <2>2. QED
    BY <2>1 DEF Core, Lockstep, ToClient, InFlight, Ordered, LastSeen, Buffer, Written
<1>3. CASE CorruptToClient
  <2> USE <1>3 DEF CorruptToClient, clientVars, serverVars
  <2>1. s2c[1] \in Packets
    BY <1>0
  <2>2. /\ Len(s2c') = Len(s2c)
        /\ \A i \in 1..Len(s2c) : /\ s2c'[i].pos = s2c[i].pos
                                  /\ s2c'[i] = s2c[i] \/ ~s2c'[i].ok
    <3>1. /\ [s2c[1] EXCEPT !.ok = FALSE, !.data = Garbage].pos = s2c[1].pos
          /\ ~[s2c[1] EXCEPT !.ok = FALSE, !.data = Garbage].ok
      BY <2>1 DEF Packets
    <3>2. QED
      BY <1>0, <3>1
  <2>3. ToClient'
    BY <2>2 DEF Core, ToClient, InFlight
  <2>4. Ordered'
    BY <2>2 DEF Core, Ordered
  <2>5. s2c' # <<>>
    BY <1>0
  <2>6. line # "down"
    BY DEF Core
  <2>7. QED
    BY <2>3, <2>4, <2>6 DEF Core, Lockstep, ToServer, LastSeen, Buffer, Written
<1>4. CASE Break
  <2> USE <1>4 DEF Break, serverVars
  <2>1. ToClient' /\ Ordered' /\ ToServer'
    BY DEF ToClient, Ordered, ToServer
  <2>2. pc' = pc \/ (pc = "get" /\ pc' = "wedged")
    OBVIOUS
  <2>3. QED
    BY <2>1, <2>2 DEF Core, Lockstep, Buffer, Written
<1>5. QED
  BY <1>1, <1>2, <1>3, <1>4 DEF Line

LEMMA InitInv == Init => IInv
<1> SUFFICES ASSUME Init PROVE IInv
  OBVIOUS
<1>1. TypeOK
  BY InitType
<1>2. Core
  BY ConstantTypes, ChunksFacts
  DEF Init, Core, Lockstep, ToClient, Ordered, ToServer, Written, Buffer, LastSeen
<1>3. QED
  BY <1>1, <1>2 DEF IInv

LEMMA StepInv == IInv /\ [Next]_vars => IInv'
<1> SUFFICES ASSUME IInv, [Next]_vars PROVE IInv'
  OBVIOUS
<1>1. TypeOK /\ TypeOK'
  BY StepType DEF IInv
<1>2. CASE UNCHANGED vars
  BY <1>1, <1>2 DEF vars, clientVars, serverVars, IInv, Sound, Core, Lockstep, ToClient,
     InFlight, Ordered, ToServer, Written, Buffer, LastSeen
<1>3. ASSUME Next, Sound' PROVE Core'
  <2>1. Core
    BY <1>1, <1>3, SoundBefore DEF IInv
  <2>2. ~GiveUp
    BY <1>3 DEF GiveUp, Sound
  <2>3. CASE Client
    BY <1>1, <2>1, <2>2, <2>3, RequestKeeps, ReceiveGoodKeeps, ReceiveBadKeeps,
       ReceiveBrokenKeeps DEF Client
  <2>4. QED
    BY <1>1, <1>3, <2>1, <2>3, ServerKeeps, LineKeeps DEF Next
<1>4. QED
  BY <1>1, <1>2, <1>3 DEF IInv

-----------------------------------------------------------------------------
(* Theorems *)

LEMMA Invariance == Spec => []IInv
<1>1. QED
  BY InitInv, StepInv, PTL DEF Spec

\* The chunks in the output are those of the file, in order and once each: a
\* repeat is told from the next packet by its sequence number alone, for any
\* modulus from 2 up, any loss, any corruption the checksum catches, and also
\* when a read swallows the packets behind the one it completes.
THEOREM PrefixTheorem == Spec => []OutIsPrefix
<1>1. IInv => OutIsPrefix
  <2> SUFFICES ASSUME IInv, Sound PROVE Len(out) <= NData /\ \A i \in 1..Len(out) : out[i] = i
    BY DEF OutIsPrefix
  <2>1. Len(out) = Chunks(acc) /\ (\A i \in 1..Len(out) : out[i] = i) /\ acc \in -1..Last
    BY DEF IInv, Core, Written, TypeOK
  <2>2. Chunks(acc) \in 0..NData
    BY <2>1, ChunksFacts, ConstantTypes
  <2>3. QED
    BY <2>1, <2>2, ConstantTypes
<1>2. QED
  BY <1>1, Invariance, PTL

\* A file whose chunks up to position p are written is whole at the end.
LEMMA WholeAtEnd ==
  ASSUME IInv, Sound, acc = Last
  PROVE  out = WholeFile
<1>1. out \in Seq(0..Garbage) /\ Len(out) = NData /\ \A i \in 1..Len(out) : out[i] = i
  BY ChunksFacts DEF IInv, TypeOK, Core, Written
<1>2. QED
  BY <1>1 DEF WholeFile

\* The calculator never moves past a packet that is not in the output, and
\* never holds a transfer for finished that the client has not finished.
THEOREM AckedTheorem == Spec => []AckedIsWritten
<1>1. IInv => AckedIsWritten
  <2> SUFFICES ASSUME IInv, Sound PROVE /\ srv = "sending" => Len(out) >= Chunks(spos - 1)
                                        /\ srv = "done" => out = WholeFile /\ pc = "done"
    BY DEF AckedIsWritten
  <2>1. srv = "done" => out = WholeFile /\ pc = "done"
    BY WholeAtEnd DEF IInv, Core
  <2>2. ASSUME srv = "sending" PROVE Len(out) >= Chunks(spos - 1)
    <3>1. spos \in 0..Last /\ (acc = spos \/ acc = spos - 1) /\ Len(out) = Chunks(acc)
      BY <2>2, ConstantTypes DEF IInv, TypeOK, Core, Lockstep, Written
    <3>2. Chunks(spos - 1) \in 0..NData /\ Chunks(spos) \in 0..NData
          /\ (Chunks(spos) = Chunks(spos - 1) + 1 \/ Chunks(spos) = Chunks(spos - 1))
      BY <3>1, ChunksFacts
    <3>3. QED
      BY <3>1, <3>2, ConstantTypes
  <2>3. QED
    BY <2>1, <2>2
<1>2. QED
  BY <1>1, Invariance, PTL

\* A transfer that kermit_get reports as complete is complete.
THEOREM SuccessTheorem == Spec => []SuccessIsWhole
<1>1. IInv => SuccessIsWhole
  BY WholeAtEnd DEF IInv, Core, SuccessIsWhole
<1>2. QED
  BY <1>1, Invariance, PTL

\* An idle NAK still in flight never restarts a transfer under way.
THEOREM NoRestartTheorem == Spec => NoMidwayRestart
<1>1. IInv /\ IInv' /\ [Next]_vars =>
        [Sound' /\ acc >= 0 /\ line = "up" => pc' # "send"]_vars
  <2> SUFFICES ASSUME IInv, IInv', Next, Sound', acc >= 0, line = "up", pc' = "send"
               PROVE  FALSE
    BY DEF vars
  <2>1. TypeOK /\ Core /\ Core' /\ acc \in Int
    BY SoundBefore, ConstantTypes DEF IInv, TypeOK
  <2>2. line' = "down" \/ acc' = -1
    BY <2>1 DEF Core, TypeOK, IInv
  <2>3. pc # "send"
    BY <2>1 DEF Core
  <2>4. CASE Client
    <3>1. ~GiveUp /\ line' = "up"
      BY <2>4 DEF Client, Request, ReceiveGood, ReceiveBad, GiveUp, ReceiveBroken, Sound
    <3>2. CASE ReceiveGood
      <4>1. ReadPacket /\ Process(Head(s2c), Head(s2c).seq)
        BY <3>2 DEF ReceiveGood
      <4>2. TakeNak(Head(s2c), Head(s2c).seq)
        BY <2>3, <4>1 DEF Process, SkipDuplicate, TakeData, TakeControl, TakeEnd, TakeFinal,
           ReadPacket
      <4>3. acc' = -1 /\ acc' \in {acc, Head(s2c).pos} /\ (acc' = Head(s2c).pos => acc' >= 0 \/ acc' = acc)
        BY <2>2, <3>1, <4>2 DEF TakeNak, Accept
      <4>4. QED
        BY <2>1, <4>2, <4>3 DEF TakeNak, Accept
    <3>3. QED
      BY <2>3, <2>4, <3>1, <3>2 DEF Client, Request, ReceiveBad, ReceiveBroken
  <2>5. CASE Server \/ Line
    BY <2>3, <2>5 DEF Server, ServerStart, ServerReply, ServerReject, ServerIdleNak,
       ServerAdvance, ServerFinish, ServerDrop, ServerTimeout, ServerNak, ServerAbort,
       Line, LoseToClient, LoseToServer, CorruptToClient, Break, clientVars
  <2>6. QED
    BY <2>4, <2>5 DEF Next
<1>2. QED
  BY <1>1, Invariance, PTL DEF Spec, NoMidwayRestart

-----------------------------------------------------------------------------
(* The client implements the abstract transfer *)

\* A command with a short reply writes nothing.
LEMMA ShortWritesNothing ==
  ASSUME IInv, Sound, req = "short"
  PROVE  out = <<>>
<1>1. acc = -1 /\ Len(out) = Chunks(acc) /\ out \in Seq(0..Garbage)
  BY ConstantTypes DEF IInv, TypeOK, Core, Lockstep, Written
<1>2. QED
  BY <1>1, ChunksFacts

\* What a turn of kermit_get's loop is to its caller.
LEMMA ProcessImplements ==
  ASSUME IInv, IInv', Sound, Sound', pc = "get", req' = req,
         NEW p \in Packets, NEW seq, Process(p, seq)
  PROVE  [Abstract!Next]_<<out, Outcome>>
<1>0. TypeOK /\ TypeOK' /\ Outcome = "running"
  BY DEF IInv, Outcome
<1>1. CASE SkipDuplicate(p, seq) \/ TakeControl(p, seq) \/ TakeNak(p, seq)
  BY <1>0, <1>1 DEF SkipDuplicate, TakeControl, TakeNak, Outcome
<1>2. CASE TakeData(p, seq)
  <2>1. /\ out' = Append(out, p.data) /\ pc' = pc
        /\ Len(out') <= NData /\ \A i \in 1..Len(out') : out'[i] = i
    <3>1. Len(out') = Chunks(acc') /\ acc' \in -1..Last /\ \A i \in 1..Len(out') : out'[i] = i
      BY <1>0 DEF IInv, TypeOK, Core, Written
    <3>2. Chunks(acc') \in 0..NData
      BY <3>1, ChunksFacts, ConstantTypes
    <3>3. out' = Append(out, p.data) /\ pc' = pc
      BY <1>2 DEF TakeData
    <3>4. QED
      BY <3>1, <3>2, <3>3, ConstantTypes
  <2>2. out' = Append(out, Len(out) + 1) /\ Len(out) < NData
    <3>1. p.data \in 0..Garbage /\ out \in Seq(0..Garbage) /\ NData \in Nat
      BY <1>0, ConstantTypes DEF TypeOK, Packets
    <3>2. Len(out') = Len(out) + 1 /\ out'[Len(out) + 1] = p.data
      BY <2>1, <3>1
    <3>3. p.data = Len(out) + 1 /\ Len(out) < NData
      BY <2>1, <3>1, <3>2
    <3>4. QED
      BY <2>1, <3>3
  <2>3. Outcome' = "running"
    BY <2>1 DEF Outcome
  <2>4. QED
    BY <1>0, <2>2, <2>3 DEF Abstract!Next, Abstract!Deliver
<1>3. CASE TakeEnd(p, seq) \/ TakeFinal(p, seq)
  <2>1. pc' = "done" /\ ret' = 1 /\ out' = out
    BY <1>3 DEF TakeEnd, TakeFinal
  <2>2. CASE got' # 1
    <3>1. Outcome' = "failed"
      BY <2>1, <2>2 DEF Outcome
    <3>2. QED
      BY <1>0, <2>1, <3>1 DEF Abstract!Next, Abstract!Fail
  <2>3. CASE got' = 1 /\ req = "file"
    <3>1. Outcome' = "complete"
      BY <2>1, <2>3 DEF Outcome
    <3>2. out' = WholeFile
      <4>1. acc' = Last
        BY <2>3 DEF IInv, Core
      <4>2. /\ out' \in Seq(0..Garbage) /\ Len(out') = NData
            /\ \A i \in 1..Len(out') : out'[i] = i
        BY <1>0, <4>1, ChunksFacts DEF IInv, TypeOK, Core, Written
      <4>3. QED
        BY <4>2 DEF WholeFile
    <3>3. QED
      BY <1>0, <2>1, <3>1, <3>2 DEF Abstract!Next, Abstract!Complete, Abstract!WholeFile, WholeFile
  <2>4. CASE got' = 1 /\ req = "short"
    <3>1. Outcome' = "replied"
      BY <2>1, <2>4 DEF Outcome
    <3>2. QED
      BY <1>0, <2>1, <2>4, <3>1, ShortWritesNothing DEF Abstract!Next, Abstract!Reply
  <2>5. QED
    BY <1>0, <2>2, <2>3, <2>4 DEF TypeOK
<1>4. QED
  BY <1>1, <1>2, <1>3 DEF Process

LEMMA StepImplements ==
  ASSUME IInv, IInv', Next, Sound'
  PROVE  [Abstract!Next]_<<out, Outcome>>
<1>0. TypeOK /\ Sound
  BY SoundBefore DEF IInv
<1>1. CASE Request
  <2>1. Outcome = "running" /\ out' = out
    BY <1>1 DEF Request, Outcome
  <2>2. Outcome' \in {"running", "failed"}
    BY <1>1 DEF Request, Outcome
  <2>3. QED
    BY <2>1, <2>2 DEF Abstract!Next, Abstract!Fail
<1>2. CASE ReceiveGood
  BY <1>0, <1>2, ReadType, ProcessImplements DEF ReceiveGood, ReadPacket, serverVars
<1>3. CASE ReceiveBad
  BY <1>3 DEF ReceiveBad, serverVars, Outcome
<1>4. CASE ReceiveBroken
  BY <1>0, <1>4, ProcessImplements DEF ReceiveBroken, serverVars, TypeOK
<1>5. CASE Server
  <2>1. UNCHANGED <<clientVars, req>>
    BY <1>5 DEF Server, ServerStart, ServerReply, ServerReject, ServerIdleNak,
       ServerAdvance, ServerFinish, ServerDrop, ServerTimeout, ServerNak, ServerAbort,
       serverVars
  <2>2. QED
    BY <2>1 DEF clientVars, Outcome
<1>6. CASE Line
  <2>1. UNCHANGED <<out, got, ret, req>> /\ (pc' = pc \/ (pc = "get" /\ pc' = "wedged"))
    BY <1>6 DEF Line, LoseToClient, LoseToServer, CorruptToClient, Break, clientVars, serverVars
  <2>2. QED
    BY <2>1 DEF Outcome
<1>7. ~GiveUp
  BY DEF GiveUp, Sound
<1>8. QED
  BY <1>1, <1>2, <1>3, <1>4, <1>5, <1>6, <1>7 DEF Next, Client

\* The protocol implements the transfer its caller relies on: it starts as one,
\* and every step is a step of the transfer or a stutter, up to the first packet
\* given up or transfer abandoned.
THEOREM RefinementTheorem == Spec => Abstract!Init /\ StepsImplement
<1>1. Init => Abstract!Init
  BY DEF Init, Abstract!Init, Outcome
<1>2. IInv /\ IInv' /\ [Next]_vars => [Sound' => [Abstract!Next]_<<out, Outcome>>]_vars
  BY StepImplements
<1>3. QED
  BY <1>1, <1>2, Invariance, PTL DEF Spec, StepsImplement

\* A behaviour without such a failure is a behaviour of the transfer.
THEOREM TransferTheorem == Spec /\ []Sound => ImplementsTransfer
<1>1. Init => Abstract!Init
  BY DEF Init, Abstract!Init, Outcome
<1>2. IInv /\ IInv' /\ [Next]_vars /\ Sound' => [Abstract!Next]_Abstract!vars
  <2>1. UNCHANGED vars => UNCHANGED <<out, Outcome>>
    BY DEF vars, clientVars, serverVars, Outcome
  <2>2. QED
    BY <2>1, StepImplements DEF Abstract!vars
<1>3. QED
  BY <1>1, <1>2, Invariance, PTL DEF Spec, ImplementsTransfer, Abstract!Spec

=============================================================================
