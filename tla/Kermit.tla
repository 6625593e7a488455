------------------------------- MODULE Kermit -------------------------------
(***************************************************************************)
(* matkermit/kermit.c: one kermit_req against an HP calculator in server   *)
(* mode, over a serial line that can lose, corrupt and cut off packets.    *)
(*                                                                         *)
(* The client is the code: kermit_send, kermit_recv, kermit_get and        *)
(* kermit_req, with the packet buffer they share and the global sequence   *)
(* number.  The calculator and the line are external.  The calculator is   *)
(* a stop-and-wait Kermit sender: it sends packet spos, waits for the ACK  *)
(* that carries its sequence number, sends it again on a timeout or a NAK, *)
(* refuses a request that comes too early, and repeats a NAK while idle.   *)
(*                                                                         *)
(* A packet of the file is known by its position: 0 is the send-init,      *)
(* 1 the header, 2..NData+1 the data, then end of file and end of          *)
(* transmission.  The client sees only type, sequence number and data; the *)
(* field pos, like acc and gaveup, is history that no action reads.        *)
(***************************************************************************)
EXTENDS Integers, Sequences

CONSTANTS NData,        \* data packets of the requested file
          SeqMod,       \* sequence numbers are taken modulo this: 64
          RetryMax,     \* RETRY_MAX: bad packets answered by a NAK in one kermit_recv
          LinkCap,      \* packets in flight beyond which no timer fires (bound)
          MaxCorrupt,   \* packets the line may corrupt (bound of the model)
          MaxAborts,    \* transfers the calculator may abandon (bound of the model)
          MayOverRead,  \* may a read take packets behind the one it completes?
          MayLoseAck,   \* may the line lose an ACK of the client?
          MayBreak      \* may the line go down?

ASSUME KermitAssumption ==
  /\ NData \in Nat
  /\ SeqMod \in Nat /\ SeqMod >= 2
  /\ RetryMax \in Nat
  /\ LinkCap \in Nat \ {0}
  /\ MaxCorrupt \in Nat
  /\ MaxAborts \in Nat
  /\ MayOverRead \in BOOLEAN
  /\ MayLoseAck \in BOOLEAN
  /\ MayBreak \in BOOLEAN

VARIABLES
  pc,        \* "send": about to send the request, "get": in kermit_get,
             \* "wedged": in the read loop of a packet cut short, "done"
  kpkt,      \* kpacket: the one buffer kermit_send and kermit_recv share
  kseq,      \* the global sequence number
  lastseq,   \* kermit_get's lastseq, -1 before the first packet
  nretry,    \* kermit_recv's nretry
  out,       \* the chunks kermit_decode wrote to dst
  got,       \* what kermit_get returned last, 0 before it did
  ret,       \* what kermit_req returned, 0 before it did
  acc,       \* history: position of the last packet kermit_get accepted
  gaveup,    \* history: kermit_recv has returned -2
  srv,       \* the calculator: "idle", "sending" or "done"
  spos,      \* position it is sending, -1 when idle
  req,       \* what was asked: a "file", or a command with a "short" reply
  naborts,   \* transfers it has abandoned
  line,      \* "up" or "down"
  s2c, c2s,  \* packets in flight to the client and to the calculator
  ncorrupt   \* packets corrupted so far

clientVars == <<pc, kpkt, kseq, lastseq, nretry, out, got, ret, acc, gaveup>>
serverVars == <<srv, spos, req, naborts>>
vars == <<clientVars, serverVars, line, s2c, c2s, ncorrupt>>

-----------------------------------------------------------------------------
(* Packets *)

\* F stands for KPACKET_TYPE_FILE, TEXT and ATTR, which kermit_get treats alike.
FileTypes == {"S", "F", "D", "Z", "B"}
Types == FileTypes \union {"E", "N", "Y", "R"}

Last == NData + 3                        \* position of the end of transmission
Garbage == NData + 1                     \* the data of a corrupt packet

Packet(type, seq, data, pos) ==
  [type |-> type, seq |-> seq, data |-> data, pos |-> pos, ok |-> TRUE]

Packets == [type : Types, seq : 0..SeqMod-1, data : 0..Garbage,
            pos : -1..Last, ok : BOOLEAN]

TypeAt(p) == CASE p = 0        -> "S"
               [] p = 1        -> "F"
               [] p = Last     -> "B"
               [] p = Last - 1 -> "Z"
               [] OTHER        -> "D"

DataAt(p) == IF TypeAt(p) = "D" THEN p - 1 ELSE 0

\* The number of data packets among the positions up to p.
Chunks(p) == IF p < 2 THEN 0 ELSE IF p > NData + 1 THEN NData ELSE p - 1

SeqAt(p) == p % SeqMod

FilePacket(p) == Packet(TypeAt(p), SeqAt(p), DataAt(p), p)
IdleNak == Packet("N", 0, 0, -1)
ShortReply == Packet("Y", 0, 0, -1)

\* What kermit_recv leaves in the buffer when it gives up: the type, the
\* sequence number and the data of a packet whose checksum is wrong.
GarbagePackets == {Packet(t, q, Garbage, -1) : t \in Types, q \in 0..SeqMod-1}

TypeOK ==
  /\ pc \in {"send", "get", "wedged", "done"}
  /\ kpkt \in Packets
  /\ kseq \in 0..SeqMod-1
  /\ lastseq \in -1..SeqMod-1
  /\ nretry \in 0..RetryMax
  /\ out \in Seq(0..Garbage)
  /\ got \in {-2, -1, 0, 1}
  /\ ret \in {-1, 0, 1}
  /\ acc \in -1..Last
  /\ gaveup \in BOOLEAN
  /\ srv \in {"idle", "sending", "done"}
  /\ spos \in -1..Last /\ (srv = "idle") = (spos = -1)
  /\ req \in {"file", "short"}
  /\ naborts \in 0..MaxAborts
  /\ line \in {"up", "down"}
  /\ s2c \in Seq(Packets)
  /\ c2s \in Seq(Packets)
  /\ ncorrupt \in 0..MaxCorrupt

Init ==
  /\ pc = "send"
  /\ kpkt = Packet("R", 0, 0, -1)
  /\ kseq = 0 /\ lastseq = -1 /\ nretry = 0
  /\ out = <<>> /\ got = 0 /\ ret = 0
  /\ acc = -1 /\ gaveup = FALSE
  /\ srv = "idle" /\ spos = -1 /\ req \in {"file", "short"} /\ naborts = 0
  /\ line = "up" /\ s2c = <<>> /\ c2s = <<>> /\ ncorrupt = 0

-----------------------------------------------------------------------------
(* The client *)

Put(chan, p) == IF line = "up" THEN Append(chan, p) ELSE chan

\* kermit_send: the packet is built in the shared buffer and written out;
\* on a line that is down the write fails but the buffer is overwritten.
Send(type, seq) ==
  /\ kpkt' = Packet(type, seq, 0, acc')
  /\ c2s' = Put(c2s, kpkt')

\* One turn of kermit_req's loop: send the request and enter kermit_get.
Request ==
  /\ pc = "send"
  /\ acc' = IF line = "up" THEN -1 ELSE acc
  /\ Send("R", kseq)
  /\ lastseq' = -1 /\ nretry' = 0
  /\ IF line = "up"
       THEN pc' = "get" /\ ret' = ret
       ELSE pc' = "done" /\ ret' = -1
  /\ UNCHANGED <<kseq, out, got, gaveup, serverVars, line, s2c, ncorrupt>>

\* Seeded bug: kermit_get without its duplicate test.
NeverDuplicate(p) == FALSE

\* kermit_get's test for a packet that was sent twice.
Duplicate(p) == lastseq = p.seq

\* The duplicate is dropped, and it is not acknowledged again.
SkipDuplicate(p, seq) ==
  /\ Duplicate(p)
  /\ kpkt' = p
  /\ kseq' = seq
  /\ UNCHANGED <<pc, lastseq, out, got, ret, acc, c2s>>

Accept(p) ==
  /\ ~Duplicate(p)
  /\ lastseq' = p.seq
  /\ acc' = IF p.pos >= 0 THEN p.pos ELSE acc

TakeData(p, seq) ==
  /\ p.type = "D" /\ Accept(p)
  /\ out' = Append(out, p.data)
  /\ kseq' = seq
  /\ Send("Y", seq)
  /\ UNCHANGED <<pc, got, ret>>

\* Seeded bug: control packets are not acknowledged.
TakeControlSilently(p, seq) ==
  /\ p.type \notin {"D", "B", "E", "N", "Y"} /\ Accept(p)
  /\ kpkt' = p
  /\ kseq' = IF p.type = "S" THEN 0 ELSE seq
  /\ UNCHANGED <<pc, out, got, ret, c2s>>

\* Send-init (which resets kseq), headers, end of file and unknown types.
TakeControl(p, seq) ==
  /\ p.type \notin {"D", "B", "E", "N", "Y"} /\ Accept(p)
  /\ kseq' = IF p.type = "S" THEN 0 ELSE seq
  /\ Send("Y", kseq')
  /\ UNCHANGED <<pc, out, got, ret>>

\* End of transmission: acknowledge it, kermit_get and kermit_req return 1.
TakeEnd(p, seq) ==
  /\ p.type = "B" /\ Accept(p)
  /\ kseq' = seq
  /\ Send("Y", seq)
  /\ pc' = "done" /\ got' = 1 /\ ret' = 1
  /\ UNCHANGED out

\* An ACK ends the request with 1; an error packet ends kermit_get with -2,
\* which kermit_req turns into 1 as well.
TakeFinal(p, seq) ==
  /\ p.type \in {"E", "Y"} /\ Accept(p)
  /\ kpkt' = p
  /\ kseq' = seq
  /\ pc' = "done" /\ ret' = 1
  /\ got' = IF p.type = "E" THEN -2 ELSE 1
  /\ UNCHANGED <<out, c2s>>

\* A NAK makes kermit_get return -1 and kermit_req send the request again.
TakeNak(p, seq) ==
  /\ p.type = "N" /\ Accept(p)
  /\ kpkt' = p
  /\ kseq' = seq
  /\ pc' = "send" /\ got' = -1
  /\ UNCHANGED <<out, ret, c2s>>

\* kermit_get's loop body once kermit_recv has returned, whatever it returned.
Process(p, seq) ==
  /\ nretry' = 0
  /\ \/ SkipDuplicate(p, seq)
     \/ TakeData(p, seq)
     \/ TakeControl(p, seq)
     \/ TakeEnd(p, seq)
     \/ TakeFinal(p, seq)
     \/ TakeNak(p, seq)

\* The reads of kermit_recv take the first packet; the second read asks for
\* as much as the buffer holds, so the packets behind it may go with it.
ReadPacket ==
  /\ pc = "get" /\ line = "up"
  /\ s2c # <<>>
  /\ \E last \in 1..(IF MayOverRead THEN Len(s2c) ELSE 1) :
       s2c' = SubSeq(s2c, last + 1, Len(s2c))

\* Seeded bug: the checksum test accepts every packet.
AnyChecksum(p) == TRUE

\* kermit_recv's checksum test.
ChecksumOK(p) == p.ok

\* kermit_recv returns a packet and takes its sequence number for kseq.
ReceiveGood ==
  /\ ReadPacket
  /\ ChecksumOK(Head(s2c))
  /\ Process(Head(s2c), Head(s2c).seq)
  /\ UNCHANGED <<gaveup, serverVars, line, ncorrupt>>

\* Seeded bug: one retry too many.
RetriesLeftOffByOne == nretry <= RetryMax

\* kermit_recv may still ask for the packet again.
RetriesLeft == nretry < RetryMax

\* Seeded bug: after a bad checksum the whole request is sent again.
BadRestarts ==
  /\ ReadPacket
  /\ ~ChecksumOK(Head(s2c))
  /\ RetriesLeft
  /\ pc' = "send"
  /\ UNCHANGED <<kpkt, kseq, lastseq, nretry, out, got, ret, acc, gaveup,
                 serverVars, line, c2s, ncorrupt>>

\* A bad checksum: NAK with the old kseq, over the packet just read.
ReceiveBad ==
  /\ ReadPacket
  /\ ~ChecksumOK(Head(s2c))
  /\ RetriesLeft
  /\ nretry' = nretry + 1
  /\ acc' = acc
  /\ Send("N", kseq)
  /\ UNCHANGED <<pc, kseq, lastseq, out, got, ret, gaveup, serverVars, line, ncorrupt>>

\* One bad checksum too many: kermit_recv returns -2, which kermit_get does
\* not notice; it takes what is in the buffer for a packet.
GiveUp ==
  /\ ReadPacket
  /\ ~ChecksumOK(Head(s2c))
  /\ ~RetriesLeft
  /\ \E p \in GarbagePackets : Process(p, kseq)
  /\ gaveup' = TRUE
  /\ UNCHANGED <<serverVars, line, ncorrupt>>

\* On a line that is down kermit_recv returns -1, which kermit_get does not
\* notice either: the packet it sees is the last one sent or received.
ReceiveBroken ==
  /\ pc = "get" /\ line = "down"
  /\ Process(kpkt, kseq)
  /\ UNCHANGED <<gaveup, serverVars, line, s2c, ncorrupt>>

-----------------------------------------------------------------------------
(* The calculator (external) *)

ServerHears(type) == line = "up" /\ c2s # <<>> /\ Head(c2s).type = type

ServerSends(p) == line = "up" /\ s2c' = Append(s2c, p)

\* It sends of its own accord only while there is room in flight; an answer to
\* a packet it heard takes the place of that packet.
Room == Len(s2c) + Len(c2s) < LinkCap

\* It accepts a request for a file and starts the transfer.
ServerStart ==
  /\ srv = "idle" /\ req = "file" /\ ServerHears("R")
  /\ c2s' = Tail(c2s)
  /\ srv' = "sending" /\ spos' = 0
  /\ ServerSends(FilePacket(0))
  /\ UNCHANGED <<clientVars, req, naborts, line, ncorrupt>>

\* It answers a command with a short reply.
ServerReply ==
  /\ srv = "idle" /\ req = "short" /\ ServerHears("R")
  /\ c2s' = Tail(c2s)
  /\ ServerSends(ShortReply)
  /\ UNCHANGED <<clientVars, serverVars, line, ncorrupt>>

\* It refuses a request that follows the last sequence too closely.
ServerReject ==
  /\ srv = "idle" /\ ServerHears("R")
  /\ c2s' = Tail(c2s)
  /\ ServerSends(IdleNak)
  /\ UNCHANGED <<clientVars, serverVars, line, ncorrupt>>

\* It repeats a NAK while it waits for a request.
ServerIdleNak ==
  /\ srv = "idle" /\ Room
  /\ ServerSends(IdleNak)
  /\ UNCHANGED <<clientVars, serverVars, line, c2s, ncorrupt>>

\* The ACK of the packet it is sending.
AckOfCurrent == srv = "sending" /\ ServerHears("Y") /\ Head(c2s).seq = SeqAt(spos)

ServerAdvance ==
  /\ AckOfCurrent /\ spos < Last
  /\ c2s' = Tail(c2s)
  /\ spos' = spos + 1
  /\ ServerSends(FilePacket(spos + 1))
  /\ UNCHANGED <<clientVars, srv, req, naborts, line, ncorrupt>>

ServerFinish ==
  /\ AckOfCurrent /\ spos = Last
  /\ c2s' = Tail(c2s)
  /\ srv' = "done"
  /\ UNCHANGED <<clientVars, spos, req, naborts, line, s2c, ncorrupt>>

\* Everything else it hears it may drop.
ServerDrop ==
  /\ line = "up" /\ c2s # <<>>
  /\ ~(srv = "idle" /\ Head(c2s).type = "R")
  /\ ~AckOfCurrent
  /\ c2s' = Tail(c2s)
  /\ UNCHANGED <<clientVars, serverVars, line, s2c, ncorrupt>>

\* It sends the current packet again when its timer runs out ...
ServerTimeout ==
  /\ srv = "sending" /\ Room
  /\ ServerSends(FilePacket(spos))
  /\ UNCHANGED <<clientVars, serverVars, line, c2s, ncorrupt>>

\* ... and possibly on a NAK.
ServerNak ==
  /\ srv = "sending" /\ ServerHears("N")
  /\ c2s' = Tail(c2s)
  /\ ServerSends(FilePacket(spos))
  /\ UNCHANGED <<clientVars, serverVars, line, ncorrupt>>

\* It gives the transfer up with an error packet and is idle again.
ServerAbort ==
  /\ srv = "sending" /\ naborts < MaxAborts
  /\ naborts' = naborts + 1
  /\ srv' = "idle" /\ spos' = -1
  /\ ServerSends(Packet("E", SeqAt(spos), 0, -1))
  /\ UNCHANGED <<clientVars, req, line, c2s, ncorrupt>>

-----------------------------------------------------------------------------
(* The line (external) *)

\* A packet is lost at the head of the queue, when the client is waiting for
\* it: nothing can tell whether it was lost earlier.
LoseToClient ==
  /\ s2c # <<>> /\ pc = "get"
  /\ s2c' = Tail(s2c)
  /\ UNCHANGED <<clientVars, serverVars, line, c2s, ncorrupt>>

LoseToServer ==
  /\ c2s # <<>>
  /\ Head(c2s).type = "Y" => MayLoseAck
  /\ c2s' = Tail(c2s)
  /\ UNCHANGED <<clientVars, serverVars, line, s2c, ncorrupt>>

CorruptToClient ==
  /\ s2c # <<>> /\ Head(s2c).ok
  /\ ncorrupt < MaxCorrupt
  /\ ncorrupt' = ncorrupt + 1
  /\ s2c' = [s2c EXCEPT ![1] = [@ EXCEPT !.ok = FALSE, !.data = Garbage]]
  /\ UNCHANGED <<clientVars, serverVars, line, c2s>>

\* The line goes down.  If the client has read the start of a packet and not
\* its end, its read loop spins on reads that return no byte.
Break ==
  /\ MayBreak /\ line = "up"
  /\ line' = "down"
  /\ s2c' = <<>> /\ c2s' = <<>>
  /\ pc' \in (IF pc = "get" /\ s2c # <<>> THEN {pc, "wedged"} ELSE {pc})
  /\ UNCHANGED <<kpkt, kseq, lastseq, nretry, out, got, ret, acc, gaveup,
                 serverVars, ncorrupt>>

-----------------------------------------------------------------------------
Client == Request \/ ReceiveGood \/ ReceiveBad \/ GiveUp \/ ReceiveBroken

Server == \/ ServerStart \/ ServerReply \/ ServerReject \/ ServerIdleNak
          \/ ServerAdvance \/ ServerFinish \/ ServerDrop
          \/ ServerTimeout \/ ServerNak \/ ServerAbort

Line == LoseToClient \/ LoseToServer \/ CorruptToClient \/ Break

Next == Client \/ Server \/ Line

Spec == Init /\ [][Next]_vars

\* The client runs; the calculator reads what it is sent and its timers run
\* out; a packet that is sent again and again gets through in the end.
Receive(types) == ReceiveGood /\ Head(s2c).type \in types

Fairness ==
  /\ WF_vars(Request) /\ WF_vars(ReceiveBad) /\ WF_vars(ReceiveBroken)
  /\ SF_vars(Receive(FileTypes)) /\ SF_vars(Receive({"Y"})) /\ SF_vars(Receive({"N"}))
  /\ SF_vars(ServerStart) /\ SF_vars(ServerReply)
  /\ SF_vars(ServerAdvance) /\ WF_vars(ServerDrop)
  /\ WF_vars(ServerTimeout) /\ WF_vars(ServerIdleNak)

FairSpec == Spec /\ Fairness
-----------------------------------------------------------------------------
(* Properties *)

WholeFile == [i \in 1..NData |-> i]

\* What the client relies on: kermit_recv never gave up on a packet and the
\* calculator never abandoned a transfer.  Loss, repeats, corruption that the
\* checksum catches, over-reading and a line that breaks are all allowed.
Sound == ~gaveup /\ naborts = 0

\* The output is a prefix of the file: no chunk is missing, repeated, out of
\* order or garbage, although kermit_get knows a repeat only by comparing one
\* sequence number, kept modulo 64, with the packet before.
OutIsPrefix == Sound => Len(out) <= NData /\ \A i \in 1..Len(out) : out[i] = i

\* Nothing is acknowledged before it is written: once the calculator has moved
\* past a data packet its chunk is in the output, and once it holds the
\* transfer for finished the client has the whole file and has ended.
AckedIsWritten ==
  Sound => /\ srv = "sending" => Len(out) >= Chunks(spos - 1)
           /\ srv = "done" => out = WholeFile /\ pc = "done"

\* kermit_get returns 1 for a file only when the file is complete, also when
\* its last ACK is lost or NAKs of the idle calculator were still in flight.
SuccessIsWhole == Sound /\ req = "file" /\ got = 1 => out = WholeFile

\* A NAK the calculator sent before it heard the request never restarts the
\* request once kermit_get has accepted a packet of the file.
NoMidwayRestart ==
  [][Sound' /\ acc >= 0 /\ line = "up" => pc' # "send"]_vars

\* The request ends, and for a file it ends with the whole of it, when no ACK
\* is lost: repeats by the calculator and its idle NAKs make up for the rest.
Completes == <>(pc = "done" /\ got = 1 /\ (req = "file" => out = WholeFile))

\* The request as its caller sees it.
Outcome ==
  IF pc # "done" THEN "running"
  ELSE IF ret # 1 \/ got # 1 THEN "failed"
  ELSE IF req = "file" THEN "complete" ELSE "replied"

Abstract == INSTANCE KermitTransfer WITH outcome <- Outcome

\* The client implements the transfer of module KermitTransfer, when it does not
\* give up on a packet and the calculator does not abandon the transfer.
ImplementsTransfer == Abstract!Spec

\* The same step by step, up to the first such failure: whatever is lost,
\* repeated, swallowed or cut off, a step of the protocol is a step of the
\* transfer or changes nothing that its caller sees.
StepsImplement == [][Sound' => [Abstract!Next]_<<out, Outcome>>]_vars

=============================================================================
