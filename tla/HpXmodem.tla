------------------------------ MODULE HpXmodem ------------------------------
(***************************************************************************)
(* matkermit/xmodem.c: hpxm_get, which fetches a file from an HP           *)
(* calculator in XSERV mode, with the hpxm_creq and pollread it uses.      *)
(*                                                                         *)
(* The line carries bytes, not packets, and the client finds the blocks by *)
(* counting: a block is 133 bytes, a pause of POLL_DELAY ends a read.  A   *)
(* block is scaled down to four cells: start, block number, complement of  *)
(* the number, and one cell for the 128 data bytes with their CRC.         *)
(* Acknowledgements carry no number.  Every read, every retry and every    *)
(* branch of hpxm_get is here; the calculator and the line are external.   *)
(***************************************************************************)
EXTENDS Integers, Sequences

CONSTANTS NBlocks,      \* blocks of the file
          ByteMod,      \* values of a byte: 256
          Tries,        \* tries and resend_tries: 10
          MaxFaults,    \* cells the line may lose or damage (bound of the model)
          MayBeEarly,   \* may a poll time out while an answer is under way?
          MayHangUp     \* may the port hang up?

ASSUME HpXmodemAssumption ==
  /\ NBlocks \in Nat
  /\ ByteMod \in Nat /\ ByteMod > 21
  /\ Tries \in Nat \ {0}
  /\ MaxFaults \in Nat
  /\ MayBeEarly \in BOOLEAN
  /\ MayHangUp \in BOOLEAN

VARIABLES
  pc,            \* "send", "creq", "get", "spin" in a pollread without end, or "done"
  tries,         \* hpxm_creq's tries
  resend_tries,  \* hpxm_get's resend_tries
  seq,           \* hpxm_get's seq: an int, never reduced to a byte
  out,           \* blocks written to dst, by their place in the file
  len,           \* bytes hpxm_get counted, in blocks
  ret,           \* what it returned: "none", "fail", "len"
  inp,           \* cells that have arrived and are not read yet
  wire,          \* cells under way to the client
  c2s,           \* bytes under way to the calculator
  srv,           \* the calculator: "idle", "ready", "sending", "eot", "done"
  spos,          \* block it is sending
  faults,        \* cells lost or damaged so far
  hung,          \* has the port hung up?
  early,         \* history: a poll timed out too early
  misread        \* history: data bytes were taken for an EOT, a cancel or a header

clientVars == <<pc, tries, resend_tries, seq, out, len, ret>>
serverVars == <<srv, spos>>
history == <<early, misread>>
vars == <<clientVars, serverVars, inp, wire, c2s, faults, hung, history>>

-----------------------------------------------------------------------------
(* Bytes and blocks *)

SOH == 1
EOT == 4
ACK == 6
CANCEL == 21            \* 0x15, which hpxm_get takes for a cancel

BlockLen == 4           \* 133 bytes
Damaged == ByteMod      \* a byte that is not what was sent
BadData == ByteMod + 1  \* data that do not fit their CRC
Data(n) == BadData + n  \* the data of block n with its CRC
HoldsData(cell) == cell >= BadData

Number(n) == n % ByteMod
Complement(b) == ByteMod - 1 - b

Block(n) == <<SOH, Number(n), Complement(Number(n)), Data(n)>>

Cells == 0..Data(NBlocks)
ClientBytes == {"G", "D", "ack", "can"}

TypeOK ==
  /\ pc \in {"send", "creq", "get", "spin", "done"}
  /\ tries \in 0..Tries /\ resend_tries \in 0..Tries
  /\ seq \in Nat \ {0}
  /\ out \in Seq(1..NBlocks) /\ len \in Nat
  /\ ret \in {"none", "fail", "len"}
  /\ inp \in Seq(Cells) /\ wire \in Seq(Cells) /\ c2s \in Seq(ClientBytes)
  /\ srv \in {"idle", "ready", "sending", "eot", "done"}
  /\ spos \in 0..NBlocks
  /\ faults \in 0..MaxFaults /\ hung \in BOOLEAN
  /\ early \in BOOLEAN /\ misread \in BOOLEAN

Init ==
  /\ pc = "send" /\ tries = Tries /\ resend_tries = Tries
  /\ seq = 1 /\ out = <<>> /\ len = 0 /\ ret = "none"
  /\ inp = <<>> /\ wire = <<>> /\ c2s = <<>>
  /\ srv = "idle" /\ spos = 0
  /\ faults = 0 /\ hung = FALSE /\ early = FALSE /\ misread = FALSE

-----------------------------------------------------------------------------
(* The client *)

Write(b) == c2s' = Append(c2s, b)

\* A poll times out when nothing more has arrived.  That is early when an
\* answer, or something the calculator will answer, is still under way.
UnderWay == wire # <<>> \/ c2s # <<>>
TimesOut == /\ ~hung
            /\ UnderWay => MayBeEarly
            /\ early' = (early \/ UnderWay)

\* On a port that hung up every poll succeeds and every read returns 0 or -1,
\* which pollread adds to pos: its loop goes on for ever.
PollSpins ==
  /\ hung /\ pc \in {"creq", "get"}
  /\ pc' = "spin"
  /\ UNCHANGED <<tries, resend_tries, seq, out, len, ret, serverVars, inp, wire, c2s, faults, hung, history>>

\* hpxm_creq sends its command ...
SendCommand ==
  /\ pc = "send"
  /\ Write("G")
  /\ pc' = "creq"
  /\ UNCHANGED <<tries, resend_tries, seq, out, len, ret, serverVars, inp, wire, faults, hung, history>>

\* ... and reads bytes until one is an ACK; hpxm_get then asks for data.
ReadAck ==
  /\ pc = "creq" /\ inp # <<>> /\ ~hung
  /\ inp' = Tail(inp)
  /\ IF Head(inp) = ACK
       THEN pc' = "get" /\ Write("D")
       ELSE UNCHANGED <<pc, c2s>>
  /\ UNCHANGED <<tries, resend_tries, seq, out, len, ret, serverVars, wire, faults, hung, history>>

TriesLeft(n) == n > 0

NoAck ==
  /\ pc = "creq" /\ inp = <<>>
  /\ TimesOut
  /\ tries' = tries - 1
  /\ IF TriesLeft(tries') THEN pc' = "send" /\ ret' = ret
                   ELSE pc' = "done" /\ ret' = "fail"
  /\ UNCHANGED <<resend_tries, seq, out, len, serverVars, inp, wire, c2s, faults, hung, misread>>

\* pollread returned no byte: ask again, a limited number of times.
NoData ==
  /\ pc = "get" /\ inp = <<>>
  /\ TimesOut
  /\ resend_tries' = resend_tries - 1
  /\ IF TriesLeft(resend_tries')
       THEN Write("D") /\ UNCHANGED <<pc, ret>>
       ELSE pc' = "done" /\ ret' = "fail" /\ UNCHANGED c2s
  /\ UNCHANGED <<tries, seq, out, len, serverVars, inp, wire, faults, hung, misread>>

\* pollread returned less than a block.
ShortRead ==
  /\ pc = "get" /\ inp # <<>> /\ Len(inp) < BlockLen
  /\ TimesOut
  /\ inp' = <<>>

\* What a cell of a short read may look like: data bytes can hold any value.
LooksLike(cell, byte) == cell = byte \/ cell >= ByteMod

\* The first EOT or cancel of a short read decides.
Finds(byte, other) ==
  \E i \in 1..Len(inp) : /\ LooksLike(inp[i], byte)
                         /\ \A j \in 1..i-1 : inp[j] # byte /\ inp[j] # other

\* More than a lone EOT: some of it was meant to be a block.
Fragment == inp # <<EOT>>

ShortEOT ==
  /\ ShortRead
  /\ Finds(EOT, CANCEL)
  /\ misread' = (misread \/ Fragment)
  /\ Write("ack")
  /\ pc' = "done" /\ ret' = "len"
  /\ UNCHANGED <<tries, resend_tries, seq, out, len, serverVars, wire, faults, hung>>

ShortCancel ==
  /\ ShortRead
  /\ Finds(CANCEL, EOT)
  /\ misread' = TRUE
  /\ pc' = "done" /\ ret' = "fail"
  /\ UNCHANGED <<tries, resend_tries, seq, out, len, serverVars, wire, c2s, faults, hung>>

\* Seeded bug: the fragment is kept, to be completed by the next read.
ShortOtherKept ==
  /\ pc = "get" /\ inp # <<>> /\ Len(inp) < BlockLen
  /\ TimesOut
  /\ \A i \in 1..Len(inp) : inp[i] \notin {EOT, CANCEL}
  /\ UNCHANGED <<clientVars, serverVars, inp, wire, c2s, faults, hung, misread>>

\* Neither: the fragment is dropped and the loop reads on.
ShortOther ==
  /\ ShortRead
  /\ \A i \in 1..Len(inp) : inp[i] \notin {EOT, CANCEL}
  /\ UNCHANGED <<clientVars, serverVars, wire, c2s, faults, hung, misread>>

\* pollread returned as many bytes as a block has.
FullRead ==
  /\ pc = "get" /\ Len(inp) >= BlockLen /\ ~hung
  /\ inp' = SubSeq(inp, BlockLen + 1, Len(inp))
  /\ UNCHANGED <<tries, resend_tries, serverVars, wire, faults, hung, early>>

\* After a lost byte, data can stand where the header is expected; the start
\* byte itself is not looked at.
Misplaced == \E i \in 1..3 : HoldsData(inp[i])

\* The block numbers a header may show, none when it does not match its
\* complement.  Damage never matches; misplaced data can look like any number.
Numbers ==
  IF Misplaced THEN {seq - 1, seq, seq + 1}
               ELSE {n \in {inp[2]} : n = Complement(inp[3])}

\* The header matches its complement and shows number n.
Shows(n) ==
  /\ n \in Numbers
  /\ misread' = (misread \/ Misplaced)

BadHeader ==
  /\ FullRead
  /\ Misplaced \/ Numbers = {}
  /\ Write("D")
  /\ UNCHANGED <<pc, seq, out, len, ret, misread>>

LostBlock ==
  /\ FullRead
  /\ \E n \in Numbers : Shows(n) /\ n > seq
  /\ c2s' = c2s \o <<"can", "can", "can">>
  /\ pc' = "done" /\ ret' = "fail"
  /\ UNCHANGED <<seq, out, len>>

\* Seeded bug: the block that is due counts as an old one.
OldOrDue(n) == n <= seq

Old(n) == n < seq

\* A block that was written before: acknowledge it again.
OldBlock ==
  /\ FullRead
  /\ \E n \in Numbers : Shows(n) /\ Old(n)
  /\ Write("ack")
  /\ UNCHANGED <<pc, seq, out, len, ret>>

\* Data in place of the header leave no room for a whole block behind them.
CRCOK == ~Misplaced /\ inp[4] > BadData

\* Seeded bug: a block that is due is acknowledged whatever its CRC says.
BadCRCAcked ==
  /\ FullRead
  /\ Shows(seq)
  /\ ~CRCOK
  /\ Write("ack")
  /\ UNCHANGED <<pc, seq, out, len, ret>>

BadCRC ==
  /\ FullRead
  /\ Shows(seq)
  /\ ~CRCOK
  /\ Write("D")
  /\ UNCHANGED <<pc, seq, out, len, ret>>

GoodBlock ==
  /\ FullRead
  /\ Shows(seq)
  /\ CRCOK
  /\ out' = Append(out, inp[4] - BadData)
  /\ len' = len + 1
  /\ seq' = seq + 1
  /\ Write("ack")
  /\ UNCHANGED <<pc, ret>>

-----------------------------------------------------------------------------
(* The calculator (external) *)

Hears(b) == ~hung /\ c2s # <<>> /\ Head(c2s) = b /\ c2s' = Tail(c2s)
Emit(cells) == wire' = wire \o cells

Answer == IF spos' = 0 \/ srv' = "eot" THEN <<EOT>> ELSE Block(spos')

\* It acknowledges the command, again when the command comes again.
ServerCommand ==
  /\ Hears("G")
  /\ srv \in {"idle", "ready"}
  /\ srv' = "ready" /\ spos' = 0
  /\ Emit(<<ACK>>)
  /\ UNCHANGED <<clientVars, inp, faults, hung, history>>

\* D asks for the block it is at.
ServerData ==
  /\ Hears("D")
  /\ srv \in {"ready", "sending", "eot"}
  /\ spos' = IF srv = "ready" /\ NBlocks > 0 THEN 1 ELSE spos
  /\ srv' = IF spos' = 0 \/ srv = "eot" THEN "eot" ELSE "sending"
  /\ Emit(Answer)
  /\ UNCHANGED <<clientVars, inp, faults, hung, history>>

\* Any ACK moves it on: it cannot tell which block is meant.
ServerAck ==
  /\ Hears("ack")
  /\ srv = "sending"
  /\ IF spos < NBlocks THEN spos' = spos + 1 /\ srv' = srv
                       ELSE spos' = spos /\ srv' = "eot"
  /\ Emit(Answer)
  /\ UNCHANGED <<clientVars, inp, faults, hung, history>>

ServerEnd ==
  /\ \/ Hears("ack") /\ srv = "eot"
     \/ Hears("can")
  /\ srv' = "done"
  /\ UNCHANGED <<clientVars, spos, inp, wire, faults, hung, history>>

ServerDrop ==
  /\ \/ Hears("G") /\ srv \notin {"idle", "ready"}
     \/ Hears("D") /\ srv \notin {"ready", "sending", "eot"}
     \/ Hears("ack") /\ srv \notin {"sending", "eot"}
  /\ UNCHANGED <<clientVars, serverVars, inp, wire, faults, hung, history>>

-----------------------------------------------------------------------------
(* The line (external) *)

\* What is under way arrives, at once or with a pause in the middle.
Deliver ==
  /\ wire # <<>> /\ ~hung
  /\ \E n \in 1..Len(wire) :
       /\ inp' = inp \o SubSeq(wire, 1, n)
       /\ wire' = SubSeq(wire, n + 1, Len(wire))
  /\ UNCHANGED <<clientVars, serverVars, c2s, faults, hung, history>>

LoseCell ==
  /\ wire # <<>> /\ ~hung /\ faults < MaxFaults
  /\ wire' = Tail(wire)
  /\ faults' = faults + 1
  /\ UNCHANGED <<clientVars, serverVars, inp, c2s, hung, history>>

DamageCell ==
  /\ wire # <<>> /\ ~hung /\ faults < MaxFaults
  /\ inp' = Append(inp, IF HoldsData(Head(wire)) THEN BadData ELSE Damaged)
  /\ wire' = Tail(wire)
  /\ faults' = faults + 1
  /\ UNCHANGED <<clientVars, serverVars, c2s, hung, history>>

LoseByte ==
  /\ c2s # <<>> /\ ~hung /\ faults < MaxFaults
  /\ c2s' = Tail(c2s)
  /\ faults' = faults + 1
  /\ UNCHANGED <<clientVars, serverVars, inp, wire, hung, history>>

\* The port hangs up: what is under way stays where it is.
HangUp ==
  /\ MayHangUp /\ ~hung
  /\ hung' = TRUE
  /\ UNCHANGED <<clientVars, serverVars, inp, wire, c2s, faults, history>>

-----------------------------------------------------------------------------
Client == \/ PollSpins \/ SendCommand \/ ReadAck \/ NoAck \/ NoData
          \/ ShortEOT \/ ShortCancel \/ ShortOther
          \/ BadHeader \/ LostBlock \/ OldBlock \/ BadCRC \/ GoodBlock

Server == ServerCommand \/ ServerData \/ ServerAck \/ ServerEnd \/ ServerDrop

Line == Deliver \/ LoseCell \/ DamageCell \/ LoseByte \/ HangUp

Next == Client \/ Server \/ Line

Spec == Init /\ [][Next]_vars

\* The client runs, the calculator answers, what is under way arrives.
FairSpec == Spec /\ WF_vars(Client) /\ WF_vars(Server) /\ WF_vars(Deliver)

-----------------------------------------------------------------------------
(* Properties *)

WholeFile == [i \in 1..NBlocks |-> i]

\* The output is a prefix of the file: numbering and CRC keep repeats, gaps and
\* damage out.
OutIsPrefix ==
  /\ Len(out) <= NBlocks
  /\ \A i \in 1..Len(out) : out[i] = i
  /\ len = Len(out)

\* The CRC does not cover the number.  The two stay together as long as the line
\* spoils less than a block, and a number can be told from a complement.
Tellable == MaxFaults < BlockLen /\ 2 * NBlocks + 7 < ByteMod

\* Without early timeouts the calculator never runs ahead: a block it has
\* moved past is in the output, although ACKs carry no number.
NeverAhead ==
  /\ srv = "sending" => Len(out) >= spos - 1
  /\ srv = "eot" => out = WholeFile

\* The output is a prefix of the file, however the polls time out where numbers
\* and data stay together (Tellable).  A transfer that hpxm_get reports as
\* finished is complete, and the output is never behind what the calculator was
\* told, provided that no poll timed out while an answer was under way (two ACKs
\* for one block make the calculator skip a block), no fragment was misread as an
\* EOT, the blocks can be numbered by a byte, and the line cannot take from a
\* block all but one byte, which may look like a lone EOT.
SuccessIsWhole ==
  /\ TypeOK
  /\ ~early \/ Tellable => OutIsPrefix
  /\ ~early /\ ~misread /\ NBlocks < ByteMod /\ MaxFaults < BlockLen - 1 =>
       NeverAhead /\ (ret = "len" => out = WholeFile)

\* hpxm_get gives up as "lost packet" only after an early timeout, or when it
\* has lost its place in the blocks.
LostOnlyIfEarly ==
  [][LostBlock => early \/ misread']_vars

\* The transfer ends although a block with a bad header or a bad CRC is asked
\* for again without a limit: each such read takes bytes off the line, and when
\* no poll times out early the pause after them puts the reads back in place.  It
\* does not end on a port that hung up: there the client spins in pollread.
Ends == []~early => <>(pc = "done" \/ (hung /\ pc = "spin"))
=============================================================================
