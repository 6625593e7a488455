-------------------------------- MODULE MatPic --------------------------------
(***************************************************************************)
(* matpic: the two-pass assembler (as.c), its labels (misc.c), the Intel   *)
(* hex it writes and reads (ihex.c) and the disassembler (dis.c), as       *)
(* `matpic -t -r` runs them, and then the assembler again on the listing.  *)
(*                                                                         *)
(* A line of the program is [lbl, op, args]; a label is <<>> or <<dots,    *)
(* name>>.  An argument is <<"str", bytes>> or <<"expr", e>>, e being what *)
(* MatPicExpr says.  Indices of labels and entries start at 1, so 0 stands *)
(* for -1 or a null pointer.  Line numbers and messages are left out.      *)
(***************************************************************************)
EXTENDS Integers, SequencesExt

CONSTANTS
  Programs,   \* programs, as records [arch, lines]
  SegLen,     \* addresses of a segment of the hex file: 65536
  IHLL,       \* bytes of a line of the hex file: 16
  Arch,       \* instruction sets, by name: the table of opcodes, the bits of a word
  Arity(_, _),            \* numbers of arguments acmp takes, of a set and a type
  Opcode(_, _, _, _),     \* acmp of a set: opcode of a row, arguments, address
  Operands(_, _, _),      \* adis of a set: the arguments in an opcode
  Mask(_, _),             \* the bits two bytes have both
  Value(_, _),            \* numarg: what an argument is worth, <<>> or <<n>>
  Values(_, _)            \* getargs: of arguments, all there or not (ok, v)

Align == 2     \* of the architectures; a byte's place in its word is the other one's
Sizes == [db |-> 1, dw |-> 2, dd |-> 4, data |-> Align]
Directives == DOMAIN Sizes \cup {"arch", "org", "equ", "file", "expands", "endfile", "endexp", ""}

\* What the scanner hands over: lines, and data with a list of arguments.
IsSeq(s) == s \in Seq(Range(s))
Bytes == 0..255
WellFormed(lines) ==
  /\ IsSeq(lines)
  /\ \A i \in DOMAIN lines :
       /\ lines[i].lbl = <<>> \/ lines[i].lbl[1] \in Nat
       /\ lines[i].op \in DOMAIN Sizes =>
            /\ IsSeq(lines[i].args)
            /\ \A j \in DOMAIN lines[i].args :
                 lines[i].args[j][1] = "str" => lines[i].args[j][2] \in Seq(Bytes)

ASSUME MatPicAssumption ==
  /\ SegLen \in Nat \ {0} /\ IHLL \in Nat \ {0}
  /\ \A p \in Programs : p.arch \in DOMAIN Arch /\ WellFormed(p.lines)

\* A table has instructions of one word or two, and none named like a directive.
ASSUME ArchAssumption ==
  \A arch \in DOMAIN Arch :
    /\ IsSeq(Arch[arch].ocs)
    /\ \A i \in DOMAIN Arch[arch].ocs :
         LET row == Arch[arch].ocs[i]
         IN Len(row.oc) \in {2, 4} /\ row.name \notin Directives

VARIABLES
  phase,      \* "pass1" "pass2" "write" "line" "read" "dis" "done", "error", "crash"
  prog, line, \* the program, and the next line of the first pass
  asm,        \* the assembler's globals
  pc,         \* next of inss, in the second pass and in ihex_write
  map, mapitem,       \* second pass: areas before the last org, and this one
  hex, top, wbuf,     \* the hex file, the upper half of its addresses; bufp of ihex_write
  rd, dsym, inbuf,    \* next line to read; the areas read and their bytes
  sym, off, list,     \* disassembler: area, place in it; the listing
  round, first,       \* 2 when the listing is assembled; of round 1, lines, bytes, Cut
  image, clash        \* history: bytes by address; one was assembled twice

hexVars == <<hex, top, wbuf>>
readVars == <<rd, dsym, inbuf>>
disVars == <<sym, off, list>>
roundVars == <<round, first>>
pass2Vars == <<pc, map, mapitem, image, clash>>
vars == <<phase, prog, line, asm, pass2Vars, hexVars, readVars, disVars, roundVars>>

Swap(i) == IF i % 2 = 0 THEN i + 1 ELSE i - 1
Byte(n, k) == (n \div 256^k) % 256     \* of ntt(n)
Smaller(m, n) == IF m <= n THEN m ELSE n
Larger(m, n) == IF m <= n THEN n ELSE m
-----------------------------------------------------------------------------
(* misc.c: the label an identifier names.                                  *)

\* Mutant: the labels still to come are looked at too.
ScopeOfAll(a, i) ==
  Max({0} \cup {j \in DOMAIN a.labels : a.labels[j].local < a.labels[i].local})

\* j: the last label so far that is less local than label i, which is whose
\* locals are in scope.
ScopeOf(a, i) == Max({0} \cup {j \in 1..a.llbl : a.labels[j].local < a.labels[i].local})
InScope(a, i) == a.labels[i].parent = ScopeOf(a, i)

Simple(a, path) ==
  {i \in DOMAIN a.labels : /\ Len(path) = 1 /\ a.labels[i].name = path[1][2]
                           /\ a.labels[i].local = path[1][1] /\ InScope(a, i)}

\* label.locallabel: once the first name is found, the next one is looked for
\* in the labels after it, up to one that is less local; its place is not asked.
\* cmplid goes on to the second name also when the label is of another level or
\* scope, and no label has a name that begins with a dot.
PathStep(a, path, s, i) ==
  IF s.found # 0 \/ s.over THEN s
  ELSE IF s.l # -1 /\ a.labels[i].local < s.l THEN [s EXCEPT !.over = TRUE]
  ELSE IF a.labels[i].name # path[s.k][2] THEN s
  ELSE IF s.l = -1 /\ (a.labels[i].local # path[1][1] \/ ~InScope(a, i))
       THEN IF Len(path) = 1 THEN s ELSE [s EXCEPT !.over = TRUE]
  ELSE IF s.k < Len(path) THEN [s EXCEPT !.k = @ + 1, !.l = a.labels[i].local]
  ELSE [s EXCEPT !.found = i]
NoPath == [k |-> 1, l |-> -1, over |-> FALSE, found |-> 0]
Path(a, path) ==
  LET s[i \in 0..Len(a.labels)] ==
        IF i = 0 THEN NoPath ELSE PathStep(a, path, s[i - 1], i)
  IN s[Len(a.labels)].found

FirstOf(simple, path) == IF simple = {} THEN path ELSE Min(simple)
FindLabel(a, path) == FirstOf(Simple(a, path), Path(a, path))
-----------------------------------------------------------------------------
(* as.c, first pass.  outbuf is as long as what the second pass writes; a   *)
(* cell of data has 0 for a string and 1 for a number until then.  ats is   *)
(* history: the address of the first pass at each entry of inss.            *)

Raw == -1     \* a byte nobody wrote
OrgIns(n) == [type |-> "org", address |-> n, start |-> 0, end |-> 0]  \* start is history
NewAsm(arch) ==
  [arch |-> arch, address |-> 0, labels |-> <<>>, llbl |-> 0, ctx |-> 1, strargs |-> <<>>,
   inss |-> <<OrgIns(0)>>, ats |-> <<0>>, lorg |-> 0, outbuf |-> <<>>, nul |-> TRUE,
   bufp |-> 0, arg |-> 1, a |-> 0, out |-> ""]
Fail(a) == [a EXCEPT !.out = "error"]
AddIns(a, ins) == [a EXCEPT !.inss = Append(@, ins), !.ats = Append(@, a.address)]

\* equ is history: the label stands for a number and not for a place.
addlabel(a, lbl) ==
  LET parent == Max({0} \cup {i \in DOMAIN a.labels : a.labels[i].local < lbl[1]})
      label == [name |-> lbl[2], local |-> lbl[1], parent |-> parent,
                address |-> a.address, equ |-> FALSE]
  IN IF \E i \in DOMAIN a.labels : /\ a.labels[i].name = lbl[2] /\ a.labels[i].parent = parent
                                   /\ a.labels[i].local = lbl[1]
     THEN Fail(a)
     ELSE AddIns([a EXCEPT !.labels = Append(@, label)],
                 [type |-> "lbl", lbl |-> Len(a.labels) + 1])

Fill(n, what) == [i \in 1..n |-> what]
RoundUp(n, size) == ((n + size - 1) \div size) * size

\* The arguments of a data directive: n counts the numbers, and the bytes of the
\* strings; marks are the cells of the outbuf.
CountArg(d, arg, size) ==
  LET n == RoundUp(Len(arg[2]), size)
  IN IF arg[1] = "str"
     THEN [n |-> d.n + n, strs |-> Append(d.strs, arg[2]), marks |-> d.marks \o Fill(n, 0)]
     ELSE [d EXCEPT !.n = @ + 1, !.marks = @ \o Fill(size, 1)]
NoArgs == [n |-> 0, strs |-> <<>>, marks |-> <<>>]
CountArgs(args, size) ==
  LET d[k \in 0..Len(args)] ==
        IF k = 0 THEN NoArgs ELSE CountArg(d[k - 1], args[k], size)
  IN d[Len(args)]

\* Mutant of Words: whole words only, as if nothing were padded.
WordsShort(n, size) == (n * size) \div Align

\* adddata.  Words is what it adds to the address.
Words(n, size) == RoundUp(n * size, Align) \div Align
adddata(a, size, args) ==
  LET d == CountArgs(args, size)
      data == [type |-> "data", args |-> args, size |-> size]
      b == [a EXCEPT !.strargs = @ \o d.strs, !.outbuf = @ \o d.marks, !.nul = TRUE]
  IN IF args = <<>> THEN a
     ELSE IF d.n = 0 THEN b
     ELSE [AddIns(b, data) EXCEPT !.address = @ + Words(d.n, size)]
RowsNamed(arch, op) == {i \in DOMAIN Arch[arch].ocs : Arch[arch].ocs[i].name = op}

\* insfind: the directives with one number, those with none, the others.
OneNumber(a, op, g) ==
  IF ~g.ok \/ g.v \notin [1..1 -> Int] \/ (op = "equ" /\ a.labels = <<>>) THEN Fail(a)
  ELSE IF op = "org" THEN [AddIns(a, OrgIns(g.v[1])) EXCEPT !.address = g.v[1]]
  ELSE [a EXCEPT !.labels[Len(a.labels)].address = g.v[1], !.labels[Len(a.labels)].equ = TRUE]

Instruction(a, rows, args) ==
  LET len == Len(Arch[a.arch].ocs[Min(rows)].oc)
      ins == [type |-> "ins", row |-> Min(rows), args |-> args, arch |-> a.arch]
  IN IF rows = {} THEN Fail(a)
     ELSE [AddIns(a, ins) EXCEPT !.outbuf = @ \o Fill(len, Raw), !.nul = FALSE,
                                 !.address = @ + len \div Align]

insfind(a, op, args) ==
  CASE op = "arch" -> IF args[1] \in DOMAIN Arch THEN [a EXCEPT !.arch = args[1]] ELSE Fail(a)
    [] op \in {"org", "equ"} -> OneNumber(a, op, Values(a, args))
    [] op \in {"file", "expands"} -> [AddIns(a, [type |-> "ctx"]) EXCEPT !.ctx = @ + 1]
    [] op \in {"endfile", "endexp"} ->
         IF a.ctx = 1 THEN Fail(a) ELSE [AddIns(a, [type |-> "ctx_end"]) EXCEPT !.ctx = @ - 1]
    [] op \in DOMAIN Sizes -> adddata(a, Sizes[op], args)
    [] op = "" -> a
    [] OTHER -> Instruction(a, RowsNamed(a.arch, op), args)

\* Bound: label_t has an int for the address, and ihex.c four digits for the upper
\* half of its bytes.  A program that leaves these is not followed.
AddrTop == 2147483647
Fits(a) ==
  a.address \in 0..AddrTop /\ \A i \in DOMAIN a.labels : a.labels[i].address \in -AddrTop..AddrTop

\* A turn of the loop of the first pass.
Labelled(lbl) == IF lbl = <<>> THEN asm ELSE addlabel(asm, lbl)
AndThen(a, l) == IF a.out # "" THEN a ELSE insfind(a, l.op, l.args)
Pass1 ==
  /\ phase = "pass1" /\ line <= Len(prog.lines)
  /\ asm' = AndThen(Labelled(prog.lines[line].lbl), prog.lines[line]) /\ line' = line + 1
  /\ Fits(asm')
  /\ phase' = IF asm'.out = "" THEN phase ELSE asm'.out
  /\ UNCHANGED <<prog, pass2Vars, hexVars, readVars, disVars, roundVars>>

EndPass1 ==
  /\ phase = "pass1" /\ line > Len(prog.lines)
  /\ phase' = IF asm.ctx = 1 THEN "pass2" ELSE "error"
  /\ asm' = [AddIns(asm, [type |-> "end"]) EXCEPT !.address = 0]
  /\ UNCHANGED <<prog, line, pass2Vars, hexVars, readVars, disVars, roundVars>>
-----------------------------------------------------------------------------
(* as.c, second pass.  a and arg are where a data directive has come to.    *)

\* bufp[at].  The byte after what fill wrote is 0, others beyond it are unknown.
Cell(a, at, unknown) ==
  LET i == a.bufp + at + 1
  IN IF i = Len(a.outbuf) + 1 /\ a.nul THEN 0
     ELSE IF i > Len(a.outbuf) \/ a.outbuf[i] = Raw THEN unknown ELSE a.outbuf[i]

Put(a, at, bytes) ==
  LET i == a.bufp + at
      end == i + Len(bytes)
      Now(j) == IF j > i /\ j <= end THEN bytes[j - i]
                ELSE IF j <= Len(a.outbuf) THEN a.outbuf[j] ELSE IF a.nul THEN 0 ELSE Raw
  IN [a EXCEPT !.outbuf = [j \in 1..Larger(Len(a.outbuf), end) |-> Now(j)]]

\* One argument of a data directive.
DataArg(s, arg, size, unknown) ==
  LET str == Head(s.strargs)
      v == Value(s, arg)
      bytes == [i \in 1..size |-> Byte(v[1], size - i)]
  IN IF Cell(s, s.a, unknown) = 0
     THEN IF s.strargs = <<>> THEN [s EXCEPT !.out = "crash"]
          ELSE [Put(s, s.a, str) EXCEPT !.strargs = Tail(@), !.arg = @ + 1,
                                        !.a = RoundUp(@ + Len(str), size)]
     ELSE IF v = <<>> THEN [s EXCEPT !.out = "error"]
     ELSE [Put(s, s.a, bytes) EXCEPT !.arg = @ + 1, !.a = @ + size]

\* Padding, then each word is masked and its bytes are swapped.
DataWords(s) ==
  LET n == RoundUp(s.a, Align)
      padded == Put(s, s.a, Fill(n - s.a, 0))
      Old(i) == Cell(padded, i, 0)     \* padding between strings is 0
      mask == Arch[s.arch].mask
      words == [i \in 1..n |-> Mask(Old(Swap(i - 1)), mask[(Swap(i - 1) % 2) + 1])]
  IN [Put(padded, 0, words) EXCEPT !.arg = 1, !.a = 0]

\* Mutant: only the first test.
colcheckFirst(m, addr, end) ==
  \E i \in DOMAIN m : m[i].start # m[i].end /\ m[i].start <= addr /\ m[i].end > end

\* The areas before the last org are compared with the one from addr to end.
colcheck(m, addr, end) ==
  \E i \in DOMAIN m :
    /\ m[i].start # m[i].end
    /\ \/ m[i].start <= addr /\ m[i].end > addr
       \/ m[i].start <= addr /\ m[i].end > end
       \/ m[i].start >= addr /\ m[i].end < addr
       \/ m[i].start >= addr /\ m[i].end < end

\* What an item of n bytes leaves: bufp and address go on, unless it collides.
Placed(a, n) ==
  LET end == a.address + n \div Align
      bytes == [i \in a.address * Align..end * Align - 1 |->
                  a.outbuf[a.bufp + i - a.address * Align + 1]]
  IN /\ mapitem' = [mapitem EXCEPT !.end = end]
     /\ asm' = [a EXCEPT !.bufp = @ + n, !.address = end]
     /\ phase' = IF colcheck(map, mapitem.end, end) THEN "error" ELSE phase
     /\ image' = [i \in DOMAIN bytes \cup DOMAIN image |->
                   IF i \in DOMAIN bytes THEN bytes[i] ELSE image[i]]
     /\ clash' = (clash \/ DOMAIN bytes \intersect DOMAIN image # {})
     /\ pc' = pc + 1 /\ UNCHANGED map

Ins == asm.inss[pc]
InPass2 ==
  phase = "pass2" /\ UNCHANGED <<prog, line, hexVars, readVars, disVars, roundVars>>
Stops(out) == phase' = out /\ UNCHANGED <<asm, pass2Vars>>

PassIns ==
  LET g == Values(asm, Ins.args)
      row == Arch[Ins.arch].ocs[Ins.row]
      op == Opcode(asm.arch, row, g.v, asm.address)
      bytes == [i \in 1..Len(row.oc) |-> op[Swap(i - 1) + 1]]
  IN /\ InPass2 /\ Ins.type = "ins"
     /\ IF ~g.ok \/ Len(Ins.args) \notin Arity(asm.arch, row.atype) THEN Stops("error")
        ELSE Placed(Put(asm, 0, bytes), Len(bytes))

PassArg ==
  /\ InPass2 /\ Ins.type = "data" /\ asm.arg <= Len(Ins.args)
  /\ \E unknown \in {0, 1} : asm' = DataArg(asm, Ins.args[asm.arg], Ins.size, unknown)
  /\ phase' = IF asm'.out = "" THEN phase ELSE asm'.out
  /\ UNCHANGED pass2Vars
PassData ==
  /\ InPass2 /\ Ins.type = "data" /\ asm.arg > Len(Ins.args)
  /\ Placed(DataWords(asm), RoundUp(asm.a, Align))

\* lorgend: the org under way is told where its bytes end.
EndOrg(a) == IF a.lorg = 0 THEN a ELSE [a EXCEPT !.inss[a.lorg].end = a.bufp]

PassOrg ==
  /\ InPass2 /\ Ins.type = "org"
  /\ asm' = [EndOrg(asm) EXCEPT !.address = Ins.address, !.lorg = pc, !.inss[pc].start = asm.bufp]
  /\ map' = Append(map, mapitem)
  /\ mapitem' = [start |-> Ins.address, end |-> Ins.address]
  /\ pc' = pc + 1 /\ UNCHANGED <<phase, image, clash>>

PassLabel ==     \* and the entries for the context of messages
  /\ InPass2 /\ Ins.type \in {"lbl", "ctx", "ctx_end"}
  /\ asm' = IF Ins.type = "lbl" THEN [asm EXCEPT !.llbl = Ins.lbl] ELSE asm
  /\ pc' = pc + 1 /\ UNCHANGED <<phase, map, mapitem, image, clash>>

EndPass2 ==
  /\ InPass2 /\ Ins.type = "end"
  /\ phase' = "write" /\ pc' = 1 /\ asm' = [EndOrg(asm) EXCEPT !.llbl = 0]
  /\ UNCHANGED <<map, mapitem, image, clash>>
-----------------------------------------------------------------------------
(* ihex.c.  A line is [rtype, addr, data], and for history the upper half of *)
(* the address it is under (seg); checksums are left out.                    *)

InWrite == UNCHANGED <<prog, line, map, mapitem, image, clash, dsym, inbuf, disVars, roundVars>>

\* Mutant: the upper half is written only where it grows.
UpperUpward(seg) ==
  IF top < seg THEN <<[rtype |-> 4, addr |-> 0, data |-> <<seg>>, seg |-> seg]>> ELSE <<>>

\* endln: a line of data, and before it the upper half of its address.
Upper(seg) ==
  IF (top # 0 \/ seg # 0) /\ top # seg
  THEN <<[rtype |-> 4, addr |-> 0, data |-> <<seg>>, seg |-> seg]>> ELSE <<>>
endln(bytes) ==
  LET seg == asm.address \div SegLen
      now == IF Upper(seg) = <<>> THEN top ELSE seg
  IN /\ hex' = hex \o Upper(seg)
               \o <<[rtype |-> 0, addr |-> asm.address % SegLen, data |-> bytes, seg |-> now]>>
     /\ top' = now
     /\ asm' = [asm EXCEPT !.address = @ + Len(bytes)]

\* ihex_write.  An org gives the address; its bytes go out in lines.
WriteOrg ==
  /\ phase = "write" /\ Ins.type = "org"
  /\ phase' = "line" /\ asm' = [asm EXCEPT !.address = Ins.address * Align]
  /\ InWrite /\ UNCHANGED <<pc, hexVars, rd>>

WriteLine ==
  LET n == Smaller(Ins.end - wbuf, IHLL)
  IN /\ phase = "line" /\ wbuf # Ins.end
     /\ endln([i \in 1..n |-> asm.outbuf[wbuf + i]]) /\ wbuf' = wbuf + n
     /\ InWrite /\ UNCHANGED <<phase, pc, rd>>

WriteNext ==     \* the end of an org's bytes, or an entry that has none
  /\ \/ phase = "line" /\ wbuf = Ins.end
     \/ phase = "write" /\ Ins.type \notin {"org", "end"}
  /\ phase' = "write" /\ pc' = pc + 1
  /\ InWrite /\ UNCHANGED <<asm, hexVars, rd>>

WriteEnd ==
  /\ phase = "write" /\ Ins.type = "end"
  /\ hex' = Append(hex, [rtype |-> 1, addr |-> 0, data |-> <<>>, seg |-> top])
  /\ phase' = "read" /\ top' = 0 /\ rd' = 1
  /\ InWrite /\ UNCHANGED <<pc, asm, wbuf>>

\* ihex_read, one line.  at is where the bytes of an area are in inbuf.
Read ==
  LET l == hex[rd]
      area == [addr |-> top * SegLen + l.addr, len |-> Len(l.data), at |-> Len(inbuf)]
  IN /\ phase = "read" /\ rd' = rd + 1
     /\ \/ /\ l.rtype = 0 /\ dsym' = Append(dsym, area) /\ inbuf' = inbuf \o l.data
           /\ UNCHANGED <<phase, top>>
        \/ l.rtype = 4 /\ top' = l.data[1] /\ UNCHANGED <<phase, dsym, inbuf>>
        \/ l.rtype = 1 /\ phase' = "dis" /\ UNCHANGED <<top, dsym, inbuf>>
     /\ UNCHANGED <<prog, line, asm, pass2Vars, hex, wbuf, disVars, roundVars>>
-----------------------------------------------------------------------------
(* dis.c, with -r.  sym is the area, off how far it is done.                *)

Left == dsym[sym].len - off
At(i) == inbuf[dsym[sym].at + off + i + 1]     \* bufp[i]

Matches(row) ==
  /\ Len(row.oc) <= Left
  /\ \A i \in DOMAIN row.oc : Mask(At(Swap(i - 1)), row.imask[i]) = row.oc[i]
Decoded == LET ocs == Arch[asm.arch].ocs
           IN SelectInSeq(ocs, Matches)     \* the first row that does, or 0

Num(n) == <<"expr", <<<<"num", n>>>>>>
FromHere(n) ==
  <<"expr", IF n < 0 THEN <<<<"here">>, "-", <<"num", -n>>>> ELSE <<<<"here">>, "+", <<"num", n>>>>>>
Line(op, args) == [lbl |-> <<>>, op |-> op, args |-> args]

\* Mutant: only the first area gets its org.
StartsFirst ==
  IF off = 0 /\ sym = 1 THEN <<Line("org", <<Num(dsym[sym].addr \div Align)>>)>> ELSE <<>>

\* What starts an area: an org where it does not go on from the last one.
Starts ==
  IF off = 0 /\ (asm.address # dsym[sym].addr \/ sym = 1)
  THEN <<Line("org", <<Num(dsym[sym].addr \div Align)>>)>> ELSE <<>>
Here == IF off = 0 THEN dsym[sym].addr ELSE asm.address

InDis ==
  phase = "dis" /\ UNCHANGED <<phase, prog, line, pass2Vars, hexVars, readVars, roundVars>>

DisIns ==
  LET row == Arch[asm.arch].ocs[Decoded]
      oc == [i \in DOMAIN row.oc |-> At(Swap(i - 1))]
      v == Operands(asm.arch, oc, row.atype)
      args == IF row.atype \in {"R8", "R11"} THEN <<FromHere(v[1])>>
              ELSE [i \in DOMAIN v |-> Num(v[i])]
  IN /\ InDis /\ sym <= Len(dsym) /\ off < dsym[sym].len /\ Decoded # 0
     /\ list' = list \o Starts \o <<Line(row.name, args)>>
     /\ off' = off + Len(row.oc)
     /\ asm' = [asm EXCEPT !.address = Here + Len(row.oc)]
     /\ UNCHANGED sym

\* A word that is no instruction.  The address is not moved on: oc->len is the
\* length in the last row of the table, 0.
DisData ==
  /\ InDis /\ sym <= Len(dsym) /\ off < dsym[sym].len /\ Decoded = 0
  /\ list' = list \o Starts \o <<Line("data", <<Num(At(1) * 256 + At(0))>>)>>
  /\ off' = off + Align
  /\ asm' = [asm EXCEPT !.address = Here]
  /\ UNCHANGED sym

\* (The assembler writes whole words: no area has a byte left over.)
DisNext ==
  /\ InDis /\ sym <= Len(dsym) /\ off = dsym[sym].len
  /\ sym' = sym + 1 /\ off' = 0
  /\ UNCHANGED <<asm, list>>

Fresh(arch) ==
  /\ phase' = "pass1" /\ line' = 1 /\ asm' = NewAsm(arch)
  /\ pc' = 1 /\ map' = <<>> /\ mapitem' = [start |-> 0, end |-> 0]
  /\ image' = <<>> /\ clash' = FALSE /\ hex' = <<>> /\ top' = 0 /\ wbuf' = 0
  /\ rd' = 1 /\ dsym' = <<>> /\ inbuf' = <<>> /\ sym' = 1 /\ off' = 0 /\ list' = <<>>

\* History: the bytes of second words that begin a line of the hex file.
Cut ==
  {b \in DOMAIN image : \E k \in DOMAIN asm.inss :
     LET ins == asm.inss[k]
         word2 == asm.ats[k] * Align + 2
     IN /\ ins.type = "ins" /\ Len(Arch[ins.arch].ocs[ins.row].oc) = 4
        /\ b - word2 \in 0..1 /\ \E i \in DOMAIN dsym : dsym[i].addr = word2}

\* The listing is assembled in turn.
Again ==
  /\ phase = "dis" /\ sym > Len(dsym)
  /\ round = 1 /\ round' = 2 /\ first' = [image |-> image, lines |-> prog.lines, cut |-> Cut]
  /\ prog' = [arch |-> asm.arch, lines |-> list] /\ Fresh(asm.arch)

Finish ==
  /\ phase = "dis" /\ sym > Len(dsym) /\ round = 2 /\ phase' = "done"
  /\ UNCHANGED <<prog, line, asm, pass2Vars, hexVars, readVars, disVars, roundVars>>
-----------------------------------------------------------------------------
Init ==
  /\ phase = "pass1" /\ prog \in Programs /\ line = 1 /\ asm = NewAsm(prog.arch)
  /\ pc = 1 /\ map = <<>> /\ mapitem = [start |-> 0, end |-> 0]
  /\ image = <<>> /\ clash = FALSE /\ hex = <<>> /\ top = 0 /\ wbuf = 0
  /\ rd = 1 /\ dsym = <<>> /\ inbuf = <<>> /\ sym = 1 /\ off = 0 /\ list = <<>>
  /\ round = 1 /\ first = [image |-> <<>>, lines |-> <<>>, cut |-> {}]

Next ==
  \/ Pass1 \/ EndPass1 \/ PassIns \/ PassArg \/ PassData \/ PassOrg \/ PassLabel \/ EndPass2
  \/ WriteOrg \/ WriteLine \/ WriteNext \/ WriteEnd \/ Read
  \/ DisIns \/ DisData \/ DisNext \/ Again \/ Finish

Spec == Init /\ [][Next]_vars
-----------------------------------------------------------------------------
(* Properties *)

Here2 == phase = "pass2" /\ Ins.type \in {"ins", "data"}
Expressions == {arg[2] : arg \in {x \in Range(Ins.args) : x[1] = "expr"}}

\* An identifier in an instruction is the label of the nearest scope around the
\* instruction: of its own name and level, and local to the label that the last
\* label passed belongs to (or is) at a lower level.
OwnerOf(a, i, level) ==
  LET owner[j \in 0..Len(a.labels)] ==
        IF j = 0 THEN 0
        ELSE IF a.labels[j].local < level THEN j ELSE owner[a.labels[j].parent]
  IN owner[i]
Identifiers == {e[1][2] : e \in {x \in Expressions : Len(x) = 1 /\ x[1][1] = "id"}}
LocalsAreScoped ==
  Here2 => \A path \in Identifiers : Len(path) = 1 =>
    FindLabel(asm, path) =
      LET meant == {i \in DOMAIN asm.labels :
                      /\ asm.labels[i].name = path[1][2] /\ asm.labels[i].local = path[1][1]
                      /\ asm.labels[i].parent = OwnerOf(asm, asm.llbl, path[1][1])}
      IN IF meant = {} THEN 0 ELSE CHOOSE i \in meant : TRUE

\* The first pass counts the addresses that the second pass uses: a label is
\* where its line goes.  (Not where data have strings: those in cells of more than
\* a byte are counted twice over, and a mark that the padding before it was written
\* over is taken for a string's.)
Strings(lines) == \E l \in Range(lines) : /\ l.op \in DOMAIN Sizes
                                          /\ \E x \in Range(l.args) : x[1] = "str"
LabelsInPlace ==
  phase = "pass2" /\ Ins.type = "lbl" /\ ~asm.labels[Ins.lbl].equ =>
    asm.labels[Ins.lbl].address = asm.address \/ Strings(prog.lines)

\* A program that is assembled puts no byte over another, as long as its data
\* directives give one word each: of an item that is longer, the part below the
\* area it runs into is not seen.
OneWordIns(ins) ==
  \/ ins.type \notin {"data", "ins"}
  \/ ins.type = "data" /\ ins.size <= 2 /\ Len(ins.args) = 1 /\ ins.args[1][1] # "str"
  \/ ins.type = "ins" /\ Len(Arch[ins.arch].ocs[ins.row].oc) = 2
OneWord == \A i \in DOMAIN asm.inss : OneWordIns(asm.inss[i])
CollisionsFound == phase = "write" /\ OneWord => ~clash

\* What is read back from the hex file is what was assembled, at its addresses,
\* whichever segments these are in and in whichever order they come.
HexIsImage ==
  phase = "dis" /\ ~clash =>
    /\ \A k \in DOMAIN dsym : \A i \in 0..dsym[k].len - 1 :
         /\ dsym[k].addr + i \in DOMAIN image
         /\ image[dsym[k].addr + i] = inbuf[dsym[k].at + i + 1]
    /\ \A b \in DOMAIN image : \E k \in DOMAIN dsym : b - dsym[k].addr \in 0..dsym[k].len - 1

\* redme.txt 14: the listing can be assembled again.  It gives every byte again, at
\* its address, but for the second word of an instruction that two lines of the hex
\* file share: its first word is listed as data, and what follows as a nop.  (Not
\* where the program has data: a word of data may be listed as an instruction that
\* does not keep all its bits.)
HasData(lines) == \E l \in Range(lines) : l.op \in DOMAIN Sizes
ListingIsProgram ==
  round = 2 /\ phase \in {"done", "error", "crash"} /\ ~HasData(first.lines) =>
    /\ phase = "done" /\ DOMAIN image = DOMAIN first.image
    /\ \A b \in DOMAIN image : image[b] = first.image[b] \/ b \in first.cut

\* redme.txt 42 says that data is padded to align whatever comes next: so what
\* comes next is assembled too.
DataIsPadded == phase # "crash"
=============================================================================
