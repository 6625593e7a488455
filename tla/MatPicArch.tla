------------------------------ MODULE MatPicArch ------------------------------
(***************************************************************************)
(* The instruction sets of matpic (pic14b.c, pic18f.c), what arch.h wants  *)
(* of one: a table of opcodes, the bits of a data word, and the two        *)
(* functions that put arguments into an opcode and take them out of it.    *)
(***************************************************************************)
EXTENDS MatPic, Bitwise
-----------------------------------------------------------------------------
(* pic14b.c, pic18f.c: the tables, in their order.  A row of two words has  *)
(* 0xF0 00 for its second word.                                             *)

Row(n, a, b, ma, mb, t) ==
  [name |-> n, oc |-> <<a, b>>, imask |-> <<ma, mb>>, atype |-> t]
Rows(names, as, ma, t) == [i \in DOMAIN names |-> Row(names[i], as[i], 0, ma, 0, t)]
Plain(names, bs) == [i \in DOMAIN names |-> Row(names[i], 0, bs[i], 255, 255, "NA")]
Wide(n, a, b, ma, mb, mc, t) ==
  <<[name |-> n, oc |-> <<a, b, 240, 0>>, imask |-> <<ma, mb, mc, 0>>, atype |-> t]>>

ocs14b ==
  <<Row("clrw", 1, 0, 255, 128, "NA"), Row("clrf", 1, 128, 255, 128, "F")>>
  \o Rows(<<"movf", "decf", "incf", "comf", "rrf", "rlf", "decfsz", "incfsz">>,
          <<8, 3, 10, 9, 12, 13, 11, 15>>, 255, "DF")
  \o <<Row("movwf", 0, 128, 255, 128, "F")>>
  \o Rows(<<"iorwf", "andwf", "xorwf", "subwf", "addwf", "swapf">>,
          <<4, 5, 6, 2, 7, 14>>, 255, "DF")
  \o Rows(<<"bcf", "bsf", "btfsc", "btfss">>, <<16, 20, 24, 28>>, 252, "BF")
  \o Rows(<<"movlw", "retlw">>, <<48, 52>>, 252, "K8")
  \o Rows(<<"iorlw", "andlw", "xorlw">>, <<56, 57, 58>>, 255, "K8")
  \o Rows(<<"sublw", "addlw">>, <<60, 62>>, 254, "K8")
  \o <<Row("nop", 0, 0, 255, 159, "NA")>>
  \o Plain(<<"return", "retfie", "sleep", "clrwdt">>, <<8, 9, 99, 100>>)
  \o Rows(<<"call", "goto">>, <<32, 40>>, 248, "K11")
  \o Plain(<<"option">>, <<98>>) \o <<Row("tris", 0, 100, 255, 252, "T")>>

ocs18f ==
  Rows(<<"addwf", "addwfc", "andwf">>, <<36, 32, 20>>, 252, "DF")
  \o Rows(<<"clrf">>, <<106>>, 254, "F") \o Rows(<<"comf">>, <<28>>, 252, "DF")
  \o Rows(<<"cpfseq", "cpfsgt", "cpfslt">>, <<98, 100, 96>>, 254, "F")
  \o Rows(<<"decf", "decfsz", "dcfsnz", "incf", "incfsz", "infsnz", "iorwf", "movf">>,
          <<4, 44, 76, 40, 60, 72, 16, 80>>, 252, "DF")
  \o Rows(<<"movwf", "mulwf", "negf">>, <<110, 2, 108>>, 254, "F")
  \o Rows(<<"rlcf", "rlncf", "rrcf", "rrncf">>, <<52, 68, 48, 64>>, 252, "DF")
  \o Rows(<<"setf">>, <<104>>, 254, "F")
  \o Rows(<<"subfwb", "subwf", "subwfb", "swapf">>, <<84, 92, 88, 56>>, 252, "DF")
  \o Rows(<<"tstfsz">>, <<102>>, 254, "F") \o Rows(<<"xorwf">>, <<24>>, 252, "DF")
  \o Wide("movff", 192, 0, 240, 0, 240, "FF")
  \o Rows(<<"bcf", "bsf", "btfsc", "btfss", "btg">>, <<144, 128, 176, 160, 112>>, 240, "BF")
  \o Rows(<<"addlw", "andlw", "iorlw">>, <<15, 11, 9>>, 255, "K8")
  \o <<Row("movlb", 1, 0, 255, 240, "K4")>>
  \o Rows(<<"movlw", "mullw", "retlw", "sublw", "xorlw">>, <<14, 13, 12, 8, 10>>, 255, "K8")
  \o Wide("lfsr", 238, 0, 255, 192, 255, "FK")
  \o Rows(<<"bc", "bn", "bnc", "bnn", "bnov", "bnz", "bov">>,
          <<226, 230, 227, 231, 229, 225, 228>>, 255, "R8")
  \o Rows(<<"bra">>, <<208>>, 248, "R11") \o Rows(<<"bz">>, <<224>>, 255, "R8")
  \o Plain(<<"clrwdt", "daw", "nop">>, <<4, 7, 0>>) \o Rows(<<"nop">>, <<240>>, 240, "NA")
  \o Plain(<<"pop", "push">>, <<6, 5>>) \o Rows(<<"rcall">>, <<216>>, 248, "R11")
  \o Plain(<<"reset">>, <<255>>) \o <<Row("retfie", 0, 16, 255, 254, "S")>>
  \o Rows(<<"retlw">>, <<12>>, 255, "K8") \o <<Row("return", 0, 18, 255, 254, "S")>>
  \o Plain(<<"sleep">>, <<3>>)
  \o Wide("call", 236, 0, 254, 0, 240, "KS") \o Wide("goto", 239, 0, 255, 0, 240, "K20")
  \o Plain(<<"tblrd", "tblrdi", "tblrdd", "tblrdp", "tblwt", "tblwti", "tblwtd", "tblwtp">>,
           <<8, 9, 10, 11, 12, 13, 14, 15>>)
  \o <<Row("addulnk", 232, 192, 255, 192, "ULNK")>> \o Rows(<<"addfsr">>, <<232>>, 255, "FSR")
  \o Plain(<<"callw">>, <<20>>) \o Rows(<<"pushl">>, <<234>>, 255, "K8")
  \o <<Row("subulnk", 233, 192, 255, 192, "ULNK")>> \o Rows(<<"subfsr">>, <<233>>, 255, "FSR")
  \o Wide("movsf", 235, 0, 255, 128, 240, "SF") \o Wide("movss", 235, 128, 255, 128, 240, "SS")

PicArch == [pic14b |-> [ocs |-> ocs14b, mask |-> <<63, 255>>],
            pic18f |-> [ocs |-> ocs18f, mask |-> <<255, 255>>]]
-----------------------------------------------------------------------------
(* acmp and adis: the arguments into the bytes of an opcode and out of it.  *)

BitOr(a, b) == a | b
BitAnd(a, b) == a & b

Arity14b == [DF |-> 1..2, F |-> {1}, BF |-> {2}, K8 |-> {1}, K11 |-> {1}, T |-> {1}, NA |-> {0}]
Arity18f ==
  [DF |-> 1..3, F |-> 1..2, FF |-> {2}, BF |-> 2..3, K4 |-> {1}, K8 |-> {1}, R8 |-> {1},
   K20 |-> {1}, KS |-> 1..2, FK |-> {2}, R11 |-> {1}, S |-> 0..1, FSR |-> {2}, ULNK |-> {1},
   SF |-> {2}, SS |-> {2}, NA |-> {0}]
PicArity(arch, t) == IF arch = "pic14b" THEN Arity14b[t] ELSE Arity18f[t]

acmp14b(oc, t, v) ==
  LET d == IF Len(v) < 2 THEN 1 ELSE v[2]
  IN CASE t = "DF" -> <<oc[1], (d % 2) * 128 + (v[1] % 128)>>
       [] t = "F" -> <<oc[1], BitOr(oc[2], v[1] % 128)>>
       [] t = "BF" -> <<BitOr(oc[1], (d % 8) \div 2), (d % 2) * 128 + (v[1] % 128)>>
       [] t = "K8" -> <<oc[1], BitOr(oc[2], Byte(v[1], 0))>>
       [] t = "K11" -> <<BitOr(oc[1], Byte(v[1], 1) % 8), Byte(v[1], 0)>>
       [] t = "T" -> <<oc[1], BitOr(oc[2], v[1] % 4)>>
       [] t = "NA" -> oc

acmp18f(oc, t, v, address) ==
  LET Arg(i, d) == IF Len(v) < i THEN d ELSE v[i]
      rel == v[1] - (address + 1)
  IN CASE t = "DF" -> <<BitOr(oc[1], (Arg(2, 1) % 2) * 2 + (Arg(3, 0) % 2)), Byte(v[1], 0)>>
       [] t = "F" -> <<BitOr(oc[1], Arg(2, 0) % 2), Byte(v[1], 0)>>
       [] t = "FF" -> <<BitOr(oc[1], Byte(v[1], 1) % 16), Byte(v[1], 0),
                        BitOr(oc[3], Byte(v[2], 1) % 16), Byte(v[2], 0)>>
       [] t = "BF" -> <<BitOr(oc[1], (v[2] % 8) * 2 + (Arg(3, 0) % 2)), Byte(v[1], 0)>>
       [] t = "K4" -> <<oc[1], BitOr(oc[2], v[1] % 16)>>
       [] t = "K8" -> <<oc[1], BitOr(oc[2], Byte(v[1], 0))>>
       [] t = "R8" -> <<oc[1], BitOr(oc[2], Byte(rel, 0))>>
       [] t = "K20" -> <<oc[1], Byte(v[1], 0), BitOr(oc[3], Byte(v[1], 2) % 16), Byte(v[1], 1)>>
       [] t = "KS" -> <<BitOr(oc[1], Arg(2, 0) % 2), Byte(v[1], 0),
                        BitOr(oc[3], Byte(v[1], 2) % 16), Byte(v[1], 1)>>
       [] t = "FK" -> <<oc[1], BitOr(oc[2], (Byte(v[2], 1) % 16) + (v[1] % 4) * 16),
                        oc[3], Byte(v[2], 0)>>
       [] t = "R11" -> <<BitOr(oc[1], Byte(rel, 1) % 8), Byte(rel, 0)>>
       [] t = "S" -> <<oc[1], BitOr(oc[2], Arg(1, 0) % 2)>>
       [] t = "FSR" -> <<oc[1], (v[2] % 64) + (v[1] % 4) * 64>>
       [] t = "ULNK" -> <<oc[1], BitOr(oc[2], v[1] % 64)>>
       [] t = "SF" -> <<oc[1], v[1] % 128, BitOr(oc[3], Byte(v[2], 1) % 16), Byte(v[2], 0)>>
       [] t = "SS" -> <<oc[1], v[1] % 128, oc[3], v[2] % 128>>
       [] t = "NA" -> oc

acmp(arch, row, v, address) ==
  IF arch = "pic14b" THEN acmp14b(row.oc, row.atype, v)
  ELSE acmp18f(row.oc, row.atype, v, address)

adis14b(oc, t) ==
  CASE t = "DF" -> <<oc[2] % 128, oc[2] \div 128>>
    [] t = "F" -> <<oc[2] % 128>>
    [] t = "BF" -> <<oc[2] % 128, (oc[1] % 4) * 2 + oc[2] \div 128>>
    [] t = "K8" -> <<oc[2]>>
    [] t = "K11" -> <<(oc[1] % 8) * 256 + oc[2]>>
    [] t = "T" -> <<oc[2] % 4>>
    [] t = "NA" -> <<>>

\* The target of a branch is counted from its own address.
ttn(n, size) == IF n >= 2^(size - 1) THEN n - 2^size ELSE n
adis18f(oc, t) ==
  CASE t = "DF" -> <<oc[2], (oc[1] \div 2) % 2, oc[1] % 2>>
    [] t = "F" -> <<oc[2], oc[1] % 2>>
    [] t = "FF" -> <<oc[2] + (oc[1] % 16) * 256, oc[4] + (oc[3] % 16) * 256>>
    [] t = "BF" -> <<oc[2], (oc[1] \div 2) % 8, oc[1] % 2>>
    [] t = "K4" -> <<oc[2] % 16>>
    [] t = "K8" -> <<oc[2]>>
    [] t = "R8" -> <<ttn(oc[2], 8) + 1>>
    [] t = "K20" -> <<oc[2] + oc[4] * 256 + (oc[3] % 16) * 65536>>
    [] t = "FK" -> <<(oc[2] \div 16) % 4, (oc[2] % 16) * 256 + oc[4]>>
    [] t = "R11" -> <<ttn(oc[2] + (oc[1] % 8) * 256, 11) + 1>>
    [] t = "KS" -> <<oc[2] + oc[4] * 256 + (oc[3] % 16) * 65536, oc[1] % 2>>
    [] t = "S" -> <<oc[2] % 2>>
    [] t = "FSR" -> <<oc[2] \div 64, oc[2] % 64>>
    [] t = "ULNK" -> <<oc[2] % 64>>
    [] t = "SF" -> <<oc[2] % 128, oc[4] + (oc[3] % 16) * 256>>
    [] t = "SS" -> <<oc[2] % 128, oc[4] % 128>>
    [] t = "NA" -> <<>>
adis(arch, oc, t) == IF arch = "pic14b" THEN adis14b(oc, t) ELSE adis18f(oc, t)
=============================================================================
