# segin-utils in TLA+

segin-utils is a collection of some forty small programs. Most are one pass over
a file or a picture. This project models those with state that is hard to test:
programs that talk to something that does not wait for them (a calculator on a
serial line, IRC servers, the other end of a chat, threads on one buffer), and
programs whose algorithms go through states nobody enumerates by hand (a garbage
collector, a parser generator, an assembler). TLC checks the models; TLAPS proves
the main properties of six of them for every value of their constants.

## 1. Inventory

| part | state | operations | talks to | hard because |
|---|---|---|---|---|
| `matkermit/kermit.c` | one packet buffer `kpacket` for sending and receiving, global `kseq`, `lastseq`, `nretry`, the output | `kermit_send`, `kermit_recv`, `kermit_get`, `kermit_req` | HP calculator, serial line | loss, repeats, bad checksums, over-reads, a line that breaks, NAKs still in flight, failures that are not noticed |
| `matkermit/xmodem.c` | `seq`, retry counters, `hpxm_buf`, the output | `hpxm_creq`, `hpxm_get`, `pollread` | HP calculator, serial line | no packet boundaries, ACKs without number, polls that time out too early |
| `matirc2` session (`main.c`, `commands.c`, parts of `screen.c`) | servers, their windows (channels), `server_current`, `channel_current`, sockets, nick, `changed` and `part` flags | keys, typed commands, lines from servers | IRC servers | two globals every handler must keep consistent; what the user does crosses what the server sent; arrays that shrink under a loop |
| `netmsg-fb/serv.bas`, `client.bas` | one global `packet`, mutex, connection | main loop with `GetString` and `SendProtoMsg`; `RecvThread` | each other, over TCP | two threads on one packet, cut packets, connecting before accepting, ending |
| `netmsg-fb/server.bas` | client list, a send buffer and two condition variables for each client | `serverAdd`, `serverDel`, `serverReceive`, `serverSend`, `serverAccept`, `serverEnd` | many clients | lost wake-ups, threads that wait for each other, removal by three threads |
| `flua/src/lgc.c` | object lists, colours, gray lists, sweep pointers, weak tables, finalizers, collector state and mode | `luaC_step`, `luaC_fullgc`, `luaC_changemode`, barriers, `luaC_checkfinalizer` | the program (the mutator), `lfunc.c`, `lstring.c` | the program changes the heap between any two steps |
| `matyacc` | symbol table, rules, LR(0) automaton, lookaheads, action rows, packed tables; the parser's stack | `reader`, `lr0`, `lalr`, `make_parser`, `output`, `yyparse` | the next stage | empty rules, cycles of lookaheads, shared cells of one table, error recovery |
| `matpic` | labels, items, buffer, areas; hex file; listing | two passes, `ihex_write`, `ihex_read`, `disassemble` | the next stage | the first pass guesses what the second needs; scopes by position; areas in any order |
| `matirc2` entry line and scrollback (`screen.c`) | entry buffer, history ring, scrollback ring | editing keys, `screen_printf` | the session | ring boundaries |
| `netmsg-c/netmsg.c` | as `client.bas`, with curses | `recvthread`, `send_proto_message` | `serv.bas` | cut packets are processed |
| `minfree/minfree.c` | the lists, the largest process found so far | scan `/proc`, kill | the system | a pid is reused between scan and kill |
| `matkermit/io.c` (copies in `matpic`, `scopeimg`) | an output buffer for each handle | `mfwrite`, `mfflush`, `mftrunc`, `mfread` | all of these | flush at the buffer's end, errors in the middle of a write |
| `sto/*/sto.c` | the archive position | create, list, extract | files | files that change in the middle |

Correctness by part. *matkermit*: the output is the file, in order, once, and
complete when success is reported; a request ends. *matirc2*: the focus, the
unread marks, the nick and the PART flag say what is the case. *netmsg*: a line
is shown as its user typed it, none is lost, the programs end together.
*server.bas*: a client is removed once, no thread waits for ever. *flua*: nothing
reachable is freed, everything else is in the end, finalizers and weak tables do
as the manual says. *matyacc*: the parser accepts the grammar's language and
rejects at the first wrong token. *matpic*: bytes and addresses are what the
source says, through hex file and listing and back.

`PROJECT.json` lists every component, the hazards with their lines, and the
definitions with the code they model.

## 2. Modules

| module | of | what it is |
|---|---|---|
| `KermitTransfer` | what a request promises | abstract: chunks are delivered in order, and the request completes only with all of them |
| `Kermit` | `kermit.c` | the client in detail, calculator and line |
| `KermitProofs` | | theorems about `Kermit` |
| `HpXmodem` | `xmodem.c` | the download, calculator and line |
| `HpXmodemProofs` | | theorems about `HpXmodem` |
| `MatIrc` | `matirc2` session | windows, servers, connections, IRC server |
| `MatIrcProofs` | | theorems about `MatIrc` |
| `NetmsgChat` | `serv.bas` + `client.bas` | both programs, two threads each, and the connection |
| `NetmsgChatProofs` | | theorems about `NetmsgChat` |
| `NetmsgServer` | `server.bas` | accepting, two threads for each client, removal, the end |
| `NetmsgServerProofs` | | theorems about `NetmsgServer`: the buffer and removal |
| `NetmsgServerListProofs` | | what a turn of each thread amounts to; the client list |
| `NetmsgServerHangProofs` | | nobody waits for ever |
| `LuaGc` | `lgc.c` and its callers | the collector's steps between the program's operations |
| `MatYacc` | `matyacc` | grammar to tables, and the parser on the tables |
| `MatPic` | `matpic` | assembler, hex writer and reader, disassembler, and round again |
| `MatPicExpr` | `misc.c` | expressions: what an argument is worth |
| `MatPicArch` | `pic14b.c`, `pic18f.c` | the two instruction sets, encoded and decoded |
| `MatPicProofs` | | theorems about `MatPic` |
| `MC*` | | modules for TLC; the `.cfg` files give the constants |

In each module the section comments name the functions, variables keep the
code's names, and definitions marked *Seeded bug* or *Mutant* are variants used to see
that a property can fail; they are not part of a specification.

### Kermit

An action of the client is one turn of `kermit_get`'s loop: `kermit_recv` takes a
packet (`ReadPacket`, `ChecksumOK`) and `Process` is the switch, with one
disjunct for each case. `kpkt` is the shared buffer: `Send` overwrites it, and
that matters, because `kermit_get` does not notice a failed `kermit_recv`
(`GiveUp`, `ReceiveBroken`) and processes what is in it. Positions (`pos`,
`acc`) are history; the client decides only by type, sequence number and data.

Choices: what an over-read swallows is the packets behind the one it completes
(`kpacket` is larger than a packet). A packet is lost when it is first in line
and the client is waiting, because an earlier loss looks the same to everyone.
A packet whose checksum is right is undamaged: a one-byte sum misses some damage,
and what it misses is out of the model. `"done"` is final because the program
exits. A data packet's decoding and write is one step (no write error, as
`kermit_decode` ignores them). `wedged` is the read loop of line 80, which never
ends once a read returns 0 in the middle of a packet.

The properties say what the client relies on, `Sound`: `kermit_recv` never gave
up, and the calculator did not abandon a transfer.

### HpXmodem

The line carries cells. A block is four cells (start byte, number, complement,
data with CRC) in place of 133 bytes, so that a lost cell puts every following
read out of step, as a lost byte does. `Damaged` stands for a header byte that
arrived wrong, `BadData` for data that do not fit their CRC; data in the place of
a header may look like any number near the one that is due (`Numbers`). Damage
to number and complement that happens to match is out of the model. A short
read may hold an EOT or a cancel by accident (`LooksLike`).

A port can hang up (`HangUp`). From then on `poll` succeeds at once and every read
gives 0 or -1, which `pollread` adds to its position: its loop does not end
(`PollSpins`). The step stands for the moment when what had arrived before has been read.

Two facts about the past restrict the properties, since the code does not
survive them: `early`, a poll timed out although an answer was under way
(the comment of `POLL_DELAY` says the delay is chosen so that this does not
happen), and `misread`, data was taken for an EOT or a header. `SuccessIsWhole`
has three parts: the type invariant with the order of the output; that the
calculator is never ahead; that success means the whole file. `seq` is an `int`, so
a file of 256 blocks or more is not numbered by a byte any more; the properties say
so (`NBlocks < ByteMod`). Errors of `mfwrite` are ignored by the code and do not
occur in the model.

More conditions came out of the proof, and without them TLC finds counterexamples
with larger constants. When a poll times out early, lost bytes can bring the header
of one block next to the data of another; the CRC does not cover the number, so the
block is written in the wrong place (2 blocks and 4 faults). It takes as many lost
cells as a block has; `Tellable` also asks that no number looks like the complement
of another, which the proof needs, and leaves open what early timeouts do to files of
more than 124 blocks. And a block of which the line takes all but the
number may look like a lone EOT, when the number is 4 (4 blocks and 3 faults, hence
`MaxFaults < BlockLen - 1`). In bytes these are 132 and more losses, and the run's
bounds are inside the conditions; but the order of the output does not hold whatever
the line does.

### MatIrc

One action for each key, typed line and received line. The key that closes a
window is `CloseChannel`, or `CloseServer` when the server's own window is
shown; `realloc` to no bytes may return NULL, in which case the program ends
(`...Exits`). When the focused window belongs to another server than
`server_current` (`~Owned`, `channel_create` makes this possible), closing it is
undefined behaviour, and the model stops there (`CloseForeignChannel`). Text is
one kind of line: what tells lines apart here is which window they go to. The
connection, with the nick and the joined channels the server has, is external; a
reconnect starts a new one (the code forgets the old socket).

### NetmsgChat

The threads of a program interleave at every access to `packet`:
`SendProtoMsg` is `SetMsg`, `SetType`, `SetName`, `Send`, `Echo`, with the mutex
held; `RecvThread` is a receive, a look at the type, a print and the status bar,
which needs the mutex. Nothing guards the receive. The main loops send a line only if
it has more than one character; the others (`short` in `plan`) end with `TypeShort`. A packet is two cells on the
stream, so that it can be cut. `GetString` takes and releases the mutex while
it waits; that makes other threads wait and changes nothing else. `clash` records that one thread wrote
the packet while the other used it, after which anything may be shown; `cut`
that a part of a packet was dropped. Sending to a program that has ended is
dropped, and what a program sent before it ended still arrives. The server's
answer to BYE! (`LookFinal`) needs a packet that `client.bas` does not send.
`plan` bounds what the users do, and is chosen once.

### NetmsgServer

A program counter for each thread: the main loop and `serverEnd`, the accepting
thread, and for each client the receive and the send thread, which interleave at
each access to what they share. `serverDel` (`Del`) is run by any of the three
threads and has a step for each of its accesses: the test of `client->socket`,
the swap, the signals, the waits for the other threads, the two
`conddestroy`, the two halves of the unlinking. A condition is `none`, `live` or
`gone`; `Signal` wakes the thread that waits and is lost otherwise, as FreeBASIC's
`condsignal` without a mutex does. The first half of linking a new client and the
stores of its thread handles (after the threads run) are steps of `Accept`. The
memory of a new client is not cleared and the length of its send buffer not set:
`plan.junk` is what it holds (`Dirty` if that is more than nothing), and the send thread
may send it, fail, or make the receive thread wait, before the client has asked for anything.

The code has windows in which this goes wrong. `windows` records which ones a
behaviour met: `raced` (two threads pass the unlocked test together), `early` (a
thread removes the client before its handles are stored), `crossed` (two threads
change the list at once), and lost signals; `misused` records each use of a
condition that is not live. The properties say that there are no other windows:
this is what a fix of those would have to establish. What they say of a buffer and of
answers, they say of clients that are not `Dirty`: of the others it is not true.

### LuaGc

`g` is the whole `global_State` and the heap as one record, and each function of
`lgc.c` is an operator from one such record to the next; the actions are the
program's operations (`New`, `Intern`, `SetTable`, `Closure`, `SetUpval`, ...)
with their barriers, `CallFinalizer` and the collector's `Step`, `Minor`, `Full`,
`SetMode`. flua is Lua 5.2.3 with changes. The scale: a table has one hash node and no
array part; the mode of a weak table stands for its metatable, which the registry
holds; a thread's stack has the `Slots`. Where the C code takes the first element
of a gray list, `CHOOSE` takes one, the same at every visit (what the order
decides is only which ephemerons are visited first). Finalizers are called one at
a time as steps of their own; a collection caused by a failing allocation happens
between the program's operations. Sizes, debts and pauses are left out: when a
step happens is open.

The gray lists are sets, but C links them through one field of the object. So `Link`
records in `twice` each object that is linked while it is in a list, and `TriColor`
says that there is none. There is one exception in the code: `markbeingfnz` makes every
object of `tobefnz` white and marks it, a table that is linked already as well; its
list is then closed on itself or cut off, and the program may hang. The model stops there
(`stuck`), which takes a table with a finalizer that another object to be finalized
holds, or one that is weak.

`Scenarios` say which kinds of objects a program is made of; each is explored
with all orders of operations and steps. Object ids are reused, so that a pointer
to a freed object is seen as pointing to a free or a wrong one.

### MatYacc

`Reader` is the whole of `reader.c` on a text of elements, a left fold with one
operator for each kind of element; `NextStates` is one turn of
`generate_states`, `Lookaheads` is `lalr`, `MkPar` `make_parser`, `WriteTables`
`output`. `Run` gives the generated parser any input of used tokens, and `Parse`
is `yyparse` one decision at a time. Items, states, symbols and rules are numbered and ordered
as in the code, so that precedence of rules, the choice of the default reduction
and the places of rows in the packed table come out as in the code. `Digraph` and `Traverse`
keep the stack and the indices of the code's strongly connected components.

The reference definitions in the last section do not follow the code: sentences
by derivation (`Words`), the canonical LR(1) automaton merged by cores
(`Canonical`), what each rule's case must be (`CaseIsRule`).

### MatPic

A line of the source is a label, an operation and arguments; an expression is the
flat list `numarg` sees. `Pass1` takes a line; in the second pass `PassIns`, `PassOrg`
and `PassLabel` take an item of `inss`, and data are taken by `PassArg`, an argument
at a time, and `PassData`, which ends them. `outbuf` is the byte buffer with the
marks the first pass leaves there (0 for a string, 1 for a number), which the second
pass reads again. `WriteOrg`, `WriteLine`, `WriteNext` and `WriteEnd` are `ihex_write`,
a line of the file each, `Read` is a line of `ihex_read`, `DisIns`, `DisData` and
`DisNext` a turn of `disassemble`. `Again` gives the listing of `-r` to the assembler.
`image` and `clash` are history (which bytes were assembled where), as are `ats`,
`equ`, an org's `start` and a hex line's `seg`. A segment of the hex file is 16
addresses instead of 65536 in the run.

A path `a.b` is looked up as in `getval`: `PathStep` also has that `cmplid` moves past the
first name of a label that is rejected afterwards, so that the rest of the search finds nothing.
A string in an expression is added to what the variable held, `Unset`, one
number of the run. An instruction of two words may be cut by the end of a line of the hex
file, which ends an area for the disassembler: `Cut` is the bytes of those second words.

What an expression is worth (`Value`, `Values`) and what an instruction set makes of
operands and opcodes (`Arity`, `Opcode`, `Operands`, `Mask`, the table `Arch`) are
parameters of `MatPic`: it keeps passes, labels, buffer, areas and file, and
`MatPicExpr` and `MatPicArch`, which need recursion and operators on bits, define the
parameters that the runs give it. So `MatPic` can be proved about for any of them.

Not modelled: the preprocessor (`ppc.c`), radix and the digits of numbers, prefix
characters, strings with commas in them, line numbers, messages, checksums (a hex
line is right or is not there). Bound: a program whose addresses leave 0..2^31 - 1
(`AddrTop`) is not followed any further (`Fits`): a label's address is an `int`, and
the upper half of an address has four digits in the hex file.

## 3. Runs

| run | asks | bounds |
|---|---|---|
| `kermit_safety` | order, no repeat, no false ACK, no restart; every step implements `KermitTransfer` | 2 chunks, sequence numbers modulo 2, 1 retry, 2 corrupt packets, 1 abandoned transfer, 3 packets in flight |
| `kermit_live` | a request completes | the same, 1 corrupt packet, no lost ACK, no break, no over-read |
| `xmodem` | order, completeness, why "lost packet", the download ends | 2 blocks, 3 tries, 2 faults, early timeouts, a hang-up at any time; 2.5 million states |
| `irc` | focus, unread marks, PART flag, nick and joins agree with the server | 2 servers, 2 windows, 1 channel, 3 nicks, 2 lines under way; 623 thousand states |
| `chat` | lines shown as typed, none lost; both programs end | 2 lines each, or 2 and 3 with one of a single character on each side, without /quit; or 1 line and a /quit from either; packets cut anywhere; 187 thousand states |
| `server` | removal, list, hand-over, nobody waits for ever | 2 clients: one asks twice and hangs up, ESC any time, its send buffer empty at first or not; both come and go; both wait when ESC is pressed; 1.7 million states |
| `server_wakeup` | what the comments of `server.bas` say of waiting; violated | the same |
| `lua_gc` | nothing reachable freed, colours, full collections, finalizers, weak tables | 9 kinds of programs of at most 4 objects, 2 stack slots, 2 objects swept in a step; 238 thousand states |
| `lua_ephemeron` | what the manual says of ephemeron tables; violated | 1 table, 1 userdata |
| `yacc` | automaton, tables, cases, language, errors, end | 14 written grammars and all of a shape with 2 variables and 2 tokens; inputs of at most 4 tokens; stack of 5 |
| `matpic` | expressions, scopes, addresses, collisions, hex file, listing | expressions of 4 operands with all operators; 3 labels at 3 levels; 3 areas of 3 items; every instruction with up to 3 arguments; instructions cut by hex lines; 221 thousand states |
| `matpic_pad` | what redme.txt says of padding; violated | one byte or word after one byte |

Why these bounds. Modulus 2 is the worst case for telling a repeat from the next
packet (64 in the code), and five packets wrap it twice. `LinkCap` and `Cap` only
stop timers and new lines, never an answer. Two chunks show a loss, a repeat and
an exchange; two blocks and two faults let one block be repeated and the next
skipped. Two windows on two servers are what a foreign focus needs. In `irc` the
constraint `Few` has one server with two windows or two with one each, lets the
nick differ from the first one only where there are one server and one window, and has two
lines under way at a time there: a NICK of the user that crosses a rename by the
server, and a JOIN that comes back under the old nick. Three nicks make the two renames
different. Two clients are what two neighbours of the list and a
crossing of their removals need. A barrier is missed with two objects and a stack
slot; the prototype's cache needs a second closure, and an open upvalue a thread
that dies. A cycle of includes needs two nullable variables. Overlaps of two areas
take three items each to be of every kind. The view of `lua_gc` identifies states
that differ only in the name of the current white, in the order of a stack that no
upvalue points into, and in gray lists that have no meaning outside the marking
phase. Tables with weak keys or weak values can have finalizers, those with
weak values in the generational mode as well. Deadlock is not checked because the programs end, and an idle IRC client
with nothing under way waits; `NothingHangs` is the deadlock property of the
server, which really may be idle.

Fairness. The client or thread that can run runs (weak fairness). In `Kermit`
the line may lose packets for ever, so receipts and the calculator's answers are
strongly fair: what is sent again and again arrives in the end; the calculator's
timers run out (weak). `kermit_live` excludes lost ACKs (`MayLoseAck = FALSE`),
because the code never sends an ACK twice and a lost one hangs it. Over-reading is
left out there because swallowing the calculator's packets is not bounded by
anything in the code. In `HpXmodem` the calculator answers and bytes arrive
(weak), and the port need not hang up: `Ends` asks only of a download whose port stays up
that it ends. In `NetmsgChat` the server's user enters a nick and no one has to type. In
`MatYacc` the parser goes on (weak). `MatIrc` has no liveness property: the client
waits for its user. `LuaGc` has none: the program need not allocate; that a full
collection is complete from every state (`FullCollects`) takes its place. `MatPic`
is finite.

## 4. What the runs found

Three runs are violated, each a disagreement of the code with its documentation:

* `server_wakeup`: the receive thread of `server.bas` waits "until it's okay to
  receive" although it is: the signal came between its test and its wait.
* `lua_ephemeron`: `traverseephemeron` files a table under `allweak` for the entry it has
  when it is visited, a white key with a marked value. The program then replaces that
  entry by another whose key is reachable (the table itself in the run) and whose value is
  white; the table is gray, so the barrier does nothing, and `clearvalues` removes
  the entry by its value.
* `matpic_pad`: the padding of an odd number of data bytes has no room in the
  buffer, and the next number is read as a string that is not there.

`PROJECT.json` quotes the lines and lists what was met without a run of its own:
`kermit_get` ignores a failed `kermit_recv`; `kermit_req` returns 1 after a remote
error; lines typed before the chat server has a nick are not dropped; the chat
client's /quit does not end it; /connect without a server goes on into /server;
`serverDel` destroys a condition that is still used; strings in cells of more than
a byte are counted twice; `colcheck` misses one kind of overlap; the addresses of
a listing stop at data; an instruction cut by two hex lines is not listed as what it is; the
value of a string starts from an unset variable and has its bytes the other way round;
a rejected label takes the first name of a path away; `pollread` spins on a port that
hung up; the chat drops lines of one character; closing a window of another server leaves it in that
server's array; a new client's send length is not set; and `markbeingfnz` links a table
twice, after which `collectgarbage()` may not return.

Properties that had to be restricted to be true name the restriction in the
module: `Sound` in `Kermit`, `early`, `misread`, `hung`, `Tellable` and the bounds on
`NBlocks` and `MaxFaults` in `HpXmodem`, `clash`, `cut` and `Short`
in `NetmsgChat`, `windows` and `Dirty` in `NetmsgServer`, `stuck` in `LuaGc`, `OneWord`,
`Strings`, `HasData` and `cut` in `MatPic`. These are the places where the code does what the
property says it should not, and each is
among the findings or hazards of `PROJECT.json`. In `MatYacc`, the language is asked about where no conflict was settled
(`Unambiguous`), errors also where every symbol can be derived to the end
(`productive`); and the parser of a grammar in which a variable derives itself
(`S : S | 'a'`, whose conflict in the final state `remove_conflicts` does not count)
may never end.

## 5. Proofs

`KermitProofs` proves for every file length, modulus of at least 2, number of
retries and bound on the line (the named assumption `KermitAssumption`):
`TypeCorrect`, `PrefixTheorem`, `AckedTheorem`, `SuccessTheorem`,
`NoRestartTheorem`, and that `Kermit` implements `KermitTransfer`:
`RefinementTheorem` step by step up to the first failure, `TransferTheorem` for a
behaviour without one (no run asks this again: `StepsImplement` is the same step relation).

The safety properties are not inductive. `IInv` adds what makes them so, while
`Sound` holds: the client is at the calculator's packet or one behind
(`Lockstep`); packets to the client are the file's packets between the two, in
order (`ToClient`, `Ordered`); at most one ACK is in flight and it is that of the
packet being sent (`ToServer`); `lastseq` is the number of the last packet
accepted (`LastSeen`), so with neighbours of different numbers (`SeqFacts`) the
duplicate test is exact; and the buffer holds nothing that a failed read could
turn into a new packet (`Buffer`). The steps of `IInv` are split by action, first
those of the client, then calculator and line. `NoRestartTheorem` is an action
property from the same invariant. For the refinement a turn of `kermit_get`'s loop
maps to a delivery (`TakeData`), to the end of the transfer (`TakeEnd`,
`TakeFinal`) or to a stutter (`ProcessImplements`), and everything else but a
failed send is a stutter.

`NetmsgServerProofs` proves two properties of the server for any clients, plans and
length of an answer (`ServerAssumption`): `HandsOver` (`BufferHandedOver`) and
`RemovesOnce` (`RemovedOnce`), whatever a new client's memory holds, the first for the clients
that are not `Dirty`. It rests on `Inv`: threads stay in their
programs (`InPlace`), the accepting thread sets a client up before its threads run
(`Adding`), the socket is open from then on until a thread has taken it (`Opened`),
and while an answer is in the buffer the receive thread is not on its way to the
next one (`HandedOver`); no signal has to arrive for that, lost ones only cost
time. The second adds `Removal`: as long as neither window was met, one thread at
most is past the test of `serverDel`, and a condition it is about to destroy is live,
with the thread that waits for it past its loop (`InOrder`). Each has a lemma for
each step; those of `Removal` for steps outside `serverDel` go back to one (`Frame`),
and the two ways into it to another (`Begins`).

`NetmsgServerListProofs` proves `ListsMembers` (`ListIsMembers`). It first says in one
relation what a turn of each thread amounts to (`ReceiveMove`, `SendMove`, `DelMove`,
`AcceptMove`, `MainMove`); every such step leaves the list alone (`Plain`), so that only the four
steps that write pointers are left. The invariant is `Membership`, a client comes in
once (`Distinct`, `Comes`) and the one thread that removes it takes it out (`Leaves`),
and `Chain`, what the pointers are at rest and half way: while a new client is
linked, the list read from the head has it already, and a client unlinked from the
tail's side is still a bridge between its neighbours from the head's (`Bridged`).
With two threads half way at once this breaks, which is the window `crossed`.

`NetmsgServerHangProofs` proves `NeverHangs` (`NothingHangs`) on top of the other three
parts (`Known`). `HangInv` says of each thread that waits who will wake it: the receive
thread waits for an answer that is still to be sent, and the send thread for one
still to be announced (`Talks`); a thread that `serverDel` has sent a signal to is past
its wait and cannot come to the next one (`Frozen`), which takes that it was not about
to wait (the window `lost`) and that the handle was set (`Handles`, the window
`early`); a client whose socket is closed has a thread that is removing it until it
is out of the list (`Leaving`). `Lives` and `Serving` hold whatever window is met: who
has not begun is about to be started, and until ESC only a client that hung up is
removed. From these, a state in which every thread is blocked has nobody in `serverDel`
(`BlockedPlaces`), then no closed client in the list (`BlockedClients`), and then the
property. It is a safety property, that there is no deadlock and no missed signal: that
the threads get there is not stated.

`NetmsgChatProofs` proves `ShowsAll` (`NothingLost`) for all plans of the two users.
Its invariant follows a line from one end to the other: typed and held by the main
thread (`Held`), put into the packet field by field (`Filling`), on the stream as a
head and a tail (`Whole`), in the packet of the other side (`Received`), on its screen
(`Shown`). At each place the texts come after those further on (`After`) and are not
newer than the last one sent (`Limit`), so that order is kept and nothing is doubled.
This holds until a clash. That nothing is missing needs more: while the stream is not
cut it begins with a head (`Uncut`), and every line typed is somewhere between user and
screen (`Somewhere`), unless one program is over (`Over`). The steps that matter are
`Send`, which appends two cells, and the receipts, which take one or two.

`MatIrcProofs` proves for any nicks and channels, any number of servers and windows and
of lines under way: `UnreadMarked`, `PartFirst`, `NicksAgree`, `JoinedWindow`, and
`FocusOwned`, an action property. `Inv` has two halves. The client's: no window is in
two servers' lists (`Apart`), `changed` is what was printed and not shown (`Marks`), no
window that will leave its channel stands behind one of the same name (`Firsts`,
since the code looks a window up by name and takes the first). The connections'
(`Lines`, with `LinkOK` for each server that has a socket): NICK lines under way to the
client form a trail that ends in the nick the server has now (`Chained`); the client's
nick is on that trail, or the last NICK line it sent makes it the server's (`Follows`);
a JOIN line will be recognised as the user's own when it arrives (`JoinsFollow`); and
a channel the server has the user in has a window with the flag, or a JOIN for it is
coming, or a PART is going (`Covered`). None of the four properties is inductive without these:
the agreement they state is of a connection with nothing under way, and it is the
lines under way that make it so. The lemmas before the actions say what sending, hearing and
removing one line does to a trail (`Asks`, `Hearing`, `MoreToC`), and what removing a
window does to a list (`Removed`, `FirstRemoved`).

`HpXmodemProofs` proves `Whole` (`SuccessIsWhole`) and `LostEarly` (`LostOnlyIfEarly`,
an action property) for any number of blocks, of retries and of faults and any
byte that has room for the control codes (`HpXmodemAssumption`). `Inv` has two parts
besides types and counts. `Together` holds however the polls time out, where numbers
and data can be told apart: on the line the cells in front of a block's data are
its own (`Clean`), in what has arrived a complement and the data behind it are of one
block (`Fits`), and at the seam between the two it takes a fault for each cell that is
missing (`Junction`). `Turn` holds while no poll timed out early: client and calculator
take turns (`Exchange`), at most one message is under way, of an answer no more is
missing than faults account for (`Remains`), and the calculator is not past what the
client has (`Near`, `Reached`). A whole block read is then the calculator's with its
own number or none (`BlockRead`), its place in the file follows from the number
(`NumberPlace`), and "lost packet" cannot be reached. `Reached` allows for files too
long to be numbered: once `seq` is no byte, no header matches it any more.

`MatPicProofs` proves four properties of the assembler for any programs, instruction
sets and expressions, any segment and any length of a hex line (`MatPicAssumption`,
and `ArchAssumption`: instructions have one word or two, none is called like a
directive). `Invariance` is that of `IInv`, which has five parts. `StateInv` says that
the globals fit together in every phase: the entries refer to labels that are there,
the buffer is long enough for what is at `bufp`, one org is the last one before an
entry (`LastOrg`), the entries end with "end", the listing is a program.

* `CollisionsAreFound` (`CollisionsFound`): `CollInv` adds that while nothing
  collides every byte of the image is in an area of `map` or in the one under way
  (`AreasInv`), whose end is the address. With items of one word each the three tests of
  `colcheck` that can hold see every overlap, because an area grows by one word at
  a time; of longer items this is false, which is why the property asks for `OneWord`.
* `HexIsTheImage` (`HexIsImage`): the argument follows a byte through four
  places. `LaidInv`: an org's bytes in the image are those in `outbuf` from its `start` to its
  end, and the address is in step with `bufp`. `DoneInv`: after the pass the orgs go
  on from each other in the buffer (`GoesOn`), which `ihex_write` relies on when it does
  not reset its own `bufp`. `WriteInv`: a byte is written already (`Written`) or still to
  come (`ToCome`, `Remain`), and each line of the file is right under the upper half of
  the address in force there (`HexInv`, `SegAt`). `ReadInv`: the areas read so far are
  those of the lines read so far. None of these follows from the property, which
  speaks of the end only.
* `LabelsAreInPlace` (`LabelsInPlace`): `LabelInv` says that the address the first pass
  had at each entry (`ats`) is what the entry before it makes of its own (`After`), and
  that the second pass is at that address. For data this takes that the arguments
  that were counted (`Words`) are the bytes that are written, which is false of strings
  (`Strings`).
* `LocalsAreInScope` (`LocalsAreScoped`): `ScopeInv` says that labels nest: between a
  label and the one it is local to there is none that is less local, and no two have
  name, level and owner in common (`ScopedLabels`). The search backwards from `llbl`
  (`Nearest`) and the climb from owner to owner (`OwnerOf`) then end at the same label
  (`OwnerIsNearest`), and there is at most one label of that owner.

Functions that are defined by recursion on an index (`CountArgs`, `Path`, `OwnerOf`)
are proved to exist by the first lemmas of the module (`Inductive`, `Recursion`).

Each invariant was first checked by TLC with the constants of its module's run, and
those of `NetmsgChat`, `MatIrc` and `HpXmodem` also with larger ones: longer plans; two
lines under way; more blocks and faults, and more blocks than a byte can number.

Only model-checked: liveness (fairness and ENABLED are out of TLAPS's reach here);
`PrecedenceKept`, which is about expressions (`MatPicExpr` takes them apart by RECURSIVE
operators and uses `Bitwise`); `ListingIsProgram`, which needs that the tables of
`MatPicArch` decode what they encode, a fact of those tables and of operators on bits; and
the properties of `LuaGc` and `MatYacc`, whose definitions (marking, the LALR
look-aheads, sentences) are RECURSIVE operators: theorems about these are out of
reach of the installed provers.

## 6. Not modelled, and what could follow

* `matirc2`'s entry line, history and scrollback rings; `matkermit/io.c` as a
  refinement of a byte sink; `minfree`; `netmsg-c`; `sto` (extract after create);
  `hpxm_recv` and `hpxm_ireq`, which only code that is commented out calls.
* flua's compiler, interpreter and libraries: the collector is its part with state
  that tests hardly reach. matyacc's scanner, listing and graph; matpic's
  preprocessor: text in, text out.
* The window-system tools, device I/O, firmware in assembler, single passes over a
  file, third-party code (`md5.c`, C library routines) and fragments, as listed in
  `PROJECT.json`.

## 7. Running

    tlc -config MCKermit.cfg MCKermit        # and the other .cfg files
    tlapm KermitProofs.tla                    # and the other *Proofs.tla

Each `.cfg` belongs to the module whose name it starts with.
