---------------------------- MODULE NetmsgServer ----------------------------
(***************************************************************************)
(* netmsg-fb/server.bas: the server for many clients.                      *)
(*                                                                         *)
(* Every client has a receive thread and a send thread, which hand its     *)
(* send buffer to each other with two condition variables, and any of the  *)
(* two, or the main thread at the end, removes the client (serverDel).     *)
(* Threads interleave at every access to what they share.  condwait takes  *)
(* no mutex: a signal wakes the thread that waits and is lost when none    *)
(* does.                                                                   *)
(*                                                                         *)
(* The code has windows in which this goes wrong.  "windows" records those *)
(* a behaviour went through, and the properties say that there are no      *)
(* others.                                                                 *)
(***************************************************************************)
EXTENDS Integers, Sequences, FiniteSets

CONSTANTS
  Clients,    \* the clients that may connect
  Plans,      \* bound of the model: who calls and sends how many messages, what
              \* allocate leaves in its node as the length of the send buffer, who may
              \* hang up, and whether ESC is pressed, at any time or when all are
              \* connected and their threads wait
  Nil,        \* NULL
  MsgLen      \* bytes of an answer; send may take part of them

ASSUME ServerAssumption ==
  /\ Nil \notin Clients
  /\ Plans \subseteq [calls : [Clients -> Int], junk : [Clients -> Nat],
                     hangUp : SUBSET Clients, esc : {"any", "idle", "no"}]
  /\ MsgLen \in Nat \ {0}

VARIABLES
  pc,         \* where each thread is
  running,    \* ctx.isrunning
  victim,     \* serverEnd's client
  newcomer,   \* serverAdd's client
  sock,       \* client->socket: NULL or open
  rthread, sthread,   \* are client->recvthread, client->sendthread set?
  slen,       \* client->sendbuffer.len; 0 stands for all that is not positive
  cond,       \* the client's two conditions: "none", "live", "gone"
  head, tail, nxt, prv,   \* ctx.clientlist
  plan,       \* the plan of this behaviour
  peer,       \* the client program: "none", "calls", "up", "gone"
  left, wire, \* its messages: still to be sent, and under way
  owed,       \* history: requests processed and not yet answered in full
  members,    \* history: the clients added and not removed, in order
  misused,    \* history: where a condition was used or destroyed that was not live
  windows     \* history: see above

shared == <<sock, rthread, sthread, slen, cond>>
list == <<head, tail, nxt, prv, members>>
net == <<plan, peer, left, wire>>
ctl == <<running, victim, newcomer>>
vars == <<pc, ctl, shared, list, net, owed, misused, windows>>

-----------------------------------------------------------------------------
R(c) == <<c, "recv">>
S(c) == <<c, "send">>
Main == <<Nil, "main">>
Acceptor == <<Nil, "accept">>
Threads == (Clients \X {"recv", "send"}) \union {Main, Acceptor}

DelLabels == {"swap", "r1", "r2", "rjoin", "rdes", "s1", "s2", "sjoin", "sdes",
              "unlink1", "unlink2"}
RecvLabels == {"off", "test", "recv", "proc", "sig", "wait", "waiting", "del", "end"}
SendLabels == {"off", "test", "len", "send", "sig", "wait", "waiting", "del", "end"}

AddLabels == {"link1", "link2", "fill", "runR", "setR", "runS", "setS"}
Labels == DelLabels \union RecvLabels \union SendLabels \union AddLabels
            \union {"run", "pick", "accept"}

TypeOK ==
  /\ pc \in [Threads -> Labels]
  /\ running \in BOOLEAN
  /\ victim \in Clients \union {Nil} /\ newcomer \in Clients \union {Nil}
  /\ sock \in [Clients -> {"null", "open", "junk"}]
  /\ rthread \in [Clients -> BOOLEAN] /\ sthread \in [Clients -> BOOLEAN]
  /\ slen \in [Clients -> Nat]
  /\ cond \in [Clients -> [recv : {"none", "live", "gone"}, send : {"none", "live", "gone"}]]
  /\ {head, tail} \subseteq Clients \union {Nil}
  /\ {nxt, prv} \subseteq [Clients -> Clients \union {Nil}]
  /\ peer \in [Clients -> {"none", "calls", "up", "gone"}]
  /\ plan \in Plans /\ left \in [Clients -> Int] /\ wire \in [Clients -> Nat]
  /\ owed \in [Clients -> Nat]
  /\ members \in Seq(Clients)
  /\ misused \subseteq {"signal", "sent", "wait", "destroy"}
  /\ windows \subseteq {"lost", "raced", "early", "crossed"}

Init ==
  /\ pc = [t \in Threads |-> CASE t = Main -> "run" [] t = Acceptor -> "accept"
                               [] OTHER -> "off"]
  /\ running = TRUE /\ victim = Nil /\ newcomer = Nil
  /\ sock = [c \in Clients |-> "null"]
  /\ rthread = [c \in Clients |-> FALSE] /\ sthread = [c \in Clients |-> FALSE]
  /\ cond = [c \in Clients |-> [recv |-> "none", send |-> "none"]]
  /\ head = Nil /\ tail = Nil
  /\ nxt = [c \in Clients |-> Nil] /\ prv = [c \in Clients |-> Nil]
  /\ \E p \in Plans :
       /\ plan = p /\ left = p.calls /\ slen = p.junk
       /\ peer = [c \in Clients |-> IF p.calls[c] >= 0 THEN "none" ELSE "gone"]
  /\ wire = [c \in Clients |-> 0]
  /\ owed = [c \in Clients |-> 0]
  /\ members = <<>> /\ misused = {} /\ windows = {}

-----------------------------------------------------------------------------
(* Steps of a thread.  The program's end ends all of them.                 *)

At(t, l) == pc[t] = l /\ pc[Main] # "end"
Go(t, l) == pc' = [pc EXCEPT ![t] = l]
Use(how, c, which) ==
  misused' = misused \union (IF cond[c][which] = "live" THEN {} ELSE {how})
Enter(w) == windows' = windows \union w

\* Is a thread about to wait, past the test that would keep it from it?
Committed(t) ==
  \/ t[2] = "recv" /\ pc[t] \in {"proc", "sig", "wait"}
  \/ t[2] = "send" /\ (pc[t] = "wait" \/ (pc[t] = "len" /\ slen[t[1]] = 0))

\* condsignal: the waiting thread goes on; a signal that comes when it is about
\* to wait is lost.  t, the thread that signals, goes to l.
Signal(t, l, which, waiter) ==
  /\ pc' = IF pc[waiter] = "waiting" THEN [pc EXCEPT ![t] = l, ![waiter] = "test"]
                                     ELSE [pc EXCEPT ![t] = l]
  /\ Enter(IF Committed(waiter) THEN {"lost"} ELSE {})
  /\ Use(IF pc[t] = "sig" /\ t[2] = "send" THEN "sent" ELSE "signal", waiter[1], which)

\* condwait: from here on a signal is received.
Wait(c, t, which) ==
  /\ At(t, "wait")
  /\ Go(t, "waiting")
  /\ Use("wait", c, which)
  /\ UNCHANGED <<ctl, shared, list, net, owed, windows>>

\* The window of handles stored late: a thread is skipped that has not cleared
\* its handle, or the handle of one is stored that has.
Past(t) == pc[t] \in DelLabels \union {"del", "end"}
Early(b) == Enter(IF b THEN {"early"} ELSE {})

Only(t, l) ==     \* only the thread moves
  Go(t, l) /\ UNCHANGED <<ctl, shared, list, net, owed, misused, windows>>

\* the loops' condition
Keeps(c) == running /\ sock[c] # "null"

-----------------------------------------------------------------------------
(* serverReceive and serverProcess                                         *)

RecvTest(c) ==
  At(R(c), "test") /\ Keeps(c) /\ Only(R(c), "recv")

\* hReceive returns what has arrived, several messages as one; only the first
\* is looked at, and it may be no request.
RecvData(c) ==
  /\ At(R(c), "recv") /\ sock[c] = "open"
  /\ \E n \in 1..wire[c], l \in {"proc", "test"} :
       wire' = [wire EXCEPT ![c] = @ - n] /\ Go(R(c), l)
  /\ UNCHANGED <<ctl, shared, list, plan, peer, left, owed, misused, windows>>

PutAnswer(c) ==
  /\ At(R(c), "proc")
  /\ slen' = [slen EXCEPT ![c] = MsgLen]
  /\ owed' = [owed EXCEPT ![c] = @ + 1]
  /\ Go(R(c), "sig")
  /\ UNCHANGED <<ctl, sock, rthread, sthread, cond, list, net, misused, windows>>

\* Seeded bug: the receive thread does not wait for the answer to be sent.
SignalAndGoOn(c) ==
  /\ At(R(c), "sig")
  /\ Signal(R(c), "test", "send", S(c))
  /\ UNCHANGED <<ctl, shared, list, net, owed>>

SignalData(c) ==
  /\ At(R(c), "sig")
  /\ Signal(R(c), "wait", "send", S(c))
  /\ UNCHANGED <<ctl, shared, list, net, owed>>

\* The loop ends, or hReceive fails because the connection is closed here or
\* there: the thread clears its handle.
RecvExit(c) ==
  /\ \/ At(R(c), "test") /\ ~Keeps(c)
     \/ At(R(c), "recv") /\ (sock[c] # "open" \/ (wire[c] = 0 /\ peer[c] = "gone"))
  /\ rthread' = [rthread EXCEPT ![c] = FALSE]
  /\ Go(R(c), "del")
  /\ UNCHANGED <<ctl, sock, sthread, slen, cond, list, net, owed, misused, windows>>

Receive(c) ==
  \/ RecvTest(c) \/ RecvData(c) \/ PutAnswer(c) \/ SignalData(c)
  \/ Wait(c, R(c), "recv") \/ RecvExit(c)

-----------------------------------------------------------------------------
(* serverSend                                                              *)

SendTest(c) ==
  At(S(c), "test") /\ Keeps(c) /\ Only(S(c), "len")

SendLen(c) ==
  At(S(c), "len") /\ Only(S(c), IF slen[c] > 0 THEN "send" ELSE "wait")

\* sendbuffer.len is never set before the first answer: the node has what
\* allocate left there.
Dirty(c) == plan.junk[c] > 0

\* hSend takes some of the bytes, and ptr and len are moved.  An answer may be put
\* into the buffer while the bytes allocate left are on their way.
SendData(c) ==
  /\ At(S(c), "send") /\ sock[c] = "open"
  /\ \E n \in 1..slen[c] \union 1..plan.junk[c] :
       /\ slen' = [slen EXCEPT ![c] = IF n < @ THEN @ - n ELSE 0]
       /\ IF n < slen[c] THEN Go(S(c), "test") /\ UNCHANGED owed
            ELSE /\ Go(S(c), "sig")
                 /\ owed' = [owed EXCEPT ![c] = IF @ > 0 THEN @ - 1 ELSE 0]
  /\ UNCHANGED <<ctl, sock, rthread, sthread, cond, list, net, misused, windows>>

\* Seeded bug: the receive thread is not told.
SentSilently(c) == At(S(c), "sig") /\ Only(S(c), "test")

SignalSent(c) ==
  /\ At(S(c), "sig")
  /\ Signal(S(c), "test", "recv", R(c))
  /\ UNCHANGED <<ctl, shared, list, net, owed>>

\* hSend also fails when sendbuffer.ptr is what allocate left there.
SendExit(c) ==
  /\ \/ At(S(c), "test") /\ ~Keeps(c)
     \/ At(S(c), "send") /\ (sock[c] # "open" \/ peer[c] = "gone" \/ Dirty(c))
  /\ sthread' = [sthread EXCEPT ![c] = FALSE]
  /\ Go(S(c), "del")
  /\ UNCHANGED <<ctl, sock, rthread, slen, cond, list, net, owed, misused, windows>>

SendLoop(c) ==
  \/ SendTest(c) \/ SendLen(c) \/ SendData(c) \/ SignalSent(c)
  \/ Wait(c, S(c), "send") \/ SendExit(c)

-----------------------------------------------------------------------------
(* serverDel, run by thread t for client c                                 *)

\* The test for "not already removed?" and the swap are two steps.
DelTest(c, t) ==
  /\ At(t, "del")
  /\ IF sock[c] = "null"
       THEN Go(t, "end") /\ UNCHANGED windows
       ELSE /\ Go(t, "swap")
            /\ Enter(IF \E u \in {R(c), S(c), Main} \ {t} :
                        pc[u] = "swap" /\ (u = Main => victim = c)
                       THEN {"raced"} ELSE {})
  /\ UNCHANGED <<ctl, shared, list, net, owed, misused>>

\* Seeded bug: the socket is closed and stays in the client.
CloseOnly(c, t) == At(t, "swap") /\ Only(t, "r1")

DelSwap(c, t) ==
  /\ At(t, "swap")
  /\ sock' = [sock EXCEPT ![c] = "null"]
  /\ Go(t, "r1")
  /\ UNCHANGED <<ctl, rthread, sthread, slen, cond, list, net, owed, misused, windows>>

\* Wake the receive thread and wait for its end; the handle is read twice.
DelWakeRecv(c, t) ==
  /\ At(t, "r1") /\ rthread[c]
  /\ Signal(t, "r2", "recv", R(c))
  /\ UNCHANGED <<ctl, shared, list, net, owed>>

Skip(t, u, l) ==
  /\ Go(t, l) /\ Early(~Past(u))
  /\ UNCHANGED <<ctl, shared, list, net, owed, misused>>

DelNoRecv(c, t) ==
  \/ At(t, "r1") /\ ~rthread[c] /\ Skip(t, R(c), "rdes")
  \/ At(t, "r2") /\ Only(t, IF rthread[c] THEN "rjoin" ELSE "rdes")
  \/ At(t, "rjoin") /\ pc[R(c)] = "end" /\ Only(t, "rdes")

Destroy(c, t, which, at, l) ==
  /\ At(t, at)
  /\ cond' = [cond EXCEPT ![c][which] = "gone"]
  /\ Use("destroy", c, which)
  /\ Go(t, l)
  /\ UNCHANGED <<ctl, sock, rthread, sthread, slen, list, net, owed, windows>>

\* The send thread in the same way.  A thread that was only just created has
\* no handle yet, and nobody waits for it.
DelWakeSend(c, t) ==
  /\ At(t, "s1") /\ sthread[c]
  /\ Signal(t, "s2", "send", S(c))
  /\ UNCHANGED <<ctl, shared, list, net, owed>>

DelNoSend(c, t) ==
  \/ At(t, "s1") /\ ~sthread[c] /\ Skip(t, S(c), "sdes")
  \/ At(t, "s2") /\ Only(t, IF sthread[c] THEN "sjoin" ELSE "sdes")
  \/ At(t, "sjoin") /\ pc[S(c)] = "end" /\ Only(t, "sdes")

\* Removing from the list takes no lock.
Crossing(t) ==
  Enter(IF \E u \in Threads \ {t} : pc[u] \in {"link2", "unlink2"}
          THEN {"crossed"} ELSE {})

\* The members other than c: each is there once at most (Distinct of
\* NetmsgServerListProofs), and the proofs need where the others go.
Without(c) ==
  IF \A i \in 1..Len(members) : members[i] # c THEN members
  ELSE LET p == CHOOSE i \in 1..Len(members) : members[i] = c
       IN  [i \in 1..Len(members) - 1 |-> members[IF i < p THEN i ELSE i + 1]]

\* Seeded bug: the tail stays when the last client is removed.
UnlinkNextOnly(c, t) ==
  /\ At(t, "unlink1")
  /\ prv' = IF nxt[c] # Nil THEN [prv EXCEPT ![nxt[c]] = prv[c]] ELSE prv
  /\ members' = Without(c)
  /\ Go(t, "unlink2") /\ Crossing(t)
  /\ UNCHANGED <<ctl, shared, head, tail, nxt, net, owed, misused>>

UnlinkNext(c, t) ==
  /\ At(t, "unlink1")
  /\ IF nxt[c] # Nil THEN prv' = [prv EXCEPT ![nxt[c]] = prv[c]] /\ UNCHANGED tail
                     ELSE tail' = prv[c] /\ UNCHANGED prv
  /\ members' = Without(c)
  /\ Go(t, "unlink2") /\ Crossing(t)
  /\ UNCHANGED <<ctl, shared, head, nxt, net, owed, misused>>

UnlinkPrev(c, t) ==
  /\ At(t, "unlink2")
  /\ IF prv[c] # Nil THEN nxt' = [nxt EXCEPT ![prv[c]] = nxt[c]] /\ UNCHANGED head
                     ELSE head' = nxt[c] /\ UNCHANGED nxt
  /\ Go(t, IF t = Main THEN "pick" ELSE "end") /\ Crossing(t)
  /\ UNCHANGED <<ctl, shared, tail, prv, members, net, owed, misused>>

Del(c, t) ==
  \/ DelTest(c, t) \/ DelSwap(c, t)
  \/ DelWakeRecv(c, t) \/ DelNoRecv(c, t) \/ Destroy(c, t, "recv", "rdes", "s1")
  \/ DelWakeSend(c, t) \/ DelNoSend(c, t) \/ Destroy(c, t, "send", "sdes", "unlink1")
  \/ UnlinkNext(c, t) \/ UnlinkPrev(c, t)

-----------------------------------------------------------------------------
(* serverAccept and serverAdd                                              *)

\* The loop ends, or accept fails because the listening socket is closed.
AcceptEnd ==
  /\ At(Acceptor, "accept") /\ (~running \/ pc[Main] # "run")
  /\ running' = FALSE /\ Go(Acceptor, "end")
  /\ UNCHANGED <<victim, newcomer, shared, list, net, owed, misused, windows>>

\* hAccept returns a connection, while the listening socket is open.
Accepted(c) ==
  /\ At(Acceptor, "accept") /\ running /\ pc[Main] = "run" /\ peer[c] = "calls"
  /\ newcomer' = c
  /\ peer' = [peer EXCEPT ![c] = "up"]
  /\ Go(Acceptor, "link1")
  /\ UNCHANGED <<running, victim, shared, list, plan, left, wire, owed, misused, windows>>

\* The node is in the list before its fields are set: until Fill its socket is
\* what allocate left there, and sendbuffer.len is still afterwards.  So are the
\* handles until they are stored; who reads one before has met "early".
LinkLast ==
  /\ At(Acceptor, "link1")
  /\ IF tail # Nil THEN nxt' = [nxt EXCEPT ![tail] = newcomer] /\ UNCHANGED head
                   ELSE head' = newcomer /\ UNCHANGED nxt
  /\ sock' = [sock EXCEPT ![newcomer] = "junk"]
  /\ Go(Acceptor, "link2") /\ Crossing(Acceptor)
  /\ UNCHANGED <<ctl, rthread, sthread, slen, cond, tail, prv, members, net, owed, misused>>

LinkBack ==
  /\ At(Acceptor, "link2")
  /\ prv' = [prv EXCEPT ![newcomer] = tail]
  /\ nxt' = [nxt EXCEPT ![newcomer] = Nil]
  /\ tail' = newcomer
  /\ members' = Append(members, newcomer)
  /\ Go(Acceptor, "fill") /\ Crossing(Acceptor)
  /\ UNCHANGED <<ctl, shared, head, net, owed, misused>>

Fill ==
  /\ At(Acceptor, "fill")
  /\ sock' = [sock EXCEPT ![newcomer] = "open"]
  /\ cond' = [cond EXCEPT ![newcomer] = [recv |-> "live", send |-> "live"]]
  /\ Go(Acceptor, "runR")
  /\ UNCHANGED <<ctl, rthread, sthread, slen, list, net, owed, misused, windows>>

\* threadcreate starts the thread; its handle is stored afterwards.
Start(t, at, l) ==
  /\ At(Acceptor, at)
  /\ pc' = [pc EXCEPT ![Acceptor] = l, ![t] = "test"]
  /\ UNCHANGED <<ctl, shared, list, net, owed, misused, windows>>

StoreRecv ==
  /\ At(Acceptor, "setR")
  /\ rthread' = [rthread EXCEPT ![newcomer] = TRUE]
  /\ Go(Acceptor, "runS") /\ Early(Past(R(newcomer)))
  /\ UNCHANGED <<ctl, sock, sthread, slen, cond, list, net, owed, misused>>

StoreSend ==
  /\ At(Acceptor, "setS")
  /\ sthread' = [sthread EXCEPT ![newcomer] = TRUE]
  /\ Go(Acceptor, "accept") /\ Early(Past(S(newcomer)))
  /\ newcomer' = Nil
  /\ UNCHANGED <<running, victim, sock, rthread, slen, cond, list, net, owed, misused>>

Accept ==
  \/ \E c \in Clients : Accepted(c)
  \/ AcceptEnd \/ LinkLast \/ LinkBack \/ Fill \/ StoreRecv \/ StoreSend
  \/ Start(R(newcomer), "runR", "setR") \/ Start(S(newcomer), "runS", "setS")

-----------------------------------------------------------------------------
(* The main thread: serverRun until ESC, then serverEnd                    *)

EscComes ==
  \/ plan.esc = "any"
  \/ plan.esc = "idle" /\ pc[Acceptor] = "accept"
     /\ \A c \in Clients : pc[R(c)] = "recv" /\ pc[S(c)] = "waiting"

StopRunning ==
  /\ pc[Main] = "run" /\ EscComes
  /\ running' = FALSE /\ Go(Main, "pick")
  /\ UNCHANGED <<victim, newcomer, shared, list, net, owed, misused, windows>>

\* The first client is removed.  One that another thread is removing leaves the
\* loop spinning, which changes nothing.
PickFirst ==
  /\ pc[Main] = "pick" /\ head # Nil /\ sock[head] = "open"
  /\ victim' = head /\ Go(Main, "swap")
  /\ Enter(IF \E u \in {R(head), S(head)} : pc[u] = "swap" THEN {"raced"} ELSE {})
  /\ UNCHANGED <<running, newcomer, shared, list, net, owed, misused>>

\* A node whose fields are not set: the program may crash.
PickJunk ==
  /\ pc[Main] = "pick" /\ head # Nil /\ sock[head] = "junk"
  /\ Go(Main, "end") /\ Enter({"early"})
  /\ UNCHANGED <<ctl, shared, list, net, owed, misused>>

Finish ==
  /\ pc[Main] = "pick" /\ head = Nil
  /\ Only(Main, "end")

MainStep == PickFirst \/ PickJunk \/ Finish \/ (victim # Nil /\ Del(victim, Main))

-----------------------------------------------------------------------------
(* The client programs                                                     *)

Peer(c, from, to) ==
  /\ peer[c] = from /\ pc[Main] = "run"
  /\ peer' = [peer EXCEPT ![c] = to]
  /\ UNCHANGED <<pc, ctl, shared, list, plan, left, wire, owed, misused, windows>>

Call(c) == Peer(c, "none", "calls")
HangUp(c) == c \in plan.hangUp /\ Peer(c, "up", "gone")

SendMessage(c) ==
  /\ peer[c] = "up" /\ left[c] > 0 /\ pc[Main] = "run"
  /\ left' = [left EXCEPT ![c] = @ - 1] /\ wire' = [wire EXCEPT ![c] = @ + 1]
  /\ UNCHANGED <<pc, ctl, shared, list, plan, peer, owed, misused, windows>>

RecvThread(c) == Receive(c) \/ Del(c, R(c))
SendThread(c) == SendLoop(c) \/ Del(c, S(c))

Next ==
  \/ StopRunning \/ MainStep \/ Accept
  \/ \E c \in Clients : RecvThread(c) \/ SendThread(c)
                        \/ Call(c) \/ HangUp(c) \/ SendMessage(c)

Spec == Init /\ [][Next]_vars

-----------------------------------------------------------------------------
(* Properties                                                              *)

\* The client is removed once: its conditions are destroyed once, and nobody
\* uses them afterwards, although up to three threads remove it, unless two of
\* them pass the unlocked test together or its handles were not yet stored.
\* One use is left even so: recvbuffer.cond is destroyed before the send thread
\* is waited for, which signals it once the answer is sent.
RemovedOnce == windows \intersect {"raced", "early"} = {} => misused \subseteq {"sent"}

\* The list has exactly the clients added and not removed, read either way,
\* whenever no thread is in the middle of changing it, unless two threads
\* changed it at once or one client was removed twice.
Forward(s, end) ==
  \A i \in 0..Len(s) :
    (IF i = 0 THEN head ELSE nxt[s[i]]) = IF i = Len(s) THEN end ELSE s[i + 1]

Backward(s) ==
  \A i \in 1..Len(s) + 1 :
    (IF i = Len(s) + 1 THEN tail ELSE prv[s[i]]) = IF i = 1 THEN Nil ELSE s[i - 1]

ListIsMembers ==
  /\ TypeOK
  /\ (windows \intersect {"raced", "crossed"} = {}
      /\ \A t \in Threads : pc[t] \notin {"link2", "unlink2"}) =>
       Forward(members, Nil) /\ Backward(members)

\* The two threads hand the send buffer to each other: an answer is put into it
\* only when the one before has been sent whole, unless the buffer began with a
\* length nobody had set.
BufferHandedOver ==
  [][\A c \in Clients : PutAnswer(c) /\ ~Dirty(c) => slen[c] = 0 /\ pc[S(c)] # "send"]_vars

\* Can nothing happen any more in the server, with thread t where it is?
Blocked(t) ==
  \/ pc[t] \in {"off", "end", "waiting", "run"}
  \/ pc[t] = "recv" /\ sock[t[1]] = "open" /\ wire[t[1]] = 0 /\ peer[t[1]] = "up"
  \/ pc[t] = "rjoin" /\ pc[R(IF t = Main THEN victim ELSE t[1])] # "end"
  \/ pc[t] = "sjoin" /\ pc[S(IF t = Main THEN victim ELSE t[1])] # "end"
  \/ pc[t] = "pick" /\ head # Nil /\ sock[head] = "null"
  \/ pc[t] = "accept" /\ running /\ \A c \in Clients : peer[c] # "calls"

\* No signal is missed: when no thread can go on, all requests are answered, no
\* thread waits for another one's end, clients that hung up are removed, and
\* the program's end is not held up, unless one of the windows was met.  A send
\* buffer that began with a length may lose answers, and does no more harm.
NothingHangs ==
  windows = {} /\ (\A t \in Threads : Blocked(t)) =>
    /\ \A t \in Threads : pc[t] \notin {"rjoin", "sjoin", "pick"}
    /\ pc[Main] = "run" => \A c \in Clients :
         /\ pc[R(c)] # "waiting"
         /\ peer[c] = "up" /\ ~Dirty(c) => owed[c] = 0
         /\ peer[c] = "gone" => \A i \in DOMAIN members : members[i] # c

\* The comments of serverReceive and serverSend: a thread waits "until it's okay
\* to receive", which the other one signals once the answer is sent.
WaitsOnlyForAnswer ==
  \A c \in Clients : pc[R(c)] = "waiting" => slen[c] > 0 \/ pc[S(c)] = "sig"
=============================================================================
