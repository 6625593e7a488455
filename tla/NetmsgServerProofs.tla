------------------------- MODULE NetmsgServerProofs -------------------------
(***************************************************************************)
(* Theorems about module NetmsgServer, for any clients, plans and length   *)
(* of an answer.                                                           *)
(***************************************************************************)
EXTENDS NetmsgServer, TLAPS

-----------------------------------------------------------------------------
(* The inductive invariant *)

\* What is used of the types; the list's order plays no part here.
Typed ==
  /\ pc \in [Threads -> Labels]
  /\ victim \in Clients \union {Nil} /\ newcomer \in Clients \union {Nil}
  /\ sock \in [Clients -> {"null", "open", "junk"}]
  /\ rthread \in [Clients -> BOOLEAN] /\ sthread \in [Clients -> BOOLEAN]
  /\ slen \in [Clients -> Nat] /\ plan \in Plans
  /\ cond \in [Clients -> [recv : {"none", "live", "gone"}, send : {"none", "live", "gone"}]]
  /\ head \in Clients \union {Nil} /\ tail \in Clients \union {Nil}
  /\ nxt \in [Clients -> Clients \union {Nil}] /\ prv \in [Clients -> Clients \union {Nil}]
  /\ peer \in [Clients -> {"none", "calls", "up", "gone"}]
  /\ owed \in [Clients -> Nat]

\* Each thread stays in its own program.
InPlace ==
  /\ \A c \in Clients : /\ pc[R(c)] \in RecvLabels \union DelLabels
                        /\ pc[S(c)] \in SendLabels \union DelLabels
  /\ pc[Main] \in {"run", "pick", "end"} \union DelLabels
  /\ pc[Acceptor] \in {"accept", "end"} \union AddLabels
  /\ pc[Main] \in DelLabels => victim \in Clients

\* A client whose fields serverAdd has not set yet.
Unset(c) == cond[c].recv = "none"

\* serverAdd works on one client, and starts its threads after setting it up.
Adding ==
  /\ pc[Acceptor] \in AddLabels => newcomer \in Clients
  /\ pc[Acceptor] \in {"link1", "link2", "fill"} =>
       Unset(newcomer) /\ peer[newcomer] \notin {"none", "calls"}
  /\ pc[Acceptor] \in {"runR", "setR", "runS", "setS"} => ~Unset(newcomer)
  /\ pc[Acceptor] = "runR" => pc[R(newcomer)] = "off"
  /\ pc[Acceptor] \in {"runR", "setR", "runS"} => pc[S(newcomer)] = "off"

\* serverEnd is removing client c.
MainRemoves(c) == pc[Main] \in DelLabels /\ victim = c

\* The threads that may run serverDel for client c.
Remover(t, c) == t \in {R(c), S(c)} \/ (t = Main /\ victim = c)

\* Nobody works for a client before it is set up; afterwards its socket is open
\* until a thread that removes it has taken it.
Opened(c) ==
  /\ Unset(c) => /\ pc[R(c)] = "off" /\ pc[S(c)] = "off" /\ sock[c] # "open"
                 /\ ~MainRemoves(c) /\ cond[c].send = "none"
  /\ ~Unset(c) => sock[c] # "junk" /\ cond[c].send # "none"
  /\ peer[c] \in {"none", "calls"} => Unset(c)
  /\ \/ pc[R(c)] \in DelLabels \ {"swap"}
     \/ pc[S(c)] \in DelLabels \ {"swap"}
     \/ MainRemoves(c) /\ pc[Main] # "swap"
     => sock[c] = "null"

\* While an answer is in the buffer or being sent, the receive thread is not on
\* its way to the next one, if the buffer began empty.
Busy(c) == slen[c] > 0 \/ pc[S(c)] \in {"send", "sig"}
HandedOver(c) ==
  /\ pc[S(c)] = "send" => slen[c] > 0
  /\ ~Dirty(c) =>
       /\ owed[c] = IF slen[c] > 0 THEN 1 ELSE 0
       /\ pc[S(c)] = "sig" => slen[c] = 0
       /\ Busy(c) => /\ pc[R(c)] \notin {"off", "recv", "proc"}
                     /\ pc[R(c)] = "test" => sock[c] = "null"

Inv == /\ Typed /\ InPlace /\ Adding
       /\ \A c \in Clients : Opened(c) /\ HandedOver(c)

(* Removing a client: the second part of the invariant *)

\* The behaviour has met neither of the two windows RemovedOnce excepts.
Clean == windows \intersect {"raced", "early"} = {}

\* Thread t is past the test in serverDel for client c.
Removing(t, c) == Remover(t, c) /\ pc[t] \in DelLabels

\* One thread at most removes a client; it destroys a condition while that is
\* live, and when the thread that waits for it is past its loop.
InOrder(c) ==
  /\ \A t, u \in Threads : Removing(t, c) /\ Removing(u, c) => t = u
  /\ \A t \in Threads : Removing(t, c) =>
       /\ pc[t] \in {"swap", "r1", "r2", "rjoin", "rdes"} => cond[c].recv = "live"
       /\ pc[t] \in {"s1", "s2", "sjoin", "sdes"} => cond[c].recv = "gone"
       /\ pc[t] \notin {"unlink1", "unlink2"} => cond[c].send = "live"
       /\ pc[t] = "r2" => rthread[c] \/ Past(R(c))
       /\ pc[t] = "s2" => sthread[c] \/ Past(S(c))
       /\ pc[t] = "rdes" => Past(R(c))
       /\ pc[t] = "sdes" => Past(S(c))
  /\ cond[c].recv = "gone" => Past(R(c)) /\ sock[c] = "null"
  /\ cond[c].send = "gone" => Past(S(c)) /\ cond[c].recv = "gone"

Removal == Clean => misused \subseteq {"sent"} /\ \A c \in Clients : InOrder(c)

-----------------------------------------------------------------------------
(* Threads and where they go *)

\* No two threads are the same.
LEMMA ThreadFacts ==
  /\ Main \in Threads /\ Acceptor \in Threads /\ Main # Acceptor
  /\ \A c \in Clients :
       /\ R(c) \in Threads /\ S(c) \in Threads /\ R(c) # S(c)
       /\ R(c)[1] = c /\ R(c)[2] = "recv" /\ S(c)[1] = c /\ S(c)[2] = "send"
       /\ R(c) # Main /\ S(c) # Main /\ R(c) # Acceptor /\ S(c) # Acceptor
       /\ \A d \in Clients : R(c) # S(d) /\ (R(c) = R(d) => c = d) /\ (S(c) = S(d) => c = d)
BY DEF Threads, R, S, Main, Acceptor

\* A signal takes its sender on, and back to the loop's test the thread that
\* waits for it.
LEMMA SignalFacts ==
  ASSUME pc \in [Threads -> Labels], NEW t \in Threads, NEW u \in Threads,
         pc[t] # "waiting", NEW l \in Labels, NEW which, Signal(t, l, which, u)
  PROVE  /\ pc' \in [Threads -> Labels] /\ pc'[t] = l
         /\ \A v \in Threads :
              v # t => pc'[v] = IF v = u /\ pc[v] = "waiting" THEN "test" ELSE pc[v]
<1>1. pc' = IF pc[u] = "waiting" THEN [pc EXCEPT ![t] = l, ![u] = "test"]
                                 ELSE [pc EXCEPT ![t] = l]
  BY DEF Signal
<1>2. CASE pc[u] = "waiting"
  BY <1>1, <1>2 DEF Labels, RecvLabels
<1>3. CASE pc[u] # "waiting"
  BY <1>1, <1>3
<1>4. QED
  BY <1>2, <1>3

-----------------------------------------------------------------------------
(* Inv, step by step: serverReceive *)

LEMMA Quiet ==
  ASSUME Inv, UNCHANGED <<pc, victim, newcomer, sock, rthread, sthread, slen, cond,
                      head, tail, nxt, prv, plan, peer, owed>>
  PROVE Inv'
BY DEF Dirty, Inv, Typed, InPlace, Adding, Unset, MainRemoves, Opened, Busy, HandedOver

LEMMA RecvTestInv ==
  ASSUME Inv, NEW c \in Clients, RecvTest(c)
  PROVE  Inv'
<1> USE ThreadFacts, ServerAssumption DEF Inv, At, Only, RecvTest
<1>1. /\ pc' \in [Threads -> Labels] /\ pc'[R(c)] = "recv"
      /\ \A u \in Threads : u # R(c) => pc'[u] = pc[u]
  BY DEF Typed, Go, Labels, RecvLabels, SendLabels, DelLabels, AddLabels
<1>2. Typed'
  BY <1>1 DEF Typed, ctl, shared, list, net
<1>3. InPlace'
  BY <1>1 DEF InPlace, ctl, RecvLabels, DelLabels, SendLabels, AddLabels, Keeps
<1>4. Adding'
  BY <1>1 DEF Adding, Typed, InPlace, AddLabels, Unset, ctl, net, shared, Keeps
<1>5. ASSUME NEW d \in Clients  PROVE Opened(d)'
  BY <1>1 DEF Opened, InPlace, Unset, MainRemoves, DelLabels, ctl, shared, net, Keeps
<1>6. ASSUME NEW d \in Clients  PROVE HandedOver(d)'
  BY <1>1 DEF HandedOver, Dirty, net, Typed, Busy, Opened, MainRemoves, DelLabels, Unset, shared, ctl, Keeps
<1>7. QED
  BY <1>2, <1>3, <1>4, <1>5, <1>6

LEMMA RecvDataInv ==
  ASSUME Inv, NEW c \in Clients, RecvData(c)
  PROVE  Inv'
<1> USE ThreadFacts, ServerAssumption DEF Inv, At, Only, RecvData
<1>1. /\ pc' \in [Threads -> Labels] /\ pc'[R(c)] \in {"proc", "test"}
      /\ \A u \in Threads : u # R(c) => pc'[u] = pc[u]
  BY DEF Typed, Go, Labels, RecvLabels, SendLabels, DelLabels, AddLabels
<1>2. Typed'
  BY <1>1 DEF Typed, ctl, shared, list, net
<1>3. InPlace'
  BY <1>1 DEF InPlace, ctl, RecvLabels, DelLabels, SendLabels, AddLabels
<1>4. Adding'
  BY <1>1 DEF Adding, Typed, InPlace, AddLabels, Unset, ctl, net, shared
<1>5. ASSUME NEW d \in Clients  PROVE Opened(d)'
  BY <1>1 DEF Opened, InPlace, Unset, MainRemoves, DelLabels, ctl, shared, net
<1>6. ASSUME NEW d \in Clients  PROVE HandedOver(d)'
  BY <1>1 DEF HandedOver, Dirty, net, Typed, Busy, Opened, MainRemoves, DelLabels, Unset, shared, ctl
<1>7. QED
  BY <1>2, <1>3, <1>4, <1>5, <1>6

LEMMA PutAnswerInv ==
  ASSUME Inv, NEW c \in Clients, PutAnswer(c)
  PROVE  Inv'
<1> USE ThreadFacts, ServerAssumption DEF Inv, At, Only, PutAnswer
<1>1. /\ pc' \in [Threads -> Labels] /\ pc'[R(c)] = "sig"
      /\ \A u \in Threads : u # R(c) => pc'[u] = pc[u]
  BY DEF Typed, Go, Labels, RecvLabels, SendLabels, DelLabels, AddLabels
<1>2. Typed'
  BY <1>1 DEF Typed, ctl, shared, list, net
<1>3. InPlace'
  BY <1>1 DEF InPlace, ctl, RecvLabels, DelLabels, SendLabels, AddLabels
<1>4. Adding'
  BY <1>1 DEF Adding, Typed, InPlace, AddLabels, Unset, ctl, net, shared
<1>5. ASSUME NEW d \in Clients  PROVE Opened(d)'
  BY <1>1 DEF Opened, InPlace, Unset, MainRemoves, DelLabels, ctl, shared, net
<1>6. ASSUME NEW d \in Clients  PROVE HandedOver(d)'
  BY <1>1 DEF HandedOver, Dirty, net, Typed, Busy, Opened, MainRemoves, DelLabels, Unset, shared, ctl
<1>7. QED
  BY <1>2, <1>3, <1>4, <1>5, <1>6

LEMMA SignalDataInv ==
  ASSUME Inv, NEW c \in Clients, SignalData(c)
  PROVE  Inv'
<1> USE ThreadFacts, ServerAssumption DEF Inv, At, Only, SignalData
<1>0. /\ pc \in [Threads -> Labels] /\ R(c) \in Threads /\ S(c) \in Threads
      /\ pc[R(c)] = "sig" /\ "wait" \in Labels
  BY DEF Typed, Labels, RecvLabels, SendLabels, DelLabels, AddLabels
<1>1. /\ pc' \in [Threads -> Labels] /\ pc'[R(c)] = "wait"
      /\ \A v \in Threads :
           v # R(c) => pc'[v] = IF v = S(c) /\ pc[v] = "waiting" THEN "test" ELSE pc[v]
  BY <1>0, SignalFacts
<1>2. Typed'
  BY <1>1 DEF Typed, ctl, shared, list, net
<1>3. InPlace'
  BY <1>1 DEF InPlace, ctl, RecvLabels, DelLabels, SendLabels, AddLabels
<1>4. Adding'
  BY <1>1 DEF Adding, Typed, InPlace, AddLabels, Unset, ctl, net, shared
<1>5. ASSUME NEW d \in Clients  PROVE Opened(d)'
  BY <1>1 DEF Opened, InPlace, Unset, MainRemoves, DelLabels, ctl, shared, net
<1>6. ASSUME NEW d \in Clients  PROVE HandedOver(d)'
  BY <1>1 DEF HandedOver, Dirty, net, Typed, Busy, Opened, MainRemoves, DelLabels, Unset, shared, ctl
<1>7. QED
  BY <1>2, <1>3, <1>4, <1>5, <1>6

LEMMA WaitRecvInv ==
  ASSUME Inv, NEW c \in Clients, Wait(c, R(c), "recv")
  PROVE  Inv'
<1> USE ThreadFacts, ServerAssumption DEF Inv, At, Only, Wait
<1>1. /\ pc' \in [Threads -> Labels] /\ pc'[R(c)] = "waiting"
      /\ \A u \in Threads : u # R(c) => pc'[u] = pc[u]
  BY DEF Typed, Go, Labels, RecvLabels, SendLabels, DelLabels, AddLabels
<1>2. Typed'
  BY <1>1 DEF Typed, ctl, shared, list, net
<1>3. InPlace'
  BY <1>1 DEF InPlace, ctl, RecvLabels, DelLabels, SendLabels, AddLabels
<1>4. Adding'
  BY <1>1 DEF Adding, Typed, InPlace, AddLabels, Unset, ctl, net, shared
<1>5. ASSUME NEW d \in Clients  PROVE Opened(d)'
  BY <1>1 DEF Opened, InPlace, Unset, MainRemoves, DelLabels, ctl, shared, net
<1>6. ASSUME NEW d \in Clients  PROVE HandedOver(d)'
  BY <1>1 DEF HandedOver, Dirty, net, Typed, Busy, Opened, MainRemoves, DelLabels, Unset, shared, ctl
<1>7. QED
  BY <1>2, <1>3, <1>4, <1>5, <1>6

LEMMA RecvExitInv ==
  ASSUME Inv, NEW c \in Clients, RecvExit(c)
  PROVE  Inv'
<1> USE ThreadFacts, ServerAssumption DEF Inv, At, Only, RecvExit
<1>1. /\ pc' \in [Threads -> Labels] /\ pc'[R(c)] = "del"
      /\ \A u \in Threads : u # R(c) => pc'[u] = pc[u]
  BY DEF Typed, Go, Labels, RecvLabels, SendLabels, DelLabels, AddLabels
<1>2. Typed'
  BY <1>1 DEF Typed, ctl, shared, list, net
<1>3. InPlace'
  BY <1>1 DEF InPlace, ctl, RecvLabels, DelLabels, SendLabels, AddLabels
<1>4. Adding'
  BY <1>1 DEF Adding, Typed, InPlace, AddLabels, Unset, ctl, net, shared
<1>5. ASSUME NEW d \in Clients  PROVE Opened(d)'
  BY <1>1 DEF Opened, InPlace, Unset, MainRemoves, DelLabels, ctl, shared, net
<1>6. ASSUME NEW d \in Clients  PROVE HandedOver(d)'
  BY <1>1 DEF HandedOver, Dirty, net, Typed, Busy, Opened, MainRemoves, DelLabels, Unset, shared, ctl
<1>7. QED
  BY <1>2, <1>3, <1>4, <1>5, <1>6

-----------------------------------------------------------------------------
(* serverSend *)

LEMMA SendTestInv ==
  ASSUME Inv, NEW c \in Clients, SendTest(c)
  PROVE  Inv'
<1> USE ThreadFacts, ServerAssumption DEF Inv, At, Only, SendTest
<1>1. /\ pc' \in [Threads -> Labels] /\ pc'[S(c)] = "len"
      /\ \A u \in Threads : u # S(c) => pc'[u] = pc[u]
  BY DEF Typed, Go, Labels, RecvLabels, SendLabels, DelLabels, AddLabels
<1>2. Typed'
  BY <1>1 DEF Typed, ctl, shared, list, net
<1>3. InPlace'
  BY <1>1 DEF InPlace, ctl, RecvLabels, DelLabels, SendLabels, AddLabels, Keeps
<1>4. Adding'
  BY <1>1 DEF Adding, Typed, InPlace, AddLabels, Unset, ctl, net, shared, Keeps
<1>5. ASSUME NEW d \in Clients  PROVE Opened(d)'
  BY <1>1 DEF Opened, InPlace, Unset, MainRemoves, DelLabels, ctl, shared, net, Keeps
<1>6. ASSUME NEW d \in Clients  PROVE HandedOver(d)'
  BY <1>1 DEF HandedOver, Dirty, net, Typed, Busy, Opened, MainRemoves, DelLabels, Unset, shared, ctl, Keeps
<1>7. QED
  BY <1>2, <1>3, <1>4, <1>5, <1>6

LEMMA SendLenInv ==
  ASSUME Inv, NEW c \in Clients, SendLen(c)
  PROVE  Inv'
<1> USE ThreadFacts, ServerAssumption DEF Inv, At, Only, SendLen
<1>1. /\ pc' \in [Threads -> Labels] /\ pc'[S(c)] = IF slen[c] > 0 THEN "send" ELSE "wait"
      /\ \A u \in Threads : u # S(c) => pc'[u] = pc[u]
  BY DEF Typed, Go, Labels, RecvLabels, SendLabels, DelLabels, AddLabels
<1>2. Typed'
  BY <1>1 DEF Typed, ctl, shared, list, net
<1>3. InPlace'
  BY <1>1 DEF InPlace, ctl, RecvLabels, DelLabels, SendLabels, AddLabels
<1>4. Adding'
  BY <1>1 DEF Adding, Typed, InPlace, AddLabels, Unset, ctl, net, shared
<1>5. ASSUME NEW d \in Clients  PROVE Opened(d)'
  BY <1>1 DEF Opened, InPlace, Unset, MainRemoves, DelLabels, ctl, shared, net
<1>6. ASSUME NEW d \in Clients  PROVE HandedOver(d)'
  BY <1>1 DEF HandedOver, Dirty, net, Typed, Busy, Opened, MainRemoves, DelLabels, Unset, shared, ctl
<1>7. QED
  BY <1>2, <1>3, <1>4, <1>5, <1>6

LEMMA SendDataInv ==
  ASSUME Inv, NEW c \in Clients, SendData(c)
  PROVE  Inv'
<1> USE ThreadFacts, ServerAssumption DEF Inv, At
<1>0. slen[c] \in Nat /\ plan.junk[c] \in Nat /\ owed[c] \in Nat
  BY DEF Typed
<1>1. PICK n \in 1..slen[c] \union 1..plan.junk[c] :
        /\ slen' = [slen EXCEPT ![c] = IF n < @ THEN @ - n ELSE 0]
        /\ IF n < slen[c] THEN Go(S(c), "test") /\ UNCHANGED owed
             ELSE Go(S(c), "sig") /\ owed' = [owed EXCEPT ![c] = IF @ > 0 THEN @ - 1 ELSE 0]
  BY DEF SendData
<1>2. /\ slen' \in [Clients -> Nat] /\ slen'[c] = IF n < slen[c] THEN slen[c] - n ELSE 0
      /\ \A d \in Clients : d # c => slen'[d] = slen[d]
      /\ ~Dirty(c) => owed[c] = 1
  <2>1. n \in Nat /\ slen \in [Clients -> Nat]
    BY <1>0 DEF Typed
  <2>2. /\ slen' \in [Clients -> Nat] /\ slen'[c] = IF n < slen[c] THEN slen[c] - n ELSE 0
        /\ \A d \in Clients : d # c => slen'[d] = slen[d]
    <3>1. (IF n < slen[c] THEN slen[c] - n ELSE 0) \in Nat
      BY <1>0, <2>1
    <3>2. QED
      BY <1>1, <2>1, <3>1
  <2>3. slen[c] > 0 /\ HandedOver(c)
    BY DEF SendData, HandedOver
  <2>4. QED
    BY <2>2, <2>3 DEF HandedOver
<1>3. /\ pc' \in [Threads -> Labels]
      /\ pc'[S(c)] = IF slen'[c] = 0 THEN "sig" ELSE "test"
      /\ \A u \in Threads : u # S(c) => pc'[u] = pc[u]
      /\ owed' \in [Clients -> Nat]
      /\ ~Dirty(c) => owed'[c] = IF slen'[c] = 0 THEN 0 ELSE 1
      /\ \A d \in Clients : d # c => owed'[d] = owed[d]
  <2>1. CASE ~(n < slen[c])
    <3>1. /\ Go(S(c), "sig") /\ slen'[c] = 0
          /\ owed' = [owed EXCEPT ![c] = IF owed[c] > 0 THEN owed[c] - 1 ELSE 0]
      BY <1>1, <1>2, <2>1
    <3>2. QED
      BY <1>0, <1>2, <3>1 DEF Typed, Go, Labels, SendLabels
  <2>2. CASE n < slen[c]
    <3>1. Go(S(c), "test") /\ owed' = owed /\ slen'[c] # 0
      BY <1>0, <1>1, <1>2, <2>2
    <3>2. QED
      BY <1>2, <3>1 DEF Typed, Go, Labels, SendLabels
  <2>3. QED
    BY <2>1, <2>2
<1>4. Typed'
  BY <1>2, <1>3 DEF SendData, Typed, ctl, list, net
<1>5. InPlace'
  BY <1>3 DEF SendData, InPlace, ctl, SendLabels
<1>6. Adding'
  BY <1>3 DEF SendData, Adding, InPlace, AddLabels, Unset, ctl, net
<1>7. ASSUME NEW d \in Clients  PROVE Opened(d)'
  BY <1>3 DEF SendData, Opened, Unset, MainRemoves, DelLabels, ctl, net
<1>8. ASSUME NEW d \in Clients  PROVE HandedOver(d)'
  <2>1. plan' = plan /\ UNCHANGED <<sock>> /\ HandedOver(d)
    BY DEF SendData, net
  <2>2. CASE d = c
    <3>1. ~Dirty(c) => pc[R(c)] \notin {"off", "recv", "proc"} /\ (pc[R(c)] = "test" => sock[c] = "null")
      BY <2>1, <2>2 DEF SendData, HandedOver, Busy
    <3>2. slen'[c] \in Nat /\ pc'[S(c)] # "send" /\ pc'[R(c)] = pc[R(c)]
      BY <1>2, <1>3
    <3>3. QED
      BY <1>3, <2>1, <2>2, <3>1, <3>2 DEF HandedOver, Busy, Dirty
  <2>3. CASE d # c
    BY <1>2, <1>3, <2>1, <2>3 DEF HandedOver, Busy, Dirty
  <2>4. QED
    BY <2>2, <2>3
<1>9. QED
  BY <1>4, <1>5, <1>6, <1>7, <1>8

LEMMA SignalSentInv ==
  ASSUME Inv, NEW c \in Clients, SignalSent(c)
  PROVE  Inv'
<1> USE ThreadFacts, ServerAssumption DEF Inv, At, Only, SignalSent
<1>0. /\ pc \in [Threads -> Labels] /\ S(c) \in Threads /\ R(c) \in Threads
      /\ pc[S(c)] = "sig" /\ "test" \in Labels
  BY DEF Typed, Labels, RecvLabels, SendLabels, DelLabels, AddLabels
<1>1. /\ pc' \in [Threads -> Labels] /\ pc'[S(c)] = "test"
      /\ \A v \in Threads :
           v # S(c) => pc'[v] = IF v = R(c) /\ pc[v] = "waiting" THEN "test" ELSE pc[v]
  BY <1>0, SignalFacts
<1>2. Typed'
  BY <1>1 DEF Typed, ctl, shared, list, net
<1>3. InPlace'
  BY <1>1 DEF InPlace, ctl, RecvLabels, DelLabels, SendLabels, AddLabels
<1>4. Adding'
  BY <1>1 DEF Adding, Typed, InPlace, AddLabels, Unset, ctl, net, shared
<1>5. ASSUME NEW d \in Clients  PROVE Opened(d)'
  BY <1>1 DEF Opened, InPlace, Unset, MainRemoves, DelLabels, ctl, shared, net
<1>6. ASSUME NEW d \in Clients  PROVE HandedOver(d)'
  BY <1>1 DEF HandedOver, Dirty, net, Typed, Busy, Opened, MainRemoves, DelLabels, Unset, shared, ctl
<1>7. QED
  BY <1>2, <1>3, <1>4, <1>5, <1>6

LEMMA WaitSendInv ==
  ASSUME Inv, NEW c \in Clients, Wait(c, S(c), "send")
  PROVE  Inv'
<1> USE ThreadFacts, ServerAssumption DEF Inv, At, Only, Wait
<1>1. /\ pc' \in [Threads -> Labels] /\ pc'[S(c)] = "waiting"
      /\ \A u \in Threads : u # S(c) => pc'[u] = pc[u]
  BY DEF Typed, Go, Labels, RecvLabels, SendLabels, DelLabels, AddLabels
<1>2. Typed'
  BY <1>1 DEF Typed, ctl, shared, list, net
<1>3. InPlace'
  BY <1>1 DEF InPlace, ctl, RecvLabels, DelLabels, SendLabels, AddLabels
<1>4. Adding'
  BY <1>1 DEF Adding, Typed, InPlace, AddLabels, Unset, ctl, net, shared
<1>5. ASSUME NEW d \in Clients  PROVE Opened(d)'
  BY <1>1 DEF Opened, InPlace, Unset, MainRemoves, DelLabels, ctl, shared, net
<1>6. ASSUME NEW d \in Clients  PROVE HandedOver(d)'
  BY <1>1 DEF HandedOver, Dirty, net, Typed, Busy, Opened, MainRemoves, DelLabels, Unset, shared, ctl
<1>7. QED
  BY <1>2, <1>3, <1>4, <1>5, <1>6

LEMMA SendExitInv ==
  ASSUME Inv, NEW c \in Clients, SendExit(c)
  PROVE  Inv'
<1> USE ThreadFacts, ServerAssumption DEF Inv, At, Only, SendExit
<1>1. /\ pc' \in [Threads -> Labels] /\ pc'[S(c)] = "del"
      /\ \A u \in Threads : u # S(c) => pc'[u] = pc[u]
  BY DEF Typed, Go, Labels, RecvLabels, SendLabels, DelLabels, AddLabels
<1>2. Typed'
  BY <1>1 DEF Typed, ctl, shared, list, net
<1>3. InPlace'
  BY <1>1 DEF InPlace, ctl, RecvLabels, DelLabels, SendLabels, AddLabels
<1>4. Adding'
  BY <1>1 DEF Adding, Typed, InPlace, AddLabels, Unset, ctl, net, shared
<1>5. ASSUME NEW d \in Clients  PROVE Opened(d)'
  BY <1>1 DEF Opened, InPlace, Unset, MainRemoves, DelLabels, ctl, shared, net
<1>6. ASSUME NEW d \in Clients  PROVE HandedOver(d)'
  BY <1>1 DEF HandedOver, Dirty, net, Typed, Busy, Opened, MainRemoves, DelLabels, Unset, shared, ctl
<1>7. QED
  BY <1>2, <1>3, <1>4, <1>5, <1>6

-----------------------------------------------------------------------------
(* serverDel *)

LEMMA DelTestInv ==
  ASSUME Inv, NEW c \in Clients, NEW t, Remover(t, c), DelTest(c, t)
  PROVE  Inv'
<1> USE ThreadFacts, ServerAssumption DEF Inv, At, Only, DelTest, Remover
<1>0. t \in Threads /\ t # Acceptor
  BY DEF Remover
<1>1. /\ pc' \in [Threads -> Labels] /\ pc'[t] = IF sock[c] = "null" THEN "end" ELSE "swap"
      /\ \A u \in Threads : u # t => pc'[u] = pc[u]
  <2>1. CASE sock[c] = "null"
    <3>1. Go(t, "end")
      BY <2>1
    <3>2. QED
      BY <1>0, <2>1, <3>1 DEF Typed, Go, Labels, RecvLabels
  <2>2. CASE sock[c] # "null"
    <3>1. Go(t, "swap")
      BY <2>2
    <3>2. QED
      BY <1>0, <2>2, <3>1 DEF Typed, Go, Labels, DelLabels
  <2>3. QED
    BY <2>1, <2>2
<1>2. Typed'
  BY <1>1 DEF Typed, ctl, shared, list, net
<1>3. InPlace'
  BY <1>1 DEF InPlace, ctl, RecvLabels, DelLabels, SendLabels, AddLabels
<1>4. Adding'
  BY <1>1 DEF Adding, Typed, InPlace, AddLabels, Unset, ctl, net, shared
<1>5. ASSUME NEW d \in Clients  PROVE Opened(d)'
  BY <1>1 DEF Opened, InPlace, Unset, MainRemoves, DelLabels, ctl, shared, net
<1>6. ASSUME NEW d \in Clients  PROVE HandedOver(d)'
  BY <1>1 DEF HandedOver, Dirty, net, Typed, Busy, Opened, MainRemoves, DelLabels, Unset, shared, ctl
<1>7. QED
  BY <1>2, <1>3, <1>4, <1>5, <1>6

LEMMA DelSwapInv ==
  ASSUME Inv, NEW c \in Clients, NEW t, Remover(t, c), DelSwap(c, t)
  PROVE  Inv'
<1> USE ThreadFacts, ServerAssumption DEF Inv, At, Only, DelSwap, Remover
<1>0. t \in Threads /\ t # Acceptor
  BY DEF Remover
<1>1. /\ pc' \in [Threads -> Labels] /\ pc'[t] = "r1"
      /\ \A u \in Threads : u # t => pc'[u] = pc[u]
  BY <1>0 DEF Typed, Go, Labels, RecvLabels, SendLabels, DelLabels, AddLabels
<1>2. Typed'
  BY <1>1 DEF Typed, ctl, shared, list, net
<1>3. InPlace'
  BY <1>1 DEF InPlace, ctl, RecvLabels, DelLabels, SendLabels, AddLabels
<1>4. Adding'
  BY <1>1 DEF Adding, Typed, InPlace, AddLabels, Unset, ctl, net, shared
<1>5. ASSUME NEW d \in Clients  PROVE Opened(d)'
  BY <1>1 DEF Opened, Typed, InPlace, Unset, MainRemoves, DelLabels, ctl, shared, net
<1>6. ASSUME NEW d \in Clients  PROVE HandedOver(d)'
  BY <1>1 DEF HandedOver, Dirty, net, Typed, Busy, Opened, MainRemoves, DelLabels, Unset, shared, ctl
<1>7. QED
  BY <1>2, <1>3, <1>4, <1>5, <1>6

LEMMA DelWakeRecvInv ==
  ASSUME Inv, NEW c \in Clients, NEW t, Remover(t, c), DelWakeRecv(c, t)
  PROVE  Inv'
<1> USE ThreadFacts, ServerAssumption DEF Inv, At, Only, DelWakeRecv, Remover
<1>0. t \in Threads /\ t # Acceptor
  BY DEF Remover
<1>1. /\ pc' \in [Threads -> Labels] /\ pc'[t] = "r2"
      /\ \A v \in Threads :
           v # t => pc'[v] = IF v = R(c) /\ pc[v] = "waiting" THEN "test" ELSE pc[v]
  BY <1>0, SignalFacts DEF Typed, Labels, RecvLabels, SendLabels, DelLabels, AddLabels
<1>2. Typed'
  BY <1>1 DEF Typed, ctl, shared, list, net
<1>3. InPlace'
  BY <1>1 DEF InPlace, ctl, RecvLabels, DelLabels, SendLabels, AddLabels
<1>4. Adding'
  BY <1>1 DEF Adding, Typed, InPlace, AddLabels, Unset, ctl, net, shared
<1>5. ASSUME NEW d \in Clients  PROVE Opened(d)'
  BY <1>1 DEF Opened, InPlace, Unset, MainRemoves, DelLabels, ctl, shared, net
<1>6. ASSUME NEW d \in Clients  PROVE HandedOver(d)'
  BY <1>1 DEF HandedOver, Dirty, net, Typed, Busy, Opened, MainRemoves, DelLabels, Unset, shared, ctl
<1>7. QED
  BY <1>2, <1>3, <1>4, <1>5, <1>6

LEMMA DelNoRecvInv ==
  ASSUME Inv, NEW c \in Clients, NEW t, Remover(t, c), DelNoRecv(c, t)
  PROVE  Inv'
<1> USE ThreadFacts, ServerAssumption DEF Inv, At, Only, DelNoRecv, Skip, Remover
<1>0. t \in Threads /\ t # Acceptor
  BY DEF Remover
<1>l. PICK l \in {"rjoin", "rdes"} : Go(t, l)
  <2>1. CASE rthread[c]
    BY <2>1
  <2>2. CASE ~rthread[c]
    BY <2>2
  <2>3. QED
    BY <2>1, <2>2
<1>1. /\ pc' \in [Threads -> Labels] /\ pc'[t] \in {"rjoin", "rdes"}
      /\ \A u \in Threads : u # t => pc'[u] = pc[u]
  BY <1>0, <1>l DEF Typed, Go, Labels, RecvLabels, SendLabels, DelLabels, AddLabels
<1>2. Typed'
  BY <1>1 DEF Typed, ctl, shared, list, net
<1>3. InPlace'
  BY <1>1 DEF InPlace, ctl, RecvLabels, DelLabels, SendLabels, AddLabels
<1>4. Adding'
  BY <1>1 DEF Adding, Typed, InPlace, AddLabels, Unset, ctl, net, shared
<1>5. ASSUME NEW d \in Clients  PROVE Opened(d)'
  BY <1>1 DEF Opened, InPlace, Unset, MainRemoves, DelLabels, ctl, shared, net
<1>6. ASSUME NEW d \in Clients  PROVE HandedOver(d)'
  BY <1>1 DEF HandedOver, Dirty, net, Typed, Busy, Opened, MainRemoves, DelLabels, Unset, shared, ctl
<1>7. QED
  BY <1>2, <1>3, <1>4, <1>5, <1>6

LEMMA DestroyRecvInv ==
  ASSUME Inv, NEW c \in Clients, NEW t, Remover(t, c), Destroy(c, t, "recv", "rdes", "s1")
  PROVE  Inv'
<1> USE ThreadFacts, ServerAssumption DEF Inv, At, Only, Destroy, Remover
<1>0. t \in Threads /\ t # Acceptor
  BY DEF Remover
<1>1. /\ pc' \in [Threads -> Labels] /\ pc'[t] = "s1"
      /\ \A u \in Threads : u # t => pc'[u] = pc[u]
  BY <1>0 DEF Typed, Go, Labels, RecvLabels, SendLabels, DelLabels, AddLabels
<1>p. /\ cond' \in [Clients -> [recv : {"none", "live", "gone"}, send : {"none", "live", "gone"}]]
      /\ cond'[c].recv = "gone" /\ cond'[c].send = cond[c].send
      /\ \A d \in Clients : d # c => cond'[d] = cond[d]
  <2>1. cond[c] \in [recv : {"none", "live", "gone"}, send : {"none", "live", "gone"}]
    BY DEF Typed
  <2>2. cond' = [cond EXCEPT ![c] = [cond[c] EXCEPT !["recv"] = "gone"]]
    BY <2>1
  <2>3. /\ [cond[c] EXCEPT !["recv"] = "gone"] \in
              [recv : {"none", "live", "gone"}, send : {"none", "live", "gone"}]
        /\ [cond[c] EXCEPT !["recv"] = "gone"].recv = "gone"
        /\ [cond[c] EXCEPT !["recv"] = "gone"].send = cond[c].send
    BY <2>1
  <2>4. QED
    BY <2>2, <2>3 DEF Typed
<1>2. Typed'
  BY <1>1, <1>p DEF Typed, ctl, shared, list, net
<1>3. InPlace'
  BY <1>1, <1>p DEF InPlace, ctl, RecvLabels, DelLabels, SendLabels, AddLabels
<1>4. Adding'
  BY <1>1, <1>p DEF Adding, Opened, MainRemoves, DelLabels, Typed, InPlace, AddLabels, Unset, ctl, net, shared
<1>5. ASSUME NEW d \in Clients  PROVE Opened(d)'
  BY <1>1, <1>p DEF Opened, Typed, InPlace, Unset, MainRemoves, DelLabels, ctl, shared, net
<1>6. ASSUME NEW d \in Clients  PROVE HandedOver(d)'
  BY <1>1, <1>p DEF HandedOver, Dirty, net, Typed, Busy, Opened, MainRemoves, DelLabels, Unset, shared, ctl
<1>7. QED
  BY <1>2, <1>3, <1>4, <1>5, <1>6

LEMMA DelWakeSendInv ==
  ASSUME Inv, NEW c \in Clients, NEW t, Remover(t, c), DelWakeSend(c, t)
  PROVE  Inv'
<1> USE ThreadFacts, ServerAssumption DEF Inv, At, Only, DelWakeSend, Remover
<1>0. t \in Threads /\ t # Acceptor
  BY DEF Remover
<1>1. /\ pc' \in [Threads -> Labels] /\ pc'[t] = "s2"
      /\ \A v \in Threads :
           v # t => pc'[v] = IF v = S(c) /\ pc[v] = "waiting" THEN "test" ELSE pc[v]
  BY <1>0, SignalFacts DEF Typed, Labels, RecvLabels, SendLabels, DelLabels, AddLabels
<1>2. Typed'
  BY <1>1 DEF Typed, ctl, shared, list, net
<1>3. InPlace'
  BY <1>1 DEF InPlace, ctl, RecvLabels, DelLabels, SendLabels, AddLabels
<1>4. Adding'
  BY <1>1 DEF Adding, Typed, InPlace, AddLabels, Unset, ctl, net, shared
<1>5. ASSUME NEW d \in Clients  PROVE Opened(d)'
  BY <1>1 DEF Opened, InPlace, Unset, MainRemoves, DelLabels, ctl, shared, net
<1>6. ASSUME NEW d \in Clients  PROVE HandedOver(d)'
  BY <1>1 DEF HandedOver, Dirty, net, Typed, Busy, Opened, MainRemoves, DelLabels, Unset, shared, ctl
<1>7. QED
  BY <1>2, <1>3, <1>4, <1>5, <1>6

LEMMA DelNoSendInv ==
  ASSUME Inv, NEW c \in Clients, NEW t, Remover(t, c), DelNoSend(c, t)
  PROVE  Inv'
<1> USE ThreadFacts, ServerAssumption DEF Inv, At, Only, DelNoSend, Skip, Remover
<1>0. t \in Threads /\ t # Acceptor
  BY DEF Remover
<1>l. PICK l \in {"sjoin", "sdes"} : Go(t, l)
  <2>1. CASE sthread[c]
    BY <2>1
  <2>2. CASE ~sthread[c]
    BY <2>2
  <2>3. QED
    BY <2>1, <2>2
<1>1. /\ pc' \in [Threads -> Labels] /\ pc'[t] \in {"sjoin", "sdes"}
      /\ \A u \in Threads : u # t => pc'[u] = pc[u]
  BY <1>0, <1>l DEF Typed, Go, Labels, RecvLabels, SendLabels, DelLabels, AddLabels
<1>2. Typed'
  BY <1>1 DEF Typed, ctl, shared, list, net
<1>3. InPlace'
  BY <1>1 DEF InPlace, ctl, RecvLabels, DelLabels, SendLabels, AddLabels
<1>4. Adding'
  BY <1>1 DEF Adding, Typed, InPlace, AddLabels, Unset, ctl, net, shared
<1>5. ASSUME NEW d \in Clients  PROVE Opened(d)'
  BY <1>1 DEF Opened, InPlace, Unset, MainRemoves, DelLabels, ctl, shared, net
<1>6. ASSUME NEW d \in Clients  PROVE HandedOver(d)'
  BY <1>1 DEF HandedOver, Dirty, net, Typed, Busy, Opened, MainRemoves, DelLabels, Unset, shared, ctl
<1>7. QED
  BY <1>2, <1>3, <1>4, <1>5, <1>6

LEMMA DestroySendInv ==
  ASSUME Inv, NEW c \in Clients, NEW t, Remover(t, c), Destroy(c, t, "send", "sdes", "unlink1")
  PROVE  Inv'
<1> USE ThreadFacts, ServerAssumption DEF Inv, At, Only, Destroy, Remover
<1>0. t \in Threads /\ t # Acceptor
  BY DEF Remover
<1>1. /\ pc' \in [Threads -> Labels] /\ pc'[t] = "unlink1"
      /\ \A u \in Threads : u # t => pc'[u] = pc[u]
  BY <1>0 DEF Typed, Go, Labels, RecvLabels, SendLabels, DelLabels, AddLabels
<1>p. /\ cond' \in [Clients -> [recv : {"none", "live", "gone"}, send : {"none", "live", "gone"}]]
      /\ cond'[c].send = "gone" /\ cond'[c].recv = cond[c].recv
      /\ \A d \in Clients : d # c => cond'[d] = cond[d]
  <2>1. cond[c] \in [recv : {"none", "live", "gone"}, send : {"none", "live", "gone"}]
    BY DEF Typed
  <2>2. cond' = [cond EXCEPT ![c] = [cond[c] EXCEPT !["send"] = "gone"]]
    BY <2>1
  <2>3. /\ [cond[c] EXCEPT !["send"] = "gone"] \in
              [recv : {"none", "live", "gone"}, send : {"none", "live", "gone"}]
        /\ [cond[c] EXCEPT !["send"] = "gone"].send = "gone"
        /\ [cond[c] EXCEPT !["send"] = "gone"].recv = cond[c].recv
    BY <2>1
  <2>4. QED
    BY <2>2, <2>3 DEF Typed
<1>2. Typed'
  BY <1>1, <1>p DEF Typed, ctl, shared, list, net
<1>3. InPlace'
  BY <1>1, <1>p DEF InPlace, ctl, RecvLabels, DelLabels, SendLabels, AddLabels
<1>4. Adding'
  BY <1>1, <1>p DEF Adding, Opened, MainRemoves, DelLabels, Typed, InPlace, AddLabels, Unset, ctl, net, shared
<1>5. ASSUME NEW d \in Clients  PROVE Opened(d)'
  BY <1>1, <1>p DEF Opened, Typed, InPlace, Unset, MainRemoves, DelLabels, ctl, shared, net
<1>6. ASSUME NEW d \in Clients  PROVE HandedOver(d)'
  BY <1>1, <1>p DEF HandedOver, Dirty, net, Typed, Busy, Opened, MainRemoves, DelLabels, Unset, shared, ctl
<1>7. QED
  BY <1>2, <1>3, <1>4, <1>5, <1>6

LEMMA UnlinkNextList ==
  ASSUME Typed, NEW c \in Clients, NEW t, UnlinkNext(c, t)
  PROVE  tail' \in Clients \union {Nil} /\ prv' \in [Clients -> Clients \union {Nil}]
<1>1. CASE nxt[c] # Nil
  BY <1>1 DEF Typed, UnlinkNext
<1>2. CASE nxt[c] = Nil
  BY <1>2 DEF Typed, UnlinkNext
<1>3. QED
  BY <1>1, <1>2

LEMMA UnlinkNextInv ==
  ASSUME Inv, NEW c \in Clients, NEW t, Remover(t, c), UnlinkNext(c, t)
  PROVE  Inv'
<1> USE ThreadFacts, ServerAssumption DEF Inv, At, Only, UnlinkNext, Remover
<1>0. t \in Threads /\ t # Acceptor
  BY DEF Remover
<1>1. /\ pc' \in [Threads -> Labels] /\ pc'[t] = "unlink2"
      /\ \A u \in Threads : u # t => pc'[u] = pc[u]
  BY <1>0 DEF Typed, Go, Labels, RecvLabels, SendLabels, DelLabels, AddLabels
<1>p. tail' \in Clients \union {Nil} /\ prv' \in [Clients -> Clients \union {Nil}]
  BY UnlinkNextList
<1>2. Typed'
  BY <1>1, <1>p DEF Typed, ctl, shared, list, net
<1>3. InPlace'
  BY <1>1, <1>p DEF InPlace, ctl, RecvLabels, DelLabels, SendLabels, AddLabels
<1>4. Adding'
  BY <1>1, <1>p DEF Adding, Typed, InPlace, AddLabels, Unset, ctl, net, shared
<1>5. ASSUME NEW d \in Clients  PROVE Opened(d)'
  BY <1>1, <1>p DEF Opened, InPlace, Unset, MainRemoves, DelLabels, ctl, shared, net
<1>6. ASSUME NEW d \in Clients  PROVE HandedOver(d)'
  BY <1>1, <1>p DEF HandedOver, Dirty, net, Typed, Busy, Opened, MainRemoves, DelLabels, Unset, shared, ctl
<1>7. QED
  BY <1>2, <1>3, <1>4, <1>5, <1>6

LEMMA UnlinkPrevList ==
  ASSUME Typed, NEW c \in Clients, NEW t, UnlinkPrev(c, t)
  PROVE  head' \in Clients \union {Nil} /\ nxt' \in [Clients -> Clients \union {Nil}]
<1>1. CASE prv[c] # Nil
  BY <1>1 DEF Typed, UnlinkPrev
<1>2. CASE prv[c] = Nil
  BY <1>2 DEF Typed, UnlinkPrev
<1>3. QED
  BY <1>1, <1>2

LEMMA UnlinkPrevInv ==
  ASSUME Inv, NEW c \in Clients, NEW t, Remover(t, c), UnlinkPrev(c, t)
  PROVE  Inv'
<1> USE ThreadFacts, ServerAssumption DEF Inv, At, Only, UnlinkPrev, Remover
<1>0. t \in Threads /\ t # Acceptor
  BY DEF Remover
<1>1. /\ pc' \in [Threads -> Labels] /\ pc'[t] = IF t = Main THEN "pick" ELSE "end"
      /\ \A u \in Threads : u # t => pc'[u] = pc[u]
  BY <1>0 DEF Typed, Go, Labels, RecvLabels, SendLabels, DelLabels, AddLabels
<1>p. head' \in Clients \union {Nil} /\ nxt' \in [Clients -> Clients \union {Nil}]
  BY UnlinkPrevList
<1>2. Typed'
  BY <1>1, <1>p DEF Typed, ctl, shared, list, net
<1>3. InPlace'
  BY <1>1, <1>p DEF InPlace, ctl, RecvLabels, DelLabels, SendLabels, AddLabels
<1>4. Adding'
  BY <1>1, <1>p DEF Adding, Typed, InPlace, AddLabels, Unset, ctl, net, shared
<1>5. ASSUME NEW d \in Clients  PROVE Opened(d)'
  BY <1>1, <1>p DEF Opened, InPlace, Unset, MainRemoves, DelLabels, ctl, shared, net
<1>6. ASSUME NEW d \in Clients  PROVE HandedOver(d)'
  BY <1>1, <1>p DEF HandedOver, Dirty, net, Typed, Busy, Opened, MainRemoves, DelLabels, Unset, shared, ctl
<1>7. QED
  BY <1>2, <1>3, <1>4, <1>5, <1>6

-----------------------------------------------------------------------------
(* serverAccept and serverAdd *)

LEMMA AcceptEndInv ==
  ASSUME Inv, AcceptEnd
  PROVE  Inv'
<1> USE ThreadFacts, ServerAssumption DEF Inv, At, Only, AcceptEnd
<1>1. /\ pc' \in [Threads -> Labels] /\ pc'[Acceptor] = "end"
      /\ \A u \in Threads : u # Acceptor => pc'[u] = pc[u]
  BY DEF Typed, Go, Labels, RecvLabels, SendLabels, DelLabels, AddLabels
<1>2. Typed'
  BY <1>1 DEF Typed, ctl, shared, list, net
<1>3. InPlace'
  BY <1>1 DEF InPlace, ctl, RecvLabels, DelLabels, SendLabels, AddLabels
<1>4. Adding'
  BY <1>1 DEF Adding, Typed, InPlace, AddLabels, Unset, ctl, net, shared
<1>5. ASSUME NEW d \in Clients  PROVE Opened(d)'
  BY <1>1 DEF Opened, InPlace, Unset, MainRemoves, DelLabels, ctl, shared, net
<1>6. ASSUME NEW d \in Clients  PROVE HandedOver(d)'
  BY <1>1 DEF HandedOver, Dirty, net, Typed, Busy, Opened, MainRemoves, DelLabels, Unset, shared, ctl
<1>7. QED
  BY <1>2, <1>3, <1>4, <1>5, <1>6

LEMMA LinkLastList ==
  ASSUME Typed, newcomer \in Clients, LinkLast
  PROVE  head' \in Clients \union {Nil} /\ nxt' \in [Clients -> Clients \union {Nil}]
<1>1. CASE tail # Nil
  BY <1>1 DEF Typed, LinkLast
<1>2. CASE tail = Nil
  BY <1>2 DEF Typed, LinkLast
<1>3. QED
  BY <1>1, <1>2

LEMMA AcceptorMoves ==
  ASSUME InPlace, victim' = victim,
         pc'[Acceptor] \in {"accept", "end"} \union AddLabels,
         \A u \in Threads : u # Acceptor => pc'[u] = pc[u]
  PROVE  InPlace'
BY ThreadFacts DEF InPlace

LEMMA AcceptedInv ==
  ASSUME Inv, NEW c \in Clients, Accepted(c)
  PROVE  Inv'
<1> USE ThreadFacts, ServerAssumption DEF Inv, At, Only, Accepted
<1>1. /\ pc' \in [Threads -> Labels] /\ pc'[Acceptor] = "link1"
      /\ \A u \in Threads : u # Acceptor => pc'[u] = pc[u]
  BY DEF Typed, Go, Labels, RecvLabels, SendLabels, DelLabels, AddLabels
<1>p. /\ peer' \in [Clients -> {"none", "calls", "up", "gone"}]
      /\ newcomer' = c /\ Unset(c) /\ peer'[c] = "up"
      /\ \A d \in Clients : d # c => peer'[d] = peer[d]
  BY DEF Typed, Opened
<1>2. Typed'
  BY <1>1, <1>p DEF Typed, ctl, shared, list, net
<1>3. InPlace'
  BY <1>1, AcceptorMoves DEF AddLabels, ctl
<1>4. Adding'
  BY <1>1, <1>p DEF Adding, Typed, InPlace, AddLabels, Unset, ctl, net, shared
<1>5. ASSUME NEW d \in Clients  PROVE Opened(d)'
  BY <1>1, <1>p DEF Opened, Typed, InPlace, Unset, MainRemoves, DelLabels, ctl, shared, net
<1>6. ASSUME NEW d \in Clients  PROVE HandedOver(d)'
  BY <1>1, <1>p DEF HandedOver, Dirty, Typed, Busy, Opened, MainRemoves, DelLabels, Unset, shared, ctl, net
<1>7. QED
  BY <1>2, <1>3, <1>4, <1>5, <1>6

LEMMA LinkLastInv ==
  ASSUME Inv, LinkLast
  PROVE  Inv'
<1> USE ThreadFacts, ServerAssumption DEF Inv, At, Only, LinkLast
<1>1. /\ pc' \in [Threads -> Labels] /\ pc'[Acceptor] = "link2"
      /\ \A u \in Threads : u # Acceptor => pc'[u] = pc[u]
  BY DEF Typed, Go, Labels, RecvLabels, SendLabels, DelLabels, AddLabels
<1>p. /\ newcomer \in Clients /\ Unset(newcomer)
      /\ head' \in Clients \union {Nil} /\ nxt' \in [Clients -> Clients \union {Nil}]
      /\ sock' \in [Clients -> {"null", "open", "junk"}]
      /\ sock'[newcomer] = "junk" /\ \A d \in Clients : d # newcomer => sock'[d] = sock[d]
  <2>1. newcomer \in Clients /\ Unset(newcomer)
    BY DEF Adding, AddLabels
  <2>2. head' \in Clients \union {Nil} /\ nxt' \in [Clients -> Clients \union {Nil}]
    BY <2>1, LinkLastList
  <2>3. /\ sock' \in [Clients -> {"null", "open", "junk"}]
        /\ sock'[newcomer] = "junk" /\ \A d \in Clients : d # newcomer => sock'[d] = sock[d]
    BY <2>1 DEF Typed
  <2>4. QED
    BY <2>1, <2>2, <2>3
<1>2. Typed'
  BY <1>1, <1>p DEF Typed, ctl, shared, list, net
<1>3. InPlace'
  BY <1>1, AcceptorMoves DEF AddLabels, ctl
<1>4. Adding'
  BY <1>1, <1>p DEF Adding, Typed, InPlace, AddLabels, Unset, ctl, net, shared
<1>5. ASSUME NEW d \in Clients  PROVE Opened(d)'
  BY <1>1, <1>p DEF Opened, Typed, InPlace, Unset, MainRemoves, DelLabels, ctl, shared, net
<1>6. ASSUME NEW d \in Clients  PROVE HandedOver(d)'
  BY <1>1, <1>p DEF HandedOver, Dirty, Typed, Busy, Opened, MainRemoves, DelLabels, Unset, shared, ctl, net
<1>7. QED
  BY <1>2, <1>3, <1>4, <1>5, <1>6

LEMMA LinkBackInv ==
  ASSUME Inv, LinkBack
  PROVE  Inv'
<1> USE ThreadFacts, ServerAssumption DEF Inv, At, Only, LinkBack
<1>1. /\ pc' \in [Threads -> Labels] /\ pc'[Acceptor] = "fill"
      /\ \A u \in Threads : u # Acceptor => pc'[u] = pc[u]
  BY DEF Typed, Go, Labels, RecvLabels, SendLabels, DelLabels, AddLabels
<1>2. Typed'
  BY <1>1 DEF Typed, ctl, shared, list, net
<1>3. InPlace'
  BY <1>1 DEF InPlace, ctl, RecvLabels, DelLabels, SendLabels, AddLabels
<1>4. Adding'
  BY <1>1 DEF Adding, Typed, InPlace, AddLabels, Unset, ctl, net, shared
<1>5. ASSUME NEW d \in Clients  PROVE Opened(d)'
  BY <1>1 DEF Opened, InPlace, Unset, MainRemoves, DelLabels, ctl, shared, net
<1>6. ASSUME NEW d \in Clients  PROVE HandedOver(d)'
  BY <1>1 DEF HandedOver, Dirty, net, Typed, Busy, Opened, MainRemoves, DelLabels, Unset, shared, ctl
<1>7. QED
  BY <1>2, <1>3, <1>4, <1>5, <1>6

LEMMA FillInv ==
  ASSUME Inv, Fill
  PROVE  Inv'
<1> USE ThreadFacts, ServerAssumption DEF Inv, At, Only, Fill
<1>1. /\ pc' \in [Threads -> Labels] /\ pc'[Acceptor] = "runR"
      /\ \A u \in Threads : u # Acceptor => pc'[u] = pc[u]
  BY DEF Typed, Go, Labels, RecvLabels, SendLabels, DelLabels, AddLabels
<1>p. /\ newcomer \in Clients /\ Unset(newcomer)
      /\ sock'[newcomer] = "open" /\ cond'[newcomer].recv = "live"
      /\ cond'[newcomer].send = "live" /\ peer[newcomer] \notin {"none", "calls"}
      /\ pc[R(newcomer)] = "off" /\ pc[S(newcomer)] = "off"
      /\ \A d \in Clients : d # newcomer => sock'[d] = sock[d] /\ cond'[d] = cond[d]
  BY DEF Adding, AddLabels, Typed, Opened
<1>2. Typed'
  BY <1>1, <1>p DEF Typed, ctl, shared, list, net
<1>3. InPlace'
  BY <1>1, <1>p DEF InPlace, ctl, RecvLabels, DelLabels, SendLabels, AddLabels
<1>4. Adding'
  BY <1>1, <1>p DEF Adding, Opened, MainRemoves, DelLabels, Typed, InPlace, AddLabels, Unset, ctl, net, shared
<1>5. ASSUME NEW d \in Clients  PROVE Opened(d)'
  BY <1>1, <1>p DEF Opened, Typed, InPlace, Unset, MainRemoves, DelLabels, ctl, shared, net
<1>6. ASSUME NEW d \in Clients  PROVE HandedOver(d)'
  BY <1>1, <1>p DEF HandedOver, Dirty, net, Typed, Busy, Opened, MainRemoves, DelLabels, Unset, shared, ctl
<1>7. QED
  BY <1>2, <1>3, <1>4, <1>5, <1>6

LEMMA StartRecvInv ==
  ASSUME Inv, Start(R(newcomer), "runR", "setR")
  PROVE  Inv'
<1> USE ThreadFacts, ServerAssumption DEF Inv, At, Only, Start
<1>1. /\ newcomer \in Clients
      /\ pc[R(newcomer)] = "off" /\ ~Unset(newcomer)
      /\ pc' \in [Threads -> Labels] /\ pc'[Acceptor] = "setR" /\ pc'[R(newcomer)] = "test"
      /\ \A u \in Threads : u # Acceptor /\ u # R(newcomer) => pc'[u] = pc[u]
  <2>1. newcomer \in Clients /\ pc[R(newcomer)] = "off" /\ ~Unset(newcomer)
    BY DEF Adding, AddLabels
  <2>2. pc \in [Threads -> Labels] /\ "test" \in Labels /\ "setR" \in Labels
    BY DEF Typed, Labels, RecvLabels, AddLabels
  <2>3. pc' = [pc EXCEPT ![Acceptor] = "setR", ![R(newcomer)] = "test"]
    OBVIOUS
  <2>4. R(newcomer) \in Threads /\ R(newcomer) # Acceptor
    BY <2>1
  <2>5. QED
    BY <2>1, <2>2, <2>3, <2>4
<1>2. Typed'
  BY <1>1 DEF Typed, ctl, shared, list, net
<1>3. InPlace'
  BY <1>1 DEF InPlace, ctl, RecvLabels, DelLabels, SendLabels, AddLabels
<1>4. Adding'
  BY <1>1 DEF Adding, Typed, InPlace, AddLabels, Unset, ctl, net, shared
<1>5. ASSUME NEW d \in Clients  PROVE Opened(d)'
  BY <1>1 DEF Opened, Adding, AddLabels, InPlace, Unset, MainRemoves, DelLabels, ctl, shared, net
<1>6. ASSUME NEW d \in Clients  PROVE HandedOver(d)'
  BY <1>1 DEF HandedOver, Dirty, net, Typed, Busy, Opened, MainRemoves, DelLabels, Unset, shared, ctl
<1>7. QED
  BY <1>2, <1>3, <1>4, <1>5, <1>6

LEMMA StoreRecvInv ==
  ASSUME Inv, StoreRecv
  PROVE  Inv'
<1> USE ThreadFacts, ServerAssumption DEF Inv, At, Only, StoreRecv
<1>1. /\ pc' \in [Threads -> Labels] /\ pc'[Acceptor] = "runS"
      /\ \A u \in Threads : u # Acceptor => pc'[u] = pc[u]
  BY DEF Typed, Go, Labels, RecvLabels, SendLabels, DelLabels, AddLabels
<1>2. Typed'
  BY <1>1 DEF Typed, ctl, shared, list, net
<1>3. InPlace'
  BY <1>1 DEF InPlace, ctl, RecvLabels, DelLabels, SendLabels, AddLabels
<1>4. Adding'
  BY <1>1 DEF Adding, Typed, InPlace, AddLabels, Unset, ctl, net, shared
<1>5. ASSUME NEW d \in Clients  PROVE Opened(d)'
  BY <1>1 DEF Opened, InPlace, Unset, MainRemoves, DelLabels, ctl, shared, net
<1>6. ASSUME NEW d \in Clients  PROVE HandedOver(d)'
  BY <1>1 DEF HandedOver, Dirty, net, Typed, Busy, Opened, MainRemoves, DelLabels, Unset, shared, ctl
<1>7. QED
  BY <1>2, <1>3, <1>4, <1>5, <1>6

LEMMA StartSendInv ==
  ASSUME Inv, Start(S(newcomer), "runS", "setS")
  PROVE  Inv'
<1> USE ThreadFacts, ServerAssumption DEF Inv, At, Only, Start
<1>1. /\ newcomer \in Clients
      /\ pc[S(newcomer)] = "off" /\ ~Unset(newcomer)
      /\ pc' \in [Threads -> Labels] /\ pc'[Acceptor] = "setS" /\ pc'[S(newcomer)] = "test"
      /\ \A u \in Threads : u # Acceptor /\ u # S(newcomer) => pc'[u] = pc[u]
  <2>1. newcomer \in Clients /\ pc[S(newcomer)] = "off" /\ ~Unset(newcomer)
    BY DEF Adding, AddLabels
  <2>2. pc \in [Threads -> Labels] /\ "test" \in Labels /\ "setS" \in Labels
    BY DEF Typed, Labels, RecvLabels, AddLabels
  <2>3. pc' = [pc EXCEPT ![Acceptor] = "setS", ![S(newcomer)] = "test"]
    OBVIOUS
  <2>4. S(newcomer) \in Threads /\ S(newcomer) # Acceptor
    BY <2>1
  <2>5. QED
    BY <2>1, <2>2, <2>3, <2>4
<1>2. Typed'
  BY <1>1 DEF Typed, ctl, shared, list, net
<1>3. InPlace'
  BY <1>1 DEF InPlace, ctl, RecvLabels, DelLabels, SendLabels, AddLabels
<1>4. Adding'
  BY <1>1 DEF Adding, Typed, InPlace, AddLabels, Unset, ctl, net, shared
<1>5. ASSUME NEW d \in Clients  PROVE Opened(d)'
  BY <1>1 DEF Opened, Adding, AddLabels, InPlace, Unset, MainRemoves, DelLabels, ctl, shared, net
<1>6. ASSUME NEW d \in Clients  PROVE HandedOver(d)'
  BY <1>1 DEF HandedOver, Dirty, net, Typed, Busy, Opened, MainRemoves, DelLabels, Unset, shared, ctl
<1>7. QED
  BY <1>2, <1>3, <1>4, <1>5, <1>6

LEMMA StoreSendInv ==
  ASSUME Inv, StoreSend
  PROVE  Inv'
<1> USE ThreadFacts, ServerAssumption DEF Inv, At, Only, StoreSend
<1>1. /\ pc' \in [Threads -> Labels] /\ pc'[Acceptor] = "accept"
      /\ \A u \in Threads : u # Acceptor => pc'[u] = pc[u]
  BY DEF Typed, Go, Labels, RecvLabels, SendLabels, DelLabels, AddLabels
<1>2. Typed'
  BY <1>1 DEF Typed, ctl, shared, list, net
<1>3. InPlace'
  BY <1>1 DEF InPlace, ctl, RecvLabels, DelLabels, SendLabels, AddLabels
<1>4. Adding'
  BY <1>1 DEF Adding, Typed, InPlace, AddLabels, Unset, ctl, net, shared
<1>5. ASSUME NEW d \in Clients  PROVE Opened(d)'
  BY <1>1 DEF Opened, InPlace, Unset, MainRemoves, DelLabels, ctl, shared, net
<1>6. ASSUME NEW d \in Clients  PROVE HandedOver(d)'
  BY <1>1 DEF HandedOver, Dirty, net, Typed, Busy, Opened, MainRemoves, DelLabels, Unset, shared, ctl
<1>7. QED
  BY <1>2, <1>3, <1>4, <1>5, <1>6

-----------------------------------------------------------------------------
(* serverRun and serverEnd *)

LEMMA StopRunningInv ==
  ASSUME Inv, StopRunning
  PROVE  Inv'
<1> USE ThreadFacts, ServerAssumption DEF Inv, At, Only, StopRunning
<1>1. /\ pc' \in [Threads -> Labels] /\ pc'[Main] = "pick"
      /\ \A u \in Threads : u # Main => pc'[u] = pc[u]
  BY DEF Typed, Go, Labels, RecvLabels, SendLabels, DelLabels, AddLabels
<1>2. Typed'
  BY <1>1 DEF Typed, ctl, shared, list, net
<1>3. InPlace'
  BY <1>1 DEF InPlace, ctl, RecvLabels, DelLabels, SendLabels, AddLabels
<1>4. Adding'
  BY <1>1 DEF Adding, Typed, InPlace, AddLabels, Unset, ctl, net, shared
<1>5. ASSUME NEW d \in Clients  PROVE Opened(d)'
  BY <1>1 DEF Opened, InPlace, Unset, MainRemoves, DelLabels, ctl, shared, net
<1>6. ASSUME NEW d \in Clients  PROVE HandedOver(d)'
  BY <1>1 DEF HandedOver, Dirty, net, Typed, Busy, Opened, MainRemoves, DelLabels, Unset, shared, ctl
<1>7. QED
  BY <1>2, <1>3, <1>4, <1>5, <1>6

LEMMA PickFirstInv ==
  ASSUME Inv, PickFirst
  PROVE  Inv'
<1> USE ThreadFacts, ServerAssumption DEF Inv, At, Only, PickFirst
<1>1. /\ pc' \in [Threads -> Labels] /\ pc'[Main] = "swap"
      /\ \A u \in Threads : u # Main => pc'[u] = pc[u]
  BY DEF Typed, Go, Labels, RecvLabels, SendLabels, DelLabels, AddLabels
<1>p. head \in Clients /\ ~Unset(head)
  BY DEF Typed, Opened
<1>2. Typed'
  BY <1>1, <1>p DEF Typed, ctl, shared, list, net
<1>3. InPlace'
  BY <1>1, <1>p DEF InPlace, ctl, RecvLabels, DelLabels, SendLabels, AddLabels
<1>4. Adding'
  BY <1>1, <1>p DEF Adding, Typed, InPlace, AddLabels, Unset, ctl, net, shared
<1>5. ASSUME NEW d \in Clients  PROVE Opened(d)'
  BY <1>1, <1>p DEF Opened, Typed, InPlace, Unset, MainRemoves, DelLabels, ctl, shared, net
<1>6. ASSUME NEW d \in Clients  PROVE HandedOver(d)'
  BY <1>1, <1>p DEF HandedOver, Dirty, net, Typed, Busy, Opened, MainRemoves, DelLabels, Unset, shared, ctl
<1>7. QED
  BY <1>2, <1>3, <1>4, <1>5, <1>6

LEMMA PickJunkInv ==
  ASSUME Inv, PickJunk
  PROVE  Inv'
<1> USE ThreadFacts, ServerAssumption DEF Inv, At, Only, PickJunk
<1>1. /\ pc' \in [Threads -> Labels] /\ pc'[Main] = "end"
      /\ \A u \in Threads : u # Main => pc'[u] = pc[u]
  BY DEF Typed, Go, Labels, RecvLabels, SendLabels, DelLabels, AddLabels
<1>2. Typed'
  BY <1>1 DEF Typed, ctl, shared, list, net
<1>3. InPlace'
  BY <1>1 DEF InPlace, ctl, RecvLabels, DelLabels, SendLabels, AddLabels
<1>4. Adding'
  BY <1>1 DEF Adding, Typed, InPlace, AddLabels, Unset, ctl, net, shared
<1>5. ASSUME NEW d \in Clients  PROVE Opened(d)'
  BY <1>1 DEF Opened, InPlace, Unset, MainRemoves, DelLabels, ctl, shared, net
<1>6. ASSUME NEW d \in Clients  PROVE HandedOver(d)'
  BY <1>1 DEF HandedOver, Dirty, net, Typed, Busy, Opened, MainRemoves, DelLabels, Unset, shared, ctl
<1>7. QED
  BY <1>2, <1>3, <1>4, <1>5, <1>6

LEMMA FinishInv ==
  ASSUME Inv, Finish
  PROVE  Inv'
<1> USE ThreadFacts, ServerAssumption DEF Inv, At, Only, Finish
<1>1. /\ pc' \in [Threads -> Labels] /\ pc'[Main] = "end"
      /\ \A u \in Threads : u # Main => pc'[u] = pc[u]
  BY DEF Typed, Go, Labels, RecvLabels, SendLabels, DelLabels, AddLabels
<1>2. Typed'
  BY <1>1 DEF Typed, ctl, shared, list, net
<1>3. InPlace'
  BY <1>1 DEF InPlace, ctl, RecvLabels, DelLabels, SendLabels, AddLabels
<1>4. Adding'
  BY <1>1 DEF Adding, Typed, InPlace, AddLabels, Unset, ctl, net, shared
<1>5. ASSUME NEW d \in Clients  PROVE Opened(d)'
  BY <1>1 DEF Opened, InPlace, Unset, MainRemoves, DelLabels, ctl, shared, net
<1>6. ASSUME NEW d \in Clients  PROVE HandedOver(d)'
  BY <1>1 DEF HandedOver, Dirty, net, Typed, Busy, Opened, MainRemoves, DelLabels, Unset, shared, ctl
<1>7. QED
  BY <1>2, <1>3, <1>4, <1>5, <1>6

-----------------------------------------------------------------------------
(* The client programs, and all of Next *)

LEMMA PeerInv ==
  ASSUME Inv, NEW c \in Clients, Call(c) \/ HangUp(c) \/ SendMessage(c)
  PROVE  Inv'
<1> USE ThreadFacts DEF Inv
<1>1. /\ UNCHANGED <<pc, ctl, shared, list, owed, plan>>
      /\ peer' \in [Clients -> {"none", "calls", "up", "gone"}]
      /\ \A d \in Clients : peer'[d] \in {"none", "calls"} => peer[d] \in {"none", "calls"}
  <2>1. CASE Call(c)
    BY <2>1 DEF Call, Peer, Typed
  <2>2. CASE HangUp(c)
    BY <2>2 DEF HangUp, Peer, Typed
  <2>3. CASE SendMessage(c)
    BY <2>3 DEF SendMessage, Typed
  <2>4. QED
    BY <2>1, <2>2, <2>3
<1>2. Typed'
  BY <1>1 DEF Typed, ctl, shared, list
<1>3. InPlace'
  BY <1>1 DEF InPlace, ctl
<1>4. Adding'
  BY <1>1 DEF Adding, AddLabels, Unset, ctl, shared
<1>5. ASSUME NEW d \in Clients  PROVE Opened(d)' /\ HandedOver(d)'
  BY <1>1 DEF Opened, HandedOver, Dirty, Busy, Unset, MainRemoves, ctl, shared
<1>6. QED
  BY <1>2, <1>3, <1>4, <1>5

LEMMA DelInv ==
  ASSUME Inv, NEW c \in Clients, NEW t, Remover(t, c), Del(c, t)
  PROVE  Inv'
BY DelTestInv, DelSwapInv, DelWakeRecvInv, DelNoRecvInv, DestroyRecvInv, DelWakeSendInv,
   DelNoSendInv, DestroySendInv, UnlinkNextInv, UnlinkPrevInv DEF Del

LEMMA NextInv ==
  ASSUME Inv, [Next]_vars
  PROVE  Inv'
<1>1. ASSUME NEW c \in Clients, RecvThread(c)  PROVE Inv'
  BY <1>1, DelInv, RecvTestInv, RecvDataInv, PutAnswerInv, SignalDataInv, WaitRecvInv,
     RecvExitInv DEF RecvThread, Receive, Remover
<1>2. ASSUME NEW c \in Clients, SendThread(c)  PROVE Inv'
  BY <1>2, DelInv, SendTestInv, SendLenInv, SendDataInv, SignalSentInv, WaitSendInv,
     SendExitInv DEF SendThread, SendLoop, Remover
<1>3. ASSUME MainStep  PROVE Inv'
  BY <1>3, DelInv, PickFirstInv, PickJunkInv, FinishInv DEF MainStep, Remover, Inv, Typed
<1>4. ASSUME Accept  PROVE Inv'
  BY <1>4, AcceptedInv, LinkLastInv, AcceptEndInv, LinkBackInv, FillInv, StoreRecvInv, StoreSendInv,
     StartRecvInv, StartSendInv DEF Accept
<1>5. CASE UNCHANGED vars
  BY <1>5, Quiet DEF vars, ctl, shared, list, net
<1>6. QED
  BY <1>1, <1>2, <1>3, <1>4, <1>5, StopRunningInv, PeerInv DEF Next

LEMMA InitInv == Init => Inv
<1> SUFFICES ASSUME Init PROVE Inv
  OBVIOUS
<1> USE ThreadFacts, ServerAssumption DEF Init
<1>1. /\ pc \in [Threads -> Labels]
      /\ pc[Main] = "run" /\ pc[Acceptor] = "accept"
      /\ \A c \in Clients : pc[R(c)] = "off" /\ pc[S(c)] = "off"
  BY DEF Labels, RecvLabels
<1>2. Typed
  BY <1>1 DEF Typed
<1>3. InPlace /\ Adding
  BY <1>1 DEF InPlace, Adding, AddLabels, RecvLabels, SendLabels, DelLabels
<1>4. ASSUME NEW c \in Clients  PROVE Opened(c) /\ HandedOver(c)
  <2>1. ~Dirty(c) => slen[c] = 0
    BY DEF Dirty
  <2>2. QED
    BY <1>1, <2>1 DEF Opened, HandedOver, Unset, MainRemoves, Busy, DelLabels
<1>5. QED
  BY <1>2, <1>3, <1>4 DEF Inv

\* The invariant holds: threads stay in their programs, clients are used only
\* once they are set up, and the buffer has one owner.
THEOREM Invariant == Spec => []Inv
<1>1. QED
  BY InitInv, NextInv, PTL DEF Spec

\* serverProcess puts an answer into the send buffer only when serverSend has sent
\* the one before whole, whatever signals are lost and whoever ends, if the buffer
\* began empty.
THEOREM HandsOver == Spec => BufferHandedOver
<1>1. ASSUME Inv, NEW c \in Clients, PutAnswer(c), ~Dirty(c)
      PROVE  slen[c] = 0 /\ pc[S(c)] # "send"
  BY <1>1, ServerAssumption DEF Inv, Typed, HandedOver, Busy, PutAnswer, At
<1>2. Inv /\ [Next]_vars =>
        [\A c \in Clients : PutAnswer(c) /\ ~Dirty(c) => slen[c] = 0 /\ pc[S(c)] # "send"]_vars
  BY <1>1
<1>3. QED
  BY Invariant, <1>2, PTL DEF Spec, BufferHandedOver

-----------------------------------------------------------------------------
(* Removal, step by step *)

\* A step that takes no thread further in serverDel keeps Removal when what is
\* removed stays removed and no thread comes back from the end of its loop.
LEMMA Frame ==
  ASSUME Inv, Removal, windows \subseteq windows',
         Clean' => misused' \subseteq misused \union {"sent"},
         \A c \in Clients : \/ cond'[c] = cond[c]
                            \/ Unset(c) /\ cond'[c].recv = "live" /\ cond'[c].send = "live",
         \A c \in Clients : cond[c].recv = "gone" /\ sock[c] = "null" => sock'[c] = "null",
         \A c \in Clients : \A t \in Threads :
            Removing(t, c)' => Removing(t, c) /\ pc'[t] = pc[t],
         \A t \in Threads : Past(t) => Past(t)',
         \A c \in Clients : rthread[c] => rthread'[c] \/ Past(R(c))',
         \A c \in Clients : sthread[c] => sthread'[c] \/ Past(S(c))'
  PROVE  Removal'
<1> SUFFICES ASSUME Clean'  PROVE misused' \subseteq {"sent"} /\ \A c \in Clients : InOrder(c)'
  BY DEF Removal
<1>1. misused \subseteq {"sent"} /\ \A c \in Clients : InOrder(c)
  BY DEF Removal, Clean
<1>2. ASSUME NEW c \in Clients  PROVE InOrder(c)'
  <2>1. CASE cond'[c] = cond[c]
    BY <1>1, <2>1, ThreadFacts DEF InOrder
  <2>2. CASE Unset(c) /\ cond'[c].recv = "live" /\ cond'[c].send = "live"
    <3>1. \A t \in Threads : ~Removing(t, c)
      BY <2>2, ThreadFacts DEF Removing, Remover, Inv, Opened, MainRemoves, DelLabels
    <3>2. QED
      BY <1>1, <2>2, <3>1, ThreadFacts DEF InOrder
  <2>3. QED
    BY <2>1, <2>2
<1>3. QED
  BY <1>1, <1>2

(* serverReceive *)

LEMMA RecvTestRem ==
  ASSUME Inv, Inv', Removal, NEW c \in Clients, RecvTest(c)
  PROVE  Removal'
<1> USE ThreadFacts DEF At, Only, RecvTest
<1>0. Typed /\ Adding
  BY DEF Inv
<1>1. /\ pc' \in [Threads -> Labels] /\ pc'[R(c)] = "recv"
      /\ \A u \in Threads : u # R(c) => pc'[u] = pc[u]
  BY <1>0 DEF Typed, Go, Labels, RecvLabels, SendLabels, DelLabels, AddLabels
<1>2. windows \subseteq windows'
  BY DEF Enter, Signal, Crossing, Early
<1>3. Clean' => misused' \subseteq misused \union {"sent"}
  BY <1>1 DEF Removal, Clean
<1>4. \A d \in Clients :
        /\ cond'[d] = cond[d] \/ (Unset(d) /\ cond'[d].recv = "live" /\ cond'[d].send = "live")
        /\ cond[d].recv = "gone" /\ sock[d] = "null" => sock'[d] = "null"
  BY <1>1 DEF shared, Inv, Typed, Adding, AddLabels, Unset
<1>5. \A u \in Threads : /\ Past(u) => Past(u)'
                         /\ \A d \in Clients : Removing(u, d)' => Removing(u, d) /\ pc'[u] = pc[u]
  BY <1>1 DEF Removing, Remover, Past, ctl, DelLabels
<1>6. \A d \in Clients : /\ rthread[d] => rthread'[d] \/ Past(R(d))'
                         /\ sthread[d] => sthread'[d] \/ Past(S(d))'
  BY <1>1 DEF shared, Past, Inv, Typed, Adding, AddLabels
<1>7. QED
  BY <1>2, <1>3, <1>4, <1>5, <1>6, Frame

LEMMA RecvDataRem ==
  ASSUME Inv, Inv', Removal, NEW c \in Clients, RecvData(c)
  PROVE  Removal'
<1> USE ThreadFacts DEF At, Only, RecvData
<1>0. Typed /\ Adding
  BY DEF Inv
<1>1. /\ pc' \in [Threads -> Labels] /\ pc'[R(c)] \in {"proc", "test"}
      /\ \A u \in Threads : u # R(c) => pc'[u] = pc[u]
  BY <1>0 DEF Typed, Go, Labels, RecvLabels, SendLabels, DelLabels, AddLabels
<1>2. windows \subseteq windows'
  BY DEF Enter, Signal, Crossing, Early
<1>3. Clean' => misused' \subseteq misused \union {"sent"}
  BY <1>1 DEF Removal, Clean
<1>4. \A d \in Clients :
        /\ cond'[d] = cond[d] \/ (Unset(d) /\ cond'[d].recv = "live" /\ cond'[d].send = "live")
        /\ cond[d].recv = "gone" /\ sock[d] = "null" => sock'[d] = "null"
  BY <1>1 DEF shared, Inv, Typed, Adding, AddLabels, Unset
<1>5. \A u \in Threads : /\ Past(u) => Past(u)'
                         /\ \A d \in Clients : Removing(u, d)' => Removing(u, d) /\ pc'[u] = pc[u]
  BY <1>1 DEF Removing, Remover, Past, ctl, DelLabels
<1>6. \A d \in Clients : /\ rthread[d] => rthread'[d] \/ Past(R(d))'
                         /\ sthread[d] => sthread'[d] \/ Past(S(d))'
  BY <1>1 DEF shared, Past, Inv, Typed, Adding, AddLabels
<1>7. QED
  BY <1>2, <1>3, <1>4, <1>5, <1>6, Frame

LEMMA PutAnswerRem ==
  ASSUME Inv, Inv', Removal, NEW c \in Clients, PutAnswer(c)
  PROVE  Removal'
<1> USE ThreadFacts DEF At, Only, PutAnswer
<1>0. Typed /\ Adding
  BY DEF Inv
<1>1. /\ pc' \in [Threads -> Labels] /\ pc'[R(c)] = "sig"
      /\ \A u \in Threads : u # R(c) => pc'[u] = pc[u]
  BY <1>0 DEF Typed, Go, Labels, RecvLabels, SendLabels, DelLabels, AddLabels
<1>2. windows \subseteq windows'
  BY DEF Enter, Signal, Crossing, Early
<1>3. Clean' => misused' \subseteq misused \union {"sent"}
  BY <1>1 DEF Removal, Clean
<1>4. \A d \in Clients :
        /\ cond'[d] = cond[d] \/ (Unset(d) /\ cond'[d].recv = "live" /\ cond'[d].send = "live")
        /\ cond[d].recv = "gone" /\ sock[d] = "null" => sock'[d] = "null"
  BY <1>1 DEF shared, Inv, Typed, Adding, AddLabels, Unset
<1>5. \A u \in Threads : /\ Past(u) => Past(u)'
                         /\ \A d \in Clients : Removing(u, d)' => Removing(u, d) /\ pc'[u] = pc[u]
  BY <1>1 DEF Removing, Remover, Past, ctl, DelLabels
<1>6. \A d \in Clients : /\ rthread[d] => rthread'[d] \/ Past(R(d))'
                         /\ sthread[d] => sthread'[d] \/ Past(S(d))'
  BY <1>1 DEF shared, Past, Inv, Typed, Adding, AddLabels
<1>7. QED
  BY <1>2, <1>3, <1>4, <1>5, <1>6, Frame

LEMMA SignalDataRem ==
  ASSUME Inv, Inv', Removal, NEW c \in Clients, SignalData(c)
  PROVE  Removal'
<1> USE ThreadFacts DEF At, Only, SignalData
<1>0. Typed /\ Adding
  BY DEF Inv
<1>s. /\ pc \in [Threads -> Labels] /\ R(c) \in Threads /\ S(c) \in Threads
      /\ pc[R(c)] = "sig" /\ "wait" \in Labels
  BY <1>0 DEF Typed, Labels, RecvLabels, SendLabels, DelLabels, AddLabels
<1>1. /\ pc' \in [Threads -> Labels] /\ pc'[R(c)] = "wait"
      /\ \A v \in Threads :
           v # R(c) => pc'[v] = IF v = S(c) /\ pc[v] = "waiting" THEN "test" ELSE pc[v]
  BY <1>s, SignalFacts
<1>p. Clean' => cond[c].send = "live"
  <2>1. Clean' => InOrder(c)
    BY DEF Removal, Clean, Signal, Enter
  <2>2. cond[c].send # "none" /\ ~Past(R(c)) /\ cond[c].send \in {"none", "live", "gone"}
    BY <1>0 DEF Inv, Opened, Typed, Past, DelLabels
  <2>3. QED
    BY <2>1, <2>2 DEF InOrder
<1>2. windows \subseteq windows'
  BY DEF Enter, Signal, Crossing, Early
<1>3. Clean' => misused' \subseteq misused \union {"sent"}
  BY <1>1, <1>p DEF Removal, Clean, Use, Signal
<1>4. \A d \in Clients :
        /\ cond'[d] = cond[d] \/ (Unset(d) /\ cond'[d].recv = "live" /\ cond'[d].send = "live")
        /\ cond[d].recv = "gone" /\ sock[d] = "null" => sock'[d] = "null"
  BY <1>1, <1>p DEF shared, Inv, Typed, Adding, AddLabels, Unset
<1>5. \A u \in Threads : /\ Past(u) => Past(u)'
                         /\ \A d \in Clients : Removing(u, d)' => Removing(u, d) /\ pc'[u] = pc[u]
  BY <1>1, <1>p DEF Removing, Remover, Past, ctl, DelLabels
<1>6. \A d \in Clients : /\ rthread[d] => rthread'[d] \/ Past(R(d))'
                         /\ sthread[d] => sthread'[d] \/ Past(S(d))'
  BY <1>1, <1>p DEF shared, Past, Inv, Typed, Adding, AddLabels
<1>7. QED
  BY <1>2, <1>3, <1>4, <1>5, <1>6, Frame

LEMMA WaitRecvRem ==
  ASSUME Inv, Inv', Removal, NEW c \in Clients, Wait(c, R(c), "recv")
  PROVE  Removal'
<1> USE ThreadFacts DEF At, Only, Wait
<1>0. Typed /\ Adding
  BY DEF Inv
<1>1. /\ pc' \in [Threads -> Labels] /\ pc'[R(c)] = "waiting"
      /\ \A u \in Threads : u # R(c) => pc'[u] = pc[u]
  BY <1>0 DEF Typed, Go, Labels, RecvLabels, SendLabels, DelLabels, AddLabels
<1>p. Clean' => cond[c].recv = "live"
  <2>1. Clean' => InOrder(c)
    BY DEF Removal, Clean
  <2>2. cond[c].recv # "none" /\ ~Past(R(c)) /\ cond[c].recv \in {"none", "live", "gone"}
    BY <1>0 DEF Inv, Opened, Unset, Typed, Past, DelLabels
  <2>3. QED
    BY <2>1, <2>2 DEF InOrder
<1>2. windows \subseteq windows'
  BY DEF Enter, Signal, Crossing, Early
<1>3. Clean' => misused' \subseteq misused \union {"sent"}
  BY <1>1, <1>p DEF Removal, Clean, Use
<1>4. \A d \in Clients :
        /\ cond'[d] = cond[d] \/ (Unset(d) /\ cond'[d].recv = "live" /\ cond'[d].send = "live")
        /\ cond[d].recv = "gone" /\ sock[d] = "null" => sock'[d] = "null"
  BY <1>1, <1>p DEF shared, Inv, Typed, Adding, AddLabels, Unset
<1>5. \A u \in Threads : /\ Past(u) => Past(u)'
                         /\ \A d \in Clients : Removing(u, d)' => Removing(u, d) /\ pc'[u] = pc[u]
  BY <1>1, <1>p DEF Removing, Remover, Past, ctl, DelLabels
<1>6. \A d \in Clients : /\ rthread[d] => rthread'[d] \/ Past(R(d))'
                         /\ sthread[d] => sthread'[d] \/ Past(S(d))'
  BY <1>1, <1>p DEF shared, Past, Inv, Typed, Adding, AddLabels
<1>7. QED
  BY <1>2, <1>3, <1>4, <1>5, <1>6, Frame

LEMMA RecvExitRem ==
  ASSUME Inv, Inv', Removal, NEW c \in Clients, RecvExit(c)
  PROVE  Removal'
<1> USE ThreadFacts DEF At, Only, RecvExit
<1>0. Typed /\ Adding
  BY DEF Inv
<1>1. /\ pc' \in [Threads -> Labels] /\ pc'[R(c)] = "del"
      /\ \A u \in Threads : u # R(c) => pc'[u] = pc[u]
  BY <1>0 DEF Typed, Go, Labels, RecvLabels, SendLabels, DelLabels, AddLabels
<1>2. windows \subseteq windows'
  BY DEF Enter, Signal, Crossing, Early
<1>3. Clean' => misused' \subseteq misused \union {"sent"}
  BY <1>1 DEF Removal, Clean
<1>4. \A d \in Clients :
        /\ cond'[d] = cond[d] \/ (Unset(d) /\ cond'[d].recv = "live" /\ cond'[d].send = "live")
        /\ cond[d].recv = "gone" /\ sock[d] = "null" => sock'[d] = "null"
  BY <1>1 DEF shared, Inv, Typed, Adding, AddLabels, Unset
<1>5. \A u \in Threads : /\ Past(u) => Past(u)'
                         /\ \A d \in Clients : Removing(u, d)' => Removing(u, d) /\ pc'[u] = pc[u]
  BY <1>1 DEF Removing, Remover, Past, ctl, DelLabels
<1>6. \A d \in Clients : /\ rthread[d] => rthread'[d] \/ Past(R(d))'
                         /\ sthread[d] => sthread'[d] \/ Past(S(d))'
  BY <1>1 DEF shared, Past, Inv, Typed, Adding, AddLabels
<1>7. QED
  BY <1>2, <1>3, <1>4, <1>5, <1>6, Frame

(* serverSend *)

LEMMA SendTestRem ==
  ASSUME Inv, Inv', Removal, NEW c \in Clients, SendTest(c)
  PROVE  Removal'
<1> USE ThreadFacts DEF At, Only, SendTest
<1>0. Typed /\ Adding
  BY DEF Inv
<1>1. /\ pc' \in [Threads -> Labels] /\ pc'[S(c)] = "len"
      /\ \A u \in Threads : u # S(c) => pc'[u] = pc[u]
  BY <1>0 DEF Typed, Go, Labels, RecvLabels, SendLabels, DelLabels, AddLabels
<1>2. windows \subseteq windows'
  BY DEF Enter, Signal, Crossing, Early
<1>3. Clean' => misused' \subseteq misused \union {"sent"}
  BY <1>1 DEF Removal, Clean
<1>4. \A d \in Clients :
        /\ cond'[d] = cond[d] \/ (Unset(d) /\ cond'[d].recv = "live" /\ cond'[d].send = "live")
        /\ cond[d].recv = "gone" /\ sock[d] = "null" => sock'[d] = "null"
  BY <1>1 DEF shared, Inv, Typed, Adding, AddLabels, Unset
<1>5. \A u \in Threads : /\ Past(u) => Past(u)'
                         /\ \A d \in Clients : Removing(u, d)' => Removing(u, d) /\ pc'[u] = pc[u]
  BY <1>1 DEF Removing, Remover, Past, ctl, DelLabels
<1>6. \A d \in Clients : /\ rthread[d] => rthread'[d] \/ Past(R(d))'
                         /\ sthread[d] => sthread'[d] \/ Past(S(d))'
  BY <1>1 DEF shared, Past, Inv, Typed, Adding, AddLabels
<1>7. QED
  BY <1>2, <1>3, <1>4, <1>5, <1>6, Frame

LEMMA SendLenRem ==
  ASSUME Inv, Inv', Removal, NEW c \in Clients, SendLen(c)
  PROVE  Removal'
<1> USE ThreadFacts DEF At, Only, SendLen
<1>0. Typed /\ Adding
  BY DEF Inv
<1>1. /\ pc' \in [Threads -> Labels] /\ pc'[S(c)] \in {"send", "wait"}
      /\ \A u \in Threads : u # S(c) => pc'[u] = pc[u]
  BY <1>0 DEF Typed, Go, Labels, RecvLabels, SendLabels, DelLabels, AddLabels
<1>2. windows \subseteq windows'
  BY DEF Enter, Signal, Crossing, Early
<1>3. Clean' => misused' \subseteq misused \union {"sent"}
  BY <1>1 DEF Removal, Clean
<1>4. \A d \in Clients :
        /\ cond'[d] = cond[d] \/ (Unset(d) /\ cond'[d].recv = "live" /\ cond'[d].send = "live")
        /\ cond[d].recv = "gone" /\ sock[d] = "null" => sock'[d] = "null"
  BY <1>1 DEF shared, Inv, Typed, Adding, AddLabels, Unset
<1>5. \A u \in Threads : /\ Past(u) => Past(u)'
                         /\ \A d \in Clients : Removing(u, d)' => Removing(u, d) /\ pc'[u] = pc[u]
  BY <1>1 DEF Removing, Remover, Past, ctl, DelLabels
<1>6. \A d \in Clients : /\ rthread[d] => rthread'[d] \/ Past(R(d))'
                         /\ sthread[d] => sthread'[d] \/ Past(S(d))'
  BY <1>1 DEF shared, Past, Inv, Typed, Adding, AddLabels
<1>7. QED
  BY <1>2, <1>3, <1>4, <1>5, <1>6, Frame

LEMMA SendDataRem ==
  ASSUME Inv, Inv', Removal, NEW c \in Clients, SendData(c)
  PROVE  Removal'
<1> USE ThreadFacts DEF At, Only, SendData
<1>0. Typed /\ Adding
  BY DEF Inv
<1>1. /\ pc' \in [Threads -> Labels] /\ pc'[S(c)] \in {"sig", "test"}
      /\ \A u \in Threads : u # S(c) => pc'[u] = pc[u]
  <2>1. PICK l \in {"sig", "test"} : Go(S(c), l)
    OBVIOUS
  <2>2. QED
    BY <1>0, <2>1 DEF Typed, Go, Labels, SendLabels
<1>2. windows \subseteq windows'
  BY DEF Enter, Signal, Crossing, Early
<1>3. Clean' => misused' \subseteq misused \union {"sent"}
  BY <1>1 DEF Removal, Clean
<1>4. \A d \in Clients :
        /\ cond'[d] = cond[d] \/ (Unset(d) /\ cond'[d].recv = "live" /\ cond'[d].send = "live")
        /\ cond[d].recv = "gone" /\ sock[d] = "null" => sock'[d] = "null"
  BY <1>1 DEF shared, Inv, Typed, Adding, AddLabels, Unset
<1>5. \A u \in Threads : /\ Past(u) => Past(u)'
                         /\ \A d \in Clients : Removing(u, d)' => Removing(u, d) /\ pc'[u] = pc[u]
  BY <1>1 DEF Removing, Remover, Past, ctl, DelLabels
<1>6. \A d \in Clients : /\ rthread[d] => rthread'[d] \/ Past(R(d))'
                         /\ sthread[d] => sthread'[d] \/ Past(S(d))'
  BY <1>1 DEF shared, Past, Inv, Typed, Adding, AddLabels
<1>7. QED
  BY <1>2, <1>3, <1>4, <1>5, <1>6, Frame

LEMMA SignalSentRem ==
  ASSUME Inv, Inv', Removal, NEW c \in Clients, SignalSent(c)
  PROVE  Removal'
<1> USE ThreadFacts DEF At, Only, SignalSent
<1>0. Typed /\ Adding
  BY DEF Inv
<1>s. /\ pc \in [Threads -> Labels] /\ S(c) \in Threads /\ R(c) \in Threads
      /\ pc[S(c)] = "sig" /\ "test" \in Labels
  BY <1>0 DEF Typed, Labels, RecvLabels, SendLabels, DelLabels, AddLabels
<1>1. /\ pc' \in [Threads -> Labels] /\ pc'[S(c)] = "test"
      /\ \A v \in Threads :
           v # S(c) => pc'[v] = IF v = R(c) /\ pc[v] = "waiting" THEN "test" ELSE pc[v]
  BY <1>s, SignalFacts
<1>2. windows \subseteq windows'
  BY DEF Enter, Signal, Crossing, Early
<1>3. Clean' => misused' \subseteq misused \union {"sent"}
  BY <1>1 DEF Removal, Clean, Use, Signal
<1>4. \A d \in Clients :
        /\ cond'[d] = cond[d] \/ (Unset(d) /\ cond'[d].recv = "live" /\ cond'[d].send = "live")
        /\ cond[d].recv = "gone" /\ sock[d] = "null" => sock'[d] = "null"
  BY <1>1 DEF shared, Inv, Typed, Adding, AddLabels, Unset
<1>5. \A u \in Threads : /\ Past(u) => Past(u)'
                         /\ \A d \in Clients : Removing(u, d)' => Removing(u, d) /\ pc'[u] = pc[u]
  BY <1>1 DEF Removing, Remover, Past, ctl, DelLabels
<1>6. \A d \in Clients : /\ rthread[d] => rthread'[d] \/ Past(R(d))'
                         /\ sthread[d] => sthread'[d] \/ Past(S(d))'
  BY <1>1 DEF shared, Past, Inv, Typed, Adding, AddLabels
<1>7. QED
  BY <1>2, <1>3, <1>4, <1>5, <1>6, Frame

LEMMA WaitSendRem ==
  ASSUME Inv, Inv', Removal, NEW c \in Clients, Wait(c, S(c), "send")
  PROVE  Removal'
<1> USE ThreadFacts DEF At, Only, Wait
<1>0. Typed /\ Adding
  BY DEF Inv
<1>1. /\ pc' \in [Threads -> Labels] /\ pc'[S(c)] = "waiting"
      /\ \A u \in Threads : u # S(c) => pc'[u] = pc[u]
  BY <1>0 DEF Typed, Go, Labels, RecvLabels, SendLabels, DelLabels, AddLabels
<1>p. Clean' => cond[c].send = "live"
  <2>1. Clean' => InOrder(c)
    BY DEF Removal, Clean
  <2>2. cond[c].send # "none" /\ ~Past(S(c)) /\ cond[c].send \in {"none", "live", "gone"}
    BY <1>0 DEF Inv, Opened, Unset, Typed, Past, DelLabels
  <2>3. QED
    BY <2>1, <2>2 DEF InOrder
<1>2. windows \subseteq windows'
  BY DEF Enter, Signal, Crossing, Early
<1>3. Clean' => misused' \subseteq misused \union {"sent"}
  BY <1>1, <1>p DEF Removal, Clean, Use
<1>4. \A d \in Clients :
        /\ cond'[d] = cond[d] \/ (Unset(d) /\ cond'[d].recv = "live" /\ cond'[d].send = "live")
        /\ cond[d].recv = "gone" /\ sock[d] = "null" => sock'[d] = "null"
  BY <1>1, <1>p DEF shared, Inv, Typed, Adding, AddLabels, Unset
<1>5. \A u \in Threads : /\ Past(u) => Past(u)'
                         /\ \A d \in Clients : Removing(u, d)' => Removing(u, d) /\ pc'[u] = pc[u]
  BY <1>1, <1>p DEF Removing, Remover, Past, ctl, DelLabels
<1>6. \A d \in Clients : /\ rthread[d] => rthread'[d] \/ Past(R(d))'
                         /\ sthread[d] => sthread'[d] \/ Past(S(d))'
  BY <1>1, <1>p DEF shared, Past, Inv, Typed, Adding, AddLabels
<1>7. QED
  BY <1>2, <1>3, <1>4, <1>5, <1>6, Frame

LEMMA SendExitRem ==
  ASSUME Inv, Inv', Removal, NEW c \in Clients, SendExit(c)
  PROVE  Removal'
<1> USE ThreadFacts DEF At, Only, SendExit
<1>0. Typed /\ Adding
  BY DEF Inv
<1>1. /\ pc' \in [Threads -> Labels] /\ pc'[S(c)] = "del"
      /\ \A u \in Threads : u # S(c) => pc'[u] = pc[u]
  BY <1>0 DEF Typed, Go, Labels, RecvLabels, SendLabels, DelLabels, AddLabels
<1>2. windows \subseteq windows'
  BY DEF Enter, Signal, Crossing, Early
<1>3. Clean' => misused' \subseteq misused \union {"sent"}
  BY <1>1 DEF Removal, Clean
<1>4. \A d \in Clients :
        /\ cond'[d] = cond[d] \/ (Unset(d) /\ cond'[d].recv = "live" /\ cond'[d].send = "live")
        /\ cond[d].recv = "gone" /\ sock[d] = "null" => sock'[d] = "null"
  BY <1>1 DEF shared, Inv, Typed, Adding, AddLabels, Unset
<1>5. \A u \in Threads : /\ Past(u) => Past(u)'
                         /\ \A d \in Clients : Removing(u, d)' => Removing(u, d) /\ pc'[u] = pc[u]
  BY <1>1 DEF Removing, Remover, Past, ctl, DelLabels
<1>6. \A d \in Clients : /\ rthread[d] => rthread'[d] \/ Past(R(d))'
                         /\ sthread[d] => sthread'[d] \/ Past(S(d))'
  BY <1>1 DEF shared, Past, Inv, Typed, Adding, AddLabels
<1>7. QED
  BY <1>2, <1>3, <1>4, <1>5, <1>6, Frame

(* serverAccept, serverAdd and the end of the program *)

LEMMA AcceptEndRem ==
  ASSUME Inv, Inv', Removal, AcceptEnd
  PROVE  Removal'
<1> USE ThreadFacts DEF At, Only, AcceptEnd
<1>0. Typed /\ Adding
  BY DEF Inv
<1>1. /\ pc' \in [Threads -> Labels] /\ pc'[Acceptor] = "end"
      /\ \A u \in Threads : u # Acceptor => pc'[u] = pc[u]
  BY <1>0 DEF Typed, Go, Labels, RecvLabels, SendLabels, DelLabels, AddLabels
<1>2. windows \subseteq windows'
  BY DEF Enter, Signal, Crossing, Early
<1>3. Clean' => misused' \subseteq misused \union {"sent"}
  BY <1>1 DEF Removal, Clean
<1>4. \A d \in Clients :
        /\ cond'[d] = cond[d] \/ (Unset(d) /\ cond'[d].recv = "live" /\ cond'[d].send = "live")
        /\ cond[d].recv = "gone" /\ sock[d] = "null" => sock'[d] = "null"
  BY <1>1 DEF shared, Inv, Typed, Adding, AddLabels, Unset
<1>5. \A u \in Threads : /\ Past(u) => Past(u)'
                         /\ \A d \in Clients : Removing(u, d)' => Removing(u, d) /\ pc'[u] = pc[u]
  BY <1>1 DEF Removing, Remover, Past, ctl, DelLabels
<1>6. \A d \in Clients : /\ rthread[d] => rthread'[d] \/ Past(R(d))'
                         /\ sthread[d] => sthread'[d] \/ Past(S(d))'
  BY <1>1 DEF shared, Past, Inv, Typed, Adding, AddLabels
<1>7. QED
  BY <1>2, <1>3, <1>4, <1>5, <1>6, Frame

LEMMA AcceptedRem ==
  ASSUME Inv, Inv', Removal, NEW c \in Clients, Accepted(c)
  PROVE  Removal'
<1> USE ThreadFacts DEF At, Only, Accepted
<1>0. Typed /\ Adding
  BY DEF Inv
<1>1. /\ pc' \in [Threads -> Labels] /\ pc'[Acceptor] = "link1"
      /\ \A u \in Threads : u # Acceptor => pc'[u] = pc[u]
  BY <1>0 DEF Typed, Go, Labels, RecvLabels, SendLabels, DelLabels, AddLabels
<1>2. windows \subseteq windows'
  BY DEF Enter, Signal, Crossing, Early
<1>3. Clean' => misused' \subseteq misused \union {"sent"}
  BY <1>1 DEF Removal, Clean
<1>4. \A d \in Clients :
        /\ cond'[d] = cond[d] \/ (Unset(d) /\ cond'[d].recv = "live" /\ cond'[d].send = "live")
        /\ cond[d].recv = "gone" /\ sock[d] = "null" => sock'[d] = "null"
  BY <1>1 DEF shared, Inv, Typed, Adding, AddLabels, Unset
<1>5. \A u \in Threads : /\ Past(u) => Past(u)'
                         /\ \A d \in Clients : Removing(u, d)' => Removing(u, d) /\ pc'[u] = pc[u]
  BY <1>1 DEF Removing, Remover, Past, ctl, DelLabels
<1>6. \A d \in Clients : /\ rthread[d] => rthread'[d] \/ Past(R(d))'
                         /\ sthread[d] => sthread'[d] \/ Past(S(d))'
  BY <1>1 DEF shared, Past, Inv, Typed, Adding, AddLabels
<1>7. QED
  BY <1>2, <1>3, <1>4, <1>5, <1>6, Frame

LEMMA LinkLastRem ==
  ASSUME Inv, Inv', Removal, LinkLast
  PROVE  Removal'
<1> USE ThreadFacts DEF At, Only, LinkLast
<1>0. Typed /\ Adding
  BY DEF Inv
<1>1. /\ pc' \in [Threads -> Labels] /\ pc'[Acceptor] = "link2"
      /\ \A u \in Threads : u # Acceptor => pc'[u] = pc[u]
  BY <1>0 DEF Typed, Go, Labels, RecvLabels, SendLabels, DelLabels, AddLabels
<1>p. /\ newcomer \in Clients /\ Unset(newcomer)
      /\ \A d \in Clients : d # newcomer => sock'[d] = sock[d]
  BY <1>0 DEF Adding, AddLabels, Typed
<1>2. windows \subseteq windows'
  BY DEF Enter, Signal, Crossing, Early
<1>3. Clean' => misused' \subseteq misused \union {"sent"}
  BY <1>1, <1>p DEF Removal, Clean
<1>4. \A d \in Clients :
        /\ cond'[d] = cond[d] \/ (Unset(d) /\ cond'[d].recv = "live" /\ cond'[d].send = "live")
        /\ cond[d].recv = "gone" /\ sock[d] = "null" => sock'[d] = "null"
  BY <1>1, <1>p DEF shared, Inv, Typed, Adding, AddLabels, Unset
<1>5. \A u \in Threads : /\ Past(u) => Past(u)'
                         /\ \A d \in Clients : Removing(u, d)' => Removing(u, d) /\ pc'[u] = pc[u]
  BY <1>1, <1>p DEF Removing, Remover, Past, ctl, DelLabels
<1>6. \A d \in Clients : /\ rthread[d] => rthread'[d] \/ Past(R(d))'
                         /\ sthread[d] => sthread'[d] \/ Past(S(d))'
  BY <1>1, <1>p DEF shared, Past, Inv, Typed, Adding, AddLabels
<1>7. QED
  BY <1>2, <1>3, <1>4, <1>5, <1>6, Frame

LEMMA LinkBackRem ==
  ASSUME Inv, Inv', Removal, LinkBack
  PROVE  Removal'
<1> USE ThreadFacts DEF At, Only, LinkBack
<1>0. Typed /\ Adding
  BY DEF Inv
<1>1. /\ pc' \in [Threads -> Labels] /\ pc'[Acceptor] = "fill"
      /\ \A u \in Threads : u # Acceptor => pc'[u] = pc[u]
  BY <1>0 DEF Typed, Go, Labels, RecvLabels, SendLabels, DelLabels, AddLabels
<1>2. windows \subseteq windows'
  BY DEF Enter, Signal, Crossing, Early
<1>3. Clean' => misused' \subseteq misused \union {"sent"}
  BY <1>1 DEF Removal, Clean
<1>4. \A d \in Clients :
        /\ cond'[d] = cond[d] \/ (Unset(d) /\ cond'[d].recv = "live" /\ cond'[d].send = "live")
        /\ cond[d].recv = "gone" /\ sock[d] = "null" => sock'[d] = "null"
  BY <1>1 DEF shared, Inv, Typed, Adding, AddLabels, Unset
<1>5. \A u \in Threads : /\ Past(u) => Past(u)'
                         /\ \A d \in Clients : Removing(u, d)' => Removing(u, d) /\ pc'[u] = pc[u]
  BY <1>1 DEF Removing, Remover, Past, ctl, DelLabels
<1>6. \A d \in Clients : /\ rthread[d] => rthread'[d] \/ Past(R(d))'
                         /\ sthread[d] => sthread'[d] \/ Past(S(d))'
  BY <1>1 DEF shared, Past, Inv, Typed, Adding, AddLabels
<1>7. QED
  BY <1>2, <1>3, <1>4, <1>5, <1>6, Frame

LEMMA FillRem ==
  ASSUME Inv, Inv', Removal, Fill
  PROVE  Removal'
<1> USE ThreadFacts DEF At, Only, Fill
<1>0. Typed /\ Adding
  BY DEF Inv
<1>1. /\ pc' \in [Threads -> Labels] /\ pc'[Acceptor] = "runR"
      /\ \A u \in Threads : u # Acceptor => pc'[u] = pc[u]
  BY <1>0 DEF Typed, Go, Labels, RecvLabels, SendLabels, DelLabels, AddLabels
<1>p. /\ newcomer \in Clients /\ Unset(newcomer)
      /\ cond'[newcomer].recv = "live" /\ cond'[newcomer].send = "live"
      /\ \A d \in Clients : d # newcomer => sock'[d] = sock[d] /\ cond'[d] = cond[d]
  BY DEF Inv, Adding, AddLabels, Typed
<1>2. windows \subseteq windows'
  BY DEF Enter, Signal, Crossing, Early
<1>3. Clean' => misused' \subseteq misused \union {"sent"}
  BY <1>1, <1>p DEF Removal, Clean
<1>4. \A d \in Clients :
        /\ cond'[d] = cond[d] \/ (Unset(d) /\ cond'[d].recv = "live" /\ cond'[d].send = "live")
        /\ cond[d].recv = "gone" /\ sock[d] = "null" => sock'[d] = "null"
  BY <1>1, <1>p DEF shared, Inv, Typed, Adding, AddLabels, Unset
<1>5. \A u \in Threads : /\ Past(u) => Past(u)'
                         /\ \A d \in Clients : Removing(u, d)' => Removing(u, d) /\ pc'[u] = pc[u]
  BY <1>1, <1>p DEF Removing, Remover, Past, ctl, DelLabels
<1>6. \A d \in Clients : /\ rthread[d] => rthread'[d] \/ Past(R(d))'
                         /\ sthread[d] => sthread'[d] \/ Past(S(d))'
  BY <1>1, <1>p DEF shared, Past, Inv, Typed, Adding, AddLabels
<1>7. QED
  BY <1>2, <1>3, <1>4, <1>5, <1>6, Frame

LEMMA StartRecvRem ==
  ASSUME Inv, Inv', Removal, Start(R(newcomer), "runR", "setR")
  PROVE  Removal'
<1> USE ThreadFacts DEF At, Only, Start
<1>0. Typed /\ Adding
  BY DEF Inv
<1>1. /\ newcomer \in Clients /\ pc[R(newcomer)] = "off"
      /\ pc' \in [Threads -> Labels] /\ pc'[Acceptor] = "setR" /\ pc'[R(newcomer)] = "test"
      /\ \A u \in Threads : u # Acceptor /\ u # R(newcomer) => pc'[u] = pc[u]
  <2>1. newcomer \in Clients /\ pc[R(newcomer)] = "off" /\ ~Unset(newcomer)
    BY <1>0 DEF Adding, AddLabels
  <2>2. pc \in [Threads -> Labels] /\ "test" \in Labels /\ "setR" \in Labels
    BY <1>0 DEF Typed, Labels, RecvLabels, AddLabels
  <2>3. pc' = [pc EXCEPT ![Acceptor] = "setR", ![R(newcomer)] = "test"]
    OBVIOUS
  <2>4. R(newcomer) \in Threads /\ R(newcomer) # Acceptor
    BY <2>1
  <2>5. QED
    BY <2>1, <2>2, <2>3, <2>4
<1>2. windows \subseteq windows'
  BY DEF Enter, Signal, Crossing, Early
<1>3. Clean' => misused' \subseteq misused \union {"sent"}
  BY <1>1 DEF Removal, Clean
<1>4. \A d \in Clients :
        /\ cond'[d] = cond[d] \/ (Unset(d) /\ cond'[d].recv = "live" /\ cond'[d].send = "live")
        /\ cond[d].recv = "gone" /\ sock[d] = "null" => sock'[d] = "null"
  BY <1>1 DEF shared, Inv, Typed, Adding, AddLabels, Unset
<1>5. \A u \in Threads : /\ Past(u) => Past(u)'
                         /\ \A d \in Clients : Removing(u, d)' => Removing(u, d) /\ pc'[u] = pc[u]
  BY <1>1 DEF Removing, Remover, Past, ctl, DelLabels
<1>6. \A d \in Clients : /\ rthread[d] => rthread'[d] \/ Past(R(d))'
                         /\ sthread[d] => sthread'[d] \/ Past(S(d))'
  BY <1>1 DEF shared, Past, Inv, Typed, Adding, AddLabels
<1>7. QED
  BY <1>2, <1>3, <1>4, <1>5, <1>6, Frame

LEMMA StoreRecvRem ==
  ASSUME Inv, Inv', Removal, StoreRecv
  PROVE  Removal'
<1> USE ThreadFacts DEF At, Only, StoreRecv
<1>0. Typed /\ Adding
  BY DEF Inv
<1>1. /\ pc' \in [Threads -> Labels] /\ pc'[Acceptor] = "runS"
      /\ \A u \in Threads : u # Acceptor => pc'[u] = pc[u]
  BY <1>0 DEF Typed, Go, Labels, RecvLabels, SendLabels, DelLabels, AddLabels
<1>2. windows \subseteq windows'
  BY DEF Enter, Signal, Crossing, Early
<1>3. Clean' => misused' \subseteq misused \union {"sent"}
  BY <1>1 DEF Removal, Clean
<1>4. \A d \in Clients :
        /\ cond'[d] = cond[d] \/ (Unset(d) /\ cond'[d].recv = "live" /\ cond'[d].send = "live")
        /\ cond[d].recv = "gone" /\ sock[d] = "null" => sock'[d] = "null"
  BY <1>1 DEF shared, Inv, Typed, Adding, AddLabels, Unset
<1>5. \A u \in Threads : /\ Past(u) => Past(u)'
                         /\ \A d \in Clients : Removing(u, d)' => Removing(u, d) /\ pc'[u] = pc[u]
  BY <1>1 DEF Removing, Remover, Past, ctl, DelLabels
<1>6. \A d \in Clients : /\ rthread[d] => rthread'[d] \/ Past(R(d))'
                         /\ sthread[d] => sthread'[d] \/ Past(S(d))'
  BY <1>1 DEF shared, Past, Inv, Typed, Adding, AddLabels
<1>7. QED
  BY <1>2, <1>3, <1>4, <1>5, <1>6, Frame

LEMMA StartSendRem ==
  ASSUME Inv, Inv', Removal, Start(S(newcomer), "runS", "setS")
  PROVE  Removal'
<1> USE ThreadFacts DEF At, Only, Start
<1>0. Typed /\ Adding
  BY DEF Inv
<1>1. /\ newcomer \in Clients /\ pc[S(newcomer)] = "off"
      /\ pc' \in [Threads -> Labels] /\ pc'[Acceptor] = "setS" /\ pc'[S(newcomer)] = "test"
      /\ \A u \in Threads : u # Acceptor /\ u # S(newcomer) => pc'[u] = pc[u]
  <2>1. newcomer \in Clients /\ pc[S(newcomer)] = "off" /\ ~Unset(newcomer)
    BY <1>0 DEF Adding, AddLabels
  <2>2. pc \in [Threads -> Labels] /\ "test" \in Labels /\ "setS" \in Labels
    BY <1>0 DEF Typed, Labels, RecvLabels, AddLabels
  <2>3. pc' = [pc EXCEPT ![Acceptor] = "setS", ![S(newcomer)] = "test"]
    OBVIOUS
  <2>4. S(newcomer) \in Threads /\ S(newcomer) # Acceptor
    BY <2>1
  <2>5. QED
    BY <2>1, <2>2, <2>3, <2>4
<1>2. windows \subseteq windows'
  BY DEF Enter, Signal, Crossing, Early
<1>3. Clean' => misused' \subseteq misused \union {"sent"}
  BY <1>1 DEF Removal, Clean
<1>4. \A d \in Clients :
        /\ cond'[d] = cond[d] \/ (Unset(d) /\ cond'[d].recv = "live" /\ cond'[d].send = "live")
        /\ cond[d].recv = "gone" /\ sock[d] = "null" => sock'[d] = "null"
  BY <1>1 DEF shared, Inv, Typed, Adding, AddLabels, Unset
<1>5. \A u \in Threads : /\ Past(u) => Past(u)'
                         /\ \A d \in Clients : Removing(u, d)' => Removing(u, d) /\ pc'[u] = pc[u]
  BY <1>1 DEF Removing, Remover, Past, ctl, DelLabels
<1>6. \A d \in Clients : /\ rthread[d] => rthread'[d] \/ Past(R(d))'
                         /\ sthread[d] => sthread'[d] \/ Past(S(d))'
  BY <1>1 DEF shared, Past, Inv, Typed, Adding, AddLabels
<1>7. QED
  BY <1>2, <1>3, <1>4, <1>5, <1>6, Frame

LEMMA StoreSendRem ==
  ASSUME Inv, Inv', Removal, StoreSend
  PROVE  Removal'
<1> USE ThreadFacts DEF At, Only, StoreSend
<1>0. Typed /\ Adding
  BY DEF Inv
<1>1. /\ pc' \in [Threads -> Labels] /\ pc'[Acceptor] = "accept"
      /\ \A u \in Threads : u # Acceptor => pc'[u] = pc[u]
  BY <1>0 DEF Typed, Go, Labels, RecvLabels, SendLabels, DelLabels, AddLabels
<1>2. windows \subseteq windows'
  BY DEF Enter, Signal, Crossing, Early
<1>3. Clean' => misused' \subseteq misused \union {"sent"}
  BY <1>1 DEF Removal, Clean
<1>4. \A d \in Clients :
        /\ cond'[d] = cond[d] \/ (Unset(d) /\ cond'[d].recv = "live" /\ cond'[d].send = "live")
        /\ cond[d].recv = "gone" /\ sock[d] = "null" => sock'[d] = "null"
  BY <1>1 DEF shared, Inv, Typed, Adding, AddLabels, Unset
<1>5. \A u \in Threads : /\ Past(u) => Past(u)'
                         /\ \A d \in Clients : Removing(u, d)' => Removing(u, d) /\ pc'[u] = pc[u]
  BY <1>1 DEF Removing, Remover, Past, ctl, DelLabels
<1>6. \A d \in Clients : /\ rthread[d] => rthread'[d] \/ Past(R(d))'
                         /\ sthread[d] => sthread'[d] \/ Past(S(d))'
  BY <1>1 DEF shared, Past, Inv, Typed, Adding, AddLabels
<1>7. QED
  BY <1>2, <1>3, <1>4, <1>5, <1>6, Frame

LEMMA StopRunningRem ==
  ASSUME Inv, Inv', Removal, StopRunning
  PROVE  Removal'
<1> USE ThreadFacts DEF At, Only, StopRunning
<1>0. Typed /\ Adding
  BY DEF Inv
<1>1. /\ pc' \in [Threads -> Labels] /\ pc'[Main] = "pick"
      /\ \A u \in Threads : u # Main => pc'[u] = pc[u]
  BY <1>0 DEF Typed, Go, Labels, RecvLabels, SendLabels, DelLabels, AddLabels
<1>2. windows \subseteq windows'
  BY DEF Enter, Signal, Crossing, Early
<1>3. Clean' => misused' \subseteq misused \union {"sent"}
  BY <1>1 DEF Removal, Clean
<1>4. \A d \in Clients :
        /\ cond'[d] = cond[d] \/ (Unset(d) /\ cond'[d].recv = "live" /\ cond'[d].send = "live")
        /\ cond[d].recv = "gone" /\ sock[d] = "null" => sock'[d] = "null"
  BY <1>1 DEF shared, Inv, Typed, Adding, AddLabels, Unset
<1>5. \A u \in Threads : /\ Past(u) => Past(u)'
                         /\ \A d \in Clients : Removing(u, d)' => Removing(u, d) /\ pc'[u] = pc[u]
  BY <1>1 DEF Removing, Remover, Past, ctl, DelLabels
<1>6. \A d \in Clients : /\ rthread[d] => rthread'[d] \/ Past(R(d))'
                         /\ sthread[d] => sthread'[d] \/ Past(S(d))'
  BY <1>1 DEF shared, Past, Inv, Typed, Adding, AddLabels
<1>7. QED
  BY <1>2, <1>3, <1>4, <1>5, <1>6, Frame

LEMMA PickJunkRem ==
  ASSUME Inv, Inv', Removal, PickJunk
  PROVE  Removal'
<1> USE ThreadFacts DEF At, Only, PickJunk
<1>0. Typed /\ Adding
  BY DEF Inv
<1>1. /\ pc' \in [Threads -> Labels] /\ pc'[Main] = "end"
      /\ \A u \in Threads : u # Main => pc'[u] = pc[u]
  BY <1>0 DEF Typed, Go, Labels, RecvLabels, SendLabels, DelLabels, AddLabels
<1>2. windows \subseteq windows'
  BY DEF Enter, Signal, Crossing, Early
<1>3. Clean' => misused' \subseteq misused \union {"sent"}
  BY <1>1 DEF Removal, Clean
<1>4. \A d \in Clients :
        /\ cond'[d] = cond[d] \/ (Unset(d) /\ cond'[d].recv = "live" /\ cond'[d].send = "live")
        /\ cond[d].recv = "gone" /\ sock[d] = "null" => sock'[d] = "null"
  BY <1>1 DEF shared, Inv, Typed, Adding, AddLabels, Unset
<1>5. \A u \in Threads : /\ Past(u) => Past(u)'
                         /\ \A d \in Clients : Removing(u, d)' => Removing(u, d) /\ pc'[u] = pc[u]
  BY <1>1 DEF Removing, Remover, Past, ctl, DelLabels
<1>6. \A d \in Clients : /\ rthread[d] => rthread'[d] \/ Past(R(d))'
                         /\ sthread[d] => sthread'[d] \/ Past(S(d))'
  BY <1>1 DEF shared, Past, Inv, Typed, Adding, AddLabels
<1>7. QED
  BY <1>2, <1>3, <1>4, <1>5, <1>6, Frame

LEMMA FinishRem ==
  ASSUME Inv, Inv', Removal, Finish
  PROVE  Removal'
<1> USE ThreadFacts DEF At, Only, Finish
<1>0. Typed /\ Adding
  BY DEF Inv
<1>1. /\ pc' \in [Threads -> Labels] /\ pc'[Main] = "end"
      /\ \A u \in Threads : u # Main => pc'[u] = pc[u]
  BY <1>0 DEF Typed, Go, Labels, RecvLabels, SendLabels, DelLabels, AddLabels
<1>2. windows \subseteq windows'
  BY DEF Enter, Signal, Crossing, Early
<1>3. Clean' => misused' \subseteq misused \union {"sent"}
  BY <1>1 DEF Removal, Clean
<1>4. \A d \in Clients :
        /\ cond'[d] = cond[d] \/ (Unset(d) /\ cond'[d].recv = "live" /\ cond'[d].send = "live")
        /\ cond[d].recv = "gone" /\ sock[d] = "null" => sock'[d] = "null"
  BY <1>1 DEF shared, Inv, Typed, Adding, AddLabels, Unset
<1>5. \A u \in Threads : /\ Past(u) => Past(u)'
                         /\ \A d \in Clients : Removing(u, d)' => Removing(u, d) /\ pc'[u] = pc[u]
  BY <1>1 DEF Removing, Remover, Past, ctl, DelLabels
<1>6. \A d \in Clients : /\ rthread[d] => rthread'[d] \/ Past(R(d))'
                         /\ sthread[d] => sthread'[d] \/ Past(S(d))'
  BY <1>1 DEF shared, Past, Inv, Typed, Adding, AddLabels
<1>7. QED
  BY <1>2, <1>3, <1>4, <1>5, <1>6, Frame

(* serverDel *)

\* Thread t begins to remove client c.
LEMMA Begins ==
  ASSUME Inv, Removal, Clean', windows \subseteq windows', UNCHANGED misused, UNCHANGED shared,
         NEW c \in Clients, NEW t \in Threads, sock[c] # "null", ~Unset(c),
         pc'[t] = "swap", \A u \in Threads : u # t => pc'[u] = pc[u],
         pc[t] \in {"del", "pick"}, \A d \in Clients : Remover(t, d)' => d = c,
         \A d \in Clients : \A u \in Threads : u # t => (Remover(u, d)' => Remover(u, d)),
         \A u \in Threads : u # t /\ Remover(u, c) => pc[u] # "swap"
  PROVE  Removal'
<1>1. misused \subseteq {"sent"} /\ \A d \in Clients : InOrder(d)
  BY DEF Removal, Clean
<1>2. Typed
  BY DEF Inv
<1>3. \A u \in Threads : Past(u) /\ u # Main => Past(u)'
  BY <1>2, ThreadFacts DEF Past, DelLabels
<1>4. ASSUME NEW d \in Clients, NEW u \in Threads, Removing(u, d)'
      PROVE  (u = t /\ d = c) \/ (u # t /\ Removing(u, d) /\ pc'[u] = pc[u])
  BY <1>4 DEF Removing
<1>5. ASSUME NEW u \in Threads, u # t  PROVE ~Removing(u, c)
  BY <1>5, ThreadFacts DEF Inv, Opened, Removing, Remover, MainRemoves
<1>6. cond[c].recv = "live" /\ cond[c].send = "live"
  BY <1>1, <1>2 DEF Inv, Opened, Unset, InOrder, Typed
<1>7. InOrder(c)'
  BY <1>3, <1>4, <1>5, <1>6, <1>1, ThreadFacts DEF InOrder, shared
<1>8. ASSUME NEW d \in Clients, d # c  PROVE InOrder(d)'
  BY <1>1, <1>3, <1>4, <1>8, ThreadFacts DEF InOrder, shared
<1>9. QED
  BY <1>1, <1>7, <1>8 DEF Removal

LEMMA DelTestRem ==
  ASSUME Inv, Removal, NEW c \in Clients, NEW t, Remover(t, c), DelTest(c, t)
  PROVE  Removal'
<1> USE ThreadFacts DEF At, DelTest
<1>1. Typed /\ (t = R(c) \/ t = S(c)) /\ t \in Threads /\ t # Main
  BY DEF Inv, InPlace, Remover, DelLabels
<1>2. CASE sock[c] = "null"
  <2>1. Go(t, "end") /\ UNCHANGED <<ctl, shared, windows, misused>>
    BY <1>2
  <2>2. /\ pc'[t] = "end"
        /\ \A u \in Threads : u # t => pc'[u] = pc[u]
    BY <1>1, <2>1 DEF Typed, Go
  <2>3. \A u \in Threads : /\ Past(u) => Past(u)'
                           /\ \A d \in Clients : Removing(u, d)' => Removing(u, d) /\ pc'[u] = pc[u]
    BY <2>1, <2>2 DEF Removing, Remover, Past, ctl, DelLabels
  <2>4. QED
    BY <2>1, <2>3, Frame DEF shared
<1>3. CASE sock[c] # "null"
  <2> SUFFICES ASSUME Clean'  PROVE Removal'
    BY DEF Removal
  <2>1. Go(t, "swap") /\ UNCHANGED <<ctl, shared, misused>>
    BY <1>3
  <2>2. /\ pc'[t] = "swap"
        /\ \A u \in Threads : u # t => pc'[u] = pc[u]
    BY <1>1, <2>1 DEF Typed, Go, Labels, DelLabels
  <2>3. ASSUME NEW u \in Threads, u # t, Remover(u, c)  PROVE pc[u] # "swap"
    BY <1>3, <2>3 DEF Enter, Remover, Clean
  <2>4. windows \subseteq windows'
    BY <1>3 DEF Enter
  <2>5. \A d \in Clients : (Remover(t, d)' => d = c) /\ \A u : Remover(u, d)' => Remover(u, d)
    BY <1>1, <2>1 DEF Remover, ctl
  <2>6. ~Unset(c)
    BY <1>1 DEF Inv, Opened
  <2>7. QED
    BY <1>1, <1>3, <2>1, <2>2, <2>3, <2>4, <2>5, <2>6, Begins
<1>4. QED
  BY <1>2, <1>3

LEMMA PickFirstRem ==
  ASSUME Inv, Removal, PickFirst
  PROVE  Removal'
<1> SUFFICES ASSUME Clean'  PROVE Removal'
  BY DEF Removal
<1> USE ThreadFacts DEF PickFirst
<1>1. Typed
  BY DEF Inv
<1>2. head \in Clients /\ sock[head] # "null"
  BY <1>1 DEF Typed
<1>3. ~Unset(head)
  BY <1>2 DEF Inv, Opened
<1>4. pc'[Main] = "swap" /\ \A u \in Threads : u # Main => pc'[u] = pc[u]
  BY <1>1 DEF Typed, Go, Labels, DelLabels
<1>5. ASSUME NEW u \in Threads, u # Main, Remover(u, head)  PROVE pc[u] # "swap"
  BY <1>5 DEF Enter, Remover, Clean
<1>6. \A d \in Clients : /\ Remover(Main, d)' => d = head
                         /\ \A u \in Threads : u # Main => (Remover(u, d)' => Remover(u, d))
  BY DEF Remover
<1>7. windows \subseteq windows'
  BY DEF Enter
<1>8. QED
  BY <1>2, <1>3, <1>4, <1>5, <1>6, <1>7, Begins

LEMMA DelSwapRem ==
  ASSUME Inv, Inv', Removal, NEW c \in Clients, NEW t, Remover(t, c), DelSwap(c, t)
  PROVE  Removal'
<1> USE ThreadFacts DEF At, Only, DelSwap
<1> SUFFICES ASSUME Clean'  PROVE misused' \subseteq {"sent"} /\ \A d \in Clients : InOrder(d)'
  BY DEF Removal
<1>0. Typed /\ t \in Threads /\ t # Acceptor /\ pc[t] # "waiting"
  BY DEF Inv, Remover
<1>1. /\ pc' \in [Threads -> Labels] /\ pc'[t] = "r1"
      /\ \A u \in Threads : u # t => pc'[u] = pc[u]
  BY <1>0 DEF Typed, Go, Labels, RecvLabels, SendLabels, DelLabels, AddLabels
<1>2. misused \subseteq {"sent"} /\ \A d \in Clients : InOrder(d)
  BY DEF Removal, Clean, Enter, Signal, Crossing, Early
<1>3. Removing(t, c)
  BY DEF Removing, DelLabels
<1>4. misused' \subseteq {"sent"}
  BY <1>2, <1>3 DEF Use, Signal
<1>5. \A u \in Threads : /\ u # Main /\ Past(u) => Past(u)'
                         /\ \A d \in Clients : Removing(u, d)' => Removing(u, d) /\ (u # t => pc'[u] = pc[u])
  BY <1>0, <1>1 DEF Removing, Remover, Past, ctl, DelLabels
<1>6. InOrder(c)'
  BY <1>0, <1>1, <1>2, <1>3, <1>5 DEF InOrder, shared, Inv, Opened, Unset, MainRemoves
<1>7. ASSUME NEW d \in Clients, d # c  PROVE InOrder(d)'
  <2>1. ~Removing(t, d) /\ ~Removing(t, d)'
    BY <1>0, <1>3, <1>5, <1>7 DEF Removing, Remover
  <2>2. UNCHANGED <<sock[d], cond[d], rthread[d], sthread[d]>>
    BY <1>0, <1>7 DEF Typed, shared
  <2>3. QED
    BY <1>2, <1>5, <1>7, <2>1, <2>2 DEF InOrder
<1>8. QED
  BY <1>4, <1>6, <1>7

LEMMA DelWakeRecvRem ==
  ASSUME Inv, Inv', Removal, NEW c \in Clients, NEW t, Remover(t, c), DelWakeRecv(c, t)
  PROVE  Removal'
<1> USE ThreadFacts DEF At, Only, DelWakeRecv
<1> SUFFICES ASSUME Clean'  PROVE misused' \subseteq {"sent"} /\ \A d \in Clients : InOrder(d)'
  BY DEF Removal
<1>0. Typed /\ t \in Threads /\ t # Acceptor /\ pc[t] # "waiting"
  BY DEF Inv, Remover
<1>1. /\ pc' \in [Threads -> Labels] /\ pc'[t] = "r2"
      /\ \A v \in Threads :
           v # t => pc'[v] = IF v = R(c) /\ pc[v] = "waiting" THEN "test" ELSE pc[v]
  BY <1>0, SignalFacts DEF Typed, Labels, RecvLabels, SendLabels, DelLabels, AddLabels
<1>2. misused \subseteq {"sent"} /\ \A d \in Clients : InOrder(d)
  BY DEF Removal, Clean, Enter, Signal, Crossing, Early
<1>3. Removing(t, c)
  BY DEF Removing, DelLabels
<1>p. cond[c].recv = "live"
  BY <1>0, <1>2, <1>3 DEF InOrder
<1>4. misused' \subseteq {"sent"}
  BY <1>2, <1>3, <1>p DEF Use, Signal
<1>5. \A u \in Threads : /\ u # Main /\ Past(u) => Past(u)'
                         /\ \A d \in Clients : Removing(u, d)' => Removing(u, d) /\ (u # t => pc'[u] = pc[u])
  BY <1>0, <1>1 DEF Removing, Remover, Past, ctl, DelLabels
<1>6. InOrder(c)'
  BY <1>0, <1>1, <1>2, <1>3, <1>5, <1>p DEF InOrder, shared, Inv, Opened, Unset, MainRemoves
<1>7. ASSUME NEW d \in Clients, d # c  PROVE InOrder(d)'
  <2>1. ~Removing(t, d) /\ ~Removing(t, d)'
    BY <1>0, <1>3, <1>5, <1>7 DEF Removing, Remover
  <2>2. UNCHANGED <<sock[d], cond[d], rthread[d], sthread[d]>>
    BY <1>0, <1>7 DEF Typed, shared
  <2>3. QED
    BY <1>2, <1>5, <1>7, <2>1, <2>2 DEF InOrder
<1>8. QED
  BY <1>4, <1>6, <1>7

LEMMA DelNoRecvRem ==
  ASSUME Inv, Inv', Removal, NEW c \in Clients, NEW t, Remover(t, c), DelNoRecv(c, t)
  PROVE  Removal'
<1> USE ThreadFacts DEF At, Only, DelNoRecv
<1> SUFFICES ASSUME Clean'  PROVE misused' \subseteq {"sent"} /\ \A d \in Clients : InOrder(d)'
  BY DEF Removal
<1>0. Typed /\ t \in Threads /\ t # Acceptor /\ pc[t] # "waiting"
  BY DEF Inv, Remover
<1>f. windows \subseteq windows' /\ UNCHANGED <<ctl, shared, misused>>
  BY DEF Skip, Early, Enter
<1>1. /\ pc' \in [Threads -> Labels] /\ pc'[t] \in {"rjoin", "rdes"}
      /\ \A u \in Threads : u # t => pc'[u] = pc[u]
  <2>1. PICK l \in {"rjoin", "rdes"} : Go(t, l)
    BY <1>0 DEF Typed, Skip
  <2>2. QED
    BY <1>0, <2>1 DEF Typed, Go, Labels, DelLabels
<1>2. misused \subseteq {"sent"} /\ \A d \in Clients : InOrder(d)
  BY <1>f DEF Removal, Clean, Enter, Signal, Crossing, Early
<1>3. Removing(t, c)
  BY DEF Removing, DelLabels
<1>p. /\ pc'[t] = "rdes" => Past(R(c))
      /\ pc[t] \in {"r1", "r2", "rjoin"} /\ UNCHANGED <<ctl, shared, misused>>
  <2>1. CASE pc[t] = "r1"
    BY <2>1 DEF Skip, Early, Enter, Clean
  <2>2. CASE pc[t] = "r2"
    <3>1. rthread[c] => Go(t, "rjoin")
      BY <2>2
    <3>2. rthread[c] \/ Past(R(c))
      BY <1>0, <1>2, <1>3, <2>2 DEF InOrder
    <3>3. QED
      BY <1>0, <2>2, <3>1, <3>2 DEF Typed, Go
  <2>3. CASE pc[t] = "rjoin"
    BY <2>3 DEF Past
  <2>4. QED
    BY <2>1, <2>2, <2>3
<1>4. misused' \subseteq {"sent"}
  BY <1>2, <1>3, <1>p DEF Use, Signal
<1>5. \A u \in Threads : /\ u # Main /\ Past(u) => Past(u)'
                         /\ \A d \in Clients : Removing(u, d)' => Removing(u, d) /\ (u # t => pc'[u] = pc[u])
  BY <1>0, <1>1, <1>f DEF Removing, Remover, Past, ctl, DelLabels
<1>6. InOrder(c)'
  BY <1>0, <1>1, <1>2, <1>3, <1>5, <1>p DEF InOrder, shared, Inv, Opened, Unset, MainRemoves
<1>7. ASSUME NEW d \in Clients, d # c  PROVE InOrder(d)'
  <2>1. ~Removing(t, d) /\ ~Removing(t, d)'
    BY <1>0, <1>3, <1>5, <1>7 DEF Removing, Remover
  <2>2. UNCHANGED <<sock[d], cond[d], rthread[d], sthread[d]>>
    BY <1>0, <1>7, <1>f DEF Typed, shared
  <2>3. QED
    BY <1>2, <1>5, <1>7, <2>1, <2>2 DEF InOrder
<1>8. QED
  BY <1>4, <1>6, <1>7

LEMMA DestroyRecvRem ==
  ASSUME Inv, Inv', Removal, NEW c \in Clients, NEW t, Remover(t, c), Destroy(c, t, "recv", "rdes", "s1")
  PROVE  Removal'
<1> USE ThreadFacts DEF At, Only, Destroy
<1> SUFFICES ASSUME Clean'  PROVE misused' \subseteq {"sent"} /\ \A d \in Clients : InOrder(d)'
  BY DEF Removal
<1>0. Typed /\ t \in Threads /\ t # Acceptor /\ pc[t] # "waiting"
  BY DEF Inv, Remover
<1>1. /\ pc' \in [Threads -> Labels] /\ pc'[t] = "s1"
      /\ \A u \in Threads : u # t => pc'[u] = pc[u]
  BY <1>0 DEF Typed, Go, Labels, RecvLabels, SendLabels, DelLabels, AddLabels
<1>2. misused \subseteq {"sent"} /\ \A d \in Clients : InOrder(d)
  BY DEF Removal, Clean, Enter, Signal, Crossing, Early
<1>3. Removing(t, c)
  BY DEF Removing, DelLabels
<1>p. /\ cond[c].recv = "live"
      /\ Past(R(c)) /\ sock[c] = "null"
      /\ cond'[c].recv = "gone" /\ cond'[c].send = cond[c].send
  <2>1. cond[c] \in [recv : {"none", "live", "gone"}, send : {"none", "live", "gone"}]
    BY <1>0 DEF Typed
  <2>2. cond'[c] = [cond[c] EXCEPT !["recv"] = "gone"]
    BY <1>0 DEF Typed
  <2>3. sock[c] = "null"
    BY DEF Inv, Opened, Remover, MainRemoves, DelLabels
  <2>4. QED
    BY <1>0, <1>2, <1>3, <2>1, <2>2, <2>3 DEF InOrder
<1>4. misused' \subseteq {"sent"}
  BY <1>2, <1>3, <1>p DEF Use, Signal
<1>5. \A u \in Threads : /\ u # Main /\ Past(u) => Past(u)'
                         /\ \A d \in Clients : Removing(u, d)' => Removing(u, d) /\ (u # t => pc'[u] = pc[u])
  BY <1>0, <1>1 DEF Removing, Remover, Past, ctl, DelLabels
<1>6. InOrder(c)'
  BY <1>0, <1>1, <1>2, <1>3, <1>5, <1>p DEF InOrder, shared, Inv, Opened, Unset, MainRemoves
<1>7. ASSUME NEW d \in Clients, d # c  PROVE InOrder(d)'
  <2>1. ~Removing(t, d) /\ ~Removing(t, d)'
    BY <1>0, <1>3, <1>5, <1>7 DEF Removing, Remover
  <2>2. UNCHANGED <<sock[d], cond[d], rthread[d], sthread[d]>>
    BY <1>0, <1>7 DEF Typed, shared
  <2>3. QED
    BY <1>2, <1>5, <1>7, <2>1, <2>2 DEF InOrder
<1>8. QED
  BY <1>4, <1>6, <1>7

LEMMA DelWakeSendRem ==
  ASSUME Inv, Inv', Removal, NEW c \in Clients, NEW t, Remover(t, c), DelWakeSend(c, t)
  PROVE  Removal'
<1> USE ThreadFacts DEF At, Only, DelWakeSend
<1> SUFFICES ASSUME Clean'  PROVE misused' \subseteq {"sent"} /\ \A d \in Clients : InOrder(d)'
  BY DEF Removal
<1>0. Typed /\ t \in Threads /\ t # Acceptor /\ pc[t] # "waiting"
  BY DEF Inv, Remover
<1>1. /\ pc' \in [Threads -> Labels] /\ pc'[t] = "s2"
      /\ \A v \in Threads :
           v # t => pc'[v] = IF v = S(c) /\ pc[v] = "waiting" THEN "test" ELSE pc[v]
  BY <1>0, SignalFacts DEF Typed, Labels, RecvLabels, SendLabels, DelLabels, AddLabels
<1>2. misused \subseteq {"sent"} /\ \A d \in Clients : InOrder(d)
  BY DEF Removal, Clean, Enter, Signal, Crossing, Early
<1>3. Removing(t, c)
  BY DEF Removing, DelLabels
<1>p. cond[c].send = "live"
  BY <1>0, <1>2, <1>3 DEF InOrder
<1>4. misused' \subseteq {"sent"}
  BY <1>2, <1>3, <1>p DEF Use, Signal
<1>5. \A u \in Threads : /\ u # Main /\ Past(u) => Past(u)'
                         /\ \A d \in Clients : Removing(u, d)' => Removing(u, d) /\ (u # t => pc'[u] = pc[u])
  BY <1>0, <1>1 DEF Removing, Remover, Past, ctl, DelLabels
<1>6. InOrder(c)'
  BY <1>0, <1>1, <1>2, <1>3, <1>5, <1>p DEF InOrder, shared, Inv, Opened, Unset, MainRemoves
<1>7. ASSUME NEW d \in Clients, d # c  PROVE InOrder(d)'
  <2>1. ~Removing(t, d) /\ ~Removing(t, d)'
    BY <1>0, <1>3, <1>5, <1>7 DEF Removing, Remover
  <2>2. UNCHANGED <<sock[d], cond[d], rthread[d], sthread[d]>>
    BY <1>0, <1>7 DEF Typed, shared
  <2>3. QED
    BY <1>2, <1>5, <1>7, <2>1, <2>2 DEF InOrder
<1>8. QED
  BY <1>4, <1>6, <1>7

LEMMA DelNoSendRem ==
  ASSUME Inv, Inv', Removal, NEW c \in Clients, NEW t, Remover(t, c), DelNoSend(c, t)
  PROVE  Removal'
<1> USE ThreadFacts DEF At, Only, DelNoSend
<1> SUFFICES ASSUME Clean'  PROVE misused' \subseteq {"sent"} /\ \A d \in Clients : InOrder(d)'
  BY DEF Removal
<1>0. Typed /\ t \in Threads /\ t # Acceptor /\ pc[t] # "waiting"
  BY DEF Inv, Remover
<1>f. windows \subseteq windows' /\ UNCHANGED <<ctl, shared, misused>>
  BY DEF Skip, Early, Enter
<1>1. /\ pc' \in [Threads -> Labels] /\ pc'[t] \in {"sjoin", "sdes"}
      /\ \A u \in Threads : u # t => pc'[u] = pc[u]
  <2>1. PICK l \in {"sjoin", "sdes"} : Go(t, l)
    BY <1>0 DEF Typed, Skip
  <2>2. QED
    BY <1>0, <2>1 DEF Typed, Go, Labels, DelLabels
<1>2. misused \subseteq {"sent"} /\ \A d \in Clients : InOrder(d)
  BY <1>f DEF Removal, Clean, Enter, Signal, Crossing, Early
<1>3. Removing(t, c)
  BY DEF Removing, DelLabels
<1>p. /\ pc'[t] = "sdes" => Past(S(c))
      /\ pc[t] \in {"s1", "s2", "sjoin"} /\ UNCHANGED <<ctl, shared, misused>>
  <2>1. CASE pc[t] = "s1"
    BY <2>1 DEF Skip, Early, Enter, Clean
  <2>2. CASE pc[t] = "s2"
    <3>1. sthread[c] => Go(t, "sjoin")
      BY <2>2
    <3>2. sthread[c] \/ Past(S(c))
      BY <1>0, <1>2, <1>3, <2>2 DEF InOrder
    <3>3. QED
      BY <1>0, <2>2, <3>1, <3>2 DEF Typed, Go
  <2>3. CASE pc[t] = "sjoin"
    BY <2>3 DEF Past
  <2>4. QED
    BY <2>1, <2>2, <2>3
<1>4. misused' \subseteq {"sent"}
  BY <1>2, <1>3, <1>p DEF Use, Signal
<1>5. \A u \in Threads : /\ u # Main /\ Past(u) => Past(u)'
                         /\ \A d \in Clients : Removing(u, d)' => Removing(u, d) /\ (u # t => pc'[u] = pc[u])
  BY <1>0, <1>1, <1>f DEF Removing, Remover, Past, ctl, DelLabels
<1>6. InOrder(c)'
  BY <1>0, <1>1, <1>2, <1>3, <1>5, <1>p DEF InOrder, shared, Inv, Opened, Unset, MainRemoves
<1>7. ASSUME NEW d \in Clients, d # c  PROVE InOrder(d)'
  <2>1. ~Removing(t, d) /\ ~Removing(t, d)'
    BY <1>0, <1>3, <1>5, <1>7 DEF Removing, Remover
  <2>2. UNCHANGED <<sock[d], cond[d], rthread[d], sthread[d]>>
    BY <1>0, <1>7, <1>f DEF Typed, shared
  <2>3. QED
    BY <1>2, <1>5, <1>7, <2>1, <2>2 DEF InOrder
<1>8. QED
  BY <1>4, <1>6, <1>7

LEMMA DestroySendRem ==
  ASSUME Inv, Inv', Removal, NEW c \in Clients, NEW t, Remover(t, c), Destroy(c, t, "send", "sdes", "unlink1")
  PROVE  Removal'
<1> USE ThreadFacts DEF At, Only, Destroy
<1> SUFFICES ASSUME Clean'  PROVE misused' \subseteq {"sent"} /\ \A d \in Clients : InOrder(d)'
  BY DEF Removal
<1>0. Typed /\ t \in Threads /\ t # Acceptor /\ pc[t] # "waiting"
  BY DEF Inv, Remover
<1>1. /\ pc' \in [Threads -> Labels] /\ pc'[t] = "unlink1"
      /\ \A u \in Threads : u # t => pc'[u] = pc[u]
  BY <1>0 DEF Typed, Go, Labels, RecvLabels, SendLabels, DelLabels, AddLabels
<1>2. misused \subseteq {"sent"} /\ \A d \in Clients : InOrder(d)
  BY DEF Removal, Clean, Enter, Signal, Crossing, Early
<1>3. Removing(t, c)
  BY DEF Removing, DelLabels
<1>p. /\ cond[c].send = "live"
      /\ Past(S(c)) /\ sock[c] = "null"
      /\ cond'[c].send = "gone" /\ cond'[c].recv = cond[c].recv
  <2>1. cond[c] \in [recv : {"none", "live", "gone"}, send : {"none", "live", "gone"}]
    BY <1>0 DEF Typed
  <2>2. cond'[c] = [cond[c] EXCEPT !["send"] = "gone"]
    BY <1>0 DEF Typed
  <2>3. sock[c] = "null"
    BY DEF Inv, Opened, Remover, MainRemoves, DelLabels
  <2>4. QED
    BY <1>0, <1>2, <1>3, <2>1, <2>2, <2>3 DEF InOrder
<1>4. misused' \subseteq {"sent"}
  BY <1>2, <1>3, <1>p DEF Use, Signal
<1>5. \A u \in Threads : /\ u # Main /\ Past(u) => Past(u)'
                         /\ \A d \in Clients : Removing(u, d)' => Removing(u, d) /\ (u # t => pc'[u] = pc[u])
  BY <1>0, <1>1 DEF Removing, Remover, Past, ctl, DelLabels
<1>6. InOrder(c)'
  BY <1>0, <1>1, <1>2, <1>3, <1>5, <1>p DEF InOrder, shared, Inv, Opened, Unset, MainRemoves
<1>7. ASSUME NEW d \in Clients, d # c  PROVE InOrder(d)'
  <2>1. ~Removing(t, d) /\ ~Removing(t, d)'
    BY <1>0, <1>3, <1>5, <1>7 DEF Removing, Remover
  <2>2. UNCHANGED <<sock[d], cond[d], rthread[d], sthread[d]>>
    BY <1>0, <1>7 DEF Typed, shared
  <2>3. QED
    BY <1>2, <1>5, <1>7, <2>1, <2>2 DEF InOrder
<1>8. QED
  BY <1>4, <1>6, <1>7

LEMMA UnlinkNextRem ==
  ASSUME Inv, Inv', Removal, NEW c \in Clients, NEW t, Remover(t, c), UnlinkNext(c, t)
  PROVE  Removal'
<1> USE ThreadFacts DEF At, Only, UnlinkNext
<1> SUFFICES ASSUME Clean'  PROVE misused' \subseteq {"sent"} /\ \A d \in Clients : InOrder(d)'
  BY DEF Removal
<1>0. Typed /\ t \in Threads /\ t # Acceptor /\ pc[t] # "waiting"
  BY DEF Inv, Remover
<1>1. /\ pc' \in [Threads -> Labels] /\ pc'[t] = "unlink2"
      /\ \A u \in Threads : u # t => pc'[u] = pc[u]
  BY <1>0 DEF Typed, Go, Labels, RecvLabels, SendLabels, DelLabels, AddLabels
<1>2. misused \subseteq {"sent"} /\ \A d \in Clients : InOrder(d)
  BY DEF Removal, Clean, Enter, Signal, Crossing, Early
<1>3. Removing(t, c)
  BY DEF Removing, DelLabels
<1>4. misused' \subseteq {"sent"}
  BY <1>2, <1>3 DEF Use, Signal
<1>5. \A u \in Threads : /\ u # Main /\ Past(u) => Past(u)'
                         /\ \A d \in Clients : Removing(u, d)' => Removing(u, d) /\ (u # t => pc'[u] = pc[u])
  BY <1>0, <1>1 DEF Removing, Remover, Past, ctl, DelLabels
<1>6. InOrder(c)'
  BY <1>0, <1>1, <1>2, <1>3, <1>5 DEF InOrder, shared, Inv, Opened, Unset, MainRemoves
<1>7. ASSUME NEW d \in Clients, d # c  PROVE InOrder(d)'
  <2>1. ~Removing(t, d) /\ ~Removing(t, d)'
    BY <1>0, <1>3, <1>5, <1>7 DEF Removing, Remover
  <2>2. UNCHANGED <<sock[d], cond[d], rthread[d], sthread[d]>>
    BY <1>0, <1>7 DEF Typed, shared
  <2>3. QED
    BY <1>2, <1>5, <1>7, <2>1, <2>2 DEF InOrder
<1>8. QED
  BY <1>4, <1>6, <1>7

LEMMA UnlinkPrevRem ==
  ASSUME Inv, Inv', Removal, NEW c \in Clients, NEW t, Remover(t, c), UnlinkPrev(c, t)
  PROVE  Removal'
<1> USE ThreadFacts DEF At, Only, UnlinkPrev
<1> SUFFICES ASSUME Clean'  PROVE misused' \subseteq {"sent"} /\ \A d \in Clients : InOrder(d)'
  BY DEF Removal
<1>0. Typed /\ t \in Threads /\ t # Acceptor /\ pc[t] # "waiting"
  BY DEF Inv, Remover
<1>1. /\ pc' \in [Threads -> Labels] /\ pc'[t] = IF t = Main THEN "pick" ELSE "end"
      /\ \A u \in Threads : u # t => pc'[u] = pc[u]
  BY <1>0 DEF Typed, Go, Labels, RecvLabels, SendLabels, DelLabels, AddLabels
<1>2. misused \subseteq {"sent"} /\ \A d \in Clients : InOrder(d)
  BY DEF Removal, Clean, Enter, Signal, Crossing, Early
<1>3. Removing(t, c)
  BY DEF Removing, DelLabels
<1>4. misused' \subseteq {"sent"}
  BY <1>2, <1>3 DEF Use, Signal
<1>5. \A u \in Threads : /\ u # Main /\ Past(u) => Past(u)'
                         /\ \A d \in Clients : Removing(u, d)' => Removing(u, d) /\ (u # t => pc'[u] = pc[u])
  BY <1>0, <1>1 DEF Removing, Remover, Past, ctl, DelLabels
<1>6. InOrder(c)'
  BY <1>0, <1>1, <1>2, <1>3, <1>5 DEF InOrder, shared, Inv, Opened, Unset, MainRemoves, Removing, DelLabels
<1>7. ASSUME NEW d \in Clients, d # c  PROVE InOrder(d)'
  <2>1. ~Removing(t, d) /\ ~Removing(t, d)'
    BY <1>0, <1>3, <1>5, <1>7 DEF Removing, Remover
  <2>2. UNCHANGED <<sock[d], cond[d], rthread[d], sthread[d]>>
    BY <1>0, <1>7 DEF Typed, shared
  <2>3. QED
    BY <1>2, <1>5, <1>7, <2>1, <2>2 DEF InOrder
<1>8. QED
  BY <1>4, <1>6, <1>7

(* All of Next *)

LEMMA QuietRem ==
  ASSUME Removal, UNCHANGED <<pc, ctl, shared, misused, windows>>
  PROVE  Removal'
BY DEF Removal, Clean, InOrder, Removing, Remover, Past, ctl, shared

LEMMA DelRem ==
  ASSUME Inv, Inv', Removal, NEW c \in Clients, NEW t, Remover(t, c), Del(c, t)
  PROVE  Removal'
BY DelTestRem, DelSwapRem, DelWakeRecvRem, DelNoRecvRem, DestroyRecvRem, DelWakeSendRem,
   DelNoSendRem, DestroySendRem, UnlinkNextRem, UnlinkPrevRem DEF Del

LEMMA NextRem ==
  ASSUME Inv, Inv', Removal, [Next]_vars
  PROVE  Removal'
<1>1. ASSUME NEW c \in Clients, RecvThread(c)  PROVE Removal'
  BY <1>1, DelRem, RecvTestRem, RecvDataRem, PutAnswerRem, SignalDataRem, WaitRecvRem,
     RecvExitRem DEF RecvThread, Receive, Remover
<1>2. ASSUME NEW c \in Clients, SendThread(c)  PROVE Removal'
  BY <1>2, DelRem, SendTestRem, SendLenRem, SendDataRem, SignalSentRem, WaitSendRem,
     SendExitRem DEF SendThread, SendLoop, Remover
<1>3. ASSUME MainStep  PROVE Removal'
  BY <1>3, DelRem, PickFirstRem, PickJunkRem, FinishRem DEF MainStep, Remover, Inv, Typed
<1>4. ASSUME Accept  PROVE Removal'
  BY <1>4, AcceptedRem, LinkLastRem, AcceptEndRem, LinkBackRem, FillRem, StoreRecvRem, StoreSendRem,
     StartRecvRem, StartSendRem DEF Accept
<1>5. ASSUME NEW c \in Clients, Call(c) \/ HangUp(c) \/ SendMessage(c)  PROVE Removal'
  BY <1>5, QuietRem DEF Call, HangUp, Peer, SendMessage
<1>6. CASE UNCHANGED vars
  BY <1>6, QuietRem DEF vars
<1>7. QED
  BY <1>1, <1>2, <1>3, <1>4, <1>5, <1>6, StopRunningRem DEF Next

LEMMA InitRem == Init => Removal
<1> SUFFICES ASSUME Init  PROVE Removal
  OBVIOUS
<1> USE ThreadFacts DEF Init
<1>1. pc[Main] = "run" /\ \A c \in Clients : pc[R(c)] = "off" /\ pc[S(c)] = "off"
  OBVIOUS
<1>2. ASSUME NEW c \in Clients  PROVE InOrder(c)
  BY <1>1 DEF InOrder, Removing, Remover, DelLabels
<1>3. QED
  BY <1>2 DEF Removal

\* serverDel destroys the conditions of a client once and nobody uses them after
\* that, but for the signal of an answer sent, unless two threads passed its
\* test together or serverAdd stored a handle late.
THEOREM RemovesOnce == Spec => []RemovedOnce
<1>1. Inv /\ Removal /\ [Next]_vars => Inv' /\ Removal'
  BY NextInv, NextRem
<1>2. Removal => RemovedOnce
  BY DEF Removal, RemovedOnce, Clean
<1>3. QED
  BY <1>1, <1>2, InitInv, InitRem, PTL DEF Spec
=============================================================================
