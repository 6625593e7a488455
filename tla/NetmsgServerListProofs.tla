------------------------ MODULE NetmsgServerListProofs ------------------------
(***************************************************************************)
(* That ctx.clientlist has the clients added and not removed               *)
(* (ListIsMembers of NetmsgServer), for any clients, plans and length of   *)
(* an answer.                                                              *)
(*                                                                         *)
(* First, what a turn of each thread amounts to: NetmsgServerHangProofs    *)
(* uses that as well.                                                      *)
(***************************************************************************)
EXTENDS NetmsgServerProofs

-----------------------------------------------------------------------------
(* What a turn of a thread amounts to *)

Moves(t, from, to) == pc[t] = from /\ pc'[t] = to

\* u is sent a signal.
Woken(u) == /\ pc'[u] = IF pc[u] = "waiting" THEN "test" ELSE pc[u]
            /\ Committed(u) => "lost" \in windows'

ReceiveMove(c) ==
  /\ \A u \in Threads \ {R(c), S(c)} : pc'[u] = pc[u]
  /\ UNCHANGED <<ctl, list, sock, sthread, cond, plan, peer>>
  /\ windows \subseteq windows'
  /\ \A d \in Clients \ {c} : slen'[d] = slen[d] /\ rthread'[d] = rthread[d]
  /\ \/ Moves(R(c), "sig", "wait") /\ Woken(S(c)) /\ UNCHANGED <<slen, rthread>>
     \/ /\ pc'[S(c)] = pc[S(c)]
        /\ \/ Moves(R(c), "test", "recv") /\ Keeps(c) /\ UNCHANGED <<slen, rthread>>
           \/ /\ pc[R(c)] = "recv" /\ pc'[R(c)] \in {"proc", "test"} /\ sock[c] = "open"
              /\ UNCHANGED <<slen, rthread>>
           \/ Moves(R(c), "proc", "sig") /\ slen'[c] = MsgLen /\ UNCHANGED rthread
           \/ Moves(R(c), "wait", "waiting") /\ UNCHANGED <<slen, rthread>>
           \/ /\ pc[R(c)] \in {"test", "recv"} /\ pc'[R(c)] = "del"
              /\ ~rthread'[c] /\ UNCHANGED slen
              /\ ~running \/ sock[c] # "open" \/ peer[c] = "gone"

SendMove(c) ==
  /\ \A u \in Threads \ {R(c), S(c)} : pc'[u] = pc[u]
  /\ UNCHANGED <<ctl, list, sock, rthread, cond, plan, peer>>
  /\ windows \subseteq windows'
  /\ \A d \in Clients \ {c} : slen'[d] = slen[d] /\ sthread'[d] = sthread[d]
  /\ \/ Moves(S(c), "sig", "test") /\ Woken(R(c)) /\ UNCHANGED <<slen, sthread>>
     \/ /\ pc'[R(c)] = pc[R(c)]
        /\ \/ Moves(S(c), "test", "len") /\ Keeps(c) /\ UNCHANGED <<slen, sthread>>
           \/ /\ pc[S(c)] = "len" /\ pc'[S(c)] = IF slen[c] > 0 THEN "send" ELSE "wait"
              /\ UNCHANGED <<slen, sthread>>
           \/ /\ pc[S(c)] = "send" /\ pc'[S(c)] = IF slen'[c] > 0 THEN "test" ELSE "sig"
              /\ sock[c] = "open" /\ UNCHANGED sthread
           \/ Moves(S(c), "wait", "waiting") /\ UNCHANGED <<slen, sthread>>
           \/ /\ pc[S(c)] \in {"test", "send"} /\ pc'[S(c)] = "del"
              /\ ~sthread'[c] /\ UNCHANGED slen
              /\ ~running \/ sock[c] # "open" \/ peer[c] = "gone" \/ Dirty(c)

\* serverDel, but for the steps that change the list.
DelMove(c, t) ==
  /\ \A u \in Threads \ {t, R(c), S(c)} : pc'[u] = pc[u]
  /\ UNCHANGED <<ctl, list, rthread, sthread, slen, plan, peer>>
  /\ windows \subseteq windows'
  /\ \A d \in Clients \ {c} : sock'[d] = sock[d] /\ cond'[d] = cond[d]
  /\ \/ /\ Moves(t, "r1", "r2") /\ rthread[c] /\ UNCHANGED <<sock, cond>>
        /\ pc'[S(c)] = pc[S(c)] \/ t = S(c)
        /\ Woken(R(c)) \/ t = R(c)
     \/ /\ Moves(t, "s1", "s2") /\ sthread[c] /\ UNCHANGED <<sock, cond>>
        /\ pc'[R(c)] = pc[R(c)] \/ t = R(c)
        /\ Woken(S(c)) \/ t = S(c)
     \/ /\ \A u \in Threads \ {t} : pc'[u] = pc[u]
        /\ \/ Moves(t, "del", "end") /\ sock[c] = "null" /\ UNCHANGED <<sock, cond>>
           \/ /\ Moves(t, "del", "swap") /\ sock[c] # "null" /\ UNCHANGED <<sock, cond>>
              /\ \A u \in Threads \ {t} :
                   Remover(u, c) /\ pc[u] = "swap" => "raced" \in windows'
           \/ Moves(t, "swap", "r1") /\ sock'[c] = "null" /\ UNCHANGED cond
           \/ /\ Moves(t, "r1", "rdes") /\ (~Past(R(c)) => "early" \in windows')
              /\ UNCHANGED <<sock, cond>>
           \/ /\ Moves(t, "r2", IF rthread[c] THEN "rjoin" ELSE "rdes")
              /\ UNCHANGED <<sock, cond>>
           \/ Moves(t, "rjoin", "rdes") /\ UNCHANGED <<sock, cond>>
           \/ /\ Moves(t, "rdes", "s1") /\ UNCHANGED sock
              /\ cond'[c].recv = "gone" /\ cond'[c].send = cond[c].send
           \/ /\ Moves(t, "s1", "sdes") /\ (~Past(S(c)) => "early" \in windows')
              /\ UNCHANGED <<sock, cond>>
           \/ /\ Moves(t, "s2", IF sthread[c] THEN "sjoin" ELSE "sdes")
              /\ UNCHANGED <<sock, cond>>
           \/ Moves(t, "sjoin", "sdes") /\ UNCHANGED <<sock, cond>>
           \/ /\ Moves(t, "sdes", "unlink1") /\ UNCHANGED sock
              /\ cond'[c].send = "gone" /\ cond'[c].recv = cond[c].recv

LEMMA LabelFacts ==
  /\ DelLabels \subseteq Labels /\ RecvLabels \subseteq Labels /\ SendLabels \subseteq Labels
  /\ AddLabels \subseteq Labels /\ {"run", "pick", "accept"} \subseteq Labels
BY DEF Labels

\* One thread moves.
LEMMA GoFacts ==
  ASSUME pc \in [Threads -> Labels], NEW t \in Threads, NEW l \in Labels, Go(t, l)
  PROVE  pc'[t] = l /\ \A u \in Threads \ {t} : pc'[u] = pc[u]
BY DEF Go

\* A signal that comes too early is lost.
LEMMA SignalLost ==
  ASSUME NEW t, NEW l, NEW which, NEW u, Signal(t, l, which, u)
  PROVE  windows \subseteq windows' /\ (Committed(u) => "lost" \in windows')
<1>1. windows' = windows \union (IF Committed(u) THEN {"lost"} ELSE {})
  BY DEF Signal, Enter
<1>2. CASE Committed(u)
  BY <1>1, <1>2
<1>3. CASE ~Committed(u)
  BY <1>1, <1>3
<1>4. QED
  BY <1>2, <1>3

LEMMA ReceiveMoves ==
  ASSUME Inv, NEW c \in Clients, Receive(c)
  PROVE  ReceiveMove(c)
<1> USE ThreadFacts DEF At, Only, Moves, ReceiveMove
<1>0. /\ Typed /\ pc \in [Threads -> Labels] /\ slen \in [Clients -> Nat]
      /\ rthread \in [Clients -> BOOLEAN]
      /\ {"recv", "proc", "test", "sig", "wait", "waiting", "del"} \subseteq Labels
  BY DEF Inv, Typed, Labels, RecvLabels
<1>1. CASE RecvTest(c)
  BY <1>0, <1>1, GoFacts DEF RecvTest, shared, net
<1>2. CASE RecvData(c)
  <2>1. PICK l \in {"proc", "test"} : Go(R(c), l)
    BY <1>2 DEF RecvData
  <2>2. QED
    BY <1>0, <1>2, <2>1, GoFacts DEF RecvData, shared
<1>3. CASE PutAnswer(c)
  BY <1>0, <1>3, GoFacts DEF PutAnswer, net
<1>4. CASE SignalData(c)
  <2>1. /\ pc'[R(c)] = "wait"
        /\ \A v \in Threads :
             v # R(c) => pc'[v] = IF v = S(c) /\ pc[v] = "waiting" THEN "test" ELSE pc[v]
    BY <1>0, <1>4, SignalFacts DEF SignalData
  <2>2. windows \subseteq windows' /\ Woken(S(c))
    BY <1>4, <2>1, SignalLost DEF SignalData, Woken
  <2>3. QED
    BY <1>4, <2>1, <2>2 DEF SignalData, shared, net
<1>5. CASE Wait(c, R(c), "recv")
  BY <1>0, <1>5, GoFacts DEF Wait, shared, net
<1>6. CASE RecvExit(c)
  BY <1>0, <1>6, GoFacts DEF RecvExit, Keeps, net
<1>7. QED
  BY <1>1, <1>2, <1>3, <1>4, <1>5, <1>6 DEF Receive

LEMMA SendMoves ==
  ASSUME Inv, NEW c \in Clients, SendLoop(c)
  PROVE  SendMove(c)
<1> USE ThreadFacts DEF At, Only, Moves, SendMove
<1>0. /\ Typed /\ pc \in [Threads -> Labels] /\ slen \in [Clients -> Nat]
      /\ sthread \in [Clients -> BOOLEAN] /\ MsgLen \in Nat
      /\ {"len", "send", "test", "sig", "wait", "waiting", "del"} \subseteq Labels
  BY ServerAssumption DEF Inv, Typed, Labels, SendLabels
<1>1. CASE SendTest(c)
  BY <1>0, <1>1, GoFacts DEF SendTest, shared, net
<1>2. CASE SendLen(c)
  BY <1>0, <1>2, GoFacts DEF SendLen, shared, net
<1>3. CASE SendData(c)
  <2>1. PICK n \in 1..slen[c] \union 1..plan.junk[c] :
          /\ slen' = [slen EXCEPT ![c] = IF n < @ THEN @ - n ELSE 0]
          /\ IF n < slen[c] THEN Go(S(c), "test") ELSE Go(S(c), "sig")
    BY <1>3 DEF SendData
  <2>2. /\ slen[c] \in Nat /\ slen'[c] = IF n < slen[c] THEN slen[c] - n ELSE 0
        /\ \A d \in Clients \ {c} : slen'[d] = slen[d]
    BY <1>0, <2>1
  <2>n. n \in Nat
    BY <2>2, ServerAssumption DEF Inv, Typed
  <2>3. Go(S(c), IF slen'[c] > 0 THEN "test" ELSE "sig")
    BY <2>1, <2>2, <2>n
  <2>4. QED
    BY <1>0, <1>3, <2>2, <2>3, GoFacts DEF SendData, net
<1>4. CASE SignalSent(c)
  <2>1. /\ pc'[S(c)] = "test"
        /\ \A v \in Threads :
             v # S(c) => pc'[v] = IF v = R(c) /\ pc[v] = "waiting" THEN "test" ELSE pc[v]
    BY <1>0, <1>4, SignalFacts DEF SignalSent
  <2>2. windows \subseteq windows' /\ Woken(R(c))
    BY <1>4, <2>1, SignalLost DEF SignalSent, Woken
  <2>3. QED
    BY <1>4, <2>1, <2>2 DEF SignalSent, shared, net
<1>5. CASE Wait(c, S(c), "send")
  BY <1>0, <1>5, GoFacts DEF Wait, shared, net
<1>6. CASE SendExit(c)
  BY <1>0, <1>6, GoFacts DEF SendExit, Keeps, net
<1>7. QED
  BY <1>1, <1>2, <1>3, <1>4, <1>5, <1>6 DEF SendLoop

LEMMA DelMoves ==
  ASSUME Inv, NEW c \in Clients, NEW t, Remover(t, c), Del(c, t)
  PROVE  DelMove(c, t) \/ UnlinkNext(c, t) \/ UnlinkPrev(c, t)
<1> USE ThreadFacts DEF At, Only, Moves
<1>0. /\ Typed /\ pc \in [Threads -> Labels] /\ t \in Threads
      /\ sock \in [Clients -> {"null", "open", "junk"}]
      /\ cond \in [Clients -> [recv : {"none", "live", "gone"}, send : {"none", "live", "gone"}]]
      /\ {"del", "end", "swap", "r1", "r2", "rjoin", "rdes", "s1", "s2", "sjoin", "sdes",
          "unlink1"} \subseteq Labels
  BY DEF Inv, Typed, Labels, RecvLabels, DelLabels, Remover
<1>1. ASSUME DelTest(c, t)  PROVE DelMove(c, t)
  <2>1. CASE sock[c] = "null"
    BY <1>0, <1>1, <2>1, GoFacts DEF DelTest, DelMove, shared, net
  <2>2. CASE sock[c] # "null"
    <3>1. \A u \in Threads \ {t} : Remover(u, c) /\ pc[u] = "swap" => "raced" \in windows'
      BY <1>1, <2>2 DEF DelTest, Remover, Enter
    <3>2. QED
      BY <1>0, <1>1, <2>2, <3>1, GoFacts DEF DelTest, DelMove, shared, net, Enter
  <2>3. QED
    BY <2>1, <2>2
<1>2. ASSUME DelSwap(c, t)  PROVE DelMove(c, t)
  BY <1>0, <1>2, GoFacts DEF DelSwap, DelMove, net
<1>3. ASSUME DelWakeRecv(c, t)  PROVE DelMove(c, t)
  <2>1. /\ pc'[t] = "r2"
        /\ \A v \in Threads :
             v # t => pc'[v] = IF v = R(c) /\ pc[v] = "waiting" THEN "test" ELSE pc[v]
    BY <1>0, <1>3, SignalFacts DEF DelWakeRecv
  <2>2. windows \subseteq windows' /\ (Woken(R(c)) \/ t = R(c))
    BY <1>3, <2>1, SignalLost DEF DelWakeRecv, Woken
  <2>3. QED
    BY <1>3, <2>1, <2>2 DEF DelWakeRecv, DelMove, shared, net
<1>4. ASSUME DelNoRecv(c, t)  PROVE DelMove(c, t)
  <2>1. CASE pc[t] = "r1"
    BY <1>0, <1>4, <2>1, GoFacts DEF DelNoRecv, DelMove, Skip, Early, Enter, shared, net
  <2>2. CASE pc[t] = "r2"
    BY <1>0, <1>4, <2>2, GoFacts DEF DelNoRecv, DelMove, shared, net
  <2>3. CASE pc[t] = "rjoin"
    BY <1>0, <1>4, <2>3, GoFacts DEF DelNoRecv, DelMove, shared, net
  <2>4. QED
    BY <1>4, <2>1, <2>2, <2>3 DEF DelNoRecv
<1>5. ASSUME Destroy(c, t, "recv", "rdes", "s1")  PROVE DelMove(c, t)
  <2>1. cond[c] \in [recv : {"none", "live", "gone"}, send : {"none", "live", "gone"}]
    BY <1>0
  <2>2. cond' = [cond EXCEPT ![c] = [cond[c] EXCEPT !["recv"] = "gone"]]
    BY <1>5 DEF Destroy
  <2>3. /\ cond'[c].recv = "gone" /\ cond'[c].send = cond[c].send
        /\ \A d \in Clients \ {c} : cond'[d] = cond[d]
    BY <1>0, <2>1, <2>2
  <2>4. QED
    BY <1>0, <1>5, <2>3, GoFacts DEF Destroy, DelMove, net
<1>6. ASSUME DelWakeSend(c, t)  PROVE DelMove(c, t)
  <2>1. /\ pc'[t] = "s2"
        /\ \A v \in Threads :
             v # t => pc'[v] = IF v = S(c) /\ pc[v] = "waiting" THEN "test" ELSE pc[v]
    BY <1>0, <1>6, SignalFacts DEF DelWakeSend
  <2>2. windows \subseteq windows' /\ (Woken(S(c)) \/ t = S(c))
    BY <1>6, <2>1, SignalLost DEF DelWakeSend, Woken
  <2>3. QED
    BY <1>6, <2>1, <2>2 DEF DelWakeSend, DelMove, shared, net
<1>7. ASSUME DelNoSend(c, t)  PROVE DelMove(c, t)
  <2>1. CASE pc[t] = "s1"
    BY <1>0, <1>7, <2>1, GoFacts DEF DelNoSend, DelMove, Skip, Early, Enter, shared, net
  <2>2. CASE pc[t] = "s2"
    BY <1>0, <1>7, <2>2, GoFacts DEF DelNoSend, DelMove, shared, net
  <2>3. CASE pc[t] = "sjoin"
    BY <1>0, <1>7, <2>3, GoFacts DEF DelNoSend, DelMove, shared, net
  <2>4. QED
    BY <1>7, <2>1, <2>2, <2>3 DEF DelNoSend
<1>8. ASSUME Destroy(c, t, "send", "sdes", "unlink1")  PROVE DelMove(c, t)
  <2>1. cond[c] \in [recv : {"none", "live", "gone"}, send : {"none", "live", "gone"}]
    BY <1>0
  <2>2. cond' = [cond EXCEPT ![c] = [cond[c] EXCEPT !["send"] = "gone"]]
    BY <1>8 DEF Destroy
  <2>3. /\ cond'[c].send = "gone" /\ cond'[c].recv = cond[c].recv
        /\ \A d \in Clients \ {c} : cond'[d] = cond[d]
    BY <1>0, <2>1, <2>2
  <2>4. QED
    BY <1>0, <1>8, <2>3, GoFacts DEF Destroy, DelMove, net
<1>9. QED
  BY <1>1, <1>2, <1>3, <1>4, <1>5, <1>6, <1>7, <1>8 DEF Del

\* serverAccept and serverAdd, but for the steps that change the list.
AcceptMove ==
  /\ UNCHANGED <<list, victim, slen, plan, peer>>
  /\ windows \subseteq windows'
  /\ \A c \in Clients \ {newcomer} :
       /\ sock'[c] = sock[c] /\ cond'[c] = cond[c]
       /\ rthread'[c] = rthread[c] /\ sthread'[c] = sthread[c]
  /\ \/ /\ newcomer \in Clients /\ UNCHANGED <<ctl, sock, cond, rthread, sthread>>
        /\ \/ Moves(Acceptor, "runR", "setR") /\ Moves(R(newcomer), "off", "test")
              /\ \A u \in Threads \ {Acceptor, R(newcomer)} : pc'[u] = pc[u]
           \/ Moves(Acceptor, "runS", "setS") /\ Moves(S(newcomer), "off", "test")
              /\ \A u \in Threads \ {Acceptor, S(newcomer)} : pc'[u] = pc[u]
     \/ /\ \A u \in Threads \ {Acceptor} : pc'[u] = pc[u]
        /\ \/ /\ Moves(Acceptor, "accept", "end") /\ (~running \/ pc[Main] # "run")
              /\ UNCHANGED <<newcomer, sock, cond, rthread, sthread>>
           \/ /\ newcomer \in Clients /\ UNCHANGED running
              /\ \/ /\ Moves(Acceptor, "fill", "runR")
                    /\ sock'[newcomer] = "open"
                    /\ cond'[newcomer] = [recv |-> "live", send |-> "live"]
                    /\ UNCHANGED <<newcomer, rthread, sthread>>
                 \/ /\ Moves(Acceptor, "setR", "runS")
                    /\ Past(R(newcomer)) => "early" \in windows'
                    /\ UNCHANGED <<newcomer, sock, cond, sthread>>
                 \/ /\ Moves(Acceptor, "setS", "accept") /\ newcomer' = Nil
                    /\ Past(S(newcomer)) => "early" \in windows'
                    /\ UNCHANGED <<sock, cond, rthread>>

\* serverRun and serverEnd, outside serverDel.
MainMove ==
  /\ \A u \in Threads \ {Main} : pc'[u] = pc[u]
  /\ UNCHANGED <<list, newcomer, sock, rthread, sthread, slen, cond, plan, peer>>
  /\ windows \subseteq windows'
  /\ \/ Moves(Main, "run", "pick") /\ UNCHANGED victim
     \/ /\ Moves(Main, "pick", "swap") /\ UNCHANGED running
        /\ head \in Clients /\ sock[head] = "open" /\ victim' = head
        /\ \A u \in {R(head), S(head)} : pc[u] = "swap" => "raced" \in windows'
     \/ Moves(Main, "pick", "end") /\ UNCHANGED <<victim, running>>

LEMMA AcceptMoves ==
  ASSUME Inv, Accept
  PROVE  AcceptMove \/ LinkBack \/ LinkLast \/ \E c \in Clients : Accepted(c)
<1> USE ThreadFacts DEF At, Only, Moves
<1>0. /\ Typed /\ Adding /\ pc \in [Threads -> Labels]
      /\ sock \in [Clients -> {"null", "open", "junk"}]
      /\ rthread \in [Clients -> BOOLEAN] /\ sthread \in [Clients -> BOOLEAN]
      /\ cond \in [Clients -> [recv : {"none", "live", "gone"}, send : {"none", "live", "gone"}]]
      /\ {"end", "test", "fill", "runR", "setR", "runS", "setS", "accept"} \subseteq Labels
  BY DEF Inv, Typed, Labels, RecvLabels, AddLabels
<1>1. ASSUME AcceptEnd  PROVE AcceptMove
  BY <1>0, <1>1, GoFacts DEF AcceptEnd, AcceptMove, shared, net
<1>2. ASSUME Fill  PROVE AcceptMove
  <2>1. newcomer \in Clients
    BY <1>0, <1>2 DEF Fill, Adding, AddLabels
  <2>2. QED
    BY <1>0, <1>2, <2>1, GoFacts DEF Fill, AcceptMove, net, ctl
<1>3. ASSUME Start(R(newcomer), "runR", "setR")  PROVE AcceptMove
  <2>1. newcomer \in Clients /\ pc[R(newcomer)] = "off"
    BY <1>0, <1>3 DEF Start, Adding, AddLabels
  <2>2. /\ pc'[Acceptor] = "setR" /\ pc'[R(newcomer)] = "test"
        /\ \A u \in Threads \ {Acceptor, R(newcomer)} : pc'[u] = pc[u]
    BY <1>0, <1>3, <2>1 DEF Start
  <2>3. QED
    BY <1>3, <2>1, <2>2 DEF Start, AcceptMove, net, ctl, shared
<1>4. ASSUME Start(S(newcomer), "runS", "setS")  PROVE AcceptMove
  <2>1. newcomer \in Clients /\ pc[S(newcomer)] = "off"
    BY <1>0, <1>4 DEF Start, Adding, AddLabels
  <2>2. /\ pc'[Acceptor] = "setS" /\ pc'[S(newcomer)] = "test"
        /\ \A u \in Threads \ {Acceptor, S(newcomer)} : pc'[u] = pc[u]
    BY <1>0, <1>4, <2>1 DEF Start
  <2>3. QED
    BY <1>4, <2>1, <2>2 DEF Start, AcceptMove, net, ctl, shared
<1>5. ASSUME StoreRecv  PROVE AcceptMove
  <2>1. newcomer \in Clients
    BY <1>0, <1>5 DEF StoreRecv, Adding, AddLabels
  <2>2. windows \subseteq windows' /\ (Past(R(newcomer)) => "early" \in windows')
    BY <1>5 DEF StoreRecv, Early, Enter
  <2>3. QED
    BY <1>0, <1>5, <2>1, <2>2, GoFacts DEF StoreRecv, AcceptMove, net, ctl
<1>6. ASSUME StoreSend  PROVE AcceptMove
  <2>1. newcomer \in Clients
    BY <1>0, <1>6 DEF StoreSend, Adding, AddLabels
  <2>2. windows \subseteq windows' /\ (Past(S(newcomer)) => "early" \in windows')
    BY <1>6 DEF StoreSend, Early, Enter
  <2>3. QED
    BY <1>0, <1>6, <2>1, <2>2, GoFacts DEF StoreSend, AcceptMove, net, ctl
<1>7. QED
  BY <1>1, <1>2, <1>3, <1>4, <1>5, <1>6 DEF Accept

LEMMA MainMoves ==
  ASSUME Inv, StopRunning \/ PickFirst \/ PickJunk \/ Finish
  PROVE  MainMove
<1> USE ThreadFacts DEF At, Only, Moves
<1>0. /\ Typed /\ pc \in [Threads -> Labels] /\ head \in Clients \union {Nil}
      /\ {"end", "swap", "pick"} \subseteq Labels
  BY DEF Inv, Typed, Labels, RecvLabels, DelLabels
<1>1. ASSUME StopRunning  PROVE MainMove
  BY <1>0, <1>1, GoFacts DEF StopRunning, MainMove, shared, net
<1>2. ASSUME PickFirst  PROVE MainMove
  <2>1. /\ windows \subseteq windows'
        /\ \A u \in {R(head), S(head)} : pc[u] = "swap" => "raced" \in windows'
    BY <1>2 DEF PickFirst, Enter
  <2>2. QED
    BY <1>0, <1>2, <2>1, GoFacts DEF PickFirst, MainMove, shared, net
<1>3. ASSUME PickJunk  PROVE MainMove
  BY <1>0, <1>3, GoFacts DEF PickJunk, MainMove, Enter, shared, net, ctl
<1>4. ASSUME Finish  PROVE MainMove
  BY <1>0, <1>4, GoFacts DEF Finish, MainMove, shared, net, ctl
<1>5. QED
  BY <1>1, <1>2, <1>3, <1>4

-----------------------------------------------------------------------------
(* The invariant *)

\* No client was removed twice and no two threads changed the list at once.
Calm == windows \intersect {"raced", "crossed"} = {}

Listed == {members[i] : i \in 1..Len(members)}
Distinct == \A i, j \in 1..Len(members) : members[i] = members[j] => i = j

\* A client comes into the list once, before any thread works for it, and is in
\* it while its socket is open.
Comes(c) ==
  /\ peer[c] \in {"none", "calls"} => c \notin Listed
  /\ pc[Acceptor] = "link2" /\ newcomer = c => c \notin Listed
  /\ pc[Acceptor] = "fill" /\ newcomer = c => c \in Listed
  /\ sock[c] = "open" => c \in Listed
  /\ c \in Listed /\ Unset(c) => pc[Acceptor] = "fill" /\ newcomer = c

\* One thread at most removes it, and takes it out half way.
Leaves(c) ==
  /\ \A t, u \in Threads : Removing(t, c) /\ Removing(u, c) => t = u
  /\ \A t \in Threads : Removing(t, c) => (c \in Listed <=> pc[t] # "unlink2")

\* The threads between the two halves of a change.
Midway == {t \in Threads : pc[t] \in {"link2", "unlink2"}}

\* c is out of the list when it is read from the tail, and still between its
\* neighbours when it is read from the head.
Bridged(c) ==
  \E p \in 0..Len(members) :
    /\ prv[c] = IF p = 0 THEN Nil ELSE members[p]
    /\ nxt[c] = IF p = Len(members) THEN Nil ELSE members[p + 1]
    /\ \A i \in 0..Len(members) :
         (IF i = 0 THEN head ELSE nxt[members[i]]) =
           IF i = p THEN c ELSE IF i = Len(members) THEN Nil ELSE members[i + 1]

\* What the pointers are, at rest and midway.
Chain ==
  /\ \A t, u \in Midway : t = u
  /\ Backward(members)
  /\ Midway = {} => Forward(members, Nil)
  /\ pc[Acceptor] = "link2" => Forward(members, newcomer)
  /\ \A c \in Clients : \A t \in Threads :
       Removing(t, c) /\ pc[t] = "unlink2" => Bridged(c)

\* The types that Inv does not have.
Rest ==
  /\ running \in BOOLEAN /\ plan \in Plans
  /\ left \in [Clients -> Int] /\ wire \in [Clients -> Nat]
  /\ members \in Seq(Clients)
  /\ misused \subseteq {"signal", "sent", "wait", "destroy"}
  /\ windows \subseteq {"lost", "raced", "early", "crossed"}

Membership ==
  /\ Distinct
  /\ \A c \in Clients : Comes(c)
  /\ "raced" \notin windows => \A c \in Clients : Leaves(c)

ListInv == Rest /\ Membership /\ (Calm => Chain)

-----------------------------------------------------------------------------
(* Steps that leave the list alone *)

\* Such a step neither begins nor ends a change, and a removal begins only while
\* the client's socket is open and nobody else removes it.
Plain ==
  /\ UNCHANGED list
  /\ windows \subseteq windows'
  /\ \A t \in Threads : t \in Midway \union Midway' => pc'[t] = pc[t]
  /\ pc[Acceptor] = "link2" => newcomer' = newcomer
  /\ pc'[Acceptor] = "fill" => pc[Acceptor] = "fill" /\ newcomer' = newcomer
  /\ \A c \in Clients :
       /\ peer'[c] \in {"none", "calls"} => peer[c] \in {"none", "calls"}
       /\ sock'[c] = "open" => sock[c] = "open" \/ (pc[Acceptor] = "fill" /\ newcomer = c)
       /\ Unset(c)' => Unset(c)
       /\ pc[Acceptor] = "fill" /\ newcomer = c => pc'[Acceptor] = "fill" \/ ~Unset(c)'
       /\ \A t \in Threads : Removing(t, c)' =>
            \/ Removing(t, c)
            \/ "raced" \in windows'
            \/ /\ sock[c] = "open" /\ pc'[t] = "swap"
               /\ \A u \in Threads : ~Removing(u, c) /\ (u # t => ~Removing(u, c)')

LEMMA PlainMembership ==
  ASSUME Inv, Membership, Plain
  PROVE  Membership'
<1> USE ThreadFacts DEF Inv, Membership, Plain
<1>1. members' = members /\ Listed' = Listed
  BY DEF list, Listed
<1>2. Distinct'
  BY <1>1 DEF Distinct
<1>3. ASSUME NEW c \in Clients  PROVE Comes(c)'
  <2>1. pc'[Acceptor] = "link2" => pc[Acceptor] = "link2" /\ newcomer' = newcomer
    BY DEF Midway
  <2>2. QED
    BY <1>1, <2>1 DEF Comes
<1>4. ASSUME "raced" \notin windows', NEW c \in Clients  PROVE Leaves(c)'
  <2>1. Leaves(c) /\ Comes(c)
    BY <1>4
  <2>2. \A t \in Threads :
          Removing(t, c)' /\ Removing(t, c) => (c \in Listed <=> pc'[t] # "unlink2")
    BY <2>1 DEF Leaves, Midway
  <2>3. \A t \in Threads : Removing(t, c)' /\ ~Removing(t, c) =>
          /\ c \in Listed /\ pc'[t] = "swap"
          /\ \A u \in Threads : u # t => ~Removing(u, c)'
    BY <1>4, <2>1 DEF Comes
  <2>4. QED
    BY <1>1, <2>1, <2>2, <2>3 DEF Leaves
<1>5. QED
  BY <1>2, <1>3, <1>4

LEMMA PlainChain ==
  ASSUME Inv, Membership, Calm => Chain, Plain
  PROVE  Calm' => Chain'
<1> SUFFICES ASSUME Calm'  PROVE Chain'
  OBVIOUS
<1> USE ThreadFacts DEF Plain
<1>1. Chain /\ "raced" \notin windows'
  BY DEF Calm
<1>2. /\ members' = members /\ head' = head /\ tail' = tail /\ nxt' = nxt /\ prv' = prv
      /\ Midway' = Midway
  BY DEF list, Midway
<1>3. Backward(members)' /\ (Midway' = {} => Forward(members, Nil)')
  BY <1>1, <1>2 DEF Chain, Backward, Forward
<1>4. pc'[Acceptor] = "link2" => Forward(members, newcomer)'
  <2>1. pc'[Acceptor] = "link2" => pc[Acceptor] = "link2" /\ newcomer' = newcomer
    BY DEF Midway
  <2>2. QED
    BY <1>1, <1>2, <2>1 DEF Chain, Forward
<1>5. ASSUME NEW c \in Clients, NEW t \in Threads, Removing(t, c)', pc'[t] = "unlink2"
      PROVE  Bridged(c)'
  <2>1. Removing(t, c) /\ pc[t] = "unlink2"
    BY <1>1, <1>5 DEF Midway
  <2>2. QED
    BY <1>1, <1>2, <2>1 DEF Chain, Bridged
<1>6. QED
  BY <1>1, <1>2, <1>3, <1>4, <1>5 DEF Chain

LEMMA ReceivePlain ==
  ASSUME Inv, NEW c \in Clients, ReceiveMove(c)
  PROVE  Plain
<1> USE ThreadFacts DEF Inv
<1>0. UNCHANGED <<ctl, list, sock, cond, peer>> /\ windows \subseteq windows'
  BY DEF ReceiveMove
<1>1. /\ \A u \in Threads \ {R(c), S(c)} : pc'[u] = pc[u]
      /\ pc[R(c)] \notin DelLabels \union {"link2"} /\ pc'[R(c)] \notin DelLabels \union {"link2"}
      /\ pc'[S(c)] # pc[S(c)] => /\ pc[S(c)] \notin DelLabels \union {"link2"}
                                 /\ pc'[S(c)] \notin DelLabels \union {"link2"}
  BY DEF ReceiveMove, Moves, Woken, DelLabels
<1>2. \A t \in Threads : t \in Midway \union Midway' => pc'[t] = pc[t]
  BY <1>1 DEF Midway, DelLabels
<1>3. \A d \in Clients : \A t \in Threads : Removing(t, d)' => Removing(t, d)
  BY <1>0, <1>1 DEF Removing, Remover, ctl
<1>4. QED
  BY <1>0, <1>1, <1>2, <1>3 DEF Plain, ctl, Unset

LEMMA SendPlain ==
  ASSUME Inv, NEW c \in Clients, SendMove(c)
  PROVE  Plain
<1> USE ThreadFacts DEF Inv
<1>0. UNCHANGED <<ctl, list, sock, cond, peer>> /\ windows \subseteq windows'
  BY DEF SendMove
<1>1. /\ \A u \in Threads \ {R(c), S(c)} : pc'[u] = pc[u]
      /\ pc[S(c)] \notin DelLabels \union {"link2"} /\ pc'[S(c)] \notin DelLabels \union {"link2"}
      /\ pc'[R(c)] # pc[R(c)] => /\ pc[R(c)] \notin DelLabels \union {"link2"}
                                 /\ pc'[R(c)] \notin DelLabels \union {"link2"}
  BY DEF SendMove, Moves, Woken, DelLabels
<1>2. \A t \in Threads : t \in Midway \union Midway' => pc'[t] = pc[t]
  BY <1>1 DEF Midway, DelLabels
<1>3. \A d \in Clients : \A t \in Threads : Removing(t, d)' => Removing(t, d)
  BY <1>0, <1>1 DEF Removing, Remover, ctl
<1>4. QED
  BY <1>0, <1>1, <1>2, <1>3 DEF Plain, ctl, Unset

\* serverDel's test begins a removal when the socket is open.
LEMMA DelPlain ==
  ASSUME Inv, NEW c \in Clients, NEW t, Remover(t, c), DelMove(c, t)
  PROVE  Plain
<1> USE ThreadFacts DEF Inv
<1>0. UNCHANGED <<ctl, list, peer>> /\ windows \subseteq windows' /\ t \in Threads /\ t # Acceptor
  BY DEF DelMove, Remover
<1>1. /\ \A u \in Threads \ {t, R(c), S(c)} : pc'[u] = pc[u]
      /\ \A u \in {R(c), S(c)} \ {t} : pc'[u] = pc[u] \/ Moves(u, "waiting", "test")
      /\ pc[t] \notin {"link2", "unlink2"} /\ pc'[t] \notin {"link2", "unlink2"}
      /\ pc'[t] \in DelLabels => pc[t] \in DelLabels \/ Moves(t, "del", "swap")
  BY DEF DelMove, Moves, Woken, DelLabels
<1>2. \A u \in Threads : u \in Midway \union Midway' => pc'[u] = pc[u]
  BY <1>0, <1>1 DEF Midway, Moves
<1>3. \A u \in Threads \ {t} : pc'[u] \in DelLabels => pc'[u] = pc[u]
  BY <1>1 DEF Moves, DelLabels
<1>4. ASSUME NEW d \in Clients, NEW u \in Threads, Removing(u, d)', ~Removing(u, d),
             "raced" \notin windows'
      PROVE  /\ sock[d] = "open" /\ pc'[u] = "swap"
             /\ \A v \in Threads : ~Removing(v, d) /\ (v # u => ~Removing(v, d)')
  <2>1. u = t /\ Moves(t, "del", "swap")
    BY <1>0, <1>1, <1>3, <1>4 DEF Removing, Remover, ctl
  <2>2. d = c
    BY <1>4, <2>1, <1>0 DEF Removing, Remover, ctl, InPlace, Moves
  <2>3. /\ sock[c] # "null"
        /\ \A v \in Threads \ {t} : Remover(v, c) /\ pc[v] = "swap" => "raced" \in windows'
    BY <2>1 DEF DelMove, Moves
  <2>4. sock[c] = "open"
    BY <2>1, <2>3 DEF Opened, Typed, Remover, MainRemoves, Moves, InPlace, DelLabels
  <2>5. \A v \in Threads : ~Removing(v, c)
    BY <1>4, <2>1, <2>3 DEF Removing, Remover, Opened, MainRemoves, Moves, DelLabels
  <2>6. \A v \in Threads : v # u => ~Removing(v, c)'
    BY <1>0, <1>3, <2>1, <2>5 DEF Removing, Remover, ctl
  <2>7. QED
    BY <2>1, <2>2, <2>4, <2>5, <2>6 DEF Moves
<1>5. \A d \in Clients : (sock'[d] = "open" => sock[d] = "open") /\ (Unset(d)' => Unset(d))
  BY DEF DelMove, Unset
<1>6. QED
  BY <1>0, <1>1, <1>2, <1>4, <1>5 DEF Plain, ctl

LEMMA AcceptPlain ==
  ASSUME Inv, AcceptMove
  PROVE  Plain
<1> USE ThreadFacts DEF Inv
<1>0. UNCHANGED <<list, victim, peer>> /\ windows \subseteq windows' /\ pc[Acceptor] # "link2"
  BY DEF AcceptMove, Moves
<1>1. /\ pc[Acceptor] \notin DelLabels \union {"link2"}
      /\ pc'[Acceptor] \notin DelLabels \union {"link2", "fill"}
      /\ \A u \in Threads \ {Acceptor} : pc'[u] = pc[u] \/ Moves(u, "off", "test")
  BY DEF AcceptMove, Moves, DelLabels
<1>2. \A t \in Threads : t \in Midway \union Midway' => pc'[t] = pc[t]
  BY <1>1 DEF Midway, DelLabels, Moves
<1>3. \A d \in Clients : \A t \in Threads : Removing(t, d)' => Removing(t, d)
  BY <1>0, <1>1 DEF Removing, Remover, Moves, DelLabels
<1>4. \A d \in Clients : /\ sock'[d] = "open" => sock[d] = "open" \/ (pc[Acceptor] = "fill" /\ newcomer = d)
                         /\ Unset(d)' => Unset(d)
                         /\ pc[Acceptor] = "fill" /\ newcomer = d => ~Unset(d)'
  BY DEF AcceptMove, Unset, Moves
<1>5. QED
  BY <1>0, <1>1, <1>2, <1>3, <1>4 DEF Plain

LEMMA AcceptedPlain ==
  ASSUME Inv, NEW c \in Clients, Accepted(c)
  PROVE  Plain
<1> USE ThreadFacts DEF Inv, At
<1>0. /\ UNCHANGED <<list, victim, sock, cond, windows>> /\ pc[Acceptor] = "accept"
      /\ \A d \in Clients : peer'[d] = peer[d] \/ peer'[d] = "up"
  BY DEF Accepted, shared, Typed
<1>1. pc'[Acceptor] = "link1" /\ \A u \in Threads \ {Acceptor} : pc'[u] = pc[u]
  BY GoFacts, LabelFacts DEF Accepted, AddLabels, Typed
<1>2. \A t \in Threads : t \in Midway \union Midway' => pc'[t] = pc[t]
  BY <1>0, <1>1 DEF Midway
<1>3. \A d \in Clients : \A t \in Threads : Removing(t, d)' => Removing(t, d)
  BY <1>0, <1>1 DEF Removing, Remover
<1>4. QED
  BY <1>0, <1>1, <1>2, <1>3 DEF Plain, Unset

\* serverEnd takes a client whose socket is open.
LEMMA MainPlain ==
  ASSUME Inv, MainMove
  PROVE  Plain
<1> USE ThreadFacts DEF Inv
<1>0. UNCHANGED <<list, newcomer, sock, cond, peer>> /\ windows \subseteq windows'
  BY DEF MainMove
<1>1. /\ \A u \in Threads \ {Main} : pc'[u] = pc[u]
      /\ pc[Main] \notin DelLabels \union {"link2"} /\ pc'[Main] \notin {"link2", "unlink2"}
      /\ pc'[Main] \in DelLabels => /\ Moves(Main, "pick", "swap")
                                    /\ head \in Clients /\ sock[head] = "open" /\ victim' = head
                                    /\ \A u \in {R(head), S(head)} : pc[u] = "swap" => "raced" \in windows'
  BY DEF MainMove, Moves, DelLabels
<1>2. \A t \in Threads : t \in Midway \union Midway' => pc'[t] = pc[t]
  BY <1>1 DEF Midway, DelLabels
<1>3. ASSUME NEW d \in Clients, NEW t \in Threads, Removing(t, d)', ~Removing(t, d),
             "raced" \notin windows'
      PROVE  /\ sock[d] = "open" /\ pc'[t] = "swap"
             /\ \A u \in Threads : ~Removing(u, d) /\ (u # t => ~Removing(u, d)')
  <2>1. t = Main /\ d = head
    BY <1>1, <1>3 DEF Removing, Remover
  <2>2. \A u \in Threads : ~Removing(u, d)
    BY <1>1, <1>3, <2>1 DEF Removing, Remover, Opened, DelLabels, Moves
  <2>3. QED
    BY <1>1, <1>3, <2>1, <2>2 DEF Removing, Remover, Moves
<1>4. QED
  BY <1>0, <1>1, <1>2, <1>3 DEF Plain, Unset

LEMMA QuietPlain ==
  ASSUME UNCHANGED <<pc, ctl, shared, list, windows>>,
         \A c \in Clients : peer'[c] \in {"none", "calls"} => peer[c] \in {"none", "calls"}
  PROVE  Plain
BY DEF Plain, ctl, shared, Unset, Removing, Remover, Midway

-----------------------------------------------------------------------------
(* Steps that change the list *)

\* Taking out a client that is there.
LEMMA Taken ==
  ASSUME members \in Seq(Clients), NEW c \in Clients, c \in Listed
  PROVE  \E p \in 1..Len(members) :
           /\ members[p] = c
           /\ Without(c) \in Seq(Clients)
           /\ Len(Without(c)) = Len(members) - 1
           /\ \A i \in 1..Len(members) - 1 :
                Without(c)[i] = members[IF i < p THEN i ELSE i + 1]
<1> DEFINE p == CHOOSE i \in 1..Len(members) : members[i] = c
           w == [i \in 1..Len(members) - 1 |-> members[IF i < p THEN i ELSE i + 1]]
<1>1. p \in 1..Len(members) /\ members[p] = c
  BY DEF Listed
<1>2. Without(c) = w
  BY DEF Without, Listed
<1> HIDE DEF p
<1>3. Len(members) \in Nat /\ Len(members) - 1 \in Nat
  BY <1>1
<1>4. \A i \in 1..Len(members) - 1 : w[i] = members[IF i < p THEN i ELSE i + 1] /\ w[i] \in Clients
  BY <1>1, <1>3
<1>5. w \in Seq(Clients) /\ Len(w) = Len(members) - 1
  <2>1. w \in [1..Len(members) - 1 -> Clients]
    BY <1>4
  <2>2. QED
    BY <1>3, <2>1
<1>6. QED
  BY <1>1, <1>2, <1>4, <1>5

\* Then it is no longer there, and the others are.
LEMMA TakenSet ==
  ASSUME members \in Seq(Clients), NEW c \in Clients, c \in Listed, Distinct,
         members' = Without(c)
  PROVE  Distinct' /\ Listed' = Listed \ {c}
<1>1. PICK p \in 1..Len(members) :
        /\ members[p] = c
        /\ members' \in Seq(Clients)
        /\ Len(members') = Len(members) - 1
        /\ \A i \in 1..Len(members) - 1 : members'[i] = members[IF i < p THEN i ELSE i + 1]
  BY Taken
<1>0. Len(members) \in Nat \ {0}
  BY <1>1
<1>2. Distinct'
  <2> SUFFICES ASSUME NEW i \in 1..Len(members) - 1, NEW j \in 1..Len(members) - 1,
                      members'[i] = members'[j]
               PROVE  i = j
    BY <1>1 DEF Distinct
  <2>1. PICK k \in 1..Len(members), m \in 1..Len(members) :
          k = (IF i < p THEN i ELSE i + 1) /\ m = (IF j < p THEN j ELSE j + 1)
    BY <1>0
  <2>2. members'[i] = members[k] /\ members'[j] = members[m]
    BY <1>1, <2>1
  <2>3. k = m
    BY <2>2 DEF Distinct
  <2>4. QED
    BY <2>1, <2>3
<1>3. ASSUME NEW i \in 1..Len(members) - 1  PROVE members'[i] \in Listed \ {c}
  <2>1. PICK k \in 1..Len(members) : k # p /\ k = (IF i < p THEN i ELSE i + 1)
    BY <1>0
  <2>3. members'[i] = members[k]
    BY <1>1, <2>1
  <2>2. QED
    BY <1>1, <2>1, <2>3 DEF Distinct, Listed
<1>4. ASSUME NEW k \in 1..Len(members), members[k] # c
      PROVE  \E i \in 1..Len(members) - 1 : members'[i] = members[k]
  <2>1. CASE k < p
    <3>1. k \in 1..Len(members) - 1 /\ members'[k] = members[k]
      BY <1>0, <1>1, <2>1
    <3>2. QED
      BY <3>1
  <2>2. CASE k > p
    <3>1. k - 1 \in 1..Len(members) - 1 /\ members'[k - 1] = members[k]
      BY <1>0, <1>1, <2>2
    <3>2. QED
      BY <3>1
  <2>3. QED
    BY <1>1, <1>4, <2>1, <2>2
<1>5. Listed' = {members'[i] : i \in 1..Len(members) - 1}
  BY <1>1 DEF Listed
<1>6. Listed \ {c} \subseteq Listed'
  <2> SUFFICES ASSUME NEW k \in 1..Len(members), members[k] # c
               PROVE  members[k] \in Listed'
    BY DEF Listed
  <2>1. QED
    BY <1>4, <1>5
<1>7. Listed' \subseteq Listed \ {c}
  BY <1>3, <1>5
<1>8. QED
  BY <1>2, <1>6, <1>7

\* Another thread that is changing the list is noticed.
LEMMA Alone ==
  ASSUME NEW t \in Threads, Crossing(t), "crossed" \notin windows'
  PROVE  Midway \subseteq {t}
BY DEF Crossing, Enter, Midway

LEMMA UnlinkNextMembership ==
  ASSUME Inv, Inv', Membership, members \in Seq(Clients), NEW c \in Clients, NEW t, Remover(t, c),
         UnlinkNext(c, t)
  PROVE  Membership'
<1> USE ThreadFacts DEF Inv, Membership, At
<1>0. /\ pc[t] = "unlink1" /\ t \in Threads /\ t # Acceptor /\ Removing(t, c)
      /\ UNCHANGED <<ctl, sock, cond, peer>> /\ windows \subseteq windows' /\ members' = Without(c)
      /\ sock[c] = "null" /\ ~Unset(c)
  BY DEF UnlinkNext, Crossing, Enter, shared, net, Removing, Remover, DelLabels, Opened, MainRemoves
<1>1. pc'[t] = "unlink2" /\ \A u \in Threads \ {t} : pc'[u] = pc[u]
  BY <1>0, GoFacts, LabelFacts DEF UnlinkNext, DelLabels, Typed
<1>2. Distinct' /\ Listed' = Listed \ {c}
  <2>1. CASE c \in Listed
    BY <1>0, <2>1, TakenSet
  <2>2. CASE c \notin Listed
    <3>1. members' = members
      BY <1>0, <2>2 DEF Without, Listed
    <3>2. QED
      BY <2>2, <3>1 DEF Distinct, Listed
  <2>3. QED
    BY <2>1, <2>2
<1>3. ASSUME NEW d \in Clients  PROVE Comes(d)'
  BY <1>0, <1>1, <1>2 DEF Comes, ctl, Adding, AddLabels, Unset
<1>4. ASSUME "raced" \notin windows', NEW d \in Clients  PROVE Leaves(d)'
  <2>1. Leaves(d) /\ Leaves(c)
    BY <1>0, <1>4
  <2>2. \A u \in Threads : Removing(u, d)' <=> Removing(u, d)
    BY <1>0, <1>1 DEF Removing, Remover, ctl, DelLabels
  <2>3. CASE d = c
    BY <1>0, <1>1, <1>2, <2>1, <2>2, <2>3 DEF Leaves
  <2>4. CASE d # c
    <3>1. ~Removing(t, d)
      BY <1>0, <2>4 DEF Removing, Remover
    <3>2. QED
      BY <1>0, <1>1, <1>2, <2>1, <2>2, <2>4, <3>1 DEF Leaves
  <2>5. QED
    BY <2>3, <2>4
<1>5. QED
  BY <1>2, <1>3, <1>4

\* The first half: read from the tail the client is gone.
LEMMA UnlinkNextChain ==
  ASSUME Inv, Membership, Calm => Chain, members \in Seq(Clients),
         NEW c \in Clients, NEW t, Remover(t, c), UnlinkNext(c, t)
  PROVE  Calm' => Chain'
<1> SUFFICES ASSUME Calm'  PROVE Chain'
  OBVIOUS
<1> USE ThreadFacts DEF At
<1>0. /\ pc[t] = "unlink1" /\ t \in Threads /\ t # Acceptor /\ Removing(t, c)
      /\ UNCHANGED <<ctl, head, nxt>> /\ members' = Without(c)
      /\ Typed /\ "raced" \notin windows' /\ "crossed" \notin windows'
      /\ windows \subseteq windows'
      /\ \A d \in Clients : d # Nil
  <2>1. pc[t] = "unlink1" /\ t \in Threads /\ t # Acceptor /\ Removing(t, c)
    BY DEF UnlinkNext, Removing, Remover, DelLabels
  <2>2. UNCHANGED <<ctl, head, nxt>> /\ members' = Without(c) /\ windows \subseteq windows'
    BY DEF UnlinkNext, Crossing, Enter
  <2>3. Typed /\ "raced" \notin windows' /\ "crossed" \notin windows'
    BY DEF Inv, Calm
  <2>4. QED
    BY <2>1, <2>2, <2>3, ServerAssumption
<1>1. pc'[t] = "unlink2" /\ \A u \in Threads \ {t} : pc'[u] = pc[u]
  BY <1>0, GoFacts, LabelFacts DEF UnlinkNext, DelLabels, Typed
<1>2. Chain /\ c \in Listed /\ Distinct
  BY <1>0 DEF Calm, Membership, Leaves
<1>3. Midway = {} /\ Midway' = {t}
  <2>1. Midway \subseteq {t}
    BY <1>0, Alone DEF UnlinkNext
  <2>2. QED
    BY <1>0, <1>1, <2>1 DEF Midway
<1>4. PICK p \in 1..Len(members) :
        /\ members[p] = c
        /\ members' \in Seq(Clients)
        /\ Len(members') = Len(members) - 1
        /\ \A i \in 1..Len(members) - 1 : members'[i] = members[IF i < p THEN i ELSE i + 1]
  <2>1. c \in Listed
    BY <1>2
  <2>2. members' = Without(c)
    BY <1>0
  <2>3. QED
    BY <2>1, <2>2, Taken
<1> DEFINE n == Len(members)
<1>5. n \in Nat \ {0} /\ p \in 1..n /\ \A i \in 1..n : members[i] \in Clients
  BY <1>4
<1>q. /\ \A i \in 1..n - 1 : i < p => members'[i] = members[i]
      /\ \A i \in 1..n - 1 : ~(i < p) => members'[i] = members[i + 1]
  BY <1>4
<1>d. \A i, j \in 1..n : members[i] = members[j] => i = j
  BY <1>2 DEF Distinct
<1>b. /\ \A j \in 1..n : prv[members[j]] = IF j = 1 THEN Nil ELSE members[j - 1]
      /\ tail = members[n]
  BY <1>2, <1>5 DEF Chain, Backward
<1>c. /\ \A j \in 1..n : nxt[members[j]] = IF j = n THEN Nil ELSE members[j + 1]
      /\ head = members[1]
  BY <1>2, <1>3, <1>5 DEF Chain, Forward
<1>l. members[p] = c /\ Len(members') = n - 1
  BY <1>4
<1> HIDE DEF n
<1>6. /\ prv[c] = IF p = 1 THEN Nil ELSE members[p - 1]
      /\ nxt[c] = IF p = n THEN Nil ELSE members[p + 1]
  BY <1>5, <1>b, <1>c, <1>l
<1>7. /\ p = n => tail' = prv[c] /\ prv' = prv
      /\ p # n => /\ tail' = tail /\ prv'[members[p + 1]] = prv[c]
                  /\ \A d \in Clients : d # members[p + 1] => prv'[d] = prv[d]
  <2>1. CASE p = n
    BY <1>6, <2>1 DEF UnlinkNext
  <2>2. CASE p # n
    <3>1. members[p + 1] \in Clients /\ nxt[c] = members[p + 1] /\ prv \in [Clients -> Clients \union {Nil}]
      BY <1>0, <1>5, <1>6, <2>2 DEF Typed
    <3>2. prv' = [prv EXCEPT ![members[p + 1]] = prv[c]] /\ tail' = tail
      BY <1>0, <3>1 DEF UnlinkNext
    <3>3. QED
      BY <2>2, <3>1, <3>2
  <2>3. QED
    BY <2>1, <2>2
<1>8. Backward(members)'
  <2> SUFFICES ASSUME NEW i \in 1..n
               PROVE  (IF i = n THEN tail' ELSE prv'[members'[i]]) = IF i = 1 THEN Nil ELSE members'[i - 1]
    BY <1>5, <1>l DEF Backward
  <2>2. CASE i = n
    <3>1. CASE p = n
      <4>1. n # 1 => members'[n - 1] = members[n - 1]
        BY <1>5, <1>q, <3>1
      <4>2. QED
        BY <1>5, <1>6, <1>7, <2>2, <3>1, <4>1
    <3>2. CASE p # n
      <4>1. n # 1 /\ n - 1 \in 1..n - 1 /\ ~(n - 1 < p)
        BY <1>5, <3>2
      <4>2. members'[n - 1] = members[n]
        BY <1>5, <1>q, <4>1
      <4>3. QED
        BY <1>7, <1>b, <2>2, <3>2, <4>1, <4>2
    <3>3. QED
      BY <3>1, <3>2
  <2>3. CASE i # n /\ i < p
    <3>1. members'[i] = members[i] /\ (i # 1 => members'[i - 1] = members[i - 1])
      BY <1>5, <1>q, <2>3
    <3>2. p # n => members[i] # members[p + 1]
      <4>1. p # n => p + 1 \in 1..n /\ i # p + 1
        BY <1>5, <2>3
      <4>2. QED
        BY <1>d, <4>1
    <3>3. prv'[members[i]] = prv[members[i]]
      BY <1>5, <1>7, <3>2
    <3>4. QED
      BY <1>5, <1>b, <2>3, <3>1, <3>3
  <2>4. CASE i # n /\ i = p
    <3>1. members'[i] = members[p + 1] /\ (i # 1 => members'[i - 1] = members[p - 1])
      BY <1>5, <1>q, <2>4
    <3>2. QED
      BY <1>6, <1>7, <2>4, <3>1
  <2>5. CASE i # n /\ i > p
    <3>1. i + 1 \in 1..n /\ p + 1 \in 1..n /\ i + 1 # p + 1 /\ i + 1 # 1 /\ i # 1 /\ p # n
      BY <1>5, <2>5
    <3>2. members'[i] = members[i + 1] /\ members'[i - 1] = members[i]
      BY <1>5, <1>q, <2>5
    <3>3. members[i + 1] # members[p + 1]
      BY <1>d, <3>1
    <3>4. prv'[members[i + 1]] = prv[members[i + 1]]
      BY <1>5, <1>7, <3>1, <3>3
    <3>5. prv[members[i + 1]] = members[i]
      BY <1>5, <1>b, <3>1
    <3>6. QED
      BY <2>5, <3>1, <3>2, <3>4, <3>5
  <2>6. QED
    BY <1>5, <2>2, <2>3, <2>4, <2>5
<1>9. Bridged(c)'
  <2>1. p # n => members[p + 1] # c
    BY <1>5, <1>d, <1>l
  <2>2. prv'[c] = prv[c] /\ nxt'[c] = nxt[c] /\ head' = head /\ nxt' = nxt
    BY <1>0, <1>7, <2>1
  <2>3. /\ prv[c] = IF p - 1 = 0 THEN Nil ELSE members'[p - 1]
        /\ nxt[c] = IF p - 1 = n - 1 THEN Nil ELSE members'[p]
    BY <1>5, <1>6, <1>q
  <2>4. ASSUME NEW i \in 0..n - 1
        PROVE  (IF i = 0 THEN head ELSE nxt[members'[i]]) =
                 IF i = p - 1 THEN c ELSE IF i = n - 1 THEN Nil ELSE members'[i + 1]
    <3>1. CASE i < p - 1
      <4>1. /\ i # 0 => i \in 1..n - 1 /\ i \in 1..n /\ i < p
            /\ i # n /\ i # n - 1 /\ i # p - 1 /\ i + 1 \in 1..n - 1 /\ i + 1 < p
        BY <1>5, <3>1
      <4>2. (i # 0 => members'[i] = members[i]) /\ members'[i + 1] = members[i + 1]
        BY <1>q, <4>1
      <4>3. i # 0 => nxt[members[i]] = members[i + 1]
        BY <1>c, <4>1
      <4>4. i = 0 => head = members[i + 1]
        BY <1>c
      <4>5. QED
        BY <4>1, <4>2, <4>3, <4>4
    <3>2. CASE i = p - 1
      <4>1. /\ i # 0 => i \in 1..n - 1 /\ i \in 1..n /\ i < p /\ i # n
            /\ i + 1 = p
        BY <1>5, <3>2
      <4>2. i # 0 => members'[i] = members[i] /\ nxt[members[i]] = members[i + 1]
        BY <1>c, <1>q, <4>1
      <4>3. i = 0 => head = members[i + 1]
        BY <1>c
      <4>4. QED
        BY <1>l, <3>2, <4>1, <4>2, <4>3
    <3>3. CASE i > p - 1
      <4>1. /\ i # 0 /\ i \in 1..n - 1 /\ ~(i < p) /\ i + 1 \in 1..n /\ i # p - 1
            /\ i # n - 1 => i + 1 \in 1..n - 1 /\ ~(i + 1 < p)
            /\ i = n - 1 <=> i + 1 = n
        BY <1>5, <3>3
      <4>2. members'[i] = members[i + 1]
        BY <1>q, <4>1
      <4>3. i # n - 1 => members'[i + 1] = members[i + 1 + 1]
        BY <1>q, <4>1
      <4>4. nxt[members[i + 1]] = IF i + 1 = n THEN Nil ELSE members[i + 1 + 1]
        BY <1>c, <4>1
      <4>5. QED
        BY <4>1, <4>2, <4>3, <4>4
    <3>4. QED
      BY <1>5, <3>1, <3>2, <3>3
  <2>5. p - 1 \in 0..n - 1 /\ p - 1 + 1 = p
    BY <1>5
  <2>6. QED
    BY <1>l, <2>2, <2>3, <2>4, <2>5 DEF Bridged
<1>10. ASSUME NEW d \in Clients, NEW u \in Threads, Removing(u, d)', pc'[u] = "unlink2"
       PROVE  Bridged(d)'
  <2>1. u = t
    BY <1>3, <1>10 DEF Midway
  <2>2. d = c
    BY <1>0, <1>10, <2>1 DEF Removing, Remover, ctl
  <2>3. QED
    BY <1>9, <2>2
<1>11. pc'[Acceptor] # "link2"
  BY <1>0, <1>1, <1>3 DEF Midway
<1>12. QED
  BY <1>3, <1>8, <1>10, <1>11 DEF Chain

LEMMA UnlinkPrevMembership ==
  ASSUME Inv, Membership, NEW c \in Clients, NEW t, Remover(t, c), UnlinkPrev(c, t)
  PROVE  Membership'
<1> USE ThreadFacts DEF Inv, Membership, At
<1>0. /\ pc[t] = "unlink2" /\ t \in Threads /\ t # Acceptor
      /\ UNCHANGED <<ctl, sock, cond, peer, members>> /\ windows \subseteq windows'
  BY DEF UnlinkPrev, Crossing, Enter, shared, net, Remover
<1>1. pc'[t] \in {"pick", "end"} /\ \A u \in Threads \ {t} : pc'[u] = pc[u]
  BY <1>0, GoFacts, LabelFacts DEF UnlinkPrev, RecvLabels, Typed
<1>2. Distinct' /\ Listed' = Listed
  BY <1>0 DEF Distinct, Listed
<1>3. ASSUME NEW d \in Clients  PROVE Comes(d)'
  BY <1>0, <1>1, <1>2 DEF Comes, ctl, Unset
<1>4. ASSUME "raced" \notin windows', NEW d \in Clients  PROVE Leaves(d)'
  <2>1. Leaves(d)
    BY <1>0, <1>4
  <2>2. \A u \in Threads : Removing(u, d)' => Removing(u, d) /\ pc'[u] = pc[u]
    BY <1>0, <1>1 DEF Removing, Remover, ctl, DelLabels
  <2>3. QED
    BY <1>2, <2>1, <2>2 DEF Leaves
<1>5. QED
  BY <1>2, <1>3, <1>4

\* The second half: read from the head it is gone as well.
LEMMA UnlinkPrevChain ==
  ASSUME Inv, Membership, Calm => Chain, members \in Seq(Clients),
         NEW c \in Clients, NEW t, Remover(t, c), UnlinkPrev(c, t)
  PROVE  Calm' => Chain'
<1> SUFFICES ASSUME Calm'  PROVE Chain'
  OBVIOUS
<1> USE ThreadFacts DEF At
<1>0. /\ pc[t] = "unlink2" /\ t \in Threads /\ Removing(t, c)
      /\ UNCHANGED <<ctl, tail, prv, members>>
      /\ Typed /\ windows \subseteq windows'
      /\ \A d \in Clients : d # Nil
  BY ServerAssumption DEF UnlinkPrev, Crossing, Enter, Removing, Remover, DelLabels, Inv, Calm
<1>1. pc'[t] \in {"pick", "end"} /\ \A u \in Threads \ {t} : pc'[u] = pc[u]
  BY <1>0, GoFacts, LabelFacts DEF UnlinkPrev, RecvLabels, Typed
<1>2. Chain /\ Distinct
  BY <1>0 DEF Calm, Membership
<1>3. Midway = {t} /\ Midway' = {}
  BY <1>0, <1>1, <1>2 DEF Chain, Midway
<1>4. PICK p \in 0..Len(members) :
        /\ prv[c] = IF p = 0 THEN Nil ELSE members[p]
        /\ nxt[c] = IF p = Len(members) THEN Nil ELSE members[p + 1]
        /\ \A i \in 0..Len(members) :
             (IF i = 0 THEN head ELSE nxt[members[i]]) =
               IF i = p THEN c ELSE IF i = Len(members) THEN Nil ELSE members[i + 1]
  BY <1>0, <1>2 DEF Chain, Bridged
<1>5. Len(members) \in Nat /\ \A i \in 1..Len(members) : members[i] \in Clients
  OBVIOUS
<1>6. /\ p = 0 => head' = nxt[c] /\ nxt' = nxt
      /\ p # 0 => /\ head' = head /\ nxt'[members[p]] = nxt[c]
                  /\ \A d \in Clients : d # members[p] => nxt'[d] = nxt[d]
  <2>1. CASE p = 0
    BY <1>4, <2>1 DEF UnlinkPrev
  <2>2. CASE p # 0
    <3>1. members[p] \in Clients /\ prv[c] = members[p] /\ nxt \in [Clients -> Clients \union {Nil}]
      BY <1>0, <1>4, <1>5, <2>2 DEF Typed
    <3>2. nxt' = [nxt EXCEPT ![members[p]] = nxt[c]] /\ head' = head
      BY <1>0, <3>1 DEF UnlinkPrev
    <3>3. QED
      BY <2>2, <3>1, <3>2
  <2>3. QED
    BY <2>1, <2>2
<1>7. Forward(members, Nil)'
  <2> SUFFICES ASSUME NEW i \in 0..Len(members)
               PROVE  (IF i = 0 THEN head' ELSE nxt'[members[i]]) =
                        IF i = Len(members) THEN Nil ELSE members[i + 1]
    BY <1>0 DEF Forward
  <2>1. CASE i = p
    BY <1>4, <1>5, <1>6, <2>1
  <2>2. CASE i # p
    <3>1. i # 0 /\ p # 0 => members[i] # members[p]
      BY <1>2, <1>5, <2>2 DEF Distinct
    <3>2. (IF i = 0 THEN head' ELSE nxt'[members[i]]) = (IF i = 0 THEN head ELSE nxt[members[i]])
      BY <1>5, <1>6, <2>2, <3>1
    <3>3. QED
      BY <1>4, <2>2, <3>2
  <2>3. QED
    BY <2>1, <2>2
<1>8. Backward(members)'
  BY <1>0, <1>2 DEF Chain, Backward
<1>9. QED
  BY <1>3, <1>7, <1>8, ThreadFacts DEF Chain, Midway

LEMMA LinkLastMembership ==
  ASSUME Inv, Membership, LinkLast
  PROVE  Membership'
<1> USE ThreadFacts DEF Inv, Membership, At
<1>0. /\ pc[Acceptor] = "link1" /\ newcomer \in Clients /\ newcomer \notin Listed
      /\ UNCHANGED <<victim, newcomer, cond, members, peer>> /\ windows \subseteq windows'
  BY DEF LinkLast, Crossing, Enter, Adding, AddLabels, Comes, ctl, net
<1>1. /\ pc'[Acceptor] = "link2" /\ \A u \in Threads \ {Acceptor} : pc'[u] = pc[u]
      /\ sock'[newcomer] = "junk" /\ \A d \in Clients \ {newcomer} : sock'[d] = sock[d]
  BY <1>0, GoFacts, LabelFacts DEF LinkLast, AddLabels, Typed
<1>2. Distinct' /\ Listed' = Listed
  BY <1>0 DEF Distinct, Listed
<1>3. ASSUME NEW d \in Clients  PROVE Comes(d)'
  BY <1>0, <1>1, <1>2 DEF Comes, Unset
<1>4. ASSUME "raced" \notin windows', NEW d \in Clients  PROVE Leaves(d)'
  <2>1. \A u \in Threads : Removing(u, d)' => Removing(u, d) /\ pc'[u] = pc[u]
    BY <1>0, <1>1 DEF Removing, Remover, DelLabels
  <2>2. QED
    BY <1>0, <1>2, <1>4, <2>1 DEF Leaves
<1>5. QED
  BY <1>2, <1>3, <1>4

LEMMA LinkLastChain ==
  ASSUME Inv, Membership, Calm => Chain, members \in Seq(Clients), LinkLast
  PROVE  Calm' => Chain'
<1> SUFFICES ASSUME Calm'  PROVE Chain'
  OBVIOUS
<1> USE ThreadFacts DEF At
<1>0. /\ pc[Acceptor] = "link1" /\ UNCHANGED <<newcomer, tail, prv, members>>
      /\ Typed /\ windows \subseteq windows' /\ "crossed" \notin windows'
      /\ \A d \in Clients : d # Nil
  BY ServerAssumption DEF LinkLast, Crossing, Enter, Inv, Calm, ctl
<1>1. pc'[Acceptor] = "link2" /\ \A u \in Threads \ {Acceptor} : pc'[u] = pc[u]
  BY <1>0, GoFacts, LabelFacts DEF LinkLast, AddLabels, Typed
<1>2. Chain /\ Distinct
  BY <1>0 DEF Calm, Membership
<1>3. Midway = {} /\ Midway' = {Acceptor}
  <2>1. Midway \subseteq {Acceptor}
    BY <1>0, Alone DEF LinkLast
  <2>2. QED
    BY <1>0, <1>1, <2>1 DEF Midway
<1> DEFINE n == Len(members)
<1>4. n \in Nat /\ \A i \in 1..n : members[i] \in Clients
  OBVIOUS
<1>5. tail = IF n = 0 THEN Nil ELSE members[n]
  BY <1>2, <1>4 DEF Chain, Backward
<1>6. \A i \in 0..n :
        (IF i = 0 THEN head ELSE nxt[members[i]]) = IF i = n THEN Nil ELSE members[i + 1]
  BY <1>2, <1>3 DEF Chain, Forward
<1>7. Forward(members, newcomer)'
  <2> SUFFICES ASSUME NEW i \in 0..n
               PROVE  (IF i = 0 THEN head' ELSE nxt'[members[i]]) = IF i = n THEN newcomer ELSE members[i + 1]
    BY <1>0 DEF Forward
  <2>1. CASE n = 0
    BY <1>5, <2>1 DEF LinkLast
  <2>2. CASE n # 0
    <3>1. members[n] \in Clients /\ tail = members[n] /\ nxt \in [Clients -> Clients \union {Nil}]
      BY <1>0, <1>4, <1>5, <2>2 DEF Typed
    <3>2. nxt' = [nxt EXCEPT ![members[n]] = newcomer] /\ head' = head
      BY <1>0, <3>1 DEF LinkLast
    <3>3. i # 0 /\ i # n => members[i] # members[n] /\ members[i] \in Clients
      BY <1>2, <1>4, <2>2 DEF Distinct
    <3>4. QED
      BY <1>6, <2>2, <3>1, <3>2, <3>3
  <2>3. QED
    BY <2>1, <2>2
<1>8. Backward(members)'
  BY <1>0, <1>2 DEF Chain, Backward
<1>9. \A t \in Threads : pc'[t] # "unlink2"
  BY <1>1, <1>3 DEF Midway
<1>10. QED
  BY <1>3, <1>7, <1>8, <1>9 DEF Chain

LEMMA LinkBackMembership ==
  ASSUME Inv, Membership, members \in Seq(Clients), LinkBack
  PROVE  Membership'
<1> USE ThreadFacts DEF Inv, Membership, At
<1>0. /\ pc[Acceptor] = "link2" /\ newcomer \in Clients /\ Unset(newcomer)
      /\ UNCHANGED <<ctl, sock, cond, peer>> /\ windows \subseteq windows'
      /\ members' = Append(members, newcomer) /\ newcomer \notin Listed
      /\ peer[newcomer] \notin {"none", "calls"}
  BY DEF LinkBack, Crossing, Enter, Adding, AddLabels, Comes, shared, net
<1>1. pc'[Acceptor] = "fill" /\ \A u \in Threads \ {Acceptor} : pc'[u] = pc[u]
  BY <1>0, GoFacts, LabelFacts DEF LinkBack, AddLabels, Typed
<1>2. /\ Len(members) \in Nat /\ Len(members') = Len(members) + 1
      /\ members'[Len(members) + 1] = newcomer
      /\ \A i \in 1..Len(members) : members'[i] = members[i]
  BY <1>0
<1>3. Listed' = Listed \union {newcomer}
  BY <1>2 DEF Listed
<1>4. Distinct'
  <2> SUFFICES ASSUME NEW i \in 1..Len(members) + 1, NEW j \in 1..Len(members) + 1,
                      members'[i] = members'[j]
               PROVE  i = j
    BY <1>2 DEF Distinct
  <2>1. CASE i \in 1..Len(members) /\ j \in 1..Len(members)
    BY <1>2, <2>1 DEF Distinct
  <2>2. CASE i = Len(members) + 1 /\ j \in 1..Len(members)
    BY <1>0, <1>2, <2>2 DEF Listed
  <2>3. CASE j = Len(members) + 1 /\ i \in 1..Len(members)
    BY <1>0, <1>2, <2>3 DEF Listed
  <2>4. QED
    BY <1>2, <2>1, <2>2, <2>3
<1>5. ASSUME NEW d \in Clients  PROVE Comes(d)'
  BY <1>0, <1>1, <1>3 DEF Comes, ctl, Unset
<1>6. ASSUME "raced" \notin windows', NEW d \in Clients  PROVE Leaves(d)'
  <2>1. \A u \in Threads : Removing(u, d)' => Removing(u, d) /\ pc'[u] = pc[u] /\ d # newcomer
    BY <1>0, <1>1 DEF Removing, Remover, ctl, DelLabels, Opened, MainRemoves
  <2>2. QED
    BY <1>0, <1>3, <1>6, <2>1 DEF Leaves
<1>7. QED
  BY <1>4, <1>5, <1>6

LEMMA LinkBackChain ==
  ASSUME Inv, Membership, Calm => Chain, members \in Seq(Clients), LinkBack
  PROVE  Calm' => Chain'
<1> SUFFICES ASSUME Calm'  PROVE Chain'
  OBVIOUS
<1> USE ThreadFacts DEF At
<1>0. /\ pc[Acceptor] = "link2" /\ newcomer \in Clients /\ UNCHANGED <<ctl, head>>
      /\ Typed /\ windows \subseteq windows' /\ newcomer \notin Listed
      /\ members' = Append(members, newcomer) /\ tail' = newcomer
  BY DEF LinkBack, Crossing, Enter, Inv, Adding, AddLabels, Membership, Comes
<1>1. pc'[Acceptor] = "fill" /\ \A u \in Threads \ {Acceptor} : pc'[u] = pc[u]
  BY <1>0, GoFacts, LabelFacts DEF LinkBack, AddLabels, Typed
<1>2. Chain
  BY <1>0 DEF Calm
<1>3. Midway = {Acceptor} /\ Midway' = {}
  BY <1>0, <1>1, <1>2 DEF Chain, Midway
<1> DEFINE n == Len(members)
<1>4. /\ n \in Nat /\ Len(members') = n + 1 /\ members'[n + 1] = newcomer
      /\ \A i \in 1..n : /\ members'[i] = members[i] /\ members[i] \in Clients
                         /\ members[i] # newcomer
  BY <1>0 DEF Listed
<1>5. /\ \A d \in Clients : d # newcomer => prv'[d] = prv[d] /\ nxt'[d] = nxt[d]
      /\ prv'[newcomer] = tail /\ nxt'[newcomer] = Nil
  BY <1>0 DEF LinkBack, Typed
<1> HIDE DEF n
<1>6. \A i \in 0..n :
        (IF i = 0 THEN head ELSE nxt[members[i]]) = IF i = n THEN newcomer ELSE members[i + 1]
  BY <1>0, <1>2 DEF Chain, Forward, n
<1>7. \A i \in 1..n + 1 :
        (IF i = n + 1 THEN tail ELSE prv[members[i]]) = IF i = 1 THEN Nil ELSE members[i - 1]
  BY <1>2 DEF Chain, Backward, n
<1>8. Forward(members, Nil)'
  <2> SUFFICES ASSUME NEW i \in 0..n + 1
               PROVE  (IF i = 0 THEN head ELSE nxt'[members'[i]]) =
                        IF i = n + 1 THEN Nil ELSE members'[i + 1]
    <3>1. head' = head
      BY <1>0
    <3>2. QED
      BY <1>4, <3>1 DEF Forward
  <2>1. CASE i = n + 1
    BY <1>4, <1>5, <2>1
  <2>2. CASE i # n + 1
    <3>1. /\ i \in 0..n /\ i # n + 1 /\ (i # 0 => i \in 1..n)
          /\ i # n => i + 1 \in 1..n
      BY <1>4, <2>2
    <3>2. (IF i = 0 THEN head ELSE nxt'[members'[i]]) = (IF i = 0 THEN head ELSE nxt[members[i]])
      BY <1>4, <1>5, <3>1
    <3>3. members'[i + 1] = IF i = n THEN newcomer ELSE members[i + 1]
      BY <1>4, <3>1
    <3>4. QED
      BY <1>6, <2>2, <3>1, <3>2, <3>3
  <2>3. QED
    BY <2>1, <2>2
<1>9. Backward(members)'
  <2> SUFFICES ASSUME NEW i \in 1..n + 2
               PROVE  (IF i = n + 2 THEN newcomer ELSE prv'[members'[i]]) =
                        IF i = 1 THEN Nil ELSE members'[i - 1]
    BY <1>0, <1>4 DEF Backward
  <2>1. CASE i = n + 2
    BY <1>4, <2>1
  <2>2. CASE i # n + 2
    <3>1. /\ i \in 1..n + 1 /\ (i # n + 1 => i \in 1..n)
          /\ i # 1 => i - 1 \in 1..n
      BY <1>4, <2>2
    <3>2. prv'[members'[i]] = IF i = n + 1 THEN tail ELSE prv[members[i]]
      BY <1>4, <1>5, <3>1
    <3>3. i # 1 => members'[i - 1] = members[i - 1]
      BY <1>4, <3>1
    <3>4. QED
      BY <1>7, <2>2, <3>1, <3>2, <3>3
  <2>3. QED
    BY <2>1, <2>2
<1>10. QED
  BY <1>3, <1>8, <1>9, ThreadFacts DEF Chain, Midway

-----------------------------------------------------------------------------
(* All of Next *)

LEMMA RestInv ==
  ASSUME Inv, Rest, Distinct, [Next]_vars
  PROVE  Rest'
<1> USE ThreadFacts
<1> DEFINE Data == /\ UNCHANGED <<members, plan, left, wire>>
                   /\ running' \in {running, FALSE}
           Met == windows' \subseteq {"lost", "raced", "early", "crossed"}
           Wrong == misused' \subseteq {"signal", "sent", "wait", "destroy"}
<1>0. /\ Data /\ Met /\ Wrong => Rest'
      /\ windows' = windows => Met
      /\ misused' = misused => Wrong
  BY DEF Rest
<1>1. \A w : Enter(w) /\ w \subseteq {"lost", "raced", "early", "crossed"} => Met
  BY DEF Enter, Rest
<1>2. \A how, c, which :
        Use(how, c, which) /\ how \in {"signal", "sent", "wait", "destroy"} => Wrong
  BY DEF Use, Rest
<1>3. \A t, l, which, u : Signal(t, l, which, u) => Met /\ Wrong
  BY <1>1, <1>2 DEF Signal
<1>4. \A t : Crossing(t) => Met
  BY <1>1 DEF Crossing
<1>5. \A b : Early(b) => Met
  BY <1>1 DEF Early
<1>r. /\ members \in Seq(Clients) /\ wire \in [Clients -> Nat] /\ left \in [Clients -> Int]
      /\ running \in BOOLEAN /\ plan \in Plans
  BY DEF Rest
<1>s. /\ members' \in Seq(Clients) /\ wire' \in [Clients -> Nat] /\ left' \in [Clients -> Int]
      /\ running' = running /\ plan' = plan /\ Met /\ Wrong
      => Rest'
  BY <1>r DEF Rest
<1> HIDE DEF Met, Wrong
<1>6. ASSUME NEW c \in Clients, Receive(c)  PROVE Rest'
  <2>1. CASE RecvData(c)
    <3>1. PICK n \in 1..wire[c] : wire' = [wire EXCEPT ![c] = @ - n]
      BY <2>1 DEF RecvData
    <3>2. wire[c] \in Nat /\ wire' \in [Clients -> Nat]
      BY <1>r, <3>1
    <3>3. UNCHANGED <<members, plan, left, running, windows, misused>>
      BY <2>1 DEF RecvData, ctl, list
    <3>4. QED
      BY <1>0, <1>r, <1>s, <3>2, <3>3
  <2>2. CASE RecvTest(c) \/ PutAnswer(c) \/ RecvExit(c)
    <3>1. UNCHANGED <<members, plan, left, wire, running, windows, misused>>
      BY <2>2 DEF RecvTest, PutAnswer, RecvExit, Only, ctl, list, net
    <3>2. QED
      BY <1>0, <3>1
  <2>3. CASE SignalData(c)
    BY <1>0, <1>3, <2>3 DEF SignalData, ctl, list, net
  <2>4. CASE Wait(c, R(c), "recv")
    BY <1>0, <1>2, <2>4 DEF Wait, ctl, list, net
  <2>5. QED
    BY <1>6, <2>1, <2>2, <2>3, <2>4 DEF Receive
<1>7. ASSUME NEW c \in Clients, SendLoop(c)  PROVE Rest'
  <2>1. CASE SendTest(c) \/ SendLen(c) \/ SendData(c) \/ SendExit(c)
    <3>1. UNCHANGED <<members, plan, left, wire, running, windows, misused>>
      BY <2>1 DEF SendTest, SendLen, SendData, SendExit, Only, ctl, list, net
    <3>2. QED
      BY <1>0, <3>1
  <2>2. CASE SignalSent(c)
    BY <1>0, <1>3, <2>2 DEF SignalSent, ctl, list, net
  <2>3. CASE Wait(c, S(c), "send")
    BY <1>0, <1>2, <2>3 DEF Wait, ctl, list, net
  <2>4. QED
    BY <1>7, <2>1, <2>2, <2>3 DEF SendLoop
<1>8. ASSUME NEW c \in Clients, NEW t, Del(c, t)  PROVE Rest'
  <2>1. CASE DelTest(c, t)
    BY <1>0, <1>1, <2>1 DEF DelTest, ctl, list, net
  <2>2. CASE DelSwap(c, t)
    BY <1>0, <2>2 DEF DelSwap, ctl, list, net
  <2>3. CASE DelWakeRecv(c, t) \/ DelWakeSend(c, t)
    BY <1>0, <1>3, <2>3 DEF DelWakeRecv, DelWakeSend, ctl, list, net
  <2>4. CASE DelNoRecv(c, t) \/ DelNoSend(c, t)
    BY <1>0, <1>5, <2>4 DEF DelNoRecv, DelNoSend, Skip, Only, ctl, list, net
  <2>5. CASE Destroy(c, t, "recv", "rdes", "s1") \/ Destroy(c, t, "send", "sdes", "unlink1")
    BY <1>0, <1>2, <2>5 DEF Destroy, ctl, list, net
  <2>6. CASE UnlinkNext(c, t)
    <3>1. members' \in Seq(Clients)
      <4>1. CASE c \in Listed
        BY <1>r, <2>6, <4>1, Taken DEF UnlinkNext
      <4>2. CASE c \notin Listed
        <5>1. members' = members
          BY <2>6, <4>2 DEF UnlinkNext, Without, Listed
        <5>2. QED
          BY <1>r, <5>1
      <4>3. QED
        BY <4>1, <4>2
    <3>2. UNCHANGED <<running, plan, left, wire, misused>> /\ Met
      BY <1>4, <2>6 DEF UnlinkNext, ctl, net
    <3>3. QED
      BY <1>0, <1>r, <1>s, <3>1, <3>2
  <2>7. CASE UnlinkPrev(c, t)
    BY <1>0, <1>4, <2>7 DEF UnlinkPrev, ctl, net
  <2>8. QED
    BY <1>8, <2>1, <2>2, <2>3, <2>4, <2>5, <2>6, <2>7 DEF Del
<1>9. ASSUME Accept  PROVE Rest'
  <2>1. CASE LinkBack
    <3>1. newcomer \in Clients
      BY <2>1 DEF LinkBack, At, Inv, Adding, AddLabels
    <3>2. members' \in Seq(Clients)
      BY <1>r, <2>1, <3>1 DEF LinkBack
    <3>3. UNCHANGED <<running, plan, left, wire, misused>> /\ Met
      BY <1>4, <2>1 DEF LinkBack, ctl, net
    <3>4. QED
      BY <1>0, <1>r, <1>s, <3>2, <3>3
  <2>2. CASE LinkLast
    BY <1>0, <1>4, <2>2 DEF LinkLast, ctl, net
  <2>a. CASE \E c \in Clients : Accepted(c)
    BY <1>0, <2>a DEF Accepted, list
  <2>3. CASE AcceptEnd
    BY <1>0, <2>3 DEF AcceptEnd, list, net
  <2>4. CASE Fill
    BY <1>0, <2>4 DEF Fill, ctl, list, net
  <2>5. CASE StoreRecv \/ StoreSend
    BY <1>0, <1>5, <2>5 DEF StoreRecv, StoreSend, ctl, list, net
  <2>6. CASE Start(R(newcomer), "runR", "setR") \/ Start(S(newcomer), "runS", "setS")
    <3>1. UNCHANGED <<members, plan, left, wire, running, windows, misused>>
      BY <2>6 DEF Start, ctl, list, net
    <3>2. QED
      BY <1>0, <3>1
  <2>7. QED
    BY <1>9, <2>1, <2>2, <2>a, <2>3, <2>4, <2>5, <2>6 DEF Accept
<1>10. ASSUME StopRunning \/ PickFirst \/ PickJunk \/ Finish  PROVE Rest'
  BY <1>0, <1>1, <1>10 DEF StopRunning, PickFirst, PickJunk, Finish, Only, ctl, list, net
<1>11. ASSUME NEW c \in Clients, Call(c) \/ HangUp(c)  PROVE Rest'
  <2>1. UNCHANGED <<members, plan, left, wire, running, windows, misused>>
    BY <1>11 DEF Call, HangUp, Peer, ctl, list
  <2>2. QED
    BY <1>0, <2>1
<1>12. ASSUME NEW c \in Clients, SendMessage(c)  PROVE Rest'
  <2>1. UNCHANGED <<members, plan, running, windows, misused>>
    BY <1>12 DEF SendMessage, ctl, list
  <2>2. left' \in [Clients -> Int] /\ wire' \in [Clients -> Nat]
    BY <1>r, <1>12 DEF SendMessage
  <2>3. QED
    BY <1>0, <1>r, <1>s, <2>1, <2>2
<1>13. CASE UNCHANGED vars
  BY <1>0, <1>13 DEF vars, ctl, list, net
<1>14. ASSUME MainStep  PROVE Rest'
  BY <1>8, <1>10, <1>14 DEF MainStep, Inv, Typed
<1>15. QED
  BY <1>6, <1>7, <1>8, <1>9, <1>10, <1>11, <1>12, <1>13, <1>14
     DEF Next, RecvThread, SendThread

LEMMA PeerPlain ==
  ASSUME Inv, NEW c \in Clients, Call(c) \/ HangUp(c) \/ SendMessage(c)
  PROVE  Plain
<1>1. UNCHANGED <<pc, ctl, shared, list, windows>>
  BY DEF Call, HangUp, Peer, SendMessage
<1>2. \A d \in Clients : peer'[d] \in {"none", "calls"} => peer[d] \in {"none", "calls"}
  BY DEF Call, HangUp, Peer, SendMessage, Inv, Typed
<1>3. QED
  BY <1>1, <1>2, QuietPlain

LEMMA ListNext ==
  ASSUME Inv, Inv', ListInv, [Next]_vars
  PROVE  ListInv'
<1> USE DEF ListInv
<1>0. Rest' /\ members \in Seq(Clients)
  BY RestInv DEF Membership, Rest
<1>1. ASSUME Plain  PROVE ListInv'
  BY <1>0, <1>1, PlainMembership, PlainChain
<1>2. ASSUME NEW c \in Clients, NEW t, Remover(t, c), Del(c, t)  PROVE ListInv'
  <2>1. CASE DelMove(c, t)
    BY <1>1, <1>2, <2>1, DelPlain
  <2>2. CASE UnlinkNext(c, t)
    BY <1>0, <1>2, <2>2, UnlinkNextMembership, UnlinkNextChain
  <2>3. CASE UnlinkPrev(c, t)
    BY <1>0, <1>2, <2>3, UnlinkPrevMembership, UnlinkPrevChain
  <2>4. QED
    BY <1>2, <2>1, <2>2, <2>3, DelMoves
<1>3. ASSUME NEW c \in Clients, RecvThread(c)  PROVE ListInv'
  BY <1>1, <1>2, <1>3, ReceiveMoves, ReceivePlain DEF RecvThread, Remover
<1>4. ASSUME NEW c \in Clients, SendThread(c)  PROVE ListInv'
  BY <1>1, <1>2, <1>4, SendMoves, SendPlain DEF SendThread, Remover
<1>5. ASSUME MainStep  PROVE ListInv'
  BY <1>1, <1>2, <1>5, MainMoves, MainPlain DEF MainStep, Remover, Inv, Typed
<1>6. ASSUME Accept  PROVE ListInv'
  <2>1. CASE AcceptMove
    BY <1>1, <2>1, AcceptPlain
  <2>2. CASE LinkBack
    BY <1>0, <2>2, LinkBackMembership, LinkBackChain
  <2>3. CASE LinkLast
    BY <1>0, <2>3, LinkLastMembership, LinkLastChain
  <2>4. ASSUME NEW c \in Clients, Accepted(c)  PROVE ListInv'
    BY <1>1, <2>4, AcceptedPlain
  <2>5. QED
    BY <1>6, <2>1, <2>2, <2>3, <2>4, AcceptMoves
<1>7. ASSUME NEW c \in Clients, Call(c) \/ HangUp(c) \/ SendMessage(c)  PROVE ListInv'
  BY <1>1, <1>7, PeerPlain
<1>8. CASE UNCHANGED vars
  BY <1>1, <1>8, QuietPlain DEF vars, net
<1>9. ASSUME StopRunning  PROVE ListInv'
  BY <1>1, <1>9, MainMoves, MainPlain
<1>10. QED
  BY <1>3, <1>4, <1>5, <1>6, <1>7, <1>8, <1>9 DEF Next

LEMMA ListInit == Init => ListInv
<1> SUFFICES ASSUME Init  PROVE ListInv
  OBVIOUS
<1> USE ThreadFacts, ServerAssumption DEF Init
<1>1. /\ pc[Main] = "run" /\ pc[Acceptor] = "accept"
      /\ \A t \in Threads : pc[t] \in {"run", "accept", "off"}
  OBVIOUS
<1>2. PICK p \in Plans : plan = p /\ left = p.calls
  OBVIOUS
<1>3. Rest
  <2>1. left \in [Clients -> Int]
    BY <1>2
  <2>2. QED
    BY <1>2, <2>1 DEF Rest
<1>4. Membership
  BY <1>1 DEF Membership, Distinct, Comes, Leaves, Listed, Removing, DelLabels
<1>5. Chain
  BY <1>1 DEF Chain, Midway, Forward, Backward
<1>6. QED
  BY <1>3, <1>4, <1>5 DEF ListInv

LEMMA ListInvariant == Spec => [](Inv /\ ListInv)
<1>1. Inv /\ ListInv /\ [Next]_vars => Inv' /\ ListInv'
  BY NextInv, ListNext
<1>2. QED
  BY <1>1, InitInv, ListInit, PTL DEF Spec

\* The client list has exactly the clients added and not removed, whichever way it is
\* read, when no thread is in the middle of linking or unlinking one, unless two threads
\* changed it at once or serverDel removed one twice.
THEOREM ListsMembers == Spec => []ListIsMembers
<1>1. Inv /\ ListInv => ListIsMembers
  <2> SUFFICES ASSUME Inv, ListInv  PROVE ListIsMembers
    OBVIOUS
  <2>1. TypeOK
    BY DEF TypeOK, Inv, Typed, ListInv, Rest
  <2>2. ASSUME Calm, \A t \in Threads : pc[t] \notin {"link2", "unlink2"}
        PROVE  Forward(members, Nil) /\ Backward(members)
    BY <2>2 DEF ListInv, Chain, Midway
  <2>3. QED
    BY <2>1, <2>2 DEF ListIsMembers, Calm
<1>2. QED
  BY <1>1, ListInvariant, PTL
=============================================================================
