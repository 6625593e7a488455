------------------------ MODULE NetmsgServerHangProofs ------------------------
(***************************************************************************)
(* That no thread of NetmsgServer waits for ever (NothingHangs), for any   *)
(* clients, plans and length of an answer.  TLC looks for a state in which *)
(* everybody is blocked; here the invariant says of each thread that waits *)
(* who will wake it.                                                       *)
(***************************************************************************)
EXTENDS NetmsgServerListProofs

-----------------------------------------------------------------------------
(* The invariant *)

\* A thread ends when its client is removed, and has not begun only while
\* serverAdd is about to start it.
Lives(c) ==
  /\ pc[R(c)] = "end" \/ pc[S(c)] = "end" => sock[c] = "null"
  /\ ~Unset(c) /\ pc[R(c)] = "off" => pc[Acceptor] = "runR" /\ newcomer = c
  /\ ~Unset(c) /\ pc[S(c)] = "off" =>
       pc[Acceptor] \in {"runR", "setR", "runS"} /\ newcomer = c

\* Until ESC only a client is removed that hung up, or to which the bytes could not
\* be sent that allocate left.
OnlyGone(c) ==
  Past(R(c)) \/ Past(S(c)) \/ (~Unset(c) /\ sock[c] = "null") => peer[c] = "gone" \/ Dirty(c)
Serving == pc[Main] = "run" => running /\ \A c \in Clients : OnlyGone(c)

\* The receive thread waits for an answer that is still to be sent, and the send
\* thread for one that is still to be announced.
Talks(c) ==
  /\ pc[R(c)] \in {"sig", "wait", "waiting"} => slen[c] > 0 \/ pc[S(c)] = "sig"
  /\ pc[S(c)] \in {"wait", "waiting"} /\ slen[c] > 0 => pc[R(c)] = "sig"

\* A handle is set while its thread is in its loop.
Handles(c) ==
  /\ rthread[c] => pc[R(c)] # "off" /\ ~Past(R(c))
  /\ sthread[c] => pc[S(c)] # "off" /\ ~Past(S(c))

\* A thread that serverDel has sent a signal to does not wait again.
Frozen(c) == \A t \in Threads : Removing(t, c) =>
  /\ pc[t] \in {"r2", "rjoin"} => pc[R(c)] \in {"test", "recv", "del", "end"}
  /\ pc[t] \in {"s2", "sjoin"} => \/ pc[S(c)] \in {"test", "send", "sig", "del", "end"}
                                  \/ pc[S(c)] = "len" /\ slen[c] > 0
  /\ pc[t] \in {"unlink1", "unlink2"} => cond[c].send = "gone"

\* A client whose socket is closed is being removed by some thread, or has been.
Leaving(c) ==
  /\ ~Unset(c) /\ c \notin Listed => cond[c].send = "gone"
  /\ ~Unset(c) /\ sock[c] = "null" /\ c \in Listed =>
       \E t \in Threads : Removing(t, c) /\ pc[t] \notin {"swap", "unlink2"}

Tracked(c) == Talks(c) /\ Handles(c) /\ Frozen(c) /\ Leaving(c)

HangInv == /\ \A c \in Clients : Lives(c)
           /\ Serving
           /\ windows = {} => \A c \in Clients : Tracked(c)

\* All that has been established so far.
Known == Inv /\ Removal /\ ListInv

-----------------------------------------------------------------------------
(* The receive thread *)

\* A client none of whose threads moves.
Untouched(c) ==
  /\ pc'[R(c)] = pc[R(c)] /\ pc'[S(c)] = pc[S(c)]
  /\ slen'[c] = slen[c] /\ sock'[c] = sock[c] /\ cond'[c] = cond[c]
  /\ rthread'[c] = rthread[c] /\ sthread'[c] = sthread[c]
  /\ peer[c] = "gone" => peer'[c] = "gone"
  /\ c \in Listed' <=> c \in Listed
  /\ \A t \in Threads : Removing(t, c) => Removing(t, c)' /\ pc'[t] = pc[t]
  /\ \A t \in Threads : Removing(t, c)' /\ ~Removing(t, c) => pc'[t] = "swap"

\* What a client is like does not depend on the others.
LEMMA UntouchedTracked ==
  ASSUME Known, NEW c \in Clients, Tracked(c), Untouched(c)
  PROVE  Tracked(c)'
<1> USE ThreadFacts DEF Untouched, Tracked, Known, Inv
<1>1. Talks(c)' /\ Handles(c)'
  BY DEF Talks, Handles, Past
<1>2. Frozen(c)'
  <2> SUFFICES ASSUME NEW t \in Threads, Removing(t, c)'
               PROVE  /\ pc'[t] \in {"r2", "rjoin"} => pc'[R(c)] \in {"test", "recv", "del", "end"}
                      /\ pc'[t] \in {"s2", "sjoin"} =>
                           \/ pc'[S(c)] \in {"test", "send", "sig", "del", "end"}
                           \/ pc'[S(c)] = "len" /\ slen'[c] > 0
                      /\ pc'[t] \in {"unlink1", "unlink2"} => cond'[c].send = "gone"
    BY DEF Frozen
  <2>1. CASE Removing(t, c)
    BY <2>1 DEF Frozen
  <2>2. CASE ~Removing(t, c)
    BY <2>2
  <2>3. QED
    BY <2>1, <2>2
<1>3. Leaving(c)'
  BY DEF Leaving, Unset
<1>4. QED
  BY <1>1, <1>2, <1>3

LEMMA ReceiveLives ==
  ASSUME Known, NEW c \in Clients, ReceiveMove(c), NEW d \in Clients, Lives(d)
  PROVE  Lives(d)'
<1> USE ThreadFacts DEF ReceiveMove
<1>1. d # c => pc'[R(d)] = pc[R(d)] /\ pc'[S(d)] = pc[S(d)]
  OBVIOUS
<1>2. /\ pc'[R(c)] \notin {"end", "off"} /\ pc[R(c)] # "off"
      /\ pc'[S(c)] \in {"end", "off"} => pc'[S(c)] = pc[S(c)]
  BY DEF Moves, Woken
<1>3. pc'[Acceptor] = pc[Acceptor] /\ newcomer' = newcomer /\ sock' = sock /\ cond' = cond
  BY DEF ctl
<1>4. QED
  BY <1>1, <1>2, <1>3 DEF Lives, Unset

LEMMA ReceiveServing ==
  ASSUME Known, NEW c \in Clients, ReceiveMove(c), Serving
  PROVE  Serving'
<1> USE ThreadFacts DEF ReceiveMove
<1>1. /\ pc'[Main] = pc[Main] /\ running' = running /\ sock' = sock /\ cond' = cond /\ peer' = peer
      /\ plan' = plan
  BY DEF ctl
<1>2. ASSUME NEW d \in Clients, pc[Main] = "run"  PROVE OnlyGone(d)'
  <2>1. running /\ OnlyGone(d) /\ OnlyGone(c)
    BY <1>2 DEF Serving
  <2>2. CASE d # c
    <3>1. pc'[R(d)] = pc[R(d)] /\ pc'[S(d)] = pc[S(d)]
      BY <2>2
    <3>2. QED
      BY <1>1, <2>1, <3>1 DEF OnlyGone, Dirty, Past, Unset
  <2>3. CASE d = c
    <3>1. pc[R(c)] # "off"
      BY DEF Moves
    <3>2. ~Unset(c) /\ sock[c] \in {"null", "open"}
      BY <3>1 DEF Known, Inv, Opened, Typed
    <3>3. pc'[S(c)] = pc[S(c)] \/ Moves(S(c), "waiting", "test")
      BY DEF Woken, Moves
    <3>4. Past(R(c))' => peer[c] = "gone" \/ Dirty(c)
      BY <2>1, <3>2 DEF Moves, Past, OnlyGone, Dirty, DelLabels
    <3>5. QED
      BY <1>1, <2>1, <2>3, <3>3, <3>4 DEF OnlyGone, Dirty, Past, Moves, DelLabels, Unset
  <2>4. QED
    BY <2>2, <2>3
<1>3. QED
  BY <1>1, <1>2 DEF Serving

LEMMA ReceiveTracked ==
  ASSUME Known, Known', NEW c \in Clients, ReceiveMove(c), windows' = {}, Tracked(c)
  PROVE  Tracked(c)'
<1> USE ThreadFacts
<1>0. /\ UNCHANGED <<ctl, list, sock, sthread, cond, peer>>
      /\ \A u \in Threads \ {R(c), S(c)} : pc'[u] = pc[u]
      /\ Typed /\ Opened(c) /\ slen[c] \in Nat /\ MsgLen > 0
  BY ServerAssumption DEF Known, Inv, Typed, ReceiveMove
<1>1. Talks(c)'
  <2>1. CASE Moves(R(c), "sig", "wait") /\ Woken(S(c)) /\ UNCHANGED <<slen, rthread>>
    BY <2>1 DEF Talks, Tracked, Moves, Woken, Committed
  <2>2. CASE Moves(R(c), "proc", "sig") /\ slen'[c] = MsgLen /\ pc'[S(c)] = pc[S(c)]
    BY <1>0, <2>2 DEF Talks, Moves
  <2>3. CASE /\ pc'[S(c)] = pc[S(c)] /\ slen' = slen /\ pc[R(c)] # "sig"
             /\ pc'[R(c)] \in {"sig", "wait", "waiting"} => pc[R(c)] = "wait"
    BY <2>3 DEF Talks, Tracked
  <2>4. QED
    BY <2>1, <2>2, <2>3 DEF ReceiveMove, Moves
<1>2. /\ pc[R(c)] \notin DelLabels /\ pc'[R(c)] \notin DelLabels \union {"off", "end"}
      /\ pc'[R(c)] = "del" => ~rthread'[c]
      /\ pc'[R(c)] # "del" => rthread'[c] = rthread[c] /\ pc[R(c)] # "del"
      /\ pc'[S(c)] = pc[S(c)] \/ Moves(S(c), "waiting", "test")
  BY DEF ReceiveMove, Moves, Woken, DelLabels
<1>3. Handles(c)'
  BY <1>0, <1>2 DEF Handles, Tracked, Past, Moves, DelLabels
<1>4. \A t \in Threads : Removing(t, c)' <=> Removing(t, c) /\ pc'[t] = pc[t]
  BY <1>0, <1>2 DEF Removing, Remover, Moves, DelLabels, ctl
<1>5. Frozen(c)'
  <2> SUFFICES ASSUME NEW t \in Threads, Removing(t, c), pc'[t] = pc[t]
               PROVE  /\ pc[t] \in {"r2", "rjoin"} => pc'[R(c)] \in {"test", "recv", "del", "end"}
                      /\ pc[t] \in {"s2", "sjoin"} =>
                           \/ pc'[S(c)] \in {"test", "send", "sig", "del", "end"}
                           \/ pc'[S(c)] = "len" /\ slen'[c] > 0
                      /\ pc[t] \in {"unlink1", "unlink2"} => cond'[c].send = "gone"
    BY <1>4 DEF Frozen
  <2>1. pc[t] \in {"r2", "rjoin", "s2", "sjoin"} => sock[c] = "null"
    BY <1>0 DEF Opened, Removing, Remover, MainRemoves, DelLabels
  <2>2. pc[t] \in {"r2", "rjoin"} => pc'[R(c)] \in {"test", "recv", "del", "end"}
    BY <2>1 DEF ReceiveMove, Moves, Frozen, Tracked, Keeps
  <2>3. slen'[c] = slen[c] \/ slen'[c] > 0
    BY <1>0 DEF ReceiveMove
  <2>4. pc[t] \in {"s2", "sjoin"} => pc'[S(c)] = pc[S(c)]
    BY <1>2 DEF Frozen, Tracked, Moves
  <2>5. QED
    BY <1>0, <2>2, <2>3, <2>4 DEF Frozen, Tracked
<1>6. Leaving(c)'
  BY <1>0, <1>4, <1>2 DEF Leaving, Tracked, Listed, list, Unset, Removing, Moves, DelLabels
<1>7. QED
  BY <1>1, <1>3, <1>5, <1>6 DEF Tracked

LEMMA ReceiveHang ==
  ASSUME Known, Known', HangInv, NEW c \in Clients, ReceiveMove(c)
  PROVE  HangInv'
<1> USE ThreadFacts DEF HangInv
<1>1. (\A d \in Clients : Lives(d)') /\ Serving'
  BY ReceiveLives, ReceiveServing
<1>2. ASSUME windows' = {}, NEW d \in Clients  PROVE Tracked(d)'
  <2>1. windows = {} /\ Tracked(d) /\ Tracked(c)
    BY <1>2 DEF ReceiveMove
  <2>2. CASE d = c
    BY <1>2, <2>1, <2>2, ReceiveTracked
  <2>3. CASE d # c
    <3>1. /\ \A u \in Threads \ {R(c), S(c)} : pc'[u] = pc[u]
          /\ UNCHANGED <<ctl, list, sock, sthread, cond, peer>>
          /\ slen'[d] = slen[d] /\ rthread'[d] = rthread[d]
      BY <2>3 DEF ReceiveMove
    <3>2. \A t \in Threads : Remover(t, d) => t \notin {R(c), S(c)}
      BY <2>3 DEF Remover
    <3>3. Untouched(d)
      BY <2>3, <3>1, <3>2 DEF Untouched, Removing, Remover, ctl, list, Listed
    <3>4. QED
      BY <2>1, <3>3, UntouchedTracked
  <2>4. QED
    BY <2>2, <2>3
<1>3. QED
  BY <1>1, <1>2

-----------------------------------------------------------------------------
(* The send thread *)

LEMMA SendLives ==
  ASSUME Known, NEW c \in Clients, SendMove(c), NEW d \in Clients, Lives(d)
  PROVE  Lives(d)'
<1> USE ThreadFacts DEF SendMove
<1>1. d # c => pc'[R(d)] = pc[R(d)] /\ pc'[S(d)] = pc[S(d)]
  OBVIOUS
<1>2. /\ pc'[S(c)] \notin {"end", "off"} /\ pc[S(c)] # "off"
      /\ pc'[R(c)] \in {"end", "off"} => pc'[R(c)] = pc[R(c)]
  BY DEF Moves, Woken
<1>3. pc'[Acceptor] = pc[Acceptor] /\ newcomer' = newcomer /\ sock' = sock /\ cond' = cond
  BY DEF ctl
<1>4. QED
  BY <1>1, <1>2, <1>3 DEF Lives, Unset

LEMMA SendServing ==
  ASSUME Known, NEW c \in Clients, SendMove(c), Serving
  PROVE  Serving'
<1> USE ThreadFacts DEF SendMove
<1>1. /\ pc'[Main] = pc[Main] /\ running' = running /\ sock' = sock /\ cond' = cond /\ peer' = peer
      /\ plan' = plan
  BY DEF ctl
<1>2. ASSUME NEW d \in Clients, pc[Main] = "run"  PROVE OnlyGone(d)'
  <2>1. running /\ OnlyGone(d) /\ OnlyGone(c)
    BY <1>2 DEF Serving
  <2>2. CASE d # c
    <3>1. pc'[R(d)] = pc[R(d)] /\ pc'[S(d)] = pc[S(d)]
      BY <2>2
    <3>2. QED
      BY <1>1, <2>1, <3>1 DEF OnlyGone, Dirty, Past, Unset
  <2>3. CASE d = c
    <3>1. pc[S(c)] # "off"
      BY DEF Moves
    <3>2. ~Unset(c) /\ sock[c] \in {"null", "open"}
      BY <3>1 DEF Known, Inv, Opened, Typed
    <3>3. pc'[R(c)] = pc[R(c)] \/ Moves(R(c), "waiting", "test")
      BY DEF Woken, Moves
    <3>4. Past(S(c))' => peer[c] = "gone" \/ Dirty(c)
      BY <2>1, <3>2 DEF Moves, Past, OnlyGone, Dirty, DelLabels
    <3>5. QED
      BY <1>1, <2>1, <2>3, <3>3, <3>4 DEF OnlyGone, Dirty, Past, Moves, DelLabels, Unset
  <2>4. QED
    BY <2>2, <2>3
<1>3. QED
  BY <1>1, <1>2 DEF Serving

LEMMA SendTracked ==
  ASSUME Known, Known', NEW c \in Clients, SendMove(c), windows' = {}, Tracked(c)
  PROVE  Tracked(c)'
<1> USE ThreadFacts
<1>0. /\ UNCHANGED <<ctl, list, sock, rthread, cond, peer>>
      /\ \A u \in Threads \ {R(c), S(c)} : pc'[u] = pc[u]
      /\ Typed /\ Opened(c) /\ slen[c] \in Nat /\ slen'[c] \in Nat
  BY ServerAssumption DEF Known, Inv, Typed, SendMove
<1>1. Talks(c)'
  <2>1. CASE Moves(S(c), "sig", "test") /\ Woken(R(c))
    BY <2>1 DEF Talks, Tracked, Moves, Woken, Committed
  <2>2. CASE /\ pc'[R(c)] = pc[R(c)] /\ slen' = slen /\ pc[S(c)] # "sig"
             /\ pc'[S(c)] \in {"wait", "waiting"} => pc[S(c)] = "wait" \/ ~(slen[c] > 0)
    BY <2>2 DEF Talks, Tracked
  <2>3. CASE /\ pc'[R(c)] = pc[R(c)] /\ pc[S(c)] = "send"
             /\ pc'[S(c)] = IF slen'[c] > 0 THEN "test" ELSE "sig"
    BY <2>3 DEF Talks, Tracked
  <2>4. QED
    BY <2>1, <2>2, <2>3 DEF SendMove, Moves
<1>2. /\ pc[S(c)] \notin DelLabels /\ pc'[S(c)] \notin DelLabels \union {"off", "end"}
      /\ pc'[S(c)] = "del" => ~sthread'[c]
      /\ pc'[S(c)] # "del" => sthread'[c] = sthread[c] /\ pc[S(c)] # "del"
      /\ pc'[R(c)] = pc[R(c)] \/ Moves(R(c), "waiting", "test")
  BY DEF SendMove, Moves, Woken, DelLabels
<1>3. Handles(c)'
  BY <1>0, <1>2 DEF Handles, Tracked, Past, Moves, DelLabels
<1>4. \A t \in Threads : Removing(t, c)' <=> Removing(t, c) /\ pc'[t] = pc[t]
  BY <1>0, <1>2 DEF Removing, Remover, Moves, DelLabels, ctl
<1>5. Frozen(c)'
  <2> SUFFICES ASSUME NEW t \in Threads, Removing(t, c), pc'[t] = pc[t]
               PROVE  /\ pc[t] \in {"r2", "rjoin"} => pc'[R(c)] \in {"test", "recv", "del", "end"}
                      /\ pc[t] \in {"s2", "sjoin"} =>
                           \/ pc'[S(c)] \in {"test", "send", "sig", "del", "end"}
                           \/ pc'[S(c)] = "len" /\ slen'[c] > 0
                      /\ pc[t] \in {"unlink1", "unlink2"} => cond'[c].send = "gone"
    BY <1>4 DEF Frozen
  <2>1. pc[t] \in {"r2", "rjoin", "s2", "sjoin"} => sock[c] = "null"
    BY <1>0 DEF Opened, Removing, Remover, MainRemoves, DelLabels
  <2>2. pc[t] \in {"r2", "rjoin"} => pc'[R(c)] \in {"test", "recv", "del", "end"}
    BY <1>2 DEF Moves, Frozen, Tracked
  <2>3. pc[t] \in {"s2", "sjoin"} => pc'[S(c)] \in {"test", "send", "sig", "del", "end"}
    BY <2>1 DEF SendMove, Moves, Frozen, Tracked, Keeps
  <2>4. QED
    BY <1>0, <2>2, <2>3 DEF Frozen, Tracked
<1>6. Leaving(c)'
  BY <1>0, <1>4, <1>2 DEF Leaving, Tracked, Listed, list, Unset, Removing, Moves, DelLabels
<1>7. QED
  BY <1>1, <1>3, <1>5, <1>6 DEF Tracked

LEMMA SendHang ==
  ASSUME Known, Known', HangInv, NEW c \in Clients, SendMove(c)
  PROVE  HangInv'
<1> USE ThreadFacts DEF HangInv
<1>1. (\A d \in Clients : Lives(d)') /\ Serving'
  BY SendLives, SendServing
<1>2. ASSUME windows' = {}, NEW d \in Clients  PROVE Tracked(d)'
  <2>1. windows = {} /\ Tracked(d) /\ Tracked(c)
    BY <1>2 DEF SendMove
  <2>2. CASE d = c
    BY <1>2, <2>1, <2>2, SendTracked
  <2>3. CASE d # c
    <3>1. /\ \A u \in Threads \ {R(c), S(c)} : pc'[u] = pc[u]
          /\ UNCHANGED <<ctl, list, sock, rthread, cond, peer>>
          /\ slen'[d] = slen[d] /\ sthread'[d] = sthread[d]
      BY <2>3 DEF SendMove
    <3>2. \A t \in Threads : Remover(t, d) => t \notin {R(c), S(c)}
      BY <2>3 DEF Remover
    <3>3. Untouched(d)
      BY <2>3, <3>1, <3>2 DEF Untouched, Removing, Remover, ctl, list, Listed
    <3>4. QED
      BY <2>1, <3>3, UntouchedTracked
  <2>4. QED
    BY <2>2, <2>3
<1>3. QED
  BY <1>1, <1>2

-----------------------------------------------------------------------------
(* serverDel, but for the steps that change the list *)

\* Where a turn of serverDel begins and ends.
LEMMA DelPlaces ==
  ASSUME Known, NEW c \in Clients, NEW t, Remover(t, c), DelMove(c, t)
  PROVE  /\ t \in Threads /\ t # Acceptor
         /\ pc[t] \in DelLabels \union {"del"}
         /\ pc'[t] \in DelLabels \union {"end"} /\ pc'[t] # "unlink2"
         /\ pc'[t] = "swap" => pc[t] = "del"
         /\ pc'[t] = "end" => pc[t] = "del" /\ sock[c] = "null"
         /\ \A u \in Threads \ {t} :
              \/ pc'[u] = pc[u]
              \/ /\ u \in {R(c), S(c)} /\ Moves(u, "waiting", "test") /\ pc[t] # "del"
         /\ sock'[c] = sock[c] \/ (sock'[c] = "null" /\ pc'[t] = "r1")
         /\ ~Unset(c) /\ ~Unset(c)'
         /\ cond'[c].send \in {cond[c].send, "gone"}
<1> USE ThreadFacts
<1>1. t \in Threads /\ t # Acceptor
  BY DEF Remover
<1>2. /\ pc[t] \in DelLabels \union {"del"}
      /\ pc'[t] \in DelLabels \union {"end"} /\ pc'[t] # "unlink2"
      /\ pc'[t] = "swap" => pc[t] = "del"
      /\ pc'[t] = "end" => pc[t] = "del" /\ sock[c] = "null"
      /\ sock'[c] = sock[c] \/ (sock'[c] = "null" /\ pc'[t] = "r1")
      /\ cond'[c].send \in {cond[c].send, "gone"}
      /\ cond'[c].recv \in {cond[c].recv, "gone"}
  BY DEF DelMove, Moves, DelLabels
<1>3. ~Unset(c) /\ ~Unset(c)'
  <2>1. pc[t] # "off" /\ (t = Main => pc[t] # "del")
    BY <1>2 DEF DelLabels, Known, Inv, InPlace
  <2>2. ~Unset(c)
    BY <1>2, <2>1 DEF Known, Inv, Opened, Remover, MainRemoves
  <2>3. QED
    BY <1>2, <2>2 DEF Unset
<1>4. \A u \in Threads \ {t} :
        \/ pc'[u] = pc[u]
        \/ u \in {R(c), S(c)} /\ Moves(u, "waiting", "test") /\ pc[t] # "del"
  BY <1>1 DEF DelMove, Moves, Woken
<1>5. QED
  BY <1>1, <1>2, <1>3, <1>4

LEMMA DelLives ==
  ASSUME Known, NEW c \in Clients, NEW t, Remover(t, c), DelMove(c, t),
         NEW d \in Clients, Lives(d)
  PROVE  Lives(d)'
<1> USE ThreadFacts
<1>1. pc'[Acceptor] = pc[Acceptor] /\ newcomer' = newcomer
  BY DelPlaces DEF DelMove, ctl
<1>2. CASE d = c
  <2>1. pc'[R(c)] = "end" => pc[R(c)] = "end" \/ sock[c] = "null"
    BY DelPlaces DEF Moves
  <2>2. pc'[S(c)] = "end" => pc[S(c)] = "end" \/ sock[c] = "null"
    BY DelPlaces DEF Moves
  <2>3. /\ pc'[R(c)] = "off" => pc[R(c)] = "off"
        /\ pc'[S(c)] = "off" => pc[S(c)] = "off"
    BY DelPlaces DEF Moves, DelLabels
  <2>4. /\ sock[c] = "null" => sock'[c] = "null"
        /\ ~Unset(c)
    BY DelPlaces
  <2>5. QED
    BY <1>1, <1>2, <2>1, <2>2, <2>3, <2>4 DEF Lives
<1>3. CASE d # c
  <2>1. pc'[R(d)] = pc[R(d)] /\ pc'[S(d)] = pc[S(d)]
    BY <1>3 DEF DelMove, Remover
  <2>2. sock'[d] = sock[d] /\ cond'[d] = cond[d]
    BY <1>3 DEF DelMove
  <2>3. QED
    BY <1>1, <2>1, <2>2 DEF Lives, Unset
<1>4. QED
  BY <1>2, <1>3

LEMMA DelServing ==
  ASSUME Known, NEW c \in Clients, NEW t, Remover(t, c), DelMove(c, t), Serving
  PROVE  Serving'
<1> USE ThreadFacts
<1>0. running' = running /\ plan' = plan /\ peer' = peer
  BY DEF DelMove, ctl
<1>1. ASSUME pc'[Main] = "run"  PROVE pc[Main] = "run" /\ t # Main
  BY <1>1, DelPlaces DEF Moves, DelLabels
<1>2. ASSUME NEW d \in Clients, pc'[Main] = "run"  PROVE OnlyGone(d)'
  <2>1. OnlyGone(d) /\ OnlyGone(c)
    BY <1>1, <1>2 DEF Serving
  <2>2. CASE d = c
    <3>1. t \in {R(c), S(c)} /\ Past(t)
      BY <1>1, <1>2, DelPlaces DEF Remover, Past
    <3>2. QED
      BY <1>0, <2>1, <2>2, <3>1 DEF OnlyGone, Dirty
  <2>3. CASE d # c
    <3>1. pc'[R(d)] = pc[R(d)] /\ pc'[S(d)] = pc[S(d)]
      BY <2>3 DEF DelMove, Remover
    <3>2. sock'[d] = sock[d] /\ cond'[d] = cond[d]
      BY <2>3 DEF DelMove
    <3>3. QED
      BY <1>0, <2>1, <3>1, <3>2 DEF OnlyGone, Dirty, Past, Unset
  <2>4. QED
    BY <2>2, <2>3
<1>3. QED
  BY <1>0, <1>1, <1>2 DEF Serving

\* While a thread removes a client, no other one does.
LEMMA DelAlone ==
  ASSUME Known, NEW c \in Clients, NEW t, Remover(t, c), DelMove(c, t), windows' = {}
  PROVE  /\ pc[t] # "del" => \A u \in Threads : Removing(u, c) => u = t
         /\ pc'[t] = "swap" => \A u \in Threads : ~Removing(u, c)
<1> USE ThreadFacts
<1>1. windows = {} /\ InOrder(c)
  BY DEF DelMove, Known, Removal, Clean
<1>2. pc[t] # "del" => Removing(t, c) /\ t \in Threads
  BY DelPlaces DEF Removing
<1>3. pc[t] # "del" => \A u \in Threads : Removing(u, c) => u = t
  BY <1>1, <1>2 DEF InOrder
<1>4. ASSUME pc'[t] = "swap", NEW u \in Threads, Removing(u, c)  PROVE FALSE
  <2>1. /\ Moves(t, "del", "swap") /\ sock[c] # "null"
        /\ \A v \in Threads \ {t} : ~(Remover(v, c) /\ pc[v] = "swap")
    BY <1>4 DEF DelMove, Moves
  <2>2. u # t /\ Remover(u, c) /\ pc[u] \in DelLabels \ {"swap"}
    BY <1>4, <2>1 DEF Removing, Moves, DelLabels
  <2>3. sock[c] = "null"
    BY <2>2 DEF Known, Inv, Opened, Remover, MainRemoves
  <2>4. QED
    BY <2>1, <2>3
<1>5. QED
  BY <1>3, <1>4

LEMMA DelTalksHandles ==
  ASSUME Known, NEW c \in Clients, NEW t, Remover(t, c), DelMove(c, t), Tracked(c)
  PROVE  Talks(c)' /\ Handles(c)'
<1> USE ThreadFacts DEF Tracked
<1>1. /\ slen' = slen /\ rthread' = rthread /\ sthread' = sthread
      /\ pc[t] \in DelLabels \union {"del"} /\ pc'[t] \in DelLabels \union {"end"}
      /\ \A u \in Threads \ {t} : pc'[u] = pc[u] \/ Moves(u, "waiting", "test")
  BY DelPlaces DEF DelMove
<1>2. pc'[R(c)] = pc[R(c)] \/ Moves(R(c), "waiting", "test") \/ (Past(R(c)) /\ Past(R(c))')
  BY <1>1 DEF Past
<1>3. pc'[S(c)] = pc[S(c)] \/ Moves(S(c), "waiting", "test") \/ (Past(S(c)) /\ Past(S(c))')
  BY <1>1 DEF Past
<1>4. Talks(c)'
  BY <1>1, <1>2, <1>3 DEF Talks, Past, DelLabels, Moves
<1>5. Handles(c)'
  BY <1>1, <1>2, <1>3 DEF Handles, Past, DelLabels, Moves
<1>6. QED
  BY <1>4, <1>5

\* The thread it wakes, or is to wait for, does not wait again.
LEMMA DelWakes ==
  ASSUME Known, NEW c \in Clients, NEW t, Remover(t, c), DelMove(c, t), windows' = {}, Tracked(c)
  PROVE  /\ pc'[t] \in {"r2", "rjoin"} => pc'[R(c)] \in {"test", "recv", "del", "end"}
         /\ pc'[t] \in {"s2", "sjoin"} => \/ pc'[S(c)] \in {"test", "send", "sig", "del", "end"}
                                          \/ pc'[S(c)] = "len" /\ slen'[c] > 0
         /\ pc'[t] \in {"unlink1", "unlink2"} => cond'[c].send = "gone"
<1> USE ThreadFacts
<1>1. /\ slen' = slen /\ pc'[t] # "unlink2"
      /\ pc[R(c)] \in RecvLabels \union DelLabels /\ pc[S(c)] \in SendLabels \union DelLabels
      /\ t \in Threads
  BY DelPlaces DEF DelMove, Known, Inv, InPlace
<1>2. pc'[t] = "r2" => pc'[R(c)] \in {"test", "recv"}
  <2> HAVE pc'[t] = "r2"
  <2>1. Moves(t, "r1", "r2") /\ rthread[c] /\ (Woken(R(c)) \/ t = R(c))
    BY DEF DelMove, Moves
  <2>2. pc[R(c)] \notin {"off", "del", "end"} \union DelLabels
    BY <2>1 DEF Tracked, Handles, Past
  <2>3. Woken(R(c)) /\ ~Committed(R(c))
    BY <2>1, <2>2 DEF Moves, DelLabels, Woken
  <2>4. pc[R(c)] \notin {"proc", "sig", "wait"}
    BY <2>3 DEF Committed
  <2>5. pc[R(c)] \in {"test", "recv", "waiting"}
    BY <1>1, <2>2, <2>4 DEF RecvLabels
  <2>6. QED
    BY <2>3, <2>5 DEF Woken
<1>3. pc'[t] = "rjoin" => pc'[R(c)] \in {"test", "recv", "del", "end"}
  <2> HAVE pc'[t] = "rjoin"
  <2>1. Moves(t, "r2", "rjoin") /\ \A u \in Threads \ {t} : pc'[u] = pc[u]
    BY DEF DelMove, Moves
  <2>2. pc[R(c)] \in {"test", "recv", "del", "end"}
    BY <1>1, <2>1 DEF Tracked, Frozen, Removing, Moves, DelLabels
  <2>3. QED
    BY <2>1, <2>2 DEF Moves
<1>4. pc'[t] = "s2" => \/ pc'[S(c)] \in {"test", "send", "sig"}
                       \/ pc'[S(c)] = "len" /\ slen[c] > 0
  <2> HAVE pc'[t] = "s2"
  <2>1. Moves(t, "s1", "s2") /\ sthread[c] /\ (Woken(S(c)) \/ t = S(c))
    BY DEF DelMove, Moves
  <2>2. pc[S(c)] \notin {"off", "del", "end"} \union DelLabels
    BY <2>1 DEF Tracked, Handles, Past
  <2>3. Woken(S(c)) /\ ~Committed(S(c))
    BY <2>1, <2>2 DEF Moves, DelLabels, Woken
  <2>4. pc[S(c)] # "wait" /\ (pc[S(c)] = "len" => slen[c] > 0)
    <3>1. slen[c] \in Nat
      BY ServerAssumption DEF Known, Inv, Typed
    <3>2. QED
      BY <2>3, <3>1 DEF Committed
  <2>5. pc[S(c)] \in {"test", "len", "send", "sig", "waiting"}
    BY <1>1, <2>2, <2>4 DEF SendLabels
  <2>6. QED
    BY <2>3, <2>4, <2>5 DEF Woken
<1>5. pc'[t] = "sjoin" => \/ pc'[S(c)] \in {"test", "send", "sig", "del", "end"}
                          \/ pc'[S(c)] = "len" /\ slen[c] > 0
  <2> HAVE pc'[t] = "sjoin"
  <2>1. Moves(t, "s2", "sjoin") /\ \A u \in Threads \ {t} : pc'[u] = pc[u]
    BY DEF DelMove, Moves
  <2>2. \/ pc[S(c)] \in {"test", "send", "sig", "del", "end"}
        \/ pc[S(c)] = "len" /\ slen[c] > 0
    BY <1>1, <2>1 DEF Tracked, Frozen, Removing, Moves, DelLabels
  <2>3. QED
    BY <2>1, <2>2 DEF Moves
<1>6. pc'[t] = "unlink1" => cond'[c].send = "gone"
  BY DEF DelMove, Moves
<1>7. QED
  BY <1>1, <1>2, <1>3, <1>4, <1>5, <1>6

LEMMA DelFrozen ==
  ASSUME Known, NEW c \in Clients, NEW t, Remover(t, c), DelMove(c, t), windows' = {}, Tracked(c)
  PROVE  Frozen(c)'
<1> USE ThreadFacts
<1> SUFFICES ASSUME NEW u \in Threads, Removing(u, c)', u # t
             PROVE  /\ pc'[u] \in {"r2", "rjoin"} => pc'[R(c)] \in {"test", "recv", "del", "end"}
                    /\ pc'[u] \in {"s2", "sjoin"} =>
                         \/ pc'[S(c)] \in {"test", "send", "sig", "del", "end"}
                         \/ pc'[S(c)] = "len" /\ slen'[c] > 0
                    /\ pc'[u] \in {"unlink1", "unlink2"} => cond'[c].send = "gone"
  BY DelWakes DEF Frozen
<1>1. pc'[u] = pc[u] /\ Removing(u, c)
  BY DelPlaces DEF Removing, Remover, Moves, DelLabels, DelMove, ctl
<1>2. pc[t] = "del" /\ pc'[t] # "swap"
  BY <1>1, DelAlone
<1>3. Moves(t, "del", "end") /\ UNCHANGED cond /\ \A v \in Threads \ {t} : pc'[v] = pc[v]
  BY <1>2 DEF DelMove, Moves
<1>4. slen' = slen
  BY DEF DelMove
<1>5. QED
  BY <1>1, <1>3, <1>4 DEF Tracked, Frozen, Moves

LEMMA DelLeaving ==
  ASSUME Known, NEW c \in Clients, NEW t, Remover(t, c), DelMove(c, t), windows' = {}, Tracked(c)
  PROVE  Leaving(c)'
<1> USE ThreadFacts
<1>1. (c \in Listed' <=> c \in Listed) /\ \A u \in Threads : Remover(u, c)' <=> Remover(u, c)
  BY DEF DelMove, list, Listed, Remover, ctl
<1>2. c \notin Listed => cond'[c].send = "gone"
  BY DelPlaces DEF Tracked, Leaving
<1>3. ASSUME sock'[c] = "null", c \in Listed
      PROVE  \E u \in Threads : Removing(u, c)' /\ pc'[u] \notin {"swap", "unlink2"}
  <2>1. CASE pc[t] = "del"
    <3>1. sock[c] = "null" /\ \A v \in Threads \ {t} : pc'[v] = pc[v]
      BY <1>3, <2>1 DEF DelMove, Moves
    <3>2. PICK u \in Threads : Removing(u, c) /\ pc[u] \notin {"swap", "unlink2"}
      BY <1>3, <3>1, DelPlaces DEF Tracked, Leaving
    <3>3. u # t
      BY <2>1, <3>2 DEF Removing, DelLabels
    <3>4. QED
      BY <1>1, <3>1, <3>2, <3>3 DEF Removing
  <2>2. CASE pc[t] # "del"
    <3>1. pc'[t] \in DelLabels \ {"swap", "unlink2"} /\ t \in Threads
      BY <2>2, DelPlaces
    <3>2. QED
      BY <1>1, <3>1 DEF Removing
  <2>3. QED
    BY <2>1, <2>2
<1>4. QED
  BY <1>1, <1>2, <1>3 DEF Leaving

LEMMA DelHang ==
  ASSUME Known, HangInv, NEW c \in Clients, NEW t, Remover(t, c), DelMove(c, t)
  PROVE  HangInv'
<1> USE ThreadFacts DEF HangInv
<1>1. (\A d \in Clients : Lives(d)') /\ Serving'
  BY DelLives, DelServing
<1>2. ASSUME windows' = {}, NEW d \in Clients  PROVE Tracked(d)'
  <2>1. windows = {} /\ Tracked(d) /\ Tracked(c)
    BY <1>2 DEF DelMove
  <2>2. CASE d = c
    BY <1>2, <2>1, <2>2, DelTalksHandles, DelFrozen, DelLeaving DEF Tracked
  <2>3. CASE d # c
    <3>1. /\ \A u \in Threads \ {t, R(c), S(c)} : pc'[u] = pc[u]
          /\ UNCHANGED <<ctl, list, rthread, sthread, slen, peer>>
          /\ sock'[d] = sock[d] /\ cond'[d] = cond[d]
      BY <2>3 DEF DelMove
    <3>2. \A u \in Threads : Remover(u, d) => u \notin {t, R(c), S(c)}
      BY <2>3 DEF Remover
    <3>3. Untouched(d)
      BY <2>3, <3>1, <3>2 DEF Untouched, Removing, Remover, ctl, list, Listed
    <3>4. QED
      BY <2>1, <3>3, UntouchedTracked
  <2>4. QED
    BY <2>2, <2>3
<1>3. QED
  BY <1>1, <1>2

-----------------------------------------------------------------------------
(* serverDel, where it takes the client out of the list *)

UnlinkMove(c, t) ==
  /\ \/ Moves(t, "unlink1", "unlink2")
     \/ Moves(t, "unlink2", IF t = Main THEN "pick" ELSE "end")
  /\ \A u \in Threads \ {t} : pc'[u] = pc[u]
  /\ UNCHANGED <<ctl, shared, plan, peer>>
  /\ windows \subseteq windows'

LEMMA UnlinkMoves ==
  ASSUME Known, NEW c \in Clients, NEW t, Remover(t, c), UnlinkNext(c, t) \/ UnlinkPrev(c, t)
  PROVE  UnlinkMove(c, t) /\ t \in Threads \ {Acceptor}
<1> USE ThreadFacts DEF At
<1>1. /\ pc \in [Threads -> Labels] /\ t \in Threads \ {Acceptor}
      /\ {"unlink2", "end", "pick"} \subseteq Labels
  BY DEF Known, Inv, Typed, Labels, DelLabels, RecvLabels, Remover
<1>2. CASE UnlinkNext(c, t)
  BY <1>1, <1>2, GoFacts DEF UnlinkNext, UnlinkMove, Moves, Crossing, Enter, net
<1>3. CASE UnlinkPrev(c, t)
  BY <1>1, <1>3, GoFacts DEF UnlinkPrev, UnlinkMove, Moves, Crossing, Enter, net
<1>4. QED
  BY <1>1, <1>2, <1>3

\* Which clients are in the list then.
LEMMA UnlinkListed ==
  ASSUME Known, NEW c \in Clients, NEW t, Remover(t, c), UnlinkNext(c, t) \/ UnlinkPrev(c, t),
         windows' = {}
  PROVE  Listed' = Listed \ {c}
<1> USE ThreadFacts DEF At
<1>1. windows = {} /\ UnlinkMove(c, t) /\ t \in Threads
  BY UnlinkMoves DEF UnlinkMove
<1>2. /\ members \in Seq(Clients) /\ Distinct
      /\ Removing(t, c) => (c \in Listed <=> pc[t] # "unlink2")
  BY <1>1 DEF Known, ListInv, Rest, Membership, Leaves
<1>3. Removing(t, c)
  BY <1>1 DEF Removing, UnlinkMove, Moves, DelLabels
<1>4. CASE UnlinkNext(c, t)
  BY <1>2, <1>3, <1>4, TakenSet DEF UnlinkNext
<1>5. CASE UnlinkPrev(c, t)
  <2>1. members' = members /\ c \notin Listed
    BY <1>2, <1>3, <1>5 DEF UnlinkPrev
  <2>2. QED
    BY <2>1 DEF Listed
<1>6. QED
  BY <1>4, <1>5

LEMMA UnlinkHang ==
  ASSUME Known, HangInv, NEW c \in Clients, NEW t, Remover(t, c),
         UnlinkNext(c, t) \/ UnlinkPrev(c, t)
  PROVE  HangInv'
<1> USE ThreadFacts DEF HangInv
<1>1. /\ UnlinkMove(c, t) /\ t \in Threads \ {Acceptor}
      /\ pc[t] \in {"unlink1", "unlink2"}
      /\ pc'[t] \in {"unlink2", "pick", "end"} /\ (t # Main => pc'[t] # "pick")
      /\ \A u \in Threads \ {t} : pc'[u] = pc[u]
      /\ UNCHANGED <<ctl, shared, plan, peer>>
  BY UnlinkMoves DEF UnlinkMove, Moves
<1>2. sock[c] = "null" /\ Past(t)
  BY <1>1 DEF Known, Inv, Opened, Remover, MainRemoves, DelLabels, Past
<1>3. \A d \in Clients \ {c} : pc'[R(d)] = pc[R(d)] /\ pc'[S(d)] = pc[S(d)]
  BY <1>1 DEF Remover
<1>4. ASSUME NEW d \in Clients  PROVE Lives(d)'
  <2>1. CASE d = c
    BY <1>1, <1>2, <2>1 DEF Lives, Unset, shared, ctl
  <2>2. CASE d # c
    BY <1>1, <1>3, <2>2 DEF Lives, Unset, shared, ctl
  <2>3. QED
    BY <2>1, <2>2
<1>5. Serving'
  <2> SUFFICES ASSUME pc'[Main] = "run"  PROVE running' /\ \A d \in Clients : OnlyGone(d)'
    BY DEF Serving
  <2>1. pc[Main] = "run" /\ t # Main
    BY <1>1
  <2>2. t \in {R(c), S(c)}
    BY <2>1 DEF Remover
  <2>3. running' /\ \A d \in Clients : OnlyGone(d)
    BY <1>1, <2>1 DEF Serving, ctl
  <2>4. OnlyGone(c)'
    BY <1>1, <1>2, <2>2, <2>3 DEF OnlyGone, Dirty
  <2>5. ASSUME NEW d \in Clients \ {c}  PROVE OnlyGone(d)'
    BY <1>1, <1>3, <2>3 DEF OnlyGone, Dirty, Past, Unset, shared
  <2>6. QED
    BY <2>3, <2>4, <2>5
<1>6. ASSUME windows' = {}, NEW d \in Clients  PROVE Tracked(d)'
  <2>1. windows = {} /\ Tracked(d) /\ Tracked(c)
    BY <1>1, <1>6 DEF UnlinkMove
  <2>2. Listed' = Listed \ {c}
    BY <1>6, UnlinkListed
  <2>3. CASE d = c
    <3>1. Removing(t, c) /\ \A u \in Threads : Removing(u, c) => u = t
      BY <1>1, <2>1 DEF Removing, DelLabels, Known, Removal, Clean, InOrder
    <3>2. cond[c].send = "gone"
      BY <1>1, <2>1, <3>1 DEF Tracked, Frozen
    <3>3. Talks(c)' /\ Handles(c)'
      BY <1>1, <1>2, <2>1 DEF Tracked, Talks, Handles, Past, shared, DelLabels
    <3>4. Frozen(c)'
      BY <1>1, <3>1, <3>2 DEF Frozen, Removing, Remover, ctl, shared
    <3>5. Leaving(c)'
      BY <1>1, <2>2, <3>2 DEF Leaving, shared
    <3>6. QED
      BY <2>3, <3>3, <3>4, <3>5 DEF Tracked
  <2>4. CASE d # c
    <3>1. Untouched(d)
      BY <1>1, <1>3, <2>2, <2>4 DEF Untouched, Removing, Remover, ctl, shared
    <3>2. QED
      BY <2>1, <3>1, UntouchedTracked
  <2>5. QED
    BY <2>3, <2>4
<1>7. QED
  BY <1>4, <1>5, <1>6

-----------------------------------------------------------------------------
(* serverAccept and serverAdd *)

LEMMA AcceptLives ==
  ASSUME Known, AcceptMove, \A e \in Clients : Lives(e), NEW c \in Clients
  PROVE  Lives(c)'
<1> USE ThreadFacts DEF AcceptMove, Moves
<1>0. Lives(c) /\ Adding /\ Opened(c)
  BY DEF Known, Inv
<1>1. CASE c # newcomer
  <2>1. pc'[R(c)] = pc[R(c)] /\ pc'[S(c)] = pc[S(c)] /\ sock'[c] = sock[c] /\ cond'[c] = cond[c]
    BY <1>1
  <2>2. QED
    BY <1>0, <1>1, <2>1 DEF Lives, Unset
<1>2. CASE c = newcomer
  <2>1. CASE pc[Acceptor] = "fill"
    <3>1. /\ pc'[Acceptor] = "runR" /\ newcomer' = c
          /\ pc'[R(c)] = pc[R(c)] /\ pc'[S(c)] = pc[S(c)]
      BY <1>2, <2>1 DEF ctl
    <3>2. pc[R(c)] = "off" /\ pc[S(c)] = "off"
      BY <1>0, <1>2, <2>1 DEF Adding, Opened
    <3>3. QED
      BY <3>1, <3>2 DEF Lives
  <2>2. CASE pc[Acceptor] # "fill"
    <3>1. sock' = sock /\ cond' = cond
      BY <2>2
    <3>2. /\ pc'[R(c)] = pc[R(c)] \/ pc'[R(c)] = "test"
          /\ pc'[S(c)] = pc[S(c)] \/ pc'[S(c)] = "test"
      BY <1>2
    <3>3. ASSUME ~Unset(c), pc'[R(c)] = "off"  PROVE FALSE
      <4>1. pc[Acceptor] = "runR"
        BY <1>0, <3>2, <3>3 DEF Lives
      <4>2. QED
        BY <1>2, <3>3, <4>1
    <3>4. ASSUME ~Unset(c), pc'[S(c)] = "off"
          PROVE  pc'[Acceptor] \in {"runR", "setR", "runS"} /\ newcomer' = c
      <4>1. pc[Acceptor] \in {"runR", "setR", "runS"}
        BY <1>0, <3>2, <3>4 DEF Lives
      <4>2. QED
        BY <1>2, <3>4, <4>1 DEF ctl
    <3>5. QED
      BY <1>0, <3>1, <3>2, <3>3, <3>4 DEF Lives, Unset
  <2>3. QED
    BY <2>1, <2>2
<1>3. QED
  BY <1>1, <1>2

LEMMA AcceptServing ==
  ASSUME Known, AcceptMove, Serving
  PROVE  Serving'
<1> USE ThreadFacts DEF AcceptMove, Moves
<1> SUFFICES ASSUME pc'[Main] = "run"  PROVE running' /\ \A c \in Clients : OnlyGone(c)'
  BY DEF Serving
<1>1. pc[Main] = "run"
  OBVIOUS
<1>2. running /\ \A c \in Clients : OnlyGone(c)
  BY <1>1 DEF Serving
<1>3. running'
  BY <1>1, <1>2 DEF ctl
<1>4. ASSUME NEW c \in Clients  PROVE OnlyGone(c)'
  <2>1. CASE c = newcomer /\ pc[Acceptor] = "fill"
    <3>1. pc'[R(c)] = pc[R(c)] /\ pc'[S(c)] = pc[S(c)] /\ sock'[c] = "open"
      BY <2>1
    <3>2. pc[R(c)] = "off" /\ pc[S(c)] = "off"
      BY <2>1 DEF Known, Inv, Adding, Opened
    <3>3. QED
      BY <3>1, <3>2 DEF OnlyGone, Dirty, Past, DelLabels
  <2>2. CASE ~(c = newcomer /\ pc[Acceptor] = "fill")
    <3>1. sock'[c] = sock[c] /\ cond'[c] = cond[c] /\ plan' = plan /\ peer' = peer
      BY <2>2
    <3>2. /\ pc'[R(c)] = pc[R(c)] \/ pc'[R(c)] = "test"
          /\ pc'[S(c)] = pc[S(c)] \/ pc'[S(c)] = "test"
      OBVIOUS
    <3>3. QED
      BY <1>2, <3>1, <3>2 DEF OnlyGone, Dirty, Past, Unset, DelLabels
  <2>3. QED
    BY <2>1, <2>2
<1>5. QED
  BY <1>3, <1>4

LEMMA AcceptTracked ==
  ASSUME Known, AcceptMove, windows' = {}, NEW d \in Clients, d = newcomer, Lives(d), Tracked(d),
         pc[Acceptor] # "accept"
  PROVE  Tracked(d)'
<1>v. d = newcomer
  OBVIOUS
<1> USE ThreadFacts
<1>0. /\ Lives(d) /\ Tracked(d) /\ Adding /\ Opened(d)
      /\ \A t \in Threads : Remover(t, d)' <=> Remover(t, d)
      /\ slen' = slen /\ (d \in Listed' <=> d \in Listed)
  BY <1>v DEF Known, Inv, AcceptMove, list, Listed, Remover
<1>1. CASE pc[Acceptor] = "fill"
  <2>1. /\ \A u \in Threads \ {Acceptor} : pc'[u] = pc[u]
        /\ sock'[d] = "open" /\ rthread' = rthread /\ sthread' = sthread
    BY <1>v, <1>1 DEF AcceptMove, Moves
  <2>2. Unset(d)
    BY <1>0, <1>v, <1>1 DEF Adding
  <2>3. pc[R(d)] = "off" /\ pc[S(d)] = "off" /\ ~MainRemoves(d)
    BY <1>0, <2>2 DEF Opened
  <2>4. Talks(d)' /\ Handles(d)'
    BY <1>0, <2>1, <2>3 DEF Talks, Handles, Tracked
  <2>5. \A t \in Threads : ~Removing(t, d)'
    BY <1>0, <2>1, <2>3 DEF Removing, Remover, MainRemoves, DelLabels
  <2>6. d \in Listed
    BY <1>1, <1>v DEF Known, ListInv, Membership, Comes
  <2>7. QED
    BY <1>0, <2>1, <2>4, <2>5, <2>6 DEF Tracked, Frozen, Leaving
<1>2. CASE pc[Acceptor] # "fill"
  <2>1. sock' = sock /\ cond' = cond /\ pc'[Main] = pc[Main]
    BY <1>2 DEF AcceptMove, Moves
  <2>2. /\ pc'[R(d)] = pc[R(d)] \/ Moves(R(d), "off", "test")
        /\ pc'[S(d)] = pc[S(d)] \/ Moves(S(d), "off", "test")
    BY <1>v DEF AcceptMove
  <2>3. \A t \in Threads : Removing(t, d)' <=> Removing(t, d) /\ pc'[t] = pc[t]
    BY <1>0, <2>1, <2>2 DEF Removing, Remover, Moves, DelLabels
  <2>4. Talks(d)'
    BY <1>0, <2>2 DEF Talks, Tracked, Moves
  <2>5. Handles(d)'
    <3>1. CASE rthread' = rthread /\ sthread' = sthread
      BY <1>0, <2>2, <3>1 DEF Handles, Tracked, Past, Moves, DelLabels
    <3>2. CASE pc[Acceptor] \in {"setR", "setS"}
      <4>1. ~Unset(d) /\ pc[R(d)] # "off" /\ (pc[Acceptor] = "setS" => pc[S(d)] # "off")
        BY <1>0, <1>v, <3>2 DEF Adding, Lives
      <4>2. /\ \A u \in Threads \ {Acceptor} : pc'[u] = pc[u]
            /\ pc[Acceptor] = "setR" => ~Past(R(d)) /\ sthread' = sthread
            /\ pc[Acceptor] = "setS" => ~Past(S(d)) /\ rthread' = rthread
        BY <1>v, <3>2 DEF AcceptMove, Moves
      <4>3. QED
        BY <1>0, <3>2, <4>1, <4>2 DEF Handles, Tracked, Past
    <3>3. QED
      BY <1>2, <3>1, <3>2 DEF AcceptMove, Moves
  <2>6. Frozen(d)'
    <3> SUFFICES ASSUME NEW t \in Threads, Removing(t, d), pc'[t] = pc[t]
                 PROVE  /\ pc[t] \in {"r2", "rjoin"} => pc'[R(d)] \in {"test", "recv", "del", "end"}
                        /\ pc[t] \in {"s2", "sjoin"} =>
                             \/ pc'[S(d)] \in {"test", "send", "sig", "del", "end"}
                             \/ pc'[S(d)] = "len" /\ slen'[d] > 0
                        /\ pc[t] \in {"unlink1", "unlink2"} => cond'[d].send = "gone"
      BY <2>3 DEF Frozen
    <3>1. QED
      BY <1>0, <2>1, <2>2 DEF Frozen, Tracked, Moves
  <2>7. Leaving(d)'
    <3>1. \A t \in Threads : Removing(t, d) => pc'[t] = pc[t]
      BY <2>1, <2>2 DEF Removing, Remover, Moves, DelLabels
    <3>2. QED
      BY <1>0, <2>1, <2>3, <3>1 DEF Leaving, Tracked, Unset
  <2>8. QED
    BY <2>4, <2>5, <2>6, <2>7 DEF Tracked
<1>3. QED
  BY <1>1, <1>2

LEMMA AcceptHang ==
  ASSUME Known, HangInv, AcceptMove
  PROVE  HangInv'
<1> USE ThreadFacts DEF HangInv
<1>1. (\A d \in Clients : Lives(d)') /\ Serving'
  BY AcceptLives, AcceptServing
<1>2. ASSUME windows' = {}, NEW d \in Clients  PROVE Tracked(d)'
  <2>1. windows = {} /\ Tracked(d)
    BY <1>2 DEF AcceptMove
  <2>2. CASE d = newcomer /\ pc[Acceptor] # "accept"
    BY <1>2, <2>1, <2>2, AcceptTracked
  <2>3. CASE ~(d = newcomer /\ pc[Acceptor] # "accept")
    <3>1. /\ pc'[R(d)] = pc[R(d)] /\ pc'[S(d)] = pc[S(d)] /\ pc'[Main] = pc[Main]
          /\ sock'[d] = sock[d] /\ cond'[d] = cond[d]
          /\ rthread'[d] = rthread[d] /\ sthread'[d] = sthread[d]
      BY <2>3 DEF AcceptMove, Moves
    <3>2. UNCHANGED <<list, victim, slen, peer>>
      BY DEF AcceptMove
    <3>3. Untouched(d)
      BY <3>1, <3>2 DEF Untouched, Removing, Remover, list, Listed
    <3>4. QED
      BY <2>1, <3>3, UntouchedTracked
  <2>4. QED
    BY <2>2, <2>3
<1>3. QED
  BY <1>1, <1>2

\* A caller for whom no thread works yet, nor has any worked.
LEMMA NewcomerTracked ==
  ASSUME Known, NEW c \in Clients, Unset(c), Tracked(c),
         \A t \in Threads \ {Acceptor} : pc'[t] = pc[t],
         UNCHANGED <<victim, rthread, sthread, slen, cond>>
  PROVE  Tracked(c)'
<1> USE ThreadFacts
<1>1. pc[R(c)] = "off" /\ pc[S(c)] = "off" /\ ~MainRemoves(c)
  BY DEF Known, Inv, Opened
<1>2. \A t \in Threads : ~Removing(t, c)'
  BY <1>1 DEF Removing, Remover, MainRemoves, DelLabels
<1>3. QED
  BY <1>1, <1>2 DEF Tracked, Talks, Handles, Frozen, Leaving, Unset

LEMMA AcceptedHang ==
  ASSUME Known, HangInv, NEW c \in Clients, Accepted(c)
  PROVE  HangInv'
<1> USE ThreadFacts DEF HangInv
<1>1. /\ \A u \in Threads \ {Acceptor} : pc'[u] = pc[u]
      /\ pc[Acceptor] = "accept" /\ pc[Main] = "run"
      /\ UNCHANGED <<running, victim, rthread, sthread, sock, slen, cond, plan, members>>
      /\ Unset(c) /\ windows' = windows
  BY GoFacts, LabelFacts
     DEF Accepted, At, Known, Inv, Typed, Opened, AddLabels, shared, list
<1>2. \A d \in Clients \ {c} : peer'[d] = peer[d]
  BY DEF Accepted, Known, Inv, Typed
<1>3. pc[R(c)] = "off" /\ pc[S(c)] = "off"
  BY <1>1 DEF Known, Inv, Opened
<1>4. ASSUME NEW d \in Clients  PROVE Lives(d)'
  <2>1. CASE d = c
    BY <1>1, <1>3, <2>1 DEF Lives, Unset
  <2>2. CASE d # c
    BY <1>1, <1>2, <2>2 DEF Lives, Unset
  <2>3. QED
    BY <2>1, <2>2
<1>5. Serving'
  <2>1. running /\ \A d \in Clients : OnlyGone(d)
    BY <1>1 DEF Serving
  <2>2. OnlyGone(c)'
    BY <1>1, <1>3 DEF OnlyGone, Dirty, Past, DelLabels, Unset
  <2>3. ASSUME NEW d \in Clients \ {c}  PROVE OnlyGone(d)'
    BY <1>1, <1>2, <2>1 DEF OnlyGone, Dirty, Past, Unset
  <2>4. QED
    BY <1>1, <2>1, <2>2, <2>3 DEF Serving
<1>6. ASSUME windows' = {}, NEW d \in Clients  PROVE Tracked(d)'
  <2>1. Tracked(d)
    BY <1>1, <1>6
  <2>2. CASE d = c
    BY <1>1, <2>1, <2>2, NewcomerTracked
  <2>3. CASE d # c
    <3>1. Untouched(d)
      BY <1>1, <1>2, <2>3 DEF Untouched, Removing, Remover, Listed
    <3>2. QED
      BY <2>1, <3>1, UntouchedTracked
  <2>4. QED
    BY <2>2, <2>3
<1>7. QED
  BY <1>4, <1>5, <1>6

LEMMA LinkLastHang ==
  ASSUME Known, HangInv, LinkLast
  PROVE  HangInv'
<1> USE ThreadFacts DEF HangInv
<1>1. /\ \A u \in Threads \ {Acceptor} : pc'[u] = pc[u]
      /\ pc[Acceptor] = "link1" /\ newcomer \in Clients /\ Unset(newcomer)
      /\ UNCHANGED <<ctl, rthread, sthread, slen, cond, plan, peer, members>>
      /\ windows \subseteq windows'
  BY GoFacts, LabelFacts
     DEF LinkLast, At, Known, Inv, Typed, Adding, AddLabels, Crossing, Enter, net
<1>2. PICK c \in Clients : c = newcomer
  BY <1>1
<1>3. \A d \in Clients \ {c} : sock'[d] = sock[d]
  BY <1>2 DEF LinkLast, Known, Inv, Typed
<1>4. pc[R(c)] = "off" /\ pc[S(c)] = "off"
  BY <1>1, <1>2 DEF Known, Inv, Opened
<1>5. ASSUME NEW d \in Clients  PROVE Lives(d)'
  <2>1. CASE d = c
    BY <1>1, <1>2, <1>4, <2>1 DEF Lives, Unset
  <2>2. CASE d # c
    BY <1>1, <1>3, <2>2 DEF Lives, Unset, ctl
  <2>3. QED
    BY <2>1, <2>2
<1>6. Serving'
  <2> SUFFICES ASSUME pc[Main] = "run"  PROVE running' /\ \A d \in Clients : OnlyGone(d)'
    BY <1>1 DEF Serving
  <2>1. running' /\ \A d \in Clients : OnlyGone(d)
    BY <1>1 DEF Serving, ctl
  <2>2. OnlyGone(c)'
    BY <1>1, <1>2, <1>4 DEF OnlyGone, Dirty, Past, DelLabels, Unset
  <2>3. ASSUME NEW d \in Clients \ {c}  PROVE OnlyGone(d)'
    BY <1>1, <1>3, <2>1 DEF OnlyGone, Dirty, Past, Unset
  <2>4. QED
    BY <2>1, <2>2, <2>3
<1>7. ASSUME windows' = {}, NEW d \in Clients  PROVE Tracked(d)'
  <2>1. Tracked(d)
    BY <1>1, <1>7
  <2>2. CASE d = c
    BY <1>1, <1>2, <2>1, <2>2, NewcomerTracked DEF ctl
  <2>3. CASE d # c
    <3>1. Untouched(d)
      BY <1>1, <1>3, <2>3 DEF Untouched, Removing, Remover, Listed, ctl
    <3>2. QED
      BY <2>1, <3>1, UntouchedTracked
  <2>4. QED
    BY <2>2, <2>3
<1>8. QED
  BY <1>5, <1>6, <1>7

LEMMA LinkBackHang ==
  ASSUME Known, HangInv, LinkBack
  PROVE  HangInv'
<1> USE ThreadFacts DEF HangInv
<1>1. /\ \A u \in Threads \ {Acceptor} : pc'[u] = pc[u]
      /\ pc[Acceptor] = "link2" /\ newcomer \in Clients /\ Unset(newcomer)
      /\ UNCHANGED <<ctl, shared, plan, peer>> /\ windows \subseteq windows'
  BY GoFacts, LabelFacts
     DEF LinkBack, At, Known, Inv, Typed, Adding, AddLabels, Crossing, Enter, net
<1>2. PICK c \in Clients : c = newcomer
  BY <1>1
<1>3. members \in Seq(Clients) /\ members' = Append(members, c)
  BY <1>2 DEF LinkBack, Known, ListInv, Rest
<1>4. ASSUME NEW d \in Clients \ {c}  PROVE d \in Listed' <=> d \in Listed
  <2>1. /\ Len(members') = Len(members) + 1 /\ members'[Len(members) + 1] = c
        /\ \A i \in 1..Len(members) : members'[i] = members[i]
    BY <1>3
  <2>2. QED
    BY <1>3, <1>4, <2>1 DEF Listed
<1>5. \A d \in Clients : Lives(d)'
  BY <1>1 DEF Lives, Unset, shared, ctl
<1>6. Serving'
  BY <1>1 DEF Serving, OnlyGone, Dirty, Past, Unset, shared, ctl
<1>7. ASSUME windows' = {}, NEW d \in Clients  PROVE Tracked(d)'
  <2>1. Tracked(d)
    BY <1>1, <1>7
  <2>2. CASE d = c
    BY <1>1, <1>2, <2>1, <2>2, NewcomerTracked DEF ctl, shared
  <2>3. CASE d # c
    <3>1. Untouched(d)
      BY <1>1, <1>4, <2>3 DEF Untouched, Removing, Remover, ctl, shared
    <3>2. QED
      BY <2>1, <3>1, UntouchedTracked
  <2>4. QED
    BY <2>2, <2>3
<1>8. QED
  BY <1>5, <1>6, <1>7

-----------------------------------------------------------------------------
(* The main thread outside serverDel, and the client programs *)

LEMMA MainHang ==
  ASSUME Known, HangInv, MainMove
  PROVE  HangInv'
<1> USE ThreadFacts DEF HangInv
<1>1. /\ \A u \in Threads \ {Main} : pc'[u] = pc[u]
      /\ UNCHANGED <<list, newcomer, sock, rthread, sthread, slen, cond, peer>>
      /\ windows \subseteq windows' /\ pc'[Main] # "run" /\ pc[Main] \notin DelLabels
      /\ pc'[Main] \in DelLabels => pc'[Main] = "swap"
  BY DEF MainMove, Moves, DelLabels
<1>2. (\A d \in Clients : Lives(d)') /\ Serving'
  BY <1>1 DEF Lives, Serving, Unset
<1>3. ASSUME windows' = {}, NEW d \in Clients  PROVE Tracked(d)'
  <2>1. Tracked(d)
    BY <1>1, <1>3
  <2>2. Untouched(d)
    BY <1>1 DEF Untouched, Removing, Remover, list, Listed
  <2>3. QED
    BY <2>1, <2>2, UntouchedTracked
<1>4. QED
  BY <1>2, <1>3

LEMMA QuietHang ==
  ASSUME Known, HangInv, UNCHANGED <<pc, ctl, shared, list, plan, windows>>,
         \A c \in Clients : peer[c] = "gone" => peer'[c] = "gone"
  PROVE  HangInv'
<1> USE DEF HangInv
<1>1. (\A d \in Clients : Lives(d)') /\ Serving'
  BY DEF Lives, Serving, OnlyGone, Dirty, Past, Unset, ctl, shared
<1>2. ASSUME windows' = {}, NEW d \in Clients  PROVE Tracked(d)'
  <2>1. Tracked(d) /\ Untouched(d)
    BY <1>2 DEF Untouched, Removing, Remover, ctl, shared, list, Listed
  <2>2. QED
    BY <2>1, UntouchedTracked
<1>3. QED
  BY <1>1, <1>2

-----------------------------------------------------------------------------
(* All of Next *)

LEMMA HangNext ==
  ASSUME Known, Known', HangInv, [Next]_vars
  PROVE  HangInv'
<1>0. Inv
  BY DEF Known
<1>1. ASSUME NEW c \in Clients, NEW t, Remover(t, c), Del(c, t)  PROVE HangInv'
  BY <1>0, <1>1, DelMoves, DelHang, UnlinkHang
<1>2. ASSUME NEW c \in Clients, RecvThread(c)  PROVE HangInv'
  BY <1>0, <1>1, <1>2, ReceiveMoves, ReceiveHang DEF RecvThread, Remover
<1>3. ASSUME NEW c \in Clients, SendThread(c)  PROVE HangInv'
  BY <1>0, <1>1, <1>3, SendMoves, SendHang DEF SendThread, Remover
<1>4. ASSUME MainStep  PROVE HangInv'
  BY <1>0, <1>1, <1>4, MainMoves, MainHang DEF MainStep, Remover, Inv, Typed
<1>5. ASSUME Accept  PROVE HangInv'
  BY <1>0, <1>5, AcceptMoves, AcceptHang, AcceptedHang, LinkBackHang, LinkLastHang
<1>6. ASSUME NEW c \in Clients, Call(c) \/ HangUp(c) \/ SendMessage(c)  PROVE HangInv'
  <2>1. \A d \in Clients : peer[d] = "gone" => peer'[d] = "gone"
    BY <1>0, <1>6 DEF Call, HangUp, Peer, SendMessage, Inv, Typed
  <2>2. UNCHANGED <<pc, ctl, shared, list, plan, windows>>
    BY <1>6 DEF Call, HangUp, Peer, SendMessage
  <2>3. QED
    BY <2>1, <2>2, QuietHang
<1>7. CASE UNCHANGED vars
  BY <1>7, QuietHang DEF vars, net
<1>8. ASSUME StopRunning  PROVE HangInv'
  BY <1>0, <1>8, MainMoves, MainHang
<1>9. QED
  BY <1>2, <1>3, <1>4, <1>5, <1>6, <1>7, <1>8 DEF Next

LEMMA HangInit == Init => HangInv
<1> SUFFICES ASSUME Init  PROVE HangInv
  OBVIOUS
<1> USE ThreadFacts DEF Init
<1>1. /\ pc[Main] = "run" /\ running
      /\ \A c \in Clients : /\ pc[R(c)] = "off" /\ pc[S(c)] = "off" /\ Unset(c)
                            /\ ~rthread[c] /\ ~sthread[c]
  BY DEF Unset
<1>2. ASSUME NEW c \in Clients  PROVE Lives(c) /\ OnlyGone(c) /\ Tracked(c)
  <2>1. \A t \in Threads : ~Removing(t, c)
    BY <1>1 DEF Removing, Remover, DelLabels
  <2>2. QED
    BY <1>1, <2>1
       DEF Lives, OnlyGone, Tracked, Talks, Handles, Frozen, Leaving, Past, DelLabels
<1>3. QED
  BY <1>1, <1>2 DEF HangInv, Serving

LEMMA HangInvariant == Spec => [](Known /\ HangInv)
<1>1. Known /\ HangInv /\ [Next]_vars => Known' /\ HangInv'
  BY NextInv, NextRem, ListNext, HangNext DEF Known
<1>2. Init => Known /\ HangInv
  BY InitInv, InitRem, ListInit, HangInit DEF Known
<1>3. QED
  BY <1>1, <1>2, PTL DEF Spec

-----------------------------------------------------------------------------
(* Nobody waits for ever *)

\* When every thread is blocked, no client is half way into the list or out of it.
LEMMA BlockedPlaces ==
  ASSUME Known, HangInv, windows = {}, \A t \in Threads : Blocked(t)
  PROVE  /\ pc[Acceptor] \in {"accept", "end"}
         /\ \A c \in Clients :
              /\ pc[R(c)] \in {"off", "end", "waiting", "recv"}
              /\ pc[S(c)] \in {"off", "end", "waiting"}
              /\ \A t \in Threads : ~Removing(t, c)
         /\ pc[Main] \in {"run", "pick", "end"}
<1> USE ThreadFacts
<1>1. \A t \in Threads :
        pc[t] \in {"off", "end", "waiting", "run", "recv", "rjoin", "sjoin", "pick", "accept"}
  BY DEF Blocked
<1>2. /\ pc[Acceptor] \in {"accept", "end"}
      /\ pc[Main] \in {"run", "pick", "end", "rjoin", "sjoin"}
      /\ \A c \in Clients : /\ pc[R(c)] \in {"off", "end", "waiting", "recv", "rjoin", "sjoin"}
                            /\ pc[S(c)] \in {"off", "end", "waiting", "rjoin", "sjoin"}
  BY <1>1 DEF Known, Inv, InPlace, AddLabels, RecvLabels, SendLabels, DelLabels
<1>3. ASSUME NEW c \in Clients, NEW t \in Threads, Removing(t, c)  PROVE FALSE
  <2>1. pc[t] \in {"rjoin", "sjoin"}
    BY <1>1, <1>3 DEF Removing, DelLabels
  <2>2. sock[c] = "null"
    BY <1>3, <2>1 DEF Removing, Remover, MainRemoves, Known, Inv, Opened, DelLabels
  <2>3. (IF t = Main THEN victim ELSE t[1]) = c
    BY <1>3 DEF Removing, Remover
  <2>4. Frozen(c)
    BY DEF HangInv, Tracked
  <2>5. Blocked(t) /\ Blocked(R(c))
    OBVIOUS
  <2>6. CASE pc[t] = "rjoin"
    <3>1. pc[R(c)] \in {"recv", "end"}
      BY <1>2, <1>3, <2>4, <2>6 DEF Frozen
    <3>2. pc[R(c)] # "recv"
      BY <2>2, <2>5 DEF Blocked
    <3>3. QED
      BY <2>3, <2>5, <2>6, <3>1, <3>2 DEF Blocked
  <2>7. CASE pc[t] = "sjoin"
    <3>1. pc[S(c)] = "end"
      BY <1>2, <1>3, <2>4, <2>7 DEF Frozen
    <3>2. QED
      BY <2>3, <2>5, <2>7, <3>1 DEF Blocked
  <2>8. QED
    BY <2>1, <2>6, <2>7
<1>4. ASSUME NEW c \in Clients  PROVE ~Removing(R(c), c) /\ ~Removing(S(c), c)
  BY <1>3
<1>5. pc[Main] \notin {"rjoin", "sjoin"}
  BY <1>3 DEF Removing, Remover, DelLabels, Known, Inv, InPlace
<1>6. QED
  BY <1>2, <1>3, <1>4, <1>5 DEF Removing, Remover, DelLabels

\* Those that are in it have threads and an open socket, the others are gone.
LEMMA BlockedClients ==
  ASSUME Known, HangInv, windows = {}, \A t \in Threads : Blocked(t), NEW c \in Clients
  PROVE  /\ c \in Listed => ~Unset(c)
         /\ ~Unset(c) => pc[R(c)] # "off" /\ pc[S(c)] # "off"
         /\ ~Unset(c) /\ sock[c] = "null" => c \notin Listed /\ Past(R(c))
         /\ sock[c] # "null" => pc[R(c)] # "end" /\ pc[S(c)] # "end"
<1> USE BlockedPlaces
<1>1. c \in Listed => ~Unset(c)
  BY DEF Known, ListInv, Membership, Comes
<1>2. Lives(c) /\ Leaving(c) /\ InOrder(c)
  BY DEF HangInv, Tracked, Known, Removal, Clean
<1>3. ~Unset(c) /\ sock[c] = "null" => c \notin Listed /\ cond[c].send = "gone"
  BY <1>2 DEF Leaving
<1>4. QED
  BY <1>1, <1>2, <1>3 DEF Lives, InOrder

\* While the server runs, only threads with nothing to do wait, and the clients that
\* hung up have left the list.
LEMMA BlockedRunning ==
  ASSUME Known, HangInv, windows = {}, \A t \in Threads : Blocked(t), pc[Main] = "run",
         NEW c \in Clients
  PROVE  /\ pc[R(c)] # "waiting"
         /\ peer[c] = "up" /\ ~Dirty(c) => owed[c] = 0
         /\ peer[c] = "gone" => c \notin Listed
<1> USE ThreadFacts
<1>1. /\ pc[R(c)] \in {"off", "end", "waiting", "recv"}
      /\ pc[S(c)] \in {"off", "end", "waiting"}
  BY BlockedPlaces
<1>2. Opened(c) /\ HandedOver(c) /\ Talks(c) /\ OnlyGone(c) /\ slen[c] \in Nat
  BY ServerAssumption DEF Known, Inv, Typed, HangInv, Tracked, Serving
<1>3. pc[R(c)] # "waiting"
  <2> SUFFICES ASSUME pc[R(c)] = "waiting"  PROVE FALSE
    OBVIOUS
  <2>1. ~Unset(c) /\ ~Past(R(c))
    BY <1>2 DEF Opened, Past, DelLabels
  <2>2. pc[S(c)] = "waiting"
    BY <1>1, <2>1, BlockedClients
  <2>3. slen[c] > 0
    BY <2>2, <1>2 DEF Talks
  <2>4. QED
    BY <1>2, <2>2, <2>3 DEF Talks
<1>4. ASSUME peer[c] = "up", ~Dirty(c)  PROVE owed[c] = 0
  <2>1. pc[R(c)] # "end"
    BY <1>2, <1>4 DEF OnlyGone, Dirty, Past
  <2>2. ~(slen[c] > 0)
    BY <1>1, <1>2, <1>3, <1>4, <2>1 DEF HandedOver, Busy
  <2>3. QED
    BY <1>2, <1>4, <2>2 DEF HandedOver
<1>5. ASSUME peer[c] = "gone", c \in Listed  PROVE FALSE
  <2>1. pc[R(c)] = "recv"
    BY <1>1, <1>3, <1>5, BlockedClients
  <2>2. Blocked(R(c))
    OBVIOUS
  <2>3. QED
    BY <1>5, <2>1, <2>2 DEF Blocked
<1>6. QED
  BY <1>3, <1>4, <1>5

\* No signal is missed: when no thread can go on, all requests are answered, no thread
\* waits for another one's end, clients that hung up are removed and serverEnd is not
\* held up, unless the behaviour met one of the windows of the code.  Of a client whose
\* send buffer did not begin empty, all but the answers is claimed as well.
THEOREM NeverHangs == Spec => []NothingHangs
<1>1. Known /\ HangInv => NothingHangs
  <2> SUFFICES ASSUME Known, HangInv, windows = {}, \A t \in Threads : Blocked(t)
               PROVE  /\ \A t \in Threads : pc[t] \notin {"rjoin", "sjoin", "pick"}
                      /\ pc[Main] = "run" => \A c \in Clients :
                           /\ pc[R(c)] # "waiting"
                           /\ peer[c] = "up" /\ ~Dirty(c) => owed[c] = 0
                           /\ peer[c] = "gone" => \A i \in DOMAIN members : members[i] # c
    BY DEF NothingHangs
  <2> USE ThreadFacts, BlockedPlaces
  <2>0. members \in Seq(Clients) /\ Forward(members, Nil)
    <3>1. Midway = {}
      <4>1. \A t \in Threads : pc[t] \notin {"link2", "unlink2"}
        BY DEF Blocked
      <4>2. QED
        BY <4>1 DEF Midway
    <3>2. QED
      BY <3>1 DEF Known, ListInv, Rest, Calm, Chain
  <2>1. pc[Main] # "pick"
    <3> SUFFICES ASSUME pc[Main] = "pick"  PROVE FALSE
      OBVIOUS
    <3>1. head # Nil /\ sock[head] = "null"
      <4>1. Blocked(Main)
        OBVIOUS
      <4>2. QED
        BY <4>1 DEF Blocked
    <3>2. Len(members) > 0 /\ head = members[1]
      <4>1. Len(members) \in Nat /\ 0 \in 0..Len(members)
        BY <2>0
      <4>2. head = IF 0 = Len(members) THEN Nil ELSE members[1]
        BY <2>0, <4>1 DEF Forward
      <4>3. QED
        BY <3>1, <4>1, <4>2
    <3>3. head \in Clients /\ head \in Listed
      BY <2>0, <3>2 DEF Listed
    <3>4. QED
      BY <3>1, <3>3, BlockedClients
  <2>2. ASSUME NEW t \in Threads  PROVE pc[t] \notin {"rjoin", "sjoin", "pick"}
    <3>1. t = Main \/ t = Acceptor \/ \E c \in Clients : t = R(c) \/ t = S(c)
      BY DEF Threads, R, S
    <3>2. QED
      BY <2>1, <3>1
  <2>3. ASSUME pc[Main] = "run", NEW c \in Clients
        PROVE  /\ pc[R(c)] # "waiting"
               /\ peer[c] = "up" /\ ~Dirty(c) => owed[c] = 0
               /\ peer[c] = "gone" => \A i \in DOMAIN members : members[i] # c
    BY <2>0, <2>3, BlockedRunning DEF Listed
  <2>4. QED
    BY <2>2, <2>3
<1>2. QED
  BY <1>1, HangInvariant, PTL
=============================================================================
