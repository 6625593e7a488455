--------------------------- MODULE KermitTransfer ---------------------------
(***************************************************************************)
(* What one matkermit request promises its caller, without the protocol:   *)
(* the chunks of the requested file reach the output in order, once each,  *)
(* and the request is reported complete only when all of them are there.   *)
(* A command may instead be answered by a single reply, and a request may  *)
(* fail; neither writes anything.                                          *)
(***************************************************************************)
EXTENDS Integers, Sequences

CONSTANT NData          \* number of data chunks of the file on the server

VARIABLES out,          \* the chunks written to the destination handle
          outcome       \* how the request ended

vars == <<out, outcome>>

Outcomes == {"running", "complete", "replied", "failed"}

WholeFile == [i \in 1..NData |-> i]

Init == out = <<>> /\ outcome = "running"

Deliver == /\ outcome = "running"
           /\ Len(out) < NData
           /\ out' = Append(out, Len(out) + 1)
           /\ UNCHANGED outcome

Complete == /\ outcome = "running"
            /\ out = WholeFile
            /\ outcome' = "complete"
            /\ UNCHANGED out

Reply == /\ outcome = "running"
         /\ out = <<>>
         /\ outcome' = "replied"
         /\ UNCHANGED out

Fail == /\ outcome = "running"
        /\ outcome' = "failed"
        /\ UNCHANGED out

Next == Deliver \/ Complete \/ Reply \/ Fail

Spec == Init /\ [][Next]_vars
=============================================================================
