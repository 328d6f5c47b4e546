-------------------------- MODULE ReliableTransfer --------------------------
(***************************************************************************)
(* What the sending half of a TCP connection promises its application.     *)
(*                                                                         *)
(* Write hands over units of the stream, the connection confirms them in   *)
(* order and only once, and after the application has closed its side the  *)
(* transfer ends: either everything that was handed over, the end of the   *)
(* stream included, is confirmed, or the connection reports a failure.  It *)
(* never ends with a silent gap and it never hangs.                        *)
(***************************************************************************)
EXTENDS Naturals

VARIABLES handed,      \* units accepted from the application
          confirmed,   \* units, from the first on, the peer has confirmed
          closed,      \* the application closed its side
          outcome      \* "open", "complete" or "failed"

tvars == <<handed, confirmed, closed, outcome>>

TInit == /\ handed = 0
         /\ confirmed = 0
         /\ closed = FALSE
         /\ outcome = "open"

HandOver == /\ outcome = "open"
            /\ ~closed
            /\ handed' = handed + 1
            /\ UNCHANGED <<confirmed, closed, outcome>>

CloseSide == /\ outcome = "open"
             /\ ~closed
             /\ closed' = TRUE
             /\ UNCHANGED <<handed, confirmed, outcome>>

(* A cumulative acknowledgement confirms a further part of what was handed
   over; the one that also covers the end of the stream ends the transfer.  *)
Confirm == /\ outcome = "open"
           /\ confirmed' \in confirmed .. handed
           /\ outcome' \in {"open", "complete"}
           /\ outcome' = "complete" => closed /\ confirmed' = handed
           /\ UNCHANGED <<handed, closed>>

Fail == /\ outcome = "open"
        /\ outcome' = "failed"
        /\ UNCHANGED <<handed, confirmed, closed>>

TNext == HandOver \/ CloseSide \/ Confirm \/ Fail

(* The connection owes its application an end of every closed transfer.     *)
Ends == closed ~> (outcome # "open")

Transfer == TInit /\ [][TNext]_tvars /\ Ends
=============================================================================
