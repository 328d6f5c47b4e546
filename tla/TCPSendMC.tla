----------------------------- MODULE TCPSendMC -----------------------------
(***************************************************************************)
(* The send path on a small instance.                                      *)
(***************************************************************************)
EXTENDS TCPSend

(* Without SACK there is no early loss detection.  With it: losses found by
   acknowledgements, by the RACK timer, and by the timeout only.            *)
MCPaths ==
    {[sack |-> FALSE, early |-> FALSE, late |-> FALSE, valid |-> FALSE],
     [sack |-> TRUE, early |-> TRUE, late |-> TRUE, valid |-> TRUE],
     [sack |-> TRUE, early |-> TRUE, late |-> FALSE, valid |-> TRUE],
     [sack |-> TRUE, early |-> FALSE, late |-> TRUE, valid |-> FALSE]}
=============================================================================
