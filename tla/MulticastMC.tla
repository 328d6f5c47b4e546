---------------------------- MODULE MulticastMC ----------------------------
(***************************************************************************)
(* One group and two sockets; one source that filters name, and the        *)
(* stranger they do not.                                                   *)
(***************************************************************************)
EXTENDS Multicast

CONSTANT a

(* An ordinary network, one where a is a broadcast address, and none. *)
MCNetworks == {[bad |-> {}, up |-> TRUE], [bad |-> {a}, up |-> TRUE],
               [bad |-> {}, up |-> FALSE]}
=============================================================================
