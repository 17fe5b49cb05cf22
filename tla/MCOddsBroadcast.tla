-------------------------- MODULE MCOddsBroadcast --------------------------
(* Instances of OddsBroadcast for TLC: two bets and two subscribers. *)
EXTENDS OddsBroadcast

CONSTANTS s1, s2, b1, b2, o1

(* Sockets and bets are named in the order in which they come, and the      *)
(* option of the first bet is o1: every behaviour is one of these, but for  *)
(* names, and no property tells the names apart.                            *)
NamedInOrder ==
    /\ handler[s2] # "off" => handler[s1] # "off"
    /\ request[b2].pc # "new" => request[b1].pc # "new"
    /\ request[b1].option \in {NoOption, o1}
=============================================================================
