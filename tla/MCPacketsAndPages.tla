-------------------------- MODULE MCPacketsAndPages --------------------------
(***************************************************************************)
(* One instance of two parts of the ground station that share no variable, *)
(* the packet formats and the packet list.  A step of one never changes    *)
(* what the other can do, so each shows beside a part at rest all it can   *)
(* show: a part moves only while the other is where it started, and the    *)
(* states are the sum of both and not the product.                         *)
(***************************************************************************)
EXTENDS MCPacketLink, Pagination

BothInit == LinkInit /\ Init

BothNext ==
  \/ Init /\ LinkNext /\ UNCHANGED vars
  \/ LinkInit /\ Next /\ UNCHANGED linkVars

BothSpec == BothInit /\ [][BothNext]_<<linkVars, vars>>

=============================================================================
