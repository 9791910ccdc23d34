-------------------------------- MODULE MCTopup --------------------------------
(***************************************************************************)
(* Instances of Topup for TLC: two users, of whom the first owns the       *)
(* orders.  Codes and orders are worth different amounts.                  *)
(***************************************************************************)
EXTENDS Topup

CONSTANTS u1, u2

MCAmountOf == [x \in Item |-> IF x \in Code THEN 1 ELSE 2]
MCOwnerOf == [o \in Order |-> u1]
===============================================================================
