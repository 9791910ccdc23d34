----------------------------- MODULE MCSettlement -----------------------------
(***************************************************************************)
(* Instances of Settlement for TLC: requests of an invited user and of the *)
(* user who invited him, each with a key.                                  *)
(***************************************************************************)
EXTENDS Settlement, TLC

CONSTANTS invitee, inviter, \* users
          k1, k2,           \* their keys
          OnKey2            \* the requests that present the inviter's key

MCTokenOf == [r \in Request |-> IF r \in OnKey2 THEN k2 ELSE k1]
MCOwnerOf == [t \in Token |-> IF t = k2 THEN inviter ELSE invitee]
MCInviterOf == [u \in User |-> IF u = invitee THEN inviter ELSE NoUser]

\* The largest estimate fits once into the quota, and not into the key.
MCInitQuota == [u \in User |-> 3]
MCInitRemain == [t \in Token |-> 1]

\* All requests present the same key.
Symmetric == Permutations(Request)
===============================================================================
