------------------------------ MODULE MCRateLimits ------------------------------
(***************************************************************************)
(* Instances of RateLimits for TLC: one user with one key, which are        *)
(* limited in different ways.                                              *)
(***************************************************************************)
EXTENDS RateLimits

CONSTANTS u1, k1,
          Heavy         \* the requests that predict two tokens instead of one

MCTokenOf == [r \in Request |-> k1]
MCOwnerOf == [t \in Token |-> u1]
MCWeight == [r \in Request |-> IF r \in Heavy THEN 2 ELSE 1]

NoLimits == [k \in Kinds |-> 0]

MCLimit ==
    [h \in Holder |->
        IF h = k1 THEN [NoLimits EXCEPT !["tpm"] = 2, !["concurrency"] = 1]
        ELSE [NoLimits EXCEPT !["qps"] = 1, !["concurrency"] = 1]]
===============================================================================
