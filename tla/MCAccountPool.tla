----------------------------- MODULE MCAccountPool -----------------------------
(***************************************************************************)
(* Instances of AccountPool for TLC: a preferred account a1 and others,    *)
(* and requests that belong to one session or to none.                     *)
(***************************************************************************)
EXTENDS AccountPool, TLC

CONSTANTS a1, s1,
          Loose         \* the requests that send no session id

MCSessionOf == [r \in Request |-> IF r \in Loose THEN None ELSE s1]
MCPriority == [a \in Account |-> IF a = a1 THEN 20 ELSE 10]
MCConcurrencyLimit == [a \in Account |-> 1]
MCRPMLimit == [a \in Account |-> 1]
MCNoRPMLimit == [a \in Account |-> 0]

\* All requests belong to the same session.
Symmetric == Permutations(Request)
===============================================================================
