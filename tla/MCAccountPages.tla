--------------------------- MODULE MCAccountPages ---------------------------
(* Instances of the account pages: an administrator who has an account, and *)
(* a user who has none.                                                     *)
EXTENDS AccountPages

With(c, f, e, m, o) ==
    [calls |-> c, forms |-> f, faults |-> e, moves |-> m, elsewhere |-> o]

\* Requests with an answer or a session that fails; with another tab; and the
\* forms of codes, alone and after a sign-in.
MCBudgets ==
    {With(3, 0, 1, 3, 0), With(2, 0, 2, 3, 0), With(2, 0, 1, 2, 1)}
    \cup {With(1, 3, 0, 1, 0), With(0, 4, 0, 2, 0), With(0, 3, 1, 1, 0)}
=============================================================================
