----------------------------- MODULE MCConsole -----------------------------
(* Instances of the resource pages: per page one or more budgets, each with *)
(* the kinds of events that its handlers have to stand together.            *)
EXTENDS ConsolePages

Of(p, k, f, e, m) ==
    [page |-> p, calls |-> k, faults |-> f, elsewhere |-> e, moves |-> m]

\* Two requests, with a fault, with a change elsewhere, or around a change of
\* pages; or one request with all three; or one request while a filter is
\* changed and changed back, or changed before the page is left.
MCBudgets ==
    {Of("tokens", 2, 1, 0, 0), Of("tokens", 2, 0, 1, 0), Of("tokens", 2, 0, 0, 1)}
    \cup {Of(p, 1, 1, 1, 1) : p \in Pages \ {"tokens"}}
    \cup {Of(p, 2, 0, 0, 0) : p \in Pages \ {"tokens"}}
    \cup {Of(p, 1, 0, 0, 2) : p \in Pages \cap {"users", "codes"}}
=============================================================================
