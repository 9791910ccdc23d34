-------------------------------- MODULE Ledger --------------------------------
(***************************************************************************)
(* What the relay promises about users.used_quota: each request is an      *)
(* account of its own, which is opened at most once with a hold, and which *)
(* closes at most once: billed at the price of its log row, or given back. *)
(* Every change of used_quota belongs to one such step of one request.     *)
(*                                                                         *)
(* Settlement implements this specification when no database               *)
(* acknowledgement is lost.                                                *)
(***************************************************************************)
EXTENDS Integers

CONSTANTS Request,      \* relay requests
          User,         \* users
          Payer         \* Payer[r]: the user whose used_quota pays for r

VARIABLES used,         \* users.used_quota
          phase,        \* "none", "held", "refunded" or "billed"
          amount        \* what the request currently accounts for in used

ledgerVars == <<used, phase, amount>>

LedgerInit ==
    /\ used = [u \in User |-> 0]
    /\ phase = [r \in Request |-> "none"]
    /\ amount = [r \in Request |-> 0]

\* The request's share of used_quota goes to a new amount.
Account(r, p) ==
    /\ phase' = [phase EXCEPT ![r] = p]
    /\ amount' \in [Request -> Nat]
    /\ \A s \in Request \ {r} : amount'[s] = amount[s]
    /\ used' = [used EXCEPT ![Payer[r]] = @ + (amount'[r] - amount[r])]

\* The estimate is reserved (PreCharge).
Hold(r) == phase[r] = "none" /\ Account(r, "held")

\* The request is priced and logged, and the price takes the place of the
\* reservation, if there was one (Finalize).
Bill(r) == phase[r] \in {"none", "held"} /\ Account(r, "billed")

\* The reservation is given back (Release); nothing can follow.
Refund(r) == phase[r] = "held" /\ Account(r, "refunded") /\ amount'[r] = 0

LedgerNext == \E r \in Request : Hold(r) \/ Bill(r) \/ Refund(r)

LedgerSpec == LedgerInit /\ [][LedgerNext]_ledgerVars
===============================================================================
