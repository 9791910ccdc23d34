--------------------------------- MODULE Topup ---------------------------------
(***************************************************************************)
(* How money enters an account: redemption codes and payment orders,       *)
(* server/internal/topup/topup.go, with the administrator's deletion of    *)
(* codes (admin/admin.go).                                                 *)
(*                                                                         *)
(* A call is the goroutine of an HTTP request.  A handler first reads a    *)
(* row and later writes it, and other calls commit in between: one action  *)
(* is the read, another the transaction or statement that writes.  A read  *)
(* that makes the handler refuse changes nothing and is no step.  A call   *)
(* serves any number of requests, one after the other.                     *)
(*                                                                         *)
(* Alipay is outside the program: it reports a trade until the server      *)
(* answers "success".                                                      *)
(*                                                                         *)
(* A definition called Wrong... is a slip in the definition after it, for  *)
(* showing that the properties can fail; no specification uses it.         *)
(***************************************************************************)
EXTENDS Totals

CONSTANTS
    Call,           \* goroutines that serve HTTP requests
    User,
    Code,           \* redemption codes, all created "unused"
    Order,          \* payment orders
    AmountOf,       \* AmountOf[x]: what the code or order x is worth
    OwnerOf,        \* OwnerOf[o]: the user who places the order
    Production,     \* is cfg.Env "production"?
    Faults          \* which of FaultKinds may happen

FaultKinds == {"dbError",   \* a transaction or statement fails and has no effect
               "ackLost",   \* it takes effect, and the handler is told it failed
               "crash"}     \* the goroutine dies between its read and its write

Item == Code \cup Order

Nobody == "nobody"

ASSUME ItemsAssumption ==
    /\ IsFiniteSet(Call) /\ IsFiniteSet(User)
    /\ Code \cap Order = {}
    /\ Nobody \notin User
    /\ AmountOf \in [Item -> Nat]
    /\ OwnerOf \in [Order -> User]
ASSUME ModesAssumption == Production \in BOOLEAN /\ Faults \subseteq FaultKinds

VARIABLES
    quota,      \* users.quota
    code,       \* redemption_codes.status, or "deleted"
    usedBy,     \* redemption_codes.used_by
    order,      \* payment_orders.status, or "none" before the order exists
    audit,      \* audit[u][x]: audit rows that credit x to user u
    trade,      \* at Alipay: "open", "paid", "closed", or "refunded" (paid, then closed)
    acked,      \* acked[o]: the server answered "success" to the payment report of o
    job         \* job[c]: what c will write, as its read decided

money == <<quota, code, usedBy, order, audit>>
vars == <<quota, code, usedBy, order, audit, trade, acked, job>>

NoJob == [op |-> "none"]
RedeemJob == [op : {"redeem"}, of : Code, by : User]
OrderJob == [op : {"notify", "simulate", "cancel", "close"}, of : Order]

Init ==
    /\ quota = [u \in User |-> 0]
    /\ code = [k \in Code |-> "unused"]
    /\ usedBy = [k \in Code |-> Nobody]
    /\ order = [o \in Order |-> "none"]
    /\ audit = [u \in User |-> [x \in Item |-> 0]]
    /\ trade = [o \in Order |-> "open"]
    /\ acked = [o \in Order |-> FALSE]
    /\ job = [c \in Call |-> NoJob]

Begin(c, j) == job[c] = NoJob /\ job' = [job EXCEPT ![c] = j]

Doing(c, op) == job[c] # NoJob /\ job[c].op = op

End(c) == job' = [job EXCEPT ![c] = NoJob]

WrongCredit(u, x) ==    \* the sign
    /\ quota' = [quota EXCEPT ![u] = @ - AmountOf[x]]
    /\ audit' = [audit EXCEPT ![u][x] = @ + 1]

\* quota = quota + amount, and the audit row, in the transaction of the caller.
\* An INSERT of the audit row that fails is only logged (audit.go), but it aborts
\* the transaction in PostgreSQL, whose COMMIT then rolls back: that is Abort.
Credit(u, x) ==
    /\ quota' = [quota EXCEPT ![u] = @ + AmountOf[x]]
    /\ audit' = [audit EXCEPT ![u][x] = @ + 1]

-------------------------------------------------------------------------------
(* redeem                                                                   *)

WrongUsable(k) == code[k] # "deleted"       \* also a used code

\* First finds the code, and its status is not "used".
Usable(k) == code[k] = "unused"

RedeemRead(c, k, u) ==
    /\ Usable(k)
    /\ Begin(c, [op |-> "redeem", of |-> k, by |-> u])
    /\ UNCHANGED <<money, trade, acked>>

\* UPDATE of the code by its id, whatever its status has become (no row if it
\* was deleted), the credit, COMMIT.
Redeem(c) ==
    /\ Doing(c, "redeem")
    /\ LET k == job[c].of IN
         /\ IF code[k] = "deleted"
            THEN UNCHANGED <<code, usedBy>>
            ELSE /\ code' = [code EXCEPT ![k] = "used"]
                 /\ usedBy' = [usedBy EXCEPT ![k] = job[c].by]
         /\ Credit(job[c].by, k)
    /\ End(c)
    /\ UNCHANGED <<order, trade, acked>>

DeleteRedemption(k) ==
    /\ code[k] # "deleted"
    /\ code' = [code EXCEPT ![k] = "deleted"]
    /\ UNCHANGED <<quota, usedBy, order, audit, trade, acked, job>>

-------------------------------------------------------------------------------
(* Orders                                                                   *)

CreateOrder(o) ==
    /\ order[o] = "none"
    /\ order' = [order EXCEPT ![o] = "PENDING"]
    /\ UNCHANGED <<quota, code, usedBy, audit, trade, acked, job>>

CancelRead(c, o) ==
    /\ order[o] = "PENDING"
    /\ Begin(c, [op |-> "cancel", of |-> o])
    /\ UNCHANGED <<money, trade, acked>>

\* UPDATE status = "CANCELLED", whatever the status has become.
Cancel(c) ==
    /\ Doing(c, "cancel")
    /\ order' = [order EXCEPT ![job[c].of] = "CANCELLED"]
    /\ End(c)
    /\ UNCHANGED <<quota, code, usedBy, audit, trade, acked>>

WrongAnswer(c, ok) ==       \* also when the order cannot be completed
    acked' = IF job[c].op = "notify" THEN [acked EXCEPT ![job[c].of] = TRUE] ELSE acked

\* What the server answers to a payment report stops Alipay or not; simulatePaid
\* answers its user.
Answer(c, ok) ==
    acked' = IF ok /\ job[c].op = "notify" THEN [acked EXCEPT ![job[c].of] = TRUE]
             ELSE acked

\* completeOrderWithIP looks at the order that its caller has read.
NotifyRead(c, o) ==
    /\ trade[o] \in {"paid", "refunded"}
    /\ ~acked[o]
    /\ \/ order[o] = "PENDING" /\ Begin(c, [op |-> "notify", of |-> o]) /\ UNCHANGED acked
       \/ /\ order[o] = "COMPLETED"
          /\ job[c] = NoJob
          /\ acked' = [acked EXCEPT ![o] = TRUE]
          /\ UNCHANGED job
    /\ UNCHANGED <<money, trade>>

SimulateRead(c, o) ==
    /\ ~Production
    /\ order[o] = "PENDING"
    /\ Begin(c, [op |-> "simulate", of |-> o])
    /\ UNCHANGED <<money, trade, acked>>

WrongCompletable(o) == order[o] # "CANCELLED"       \* completes a second time

\* The status under SELECT ... FOR UPDATE.
Completable(o) == order[o] = "PENDING"

\* The effects of the transaction, and whether it returns nil.
CompleteTx(o) ==
    IF Completable(o)
    THEN /\ order' = [order EXCEPT ![o] = "COMPLETED"]
         /\ Credit(OwnerOf[o], o)
         /\ UNCHANGED <<code, usedBy>>
    ELSE UNCHANGED money

Complete(c) ==
    /\ Doing(c, "notify") \/ Doing(c, "simulate")
    /\ CompleteTx(job[c].of)
    /\ Answer(c, order[job[c].of] # "CANCELLED")
    /\ End(c)
    /\ UNCHANGED trade

\* TRADE_CLOSED overwrites any status.
CloseRead(c, o) ==
    /\ order[o] # "none"
    /\ trade[o] \in {"closed", "refunded"}
    /\ Begin(c, [op |-> "close", of |-> o])
    /\ UNCHANGED <<money, trade, acked>>

Close(c) ==
    /\ Doing(c, "close")
    /\ order' = [order EXCEPT ![job[c].of] = "CANCELLED"]
    /\ End(c)
    /\ UNCHANGED <<quota, code, usedBy, audit, trade, acked>>

-------------------------------------------------------------------------------
(* Faults                                                                   *)

WrongAbort(c) ==        \* "success" before the transaction has succeeded
    /\ job[c] # NoJob
    /\ "dbError" \in Faults
    /\ Answer(c, TRUE)
    /\ End(c)
    /\ UNCHANGED <<money, trade>>

\* The transaction is rolled back and an error is answered, or nothing is.
Abort(c) ==
    /\ job[c] # NoJob
    /\ Faults \cap {"dbError", "crash"} # {}
    /\ End(c)
    /\ UNCHANGED <<money, trade, acked>>

\* COMMIT took effect, its acknowledgement is lost, and an error is answered.
AckLost(c) ==
    /\ "ackLost" \in Faults
    /\ \/ Redeem(c) \/ Cancel(c) \/ Close(c)
       \/ /\ Doing(c, "notify") \/ Doing(c, "simulate")
          /\ CompleteTx(job[c].of)
          /\ End(c)
          /\ UNCHANGED <<trade, acked>>

-------------------------------------------------------------------------------
(* Alipay                                                                   *)

\* The payment page belongs to the order that was created, cancelled here or not.
Pay(o) ==
    /\ order[o] # "none"
    /\ trade[o] = "open"
    /\ trade' = [trade EXCEPT ![o] = "paid"]
    /\ UNCHANGED <<money, acked, job>>

\* The trade times out, or is refunded in full.
CloseTrade(o) ==
    /\ order[o] # "none"
    /\ trade[o] \in {"open", "paid"}
    /\ trade' = [trade EXCEPT ![o] = IF @ = "open" THEN "closed" ELSE "refunded"]
    /\ UNCHANGED <<money, acked, job>>

-------------------------------------------------------------------------------
Writes(c) == Redeem(c) \/ Cancel(c) \/ Complete(c) \/ Close(c) \/ Abort(c) \/ AckLost(c)

Next ==
    \/ \E c \in Call :
         \/ \E k \in Code, u \in User : RedeemRead(c, k, u)
         \/ \E o \in Order :
              CancelRead(c, o) \/ NotifyRead(c, o) \/ SimulateRead(c, o) \/ CloseRead(c, o)
         \/ Writes(c)
    \/ \E k \in Code : DeleteRedemption(k)
    \/ \E o \in Order : CreateOrder(o) \/ Pay(o) \/ CloseTrade(o)

Spec == Init /\ [][Next]_vars

NotifyOf(o) == \E c \in Call : NotifyRead(c, o)
CompleteNotify(o) == \E c \in Call : Doing(c, "notify") /\ job[c].of = o /\ Complete(c)

\* Every handler comes to its end.  Alipay repeats its report until it is
\* acknowledged, some call serves it, and the database does not fail it for ever.
FairSpec ==
    /\ Spec
    /\ \A c \in Call : WF_vars(Writes(c))
    /\ \A o \in Order : SF_vars(NotifyOf(o)) /\ SF_vars(CompleteNotify(o))

-------------------------------------------------------------------------------
(* Properties                                                               *)

TypeOK ==
    /\ quota \in [User -> Nat]
    /\ code \in [Code -> {"unused", "used", "deleted"}]
    /\ usedBy \in [Code -> User \cup {Nobody}]
    /\ order \in [Order -> {"none", "PENDING", "COMPLETED", "CANCELLED"}]
    /\ audit \in [User -> [Item -> Nat]]
    /\ trade \in [Order -> {"open", "paid", "closed", "refunded"}]
    /\ acked \in [Order -> BOOLEAN]
    /\ job \in [Call -> RedeemJob \cup OrderJob \cup {NoJob}]

\* How orders, credits and calls go together; the properties of orders below are
\* inductive beside it.
OrderShape ==
    /\ \A o \in Order :
         order[o] \in {"none", "PENDING"} => \A u \in User : audit[u][o] = 0
    /\ \A c \in Call :
         job[c] # NoJob /\ job[c].op # "redeem" => order[job[c].of] # "none"

IsCredited(o) == audit[OwnerOf[o]][o] > 0

\* An order is credited at most once, to its owner, however often its payment
\* is reported, simulated, cancelled or closed meanwhile.
CreditedOnce ==
    \A o \in Order, u \in User : audit[u][o] <= IF u = OwnerOf[o] THEN 1 ELSE 0

\* Once the server has told Alipay "success", which ends the reports, the order
\* has been credited; and no row says used or completed without its credit.
SuccessMeansCredit ==
    /\ \A o \in Order : acked[o] \/ order[o] = "COMPLETED" => IsCredited(o)
    /\ \A k \in Code : code[k] = "used" => usedBy[k] # Nobody /\ audit[usedBy[k]][k] > 0

\* A payment that is reported is credited in the end, unless the order was
\* cancelled or closed before.
PaidIsCredited ==
    \A o \in Order :
        trade[o] = "paid" ~> IsCredited(o) \/ order[o] = "CANCELLED"

TimesPaid(k) == Total([u \in User |-> audit[u][k]], User)

Redeeming(k) == {c \in Call : Doing(c, "redeem") /\ job[c].of = k}

\* The read of a code and its UPDATE are apart, so it may pay more than once; but
\* only to calls that had all read it before it first paid, and once to each,
\* whatever fails, is deleted or is reported as failed meanwhile.
RedeemBound ==
    \A k \in Code : TimesPaid(k) + Cardinality(Redeeming(k)) <= Cardinality(Call)

\* "The code has already been used" (topup.go:74): a code pays out once.
RedeemOnce == \A k \in Code : TimesPaid(k) <= 1

\* "Only orders that await payment can be cancelled" (topup.go:189): cancelOrder
\* never changes an order in another status.
OnlyPendingIsCancelled ==
    [][\A c \in Call : Cancel(c) => order[job[c].of] \in {"PENDING", "CANCELLED"}]_vars
===============================================================================
