------------------------------ MODULE TopupProofs ------------------------------
(***************************************************************************)
(* Theorems about Topup, for any number of calls, users, codes and orders, *)
(* any amounts and any combination of faults.                              *)
(***************************************************************************)
EXTENDS Topup, TotalsProofs

-------------------------------------------------------------------------------
(* Type correctness                                                         *)

\* What a call is doing tells which kind of row it will write.
LEMMA JobType ==
  ASSUME TypeOK, NEW c \in Call
  PROVE  /\ Doing(c, "redeem") => job[c].of \in Code /\ job[c].by \in User
         /\ Doing(c, "cancel") => job[c].of \in Order
         /\ Doing(c, "close") => job[c].of \in Order
         /\ Doing(c, "notify") \/ Doing(c, "simulate") => job[c].of \in Order
<1>1. job[c] \in RedeemJob \/ job[c] \in OrderJob \/ job[c] = NoJob
  BY DEF TypeOK
<1>2. CASE job[c] \in RedeemJob
  BY <1>2 DEF Doing, RedeemJob
<1>3. CASE job[c] \in OrderJob
  BY <1>3 DEF Doing, OrderJob
<1>4. CASE job[c] = NoJob
  BY <1>4 DEF Doing
<1> QED
  BY <1>1, <1>2, <1>3, <1>4

LEMMA ItemType ==
  /\ \A k \in Code : k \in Item
  /\ \A o \in Order : o \in Item /\ OwnerOf[o] \in User
BY ItemsAssumption DEF Item

\* A credit keeps balances and audit counts natural.
LEMMA CreditType ==
  ASSUME TypeOK, NEW u \in User, NEW x \in Item, Credit(u, x)
  PROVE  quota' \in [User -> Nat] /\ audit' \in [User -> [Item -> Nat]]
<1>1. AmountOf[x] \in Nat
  BY ItemsAssumption
<1>2. quota[u] + AmountOf[x] \in Nat
  BY <1>1 DEF TypeOK
<1>3. quota' \in [User -> Nat]
  BY <1>2 DEF TypeOK, Credit
<1>4. audit[u] \in [Item -> Nat] /\ audit[u][x] + 1 \in Nat
  BY DEF TypeOK
<1>5. [audit[u] EXCEPT ![x] = @ + 1] \in [Item -> Nat]
  BY <1>4
<1>6. audit' = [audit EXCEPT ![u] = [audit[u] EXCEPT ![x] = @ + 1]]
  BY DEF Credit, TypeOK
<1> QED
  BY <1>3, <1>5, <1>6 DEF TypeOK

LEMMA InitTypeOK == Init => TypeOK
BY DEF Init, TypeOK

LEMMA BeginType ==
  ASSUME TypeOK, NEW c \in Call, NEW j \in RedeemJob \cup OrderJob, Begin(c, j)
  PROVE  job' \in [Call -> RedeemJob \cup OrderJob \cup {NoJob}]
BY DEF TypeOK, Begin

LEMMA EndType ==
  ASSUME TypeOK, NEW c \in Call, End(c)
  PROVE  job' \in [Call -> RedeemJob \cup OrderJob \cup {NoJob}]
BY DEF TypeOK, End

LEMMA AnswerType ==
  ASSUME TypeOK, NEW c \in Call, NEW ok \in BOOLEAN, Answer(c, ok)
  PROVE  acked' \in [Order -> BOOLEAN]
BY DEF TypeOK, Answer

LEMMA CompleteTxType ==
  ASSUME TypeOK, NEW o \in Order, CompleteTx(o)
  PROVE  /\ quota' \in [User -> Nat] /\ audit' \in [User -> [Item -> Nat]]
         /\ order' \in [Order -> {"none", "PENDING", "COMPLETED", "CANCELLED"}]
         /\ UNCHANGED <<code, usedBy>>
<1>1. CASE Completable(o)
  <2>1. Credit(OwnerOf[o], o) /\ OwnerOf[o] \in User /\ o \in Item
    BY <1>1, ItemType DEF CompleteTx
  <2>2. quota' \in [User -> Nat] /\ audit' \in [User -> [Item -> Nat]]
    BY <2>1, CreditType
  <2> QED
    BY <1>1, <2>2 DEF CompleteTx, TypeOK
<1>2. CASE ~Completable(o)
  BY <1>2 DEF CompleteTx, TypeOK, money
<1> QED
  BY <1>1, <1>2

LEMMA RedeemTypeOK ==
  ASSUME TypeOK, NEW c \in Call, Redeem(c)
  PROVE  TypeOK'
<1>1. job[c].of \in Code /\ job[c].by \in User
  BY JobType DEF Redeem
<1>2. quota' \in [User -> Nat] /\ audit' \in [User -> [Item -> Nat]]
  BY <1>1, ItemType, CreditType DEF Redeem
<1>3. job' \in [Call -> RedeemJob \cup OrderJob \cup {NoJob}]
  BY EndType DEF Redeem
<1>4. /\ code' \in [Code -> {"unused", "used", "deleted"}]
      /\ usedBy' \in [Code -> User \cup {Nobody}]
  BY <1>1 DEF Redeem, TypeOK
<1> QED
  BY <1>2, <1>3, <1>4 DEF Redeem, TypeOK

LEMMA CancelCloseTypeOK ==
  ASSUME TypeOK, NEW c \in Call, Cancel(c) \/ Close(c)
  PROVE  TypeOK'
<1>1. job' \in [Call -> RedeemJob \cup OrderJob \cup {NoJob}]
  BY EndType DEF Cancel, Close
<1>2. order' \in [Order -> {"none", "PENDING", "COMPLETED", "CANCELLED"}]
  BY JobType DEF Cancel, Close, TypeOK
<1> QED
  BY <1>1, <1>2 DEF Cancel, Close, TypeOK

LEMMA CallTypeOK ==
  ASSUME TypeOK, NEW c \in Call, Writes(c)
  PROVE  TypeOK'
<1>1. CASE Redeem(c)
  BY <1>1, RedeemTypeOK
<1>2. CASE Cancel(c) \/ Close(c)
  BY <1>2, CancelCloseTypeOK
<1>3. CASE Complete(c)
  <2>1. job[c].of \in Order
    BY <1>3, JobType DEF Complete
  <2>2. acked' \in [Order -> BOOLEAN]
    BY <1>3, AnswerType DEF Complete
  <2>3. job' \in [Call -> RedeemJob \cup OrderJob \cup {NoJob}]
    BY <1>3, EndType DEF Complete
  <2> QED
    BY <1>3, <2>1, <2>2, <2>3, CompleteTxType DEF Complete, TypeOK
<1>4. CASE Abort(c)
  <2>1. job' \in [Call -> RedeemJob \cup OrderJob \cup {NoJob}]
    BY <1>4, EndType DEF Abort
  <2> QED
    BY <1>4, <2>1 DEF Abort, TypeOK, money
<1>5. CASE AckLost(c)
  <2>1. CASE Redeem(c) \/ Cancel(c) \/ Close(c)
    BY <2>1, RedeemTypeOK, CancelCloseTypeOK
  <2>2. CASE /\ Doing(c, "notify") \/ Doing(c, "simulate")
             /\ CompleteTx(job[c].of)
             /\ End(c)
             /\ UNCHANGED <<trade, acked>>
    <3>1. job[c].of \in Order
      BY <2>2, JobType
    <3>2. job' \in [Call -> RedeemJob \cup OrderJob \cup {NoJob}]
      BY <2>2, EndType
    <3> QED
      BY <2>2, <3>1, <3>2, CompleteTxType DEF TypeOK
  <2> QED
    BY <1>5, <2>1, <2>2 DEF AckLost
<1> QED
  BY <1>1, <1>2, <1>3, <1>4, <1>5 DEF Writes

LEMMA ReadTypeOK ==
  ASSUME TypeOK, NEW c \in Call, NEW o \in Order,
         CancelRead(c, o) \/ NotifyRead(c, o) \/ SimulateRead(c, o) \/ CloseRead(c, o)
  PROVE  TypeOK'
<1>1. \A op \in {"notify", "simulate", "cancel", "close"} : [op |-> op, of |-> o] \in OrderJob
  BY DEF OrderJob
<1>2. job' \in [Call -> RedeemJob \cup OrderJob \cup {NoJob}]
  BY <1>1, BeginType DEF CancelRead, NotifyRead, SimulateRead, CloseRead, TypeOK
<1>3. acked' \in [Order -> BOOLEAN]
  BY DEF CancelRead, NotifyRead, SimulateRead, CloseRead, TypeOK
<1> QED
  BY <1>2, <1>3 DEF CancelRead, NotifyRead, SimulateRead, CloseRead, TypeOK, money

LEMMA StepTypeOK == TypeOK /\ [Next]_vars => TypeOK'
<1> SUFFICES ASSUME TypeOK, [Next]_vars
             PROVE  TypeOK'
  OBVIOUS
<1>1. ASSUME NEW c \in Call, NEW k \in Code, NEW u \in User, RedeemRead(c, k, u)
      PROVE  TypeOK'
  <2>1. [op |-> "redeem", of |-> k, by |-> u] \in RedeemJob
    BY DEF RedeemJob
  <2>2. job' \in [Call -> RedeemJob \cup OrderJob \cup {NoJob}]
    BY <1>1, <2>1, BeginType DEF RedeemRead
  <2> QED
    BY <1>1, <2>2 DEF RedeemRead, TypeOK, money
<1>2. ASSUME NEW k \in Code, DeleteRedemption(k)
      PROVE  TypeOK'
  BY <1>2 DEF DeleteRedemption, TypeOK
<1>3. ASSUME NEW o \in Order, CreateOrder(o) \/ Pay(o) \/ CloseTrade(o)
      PROVE  TypeOK'
  BY <1>3 DEF CreateOrder, Pay, CloseTrade, TypeOK, money
<1>4. CASE UNCHANGED vars
  BY <1>4 DEF vars, TypeOK
<1> QED
  BY <1>1, <1>2, <1>3, <1>4, CallTypeOK, ReadTypeOK DEF Next

\* Every reachable state is well-typed: no sequence of credits, whatever fails
\* in between, leaves the sets that the columns range over.
THEOREM TypeCorrect == Spec => []TypeOK
<1>1. Init => TypeOK
  BY InitTypeOK
<1>2. TypeOK /\ [Next]_vars => TypeOK'
  BY StepTypeOK
<1> QED
  BY <1>1, <1>2, PTL DEF Spec

-------------------------------------------------------------------------------
(* Credits                                                                 *)

\* What a credit does, pointwise.
LEMMA CreditPoints ==
  ASSUME TypeOK, NEW u \in User, NEW x \in Item, Credit(u, x)
  PROVE  /\ quota'[u] = quota[u] + AmountOf[x]
         /\ \A v \in User \ {u} : quota'[v] = quota[v] /\ audit'[v] = audit[v]
         /\ audit'[u][x] = audit[u][x] + 1
         /\ \A y \in Item \ {x} : audit'[u][y] = audit[u][y]
BY DEF TypeOK, Credit

-------------------------------------------------------------------------------
(* Orders and codes                                                         *)

OrderInv == OrderShape /\ CreditedOnce /\ SuccessMeansCredit

\* Codes and orders are different items.
LEMMA Disjoint == \A k \in Code, o \in Order : k # o
BY ItemsAssumption

LEMMA InitOrderInv == Init => OrderInv
<1> SUFFICES ASSUME Init
             PROVE  OrderInv
  OBVIOUS
<1>1. \A u \in User, o \in Order : audit[u][o] = 0
  BY DEF Init, Item
<1>2. OrderShape
  BY <1>1 DEF Init, OrderShape
<1>3. CreditedOnce
  BY <1>1 DEF CreditedOnce
<1>4. SuccessMeansCredit
  BY DEF Init, SuccessMeansCredit
<1> QED
  BY <1>2, <1>3, <1>4 DEF OrderInv

\* A redemption changes the audit rows of its code only, and adds to them.
LEMMA RedeemPoints ==
  ASSUME TypeOK, NEW c \in Call, Redeem(c)
  PROVE  /\ \A u \in User, o \in Order : audit'[u][o] = audit[u][o]
         /\ \A u \in User, k \in Code : audit'[u][k] >= audit[u][k]
         /\ job[c].of \in Code /\ job[c].by \in User
         /\ audit'[job[c].by][job[c].of] > 0
<1> DEFINE k == job[c].of
           u == job[c].by
<1>1. k \in Code /\ u \in User
  BY JobType DEF Redeem
<1>2. /\ \A v \in User \ {u} : audit'[v] = audit[v]
      /\ audit'[u][k] = audit[u][k] + 1
      /\ \A y \in Item \ {k} : audit'[u][y] = audit[u][y]
  BY <1>1, ItemType, CreditPoints DEF Redeem
<1>3. \A v \in User, y \in Item : audit[v][y] \in Nat
  BY DEF TypeOK
<1>4. \A v \in User, o \in Order : audit'[v][o] = audit[v][o]
  BY <1>1, <1>2, ItemType, Disjoint
<1>5. \A v \in User, j \in Code : audit'[v][j] >= audit[v][j]
  BY <1>1, <1>2, <1>3, ItemType
<1>6. audit'[u][k] > 0
  BY <1>1, <1>2, <1>3, ItemType
<1> QED
  BY <1>1, <1>4, <1>5, <1>6

LEMMA RedeemOrderInv ==
  ASSUME TypeOK, OrderInv, NEW c \in Call, Redeem(c)
  PROVE  OrderInv'
<1> USE DEF OrderInv
<1>1. /\ \A u \in User, o \in Order : audit'[u][o] = audit[u][o]
      /\ \A u \in User, k \in Code : audit'[u][k] >= audit[u][k]
      /\ job[c].of \in Code /\ job[c].by \in User
      /\ audit'[job[c].by][job[c].of] > 0
  BY RedeemPoints
<1>2. UNCHANGED <<order, acked>> /\ job' = [job EXCEPT ![c] = NoJob]
  BY DEF Redeem, End
<1>3. OrderShape'
  BY <1>1, <1>2 DEF OrderShape, TypeOK
<1>4. CreditedOnce'
  BY <1>1 DEF CreditedOnce
<1>5. \A o \in Order : acked'[o] \/ order'[o] = "COMPLETED" => IsCredited(o)'
  BY <1>1, <1>2, ItemType DEF SuccessMeansCredit, IsCredited
<1>6. ASSUME NEW k \in Code, code'[k] = "used"
      PROVE  usedBy'[k] # Nobody /\ audit'[usedBy'[k]][k] > 0
  <2>1. CASE k = job[c].of
    <3>1. code[k] # "deleted"
      BY <1>6, <2>1 DEF Redeem
    <3>2. usedBy'[k] = job[c].by
      BY <2>1, <3>1 DEF Redeem, TypeOK
    <3> QED
      BY <1>1, <2>1, <3>2, ItemsAssumption
  <2>2. CASE k # job[c].of
    <3>1. code'[k] = code[k] /\ usedBy'[k] = usedBy[k]
      BY <2>2 DEF Redeem, TypeOK
    <3>2. usedBy[k] # Nobody /\ audit[usedBy[k]][k] > 0
      BY <1>6, <3>1 DEF SuccessMeansCredit
    <3>3. usedBy[k] \in User
      BY <3>2 DEF TypeOK
    <3>4. audit'[usedBy[k]][k] >= audit[usedBy[k]][k]
      BY <1>1, <3>3
    <3>5. audit[usedBy[k]][k] \in Int /\ audit'[usedBy[k]][k] \in Int
      BY <3>3, RedeemTypeOK, ItemType DEF TypeOK
    <3> QED
      BY <3>1, <3>2, <3>4, <3>5
  <2> QED
    BY <2>1, <2>2
<1> QED
  BY <1>3, <1>4, <1>5, <1>6 DEF SuccessMeansCredit

\* The completion of an order: its effects on orders and audit rows.
LEMMA CompleteTxOrderInv ==
  ASSUME TypeOK, OrderInv, NEW o \in Order, CompleteTx(o)
  PROVE  /\ CreditedOnce'
         /\ \A p \in Order :
              order'[p] \in {"none", "PENDING"} => \A u \in User : audit'[u][p] = 0
         /\ \A p \in Order : IsCredited(p) => IsCredited(p)'
         /\ \A p \in Order : order'[p] = "COMPLETED" => IsCredited(p)'
         /\ \A p \in Order : order[p] # "none" => order'[p] # "none"
         /\ \A k \in Code, u \in User : audit'[u][k] = audit[u][k]
         /\ UNCHANGED <<code, usedBy>>
<1> USE DEF OrderInv
<1>1. CASE ~Completable(o)
  BY <1>1 DEF CompleteTx, money, CreditedOnce, OrderShape, SuccessMeansCredit, IsCredited
<1>2. CASE Completable(o)
  <2>1. /\ order' = [order EXCEPT ![o] = "COMPLETED"]
        /\ Credit(OwnerOf[o], o)
        /\ UNCHANGED <<code, usedBy>>
    BY <1>2 DEF CompleteTx
  <2>2. /\ \A v \in User \ {OwnerOf[o]} : audit'[v] = audit[v]
        /\ audit'[OwnerOf[o]][o] = audit[OwnerOf[o]][o] + 1
        /\ \A y \in Item \ {o} : audit'[OwnerOf[o]][y] = audit[OwnerOf[o]][y]
    BY <2>1, ItemType, CreditPoints
  <2>3. \A u \in User : audit[u][o] = 0
    BY <1>2 DEF Completable, OrderShape
  <2>4. audit'[OwnerOf[o]][o] = 1
    BY <2>2, <2>3, ItemType
  <2>5. \A u \in User \ {OwnerOf[o]} : audit'[u][o] = 0
    BY <2>2, <2>3
  <2>6. \A y \in Item \ {o}, u \in User : audit'[u][y] = audit[u][y]
    BY <2>2
  <2>7. order'[o] = "COMPLETED" /\ \A p \in Order \ {o} : order'[p] = order[p]
    BY <2>1 DEF TypeOK
  <2>8. \A p \in Order \ {o} : \A u \in User : audit'[u][p] = audit[u][p]
    BY <2>6, ItemType
  <2>9. CreditedOnce'
    BY <2>4, <2>5, <2>8 DEF CreditedOnce
  <2>10. IsCredited(o)' /\ \A p \in Order \ {o} : IsCredited(p)' <=> IsCredited(p)
    BY <2>4, <2>8, ItemType DEF IsCredited
  <2>11. \A p \in Order :
           order'[p] \in {"none", "PENDING"} => \A u \in User : audit'[u][p] = 0
    BY <2>7, <2>8 DEF OrderShape
  <2>12. \A p \in Order : order'[p] = "COMPLETED" => IsCredited(p)'
    BY <2>7, <2>10 DEF SuccessMeansCredit
  <2>13. \A k \in Code, u \in User : audit'[u][k] = audit[u][k]
    BY <2>6, ItemType, Disjoint
  <2> QED
    BY <2>1, <2>7, <2>9, <2>10, <2>11, <2>12, <2>13
<1> QED
  BY <1>1, <1>2

\* From the effects on the rows to the invariant: the order that was answered
\* with success exists and was not cancelled, so it is completed now.
LEMMA CompleteOrderInv ==
  ASSUME TypeOK, OrderInv, NEW c \in Call, NEW o \in Order, o = job[c].of,
         Doing(c, "notify") \/ Doing(c, "simulate"),
         CompleteTx(o), End(c),
         Answer(c, order[o] # "CANCELLED") \/ UNCHANGED acked
  PROVE  OrderInv'
<1> USE DEF OrderInv
<1>1. o \in Order
  OBVIOUS
<1>2. /\ CreditedOnce'
      /\ \A p \in Order :
           order'[p] \in {"none", "PENDING"} => \A u \in User : audit'[u][p] = 0
      /\ \A p \in Order : IsCredited(p) => IsCredited(p)'
      /\ \A p \in Order : order'[p] = "COMPLETED" => IsCredited(p)'
      /\ \A p \in Order : order[p] # "none" => order'[p] # "none"
      /\ \A k \in Code, u \in User : audit'[u][k] = audit[u][k]
      /\ UNCHANGED <<code, usedBy>>
  BY <1>1, CompleteTxOrderInv
<1>3. order[o] # "none"
  BY <1>1 DEF OrderShape, Doing
<1>4. order[o] # "CANCELLED" => IsCredited(o)'
  <2>1. CASE Completable(o)
    <3>1. order'[o] = "COMPLETED"
      BY <1>1, <2>1 DEF CompleteTx, TypeOK
    <3>2. IsCredited(o)'
      BY <1>1, <1>2, <3>1
    <3> QED
      BY <3>2
  <2>2. CASE ~Completable(o)
    <3>1. SUFFICES ASSUME order[o] # "CANCELLED"
                   PROVE  IsCredited(o)'
      OBVIOUS
    <3>2. order[o] = "COMPLETED"
      BY <1>1, <1>3, <2>2, <3>1 DEF Completable, TypeOK
    <3>3. IsCredited(o)
      BY <1>1, <3>2 DEF SuccessMeansCredit
    <3> QED
      BY <1>1, <1>2, <3>3
  <2> QED
    BY <2>1, <2>2
<1>5. \A p \in Order : acked'[p] => acked[p] \/ (p = o /\ order[o] # "CANCELLED")
  BY <1>1 DEF Answer, TypeOK
<1>6. \A p \in Order : acked'[p] => IsCredited(p)'
  BY <1>2, <1>4, <1>5 DEF SuccessMeansCredit
<1>7. \A k \in Code : code'[k] = "used" => usedBy'[k] # Nobody /\ audit'[usedBy'[k]][k] > 0
  BY <1>2 DEF SuccessMeansCredit, TypeOK
<1>8. job' = [job EXCEPT ![c] = NoJob]
  BY DEF End
<1>9. \A d \in Call : job'[d] # NoJob => job'[d] = job[d]
  BY <1>8 DEF TypeOK
<1>10. \A d \in Call : job'[d] # NoJob /\ job'[d].op # "redeem" => order'[job'[d].of] # "none"
  <2> SUFFICES ASSUME NEW d \in Call, job'[d] # NoJob, job'[d].op # "redeem"
               PROVE  order'[job[d].of] # "none"
    BY <1>9
  <2>1. job[d] # NoJob /\ job[d].op # "redeem"
    BY <1>9
  <2>2. job[d].of \in Order
    BY <2>1 DEF TypeOK, RedeemJob, OrderJob
  <2> QED
    BY <1>2, <2>1, <2>2 DEF OrderShape
<1>11. OrderShape'
  BY <1>2, <1>10 DEF OrderShape
<1> QED
  BY <1>2, <1>6, <1>7, <1>11 DEF SuccessMeansCredit

\* A cancellation or closure only takes an existing order out of the statuses
\* that the invariant speaks of.
LEMMA CancelCloseOrderInv ==
  ASSUME TypeOK, OrderInv, NEW c \in Call, Cancel(c) \/ Close(c)
  PROVE  OrderInv'
<1> USE DEF OrderInv
<1>1. PICK o \in Order : o = job[c].of
  BY JobType DEF Cancel, Close
<1>2. /\ order' = [order EXCEPT ![o] = "CANCELLED"]
      /\ job' = [job EXCEPT ![c] = NoJob]
      /\ UNCHANGED <<quota, code, usedBy, audit, trade, acked>>
  BY <1>1 DEF Cancel, Close, End
<1>3. order'[o] = "CANCELLED" /\ \A p \in Order \ {o} : order'[p] = order[p]
  BY <1>2 DEF TypeOK
<1>4. \A d \in Call : job'[d] # NoJob => job'[d] = job[d]
  BY <1>2 DEF TypeOK
<1>5. ASSUME NEW d \in Call, job'[d] # NoJob, job'[d].op # "redeem"
      PROVE  order'[job'[d].of] # "none"
  <2>1. job'[d] = job[d] /\ job[d] # NoJob /\ job[d].op # "redeem"
    BY <1>4, <1>5
  <2>2. job[d].of \in Order
    BY <2>1 DEF TypeOK, RedeemJob, OrderJob
  <2>3. order[job[d].of] # "none"
    BY <2>1 DEF OrderShape
  <2> QED
    BY <1>3, <2>1, <2>2, <2>3
<1>6. OrderShape'
  BY <1>2, <1>3, <1>5 DEF OrderShape
<1>7. CreditedOnce'
  BY <1>2 DEF CreditedOnce
<1>8. SuccessMeansCredit'
  BY <1>2, <1>3 DEF SuccessMeansCredit, IsCredited
<1> QED
  BY <1>6, <1>7, <1>8

LEMMA WritesOrderInv ==
  ASSUME TypeOK, OrderInv, NEW c \in Call, Writes(c)
  PROVE  OrderInv'
<1>1. CASE Redeem(c)
  BY <1>1, RedeemOrderInv
<1>2. CASE Cancel(c) \/ Close(c)
  BY <1>2, CancelCloseOrderInv
<1>3. CASE /\ Doing(c, "notify") \/ Doing(c, "simulate")
           /\ CompleteTx(job[c].of)
           /\ End(c)
           /\ Answer(c, order[job[c].of] # "CANCELLED") \/ UNCHANGED acked
  <2>1. PICK o \in Order : o = job[c].of
    BY <1>3, JobType
  <2> QED
    BY <1>3, <2>1, CompleteOrderInv
<1>4. CASE Abort(c)
  <2>1. UNCHANGED <<quota, code, usedBy, order, audit, acked>>
    BY <1>4 DEF Abort, money
  <2>2. job' = [job EXCEPT ![c] = NoJob]
    BY <1>4 DEF Abort, End
  <2>3. \A d \in Call : job'[d] # NoJob => job'[d] = job[d]
    BY <2>2 DEF TypeOK
  <2> QED
    BY <2>1, <2>3 DEF OrderInv, OrderShape, CreditedOnce, SuccessMeansCredit, IsCredited
<1> QED
  BY <1>1, <1>2, <1>3, <1>4 DEF Writes, Complete, AckLost

\* A call that begins has read an order that exists.
LEMMA BeginOrderInv ==
  ASSUME TypeOK, OrderInv, NEW c \in Call, NEW j \in RedeemJob \cup OrderJob, Begin(c, j),
         j \in OrderJob => order[j.of] # "none",
         UNCHANGED <<quota, code, usedBy, order, audit, acked>>
  PROVE  OrderInv'
<1>1. job'[c] = j /\ \A d \in Call \ {c} : job'[d] = job[d]
  BY DEF Begin, TypeOK
<1>2. j.op # "redeem" => order[j.of] # "none"
  BY DEF RedeemJob
<1>3. OrderShape'
  BY <1>1, <1>2 DEF OrderInv, OrderShape
<1> QED
  BY <1>3 DEF OrderInv, CreditedOnce, SuccessMeansCredit, IsCredited

LEMMA ReadOrderInv ==
  ASSUME TypeOK, OrderInv, NEW c \in Call, NEW o \in Order,
         CancelRead(c, o) \/ NotifyRead(c, o) \/ SimulateRead(c, o) \/ CloseRead(c, o)
  PROVE  OrderInv'
<1>1. \A op \in {"notify", "simulate", "cancel", "close"} :
        [op |-> op, of |-> o] \in OrderJob /\ [op |-> op, of |-> o].of = o
  BY DEF OrderJob
<1>2. CASE \E op \in {"notify", "simulate", "cancel", "close"} :
             /\ order[o] # "none"
             /\ Begin(c, [op |-> op, of |-> o])
             /\ UNCHANGED <<quota, code, usedBy, order, audit, acked>>
  BY <1>1, <1>2, BeginOrderInv
<1>3. CASE NotifyRead(c, o) /\ order[o] = "COMPLETED"
  <2>1. /\ acked' = [acked EXCEPT ![o] = TRUE]
        /\ UNCHANGED <<quota, code, usedBy, order, audit, job>>
    BY <1>3 DEF NotifyRead, money
  <2>2. IsCredited(o)
    BY <1>3 DEF OrderInv, SuccessMeansCredit
  <2>3. \A p \in Order : acked'[p] => acked[p] \/ p = o
    BY <2>1 DEF TypeOK
  <2>4. \A p \in Order : IsCredited(p)' <=> IsCredited(p)
    BY <2>1 DEF IsCredited
  <2>5. SuccessMeansCredit'
    BY <2>1, <2>2, <2>3, <2>4 DEF OrderInv, SuccessMeansCredit
  <2> QED
    BY <2>1, <2>5 DEF OrderInv, OrderShape, CreditedOnce
<1>4. CASE NotifyRead(c, o) /\ order[o] # "COMPLETED"
  BY <1>2, <1>4 DEF NotifyRead, money
<1>5. CASE CancelRead(c, o) \/ SimulateRead(c, o) \/ CloseRead(c, o)
  BY <1>2, <1>5 DEF CancelRead, SimulateRead, CloseRead, money
<1> QED
  BY <1>3, <1>4, <1>5

LEMMA StepOrderInv == TypeOK /\ OrderInv /\ [Next]_vars => OrderInv'
<1> SUFFICES ASSUME TypeOK, OrderInv, [Next]_vars
             PROVE  OrderInv'
  OBVIOUS
<1>1. ASSUME NEW c \in Call, NEW k \in Code, NEW u \in User, RedeemRead(c, k, u)
      PROVE  OrderInv'
  <2>1. /\ [op |-> "redeem", of |-> k, by |-> u] \in RedeemJob
        /\ [op |-> "redeem", of |-> k, by |-> u] \notin OrderJob
    BY DEF RedeemJob, OrderJob
  <2> QED
    BY <1>1, <2>1, BeginOrderInv DEF RedeemRead, money
<1>2. ASSUME NEW k \in Code, DeleteRedemption(k)
      PROVE  OrderInv'
  <2>1. UNCHANGED <<order, audit, acked, job, usedBy>>
    BY <1>2 DEF DeleteRedemption
  <2>2. \A j \in Code : code'[j] = "used" => code[j] = "used"
    BY <1>2 DEF DeleteRedemption, TypeOK
  <2> QED
    BY <2>1, <2>2 DEF OrderInv, OrderShape, CreditedOnce, SuccessMeansCredit, IsCredited
<1>3. ASSUME NEW o \in Order, CreateOrder(o)
      PROVE  OrderInv'
  <2>1. UNCHANGED <<code, audit, acked, job, usedBy>>
    BY <1>3 DEF CreateOrder
  <2>2. order[o] = "none" /\ order'[o] = "PENDING" /\ \A p \in Order \ {o} : order'[p] = order[p]
    BY <1>3 DEF CreateOrder, TypeOK
  <2>3. OrderShape'
    <3>1. \A p \in Order :
            order'[p] \in {"none", "PENDING"} => \A u \in User : audit'[u][p] = 0
      BY <2>1, <2>2 DEF OrderInv, OrderShape
    <3>2. ASSUME NEW c \in Call, job[c] # NoJob, job[c].op # "redeem"
          PROVE  order'[job[c].of] # "none"
      <4>1. job[c].of \in Order
        BY <3>2 DEF TypeOK, RedeemJob, OrderJob
      <4>2. order[job[c].of] # "none"
        BY <3>2 DEF OrderInv, OrderShape
      <4> QED
        BY <2>2, <4>1, <4>2
    <3> QED
      BY <2>1, <3>1, <3>2 DEF OrderShape
  <2>4. SuccessMeansCredit'
    BY <2>1, <2>2 DEF OrderInv, SuccessMeansCredit, IsCredited
  <2> QED
    BY <2>1, <2>3, <2>4 DEF OrderInv, CreditedOnce
<1>4. ASSUME NEW o \in Order, Pay(o) \/ CloseTrade(o)
      PROVE  OrderInv'
  <2>1. UNCHANGED <<code, order, audit, acked, job, usedBy>>
    BY <1>4 DEF Pay, CloseTrade, money
  <2> QED
    BY <2>1 DEF OrderInv, OrderShape, CreditedOnce, SuccessMeansCredit, IsCredited
<1>5. CASE UNCHANGED vars
  BY <1>5 DEF vars, OrderInv, OrderShape, CreditedOnce, SuccessMeansCredit, IsCredited
<1> QED
  BY <1>1, <1>2, <1>3, <1>4, <1>5, WritesOrderInv, ReadOrderInv DEF Next

LEMMA OrderInvHolds == Spec => []OrderInv
BY InitOrderInv, StepOrderInv, TypeCorrect, PTL DEF Spec

\* No order is ever credited twice, or to another user than its owner, however
\* many replicas complete it at once and however often its payment is reported.
THEOREM CreditedAtMostOnce == Spec => []CreditedOnce
<1>1. OrderInv => CreditedOnce
  BY DEF OrderInv
<1> QED
  BY <1>1, OrderInvHolds, PTL

\* "success" is never said of a payment, "used" of a code or "COMPLETED" of an
\* order that was not credited, whatever fails or crashes.
THEOREM SuccessIsCredited == Spec => []SuccessMeansCredit
<1>1. OrderInv => SuccessMeansCredit
  BY DEF OrderInv
<1> QED
  BY <1>1, OrderInvHolds, PTL

-------------------------------------------------------------------------------
(* How often a code pays                                                    *)

\* A code that has paid is no longer "unused".
RedeemInv ==
    /\ RedeemBound
    /\ \A k \in Code, u \in User : audit[u][k] > 0 => code[k] # "unused"

\* No call begins to redeem k, and k is credited to nobody.
Waits(k) ==
    /\ \A u \in User : audit'[u][k] = audit[u][k]
    /\ Redeeming(k)' \subseteq Redeeming(k)
    /\ code'[k] = "unused" => code[k] = "unused"

\* A call has found k "unused".
Enters(k) ==
    /\ \A u \in User : audit'[u][k] = audit[u][k]
    /\ code[k] = "unused"

\* c, which had read k, credits it to u.
Pays(k, c, u) ==
    /\ c \in Redeeming(k) /\ Redeeming(k)' = Redeeming(k) \ {c}
    /\ audit'[u][k] = audit[u][k] + 1
    /\ \A v \in User \ {u} : audit'[v][k] = audit[v][k]
    /\ code'[k] # "unused"

LEMMA RedeemingFinite ==
  ASSUME NEW k \in Code
  PROVE  /\ IsFiniteSet(Redeeming(k)) /\ Cardinality(Redeeming(k)) \in Nat
         /\ Cardinality(Redeeming(k)) <= Cardinality(Call)
         /\ IsFiniteSet(Redeeming(k)') /\ Cardinality(Redeeming(k)') \in Nat
         /\ Cardinality(Redeeming(k)') <= Cardinality(Call)
         /\ Cardinality(Call) \in Nat
<1>1. IsFiniteSet(Call) /\ Redeeming(k) \subseteq Call /\ Redeeming(k)' \subseteq Call
  BY ItemsAssumption DEF Redeeming
<1>2. /\ IsFiniteSet(Redeeming(k)) /\ Cardinality(Redeeming(k)) <= Cardinality(Call)
      /\ IsFiniteSet(Redeeming(k)') /\ Cardinality(Redeeming(k)') <= Cardinality(Call)
  BY <1>1, FS_Subset
<1> QED
  BY <1>1, <1>2, FS_CardinalityType

\* The sums of audit rows before and after a step that changes one of them.
LEMMA TimesPaidStep ==
  ASSUME TypeOK, TypeOK', NEW k \in Code, NEW u \in User,
         \A v \in User \ {u} : audit'[v][k] = audit[v][k]
  PROVE  /\ TimesPaid(k) \in Nat /\ TimesPaid(k)' \in Nat
         /\ TimesPaid(k)' = TimesPaid(k) - audit[u][k] + audit'[u][k]
<1> DEFINE f == [v \in User |-> audit[v][k]]
           g == [v \in User |-> audit'[v][k]]
<1>1. f \in [User -> Nat] /\ g \in [User -> Nat]
  BY ItemType DEF TypeOK
<1>2. \A v \in User \ {u} : g[v] = f[v]
  OBVIOUS
<1>3. f[u] = audit[u][k] /\ g[u] = audit'[u][k]
  OBVIOUS
<1>4. TimesPaid(k) = Total(f, User) /\ TimesPaid(k)' = Total(g, User)
  BY DEF TimesPaid
<1> HIDE DEF f, g
<1>5. /\ Total(f, User) \in Nat /\ Total(g, User) \in Nat
      /\ Total(g, User) = Total(f, User) - f[u] + g[u]
  BY <1>1, <1>2, ItemsAssumption, TotalUpdate
<1> QED
  BY <1>3, <1>4, <1>5

\* Nobody is credited.
LEMMA TimesPaidSame ==
  ASSUME TypeOK, NEW k \in Code, \A u \in User : audit'[u][k] = audit[u][k]
  PROVE  TimesPaid(k) \in Nat /\ TimesPaid(k)' = TimesPaid(k)
<1> DEFINE f == [v \in User |-> audit[v][k]]
           g == [v \in User |-> audit'[v][k]]
<1>1. f \in [User -> Nat] /\ \A v \in User : f[v] = g[v]
  BY ItemType DEF TypeOK
<1>2. TimesPaid(k) = Total(f, User) /\ TimesPaid(k)' = Total(g, User)
  BY DEF TimesPaid
<1> HIDE DEF f, g
<1>3. Total(f, User) = Total(g, User)
  BY <1>1, TotalCongruence
<1>4. Total(f, User) \in Nat
  BY <1>1, ItemsAssumption, TotalType
<1> QED
  BY <1>2, <1>3, <1>4

LEMMA WaitsKeeps ==
  ASSUME TypeOK, RedeemInv, NEW k \in Code, Waits(k)
  PROVE  /\ TimesPaid(k)' + Cardinality(Redeeming(k)') <= Cardinality(Call)
         /\ \A u \in User : audit'[u][k] > 0 => code'[k] # "unused"
<1>1. TimesPaid(k) \in Nat /\ TimesPaid(k)' = TimesPaid(k)
  BY TimesPaidSame DEF Waits
<1>2. Cardinality(Redeeming(k)') <= Cardinality(Redeeming(k))
  BY RedeemingFinite, FS_Subset DEF Waits
<1>3. TimesPaid(k) + Cardinality(Redeeming(k)) <= Cardinality(Call)
  BY DEF RedeemInv, RedeemBound
<1>4. TimesPaid(k)' + Cardinality(Redeeming(k)') <= Cardinality(Call)
  BY <1>1, <1>2, <1>3, RedeemingFinite
<1>5. \A u \in User : audit'[u][k] > 0 => code'[k] # "unused"
  BY DEF Waits, RedeemInv
<1> QED
  BY <1>4, <1>5

LEMMA EntersKeeps ==
  ASSUME TypeOK, RedeemInv, NEW k \in Code, Enters(k)
  PROVE  /\ TimesPaid(k)' + Cardinality(Redeeming(k)') <= Cardinality(Call)
         /\ \A u \in User : audit'[u][k] > 0 => code'[k] # "unused"
<1>1. \A u \in User : audit[u][k] = 0 /\ audit'[u][k] = 0
  <2>1. \A u \in User : audit[u][k] \in Nat /\ ~(audit[u][k] > 0)
    BY ItemType DEF RedeemInv, Enters, TypeOK
  <2> QED
    BY <2>1 DEF Enters
<1>2. TimesPaid(k)' = 0
  <2> DEFINE g == [v \in User |-> audit'[v][k]]
  <2>1. \A v \in User : g[v] = 0
    BY <1>1
  <2>2. TimesPaid(k)' = Total(g, User)
    BY DEF TimesPaid
  <2> HIDE DEF g
  <2> QED
    BY <2>1, <2>2, TotalZero
<1>3. TimesPaid(k)' + Cardinality(Redeeming(k)') <= Cardinality(Call)
  BY <1>2, RedeemingFinite
<1> QED
  BY <1>1, <1>3

LEMMA PaysKeeps ==
  ASSUME TypeOK, TypeOK', RedeemInv, NEW k \in Code, NEW c \in Call, NEW u \in User, Pays(k, c, u)
  PROVE  /\ TimesPaid(k)' + Cardinality(Redeeming(k)') <= Cardinality(Call)
         /\ \A v \in User : audit'[v][k] > 0 => code'[k] # "unused"
<1>1. audit[u][k] \in Nat /\ audit'[u][k] = audit[u][k] + 1
  BY ItemType DEF Pays, TypeOK
<1>2. TimesPaid(k) \in Nat /\ TimesPaid(k)' = TimesPaid(k) - audit[u][k] + audit'[u][k]
  BY TimesPaidStep DEF Pays
<1>3. Cardinality(Redeeming(k)') = Cardinality(Redeeming(k)) - 1
  BY RedeemingFinite, FS_RemoveElement DEF Pays
<1>4. TimesPaid(k) + Cardinality(Redeeming(k)) <= Cardinality(Call)
  BY DEF RedeemInv, RedeemBound
<1>5. TimesPaid(k)' + Cardinality(Redeeming(k)') <= Cardinality(Call)
  BY <1>1, <1>2, <1>3, <1>4, RedeemingFinite
<1> QED
  BY <1>5 DEF Pays

\* A redemption pays one code and concerns no other.
LEMMA RedeemPays ==
  ASSUME TypeOK, NEW c \in Call, Redeem(c), NEW k \in Code
  PROVE  Waits(k) \/ Pays(k, c, job[c].by)
<1>1. job[c].of \in Code /\ job[c].by \in User /\ Doing(c, "redeem")
  BY JobType DEF Redeem
<1>2. /\ \A v \in User \ {job[c].by} : audit'[v] = audit[v]
      /\ audit'[job[c].by][job[c].of] = audit[job[c].by][job[c].of] + 1
      /\ \A y \in Item \ {job[c].of} : audit'[job[c].by][y] = audit[job[c].by][y]
  BY <1>1, ItemType, CreditPoints DEF Redeem
<1>3. job'[c] = NoJob /\ \A d \in Call \ {c} : job'[d] = job[d]
  BY DEF Redeem, End, TypeOK
<1>4. \A d \in Call : Doing(d, "redeem")' <=> d # c /\ Doing(d, "redeem")
  BY <1>3 DEF Doing
<1>5. CASE k = job[c].of
  <2>1. c \in Redeeming(k)
    BY <1>1, <1>5 DEF Redeeming
  <2>2. Redeeming(k)' = Redeeming(k) \ {c}
    BY <1>3, <1>4 DEF Redeeming
  <2>3. code'[k] # "unused"
    BY <1>5 DEF Redeem, TypeOK
  <2> QED
    BY <1>2, <1>5, <2>1, <2>2, <2>3 DEF Pays
<1>6. CASE k # job[c].of
  <2>1. Redeeming(k)' \subseteq Redeeming(k)
    BY <1>3, <1>4 DEF Redeeming
  <2>2. code'[k] = code[k]
    BY <1>6 DEF Redeem, TypeOK
  <2>3. \A v \in User : audit'[v][k] = audit[v][k]
    BY <1>2, <1>6, ItemType
  <2> QED
    BY <2>1, <2>2, <2>3 DEF Waits
<1> QED
  BY <1>5, <1>6

\* A call that has come to its end, or begun with something else, redeems no code.
LEMMA OthersWait ==
  ASSUME NEW c \in Call, UNCHANGED code, NEW k \in Code,
         \A u \in User : audit'[u][k] = audit[u][k],
         \A d \in Call \ {c} : job'[d] = job[d],
         job'[c] = job[c] \/ ~Doing(c, "redeem")'
  PROVE  Waits(k)
<1>1. ASSUME NEW d \in Call, d \in Redeeming(k)' PROVE d \in Redeeming(k)
  <2>1. job'[d] = job[d]
    BY <1>1 DEF Redeeming
  <2> QED
    BY <1>1, <2>1 DEF Redeeming, Doing
<1>2. Redeeming(k)' \subseteq Redeeming(k)
  BY <1>1 DEF Redeeming
<1> QED
  BY <1>2 DEF Waits

\* The completion of an order credits no code.
LEMMA CompleteTxWaits ==
  ASSUME TypeOK, NEW o \in Order, CompleteTx(o), NEW k \in Code
  PROVE  UNCHANGED code /\ \A u \in User : audit'[u][k] = audit[u][k]
<1>1. CASE Completable(o)
  <2>1. Credit(OwnerOf[o], o) /\ UNCHANGED code
    BY <1>1 DEF CompleteTx
  <2>2. /\ \A v \in User \ {OwnerOf[o]} : audit'[v] = audit[v]
        /\ \A y \in Item \ {o} : audit'[OwnerOf[o]][y] = audit[OwnerOf[o]][y]
    BY <2>1, ItemType, CreditPoints
  <2> QED
    BY <2>1, <2>2, ItemType, Disjoint
<1>2. CASE ~Completable(o)
  BY <1>2 DEF CompleteTx, money
<1> QED
  BY <1>1, <1>2

LEMMA WritesWait ==
  ASSUME TypeOK, NEW c \in Call, Writes(c), NEW k \in Code
  PROVE  Redeem(c) \/ Waits(k)
<1>1. ASSUME End(c), UNCHANGED code, \A u \in User : audit'[u][k] = audit[u][k]
      PROVE  Waits(k)
  <2>1. job'[c] = NoJob /\ \A d \in Call \ {c} : job'[d] = job[d]
    BY <1>1 DEF End, TypeOK
  <2>2. ~Doing(c, "redeem")'
    BY <2>1 DEF Doing
  <2> QED
    BY <1>1, <2>1, <2>2, OthersWait
<1>2. CASE Cancel(c) \/ Close(c) \/ Abort(c)
  BY <1>1, <1>2 DEF Cancel, Close, Abort, money
<1>3. ASSUME Doing(c, "notify") \/ Doing(c, "simulate"), CompleteTx(job[c].of), End(c)
      PROVE  Waits(k)
  <2>1. job[c].of \in Order
    BY <1>3, JobType
  <2> QED
    BY <1>1, <1>3, <2>1, CompleteTxWaits
<1>4. CASE Complete(c)
  BY <1>3, <1>4 DEF Complete
<1>5. CASE AckLost(c)
  BY <1>2, <1>3, <1>5 DEF AckLost
<1> QED
  BY <1>2, <1>4, <1>5 DEF Writes

LEMMA ReadsWait ==
  ASSUME TypeOK, NEW c \in Call, NEW o \in Order, NEW k \in Code,
         CancelRead(c, o) \/ NotifyRead(c, o) \/ SimulateRead(c, o) \/ CloseRead(c, o)
  PROVE  Waits(k)
<1>1. UNCHANGED <<code, audit>>
  BY DEF CancelRead, NotifyRead, SimulateRead, CloseRead, money
<1>2. ASSUME NEW op \in {"cancel", "notify", "simulate", "close"}, Begin(c, [op |-> op, of |-> o])
      PROVE  Waits(k)
  <2>1. job'[c] = [op |-> op, of |-> o] /\ \A d \in Call \ {c} : job'[d] = job[d]
    BY <1>2 DEF Begin, TypeOK
  <2>2. job'[c].op = op
    BY <2>1
  <2>3. ~Doing(c, "redeem")'
    BY <2>2 DEF Doing
  <2> QED
    BY <1>1, <2>1, <2>3, OthersWait
<1>3. CASE UNCHANGED job
  BY <1>1, <1>3, OthersWait
<1>4. CASE NotifyRead(c, o)
  BY <1>2, <1>3, <1>4 DEF NotifyRead
<1> QED
  BY <1>2, <1>4 DEF CancelRead, SimulateRead, CloseRead

LEMMA StepRedeemInv == TypeOK /\ TypeOK' /\ RedeemInv /\ [Next]_vars => RedeemInv'
<1> SUFFICES ASSUME TypeOK, TypeOK', RedeemInv, [Next]_vars, NEW k \in Code
             PROVE  /\ TimesPaid(k)' + Cardinality(Redeeming(k)') <= Cardinality(Call)
                    /\ \A u \in User : audit'[u][k] > 0 => code'[k] # "unused"
  BY DEF RedeemInv, RedeemBound
<1>1. ASSUME UNCHANGED <<audit, job>>, code'[k] = "unused" => code[k] = "unused"
      PROVE  Waits(k)
  BY <1>1 DEF Waits, Redeeming, Doing
<1>2. ASSUME NEW c \in Call, NEW j \in Code, NEW u \in User, RedeemRead(c, j, u)
      PROVE  Waits(k) \/ Enters(k)
  <2>1. UNCHANGED <<code, audit>> /\ code[j] = "unused"
    BY <1>2 DEF RedeemRead, Usable, money
  <2>2. CASE k = j
    BY <2>1, <2>2 DEF Enters
  <2>3. CASE k # j
    <3>1. /\ job[c] = NoJob /\ job'[c] = [op |-> "redeem", of |-> j, by |-> u]
          /\ \A d \in Call \ {c} : job'[d] = job[d]
      BY <1>2 DEF RedeemRead, Begin, TypeOK
    <3>2. job'[c].of # k
      BY <2>3, <3>1
    <3>3. Redeeming(k)' \subseteq Redeeming(k)
      BY <3>1, <3>2 DEF Redeeming, Doing
    <3> QED
      BY <2>1, <3>3 DEF Waits
  <2> QED
    BY <2>2, <2>3
<1>3. ASSUME NEW j \in Code, DeleteRedemption(j) PROVE Waits(k)
  BY <1>1, <1>3 DEF DeleteRedemption, TypeOK
<1>4. ASSUME NEW o \in Order, CreateOrder(o) \/ Pay(o) \/ CloseTrade(o) PROVE Waits(k)
  BY <1>1, <1>4 DEF CreateOrder, Pay, CloseTrade, money
<1>5. CASE UNCHANGED vars
  BY <1>1, <1>5, WaitsKeeps DEF vars
<1>6. CASE Next
  <2>1. \/ Waits(k) \/ Enters(k)
        \/ \E c \in Call : Pays(k, c, job[c].by) /\ job[c].by \in User
    <3>1. ASSUME NEW c \in Call, Writes(c)
          PROVE  Waits(k) \/ \E d \in Call : Pays(k, d, job[d].by) /\ job[d].by \in User
      <4>1. CASE Redeem(c)
        BY <4>1, RedeemPays, JobType DEF Redeem
      <4>2. CASE ~Redeem(c)
        BY <3>1, <4>2, WritesWait
      <4> QED
        BY <4>1, <4>2
    <3>2. ASSUME NEW c \in Call, NEW o \in Order,
                 CancelRead(c, o) \/ NotifyRead(c, o) \/ SimulateRead(c, o) \/ CloseRead(c, o)
          PROVE  Waits(k)
      BY <3>2, ReadsWait
    <3> QED
      BY <1>2, <1>3, <1>4, <1>6, <3>1, <3>2 DEF Next
  <2> QED
    BY <2>1, WaitsKeeps, EntersKeeps, PaysKeeps
<1> QED
  BY <1>5, <1>6

LEMMA InitRedeemInv == Init => RedeemInv
<1> SUFFICES ASSUME Init, NEW k \in Code
             PROVE  /\ TimesPaid(k) + Cardinality(Redeeming(k)) <= Cardinality(Call)
                    /\ \A u \in User : audit[u][k] > 0 => code[k] # "unused"
  BY DEF RedeemInv, RedeemBound
<1>1. \A u \in User : audit[u][k] = 0
  BY ItemType DEF Init
<1>2. TimesPaid(k) = 0
  BY <1>1, TotalZero DEF TimesPaid
<1> QED
  BY <1>1, <1>2, RedeemingFinite

\* A code never pays more often than there were calls that had read it as unused
\* before it first paid: at most once for each goroutine, however they interleave
\* and whatever fails.
THEOREM RedeemBounded == Spec => []RedeemBound
<1>1. RedeemInv => RedeemBound
  BY DEF RedeemInv
<1> QED
  BY <1>1, InitRedeemInv, StepRedeemInv, TypeCorrect, PTL DEF Spec
===============================================================================
