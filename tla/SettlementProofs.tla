--------------------------- MODULE SettlementProofs ---------------------------
(***************************************************************************)
(* Theorems about Settlement, for any number of requests, users and keys,  *)
(* any amounts and any combination of faults.                              *)
(***************************************************************************)
EXTENDS Settlement, TotalsProofs

\* Who pays is a user.
LEMMA PayerType == Payer \in [Request -> User]
BY MapsAssumption DEF Payer

LEMMA EstimatesType == \A e \in Estimates : e \in 0 .. MaxEstimate
BY AmountsAssumption

-------------------------------------------------------------------------------
(* Type correctness                                                         *)

LEMMA RewardForType ==
  ASSUME TypeOK, NEW r \in Request
  PROVE  RewardFor(r) \in Nat /\ RealCost(r) \in Nat
<1>1. RealCost(r) \in Nat
  BY DEF TypeOK, RealCost
<1>2. percent \in Nat
  BY AmountsAssumption DEF TypeOK
<1>3. RealCost(r) * percent \in Nat
  BY <1>1, <1>2
<1>4. (RealCost(r) * percent + 50) \div 100 \in Nat
  BY <1>3
<1> QED
  BY <1>1, <1>4 DEF RewardFor

LEMMA InitTypeOK == Init => TypeOK
BY AmountsAssumption DEF Init, TypeOK, PC

LEMMA PreChargeTypeOK ==
  ASSUME TypeOK, NEW r \in Request, Admit(r) \/ PreCharge(r)
  PROVE  TypeOK'
<1> USE PayerType, EstimatesType DEF TypeOK, PC, Goto, dbVars, ctxVars
<1>1. CASE Admit(r)
  BY <1>1 DEF Admit
<1>2. CASE PreChargeFree(r)
  BY <1>2 DEF PreChargeFree
<1>3. CASE PreChargeReadUser(r)
  BY <1>3 DEF PreChargeReadUser
<1>4. CASE PreChargeReadToken(r)
  BY <1>4 DEF PreChargeReadToken
<1>5. CASE PreChargeReserve(r)
  BY <1>5, AmountsAssumption DEF PreChargeReserve, Reserve
<1>6. CASE PreChargeAckLost(r)
  BY <1>6, AmountsAssumption DEF PreChargeAckLost, Reserve
<1>7. CASE PreChargeError(r)
  BY <1>7 DEF PreChargeError
<1> QED
  BY <1>1, <1>2, <1>3, <1>4, <1>5, <1>6, <1>7 DEF PreCharge

LEMMA ClosingTypeOK ==
  ASSUME TypeOK, NEW r \in Request, Closing(r)
  PROVE  TypeOK'
<1> USE PayerType, MapsAssumption DEF TypeOK, PC, Goto, dbVars, ctxVars
<1>1. CASE Release(r)
  <2>1. used' \in [User -> Int]
    BY <1>1, AmountsAssumption DEF Release
  <2> QED
    BY <1>1, <2>1 DEF Release, AfterRelease
<1>2. CASE ReleaseError(r)
  BY <1>2 DEF ReleaseError, AfterRelease
<1>3. ASSUME Settle(r)
      PROVE  /\ used' \in [User -> Int] /\ quota' \in [User -> Nat]
             /\ remain' \in [Token -> Int] /\ reward' \in [Request -> Nat]
             /\ log' \in [Request -> {"none", "success", "error"}]
             /\ UNCHANGED <<unlimited, percent, written, overtaken,
                            metered, est, pre, released, success, charge>>
  <2>1. RewardFor(r) \in Nat /\ RealCost(r) \in Nat
    BY RewardForType
  <2>2. Delta(r) \in Int
    BY <2>1, AmountsAssumption DEF Delta
  <2>3. \A u \in User :
          quota[u] + (IF InviterOf[Payer[r]] = u THEN RewardFor(r) ELSE 0) \in Nat
    BY <2>1
  <2> HIDE DEF TypeOK
  <2>4. quota' \in [User -> Nat]
    BY <1>3, <2>3 DEF Settle
  <2>5. used' \in [User -> Int] /\ remain' \in [Token -> Int] /\ reward' \in [Request -> Nat]
    BY <1>3, <2>1, <2>2 DEF Settle, TokenCharge, TypeOK
  <2> QED
    BY <1>3, <2>4, <2>5 DEF Settle, TypeOK
<1>4. CASE Finalize(r)
  BY <1>3, <1>4 DEF Finalize
<1>5. CASE FinalizeError(r)
  BY <1>5 DEF FinalizeError, AfterSettleError
<1>6. CASE FinalizeAckLost(r)
  BY <1>3, <1>6 DEF FinalizeAckLost, AfterSettleError
<1> QED
  BY <1>1, <1>2, <1>4, <1>5, <1>6 DEF Closing

LEMMA OtherTypeOK ==
  ASSUME TypeOK,
         \/ \E r \in Request : UpstreamBilled(r) \/ UpstreamFailed(r) \/ Crash(r)
         \/ \E t \in Token : EditToken(t)
         \/ SetRewardPercent
  PROVE  TypeOK'
<1> USE AmountsAssumption DEF TypeOK, PC, Goto, dbVars, ctxVars
<1>1. CASE \E r \in Request : UpstreamBilled(r)
  BY <1>1 DEF UpstreamBilled
<1>2. CASE \E r \in Request : UpstreamFailed(r)
  BY <1>2 DEF UpstreamFailed
<1>3. CASE \E r \in Request : Crash(r)
  BY <1>3 DEF Crash
<1>4. CASE \E t \in Token : EditToken(t)
  BY <1>4 DEF EditToken, WriteRemain
<1>5. CASE SetRewardPercent
  BY <1>5 DEF SetRewardPercent
<1> QED
  BY <1>1, <1>2, <1>3, <1>4, <1>5

LEMMA StepTypeOK == TypeOK /\ [Next]_vars => TypeOK'
<1> SUFFICES ASSUME TypeOK, [Next]_vars PROVE TypeOK'
  OBVIOUS
<1>1. CASE UNCHANGED vars
  BY <1>1 DEF vars, TypeOK
<1>2. CASE Next
  BY <1>2, PreChargeTypeOK, ClosingTypeOK, OtherTypeOK DEF Next
<1> QED
  BY <1>1, <1>2

\* Every column and every local of a request keeps its type.
THEOREM TypeCorrect == Spec => []TypeOK
BY InitTypeOK, StepTypeOK, PTL DEF Spec

-------------------------------------------------------------------------------
(* The shape of a request's life                                            *)

LEMMA InitShape == Init => Shape
BY DEF Init, Shape

LEMMA StepShape == TypeOK /\ Shape /\ [Next]_vars => Shape'
<1> SUFFICES ASSUME TypeOK, Shape, [Next]_vars PROVE Shape'
  OBVIOUS
<1> USE DEF TypeOK, Shape, PC, Over, Goto, dbVars, ctxVars
<1>1. ASSUME NEW r \in Request, Admit(r) PROVE Shape'
  BY <1>1 DEF Admit
<1>2. ASSUME NEW r \in Request, PreCharge(r) PROVE Shape'
  <2>1. CASE PreChargeFree(r)
    BY <2>1 DEF PreChargeFree
  <2>2. CASE PreChargeReadUser(r)
    BY <2>2 DEF PreChargeReadUser
  <2>3. CASE PreChargeReadToken(r)
    BY <2>3 DEF PreChargeReadToken
  <2>4. CASE PreChargeReserve(r)
    BY <2>4 DEF PreChargeReserve, Reserve
  <2>5. CASE PreChargeAckLost(r)
    BY <2>5 DEF PreChargeAckLost, Reserve
  <2>6. CASE PreChargeError(r)
    BY <2>6 DEF PreChargeError
  <2> QED
    BY <1>2, <2>1, <2>2, <2>3, <2>4, <2>5, <2>6 DEF PreCharge
<1>3. ASSUME NEW r \in Request, UpstreamBilled(r) PROVE Shape'
  BY <1>3 DEF UpstreamBilled
<1>4. ASSUME NEW r \in Request, UpstreamFailed(r) PROVE Shape'
  BY <1>4 DEF UpstreamFailed
<1>5. ASSUME NEW r \in Request, Closing(r) PROVE Shape'
  <2>1. CASE Release(r)
    BY <2>1 DEF Release, AfterRelease, NothingToRelease
  <2>2. CASE ReleaseError(r)
    BY <2>2 DEF ReleaseError, AfterRelease, NothingToRelease
  <2>3. CASE Finalize(r)
    BY <2>3 DEF Finalize, Settle
  <2>4. CASE FinalizeError(r)
    BY <2>4 DEF FinalizeError, AfterSettleError
  <2>5. CASE FinalizeAckLost(r)
    BY <2>5 DEF FinalizeAckLost, Settle, AfterSettleError
  <2> QED
    BY <1>5, <2>1, <2>2, <2>3, <2>4, <2>5 DEF Closing
<1>6. ASSUME NEW r \in Request, Crash(r) PROVE Shape'
  BY <1>6 DEF Crash
<1>7. ASSUME NEW t \in Token, EditToken(t) PROVE Shape'
  BY <1>7 DEF EditToken, WriteRemain, Charged
<1>8. CASE SetRewardPercent
  BY <1>8 DEF SetRewardPercent
<1>9. CASE UNCHANGED vars
  BY <1>9 DEF vars
<1> QED
  BY <1>1, <1>2, <1>3, <1>4, <1>5, <1>6, <1>7, <1>8, <1>9 DEF Next

-------------------------------------------------------------------------------
(* The balance of used_quota                                                *)

LEMMA OwedType ==
  ASSUME TypeOK
  PROVE  /\ \A r \in Request : Owed(r) \in Nat /\ OverRefund(r) \in Nat
         /\ \A u \in User : OwedBy(u) \in [Request -> Nat]
                            /\ OverRefundOf(u) \in [Request -> Nat]
<1>1. \A r \in Request : Owed(r) \in Nat /\ OverRefund(r) \in Nat
  BY AmountsAssumption DEF TypeOK, Owed, OverRefund, Phase
<1> QED
  BY <1>1 DEF OwedBy, OverRefundOf

LEMMA OwedTypePrime ==
  ASSUME TypeOK'
  PROVE  /\ \A r \in Request : Owed(r)' \in Nat /\ OverRefund(r)' \in Nat
         /\ \A u \in User : OwedBy(u)' \in [Request -> Nat]
                            /\ OverRefundOf(u)' \in [Request -> Nat]
<1>1. \A r \in Request : Owed(r)' \in Nat /\ OverRefund(r)' \in Nat
  BY AmountsAssumption DEF TypeOK, Owed, OverRefund, Phase
<1> QED
  BY <1>1 DEF OwedBy, OverRefundOf

\* A step of one request keeps the balance when it adds to used_quota what it
\* adds to the request's account.
LEMMA BalanceStep ==
  ASSUME TypeOK, TypeOK', Conservation, NEW r \in Request,
         used'[Payer[r]] = used[Payer[r]] + (Owed(r)' - Owed(r))
                                          - (OverRefund(r)' - OverRefund(r)),
         \A v \in User \ {Payer[r]} : used'[v] = used[v],
         \A s \in Request \ {r} : Owed(s)' = Owed(s) /\ OverRefund(s)' = OverRefund(s)
  PROVE  Conservation'
<1> SUFFICES ASSUME NEW u \in User
             PROVE  used'[u] + Total(OverRefundOf(u)', Request) = Total(OwedBy(u)', Request)
  BY DEF Conservation
<1>1. /\ OwedBy(u) \in [Request -> Nat] /\ OwedBy(u)' \in [Request -> Nat]
      /\ OverRefundOf(u) \in [Request -> Nat] /\ OverRefundOf(u)' \in [Request -> Nat]
  BY OwedType, OwedTypePrime
<1>2. \A s \in Request \ {r} : /\ OwedBy(u)'[s] = OwedBy(u)[s]
                               /\ OverRefundOf(u)'[s] = OverRefundOf(u)[s]
  BY DEF OwedBy, OverRefundOf
<1>3. /\ Total(OwedBy(u), Request) \in Nat
      /\ Total(OwedBy(u)', Request) = Total(OwedBy(u), Request) - OwedBy(u)[r] + OwedBy(u)'[r]
  BY <1>1, <1>2, RequestsFinite, TotalUpdate
<1>4. /\ Total(OverRefundOf(u), Request) \in Nat
      /\ Total(OverRefundOf(u)', Request)
           = Total(OverRefundOf(u), Request) - OverRefundOf(u)[r] + OverRefundOf(u)'[r]
  BY <1>1, <1>2, RequestsFinite, TotalUpdate
<1>5. used[u] + Total(OverRefundOf(u), Request) = Total(OwedBy(u), Request)
  BY DEF Conservation
<1>6. used[u] \in Int /\ used \in [User -> Int] /\ Payer[r] \in User
  BY PayerType DEF TypeOK
<1>7. Owed(r) \in Nat /\ OverRefund(r) \in Nat /\ Owed(r)' \in Nat /\ OverRefund(r)' \in Nat
  BY OwedType, OwedTypePrime
<1>8. CASE Payer[r] = u
  <2>1. OwedBy(u)[r] = Owed(r) /\ OverRefundOf(u)[r] = OverRefund(r)
    BY <1>8 DEF OwedBy, OverRefundOf
  <2>2. OwedBy(u)'[r] = Owed(r)' /\ OverRefundOf(u)'[r] = OverRefund(r)'
    BY <1>8 DEF OwedBy, OverRefundOf
  <2>3. used'[u] = used[u] + (Owed(r)' - Owed(r)) - (OverRefund(r)' - OverRefund(r))
    BY <1>6, <1>8
  <2> QED
    BY <1>3, <1>4, <1>5, <1>6, <1>7, <2>1, <2>2, <2>3
<1>9. CASE Payer[r] # u
  <2>1. OwedBy(u)[r] = 0 /\ OverRefundOf(u)[r] = 0
    BY <1>9 DEF OwedBy, OverRefundOf
  <2>2. OwedBy(u)'[r] = 0 /\ OverRefundOf(u)'[r] = 0
    BY <1>9 DEF OwedBy, OverRefundOf
  <2>3. used'[u] = used[u]
    BY <1>6, <1>9
  <2> QED
    BY <1>3, <1>4, <1>5, <1>6, <2>1, <2>2, <2>3
<1> QED
  BY <1>8, <1>9

\* A step that changes neither used_quota nor anyone's account.
LEMMA BalanceKept ==
  ASSUME Conservation, UNCHANGED used,
         \A s \in Request : Owed(s)' = Owed(s) /\ OverRefund(s)' = OverRefund(s)
  PROVE  Conservation'
<1>1. \A u \in User : OwedBy(u)' = OwedBy(u) /\ OverRefundOf(u)' = OverRefundOf(u)
  BY DEF OwedBy, OverRefundOf
<1> QED
  BY <1>1 DEF Conservation

LEMMA InitConservation == Init => Conservation
<1> SUFFICES ASSUME Init, NEW u \in User
             PROVE  used[u] + Total(OverRefundOf(u), Request) = Total(OwedBy(u), Request)
  BY DEF Conservation
<1>1. Total(OverRefundOf(u), Request) = 0
  BY TotalZero DEF Init, OverRefundOf, OverRefund
<1>2. Total(OwedBy(u), Request) = 0
  BY TotalZero DEF Init, OwedBy, Owed, Phase
<1> QED
  BY <1>1, <1>2 DEF Init

LEMMA StepConservation ==
  TypeOK /\ Shape /\ Conservation /\ [Next]_vars => Conservation'
<1> SUFFICES ASSUME TypeOK, Shape, Conservation, [Next]_vars PROVE Conservation'
  OBVIOUS
<1>0. TypeOK'
  BY StepTypeOK
<1>1. ASSUME NEW r \in Request, Reserve(r), fault'[r] \in {"none", "stuck"},
             \A s \in Request \ {r} : fault'[s] = fault[s]
      PROVE  Conservation'
  <2>1. /\ pre[r] = 0 /\ log[r] = "none" /\ ~released[r] /\ fault[r] = "none"
        /\ pre'[r] = est[r] /\ est[r] \in Nat
    BY <1>1, AmountsAssumption DEF Reserve, Shape, TypeOK
  <2>2. UNCHANGED <<log, released, charge>>
    BY <1>1 DEF Reserve
  <2>3. Owed(r) = 0 /\ Owed(r)' = est[r] /\ OverRefund(r) = 0 /\ OverRefund(r)' = 0
    BY <1>1, <2>1, <2>2 DEF Owed, OverRefund, Phase
  <2>4. \A s \in Request \ {r} : pre'[s] = pre[s]
    BY <1>1 DEF Reserve, TypeOK
  <2>5. \A s \in Request \ {r} : Owed(s)' = Owed(s) /\ OverRefund(s)' = OverRefund(s)
    BY <1>1, <2>2, <2>4 DEF Owed, OverRefund, Phase
  <2>6. /\ used'[Payer[r]] = used[Payer[r]] + (Owed(r)' - Owed(r))
                                     - (OverRefund(r)' - OverRefund(r))
    /\ \A v \in User \ {Payer[r]} : used'[v] = used[v]
    <3>1. /\ used'[Payer[r]] = used[Payer[r]] + est[r]
          /\ \A v \in User \ {Payer[r]} : used'[v] = used[v]
          /\ used[Payer[r]] \in Int
      BY <1>1, PayerType DEF Reserve, TypeOK
    <3> QED
      BY <2>1, <2>3, <3>1
  <2> QED
    BY <1>0, <2>5, <2>6, BalanceStep
<1>2. ASSUME NEW r \in Request, Release(r) PROVE Conservation'
  <2>1. UNCHANGED <<log, charge, pre>>
    BY <1>2 DEF Release
  <2>2. \A s \in Request \ {r} : released'[s] = released[s] /\ fault'[s] = fault[s]
    BY <1>2 DEF Release, TypeOK
  <2>3. \A s \in Request \ {r} : Owed(s)' = Owed(s) /\ OverRefund(s)' = OverRefund(s)
    BY <2>1, <2>2 DEF Owed, OverRefund, Phase
  <2>4. CASE NothingToRelease(r)
    <3>1. UNCHANGED <<used, fault>> /\ released'[r] = TRUE
      BY <1>2, <2>4 DEF Release, TypeOK
    <3>2. Owed(r)' = Owed(r) /\ OverRefund(r)' = OverRefund(r)
      BY <2>1, <2>4, <3>1 DEF Owed, OverRefund, Phase, NothingToRelease, TypeOK
    <3> QED
      BY <2>3, <3>1, <3>2, BalanceKept
  <2>5. CASE ~NothingToRelease(r)
    <3>1. /\ used' = [used EXCEPT ![Payer[r]] = @ - pre[r]]
          /\ fault'[r] = IF log[r] = "none" THEN fault[r] ELSE "twice"
          /\ released'[r] = TRUE /\ ~released[r] /\ pre[r] # 0
      BY <1>2, <2>5 DEF Release, TypeOK, NothingToRelease
    <3>2. fault[r] = "none" /\ log[r] # "error" /\ pre[r] \in Nat
      BY <1>2, <3>1, AmountsAssumption DEF Release, Shape, TypeOK
    <3>3. CASE log[r] = "none"
      <4>1. /\ Owed(r) = pre[r] /\ Owed(r)' = 0
            /\ OverRefund(r) = 0 /\ OverRefund(r)' = 0
        BY <2>1, <3>1, <3>2, <3>3 DEF Owed, OverRefund, Phase
      <4>2. /\ used'[Payer[r]] = used[Payer[r]] + (Owed(r)' - Owed(r))
                                         - (OverRefund(r)' - OverRefund(r))
        /\ \A v \in User \ {Payer[r]} : used'[v] = used[v]
        BY <3>1, <3>2, <4>1, PayerType DEF TypeOK
      <4> QED
        BY <1>0, <2>3, <4>2, BalanceStep
    <3>4. CASE log[r] = "success"
      <4>1. /\ Owed(r) = charge[r] /\ Owed(r)' = charge[r] /\ charge[r] \in Nat
            /\ OverRefund(r) = 0 /\ OverRefund(r)' = pre[r]
        BY <2>1, <3>1, <3>2, <3>4 DEF Owed, OverRefund, Phase, TypeOK
      <4>2. /\ used'[Payer[r]] = used[Payer[r]] + (Owed(r)' - Owed(r))
                                         - (OverRefund(r)' - OverRefund(r))
        /\ \A v \in User \ {Payer[r]} : used'[v] = used[v]
        BY <3>1, <3>2, <4>1, PayerType DEF TypeOK
      <4> QED
        BY <1>0, <2>3, <4>2, BalanceStep
    <3> QED
      BY <3>2, <3>3, <3>4 DEF TypeOK
  <2> QED
    BY <2>4, <2>5
<1>3. ASSUME NEW r \in Request, ReleaseError(r) PROVE Conservation'
  <2>1. UNCHANGED <<used, log, charge, pre>>
    BY <1>3 DEF ReleaseError, dbVars
  <2>2. \A s \in Request \ {r} : released'[s] = released[s] /\ fault'[s] = fault[s]
    BY <1>3 DEF ReleaseError, TypeOK
  <2>3. /\ fault[r] = "none" /\ ~released[r] /\ log[r] # "error"
        /\ fault'[r] = IF log[r] = "none" THEN "stuck" ELSE "none"
    BY <1>3 DEF ReleaseError, NothingToRelease, Shape, TypeOK
  <2>4. \A s \in Request : Owed(s)' = Owed(s) /\ OverRefund(s)' = OverRefund(s)
    BY <2>1, <2>2, <2>3 DEF Owed, OverRefund, Phase, TypeOK
  <2> QED
    BY <2>1, <2>4, BalanceKept
<1>4. ASSUME NEW r \in Request, Settle(r), UNCHANGED fault PROVE Conservation'
  <2>1. UNCHANGED <<pre, released, success, charge, fault>>
    BY <1>4 DEF Settle
  <2>2. \A s \in Request \ {r} : log'[s] = log[s]
    BY <1>4 DEF Settle, TypeOK
  <2>3. \A s \in Request \ {r} : Owed(s)' = Owed(s) /\ OverRefund(s)' = OverRefund(s)
    BY <2>1, <2>2 DEF Owed, OverRefund, Phase
  <2>4. /\ log[r] = "none" /\ (success[r] <=> ~released[r])
        /\ ~success[r] => charge[r] = 0
        /\ ~released[r] => fault[r] = "none"
        /\ fault[r] # "twice"
        /\ pre[r] \in Nat /\ charge[r] \in Nat
    BY <1>4, AmountsAssumption DEF Settle, Shape, TypeOK
  <2>5. log'[r] = IF success[r] THEN "success" ELSE "error"
    BY <1>4 DEF Settle, TypeOK
  <2>6. OverRefund(r)' = 0 /\ OverRefund(r) = 0
    BY <2>1, <2>4 DEF OverRefund
  <2>7. Delta(r) = Owed(r)' - Owed(r)
    <3>1. CASE success[r]
      BY <2>1, <2>4, <2>5, <3>1 DEF Delta, RealCost, Owed, Phase
    <3>2. CASE ~success[r]
      BY <2>1, <2>4, <2>5, <3>2 DEF Delta, RealCost, Owed, Phase
    <3> QED
      BY <3>1, <3>2
  <2>8. Owed(r) \in Nat /\ Owed(r)' \in Nat
    BY <1>0, OwedType, OwedTypePrime
  <2>9. /\ used'[Payer[r]] = used[Payer[r]] + (Owed(r)' - Owed(r))
                                     - (OverRefund(r)' - OverRefund(r))
    /\ \A v \in User \ {Payer[r]} : used'[v] = used[v]
    <3>1. /\ used'[Payer[r]] = used[Payer[r]] + Delta(r)
          /\ \A v \in User \ {Payer[r]} : used'[v] = used[v]
          /\ used[Payer[r]] \in Int
      BY <1>4, PayerType DEF Settle, TypeOK
    <3> QED
      BY <2>6, <2>7, <2>8, <3>1
  <2> QED
    BY <1>0, <2>3, <2>9, BalanceStep
<1>5. ASSUME UNCHANGED <<used, log, pre, released, fault>>,
             \A s \in Request : log[s] = "success" => charge'[s] = charge[s]
      PROVE  Conservation'
  <2>1. \A s \in Request : Owed(s)' = Owed(s) /\ OverRefund(s)' = OverRefund(s)
    BY <1>5 DEF Owed, OverRefund, Phase
  <2> QED
    BY <1>5, <2>1, BalanceKept
<1>6. ASSUME NEW r \in Request, UpstreamBilled(r) PROVE Conservation'
  <2>1. \A s \in Request : log[s] = "success" => charge'[s] = charge[s]
    BY <1>6 DEF UpstreamBilled, Shape, TypeOK
  <2> QED
    BY <1>5, <1>6, <2>1 DEF UpstreamBilled, dbVars
<1>7. ASSUME NEW r \in Request, PreCharge(r) PROVE Conservation'
  <2>1. CASE PreChargeReserve(r)
    BY <1>1, <2>1 DEF PreChargeReserve, Reserve, Shape, TypeOK
  <2>2. CASE PreChargeAckLost(r)
    BY <1>1, <2>2 DEF PreChargeAckLost, TypeOK
  <2>3. CASE PreChargeFree(r) \/ PreChargeReadUser(r) \/ PreChargeReadToken(r) \/ PreChargeError(r)
    BY <1>5, <2>3 DEF PreChargeFree, PreChargeReadUser, PreChargeReadToken, PreChargeError,
                      dbVars, ctxVars
  <2> QED
    BY <1>7, <2>1, <2>2, <2>3 DEF PreCharge
<1>8. ASSUME NEW r \in Request, Closing(r) PROVE Conservation'
  <2>1. CASE FinalizeError(r)
    BY <1>5, <2>1 DEF FinalizeError, dbVars, ctxVars
  <2> QED
    BY <1>2, <1>3, <1>4, <1>8, <2>1 DEF Closing, Finalize, FinalizeAckLost
<1>9. ASSUME NEW r \in Request, Admit(r) \/ UpstreamFailed(r) \/ Crash(r) PROVE Conservation'
  BY <1>5, <1>9 DEF Admit, UpstreamFailed, Crash, dbVars, ctxVars
<1>10. ASSUME NEW t \in Token, EditToken(t) PROVE Conservation'
  BY <1>5, <1>10 DEF EditToken, ctxVars
<1>11. CASE SetRewardPercent
  BY <1>5, <1>11 DEF SetRewardPercent, ctxVars
<1>12. CASE UNCHANGED vars
  BY <1>5, <1>12 DEF vars
<1> QED
  BY <1>6, <1>7, <1>8, <1>9, <1>10, <1>11, <1>12 DEF Next

\* used_quota is the sum of the logged prices and of the open reservations,
\* less what a lost acknowledgement had refunded twice.
THEOREM ConservationHolds == Spec => []Conservation
<1>1. Init => TypeOK /\ Shape /\ Conservation
  BY InitTypeOK, InitShape, InitConservation
<1>2. TypeOK /\ Shape /\ Conservation /\ [Next]_vars => (TypeOK /\ Shape /\ Conservation)'
  BY StepTypeOK, StepShape, StepConservation
<1> QED
  BY <1>1, <1>2, PTL DEF Spec

-------------------------------------------------------------------------------
(* One request's step, and sums over families of requests                   *)

RequestStep(r) ==
    \/ Admit(r) \/ PreCharge(r)
    \/ UpstreamBilled(r) \/ UpstreamFailed(r)
    \/ Closing(r) \/ Crash(r)

\* The others keep their logs rows, contexts and places.
Alone(r) ==
    \A s \in Request \ {r} :
        /\ pc'[s] = pc[s] /\ log'[s] = log[s] /\ reward'[s] = reward[s]
        /\ metered'[s] = metered[s] /\ est'[s] = est[s] /\ pre'[s] = pre[s]
        /\ released'[s] = released[s] /\ success'[s] = success[s]
        /\ charge'[s] = charge[s] /\ fault'[s] = fault[s]

LEMMA StepAlone ==
  ASSUME TypeOK, NEW r \in Request, RequestStep(r)
  PROVE  Alone(r)
<1> USE DEF TypeOK, Alone, Goto, dbVars, ctxVars
<1>1. CASE Admit(r) \/ UpstreamBilled(r) \/ UpstreamFailed(r) \/ Crash(r)
  BY <1>1 DEF Admit, UpstreamBilled, UpstreamFailed, Crash
<1>2. CASE PreCharge(r)
  BY <1>2 DEF PreCharge, PreChargeFree, PreChargeReadUser, PreChargeReadToken, PreChargeReserve,
     PreChargeAckLost, PreChargeError, Reserve
<1>3. CASE Release(r) \/ ReleaseError(r)
  BY <1>3 DEF Release, ReleaseError, AfterRelease
<1>4. CASE Finalize(r) \/ FinalizeError(r) \/ FinalizeAckLost(r)
  BY <1>4 DEF Finalize, FinalizeError, FinalizeAckLost, Settle, AfterSettleError
<1> QED
  BY <1>1, <1>2, <1>3, <1>4 DEF RequestStep, Closing

\* A request's step is no edit of a key.
LEMMA StepNoEdit ==
  ASSUME NEW r \in Request, RequestStep(r)
  PROVE  UNCHANGED <<written, overtaken>>
<1> USE DEF dbVars, ctxVars
<1>1. CASE Admit(r) \/ UpstreamBilled(r) \/ UpstreamFailed(r) \/ Crash(r)
  BY <1>1 DEF Admit, UpstreamBilled, UpstreamFailed, Crash
<1>2. CASE PreCharge(r)
  BY <1>2 DEF PreCharge, PreChargeFree, PreChargeReadUser, PreChargeReadToken, PreChargeReserve,
     PreChargeAckLost, PreChargeError, Reserve
<1>3. CASE Closing(r)
  BY <1>3 DEF Closing, Release, ReleaseError, Finalize, FinalizeError, FinalizeAckLost, Settle
<1> QED
  BY <1>1, <1>2, <1>3 DEF RequestStep

\* Steps that are no request's leave all but a key and the settings alone.
LEMMA StepKinds ==
  ASSUME [Next]_vars
  PROVE  \/ \E r \in Request : RequestStep(r)
         \/ /\ UNCHANGED <<used, quota, log, reward, pc, metered, est, pre, released,
                           success, charge, fault>>
            /\ \/ UNCHANGED <<remain, written, overtaken>>
               \/ \E t \in Token, q \in Remains : WriteRemain(t, q)
<1>1. CASE \E t \in Token : EditToken(t)
  BY <1>1 DEF EditToken, ctxVars
<1>2. CASE SetRewardPercent
  BY <1>2 DEF SetRewardPercent, ctxVars
<1>3. CASE \E r \in Request : RequestStep(r)
  BY <1>3
<1>4. CASE UNCHANGED vars
  BY <1>4 DEF vars
<1> QED
  BY <1>1, <1>2, <1>3, <1>4 DEF Next, RequestStep

\* The summands x of the requests that belong to k.
Family(Of, k, x) == [s \in Request |-> IF Of[s] = k THEN x[s] ELSE 0]

\* The total of a family, when one request's share changes.
LEMMA FamilyUpdate ==
  ASSUME NEW Of, NEW k, NEW x \in [Request -> Nat], NEW y \in [Request -> Nat],
         NEW r \in Request, \A s \in Request \ {r} : y[s] = x[s]
  PROVE  /\ Total(Family(Of, k, x), Request) \in Nat /\ Total(Family(Of, k, y), Request) \in Nat
         /\ Of[r] = k =>
              Total(Family(Of, k, y), Request) = Total(Family(Of, k, x), Request) - x[r] + y[r]
         /\ Of[r] # k => Total(Family(Of, k, y), Request) = Total(Family(Of, k, x), Request)
<1> DEFINE X == Family(Of, k, x)
           Y == Family(Of, k, y)
<1>1. X \in [Request -> Nat] /\ Y \in [Request -> Nat]
  BY DEF Family
<1>2. \A s \in Request \ {r} : Y[s] = X[s]
  BY DEF Family
<1>3. X[r] = (IF Of[r] = k THEN x[r] ELSE 0) /\ Y[r] = (IF Of[r] = k THEN y[r] ELSE 0)
  BY DEF Family
<1>4. x[r] \in Nat /\ y[r] \in Nat
  OBVIOUS
<1> HIDE DEF X, Y
<1>5. /\ Total(X, Request) \in Nat /\ Total(Y, Request) \in Nat
      /\ Total(Y, Request) = Total(X, Request) - X[r] + Y[r]
  BY <1>1, <1>2, RequestsFinite, TotalUpdate
<1>6. /\ Total(X, Request) \in Nat /\ Total(Y, Request) \in Nat
      /\ Of[r] = k => Total(Y, Request) = Total(X, Request) - x[r] + y[r]
      /\ Of[r] # k => Total(Y, Request) = Total(X, Request)
  BY <1>3, <1>4, <1>5
<1> QED
  BY <1>6 DEF X, Y

-------------------------------------------------------------------------------
(* The balance of remain_quota                                              *)

\* What r has taken from its key.
Paid(r) == IF metered[r] /\ log[r] = "success" THEN charge[r] ELSE 0

\* r's step lowers remain_quota of its key by what it adds to the price paid.
LEMMA TokenStep ==
  ASSUME TypeOK, Shape, NEW r \in Request, RequestStep(r)
  PROVE  /\ remain'[TokenOf[r]] = remain[TokenOf[r]] - (Paid(r)' - Paid(r))
         /\ \A t \in Token \ {TokenOf[r]} : remain'[t] = remain[t]
         /\ log[r] = "none" \/ Paid(r)' = Paid(r)
<1>1. /\ remain \in [Token -> Int] /\ TokenOf[r] \in Token /\ charge[r] \in Nat
      /\ metered[r] \in BOOLEAN /\ log[r] \in {"none", "success", "error"}
  BY MapsAssumption DEF TypeOK
<1>2. ASSUME UNCHANGED remain, Paid(r)' = Paid(r)
      PROVE  /\ remain'[TokenOf[r]] = remain[TokenOf[r]] - (Paid(r)' - Paid(r))
             /\ \A t \in Token \ {TokenOf[r]} : remain'[t] = remain[t]
             /\ log[r] = "none" \/ Paid(r)' = Paid(r)
  <2>1. Paid(r) \in Nat /\ remain[TokenOf[r]] \in Int
    BY <1>1 DEF Paid
  <2> QED
    BY <1>2, <2>1
<1>3. ASSUME UNCHANGED <<remain, log>>, log[r] = "none"
      PROVE  UNCHANGED remain /\ Paid(r)' = Paid(r)
  BY <1>3 DEF Paid
<1>4. ASSUME UNCHANGED <<remain, log, metered, charge>>
      PROVE  UNCHANGED remain /\ Paid(r)' = Paid(r)
  BY <1>4 DEF Paid
<1>5. CASE Admit(r) \/ UpstreamBilled(r)
  <2>1. UNCHANGED <<remain, log>> /\ log[r] = "none"
    BY <1>5 DEF Admit, UpstreamBilled, dbVars, Shape
  <2> QED
    BY <1>2, <1>3, <2>1
<1>6. CASE PreCharge(r)
  <2>1. UNCHANGED <<remain, log, metered, charge>>
    BY <1>6 DEF PreCharge, PreChargeFree, PreChargeReadUser, PreChargeReadToken,
       PreChargeReserve, PreChargeAckLost, PreChargeError, Reserve, dbVars, ctxVars
  <2> QED
    BY <1>2, <1>4, <2>1
<1>7. CASE UpstreamFailed(r) \/ Crash(r) \/ Release(r) \/ ReleaseError(r) \/ FinalizeError(r)
  <2>1. UNCHANGED <<remain, log, metered, charge>>
    BY <1>7 DEF UpstreamFailed, Crash, Release, ReleaseError, FinalizeError, dbVars, ctxVars
  <2> QED
    BY <1>2, <1>4, <2>1
<1>8. CASE Settle(r)
  <2>1. log[r] = "none" /\ log'[r] = (IF success[r] THEN "success" ELSE "error")
        /\ UNCHANGED <<metered, charge>>
        /\ remain' = [remain EXCEPT ![TokenOf[r]] = @ - TokenCharge(r)]
    BY <1>8 DEF Settle, Shape, TypeOK
  <2>2. Paid(r) = 0 /\ Paid(r)' = TokenCharge(r) /\ TokenCharge(r) \in Nat
    BY <1>1, <2>1 DEF Paid, TokenCharge, RealCost
  <2> QED
    BY <1>1, <2>1, <2>2
<1> QED
  BY <1>5, <1>6, <1>7, <1>8 DEF RequestStep, Closing, Finalize, FinalizeAckLost

\* What r has paid since the owner last wrote remain_quota.
PaidSince(r) == IF Charged(r) /\ overtaken[r] # "logged" THEN charge[r] ELSE 0

\* After the owner has written remain_quota, nothing has been paid from it yet.
LEMMA WriteTokenBalance ==
  ASSUME TypeOK, TokenBalance, NEW k \in Token, NEW q \in Remains, WriteRemain(k, q),
         UNCHANGED <<metered, log, charge>>
  PROVE  TokenBalance'
<1>1. \A t \in Token \ {k} : remain'[t] = remain[t] /\ written'[t] = written[t]
  BY DEF WriteRemain, TypeOK
<1>2. remain'[k] = q /\ written'[k] = q /\ q \in Nat
  BY AmountsAssumption DEF WriteRemain, TypeOK
<1>3. ASSUME NEW t \in Token, t # k
      PROVE  remain'[t] = written'[t] - Total(PaidOn(t)', Request)
  <2>1. \A r \in Request : TokenOf[r] = t => overtaken'[r] = overtaken[r]
    BY <1>3 DEF WriteRemain
  <2>2. PaidOn(t)' = PaidOn(t)
    BY <2>1 DEF PaidOn, Charged
  <2> QED
    BY <1>1, <1>3, <2>2 DEF TokenBalance
<1>4. Total(PaidOn(k)', Request) = 0
  <2> DEFINE f == [r \in Request |->
                     IF TokenOf[r] = k /\ Charged(r)' /\ overtaken'[r] # "logged"
                     THEN charge'[r] ELSE 0]
  <2>1. \A r \in Request : TokenOf[r] = k /\ Charged(r)' => overtaken'[r] = "logged"
    BY DEF WriteRemain, Charged
  <2>2. \A r \in Request : f[r] = 0
    BY <2>1
  <2>3. PaidOn(k)' = f
    BY DEF PaidOn
  <2> HIDE DEF f
  <2> QED
    BY <2>2, <2>3, TotalZero
<1> QED
  BY <1>2, <1>3, <1>4 DEF TokenBalance

LEMMA StepTokenBalance ==
  TypeOK /\ Shape /\ TokenBalance /\ [Next]_vars => TokenBalance'
<1> SUFFICES ASSUME TypeOK, Shape, TokenBalance, [Next]_vars PROVE TokenBalance'
  OBVIOUS
<1>1. TypeOK'
  BY StepTypeOK
<1>2. ASSUME NEW r \in Request, RequestStep(r), NEW t \in Token
      PROVE  remain'[t] = written'[t] - Total(PaidOn(t)', Request)
  <2> DEFINE x == [s \in Request |-> PaidSince(s)]
             y == [s \in Request |-> PaidSince(s)']
  <2>1. x \in [Request -> Nat] /\ y \in [Request -> Nat]
    BY <1>1 DEF TypeOK, PaidSince
  <2>2. written' = written /\ overtaken' = overtaken
    BY <1>2, StepNoEdit
  <2>3. \A s \in Request \ {r} : y[s] = x[s]
    BY <1>2, <2>2, StepAlone DEF Alone, PaidSince, Charged
  <2>4. /\ PaidOn(t) = Family(TokenOf, t, x)
        /\ PaidOn(t)' = Family(TokenOf, t, y)
    BY DEF PaidOn, PaidSince, Family
  <2>5. x[r] = PaidSince(r) /\ y[r] = PaidSince(r)' /\ x[r] \in Nat /\ y[r] \in Nat
    BY <2>1
  <2>6. PaidSince(r)' - PaidSince(r) = Paid(r)' - Paid(r)
    <3>1. CASE overtaken[r] # "logged"
      BY <2>2, <3>1 DEF PaidSince, Paid, Charged
    <3>2. CASE overtaken[r] = "logged"
      <4>1. log[r] = "success"
        BY <3>2 DEF Shape
      <4>2. Paid(r)' = Paid(r) /\ Paid(r) \in Nat
        BY <1>2, <4>1, TokenStep DEF Paid, TypeOK
      <4> QED
        BY <2>2, <3>2, <4>2 DEF PaidSince
    <3> QED
      BY <3>1, <3>2
  <2> HIDE DEF x, y
  <2>7. /\ Total(PaidOn(t), Request) \in Nat /\ Total(PaidOn(t)', Request) \in Nat
        /\ TokenOf[r] = t =>
             Total(PaidOn(t)', Request) = Total(PaidOn(t), Request) - x[r] + y[r]
        /\ TokenOf[r] # t => Total(PaidOn(t)', Request) = Total(PaidOn(t), Request)
    BY <2>1, <2>3, <2>4, FamilyUpdate
  <2>8. remain[t] = written[t] - Total(PaidOn(t), Request) /\ written[t] \in Nat
    BY DEF TokenBalance, TypeOK
  <2>9. /\ TokenOf[r] = t => remain'[t] = remain[t] - (y[r] - x[r])
        /\ TokenOf[r] # t => remain'[t] = remain[t]
    BY <1>2, <2>5, <2>6, TokenStep
  <2> QED
    BY <2>2, <2>5, <2>7, <2>8, <2>9
<1>3. CASE UNCHANGED <<remain, written, overtaken, metered, log, charge>>
  <2>1. \A t \in Token : PaidOn(t)' = PaidOn(t)
    BY <1>3 DEF PaidOn, Charged
  <2> QED
    BY <1>3, <2>1 DEF TokenBalance
<1> QED
  BY <1>2, <1>3, StepKinds, WriteTokenBalance DEF TokenBalance

LEMMA InitTokenBalance == Init => TokenBalance
<1> SUFFICES ASSUME Init, NEW t \in Token
             PROVE  remain[t] = written[t] - Total(PaidOn(t), Request)
  BY DEF TokenBalance
<1>1. Total(PaidOn(t), Request) = 0
  BY TotalZero DEF Init, PaidOn, Charged
<1> QED
  BY <1>1, AmountsAssumption DEF Init

\* However many requests settle beside the owner's edits of the key, its balance is
\* the figure he wrote last, less the prices logged since for requests that
\* TokenAuth saw it limited for.
THEOREM TokenBalanceHolds == Spec => []TokenBalance
<1>1. Init => TypeOK /\ Shape /\ TokenBalance
  BY InitTypeOK, InitShape, InitTokenBalance
<1>2. TypeOK /\ Shape /\ TokenBalance /\ [Next]_vars => (TypeOK /\ Shape /\ TokenBalance)'
  BY StepTypeOK, StepShape, StepTokenBalance
<1> QED
  BY <1>1, <1>2, PTL DEF Spec

-------------------------------------------------------------------------------
(* The balance of quota: rewards of invitations                             *)

\* Who is rewarded for r, or NoUser.
Inviters == [r \in Request |-> InviterOf[Payer[r]]]

\* What is not billed earns nothing.
LEMMA NoCostNoReward ==
  ASSUME TypeOK, NEW r \in Request
  PROVE  RewardFor(r) > 0 => success[r] /\ InviterOf[Payer[r]] # NoUser
<1>1. percent \in Nat
  BY AmountsAssumption DEF TypeOK
<1>2. 0 * percent = 0 /\ (0 + 50) \div 100 = 0
  BY <1>1
<1>3. ~success[r] => (RealCost(r) * percent + 50) \div 100 = 0
  BY <1>2 DEF RealCost
<1> QED
  BY <1>3 DEF RewardFor

\* r's step raises the inviter's quota by the reward it writes, beside a billed row.
LEMMA RewardStep ==
  ASSUME TypeOK, Shape, RewardsBalance, NEW r \in Request, RequestStep(r)
  PROVE  /\ \A u \in User : quota'[u] =
               quota[u] + (IF Inviters[r] = u THEN reward'[r] - reward[r] ELSE 0)
         /\ reward'[r] > 0 => log'[r] = "success" /\ Inviters[r] # NoUser
<1>1. /\ \A u \in User : quota[u] \in Nat
      /\ reward[r] \in Nat /\ Inviters[r] = InviterOf[Payer[r]]
      /\ reward[r] > 0 => log[r] = "success" /\ Inviters[r] # NoUser
  BY DEF TypeOK, Inviters, RewardsBalance
<1>2. ASSUME UNCHANGED <<quota, reward, log>>
      PROVE  /\ \A u \in User : quota'[u] =
                   quota[u] + (IF Inviters[r] = u THEN reward'[r] - reward[r] ELSE 0)
             /\ reward'[r] > 0 => log'[r] = "success" /\ Inviters[r] # NoUser
  BY <1>1, <1>2
<1>3. CASE Admit(r) \/ PreCharge(r) \/ UpstreamBilled(r) \/ UpstreamFailed(r) \/ Crash(r)
  <2>1. UNCHANGED <<quota, reward, log>>
    BY <1>3 DEF Admit, PreCharge, PreChargeFree, PreChargeReadUser, PreChargeReadToken,
       PreChargeReserve, PreChargeAckLost, PreChargeError, Reserve, UpstreamBilled,
       UpstreamFailed, Crash, dbVars
  <2> QED
    BY <1>2, <2>1
<1>4. CASE Release(r) \/ ReleaseError(r) \/ FinalizeError(r)
  <2>1. UNCHANGED <<quota, reward, log>>
    BY <1>4 DEF Release, ReleaseError, FinalizeError, dbVars
  <2> QED
    BY <1>2, <2>1
<1>5. CASE Settle(r)
  <2>1. log[r] = "none" /\ log'[r] = (IF success[r] THEN "success" ELSE "error")
        /\ reward'[r] = RewardFor(r)
    BY <1>5 DEF Settle, Shape, TypeOK
  <2>2. reward[r] = 0 /\ RewardFor(r) \in Nat
    BY <1>1, <2>1, RewardForType
  <2>3. \A u \in User : quota'[u] =
          quota[u] + (IF InviterOf[Payer[r]] = u THEN RewardFor(r) ELSE 0)
    BY <1>5 DEF Settle
  <2>4. reward'[r] > 0 => log'[r] = "success" /\ Inviters[r] # NoUser
    BY <1>1, <2>1, NoCostNoReward
  <2> QED
    BY <1>1, <2>1, <2>2, <2>3, <2>4
<1> QED
  BY <1>3, <1>4, <1>5 DEF RequestStep, Closing, Finalize, FinalizeAckLost

LEMMA StepRewardsBalance ==
  TypeOK /\ Shape /\ RewardsBalance /\ [Next]_vars => RewardsBalance'
<1> SUFFICES ASSUME TypeOK, Shape, RewardsBalance, [Next]_vars PROVE RewardsBalance'
  OBVIOUS
<1>1. reward \in [Request -> Nat] /\ reward' \in [Request -> Nat]
  BY StepTypeOK DEF TypeOK
<1>2. \A u \in User : /\ RewardTo(u) = Family(Inviters, u, reward)
                      /\ RewardTo(u)' = Family(Inviters, u, reward')
  BY DEF RewardTo, Family, Inviters
<1>3. ASSUME NEW r \in Request, RequestStep(r)
      PROVE  RewardsBalance'
  <2>1. \A s \in Request \ {r} : reward'[s] = reward[s] /\ log'[s] = log[s]
    BY <1>3, StepAlone DEF Alone
  <2>2. ASSUME NEW u \in User
        PROVE  quota'[u] = InitQuota[u] + Total(RewardTo(u)', Request)
    <3>1. /\ Total(RewardTo(u), Request) \in Nat /\ Total(RewardTo(u)', Request) \in Nat
          /\ Inviters[r] = u =>
               Total(RewardTo(u)', Request) = Total(RewardTo(u), Request) - reward[r] + reward'[r]
          /\ Inviters[r] # u => Total(RewardTo(u)', Request) = Total(RewardTo(u), Request)
      BY <1>1, <1>2, <2>1, FamilyUpdate
    <3>2. quota[u] = InitQuota[u] + Total(RewardTo(u), Request) /\ InitQuota[u] \in Nat
      BY AmountsAssumption DEF RewardsBalance
    <3>3. quota'[u] = quota[u] + (IF Inviters[r] = u THEN reward'[r] - reward[r] ELSE 0)
      BY <1>3, RewardStep
    <3>4. reward[r] \in Nat /\ reward'[r] \in Nat
      BY <1>1
    <3> QED
      BY <3>1, <3>2, <3>3, <3>4
  <2>3. \A s \in Request : reward'[s] > 0 => log'[s] = "success" /\ InviterOf[Payer[s]] # NoUser
    BY <1>3, <2>1, RewardStep DEF RewardsBalance, Inviters
  <2> QED
    BY <2>2, <2>3 DEF RewardsBalance
<1>4. CASE UNCHANGED <<quota, reward, log>>
  <2>1. \A u \in User : RewardTo(u)' = RewardTo(u)
    BY <1>4 DEF RewardTo
  <2> QED
    BY <1>4, <2>1 DEF RewardsBalance
<1> QED
  BY <1>3, <1>4, StepKinds

LEMMA InitRewardsBalance == Init => RewardsBalance
<1> SUFFICES ASSUME Init PROVE RewardsBalance
  OBVIOUS
<1>1. \A u \in User : Total(RewardTo(u), Request) = 0
  <2>1. \A u \in User, r \in Request : RewardTo(u)[r] = 0
    BY DEF Init, RewardTo
  <2> QED
    BY <2>1, TotalZero
<1>2. \A u \in User : quota[u] = InitQuota[u] /\ InitQuota[u] \in Nat
  BY AmountsAssumption DEF Init
<1>3. \A r \in Request : reward[r] = 0
  BY DEF Init
<1> QED
  BY <1>1, <1>2, <1>3 DEF RewardsBalance

\* A quota grows by nothing but the rewards written beside the billed requests of
\* invited users, each once, whatever fails and however the percentage changes.
THEOREM RewardsBalanceHolds == Spec => []RewardsBalance
<1>1. Init => TypeOK /\ Shape /\ RewardsBalance
  BY InitTypeOK, InitShape, InitRewardsBalance
<1>2. TypeOK /\ Shape /\ RewardsBalance /\ [Next]_vars => (TypeOK /\ Shape /\ RewardsBalance)'
  BY StepTypeOK, StepShape, StepRewardsBalance
<1> QED
  BY <1>1, <1>2, PTL DEF Spec

-------------------------------------------------------------------------------
(* How many requests of a user run at a time                                *)

InFlightBound == \A u \in User : Cardinality(InFlight(u)) <= ConcurrencyLimit

\* Only Admit lets a request in.
LEMMA OnlyAdmitEnters ==
  ASSUME TypeOK, NEW r \in Request, RequestStep(r), pc[r] \in Over, pc'[r] \notin Over
  PROVE  Admit(r)
<1>1. CASE PreCharge(r)
  BY <1>1 DEF PreCharge, PreChargeFree, PreChargeReadUser, PreChargeReadToken, PreChargeReserve,
     PreChargeAckLost, PreChargeError, Reserve, Over
<1>2. CASE UpstreamBilled(r) \/ UpstreamFailed(r) \/ Crash(r) \/ Closing(r)
  BY <1>2 DEF UpstreamBilled, UpstreamFailed, Crash, Closing, Release, ReleaseError, Finalize,
     FinalizeError, FinalizeAckLost, Settle, Over
<1> QED
  BY <1>1, <1>2 DEF RequestStep

LEMMA InFlightFinite ==
  ASSUME NEW u
  PROVE  IsFiniteSet(InFlight(u)) /\ Cardinality(InFlight(u)) \in Nat
BY RequestsFinite, FS_Subset, FS_CardinalityType DEF InFlight

LEMMA StepInFlight == TypeOK /\ InFlightBound /\ [Next]_vars => InFlightBound'
<1> SUFFICES ASSUME TypeOK, InFlightBound, [Next]_vars, NEW u \in User
             PROVE  Cardinality(InFlight(u)') <= ConcurrencyLimit
  BY DEF InFlightBound
<1>1. /\ IsFiniteSet(InFlight(u)) /\ Cardinality(InFlight(u)) \in Nat
      /\ Cardinality(InFlight(u)) <= ConcurrencyLimit /\ ConcurrencyLimit \in Nat
  BY InFlightFinite, LimitAssumption DEF InFlightBound
<1>2. ASSUME InFlight(u)' \subseteq InFlight(u)
      PROVE  Cardinality(InFlight(u)') <= ConcurrencyLimit
  <2>1. IsFiniteSet(InFlight(u)') /\ Cardinality(InFlight(u)') <= Cardinality(InFlight(u))
    BY <1>1, <1>2, FS_Subset
  <2> QED
    BY <1>1, <2>1, FS_CardinalityType
<1>3. ASSUME NEW r \in Request, RequestStep(r)
      PROVE  Cardinality(InFlight(u)') <= ConcurrencyLimit
  <2>1. \A s \in Request \ {r} : pc'[s] = pc[s]
    BY <1>3, StepAlone DEF Alone
  <2>2. CASE pc[r] \in Over /\ pc'[r] \notin Over /\ Payer[r] = u
    <3>1. Cardinality(InFlight(u)) + 1 <= ConcurrencyLimit /\ r \notin InFlight(u)
      BY <1>1, <1>3, <2>2, OnlyAdmitEnters DEF Admit, InFlight
    <3>2. InFlight(u)' \subseteq InFlight(u) \cup {r}
      BY <2>1 DEF InFlight
    <3>3. /\ IsFiniteSet(InFlight(u) \cup {r})
          /\ Cardinality(InFlight(u) \cup {r}) = Cardinality(InFlight(u)) + 1
      BY <1>1, <3>1, FS_AddElement
    <3>4. IsFiniteSet(InFlight(u)')
          /\ Cardinality(InFlight(u)') <= Cardinality(InFlight(u) \cup {r})
      BY <3>2, <3>3, FS_Subset
    <3>5. Cardinality(InFlight(u)') \in Nat
      BY <3>4, FS_CardinalityType
    <3> QED
      BY <1>1, <3>1, <3>3, <3>4, <3>5
  <2>3. CASE ~(pc[r] \in Over /\ pc'[r] \notin Over /\ Payer[r] = u)
    <3>1. InFlight(u)' \subseteq InFlight(u)
      BY <2>1, <2>3 DEF InFlight
    <3> QED
      BY <1>2, <3>1
  <2> QED
    BY <2>2, <2>3
<1>4. CASE UNCHANGED pc
  BY <1>2, <1>4 DEF InFlight
<1> QED
  BY <1>3, <1>4, StepKinds

LEMMA InitInFlight == Init => InFlightBound
<1> SUFFICES ASSUME Init, NEW u \in User PROVE Cardinality(InFlight(u)) <= ConcurrencyLimit
  BY DEF InFlightBound
<1>1. InFlight(u) = {}
  BY DEF Init, InFlight, Over
<1> QED
  BY <1>1, FS_EmptySet, LimitAssumption

\* Summands that only other requests in flight have, each at most one estimate,
\* total at most what the concurrency limit allows beside r.
Slack == (ConcurrencyLimit - 1) * MaxEstimate

LEMMA SlackType == Slack \in Nat
<1>1. ConcurrencyLimit - 1 \in Nat /\ MaxEstimate \in Nat
  BY LimitAssumption, AmountsAssumption
<1> QED
  BY <1>1 DEF Slack

LEMMA OthersWithinSlack ==
  ASSUME InFlightBound, NEW u \in User, NEW r \in InFlight(u),
         NEW f \in [Request -> Nat], \A s \in Request : f[s] <= MaxEstimate,
         \A s \in Request : s \notin InFlight(u) \/ s = r => f[s] = 0
  PROVE  Total(f, Request) <= Slack
<1> DEFINE P == InFlight(u) \ {r}
           k == ConcurrencyLimit - 1
<1>1. IsFiniteSet(InFlight(u)) /\ Cardinality(InFlight(u)) \in Nat
      /\ Cardinality(InFlight(u)) <= ConcurrencyLimit
  BY InFlightFinite DEF InFlightBound
<1>2. IsFiniteSet(P) /\ Cardinality(P) = Cardinality(InFlight(u)) - 1 /\ Cardinality(P) \in Nat
  BY <1>1, FS_RemoveElement, FS_CardinalityType
<1>3. k \in Nat /\ Cardinality(P) <= k /\ MaxEstimate \in Nat
  BY <1>1, <1>2, LimitAssumption, AmountsAssumption
<1>4. P \in SUBSET Request /\ \A s \in Request \ P : f[s] = 0
  BY DEF InFlight
<1>5. \A s \in Request : f[s] <= MaxEstimate
  OBVIOUS
<1> HIDE DEF P, k
<1>6. Total(f, Request) <= k * MaxEstimate
  BY <1>3, <1>4, <1>5, RequestsFinite, TotalBound
<1> QED
  BY <1>6 DEF k, Slack

-------------------------------------------------------------------------------
(* How far an account can be overdrawn                                      *)

\* What r was told it may reserve, and has not reserved yet.
Pending(r) == IF pc[r] \in {"readToken", "reserve"} THEN est[r] ELSE 0

PendingOf(u) == [r \in Request |-> IF Payer[r] = u THEN Pending(r) ELSE 0]

\* The bound holds for what is reserved and what is about to be: a request that
\* reads the balance sees neither the reservations nor the intentions to come,
\* but those are the other requests in flight.
Bounded ==
    \A u \in User :
        used[u] + Total(PendingOf(u), Request) <=
            quota[u] + Slack + Total(ExcessOf(u), Request)

Settling == TypeOK /\ Shape /\ InFlightBound

LEMMA ShareTypes ==
  ASSUME TypeOK
  PROVE  \A r \in Request : /\ Pending(r) \in 0 .. MaxEstimate
                            /\ Excess(r) \in Nat
BY AmountsAssumption DEF TypeOK, Pending, Excess

LEMMA ShareTypesPrime ==
  ASSUME TypeOK'
  PROVE  \A r \in Request : /\ Pending(r)' \in 0 .. MaxEstimate
                            /\ Excess(r)' \in Nat
BY AmountsAssumption DEF TypeOK, Pending, Excess

\* The totals after a step of r, from those before it.
LEMMA TotalsStep ==
  ASSUME TypeOK, TypeOK', NEW r \in Request, Alone(r), NEW u \in User
  PROVE  /\ Total(PendingOf(u), Request) \in Nat /\ Total(PendingOf(u)', Request) \in Nat
         /\ Total(ExcessOf(u), Request) \in Nat /\ Total(ExcessOf(u)', Request) \in Nat
         /\ Payer[r] = u =>
              /\ Total(PendingOf(u)', Request) =
                   Total(PendingOf(u), Request) - Pending(r) + Pending(r)'
              /\ Total(ExcessOf(u)', Request) =
                   Total(ExcessOf(u), Request) - Excess(r) + Excess(r)'
         /\ Payer[r] # u =>
              /\ Total(PendingOf(u)', Request) = Total(PendingOf(u), Request)
              /\ Total(ExcessOf(u)', Request) = Total(ExcessOf(u), Request)
<1> DEFINE x == [s \in Request |-> Pending(s)]
           y == [s \in Request |-> Pending(s)']
           v == [s \in Request |-> Excess(s)]
           w == [s \in Request |-> Excess(s)']
<1>1. /\ x \in [Request -> Nat] /\ y \in [Request -> Nat]
      /\ v \in [Request -> Nat] /\ w \in [Request -> Nat]
  BY ShareTypes, ShareTypesPrime
<1>2. \A s \in Request \ {r} : y[s] = x[s] /\ w[s] = v[s]
  BY DEF Alone, Pending, Excess
<1>3. /\ PendingOf(u) = Family(Payer, u, x) /\ PendingOf(u)' = Family(Payer, u, y)
      /\ ExcessOf(u) = Family(Payer, u, v) /\ ExcessOf(u)' = Family(Payer, u, w)
  BY DEF PendingOf, ExcessOf, Family, Payer
<1>4. /\ x[r] = Pending(r) /\ y[r] = Pending(r)'
      /\ v[r] = Excess(r) /\ w[r] = Excess(r)'
  OBVIOUS
<1> HIDE DEF x, y, v, w
<1>5. /\ Total(Family(Payer, u, x), Request) \in Nat /\ Total(Family(Payer, u, y), Request) \in Nat
      /\ Payer[r] = u => Total(Family(Payer, u, y), Request) =
                           Total(Family(Payer, u, x), Request) - x[r] + y[r]
      /\ Payer[r] # u => Total(Family(Payer, u, y), Request) = Total(Family(Payer, u, x), Request)
  BY <1>1, <1>2, FamilyUpdate
<1>6. /\ Total(Family(Payer, u, v), Request) \in Nat /\ Total(Family(Payer, u, w), Request) \in Nat
      /\ Payer[r] = u => Total(Family(Payer, u, w), Request) =
                           Total(Family(Payer, u, v), Request) - v[r] + w[r]
      /\ Payer[r] # u => Total(Family(Payer, u, w), Request) = Total(Family(Payer, u, v), Request)
  BY <1>1, <1>2, FamilyUpdate
<1> QED
  BY <1>3, <1>4, <1>5, <1>6

\* A step of r that adds no more to used_quota than it had in mind, apart from a
\* price that exceeds the estimate, and takes no quota away.
Modest(r) ==
    /\ used'[Payer[r]] + Pending(r)' + Excess(r) <= used[Payer[r]] + Pending(r) + Excess(r)'
    /\ \A v \in User \ {Payer[r]} : used'[v] = used[v]
    /\ \A v \in User : quota'[v] >= quota[v]

LEMMA ModestKeeps ==
  ASSUME TypeOK, TypeOK', Bounded, NEW r \in Request, Alone(r), Modest(r)
  PROVE  Bounded'
<1> SUFFICES ASSUME NEW u \in User
             PROVE  used'[u] + Total(PendingOf(u)', Request) <=
                      quota'[u] + Slack + Total(ExcessOf(u)', Request)
  BY DEF Bounded, Slack
<1>1. used[u] + Total(PendingOf(u), Request) <= quota[u] + Slack + Total(ExcessOf(u), Request)
  BY DEF Bounded
<1>2. /\ used[u] \in Int /\ used'[u] \in Int /\ quota[u] \in Nat /\ quota'[u] \in Nat
      /\ Pending(r) \in Nat /\ Pending(r)' \in Nat /\ Excess(r) \in Nat /\ Excess(r)' \in Nat
  BY ShareTypes, ShareTypesPrime, AmountsAssumption DEF TypeOK
<1>3. quota'[u] >= quota[u] /\ Slack \in Nat
  BY SlackType DEF Modest
<1>4. CASE Payer[r] = u
  <2>1. used'[u] + Pending(r)' + Excess(r) <= used[u] + Pending(r) + Excess(r)'
    BY <1>4 DEF Modest
  <2> QED
    BY <1>1, <1>2, <1>3, <1>4, <2>1, TotalsStep
<1>5. CASE Payer[r] # u
  <2>1. used'[u] = used[u]
    BY <1>5 DEF Modest
  <2> QED
    BY <1>1, <1>2, <1>3, <1>5, <2>1, TotalsStep
<1> QED
  BY <1>4, <1>5

\* A request that neither reserves nor settles, and does not begin to intend to.
LEMMA IdleModest ==
  ASSUME TypeOK, TypeOK', NEW r \in Request, UNCHANGED <<used, quota>>,
         Pending(r)' <= Pending(r), Excess(r)' = Excess(r)
  PROVE  Modest(r)
<1>1. /\ Pending(r) \in Nat /\ Pending(r)' \in Nat /\ Excess(r) \in Nat
      /\ used[Payer[r]] \in Int /\ \A v \in User : quota[v] \in Nat
  BY ShareTypes, ShareTypesPrime, PayerType, AmountsAssumption DEF TypeOK
<1> QED
  BY <1>1 DEF Modest

LEMMA PreChargeModest ==
  ASSUME TypeOK, TypeOK', Shape, NEW r \in Request,
         \/ Admit(r) \/ PreChargeFree(r) \/ PreChargeReadToken(r) \/ PreChargeReserve(r)
         \/ PreChargeAckLost(r) \/ PreChargeError(r)
  PROVE  Modest(r)
<1>1. /\ est[r] \in Nat /\ Payer[r] \in User /\ used \in [User -> Int]
      /\ \A v \in User : quota[v] \in Nat
  BY PayerType, AmountsAssumption DEF TypeOK
<1>2. log[r] = "none" /\ log' = log
  BY DEF Admit, PreChargeFree, PreChargeReadToken, PreChargeReserve, PreChargeAckLost,
     PreChargeError, Reserve, Shape, dbVars
<1>3. Excess(r) = 0 /\ Excess(r)' = 0
  BY <1>2 DEF Excess
<1>4. CASE Admit(r) \/ PreChargeFree(r) \/ PreChargeReadToken(r) \/ PreChargeError(r)
  <2>1. UNCHANGED <<used, quota, est>>
    BY <1>4 DEF Admit, PreChargeFree, PreChargeReadToken, PreChargeError, dbVars, ctxVars
  <2>2. pc'[r] \in {"readToken", "reserve"} => pc[r] \in {"readToken", "reserve"}
    BY <1>4 DEF Admit, PreChargeFree, PreChargeReadToken, PreChargeError, Goto, TypeOK
  <2>3. Pending(r)' <= Pending(r)
    BY <1>1, <2>1, <2>2 DEF Pending
  <2> QED
    BY <1>3, <2>1, <2>3, IdleModest
<1>5. CASE Reserve(r) /\ pc'[r] \notin {"readToken", "reserve"}
  <2>1. Pending(r) = est[r] /\ Pending(r)' = 0
    BY <1>5 DEF Reserve, Pending
  <2>2. /\ used'[Payer[r]] = used[Payer[r]] + est[r] /\ quota' = quota
        /\ \A v \in User \ {Payer[r]} : used'[v] = used[v]
    BY <1>1, <1>5 DEF Reserve
  <2> QED
    BY <1>1, <1>3, <2>1, <2>2 DEF Modest
<1> QED
  BY <1>4, <1>5 DEF PreChargeReserve, PreChargeAckLost, Goto, TypeOK

LEMMA ForwardModest ==
  ASSUME TypeOK, TypeOK', Shape, NEW r \in Request,
         UpstreamBilled(r) \/ UpstreamFailed(r) \/ Crash(r) \/ FinalizeError(r) \/ ReleaseError(r)
  PROVE  Modest(r)
<1>1. UNCHANGED <<used, quota, log, pre, est>>
  BY DEF UpstreamBilled, UpstreamFailed, Crash, FinalizeError, ReleaseError, dbVars, ctxVars
<1>2. Excess(r)' = Excess(r)
  <2>1. CASE UpstreamBilled(r)
    BY <1>1, <2>1 DEF UpstreamBilled, Shape, Excess
  <2>2. CASE charge' = charge
    BY <1>1, <2>2 DEF Excess
  <2> QED
    BY <2>1, <2>2 DEF UpstreamFailed, Crash, FinalizeError, ReleaseError, ctxVars
<1>3. pc'[r] \notin {"readToken", "reserve"}
  BY DEF UpstreamBilled, UpstreamFailed, Crash, FinalizeError, ReleaseError, AfterSettleError,
     AfterRelease, Goto, TypeOK
<1>4. Pending(r)' = 0 /\ Pending(r) \in Nat
  BY <1>3, ShareTypes, AmountsAssumption DEF Pending
<1> QED
  BY <1>1, <1>2, <1>4, IdleModest

LEMMA ReleaseModest ==
  ASSUME TypeOK, TypeOK', NEW r \in Request, Release(r)
  PROVE  Modest(r)
<1>1. UNCHANGED <<quota, log, pre, charge>> /\ pre[r] \in Nat
      /\ \A v \in User : quota[v] \in Nat
  BY AmountsAssumption DEF Release, TypeOK
<1>2. Excess(r)' = Excess(r) /\ Excess(r) \in Nat
  BY <1>1, ShareTypes DEF Excess
<1>3. Pending(r) = 0 /\ Pending(r)' = 0
  BY DEF Release, AfterRelease, Goto, Pending, TypeOK
<1>4. /\ used'[Payer[r]] = used[Payer[r]] \/ used'[Payer[r]] = used[Payer[r]] - pre[r]
      /\ \A v \in User \ {Payer[r]} : used'[v] = used[v]
      /\ used[Payer[r]] \in Int
  <2>1. used' = used \/ used' = [used EXCEPT ![Payer[r]] = @ - pre[r]]
    BY DEF Release
  <2>2. used \in [User -> Int] /\ Payer[r] \in User
    BY PayerType DEF TypeOK
  <2> QED
    BY <2>1, <2>2
<1> QED
  BY <1>1, <1>2, <1>3, <1>4 DEF Modest

LEMMA SettleModest ==
  ASSUME TypeOK, TypeOK', Shape, NEW r \in Request, Settle(r),
         pc'[r] \notin {"readToken", "reserve"}
  PROVE  Modest(r)
<1>1. /\ log[r] = "none" /\ (success[r] <=> ~released[r]) /\ (~success[r] => charge[r] = 0)
      /\ pre[r] \in Nat /\ charge[r] \in Nat /\ UNCHANGED <<pre, charge>>
      /\ log'[r] = (IF success[r] THEN "success" ELSE "error")
  BY AmountsAssumption DEF Settle, Shape, TypeOK
<1>2. Pending(r) = 0 /\ Pending(r)' = 0
  BY DEF Settle, Pending
<1>3. Excess(r) = 0 /\ Delta(r) \in Int /\ Delta(r) <= Excess(r)' /\ Excess(r)' \in Nat
  <2>1. CASE success[r]
    BY <1>1, <2>1 DEF Excess, Delta, RealCost
  <2>2. CASE ~success[r]
    BY <1>1, <2>2 DEF Excess, Delta, RealCost
  <2> QED
    BY <2>1, <2>2
<1>4. /\ used'[Payer[r]] = used[Payer[r]] + Delta(r) /\ used[Payer[r]] \in Int
      /\ \A v \in User \ {Payer[r]} : used'[v] = used[v]
  BY PayerType DEF Settle, TypeOK
<1>5. \A v \in User : quota'[v] >= quota[v]
  <2>1. \A v \in User :
          quota'[v] = quota[v] + (IF InviterOf[Payer[r]] = v THEN RewardFor(r) ELSE 0)
    BY DEF Settle
  <2>2. RewardFor(r) \in Nat /\ \A v \in User : quota[v] \in Nat
    BY RewardForType DEF TypeOK
  <2> QED
    BY <2>1, <2>2
<1> QED
  BY <1>2, <1>3, <1>4, <1>5 DEF Modest

\* The read of the balance: what r saw left covers its estimate, and all that r
\* did not see are the intentions of the others in flight.
LEMMA CheckKeeps ==
  ASSUME Settling, TypeOK', Bounded, NEW r \in Request, PreChargeReadUser(r)
  PROVE  Bounded'
<1> USE DEF Settling
<1>1. Alone(r) /\ UNCHANGED <<used, quota, log, charge, pre>>
  BY StepAlone DEF RequestStep, PreCharge, PreChargeReadUser, dbVars
<1>2. pc[r] = "authed" /\ Pending(r) = 0
  BY DEF PreChargeReadUser, Pending
<1>3. Excess(r)' = Excess(r)
  BY <1>1 DEF Excess
<1>4. CASE Goto(r, "rejected")
  <2>1. pc'[r] = "rejected"
    BY <1>4 DEF Goto, TypeOK
  <2>2. Pending(r)' = 0
    BY <2>1 DEF Pending
  <2> QED
    BY <1>1, <1>2, <1>3, <2>2, IdleModest, ModestKeeps
<1>5. ASSUME NEW e \in Estimates \ {0}, ~(quota[Payer[r]] - used[Payer[r]] < e),
             est' = [est EXCEPT ![r] = e]
      PROVE  Bounded'
  <2>1. e \in 0 .. MaxEstimate /\ Payer[r] \in User /\ MaxEstimate \in Nat
    BY EstimatesType, PayerType, AmountsAssumption
  <2>2. est'[r] = e
    BY <1>5, <2>1 DEF TypeOK
  <2>3. Pending(r)' <= e
    BY <2>1, <2>2 DEF Pending
  <2> SUFFICES ASSUME NEW u \in User
               PROVE  used'[u] + Total(PendingOf(u)', Request) <=
                        quota'[u] + Slack + Total(ExcessOf(u)', Request)
    BY DEF Bounded, Slack
  <2>4. /\ used[u] \in Int /\ quota[u] \in Nat /\ Slack \in Nat
        /\ Pending(r)' \in Nat /\ Excess(r) \in Nat
    BY SlackType, ShareTypes, ShareTypesPrime, AmountsAssumption DEF TypeOK
  <2>5. CASE Payer[r] = u
    <3>1. Total(PendingOf(u), Request) <= Slack
      <4>1. r \in InFlight(u)
        BY <1>2, <2>5 DEF InFlight, Over
      <4>2. PendingOf(u) \in [Request -> Nat]
            /\ \A s \in Request : PendingOf(u)[s] <= MaxEstimate
        BY ShareTypes, AmountsAssumption DEF PendingOf
      <4>3. \A s \in Request : s \notin InFlight(u) \/ s = r => PendingOf(u)[s] = 0
        BY <1>2 DEF PendingOf, Pending, InFlight, Over
      <4> QED
        BY <4>1, <4>2, <4>3, OthersWithinSlack
    <3>2. used[u] + e <= quota[u]
      BY <1>5, <2>1, <2>4, <2>5
    <3>3. /\ Total(PendingOf(u)', Request) = Total(PendingOf(u), Request) + Pending(r)'
          /\ Total(PendingOf(u), Request) \in Nat
          /\ Total(ExcessOf(u)', Request) \in Nat
      BY <1>1, <1>2, <2>4, <2>5, TotalsStep
    <3> QED
      BY <1>1, <2>1, <2>3, <2>4, <3>1, <3>2, <3>3
  <2>6. CASE Payer[r] # u
    <3>1. /\ Total(PendingOf(u)', Request) = Total(PendingOf(u), Request)
          /\ Total(ExcessOf(u)', Request) = Total(ExcessOf(u), Request)
      BY <1>1, <2>6, TotalsStep
    <3> QED
      BY <1>1, <3>1 DEF Bounded
  <2> QED
    BY <2>5, <2>6
<1> QED
  BY <1>4, <1>5 DEF PreChargeReadUser

LEMMA StepBounded == Settling /\ Bounded /\ [Next]_vars => Bounded'
<1> SUFFICES ASSUME Settling, Bounded, [Next]_vars PROVE Bounded'
  OBVIOUS
<1>1. TypeOK /\ Shape /\ TypeOK'
  BY StepTypeOK DEF Settling
<1>2. ASSUME NEW r \in Request, RequestStep(r) PROVE Bounded'
  <2>1. Alone(r)
    BY <1>1, <1>2, StepAlone
  <2>2. CASE PreChargeReadUser(r)
    BY <1>1, <2>2, CheckKeeps
  <2>3. ASSUME Finalize(r) \/ FinalizeAckLost(r) PROVE Modest(r)
    <3>1. Settle(r) /\ pc'[r] \notin {"readToken", "reserve"}
      BY <1>1, <2>3 DEF Finalize, FinalizeAckLost, AfterSettleError, Goto, TypeOK
    <3> QED
      BY <1>1, <3>1, SettleModest
  <2>4. PreChargeReadUser(r) \/ Modest(r)
    BY <1>1, <1>2, <2>3, PreChargeModest, ForwardModest, ReleaseModest
       DEF RequestStep, PreCharge, Closing
  <2> QED
    BY <1>1, <2>1, <2>2, <2>4, ModestKeeps
<1>3. CASE UNCHANGED <<used, quota, log, pre, charge, pc, est>>
  <2>1. \A u \in User : PendingOf(u)' = PendingOf(u) /\ ExcessOf(u)' = ExcessOf(u)
    BY <1>3 DEF PendingOf, Pending, ExcessOf, Excess
  <2> QED
    BY <1>3, <2>1 DEF Bounded, Slack
<1> QED
  BY <1>2, <1>3, StepKinds

LEMMA InitBounded == Init => Bounded
<1> SUFFICES ASSUME Init, NEW u \in User
             PROVE  used[u] + Total(PendingOf(u), Request) <=
                      quota[u] + Slack + Total(ExcessOf(u), Request)
  BY DEF Bounded
<1>1. Total(PendingOf(u), Request) = 0 /\ Total(ExcessOf(u), Request) = 0
  BY TotalZero DEF Init, PendingOf, Pending, ExcessOf, Excess
<1>2. used[u] = 0 /\ quota[u] \in Nat
  BY AmountsAssumption DEF Init
<1> QED
  BY <1>1, <1>2, SlackType

LEMMA AlwaysSettling == Spec => []Settling
<1>1. Init => Settling
  BY InitTypeOK, InitShape, InitInFlight DEF Settling
<1>2. Settling /\ [Next]_vars => Settling'
  BY StepTypeOK, StepShape, StepInFlight DEF Settling
<1> QED
  BY <1>1, <1>2, PTL DEF Spec

\* No account is overdrawn by more than one estimate for each other request that
\* concurrency_limit admits, apart from prices above their estimates.
THEOREM OverdraftIsBounded == Spec => []OverdraftBound
<1>1. Settling /\ Bounded => OverdraftBound
  <2> SUFFICES ASSUME Settling, Bounded, NEW u \in User
               PROVE  used[u] <= quota[u] + Slack + Total(ExcessOf(u), Request)
    BY DEF OverdraftBound, Slack
  <2>1. PendingOf(u) \in [Request -> Nat] /\ ExcessOf(u) \in [Request -> Nat]
    BY ShareTypes, AmountsAssumption DEF PendingOf, ExcessOf, Settling
  <2>2. Total(PendingOf(u), Request) \in Nat /\ Total(ExcessOf(u), Request) \in Nat
    BY <2>1, RequestsFinite, TotalType
  <2>3. used[u] \in Int /\ quota[u] \in Nat
    BY DEF Settling, TypeOK
  <2> QED
    BY <2>2, <2>3, SlackType DEF Bounded
<1> QED
  BY <1>1, AlwaysSettling, InitBounded, StepBounded, PTL DEF Spec

-------------------------------------------------------------------------------
(* How far a key can be overdrawn                                           *)

\* What r was told its key will pay for, and has not taken from it yet, unless the
\* owner has replaced the balance since.
Due(r) ==
    IF ~metered[r] \/ overtaken[r] # "no" THEN 0
    ELSE IF pc[r] = "reserve" THEN est[r]
    ELSE IF pc[r] \in {"forward", "release", "finalize"} THEN pre[r]
    ELSE 0

DueOn(t) == [r \in Request |-> IF TokenOf[r] = t THEN Due(r) ELSE 0]

\* remain_quota covers what is still to be taken from it, but for the slack.
TokenBounded ==
    \A t \in Token :
        Total(DueOn(t), Request) <= remain[t] + Slack + Total(UnbackedOn(t), Request)

LEMMA DueType == ASSUME TypeOK PROVE \A r \in Request : Due(r) \in 0 .. MaxEstimate
BY AmountsAssumption DEF TypeOK, Due

LEMMA UnbackedType ==
  ASSUME TypeOK
  PROVE  \A r \in Request : Unbacked(r) \in Nat
<1> SUFFICES ASSUME NEW r \in Request PROVE Unbacked(r) \in Nat
  OBVIOUS
<1>1. Excess(r) \in Nat /\ charge[r] \in Nat
  BY ShareTypes DEF TypeOK
<1> QED
  BY <1>1 DEF Unbacked

LEMMA UnbackedTypePrime ==
  ASSUME TypeOK'
  PROVE  \A r \in Request : Unbacked(r)' \in Nat
<1> SUFFICES ASSUME NEW r \in Request PROVE Unbacked(r)' \in Nat
  OBVIOUS
<1>1. Excess(r)' \in Nat /\ charge'[r] \in Nat
  BY ShareTypesPrime DEF TypeOK
<1> QED
  BY <1>1 DEF Unbacked

LEMMA DueTypePrime == ASSUME TypeOK' PROVE \A r \in Request : Due(r)' \in 0 .. MaxEstimate
BY AmountsAssumption DEF TypeOK, Due

\* The totals of a key after a step of r, from those before it.
LEMMA KeyTotalsStep ==
  ASSUME TypeOK, TypeOK', NEW r \in Request, Alone(r), UNCHANGED overtaken, NEW t \in Token
  PROVE  /\ Total(DueOn(t), Request) \in Nat /\ Total(DueOn(t)', Request) \in Nat
         /\ Total(UnbackedOn(t), Request) \in Nat /\ Total(UnbackedOn(t)', Request) \in Nat
         /\ TokenOf[r] = t =>
              /\ Total(DueOn(t)', Request) = Total(DueOn(t), Request) - Due(r) + Due(r)'
              /\ Total(UnbackedOn(t)', Request) =
                   Total(UnbackedOn(t), Request) - Unbacked(r) + Unbacked(r)'
         /\ TokenOf[r] # t =>
              /\ Total(DueOn(t)', Request) = Total(DueOn(t), Request)
              /\ Total(UnbackedOn(t)', Request) = Total(UnbackedOn(t), Request)
<1> DEFINE x == [s \in Request |-> Due(s)]
           y == [s \in Request |-> Due(s)']
           v == [s \in Request |-> Unbacked(s)]
           w == [s \in Request |-> Unbacked(s)']
<1>1. /\ x \in [Request -> Nat] /\ y \in [Request -> Nat]
      /\ v \in [Request -> Nat] /\ w \in [Request -> Nat]
  BY UnbackedType, UnbackedTypePrime, DueType, DueTypePrime
<1>2. \A s \in Request \ {r} : y[s] = x[s] /\ w[s] = v[s]
  BY DEF Alone, Due, Unbacked, Excess, Charged
<1>3. /\ DueOn(t) = Family(TokenOf, t, x) /\ DueOn(t)' = Family(TokenOf, t, y)
      /\ UnbackedOn(t) = Family(TokenOf, t, v) /\ UnbackedOn(t)' = Family(TokenOf, t, w)
  BY DEF DueOn, UnbackedOn, Family
<1>4. /\ x[r] = Due(r) /\ y[r] = Due(r)'
      /\ v[r] = Unbacked(r) /\ w[r] = Unbacked(r)'
  OBVIOUS
<1> HIDE DEF x, y, v, w
<1>5. /\ Total(Family(TokenOf, t, x), Request) \in Nat
      /\ Total(Family(TokenOf, t, y), Request) \in Nat
      /\ TokenOf[r] = t => Total(Family(TokenOf, t, y), Request) =
                             Total(Family(TokenOf, t, x), Request) - x[r] + y[r]
      /\ TokenOf[r] # t =>
           Total(Family(TokenOf, t, y), Request) = Total(Family(TokenOf, t, x), Request)
  BY <1>1, <1>2, FamilyUpdate
<1>6. /\ Total(Family(TokenOf, t, v), Request) \in Nat
      /\ Total(Family(TokenOf, t, w), Request) \in Nat
      /\ TokenOf[r] = t => Total(Family(TokenOf, t, w), Request) =
                             Total(Family(TokenOf, t, v), Request) - v[r] + w[r]
      /\ TokenOf[r] # t =>
           Total(Family(TokenOf, t, w), Request) = Total(Family(TokenOf, t, v), Request)
  BY <1>1, <1>2, FamilyUpdate
<1> QED
  BY <1>3, <1>4, <1>5, <1>6

\* A step of r that takes from its key no more than was due, apart from a price
\* that exceeds the estimate.
Covered(r) ==
    /\ remain[TokenOf[r]] + Due(r)' + Unbacked(r) <= remain'[TokenOf[r]] + Due(r) + Unbacked(r)'
    /\ \A t \in Token \ {TokenOf[r]} : remain'[t] = remain[t]

LEMMA CoveredKeeps ==
  ASSUME TypeOK, TypeOK', TokenBounded, NEW r \in Request, Alone(r),
         UNCHANGED overtaken, Covered(r)
  PROVE  TokenBounded'
<1> SUFFICES ASSUME NEW t \in Token
             PROVE  Total(DueOn(t)', Request) <=
                      remain'[t] + Slack + Total(UnbackedOn(t)', Request)
  BY DEF TokenBounded, Slack
<1>1. Total(DueOn(t), Request) <= remain[t] + Slack + Total(UnbackedOn(t), Request)
  BY DEF TokenBounded
<1>2. /\ remain[t] \in Int /\ remain'[t] \in Int /\ Slack \in Nat
      /\ Due(r) \in Nat /\ Due(r)' \in Nat /\ Unbacked(r) \in Nat /\ Unbacked(r)' \in Nat
  BY UnbackedType, UnbackedTypePrime, DueType, DueTypePrime, SlackType, AmountsAssumption
     DEF TypeOK
<1>3. CASE TokenOf[r] = t
  <2>1. remain[t] + Due(r)' + Unbacked(r) <= remain'[t] + Due(r) + Unbacked(r)'
    BY <1>3 DEF Covered
  <2> QED
    BY <1>1, <1>2, <1>3, <2>1, KeyTotalsStep
<1>4. CASE TokenOf[r] # t
  <2>1. remain'[t] = remain[t]
    BY <1>4 DEF Covered
  <2> QED
    BY <1>1, <1>2, <1>4, <2>1, KeyTotalsStep
<1> QED
  BY <1>3, <1>4

\* A request that does not settle, and to which no more becomes due.
LEMMA IdleCovered ==
  ASSUME TypeOK, TypeOK', NEW r \in Request, UNCHANGED remain,
         Due(r)' <= Due(r), Unbacked(r)' = Unbacked(r)
  PROVE  Covered(r)
<1>1. /\ Due(r) \in Nat /\ Due(r)' \in Nat /\ Unbacked(r) \in Nat
      /\ remain[TokenOf[r]] \in Int
  BY UnbackedType, DueType, DueTypePrime, MapsAssumption, AmountsAssumption DEF TypeOK
<1> QED
  BY <1>1 DEF Covered

LEMMA PreChargeCovered ==
  ASSUME TypeOK, TypeOK', Shape, NEW r \in Request, UNCHANGED overtaken,
         \/ Admit(r) \/ PreChargeFree(r) \/ PreChargeReadUser(r) \/ PreChargeReserve(r)
         \/ PreChargeAckLost(r) \/ PreChargeError(r)
  PROVE  Covered(r)
<1>1. /\ est[r] \in Nat /\ pre[r] = 0
  BY AmountsAssumption DEF TypeOK, Shape, Admit, PreChargeFree, PreChargeReadUser,
     PreChargeReserve, PreChargeAckLost, PreChargeError, Reserve
<1>2. log[r] = "none" /\ log' = log /\ remain' = remain
  BY DEF Admit, PreChargeFree, PreChargeReadUser, PreChargeReserve, PreChargeAckLost,
     PreChargeError, Reserve, Shape, dbVars
<1>3. Unbacked(r) = 0 /\ Unbacked(r)' = 0
  BY <1>2 DEF Unbacked, Charged
<1>4. Due(r) \in Nat
  BY DueType, AmountsAssumption
<1>5. Due(r)' <= Due(r)
  <2>1. CASE Admit(r) \/ PreChargeFree(r) \/ PreChargeError(r)
    <3>1. UNCHANGED pre /\ pc'[r] # "reserve"
      BY <2>1 DEF Admit, PreChargeFree, PreChargeError, ctxVars, Goto, TypeOK
    <3>2. Due(r)' = 0
      BY <1>1, <3>1 DEF Due
    <3> QED
      BY <1>4, <3>2
  <2>2. CASE PreChargeReadUser(r)
    <3>1. /\ UNCHANGED metered
          /\ pc'[r] \in {"rejected", IF metered[r] THEN "readToken" ELSE "reserve"}
      BY <2>2 DEF PreChargeReadUser, Goto, TypeOK
    <3>2. Due(r)' = 0
      BY <3>1 DEF Due
    <3> QED
      BY <1>4, <3>2
  <2>3. CASE PreChargeReserve(r) \/ PreChargeAckLost(r)
    <3>1. /\ UNCHANGED metered /\ pc[r] = "reserve" /\ pc'[r] \in {"forward", "rejected"}
          /\ pre'[r] = est[r]
      BY <2>3 DEF PreChargeReserve, PreChargeAckLost, Reserve, Goto, TypeOK
    <3> QED
      BY <1>1, <3>1 DEF Due
  <2> QED
    BY <2>1, <2>2, <2>3
<1> QED
  BY <1>2, <1>3, <1>5, IdleCovered

LEMMA ForwardCovered ==
  ASSUME TypeOK, TypeOK', Shape, NEW r \in Request, UNCHANGED overtaken,
         \/ UpstreamBilled(r) \/ UpstreamFailed(r) \/ Crash(r)
         \/ FinalizeError(r) \/ Release(r) \/ ReleaseError(r)
  PROVE  Covered(r)
<1>1. UNCHANGED <<remain, log, pre, metered>>
  BY DEF UpstreamBilled, UpstreamFailed, Crash, FinalizeError, Release, ReleaseError, dbVars,
     ctxVars
<1>2. Unbacked(r)' = Unbacked(r)
  <2>1. CASE UpstreamBilled(r)
    BY <1>1, <2>1 DEF UpstreamBilled, Shape, Unbacked, Charged
  <2>2. CASE charge' = charge
    BY <1>1, <2>2 DEF Unbacked, Charged, Excess
  <2> QED
    BY <2>1, <2>2 DEF UpstreamFailed, Crash, FinalizeError, Release, ReleaseError, ctxVars
<1>3. /\ pc'[r] # "reserve"
      /\ pc'[r] \in {"forward", "release", "finalize"} => pc[r] \in {"forward", "release"}
  BY DEF UpstreamBilled, UpstreamFailed, Crash, FinalizeError, Release, ReleaseError,
     AfterSettleError, AfterRelease, Goto, TypeOK
<1>4. Due(r) \in Nat /\ pre[r] \in Nat
  BY DueType, AmountsAssumption DEF TypeOK
<1>5. Due(r)' <= Due(r)
  BY <1>1, <1>3, <1>4 DEF Due
<1> QED
  BY <1>1, <1>2, <1>5, IdleCovered

LEMMA SettleCovered ==
  ASSUME TypeOK, TypeOK', Shape, NEW r \in Request, UNCHANGED overtaken, Settle(r),
         pc'[r] \in {"done", "fallback"}
  PROVE  Covered(r)
<1>1. /\ log[r] = "none" /\ (~success[r] => charge[r] = 0)
      /\ pre[r] \in Nat /\ charge[r] \in Nat /\ UNCHANGED <<pre, charge>>
      /\ log'[r] = (IF success[r] THEN "success" ELSE "error")
      /\ UNCHANGED <<metered, overtaken>> /\ overtaken[r] \in {"no", "told"}
  BY AmountsAssumption DEF Settle, Shape, TypeOK
<1>2. /\ Due(r) = (IF metered[r] /\ overtaken[r] = "no" THEN pre[r] ELSE 0)
      /\ Due(r)' = 0
  BY <1>1 DEF Settle, Due
<1>3. Unbacked(r) = 0 /\ TokenCharge(r) \in Nat /\ TokenCharge(r) <= Due(r) + Unbacked(r)'
  <2>1. Unbacked(r) = 0 /\ TokenCharge(r) \in Nat /\ Unbacked(r)' \in Nat
    BY <1>1, UnbackedTypePrime DEF Unbacked, Charged, TokenCharge, RealCost
  <2>2. CASE ~success[r] \/ ~metered[r]
    <3>1. TokenCharge(r) = 0 /\ Due(r) \in Nat
      BY <1>1, <2>2, DueType, AmountsAssumption DEF TokenCharge, RealCost
    <3> QED
      BY <2>1, <3>1
  <2>3. CASE success[r] /\ metered[r]
    <3>1. Charged(r)' /\ TokenCharge(r) = charge[r]
      BY <1>1, <2>3 DEF Charged, TokenCharge, RealCost
    <3>2. CASE overtaken[r] = "told"
      <4>1. Unbacked(r)' = charge[r] /\ Due(r) = 0
        BY <1>1, <1>2, <3>1, <3>2 DEF Unbacked
      <4> QED
        BY <1>1, <2>1, <3>1, <4>1
    <3>3. CASE overtaken[r] = "no"
      <4>1. Unbacked(r)' = (IF charge[r] > pre[r] THEN charge[r] - pre[r] ELSE 0)
        BY <1>1, <2>3, <3>1, <3>3 DEF Unbacked, Excess
      <4>2. Due(r) = pre[r]
        BY <1>2, <2>3, <3>3
      <4> QED
        BY <1>1, <2>1, <3>1, <4>1, <4>2
    <3> QED
      BY <1>1, <3>2, <3>3
  <2> QED
    BY <2>2, <2>3
<1>4. /\ remain'[TokenOf[r]] = remain[TokenOf[r]] - TokenCharge(r)
      /\ remain[TokenOf[r]] \in Int
      /\ \A t \in Token \ {TokenOf[r]} : remain'[t] = remain[t]
  BY MapsAssumption DEF Settle, TypeOK
<1>5. Due(r) \in Nat /\ Unbacked(r)' \in Nat
  BY DueType, UnbackedTypePrime, AmountsAssumption
<1> QED
  BY <1>2, <1>3, <1>4, <1>5 DEF Covered

\* The read of the key: what is left covers the estimate, and what the others in
\* flight on the key will take is within the slack.
LEMMA KeyCheckKeeps ==
  ASSUME Settling, TypeOK', TokenBounded, NEW r \in Request, PreChargeReadToken(r),
         UNCHANGED overtaken
  PROVE  TokenBounded'
<1> USE DEF Settling
<1>1. Alone(r) /\ UNCHANGED <<remain, log, charge, pre, est, metered>>
  BY StepAlone DEF RequestStep, PreCharge, PreChargeReadToken, dbVars, ctxVars
<1>2. pc[r] = "readToken" /\ Due(r) = 0
  BY DEF PreChargeReadToken, Due
<1>3. Unbacked(r)' = Unbacked(r)
  BY <1>1 DEF Unbacked, Excess, Charged
<1>4. CASE Goto(r, "rejected")
  <2>1. pc'[r] = "rejected"
    BY <1>4 DEF Goto, TypeOK
  <2>2. Due(r)' = 0
    BY <2>1 DEF Due
  <2> QED
    BY <1>1, <1>2, <1>3, <2>2, IdleCovered, CoveredKeeps
<1>5. CASE ~(remain[TokenOf[r]] < est[r]) /\ Goto(r, "reserve")
  <2>1. pc'[r] = "reserve" /\ est[r] \in Nat
    BY <1>5, AmountsAssumption DEF Goto, TypeOK
  <2>2. Due(r)' <= est[r]
    BY <1>1, <2>1 DEF Due
  <2> SUFFICES ASSUME NEW t \in Token
               PROVE  Total(DueOn(t)', Request) <=
                        remain'[t] + Slack + Total(UnbackedOn(t)', Request)
    BY DEF TokenBounded, Slack
  <2>3. /\ remain[t] \in Int /\ Slack \in Nat /\ Due(r)' \in Nat /\ Unbacked(r) \in Nat
    BY SlackType, UnbackedType, DueTypePrime, AmountsAssumption DEF TypeOK
  <2>4. CASE TokenOf[r] = t
    <3>1. Total(DueOn(t), Request) <= Slack
      <4>1. r \in InFlight(OwnerOf[t]) /\ OwnerOf[t] \in User
        BY <1>2, <2>4, MapsAssumption DEF InFlight, Over, Payer
      <4>2. DueOn(t) \in [Request -> Nat] /\ \A s \in Request : DueOn(t)[s] <= MaxEstimate
        BY DueType, AmountsAssumption DEF DueOn
      <4>3. \A s \in Request : s \notin InFlight(OwnerOf[t]) \/ s = r => DueOn(t)[s] = 0
        BY <1>2 DEF DueOn, Due, InFlight, Over, Payer
      <4> QED
        BY <4>1, <4>2, <4>3, OthersWithinSlack
    <3>2. est[r] <= remain[t]
      BY <1>5, <2>1, <2>3, <2>4
    <3>3. /\ Total(DueOn(t)', Request) = Total(DueOn(t), Request) + Due(r)'
          /\ Total(DueOn(t), Request) \in Nat
          /\ Total(UnbackedOn(t)', Request) \in Nat
      BY <1>1, <1>2, <2>3, <2>4, KeyTotalsStep
    <3> QED
      BY <1>1, <2>1, <2>2, <2>3, <3>1, <3>2, <3>3
  <2>5. CASE TokenOf[r] # t
    <3>1. /\ Total(DueOn(t)', Request) = Total(DueOn(t), Request)
          /\ Total(UnbackedOn(t)', Request) = Total(UnbackedOn(t), Request)
      BY <1>1, <2>5, KeyTotalsStep
    <3> QED
      BY <1>1, <3>1 DEF TokenBounded
  <2> QED
    BY <2>4, <2>5
<1> QED
  BY <1>4, <1>5 DEF PreChargeReadToken

\* After the owner has written remain_quota, nobody on the key is promised anything,
\* and nothing that was paid before counts.
LEMMA WriteTokenBounded ==
  ASSUME TypeOK, TypeOK', TokenBounded, NEW k \in Token, NEW q \in Remains, WriteRemain(k, q),
         UNCHANGED <<log, pre, charge, pc, est, metered>>
  PROVE  TokenBounded'
<1> SUFFICES ASSUME NEW t \in Token
             PROVE  Total(DueOn(t)', Request) <=
                      remain'[t] + Slack + Total(UnbackedOn(t)', Request)
  BY DEF TokenBounded, Slack
<1>1. CASE t = k
  <2> DEFINE f == [r \in Request |-> IF TokenOf[r] = t THEN Due(r)' ELSE 0]
             g == [r \in Request |-> IF TokenOf[r] = t THEN Unbacked(r)' ELSE 0]
  <2>1. \A r \in Request : TokenOf[r] = t => Due(r)' = 0
    BY <1>1 DEF WriteRemain, Due, Charged, Compared
  <2>2. \A r \in Request : f[r] = 0
    BY <2>1
  <2>3. g \in [Request -> Nat]
    BY UnbackedTypePrime
  <2>4. DueOn(t)' = f /\ UnbackedOn(t)' = g
    BY DEF DueOn, UnbackedOn
  <2> HIDE DEF f, g
  <2>5. Total(f, Request) = 0
    BY <2>2, TotalZero
  <2>6. Total(g, Request) \in Nat
    BY <2>3, RequestsFinite, TotalType
  <2>7. remain'[t] \in Nat
    BY <1>1, AmountsAssumption DEF WriteRemain, TypeOK
  <2> QED
    BY <2>4, <2>5, <2>6, <2>7, SlackType
<1>2. CASE t # k
  <2>1. \A r \in Request : TokenOf[r] = t => overtaken'[r] = overtaken[r]
    BY <1>2 DEF WriteRemain
  <2>2. \A r \in Request : TokenOf[r] = t => Due(r)' = Due(r) /\ Unbacked(r)' = Unbacked(r)
    BY <2>1 DEF Due, Unbacked, Excess, Charged
  <2>3. DueOn(t)' = DueOn(t) /\ UnbackedOn(t)' = UnbackedOn(t)
    BY <2>2 DEF DueOn, UnbackedOn
  <2>4. remain'[t] = remain[t]
    BY <1>2 DEF WriteRemain, TypeOK
  <2> QED
    BY <2>3, <2>4 DEF TokenBounded
<1> QED
  BY <1>1, <1>2

LEMMA StepTokenBounded == Settling /\ TokenBounded /\ [Next]_vars => TokenBounded'
<1> SUFFICES ASSUME Settling, TokenBounded, [Next]_vars PROVE TokenBounded'
  OBVIOUS
<1>1. TypeOK /\ Shape /\ TypeOK'
  BY StepTypeOK DEF Settling
<1>2. ASSUME NEW r \in Request, RequestStep(r) PROVE TokenBounded'
  <2>1. Alone(r) /\ UNCHANGED overtaken
    BY <1>1, <1>2, StepAlone, StepNoEdit
  <2>2. CASE PreChargeReadToken(r)
    BY <1>1, <2>1, <2>2, KeyCheckKeeps
  <2>3. ASSUME Finalize(r) \/ FinalizeAckLost(r) PROVE Covered(r)
    <3>1. Settle(r) /\ pc'[r] \in {"done", "fallback"}
      BY <1>1, <2>3 DEF Finalize, FinalizeAckLost, AfterSettleError, Goto, TypeOK
    <3> QED
      BY <1>1, <2>1, <3>1, SettleCovered
  <2>4. PreChargeReadToken(r) \/ Covered(r)
    BY <1>1, <1>2, <2>1, <2>3, PreChargeCovered, ForwardCovered DEF RequestStep, PreCharge, Closing
  <2> QED
    BY <1>1, <2>1, <2>2, <2>4, CoveredKeeps
<1>3. CASE UNCHANGED <<remain, overtaken, log, pre, charge, pc, est, metered>>
  <2>1. \A t \in Token : DueOn(t)' = DueOn(t) /\ UnbackedOn(t)' = UnbackedOn(t)
    BY <1>3 DEF DueOn, Due, UnbackedOn, Unbacked, Excess, Charged
  <2> QED
    BY <1>3, <2>1 DEF TokenBounded, Slack
<1> QED
  BY <1>1, <1>2, <1>3, StepKinds, WriteTokenBounded

LEMMA InitTokenBounded == Init => TokenBounded
<1> SUFFICES ASSUME Init, NEW t \in Token
             PROVE  Total(DueOn(t), Request) <=
                      remain[t] + Slack + Total(UnbackedOn(t), Request)
  BY DEF TokenBounded
<1>1. Total(DueOn(t), Request) = 0 /\ Total(UnbackedOn(t), Request) = 0
  BY TotalZero DEF Init, DueOn, Due, UnbackedOn, Unbacked, Charged
<1>2. remain[t] \in Nat
  BY AmountsAssumption DEF Init
<1> QED
  BY <1>1, <1>2, SlackType

\* remain_quota, which no request reserves from, falls below zero by at most one
\* estimate for each other request that concurrency_limit admits, apart from prices
\* above their estimates and from requests that were compared with a balance which
\* the owner has replaced since.
THEOREM TokenOverdraftIsBounded == Spec => []TokenOverdraftBound
<1>1. Settling /\ TokenBounded => TokenOverdraftBound
  <2> SUFFICES ASSUME Settling, TokenBounded, NEW t \in Token
               PROVE  remain[t] + Slack + Total(UnbackedOn(t), Request) >= 0
    BY DEF TokenOverdraftBound, Slack
  <2>1. DueOn(t) \in [Request -> Nat] /\ UnbackedOn(t) \in [Request -> Nat]
    BY UnbackedType, DueType, AmountsAssumption DEF DueOn, UnbackedOn, Settling
  <2>2. Total(DueOn(t), Request) \in Nat /\ Total(UnbackedOn(t), Request) \in Nat
    BY <2>1, RequestsFinite, TotalType
  <2>3. remain[t] \in Int
    BY DEF Settling, TypeOK
  <2> QED
    BY <2>2, <2>3, SlackType DEF TokenBounded
<1> QED
  BY <1>1, AlwaysSettling, InitTokenBounded, StepTokenBounded, PTL DEF Spec

===============================================================================
