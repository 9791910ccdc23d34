----------------------------- MODULE LedgerProofs -----------------------------
(***************************************************************************)
(* Settlement implements Ledger when no acknowledgement of the database is *)
(* lost: every step of a request maps to one legal entry of its account,   *)
(* or to none.                                                             *)
(***************************************************************************)
EXTENDS SettlementProofs

\* A settlement that failed wrote no log row.  (One whose commit report was lost
\* did, and this is where the implementation breaks then.)
FailedIsUnlogged == \A r \in Request : pc[r] = "fallback" => log[r] = "none"

LEMMA StepFailedIsUnlogged ==
  ASSUME "ackLost" \notin Faults, TypeOK, Shape, FailedIsUnlogged, [Next]_vars
  PROVE  FailedIsUnlogged'
<1>1. ASSUME NEW r \in Request, RequestStep(r) PROVE FailedIsUnlogged'
  <2>1. Alone(r)
    BY <1>1, StepAlone
  <2>2. CASE FinalizeError(r)
    <3>1. log' = log /\ log[r] = "none"
      BY <2>2 DEF FinalizeError, Shape, dbVars
    <3> QED
      BY <2>1, <3>1 DEF FailedIsUnlogged, Alone
  <2>3. ASSUME ~FinalizeError(r) PROVE pc'[r] # "fallback"
    <3>1. CASE PreCharge(r)
      BY <3>1 DEF PreCharge, PreChargeFree, PreChargeReadUser, PreChargeReadToken,
         PreChargeReserve, PreChargeAckLost, PreChargeError, Goto, TypeOK
    <3>2. CASE Closing(r)
      BY <2>3, <3>2 DEF Closing, Release, ReleaseError, AfterRelease, Finalize, FinalizeAckLost,
         Goto, TypeOK
    <3>3. CASE Admit(r) \/ UpstreamBilled(r) \/ UpstreamFailed(r) \/ Crash(r)
      BY <3>3 DEF Admit, UpstreamBilled, UpstreamFailed, Crash, Goto, TypeOK
    <3> QED
      BY <1>1, <3>1, <3>2, <3>3 DEF RequestStep
  <2> QED
    BY <2>1, <2>2, <2>3 DEF FailedIsUnlogged, Alone
<1>2. CASE UNCHANGED <<pc, log>>
  BY <1>2 DEF FailedIsUnlogged
<1> QED
  BY <1>1, <1>2, StepKinds

-------------------------------------------------------------------------------
(* Entries and stutters of the account book                                 *)

LEMMA OthersStand ==
  ASSUME NEW r \in Request, Alone(r)
  PROVE  \A s \in Request \ {r} : Owed(s)' = Owed(s) /\ Phase(s)' = Phase(s)
BY DEF Alone, Owed, Phase

\* A step of r that moves used_quota by what it adds to r's account is an entry.
LEMMA Entry ==
  ASSUME TypeOK, TypeOK', NEW r \in Request, Alone(r), NEW p, Phase(r)' = p,
         used' = [used EXCEPT ![Payer[r]] = @ + (Owed(r)' - Owed(r))]
  PROVE  Book!Account(r, p)
<1> DEFINE ph == [s \in Request |-> Phase(s)]
           am == [s \in Request |-> Owed(s)]
<1>1. ph' = [ph EXCEPT ![r] = p]
  BY OthersStand
<1>2. am' \in [Request -> Nat]
  BY OwedTypePrime
<1>3. \A s \in Request \ {r} : am'[s] = am[s]
  BY OthersStand
<1>4. am'[r] = Owed(r)' /\ am[r] = Owed(r)
  OBVIOUS
<1> QED
  BY <1>1, <1>2, <1>3, <1>4 DEF Book!Account

LEMMA Stutter ==
  ASSUME NEW r \in Request, Alone(r), UNCHANGED used, Phase(r)' = Phase(r), Owed(r)' = Owed(r)
  PROVE  UNCHANGED Book!ledgerVars
<1>1. \A s \in Request : Phase(s)' = Phase(s) /\ Owed(s)' = Owed(s)
  BY OthersStand
<1> QED
  BY <1>1 DEF Book!ledgerVars

\* PreCharge: the reservation is a hold; without one the account is not opened.
LEMMA ReserveIsHold ==
  ASSUME TypeOK, TypeOK', Shape, NEW r \in Request, Alone(r), PreChargeReserve(r)
  PROVE  Book!Hold(r) \/ UNCHANGED Book!ledgerVars
<1>1. /\ pre[r] = 0 /\ log[r] = "none" /\ ~released[r] /\ fault[r] = "none"
      /\ UNCHANGED <<log, released, fault, charge>>
      /\ pre'[r] = est[r] /\ est[r] \in Nat
      /\ used' = [used EXCEPT ![Payer[r]] = @ + est[r]]
  BY AmountsAssumption DEF PreChargeReserve, Reserve, Shape, TypeOK
<1>2. Phase(r) = "none" /\ Owed(r) = 0 /\ Owed(r)' = est[r]
  BY <1>1 DEF Phase, Owed
<1>3. CASE est[r] = 0
  <2>1. Phase(r)' = "none"
    BY <1>1, <1>3 DEF Phase
  <2>2. used' = used
    BY <1>1, <1>3, PayerType DEF TypeOK
  <2> QED
    BY <1>2, <1>3, <2>1, <2>2, Stutter
<1>4. CASE est[r] # 0
  <2>1. Phase(r)' = "held"
    BY <1>1, <1>4 DEF Phase
  <2>2. used' = [used EXCEPT ![Payer[r]] = @ + (Owed(r)' - Owed(r))]
    <3>1. Owed(r)' - Owed(r) = est[r]
      BY <1>1, <1>2
    <3> QED
      BY <1>1, <3>1
  <2>3. Book!Account(r, "held")
    BY <2>1, <2>2, Entry
  <2> QED
    BY <1>2, <2>3 DEF Book!Hold
<1> QED
  BY <1>3, <1>4

\* Release: the open reservation is given back; a second call does nothing.
LEMMA ReleaseIsRefund ==
  ASSUME TypeOK, TypeOK', Shape, FailedIsUnlogged, NEW r \in Request, Alone(r), Release(r)
  PROVE  Book!Refund(r) \/ UNCHANGED Book!ledgerVars
<1>1. /\ log[r] = "none" /\ UNCHANGED <<log, pre, charge>> /\ released'[r]
      /\ pre[r] \in Nat
  BY AmountsAssumption DEF Release, Shape, FailedIsUnlogged, TypeOK
<1>2. CASE NothingToRelease(r)
  <2>1. UNCHANGED <<used, fault>>
    BY <1>2 DEF Release
  <2>2. Phase(r)' = Phase(r) /\ Owed(r)' = Owed(r)
    BY <1>1, <1>2, <2>1 DEF Phase, Owed, NothingToRelease
  <2> QED
    BY <2>1, <2>2, Stutter
<1>3. CASE ~NothingToRelease(r)
  <2>1. /\ ~released[r] /\ pre[r] # 0 /\ fault[r] = "none" /\ fault'[r] = "none"
        /\ used' = [used EXCEPT ![Payer[r]] = @ - pre[r]]
    BY <1>1, <1>3 DEF Release, NothingToRelease, Shape, TypeOK
  <2>2. /\ Phase(r) = "held" /\ Owed(r) = pre[r]
        /\ Phase(r)' = "refunded" /\ Owed(r)' = 0
    BY <1>1, <2>1 DEF Phase, Owed
  <2>3. used' = [used EXCEPT ![Payer[r]] = @ + (Owed(r)' - Owed(r))]
    <3>1. used[Payer[r]] \in Int
      BY PayerType DEF TypeOK
    <3>2. used[Payer[r]] - pre[r] = used[Payer[r]] + (Owed(r)' - Owed(r))
      BY <1>1, <2>2, <3>1
    <3> QED
      BY <2>1, <3>2
  <2>4. Book!Account(r, "refunded")
    BY <2>2, <2>3, Entry
  <2> QED
    BY <2>2, <2>4 DEF Book!Refund
<1> QED
  BY <1>2, <1>3

\* Finalize: a priced request is billed; the log row of a failed one, whose
\* reservation Release has given back, moves nothing.
LEMMA SettleIsBill ==
  ASSUME TypeOK, TypeOK', Shape, NEW r \in Request, Alone(r), Settle(r), UNCHANGED fault
  PROVE  Book!Bill(r) \/ UNCHANGED Book!ledgerVars
<1>1. /\ log[r] = "none" /\ (success[r] <=> ~released[r])
      /\ ~released[r] => fault[r] = "none"
      /\ pre[r] \in Nat /\ charge[r] \in Nat
      /\ UNCHANGED <<pre, charge, released, fault>>
      /\ log'[r] = (IF success[r] THEN "success" ELSE "error")
      /\ used' = [used EXCEPT ![Payer[r]] = @ + Delta(r)]
  BY AmountsAssumption DEF Settle, Shape, TypeOK
<1>2. CASE success[r]
  <2>1. /\ Phase(r) \in {"none", "held"} /\ Owed(r) = pre[r]
        /\ Phase(r)' = "billed" /\ Owed(r)' = charge[r]
    BY <1>1, <1>2 DEF Phase, Owed
  <2>2. Delta(r) = Owed(r)' - Owed(r)
    BY <1>1, <1>2, <2>1 DEF Delta, RealCost
  <2>3. used' = [used EXCEPT ![Payer[r]] = @ + (Owed(r)' - Owed(r))]
    BY <1>1, <2>2
  <2>4. Book!Account(r, "billed")
    BY <2>1, <2>3, Entry
  <2> QED
    BY <2>1, <2>4 DEF Book!Bill
<1>3. CASE ~success[r]
  <2>1. Phase(r)' = Phase(r) /\ Owed(r)' = Owed(r)
    BY <1>1, <1>3 DEF Phase, Owed
  <2>2. Delta(r) = 0
    BY <1>1, <1>3 DEF Delta, RealCost
  <2>3. used' = used
    BY <1>1, <2>2, PayerType DEF TypeOK
  <2> QED
    BY <2>1, <2>3, Stutter
<1> QED
  BY <1>2, <1>3

\* The other steps of a request move no money and change no account.
LEMMA OtherStepsStutter ==
  ASSUME TypeOK, Shape, NEW r \in Request, Alone(r),
         \/ Admit(r) \/ PreChargeFree(r) \/ PreChargeReadUser(r) \/ PreChargeReadToken(r)
         \/ PreChargeError(r) \/ UpstreamBilled(r) \/ UpstreamFailed(r) \/ ReleaseError(r)
         \/ FinalizeError(r) \/ Crash(r)
  PROVE  UNCHANGED Book!ledgerVars
<1>1. UNCHANGED <<used, log, pre>>
  BY DEF Admit, PreChargeFree, PreChargeReadUser, PreChargeReadToken, PreChargeError,
     UpstreamBilled, UpstreamFailed, ReleaseError, FinalizeError, Crash, dbVars, ctxVars
<1>2. CASE ReleaseError(r)
  <2>1. /\ UNCHANGED charge /\ ~released[r] /\ pre[r] # 0 /\ fault[r] = "none"
        /\ fault'[r] = (IF log[r] = "none" THEN "stuck" ELSE "none")
        /\ log[r] # "error"
    BY <1>2 DEF ReleaseError, NothingToRelease, Shape, TypeOK
  <2>2. Phase(r)' = Phase(r) /\ Owed(r)' = Owed(r)
    BY <1>1, <2>1 DEF Phase, Owed, TypeOK
  <2> QED
    BY <1>1, <2>2, Stutter
<1>3. CASE UpstreamBilled(r)
  <2>1. log[r] = "none" /\ UNCHANGED <<released, fault>>
    BY <1>3 DEF UpstreamBilled, Shape
  <2>2. Phase(r)' = Phase(r) /\ Owed(r)' = Owed(r)
    BY <1>1, <2>1 DEF Phase, Owed
  <2> QED
    BY <1>1, <2>2, Stutter
<1>4. CASE UNCHANGED <<charge, released, fault>>
  <2>1. Phase(r)' = Phase(r) /\ Owed(r)' = Owed(r)
    BY <1>1, <1>4 DEF Phase, Owed
  <2> QED
    BY <1>1, <2>1, Stutter
<1> QED
  BY <1>2, <1>3, <1>4 DEF Admit, PreChargeFree, PreChargeReadUser, PreChargeReadToken,
     PreChargeError, UpstreamFailed, FinalizeError, Crash, ctxVars

LEMMA StepIsEntry ==
  ASSUME "ackLost" \notin Faults, TypeOK, Shape, FailedIsUnlogged, [Next]_vars
  PROVE  [Book!LedgerNext]_(Book!ledgerVars)
<1>1. TypeOK'
  BY StepTypeOK
<1>2. ASSUME NEW r \in Request, RequestStep(r)
      PROVE  [Book!LedgerNext]_(Book!ledgerVars)
  <2>1. Alone(r)
    BY <1>2, StepAlone
  <2>2. ~PreChargeAckLost(r) /\ ~FinalizeAckLost(r)
    BY DEF PreChargeAckLost, FinalizeAckLost
  <2>3. \/ PreChargeReserve(r) \/ Release(r) \/ Finalize(r)
        \/ Admit(r) \/ PreChargeFree(r) \/ PreChargeReadUser(r) \/ PreChargeReadToken(r)
        \/ PreChargeError(r) \/ UpstreamBilled(r) \/ UpstreamFailed(r) \/ ReleaseError(r)
        \/ FinalizeError(r) \/ Crash(r)
    BY <1>2, <2>2 DEF RequestStep, PreCharge, Closing
  <2>4. Book!Hold(r) \/ Book!Bill(r) \/ Book!Refund(r) \/ UNCHANGED Book!ledgerVars
    <3>1. CASE PreChargeReserve(r)
      BY <1>1, <2>1, <3>1, ReserveIsHold
    <3>2. CASE Release(r)
      BY <1>1, <2>1, <3>2, ReleaseIsRefund
    <3>3. CASE Finalize(r)
      BY <1>1, <2>1, <3>3, SettleIsBill DEF Finalize
    <3> QED
      BY <2>1, <2>3, <3>1, <3>2, <3>3, OtherStepsStutter
  <2> QED
    BY <2>4 DEF Book!LedgerNext
<1>3. CASE UNCHANGED <<used, log, pre, released, charge, fault>>
  <2>1. \A s \in Request : Phase(s)' = Phase(s) /\ Owed(s)' = Owed(s)
    BY <1>3 DEF Phase, Owed
  <2> QED
    BY <1>3, <2>1 DEF Book!ledgerVars
<1> QED
  BY <1>2, <1>3, StepKinds

LEMMA InitIsEmptyBook == Init => Book!LedgerInit
<1> SUFFICES ASSUME Init PROVE Book!LedgerInit
  OBVIOUS
<1>1. \A s \in Request : Phase(s) = "none" /\ Owed(s) = 0
  BY DEF Init, Phase, Owed
<1> QED
  BY <1>1 DEF Init, Book!LedgerInit

\* When no acknowledgement of the database is lost, PreCharge, Release and
\* Finalize keep the account book: each reservation is opened once and closed at
\* most once, by the bill of its request or by its refund, and used_quota moves
\* by nothing else, whatever errors and crashes happen between the transactions.
THEOREM SettlementKeepsTheBook ==
  ASSUME "ackLost" \notin Faults
  PROVE  Spec => ImplementsLedger
<1> DEFINE Kept == TypeOK /\ Shape /\ FailedIsUnlogged
<1>1. Init => Kept
  BY InitTypeOK, InitShape DEF Init, FailedIsUnlogged
<1>2. Kept /\ [Next]_vars => Kept'
  BY StepTypeOK, StepShape, StepFailedIsUnlogged
<1>3. Kept /\ [Next]_vars => [Book!LedgerNext]_(Book!ledgerVars)
  BY StepIsEntry
<1>4. Init => Book!LedgerInit
  BY InitIsEmptyBook
<1> HIDE DEF Kept
<1> QED
  BY <1>1, <1>2, <1>3, <1>4, PTL DEF Spec, ImplementsLedger, Book!LedgerSpec
===============================================================================
