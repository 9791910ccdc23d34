------------------------------ MODULE Settlement ------------------------------
(***************************************************************************)
(* How a relay request is paid for: server/internal/relay/settle.go,       *)
(* driven by relay.go (proxy) and forward.go (Forward), with the referral  *)
(* reward of server/internal/referral/referral.go.                         *)
(*                                                                         *)
(* Every request runs in a goroutine of its own, possibly on its own       *)
(* replica, and meets the others only in PostgreSQL.  One action is one    *)
(* statement or one transaction whose effects become visible at commit;    *)
(* isolation is READ COMMITTED, so what a transaction read in an earlier   *)
(* statement may be out of date when it writes.                            *)
(*                                                                         *)
(* Amounts are natural numbers of the unit that NUMERIC(18,6) columns      *)
(* store; the fractions that column rounds away are outside this module.   *)
(*                                                                         *)
(* A definition called Wrong... is what a slip in the definition after it  *)
(* would look like.  No specification uses it: put in the place of that    *)
(* definition, it shows that the properties can fail.                      *)
(***************************************************************************)
EXTENDS Totals

CONSTANTS
    Request,            \* relay requests
    User,
    Token,              \* API keys
    TokenOf,            \* TokenOf[r]: the key that r presents
    OwnerOf,            \* OwnerOf[t]: the user the key belongs to
    InviterOf,          \* InviterOf[u]: users.invited_by, or NoUser
    NoUser,
    InitQuota,          \* users.quota at the start
    InitRemain,         \* tokens.remain_quota at the start
    Remains,            \* what an owner may write into it: token.update refuses less than 0
    Estimates,          \* what estimateTokens may price a request at
    MaxEstimate,
    Costs,              \* what the real usage may cost
    Percents,           \* values of the setting invite.rewardPercent
    ConcurrencyLimit,   \* users.concurrency_limit, see Admit
    Faults              \* which of FaultKinds may happen

FaultKinds == {"dbError",   \* a statement or transaction fails and has no effect
               "ackLost",   \* it takes effect, and the caller is told it failed
               "crash"}     \* the goroutine dies (panic, or its process is killed)

Payer == [r \in Request |-> OwnerOf[TokenOf[r]]]

ASSUME RequestsFinite == IsFiniteSet(Request)
ASSUME MapsAssumption ==
    /\ TokenOf \in [Request -> Token]
    /\ OwnerOf \in [Token -> User]
    /\ NoUser \notin User
    /\ InviterOf \in [User -> User \cup {NoUser}]
ASSUME AmountsAssumption ==
    /\ InitQuota \in [User -> Nat]
    /\ InitRemain \in [Token -> Nat]
    /\ Remains \subseteq Nat
    /\ MaxEstimate \in Nat
    /\ Estimates \subseteq 0 .. MaxEstimate
    /\ Costs \subseteq Nat
    /\ Percents \subseteq Nat
    /\ Percents # {}
ASSUME LimitAssumption == ConcurrencyLimit \in Nat \ {0}
ASSUME FaultsAssumption == Faults \subseteq FaultKinds

VARIABLES
    used,       \* users.used_quota
    quota,      \* users.quota
    remain,     \* tokens.remain_quota
    unlimited,  \* tokens.unlimited_quota
    percent,    \* the setting invite.rewardPercent
    log,        \* log[r]: status of r's logs row, "none" while there is none
    reward,     \* reward[r]: referrals.reward_quota written for r's row, or 0
    pc,         \* where the goroutine of r is
    metered,    \* ~UnlimitedQuota in the token snapshot TokenAuth put in the context
    est,        \* preCost, as PreCharge computed it
    pre,        \* SettleCtx.PreCharged
    released,   \* SettleCtx.released
    success,    \* the success argument of Finalize
    charge,     \* the price of the real usage
    written,    \* history: what the owner last wrote into remain_quota
    overtaken,  \* history: the request had been "logged", or "told" that the key covers
                \* it, when the owner wrote remain_quota anew
    fault       \* history: "stuck": a reservation whose refund or commit report was lost;
                \* "twice": the reservation of a billed request was also refunded

dbVars == <<used, quota, remain, unlimited, percent, written, overtaken, log, reward>>
ctxVars == <<metered, est, pre, released, success, charge>>
vars == <<used, quota, remain, unlimited, percent, written, overtaken, log, reward,
          pc, metered, est, pre, released, success, charge, fault>>

PC == {"idle", "authed", "readToken", "reserve", "forward", "release",
       "finalize", "fallback", "done", "rejected", "crashed"}

Over == {"idle", "done", "rejected", "crashed"}     \* no goroutine is running

Init ==
    /\ used = [u \in User |-> 0]
    /\ quota = InitQuota
    /\ remain = InitRemain
    /\ written = InitRemain
    /\ overtaken = [r \in Request |-> "no"]
    /\ unlimited \in [Token -> BOOLEAN]
    /\ percent \in Percents
    /\ log = [r \in Request |-> "none"]
    /\ reward = [r \in Request |-> 0]
    /\ pc = [r \in Request |-> "idle"]
    /\ metered = [r \in Request |-> FALSE]
    /\ est = [r \in Request |-> 0]
    /\ pre = [r \in Request |-> 0]
    /\ released = [r \in Request |-> FALSE]
    /\ success = [r \in Request |-> FALSE]
    /\ charge = [r \in Request |-> 0]
    /\ fault = [r \in Request |-> "none"]

-------------------------------------------------------------------------------
(* Admission: TokenAuth, ResolveRoute and the limits                        *)

InFlight(u) == {r \in Request : Payer[r] = u /\ pc[r] \notin Over}

Goto(r, where) == pc' = [pc EXCEPT ![r] = where]

WrongAdmit(r) ==        \* no concurrency limit
    /\ pc[r] = "idle"
    /\ metered' = [metered EXCEPT ![r] = ~unlimited[TokenOf[r]]]
    /\ Goto(r, "authed")
    /\ UNCHANGED <<dbVars, est, pre, released, success, charge, fault>>

\* TokenAuth takes the snapshot of the key that all later steps use, and
\* reserveUserLimits admits at most concurrency_limit requests of the user at a
\* time (no limit: a value of at least Cardinality(Request)).
Admit(r) ==
    /\ pc[r] = "idle"
    /\ Cardinality(InFlight(Payer[r])) < ConcurrencyLimit
    /\ metered' = [metered EXCEPT ![r] = ~unlimited[TokenOf[r]]]
    /\ Goto(r, "authed")
    /\ UNCHANGED <<dbVars, est, pre, released, success, charge, fault>>

-------------------------------------------------------------------------------
(* PreCharge                                                                *)

\* The estimate is not positive: no quota is read and none is reserved.
PreChargeFree(r) ==
    /\ pc[r] = "authed"
    /\ 0 \in Estimates
    /\ Goto(r, "forward")
    /\ UNCHANGED <<dbVars, ctxVars, fault>>

\* SELECT of the user: a plain read that locks nothing.
PreChargeReadUser(r) ==
    /\ pc[r] = "authed"
    /\ \E e \in Estimates \ {0} :
         IF quota[Payer[r]] - used[Payer[r]] < e
         THEN Goto(r, "rejected") /\ UNCHANGED est
         ELSE /\ est' = [est EXCEPT ![r] = e]
              /\ Goto(r, IF metered[r] THEN "readToken" ELSE "reserve")
    /\ UNCHANGED <<dbVars, metered, pre, released, success, charge, fault>>

WrongPreChargeReadToken(r) ==   \* only an exhausted key is refused
    /\ pc[r] = "readToken"
    /\ Goto(r, IF remain[TokenOf[r]] <= 0 THEN "rejected" ELSE "reserve")
    /\ UNCHANGED <<dbVars, ctxVars, fault>>

\* SELECT of the token, when the snapshot says the key is limited.  What it
\* allows is not reserved in remain_quota.
PreChargeReadToken(r) ==
    /\ pc[r] = "readToken"
    /\ Goto(r, IF remain[TokenOf[r]] < est[r] THEN "rejected" ELSE "reserve")
    /\ UNCHANGED <<dbVars, ctxVars, fault>>

\* UPDATE used_quota = used_quota + preCost, and COMMIT.
Reserve(r) ==
    /\ pc[r] = "reserve"
    /\ used' = [used EXCEPT ![Payer[r]] = @ + est[r]]
    /\ pre' = [pre EXCEPT ![r] = est[r]]
    /\ UNCHANGED <<quota, remain, unlimited, percent, written, overtaken, log, reward,
                   metered, est, released, success, charge>>

PreChargeReserve(r) == Reserve(r) /\ Goto(r, "forward") /\ UNCHANGED fault

\* The COMMIT took effect and its acknowledgement was lost: PreCharge returns
\* the error, there is no SettleCtx, and nobody will give the amount back.
PreChargeAckLost(r) ==
    /\ "ackLost" \in Faults
    /\ Reserve(r)
    /\ Goto(r, "rejected")
    /\ fault' = [fault EXCEPT ![r] = "stuck"]

\* A statement of the transaction fails: it is rolled back.
PreChargeError(r) ==
    /\ "dbError" \in Faults
    /\ pc[r] \in {"authed", "readToken", "reserve"}
    /\ Goto(r, "rejected")
    /\ UNCHANGED <<dbVars, ctxVars, fault>>

-------------------------------------------------------------------------------
(* Forward: what the upstream's answer means for the bill                   *)

\* Usage was parsed, or is estimated for an image model: the request will be
\* priced.
UpstreamBilled(r) ==
    /\ pc[r] = "forward"
    /\ success' = [success EXCEPT ![r] = TRUE]
    /\ \E c \in Costs : charge' = [charge EXCEPT ![r] = c]
    /\ Goto(r, "finalize")
    /\ UNCHANGED <<dbVars, metered, est, pre, released, fault>>

\* No account is left to try, the client went away, the body broke off, or it
\* carries no usage: every such path calls Release and then Finalize.
UpstreamFailed(r) ==
    /\ pc[r] = "forward"
    /\ Goto(r, "release")
    /\ UNCHANGED <<dbVars, ctxVars, fault>>

-------------------------------------------------------------------------------
(* Release                                                                  *)

\* Whoever calls Release continues: Forward with Finalize, Finalize's fallback
\* with the end of the request.
AfterRelease(r) == Goto(r, IF pc[r] = "release" THEN "finalize" ELSE "done")

WrongNothingToRelease(r) == pre[r] = 0      \* a second Release refunds again

NothingToRelease(r) == released[r] \/ pre[r] = 0

\* UPDATE used_quota = used_quota - PreCharged, once.
Release(r) ==
    /\ pc[r] \in {"release", "fallback"}
    /\ released' = [released EXCEPT ![r] = TRUE]
    /\ IF NothingToRelease(r)
       THEN UNCHANGED <<used, fault>>
       ELSE /\ used' = [used EXCEPT ![Payer[r]] = @ - pre[r]]
            /\ fault' = [fault EXCEPT ![r] = IF log[r] = "none" THEN @ ELSE "twice"]
    /\ AfterRelease(r)
    /\ UNCHANGED <<quota, remain, unlimited, percent, written, overtaken, log, reward,
                   metered, est, pre, success, charge>>

\* The UPDATE fails: the error is logged, and released is set all the same.
ReleaseError(r) ==
    /\ "dbError" \in Faults
    /\ pc[r] \in {"release", "fallback"}
    /\ ~NothingToRelease(r)
    /\ released' = [released EXCEPT ![r] = TRUE]
    /\ fault' = [fault EXCEPT ![r] = IF log[r] = "none" THEN "stuck" ELSE @]
    /\ AfterRelease(r)
    /\ UNCHANGED <<dbVars, metered, est, pre, success, charge>>

-------------------------------------------------------------------------------
(* Finalize                                                                 *)

RealCost(r) == IF success[r] THEN charge[r] ELSE 0

WrongDelta(r) == RealCost(r) - pre[r]       \* forgets that Release was called

Delta(r) == RealCost(r) - (IF released[r] THEN 0 ELSE pre[r])

WrongTokenCharge(r) ==      \* asks the key again
    IF unlimited[TokenOf[r]] THEN 0 ELSE RealCost(r)

\* What tokens.remain_quota pays: decided by the snapshot of the key.
TokenCharge(r) == IF metered[r] THEN RealCost(r) ELSE 0

WrongRewardFor(r) ==        \* a share of what is added now
    IF InviterOf[Payer[r]] = NoUser THEN 0
    ELSE (Delta(r) * percent + 50) \div 100

\* referral.Apply: percent of the price, rounded half up by the column.
RewardFor(r) ==
    IF InviterOf[Payer[r]] = NoUser THEN 0
    ELSE (RealCost(r) * percent + 50) \div 100

\* The settlement transaction: used_quota, remain_quota, the log row, and the
\* inviter's reward, all or nothing.
Settle(r) ==
    /\ pc[r] = "finalize"
    /\ used' = [used EXCEPT ![Payer[r]] = @ + Delta(r)]
    /\ remain' = [remain EXCEPT ![TokenOf[r]] = @ - TokenCharge(r)]
    /\ log' = [log EXCEPT ![r] = IF success[r] THEN "success" ELSE "error"]
    /\ reward' = [reward EXCEPT ![r] = RewardFor(r)]
    /\ quota' = [u \in User |->
                   quota[u] + (IF InviterOf[Payer[r]] = u THEN RewardFor(r) ELSE 0)]
    /\ UNCHANGED <<unlimited, percent, written, overtaken,
                   metered, est, pre, released, success, charge>>

Finalize(r) == Settle(r) /\ Goto(r, "done") /\ UNCHANGED fault

WrongAfterSettleError(r) == Goto(r, "done")     \* no fallback

\* After an error a positive precharge is released.
AfterSettleError(r) == Goto(r, IF pre[r] > 0 THEN "fallback" ELSE "done")

WrongFinalizeError(r) ==    \* the reward is paid outside the transaction
    /\ "dbError" \in Faults
    /\ pc[r] = "finalize"
    /\ quota' = [u \in User |->
                   quota[u] + (IF InviterOf[Payer[r]] = u THEN RewardFor(r) ELSE 0)]
    /\ AfterSettleError(r)
    /\ UNCHANGED <<used, remain, unlimited, percent, written, overtaken, log, reward,
                   ctxVars, fault>>

FinalizeError(r) ==
    /\ "dbError" \in Faults
    /\ pc[r] = "finalize"
    /\ AfterSettleError(r)
    /\ UNCHANGED <<dbVars, ctxVars, fault>>

FinalizeAckLost(r) ==
    /\ "ackLost" \in Faults
    /\ Settle(r)
    /\ AfterSettleError(r)
    /\ UNCHANGED fault

-------------------------------------------------------------------------------
(* The environment                                                          *)

Crash(r) ==
    /\ "crash" \in Faults
    /\ pc[r] \notin Over
    /\ Goto(r, "crashed")
    /\ UNCHANGED <<dbVars, ctxVars, fault>>

\* The price is in the log, and the key has paid it.
Charged(r) == metered[r] /\ log[r] = "success"

\* The key was compared with the estimate, and has not paid yet.
Compared(r) == metered[r] /\ pc[r] \in {"reserve", "forward", "release", "finalize"}

\* remain_quota is set to a figure of the owner's choice, not lowered or raised
\* by one: what requests were told or have paid concerns a balance that is gone.
WriteRemain(t, q) ==
    /\ remain' = [remain EXCEPT ![t] = q]
    /\ written' = [written EXCEPT ![t] = q]
    /\ overtaken' = [r \in Request |->
                        IF TokenOf[r] # t THEN overtaken[r]
                        ELSE IF Charged(r) THEN "logged"
                        ELSE IF Compared(r) THEN "told"
                        ELSE overtaken[r]]

\* The owner edits the key (token.update): one UPDATE of the columns named in
\* the request, with or without unlimitedQuota and remainQuota.
EditToken(t) ==
    /\ \E b \in BOOLEAN : unlimited' = [unlimited EXCEPT ![t] = b]
    /\ \/ \E q \in Remains : WriteRemain(t, q)
       \/ UNCHANGED <<remain, written, overtaken>>
    /\ UNCHANGED <<used, quota, percent, log, reward, pc, ctxVars, fault>>

\* An administrator saves invite.rewardPercent.
SetRewardPercent ==
    /\ percent' \in Percents \ {percent}
    /\ UNCHANGED <<used, quota, remain, unlimited, written, overtaken, log, reward,
                   pc, ctxVars, fault>>

-------------------------------------------------------------------------------
PreCharge(r) ==
    \/ PreChargeFree(r) \/ PreChargeReadUser(r) \/ PreChargeReadToken(r)
    \/ PreChargeReserve(r) \/ PreChargeAckLost(r) \/ PreChargeError(r)

Closing(r) ==
    \/ Release(r) \/ ReleaseError(r)
    \/ Finalize(r) \/ FinalizeError(r) \/ FinalizeAckLost(r)

Next ==
    \/ \E r \in Request :
         \/ Admit(r) \/ PreCharge(r)
         \/ UpstreamBilled(r) \/ UpstreamFailed(r)
         \/ Closing(r) \/ Crash(r)
    \/ \E t \in Token : EditToken(t)
    \/ SetRewardPercent

Spec == Init /\ [][Next]_vars

\* The server's own steps are taken once they can be.  Nothing is assumed of
\* clients (Admit), of upstreams (forward.go gives their bodies no timeout), of
\* owners and administrators.
FairSpec == Spec /\ \A r \in Request : WF_vars(PreCharge(r) \/ Closing(r))

-------------------------------------------------------------------------------
(* Properties                                                               *)

TypeOK ==
    /\ used \in [User -> Int]
    /\ quota \in [User -> Nat]
    /\ remain \in [Token -> Int]
    /\ unlimited \in [Token -> BOOLEAN]
    /\ percent \in Percents
    /\ log \in [Request -> {"none", "success", "error"}]
    /\ reward \in [Request -> Nat]
    /\ pc \in [Request -> PC]
    /\ metered \in [Request -> BOOLEAN]
    /\ est \in [Request -> 0 .. MaxEstimate]
    /\ pre \in [Request -> 0 .. MaxEstimate]
    /\ released \in [Request -> BOOLEAN]
    /\ success \in [Request -> BOOLEAN]
    /\ charge \in [Request -> Nat]
    /\ fault \in [Request -> {"none", "stuck", "twice"}]
    /\ written \in [Token -> Nat]
    /\ overtaken \in [Request -> {"no", "told", "logged"}]

\* How the SettleCtx, the log row and the faults of a request go together at
\* each point of its life; the balances below are inductive beside it.
Shape ==
    \A r \in Request :
        /\ pc[r] \in {"idle", "authed", "readToken", "reserve"} => pre[r] = 0
        /\ pc[r] \in {"idle", "authed", "readToken", "reserve", "forward", "release", "rejected"}
             => log[r] = "none" /\ ~released[r] /\ ~success[r]
        /\ pc[r] \in {"idle", "authed", "readToken", "reserve", "forward", "release"}
             => fault[r] = "none"
        /\ pc[r] = "finalize" => log[r] = "none" /\ (success[r] <=> ~released[r])
        /\ ~released[r] => fault[r] = "none" \/ pc[r] = "rejected"
        /\ ~success[r] => charge[r] = 0
        /\ log[r] = "success" => success[r] /\ fault[r] # "stuck"
        /\ log[r] = "error" => ~success[r] /\ released[r]
        /\ fault[r] = "twice" => log[r] = "success"
        /\ overtaken[r] = "logged" => log[r] = "success"

\* Where the account of a request stands, read off its log row and its SettleCtx.
Phase(r) ==
    IF log[r] = "success" THEN "billed"
    ELSE IF pre[r] = 0 THEN "none"
    ELSE IF released[r] /\ fault[r] # "stuck" THEN "refunded"
    ELSE "held"

\* What a request accounts for: its price once it is logged, its reservation
\* while it holds one.
Owed(r) ==
    IF Phase(r) = "billed" THEN charge[r]
    ELSE IF Phase(r) = "held" THEN pre[r]
    ELSE 0

OwedBy(u) == [r \in Request |-> IF Payer[r] = u THEN Owed(r) ELSE 0]

OverRefund(r) == IF fault[r] = "twice" THEN pre[r] ELSE 0

OverRefundOf(u) == [r \in Request |-> IF Payer[r] = u THEN OverRefund(r) ELSE 0]

\* used_quota is the sum of the prices in the user's log rows and of the
\* reservations still open, less what a lost acknowledgement had refunded
\* twice.  It survives every interleaving, error and crash of the transactions
\* that PreCharge, Release and Finalize issue.
Conservation ==
    \A u \in User :
        used[u] + Total(OverRefundOf(u), Request) = Total(OwedBy(u), Request)

RewardTo(u) ==
    [r \in Request |-> IF InviterOf[Payer[r]] = u THEN reward[r] ELSE 0]

\* users.quota grows by the referral rows that name the user as inviter, and
\* such a row exists only beside a successful log row of an invitee.
RewardsBalance ==
    /\ \A u \in User : quota[u] = InitQuota[u] + Total(RewardTo(u), Request)
    /\ \A r \in Request :
         reward[r] > 0 => log[r] = "success" /\ InviterOf[Payer[r]] # NoUser

PaidOn(t) ==
    [r \in Request |->
        IF TokenOf[r] = t /\ Charged(r) /\ overtaken[r] # "logged" THEN charge[r] ELSE 0]

\* remain_quota is what the owner last wrote into it, less the prices logged
\* since then for requests that TokenAuth saw with a limited key, whatever
\* unlimited_quota has become meanwhile: the settlement's relative UPDATE loses
\* no edit and no other price.
TokenBalance ==
    \A t \in Token : remain[t] = written[t] - Total(PaidOn(t), Request)

\* By how much the price of a request exceeds what was reserved for it.
Excess(r) ==
    IF log[r] = "success" /\ charge[r] > pre[r] THEN charge[r] - pre[r] ELSE 0

ExcessOf(u) == [r \in Request |-> IF Payer[r] = u THEN Excess(r) ELSE 0]

\* PreCharge reads the balance in one statement and reserves in a later one.
\* Between the two, only the other requests that concurrency_limit admits can
\* slip in: the account is overdrawn by at most one estimate for each of them,
\* apart from prices that exceed their own estimate.
OverdraftBound ==
    \A u \in User :
        used[u] <= quota[u] + (ConcurrencyLimit - 1) * MaxEstimate
                            + Total(ExcessOf(u), Request)

\* What the key pays for r without having been found to cover it: the excess of
\* the price over the estimate, and the whole price when the balance that r was
\* compared with has been overwritten since.
Unbacked(r) ==
    IF ~Charged(r) \/ overtaken[r] = "logged" THEN 0
    ELSE IF overtaken[r] = "told" THEN charge[r]
    ELSE Excess(r)

UnbackedOn(t) == [r \in Request |-> IF TokenOf[r] = t THEN Unbacked(r) ELSE 0]

\* The same for remain_quota, which PreCharge only compares and Finalize
\* lowers: it falls below zero by at most one estimate for each other request,
\* apart from prices that exceed their own estimate and from requests that were
\* under way when the owner replaced the balance they had been compared with.
TokenOverdraftBound ==
    \A t \in Token :
        remain[t] + (ConcurrencyLimit - 1) * MaxEstimate
                  + Total(UnbackedOn(t), Request) >= 0

\* "PreCharge: in a transaction, the estimated quota is taken from
\* user.used_quota first, so that concurrent requests do not overdraw"
\* (settle.go:28-29): with prices within their estimates, the quota is never
\* exceeded.
NoOverdraft == \A u \in User : used[u] <= quota[u] + Total(ExcessOf(u), Request)

\* The account book that this module implements when no acknowledgement is lost.
Book == INSTANCE Ledger WITH
            phase <- [r \in Request |-> Phase(r)],
            amount <- [r \in Request |-> Owed(r)]

\* Every step of every request is one legal entry of its account, or none.
ImplementsLedger == Book!LedgerSpec

\* Once the upstream has answered, the goroutine comes to its end, unless it
\* dies, and no reservation is left open then but one whose refund failed.
AnswerIsSettled ==
    \A r \in Request :
        pc[r] \in {"release", "finalize"} ~>
            \/ pc[r] = "crashed"
            \/ pc[r] = "done" /\ (Phase(r) = "held" => fault[r] = "stuck")
===============================================================================
