------------------------------ MODULE AccountPool ------------------------------
(***************************************************************************)
(* How a relay request gets an account of its upstream's pool, gives it    *)
(* back, and goes on to another one after a failure:                       *)
(* server/internal/relay/model_route.go (selection, limits, leases,        *)
(* cooldown) and forward.go (the retry loop), with updateAccountHealth of  *)
(* settle.go and the administrator's operations on accounts.               *)
(*                                                                         *)
(* Requests run concurrently, on any number of replicas.  They share       *)
(* Redis counters, where one action is one command, and account rows in    *)
(* PostgreSQL, where one action is one statement.  The reads by which a    *)
(* candidate is found are one action: what matters is that the candidate   *)
(* may no longer be within its limits when it is reserved.                 *)
(*                                                                         *)
(* A definition called Wrong... is a slip in the definition after it, for  *)
(* showing that the properties can fail; no specification uses it.         *)
(***************************************************************************)
EXTENDS Integers, FiniteSets

CONSTANTS
    Request,            \* relay requests for a model of one upstream
    Account,            \* the accounts of that upstream's pool
    Session,            \* session ids that clients send
    SessionOf,          \* SessionOf[r]: the session of r, or None
    None,
    Priority,           \* upstream_accounts.priority
    ConcurrencyLimit,   \* upstream_accounts.concurrency_limit, 0 for no limit
    RPMLimit,           \* upstream_accounts.rpm_limit, 0 for no limit
    LastMinute,         \* bound: the minutes 0 .. LastMinute are explored
    Faults              \* which of FaultKinds may happen

FaultKinds == {"redisError",    \* a Redis command fails, or its answer is lost
               "kill",          \* a replica is killed: deferred calls do not run
               "admin"}         \* administrators write the status of accounts

ASSUME RequestsFinite == IsFiniteSet(Request)
ASSUME PoolAssumption ==
    /\ None \notin Account \cup Session
    /\ SessionOf \in [Request -> Session \cup {None}]
    /\ Priority \in [Account -> Int]
    /\ ConcurrencyLimit \in [Account -> Nat]
    /\ RPMLimit \in [Account -> Nat]
    /\ LastMinute \in Nat
    /\ Faults \subseteq FaultKinds

VARIABLES
    status,     \* upstream_accounts.status ("offline" stands for "cooling" too)
    cooling,    \* cooling[a]: the key relay:upstream-account:a:cooldown exists
    conc,       \* ...:a:concurrency, 0 while there is no such key
    rpm,        \* rpm[a][m]: ...:a:rpm:m
    sticky,     \* sticky[s]: relay:sticky:...:s, or None
    minute,     \* the minute that the clocks show
    pc,         \* where the goroutine of r is
    trial,      \* the account that r tries to reserve, and how it was found
    route,      \* RouteResult of r, with Forward's set of excluded accounts and
                \* the verdict for updateAccountHealth
    granted,    \* history: granted[a][m]: how many requests a took in minute m
    sent,       \* history: sent[r][a]: how often r, while it runs, was sent to a
    leaked      \* history: leaked[a]: slots taken by requests that are gone

redis == <<cooling, conc, rpm, granted, sticky, leaked>>
vars == <<status, redis, minute, pc, trial, route, sent>>

\* "sticky", "online", "degraded": the search of that name is about to begin.
\* "rpm", "conc": about to increment; "undoRpm", "undoConc": about to take the
\* increment back; "cool", "switch": in retryWithNextAccount.
PC == {"idle", "sticky", "online", "degraded", "rpm", "undoRpm", "conc", "undoConc",
       "resolved", "forward", "body", "cool", "switch", "health", "release", "over"}

Statuses == {"online", "degraded", "offline"}

Searches == {"sticky", "online", "degraded"}

\* from: the search that found acct; seen: its status as that search read it;
\* stamp: the minute in the name of the rpm key that was incremented.
NoTrial == [acct |-> None, from |-> "sticky", seen |-> "online", stamp |-> 0]

\* acct: UpstreamAccount; snap: UpstreamAccount.Status; lease: the account that
\* AccountLeaseKey belongs to.
NoRoute == [acct |-> None, snap |-> "online", lease |-> None, excluded |-> {},
            verdict |-> "neutral"]

Unsent == [a \in Account |-> 0]

Init ==
    /\ status = [a \in Account |-> "online"]
    /\ cooling = [a \in Account |-> FALSE]
    /\ conc = [a \in Account |-> 0]
    /\ rpm = [a \in Account |-> [m \in 0 .. LastMinute |-> 0]]
    /\ granted = [a \in Account |-> [m \in 0 .. LastMinute |-> 0]]
    /\ sticky = [s \in Session |-> None]
    /\ minute = 0
    /\ pc = [r \in Request |-> "idle"]
    /\ trial = [r \in Request |-> NoTrial]
    /\ route = [r \in Request |-> NoRoute]
    /\ sent = [r \in Request |-> Unsent]
    /\ leaked = [a \in Account |-> 0]

Goto(r, where) == pc' = [pc EXCEPT ![r] = where]

\* The handler of r is over, and its local variables with it.
End(r) ==
    /\ Goto(r, "over")
    /\ trial' = [trial EXCEPT ![r] = NoTrial]
    /\ route' = [route EXCEPT ![r] = NoRoute]
    /\ sent' = [sent EXCEPT ![r] = Unsent]

-------------------------------------------------------------------------------
(* selectUpstreamAccount                                                    *)

WithinLimits(a) ==
    /\ ~cooling[a]
    /\ RPMLimit[a] > 0 => rpm[a][minute] < RPMLimit[a]
    /\ ConcurrencyLimit[a] > 0 => conc[a] < ConcurrencyLimit[a]

Begin(r) ==
    /\ pc[r] = "idle"
    /\ Goto(r, "sticky")
    /\ UNCHANGED <<status, redis, minute, trial, route, sent>>

Try(r, where, a) ==
    /\ trial' = [trial EXCEPT ![r] = [acct |-> a, from |-> where, seen |-> status[a],
                                      stamp |-> minute]]
    /\ Goto(r, "rpm")

WrongServes(a) == TRUE      \* the session's account, whatever became of it

Serves(a) == status[a] \in {"online", "degraded"}

\* The session's account, if it has one that serves and did not fail r.
StickyFor(r) ==
    IF SessionOf[r] = None THEN {}
    ELSE {a \in Account \ route[r].excluded : sticky[SessionOf[r]] = a /\ Serves(a)}

Forget(r) ==
    sticky' = IF SessionOf[r] = None THEN sticky
              ELSE [sticky EXCEPT ![SessionOf[r]] = None]

\* tryStickyAccount, up to the reservation.  A useless key is deleted.
SearchSticky(r) ==
    /\ pc[r] = "sticky"
    /\ \/ /\ StickyFor(r) = {}
          /\ Forget(r)
          /\ Goto(r, "online")
          /\ UNCHANGED trial
       \/ \E a \in StickyFor(r) :
            /\ IF WithinLimits(a)
               THEN Try(r, "sticky", a)
               ELSE Goto(r, "online") /\ UNCHANGED trial
            /\ UNCHANGED sticky
    /\ UNCHANGED <<status, cooling, conc, rpm, granted, leaked, minute, route, sent>>

Preferred(rows) == {a \in rows : \A b \in rows : Priority[a] >= Priority[b]}

WrongEligible(r, where) == Preferred({a \in Account : status[a] = where})   \* forgets what failed

\* Only accounts of the highest priority present in that status are considered.
Eligible(r, where) ==
    Preferred({a \in Account : status[a] = where}) \ route[r].excluded

\* pickAccountByStatus.  Weights are positive: the draw may fall on any candidate.
Candidates(r, where) == {a \in Eligible(r, where) : WithinLimits(a)}

WrongNoAccount(r) == Goto(r, "sticky")      \* keeps looking

\* No account: 503 on the first selection; afterwards the failure stands.
NoAccount(r) == Goto(r, IF route[r].acct = None THEN "release" ELSE "health")

\* The search in `where` is over without an account.
NextSearch(r, where) ==
    CASE where = "sticky" -> Goto(r, "online")
      [] where = "online" -> Goto(r, "degraded")
      [] where = "degraded" -> NoAccount(r)

SearchByStatus(r) ==
    /\ pc[r] \in {"online", "degraded"}
    /\ \/ \E a \in Candidates(r, pc[r]) : Try(r, pc[r], a)
       \/ /\ Candidates(r, pc[r]) = {}
          /\ NextSearch(r, pc[r])
          /\ UNCHANGED trial
    /\ UNCHANGED <<status, redis, minute, route, sent>>

\* A read from Redis fails: the session is taken to have no account (and DEL may
\* fail too), an account to be within its limits.
SearchError(r) ==
    /\ "redisError" \in Faults
    /\ \/ /\ pc[r] = "sticky" /\ SessionOf[r] # None
          /\ Forget(r) \/ UNCHANGED sticky
          /\ Goto(r, "online")
          /\ UNCHANGED trial
       \/ /\ pc[r] \in {"online", "degraded"}
          /\ \E a \in Eligible(r, pc[r]) : Try(r, pc[r], a)
          /\ UNCHANGED sticky
    /\ UNCHANGED <<status, cooling, conc, rpm, granted, leaked, minute, route, sent>>

-------------------------------------------------------------------------------
(* reserveAccountLimits                                                     *)

Reserving(r) == trial[r].acct

WrongWithinRPM(a) == TRUE       \* trusts accountWithinLimits

\* What INCR returns does not exceed the limit.
WithinRPM(a) == rpm[a][minute] + 1 <= RPMLimit[a]

\* INCR of the minute's key, which is taken back when it exceeds the limit.
ReserveRPM(r) ==
    /\ pc[r] = "rpm"
    /\ LET a == Reserving(r)
       IN IF RPMLimit[a] = 0
          THEN Goto(r, "conc") /\ UNCHANGED <<rpm, granted, trial>>
          ELSE /\ trial' = [trial EXCEPT ![r].stamp = minute]
               /\ rpm' = [rpm EXCEPT ![a][minute] = @ + 1]
               /\ IF WithinRPM(a)
                  THEN /\ granted' = [granted EXCEPT ![a][minute] = @ + 1]
                       /\ Goto(r, "conc")
                  ELSE UNCHANGED granted /\ Goto(r, "undoRpm")
    /\ UNCHANGED <<status, cooling, conc, sticky, leaked, minute, route, sent>>

\* The account cannot be had: the search that found it is over.
Dropped(r) ==
    /\ trial' = [trial EXCEPT ![r] = NoTrial]
    /\ NextSearch(r, trial[r].from)

UndoRPM(r) ==
    /\ pc[r] = "undoRpm"
    /\ rpm' = [rpm EXCEPT ![Reserving(r)][trial[r].stamp] = @ - 1]
    /\ Dropped(r)
    /\ UNCHANGED <<status, cooling, conc, granted, sticky, leaked, minute, route, sent>>

\* The account is r's: the session remembers it (unless it already did), and the
\* first selection goes on in ResolveRoute, a later one in Forward.
Selected(r, l) ==
    LET a == Reserving(r)
    IN  /\ route' = [route EXCEPT ![r].acct = a, ![r].snap = trial[r].seen, ![r].lease = l]
        /\ sticky' = IF SessionOf[r] = None \/ trial[r].from = "sticky" THEN sticky
                     ELSE [sticky EXCEPT ![SessionOf[r]] = a]
        /\ trial' = [trial EXCEPT ![r] = NoTrial]
        /\ Goto(r, IF route[r].acct = None THEN "resolved" ELSE "forward")

WrongWithinConcurrency(a) == conc[a] <= ConcurrencyLimit[a]     \* off by one

WithinConcurrency(a) == conc[a] + 1 <= ConcurrencyLimit[a]

\* INCR, which is taken back when it exceeds the limit; the minute's slot is not.
ReserveConcurrency(r) ==
    /\ pc[r] = "conc"
    /\ LET a == Reserving(r)
       IN IF ConcurrencyLimit[a] = 0
          THEN Selected(r, None) /\ UNCHANGED conc
          ELSE /\ conc' = [conc EXCEPT ![a] = @ + 1]
               /\ IF WithinConcurrency(a)
                  THEN Selected(r, a)
                  ELSE Goto(r, "undoConc") /\ UNCHANGED <<trial, route, sticky>>
    /\ UNCHANGED <<status, cooling, rpm, granted, leaked, minute, sent>>

UndoConcurrency(r) ==
    /\ pc[r] = "undoConc"
    /\ conc' = [conc EXCEPT ![Reserving(r)] = @ - 1]
    /\ Dropped(r)
    /\ UNCHANGED <<status, cooling, rpm, granted, sticky, leaked, minute, route, sent>>

\* INCR answers with an error, although it may have been executed: the request
\* goes on without the limit it could not take.
ReserveError(r) ==
    /\ "redisError" \in Faults
    /\ LET a == Reserving(r)
       IN \/ /\ pc[r] = "rpm" /\ RPMLimit[a] > 0
             /\ Goto(r, "conc")
             /\ \E k \in 0 .. 1 : rpm' = [rpm EXCEPT ![a][minute] = @ + k]
             /\ UNCHANGED <<conc, leaked, trial, route, sticky>>
          \/ /\ pc[r] = "conc" /\ ConcurrencyLimit[a] > 0
             /\ Selected(r, None)
             /\ \E k \in 0 .. 1 : /\ conc' = [conc EXCEPT ![a] = @ + k]
                                  /\ leaked' = [leaked EXCEPT ![a] = @ + k]
             /\ UNCHANGED rpm
    /\ UNCHANGED <<status, cooling, granted, minute, sent>>

\* DECR fails: what was taken stays taken.
UndoError(r) ==
    /\ "redisError" \in Faults
    /\ \/ pc[r] = "undoRpm" /\ UNCHANGED leaked
       \/ pc[r] = "undoConc" /\ leaked' = [leaked EXCEPT ![Reserving(r)] = @ + 1]
    /\ Dropped(r)
    /\ UNCHANGED <<status, cooling, conc, rpm, granted, sticky, minute, route, sent>>

-------------------------------------------------------------------------------
(* ResolveRoute and proxy, after the selection                              *)

\* r is gone, and what it holds will not be given back.
Abandon(r) ==
    /\ leaked' = [a \in Account |->
                    leaked[a] + (IF route[r].lease = a
                                    \/ (pc[r] = "undoConc" /\ Reserving(r) = a)
                                 THEN 1 ELSE 0)]
    /\ End(r)

\* groupAllowed fails (or the body cannot be rebuilt): ResolveRoute returns an
\* error instead of the route, and with it the lease key is gone.
Forbidden(r) ==
    /\ pc[r] = "resolved"
    /\ Abandon(r)
    /\ UNCHANGED <<status, cooling, conc, rpm, granted, sticky, minute>>

\* The key may not use the model, a limit of the key or the user is exceeded, or
\* PreCharge fails: the lease is released and an error is answered.
Refuse(r) ==
    /\ pc[r] = "resolved"
    /\ Goto(r, "release")
    /\ UNCHANGED <<status, redis, minute, trial, route, sent>>

Proceed(r) ==
    /\ pc[r] = "resolved"
    /\ Goto(r, "forward")
    /\ UNCHANGED <<status, redis, minute, trial, route, sent>>

-------------------------------------------------------------------------------
(* Forward                                                                  *)

Send(r) == sent' = [sent EXCEPT ![r][route[r].acct] = @ + 1]

\* client.Do returns a response: its headers, not yet its body.
Headers(r) ==
    /\ pc[r] = "forward"
    /\ Send(r)
    /\ Goto(r, "body")
    /\ UNCHANGED <<status, redis, minute, trial, route>>

\* The request ends with this account: "ok" when usage could be billed, "bad" for
\* a body that breaks off or a request that cannot be built, "neutral" for a
\* cancelled client, missing usage or a status that is not retried.
Finish(r, v) ==
    /\ \/ pc[r] = "body" /\ UNCHANGED sent
       \/ pc[r] = "forward" /\ v = "neutral" /\ Send(r)
       \/ pc[r] = "forward" /\ v = "bad" /\ UNCHANGED sent
    /\ route' = [route EXCEPT ![r].verdict = v]
    /\ Goto(r, "health")
    /\ UNCHANGED <<status, redis, minute, trial>>

\* A network error, or a status that is retried ("neutral" is 408).  The account
\* is excluded and coolDownAccount degrades its row.
Fail(r, v) ==
    /\ \/ pc[r] = "body" /\ UNCHANGED sent
       \/ pc[r] = "forward" /\ v = "bad" /\ Send(r)
    /\ route' = [route EXCEPT ![r].verdict = v, ![r].excluded = @ \cup {route[r].acct}]
    /\ status' = [status EXCEPT ![route[r].acct] = "degraded"]
    /\ Goto(r, "cool")
    /\ UNCHANGED <<redis, minute, trial>>

\* The cooldown key is set and the session forgets the account; a failure of
\* either is ignored.
CoolDown(r) ==
    /\ pc[r] = "cool"
    /\ \/ cooling' = [cooling EXCEPT ![route[r].acct] = TRUE]
       \/ "redisError" \in Faults /\ UNCHANGED cooling
    /\ \/ Forget(r)
       \/ "redisError" \in Faults /\ UNCHANGED sticky
    /\ Goto(r, "switch")
    /\ UNCHANGED <<status, conc, rpm, granted, leaked, minute, trial, route, sent>>

WrongAfterRelease(r) ==     \* keeps the key, and the deferred call releases it again
    \/ /\ pc[r] = "switch"
       /\ Goto(r, "sticky")
       /\ UNCHANGED <<trial, route, sent>>
    \/ pc[r] = "release" /\ End(r)

\* Who calls releaseAccountLease: switchUpstreamAccount, which selects again, or
\* the end of the handler.
AfterRelease(r) ==
    \/ /\ pc[r] = "switch"
       /\ Goto(r, "sticky")
       /\ route' = [route EXCEPT ![r].lease = None]
       /\ UNCHANGED <<trial, sent>>
    \/ pc[r] = "release" /\ End(r)

\* releaseAccountLease: DECR, once.
Release(r) ==
    /\ AfterRelease(r)
    /\ conc' = IF route[r].lease = None THEN conc
               ELSE [conc EXCEPT ![route[r].lease] = @ - 1]
    /\ UNCHANGED <<status, cooling, rpm, granted, sticky, leaked, minute>>

\* DECR fails: the key is forgotten all the same.
ReleaseError(r) ==
    /\ "redisError" \in Faults
    /\ AfterRelease(r)
    /\ route[r].lease # None
    /\ leaked' = [leaked EXCEPT ![route[r].lease] = @ + 1]
    /\ UNCHANGED <<status, cooling, conc, rpm, granted, sticky, minute>>

\* updateAccountHealth at the end of Finalize: the row becomes what the outcome
\* says, or again what it was when the account was selected.
UpdateHealth(r) ==
    /\ pc[r] = "health"
    /\ status' = [status EXCEPT ![route[r].acct] =
                    CASE route[r].verdict = "ok" -> "online"
                      [] route[r].verdict = "bad" -> "degraded"
                      [] route[r].verdict = "neutral" -> route[r].snap]
    /\ Goto(r, "release")
    /\ UNCHANGED <<redis, minute, trial, route, sent>>

-------------------------------------------------------------------------------
(* Time, administrators and faults                                          *)

Tick ==
    /\ minute < LastMinute
    /\ minute' = minute + 1
    /\ UNCHANGED <<status, redis, pc, trial, route, sent>>

CooldownExpires(a) ==
    /\ cooling[a]
    /\ cooling' = [cooling EXCEPT ![a] = FALSE]
    /\ UNCHANGED <<status, conc, rpm, granted, sticky, leaked, minute, pc, trial, route, sent>>

\* updateUpstreamAccount or checkUpstreamAccount, which write the status whatever
\* it has become.
SetStatus(a) ==
    /\ "admin" \in Faults
    /\ \E to \in Statuses \ {status[a]} : status' = [status EXCEPT ![a] = to]
    /\ UNCHANGED <<redis, minute, pc, trial, route, sent>>

\* recoverUpstreamAccount, its UPDATE and its DEL together.
Recover(a) ==
    /\ "admin" \in Faults
    /\ status[a] # "online" \/ cooling[a]
    /\ status' = [status EXCEPT ![a] = "online"]
    /\ cooling' = [cooling EXCEPT ![a] = FALSE]
    /\ UNCHANGED <<conc, rpm, granted, sticky, leaked, minute, pc, trial, route, sent>>

\* Six hours after the last INCR the counter expires.  Bound: no request holds a
\* lease, or an increment to be taken back, for that long.
CounterExpires(a) ==
    /\ conc[a] # 0
    /\ \A r \in Request : route[r].lease # a /\ ~(pc[r] = "undoConc" /\ Reserving(r) = a)
    /\ conc' = [conc EXCEPT ![a] = 0]
    /\ leaked' = [leaked EXCEPT ![a] = 0]
    /\ UNCHANGED <<status, cooling, rpm, granted, sticky, minute, pc, trial, route, sent>>

Kill(r) ==
    /\ "kill" \in Faults
    /\ pc[r] \notin {"idle", "over"}
    /\ Abandon(r)
    /\ UNCHANGED <<status, cooling, conc, rpm, granted, sticky, minute>>

\* Every request explored is over.
Terminated == (\A r \in Request : pc[r] = "over") /\ UNCHANGED vars

-------------------------------------------------------------------------------
Verdicts == {"ok", "bad", "neutral"}

Selecting(r) ==
    \/ SearchSticky(r) \/ SearchByStatus(r) \/ SearchError(r)
    \/ ReserveRPM(r) \/ UndoRPM(r) \/ ReserveConcurrency(r) \/ UndoConcurrency(r)
    \/ ReserveError(r) \/ UndoError(r)

Routing(r) == Forbidden(r) \/ Refuse(r) \/ Proceed(r)

Closing(r) == CoolDown(r) \/ Release(r) \/ ReleaseError(r) \/ UpdateHealth(r)

Upstream(r) ==
    \/ Headers(r)
    \/ \E v \in Verdicts : Finish(r, v)
    \/ \E v \in Verdicts \ {"ok"} : Fail(r, v)

Next ==
    \/ \E r \in Request :
         Begin(r) \/ Selecting(r) \/ Routing(r) \/ Upstream(r) \/ Closing(r) \/ Kill(r)
    \/ \E a \in Account :
         CooldownExpires(a) \/ SetStatus(a) \/ Recover(a) \/ CounterExpires(a)
    \/ Tick
    \/ Terminated

Spec == Init /\ [][Next]_vars

\* The server takes its own steps.  An upstream owes nothing: dialling, the TLS
\* handshake, writing the request and reading a body have no timeout (client.Do
\* bounds only the wait for headers, once the request is written).
FairSpec ==
    /\ Spec
    /\ \A r \in Request : WF_vars(Selecting(r) \/ Routing(r) \/ Closing(r))

-------------------------------------------------------------------------------
(* Properties                                                               *)

TypeOK ==
    /\ status \in [Account -> Statuses]
    /\ cooling \in [Account -> BOOLEAN]
    /\ conc \in [Account -> Int]
    /\ rpm \in [Account -> [0 .. LastMinute -> Int]]
    /\ granted \in [Account -> [0 .. LastMinute -> Nat]]
    /\ sticky \in [Session -> Account \cup {None}]
    /\ minute \in 0 .. LastMinute
    /\ pc \in [Request -> PC]
    /\ trial \in [Request -> [acct : Account \cup {None}, from : Searches,
                              seen : {"online", "degraded"}, stamp : 0 .. LastMinute]]
    /\ route \in [Request -> [acct : Account \cup {None}, snap : {"online", "degraded"},
                              lease : Account \cup {None}, excluded : SUBSET Account,
                              verdict : Verdicts]]
    /\ sent \in [Request -> [Account -> Nat]]
    /\ leaked \in [Account -> Nat]

Holders(a) == {r \in Request : route[r].lease = a}

Undoing(a) == {r \in Request : pc[r] = "undoConc" /\ trial[r].acct = a}

\* An account with a limit never serves more leased requests than that, although
\* they all may have seen a free slot before any of them took one.
LeaseBound ==
    \A a \in Account :
        ConcurrencyLimit[a] > 0 => Cardinality(Holders(a)) <= ConcurrencyLimit[a]

\* The counter is the number of leases, of increments about to be taken back,
\* and of slots that nobody will give back: a lease is released once, whichever
\* way through the retry loop and the deferred calls is taken.
CounterBalance ==
    \A a \in Account :
        conc[a] = Cardinality(Holders(a)) + Cardinality(Undoing(a)) + leaked[a]

\* No more than rpm_limit reservations succeed in a minute, however many requests
\* saw the last slot, however late the surplus is taken back, whoever dies first.
RPMBound ==
    \A a \in Account, m \in 0 .. LastMinute :
        RPMLimit[a] > 0 => granted[a][m] <= RPMLimit[a]

\* A request is never sent twice to the same account.
SentOnce == \A r \in Request, a \in Account : sent[r][a] <= 1

\* A request that looks for an account comes to its end, or waits for ever for one
\* upstream, in client.Do or for the rest of a body: it is never the server that
\* keeps it, by failing over without end or by a search that does not give up.
FailoverEnds ==
    \A r \in Request :
        pc[r] = "sticky" ~>
            pc[r] = "over" \/ [](pc[r] = "forward") \/ [](pc[r] = "body")

\* "Real-time load of the account pool" (README.md:170, from the same counters):
\* when nothing fails and no request runs, no account counts as busy.
LoadIsReal ==
    (\A r \in Request : pc[r] \in {"idle", "over"}) => \A a \in Account : conc[a] = 0
===============================================================================
