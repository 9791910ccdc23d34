# A TLA+ model of getoken

getoken is a gateway for language models: a client sends a request with an API
key, the server chooses an upstream and one of its accounts, reserves an
estimated price on the user's quota, forwards the request, prices the real
usage, and settles.  Money enters through redemption codes and Alipay orders.
The back end is a Go program (`server/`); any number of replicas of it share a
PostgreSQL database and a Redis (`docs/DEPLOYMENT.md`).  The front end (`web/`)
is a React program in the browser: pages that show lists cached by the library
SWR, and handlers that send requests to the HTTP API and go on when they are
answered.

What can go wrong here is what happens *between* two statements: PostgreSQL runs
at READ COMMITTED, one transaction of the program takes a row lock
(`completeOrderWithIP`), everything else is read-then-write, and Redis counters
are taken and given back by separate commands.  In the browser it happens
between a request and its answer: the handler closes over the row that was
rendered, the page may have been left, another tab may have signed out, the list
that arrives may be older than the answer, and what is written back may be older
than what it replaces.  This directory models those steps, checks them with TLC
on small instances, and proves the central invariants for every instance with
TLAPS.

Paths of Go files are relative to `server/internal/`, paths of TypeScript files
to `web/src/`.

## 1. Inventory

| Component | State | Operations | Hard because |
|---|---|---|---|
| Settlement: `relay/settle.go`, `referral/referral.go` | `users.quota`, `users.used_quota`, `tokens.remain_quota`, `logs`, `referrals`; `SettleCtx` in memory | PreCharge, Release, Finalize, referral.Apply | balance read in one statement and reserved in another; failed and unacknowledged commits; a process that dies between reservation and settlement |
| Account pool: `relay/model_route.go`, `relay/forward.go` | `upstream_accounts.status`; Redis: concurrency, rpm, cooldown, sticky | select, reserve, release, cool down, retry, updateAccountHealth | limits checked before they are reserved; leases released by the retry loop or by a deferred call; Redis errors; killed replicas |
| Request limits: `relay/limits.go` | Redis: qps, tps, rpm, tpm and concurrency of keys and users | reserveTokenLimits, reserveUserLimits, releases | ten counters taken one after the other, the earlier ones kept when a later one refuses |
| Relay entry: `relay/relay.go`, `token_auth.go`, `model_access.go`, `count_tokens.go`, `models_list.go` | none of its own | TokenAuth, proxy, proxyGemini, listings | the order of reservations and deferred releases |
| Usage parsing: `relay/usage*.go` | none | token counts from a body or an event stream | partial streams, overlapping counts |
| Prices: `billing/` | none | CostUSDDetailed | rounding |
| Top-up: `topup/topup.go`, `topup/alipay.go` | `redemption_codes`, `payment_orders`, `users.quota`, `audit_logs` | redeem, createOrder, cancelOrder, simulatePaid, alipayNotify | reports repeat until acknowledged; reads without lock; overwritten statuses |
| Accounts: `auth/`, `middleware/` | `users`; Redis: mailed codes, revoked sessions, OAuth states | register, login, sendCode, forgot, GitHub callback, EnsureAdmin | one-time codes taken in three commands; whole-row saves; several replicas starting at once |
| Keys: `token/token.go`, self service: `user/user.go` | `tokens`, `users` | CRUD | absolute writes of values that settlement changes |
| Administration: `admin/admin.go` | all tables, settings | users, groups, codes, models, settings | absolute write of a quota shown earlier |
| Upstreams: `admin/upstream_ops.go`, `upstream_accounts.go`, `upstream_oauth.go` | `upstreams`, `upstream_accounts`, OAuth states in Redis | checks, model sync, recovery, OAuth start, callback, refresh | failure counts computed from a value read before a probe; single-use states; racing refreshes |
| Audit, statistics, ops snapshot, public pages | `audit_logs`, aggregates | listings | none: they read |
| Mail, configuration, logging, storage, server assembly | none shared | | none |
| Resource pages: `pages/dashboard/TokensPage.tsx`, `pages/admin/*Page.tsx` | SWR's list; open dialogs; a flag per kind of button | load, create, edit, toggle, delete, bulk, check, sync, seed, save, filter, leave | handlers go on after their page was left; rows shown are stale; answers are lost |
| Top-up page: `pages/dashboard/TopupPage.tsx` | the list of orders, the order below the form, two flags | create an order, confirm it, redeem | answers are put into the list by hand, which drops a list under way |
| Sessions: `hooks/useAuth.ts`, `RequireAuth.tsx`, `router.tsx`, `DashboardLayout.tsx`, `LoginPage.tsx`, `GithubCallbackPage.tsx`, `SettingsPage.tsx` | session id in localStorage; SWR's entry for the user | guard, load the user, sign in, sign out, profile, password | the session is replaced while the user of the one before is cached, loading, or remembered as a failure |
| Mailed codes: `RegisterPage.tsx`, `ForgotPage.tsx` | countdown and its intervals; the server's code | send a code, register, reset a password | three steps on one code, four on one account; intervals that overlap |
| Requests and demo session: `lib/api.ts`, `lib/mock.ts`, `lib/mockAdmin.ts` | session id, the demo session's rows | apiFetch, demo rows | an answer that is lost looks like a failure |
| Read-only pages, marketing pages, layout, user-interface kit | none shared | | none: they show what was loaded |

How they meet: `proxy` calls TokenAuth, ResolveRoute (which reserves an account),
reserveTokenLimits, reserveUserLimits, PreCharge and Forward, in this order, and
Forward calls Release and Finalize; Finalize calls referral.Apply in its
transaction and updateAccountHealth after it.  Top-up, referral, signup bonuses
and administrators all write `users.quota`; only settlement writes
`users.used_quota`.  There are no queues, workers or callbacks on the
server: every change is made by the goroutine of some HTTP request, and requests
meet in PostgreSQL and Redis only.  The pages meet in SWR's cache, in
localStorage (which all tabs share) and in the server's tables.

What makes each component correct:

* Settlement: no statement of money is lost or applied twice; the quota is
  overdrawn by no more than the code's check-then-reserve can explain; rewards
  match the log; every answered request is settled.
* Account pool: limits hold for what was *granted*; a lease is released exactly
  once; no account is tried twice by a request; failing over ends.
* Top-up: a payment is credited once, to its owner, and before "success" is
  said; what a code pays twice, it pays only to calls that had read it before it
  first paid.
* Request limits: what was admitted in a window fits the limit; a concurrency
  slot is given back once.
* Accounts: a mailed code works once; a user exists once per address; bonuses
  are granted once.
* Rows written by several handlers: no handler undoes the committed effect of
  another.
* Pages: a form is sent once however its dialogs are closed and opened; a button
  that spins has something to wait for; a button writes nothing the user did not
  mean; a success that was told comes to be seen; what is shown once is not
  replaced before it is read.
* Sessions: whose dashboard is shown is who signed in; nobody is thrown back and
  forth between login and dashboard; the dashboard does not load for ever.

`PROJECT.json` lists the hazards line by line with the properties that watch
them.

## 2. Conventions

* One action is one SQL statement outside a transaction, one transaction whose
  reads do not matter to its writes, or one Redis command.  A transaction that
  decides on what it read without a lock is split at that read.
* A handler that refuses and changes nothing is not a step, unless it holds
  something at that point.
* `Faults` selects what may fail: `dbError` (the statement has no effect and an
  error is returned), `ackLost` (it has its effect and an error is returned),
  `crash` or `kill` (the goroutine ends where it is), `redisError`, `admin`.
* Amounts are natural numbers of the smallest unit of the NUMERIC(18,6) columns.
* `Budgets` bounds the browser's modules: a behaviour starts with one of these
  records (how many requests, faults, changes elsewhere, moves of the user) and
  every such event takes one off.  The theorems hold for every `Budgets`.
* SWR is code outside the repository, modelled from how the pages use it: one
  entry and one request per key.  A list page has two keys to look at, the one it
  opens with and that of another filter or page of the list; coming to show a
  key, by mounting or by a filter, joins its request under way and its answer of
  less than two seconds ago (`dedupingInterval`), and who has joined does not
  repeat a request that fails.  A failure is remembered and seen by the first
  render of the next mount; `mutate()` is about the key that the handler's visit
  shows or ended with: it drops that key's request under way and sends another if
  the key is shown; `mutate(f, false)` drops it and sends none; failed requests
  are sent again later, except for the user (`shouldRetryOnError: false`).
* A state setter of a handler whose page was left acts on nothing; everything
  else it does (storing a session, navigating, `mutate`) it does from wherever
  the user is.
* `Totals.tla` sums a natural-valued function over a finite set as the
  cardinality of a disjoint union of intervals; no recursion is involved, so the
  sums can be reasoned about with the library's cardinality theorems.
* History variables are marked as such in the comment beside their declaration;
  no action's guard reads one.
* A definition called `Wrong...` is a plausible slip in the definition that
  follows it; no specification uses it.

## 3. Modules

### Settlement (with Ledger, Totals, MCSettlement, SettlementProofs, LedgerProofs)

A request goes `idle -> authed -> readToken -> reserve -> forward -> release ->
finalize -> fallback -> done`, skipping what the code skips.

| Code | Model |
|---|---|
| TokenAuth's snapshot of the key; reserveUserLimits' concurrency slot | `Admit`: `metered` and the guard on `InFlight` |
| `PreCharge` (31-71): free estimate; read of the user; read of the key; UPDATE and COMMIT | `PreChargeFree`, `PreChargeReadUser`, `PreChargeReadToken`, `PreChargeReserve`; `PreChargeError`, `PreChargeAckLost` |
| Forward: usage parsed (or estimated, for images), or a failure | `UpstreamBilled`, `UpstreamFailed` |
| `SettleCtx.Release` (75-86) | `Release`, `ReleaseError` |
| `SettleCtx.Finalize` (96-175) with `referral.Apply` in its transaction, and the fallback at 165-173 | `Settle` inside `Finalize`, `FinalizeError`, `FinalizeAckLost`; `AfterSettleError` |
| `Recovery`, a killed replica | `Crash` |
| `token.update` (remainQuota and unlimitedQuota in one UPDATE), `admin.updateSettings` | `EditToken` with `WriteRemain`, `SetRewardPercent` |

`remain_quota` has two writers: the settlement lowers it by a price, and the
owner's form sets it to a figure (`token.go:156-163`), at any time.  `written` and
`overtaken` are history: the figure written last, and for each request what it had
done with the key's balance when that figure replaced it: been "told" that the
balance covers its estimate, or been "logged" and paid.

`Ledger` says what this promises about `used_quota`: each request opens at most
one hold and closes it at most once, by a bill or by a refund, and `used_quota`
changes by exactly those entries.  `Settlement` implements it (`ImplementsLedger`,
with the phase of a request read off its log row and its SettleCtx) as long as no
commit acknowledgement is lost: a lost acknowledgement of the settlement makes
the fallback refund what was billed, which `Conservation` accounts for by its
history variable `fault`.

`Admit` takes the concurrency slot of a user as given; that a user without
Redis errors has at most `concurrency_limit` requests in flight is what
`RateLimits!ServingBound` says.  When Redis fails, `reserveUserLimits` lets a request pass
without a slot: the overdraft bounds below are bounds for a working Redis (or,
read the other way, for whatever number of requests is really in flight).

### Topup (with MCTopup, TopupProofs)

`Call` are goroutines, each serving one request after another; `job[c]` is what
the handler's read has decided and its write has yet to do.

| Code | Model |
|---|---|
| `redeem` 67-76, then 78-98 | `RedeemRead`, `Redeem` (with `Credit`) |
| `createOrder`, `cancelOrder` 180-191 then 192 | `CreateOrder`, `CancelRead`, `Cancel` |
| `alipayNotify`: read of the order, branch on its status and the trade's | `NotifyRead`, `CloseRead` |
| `simulatePaid` (refused in production) | `SimulateRead` |
| `completeOrderWithIP`: SELECT FOR UPDATE, status, credit, audit | `Complete`, from `Completable`, `CompleteTx`, `Credited` |
| the answer to Alipay | `Answer`, `acked` |
| `admin.deleteRedemption` | `DeleteRedemption` |
| Alipay itself (external) | `Pay`, `CloseTrade`; it reports while `acked` is false |

### AccountPool (with MCAccountPool, AccountPoolProofs)

| Code | Model |
|---|---|
| `selectUpstreamAccount`: sticky, then online, then degraded accounts | `SearchSticky`, `SearchByStatus`, `NextSearch`, `NoAccount` |
| `accountWithinLimits` | `WithinLimits` |
| `reserveAccountLimits`: INCR rpm, DECR if over, INCR concurrency, DECR if over | `ReserveRPM`, `UndoRPM`, `ReserveConcurrency`, `UndoConcurrency` |
| `rememberStickyAccount`, filling the RouteResult | `Selected` |
| `groupAllowed` and body errors after the reservation | `Forbidden` |
| the refusals of `proxy`, the deferred `releaseAccountLease` | `Refuse`, `Proceed`, `Release` at `pc = "release"` |
| Forward's loop: send, read, retry, `coolDownAccount`, `switchUpstreamAccount` | `Headers`, `Finish`, `Fail`, `CoolDown`, `Release` at `pc = "switch"` |
| `updateAccountHealth` | `UpdateHealth` |
| failing Redis commands | `SearchError`, `ReserveError`, `UndoError`, `ReleaseError`, the second disjuncts of `CoolDown` |
| time | `Tick`, `CooldownExpires`, `CounterExpires` |
| administrators | `SetStatus`, `Recover` |
| a killed replica | `Kill` |

A panic runs the deferred calls, so it gives the lease back; only the end of a
process (`Kill`) does not.  `granted`, `sent` and `leaked` are history.  "cooling" as a status of the row is
written "offline" since neither is ever selected.

### RateLimits (with MCRateLimits, Totals, RateLimitsProofs)

| Code | Model |
|---|---|
| the five checks of `reserveTokenLimits`, then the five of `reserveUserLimits` | `stage[r]` = 1 .. 10 with `HolderAt` and `KindAt`; `Advance` goes to the next one that has a limit |
| INCR / INCRBY of a window, compared with the limit | `TakeWindow`, with `Fits` and `Count` |
| INCR of the concurrency counter, DECR above the limit | `TakeSlot`, `Undo` |
| the deferred `releaseUserLease`, `releaseTokenLease` | `Release`, in the order of `NextToRelease`; `Finish` |
| a command that fails, also because the client went away and the request's context is cancelled | `TakeError`, `UndoError`, `ReleaseError` |
| PreCharge and Forward | `EndServing` |

The ten counters are the same code with other names: the module is
parameterised by `Limit[h][k]`.  The name of a window counter is formed and
incremented in one action; a goroutine that sleeps in between would count in the
window in which it fell asleep.

### Console and the resource pages (with ConsolePages, MCConsole, ConsolePagesProofs)

`Console` is what the pages share; each page is a module of its own handlers.
`ConsolePages` composes them.  One page is looked at per behaviour, since pages
share nothing but a table, whose other writers are `Another`.

| Code | Model |
|---|---|
| `useSWR(key, fetcher)` of a list, `mutate()`, filters and pages of a list | `FetchServed`, `FetchDelivered`, `FetchFailed`, `FetchRetried`, `Mutated`; `Turn`, `Swap`, `Opening` |
| the key that is not shown, and `mutate()` of a handler whose visit ended with it | `AsideServed`, `AsideDelivered`; `SameKey` |
| `data?.items ?? demo...` | `Shown`, `DemoRows` |
| a row's button; a button with a busy id; a dialog's form | `Click`; `ClickBusy`, `Released`; `Submit`, `Form` |
| what follows `await apiFetch(...)` in every handler | `Returned`: closes, reveals, revalidates, and the `finally` |
| dialogs; routing away and back | `OpenCreate` .. `CloseSecret`; `Leave`, `Return` |
| a handler of the server: the fields it writes, an answer that is lost, a refusal | `Applied`, `Write`, `Served`, `LoseAnswer`, `Refused` |
| `TokensPage.tsx`, `token/token.go` | `TokensPage` |
| `UsersPage.tsx` with the users of `admin/admin.go` | `UsersPage` |
| `ModelsPage.tsx` with its models and their import | `ModelsPage` |
| `GroupsPage.tsx`, `AnnouncementsPage.tsx`, `RedemptionPage.tsx` | `NoticePages` |
| `ChannelsPage.tsx` with `admin/upstream_ops.go`, `upstream_accounts.go`, `upstream_oauth.go` | `ChannelsPage`; its two lists are looked at one at a time |
| `SystemSettingsPage.tsx`, `updateSettings` key by key | `SystemSettingsPage` |
| `TopupPage.tsx` | `TopupPage`; `RefreshOrders` is `mutate(f, false)` |

A row is four fields that the properties tell apart: a name (what a form types),
a status (what a switch sets), a quota (what others charge; prices, ratios, a
second key of a section) and notes (the tags and note of an upstream).  `undone`
is history: the fields that a request wrote back as it had seen them although
somebody had changed them since.

### Session, MailedCodes, AccountPages (with MCAccountPages, AccountPagesProofs)

| Code | Model |
|---|---|
| `useAuth` 4-9: `useSWR("/user/self")` | `self`, `load`, `UseAuth`, `LoadServed`, `LoadDelivered`, `DedupingEnds` |
| `RequireAuth.tsx` | `RequireAuth`, evaluated by `Mount` and on every change of the user |
| `LoginPage.tsx`, GitHub and back, `GithubCallbackPage.tsx` | `SignIn`, `GithubReturn`, `Exchange`, `Denied`, `LoginServed`, `GithubServed`, `SignedIn`, `Told` |
| `logout`, `onChangePassword`, `onSaveProfile` | `Logout`, `ChangePassword`, `PasswordChanged`, `SaveProfile`, `ProfileSaved` |
| routing, reloading, other tabs, the end of a session | `Visit`, `Reload`, `OtherTab`, `Expire` |
| `onSendCode`, the countdown, `onSubmit` of the two forms | `OnSendCode`, `SendReturned`, `CountDown`, `OnSubmit`, `ForgotReturned` |
| `sendCode`; `verifyEmailCode` (GET, comparison, DEL); `register`; `forgot` in `auth/auth.go` | `StoreCode`, `MailCode`; `CheckCode`, `DropCode`; `CheckAddress`, `CreateUser`, `ApplySignupBonuses`; `ResetPassword` |
| the ten minutes of a code | `CodeAges` |

A handler is a record in `pending`; `here` says whether its page is still
mounted.  A session is its index in `owner`, the users of the sessions issued.
Storing a code in Redis (auth.go:237) and mailing it (auth.go:250) are two steps, and
the second may fail without the answer telling (auth.go:250-253): `issued` is the
last code stored, `mailed` the codes in the user's mailbox, from which he types one.
`failed`, `bounced`, `crossed`, `gone` and `passed` are history.

## 4. Runs

| Run | Instance | Shows |
|---|---|---|
| `settlement` | three requests on one key of an invited user, two at a time; all faults; the owner edits the key meanwhile (sets it to 0 or 2, limited or not); estimates 0 and 2; prices 1 and 3, one above every estimate; quota 3, key 1 | `Conservation`, `TokenBalance`; the overdraft of user and key stays within one estimate for each *other* admitted request, and for the key within what the owner's edits took from under requests |
| `settlement_ledger` | one request of the invitee, one of the inviter; database errors and crashes, no lost acknowledgement; rewards 0 or 50 % | `ImplementsLedger`, `RewardsBalance`, and `AnswerIsSettled` under fairness |
| `settlement_overdraft` (violation) | two requests, no fault | the claim at `relay/settle.go:28` that concurrent requests do not overdraw is false |
| `topup` | three calls at a time, one code, one order, all faults | one credit per order, "success" only after the credit; a code pays no call that came after its first use (`RedeemBound`); a reported payment is credited in the end |
| `topup_redeem` (violation) | two users, one code, no fault | a code can pay twice: read without lock, UPDATE without a condition |
| `topup_cancel` (violation) | one order, no fault | a cancellation overwrites COMPLETED |
| `limits` | two requests on one key, the second twice as heavy; the key has tpm 2 and concurrency 1, its user qps 1 and concurrency 1; three seconds, two minutes; all faults | `WindowBound`, `ServingBound`, `CounterBalance`, `KeyShieldsUser` |
| `pool` | two requests of one session, one account with both limits 1, two minutes, all faults and administrators | `LeaseBound`, `RPMBound`, `CounterBalance` |
| `pool_failover` | two requests of one session, two accounts of different priority, no fault | no account is tried twice; the slots balance through a switch; a request ends unless one upstream keeps it waiting for ever |
| `pool_load` (violation) | two requests, no fault | a refused request leaves its slot taken: the "real-time load" (README.md:170) is not |
| `web_pages` | ten lists of nine pages, two ids; keys: two requests with a fault, a change elsewhere or a move; the others: two requests, or one with all three; users and codes: one with two moves, so that a filter is changed and changed back | `OneSubmission`, `BusyMeansAwaited`, `ClicksUndoNothing`, `OnlySwitchErasesNotes`, `SecretIsRead`, and `AckedIsShown` under fairness |
| `web_session` | one tab, an administrator with an account and a user without; up to three sign-ins, or four forms and codes; two faults, three moves, one other tab, a countdown of two seconds | `NoLoginLoop`, `ShownIsSignedIn`, `CallbackErrorIsFinal`, `LatestCodeWorks`, `BonusOnce`, and `SpinnerEnds`, `CodeCanBeResent` under fairness |

Why the bounds are enough.  The races are races of two: a reader, and a writer
that comes in between.  Three requests (two in flight) let a settled one leave
its mark on two that race; three calls let a completion, a cancellation and a
repeated report meet.  A price above every estimate, a quota that admits the
largest estimate once, and a key that does so only after its owner has raised it,
put every comparison of `PreCharge` on both sides; an edit to 0 takes the balance
away from under requests that were told it covers them, an edit to 2 gives to
requests what others are about to spend.  Limits of 1 make two requests reach every limit;
two accounts let the failover succeed, and fail, at each of the three searches;
two minutes let an increment be taken back after its minute is over.

In the browser two requests of one page are enough for one to be answered while
the other is under way; one change elsewhere makes a row stale, one fault loses
an answer, one move leaves a handler behind, and coming back costs nothing; a second move
changes a filter back within SWR's two seconds.  Two
failures of the user's load let a remembered failure meet a new one; four forms
let a code be sent again between another's check and deletion and let two
registrations find the address free.

Deadlock is checked in the runs of the server.  `Settlement` and `Topup` go on through
administrators, owners and new reports; `AccountPool` and `RateLimits` have an
explicit `Terminated`.  `limits` has one window kind of each sort (by the second
and by the minute, counting requests and counting tokens) and a concurrency limit
on both levels; the other kinds run through the same definitions.  `web_pages`
and `web_session` say CHECK_DEADLOCK FALSE: a page at rest, whose user has used up
his budget, waits for ever.

Fairness.  `Settlement!FairSpec`: the goroutine of a request takes its next
database step, which Go's scheduler and the database's statement execution
justify; nothing is assumed of clients, upstreams, owners, administrators or
faults.  `Topup!FairSpec`: handlers come to their end; Alipay repeats an
unacknowledged report (strong fairness of `NotifyOf`), and one of those reports
meets a database that works (strong fairness of `CompleteNotify`): without the
last assumption a database that is down for ever credits nothing.
`AccountPool!FairSpec`: the server's own steps and no others.  The client of the
relay (forward.go:126-137) has a `ResponseHeaderTimeout`, which starts when the
request has been written; it has none for the dial, the TLS handshake, the writing
of the request or the reading of the body, so neither the return of `client.Do` nor
the end of a body is assumed, and `FailoverEnds` allows a request to wait for one
upstream for ever.
`ConsolePages!FairSpec`: the request for a list is answered, its answer is
delivered, and a failed one is sent again (SWR's retry); nothing is assumed of
handlers and users, nor of the request of a key that is not shown.
`AccountPages!FairSpec`: the request for the user is answered or fails and the page
gets the answer (the browser ends a request that is not answered with an error); a
request for a code goes through its two steps on the server, which end because the
mailers have timeouts (ten seconds for Resend; ten to dial and twenty to talk SMTP),
and its answer or error reaches the page; and `setInterval` fires.

## 5. Proofs

Every invariant, every action property and the refinement that a passing run
checks on its instance is a theorem here, for every value of the constants; the
six properties under fairness stay with TLC.

What is assumed of the constants are the ASSUMEs of the modules, and nothing
else: finite sets of any size, any amounts, limits and maps, any subset of the
faults.  Three of them say how the bounded modules count: requests of the browser
are numbered up to `MaxCalls` and a budget allows no more than that
(`ConsoleAssumption`, `SessionAssumption`); the ids of a table are 1 to some n, as
a serial column gives them (`ConsoleAssumption`).  TLC evaluates all of them.

* `TotalsProofs`: a total is natural; it depends only on the values in its set;
  changing one value, or adding to it, changes the total by the difference; the
  total of zeros is zero; a total of greater values is greater.  These rest on
  `FiniteSetTheorems` and carry the arithmetic of the modules below.

* `SettlementProofs`, for any requests, users, keys, prices and faults:
  * `TypeCorrect` (`TypeOK`) and `ConservationHolds` (`Conservation`).
    Conservation is not inductive: nothing in it says that a request about to
    settle has no log row, that `released` and `success` exclude each other
    there, or when `fault` may be set.  `Shape` says that, and
    `TypeOK /\ Shape /\ Conservation` is inductive.  The proof has one lemma for
    each action: those that do not move money leave `Owed` and `OverRefund` of
    all requests alone; the three that do (`Reserve`, `Release`, `Settle`) change
    the two of one request, and the totals by the same difference as `used`.
  * `TokenBalanceHolds` (`TokenBalance`), `RewardsBalanceHolds`
    (`RewardsBalance`): both are sums over the requests that belong to one key or
    one inviter (`Family`), of which a step of the settlement changes one member.
    `TokenBalance` says that `remain_quota` is what the owner last wrote into it
    less the prices logged since; his edit takes all of the key's requests out of
    the sum at once.
  * `OverdraftIsBounded` (`OverdraftBound`).  The bound does not survive the step
    that reserves, which looks at a balance read before: `Bounded` counts a
    request's estimate from the moment it has been told that it may reserve
    (`Pending`).  Then reading is the step that needs an argument: what the reader
    does not see is what the *other* requests in flight intend, at most
    `ConcurrencyLimit - 1` estimates (`InFlightBound`).
  * `TokenOverdraftIsBounded` (`TokenOverdraftBound`), by the same argument with
    `Due`, which lasts longer: `remain_quota` is compared before the reservation
    and paid from only at the settlement.  What a request is told loses its force
    when the owner writes another figure in between; such requests are due nothing
    and may cost the key their whole price (`Unbacked`), which the bound says.

* `LedgerProofs`: `SettlementKeepsTheBook` (`ImplementsLedger`).  Initial states
  map to an empty book, and every step to one entry or to a stutter.  Its one
  hypothesis, that no acknowledgement is lost, is the one under which the run
  checks it, and cannot go: it gives `FailedIsUnlogged`, without which the
  fallback refunds what has been billed.

* `TopupProofs`: `TypeCorrect`, `RedeemBounded` (`RedeemBound`), `CreditedAtMostOnce` (`CreditedOnce`), `SuccessIsCredited`
  (`SuccessMeansCredit`).  `RedeemBound` counts, for one code, the payments and the
  calls between their read and their UPDATE; it is inductive with the fact that a
  code that has paid is not "unused" (`RedeemInv`), so nobody joins them after the
  first payment, and a payment only turns one of the latter into one of the former.
  The last two are inductive together with `OrderShape`:
  a PENDING order has no credit, and a call works on an order that exists.  The
  heart is `CompleteTx`: the status read under the lock is the only thing that
  stands between a repeated report and a second credit.

* `AccountPoolProofs`, for any requests, accounts, sessions, priorities, limits,
  minutes and faults.  What a request has at each place of its handler (`Routed`:
  an account while it is tried, a route while it is used, a lease of that route's
  account and no other) is proved first, one lemma for each action, and is all
  that the counting needs to know of the control flow:
  * `PoolTypes` (`TypeOK`); the counters are integers there, since Redis would
    count below zero.
  * `CounterAlwaysBalances` (`CounterBalance`) and `LeasesWithinLimit`
    (`LeaseBound`) are inductive together: a lease is granted when the
    counter, as INCR returns it, is within the limit, and the counter is at least
    the leases held.
  * `MinutesWithinLimit` (`RPMBound`) by `MinuteBalance`: what was granted in a
    minute and what is yet to be taken back *of that minute* is counted there; a
    request takes back from the minute it counted in (`stamp`), however late.
  * `NeverSentTwice` (`SentOnce`) by `Fresh`: before the handler ends, every
    account that a request was sent to is excluded or the one it reads from, and
    what is tried or used is not excluded.

* `RateLimitsProofs`: `TypeCorrect` (`TypeOK`), `CounterBalanced`
  (`CounterBalance`), `WindowsBounded` (`WindowBound`), `ServingBounded`
  (`ServingBound`), `KeysShieldUsers` (`KeyShieldsUser`).  That a counter never
  goes below zero follows only from its balance, and the balance is kept only
  because a request cannot take a slot twice: `TypeOK`, `SlotsInOrder` and
  `CounterBalance` are inductive together.  `WindowBound` needs that what was
  admitted was counted first (`GrantedWasCounted`); `ServingBound` needs that no
  request gets past a limited concurrency counter without a slot or an error
  (`PassedHolds`) and that the balance leaves no room for one slot too many
  (`SlotsBounded`).  `KeyShieldsUser` allows a request that has passed its key
  its amount before it has been counted, and so would allow a second count:
  `UserCounted` charges it only when it is `Through` that counter.

* `ConsolePagesProofs`, for tables of any size, any number of requests, faults,
  changes elsewhere and moves.  The pages have some seventy handlers; each step
  is of one of ten kinds (`Step`: a list's, a dialog's, asking, answering,
  serving, refusing, leaving, returning, and two of the top-up page), the
  invariants are proved for the kinds, and `NextSteps` classifies every handler
  of every page.  Inductive is `Inv`, which is the types with
  `Submitting`, `BusyMeansAwaited` and `ClicksUndoNothing`:
  * `ConsoleTypes` (`TypeOK`); requests have numbers of their own, lists know no
    effect that has not happened, a page that was left has nothing open.
  * `OneSubmissionHolds` (`OneSubmission`) and `SecretIsReadHolds`
    (`SecretIsRead`): while a secret is shown nothing is being submitted
    (`Submitting`), since it covers the dialogs, so no answer can replace it.
  * `BusyMeansAwaitedHolds` (`BusyMeansAwaited`).
  * `ClicksUndoNothingHolds` (`ClicksUndoNothing`) and
    `OnlySwitchErasesNotesHolds` (`OnlySwitchErasesNotes`) by `Intent`: which
    fields a request sends and where their values came from, by the button it was
    sent with, kept through every step until the request is served.

* `AccountPagesProofs`, for every set of users and every `Budgets`, so for any
  number of requests, codes, tabs and faults:
  * `LoginLoopFree` (`NoLoginLoop`).  The bound of two is not inductive: what
    counts is whether the hook remembers a failure that has not been paid for
    (`Strike`).  `LoginInv` says `bounced + Strike(self) <= 2 * failed`, that a
    guarded route never renders a remembered failure, and that a user who is
    loading has his request under way.  A failed load pays for two: one bounce at
    once and the failure remembered; a mount spends the latter and starts a new
    load (`MountLogin`).
  * `LatestCodeCorrect` (`LatestCodeWorks`), about the code *stored* last: a mail
    that fails or is overtaken leaves another code as the newest of the mailbox
    (section 7).  `CodeInv` extends the property to handlers between the check and the deletion: what they are about to delete is
    the last code, or the last code is already accounted for.
  * `BonusCorrect` (`BonusOnce`).  `BonusInv`: at most one handler has created the
    account and not granted its bonuses yet; the unique key makes it so.
  * `AccountPageTypes` (`TypeOK`), `CallbackErrorCorrect` (`CallbackErrorIsFinal`)
    and `ShownUserCorrect` (`ShownIsSignedIn`) from `PagesInv`, which is inductive
    together with `LoginInv` and `HandlersInv`.  `Counted` keeps the numbers of
    codes and sessions below the number of requests; `HereInv` says which handlers
    a mounted page can have under way, and how many, so that an exchange and its
    failure cannot both be there; `ShownInv` follows the user from the session
    through the load to what is shown.

  `BonusOnce` and `LatestCodeWorks` rest on `HandlersCorrect` (what a handler's
  state says about its request) and on `SessionKept`: whatever else happens, the
  handlers that the server is busy with stay as they are or lose their page
  together.

Only model-checked: what must eventually happen, all of it under fairness
(`AnswerIsSettled`, `PaidIsCredited`, `FailoverEnds`, `AckedIsShown`, `SpinnerEnds`,
`CodeCanBeResent`).  The step from fairness to progress needs ENABLED, which is
out of this prover's reach, and to repeat it along a request's way needs an
induction whose theorems the installed provers cannot instantiate.  The
four violations are TLC's counterexamples; there is nothing to prove in them.

## 6. What is left out

Inside the modules above: the rounding of prices (each UPDATE rounds by itself);
choice by weight among accounts of equal priority (any candidate may be drawn);
creation and deletion of accounts while requests run; a lease held for more than
the six hours after which its counter expires; failing reads of accounts and
failing writes of their status; the skew of clocks between replicas; the signing
and verification of Alipay's messages (a report is genuine); text and listings;
the validation of fields; the clipboard and the CSV export; SWR's revalidation
when the browser is online again.

Writers of the same tables that are left out: an administrator who sets
`users.quota` to a figure (admin.go:232-239), which the settlement never writes but
compares with (`OverdraftBound` is about a quota that only grows); the deletion of
keys and of users while their requests run.

Not modelled on the server: EnsureAdmin on several replicas; the whole-row Save
of the GitHub callback, which races with settlement; concurrent probes of an
upstream and racing refreshes of an authorisation; rounding; usage parsing.  Not
modelled in the browser: the answers that `resolveDemoRequest` gives to a demo
session without a server; pages that only read, and marketing pages.

Whole components: see the table of components in `PROJECT.json`, which gives the
reason for each.

## 7. Observations

What the modelling showed beside the findings of `PROJECT.json`.  Where a property
is concerned, it states the exception.

* A user whose session had expired and who signs in again may be sent back to
  the login page once more: SWR remembers the failed load, and the first render
  of the dashboard sees it (`NoLoginLoop` allows two for each failure).
* A sign-in while the user of the session before is cached or loading shows that
  user until the new answer; if another tab replaced the session, until the next
  load (`ShownIsSignedIn`).
* The switch of an upstream sends three fields; the server writes tags and note
  as well, empty (`OnlySwitchErasesNotes`, ChannelsPage.tsx:103).  A form that was
  opened while the list still showed them empty writes them back empty too, over
  what somebody else entered meanwhile.  That second way is four steps long and
  was found by the proof: the property used to name the switch alone, and two
  requests are not enough for TLC to meet the other.
* The switches of models and of upstreams send more of the row than the status,
  as it was rendered: a price changed meanwhile is put back
  (`ClicksUndoNothing`).
* Before the settings have arrived, the page shows demo settings in forms that
  can be saved, although the demo rows are there only to render a page "before
  the backend is wired up" (SystemSettingsPage.tsx:57-60, lib/mock.ts:1).
* An order created before the list of orders arrives leaves the list with that
  order alone, since `mutate(f, false)` drops the request for the list.
* A flag holds one id: two rows' checks at a time release each other's button
  (the comment at `BusyMeansAwaited`).
* The page of forgotten passwords does not disable its button while a code is
  being sent, so several intervals may count down at once (`TypeOK` excepts it).
* Signing out never tells the server; the session lives until it expires.
* SWR sends nothing for a key that was answered less than two seconds ago.  A user
  who filters a list, acts on a row and drops the filter within that time is shown
  the list from before his action, and it stays (`AckedIsShown` excepts it, by
  `joined`).  The same holds when a handler returns after the filter was changed:
  its `mutate()` concerns a list that is not shown any more.
* A code is stored before it is mailed, and a failing mailer is not reported.  A
  resend whose mail fails, or two mails that arrive in the other order, leave the
  newest code of the mailbox refused though it is unused and fresh.  A
  registration that fails after `verifyEmailCode` has used its code up, too.
* The callback page of GitHub shows an error also without any exchange, when GitHub
  sent an error or no code.
* An owner's edit of a key overwrites `remain_quota`, as it was shown to him if he
  did not touch it: prices logged between the rendering of the form and its saving
  are given back (`ClicksUndoNothing` excepts what forms write; `TokenBalance`
  starts anew from the figure written).
* Auditing "never fails the business operation" (audit/audit.go:29-30), but it is
  called inside the transactions of credits: on PostgreSQL a failed INSERT aborts
  the transaction, and the COMMIT after it rolls the credit back.  `Topup` follows
  PostgreSQL: a credit and its audit row stand or fall together.
* A request may wait for an upstream that accepts a connection and then says
  nothing for as long as the client does: the relay's HTTP client has no timeout
  for the dial, the handshake and the writing of the request.

## 8. Plan

Done: Settlement, Topup, AccountPool, RateLimits, the pages, sessions and codes.

1. Proofs: done for every invariant and action property of the passing runs.
   New invariants of what follows get theirs with the model.
2. `UpstreamHealth`: checkUpstream and its failure count, model sync, OAuth
   states and refreshes on the server.
3. Pure algorithms: prices and rounding, usage from event streams, key and model
   permissions, as operators checked against reference definitions.
