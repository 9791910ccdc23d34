--------------------------- MODULE AccountPoolProofs ---------------------------
(***************************************************************************)
(* Theorems about AccountPool, for any requests, accounts, sessions,       *)
(* priorities and limits, any number of minutes and any faults.            *)
(*                                                                         *)
(* Every request's step leaves the other requests where they are, so what  *)
(* a request may hold at each place of its handler is proved first         *)
(* (Routed); the three counting arguments then look only at what the step  *)
(* does to the request that takes it.                                      *)
(***************************************************************************)
EXTENDS AccountPool, FiniteSetTheorems, TLAPS

-------------------------------------------------------------------------------
(* What a request may hold at each place                                    *)

Trying == {"rpm", "undoRpm", "conc", "undoConc"}

\* The places behind a selection, up to the health of the account.
Having == {"resolved", "forward", "body", "cool", "switch", "health"}

\* An account is tried only between its search and its reservation; a route has
\* an account wherever it is used; the lease is one of the account in use.
Places ==
    \A r \in Request :
        /\ pc[r] \in Trying <=> trial[r].acct # None
        /\ pc[r] \in Having => route[r].acct # None
        /\ route[r].lease # None =>
             /\ pc[r] \in Having \cup {"release"}
             /\ route[r].lease = route[r].acct

Routed == TypeOK /\ Places

\* The others stay where they are.
Alone(r) ==
    \A q \in Request \ {r} :
        /\ pc'[q] = pc[q] /\ trial'[q] = trial[q]
        /\ route'[q] = route[q] /\ sent'[q] = sent[q]

TrialType == [acct : Account \cup {None}, from : Searches,
              seen : {"online", "degraded"}, stamp : 0 .. LastMinute]

RouteType == [acct : Account \cup {None}, snap : {"online", "degraded"},
              lease : Account \cup {None}, excluded : SUBSET Account,
              verdict : Verdicts]

\* The part of Routed that is about one request.
RequestOK(r) ==
    /\ pc[r] \in PC
    /\ trial[r] \in TrialType
    /\ route[r] \in RouteType
    /\ sent[r] \in [Account -> Nat]
    /\ pc[r] \in Trying <=> trial[r].acct # None
    /\ pc[r] \in Having => route[r].acct # None
    /\ route[r].lease # None =>
         /\ pc[r] \in Having \cup {"release"}
         /\ route[r].lease = route[r].acct

\* The part that is about what requests share.
SharedOK ==
    /\ status \in [Account -> Statuses]
    /\ cooling \in [Account -> BOOLEAN]
    /\ conc \in [Account -> Int]
    /\ rpm \in [Account -> [0 .. LastMinute -> Int]]
    /\ granted \in [Account -> [0 .. LastMinute -> Nat]]
    /\ sticky \in [Session -> Account \cup {None}]
    /\ minute \in 0 .. LastMinute
    /\ leaked \in [Account -> Nat]

\* The handlers' variables are tables by request.
Tables ==
    /\ DOMAIN pc = Request /\ pc = [r \in Request |-> pc[r]]
    /\ DOMAIN trial = Request /\ trial = [r \in Request |-> trial[r]]
    /\ DOMAIN route = Request /\ route = [r \in Request |-> route[r]]
    /\ DOMAIN sent = Request /\ sent = [r \in Request |-> sent[r]]

LEMMA RoutedParts == Routed => SharedOK /\ Tables /\ \A r \in Request : RequestOK(r)
BY DEF Routed, TypeOK, Places, SharedOK, Tables, RequestOK, TrialType, RouteType

-------------------------------------------------------------------------------
(* The steps of a request touch nobody else's variables                     *)

\* All steps of request r.
RequestStep(r) ==
    \/ Begin(r) \/ Selecting(r) \/ Routing(r) \/ Upstream(r) \/ Closing(r) \/ Kill(r)

\* r may move, and each of its variables may change.
Moved(r) ==
    /\ \E v : pc' = [pc EXCEPT ![r] = v]
    /\ trial' = trial \/ \E v : trial' = [trial EXCEPT ![r] = v]
    /\ route' = route \/ \E v : route' = [route EXCEPT ![r] = v]
    /\ sent' = sent \/ \E v : sent' = [sent EXCEPT ![r] = v]

LEMMA MovedAlone ==
  ASSUME Tables, NEW r \in Request, Moved(r)
  PROVE  Tables' /\ Alone(r)
BY DEF Tables, Moved, Alone

LEMMA SearchMoves ==
  ASSUME NEW r \in Request, SearchSticky(r) \/ SearchByStatus(r) \/ SearchError(r)
  PROVE  Moved(r)
<1>1. ASSUME NEW w, NEW a, Try(r, w, a) PROVE \E v : pc' = [pc EXCEPT ![r] = v]
  BY <1>1 DEF Try, Goto
<1>2. ASSUME NEW w, NEW a, Try(r, w, a)
      PROVE  trial' = trial \/ \E v : trial' = [trial EXCEPT ![r] = v]
  BY <1>2 DEF Try
<1>3. ASSUME NEW w, NextSearch(r, w), w \in {"online", "degraded"}
      PROVE \E v : pc' = [pc EXCEPT ![r] = v]
  BY <1>3 DEF NextSearch, NoAccount, Goto
<1>4. route' = route /\ sent' = sent
  BY DEF SearchSticky, SearchByStatus, SearchError
<1>5. CASE SearchSticky(r)
  BY <1>1, <1>2, <1>4, <1>5 DEF SearchSticky, Goto, Moved
<1>6. CASE SearchByStatus(r)
  BY <1>1, <1>2, <1>3, <1>4, <1>6 DEF SearchByStatus, Moved
<1>7. CASE SearchError(r)
  BY <1>1, <1>2, <1>4, <1>7 DEF SearchError, Goto, Moved
<1> QED
  BY <1>5, <1>6, <1>7

LEMMA ReserveMoves ==
  ASSUME NEW r \in Request, trial[r].from \in Searches,
         \/ ReserveRPM(r) \/ UndoRPM(r) \/ ReserveConcurrency(r)
         \/ UndoConcurrency(r) \/ ReserveError(r) \/ UndoError(r)
  PROVE  Moved(r)
<1>1. ASSUME NEW w, Goto(r, w) PROVE \E v : pc' = [pc EXCEPT ![r] = v]
  BY <1>1 DEF Goto
<1>2. ASSUME NEW l, Selected(r, l) PROVE Moved(r) \/ sent' # sent
  BY <1>2 DEF Selected, Moved, Goto
<1>3. ASSUME Dropped(r), route' = route, sent' = sent PROVE Moved(r)
  BY <1>3 DEF Dropped, NextSearch, NoAccount, Goto, Moved, Searches
<1>4. CASE ReserveRPM(r)
  BY <1>1, <1>4 DEF ReserveRPM, Moved
<1>5. CASE UndoRPM(r) \/ UndoConcurrency(r) \/ UndoError(r)
  BY <1>3, <1>5 DEF UndoRPM, UndoConcurrency, UndoError
<1>6. CASE ReserveConcurrency(r)
  BY <1>1, <1>2, <1>6 DEF ReserveConcurrency, Moved
<1>7. CASE ReserveError(r)
  BY <1>1, <1>2, <1>7 DEF ReserveError, Moved
<1> QED
  BY <1>4, <1>5, <1>6, <1>7

LEMMA ForwardMoves ==
  ASSUME NEW r \in Request, Begin(r) \/ Routing(r) \/ Upstream(r) \/ Closing(r) \/ Kill(r)
  PROVE  Moved(r)
<1>1. ASSUME End(r) PROVE Moved(r)
  BY <1>1 DEF End, Goto, Moved
<1>2. CASE Begin(r)
  BY <1>2 DEF Begin, Goto, Moved
<1>3. CASE Routing(r) \/ Kill(r)
  BY <1>1, <1>3 DEF Routing, Forbidden, Refuse, Proceed, Kill, Abandon, Goto, Moved
<1>4. CASE Headers(r)
  BY <1>4 DEF Headers, Send, Goto, Moved
<1>5. ASSUME NEW v \in Verdicts, Finish(r, v) PROVE Moved(r)
  BY <1>5 DEF Finish, Send, Goto, Moved
<1>6. ASSUME NEW v \in Verdicts, Fail(r, v) PROVE Moved(r)
  BY <1>6 DEF Fail, Send, Goto, Moved
<1>7. CASE CoolDown(r) \/ UpdateHealth(r)
  BY <1>7 DEF CoolDown, UpdateHealth, Goto, Moved
<1>8. CASE Release(r) \/ ReleaseError(r)
  BY <1>1, <1>8 DEF Release, ReleaseError, AfterRelease, Goto, Moved
<1> QED
  BY <1>2, <1>3, <1>4, <1>5, <1>6, <1>7, <1>8 DEF Upstream, Closing

LEMMA StepMoves ==
  ASSUME Routed, NEW r \in Request, RequestStep(r)
  PROVE  Tables' /\ Alone(r)
<1>1. Tables /\ trial[r].from \in Searches
  BY RoutedParts DEF RequestOK, TrialType
<1>2. Moved(r)
  BY <1>1, SearchMoves, ReserveMoves, ForwardMoves DEF RequestStep, Selecting
<1> QED
  BY <1>1, <1>2, MovedAlone

\* What is left to show of a request's step.
LEMMA RoutedStep ==
  ASSUME Routed, NEW r \in Request, RequestStep(r), RequestOK(r)', SharedOK'
  PROVE  Routed'
<1>1. Tables' /\ Alone(r)
  BY StepMoves
<1>2. \A q \in Request \ {r} : RequestOK(q)'
  BY <1>1, RoutedParts DEF Alone, RequestOK
<1>3. \A q \in Request : RequestOK(q)'
  BY <1>2
<1>4. /\ pc' \in [Request -> PC] /\ trial' \in [Request -> TrialType]
      /\ route' \in [Request -> RouteType] /\ sent' \in [Request -> [Account -> Nat]]
  BY <1>1, <1>3 DEF Tables, RequestOK
<1>5. TypeOK'
  BY <1>4 DEF SharedOK, TypeOK, TrialType, RouteType
<1>6. Places'
  BY <1>3 DEF Places, RequestOK
<1> QED
  BY <1>5, <1>6 DEF Routed

-------------------------------------------------------------------------------
(* The searches                                                             *)

\* To try an account is to have one and to wait for its counters.
LEMMA TryRouted ==
  ASSUME Routed, NEW r \in Request, NEW w \in Searches, NEW a \in Account,
         status[a] \in {"online", "degraded"}, Try(r, w, a), pc[r] \in Searches,
         UNCHANGED <<route, sent>>
  PROVE  RequestOK(r)'
<1>1. RequestOK(r) /\ Tables /\ minute \in 0 .. LastMinute
  BY RoutedParts DEF SharedOK
<1>2. pc'[r] = "rpm" /\ trial'[r] = [acct |-> a, from |-> w, seen |-> status[a], stamp |-> minute]
  BY <1>1 DEF Try, Goto, Tables
<1>3. trial'[r] \in TrialType /\ trial'[r].acct = a /\ a # None
  BY <1>1, <1>2, PoolAssumption DEF TrialType
<1>4. route[r].lease = None
  BY <1>1 DEF RequestOK, Searches, Having
<1> QED
  BY <1>1, <1>2, <1>3, <1>4 DEF RequestOK, PC, Trying, Having

\* A search without an account: r goes on searching, or gives up with no lease.
LEMMA NoneRouted ==
  ASSUME Routed, NEW r \in Request, NEW w \in Searches, NextSearch(r, w),
         trial'[r] \in TrialType, trial'[r].acct = None, pc[r] \in Searches \cup Trying,
         UNCHANGED <<route, sent>>
  PROVE  /\ RequestOK(r)'
         /\ pc'[r] \in {"online", "degraded", "release", "health"}
         /\ pc'[r] = "health" => route[r].acct # None
<1>1. RequestOK(r) /\ Tables
  BY RoutedParts
<1>2. pc'[r] \in {"online", "degraded", "release", "health"}
  BY <1>1 DEF NextSearch, NoAccount, Goto, Searches, Tables
<1>3. pc'[r] = "health" => route[r].acct # None
  BY <1>1 DEF NextSearch, NoAccount, Goto, Searches, Tables
<1>4. route[r].lease = None
  BY <1>1 DEF RequestOK, Searches, Trying, Having
<1> QED
  BY <1>1, <1>2, <1>3, <1>4 DEF RequestOK, PC, Trying, Having

LEMMA ForgetOK ==
  ASSUME Routed, NEW r \in Request, Forget(r) \/ UNCHANGED sticky
  PROVE  sticky' \in [Session -> Account \cup {None}]
BY PoolAssumption, RoutedParts DEF Forget, SharedOK

LEMMA SearchRouted ==
  ASSUME Routed, NEW r \in Request, SearchSticky(r) \/ SearchByStatus(r) \/ SearchError(r)
  PROVE  Routed'
<1>1. RequestOK(r) /\ Tables /\ SharedOK
  BY RoutedParts
<1>2. UNCHANGED <<status, cooling, conc, rpm, granted, leaked, minute, route, sent>>
  BY DEF SearchSticky, SearchByStatus, SearchError, redis
<1>3. pc[r] \in Searches
  BY DEF SearchSticky, SearchByStatus, SearchError, Searches
<1>4. SharedOK'
  <2>1. sticky' \in [Session -> Account \cup {None}]
    BY ForgetOK DEF SearchSticky, SearchByStatus, SearchError, redis
  <2> QED
    BY <1>1, <1>2, <2>1 DEF SharedOK
<1>5. \/ \E w \in Searches, a \in Account :
           status[a] \in {"online", "degraded"} /\ Try(r, w, a)
      \/ \E w \in Searches : NextSearch(r, w) /\ UNCHANGED trial
  <2>1. CASE SearchSticky(r)
    <3>1. StickyFor(r) \subseteq {a \in Account : status[a] \in {"online", "degraded"}}
      BY DEF StickyFor, Serves
    <3>2. Goto(r, "online") => NextSearch(r, "sticky")
      BY DEF NextSearch
    <3> QED
      BY <2>1, <3>1, <3>2 DEF SearchSticky, Searches
  <2>2. ASSUME pc[r] \in {"online", "degraded"}
        PROVE  /\ Eligible(r, pc[r]) \subseteq
                    {a \in Account : status[a] \in {"online", "degraded"}}
               /\ Candidates(r, pc[r]) \subseteq Eligible(r, pc[r])
    BY <2>2 DEF Candidates, Eligible, Preferred
  <2>3. CASE SearchByStatus(r)
    BY <2>2, <2>3 DEF SearchByStatus, Searches
  <2>4. CASE SearchError(r)
    <3>1. Goto(r, "online") => NextSearch(r, "sticky")
      BY DEF NextSearch
    <3> QED
      BY <2>2, <2>4, <3>1 DEF SearchError, Searches
  <2> QED
    BY <2>1, <2>3, <2>4
<1>6. RequestOK(r)'
  <2>1. CASE \E w \in Searches, a \in Account :
               status[a] \in {"online", "degraded"} /\ Try(r, w, a)
    BY <2>1, <1>2, <1>3, TryRouted
  <2>2. CASE \E w \in Searches : NextSearch(r, w) /\ UNCHANGED trial
    <3>1. trial'[r] \in TrialType /\ trial'[r].acct = None
      BY <2>2, <1>1, <1>3 DEF RequestOK, Searches, Trying
    <3> QED
      BY <2>2, <3>1, <1>2, <1>3, NoneRouted
  <2> QED
    BY <1>5, <2>1, <2>2
<1> QED
  BY <1>4, <1>6, RoutedStep DEF RequestStep, Selecting

-------------------------------------------------------------------------------
(* The reservation                                                          *)

\* Adding to the counter of one account and minute.
LEMMA MinuteEntry ==
  ASSUME NEW S, NEW F \in [Account -> [0 .. LastMinute -> S]], NEW a \in Account,
         NEW m \in 0 .. LastMinute, NEW n \in S
  PROVE  /\ [F EXCEPT ![a][m] = n] \in [Account -> [0 .. LastMinute -> S]]
         /\ [F EXCEPT ![a][m] = n][a][m] = n
         /\ \A b \in Account, k \in 0 .. LastMinute :
              b # a \/ k # m => [F EXCEPT ![a][m] = n][b][k] = F[b][k]
<1> DEFINE G == [F EXCEPT ![a][m] = n]
           R == [F[a] EXCEPT ![m] = n]
<1>1. R \in [0 .. LastMinute -> S] /\ R[m] = n
      /\ \A k \in 0 .. LastMinute : k # m => R[k] = F[a][k]
  OBVIOUS
<1>2. G = [F EXCEPT ![a] = R]
  OBVIOUS
<1>3. /\ G \in [Account -> [0 .. LastMinute -> S]] /\ G[a][m] = n
      /\ \A b \in Account, k \in 0 .. LastMinute : b # a \/ k # m => G[b][k] = F[b][k]
  <2> HIDE DEF R, G
  <2> QED
    BY <1>1, <1>2
<1> QED
  BY <1>3

\* Who tries an account.
LEMMA TryingOne ==
  ASSUME Routed, NEW r \in Request, pc[r] \in Trying
  PROVE  /\ Reserving(r) \in Account /\ trial[r].acct = Reserving(r)
         /\ trial[r].from \in Searches /\ trial[r].seen \in {"online", "degraded"}
         /\ trial[r].stamp \in 0 .. LastMinute /\ minute \in 0 .. LastMinute
         /\ route[r].lease = None
         /\ rpm[Reserving(r)][minute] \in Int /\ granted[Reserving(r)][minute] \in Nat
         /\ rpm[Reserving(r)][trial[r].stamp] \in Int
         /\ conc[Reserving(r)] \in Int /\ leaked[Reserving(r)] \in Nat
<1>1. RequestOK(r) /\ SharedOK
  BY RoutedParts
<1>2. /\ Reserving(r) \in Account /\ trial[r].acct = Reserving(r)
      /\ trial[r].from \in Searches /\ trial[r].seen \in {"online", "degraded"}
      /\ trial[r].stamp \in 0 .. LastMinute
  BY <1>1 DEF RequestOK, Reserving, TrialType
<1>3. route[r].lease = None
  BY <1>1 DEF RequestOK, Trying, Having
<1> QED
  BY <1>1, <1>2, <1>3 DEF SharedOK

LEMMA ReserveRPMRouted ==
  ASSUME Routed, NEW r \in Request, ReserveRPM(r)
  PROVE  Routed'
<1> DEFINE a == Reserving(r)
<1>1. pc[r] = "rpm" /\ pc[r] \in Trying
  BY DEF ReserveRPM, Trying
<1>2. RequestOK(r) /\ Tables /\ SharedOK
  BY RoutedParts
<1>3. a \in Account /\ minute \in 0 .. LastMinute
      /\ rpm[a][minute] + 1 \in Int /\ granted[a][minute] + 1 \in Nat
  BY <1>1, TryingOne
<1>4. UNCHANGED <<status, cooling, conc, sticky, leaked, minute, route, sent>>
  BY DEF ReserveRPM
<1>5. /\ rpm' = rpm \/ rpm' = [rpm EXCEPT ![a][minute] = rpm[a][minute] + 1]
      /\ granted' = granted \/ granted' = [granted EXCEPT ![a][minute] = granted[a][minute] + 1]
  BY DEF ReserveRPM
<1> HIDE DEF a
<1>6. rpm' \in [Account -> [0 .. LastMinute -> Int]]
  <2>1. rpm \in [Account -> [0 .. LastMinute -> Int]]
    BY <1>2 DEF SharedOK
  <2>2. [rpm EXCEPT ![a][minute] = rpm[a][minute] + 1] \in [Account -> [0 .. LastMinute -> Int]]
    BY <1>3, <2>1, MinuteEntry
  <2> QED
    BY <1>5, <2>1, <2>2
<1>7. granted' \in [Account -> [0 .. LastMinute -> Nat]]
  <2>1. granted \in [Account -> [0 .. LastMinute -> Nat]]
    BY <1>2 DEF SharedOK
  <2>2. [granted EXCEPT ![a][minute] = granted[a][minute] + 1]
          \in [Account -> [0 .. LastMinute -> Nat]]
    BY <1>3, <2>1, MinuteEntry
  <2> QED
    BY <1>5, <2>1, <2>2
<1>8. SharedOK'
  BY <1>2, <1>4, <1>6, <1>7 DEF SharedOK
<1>9. pc'[r] \in {"conc", "undoRpm"}
  BY <1>2 DEF ReserveRPM, Goto, Tables
<1>10. trial'[r] \in TrialType /\ trial'[r].acct = trial[r].acct
  <2>1. trial' = trial \/ trial' = [trial EXCEPT ![r].stamp = minute]
    BY DEF ReserveRPM
  <2>2. trial'[r] = trial[r] \/ trial'[r] = [trial[r] EXCEPT !.stamp = minute]
    BY <2>1, <1>2 DEF Tables
  <2> QED
    BY <2>2, <1>2, <1>3 DEF RequestOK, TrialType
<1>11. RequestOK(r)'
  BY <1>1, <1>2, <1>4, <1>9, <1>10, TryingOne DEF RequestOK, PC, Trying, Having
<1> QED
  BY <1>8, <1>11, RoutedStep DEF RequestStep, Selecting

\* The end of a reservation that fails.
LEMMA DroppedRouted ==
  ASSUME Routed, NEW r \in Request, pc[r] \in Trying, Dropped(r), UNCHANGED <<route, sent>>
  PROVE  /\ RequestOK(r)'
         /\ pc'[r] \in {"online", "degraded", "release", "health"}
         /\ trial'[r].acct = None
<1>1. RequestOK(r) /\ Tables
  BY RoutedParts
<1>2. trial'[r] = NoTrial
  BY <1>1 DEF Dropped, Tables
<1>3. trial'[r] \in TrialType /\ trial'[r].acct = None
  BY <1>2, PoolAssumption DEF NoTrial, TrialType, Searches
<1>4. trial[r].from \in Searches
  BY <1>1 DEF RequestOK, TrialType
<1> QED
  BY <1>3, <1>4, NoneRouted DEF Dropped

LEMMA UndoRouted ==
  ASSUME Routed, NEW r \in Request, UndoRPM(r) \/ UndoConcurrency(r) \/ UndoError(r)
  PROVE  Routed'
<1> DEFINE a == Reserving(r)
           m == trial[r].stamp
<1>1. pc[r] \in Trying
  BY DEF UndoRPM, UndoConcurrency, UndoError, Trying
<1>2. Dropped(r) /\ UNCHANGED <<status, cooling, granted, sticky, minute, route, sent>>
  BY DEF UndoRPM, UndoConcurrency, UndoError
<1>3. RequestOK(r)'
  BY <1>1, <1>2, DroppedRouted
<1>4. /\ a \in Account /\ m \in 0 .. LastMinute
      /\ rpm[a][m] - 1 \in Int /\ conc[a] - 1 \in Int /\ leaked[a] + 1 \in Nat
  BY <1>1, TryingOne
<1>5. /\ rpm' = rpm \/ rpm' = [rpm EXCEPT ![a][m] = rpm[a][m] - 1]
      /\ conc' = conc \/ conc' = [conc EXCEPT ![a] = conc[a] - 1]
      /\ leaked' = leaked \/ leaked' = [leaked EXCEPT ![a] = leaked[a] + 1]
  BY DEF UndoRPM, UndoConcurrency, UndoError
<1> HIDE DEF a, m
<1>6. SharedOK
  BY RoutedParts
<1>7. rpm' \in [Account -> [0 .. LastMinute -> Int]]
  <2>1. rpm \in [Account -> [0 .. LastMinute -> Int]]
    BY <1>6 DEF SharedOK
  <2>2. [rpm EXCEPT ![a][m] = rpm[a][m] - 1] \in [Account -> [0 .. LastMinute -> Int]]
    BY <1>4, <2>1, MinuteEntry
  <2> QED
    BY <1>5, <2>1, <2>2
<1>8. conc' \in [Account -> Int] /\ leaked' \in [Account -> Nat]
  BY <1>4, <1>5, <1>6 DEF SharedOK
<1>9. SharedOK'
  BY <1>2, <1>6, <1>7, <1>8 DEF SharedOK
<1> QED
  BY <1>3, <1>9, RoutedStep DEF RequestStep, Selecting

\* What a selection makes of r.
LEMMA SelectedRoute ==
  ASSUME Routed, NEW r \in Request, pc[r] \in Trying, NEW l, Selected(r, l)
  PROVE  /\ pc'[r] \in {"resolved", "forward"} /\ trial'[r] = NoTrial
         /\ route'[r].acct = Reserving(r) /\ route'[r].snap = trial[r].seen
         /\ route'[r].lease = l /\ route'[r].excluded = route[r].excluded
         /\ route'[r].verdict = route[r].verdict
         /\ l \in Account \cup {None} => route'[r] \in RouteType
<1>1. RequestOK(r) /\ Tables
  BY RoutedParts
<1>2. /\ Reserving(r) \in Account /\ trial[r].seen \in {"online", "degraded"}
  BY TryingOne
<1>3. pc'[r] \in {"resolved", "forward"} /\ trial'[r] = NoTrial
  BY <1>1 DEF Selected, Goto, Tables
<1>4. route'[r] = [route[r] EXCEPT !.acct = Reserving(r), !.snap = trial[r].seen, !.lease = l]
  BY <1>1 DEF Selected, Tables
<1>5. route[r] \in RouteType
  BY <1>1 DEF RequestOK
<1> QED
  BY <1>2, <1>3, <1>4, <1>5 DEF RouteType

LEMMA SelectedRouted ==
  ASSUME Routed, NEW r \in Request, pc[r] \in Trying, NEW l \in {Reserving(r), None},
         Selected(r, l), sent' = sent
  PROVE  RequestOK(r)' /\ sticky' \in [Session -> Account \cup {None}]
<1>1. RequestOK(r) /\ SharedOK
  BY RoutedParts
<1>2. Reserving(r) \in Account
  BY TryingOne
<1>3. sticky' \in [Session -> Account \cup {None}]
  BY <1>1, <1>2, PoolAssumption DEF Selected, SharedOK
<1>4. NoTrial \in TrialType /\ NoTrial.acct = None
  BY PoolAssumption DEF NoTrial, TrialType, Searches
<1>5. Reserving(r) # None
  BY <1>2, PoolAssumption
<1>6. l \in Account \cup {None}
  BY <1>2
<1>7. /\ pc'[r] \in {"resolved", "forward"} /\ trial'[r] = NoTrial
      /\ route'[r].acct = Reserving(r) /\ route'[r].lease = l /\ route'[r] \in RouteType
  BY <1>6, SelectedRoute
<1>8. RequestOK(r)'
  BY <1>1, <1>4, <1>5, <1>7 DEF RequestOK, PC, Trying, Having
<1> QED
  BY <1>3, <1>8

\* Who takes a slot of the account, or goes on without.
LEMMA ReserveConcurrencyRouted ==
  ASSUME Routed, NEW r \in Request, ReserveConcurrency(r)
  PROVE  Routed'
<1> DEFINE a == Reserving(r)
<1>1. pc[r] = "conc" /\ pc[r] \in Trying
  BY DEF ReserveConcurrency, Trying
<1>2. RequestOK(r) /\ Tables /\ SharedOK
  BY RoutedParts
<1>3. a \in Account /\ conc[a] + 1 \in Int /\ route[r].lease = None
  BY <1>1, TryingOne
<1>4. UNCHANGED <<status, cooling, rpm, granted, leaked, minute, sent>>
  BY DEF ReserveConcurrency
<1>5. \/ Selected(r, None) /\ conc' = conc
      \/ Selected(r, a) /\ conc' = [conc EXCEPT ![a] = conc[a] + 1]
      \/ /\ conc' = [conc EXCEPT ![a] = conc[a] + 1]
         /\ Goto(r, "undoConc") /\ UNCHANGED <<trial, route, sticky>>
  BY DEF ReserveConcurrency
<1> HIDE DEF a
<1>6. conc' \in [Account -> Int]
  BY <1>2, <1>3, <1>5 DEF SharedOK
<1>7. RequestOK(r)' /\ sticky' \in [Session -> Account \cup {None}]
  <2>1. CASE Selected(r, None) \/ Selected(r, a)
    BY <1>1, <1>4, <2>1, SelectedRouted DEF a
  <2>2. CASE Goto(r, "undoConc") /\ UNCHANGED <<trial, route, sticky>>
    <3>1. pc'[r] = "undoConc"
      BY <2>2, <1>2 DEF Goto, Tables
    <3> QED
      BY <1>1, <1>2, <1>3, <1>4, <2>2, <3>1 DEF RequestOK, SharedOK, PC, Trying, Having
  <2> QED
    BY <1>5, <2>1, <2>2
<1>8. SharedOK'
  BY <1>2, <1>4, <1>6, <1>7 DEF SharedOK
<1> QED
  BY <1>7, <1>8, RoutedStep DEF RequestStep, Selecting

LEMMA ReserveErrorRouted ==
  ASSUME Routed, NEW r \in Request, ReserveError(r)
  PROVE  Routed'
<1> DEFINE a == Reserving(r)
<1>1. pc[r] \in {"rpm", "conc"} /\ pc[r] \in Trying
  BY DEF ReserveError, Trying
<1>2. RequestOK(r) /\ Tables /\ SharedOK
  BY RoutedParts
<1>3. /\ a \in Account /\ minute \in 0 .. LastMinute
      /\ conc[a] \in Int /\ leaked[a] \in Nat /\ rpm[a][minute] \in Int
  BY <1>1, TryingOne
<1>4. UNCHANGED <<status, cooling, granted, minute, sent>>
  BY DEF ReserveError
<1>5. CASE /\ pc[r] = "rpm" /\ Goto(r, "conc")
           /\ \E k \in 0 .. 1 : rpm' = [rpm EXCEPT ![a][minute] = rpm[a][minute] + k]
           /\ UNCHANGED <<conc, leaked, trial, route, sticky>>
  <2>1. PICK k \in 0 .. 1 : rpm' = [rpm EXCEPT ![a][minute] = rpm[a][minute] + k]
    BY <1>5
  <2>2. rpm \in [Account -> [0 .. LastMinute -> Int]] /\ rpm[a][minute] + k \in Int
    BY <1>2, <1>3 DEF SharedOK
  <2> HIDE DEF a
  <2>3. rpm' \in [Account -> [0 .. LastMinute -> Int]]
    BY <1>3, <2>1, <2>2, MinuteEntry
  <2>4. SharedOK'
    BY <1>2, <1>4, <1>5, <2>3 DEF SharedOK
  <2>5. pc'[r] = "conc"
    BY <1>2, <1>5 DEF Goto, Tables
  <2>6. RequestOK(r)'
    BY <1>1, <1>2, <1>4, <1>5, <2>5 DEF RequestOK, PC, Trying, Having
  <2> QED
    BY <2>4, <2>6, RoutedStep DEF RequestStep, Selecting
<1>6. CASE /\ pc[r] = "conc" /\ Selected(r, None)
           /\ \E k \in 0 .. 1 : /\ conc' = [conc EXCEPT ![a] = conc[a] + k]
                                /\ leaked' = [leaked EXCEPT ![a] = leaked[a] + k]
           /\ UNCHANGED rpm
  <2>1. RequestOK(r)' /\ sticky' \in [Session -> Account \cup {None}]
    BY <1>1, <1>4, <1>6, SelectedRouted
  <2>2. PICK k \in 0 .. 1 : /\ conc' = [conc EXCEPT ![a] = conc[a] + k]
                            /\ leaked' = [leaked EXCEPT ![a] = leaked[a] + k]
    BY <1>6
  <2>3. conc[a] + k \in Int /\ leaked[a] + k \in Nat
    BY <1>3
  <2> HIDE DEF a
  <2>4. conc' \in [Account -> Int] /\ leaked' \in [Account -> Nat]
    BY <1>2, <1>3, <2>2, <2>3 DEF SharedOK
  <2>5. SharedOK'
    BY <1>2, <1>4, <1>6, <2>1, <2>4 DEF SharedOK
  <2> QED
    BY <2>1, <2>5, RoutedStep DEF RequestStep, Selecting
<1> QED
  BY <1>5, <1>6 DEF ReserveError

-------------------------------------------------------------------------------
(* After the selection                                                      *)

\* What is left of a request that is over.
LEMMA EndRouted ==
  ASSUME Routed, NEW r \in Request, End(r)
  PROVE  /\ RequestOK(r)'
         /\ pc'[r] = "over" /\ trial'[r] = NoTrial /\ route'[r] = NoRoute /\ sent'[r] = Unsent
<1>1. Tables
  BY RoutedParts
<1>2. pc'[r] = "over" /\ trial'[r] = NoTrial /\ route'[r] = NoRoute /\ sent'[r] = Unsent
  BY <1>1 DEF End, Goto, Tables
<1>3. /\ NoTrial \in TrialType /\ NoTrial.acct = None
      /\ NoRoute \in RouteType /\ NoRoute.lease = None
      /\ Unsent \in [Account -> Nat]
  BY PoolAssumption DEF NoTrial, TrialType, Searches, NoRoute, RouteType, Verdicts, Unsent
<1> QED
  BY <1>2, <1>3 DEF RequestOK, PC, Trying, Having

\* Slots that are counted as lost stay natural numbers.
LEMMA AbandonOK ==
  ASSUME Routed, NEW r \in Request, Abandon(r)
  PROVE  leaked' \in [Account -> Nat]
BY RoutedParts DEF Abandon, SharedOK

LEMMA RoutingRouted ==
  ASSUME Routed, NEW r \in Request, Begin(r) \/ Routing(r) \/ Kill(r)
  PROVE  Routed'
<1>1. RequestOK(r) /\ Tables /\ SharedOK
  BY RoutedParts
<1>2. CASE Begin(r)
  <2>1. pc[r] = "idle" /\ pc'[r] = "sticky" /\ SharedOK'
        /\ UNCHANGED <<trial, route, sent>>
    BY <1>1, <1>2 DEF Begin, Goto, Tables, SharedOK, redis
  <2>2. RequestOK(r)'
    BY <1>1, <2>1 DEF RequestOK, PC, Trying, Having
  <2> QED
    BY <2>1, <2>2, RoutedStep, <1>2 DEF RequestStep
<1>3. CASE Forbidden(r) \/ Kill(r)
  <2>1. SharedOK'
    BY <1>1, <1>3, AbandonOK DEF Forbidden, Kill, SharedOK
  <2>2. RequestOK(r)'
    BY <1>3, EndRouted DEF Forbidden, Kill, Abandon
  <2> QED
    BY <2>1, <2>2, RoutedStep, <1>3 DEF RequestStep, Routing
<1>4. CASE Refuse(r) \/ Proceed(r)
  <2>1. pc[r] = "resolved" /\ pc'[r] \in {"forward", "release"} /\ SharedOK'
        /\ UNCHANGED <<trial, route, sent>>
    BY <1>1, <1>4 DEF Refuse, Proceed, Goto, Tables, SharedOK, redis
  <2>2. RequestOK(r)'
    BY <1>1, <2>1 DEF RequestOK, PC, Trying, Having
  <2> QED
    BY <2>1, <2>2, RoutedStep, <1>4 DEF RequestStep, Routing
<1> QED
  BY <1>2, <1>3, <1>4 DEF Routing

\* Sending counts for one account.
LEMMA SendOK ==
  ASSUME Routed, NEW r \in Request, pc[r] \in Having, Send(r) \/ sent' = sent
  PROVE  sent'[r] \in [Account -> Nat]
<1>1. RequestOK(r) /\ Tables
  BY RoutedParts
<1>2. route[r].acct \in Account /\ sent[r] \in [Account -> Nat]
  BY <1>1 DEF RequestOK, RouteType
<1>3. sent'[r] = sent[r] \/ sent'[r] = [sent[r] EXCEPT ![route[r].acct] = @ + 1]
  BY <1>1 DEF Send, Tables
<1> QED
  BY <1>2, <1>3

LEMMA UpstreamRouted ==
  ASSUME Routed, NEW r \in Request, Upstream(r)
  PROVE  Routed'
<1>1. RequestOK(r) /\ Tables /\ SharedOK
  BY RoutedParts
<1>2. CASE Headers(r)
  <2>1. pc[r] \in Having /\ pc[r] = "forward" /\ pc'[r] = "body" /\ SharedOK'
        /\ UNCHANGED <<trial, route>>
    BY <1>1, <1>2 DEF Headers, Goto, Tables, SharedOK, redis, Having
  <2>2. sent'[r] \in [Account -> Nat]
    BY <1>2, <2>1, SendOK DEF Headers
  <2>3. RequestOK(r)'
    BY <1>1, <2>1, <2>2 DEF RequestOK, PC, Trying, Having
  <2> QED
    BY <1>2, <2>1, <2>3, RoutedStep DEF RequestStep, Upstream
<1>3. ASSUME NEW v \in Verdicts, Finish(r, v)
      PROVE  Routed'
  <2>1. pc[r] \in Having /\ pc[r] \in {"body", "forward"} /\ pc'[r] = "health" /\ SharedOK'
        /\ trial' = trial
    BY <1>1, <1>3 DEF Finish, Goto, Tables, SharedOK, redis, Having
  <2>2. sent'[r] \in [Account -> Nat]
    BY <1>3, <2>1, SendOK DEF Finish
  <2>3. route'[r] = [route[r] EXCEPT !.verdict = v]
    BY <1>1, <1>3 DEF Finish, Tables
  <2>4. /\ route'[r] \in RouteType
        /\ route'[r].acct = route[r].acct /\ route'[r].lease = route[r].lease
    BY <1>1, <2>3 DEF RequestOK, RouteType
  <2>5. RequestOK(r)'
    BY <1>1, <2>1, <2>2, <2>4 DEF RequestOK, PC, Trying, Having
  <2> QED
    BY <1>3, <2>1, <2>5, RoutedStep DEF RequestStep, Upstream
<1>4. ASSUME NEW v \in Verdicts \ {"ok"}, Fail(r, v)
      PROVE  Routed'
  <2>1. pc[r] \in Having /\ pc[r] \in {"body", "forward"} /\ pc'[r] = "cool"
        /\ trial' = trial
    BY <1>1, <1>4 DEF Fail, Goto, Tables, Having
  <2>2. sent'[r] \in [Account -> Nat]
    BY <1>4, <2>1, SendOK DEF Fail
  <2>3. route'[r] = [route[r] EXCEPT !.verdict = v, !.excluded = @ \cup {route[r].acct}]
    BY <1>1, <1>4 DEF Fail, Tables
  <2>4. route[r] \in RouteType /\ route[r].acct \in Account
    BY <1>1, <2>1 DEF RequestOK, RouteType
  <2>5. /\ route'[r] \in RouteType
        /\ route'[r].acct = route[r].acct /\ route'[r].lease = route[r].lease
    BY <2>3, <2>4 DEF RouteType
  <2>6. RequestOK(r)'
    BY <1>1, <2>1, <2>2, <2>5 DEF RequestOK, PC, Trying, Having
  <2>7. SharedOK'
    BY <1>1, <1>4, <2>4 DEF Fail, SharedOK, redis, Statuses
  <2> QED
    BY <1>4, <2>6, <2>7, RoutedStep DEF RequestStep, Upstream
<1> QED
  BY <1>2, <1>3, <1>4 DEF Upstream

\* A lease that is given back, or whose slot stays taken.
LEMMA LeaseType ==
  ASSUME Routed, NEW r \in Request, route[r].lease # None
  PROVE  /\ route[r].lease \in Account /\ route[r].lease = route[r].acct
         /\ conc[route[r].lease] \in Int /\ leaked[route[r].lease] \in Nat
BY RoutedParts DEF RequestOK, RouteType, SharedOK

\* After the lease is gone, r selects again or is over.
LEMMA AfterReleaseRouted ==
  ASSUME Routed, NEW r \in Request, AfterRelease(r)
  PROVE  /\ RequestOK(r)' /\ route'[r].lease = None /\ pc'[r] \in {"sticky", "over"}
         /\ pc[r] \in {"switch", "release"}
<1>1. RequestOK(r) /\ Tables
  BY RoutedParts
<1>2. CASE pc[r] = "release" /\ End(r)
  BY <1>2, EndRouted DEF NoRoute
<1>3. CASE /\ pc[r] = "switch" /\ Goto(r, "sticky")
           /\ route' = [route EXCEPT ![r].lease = None]
           /\ UNCHANGED <<trial, sent>>
  <2>1. pc'[r] = "sticky" /\ route'[r] = [route[r] EXCEPT !.lease = None]
    BY <1>1, <1>3 DEF Goto, Tables
  <2>2. route'[r] \in RouteType /\ route'[r].lease = None
    BY <1>1, <2>1 DEF RequestOK, RouteType
  <2> QED
    BY <1>1, <1>3, <2>1, <2>2 DEF RequestOK, PC, Trying, Having
<1> QED
  BY <1>2, <1>3 DEF AfterRelease

LEMMA ClosingRouted ==
  ASSUME Routed, NEW r \in Request, Closing(r)
  PROVE  Routed'
<1>1. RequestOK(r) /\ Tables /\ SharedOK
  BY RoutedParts
<1>2. CASE CoolDown(r)
  <2>1. pc[r] = "cool" /\ pc'[r] = "switch" /\ UNCHANGED <<trial, route, sent>>
    BY <1>1, <1>2 DEF CoolDown, Goto, Tables
  <2>2. RequestOK(r)'
    BY <1>1, <2>1 DEF RequestOK, PC, Trying, Having
  <2>3. cooling' \in [Account -> BOOLEAN]
    BY <1>1, <1>2 DEF CoolDown, SharedOK
  <2>4. sticky' \in [Session -> Account \cup {None}]
    BY <1>2, ForgetOK DEF CoolDown
  <2>5. SharedOK'
    BY <1>1, <1>2, <2>3, <2>4 DEF CoolDown, SharedOK
  <2> QED
    BY <1>2, <2>2, <2>5, RoutedStep DEF RequestStep, Closing
<1>3. CASE Release(r) \/ ReleaseError(r)
  <2>1. RequestOK(r)'
    BY <1>3, AfterReleaseRouted DEF Release, ReleaseError
  <2>2. /\ \/ conc' = conc
           \/ route[r].lease # None /\ conc' = [conc EXCEPT ![route[r].lease] = @ - 1]
        /\ \/ leaked' = leaked
           \/ route[r].lease # None /\ leaked' = [leaked EXCEPT ![route[r].lease] = @ + 1]
    BY <1>3 DEF Release, ReleaseError
  <2>3. conc' \in [Account -> Int] /\ leaked' \in [Account -> Nat]
    BY <1>1, <2>2, LeaseType DEF SharedOK
  <2>4. SharedOK'
    BY <1>1, <1>3, <2>3 DEF Release, ReleaseError, SharedOK
  <2> QED
    BY <1>3, <2>1, <2>4, RoutedStep DEF RequestStep, Closing
<1>4. CASE UpdateHealth(r)
  <2>1. pc[r] = "health" /\ pc'[r] = "release" /\ UNCHANGED <<trial, route, sent>>
    BY <1>1, <1>4 DEF UpdateHealth, Goto, Tables
  <2>2. RequestOK(r)'
    BY <1>1, <2>1 DEF RequestOK, PC, Trying, Having
  <2>3. route[r].verdict \in {"ok", "bad", "neutral"} /\ route[r].snap \in Statuses
    BY <1>1 DEF RequestOK, RouteType, Statuses, Verdicts
  <2>4. status' \in [Account -> Statuses]
    BY <1>1, <1>4, <2>3 DEF UpdateHealth, SharedOK, Statuses
  <2>5. SharedOK'
    BY <1>1, <1>4, <2>4 DEF UpdateHealth, SharedOK, redis
  <2> QED
    BY <1>4, <2>2, <2>5, RoutedStep DEF RequestStep, Closing
<1> QED
  BY <1>2, <1>3, <1>4 DEF Closing

-------------------------------------------------------------------------------
(* Steps of nobody's request, and the theorem                               *)

\* Time, administrators, and keys that expire.
OtherStep ==
    \/ \E a \in Account : CooldownExpires(a) \/ SetStatus(a) \/ Recover(a) \/ CounterExpires(a)
    \/ Tick
    \/ UNCHANGED vars

LEMMA OtherStands ==
  ASSUME OtherStep
  PROVE  UNCHANGED <<pc, trial, route, sent>>
BY DEF OtherStep, CooldownExpires, SetStatus, Recover, CounterExpires, Tick, vars

LEMMA OtherRouted ==
  ASSUME Routed, OtherStep
  PROVE  Routed'
<1>1. SharedOK
  BY RoutedParts
<1>2. SharedOK'
  <2>1. ASSUME NEW a \in Account,
               CooldownExpires(a) \/ SetStatus(a) \/ Recover(a) \/ CounterExpires(a)
        PROVE  SharedOK'
    <3>1. status' \in [Account -> Statuses]
      BY <1>1, <2>1 DEF CooldownExpires, SetStatus, Recover, CounterExpires, SharedOK, Statuses
    <3>2. cooling' \in [Account -> BOOLEAN]
      BY <1>1, <2>1 DEF CooldownExpires, SetStatus, Recover, CounterExpires, SharedOK, redis
    <3>3. conc' \in [Account -> Int] /\ leaked' \in [Account -> Nat]
      <4>1. \/ conc' = conc /\ leaked' = leaked
            \/ conc' = [conc EXCEPT ![a] = 0] /\ leaked' = [leaked EXCEPT ![a] = 0]
        BY <2>1 DEF CooldownExpires, SetStatus, Recover, CounterExpires, redis
      <4>2. conc \in [Account -> Int] /\ leaked \in [Account -> Nat] /\ 0 \in Int /\ 0 \in Nat
        BY <1>1 DEF SharedOK
      <4>3. conc' \in [Account -> Int]
        BY <4>1, <4>2
      <4>4. leaked' \in [Account -> Nat]
        BY <4>1, <4>2
      <4> QED
        BY <4>3, <4>4
    <3>4. UNCHANGED <<rpm, granted, sticky, minute>>
      BY <2>1 DEF CooldownExpires, SetStatus, Recover, CounterExpires, redis
    <3> QED
      BY <1>1, <3>1, <3>2, <3>3, <3>4 DEF SharedOK
  <2>2. CASE Tick
    BY <1>1, <2>2, PoolAssumption DEF Tick, SharedOK, redis
  <2>3. CASE UNCHANGED vars
    BY <1>1, <2>3 DEF vars, redis, SharedOK
  <2> QED
    BY <2>1, <2>2, <2>3 DEF OtherStep
<1>3. UNCHANGED <<pc, trial, route, sent>>
  BY OtherStands
<1>4. TypeOK'
  BY <1>2, <1>3 DEF Routed, TypeOK, SharedOK
<1>5. Places'
  BY <1>3 DEF Routed, Places
<1> QED
  BY <1>4, <1>5 DEF Routed

\* A step is one of some request or of nobody's.
LEMMA StepKinds ==
  ASSUME [Next]_vars
  PROVE  (\E r \in Request : RequestStep(r)) \/ OtherStep
BY DEF Next, RequestStep, OtherStep, Terminated

LEMMA StepIsNext ==
  ASSUME NEW r \in Request, RequestStep(r)
  PROVE  [Next]_vars
BY DEF Next, RequestStep

LEMMA RoutedKept == Routed /\ [Next]_vars => Routed'
<1> SUFFICES ASSUME Routed, [Next]_vars PROVE Routed'
  OBVIOUS
<1>1. ASSUME NEW r \in Request, RequestStep(r) PROVE Routed'
  BY <1>1, SearchRouted, ReserveRPMRouted, UndoRouted, ReserveConcurrencyRouted,
     ReserveErrorRouted, RoutingRouted, UpstreamRouted, ClosingRouted
     DEF RequestStep, Selecting
<1> QED
  BY <1>1, StepKinds, OtherRouted

LEMMA InitRouted == Init => Routed
<1> SUFFICES ASSUME Init PROVE Routed
  OBVIOUS
<1>1. /\ NoTrial \in TrialType /\ NoTrial.acct = None
      /\ NoRoute \in RouteType /\ NoRoute.lease = None
      /\ Unsent \in [Account -> Nat]
  BY PoolAssumption DEF NoTrial, TrialType, Searches, NoRoute, RouteType, Verdicts, Unsent
<1>2. TypeOK
  BY <1>1, PoolAssumption DEF Init, TypeOK, TrialType, RouteType, Statuses, PC
<1>3. Places
  BY <1>1 DEF Init, Places, Trying, Having
<1> QED
  BY <1>2, <1>3 DEF Routed

LEMMA AlwaysRouted == Spec => []Routed
BY InitRouted, RoutedKept, PTL DEF Spec

\* Every variable keeps its type: no request is routed to an account that is not
\* of the pool, no lost slot is given back, no stage is left undefined.
THEOREM PoolTypes == Spec => []TypeOK
<1>1. Routed => TypeOK
  BY DEF Routed
<1> QED
  BY <1>1, AlwaysRouted, PTL

-------------------------------------------------------------------------------
(* Counting: what one request adds to a number of requests                  *)

\* Two sets that differ in one element at most.
LEMMA CountOne ==
  ASSUME NEW S, IsFiniteSet(S), NEW T, NEW r, T \ {r} = S \ {r}
  PROVE  /\ Cardinality(S) \in Nat /\ Cardinality(T) \in Nat
         /\ Cardinality(T) + (IF r \in S THEN 1 ELSE 0) =
              Cardinality(S) + (IF r \in T THEN 1 ELSE 0)
<1> DEFINE U == S \ {r}
<1>1. IsFiniteSet(U) /\ Cardinality(U) \in Nat /\ r \notin U
  BY FS_RemoveElement, FS_CardinalityType
<1>2. Cardinality(U \cup {r}) = Cardinality(U) + 1
  BY <1>1, FS_AddElement
<1>3. S = (IF r \in S THEN U \cup {r} ELSE U)
  OBVIOUS
<1>4. T = (IF r \in T THEN U \cup {r} ELSE U)
  OBVIOUS
<1> HIDE DEF U
<1>5. Cardinality(S) = Cardinality(U) + (IF r \in S THEN 1 ELSE 0)
  <2>1. CASE r \in S
    BY <1>2, <1>3, <2>1
  <2>2. CASE r \notin S
    BY <1>1, <1>3, <2>2
  <2> QED
    BY <2>1, <2>2
<1>6. Cardinality(T) = Cardinality(U) + (IF r \in T THEN 1 ELSE 0)
  <2>1. CASE r \in T
    BY <1>2, <1>4, <2>1
  <2>2. CASE r \notin T
    BY <1>1, <1>4, <2>2
  <2> QED
    BY <2>1, <2>2
<1> QED
  BY <1>1, <1>5, <1>6

\* The slots of a that r accounts for: with its lease, or until it takes an
\* increment back.
Leased(r, a) == IF route[r].lease = a THEN 1 ELSE 0

ToUndo(r, a) == IF pc[r] = "undoConc" /\ trial[r].acct = a THEN 1 ELSE 0

\* In a step of r, the holders of a and those that undo change with r alone.
LEMMA CountStep ==
  ASSUME NEW r \in Request, Alone(r), NEW a \in Account
  PROVE  /\ Cardinality(Holders(a)) \in Nat /\ Cardinality(Holders(a)') \in Nat
         /\ Cardinality(Undoing(a)) \in Nat /\ Cardinality(Undoing(a)') \in Nat
         /\ Cardinality(Holders(a)') + Leased(r, a) = Cardinality(Holders(a)) + Leased(r, a)'
         /\ Cardinality(Undoing(a)') + ToUndo(r, a) = Cardinality(Undoing(a)) + ToUndo(r, a)'
<1>1. IsFiniteSet(Holders(a)) /\ IsFiniteSet(Undoing(a))
  BY RequestsFinite, FS_Subset DEF Holders, Undoing
<1>2. /\ Holders(a)' \ {r} = Holders(a) \ {r}
      /\ Undoing(a)' \ {r} = Undoing(a) \ {r}
  BY DEF Alone, Holders, Undoing
<1>3. /\ r \in Holders(a) <=> route[r].lease = a
      /\ r \in Holders(a)' <=> route'[r].lease = a
      /\ r \in Undoing(a) <=> pc[r] = "undoConc" /\ trial[r].acct = a
      /\ r \in Undoing(a)' <=> pc'[r] = "undoConc" /\ trial'[r].acct = a
  BY DEF Holders, Undoing
<1>4. /\ Cardinality(Holders(a)) \in Nat /\ Cardinality(Holders(a)') \in Nat
      /\ Cardinality(Holders(a)') + (IF r \in Holders(a) THEN 1 ELSE 0) =
           Cardinality(Holders(a)) + (IF r \in Holders(a)' THEN 1 ELSE 0)
  BY <1>1, <1>2, CountOne
<1>5. /\ Cardinality(Undoing(a)) \in Nat /\ Cardinality(Undoing(a)') \in Nat
      /\ Cardinality(Undoing(a)') + (IF r \in Undoing(a) THEN 1 ELSE 0) =
           Cardinality(Undoing(a)) + (IF r \in Undoing(a)' THEN 1 ELSE 0)
  BY <1>1, <1>2, CountOne
<1> QED
  BY <1>3, <1>4, <1>5 DEF Leased, ToUndo

-------------------------------------------------------------------------------
(* The concurrency counter                                                  *)

Counted == Routed /\ CounterBalance /\ LeaseBound

\* r's step moves the counter and the lost slots of a by what it changes in r's
\* own slots, and takes a lease only within the limit.
Fair(r, a) ==
    /\ (conc'[a] - leaked'[a]) + (Leased(r, a) + ToUndo(r, a)) =
         (conc[a] - leaked[a]) + (Leased(r, a)' + ToUndo(r, a)')
    /\ \/ Leased(r, a)' <= Leased(r, a)
       \/ ConcurrencyLimit[a] > 0 => conc[a] + 1 <= ConcurrencyLimit[a]

LEMMA FairKeeps ==
  ASSUME Counted, NEW r \in Request, RequestStep(r), \A a \in Account : Fair(r, a)
  PROVE  Counted'
<1>1. Routed' /\ Alone(r)
  BY StepMoves, RoutedKept, StepIsNext DEF Counted
<1>2. ASSUME NEW a \in Account
      PROVE  /\ conc'[a] = Cardinality(Holders(a)') + Cardinality(Undoing(a)') + leaked'[a]
             /\ ConcurrencyLimit[a] > 0 => Cardinality(Holders(a)') <= ConcurrencyLimit[a]
  <2> DEFINE h == Cardinality(Holders(a))
             g == Cardinality(Holders(a)')
             u == Cardinality(Undoing(a))
             v == Cardinality(Undoing(a)')
  <2>1. /\ h \in Nat /\ g \in Nat /\ u \in Nat /\ v \in Nat
        /\ g + Leased(r, a) = h + Leased(r, a)'
        /\ v + ToUndo(r, a) = u + ToUndo(r, a)'
    BY <1>1, <1>2, CountStep
  <2>2. /\ conc[a] \in Int /\ leaked[a] \in Nat /\ conc'[a] \in Int /\ leaked'[a] \in Nat
        /\ ConcurrencyLimit[a] \in Nat
    BY <1>1, <1>2, PoolAssumption DEF Counted, Routed, TypeOK
  <2>3. /\ Leased(r, a) \in 0 .. 1 /\ Leased(r, a)' \in 0 .. 1
        /\ ToUndo(r, a) \in 0 .. 1 /\ ToUndo(r, a)' \in 0 .. 1
    BY DEF Leased, ToUndo
  <2>4. conc[a] = h + u + leaked[a] /\ (ConcurrencyLimit[a] > 0 => h <= ConcurrencyLimit[a])
    BY <1>2 DEF Counted, CounterBalance, LeaseBound
  <2>5. Fair(r, a)
    BY <1>2
  <2> HIDE DEF h, g, u, v
  <2>6. conc'[a] = g + v + leaked'[a]
    <3>1. (conc'[a] - leaked'[a]) + (Leased(r, a) + ToUndo(r, a)) =
            (conc[a] - leaked[a]) + (Leased(r, a)' + ToUndo(r, a)')
      BY <2>5 DEF Fair
    <3>2. conc[a] - leaked[a] = h + u
      BY <2>1, <2>2, <2>4
    <3>3. (h + u) + (Leased(r, a)' + ToUndo(r, a)') = (g + v) + (Leased(r, a) + ToUndo(r, a))
      BY <2>1, <2>3
    <3>4. conc'[a] - leaked'[a] = g + v
      BY <2>1, <2>2, <2>3, <3>1, <3>2, <3>3
    <3> QED
      BY <2>1, <2>2, <3>4
  <2>7. ConcurrencyLimit[a] > 0 => g <= ConcurrencyLimit[a]
    BY <2>1, <2>2, <2>3, <2>4, <2>5 DEF Fair
  <2> QED
    BY <2>6, <2>7 DEF g, v
<1>3. CounterBalance' /\ LeaseBound'
  BY <1>2 DEF CounterBalance, LeaseBound
<1> QED
  BY <1>1, <1>3 DEF Counted

\* A step that neither takes nor gives back.
LEMMA QuietFair ==
  ASSUME Routed, NEW r \in Request, route'[r].lease = route[r].lease,
         pc[r] # "undoConc", pc'[r] # "undoConc", UNCHANGED <<conc, leaked>>
  PROVE  \A a \in Account : Fair(r, a)
<1> SUFFICES ASSUME NEW a \in Account PROVE Fair(r, a)
  OBVIOUS
<1>1. Leased(r, a)' = Leased(r, a) /\ ToUndo(r, a) = 0 /\ ToUndo(r, a)' = 0
  BY DEF Leased, ToUndo
<1>2. conc[a] \in Int /\ leaked[a] \in Nat /\ Leased(r, a) \in 0 .. 1
  BY DEF Routed, TypeOK, Leased
<1> QED
  BY <1>1, <1>2 DEF Fair

\* A search takes no slot, and stands before the counters at most.
LEMMA SearchQuiet ==
  ASSUME Routed, NEW r \in Request, SearchSticky(r) \/ SearchByStatus(r) \/ SearchError(r)
  PROVE  /\ pc[r] \in Searches
         /\ pc'[r] \in {"online", "degraded", "rpm", "release", "health"}
         /\ UNCHANGED <<rpm, granted, conc, leaked, route, sent>>
<1>1. Tables
  BY RoutedParts
<1>2. UNCHANGED <<rpm, granted, conc, leaked, route, sent>>
  BY DEF SearchSticky, SearchByStatus, SearchError, redis
<1>3. pc[r] \in Searches
  BY DEF SearchSticky, SearchByStatus, SearchError, Searches
<1>4. ASSUME NEW w, NEW a, Try(r, w, a) PROVE pc'[r] = "rpm"
  BY <1>1, <1>4 DEF Try, Goto, Tables
<1>5. ASSUME NEW w \in {"online", "degraded"}, NextSearch(r, w)
      PROVE  pc'[r] \in {"degraded", "release", "health"}
  BY <1>1, <1>5 DEF NextSearch, NoAccount, Goto, Tables
<1>6. Goto(r, "online") => pc'[r] = "online"
  BY <1>1 DEF Goto, Tables
<1>7. pc'[r] \in {"online", "degraded", "rpm", "release", "health"}
  <2>1. CASE SearchSticky(r)
    BY <1>4, <1>6, <2>1 DEF SearchSticky
  <2>2. CASE SearchByStatus(r)
    BY <1>4, <1>5, <2>2 DEF SearchByStatus
  <2>3. CASE SearchError(r)
    BY <1>4, <1>6, <2>3 DEF SearchError
  <2> QED
    BY <2>1, <2>2, <2>3
<1> QED
  BY <1>2, <1>3, <1>7

LEMMA QuietSteps ==
  ASSUME Routed, NEW r \in Request,
         \/ Begin(r) \/ SearchSticky(r) \/ SearchByStatus(r) \/ SearchError(r)
         \/ ReserveRPM(r) \/ UndoRPM(r) \/ Refuse(r) \/ Proceed(r)
         \/ CoolDown(r) \/ UpdateHealth(r) \/ Upstream(r)
  PROVE  \A a \in Account : Fair(r, a)
<1>1. Tables /\ RequestOK(r)
  BY RoutedParts
<1>2. CASE SearchSticky(r) \/ SearchByStatus(r) \/ SearchError(r)
  <2>1. route'[r].lease = route[r].lease /\ pc[r] # "undoConc" /\ pc'[r] # "undoConc"
        /\ UNCHANGED <<conc, leaked>>
    BY <1>2, SearchQuiet DEF Searches
  <2> QED
    BY <2>1, QuietFair
<1>3. CASE Begin(r) \/ Refuse(r) \/ Proceed(r) \/ CoolDown(r) \/ UpdateHealth(r)
  <2>1. route' = route /\ pc[r] # "undoConc" /\ pc'[r] # "undoConc"
        /\ UNCHANGED <<conc, leaked>>
    BY <1>1, <1>3 DEF Begin, Refuse, Proceed, CoolDown, UpdateHealth, Goto, Tables, redis
  <2> QED
    BY <2>1, QuietFair
<1>4. CASE ReserveRPM(r)
  <2>1. route' = route /\ pc[r] # "undoConc" /\ pc'[r] # "undoConc"
        /\ UNCHANGED <<conc, leaked>>
    BY <1>1, <1>4 DEF ReserveRPM, Goto, Tables
  <2> QED
    BY <2>1, QuietFair
<1>5. CASE UndoRPM(r)
  <2>1. route' = route /\ sent' = sent /\ pc[r] = "undoRpm" /\ pc[r] \in Trying /\ Dropped(r)
        /\ UNCHANGED <<conc, leaked>>
    BY <1>5 DEF UndoRPM, Trying
  <2>2. pc'[r] # "undoConc"
    BY <2>1, DroppedRouted
  <2> QED
    BY <2>1, <2>2, QuietFair
<1>6. CASE Upstream(r)
  <2>1. pc[r] # "undoConc" /\ pc'[r] # "undoConc" /\ UNCHANGED <<conc, leaked>>
    BY <1>1, <1>6 DEF Upstream, Headers, Finish, Fail, Goto, Tables, redis
  <2>2. route'[r].lease = route[r].lease
    <3>1. CASE route' = route
      BY <3>1
    <3>2. ASSUME NEW v, route' = [route EXCEPT ![r].verdict = v]
          PROVE  route'[r].lease = route[r].lease
      BY <1>1, <3>2 DEF Tables, RequestOK, RouteType
    <3>3. ASSUME NEW v, NEW x, route' = [route EXCEPT ![r].verdict = v, ![r].excluded = x]
          PROVE  route'[r].lease = route[r].lease
      BY <1>1, <3>3 DEF Tables, RequestOK, RouteType
    <3> QED
      BY <1>6, <3>1, <3>2, <3>3 DEF Upstream, Headers, Finish, Fail
  <2> QED
    BY <2>1, <2>2, QuietFair
<1> QED
  BY <1>2, <1>3, <1>4, <1>5, <1>6

\* A reservation ends with the slot that was taken in the counter, whether the
\* request got it or has to take it back.
LEMMA ReserveConcurrencyFair ==
  ASSUME Routed, NEW r \in Request, ReserveConcurrency(r)
  PROVE  \A a \in Account : Fair(r, a)
<1> DEFINE b == Reserving(r)
<1>1. pc[r] = "conc" /\ pc[r] \in Trying /\ leaked' = leaked
  BY DEF ReserveConcurrency, Trying
<1>2. b \in Account /\ b = trial[r].acct /\ route[r].lease = None /\ b # None /\ None \notin Account
  BY <1>1, TryingOne, PoolAssumption
<1>3. Tables /\ SharedOK
  BY RoutedParts
<1> SUFFICES ASSUME NEW a \in Account PROVE Fair(r, a)
  OBVIOUS
<1>4. conc[a] \in Int /\ leaked[a] \in Nat /\ conc[b] \in Int /\ leaked'[a] = leaked[a]
  BY <1>1, <1>2, <1>3 DEF SharedOK
<1>5. Leased(r, a) = 0 /\ ToUndo(r, a) = 0
  BY <1>1, <1>2 DEF Leased, ToUndo
<1>6. CASE Selected(r, None) /\ conc' = conc
  <2>1. route'[r].lease = None /\ pc'[r] # "undoConc"
    BY <1>1, <1>6, SelectedRoute
  <2>2. Leased(r, a)' = 0 /\ ToUndo(r, a)' = 0
    BY <1>2, <2>1 DEF Leased, ToUndo
  <2> QED
    BY <1>4, <1>5, <1>6, <2>2 DEF Fair
<1>7. CASE Selected(r, b) /\ conc' = [conc EXCEPT ![b] = conc[b] + 1] /\ WithinConcurrency(b)
  <2>1. route'[r].lease = b /\ pc'[r] # "undoConc"
    BY <1>1, <1>7, SelectedRoute
  <2>2. Leased(r, a)' = (IF a = b THEN 1 ELSE 0) /\ ToUndo(r, a)' = 0
    BY <2>1 DEF Leased, ToUndo
  <2>3. conc'[a] = IF a = b THEN conc[a] + 1 ELSE conc[a]
    BY <1>2, <1>3, <1>7 DEF SharedOK
  <2>4. a = b => conc[a] + 1 <= ConcurrencyLimit[a]
    BY <1>7 DEF WithinConcurrency
  <2> HIDE DEF b
  <2> QED
    BY <1>4, <1>5, <2>2, <2>3, <2>4 DEF Fair
<1>8. CASE /\ conc' = [conc EXCEPT ![b] = conc[b] + 1]
           /\ Goto(r, "undoConc") /\ UNCHANGED <<trial, route>>
  <2>1. route'[r] = route[r] /\ pc'[r] = "undoConc" /\ trial'[r].acct = b
    BY <1>2, <1>3, <1>8 DEF Goto, Tables
  <2>2. Leased(r, a)' = 0 /\ ToUndo(r, a)' = (IF a = b THEN 1 ELSE 0)
    BY <1>2, <2>1 DEF Leased, ToUndo
  <2>3. conc'[a] = IF a = b THEN conc[a] + 1 ELSE conc[a]
    BY <1>2, <1>3, <1>8 DEF SharedOK
  <2> HIDE DEF b
  <2> QED
    BY <1>4, <1>5, <2>2, <2>3 DEF Fair
<1> QED
  BY <1>6, <1>7, <1>8 DEF ReserveConcurrency

LEMMA ReserveErrorFair ==
  ASSUME Routed, NEW r \in Request, ReserveError(r)
  PROVE  \A a \in Account : Fair(r, a)
<1> DEFINE b == Reserving(r)
<1>1. Tables /\ SharedOK
  BY RoutedParts
<1>2. CASE pc[r] = "rpm" /\ Goto(r, "conc") /\ UNCHANGED <<conc, leaked, route>>
  <2>1. pc'[r] = "conc"
    BY <1>1, <1>2 DEF Goto, Tables
  <2> QED
    BY <1>2, <2>1, QuietFair
<1>3. CASE /\ pc[r] = "conc" /\ Selected(r, None)
           /\ \E k \in 0 .. 1 : /\ conc' = [conc EXCEPT ![b] = conc[b] + k]
                                /\ leaked' = [leaked EXCEPT ![b] = leaked[b] + k]
  <2>1. PICK k \in 0 .. 1 : /\ conc' = [conc EXCEPT ![b] = conc[b] + k]
                            /\ leaked' = [leaked EXCEPT ![b] = leaked[b] + k]
    BY <1>3
  <2>2. pc[r] \in Trying
    BY <1>3 DEF Trying
  <2>3. b \in Account /\ route[r].lease = None /\ None \notin Account
    BY <2>2, TryingOne, PoolAssumption
  <2>4. route'[r].lease = None /\ pc'[r] # "undoConc"
    BY <1>3, <2>2, SelectedRoute
  <2> SUFFICES ASSUME NEW a \in Account PROVE Fair(r, a)
    OBVIOUS
  <2>5. Leased(r, a) = 0 /\ ToUndo(r, a) = 0 /\ Leased(r, a)' = 0 /\ ToUndo(r, a)' = 0
    BY <1>3, <2>3, <2>4 DEF Leased, ToUndo
  <2>6. conc[a] \in Int /\ leaked[a] \in Nat
    BY <1>1 DEF SharedOK
  <2> HIDE DEF b
  <2>7. /\ conc'[a] = IF a = b THEN conc[a] + k ELSE conc[a]
        /\ leaked'[a] = IF a = b THEN leaked[a] + k ELSE leaked[a]
    BY <1>1, <2>1, <2>3 DEF SharedOK
  <2> QED
    BY <2>5, <2>6, <2>7 DEF Fair
<1> QED
  BY <1>2, <1>3 DEF ReserveError

\* What is taken back, or stays taken for ever.
LEMMA UndoFair ==
  ASSUME Routed, NEW r \in Request, UndoConcurrency(r) \/ UndoError(r)
  PROVE  \A a \in Account : Fair(r, a)
<1> DEFINE b == Reserving(r)
<1>1. pc[r] \in Trying /\ Dropped(r) /\ UNCHANGED <<route, sent>>
  BY DEF UndoConcurrency, UndoError, Trying
<1>2. pc'[r] # "undoConc" /\ route'[r].lease = route[r].lease
  BY <1>1, DroppedRouted
<1>3. CASE pc[r] = "undoRpm"
  <2>1. UNCHANGED <<conc, leaked>>
    BY <1>3 DEF UndoConcurrency, UndoError
  <2> QED
    BY <1>2, <1>3, <2>1, QuietFair
<1>4. CASE pc[r] = "undoConc"
  <2>1. b \in Account /\ trial[r].acct = b /\ route[r].lease = None /\ None \notin Account
    BY <1>1, TryingOne, PoolAssumption
  <2>2. SharedOK
    BY RoutedParts
  <2> SUFFICES ASSUME NEW a \in Account PROVE Fair(r, a)
    OBVIOUS
  <2>3. conc[a] \in Int /\ leaked[a] \in Nat
    BY <2>2 DEF SharedOK
  <2>4. Leased(r, a) = 0 /\ Leased(r, a)' = 0 /\ ToUndo(r, a)' = 0
        /\ ToUndo(r, a) = (IF a = b THEN 1 ELSE 0)
    BY <1>2, <1>4, <2>1 DEF Leased, ToUndo
  <2>5. \/ conc' = [conc EXCEPT ![b] = conc[b] - 1] /\ leaked' = leaked
        \/ conc' = conc /\ leaked' = [leaked EXCEPT ![b] = leaked[b] + 1]
    BY <1>4 DEF UndoConcurrency, UndoError
  <2> HIDE DEF b
  <2>6. conc'[a] - leaked'[a] = IF a = b THEN conc[a] - leaked[a] - 1 ELSE conc[a] - leaked[a]
    BY <2>1, <2>2, <2>3, <2>5 DEF SharedOK
  <2>7. conc'[a] \in Int /\ leaked'[a] \in Int
    BY <2>1, <2>2, <2>3, <2>5 DEF SharedOK
  <2> QED
    BY <2>3, <2>4, <2>6, <2>7 DEF Fair
<1> QED
  BY <1>3, <1>4 DEF UndoConcurrency, UndoError

\* A lease is given back once, or its slot is lost.
LEMMA ReleaseFair ==
  ASSUME Routed, NEW r \in Request, Release(r) \/ ReleaseError(r)
  PROVE  \A a \in Account : Fair(r, a)
<1> DEFINE b == route[r].lease
<1>1. AfterRelease(r)
  BY DEF Release, ReleaseError
<1>2. route'[r].lease = None /\ pc'[r] # "undoConc" /\ pc[r] # "undoConc"
  BY <1>1, AfterReleaseRouted
<1>3. CASE b = None
  <2>1. UNCHANGED <<conc, leaked>>
    BY <1>3 DEF Release, ReleaseError
  <2> QED
    BY <1>2, <1>3, <2>1, QuietFair
<1>4. CASE b # None
  <2>1. b \in Account /\ None \notin Account /\ SharedOK
    BY <1>4, LeaseType, PoolAssumption, RoutedParts
  <2> SUFFICES ASSUME NEW a \in Account PROVE Fair(r, a)
    OBVIOUS
  <2>2. conc[a] \in Int /\ leaked[a] \in Nat
    BY <2>1 DEF SharedOK
  <2>3. Leased(r, a)' = 0 /\ ToUndo(r, a) = 0 /\ ToUndo(r, a)' = 0
        /\ Leased(r, a) = (IF a = b THEN 1 ELSE 0)
    BY <1>2, <2>1 DEF Leased, ToUndo
  <2>4. \/ conc' = [conc EXCEPT ![b] = conc[b] - 1] /\ leaked' = leaked
        \/ conc' = conc /\ leaked' = [leaked EXCEPT ![b] = leaked[b] + 1]
    BY <1>4 DEF Release, ReleaseError
  <2> HIDE DEF b
  <2>5. conc'[a] - leaked'[a] = IF a = b THEN conc[a] - leaked[a] - 1 ELSE conc[a] - leaked[a]
    BY <2>1, <2>2, <2>4 DEF SharedOK
  <2>6. conc'[a] \in Int /\ leaked'[a] \in Int
    BY <2>1, <2>2, <2>4 DEF SharedOK
  <2> QED
    BY <2>2, <2>3, <2>5, <2>6 DEF Fair
<1> QED
  BY <1>3, <1>4

\* What a request takes with it is counted as lost.
LEMMA AbandonFair ==
  ASSUME Routed, NEW r \in Request, Forbidden(r) \/ Kill(r)
  PROVE  \A a \in Account : Fair(r, a)
<1> SUFFICES ASSUME NEW a \in Account PROVE Fair(r, a)
  OBVIOUS
<1>1. Abandon(r) /\ conc' = conc
  BY DEF Forbidden, Kill
<1>2. pc'[r] = "over" /\ route'[r] = NoRoute
  BY <1>1, EndRouted DEF Abandon
<1>3. Leased(r, a)' = 0 /\ ToUndo(r, a)' = 0
  BY <1>2, PoolAssumption DEF Leased, ToUndo, NoRoute
<1>4. leaked'[a] = leaked[a] + (IF route[r].lease = a
                                  \/ (pc[r] = "undoConc" /\ trial[r].acct = a)
                               THEN 1 ELSE 0)
  BY <1>1 DEF Abandon, Reserving
<1>5. ~(route[r].lease = a /\ pc[r] = "undoConc")
  BY RoutedParts, PoolAssumption DEF RequestOK, Having
<1>6. leaked'[a] = leaked[a] + (Leased(r, a) + ToUndo(r, a))
  BY <1>4, <1>5 DEF Leased, ToUndo
<1>7. conc[a] \in Int /\ leaked[a] \in Nat
      /\ Leased(r, a) \in 0 .. 1 /\ ToUndo(r, a) \in 0 .. 1
  BY RoutedParts DEF SharedOK, Leased, ToUndo
<1> QED
  BY <1>1, <1>3, <1>6, <1>7 DEF Fair

\* The counter of an account that nobody holds expires, and its lost slots are
\* forgotten with it.
LEMMA OtherCounted ==
  ASSUME Counted, OtherStep
  PROVE  Counted'
<1>1. Routed'
  BY OtherRouted DEF Counted
<1>2. UNCHANGED <<pc, trial, route, sent>>
  BY OtherStands
<1>3. \A a \in Account : Holders(a)' = Holders(a) /\ Undoing(a)' = Undoing(a)
  BY <1>2 DEF Holders, Undoing
<1>4. LeaseBound'
  BY <1>3 DEF Counted, LeaseBound
<1>5. CASE UNCHANGED <<conc, leaked>>
  BY <1>1, <1>3, <1>4, <1>5 DEF Counted, CounterBalance
<1>6. ASSUME NEW b \in Account, CounterExpires(b)
      PROVE  CounterBalance'
  <2>1. Holders(b) = {} /\ Undoing(b) = {}
    BY <1>6 DEF CounterExpires, Holders, Undoing, Reserving
  <2>2. Cardinality({}) = 0
    BY FS_EmptySet
  <2>3. /\ conc' = [conc EXCEPT ![b] = 0] /\ leaked' = [leaked EXCEPT ![b] = 0]
        /\ conc \in [Account -> Int] /\ leaked \in [Account -> Nat]
    BY <1>6 DEF CounterExpires, Counted, Routed, TypeOK
  <2>4. ASSUME NEW a \in Account
        PROVE  conc'[a] = Cardinality(Holders(a)') + Cardinality(Undoing(a)') + leaked'[a]
    <3>1. CASE a = b
      BY <1>3, <2>1, <2>2, <2>3, <3>1
    <3>2. CASE a # b
      <4>1. conc'[a] = conc[a] /\ leaked'[a] = leaked[a]
        BY <2>3, <3>2
      <4> QED
        BY <1>3, <4>1 DEF Counted, CounterBalance
    <3> QED
      BY <3>1, <3>2
  <2> QED
    BY <2>4 DEF CounterBalance
<1> QED
  BY <1>1, <1>4, <1>5, <1>6 DEF OtherStep, CooldownExpires, SetStatus, Recover, Tick,
     Counted, vars, redis

LEMMA CountedKept == Counted /\ [Next]_vars => Counted'
<1> SUFFICES ASSUME Counted, [Next]_vars PROVE Counted'
  OBVIOUS
<1>1. Routed
  BY DEF Counted
<1>2. ASSUME NEW r \in Request, RequestStep(r) PROVE Counted'
  <2>1. \A a \in Account : Fair(r, a)
    BY <1>1, <1>2, QuietSteps, ReserveConcurrencyFair, ReserveErrorFair, UndoFair, ReleaseFair,
       AbandonFair DEF RequestStep, Selecting, Routing, Closing
  <2> QED
    BY <1>2, <2>1, FairKeeps
<1> QED
  BY <1>2, StepKinds, OtherCounted

LEMMA InitCounted == Init => Counted
<1> SUFFICES ASSUME Init PROVE Counted
  OBVIOUS
<1>1. Routed
  BY InitRouted
<1>2. \A a \in Account : Holders(a) = {} /\ Undoing(a) = {}
  BY PoolAssumption DEF Init, Holders, Undoing, NoRoute
<1>3. \A a \in Account : Cardinality(Holders(a)) = 0 /\ Cardinality(Undoing(a)) = 0
  BY <1>2, FS_EmptySet
<1>4. CounterBalance
  <2>1. \A a \in Account : conc[a] = 0 /\ leaked[a] = 0
    BY DEF Init
  <2> QED
    BY <1>3, <2>1 DEF CounterBalance
<1>5. LeaseBound
  BY <1>3, PoolAssumption DEF LeaseBound
<1> QED
  BY <1>1, <1>4, <1>5 DEF Counted

LEMMA AlwaysCounted == Spec => []Counted
BY InitCounted, CountedKept, PTL DEF Spec

\* The concurrency counter of an account is the number of leases, of increments
\* about to be taken back and of slots that nobody will give back, whatever fails.
THEOREM CounterAlwaysBalances == Spec => []CounterBalance
<1>1. Counted => CounterBalance
  BY DEF Counted
<1> QED
  BY <1>1, AlwaysCounted, PTL

\* An account never serves more leased requests than its limit.
THEOREM LeasesWithinLimit == Spec => []LeaseBound
<1>1. Counted => LeaseBound
  BY DEF Counted
<1> QED
  BY <1>1, AlwaysCounted, PTL

-------------------------------------------------------------------------------
(* The counters of requests per minute                                      *)

\* Requests whose increment of that minute's counter is still to be taken back.
Overdue(a, m) ==
    {r \in Request : pc[r] = "undoRpm" /\ trial[r].acct = a /\ trial[r].stamp = m}

\* A counter covers the reservations it granted and the increments to be taken
\* back; it may be higher, as undoing may fail.
MinuteBalance ==
    \A a \in Account, m \in 0 .. LastMinute :
        granted[a][m] + Cardinality(Overdue(a, m)) <= rpm[a][m]

Metered == Routed /\ MinuteBalance /\ RPMBound

Late(r, a, m) ==
    IF pc[r] = "undoRpm" /\ trial[r].acct = a /\ trial[r].stamp = m THEN 1 ELSE 0

\* r's step takes no more from the counter than it gave to it, and is granted a
\* slot only below the limit.
Measured(r, a, m) ==
    /\ rpm[a][m] + Late(r, a, m)' + granted'[a][m] <= rpm'[a][m] + Late(r, a, m) + granted[a][m]
    /\ \/ granted'[a][m] = granted[a][m]
       \/ granted'[a][m] = granted[a][m] + 1 /\ rpm[a][m] + 1 <= RPMLimit[a]

LEMMA LateStep ==
  ASSUME NEW r \in Request, Alone(r), NEW a \in Account, NEW m \in 0 .. LastMinute
  PROVE  /\ Cardinality(Overdue(a, m)) \in Nat /\ Cardinality(Overdue(a, m)') \in Nat
         /\ Cardinality(Overdue(a, m)') + Late(r, a, m) =
              Cardinality(Overdue(a, m)) + Late(r, a, m)'
<1>1. IsFiniteSet(Overdue(a, m))
  BY RequestsFinite, FS_Subset DEF Overdue
<1>2. Overdue(a, m)' \ {r} = Overdue(a, m) \ {r}
  BY DEF Alone, Overdue
<1>3. /\ r \in Overdue(a, m) <=> pc[r] = "undoRpm" /\ trial[r].acct = a /\ trial[r].stamp = m
      /\ r \in Overdue(a, m)' <=>
           pc'[r] = "undoRpm" /\ trial'[r].acct = a /\ trial'[r].stamp = m
  BY DEF Overdue
<1>4. /\ Cardinality(Overdue(a, m)) \in Nat /\ Cardinality(Overdue(a, m)') \in Nat
      /\ Cardinality(Overdue(a, m)') + (IF r \in Overdue(a, m) THEN 1 ELSE 0) =
           Cardinality(Overdue(a, m)) + (IF r \in Overdue(a, m)' THEN 1 ELSE 0)
  BY <1>1, <1>2, CountOne
<1> QED
  BY <1>3, <1>4 DEF Late

LEMMA MeasuredKeeps ==
  ASSUME Metered, NEW r \in Request, RequestStep(r),
         \A a \in Account, m \in 0 .. LastMinute : Measured(r, a, m)
  PROVE  Metered'
<1>1. Routed' /\ Alone(r)
  BY StepMoves, RoutedKept, StepIsNext DEF Metered
<1>2. ASSUME NEW a \in Account, NEW m \in 0 .. LastMinute
      PROVE  /\ granted'[a][m] + Cardinality(Overdue(a, m)') <= rpm'[a][m]
             /\ RPMLimit[a] > 0 => granted'[a][m] <= RPMLimit[a]
  <2> DEFINE u == Cardinality(Overdue(a, m))
             v == Cardinality(Overdue(a, m)')
  <2>1. u \in Nat /\ v \in Nat /\ v + Late(r, a, m) = u + Late(r, a, m)'
    BY <1>1, <1>2, LateStep
  <2>2. /\ rpm[a][m] \in Int /\ granted[a][m] \in Nat
        /\ rpm'[a][m] \in Int /\ granted'[a][m] \in Nat /\ RPMLimit[a] \in Nat
    <3>1. /\ rpm \in [Account -> [0 .. LastMinute -> Int]]
          /\ granted \in [Account -> [0 .. LastMinute -> Nat]]
      BY DEF Metered, Routed, TypeOK
    <3>2. /\ rpm' \in [Account -> [0 .. LastMinute -> Int]]
          /\ granted' \in [Account -> [0 .. LastMinute -> Nat]]
      BY <1>1 DEF Routed, TypeOK
    <3> QED
      BY <1>2, <3>1, <3>2, PoolAssumption
  <2>3. Late(r, a, m) \in 0 .. 1 /\ Late(r, a, m)' \in 0 .. 1
    BY DEF Late
  <2>4. granted[a][m] + u <= rpm[a][m] /\ (RPMLimit[a] > 0 => granted[a][m] <= RPMLimit[a])
    BY <1>2 DEF Metered, MinuteBalance, RPMBound
  <2>5. Measured(r, a, m)
    BY <1>2
  <2> HIDE DEF u, v
  <2>6. granted'[a][m] + v <= rpm'[a][m]
    BY <2>1, <2>2, <2>3, <2>4, <2>5 DEF Measured
  <2>7. RPMLimit[a] > 0 => granted'[a][m] <= RPMLimit[a]
    BY <2>1, <2>2, <2>4, <2>5 DEF Measured
  <2> QED
    BY <2>6, <2>7 DEF v
<1>3. MinuteBalance' /\ RPMBound'
  BY <1>2 DEF MinuteBalance, RPMBound
<1> QED
  BY <1>1, <1>3 DEF Metered

\* A step that leaves the counters alone may only end an undoing.
LEMMA QuietMeasured ==
  ASSUME Routed, NEW r \in Request, pc'[r] # "undoRpm", UNCHANGED <<rpm, granted>>
  PROVE  \A a \in Account, m \in 0 .. LastMinute : Measured(r, a, m)
<1> SUFFICES ASSUME NEW a \in Account, NEW m \in 0 .. LastMinute PROVE Measured(r, a, m)
  OBVIOUS
<1>1. Late(r, a, m)' = 0 /\ Late(r, a, m) \in 0 .. 1
  BY DEF Late
<1>2. rpm[a][m] \in Int /\ granted[a][m] \in Nat
  <2>1. /\ rpm \in [Account -> [0 .. LastMinute -> Int]]
        /\ granted \in [Account -> [0 .. LastMinute -> Nat]]
    BY DEF Routed, TypeOK
  <2> QED
    BY <2>1
<1> QED
  BY <1>1, <1>2 DEF Measured

LEMMA QuietMinutes ==
  ASSUME Routed, NEW r \in Request, RequestStep(r),
         ~ReserveRPM(r), ~UndoRPM(r), ~(ReserveError(r) /\ pc[r] = "rpm")
  PROVE  \A a \in Account, m \in 0 .. LastMinute : Measured(r, a, m)
<1>1. Tables
  BY RoutedParts
<1>2. CASE SearchSticky(r) \/ SearchByStatus(r) \/ SearchError(r)
  BY <1>2, SearchQuiet, QuietMeasured
<1>3. CASE UndoConcurrency(r) \/ UndoError(r)
  <2>1. pc[r] \in Trying /\ Dropped(r) /\ UNCHANGED <<route, sent, rpm, granted>>
    BY <1>3 DEF UndoConcurrency, UndoError, Trying
  <2>2. pc'[r] # "undoRpm"
    BY <2>1, DroppedRouted
  <2> QED
    BY <2>1, <2>2, QuietMeasured
<1>4. CASE ReserveConcurrency(r) \/ ReserveError(r)
  <2>1. pc[r] = "conc" /\ pc[r] \in Trying /\ UNCHANGED <<rpm, granted>>
    BY <1>4 DEF ReserveConcurrency, ReserveError, Trying
  <2>2. (\E l : Selected(r, l)) \/ Goto(r, "undoConc")
    BY <1>4, <2>1 DEF ReserveConcurrency, ReserveError
  <2>3. pc'[r] # "undoRpm"
    BY <1>1, <2>1, <2>2, SelectedRoute DEF Goto, Tables
  <2> QED
    BY <2>1, <2>3, QuietMeasured
<1>5. CASE Forbidden(r) \/ Kill(r)
  <2>1. End(r) /\ UNCHANGED <<rpm, granted>>
    BY <1>5 DEF Forbidden, Kill, Abandon
  <2> QED
    BY <2>1, EndRouted, QuietMeasured
<1>6. CASE Release(r) \/ ReleaseError(r)
  <2>1. AfterRelease(r) /\ UNCHANGED <<rpm, granted>>
    BY <1>6 DEF Release, ReleaseError
  <2> QED
    BY <2>1, AfterReleaseRouted, QuietMeasured
<1>7. CASE Begin(r) \/ Refuse(r) \/ Proceed(r) \/ CoolDown(r) \/ UpdateHealth(r)
  <2>1. pc'[r] # "undoRpm" /\ UNCHANGED <<rpm, granted>>
    BY <1>1, <1>7 DEF Begin, Refuse, Proceed, CoolDown, UpdateHealth, Goto, Tables, redis
  <2> QED
    BY <2>1, QuietMeasured
<1>8. CASE Upstream(r)
  <2>1. pc'[r] # "undoRpm" /\ UNCHANGED <<rpm, granted>>
    BY <1>1, <1>8 DEF Upstream, Headers, Finish, Fail, Goto, Tables, redis
  <2> QED
    BY <2>1, QuietMeasured
<1> QED
  BY <1>2, <1>3, <1>4, <1>5, <1>6, <1>7, <1>8 DEF RequestStep, Selecting, Routing, Closing

\* An increment is granted below the limit, or will be taken back.
LEMMA ReserveRPMMeasured ==
  ASSUME Routed, NEW r \in Request, ReserveRPM(r)
  PROVE  \A a \in Account, m \in 0 .. LastMinute : Measured(r, a, m)
<1> DEFINE b == Reserving(r)
<1>1. pc[r] = "rpm" /\ pc[r] \in Trying
  BY DEF ReserveRPM, Trying
<1>2. Tables /\ SharedOK /\ RequestOK(r)
  BY RoutedParts
<1>3. /\ b \in Account /\ b = trial[r].acct /\ minute \in 0 .. LastMinute
      /\ rpm[b][minute] + 1 \in Int /\ granted[b][minute] + 1 \in Nat
  BY <1>1, TryingOne
<1>4. rpm \in [Account -> [0 .. LastMinute -> Int]]
      /\ granted \in [Account -> [0 .. LastMinute -> Nat]]
  BY <1>2 DEF SharedOK
<1>5. CASE Goto(r, "conc") /\ UNCHANGED <<rpm, granted>>
  <2>1. pc'[r] = "conc"
    BY <1>2, <1>5 DEF Goto, Tables
  <2> QED
    BY <1>5, <2>1, QuietMeasured
<1>6. CASE /\ trial' = [trial EXCEPT ![r].stamp = minute]
           /\ rpm' = [rpm EXCEPT ![b][minute] = rpm[b][minute] + 1]
           /\ \/ /\ WithinRPM(b) /\ Goto(r, "conc")
                 /\ granted' = [granted EXCEPT ![b][minute] = granted[b][minute] + 1]
              \/ Goto(r, "undoRpm") /\ UNCHANGED granted
  <2> SUFFICES ASSUME NEW a \in Account, NEW m \in 0 .. LastMinute PROVE Measured(r, a, m)
    OBVIOUS
  <2>1. rpm[a][m] \in Int /\ granted[a][m] \in Nat
    BY <1>4
  <2>2. Late(r, a, m) = 0
    BY <1>1 DEF Late
  <2>3. trial'[r].acct = b /\ trial'[r].stamp = minute
    <3>1. trial'[r] = [trial[r] EXCEPT !.stamp = minute]
      BY <1>2, <1>6 DEF Tables
    <3> QED
      BY <1>2, <1>3, <3>1 DEF RequestOK, TrialType
  <2>4. WithinRPM(b) => rpm[b][minute] + 1 <= RPMLimit[b]
    BY DEF WithinRPM
  <2> HIDE DEF b
  <2>5. rpm'[a][m] = IF a = b /\ m = minute THEN rpm[a][m] + 1 ELSE rpm[a][m]
    BY <1>3, <1>4, <1>6, MinuteEntry
  <2>6. CASE Goto(r, "undoRpm") /\ UNCHANGED granted
    <3>1. Late(r, a, m)' = IF a = b /\ m = minute THEN 1 ELSE 0
      BY <1>2, <2>3, <2>6 DEF Late, Goto, Tables
    <3> QED
      BY <2>1, <2>2, <2>5, <2>6, <3>1 DEF Measured
  <2>7. CASE /\ WithinRPM(b) /\ Goto(r, "conc")
             /\ granted' = [granted EXCEPT ![b][minute] = granted[b][minute] + 1]
    <3>1. Late(r, a, m)' = 0
      BY <1>2, <2>7 DEF Late, Goto, Tables
    <3>2. granted'[a][m] = IF a = b /\ m = minute THEN granted[a][m] + 1 ELSE granted[a][m]
      BY <1>3, <1>4, <2>7, MinuteEntry
    <3> QED
      BY <2>1, <2>2, <2>4, <2>5, <2>7, <3>1, <3>2 DEF Measured
  <2> QED
    BY <1>6, <2>6, <2>7
<1> QED
  BY <1>5, <1>6 DEF ReserveRPM

\* The increment of the minute in which it was made is taken back.
LEMMA UndoRPMMeasured ==
  ASSUME Routed, NEW r \in Request, UndoRPM(r)
  PROVE  \A a \in Account, m \in 0 .. LastMinute : Measured(r, a, m)
<1> DEFINE b == Reserving(r)
           n == trial[r].stamp
<1>1. pc[r] = "undoRpm" /\ pc[r] \in Trying /\ Dropped(r) /\ UNCHANGED <<route, sent, granted>>
      /\ rpm' = [rpm EXCEPT ![b][n] = rpm[b][n] - 1]
  BY DEF UndoRPM, Trying
<1>2. /\ b \in Account /\ b = trial[r].acct /\ n \in 0 .. LastMinute
      /\ rpm[b][n] - 1 \in Int
  BY <1>1, TryingOne
<1>3. rpm \in [Account -> [0 .. LastMinute -> Int]]
      /\ granted \in [Account -> [0 .. LastMinute -> Nat]]
  BY RoutedParts DEF SharedOK
<1>4. pc'[r] # "undoRpm"
  BY <1>1, DroppedRouted
<1> SUFFICES ASSUME NEW a \in Account, NEW m \in 0 .. LastMinute PROVE Measured(r, a, m)
  OBVIOUS
<1>5. rpm[a][m] \in Int /\ granted[a][m] \in Nat
  BY <1>3
<1>6. Late(r, a, m)' = 0 /\ Late(r, a, m) = (IF a = b /\ m = n THEN 1 ELSE 0)
  BY <1>1, <1>2, <1>4 DEF Late
<1> HIDE DEF b, n
<1>7. rpm'[a][m] = IF a = b /\ m = n THEN rpm[a][m] - 1 ELSE rpm[a][m]
  BY <1>1, <1>2, <1>3, MinuteEntry
<1> QED
  BY <1>1, <1>5, <1>6, <1>7 DEF Measured

\* An INCR whose answer is lost grants nothing and is never taken back.
LEMMA RPMErrorMeasured ==
  ASSUME Routed, NEW r \in Request, ReserveError(r), pc[r] = "rpm"
  PROVE  \A a \in Account, m \in 0 .. LastMinute : Measured(r, a, m)
<1> DEFINE b == Reserving(r)
<1>1. PICK k \in 0 .. 1 : rpm' = [rpm EXCEPT ![b][minute] = rpm[b][minute] + k]
  BY DEF ReserveError
<1>2. Goto(r, "conc") /\ granted' = granted
  BY DEF ReserveError
<1>3. pc[r] \in Trying
  BY DEF Trying
<1>4. b \in Account /\ minute \in 0 .. LastMinute /\ rpm[b][minute] + k \in Int
  BY <1>3, TryingOne
<1>5. Tables /\ SharedOK
  BY RoutedParts
<1>6. rpm \in [Account -> [0 .. LastMinute -> Int]]
      /\ granted \in [Account -> [0 .. LastMinute -> Nat]]
  BY <1>5 DEF SharedOK
<1>7. pc'[r] = "conc"
  BY <1>2, <1>5 DEF Goto, Tables
<1> SUFFICES ASSUME NEW a \in Account, NEW m \in 0 .. LastMinute PROVE Measured(r, a, m)
  OBVIOUS
<1>8. rpm[a][m] \in Int /\ granted[a][m] \in Nat
  BY <1>6
<1>9. Late(r, a, m)' = 0 /\ Late(r, a, m) = 0
  BY <1>7 DEF Late
<1> HIDE DEF b
<1>10. rpm'[a][m] = IF a = b /\ m = minute THEN rpm[a][m] + k ELSE rpm[a][m]
  BY <1>1, <1>4, <1>6, MinuteEntry
<1> QED
  BY <1>2, <1>8, <1>9, <1>10 DEF Measured

LEMMA OtherMetered ==
  ASSUME Metered, OtherStep
  PROVE  Metered'
<1>1. Routed'
  BY OtherRouted DEF Metered
<1>2. UNCHANGED <<pc, trial>> /\ UNCHANGED <<rpm, granted>>
  BY OtherStands DEF OtherStep, CooldownExpires, SetStatus, Recover, CounterExpires, Tick,
     vars, redis
<1>3. \A a \in Account, m \in 0 .. LastMinute : Overdue(a, m)' = Overdue(a, m)
  BY <1>2 DEF Overdue
<1> QED
  BY <1>1, <1>2, <1>3 DEF Metered, MinuteBalance, RPMBound

LEMMA MeteredKept == Metered /\ [Next]_vars => Metered'
<1> SUFFICES ASSUME Metered, [Next]_vars PROVE Metered'
  OBVIOUS
<1>1. Routed
  BY DEF Metered
<1>2. ASSUME NEW r \in Request, RequestStep(r) PROVE Metered'
  <2>1. \A a \in Account, m \in 0 .. LastMinute : Measured(r, a, m)
    BY <1>1, <1>2, QuietMinutes, ReserveRPMMeasured, UndoRPMMeasured, RPMErrorMeasured
  <2> QED
    BY <1>2, <2>1, MeasuredKeeps
<1> QED
  BY <1>2, StepKinds, OtherMetered

LEMMA InitMetered == Init => Metered
<1> SUFFICES ASSUME Init PROVE Metered
  OBVIOUS
<1>1. Routed
  BY InitRouted
<1>2. \A a \in Account, m \in 0 .. LastMinute :
        /\ Cardinality(Overdue(a, m)) = 0
        /\ rpm[a][m] = 0 /\ granted[a][m] = 0
  <2>1. \A a \in Account, m \in 0 .. LastMinute : Overdue(a, m) = {}
    BY DEF Init, Overdue
  <2> QED
    BY <2>1, FS_EmptySet DEF Init
<1>3. MinuteBalance
  BY <1>2 DEF MinuteBalance
<1>4. RPMBound
  BY <1>2, PoolAssumption DEF RPMBound
<1> QED
  BY <1>1, <1>3, <1>4 DEF Metered

\* No more than rpm_limit reservations of an account succeed in a minute.
THEOREM MinutesWithinLimit == Spec => []RPMBound
<1>1. Metered => RPMBound
  BY DEF Metered
<1> QED
  BY <1>1, InitMetered, MeteredKept, PTL DEF Spec

-------------------------------------------------------------------------------
(* Which accounts a request is sent to                                      *)

\* An account that failed r is neither tried nor used by r again; before its
\* handler closes, r was sent only to such accounts, and to the one it reads from.
Fresh(r) ==
    /\ pc[r] \in Trying => trial[r].acct \notin route[r].excluded
    /\ pc[r] \in {"resolved", "forward"} => route[r].acct \notin route[r].excluded
    /\ \A a \in Account :
         /\ sent[r][a] <= 1
         /\ sent[r][a] > 0 /\ pc[r] \notin {"health", "release"} =>
              a \in route[r].excluded \/ (pc[r] = "body" /\ a = route[r].acct)

Dispatched == Routed /\ \A r \in Request : Fresh(r)

LEMMA FreshKeeps ==
  ASSUME Dispatched, NEW r \in Request, RequestStep(r), Fresh(r)'
  PROVE  Dispatched'
<1>1. Routed' /\ Alone(r)
  BY StepMoves, RoutedKept, StepIsNext DEF Dispatched
<1>2. \A q \in Request \ {r} : Fresh(q)'
  BY <1>1 DEF Dispatched, Alone, Fresh
<1> QED
  BY <1>1, <1>2 DEF Dispatched

\* Whatever finds an account for r leaves out those that failed r.
LEMMA SearchFresh ==
  ASSUME Dispatched, NEW r \in Request, SearchSticky(r) \/ SearchByStatus(r) \/ SearchError(r)
  PROVE  Fresh(r)'
<1>1. Tables /\ Fresh(r)
  BY RoutedParts DEF Dispatched
<1>2. /\ pc[r] \in Searches
      /\ pc'[r] \in {"online", "degraded", "rpm", "release", "health"}
      /\ UNCHANGED <<route, sent>>
  BY SearchQuiet DEF Dispatched
<1>3. ASSUME NEW w, NEW a, Try(r, w, a) PROVE trial'[r].acct = a
  BY <1>1, <1>3 DEF Try, Tables
<1>4. pc'[r] = "rpm" => trial'[r].acct \notin route[r].excluded
  <2>1. ASSUME NEW w \in {"online", "degraded"}, NextSearch(r, w) PROVE pc'[r] # "rpm"
    BY <1>1, <2>1 DEF NextSearch, NoAccount, Goto, Tables
  <2>2. Goto(r, "online") => pc'[r] # "rpm"
    BY <1>1 DEF Goto, Tables
  <2>3. CASE SearchSticky(r)
    BY <1>3, <2>2, <2>3 DEF SearchSticky, StickyFor
  <2>4. CASE SearchByStatus(r)
    BY <1>3, <2>1, <2>4 DEF SearchByStatus, Candidates, Eligible
  <2>5. CASE SearchError(r)
    BY <1>3, <2>2, <2>5 DEF SearchError, Eligible
  <2> QED
    BY <2>3, <2>4, <2>5
<1> QED
  BY <1>1, <1>2, <1>4 DEF Fresh, Searches, Trying

LEMMA ReserveFresh ==
  ASSUME Dispatched, NEW r \in Request,
         \/ ReserveRPM(r) \/ UndoRPM(r) \/ ReserveConcurrency(r)
         \/ UndoConcurrency(r) \/ ReserveError(r) \/ UndoError(r)
  PROVE  Fresh(r)'
<1>1. Tables /\ Fresh(r) /\ Routed /\ RequestOK(r)
  BY RoutedParts DEF Dispatched
<1>2. pc[r] \in Trying /\ sent' = sent
  BY DEF ReserveRPM, UndoRPM, ReserveConcurrency, UndoConcurrency, ReserveError, UndoError,
     Trying
<1>3. /\ trial[r].acct \notin route[r].excluded
      /\ \A a \in Account : sent[r][a] <= 1 /\ (sent[r][a] > 0 => a \in route[r].excluded)
  BY <1>1, <1>2 DEF Fresh, Trying
<1>4. ASSUME Dropped(r), route' = route PROVE Fresh(r)'
  BY <1>1, <1>2, <1>3, <1>4, DroppedRouted DEF Fresh, Trying
<1>5. ASSUME NEW l, Selected(r, l) PROVE Fresh(r)'
  <2>1. /\ pc'[r] \in {"resolved", "forward"} /\ route'[r].acct = trial[r].acct
        /\ route'[r].excluded = route[r].excluded
    BY <1>1, <1>2, <1>5, SelectedRoute DEF Reserving
  <2> QED
    BY <1>2, <1>3, <2>1 DEF Fresh, Trying
<1>6. ASSUME pc'[r] \in Trying, trial'[r].acct = trial[r].acct, route' = route
      PROVE  Fresh(r)'
  BY <1>2, <1>3, <1>6 DEF Fresh, Trying
<1>7. CASE UndoRPM(r) \/ UndoConcurrency(r) \/ UndoError(r)
  BY <1>4, <1>7 DEF UndoRPM, UndoConcurrency, UndoError
<1>8. CASE ReserveRPM(r)
  <2>1. pc'[r] \in Trying /\ route' = route
    BY <1>1, <1>8 DEF ReserveRPM, Goto, Tables, Trying
  <2>2. trial' = trial \/ trial' = [trial EXCEPT ![r].stamp = minute]
    BY <1>8 DEF ReserveRPM
  <2>3. trial'[r] = trial[r] \/ trial'[r] = [trial[r] EXCEPT !.stamp = minute]
    BY <1>1, <2>2 DEF Tables
  <2>4. trial'[r].acct = trial[r].acct
    BY <1>1, <2>3 DEF RequestOK, TrialType
  <2> QED
    BY <1>6, <2>1, <2>4
<1>9. CASE ReserveConcurrency(r) \/ ReserveError(r)
  <2>1. \/ \E l : Selected(r, l)
        \/ UNCHANGED <<trial, route>> /\ (Goto(r, "undoConc") \/ Goto(r, "conc"))
    BY <1>9 DEF ReserveConcurrency, ReserveError
  <2>2. Goto(r, "undoConc") \/ Goto(r, "conc") => pc'[r] \in Trying
    BY <1>1 DEF Goto, Tables, Trying
  <2> QED
    BY <1>5, <1>6, <2>1, <2>2
<1> QED
  BY <1>7, <1>8, <1>9

\* Before it is sent, r was never sent to the account it got.
LEMMA SendFresh ==
  ASSUME Dispatched, NEW r \in Request, pc[r] = "forward", Send(r)
  PROVE  /\ \A a \in Account : sent'[r][a] <= 1
         /\ \A a \in Account :
              sent'[r][a] > 0 => a \in route[r].excluded \/ a = route[r].acct
<1>1. Tables /\ Fresh(r) /\ RequestOK(r)
  BY RoutedParts DEF Dispatched
<1>2. route[r].acct \in Account /\ sent[r] \in [Account -> Nat]
  BY <1>1 DEF RequestOK, RouteType, Having
<1>3. sent'[r] = [sent[r] EXCEPT ![route[r].acct] = @ + 1]
  BY <1>1 DEF Send, Tables
<1>4. /\ route[r].acct \notin route[r].excluded
      /\ \A a \in Account : sent[r][a] <= 1 /\ (sent[r][a] > 0 => a \in route[r].excluded)
  BY <1>1 DEF Fresh
<1> SUFFICES ASSUME NEW a \in Account
             PROVE  /\ sent'[r][a] <= 1
                    /\ sent'[r][a] > 0 => a \in route[r].excluded \/ a = route[r].acct
  OBVIOUS
<1>5. CASE a = route[r].acct
  <2>1. sent[r][a] = 0
    BY <1>2, <1>4, <1>5
  <2> QED
    BY <1>2, <1>3, <1>5, <2>1
<1>6. CASE a # route[r].acct
  <2>1. sent'[r][a] = sent[r][a]
    BY <1>2, <1>3, <1>6
  <2> QED
    BY <1>4, <2>1
<1> QED
  BY <1>5, <1>6

LEMMA UpstreamFresh ==
  ASSUME Dispatched, NEW r \in Request, Upstream(r)
  PROVE  Fresh(r)'
<1>1. Tables /\ Fresh(r) /\ RequestOK(r)
  BY RoutedParts DEF Dispatched
<1>2. pc[r] \in {"body", "forward"} /\ ((pc[r] = "forward" /\ Send(r)) \/ UNCHANGED sent)
  BY DEF Upstream, Headers, Finish, Fail
<1>3. /\ \A a \in Account : sent'[r][a] <= 1
      /\ \A a \in Account :
           sent'[r][a] > 0 => a \in route[r].excluded \/ a = route[r].acct
  BY <1>1, <1>2, SendFresh DEF Fresh
<1>4. CASE Headers(r)
  BY <1>1, <1>3, <1>4 DEF Headers, Goto, Tables, Fresh, Trying
<1>5. ASSUME NEW v \in Verdicts, Finish(r, v) PROVE Fresh(r)'
  BY <1>1, <1>3, <1>5 DEF Finish, Goto, Tables, Fresh, Trying
<1>6. ASSUME NEW v \in Verdicts, Fail(r, v) PROVE Fresh(r)'
  <2>1. route'[r] = [route[r] EXCEPT !.verdict = v, !.excluded = @ \cup {route[r].acct}]
    BY <1>1, <1>6 DEF Fail, Tables
  <2>2. route'[r].excluded = route[r].excluded \cup {route[r].acct}
    BY <1>1, <2>1 DEF RequestOK, RouteType
  <2>3. pc'[r] = "cool"
    BY <1>1, <1>6 DEF Fail, Goto, Tables
  <2> QED
    BY <1>3, <2>2, <2>3 DEF Fresh, Trying
<1> QED
  BY <1>4, <1>5, <1>6 DEF Upstream

LEMMA RestFresh ==
  ASSUME Dispatched, NEW r \in Request, Begin(r) \/ Routing(r) \/ Closing(r) \/ Kill(r)
  PROVE  Fresh(r)'
<1>1. Tables /\ Fresh(r) /\ RequestOK(r) /\ Routed
  BY RoutedParts DEF Dispatched
<1>2. ASSUME End(r) PROVE Fresh(r)'
  BY <1>1, <1>2, EndRouted DEF Fresh, Trying, Unsent
<1>3. CASE Begin(r) \/ Refuse(r) \/ Proceed(r) \/ CoolDown(r) \/ UpdateHealth(r)
  BY <1>1, <1>3 DEF Begin, Refuse, Proceed, CoolDown, UpdateHealth, Goto, Tables, Fresh, Trying
<1>4. CASE Forbidden(r) \/ Kill(r)
  BY <1>2, <1>4 DEF Forbidden, Kill, Abandon
<1>5. ASSUME pc[r] = "switch", Goto(r, "sticky"), route' = [route EXCEPT ![r].lease = None],
             UNCHANGED sent
      PROVE  Fresh(r)'
  <2>1. route'[r] = [route[r] EXCEPT !.lease = None]
    BY <1>1, <1>5 DEF Tables
  <2>2. route'[r].excluded = route[r].excluded
    BY <1>1, <2>1 DEF RequestOK, RouteType
  <2>3. pc'[r] = "sticky"
    BY <1>1, <1>5 DEF Goto, Tables
  <2> QED
    BY <1>1, <1>5, <2>2, <2>3 DEF Fresh, Trying
<1>6. CASE Release(r) \/ ReleaseError(r)
  BY <1>2, <1>5, <1>6 DEF Release, ReleaseError, AfterRelease
<1> QED
  BY <1>3, <1>4, <1>6 DEF Routing, Closing

LEMMA DispatchedKept == Dispatched /\ [Next]_vars => Dispatched'
<1> SUFFICES ASSUME Dispatched, [Next]_vars PROVE Dispatched'
  OBVIOUS
<1>1. ASSUME NEW r \in Request, RequestStep(r) PROVE Dispatched'
  <2>1. Fresh(r)'
    BY <1>1, SearchFresh, ReserveFresh, UpstreamFresh, RestFresh DEF RequestStep, Selecting
  <2> QED
    BY <1>1, <2>1, FreshKeeps
<1>2. CASE OtherStep
  <2>1. Routed' /\ UNCHANGED <<pc, trial, route, sent>>
    BY <1>2, OtherRouted, OtherStands DEF Dispatched
  <2> QED
    BY <2>1 DEF Dispatched, Fresh
<1> QED
  BY <1>1, <1>2, StepKinds

LEMMA InitDispatched == Init => Dispatched
<1> SUFFICES ASSUME Init PROVE Dispatched
  OBVIOUS
<1>1. Routed
  BY InitRouted
<1>2. \A r \in Request : Fresh(r)
  BY DEF Init, Fresh, Trying, Unsent
<1> QED
  BY <1>1, <1>2 DEF Dispatched

\* While it fails over, a request is never sent twice to the same account.
THEOREM NeverSentTwice == Spec => []SentOnce
<1>1. Dispatched => SentOnce
  BY DEF Dispatched, Fresh, SentOnce
<1> QED
  BY <1>1, InitDispatched, DispatchedKept, PTL DEF Spec

================================================================================
