-------------------------- MODULE AccountPagesProofs --------------------------
(***************************************************************************)
(* Theorems about AccountPages, for any users, any number of requests and  *)
(* any order of their answers, failures, moves and changes by other tabs.  *)
(***************************************************************************)
EXTENDS AccountPages, FiniteSetTheorems, TLAPS

-------------------------------------------------------------------------------
(* No login loop                                                            *)

\* The hook remembers a failure: the next guarded render goes to /login.
Stale(s) == s.user = Nobody /\ ~s.loading

Strike(s) == IF Stale(s) THEN 1 ELSE 0

\* A user is loading while his request is under way, and cached right after.
AuthState(s, l) ==
    /\ s = [user |-> s.user, loading |-> s.loading] /\ s.loading \in BOOLEAN
    /\ l = [phase |-> l.phase, n |-> l.n, user |-> l.user]
    /\ l.phase \in {"idle", "sent", "answered", "recent"}
    /\ l.phase # "idle" => ~Stale(s)
    /\ l.phase = "recent" => s.user # Nobody

\* A failure that is remembered has not been paid for yet.
LoginInv ==
    /\ AuthState(self, load)
    /\ path \in Guarded => ~Stale(self)
    /\ failed \in Nat /\ bounced \in Nat
    /\ bounced + Strike(self) <= 2 * failed

LEMMA StrikeType == \A s : Strike(s) \in {0, 1}
BY DEF Strike

LEMMA FreshState == AuthState(Fresh, NoLoad) /\ ~Stale(Fresh)
BY DEF AuthState, Fresh, NoLoad, Stale

LEMMA StartState ==
  ASSUME NEW s, NEW l, NEW t, AuthState(s, l), Start(t, s, l)
  PROVE  AuthState(self', load') /\ ~Stale(self') /\ self'.user = s.user
<1>1. self' = [user |-> s.user, loading |-> (s.user = Nobody)]
  BY DEF AuthState, Start
<1>2. load' = [phase |-> "sent", n |-> t, user |-> Nobody]
  BY DEF Start, Request
<1> QED
  BY <1>1, <1>2 DEF AuthState, Stale

\* Mounting a route spends at most the failure that is remembered.
LEMMA MountLogin ==
  ASSUME NEW p, NEW t, NEW s, NEW l, AuthState(s, l), bounced \in Nat, Mount(p, t, s, l)
  PROVE  /\ AuthState(self', load') /\ (path' \in Guarded => ~Stale(self'))
         /\ bounced' \in Nat /\ bounced' + Strike(self') <= bounced + Strike(s)
<1>1. CASE p \notin Guarded
  <2>1. path' = p /\ self' = s /\ load' = l /\ bounced' = bounced
    BY <1>1 DEF Mount, Bounced
  <2> QED
    BY <1>1, <2>1, StrikeType
<1>2. CASE p \in Guarded /\ t = NoSession
  <2>1. path' = "login" /\ self' = s /\ load' = l /\ bounced' = bounced
    BY <1>2 DEF Mount, Bounced, RequireAuth, Live
  <2> QED
    BY <2>1, StrikeType DEF Guarded
<1>3. CASE p \in Guarded /\ t # NoSession /\ Stale(s)
  <2>1. path' = "login"
    BY <1>3 DEF Mount, RequireAuth, Stale
  <2>2. Start(t, s, l)
    BY <1>3 DEF Mount, UseAuth, AuthState
  <2>3. AuthState(self', load') /\ ~Stale(self')
    BY <2>2, StartState
  <2>4. bounced' = bounced + 0 \/ bounced' = bounced + 1
    BY <1>3 DEF Mount, Bounced
  <2>5. Strike(s) = 1 /\ Strike(self') = 0
    BY <1>3, <2>3 DEF Strike
  <2>6. bounced' \in Nat /\ bounced' + Strike(self') <= bounced + Strike(s)
    BY <2>4, <2>5
  <2>7. AuthState(self', load') /\ (path' \in Guarded => ~Stale(self'))
    BY <2>3
  <2> QED
    BY <2>6, <2>7
<1>4. CASE p \in Guarded /\ t # NoSession /\ ~Stale(s)
  <2>1. path' # "login"
    BY <1>4 DEF Mount, RequireAuth, Stale, Guarded
  <2>2. bounced' = bounced
    BY <1>4, <2>1 DEF Mount, Bounced
  <2>3. AuthState(self', load') /\ ~Stale(self')
    <3>1. CASE l.phase # "idle"
      <4>1. self' = s /\ load' = l
        BY <1>4, <3>1 DEF Mount, UseAuth, Join
      <4> QED
        BY <4>1, <1>4
    <3>2. CASE l.phase = "idle"
      <4>1. Start(t, s, l)
        BY <1>4, <3>2 DEF Mount, UseAuth
      <4> QED
        BY <4>1, StartState
    <3> QED
      BY <3>1, <3>2
  <2> QED
    BY <2>2, <2>3, <1>4 DEF Strike
<1> QED
  BY <1>1, <1>2, <1>3, <1>4 DEF Mount

\* What leaves the route, the user and the counts alone.
LEMMA SameLogin ==
  ASSUME LoginInv, UNCHANGED <<path, self, load, failed, bounced>>
  PROVE  LoginInv'
BY DEF LoginInv, AuthState, Stale, Strike

LEMMA MountInv ==
  ASSUME LoginInv, NEW p, NEW t, UNCHANGED failed,
         Mount(p, t, self, load) \/ Mount(p, t, Fresh, NoLoad)
  PROVE  LoginInv'
<1>1. CASE Mount(p, t, self, load)
  <2>1. bounced' \in Nat /\ bounced' + Strike(self') <= bounced + Strike(self)
    BY <1>1, MountLogin DEF LoginInv
  <2>2. AuthState(self', load') /\ (path' \in Guarded => ~Stale(self'))
    BY <1>1, MountLogin DEF LoginInv
  <2> QED
    BY <2>1, <2>2, StrikeType DEF LoginInv
<1>2. CASE Mount(p, t, Fresh, NoLoad)
  <2>1. bounced' \in Nat /\ bounced' + Strike(self') <= bounced + Strike(Fresh)
    BY <1>2, MountLogin, FreshState DEF LoginInv
  <2>2. AuthState(self', load') /\ (path' \in Guarded => ~Stale(self'))
    BY <1>2, MountLogin, FreshState DEF LoginInv
  <2>3. Strike(Fresh) = 0
    BY FreshState DEF Strike
  <2> QED
    BY <2>1, <2>2, <2>3, StrikeType DEF LoginInv
<1> QED
  BY <1>1, <1>2

LEMMA LeftInv ==
  ASSUME LoginInv, path' \notin Guarded, self' = Fresh, load' = NoLoad,
         UNCHANGED <<failed, bounced>>
  PROVE  LoginInv'
<1>1. AuthState(self', load') /\ ~Stale(self')
  BY FreshState
<1> QED
  BY <1>1, StrikeType DEF LoginInv, Strike

LEMMA LoadDeliveredInv ==
  ASSUME LoginInv, LoadDelivered
  PROVE  LoginInv'
<1> DEFINE s == IF load.user # Nobody THEN [user |-> load.user, loading |-> FALSE]
                ELSE [self EXCEPT !.loading = FALSE]
<1>1. /\ load.phase = "answered" /\ self' = s /\ Bounced(path, token)
      /\ load' = IF load.user # Nobody THEN [load EXCEPT !.phase = "recent"] ELSE NoLoad
      /\ path' = IF path \in Guarded THEN RequireAuth(path, s, token) ELSE path
      /\ failed' = failed + (IF load.user # Nobody THEN 0 ELSE 1)
  BY DEF LoadDelivered
<1>2. ~Stale(self) /\ Strike(self) = 0
  BY <1>1 DEF LoginInv, AuthState, Strike
<1>3. CASE load.user # Nobody
  <2>1. self' = [user |-> load.user, loading |-> FALSE] /\ ~Stale(self')
    BY <1>1, <1>3 DEF Stale
  <2>2. load' = [phase |-> "recent", n |-> load.n, user |-> load.user]
    BY <1>1, <1>3 DEF LoginInv, AuthState
  <2>3. path \in Guarded /\ path' = "login" => ~Live(token)
    BY <1>1, <1>3 DEF RequireAuth, Guarded, Live
  <2>4. bounced' = bounced /\ failed' = failed
    BY <1>1, <1>3, <2>3 DEF Bounced, LoginInv
  <2> QED
    BY <2>1, <2>2, <2>4, <1>2, <1>3 DEF LoginInv, AuthState, Strike
<1>4. CASE load.user = Nobody
  <2>1. self' = [user |-> self.user, loading |-> FALSE]
    BY <1>1, <1>4 DEF LoginInv, AuthState
  <2>2. path' \in Guarded => ~Stale(self')
    BY <1>1, <1>4, <2>1 DEF RequireAuth, Stale, Guarded
  <2>3. AuthState(self', load')
    BY <1>1, <1>4, <2>1 DEF AuthState, NoLoad
  <2>4. bounced' \in {bounced, bounced + 1} /\ failed' = failed + 1
    BY <1>1, <1>4 DEF Bounced, LoginInv
  <2> QED
    BY <2>2, <2>3, <2>4, <1>2, StrikeType DEF LoginInv
<1> QED
  BY <1>3, <1>4

LEMMA SignedInLogin ==
  ASSUME LoginInv, NEW c, SignedIn(c)
  PROVE  LoginInv'
<1>1. CASE path # "dashboard"
  <2>1. Mount("dashboard", c.session, self, load) /\ UNCHANGED failed
    BY <1>1 DEF SignedIn
  <2> QED
    BY <2>1, MountInv
<1>2. CASE path = "dashboard"
  <2>1. /\ path' = RequireAuth(path, self, c.session) /\ Bounced(path, c.session)
        /\ UNCHANGED <<self, load, failed>>
    BY <1>2 DEF SignedIn
  <2>2. ~Stale(self)
    BY <1>2 DEF LoginInv, Guarded
  <2>3. path' = "login" => ~Live(c.session)
    BY <1>2, <2>1, <2>2 DEF RequireAuth, Live, Stale
  <2>4. bounced' = bounced
    BY <2>1, <2>3 DEF Bounced, LoginInv
  <2> QED
    BY <2>1, <2>2, <2>4 DEF LoginInv, AuthState, Stale, Strike
<1> QED
  BY <1>1, <1>2

LEMMA SettingsLogin ==
  ASSUME LoginInv, NEW c, PasswordChanged(c) \/ ProfileSaved(c) \/ SettingsServed(c)
  PROVE  LoginInv'
<1>1. CASE PasswordChanged(c)
  BY <1>1, LeftInv DEF PasswordChanged, Left, history, Guarded
<1>2. CASE ProfileSaved(c)
  <2>1. UNCHANGED <<path, self, failed, bounced>>
    BY <1>2 DEF ProfileSaved, history
  <2>2. CASE load' = load
    BY <2>1, <2>2, SameLogin
  <2>3. CASE path \in Guarded /\ load' = Request(token)
    <3>1. ~Stale(self) /\ load' = [phase |-> "sent", n |-> token, user |-> Nobody]
      BY <2>3 DEF LoginInv, Request
    <3> QED
      BY <3>1, <2>1 DEF LoginInv, AuthState, Stale, Strike
  <2> QED
    BY <2>2, <2>3, <1>2 DEF ProfileSaved
<1>3. CASE SettingsServed(c)
  BY <1>3, SameLogin DEF SettingsServed, Refused, auth, history
<1> QED
  BY <1>1, <1>2, <1>3

LEMMA SessionLogin ==
  ASSUME LoginInv, SessionNext
  PROVE  LoginInv'
<1>1. CASE LoadServed
  <2>1. /\ load.phase = "sent" /\ load'.phase = "answered"
        /\ load' = [phase |-> "answered", n |-> load'.n, user |-> load'.user]
    BY <1>1 DEF LoadServed, LoginInv, AuthState
  <2>2. UNCHANGED <<path, self, failed, bounced>>
    BY <1>1 DEF LoadServed, history
  <2> QED
    BY <2>1, <2>2 DEF LoginInv, AuthState, Stale, Strike
<1>2. CASE LoadDelivered
  BY <1>2, LoadDeliveredInv
<1>3. CASE DedupingEnds
  <2>1. load' = NoLoad /\ UNCHANGED <<path, self, failed, bounced>>
    BY <1>3 DEF DedupingEnds, history
  <2> QED
    BY <2>1 DEF LoginInv, AuthState, Stale, Strike, NoLoad
<1>4. CASE SignIn \/ Exchange \/ Denied \/ ChangePassword \/ SaveProfile \/ Expire
  BY <1>4, SameLogin DEF SignIn, Exchange, Denied, ChangePassword, SaveProfile, Expire, Send, auth,
                         history
<1>5. CASE GithubReturn \/ Logout
  BY <1>5, LeftInv DEF GithubReturn, Logout, Left, history, Guarded
<1>6. CASE Visit \/ Reload
  BY <1>6, MountInv DEF Visit, Reload
<1>7. CASE OtherTab
  BY <1>7, SameLogin DEF OtherTab
<1>8. CASE \E c \in pending :
              \/ LoginServed(c) \/ GithubServed(c) \/ Told(c)
              \/ c.state \notin {"ok", "error"} /\ Refused(c)
  BY <1>8, SameLogin DEF LoginServed, GithubServed, Told, Refused, Goes, auth, history
<1>9. CASE \E c \in pending : SignedIn(c)
  BY <1>9, SignedInLogin
<1>10. CASE \E c \in pending : PasswordChanged(c) \/ ProfileSaved(c) \/ SettingsServed(c)
  BY <1>10, SettingsLogin
<1> QED
  BY <1>1, <1>2, <1>3, <1>4, <1>5, <1>6, <1>7, <1>8, <1>9, <1>10 DEF SessionNext

LEMMA CodesLogin ==
  ASSUME LoginInv, CodesNext
  PROVE  LoginInv'
<1>1. CASE OnSendCode \/ CountDown \/ OnSubmit \/ CodeAges
  BY <1>1, SameLogin DEF OnSendCode, CountDown, OnSubmit, CodeAges, Send, auth, history
<1>2. CASE \E c \in pending : ForgotReturned(c)
  <2>1. PICK c \in pending : ForgotReturned(c)
    BY <1>2
  <2>2. CASE Mount("login", token, self, load)
    BY <2>1, <2>2, MountInv DEF ForgotReturned
  <2>3. CASE UNCHANGED <<path, self, load, form, bounced>>
    BY <2>1, <2>3, SameLogin DEF ForgotReturned
  <2> QED
    BY <2>1, <2>2, <2>3 DEF ForgotReturned
<1>3. CASE \E c \in pending :
              \/ SendReturned(c) \/ StoreCode(c) \/ MailCode(c) \/ CheckCode(c) \/ DropCode(c)
              \/ CheckAddress(c) \/ CreateUser(c) \/ ApplySignupBonuses(c) \/ ResetPassword(c)
  BY <1>3, SameLogin DEF SendReturned, StoreCode, MailCode, CheckCode, DropCode, CheckAddress,
       CreateUser, ApplySignupBonuses, ResetPassword, AtServer, auth, history
<1> QED
  BY <1>1, <1>2, <1>3 DEF CodesNext

LEMMA LoginCorrect == Spec => []LoginInv
<1>1. Init => LoginInv
  BY FreshState, StrikeType DEF Init, LoginInv, Strike, Guarded, Purpose
<1>2. LoginInv /\ [Next]_vars => LoginInv'
  <2> SUFFICES ASSUME LoginInv, [Next]_vars PROVE LoginInv'
    OBVIOUS
  <2>1. CASE Next
    BY <2>1, SessionLogin, CodesLogin DEF Next
  <2>2. CASE UNCHANGED vars
    BY <2>2, SameLogin DEF vars, auth, history
  <2> QED
    BY <2>1, <2>2
<1> QED
  BY <1>1, <1>2, PTL DEF Spec

\* Whoever has a live session is sent to the login page at most twice for each
\* time that his user could not be loaded, whatever he does and in however many
\* tabs: RequireAuth and useAuth never make a loop of it.
THEOREM LoginLoopFree == Spec => []NoLoginLoop
<1>1. LoginInv => NoLoginLoop
  BY StrikeType DEF LoginInv, NoLoginLoop, Strike
<1> QED
  BY <1>1, LoginCorrect, PTL

-------------------------------------------------------------------------------
(* Handlers: what a form's request carries, and how far it may have come.       *)

Shape(c) ==
    c = [n |-> c.n, op |-> c.op, purpose |-> c.purpose, user |-> c.user, code |-> c.code,
         here |-> c.here, state |-> c.state, session |-> c.session]

Good(c) ==
    /\ Shape(c)
    /\ c.op \in Purpose => c.purpose = c.op /\ c.user = NewUser
    /\ c.op = "send" => c.purpose \in Purpose
    /\ c.state = "stored" => c.op = "send"
    /\ c.state \in {"checked", "dropped"} => c.op \in Purpose
    /\ c.state \in {"unused", "created"} => c.op = "register"

HandlersInv == \A c \in pending : Good(c)

\* A handler that the server has not begun with, or is done with.
AtRest(c) == Good(c) /\ c.state \in {"sent", "ok", "error"}

\* The handlers that the server is busy with stay as they are, or lose their
\* page together.
Kept ==
    \/ pending' \subseteq Orphaned(pending)
    \/ \A d \in pending' : d \in pending \/ AtRest(d)

LEMMA GoodFields ==
  ASSUME NEW c, Good(c), NEW h, NEW s, NEW k,
         s \in {"checked", "dropped"} => c.op \in Purpose,
         s \in {"unused", "created"} => c.op = "register",
         s = "stored" => c.op = "send",
         NEW d, d \in {[c EXCEPT !.here = h], [c EXCEPT !.state = s],
                       [c EXCEPT !.state = s, !.session = k]}
  PROVE  /\ d.state = s \/ d.state = c.state
         /\ d.op = c.op /\ d.purpose = c.purpose /\ d.user = c.user /\ d.code = c.code
         /\ Good(d)
<1>1. CASE d = [c EXCEPT !.here = h]
  <2>1. d = [n |-> c.n, op |-> c.op, purpose |-> c.purpose, user |-> c.user, code |-> c.code,
             here |-> h, state |-> c.state, session |-> c.session]
    BY <1>1 DEF Good, Shape
  <2>2. /\ d.n = c.n /\ d.op = c.op /\ d.purpose = c.purpose /\ d.user = c.user
        /\ d.code = c.code /\ d.here = h /\ d.state = c.state /\ d.session = c.session
    BY <2>1
  <2> QED
    BY <2>1, <2>2 DEF Good, Shape
<1>2. CASE d = [c EXCEPT !.state = s]
  <2>1. d = [n |-> c.n, op |-> c.op, purpose |-> c.purpose, user |-> c.user, code |-> c.code,
             here |-> c.here, state |-> s, session |-> c.session]
    BY <1>2 DEF Good, Shape
  <2>2. /\ d.n = c.n /\ d.op = c.op /\ d.purpose = c.purpose /\ d.user = c.user
        /\ d.code = c.code /\ d.here = c.here /\ d.state = s /\ d.session = c.session
    BY <2>1
  <2> QED
    BY <2>1, <2>2 DEF Good, Shape
<1>3. CASE d = [c EXCEPT !.state = s, !.session = k]
  <2>1. d = [n |-> c.n, op |-> c.op, purpose |-> c.purpose, user |-> c.user, code |-> c.code,
             here |-> c.here, state |-> s, session |-> k]
    BY <1>3 DEF Good, Shape
  <2>2. /\ d.n = c.n /\ d.op = c.op /\ d.purpose = c.purpose /\ d.user = c.user
        /\ d.code = c.code /\ d.here = c.here /\ d.state = s /\ d.session = k
    BY <2>1
  <2> QED
    BY <2>1, <2>2 DEF Good, Shape
<1> QED
  BY <1>1, <1>2, <1>3

LEMMA GoesGood ==
  ASSUME NEW c, Good(c), NEW s,
         s \in {"checked", "dropped"} => c.op \in Purpose,
         s \in {"unused", "created"} => c.op = "register",
         s = "stored" => c.op = "send"
  PROVE  LET d == [c EXCEPT !.state = s] IN
         /\ Good(d) /\ d.state = s
         /\ d.op = c.op /\ d.purpose = c.purpose /\ d.user = c.user /\ d.code = c.code
<1>1. [c EXCEPT !.state = s].state = s
  BY DEF Good, Shape
<1> QED
  BY <1>1, GoodFields

LEMMA OrphanedGood ==
  ASSUME NEW c, Good(c)
  PROVE  LET d == [c EXCEPT !.here = FALSE] IN
         /\ Good(d) /\ d.state = c.state
         /\ d.op = c.op /\ d.purpose = c.purpose /\ d.user = c.user /\ d.code = c.code
<1>1. ASSUME NEW h
      PROVE  LET d == [c EXCEPT !.here = h] IN
             /\ Good(d) /\ d.state = c.state
             /\ d.op = c.op /\ d.purpose = c.purpose /\ d.user = c.user /\ d.code = c.code
  <2>1. [c EXCEPT !.here = h].state = c.state
    BY DEF Good, Shape
  <2>3. /\ c.state \in {"checked", "dropped"} => c.op \in Purpose
        /\ c.state \in {"unused", "created"} => c.op = "register"
        /\ c.state = "stored" => c.op = "send"
    BY DEF Good
  <2>4. PICK d : d = [c EXCEPT !.here = h]
    OBVIOUS
  <2>5. /\ d.state = c.state /\ d.op = c.op /\ d.purpose = c.purpose /\ d.user = c.user
        /\ d.code = c.code /\ Good(d)
    BY <2>4, <2>3 DEF Good, Shape
  <2> QED
    BY <2>4, <2>5
<1> QED
  BY <1>1

LEMMA EndedAtRest ==
  ASSUME NEW c, Good(c), NEW s \in {"ok", "error"}
  PROVE  /\ AtRest([c EXCEPT !.state = s])
         /\ AtRest([c EXCEPT !.state = s, !.session = Len(owner) + 1])
<1>1. AtRest([c EXCEPT !.state = s])
  BY GoesGood DEF AtRest
<1>2. ASSUME NEW k
      PROVE  AtRest([c EXCEPT !.state = s, !.session = k])
  <2>1. [c EXCEPT !.state = s, !.session = k].state = s
    BY DEF Good, Shape
  <2> QED
    BY <2>1, GoodFields DEF AtRest
<1> QED
  BY <1>1, <1>2

LEMMA SendKept ==
  ASSUME NEW kind, NEW op, NEW u, NEW k, Send(kind, op, u, k),
         op \in Purpose => op = path /\ u = NewUser, op = "send" => path \in Purpose
  PROVE  Kept
<1> DEFINE d == [n |-> count + 1, op |-> op, purpose |-> path, user |-> u, code |-> k,
                 here |-> TRUE, state |-> "sent", session |-> token]
<1>1. pending' = pending \cup {d}
  BY DEF Send
<1>2. AtRest(d)
  BY DEF AtRest, Good, Shape
<1> QED
  BY <1>1, <1>2 DEF Kept

LEMMA EndedKept ==
  ASSUME HandlersInv, NEW c \in pending,
         Goes(c, "ok") \/ Goes(c, "error") \/ Issue(c) \/ Refused(c)
  PROVE  Kept
<1>1. Good(c)
  BY DEF HandlersInv
<1>2. CASE Goes(c, "ok") \/ Goes(c, "error") \/ Refused(c)
  BY <1>1, <1>2, EndedAtRest DEF Goes, Refused, Kept
<1>3. CASE Issue(c)
  BY <1>1, <1>3, EndedAtRest DEF Issue, Kept
<1> QED
  BY <1>2, <1>3

LEMMA SessionKept ==
  ASSUME HandlersInv, SessionNext
  PROVE  Kept
<1>1. CASE LoadServed \/ DedupingEnds \/ OtherTab \/ Expire \/ Denied
  BY <1>1 DEF LoadServed, DedupingEnds, OtherTab, Expire, Denied, Kept
<1>2. CASE LoadDelivered \/ Visit
  BY <1>2 DEF LoadDelivered, Visit, Kept
<1>3. CASE GithubReturn \/ Logout \/ Reload
  BY <1>3 DEF GithubReturn, Logout, Left, Reload, Kept
<1>4. CASE SignIn \/ Exchange \/ ChangePassword \/ SaveProfile
  BY <1>4, SendKept DEF SignIn, Exchange, ChangePassword, SaveProfile, Purpose
<1>5. ASSUME NEW c \in pending,
             \/ LoginServed(c) \/ GithubServed(c) \/ SettingsServed(c)
             \/ c.state \notin {"ok", "error"} /\ Refused(c) /\ Spend("faults")
      PROVE  Kept
  BY <1>5, EndedKept DEF LoginServed, GithubServed, SettingsServed
<1>6. ASSUME NEW c \in pending, SignedIn(c)
      PROVE  Kept
  BY <1>6 DEF SignedIn, Kept, Orphaned
<1>7. ASSUME NEW c \in pending, Told(c) \/ PasswordChanged(c) \/ ProfileSaved(c)
      PROVE  Kept
  BY <1>7 DEF Told, PasswordChanged, ProfileSaved, Left, Kept
<1> QED
  BY <1>1, <1>2, <1>3, <1>4, <1>5, <1>6, <1>7 DEF SessionNext

LEMMA KeptBusy ==
  ASSUME HandlersInv, Kept, NEW d \in pending', d.state \notin {"sent", "ok", "error"}
  PROVE  \E c \in pending : /\ c.state = d.state /\ c.op = d.op /\ c.purpose = d.purpose
                            /\ c.user = d.user /\ c.code = d.code
<1>1. CASE pending' \subseteq Orphaned(pending)
  <2>1. PICK c \in pending : d = [c EXCEPT !.here = FALSE]
    BY <1>1 DEF Orphaned
  <2>2. Good(c)
    BY DEF HandlersInv
  <2> QED
    BY <2>1, <2>2, OrphanedGood
<1>2. CASE d \in pending \/ AtRest(d)
  BY <1>2 DEF AtRest
<1> QED
  BY <1>1, <1>2 DEF Kept

\* What the server does with a request of a form or for a code, up to its answer.
ServerStep(c) ==
    StoreCode(c) \/ CheckCode(c) \/ DropCode(c) \/ CheckAddress(c) \/ CreateUser(c)

LEMMA CodesKept ==
  ASSUME HandlersInv, CodesNext
  PROVE  Kept \/ \E c \in pending : ServerStep(c)
<1>1. CASE OnSendCode
  BY <1>1, SendKept DEF OnSendCode, Purpose
<1>2. CASE OnSubmit
  BY <1>2, SendKept DEF OnSubmit, Purpose
<1>3. CASE CountDown \/ CodeAges
  BY <1>3 DEF CountDown, CodeAges, Kept
<1>4. ASSUME NEW c \in pending, SendReturned(c) \/ ForgotReturned(c)
      PROVE  Kept
  BY <1>4 DEF SendReturned, ForgotReturned, Kept, Orphaned
<1>5. ASSUME NEW c \in pending, MailCode(c) \/ ApplySignupBonuses(c) \/ ResetPassword(c)
      PROVE  Kept
  BY <1>5, EndedKept DEF MailCode, ApplySignupBonuses, ResetPassword
<1> QED
  BY <1>1, <1>2, <1>3, <1>4, <1>5 DEF CodesNext, ServerStep

\* A code that is stored is known to its handler, unless the answer is lost.
LEMMA StorePending ==
  ASSUME NEW c, Good(c), StoreCode(c)
  PROVE  \E d : /\ pending' = (pending \ {c}) \cup {d} /\ Good(d)
                /\ d.op = "send" /\ d.purpose = c.purpose /\ d.state \in {"stored", "error"}
                /\ d.state = "stored" => d.code = issued'[c.purpose]
<1>0. c.op = "send"
  BY DEF StoreCode
<1>1. CASE Goes(c, "error")
  <2>1. PICK d : d = [c EXCEPT !.state = "error"]
    OBVIOUS
  <2>2. Good(d) /\ d.state = "error" /\ d.op = c.op /\ d.purpose = c.purpose
    BY <2>1, GoesGood
  <2>3. pending' = (pending \ {c}) \cup {d}
    BY <1>1, <2>1 DEF Goes
  <2> QED
    BY <1>0, <2>2, <2>3
<1>2. ASSUME NEW k,
             pending' = (pending \ {c}) \cup {[c EXCEPT !.state = "stored", !.code = k]},
             k = issued'[c.purpose]
      PROVE  \E d : /\ pending' = (pending \ {c}) \cup {d} /\ Good(d)
                    /\ d.op = "send" /\ d.purpose = c.purpose
                    /\ d.state \in {"stored", "error"}
                    /\ d.state = "stored" => d.code = issued'[c.purpose]
  <2>1. PICK d : d = [c EXCEPT !.state = "stored", !.code = k]
    OBVIOUS
  <2>2. d = [n |-> c.n, op |-> c.op, purpose |-> c.purpose, user |-> c.user, code |-> k,
             here |-> c.here, state |-> "stored", session |-> c.session]
    BY <2>1 DEF Good, Shape
  <2>3. /\ d.n = c.n /\ d.op = c.op /\ d.purpose = c.purpose /\ d.user = c.user
        /\ d.code = k /\ d.here = c.here /\ d.state = "stored" /\ d.session = c.session
    BY <2>2
  <2>4. Good(d)
    BY <1>0, <2>2, <2>3 DEF Good, Shape
  <2> QED
    BY <1>0, <1>2, <2>1, <2>3, <2>4
<1> QED
  BY <1>1, <1>2 DEF StoreCode

LEMMA ServerStepPending ==
  ASSUME NEW c, ServerStep(c)
  PROVE  \/ Goes(c, "error")
         \/ StoreCode(c)
         \/ CheckCode(c) /\ c.op \in Purpose /\ Goes(c, "checked")
         \/ DropCode(c) /\ c.state = "checked" /\ Goes(c, "dropped")
         \/ CheckAddress(c) /\ c.op = "register" /\ Goes(c, "unused")
         \/ CreateUser(c) /\ c.state = "unused" /\ Goes(c, "created")
BY DEF ServerStep, CheckCode, DropCode, CheckAddress, CreateUser

LEMMA HandlersStep ==
  ASSUME HandlersInv, [Next]_vars
  PROVE  HandlersInv'
<1>1. CASE Kept
  <2>1. CASE pending' \subseteq Orphaned(pending)
    BY <2>1, OrphanedGood DEF HandlersInv, Orphaned
  <2>2. CASE \A d \in pending' : d \in pending \/ AtRest(d)
    BY <2>2 DEF HandlersInv, AtRest
  <2> QED
    BY <1>1, <2>1, <2>2 DEF Kept
<1>2. ASSUME NEW c \in pending, ServerStep(c), ~StoreCode(c)
      PROVE  HandlersInv'
  <2>1. Good(c)
    BY DEF HandlersInv
  <2>2. PICK s \in {"error", "checked", "dropped", "unused", "created"} :
            /\ Goes(c, s)
            /\ s \in {"checked", "dropped"} => c.op \in Purpose
            /\ s \in {"unused", "created"} => c.op = "register"
    BY <1>2, <2>1, ServerStepPending DEF Good
  <2>3. Good([c EXCEPT !.state = s])
    BY <2>1, <2>2, GoesGood
  <2> QED
    BY <2>2, <2>3 DEF Goes, HandlersInv
<1>3. CASE UNCHANGED vars
  BY <1>3 DEF vars, Kept, HandlersInv
<1>4. ASSUME NEW c \in pending, StoreCode(c)
      PROVE  HandlersInv'
  <2>1. Good(c)
    BY DEF HandlersInv
  <2>2. PICK e : /\ pending' = (pending \ {c}) \cup {e} /\ Good(e)
                 /\ e.op = "send" /\ e.purpose = c.purpose /\ e.state \in {"stored", "error"}
                 /\ e.state = "stored" => e.code = issued'[c.purpose]
    BY <1>4, <2>1, StorePending
  <2> QED
    BY <2>2 DEF HandlersInv
<1> QED
  BY <1>1, <1>2, <1>3, <1>4, SessionKept, CodesKept DEF Next

LEMMA HandlersCorrect == Spec => []HandlersInv
<1>1. Init => HandlersInv
  BY DEF Init, HandlersInv
<1> QED
  BY <1>1, HandlersStep, PTL DEF Spec

-------------------------------------------------------------------------------
(* The code that was stored last                                               *)

\* The last code for p is stored, or k takes its place, or it was used, or came
\* late.
Last(p, k) == k = issued[p] \/ <<p, issued[p]>> \in gone \cup passed

\* A handler past the check is about to delete the last code, or that code is
\* accounted for.
CodeInv ==
    /\ code \in [Purpose -> Nat] /\ issued \in [Purpose -> Nat]
    /\ \A p \in Purpose : Last(p, code[p])
    /\ \A c \in pending : c.state = "checked" => Last(c.purpose, c.code)

LEMMA KeptChecked ==
  ASSUME HandlersInv, Kept, CodeInv, UNCHANGED issued,
         gone \subseteq gone', passed \subseteq passed'
  PROVE  \A d \in pending' : d.state = "checked" => Last(d.purpose, d.code)'
<1>1. \A p, k : Last(p, k) => k = issued'[p] \/ <<p, issued'[p]>> \in gone' \cup passed'
  BY DEF Last
<1> SUFFICES ASSUME NEW d \in pending', d.state = "checked"
             PROVE  Last(d.purpose, d.code)'
  OBVIOUS
<1>2. PICK c \in pending : c.state = "checked" /\ c.purpose = d.purpose /\ c.code = d.code
  BY KeptBusy
<1>3. Last(d.purpose, d.code)
  BY <1>2 DEF CodeInv
<1> QED
  BY <1>1, <1>3 DEF Last

LEMMA SameCode ==
  ASSUME HandlersInv, Kept, CodeInv, UNCHANGED codes
  PROVE  CodeInv'
<1>1. \A d \in pending' : d.state = "checked" => Last(d.purpose, d.code)'
  BY KeptChecked DEF codes
<1> QED
  BY <1>1 DEF CodeInv, Last, codes

LEMMA StoreCodeCode ==
  ASSUME HandlersInv, CodeInv, NEW c \in pending, StoreCode(c)
  PROVE  CodeInv'
<1> DEFINE p == c.purpose
<1>1. /\ p \in Purpose /\ issued[p] \in Nat
      /\ issued' = [issued EXCEPT ![p] = @ + 1] /\ code' = [code EXCEPT ![p] = issued'[p]]
      /\ gone' = gone /\ passed \subseteq passed'
      /\ (\E d \in pending : d.op = p /\ d.state = "checked") => <<p, issued'[p]>> \in passed'
  BY DEF StoreCode, HandlersInv, Good, CodeInv
<1>2. /\ issued' \in [Purpose -> Nat] /\ code' \in [Purpose -> Nat] /\ code'[p] = issued'[p]
      /\ \A q \in Purpose \ {p} : issued'[q] = issued[q] /\ code'[q] = code[q]
  BY <1>1 DEF CodeInv
<1>3. \A q \in Purpose : Last(q, code[q])'
  BY <1>1, <1>2 DEF CodeInv, Last
<1>4. ASSUME NEW d \in pending, d.state = "checked"
      PROVE  d.purpose \in Purpose /\ Last(d.purpose, d.code)'
  <2>1. d.op = d.purpose /\ d.purpose \in Purpose
    BY <1>4 DEF HandlersInv, Good
  <2>2. CASE d.purpose = p
    BY <1>1, <1>4, <2>1, <2>2 DEF Last
  <2>3. CASE d.purpose # p
    BY <1>1, <1>2, <1>4, <2>1, <2>3 DEF CodeInv, Last
  <2> QED
    BY <2>1, <2>2, <2>3
<1>5. ASSUME NEW d \in pending', d.state = "checked"
      PROVE  Last(d.purpose, d.code)'
  <2>1. d \in pending
    <3>1. Good(c)
      BY DEF HandlersInv
    <3>2. PICK e : /\ pending' = (pending \ {c}) \cup {e} /\ Good(e)
                   /\ e.op = "send" /\ e.purpose = c.purpose /\ e.state \in {"stored", "error"}
                   /\ e.state = "stored" => e.code = issued'[c.purpose]
      BY <1>1, <3>1, StorePending
    <3> QED
      BY <1>5, <3>2
  <2> QED
    BY <1>5, <2>1, <1>4
<1> QED
  BY <1>2, <1>3, <1>5 DEF CodeInv

LEMMA CodeAgesCode ==
  ASSUME HandlersInv, CodeInv, CodeAges
  PROVE  CodeInv'
<1>1. PICK p \in Purpose : /\ code' = [code EXCEPT ![p] = NoCode]
                           /\ gone' = gone \cup {<<p, code[p]>>}
  BY DEF CodeAges
<1>2. issued' = issued /\ passed' = passed /\ pending' = pending
  BY DEF CodeAges
<1>3. code' \in [Purpose -> Nat] /\ \A q \in Purpose \ {p} : code'[q] = code[q]
  BY <1>1 DEF CodeInv, NoCode
<1>4. Last(p, code[p])
  BY DEF CodeInv
<1>5. <<p, issued[p]>> \in gone' \cup passed'
  BY <1>1, <1>2, <1>4 DEF Last
<1>6. \A q \in Purpose : Last(q, code[q])'
  BY <1>1, <1>2, <1>3, <1>5 DEF CodeInv, Last
<1>7. \A d \in pending' : d.state = "checked" => Last(d.purpose, d.code)'
  BY <1>1, <1>2 DEF CodeInv, Last
<1> QED
  BY <1>2, <1>3, <1>6, <1>7 DEF CodeInv

LEMMA DropCodeCode ==
  ASSUME HandlersInv, CodeInv, NEW c \in pending, DropCode(c)
  PROVE  CodeInv'
<1> DEFINE p == c.purpose
<1>1. /\ Good(c) /\ p \in Purpose /\ Last(p, c.code) /\ Goes(c, "dropped")
      /\ code' = [code EXCEPT ![p] = NoCode] \/ code' = code
      /\ gone' = gone \cup {<<p, c.code>>} /\ issued' = issued /\ passed' = passed
  BY DEF DropCode, HandlersInv, Good, CodeInv
<1>2. code' \in [Purpose -> Nat] /\ \A q \in Purpose \ {p} : code'[q] = code[q]
  BY <1>1 DEF CodeInv, NoCode
<1>3. <<p, issued[p]>> \in gone' \cup passed'
  BY <1>1 DEF Last
<1>4. \A q \in Purpose : Last(q, code[q])'
  BY <1>1, <1>2, <1>3 DEF CodeInv, Last
<1>5. [c EXCEPT !.state = "dropped"].state = "dropped"
  BY <1>1 DEF Good, Shape
<1>6. ASSUME NEW d \in pending', d.state = "checked"
      PROVE  Last(d.purpose, d.code)'
  <2>1. d \in pending
    BY <1>1, <1>5, <1>6 DEF Goes
  <2>2. Last(d.purpose, d.code)
    BY <1>6, <2>1 DEF CodeInv
  <2> QED
    BY <1>1, <2>2 DEF Last
<1> QED
  BY <1>1, <1>2, <1>4, <1>6 DEF CodeInv

LEMMA CheckedCode ==
  ASSUME HandlersInv, CodeInv, NEW c \in pending, CheckCode(c)
  PROVE  CodeInv'
<1>1. Good(c) /\ c.op \in Purpose /\ c.purpose = c.op /\ UNCHANGED codes
  BY DEF CheckCode, HandlersInv, Good
<1>2. CASE Goes(c, "checked") /\ code[c.purpose] = c.code
  <2> DEFINE e == [c EXCEPT !.state = "checked"]
  <2>1. e.purpose = c.purpose /\ e.code = c.code
    BY <1>1, GoesGood
  <2>2. Last(e.purpose, e.code)
    BY <1>1, <1>2, <2>1 DEF CodeInv
  <2> QED
    BY <1>1, <1>2, <2>2 DEF Goes, CodeInv, Last, codes
<1>3. CASE Goes(c, "error")
  BY <1>1, <1>3, EndedKept, SameCode
<1> QED
  BY <1>2, <1>3 DEF CheckCode

LEMMA AddressCode ==
  ASSUME HandlersInv, CodeInv, NEW c \in pending, CheckAddress(c) \/ CreateUser(c)
  PROVE  CodeInv'
<1>1. PICK s \in {"error", "unused", "created"} : Goes(c, s)
  BY DEF CheckAddress, CreateUser
<1>2. [c EXCEPT !.state = s].state # "checked"
  BY DEF HandlersInv, Good, Shape
<1>3. UNCHANGED codes
  BY DEF CheckAddress, CreateUser
<1> QED
  BY <1>1, <1>2, <1>3 DEF Goes, CodeInv, Last, codes

LEMMA CodeStep ==
  ASSUME HandlersInv, CodeInv, [Next]_vars
  PROVE  CodeInv'
<1>1. CASE UNCHANGED vars
  BY <1>1, SameCode DEF vars, Kept
<1>2. CASE SessionNext /\ UNCHANGED codes
  BY <1>2, SessionKept, SameCode
<1>3. CASE OnSendCode \/ OnSubmit \/ CountDown
  <2>1. UNCHANGED codes
    BY <1>3 DEF OnSendCode, OnSubmit, CountDown
  <2>2. Kept
    BY <1>3, SendKept DEF OnSendCode, OnSubmit, CountDown, Purpose, Kept
  <2> QED
    BY <2>1, <2>2, SameCode
<1>4. CASE CodeAges
  BY <1>4, CodeAgesCode
<1>5. ASSUME NEW c \in pending, SendReturned(c) \/ ForgotReturned(c) \/ ResetPassword(c)
      PROVE  CodeInv'
  <2>1. Kept
    BY <1>5, EndedKept DEF SendReturned, ForgotReturned, ResetPassword, Kept, Orphaned
  <2> QED
    BY <1>5, <2>1, SameCode DEF SendReturned, ForgotReturned, ResetPassword
<1>6. ASSUME NEW c \in pending, StoreCode(c)
      PROVE  CodeInv'
  BY <1>6, StoreCodeCode
<1>7. ASSUME NEW c \in pending, MailCode(c) \/ ApplySignupBonuses(c)
      PROVE  CodeInv'
  <2>1. Kept
    BY <1>7, EndedKept DEF MailCode, ApplySignupBonuses
  <2>2. UNCHANGED <<code, issued, gone, passed>>
    BY <1>7 DEF MailCode, ApplySignupBonuses
  <2>3. gone \subseteq gone' /\ passed \subseteq passed'
    BY <2>2
  <2>4. \A d \in pending' : d.state = "checked" => Last(d.purpose, d.code)'
    BY <2>1, <2>2, <2>3, KeptChecked
  <2> QED
    BY <2>2, <2>4 DEF CodeInv, Last
<1>8. ASSUME NEW c \in pending, CheckCode(c) \/ DropCode(c) \/ CheckAddress(c) \/ CreateUser(c)
      PROVE  CodeInv'
  BY <1>8, CheckedCode, DropCodeCode, AddressCode
<1> QED
  BY <1>1, <1>2, <1>3, <1>4, <1>5, <1>6, <1>7, <1>8 DEF Next, CodesNext

\* The code stored last stays under its key until it is used or too old, whatever
\* other codes are tried in the meantime and whichever mails fail: only a code
\* stored between an earlier one's check and its deletion is lost.  (That it is
\* also the code of the newest mail is not claimed, and false.)
THEOREM LatestCodeCorrect == Spec => []LatestCodeWorks
<1>1. Init => CodeInv
  BY DEF Init, CodeInv, Last, NoCode
<1>2. CodeInv => LatestCodeWorks
  BY DEF CodeInv, LatestCodeWorks, Last
<1> QED
  BY <1>1, <1>2, HandlersCorrect, CodeStep, PTL DEF Spec

-------------------------------------------------------------------------------
(* The bonuses for a registration                                              *)

\* At most one handler has created the account and not granted its bonuses yet.
BonusInv ==
    /\ bonuses \in {0, 1}
    /\ bonuses = 1 => NewUser \in accounts
    /\ \A c \in pending : c.state = "created" => bonuses = 0 /\ NewUser \in accounts
    /\ \A c, d \in pending : c.state = "created" /\ d.state = "created" => c = d

LEMMA KeptBonus ==
  ASSUME HandlersInv, Kept, BonusInv, UNCHANGED bonuses, accounts \subseteq accounts'
  PROVE  BonusInv'
<1>1. \A d \in pending' : d.state = "created" => bonuses' = 0 /\ NewUser \in accounts'
  BY KeptBusy DEF BonusInv
<1>2. ASSUME NEW d \in pending', NEW e \in pending', d.state = "created", e.state = "created"
      PROVE  d = e
  <2>1. CASE pending' \subseteq Orphaned(pending)
    <3>1. PICK b \in pending, c \in pending :
              d = [b EXCEPT !.here = FALSE] /\ e = [c EXCEPT !.here = FALSE]
      BY <2>1 DEF Orphaned
    <3>2. b.state = "created" /\ c.state = "created"
      BY <1>2, <3>1, OrphanedGood DEF HandlersInv
    <3> QED
      BY <3>1, <3>2 DEF BonusInv
  <2>2. CASE \A c \in pending' : c \in pending \/ AtRest(c)
    BY <1>2, <2>2 DEF AtRest, BonusInv
  <2> QED
    BY <2>1, <2>2 DEF Kept
<1> QED
  BY <1>1, <1>2 DEF BonusInv

LEMMA CreateUserBonus ==
  ASSUME HandlersInv, BonusInv, NEW c \in pending, CreateUser(c)
  PROVE  BonusInv'
<1>1. Good(c) /\ c.user = NewUser /\ UNCHANGED bonuses
  BY DEF CreateUser, HandlersInv, Good, Purpose, codes
<1>2. CASE c.user \notin accounts /\ accounts' = accounts \cup {c.user} /\ Goes(c, "created")
  <2>1. bonuses = 0 /\ \A d \in pending : d.state # "created"
    BY <1>1, <1>2 DEF BonusInv
  <2> QED
    BY <1>1, <1>2, <2>1 DEF Goes, BonusInv
<1>3. CASE UNCHANGED accounts /\ Goes(c, "error")
  BY <1>1, <1>3, EndedKept, KeptBonus
<1> QED
  BY <1>2, <1>3 DEF CreateUser

LEMMA ApplyBonus ==
  ASSUME HandlersInv, BonusInv, NEW c \in pending, ApplySignupBonuses(c)
  PROVE  BonusInv'
<1>1. c.state = "created" /\ bonuses = 0 /\ NewUser \in accounts /\ UNCHANGED accounts
  BY DEF ApplySignupBonuses, BonusInv
<1>2. Good(c) /\ bonuses' \in {0, 1}
  BY <1>1 DEF ApplySignupBonuses, HandlersInv
<1>3. PICK e : AtRest(e) /\ pending' = (pending \ {c}) \cup {e}
  BY <1>2, EndedAtRest DEF ApplySignupBonuses, Issue, Goes
<1>4. \A d \in pending' : d.state # "created"
  BY <1>1, <1>3 DEF AtRest, BonusInv
<1> QED
  BY <1>1, <1>2, <1>4 DEF BonusInv

LEMMA BusyBonus ==
  ASSUME HandlersInv, BonusInv, NEW c \in pending, CheckCode(c) \/ DropCode(c) \/ CheckAddress(c)
  PROVE  BonusInv'
<1>1. UNCHANGED <<bonuses, accounts>>
  BY DEF CheckCode, DropCode, CheckAddress, codes
<1>2. PICK s \in {"error", "checked", "dropped", "unused"} : Goes(c, s)
  BY DEF CheckCode, DropCode, CheckAddress
<1>3. [c EXCEPT !.state = s].state # "created"
  BY DEF HandlersInv, Good, Shape
<1>4. \A d \in pending' : d.state = "created" => d \in pending
  BY <1>2, <1>3 DEF Goes
<1> QED
  BY <1>1, <1>4 DEF BonusInv

LEMMA BonusStep ==
  ASSUME HandlersInv, BonusInv, [Next]_vars
  PROVE  BonusInv'
<1>1. CASE UNCHANGED vars
  BY <1>1, KeptBonus DEF vars, Kept, session, codes
<1>2. CASE SessionNext /\ UNCHANGED codes
  <2>1. accounts \subseteq accounts'
    BY <1>2 DEF SessionNext, LoadServed, LoadDelivered, DedupingEnds, SignIn, GithubReturn,
         Exchange, Denied, Logout, ChangePassword, SaveProfile, Visit, Reload, OtherTab, Expire,
         LoginServed, GithubServed, SignedIn, Told, SettingsServed, PasswordChanged, ProfileSaved,
         Refused,
         Left, Send, session
  <2> QED
    BY <1>2, <2>1, SessionKept, KeptBonus DEF codes
<1>3. CASE OnSendCode \/ OnSubmit \/ CountDown \/ CodeAges
  <2>1. UNCHANGED <<bonuses, accounts>>
    BY <1>3 DEF OnSendCode, OnSubmit, CountDown, CodeAges, Send, session, codes
  <2>2. Kept
    BY <1>3, SendKept DEF OnSendCode, OnSubmit, CountDown, CodeAges, Purpose, Kept
  <2> QED
    BY <2>1, <2>2, KeptBonus
<1>4. ASSUME NEW c \in pending,
             SendReturned(c) \/ ForgotReturned(c) \/ MailCode(c) \/ ResetPassword(c)
      PROVE  BonusInv'
  <2>1. UNCHANGED <<bonuses, accounts>>
    BY <1>4 DEF SendReturned, ForgotReturned, MailCode, ResetPassword, session, codes
  <2>2. Kept
    BY <1>4, EndedKept DEF SendReturned, ForgotReturned, MailCode, ResetPassword, Kept, Orphaned
  <2> QED
    BY <2>1, <2>2, KeptBonus
<1>5. ASSUME NEW c \in pending,
             \/ CheckCode(c) \/ DropCode(c) \/ CheckAddress(c) \/ CreateUser(c)
             \/ ApplySignupBonuses(c)
      PROVE  BonusInv'
  BY <1>5, BusyBonus, CreateUserBonus, ApplyBonus
<1>6. ASSUME NEW c \in pending, StoreCode(c)
      PROVE  BonusInv'
  <2>1. UNCHANGED <<bonuses, accounts>>
    BY <1>6 DEF StoreCode
  <2>2. \A d \in pending' : d.state = "created" => d \in pending
    <3>1. Good(c)
      BY DEF HandlersInv
    <3>2. PICK e : /\ pending' = (pending \ {c}) \cup {e} /\ Good(e)
                   /\ e.op = "send" /\ e.purpose = c.purpose /\ e.state \in {"stored", "error"}
                   /\ e.state = "stored" => e.code = issued'[c.purpose]
      BY <1>6, <3>1, StorePending
    <3> QED
      BY <3>2
  <2> QED
    BY <2>1, <2>2 DEF BonusInv
<1> QED
  BY <1>1, <1>2, <1>3, <1>4, <1>5, <1>6 DEF Next, CodesNext

LEMMA BonusStart == Init => BonusInv
BY DEF Init, BonusInv

\* The bonuses for a registration are granted at most once, and to an account
\* that exists, whatever is sent, and however many of the requests have found
\* the address free.
THEOREM BonusCorrect == Spec => []BonusOnce
<1>1. BonusInv => BonusOnce
  BY DEF BonusInv, BonusOnce
<1> QED
  BY <1>1, BonusStart, HandlersCorrect, BonusStep, PTL DEF Spec

-------------------------------------------------------------------------------
(* Types                                                                       *)

Kind == {"login", "github", "password", "profile", "send"} \cup Purpose

\* Requests that were sent and that may be sent are within the bound.
Within ==
    /\ left \in [calls : Nat, forms : Nat, faults : Nat, moves : Nat, elsewhere : Nat]
    /\ count \in Nat /\ count + left.calls + left.forms <= MaxCalls

ServerTypes ==
    /\ accounts \subseteq User /\ owner \in Seq(User) /\ expired \subseteq 1..Len(owner)
    /\ grant \in {"none", "fresh", "used", "denied"}

UserTypes ==
    /\ token \in 0..Len(owner) /\ path \in Routes /\ crossed \in BOOLEAN
    /\ self \in [user : User \cup {Nobody}, loading : BOOLEAN]
    /\ load \in [phase : {"idle", "sent", "answered", "recent"}, n : 0..Len(owner),
                 user : User \cup {Nobody}]

FormType ==
    form \in [loading : BOOLEAN, sending : BOOLEAN, cooldown : 0..Cooldown, timers : Nat,
              exchanged : BOOLEAN, error : BOOLEAN]

\* Handlers know no session that was not issued.
HandlerTypes == pending \subseteq Handler /\ \A c \in pending : c.session <= Len(owner)

\* Requests for codes that are not served yet.
Unserved == {c \in pending : c.op = "send" /\ c.state = "sent"}

\* Every interval, and every code mailed, has taken a request of its own.
Counted ==
    /\ IsFiniteSet(pending) /\ Cardinality(pending) + form.timers <= count
    /\ issued \in [Purpose -> Nat] /\ code \in [Purpose -> Nat]
    /\ \A p \in Purpose : issued[p] + Cardinality(Unserved) <= count /\ code[p] <= issued[p]

\* Codes are mailed after they were stored, and by the request that stored them.
Mailing ==
    /\ \A m \in mailed : \E p \in Purpose : \E k \in 1..issued[p] : m = <<p, k>>
    /\ \A c \in pending : c.state = "stored" => c.code \in 1..issued[c.purpose]

Typed ==
    Within /\ ServerTypes /\ UserTypes /\ FormType /\ HandlerTypes /\ Counted /\ Mailing

\* A route is left, or a handler ends that leaves it: the others are nobody's.
Remounted ==
    /\ path' \in Routes /\ pending' \subseteq Orphaned(pending)
    /\ form' = Blank \/ UNCHANGED <<path, form>>

\* A handler sends its request.
Asking(kind, op, u, k) ==
    /\ Send(kind, op, u, k) /\ u \in User
    /\ \/ /\ \/ op = "login" /\ path = "login" /\ k = 0
             \/ op = "password" /\ path = "dashboard" /\ k = 0
             \/ op \in Purpose /\ path = op /\ k \in 1..issued[op] /\ u = NewUser
          /\ ~form.loading /\ form' = [form EXCEPT !.loading = TRUE]
       \/ /\ op = "profile" /\ path = "dashboard" /\ k = 0
          /\ ~form.sending /\ form' = [form EXCEPT !.sending = TRUE]
       \/ /\ op = "github" /\ path = "callback" /\ k = 0
          /\ ~form.exchanged /\ form' = [form EXCEPT !.exchanged = TRUE]
       \/ /\ op = "send" /\ path \in Purpose /\ k = 0 /\ form.cooldown = 0 /\ ~form.sending
          /\ form' = [form EXCEPT !.sending = (path = "register")]

AskStep ==
    \E kind \in {"calls", "forms"} : \E op \in Kind : \E u \in User : \E k \in Nat :
        Asking(kind, op, u, k)

\* The server goes on with a request, or answers it.
Answered(c, d) ==
    /\ pending' = (pending \ {c}) \cup {d}
    /\ d \in Handler /\ d.session <= Len(owner')
    /\ d.op = c.op /\ d.purpose = c.purpose /\ d.here = c.here
    /\ c.op \in Purpose => d.code = c.code
    /\ d.state # "sent"
    /\ UNCHANGED <<path, form, count>>

AnswerStep == \E c \in pending : \E d \in Handler : Answered(c, d)

\* A handler of the mounted page, or of none, ends.
Ended(c) ==
    /\ pending' = pending \ {c} /\ UNCHANGED <<path, count>>
    /\ \/ form' = form
       \/ c.here /\ c.op = "github" /\ form' = [form EXCEPT !.error = TRUE]
       \/ /\ c.here /\ c.op \in {"login", "password"} \cup Purpose
          /\ form' = [form EXCEPT !.loading = FALSE]
       \/ /\ c.here /\ c.op = "profile"
          /\ form' = [form EXCEPT !.sending = FALSE]
       \/ /\ c.here /\ c.op = "send"
          /\ \/ form' = [form EXCEPT !.sending = FALSE]
             \/ form' = [form EXCEPT !.sending = FALSE, !.cooldown = Cooldown, !.timers = @ + 1]

EndStep == \E c \in pending : Ended(c)

Still == UNCHANGED <<path, form, pending, count>>

PageStep ==
    \/ Remounted /\ UNCHANGED count
    \/ AskStep \/ AnswerStep \/ EndStep \/ CountDown \/ Denied \/ Still

LEMMA BudgetType ==
  ASSUME Within, NEW k \in {"calls", "forms", "faults", "moves", "elsewhere"}, Spend(k)
  PROVE  /\ left' \in [calls : Nat, forms : Nat, faults : Nat, moves : Nat, elsewhere : Nat]
         /\ left'.calls = left.calls - (IF k = "calls" THEN 1 ELSE 0)
         /\ left'.forms = left.forms - (IF k = "forms" THEN 1 ELSE 0)
<1>1. left[k] \in Nat /\ left[k] - 1 \in Nat
  BY DEF Within, Spend
<1>2. left' = [left EXCEPT ![k] = left[k] - 1]
  BY DEF Spend
<1> QED
  BY <1>1, <1>2 DEF Within

\* What is not a request leaves the bound alone.
LEMMA SameWithin ==
  ASSUME Within, UNCHANGED count,
         \/ UNCHANGED left
         \/ \E k \in {"faults", "moves", "elsewhere"} : Spend(k)
  PROVE  Within'
<1>1. left' \in [calls : Nat, forms : Nat, faults : Nat, moves : Nat, elsewhere : Nat]
      /\ left'.calls = left.calls /\ left'.forms = left.forms
  <2>1. CASE UNCHANGED left
    BY <2>1 DEF Within
  <2>2. ASSUME NEW k \in {"faults", "moves", "elsewhere"}, Spend(k)
        PROVE  /\ left' \in [calls : Nat, forms : Nat, faults : Nat, moves : Nat, elsewhere : Nat]
               /\ left'.calls = left.calls /\ left'.forms = left.forms
    BY <2>2, BudgetType DEF Within
  <2> QED
    BY <2>1, <2>2
<1> QED
  BY <1>1 DEF Within

LEMMA SendWithin ==
  ASSUME Within, NEW kind \in {"calls", "forms"}, Spend(kind), count' = count + 1
  PROVE  Within' /\ count + 1 \in 1..MaxCalls
<1>1. left' \in [calls : Nat, forms : Nat, faults : Nat, moves : Nat, elsewhere : Nat]
      /\ left'.calls = left.calls - (IF kind = "calls" THEN 1 ELSE 0)
      /\ left'.forms = left.forms - (IF kind = "forms" THEN 1 ELSE 0)
  BY BudgetType
<1>2. left.calls \in Nat /\ left.forms \in Nat /\ left[kind] > 0 /\ left'.calls \in Nat
      /\ left'.forms \in Nat
  BY <1>1 DEF Within, Spend
<1>3. count' + left'.calls + left'.forms = count + left.calls + left.forms
  BY <1>1, <1>2 DEF Within
<1>4. count + 1 <= MaxCalls
  BY <1>2, <1>3, SessionAssumption DEF Within
<1> QED
  BY <1>1, <1>3, <1>4, SessionAssumption DEF Within

LEMMA GoesIsAnswer ==
  ASSUME Typed, NEW c \in pending, UNCHANGED <<path, form, count>>, Len(owner) <= Len(owner'),
         NEW s \in {"checked", "dropped", "unused", "created", "ok", "error"},
         Goes(c, s)
  PROVE  AnswerStep
<1>1. c \in Handler /\ c.session \in Nat /\ c.session <= Len(owner) /\ Len(owner) \in Nat
  BY DEF Typed, HandlerTypes, Handler, ServerTypes
<1>2. PICK d : d = [c EXCEPT !.state = s]
  OBVIOUS
<1>3. d \in Handler /\ d.op = c.op /\ d.purpose = c.purpose /\ d.code = c.code /\ d.here = c.here
      /\ d.session = c.session /\ d.state = s
  BY <1>1, <1>2 DEF Handler
<1>4. pending' = (pending \ {c}) \cup {d}
  BY <1>2 DEF Goes
<1>5. d.session <= Len(owner')
  BY <1>1, <1>3
<1>6. Answered(c, d)
  BY <1>3, <1>4, <1>5 DEF Answered
<1> QED
  BY <1>3, <1>6 DEF AnswerStep

LEMMA IssueIsAnswer ==
  ASSUME Typed, NEW c \in pending, UNCHANGED <<path, form, count>>, Issue(c)
  PROVE  AnswerStep /\ owner' \in Seq(User) /\ Len(owner') = Len(owner) + 1
         /\ \A i \in 1..Len(owner) : owner'[i] = owner[i]
<1>1. c \in Handler /\ c.user \in User /\ owner \in Seq(User)
  BY DEF Typed, HandlerTypes, Handler, ServerTypes
<1>2. owner' \in Seq(User) /\ Len(owner') = Len(owner) + 1 /\ Len(owner) + 1 \in Nat
      /\ \A i \in 1..Len(owner) : owner'[i] = owner[i]
  BY <1>1 DEF Issue
<1>3. PICK k \in Nat : k = Len(owner) + 1
  BY <1>2
<1>4. PICK d : d = [c EXCEPT !.state = "ok", !.session = k]
  OBVIOUS
<1>5. d \in Handler /\ d.op = c.op /\ d.purpose = c.purpose /\ d.code = c.code /\ d.here = c.here
      /\ d.session = k /\ d.state = "ok"
  BY <1>1, <1>4 DEF Handler
<1>6. pending' = (pending \ {c}) \cup {d}
  BY <1>3, <1>4 DEF Issue
<1>7. Answered(c, d)
  BY <1>2, <1>3, <1>5, <1>6 DEF Answered
<1> QED
  BY <1>2, <1>5, <1>7 DEF AnswerStep

LEMMA RequireAuthType ==
  ASSUME NEW p \in Routes, NEW s, NEW t
  PROVE  RequireAuth(p, s, t) \in Routes
BY DEF RequireAuth, Routes, Guarded

SelfType == [user : User \cup {Nobody}, loading : BOOLEAN]

LoadType(n) ==
    [phase : {"idle", "sent", "answered", "recent"}, n : 0..n, user : User \cup {Nobody}]

LEMMA FreshType ==
  /\ Fresh \in SelfType /\ \A n \in Nat : NoLoad \in LoadType(n)
  /\ Blank \in [loading : BOOLEAN, sending : BOOLEAN, cooldown : 0..Cooldown, timers : Nat,
                exchanged : BOOLEAN, error : BOOLEAN]
BY CooldownAssumption DEF Fresh, NoLoad, Blank, SelfType, LoadType, NoSession

LEMMA StartType ==
  ASSUME NEW n \in Nat, NEW t \in 0..n, NEW s \in SelfType, NEW l, Start(t, s, l)
  PROVE  self' \in SelfType /\ load' \in LoadType(n)
<1>1. load' = [phase |-> "sent", n |-> t, user |-> Nobody]
  BY DEF Start, Request
<1>2. self' = [s EXCEPT !.loading = (s.user = Nobody)]
  BY DEF Start
<1> QED
  BY <1>1, <1>2 DEF SelfType, LoadType

LEMMA MountType ==
  ASSUME NEW n \in Nat, NEW p \in Routes, NEW t \in 0..n, NEW s \in SelfType,
         NEW l \in LoadType(n), Mount(p, t, s, l)
  PROVE  path' \in Routes /\ self' \in SelfType /\ load' \in LoadType(n) /\ form' = Blank
<1>1. path' \in Routes /\ form' = Blank
  BY RequireAuthType DEF Mount
<1>2. (self' = s /\ load' = l) \/ Start(t, s, l)
  BY DEF Mount, UseAuth, Join
<1> QED
  BY <1>1, <1>2, StartType

\* A step that leaves the server's accounts and sessions, the user and the
\* route alone.
LEMMA SameTypes ==
  ASSUME ServerTypes, UserTypes, UNCHANGED <<session, auth, crossed>>
  PROVE  ServerTypes' /\ UserTypes'
BY DEF ServerTypes, UserTypes, session, auth

\* Sessions are added, none is taken away.
LEMMA MoreSessions ==
  ASSUME ServerTypes, UserTypes, accounts' \subseteq User, owner' \in Seq(User),
         Len(owner) <= Len(owner'), expired' \subseteq 1..Len(owner'),
         grant' \in {"none", "fresh", "used", "denied"}, token' \in 0..Len(owner'),
         path' \in Routes, crossed' \in BOOLEAN, self' \in SelfType,
         load' \in LoadType(Len(owner'))
  PROVE  ServerTypes' /\ UserTypes'
BY DEF ServerTypes, UserTypes, SelfType, LoadType

LEMMA LenType ==
  ASSUME ServerTypes, UserTypes
  PROVE  /\ Len(owner) \in Nat /\ self \in SelfType /\ load \in LoadType(Len(owner))
         /\ token \in 0..Len(owner) /\ path \in Routes /\ crossed \in BOOLEAN
         /\ accounts \subseteq User /\ owner \in Seq(User) /\ expired \subseteq 1..Len(owner)
         /\ grant \in {"none", "fresh", "used", "denied"}
         /\ \A m \in Nat : Len(owner) <= m =>
              load \in LoadType(m) /\ token \in 0..m /\ expired \subseteq 1..m
BY DEF ServerTypes, UserTypes, SelfType, LoadType

\* The loads of the user, and the moves of the user, of other tabs and of time.
LEMMA LoadTypes ==
  ASSUME ServerTypes, UserTypes,
         LoadServed \/ LoadDelivered \/ DedupingEnds
  PROVE  ServerTypes' /\ UserTypes'
<1> DEFINE n == Len(owner)
<1>0. n \in Nat /\ self \in SelfType /\ load \in LoadType(n) /\ path \in Routes
      /\ NoLoad \in LoadType(n)
  BY LenType, FreshType
<1>1. CASE LoadServed
  <2>1. PICK u \in User \cup {Nobody} : load' \in {[load EXCEPT !.phase = "answered", !.user = u],
                                                  [load EXCEPT !.phase = "answered"]}
    <3>1. Live(load.n) => owner[load.n] \in User
      BY <1>0 DEF Live, NoSession, LoadType, ServerTypes
    <3> QED
      BY <1>1, <3>1 DEF LoadServed
  <2>2. load' \in LoadType(n)
    BY <1>0, <2>1 DEF LoadType
  <2> QED
    BY <1>0, <1>1, <2>2, MoreSessions, LenType DEF LoadServed, session, history
<1>2. CASE LoadDelivered
  <2>1. self' \in SelfType
    BY <1>0, <1>2 DEF LoadDelivered, SelfType, LoadType
  <2>2. load' \in LoadType(n)
    BY <1>0, <1>2 DEF LoadDelivered, LoadType
  <2>3. path' \in Routes
    BY <1>0, <1>2, RequireAuthType DEF LoadDelivered
  <2> QED
    BY <1>0, <1>2, <2>1, <2>2, <2>3, MoreSessions, LenType DEF LoadDelivered, session
<1>3. CASE DedupingEnds
  BY <1>0, <1>3, MoreSessions, LenType DEF DedupingEnds, session, history
<1> QED
  BY <1>1, <1>2, <1>3

LEMMA MoveTypes ==
  ASSUME ServerTypes, UserTypes,
         \/ GithubReturn \/ (Left /\ UNCHANGED left)
         \/ Visit \/ Reload \/ OtherTab \/ Expire
  PROVE  ServerTypes' /\ UserTypes'
<1> DEFINE n == Len(owner)
<1>0. n \in Nat /\ self \in SelfType /\ load \in LoadType(n) /\ path \in Routes /\ token \in 0..n
      /\ NoLoad \in LoadType(n) /\ Fresh \in SelfType /\ 0 \in 0..n
      /\ {"login", "callback"} \subseteq Routes
  BY LenType, FreshType DEF Routes
<1>1. CASE GithubReturn
  BY <1>0, <1>1, MoreSessions, LenType DEF GithubReturn, history
<1>2. CASE Left
  BY <1>0, <1>2, MoreSessions, LenType DEF Left, session, history, NoSession
<1>3. CASE Visit
  <2>1. PICK p \in Routes : Mount(p, token, self, load)
    BY <1>3 DEF Visit
  <2>2. path' \in Routes /\ self' \in SelfType /\ load' \in LoadType(n)
    BY <1>0, <2>1, MountType
  <2> QED
    BY <1>0, <1>3, <2>2, MoreSessions, LenType DEF Visit, session
<1>4. CASE Reload
  <2>1. path' \in Routes /\ self' \in SelfType /\ load' \in LoadType(n)
    BY <1>0, <1>4, MountType DEF Reload
  <2> QED
    BY <1>0, <1>4, <2>1, MoreSessions, LenType DEF Reload, session
<1>5. CASE OtherTab
  <2>1. CASE token' = NoSession /\ UNCHANGED owner
    BY <1>0, <1>5, <2>1, MoreSessions, LenType DEF OtherTab, NoSession
  <2>2. ASSUME NEW u \in accounts, owner' = Append(owner, u), token' = Len(owner')
        PROVE  ServerTypes' /\ UserTypes'
    <3>1. owner' \in Seq(User) /\ Len(owner') = n + 1 /\ n + 1 \in Nat /\ n <= n + 1
      BY <1>0, <2>2 DEF ServerTypes
    <3>2. load \in LoadType(n + 1) /\ expired \subseteq 1..(n + 1) /\ n + 1 \in 0..(n + 1)
      BY <3>1, LenType
    <3> QED
      BY <1>0, <1>5, <2>2, <3>1, <3>2, MoreSessions, LenType DEF OtherTab
  <2> QED
    BY <1>5, <2>1, <2>2 DEF OtherTab
<1>6. CASE Expire
  <2>1. UNCHANGED <<accounts, owner, grant, auth, crossed>> /\ expired' \subseteq 1..Len(owner')
    BY <1>6 DEF Expire, history
  <2> QED
    BY <1>0, <2>1, MoreSessions, LenType DEF auth
<1> QED
  BY <1>1, <1>2, <1>3, <1>4, <1>5, <1>6

\* The steps of the user's side.
LEMMA MovePage ==
  ASSUME Typed,
         \/ LoadServed \/ LoadDelivered \/ DedupingEnds
         \/ GithubReturn \/ (Left /\ UNCHANGED left)
         \/ Visit \/ Reload \/ OtherTab \/ Expire
  PROVE  PageStep
<1>0. path' \in Routes /\ UNCHANGED count
  <2>1. ServerTypes' /\ UserTypes'
    BY LoadTypes, MoveTypes DEF Typed
  <2> QED
    BY <2>1 DEF UserTypes, LoadServed, LoadDelivered, DedupingEnds, GithubReturn, Left, Visit,
       Reload, OtherTab, Expire
<1>1. CASE LoadServed \/ DedupingEnds \/ OtherTab \/ Expire
  BY <1>1 DEF LoadServed, DedupingEnds, OtherTab, Expire, PageStep, Still, auth
<1>2. CASE LoadDelivered
  <2>1. CASE path' = path
    BY <1>2, <2>1 DEF LoadDelivered, PageStep, Still
  <2>2. CASE path' # path
    BY <1>0, <1>2, <2>2 DEF LoadDelivered, PageStep, Remounted
  <2> QED
    BY <2>1, <2>2
<1>3. CASE GithubReturn \/ Left \/ Reload
  BY <1>0, <1>3 DEF GithubReturn, Left, Reload, Mount, PageStep, Remounted
<1>4. CASE Visit
  BY <1>0, <1>4 DEF Visit, Mount, PageStep, Remounted
<1> QED
  BY <1>1, <1>2, <1>3, <1>4

LEMMA MoveWithin ==
  ASSUME Within,
         \/ LoadServed \/ LoadDelivered \/ DedupingEnds
         \/ GithubReturn \/ (Left /\ UNCHANGED left)
         \/ Visit \/ Reload \/ OtherTab \/ Expire
  PROVE  Within'
BY SameWithin DEF LoadServed, LoadDelivered, DedupingEnds, GithubReturn, Left, Visit, Reload,
   OtherTab, Expire

LEMMA AskTypes ==
  ASSUME Typed, AskStep
  PROVE  Within' /\ ServerTypes' /\ UserTypes'
<1>1. PICK kind \in {"calls", "forms"}, op \in Kind, u \in User, k \in Nat :
           Asking(kind, op, u, k)
  BY DEF AskStep
<1>2. Spend(kind) /\ count' = count + 1 /\ UNCHANGED <<session, auth, crossed>>
  BY <1>1 DEF Asking, Send, history
<1> QED
  BY <1>2, SendWithin, SameTypes DEF Typed

LEMMA SessionAsk ==
  ASSUME Typed, SignIn \/ Exchange \/ ChangePassword \/ SaveProfile
  PROVE  AskStep
<1>0. 0 \in Nat /\ {"login", "github", "password", "profile"} \subseteq Kind
      /\ {"calls", "forms"} \subseteq {"calls", "forms"}
  BY DEF Kind
<1>1. Shown => self.user \in User
  BY DEF Typed, UserTypes, Shown
<1>2. CASE SignIn
  BY <1>0, <1>2 DEF SignIn, AskStep, Asking
<1>3. CASE Exchange
  BY <1>0, <1>3 DEF Exchange, AskStep, Asking
<1>4. CASE ChangePassword
  BY <1>0, <1>1, <1>4 DEF ChangePassword, AskStep, Asking
<1>5. CASE SaveProfile
  BY <1>0, <1>1, <1>5 DEF SaveProfile, AskStep, Asking
<1> QED
  BY <1>2, <1>3, <1>4, <1>5

LEMMA CodesAsk ==
  ASSUME Typed, OnSendCode \/ OnSubmit
  PROVE  AskStep
<1>0. 0 \in Nat /\ "send" \in Kind /\ Purpose \subseteq Kind /\ NewUser \in User
      /\ \A n \in Nat : 1..n \subseteq Nat
  BY SessionAssumption DEF Kind
<1>1. CASE OnSendCode
  BY <1>0, <1>1 DEF OnSendCode, AskStep, Asking
<1>2. CASE OnSubmit
  <2>1. path \in Purpose /\ issued[path] \in Nat
    BY <1>2 DEF OnSubmit, Typed, Counted
  <2>2. PICK k \in 1..issued[path] : Send("forms", path, NewUser, k)
    BY <1>2 DEF OnSubmit
  <2>3. k \in Nat
    BY <1>0, <2>1
  <2>4. Asking("forms", path, NewUser, k)
    BY <1>0, <1>2, <2>1, <2>2 DEF OnSubmit, Asking
  <2> QED
    BY <1>0, <2>1, <2>3, <2>4 DEF AskStep
<1> QED
  BY <1>1, <1>2

\* The server's answers to what needs no code.
LEMMA SessionAnswers ==
  ASSUME Typed, NEW c \in pending,
         \/ LoginServed(c) \/ GithubServed(c) \/ SettingsServed(c)
         \/ c.state \notin {"ok", "error"} /\ Refused(c) /\ Spend("faults")
  PROVE  Within' /\ ServerTypes' /\ UserTypes' /\ PageStep
<1>0. c.user \in User
  BY DEF Typed, HandlerTypes, Handler
<1>1. CASE Refused(c) /\ (UNCHANGED left \/ Spend("faults"))
  <2>1. AnswerStep
    BY <1>1, GoesIsAnswer DEF Refused, auth, session, Typed, ServerTypes
  <2>2. UNCHANGED <<session, auth, crossed>> /\ Within'
    BY <1>1, SameWithin DEF Refused, history, Typed
  <2> QED
    BY <2>1, <2>2, SameTypes DEF Typed, PageStep
<1>2. CASE SettingsServed(c) /\ Goes(c, "ok")
  <2>1. UNCHANGED <<session, auth, count, form, history, left>>
    BY <1>2 DEF SettingsServed, Refused
  <2>2. AnswerStep
    BY <1>2, <2>1, GoesIsAnswer DEF auth, session, Typed, ServerTypes
  <2>3. Within' /\ ServerTypes' /\ UserTypes'
    BY <2>1, SameWithin, SameTypes DEF Typed, history
  <2> QED
    BY <2>2, <2>3 DEF PageStep
<1>3. CASE (LoginServed(c) \/ GithubServed(c)) /\ Issue(c) /\ UNCHANGED left
  <2>1. UNCHANGED <<expired, auth, count, form, history, left>> /\ accounts' \subseteq User
        /\ grant' \in {"none", "fresh", "used", "denied"}
    BY <1>0, <1>3 DEF LoginServed, GithubServed, Refused, session, Typed, ServerTypes
  <2>2. AnswerStep /\ owner' \in Seq(User) /\ Len(owner') = Len(owner) + 1
    BY <1>3, <2>1, IssueIsAnswer DEF auth
  <2>3. Len(owner) <= Len(owner') /\ Len(owner') \in Nat
    BY <2>2, LenType DEF Typed
  <2>4. ServerTypes' /\ UserTypes'
    BY <2>1, <2>2, <2>3, LenType, MoreSessions DEF Typed, auth, history
  <2>5. Within'
    BY <2>1, SameWithin DEF Typed
  <2> QED
    BY <2>2, <2>4, <2>5 DEF PageStep
<1>4. CASE GithubServed(c) /\ Goes(c, "error") /\ UNCHANGED owner /\ Spend("faults")
  <2>1. UNCHANGED <<expired, auth, count, form, history>> /\ accounts' \subseteq User
        /\ grant' \in {"none", "fresh", "used", "denied"}
    BY <1>0, <1>4 DEF GithubServed, Refused, session, Typed, ServerTypes
  <2>2. Len(owner') = Len(owner) /\ Len(owner) \in Nat
    BY <1>4, LenType DEF Typed
  <2>3. AnswerStep
    BY <1>4, <2>1, <2>2, GoesIsAnswer DEF auth
  <2>4. ServerTypes' /\ UserTypes'
    BY <1>4, <2>1 DEF Typed, ServerTypes, UserTypes, auth, history
  <2>5. Within'
    BY <1>4, <2>1, SameWithin DEF Typed
  <2> QED
    BY <2>3, <2>4, <2>5 DEF PageStep
<1> QED
  BY <1>1, <1>2, <1>3, <1>4 DEF LoginServed, GithubServed, SettingsServed

\* The handlers of the pages that need no code.
LEMMA SessionEnds ==
  ASSUME Typed, NEW c \in pending,
         SignedIn(c) \/ Told(c) \/ PasswordChanged(c) \/ ProfileSaved(c)
  PROVE  Within' /\ ServerTypes' /\ UserTypes' /\ PageStep
<1> DEFINE n == Len(owner)
<1>0. n \in Nat /\ self \in SelfType /\ load \in LoadType(n) /\ path \in Routes /\ token \in 0..n
      /\ c.session \in 0..n /\ "dashboard" \in Routes
  BY LenType DEF Typed, HandlerTypes, Handler, Routes, Guarded
<1>1. CASE SignedIn(c)
  <2>1. UNCHANGED <<session, count, left>> /\ crossed' \in BOOLEAN /\ token' \in 0..n
    BY <1>0, <1>1 DEF SignedIn
  <2>2. CASE Mount("dashboard", c.session, self, load) /\ pending' = Orphaned(pending \ {c})
    <3>1. path' \in Routes /\ self' \in SelfType /\ load' \in LoadType(n) /\ form' = Blank
      BY <1>0, <2>2, MountType
    <3>2. PageStep
      BY <2>1, <2>2, <3>1 DEF PageStep, Remounted, Orphaned
    <3> QED
      BY <2>1, <3>1, <3>2, LenType, MoreSessions, SameWithin DEF Typed, session
  <2>3. CASE /\ path = "dashboard" /\ path' = RequireAuth(path, self, c.session)
             /\ form' = IF path' = path THEN form ELSE Blank
             /\ pending' = IF path' = path THEN pending \ {c} ELSE Orphaned(pending \ {c})
             /\ UNCHANGED <<self, load>>
    <3>1. path' \in Routes
      BY <1>0, <2>3, RequireAuthType
    <3>2. PageStep
      <4>1. CASE path' = path
        BY <2>1, <2>3, <4>1 DEF PageStep, EndStep, Ended
      <4>2. CASE path' # path
        BY <2>1, <2>3, <3>1, <4>2 DEF PageStep, Remounted, Orphaned
      <4> QED
        BY <4>1, <4>2
    <3> QED
      BY <1>0, <2>1, <2>3, <3>1, <3>2, LenType, MoreSessions, SameWithin DEF Typed, session
  <2> QED
    BY <1>1, <2>2, <2>3 DEF SignedIn
<1>2. CASE Told(c)
  <2>1. PageStep
    BY <1>2 DEF Told, PageStep, EndStep, Ended, auth, Purpose
  <2> QED
    BY <1>2, <2>1, SameTypes, SameWithin DEF Told, Typed, history
<1>3. CASE PasswordChanged(c)
  BY <1>3, MoveTypes, MovePage, MoveWithin DEF PasswordChanged, Typed
<1>4. CASE ProfileSaved(c)
  <2>1. UNCHANGED <<session, token, path, self, count, history, left>>
    BY <1>4 DEF ProfileSaved
  <2>2. load' \in LoadType(n)
    BY <1>0, <1>4 DEF ProfileSaved, Request, LoadType
  <2>3. PageStep
    BY <1>4, <2>1 DEF ProfileSaved, PageStep, EndStep, Ended
  <2> QED
    BY <1>0, <2>1, <2>2, <2>3, LenType, MoreSessions, SameWithin DEF Typed, session, history
<1> QED
  BY <1>1, <1>2, <1>3, <1>4

LEMMA SessionTyped ==
  ASSUME Typed, SessionNext
  PROVE  Within' /\ ServerTypes' /\ UserTypes' /\ PageStep
<1>1. CASE \/ LoadServed \/ LoadDelivered \/ DedupingEnds
           \/ GithubReturn \/ Visit \/ Reload \/ OtherTab \/ Expire
  <2>1. ServerTypes /\ UserTypes /\ Within
    BY DEF Typed
  <2>2. Within'
    BY <1>1, <2>1, MoveWithin
  <2>3. PageStep
    BY <1>1, MovePage
  <2>4. ServerTypes' /\ UserTypes'
    BY <1>1, <2>1, LoadTypes, MoveTypes
  <2> QED
    BY <2>2, <2>3, <2>4
<1>2. CASE Logout
  BY <1>2, MoveTypes, MovePage, MoveWithin DEF Typed, Logout
<1>3. CASE SignIn \/ Exchange \/ ChangePassword \/ SaveProfile
  BY <1>3, SessionAsk, AskTypes DEF PageStep
<1>4. CASE Denied
  <2>1. UNCHANGED <<session, auth, crossed, count, left>>
    BY <1>4 DEF Denied, history
  <2> QED
    BY <1>4, <2>1, SameWithin, SameTypes DEF Typed, PageStep
<1> QED
  BY <1>1, <1>2, <1>3, <1>4, SessionAnswers, SessionEnds DEF SessionNext

\* The next code is within the bound on requests.
LEMMA NextCode ==
  ASSUME Typed, NEW c \in Unserved, c.purpose \in Purpose
  PROVE  issued[c.purpose] + 1 \in 1..MaxCalls
<1>1. IsFiniteSet(Unserved)
  BY FS_Subset DEF Typed, Counted, Unserved
<1>2. Cardinality(Unserved) \in Nat /\ Cardinality(Unserved) # 0
  BY <1>1, FS_CardinalityType, FS_EmptySet
<1>3. /\ issued[c.purpose] \in Nat /\ issued[c.purpose] + Cardinality(Unserved) <= count
      /\ count \in Nat /\ count <= MaxCalls /\ MaxCalls \in Nat
  BY SessionAssumption DEF Typed, Counted, Within
<1> QED
  BY <1>2, <1>3

LEMMA StoreAnswer ==
  ASSUME Typed, HandlersInv, NEW c \in pending, StoreCode(c)
  PROVE  Within' /\ ServerTypes' /\ UserTypes' /\ PageStep
<1>0. Len(owner) \in Nat
  BY LenType DEF Typed
<1>1. UNCHANGED <<accounts, owner, expired, grant, token, path, self, load, count, form, crossed>>
  BY DEF StoreCode, AtServer, auth, history
<1>2. Within'
  BY <1>1, SameWithin DEF StoreCode, Typed
<1>3. ServerTypes' /\ UserTypes'
  BY <1>1 DEF Typed, ServerTypes, UserTypes
<1>4. CASE Goes(c, "error")
  BY <1>0, <1>1, <1>2, <1>3, <1>4, GoesIsAnswer DEF PageStep
<1>5. ASSUME pending' = (pending \ {c})
                          \cup {[c EXCEPT !.state = "stored", !.code = issued'[c.purpose]]}
      PROVE  AnswerStep
  <2>1. c \in Unserved /\ c.purpose \in Purpose /\ c.op = "send"
    BY DEF StoreCode, HandlersInv, Good, Unserved
  <2>2. PICK k \in 1..MaxCalls : k = issued[c.purpose] + 1
    BY <2>1, NextCode
  <2>3. issued'[c.purpose] = k
    BY <2>1, <2>2 DEF StoreCode, Typed, Counted
  <2>4. PICK d : d = [c EXCEPT !.state = "stored", !.code = k]
    OBVIOUS
  <2>5. c \in Handler /\ c.session <= Len(owner) /\ k \in 0..MaxCalls
    BY <2>2 DEF Typed, HandlerTypes
  <2>6. d \in Handler /\ d.op = c.op /\ d.purpose = c.purpose /\ d.here = c.here
        /\ d.session = c.session /\ d.state = "stored"
    BY <2>4, <2>5 DEF Handler
  <2>7. pending' = (pending \ {c}) \cup {d} /\ d.session <= Len(owner')
    BY <1>1, <1>5, <2>3, <2>4, <2>5, <2>6
  <2>8. Answered(c, d)
    BY <1>1, <2>1, <2>6, <2>7 DEF Answered, Purpose
  <2> QED
    BY <2>6, <2>8 DEF AnswerStep
<1> QED
  BY <1>2, <1>3, <1>4, <1>5 DEF StoreCode, PageStep

\* The server's handling of codes leaves the browser alone.
LEMMA ServerAnswers ==
  ASSUME Typed, HandlersInv, NEW c \in pending,
         \/ MailCode(c) \/ CheckCode(c) \/ DropCode(c) \/ CheckAddress(c) \/ CreateUser(c)
         \/ ResetPassword(c)
  PROVE  Within' /\ ServerTypes' /\ UserTypes' /\ PageStep
<1>0. c.user \in User /\ accounts \subseteq User /\ Len(owner) \in Nat
  BY LenType DEF Typed, HandlerTypes, Handler
<1>1. /\ UNCHANGED <<expired, grant, token, path, self, load, count, form, crossed, owner>>
      /\ accounts' \subseteq User
  BY <1>0 DEF MailCode, CheckCode, DropCode, CheckAddress, CreateUser, ResetPassword, AtServer,
     auth, history
<1>2. UNCHANGED left \/ Spend("faults")
  BY DEF MailCode, CheckCode, DropCode, CheckAddress, CreateUser, ResetPassword
<1>3. PICK s \in {"checked", "dropped", "unused", "created", "ok", "error"} : Goes(c, s)
  BY DEF MailCode, CheckCode, DropCode, CheckAddress, CreateUser, ResetPassword
<1>4. AnswerStep
  BY <1>0, <1>1, <1>3, GoesIsAnswer
<1>5. Within'
  BY <1>1, <1>2, SameWithin DEF Typed
<1>6. ServerTypes' /\ UserTypes'
  BY <1>0, <1>1 DEF Typed, ServerTypes, UserTypes
<1> QED
  BY <1>4, <1>5, <1>6 DEF PageStep

LEMMA BonusAnswers ==
  ASSUME Typed, NEW c \in pending, ApplySignupBonuses(c)
  PROVE  Within' /\ ServerTypes' /\ UserTypes' /\ PageStep
<1>0. accounts \subseteq User /\ Len(owner) \in Nat
  BY LenType DEF Typed
<1>1. UNCHANGED <<accounts, expired, grant, token, path, self, load, count, form, crossed>>
  BY DEF ApplySignupBonuses, AtServer, auth, history
<1>2. Within'
  BY <1>1, SameWithin DEF ApplySignupBonuses, Typed
<1>3. CASE Issue(c)
  <2>1. AnswerStep /\ owner' \in Seq(User) /\ Len(owner') = Len(owner) + 1
    BY <1>1, <1>3, IssueIsAnswer
  <2>2. Len(owner) <= Len(owner') /\ Len(owner') \in Nat
    BY <1>0, <2>1
  <2>3. ServerTypes' /\ UserTypes'
    BY <1>1, <2>1, <2>2, LenType, MoreSessions DEF Typed
  <2> QED
    BY <1>2, <2>1, <2>3 DEF PageStep
<1>4. CASE Goes(c, "error") /\ UNCHANGED owner
  <2>1. AnswerStep
    BY <1>0, <1>1, <1>4, GoesIsAnswer
  <2>2. ServerTypes' /\ UserTypes'
    BY <1>1, <1>4 DEF Typed, ServerTypes, UserTypes
  <2> QED
    BY <1>2, <2>1, <2>2 DEF PageStep
<1> QED
  BY <1>3, <1>4 DEF ApplySignupBonuses

LEMMA CodesEnd ==
  ASSUME Typed, NEW c \in pending, SendReturned(c) \/ ForgotReturned(c)
  PROVE  Within' /\ ServerTypes' /\ UserTypes' /\ PageStep
<1> DEFINE n == Len(owner)
<1>0. n \in Nat /\ self \in SelfType /\ load \in LoadType(n) /\ path \in Routes /\ token \in 0..n
      /\ "login" \in Routes
  BY LenType DEF Typed, Routes
<1>1. UNCHANGED <<session, token, count, crossed, left>>
  BY DEF SendReturned, ForgotReturned, auth, history
<1>2. Within'
  BY <1>1, SameWithin DEF Typed
<1>3. CASE SendReturned(c)
  <2>1. UNCHANGED <<session, auth, crossed, path>> /\ PageStep
    BY <1>1, <1>3 DEF SendReturned, PageStep, EndStep, Ended, auth, history
  <2> QED
    BY <1>2, <2>1, SameTypes DEF Typed
<1>4. CASE ForgotReturned(c)
  <2>1. pending' \subseteq Orphaned(pending)
    BY <1>4 DEF ForgotReturned, Orphaned
  <2>2. CASE Mount("login", token, self, load)
    <3>1. path' \in Routes /\ self' \in SelfType /\ load' \in LoadType(n) /\ form' = Blank
      BY <1>0, <2>2, MountType
    <3>2. PageStep
      BY <1>1, <2>1, <3>1 DEF PageStep, Remounted
    <3> QED
      BY <1>0, <1>1, <1>2, <3>1, <3>2, LenType, MoreSessions DEF Typed, session
  <2>3. CASE UNCHANGED <<path, self, load, form>>
    <3>1. PageStep
      BY <1>0, <1>1, <2>1, <2>3 DEF PageStep, Remounted
    <3> QED
      BY <1>0, <1>1, <1>2, <2>3, <3>1, SameTypes DEF Typed, auth
  <2> QED
    BY <1>4, <2>2, <2>3 DEF ForgotReturned
<1> QED
  BY <1>3, <1>4

LEMMA CodesTyped ==
  ASSUME Typed, HandlersInv, CodesNext
  PROVE  Within' /\ ServerTypes' /\ UserTypes' /\ PageStep
<1>1. CASE OnSendCode \/ OnSubmit
  BY <1>1, CodesAsk, AskTypes DEF PageStep
<1>2. CASE CountDown \/ CodeAges
  <2>1. UNCHANGED <<session, auth, crossed, count>>
    BY <1>2 DEF CountDown, CodeAges, history
  <2>2. Within'
    BY <1>2, <2>1, SameWithin DEF CountDown, CodeAges, Typed
  <2>3. PageStep
    BY <1>2 DEF CountDown, CodeAges, PageStep, Still, auth
  <2> QED
    BY <2>1, <2>2, <2>3, SameTypes DEF Typed
<1> QED
  BY <1>1, <1>2, CodesEnd, StoreAnswer, ServerAnswers, BonusAnswers DEF CodesNext

LEMMA NextTyped ==
  ASSUME Typed, HandlersInv, [Next]_vars
  PROVE  Within' /\ ServerTypes' /\ UserTypes' /\ PageStep
<1>1. CASE UNCHANGED vars
  BY <1>1, SameWithin, SameTypes DEF vars, Typed, PageStep, Still, auth, history
<1>2. CASE SessionNext \/ CodesNext
  BY <1>2, SessionTyped, CodesTyped
<1> QED
  BY <1>1, <1>2 DEF Next

\* Sessions keep their users.
LEMMA OwnerKept ==
  ASSUME Typed, [Next]_vars
  PROVE  /\ owner \in Seq(User) /\ owner' \in Seq(User) /\ Len(owner) <= Len(owner')
         /\ \A i \in 1..Len(owner) : owner'[i] = owner[i]
<1>0. owner \in Seq(User) /\ Len(owner) \in Nat /\ accounts \subseteq User
  BY LenType DEF Typed
<1>1. ASSUME NEW u \in User, owner' = Append(owner, u)
      PROVE  /\ owner' \in Seq(User) /\ Len(owner) <= Len(owner')
             /\ \A i \in 1..Len(owner) : owner'[i] = owner[i]
  BY <1>0, <1>1
<1>2. ASSUME NEW c \in pending
      PROVE  c.user \in User
  BY DEF Typed, HandlerTypes, Handler
<1>3. \/ UNCHANGED owner
      \/ \E u \in User : owner' = Append(owner, u)
  <2>1. CASE UNCHANGED vars
    BY <2>1 DEF vars, session
  <2>2. CASE OtherTab
    BY <1>0, <2>2 DEF OtherTab
  <2>3. CASE \/ LoadServed \/ LoadDelivered \/ DedupingEnds
             \/ SignIn \/ GithubReturn \/ Exchange \/ Denied
             \/ Logout \/ ChangePassword \/ SaveProfile
             \/ Visit \/ Reload \/ Expire
    BY <2>3 DEF LoadServed, LoadDelivered, DedupingEnds, SignIn, GithubReturn,
       Exchange, Denied, Logout, ChangePassword, SaveProfile, Visit, Reload, Expire, Left, Send,
       session
  <2>4. ASSUME NEW c \in pending,
               \/ SignedIn(c) \/ Told(c) \/ SettingsServed(c) \/ PasswordChanged(c)
               \/ ProfileSaved(c) \/ Refused(c)
        PROVE  UNCHANGED owner
    BY <2>4 DEF SignedIn, Told, SettingsServed, PasswordChanged, ProfileSaved, Refused, Left,
       session
  <2>5. ASSUME NEW c \in pending, LoginServed(c) \/ GithubServed(c) \/ ApplySignupBonuses(c)
        PROVE  UNCHANGED owner \/ owner' = Append(owner, c.user)
    BY <2>5 DEF LoginServed, GithubServed, ApplySignupBonuses, Refused, Issue, session
  <2>6. CASE OnSendCode \/ OnSubmit \/ CountDown \/ CodeAges
    BY <2>6 DEF OnSendCode, OnSubmit, CountDown, CodeAges, Send, session
  <2>7. ASSUME NEW c \in pending,
               \/ SendReturned(c) \/ ForgotReturned(c) \/ StoreCode(c) \/ MailCode(c)
               \/ CheckCode(c) \/ DropCode(c) \/ CheckAddress(c) \/ CreateUser(c)
               \/ ResetPassword(c)
        PROVE  UNCHANGED owner
    BY <2>7 DEF SendReturned, ForgotReturned, StoreCode, MailCode, CheckCode, DropCode,
                CheckAddress,
       CreateUser, ResetPassword, session
  <2> QED
    BY <1>2, <2>1, <2>2, <2>3, <2>4, <2>5, <2>6, <2>7 DEF Next, SessionNext, CodesNext
<1> QED
  BY <1>0, <1>1, <1>3

\* The types of the form, of the handlers, and what is counted.
LEMMA NewHandler ==
  ASSUME Typed, NEW kind \in {"calls", "forms"}, NEW op \in Kind, NEW u \in User, NEW k \in Nat,
         Asking(kind, op, u, k)
  PROVE  \E d \in Handler :
            /\ pending' = pending \cup {d} /\ count' = count + 1 /\ path' = path
            /\ d.op = op /\ d.purpose = path /\ d.user = u /\ d.code = k /\ d.here
            /\ d.state = "sent" /\ d.session = token /\ d.n = count + 1
<1> DEFINE d == [n |-> count + 1, op |-> op, purpose |-> path, user |-> u, code |-> k,
                 here |-> TRUE, state |-> "sent", session |-> token]
<1>1. pending' = pending \cup {d} /\ count' = count + 1 /\ path' = path /\ Spend(kind)
  BY DEF Asking, Send, auth
<1>2. count + 1 \in 1..MaxCalls
  BY <1>1, SendWithin DEF Typed
<1>3. path \in Routes /\ token \in Nat
  BY LenType DEF Typed
<1>4. k \in 0..MaxCalls
  <2>1. CASE op \in Purpose
    <3>1. issued[op] \in Nat /\ issued[op] <= count
      <4>1. IsFiniteSet(Unserved)
        BY FS_Subset DEF Typed, Counted, Unserved
      <4>2. Cardinality(Unserved) \in Nat
        BY <4>1, FS_CardinalityType
      <4>3. issued[op] \in Nat /\ issued[op] + Cardinality(Unserved) <= count /\ count \in Nat
        BY <2>1 DEF Typed, Counted, Within
      <4> QED
        BY <4>2, <4>3
    <3>2. k \in 1..issued[op] \/ k = 0
      BY <2>1 DEF Asking, Purpose
    <3> QED
      BY <1>2, <3>1, <3>2, SessionAssumption DEF Typed, Within
  <2>2. CASE op \notin Purpose
    BY <2>2, SessionAssumption DEF Asking
  <2> QED
    BY <2>1, <2>2
<1>5. d \in Handler
  BY <1>2, <1>3, <1>4 DEF Handler, Kind
<1> QED
  BY <1>1, <1>5

LEMMA OrphanType ==
  ASSUME HandlerTypes, NEW S, S \subseteq pending, NEW d \in Orphaned(S)
  PROVE  \E c \in S :
            /\ d \in Handler /\ ~d.here /\ d.op = c.op /\ d.purpose = c.purpose
            /\ d.user = c.user /\ d.code = c.code /\ d.session = c.session /\ d.n = c.n
            /\ d.state = c.state /\ d = [c EXCEPT !.here = FALSE]
<1>1. PICK c \in S : d = [c EXCEPT !.here = FALSE]
  BY DEF Orphaned
<1>2. c \in Handler
  BY DEF HandlerTypes
<1> QED
  BY <1>1, <1>2 DEF Handler

LEMMA FormTyped ==
  ASSUME Typed, PageStep
  PROVE  FormType'
<1> DEFINE F == [loading : BOOLEAN, sending : BOOLEAN, cooldown : 0..Cooldown, timers : Nat,
                 exchanged : BOOLEAN, error : BOOLEAN]
<1>1. form \in F /\ Cooldown \in Nat /\ Blank \in F
  BY FreshType, CooldownAssumption DEF Typed, FormType
<1>2. CASE Remounted \/ AnswerStep \/ Still
  BY <1>1, <1>2 DEF Remounted, AnswerStep, Answered, Still, FormType
<1>3. CASE AskStep
  <2>1. PICK kind \in {"calls", "forms"}, op \in Kind, u \in User, k \in Nat :
             Asking(kind, op, u, k)
    BY <1>3 DEF AskStep
  <2>2. PICK b \in BOOLEAN : form' \in {[form EXCEPT !.loading = b], [form EXCEPT !.sending = b],
                                       [form EXCEPT !.exchanged = b]}
    BY <2>1 DEF Asking
  <2>3. CASE form' = [form EXCEPT !.loading = b]
    BY <1>1, <2>3 DEF FormType
  <2>4. CASE form' = [form EXCEPT !.sending = b]
    BY <1>1, <2>4 DEF FormType
  <2>5. CASE form' = [form EXCEPT !.exchanged = b]
    BY <1>1, <2>5 DEF FormType
  <2> QED
    BY <2>2, <2>3, <2>4, <2>5
<1>4. CASE EndStep
  <2>1. PICK c \in pending : Ended(c)
    BY <1>4 DEF EndStep
  <2>2. \/ form' = form
        \/ form' = [form EXCEPT !.error = TRUE]
        \/ form' = [form EXCEPT !.loading = FALSE]
        \/ form' = [form EXCEPT !.sending = FALSE]
        \/ form' = [form EXCEPT !.sending = FALSE, !.cooldown = Cooldown,
                                !.timers = form.timers + 1]
    BY <2>1 DEF Ended
  <2>3. Cooldown \in 0..Cooldown /\ form.timers + 1 \in Nat
    BY <1>1
  <2>4. CASE \/ form' = form
             \/ form' = [form EXCEPT !.error = TRUE]
             \/ form' = [form EXCEPT !.loading = FALSE]
             \/ form' = [form EXCEPT !.sending = FALSE]
    BY <1>1, <2>4 DEF FormType
  <2>5. CASE form' = [form EXCEPT !.sending = FALSE, !.cooldown = Cooldown,
                                  !.timers = form.timers + 1]
    BY <1>1, <2>3, <2>5 DEF FormType
  <2> QED
    BY <2>2, <2>4, <2>5
<1>5. CASE CountDown
  <2>1. form.timers \in Nat /\ form.cooldown \in 0..Cooldown /\ form.timers > 0
    BY <1>1, <1>5 DEF CountDown
  <2>2. CASE form' = [form EXCEPT !.cooldown = 0, !.timers = form.timers - 1]
    <3>1. form.timers - 1 \in Nat /\ 0 \in 0..Cooldown
      BY <1>1, <2>1
    <3> QED
      BY <1>1, <2>2, <3>1 DEF FormType
  <2>3. CASE form' = [form EXCEPT !.cooldown = form.cooldown - 1] /\ ~(form.cooldown <= 1)
    <3>1. form.cooldown - 1 \in 0..Cooldown
      BY <1>1, <2>1, <2>3
    <3> QED
      BY <1>1, <2>3, <3>1 DEF FormType
  <2> QED
    BY <1>5, <2>2, <2>3 DEF CountDown
<1>6. CASE Denied
  BY <1>1, <1>6 DEF Denied, FormType
<1> QED
  BY <1>2, <1>3, <1>4, <1>5, <1>6 DEF PageStep

LEMMA HandlersTyped ==
  ASSUME Typed, PageStep, [Next]_vars
  PROVE  HandlerTypes'
<1>0. /\ Len(owner) \in Nat /\ Len(owner') \in Nat /\ Len(owner) <= Len(owner')
      /\ token \in 0..Len(owner) /\ pending \subseteq Handler
      /\ \A c \in pending : c.session <= Len(owner)
  BY OwnerKept, LenType DEF Typed, HandlerTypes
<1>1. \A c \in pending : c \in Handler /\ c.session <= Len(owner')
  BY <1>0 DEF Handler
<1>2. CASE Remounted
  <2>1. ASSUME NEW d \in pending'
        PROVE  d \in Handler /\ d.session <= Len(owner')
    <3>1. d \in Orphaned(pending)
      BY <1>2 DEF Remounted
    <3>2. PICK c \in pending : d \in Handler /\ d.session = c.session
      BY <3>1, OrphanType DEF Typed
    <3> QED
      BY <1>1, <3>2
  <2> QED
    BY <2>1 DEF HandlerTypes
<1>3. CASE AskStep
  <2>1. PICK kind \in {"calls", "forms"}, op \in Kind, u \in User, k \in Nat :
             Asking(kind, op, u, k)
    BY <1>3 DEF AskStep
  <2>2. PICK d \in Handler : pending' = pending \cup {d} /\ d.session = token
    BY <2>1, NewHandler
  <2>3. d.session <= Len(owner')
    BY <1>0, <2>2
  <2> QED
    BY <1>1, <2>2, <2>3 DEF HandlerTypes
<1>4. CASE AnswerStep
  <2>1. PICK c \in pending : \E d \in Handler : Answered(c, d)
    BY <1>4 DEF AnswerStep
  <2>2. PICK d \in Handler : Answered(c, d)
    BY <2>1
  <2>3. pending' = (pending \ {c}) \cup {d} /\ d.session <= Len(owner')
    BY <2>2 DEF Answered
  <2> QED
    BY <1>1, <2>3 DEF HandlerTypes
<1>5. CASE EndStep \/ CountDown \/ Denied \/ Still
  <2>1. pending' \subseteq pending
    BY <1>5 DEF EndStep, Ended, CountDown, Denied, Still
  <2> QED
    BY <1>1, <2>1 DEF HandlerTypes
<1> QED
  BY <1>2, <1>3, <1>4, <1>5 DEF PageStep

\* Counting handlers.
LEMMA OrphanedCount ==
  ASSUME NEW S, IsFiniteSet(S), NEW T, T \subseteq Orphaned(S)
  PROVE  /\ IsFiniteSet(T) /\ Cardinality(T) \in Nat /\ Cardinality(S) \in Nat
         /\ Cardinality(T) <= Cardinality(S)
<1> DEFINE O == Orphaned(S)
           f == [c \in S |-> [c EXCEPT !.here = FALSE]]
<1>1. f \in [S -> O]
  BY DEF Orphaned
<1>2. \A d \in O : \E c \in S : f[c] = d
  BY DEF Orphaned
<1>3. f \in Surjection(S, O)
  BY <1>1, <1>2 DEF Surjection
<1> HIDE DEF f, O
<1>4. IsFiniteSet(O) /\ Cardinality(O) <= Cardinality(S)
  BY <1>3, FS_Surjection
<1>5. IsFiniteSet(T) /\ Cardinality(T) <= Cardinality(O)
  BY <1>4, FS_Subset DEF O
<1>6. Cardinality(S) \in Nat /\ Cardinality(O) \in Nat /\ Cardinality(T) \in Nat
  BY <1>4, <1>5, FS_CardinalityType
<1> QED
  BY <1>4, <1>5, <1>6

LEMMA SubsetCount ==
  ASSUME NEW S, IsFiniteSet(S), NEW T, T \subseteq S
  PROVE  /\ IsFiniteSet(T) /\ Cardinality(T) \in Nat /\ Cardinality(S) \in Nat
         /\ Cardinality(T) <= Cardinality(S)
BY FS_Subset, FS_CardinalityType

LEMMA AddedCount ==
  ASSUME NEW S, IsFiniteSet(S), NEW x, NEW T, T \subseteq S \cup {x}
  PROVE  /\ IsFiniteSet(T) /\ Cardinality(T) \in Nat /\ Cardinality(S) \in Nat
         /\ Cardinality(T) <= Cardinality(S) + 1
<1>1. /\ IsFiniteSet(S \cup {x}) /\ Cardinality(S) \in Nat
      /\ Cardinality(S \cup {x}) \in {Cardinality(S), Cardinality(S) + 1}
  BY FS_AddElement, FS_CardinalityType
<1>2. IsFiniteSet(T) /\ Cardinality(T) \in Nat /\ Cardinality(T) <= Cardinality(S \cup {x})
  BY <1>1, SubsetCount
<1> QED
  BY <1>1, <1>2

LEMMA RemovedCount ==
  ASSUME NEW S, IsFiniteSet(S), NEW x \in S, NEW T, T \subseteq S \ {x}
  PROVE  /\ IsFiniteSet(T) /\ Cardinality(T) \in Nat /\ Cardinality(S) \in Nat
         /\ Cardinality(T) + 1 <= Cardinality(S)
<1>1. /\ IsFiniteSet(S \ {x}) /\ Cardinality(S) \in Nat
      /\ Cardinality(S \ {x}) = Cardinality(S) - 1
  BY FS_RemoveElement, FS_CardinalityType
<1>2. IsFiniteSet(T) /\ Cardinality(T) \in Nat /\ Cardinality(T) <= Cardinality(S \ {x})
  BY <1>1, SubsetCount
<1> QED
  BY <1>1, <1>2

LEMMA ReplacedCount ==
  ASSUME NEW S, IsFiniteSet(S), NEW x \in S, NEW y, NEW T, T \subseteq (S \ {x}) \cup {y}
  PROVE  /\ IsFiniteSet(T) /\ Cardinality(T) \in Nat /\ Cardinality(S) \in Nat
         /\ Cardinality(T) <= Cardinality(S)
<1>1. /\ IsFiniteSet(S \ {x}) /\ Cardinality(S) \in Nat /\ Cardinality(S \ {x}) \in Nat
      /\ Cardinality(S \ {x}) + 1 <= Cardinality(S)
  BY RemovedCount
<1>2. /\ IsFiniteSet(T) /\ Cardinality(T) \in Nat
      /\ Cardinality(T) <= Cardinality(S \ {x}) + 1
  BY <1>1, AddedCount
<1> QED
  BY <1>1, <1>2

\* Handlers at work, and those whose request for a code is not served yet: only
\* a new request adds one.
LEMMA PendingCount ==
  ASSUME Typed, HandlersInv, PageStep
  PROVE  /\ IsFiniteSet(pending') /\ Cardinality(pending') + form'.timers <= count'
         /\ Cardinality(Unserved) \in Nat /\ Cardinality(Unserved') \in Nat
         /\ Cardinality(Unserved') + count <= Cardinality(Unserved) + count'
<1> DEFINE N  == Cardinality(pending)
           N2 == Cardinality(pending')
           U  == Cardinality(Unserved)
           U2 == Cardinality(Unserved')
           t  == form.timers
           t2 == form'.timers
<1>0. /\ IsFiniteSet(pending) /\ N + t <= count /\ N \in Nat /\ t \in Nat /\ count \in Nat
      /\ IsFiniteSet(Unserved) /\ U \in Nat
  BY FS_CardinalityType, SubsetCount DEF Typed, Counted, Unserved, FormType, Within
<1>1. CASE Remounted /\ UNCHANGED count
  <2>1. IsFiniteSet(pending') /\ N2 \in Nat /\ N2 <= N
    BY <1>0, <1>1, OrphanedCount DEF Remounted
  <2>2. t2 \in {0, t}
    BY <1>1 DEF Remounted, Blank
  <2>3. Unserved' \subseteq Orphaned(Unserved)
    <3>1. ASSUME NEW d \in Unserved'
          PROVE  d \in Orphaned(Unserved)
      <4>1. d \in Orphaned(pending) /\ d.op = "send" /\ d.state = "sent"
        BY <1>1 DEF Unserved, Remounted
      <4>2. PICK c \in pending : /\ d.op = c.op /\ d.state = c.state
                                 /\ d = [c EXCEPT !.here = FALSE]
        BY <4>1, OrphanType DEF Typed
      <4> QED
        BY <4>1, <4>2 DEF Unserved, Orphaned
    <3> QED
      BY <3>1
  <2>4. U2 \in Nat /\ U2 <= U
    BY <1>0, <2>3, OrphanedCount
  <2> HIDE DEF N, N2, U, U2, t, t2
  <2>5. N2 + t2 <= count' /\ U2 + count <= U + count'
    BY <1>0, <1>1, <2>1, <2>2, <2>4
  <2> QED
    BY <1>0, <2>1, <2>4, <2>5 DEF N2, U, U2, t2
<1>2. CASE AskStep
  <2>1. PICK kind \in {"calls", "forms"}, op \in Kind, u \in User, k \in Nat :
             Asking(kind, op, u, k)
    BY <1>2 DEF AskStep
  <2>2. PICK d \in Handler : pending' = pending \cup {d} /\ count' = count + 1
    BY <2>1, NewHandler
  <2>3. IsFiniteSet(pending') /\ N2 \in Nat /\ N2 <= N + 1
    BY <1>0, <2>2, AddedCount
  <2>4. Unserved' \subseteq Unserved \cup {d}
    BY <2>2 DEF Unserved
  <2>5. U2 \in Nat /\ U2 <= U + 1
    BY <1>0, <2>4, AddedCount
  <2>6. t2 = t
    BY <2>1 DEF Asking, Typed, FormType
  <2> HIDE DEF N, N2, U, U2, t, t2
  <2>7. N2 + t2 <= count' /\ U2 + count <= U + count'
    BY <1>0, <2>2, <2>3, <2>5, <2>6
  <2> QED
    BY <1>0, <2>3, <2>5, <2>7 DEF N2, U, U2, t2
<1>3. CASE AnswerStep
  <2>1. PICK c \in pending : \E d \in Handler : Answered(c, d)
    BY <1>3 DEF AnswerStep
  <2>2. PICK d \in Handler : Answered(c, d)
    BY <2>1
  <2>3. /\ pending' = (pending \ {c}) \cup {d} /\ d.state # "sent" /\ t2 = t /\ count' = count
    BY <2>2 DEF Answered
  <2>4. IsFiniteSet(pending') /\ N2 \in Nat /\ N2 <= N
    BY <1>0, <2>3, ReplacedCount
  <2>5. Unserved' \subseteq Unserved
    BY <2>3 DEF Unserved
  <2>6. U2 \in Nat /\ U2 <= U
    BY <1>0, <2>5, SubsetCount
  <2> HIDE DEF N, N2, U, U2, t, t2
  <2>7. N2 + t2 <= count' /\ U2 + count <= U + count'
    BY <1>0, <2>3, <2>4, <2>6
  <2> QED
    BY <1>0, <2>4, <2>6, <2>7 DEF N2, U, U2, t2
<1>4. CASE EndStep
  <2>1. PICK c \in pending : Ended(c)
    BY <1>4 DEF EndStep
  <2>2. pending' = pending \ {c} /\ count' = count
    BY <2>1 DEF Ended
  <2>3. t2 \in {t, t + 1}
    BY <2>1 DEF Ended, Typed, FormType
  <2>4. IsFiniteSet(pending') /\ N2 \in Nat /\ N2 + 1 <= N
    BY <1>0, <2>2, RemovedCount
  <2>5. Unserved' \subseteq Unserved
    BY <2>2 DEF Unserved
  <2>6. U2 \in Nat /\ U2 <= U
    BY <1>0, <2>5, SubsetCount
  <2> HIDE DEF N, N2, U, U2, t, t2
  <2>7. N2 + t2 <= count' /\ U2 + count <= U + count'
    BY <1>0, <2>2, <2>3, <2>4, <2>6
  <2> QED
    BY <1>0, <2>4, <2>6, <2>7 DEF N2, U, U2, t2
<1>5. CASE CountDown \/ Denied \/ Still
  <2>1. pending' = pending /\ count' = count /\ Unserved' = Unserved
    BY <1>5 DEF CountDown, Denied, Still, Unserved
  <2>2. t2 \in {t, t - 1}
    BY <1>5 DEF CountDown, Denied, Still, Typed, FormType
  <2>3. N2 = N /\ U2 = U
    BY <2>1
  <2> HIDE DEF N, N2, U, U2, t, t2
  <2>4. N2 + t2 <= count' /\ U2 + count <= U + count'
    BY <1>0, <2>1, <2>2, <2>3
  <2> QED
    BY <1>0, <2>1, <2>3, <2>4 DEF N2, U, U2, t2
<1> QED
  BY <1>1, <1>2, <1>3, <1>4, <1>5 DEF PageStep

LEMMA IssuedStep ==
  ASSUME HandlersInv, [Next]_vars
  PROVE  \/ UNCHANGED <<code, issued>>
         \/ UNCHANGED issued /\ \E p \in Purpose : code' = [code EXCEPT ![p] = NoCode]
         \/ \E c \in pending : StoreCode(c)
<1>1. CASE UNCHANGED vars \/ UNCHANGED codes
  BY <1>1 DEF vars, codes
<1>2. CASE OnSendCode \/ OnSubmit \/ CountDown \/ CodeAges
  BY <1>2 DEF OnSendCode, OnSubmit, CountDown, CodeAges, codes
<1>3. ASSUME NEW c \in pending,
             \/ SendReturned(c) \/ ForgotReturned(c) \/ MailCode(c) \/ CheckCode(c)
             \/ CheckAddress(c) \/ CreateUser(c) \/ ApplySignupBonuses(c) \/ ResetPassword(c)
      PROVE  UNCHANGED <<code, issued>>
  BY <1>3 DEF SendReturned, MailCode, ForgotReturned, CheckCode, CheckAddress, CreateUser,
     ApplySignupBonuses, ResetPassword, codes
<1>4. ASSUME NEW c \in pending, DropCode(c)
      PROVE  /\ UNCHANGED issued
             /\ UNCHANGED code \/ \E p \in Purpose : code' = [code EXCEPT ![p] = NoCode]
  <2>1. c.purpose \in Purpose
    BY <1>4 DEF DropCode, HandlersInv, Good
  <2> QED
    BY <1>4, <2>1 DEF DropCode
<1> QED
  BY <1>1, <1>2, <1>3, <1>4 DEF Next, CodesNext

LEMMA CountedStep ==
  ASSUME Typed, HandlersInv, PageStep, Within', [Next]_vars
  PROVE  Counted'
<1> DEFINE U  == Cardinality(Unserved)
           U2 == Cardinality(Unserved')
<1>0. /\ IsFiniteSet(pending') /\ Cardinality(pending') + form'.timers <= count'
      /\ U \in Nat /\ U2 \in Nat /\ U2 + count <= U + count' /\ count \in Nat /\ count' \in Nat
  BY PendingCount DEF Typed, Within
<1>1. /\ issued \in [Purpose -> Nat] /\ code \in [Purpose -> Nat]
      /\ \A p \in Purpose : issued[p] + U <= count /\ code[p] <= issued[p]
  BY DEF Typed, Counted
<1> HIDE DEF U, U2
<1>2. CASE UNCHANGED issued /\
           (UNCHANGED code \/ \E p \in Purpose : code' = [code EXCEPT ![p] = NoCode])
  <2>1. issued' \in [Purpose -> Nat] /\ code' \in [Purpose -> Nat]
    BY <1>1, <1>2 DEF NoCode
  <2>2. ASSUME NEW p \in Purpose
        PROVE  issued'[p] + U2 <= count' /\ code'[p] <= issued'[p]
    <3>1. issued'[p] = issued[p] /\ issued[p] \in Nat /\ code[p] \in Nat
          /\ issued[p] + U <= count /\ code[p] <= issued[p]
      BY <1>1, <1>2
    <3>2. code'[p] \in {0, code[p]}
      BY <1>1, <1>2 DEF NoCode
    <3> QED
      BY <1>0, <3>1, <3>2
  <2> QED
    BY <1>0, <2>1, <2>2 DEF Counted, U2
<1>3. ASSUME NEW c \in pending, StoreCode(c)
      PROVE  Counted'
  <2> DEFINE p == c.purpose
  <2>1. p \in Purpose /\ c \in Unserved
    BY <1>3 DEF StoreCode, HandlersInv, Good, Unserved
  <2>2. \E d : pending' = (pending \ {c}) \cup {d} /\ d.state \in {"stored", "error"}
    <3>1. Good(c)
      BY DEF HandlersInv
    <3>2. PICK e : /\ pending' = (pending \ {c}) \cup {e} /\ Good(e)
                   /\ e.op = "send" /\ e.purpose = c.purpose /\ e.state \in {"stored", "error"}
                   /\ e.state = "stored" => e.code = issued'[c.purpose]
      BY <1>3, <3>1, StorePending
    <3> QED
      BY <3>2
  <2>3. Unserved' \subseteq Unserved \ {c}
    BY <2>2 DEF Unserved
  <2>4. U2 + 1 <= U
    <3>1. IsFiniteSet(Unserved)
      BY SubsetCount DEF Typed, Counted, Unserved
    <3> QED
      BY <2>1, <2>3, <3>1, RemovedCount DEF U, U2
  <2>5. count' = count
    BY <1>3 DEF StoreCode, AtServer
  <2>6. /\ issued' = [issued EXCEPT ![p] = issued[p] + 1]
        /\ code' = [code EXCEPT ![p] = issued'[p]]
    BY <1>3 DEF StoreCode
  <2>7. issued' \in [Purpose -> Nat] /\ code' \in [Purpose -> Nat]
    BY <1>1, <2>1, <2>6
  <2>8. ASSUME NEW q \in Purpose
        PROVE  issued'[q] + U2 <= count' /\ code'[q] <= issued'[q]
    <3>1. issued[q] \in Nat /\ code[q] \in Nat /\ issued[q] + U <= count /\ code[q] <= issued[q]
      BY <1>1
    <3>2. CASE q = p
      <4>1. issued'[q] = issued[q] + 1 /\ code'[q] = issued'[q]
        BY <1>1, <2>1, <2>6, <3>2
      <4> QED
        BY <1>0, <2>4, <2>5, <3>1, <4>1
    <3>3. CASE q # p
      <4>1. issued'[q] = issued[q] /\ code'[q] = code[q]
        BY <1>1, <2>1, <2>6, <3>3
      <4> QED
        BY <1>0, <2>4, <2>5, <3>1, <4>1
    <3> QED
      BY <3>2, <3>3
  <2> QED
    BY <1>0, <2>7, <2>8 DEF Counted, U2
<1> QED
  BY <1>2, <1>3, IssuedStep

\* What the other steps do to codes that are mailed.
LEMMA MailingKept ==
  ASSUME Typed, HandlersInv, UNCHANGED <<issued, mailed>>,
         Kept \/ \E c \in pending : ServerStep(c) /\ ~StoreCode(c)
  PROVE  Mailing'
<1>1. ASSUME NEW d \in pending', d.state = "stored"
      PROVE  \E c \in pending : c.state = "stored" /\ c.purpose = d.purpose /\ c.code = d.code
  <2>1. CASE Kept
    BY <1>1, <2>1, KeptBusy
  <2>2. ASSUME NEW c \in pending, ServerStep(c), ~StoreCode(c)
        PROVE  d \in pending
    <3>1. PICK s \in {"error", "checked", "dropped", "unused", "created"} : Goes(c, s)
      BY <2>2, ServerStepPending
    <3>2. [c EXCEPT !.state = s].state # "stored"
      BY DEF HandlersInv, Good, Shape
    <3> QED
      BY <1>1, <3>1, <3>2 DEF Goes
  <2> QED
    BY <1>1, <2>1, <2>2
<1>2. ASSUME NEW d \in pending', d.state = "stored"
      PROVE  d.code \in 1..issued'[d.purpose]
  BY <1>1, <1>2 DEF Typed, Mailing
<1> QED
  BY <1>2 DEF Typed, Mailing

LEMMA MailCodeMailing ==
  ASSUME Typed, HandlersInv, NEW c \in pending, MailCode(c)
  PROVE  Mailing'
<1>1. Kept /\ UNCHANGED issued
  BY EndedKept DEF MailCode
<1>2. c.purpose \in Purpose /\ c.code \in 1..issued[c.purpose]
  BY DEF MailCode, HandlersInv, Good, Typed, Mailing
<1>3. mailed' \subseteq mailed \cup {<<c.purpose, c.code>>}
  BY DEF MailCode
<1>4. \A m \in mailed' : \E p \in Purpose : \E k \in 1..issued'[p] : m = <<p, k>>
  BY <1>1, <1>2, <1>3 DEF Typed, Mailing
<1>5. ASSUME NEW d \in pending', d.state = "stored"
      PROVE  d.code \in 1..issued'[d.purpose]
  <2>1. PICK b \in pending : b.state = "stored" /\ b.purpose = d.purpose /\ b.code = d.code
    BY <1>1, <1>5, KeptBusy
  <2> QED
    BY <1>1, <2>1 DEF Typed, Mailing
<1> QED
  BY <1>4, <1>5 DEF Mailing

LEMMA StoreMailing ==
  ASSUME Typed, HandlersInv, NEW c \in pending, StoreCode(c)
  PROVE  Mailing'
<1>1. c.purpose \in Purpose /\ Good(c) /\ mailed' = mailed
  BY DEF StoreCode, HandlersInv, Good
<1>2. /\ issued \in [Purpose -> Nat]
      /\ issued' = [issued EXCEPT ![c.purpose] = issued[c.purpose] + 1]
  BY DEF StoreCode, Typed, Counted
<1>3. \A p \in Purpose : issued[p] \in Nat /\ issued'[p] \in {issued[p], issued[p] + 1}
  BY <1>2
<1>4. issued'[c.purpose] = issued[c.purpose] + 1
  BY <1>1, <1>2
<1>5. \A p \in Purpose : 1..issued[p] \subseteq 1..issued'[p]
  BY <1>3
<1>6. \A m \in mailed' : \E p \in Purpose : \E k \in 1..issued'[p] : m = <<p, k>>
  BY <1>1, <1>5 DEF Typed, Mailing
<1>7. PICK e : /\ pending' = (pending \ {c}) \cup {e} /\ Good(e)
               /\ e.op = "send" /\ e.purpose = c.purpose /\ e.state \in {"stored", "error"}
               /\ e.state = "stored" => e.code = issued'[c.purpose]
  BY <1>1, StorePending
<1>8. ASSUME NEW d \in pending', d.state = "stored"
      PROVE  d.code \in 1..issued'[d.purpose]
  <2>1. CASE d = e
    BY <1>1, <1>3, <1>4, <1>7, <1>8, <2>1
  <2>2. CASE d \in pending
    <3>1. d.code \in 1..issued[d.purpose]
      BY <1>8, <2>2 DEF Typed, Mailing
    <3>2. d.purpose \in Purpose
      BY <1>8, <2>2 DEF HandlersInv, Good
    <3> QED
      BY <1>5, <3>1, <3>2
  <2> QED
    BY <1>7, <2>1, <2>2
<1> QED
  BY <1>6, <1>8 DEF Mailing

LEMMA MailingStep ==
  ASSUME Typed, HandlersInv, [Next]_vars
  PROVE  Mailing'
<1>1. CASE UNCHANGED vars
  BY <1>1, MailingKept DEF vars, codes, Kept
<1>2. CASE SessionNext /\ UNCHANGED codes
  BY <1>2, SessionKept, MailingKept DEF codes
<1>3. ASSUME NEW c \in pending, StoreCode(c) \/ MailCode(c)
      PROVE  Mailing'
  BY <1>3, StoreMailing, MailCodeMailing
<1>4. CASE CodesNext /\ ~\E c \in pending : StoreCode(c) \/ MailCode(c)
  <2>1. UNCHANGED <<issued, mailed>>
    BY <1>4 DEF CodesNext, OnSendCode, CountDown, OnSubmit, CodeAges, SendReturned,
       ForgotReturned, CheckCode, DropCode, CheckAddress, CreateUser, ApplySignupBonuses,
       ResetPassword, codes
  <2> QED
    BY <1>4, <2>1, CodesKept, MailingKept
<1> QED
  BY <1>1, <1>2, <1>3, <1>4 DEF Next

LEMMA TypedStep ==
  ASSUME Typed, HandlersInv, [Next]_vars
  PROVE  Typed' /\ PageStep
<1>1. Within' /\ ServerTypes' /\ UserTypes' /\ PageStep
  BY NextTyped
<1>2. FormType' /\ HandlerTypes' /\ Counted'
  BY <1>1, FormTyped, HandlersTyped, CountedStep
<1> QED
  BY <1>1, <1>2, MailingStep DEF Typed

LEMMA TypedInit == Init => Typed
<1> SUFFICES ASSUME Init PROVE Typed
  OBVIOUS
<1>1. Within
  <2>1. left \in Budgets /\ count = 0
    BY DEF Init
  <2>2. left \in [calls : Nat, forms : Nat, faults : Nat, moves : Nat, elsewhere : Nat]
        /\ left.calls + left.forms <= MaxCalls
    BY <2>1, SessionAssumption
  <2> QED
    BY <2>1, <2>2 DEF Within
<1>2. ServerTypes /\ UserTypes
  <2>1. owner = <<>> /\ owner \in Seq(User) /\ Len(owner) = 0
    BY DEF Init
  <2>2. ServerTypes
    BY <2>1 DEF Init, ServerTypes
  <2>3. self \in SelfType /\ load \in LoadType(0) /\ token = 0 /\ path \in Routes
        /\ crossed \in BOOLEAN
    BY FreshType DEF Init, NoSession, Routes, Purpose
  <2> QED
    BY <2>1, <2>2, <2>3 DEF UserTypes, SelfType, LoadType
<1>3. FormType /\ HandlerTypes
  BY FreshType DEF Init, FormType, HandlerTypes
<1>4. Counted
  <2>1. Unserved = {} /\ pending = {} /\ form.timers = 0 /\ count = 0
    BY DEF Init, Unserved, Blank
  <2>2. IsFiniteSet({}) /\ Cardinality({}) = 0
    BY FS_EmptySet
  <2>3. issued \in [Purpose -> Nat] /\ code \in [Purpose -> Nat]
        /\ \A p \in Purpose : issued[p] = 0 /\ code[p] = 0
    BY DEF Init, NoCode
  <2> QED
    BY <2>1, <2>2, <2>3 DEF Counted
<1>5. Mailing
  BY DEF Init, Mailing
<1> QED
  BY <1>1, <1>2, <1>3, <1>4, <1>5 DEF Typed

-------------------------------------------------------------------------------
(* The mounted page and the handlers that are at work for it                   *)

\* What the page shows while a handler works for it.
At(c) ==
    /\ c.op = "login" => path = "login" /\ form.loading
    /\ c.op = "password" => path = "dashboard" /\ form.loading
    /\ c.op \in Purpose => path = c.op /\ form.loading
    /\ c.op = "profile" => path = "dashboard" /\ form.sending
    /\ c.op = "github" => path = "callback" /\ form.exchanged /\ ~form.error
    /\ c.op = "send" => /\ path \in Purpose
                        /\ path = "register" => form.sending /\ form.timers = 0

Several(c) == c.op = "send" /\ path = "forgot"

HereInv ==
    /\ \A c \in pending : c.here => At(c)
    /\ \A c, d \in pending : c.here /\ d.here /\ c.op = d.op /\ c # d => Several(c)
    /\ form.error => form.exchanged
    /\ path = "register" => form.timers <= 1 /\ (form.timers = 0 <=> form.cooldown = 0)

LEMMA HereRemounted ==
  ASSUME Typed, HereInv, Remounted
  PROVE  HereInv'
<1>1. \A d \in pending' : ~d.here
  <2>1. ASSUME NEW d \in pending'
        PROVE  ~d.here
    BY OrphanType DEF Remounted, Typed
  <2> QED
    BY <2>1
<1>2. CASE form' = Blank
  <2>1. ~form'.error /\ form'.timers = 0 /\ form'.cooldown = 0
    BY <1>2 DEF Blank
  <2> QED
    BY <1>1, <2>1 DEF HereInv
<1>3. CASE UNCHANGED <<path, form>>
  BY <1>1, <1>3 DEF HereInv
<1> QED
  BY <1>2, <1>3 DEF Remounted

\* What the flags are after a handler has sent its request.
LEMMA AskFlags ==
  ASSUME Typed, NEW kind, NEW op \in Kind, NEW u, NEW k, Asking(kind, op, u, k)
  PROVE  /\ form'.timers = form.timers /\ form'.cooldown = form.cooldown
         /\ form'.error = form.error
         /\ op \in {"login", "password"} \cup Purpose =>
              /\ ~form.loading /\ form'.loading /\ form'.sending = form.sending
              /\ form'.exchanged = form.exchanged
         /\ op = "profile" =>
              /\ ~form.sending /\ form'.sending /\ form'.loading = form.loading
              /\ form'.exchanged = form.exchanged
         /\ op = "github" =>
              /\ ~form.exchanged /\ form'.exchanged /\ form'.loading = form.loading
              /\ form'.sending = form.sending
         /\ op = "send" =>
              /\ ~form.sending /\ form'.sending = (path = "register") /\ form.cooldown = 0
              /\ form'.loading = form.loading /\ form'.exchanged = form.exchanged
         /\ op = "login" => path = "login"
         /\ op \in {"password", "profile"} => path = "dashboard"
         /\ op = "github" => path = "callback"
         /\ op \in Purpose => path = op
         /\ op = "send" => path \in Purpose
BY DEF Asking, Typed, FormType, Kind, Purpose

LEMMA HereAsk ==
  ASSUME Typed, HereInv, AskStep
  PROVE  HereInv'
<1>1. PICK kind \in {"calls", "forms"}, op \in Kind, u \in User, k \in Nat :
           Asking(kind, op, u, k)
  BY DEF AskStep
<1>2. PICK d \in Handler : /\ pending' = pending \cup {d} /\ path' = path
                           /\ d.op = op /\ d.here
  BY <1>1, NewHandler
<1>3. /\ form'.timers = form.timers /\ form'.cooldown = form.cooldown
      /\ form'.error = form.error
      /\ op \in {"login", "password"} \cup Purpose =>
           /\ ~form.loading /\ form'.loading /\ form'.sending = form.sending
           /\ form'.exchanged = form.exchanged
      /\ op = "profile" =>
           /\ ~form.sending /\ form'.sending /\ form'.loading = form.loading
           /\ form'.exchanged = form.exchanged
      /\ op = "github" =>
           /\ ~form.exchanged /\ form'.exchanged /\ form'.loading = form.loading
           /\ form'.sending = form.sending
      /\ op = "send" =>
           /\ ~form.sending /\ form'.sending = (path = "register") /\ form.cooldown = 0
           /\ form'.loading = form.loading /\ form'.exchanged = form.exchanged
      /\ op = "login" => path = "login"
      /\ op \in {"password", "profile"} => path = "dashboard"
      /\ op = "github" => path = "callback"
      /\ op \in Purpose => path = op
      /\ op = "send" => path \in Purpose
  BY <1>1, AskFlags
<1>4. op \in {"login", "github", "password", "profile", "send"} \cup Purpose
  BY DEF Kind
<1>5. At(d)'
  BY <1>2, <1>3, <1>4 DEF At, HereInv, Purpose
<1>6. ASSUME NEW c \in pending, c.here
      PROVE  At(c)'
  <2>1. At(c)
    BY <1>6 DEF HereInv
  <2> QED
    BY <1>2, <1>3, <1>4, <2>1 DEF At, Purpose
<1>7. ASSUME NEW c \in pending, c.here, c.op = op
      PROVE  op = "send" /\ path = "forgot"
  <2>1. At(c)
    BY <1>7 DEF HereInv
  <2> QED
    BY <1>3, <1>4, <1>7, <2>1 DEF At, Purpose
<1>8. ASSUME NEW b \in pending', NEW c \in pending', b.here, c.here, b.op = c.op, b # c
      PROVE  Several(b)'
  BY <1>2, <1>7, <1>8 DEF HereInv, Several
<1> QED
  BY <1>2, <1>3, <1>4, <1>5, <1>6, <1>8 DEF HereInv

LEMMA HereAnswer ==
  ASSUME Typed, HereInv, AnswerStep
  PROVE  HereInv'
<1>1. PICK c \in pending : \E d \in Handler : Answered(c, d)
  BY DEF AnswerStep
<1>2. PICK d \in Handler : Answered(c, d)
  BY <1>1
<1>3. /\ pending' = (pending \ {c}) \cup {d} /\ d.op = c.op /\ d.here = c.here
      /\ path' = path /\ form' = form
  BY <1>2 DEF Answered
<1>4. ASSUME NEW b \in pending'
      PROVE  \E a \in pending : a.op = b.op /\ a.here = b.here /\ (b = d => a = c)
                                /\ (b # d => a = b /\ a # c)
  BY <1>3
<1>5. ASSUME NEW b \in pending', b.here
      PROVE  At(b)'
  <2>1. PICK a \in pending : a.op = b.op /\ a.here = b.here
    BY <1>4
  <2>2. At(a)
    BY <1>5, <2>1 DEF HereInv
  <2> QED
    BY <1>3, <2>1, <2>2 DEF At
<1>6. ASSUME NEW b \in pending', NEW e \in pending', b.here, e.here, b.op = e.op, b # e
      PROVE  Several(b)'
  <2>1. PICK a \in pending : a.op = b.op /\ a.here = b.here /\ (b = d => a = c)
                             /\ (b # d => a = b /\ a # c)
    BY <1>4
  <2>2. PICK f \in pending : f.op = e.op /\ f.here = e.here /\ (e = d => f = c)
                             /\ (e # d => f = e /\ f # c)
    BY <1>4
  <2>3. a # f
    BY <1>6, <2>1, <2>2
  <2>4. Several(a)
    BY <1>6, <2>1, <2>2, <2>3 DEF HereInv
  <2> QED
    BY <1>3, <2>1, <2>4 DEF Several
<1> QED
  BY <1>3, <1>5, <1>6 DEF HereInv

LEMMA EndFlags ==
  ASSUME Typed, NEW c, Ended(c)
  PROVE  \/ form' = form
         \/ /\ c.here /\ c.op = "github" /\ form'.error /\ form'.loading = form.loading
            /\ form'.sending = form.sending /\ form'.exchanged = form.exchanged
            /\ form'.timers = form.timers /\ form'.cooldown = form.cooldown
         \/ /\ c.here /\ c.op \in {"login", "password"} \cup Purpose
            /\ form'.error = form.error
            /\ form'.sending = form.sending /\ form'.exchanged = form.exchanged
            /\ form'.timers = form.timers /\ form'.cooldown = form.cooldown
         \/ /\ c.here /\ c.op = "profile"
            /\ form'.error = form.error /\ form'.loading = form.loading
            /\ form'.exchanged = form.exchanged
            /\ form'.timers = form.timers /\ form'.cooldown = form.cooldown
         \/ /\ c.here /\ c.op = "send"
            /\ form'.error = form.error /\ form'.loading = form.loading
            /\ form'.exchanged = form.exchanged
            /\ \/ form'.timers = form.timers /\ form'.cooldown = form.cooldown
               \/ form'.timers = form.timers + 1 /\ form'.cooldown = Cooldown
BY DEF Ended, Typed, FormType

LEMMA HereEnd ==
  ASSUME Typed, HereInv, EndStep
  PROVE  HereInv'
<1>1. PICK c \in pending : Ended(c)
  BY DEF EndStep
<1>2. pending' = pending \ {c} /\ path' = path
  BY <1>1 DEF Ended
<1>3. \A a, b \in pending' : a.here /\ b.here /\ a.op = b.op /\ a # b => Several(a)'
  BY <1>2 DEF HereInv, Several
<1>4. ASSUME c.here, NEW b \in pending', b.here, b.op = c.op
      PROVE  c.op = "send" /\ path = "forgot"
  BY <1>2, <1>4 DEF HereInv, Several
<1>5. c.here => At(c)
  BY DEF HereInv
<1>6. CASE form' = form
  BY <1>2, <1>3, <1>6 DEF HereInv, At
<1>7. CASE /\ c.here /\ c.op = "github" /\ form'.error /\ form'.loading = form.loading
           /\ form'.sending = form.sending /\ form'.exchanged = form.exchanged
           /\ form'.timers = form.timers /\ form'.cooldown = form.cooldown
  <2>1. path = "callback" /\ form.exchanged
    BY <1>5, <1>7 DEF At
  <2>2. ASSUME NEW b \in pending', b.here
        PROVE  At(b)'
    <3>1. At(b) /\ b.op # "github"
      BY <1>2, <1>4, <1>7, <2>2 DEF HereInv
    <3> QED
      BY <1>2, <1>7, <3>1 DEF At
  <2> QED
    BY <1>2, <1>3, <1>7, <2>1, <2>2 DEF HereInv
<1>8. CASE /\ c.here /\ c.op \in {"login", "password"} \cup Purpose
           /\ form'.error = form.error
           /\ form'.sending = form.sending /\ form'.exchanged = form.exchanged
           /\ form'.timers = form.timers /\ form'.cooldown = form.cooldown
  <2>1. ASSUME NEW b \in pending', b.here
        PROVE  At(b)'
    <3>1. At(b) /\ b.op # c.op
      BY <1>2, <1>4, <1>8, <2>1 DEF HereInv, Purpose
    <3>2. b.op \notin {"login", "password"} \cup Purpose
      BY <1>5, <1>8, <3>1 DEF At, Purpose
    <3> QED
      BY <1>2, <1>8, <3>1, <3>2 DEF At
  <2> QED
    BY <1>2, <1>3, <1>8, <2>1 DEF HereInv
<1>9. CASE /\ c.here /\ c.op = "profile"
           /\ form'.error = form.error /\ form'.loading = form.loading
           /\ form'.exchanged = form.exchanged
           /\ form'.timers = form.timers /\ form'.cooldown = form.cooldown
  <2>1. ASSUME NEW b \in pending', b.here
        PROVE  At(b)'
    <3>1. At(b) /\ b.op # "profile"
      BY <1>2, <1>4, <1>9, <2>1 DEF HereInv
    <3>2. path = "dashboard"
      BY <1>5, <1>9 DEF At
    <3> QED
      BY <1>2, <1>9, <3>1, <3>2 DEF At, Purpose
  <2> QED
    BY <1>2, <1>3, <1>9, <2>1 DEF HereInv
<1>10. CASE /\ c.here /\ c.op = "send"
            /\ form'.error = form.error /\ form'.loading = form.loading
            /\ form'.exchanged = form.exchanged
            /\ \/ form'.timers = form.timers /\ form'.cooldown = form.cooldown
               \/ form'.timers = form.timers + 1 /\ form'.cooldown = Cooldown
  <2>1. path \in Purpose /\ (path = "register" => form.timers = 0)
    BY <1>5, <1>10 DEF At
  <2>2. ASSUME NEW b \in pending', b.here
        PROVE  At(b)'
    <3>1. At(b) /\ (b.op = "send" => path = "forgot")
      BY <1>2, <1>4, <1>10, <2>2 DEF HereInv
    <3> QED
      BY <1>2, <1>10, <2>1, <3>1 DEF At, Purpose
  <2>3. path = "register" => form'.timers <= 1 /\ (form'.timers = 0 <=> form'.cooldown = 0)
    BY <1>10, <2>1, CooldownAssumption DEF HereInv
  <2> QED
    BY <1>2, <1>3, <1>10, <2>2, <2>3 DEF HereInv
<1> QED
  BY <1>1, <1>6, <1>7, <1>8, <1>9, <1>10, EndFlags

LEMMA HereCountDown ==
  ASSUME Typed, HereInv, CountDown
  PROVE  HereInv'
<1>1. /\ pending' = pending /\ path' = path /\ form.timers \in Nat /\ form.timers > 0
      /\ form.cooldown \in Nat
  BY CooldownAssumption DEF CountDown, auth, Typed, FormType
<1>2. /\ form'.loading = form.loading /\ form'.sending = form.sending
      /\ form'.exchanged = form.exchanged /\ form'.error = form.error
      /\ \/ form'.cooldown = 0 /\ form'.timers = form.timers - 1
         \/ ~(form.cooldown <= 1) /\ form'.cooldown = form.cooldown - 1
            /\ form'.timers = form.timers
  BY DEF CountDown, Typed, FormType
<1>3. ASSUME NEW c \in pending, c.here
      PROVE  At(c)'
  <2>1. At(c) /\ ~(c.op = "send" /\ path = "register")
    BY <1>1, <1>3 DEF HereInv, At
  <2> QED
    BY <1>1, <1>2, <2>1 DEF At
<1>4. path = "register" => form'.timers <= 1 /\ (form'.timers = 0 <=> form'.cooldown = 0)
  BY <1>1, <1>2 DEF HereInv
<1> QED
  BY <1>1, <1>2, <1>3, <1>4 DEF HereInv, Several

\* Nothing is sent without a code, and nothing is under way for this page.
LEMMA HereDenied ==
  ASSUME Typed, HereInv, Denied
  PROVE  HereInv'
<1>1. /\ path = "callback" /\ ~form.exchanged /\ pending' = pending /\ path' = path
      /\ form'.exchanged /\ form'.loading = form.loading /\ form'.sending = form.sending
      /\ form'.timers = form.timers /\ form'.cooldown = form.cooldown
  BY DEF Denied, auth, Typed, FormType
<1>2. ASSUME NEW c \in pending, c.here
      PROVE  At(c)'
  <2>1. At(c) /\ c.op # "github"
    BY <1>1, <1>2 DEF HereInv, At
  <2> QED
    BY <1>1, <2>1 DEF At
<1> QED
  BY <1>1, <1>2 DEF HereInv, Several

LEMMA HereStep ==
  ASSUME Typed, HereInv, PageStep
  PROVE  HereInv'
<1>1. CASE Still
  BY <1>1 DEF Still, HereInv, At, Several
<1> QED
  BY <1>1, HereRemounted, HereAsk, HereAnswer, HereEnd, HereCountDown, HereDenied
     DEF PageStep

-------------------------------------------------------------------------------
(* The user that is shown                                                      *)

\* What is loading, or cached, fits the session t.
Fits(s, l, t) ==
    /\ l.phase \in {"sent", "answered"} => l.n = t /\ t # NoSession
    /\ l.phase = "sent" => l.user = Nobody
    /\ l.phase = "answered" /\ l.user # Nobody => l.user = owner[t]
    /\ l.phase \in {"idle", "recent"} /\ t # NoSession /\ s.user # Nobody => s.user = owner[t]

ShownInv == failed = 0 /\ ~crossed => Fits(self, load, token)

LEMMA StartFits ==
  ASSUME NEW s, NEW l, NEW t, t # NoSession, Start(t, s, l)
  PROVE  Fits(self', load', t)
<1>1. load' = [phase |-> "sent", n |-> t, user |-> Nobody]
  BY DEF Start, Request
<1> QED
  BY <1>1 DEF Fits

LEMMA MountFits ==
  ASSUME NEW p, NEW s, NEW l, NEW t, Fits(s, l, t), Mount(p, t, s, l)
  PROVE  Fits(self', load', t)
<1>1. CASE self' = s /\ load' = l
  BY <1>1
<1>2. CASE t # NoSession /\ Start(t, s, l)
  BY <1>2, StartFits
<1> QED
  BY <1>1, <1>2 DEF Mount, UseAuth, Join

LEMMA FreshFits == \A t : Fits(Fresh, NoLoad, t)
BY DEF Fits, Fresh, NoLoad

\* Nothing happens that ends what is promised of the user shown.
Calm == failed' = 0 /\ ~crossed'

LEMMA CalmBefore ==
  ASSUME failed \in Nat, crossed \in BOOLEAN, [Next]_vars, Calm
  PROVE  failed = 0 /\ ~crossed
<1>1. failed' \in {failed, failed + 1} /\ (crossed => crossed')
  <2>1. CASE UNCHANGED vars
    BY <2>1 DEF vars, history
  <2>2. CASE \/ LoadServed \/ DedupingEnds
             \/ SignIn \/ GithubReturn \/ Exchange \/ Denied
             \/ Logout \/ ChangePassword \/ SaveProfile
             \/ Visit \/ Reload \/ OtherTab \/ Expire
    BY <2>2 DEF LoadServed, DedupingEnds, SignIn, GithubReturn,
       Exchange, Denied, Logout, ChangePassword, SaveProfile, Visit, Reload, OtherTab, Expire,
       Left, Send, history
  <2>3. CASE LoadDelivered
    <3>1. crossed' = crossed
      BY <2>3 DEF LoadDelivered
    <3>2. failed' = failed + 0 \/ failed' = failed + 1
      BY <2>3 DEF LoadDelivered
    <3> QED
      BY <3>1, <3>2
  <2>4. ASSUME NEW c \in pending,
               \/ LoginServed(c) \/ GithubServed(c) \/ SignedIn(c) \/ Told(c)
               \/ SettingsServed(c) \/ PasswordChanged(c) \/ ProfileSaved(c) \/ Refused(c)
        PROVE  failed' \in {failed, failed + 1} /\ (crossed => crossed')
    <3>1. UNCHANGED failed
      BY <2>4 DEF LoginServed, GithubServed, SignedIn, Told, SettingsServed, PasswordChanged,
                  ProfileSaved,
         Refused, Left, history
    <3>2. crossed => crossed'
      BY <2>4, Zenon DEF LoginServed, GithubServed, SignedIn, Told, SettingsServed, PasswordChanged,
         ProfileSaved, Refused, Left, history
    <3> QED
      BY <3>1, <3>2
  <2>5. CASE OnSendCode \/ OnSubmit \/ CountDown \/ CodeAges
    BY <2>5 DEF OnSendCode, OnSubmit, CountDown, CodeAges, Send, history
  <2>6. ASSUME NEW c \in pending,
               \/ SendReturned(c) \/ ForgotReturned(c) \/ StoreCode(c) \/ MailCode(c)
               \/ CheckCode(c) \/ DropCode(c) \/ CheckAddress(c) \/ CreateUser(c)
               \/ ApplySignupBonuses(c) \/ ResetPassword(c)
        PROVE  failed' \in {failed, failed + 1} /\ (crossed => crossed')
    BY <2>6 DEF SendReturned, ForgotReturned, StoreCode, MailCode, CheckCode, DropCode,
                CheckAddress,
       CreateUser, ApplySignupBonuses, ResetPassword, AtServer, history
  <2> QED
    BY <2>1, <2>2, <2>3, <2>4, <2>5, <2>6 DEF Next, SessionNext, CodesNext
<1> QED
  BY <1>1 DEF Calm

\* Sessions that are added change nothing.
LEMMA SameShown ==
  ASSUME Typed, [Next]_vars, Fits(self, load, token), UNCHANGED <<self, load, token>>
  PROVE  Fits(self, load, token)'
<1>1. token \in 0..Len(owner) /\ Len(owner) \in Nat
  BY LenType DEF Typed
<1>2. token # NoSession => owner'[token] = owner[token]
  BY <1>1, OwnerKept DEF NoSession
<1> QED
  BY <1>2 DEF Fits

LEMMA LoadShown ==
  ASSUME Typed, failed = 0, Fits(self, load, token), Calm,
         LoadServed \/ LoadDelivered \/ DedupingEnds
  PROVE  Fits(self, load, token)'
<1>0. load \in LoadType(Len(owner)) /\ Len(owner) \in Nat
  BY LenType DEF Typed
<1>1. UNCHANGED <<owner, token>>
  BY DEF LoadServed, LoadDelivered, DedupingEnds, session
<1>2. CASE LoadServed
  <2>1. load.phase = "sent" /\ load.n = token /\ token # NoSession /\ load.user = Nobody
    BY <1>2 DEF LoadServed, Fits
  <2>2. PICK u \in {owner[token], Nobody} : load' = [load EXCEPT !.phase = "answered", !.user = u]
    <3>1. CASE load' = [load EXCEPT !.phase = "answered"]
      <4>1. load' = [load EXCEPT !.phase = "answered", !.user = Nobody]
        BY <1>0, <2>1, <3>1 DEF LoadType
      <4> QED
        BY <4>1
    <3> QED
      BY <1>2, <2>1, <3>1 DEF LoadServed
  <2>3. load'.phase = "answered" /\ load'.n = token /\ load'.user \in {owner[token], Nobody}
    BY <1>0, <2>1, <2>2 DEF LoadType
  <2> QED
    BY <1>1, <2>1, <2>3 DEF Fits
<1>3. CASE LoadDelivered
  <2>1. load.phase = "answered" /\ load.user # Nobody
    BY <1>3 DEF LoadDelivered, Calm
  <2>2. self'.user = load.user /\ load' = [load EXCEPT !.phase = "recent"]
    BY <1>3, <2>1 DEF LoadDelivered
  <2>3. load'.phase = "recent"
    BY <1>0, <2>2 DEF LoadType
  <2> QED
    BY <1>1, <2>1, <2>2, <2>3 DEF Fits
<1>4. CASE DedupingEnds
  <2>1. load.phase = "recent" /\ load'.phase = "idle" /\ UNCHANGED self
    BY <1>4 DEF DedupingEnds, NoLoad
  <2> QED
    BY <1>1, <2>1 DEF Fits
<1> QED
  BY <1>2, <1>3, <1>4

LEMMA MoveShown ==
  ASSUME Fits(self, load, token), Calm,
         GithubReturn \/ Left \/ Visit \/ Reload \/ OtherTab
  PROVE  Fits(self, load, token)'
<1>1. CASE GithubReturn \/ Left
  <2>1. self' = Fresh /\ load' = NoLoad
    BY <1>1 DEF GithubReturn, Left
  <2> QED
    BY <2>1 DEF Fits, Fresh, NoLoad
<1>2. CASE Visit \/ Reload
  <2>1. UNCHANGED <<owner, token>>
    BY <1>2 DEF Visit, Reload, session
  <2>2. Fits(self', load', token)
    BY <1>2, MountFits, FreshFits DEF Visit, Reload
  <2> QED
    BY <2>1, <2>2 DEF Fits
<1>3. CASE OtherTab
  BY <1>3 DEF OtherTab, Calm
<1> QED
  BY <1>1, <1>2, <1>3

LEMMA EndShown ==
  ASSUME Typed, [Next]_vars, Fits(self, load, token), Calm, NEW c \in pending,
         SignedIn(c) \/ Told(c) \/ PasswordChanged(c) \/ ProfileSaved(c) \/ ForgotReturned(c)
  PROVE  Fits(self, load, token)'
<1>1. CASE SignedIn(c)
  <2>1. load.phase = "idle" /\ path # "dashboard" /\ token' = c.session /\ owner' = owner
    BY <1>1 DEF SignedIn, Calm, session
  <2>2. Mount("dashboard", c.session, self, load)
    BY <1>1, <2>1 DEF SignedIn
  <2>3. CASE c.session = NoSession
    <3>1. self' = self /\ load' = load
      BY <2>2, <2>3 DEF Mount, Guarded
    <3> QED
      BY <2>1, <2>3, <3>1 DEF Fits
  <2>4. CASE c.session # NoSession
    <3>1. Start(c.session, self, load)
      BY <2>1, <2>2, <2>4 DEF Mount, UseAuth, Guarded
    <3>2. Fits(self', load', c.session)
      BY <2>4, <3>1, StartFits
    <3> QED
      BY <2>1, <3>2 DEF Fits
  <2> QED
    BY <2>3, <2>4
<1>2. CASE Told(c)
  BY <1>2, SameShown DEF Told, auth
<1>3. CASE PasswordChanged(c)
  BY <1>3, MoveShown DEF PasswordChanged
<1>4. CASE ProfileSaved(c)
  <2>1. UNCHANGED <<owner, token, self>>
    BY <1>4 DEF ProfileSaved, session
  <2>2. CASE load' = load
    BY <2>1, <2>2, SameShown
  <2>3. CASE load' = Request(token) /\ token # NoSession
    <3>1. load' = [phase |-> "sent", n |-> token, user |-> Nobody]
      BY <2>3 DEF Request
    <3> QED
      BY <2>1, <2>3, <3>1 DEF Fits
  <2> QED
    BY <1>4, <2>2, <2>3 DEF ProfileSaved
<1>5. CASE ForgotReturned(c)
  <2>1. UNCHANGED <<owner, token>>
    BY <1>5 DEF ForgotReturned, session
  <2>2. CASE Mount("login", token, self, load)
    <3>1. Fits(self', load', token)
      BY <2>2, MountFits
    <3> QED
      BY <2>1, <3>1 DEF Fits
  <2>3. CASE UNCHANGED <<self, load>>
    BY <2>1, <2>3, SameShown
  <2> QED
    BY <1>5, <2>2, <2>3 DEF ForgotReturned
<1> QED
  BY <1>1, <1>2, <1>3, <1>4, <1>5

LEMMA ShownStep ==
  ASSUME Typed, failed \in Nat, ShownInv, [Next]_vars
  PROVE  ShownInv'
<1> SUFFICES ASSUME Calm PROVE Fits(self, load, token)'
  BY DEF ShownInv, Calm
<1>0. failed = 0 /\ Fits(self, load, token)
  BY CalmBefore DEF ShownInv, Typed, UserTypes
<1>1. CASE UNCHANGED vars
  BY <1>0, <1>1, SameShown DEF vars, auth
<1>2. CASE LoadServed \/ LoadDelivered \/ DedupingEnds
  BY <1>0, <1>2, LoadShown
<1>3. CASE GithubReturn \/ Logout \/ Visit \/ Reload \/ OtherTab
  BY <1>0, <1>3, MoveShown DEF Logout
<1>4. CASE SignIn \/ Exchange \/ Denied \/ ChangePassword \/ SaveProfile \/ Expire
  BY <1>0, <1>4, SameShown DEF SignIn, Exchange, Denied, ChangePassword, SaveProfile, Expire, Send,
                               auth
<1>5. ASSUME NEW c \in pending,
             LoginServed(c) \/ GithubServed(c) \/ SettingsServed(c) \/ Refused(c)
      PROVE  Fits(self, load, token)'
  BY <1>0, <1>5, SameShown DEF LoginServed, GithubServed, SettingsServed, Refused, auth
<1>6. CASE OnSendCode \/ OnSubmit \/ CountDown \/ CodeAges
  BY <1>0, <1>6, SameShown DEF OnSendCode, OnSubmit, CountDown, CodeAges, Send, auth
<1>7. ASSUME NEW c \in pending,
             \/ SendReturned(c) \/ StoreCode(c) \/ MailCode(c) \/ CheckCode(c) \/ DropCode(c)
             \/ CheckAddress(c) \/ CreateUser(c) \/ ApplySignupBonuses(c) \/ ResetPassword(c)
      PROVE  Fits(self, load, token)'
  BY <1>0, <1>7, SameShown DEF SendReturned, StoreCode, MailCode, CheckCode, DropCode, CheckAddress,
     CreateUser, ApplySignupBonuses, ResetPassword, AtServer, auth
<1> QED
  BY <1>0, <1>1, <1>2, <1>3, <1>4, <1>5, <1>6, <1>7, EndShown DEF Next, SessionNext, CodesNext

-------------------------------------------------------------------------------
(* Types, and what follows from the mounted page and from the user shown       *)

\* Codes that are used or too old were stored, and forms carry such codes.
GoneInv ==
    /\ gone \cup passed \subseteq Purpose \X (1..MaxCalls)
    /\ \A c \in pending : c.op \in Purpose => c.code # 0

\* Codes are numbered up to the bound on requests.
LEMMA CodeNumbers ==
  ASSUME Typed, NEW p \in Purpose
  PROVE  issued[p] \in 0..MaxCalls /\ code[p] \in 0..MaxCalls
<1>1. IsFiniteSet(Unserved)
  BY SubsetCount DEF Typed, Counted, Unserved
<1>2. Cardinality(Unserved) \in Nat
  BY <1>1, FS_CardinalityType
<1>3. /\ issued[p] \in Nat /\ code[p] \in Nat /\ code[p] <= issued[p]
      /\ issued[p] + Cardinality(Unserved) <= count
  BY DEF Typed, Counted
<1>4. count \in Nat /\ count <= MaxCalls /\ MaxCalls \in Nat
  BY SessionAssumption DEF Typed, Within
<1> QED
  BY <1>2, <1>3, <1>4

LEMMA GoneStep ==
  ASSUME Typed, Typed', PageStep, HandlersInv, GoneInv, [Next]_vars
  PROVE  GoneInv'
<1> DEFINE Code == Purpose \X (1..MaxCalls)
<1>0. MaxCalls \in Nat /\ gone \cup passed \subseteq Code
  BY SessionAssumption DEF GoneInv
<1>1. \A c \in pending' : c.op \in Purpose => c.code # 0
  <2>1. CASE Remounted
    <3>1. ASSUME NEW d \in pending'
          PROVE  d.op \in Purpose => d.code # 0
      <4>1. PICK c \in pending : d.op = c.op /\ d.code = c.code
        BY <2>1, OrphanType DEF Remounted, Typed
      <4> QED
        BY <4>1 DEF GoneInv
    <3> QED
      BY <3>1
  <2>2. CASE AskStep
    <3>1. PICK kind \in {"calls", "forms"}, op \in Kind, u \in User, k \in Nat :
               Asking(kind, op, u, k)
      BY <2>2 DEF AskStep
    <3>2. PICK d \in Handler : pending' = pending \cup {d} /\ d.op = op /\ d.code = k
      BY <3>1, NewHandler
    <3>3. op \in Purpose => k # 0
      <4>1. ASSUME op \in Purpose PROVE k \in 1..issued[op]
        BY <3>1, <4>1 DEF Asking, Purpose
      <4>2. ASSUME op \in Purpose PROVE issued[op] \in Nat
        BY <4>2 DEF Typed, Counted
      <4> QED
        BY <4>1, <4>2
    <3> QED
      BY <3>2, <3>3 DEF GoneInv
  <2>3. CASE AnswerStep
    <3>1. PICK c \in pending : \E d \in Handler : Answered(c, d)
      BY <2>3 DEF AnswerStep
    <3>2. PICK d \in Handler : Answered(c, d)
      BY <3>1
    <3> QED
      BY <3>2 DEF Answered, GoneInv
  <2>4. CASE EndStep \/ CountDown \/ Denied \/ Still
    <3>1. pending' \subseteq pending
      BY <2>4 DEF EndStep, Ended, CountDown, Denied, Still
    <3> QED
      BY <3>1 DEF GoneInv
  <2> QED
    BY <2>1, <2>2, <2>3, <2>4 DEF PageStep
<1>2. gone' \cup passed' \subseteq Code
  <2>1. CASE UNCHANGED <<gone, passed>>
    BY <1>0, <2>1
  <2>2. ASSUME NEW c \in pending, StoreCode(c)
        PROVE  gone' \cup passed' \subseteq Code
    <3>1. c.purpose \in Purpose
      BY <2>2 DEF StoreCode, HandlersInv, Good
    <3>2. issued'[c.purpose] = issued[c.purpose] + 1 /\ issued[c.purpose] \in Nat
      BY <2>2, <3>1 DEF StoreCode, Typed, Counted
    <3>3. issued'[c.purpose] <= MaxCalls
      <4>1. Unserved' \subseteq pending' /\ IsFiniteSet(pending')
        BY DEF Unserved, Typed, Counted
      <4>2. Cardinality(Unserved') \in Nat
        BY <4>1, SubsetCount
      <4>3. issued'[c.purpose] + Cardinality(Unserved') <= count'
        BY <3>1 DEF Typed, Counted
      <4>4. count' \in Nat /\ count' <= MaxCalls
        BY <1>0 DEF Typed, Within
      <4> QED
        BY <1>0, <3>2, <4>2, <4>3, <4>4
    <3>4. <<c.purpose, issued'[c.purpose]>> \in Code
      BY <1>0, <3>1, <3>2, <3>3
    <3> QED
      BY <1>0, <2>2, <3>4 DEF StoreCode
  <2>3. ASSUME NEW c \in pending, DropCode(c)
        PROVE  gone' \cup passed' \subseteq Code
    <3>1. c.op \in Purpose /\ c.purpose = c.op /\ c.code # 0
      BY <2>3 DEF DropCode, HandlersInv, Good, GoneInv
    <3>2. c.code \in 0..MaxCalls
      BY DEF Typed, HandlerTypes, Handler
    <3>3. <<c.purpose, c.code>> \in Code
      BY <1>0, <3>1, <3>2
    <3> QED
      BY <1>0, <2>3, <3>3 DEF DropCode
  <2>4. CASE CodeAges
    <3>1. PICK p \in Purpose : code[p] # 0 /\ gone' = gone \cup {<<p, code[p]>>}
      BY <2>4 DEF CodeAges, NoCode
    <3>2. code[p] \in 0..MaxCalls
      BY CodeNumbers
    <3>3. <<p, code[p]>> \in Code
      BY <1>0, <3>1, <3>2
    <3> QED
      BY <1>0, <2>4, <3>1, <3>3 DEF CodeAges
  <2>5. CASE \/ UNCHANGED vars \/ UNCHANGED codes \/ OnSendCode \/ OnSubmit \/ CountDown
    BY <2>1, <2>5 DEF vars, codes, OnSendCode, OnSubmit, CountDown
  <2>6. ASSUME NEW c \in pending,
               \/ SendReturned(c) \/ ForgotReturned(c) \/ MailCode(c) \/ CheckCode(c)
               \/ CheckAddress(c) \/ CreateUser(c) \/ ApplySignupBonuses(c) \/ ResetPassword(c)
        PROVE  gone' \cup passed' \subseteq Code
    BY <2>1, <2>6 DEF SendReturned, ForgotReturned, MailCode, CheckCode, CheckAddress, CreateUser,
       ApplySignupBonuses, ResetPassword, codes
  <2> QED
    BY <2>2, <2>3, <2>4, <2>5, <2>6 DEF Next, CodesNext
<1> QED
  BY <1>1, <1>2 DEF GoneInv

\* What is true of every state, together.
PagesInv == Typed /\ HereInv /\ GoneInv /\ ShownInv

LEMMA PagesStep ==
  ASSUME PagesInv, HandlersInv, LoginInv, [Next]_vars
  PROVE  PagesInv'
<1>1. Typed' /\ PageStep
  BY TypedStep DEF PagesInv
<1>2. HereInv' /\ GoneInv' /\ ShownInv'
  BY <1>1, HereStep, GoneStep, ShownStep DEF PagesInv, LoginInv
<1> QED
  BY <1>1, <1>2 DEF PagesInv

LEMMA PagesCorrect == Spec => []PagesInv
<1>1. Init => PagesInv
  <2> SUFFICES ASSUME Init PROVE PagesInv
    OBVIOUS
  <2>1. pending = {} /\ ~form.error /\ form.timers = 0 /\ form.cooldown = 0
    BY DEF Init, Blank
  <2>2. HereInv /\ GoneInv
    BY <2>1 DEF Init, HereInv, GoneInv
  <2>3. ShownInv
    BY FreshFits DEF Init, ShownInv
  <2> QED
    BY <2>2, <2>3, TypedInit DEF PagesInv
<1> QED
  BY <1>1, PagesStep, HandlersCorrect, LoginCorrect, PTL DEF Spec

\* Every variable keeps its type: no more requests are at work, codes stored or
\* intervals running than were sent; a page has only one handler of each kind at
\* work for it, since its button is disabled or its effect has run, but for the
\* codes of forgotten passwords, whose button nothing disables; and one interval
\* counts down on the register page.
THEOREM AccountPageTypes == Spec => []TypeOK
<1>1. ASSUME PagesInv, LoginInv, BonusInv
      PROVE  TypeOK
  <2>1. Typed /\ HereInv /\ GoneInv
    BY <1>1 DEF PagesInv
  <2>2. MaxCalls \in Nat /\ count \in Nat /\ count <= MaxCalls
    BY <2>1, SessionAssumption DEF Typed, Within
  <2>3. form.timers \in 0..MaxCalls
    <3>1. Cardinality(pending) \in Nat
      BY <2>1, FS_CardinalityType DEF Typed, Counted
    <3>2. form.timers \in Nat /\ Cardinality(pending) + form.timers <= count
      BY <2>1 DEF Typed, Counted, FormType
    <3> QED
      BY <2>2, <3>1, <3>2
  <2>4. form \in [loading : BOOLEAN, sending : BOOLEAN, cooldown : 0..Cooldown,
                  timers : 0..MaxCalls, exchanged : BOOLEAN, error : BOOLEAN]
    BY <2>1, <2>3 DEF Typed, FormType
  <2>5. code \in [Purpose -> 0..MaxCalls] /\ issued \in [Purpose -> 0..MaxCalls]
    BY <2>1, CodeNumbers DEF Typed, Counted
  <2>6. count \in 0..MaxCalls /\ pending \subseteq Handler
    BY <2>1, <2>2 DEF Typed, HandlerTypes
  <2>7. failed \in Nat /\ bounced \in Nat /\ bonuses \in Nat /\ crossed \in BOOLEAN
    BY <1>1, <2>1 DEF LoginInv, BonusInv, Typed, UserTypes
  <2>8. /\ accounts \subseteq User /\ owner \in Seq(User) /\ expired \subseteq 1..Len(owner)
        /\ grant \in {"none", "fresh", "used", "denied"}
        /\ token \in 0..Len(owner) /\ path \in Routes
        /\ self \in [user : User \cup {Nobody}, loading : BOOLEAN]
        /\ load \in [phase : {"idle", "sent", "answered", "recent"}, n : 0..Len(owner),
                     user : User \cup {Nobody}]
    BY <2>1 DEF Typed, ServerTypes, UserTypes
  <2>9. /\ \A c, d \in pending :
             c.here /\ d.here /\ c.op = d.op /\ c # d => c.op = "send" /\ path = "forgot"
        /\ path = "register" => form.timers <= 1
    BY <2>1 DEF HereInv, Several
  <2>10. mailed \subseteq Purpose \X (1..MaxCalls)
    <3>1. \A p \in Purpose : issued[p] \in 0..MaxCalls
      BY <2>1, CodeNumbers
    <3>2. \A p \in Purpose : 1..issued[p] \subseteq 1..MaxCalls
      BY <2>2, <3>1, SessionAssumption
    <3> QED
      BY <2>1, <3>2 DEF Typed, Mailing
  <2> QED
    BY <2>1, <2>4, <2>5, <2>6, <2>7, <2>8, <2>9, <2>10 DEF TypeOK, GoneInv
<1>2. Spec => []BonusInv
  BY HandlersCorrect, BonusStart, BonusStep, PTL DEF Spec
<1> QED
  BY <1>1, <1>2, PagesCorrect, LoginCorrect, PTL

\* While the callback page exchanges the authorisation it shows no error, and
\* once it shows one there is no exchange left that could still sign the user in:
\* the effect that runs again sends nothing.
THEOREM CallbackErrorCorrect == Spec => []CallbackErrorIsFinal
<1>1. PagesInv => CallbackErrorIsFinal
  BY DEF PagesInv, HereInv, At, CallbackErrorIsFinal
<1> QED
  BY <1>1, PagesCorrect, PTL

\* The dashboard shows the user of the session that the browser keeps, or has his
\* request under way, whatever is visited, reloaded, signed in or out, and in
\* whatever order answers arrive; unless a load has failed or a session was
\* replaced by another.
THEOREM ShownUserCorrect == Spec => []ShownIsSignedIn
<1>1. ASSUME PagesInv, LoginInv
      PROVE  ShownIsSignedIn
  <2>1. ShownInv /\ failed \in Nat /\ load \in LoadType(Len(owner))
    BY <1>1, LenType DEF PagesInv, LoginInv, Typed
  <2>2. load.phase \in {"idle", "sent", "answered", "recent"}
    BY <2>1 DEF LoadType
  <2> QED
    BY <2>1, <2>2 DEF ShownInv, Fits, Shown, ShownIsSignedIn
<1> QED
  BY <1>1, PagesCorrect, LoginCorrect, PTL
=============================================================================
