------------------------------ MODULE Session ------------------------------
(***************************************************************************)
(* Who is signed in, as one tab of the front-end sees it: the session that *)
(* localStorage keeps, SWR's entry for /user/self (hooks/useAuth.ts), the  *)
(* guard of the dashboard (RequireAuth.tsx), and the pages that sign in    *)
(* and out.  A route is left while its requests are under way, and their   *)
(* handlers go on.                                                         *)
(***************************************************************************)
EXTENDS Naturals, Sequences, FiniteSets

CONSTANTS
    User, Admins, Nobody,
    NewUser,        \* the user whose account does not exist at the start
    MaxCalls,       \* bound: requests sent by forms and buttons
    Budgets         \* left of a behaviour: sign-ins and changes of the account,
                    \* codes asked for and forms that need one, failures, moves
                    \* of the user and sign-ins in other tabs

VARIABLES
    \* the server
    accounts,       \* users that exist
    owner,          \* the user of each session issued
    expired,        \* sessions that are over
    grant,          \* the GitHub authorisation: none, fresh, used or denied
    \* the browser
    token,          \* the session in localStorage
    path,           \* the route
    self,           \* SWR's entry for /user/self: the user, or that he is loading
    load,           \* its request
    pending,        \* handlers that await their answer
    count,          \* requests sent so far
    form,           \* the state of the mounted page
    \* what happened
    failed,         \* loads of the user that failed
    bounced,        \* times somebody with a live session was sent to /login
    crossed,        \* a session replaced another while a load was under way
    left            \* what is left of the budget

session == <<accounts, owner, expired, grant>>
auth    == <<token, path, self, load>>
history == <<failed, bounced, crossed>>

Guarded == {"dashboard", "admin"}
Routes  == {"login", "register", "forgot", "callback"} \cup Guarded
NoSession == 0

ASSUME SessionAssumption ==
    /\ Nobody \notin User /\ NewUser \in User /\ Admins \subseteq User
    /\ MaxCalls \in Nat
    /\ Budgets \subseteq [calls : Nat, forms : Nat, faults : Nat, moves : Nat, elsewhere : Nat]
    /\ \A b \in Budgets : b.calls + b.forms <= MaxCalls

Spend(kind) == left[kind] > 0 /\ left' = [left EXCEPT ![kind] = @ - 1]

Live(n) == n # NoSession /\ n \notin expired

-----------------------------------------------------------------------------
(* The user of the session. *)

Fresh  == [user |-> Nobody, loading |-> TRUE]
NoLoad == [phase |-> "idle", n |-> NoSession, user |-> Nobody]

Request(n) == [phase |-> "sent", n |-> n, user |-> Nobody]

\* Where RequireAuth sends who is at p, when useAuth returns s and the browser
\* has the session t.
WrongRequireAuth(p, s, t) ==
    IF t = NoSession THEN "login"
    ELSE IF s.user = Nobody THEN p
    ELSE IF p = "admin" /\ s.user \notin Admins THEN "dashboard"
    ELSE p

RequireAuth(p, s, t) ==
    IF t = NoSession THEN "login"
    ELSE IF s.user = Nobody THEN IF s.loading THEN p ELSE "login"
    ELSE IF p = "admin" /\ s.user \notin Admins THEN "dashboard"
    ELSE p

Join(t, s, l) == load' = l /\ self' = s

Start(t, s, l) == load' = Request(t) /\ self' = [s EXCEPT !.loading = (s.user = Nobody)]

WrongUseAuthCached(t, s, l) ==
    IF l.phase # "idle" \/ s.user # Nobody THEN Join(t, s, l) ELSE Start(t, s, l)

WrongUseAuthFailed(t, s, l) ==
    IF l.phase # "idle" \/ (s.user = Nobody /\ ~s.loading) THEN Join(t, s, l) ELSE Start(t, s, l)

\* What the hook does when a guarded route is mounted: it joins a request under
\* way or just answered, and sends one otherwise, whatever is cached.  A failure
\* that is cached is what the first render sees.
UseAuth(t, s, l) == IF l.phase # "idle" THEN Join(t, s, l) ELSE Start(t, s, l)

\* The state of a page when it is mounted.
Blank == [loading |-> FALSE, sending |-> FALSE, cooldown |-> 0, timers |-> 0,
          exchanged |-> FALSE, error |-> FALSE]

\* Handlers of a page that is not mounted any more.
Orphaned(cs) == {[c EXCEPT !.here = FALSE] : c \in cs}

Bounced(p, t) ==
    bounced' = bounced + (IF p \in Guarded /\ path' = "login" /\ Live(t) THEN 1 ELSE 0)

\* Route p is mounted, with the session t and the hook's state s and l.
Mount(p, t, s, l) ==
    /\ form' = Blank
    /\ \/ p \notin Guarded /\ path' = p /\ self' = s /\ load' = l
       \/ /\ p \in Guarded /\ path' = RequireAuth(p, s, t)
          /\ IF t = NoSession THEN self' = s /\ load' = l ELSE UseAuth(t, s, l)
    /\ Bounced(p, t)

LoadServed ==
    /\ load.phase = "sent"
    /\ \/ /\ load' = [load EXCEPT !.phase = "answered",
                                  !.user = IF Live(load.n) THEN owner[load.n] ELSE Nobody]
          /\ UNCHANGED left
       \/ load' = [load EXCEPT !.phase = "answered"] /\ Spend("faults")
    /\ UNCHANGED <<session, token, path, self, pending, count, form, history>>

\* After a failure the cached user stays, if there is one, and nothing is sent
\* again.  A guarded route is rendered with the news.
LoadDelivered ==
    LET ok == load.user # Nobody
        s == IF ok THEN [user |-> load.user, loading |-> FALSE]
             ELSE [self EXCEPT !.loading = FALSE]
    IN
    /\ load.phase = "answered"
    /\ self' = s
    /\ load' = IF ok THEN [load EXCEPT !.phase = "recent"] ELSE NoLoad
    /\ path' = IF path \in Guarded THEN RequireAuth(path, s, token) ELSE path
    /\ form' = IF path' = path THEN form ELSE Blank
    /\ pending' = IF path' = path THEN pending ELSE Orphaned(pending)
    /\ failed' = failed + (IF ok THEN 0 ELSE 1)
    /\ Bounced(path, token)
    /\ UNCHANGED <<session, token, count, crossed, left>>

\* SWR joins an answer for two seconds.
DedupingEnds ==
    /\ load.phase = "recent" /\ load' = NoLoad
    /\ UNCHANGED <<session, token, path, self, pending, count, form, history, left>>

-----------------------------------------------------------------------------
(* Handlers. *)

Send(kind, op, u, code) ==
    /\ Spend(kind)
    /\ count' = count + 1
    /\ pending' = pending \cup
        {[n |-> count + 1, op |-> op, purpose |-> path, user |-> u, code |-> code,
          here |-> TRUE, state |-> "sent", session |-> token]}
    /\ UNCHANGED <<session, auth, history>>

Goes(c, state) == pending' = (pending \ {c}) \cup {[c EXCEPT !.state = state]}

\* The answer is a new session.
Issue(c) ==
    /\ owner' = Append(owner, c.user)
    /\ pending' = (pending \ {c}) \cup
        {[c EXCEPT !.state = "ok", !.session = Len(owner) + 1]}

\* The request is refused, or fails, or its answer is lost.
Refused(c) == Goes(c, "error") /\ UNCHANGED <<session, auth, count, form, history>>

SignIn ==
    /\ path = "login" /\ ~form.loading
    /\ \E u \in User : Send("calls", "login", u, 0)
    /\ form' = [form EXCEPT !.loading = TRUE]

\* From the login page to GitHub and back, with a code or without one, which
\* loads the front-end anew.
GithubReturn ==
    /\ path = "login" /\ Spend("moves")
    /\ grant' \in {"fresh", "denied"}
    /\ path' = "callback" /\ self' = Fresh /\ load' = NoLoad
    /\ pending' = {} /\ form' = Blank
    /\ UNCHANGED <<accounts, owner, expired, token, count, history>>

\* The effect of the callback page, which React may run twice.
WrongExchange ==
    /\ path = "callback" /\ grant # "denied"
    /\ \E u \in User : Send("calls", "github", u, 0)
    /\ form' = [form EXCEPT !.exchanged = TRUE]

Exchange ==
    /\ path = "callback" /\ grant # "denied" /\ ~form.exchanged
    /\ \E u \in User : Send("calls", "github", u, 0)
    /\ form' = [form EXCEPT !.exchanged = TRUE]

\* Without a code there is nothing to send.
Denied ==
    /\ path = "callback" /\ grant = "denied" /\ ~form.exchanged
    /\ form' = [form EXCEPT !.exchanged = TRUE, !.error = TRUE]
    /\ UNCHANGED <<session, auth, pending, count, history, left>>

LoginServed(c) ==
    /\ c.op = "login" /\ c.state = "sent" /\ UNCHANGED left
    /\ \/ /\ c.user \in accounts /\ Issue(c)
          /\ UNCHANGED <<accounts, expired, grant, auth, count, form, history>>
       \/ Refused(c)

\* GitHub's code works once, and makes an account of who has none.  What fails
\* later does so with the code used.
GithubServed(c) ==
    /\ c.op = "github" /\ c.state = "sent"
    /\ \/ /\ grant = "fresh" /\ grant' = "used"
          /\ \/ accounts' = accounts \cup {c.user} /\ Issue(c) /\ UNCHANGED left
             \/ /\ accounts' \in {accounts, accounts \cup {c.user}} /\ UNCHANGED owner
                /\ Goes(c, "error") /\ Spend("faults")
          /\ UNCHANGED <<expired, auth, count, form, history>>
       \/ grant # "fresh" /\ Refused(c) /\ UNCHANGED left

\* A handler that signed in stores the session and opens the dashboard from
\* wherever the user is now.  The dashboard itself is only rendered again.
SignedIn(c) ==
    /\ c.op \in {"login", "github", "register"} /\ c.state = "ok"
    /\ token' = c.session
    /\ \/ path # "dashboard" /\ Mount("dashboard", c.session, self, load)
          /\ pending' = Orphaned(pending \ {c})
       \/ /\ path = "dashboard" /\ path' = RequireAuth(path, self, c.session)
          /\ form' = IF path' = path THEN form ELSE Blank
          /\ pending' = IF path' = path THEN pending \ {c} ELSE Orphaned(pending \ {c})
          /\ Bounced(path, c.session)
          /\ UNCHANGED <<self, load>>
    /\ crossed' = (crossed \/ load.phase # "idle" \/ path = "dashboard")
    /\ UNCHANGED <<session, count, failed, left>>

\* A handler is told of a failure: the page's button is released, the callback
\* page shows the error.
Told(c) ==
    /\ c.op \in {"login", "github", "register", "forgot", "password"} /\ c.state = "error"
    /\ pending' = pending \ {c}
    /\ form' = IF ~c.here THEN form
               ELSE IF c.op = "github" THEN [form EXCEPT !.error = TRUE]
               ELSE [form EXCEPT !.loading = FALSE]
    /\ UNCHANGED <<session, auth, count, history, left>>

-----------------------------------------------------------------------------
(* The dashboard. *)

Shown == path \in Guarded /\ self.user # Nobody

\* The session is forgotten here and the front-end loaded anew.  The server is
\* not told.
Left ==
    /\ token' = NoSession /\ path' = "login" /\ self' = Fresh /\ load' = NoLoad
    /\ form' = Blank /\ pending' = {}
    /\ UNCHANGED <<session, count, history>>

Logout == Shown /\ Left /\ UNCHANGED left

ChangePassword ==
    /\ Shown /\ path = "dashboard" /\ ~form.loading
    /\ Send("calls", "password", self.user, 0)
    /\ form' = [form EXCEPT !.loading = TRUE]

SaveProfile ==
    /\ Shown /\ path = "dashboard" /\ ~form.sending
    /\ Send("calls", "profile", self.user, 0)
    /\ form' = [form EXCEPT !.sending = TRUE]

\* The password and the name of the session's user are changed; a session that
\* is over is refused, and so is a wrong old password.
SettingsServed(c) ==
    /\ c.op \in {"password", "profile"} /\ c.state = "sent" /\ UNCHANGED left
    /\ \/ /\ Live(c.session) /\ Goes(c, "ok")
          /\ UNCHANGED <<session, auth, count, form, history>>
       \/ Refused(c)

PasswordChanged(c) == c.op = "password" /\ c.state = "ok" /\ Left /\ UNCHANGED left

ProfileSaved(c) ==
    /\ c.op = "profile" /\ c.state \in {"ok", "error"}
    /\ pending' = pending \ {c}
    /\ form' = IF c.here THEN [form EXCEPT !.sending = FALSE] ELSE form
    /\ load' = IF c.state = "ok" /\ path \in Guarded /\ token # NoSession
               THEN Request(token) ELSE load
    /\ UNCHANGED <<session, token, path, self, count, history, left>>

-----------------------------------------------------------------------------
(* The user, other tabs, time. *)

Visit ==
    /\ Spend("moves")
    /\ \E p \in Routes \ {path, "callback"} : Mount(p, token, self, load)
    /\ pending' = Orphaned(pending)
    /\ UNCHANGED <<session, token, count, failed, crossed>>

Reload ==
    /\ Spend("moves")
    /\ Mount(path, token, Fresh, NoLoad)
    /\ pending' = {}
    /\ UNCHANGED <<session, token, count, failed, crossed>>

\* Another tab signs out, or signs in as somebody.
OtherTab ==
    /\ Spend("elsewhere")
    /\ \/ token' = NoSession /\ UNCHANGED owner
       \/ \E u \in accounts : owner' = Append(owner, u) /\ token' = Len(owner')
    /\ crossed' = TRUE
    /\ UNCHANGED <<accounts, expired, grant, path, self, load, pending, count,
                   form, failed, bounced>>

Expire ==
    /\ Spend("faults")
    /\ expired' = 1..Len(owner) /\ expired' # expired
    /\ UNCHANGED <<accounts, owner, grant, auth, pending, count, form, history>>

SessionNext ==
    \/ LoadServed \/ LoadDelivered \/ DedupingEnds
    \/ SignIn \/ GithubReturn \/ Exchange \/ Denied
    \/ Logout \/ ChangePassword \/ SaveProfile
    \/ Visit \/ Reload \/ OtherTab \/ Expire
    \/ \E c \in pending :
        \/ LoginServed(c) \/ GithubServed(c) \/ SignedIn(c) \/ Told(c)
        \/ SettingsServed(c) \/ PasswordChanged(c) \/ ProfileSaved(c)
        \/ c.state \notin {"ok", "error"} /\ Refused(c) /\ Spend("faults")
=============================================================================
