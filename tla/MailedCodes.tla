---------------------------- MODULE MailedCodes ----------------------------
(***************************************************************************)
(* The pages that need a mailed code, pages/auth/RegisterPage.tsx and      *)
(* ForgotPage.tsx, and the server's handling of the codes: each is kept    *)
(* under its address and purpose until it is used, or ten minutes old.     *)
(* Storing a code and mailing it are two steps, and so are reading a code, *)
(* deleting it, looking for the account and creating it.                   *)
(***************************************************************************)
EXTENDS Session

CONSTANT
    Cooldown        \* seconds before the button may be used again

VARIABLES
    code,           \* the code in Redis, per purpose; 0 is none
    issued,         \* the last code stored, per purpose
    mailed,         \* the codes that reached the user's mailbox
    bonuses,        \* signup bonuses granted to the inviter of NewUser
    gone,           \* codes used or aged
    passed          \* codes stored while an earlier one was being used

codes == <<code, issued, mailed, bonuses, gone, passed>>

Purpose == {"register", "forgot"}
NoCode  == 0

ASSUME CooldownAssumption == Cooldown \in Nat \ {0}

-----------------------------------------------------------------------------
(* The pages. *)

WrongOnSendCode ==
    /\ path \in Purpose /\ form.cooldown = 0
    /\ Send("forms", "send", NewUser, 0)
    /\ form' = [form EXCEPT !.sending = (path = "register")]
    /\ UNCHANGED codes

\* Only the register page disables the button while a code is being sent.
OnSendCode ==
    /\ path \in Purpose /\ form.cooldown = 0 /\ ~form.sending
    /\ Send("forms", "send", NewUser, 0)
    /\ form' = [form EXCEPT !.sending = (path = "register")]
    /\ UNCHANGED codes

WrongSendReturned(c) ==
    /\ c.op = "send" /\ c.state \in {"ok", "error"}
    /\ pending' = pending \ {c}
    /\ form' = IF ~c.here \/ c.state = "error" THEN form
               ELSE [form EXCEPT !.sending = FALSE, !.cooldown = Cooldown,
                                 !.timers = @ + 1]
    /\ UNCHANGED <<session, auth, count, history, left, codes>>

\* Each code sent starts a countdown and an interval of its own.
SendReturned(c) ==
    /\ c.op = "send" /\ c.state \in {"ok", "error"}
    /\ pending' = pending \ {c}
    /\ form' = IF ~c.here THEN form
               ELSE IF c.state = "error" THEN [form EXCEPT !.sending = FALSE]
               ELSE [form EXCEPT !.sending = FALSE, !.cooldown = Cooldown,
                                 !.timers = @ + 1]
    /\ UNCHANGED <<session, auth, count, history, left, codes>>

\* One of the intervals counts down; at the end it clears itself.
CountDown ==
    /\ form.timers > 0
    /\ form' = IF form.cooldown <= 1
               THEN [form EXCEPT !.cooldown = 0, !.timers = @ - 1]
               ELSE [form EXCEPT !.cooldown = @ - 1]
    /\ UNCHANGED <<session, auth, pending, count, history, left, codes>>

\* The user types one of the codes in his mailbox.
OnSubmit ==
    /\ path \in Purpose /\ ~form.loading
    /\ \E k \in 1..issued[path] : <<path, k>> \in mailed /\ Send("forms", path, NewUser, k)
    /\ form' = [form EXCEPT !.loading = TRUE]
    /\ UNCHANGED codes

\* A password is reset: to the login page, where the user is not signed in.
ForgotReturned(c) ==
    /\ c.op = "forgot" /\ c.state = "ok"
    /\ pending' = Orphaned(pending \ {c})
    /\ \/ path # "login" /\ Mount("login", token, self, load)
       \/ path = "login" /\ UNCHANGED <<path, self, load, form, bounced>>
    /\ UNCHANGED <<session, token, count, failed, crossed, left, codes>>

-----------------------------------------------------------------------------
(* The server.  c is a request for a code, or one that uses a code. *)

\* Handlers that leave the browser alone.
AtServer == UNCHANGED <<expired, grant, auth, count, form, history>>

\* A new code takes the place of the one stored before.  Redis may have done so
\* although its answer is lost, and then nothing is mailed.
StoreCode(c) ==
    LET p == c.purpose IN
    /\ c.op = "send" /\ c.state = "sent"
    /\ issued' = [issued EXCEPT ![p] = @ + 1]
    /\ code' = [code EXCEPT ![p] = issued'[p]]
    /\ passed' = IF \E d \in pending : d.op = p /\ d.state = "checked"
                 THEN passed \cup {<<p, issued'[p]>>} ELSE passed
    /\ \/ /\ UNCHANGED left
          /\ pending' = (pending \ {c}) \cup {[c EXCEPT !.state = "stored", !.code = issued'[p]]}
       \/ Goes(c, "error") /\ Spend("faults")
    /\ UNCHANGED <<accounts, owner, mailed, bonuses, gone>> /\ AtServer

\* The mail is sent, or fails, which the answer does not tell; or the answer is
\* lost.
MailCode(c) ==
    /\ c.state = "stored"
    /\ \/ mailed' = mailed \cup {<<c.purpose, c.code>>} /\ Goes(c, "ok") /\ UNCHANGED left
       \/ UNCHANGED mailed /\ Goes(c, "ok") /\ Spend("faults")
       \/ mailed' = mailed \cup {<<c.purpose, c.code>>} /\ Goes(c, "error") /\ Spend("faults")
    /\ UNCHANGED <<accounts, owner, code, issued, bonuses, gone, passed>> /\ AtServer

WrongCheckCode(c) ==
    LET p == c.purpose IN
    /\ c.op \in Purpose /\ c.state = "sent"
    /\ \/ code[p] = c.code /\ Goes(c, "checked") /\ UNCHANGED code
       \/ code[p] # c.code /\ Goes(c, "error") /\ code' = [code EXCEPT ![p] = NoCode]
    /\ UNCHANGED <<accounts, owner, issued, mailed, bonuses, gone, passed, left>> /\ AtServer

CheckCode(c) ==
    /\ c.op \in Purpose /\ c.state = "sent"
    /\ \/ code[c.purpose] = c.code /\ Goes(c, "checked")
       \/ code[c.purpose] # c.code /\ Goes(c, "error")
    /\ UNCHANGED <<accounts, owner, codes, left>> /\ AtServer

\* Whatever code is stored now is deleted; an error of Redis is ignored.
DropCode(c) ==
    /\ c.state = "checked" /\ Goes(c, "dropped")
    /\ \/ code' = [code EXCEPT ![c.purpose] = NoCode] /\ UNCHANGED left
       \/ UNCHANGED code /\ Spend("faults")
    /\ gone' = gone \cup {<<c.purpose, c.code>>}
    /\ UNCHANGED <<accounts, owner, issued, mailed, bonuses, passed>> /\ AtServer

CheckAddress(c) ==
    /\ c.op = "register" /\ c.state = "dropped"
    /\ Goes(c, IF c.user \in accounts THEN "error" ELSE "unused")
    /\ UNCHANGED <<accounts, owner, codes, left>> /\ AtServer

WrongCreateUser(c) ==
    /\ c.state = "unused" /\ Goes(c, "created")
    /\ accounts' = accounts \cup {c.user}
    /\ UNCHANGED <<owner, codes, left>> /\ AtServer

\* The address is a unique key.
CreateUser(c) ==
    /\ c.state = "unused"
    /\ \/ c.user \notin accounts /\ accounts' = accounts \cup {c.user} /\ Goes(c, "created")
       \/ c.user \in accounts /\ UNCHANGED accounts /\ Goes(c, "error")
    /\ UNCHANGED <<owner, codes, left>> /\ AtServer

\* The bonuses are one transaction, whose failure is only logged.
ApplySignupBonuses(c) ==
    /\ c.state = "created"
    /\ \/ bonuses' = bonuses + 1 /\ Issue(c) /\ UNCHANGED left
       \/ UNCHANGED bonuses /\ Issue(c) /\ Spend("faults")
       \/ bonuses' = bonuses + 1 /\ Goes(c, "error") /\ UNCHANGED owner /\ Spend("faults")
    /\ UNCHANGED <<accounts, code, issued, mailed, gone, passed>> /\ AtServer

\* The new password is stored if there is such an account; the answer is the
\* same.
ResetPassword(c) ==
    /\ c.op = "forgot" /\ c.state = "dropped" /\ Goes(c, "ok")
    /\ UNCHANGED <<accounts, owner, codes, left>> /\ AtServer

\* Ten minutes later.
CodeAges ==
    /\ Spend("faults")
    /\ \E p \in Purpose :
        /\ code[p] # NoCode
        /\ code' = [code EXCEPT ![p] = NoCode] /\ gone' = gone \cup {<<p, code[p]>>}
    /\ UNCHANGED <<session, auth, pending, count, form, history,
                   issued, mailed, bonuses, passed>>

CodesNext ==
    \/ OnSendCode \/ CountDown \/ OnSubmit \/ CodeAges
    \/ \E c \in pending :
        \/ SendReturned(c) \/ ForgotReturned(c) \/ StoreCode(c) \/ MailCode(c)
        \/ CheckCode(c) \/ DropCode(c) \/ CheckAddress(c) \/ CreateUser(c)
        \/ ApplySignupBonuses(c) \/ ResetPassword(c)
=============================================================================
