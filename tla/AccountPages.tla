---------------------------- MODULE AccountPages ----------------------------
(***************************************************************************)
(* Sessions and mailed codes together: one tab, its user and the server.   *)
(***************************************************************************)
EXTENDS MailedCodes

vars == <<session, auth, pending, count, form, history, codes, left>>

Init ==
    /\ accounts = User \ {NewUser} /\ owner = <<>> /\ expired = {} /\ grant = "none"
    /\ token = NoSession /\ path \in {"login"} \cup Purpose
    /\ self = Fresh /\ load = NoLoad
    /\ pending = {} /\ count = 0 /\ form = Blank
    /\ failed = 0 /\ bounced = 0 /\ crossed = FALSE
    /\ code = [p \in Purpose |-> NoCode] /\ issued = code
    /\ mailed = {} /\ bonuses = 0 /\ gone = {} /\ passed = {}
    /\ left \in Budgets

Next == (SessionNext /\ UNCHANGED codes) \/ CodesNext

Spec == Init /\ [][Next]_vars

\* Requests for the user and for codes are answered or fail, and intervals fire.
FairSpec ==
    /\ Spec
    /\ WF_vars(LoadServed /\ UNCHANGED codes) /\ WF_vars(LoadDelivered /\ UNCHANGED codes)
    /\ WF_vars(\E c \in pending : StoreCode(c)) /\ WF_vars(\E c \in pending : MailCode(c))
    /\ WF_vars(\E c \in pending : SendReturned(c))
    /\ WF_vars(CountDown)

-----------------------------------------------------------------------------
Handler ==
    [n : 1..MaxCalls, purpose : Routes, user : User, code : 0..MaxCalls, here : BOOLEAN,
     op : {"login", "github", "password", "profile", "send"} \cup Purpose,
     state : {"sent", "stored", "checked", "dropped", "unused", "created", "ok", "error"},
     session : Nat]

\* Types; a page has only one handler of each kind at work for it, but for the
\* codes that the page of forgotten passwords asks for; and the countdown of the
\* register page is counted by one interval.
TypeOK ==
    /\ accounts \subseteq User /\ owner \in Seq(User) /\ expired \subseteq 1..Len(owner)
    /\ grant \in {"none", "fresh", "used", "denied"}
    /\ token \in 0..Len(owner) /\ path \in Routes
    /\ self \in [user : User \cup {Nobody}, loading : BOOLEAN]
    /\ load \in [phase : {"idle", "sent", "answered", "recent"}, n : 0..Len(owner),
                 user : User \cup {Nobody}]
    /\ pending \subseteq Handler /\ count \in 0..MaxCalls
    /\ form \in [loading : BOOLEAN, sending : BOOLEAN, cooldown : 0..Cooldown,
                 timers : 0..MaxCalls, exchanged : BOOLEAN, error : BOOLEAN]
    /\ \A c, d \in pending :
        c.here /\ d.here /\ c.op = d.op /\ c # d => c.op = "send" /\ path = "forgot"
    /\ path = "register" => form.timers <= 1
    /\ failed \in Nat /\ bounced \in Nat /\ crossed \in BOOLEAN
    /\ code \in [Purpose -> 0..MaxCalls] /\ issued \in [Purpose -> 0..MaxCalls]
    /\ bonuses \in Nat /\ mailed \cup gone \cup passed \subseteq Purpose \X (1..MaxCalls)

\* Who has a live session is sent back to the login page at most twice for each
\* time that his user could not be loaded: the failure that the hook remembers
\* is seen by one more render of RequireAuth, and not by the next.
NoLoginLoop == bounced <= 2 * failed

\* The dashboard, or the administration, of another user than the one signed in
\* is shown only while the right one is loading; or once a load has failed since
\* the tab was opened, since SWR keeps what was cached; or once the session was
\* replaced by another tab, or while a load for the one before was under way.
\* Both excuses are for good: what follows a failed load, or such a crossing, is
\* not claimed.
ShownIsSignedIn ==
    Shown /\ token # NoSession /\ self.user # owner[token] =>
        \/ load.phase \in {"sent", "answered"} /\ load.n = token
        \/ failed > 0 \/ crossed

\* The callback page shows an error only when GitHub gave no code, or when its
\* one exchange has failed: the effect that runs again sends no second one, whose
\* refusal would show up while the first is still signing the user in.
CallbackErrorIsFinal ==
    path = "callback" /\ form.error => ~\E c \in pending : c.op = "github" /\ c.here

\* The code stored last stays under its key until it has been used or is too old,
\* or was stored between the check and the deletion of an earlier one: a failed
\* attempt with another code does not spoil it.  It is the newest of the mailbox
\* only if its mail did not fail, and no mail of an earlier code came later: the
\* code of the newest mail may be refused, unused and fresh.
LatestCodeWorks ==
    \A p \in Purpose :
        issued[p] # 0 => code[p] = issued[p] \/ <<p, issued[p]>> \in gone \cup passed

\* The bonuses for a registration are granted once, to an account that exists,
\* however often the form is sent and however many of these requests find the
\* address free.
BonusOnce == bonuses <= 1 /\ (bonuses = 1 => NewUser \in accounts)

\* The dashboard does not keep loading: the user is shown, or sent to the login
\* page.
SpinnerEnds ==
    (path \in Guarded /\ self.user = Nobody) ~> (path \notin Guarded \/ self.user # Nobody)

\* The button that sends a code comes back, after an error as after a countdown,
\* or several of them.
Resendable == path \notin Purpose \/ (~form.sending /\ form.cooldown = 0)

CodeCanBeResent == ~Resendable ~> Resendable
=============================================================================
