--------------------------- MODULE ConsolePages ---------------------------
(***************************************************************************)
(* The resource pages together: each with its handlers, over the list, the *)
(* requests and the table that Console describes.                          *)
(***************************************************************************)
EXTENDS TokensPage, UsersPage, ModelsPage, NoticePages, ChannelsPage, SystemSettingsPage,
        TopupPage

\* A page is mounted with no dialog open; the settings with their first tab.
Opened == IF page = "settings" THEN Section(1) ELSE {}

InitialRows == {[Stored EXCEPT !.id = i] : i \in IF page = "settings" THEN Id \cap {1, 2} ELSE {1}}

Init ==
    /\ left \in Budgets /\ page = left.page
    /\ rows = InitialRows /\ lastId = Cardinality(InitialRows) /\ done = {}
    /\ cache = Empty /\ fetch = Sent
    /\ aside = [cache |-> Empty, fetch |-> Idle] /\ filtered = {}
    /\ calls = {} /\ count = 0
    /\ mounted = TRUE /\ visit = 0
    /\ creating = FALSE /\ editing = Opened /\ submitting = FALSE
    /\ secret = {} /\ selected = {} /\ busy = NoBusy
    /\ acked = {} /\ undone = {}

Navigate == Leave({}) \/ Return(Opened)

\* Deliveries and answers: the steps that neither the user nor an error makes.
Revalidation == FetchServed \/ FetchDelivered \/ FetchRetried \/ AsideServed \/ AsideDelivered

Handlers ==
    \/ TokensNext \/ UsersNext \/ ModelsNext \/ GroupsNext \/ AnnouncementsNext
    \/ CodesNext \/ ChannelsNext \/ AccountsNext \/ SettingsNext
    \/ TopupNext

Next ==
    \/ Revalidation \/ FetchFailed \/ Handlers \/ Navigate \/ Another
    \/ \E c \in calls : Failed(c)

Spec == Init /\ [][Next]_vars

FairSpec ==
    /\ Spec
    /\ WF_vars(FetchServed) /\ WF_vars(FetchDelivered) /\ WF_vars(FetchRetried)

-----------------------------------------------------------------------------
Call == [n : 1..MaxCalls, op : Ops, ids : SUBSET Id, seen : Row, body : Row,
         sends : SUBSET Field, state : {"sent", "ok", "error"}, visit : Nat]

\* Types; one request per number, one row per id, and nothing is open or busy
\* on a page that is not mounted.
TypeOK ==
    /\ page \in Pages
    /\ rows \in SUBSET Row /\ lastId \in Id /\ done \subseteq 1..MaxCalls
    /\ \A r, s \in rows : r.id = s.id => r = s
    /\ \A e \in {cache, aside.cache} :
        e.got \in BOOLEAN /\ e.rows \subseteq Row /\ e.done \subseteq done
    /\ \A f \in {fetch, aside.fetch} :
        /\ f.phase \in {"idle", "sent", "answered", "failed", "recent"}
        /\ f.rows \subseteq Row /\ f.done \subseteq done /\ f.joined \in BOOLEAN
    /\ filtered \subseteq 0..visit
    /\ calls \subseteq Call /\ count \in 0..MaxCalls
    /\ \A c, d \in calls : c.n = d.n => c = d
    /\ mounted \in BOOLEAN /\ visit \in Nat
    /\ creating \in BOOLEAN /\ editing \subseteq Row /\ Cardinality(editing) <= 1
    /\ submitting \in BOOLEAN /\ secret \subseteq 1..MaxCalls /\ selected \subseteq Id
    /\ busy \in [Flags -> Id \cup {NoRow}]
    /\ ~mounted => ~creating /\ editing = {} /\ ~submitting /\ busy = NoBusy
    /\ acked \subseteq done
    /\ left \in [page : Pages, calls : 0..MaxCalls, faults : Nat, elsewhere : Nat, moves : Nat]

\* A dialog's request is awaited if and only if the submit buttons are disabled,
\* and only one is: a create or an edit is never sent twice, whichever dialogs
\* are closed and opened before the answer, and no failure leaves the buttons
\* disabled for good.
OneSubmission ==
    mounted =>
        Cardinality({c \in calls : c.visit = visit /\ c.op \in {"create", "edit"}})
            = IF submitting THEN 1 ELSE 0

\* A button that is busy with a row has a request about that kind of thing under
\* way: it does not spin for ever after an error.  (The reverse fails: a second
\* row's request takes the flag over, and its end clears it.)
BusyMeansAwaited ==
    \A f \in Flags : busy[f] # NoRow => \E c \in calls : FlagOf(c.op) = f /\ Here(c)

\* The rows that pages write back whole, or with fields the user did not touch,
\* undo what others changed since those rows were loaded.  It takes a dialog
\* that was open meanwhile, or a switch of the models or upstreams page: the
\* other buttons, a ban of a user and the state of a key among them, never undo
\* a charge, a credit or a renaming.
ClicksUndoNothing ==
    \A u \in undone :
        \/ u.op \in {"edit", "save"}
        \/ page = "models" /\ u.op = "toggle"
        \/ page = "channels" /\ u.op = "toggle" /\ u.field = "name"

\* The tags and the note of an upstream that nobody empties on purpose (no form
\* here does) are lost to nothing but the switch of the row, whose request does
\* not have them, so that the server writes them empty, and a form that was
\* opened while they were shown empty.
OnlySwitchErasesNotes ==
    [][\A r \in rows : \A s \in rows' :
        r.id = s.id /\ r.notes # s.notes /\ s.notes = "" =>
            \E c \in calls :
                /\ c.n \in done' \ done
                /\ \/ c.op = "toggle" /\ page = "channels"
                   \/ c.op = "edit" /\ c.seen.notes = ""]_vars

\* What was created and is shown once is replaced by nothing else before the
\* user closes it or leaves the page.
SecretIsRead ==
    [][secret # {} => secret' \in {secret, {}}]_vars

\* Once a handler has told the user of its success, the page comes to show a
\* list that has its effect, whatever older answers are still under way, if the
\* page stays open with the filters of the handler's visit.  With other filters
\* it does so too, unless it comes to show a list whose request was under way or
\* younger than two seconds: SWR sends none then, and a stale list stays.  The
\* start of an authorisation and a model sync change nothing that the list shows.
AckedShows(n) == (n \in acked) ~> (n \in cache.done \/ ~mounted \/ fetch.joined)

AckedIsShown == \A n \in 1..MaxCalls : AckedShows(n)
=============================================================================
