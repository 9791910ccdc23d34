------------------------------ MODULE Console ------------------------------
(***************************************************************************)
(* What the resource pages of the web front-end have in common: a list     *)
(* that SWR caches, dialogs whose form is filled from a cached row, the    *)
(* requests they send, and the server's table behind them.  A page is      *)
(* rendered from the cached list, or from demo rows as long as no list has *)
(* ever arrived; an event handler closes over what was rendered and goes   *)
(* on when its request is answered, whatever has happened since.           *)
(*                                                                         *)
(* One page is looked at per behaviour (page never changes): pages share   *)
(* no state but the table, so their behaviours add up and do not multiply. *)
(***************************************************************************)
EXTENDS Naturals, FiniteSets

CONSTANTS
    Pages,          \* the pages to look at
    Id,             \* ids of rows, the first of them stored at the start
    MaxCalls,       \* bound: requests that a page sends
    Budgets         \* left of a behaviour: the page it is about, the requests
                    \* it sends, those that fail or whose answer is lost, the
                    \* changes by other users, tabs and the relay, and the times
                    \* the page is left or its filters change

VARIABLES
    page,
    \* the server
    rows,           \* the table of the page's resource
    lastId,         \* the last id the table gave
    done,           \* numbers of the requests that were carried out
    \* the browser
    cache,          \* SWR's entry: has a list arrived, the list, what it reflects
    fetch,          \* the request of SWR for the list
    aside,          \* entry and request of the key that is not shown
    filtered,       \* visits that show, or ended with, the other key than the first
    calls,          \* requests of event handlers whose answer is awaited
    count,          \* requests sent so far
    \* the mounted page
    mounted, visit,
    creating,       \* the create dialog is open
    editing,        \* the row whose dialog is open, as it was when opened
    submitting,     \* a dialog's request is awaited
    secret,         \* what was created and is shown once
    selected,       \* ids chosen for the bulk buttons
    busy,           \* per kind of button, the id of the row it is busy with
    \* what happened
    acked,          \* requests whose success was told, if the list shows their effect
    undone,         \* values the user did not touch that undid another's change
    left            \* what is left of the budget

server == <<rows, lastId, done>>
keys   == <<aside, filtered>>
swr    == <<cache, fetch, keys>>
local  == <<creating, editing, submitting, secret, selected, busy>>
mount  == <<mounted, visit>>
ghosts == <<acked, undone>>
vars   == <<page, server, swr, calls, count, mount, local, ghosts, left>>

Names  == {"stored", "demo", "typed", "others"}
Status == {"on", "off"}
Notes  == {"", "kept", "demo", "typed"}
Field  == {"name", "status", "quota", "notes"}
Row    == [id : Id, name : Names, status : Status, quota : 0..5, notes : Notes]

Flags == {"bulk", "check", "sync", "authorize", "refresh", "seed", "save", "pay", "redeem"}
NoRow == 0
Ops   == {"create", "edit", "toggle", "delete", "recover", "order", "simulate"} \cup Flags

ASSUME ConsoleAssumption ==
    /\ Cardinality(Id) \in Nat \ {0} /\ Id = 1..Cardinality(Id)
    /\ MaxCalls \in Nat
    /\ Budgets \subseteq
        [page : Pages, calls : 0..MaxCalls, faults : Nat, elsewhere : Nat, moves : Nat]

\* One of what a bound allows is used.
Spend(kind) == left[kind] > 0 /\ left' = [left EXCEPT ![kind] = @ - 1]

Flip(s) == IF s = "on" THEN "off" ELSE "on"

Stored == [id |-> 1, name |-> "stored", status |-> "on", quota |-> 2, notes |-> "kept"]

-----------------------------------------------------------------------------
(* The list.  SWR keeps one entry and one request per key, and a page has  *)
(* two keys to look at: the one it opens with, and that of another filter or *)
(* page of its list.  mutate() drops a request in flight and sends a new one *)
(* if a page shows the key; a page that comes to show a key joins its        *)
(* request in flight, and repeats none that has just been answered.          *)

Empty == [got |-> FALSE, rows |-> {}, done |-> {}]

Idle == [phase |-> "idle", rows |-> {}, done |-> {}, joined |-> FALSE]
Sent == [Idle EXCEPT !.phase = "sent"]

\* What mutate() leaves of the request for the list.
Mutated == IF mounted THEN Sent ELSE Idle

\* Two demo settings, no demo orders, one demo row of the other lists.
DemoRows ==
    {[id |-> i, name |-> "demo", status |-> "on", quota |-> 4, notes |-> "demo"] :
        i \in CASE page = "settings" -> Id \cap {1, 2} [] page = "topup" -> {} [] OTHER -> {1}}

\* The rows a page renders.
Shown == IF cache.got THEN cache.rows ELSE DemoRows

FetchServed ==
    /\ fetch.phase = "sent"
    /\ fetch' = [phase |-> "answered", rows |-> rows, done |-> done, joined |-> fetch.joined]
    /\ UNCHANGED <<page, server, cache, keys, calls, count, mount, local, ghosts, left>>

FetchDelivered ==
    /\ fetch.phase = "answered"
    /\ cache' = [got |-> TRUE, rows |-> fetch.rows, done |-> fetch.done]
    /\ fetch' = [Idle EXCEPT !.phase = "recent", !.joined = fetch.joined]
    /\ UNCHANGED <<page, server, keys, calls, count, mount, local, ghosts, left>>

\* The list cannot be loaded: what is shown stays.  SWR tries again later if
\* the visit that sent the request is still there; one that joined it does not.
FetchFailed ==
    /\ fetch.phase = "sent" /\ Spend("faults")
    /\ \E p \in {"failed", "idle"} :
        /\ mounted /\ ~fetch.joined => p = "failed"
        /\ ~mounted => p = "idle"
        /\ fetch' = [Idle EXCEPT !.phase = p, !.joined = fetch.joined]
    /\ UNCHANGED <<page, server, cache, keys, calls, count, mount, local, ghosts>>

FetchRetried ==
    /\ fetch.phase = "failed"
    /\ fetch' = Sent
    /\ UNCHANGED <<page, server, cache, keys, calls, count, mount, local, ghosts, left>>

\* The request for the key that is not shown ends without the page: it fills
\* its entry, or fails and is not repeated.
AsideServed ==
    /\ aside.fetch.phase = "sent"
    /\ \/ /\ aside' = [aside EXCEPT !.fetch.phase = "answered", !.fetch.rows = rows,
                                    !.fetch.done = done]
          /\ UNCHANGED left
       \/ aside' = [aside EXCEPT !.fetch = Idle] /\ Spend("faults")
    /\ UNCHANGED <<page, server, cache, fetch, filtered, calls, count, mount, local, ghosts>>

AsideDelivered ==
    /\ aside.fetch.phase = "answered"
    /\ aside' = [cache |-> [got |-> TRUE, rows |-> aside.fetch.rows, done |-> aside.fetch.done],
                 fetch |-> [Idle EXCEPT !.phase = "recent"]]
    /\ UNCHANGED <<page, server, cache, fetch, filtered, calls, count, mount, local, ghosts, left>>

-----------------------------------------------------------------------------
(* Requests of event handlers. *)

\* What a form with the given fields may hold when it is submitted: its inputs
\* start with the values of the row it was opened for, and the user types over
\* one of them or none.
Form(r, fields) ==
    {r} \cup
    {[r EXCEPT !.name = IF f = "name" THEN "typed" ELSE @,
               !.quota = IF f = "quota" THEN 5 ELSE @,
               !.status = IF f = "status" THEN Flip(@) ELSE @,
               !.notes = IF f = "notes" THEN "typed" ELSE @] : f \in fields}

Send(op, r, ids, body, sends) ==
    /\ Spend("calls")
    /\ count' = count + 1
    /\ calls' = calls \cup
        {[n |-> count + 1, op |-> op, ids |-> ids, seen |-> r, body |-> body,
          sends |-> sends, state |-> "sent", visit |-> visit]}
    /\ UNCHANGED <<page, server, swr, mount, ghosts>>

Modal == creating \/ editing # {} \/ secret # {}

\* A button of a row that is not disabled while its request is awaited.
Click(op, r, body, sends) ==
    /\ mounted /\ ~Modal
    /\ Send(op, r, {r.id}, body, sends)
    /\ UNCHANGED local

\* A button that shows which row it is busy with, and is disabled for that row.
ClickBusy(flag, r, body, sends) ==
    /\ mounted /\ ~Modal /\ busy[flag] # r.id
    /\ Send(flag, r, {r.id}, body, sends)
    /\ busy' = [busy EXCEPT ![flag] = r.id]
    /\ UNCHANGED <<creating, editing, submitting, secret, selected>>

WrongSubmit(op, r, body, sends) ==
    /\ mounted /\ secret = {}
    /\ Send(op, r, {r.id}, body, sends)
    /\ submitting' = TRUE
    /\ UNCHANGED <<creating, editing, secret, selected, busy>>

\* The submit button of a dialog, disabled while any dialog's request is awaited.
Submit(op, r, body, sends) ==
    /\ mounted /\ ~submitting /\ secret = {}
    /\ Send(op, r, {r.id}, body, sends)
    /\ submitting' = TRUE
    /\ UNCHANGED <<creating, editing, secret, selected, busy>>

Local(action) ==
    /\ mounted /\ action
    /\ UNCHANGED <<page, server, swr, calls, count, mount, ghosts, left,
                   submitting, selected, busy>>

OpenCreate  == Local(~Modal /\ creating' = TRUE /\ UNCHANGED <<editing, secret>>)
CloseCreate == Local(creating /\ creating' = FALSE /\ UNCHANGED <<editing, secret>>)
OpenEdit(r) == Local(~Modal /\ editing' = {r} /\ UNCHANGED <<creating, secret>>)
CloseEdit   == Local(editing # {} /\ editing' = {} /\ UNCHANGED <<creating, secret>>)
CloseSecret == Local(secret # {} /\ secret' = {} /\ UNCHANGED <<creating, editing>>)

\* The state setters of a handler act on the visit in which it was called.
Here(c) == mounted /\ c.visit = visit

\* What changes nothing that the list shows.
Silent == {"sync", "authorize", "redeem"}

WrongReleased(c) ==
    IF Here(c) /\ c.state = "ok" /\ c.op \in Flags THEN [busy EXCEPT ![c.op] = NoRow] ELSE busy

\* The "finally" of a handler: its button is not busy any more.
Released(c) == IF Here(c) /\ c.op \in Flags THEN [busy EXCEPT ![c.op] = NoRow] ELSE busy

\* mutate() is about the key that the handler's visit shows or ended with; it is
\* the key shown.
SameKey(c) == c.visit \in filtered <=> visit \in filtered

\* A handler goes on.  Success closes its dialog and revalidates the list if
\* its page does so after that operation; finally, its button is released.
Returned(c, closes, reveals, revalidates) ==
    LET ok == c.state = "ok" IN
    /\ c.state # "sent"
    /\ calls' = calls \ {c}
    /\ acked' = IF ok /\ c.op \notin Silent /\ SameKey(c) THEN acked \cup {c.n} ELSE acked
    /\ creating' = (creating /\ ~(Here(c) /\ ok /\ c.op = "create"))
    /\ editing' = IF Here(c) /\ ok /\ c.op = "edit" /\ closes THEN {} ELSE editing
    /\ secret' = IF Here(c) /\ ok /\ reveals THEN {c.n} ELSE secret
    /\ selected' = IF Here(c) /\ ok /\ c.op = "bulk" THEN {} ELSE selected
    /\ submitting' = (submitting /\ ~(Here(c) /\ c.op \in {"create", "edit"}))
    /\ busy' = Released(c)
    /\ fetch' = IF revalidates /\ SameKey(c) THEN Mutated ELSE fetch
    /\ aside' = IF revalidates /\ ~SameKey(c) THEN [aside EXCEPT !.fetch = Idle] ELSE aside
    /\ UNCHANGED <<page, server, cache, filtered, count, mount, undone, left>>

-----------------------------------------------------------------------------
(* Routing away from the page and back. *)

\* A page comes to show a key whose request is f.
Opening(f) ==
    \/ f.phase \in {"sent", "answered", "recent"} /\ fetch' = [f EXCEPT !.joined = TRUE]
    \/ f.phase \in {"idle", "recent"} /\ fetch' = Sent

\* Nobody waits any more to repeat a failed request of a key that is not shown.
Unwatched(f) == IF f.phase = "failed" THEN Idle ELSE f

\* The page comes to show the key that it did not show.
Swap ==
    /\ cache' = aside.cache /\ Opening(aside.fetch)
    /\ aside' = [cache |-> cache, fetch |-> Unwatched(fetch)]

NoBusy == [f \in Flags |-> NoRow]

Leave(opened) ==
    /\ mounted /\ Spend("moves")
    /\ mounted' = FALSE
    /\ creating' = FALSE /\ editing' = opened /\ submitting' = FALSE
    /\ secret' = {} /\ selected' = {} /\ busy' = NoBusy
    /\ fetch' = Unwatched(fetch)
    /\ UNCHANGED <<page, server, cache, keys, calls, count, visit, ghosts>>

\* A page opens without its filters.
Return(opened) ==
    /\ ~mounted
    /\ mounted' = TRUE /\ visit' = visit + 1
    /\ editing' = opened
    /\ IF visit \in filtered THEN Swap ELSE Opening(fetch) /\ UNCHANGED <<cache, aside>>
    /\ UNCHANGED <<page, server, filtered, calls, count, ghosts, left,
                   creating, submitting, secret, selected, busy>>

\* Another page of a list or another filter is another key.
Turn ==
    /\ mounted /\ ~Modal /\ Spend("moves")
    /\ Swap
    /\ filtered' = IF visit \in filtered THEN filtered \ {visit} ELSE filtered \cup {visit}
    /\ UNCHANGED <<page, server, calls, count, mount, local, ghosts>>

-----------------------------------------------------------------------------
(* The server. *)

\* The row after a request that sent the fields sends of body.
Applied(old, body, sends) == [f \in DOMAIN old |-> IF f \in sends THEN body[f] ELSE old[f]]

Reply(c, state) == calls' = (calls \ {c}) \cup {[c EXCEPT !.state = state]}

LoseAnswer(c) == Reply(c, "error") /\ Spend("faults")

\* A button that sets the status means it, whatever the row was before.
Chosen(c) == IF c.op \in {"toggle", "bulk", "recover"} THEN {"status"} ELSE {}

\* The rows gone are replaced by new ones, which have the fields sends of the
\* request's body.
Write(c, gone, new, sends) ==
    /\ c.state = "sent"
    /\ rows' = (rows \ gone) \cup new
    /\ done' = done \cup {c.n}
    /\ undone' = undone \cup
        {[op |-> c.op, field |-> f] : f \in
            {g \in sends \ Chosen(c) : \E r \in gone : \E r2 \in new :
                r.id = r2.id /\ c.body[g] = c.seen[g] /\ r[g] # c.seen[g]}}
    /\ UNCHANGED <<page, swr, count, mount, local, acked>>

\* The request is carried out and answered, or its answer is lost, which the
\* page takes for a failure.
Served(c, gone, new, state) ==
    /\ Write(c, gone, new, c.sends)
    /\ (Reply(c, state) /\ UNCHANGED left) \/ LoseAnswer(c)

\* The request is refused, or fails before it changed anything.
Refused(c) ==
    /\ c.state = "sent" /\ Reply(c, "error")
    /\ UNCHANGED <<page, server, swr, count, mount, local, ghosts>>

Failed(c) == Refused(c) /\ Spend("faults")

\* Somebody else changes the table.
Elsewhere(gone, new) ==
    /\ Spend("elsewhere")
    /\ rows' = (rows \ gone) \cup new
    /\ UNCHANGED <<page, done, swr, calls, count, mount, local, ghosts>>

\* What others make of a row: another name, another status, a charge; of an
\* order, that it is paid.
Altered(r) ==
    IF page = "topup" THEN {[r EXCEPT !.status = "off"]}
    ELSE {[r EXCEPT !.name = "others"], [r EXCEPT !.status = Flip(@)],
          [r EXCEPT !.quota = IF @ = 0 THEN 0 ELSE @ - 1]}

Another ==
    \/ \E r \in rows : \E s \in Altered(r) : Elsewhere({r}, {s}) /\ UNCHANGED lastId
    \/ page \notin {"settings", "topup"} /\ UNCHANGED lastId /\ \E r \in rows : Elsewhere({r}, {})
    \/ /\ page # "settings" /\ lastId + 1 \in Id /\ lastId' = lastId + 1
       /\ Elsewhere({}, {[Stored EXCEPT !.id = lastId', !.name = "others"]})
=============================================================================
