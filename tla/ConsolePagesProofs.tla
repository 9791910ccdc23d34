-------------------------- MODULE ConsolePagesProofs --------------------------
(***************************************************************************)
(* Theorems about the resource pages, for any table, any number of         *)
(* requests and any order of their answers, of reloads of the list, of     *)
(* routing away and back, and of changes by others.                        *)
(*                                                                         *)
(* The pages have some seventy handlers.  Each of their steps is of one of *)
(* ten kinds, for which the invariants are proved.                         *)
(***************************************************************************)
EXTENDS ConsolePages, FiniteSetTheorems, TLAPS

Unique(S) == \A r, s \in S : r.id = s.id => r = s

AtMostOne(S) == S = {} \/ \E x : S = {x}

-------------------------------------------------------------------------------
(* The invariant                                                            *)

Left == [page : Pages, calls : 0..MaxCalls, faults : Nat, elsewhere : Nat, moves : Nat]

\* Requests that were sent and that may be sent are within the bound.
Bounds == page \in Pages /\ left \in Left /\ count \in Nat /\ count + left.calls <= MaxCalls

Table ==
    /\ rows \subseteq Row /\ Unique(rows) /\ lastId \in Id /\ done \subseteq 1..MaxCalls
    /\ \A r \in rows : r.id <= lastId

\* Entries of SWR and requests for them that know of the numbers D at most.
RowSets    == {R \in SUBSET Row : Unique(R)}
Entries(D) == [got : BOOLEAN, rows : RowSets, done : SUBSET D]
Fetches(D) == [phase : {"idle", "sent", "answered", "failed", "recent"}, rows : RowSets,
               done : SUBSET D, joined : BOOLEAN]

Lists ==
    /\ cache \in Entries(done) /\ fetch \in Fetches(done)
    /\ aside \in [cache : Entries(done), fetch : Fetches(done)]
    /\ filtered \subseteq 0..visit

Known == acked \subseteq done

\* What a request sends, by the button it comes from: the fields, the row that
\* was seen and the row that is sent.
Intent(op, seen, body, sends) ==
    /\ op = "toggle" =>
        \/ page \in {"tokens", "users"} /\ sends = {"status"}
        \/ page = "models" /\ sends = ModelFields
        \/ page = "channels" /\ sends = {"name", "status"}
    /\ op = "edit" =>
        /\ "notes" \in sends => body.notes \in {seen.notes, "typed"}
        /\ page = "channels" => "notes" \in sends
    /\ op \in {"bulk", "recover"} => sends = {"status"}
    /\ op = "seed" =>
        /\ seen = Stored /\ body = [NewModel EXCEPT !.quota = BuiltInPrice]
        /\ sends \subseteq {"quota", "name"}
    /\ op = "save" => sends = SectionKeys
    /\ op \in {"check", "sync", "refresh", "authorize", "redeem"} => sends = {}

Requests ==
    /\ calls \subseteq Call
    /\ \A c \in calls :
        /\ c.n <= count /\ c.visit <= visit
        /\ (c.state = "ok" => c.n \in done) /\ (c.state = "sent" => c.n \notin done)
    /\ \A n \in done : n <= count
    /\ \A c, d \in calls : c.n = d.n => c = d
    /\ \A c \in calls : Intent(c.op, c.seen, c.body, c.sends)

Dialog ==
    /\ creating \in BOOLEAN /\ editing \subseteq Row /\ AtMostOne(editing)
    /\ selected \subseteq Id /\ secret \subseteq 1..MaxCalls

Buttons ==
    /\ mounted \in BOOLEAN /\ visit \in Nat
    /\ submitting \in BOOLEAN /\ busy \in [Flags -> Id \cup {NoRow}]
    /\ page # "topup" => busy["pay"] = NoRow

\* A page that is not mounted has nothing open; the page of payments has no
\* dialogs.
Closed ==
    /\ ~mounted => ~creating /\ editing = {} /\ ~submitting /\ secret = {} /\ busy = NoBusy
    /\ page = "topup" => ~creating /\ ~submitting /\ secret = {}

Awaited == {c \in calls : c.visit = visit /\ c.op \in {"create", "edit"}}

\* Nothing can be submitted while a secret is shown.
Submitting ==
    /\ mounted /\ submitting => \E c \in calls : Awaited = {c}
    /\ mounted /\ ~submitting => Awaited = {}
    /\ secret # {} => ~submitting

Typed == Bounds /\ Table /\ Lists /\ Known /\ Requests /\ Dialog /\ Buttons /\ Closed

-------------------------------------------------------------------------------
(* The kinds of steps                                                       *)

Costless == left' = left \/ \E k \in {"faults", "elsewhere", "moves"} : Spend(k)

\* A list is asked for or arrives.
ListStep ==
    /\ Costless /\ Lists'
    /\ UNCHANGED <<page, server, calls, count, mount, local, ghosts>>

\* Dialogs are opened and closed, rows are ticked.
DialogStep ==
    /\ mounted
    /\ creating' \in BOOLEAN /\ (creating' => page # "topup")
    /\ editing' \subseteq Row /\ AtMostOne(editing')
    /\ selected' \subseteq Id
    /\ secret' \in {secret, {}}
    /\ UNCHANGED <<page, server, swr, calls, count, mount, ghosts, left, submitting, busy>>

\* A button is pressed.
Asking(op, r, ids, body, sends) ==
    /\ mounted
    /\ Send(op, r, ids, body, sends)
    /\ Intent(op, r, body, sends)
    /\ \/ op \in {"toggle", "delete", "recover"} /\ UNCHANGED local
       \/ /\ op \in {"create", "edit"} /\ page # "topup" /\ ~submitting /\ secret = {}
          /\ submitting' = TRUE
          /\ UNCHANGED <<creating, editing, secret, selected, busy>>
       \/ /\ op \notin {"create", "edit"} /\ FlagOf(op) \in Flags
          /\ FlagOf(op) = "pay" => page = "topup"
          /\ \E i \in Id : busy' = [busy EXCEPT ![FlagOf(op)] = i]
          /\ UNCHANGED <<creating, editing, submitting, secret, selected>>

AskStep ==
    \E op \in Ops, r \in Row, ids \in SUBSET Id, body \in Row, sends \in SUBSET Field :
        Asking(op, r, ids, body, sends)

\* A handler goes on.
Answering(c, closes, reveals, revalidates) ==
    /\ Returned(c, closes, reveals, revalidates)
    /\ reveals => c.op = "create"
    /\ page = "topup" => c.op = "redeem"

AnswerStep ==
    \E c \in calls : \E closes, reveals, revalidates \in BOOLEAN :
        Answering(c, closes, reveals, revalidates)

OrderStep == page = "topup" /\ \E c \in calls : OrderAnswered(c)

RedirectStep == page = "topup" /\ \E c \in calls : Redirected(c)

\* The same request, answered.
AnsweredAs(c, d) ==
    /\ d \in Call /\ d.n = c.n /\ d.op = c.op /\ d.visit = c.visit /\ d.state \in {"ok", "error"}
    /\ d.seen = c.seen /\ d.sends = c.sends
    /\ d.body = c.body \/ c.op \in {"order", "simulate"}

Forgiven(op, f) ==
    \/ op \in {"edit", "save"}
    \/ page = "models" /\ op = "toggle"
    \/ page = "channels" /\ op = "toggle" /\ f = "name"

\* Rows are replaced by rows with the same ids, or one is added; the values that
\* the user did not touch, and notes that become empty, are as the theorems say.
Replaces(c, gone, new, sends) ==
    /\ gone \subseteq rows /\ new \subseteq Row /\ Unique(new)
    /\ lastId' \in Id /\ lastId' \in {lastId, lastId + 1}
    /\ \A s \in new : \/ \E r \in gone : r.id = s.id
                      \/ s.id = lastId + 1 /\ lastId' = lastId + 1
    /\ \A r \in gone, s \in new : r.id = s.id =>
        /\ \A f \in sends \ Chosen(c) :
            c.body[f] = c.seen[f] /\ r[f] # c.seen[f] => Forgiven(c.op, f)
        /\ r.notes # s.notes /\ s.notes = "" =>
            (c.op = "toggle" /\ page = "channels") \/ (c.op = "edit" /\ c.seen.notes = "")

\* The server carries a request out.
Serving(c, gone, new, sends, d) ==
    /\ Write(c, gone, new, sends)
    /\ AnsweredAs(c, d) /\ calls' = (calls \ {c}) \cup {d}
    /\ left' = left \/ Spend("faults")
    /\ Replaces(c, gone, new, sends)

ServeStep ==
    \E c \in calls : \E gone \in SUBSET rows, new \in SUBSET Row, sends \in SUBSET Field :
        \E d \in Call : Serving(c, gone, new, sends, d)

RefuseStep == \E c \in calls : Refused(c) /\ Costless

LeaveStep == Leave({})

ReturnStep == Return(Opened)

Step ==
    \/ ListStep \/ DialogStep \/ AskStep \/ AnswerStep \/ OrderStep \/ RedirectStep
    \/ ServeStep \/ RefuseStep \/ LeaveStep \/ ReturnStep \/ Another

-------------------------------------------------------------------------------
(* Each kind of step keeps the types                                        *)

LEMMA IdType ==
  /\ Id \subseteq Nat \ {0} /\ 1 \in Id /\ NoRow \notin Id
  /\ \A i \in Id : \A j \in 1 .. i : j \in Id
BY ConsoleAssumption DEF NoRow

LEMMA SpendType ==
  ASSUME left \in Left, NEW k \in {"faults", "elsewhere", "moves"}, Spend(k)
  PROVE  left' \in Left /\ left'.calls = left.calls
<1>1. left[k] \in Nat /\ left[k] - 1 \in Nat
  BY DEF Left, Spend
<1>2. left' = [left EXCEPT ![k] = left[k] - 1]
  BY DEF Spend
<1> QED
  BY <1>1, <1>2 DEF Left

LEMMA SpendCall ==
  ASSUME left \in Left, Spend("calls")
  PROVE  left' \in Left /\ left.calls = left'.calls + 1
<1>1. left.calls > 0 /\ left' = [left EXCEPT !.calls = @ - 1]
  BY DEF Spend
<1>2. left.calls \in 0..MaxCalls /\ left.calls - 1 \in 0..MaxCalls
  BY <1>1, ConsoleAssumption DEF Left
<1>3. left'.calls = left.calls - 1
  BY <1>1 DEF Left
<1>4. left' \in Left
  BY <1>1, <1>2 DEF Left
<1> QED
  BY <1>2, <1>3, <1>4, ConsoleAssumption

LEMMA CostlessType ==
  ASSUME left \in Left, Costless
  PROVE  left' \in Left /\ left'.calls = left.calls
BY SpendType DEF Costless

\* What the server's steps leave alone.
LEMMA ServeKeeps ==
  ASSUME ServeStep
  PROVE  /\ UNCHANGED <<page, swr, count, mount, local, acked>>
         /\ left' = left \/ Spend("faults")
<1>1. PICK c \in calls, gone \in SUBSET rows, new \in SUBSET Row, sends \in SUBSET Field,
           d \in Call : Serving(c, gone, new, sends, d)
  BY DEF ServeStep
<1> QED
  BY <1>1 DEF Serving, Replaces, Write

LEMMA StepBounds ==
  ASSUME Bounds, Step
  PROVE  Bounds' /\ page' = page
<1>1. ASSUME page' = page, count' = count, Costless
      PROVE  Bounds' /\ page' = page
  BY <1>1, CostlessType DEF Bounds
<1>2. ASSUME page' = page, count' = count + 1, Spend("calls")
      PROVE  Bounds' /\ page' = page
  <2>1. left' \in Left /\ left.calls = left'.calls + 1
    BY <1>2, SpendCall DEF Bounds
  <2>2. left'.calls \in 0..MaxCalls /\ left.calls \in 0..MaxCalls
    BY <2>1 DEF Left, Bounds
  <2>3. count' \in Nat /\ count' + left'.calls <= MaxCalls
    BY <1>2, <2>1, <2>2, ConsoleAssumption DEF Bounds
  <2> QED
    BY <1>2, <2>1, <2>3 DEF Bounds
<1>3. CASE ListStep
  BY <1>1, <1>3 DEF ListStep
<1>4. CASE DialogStep
  BY <1>1, <1>4 DEF DialogStep, Costless
<1>5. CASE AskStep
  BY <1>2, <1>5 DEF AskStep, Asking, Send
<1>6. CASE AnswerStep
  BY <1>1, <1>6 DEF AnswerStep, Answering, Returned, Costless
<1>7. CASE OrderStep
  BY <1>1, <1>7 DEF OrderStep, OrderAnswered, Costless
<1>8. CASE RedirectStep
  BY <1>1, <1>8 DEF RedirectStep, Redirected, Costless
<1>9. CASE ServeStep
  BY <1>1, <1>9, ServeKeeps DEF Costless
<1>10. CASE RefuseStep
  BY <1>1, <1>10 DEF RefuseStep, Refused
<1>11. CASE LeaveStep \/ ReturnStep
  BY <1>1, <1>11 DEF LeaveStep, ReturnStep, Leave, Return, Costless
<1>12. CASE Another
  BY <1>1, <1>12 DEF Another, Elsewhere, Costless
<1> QED
  BY <1>3, <1>4, <1>5, <1>6, <1>7, <1>8, <1>9, <1>10, <1>11, <1>12 DEF Step

\* What the rows gone leave, with the new rows, has one row per id.
LEMMA ReplaceUnique ==
  ASSUME NEW R, NEW gone \in SUBSET R, NEW new, Unique(R), Unique(new),
         NEW m \in Nat, \A r \in R : r.id \in Nat /\ r.id <= m,
         \A s \in new : (\E r \in gone : r.id = s.id) \/ s.id = m + 1
  PROVE  Unique((R \ gone) \cup new)
<1> SUFFICES ASSUME NEW r \in R \ gone, NEW s \in new, r.id = s.id
             PROVE  FALSE
  BY Zenon DEF Unique
<1>1. r.id \in Nat /\ r.id <= m
  OBVIOUS
<1>2. s.id # m + 1
  BY <1>1
<1>3. PICK q \in gone : q.id = s.id
  BY <1>2
<1> QED
  BY <1>3 DEF Unique

LEMMA AlteredType ==
  ASSUME NEW r \in Row, NEW s \in Altered(r)
  PROVE  s \in Row /\ s.id = r.id /\ s.notes = r.notes
<1>1. \/ s = [r EXCEPT !.status = "off"] \/ s = [r EXCEPT !.name = "others"]
      \/ s = [r EXCEPT !.status = Flip(@)]
      \/ s = [r EXCEPT !.quota = IF @ = 0 THEN 0 ELSE @ - 1]
  BY DEF Altered
<1>2. Flip(r.status) \in Status /\ (IF r.quota = 0 THEN 0 ELSE r.quota - 1) \in 0..5
  BY DEF Flip, Status, Row
<1>3. s \in Row
  BY <1>1, <1>2 DEF Row, Status, Names
<1>4. s.id = r.id /\ s.notes = r.notes
  BY <1>1 DEF Row
<1> QED
  BY <1>3, <1>4

LEMMA StoredType == Stored \in Row
BY IdType DEF Stored, Row, Names, Status, Notes

LEMMA StepTable ==
  ASSUME Typed, Step
  PROVE  Table' /\ done \subseteq done'
<1> USE DEF Typed
<1>1. CASE UNCHANGED server
  BY <1>1 DEF Table, server, Unique
<1>2. CASE ServeStep
  <2>1. PICK c \in calls, gone \in SUBSET rows, new \in SUBSET Row, sends \in SUBSET Field,
             d \in Call : Serving(c, gone, new, sends, d)
    BY <1>2 DEF ServeStep
  <2>2. rows' = (rows \ gone) \cup new /\ done' = done \cup {c.n}
    BY <2>1 DEF Serving, Replaces, Write
  <2>3. lastId' \in Id /\ lastId' \in {lastId, lastId + 1} /\ lastId \in Nat
    BY <2>1, IdType DEF Serving, Replaces, Table
  <2>4. c.n \in 1..MaxCalls
    BY DEF Requests, Call
  <2>5. \A r \in rows : r.id \in Nat /\ r.id <= lastId
    BY IdType DEF Table, Row
  <2>6. \A s \in new :
          (\E r \in gone : r.id = s.id) \/ (s.id = lastId + 1 /\ lastId' = lastId + 1)
    BY <2>1 DEF Serving, Replaces
  <2>7. Unique(rows')
    BY <2>1, <2>2, <2>3, <2>5, <2>6, ReplaceUnique DEF Serving, Replaces, Table
  <2>8. \A r \in rows' : r.id <= lastId'
    <3> SUFFICES ASSUME NEW s \in rows' PROVE s.id <= lastId'
      OBVIOUS
    <3>1. CASE s \in rows
      BY <2>3, <2>5, <3>1
    <3>2. CASE s \in new
      BY <2>3, <2>5, <2>6, <3>2
    <3> QED
      BY <2>2, <3>1, <3>2
  <2> QED
    BY <2>2, <2>3, <2>4, <2>7, <2>8 DEF Table
<1>3. CASE Another
  <2>0. lastId \in Nat /\ (\A r \in rows : r \in Row /\ r.id \in Nat /\ r.id <= lastId)
        /\ Unique(rows) /\ rows \subseteq Row
    BY IdType DEF Table, Row
  <2>1. CASE \E r \in rows : \E s \in Altered(r) : Elsewhere({r}, {s}) /\ UNCHANGED lastId
    <3>0. PICK r \in rows : \E s \in Altered(r) : Elsewhere({r}, {s}) /\ UNCHANGED lastId
      BY <2>1
    <3>1. PICK s \in Altered(r) : Elsewhere({r}, {s}) /\ UNCHANGED lastId
      BY <3>0
    <3>2. s \in Row /\ s.id = r.id
      BY <2>0, AlteredType
    <3>3. rows' = (rows \ {r}) \cup {s} /\ done' = done
      BY <3>1 DEF Elsewhere
    <3>4. Unique(rows')
      BY <2>0, <3>2, <3>3 DEF Unique
    <3> QED
      BY <2>0, <3>1, <3>2, <3>3, <3>4 DEF Table
  <2>2. CASE \E r \in rows : Elsewhere({r}, {}) /\ UNCHANGED lastId
    <3>1. rows' \subseteq rows /\ done' = done /\ lastId' = lastId
      BY <2>2 DEF Elsewhere
    <3> QED
      BY <3>1 DEF Table, Unique
  <2>3. CASE /\ lastId + 1 \in Id /\ lastId' = lastId + 1
             /\ Elsewhere({}, {[Stored EXCEPT !.id = lastId', !.name = "others"]})
    <3> DEFINE s == [Stored EXCEPT !.id = lastId', !.name = "others"]
    <3>1. s \in Row /\ s.id = lastId + 1
      BY <2>3, StoredType DEF Row, Names
    <3> HIDE DEF s
    <3>2. rows' = rows \cup {s} /\ done' = done
      BY <2>3 DEF Elsewhere, s
    <3>3. \A r \in rows : r.id # s.id
      BY <2>0, <3>1
    <3>4. Unique(rows')
      BY <2>0, <3>2, <3>3 DEF Unique
    <3>5. \A r \in rows' : r.id <= lastId'
      BY <2>0, <2>3, <3>1, <3>2
    <3>6. rows' \subseteq Row /\ lastId' \in Id /\ done' = done
      BY <2>0, <2>3, <3>1, <3>2
    <3> QED
      BY <3>4, <3>5, <3>6 DEF Table
  <2> QED
    BY <1>3, <2>1, <2>2, <2>3 DEF Another
<1>4. UNCHANGED server \/ ServeStep \/ Another
  BY DEF Step, ListStep, DialogStep, AskStep, Asking, Send, AnswerStep, Answering, Returned,
     OrderStep, OrderAnswered, RedirectStep, Redirected, RefuseStep, Refused, LeaveStep, Leave,
     ReturnStep, Return
<1> QED
  BY <1>1, <1>2, <1>3, <1>4

LEMMA DemoType == DemoRows \subseteq Row /\ Unique(DemoRows)
<1> DEFINE demo(i) ==
             [id |-> i, name |-> "demo", status |-> "on", quota |-> 4, notes |-> "demo"]
           I == CASE page = "settings" -> Id \cap {1, 2} [] page = "topup" -> {} [] OTHER -> {1}
<1>1. I \subseteq Id
  BY IdType
<1>2. \A i \in Id : demo(i) \in Row /\ demo(i).id = i
  BY DEF Row, Names, Status, Notes
<1>3. DemoRows = {demo(i) : i \in I}
  BY DEF DemoRows
<1> HIDE DEF demo, I
<1> QED
  BY <1>1, <1>2, <1>3 DEF Unique

LEMMA ShownType ==
  ASSUME Lists
  PROVE  Shown \subseteq Row /\ Unique(Shown)
BY DemoType DEF Lists, Entries, RowSets, Shown

\* A list that is not asked for has no rows.
LEMMA IdleType ==
  ASSUME NEW D
  PROVE  /\ Idle \in Fetches(D) /\ Sent \in Fetches(D) /\ Empty \in Entries(D)
         /\ \A p \in {"idle", "sent", "answered", "failed", "recent"}, j \in BOOLEAN :
              [Idle EXCEPT !.phase = p, !.joined = j] \in Fetches(D)
         /\ [Idle EXCEPT !.phase = "recent"] \in Fetches(D)
BY DEF Idle, Sent, Empty, Fetches, Entries, RowSets, Unique

LEMMA MoreKnown ==
  ASSUME NEW D, NEW E, D \subseteq E
  PROVE  Entries(D) \subseteq Entries(E) /\ Fetches(D) \subseteq Fetches(E)
<1>1. \A e \in Entries(D) : e \in Entries(E)
  BY DEF Entries
<1>2. ASSUME NEW f \in Fetches(D)
      PROVE  f \in Fetches(E)
  <2>1. f = [phase |-> f.phase, rows |-> f.rows, done |-> f.done, joined |-> f.joined]
    BY DEF Fetches
  <2>2. /\ f.phase \in {"idle", "sent", "answered", "failed", "recent"}
        /\ f.rows \in RowSets /\ f.done \in SUBSET E /\ f.joined \in BOOLEAN
    BY DEF Fetches
  <2> QED
    BY <2>1, <2>2 DEF Fetches
<1> QED
  BY <1>1, <1>2

LEMMA OpeningType ==
  ASSUME NEW D, NEW f \in Fetches(D), Opening(f)
  PROVE  fetch' \in Fetches(D)
<1>1. [f EXCEPT !.joined = TRUE] \in Fetches(D)
  BY DEF Fetches
<1> QED
  BY <1>1, IdleType DEF Opening

LEMMA UnwatchedType ==
  ASSUME NEW D, NEW f \in Fetches(D)
  PROVE  Unwatched(f) \in Fetches(D)
BY IdleType DEF Unwatched

LEMMA SwapType ==
  ASSUME Lists, Swap
  PROVE  /\ cache' \in Entries(done) /\ fetch' \in Fetches(done)
         /\ aside' \in [cache : Entries(done), fetch : Fetches(done)]
<1>1. aside.cache \in Entries(done) /\ aside.fetch \in Fetches(done)
  BY DEF Lists
<1>2. cache' \in Entries(done) /\ fetch' \in Fetches(done)
  BY <1>1, OpeningType DEF Swap
<1>3. Unwatched(fetch) \in Fetches(done)
  BY UnwatchedType DEF Lists
<1> QED
  BY <1>2, <1>3 DEF Swap, Lists

\* Lists that are of these types before done grows.
LEMMA ListsGrow ==
  ASSUME cache' \in Entries(done), fetch' \in Fetches(done),
         aside' \in [cache : Entries(done), fetch : Fetches(done)],
         filtered' \subseteq 0..visit', done \subseteq done'
  PROVE  Lists'
<1>1. Entries(done) \subseteq Entries(done') /\ Fetches(done) \subseteq Fetches(done')
  BY MoreKnown
<1>2. Entries(done)' = Entries(done') /\ Fetches(done)' = Fetches(done')
  BY DEF Entries, Fetches
<1> QED
  BY <1>1, <1>2 DEF Lists

LEMMA StepLists ==
  ASSUME Typed, Step
  PROVE  Lists' /\ Known'
<1> USE DEF Typed
<1>0. done \subseteq done' /\ visit \in Nat
  BY StepTable DEF Buttons
<1>1. CASE UNCHANGED <<cache, fetch, aside, filtered, acked, visit>>
  BY <1>0, <1>1, ListsGrow DEF Lists, Known
<1>2. CASE ListStep
  BY <1>0, <1>2 DEF ListStep, Known, ghosts, server
<1>3. CASE AnswerStep
  <2>1. PICK c \in calls, closes \in BOOLEAN, reveals \in BOOLEAN, revalidates \in BOOLEAN :
             Returned(c, closes, reveals, revalidates)
    BY <1>3 DEF AnswerStep, Answering
  <2>2. /\ UNCHANGED <<cache, filtered, visit>> /\ fetch' \in {fetch, Idle, Sent}
        /\ aside' \in {aside, [aside EXCEPT !.fetch = Idle]}
    BY <2>1 DEF Returned, Mutated, mount
  <2>3. acked' = acked \/ (c.state = "ok" /\ acked' = acked \cup {c.n})
    BY <2>1 DEF Returned
  <2>4. acked' \subseteq done
    BY <2>3 DEF Requests, Known
  <2>5. Lists'
    BY <1>0, <2>2, IdleType, ListsGrow DEF Lists
  <2> QED
    BY <1>0, <2>4, <2>5 DEF Known
<1>4. CASE OrderStep
  <2>1. PICK c \in calls : OrderAnswered(c)
    BY <1>4 DEF OrderStep
  <2>2. CASE c.state = "ok" /\ RefreshOrders(c) /\ acked' = acked \cup {c.n}
    <3>1. c.n \in done /\ c.body \in Row
      BY <2>2 DEF Requests, Call
    <3>2. cache' = [got |-> TRUE, done |-> cache.done \cup {c.n},
                    rows |-> {c.body} \cup
                       (IF cache.got THEN {r \in cache.rows : r.id # c.body.id} ELSE {})]
      BY <2>2 DEF RefreshOrders
    <3>3. cache.rows \subseteq Row /\ Unique(cache.rows) /\ cache.done \subseteq done
      BY DEF Lists, Entries, RowSets
    <3>4. /\ {c.body} \cup (IF cache.got THEN {r \in cache.rows : r.id # c.body.id} ELSE {})
                \in RowSets
          /\ cache.done \cup {c.n} \subseteq done
      BY <3>1, <3>3 DEF RowSets, Unique
    <3>5. cache' \in Entries(done)
      BY <3>2, <3>4 DEF Entries
    <3>6. fetch' \in Fetches(done) /\ UNCHANGED <<aside, filtered, visit>>
      BY <2>1, <2>2, IdleType DEF RefreshOrders, OrderAnswered, Lists, keys, mount
    <3>7. Lists'
      BY <1>0, <3>5, <3>6, ListsGrow DEF Lists
    <3> QED
      BY <1>0, <2>2, <3>1, <3>7 DEF Known
  <2>3. CASE UNCHANGED <<swr, acked>>
    BY <1>1, <2>1, <2>3 DEF OrderAnswered, swr, keys, mount
  <2> QED
    BY <2>1, <2>2, <2>3 DEF OrderAnswered
<1>5. CASE RedirectStep
  <2>1. PICK c \in calls : Redirected(c)
    BY <1>5 DEF RedirectStep
  <2>2. /\ cache' = Empty /\ fetch' = Idle /\ UNCHANGED <<aside, filtered, visit>>
        /\ c.n \in done /\ acked' = acked \cup {c.n}
    BY <2>1 DEF Redirected, Requests, keys
  <2>3. Lists'
    BY <1>0, <2>2, IdleType, ListsGrow DEF Lists
  <2> QED
    BY <1>0, <2>2, <2>3 DEF Known
<1>6. CASE LeaveStep
  <2>1. UNCHANGED <<cache, aside, filtered, visit, acked>> /\ fetch' = Unwatched(fetch)
    BY <1>6 DEF LeaveStep, Leave, keys, ghosts
  <2>2. Lists'
    BY <1>0, <2>1, UnwatchedType, ListsGrow DEF Lists
  <2> QED
    BY <1>0, <2>1, <2>2 DEF Known
<1>7. CASE ReturnStep
  <2>1. UNCHANGED <<filtered, acked>> /\ visit' = visit + 1
    BY <1>7 DEF ReturnStep, Return, ghosts
  <2>2. /\ cache' \in Entries(done) /\ fetch' \in Fetches(done)
        /\ aside' \in [cache : Entries(done), fetch : Fetches(done)]
    <3>1. CASE Swap
      BY <3>1, SwapType
    <3>2. CASE Opening(fetch) /\ UNCHANGED <<cache, aside>>
      BY <3>2, OpeningType DEF Lists
    <3> QED
      BY <1>7, <3>1, <3>2 DEF ReturnStep, Return
  <2>3. filtered' \subseteq 0..visit'
    BY <1>0, <2>1 DEF Lists
  <2>4. Lists'
    BY <1>0, <2>2, <2>3, ListsGrow
  <2> QED
    BY <1>0, <2>1, <2>4 DEF Known
<1>8. CASE ServeStep
  BY <1>1, <1>8, ServeKeeps DEF swr, keys, mount
<1> QED
  BY <1>1, <1>2, <1>3, <1>4, <1>5, <1>6, <1>7, <1>8 DEF Step, DialogStep, AskStep, Asking,
     Send, RefuseStep, Refused, Another, Elsewhere, swr, keys, mount, ghosts

\* Requests that stay as they are, or go.
LEMMA FewerCalls ==
  ASSUME Typed, page' = page, count' = count, visit' \in Nat, visit <= visit',
         done' = done, calls' \subseteq calls
  PROVE  Requests'
<1>1. \A c \in calls' : c.visit \in Nat /\ c.visit <= visit'
  BY DEF Typed, Requests, Call, Buttons
<1>2. \A c \in calls' : Intent(c.op, c.seen, c.body, c.sends)'
  BY DEF Typed, Requests, Intent
<1> QED
  BY <1>1, <1>2 DEF Typed, Requests

LEMMA StepRequests ==
  ASSUME Typed, Step
  PROVE  Requests'
<1> USE DEF Typed
<1>0. done \subseteq done' /\ page' = page
  BY StepTable, StepBounds
<1>1. visit \in Nat /\ count \in Nat
  BY DEF Bounds, Buttons
<1>2. ASSUME calls' \subseteq calls, UNCHANGED <<count, done>>, visit' \in {visit, visit + 1}
      PROVE  Requests'
  BY <1>0, <1>1, <1>2, FewerCalls
<1>3. CASE AskStep
  <2>1. PICK op \in Ops, r \in Row, ids \in SUBSET Id, body \in Row, sends \in SUBSET Field :
             Asking(op, r, ids, body, sends)
    BY <1>3 DEF AskStep
  <2> DEFINE d == [n |-> count + 1, op |-> op, ids |-> ids, seen |-> r, body |-> body,
                   sends |-> sends, state |-> "sent", visit |-> visit]
  <2>2. calls' = calls \cup {d} /\ count' = count + 1 /\ UNCHANGED <<visit, done>>
    BY <2>1 DEF Asking, Send, mount, server
  <2>3. count + 1 \in 1..MaxCalls
    <3>1. Bounds' /\ count' = count + 1
      BY <2>2, StepBounds
    <3>2. left'.calls \in Nat
      BY <3>1 DEF Bounds, Left
    <3> QED
      BY <1>1, <3>1, <3>2, ConsoleAssumption DEF Bounds
  <2>4. /\ d \in Call /\ d.n = count + 1 /\ d.visit = visit /\ d.state = "sent"
        /\ d.op = op /\ d.seen = r /\ d.body = body /\ d.sends = sends
    BY <1>1, <2>3 DEF Call
  <2>5. Intent(op, r, body, sends)'
    BY <1>0, <2>1 DEF Asking, Intent
  <2> HIDE DEF d
  <2>6. calls' \subseteq Call
    BY <2>2, <2>4 DEF Requests
  <2>7. \A c \in calls : c.n \in Nat /\ c.n <= count
    BY DEF Requests, Call
  <2>8. \A c \in calls' :
          /\ c.n <= count' /\ c.visit <= visit'
          /\ (c.state = "ok" => c.n \in done') /\ (c.state = "sent" => c.n \notin done')
    <3>1. count + 1 \notin done
      BY <1>1 DEF Requests
    <3> QED
      BY <1>1, <2>2, <2>4, <2>7, <3>1 DEF Requests
  <2>11. \A n \in done' : n <= count'
    BY <1>1, <2>2 DEF Requests, Table
  <2>9. \A c, e \in calls' : c.n = e.n => c = e
    BY <1>1, <2>2, <2>4, <2>7 DEF Requests
  <2>10. \A c \in calls' : Intent(c.op, c.seen, c.body, c.sends)'
    BY <1>0, <2>2, <2>4, <2>5 DEF Requests, Intent
  <2> QED
    BY <2>6, <2>8, <2>9, <2>10, <2>11 DEF Requests
<1>4. ASSUME NEW c \in calls, NEW d, AnsweredAs(c, d), calls' = (calls \ {c}) \cup {d},
             done' = done \cup {c.n} \/ (done' = done /\ d.state = "error"),
             UNCHANGED <<count, visit>>
      PROVE  Requests'
  <2>1. calls' \subseteq Call
    BY <1>4 DEF AnsweredAs, Requests
  <2>2. \A e \in calls' :
          /\ e.n <= count' /\ e.visit <= visit'
          /\ (e.state = "ok" => e.n \in done') /\ (e.state = "sent" => e.n \notin done')
    BY <1>0, <1>4 DEF AnsweredAs, Requests
  <2>6. \A n \in done' : n <= count'
    BY <1>4 DEF Requests
  <2>3. \A e, f \in calls' : e.n = f.n => e = f
    BY <1>4 DEF AnsweredAs, Requests
  <2>4. Intent(d.op, d.seen, d.body, d.sends)'
    BY <1>0, <1>4 DEF AnsweredAs, Requests, Intent
  <2>5. \A e \in calls' : Intent(e.op, e.seen, e.body, e.sends)'
    BY <1>0, <1>4, <2>4 DEF Requests, Intent
  <2> QED
    BY <2>1, <2>2, <2>3, <2>5, <2>6 DEF Requests
<1>5. CASE ServeStep
  <2>1. PICK c \in calls, gone \in SUBSET rows, new \in SUBSET Row, sends \in SUBSET Field,
             d \in Call : Serving(c, gone, new, sends, d)
    BY <1>5 DEF ServeStep
  <2>2. done' = done \cup {c.n} /\ UNCHANGED <<count, visit>>
    BY <2>1 DEF Serving, Replaces, Write, mount
  <2> QED
    BY <1>4, <2>1, <2>2 DEF Serving, Replaces
<1>6. CASE RefuseStep
  <2>1. PICK c \in calls : Refused(c)
    BY <1>6 DEF RefuseStep
  <2>2. c \in Call
    BY DEF Requests
  <2> DEFINE d == [c EXCEPT !.state = "error"]
  <2>3. AnsweredAs(c, d) /\ d.state = "error"
    BY <2>2 DEF AnsweredAs, Call
  <2>4. calls' = (calls \ {c}) \cup {d} /\ UNCHANGED <<count, visit, done>>
    BY <2>1 DEF Refused, Reply, mount, server
  <2> HIDE DEF d
  <2> QED
    BY <1>4, <2>3, <2>4
<1>7. CASE AnswerStep \/ OrderStep \/ RedirectStep
  BY <1>2, <1>7 DEF AnswerStep, Answering, Returned, OrderStep, OrderAnswered, RedirectStep,
     Redirected, mount, server
<1>8. CASE ListStep \/ DialogStep \/ LeaveStep \/ ReturnStep \/ Another
  BY <1>2, <1>8 DEF ListStep, DialogStep, LeaveStep, Leave, ReturnStep, Return, Another,
     Elsewhere, mount, server
<1> QED
  BY <1>3, <1>5, <1>6, <1>7, <1>8 DEF Step

LEMMA EmptyIsFew == AtMostOne({}) /\ \A x : AtMostOne({x})
BY DEF AtMostOne

LEMMA OpenedType ==
  ASSUME Lists
  PROVE  Opened \subseteq Row /\ AtMostOne(Opened)
<1>1. Section(1) \subseteq Row /\ AtMostOne(Section(1))
  BY ShownType DEF Section, Unique, AtMostOne
<1> QED
  BY <1>1, EmptyIsFew DEF Opened

LEMMA StepDialog ==
  ASSUME Typed, Step
  PROVE  Dialog'
<1> USE DEF Typed
<1>1. CASE UNCHANGED <<creating, editing, selected, secret>>
  BY <1>1 DEF Dialog, AtMostOne
<1>2. CASE DialogStep
  BY <1>2, IdType DEF DialogStep, Dialog, AtMostOne
<1>3. CASE AnswerStep
  <2>1. PICK c \in calls, closes \in BOOLEAN, reveals \in BOOLEAN, revalidates \in BOOLEAN :
             Returned(c, closes, reveals, revalidates)
    BY <1>3 DEF AnswerStep, Answering
  <2>2. c.n \in 1..MaxCalls
    BY DEF Requests, Call
  <2>3. /\ creating' \in BOOLEAN /\ editing' \in {editing, {}} /\ selected' \in {selected, {}}
        /\ secret' \in {secret, {c.n}}
    BY <2>1 DEF Returned
  <2> QED
    BY <2>2, <2>3 DEF Dialog, AtMostOne
<1>4. CASE OrderStep
  <2>1. PICK c \in calls : OrderAnswered(c)
    BY <1>4 DEF OrderStep
  <2>2. c.body \in Row
    BY DEF Requests, Call
  <2>3. editing' \in {editing, {c.body}} /\ UNCHANGED <<creating, selected, secret>>
    BY <2>1 DEF OrderAnswered
  <2> QED
    BY <2>2, <2>3 DEF Dialog, AtMostOne
<1>5. CASE RedirectStep
  BY <1>5 DEF RedirectStep, Redirected, Dialog, AtMostOne
<1>6. CASE LeaveStep
  BY <1>6 DEF LeaveStep, Leave, Dialog, AtMostOne
<1>7. CASE ReturnStep
  BY <1>7, OpenedType DEF ReturnStep, Return, Dialog, AtMostOne
<1>8. CASE AskStep
  BY <1>1, <1>8 DEF AskStep, Asking, local
<1> QED
  BY <1>1, <1>2, <1>3, <1>4, <1>5, <1>6, <1>7, <1>8, ServeKeeps DEF Step, ListStep, RefuseStep,
     Refused, Another, Elsewhere, local

LEMMA NoBusyType == NoBusy \in [Flags -> Id \cup {NoRow}] /\ \A f \in Flags : NoBusy[f] = NoRow
BY DEF NoBusy

LEMMA StepButtons ==
  ASSUME Typed, Step
  PROVE  Buttons'
<1> USE DEF Typed
<1>0. page' = page /\ visit \in Nat /\ "pay" \in Flags
  BY StepBounds DEF Buttons, Flags
<1>1. CASE UNCHANGED <<mount, submitting, busy>>
  BY <1>0, <1>1 DEF Buttons, mount
<1>2. CASE AskStep
  <2>1. PICK op \in Ops, r \in Row, ids \in SUBSET Id, body \in Row, sends \in SUBSET Field :
             Asking(op, r, ids, body, sends)
    BY <1>2 DEF AskStep
  <2>2. UNCHANGED mount /\ submitting' \in {submitting, TRUE}
    BY <2>1 DEF Asking, Send, local
  <2>3. CASE UNCHANGED busy
    BY <1>0, <2>2, <2>3 DEF Buttons, mount
  <2>4. CASE /\ FlagOf(op) \in Flags /\ (FlagOf(op) = "pay" => page = "topup")
             /\ \E i \in Id : busy' = [busy EXCEPT ![FlagOf(op)] = i]
    <3>1. busy' \in [Flags -> Id \cup {NoRow}]
      BY <2>4 DEF Buttons
    <3>2. page # "topup" => busy'["pay"] = NoRow
      BY <1>0, <2>4 DEF Buttons
    <3> QED
      BY <1>0, <2>2, <3>1, <3>2 DEF Buttons, mount
  <2> QED
    BY <2>1, <2>3, <2>4 DEF Asking, local
<1>3. CASE AnswerStep
  <2>1. PICK c \in calls, closes \in BOOLEAN, reveals \in BOOLEAN, revalidates \in BOOLEAN :
             Returned(c, closes, reveals, revalidates)
    BY <1>3 DEF AnswerStep, Answering
  <2>2. UNCHANGED mount /\ submitting' \in BOOLEAN /\ busy' = Released(c)
    BY <2>1 DEF Returned
  <2>3. Released(c) \in [Flags -> Id \cup {NoRow}]
        /\ \A f \in Flags : Released(c)[f] \in {busy[f], NoRow}
    BY DEF Released, Buttons
  <2> QED
    BY <1>0, <2>2, <2>3 DEF Buttons, mount
<1>4. CASE OrderStep
  <2>1. PICK c \in calls : OrderAnswered(c)
    BY <1>4 DEF OrderStep
  <2>2. UNCHANGED <<mount, submitting>> /\ busy' \in {busy, [busy EXCEPT !["pay"] = NoRow]}
    BY <2>1 DEF OrderAnswered
  <2> QED
    BY <1>0, <2>2 DEF Buttons, mount
<1>5. CASE RedirectStep
  <2>1. busy' = NoBusy /\ mounted' = FALSE /\ UNCHANGED <<visit, submitting>>
    BY <1>5 DEF RedirectStep, Redirected
  <2> QED
    BY <1>0, <2>1, NoBusyType DEF Buttons
<1>6. CASE LeaveStep
  <2>1. busy' = NoBusy /\ mounted' = FALSE /\ visit' = visit /\ submitting' = FALSE
    BY <1>6 DEF LeaveStep, Leave
  <2> QED
    BY <1>0, <2>1, NoBusyType DEF Buttons
<1>7. CASE ReturnStep
  <2>1. busy' = busy /\ mounted' = TRUE /\ visit' = visit + 1 /\ submitting' = submitting
    BY <1>7 DEF ReturnStep, Return
  <2> QED
    BY <1>0, <2>1 DEF Buttons
<1> QED
  BY <1>1, <1>2, <1>3, <1>4, <1>5, <1>6, <1>7, ServeKeeps DEF Step, ListStep, DialogStep,
     RefuseStep, Refused, Another, Elsewhere, local

LEMMA StepClosed ==
  ASSUME Typed, Step
  PROVE  Closed'
<1> USE DEF Typed
<1>0. page' = page
  BY StepBounds
<1>1. CASE UNCHANGED <<mount, local>>
  BY <1>0, <1>1 DEF Closed, mount, local
<1>2. CASE DialogStep
  BY <1>0, <1>2 DEF DialogStep, Closed, mount
<1>3. CASE AskStep
  <2>1. PICK op \in Ops, r \in Row, ids \in SUBSET Id, body \in Row, sends \in SUBSET Field :
             Asking(op, r, ids, body, sends)
    BY <1>3 DEF AskStep
  <2>2. mounted /\ UNCHANGED <<mounted, creating, editing, secret>>
    BY <2>1 DEF Asking, Send, mount, local
  <2>3. page = "topup" => ~submitting'
    BY <2>1 DEF Asking, Closed, local
  <2> QED
    BY <1>0, <2>2, <2>3 DEF Closed
<1>4. CASE AnswerStep
  <2>1. PICK c \in calls, closes \in BOOLEAN, reveals \in BOOLEAN, revalidates \in BOOLEAN :
             Answering(c, closes, reveals, revalidates)
    BY <1>4 DEF AnswerStep
  <2>2. /\ mounted' = mounted /\ (creating' => creating) /\ (submitting' => submitting)
        /\ editing' \in {editing, {}}
        /\ secret' = secret \/ (mounted /\ page # "topup")
    BY <2>1 DEF Answering, Returned, Here, mount
  <2>3. ~mounted => busy' = busy
    BY <2>1 DEF Answering, Returned, Released, Here
  <2> QED
    BY <1>0, <2>2, <2>3 DEF Closed
<1>5. CASE OrderStep
  <2>1. PICK c \in calls : OrderAnswered(c)
    BY <1>5 DEF OrderStep
  <2>2. /\ UNCHANGED <<mounted, creating, submitting, secret>>
        /\ ~mounted => UNCHANGED <<editing, busy>>
    BY <2>1 DEF OrderAnswered, Here, mount
  <2> QED
    BY <1>0, <2>2 DEF Closed
<1>6. CASE RedirectStep
  BY <1>0, <1>6 DEF RedirectStep, Redirected, Closed
<1>7. CASE LeaveStep
  BY <1>0, <1>7 DEF LeaveStep, Leave, Closed
<1>8. CASE ReturnStep
  BY <1>0, <1>8 DEF ReturnStep, Return, Closed
<1> QED
  BY <1>1, <1>2, <1>3, <1>4, <1>5, <1>6, <1>7, <1>8, ServeKeeps DEF Step, ListStep, RefuseStep,
     Refused, Another, Elsewhere

LEMMA StepTyped ==
  ASSUME Typed, Step
  PROVE  Typed'
BY StepBounds, StepTable, StepLists, StepRequests, StepDialog, StepButtons, StepClosed DEF Typed

-------------------------------------------------------------------------------
(* One submission at a time                                                 *)

\* The answers that the server gives are awaited by the same handlers.
LEMMA SameAwaited ==
  ASSUME NEW c \in calls, NEW d, AnsweredAs(c, d), calls' = (calls \ {c}) \cup {d},
         UNCHANGED visit
  PROVE  /\ Awaited = {} => Awaited' = {}
         /\ (\E e \in calls : Awaited = {e}) => \E e \in calls' : Awaited' = {e}
<1>1. CASE c \in Awaited
  <2>1. d \in Awaited'
    BY <1>1 DEF Awaited, AnsweredAs
  <2>2. \A e : e \in Awaited' => e = d \/ (e \in Awaited /\ e # c)
    BY DEF Awaited
  <2>3. (\E e \in calls : Awaited = {e}) => Awaited' = {d}
    BY <1>1, <2>1, <2>2
  <2> QED
    BY <1>1, <2>3
<1>2. CASE c \notin Awaited
  <2>1. Awaited' = Awaited
    BY <1>2 DEF Awaited, AnsweredAs
  <2> QED
    BY <1>2, <2>1 DEF Awaited
<1> QED
  BY <1>1, <1>2

LEMMA StepSubmitting ==
  ASSUME Typed, Submitting, Step
  PROVE  Submitting' /\ (secret # {} => secret' \in {secret, {}})
<1> USE DEF Typed
<1>1. CASE UNCHANGED <<calls, mount, submitting, secret>>
  BY <1>1 DEF Submitting, Awaited, mount
<1>2. CASE DialogStep
  BY <1>2 DEF DialogStep, Submitting, Awaited, mount
<1>3. CASE AskStep
  <2>1. PICK op \in Ops, r \in Row, ids \in SUBSET Id, body \in Row, sends \in SUBSET Field :
             Asking(op, r, ids, body, sends)
    BY <1>3 DEF AskStep
  <2> DEFINE d == [n |-> count + 1, op |-> op, ids |-> ids, seen |-> r, body |-> body,
                   sends |-> sends, state |-> "sent", visit |-> visit]
  <2>2. calls' = calls \cup {d} /\ UNCHANGED <<mounted, visit, secret>> /\ mounted
    BY <2>1 DEF Asking, Send, mount, local
  <2>3. d.op = op /\ d.visit = visit
    OBVIOUS
  <2> HIDE DEF d
  <2>4. CASE op \in {"create", "edit"}
    <3>1. ~submitting /\ submitting' = TRUE /\ secret = {} /\ Awaited = {}
      BY <2>1, <2>2, <2>4 DEF Asking, Submitting
    <3>2. Awaited' = {d} /\ d \in calls'
      BY <2>2, <2>3, <2>4, <3>1 DEF Awaited
    <3> QED
      BY <2>2, <3>1, <3>2 DEF Submitting
  <2>5. CASE op \notin {"create", "edit"}
    <3>1. submitting' = submitting
      BY <2>1, <2>5 DEF Asking, local
    <3>2. Awaited' = Awaited
      BY <2>2, <2>3, <2>5 DEF Awaited
    <3> QED
      BY <2>2, <3>1, <3>2 DEF Submitting
  <2> QED
    BY <2>4, <2>5
<1>4. CASE AnswerStep
  <2>1. PICK c \in calls, closes \in BOOLEAN, reveals \in BOOLEAN, revalidates \in BOOLEAN :
             Answering(c, closes, reveals, revalidates)
    BY <1>4 DEF AnswerStep
  <2>2. calls' = calls \ {c} /\ UNCHANGED <<mounted, visit>>
    BY <2>1 DEF Answering, Returned, mount
  <2>3. submitting' = (submitting /\ ~(Here(c) /\ c.op \in {"create", "edit"}))
    BY <2>1 DEF Answering, Returned
  <2>4. CASE mounted /\ c \in Awaited
    <3>1. submitting /\ Awaited = {c} /\ secret = {}
      BY <2>4 DEF Submitting
    <3>2. ~submitting' /\ Awaited' = {}
      BY <2>2, <2>3, <2>4, <3>1 DEF Awaited, Here
    <3> QED
      BY <3>1, <3>2 DEF Submitting
  <2>5. CASE ~(mounted /\ c \in Awaited)
    <3>1. submitting' = submitting
      BY <2>3, <2>5 DEF Awaited, Here, Buttons
    <3>2. mounted => Awaited' = Awaited
      BY <2>2, <2>5 DEF Awaited
    <3>3. secret' = secret
      BY <2>1, <2>5 DEF Answering, Returned, Awaited, Here
    <3>4. \A e \in calls : mounted /\ Awaited = {e} => e \in calls'
      BY <2>2, <2>5
    <3> QED
      BY <2>2, <3>1, <3>2, <3>3, <3>4 DEF Submitting
  <2> QED
    BY <2>4, <2>5
<1>5. CASE OrderStep
  <2>1. PICK c \in calls : OrderAnswered(c)
    BY <1>5 DEF OrderStep
  <2>2. /\ calls' = calls \ {c} /\ UNCHANGED <<mounted, visit, submitting, secret>>
        /\ c.op \in {"order", "simulate"}
    BY <2>1 DEF OrderAnswered, mount
  <2>3. Awaited' = Awaited
    BY <2>2 DEF Awaited
  <2>4. \A e \in calls : Awaited = {e} => e \in calls'
    BY <2>2 DEF Awaited
  <2> QED
    BY <2>2, <2>3, <2>4 DEF Submitting
<1>6. CASE RedirectStep
  <2>1. mounted' = FALSE /\ UNCHANGED <<submitting, secret>>
    BY <1>6 DEF RedirectStep, Redirected
  <2> QED
    BY <2>1 DEF Submitting
<1>7. CASE LeaveStep
  BY <1>7 DEF LeaveStep, Leave, Submitting
<1>8. CASE ReturnStep
  <2>1. /\ mounted' = TRUE /\ visit' = visit + 1 /\ UNCHANGED <<calls, submitting, secret>>
        /\ ~submitting /\ visit \in Nat
    BY <1>8 DEF ReturnStep, Return, Closed, Buttons
  <2>2. \A c \in calls : c.visit \in Nat /\ c.visit <= visit
    BY DEF Requests, Call
  <2>3. Awaited' = {}
    BY <2>1, <2>2 DEF Awaited
  <2> QED
    BY <2>1, <2>3 DEF Submitting
<1>9. CASE ServeStep
  <2>1. PICK c \in calls, gone \in SUBSET rows, new \in SUBSET Row, sends \in SUBSET Field,
             d \in Call : Serving(c, gone, new, sends, d)
    BY <1>9 DEF ServeStep
  <2>2. UNCHANGED <<mounted, visit, submitting, secret>>
    BY <1>9, ServeKeeps DEF mount, local
  <2> QED
    BY <2>1, <2>2, SameAwaited DEF Serving, Replaces, Submitting
<1>10. CASE RefuseStep
  <2>1. PICK c \in calls : Refused(c)
    BY <1>10 DEF RefuseStep
  <2> DEFINE d == [c EXCEPT !.state = "error"]
  <2>2. AnsweredAs(c, d)
    BY DEF AnsweredAs, Call, Requests
  <2>3. calls' = (calls \ {c}) \cup {d} /\ UNCHANGED <<mounted, visit, submitting, secret>>
    BY <2>1 DEF Refused, Reply, mount, local
  <2> HIDE DEF d
  <2> QED
    BY <2>2, <2>3, SameAwaited DEF Submitting
<1> QED
  BY <1>1, <1>2, <1>3, <1>4, <1>5, <1>6, <1>7, <1>8, <1>9, <1>10 DEF Step, ListStep, Another,
     Elsewhere, local

-------------------------------------------------------------------------------
(* Busy buttons                                                             *)

LEMMA StepBusy ==
  ASSUME Typed, BusyMeansAwaited, Step
  PROVE  BusyMeansAwaited'
<1> USE DEF Typed
<1>0. page' = page /\ "pay" \in Flags /\ Closed'
  BY StepBounds, StepClosed DEF Flags
<1>1. CASE UNCHANGED <<calls, mount, busy>>
  BY <1>1 DEF BusyMeansAwaited, mount, Here
<1>2. ASSUME ~mounted' PROVE BusyMeansAwaited'
  BY <1>0, <1>2, NoBusyType DEF BusyMeansAwaited, Closed
<1>3. ASSUME NEW c \in calls, NEW d, AnsweredAs(c, d), calls' = (calls \ {c}) \cup {d},
             UNCHANGED <<mounted, visit, busy>>
      PROVE  BusyMeansAwaited'
  <2>1. \A e \in calls : Here(e) => \E g \in calls' : g.op = e.op /\ Here(g)'
    BY <1>3 DEF AnsweredAs, Here
  <2> QED
    BY <1>3, <2>1 DEF BusyMeansAwaited
<1>4. CASE AskStep
  <2>1. PICK op \in Ops, r \in Row, ids \in SUBSET Id, body \in Row, sends \in SUBSET Field :
             Asking(op, r, ids, body, sends)
    BY <1>4 DEF AskStep
  <2>2. UNCHANGED <<mounted, visit>> /\ mounted
    BY <2>1 DEF Asking, Send, mount
  <2>3. PICK d : calls' = calls \cup {d} /\ d.op = op /\ d.visit = visit
    <3> DEFINE d == [n |-> count + 1, op |-> op, ids |-> ids, seen |-> r, body |-> body,
                     sends |-> sends, state |-> "sent", visit |-> visit]
    <3>1. calls' = calls \cup {d}
      BY <2>1 DEF Asking, Send
    <3>2. d.op = op /\ d.visit = visit
      OBVIOUS
    <3> HIDE DEF d
    <3> QED
      BY <3>1, <3>2
  <2>4. \A e \in calls : Here(e) => e \in calls' /\ Here(e)'
    BY <2>2, <2>3 DEF Here
  <2>5. Here(d)' /\ d \in calls'
    BY <2>2, <2>3 DEF Here
  <2>6. \A f \in Flags : f # FlagOf(op) => busy'[f] = busy[f]
    BY <2>1 DEF Asking, local, Buttons
  <2> QED
    BY <2>3, <2>4, <2>5, <2>6, <2>1 DEF BusyMeansAwaited, Asking, local
<1>5. ASSUME NEW c \in calls, calls' = calls \ {c}, UNCHANGED <<mounted, visit>>,
             \A f \in Flags : busy'[f] # NoRow => busy[f] # NoRow,
             \A f \in Flags : Here(c) /\ FlagOf(c.op) = f => busy'[f] = NoRow
      PROVE  BusyMeansAwaited'
  <2>1. \A e \in calls : Here(e)' = Here(e)
    BY <1>5 DEF Here
  <2> QED
    BY <1>5, <2>1 DEF BusyMeansAwaited
<1>6. CASE AnswerStep
  <2>1. PICK c \in calls, closes \in BOOLEAN, reveals \in BOOLEAN, revalidates \in BOOLEAN :
             Answering(c, closes, reveals, revalidates)
    BY <1>6 DEF AnswerStep
  <2>2. calls' = calls \ {c} /\ UNCHANGED <<mounted, visit>> /\ busy' = Released(c)
    BY <2>1 DEF Answering, Returned, mount
  <2>3. \A f \in Flags : busy'[f] # NoRow => busy[f] # NoRow
    BY <2>2 DEF Released, Buttons
  <2>4. \A f \in Flags : Here(c) /\ FlagOf(c.op) = f => busy'[f] = NoRow
    <3>1. CASE c.op \in {"order", "simulate"}
      <4>1. page # "topup" /\ FlagOf(c.op) = "pay"
        BY <2>1, <3>1 DEF Answering, FlagOf
      <4> QED
        BY <2>3, <4>1 DEF Buttons
    <3>2. CASE c.op \notin {"order", "simulate"}
      BY <2>2, <3>2 DEF Released, FlagOf, Buttons
    <3> QED
      BY <3>1, <3>2
  <2> QED
    BY <1>5, <2>2, <2>3, <2>4
<1>7. CASE OrderStep
  <2>1. PICK c \in calls : OrderAnswered(c)
    BY <1>7 DEF OrderStep
  <2>2. /\ calls' = calls \ {c} /\ UNCHANGED <<mounted, visit>>
        /\ busy' = (IF Here(c) THEN [busy EXCEPT !["pay"] = NoRow] ELSE busy)
        /\ FlagOf(c.op) = "pay"
    BY <2>1 DEF OrderAnswered, mount, FlagOf
  <2>3. \A f \in Flags : busy'[f] # NoRow => busy[f] # NoRow
    BY <2>2 DEF Buttons
  <2>4. \A f \in Flags : Here(c) /\ FlagOf(c.op) = f => busy'[f] = NoRow
    BY <1>0, <2>2 DEF Buttons
  <2> QED
    BY <1>5, <2>2, <2>3, <2>4
<1>8. CASE RedirectStep \/ LeaveStep
  BY <1>2, <1>8 DEF RedirectStep, Redirected, LeaveStep, Leave
<1>9. CASE ReturnStep
  <2>1. busy' = NoBusy
    BY <1>9 DEF ReturnStep, Return, Closed
  <2> QED
    BY <2>1, NoBusyType DEF BusyMeansAwaited
<1>10. CASE ServeStep
  <2>1. PICK c \in calls, gone \in SUBSET rows, new \in SUBSET Row, sends \in SUBSET Field,
             d \in Call : Serving(c, gone, new, sends, d)
    BY <1>10 DEF ServeStep
  <2>2. UNCHANGED <<mounted, visit, busy>>
    BY <1>10, ServeKeeps DEF mount, local
  <2> QED
    BY <1>3, <2>1, <2>2 DEF Serving, Replaces
<1>11. CASE RefuseStep
  <2>1. PICK c \in calls : Refused(c)
    BY <1>11 DEF RefuseStep
  <2> DEFINE d == [c EXCEPT !.state = "error"]
  <2>2. AnsweredAs(c, d)
    BY DEF AnsweredAs, Call, Requests
  <2>3. calls' = (calls \ {c}) \cup {d} /\ UNCHANGED <<mounted, visit, busy>>
    BY <2>1 DEF Refused, Reply, mount, local
  <2> HIDE DEF d
  <2> QED
    BY <1>3, <2>2, <2>3
<1> QED
  BY <1>1, <1>4, <1>6, <1>7, <1>8, <1>9, <1>10, <1>11 DEF Step, ListStep, DialogStep, Another,
     Elsewhere, local, mount

-------------------------------------------------------------------------------
(* The table                                                                *)

LEMMA StepUndone ==
  ASSUME Typed, ClicksUndoNothing, Step
  PROVE  ClicksUndoNothing'
<1>0. page' = page
  BY StepBounds DEF Typed
<1>1. CASE undone' = undone
  BY <1>0, <1>1 DEF ClicksUndoNothing
<1>2. CASE ServeStep
  <2>1. PICK c \in calls, gone \in SUBSET rows, new \in SUBSET Row, sends \in SUBSET Field,
             d \in Call : Serving(c, gone, new, sends, d)
    BY <1>2 DEF ServeStep
  <2>2. \A u \in undone' : u \in undone \/ Forgiven(u.op, u.field)
    <3> SUFFICES ASSUME NEW u \in undone', u \notin undone PROVE Forgiven(u.op, u.field)
      OBVIOUS
    <3>1. PICK f \in sends \ Chosen(c) :
            /\ u = [op |-> c.op, field |-> f]
            /\ \E r \in gone : \E r2 \in new :
                 r.id = r2.id /\ c.body[f] = c.seen[f] /\ r[f] # c.seen[f]
      BY <2>1 DEF Serving, Replaces, Write
    <3>2. Forgiven(c.op, f)
      BY <2>1, <3>1 DEF Serving, Replaces
    <3> QED
      BY <3>1, <3>2
  <2> QED
    BY <1>0, <2>2 DEF ClicksUndoNothing, Forgiven
<1> QED
  BY <1>1, <1>2 DEF Step, ListStep, DialogStep, AskStep, Asking, Send, AnswerStep, Answering,
     Returned, OrderStep, OrderAnswered, RedirectStep, Redirected, RefuseStep, Refused, LeaveStep,
     Leave, ReturnStep, Return, Another, Elsewhere, ghosts

LEMMA Beyond == \A m, i \in Nat : i <= m => i # m + 1
OBVIOUS

\* Nobody but the requests of the page writes notes.
LEMMA StepNotes ==
  ASSUME Typed, Step, NEW r \in rows, NEW s \in rows', r.id = s.id, r.notes # s.notes,
         s.notes = ""
  PROVE  \E c \in calls :
            /\ c.n \in done' \ done
            /\ \/ c.op = "toggle" /\ page = "channels"
               \/ c.op = "edit" /\ c.seen.notes = ""
<1> USE DEF Typed
<1>0. /\ rows \subseteq Row /\ Unique(rows) /\ lastId \in Nat
      /\ r \in Row /\ r.id \in Nat /\ r.id <= lastId
  BY IdType DEF Table, Row
<1>1. s \notin rows
  BY <1>0 DEF Unique
<1>2. s.id <= lastId /\ s.id \in Nat
  BY <1>0, Zenon
<1>3. CASE ServeStep
  <2>1. PICK c \in calls, gone \in SUBSET rows, new \in SUBSET Row, sends \in SUBSET Field,
             d \in Call : Serving(c, gone, new, sends, d)
    BY <1>3 DEF ServeStep
  <2>2. rows' = (rows \ gone) \cup new /\ done' = done \cup {c.n} /\ c.state = "sent"
    BY <2>1 DEF Serving, Replaces, Write
  <2>3. s \in new
    BY <1>1, <2>2
  <2>4. r \in gone
    <3>1. (\E q \in gone : q.id = s.id) \/ s.id = lastId + 1
      BY <2>1, <2>3 DEF Serving, Replaces
    <3>2. s.id # lastId + 1
      BY <1>0, <1>2, Beyond, Zenon
    <3>3. PICK q \in gone : q.id = s.id
      BY <3>1, <3>2
    <3> QED
      BY <1>0, <3>3 DEF Unique
  <2>5. (c.op = "toggle" /\ page = "channels") \/ (c.op = "edit" /\ c.seen.notes = "")
    BY <2>1, <2>3, <2>4 DEF Serving, Replaces
  <2>6. c.n \notin done
    BY <2>2 DEF Requests
  <2> QED
    BY <2>2, <2>5, <2>6
<1>4. CASE Another
  <2>1. ASSUME NEW q \in rows, NEW t \in Altered(q), Elsewhere({q}, {t}) PROVE FALSE
    <3>1. t \in Row /\ t.id = q.id /\ t.notes = q.notes
      BY <1>0, <2>1, AlteredType
    <3>2. s = t /\ r = q
      BY <1>0, <1>1, <2>1, <3>1 DEF Elsewhere, Unique
    <3> QED
      BY <3>1, <3>2
  <2>2. ASSUME NEW q, Elsewhere({q}, {}) PROVE FALSE
    BY <1>1, <2>2 DEF Elsewhere
  <2>3. CASE /\ lastId + 1 \in Id /\ lastId' = lastId + 1
             /\ Elsewhere({}, {[Stored EXCEPT !.id = lastId', !.name = "others"]})
    <3>1. s = [Stored EXCEPT !.id = lastId', !.name = "others"]
      BY <1>1, <2>3 DEF Elsewhere
    <3>2. s.id = lastId + 1
      BY <2>3, <3>1 DEF Stored
    <3> QED
      BY <1>0, <1>2, <3>2, Beyond, Zenon
  <2> QED
    BY <1>4, <2>1, <2>2, <2>3 DEF Another
<1>5. CASE rows' = rows
  BY <1>1, <1>5
<1> QED
  BY <1>3, <1>4, <1>5 DEF Step, ListStep, DialogStep, AskStep, Asking, Send, AnswerStep, Answering,
     Returned, OrderStep, OrderAnswered, RedirectStep, Redirected, RefuseStep, Refused, LeaveStep,
     Leave, ReturnStep, Return, server


-------------------------------------------------------------------------------
(* The handlers of the user's side are steps of these kinds                 *)

LEMMA FlipType ==
  ASSUME NEW r \in Row, NEW x \in Status \cup {Flip(r.status)}
  PROVE  /\ [r EXCEPT !.status = x] \in Row
         /\ [r EXCEPT !.status = x].id = r.id /\ [r EXCEPT !.status = x].notes = r.notes
<1>1. x \in Status
  BY DEF Flip, Status
<1> QED
  BY <1>1 DEF Row

\* What may be typed into a form.
LEMMA FormType ==
  ASSUME NEW r \in Row, NEW fields \in SUBSET Field, NEW f \in Form(r, fields)
  PROVE  f \in Row /\ f.notes \in {r.notes, "typed"}
<1>1. CASE f = r
  BY <1>1
<1>2. CASE f # r
  <2>1. PICK g \in fields :
          f = [r EXCEPT !.name = IF g = "name" THEN "typed" ELSE @,
                        !.quota = IF g = "quota" THEN 5 ELSE @,
                        !.status = IF g = "status" THEN Flip(@) ELSE @,
                        !.notes = IF g = "notes" THEN "typed" ELSE @]
    BY <1>2 DEF Form
  <2>2. /\ (IF g = "name" THEN "typed" ELSE r.name) \in Names
        /\ (IF g = "quota" THEN 5 ELSE r.quota) \in 0..5
        /\ (IF g = "status" THEN Flip(r.status) ELSE r.status) \in Status
        /\ (IF g = "notes" THEN "typed" ELSE r.notes) \in Notes \cap {r.notes, "typed"}
    <3>1. r.name \in Names /\ r.quota \in 0..5 /\ r.status \in Status /\ r.notes \in Notes
      BY DEF Row
    <3>2. "typed" \in Names /\ "typed" \in Notes /\ 5 \in 0..5 /\ Flip(r.status) \in Status
      BY DEF Names, Status, Notes, Flip
    <3> QED
      BY <3>1, <3>2, Zenon
  <2> QED
    BY <2>1, <2>2 DEF Row
<1> QED
  BY <1>1, <1>2

\* The rows that are created, as they are typed.
LEMMA NewType ==
  /\ NewToken \in Row /\ NewUser \in Row /\ NewModel \in Row /\ NewRow \in Row
  /\ NewUpstream \in Row /\ NewOrder \in Row
  /\ [NewModel EXCEPT !.quota = BuiltInPrice] \in Row
<1>1. ASSUME NEW r \in Row, NEW n \in Names, NEW q \in 0..5, NEW t \in Notes
      PROVE  /\ [r EXCEPT !.name = n] \in Row /\ [r EXCEPT !.quota = q] \in Row
             /\ [r EXCEPT !.name = n, !.quota = q] \in Row
             /\ [r EXCEPT !.name = n, !.notes = t] \in Row
  BY <1>1 DEF Row
<1>2. "typed" \in Names /\ "typed" \in Notes /\ 5 \in 0..5 /\ BuiltInPrice \in 0..5
  BY DEF Names, Notes, BuiltInPrice
<1>3. NewToken \in Row /\ NewUser \in Row /\ NewModel \in Row
  BY <1>1, <1>2, StoredType DEF NewToken, NewUser, NewModel
<1>4. NewRow \in Row /\ NewUpstream \in Row /\ NewOrder \in Row
  BY <1>1, <1>2, StoredType DEF NewRow, NewUpstream, NewOrder
<1>5. [NewModel EXCEPT !.quota = BuiltInPrice] \in Row
  BY <1>1, <1>2, <1>3
<1> QED
  BY <1>3, <1>4, <1>5

LEMMA AskingIsAsk ==
  ASSUME NEW op \in Ops, NEW r \in Row, NEW ids \in SUBSET Id, NEW body \in Row,
         NEW sends \in SUBSET Field, Asking(op, r, ids, body, sends)
  PROVE  AskStep
BY DEF AskStep

LEMMA ClickIsAsk ==
  ASSUME NEW op \in {"toggle", "delete", "recover"}, NEW r \in Row, NEW body \in Row,
         NEW sends \in SUBSET Field, Intent(op, r, body, sends), Click(op, r, body, sends)
  PROVE  AskStep
<1>1. op \in Ops /\ {r.id} \in SUBSET Id
  BY DEF Ops, Row
<1>2. Asking(op, r, {r.id}, body, sends)
  BY DEF Asking, Click
<1> QED
  BY <1>1, <1>2, AskingIsAsk

LEMMA ClickBusyIsAsk ==
  ASSUME Typed, NEW op \in {"check", "sync", "authorize", "refresh", "seed"}, NEW r \in Row,
         NEW body \in Row, NEW sends \in SUBSET Field, Intent(op, r, body, sends),
         ClickBusy(op, r, body, sends)
  PROVE  AskStep
<1>1. op \in Ops /\ r.id \in Id /\ FlagOf(op) = op /\ op \in Flags /\ op # "pay"
      /\ op \notin {"create", "edit"}
  BY DEF Ops, Row, FlagOf, Flags
<1>2. Asking(op, r, {r.id}, body, sends)
  BY <1>1 DEF Asking, ClickBusy
<1> QED
  BY <1>1, <1>2, AskingIsAsk

LEMMA SubmitIsAsk ==
  ASSUME page # "topup", NEW op \in {"create", "edit"}, NEW r \in Row, NEW body \in Row,
         NEW sends \in SUBSET Field, Intent(op, r, body, sends), Submit(op, r, body, sends)
  PROVE  AskStep
<1>1. op \in Ops /\ {r.id} \in SUBSET Id
  BY DEF Ops, Row
<1>2. Asking(op, r, {r.id}, body, sends)
  BY DEF Asking, Submit
<1> QED
  BY <1>1, <1>2, AskingIsAsk

\* What a form may hold is submitted as an edit of its row.
LEMMA EditIsAsk ==
  ASSUME Typed, page # "topup", NEW r \in editing, NEW fields \in SUBSET Field,
         NEW f \in Form(r, fields), NEW sends \in SUBSET Field,
         page = "channels" => "notes" \in sends, Submit("edit", r, f, sends)
  PROVE  AskStep
<1>1. r \in Row
  BY DEF Typed, Dialog
<1>2. f \in Row /\ f.notes \in {r.notes, "typed"}
  BY <1>1, FormType
<1>3. Intent("edit", r, f, sends)
  BY <1>2 DEF Intent
<1> QED
  BY <1>1, <1>2, <1>3, SubmitIsAsk

LEMMA CreateIsAsk ==
  ASSUME page # "topup", NEW r \in Row, NEW sends \in SUBSET Field, Submit("create", r, r, sends)
  PROVE  AskStep
<1>1. Intent("create", r, r, sends)
  BY DEF Intent
<1> QED
  BY <1>1, SubmitIsAsk

LEMMA DeleteIsAsk ==
  ASSUME NEW r \in Row, Click("delete", r, r, {})
  PROVE  AskStep
<1>1. Intent("delete", r, r, {}) /\ {} \in SUBSET Field
  BY DEF Intent
<1> QED
  BY <1>1, ClickIsAsk

\* A switch that sends the fields its page sends.
LEMMA ToggleIsAsk ==
  ASSUME NEW r \in Row, NEW sends \in SUBSET Field,
         \/ page \in {"tokens", "users"} /\ sends = {"status"}
         \/ page = "models" /\ sends = ModelFields
         \/ page = "channels" /\ sends = {"name", "status"},
         Click("toggle", r, [r EXCEPT !.status = Flip(@)], sends)
  PROVE  AskStep
<1>1. [r EXCEPT !.status = Flip(r.status)] \in Row
  BY FlipType
<1>2. Intent("toggle", r, [r EXCEPT !.status = Flip(r.status)], sends)
  BY DEF Intent
<1> QED
  BY <1>1, <1>2, ClickIsAsk

\* A button that only asks for work about a row.
LEMMA WorkIsAsk ==
  ASSUME Typed, NEW op \in {"check", "sync", "authorize", "refresh"}, NEW r \in Row,
         ClickBusy(op, r, r, {})
  PROVE  AskStep
<1>1. Intent(op, r, r, {}) /\ {} \in SUBSET Field
  BY DEF Intent
<1> QED
  BY <1>1, ClickBusyIsAsk

LEMMA OpenIsDialog ==
  ASSUME Typed, page # "topup",
         OpenCreate \/ CloseCreate \/ CloseEdit \/ CloseSecret \/ (\E r \in Shown : OpenEdit(r))
  PROVE  DialogStep
<1> USE DEF Typed, Local, DialogStep, local
<1>0. creating \in BOOLEAN /\ editing \subseteq Row /\ AtMostOne(editing) /\ selected \subseteq Id
  BY DEF Dialog
<1>1. CASE OpenCreate \/ CloseCreate
  BY <1>0, <1>1 DEF OpenCreate, CloseCreate
<1>2. CASE CloseEdit
  BY <1>0, <1>2, EmptyIsFew DEF CloseEdit
<1>3. CASE CloseSecret
  BY <1>0, <1>3 DEF CloseSecret
<1>4. ASSUME NEW r \in Shown, OpenEdit(r) PROVE DialogStep
  <2>1. r \in Row
    BY ShownType
  <2>2. editing' = {r} /\ AtMostOne({r})
    BY <1>4, EmptyIsFew DEF OpenEdit
  <2> QED
    BY <1>0, <1>4, <2>1, <2>2 DEF OpenEdit
<1> QED
  BY <1>1, <1>2, <1>3, <1>4

\* A list is asked for, answered, delivered; another page or filter is turned to.
LEMMA FetchIsList ==
  ASSUME Typed,
         \/ FetchServed \/ FetchDelivered \/ FetchRetried \/ FetchFailed
         \/ AsideServed \/ AsideDelivered \/ Turn
  PROVE  ListStep
<1>0. /\ Lists /\ rows \in RowSets /\ visit \in Nat
      /\ fetch.joined \in BOOLEAN /\ fetch.rows \in RowSets /\ fetch.done \subseteq done
      /\ aside.fetch \in Fetches(done)
  BY DEF Typed, Table, RowSets, Lists, Fetches, Buttons
<1>1. ASSUME UNCHANGED <<page, server, calls, count, mount, local, ghosts>>, Costless,
             cache' \in Entries(done), fetch' \in Fetches(done),
             aside' \in [cache : Entries(done), fetch : Fetches(done)],
             filtered' \subseteq 0..visit
      PROVE  ListStep
  <2>1. Lists'
    BY <1>1, ListsGrow DEF server, mount
  <2> QED
    BY <1>1, <2>1 DEF ListStep
<1>2. ASSUME UNCHANGED <<page, server, calls, count, mount, local, ghosts, cache, keys>>,
             Costless, fetch' \in Fetches(done)
      PROVE  ListStep
  BY <1>0, <1>1, <1>2 DEF keys, Lists
<1>3. CASE FetchServed
  <2>1. fetch' \in Fetches(done)
    BY <1>0, <1>3 DEF FetchServed, Fetches
  <2> QED
    BY <1>2, <1>3, <2>1 DEF FetchServed, Costless
<1>4. CASE FetchDelivered
  <2>1. cache' \in Entries(done)
    BY <1>0, <1>4 DEF FetchDelivered, Entries
  <2>2. fetch' \in Fetches(done)
    BY <1>0, <1>4, IdleType DEF FetchDelivered
  <2> QED
    BY <1>0, <1>1, <1>4, <2>1, <2>2 DEF FetchDelivered, Costless, keys, Lists
<1>5. CASE FetchRetried
  BY <1>2, <1>5, IdleType DEF FetchRetried, Costless
<1>6. CASE FetchFailed
  <2>1. fetch' \in Fetches(done)
    BY <1>0, <1>6, IdleType DEF FetchFailed
  <2> QED
    BY <1>2, <1>6, <2>1 DEF FetchFailed, Costless
<1>7. CASE AsideServed
  <2>1. [aside EXCEPT !.fetch.phase = "answered", !.fetch.rows = rows, !.fetch.done = done]
            \in [cache : Entries(done), fetch : Fetches(done)]
    BY <1>0 DEF Lists, Fetches
  <2>2. [aside EXCEPT !.fetch = Idle] \in [cache : Entries(done), fetch : Fetches(done)]
    BY <1>0, IdleType DEF Lists
  <2> QED
    <3>1. aside' \in [cache : Entries(done), fetch : Fetches(done)]
      BY <1>7, <2>1, <2>2 DEF AsideServed
    <3>2. UNCHANGED <<page, server, calls, count, mount, local, ghosts>>
      BY <1>7 DEF AsideServed
    <3>4. cache' \in Entries(done) /\ fetch' \in Fetches(done) /\ filtered' \subseteq 0..visit
      BY <1>0, <1>7 DEF AsideServed, Lists
    <3>3. Costless
      BY <1>7 DEF AsideServed, Costless
    <3> QED
      BY <1>1, <3>1, <3>2, <3>3, <3>4
<1>8. CASE AsideDelivered
  <2>1. [got |-> TRUE, rows |-> aside.fetch.rows, done |-> aside.fetch.done] \in Entries(done)
    BY <1>0 DEF Fetches, Entries
  <2>2. aside' \in [cache : Entries(done), fetch : Fetches(done)]
    BY <1>8, <2>1, IdleType DEF AsideDelivered
  <2> QED
    BY <1>0, <1>1, <1>8, <2>2 DEF AsideDelivered, Costless, Lists
<1>9. CASE Turn
  <2>1. filtered' \subseteq 0..visit
    <3>1. visit \in 0..visit /\ filtered \subseteq 0..visit
      BY <1>0 DEF Lists
    <3>2. filtered' \in {filtered \ {visit}, filtered \cup {visit}}
      BY <1>9 DEF Turn
    <3> QED
      BY <3>1, <3>2
  <2>2. cache' \in Entries(done) /\ fetch' \in Fetches(done)
        /\ aside' \in [cache : Entries(done), fetch : Fetches(done)]
    BY <1>0, <1>9, SwapType DEF Turn
  <2>3. Costless /\ visit' = visit
    BY <1>9 DEF Turn, Costless, mount
  <2> QED
    BY <1>1, <1>9, <2>1, <2>2, <2>3 DEF Turn
<1> QED
  BY <1>3, <1>4, <1>5, <1>6, <1>7, <1>8, <1>9

\* A handler goes on, on any page but that of payments.
LEMMA ReturnedIsAnswer ==
  ASSUME page # "topup", NEW c \in calls, NEW reveals \in BOOLEAN, reveals => c.op = "create",
         NEW closes \in BOOLEAN, NEW revalidates \in BOOLEAN,
         Returned(c, closes, reveals, revalidates)
  PROVE  AnswerStep
BY DEF AnswerStep, Answering

LEMMA RefusedIsRefuse ==
  ASSUME NEW c \in calls, Refused(c), UNCHANGED left
  PROVE  RefuseStep
BY DEF RefuseStep, Costless

-------------------------------------------------------------------------------
(* The server's steps replace rows as Replaces says                         *)

\* The row after a request.
LEMMA AppliedType ==
  ASSUME NEW r \in Row, NEW body \in Row, NEW sends \in SUBSET Field
  PROVE  /\ Applied(r, body, sends) \in Row /\ Applied(r, body, sends).id = r.id
         /\ Applied(r, body, sends).notes = IF "notes" \in sends THEN body.notes ELSE r.notes
<1>1. DOMAIN r = {"id", "name", "status", "quota", "notes"}
  BY DEF Row
<1>2. Applied(r, body, sends) \in Row
  BY <1>1 DEF Row, Applied, Field
<1>3. Applied(r, body, sends).id = r.id
  BY <1>1 DEF Row, Applied, Field
<1>4. Applied(r, body, sends).notes = IF "notes" \in sends THEN body.notes ELSE r.notes
  BY <1>1 DEF Row, Applied, Field
<1> QED
  BY <1>2, <1>3, <1>4

\* A request is carried out and answered with the state it has, or its answer
\* is lost.
LEMMA ServedIsServe ==
  ASSUME Typed, NEW c \in calls, NEW gone, NEW new, NEW state \in {"ok", "error"},
         Served(c, gone, new, state), Replaces(c, gone, new, c.sends)
  PROVE  ServeStep
<1>1. c \in Call /\ c.sends \in SUBSET Field
  BY DEF Typed, Requests, Call
<1>2. PICK x \in {"ok", "error"} :
        calls' = (calls \ {c}) \cup {[c EXCEPT !.state = x]} /\ (left' = left \/ Spend("faults"))
  BY DEF Served, Reply, LoseAnswer
<1>3. PICK d \in Call : d = [c EXCEPT !.state = x]
  BY <1>1 DEF Call
<1>4. AnsweredAs(c, d)
  BY <1>1, <1>3 DEF AnsweredAs, Call
<1>5. Serving(c, gone, new, c.sends, d)
  BY <1>2, <1>3, <1>4 DEF Serving, Served
<1>6. gone \in SUBSET rows /\ new \in SUBSET Row
  BY DEF Replaces
<1> QED
  BY <1>1, <1>5, <1>6, Zenon DEF ServeStep

\* A row is added that has the next id.
LEMMA CreateReplaces ==
  ASSUME Typed, NEW c \in calls, NEW r \in Row, lastId + 1 \in Id, lastId' = lastId + 1,
         NEW sends
  PROVE  Replaces(c, {}, {[r EXCEPT !.id = lastId']}, sends)
<1>1. [r EXCEPT !.id = lastId'] \in Row /\ [r EXCEPT !.id = lastId'].id = lastId + 1
  BY DEF Row
<1> QED
  BY <1>1 DEF Replaces, Unique

\* Rows are removed, or none is concerned.
LEMMA DeleteReplaces ==
  ASSUME Typed, NEW c \in calls, NEW gone \in SUBSET rows, UNCHANGED lastId, NEW sends
  PROVE  Replaces(c, gone, {}, sends)
BY DEF Replaces, Unique, Typed, Table

\* Rows are written over.
LEMMA RewriteReplaces ==
  ASSUME Typed, NEW c \in calls, NEW old \in SUBSET rows, NEW new \in SUBSET Row,
         \A s \in new : \E r \in old : r.id = s.id, Unique(new), UNCHANGED lastId,
         NEW sends,
         \A f \in sends \ Chosen(c) : Forgiven(c.op, f) \/ c.body[f] # c.seen[f],
         \A r \in old, s \in new : r.id = s.id /\ r.notes # s.notes /\ s.notes = "" =>
            (c.op = "toggle" /\ page = "channels") \/ (c.op = "edit" /\ c.seen.notes = "")
  PROVE  Replaces(c, old, new, sends)
BY DEF Replaces, Typed, Table

\* What an update makes of the rows it is about.
Written(old, body, fields) == {Applied(r, body, fields) : r \in old}

LEMMA WrittenType ==
  ASSUME Typed, NEW old \in SUBSET rows, NEW body \in Row, NEW fields \in SUBSET Field
  PROVE  LET new == Written(old, body, fields) IN
         /\ new \in SUBSET Row /\ Unique(new) /\ \A s \in new : \E r \in old : r.id = s.id
         /\ \A r \in old, s \in new :
              r.id = s.id /\ r.notes # s.notes => "notes" \in fields /\ s.notes = body.notes
<1> DEFINE new == Written(old, body, fields)
<1>1. old \subseteq Row /\ \A r, q \in old : r.id = q.id => r = q
  BY DEF Typed, Table, Unique
<1>2. \A s \in new : \E r \in old : s = Applied(r, body, fields)
  BY DEF Written
<1> HIDE DEF new
<1>3. \A r \in old :
        /\ Applied(r, body, fields) \in Row /\ Applied(r, body, fields).id = r.id
        /\ Applied(r, body, fields).notes = IF "notes" \in fields THEN body.notes ELSE r.notes
  BY <1>1, AppliedType
<1>4. new \in SUBSET Row /\ \A s \in new : \E r \in old : r.id = s.id
  BY <1>2, <1>3
<1>5. Unique(new)
  BY <1>1, <1>2, <1>3 DEF Unique
<1>6. ASSUME NEW r \in old, NEW s \in new, r.id = s.id, r.notes # s.notes
      PROVE  "notes" \in fields /\ s.notes = body.notes
  <2>1. PICK q \in old : s = Applied(q, body, fields)
    BY <1>2
  <2>2. q = r
    BY <1>1, <1>3, <1>6, <2>1
  <2> QED
    BY <1>3, <1>6, <2>1, <2>2
<1> QED
  BY <1>4, <1>5, <1>6 DEF new

\* Requests send fields of rows.
LEMMA CallType ==
  ASSUME Typed, NEW c \in calls
  PROVE  /\ c.sends \in SUBSET Field /\ c.seen \in Row /\ c.body \in Row /\ c.op \in Ops
         /\ Intent(c.op, c.seen, c.body, c.sends)
BY DEF Typed, Requests, Call

\* The updates of all pages but that of upstreams; part of the fields may be
\* written by the save of a section that fails.
LEMMA UpdateReplaces ==
  ASSUME Typed, NEW c \in calls, NEW old \in SUBSET rows, UNCHANGED lastId,
         NEW fields \in SUBSET c.sends,
         \/ c.op = "toggle" /\ page \in {"tokens", "users", "models"}
         \/ c.op \in {"edit", "bulk", "recover", "refresh", "save"}
  PROVE  Replaces(c, old, Written(old, c.body, fields), fields)
<1> DEFINE new == Written(old, c.body, fields)
<1>0. /\ c.sends \in SUBSET Field /\ c.seen \in Row /\ c.body \in Row /\ c.op \in Ops
      /\ Intent(c.op, c.seen, c.body, c.sends)
  BY CallType
<1>2. /\ new \in SUBSET Row /\ Unique(new) /\ \A s \in new : \E r \in old : r.id = s.id
      /\ \A r \in old, s \in new :
           r.id = s.id /\ r.notes # s.notes => "notes" \in fields /\ s.notes = c.body.notes
  <2>1. fields \in SUBSET Field
    BY <1>0
  <2> QED
    BY <1>0, <2>1, WrittenType
<1> HIDE DEF new
<1>3. \A f \in fields \ Chosen(c) : Forgiven(c.op, f)
  BY <1>0 DEF Forgiven, Chosen, Intent
<1>4. "notes" \in fields /\ c.body.notes = "" => c.op = "edit" /\ c.seen.notes = ""
  BY <1>0 DEF Intent, ModelFields, SectionKeys
<1>5. Replaces(c, old, new, fields)
  BY <1>2, <1>3, <1>4, RewriteReplaces
<1> QED
  BY <1>5 DEF new

\* The update of an upstream writes the notes in any case.
UpstreamBody(c) == IF "notes" \in c.sends THEN c.body ELSE [c.body EXCEPT !.notes = ""]

LEMMA UpstreamReplaces ==
  ASSUME Typed, NEW c \in calls, NEW old \in SUBSET rows, UNCHANGED lastId,
         c.op \in {"toggle", "edit"}, page = "channels"
  PROVE  Replaces(c, old, Written(old, UpstreamBody(c), c.sends \cup {"notes"}), c.sends)
<1> DEFINE body == UpstreamBody(c)
           new == Written(old, body, c.sends \cup {"notes"})
<1>0. /\ c.sends \in SUBSET Field /\ c.seen \in Row /\ c.body \in Row /\ c.op \in Ops
      /\ Intent(c.op, c.seen, c.body, c.sends)
  BY CallType
<1>1. body \in Row /\ c.sends \cup {"notes"} \in SUBSET Field
  BY <1>0 DEF Row, Notes, Field, UpstreamBody
<1>2. c.op = "edit" => body = c.body
  BY <1>0 DEF Intent, UpstreamBody
<1> HIDE DEF body
<1>3. /\ new \in SUBSET Row /\ Unique(new) /\ \A s \in new : \E r \in old : r.id = s.id
      /\ \A r \in old, s \in new : r.id = s.id /\ r.notes # s.notes => s.notes = body.notes
  BY <1>1, WrittenType
<1> HIDE DEF new
<1>4. \A f \in c.sends \ Chosen(c) : Forgiven(c.op, f)
  BY <1>0 DEF Forgiven, Chosen, Intent
<1>5. c.op = "edit" /\ body.notes = "" => c.seen.notes = ""
  BY <1>0, <1>2 DEF Intent
<1>6. Replaces(c, old, new, c.sends)
  BY <1>3, <1>4, <1>5, RewriteReplaces
<1> QED
  BY <1>6 DEF new, body

\* A status that the server chooses itself.
LEMMA StatusReplaces ==
  ASSUME Typed, NEW c \in calls, NEW old \in SUBSET rows, UNCHANGED lastId, NEW x \in Status
  PROVE  Replaces(c, old, {[r EXCEPT !.status = x] : r \in old}, {})
<1>1. PICK new : new = {[r EXCEPT !.status = x] : r \in old}
  OBVIOUS
<1>2. old \subseteq Row /\ \A r, q \in old : r.id = q.id => r = q
  BY DEF Typed, Table, Unique
<1>3. \A s \in new : \E r \in old : s = [r EXCEPT !.status = x]
  BY <1>1
<1>4. \A r \in old : /\ [r EXCEPT !.status = x] \in Row /\ [r EXCEPT !.status = x].id = r.id
                     /\ [r EXCEPT !.status = x].notes = r.notes
  BY <1>2, FlipType
<1>5. new \in SUBSET Row /\ \A s \in new : \E r \in old : r.id = s.id
  BY <1>3, <1>4
<1>6. Unique(new)
  <2> SUFFICES ASSUME NEW s \in new, NEW t \in new, s.id = t.id PROVE s = t
    BY DEF Unique
  <2>1. PICK r \in old : s = [r EXCEPT !.status = x]
    BY <1>3
  <2>2. PICK q \in old : t = [q EXCEPT !.status = x]
    BY <1>3
  <2> QED
    BY <1>2, <1>4, <2>1, <2>2, Zenon
<1>7. ASSUME NEW r \in old, NEW s \in new, r.id = s.id
      PROVE  r.notes = s.notes
  <2>1. PICK q \in old : s = [q EXCEPT !.status = x]
    BY <1>3
  <2> QED
    BY <1>2, <1>4, <1>7, <2>1, Zenon
<1>8. Replaces(c, old, new, {})
  BY <1>5, <1>6, <1>7, RewriteReplaces
<1> QED
  BY <1>1, <1>8

\* The import of the built-in models: none of the values it sends is the one
\* that was shown.
Priced(c) ==
    IF "quota" \in c.sends THEN {[r EXCEPT !.quota = c.body.quota] : r \in rows} ELSE rows

Added(c) == IF "name" \in c.sends /\ lastId + 1 \in Id THEN {lastId + 1} ELSE {}

LEMMA SeedReplaces ==
  ASSUME Typed, NEW c \in calls, c.op = "seed", lastId' = lastId + Cardinality(Added(c))
  PROVE  Replaces(c, rows, Priced(c) \cup {[c.body EXCEPT !.id = i] : i \in Added(c)}, c.sends)
<1> DEFINE priced == Priced(c)
           added == Added(c)
<1>0. /\ c.sends \in SUBSET {"quota", "name"} /\ c.body \in Row /\ c.seen = Stored
      /\ c.body = [NewModel EXCEPT !.quota = BuiltInPrice]
  BY CallType DEF Intent
<1>1. rows \in SUBSET Row /\ Unique(rows) /\ lastId \in Nat /\ lastId \in Id
      /\ \A r \in rows : r.id \in Nat /\ r.id <= lastId
  BY IdType DEF Typed, Table, Row
<1>2. priced \in SUBSET Row /\ Unique(priced)
      /\ \A s \in priced : \E r \in rows : r.id = s.id /\ r.notes = s.notes
  <2>1. CASE priced = rows
    BY <1>1, <2>1
  <2>2. CASE priced = {[r EXCEPT !.quota = c.body.quota] : r \in rows}
    <3>1. \A s \in priced : \E r \in rows : s = [r EXCEPT !.quota = c.body.quota]
      BY <2>2
    <3>2. c.body.quota \in 0..5
      BY <1>0 DEF Row
    <3>3. \A r \in rows : /\ [r EXCEPT !.quota = c.body.quota] \in Row
                          /\ [r EXCEPT !.quota = c.body.quota].id = r.id
                          /\ [r EXCEPT !.quota = c.body.quota].notes = r.notes
      BY <1>1, <3>2 DEF Row
    <3> QED
      <4>1. /\ priced \in SUBSET Row
            /\ \A s \in priced : \E r \in rows : r.id = s.id /\ r.notes = s.notes
        BY <3>1, <3>3
      <4>2. ASSUME NEW s \in priced, NEW t \in priced, s.id = t.id PROVE s = t
        <5>1. PICK r \in rows : s = [r EXCEPT !.quota = c.body.quota]
          BY <3>1
        <5>2. PICK q \in rows : t = [q EXCEPT !.quota = c.body.quota]
          BY <3>1
        <5> QED
          BY <1>1, <3>3, <4>2, <5>1, <5>2, Zenon DEF Unique
      <4> QED
        BY <4>1, <4>2 DEF Unique
  <2> QED
    BY <2>1, <2>2 DEF Priced
<1>3. \A f \in c.sends : c.body[f] # c.seen[f]
  <2>1. NewModel \in Row /\ Stored \in Row
    BY NewType, StoredType
  <2>2. c.body.name = "typed" /\ c.body.quota = 3
    BY <1>0, <2>1 DEF NewModel, Row, BuiltInPrice
  <2>3. c.seen.name = "stored" /\ c.seen.quota = 2
    BY <1>0 DEF Stored
  <2> QED
    <3>1. c.body["name"] # c.seen["name"] /\ c.body["quota"] # c.seen["quota"]
      BY <2>2, <2>3
    <3> QED
      BY <1>0, <3>1
<1>4. CASE added = {}
  <2>1. lastId' = lastId
    BY <1>1, <1>4, FS_EmptySet
  <2>2. priced \cup {[c.body EXCEPT !.id = i] : i \in added} = priced
    BY <1>4
  <2>3. \A r \in rows, s \in priced : r.id = s.id => r.notes = s.notes
    BY <1>1, <1>2 DEF Unique
  <2>4. Replaces(c, rows, priced, c.sends)
    BY <1>1, <1>2, <1>3, <2>1, <2>3, RewriteReplaces
  <2> QED
    BY <2>2, <2>4
<1>5. CASE added = {lastId + 1} /\ lastId + 1 \in Id
  <2>1. lastId' = lastId + 1
    BY <1>1, <1>5, FS_Singleton
  <2>2. PICK s \in Row : s = [c.body EXCEPT !.id = lastId + 1]
    BY <1>0, <1>5 DEF Row
  <2>3. s.id = lastId + 1
    BY <1>0, <2>2 DEF Row
  <2>4. PICK new : new = priced \cup {s}
    OBVIOUS
  <2>5. new = priced \cup {[c.body EXCEPT !.id = i] : i \in added}
    BY <1>5, <2>2, <2>4
  <2>6. \A r \in rows : r.id # s.id
    BY <1>1, <2>3, Beyond, Zenon
  <2>7. \A r \in priced : r.id # s.id
    BY <1>2, <2>6
  <2>8. new \subseteq Row /\ Unique(new)
    BY <1>2, <2>4, <2>7 DEF Unique
  <2>9. \A r \in rows, t \in new : r.id = t.id => r.notes = t.notes
    BY <1>1, <1>2, <2>4, <2>6 DEF Unique
  <2>10. \A t \in new : (\E r \in rows : r.id = t.id) \/ (t.id = lastId + 1 /\ lastId' = lastId + 1)
    BY <1>2, <2>1, <2>3, <2>4
  <2>11. Replaces(c, rows, new, c.sends)
    BY <1>3, <1>5, <2>1, <2>8, <2>9, <2>10 DEF Replaces
  <2> QED
    BY <2>5, <2>11
<1> QED
  BY <1>4, <1>5 DEF Added

-------------------------------------------------------------------------------
(* The server's handlers are steps of this kind                             *)

LEMMA WriteIsServe ==
  ASSUME NEW c \in calls, NEW gone, NEW new, NEW sends \in SUBSET Field, NEW d \in Call,
         Write(c, gone, new, sends), AnsweredAs(c, d), calls' = (calls \ {c}) \cup {d},
         left' = left \/ Spend("faults"), Replaces(c, gone, new, sends)
  PROVE  ServeStep
<1>1. gone \in SUBSET rows /\ new \in SUBSET Row
  BY DEF Replaces
<1>2. Serving(c, gone, new, sends, d)
  BY DEF Serving
<1> QED
  BY <1>1, <1>2, Zenon DEF ServeStep

LEMMA UpdateIsServe ==
  ASSUME Typed, NEW c \in calls, NEW old \in SUBSET rows, UNCHANGED lastId,
         \/ c.op = "toggle" /\ page \in {"tokens", "users", "models"}
         \/ c.op \in {"edit", "bulk", "recover", "refresh", "save"},
         Served(c, old, {Applied(r, c.body, c.sends) : r \in old}, "ok")
  PROVE  ServeStep
<1>1. Replaces(c, old, Written(old, c.body, c.sends), c.sends)
  BY UpdateReplaces
<1>2. Served(c, old, Written(old, c.body, c.sends), "ok")
  BY DEF Written
<1> QED
  BY <1>1, <1>2, ServedIsServe

LEMMA CreateIsServe ==
  ASSUME Typed, NEW c \in calls, lastId + 1 \in Id, lastId' = lastId + 1,
         Served(c, {}, {[c.body EXCEPT !.id = lastId']}, "ok")
  PROVE  ServeStep
<1>1. c.body \in Row
  BY CallType
<1>2. Replaces(c, {}, {[c.body EXCEPT !.id = lastId']}, c.sends)
  BY <1>1, CreateReplaces
<1> QED
  BY <1>2, ServedIsServe

LEMMA DeleteIsServe ==
  ASSUME Typed, NEW c \in calls, NEW gone \in SUBSET rows, UNCHANGED lastId,
         Served(c, gone, {}, "ok")
  PROVE  ServeStep
<1>1. Replaces(c, gone, {}, c.sends)
  BY DeleteReplaces
<1> QED
  BY <1>1, ServedIsServe

\* The answer about an order holds the order.
LEMMA OrderIsServe ==
  ASSUME Typed, NEW c \in calls, c.op \in {"order", "simulate"}, NEW gone, NEW r \in Row,
         Write(c, gone, {r}, {}), AnsweredWith(c, r), Replaces(c, gone, {r}, {})
  PROVE  ServeStep
<1>1. c \in Call
  BY DEF Typed, Requests
<1>2. CASE /\ calls' = (calls \ {c}) \cup {[c EXCEPT !.state = "ok", !.body = r]}
           /\ UNCHANGED left
  <2>1. PICK d \in Call : d = [c EXCEPT !.state = "ok", !.body = r]
    BY <1>1 DEF Call
  <2>2. AnsweredAs(c, d)
    BY <1>1, <2>1 DEF AnsweredAs, Call
  <2> QED
    BY <1>2, <2>1, <2>2, WriteIsServe
<1>3. CASE LoseAnswer(c)
  <2>1. PICK d \in Call : d = [c EXCEPT !.state = "error"]
    BY <1>1 DEF Call
  <2>2. AnsweredAs(c, d)
    BY <1>1, <2>1 DEF AnsweredAs, Call
  <2>3. calls' = (calls \ {c}) \cup {d} /\ Spend("faults")
    BY <1>3, <2>1 DEF LoseAnswer, Reply
  <2> QED
    BY <2>1, <2>2, <2>3, WriteIsServe
<1> QED
  BY <1>2, <1>3 DEF AnsweredWith

-------------------------------------------------------------------------------
(* Page by page                                                             *)

LEMMA TokensSteps ==
  ASSUME Typed, TokensNext
  PROVE  Step
<1>0. page = "tokens" /\ page # "topup" /\ Shown \subseteq Row
  BY ShownType DEF TokensNext, Typed
<1>1. CASE TokensToggle
  <2>1. PICK t \in Shown : Click("toggle", t, [t EXCEPT !.status = Flip(@)], {"status"})
    BY <1>1 DEF TokensToggle
  <2> QED
    BY <1>0, <2>1, ToggleIsAsk DEF Step, Field
<1>2. CASE TokensDelete
  BY <1>0, <1>2, DeleteIsAsk DEF TokensDelete, Step
<1>3. CASE TokensCreate
  BY <1>0, <1>3, NewType, CreateIsAsk DEF TokensCreate, TokenPayload, Field, Step
<1>4. CASE TokensEdit
  <2>0. PICK t \in editing : \E f \in TokenForm(t) :
             Submit("edit", t, f, TokenPayload \cup {"status"})
    BY <1>4 DEF TokensEdit
  <2>1. PICK f \in TokenForm(t) : Submit("edit", t, f, TokenPayload \cup {"status"})
    BY <2>0
  <2>2. TokenPayload \in SUBSET Field /\ TokenPayload \cup {"status"} \in SUBSET Field
    BY DEF TokenPayload, Field
  <2> QED
    BY <1>0, <2>1, <2>2, EditIsAsk DEF TokenForm, Step
<1>5. CASE TokensDialogs \/ TokensTable
  BY <1>0, <1>5, OpenIsDialog DEF TokensDialogs, TokensTable, Step
<1>6. CASE TokensAnswer
  <2>1. PICK c \in calls : Returned(c, TRUE, c.op = "create", c.state = "ok")
    BY <1>6 DEF TokensAnswer
  <2> QED
    BY <1>0, <2>1, ReturnedIsAnswer DEF Step
<1>7. ASSUME NEW c \in calls, TokensServe(c) PROVE Step
  <2> DEFINE old == {r \in rows : r.id \in c.ids}
  <2>1. CASE /\ c.op = "create" /\ lastId + 1 \in Id /\ lastId' = lastId + 1
             /\ Served(c, {}, {[c.body EXCEPT !.id = lastId']}, "ok")
    BY <2>1, CreateIsServe DEF Step
  <2>2. CASE /\ c.op \in {"toggle", "edit"}
             /\ Served(c, old, {Applied(r, c.body, c.sends) : r \in old}, "ok")
             /\ UNCHANGED lastId
    BY <1>0, <2>2, UpdateIsServe DEF Step
  <2>3. CASE Served(c, old, {}, "ok") /\ UNCHANGED lastId
    BY <2>3, DeleteIsServe DEF Step
  <2>4. CASE Refused(c) /\ UNCHANGED left
    BY <2>4, RefusedIsRefuse DEF Step
  <2> QED
    BY <1>7, <2>1, <2>2, <2>3, <2>4 DEF TokensServe
<1> QED
  BY <1>1, <1>2, <1>3, <1>4, <1>5, <1>6, <1>7 DEF TokensNext

LEMMA UsersSteps ==
  ASSUME Typed, UsersNext
  PROVE  Step
<1>0. page = "users" /\ page # "topup" /\ Shown \subseteq Row
  BY ShownType DEF UsersNext, Typed
<1>1. CASE UsersToggle
  <2>1. PICK u \in Shown : Click("toggle", u, [u EXCEPT !.status = Flip(@)], {"status"})
    BY <1>1 DEF UsersToggle
  <2> QED
    BY <1>0, <2>1, ToggleIsAsk DEF Step, Field
<1>2. CASE UsersCreate
  BY <1>0, <1>2, NewType, CreateIsAsk DEF UsersCreate, Field, Step
<1>3. CASE UsersEdit
  <2>0. PICK u \in editing : \E f \in UserForm(u) :
             Submit("edit", u, f, {"name", "quota", "status"})
    BY <1>3 DEF UsersEdit
  <2>1. PICK f \in UserForm(u) : Submit("edit", u, f, {"name", "quota", "status"})
    BY <2>0
  <2>2. {"name", "quota", "status"} \in SUBSET Field
    BY DEF Field
  <2> QED
    BY <1>0, <2>1, <2>2, EditIsAsk DEF UserForm, Step
<1>4. CASE UsersCreateDialog \/ CloseEdit \/ \E u \in Shown : OpenEdit(u)
  BY <1>0, <1>4, OpenIsDialog DEF UsersCreateDialog, Step
<1>5. CASE Turn
  BY <1>5, FetchIsList DEF Step
<1>6. CASE UsersAnswer
  <2>1. PICK c \in calls : Returned(c, TRUE, FALSE, c.state = "ok")
    BY <1>6 DEF UsersAnswer
  <2> QED
    BY <1>0, <2>1, ReturnedIsAnswer DEF Step
<1>7. ASSUME NEW c \in calls, UpdateUser(c) PROVE Step
  <2> DEFINE old == {r \in rows : r.id \in c.ids}
  <2>1. CASE Served(c, old, {Applied(r, c.body, c.sends) : r \in old}, "ok")
    BY <1>0, <1>7, <2>1, UpdateIsServe DEF UpdateUser, Step
  <2>2. CASE Refused(c) /\ UNCHANGED left
    BY <2>2, RefusedIsRefuse DEF Step
  <2> QED
    BY <1>7, <2>1, <2>2 DEF UpdateUser
<1>8. ASSUME NEW c \in calls, CreateUser(c) PROVE Step
  BY <1>8, CreateIsServe DEF CreateUser, Step
<1> QED
  BY <1>1, <1>2, <1>3, <1>4, <1>5, <1>6, <1>7, <1>8 DEF UsersNext, UsersTable

LEMMA ModelsSteps ==
  ASSUME Typed, ModelsNext
  PROVE  Step
<1>0. page = "models" /\ page # "topup" /\ Shown \subseteq Row /\ ModelFields \in SUBSET Field
  BY ShownType DEF ModelsNext, Typed, ModelFields, Field
<1>1. CASE ModelsToggle
  <2>1. PICK m \in Shown : Click("toggle", m, [m EXCEPT !.status = Flip(@)], ModelFields)
    BY <1>1 DEF ModelsToggle
  <2> QED
    BY <1>0, <2>1, ToggleIsAsk DEF Step
<1>2. CASE ModelsDelete
  BY <1>0, <1>2, DeleteIsAsk DEF ModelsDelete, Step
<1>3. CASE ModelsSubmit
  <2>1. CASE Submit("create", NewModel, NewModel, ModelFields)
    BY <1>0, <2>1, NewType, CreateIsAsk DEF Step
  <2>2. ASSUME NEW m \in editing, NEW f \in ModelForm(m), Submit("edit", m, f, ModelFields)
        PROVE  Step
    BY <1>0, <2>2, EditIsAsk DEF ModelForm, Step
  <2> QED
    BY <1>3, <2>1, <2>2 DEF ModelsSubmit
<1>4. CASE ModelsSeed
  <2>1. PICK sends \in SUBSET {"quota", "name"} :
             ClickBusy("seed", Stored, [NewModel EXCEPT !.quota = BuiltInPrice], sends)
    BY <1>4 DEF ModelsSeed
  <2>2. sends \in SUBSET Field
    BY DEF Field
  <2>3. Intent("seed", Stored, [NewModel EXCEPT !.quota = BuiltInPrice], sends)
    BY DEF Intent
  <2> QED
    BY <2>1, <2>2, <2>3, StoredType, NewType, ClickBusyIsAsk DEF Step
<1>5. CASE ModelsDialogs \/ ModelsTable
  BY <1>0, <1>5, OpenIsDialog DEF ModelsDialogs, ModelsTable, Step
<1>6. CASE ModelsAnswer
  <2>1. PICK c \in calls : Returned(c, TRUE, FALSE, c.state = "ok")
    BY <1>6 DEF ModelsAnswer
  <2> QED
    BY <1>0, <2>1, ReturnedIsAnswer DEF Step
<1>7. ASSUME NEW c \in calls, UpdateModel(c) PROVE Step
  <2> DEFINE old == {r \in rows : r.id \in c.ids}
  <2>1. CASE Served(c, old, {Applied(r, c.body, c.sends) : r \in old}, "ok")
    BY <1>0, <1>7, <2>1, UpdateIsServe DEF UpdateModel, Step
  <2>2. CASE Refused(c) /\ UNCHANGED left
    BY <2>2, RefusedIsRefuse DEF Step
  <2> QED
    BY <1>7, <2>1, <2>2 DEF UpdateModel
<1>8. ASSUME NEW c \in calls, CreateModel(c) PROVE Step
  BY <1>8, CreateIsServe DEF CreateModel, Step
<1>9. ASSUME NEW c \in calls, DeleteModel(c) PROVE Step
  BY <1>9, DeleteIsServe DEF DeleteModel, Step
<1>10. ASSUME NEW c \in calls, SeedModels(c) PROVE Step
  <2> DEFINE new == Priced(c) \cup {[c.body EXCEPT !.id = i] : i \in Added(c)}
  <2>1. Served(c, rows, new, "ok")
    BY <1>10 DEF SeedModels, Priced, Added
  <2>2. Replaces(c, rows, new, c.sends)
    BY <1>10, SeedReplaces DEF SeedModels, Added
  <2> HIDE DEF new
  <2> QED
    BY <2>1, <2>2, ServedIsServe DEF Step
<1> QED
  BY <1>1, <1>2, <1>3, <1>4, <1>5, <1>6, <1>7, <1>8, <1>9, <1>10 DEF ModelsNext

LEMMA NoticeSteps ==
  ASSUME Typed, GroupsNext \/ AnnouncementsNext \/ CodesNext
  PROVE  Step
<1>0. page # "topup" /\ page # "channels" /\ Shown \subseteq Row
  BY ShownType DEF GroupsNext, AnnouncementsNext, CodesNext, Typed
<1>1. ASSUME NEW r \in Shown, Click("delete", r, r, {}) PROVE Step
  BY <1>0, <1>1, DeleteIsAsk DEF Step
<1>2. ASSUME NEW sends \in SUBSET Field, Submit("create", NewRow, NewRow, sends) PROVE Step
  BY <1>0, <1>2, NewType, CreateIsAsk DEF Step
<1>3. ASSUME NEW sends \in SUBSET Field, NEW r \in editing, NEW f \in Form(r, sends),
             Submit("edit", r, f, sends)
      PROVE  Step
  BY <1>0, <1>3, EditIsAsk DEF Step
<1>4. CASE Dialogs \/ CodesPage
  BY <1>0, <1>4, OpenIsDialog DEF Dialogs, CodesPage, Step
<1>5. CASE CodesFilter
  BY <1>5, FetchIsList DEF CodesFilter, Step
<1>6. ASSUME NEW c \in calls, NEW reveals \in BOOLEAN, reveals => c.op = "create",
             Returned(c, TRUE, reveals, c.state = "ok")
      PROVE  Step
  BY <1>0, <1>6, ReturnedIsAnswer DEF Step
<1>7. ASSUME NEW c \in calls, Update(c) PROVE Step
  <2> DEFINE old == {r \in rows : r.id \in c.ids}
  <2>1. CASE Served(c, old, {Applied(r, c.body, c.sends) : r \in old}, "ok")
    BY <1>0, <1>7, <2>1, UpdateIsServe DEF Update, Step
  <2>2. CASE Refused(c) /\ UNCHANGED left
    BY <2>2, RefusedIsRefuse DEF Step
  <2> QED
    BY <1>7, <2>1, <2>2 DEF Update
<1>8. ASSUME NEW c \in calls, Create(c) PROVE Step
  BY <1>8, CreateIsServe DEF Create, Step
<1>9. ASSUME NEW c \in calls, Delete(c) \/ DeleteGroup(c) PROVE Step
  BY <1>9, DeleteIsServe DEF Delete, DeleteGroup, Step
<1>10. {"name", "quota"} \in SUBSET Field /\ {"name", "status"} \in SUBSET Field
  BY DEF Field
<1>11. GroupsSubmit \/ AnnouncementsSubmit => Step
  BY <1>2, <1>3, <1>10 DEF GroupsSubmit, AnnouncementsSubmit, GroupForm, AnnouncementForm
<1>12. GroupsDelete \/ AnnouncementsDelete \/ CodesDelete => Step
  BY <1>1 DEF GroupsDelete, AnnouncementsDelete, CodesDelete
<1>13. Answered \/ CodesCreate => Step
  BY <1>2, <1>6, <1>10 DEF Answered, CodesCreate
<1> QED
  BY <1>4, <1>5, <1>7, <1>8, <1>9, <1>11, <1>12, <1>13 DEF GroupsNext, AnnouncementsNext,
     CodesNext, GroupsPage, AnnouncementsPage

\* The server's handlers that the page of upstreams and the account panel share.
LEMMA UpstreamSteps ==
  ASSUME Typed, NEW c \in calls,
         CreateUpstream(c) \/ DeleteUpstream(c) \/ CheckUpstream(c)
  PROVE  Step
<1> DEFINE old == {r \in rows : r.id \in c.ids}
<1>1. CASE CreateUpstream(c)
  BY <1>1, CreateIsServe DEF CreateUpstream, Step
<1>2. CASE DeleteUpstream(c)
  BY <1>2, DeleteIsServe DEF DeleteUpstream, Step
<1>3. ASSUME CheckUpstream(c), NEW x \in {"on", "off"}, NEW state \in {"ok", "error"},
             Served(c, old, {[r EXCEPT !.status = x] : r \in old}, state)
      PROVE  Step
  <2>1. UNCHANGED lastId /\ x \in Status /\ c.sends = {}
    BY <1>3, CallType DEF CheckUpstream, Status, Intent
  <2>2. Replaces(c, old, {[r EXCEPT !.status = x] : r \in old}, {})
    BY <2>1, StatusReplaces
  <2>3. Replaces(c, old, {[r EXCEPT !.status = x] : r \in old}, c.sends)
    BY <2>1, <2>2
  <2> QED
    BY <1>3, <2>3, ServedIsServe DEF Step
<1>4. CASE Refused(c) /\ UNCHANGED left
  BY <1>4, RefusedIsRefuse DEF Step
<1> QED
  BY <1>1, <1>2, <1>3, <1>4 DEF CheckUpstream

LEMMA ChannelsSteps ==
  ASSUME Typed, ChannelsNext
  PROVE  Step
<1>0. page = "channels" /\ page # "topup" /\ Shown \subseteq Row /\ Full \in SUBSET Field
      /\ "notes" \in Full
  BY ShownType DEF ChannelsNext, Typed, Full, Field
<1>1. CASE ToggleSelected
  <2>1. PICK u \in Shown : selected' = IF u.id \in selected THEN selected \ {u.id}
                                                             ELSE selected \cup {u.id}
    BY <1>1 DEF ToggleSelected
  <2>2. selected' \subseteq Id
    BY <1>0, <2>1 DEF Row, Typed, Dialog
  <2>3. DialogStep
    BY <1>0, <1>1, <2>2 DEF ToggleSelected, DialogStep, Typed, Dialog
  <2> QED
    BY <2>3 DEF Step
<1>2. CASE OnBulkStatus
  <2>1. PICK s \in Status :
             Send("bulk", Stored, selected, [Stored EXCEPT !.status = s], {"status"})
    BY <1>2 DEF OnBulkStatus
  <2>2. [Stored EXCEPT !.status = s] \in Row /\ Stored \in Row /\ selected \in SUBSET Id
    BY StoredType, FlipType DEF Typed, Dialog
  <2>3. Intent("bulk", Stored, [Stored EXCEPT !.status = s], {"status"})
    BY DEF Intent
  <2>4. "bulk" \in Ops /\ {"status"} \in SUBSET Field /\ FlagOf("bulk") = "bulk"
        /\ "bulk" \in Flags /\ BulkBusy \in Id
    BY IdType DEF Ops, Field, FlagOf, Flags, BulkBusy
  <2>5. Asking("bulk", Stored, selected, [Stored EXCEPT !.status = s], {"status"})
    BY <1>2, <2>1, <2>3, <2>4 DEF OnBulkStatus, Asking
  <2> QED
    BY <2>2, <2>4, <2>5, AskingIsAsk DEF Step
<1>3. CASE ToggleUpstream
  <2>1. PICK u \in Shown : Click("toggle", u, [u EXCEPT !.status = Flip(@)], {"name", "status"})
    BY <1>3 DEF ToggleUpstream
  <2> QED
    BY <1>0, <2>1, ToggleIsAsk DEF Step, Field
<1>4. CASE DeleteUpstreamRow
  BY <1>0, <1>4, DeleteIsAsk DEF DeleteUpstreamRow, Step
<1>5. CASE CreateUpstreamRow
  BY <1>0, <1>5, NewType, CreateIsAsk DEF CreateUpstreamRow, Step
<1>6. CASE EditUpstream
  BY <1>0, <1>6, EditIsAsk DEF EditUpstream, UpstreamForm, Step
<1>7. CASE CheckUpstreamRow \/ SyncModels
  BY <1>0, <1>7, WorkIsAsk DEF CheckUpstreamRow, SyncModels, Step
<1>8. CASE ChannelsDialogs
  BY <1>0, <1>8, OpenIsDialog DEF ChannelsDialogs, Step
<1>9. CASE ChannelsAnswer
  <2>1. PICK c \in calls :
          Returned(c, TRUE, FALSE, c.op = "check" \/ (c.state = "ok" /\ c.op # "sync"))
    BY <1>9 DEF ChannelsAnswer
  <2> QED
    BY <1>0, <2>1, ReturnedIsAnswer DEF Step
<1>10. ASSUME NEW c \in calls, UpdateUpstream(c) PROVE Step
  <2> DEFINE old == {r \in rows : r.id \in c.ids}
             new == Written(old, UpstreamBody(c), c.sends \cup {"notes"})
  <2>1. CASE Served(c, old, new, "ok")
    <3>1. Replaces(c, old, new, c.sends)
      BY <1>0, <1>10, UpstreamReplaces DEF UpdateUpstream
    <3> HIDE DEF new
    <3> QED
      BY <2>1, <3>1, ServedIsServe DEF Step
  <2>2. CASE Refused(c) /\ UNCHANGED left
    BY <2>2, RefusedIsRefuse DEF Step
  <2> QED
    BY <1>10, <2>1, <2>2 DEF UpdateUpstream, Written, UpstreamBody
<1>11. ASSUME NEW c \in calls, BulkUpdateUpstreams(c) PROVE Step
  BY <1>11, UpdateIsServe DEF BulkUpdateUpstreams, Step
<1>12. ASSUME NEW c \in calls, SyncUpstreamModels(c) PROVE Step
  <2>1. CASE Served(c, {}, {}, "ok")
    BY <1>12, <2>1, DeleteIsServe DEF SyncUpstreamModels, Step
  <2>2. CASE Refused(c) /\ UNCHANGED left
    BY <2>2, RefusedIsRefuse DEF Step
  <2> QED
    BY <1>12, <2>1, <2>2 DEF SyncUpstreamModels
<1> QED
  BY <1>1, <1>2, <1>3, <1>4, <1>5, <1>6, <1>7, <1>8, <1>9, <1>10, <1>11, <1>12, UpstreamSteps
  DEF ChannelsNext

LEMMA AccountsSteps ==
  ASSUME Typed, AccountsNext
  PROVE  Step
<1>0. page = "accounts" /\ page # "topup" /\ page # "channels" /\ Shown \subseteq Row
      /\ Full \in SUBSET Field
  BY ShownType DEF AccountsNext, Typed, Full, Field
<1>1. CASE OnAccountSubmit
  <2>1. CASE Submit("create", NewUpstream, NewUpstream, Full)
    BY <1>0, <2>1, NewType, CreateIsAsk DEF Step
  <2>2. ASSUME NEW a \in editing, NEW f \in UpstreamAccountForm(a), Submit("edit", a, f, Full)
        PROVE  Step
    BY <1>0, <2>2, EditIsAsk DEF UpstreamAccountForm, Step
  <2> QED
    BY <1>1, <2>1, <2>2 DEF OnAccountSubmit
<1>2. CASE OnAccountDelete
  BY <1>0, <1>2, DeleteIsAsk DEF OnAccountDelete, Step
<1>3. CASE OnAccountCheck \/ OnOAuthRefresh \/ OnOAuthStart
  BY <1>0, <1>3, WorkIsAsk DEF OnAccountCheck, OnOAuthRefresh, OnOAuthStart, Step
<1>4. CASE OnAccountRecover
  <2>1. PICK a \in Shown : Click("recover", a, [a EXCEPT !.status = "on"], {"status"})
    BY <1>4 DEF OnAccountRecover
  <2>2. [a EXCEPT !.status = "on"] \in Row /\ a \in Row /\ {"status"} \in SUBSET Field
    BY <1>0, FlipType DEF Status, Field
  <2>3. Intent("recover", a, [a EXCEPT !.status = "on"], {"status"})
    BY DEF Intent
  <2> QED
    BY <2>1, <2>2, <2>3, ClickIsAsk DEF Step
<1>5. CASE AccountPanel \/ AccountForms
  BY <1>0, <1>5, OpenIsDialog DEF AccountPanel, AccountForms, Step
<1>6. CASE AccountsAnswer
  <2>1. PICK c \in calls : Returned(c, TRUE, FALSE, c.state = "ok" /\ c.op # "authorize")
    BY <1>6 DEF AccountsAnswer
  <2> QED
    BY <1>0, <2>1, ReturnedIsAnswer DEF Step
<1>7. ASSUME NEW c \in calls, UpdateAccount(c) PROVE Step
  <2> DEFINE old == {r \in rows : r.id \in c.ids}
  <2>1. CASE Served(c, old, {Applied(r, c.body, c.sends) : r \in old}, "ok")
    BY <1>7, <2>1, UpdateIsServe DEF UpdateAccount, Step
  <2>2. CASE Refused(c) /\ UNCHANGED left
    BY <2>2, RefusedIsRefuse DEF Step
  <2> QED
    BY <1>7, <2>1, <2>2 DEF UpdateAccount
<1>8. ASSUME NEW c \in calls, OAuthStart(c) PROVE Step
  <2>1. CASE Served(c, {}, {}, "ok")
    BY <1>8, <2>1, DeleteIsServe DEF OAuthStart, Step
  <2>2. CASE Refused(c) /\ UNCHANGED left
    BY <2>2, RefusedIsRefuse DEF Step
  <2> QED
    BY <1>8, <2>1, <2>2 DEF OAuthStart
<1> QED
  BY <1>1, <1>2, <1>3, <1>4, <1>5, <1>6, <1>7, <1>8, UpstreamSteps DEF AccountsNext

LEMMA SettingsSteps ==
  ASSUME Typed, SettingsNext
  PROVE  Step
<1>0. page = "settings" /\ page # "topup" /\ Shown \subseteq Row /\ Unique(Shown)
      /\ SectionKeys \in SUBSET Field
  BY ShownType DEF SettingsNext, Typed, SectionKeys, Field
<1>1. CASE SaveSection
  <2>0. PICK r \in editing : \E f \in SectionForm(r) :
          /\ mounted /\ busy["save"] # r.id
          /\ Send("save", r, {r.id}, f, SectionKeys)
          /\ busy' = [busy EXCEPT !["save"] = r.id]
          /\ UNCHANGED <<creating, editing, submitting, secret, selected>>
    BY <1>1 DEF SaveSection
  <2>1. PICK f \in SectionForm(r) :
          /\ mounted /\ busy["save"] # r.id
          /\ Send("save", r, {r.id}, f, SectionKeys)
          /\ busy' = [busy EXCEPT !["save"] = r.id]
          /\ UNCHANGED <<creating, editing, submitting, secret, selected>>
    BY <2>0
  <2>2. r \in Row /\ r.id \in Id
    BY DEF Typed, Dialog, Row
  <2>3. f \in Row
    BY <1>0, <2>2, FormType DEF SectionForm
  <2>4. "save" \in Ops /\ FlagOf("save") = "save" /\ "save" \in Flags
        /\ Intent("save", r, f, SectionKeys)
    BY DEF Ops, FlagOf, Flags, Intent
  <2>5. Asking("save", r, {r.id}, f, SectionKeys)
    BY <2>1, <2>2, <2>4 DEF Asking
  <2> QED
    BY <1>0, <2>2, <2>3, <2>4, <2>5, AskingIsAsk DEF Step
<1>2. CASE OpenTab
  <2>1. PICK s \in Id : editing' = Section(s)
    BY <1>2 DEF OpenTab
  <2>2. editing' \subseteq Row /\ AtMostOne(editing')
    BY <1>0, <2>1 DEF Section, AtMostOne, Unique
  <2>3. DialogStep
    BY <1>0, <1>2, <2>2 DEF OpenTab, DialogStep, Typed, Dialog
  <2> QED
    BY <2>3 DEF Step
<1>3. CASE SectionSaved
  <2>1. PICK c \in calls : Returned(c, FALSE, FALSE, c.state = "ok")
    BY <1>3 DEF SectionSaved
  <2> QED
    BY <1>0, <2>1, ReturnedIsAnswer DEF Step
<1>4. ASSUME NEW c \in calls, UpdateSettings(c) PROVE Step
  <2> DEFINE old == {r \in rows : r.id \in c.ids}
  <2>1. CASE Served(c, old, {Applied(r, c.body, c.sends) : r \in old}, "ok")
    BY <1>4, <2>1, UpdateIsServe DEF UpdateSettings, Step
  <2>2. ASSUME NEW part \in SUBSET c.sends, Write(c, old, Written(old, c.body, part), part),
               LoseAnswer(c)
        PROVE  Step
    <3>1. Replaces(c, old, Written(old, c.body, part), part)
      BY <1>4, UpdateReplaces DEF UpdateSettings
    <3>2. c \in Call /\ part \in SUBSET Field
      BY CallType DEF Typed, Requests
    <3>3. PICK d \in Call : d = [c EXCEPT !.state = "error"]
      BY <3>2 DEF Call
    <3>4. AnsweredAs(c, d)
      BY <3>2, <3>3 DEF AnsweredAs, Call
    <3>5. calls' = (calls \ {c}) \cup {d} /\ Spend("faults")
      BY <2>2, <3>3 DEF LoseAnswer, Reply
    <3> QED
      BY <2>2, <3>1, <3>2, <3>4, <3>5, WriteIsServe DEF Step
  <2> QED
    BY <1>4, <2>1, <2>2 DEF UpdateSettings, Written
<1> QED
  BY <1>1, <1>2, <1>3, <1>4 DEF SettingsNext

LEMMA TopupSteps ==
  ASSUME Typed, TopupNext
  PROVE  Step
<1>0. page = "topup" /\ {} \in SUBSET Field /\ {} \in SUBSET Id /\ OrderBusy \in Id
  BY IdType DEF TopupNext, OrderBusy
<1>1. ASSUME NEW op \in {"order", "simulate"}, NEW r \in Row, NEW ids \in SUBSET Id,
             Pay(op, r, ids)
      PROVE  Step
  <2>1. op \in Ops /\ FlagOf(op) = "pay" /\ "pay" \in Flags /\ Intent(op, r, r, {})
    BY DEF Ops, FlagOf, Flags, Intent
  <2>2. Asking(op, r, ids, r, {})
    BY <1>0, <1>1, <2>1 DEF Pay, Asking
  <2> QED
    BY <1>0, <2>1, <2>2, AskingIsAsk DEF Step
<1>2. CASE OnCreateOrder
  BY <1>0, <1>1, <1>2, NewType DEF OnCreateOrder
<1>3. CASE OnSimulatePaid
  <2>1. PICK r \in editing : Pay("simulate", r, {r.id})
    BY <1>3 DEF OnSimulatePaid
  <2>2. r \in Row /\ {r.id} \in SUBSET Id
    BY DEF Typed, Dialog, Row
  <2> QED
    BY <1>1, <2>1, <2>2
<1>4. CASE OnRedeem
  <2>1. "redeem" \in Ops /\ FlagOf("redeem") = "redeem" /\ "redeem" \in Flags
        /\ Intent("redeem", Stored, Stored, {})
    BY DEF Ops, FlagOf, Flags, Intent
  <2>2. Asking("redeem", Stored, {}, Stored, {})
    BY <1>0, <1>4, <2>1 DEF OnRedeem, Asking
  <2> QED
    BY <1>0, <2>1, <2>2, StoredType, AskingIsAsk DEF Step
<1>5. ASSUME NEW c \in calls, OrderAnswered(c) \/ Redirected(c) PROVE Step
  BY <1>0, <1>5 DEF Step, OrderStep, RedirectStep
<1>6. ASSUME NEW c \in calls, RedeemAnswered(c) PROVE Step
  <2>1. Answering(c, FALSE, FALSE, FALSE)
    BY <1>6 DEF RedeemAnswered, Answering
  <2> QED
    BY <2>1 DEF Step, AnswerStep
<1>7. ASSUME NEW c \in calls, CreateOrder(c) PROVE Step
  <2>1. PICK r : r = [NewOrder EXCEPT !.id = lastId']
    OBVIOUS
  <2>2. Write(c, {}, {r}, {}) /\ AnsweredWith(c, r) /\ c.op = "order"
    BY <1>7, <2>1 DEF CreateOrder
  <2>3. NewOrder \in Row /\ lastId + 1 \in Id /\ lastId' = lastId + 1
    BY <1>7, NewType DEF CreateOrder
  <2>4. Replaces(c, {}, {r}, {})
    BY <2>1, <2>3, CreateReplaces
  <2>5. r \in Row
    BY <2>4 DEF Replaces
  <2> QED
    BY <2>2, <2>4, <2>5, OrderIsServe DEF Step
<1>8. ASSUME NEW c \in calls, SimulatePaid(c) PROVE Step
  <2>1. PICK old \in {r \in rows : r.id \in c.ids} :
          LET r == [old EXCEPT !.status = "off"] IN Write(c, {old}, {r}, {}) /\ AnsweredWith(c, r)
    BY <1>8 DEF SimulatePaid
  <2>2. PICK r : r = [old EXCEPT !.status = "off"]
    OBVIOUS
  <2>3. Write(c, {old}, {r}, {}) /\ AnsweredWith(c, r) /\ c.op = "simulate" /\ UNCHANGED lastId
    BY <1>8, <2>1, <2>2 DEF SimulatePaid
  <2>4. Replaces(c, {old}, {[q EXCEPT !.status = "off"] : q \in {old}}, {})
    BY <2>3, StatusReplaces DEF Status
  <2>5. {[q EXCEPT !.status = "off"] : q \in {old}} = {r}
    BY <2>2
  <2>6. Replaces(c, {old}, {r}, {}) /\ r \in Row
    BY <2>4, <2>5 DEF Replaces
  <2> QED
    BY <2>3, <2>6, OrderIsServe DEF Step
<1>9. ASSUME NEW c \in calls, RedeemCode(c) PROVE Step
  BY <1>9, DeleteIsServe DEF RedeemCode, Step
<1> QED
  BY <1>2, <1>3, <1>4, <1>5, <1>6, <1>7, <1>8, <1>9 DEF TopupNext

\* Every step of the pages is of one of the kinds.
LEMMA NextSteps ==
  ASSUME Typed, Next
  PROVE  Step
<1>1. CASE Revalidation \/ FetchFailed
  BY <1>1, FetchIsList DEF Revalidation, Step
<1>2. CASE Handlers
  BY <1>2, TokensSteps, UsersSteps, ModelsSteps, NoticeSteps, ChannelsSteps, AccountsSteps,
     SettingsSteps, TopupSteps DEF Handlers
<1>3. CASE Navigate
  BY <1>3 DEF Navigate, LeaveStep, ReturnStep, Step
<1>4. CASE Another
  BY <1>4 DEF Step
<1>5. CASE \E c \in calls : Failed(c)
  BY <1>5 DEF Failed, Costless, RefuseStep, Step
<1> QED
  BY <1>1, <1>2, <1>3, <1>4, <1>5 DEF Next

-------------------------------------------------------------------------------
(* The theorems                                                             *)

Inv == Typed /\ Submitting /\ BusyMeansAwaited /\ ClicksUndoNothing

\* A table starts with one row, that of settings with two sections.
LEMMA InitialType ==
  ASSUME page \in Pages
  PROVE  /\ InitialRows \subseteq Row /\ Unique(InitialRows)
         /\ Cardinality(InitialRows) \in Id
         /\ \A r \in InitialRows : r.id <= Cardinality(InitialRows)
<1> DEFINE at(i) == [Stored EXCEPT !.id = i]
<1>1. \A i \in Id : at(i) \in Row /\ at(i).id = i
  BY StoredType DEF Row
<1>2. 1 \in Id /\ Id \subseteq Nat
  BY IdType
<1>3. InitialRows = {at(1)} \/ (2 \in Id /\ InitialRows = {at(1), at(2)})
  <2>1. CASE page = "settings" /\ 2 \in Id
    <3>1. Id \cap {1, 2} = {1, 2}
      BY <1>2, <2>1
    <3> QED
      BY <2>1, <3>1 DEF InitialRows
  <2>2. CASE page = "settings" /\ 2 \notin Id
    <3>1. Id \cap {1, 2} = {1}
      BY <1>2, <2>2
    <3> QED
      BY <2>2, <3>1 DEF InitialRows
  <2>3. CASE page # "settings"
    BY <2>3 DEF InitialRows
  <2> QED
    BY <2>1, <2>2, <2>3
<1> HIDE DEF at
<1>4. CASE InitialRows = {at(1)}
  <2>1. Cardinality(InitialRows) = 1
    BY <1>4, FS_Singleton
  <2> QED
    BY <1>1, <1>2, <1>4, <2>1 DEF Unique
<1>5. CASE 2 \in Id /\ InitialRows = {at(1), at(2)}
  <2>1. at(1).id = 1 /\ at(2).id = 2 /\ at(1) \in Row /\ at(2) \in Row
    BY <1>1, <1>2, <1>5
  <2>2. at(1) # at(2)
    BY <2>1
  <2>3. IsFiniteSet({at(1)}) /\ Cardinality({at(1)}) = 1
    BY FS_Singleton
  <2>4. Cardinality({at(1)} \cup {at(2)}) = 2
    BY <2>2, <2>3, FS_AddElement
  <2>5. InitialRows = {at(1)} \cup {at(2)}
    BY <1>5
  <2> QED
    BY <1>5, <2>1, <2>4, <2>5 DEF Unique
<1> QED
  BY <1>3, <1>4, <1>5

LEMMA InitInv == Init => Inv
<1> SUFFICES ASSUME Init PROVE Inv
  OBVIOUS
<1>1. Bounds
  <2>1. left \in Left /\ page = left.page /\ count = 0
    BY ConsoleAssumption DEF Init, Left
  <2>2. left.calls \in 0..MaxCalls /\ page \in Pages
    BY <2>1 DEF Left
  <2> QED
    BY <2>1, <2>2, ConsoleAssumption DEF Bounds
<1>2. Table
  BY <1>1, InitialType DEF Init, Table, Bounds
<1>4. Lists /\ Known
  BY IdleType DEF Init, Lists, Known
<1>5. Requests
  BY DEF Init, Requests
<1>6. Dialog
  BY <1>4, OpenedType, EmptyIsFew DEF Init, Dialog
<1>7. Buttons /\ BusyMeansAwaited
  BY NoBusyType DEF Init, Buttons, BusyMeansAwaited, Flags
<1>8. Closed /\ Submitting /\ ClicksUndoNothing
  BY DEF Init, Closed, Submitting, Awaited, ClicksUndoNothing
<1> QED
  BY <1>1, <1>2, <1>4, <1>5, <1>6, <1>7, <1>8 DEF Inv, Typed

LEMMA NextInv == Inv /\ [Next]_vars => Inv'
<1> SUFFICES ASSUME Inv, [Next]_vars PROVE Inv'
  OBVIOUS
<1> USE DEF Inv
<1>1. CASE Next
  BY <1>1, NextSteps, StepTyped, StepSubmitting, StepBusy, StepUndone
<1>2. CASE UNCHANGED vars
  <2> USE <1>2 DEF vars, server, swr, keys, local, mount, ghosts
  <2>1. Bounds' /\ Table' /\ Lists' /\ Known'
    BY DEF Typed, Bounds, Table, Lists, Entries, Fetches, Known, Unique
  <2>2. Requests' /\ Dialog' /\ Buttons' /\ Closed'
    BY DEF Typed, Requests, Intent, Dialog, Buttons, Closed
  <2>3. Submitting' /\ BusyMeansAwaited' /\ ClicksUndoNothing'
    BY DEF Submitting, Awaited, BusyMeansAwaited, Here, ClicksUndoNothing
  <2> QED
    BY <2>1, <2>2, <2>3 DEF Typed
<1> QED
  BY <1>1, <1>2

LEMMA SpecInv == Spec => []Inv
BY InitInv, NextInv, PTL DEF Spec

LEMMA TypedIsType == Typed => TypeOK
<1> SUFFICES ASSUME Typed PROVE TypeOK
  OBVIOUS
<1>1. Cardinality(editing) <= 1
  <2>1. CASE editing = {}
    BY <2>1, FS_EmptySet
  <2>2. CASE \E x : editing = {x}
    <3>1. Cardinality(editing) = 1
      BY <2>2, FS_Singleton
    <3> QED
      BY <3>1
  <2> QED
    BY <2>1, <2>2 DEF Typed, Dialog, AtMostOne
<1>2. count \in 0..MaxCalls
  <2>1. left.calls \in Nat
    BY DEF Typed, Bounds, Left
  <2> QED
    BY <2>1, ConsoleAssumption DEF Typed, Bounds
<1>3. page \in Pages /\ left \in Left /\ rows \in SUBSET Row /\ lastId \in Id
      /\ done \subseteq 1..MaxCalls /\ Unique(rows)
  BY DEF Typed, Bounds, Table
<1>4. /\ \A e \in {cache, aside.cache} :
          e.got \in BOOLEAN /\ e.rows \subseteq Row /\ e.done \subseteq done
      /\ \A f \in {fetch, aside.fetch} :
          /\ f.phase \in {"idle", "sent", "answered", "failed", "recent"}
          /\ f.rows \subseteq Row /\ f.done \subseteq done /\ f.joined \in BOOLEAN
      /\ filtered \subseteq 0..visit
  BY DEF Typed, Lists, Entries, Fetches, RowSets
<1> QED
  BY <1>1, <1>2, <1>3, <1>4 DEF Typed, TypeOK, Known, Requests, Dialog, Buttons, Closed, Left,
     Unique

LEMMA SubmittingIsOne == Submitting => OneSubmission
BY FS_EmptySet, FS_Singleton DEF Submitting, OneSubmission, Awaited

\* Types of the pages of resources; rows keep one row per id, requests one per
\* number, and what the lists and the user were told was carried out.
THEOREM ConsoleTypes == Spec => []TypeOK
<1>1. Inv => TypeOK
  BY TypedIsType DEF Inv
<1> QED
  BY <1>1, SpecInv, PTL

\* However dialogs are opened and closed and answers lost, no create or edit is
\* sent twice, and the submit buttons are disabled just as long as one is
\* awaited.
THEOREM OneSubmissionHolds == Spec => []OneSubmission
<1>1. Inv => OneSubmission
  BY SubmittingIsOne DEF Inv
<1> QED
  BY <1>1, SpecInv, PTL

\* No button of a row spins for ever: a busy button has a request under way.
THEOREM BusyMeansAwaitedHolds == Spec => []BusyMeansAwaited
<1>1. Inv => BusyMeansAwaited
  BY DEF Inv
<1> QED
  BY <1>1, SpecInv, PTL

\* A value that the user did not touch undoes another's change only from an
\* open form, or by the switches of the models and the upstreams.
THEOREM ClicksUndoNothingHolds == Spec => []ClicksUndoNothing
<1>1. Inv => ClicksUndoNothing
  BY DEF Inv
<1> QED
  BY <1>1, SpecInv, PTL

\* A secret that is shown once stays until it is closed or the page is left.
THEOREM SecretIsReadHolds == Spec => SecretIsRead
<1>1. Inv /\ [Next]_vars => [secret # {} => secret' \in {secret, {}}]_vars
  BY NextSteps, StepSubmitting DEF Inv
<1> QED
  BY <1>1, SpecInv, PTL DEF Spec, SecretIsRead

\* Tags and note of an upstream become empty by nothing but its switch, or by an
\* edit whose form was opened while they were shown empty.
THEOREM OnlySwitchErasesNotesHolds == Spec => OnlySwitchErasesNotes
<1> DEFINE Kept ==
      \A r \in rows : \A s \in rows' :
        r.id = s.id /\ r.notes # s.notes /\ s.notes = "" =>
            \E c \in calls :
                /\ c.n \in done' \ done
                /\ \/ c.op = "toggle" /\ page = "channels"
                   \/ c.op = "edit" /\ c.seen.notes = ""
<1>1. Inv /\ Next => Kept
  BY NextSteps, StepNotes DEF Inv
<1>2. Inv /\ [Next]_vars => [Kept]_vars
  BY <1>1
<1> HIDE DEF Kept
<1>3. Spec => [][Kept]_vars
  BY <1>2, SpecInv, PTL DEF Spec
<1> QED
  BY <1>3 DEF Kept, OnlySwitchErasesNotes
===============================================================================
