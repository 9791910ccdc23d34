--------------------------- MODULE ChannelsPage ---------------------------
(* The page of upstreams and their accounts: pages/admin/ChannelsPage.tsx. *)
(* Its two lists are looked at one at a time: "channels" are the           *)
(* upstreams, "accounts" the rows of the account panel.                    *)
EXTENDS Console

Full == {"name", "status", "notes"}

UpstreamForm(r) == Form(r, Full)

NewUpstream == [Stored EXCEPT !.name = "typed", !.notes = "typed"]

-----------------------------------------------------------------------------
\* The ids ticked stay ticked when a newer list arrives, but go when the page
\* is left.
ToggleSelected ==
    /\ mounted /\ ~Modal
    /\ \E u \in Shown : selected' = IF u.id \in selected THEN selected \ {u.id}
                                                          ELSE selected \cup {u.id}
    /\ UNCHANGED <<page, server, swr, calls, count, mount, ghosts, left,
                   creating, editing, submitting, secret, busy>>

BulkBusy == 1

OnBulkStatus ==
    /\ mounted /\ ~Modal /\ busy["bulk"] = NoRow /\ selected # {}
    /\ \E s \in Status : Send("bulk", Stored, selected, [Stored EXCEPT !.status = s], {"status"})
    /\ busy' = [busy EXCEPT !["bulk"] = BulkBusy]
    /\ UNCHANGED <<creating, editing, submitting, secret, selected>>

\* Only the name, the address and the new status of the row shown are sent.
ToggleUpstream ==
    \E u \in Shown : Click("toggle", u, [u EXCEPT !.status = Flip(@)], {"name", "status"})

DeleteUpstreamRow == \E u \in Shown : Click("delete", u, u, {})

CreateUpstreamRow == creating /\ Submit("create", NewUpstream, NewUpstream, Full)

WrongEditUpstream ==
    \E u \in editing : \E f \in UpstreamForm(u) : Submit("edit", u, f, Full \ {"notes"})

EditUpstream == \E u \in editing : \E f \in UpstreamForm(u) : Submit("edit", u, f, Full)

CheckUpstreamRow == \E u \in Shown : ClickBusy("check", u, u, {})

SyncModels == \E u \in Shown : ClickBusy("sync", u, u, {})

ChannelsDialogs ==
    OpenCreate \/ CloseCreate \/ CloseEdit \/ \E u \in Shown : OpenEdit(u)

\* A check revalidates the list whether it succeeded or failed; the others only
\* on success, and the model sync never.
ChannelsAnswer ==
    \E c \in calls :
        Returned(c, TRUE, FALSE,
                 c.op = "check" \/ (c.state = "ok" /\ c.op # "sync"))

-----------------------------------------------------------------------------
\* The server's update of an upstream writes tags and note whether the request
\* has them or not.
UpdateUpstream(c) ==
    LET old == {r \in rows : r.id \in c.ids}
        body == IF "notes" \in c.sends THEN c.body ELSE [c.body EXCEPT !.notes = ""]
    IN
    /\ c.op \in {"toggle", "edit"} /\ UNCHANGED lastId
    /\ \/ /\ old # {}
          /\ Served(c, old, {Applied(r, body, c.sends \cup {"notes"}) : r \in old}, "ok")
       \/ old = {} /\ Refused(c) /\ UNCHANGED left

BulkUpdateUpstreams(c) ==
    LET old == {r \in rows : r.id \in c.ids} IN
    /\ c.op = "bulk" /\ UNCHANGED lastId
    /\ Served(c, old, {Applied(r, c.body, c.sends) : r \in old}, "ok")

CreateUpstream(c) ==
    /\ c.op = "create" /\ lastId + 1 \in Id
    /\ lastId' = lastId + 1
    /\ Served(c, {}, {[c.body EXCEPT !.id = lastId']}, "ok")

DeleteUpstream(c) ==
    /\ c.op = "delete" /\ UNCHANGED lastId
    /\ Served(c, {r \in rows : r.id \in c.ids}, {}, "ok")

\* A probe that succeeds sets the upstream online; one that fails is answered
\* with an error after its status was written.
CheckUpstream(c) ==
    LET old == {r \in rows : r.id \in c.ids} IN
    /\ c.op = "check" /\ UNCHANGED lastId
    /\ \/ old # {} /\ Served(c, old, {[r EXCEPT !.status = "on"] : r \in old}, "ok")
       \/ old # {} /\ Served(c, old, {[r EXCEPT !.status = "off"] : r \in old}, "error")
       \/ old = {} /\ Refused(c) /\ UNCHANGED left

\* The models are another resource; of the upstream no field shown here changes.
SyncUpstreamModels(c) ==
    /\ c.op = "sync" /\ UNCHANGED lastId
    /\ \/ (\E r \in rows : r.id \in c.ids) /\ Served(c, {}, {}, "ok")
       \/ ~(\E r \in rows : r.id \in c.ids) /\ Refused(c) /\ UNCHANGED left

ChannelsNext ==
    /\ page = "channels"
    /\ \/ ToggleSelected \/ OnBulkStatus \/ ToggleUpstream \/ DeleteUpstreamRow
       \/ CreateUpstreamRow \/ EditUpstream \/ CheckUpstreamRow \/ SyncModels
       \/ ChannelsDialogs \/ ChannelsAnswer
       \/ \E c \in calls :
            \/ UpdateUpstream(c) \/ BulkUpdateUpstreams(c) \/ CreateUpstream(c)
            \/ DeleteUpstream(c) \/ CheckUpstream(c) \/ SyncUpstreamModels(c)

-----------------------------------------------------------------------------
\* The form of an account keeps the credentials that are left empty.
UpstreamAccountForm(r) == Form(r, Full)

OnAccountSubmit ==
    \/ creating /\ Submit("create", NewUpstream, NewUpstream, Full)
    \/ \E a \in editing : \E f \in UpstreamAccountForm(a) : Submit("edit", a, f, Full)

OnAccountDelete == \E a \in Shown : Click("delete", a, a, {})

OnAccountCheck == \E a \in Shown : ClickBusy("check", a, a, {})

OnAccountRecover == \E a \in Shown : Click("recover", a, [a EXCEPT !.status = "on"], {"status"})

OnOAuthRefresh == \E a \in Shown : ClickBusy("refresh", a, a, {})

OnOAuthStart == \E a \in Shown : ClickBusy("authorize", a, a, {})

AccountPanel == OpenCreate \/ CloseCreate

AccountForms == CloseEdit \/ \E a \in Shown : OpenEdit(a)

\* A failed check of an account does not revalidate, and neither does the start
\* of an authorisation, which happens in another window.
AccountsAnswer ==
    \E c \in calls : Returned(c, TRUE, FALSE, c.state = "ok" /\ c.op # "authorize")

UpdateAccount(c) ==
    LET old == {r \in rows : r.id \in c.ids} IN
    /\ c.op \in {"edit", "recover", "refresh"} /\ UNCHANGED lastId
    /\ \/ /\ old # {} /\ Served(c, old, {Applied(r, c.body, c.sends) : r \in old}, "ok")
       \/ old = {} /\ Refused(c) /\ UNCHANGED left

OAuthStart(c) ==
    /\ c.op = "authorize" /\ UNCHANGED lastId
    /\ \/ (\E r \in rows : r.id \in c.ids) /\ Served(c, {}, {}, "ok")
       \/ Refused(c) /\ UNCHANGED left

AccountsNext ==
    /\ page = "accounts"
    /\ \/ OnAccountSubmit \/ OnAccountDelete \/ OnAccountCheck \/ OnAccountRecover
       \/ OnOAuthRefresh \/ OnOAuthStart \/ AccountPanel \/ AccountForms \/ AccountsAnswer
       \/ \E c \in calls :
            \/ UpdateAccount(c) \/ CreateUpstream(c) \/ DeleteUpstream(c)
            \/ CheckUpstream(c) \/ OAuthStart(c)
=============================================================================
