---------------------------- MODULE NoticePages ----------------------------
(* Three pages without switches: pages/admin/GroupsPage.tsx,               *)
(* AnnouncementsPage.tsx and RedemptionPage.tsx.  A group's quota stands   *)
(* for its ratio; a code is "on" until it is used.                         *)
EXTENDS Console

NewRow == [Stored EXCEPT !.name = "typed"]

\* The row is written with the fields sent, if it exists.
Update(c) ==
    LET old == {r \in rows : r.id \in c.ids} IN
    /\ c.op = "edit" /\ UNCHANGED lastId
    /\ \/ /\ old # {} /\ Served(c, old, {Applied(r, c.body, c.sends) : r \in old}, "ok")
       \/ old = {} /\ Refused(c) /\ UNCHANGED left

Create(c) ==
    /\ c.op = "create" /\ lastId + 1 \in Id
    /\ lastId' = lastId + 1
    /\ Served(c, {}, {[c.body EXCEPT !.id = lastId']}, "ok")

Delete(c) ==
    /\ c.op = "delete" /\ UNCHANGED lastId
    /\ Served(c, {r \in rows : r.id \in c.ids}, {}, "ok")

Dialogs == OpenCreate \/ CloseCreate \/ CloseEdit \/ \E r \in Shown : OpenEdit(r)

Answered == \E c \in calls : Returned(c, TRUE, FALSE, c.state = "ok")

-----------------------------------------------------------------------------
DefaultGroup == 1

GroupForm(r) == Form(r, {"name", "quota"})

GroupsSubmit ==
    \/ creating /\ Submit("create", NewRow, NewRow, {"name", "quota"})
    \/ \E g \in editing : \E f \in GroupForm(g) : Submit("edit", g, f, {"name", "quota"})

GroupsDelete == \E g \in Shown : g.id # DefaultGroup /\ Click("delete", g, g, {})

GroupsPage == Dialogs \/ Answered

\* The server refuses to delete the default group, which no page asks for.
DeleteGroup(c) ==
    /\ c.op = "delete" /\ DefaultGroup \notin c.ids /\ UNCHANGED lastId
    /\ Served(c, {r \in rows : r.id \in c.ids}, {}, "ok")

GroupsNext ==
    /\ page = "groups"
    /\ \/ GroupsSubmit \/ GroupsDelete \/ GroupsPage
       \/ \E c \in calls : Update(c) \/ Create(c) \/ DeleteGroup(c)

-----------------------------------------------------------------------------
AnnouncementForm(r) == Form(r, {"name", "status"})

AnnouncementsSubmit ==
    \/ creating /\ Submit("create", NewRow, NewRow, {"name", "status"})
    \/ \E a \in editing : \E f \in AnnouncementForm(a) :
        Submit("edit", a, f, {"name", "status"})

AnnouncementsDelete == \E a \in Shown : Click("delete", a, a, {})

AnnouncementsPage == Dialogs \/ Answered

AnnouncementsNext ==
    /\ page = "announcements"
    /\ \/ AnnouncementsSubmit \/ AnnouncementsDelete \/ AnnouncementsPage
       \/ \E c \in calls : Update(c) \/ Create(c) \/ Delete(c)

-----------------------------------------------------------------------------
\* The codes of a new batch are shown by a dialog of their own.
CodesCreate ==
    \/ creating /\ Submit("create", NewRow, NewRow, {"name", "quota"})
    \/ \E c \in calls : Returned(c, TRUE, c.op = "create", c.state = "ok")

\* The button of a used code is disabled.
CodesDelete == \E r \in Shown : r.status = "on" /\ Click("delete", r, r, {})

CodesPage == OpenCreate \/ CloseCreate \/ CloseSecret

\* The filters and the pages of the list.
CodesFilter == Turn

CodesNext ==
    /\ page = "codes"
    /\ \/ CodesCreate \/ CodesDelete \/ CodesPage \/ CodesFilter
       \/ \E c \in calls : Create(c) \/ Delete(c)
=============================================================================
