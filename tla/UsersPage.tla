----------------------------- MODULE UsersPage -----------------------------
(* The administrator's page of users: pages/admin/UsersPage.tsx.           *)
EXTENDS Console

UserForm(r) == Form(r, {"name", "quota", "status"})

NewUser == [Stored EXCEPT !.name = "typed"]

\* A ban, or its end.
UsersToggle ==
    \E u \in Shown : Click("toggle", u, [u EXCEPT !.status = Flip(@)], {"status"})

UsersCreate == creating /\ Submit("create", NewUser, NewUser, {"name"})

UsersEdit ==
    \E u \in editing : \E f \in UserForm(u) :
        Submit("edit", u, f, {"name", "quota", "status"})

UsersCreateDialog == OpenCreate \/ CloseCreate

\* The filters and the pages of the list, and the rows' edit buttons.
UsersTable == Turn \/ \E u \in Shown : OpenEdit(u)

WrongUsersAnswer == \E c \in calls : Returned(c, TRUE, FALSE, c.state = "ok" /\ c.op # "toggle")

UsersAnswer == \E c \in calls : Returned(c, TRUE, FALSE, c.state = "ok")

UpdateUser(c) ==
    LET old == {r \in rows : r.id \in c.ids} IN
    /\ c.op \in {"toggle", "edit"}
    /\ \/ /\ old # {} /\ Served(c, old, {Applied(r, c.body, c.sends) : r \in old}, "ok")
       \/ old = {} /\ Refused(c) /\ UNCHANGED left
    /\ UNCHANGED lastId

WrongCreateUser(c) ==
    /\ c.op = "create" /\ UNCHANGED lastId
    /\ Served(c, {}, {[c.body EXCEPT !.id = lastId]}, "ok")

CreateUser(c) ==
    /\ c.op = "create" /\ lastId + 1 \in Id
    /\ lastId' = lastId + 1
    /\ Served(c, {}, {[c.body EXCEPT !.id = lastId']}, "ok")

UsersNext ==
    /\ page = "users"
    /\ \/ UsersToggle \/ UsersCreate \/ UsersEdit \/ UsersCreateDialog \/ CloseEdit
       \/ UsersTable \/ UsersAnswer
       \/ \E c \in calls : UpdateUser(c) \/ CreateUser(c)
=============================================================================
