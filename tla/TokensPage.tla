---------------------------- MODULE TokensPage ----------------------------
(* The page of a user's API keys: pages/dashboard/TokensPage.tsx.          *)
EXTENDS Console

\* The fields of a row that tokenPayload reads from a form.
TokenPayload == {"name", "quota"}

\* What the form may hold when it is submitted: its inputs start with the
\* values of the row it was opened for, and the user may type over them.
TokenForm(r) == Form(r, TokenPayload)

NewToken == [Stored EXCEPT !.name = "typed", !.quota = 5]

WrongTokensToggle ==
    \E t \in Shown :
        Click("toggle", t, [t EXCEPT !.status = Flip(@)], TokenPayload \cup {"status"})

TokensToggle ==
    \E t \in Shown : Click("toggle", t, [t EXCEPT !.status = Flip(@)], {"status"})

TokensDelete == \E t \in Shown : Click("delete", t, t, {})

TokensCreate == creating /\ Submit("create", NewToken, NewToken, TokenPayload)

TokensEdit ==
    \E t \in editing : \E f \in TokenForm(t) :
        Submit("edit", t, f, TokenPayload \cup {"status"})

\* The dialogs: create, edit, and the one that shows a new key once.
TokensDialogs == OpenCreate \/ CloseCreate \/ CloseEdit \/ CloseSecret

TokensTable == \E t \in Shown : OpenEdit(t)

WrongTokensAnswer == \E c \in calls : Returned(c, TRUE, c.op # "edit", c.state = "ok")

TokensAnswer == \E c \in calls : Returned(c, TRUE, c.op = "create", c.state = "ok")

\* The server's updates of keys: only the fields that were sent, of a key that
\* exists.
TokensServe(c) ==
    LET old == {r \in rows : r.id \in c.ids} IN
    \/ /\ c.op = "create" /\ lastId + 1 \in Id
       /\ lastId' = lastId + 1
       /\ Served(c, {}, {[c.body EXCEPT !.id = lastId']}, "ok")
    \/ /\ c.op \in {"toggle", "edit"} /\ old # {}
       /\ Served(c, old, {Applied(r, c.body, c.sends) : r \in old}, "ok")
       /\ UNCHANGED lastId
    \/ c.op = "delete" /\ old # {} /\ Served(c, old, {}, "ok") /\ UNCHANGED lastId
    \/ c.op # "create" /\ old = {} /\ Refused(c) /\ UNCHANGED left

TokensNext ==
    /\ page = "tokens"
    /\ \/ TokensToggle \/ TokensDelete \/ TokensCreate \/ TokensEdit
       \/ TokensDialogs \/ TokensTable \/ TokensAnswer
       \/ \E c \in calls : TokensServe(c)
=============================================================================
