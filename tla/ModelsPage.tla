---------------------------- MODULE ModelsPage ----------------------------
(* The page of model mappings: pages/admin/ModelsPage.tsx.  A row's quota  *)
(* stands for its prices.                                                  *)
EXTENDS Console

BuiltInPrice == 3

ModelFields == {"name", "quota", "status"}

ModelForm(r) == Form(r, ModelFields)

NewModel == [Stored EXCEPT !.name = "typed", !.quota = 5]

\* The switch of a row sends the whole row as it is shown.
ModelsToggle ==
    \E m \in Shown : Click("toggle", m, [m EXCEPT !.status = Flip(@)], ModelFields)

ModelsDelete == \E m \in Shown : Click("delete", m, m, {})

\* One handler submits both dialogs.
ModelsSubmit ==
    \/ creating /\ Submit("create", NewModel, NewModel, ModelFields)
    \/ \E m \in editing : \E f \in ModelForm(m) : Submit("edit", m, f, ModelFields)

\* The import of the built-in models: over the prices of those that exist or
\* not, and with an upstream for the others or without.
ModelsSeed ==
    \E sends \in SUBSET {"quota", "name"} :
        ClickBusy("seed", Stored, [NewModel EXCEPT !.quota = BuiltInPrice], sends)

ModelsDialogs == OpenCreate \/ CloseCreate

ModelsTable == CloseEdit \/ \E m \in Shown : OpenEdit(m)

ModelsAnswer == \E c \in calls : Returned(c, TRUE, FALSE, c.state = "ok")

UpdateModel(c) ==
    LET old == {r \in rows : r.id \in c.ids} IN
    /\ c.op \in {"toggle", "edit"}
    /\ \/ /\ old # {} /\ Served(c, old, {Applied(r, c.body, c.sends) : r \in old}, "ok")
       \/ old = {} /\ Refused(c) /\ UNCHANGED left
    /\ UNCHANGED lastId

CreateModel(c) ==
    /\ c.op = "create" /\ lastId + 1 \in Id
    /\ lastId' = lastId + 1
    /\ Served(c, {}, {[c.body EXCEPT !.id = lastId']}, "ok")

DeleteModel(c) ==
    /\ c.op = "delete"
    /\ Served(c, {r \in rows : r.id \in c.ids}, {}, "ok")
    /\ UNCHANGED lastId

\* The stored models are built-in ones, whose upstream and groups stay.
SeedModels(c) ==
    LET priced == IF "quota" \in c.sends
                  THEN {[r EXCEPT !.quota = c.body.quota] : r \in rows} ELSE rows
        added == IF "name" \in c.sends /\ lastId + 1 \in Id THEN {lastId + 1} ELSE {}
    IN
    /\ c.op = "seed"
    /\ Served(c, rows, priced \cup {[c.body EXCEPT !.id = i] : i \in added}, "ok")
    /\ lastId' = lastId + Cardinality(added)

ModelsNext ==
    /\ page = "models"
    /\ \/ ModelsToggle \/ ModelsDelete \/ ModelsSubmit \/ ModelsSeed
       \/ ModelsDialogs \/ ModelsTable \/ ModelsAnswer
       \/ \E c \in calls :
            UpdateModel(c) \/ CreateModel(c) \/ DeleteModel(c) \/ SeedModels(c)
=============================================================================
