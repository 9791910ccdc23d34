------------------------ MODULE SystemSettingsPage ------------------------
(* The page of settings: pages/admin/SystemSettingsPage.tsx.  A row is a   *)
(* section, its name and its quota two of the keys that the section saves. *)
(* One tab is open and its form is mounted: editing holds what the form    *)
(* started with, which a list that arrives later does not change.          *)
EXTENDS Console

SectionKeys == {"name", "quota"}

\* The form of a section as it is mounted now.
Section(s) == {r \in Shown : r.id = s}

SectionForm(r) == Form(r, SectionKeys)

\* The button of a section is disabled while that section is the one saving.
SaveSection ==
    \E r \in editing : \E f \in SectionForm(r) :
        /\ mounted /\ busy["save"] # r.id
        /\ Send("save", r, {r.id}, f, SectionKeys)
        /\ busy' = [busy EXCEPT !["save"] = r.id]
        /\ UNCHANGED <<creating, editing, submitting, secret, selected>>

\* Another tab is opened: its form is mounted, the one before is gone.
OpenTab ==
    /\ mounted
    /\ \E s \in Id : editing \cap Section(s) = {} /\ Section(s) # {} /\ editing' = Section(s)
    /\ UNCHANGED <<page, server, swr, calls, count, mount, ghosts, left,
                   creating, submitting, secret, selected, busy>>

SectionSaved == \E c \in calls : Returned(c, FALSE, FALSE, c.state = "ok")

\* The server writes one key after the other; on a failure it stops.
UpdateSettings(c) ==
    LET old == {r \in rows : r.id \in c.ids} IN
    /\ c.op = "save" /\ UNCHANGED lastId
    /\ \/ Served(c, old, {Applied(r, c.body, c.sends) : r \in old}, "ok")
       \/ \E part \in SUBSET c.sends :
            Write(c, old, {Applied(r, c.body, part) : r \in old}, part) /\ LoseAnswer(c)

SettingsNext ==
    /\ page = "settings"
    /\ \/ SaveSection \/ OpenTab \/ SectionSaved
       \/ \E c \in calls : UpdateSettings(c)
=============================================================================
