----------------------------- MODULE TopupPage -----------------------------
(* The page of a user's payments: pages/dashboard/TopupPage.tsx.  Its list  *)
(* are the orders; one is "on" while it is pending.  Answers are put into   *)
(* the list by mutate(f, false), which asks for no new list and drops the   *)
(* one under way.  editing is the order that the page shows below the form. *)
EXTENDS Console

OrderBusy == 1

NewOrder == [Stored EXCEPT !.name = "typed"]

\* Creating an order and confirming a payment share the flag "paying".
FlagOf(op) == IF op \in {"order", "simulate"} THEN "pay" ELSE op

Pay(op, r, ids) ==
    /\ mounted /\ busy["pay"] = NoRow
    /\ Send(op, r, ids, r, {})
    /\ busy' = [busy EXCEPT !["pay"] = OrderBusy]
    /\ UNCHANGED <<creating, editing, submitting, secret, selected>>

OnCreateOrder == Pay("order", NewOrder, {})

\* The button of a development build.
OnSimulatePaid == \E r \in editing : r.status = "on" /\ Pay("simulate", r, {r.id})

\* The form of a code is on another tab and has a flag of its own.
OnRedeem ==
    /\ mounted /\ busy["redeem"] = NoRow
    /\ Send("redeem", Stored, {}, Stored, {})
    /\ busy' = [busy EXCEPT !["redeem"] = OrderBusy]
    /\ UNCHANGED <<creating, editing, submitting, secret, selected>>

\* The list with the answered order in front, whether it had arrived or not.
RefreshOrders(c) ==
    /\ cache' = [got |-> TRUE, done |-> cache.done \cup {c.n},
                 rows |-> {c.body} \cup
                    (IF cache.got THEN {r \in cache.rows : r.id # c.body.id} ELSE {})]
    /\ fetch' = IF fetch.phase \in {"sent", "answered"}
                THEN [Idle EXCEPT !.phase = "recent"] ELSE fetch
    /\ UNCHANGED keys

OrderAnswered(c) ==
    /\ c.op \in {"order", "simulate"} /\ c.state # "sent"
    /\ calls' = calls \ {c}
    /\ busy' = IF Here(c) THEN [busy EXCEPT !["pay"] = NoRow] ELSE busy
    /\ \/ /\ c.state = "ok" /\ RefreshOrders(c)
          /\ acked' = acked \cup {c.n}
          /\ editing' = IF Here(c) THEN {c.body} ELSE editing
       \/ c.state = "error" /\ UNCHANGED <<swr, acked, editing>>
    /\ UNCHANGED <<page, server, count, mount, undone, left,
                   creating, submitting, secret, selected>>

\* The browser goes to the payment page: nothing of this one is left, and the
\* calls under way are nobody's.
Redirected(c) ==
    /\ c.op = "order" /\ c.state = "ok" /\ Spend("moves")
    /\ calls' = {} /\ acked' = acked \cup {c.n}
    /\ cache' = Empty /\ fetch' = Idle /\ UNCHANGED keys
    /\ mounted' = FALSE /\ editing' = {} /\ busy' = NoBusy
    /\ UNCHANGED <<page, server, count, visit, undone,
                   creating, submitting, secret, selected>>

RedeemAnswered(c) == c.op = "redeem" /\ Returned(c, FALSE, FALSE, FALSE)

\* The answer holds the order as it is stored now.
AnsweredWith(c, r) ==
    \/ /\ calls' = (calls \ {c}) \cup {[c EXCEPT !.state = "ok", !.body = r]}
       /\ UNCHANGED left
    \/ LoseAnswer(c)

CreateOrder(c) ==
    /\ c.op = "order" /\ lastId + 1 \in Id
    /\ lastId' = lastId + 1
    /\ LET r == [NewOrder EXCEPT !.id = lastId'] IN Write(c, {}, {r}, {}) /\ AnsweredWith(c, r)

SimulatePaid(c) ==
    /\ c.op = "simulate" /\ UNCHANGED lastId
    /\ \E old \in {r \in rows : r.id \in c.ids} :
        LET r == [old EXCEPT !.status = "off"] IN Write(c, {old}, {r}, {}) /\ AnsweredWith(c, r)

\* What a code does is in Topup; no order changes.
RedeemCode(c) == c.op = "redeem" /\ Served(c, {}, {}, "ok") /\ UNCHANGED lastId

TopupNext ==
    /\ page = "topup"
    /\ \/ OnCreateOrder \/ OnSimulatePaid \/ OnRedeem
       \/ \E c \in calls :
            \/ OrderAnswered(c) \/ Redirected(c) \/ RedeemAnswered(c)
            \/ CreateOrder(c) \/ SimulatePaid(c) \/ RedeemCode(c)
=============================================================================
