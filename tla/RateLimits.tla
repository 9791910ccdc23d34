------------------------------- MODULE RateLimits -------------------------------
(***************************************************************************)
(* The limits of API keys and users: server/internal/relay/limits.go, in   *)
(* the order in which relay.go (proxy) takes them and gives them back.     *)
(*                                                                         *)
(* A request passes ten counters in Redis, one after the other: qps, tps,  *)
(* rpm, tpm and concurrency of its key, then of its user.  A command is    *)
(* one action.  Counters of a second or a minute have the time in their    *)
(* name and are never lowered; their expiry, after their window, is not    *)
(* seen by anybody.  Concurrency counters are lowered when the request is  *)
(* refused there or ends.                                                  *)
(*                                                                         *)
(* A definition called Wrong... is a slip in the definition after it, for  *)
(* showing that the properties can fail; no specification uses it.         *)
(***************************************************************************)
EXTENDS Totals

CONSTANTS
    Request,
    Token,              \* API keys
    User,
    TokenOf,            \* TokenOf[r]: the key that r presents
    OwnerOf,            \* OwnerOf[t]: the user of key t
    Limit,              \* Limit[h][k]: limit k of key or user h, 0 for none
    Weight,             \* Weight[r]: the tokens that estimateTokens predicts
    LastSecond,         \* bound: the seconds 0 .. LastSecond are explored
    SecondsPerMinute,
    Faults              \* which of FaultKinds may happen

Holder == Token \cup User

WindowKinds == {"qps", "tps", "rpm", "tpm"}

Kinds == WindowKinds \cup {"concurrency"}

FaultKinds == {"redisError",    \* a command fails or its answer is lost (the commands
                                \* that reserve also when the client goes away)
               "kill"}          \* a replica is killed: deferred calls do not run

ASSUME RequestsFinite == IsFiniteSet(Request)
ASSUME LimitsAssumption ==
    /\ Token \cap User = {}
    /\ TokenOf \in [Request -> Token]
    /\ OwnerOf \in [Token -> User]
    /\ Limit \in [Holder -> [Kinds -> Nat]]
    /\ Weight \in [Request -> Nat]
    /\ LastSecond \in Nat
    /\ SecondsPerMinute \in Nat \ {0}
    /\ Faults \subseteq FaultKinds

VARIABLES
    second,     \* what the clocks show
    count,      \* count[h][k][w]: the counter of window w, 0 while there is none
    conc,       \* conc[h]: the concurrency counter
    pc,         \* where the goroutine of r is
    stage,      \* the counter that r takes next
    slots,      \* slots[r]: the keys and users whose slot r will give back
    granted,    \* history: granted[h][k][w]: what was admitted in window w
    leaked,     \* history: leaked[h]: slots that nobody will give back
    spared      \* history: the requests that h let pass without a slot, after an error

counters == <<count, conc, granted, leaked>>
vars == <<second, counters, pc, stage, slots, spared>>

PC == {"idle", "reserve", "undo", "served", "release", "over"}

UserOf(r) == OwnerOf[TokenOf[r]]

\* The counters in the order in which they are taken: 1 .. 5 belong to the key,
\* 6 .. 10 to the user; 11 means that all were passed, 0 that none was tried.
InOrder == <<"qps", "tps", "rpm", "tpm", "concurrency">>

Passed == 11

WrongHolderAt(r, i) == IF i <= 5 THEN UserOf(r) ELSE TokenOf[r]     \* the user first

HolderAt(r, i) == IF i <= 5 THEN TokenOf[r] ELSE UserOf(r)

KindAt(i) == InOrder[IF i <= 5 THEN i ELSE i - 5]

Amount(r, k) == IF k \in {"tps", "tpm"} THEN Weight[r] ELSE 1

Windows == 0 .. LastSecond

Window(k) == IF k \in {"qps", "tps"} THEN second ELSE second \div SecondsPerMinute

\* There is a limit, and something to count against it.
LimitedAt(r, i) == Limit[HolderAt(r, i)][KindAt(i)] > 0 /\ Amount(r, KindAt(i)) > 0

Init ==
    /\ second = 0
    /\ count = [h \in Holder |-> [k \in WindowKinds |-> [w \in Windows |-> 0]]]
    /\ granted = [h \in Holder |-> [k \in WindowKinds |-> [w \in Windows |-> 0]]]
    /\ conc = [h \in Holder |-> 0]
    /\ leaked = [h \in Holder |-> 0]
    /\ pc = [r \in Request |-> "idle"]
    /\ stage = [r \in Request |-> 0]
    /\ slots = [r \in Request |-> {}]
    /\ spared = [h \in Holder |-> {}]

Goto(r, where) == pc' = [pc EXCEPT ![r] = where]

-------------------------------------------------------------------------------
(* reserveTokenLimits and reserveUserLimits                                 *)

\* The next counter that has a limit, or the rest of the handler.
Advance(r) ==
    \E i \in stage[r] + 1 .. Passed :
        /\ \A j \in stage[r] + 1 .. i - 1 : ~LimitedAt(r, j)
        /\ i # Passed => LimitedAt(r, i)
        /\ stage' = [stage EXCEPT ![r] = i]
        /\ Goto(r, IF i = Passed THEN "served" ELSE "reserve")

\* TokenAuth and ResolveRoute have let r in.
Arrive(r) ==
    /\ pc[r] = "idle"
    /\ Advance(r)
    /\ UNCHANGED <<second, counters, slots, spared>>

\* 429.  The slot of the key, if r has it, is given back by the deferred call.
Refuse(r) == Goto(r, "release") /\ UNCHANGED stage

Reserving(r, kinds) == pc[r] = "reserve" /\ KindAt(stage[r]) \in kinds

WrongFits(h, k, n) == count[h][k][Window(k)] <= Limit[h][k]     \* what was there before

\* What INCR or INCRBY returns is not above the limit.
Fits(h, k, n) == count[h][k][Window(k)] + n <= Limit[h][k]

Count(h, k, n) == count' = [count EXCEPT ![h][k][Window(k)] = @ + n]

\* What a refused request has counted stays counted, here and before.
TakeWindow(r) ==
    /\ Reserving(r, WindowKinds)
    /\ LET h == HolderAt(r, stage[r])
           k == KindAt(stage[r])
           n == Amount(r, k)
       IN /\ Count(h, k, n)
          /\ IF Fits(h, k, n)
             THEN /\ granted' = [granted EXCEPT ![h][k][Window(k)] = @ + n]
                  /\ Advance(r)
             ELSE UNCHANGED granted /\ Refuse(r)
    /\ UNCHANGED <<second, conc, leaked, slots, spared>>

WrongSlotFree(h) == conc[h] <= Limit[h]["concurrency"]      \* off by one

SlotFree(h) == conc[h] + 1 <= Limit[h]["concurrency"]

TakeSlot(r) ==
    /\ Reserving(r, {"concurrency"})
    /\ LET h == HolderAt(r, stage[r])
       IN /\ conc' = [conc EXCEPT ![h] = @ + 1]
          /\ IF SlotFree(h)
             THEN slots' = [slots EXCEPT ![r] = @ \cup {h}] /\ Advance(r)
             ELSE Goto(r, "undo") /\ UNCHANGED <<slots, stage>>
    /\ UNCHANGED <<second, count, granted, leaked, spared>>

WrongUndo(r) ==     \* the increment is forgotten
    /\ pc[r] = "undo"
    /\ Refuse(r)
    /\ UNCHANGED <<second, counters, slots, spared>>

\* The DECR after an INCR above the limit.
Undo(r) ==
    /\ pc[r] = "undo"
    /\ conc' = [conc EXCEPT ![HolderAt(r, stage[r])] = @ - 1]
    /\ Refuse(r)
    /\ UNCHANGED <<second, count, granted, leaked, slots, spared>>

\* The command answers with an error, although it may have been executed: the
\* limit is not applied.
TakeError(r) ==
    /\ "redisError" \in Faults
    /\ LET h == HolderAt(r, stage[r])
           k == KindAt(stage[r])
       IN \/ /\ Reserving(r, WindowKinds)
             /\ \E n \in {0, Amount(r, k)} : Count(h, k, n)
             /\ UNCHANGED <<conc, leaked, spared>>
          \/ /\ Reserving(r, {"concurrency"})
             /\ \E n \in 0 .. 1 : /\ conc' = [conc EXCEPT ![h] = @ + n]
                                  /\ leaked' = [leaked EXCEPT ![h] = @ + n]
             /\ spared' = [spared EXCEPT ![h] = @ \cup {r}]
             /\ UNCHANGED count
    /\ Advance(r)
    /\ UNCHANGED <<second, granted, slots>>

\* The DECR fails, and its error is dropped.
UndoError(r) ==
    /\ "redisError" \in Faults
    /\ pc[r] = "undo"
    /\ leaked' = [leaked EXCEPT ![HolderAt(r, stage[r])] = @ + 1]
    /\ Refuse(r)
    /\ UNCHANGED <<second, count, conc, granted, slots, spared>>

-------------------------------------------------------------------------------
(* The rest of proxy                                                        *)

\* PreCharge has refused, or Forward is over.
EndServing(r) ==
    /\ pc[r] = "served"
    /\ Goto(r, "release")
    /\ UNCHANGED <<second, counters, stage, slots, spared>>

\* Deferred calls run last in, first out: the user's slot, then the key's.
NextToRelease(r) == IF UserOf(r) \in slots[r] THEN UserOf(r) ELSE TokenOf[r]

WrongReleased(r) == UNCHANGED slots     \* gives it back again

Released(r) == slots' = [slots EXCEPT ![r] = @ \ {NextToRelease(r)}]

Release(r) ==
    /\ pc[r] = "release"
    /\ slots[r] # {}
    /\ conc' = [conc EXCEPT ![NextToRelease(r)] = @ - 1]
    /\ Released(r)
    /\ UNCHANGED <<second, count, granted, leaked, pc, stage, spared>>

ReleaseError(r) ==
    /\ "redisError" \in Faults
    /\ pc[r] = "release"
    /\ slots[r] # {}
    /\ leaked' = [leaked EXCEPT ![NextToRelease(r)] = @ + 1]
    /\ Released(r)
    /\ UNCHANGED <<second, count, conc, granted, pc, stage, spared>>

\* The handler of r is over, and its local variables with it.
Finish(r) ==
    /\ pc[r] = "release"
    /\ slots[r] = {}
    /\ Goto(r, "over")
    /\ UNCHANGED <<second, counters, stage, slots, spared>>

-------------------------------------------------------------------------------
(* Time and faults                                                          *)

Tick ==
    /\ second < LastSecond
    /\ second' = second + 1
    /\ UNCHANGED <<counters, pc, stage, slots, spared>>

Undoing(h) == {r \in Request : pc[r] = "undo" /\ HolderAt(r, stage[r]) = h}

Holding(h) == {r \in Request : h \in slots[r]}

\* Six hours after the last INCR the counter expires.  Bound: no request holds a
\* slot, or an increment to be taken back, for that long.
CounterExpires(h) ==
    /\ conc[h] # 0
    /\ Holding(h) \cup Undoing(h) = {}
    /\ conc' = [conc EXCEPT ![h] = 0]
    /\ leaked' = [leaked EXCEPT ![h] = 0]
    /\ UNCHANGED <<second, count, granted, pc, stage, slots, spared>>

Kill(r) ==
    /\ "kill" \in Faults
    /\ pc[r] \notin {"idle", "over"}
    /\ leaked' = [h \in Holder |->
                    leaked[h] + (IF r \in Holding(h) THEN 1 ELSE 0)
                              + (IF r \in Undoing(h) THEN 1 ELSE 0)]
    /\ slots' = [slots EXCEPT ![r] = {}]
    /\ Goto(r, "over")
    /\ UNCHANGED <<second, count, conc, granted, stage, spared>>

\* Every request explored is over.
Terminated == (\A r \in Request : pc[r] = "over") /\ UNCHANGED vars

-------------------------------------------------------------------------------
Reserve(r) ==
    TakeWindow(r) \/ TakeSlot(r) \/ Undo(r) \/ TakeError(r) \/ UndoError(r)

Closing(r) == Release(r) \/ ReleaseError(r) \/ Finish(r)

Next ==
    \/ \E r \in Request :
         Arrive(r) \/ Reserve(r) \/ EndServing(r) \/ Closing(r) \/ Kill(r)
    \/ \E h \in Holder : CounterExpires(h)
    \/ Tick
    \/ Terminated

Spec == Init /\ [][Next]_vars

-------------------------------------------------------------------------------
(* Properties                                                               *)

PerWindow == [Holder -> [WindowKinds -> [Windows -> Nat]]]

TypeOK ==
    /\ second \in Windows
    /\ count \in PerWindow
    /\ granted \in PerWindow
    /\ conc \in [Holder -> Nat]
    /\ leaked \in [Holder -> Nat]
    /\ pc \in [Request -> PC]
    /\ stage \in [Request -> 0 .. Passed]
    /\ slots \in [Request -> SUBSET Holder]
    /\ spared \in [Holder -> SUBSET Request]

\* In no second and no minute does a key or a user get more than its limit
\* admitted, however many requests count at once, fail or die.
WindowBound ==
    \A h \in Holder, k \in WindowKinds, w \in Windows :
        Limit[h][k] > 0 => granted[h][k][w] <= Limit[h][k]

Serving(h) == {r \in Request : pc[r] = "served" /\ h \in {TokenOf[r], UserOf(r)}}

\* Of a key or user with a concurrency limit, no more requests are served at a
\* time than that, apart from those that an error of Redis let pass.
ServingBound ==
    \A h \in Holder :
        Limit[h]["concurrency"] > 0 =>
            Cardinality(Serving(h) \ spared[h]) <= Limit[h]["concurrency"]

\* The counter is the number of slots held, of increments about to be taken
\* back, and of slots that nobody will give back: refused at any of the ten
\* counters or served, a request gives back what it took, once.
CounterBalance ==
    \A h \in Holder :
        conc[h] = Cardinality(Holding(h)) + Cardinality(Undoing(h)) + leaked[h]

\* What the requests that came past the limits of their key ask of their user.
AskedOf(u, k) ==
    [r \in Request |-> IF UserOf(r) = u /\ stage[r] > 5 THEN Amount(r, k) ELSE 0]

\* A request that its key refuses costs its user nothing: the counters of the
\* user hold no more than the requests that passed the key could ask, in all
\* windows together.
KeyShieldsUser ==
    \A u \in User, k \in WindowKinds :
        Total(count[u][k], Windows) <= Total(AskedOf(u, k), Request)
===============================================================================
