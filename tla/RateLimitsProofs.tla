---------------------------- MODULE RateLimitsProofs ----------------------------
(***************************************************************************)
(* Theorems about RateLimits, for any requests, keys, users, limits and    *)
(* predicted tokens, any number of seconds and any combination of faults.  *)
(***************************************************************************)
EXTENDS RateLimits, TotalsProofs

-------------------------------------------------------------------------------
(* Arithmetic and sets                                                      *)

\* A quotient of naturals lies below the dividend.
LEMMA DivBound ==
  ASSUME NEW a \in Nat, NEW b \in Nat \ {0}
  PROVE  a \div b \in 0 .. a
<1>1. /\ a \div b \in Int
      /\ b * (a \div b) <= a
      /\ a < b * (a \div b) + b
  OBVIOUS
<1>2. ASSUME NEW x \in Int, b * x <= a, a < b * x + b
      PROVE  x \in 0 .. a
  <2>1. x >= 0
    <3>1. SUFFICES ASSUME x <= -1 PROVE FALSE
      BY <1>2
    <3>2. b * x <= b * (-1)
      BY <3>1, <1>2
    <3> QED
      BY <3>2, <1>2
  <2>2. x <= b * x
    BY <2>1, <1>2
  <2> QED
    BY <2>1, <2>2, <1>2
<1> QED
  BY <1>1, <1>2

\* How the size of a finite set changes with one element.
LEMMA OneElement ==
  ASSUME NEW S, IsFiniteSet(S), NEW x
  PROVE  /\ Cardinality(S) \in Nat
         /\ x \notin S => Cardinality(S \cup {x}) = Cardinality(S) + 1
         /\ x \in S => /\ Cardinality(S \ {x}) = Cardinality(S) - 1
                       /\ Cardinality(S) >= 1
<1>1. Cardinality(S) \in Nat
  BY FS_CardinalityType
<1>2. Cardinality(S \cup {x}) = IF x \in S THEN Cardinality(S) ELSE Cardinality(S) + 1
  BY FS_AddElement
<1>3. ASSUME x \in S
      PROVE  Cardinality(S \ {x}) = Cardinality(S) - 1 /\ Cardinality(S) >= 1
  <2>1. IsFiniteSet(S \ {x}) /\ Cardinality(S \ {x}) = Cardinality(S) - 1
    BY <1>3, FS_RemoveElement
  <2>2. Cardinality(S \ {x}) \in Nat
    BY <2>1, FS_CardinalityType
  <2> QED
    BY <1>1, <2>1, <2>2
<1> QED
  BY <1>1, <1>2, <1>3

\* Adding to one entry of a table by holder, kind and window.
LEMMA TableEntry ==
  ASSUME NEW F \in PerWindow, NEW h \in Holder, NEW k \in WindowKinds, NEW w \in Windows,
         NEW n \in Nat, NEW G, G = [F EXCEPT ![h][k][w] = @ + n]
  PROVE  /\ G \in PerWindow
         /\ G[h][k][w] = F[h][k][w] + n
         /\ \A g \in Holder, j \in WindowKinds, v \in Windows :
              g # h \/ j # k \/ v # w => G[g][j][v] = F[g][j][v]
<1>1. F[h] \in [WindowKinds -> [Windows -> Nat]] /\ F[h][k] \in [Windows -> Nat]
  BY DEF PerWindow
<1>2. F[h][k][w] + n \in Nat
  BY <1>1
<1> DEFINE A == [F[h][k] EXCEPT ![w] = F[h][k][w] + n]
           B == [F[h] EXCEPT ![k] = A]
<1>3. A \in [Windows -> Nat] /\ A[w] = F[h][k][w] + n
      /\ \A v \in Windows \ {w} : A[v] = F[h][k][v]
  BY <1>1, <1>2
<1>4. B \in [WindowKinds -> [Windows -> Nat]] /\ B[k] = A
      /\ \A j \in WindowKinds \ {k} : B[j] = F[h][j]
  <2> HIDE DEF A
  <2> QED
    BY <1>1, <1>3
<1>5. G = [F EXCEPT ![h] = B]
  OBVIOUS
<1>6. G \in PerWindow /\ G[h] = B /\ \A g \in Holder \ {h} : G[g] = F[g]
  <2> HIDE DEF B
  <2> QED
    BY <1>4, <1>5 DEF PerWindow
<1> HIDE DEF A, B
<1> QED
  BY <1>3, <1>4, <1>6

-------------------------------------------------------------------------------
(* Counters and stages                                                      *)

LEMMA Holders ==
  ASSUME NEW r \in Request
  PROVE  /\ TokenOf[r] \in Token /\ UserOf(r) \in User /\ TokenOf[r] # UserOf(r)
         /\ TokenOf[r] \in Holder /\ UserOf(r) \in Holder
         /\ \A i \in 0 .. Passed : HolderAt(r, i) \in {TokenOf[r], UserOf(r)}
         /\ \A i \in 1 .. 10 : KindAt(i) \in Kinds
         /\ \A i \in 1 .. 10 : KindAt(i) = "concurrency" <=> i \in {5, 10}
         /\ \A k \in Kinds : Amount(r, k) \in Nat
         /\ Amount(r, "concurrency") = 1
<1>1. TokenOf[r] \in Token /\ UserOf(r) \in User /\ TokenOf[r] # UserOf(r)
  BY LimitsAssumption DEF UserOf
<1>2. TokenOf[r] \in Holder /\ UserOf(r) \in Holder
  BY <1>1 DEF Holder
<1>3. \A i \in 0 .. Passed : HolderAt(r, i) \in {TokenOf[r], UserOf(r)}
  BY DEF HolderAt
<1>4. \A i \in 1 .. 5 :
        InOrder[i] \in Kinds /\ (InOrder[i] = "concurrency" <=> i = 5)
  BY DEF InOrder, Kinds, WindowKinds
<1>5. \A i \in 1 .. 10 :
        KindAt(i) \in Kinds /\ (KindAt(i) = "concurrency" <=> i \in {5, 10})
  BY <1>4 DEF KindAt
<1>6. \A k \in Kinds : Amount(r, k) \in Nat
  BY LimitsAssumption DEF Amount
<1>7. Amount(r, "concurrency") = 1
  BY DEF Amount
<1> QED
  BY <1>1, <1>2, <1>3, <1>5, <1>6, <1>7

LEMMA WindowType ==
  ASSUME TypeOK, NEW k \in WindowKinds
  PROVE  Window(k) \in Windows
<1>1. second \in Nat /\ second <= LastSecond /\ LastSecond \in Nat
  BY LimitsAssumption DEF TypeOK, Windows
<1>2. second \div SecondsPerMinute \in 0 .. second
  BY <1>1, DivBound, LimitsAssumption
<1> QED
  BY <1>1, <1>2 DEF Window, Windows

-------------------------------------------------------------------------------
(* The invariant that is inductive                                          *)

\* What a request may hold at each place of the handler: nothing before it came,
\* and the slot of a counter only after that counter was passed.
SlotsInOrder ==
    \A r \in Request :
        /\ slots[r] \subseteq {TokenOf[r], UserOf(r)}
        /\ pc[r] = "idle" => stage[r] = 0 /\ slots[r] = {}
        /\ pc[r] = "reserve" => stage[r] \in 1 .. 10
        /\ pc[r] = "undo" => stage[r] \in {5, 10}
        /\ pc[r] \in {"reserve", "undo"} =>
             /\ UserOf(r) \notin slots[r]
             /\ TokenOf[r] \in slots[r] => stage[r] > 5

Balanced == TypeOK /\ SlotsInOrder /\ CounterBalance

\* One step of Advance: where r goes on, and which limits it does not have.
LEMMA AdvanceStep ==
  ASSUME TypeOK, NEW r \in Request, Advance(r)
  PROVE  \E i \in stage[r] + 1 .. Passed :
           /\ stage' = [stage EXCEPT ![r] = i]
           /\ pc' = [pc EXCEPT ![r] = IF i = Passed THEN "served" ELSE "reserve"]
           /\ \A j \in stage[r] + 1 .. i - 1 : ~LimitedAt(r, j)
BY DEF Advance, Goto

\* After Advance the types hold, and r has passed a later counter.
LEMMA Advanced ==
  ASSUME TypeOK, NEW r \in Request, Advance(r)
  PROVE  /\ stage' \in [Request -> 0 .. Passed]
         /\ pc' \in [Request -> PC]
         /\ pc'[r] \in {"reserve", "served"}
         /\ pc'[r] = "reserve" => stage'[r] \in 1 .. 10
         /\ stage'[r] > stage[r]
         /\ \A q \in Request \ {r} : pc'[q] = pc[q] /\ stage'[q] = stage[q]
<1>1. PICK i \in stage[r] + 1 .. Passed :
           /\ stage' = [stage EXCEPT ![r] = i]
           /\ pc' = [pc EXCEPT ![r] = IF i = Passed THEN "served" ELSE "reserve"]
  BY AdvanceStep
<1>2. stage[r] \in 0 .. 11 /\ i \in 1 .. 11 /\ i > stage[r]
  BY <1>1 DEF TypeOK, Passed
<1> QED
  BY <1>1, <1>2 DEF TypeOK, PC, Passed

\* Nobody enters or leaves the undoing of a counter when r does neither.
LEMMA UndoingSame ==
  ASSUME NEW r \in Request, pc[r] # "undo", pc'[r] # "undo",
         \A q \in Request \ {r} : pc'[q] = pc[q] /\ stage'[q] = stage[q]
  PROVE  \A h \in Holder : Undoing(h)' = Undoing(h)
BY DEF Undoing, HolderAt, UserOf

\* The sets that CounterBalance counts are finite.
LEMMA HoldersFinite ==
  ASSUME NEW h \in Holder
  PROVE  /\ IsFiniteSet(Holding(h)) /\ IsFiniteSet(Undoing(h))
         /\ Cardinality(Holding(h)) \in Nat /\ Cardinality(Undoing(h)) \in Nat
BY RequestsFinite, FS_Subset, FS_CardinalityType DEF Holding, Undoing

\* Steps that move r alone, touch no slot and no concurrency counter, and pass
\* no undoing: CounterBalance and SlotsInOrder for the others go on holding.
LEMMA BalanceSame ==
  ASSUME Balanced, NEW r \in Request, pc[r] # "undo", pc'[r] # "undo",
         \A q \in Request \ {r} : pc'[q] = pc[q] /\ stage'[q] = stage[q],
         UNCHANGED <<conc, leaked, slots>>
  PROVE  CounterBalance'
<1>1. \A h \in Holder : Undoing(h)' = Undoing(h)
  BY UndoingSame
<1>2. \A h \in Holder : Holding(h)' = Holding(h)
  BY DEF Holding
<1> QED
  BY <1>1, <1>2 DEF Balanced, CounterBalance

LEMMA InitBalanced == Init => Balanced
<1> SUFFICES ASSUME Init PROVE Balanced
  OBVIOUS
<1>1. 0 \in Windows
  BY LimitsAssumption DEF Windows
<1>2. TypeOK
  BY <1>1 DEF Init, TypeOK, PerWindow, PC, Passed
<1>3. SlotsInOrder
  BY DEF Init, SlotsInOrder
<1>4. \A h \in Holder : Holding(h) = {} /\ Undoing(h) = {}
  BY DEF Init, Holding, Undoing
<1>5. IsFiniteSet({}) /\ Cardinality({}) = 0
  BY FS_EmptySet
<1>6. \A h \in Holder : conc[h] = 0 /\ leaked[h] = 0
  BY DEF Init
<1>7. CounterBalance
  BY <1>4, <1>5, <1>6 DEF CounterBalance
<1> QED
  BY <1>2, <1>3, <1>7 DEF Balanced

-------------------------------------------------------------------------------
(* Every step preserves it                                                  *)

\* What r's own place says of its stage and its slots.
LEMMA Place ==
  ASSUME Balanced, NEW r \in Request
  PROVE  /\ stage[r] \in 0 .. 11
         /\ slots[r] \subseteq {TokenOf[r], UserOf(r)}
         /\ pc[r] \in {"reserve", "undo"} =>
              /\ stage[r] \in 1 .. 10
              /\ HolderAt(r, stage[r]) \in Holder
              /\ UserOf(r) \notin slots[r]
              /\ TokenOf[r] \in slots[r] => stage[r] > 5
              /\ HolderAt(r, stage[r]) \notin slots[r]
<1>1. stage[r] \in 0 .. 11 /\ slots[r] \subseteq {TokenOf[r], UserOf(r)}
  BY DEF Balanced, TypeOK, SlotsInOrder, Passed
<1>2. ASSUME pc[r] \in {"reserve", "undo"}
      PROVE  /\ stage[r] \in 1 .. 10
             /\ UserOf(r) \notin slots[r]
             /\ TokenOf[r] \in slots[r] => stage[r] > 5
  BY <1>2 DEF Balanced, SlotsInOrder
<1>3. ASSUME pc[r] \in {"reserve", "undo"}
      PROVE  HolderAt(r, stage[r]) \in Holder /\ HolderAt(r, stage[r]) \notin slots[r]
  BY <1>2, <1>3, Holders DEF HolderAt
<1> QED
  BY <1>1, <1>2, <1>3

LEMMA ArriveKeeps ==
  ASSUME Balanced, NEW r \in Request, Arrive(r)
  PROVE  Balanced'
<1> USE DEF Balanced
<1>1. /\ pc[r] = "idle" /\ Advance(r)
      /\ UNCHANGED <<second, count, conc, granted, leaked, slots, spared>>
  BY DEF Arrive, counters
<1>2. TypeOK'
  BY <1>1, Advanced DEF TypeOK
<1>3. SlotsInOrder'
  BY <1>1, Advanced DEF SlotsInOrder, UserOf
<1>4. CounterBalance'
  BY <1>1, Advanced, BalanceSame
<1> QED
  BY <1>2, <1>3, <1>4

LEMMA TakeWindowKeeps ==
  ASSUME Balanced, NEW r \in Request, TakeWindow(r)
  PROVE  Balanced'
<1> DEFINE h == HolderAt(r, stage[r])
           k == KindAt(stage[r])
           w == Window(k)
           n == Amount(r, k)
<1>1. /\ pc[r] = "reserve" /\ k \in WindowKinds
      /\ count' = [count EXCEPT ![h][k][w] = @ + n]
      /\ \/ granted' = [granted EXCEPT ![h][k][w] = @ + n] /\ Advance(r)
         \/ UNCHANGED <<granted, stage>> /\ pc' = [pc EXCEPT ![r] = "release"]
      /\ UNCHANGED <<second, conc, leaked, slots, spared>>
  BY DEF TakeWindow, Reserving, Count, Refuse, Goto
<1>2. h \in Holder /\ k \in WindowKinds /\ w \in Windows /\ n \in Nat
  BY <1>1, Place, Holders, WindowType DEF Balanced, Kinds
<1> HIDE DEF h, k, w, n
<1>3. count \in PerWindow /\ granted \in PerWindow
  BY DEF Balanced, TypeOK
<1>4. count' \in PerWindow
  BY <1>1, <1>2, <1>3, TableEntry
<1>5. granted' \in PerWindow
  BY <1>1, <1>2, <1>3, TableEntry
<1>6. /\ stage' \in [Request -> 0 .. Passed]
      /\ pc' \in [Request -> PC]
      /\ pc'[r] \in {"reserve", "served", "release"}
      /\ pc'[r] = "reserve" => stage'[r] \in 1 .. 10 /\ stage'[r] > stage[r]
      /\ \A q \in Request \ {r} : pc'[q] = pc[q] /\ stage'[q] = stage[q]
  <2>1. CASE Advance(r)
    BY <2>1, Advanced DEF Balanced
  <2>2. CASE UNCHANGED stage /\ pc' = [pc EXCEPT ![r] = "release"]
    BY <2>2 DEF Balanced, TypeOK, PC
  <2> QED
    BY <1>1, <2>1, <2>2
<1>7. TypeOK'
  BY <1>1, <1>4, <1>5, <1>6 DEF Balanced, TypeOK
<1>8. SlotsInOrder'
  BY <1>1, <1>6, Place DEF Balanced, SlotsInOrder, UserOf
<1>9. CounterBalance'
  BY <1>1, <1>6, BalanceSame
<1> QED
  BY <1>7, <1>8, <1>9 DEF Balanced

\* r starts to undo an increment.
LEMMA UndoingMore ==
  ASSUME NEW r \in Request, pc[r] # "undo", pc' = [pc EXCEPT ![r] = "undo"],
         pc \in [Request -> PC], UNCHANGED stage
  PROVE  \A h \in Holder :
           Undoing(h)' = IF h = HolderAt(r, stage[r]) THEN Undoing(h) \cup {r}
                                                      ELSE Undoing(h)
BY DEF Undoing, HolderAt, UserOf

\* r has undone an increment.
LEMMA UndoingLess ==
  ASSUME NEW r \in Request, pc[r] = "undo", pc' = [pc EXCEPT ![r] = "release"],
         pc \in [Request -> PC], UNCHANGED stage
  PROVE  \A h \in Holder :
           /\ Undoing(h)' = Undoing(h) \ {r}
           /\ r \in Undoing(h) <=> h = HolderAt(r, stage[r])
BY DEF Undoing, HolderAt, UserOf

\* What one more or one less in either set does to the sum.
LEMMA Sum ==
  ASSUME Balanced, NEW h \in Holder, NEW r
  PROVE  /\ conc[h] = Cardinality(Holding(h)) + Cardinality(Undoing(h)) + leaked[h]
         /\ conc[h] \in Nat /\ leaked[h] \in Nat
         /\ Cardinality(Holding(h)) \in Nat /\ Cardinality(Undoing(h)) \in Nat
         /\ Cardinality(Holding(h) \cup {r}) =
              Cardinality(Holding(h)) + (IF r \in Holding(h) THEN 0 ELSE 1)
         /\ Cardinality(Holding(h) \ {r}) =
              Cardinality(Holding(h)) - (IF r \in Holding(h) THEN 1 ELSE 0)
         /\ Cardinality(Undoing(h) \cup {r}) =
              Cardinality(Undoing(h)) + (IF r \in Undoing(h) THEN 0 ELSE 1)
         /\ Cardinality(Undoing(h) \ {r}) =
              Cardinality(Undoing(h)) - (IF r \in Undoing(h) THEN 1 ELSE 0)
         /\ r \in Holding(h) => Cardinality(Holding(h)) >= 1
         /\ r \in Undoing(h) => Cardinality(Undoing(h)) >= 1
<1>1. IsFiniteSet(Holding(h)) /\ IsFiniteSet(Undoing(h))
  BY HoldersFinite
<1>2. conc[h] = Cardinality(Holding(h)) + Cardinality(Undoing(h)) + leaked[h]
      /\ conc[h] \in Nat /\ leaked[h] \in Nat
  BY DEF Balanced, CounterBalance, TypeOK
<1>3. r \in Holding(h) => Cardinality(Holding(h) \cup {r}) = Cardinality(Holding(h))
  <2>1. r \in Holding(h) => Holding(h) \cup {r} = Holding(h)
    OBVIOUS
  <2> QED
    BY <2>1, Zenon
<1>4. r \notin Holding(h) => Cardinality(Holding(h) \ {r}) = Cardinality(Holding(h))
  <2>1. r \notin Holding(h) => Holding(h) \ {r} = Holding(h)
    OBVIOUS
  <2> QED
    BY <2>1, Zenon
<1>5. r \in Undoing(h) => Cardinality(Undoing(h) \cup {r}) = Cardinality(Undoing(h))
  <2>1. r \in Undoing(h) => Undoing(h) \cup {r} = Undoing(h)
    OBVIOUS
  <2> QED
    BY <2>1, Zenon
<1>6. r \notin Undoing(h) => Cardinality(Undoing(h) \ {r}) = Cardinality(Undoing(h))
  <2>1. r \notin Undoing(h) => Undoing(h) \ {r} = Undoing(h)
    OBVIOUS
  <2> QED
    BY <2>1, Zenon
<1>7. /\ Cardinality(Holding(h)) \in Nat
      /\ r \notin Holding(h) => Cardinality(Holding(h) \cup {r}) = Cardinality(Holding(h)) + 1
      /\ r \in Holding(h) => /\ Cardinality(Holding(h) \ {r}) = Cardinality(Holding(h)) - 1
                             /\ Cardinality(Holding(h)) >= 1
  BY <1>1, OneElement
<1>8. /\ Cardinality(Undoing(h)) \in Nat
      /\ r \notin Undoing(h) => Cardinality(Undoing(h) \cup {r}) = Cardinality(Undoing(h)) + 1
      /\ r \in Undoing(h) => /\ Cardinality(Undoing(h) \ {r}) = Cardinality(Undoing(h)) - 1
                             /\ Cardinality(Undoing(h)) >= 1
  BY <1>1, OneElement
<1>9. /\ Cardinality(Holding(h) \cup {r}) =
           Cardinality(Holding(h)) + (IF r \in Holding(h) THEN 0 ELSE 1)
      /\ Cardinality(Holding(h) \ {r}) =
           Cardinality(Holding(h)) - (IF r \in Holding(h) THEN 1 ELSE 0)
  <2>1. CASE r \in Holding(h)
    BY <1>3, <1>7, <2>1
  <2>2. CASE r \notin Holding(h)
    BY <1>4, <1>7, <2>2
  <2> QED
    BY <2>1, <2>2
<1>10. /\ Cardinality(Undoing(h) \cup {r}) =
            Cardinality(Undoing(h)) + (IF r \in Undoing(h) THEN 0 ELSE 1)
       /\ Cardinality(Undoing(h) \ {r}) =
            Cardinality(Undoing(h)) - (IF r \in Undoing(h) THEN 1 ELSE 0)
  <2>1. CASE r \in Undoing(h)
    BY <1>5, <1>8, <2>1
  <2>2. CASE r \notin Undoing(h)
    BY <1>6, <1>8, <2>2
  <2> QED
    BY <2>1, <2>2
<1> QED
  BY <1>2, <1>7, <1>8, <1>9, <1>10

\* The sums of a step in which r enters, leaves or does not touch the sets.
LEMMA SumAfter ==
  ASSUME Balanced, NEW h \in Holder, NEW r
  PROVE  /\ Holding(h)' = Holding(h) => Cardinality(Holding(h)') = Cardinality(Holding(h))
         /\ Holding(h)' = Holding(h) \cup {r} =>
              Cardinality(Holding(h)') =
                Cardinality(Holding(h)) + (IF r \in Holding(h) THEN 0 ELSE 1)
         /\ Holding(h)' = Holding(h) \ {r} =>
              Cardinality(Holding(h)') =
                Cardinality(Holding(h)) - (IF r \in Holding(h) THEN 1 ELSE 0)
         /\ Undoing(h)' = Undoing(h) => Cardinality(Undoing(h)') = Cardinality(Undoing(h))
         /\ Undoing(h)' = Undoing(h) \cup {r} =>
              Cardinality(Undoing(h)') =
                Cardinality(Undoing(h)) + (IF r \in Undoing(h) THEN 0 ELSE 1)
         /\ Undoing(h)' = Undoing(h) \ {r} =>
              Cardinality(Undoing(h)') =
                Cardinality(Undoing(h)) - (IF r \in Undoing(h) THEN 1 ELSE 0)
BY Sum, Zenon

LEMMA TakeSlotKeeps ==
  ASSUME Balanced, NEW r \in Request, TakeSlot(r)
  PROVE  Balanced'
<1> DEFINE h == HolderAt(r, stage[r])
<1>1. /\ pc[r] = "reserve" /\ KindAt(stage[r]) = "concurrency"
      /\ conc' = [conc EXCEPT ![h] = @ + 1]
      /\ \/ slots' = [slots EXCEPT ![r] = @ \cup {h}] /\ Advance(r)
         \/ pc' = [pc EXCEPT ![r] = "undo"] /\ UNCHANGED <<slots, stage>>
      /\ UNCHANGED <<second, count, granted, leaked, spared>>
  BY DEF TakeSlot, Reserving, Goto
<1>2. /\ h \in Holder /\ h \notin slots[r] /\ stage[r] \in {5, 10}
      /\ UserOf(r) \notin slots[r]
      /\ TokenOf[r] \in slots[r] => stage[r] > 5
      /\ h = IF stage[r] = 5 THEN TokenOf[r] ELSE UserOf(r)
  BY <1>1, Place, Holders DEF HolderAt
<1>3. TokenOf[r] \in Holder /\ UserOf(r) \in Holder /\ TokenOf[r] # UserOf(r)
  BY Holders
<1> HIDE DEF h
<1>4. TypeOK
  BY DEF Balanced
<1>5. r \notin Holding(h) /\ r \notin Undoing(h)
  BY <1>1, <1>2 DEF Holding, Undoing
<1>6. conc' \in [Holder -> Nat] /\ conc'[h] = conc[h] + 1
      /\ \A g \in Holder \ {h} : conc'[g] = conc[g]
  BY <1>1, <1>2, <1>4 DEF TypeOK
<1>7. CASE slots' = [slots EXCEPT ![r] = @ \cup {h}] /\ Advance(r)
  <2>1. /\ stage' \in [Request -> 0 .. Passed]
        /\ pc' \in [Request -> PC]
        /\ pc'[r] \in {"reserve", "served"}
        /\ pc'[r] = "reserve" => stage'[r] \in 1 .. 10
        /\ stage'[r] > stage[r]
        /\ \A q \in Request \ {r} : pc'[q] = pc[q] /\ stage'[q] = stage[q]
    BY <1>4, <1>7, Advanced
  <2>2. slots' \in [Request -> SUBSET Holder]
        /\ slots'[r] = slots[r] \cup {h}
        /\ \A q \in Request \ {r} : slots'[q] = slots[q]
    BY <1>2, <1>4, <1>7 DEF TypeOK
  <2>3. TypeOK'
    BY <1>1, <1>4, <1>6, <2>1, <2>2 DEF TypeOK
  <2>4. pc'[r] = "reserve" => stage[r] = 5
    BY <1>2, <2>1
  <2>5. SlotsInOrder'
    BY <1>2, <1>3, <2>1, <2>2, <2>4, Place DEF Balanced, SlotsInOrder, UserOf
  <2>6. \A g \in Holder : Undoing(g)' = Undoing(g)
    BY <1>1, <2>1, UndoingSame
  <2>7. \A g \in Holder : Holding(g)' = IF g = h THEN Holding(g) \cup {r} ELSE Holding(g)
    BY <2>2 DEF Holding
  <2>8. CounterBalance'
    <3> SUFFICES ASSUME NEW g \in Holder
                 PROVE  conc'[g] = Cardinality(Holding(g)') + Cardinality(Undoing(g)') + leaked'[g]
      BY DEF CounterBalance
    <3>1. Cardinality(Undoing(g)') = Cardinality(Undoing(g))
      BY <2>6, SumAfter
    <3>2. Cardinality(Holding(g)') = Cardinality(Holding(g)) + (IF g = h THEN 1 ELSE 0)
      <4>1. CASE g = h
        <5>1. Holding(g)' = Holding(g) \cup {r}
          BY <2>7, <4>1
        <5>2. Cardinality(Holding(g)')
                = Cardinality(Holding(g)) + (IF r \in Holding(g) THEN 0 ELSE 1)
          BY <5>1, SumAfter, Zenon
        <5>3. r \notin Holding(g)
          BY <1>5, <4>1
        <5>4. Cardinality(Holding(g)) \in Nat
          BY HoldersFinite
        <5> QED
          BY <5>2, <5>3, <5>4, <4>1
      <4>2. CASE g # h
        <5>1. Cardinality(Holding(g)') = Cardinality(Holding(g))
          BY <2>7, <4>2, SumAfter, Zenon
        <5>2. Cardinality(Holding(g)) \in Nat
          BY HoldersFinite
        <5> QED
          BY <5>1, <5>2, <4>2
      <4> QED
        BY <4>1, <4>2
    <3>3. /\ conc[g] = Cardinality(Holding(g)) + Cardinality(Undoing(g)) + leaked[g]
          /\ conc[g] \in Nat /\ leaked[g] \in Nat /\ leaked'[g] = leaked[g]
          /\ Cardinality(Holding(g)) \in Nat /\ Cardinality(Undoing(g)) \in Nat
      BY <1>1, Sum
    <3>4. conc'[g] = conc[g] + (IF g = h THEN 1 ELSE 0)
      BY <1>6
    <3> QED
      BY <3>1, <3>2, <3>3, <3>4
  <2> QED
    BY <2>3, <2>5, <2>8 DEF Balanced
<1>8. CASE pc' = [pc EXCEPT ![r] = "undo"] /\ UNCHANGED <<slots, stage>>
  <2>1. TypeOK'
    BY <1>1, <1>4, <1>6, <1>8 DEF TypeOK, PC
  <2>2. SlotsInOrder'
    BY <1>2, <1>4, <1>8 DEF Balanced, SlotsInOrder, UserOf, TypeOK
  <2>3. \A g \in Holder : Undoing(g)' = IF g = h THEN Undoing(g) \cup {r} ELSE Undoing(g)
    BY <1>1, <1>4, <1>8, UndoingMore DEF TypeOK, h
  <2>4. \A g \in Holder : Holding(g)' = Holding(g)
    BY <1>8 DEF Holding
  <2>5. CounterBalance'
    <3> SUFFICES ASSUME NEW g \in Holder
                 PROVE  conc'[g] = Cardinality(Holding(g)') + Cardinality(Undoing(g)') + leaked'[g]
      BY DEF CounterBalance
    <3>1. Cardinality(Holding(g)') = Cardinality(Holding(g))
      BY <2>4, SumAfter
    <3>2. Cardinality(Undoing(g)') = Cardinality(Undoing(g)) + (IF g = h THEN 1 ELSE 0)
      <4>1. CASE g = h
        <5>1. Undoing(g)' = Undoing(g) \cup {r}
          BY <2>3, <4>1
        <5>2. Cardinality(Undoing(g)')
                = Cardinality(Undoing(g)) + (IF r \in Undoing(g) THEN 0 ELSE 1)
          BY <5>1, SumAfter, Zenon
        <5>3. r \notin Undoing(g)
          BY <1>5, <4>1
        <5>4. Cardinality(Undoing(g)) \in Nat
          BY HoldersFinite
        <5> QED
          BY <5>2, <5>3, <5>4, <4>1
      <4>2. CASE g # h
        <5>1. Cardinality(Undoing(g)') = Cardinality(Undoing(g))
          BY <2>3, <4>2, SumAfter, Zenon
        <5>2. Cardinality(Undoing(g)) \in Nat
          BY HoldersFinite
        <5> QED
          BY <5>1, <5>2, <4>2
      <4> QED
        BY <4>1, <4>2
    <3>3. /\ conc[g] = Cardinality(Holding(g)) + Cardinality(Undoing(g)) + leaked[g]
          /\ conc[g] \in Nat /\ leaked[g] \in Nat /\ leaked'[g] = leaked[g]
          /\ Cardinality(Holding(g)) \in Nat /\ Cardinality(Undoing(g)) \in Nat
      BY <1>1, Sum
    <3>4. conc'[g] = conc[g] + (IF g = h THEN 1 ELSE 0)
      BY <1>6
    <3> QED
      BY <3>1, <3>2, <3>3, <3>4
  <2> QED
    BY <2>1, <2>2, <2>5 DEF Balanced
<1> QED
  BY <1>1, <1>7, <1>8

LEMMA UndoKeeps ==
  ASSUME Balanced, NEW r \in Request, Undo(r) \/ UndoError(r)
  PROVE  Balanced'
<1> DEFINE h == HolderAt(r, stage[r])
<1>1. /\ pc[r] = "undo" /\ pc' = [pc EXCEPT ![r] = "release"]
      /\ \/ conc' = [conc EXCEPT ![h] = @ - 1] /\ UNCHANGED leaked
         \/ leaked' = [leaked EXCEPT ![h] = @ + 1] /\ UNCHANGED conc
      /\ UNCHANGED <<second, count, granted, stage, slots, spared>>
  BY DEF Undo, UndoError, Refuse, Goto
<1>2. h \in Holder
  BY <1>1, Place
<1>3. TypeOK
  BY DEF Balanced
<1>4. \A g \in Holder : /\ Undoing(g)' = Undoing(g) \ {r}
                        /\ r \in Undoing(g) <=> g = h
  BY <1>1, <1>3, UndoingLess DEF TypeOK
<1> HIDE DEF h
<1>5. \A g \in Holder : Holding(g)' = Holding(g)
  BY <1>1 DEF Holding
<1>6. conc[h] \in Nat /\ conc[h] >= 1 /\ leaked[h] \in Nat
  <2>1. r \in Undoing(h)
    BY <1>2, <1>4
  <2>2. /\ conc[h] = Cardinality(Holding(h)) + Cardinality(Undoing(h)) + leaked[h]
        /\ conc[h] \in Nat /\ leaked[h] \in Nat
        /\ Cardinality(Holding(h)) \in Nat /\ Cardinality(Undoing(h)) \in Nat
        /\ r \in Undoing(h) => Cardinality(Undoing(h)) >= 1
    BY <1>2, Sum
  <2> QED
    BY <2>1, <2>2
<1>7. \/ conc' = [conc EXCEPT ![h] = conc[h] - 1] /\ UNCHANGED leaked
      \/ leaked' = [leaked EXCEPT ![h] = leaked[h] + 1] /\ UNCHANGED conc
  BY <1>1
<1>8. /\ conc' \in [Holder -> Nat] /\ leaked' \in [Holder -> Nat]
      /\ conc'[h] - leaked'[h] = conc[h] - leaked[h] - 1
      /\ \A g \in Holder \ {h} : conc'[g] = conc[g] /\ leaked'[g] = leaked[g]
  BY <1>2, <1>3, <1>6, <1>7 DEF TypeOK
<1>9. TypeOK'
  BY <1>1, <1>3, <1>8 DEF TypeOK, PC
<1>10. SlotsInOrder'
  BY <1>1, <1>3 DEF Balanced, SlotsInOrder, UserOf, TypeOK
<1>11. CounterBalance'
  <2> SUFFICES ASSUME NEW g \in Holder
               PROVE  conc'[g] = Cardinality(Holding(g)') + Cardinality(Undoing(g)') + leaked'[g]
    BY DEF CounterBalance
  <2>1. Cardinality(Holding(g)') = Cardinality(Holding(g))
    BY <1>5, SumAfter
  <2>2. Cardinality(Undoing(g)') = Cardinality(Undoing(g)) - (IF r \in Undoing(g) THEN 1 ELSE 0)
    BY <1>4, SumAfter
  <2>3. /\ conc[g] = Cardinality(Holding(g)) + Cardinality(Undoing(g)) + leaked[g]
        /\ conc[g] \in Nat /\ leaked[g] \in Nat
        /\ Cardinality(Holding(g)) \in Nat /\ Cardinality(Undoing(g)) \in Nat
    BY Sum
  <2>4. CASE g = h
    BY <2>1, <2>2, <2>3, <2>4, <1>4, <1>8
  <2>5. CASE g # h
    BY <2>1, <2>2, <2>3, <2>5, <1>4, <1>8
  <2> QED
    BY <2>4, <2>5
<1> QED
  BY <1>9, <1>10, <1>11 DEF Balanced

LEMMA TakeErrorKeeps ==
  ASSUME Balanced, NEW r \in Request, TakeError(r)
  PROVE  Balanced'
<1> DEFINE h == HolderAt(r, stage[r])
           k == KindAt(stage[r])
           w == Window(k)
<1>1. TypeOK /\ pc[r] = "reserve" /\ Advance(r)
      /\ UNCHANGED <<second, granted, slots>>
  BY DEF Balanced, TakeError, Reserving
<1>2. \/ /\ k \in WindowKinds
         /\ \E n \in {0, Amount(r, k)} : count' = [count EXCEPT ![h][k][w] = @ + n]
         /\ UNCHANGED <<conc, leaked, spared>>
      \/ /\ \E n \in 0 .. 1 : /\ conc' = [conc EXCEPT ![h] = @ + n]
                              /\ leaked' = [leaked EXCEPT ![h] = @ + n]
         /\ spared' = [spared EXCEPT ![h] = @ \cup {r}]
         /\ UNCHANGED count
  BY DEF TakeError, Reserving, Count
<1>3. h \in Holder /\ Amount(r, k) \in Nat
  BY <1>1, Place, Holders
<1>4. k \in WindowKinds => w \in Windows
  BY <1>1, WindowType
<1> HIDE DEF h, k, w
<1>5. /\ count' \in PerWindow
      /\ conc' \in [Holder -> Nat] /\ leaked' \in [Holder -> Nat]
      /\ spared' \in [Holder -> SUBSET Request]
      /\ \A g \in Holder : conc'[g] - leaked'[g] = conc[g] - leaked[g]
  <2>1. CASE /\ k \in WindowKinds
             /\ \E n \in {0, Amount(r, k)} : count' = [count EXCEPT ![h][k][w] = @ + n]
             /\ UNCHANGED <<conc, leaked, spared>>
    <3>1. PICK n \in {0, Amount(r, k)} : count' = [count EXCEPT ![h][k][w] = @ + n]
      BY <2>1
    <3>2. n \in Nat /\ k \in WindowKinds /\ w \in Windows /\ count \in PerWindow
      BY <1>1, <1>3, <1>4, <2>1 DEF TypeOK
    <3>3. count' \in PerWindow
      BY <3>1, <3>2, <1>3, TableEntry
    <3> QED
      BY <2>1, <3>3, <1>1 DEF TypeOK
  <2>2. CASE /\ \E n \in 0 .. 1 : /\ conc' = [conc EXCEPT ![h] = @ + n]
                                  /\ leaked' = [leaked EXCEPT ![h] = @ + n]
             /\ spared' = [spared EXCEPT ![h] = @ \cup {r}]
             /\ UNCHANGED count
    <3>1. PICK n \in 0 .. 1 : /\ conc' = [conc EXCEPT ![h] = @ + n]
                              /\ leaked' = [leaked EXCEPT ![h] = @ + n]
      BY <2>2
    <3>2. /\ conc[h] + n \in Nat /\ leaked[h] + n \in Nat
          /\ conc \in [Holder -> Nat] /\ leaked \in [Holder -> Nat]
      BY <1>1, <1>3 DEF TypeOK
    <3>3. conc' \in [Holder -> Nat] /\ leaked' \in [Holder -> Nat]
      BY <3>1, <3>2
    <3>4. /\ conc'[h] = conc[h] + n /\ leaked'[h] = leaked[h] + n
          /\ \A g \in Holder \ {h} : conc'[g] = conc[g] /\ leaked'[g] = leaked[g]
      BY <3>1, <3>2, <1>3
    <3>5. \A g \in Holder : conc'[g] - leaked'[g] = conc[g] - leaked[g]
      <4> SUFFICES ASSUME NEW g \in Holder
                   PROVE  conc'[g] - leaked'[g] = conc[g] - leaked[g]
        OBVIOUS
      <4>1. conc[g] \in Nat /\ leaked[g] \in Nat /\ n \in Nat
        BY <3>2
      <4>2. CASE g = h
        BY <3>4, <4>1, <4>2
      <4>3. CASE g # h
        BY <3>4, <4>1, <4>3
      <4> QED
        BY <4>2, <4>3
    <3>6. spared' \in [Holder -> SUBSET Request]
      BY <2>2, <1>1 DEF TypeOK
    <3> QED
      BY <2>2, <3>3, <3>5, <3>6, <1>1 DEF TypeOK
  <2> QED
    BY <1>2, <2>1, <2>2
<1>6. /\ stage' \in [Request -> 0 .. Passed]
      /\ pc' \in [Request -> PC]
      /\ pc'[r] \in {"reserve", "served"}
      /\ pc'[r] = "reserve" => stage'[r] \in 1 .. 10
      /\ stage'[r] > stage[r]
      /\ \A q \in Request \ {r} : pc'[q] = pc[q] /\ stage'[q] = stage[q]
  BY <1>1, Advanced
<1>7. TypeOK'
  BY <1>1, <1>5, <1>6 DEF TypeOK
<1>8. SlotsInOrder'
  BY <1>1, <1>6, Place DEF Balanced, SlotsInOrder, UserOf
<1>9. CounterBalance'
  <2>1. \A g \in Holder : Undoing(g)' = Undoing(g)
    BY <1>1, <1>6, UndoingSame
  <2>2. \A g \in Holder : Holding(g)' = Holding(g)
    BY <1>1 DEF Holding
  <2> SUFFICES ASSUME NEW g \in Holder
               PROVE  conc'[g] = Cardinality(Holding(g)') + Cardinality(Undoing(g)') + leaked'[g]
    BY DEF CounterBalance
  <2>3. Cardinality(Undoing(g)') = Cardinality(Undoing(g))
    BY <2>1, Zenon
  <2>4. Cardinality(Holding(g)') = Cardinality(Holding(g))
    BY <2>2, Zenon
  <2>5. /\ conc[g] = Cardinality(Holding(g)) + Cardinality(Undoing(g)) + leaked[g]
        /\ conc[g] \in Nat /\ leaked[g] \in Nat
        /\ Cardinality(Holding(g)) \in Nat /\ Cardinality(Undoing(g)) \in Nat
    BY Sum
  <2>6. conc'[g] \in Nat /\ leaked'[g] \in Nat /\ conc'[g] - leaked'[g] = conc[g] - leaked[g]
    BY <1>5
  <2> QED
    BY <2>3, <2>4, <2>5, <2>6
<1> QED
  BY <1>7, <1>8, <1>9 DEF Balanced

LEMMA MoveKeeps ==
  ASSUME Balanced, NEW r \in Request, EndServing(r) \/ Finish(r)
  PROVE  Balanced'
<1> USE DEF Balanced
<1>1. /\ pc[r] # "undo"
      /\ pc' = [pc EXCEPT ![r] = "release"] \/ pc' = [pc EXCEPT ![r] = "over"]
      /\ UNCHANGED <<second, count, conc, granted, leaked, stage, slots, spared>>
  BY DEF EndServing, Finish, Goto, counters
<1>2. /\ pc' \in [Request -> PC] /\ pc'[r] \in {"release", "over"}
      /\ \A q \in Request \ {r} : pc'[q] = pc[q]
  BY <1>1 DEF TypeOK, PC
<1>3. TypeOK'
  BY <1>1, <1>2 DEF TypeOK
<1>4. SlotsInOrder'
  BY <1>1, <1>2 DEF SlotsInOrder, UserOf
<1>5. CounterBalance'
  BY <1>1, <1>2, BalanceSame
<1> QED
  BY <1>3, <1>4, <1>5

LEMMA ReleaseKeeps ==
  ASSUME Balanced, NEW r \in Request, Release(r) \/ ReleaseError(r)
  PROVE  Balanced'
<1> DEFINE h == NextToRelease(r)
<1>1. /\ pc[r] = "release" /\ slots[r] # {}
      /\ \/ conc' = [conc EXCEPT ![h] = conc[h] - 1] /\ UNCHANGED leaked
         \/ leaked' = [leaked EXCEPT ![h] = leaked[h] + 1] /\ UNCHANGED conc
      /\ slots' = [slots EXCEPT ![r] = @ \ {h}]
      /\ UNCHANGED <<second, count, granted, pc, stage, spared>>
  BY DEF Release, ReleaseError, Released
<1>2. h \in Holder /\ h \in slots[r]
  BY <1>1, Place, Holders DEF NextToRelease
<1> HIDE DEF h
<1>3. TypeOK
  BY DEF Balanced
<1>4. /\ slots' \in [Request -> SUBSET Holder] /\ slots'[r] = slots[r] \ {h}
      /\ \A q \in Request \ {r} : slots'[q] = slots[q]
  BY <1>1, <1>3 DEF TypeOK
<1>5. \A g \in Holder : /\ Holding(g)' = IF g = h THEN Holding(g) \ {r} ELSE Holding(g)
                        /\ Undoing(g)' = Undoing(g)
  BY <1>1, <1>4 DEF Holding, Undoing, HolderAt, UserOf
<1>6. conc[h] \in Nat /\ conc[h] >= 1 /\ leaked[h] \in Nat
  <2>1. r \in Holding(h)
    BY <1>2 DEF Holding
  <2>2. /\ conc[h] = Cardinality(Holding(h)) + Cardinality(Undoing(h)) + leaked[h]
        /\ conc[h] \in Nat /\ leaked[h] \in Nat
        /\ Cardinality(Holding(h)) \in Nat /\ Cardinality(Undoing(h)) \in Nat
        /\ r \in Holding(h) => Cardinality(Holding(h)) >= 1
    BY <1>2, Sum
  <2> QED
    BY <2>1, <2>2
<1>7. /\ conc' \in [Holder -> Nat] /\ leaked' \in [Holder -> Nat]
      /\ conc'[h] - leaked'[h] = conc[h] - leaked[h] - 1
      /\ \A g \in Holder \ {h} : conc'[g] = conc[g] /\ leaked'[g] = leaked[g]
  BY <1>1, <1>2, <1>3, <1>6 DEF TypeOK
<1>8. TypeOK'
  BY <1>1, <1>3, <1>4, <1>7 DEF TypeOK
<1>9. SlotsInOrder'
  BY <1>1, <1>4 DEF Balanced, SlotsInOrder, UserOf
<1>10. CounterBalance'
  <2> SUFFICES ASSUME NEW g \in Holder
               PROVE  conc'[g] = Cardinality(Holding(g)') + Cardinality(Undoing(g)') + leaked'[g]
    BY DEF CounterBalance
  <2>1. Cardinality(Undoing(g)') = Cardinality(Undoing(g))
    BY <1>5, Zenon
  <2>2. /\ conc[g] = Cardinality(Holding(g)) + Cardinality(Undoing(g)) + leaked[g]
        /\ conc[g] \in Nat /\ leaked[g] \in Nat
        /\ Cardinality(Holding(g)) \in Nat /\ Cardinality(Undoing(g)) \in Nat
    BY Sum
  <2>3. conc'[g] \in Nat /\ leaked'[g] \in Nat
    BY <1>7
  <2>4. CASE g = h
    <3>1. Holding(g)' = Holding(g) \ {r}
      BY <1>5, <2>4
    <3>2. Cardinality(Holding(g)') = Cardinality(Holding(g)) - (IF r \in Holding(g) THEN 1 ELSE 0)
      BY <3>1, SumAfter, Zenon
    <3>3. r \in Holding(g)
      BY <1>2, <2>4 DEF Holding
    <3> QED
      BY <3>2, <3>3, <2>1, <2>2, <2>3, <2>4, <1>7
  <2>5. CASE g # h
    <3>1. Cardinality(Holding(g)') = Cardinality(Holding(g))
      BY <1>5, <2>5, Zenon
    <3> QED
      BY <3>1, <2>1, <2>2, <2>3, <2>5, <1>7
  <2> QED
    BY <2>4, <2>5
<1> QED
  BY <1>8, <1>9, <1>10 DEF Balanced

LEMMA ExpiryKeeps ==
  ASSUME Balanced, NEW h \in Holder, CounterExpires(h)
  PROVE  Balanced'
<1>1. /\ Holding(h) = {} /\ Undoing(h) = {}
      /\ conc' = [conc EXCEPT ![h] = 0] /\ leaked' = [leaked EXCEPT ![h] = 0]
      /\ UNCHANGED <<second, count, granted, pc, stage, slots, spared>>
  BY DEF CounterExpires
<1>2. TypeOK'
  BY <1>1 DEF Balanced, TypeOK
<1>3. SlotsInOrder'
  BY <1>1 DEF Balanced, SlotsInOrder, UserOf
<1>4. \A g \in Holder : Holding(g)' = Holding(g) /\ Undoing(g)' = Undoing(g)
  BY <1>1 DEF Holding, Undoing, HolderAt, UserOf
<1>5. CounterBalance'
  <2> SUFFICES ASSUME NEW g \in Holder
               PROVE  conc'[g] = Cardinality(Holding(g)') + Cardinality(Undoing(g)') + leaked'[g]
    BY DEF CounterBalance
  <2>1. Cardinality(Holding(g)') = Cardinality(Holding(g))
        /\ Cardinality(Undoing(g)') = Cardinality(Undoing(g))
    BY <1>4, Zenon
  <2>2. CASE g = h
    <3>1. Cardinality({}) = 0
      BY FS_EmptySet
    <3>2. Cardinality(Holding(g)) = 0 /\ Cardinality(Undoing(g)) = 0
      BY <1>1, <2>2, <3>1, Zenon
    <3>3. conc'[g] = 0 /\ leaked'[g] = 0
      BY <1>1, <2>2 DEF Balanced, TypeOK
    <3> QED
      BY <2>1, <3>2, <3>3
  <2>3. CASE g # h
    <3>1. conc'[g] = conc[g] /\ leaked'[g] = leaked[g]
      BY <1>1, <2>3 DEF Balanced, TypeOK
    <3>2. conc[g] = Cardinality(Holding(g)) + Cardinality(Undoing(g)) + leaked[g]
      BY Sum
    <3> QED
      BY <2>1, <3>1, <3>2
  <2> QED
    BY <2>2, <2>3
<1> QED
  BY <1>2, <1>3, <1>5 DEF Balanced

LEMMA KillKeeps ==
  ASSUME Balanced, NEW r \in Request, Kill(r)
  PROVE  Balanced'
<1>1. /\ leaked' = [h \in Holder |-> leaked[h] + (IF r \in Holding(h) THEN 1 ELSE 0)
                                               + (IF r \in Undoing(h) THEN 1 ELSE 0)]
      /\ slots' = [slots EXCEPT ![r] = {}]
      /\ pc' = [pc EXCEPT ![r] = "over"]
      /\ UNCHANGED <<second, count, conc, granted, stage, spared>>
  BY DEF Kill, Goto
<1>2. TypeOK
  BY DEF Balanced
<1>3. \A h \in Holder :
        leaked'[h] = leaked[h] + (IF r \in Holding(h) THEN 1 ELSE 0)
                               + (IF r \in Undoing(h) THEN 1 ELSE 0)
  BY <1>1
<1>4. leaked' \in [Holder -> Nat]
  BY <1>1, <1>2 DEF TypeOK
<1>5. TypeOK'
  BY <1>1, <1>2, <1>4 DEF TypeOK, PC
<1>6. SlotsInOrder'
  BY <1>1, <1>2 DEF Balanced, SlotsInOrder, UserOf, TypeOK
<1>7. \A h \in Holder : Holding(h)' = Holding(h) \ {r} /\ Undoing(h)' = Undoing(h) \ {r}
  BY <1>1, <1>2 DEF Holding, Undoing, HolderAt, UserOf, TypeOK
<1>8. CounterBalance'
  <2> SUFFICES ASSUME NEW h \in Holder
               PROVE  conc'[h] = Cardinality(Holding(h)') + Cardinality(Undoing(h)') + leaked'[h]
    BY DEF CounterBalance
  <2>1. Cardinality(Holding(h)') = Cardinality(Holding(h)) - (IF r \in Holding(h) THEN 1 ELSE 0)
    BY <1>7, SumAfter, Zenon
  <2>2. Cardinality(Undoing(h)') = Cardinality(Undoing(h)) - (IF r \in Undoing(h) THEN 1 ELSE 0)
    BY <1>7, SumAfter, Zenon
  <2>3. /\ conc[h] = Cardinality(Holding(h)) + Cardinality(Undoing(h)) + leaked[h]
        /\ conc[h] \in Nat /\ leaked[h] \in Nat /\ conc'[h] = conc[h]
        /\ Cardinality(Holding(h)) \in Nat /\ Cardinality(Undoing(h)) \in Nat
    BY <1>1, Sum
  <2> QED
    BY <2>1, <2>2, <2>3, <1>3
<1> QED
  BY <1>5, <1>6, <1>8 DEF Balanced

\* A step that leaves requests and concurrency counters alone.
LEMMA QuietKeeps ==
  ASSUME Balanced, Tick \/ UNCHANGED vars
  PROVE  Balanced'
<1>1. /\ second' = second \/ (second < LastSecond /\ second' = second + 1)
      /\ UNCHANGED <<count, conc, granted, leaked, pc, stage, slots, spared>>
  BY DEF Tick, vars, counters
<1>2. second' \in Windows
  BY <1>1, LimitsAssumption DEF Balanced, TypeOK, Windows
<1>3. TypeOK'
  BY <1>1, <1>2 DEF Balanced, TypeOK
<1>4. SlotsInOrder'
  BY <1>1 DEF Balanced, SlotsInOrder, UserOf
<1>5. \A g \in Holder : Holding(g)' = Holding(g) /\ Undoing(g)' = Undoing(g)
  BY <1>1 DEF Holding, Undoing, HolderAt, UserOf
<1>6. CounterBalance'
  BY <1>1, <1>5, Zenon DEF Balanced, CounterBalance
<1> QED
  BY <1>3, <1>4, <1>6 DEF Balanced

LEMMA NextBalanced == Balanced /\ [Next]_vars => Balanced'
<1> SUFFICES ASSUME Balanced, [Next]_vars PROVE Balanced'
  OBVIOUS
<1>1. ASSUME NEW r \in Request,
             Arrive(r) \/ Reserve(r) \/ EndServing(r) \/ Closing(r) \/ Kill(r)
      PROVE  Balanced'
  BY <1>1, ArriveKeeps, TakeWindowKeeps, TakeSlotKeeps, UndoKeeps, TakeErrorKeeps,
     MoveKeeps, ReleaseKeeps, KillKeeps DEF Reserve, Closing
<1>2. ASSUME NEW h \in Holder, CounterExpires(h)
      PROVE  Balanced'
  BY <1>2, ExpiryKeeps
<1>3. CASE Tick \/ Terminated \/ UNCHANGED vars
  BY <1>3, QuietKeeps DEF Terminated
<1> QED
  BY <1>1, <1>2, <1>3 DEF Next

\* Types, the places of slots and the balance of every counter of relay/limits.go
\* hold together, and only together are they kept by every step.
THEOREM AlwaysBalanced == Spec => []Balanced
BY InitBalanced, NextBalanced, PTL DEF Spec

\* Type correctness: no counter of relay/limits.go ever goes below zero, whatever
\* is refused, fails or dies in whatever order.
THEOREM TypeCorrect == Spec => []TypeOK
BY AlwaysBalanced, PTL DEF Balanced

\* A concurrency counter is the slots held, the increments about to be taken back
\* and the slots lost to faults: what reserveTokenLimits and reserveUserLimits
\* take, the handler gives back once, on every path through it.
THEOREM CounterBalanced == Spec => []CounterBalance
BY AlwaysBalanced, PTL DEF Balanced

-------------------------------------------------------------------------------
(* The limits of seconds and minutes                                        *)

\* What was admitted was counted, and was below the limit when it was.
GrantedWasCounted ==
    \A h \in Holder, k \in WindowKinds, w \in Windows :
        /\ granted[h][k][w] <= count[h][k][w]
        /\ Limit[h][k] > 0 => granted[h][k][w] <= Limit[h][k]

LEMMA InitGranted == Init => GrantedWasCounted
<1> SUFFICES ASSUME Init, NEW h \in Holder, NEW k \in WindowKinds, NEW w \in Windows
             PROVE  /\ granted[h][k][w] <= count[h][k][w]
                    /\ Limit[h][k] > 0 => granted[h][k][w] <= Limit[h][k]
  BY DEF GrantedWasCounted
<1>1. granted[h][k][w] = 0 /\ count[h][k][w] = 0
  BY DEF Init
<1>2. Limit[h][k] \in Nat
  BY LimitsAssumption DEF Kinds
<1> QED
  BY <1>1, <1>2

\* Counting more, and admitting no more, changes nothing.
LEMMA CountedMore ==
  ASSUME Balanced, GrantedWasCounted, UNCHANGED granted,
         NEW h \in Holder, NEW k \in WindowKinds, NEW w \in Windows, NEW n \in Nat,
         count' = [count EXCEPT ![h][k][w] = @ + n]
  PROVE  GrantedWasCounted'
<1>1. count \in PerWindow /\ granted \in PerWindow
  BY DEF Balanced, TypeOK
<1>2. /\ count'[h][k][w] = count[h][k][w] + n
      /\ \A g \in Holder, j \in WindowKinds, v \in Windows :
           g # h \/ j # k \/ v # w => count'[g][j][v] = count[g][j][v]
  <2>1. count'[h][k][w] = count[h][k][w] + n
    BY <1>1 DEF PerWindow
  <2>2. ASSUME NEW g \in Holder, NEW j \in WindowKinds, NEW v \in Windows,
               g # h \/ j # k \/ v # w
        PROVE  count'[g][j][v] = count[g][j][v]
    BY <1>1, <2>2, TableEntry
  <2> QED
    BY <2>1, <2>2
<1> SUFFICES ASSUME NEW g \in Holder, NEW j \in WindowKinds, NEW v \in Windows
             PROVE  /\ granted'[g][j][v] <= count'[g][j][v]
                    /\ Limit[g][j] > 0 => granted'[g][j][v] <= Limit[g][j]
  BY DEF GrantedWasCounted
<1>3. granted'[g][j][v] = granted[g][j][v]
  OBVIOUS
<1>4. granted[g][j][v] \in Nat /\ count[g][j][v] \in Nat
  BY <1>1 DEF PerWindow
<1>5. /\ granted[g][j][v] <= count[g][j][v]
      /\ Limit[g][j] > 0 => granted[g][j][v] <= Limit[g][j]
  BY DEF GrantedWasCounted
<1>6. count'[g][j][v] >= count[g][j][v]
  <2>1. CASE g = h /\ j = k /\ v = w
    BY <1>2, <1>4, <2>1
  <2>2. CASE g # h \/ j # k \/ v # w
    BY <1>2, <1>4, <2>2
  <2> QED
    BY <2>1, <2>2
<1>7. count'[g][j][v] \in Int
  <2>1. CASE g = h /\ j = k /\ v = w
    BY <1>2, <1>4, <2>1
  <2>2. CASE g # h \/ j # k \/ v # w
    BY <1>2, <1>4, <2>2
  <2> QED
    BY <2>1, <2>2
<1> QED
  BY <1>3, <1>4, <1>5, <1>6, <1>7

\* Counting and admitting what fits.
LEMMA AdmittedMore ==
  ASSUME Balanced, GrantedWasCounted,
         NEW h \in Holder, NEW k \in WindowKinds, NEW w \in Windows, NEW n \in Nat,
         count[h][k][w] + n <= Limit[h][k],
         count' = [count EXCEPT ![h][k][w] = @ + n],
         granted' = [granted EXCEPT ![h][k][w] = @ + n]
  PROVE  GrantedWasCounted'
<1>1. count \in PerWindow /\ granted \in PerWindow
  BY DEF Balanced, TypeOK
<1>2. /\ count'[h][k][w] = count[h][k][w] + n
      /\ \A g \in Holder, j \in WindowKinds, v \in Windows :
           g # h \/ j # k \/ v # w => count'[g][j][v] = count[g][j][v]
  <2>1. count'[h][k][w] = count[h][k][w] + n
    BY <1>1 DEF PerWindow
  <2>2. ASSUME NEW g \in Holder, NEW j \in WindowKinds, NEW v \in Windows,
               g # h \/ j # k \/ v # w
        PROVE  count'[g][j][v] = count[g][j][v]
    BY <1>1, <2>2, TableEntry
  <2> QED
    BY <2>1, <2>2
<1>3. /\ granted'[h][k][w] = granted[h][k][w] + n
      /\ \A g \in Holder, j \in WindowKinds, v \in Windows :
           g # h \/ j # k \/ v # w => granted'[g][j][v] = granted[g][j][v]
  <2>1. granted'[h][k][w] = granted[h][k][w] + n
    BY <1>1 DEF PerWindow
  <2>2. ASSUME NEW g \in Holder, NEW j \in WindowKinds, NEW v \in Windows,
               g # h \/ j # k \/ v # w
        PROVE  granted'[g][j][v] = granted[g][j][v]
    BY <1>1, <2>2, TableEntry
  <2> QED
    BY <2>1, <2>2
<1> SUFFICES ASSUME NEW g \in Holder, NEW j \in WindowKinds, NEW v \in Windows
             PROVE  /\ granted'[g][j][v] <= count'[g][j][v]
                    /\ Limit[g][j] > 0 => granted'[g][j][v] <= Limit[g][j]
  BY DEF GrantedWasCounted
<1>4. /\ granted[g][j][v] \in Nat /\ count[g][j][v] \in Nat /\ Limit[g][j] \in Nat
  BY <1>1, LimitsAssumption DEF PerWindow, Kinds
<1>5. /\ granted[g][j][v] <= count[g][j][v]
      /\ Limit[g][j] > 0 => granted[g][j][v] <= Limit[g][j]
  BY DEF GrantedWasCounted
<1>6. CASE g = h /\ j = k /\ v = w
  BY <1>2, <1>3, <1>4, <1>5, <1>6
<1>7. CASE g # h \/ j # k \/ v # w
  BY <1>2, <1>3, <1>4, <1>5, <1>7
<1> QED
  BY <1>6, <1>7

LEMMA NextGranted ==
  ASSUME Balanced, GrantedWasCounted, [Next]_vars
  PROVE  GrantedWasCounted'
<1>1. ASSUME NEW r \in Request, TakeWindow(r)
      PROVE  GrantedWasCounted'
  <2> DEFINE h == HolderAt(r, stage[r])
             k == KindAt(stage[r])
             w == Window(k)
             n == Amount(r, k)
  <2>1. /\ pc[r] = "reserve" /\ k \in WindowKinds
        /\ count' = [count EXCEPT ![h][k][w] = @ + n]
        /\ \/ /\ count[h][k][w] + n <= Limit[h][k]
              /\ granted' = [granted EXCEPT ![h][k][w] = @ + n]
           \/ UNCHANGED granted
    BY <1>1 DEF TakeWindow, Reserving, Count, Fits
  <2>2. h \in Holder /\ k \in WindowKinds /\ w \in Windows /\ n \in Nat
    BY <2>1, Place, Holders, WindowType DEF Balanced, Kinds
  <2> HIDE DEF h, k, w, n
  <2> QED
    BY <2>1, <2>2, CountedMore, AdmittedMore
<1>2. ASSUME NEW r \in Request, TakeError(r)
      PROVE  GrantedWasCounted'
  <2> DEFINE h == HolderAt(r, stage[r])
             k == KindAt(stage[r])
             w == Window(k)
  <2>1. /\ pc[r] = "reserve" /\ UNCHANGED granted
        /\ \/ /\ k \in WindowKinds
              /\ \E n \in {0, Amount(r, k)} : count' = [count EXCEPT ![h][k][w] = @ + n]
           \/ UNCHANGED count
    BY <1>2 DEF TakeError, Reserving, Count
  <2>2. h \in Holder /\ Amount(r, k) \in Nat /\ (k \in WindowKinds => w \in Windows)
    BY <2>1, Place, Holders, WindowType DEF Balanced
  <2> HIDE DEF h, k, w
  <2>3. CASE /\ k \in WindowKinds
             /\ \E n \in {0, Amount(r, k)} : count' = [count EXCEPT ![h][k][w] = @ + n]
    <3>1. PICK n \in {0, Amount(r, k)} : count' = [count EXCEPT ![h][k][w] = @ + n]
      BY <2>3
    <3>2. n \in Nat
      BY <2>2
    <3> QED
      BY <2>1, <2>2, <2>3, <3>1, <3>2, CountedMore
  <2>4. CASE UNCHANGED count
    BY <2>1, <2>4 DEF GrantedWasCounted
  <2> QED
    BY <2>1, <2>3, <2>4
<1>3. CASE UNCHANGED <<count, granted>>
  BY <1>3 DEF GrantedWasCounted
<1> QED
  BY <1>1, <1>2, <1>3 DEF Next, Reserve, Closing, Arrive, TakeSlot, Undo, UndoError,
     EndServing, Release, ReleaseError, Finish, CounterExpires, Kill, Tick, Terminated,
     counters, vars

\* In no second and no minute does a key or a user get more than its limit
\* admitted: a limit of relay/limits.go is kept by INCR alone, however many
\* requests count at once, on however many replicas.
THEOREM WindowsBounded == Spec => []WindowBound
<1>1. Balanced /\ GrantedWasCounted /\ [Next]_vars => GrantedWasCounted'
  BY NextGranted
<1>2. GrantedWasCounted => WindowBound
  BY DEF GrantedWasCounted, WindowBound
<1> QED
  BY InitGranted, AlwaysBalanced, <1>1, <1>2, PTL DEF Spec

-------------------------------------------------------------------------------
(* The limits of concurrency                                                *)

\* Past a concurrency counter that has a limit, a request holds a slot of it,
\* or an error let it pass.
PassedHolds ==
    \A r \in Request :
        /\ \/ pc[r] = "served"
           \/ pc[r] \in {"reserve", "undo"} /\ stage[r] > 5
           => \/ Limit[TokenOf[r]]["concurrency"] = 0
              \/ TokenOf[r] \in slots[r]
              \/ r \in spared[TokenOf[r]]
        /\ pc[r] = "served"
           => \/ Limit[UserOf(r)]["concurrency"] = 0
              \/ UserOf(r) \in slots[r]
              \/ r \in spared[UserOf(r)]

\* No more slots are held than there are.
SlotsBounded ==
    \A h \in Holder :
        Limit[h]["concurrency"] > 0 => Cardinality(Holding(h)) <= Limit[h]["concurrency"]

LEMMA InitServing == Init => PassedHolds /\ SlotsBounded
<1> SUFFICES ASSUME Init PROVE PassedHolds /\ SlotsBounded
  OBVIOUS
<1>1. PassedHolds
  BY DEF Init, PassedHolds
<1>2. ASSUME NEW h \in Holder
      PROVE  Cardinality(Holding(h)) = 0 /\ Limit[h]["concurrency"] \in Nat
  <2>1. Holding(h) = {}
    BY DEF Init, Holding
  <2>2. Cardinality({}) = 0
    BY FS_EmptySet
  <2>3. Cardinality(Holding(h)) = 0
    BY <2>1, <2>2, Zenon
  <2> QED
    BY <2>3, LimitsAssumption DEF Kinds
<1> QED
  BY <1>1, <1>2 DEF SlotsBounded

\* Advance passes over no concurrency counter that has a limit.
LEMMA PassesOver ==
  ASSUME TypeOK, NEW r \in Request, Advance(r)
  PROVE  /\ stage[r] < 5 /\ (pc'[r] = "served" \/ stage'[r] > 5) =>
              Limit[TokenOf[r]]["concurrency"] = 0
         /\ stage[r] < 10 /\ pc'[r] = "served" => Limit[UserOf(r)]["concurrency"] = 0
<1>1. PICK i \in stage[r] + 1 .. Passed :
           /\ stage' = [stage EXCEPT ![r] = i]
           /\ pc' = [pc EXCEPT ![r] = IF i = Passed THEN "served" ELSE "reserve"]
           /\ \A j \in stage[r] + 1 .. i - 1 : ~LimitedAt(r, j)
  BY AdvanceStep
<1>2. stage[r] \in 0 .. 11 /\ i \in 1 .. 11 /\ stage'[r] = i
      /\ (pc'[r] = "served" <=> i = 11)
  BY <1>1 DEF TypeOK, Passed
<1>3. /\ KindAt(5) = "concurrency" /\ KindAt(10) = "concurrency"
      /\ HolderAt(r, 5) = TokenOf[r] /\ HolderAt(r, 10) = UserOf(r)
  BY DEF KindAt, InOrder, HolderAt
<1>4. Amount(r, "concurrency") = 1
  BY Holders
<1>5. /\ Limit[TokenOf[r]]["concurrency"] \in Nat /\ Limit[UserOf(r)]["concurrency"] \in Nat
  BY Holders, LimitsAssumption DEF Kinds
<1>6. /\ LimitedAt(r, 5) <=> Limit[TokenOf[r]]["concurrency"] # 0
      /\ LimitedAt(r, 10) <=> Limit[UserOf(r)]["concurrency"] # 0
  BY <1>3, <1>4, <1>5 DEF LimitedAt
<1>7. stage[r] < 5 /\ i > 5 => ~LimitedAt(r, 5)
  BY <1>1, <1>2
<1>8. stage[r] < 10 /\ i = 11 => ~LimitedAt(r, 10)
  BY <1>1, <1>2
<1> QED
  BY <1>2, <1>6, <1>7, <1>8

\* r goes on, and has a slot of the counter it leaves, or was let pass.
LEMMA AdvanceHolds ==
  ASSUME Balanced, PassedHolds, NEW r \in Request, Advance(r),
         pc[r] \in {"idle", "reserve"},
         \A q \in Request : slots[q] \subseteq slots'[q],
         \A h \in Holder : spared[h] \subseteq spared'[h],
         stage[r] = 5 => TokenOf[r] \in slots'[r] \/ r \in spared'[TokenOf[r]],
         stage[r] = 10 => UserOf(r) \in slots'[r] \/ r \in spared'[UserOf(r)]
  PROVE  PassedHolds'
<1>1. /\ TypeOK
      /\ stage[r] \in 0 .. 11 /\ (pc[r] = "idle" => stage[r] = 0)
      /\ (pc[r] = "reserve" => stage[r] \in 1 .. 10)
  BY DEF Balanced, SlotsInOrder, TypeOK, Passed
<1>2. /\ pc'[r] \in {"reserve", "served"}
      /\ \A q \in Request \ {r} : pc'[q] = pc[q] /\ stage'[q] = stage[q]
  BY <1>1, Advanced
<1>3. \A q \in Request : TokenOf[q] \in Holder /\ UserOf(q) \in Holder
  BY Holders
<1>4. ASSUME pc'[r] = "served" \/ stage'[r] > 5
      PROVE  \/ Limit[TokenOf[r]]["concurrency"] = 0
             \/ TokenOf[r] \in slots'[r]
             \/ r \in spared'[TokenOf[r]]
  <2>1. CASE stage[r] < 5
    BY <1>1, <1>4, <2>1, PassesOver
  <2>2. CASE stage[r] > 5
    BY <1>1, <1>3, <2>2 DEF PassedHolds
  <2> QED
    BY <1>1, <2>1, <2>2
<1>5. ASSUME pc'[r] = "served"
      PROVE  \/ Limit[UserOf(r)]["concurrency"] = 0
             \/ UserOf(r) \in slots'[r]
             \/ r \in spared'[UserOf(r)]
  <2>1. CASE stage[r] < 10
    BY <1>1, <1>5, <2>1, PassesOver
  <2>2. stage[r] < 10 \/ stage[r] = 10
    BY <1>1
  <2> QED
    BY <2>1, <2>2
<1>6. ASSUME NEW q \in Request \ {r}
      PROVE  /\ \/ pc'[q] = "served"
                \/ pc'[q] \in {"reserve", "undo"} /\ stage'[q] > 5
                => \/ Limit[TokenOf[q]]["concurrency"] = 0
                   \/ TokenOf[q] \in slots'[q]
                   \/ q \in spared'[TokenOf[q]]
             /\ pc'[q] = "served"
                => \/ Limit[UserOf(q)]["concurrency"] = 0
                   \/ UserOf(q) \in slots'[q]
                   \/ q \in spared'[UserOf(q)]
  BY <1>2, <1>3, <1>6 DEF PassedHolds
<1> QED
  BY <1>2, <1>4, <1>5, <1>6 DEF PassedHolds, UserOf

\* r takes no further part in reserving or serving; slots of others stay.
LEMMA LeaveHolds ==
  ASSUME PassedHolds, NEW r \in Request, UNCHANGED <<stage, spared>>,
         pc'[r] \notin {"reserve", "undo", "served"},
         \A q \in Request \ {r} : pc'[q] = pc[q] /\ slots'[q] = slots[q]
  PROVE  PassedHolds'
BY DEF PassedHolds, UserOf

LEMMA NextPassed ==
  ASSUME Balanced, PassedHolds, [Next]_vars
  PROVE  PassedHolds'
<1> USE DEF Balanced
<1>1. ASSUME NEW r \in Request, Arrive(r)
      PROVE  PassedHolds'
  <2>1. /\ pc[r] = "idle" /\ Advance(r) /\ UNCHANGED <<slots, spared>> /\ stage[r] = 0
    BY <1>1 DEF Arrive, SlotsInOrder
  <2> QED
    BY <2>1, AdvanceHolds
<1>2. ASSUME NEW r \in Request, TakeWindow(r)
      PROVE  PassedHolds'
  <2>1. /\ pc[r] = "reserve" /\ KindAt(stage[r]) \in WindowKinds
        /\ UNCHANGED <<slots, spared>>
        /\ Advance(r) \/ (UNCHANGED stage /\ pc' = [pc EXCEPT ![r] = "release"])
    BY <1>2 DEF TakeWindow, Reserving, Refuse, Goto
  <2>2. stage[r] \notin {5, 10}
    BY <2>1, Holders, Place DEF WindowKinds
  <2>3. CASE Advance(r)
    BY <2>1, <2>2, <2>3, AdvanceHolds
  <2>4. CASE UNCHANGED stage /\ pc' = [pc EXCEPT ![r] = "release"]
    BY <2>1, <2>4, LeaveHolds DEF TypeOK
  <2> QED
    BY <2>1, <2>3, <2>4
<1>3. ASSUME NEW r \in Request, TakeSlot(r)
      PROVE  PassedHolds'
  <2> DEFINE h == HolderAt(r, stage[r])
  <2>1. /\ pc[r] = "reserve" /\ UNCHANGED spared
        /\ \/ slots' = [slots EXCEPT ![r] = @ \cup {h}] /\ Advance(r)
           \/ pc' = [pc EXCEPT ![r] = "undo"] /\ UNCHANGED <<slots, stage>>
    BY <1>3 DEF TakeSlot, Reserving, Goto
  <2>2. /\ h \in Holder
        /\ stage[r] = 5 => h = TokenOf[r]
        /\ stage[r] = 10 => h = UserOf(r)
    BY <2>1, Place DEF HolderAt
  <2> HIDE DEF h
  <2>3. CASE slots' = [slots EXCEPT ![r] = @ \cup {h}] /\ Advance(r)
    <3>1. /\ slots'[r] = slots[r] \cup {h}
          /\ \A q \in Request : slots[q] \subseteq slots'[q]
      BY <2>2, <2>3 DEF TypeOK
    <3> QED
      BY <2>1, <2>2, <2>3, <3>1, AdvanceHolds
  <2>4. CASE pc' = [pc EXCEPT ![r] = "undo"] /\ UNCHANGED <<slots, stage>>
    BY <2>1, <2>4 DEF PassedHolds, UserOf, TypeOK
  <2> QED
    BY <2>1, <2>3, <2>4
<1>4. ASSUME NEW r \in Request, TakeError(r)
      PROVE  PassedHolds'
  <2> DEFINE h == HolderAt(r, stage[r])
  <2>1. /\ pc[r] = "reserve" /\ UNCHANGED slots /\ Advance(r)
        /\ \/ KindAt(stage[r]) \in WindowKinds /\ UNCHANGED spared
           \/ spared' = [spared EXCEPT ![h] = @ \cup {r}]
    BY <1>4 DEF TakeError, Reserving
  <2>2. /\ h \in Holder
        /\ stage[r] = 5 => h = TokenOf[r]
        /\ stage[r] = 10 => h = UserOf(r)
    BY <2>1, Place DEF HolderAt
  <2>3. KindAt(stage[r]) \in WindowKinds => stage[r] \notin {5, 10}
    BY <2>1, Holders, Place DEF WindowKinds
  <2> HIDE DEF h
  <2>4. /\ \A g \in Holder : spared[g] \subseteq spared'[g]
        /\ stage[r] \in {5, 10} => r \in spared'[h]
    BY <2>1, <2>2, <2>3 DEF TypeOK
  <2> QED
    BY <2>1, <2>2, <2>4, AdvanceHolds
<1>5. ASSUME NEW r \in Request,
             Undo(r) \/ UndoError(r) \/ EndServing(r) \/ Finish(r) \/ Kill(r)
      PROVE  PassedHolds'
  <2>1. /\ pc' = [pc EXCEPT ![r] = "release"] \/ pc' = [pc EXCEPT ![r] = "over"]
        /\ slots' = slots \/ slots' = [slots EXCEPT ![r] = {}]
        /\ UNCHANGED <<stage, spared>>
    BY <1>5 DEF Undo, UndoError, EndServing, Finish, Kill, Refuse, Goto, counters
  <2> QED
    BY <2>1, LeaveHolds DEF TypeOK
<1>6. ASSUME NEW r \in Request, Release(r) \/ ReleaseError(r)
      PROVE  PassedHolds'
  <2>1. /\ pc[r] = "release" /\ UNCHANGED <<pc, stage, spared>>
        /\ slots' = [slots EXCEPT ![r] = @ \ {NextToRelease(r)}]
    BY <1>6 DEF Release, ReleaseError, Released
  <2> QED
    BY <2>1, LeaveHolds DEF TypeOK
<1>7. CASE UNCHANGED <<pc, stage, slots, spared>>
  BY <1>7 DEF PassedHolds, UserOf
<1> QED
  BY <1>1, <1>2, <1>3, <1>4, <1>5, <1>6, <1>7 DEF Next, Reserve, Closing,
     CounterExpires, Tick, Terminated, vars

\* Fewer or the same slots are held.
LEMMA NoMoreSlots ==
  ASSUME Balanced, SlotsBounded, \A r \in Request : slots'[r] \subseteq slots[r]
  PROVE  SlotsBounded'
<1> SUFFICES ASSUME NEW h \in Holder, Limit[h]["concurrency"] > 0
             PROVE  Cardinality(Holding(h)') <= Limit[h]["concurrency"]
  BY DEF SlotsBounded
<1>1. Holding(h)' \subseteq Holding(h)
  BY DEF Holding
<1>2. Cardinality(Holding(h)') <= Cardinality(Holding(h))
      /\ Cardinality(Holding(h)') \in Nat /\ Cardinality(Holding(h)) \in Nat
  <2>1. IsFiniteSet(Holding(h)) /\ IsFiniteSet(Holding(h)')
    BY <1>1, HoldersFinite, FS_Subset
  <2> QED
    BY <1>1, <2>1, FS_Subset, FS_CardinalityType
<1>3. Cardinality(Holding(h)) <= Limit[h]["concurrency"] /\ Limit[h]["concurrency"] \in Nat
  BY LimitsAssumption DEF SlotsBounded, Kinds
<1> QED
  BY <1>2, <1>3

LEMMA NextSlots ==
  ASSUME Balanced, SlotsBounded, [Next]_vars
  PROVE  SlotsBounded'
<1>1. ASSUME NEW r \in Request, TakeSlot(r), UNCHANGED slots
      PROVE  SlotsBounded'
  BY <1>1, NoMoreSlots
<1>2. ASSUME NEW r \in Request, TakeSlot(r), ~UNCHANGED slots
      PROVE  SlotsBounded'
  <2> DEFINE h == HolderAt(r, stage[r])
  <2>1. /\ conc[h] + 1 <= Limit[h]["concurrency"]
        /\ slots' = [slots EXCEPT ![r] = @ \cup {h}]
    BY <1>2 DEF TakeSlot, SlotFree
  <2>2. h \in Holder /\ h \notin slots[r]
    BY <1>2, Place DEF TakeSlot, Reserving
  <2> HIDE DEF h
  <2>3. \A g \in Holder : Holding(g)' = IF g = h THEN Holding(g) \cup {r} ELSE Holding(g)
    BY <2>1, <2>2 DEF Holding, Balanced, TypeOK
  <2> SUFFICES ASSUME NEW g \in Holder, Limit[g]["concurrency"] > 0
               PROVE  Cardinality(Holding(g)') <= Limit[g]["concurrency"]
    BY DEF SlotsBounded
  <2>4. CASE g = h
    <3>1. Holding(g)' = Holding(g) \cup {r}
      BY <2>3, <2>4
    <3>2. Cardinality(Holding(g)') = Cardinality(Holding(g)) + (IF r \in Holding(g) THEN 0 ELSE 1)
      BY <3>1, SumAfter, Zenon
    <3>3. r \notin Holding(g)
      BY <2>2, <2>4 DEF Holding
    <3>4. /\ conc[g] = Cardinality(Holding(g)) + Cardinality(Undoing(g)) + leaked[g]
          /\ conc[g] \in Nat /\ leaked[g] \in Nat
          /\ Cardinality(Holding(g)) \in Nat /\ Cardinality(Undoing(g)) \in Nat
      BY Sum
    <3>5. Limit[g]["concurrency"] \in Nat /\ conc[g] + 1 <= Limit[g]["concurrency"]
      BY <2>1, <2>4, LimitsAssumption DEF Kinds
    <3> QED
      BY <3>2, <3>3, <3>4, <3>5
  <2>5. CASE g # h
    <3>1. Cardinality(Holding(g)') = Cardinality(Holding(g))
      BY <2>3, <2>5, Zenon
    <3> QED
      BY <3>1 DEF SlotsBounded
  <2> QED
    BY <2>4, <2>5
<1>3. ASSUME NEW r \in Request, Release(r) \/ ReleaseError(r) \/ Kill(r)
      PROVE  SlotsBounded'
  BY <1>3, NoMoreSlots DEF Release, ReleaseError, Released, Kill, Balanced, TypeOK
<1>4. CASE UNCHANGED slots
  BY <1>4, NoMoreSlots
<1> QED
  BY <1>1, <1>2, <1>3, <1>4 DEF Next, Reserve, Closing, Arrive, TakeWindow, TakeError,
     Undo, UndoError, EndServing, Finish, CounterExpires, Tick, Terminated, vars

\* Who is served and was not let pass by an error holds a slot.
LEMMA ServingHolds ==
  ASSUME Balanced, PassedHolds, SlotsBounded
  PROVE  ServingBound
<1> SUFFICES ASSUME NEW h \in Holder, Limit[h]["concurrency"] > 0
             PROVE  Cardinality(Serving(h) \ spared[h]) <= Limit[h]["concurrency"]
  BY DEF ServingBound
<1>1. Serving(h) \ spared[h] \subseteq Holding(h)
  <2> SUFFICES ASSUME NEW r \in Serving(h) \ spared[h]
               PROVE  h \in slots[r] /\ r \in Request
    BY DEF Holding
  <2>1. r \in Request /\ pc[r] = "served" /\ (h = TokenOf[r] \/ h = UserOf(r))
    BY DEF Serving
  <2>2. Limit[h]["concurrency"] # 0
    OBVIOUS
  <2> QED
    BY <2>1, <2>2 DEF PassedHolds
<1>2. Cardinality(Serving(h) \ spared[h]) <= Cardinality(Holding(h))
      /\ Cardinality(Serving(h) \ spared[h]) \in Nat /\ Cardinality(Holding(h)) \in Nat
  <2>1. IsFiniteSet(Holding(h)) /\ IsFiniteSet(Serving(h) \ spared[h])
    BY <1>1, HoldersFinite, FS_Subset
  <2> QED
    BY <1>1, <2>1, FS_Subset, FS_CardinalityType
<1>3. Cardinality(Holding(h)) <= Limit[h]["concurrency"] /\ Limit[h]["concurrency"] \in Nat
  BY LimitsAssumption DEF SlotsBounded, Kinds
<1> QED
  BY <1>2, <1>3

\* Of a key or user with a concurrency limit no more requests are served at a
\* time, whatever order the two limits are taken in by whichever replicas, and
\* whatever is refused, fails, expires or dies on the way.
THEOREM ServingBounded == Spec => []ServingBound
<1>1. Init => Balanced /\ PassedHolds /\ SlotsBounded
  BY InitBalanced, InitServing
<1>2. Balanced /\ PassedHolds /\ SlotsBounded /\ [Next]_vars
      => Balanced' /\ PassedHolds' /\ SlotsBounded'
  BY NextBalanced, NextPassed, NextSlots
<1>3. Balanced /\ PassedHolds /\ SlotsBounded => ServingBound
  BY ServingHolds
<1> QED
  BY <1>1, <1>2, <1>3, PTL DEF Spec

-------------------------------------------------------------------------------
(* What a user's counters hold                                              *)

\* r has come to the counter k of its user, and counted there or passed it.
Through(r, k) ==
    \E i \in 6 .. 9 :
        KindAt(i) = k /\ (stage[r] > i \/ (stage[r] = i /\ pc[r] # "reserve"))

\* What requests can have counted there.
CountedOf(u, k) ==
    [r \in Request |-> IF UserOf(r) = u /\ Through(r, k) THEN Amount(r, k) ELSE 0]

\* The counters of the user hold what requests can have counted, no more.
UserCounted ==
    \A u \in User, k \in WindowKinds :
        Total(count[u][k], Windows) <= Total(CountedOf(u, k), Request)

\* Nobody goes back to a counter.
Onward ==
    \A r \in Request :
        \/ stage'[r] > stage[r]
        \/ stage'[r] = stage[r] /\ (pc'[r] = "reserve" => pc[r] = "reserve")

LEMMA WindowsFinite == IsFiniteSet(Windows)
BY FS_Interval, LimitsAssumption DEF Windows

LEMMA CountedOfType ==
  ASSUME NEW u, NEW k \in WindowKinds
  PROVE  CountedOf(u, k) \in [Request -> Nat]
<1>1. \A r \in Request : Amount(r, k) \in Nat
  BY Holders DEF Kinds
<1> QED
  BY <1>1 DEF CountedOf

LEMMA ThroughStays ==
  ASSUME TypeOK, TypeOK', Onward, NEW r \in Request, NEW k, Through(r, k)
  PROVE  Through(r, k)'
<1>1. PICK i \in 6 .. 9 :
           KindAt(i) = k /\ (stage[r] > i \/ (stage[r] = i /\ pc[r] # "reserve"))
  BY DEF Through
<1>2. stage[r] \in Nat /\ stage'[r] \in Nat
  BY DEF TypeOK, Passed
<1>3. stage'[r] > i \/ (stage'[r] = i /\ pc'[r] # "reserve")
  BY <1>1, <1>2 DEF Onward
<1> QED
  BY <1>1, <1>3 DEF Through

LEMMA CountedOfGrows ==
  ASSUME TypeOK, TypeOK', Onward, NEW u, NEW k \in WindowKinds
  PROVE  /\ Total(CountedOf(u, k), Request) \in Nat /\ Total(CountedOf(u, k)', Request) \in Nat
         /\ Total(CountedOf(u, k), Request) <= Total(CountedOf(u, k)', Request)
<1>1. CountedOf(u, k) \in [Request -> Nat] /\ CountedOf(u, k)' \in [Request -> Nat]
  <2>1. \A r \in Request : Amount(r, k) \in Nat
    BY Holders DEF Kinds
  <2> QED
    BY <2>1 DEF CountedOf
<1>2. \A r \in Request : CountedOf(u, k)[r] <= CountedOf(u, k)'[r]
  <2> SUFFICES ASSUME NEW r \in Request
               PROVE  CountedOf(u, k)[r] <= CountedOf(u, k)'[r]
    OBVIOUS
  <2>1. Through(r, k) => Through(r, k)'
    BY ThroughStays
  <2>2. Amount(r, k) \in Nat
    BY Holders DEF Kinds
  <2>3. CountedOf(u, k)[r] = IF UserOf(r) = u /\ Through(r, k) THEN Amount(r, k) ELSE 0
    BY DEF CountedOf
  <2>4. CountedOf(u, k)'[r] = IF UserOf(r) = u /\ Through(r, k)' THEN Amount(r, k) ELSE 0
    BY DEF CountedOf, UserOf, Amount
  <2> QED
    BY <2>1, <2>2, <2>3, <2>4
<1> QED
  BY <1>1, <1>2, RequestsFinite, TotalMonotone

\* Nothing is counted.
LEMMA CountsSame ==
  ASSUME TypeOK, TypeOK', UserCounted, Onward, UNCHANGED count
  PROVE  UserCounted'
<1> SUFFICES ASSUME NEW u \in User, NEW k \in WindowKinds
             PROVE  Total(count[u][k], Windows)' <= Total(CountedOf(u, k), Request)'
  BY DEF UserCounted
<1>1. Total(count[u][k], Windows) \in Nat
  <2>1. count[u][k] \in [Windows -> Nat]
    BY DEF TypeOK, PerWindow, Holder
  <2> QED
    BY <2>1, WindowsFinite, TotalType
<1>2. Total(count[u][k], Windows) <= Total(CountedOf(u, k), Request)
  BY DEF UserCounted
<1>3. Total(count[u][k], Windows)' = Total(count[u][k], Windows)
  BY DEF Total, Units
<1>4. Total(CountedOf(u, k), Request)' = Total(CountedOf(u, k)', Request)
  BY DEF Total, Units
<1> QED
  BY <1>1, <1>2, <1>3, <1>4, CountedOfGrows

\* The counters of users stand behind those of keys, each in a place of its own.
LEMMA UserPlaces ==
  /\ \A i \in 1 .. 10 : KindAt(i) \in WindowKinds => i \in 1 .. 4 \cup 6 .. 9
  /\ \A i, j \in 6 .. 9 : KindAt(i) = KindAt(j) => i = j
<1>1. /\ KindAt(1) = "qps" /\ KindAt(2) = "tps" /\ KindAt(3) = "rpm" /\ KindAt(4) = "tpm"
      /\ KindAt(5) = "concurrency"
      /\ KindAt(6) = "qps" /\ KindAt(7) = "tps" /\ KindAt(8) = "rpm" /\ KindAt(9) = "tpm"
      /\ KindAt(10) = "concurrency"
  BY DEF KindAt, InOrder
<1>2. ASSUME NEW i \in 1 .. 10, KindAt(i) \in WindowKinds
      PROVE  i \in 1 .. 4 \cup 6 .. 9
  <2>1. KindAt(i) # "concurrency"
    BY <1>2 DEF WindowKinds
  <2>2. i # 5 /\ i # 10
    BY <1>1, <2>1
  <2> QED
    BY <2>2
<1>3. ASSUME NEW i \in 6 .. 9, NEW j \in 6 .. 9, KindAt(i) = KindAt(j)
      PROVE  i = j
  <2>1. i \in {6, 7, 8, 9} /\ j \in {6, 7, 8, 9}
    OBVIOUS
  <2> QED
    BY <1>1, <1>3, <2>1
<1> QED
  BY <1>2, <1>3

\* r counts n, of what it may count, and goes on or is refused.
LEMMA CountsOne ==
  ASSUME Balanced, TypeOK', UserCounted, NEW r \in Request, pc[r] = "reserve",
         KindAt(stage[r]) \in WindowKinds,
         NEW w \in Windows, NEW n \in Nat, n <= Amount(r, KindAt(stage[r])),
         count' = [count EXCEPT ![HolderAt(r, stage[r])][KindAt(stage[r])][w] = @ + n],
         stage'[r] > stage[r] \/ (stage'[r] = stage[r] /\ pc'[r] # "reserve"),
         \A q \in Request \ {r} : pc'[q] = pc[q] /\ stage'[q] = stage[q]
  PROVE  UserCounted'
<1>0. /\ HolderAt(r, stage[r]) \in Holder /\ stage[r] \in 1 .. 10 /\ TypeOK
      /\ Amount(r, KindAt(stage[r])) \in Nat
  BY Place, Holders DEF Balanced, Kinds
<1>1. PICK h \in Holder, k \in WindowKinds :
           /\ h = HolderAt(r, stage[r]) /\ k = KindAt(stage[r])
           /\ count' = [count EXCEPT ![h][k][w] = @ + n]
           /\ Amount(r, k) \in Nat /\ n <= Amount(r, k)
           /\ TypeOK /\ stage[r] \in 1 .. 10 /\ count \in PerWindow /\ count' \in PerWindow
  BY <1>0 DEF TypeOK
<1>2. Onward
  <2>1. \A q \in Request : stage[q] \in Nat /\ stage'[q] \in Nat
    BY <1>1 DEF TypeOK, Passed
  <2> QED
    BY <2>1 DEF Onward
<1>3. /\ count'[h][k][w] = count[h][k][w] + n
      /\ \A g \in Holder, j \in WindowKinds, v \in Windows :
           g # h \/ j # k \/ v # w => count'[g][j][v] = count[g][j][v]
  <2>1. count'[h][k][w] = count[h][k][w] + n
    BY <1>1 DEF PerWindow
  <2>2. ASSUME NEW g \in Holder, NEW j \in WindowKinds, NEW v \in Windows,
               g # h \/ j # k \/ v # w
        PROVE  count'[g][j][v] = count[g][j][v]
    BY <1>1, <2>2, TableEntry
  <2> QED
    BY <2>1, <2>2
<1> SUFFICES ASSUME NEW u \in User, NEW j \in WindowKinds
             PROVE  Total(count'[u][j], Windows) <= Total(CountedOf(u, j)', Request)
  BY DEF UserCounted, Total, Units
<1>4. /\ u \in Holder
      /\ count[u][j] \in [Windows -> Nat] /\ count'[u][j] \in [Windows -> Nat]
  BY <1>1 DEF Holder, PerWindow
<1>5. Total(count[u][j], Windows) <= Total(CountedOf(u, j), Request)
  BY DEF UserCounted
<1>6. /\ Total(CountedOf(u, j), Request) \in Nat /\ Total(CountedOf(u, j)', Request) \in Nat
      /\ Total(CountedOf(u, j), Request) <= Total(CountedOf(u, j)', Request)
  BY <1>1, <1>2, CountedOfGrows
<1>7. CASE u = h /\ j = k
  <2>1. stage[r] \in 6 .. 9 /\ UserOf(r) = u
    <3>1. stage[r] \in 1 .. 4 \cup 6 .. 9
      BY <1>1, UserPlaces
    <3>2. TokenOf[r] \in Token /\ TokenOf[r] \notin User
      BY LimitsAssumption
    <3> QED
      BY <1>1, <1>7, <3>1, <3>2 DEF HolderAt
  <2>2. ~Through(r, j)
    <3> SUFFICES ASSUME NEW i \in 6 .. 9, KindAt(i) = j
                 PROVE  ~(stage[r] > i \/ (stage[r] = i /\ pc[r] # "reserve"))
      BY DEF Through
    <3>1. i = stage[r]
      BY <1>1, <1>7, <2>1, UserPlaces
    <3> QED
      BY <2>1, <3>1
  <2>3. Through(r, j)'
    BY <1>1, <1>7, <2>1 DEF Through, KindAt
  <2>4. CountedOf(u, j)[r] = 0 /\ CountedOf(u, j)'[r] = Amount(r, j)
    BY <2>1, <2>2, <2>3 DEF CountedOf, UserOf, Amount
  <2>5. \A q \in Request \ {r} : CountedOf(u, j)'[q] = CountedOf(u, j)[q]
    <3>1. \A q \in Request \ {r} : Through(q, j)' = Through(q, j)
      BY DEF Through
    <3> QED
      BY <3>1 DEF CountedOf, UserOf, Amount
  <2>6. CountedOf(u, j) \in [Request -> Nat] /\ CountedOf(u, j)' \in [Request -> Nat]
    <3>1. \A q \in Request : Amount(q, j) \in Nat
      BY Holders DEF Kinds
    <3> QED
      BY <3>1 DEF CountedOf
  <2>7. Total(CountedOf(u, j)', Request) = Total(CountedOf(u, j), Request) + Amount(r, j)
    <3>1. Total(CountedOf(u, j)', Request)
            = Total(CountedOf(u, j), Request) - CountedOf(u, j)[r] + CountedOf(u, j)'[r]
      BY <2>5, <2>6, RequestsFinite, TotalUpdate
    <3> QED
      BY <1>1, <1>6, <1>7, <2>4, <3>1
  <2>8. /\ Total(count[u][j], Windows) \in Nat
        /\ Total(count'[u][j], Windows) = Total(count[u][j], Windows) - count[u][j][w]
                                            + count'[u][j][w]
    <3>1. PICK f \in [Windows -> Nat], g \in [Windows -> Nat] : f = count[u][j] /\ g = count'[u][j]
      BY <1>4
    <3>2. \A v \in Windows \ {w} : g[v] = f[v]
      BY <1>1, <1>3, <1>7, <3>1
    <3>3. Total(f, Windows) \in Nat /\ Total(g, Windows) = Total(f, Windows) - f[w] + g[w]
      BY <3>2, WindowsFinite, TotalUpdate
    <3> QED
      BY <3>1, <3>3
  <2>9. count'[u][j][w] = count[u][j][w] + n /\ count[u][j][w] \in Nat
    BY <1>3, <1>4, <1>7
  <2>10. n <= Amount(r, j) /\ Amount(r, j) \in Nat
    BY <1>1, <1>7
  <2> QED
    BY <1>5, <1>6, <2>7, <2>8, <2>9, <2>10
<1>8. CASE ~(u = h /\ j = k)
  <2>1. \A v \in Windows : count'[u][j][v] = count[u][j][v]
    BY <1>3, <1>4, <1>8
  <2>2. Total(count'[u][j], Windows) = Total(count[u][j], Windows)
    BY <2>1, TotalCongruence
  <2>3. Total(count[u][j], Windows) \in Nat
    BY <1>4, WindowsFinite, TotalType
  <2> QED
    BY <1>5, <1>6, <2>2, <2>3
<1> QED
  BY <1>7, <1>8

LEMMA NextCounted ==
  ASSUME Balanced, Balanced', UserCounted, [Next]_vars
  PROVE  UserCounted'
<1>0. TypeOK /\ TypeOK' /\ \A q \in Request : stage[q] \in Nat
  BY DEF Balanced, TypeOK, Passed
<1>1. ASSUME NEW r \in Request, Arrive(r)
      PROVE  UserCounted'
  <2>1. Advance(r) /\ UNCHANGED count
    BY <1>1 DEF Arrive, counters
  <2>2. Onward
    BY <1>0, <2>1, Advanced DEF Onward
  <2> QED
    BY <1>0, <2>1, <2>2, CountsSame
<1>2. ASSUME NEW r \in Request, TakeWindow(r)
      PROVE  UserCounted'
  <2>1. /\ pc[r] = "reserve" /\ KindAt(stage[r]) \in WindowKinds
        /\ count' = [count EXCEPT ![HolderAt(r, stage[r])][KindAt(stage[r])]
                                   [Window(KindAt(stage[r]))] = @ + Amount(r, KindAt(stage[r]))]
        /\ Advance(r) \/ (UNCHANGED stage /\ pc' = [pc EXCEPT ![r] = "release"])
    BY <1>2 DEF TakeWindow, Reserving, Count, Refuse, Goto
  <2>2. /\ stage'[r] > stage[r] \/ (stage'[r] = stage[r] /\ pc'[r] # "reserve")
        /\ \A q \in Request \ {r} : pc'[q] = pc[q] /\ stage'[q] = stage[q]
    BY <1>0, <2>1, Advanced DEF TypeOK
  <2>3. PICK w \in Windows, n \in Nat :
             w = Window(KindAt(stage[r])) /\ n = Amount(r, KindAt(stage[r]))
    BY <1>0, <2>1, WindowType, Holders DEF Kinds
  <2>4. count' = [count EXCEPT ![HolderAt(r, stage[r])][KindAt(stage[r])][w] = @ + n]
    BY <2>1, <2>3
  <2>5. n <= Amount(r, KindAt(stage[r]))
    BY <2>3
  <2> QED
    BY <1>0, <2>1, <2>2, <2>4, <2>5, CountsOne
<1>3. ASSUME NEW r \in Request, TakeError(r)
      PROVE  UserCounted'
  <2>1. pc[r] = "reserve" /\ Advance(r)
    BY <1>3 DEF TakeError, Reserving
  <2>2. /\ stage'[r] > stage[r]
        /\ \A q \in Request \ {r} : pc'[q] = pc[q] /\ stage'[q] = stage[q]
    BY <1>0, <2>1, Advanced
  <2>3. CASE UNCHANGED count
    <3>1. Onward
      BY <1>0, <2>2 DEF Onward
    <3> QED
      BY <1>0, <2>3, <3>1, CountsSame
  <2>4. CASE ~UNCHANGED count
    <3>1. /\ KindAt(stage[r]) \in WindowKinds
          /\ \E n \in {0, Amount(r, KindAt(stage[r]))} :
               count' = [count EXCEPT ![HolderAt(r, stage[r])][KindAt(stage[r])]
                                       [Window(KindAt(stage[r]))] = @ + n]
      BY <1>3, <2>4 DEF TakeError, Reserving, Count
    <3>2. Amount(r, KindAt(stage[r])) \in Nat /\ Window(KindAt(stage[r])) \in Windows
      BY <1>0, <3>1, WindowType, Holders DEF Kinds
    <3>3. PICK w \in Windows : w = Window(KindAt(stage[r]))
      BY <3>2
    <3>4. PICK n \in {0, Amount(r, KindAt(stage[r]))} :
               count' = [count EXCEPT ![HolderAt(r, stage[r])][KindAt(stage[r])][w] = @ + n]
      BY <3>1, <3>3
    <3>5. n \in Nat /\ n <= Amount(r, KindAt(stage[r]))
      BY <3>2
    <3> QED
      BY <1>0, <2>1, <2>2, <3>1, <3>4, <3>5, CountsOne
  <2> QED
    BY <2>3, <2>4
<1>4. ASSUME NEW r \in Request, TakeSlot(r)
      PROVE  UserCounted'
  <2>1. /\ pc[r] = "reserve" /\ UNCHANGED count
        /\ Advance(r) \/ (UNCHANGED stage /\ pc' = [pc EXCEPT ![r] = "undo"])
    BY <1>4 DEF TakeSlot, Reserving, Goto
  <2>2. Onward
    BY <1>0, <2>1, Advanced DEF Onward, TypeOK
  <2> QED
    BY <1>0, <2>1, <2>2, CountsSame
<1>5. ASSUME NEW r \in Request,
             Undo(r) \/ UndoError(r) \/ EndServing(r) \/ Closing(r) \/ Kill(r)
      PROVE  UserCounted'
  <2>1. /\ UNCHANGED <<count, stage>>
        /\ \/ UNCHANGED pc
           \/ pc' = [pc EXCEPT ![r] = "release"]
           \/ pc' = [pc EXCEPT ![r] = "over"]
    BY <1>5 DEF Undo, UndoError, EndServing, Closing, Release, ReleaseError, Finish, Kill, Refuse,
       Goto, counters
  <2>2. Onward
    BY <1>0, <2>1 DEF Onward, TypeOK
  <2> QED
    BY <1>0, <2>1, <2>2, CountsSame
<1>6. CASE (\E h \in Holder : CounterExpires(h)) \/ Tick \/ Terminated \/ UNCHANGED vars
  <2>1. UNCHANGED <<count, stage, pc>>
    BY <1>6 DEF CounterExpires, Tick, Terminated, vars, counters
  <2> QED
    BY <1>0, <2>1, CountsSame DEF Onward
<1> QED
  BY <1>1, <1>2, <1>3, <1>4, <1>5, <1>6 DEF Next, Reserve

\* A request that a limit of its key refuses has cost its user nothing: whatever
\* counts at the same time, is repeated after an error or dies, the counters of
\* the user hold no more than the requests that passed the key could ask.
THEOREM KeysShieldUsers == Spec => []KeyShieldsUser
<1>1. Init => UserCounted
  <2> SUFFICES ASSUME Init, NEW u \in User, NEW k \in WindowKinds
               PROVE  Total(count[u][k], Windows) <= Total(CountedOf(u, k), Request)
    BY DEF UserCounted
  <2>1. \A w \in Windows : count[u][k][w] = 0
    BY DEF Init, Holder
  <2>2. Total(count[u][k], Windows) = 0
    BY <2>1, TotalZero
  <2>3. Total(CountedOf(u, k), Request) \in Nat
    BY CountedOfType, RequestsFinite, TotalType
  <2> QED
    BY <2>2, <2>3
<1>2. ASSUME Balanced, UserCounted
      PROVE  KeyShieldsUser
  <2> SUFFICES ASSUME NEW u \in User, NEW k \in WindowKinds
               PROVE  Total(count[u][k], Windows) <= Total(AskedOf(u, k), Request)
    BY DEF KeyShieldsUser
  <2>1. \A r \in Request : Amount(r, k) \in Nat
    BY Holders DEF Kinds
  <2>2. AskedOf(u, k) \in [Request -> Nat] /\ CountedOf(u, k) \in [Request -> Nat]
    BY <2>1, CountedOfType DEF AskedOf
  <2>3. \A r \in Request : CountedOf(u, k)[r] <= AskedOf(u, k)[r]
    <3> SUFFICES ASSUME NEW r \in Request
                 PROVE  CountedOf(u, k)[r] <= AskedOf(u, k)[r]
      OBVIOUS
    <3>1. Through(r, k) => stage[r] > 5
      BY <1>2 DEF Through, Balanced, TypeOK, Passed
    <3> QED
      BY <2>1, <3>1 DEF CountedOf, AskedOf
  <2>4. Total(CountedOf(u, k), Request) \in Nat /\ Total(AskedOf(u, k), Request) \in Nat
        /\ Total(CountedOf(u, k), Request) <= Total(AskedOf(u, k), Request)
    BY <2>2, <2>3, RequestsFinite, TotalMonotone
  <2>5. Total(count[u][k], Windows) \in Nat
    <3>1. count[u][k] \in [Windows -> Nat]
      BY <1>2 DEF Balanced, TypeOK, PerWindow, Holder
    <3> QED
      BY <3>1, WindowsFinite, TotalType
  <2>6. Total(count[u][k], Windows) <= Total(CountedOf(u, k), Request)
    BY <1>2 DEF UserCounted
  <2> QED
    BY <2>4, <2>5, <2>6
<1> QED
  BY <1>1, <1>2, AlwaysBalanced, NextCounted, PTL DEF Spec
===============================================================================
