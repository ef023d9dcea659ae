--------------------------- MODULE Keyboard_proofs ---------------------------
(***************************************************************************)
(* Debouncing, the report and its delivery, for every number of keys and   *)
(* scans.  The debounce count of a key is an abstraction of the samples:   *)
(* the inductive invariant says which.  That the report shows the keys is  *)
(* an induction over the keys that build_report goes through.              *)
(***************************************************************************)
EXTENDS Keyboard, FiniteSetTheorems, SequenceTheorems, TLAPS

\* A key's count is the number of latest samples that differ from its
\* debounced state; the sample before those agrees with it.
CountInv ==
  \A k \in Keys :
    /\ \A i \in 1..debounce[k] : recent[i][k] # stable[k]
    /\ recent[debounce[k] + 1][k] = stable[k]

\* The report is rebuilt whenever the debounced keys have changed.
ReportInv == report = BuildReport(stable)

LEMMA InitTypes == Init => TypeOK
<1>1. Released \in [Keys -> BOOLEAN]
  BY DEF Released
<1>2. BuildReport(Released) \in Report
  BY <1>1 DEF Report
<1>3. Init => /\ debounce \in [Keys -> 0..DebounceScans - 1] /\ since \in 0..ScanInterval
              /\ recent \in [1..DebounceScans -> [Keys -> BOOLEAN]]
  BY <1>1, SizesAssumption DEF Init
<1>4. Init => /\ down \in SUBSET Keys /\ stable \in [Keys -> BOOLEAN]
              /\ report \in Report /\ pending \in BOOLEAN
  BY <1>1, <1>2 DEF Init
<1>5. Init => /\ mounted \in BOOLEAN /\ busy \in BOOLEAN /\ wired \in BOOLEAN
              /\ handed \in BOOLEAN /\ hostSees \in Report \cup {Empty}
              /\ flight \in {{}} \cup {{r} : r \in Report}
  BY DEF Init
<1>. QED
  BY <1>3, <1>4, <1>5 DEF TypeOK

\* What a scan does to one key.
LEMMA ScanTypes ==
  ASSUME TypeOK, Scan
  PROVE  /\ Sample \in [Keys -> BOOLEAN]
         /\ \A k \in Keys : Count(k) \in 0..DebounceScans
         /\ stable' \in [Keys -> BOOLEAN]
         /\ debounce' \in [Keys -> 0..DebounceScans - 1]
         /\ recent' \in [1..DebounceScans -> [Keys -> BOOLEAN]]
         /\ since' \in 0..ScanInterval
<1>1. Sample \in [Keys -> BOOLEAN]
  BY DEF Sample
<1>2. \A k \in Keys : Count(k) \in 0..DebounceScans
  BY SizesAssumption DEF TypeOK, Count
<1>3. stable' \in [Keys -> BOOLEAN]
  BY <1>1 DEF TypeOK, Scan, Debounce
<1>4. debounce' \in [Keys -> 0..DebounceScans - 1]
  BY <1>2, SizesAssumption DEF Scan, Debounce, Settled
<1>5. \A i \in 1..DebounceScans : i # 1 => i - 1 \in 1..DebounceScans
  BY SizesAssumption
<1>6. recent' \in [1..DebounceScans -> [Keys -> BOOLEAN]]
  BY <1>1, <1>5 DEF TypeOK, Scan
<1>7. since' \in 0..ScanInterval
  BY SizesAssumption DEF Scan
<1>. QED
  BY <1>1, <1>2, <1>3, <1>4, <1>6, <1>7

LEMMA ScanReport ==
  ASSUME TypeOK, Scan
  PROVE  report' \in Report
<1>1. stable' \in [Keys -> BOOLEAN]
  BY ScanTypes
<1>2. BuildReport(stable') \in Report
  BY <1>1 DEF Report
<1>. QED
  BY <1>2 DEF TypeOK, Scan

LEMMA DeliverTypes ==
  ASSUME TypeOK, NEW wanted \in BOOLEAN, Deliver(wanted), report' \in Report
  PROVE  /\ pending' \in BOOLEAN /\ mounted' \in BOOLEAN /\ busy' \in BOOLEAN
         /\ wired' \in BOOLEAN /\ handed' \in BOOLEAN
         /\ flight' \in {{}} \cup {{r} : r \in Report}
         /\ hostSees' \in Report \cup {Empty}
BY DEF TypeOK, Deliver, usb

LEMMA NextTypes == TypeOK /\ [Next]_vars => TypeOK'
<1>. SUFFICES ASSUME TypeOK, [Next]_vars PROVE TypeOK'
  OBVIOUS
<1>1. CASE TaskNotDue
  <2>1. pending \in BOOLEAN /\ report' = report /\ report \in Report
    BY <1>1 DEF TypeOK, TaskNotDue, engine
  <2>. QED
    BY <1>1, <2>1, DeliverTypes DEF TypeOK, TaskNotDue, engine
<1>2. CASE TaskScans
  <2>1. Wanted \in BOOLEAN
    BY DEF TypeOK, Wanted
  <2>2. report' \in Report
    BY <1>2, ScanReport DEF TaskScans
  <2>3. /\ pending' \in BOOLEAN /\ mounted' \in BOOLEAN /\ busy' \in BOOLEAN
        /\ wired' \in BOOLEAN /\ handed' \in BOOLEAN
        /\ flight' \in {{}} \cup {{r} : r \in Report}
        /\ hostSees' \in Report \cup {Empty}
    BY <1>2, <2>1, <2>2, DeliverTypes DEF TaskScans
  <2>4. down' \in SUBSET Keys
    BY <1>2 DEF TypeOK, TaskScans
  <2>. QED
    BY <1>2, <2>2, <2>3, <2>4, ScanTypes DEF TypeOK, TaskScans
<1>3. CASE TaskScanFails
  BY <1>3, SizesAssumption DEF TypeOK, TaskScanFails, usb
<1>4. ASSUME NEW k \in Keys, Contact(k) PROVE TypeOK'
  BY <1>4 DEF TypeOK, Contact, engine, usb
<1>5. CASE Tick
  BY <1>5, SizesAssumption DEF TypeOK, Tick, usb
<1>6. CASE HostReads
  BY <1>6 DEF TypeOK, HostReads, engine
<1>7. CASE Unplug
  BY <1>7 DEF TypeOK, Unplug, engine
<1>8. CASE Tud
  BY <1>8 DEF TypeOK, Tud, TudComplete, TudReset, TudMount, engine
<1>9. CASE UNCHANGED vars
  BY <1>9 DEF TypeOK, vars, engine, usb
<1>. QED
  BY <1>1, <1>2, <1>3, <1>4, <1>5, <1>6, <1>7, <1>8, <1>9 DEF Next

\* Every step but a scan leaves the debounced keys and the samples alone.
LEMMA OnlyTaskScans ==
  ASSUME [Next]_vars, ~TaskScans
  PROVE  UNCHANGED <<stable, debounce, report, recent>>
BY DEF Next, vars, engine, usb, TaskNotDue, TaskScanFails, Contact, Tick,
       HostReads, Unplug, Tud, TudComplete, TudReset, TudMount

----------------------------------------------------------------------------
(* Debouncing *)

LEMMA InitCount == Init => CountInv
<1>. SUFFICES ASSUME Init, NEW k \in Keys
              PROVE  /\ \A i \in 1..debounce[k] : recent[i][k] # stable[k]
                     /\ recent[debounce[k] + 1][k] = stable[k]
  BY DEF CountInv
<1>1. debounce[k] = 0 /\ stable = Released
  BY DEF Init
<1>2. 1 \in 1..DebounceScans
  BY SizesAssumption
<1>3. recent[1] = Released
  BY <1>2 DEF Init
<1>. QED
  BY <1>1, <1>3

LEMMA ScanCount ==
  ASSUME TypeOK, CountInv, Scan
  PROVE  CountInv'
<1>. SUFFICES ASSUME NEW k \in Keys
              PROVE  /\ \A i \in 1..debounce'[k] : recent'[i][k] # stable'[k]
                     /\ recent'[debounce'[k] + 1][k] = stable'[k]
  BY DEF CountInv
<1>1. /\ debounce[k] \in 0..DebounceScans - 1 /\ stable[k] \in BOOLEAN
      /\ Sample[k] \in BOOLEAN /\ DebounceScans \in Nat \ {0}
  BY SizesAssumption, ScanTypes DEF TypeOK
<1>2. recent'[1][k] = Sample[k]
  BY <1>1 DEF Scan
<1>3. \A i \in 1..DebounceScans : i # 1 => recent'[i][k] = recent[i - 1][k]
  BY <1>1 DEF Scan
<1>4. CASE Settled(k)
  <2>1. stable'[k] = Sample[k] /\ debounce'[k] = 0
    BY <1>4 DEF Scan, Debounce
  <2>. QED
    BY <1>2, <2>1
<1>5. CASE ~Settled(k) /\ Sample[k] = stable[k]
  <2>1. stable'[k] = stable[k] /\ debounce'[k] = 0
    BY <1>5 DEF Scan, Debounce, Count
  <2>. QED
    BY <1>2, <1>5, <2>1
<1>6. CASE ~Settled(k) /\ Sample[k] # stable[k]
  <2>1. /\ stable'[k] = stable[k] /\ debounce'[k] = debounce[k] + 1
        /\ debounce[k] + 1 < DebounceScans
    BY <1>1, <1>6 DEF Scan, Debounce, Count, Settled
  <2>2. ASSUME NEW i \in 1..debounce'[k] PROVE recent'[i][k] # stable'[k]
    <3>1. CASE i = 1
      BY <1>2, <1>6, <2>1, <3>1
    <3>2. CASE i # 1
      <4>1. i \in 1..DebounceScans /\ i - 1 \in 1..debounce[k]
        BY <1>1, <2>1, <3>2
      <4>2. recent[i - 1][k] # stable[k]
        BY <4>1 DEF CountInv
      <4>. QED
        BY <1>3, <2>1, <3>2, <4>1, <4>2
    <3>. QED
      BY <3>1, <3>2
  <2>3. recent'[debounce'[k] + 1][k] = stable'[k]
    <3>1. /\ debounce'[k] + 1 \in 1..DebounceScans /\ debounce'[k] + 1 # 1
          /\ (debounce'[k] + 1) - 1 = debounce[k] + 1
      BY <1>1, <2>1
    <3>2. recent[debounce[k] + 1][k] = stable[k]
      BY DEF CountInv
    <3>. QED
      BY <1>3, <2>1, <3>1, <3>2
  <2>. QED
    BY <2>2, <2>3
<1>. QED
  BY <1>4, <1>5, <1>6

LEMMA NextCount == TypeOK /\ CountInv /\ [Next]_vars => CountInv'
<1>. SUFFICES ASSUME TypeOK, CountInv, [Next]_vars PROVE CountInv'
  OBVIOUS
<1>1. CASE TaskScans
  BY <1>1, ScanCount DEF TaskScans
<1>2. CASE ~TaskScans
  BY <1>2, OnlyTaskScans DEF CountInv
<1>. QED
  BY <1>1, <1>2

\* The sample before the differing ones is among the latest DebounceScans.
LEMMA CountForces == TypeOK /\ CountInv => ScansForceChange
<1>. SUFFICES ASSUME TypeOK, CountInv, NEW k \in Keys, NEW v \in BOOLEAN,
                     \A i \in 1..DebounceScans : recent[i][k] = v
              PROVE  stable[k] = v
  BY DEF ScansForceChange
<1>1. debounce[k] + 1 \in 1..DebounceScans
  <2>1. debounce[k] \in 0..DebounceScans - 1
    BY DEF TypeOK
  <2>. QED
    BY <2>1, SizesAssumption
<1>. QED
  BY <1>1 DEF CountInv

\* A key that changes had differed in every sample but the newest already.
LEMMA ChangeStep ==
  ASSUME TypeOK, CountInv, [Next]_vars, NEW k \in Keys, stable'[k] # stable[k],
         NEW i \in 1..DebounceScans
  PROVE  recent'[i][k] = stable'[k]
<1>1. TaskScans
  BY OnlyTaskScans
<1>2. Scan
  BY <1>1 DEF TaskScans
<1>3. /\ debounce[k] \in 0..DebounceScans - 1 /\ stable[k] \in BOOLEAN
      /\ Sample[k] \in BOOLEAN /\ DebounceScans \in Nat \ {0}
  BY <1>2, SizesAssumption, ScanTypes DEF TypeOK
<1>4. Settled(k) /\ stable'[k] = Sample[k] /\ Sample[k] # stable[k]
  BY <1>2 DEF Scan, Debounce
<1>5. debounce[k] + 1 = DebounceScans
  BY <1>3, <1>4 DEF Settled, Count
<1>6. CASE i = 1
  BY <1>2, <1>4, <1>6 DEF Scan
<1>7. CASE i # 1
  <2>1. i - 1 \in 1..debounce[k] /\ i - 1 \in 1..DebounceScans
    BY <1>3, <1>5, <1>7
  <2>2. recent'[i][k] = recent[i - 1][k]
    BY <1>2, <1>7 DEF Scan
  <2>3. recent[i - 1][k] # stable[k] /\ recent[i - 1][k] \in BOOLEAN
    BY <2>1 DEF CountInv, TypeOK
  <2>. QED
    BY <1>3, <1>4, <2>2, <2>3
<1>. QED
  BY <1>6, <1>7

----------------------------------------------------------------------------
(* Induction over the keys.  The library states induction for a predicate, *)
(* which the provers cannot instantiate; a set of numbers does as well, and *)
(* the library has that every set of numbers has a least one.              *)

LEMMA Least ==
  ASSUME NEW T \in SUBSET Nat, T # {}
  PROVE  \E x \in T : \A y \in T : x <= y
<1>1. PICK x \in T : \A y \in T : ~ (<<y, x>> \in OpToRel(<, Nat))
  BY NatLessThanWellFounded, WFMin
<1>2. ASSUME NEW y \in T PROVE x <= y
  <2>1. ~ (<<y, x>> \in OpToRel(<, Nat))
    BY <1>1
  <2>2. x \in Nat /\ y \in Nat
    OBVIOUS
  <2>3. ~ (y < x)
    BY <2>1, <2>2 DEF OpToRel
  <2> QED BY <2>2, <2>3
<1> QED BY <1>2

LEMMA Inducts ==
  ASSUME NEW S, 0 \in S, \A n \in Nat : n \in S => n + 1 \in S
  PROVE  \A n \in Nat : n \in S
<1> SUFFICES ASSUME Nat \ S # {} PROVE FALSE
  OBVIOUS
<1>1. PICK x \in Nat \ S : \A y \in Nat \ S : x <= y
  BY Least
<1>2. x # 0 /\ x - 1 \in Nat
  BY <1>1
<1>3. x - 1 \in S
  BY <1>1, <1>2
<1>4. (x - 1) + 1 \in S
  BY <1>2, <1>3
<1> QED BY <1>1, <1>2, <1>4

----------------------------------------------------------------------------
(* build_report *)

\* The step of the loop, from what g has for the keys before k.
Body(g, held, k) == IF k = 0 THEN Blank ELSE AddKey(g[k - 1], held, k)

LEMMA Unfolds ==
  ASSUME NEW held
  PROVE  Built(held) = [k \in 0..KeyCount |-> Body(Built(held), held, k)]
<1> DEFINE S == {n \in Nat : \E g : g = [k \in 0..n |-> Body(g, held, k)]}
<1>1. 0 \in S
  <2>1. [k \in 0..0 |-> Blank] = [k \in 0..0 |-> Body([j \in 0..0 |-> Blank], held, k)]
    BY DEF Body
  <2> QED BY <2>1
<1>2. ASSUME NEW n \in Nat, n \in S PROVE n + 1 \in S
  <2>1. PICK g : g = [k \in 0..n |-> Body(g, held, k)]
    BY <1>2
  <2> DEFINE h == [k \in 0..(n + 1) |-> IF k = n + 1 THEN AddKey(g[n], held, n + 1) ELSE g[k]]
  <2>2. ASSUME NEW k \in 0..(n + 1) PROVE h[k] = Body(h, held, k)
    <3>1. CASE k = n + 1
      <4>1. k # 0 /\ k - 1 = n /\ n \in 0..(n + 1) /\ n # n + 1
        BY <3>1
      <4>2. h[k - 1] = g[n]
        BY <4>1
      <4>3. h[k] = AddKey(g[n], held, k)
        BY <3>1
      <4> HIDE DEF h
      <4> QED BY <4>1, <4>2, <4>3 DEF Body
    <3>2. CASE k # n + 1
      <4>1. k \in 0..n
        BY <3>2
      <4>2. h[k] = g[k] /\ g[k] = Body(g, held, k)
        BY <2>1, <3>2, <4>1
      <4>3. k # 0 => h[k - 1] = g[k - 1]
        BY <4>1
      <4> HIDE DEF h
      <4> QED BY <4>2, <4>3 DEF Body
    <3> QED BY <3>1, <3>2
  <2>3. h = [k \in 0..(n + 1) |-> h[k]]
    OBVIOUS
  <2> HIDE DEF h
  <2>4. h = [k \in 0..(n + 1) |-> Body(h, held, k)]
    BY <2>2, <2>3
  <2> QED BY <2>4
<1>3. KeyCount \in S
  <2> HIDE DEF S
  <2> QED BY <1>1, <1>2, Inducts, SizesAssumption
<1>4. \E g : g = [k \in 0..KeyCount |-> Body(g, held, k)]
  BY <1>3
<1> QED BY <1>4 DEF Built, Body

\* What the keys up to k ask for.
HeldTo(held, k) == {j \in 1..k : held[j]}
UsagesTo(held, k) == {Binding[j].usage : j \in HeldTo(held, k)} \ {NoUsage}
ModifiersTo(held, k) == UNION {Binding[j].modifier : j \in HeldTo(held, k)}
Shown(s) == {s[i] : i \in 1..Len(s)}

\* What the loop of build_report has put together after the key k.
BuiltRight(b, held, k) ==
  /\ b \in [modifier : SUBSET Modifiers, usages : Seq(Usages), over : BOOLEAN]
  /\ IF b.over THEN Cardinality(UsagesTo(held, k)) > Slots
     ELSE /\ Shown(b.usages) = UsagesTo(held, k)
          /\ Len(b.usages) = Cardinality(UsagesTo(held, k)) /\ Len(b.usages) <= Slots
          /\ b.modifier = ModifiersTo(held, k)

LEMMA KeyAdds ==
  ASSUME NEW held \in [Keys -> BOOLEAN], NEW k \in Keys
  PROVE  /\ UsagesTo(held, k) =
              IF held[k] /\ Binding[k].usage # NoUsage
              THEN UsagesTo(held, k - 1) \cup {Binding[k].usage}
              ELSE UsagesTo(held, k - 1)
         /\ ModifiersTo(held, k) =
              IF held[k] THEN ModifiersTo(held, k - 1) \cup Binding[k].modifier
              ELSE ModifiersTo(held, k - 1)
<1>1. k \in Nat \ {0}
  BY SizesAssumption DEF Keys
<1>2. HeldTo(held, k) = IF held[k] THEN HeldTo(held, k - 1) \cup {k} ELSE HeldTo(held, k - 1)
  <2>1. 1..k = 1..(k - 1) \cup {k}
    BY <1>1
  <2> QED BY <2>1 DEF HeldTo
<1>3. CASE held[k]
  <2>1. HeldTo(held, k) = HeldTo(held, k - 1) \cup {k}
    BY <1>2, <1>3
  <2> QED BY <1>3, <2>1 DEF UsagesTo, ModifiersTo
<1>4. CASE ~held[k]
  BY <1>2, <1>4 DEF UsagesTo, ModifiersTo
<1> QED BY <1>3, <1>4

LEMMA Appends ==
  ASSUME NEW s \in Seq(Usages), NEW u \in Usages
  PROVE  /\ Append(s, u) \in Seq(Usages)
         /\ Len(Append(s, u)) = Len(s) + 1
         /\ Shown(Append(s, u)) = Shown(s) \cup {u}
<1>1. Len(s) \in Nat
  BY LenProperties
<1>2. /\ Append(s, u) \in Seq(Usages)
      /\ Len(Append(s, u)) = Len(s) + 1
      /\ \A i \in 1..Len(s) : Append(s, u)[i] = s[i]
      /\ Append(s, u)[Len(s) + 1] = u
  OBVIOUS
<1>3. 1..(Len(s) + 1) = 1..Len(s) \cup {Len(s) + 1}
  BY <1>1
<1> QED BY <1>2, <1>3 DEF Shown

\* One turn of the loop.
LEMMA AddKeyRight ==
  ASSUME NEW held \in [Keys -> BOOLEAN], NEW k \in Keys, NEW b,
         BuiltRight(b, held, k - 1), IsFiniteSet(UsagesTo(held, k - 1))
  PROVE  /\ BuiltRight(AddKey(b, held, k), held, k)
         /\ IsFiniteSet(UsagesTo(held, k))
<1> DEFINE bind == Binding[k]
           before == UsagesTo(held, k - 1)
           after == UsagesTo(held, k)
<1>1. /\ bind.modifier \in SUBSET Modifiers /\ bind.usage \in Usages \cup {NoUsage}
      /\ held[k] \in BOOLEAN
  BY BindingAssumption
<1>2. /\ after = IF held[k] /\ bind.usage # NoUsage THEN before \cup {bind.usage} ELSE before
      /\ ModifiersTo(held, k) = IF held[k] THEN ModifiersTo(held, k - 1) \cup bind.modifier
                                ELSE ModifiersTo(held, k - 1)
  BY KeyAdds
<1>3. /\ b \in [modifier : SUBSET Modifiers, usages : Seq(Usages), over : BOOLEAN]
      /\ b.over \in BOOLEAN /\ b.usages \in Seq(Usages) /\ b.modifier \in SUBSET Modifiers
      /\ b = [modifier |-> b.modifier, usages |-> b.usages, over |-> b.over]
      /\ Len(b.usages) \in Nat
  BY LenProperties DEF BuiltRight
<1> DEFINE u == bind.usage
<1>4. /\ IsFiniteSet(before \cup {u})
      /\ Cardinality(before \cup {u}) = IF u \in before THEN Cardinality(before) ELSE Cardinality(before) + 1
      /\ Cardinality(before) \in Nat
  BY FS_AddElement, FS_CardinalityType
<1>5. IsFiniteSet(after) /\ Cardinality(after) >= Cardinality(before)
  BY <1>2, <1>4
<1> HIDE DEF before, after, u, bind
<1>6. CASE b.over
  <2>1. AddKey(b, held, k) = b
    BY <1>6 DEF AddKey
  <2>2. Cardinality(after) > Slots
    BY <1>4, <1>5, <1>6, SizesAssumption, FS_CardinalityType DEF BuiltRight, before
  <2>3. BuiltRight(b, held, k)
    BY <1>3, <1>6, <2>2 DEF BuiltRight, after
  <2> QED BY <2>1, <2>3, <1>5 DEF after
<1>7. CASE ~b.over /\ ~held[k]
  <2>1. AddKey(b, held, k) = b
    BY <1>7 DEF AddKey
  <2>2. after = before /\ ModifiersTo(held, k) = ModifiersTo(held, k - 1)
    BY <1>2, <1>7
  <2>3. BuiltRight(b, held, k)
    BY <1>7, <2>2 DEF BuiltRight, after, before
  <2> QED BY <2>1, <2>3, <1>5 DEF after
<1>8. CASE ~b.over /\ held[k]
  <2> DEFINE m == b.modifier \cup bind.modifier
             r(s, over) == [modifier |-> m, usages |-> s, over |-> over]
  <2>1. AddKey(b, held, k) = Add(b, bind)
    BY <1>8 DEF AddKey, bind
  <2>2. /\ Shown(b.usages) = before /\ Len(b.usages) = Cardinality(before)
        /\ Len(b.usages) <= Slots /\ m = ModifiersTo(held, k) /\ m \in SUBSET Modifiers
    BY <1>1, <1>2, <1>3, <1>8 DEF BuiltRight, before
  <2>3. (\E i \in 1..Len(b.usages) : b.usages[i] = u) <=> u \in before
    BY <2>2 DEF Shown
  <2>4. ASSUME NEW s \in Seq(Usages), NEW over \in BOOLEAN
        PROVE  /\ r(s, over).over = over /\ r(s, over).usages = s /\ r(s, over).modifier = m
               /\ r(s, over) \in [modifier : SUBSET Modifiers, usages : Seq(Usages), over : BOOLEAN]
    BY <2>2
  <2>5. CASE u = NoUsage \/ u \in before
    <3>1. Add(b, bind) = r(b.usages, FALSE)
      BY <2>3, <2>5 DEF Add, u
    <3>2. after = before
      BY <1>2, <1>8, <2>5 DEF u
    <3> HIDE DEF r, m
    <3>3. BuiltRight(r(b.usages, FALSE), held, k)
      BY <1>3, <2>2, <2>4, <3>2 DEF BuiltRight, after
    <3> QED BY <2>1, <3>1, <3>3, <1>5 DEF after
  <2>6. CASE u # NoUsage /\ u \notin before
    <3>1. after = before \cup {u} /\ u \in Usages /\ Cardinality(after) = Cardinality(before) + 1
      BY <1>1, <1>2, <1>4, <1>8, <2>6 DEF u
    <3>2. CASE Len(b.usages) >= Slots
      <4>1. Add(b, bind) = r(b.usages, TRUE)
        BY <2>3, <2>6, <3>2 DEF Add, u
      <4>2. Cardinality(after) > Slots
        BY <1>3, <2>2, <3>1, <3>2, SizesAssumption
      <4> HIDE DEF r, m
      <4>3. BuiltRight(r(b.usages, TRUE), held, k)
        BY <1>3, <2>4, <4>2 DEF BuiltRight, after
      <4> QED BY <2>1, <4>1, <4>3, <1>5 DEF after
    <3>3. CASE Len(b.usages) < Slots
      <4> DEFINE s == Append(b.usages, u)
      <4>0. ~(Len(b.usages) >= Slots)
        BY <1>3, <3>3, SizesAssumption
      <4>1. Add(b, bind) = r(s, FALSE)
        BY <2>3, <2>6, <4>0 DEF Add, u
      <4>2. s \in Seq(Usages) /\ Len(s) = Len(b.usages) + 1 /\ Shown(s) = after
        BY <1>3, <2>2, <3>1, Appends
      <4>3. Len(s) = Cardinality(after) /\ Len(s) <= Slots
        BY <1>3, <2>2, <3>1, <3>3, <4>2, SizesAssumption
      <4> HIDE DEF s, r, m
      <4>4. BuiltRight(r(s, FALSE), held, k)
        BY <2>2, <2>4, <4>2, <4>3 DEF BuiltRight, after
      <4> QED BY <2>1, <4>1, <4>4, <1>5 DEF after
    <3> QED BY <1>3, <3>2, <3>3, SizesAssumption
  <2> QED BY <2>5, <2>6
<1> QED BY <1>1, <1>3, <1>6, <1>7, <1>8

LEMMA BuiltIsRight ==
  ASSUME NEW held \in [Keys -> BOOLEAN]
  PROVE  BuiltRight(Built(held)[KeyCount], held, KeyCount)
<1> DEFINE good == {k \in Nat : k <= KeyCount =>
                      /\ BuiltRight(Built(held)[k], held, k)
                      /\ IsFiniteSet(UsagesTo(held, k))}
<1>1. \A k \in 0..KeyCount :
        Built(held)[k] = IF k = 0 THEN Blank ELSE AddKey(Built(held)[k - 1], held, k)
  BY Unfolds DEF Body
<1>2. 0 \in good
  <2>1. Built(held)[0] = Blank
    BY <1>1, SizesAssumption
  <2>2. HeldTo(held, 0) = {}
    BY DEF HeldTo
  <2>3. UsagesTo(held, 0) = {} /\ ModifiersTo(held, 0) = {}
    BY <2>2 DEF UsagesTo, ModifiersTo
  <2>4. /\ Blank \in [modifier : SUBSET Modifiers, usages : Seq(Usages), over : BOOLEAN]
        /\ ~Blank.over /\ Blank.modifier = {} /\ Blank.usages = <<>>
    BY DEF Blank
  <2>5. Len(<<>>) = 0 /\ Shown(<<>>) = {}
    BY DEF Shown
  <2>6. BuiltRight(Blank, held, 0) /\ IsFiniteSet(UsagesTo(held, 0))
    <3>1. IsFiniteSet({}) /\ Cardinality({}) = 0
      BY FS_EmptySet
    <3>2. 0 <= Slots
      BY SizesAssumption
    <3> HIDE DEF good
    <3> QED BY <2>3, <2>4, <2>5, <3>1, <3>2 DEF BuiltRight
  <2> QED BY <2>1, <2>6
<1>3. ASSUME NEW n \in Nat, n \in good PROVE n + 1 \in good
  <2> SUFFICES ASSUME n + 1 <= KeyCount
               PROVE  /\ BuiltRight(Built(held)[n + 1], held, n + 1)
                      /\ IsFiniteSet(UsagesTo(held, n + 1))
    OBVIOUS
  <2>1. /\ n + 1 \in Keys /\ n + 1 \in 0..KeyCount /\ n + 1 # 0
        /\ (n + 1) - 1 = n /\ n <= KeyCount
    BY SizesAssumption DEF Keys
  <2>2. BuiltRight(Built(held)[n], held, n) /\ IsFiniteSet(UsagesTo(held, n))
    BY <1>3, <2>1
  <2>3. Built(held)[n + 1] = AddKey(Built(held)[n], held, n + 1)
    BY <1>1, <2>1
  <2> HIDE DEF good
  <2> QED BY <2>1, <2>2, <2>3, AddKeyRight
<1>4. KeyCount \in good
  <2> HIDE DEF good
  <2> QED BY <1>2, <1>3, Inducts, SizesAssumption
<1> QED BY <1>4, SizesAssumption

\* What the reader of the report sees of it.
LEMMA ReportIsRight == TypeOK /\ report = BuildReport(stable) => ReportShowsKeys
<1> SUFFICES ASSUME TypeOK, report = BuildReport(stable) PROVE ReportShowsKeys
  OBVIOUS
<1> DEFINE b == Built(stable)[KeyCount]
           held == {k \in Keys : stable[k]}
           usages == {Binding[k].usage : k \in held} \ {NoUsage}
<1>1. BuiltRight(b, stable, KeyCount)
  BY BuiltIsRight DEF TypeOK
<1>2. held = HeldTo(stable, KeyCount)
  BY DEF Keys, HeldTo
<1>3. /\ usages = UsagesTo(stable, KeyCount)
      /\ UNION {Binding[k].modifier : k \in held} = ModifiersTo(stable, KeyCount)
  BY <1>2 DEF UsagesTo, ModifiersTo
<1>4. report = [modifier |-> b.modifier,
                usages |-> IF b.over THEN [i \in 1..Slots |-> Rollover] ELSE b.usages]
  BY DEF BuildReport
<1> HIDE DEF b
<1>5. CASE b.over
  <2>1. report.usages = [i \in 1..Slots |-> Rollover]
    BY <1>4, <1>5
  <2>2. Len(report.usages) = Slots
    <3>1. [i \in 1..Slots |-> Rollover] \in [1..Slots -> {Rollover}]
      OBVIOUS
    <3>2. [i \in 1..Slots |-> Rollover] \in Seq({Rollover})
      BY <3>1, SizesAssumption, SeqDef
    <3>3. DOMAIN report.usages = 1..Slots /\ report.usages \in Seq({Rollover})
      BY <2>1, <3>1, <3>2
    <3>4. 1..Len(report.usages) = 1..Slots /\ Len(report.usages) \in Nat
      BY <3>3, LenProperties
    <3> QED BY <3>4, SizesAssumption
  <2>3. {report.usages[i] : i \in 1..Len(report.usages)} = {Rollover}
    BY <2>1, <2>2, SizesAssumption
  <2>4. Cardinality(usages) > Slots
    BY <1>1, <1>3, <1>5 DEF BuiltRight
  <2> QED BY <2>3, <2>4 DEF ReportShowsKeys
<1>6. CASE ~b.over
  <2>1. /\ report.usages = b.usages /\ report.modifier = b.modifier
        /\ Len(b.usages) \in Nat
    BY <1>1, <1>4, <1>6, LenProperties DEF BuiltRight
  <2>2. /\ Shown(b.usages) = usages /\ Len(b.usages) = Cardinality(usages)
        /\ Len(b.usages) <= Slots
        /\ b.modifier = UNION {Binding[k].modifier : k \in held}
    BY <1>1, <1>3, <1>6 DEF BuiltRight
  <2>3. ~(Cardinality(usages) > Slots)
    BY <2>1, <2>2, SizesAssumption
  <2>4. {report.usages[i] : i \in 1..Len(report.usages)} = usages
    BY <2>1, <2>2 DEF Shown
  <2> HIDE DEF usages
  <2>5. /\ {report.usages[i] : i \in 1..Len(report.usages)} = usages
        /\ Len(report.usages) = Cardinality(usages)
        /\ report.modifier = UNION {Binding[k].modifier : k \in held}
    BY <2>1, <2>2, <2>4
  <2> QED BY <2>3, <2>5 DEF ReportShowsKeys, usages
<1> QED BY <1>5, <1>6

----------------------------------------------------------------------------
(* The report and its delivery *)

LEMMA NextReport == TypeOK /\ ReportInv /\ [Next]_vars => ReportInv'
<1>. SUFFICES ASSUME TypeOK, ReportInv, [Next]_vars PROVE ReportInv'
  OBVIOUS
<1>1. CASE TaskScans /\ Rebuild
  BY <1>1 DEF TaskScans, Scan, ReportInv
<1>2. CASE TaskScans /\ ~Rebuild
  <2>1. stable' = stable
    BY <1>2 DEF TypeOK, TaskScans, Scan, Debounce, Rebuild
  <2>2. report' = report
    BY <1>2 DEF TaskScans, Scan
  <2>. QED
    BY <2>1, <2>2 DEF ReportInv
<1>3. CASE ~TaskScans
  BY <1>3, OnlyTaskScans DEF ReportInv
<1>. QED
  BY <1>1, <1>2, <1>3

LEMMA InitHost == Init => HostUpToDate
BY DEF Init, HostUpToDate

\* A delivery that knows of every change of the report keeps the host up to date.
LEMMA DeliverHost ==
  ASSUME TypeOK, HostUpToDate, NEW wanted \in BOOLEAN, Deliver(wanted),
         pending => wanted, report' # report => wanted
  PROVE  HostUpToDate'
<1>1. CASE wanted /\ Ready /\ wired
  BY <1>1 DEF Deliver, HostUpToDate
<1>2. CASE wanted /\ ~(Ready /\ wired)
  BY <1>2 DEF Deliver, HostUpToDate
<1>3. CASE ~wanted
  BY <1>3 DEF Deliver, HostUpToDate, usb
<1>. QED
  BY <1>1, <1>2, <1>3

LEMMA NextHost == TypeOK /\ HostUpToDate /\ [Next]_vars => HostUpToDate'
<1>. SUFFICES ASSUME TypeOK, HostUpToDate, [Next]_vars PROVE HostUpToDate'
  OBVIOUS
<1>1. CASE TaskNotDue
  <2>1. pending \in BOOLEAN /\ report' = report
    BY <1>1 DEF TypeOK, TaskNotDue, engine
  <2>. QED
    BY <1>1, <2>1, DeliverHost DEF TaskNotDue
<1>2. CASE TaskScans
  <2>1. Wanted \in BOOLEAN /\ (pending => Wanted) /\ (report' # report => Wanted)
    BY DEF TypeOK, Wanted
  <2>. QED
    BY <1>2, <2>1, DeliverHost DEF TaskScans
<1>3. CASE TaskScanFails
  BY <1>3 DEF HostUpToDate, TaskScanFails, usb
<1>4. ASSUME NEW k \in Keys, Contact(k) PROVE HostUpToDate'
  BY <1>4 DEF HostUpToDate, Contact, engine, usb
<1>5. CASE Tick
  BY <1>5 DEF HostUpToDate, Tick, usb
<1>6. CASE HostReads
  BY <1>6 DEF HostUpToDate, HostReads, engine
<1>7. CASE Unplug
  BY <1>7 DEF HostUpToDate, Unplug, engine
<1>8. CASE Tud
  BY <1>8 DEF HostUpToDate, Tud, TudComplete, TudReset, TudMount, engine
<1>9. CASE UNCHANGED vars
  BY <1>9 DEF HostUpToDate, vars, engine, usb
<1>. QED
  BY <1>1, <1>2, <1>3, <1>4, <1>5, <1>6, <1>7, <1>8, <1>9 DEF Next

----------------------------------------------------------------------------
(* keyboard_engine_poll and keyboard_hid_task keep their state well typed: *)
(* in particular the count of a key stays below the number of scans.       *)
THEOREM Typing == Spec => []TypeOK
<1>. QED
  BY InitTypes, NextTypes, PTL DEF Spec

\* The counts of keyboard_engine_poll mean what CountInv says.
THEOREM Counting == Spec => []CountInv
<1>. QED
  BY InitCount, NextCount, Typing, PTL DEF Spec

\* Debouncing in keyboard_engine_poll: enough equal samples force the state.
THEOREM Settling == Spec => []ScansForceChange
<1>. QED
  BY CountForces, Typing, Counting, PTL

\* Debouncing in keyboard_engine_poll: nothing less than that changes it.
THEOREM Debouncing == Spec => ChangeNeedsScans
<1>1. TypeOK /\ CountInv /\ [Next]_vars =>
        [\A k \in Keys : stable'[k] # stable[k] =>
           \A i \in 1..DebounceScans : recent'[i][k] = stable'[k]]_vars
  BY ChangeStep
<1>. QED
  BY <1>1, Typing, Counting, PTL DEF Spec, ChangeNeedsScans

\* keyboard_engine_poll rebuilds the report whenever it would differ.
THEOREM ReportIsCurrent == Spec => []ReportInv
<1>1. Init => ReportInv
  BY DEF Init, ReportInv
<1>. QED
  BY <1>1, NextReport, Typing, PTL DEF Spec

\* build_report: the report has the usages of the debounced keys, each once, and
\* all their modifiers, or signals rollover if it has no room for them, for
\* every layout and number of keys, duplicates included.
THEOREM ReportIsFaithful == Spec => []ReportShowsKeys
<1>1. TypeOK /\ ReportInv => ReportShowsKeys
  BY ReportIsRight DEF ReportInv
<1>. QED
  BY <1>1, Typing, ReportIsCurrent, PTL

\* keyboard_hid_task never leaves the host with an old report.
THEOREM Delivery == Spec => []HostUpToDate
<1>. QED
  BY InitHost, NextHost, Typing, PTL DEF Spec
=============================================================================
