--------------------------- MODULE FlowScopeProofs ---------------------------
(***************************************************************************)
(* Proofs about FlowScope, for every set of flow texts the engine accepts, *)
(* every number of runs and iterations.                                    *)
(*                                                                         *)
(* The argument: every step without a `when` that is behind the run's      *)
(* position has a value or was left out (BehindInv), and what has a value  *)
(* is behind the position, in the loop the run is in, or was reused with a *)
(* block it has since been moved out of (AheadInv).  The validator's order *)
(* of the flow's steps is the order in which the run passes them.          *)
(***************************************************************************)
EXTENDS FlowScope, SequenceTheorems, WellFoundedInduction, TLAPS

(***************************************************************************)
(* Numbers and sequences                                                   *)
(***************************************************************************)
\* Induction, stated with the set of what it has been shown of: the library's
\* theorems about it take a predicate, which the provers here cannot instantiate.
LEMMA LeastNat ==
  ASSUME NEW T \in SUBSET Nat, T # {}
  PROVE  \E m \in T : \A k \in T : m <= k
<1> DEFINE R == {ss \in Nat \X Nat : ss[1] < ss[2]}
<1>1. IsWellFoundedOn(R, Nat)
  BY NatLessThanWellFounded DEF OpToRel
<1>2. \A k \in Nat, m \in Nat : k < m => <<k, m>> \in R
  OBVIOUS
<1> HIDE DEF R
<1>3. PICK m \in T : \A k \in T : ~(<<k, m>> \in R)
  BY <1>1, WFMin
<1>4. \A k \in T : k \in Nat
  OBVIOUS
<1>5. \A k \in T : ~(k < m)
  BY <1>2, <1>3, <1>4
<1>6. \A k \in T : m <= k
  BY <1>3, <1>4, <1>5
<1> QED
  BY <1>3, <1>6

LEMMA NumberInduction ==
  ASSUME NEW G, 0 \in G, \A n \in Nat : n \in G => n + 1 \in G
  PROVE  Nat \subseteq G
<1> SUFFICES ASSUME Nat \ G # {} PROVE FALSE
  OBVIOUS
<1>1. PICK m \in Nat \ G : \A k \in Nat \ G : m <= k
  <2>1. Nat \ G \in SUBSET Nat
    OBVIOUS
  <2> QED
    BY <2>1, LeastNat
<1>2. m # 0 /\ m - 1 \in Nat
  BY <1>1
<1>3. m - 1 \in G
  BY <1>1, <1>2
<1>4. (m - 1) + 1 \in G /\ (m - 1) + 1 = m
  BY <1>2, <1>3
<1> QED
  BY <1>1, <1>4

\* A set of positions has a last and a first one.
LEMMA LastPosition ==
  ASSUME NEW n \in Nat, NEW T \in SUBSET (1..n), T # {}
  PROVE  Max(T) \in T /\ \A k \in T : k <= Max(T)
<1> DEFINE S == {n - k : k \in T}
<1>1. S \in SUBSET Nat /\ S # {}
  <2>1. \A k \in T : n - k \in Nat
    OBVIOUS
  <2> QED
    BY <2>1
<1>2. PICK m \in S : \A k \in S : m <= k
  BY <1>1, LeastNat
<1>3. PICK x \in T : m = n - x
  BY <1>2
<1>4. \A k \in T : n - k \in S
  OBVIOUS
<1>5. \A k \in T : x >= k
  BY <1>2, <1>3, <1>4
<1>6. \E y \in T : \A k \in T : y >= k
  BY <1>3, <1>5
<1> QED
  BY <1>6 DEF Max

LEMMA FirstPosition ==
  ASSUME NEW n \in Nat, NEW T \in SUBSET (1..n), T # {}
  PROVE  Min(T) \in T
<1>1. PICK m \in T : \A k \in T : m <= k
  <2>1. T \in SUBSET Nat
    OBVIOUS
  <2> QED
    BY <2>1, LeastNat
<1> QED
  BY <1>1 DEF Min

\* The elements of e whose parent is id, in their order.
Picks(e, id, g, n) ==
  IF n = 0 THEN <<>>
  ELSE IF e[n].parent = id THEN Append(g[n - 1], e[n]) ELSE g[n - 1]
Filters(e, id, g) == g = [n \in 0..Len(e) |-> Picks(e, id, g, n)]

LEMMA FiltersExist ==
  ASSUME NEW e, Len(e) \in Nat, NEW id
  PROVE  \E g : Filters(e, id, g)
<1> DEFINE Upto(k, g) == g = [n \in 0..k |-> Picks(e, id, g, n)]
           Reached == {k \in Nat : \E g : Upto(k, g)}
<1>1. 0 \in Reached
  <2> DEFINE g == [n \in 0..0 |-> <<>>]
  <2>1. Upto(0, g)
    BY DEF Picks
  <2> QED
    BY <2>1
<1>2. ASSUME NEW k \in Nat, k \in Reached PROVE k + 1 \in Reached
  <2>1. PICK g : Upto(k, g)
    BY <1>2
  <2> DEFINE h == [n \in 0..(k + 1) |-> IF n = k + 1 THEN Picks(e, id, g, n) ELSE g[n]]
  <2>2. \A n \in 0..k : h[n] = g[n] /\ g[n] = Picks(e, id, g, n)
    BY <2>1
  <2>5. h[k + 1] = Picks(e, id, g, k + 1)
    OBVIOUS
  <2>6. h = [n \in 0..(k + 1) |-> h[n]]
    OBVIOUS
  <2> HIDE DEF h
  <2>3. ASSUME NEW n \in 0..(k + 1) PROVE h[n] = Picks(e, id, h, n)
    <3>1. CASE n = 0
      BY <2>2, <3>1 DEF Picks
    <3>2. CASE n # 0
      <4>1. n - 1 \in 0..k
        BY <3>2
      <4>2. h[n - 1] = g[n - 1]
        BY <2>2, <4>1
      <4>3. h[n] = Picks(e, id, g, n)
        BY <2>2, <2>5
      <4> QED
        BY <3>2, <4>2, <4>3 DEF Picks
    <3> QED
      BY <3>1, <3>2
  <2>4. Upto(k + 1, h)
    BY <2>3, <2>6
  <2> HIDE DEF Upto
  <2> QED
    BY <2>4
<1> HIDE DEF Reached
<1>3. Nat \subseteq Reached
  BY <1>1, <1>2, NumberInduction
<1>4. PICK g : Upto(Len(e), g)
  BY <1>3 DEF Reached
<1> QED
  BY <1>4 DEF Filters

LEMMA FilterKeeps ==
  ASSUME NEW R, NEW e \in Seq(R), NEW id, NEW g, Filters(e, id, g)
  PROVE  g[Len(e)] \in Seq({x \in R : x.parent = id /\ \E i \in DOMAIN e : e[i] = x})
<1> DEFINE K == {x \in R : x.parent = id /\ \E i \in DOMAIN e : e[i] = x}
           Kept == {n \in Nat : n <= Len(e) => g[n] \in Seq(K)}
<1>1. \A n \in 0..Len(e) : g[n] = Picks(e, id, g, n)
  BY DEF Filters
<1>2. 0 \in Kept
  <2>1. g[0] = <<>>
    BY <1>1 DEF Picks
  <2> HIDE DEF K
  <2>2. g[0] \in Seq(K)
    BY <2>1
  <2> QED
    BY <2>2
<1>3. ASSUME NEW n \in Nat, n \in Kept PROVE n + 1 \in Kept
  <2>1. CASE n + 1 <= Len(e)
    <3>1. n + 1 \in DOMAIN e /\ n + 1 \in 0..Len(e) /\ n + 1 # 0 /\ (n + 1) - 1 = n
      BY <2>1
    <3>2. g[n] \in Seq(K)
      BY <1>3, <2>1
    <3>3. e[n + 1] \in R
      BY <3>1
    <3>4. g[n + 1] = IF e[n + 1].parent = id THEN Append(g[n], e[n + 1]) ELSE g[n]
      BY <1>1, <3>1 DEF Picks
    <3>5. e[n + 1].parent = id => e[n + 1] \in K
      BY <3>1, <3>3
    <3> HIDE DEF K
    <3>6. g[n + 1] \in Seq(K)
      BY <3>2, <3>4, <3>5
    <3> QED
      BY <3>6
  <2>2. CASE ~(n + 1 <= Len(e))
    BY <2>2
  <2> QED
    BY <2>1, <2>2
<1>4. Len(e) \in Nat
  OBVIOUS
<1> HIDE DEF Kept
<1>5. Len(e) \in Kept
  BY <1>2, <1>3, <1>4, NumberInduction
<1> QED
  BY <1>4, <1>5 DEF Kept

LEMMA NestedKept ==
  ASSUME NEW R, earlier \in Seq(R), NEW id
  PROVE  EarlierNested(id) \in
           Seq({x \in R : x.parent = id /\ \E i \in DOMAIN earlier : earlier[i] = x})
<1> DEFINE g == CHOOSE g : Filters(earlier, id, g)
<1>1. Filters(earlier, id, g)
  BY FiltersExist
<1>2. EarlierNested(id) = g[Len(earlier)]
  BY DEF EarlierNested, Filters, Picks
<1> HIDE DEF g
<1> QED
  BY <1>1, <1>2, FilterKeeps

(***************************************************************************)
(* Flows                                                                   *)
(***************************************************************************)
Top(f, ph, i) == Entry(f[ph][i], ph, NoOne, i, 0)
Nest(f, i, j) == Entry(f.main[i].nested[j], "main", f.main[i].id, i, j)

LEMMA Ranks ==
  /\ Rank["setup"] = 1 /\ Rank["main"] = 2 /\ Rank["teardown"] = 3
  /\ \A ph \in Phases : Rank[ph] \in 1..3
  /\ \A ph, po \in Phases : Rank[ph] = Rank[po] => ph = po
BY DEF Rank, Phases

LEMMA CallsAreBlocks == Calls \subseteq Blocks
<1> DEFINE none == <<>>
<1>1. none \in Seq(Calls)
  OBVIOUS
<1> HIDE DEF none
<1>2. [id : AllIds, when : BOOLEAN, nested : {none}]
        \subseteq [id : AllIds, when : BOOLEAN, nested : Seq(Calls)]
  <2> HIDE DEF Calls
  <2> QED
    BY <1>1
<1> QED
  BY <1>2 DEF Calls, Blocks, none

\* The shape of an accepted flow's lists.
LEMMA Shapes ==
  ASSUME NEW f \in Flows
  PROVE  /\ \A ph \in Phases : Len(f[ph]) \in Nat /\ DOMAIN f[ph] = 1..Len(f[ph])
         /\ \A ph \in Phases : \A i \in DOMAIN f[ph] : f[ph][i] \in Blocks
         /\ \A ph \in Phases : \A i \in DOMAIN f[ph] : IsBlock(f[ph][i]) => ph = "main"
<1>1. f \in FlowShape
  BY FlowsAssumption
<1>2. f["setup"] \in Seq(Calls) /\ f["main"] \in Seq(Blocks) /\ f["teardown"] \in Seq(Calls)
  BY <1>1 DEF FlowShape
<1>3. Calls \subseteq Blocks
  BY CallsAreBlocks
<1>4. \A ph \in Phases : f[ph] \in Seq(Blocks)
  BY <1>2, <1>3 DEF Phases
<1>5. \A ph \in Phases : ph # "main" => f[ph] \in Seq(Calls)
  BY <1>2 DEF Phases
<1>6. \A s \in Calls : ~IsBlock(s)
  BY DEF Calls, IsBlock
<1>7. \A ph \in Phases : \A i \in DOMAIN f[ph] : ph # "main" => f[ph][i] \in Calls
  BY <1>5
<1> QED
  BY <1>4, <1>6, <1>7

\* The steps of a block.
LEMMA NestedShapes ==
  ASSUME NEW s \in Blocks
  PROVE  /\ s.id \in AllIds /\ s.id # NoOne /\ s.when \in BOOLEAN
         /\ Len(s.nested) \in Nat /\ DOMAIN s.nested = 1..Len(s.nested)
         /\ \A j \in DOMAIN s.nested : s.nested[j] \in Blocks
<1>1. s.nested \in Seq(Calls) /\ s.id \in AllIds /\ s.when \in BOOLEAN
  BY DEF Blocks
<1>2. Calls \subseteq Blocks
  BY CallsAreBlocks
<1> QED
  BY <1>1, <1>2, FlowsAssumption

LEMMA EntryFields ==
  ASSUME NEW s, NEW ph, NEW parent, NEW i, NEW j
  PROVE  LET e == Entry(s, ph, parent, i, j)
         IN  /\ e.id = s.id /\ e.when = s.when /\ e.parent = parent
             /\ e.place = <<Rank[ph], i, j>>
             /\ e.place[1] = Rank[ph] /\ e.place[2] = i /\ e.place[3] = j
BY DEF Entry

LEMMA Listed ==
  ASSUME NEW f \in Flows
  PROVE  /\ \A ph \in Phases : \A i \in DOMAIN f[ph] : Top(f, ph, i) \in AllSteps(f)
         /\ \A i \in DOMAIN f.main : \A j \in DOMAIN f.main[i].nested :
              Nest(f, i, j) \in AllSteps(f)
         /\ \A e \in AllSteps(f) :
              \/ \E ph \in Phases : \E i \in DOMAIN f[ph] : e = Top(f, ph, i)
              \/ \E i \in DOMAIN f.main : \E j \in DOMAIN f.main[i].nested : e = Nest(f, i, j)
<1> DEFINE tops(ph) == {Top(f, ph, i) : i \in DOMAIN f[ph]}
           nests(i) == {Nest(f, i, j) : j \in DOMAIN f.main[i].nested}
           A == {tops(ph) : ph \in Phases}
           B == {nests(i) : i \in DOMAIN f.main}
<1>1. AllSteps(f) = (UNION {tops(ph) : ph \in Phases}) \cup (UNION {nests(i) : i \in DOMAIN f.main})
  BY DEF AllSteps, Top, Nest
<1>2. \A ph \in Phases : \A i \in DOMAIN f[ph] : Top(f, ph, i) \in tops(ph)
  OBVIOUS
<1>3. \A i \in DOMAIN f.main : \A j \in DOMAIN f.main[i].nested : Nest(f, i, j) \in nests(i)
  OBVIOUS
<1>4. \A ph \in Phases : \A e \in tops(ph) : \E i \in DOMAIN f[ph] : e = Top(f, ph, i)
  OBVIOUS
<1>5. \A i \in DOMAIN f.main : \A e \in nests(i) :
        \E j \in DOMAIN f.main[i].nested : e = Nest(f, i, j)
  OBVIOUS
<1>6. \A ph \in Phases : tops(ph) \in A
  OBVIOUS
<1>7. \A i \in DOMAIN f.main : nests(i) \in B
  OBVIOUS
<1>8. \A s \in A : \E ph \in Phases : s = tops(ph)
  OBVIOUS
<1>9. \A s \in B : \E i \in DOMAIN f.main : s = nests(i)
  OBVIOUS
<1>10. AllSteps(f) = (UNION A) \cup (UNION B)
  BY <1>1
<1> HIDE DEF tops, nests, A, B
<1>11. \A s \in A : \A e \in s : e \in AllSteps(f)
  BY <1>10
<1>12. \A s \in B : \A e \in s : e \in AllSteps(f)
  BY <1>10
<1>13. \A e \in AllSteps(f) : (\E s \in A : e \in s) \/ \E s \in B : e \in s
  BY <1>10
<1>14. \A e \in AllSteps(f) :
        (\E ph \in Phases : e \in tops(ph)) \/ \E i \in DOMAIN f.main : e \in nests(i)
  BY <1>8, <1>9, <1>13
<1> QED
  BY <1>2, <1>3, <1>4, <1>5, <1>6, <1>7, <1>11, <1>12, <1>14

\* One entry for each id.
LEMMA OneEntry ==
  ASSUME NEW f \in Flows
  PROVE  /\ \A d, e \in AllSteps(f) : d.id = e.id => d = e
         /\ \A e \in AllSteps(f) : StepNamed(AllSteps(f), e.id) = e
         /\ \A id \in IdsOf(f) :
              StepNamed(AllSteps(f), id) \in AllSteps(f) /\ StepNamed(AllSteps(f), id).id = id
<1>1. \A d, e \in AllSteps(f) : d.id = e.id => d = e
  BY FlowsAssumption DEF OneStepPerId
<1>2. \A e \in AllSteps(f) :
        StepNamed(AllSteps(f), e.id) \in AllSteps(f) /\ StepNamed(AllSteps(f), e.id).id = e.id
  BY DEF StepNamed
<1> QED
  BY <1>1, <1>2 DEF IdsOf

\* A nested step's parent is the block it is in, and a block's id is its own.
LEMMA Nesting ==
  ASSUME NEW f \in Flows, NEW ph \in Phases, NEW i \in DOMAIN f[ph], NEW e \in AllSteps(f)
  PROVE  /\ e.parent = f[ph][i].id =>
              /\ ph = "main" /\ e.place[1] = 2 /\ e.place[2] = i
              /\ \E j \in DOMAIN f.main[i].nested : e = Nest(f, i, j)
         /\ e.id = f[ph][i].id =>
              e = Top(f, ph, i) /\ e.place = <<Rank[ph], i, 0>> /\ e.parent = NoOne
              /\ e.when = f[ph][i].when
         /\ e.place[1] = Rank[ph] /\ e.place[2] = i =>
              e = Top(f, ph, i) \/ e.parent = f[ph][i].id
<1>1. Top(f, ph, i) \in AllSteps(f) /\ Top(f, ph, i).id = f[ph][i].id
  BY Listed, EntryFields DEF Top
<1>2. f[ph][i].id # NoOne
  BY Shapes, NestedShapes
<1>3. "main" \in Phases
  BY DEF Phases
<1>4. ASSUME NEW po \in Phases, NEW k \in DOMAIN f[po]
      PROVE  /\ Top(f, po, k).parent = NoOne
             /\ Top(f, po, k).place = <<Rank[po], k, 0>>
             /\ Top(f, po, k).place[1] = Rank[po] /\ Top(f, po, k).place[2] = k
             /\ Top(f, po, k).when = f[po][k].when
             /\ Top(f, po, k).id = f[po][k].id
             /\ Top(f, po, k) \in AllSteps(f)
  BY Listed, EntryFields DEF Top
<1>5. ASSUME NEW k \in DOMAIN f.main, NEW j \in DOMAIN f.main[k].nested
      PROVE  /\ Nest(f, k, j).parent = f.main[k].id
             /\ Nest(f, k, j).place[1] = 2 /\ Nest(f, k, j).place[2] = k
             /\ f.main[k].id = Top(f, "main", k).id
  BY Listed, EntryFields, Ranks DEF Top, Nest
<1>6. ASSUME e.parent = f[ph][i].id
      PROVE  /\ ph = "main" /\ e.place[1] = 2 /\ e.place[2] = i
             /\ \E j \in DOMAIN f.main[i].nested : e = Nest(f, i, j)
  <2>1. PICK k \in DOMAIN f.main : \E j \in DOMAIN f.main[k].nested : e = Nest(f, k, j)
    BY <1>2, <1>4, <1>6, Listed
  <2>2. PICK j \in DOMAIN f.main[k].nested : e = Nest(f, k, j)
    BY <2>1
  <2>3. Top(f, "main", k) = Top(f, ph, i)
    <3>1. Top(f, "main", k).id = Top(f, ph, i).id
      BY <1>1, <1>5, <1>6, <2>2
    <3> QED
      BY <1>1, <1>3, <1>4, <3>1, OneEntry
  <2>4. Rank["main"] = Rank[ph] /\ k = i
    BY <2>3, <1>3, <1>4
  <2>5. ph = "main"
    BY <2>4, <1>3, Ranks
  <2> QED
    BY <2>2, <2>4, <2>5, <1>5
<1>7. ASSUME e.id = f[ph][i].id PROVE e = Top(f, ph, i)
  BY <1>1, <1>7, OneEntry
<1>8. ASSUME e.place[1] = Rank[ph], e.place[2] = i
      PROVE  e = Top(f, ph, i) \/ e.parent = f[ph][i].id
  <2>1. CASE \E po \in Phases : \E k \in DOMAIN f[po] : e = Top(f, po, k)
    BY <1>4, <1>8, <2>1, Ranks
  <2>2. CASE \E k \in DOMAIN f.main : \E j \in DOMAIN f.main[k].nested : e = Nest(f, k, j)
    BY <1>3, <1>5, <1>8, <2>2, Ranks
  <2> QED
    BY <2>1, <2>2, Listed
<1> QED
  BY <1>4, <1>6, <1>7, <1>8

(***************************************************************************)
(* Types                                                                   *)
(***************************************************************************)
LoopStates == [in : BOOLEAN, iter : 0..MaxIterations, step : Nat, failed : BOOLEAN]

\* A nested step is of a block among the main steps, and no block is in itself.
Results ==
  {x \in [id : AllIds, parent : AllIds \cup {NoOne}, phase : Phases, status : Statuses,
          val : Values, reused : BOOLEAN] :
     x.parent # NoOne => x.phase = "main" /\ x.parent # x.id}

PlaceType ==
  /\ flow \in Flows /\ runs \in 0..MaxRuns
  /\ phase \in Phases \cup {"idle"}
  /\ phase # "idle" => at \in 1..(Len(flow[phase]) + 1)
LoopType ==
  /\ loop \in LoopStates
  /\ loop.in => /\ phase = "main" /\ at \in DOMAIN flow.main /\ IsBlock(flow.main[at])
                /\ loop.step \in 0..Len(flow.main[at].nested)
FlagType ==
  /\ stop \in BOOLEAN /\ gone \in BOOLEAN /\ plan.reuse \in BOOLEAN /\ plan.cont \in BOOLEAN
  /\ left \subseteq AllIds
ValueType ==
  /\ DOMAIN steps \subseteq AllIds /\ \A id \in DOMAIN steps : steps[id] \in Values
  /\ record \in Seq(Results) /\ earlier \in Seq(Results)
  /\ phase = "idle" => steps = <<>> /\ record = <<>>
TypeInv == PlaceType /\ LoopType /\ FlagType /\ ValueType

LEMMA TypeInvGivesTypeOK == TypeInv => TypeOK
<1> SUFFICES ASSUME TypeInv PROVE TypeOK
  OBVIOUS
<1> USE DEF TypeInv
<1>1. loop.in => InMain /\ IsBlock(Current) /\ loop.step \in 0..Len(Nested)
  BY DEF LoopType, InMain, Current, Nested
<1>2. loop.iter \in 0..MaxIterations
  BY DEF LoopType, LoopStates
<1>3. \A results \in {record, earlier} : \A i \in DOMAIN results :
        results[i].id \in AllIds /\ results[i].status \in Statuses /\ results[i].val \in Values
  <2>1. \A x \in Results : x.id \in AllIds /\ x.status \in Statuses /\ x.val \in Values
    BY DEF Results
  <2> HIDE DEF TypeInv
  <2>2. record \in Seq(Results) /\ earlier \in Seq(Results)
    BY DEF TypeInv, ValueType
  <2>3. \A i \in DOMAIN record : record[i] \in Results
    BY <2>2
  <2>4. \A i \in DOMAIN earlier : earlier[i] \in Results
    BY <2>2
  <2> QED
    BY <2>1, <2>3, <2>4
<1> QED
  BY <1>1, <1>2, <1>3 DEF TypeOK, PlaceType, FlagType, ValueType

(***************************************************************************)
(* What a step of a run does, in the few forms it can take                 *)
(***************************************************************************)
\* The run goes on to the next step with one more result.
Valued(x) == Gives(x) /\ Remember(x.id, x.val) /\ left' = left
Unvalued(x) == ~Gives(x) /\ Current.when /\ UNCHANGED <<steps, left>>
WithoutData(x) ==
  /\ ~loop.in /\ (plan.reuse => Earlier(Current.id) = {})
  /\ steps' = steps /\ left' = left \cup {Current.id}
Passing(x) ==
  /\ phase \in Phases /\ at \in DOMAIN flow[phase]
  /\ x.id = Current.id /\ Put(x) /\ Advance
  /\ loop' \in LoopStates /\ ~loop'.in /\ stop' \in BOOLEAN /\ UNCHANGED gone
  /\ x.reused => plan.reuse /\ Earlier(x.id) # {}
  /\ Valued(x) \/ Unvalued(x) \/ WithoutData(x)

\* The run is still in the block, with one more result of a nested step.
Looping(x) ==
  /\ loop.in /\ loop.step > 0
  /\ x.id = Nested[loop.step].id /\ ~x.reused /\ Put(x)
  /\ \/ Gives(x) /\ Remember(x.id, x.val)
     \/ ~Gives(x) /\ Nested[loop.step].when /\ UNCHANGED steps
  /\ loop' \in LoopStates /\ loop'.in /\ loop'.step \in 0..Len(Nested)
  /\ loop'.step <= loop.step + 1
  /\ UNCHANGED <<flow, runs, phase, at, plan, stop, gone, left, earlier>>

\* It enters the block, begins an iteration or ends one without a result.
Turning ==
  /\ phase = "main" /\ at \in DOMAIN flow.main /\ IsBlock(flow.main[at])
  /\ loop' \in LoopStates /\ loop'.in /\ loop'.step \in 0..Len(Nested) /\ loop'.step <= 1
  /\ UNCHANGED <<flow, runs, phase, at, plan, stop, gone, steps, record, left, earlier>>

Beginning ==
  /\ phase = "idle" /\ runs < MaxRuns /\ runs' = runs + 1 /\ phase' = "setup" /\ at' = 1
  /\ plan'.reuse \in BOOLEAN /\ plan'.cont \in BOOLEAN
  /\ UNCHANGED <<flow, loop, stop, gone, steps, record, left, earlier>>

LEMMA CurrentStep ==
  ASSUME TypeInv, Due
  PROVE  /\ phase \in Phases /\ at \in DOMAIN flow[phase]
         /\ Current \in Blocks /\ Current.id \in AllIds /\ ~loop.in
         /\ IsBlock(Current) => phase = "main"
<1>1. phase \in Phases /\ flow \in Flows /\ at \in 1..(Len(flow[phase]) + 1) /\ at <= Len(flow[phase])
  BY DEF TypeInv, PlaceType, Due
<1>2. at \in DOMAIN flow[phase]
  BY <1>1, Shapes
<1>3. Current \in Blocks /\ (IsBlock(Current) => phase = "main")
  BY <1>1, <1>2, Shapes DEF Current
<1> QED
  BY <1>1, <1>2, <1>3, NestedShapes DEF Due

LEMMA PlainResult ==
  ASSUME TypeInv, phase \in Phases, NEW id \in AllIds, NEW parent \in AllIds \cup {NoOne},
         NEW status \in Statuses, NEW val \in Values,
         parent # NoOne => phase = "main" /\ parent # id
  PROVE  LET x == Result(id, parent, status, val)
         IN  x \in Results /\ x.id = id /\ x.status = status /\ x.val = val /\ ~x.reused
BY DEF Result, Results

LEMMA SomeValues ==
  ASSUME TypeInv
  PROVE  Empty \in Values /\ Here \in Values /\ [run |-> runs, iter |-> 0] \in Values
BY BoundsAssumption DEF TypeInv, PlaceType, LoopType, LoopStates, Empty, Here, Values

\* The latest earlier result of a step is one of those of the earlier run.
LEMMA LatestFound ==
  ASSUME TypeInv, NEW id, Earlier(id) # {}
  PROVE  /\ LatestOf(id) \in Results /\ LatestOf(id).id = id
         /\ Reused(LatestOf(id)) \in Results /\ Reused(LatestOf(id)).id = id
         /\ Reused(LatestOf(id)).reused /\ Reused(LatestOf(id)).val = LatestOf(id).val
<1>1. earlier \in Seq(Results)
  BY DEF TypeInv, ValueType
<1>2. Len(earlier) \in Nat /\ DOMAIN earlier = 1..Len(earlier)
  BY <1>1
<1>3. Earlier(id) \in SUBSET (1..Len(earlier))
  BY <1>2 DEF Earlier
<1>4. Max(Earlier(id)) \in Earlier(id)
  BY <1>2, <1>3, LastPosition
<1>5. LatestOf(id) \in Results /\ LatestOf(id).id = id
  <2>1. Max(Earlier(id)) \in DOMAIN earlier /\ earlier[Max(Earlier(id))].id = id
    BY <1>4 DEF Earlier
  <2> QED
    BY <1>1, <2>1 DEF LatestOf
<1> QED
  BY <1>5 DEF Reused, Results

\* Each earlier result of a step of the block is one a run can reuse.
LEMMA NestedFound ==
  ASSUME TypeInv, NEW id \in AllIds
  PROVE  /\ EarlierNested(id) \in Seq(Results)
         /\ \A i \in DOMAIN EarlierNested(id) :
              LET x == EarlierNested(id)[i]
              IN  /\ x \in Results /\ x.parent = id /\ x.id # id /\ Earlier(x.id) # {}
                  /\ Reused(x) \in Results /\ Reused(x).id = x.id /\ Reused(x).parent = id
                  /\ Reused(x).reused /\ Reused(x).val = x.val
<1> DEFINE K == {x \in Results : x.parent = id /\ \E i \in DOMAIN earlier : earlier[i] = x}
<1>1. earlier \in Seq(Results)
  BY DEF TypeInv, ValueType
<1>2. EarlierNested(id) \in Seq(K)
  BY <1>1, NestedKept
<1>3. \A x \in K : x \in Results /\ x.parent = id /\ x.id # id /\ Earlier(x.id) # {}
  <2>1. id # NoOne
    BY FlowsAssumption
  <2>2. \A x \in K : x \in Results /\ x.parent = id /\ x.id # id /\ x.phase = "main"
    BY <2>1 DEF Results
  <2>3. \A x \in K : \E i \in DOMAIN earlier : earlier[i].id = x.id /\ earlier[i].phase # "teardown"
    BY <2>2
  <2> QED
    BY <2>2, <2>3 DEF Earlier
<1>4. \A x \in Results : /\ Reused(x) \in Results /\ Reused(x).id = x.id
                         /\ Reused(x).parent = x.parent
                         /\ Reused(x).reused /\ Reused(x).val = x.val
  BY DEF Reused, Results
<1> HIDE DEF K
<1>5. \A i \in DOMAIN EarlierNested(id) : EarlierNested(id)[i] \in K
  BY <1>2
<1>6. EarlierNested(id) \in Seq(Results)
  BY <1>2, <1>3
<1> QED
  BY <1>3, <1>4, <1>5, <1>6

LEMMA NestedStep ==
  ASSUME TypeInv, loop.in
  PROVE  /\ phase = "main" /\ phase \in Phases /\ at \in DOMAIN flow.main
         /\ flow.main[at] \in Blocks
         /\ Current = flow.main[at] /\ Current.id \in AllIds
         /\ Len(Nested) \in Nat /\ loop.step \in 0..Len(Nested)
         /\ loop.step > 0 =>
              /\ loop.step \in DOMAIN Nested /\ Nested[loop.step] \in Blocks
              /\ Nested[loop.step].id \in AllIds
              /\ Nested[loop.step].id # flow.main[at].id
<1>1. phase = "main" /\ at \in DOMAIN flow.main /\ loop.step \in 0..Len(Nested) /\ flow \in Flows
  BY DEF TypeInv, LoopType, PlaceType, Nested
<1>2. phase \in Phases /\ Current = flow.main[at]
  BY <1>1 DEF Phases, Current
<1>3. flow.main[at] \in Blocks
  BY <1>1, <1>2, Shapes DEF Current
<1>4. /\ flow.main[at].id \in AllIds
      /\ Len(Nested) \in Nat /\ DOMAIN Nested = 1..Len(Nested)
      /\ \A j \in DOMAIN Nested : Nested[j] \in Blocks
  BY <1>3, NestedShapes DEF Nested
<1>5. ASSUME NEW j \in DOMAIN Nested PROVE Nested[j].id # flow.main[at].id
  <2>1. Nest(flow, at, j) \in AllSteps(flow) /\ Top(flow, "main", at) \in AllSteps(flow)
    BY <1>1, <1>2, <1>5, Listed DEF Nested
  <2>2. Nest(flow, at, j).id = Nested[j].id /\ Nest(flow, at, j).parent = flow.main[at].id
    BY EntryFields DEF Nest, Nested
  <2>3. Top(flow, "main", at).id = flow.main[at].id /\ Top(flow, "main", at).parent = NoOne
    BY EntryFields DEF Top
  <2>4. flow.main[at].id # NoOne
    BY <1>3, NestedShapes
  <2> QED
    BY <1>1, <2>1, <2>2, <2>3, <2>4, OneEntry
<1>6. \A j \in DOMAIN Nested : Nested[j].id \in AllIds
  BY <1>4, NestedShapes
<1> QED
  BY <1>1, <1>2, <1>3, <1>4, <1>5, <1>6

LEMMA OneResultSteps ==
  ASSUME TypeInv,
         \/ ReuseStep \/ LeaveOut \/ SkipPastUntil \/ SkipStopped \/ RefuseForward \/ WhenSkips
         \/ \E status \in Outcomes : RunCall(status)
  PROVE  \E x \in Results : Passing(x)
<1>0. Due
  BY DEF ReuseStep, LeaveOut, SkipPastUntil, SkipStopped, RefuseForward, WhenSkips, RunCall,
         Executes
<1>1. /\ phase \in Phases /\ at \in DOMAIN flow[phase]
      /\ Current.id \in AllIds /\ ~loop.in
  BY <1>0, CurrentStep
<1>2. loop \in LoopStates /\ stop \in BOOLEAN /\ plan.cont \in BOOLEAN
  BY DEF TypeInv, LoopType, FlagType
<1>3. Empty \in Values /\ Here \in Values
  BY SomeValues
<1>4. \A status \in Statuses, val \in Values :
        LET x == Result(Current.id, NoOne, status, val)
        IN  x \in Results /\ x.id = Current.id /\ x.status = status /\ x.val = val /\ ~x.reused
  BY <1>1, PlainResult
<1>5. \A status \in Outcomes \cup {"skipped"} : status \in Statuses /\ status # "when"
  BY DEF Outcomes, Statuses
<1>6. ASSUME NEW status \in Outcomes \cup {"skipped"}, NEW val \in Values,
             Put(Result(Current.id, NoOne, status, val)), Remember(Current.id, val), Advance,
             loop' = loop, stop' \in BOOLEAN, gone' = gone, left' = left
      PROVE  \E x \in Results : Passing(x)
  <2> DEFINE x == Result(Current.id, NoOne, status, val)
  <2>1. x \in Results /\ x.id = Current.id /\ x.status = status /\ x.val = val /\ ~x.reused
    BY <1>4, <1>5
  <2>2. Put(x) /\ Remember(x.id, x.val)
    BY <1>6, <2>1
  <2> HIDE DEF x
  <2>3. Gives(x)
    BY <2>1, <1>5 DEF Gives
  <2>4. Passing(x)
    BY <1>1, <1>2, <1>6, <2>1, <2>2, <2>3 DEF Passing, Valued
  <2> QED
    BY <2>1, <2>4
<1>7. CASE ReuseStep
  <2> DEFINE x == Reused(LatestOf(Current.id))
  <2>1. plan.reuse /\ Earlier(Current.id) # {}
    BY <1>7 DEF ReuseStep, Reusable
  <2>2. /\ x \in Results /\ x.id = Current.id /\ x.reused /\ x.val = LatestOf(Current.id).val
        /\ LatestOf(Current.id).id = Current.id
    BY <2>1, LatestFound
  <2>3. Put(x) /\ Remember(x.id, x.val) /\ Advance /\ Quietly
    BY <1>7, <2>2 DEF ReuseStep
  <2> HIDE DEF x
  <2>4. Passing(x)
    BY <1>1, <1>2, <2>1, <2>2, <2>3 DEF Passing, Valued, Quietly, Gives
  <2> QED
    BY <2>2, <2>4
<1>8. CASE LeaveOut
  <2> DEFINE x == NoValue(Current, "skipped")
  <2>1. x \in Results /\ x.id = Current.id /\ ~x.reused
    BY <1>3, <1>4, <1>5 DEF NoValue
  <2>2. plan.reuse => Earlier(Current.id) = {}
    BY <1>8, <1>1 DEF LeaveOut, Reusable, OutsideWindow, InMain
  <2>3. Put(x) /\ Advance /\ steps' = steps /\ left' = left \cup {Current.id}
        /\ UNCHANGED <<loop, stop, gone>>
    BY <1>8 DEF LeaveOut
  <2> HIDE DEF x
  <2>4. Passing(x)
    BY <1>1, <1>2, <2>1, <2>2, <2>3 DEF Passing, WithoutData
  <2> QED
    BY <2>1, <2>4
<1>9. CASE SkipPastUntil
  <2>1. "skipped" \in Outcomes \cup {"skipped"}
    OBVIOUS
  <2>2. Put(Result(Current.id, NoOne, "skipped", Empty)) /\ Remember(Current.id, Empty) /\ Advance
        /\ loop' = loop /\ stop' \in BOOLEAN /\ gone' = gone /\ left' = left
    BY <1>2, <1>9 DEF SkipPastUntil, NoValue, Quietly
  <2> QED
    BY <1>3, <1>6, <2>1, <2>2
<1>10. CASE SkipStopped
  <2>1. "skipped" \in Outcomes \cup {"skipped"}
    OBVIOUS
  <2>2. Put(Result(Current.id, NoOne, "skipped", Empty)) /\ Remember(Current.id, Empty) /\ Advance
        /\ loop' = loop /\ stop' \in BOOLEAN /\ gone' = gone /\ left' = left
    BY <1>2, <1>10 DEF SkipStopped, NoValue
  <2> QED
    BY <1>3, <1>6, <2>1, <2>2
<1>11. CASE RefuseForward
  <2>1. "failed" \in Outcomes \cup {"skipped"}
    BY DEF Outcomes
  <2>2. Put(Result(Current.id, NoOne, "failed", Empty)) /\ Remember(Current.id, Empty) /\ Advance
        /\ loop' = loop /\ stop' \in BOOLEAN /\ gone' = gone /\ left' = left
    BY <1>2, <1>11 DEF RefuseForward, NoValue
  <2> QED
    BY <1>3, <1>6, <2>1, <2>2
<1>12. CASE WhenSkips
  <2> DEFINE x == NoValue(Current, "when")
  <2>1. "when" \in Statuses
    BY DEF Statuses
  <2>2. x \in Results /\ x.id = Current.id /\ x.status = "when" /\ ~x.reused
    BY <1>3, <1>4, <2>1 DEF NoValue
  <2>3. Put(x) /\ Advance /\ Quietly /\ steps' = steps /\ Current.when
    BY <1>12 DEF WhenSkips
  <2> HIDE DEF x
  <2>4. Passing(x)
    BY <1>1, <1>2, <2>2, <2>3 DEF Passing, Unvalued, Quietly, Gives
  <2> QED
    BY <2>2, <2>4
<1>13. ASSUME NEW status \in Outcomes, RunCall(status)
       PROVE  \E x \in Results : Passing(x)
  <2>1. stop' \in BOOLEAN
    BY <1>2, <1>13 DEF RunCall, AfterStep
  <2>2. Put(Result(Current.id, NoOne, status, Here)) /\ Remember(Current.id, Here) /\ Advance
        /\ loop' = loop /\ gone' = gone /\ left' = left
    BY <1>13 DEF RunCall
  <2> QED
    BY <1>3, <1>6, <2>1, <2>2
<1> QED
  BY <1>7, <1>8, <1>9, <1>10, <1>11, <1>12, <1>13

LEMMA BlockSteps ==
  ASSUME TypeInv,
         \/ EnterBlock \/ BlockFails \/ BeginIteration \/ NestedWhenSkips
         \/ \E status \in Outcomes : RunNested(status)
         \/ NestedCancelled \/ LeaveBlock
  PROVE  \/ Turning
         \/ \E x \in Results : Passing(x) \/ Looping(x)
<1>1. loop \in LoopStates /\ stop \in BOOLEAN /\ plan.cont \in BOOLEAN
  BY DEF TypeInv, LoopType, FlagType
<1>2. Empty \in Values /\ Here \in Values /\ [run |-> runs, iter |-> 0] \in Values
  BY SomeValues
<1>3. MaxIterations \in Nat
  BY BoundsAssumption
<1>4. Outside \in LoopStates /\ ~Outside.in
  BY <1>3 DEF Outside, LoopStates
<1>5. \A status \in Outcomes : status \in Statuses /\ status # "when"
  BY DEF Outcomes, Statuses
<1>6. ASSUME NEW status \in Outcomes, BlockEnds(status), phase = "main", phase \in Phases,
             at \in DOMAIN flow.main, Current = flow.main[at], Current.id \in AllIds
      PROVE  \E x \in Results : Passing(x)
  <2> DEFINE val == [run |-> runs, iter |-> 0]
             x == Result(Current.id, NoOne, status, val)
  <2>1. x \in Results /\ x.id = Current.id /\ x.status = status /\ x.val = val /\ ~x.reused
    BY <1>2, <1>5, <1>6, PlainResult
  <2>2. Put(x) /\ Remember(x.id, x.val) /\ Advance /\ loop' = Outside /\ gone' = gone /\ left' = left
    BY <1>6, <2>1 DEF BlockEnds
  <2>3. stop' \in BOOLEAN
    BY <1>1, <1>6 DEF BlockEnds, AfterStep
  <2>4. at \in DOMAIN flow[phase]
    BY <1>6
  <2> HIDE DEF x
  <2>5. Gives(x)
    BY <2>1, <1>5 DEF Gives
  <2>6. Passing(x)
    BY <1>4, <1>6, <2>1, <2>2, <2>3, <2>4, <2>5 DEF Passing, Valued
  <2> QED
    BY <2>1, <2>6
<1>7. CASE EnterBlock
  <2>1. Due /\ IsBlock(Current)
    BY <1>7 DEF EnterBlock, Executes
  <2>2. phase = "main" /\ at \in DOMAIN flow.main /\ Current = flow.main[at] /\ Current \in Blocks
    BY <2>1, CurrentStep DEF Current
  <2>3. Len(Nested) \in Nat
    BY <2>2, NestedShapes DEF Nested
  <2>4. loop' = [Outside EXCEPT !.in = TRUE]
        /\ UNCHANGED <<flow, runs, phase, at, plan, stop, gone, steps, record, left, earlier>>
    BY <1>7 DEF EnterBlock
  <2>6. loop' = [in |-> TRUE, iter |-> 0, step |-> 0, failed |-> FALSE]
    BY <2>4 DEF Outside
  <2>7. 0 \in 0..MaxIterations
    BY <1>3
  <2>5. loop' \in LoopStates /\ loop'.in /\ loop'.step = 0
    BY <2>6, <2>7 DEF LoopStates
  <2> QED
    BY <2>1, <2>2, <2>3, <2>4, <2>5 DEF Turning
<1>8. CASE BlockFails
  <2>1. Due /\ IsBlock(Current) /\ BlockEnds("failed") /\ "failed" \in Outcomes
    BY <1>8 DEF BlockFails, Executes, Outcomes
  <2>2. /\ phase = "main" /\ phase \in Phases /\ at \in DOMAIN flow.main
        /\ Current = flow.main[at] /\ Current.id \in AllIds
    BY <2>1, CurrentStep DEF Current
  <2> QED
    BY <1>6, <2>1, <2>2
<1>9. CASE loop.in
  <2>1. /\ phase = "main" /\ phase \in Phases /\ at \in DOMAIN flow.main
        /\ Current = flow.main[at] /\ Current.id \in AllIds
        /\ Len(Nested) \in Nat /\ loop.step \in 0..Len(Nested)
        /\ loop.step > 0 => /\ loop.step \in DOMAIN Nested
                            /\ Nested[loop.step].id \in AllIds
                            /\ Nested[loop.step].id # flow.main[at].id
    BY <1>9, NestedStep
  <2>2. flow.main[at].id \in AllIds /\ IsBlock(flow.main[at])
    BY <1>9, <2>1 DEF TypeInv, LoopType
  <2>3. EndIteration \in LoopStates /\ EndIteration.in /\ EndIteration.step = 0
    BY <1>1, <1>9 DEF EndIteration, LoopStates
  <2>4. loop.step > 0 =>
          /\ PastNested \in LoopStates /\ PastNested.in /\ PastNested.step \in 0..Len(Nested)
          /\ PastNested.step <= loop.step + 1
    BY <1>1, <1>9, <2>1 DEF PastNested, LoopStates
  <2>5. ASSUME Inside, NEW status \in Statuses, NEW val \in Values
        PROVE  LET x == Result(Nested[loop.step].id, flow.main[at].id, status, val)
               IN  /\ x \in Results /\ x.id = Nested[loop.step].id /\ x.status = status
                   /\ x.val = val /\ ~x.reused
    BY <2>1, <2>2, <2>5, PlainResult DEF Inside
  <2>6. CASE BeginIteration
    <3>1. loop' = [loop EXCEPT !.iter = @ + 1, !.step = 1] /\ loop.iter < MaxIterations
      BY <2>6 DEF BeginIteration, StayInLoop
    <3>5. loop.iter \in 0..MaxIterations /\ loop.failed \in BOOLEAN
      BY <1>1 DEF LoopStates
    <3>6. loop.iter + 1 \in 0..MaxIterations
      BY <1>3, <3>1, <3>5
    <3>7. loop' = [in |-> loop.in, iter |-> loop.iter + 1, step |-> 1, failed |-> loop.failed]
      BY <1>1, <3>1 DEF LoopStates
    <3>2. loop' \in LoopStates /\ loop'.in /\ loop'.step = 1
      BY <1>9, <3>5, <3>6, <3>7 DEF LoopStates
    <3>3. Len(Nested) # 0
      <4>1. Nested \in Seq(Calls) /\ Nested # <<>>
        BY <2>2, NestedStep, <1>9 DEF IsBlock, Nested, Blocks
      <4> QED
        BY <4>1
    <3>4. UNCHANGED <<flow, runs, phase, at, plan, stop, gone, steps, record, left, earlier>>
      BY <2>6 DEF BeginIteration, StayInLoop
    <3> QED
      BY <2>1, <2>2, <3>2, <3>3, <3>4 DEF Turning
  <2>7. CASE NestedCancelled
    <3>1. loop' = EndIteration
          /\ UNCHANGED <<flow, runs, phase, at, plan, stop, gone, steps, record, left, earlier>>
      BY <2>7 DEF NestedCancelled, StayInLoop
    <3> QED
      BY <2>1, <2>2, <2>3, <3>1 DEF Turning
  <2>8. CASE NestedWhenSkips
    <3> DEFINE x == Result(Nested[loop.step].id, flow.main[at].id, "when", Empty)
    <3>1. "when" \in Statuses /\ Inside /\ loop.step > 0
      BY <2>8 DEF Statuses, NestedWhenSkips, Inside
    <3>2. x \in Results /\ x.id = Nested[loop.step].id /\ x.status = "when" /\ ~x.reused
      BY <1>2, <2>5, <3>1
    <3>3. Put(x) /\ loop' = PastNested /\ Nested[loop.step].when /\ steps' = steps
          /\ UNCHANGED <<flow, runs, phase, at, plan, stop, gone, left, earlier>>
      BY <2>8 DEF NestedWhenSkips, StayInLoop
    <3> HIDE DEF x
    <3>4. Looping(x)
      BY <1>9, <2>4, <3>1, <3>2, <3>3 DEF Looping, Gives
    <3> QED
      BY <3>2, <3>4
  <2>9. ASSUME NEW status \in Outcomes, RunNested(status)
        PROVE  \E x \in Results : Looping(x)
    <3> DEFINE x == Result(Nested[loop.step].id, flow.main[at].id, status, Here)
    <3>1. status \in Statuses /\ status # "when" /\ Inside /\ loop.step > 0
      BY <1>5, <2>9 DEF RunNested, Inside
    <3>2. x \in Results /\ x.id = Nested[loop.step].id /\ x.status = status /\ ~x.reused
          /\ x.val = Here
      BY <1>2, <2>5, <3>1
    <3>3. Put(x) /\ Remember(x.id, x.val) /\ loop' \in {PastNested, EndIteration}
          /\ UNCHANGED <<flow, runs, phase, at, plan, stop, gone, left, earlier>>
      BY <2>9, <3>2 DEF RunNested, StayInLoop
    <3>4. loop' \in LoopStates /\ loop'.in /\ loop'.step \in 0..Len(Nested)
          /\ loop'.step <= loop.step + 1
      BY <2>1, <2>3, <2>4, <3>1, <3>3
    <3> HIDE DEF x
    <3>5. Looping(x)
      BY <1>9, <3>1, <3>2, <3>3, <3>4 DEF Looping, Gives
    <3> QED
      BY <3>2, <3>5
  <2>10. CASE LeaveBlock
    <3>1. PICK status \in Outcomes : BlockEnds(status)
      BY <2>10 DEF LeaveBlock, Outcomes
    <3> QED
      BY <1>6, <2>1, <3>1
  <2>11. ~EnterBlock /\ ~BlockFails
    BY <1>9 DEF EnterBlock, BlockFails, Executes, Due
  <2> QED
    BY <2>6, <2>7, <2>8, <2>9, <2>10, <2>11
<1>10. CASE ~loop.in
  BY <1>7, <1>8, <1>10 DEF BeginIteration, NestedWhenSkips, RunNested, NestedCancelled, LeaveBlock,
                           Between, Inside
<1> QED
  BY <1>9, <1>10

LEMMA StartSteps ==
  ASSUME TypeInv, Starts
  PROVE  Beginning
<1>1. ASSUME NEW p, p.reuse \in BOOLEAN, p.cont \in BOOLEAN, Begin(p) PROVE Beginning
  BY <1>1 DEF Begin, Beginning
<1>2. ASSUME NEW cont \in BOOLEAN, Start(cont) PROVE Beginning
  <2> DEFINE p == [NoPlan EXCEPT !.cont = cont]
  <2>1. p.reuse \in BOOLEAN /\ p.cont \in BOOLEAN
    BY DEF NoPlan
  <2>2. Begin(p)
    BY <1>2 DEF Start
  <2> HIDE DEF p
  <2> QED
    BY <1>1, <2>1, <2>2
<1>3. ASSUME NEW i, NEW until, StartFrom(i, until) PROVE Beginning
  <2> DEFINE p == [NoPlan EXCEPT !.from = i, !.until = until,
                                 !.noData = {flow.main[j].id : j \in 1 .. i - 1}]
  <2>1. p.reuse \in BOOLEAN /\ p.cont \in BOOLEAN
    BY DEF NoPlan
  <2>2. Begin(p)
    BY <1>3 DEF StartFrom
  <2> HIDE DEF p
  <2> QED
    BY <1>1, <2>1, <2>2
<1>4. ASSUME NEW i, NEW until, ResumeFrom(i, until) PROVE Beginning
  <2> DEFINE p == [NoPlan EXCEPT !.reuse = TRUE, !.from = i, !.until = until]
  <2>1. p.reuse \in BOOLEAN /\ p.cont \in BOOLEAN
    BY DEF NoPlan
  <2>2. Begin(p)
    BY <1>4 DEF ResumeFrom
  <2> HIDE DEF p
  <2> QED
    BY <1>1, <2>1, <2>2
<1> QED
  BY <1>2, <1>3, <1>4 DEF Starts

\* The forms of a step of the specification.
LEMMA StepForms ==
  ASSUME TypeInv, Next
  PROVE  \/ Beginning \/ Turning \/ ReuseBlock
         \/ NextPhase \/ Return \/ Crash \/ Cancel \/ Edit
         \/ \E x \in Results : Passing(x) \/ Looping(x)
<1>1. CASE StepOf
  BY <1>1, OneResultSteps DEF StepOf
<1>2. CASE StepOfBlock
  BY <1>2, BlockSteps DEF StepOfBlock
<1>3. CASE Starts
  BY <1>3, StartSteps
<1> QED
  BY <1>1, <1>2, <1>3 DEF Next

\* What the reuse of a block adds to the record and to the values.
LEMMA BlockReuse ==
  ASSUME TypeInv, ReuseBlock
  PROVE  LET id     == Current.id
             nested == EarlierNested(Current.id)
             ids    == {nested[i].id : i \in DOMAIN nested}
         IN  /\ phase = "main" /\ at \in DOMAIN flow[phase] /\ id \in AllIds /\ ~loop.in
             /\ plan.reuse /\ Earlier(id) # {} /\ Advance /\ Quietly
             /\ Len(nested) \in Nat /\ DOMAIN nested = 1..Len(nested)
             /\ record' \in Seq(Results)
             /\ Len(record') = Len(record) + 1 + Len(nested)
             /\ \A i \in DOMAIN record : record'[i] = record[i]
             /\ record'[Len(record) + 1] = Reused(LatestOf(id))
             /\ \A i \in DOMAIN nested : record'[Len(record) + 1 + i] = Reused(nested[i])
             /\ DOMAIN steps' = DOMAIN steps \cup ids \cup {id}
             /\ steps'[id] = LatestOf(id).val
             /\ \A y \in ids : y # id /\ steps'[y] = Restored(nested, y)
             /\ \A y \in DOMAIN steps : y \notin ids /\ y # id => steps'[y] = steps[y]
<1> DEFINE id == Current.id
           nested == EarlierNested(id)
           ids == {nested[i].id : i \in DOMAIN nested}
           again == [i \in DOMAIN nested |-> Reused(nested[i])]
           block == Reused(LatestOf(id))
<1>1. Due /\ IsBlock(Current) /\ Reusable /\ Advance /\ Quietly
  BY DEF ReuseBlock
<1>2. phase = "main" /\ at \in DOMAIN flow[phase] /\ id \in AllIds /\ ~loop.in
  BY <1>1, CurrentStep
<1>3. plan.reuse /\ Earlier(id) # {}
  BY <1>1 DEF Reusable
<1>4. block \in Results /\ LatestOf(id).id = id
  BY <1>3, LatestFound
<1>5. nested \in Seq(Results)
  BY <1>2, NestedFound
<1>6. \A i \in DOMAIN nested : Reused(nested[i]) \in Results /\ nested[i].id # id
  BY <1>2, NestedFound
<1>7. /\ record' = record \o <<block>> \o again
      /\ steps' = [x \in DOMAIN steps \cup ids \cup {LatestOf(id).id} |->
                     IF x = LatestOf(id).id THEN LatestOf(id).val
                     ELSE IF x \in ids THEN Restored(nested, x) ELSE steps[x]]
  BY DEF ReuseBlock
<1>8. record \in Seq(Results)
  BY DEF TypeInv, ValueType
<1>9. Len(nested) \in Nat /\ DOMAIN nested = 1..Len(nested)
  BY <1>5
<1>10. again = [i \in 1..Len(nested) |-> again[i]] /\ \A i \in DOMAIN nested : again[i] = Reused(nested[i])
  BY <1>9
<1>11. \A i \in 1..Len(nested) : again[i] \in Results
  BY <1>6, <1>9, <1>10
<1> HIDE DEF again, nested, block, ids
<1>12. again \in Seq(Results) /\ Len(again) = Len(nested)
  BY <1>9, <1>10, <1>11
<1>13. /\ record' \in Seq(Results)
       /\ Len(record') = Len(record) + 1 + Len(nested)
       /\ \A i \in DOMAIN record : record'[i] = record[i]
       /\ record'[Len(record) + 1] = block
       /\ \A i \in DOMAIN nested : record'[Len(record) + 1 + i] = again[i]
  <2> DEFINE head == record \o <<block>>
  <2>1. /\ head \in Seq(Results) /\ Len(head) = Len(record) + 1 /\ Len(record) \in Nat
        /\ head[Len(record) + 1] = block
        /\ \A i \in 1..Len(record) : head[i] = record[i]
    BY <1>4, <1>8
  <2>2. record' = head \o again
    BY <1>7
  <2>6. DOMAIN record = 1..Len(record)
    BY <1>8
  <2> HIDE DEF head
  <2>3. record' \in Seq(Results) /\ Len(record') = Len(head) + Len(again)
    <3>1. head \o again \in Seq(Results)
      BY <1>12, <2>1, ConcatProperties
    <3>2. Len(head \o again) = Len(head) + Len(again)
      BY <1>12, <2>1, ConcatProperties
    <3> QED
      BY <2>2, <3>1, <3>2
  <2>4. \A i \in 1..Len(head) : record'[i] = head[i]
    BY <1>12, <2>1, <2>2
  <2>5. \A i \in 1..Len(again) : record'[Len(head) + i] = again[i]
    BY <1>9, <1>12, <2>1, <2>2
  <2> QED
    BY <1>9, <1>12, <2>1, <2>3, <2>4, <2>5, <2>6
<1>14. \A y \in ids : y # id
  BY <1>6 DEF ids
<1>15. /\ DOMAIN steps' = DOMAIN steps \cup ids \cup {id}
       /\ steps'[id] = LatestOf(id).val
       /\ \A y \in ids : steps'[y] = Restored(nested, y)
       /\ \A y \in DOMAIN steps : y \notin ids /\ y # id => steps'[y] = steps[y]
  BY <1>4, <1>7, <1>14
<1> QED
  BY <1>1, <1>2, <1>3, <1>9, <1>10, <1>13, <1>14, <1>15 DEF nested, ids, block

\* The latest of the values of a nested step.
LEMMA RestoredIsLast ==
  ASSUME NEW nested, nested \in Seq(Results), NEW y,
         \E i \in DOMAIN nested : nested[i].id = y
  PROVE  \E i \in DOMAIN nested :
           /\ nested[i].id = y /\ Restored(nested, y) = nested[i].val
           /\ \A j \in DOMAIN nested : nested[j].id = y => j <= i
<1> DEFINE T == {i \in DOMAIN nested : nested[i].id = y}
<1>1. Len(nested) \in Nat /\ T \in SUBSET (1..Len(nested)) /\ T # {}
  OBVIOUS
<1>2. Max(T) \in T /\ \A k \in T : k <= Max(T)
  <2> HIDE DEF T
  <2> QED
    BY <1>1, LastPosition
<1>3. Restored(nested, y) = nested[Max(T)].val
  BY DEF Restored
<1> QED
  BY <1>2, <1>3

LEMMA Added ==
  ASSUME record \in Seq(Results), NEW x \in Results, Put(x)
  PROVE  /\ record' \in Seq(Results) /\ Len(record) \in Nat /\ Len(record') = Len(record) + 1
         /\ DOMAIN record = 1..Len(record) /\ DOMAIN record' = 1..(Len(record) + 1)
         /\ record'[Len(record) + 1] = x
         /\ \A i \in DOMAIN record : record'[i] = record[i]
BY DEF Put

LEMMA Remembered ==
  ASSUME NEW id, NEW val, Remember(id, val)
  PROVE  /\ DOMAIN steps' = DOMAIN steps \cup {id} /\ steps'[id] = val
         /\ \A y \in DOMAIN steps : y # id => steps'[y] = steps[y]
BY DEF Remember

(***************************************************************************)
(* The type invariant                                                      *)
(***************************************************************************)
LEMMA TypeAtStart == Init => TypeInv
<1> SUFFICES ASSUME Init PROVE TypeInv
  OBVIOUS
<1> USE DEF Init
<1>1. PlaceType
  BY BoundsAssumption DEF PlaceType
<1>2. LoopType
  <2>1. 0 \in 0..MaxIterations
    BY BoundsAssumption
  <2> QED
    BY <2>1 DEF LoopType, LoopStates, Outside
<1>3. FlagType
  BY DEF FlagType, NoPlan
<1>4. ValueType
  BY DEF ValueType
<1> QED
  BY <1>1, <1>2, <1>3, <1>4 DEF TypeInv

\* What the steps do to the values, once for each way they are changed.
LEMMA ValuesAfterResult ==
  ASSUME TypeInv, NEW x \in Results, Put(x), earlier' = earlier, phase' = phase, phase # "idle",
         Remember(x.id, x.val) \/ steps' = steps
  PROVE  ValueType'
<1>1. x.id \in AllIds /\ x.val \in Values
  BY DEF Results
<1>2. /\ DOMAIN steps \subseteq AllIds /\ \A id \in DOMAIN steps : steps[id] \in Values
      /\ record \in Seq(Results) /\ earlier \in Seq(Results)
  BY DEF TypeInv, ValueType
<1>3. record' \in Seq(Results)
  BY <1>2, Added
<1>4. DOMAIN steps' \subseteq AllIds /\ \A id \in DOMAIN steps' : steps'[id] \in Values
  <2>1. CASE Remember(x.id, x.val)
    <3>1. /\ DOMAIN steps' = DOMAIN steps \cup {x.id} /\ steps'[x.id] = x.val
          /\ \A y \in DOMAIN steps : y # x.id => steps'[y] = steps[y]
      BY <2>1, Remembered
    <3> QED
      BY <1>1, <1>2, <3>1
  <2>2. CASE steps' = steps
    BY <1>2, <2>2
  <2> QED
    BY <2>1, <2>2
<1> QED
  BY <1>2, <1>3, <1>4 DEF ValueType

LEMMA ValuesAfterBlockReuse ==
  ASSUME TypeInv, ReuseBlock
  PROVE  ValueType'
<1> DEFINE id == Current.id
           nested == EarlierNested(id)
           ids == {nested[i].id : i \in DOMAIN nested}
<1>1. /\ id \in AllIds /\ record' \in Seq(Results) /\ Earlier(id) # {}
      /\ DOMAIN steps' = DOMAIN steps \cup ids \cup {id}
      /\ steps'[id] = LatestOf(id).val
      /\ \A y \in ids : y # id /\ steps'[y] = Restored(nested, y)
      /\ \A y \in DOMAIN steps : y \notin ids /\ y # id => steps'[y] = steps[y]
      /\ phase = "main" /\ Advance
  BY BlockReuse
<1>2. LatestOf(id).val \in Values
  BY <1>1, LatestFound DEF Results
<1>3. nested \in Seq(Results)
  BY <1>1, NestedFound
<1>4. \A x \in Results : x.id \in AllIds /\ x.val \in Values
  BY DEF Results
<1>5. \A i \in DOMAIN nested : nested[i] \in Results
  BY <1>3
<1>6. ASSUME NEW y \in ids PROVE y \in AllIds /\ steps'[y] \in Values
  <2>1. \E i \in DOMAIN nested : nested[i].id = y
    OBVIOUS
  <2> HIDE DEF nested
  <2>2. PICK i \in DOMAIN nested : nested[i].id = y /\ Restored(nested, y) = nested[i].val
    BY <1>3, <2>1, RestoredIsLast
  <2> HIDE DEF ids
  <2> QED
    BY <1>1, <1>4, <1>5, <2>2
<1>7. /\ DOMAIN steps \subseteq AllIds /\ \A y \in DOMAIN steps : steps[y] \in Values
      /\ earlier \in Seq(Results)
  BY DEF TypeInv, ValueType
<1> HIDE DEF id, nested, ids
<1>8. DOMAIN steps' \subseteq AllIds /\ \A y \in DOMAIN steps' : steps'[y] \in Values
  BY <1>1, <1>2, <1>6, <1>7
<1>9. earlier' = earlier /\ phase' = phase
  BY <1>1 DEF Advance
<1> QED
  BY <1>1, <1>7, <1>8, <1>9 DEF ValueType

LEMMA PlaceAfterPassing ==
  ASSUME TypeInv, phase \in Phases, at \in DOMAIN flow[phase], Advance
  PROVE  PlaceType'
<1>1. flow \in Flows /\ runs \in 0..MaxRuns
  BY DEF TypeInv, PlaceType
<1>2. Len(flow[phase]) \in Nat /\ DOMAIN flow[phase] = 1..Len(flow[phase])
  BY <1>1, Shapes
<1>3. at + 1 \in 1..(Len(flow[phase]) + 1)
  BY <1>2
<1> QED
  BY <1>1, <1>3 DEF Advance, PlaceType

LEMMA TypeStep ==
  ASSUME TypeInv, [Next]_vars
  PROVE  TypeInv'
<1> USE DEF TypeInv
<1>1. CASE Beginning
  <2>1. ~loop.in /\ "setup" \in Phases
    BY <1>1 DEF Beginning, LoopType, Phases
  <2>2. Len(flow["setup"]) \in Nat
    BY <2>1, Shapes DEF PlaceType
  <2>3. PlaceType'
    BY <1>1, <2>1, <2>2, BoundsAssumption DEF Beginning, PlaceType
  <2>4. LoopType'
    BY <1>1, <2>1 DEF Beginning, LoopType
  <2>5. FlagType' /\ ValueType'
    BY <1>1 DEF Beginning, FlagType, ValueType
  <2> QED
    BY <2>3, <2>4, <2>5
<1>2. CASE Turning
  <2>1. PlaceType' /\ FlagType'
    BY <1>2 DEF Turning, PlaceType, FlagType
  <2>2. LoopType'
    BY <1>2 DEF Turning, LoopType, Nested
  <2>3. ValueType'
    BY <1>2 DEF Turning, ValueType
  <2> QED
    BY <2>1, <2>2, <2>3
<1>3. CASE ReuseBlock
  <2>1. phase = "main" /\ at \in DOMAIN flow[phase] /\ ~loop.in /\ Advance /\ Quietly
    BY <1>3, BlockReuse
  <2>2. PlaceType'
    BY <2>1, PlaceAfterPassing DEF Phases
  <2>3. LoopType' /\ FlagType'
    BY <2>1 DEF Advance, Quietly, LoopType, FlagType
  <2> QED
    BY <1>3, <2>2, <2>3, ValuesAfterBlockReuse
<1>4. ASSUME NEW x \in Results, Passing(x) PROVE TypeInv'
  <2>1. PlaceType'
    BY <1>4, PlaceAfterPassing DEF Passing
  <2>2. LoopType'
    BY <1>4 DEF Passing, LoopType
  <2>3. Current.id \in AllIds
    BY <1>4 DEF Passing, Results
  <2>4. FlagType'
    BY <1>4, <2>3 DEF Passing, Valued, Unvalued, WithoutData, FlagType, Advance
  <2>5. ValueType'
    <3>1. Put(x) /\ earlier' = earlier /\ phase' = phase /\ phase # "idle"
      BY <1>4 DEF Passing, Advance, Phases
    <3>2. Remember(x.id, x.val) \/ steps' = steps
      BY <1>4 DEF Passing, Valued, Unvalued, WithoutData
    <3> QED
      BY <3>1, <3>2, ValuesAfterResult
  <2> QED
    BY <2>1, <2>2, <2>4, <2>5
<1>5. ASSUME NEW x \in Results, Looping(x) PROVE TypeInv'
  <2>1. PlaceType' /\ FlagType'
    BY <1>5 DEF Looping, PlaceType, FlagType
  <2>2. LoopType'
    BY <1>5 DEF Looping, LoopType, Nested
  <2>3. ValueType'
    <3>1. Put(x) /\ earlier' = earlier /\ phase' = phase /\ phase # "idle"
      BY <1>5 DEF Looping, LoopType
    <3>2. Remember(x.id, x.val) \/ steps' = steps
      BY <1>5 DEF Looping
    <3> QED
      BY <3>1, <3>2, ValuesAfterResult
  <2> QED
    BY <2>1, <2>2, <2>3
<1>6. CASE NextPhase
  <2>1. phase \in {"setup", "main"} /\ ~loop.in /\ phase' \in Phases \ {"setup"} /\ at' = 1
        /\ UNCHANGED <<flow, runs, loop, plan, stop, gone, steps, record, left, earlier>>
    BY <1>6 DEF NextPhase, Phases
  <2>2. Len(flow[phase']) \in Nat
    BY <2>1, Shapes DEF PlaceType
  <2>3. PlaceType' /\ LoopType'
    BY <2>1, <2>2 DEF PlaceType, LoopType, Phases
  <2>4. FlagType' /\ ValueType'
    BY <2>1 DEF FlagType, ValueType, Phases
  <2> QED
    BY <2>3, <2>4
<1>7. CASE Ends
  <2>1. PlaceType'
    BY <1>7 DEF Ends, PlaceType
  <2>2. LoopType'
    <3>1. 0 \in 0..MaxIterations
      BY BoundsAssumption
    <3> QED
      BY <1>7, <3>1 DEF Ends, LoopType, LoopStates, Outside
  <2>3. FlagType'
    BY <1>7 DEF Ends, FlagType, NoPlan
  <2>4. ValueType'
    BY <1>7 DEF Ends, ValueType
  <2> QED
    BY <2>1, <2>2, <2>3, <2>4
<1>8. CASE Cancel
  BY <1>8 DEF Cancel, PlaceType, LoopType, FlagType, ValueType
<1>9. CASE Edit
  <2>1. phase = "idle" /\ flow' \in Flows /\ UNCHANGED <<runs, runVars, earlier>>
    BY <1>9 DEF Edit
  <2>2. PlaceType' /\ LoopType'
    BY <2>1 DEF runVars, PlaceType, LoopType
  <2>3. FlagType' /\ ValueType'
    BY <2>1 DEF runVars, FlagType, ValueType
  <2> QED
    BY <2>2, <2>3
<1>10. CASE UNCHANGED vars
  BY <1>10 DEF vars, runVars, PlaceType, LoopType, FlagType, ValueType
<1> QED
  BY <1>1, <1>2, <1>3, <1>4, <1>5, <1>6, <1>7, <1>8, <1>9, <1>10, StepForms
     DEF Return, Crash

\* Positions stay in the flow's lists and every value is of a run there was.
THEOREM TypeCorrect == Spec => []TypeOK
<1>1. Init => TypeInv
  BY TypeAtStart
<1>2. TypeInv /\ [Next]_vars => TypeInv'
  BY TypeStep
<1>3. TypeInv => TypeOK
  BY TypeInvGivesTypeOK
<1> QED
  BY <1>1, <1>2, <1>3, PTL DEF Spec

(***************************************************************************)
(* What is behind the run's position, and what has a value                 *)
(***************************************************************************)
Passed(e) ==
  \/ e.place[1] < Rank[phase]
  \/ e.place[1] = Rank[phase] /\ e.place[2] < at
InLoop(e) == loop.in /\ e.parent = flow.main[at].id
\* It was reused with a block it is no longer in.
Moved(e) ==
  \E i \in DOMAIN record :
    record[i].id = e.id /\ record[i].reused /\ record[i].parent # e.parent

\* A step the run has passed has a value or was left out, unless its `when`
\* skipped it; in a loop, so has a nested step the iteration has passed.
BehindInv ==
  phase # "idle" =>
    \A e \in AllSteps(flow) :
      e.parent = NoOne /\ Passed(e) /\ ~e.when => e.id \in DOMAIN steps \cup left
BehindInLoopInv ==
  loop.in =>
    \A e \in AllSteps(flow) :
      e.parent = flow.main[at].id /\ e.place[3] < loop.step /\ ~e.when => e.id \in DOMAIN steps
\* Nothing the run has not reached has a value, but for steps that were moved.
AheadInv ==
  phase # "idle" =>
    \A e \in AllSteps(flow) : e.id \in DOMAIN steps => Passed(e) \/ InLoop(e) \/ Moved(e)
\* Only what the earlier run recorded before its teardown is reused.
ReusedInv ==
  \A i \in DOMAIN record : record[i].reused => plan.reuse /\ Earlier(record[i].id) # {}
OrderInv == BehindInv /\ BehindInLoopInv /\ AheadInv /\ ReusedInv

\* Where an entry is.
LEMMA Places ==
  ASSUME NEW f \in Flows, NEW e \in AllSteps(f)
  PROVE  /\ e.place[1] \in 1..3 /\ e.place[2] \in Nat \ {0} /\ e.place[3] \in Nat
         /\ e.parent # NoOne => e.place[1] = Rank["main"] /\ e.place[3] > 0
         /\ e.parent = NoOne => e.place[3] = 0
         /\ \A ph \in Phases : e.place[1] = Rank[ph] => e.place[2] \in 1..Len(f[ph])
<1>1. ASSUME NEW ph \in Phases, NEW i \in DOMAIN f[ph], e = Top(f, ph, i)
      PROVE  /\ e.place[1] = Rank[ph] /\ e.place[2] = i /\ e.place[3] = 0 /\ e.parent = NoOne
             /\ i \in 1..Len(f[ph]) /\ Len(f[ph]) \in Nat
  BY <1>1, Shapes, EntryFields DEF Top
<1>2. ASSUME NEW i \in DOMAIN f.main, NEW j \in DOMAIN f.main[i].nested, e = Nest(f, i, j)
      PROVE  /\ e.place[1] = Rank["main"] /\ e.place[2] = i /\ e.place[3] = j
             /\ e.parent = f.main[i].id /\ e.parent # NoOne
             /\ i \in 1..Len(f.main) /\ Len(f.main) \in Nat
             /\ j \in 1..Len(f.main[i].nested) /\ Len(f.main[i].nested) \in Nat
  <2>1. /\ e.place[1] = Rank["main"] /\ e.place[2] = i /\ e.place[3] = j
        /\ e.parent = f.main[i].id
    BY <1>2, EntryFields DEF Nest
  <2>2. "main" \in Phases
    BY DEF Phases
  <2>3. f.main[i] \in Blocks /\ i \in 1..Len(f.main) /\ Len(f.main) \in Nat
    BY <2>2, Shapes
  <2> QED
    BY <2>1, <2>3, NestedShapes
<1>3. CASE \E ph \in Phases : \E i \in DOMAIN f[ph] : e = Top(f, ph, i)
  BY <1>1, <1>3, Ranks
<1>4. CASE \E i \in DOMAIN f.main : \E j \in DOMAIN f.main[i].nested : e = Nest(f, i, j)
  <2>1. PICK i \in DOMAIN f.main : \E j \in DOMAIN f.main[i].nested : e = Nest(f, i, j)
    BY <1>4
  <2>2. PICK j \in DOMAIN f.main[i].nested : e = Nest(f, i, j)
    BY <2>1
  <2>3. /\ e.place[1] = Rank["main"] /\ e.place[2] = i /\ e.place[3] = j /\ e.parent # NoOne
        /\ i \in 1..Len(f.main) /\ Len(f.main) \in Nat
        /\ j \in 1..Len(f.main[i].nested) /\ Len(f.main[i].nested) \in Nat
    BY <1>2, <2>2
  <2>4. \A ph \in Phases : e.place[1] = Rank[ph] => ph = "main"
    BY <2>3, Ranks DEF Phases
  <2> QED
    BY <2>3, <2>4, Ranks
<1> QED
  BY <1>3, <1>4, Listed

\* The entry of the step the run is at.
LEMMA CurrentEntry ==
  ASSUME flow \in Flows, phase \in Phases, at \in DOMAIN flow[phase], NEW e \in AllSteps(flow)
  PROVE  /\ e.id = Current.id => e.place[1] = Rank[phase] /\ e.place[2] = at
         /\ e.parent = Current.id => e.place[1] = Rank[phase] /\ e.place[2] = at
         /\ e.parent = NoOne /\ e.place[1] = Rank[phase] /\ e.place[2] = at =>
              e.id = Current.id /\ e.when = Current.when
         /\ at \in Nat \ {0}
<1>1. Current = flow[phase][at] /\ at \in 1..Len(flow[phase]) /\ Len(flow[phase]) \in Nat
      /\ Current \in Blocks
  BY Shapes DEF Current
<1>2. Current.id # NoOne
  BY <1>1, NestedShapes
<1>3. e.id = Current.id => e.place = <<Rank[phase], at, 0>>
  BY <1>1, Nesting
<1>4. e.parent = Current.id => phase = "main" /\ e.place[1] = 2 /\ e.place[2] = at
  BY <1>1, Nesting
<1>5. e.parent = NoOne /\ e.place[1] = Rank[phase] /\ e.place[2] = at => e = Top(flow, phase, at)
  BY <1>1, <1>2, Nesting
<1>6. e = Top(flow, phase, at) => e.id = Current.id /\ e.when = Current.when
  BY <1>1, EntryFields DEF Top
<1> QED
  BY <1>1, <1>3, <1>4, <1>5, <1>6, Ranks

\* The entries of the steps of the block it is in.
LEMMA NestedEntry ==
  ASSUME TypeInv, loop.in, NEW e \in AllSteps(flow)
  PROVE  /\ loop.step > 0 /\ e.id = Nested[loop.step].id =>
              e.parent = flow.main[at].id /\ e.place[3] = loop.step
         /\ e.parent = flow.main[at].id /\ e.place[3] = loop.step =>
              e.id = Nested[loop.step].id /\ e.when = Nested[loop.step].when
         /\ loop.step \in Nat
<1>1. /\ flow \in Flows /\ phase = "main" /\ phase \in Phases /\ at \in DOMAIN flow.main
      /\ Len(Nested) \in Nat /\ loop.step \in 0..Len(Nested)
      /\ loop.step > 0 => loop.step \in DOMAIN Nested
  BY NestedStep DEF TypeInv, PlaceType
<1>2. ASSUME NEW j \in DOMAIN Nested
      PROVE  /\ Nest(flow, at, j) \in AllSteps(flow)
             /\ Nest(flow, at, j).id = Nested[j].id /\ Nest(flow, at, j).when = Nested[j].when
             /\ Nest(flow, at, j).parent = flow.main[at].id /\ Nest(flow, at, j).place[3] = j
  BY <1>1, <1>2, Listed, EntryFields DEF Nest, Nested
<1>3. loop.step > 0 /\ e.id = Nested[loop.step].id => e = Nest(flow, at, loop.step)
  BY <1>1, <1>2, OneEntry
<1>4. e.parent = flow.main[at].id => \E j \in DOMAIN Nested : e = Nest(flow, at, j)
  BY <1>1, Nesting DEF Nested
<1> QED
  BY <1>1, <1>2, <1>3, <1>4

LEMMA OrderAtStart == Init => OrderInv
BY DEF Init, OrderInv, BehindInv, BehindInLoopInv, AheadInv, ReusedInv, Outside

\* The position moves past the current step, and past those of its block.
LEMMA PassedOn ==
  ASSUME flow \in Flows, phase \in Phases, at \in DOMAIN flow[phase], Advance,
         NEW e \in AllSteps(flow)
  PROVE  /\ Passed(e)' => Passed(e) \/ (e.place[1] = Rank[phase] /\ e.place[2] = at)
         /\ Passed(e) => Passed(e)'
         /\ e.place[1] = Rank[phase] /\ e.place[2] = at => Passed(e)'
<1>1. at' = at + 1 /\ phase' = phase /\ at \in Nat
  BY CurrentEntry DEF Advance
<1>2. e.place[2] \in Nat
  BY Places
<1> QED
  BY <1>1, <1>2 DEF Passed

LEMMA MovedStays ==
  ASSUME \A i \in DOMAIN record : i \in DOMAIN record' /\ record'[i] = record[i], NEW e, Moved(e)
  PROVE  Moved(e)'
BY DEF Moved

\* The reused results are of the earlier run, which stays as it is.
LEMMA ReusedStays ==
  ASSUME ReusedInv, plan' = plan, earlier' = earlier, NEW N,
         \A i \in DOMAIN record' : i \in N \/ (i \in DOMAIN record /\ record'[i] = record[i]),
         \A i \in N : record'[i].reused => plan.reuse /\ Earlier(record'[i].id) # {}
  PROVE  ReusedInv'
<1>1. \A id : Earlier(id)' = Earlier(id)
  BY DEF Earlier
<1>2. \A i \in DOMAIN record' : record'[i].reused => plan.reuse /\ Earlier(record'[i].id) # {}
  BY DEF ReusedInv
<1> QED
  BY <1>1, <1>2 DEF ReusedInv

LEMMA OrderAfterPassing ==
  ASSUME TypeInv, OrderInv, NEW x \in Results, Passing(x)
  PROVE  OrderInv'
<1>1. /\ flow \in Flows /\ phase \in Phases /\ at \in DOMAIN flow[phase] /\ Advance
      /\ flow' = flow /\ phase' = phase /\ phase # "idle" /\ plan' = plan /\ earlier' = earlier
      /\ ~loop'.in /\ x.id = Current.id
  BY DEF Passing, Advance, Phases, TypeInv, PlaceType
<1>2. /\ DOMAIN record = 1..Len(record) /\ DOMAIN record' = 1..(Len(record) + 1)
      /\ Len(record) \in Nat /\ record'[Len(record) + 1] = x
      /\ \A i \in DOMAIN record : record'[i] = record[i]
  BY Added DEF Passing, TypeInv, ValueType
<1>3. DOMAIN steps \subseteq DOMAIN steps' /\ DOMAIN steps' \subseteq DOMAIN steps \cup {x.id}
  <2>1. Remember(x.id, x.val) \/ steps' = steps
    BY DEF Passing, Valued, Unvalued, WithoutData
  <2> QED
    BY <2>1, Remembered
<1>4. left \subseteq left' /\ (x.id \in DOMAIN steps' \cup left' \/ Current.when)
  <2>1. CASE Valued(x)
    BY <2>1, Remembered DEF Valued
  <2>2. CASE Unvalued(x)
    BY <2>2 DEF Unvalued
  <2>3. CASE WithoutData(x)
    BY <1>1, <2>3 DEF WithoutData
  <2> QED
    BY <2>1, <2>2, <2>3 DEF Passing
<1>5. BehindInv'
  <2> SUFFICES ASSUME NEW e \in AllSteps(flow), e.parent = NoOne, Passed(e)', ~e.when
               PROVE  e.id \in DOMAIN steps' \cup left'
    BY <1>1 DEF BehindInv
  <2>1. CASE Passed(e)
    BY <1>1, <1>3, <1>4, <2>1 DEF OrderInv, BehindInv
  <2>2. CASE e.place[1] = Rank[phase] /\ e.place[2] = at
    <3>1. e.id = Current.id /\ e.when = Current.when
      BY <1>1, <2>2, CurrentEntry
    <3> QED
      BY <1>1, <1>4, <3>1
  <2> QED
    BY <1>1, <2>1, <2>2, PassedOn
<1>6. BehindInLoopInv'
  BY <1>1 DEF BehindInLoopInv
<1>7. AheadInv'
  <2> SUFFICES ASSUME NEW e \in AllSteps(flow), e.id \in DOMAIN steps'
               PROVE  Passed(e)' \/ Moved(e)'
    BY <1>1 DEF AheadInv
  <2>1. CASE e.id = x.id
    BY <1>1, <2>1, CurrentEntry, PassedOn
  <2>2. CASE e.id # x.id
    <3>1. Passed(e) \/ InLoop(e) \/ Moved(e)
      BY <1>1, <1>3, <2>2 DEF OrderInv, AheadInv
    <3>2. ASSUME InLoop(e) PROVE e.place[1] = Rank[phase] /\ e.place[2] = at
      <4>1. e.parent = Current.id
        BY <3>2, NestedStep DEF InLoop
      <4> QED
        BY <1>1, <4>1, CurrentEntry
    <3>3. ASSUME Moved(e) PROVE Moved(e)'
      BY <1>2, <3>3, MovedStays
    <3> QED
      BY <1>1, <3>1, <3>2, <3>3, PassedOn
  <2> QED
    BY <2>1, <2>2
<1>8. ReusedInv'
  <2>1. x.reused => plan.reuse /\ Earlier(x.id) # {}
    BY DEF Passing
  <2>2. \A i \in {Len(record) + 1} : record'[i].reused => plan.reuse /\ Earlier(record'[i].id) # {}
    BY <1>2, <2>1
  <2>3. \A i \in DOMAIN record' :
          i \in {Len(record) + 1} \/ (i \in DOMAIN record /\ record'[i] = record[i])
    BY <1>2
  <2> QED
    BY <1>1, <2>2, <2>3, ReusedStays DEF OrderInv
<1> QED
  BY <1>5, <1>6, <1>7, <1>8 DEF OrderInv

LEMMA OrderAfterBlockReuse ==
  ASSUME TypeInv, OrderInv, ReuseBlock
  PROVE  OrderInv'
<1> DEFINE id == Current.id
           nested == EarlierNested(id)
           ids == {nested[i].id : i \in DOMAIN nested}
<1>1. /\ flow \in Flows /\ phase = "main" /\ phase \in Phases /\ at \in DOMAIN flow[phase]
      /\ Advance /\ Quietly /\ id \in AllIds
      /\ flow' = flow /\ phase' = phase /\ phase # "idle" /\ plan' = plan /\ earlier' = earlier
      /\ ~loop.in /\ ~loop'.in /\ left' = left /\ plan.reuse /\ Earlier(id) # {}
  BY BlockReuse DEF Advance, Quietly, Phases, TypeInv, PlaceType
<1>2. /\ Len(nested) \in Nat /\ DOMAIN nested = 1..Len(nested)
      /\ record' \in Seq(Results) /\ Len(record') = Len(record) + 1 + Len(nested)
      /\ \A i \in DOMAIN record : record'[i] = record[i]
      /\ record'[Len(record) + 1] = Reused(LatestOf(id))
      /\ \A i \in DOMAIN nested : record'[Len(record) + 1 + i] = Reused(nested[i])
      /\ DOMAIN steps' = DOMAIN steps \cup ids \cup {id}
  BY BlockReuse
<1>3. \A i \in DOMAIN nested :
        Reused(nested[i]).id = nested[i].id /\ Reused(nested[i]).parent = id
        /\ Reused(nested[i]).reused /\ Earlier(nested[i].id) # {}
  BY <1>1, NestedFound
<1>4. Reused(LatestOf(id)).id = id
  BY <1>1, LatestFound
<1> HIDE DEF id, nested
<1>5. /\ Len(record) \in Nat /\ DOMAIN record = 1..Len(record)
      /\ DOMAIN record' = 1..(Len(record) + 1 + Len(nested))
  BY <1>2 DEF TypeInv, ValueType
<1>6. BehindInv'
  <2> SUFFICES ASSUME NEW e \in AllSteps(flow), e.parent = NoOne, Passed(e)', ~e.when
               PROVE  e.id \in DOMAIN steps' \cup left'
    BY <1>1 DEF BehindInv
  <2>1. CASE Passed(e)
    BY <1>1, <1>2, <2>1 DEF OrderInv, BehindInv
  <2>2. CASE e.place[1] = Rank[phase] /\ e.place[2] = at
    BY <1>1, <1>2, <2>2, CurrentEntry DEF id
  <2> QED
    BY <1>1, <2>1, <2>2, PassedOn
<1>7. BehindInLoopInv'
  BY <1>1 DEF BehindInLoopInv
<1>8. AheadInv'
  <2> SUFFICES ASSUME NEW e \in AllSteps(flow), e.id \in DOMAIN steps'
               PROVE  Passed(e)' \/ Moved(e)'
    BY <1>1 DEF AheadInv
  <2>1. CASE e.id = id
    BY <1>1, <2>1, CurrentEntry, PassedOn DEF id
  <2>2. CASE e.parent = id
    BY <1>1, <2>2, CurrentEntry, PassedOn DEF id
  <2>3. CASE e.id \in ids /\ e.parent # id
    <3>1. PICK i \in DOMAIN nested : nested[i].id = e.id
      BY <2>3
    <3> DEFINE k == Len(record) + 1 + i
    <3>2. k \in DOMAIN record' /\ record'[k] = Reused(nested[i])
      BY <1>2, <1>5
    <3>3. record'[k].id = e.id /\ record'[k].reused /\ record'[k].parent # e.parent
      BY <1>3, <2>3, <3>1, <3>2
    <3> HIDE DEF k
    <3> QED
      BY <3>2, <3>3 DEF Moved
  <2>4. CASE e.id \in DOMAIN steps
    <3>1. Passed(e) \/ Moved(e)
      BY <1>1, <2>4 DEF OrderInv, AheadInv, InLoop
    <3>2. ASSUME Moved(e) PROVE Moved(e)'
      BY <1>2, <1>5, <3>2, MovedStays
    <3> QED
      BY <1>1, <3>1, <3>2, PassedOn
  <2> QED
    BY <1>2, <2>1, <2>2, <2>3, <2>4
<1>9. ReusedInv'
  <2> DEFINE N == (Len(record) + 1)..(Len(record) + 1 + Len(nested))
  <2>1. \A i \in DOMAIN record' : i \in N \/ (i \in DOMAIN record /\ record'[i] = record[i])
    BY <1>2, <1>5
  <2>2. ASSUME NEW i \in N PROVE plan.reuse /\ Earlier(record'[i].id) # {}
    <3>1. CASE i = Len(record) + 1
      BY <1>1, <1>2, <1>4, <3>1
    <3>2. CASE i # Len(record) + 1
      <4>1. i - (Len(record) + 1) \in DOMAIN nested
            /\ i = Len(record) + 1 + (i - (Len(record) + 1))
        BY <1>2, <1>5, <2>2, <3>2
      <4>2. record'[i] = Reused(nested[i - (Len(record) + 1)])
        BY <1>2, <4>1
      <4> QED
        BY <1>1, <1>3, <4>1, <4>2
    <3> QED
      BY <3>1, <3>2
  <2> HIDE DEF N
  <2> QED
    BY <1>1, <2>1, <2>2, ReusedStays DEF OrderInv
<1> QED
  BY <1>6, <1>7, <1>8, <1>9 DEF OrderInv

LEMMA OrderAfterLooping ==
  ASSUME TypeInv, OrderInv, NEW x \in Results, Looping(x)
  PROVE  OrderInv'
<1>1. /\ flow \in Flows /\ phase = "main" /\ loop.in /\ loop'.in /\ loop.step > 0
      /\ x.id = Nested[loop.step].id /\ ~x.reused
      /\ loop'.step <= loop.step + 1 /\ loop'.step \in Nat
      /\ UNCHANGED <<flow, phase, at, plan, left, earlier>>
  BY NestedStep DEF Looping, TypeInv, PlaceType
<1>2. /\ DOMAIN record = 1..Len(record) /\ DOMAIN record' = 1..(Len(record) + 1)
      /\ Len(record) \in Nat /\ record'[Len(record) + 1] = x
      /\ \A i \in DOMAIN record : record'[i] = record[i]
  BY Added DEF Looping, TypeInv, ValueType
<1>3. /\ DOMAIN steps \subseteq DOMAIN steps' /\ DOMAIN steps' \subseteq DOMAIN steps \cup {x.id}
      /\ x.id \in DOMAIN steps' \/ Nested[loop.step].when
  <2>1. CASE Remember(x.id, x.val)
    BY <2>1, Remembered
  <2>2. CASE Nested[loop.step].when /\ steps' = steps
    BY <2>2
  <2> QED
    BY <2>1, <2>2 DEF Looping
<1>4. BehindInv'
  <2> SUFFICES ASSUME NEW e \in AllSteps(flow), e.parent = NoOne, Passed(e)', ~e.when
               PROVE  e.id \in DOMAIN steps' \cup left'
    BY <1>1 DEF BehindInv
  <2>1. Passed(e)
    BY <1>1 DEF Passed
  <2> QED
    BY <1>1, <1>3, <2>1 DEF OrderInv, BehindInv
<1>5. BehindInLoopInv'
  <2> SUFFICES ASSUME NEW e \in AllSteps(flow), e.parent = flow.main[at].id,
                      e.place[3] < loop'.step, ~e.when
               PROVE  e.id \in DOMAIN steps'
    BY <1>1 DEF BehindInLoopInv
  <2>1. e.place[3] \in Nat
    BY <1>1, Places
  <2>2. CASE e.place[3] < loop.step
    BY <1>1, <1>3, <2>2 DEF OrderInv, BehindInLoopInv
  <2>3. CASE e.place[3] = loop.step
    BY <1>1, <1>3, <2>3, NestedEntry
  <2>4. loop.step \in Nat
    BY <1>1, NestedEntry
  <2> QED
    BY <1>1, <2>1, <2>2, <2>3, <2>4
<1>6. AheadInv'
  <2> SUFFICES ASSUME NEW e \in AllSteps(flow), e.id \in DOMAIN steps'
               PROVE  Passed(e)' \/ InLoop(e)' \/ Moved(e)'
    BY <1>1 DEF AheadInv
  <2>1. Passed(e) => Passed(e)'
    BY <1>1 DEF Passed
  <2>2. InLoop(e) => InLoop(e)'
    BY <1>1 DEF InLoop
  <2>3. ASSUME Moved(e) PROVE Moved(e)'
    BY <1>2, <2>3, MovedStays
  <2>4. CASE e.id = x.id
    <3>1. e.parent = flow.main[at].id
      BY <1>1, <2>4, NestedEntry
    <3> QED
      BY <1>1, <3>1 DEF InLoop
  <2>5. CASE e.id # x.id
    BY <1>1, <1>3, <2>1, <2>2, <2>3, <2>5 DEF OrderInv, AheadInv
  <2> QED
    BY <2>4, <2>5
<1>7. ReusedInv'
  <2>1. \A i \in {Len(record) + 1} : record'[i].reused => plan.reuse /\ Earlier(record'[i].id) # {}
    BY <1>1, <1>2
  <2>2. \A i \in DOMAIN record' :
          i \in {Len(record) + 1} \/ (i \in DOMAIN record /\ record'[i] = record[i])
    BY <1>2
  <2> QED
    BY <1>1, <2>1, <2>2, ReusedStays DEF OrderInv
<1> QED
  BY <1>4, <1>5, <1>6, <1>7 DEF OrderInv

LEMMA OrderAfterTurning ==
  ASSUME TypeInv, OrderInv, Turning
  PROVE  OrderInv'
<1>1. /\ flow \in Flows /\ phase = "main" /\ loop'.in /\ loop'.step <= 1 /\ loop'.step \in Nat
      /\ UNCHANGED <<flow, phase, at, plan, steps, record, left, earlier>>
      /\ at \in DOMAIN flow.main /\ flow.main[at] \in Blocks
  BY Shapes DEF Turning, TypeInv, PlaceType, LoopStates, Phases
<1>2. BehindInv'
  <2> SUFFICES ASSUME NEW e \in AllSteps(flow), e.parent = NoOne, Passed(e)', ~e.when
               PROVE  e.id \in DOMAIN steps \cup left
    BY <1>1 DEF BehindInv
  <2>1. Passed(e)
    BY <1>1 DEF Passed
  <2> QED
    BY <1>1, <2>1 DEF OrderInv, BehindInv
<1>3. BehindInLoopInv'
  <2> SUFFICES ASSUME NEW e \in AllSteps(flow), e.parent = flow.main[at].id,
                      e.place[3] < loop'.step
               PROVE  FALSE
    BY <1>1 DEF BehindInLoopInv
  <2>1. e.place[3] > 0 /\ e.place[3] \in Nat
    BY <1>1, Places, NestedShapes
  <2> QED
    BY <1>1, <2>1
<1>4. AheadInv'
  <2> SUFFICES ASSUME NEW e \in AllSteps(flow), e.id \in DOMAIN steps
               PROVE  Passed(e)' \/ InLoop(e)' \/ Moved(e)'
    BY <1>1 DEF AheadInv
  <2>1. Passed(e) => Passed(e)'
    BY <1>1 DEF Passed
  <2>2. InLoop(e) => InLoop(e)'
    BY <1>1 DEF InLoop
  <2>3. Moved(e) => Moved(e)'
    BY <1>1 DEF Moved
  <2> QED
    BY <1>1, <2>1, <2>2, <2>3 DEF OrderInv, AheadInv
<1>5. ReusedInv'
  BY <1>1 DEF OrderInv, ReusedInv, Earlier
<1> QED
  BY <1>2, <1>3, <1>4, <1>5 DEF OrderInv

LEMMA OrderAfterPhase ==
  ASSUME TypeInv, OrderInv, NextPhase
  PROVE  OrderInv'
<1>1. /\ flow \in Flows /\ phase \in {"setup", "main"} /\ phase \in Phases /\ phase' \in Phases
      /\ Rank[phase'] = Rank[phase] + 1 /\ at' = 1 /\ ~loop.in /\ at > Len(flow[phase])
      /\ UNCHANGED <<flow, loop, plan, steps, record, left, earlier>>
      /\ Rank[phase] \in 1..3 /\ Len(flow[phase]) \in Nat /\ at \in Nat
  BY Ranks, Shapes DEF NextPhase, InMain, TypeInv, PlaceType, Phases
<1>2. ASSUME NEW e \in AllSteps(flow)
      PROVE  Passed(e)' <=> Passed(e)
  <2>1. /\ e.place[1] \in 1..3 /\ e.place[2] \in Nat \ {0}
        /\ e.place[1] = Rank[phase] => e.place[2] \in 1..Len(flow[phase])
    BY <1>1, Places
  <2>2. Passed(e)' <=> e.place[1] <= Rank[phase]
    BY <1>1, <2>1 DEF Passed
  <2>3. Passed(e) <=> e.place[1] <= Rank[phase]
    BY <1>1, <2>1 DEF Passed
  <2> QED
    BY <2>2, <2>3
<1>3. phase # "idle" /\ phase' # "idle"
  BY <1>1 DEF Phases
<1>4. BehindInv'
  BY <1>1, <1>2, <1>3 DEF OrderInv, BehindInv
<1>5. BehindInLoopInv'
  BY <1>1 DEF BehindInLoopInv
<1>6. AheadInv'
  <2> SUFFICES ASSUME NEW e \in AllSteps(flow), e.id \in DOMAIN steps
               PROVE  Passed(e)' \/ Moved(e)'
    BY <1>1 DEF AheadInv
  <2>1. Passed(e) \/ Moved(e)
    BY <1>1, <1>3 DEF OrderInv, AheadInv, InLoop
  <2>2. Moved(e) => Moved(e)'
    BY <1>1 DEF Moved
  <2> QED
    BY <1>2, <2>1, <2>2
<1>7. ReusedInv'
  BY <1>1 DEF OrderInv, ReusedInv, Earlier
<1> QED
  BY <1>4, <1>5, <1>6, <1>7 DEF OrderInv

LEMMA OrderAfterBeginning ==
  ASSUME TypeInv, OrderInv, Beginning
  PROVE  OrderInv'
<1>1. /\ flow \in Flows /\ phase' = "setup" /\ at' = 1 /\ ~loop.in /\ loop' = loop
      /\ steps' = <<>> /\ record' = <<>> /\ flow' = flow
  BY DEF Beginning, TypeInv, PlaceType, LoopType, ValueType
<1>2. ASSUME NEW e \in AllSteps(flow) PROVE ~Passed(e)'
  <2>1. e.place[1] \in 1..3 /\ e.place[2] \in Nat \ {0}
    BY <1>1, Places
  <2>2. Rank["setup"] = 1
    BY Ranks
  <2> QED
    BY <1>1, <2>1, <2>2 DEF Passed
<1>3. BehindInv'
  BY <1>1, <1>2 DEF BehindInv
<1>4. BehindInLoopInv' /\ AheadInv' /\ ReusedInv'
  BY <1>1 DEF BehindInLoopInv, AheadInv, ReusedInv
<1> QED
  BY <1>3, <1>4 DEF OrderInv

LEMMA OrderStep ==
  ASSUME TypeInv, OrderInv, [Next]_vars
  PROVE  OrderInv'
<1>1. CASE Ends
  <2>1. phase' = "idle" /\ loop' = Outside /\ record' = <<>>
    BY <1>1 DEF Ends
  <2> QED
    BY <2>1 DEF OrderInv, BehindInv, BehindInLoopInv, AheadInv, ReusedInv, Outside
<1>2. CASE Edit
  <2>1. phase = "idle" /\ phase' = "idle" /\ ~loop'.in /\ record = <<>> /\ record' = <<>>
    BY <1>2 DEF Edit, runVars, TypeInv, LoopType, ValueType
  <2> QED
    BY <2>1 DEF OrderInv, BehindInv, BehindInLoopInv, AheadInv, ReusedInv
<1>3. CASE UNCHANGED <<flow, phase, at, loop, plan, steps, record, left, earlier>>
  BY <1>3 DEF OrderInv, BehindInv, BehindInLoopInv, AheadInv, ReusedInv, Passed, InLoop, Moved,
              Earlier
<1>4. CASE Cancel \/ UNCHANGED vars
  BY <1>3, <1>4 DEF Cancel, vars, runVars
<1> QED
  BY <1>1, <1>2, <1>4, StepForms, OrderAfterBeginning, OrderAfterTurning, OrderAfterBlockReuse,
     OrderAfterPhase, OrderAfterPassing, OrderAfterLooping
     DEF Return, Crash

(***************************************************************************)
(* The value of a step is that of its latest result                        *)
(***************************************************************************)
\* The i-th result is the latest that gives id a value, which is val.
LatestAt(rec, id, val, i) ==
  /\ i \in DOMAIN rec /\ rec[i].id = id /\ Gives(rec[i]) /\ val = rec[i].val
  /\ \A j \in DOMAIN rec : j > i /\ rec[j].id = id => ~Gives(rec[j])

LEMMA LatestRestated ==
  /\ ReadsLatestResult <=> \A id \in DOMAIN steps : \E i : LatestAt(record, id, steps[id], i)
  /\ ReadsLatestResult' <=>
       \A id \in DOMAIN steps' : \E i : LatestAt(record', id, steps'[id], i)
BY DEF ReadsLatestResult, LatestAt

LEMMA LatestAfterResult ==
  ASSUME ReadsLatestResult, record \in Seq(Results), NEW x \in Results, Put(x),
         \/ Gives(x) /\ Remember(x.id, x.val)
         \/ steps' = steps /\ (~Gives(x) \/ x.id \notin DOMAIN steps)
  PROVE  ReadsLatestResult'
<1>1. /\ DOMAIN record = 1..Len(record) /\ DOMAIN record' = 1..(Len(record) + 1)
      /\ Len(record) \in Nat /\ record'[Len(record) + 1] = x
      /\ \A i \in DOMAIN record : record'[i] = record[i]
  BY Added
<1>2. ASSUME NEW id, NEW val, NEW i, LatestAt(record, id, val, i), id # x.id \/ ~Gives(x)
      PROVE  LatestAt(record', id, val, i)
  BY <1>1, <1>2 DEF LatestAt
<1>3. CASE Gives(x) /\ Remember(x.id, x.val)
  <2>1. /\ DOMAIN steps' = DOMAIN steps \cup {x.id} /\ steps'[x.id] = x.val
        /\ \A y \in DOMAIN steps : y # x.id => steps'[y] = steps[y]
    BY <1>3, Remembered
  <2>2. LatestAt(record', x.id, x.val, Len(record) + 1)
    BY <1>1, <1>3 DEF LatestAt
  <2> QED
    BY <1>2, <2>1, <2>2, LatestRestated
<1>4. CASE steps' = steps /\ (~Gives(x) \/ x.id \notin DOMAIN steps)
  BY <1>2, <1>4, LatestRestated
<1> QED
  BY <1>3, <1>4

LEMMA LatestAfterBlockReuse ==
  ASSUME TypeInv, ReadsLatestResult, ReuseBlock
  PROVE  ReadsLatestResult'
<1> DEFINE id == Current.id
           nested == EarlierNested(id)
           ids == {nested[i].id : i \in DOMAIN nested}
           L == Len(record) + 1
<1>1. /\ id \in AllIds /\ Earlier(id) # {}
      /\ Len(nested) \in Nat /\ DOMAIN nested = 1..Len(nested)
      /\ record' \in Seq(Results) /\ Len(record') = L + Len(nested)
      /\ \A i \in DOMAIN record : record'[i] = record[i]
      /\ record'[L] = Reused(LatestOf(id))
      /\ \A i \in DOMAIN nested : record'[L + i] = Reused(nested[i])
      /\ DOMAIN steps' = DOMAIN steps \cup ids \cup {id}
      /\ steps'[id] = LatestOf(id).val
      /\ \A y \in ids : y # id /\ steps'[y] = Restored(nested, y)
      /\ \A y \in DOMAIN steps : y \notin ids /\ y # id => steps'[y] = steps[y]
  BY BlockReuse
<1>2. nested \in Seq(Results)
  BY <1>1, NestedFound
<1>3. \A i \in DOMAIN nested :
        /\ Reused(nested[i]).id = nested[i].id /\ Reused(nested[i]).val = nested[i].val
        /\ Gives(Reused(nested[i]))
  BY <1>1, NestedFound DEF Gives
<1>4. /\ Reused(LatestOf(id)).id = id /\ Reused(LatestOf(id)).val = LatestOf(id).val
      /\ Gives(Reused(LatestOf(id)))
  BY <1>1, LatestFound DEF Gives
<1>5. /\ Len(record) \in Nat /\ L \in Nat /\ L >= 1
      /\ DOMAIN record = 1..(L - 1) /\ DOMAIN record' = 1..(L + Len(nested))
  BY <1>1 DEF TypeInv, ValueType
<1>6. \A y \in ids : \E i \in DOMAIN nested :
         /\ nested[i].id = y /\ Restored(nested, y) = nested[i].val
         /\ \A j \in DOMAIN nested : nested[j].id = y => j <= i
  <2> TAKE y \in ids
  <2>1. \E i \in DOMAIN nested : nested[i].id = y
    OBVIOUS
  <2> HIDE DEF nested
  <2> QED
    BY <1>2, <2>1, RestoredIsLast
<1>7. \A i \in DOMAIN nested : nested[i].id \in ids
  OBVIOUS
<1> HIDE DEF id, nested, ids, L
<1>8. ASSUME NEW j \in DOMAIN record', j > L
      PROVE  /\ j - L \in DOMAIN nested /\ record'[j].id = nested[j - L].id
             /\ record'[j].id \in ids
  <2>1. j - L \in DOMAIN nested /\ L + (j - L) = j
    BY <1>1, <1>5, <1>8
  <2>2. record'[j] = Reused(nested[j - L])
    BY <1>1, <2>1
  <2> QED
    BY <1>3, <1>7, <2>1, <2>2
<1>9. LatestAt(record', id, steps'[id], L)
  <2>1. \A j \in DOMAIN record' : j > L => record'[j].id # id
    BY <1>1, <1>8
  <2>2. L \in DOMAIN record'
    BY <1>1, <1>5
  <2> QED
    BY <1>1, <1>4, <2>1, <2>2 DEF LatestAt
<1>10. ASSUME NEW y \in ids PROVE \E i : LatestAt(record', y, steps'[y], i)
  <2>1. PICK k \in DOMAIN nested :
          /\ nested[k].id = y /\ Restored(nested, y) = nested[k].val
          /\ \A j \in DOMAIN nested : nested[j].id = y => j <= k
    BY <1>6
  <2>2. record'[L + k] = Reused(nested[k]) /\ L + k \in DOMAIN record'
    BY <1>1, <1>5
  <2>3. ASSUME NEW j \in DOMAIN record', j > L + k PROVE record'[j].id # y
    <3>1. j > L /\ j - L > k
      BY <1>1, <1>5, <2>3
    <3>2. j - L \in DOMAIN nested /\ record'[j].id = nested[j - L].id
      BY <1>8, <3>1
    <3>3. ~(j - L <= k)
      BY <1>1, <1>5, <3>1
    <3> QED
      BY <2>1, <3>2, <3>3
  <2>4. LatestAt(record', y, steps'[y], L + k)
    BY <1>1, <1>3, <2>1, <2>2, <2>3 DEF LatestAt
  <2> QED
    BY <2>4
<1>11. ASSUME NEW y \in DOMAIN steps, y \notin ids, y # id
       PROVE  \E i : LatestAt(record', y, steps'[y], i)
  <2>1. PICK i : LatestAt(record, y, steps[y], i)
    BY LatestRestated
  <2>2. i \in DOMAIN record' /\ record'[i] = record[i]
    BY <1>1, <1>5, <2>1 DEF LatestAt
  <2>3. ASSUME NEW j \in DOMAIN record', j > i, record'[j].id = y PROVE ~Gives(record'[j])
    <3>1. ~(j > L)
      BY <1>8, <1>11, <2>3
    <3>2. j # L
      BY <1>1, <1>4, <1>11, <2>3
    <3>3. j \in DOMAIN record
      BY <1>5, <3>1, <3>2
    <3> QED
      BY <1>1, <2>1, <2>3, <3>3 DEF LatestAt
  <2>4. LatestAt(record', y, steps'[y], i)
    BY <1>1, <1>11, <2>1, <2>2, <2>3 DEF LatestAt
  <2> QED
    BY <2>4
<1> QED
  BY <1>1, <1>9, <1>10, <1>11, LatestRestated

\* A step that is left out had no value: nothing the run could reuse named it.
LEMMA LeftOutHasNoValue ==
  ASSUME TypeInv, OrderInv, NEW x \in Results, Passing(x), WithoutData(x)
  PROVE  x.id \notin DOMAIN steps
<1>1. /\ flow \in Flows /\ phase \in Phases /\ at \in DOMAIN flow[phase] /\ phase # "idle"
      /\ x.id = Current.id /\ ~loop.in /\ (plan.reuse => Earlier(x.id) = {})
  BY DEF Passing, WithoutData, TypeInv, PlaceType, Phases
<1> DEFINE e == Top(flow, phase, at)
<1>2. e \in AllSteps(flow) /\ e.id = x.id
  BY <1>1, Listed, EntryFields DEF Top, Current
<1> HIDE DEF e
<1>3. e.place[1] = Rank[phase] /\ e.place[2] = at /\ at \in Nat
  BY <1>1, <1>2, CurrentEntry
<1>4. ~Passed(e) /\ ~InLoop(e)
  BY <1>1, <1>3, Ranks DEF Passed, InLoop
<1>5. ~Moved(e)
  BY <1>1, <1>2 DEF OrderInv, ReusedInv, Moved
<1> QED
  BY <1>1, <1>2, <1>4, <1>5 DEF OrderInv, AheadInv

LEMMA LatestStep ==
  ASSUME TypeInv, OrderInv, ReadsLatestResult, [Next]_vars
  PROVE  ReadsLatestResult'
<1>1. ASSUME NEW x \in Results, Passing(x) PROVE ReadsLatestResult'
  <2>1. Put(x) /\ record \in Seq(Results)
    BY <1>1 DEF Passing, TypeInv, ValueType
  <2>2. \/ Gives(x) /\ Remember(x.id, x.val)
        \/ steps' = steps /\ (~Gives(x) \/ x.id \notin DOMAIN steps)
    BY <1>1, LeftOutHasNoValue DEF Passing, Valued, Unvalued, WithoutData
  <2> QED
    BY <2>1, <2>2, LatestAfterResult
<1>2. ASSUME NEW x \in Results, Looping(x) PROVE ReadsLatestResult'
  <2>1. Put(x) /\ record \in Seq(Results)
    BY <1>2 DEF Looping, TypeInv, ValueType
  <2>2. \/ Gives(x) /\ Remember(x.id, x.val)
        \/ steps' = steps /\ ~Gives(x)
    BY <1>2 DEF Looping
  <2> QED
    BY <2>1, <2>2, LatestAfterResult
<1>3. CASE Ends
  BY <1>3 DEF Ends, ReadsLatestResult
<1>4. CASE UNCHANGED <<steps, record>>
  BY <1>4, LatestRestated
<1>5. Beginning \/ Turning \/ NextPhase \/ Cancel \/ Edit \/ UNCHANGED vars
        => UNCHANGED <<steps, record>>
  BY DEF Beginning, Turning, NextPhase, Cancel, Edit, vars, runVars
<1> QED
  BY <1>1, <1>2, <1>3, <1>4, <1>5, StepForms, LatestAfterBlockReuse DEF Return, Crash

\* What an expression reads of a step is the value of its latest result.
THEOREM ValuesAreOfLatestResult == Spec => []ReadsLatestResult
<1> DEFINE Inv == TypeInv /\ OrderInv /\ ReadsLatestResult
<1>1. Init => Inv
  <2>1. Init => ReadsLatestResult
    BY DEF Init, ReadsLatestResult
  <2> QED
    BY <2>1, TypeAtStart, OrderAtStart
<1>2. Inv /\ [Next]_vars => Inv'
  BY TypeStep, OrderStep, LatestStep
<1>3. Inv => ReadsLatestResult
  OBVIOUS
<1> QED
  BY <1>1, <1>2, <1>3, PTL DEF Spec

(***************************************************************************)
(* What the references of the current step find                            *)
(***************************************************************************)
\* Where the reader of a reference is when the run evaluates it.
LEMMA Readers ==
  ASSUME TypeInv, NEW r \in Evaluated
  PROVE  LET reader == StepNamed(AllSteps(flow), r.reader)
             target == StepNamed(AllSteps(flow), r.target)
         IN  /\ Verdicts[flow][r] = Verdict(flow, r)
             /\ r.target \in IdsOf(flow)
             /\ flow \in Flows /\ phase \in Phases /\ phase # "idle" /\ at \in DOMAIN flow[phase]
             /\ reader \in AllSteps(flow) /\ target \in AllSteps(flow) /\ target.id = r.target
             /\ reader.place[1] = Rank[phase] /\ reader.place[2] = at
             /\ loop.in => phase = "main" /\ flow.main[at].id # NoOne
                           /\ BlockContext(reader, r) = flow.main[at].id
             /\ \/ loop.in /\ loop.step = 0 /\ reader.place[3] = 0
                \/ Inside /\ reader.place[3] = loop.step
                \/ ~loop.in /\ reader.place[3] = 0 /\ BlockContext(reader, r) = NoOne
<1> DEFINE reader == StepNamed(AllSteps(flow), r.reader)
           target == StepNamed(AllSteps(flow), r.target)
<1>1. flow \in Flows
  BY DEF TypeInv, PlaceType
<1>2. r \in References(flow) /\ Verdicts[flow][r] = Verdict(flow, r)
  <2>1. DOMAIN Verdicts[flow] = References(flow)
    BY <1>1 DEF Verdicts
  <2>2. r \in DOMAIN Verdicts[flow]
    BY DEF Evaluated
  <2> QED
    BY <1>1, <2>1, <2>2 DEF Verdicts
<1>3. r.reader \in IdsOf(flow) /\ r.target \in IdsOf(flow)
  BY <1>2 DEF References
<1>4. /\ reader \in AllSteps(flow) /\ reader.id = r.reader
      /\ target \in AllSteps(flow) /\ target.id = r.target
  BY <1>1, <1>3, OneEntry
<1>5. \/ Between /\ r.reader = flow.main[at].id /\ r.field = "iteration"
      \/ Inside /\ r.reader = Nested[loop.step].id /\ r.field = "own"
      \/ Executes /\ r.reader = Current.id /\ r.field = "own"
  BY DEF Evaluated
<1> HIDE DEF reader, target
<1>6. ASSUME phase \in Phases, at \in DOMAIN flow[phase], reader.id = Current.id
      PROVE  /\ reader.place[1] = Rank[phase] /\ reader.place[2] = at /\ reader.place[3] = 0
             /\ reader.parent = NoOne
  <2>1. reader.place = <<Rank[phase], at, 0>> /\ reader.parent = NoOne
    BY <1>1, <1>4, <1>6, Nesting DEF Current
  <2> QED
    BY <2>1
<1>7. ASSUME loop.in
      PROVE  /\ phase = "main" /\ phase \in Phases /\ phase # "idle"
             /\ at \in DOMAIN flow[phase] /\ Current = flow.main[at]
             /\ flow.main[at].id # NoOne
  BY <1>7, NestedStep, NestedShapes
<1>8. CASE Between /\ r.reader = flow.main[at].id /\ r.field = "iteration"
  <2>1. loop.in /\ loop.step = 0 /\ BlockContext(reader, r) = flow.main[at].id
    BY <1>4, <1>8 DEF Between, BlockContext
  <2> QED
    BY <1>1, <1>2, <1>3, <1>4, <1>6, <1>7, <1>8, <2>1 DEF reader, target
<1>9. CASE Inside /\ r.reader = Nested[loop.step].id /\ r.field = "own"
  <2>1. loop.in /\ loop.step > 0
    BY <1>9 DEF Inside
  <2>2. reader.parent = flow.main[at].id /\ reader.place[3] = loop.step
    BY <1>4, <1>9, <2>1, NestedEntry
  <2>3. BlockContext(reader, r) = flow.main[at].id
    BY <1>9, <2>2 DEF BlockContext
  <2>4. reader.place[1] = Rank[phase] /\ reader.place[2] = at
    BY <1>1, <1>4, <1>7, <2>1, <2>2, CurrentEntry
  <2> QED
    BY <1>1, <1>2, <1>3, <1>4, <1>7, <1>9, <2>1, <2>2, <2>3, <2>4 DEF reader, target
<1>10. CASE Executes /\ r.reader = Current.id /\ r.field = "own"
  <2>1. phase \in Phases /\ phase # "idle" /\ at \in DOMAIN flow[phase] /\ ~loop.in
    BY <1>10, CurrentStep DEF Executes, Due
  <2>2. BlockContext(reader, r) = NoOne
    BY <1>4, <1>6, <1>10, <2>1 DEF BlockContext
  <2> QED
    BY <1>1, <1>2, <1>3, <1>4, <1>6, <1>10, <2>1, <2>2 DEF reader, target
<1> QED
  BY <1>5, <1>8, <1>9, <1>10

LEMMA CleanReads ==
  ASSUME TypeInv, OrderInv
  PROVE  CleanReadsFind
<1> SUFFICES ASSUME NEW r \in Evaluated, Verdicts[flow][r] = "none", ~OwnBlock(r)
             PROVE  r.target \in DOMAIN steps \cup left
  BY DEF CleanReadsFind
<1> DEFINE reader == StepNamed(AllSteps(flow), r.reader)
           target == StepNamed(AllSteps(flow), r.target)
<1>1. /\ Verdicts[flow][r] = Verdict(flow, r) /\ r.target \in IdsOf(flow)
      /\ flow \in Flows /\ phase \in Phases /\ phase # "idle" /\ at \in DOMAIN flow[phase]
      /\ reader \in AllSteps(flow) /\ target \in AllSteps(flow) /\ target.id = r.target
      /\ reader.place[1] = Rank[phase] /\ reader.place[2] = at
      /\ loop.in => phase = "main" /\ flow.main[at].id # NoOne
                    /\ BlockContext(reader, r) = flow.main[at].id
      /\ \/ loop.in /\ loop.step = 0 /\ reader.place[3] = 0
         \/ Inside /\ reader.place[3] = loop.step
         \/ ~loop.in /\ reader.place[3] = 0 /\ BlockContext(reader, r) = NoOne
  BY Readers
<1>2. /\ Before(target.place, reader.place) \/ SameBlock(target, reader, r)
      /\ target.when \/ target.parent # NoOne =>
           SameBlock(target, reader, r) /\ RanThisIteration(target, reader)
  BY <1>1 DEF Verdict
<1> HIDE DEF reader, target
<1>3. /\ target.place[1] \in 1..3 /\ target.place[2] \in Nat /\ target.place[3] \in Nat
      /\ target.parent # NoOne => target.place[3] > 0
      /\ target.parent = NoOne => target.place[3] = 0
  BY <1>1, Places
<1>4. CASE target.when \/ target.parent # NoOne
  <2>1. /\ loop.in /\ target.parent = flow.main[at].id /\ target.parent # NoOne
        /\ Before(target.place, reader.place) /\ ~target.when
    BY <1>1, <1>2, <1>4 DEF SameBlock, RanThisIteration, Inside
  <2>2. target.place[1] = Rank[phase] /\ target.place[2] = at
    BY <1>1, <2>1, CurrentEntry DEF Current
  <2>3. at \in Nat /\ Rank[phase] \in Nat
    BY <1>1, CurrentEntry, Ranks
  <2>4. target.place[3] < reader.place[3]
    BY <1>1, <2>1, <2>2, <2>3 DEF Before
  <2>5. target.place[3] < loop.step
    BY <1>1, <1>3, <2>1, <2>4
  <2> QED
    BY <1>1, <2>1, <2>5 DEF OrderInv, BehindInLoopInv
<1>5. CASE ~target.when /\ target.parent = NoOne
  <2>1. Before(target.place, reader.place)
    BY <1>2, <1>5 DEF SameBlock
  <2>2. Passed(target) \/ (target.place[1] = Rank[phase] /\ target.place[2] = at /\ Inside)
    BY <1>1, <1>3, <1>5, <2>1 DEF Before, Passed
  <2>3. ~(target.place[1] = Rank[phase] /\ target.place[2] = at /\ Inside)
    <3> SUFFICES ASSUME target.place[1] = Rank[phase], target.place[2] = at, Inside
                 PROVE  FALSE
      OBVIOUS
    <3>1. target.id = Current.id
      BY <1>1, <1>5, CurrentEntry
    <3>2. Current = flow.main[at]
      BY <1>1 DEF Inside, Current
    <3> QED
      BY <1>1, <3>1, <3>2 DEF OwnBlock
  <2> QED
    BY <1>1, <1>5, <2>2, <2>3 DEF OrderInv, BehindInv
<1> QED
  BY <1>4, <1>5

LEMMA RejectedReads ==
  ASSUME TypeInv, OrderInv
  PROVE  RejectedReadsFindNothing
<1> SUFFICES ASSUME NEW r \in Evaluated, Verdicts[flow][r] = "STEP_ORDER",
                    ~Relocated(r.target), r.target \in DOMAIN steps
             PROVE  FALSE
  BY DEF RejectedReadsFindNothing
<1> DEFINE reader == StepNamed(AllSteps(flow), r.reader)
           target == StepNamed(AllSteps(flow), r.target)
<1>1. /\ Verdicts[flow][r] = Verdict(flow, r) /\ r.target \in IdsOf(flow)
      /\ phase # "idle" /\ target \in AllSteps(flow) /\ target.id = r.target
      /\ reader.place[1] = Rank[phase] /\ reader.place[2] = at
      /\ loop.in => /\ flow.main[at].id # NoOne
                    /\ BlockContext(reader, r) = flow.main[at].id
  BY Readers
<1>2. ~Before(target.place, reader.place) /\ ~SameBlock(target, reader, r)
  BY <1>1 DEF Verdict
<1>3. ~Moved(target)
  BY <1>1 DEF Moved, Relocated
<1> HIDE DEF reader, target
<1>4. ~Passed(target)
  BY <1>1, <1>2 DEF Passed, Before
<1>5. ~InLoop(target)
  BY <1>1, <1>2 DEF InLoop, SameBlock
<1> QED
  BY <1>1, <1>3, <1>4, <1>5 DEF OrderInv, AheadInv

LEMMA OrderAlways == Spec => [](TypeInv /\ OrderInv)
<1> DEFINE Inv == TypeInv /\ OrderInv
<1>1. Init => Inv
  BY TypeAtStart, OrderAtStart
<1>2. Inv /\ [Next]_vars => Inv'
  BY TypeStep, OrderStep
<1> QED
  BY <1>1, <1>2, PTL DEF Spec

\* A reference the validator passes without a word finds its step's value,
\* whatever was skipped, resumed, edited, stopped or cancelled before it.
THEOREM CleanReferencesFind == Spec => []CleanReadsFind
<1>1. TypeInv /\ OrderInv => CleanReadsFind
  BY CleanReads
<1> QED
  BY <1>1, OrderAlways, PTL

\* A reference the validator rejects as out of order finds nothing.
THEOREM RejectedReferencesFindNothing == Spec => []RejectedReadsFindNothing
<1>1. TypeInv /\ OrderInv => RejectedReadsFindNothing
  BY RejectedReads
<1> QED
  BY <1>1, OrderAlways, PTL
=============================================================================
