----------------------- MODULE GlobalSchedulerProofs -----------------------
(***************************************************************************)
(* Proofs about GlobalScheduler for every node configuration, every set of *)
(* tasks, every threshold and workloads of any length: no CPU is booked    *)
(* beyond the threshold, an Ok answer schedules every task, the target     *)
(* node is honoured, and the CPU chosen stays the preferred one.           *)
(***************************************************************************)
EXTENDS GlobalScheduler, FiniteSetTheorems, TLAPS

---------------------------------------------------------------------------
(* Sums over finite sets, as SumFunctionOnSet computes them.               *)

\* The element a fold takes next.
Pick(s) == CHOOSE x \in s : TRUE

\* g is the table a fold over S computes: the sums of f over the subsets of S.
SumsUp(g, f, S) ==
  g = [s \in SUBSET S |-> IF s = {} THEN 0 ELSE f[Pick(s)] + g[s \ {Pick(s)}]]

\* The element taken is in the set.
LEMMA PickIsIn == ASSUME NEW s, s # {} PROVE Pick(s) \in s
BY DEF Pick

\* Induction over the subsets of a finite set, as the existence of a minimal
\* counterexample.
LEMMA MinimalSubset ==
  ASSUME NEW S, IsFiniteSet(S), NEW Bad, Bad \subseteq SUBSET S, Bad # {}
  PROVE  \E s \in Bad : \A u \in Bad : u \subseteq s => u = s
<1>1. IsWellFoundedOn(StrictSubsetOrdering(S), SUBSET S)
  BY FS_StrictSubsetOrderingWellFounded, FS_FiniteSubsetsOfFinite, Zenon
<1>2. PICK s \in Bad : \A u \in Bad : ~(<<u, s>> \in StrictSubsetOrdering(S))
  BY <1>1, WFMin
<1> QED  BY <1>2, Zenon DEF StrictSubsetOrdering

\* What the table holds for one subset.
LEMMA SumsUpStep ==
  ASSUME NEW S, NEW f, NEW g, SumsUp(g, f, S), NEW s \in SUBSET S
  PROVE  g[s] = IF s = {} THEN 0 ELSE f[Pick(s)] + g[s \ {Pick(s)}]
BY Zenon DEF SumsUp

\* There is one such table.
LEMMA SumsUpUnique ==
  ASSUME NEW S, IsFiniteSet(S), NEW f, NEW g, NEW h, SumsUp(g, f, S), SumsUp(h, f, S)
  PROVE  g = h
<1> DEFINE Bad == {s \in SUBSET S : g[s] # h[s]}
<1>1. Bad = {}
  <2> SUFFICES ASSUME Bad # {} PROVE FALSE
    OBVIOUS
  <2>0. Bad \subseteq SUBSET S
    OBVIOUS
  <2>1. PICK s \in Bad : \A u \in Bad : u \subseteq s => u = s
    <3> HIDE DEF Bad
    <3> QED  BY <2>0, MinimalSubset
  <2>2. s # {}
    BY SumsUpStep
  <2>3. Pick(s) \in s
    BY <2>2, PickIsIn
  <2>4. g[s \ {Pick(s)}] = h[s \ {Pick(s)}]
    BY <2>1, <2>3
  <2> QED  BY <2>2, <2>4, SumsUpStep
<1> QED
  <2>1. DOMAIN g = SUBSET S /\ DOMAIN h = SUBSET S
    BY DEF SumsUp
  <2>2. g = [s \in SUBSET S |-> g[s]] /\ h = [s \in SUBSET S |-> h[s]]
    BY DEF SumsUp
  <2> QED BY <1>1, <2>1, <2>2, Zenon

\* The table of a set holds the table of its subsets.
LEMMA SumsUpRestrict ==
  ASSUME NEW S, NEW f, NEW g, SumsUp(g, f, S), NEW T \in SUBSET S
  PROVE  SumsUp([s \in SUBSET T |-> g[s]], f, T)
BY SumsUpStep, Zenon DEF SumsUp

\* There is such a table: the recursion of the fold is well founded.
LEMMA SumsUpExists ==
  ASSUME NEW S, IsFiniteSet(S), NEW f
  PROVE  \E g : SumsUp(g, f, S)
<1> DEFINE Bad == {s \in SUBSET S : ~\E g : SumsUp(g, f, s)}
           v(s) == (CHOOSE g : SumsUp(g, f, s))[s]
<1>1. Bad = {}
  <2> SUFFICES ASSUME Bad # {} PROVE FALSE
    OBVIOUS
  <2>0. Bad \subseteq SUBSET S
    OBVIOUS
  <2>1. PICK s \in Bad : \A u \in Bad : u \subseteq s => u = s
    <3> HIDE DEF Bad
    <3> QED  BY <2>0, MinimalSubset
  <2> DEFINE G == [u \in SUBSET s |-> IF u = {} THEN 0 ELSE f[Pick(u)] + v(u \ {Pick(u)})]
  <2>2. \A u \in SUBSET s : u # s => SumsUp(CHOOSE g : SumsUp(g, f, u), f, u) /\ IsFiniteSet(u)
    BY <2>1, FS_Subset, Zenon
  <2> HIDE DEF Bad
  <2>3. ASSUME NEW u \in SUBSET s, u # s, u # {}
        PROVE  v(u) = f[Pick(u)] + v(u \ {Pick(u)})
    <3> DEFINE g == CHOOSE g : SumsUp(g, f, u)
               w == u \ {Pick(u)}
               h == [z \in SUBSET w |-> g[z]]
    <3>1. Pick(u) \in u
      BY <2>3, PickIsIn
    <3>2. SumsUp(g, f, u)
      BY <2>2, <2>3
    <3>3. SumsUp(h, f, w)
      <4>1. w \in SUBSET u
        OBVIOUS
      <4> HIDE DEF g, w
      <4> QED  BY <3>2, <4>1, SumsUpRestrict
    <3>4. w \in SUBSET s /\ w # s /\ IsFiniteSet(w) /\ SumsUp(CHOOSE x : SumsUp(x, f, w), f, w)
      BY <2>2, <2>3, <3>1, Zenon
    <3>5. h = (CHOOSE x : SumsUp(x, f, w))
      BY <3>3, <3>4, SumsUpUnique
    <3>6. v(w) = g[w]
      BY <3>5, Zenon
    <3>7. g[u] = f[Pick(u)] + g[w]
      BY <2>3, <3>2, SumsUpStep
    <3> QED BY <3>6, <3>7
  <2>4. \A u \in SUBSET s : u # s => G[u] = v(u)
    <3>1. v({}) = 0 \/ s = {}
      BY <2>2, SumsUpStep, Zenon
    <3> QED BY <2>3, <3>1, Zenon
  <2>5. \A u \in SUBSET s : u # {} => G[u \ {Pick(u)}] = v(u \ {Pick(u)})
    BY <2>4, PickIsIn, Zenon
  <2>6. SumsUp(G, f, s)
    <3>1. G = [u \in SUBSET s |-> G[u]]
      OBVIOUS
    <3>2. \A u \in SUBSET s : G[u] = IF u = {} THEN 0 ELSE f[Pick(u)] + v(u \ {Pick(u)})
      OBVIOUS
    <3> HIDE DEF G, v
    <3>3. \A u \in SUBSET s : G[u] = IF u = {} THEN 0 ELSE f[Pick(u)] + G[u \ {Pick(u)}]
      BY <2>5, <3>2
    <3> QED  BY <3>1, <3>3, Zenon DEF SumsUp
  <2> QED BY <2>1, <2>6 DEF Bad
<1> QED BY <1>1

\* The sum of the library is read off the table.
LEMMA SumIsSumsUp ==
  ASSUME NEW f, NEW S
  PROVE  SumFunctionOnSet(f, S) = (CHOOSE g : SumsUp(g, f, S))[S]
BY DEF SumFunctionOnSet, FoldFunctionOnSet, MapThenFoldSet, SumsUp, Pick

\* The empty sum.
LEMMA SumEmpty == ASSUME NEW f PROVE SumFunctionOnSet(f, {}) = 0
BY SumsUpExists, SumIsSumsUp, SumsUpStep, FS_EmptySet, Zenon

\* One step of the fold.
LEMMA SumPick ==
  ASSUME NEW f, NEW S, IsFiniteSet(S), S # {}
  PROVE  SumFunctionOnSet(f, S) = f[Pick(S)] + SumFunctionOnSet(f, S \ {Pick(S)})
<1> DEFINE g == CHOOSE g : SumsUp(g, f, S)
           T == S \ {Pick(S)}
           h == CHOOSE h : SumsUp(h, f, T)
           r == [s \in SUBSET T |-> g[s]]
<1>1. IsFiniteSet(T) /\ T \in SUBSET S /\ T \in SUBSET T /\ S \in SUBSET S
  BY FS_Subset
<1>2. SumsUp(g, f, S) /\ SumsUp(h, f, T)
  BY <1>1, SumsUpExists
<1>3. SumFunctionOnSet(f, S) = g[S] /\ SumFunctionOnSet(f, T) = h[T]
  BY SumIsSumsUp
<1> HIDE DEF g, h
<1>4. g[S] = f[Pick(S)] + g[T]
  BY <1>1, <1>2, SumsUpStep
<1>5. r[T] = g[T]
  BY <1>1
<1>6. SumsUp(r, f, T)
  <2> HIDE DEF T
  <2> QED  BY <1>1, <1>2, SumsUpRestrict
<1>7. r = h
  <2> HIDE DEF T, r
  <2> QED  BY <1>1, <1>2, <1>6, SumsUpUnique
<1> QED  BY <1>3, <1>4, <1>5, <1>7

\* A sum of utilisations is a natural number.
LEMMA SumIsNat ==
  ASSUME NEW f, NEW S, IsFiniteSet(S), \A x \in S : f[x] \in Nat
  PROVE  SumFunctionOnSet(f, S) \in Nat
<1> DEFINE Bad == {s \in SUBSET S : SumFunctionOnSet(f, s) \notin Nat}
<1>1. Bad = {}
  <2> SUFFICES ASSUME Bad # {} PROVE FALSE
    OBVIOUS
  <2>0. Bad \subseteq SUBSET S
    OBVIOUS
  <2>1. PICK s \in Bad : \A u \in Bad : u \subseteq s => u = s
    <3> HIDE DEF Bad
    <3> QED  BY <2>0, MinimalSubset
  <2>2. /\ s \in SUBSET S /\ SumFunctionOnSet(f, s) \notin Nat
        /\ \A u \in SUBSET s : u # s => SumFunctionOnSet(f, u) \in Nat
    BY <2>1
  <2> HIDE DEF Bad
  <2>3. s # {} /\ IsFiniteSet(s)
    <3>1. SumFunctionOnSet(f, {}) \in Nat
      BY SumEmpty
    <3>2. s # {}
      BY <2>2, <3>1, Zenon
    <3> QED  BY <2>2, <3>2, FS_Subset
  <2>4. Pick(s) \in s
    BY <2>3, PickIsIn
  <2>5. f[Pick(s)] \in Nat /\ SumFunctionOnSet(f, s \ {Pick(s)}) \in Nat
    BY <2>2, <2>4
  <2> QED  BY <2>2, <2>3, <2>5, SumPick
<1> QED  BY <1>1

\* Any element may be taken out of a sum: the order of a fold does not matter.
LEMMA SumRemove ==
  ASSUME NEW f, NEW S, IsFiniteSet(S), \A x \in S : f[x] \in Nat, NEW e \in S
  PROVE  SumFunctionOnSet(f, S) = f[e] + SumFunctionOnSet(f, S \ {e})
<1> DEFINE Splits(s) == \A x \in s : SumFunctionOnSet(f, s) = f[x] + SumFunctionOnSet(f, s \ {x})
           Bad == {s \in SUBSET S : ~Splits(s)}
<1>1. Bad = {}
  <2> SUFFICES ASSUME Bad # {} PROVE FALSE
    OBVIOUS
  <2>1. Bad \subseteq SUBSET S
    OBVIOUS
  <2>2. PICK s \in Bad : \A u \in Bad : u \subseteq s => u = s
    <3> HIDE DEF Bad
    <3> QED  BY <2>1, MinimalSubset
  <2>3. s \in SUBSET S /\ ~Splits(s) /\ \A u \in SUBSET s : u # s => Splits(u)
    BY <2>2
  <2>4. PICK x \in s : SumFunctionOnSet(f, s) # f[x] + SumFunctionOnSet(f, s \ {x})
    BY <2>3, Zenon
  <2> DEFINE p == Pick(s)
  <2> HIDE DEF Bad
  <2>5. p \in s /\ IsFiniteSet(s)
    BY <2>3, PickIsIn, FS_Subset
  <2>6. SumFunctionOnSet(f, s) = f[p] + SumFunctionOnSet(f, s \ {p})
    BY <2>5, SumPick
  <2> HIDE DEF p
  <2>7. p # x
    BY <2>4, <2>6
  <2>8. SumFunctionOnSet(f, s \ {p}) = f[x] + SumFunctionOnSet(f, (s \ {p}) \ {x})
    BY <2>3, <2>5, <2>7
  <2>9. SumFunctionOnSet(f, s \ {x}) = f[p] + SumFunctionOnSet(f, (s \ {x}) \ {p})
    BY <2>3, <2>5, <2>7
  <2>10. (s \ {x}) \ {p} = (s \ {p}) \ {x}
    OBVIOUS
  <2>11. SumFunctionOnSet(f, (s \ {p}) \ {x}) \in Nat /\ f[x] \in Nat /\ f[p] \in Nat
    <3>1. IsFiniteSet((s \ {p}) \ {x}) /\ \A y \in (s \ {p}) \ {x} : f[y] \in Nat
      BY <2>3, <2>5, FS_Subset
    <3> QED  BY <2>3, <2>5, <3>1, SumIsNat
  <2> QED  BY <2>4, <2>6, <2>8, <2>9, <2>10, <2>11
<1>2. Splits(S)
  BY <1>1
<1> QED  BY <1>2

\* One more element adds its value.
LEMMA SumAdd ==
  ASSUME NEW f, NEW S, IsFiniteSet(S), NEW e, e \notin S, \A x \in S \cup {e} : f[x] \in Nat
  PROVE  SumFunctionOnSet(f, S \cup {e}) = f[e] + SumFunctionOnSet(f, S)
<1> DEFINE T == S \cup {e}
<1>1. IsFiniteSet(T) /\ e \in T /\ T \ {e} = S /\ \A x \in T : f[x] \in Nat
  BY FS_AddElement
<1> HIDE DEF T
<1>2. SumFunctionOnSet(f, T) = f[e] + SumFunctionOnSet(f, T \ {e})
  BY <1>1, SumRemove
<1> QED  BY <1>1, <1>2 DEF T

\* A sum depends on the values at its elements only.
LEMMA SumSame ==
  ASSUME NEW f, NEW g, NEW S, IsFiniteSet(S), \A x \in S : f[x] = g[x]
  PROVE  SumFunctionOnSet(f, S) = SumFunctionOnSet(g, S)
<1> DEFINE Bad == {s \in SUBSET S : SumFunctionOnSet(f, s) # SumFunctionOnSet(g, s)}
<1>1. Bad = {}
  <2> SUFFICES ASSUME Bad # {} PROVE FALSE
    OBVIOUS
  <2>1. Bad \subseteq SUBSET S
    OBVIOUS
  <2>2. PICK s \in Bad : \A u \in Bad : u \subseteq s => u = s
    <3> HIDE DEF Bad
    <3> QED  BY <2>1, MinimalSubset
  <2>3. /\ s \in SUBSET S /\ SumFunctionOnSet(f, s) # SumFunctionOnSet(g, s)
        /\ \A u \in SUBSET s : u # s => SumFunctionOnSet(f, u) = SumFunctionOnSet(g, u)
    BY <2>2
  <2> HIDE DEF Bad
  <2>4. s # {} /\ IsFiniteSet(s)
    BY <2>3, SumEmpty, FS_Subset, Zenon
  <2>5. Pick(s) \in s
    BY <2>4, PickIsIn
  <2>6. SumFunctionOnSet(f, s \ {Pick(s)}) = SumFunctionOnSet(g, s \ {Pick(s)}) /\ f[Pick(s)] = g[Pick(s)]
    BY <2>3, <2>5
  <2>7. /\ SumFunctionOnSet(f, s) = f[Pick(s)] + SumFunctionOnSet(f, s \ {Pick(s)})
        /\ SumFunctionOnSet(g, s) = g[Pick(s)] + SumFunctionOnSet(g, s \ {Pick(s)})
    BY <2>4, SumPick
  <2> QED  BY <2>3, <2>6, <2>7
<1> QED  BY <1>1

\* Fewer elements sum up to no more.
LEMMA SumSubset ==
  ASSUME NEW f, NEW S, IsFiniteSet(S), \A x \in S : f[x] \in Nat, NEW T \in SUBSET S
  PROVE  SumFunctionOnSet(f, T) <= SumFunctionOnSet(f, S)
<1> DEFINE Bad == {s \in SUBSET S : T \subseteq s /\ ~(SumFunctionOnSet(f, T) <= SumFunctionOnSet(f, s))}
<1>1. Bad = {}
  <2> SUFFICES ASSUME Bad # {} PROVE FALSE
    OBVIOUS
  <2>1. Bad \subseteq SUBSET S
    OBVIOUS
  <2>2. PICK s \in Bad : \A u \in Bad : u \subseteq s => u = s
    <3> HIDE DEF Bad
    <3> QED  BY <2>1, MinimalSubset
  <2>3. /\ s \in SUBSET S /\ T \subseteq s /\ ~(SumFunctionOnSet(f, T) <= SumFunctionOnSet(f, s))
        /\ \A u \in SUBSET s : u # s /\ T \subseteq u => SumFunctionOnSet(f, T) <= SumFunctionOnSet(f, u)
    BY <2>2
  <2> HIDE DEF Bad
  <2>4. /\ IsFiniteSet(s) /\ IsFiniteSet(T)
        /\ SumFunctionOnSet(f, s) \in Nat /\ SumFunctionOnSet(f, T) \in Nat
    <3>1. IsFiniteSet(s) /\ IsFiniteSet(T) /\ (\A x \in s : f[x] \in Nat) /\ (\A x \in T : f[x] \in Nat)
      BY <2>3, FS_Subset
    <3> QED  BY <3>1, SumIsNat
  <2>5. PICK x \in s : x \notin T
    <3>1. s # T
      BY <2>3, <2>4
    <3> QED  BY <2>3, <3>1, Zenon
  <2>6. SumFunctionOnSet(f, T) <= SumFunctionOnSet(f, s \ {x})
    BY <2>3, <2>5
  <2>7. SumFunctionOnSet(f, s) = f[x] + SumFunctionOnSet(f, s \ {x}) /\ f[x] \in Nat
    <3>1. \A y \in s : f[y] \in Nat
      BY <2>3
    <3> QED  BY <2>4, <2>5, <3>1, SumRemove
  <2>8. SumFunctionOnSet(f, s \ {x}) \in Nat
    <3>1. IsFiniteSet(s \ {x}) /\ \A y \in s \ {x} : f[y] \in Nat
      BY <2>3, <2>4, FS_Subset
    <3> QED  BY <3>1, SumIsNat
  <2> QED  BY <2>3, <2>4, <2>6, <2>7, <2>8
<1>2. S \notin Bad
  BY <1>1
<1> QED  BY <1>2

\* A sum of zeros.
LEMMA SumZeros ==
  ASSUME NEW f, NEW S, IsFiniteSet(S), \A x \in S : f[x] = 0
  PROVE  SumFunctionOnSet(f, S) = 0
<1> DEFINE Bad == {s \in SUBSET S : SumFunctionOnSet(f, s) # 0}
<1>1. Bad = {}
  <2> SUFFICES ASSUME Bad # {} PROVE FALSE
    OBVIOUS
  <2>1. Bad \subseteq SUBSET S
    OBVIOUS
  <2>2. PICK s \in Bad : \A u \in Bad : u \subseteq s => u = s
    <3> HIDE DEF Bad
    <3> QED  BY <2>1, MinimalSubset
  <2>3. /\ s \in SUBSET S /\ SumFunctionOnSet(f, s) # 0
        /\ \A u \in SUBSET s : u # s => SumFunctionOnSet(f, u) = 0
    BY <2>2
  <2> HIDE DEF Bad
  <2>4. s # {} /\ IsFiniteSet(s)
    BY <2>3, SumEmpty, FS_Subset, Zenon
  <2>5. Pick(s) \in s
    BY <2>4, PickIsIn
  <2>6. SumFunctionOnSet(f, s \ {Pick(s)}) = 0 /\ f[Pick(s)] = 0
    BY <2>3, <2>5
  <2> QED  BY <2>3, <2>4, <2>6, SumPick
<1> QED  BY <1>1

\* One value that grows makes the sum grow by as much.
LEMMA SumGrows ==
  ASSUME NEW f, NEW g, NEW S, IsFiniteSet(S), NEW e \in S, NEW d \in Nat,
         \A x \in S : f[x] \in Nat, \A x \in S \ {e} : g[x] = f[x], g[e] = f[e] + d
  PROVE  SumFunctionOnSet(g, S) = SumFunctionOnSet(f, S) + d
<1> DEFINE R == S \ {e}
<1>1. IsFiniteSet(R) /\ (\A x \in R : f[x] \in Nat) /\ (\A x \in S : g[x] \in Nat)
  BY FS_Subset
<1>2. SumFunctionOnSet(f, S) = f[e] + SumFunctionOnSet(f, R)
  BY SumRemove
<1>3. SumFunctionOnSet(g, S) = g[e] + SumFunctionOnSet(g, R)
  BY <1>1, SumRemove
<1>4. SumFunctionOnSet(g, R) = SumFunctionOnSet(f, R)
  BY <1>1, SumSame
<1>5. SumFunctionOnSet(f, R) \in Nat
  BY <1>1, SumIsNat
<1> QED  BY <1>2, <1>3, <1>4, <1>5

\* One term is no more than the sum.
LEMMA SumAtLeast ==
  ASSUME NEW f, NEW S, IsFiniteSet(S), \A x \in S : f[x] \in Nat, NEW e \in S
  PROVE  f[e] <= SumFunctionOnSet(f, S)
<1>1. SumFunctionOnSet(f, S) = f[e] + SumFunctionOnSet(f, S \ {e})
  BY SumRemove
<1>2. IsFiniteSet(S \ {e}) /\ \A x \in S \ {e} : f[x] \in Nat
  BY FS_Subset
<1>3. SumFunctionOnSet(f, S \ {e}) \in Nat
  BY <1>2, SumIsNat
<1> QED  BY <1>1, <1>3

---------------------------------------------------------------------------
(* One call of schedule()                                                  *)

\* The utilisation of a task is a natural number, whatever its period:
\* Task::utilization guards the division by zero.
LEMMA UtilizationIsNat ==
  ASSUME NEW t \in TaskSpace
  PROVE  utilization(t) \in Nat
<1>1. t.runtime \in Nat /\ t.period \in Nat
  BY TaskAssumption
<1>2. CASE t.period = 0
  BY <1>2 DEF utilization
<1>3. CASE t.period # 0
  <2>1. Scale * t.runtime \in Nat
    BY <1>1, ConfigAssumption
  <2> QED  BY <1>1, <1>3, <2>1 DEF utilization
<1> QED  BY <1>2, <1>3

\* The lowest bit of an affinity mask is unique.
LEMMA PinIsUnique ==
  ASSUME NEW t \in TaskSpace, NEW c, NEW d, Pins(t, c), Pins(t, d)
  PROVE  c = d
<1>1. t.affinity \subseteq Nat
  BY TaskAssumption
<1> QED  BY <1>1 DEF Pins

\* What find_best_cpu_for_task returns on a node with room for the task: a CPU
\* with room, the pinned one unless that is full, and else the highest one.
LEMMA BestCpuFits ==
  ASSUME NEW t \in TaskSpace, NEW n \in Nodes, NEW c \in Cpus[n] \cup {NoCpu},
         HasCpu(t, n), find_best_cpu(t, n, c)
  PROVE  /\ Fits(t, n, c)
         /\ \A p \in Cpus[n] : Pins(t, p) /\ c # p => ~Fits(t, n, p)
         /\ ~Pins(t, c) => \A d \in Cpus[n] : d > c => ~Fits(t, n, d)
<1>1. Cpus[n] \subseteq Nat
  BY ConfigAssumption
<1>2. CASE \E p \in t.affinity : Pins(t, p) /\ Fits(t, n, p)
  <2>1. Pins(t, c)
    BY <1>2 DEF find_best_cpu
  <2>2. \A p : Pins(t, p) => p = c
    BY <2>1, PinIsUnique
  <2> QED  BY <1>2, <2>1, <2>2
<1>3. CASE ~\E p \in t.affinity : Pins(t, p) /\ Fits(t, n, p)
  <2>1. Fits(t, n, c) /\ \A d \in Cpus[n] : Fits(t, n, d) => d <= c
    BY <1>3 DEF find_best_cpu
  <2>2. \A p : Pins(t, p) => ~Fits(t, n, p)
    BY <1>3 DEF Pins
  <2>3. c \in Nat
    BY <1>1, <2>1 DEF Fits
  <2> QED  BY <1>1, <2>1, <2>2, <2>3
<1> QED  BY <1>2, <1>3

\* Before the first task everything is unassigned and unbooked.
LEMMA InitEstablishes == Init => IInv
<1> SUFFICES ASSUME Init PROVE IInv
  OBVIOUS
<1>1. tasks \in Seq(TaskSpace)
  <2>1. PICK k \in 0..MaxTasks : tasks \in [1..k -> TaskSpace]
    BY DEF Init
  <2> QED  BY <2>1, ConfigAssumption
<1>2. Len(tasks) \in Nat
  BY <1>1
<1>3. TypeOK
  BY <1>1, <1>2 DEF Init, TypeOK
<1>4. NoCpuOverloaded
  BY ConfigAssumption DEF Init, NoCpuOverloaded
<1>5. TargetIsHonoured /\ NoBetterCpu
  BY <1>2 DEF Init, TargetIsHonoured, NoBetterCpu
<1>6. PlacedInOrder
  BY <1>2 DEF Init, PlacedInOrder
<1> QED  BY <1>3, <1>4, <1>5, <1>6 DEF IInv

\* An error changes nothing but the outcome.
LEMMA FailPreserves ==
  ASSUME IInv, NEW e \in Errors, Fail(e)
  PROVE  IInv'
<1>1. UNCHANGED <<algorithm, named, loaded, tasks, next, util, assigned, sched>>
  BY DEF Fail, call
<1>2. outcome' = e /\ e \notin {"called", "placing", "ok"}
  BY DEF Fail, Errors
<1>3. TypeOK'
  BY <1>1, <1>2 DEF IInv, TypeOK
<1>4. NoCpuOverloaded'
  BY <1>1 DEF IInv, NoCpuOverloaded
<1>5. TargetIsHonoured'
  BY <1>1, Zenon DEF IInv, TargetIsHonoured
<1>6. NoBetterCpu'
  BY <1>1, Zenon DEF IInv, NoBetterCpu
<1>7. PlacedInOrder'
  BY <1>1, <1>2 DEF IInv, PlacedInOrder
<1> QED  BY <1>3, <1>4, <1>5, <1>6, <1>7 DEF IInv

\* The start of the loop, with the reordering of best_fit_decreasing.
LEMMA BeginPreserves == IInv /\ Begin => IInv'
<1> SUFFICES ASSUME IInv, Begin PROVE IInv'
  OBVIOUS
<1>1. /\ tasks \in Seq(TaskSpace) /\ Len(tasks) \in Nat
      /\ next = 1
      /\ \A k \in 1..Len(tasks) : assigned[k] = Unassigned
  BY DEF IInv, TypeOK, PlacedInOrder, Begin
<1>2. PICK p \in [1..Len(tasks) -> 1..Len(tasks)] :
        tasks' = [k \in 1..Len(tasks) |-> tasks[p[k]]]
  BY DEF Begin
<1>3. \A k \in 1..Len(tasks) : tasks[p[k]] \in TaskSpace
  BY <1>1, <1>2
<1>4. tasks' \in Seq(TaskSpace) /\ Len(tasks') = Len(tasks)
  BY <1>1, <1>2, <1>3
<1>5. outcome' = "placing" /\ UNCHANGED <<algorithm, named, loaded, next, util, assigned, sched>>
  BY DEF Begin, call
<1>6. TypeOK'
  BY <1>4, <1>5 DEF IInv, TypeOK
<1>7. NoCpuOverloaded'
  BY <1>5 DEF IInv, NoCpuOverloaded
<1>8. TargetIsHonoured' /\ NoBetterCpu'
  BY <1>1, <1>4, <1>5 DEF TargetIsHonoured, NoBetterCpu
<1>9. PlacedInOrder'
  BY <1>1, <1>4, <1>5 DEF PlacedInOrder
<1> QED  BY <1>6, <1>7, <1>8, <1>9 DEF IInv

\* Placing one task on a node that has room for it: the heart of the three
\* algorithms, each of which chooses the node in its own way.
LEMMA PlacePreserves ==
  ASSUME IInv, outcome = "placing", next <= Len(tasks),
         NEW n \in Nodes, NEW c \in Cpus[n] \cup {NoCpu},
         HasCpu(tasks[next], n), find_best_cpu(tasks[next], n, c), assign_cpu(n, c),
         algorithm = "target_node_priority" => n = tasks[next].target
  PROVE  IInv'
<1> DEFINE t == tasks[next]
<1> DEFINE here == <<n, c>>
<1>1. /\ tasks \in Seq(TaskSpace) /\ Len(tasks) \in Nat
      /\ next \in 1..Len(tasks) /\ t \in TaskSpace
      /\ util \in [Places -> Nat]
      /\ assigned \in [1..Len(tasks) -> Places \cup {Unassigned}]
  BY DEF IInv, TypeOK
<1>2. \A k \in 1..Len(tasks) : tasks[k] \in TaskSpace /\ utilization(tasks[k]) \in Nat
  BY <1>1, UtilizationIsNat
<1>3. /\ Fits(t, n, c)
      /\ \A p \in Cpus[n] : Pins(t, p) /\ c # p => ~Fits(t, n, p)
      /\ ~Pins(t, c) => \A d \in Cpus[n] : d > c => ~Fits(t, n, d)
  BY <1>1, BestCpuFits, Zenon
<1>4. c \in Cpus[n] /\ Cpus[n] \subseteq Nat /\ c # NoCpu
  BY <1>3, ConfigAssumption DEF Fits, NoCpu
<1>5. here \in Places /\ here # Unassigned /\ here[1] = n /\ here[2] = c
  BY <1>4, ConfigAssumption DEF Places, Unassigned
<1>6. /\ UNCHANGED <<algorithm, named, loaded, tasks, outcome, sched>>
      /\ next' = next + 1
      /\ assigned' = [assigned EXCEPT ![next] = here]
      /\ util' = [p \in Places |-> IF p = here THEN util[p] + utilization(t) ELSE util[p]]
  BY <1>4, Zenon DEF assign_cpu, call
<1> HIDE DEF here, t
<1>7. \A p \in Places : util[p] \in Nat /\ util'[p] \in Nat /\ util[p] <= util'[p]
  BY <1>1, <1>2, <1>6 DEF t
<1>8. TypeOK'
  <2>1. util' \in [Places -> Nat]
    BY <1>6, <1>7, Zenon
  <2>2. assigned' \in [1..Len(tasks) -> Places \cup {Unassigned}]
    BY <1>1, <1>5, <1>6
  <2>3. next' \in 1..(Len(tasks) + 1)
    BY <1>1, <1>6
  <2> QED  BY <1>6, <2>1, <2>2, <2>3, Zenon DEF IInv, TypeOK
<1>9. NoCpuOverloaded'
  <2>1. util[here] + utilization(t) <= CPU_UTILIZATION_THRESHOLD
    BY <1>3 DEF Fits, here
  <2> QED  BY <1>6, <2>1 DEF IInv, NoCpuOverloaded
<1>10. TargetIsHonoured'
  BY <1>1, <1>5, <1>6, Zenon DEF IInv, TargetIsHonoured, t
<1>11. NoBetterCpu'
  <2>0. tasks' = tasks
    BY <1>6
  <2>1. ASSUME NEW k \in 1..Len(tasks), assigned'[k] # Unassigned,
               NEW m, m = assigned'[k][1], NEW e, e = assigned'[k][2], NEW d \in Cpus[m],
               (Pins(tasks[k], d) /\ e # d) \/ (~Pins(tasks[k], e) /\ d > e)
        PROVE  util'[<<m, d>>] + utilization(tasks[k]) > CPU_UTILIZATION_THRESHOLD
    <3>1. PICK place : place = <<m, d>>
      BY Zenon
    <3>2. assigned'[k] \in Places
      BY <1>1, <1>5, <1>6, <2>1, Zenon
    <3>3. m \in Nodes
      BY <2>1, <3>2, Zenon DEF Places
    <3>4. place \in Places
      BY <2>1, <3>1, <3>3, Zenon DEF Places
    <3>5. util[place] \in Nat /\ util'[place] \in Nat /\ util[place] <= util'[place] /\ utilization(tasks[k]) \in Nat
      BY <1>2, <1>7, <3>4
    <3>6. util[place] + utilization(tasks[k]) > CPU_UTILIZATION_THRESHOLD
      <4>1. CASE k = next
        <5>1. m = n /\ e = c /\ tasks[k] = t
          BY <1>1, <1>5, <1>6, <2>1, <4>1, Zenon DEF t
        <5>2. ~Fits(t, n, d)
          BY <1>3, <2>1, <5>1, Zenon
        <5> QED  BY <3>1, <3>5, <5>1, <5>2, ConfigAssumption DEF Fits
      <4>2. CASE k # next
        <5>1. assigned'[k] = assigned[k]
          BY <1>1, <1>6, <4>2
        <5> QED  BY <2>1, <3>1, <5>1, Zenon DEF IInv, NoBetterCpu
      <4> QED  BY <4>1, <4>2
    <3> QED  BY <3>1, <3>5, <3>6, ConfigAssumption
  <2> QED  BY <2>0, <2>1, ZenonT(60) DEF NoBetterCpu
<1>12. PlacedInOrder'
  <2>1. \A k \in 1..(next' - 1) : assigned'[k] \in Places
    BY <1>1, <1>5, <1>6 DEF IInv, PlacedInOrder
  <2>2. \A k \in next'..Len(tasks) : assigned'[k] = Unassigned
    BY <1>1, <1>6 DEF IInv, PlacedInOrder
  <2> QED  BY <1>6, <2>1, <2>2, Zenon DEF PlacedInOrder
<1> QED  BY <1>8, <1>9, <1>10, <1>11, <1>12 DEF IInv

\* The end of the loop only builds the result.
LEMMA FinishPreserves == IInv /\ Finish => IInv'
<1> SUFFICES ASSUME IInv, Finish PROVE IInv'
  OBVIOUS
<1>1. /\ outcome = "placing" /\ next > Len(tasks)
      /\ outcome' = "ok" /\ sched' = build_sched_map(assigned)
      /\ UNCHANGED <<algorithm, named, loaded, tasks, next, util, assigned>>
  BY DEF Finish, call
<1>2. TypeOK'
  BY <1>1 DEF IInv, TypeOK
<1>3. NoCpuOverloaded'
  BY <1>1 DEF IInv, NoCpuOverloaded
<1>4. TargetIsHonoured'
  BY <1>1, Zenon DEF IInv, TargetIsHonoured
<1>5. NoBetterCpu'
  BY <1>1, Zenon DEF IInv, NoBetterCpu
<1>6. next = Len(tasks) + 1
  BY <1>1 DEF IInv, TypeOK
<1>7. build_sched_map(assigned)' = build_sched_map(assigned)
  BY <1>1, Zenon DEF build_sched_map
<1>8. PlacedInOrder'
  BY <1>1, <1>6, <1>7 DEF IInv, PlacedInOrder
<1> QED  BY <1>2, <1>3, <1>4, <1>5, <1>8 DEF IInv

\* Every step of the call preserves the invariant.
LEMMA NextPreserves == IInv /\ [Next]_vars => IInv'
<1> SUFFICES ASSUME IInv, [Next]_vars PROVE IInv'
  OBVIOUS
<1>1. CASE Refuse
  BY <1>1, FailPreserves DEF Refuse, Errors
<1>2. CASE Begin
  BY <1>2, BeginPreserves, Zenon
<1>3. CASE TargetNodePriority
  <2> DEFINE t == tasks[next]
  <2>1. CASE TargetRefused(t)
    BY <2>1, FailPreserves DEF TargetRefused, Errors
  <2>2. CASE Fail("AdmissionRejected")
    BY <2>2, FailPreserves DEF Errors
  <2>3. ASSUME NEW c \in Cpus[t.target], Admitted(t, t.target),
               find_best_cpu(t, t.target, c), assign_cpu(t.target, c)
        PROVE  IInv'
    <3>1. t.target \in Nodes
      BY <2>3, Zenon DEF Admitted
    <3>2. HasCpu(t, t.target)
      <4>1. Cpus[t.target] \subseteq Nat
        BY <3>1, ConfigAssumption, Zenon
      <4>2. c # NoCpu
        BY <2>3, <4>1 DEF NoCpu
      <4> QED  BY <2>3, <4>2, Zenon DEF find_best_cpu, HasCpu, Fits
    <3>3. outcome = "placing" /\ next <= Len(tasks)
      BY <1>3 DEF TargetNodePriority, Placing
    <3> QED  BY <2>3, <3>1, <3>2, <3>3, PlacePreserves
  <2> QED  BY <1>3, <2>1, <2>2, <2>3, Zenon DEF TargetNodePriority
<1>4. CASE LeastLoaded
  <2> DEFINE t == tasks[next]
  <2>1. outcome = "placing" /\ next <= Len(tasks) /\ algorithm = "least_loaded"
    BY <1>4 DEF LeastLoaded, Placing
  <2>2. CASE Fail("NoSchedulableNode")
    BY <2>2, FailPreserves, Zenon DEF Errors
  <2>3. ASSUME NEW n \in Nodes, least_loaded(t, n), NEW c \in Cpus[n] \cup {NoCpu},
               find_best_cpu(t, n, c), assign_cpu(n, c)
        PROVE  IInv'
    <3>1. HasCpu(t, n)
      BY <2>3, Zenon DEF least_loaded, Eligible
    <3> QED  BY <2>1, <2>3, <3>1, PlacePreserves, Zenon
  <2> QED  BY <1>4, <2>2, <2>3 DEF LeastLoaded
<1>5. CASE BestFitDecreasing
  <2> DEFINE t == tasks[next]
  <2>1. outcome = "placing" /\ next <= Len(tasks) /\ algorithm = "best_fit_decreasing"
    BY <1>5, Zenon DEF BestFitDecreasing, Placing
  <2>2. CASE Fail("NoSchedulableNode")
    BY <2>2, FailPreserves, Zenon DEF Errors
  <2>3. ASSUME NEW n \in Nodes, best_fit(t, n), NEW c \in Cpus[n] \cup {NoCpu},
               find_best_cpu(t, n, c), assign_cpu(n, c)
        PROVE  IInv'
    <3>1. HasCpu(t, n)
      BY <2>3, Zenon DEF best_fit, HintWorks, BestFitCandidate, Eligible
    <3> QED  BY <2>1, <2>3, <3>1, PlacePreserves, Zenon
  <2> QED  BY <1>5, <2>2, <2>3, Zenon DEF BestFitDecreasing
<1>6. CASE Finish
  BY <1>6, FinishPreserves, Zenon
<1>7. CASE UNCHANGED vars
  <2>1. UNCHANGED <<algorithm, named, loaded, tasks, next, util, assigned, outcome, sched>>
    BY <1>7 DEF vars
  <2>2. build_sched_map(assigned)' = build_sched_map(assigned)
    BY <2>1 DEF build_sched_map
  <2> QED  BY <2>1, <2>2, Zenon DEF IInv, TypeOK, NoCpuOverloaded, TargetIsHonoured, NoBetterCpu,
                             PlacedInOrder
<1> QED  BY <1>1, <1>2, <1>3, <1>4, <1>5, <1>6, <1>7 DEF Next

\* The inductive invariant holds throughout every call.
THEOREM Invariance == Spec => []IInv
<1>1. Init => IInv
  BY InitEstablishes
<1>2. IInv /\ [Next]_vars => IInv'
  BY NextPreserves
<1> QED  BY <1>1, <1>2, PTL DEF Spec

\* schedule() keeps its data well typed.
THEOREM TypeCorrect == Spec => []TypeOK
<1>1. IInv => TypeOK
  BY DEF IInv
<1> QED  BY <1>1, Invariance, PTL

\* No CPU is booked beyond CPU_UTILIZATION_THRESHOLD by any algorithm.
THEOREM ThresholdHolds == Spec => []NoCpuOverloaded
<1>1. IInv => NoCpuOverloaded
  BY DEF IInv
<1> QED  BY <1>1, Invariance, PTL

\* target_node_priority places every task on the node it names.
THEOREM TargetHonoured == Spec => []TargetIsHonoured
<1>1. IInv => TargetIsHonoured
  BY DEF IInv
<1> QED  BY <1>1, Invariance, PTL

\* No CPU find_best_cpu_for_task would have preferred has room, then or later.
THEOREM ChoiceStaysBest == Spec => []NoBetterCpu
<1>1. IInv => NoBetterCpu
  BY DEF IInv
<1> QED  BY <1>1, Invariance, PTL

\* An Ok answer contains every task of the workload: the skipping branches of
\* the algorithms are unreachable and build_sched_map drops nothing.
THEOREM NothingDropped == Spec => []OkSchedulesEveryTask
<1>1. IInv => OkSchedulesEveryTask
  <2> SUFFICES ASSUME IInv, outcome = "ok", NEW k \in 1..Len(tasks)
               PROVE  /\ assigned[k] \in Places
                      /\ assigned[k][1] \in DOMAIN sched
                      /\ k \in sched[assigned[k][1]]
    BY DEF OkSchedulesEveryTask
  <2>1. assigned[k] \in Places /\ DOMAIN assigned = 1..Len(tasks)
    BY DEF IInv, TypeOK, PlacedInOrder
  <2>2. assigned[k][1] # NoNode
    BY <2>1, ConfigAssumption, Zenon DEF Places
  <2>3. sched = build_sched_map(assigned)
    BY DEF IInv, PlacedInOrder
  <2> QED  BY <2>1, <2>2, <2>3 DEF build_sched_map
<1> QED  BY <1>1, Invariance, PTL

---------------------------------------------------------------------------
(* What is booked                                                          *)

\* A step of the call places nothing, starts the loop, or places the next task
\* on a CPU of a configured node on which it fits, the node and the CPU being
\* what the searches of the algorithm return.
LEMMA WhatAStepDoes ==
  ASSUME IInv, [Next]_vars
  PROVE  \/ UNCHANGED <<algorithm, named, tasks, util, assigned>>
         \/ Begin
         \/ \E n \in Nodes : \E c \in Cpus[n] :
              /\ outcome = "placing" /\ next \in 1..Len(tasks)
              /\ Fits(tasks[next], n, c) /\ find_best_cpu(tasks[next], n, c)
              /\ algorithm = "target_node_priority" => named /\ n = tasks[next].target
              /\ algorithm = "least_loaded" => least_loaded(tasks[next], n)
              /\ assign_cpu(n, c)
<1> DEFINE t == tasks[next]
<1>1. next \in Nat \ {0} /\ \A k \in 1..Len(tasks) : tasks[k] \in TaskSpace
  BY DEF IInv, TypeOK
<1>2. ASSUME NEW n \in Nodes, NEW c \in Cpus[n] \cup {NoCpu}, HasCpu(t, n), find_best_cpu(t, n, c),
             next <= Len(tasks)
      PROVE  c \in Cpus[n] /\ Fits(t, n, c)
  BY <1>1, <1>2, BestCpuFits DEF Fits
<1>3. CASE TargetNodePriority
  <2>1. ASSUME NEW c \in Cpus[t.target], Admitted(t, t.target), find_best_cpu(t, t.target, c)
        PROVE  t.target \in Nodes /\ HasCpu(t, t.target)
    <3>1. t.target \in Nodes
      BY <2>1, Zenon DEF Admitted
    <3>2. c # NoCpu
      <4>1. Cpus[t.target] \subseteq Nat
        BY <3>1, ConfigAssumption, Zenon
      <4> QED  BY <2>1, <4>1 DEF NoCpu
    <3> QED  BY <2>1, <3>1, <3>2, Zenon DEF find_best_cpu, HasCpu, Fits
  <2> QED  BY <1>1, <1>2, <1>3, <2>1 DEF TargetNodePriority, TargetRefused, Fail, call, Placing
<1>4. CASE LeastLoaded
  <2>1. outcome = "placing" /\ algorithm = "least_loaded" /\ next \in 1..Len(tasks)
    BY <1>1, <1>4 DEF LeastLoaded, Placing
  <2>2. CASE Fail("NoSchedulableNode")
    BY <2>2, Zenon DEF Fail, call
  <2>3. ASSUME NEW n \in Nodes, NEW c \in Cpus[n] \cup {NoCpu}, least_loaded(t, n),
               find_best_cpu(t, n, c), assign_cpu(n, c)
        PROVE  c \in Cpus[n] /\ Fits(t, n, c)
    <3>1. HasCpu(t, n)
      BY <2>3 DEF least_loaded, Eligible
    <3> QED  BY <1>2, <2>1, <2>3, <3>1
  <2> QED  BY <1>4, <2>1, <2>2, <2>3, Zenon DEF LeastLoaded
<1>5. CASE BestFitDecreasing
  BY <1>1, <1>2, <1>5 DEF BestFitDecreasing, Fail, call, Placing, best_fit, HintWorks,
                          BestFitCandidate, Eligible
<1>6. CASE Refuse \/ Finish \/ UNCHANGED vars
  BY <1>6, Zenon DEF Refuse, Finish, Fail, call, vars
<1> QED  BY <1>3, <1>4, <1>5, <1>6, Zenon DEF Next

\* What is needed of the state to reason about sums.
LEMMA SumsAreDefined ==
  ASSUME IInv
  PROVE  /\ DOMAIN tasks = 1..Len(tasks) /\ DOMAIN assigned = 1..Len(tasks) /\ Len(tasks) \in Nat
         /\ IsFiniteSet(DOMAIN tasks)
         /\ \A S \in SUBSET DOMAIN tasks : IsFiniteSet(S)
         /\ DOMAIN TaskUtilization = DOMAIN tasks
         /\ \A k \in DOMAIN tasks : TaskUtilization[k] \in Nat /\ TaskUtilization[k] = utilization(tasks[k])
<1>1. tasks \in Seq(TaskSpace) /\ DOMAIN assigned = 1..Len(tasks)
  BY DEF IInv, TypeOK
<1>2. DOMAIN tasks = 1..Len(tasks) /\ Len(tasks) \in Nat /\ \A k \in DOMAIN tasks : tasks[k] \in TaskSpace
  BY <1>1
<1>3. IsFiniteSet(DOMAIN tasks)
  BY <1>2, FS_Interval
<1> QED  BY <1>1, <1>2, <1>3, FS_Subset, UtilizationIsNat DEF TaskUtilization

\* A place is a CPU of a configured node, and no place stands for "none".
LEMMA AssignedOrNot ==
  ASSUME NEW p \in Places
  PROVE  p # Unassigned /\ p = <<p[1], p[2]>> /\ p[1] \in Nodes /\ p[2] \in Cpus[p[1]] /\ p[2] \in Nat
<1>1. p = <<p[1], p[2]>> /\ p[1] \in Nodes /\ p[2] \in Cpus[p[1]]
  BY DEF Places
<1>2. p[1] # NoNode /\ Cpus[p[1]] \subseteq Nat
  BY <1>1, ConfigAssumption
<1> QED  BY <1>1, <1>2 DEF Unassigned

\* Nothing is booked before the first task.
LEMMA InitBooks == Init => UtilIsTheSumOfTasks
<1> SUFFICES ASSUME Init, NEW p \in Places
             PROVE  util[p] = SumFunctionOnSet(TaskUtilization, {k \in DOMAIN assigned : assigned[k] = p})
  BY DEF UtilIsTheSumOfTasks
<1>1. p # Unassigned
  BY AssignedOrNot
<1>2. {k \in DOMAIN assigned : assigned[k] = p} = {}
  BY <1>1, Zenon DEF Init
<1> QED  BY <1>2, SumEmpty, Zenon DEF Init

\* Every step keeps the books: a placement adds the utilisation of its task on
\* one CPU, and the reordering happens while nothing is booked.
LEMMA NextBooks == IInv /\ UtilIsTheSumOfTasks /\ [Next]_vars => UtilIsTheSumOfTasks'
<1> SUFFICES ASSUME IInv, UtilIsTheSumOfTasks, [Next]_vars, NEW p \in Places
             PROVE  util'[p] = SumFunctionOnSet(TaskUtilization', {k \in DOMAIN assigned' : assigned'[k] = p})
  BY Zenon DEF UtilIsTheSumOfTasks
<1> DEFINE S == {k \in DOMAIN assigned : assigned[k] = p}
           T == {k \in DOMAIN assigned' : assigned'[k] = p}
<1>1. util[p] = SumFunctionOnSet(TaskUtilization, S)
  BY Zenon DEF UtilIsTheSumOfTasks
<1>2. /\ S \subseteq DOMAIN tasks /\ IsFiniteSet(S)
      /\ \A k \in DOMAIN tasks : TaskUtilization[k] \in Nat /\ TaskUtilization[k] = utilization(tasks[k])
  BY SumsAreDefined, Zenon
<1>3. CASE UNCHANGED <<algorithm, named, tasks, util, assigned>>
  <2>1. TaskUtilization' = TaskUtilization /\ T = S /\ util' = util
    BY <1>3 DEF TaskUtilization, utilization
  <2> QED  BY <1>1, <2>1, Zenon
<1>4. CASE Begin
  <2>1. util' = util /\ assigned' = assigned /\ \A k \in DOMAIN assigned : assigned[k] = Unassigned
    BY <1>4, Zenon DEF Begin, IInv, TypeOK, PlacedInOrder
  <2>2. p # Unassigned
    BY AssignedOrNot
  <2>3. S = {} /\ T = {}
    BY <2>1, <2>2
  <2> QED  BY <1>1, <2>1, <2>3, SumEmpty, Zenon
<1>5. ASSUME NEW n \in Nodes, NEW c \in Cpus[n], next \in 1..Len(tasks), assign_cpu(n, c)
      PROVE  util'[p] = SumFunctionOnSet(TaskUtilization', T)
  <2>1. TaskUtilization' = TaskUtilization
    BY <1>5, Zenon DEF assign_cpu, TaskUtilization, utilization
  <2>2. c # NoCpu /\ DOMAIN assigned = 1..Len(tasks)
    BY ConfigAssumption DEF NoCpu, IInv, TypeOK
  <2>3. assigned' = [assigned EXCEPT ![next] = <<n, c>>] /\ assigned[next] = Unassigned
    BY <1>5, <2>2 DEF assign_cpu, IInv, TypeOK, PlacedInOrder
  <2>4. p # Unassigned
    BY AssignedOrNot
  <2>5. next \notin S /\ next \in DOMAIN tasks
    BY <1>5, <2>3, <2>4, SumsAreDefined, Zenon
  <2>6. CASE p = <<n, c>>
    <3>1. T = S \cup {next}
      BY <1>5, <2>2, <2>3, <2>6, Zenon
    <3>2. util'[p] = util[p] + TaskUtilization[next]
      BY <1>2, <1>5, <2>5, <2>6, Zenon DEF assign_cpu
    <3>3. \A k \in S \cup {next} : TaskUtilization[k] \in Nat
      BY <1>2, <2>5, Zenon
    <3>4. SumFunctionOnSet(TaskUtilization, S \cup {next}) = TaskUtilization[next] + SumFunctionOnSet(TaskUtilization, S)
      <4> HIDE DEF S
      <4> QED  BY <1>2, <2>5, <3>3, SumAdd, Zenon
    <3>5. SumFunctionOnSet(TaskUtilization, S) \in Nat
      <4> HIDE DEF S
      <4> QED  BY <1>2, <3>3, SumIsNat, Zenon
    <3> HIDE DEF S, T
    <3> QED  BY <1>1, <1>2, <2>1, <2>5, <3>1, <3>2, <3>4, <3>5
  <2>7. CASE p # <<n, c>>
    <3>1. T = S
      BY <1>5, <2>2, <2>3, <2>4, <2>7, Zenon
    <3>2. util'[p] = util[p]
      BY <1>5, <2>7 DEF assign_cpu
    <3> QED  BY <1>1, <2>1, <3>1, <3>2, Zenon
  <2> QED  BY <2>6, <2>7, Zenon
<1> QED  BY <1>3, <1>4, <1>5, WhatAStepDoes, Zenon

\* The utilisation on a CPU is the sum over the tasks assigned to it, for any
\* workload and any algorithm.
THEOREM BooksBalance == Spec => []UtilIsTheSumOfTasks
<1>1. Init => UtilIsTheSumOfTasks
  BY InitBooks
<1>2. IInv /\ UtilIsTheSumOfTasks /\ [Next]_vars => UtilIsTheSumOfTasks'
  BY NextBooks, Zenon
<1> QED  BY <1>1, <1>2, Invariance, PTL DEF Spec

---------------------------------------------------------------------------
(* Greedy balance                                                          *)

\* The utilisation of a node is a natural number.
LEMMA NodeUtilization ==
  ASSUME TypeOK, NEW n \in Nodes
  PROVE  /\ calculate_node_utilization(n) \in Nat
         /\ IsFiniteSet(Cpus[n]) /\ \A c \in Cpus[n] : <<n, c>> \in Places /\ util[<<n, c>>] \in Nat
<1>1. IsFiniteSet(Cpus[n])
  BY ConfigAssumption
<1>2. \A c \in Cpus[n] : <<n, c>> \in Places
  BY DEF Places
<1>3. \A c \in Cpus[n] : util[<<n, c>>] \in Nat
  BY <1>2 DEF TypeOK
<1> DEFINE f == [c \in Cpus[n] |-> util[<<n, c>>]]
<1>4. \A c \in Cpus[n] : f[c] \in Nat
  BY <1>3
<1>5. SumFunctionOnSet(f, Cpus[n]) \in Nat
  <2> HIDE DEF f
  <2> QED  BY <1>1, <1>4, SumIsNat, Zenon
<1> QED  BY <1>1, <1>2, <1>3, <1>5, Zenon DEF calculate_node_utilization

\* A placement raises the utilisation of its node by that of the task, and
\* leaves every other node alone.
LEMMA PlacementRaisesItsNode ==
  ASSUME IInv, NEW n \in Nodes, NEW c \in Cpus[n], next \in 1..Len(tasks), assign_cpu(n, c),
         NEW m \in Nodes
  PROVE  calculate_node_utilization(m)' =
           calculate_node_utilization(m) + (IF m = n THEN utilization(tasks[next]) ELSE 0)
<1> DEFINE f == [d \in Cpus[m] |-> util[<<m, d>>]]
           g == [d \in Cpus[m] |-> util'[<<m, d>>]]
           u == utilization(tasks[next])
<1>1. /\ IsFiniteSet(Cpus[m])
      /\ \A d \in Cpus[m] : <<m, d>> \in Places /\ util[<<m, d>>] \in Nat
      /\ calculate_node_utilization(m) \in Nat
  BY NodeUtilization, Zenon DEF IInv
<1>2. u \in Nat
  BY UtilizationIsNat DEF IInv, TypeOK
<1>3. util' = [q \in Places |-> IF q = <<n, c>> THEN util[q] + u ELSE util[q]]
  BY Zenon DEF assign_cpu
<1>4. calculate_node_utilization(m) = SumFunctionOnSet(f, Cpus[m])
  BY Zenon DEF calculate_node_utilization
<1>5. calculate_node_utilization(m)' = SumFunctionOnSet(g, Cpus[m])
  BY Zenon DEF calculate_node_utilization
<1>6. \A d \in Cpus[m] : f[d] \in Nat /\ (m = n /\ d = c => g[d] = f[d] + u)
                         /\ (m # n \/ d # c => g[d] = f[d])
  BY <1>1, <1>3, Zenon
<1> HIDE DEF f, g, u
<1>7. CASE m = n
  <2>1. SumFunctionOnSet(g, Cpus[m]) = SumFunctionOnSet(f, Cpus[m]) + u
    BY <1>1, <1>2, <1>6, <1>7, SumGrows
  <2> QED  BY <1>4, <1>5, <1>7, <2>1, Zenon DEF u
<1>8. CASE m # n
  <2>1. SumFunctionOnSet(f, Cpus[m]) = SumFunctionOnSet(g, Cpus[m])
    BY <1>1, <1>6, <1>8, SumSame, ZenonT(60)
  <2> QED  BY <1>1, <1>4, <1>5, <1>8, <2>1
<1> QED  BY <1>7, <1>8, Zenon

\* While the whole workload would fit on one CPU, the next task fits on every
\* CPU: what is booked there are other tasks of the workload.
LEMMA RoomEverywhere ==
  ASSUME IInv, UtilIsTheSumOfTasks, next \in 1..Len(tasks),
         SumFunction(TaskUtilization) <= CPU_UTILIZATION_THRESHOLD, NEW p \in Places
  PROVE  util[p] + utilization(tasks[next]) <= CPU_UTILIZATION_THRESHOLD
<1> DEFINE S == {k \in DOMAIN assigned : assigned[k] = p}
           u == TaskUtilization
<1>1. /\ DOMAIN u = DOMAIN tasks /\ IsFiniteSet(DOMAIN tasks) /\ S \subseteq DOMAIN tasks
      /\ IsFiniteSet(S) /\ next \in DOMAIN tasks /\ \A k \in DOMAIN tasks : u[k] \in Nat
      /\ u[next] = utilization(tasks[next])
  BY SumsAreDefined
<1>2. util[p] = SumFunctionOnSet(u, S)
  BY DEF UtilIsTheSumOfTasks
<1>3. next \notin S
  BY AssignedOrNot DEF IInv, TypeOK, PlacedInOrder
<1>4. CPU_UTILIZATION_THRESHOLD \in Nat
  BY ConfigAssumption
<1> HIDE DEF S, u
<1>5. \A k \in S \cup {next} : u[k] \in Nat
  BY <1>1, Zenon
<1>6. SumFunctionOnSet(u, S \cup {next}) = u[next] + SumFunctionOnSet(u, S) /\ SumFunctionOnSet(u, S) \in Nat
  BY <1>1, <1>3, <1>5, SumAdd, SumIsNat, Zenon
<1>7. S \cup {next} \in SUBSET DOMAIN tasks
  BY <1>1
<1>8. SumFunctionOnSet(u, S \cup {next}) <= SumFunctionOnSet(u, DOMAIN tasks)
  <2> DEFINE T == S \cup {next}
  <2> HIDE DEF T
  <2> QED  BY <1>1, <1>7, SumSubset DEF T
<1>9. SumFunction(TaskUtilization) = SumFunctionOnSet(u, DOMAIN tasks) /\ SumFunctionOnSet(u, DOMAIN tasks) \in Nat
  BY <1>1, SumIsNat DEF SumFunction, u
<1> QED  BY <1>1, <1>2, <1>4, <1>6, <1>8, <1>9

\* All nodes are empty before the first task.
LEMMA InitBalances == Init => LeastLoadedBalances
<1> SUFFICES ASSUME Init, NEW m \in Nodes, NEW n \in Nodes
             PROVE  calculate_node_utilization(m) <= calculate_node_utilization(n)
  BY DEF LeastLoadedBalances
<1>1. ASSUME NEW i \in Nodes PROVE calculate_node_utilization(i) = 0
  <2> DEFINE f == [c \in Cpus[i] |-> util[<<i, c>>]]
  <2>1. IsFiniteSet(Cpus[i])
    BY ConfigAssumption
  <2>2. \A c \in Cpus[i] : <<i, c>> \in Places
    BY DEF Places
  <2>3. \A c \in Cpus[i] : f[c] = 0
    BY <2>2 DEF Init
  <2>4. SumFunctionOnSet(f, Cpus[i]) = 0
    <3> HIDE DEF f
    <3> QED  BY <2>1, <2>3, SumZeros, Zenon
  <2> QED  BY <2>4 DEF calculate_node_utilization
<1> QED  BY <1>1

\* A placement by least_loaded keeps the balance: the node that grows was the
\* least loaded one of all nodes with CPUs.
LEMMA NextBalances ==
  IInv /\ UtilIsTheSumOfTasks /\ LeastLoadedBalances /\ [Next]_vars => LeastLoadedBalances'
<1> DEFINE U(n) == calculate_node_utilization(n)
<1> SUFFICES ASSUME IInv, UtilIsTheSumOfTasks, LeastLoadedBalances, [Next]_vars,
                    algorithm' = "least_loaded", \A k \in DOMAIN tasks' : tasks'[k].affinity = {},
                    SumFunction(TaskUtilization)' <= CPU_UTILIZATION_THRESHOLD,
                    NEW m \in Nodes, NEW n \in Nodes, Cpus[m] # {}, Cpus[n] # {}
             PROVE  \/ U(m)' <= U(n)'
                    \/ \E k \in DOMAIN tasks' : U(m)' <= U(n)' + utilization(tasks'[k])
  BY Zenon DEF LeastLoadedBalances
<1>1. /\ algorithm = "least_loaded" /\ tasks' = tasks
      /\ \A k \in 1..Len(tasks) : tasks[k] \in TaskSpace /\ utilization(tasks[k]) \in Nat
      /\ DOMAIN tasks = 1..Len(tasks)
  <2>1. tasks \in Seq(TaskSpace) /\ DOMAIN tasks = 1..Len(tasks)
    BY DEF IInv, TypeOK
  <2>2. \A k \in 1..Len(tasks) : tasks[k] \in TaskSpace /\ utilization(tasks[k]) \in Nat
    BY <2>1, UtilizationIsNat
  <2>3. ASSUME Begin PROVE algorithm = "least_loaded" /\ tasks' = tasks
    <3>1. algorithm = "least_loaded"
      BY <2>3 DEF Begin, call
    <3>2. PICK p \in [1..Len(tasks) -> 1..Len(tasks)] :
            Order(p) /\ tasks' = [k \in 1..Len(tasks) |-> tasks[p[k]]]
      BY <2>3 DEF Begin
    <3>3. tasks' = [k \in 1..Len(tasks) |-> tasks[k]]
      BY <3>1, <3>2 DEF Order
    <3> QED  BY <2>1, <3>1, <3>3
  <2>4. ASSUME NEW i \in Nodes, NEW c \in Cpus[i], assign_cpu(i, c)
        PROVE  algorithm = "least_loaded" /\ tasks' = tasks
    BY <2>4, Zenon DEF assign_cpu, call
  <2>5. algorithm = "least_loaded" /\ tasks' = tasks
    BY <2>3, <2>4, WhatAStepDoes, Zenon
  <2> QED  BY <2>1, <2>2, <2>5
<1>2. \A i, j \in Nodes : Cpus[i] # {} /\ Cpus[j] # {} =>
        U(i) <= U(j) \/ \E k \in DOMAIN tasks : U(i) <= U(j) + utilization(tasks[k])
  <2>1. SumFunction(TaskUtilization)' = SumFunction(TaskUtilization)
    BY <1>1, Zenon DEF TaskUtilization, utilization
  <2> QED  BY <1>1, <2>1, Zenon DEF LeastLoadedBalances
<1>3. \A i \in Nodes : U(i) \in Nat
  BY NodeUtilization DEF IInv
<1>4. ASSUME util' = util
      PROVE  U(m)' <= U(n)' \/ \E k \in DOMAIN tasks' : U(m)' <= U(n)' + utilization(tasks'[k])
  <2>1. \A i \in Nodes : U(i)' = U(i)
    BY <1>4, Zenon DEF calculate_node_utilization
  <2> HIDE DEF U
  <2> QED  BY <1>1, <1>2, <2>1, Zenon
<1>5. ASSUME NEW i \in Nodes, NEW c \in Cpus[i], next \in 1..Len(tasks),
             least_loaded(tasks[next], i), assign_cpu(i, c)
      PROVE  U(m)' <= U(n)' \/ \E k \in DOMAIN tasks' : U(m)' <= U(n)' + utilization(tasks'[k])
  <2> DEFINE t == tasks[next]
  <2>1. ASSUME NEW j \in Nodes, Cpus[j] # {} PROVE Eligible(t, j)
    <3>1. t.affinity = {}
      BY <1>1, <1>5, Zenon
    <3>2. PICK d \in Cpus[j] : TRUE
      BY <2>1
    <3>3. <<j, d>> \in Places
      BY Zenon DEF Places
    <3>4. SumFunction(TaskUtilization) <= CPU_UTILIZATION_THRESHOLD
      BY <1>1, Zenon DEF TaskUtilization, utilization
    <3>5. util[<<j, d>>] + utilization(t) <= CPU_UTILIZATION_THRESHOLD
      BY <1>5, <3>3, <3>4, RoomEverywhere, Zenon
    <3> QED  BY <2>1, <3>1, <3>5, Zenon DEF Eligible, Admitted, HasCpu, Fits
  <2>2. \A j \in Nodes : Cpus[j] # {} => U(i) <= U(j)
    BY <1>3, <1>5, <2>1 DEF least_loaded
  <2>3. \A j \in Nodes : U(j)' = U(j) + (IF j = i THEN utilization(t) ELSE 0)
    BY <1>5, PlacementRaisesItsNode, Zenon
  <2>4. utilization(t) \in Nat /\ utilization(tasks'[next]) = utilization(t) /\ next \in DOMAIN tasks'
    BY <1>1, <1>5, Zenon
  <2>5. \A k \in DOMAIN tasks : utilization(tasks'[k]) = utilization(tasks[k]) /\ utilization(tasks[k]) \in Nat
    BY <1>1, Zenon
  <2> HIDE DEF U, t
  <2>6. CASE m = i
    <3>1. CASE n = i
      BY <2>6, <3>1, <1>3, <2>3, <2>4
    <3>2. CASE n # i
      <4>1. U(m)' <= U(n)' + utilization(tasks'[next])
        BY <1>3, <2>2, <2>3, <2>4, <2>6, <3>2
      <4> QED  BY <2>4, <4>1, Zenon
    <3> QED  BY <3>1, <3>2, Zenon
  <2>7. CASE m # i
    <3>1. U(m)' = U(m) /\ U(n)' >= U(n) /\ U(m) \in Nat /\ U(n) \in Nat /\ U(n)' \in Nat
      BY <1>3, <2>3, <2>4, <2>7
    <3>2. CASE U(m) <= U(n)
      BY <3>1, <3>2
    <3>3. CASE \E k \in DOMAIN tasks : U(m) <= U(n) + utilization(tasks[k])
      BY <1>1, <2>5, <3>1, <3>3
    <3> QED  BY <1>2, <3>2, <3>3, Zenon
  <2> QED  BY <2>6, <2>7, Zenon
<1>6. ASSUME Begin PROVE util' = util
  BY <1>6, Zenon DEF Begin
<1> QED  BY <1>1, <1>4, <1>5, <1>6, WhatAStepDoes, Zenon

\* least_loaded keeps any two nodes within one task of each other, for any
\* number of nodes, CPUs and tasks, while no CPU limit can be met.
THEOREM GreedyBalance == Spec => []LeastLoadedBalances
<1>1. Init => LeastLoadedBalances
  BY InitBalances
<1>2. IInv /\ UtilIsTheSumOfTasks /\ LeastLoadedBalances /\ [Next]_vars => LeastLoadedBalances'
  BY NextBalances
<1> QED  BY <1>1, <1>2, Invariance, BooksBalance, PTL DEF Spec
=============================================================================
