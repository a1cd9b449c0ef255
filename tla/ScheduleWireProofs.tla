------------------------- MODULE ScheduleWireProofs -------------------------
(***************************************************************************)
(* Proofs about the way of the stored schedule to the nodes                *)
(***************************************************************************)
EXTENDS CppSchedulerProofs

---------------------------------------------------------------------------
(* The buffer                                                              *)

\* Induction over the naturals, for a set.
LEMMA NatInduct ==
  ASSUME NEW S, 0 \in S, \A i \in Nat : i \in S => i + 1 \in S
  PROVE  \A n \in Nat : n \in S
<1> SUFFICES ASSUME NEW n \in Nat, n \notin S PROVE FALSE
  OBVIOUS
<1> DEFINE G == {i \in 0..n : i \in S}
<1>1. IsFiniteSet(G)
  <2>1. IsFiniteSet(0..n)
    BY FS_Interval
  <2> QED  BY <2>1, FS_Subset
<1>2. G \subseteq Int /\ G # {}
  OBVIOUS
<1>3. PICK k \in G : \A y \in G : y <= k
  <2> HIDE DEF G
  <2> QED  BY <1>1, <1>2, HasMaximum, Zenon
<1>4. k + 1 \in S /\ k # n /\ k \in 0..n
  BY <1>3
<1>5. k + 1 \in G
  BY <1>4
<1> QED  BY <1>3, <1>4, <1>5

\* From index m on, f goes on like g.
Continues(f, g, m, n) ==
  (\A i \in 1..(m + n) : f[i] \in Nat) /\ (\A j \in 1..n : g[j] = f[m + j])

\* A sum over the first indices and one over the others, counted anew.
LEMMA SumSplit ==
  ASSUME NEW f, NEW g, NEW m \in Nat, NEW n \in Nat, Continues(f, g, m, n)
  PROVE  SumFunctionOnSet(f, 1..(m + n)) = SumFunctionOnSet(f, 1..m) + SumFunctionOnSet(g, 1..n)
<1> DEFINE S == {i \in Nat : i <= n =>
                   SumFunctionOnSet(f, 1..(m + i)) = SumFunctionOnSet(f, 1..m) + SumFunctionOnSet(g, 1..i)}
<1> USE DEF Continues
<1>0. IsFiniteSet(1..m) /\ \A i \in Nat : IsFiniteSet(1..i) /\ IsFiniteSet(1..(m + i))
  BY FS_Interval
<1>1. 0 \in S
  <2>1. 1..0 = {} /\ 1..(m + 0) = 1..m
    OBVIOUS
  <2>2. SumFunctionOnSet(g, {}) = 0
    BY SumEmpty
  <2>3. SumFunctionOnSet(f, 1..m) \in Nat
    <3>1. \A i \in 1..m : f[i] \in Nat
      OBVIOUS
    <3> QED  BY <1>0, <3>1, SumIsNat, Zenon
  <2> QED  BY <2>1, <2>2, <2>3
<1>2. ASSUME NEW i \in Nat, i \in S PROVE i + 1 \in S
  <2> SUFFICES ASSUME i + 1 <= n
               PROVE  SumFunctionOnSet(f, 1..(m + (i + 1))) = SumFunctionOnSet(f, 1..m) + SumFunctionOnSet(g, 1..(i + 1))
    OBVIOUS
  <2> DEFINE A == 1..(m + i)
             B == 1..i
             e == m + i + 1
             d == i + 1
  <2>1. SumFunctionOnSet(f, A) = SumFunctionOnSet(f, 1..m) + SumFunctionOnSet(g, B)
    BY <1>2
  <2>2. 1..(m + (i + 1)) = A \cup {e} /\ 1..(i + 1) = B \cup {d} /\ e \notin A /\ d \notin B
    OBVIOUS
  <2>3. (\A x \in A \cup {e} : f[x] \in Nat) /\ (\A x \in B \cup {d} : g[x] \in Nat) /\ g[d] = f[e]
    OBVIOUS
  <2>4. IsFiniteSet(A) /\ IsFiniteSet(B)
    BY <1>0, Zenon
  <2>5. (\A x \in A : f[x] \in Nat) /\ (\A x \in B : g[x] \in Nat) /\ (\A x \in 1..m : f[x] \in Nat)
    OBVIOUS
  <2> HIDE DEF A, B, e, d
  <2>6. SumFunctionOnSet(f, A \cup {e}) = f[e] + SumFunctionOnSet(f, A)
    BY <2>2, <2>3, <2>4, SumAdd
  <2>7. SumFunctionOnSet(g, B \cup {d}) = g[d] + SumFunctionOnSet(g, B)
    BY <2>2, <2>3, <2>4, SumAdd
  <2>8. SumFunctionOnSet(f, A) \in Nat /\ SumFunctionOnSet(g, B) \in Nat /\ SumFunctionOnSet(f, 1..m) \in Nat
    BY <1>0, <2>4, <2>5, SumIsNat, Zenon
  <2>9. f[e] \in Nat
    BY <2>3
  <2>10. /\ SumFunctionOnSet(f, 1..(m + (i + 1))) = SumFunctionOnSet(f, A \cup {e})
         /\ SumFunctionOnSet(g, 1..(i + 1)) = SumFunctionOnSet(g, B \cup {d})
    BY <2>2, Zenon
  <2>11. g[d] = f[e]
    BY <2>3
  <2>12. PICK y \in Nat, z \in Nat, w \in Nat :
            y = SumFunctionOnSet(f, 1..m) /\ z = SumFunctionOnSet(g, B) /\ w = f[e]
    BY <2>8, <2>9
  <2>13. SumFunctionOnSet(f, A \cup {e}) = w + (y + z) /\ SumFunctionOnSet(g, B \cup {d}) = w + z
    BY <2>1, <2>6, <2>7, <2>11, <2>12, Zenon
  <2>14. w + (y + z) = y + (w + z)
    OBVIOUS
  <2> QED  BY <2>10, <2>12, <2>13, <2>14, Zenon
<1>3. n \in S
  <2> HIDE DEF S
  <2> QED  BY <1>1, <1>2, NatInduct
<1> QED  BY <1>3

\* The cells of c are the m cells of a and the n cells of b on top of them.
Joins(c, a, m, b, n) ==
  /\ DOMAIN a = 1..m /\ DOMAIN b = 1..n /\ DOMAIN c = 1..(m + n)
  /\ \A i \in 1..m : c[i] = a[i]
  /\ \A j \in 1..n : c[m + j] = b[j]
  /\ \A i \in 1..(m + n) : Bytes(c[i]) \in Nat

\* Their bytes add up.
LEMMA BytesSplit ==
  ASSUME NEW a, NEW b, NEW c, NEW m \in Nat, NEW n \in Nat, Joins(c, a, m, b, n)
  PROVE  BytesOf(c) = BytesOf(a) + BytesOf(b) /\ BytesOf(a) \in Nat /\ BytesOf(b) \in Nat
<1> DEFINE f == [i \in DOMAIN c |-> Bytes(c[i])]
           g == [i \in DOMAIN b |-> Bytes(b[i])]
           h == [i \in DOMAIN a |-> Bytes(a[i])]
<1>1. /\ BytesOf(c) = SumFunctionOnSet(f, 1..(m + n))
      /\ BytesOf(b) = SumFunctionOnSet(g, 1..n) /\ BytesOf(a) = SumFunctionOnSet(h, 1..m)
  BY DEF BytesOf, SumFunction, Joins
<1>2. /\ \A i \in 1..(m + n) : f[i] \in Nat
      /\ \A j \in 1..n : g[j] = f[m + j] /\ g[j] \in Nat
      /\ \A i \in 1..m : f[i] = h[i] /\ h[i] \in Nat
  BY DEF Joins
<1>3. IsFiniteSet(1..m) /\ IsFiniteSet(1..n)
  BY FS_Interval
<1> HIDE DEF f, g, h
<1>4. SumFunctionOnSet(f, 1..(m + n)) = SumFunctionOnSet(f, 1..m) + SumFunctionOnSet(g, 1..n)
  <2>1. Continues(f, g, m, n)
    BY <1>2 DEF Continues
  <2> QED  BY <2>1, SumSplit
<1>5. SumFunctionOnSet(f, 1..m) = SumFunctionOnSet(h, 1..m)
  BY <1>2, <1>3, SumSame
<1>6. SumFunctionOnSet(h, 1..m) \in Nat /\ SumFunctionOnSet(g, 1..n) \in Nat
  BY <1>2, <1>3, SumIsNat, Zenon
<1> QED  BY <1>1, <1>4, <1>5, <1>6

\* The recursion of PushAll.
Pushes(f, b, cells, n) == f = [i \in 0..n |-> IF i = 0 THEN b ELSE Push(f[i - 1], cells[i])]

\* There is such a function.
LEMMA PushesExist ==
  ASSUME NEW b, NEW cells, NEW n \in Nat
  PROVE  \E f : Pushes(f, b, cells, n)
<1> DEFINE S == {k \in Nat : \E f : Pushes(f, b, cells, k)}
<1>1. 0 \in S
  <2> DEFINE f == [i \in 0..0 |-> b]
  <2>1. f = [i \in 0..0 |-> IF i = 0 THEN b ELSE Push(f[i - 1], cells[i])]
    OBVIOUS
  <2>2. Pushes(f, b, cells, 0)
    BY <2>1 DEF Pushes
  <2> QED  BY <2>2
<1>2. ASSUME NEW k \in Nat, k \in S PROVE k + 1 \in S
  <2>1. PICK f : f = [i \in 0..k |-> IF i = 0 THEN b ELSE Push(f[i - 1], cells[i])]
    BY <1>2, Zenon DEF Pushes
  <2> DEFINE h == [i \in 0..(k + 1) |-> IF i = k + 1 THEN Push(f[k], cells[k + 1]) ELSE f[i]]
  <2>2. \A i \in 0..(k + 1) : h[i] = IF i = 0 THEN b ELSE Push(h[i - 1], cells[i])
    <3> TAKE i \in 0..(k + 1)
    <3>1. CASE i = k + 1
      BY <3>1
    <3>2. CASE i # k + 1 /\ i = 0
      <4>1. h[0] = f[0] /\ f[0] = b
        BY <2>1
      <4> QED  BY <3>2, <4>1
    <3>3. CASE i # k + 1 /\ i # 0
      <4>1. i \in 0..k /\ i - 1 \in 0..k /\ i - 1 # k + 1
        BY <3>3
      <4>2. h[i] = f[i] /\ h[i - 1] = f[i - 1]
        BY <4>1
      <4>3. f[i] = Push(f[i - 1], cells[i])
        BY <2>1, <3>3, <4>1
      <4> QED  BY <3>3, <4>2, <4>3
    <3> QED  BY <3>1, <3>2, <3>3, ZenonT(60)
  <2>3. h = [i \in 0..(k + 1) |-> h[i]]
    OBVIOUS
  <2> HIDE DEF h
  <2>4. h = [i \in 0..(k + 1) |-> IF i = 0 THEN b ELSE Push(h[i - 1], cells[i])]
    BY <2>2, <2>3
  <2>5. Pushes(h, b, cells, k + 1)
    BY <2>4 DEF Pushes
  <2> QED  BY <2>5
<1>3. n \in S
  <2> HIDE DEF S
  <2> QED  BY <1>1, <1>2, NatInduct
<1> QED  BY <1>3

\* A sequence is one over its own elements.
LEMMA SeqOfItsOwn ==
  ASSUME NEW S, NEW s \in Seq(S)
  PROVE  s \in Seq(Range(s)) /\ Len(s) \in Nat /\ DOMAIN s = 1..Len(s)
<1>1. Len(s) \in Nat /\ DOMAIN s = 1..Len(s) /\ s = [i \in 1..Len(s) |-> s[i]]
  OBVIOUS
<1>2. s \in [1..Len(s) -> Range(s)]
  BY <1>1 DEF Range
<1> QED  BY <1>1, <1>2

\* The bytes of a single cell, and of none.
LEMMA BytesOfOne ==
  /\ BytesOf(<<>>) = 0
  /\ \A c : Bytes(c) \in Nat => BytesOf(<<c>>) = Bytes(c)
<1>1. BytesOf(<<>>) = 0
  <2>1. BytesOf(<<>>) = SumFunctionOnSet([i \in {} |-> Bytes(<<>>[i])], {})
    <3>1. DOMAIN <<>> = {}
      OBVIOUS
    <3>2. DOMAIN [i \in {} |-> Bytes(<<>>[i])] = {}
      OBVIOUS
    <3> QED  BY <3>1, <3>2 DEF BytesOf, SumFunction
  <2> QED  BY <2>1, SumEmpty
<1>2. ASSUME NEW c, Bytes(c) \in Nat PROVE BytesOf(<<c>>) = Bytes(c)
  <2> DEFINE f == [i \in DOMAIN <<c>> |-> Bytes(<<c>>[i])]
  <2>1. DOMAIN f = {1} /\ f[1] = Bytes(c)
    OBVIOUS
  <2>2. BytesOf(<<c>>) = SumFunctionOnSet(f, {1})
    BY <2>1 DEF BytesOf, SumFunction
  <2> HIDE DEF f
  <2>3. SumFunctionOnSet(f, {} \cup {1}) = f[1] + SumFunctionOnSet(f, {})
    <3>1. IsFiniteSet({}) /\ 1 \notin {} /\ \A x \in {} \cup {1} : f[x] \in Nat
      BY <1>2, <2>1, FS_EmptySet
    <3> QED  BY <3>1, SumAdd
  <2>4. SumFunctionOnSet(f, {}) = 0
    BY SumEmpty
  <2>5. {} \cup {1} = {1}
    BY Zenon
  <2> QED  BY <1>2, <2>1, <2>2, <2>3, <2>4, <2>5
<1> QED  BY <1>1, <1>2

\* Buffer r is buffer b with the first n of these cells on top.
OnTop(r, b, cells, n) ==
  /\ IsBuffer(r) /\ Len(r.cells) = Len(b.cells) + n
  /\ \A k \in 1..Len(b.cells) : r.cells[k] = b.cells[k]
  /\ \A j \in 1..n : r.cells[Len(b.cells) + j] = cells[j]

\* reserve_space makes the room, so that a push keeps the accounts.
LEMMA PushIsOnTop ==
  ASSUME NEW b, IsBuffer(b), NEW c, Bytes(c) \in Nat
  PROVE  OnTop(Push(b, c), b, <<c>>, 1)
<1> DEFINE r == Push(b, c)
           s == b.cells
           n == Len(s)
<1>1. r = [cells |-> Append(s, c), pos |-> b.pos + Bytes(c), size |-> reserve_space(b, Bytes(c))]
  BY Zenon DEF Push
<1>2. r.cells = Append(s, c) /\ r.pos = b.pos + Bytes(c) /\ r.size = reserve_space(b, Bytes(c))
      /\ r = [cells |-> r.cells, pos |-> r.pos, size |-> r.size]
  BY <1>1
<1>3. /\ s \in Seq(Range(s)) /\ b.pos \in Nat /\ b.size \in Nat /\ b.pos <= b.size /\ b.pos = BytesOf(s)
      /\ \A i \in 1..n : Bytes(s[i]) \in Nat
  BY DEF IsBuffer
<1>4. r.size \in Nat /\ r.pos \in Nat /\ r.pos <= r.size
  <2>1. PICK p \in Nat, z \in Nat, y \in Nat : p = b.pos /\ z = b.size /\ y = Bytes(c) /\ p <= z
    BY <1>3, Zenon
  <2>2. r.size = (IF p + y <= z THEN z ELSE IF p + y > 2 * z THEN 2 * z + y ELSE 2 * z) /\ r.pos = p + y
    BY <1>2, <2>1, Zenon DEF reserve_space
  <2> QED  BY <2>1, <2>2
<1>5. /\ r.cells \in Seq(Range(r.cells)) /\ Len(r.cells) = n + 1 /\ n \in Nat
      /\ DOMAIN s = 1..n /\ DOMAIN r.cells = 1..(n + 1)
      /\ (\A k \in 1..n : r.cells[k] = s[k]) /\ r.cells[n + 1] = c
  <2> DEFINE S == Range(s) \cup {c}
  <2>1. s \in Seq(S) /\ c \in S
    <3>1. s \in Seq(Range(s)) /\ \A x \in Range(s) : x \in S
      BY <1>3
    <3>2. Seq(Range(s)) \subseteq Seq(S)
      BY <3>1
    <3> QED  BY <3>1, <3>2
  <2> HIDE DEF S
  <2>2. Append(s, c) \in Seq(S) /\ Len(Append(s, c)) = n + 1 /\ n \in Nat /\ DOMAIN s = 1..n
        /\ (\A k \in 1..n : Append(s, c)[k] = s[k]) /\ Append(s, c)[n + 1] = c
    BY <2>1
  <2> HIDE DEF r
  <2> QED  BY <1>2, <2>2, SeqOfItsOwn, Zenon
<1> HIDE DEF r
<1>6. \A i \in 1..(n + 1) : Bytes(r.cells[i]) \in Nat
  <2> TAKE i \in 1..(n + 1)
  <2>1. CASE i = n + 1
    BY <1>5, <2>1, ZenonT(60)
  <2>2. CASE i # n + 1
    <3>1. i \in 1..n
      BY <1>5, <2>2
    <3> QED  BY <1>3, <1>5, <3>1, ZenonT(60)
  <2> QED  BY <2>1, <2>2
<1>7. r.pos = BytesOf(r.cells)
  <2>1. DOMAIN <<c>> = 1..1 /\ \A j \in 1..1 : r.cells[n + j] = <<c>>[j]
    BY <1>5
  <2>2. Joins(r.cells, s, n, <<c>>, 1) /\ n \in Nat
    BY <1>5, <1>6, <2>1, ZenonT(60) DEF Joins
  <2>4. BytesOf(r.cells) = BytesOf(s) + BytesOf(<<c>>)
    BY <2>2, BytesSplit, ZenonT(60)
  <2>3. BytesOf(<<c>>) = Bytes(c)
    BY BytesOfOne, Zenon
  <2> QED  BY <1>2, <1>3, <2>3, <2>4, ZenonT(60)
<1>8. IsBuffer(r)
  BY <1>2, <1>4, <1>5, <1>6, <1>7, ZenonT(60) DEF IsBuffer
<1>9. \A j \in 1..1 : r.cells[n + j] = <<c>>[j]
  BY <1>5
<1> QED  BY <1>5, <1>8, <1>9, ZenonT(60) DEF OnTop, r

\* One more push on top.
LEMMA OnTopOfTop ==
  ASSUME NEW b, IsBuffer(b), NEW cells, NEW i \in Nat, NEW q, NEW r,
         OnTop(q, b, cells, i), OnTop(r, q, <<cells[i + 1]>>, 1)
  PROVE  OnTop(r, b, cells, i + 1)
<1> DEFINE m == Len(b.cells)
<1>1. m \in Nat /\ Len(q.cells) = m + i /\ Len(r.cells) = (m + i) + 1 /\ IsBuffer(r)
  <2>1. b.cells \in Seq(Range(b.cells))
    BY DEF IsBuffer
  <2>2. m \in Nat
    BY <2>1
  <2> QED  BY <2>2, ZenonT(60) DEF OnTop
<1>2. /\ \A k \in 1..m : q.cells[k] = b.cells[k]
      /\ \A j \in 1..i : q.cells[m + j] = cells[j]
      /\ \A k \in 1..(m + i) : r.cells[k] = q.cells[k]
  BY <1>1, Zenon DEF OnTop
<1>3. r.cells[(m + i) + 1] = cells[i + 1]
  BY <1>1 DEF OnTop
<1> HIDE DEF m
<1>0. m + (i + 1) = (m + i) + 1
  BY <1>1
<1>4. \A k \in 1..m : r.cells[k] = b.cells[k]
  BY <1>1, <1>2
<1>5. \A j \in 1..(i + 1) : r.cells[m + j] = cells[j]
  <2> TAKE j \in 1..(i + 1)
  <2>1. CASE j = i + 1
    BY <1>0, <1>3, <2>1
  <2>2. CASE j # i + 1
    <3>1. j \in 1..i /\ m + j \in 1..(m + i)
      BY <1>1, <2>2
    <3> QED  BY <1>2, <3>1
  <2> QED  BY <2>1, <2>2, ZenonT(60)
<1>6. Len(r.cells) = m + (i + 1)
  BY <1>0, <1>1
<1> QED  BY <1>1, <1>4, <1>5, <1>6, Zenon DEF OnTop, m

\* PushAll puts all of its cells on top.
LEMMA PushAllIsOnTop ==
  ASSUME NEW b, IsBuffer(b), NEW cells, NEW n \in Nat, Len(cells) = n, \A i \in 1..n : Bytes(cells[i]) \in Nat
  PROVE  OnTop(PushAll(b, cells), b, cells, n)
<1> DEFINE f == CHOOSE f : Pushes(f, b, cells, n)
           S == {i \in Nat : i <= n => OnTop(f[i], b, cells, i)}
<1>1. PushAll(b, cells) = f[n]
  BY DEF PushAll, Pushes
<1>2. f = [i \in 0..n |-> IF i = 0 THEN b ELSE Push(f[i - 1], cells[i])]
  <2>1. \E g : Pushes(g, b, cells, n)
    BY PushesExist
  <2>2. Pushes(f, b, cells, n)
    BY <2>1
  <2> QED  BY <2>2, Zenon DEF Pushes
<1> HIDE DEF f
<1>3. f[0] = b /\ \A i \in Nat : i + 1 <= n => f[i + 1] = Push(f[i], cells[i + 1])
  <2>1. f[0] = b
    BY <1>2
  <2>2. ASSUME NEW i \in Nat, i + 1 <= n PROVE f[i + 1] = Push(f[i], cells[i + 1])
    <3>1. i + 1 \in 0..n /\ i + 1 # 0 /\ (i + 1) - 1 = i
      BY <2>2
    <3>2. f[i + 1] = Push(f[(i + 1) - 1], cells[i + 1])
      BY <1>2, <3>1
    <3> QED  BY <3>1, <3>2
  <2> QED  BY <2>1, <2>2
<1>4. 0 \in S
  <2>1. b.cells \in Seq(Range(b.cells))
    BY DEF IsBuffer
  <2>2. Len(b.cells) = Len(b.cells) + 0
    BY <2>1
  <2>3. OnTop(b, b, cells, 0)
    BY <2>2 DEF OnTop
  <2> QED  BY <1>3, <2>3
<1>5. ASSUME NEW i \in Nat, i \in S PROVE i + 1 \in S
  <2> SUFFICES ASSUME i + 1 <= n PROVE OnTop(f[i + 1], b, cells, i + 1)
    OBVIOUS
  <2>1. OnTop(f[i], b, cells, i)
    BY <1>5
  <2>2. IsBuffer(f[i]) /\ Bytes(cells[i + 1]) \in Nat
    <3>1. i + 1 \in 1..n
      OBVIOUS
    <3> QED  BY <2>1, <3>1, ZenonT(60) DEF OnTop
  <2> HIDE DEF S
  <2>3. OnTop(f[i + 1], f[i], <<cells[i + 1]>>, 1)
    <3>1. f[i + 1] = Push(f[i], cells[i + 1])
      BY <1>3
    <3> QED  BY <2>2, <3>1, PushIsOnTop, ZenonT(60)
  <2> QED  BY <2>1, <2>3, OnTopOfTop
<1>6. n \in S
  <2> HIDE DEF S
  <2> QED  BY <1>4, <1>5, NatInduct, Zenon
<1> QED  BY <1>1, <1>6

\* The cells of a task, and of the header, have a size and a type.
LEMMA TaskCellsFit ==
  ASSUME NEW t
  PROVE  /\ Len(TaskCells(t)) = 10
         /\ \A i \in 1..10 : Bytes(TaskCells(t)[i]) \in Nat /\ TaskCells(t)[11 - i].type = PopTypes[i]
<1>1. Len(TaskCells(t)) = 10
  BY DEF TaskCells
<1>2. \A what, value : \A max \in {16, 64} : Bytes(Str(what, value, max)) \in Nat /\ Str(what, value, max).type = "str"
  BY WireAssumption DEF Bytes, Str
<1>3. \A what, value : \A type \in {"int32", "int64"} :
        Bytes(Cell(type, what, value)) \in Nat /\ Cell(type, what, value).type = type
  BY DEF Bytes, Cell
<1>4. \A i \in 1..10 : i \in {1, 2, 3, 4, 5, 6, 7, 8, 9, 10}
  OBVIOUS
<1>5. \A i \in {1, 2, 3, 4, 5, 6, 7, 8, 9, 10} : Bytes(TaskCells(t)[i]) \in Nat
  BY <1>2, <1>3 DEF TaskCells
<1>6. \A i \in {1, 2, 3, 4, 5, 6, 7, 8, 9, 10} : TaskCells(t)[11 - i].type = PopTypes[i]
  BY <1>2, <1>3 DEF TaskCells, PopTypes
<1> QED  BY <1>1, <1>4, <1>5, <1>6, ZenonT(60)

\* The header takes two cells.
LEMMA HeaderFits == Len(Header) = 2 /\ \A i \in 1..2 : Bytes(Header[i]) \in Nat
<1>1. Bytes(Str("workload", workload_id, 64)) \in Nat /\ Bytes(Cell("int64", "hyperperiod", workload_id)) \in Nat
  BY WireAssumption DEF Bytes, Str, Cell
<1> HIDE DEF Str, Cell, Bytes
<1> QED  BY <1>1 DEF Header

\* The task a node pops depends on the ten cells only.
LEMMA PopsTheSame ==
  ASSUME NEW a, NEW b, Len(a) = 10, Len(b) = 10, \A j \in 1..10 : a[j] = b[j]
  PROVE  PopTask(a) = PopTask(b)
<1>1. \A i \in {1, 2, 3, 4, 5, 6, 7, 8, 9, 10} : a[11 - i] = b[11 - i]
  OBVIOUS
<1>2. \A i \in {1, 2, 3, 4, 5, 6, 7, 8, 9, 10} : a[10 + 1 - i].is = b[10 + 1 - i].is
  BY <1>1
<1> QED  BY <1>2, ZenonT(60) DEF PopTask

\* The map that GroupByNode makes of a list.
LEMMA Grouped ==
  ASSUME NEW items, NEW n \in Nat, DOMAIN items \subseteq 1..n, sched_info_map_ = GroupByNode(items)
  PROVE  /\ IsFiniteSet(Entries)
         /\ \A x \in Entries : /\ x[2] \in DOMAIN items /\ x = <<x[1], x[2]>> /\ x[1] = items[x[2]].node
                               /\ Entry(x) = items[x[2]]
<1>1. \A x \in Entries : /\ x = <<x[1], x[2]>> /\ x[1] \in DOMAIN sched_info_map_
                         /\ x[2] \in DOMAIN sched_info_map_[x[1]]
  BY DEF Entries
<1>2. \A m \in DOMAIN sched_info_map_ :
        sched_info_map_[m] = [k \in {k \in DOMAIN items : items[k].node = m} |-> items[k]]
  BY Zenon DEF GroupByNode, Restrict
<1>3. \A x \in Entries : /\ x[2] \in DOMAIN items /\ x = <<x[1], x[2]>> /\ x[1] = items[x[2]].node
                         /\ Entry(x) = items[x[2]]
  <2> TAKE x \in Entries
  <2> DEFINE m == x[1]
             k == x[2]
  <2>1. m \in DOMAIN sched_info_map_ /\ k \in DOMAIN sched_info_map_[m] /\ Entry(x) = sched_info_map_[m][k]
    BY <1>1 DEF Entry
  <2>2. sched_info_map_[m] = [j \in {j \in DOMAIN items : items[j].node = m} |-> items[j]]
    BY <1>2, <2>1, Zenon
  <2> HIDE DEF m, k
  <2>3. k \in DOMAIN items /\ m = items[k].node /\ Entry(x) = items[k]
    BY <2>1, <2>2
  <2> QED  BY <1>1, <2>3, ZenonT(60) DEF m, k
<1>4. IsFiniteSet(Entries)
  <2> DEFINE f == [x \in Entries |-> x[2]]
  <2>1. f \in Injection(Entries, 1..n)
    <3>1. f \in [Entries -> 1..n]
      BY <1>3
    <3>2. \A x, y \in Entries : f[x] = f[y] => x = y
      BY <1>3
    <3> HIDE DEF f
    <3> QED  BY <3>1, <3>2 DEF Injection, IsInjective
  <2>2. IsFiniteSet(1..n)
    BY FS_Interval
  <2> HIDE DEF f
  <2> QED  BY <2>1, <2>2, FS_Injection
<1> QED  BY <1>3, <1>4

\* The stored schedule: an entry is a task of the request on a node.
IsEntry(x) ==
  /\ x = <<x[1], x[2]>> /\ x[1] \in Nat /\ x[2] \in 1..Len(given) /\ x[2] \in Nat
  /\ Entry(x).id = x[2] /\ Entry(x).node = x[1]
  /\ Entry(x).period_ns \div kNsToUs = given[x[2]].period
  /\ Entry(x).runtime_ns \div kNsToUs = IF workload_id = "Apex.OS" THEN 0 ELSE given[x[2]].runtime
  /\ workload_id # "Apex.OS" => x[1] # NoNode /\ tasks_[x[2]].node = x[1] /\ Entry(x).cpu = tasks_[x[2]].cpu

ScheduleIs == IsFiniteSet(Entries) /\ \A x \in Entries : IsEntry(x)

\* Both ways of storing a schedule, the Apex.OS one and the scheduler's, make
\* such entries.
LEMMA EntriesAre ==
  ASSUME CppInv, status = "stored", algorithm = "target_node_priority"
  PROVE  ScheduleIs
<1> SUFFICES IsFiniteSet(Entries) /\ \A x \in Entries : IsEntry(x)
  BY DEF ScheduleIs
<1>1. given \in Seq(TaskSpace) /\ Requested
  BY Zenon DEF CppInv, Requested
<1>2. Len(given) \in Nat /\ DOMAIN given = 1..Len(given)
  BY <1>1
<1>3. \A k \in 1..Len(given) : given[k].period \in Nat /\ given[k].runtime \in Nat /\ given[k].target \in Nat
  <2>1. \A k \in 1..Len(given) : given[k] \in TaskSpace
    BY <1>1
  <2> QED  BY <2>1, TaskAssumption
<1>4. \A v \in Nat : (kNsToUs * v) \div kNsToUs = v
  BY DEF kNsToUs
<1>5. ASSUME NEW k, NEW p, NEW r, NEW c, NEW n
      PROVE  /\ sched_task(k, p, r, c, n).id = k /\ sched_task(k, p, r, c, n).period_ns = kNsToUs * p
             /\ sched_task(k, p, r, c, n).runtime_ns = kNsToUs * r
             /\ sched_task(k, p, r, c, n).cpu = c /\ sched_task(k, p, r, c, n).node = n
  BY ZenonT(60) DEF sched_task
<1>6. CASE workload_id = "Apex.OS"
  <2> DEFINE items == [k \in DOMAIN given |-> sched_task(k, given[k].period, 0, given[k].affinity, given[k].target)]
  <2>1. sched_info_map_ = GroupByNode(items)
    BY <1>6, ZenonT(60) DEF CppInv, ApexSchedule
  <2>2. /\ DOMAIN items = 1..Len(given)
        /\ \A k \in 1..Len(given) : items[k] = sched_task(k, given[k].period, 0, given[k].affinity, given[k].target)
    BY <1>2
  <2> HIDE DEF items
  <2>3. /\ IsFiniteSet(Entries)
        /\ \A x \in Entries : /\ x[2] \in DOMAIN items /\ x = <<x[1], x[2]>> /\ x[1] = items[x[2]].node
                              /\ Entry(x) = items[x[2]]
    <3>1. DOMAIN items \subseteq 1..Len(given)
      BY <2>2
    <3> QED  BY <1>2, <2>1, <3>1, Grouped, Zenon
  <2>4. ASSUME NEW x \in Entries PROVE IsEntry(x)
    <3> DEFINE k == x[2]
    <3>1. k \in 1..Len(given) /\ k \in Nat /\ x = <<x[1], k>>
      BY <1>2, <2>2, <2>3
    <3> HIDE DEF k
    <3>2. Entry(x) = sched_task(k, given[k].period, 0, given[k].affinity, given[k].target) /\ x[1] = Entry(x).node
      BY <2>2, <2>3, <3>1, ZenonT(60) DEF k
    <3>3. /\ Entry(x).id = k /\ Entry(x).node = given[k].target
          /\ Entry(x).period_ns = kNsToUs * given[k].period /\ Entry(x).runtime_ns = kNsToUs * 0
      BY <1>5, <3>2
    <3>4. Entry(x).period_ns \div kNsToUs = given[k].period /\ Entry(x).runtime_ns \div kNsToUs = 0
      BY <1>3, <1>4, <3>1, <3>3, ZenonT(60)
    <3>5. x[1] \in Nat
      BY <1>3, <3>1, <3>2, <3>3, ZenonT(60)
    <3> QED  BY <1>6, <3>1, <3>2, <3>3, <3>4, <3>5, Zenon DEF IsEntry, k
  <2> QED  BY <2>3, <2>4, ZenonT(60)
<1>7. CASE workload_id # "Apex.OS"
  <2> DEFINE T == {j \in DOMAIN tasks_ : tasks_[j].node # NoNode}
             items == [k \in T |-> sched_task(tasks_[k].id, tasks_[k].period, tasks_[k].runtime,
                                              tasks_[k].cpu, tasks_[k].node)]
  <2>1. sched_info_map_ = GroupByNode(items) /\ LoopInv
    BY <1>7, ZenonT(60) DEF CppInv, generate_schedules
  <2>2. DOMAIN tasks_ = 1..Len(given)
    BY <1>1, <2>1, LoopFacts, ZenonT(60)
  <2>3. \A k \in 1..Len(given) : /\ tasks_[k] = CppTask(k, tasks_[k].node, tasks_[k].cpu)
                                 /\ tasks_[k].node \in {NoNode, given[k].target}
    BY <1>2, <2>1, Zenon DEF LoopInv, PlacedOnTarget
  <2>4. \A k \in 1..Len(given) : /\ tasks_[k].id = k /\ tasks_[k].period = given[k].period
                                 /\ tasks_[k].runtime = given[k].runtime
    <3>1. \A k, n, c : /\ CppTask(k, n, c).id = k /\ CppTask(k, n, c).period = given[k].period
                       /\ CppTask(k, n, c).runtime = given[k].runtime
      BY ZenonT(60) DEF CppTask
    <3> QED  BY <2>3, <3>1
  <2>5. /\ DOMAIN items = T /\ \A k \in T : k \in 1..Len(given) /\ tasks_[k].node = given[k].target /\ given[k].target # NoNode
        /\ \A k \in T : items[k] = sched_task(k, given[k].period, given[k].runtime, tasks_[k].cpu, tasks_[k].node)
    BY <2>2, <2>3, <2>4, ZenonT(60)
  <2> HIDE DEF items, T
  <2>6. /\ IsFiniteSet(Entries)
        /\ \A x \in Entries : /\ x[2] \in DOMAIN items /\ x = <<x[1], x[2]>> /\ x[1] = items[x[2]].node
                              /\ Entry(x) = items[x[2]]
    <3>1. DOMAIN items \subseteq 1..Len(given)
      BY <2>5, ZenonT(60)
    <3> QED  BY <1>2, <2>1, <3>1, Grouped, Zenon
  <2>7. ASSUME NEW x \in Entries PROVE IsEntry(x)
    <3> DEFINE k == x[2]
    <3>1. k \in T /\ k \in 1..Len(given) /\ k \in Nat /\ x = <<x[1], k>>
      BY <1>2, <2>5, <2>6
    <3> HIDE DEF k
    <3>2. /\ Entry(x) = sched_task(k, given[k].period, given[k].runtime, tasks_[k].cpu, tasks_[k].node)
          /\ x[1] = Entry(x).node
      BY <2>5, <2>6, <3>1, ZenonT(60) DEF k
    <3>3. /\ Entry(x).id = k /\ Entry(x).node = tasks_[k].node /\ Entry(x).cpu = tasks_[k].cpu
          /\ Entry(x).period_ns = kNsToUs * given[k].period /\ Entry(x).runtime_ns = kNsToUs * given[k].runtime
      BY <1>5, <3>2
    <3>4. /\ Entry(x).period_ns \div kNsToUs = given[k].period
          /\ Entry(x).runtime_ns \div kNsToUs = given[k].runtime
      BY <1>3, <1>4, <3>1, <3>3, ZenonT(60)
    <3>5. x[1] \in Nat /\ tasks_[k].node = x[1] /\ x[1] # NoNode
      BY <1>3, <2>5, <3>1, <3>2, <3>3
    <3> QED  BY <1>7, <3>1, <3>2, <3>3, <3>4, <3>5, Zenon DEF IsEntry, k
  <2> QED  BY <2>6, <2>7
<1> QED  BY <1>6, <1>7

\* The walk through the map is a strict order.
LEMMA WalkIsOrdered ==
  ASSUME ScheduleIs
  PROVE  /\ \A x, y \in Entries : x = y \/ Before(x, y) \/ Before(y, x)
         /\ \A x, y \in Entries : Before(x, y) => x # y /\ ~Before(y, x)
         /\ \A x, y, z \in Entries : Before(x, y) /\ Before(y, z) => Before(x, z)
<1>1. \A x \in Entries : x = <<x[1], x[2]>> /\ x[1] \in Nat /\ x[2] \in Nat
  BY Zenon DEF ScheduleIs, IsEntry
<1>2. ASSUME NEW x \in Entries, NEW y \in Entries PROVE x = y \/ Before(x, y) \/ Before(y, x)
  <2> DEFINE a == x[1]
             b == x[2]
             c == y[1]
             d == y[2]
  <2>1. x = <<a, b>> /\ y = <<c, d>> /\ a \in Nat /\ b \in Nat /\ c \in Nat /\ d \in Nat
    BY <1>1
  <2>2. (a < c \/ (a = c /\ b < d) => Before(x, y)) /\ (c < a \/ (c = a /\ d < b) => Before(y, x))
    BY DEF Before
  <2> HIDE DEF a, b, c, d
  <2>3. a < c \/ (a = c /\ b < d) \/ c < a \/ (c = a /\ d < b) \/ (a = c /\ b = d)
    BY <2>1
  <2> QED  BY <2>1, <2>2, <2>3, ZenonT(60)
<1>3. \A x, y \in Entries : Before(x, y) => x # y /\ ~Before(y, x)
  BY <1>1 DEF Before
<1>4. \A x, y, z \in Entries : Before(x, y) /\ Before(y, z) => Before(x, z)
  BY <1>1 DEF Before
<1> QED  BY <1>2, <1>3, <1>4, ZenonT(60)

\* The rank is a position in it, and no two entries share one.
LEMMA RankIsPosition ==
  ASSUME ScheduleIs
  PROVE  /\ Cardinality(Entries) \in Nat
         /\ \A x \in Entries : Rank(x) \in 1..Cardinality(Entries)
         /\ \A x, y \in Entries : Rank(x) = Rank(y) => x = y
<1> DEFINE Up(x) == {y \in Entries : y = x \/ Before(y, x)}
<1>1. IsFiniteSet(Entries) /\ Cardinality(Entries) \in Nat
  BY FS_CardinalityType, Zenon DEF ScheduleIs
<1>2. ASSUME NEW x PROVE Up(x) \in SUBSET Entries /\ IsFiniteSet(Up(x)) /\ Cardinality(Up(x)) \in Nat
                         /\ Cardinality(Up(x)) <= Cardinality(Entries) /\ Rank(x) = Cardinality(Up(x))
  <2>1. Up(x) \in SUBSET Entries /\ Rank(x) = Cardinality(Up(x))
    BY Zenon DEF Rank
  <2> HIDE DEF Up
  <2>2. IsFiniteSet(Up(x)) /\ Cardinality(Up(x)) <= Cardinality(Entries)
    BY <1>1, <2>1, FS_Subset, ZenonT(60)
  <2> QED  BY <2>1, <2>2, FS_CardinalityType, Zenon
<1>3. ASSUME NEW x \in Entries PROVE Rank(x) \in 1..Cardinality(Entries)
  <2>1. Up(x) # {}
    BY Zenon
  <2> HIDE DEF Up
  <2>2. Cardinality(Up(x)) # 0
    BY <1>2, <2>1, FS_EmptySet, Zenon
  <2> QED  BY <1>1, <1>2, <2>2
<1>4. ASSUME NEW x \in Entries, NEW y \in Entries, Before(x, y) PROVE Rank(x) # Rank(y)
  <2>1. Up(x) \subseteq Up(y) /\ y \in Up(y) /\ y \notin Up(x)
    BY <1>4, WalkIsOrdered, Zenon
  <2> HIDE DEF Up
  <2>2. Cardinality(Up(y)) = Cardinality(Up(x)) => Up(y) = Up(x)
    BY <1>2, <2>1, FS_Subset, Zenon
  <2> QED  BY <1>2, <2>1, <2>2, Zenon
<1>5. \A x, y \in Entries : Rank(x) = Rank(y) => x = y
  <2> HIDE DEF Up
  <2> QED  BY <1>4, WalkIsOrdered, Zenon
<1> QED  BY <1>1, <1>3, <1>5, ZenonT(60)

\* The least entry still to do comes right after those that are done.
LEMMA LeastIsNext ==
  ASSUME ScheduleIs, todo \subseteq Entries, \A x \in Entries \ todo, y \in todo : Before(x, y),
         NEW x \in todo, \A y \in todo \ {x} : Before(x, y)
  PROVE  /\ Packed \in Nat /\ Rank(x) = Packed + 1
         /\ Cardinality(Entries \ (todo \ {x})) = Packed + 1
         /\ \A z \in Entries \ (todo \ {x}), y \in todo \ {x} : Before(z, y)
<1> DEFINE done == Entries \ todo
<1>1. IsFiniteSet(done) /\ Packed = Cardinality(done)
  <2>1. done \in SUBSET Entries /\ IsFiniteSet(Entries)
    BY Zenon DEF ScheduleIs
  <2> QED  BY <2>1, FS_Subset DEF Packed
<1>2. {y \in Entries : y = x \/ Before(y, x)} = done \cup {x}
  <2>1. \A y \in Entries : y = x \/ Before(y, x) => y \in done \cup {x}
    BY WalkIsOrdered, Zenon
  <2>2. x \in Entries /\ \A y \in done : Before(y, x)
    OBVIOUS
  <2> QED  BY <2>1, <2>2, Zenon
<1>3. Entries \ (todo \ {x}) = done \cup {x} /\ x \notin done
  BY Zenon
<1>4. \A z \in Entries \ (todo \ {x}), y \in todo \ {x} : Before(z, y)
  BY Zenon
<1> HIDE DEF done
<1>5. Cardinality(done) \in Nat /\ Cardinality(done \cup {x}) = Cardinality(done) + 1
  BY <1>1, <1>3, FS_AddElement, FS_CardinalityType, ZenonT(60)
<1>6. Rank(x) = Cardinality(done \cup {x})
  BY <1>2, Zenon DEF Rank
<1> QED  BY <1>1, <1>3, <1>4, <1>5, <1>6, ZenonT(60)

---------------------------------------------------------------------------
(* The steps of the wire                                                   *)

\* A step of the wire leaves the schedule alone.
LEMMA ScheduleIsKept ==
  ASSUME UNCHANGED <<vars, cppVars>>
  PROVE  /\ UNCHANGED <<status, algorithm, workload_id, given, tasks_, sched_info_map_>>
         /\ Entries' = Entries /\ Header' = Header
         /\ \A x : Entry(x)' = Entry(x) /\ Rank(x)' = Rank(x)
<1>1. UNCHANGED <<status, algorithm, workload_id, given, tasks_, sched_info_map_>>
  BY Zenon DEF vars, cppVars
<1>2. Entries' = Entries /\ Header' = Header
  BY <1>1, ZenonT(60) DEF Entries, Header
<1>3. \A x : Entry(x)' = Entry(x)
  BY <1>1, ZenonT(60) DEF Entry
<1>4. \A x : Rank(x)' = Rank(x)
  BY <1>2, ZenonT(60) DEF Rank
<1> QED  BY <1>1, <1>2, <1>3, <1>4, ZenonT(60)

\* A block that is not touched is still there.
LEMMA BlocksAreKept ==
  ASSUME NEW l \in Nat, NEW m \in Nat, m <= l, Holds(l), UNCHANGED <<vars, cppVars>>,
         Len(buf'.cells) \in Nat, Len(buf'.cells) >= 2 + 10 * m, \A k \in 1..(2 + 10 * m) : buf'.cells[k] = buf.cells[k]
  PROVE  Holds(m)'
<1>1. /\ buf.cells[1] = Header[1] /\ buf.cells[2] = Header[2]
      /\ \A i \in 1..l : \E x \in Entries :
           Rank(x) = i /\ \A j \in 1..10 : buf.cells[2 + 10 * (i - 1) + j] = TaskCells(Entry(x))[j]
  BY Zenon DEF Holds
<1>2. buf'.cells[1] = Header'[1] /\ buf'.cells[2] = Header'[2]
  <2>1. 1 \in 1..(2 + 10 * m) /\ 2 \in 1..(2 + 10 * m)
    OBVIOUS
  <2> QED  BY <1>1, <2>1, ScheduleIsKept, ZenonT(60)
<1>3. ASSUME NEW i \in 1..m
      PROVE  \E x \in Entries' : /\ Rank(x)' = i
                                 /\ \A j \in 1..10 : buf'.cells[2 + 10 * (i - 1) + j] = TaskCells(Entry(x)')[j]
  <2>1. i \in 1..l
    OBVIOUS
  <2>2. PICK x \in Entries :
          Rank(x) = i /\ \A j \in 1..10 : buf.cells[2 + 10 * (i - 1) + j] = TaskCells(Entry(x))[j]
    BY <1>1, <2>1, Zenon
  <2>3. \A j \in 1..10 : 2 + 10 * (i - 1) + j \in 1..(2 + 10 * m)
    OBVIOUS
  <2>4. \A j \in 1..10 : buf'.cells[2 + 10 * (i - 1) + j] = TaskCells(Entry(x))[j]
    BY <2>2, <2>3, Zenon
  <2>5. x \in Entries' /\ Rank(x)' = i /\ Entry(x)' = Entry(x)
    BY <2>2, ScheduleIsKept, Zenon
  <2>6. TaskCells(Entry(x)') = TaskCells(Entry(x))
    BY <2>5, Zenon
  <2> QED  BY <2>4, <2>5, <2>6, Zenon
<1> QED  BY <1>2, <1>3, ZenonT(60) DEF Holds

\* The processes of a node are not touched either.
LEMMA BoundIsKept ==
  ASSUME BoundAsSent, UNCHANGED <<vars, cppVars, tt_list>>
  PROVE  BoundAsSent'
<1>1. tt_list' = tt_list
  OBVIOUS
<1> QED  BY <1>1, ScheduleIsKept DEF BoundAsSent, set_affinity

\* SerializeSchedInfo begins with the header.
LEMMA HeaderStep == WireInv /\ CppInv /\ SerializeSchedInfo => WireInv'
<1> SUFFICES ASSUME WireInv, CppInv, SerializeSchedInfo PROVE WireInv'
  BY Zenon
<1>1. /\ status = "stored" /\ algorithm = "target_node_priority" /\ stage = "none" /\ stage' = "packing"
      /\ buf' = PushAll(buf, Header) /\ todo' = Entries /\ UNCHANGED <<vars, cppVars, tt_list>> /\ UNCHANGED tinfos
  BY Zenon DEF SerializeSchedInfo, Header
<1>2. IsBuffer(buf) /\ buf.cells = <<>> /\ tinfos = <<>> /\ BoundAsSent /\ tt_list = [n \in Nodes |-> {}]
  BY <1>1, Zenon DEF WireInv
<1>3. OnTop(buf', buf, Header, 2)
  BY <1>1, <1>2, HeaderFits, PushAllIsOnTop, Zenon
<1>4. IsBuffer(buf)' /\ Len(buf'.cells) = 2 /\ buf'.cells[1] = Header[1] /\ buf'.cells[2] = Header[2]
  <2>1. Len(buf.cells) = 0
    BY <1>2
  <2>2. IsBuffer(buf') /\ Len(buf'.cells) = 0 + 2 /\ \A j \in 1..2 : buf'.cells[0 + j] = Header[j]
    BY <1>3, <2>1, ZenonT(60) DEF OnTop
  <2>3. buf'.cells[0 + 1] = Header[1] /\ buf'.cells[0 + 2] = Header[2]
    BY <2>2
  <2>4. IsBuffer(buf)'
    BY <2>2, Zenon DEF IsBuffer
  <2> QED  BY <2>2, <2>3, <2>4
<1>5. Packed' = 0 /\ todo' \subseteq Entries' /\ Entries' \ todo' = {}
  <2>1. Entries' \ todo' = {} /\ todo' \subseteq Entries'
    BY <1>1, ScheduleIsKept, ZenonT(60)
  <2> QED  BY <2>1, FS_EmptySet, Zenon DEF Packed
<1>6. Holds(Packed)'
  BY <1>1, <1>4, <1>5, ScheduleIsKept DEF Holds
<1>7. BoundAsSent'
  BY <1>1, <1>2, BoundIsKept, ZenonT(60)
<1>8. /\ stage' = "packing" /\ status' = "stored" /\ algorithm' = "target_node_priority"
      /\ tinfos' = <<>> /\ tt_list' = [n \in Nodes |-> {}]
  BY <1>1, <1>2, ScheduleIsKept, ZenonT(60)
<1>9. Len(buf'.cells) = 2 + 10 * Packed' /\ \A x \in (Entries \ todo)', y \in todo' : Before(x, y)'
  BY <1>4, <1>5
<1> QED  BY <1>4, <1>5, <1>6, <1>7, <1>8, <1>9, ZenonT(60) DEF WireInv

\* SerializeSchedInfo packs the next entry of the walk.
LEMMA PackStep == WireInv /\ CppInv /\ SerializeTask => WireInv'
<1> SUFFICES ASSUME WireInv, CppInv, SerializeTask PROVE WireInv'
  OBVIOUS
<1>1. PICK x \in todo : /\ \A y \in todo \ {x} : Before(x, y)
                        /\ buf' = PushAll(buf, TaskCells(Entry(x))) /\ todo' = todo \ {x}
  BY Zenon DEF SerializeTask
<1>2. stage = "packing" /\ stage' = "packing" /\ UNCHANGED <<vars, cppVars, tt_list>> /\ UNCHANGED tinfos
  BY Zenon DEF SerializeTask
<1>3. /\ IsBuffer(buf) /\ status = "stored" /\ algorithm = "target_node_priority"
      /\ todo \subseteq Entries /\ \A z \in Entries \ todo, y \in todo : Before(z, y)
      /\ Len(buf.cells) = 2 + 10 * Packed /\ Holds(Packed) /\ tinfos = <<>>
      /\ BoundAsSent /\ tt_list = [n \in Nodes |-> {}]
  BY <1>2, ZenonT(60) DEF WireInv
<1>4. ScheduleIs
  BY <1>3, EntriesAre
<1>5. /\ Packed \in Nat /\ Rank(x) = Packed + 1
      /\ Cardinality(Entries \ (todo \ {x})) = Packed + 1
      /\ \A z \in Entries \ (todo \ {x}), y \in todo \ {x} : Before(z, y)
  BY <1>1, <1>3, <1>4, LeastIsNext, Zenon
<1>6. Entries' = Entries /\ Packed' = Packed + 1 /\ x \in Entries
  <2>1. Entries' = Entries
    BY <1>2, ScheduleIsKept, ZenonT(60)
  <2> QED  BY <1>1, <1>3, <1>5, <2>1, ZenonT(60) DEF Packed
<1>0. PICK m \in Nat : m = Packed
  BY <1>5, ZenonT(60)
<1>00. PICK cells : cells = TaskCells(Entry(x))
  OBVIOUS
<1>7. OnTop(buf', buf, cells, 10)
  BY <1>00, <1>1, <1>3, TaskCellsFit, PushAllIsOnTop, Zenon
<1>8. /\ IsBuffer(buf)' /\ Len(buf'.cells) = 2 + 10 * (m + 1) /\ Len(buf'.cells) \in Nat
      /\ \A k \in 1..(2 + 10 * m) : buf'.cells[k] = buf.cells[k]
      /\ \A j \in 1..10 : buf'.cells[2 + 10 * m + j] = cells[j]
  <2>1. /\ IsBuffer(buf') /\ Len(buf'.cells) = (2 + 10 * m) + 10
        /\ \A k \in 1..(2 + 10 * m) : buf'.cells[k] = buf.cells[k]
        /\ \A j \in 1..10 : buf'.cells[(2 + 10 * m) + j] = cells[j]
    BY <1>0, <1>3, <1>7, ZenonT(60) DEF OnTop
  <2>2. IsBuffer(buf)'
    BY <2>1, ZenonT(60) DEF IsBuffer
  <2>3. (2 + 10 * m) + 10 = 2 + 10 * (m + 1) /\ 2 + 10 * (m + 1) \in Nat
    OBVIOUS
  <2> QED  BY <2>1, <2>2, <2>3, ZenonT(60)
<1>9. Holds(m + 1)'
  <2>1. Holds(m)'
    <3>1. Len(buf'.cells) >= 2 + 10 * m /\ m <= m /\ Holds(m)
      BY <1>0, <1>3, <1>8
    <3> QED  BY <1>2, <1>8, <3>1, BlocksAreKept, ZenonT(60)
  <2>2. /\ buf'.cells[1] = Header'[1] /\ buf'.cells[2] = Header'[2]
        /\ \A i \in 1..m : \E z \in Entries' :
             Rank(z)' = i /\ \A j \in 1..10 : buf'.cells[2 + 10 * (i - 1) + j] = TaskCells(Entry(z)')[j]
    BY <2>1, Zenon DEF Holds
  <2>3. Rank(x)' = m + 1 /\ x \in Entries' /\ TaskCells(Entry(x)') = cells
    <3>1. Rank(x)' = Rank(x) /\ Entry(x)' = Entry(x)
      BY <1>2, ScheduleIsKept, ZenonT(60)
    <3> QED  BY <1>0, <1>00, <1>5, <1>6, <3>1, ZenonT(60)
  <2>5. ASSUME NEW i \in 1..(m + 1)
        PROVE  \E z \in Entries' :
                 Rank(z)' = i /\ \A j \in 1..10 : buf'.cells[2 + 10 * (i - 1) + j] = TaskCells(Entry(z)')[j]
    <3>1. CASE i = m + 1
      <4>1. \A j \in 1..10 : 2 + 10 * (i - 1) + j = 2 + 10 * m + j
        BY <3>1
      <4>2. \A j \in 1..10 : buf'.cells[2 + 10 * (i - 1) + j] = cells[j]
        BY <1>8, <4>1, Zenon
      <4> QED  BY <2>3, <3>1, <4>2, ZenonT(60)
    <3>2. CASE i # m + 1
      <4>1. i \in 1..m
        BY <3>2
      <4> QED  BY <2>2, <4>1, ZenonT(60)
    <3> QED  BY <3>1, <3>2, ZenonT(60)
  <2>6. Len(buf'.cells) >= 2 + 10 * (m + 1)
    BY <1>8
  <2> QED  BY <2>2, <2>5, <2>6, Zenon DEF Holds
<1>10. Holds(Packed)'
  BY <1>0, <1>6, <1>9, ZenonT(60) DEF Holds
<1>11. BoundAsSent'
  BY <1>2, <1>3, BoundIsKept, ZenonT(60)
<1>12. todo' \subseteq Entries' /\ \A z \in Entries' \ todo', y \in todo' : Before(z, y)
  BY <1>1, <1>3, <1>5, <1>6, ZenonT(60)
<1>13. Len(buf'.cells) = 2 + 10 * Packed'
  BY <1>0, <1>6, <1>8, ZenonT(60)
<1> QED  BY <1>2, <1>3, <1>8, <1>10, <1>11, <1>12, <1>13, ScheduleIsKept, ZenonT(60) DEF WireInv

\* SerializeSchedInfo ends with nr_tasks.
LEMMA CountStep == WireInv /\ CppInv /\ SerializeEnd => WireInv'
<1> SUFFICES ASSUME WireInv, CppInv, SerializeEnd PROVE WireInv'
  OBVIOUS
<1>0. PICK N : N = Cardinality(Entries)
  BY Zenon
<1>00. PICK c : c = Cell("int32", "nr_tasks", N)
  BY Zenon
<1>1. /\ stage = "packing" /\ stage' = "sent" /\ todo = {} /\ buf' = Push(buf, c)
      /\ UNCHANGED <<vars, cppVars, tt_list>> /\ UNCHANGED tinfos
  BY <1>0, <1>00, ZenonT(60) DEF SerializeEnd
<1>2. /\ IsBuffer(buf) /\ status = "stored" /\ algorithm = "target_node_priority"
      /\ Len(buf.cells) = 2 + 10 * Packed /\ Holds(Packed) /\ tinfos = <<>>
      /\ BoundAsSent /\ tt_list = [n \in Nodes |-> {}]
  BY <1>1, ZenonT(60) DEF WireInv
<1>3. N \in Nat /\ Packed = N
  <2>1. Entries \ todo = Entries
    BY <1>1, ZenonT(60)
  <2> QED  BY <1>0, <1>2, <2>1, EntriesAre, RankIsPosition, Zenon DEF Packed
<1>4. OnTop(buf', buf, <<c>>, 1)
  <2>1. Bytes(c) \in Nat
    BY <1>00, ZenonT(60) DEF Bytes, Cell
  <2> QED  BY <1>1, <1>2, <2>1, PushIsOnTop, ZenonT(60)
<1>5. /\ IsBuffer(buf)' /\ Len(buf'.cells) = 3 + 10 * N /\ buf'.cells[Len(buf'.cells)] = c
      /\ \A k \in 1..(2 + 10 * N) : buf'.cells[k] = buf.cells[k]
  <2>1. /\ IsBuffer(buf') /\ Len(buf'.cells) = (2 + 10 * N) + 1
        /\ \A k \in 1..(2 + 10 * N) : buf'.cells[k] = buf.cells[k]
        /\ \A j \in 1..1 : buf'.cells[(2 + 10 * N) + j] = <<c>>[j]
    BY <1>2, <1>3, <1>4, ZenonT(60) DEF OnTop
  <2>2. IsBuffer(buf)'
    BY <2>1, ZenonT(60) DEF IsBuffer
  <2>3. (2 + 10 * N) + 1 = 3 + 10 * N
    BY <1>3
  <2>4. buf'.cells[(2 + 10 * N) + 1] = c
    BY <2>1
  <2> QED  BY <2>1, <2>2, <2>3, <2>4, ZenonT(60)
<1>6. Holds(N)'
  <2>1. Len(buf'.cells) >= 2 + 10 * N /\ N <= N /\ Len(buf'.cells) \in Nat
    BY <1>3, <1>5
  <2>2. Holds(N)
    BY <1>2, <1>3
  <2> QED  BY <1>1, <1>3, <1>5, <2>1, <2>2, BlocksAreKept, ZenonT(60)
<1>7. BoundAsSent'
  BY <1>1, <1>2, BoundIsKept, ZenonT(60)
<1>8. Cardinality(Entries)' = N /\ Holds(Cardinality(Entries))' /\ Cell("int32", "nr_tasks", Cardinality(Entries)') = c
  <2>1. Cardinality(Entries)' = N
    BY <1>0, <1>1, ScheduleIsKept, ZenonT(60)
  <2> QED  BY <1>00, <1>6, <2>1, ZenonT(60) DEF Holds
<1> QED  BY <1>1, <1>2, <1>5, <1>7, <1>8, ScheduleIsKept, ZenonT(60) DEF WireInv

\* Cells of which n can be popped and l are left.
CanPop(s, l, n) ==
  /\ s \in Seq(Range(s)) /\ l \in Nat /\ n \in Nat /\ Len(s) = l + n
  /\ (\A i \in 1..Len(s) : Bytes(s[i]) \in Nat) /\ BytesOf(s) \in Nat

\* What is left of a buffer when its topmost n cells are popped.
LEMMA PopKeepsTheAccounts ==
  ASSUME NEW s, NEW l \in Nat, NEW n \in Nat, CanPop(s, l, n), NEW size \in Nat, BytesOf(s) <= size
  PROVE  /\ Len(SubSeq(s, 1, l)) = l /\ \A k \in 1..l : SubSeq(s, 1, l)[k] = s[k]
         /\ Len(SubSeq(s, l + 1, l + n)) = n /\ \A j \in 1..n : SubSeq(s, l + 1, l + n)[j] = s[l + j]
         /\ IsBuffer([cells |-> SubSeq(s, 1, l), pos |-> BytesOf(s) - BytesOf(SubSeq(s, l + 1, l + n)), size |-> size])
<1> USE DEF CanPop
<1> DEFINE a == SubSeq(s, 1, l)
           b == SubSeq(s, l + 1, l + n)
<1>1. /\ a \in Seq(Range(s)) /\ Len(a) = l /\ (\A k \in 1..l : a[k] = s[k])
      /\ b \in Seq(Range(s)) /\ Len(b) = n /\ (\A j \in 1..n : b[j] = s[l + j])
  <2>1. l \in 0..Len(s) /\ l + n \in 0..Len(s) /\ l + 1 \in 1..(Len(s) + 1)
    OBVIOUS
  <2>2. /\ a = [k \in 1..l |-> s[k]] /\ b = [j \in 1..n |-> s[l + j]]
    <3>1. (1 + l - 1 = l) /\ ((l + n) - (l + 1)) + 1 = n /\ \A j \in 1..n : (l + 1) + j - 1 = l + j
      OBVIOUS
    <3> QED  BY <2>1, <3>1
  <2>3. \A i \in 1..Len(s) : s[i] \in Range(s)
    OBVIOUS
  <2> HIDE DEF a, b
  <2>4. a \in [1..l -> Range(s)] /\ b \in [1..n -> Range(s)]
    BY <2>2, <2>3
  <2> QED  BY <2>2, <2>4
<1> HIDE DEF a, b
<1>2. Joins(s, a, l, b, n)
  <2>1. DOMAIN s = 1..(l + n) /\ DOMAIN a = 1..l /\ DOMAIN b = 1..n
    BY <1>1
  <2> QED  BY <1>1, <2>1, ZenonT(60) DEF Joins
<1>3. BytesOf(s) = BytesOf(a) + BytesOf(b) /\ BytesOf(a) \in Nat /\ BytesOf(b) \in Nat
  BY <1>2, BytesSplit, Zenon
<1>4. BytesOf(s) - BytesOf(b) = BytesOf(a) /\ BytesOf(a) <= size
  BY <1>3
<1>5. a \in Seq(Range(a))
  BY <1>1, SeqOfItsOwn, ZenonT(60)
<1>6. \A i \in 1..Len(a) : Bytes(a[i]) \in Nat
  BY <1>1
<1> DEFINE r == [cells |-> a, pos |-> BytesOf(s) - BytesOf(b), size |-> size]
<1>7. r.cells = a /\ r.pos = BytesOf(a) /\ r.size = size /\ r = [cells |-> r.cells, pos |-> r.pos, size |-> r.size]
  BY <1>4, ZenonT(60)
<1> HIDE DEF r
<1>8. IsBuffer(r)
  BY <1>3, <1>4, <1>5, <1>6, <1>7, ZenonT(60) DEF IsBuffer
<1> QED  BY <1>1, <1>8, Zenon DEF a, b, r

\* The topmost cell.
LEMMA TopIs ==
  ASSUME NEW s, s \in Seq(Range(s)), NEW l \in Nat, Len(s) = l + 1
  PROVE  SubSeq(s, l + 1, l + 1) = <<s[l + 1]>>
<1>1. l + 1 \in 1..Len(s)
  OBVIOUS
<1>2. SubSeq(s, l + 1, l + 1) = [j \in 1..1 |-> s[l + j]]
  BY <1>1
<1>3. [j \in 1..1 |-> s[l + j]] = <<s[l + 1]>>
  OBVIOUS
<1> QED  BY <1>2, <1>3, Zenon

\* get_sched_info pops nr_tasks.
LEMMA PopCountStep == WireInv /\ CppInv /\ get_sched_info => WireInv'
<1> SUFFICES ASSUME WireInv, CppInv, get_sched_info PROVE WireInv'
  OBVIOUS
<1>0. PICK N : N = Cardinality(Entries)
  OBVIOUS
<1>1. /\ stage = "sent" /\ stage' = "decoding" /\ left' = buf.cells[Len(buf.cells)].is[2]
      /\ buf' = [cells |-> SubSeq(buf.cells, 1, Len(buf.cells) - 1),
                 pos |-> buf.pos - Bytes(buf.cells[Len(buf.cells)]), size |-> buf.pos]
      /\ UNCHANGED <<vars, cppVars, tt_list>> /\ UNCHANGED tinfos
  BY Zenon DEF get_sched_info
<1>2. /\ IsBuffer(buf) /\ status = "stored" /\ algorithm = "target_node_priority"
      /\ Len(buf.cells) = 3 + 10 * N /\ Holds(N) /\ tinfos = <<>>
      /\ buf.cells[Len(buf.cells)] = Cell("int32", "nr_tasks", N)
      /\ BoundAsSent /\ tt_list = [n \in Nodes |-> {}]
  BY <1>0, <1>1, ZenonT(60) DEF WireInv
<1>3. N \in Nat
  BY <1>0, <1>2, EntriesAre, RankIsPosition, ZenonT(60)
<1>4. left' = N
  BY <1>1, <1>2 DEF Cell
<1> DEFINE s == buf.cells
           l == 2 + 10 * N
<1>5. /\ s \in Seq(Range(s)) /\ Len(s) = l + 1 /\ l \in Nat /\ (\A i \in 1..Len(s) : Bytes(s[i]) \in Nat)
      /\ buf.pos = BytesOf(s) /\ buf.pos \in Nat /\ buf.pos <= buf.pos
  BY <1>2, <1>3 DEF IsBuffer
<1>6. /\ Len(SubSeq(s, 1, l)) = l /\ \A k \in 1..l : SubSeq(s, 1, l)[k] = s[k]
      /\ SubSeq(s, l + 1, l + 1) = <<s[l + 1]>>
      /\ IsBuffer([cells |-> SubSeq(s, 1, l), pos |-> BytesOf(s) - BytesOf(SubSeq(s, l + 1, l + 1)), size |-> buf.pos])
  <2>1. CanPop(s, l, 1) /\ BytesOf(s) <= buf.pos /\ buf.pos \in Nat /\ l \in Nat
    BY <1>5, Zenon DEF CanPop
  <2> HIDE DEF s, l
  <2>2. Len(SubSeq(s, 1, l)) = l /\ \A k \in 1..l : SubSeq(s, 1, l)[k] = s[k]
    BY <2>1, PopKeepsTheAccounts, ZenonT(60)
  <2>3. SubSeq(s, l + 1, l + 1) = <<s[l + 1]>>
    BY <1>5, TopIs, ZenonT(60)
  <2>4. IsBuffer([cells |-> SubSeq(s, 1, l), pos |-> BytesOf(s) - BytesOf(SubSeq(s, l + 1, l + 1)), size |-> buf.pos])
    BY <2>1, PopKeepsTheAccounts, ZenonT(60)
  <2> QED  BY <2>2, <2>3, <2>4, Zenon
<1>7. BytesOf(SubSeq(s, l + 1, l + 1)) = Bytes(s[Len(s)])
  <2> HIDE DEF s, l
  <2>1. SubSeq(s, l + 1, l + 1) = <<s[l + 1]>>
    BY <1>6, Zenon
  <2>2. Bytes(s[l + 1]) \in Nat
    BY <1>5
  <2> QED  BY <1>5, <2>1, <2>2, BytesOfOne, Zenon
<1>8. /\ IsBuffer(buf)' /\ Len(buf'.cells) = 2 + 10 * N /\ Len(buf'.cells) \in Nat
      /\ \A k \in 1..(2 + 10 * N) : buf'.cells[k] = buf.cells[k]
  <2>1. Len(s) - 1 = l
    BY <1>5
  <2>2. buf' = [cells |-> SubSeq(s, 1, l), pos |-> BytesOf(s) - BytesOf(SubSeq(s, l + 1, l + 1)), size |-> buf.pos]
    BY <1>1, <1>5, <1>7, <2>1, Zenon
  <2>3. IsBuffer(buf') /\ buf'.cells = SubSeq(s, 1, l)
    BY <1>6, <2>2, Zenon
  <2>4. IsBuffer(buf)'
    BY <2>3, ZenonT(60) DEF IsBuffer
  <2>5. Len(buf'.cells) = l /\ l \in Nat /\ \A k \in 1..l : buf'.cells[k] = s[k]
    <3> HIDE DEF l, s
    <3> QED  BY <1>5, <1>6, <2>3, ZenonT(60)
  <2> QED  BY <2>4, <2>5, ZenonT(60)
<1>9. Holds(left)'
  <2>1. Holds(N)'
    <3>1. Len(buf'.cells) >= 2 + 10 * N /\ N <= N
      BY <1>3, <1>8
    <3> QED  BY <1>1, <1>2, <1>3, <1>8, <3>1, BlocksAreKept, Zenon
  <2> QED  BY <1>4, <2>1, Zenon DEF Holds
<1>10. Cardinality(Entries)' = N
  BY <1>0, <1>1, ScheduleIsKept, Zenon
<1>11. Popped(left)'
  <2>1. tinfos' = <<>> /\ Len(<<>>) = N - N
    BY <1>1, <1>2, <1>3
  <2>2. <<>> \in Seq(Range(<<>>))
    OBVIOUS
  <2> QED  BY <1>4, <1>10, <2>1, <2>2 DEF Popped
<1>12. BoundAsSent'
  BY <1>1, <1>2, BoundIsKept, ZenonT(60)
<1>13. left' \in 0..Cardinality(Entries)' /\ Len(buf'.cells) = 2 + 10 * left'
  BY <1>3, <1>4, <1>8, <1>10
<1> QED  BY <1>1, <1>2, <1>8, <1>9, <1>11, <1>12, <1>13, ScheduleIsKept, ZenonT(60) DEF WireInv

\* deserialize_sched_info pops a task.
LEMMA PopTaskStep == WireInv /\ CppInv /\ DecodeTask => WireInv'
<1> SUFFICES ASSUME WireInv, CppInv, DecodeTask PROVE WireInv'
  BY Zenon
<1>0. PICK N : N = Cardinality(Entries)
  BY Zenon
<1>1. /\ stage = "decoding" /\ left > 0 /\ left' = left - 1 /\ UNCHANGED <<vars, cppVars, tt_list>>
  BY Zenon DEF DecodeTask
<1>2. /\ IsBuffer(buf) /\ status = "stored" /\ algorithm = "target_node_priority"
      /\ left \in 0..N /\ Len(buf.cells) = 2 + 10 * left /\ Holds(left) /\ Popped(left)
      /\ BoundAsSent /\ tt_list = [n \in Nodes |-> {}]
  BY <1>0, <1>1, ZenonT(60) DEF WireInv
<1>3. N \in Nat
  BY <1>0, <1>2, EntriesAre, RankIsPosition, ZenonT(60)
<1>4. PICK m \in Nat : left = m + 1 /\ m + 1 <= N /\ left' = m
  <2>1. left - 1 \in Nat /\ left = (left - 1) + 1 /\ (left - 1) + 1 <= N
    BY <1>1, <1>2, <1>3
  <2> QED  BY <1>1, <2>1, ZenonT(60)
<1>5. PICK s : s = buf.cells
  OBVIOUS
<1>6. PICK l \in Nat : l = 2 + 10 * m
  OBVIOUS
<1>7. /\ s \in Seq(Range(s)) /\ Len(s) = l + 10 /\ (\A i \in 1..Len(s) : Bytes(s[i]) \in Nat)
      /\ buf.pos = BytesOf(s) /\ buf.pos \in Nat /\ buf.size \in Nat /\ buf.pos <= buf.size
  <2>1. Len(s) = l + 10
    <3>1. 2 + 10 * (m + 1) = l + 10
      BY <1>6
    <3> QED  BY <1>2, <1>4, <1>5, <3>1, ZenonT(60)
  <2> QED  BY <1>2, <1>5, <2>1, ZenonT(60) DEF IsBuffer
<1>8. PICK taken : taken = SubSeq(s, l + 1, l + 10)
  BY Zenon
<1>9. /\ Len(SubSeq(s, 1, l)) = l /\ \A k \in 1..l : SubSeq(s, 1, l)[k] = s[k]
      /\ Len(taken) = 10 /\ \A j \in 1..10 : taken[j] = s[l + j]
      /\ IsBuffer([cells |-> SubSeq(s, 1, l), pos |-> BytesOf(s) - BytesOf(taken), size |-> buf.size])
  <2>1. CanPop(s, l, 10) /\ BytesOf(s) <= buf.size /\ buf.size \in Nat
    BY <1>7, ZenonT(60) DEF CanPop
  <2>2. Len(SubSeq(s, 1, l)) = l /\ \A k \in 1..l : SubSeq(s, 1, l)[k] = s[k]
    BY <2>1, PopKeepsTheAccounts, ZenonT(60)
  <2>3. Len(SubSeq(s, l + 1, l + 10)) = 10 /\ \A j \in 1..10 : SubSeq(s, l + 1, l + 10)[j] = s[l + j]
    BY <2>1, PopKeepsTheAccounts
  <2>4. IsBuffer([cells |-> SubSeq(s, 1, l), pos |-> BytesOf(s) - BytesOf(SubSeq(s, l + 1, l + 10)), size |-> buf.size])
    BY <2>1, PopKeepsTheAccounts, ZenonT(60)
  <2> QED  BY <1>8, <2>2, <2>3, <2>4, ZenonT(60)
<1>10. PICK x \in Entries : Rank(x) = m + 1 /\ \A j \in 1..10 : s[l + j] = TaskCells(Entry(x))[j]
  <2>1. PICK x \in Entries :
          Rank(x) = m + 1 /\ \A j \in 1..10 : buf.cells[2 + 10 * ((m + 1) - 1) + j] = TaskCells(Entry(x))[j]
    <3>1. Holds(m + 1) /\ m + 1 \in 1..(m + 1)
      BY <1>2, <1>4
    <3> QED  BY <3>1, Zenon DEF Holds
  <2>2. \A j \in 1..10 : 2 + 10 * ((m + 1) - 1) + j = l + j
    BY <1>6
  <2> QED  BY <1>5, <2>1, <2>2, ZenonT(60)
<1>11. /\ \A j \in 1..10 : taken[j] = TaskCells(Entry(x))[j]
       /\ \A i \in 1..10 : taken[11 - i].type = PopTypes[i]
  <2>1. \A j \in 1..10 : taken[j] = TaskCells(Entry(x))[j]
    BY <1>9, <1>10, Zenon
  <2>2. \A i \in 1..10 : 11 - i \in 1..10
    OBVIOUS
  <2>3. \A i \in 1..10 : taken[11 - i] = TaskCells(Entry(x))[11 - i]
    BY <2>1, <2>2, ZenonT(60)
  <2> QED  BY <2>1, <2>3, TaskCellsFit
<1>12. /\ tinfos' = <<PopTask(taken)>> \o tinfos /\ stage' = "decoding"
       /\ buf' = [cells |-> SubSeq(s, 1, l), pos |-> BytesOf(s) - BytesOf(taken), size |-> buf.size]
  <2>1. Len(s) - 9 = l + 1 /\ Len(s) - 10 = l /\ Len(s) = l + 10 /\ Len(s) >= 10
    BY <1>7
  <2>2. IF Len(s) >= 10 /\ \A i \in 1..10 : SubSeq(s, Len(s) - 9, Len(s))[11 - i].type = PopTypes[i]
        THEN /\ tinfos' = <<PopTask(SubSeq(s, Len(s) - 9, Len(s)))>> \o tinfos
             /\ buf' = [cells |-> SubSeq(s, 1, Len(s) - 10), pos |-> buf.pos - BytesOf(SubSeq(s, Len(s) - 9, Len(s))),
                        size |-> buf.size]
             /\ UNCHANGED stage
        ELSE stage' = "garbled" /\ UNCHANGED <<tinfos, buf>>
    BY <1>5, Zenon DEF DecodeTask
  <2>3. SubSeq(s, Len(s) - 9, Len(s)) = taken /\ SubSeq(s, 1, Len(s) - 10) = SubSeq(s, 1, l)
    BY <1>8, <2>1, ZenonT(60)
  <2> QED  BY <1>1, <1>7, <1>11, <2>1, <2>2, <2>3, Zenon
<1>13. PopTask(taken) = PopTask(TaskCells(Entry(x)))
  BY <1>9, <1>11, TaskCellsFit, PopsTheSame, Zenon
<1>14. IsBuffer(buf)' /\ Len(buf'.cells) = 2 + 10 * m /\ \A k \in 1..(2 + 10 * m) : buf'.cells[k] = buf.cells[k]
  <2>1. IsBuffer(buf') /\ buf'.cells = SubSeq(s, 1, l)
    BY <1>9, <1>12, ZenonT(60)
  <2>2. IsBuffer(buf)'
    BY <2>1, ZenonT(60) DEF IsBuffer
  <2> QED  BY <1>5, <1>6, <1>9, <2>1, <2>2, Zenon
<1>15. Holds(left)'
  <2>1. Holds(m)'
    <3>1. Len(buf'.cells) >= 2 + 10 * m /\ m <= m + 1 /\ m + 1 \in Nat /\ Len(buf'.cells) \in Nat /\ Holds(m + 1)
      BY <1>2, <1>4, <1>14
    <3> QED  BY <1>1, <1>14, <3>1, BlocksAreKept, ZenonT(60)
  <2> QED  BY <1>4, <2>1, ZenonT(60) DEF Holds
<1>16. Cardinality(Entries)' = N /\ Entries' = Entries
  BY <1>0, <1>1, ScheduleIsKept, ZenonT(60)
<1>17. Popped(left)'
  <2>1. /\ tinfos \in Seq(Range(tinfos)) /\ Len(tinfos) = N - (m + 1)
        /\ \A i \in 1..Len(tinfos) : \E z \in Entries :
             Rank(z) = (m + 1) + i /\ tinfos[i] = PopTask(TaskCells(Entry(z)))
    BY <1>0, <1>2, <1>4, ZenonT(60) DEF Popped
  <2>2. PICK t : t = PopTask(taken)
    BY Zenon
  <2>3. /\ tinfos' \in Seq(Range(tinfos')) /\ Len(tinfos') = N - m
        /\ tinfos'[1] = t /\ \A i \in 1..Len(tinfos) : tinfos'[i + 1] = tinfos[i]
    <3> DEFINE S == Range(tinfos) \cup {t}
    <3>1. tinfos \in Seq(S) /\ t \in S
      <4>1. Seq(Range(tinfos)) \subseteq Seq(S)
        OBVIOUS
      <4> QED  BY <2>1, <4>1, ZenonT(60)
    <3> HIDE DEF S
    <3>2. tinfos' = <<t>> \o tinfos
      BY <1>12, <2>2, ZenonT(60)
    <3>3. /\ <<t>> \o tinfos \in Seq(S) /\ Len(<<t>> \o tinfos) = 1 + Len(tinfos)
          /\ (<<t>> \o tinfos)[1] = t /\ \A i \in 1..Len(tinfos) : (<<t>> \o tinfos)[i + 1] = tinfos[i]
      BY <3>1
    <3>4. 1 + Len(tinfos) = N - m
      BY <1>3, <2>1
    <3>5. tinfos' \in Seq(Range(tinfos'))
      <4>1. tinfos' \in Seq(S)
        BY <3>2, <3>3, ZenonT(60)
      <4> QED  BY <4>1, SeqOfItsOwn, Zenon
    <3> QED  BY <3>2, <3>3, <3>4, <3>5, ZenonT(60)
  <2>4. \A z : Rank(z)' = Rank(z) /\ Entry(z)' = Entry(z)
    BY <1>1, ScheduleIsKept, ZenonT(60)
  <2>5. ASSUME NEW i \in 1..Len(tinfos')
        PROVE  \E z \in Entries' : Rank(z)' = m + i /\ tinfos'[i] = PopTask(TaskCells(Entry(z)'))
    <3>1. CASE i = 1
      <4>1. x \in Entries' /\ Rank(x)' = m + i /\ tinfos'[i] = PopTask(TaskCells(Entry(x)))
        BY <1>10, <1>13, <1>16, <2>2, <2>3, <2>4, <3>1, ZenonT(60)
      <4>2. PopTask(TaskCells(Entry(x)')) = PopTask(TaskCells(Entry(x)))
        BY <2>4, ZenonT(60)
      <4> QED  BY <4>1, <4>2, ZenonT(60)
    <3>2. CASE i # 1
      <4>1. i - 1 \in 1..Len(tinfos) /\ (i - 1) + 1 = i /\ (m + 1) + (i - 1) = m + i
        BY <1>3, <2>1, <2>3, <3>2
      <4>2. PICK z \in Entries : Rank(z) = (m + 1) + (i - 1) /\ tinfos[i - 1] = PopTask(TaskCells(Entry(z)))
        BY <2>1, <4>1, ZenonT(60)
      <4>3. tinfos'[i] = tinfos[i - 1]
        BY <2>3, <4>1, ZenonT(60)
      <4>4. z \in Entries' /\ Rank(z)' = m + i /\ tinfos'[i] = PopTask(TaskCells(Entry(z)))
        BY <1>16, <2>4, <4>1, <4>2, <4>3, ZenonT(60)
      <4>5. PopTask(TaskCells(Entry(z)')) = PopTask(TaskCells(Entry(z)))
        BY <2>4, ZenonT(60)
      <4> QED  BY <4>4, <4>5, ZenonT(60)
    <3> QED  BY <3>1, <3>2, ZenonT(60)
  <2> QED  BY <1>4, <1>16, <2>3, <2>5, ZenonT(60) DEF Popped
<1>18. BoundAsSent'
  BY <1>1, <1>2, BoundIsKept, ZenonT(60)
<1>19. left' \in 0..Cardinality(Entries)' /\ Len(buf'.cells) = 2 + 10 * left'
  BY <1>3, <1>4, <1>14, <1>16
<1> QED  BY <1>1, <1>2, <1>12, <1>14, <1>15, <1>17, <1>18, <1>19, ScheduleIsKept, ZenonT(60) DEF WireInv

\* deserialize_sched_info ends with the header.
LEMMA PopHeaderStep == WireInv /\ CppInv /\ DecodeEnd => WireInv'
<1> SUFFICES ASSUME WireInv, CppInv, DecodeEnd PROVE WireInv'
  OBVIOUS
<1>1. /\ stage = "decoding" /\ left = 0 /\ UNCHANGED <<vars, cppVars, tt_list>> /\ UNCHANGED tinfos
      /\ stage' = IF buf.cells = Header THEN "decoded" ELSE "garbled"
      /\ buf' = [cells |-> <<>>, pos |-> buf.pos - BytesOf(buf.cells), size |-> buf.size]
  BY Zenon DEF DecodeEnd, Header
<1>2. /\ IsBuffer(buf) /\ status = "stored" /\ algorithm = "target_node_priority"
      /\ Len(buf.cells) = 2 + 10 * left /\ Holds(left) /\ Popped(left)
      /\ BoundAsSent /\ tt_list = [n \in Nodes |-> {}]
  BY <1>1, ZenonT(60) DEF WireInv
<1>3. buf.cells = Header
  <2>1. Len(buf.cells) = 2 /\ buf.cells \in Seq(Range(buf.cells))
    BY <1>1, <1>2 DEF IsBuffer
  <2>2. buf.cells[1] = Header[1] /\ buf.cells[2] = Header[2]
    BY <1>2, Zenon DEF Holds
  <2>3. buf.cells = <<buf.cells[1], buf.cells[2]>>
    BY <2>1
  <2> DEFINE a == Cell("int64", "hyperperiod", workload_id)
             b == Str("workload", workload_id, 64)
  <2>4. Header = <<a, b>>
    BY Zenon DEF Header
  <2> HIDE DEF a, b
  <2> QED  BY <2>2, <2>3, <2>4, ZenonT(60)
<1>4. stage' = "decoded"
  BY <1>1, <1>3, ZenonT(60)
<1>5. IsBuffer(buf)' /\ buf'.pos = 0
  <2>1. buf.pos = BytesOf(buf.cells) /\ buf.pos \in Nat /\ buf.size \in Nat
    BY <1>2, ZenonT(60) DEF IsBuffer
  <2>2. buf'.cells = <<>> /\ buf'.pos = 0 /\ buf'.size = buf.size
        /\ buf' = [cells |-> buf'.cells, pos |-> buf'.pos, size |-> buf'.size]
    BY <1>1, <2>1
  <2>3. <<>> \in Seq(Range(<<>>)) /\ Len(<<>>) = 0
    OBVIOUS
  <2> QED  BY <2>1, <2>2, <2>3, BytesOfOne DEF IsBuffer
<1>6. Popped(0)'
  <2>1. Popped(0)
    BY <1>1, <1>2, ZenonT(60)
  <2>2. /\ tinfos' = tinfos /\ Entries' = Entries
        /\ \A x : Entry(x)' = Entry(x) /\ Rank(x)' = Rank(x)
    BY <1>1, ScheduleIsKept, ZenonT(60)
  <2>3. \A x : PopTask(TaskCells(Entry(x)')) = PopTask(TaskCells(Entry(x)))
    BY <2>2, ZenonT(60)
  <2> QED  BY <2>1, <2>2, <2>3, ZenonT(60) DEF Popped
<1>7. BoundAsSent'
  BY <1>1, <1>2, BoundIsKept, ZenonT(60)
<1> QED  BY <1>1, <1>2, <1>4, <1>5, <1>6, <1>7, ScheduleIsKept, ZenonT(60) DEF WireInv

\* What a node pops is what was packed.
LEMMA PoppedIsPacked ==
  ASSUME NEW t, NEW i, i = PopTask(TaskCells(t))
  PROVE  /\ i.name = <<"name", t.id>> /\ i.node = <<"node", t.node>> /\ i.cpu = <<"cpu", t.cpu>>
         /\ i.period = <<"period", t.period_ns \div kNsToUs>> /\ i.runtime = <<"runtime", t.runtime_ns \div kNsToUs>>
         /\ i["priority"] = <<"priority", t.id>> /\ i["policy"] = <<"policy", t.id>>
         /\ i["release"] = <<"release", t.id>> /\ i["deadline"] = <<"deadline", t.id>> /\ i["dmiss"] = <<"dmiss", t.id>>
<1>1. /\ \A what, value, max : Str(what, value, max).is = <<what, value>>
      /\ \A type, what, value : Cell(type, what, value).is = <<what, value>>
  BY Zenon DEF Str, Cell
<1>2. Len(TaskCells(t)) = 10
  BY TaskCellsFit, ZenonT(60)
<1>3. PICK c : c = TaskCells(t)
  OBVIOUS
<1>4. PICK period, runtime : period = t.period_ns \div kNsToUs /\ runtime = t.runtime_ns \div kNsToUs
  OBVIOUS
<1>5. c = << Str("name", t.id, 16), Cell("int32", "priority", t.id), Cell("int32", "policy", t.id),
             Cell("int32", "period", period), Cell("int32", "release", t.id), Cell("int32", "runtime", runtime),
             Cell("int32", "deadline", t.id), Cell("int64", "cpu", t.cpu), Cell("int32", "dmiss", t.id),
             Str("node", t.node, 64) >>
  BY <1>3, <1>4, Zenon DEF TaskCells
<1>6. /\ c[1] = Str("name", t.id, 16) /\ c[2] = Cell("int32", "priority", t.id)
      /\ c[3] = Cell("int32", "policy", t.id) /\ c[4] = Cell("int32", "period", period)
      /\ c[5] = Cell("int32", "release", t.id)
  BY <1>5, ZenonT(60)
<1>7. /\ c[6] = Cell("int32", "runtime", runtime) /\ c[7] = Cell("int32", "deadline", t.id)
      /\ c[8] = Cell("int64", "cpu", t.cpu) /\ c[9] = Cell("int32", "dmiss", t.id)
      /\ c[10] = Str("node", t.node, 64)
  BY <1>5, ZenonT(60)
<1>8. i = [node |-> c[10].is, dmiss |-> c[9].is, cpu |-> c[8].is, deadline |-> c[7].is, runtime |-> c[6].is,
           release |-> c[5].is, period |-> c[4].is, policy |-> c[3].is, priority |-> c[2].is, name |-> c[1].is]
  <2>1. Len(c) = 10
    BY <1>2, <1>3
  <2>2. i = PopTask(c)
    BY <1>3, ZenonT(60)
  <2>3. /\ Len(c) + 1 - 1 = 10 /\ Len(c) + 1 - 2 = 9 /\ Len(c) + 1 - 3 = 8 /\ Len(c) + 1 - 4 = 7
        /\ Len(c) + 1 - 5 = 6 /\ Len(c) + 1 - 6 = 5 /\ Len(c) + 1 - 7 = 4 /\ Len(c) + 1 - 8 = 3
        /\ Len(c) + 1 - 9 = 2 /\ Len(c) + 1 - 10 = 1
    BY <2>1
  <2> QED  BY <2>2, <2>3, Zenon DEF PopTask
<1>9. /\ i.name = c[1].is /\ i.node = c[10].is /\ i.cpu = c[8].is /\ i.period = c[4].is /\ i.runtime = c[6].is
      /\ i["priority"] = c[2].is /\ i["policy"] = c[3].is
      /\ i["release"] = c[5].is /\ i["deadline"] = c[7].is /\ i["dmiss"] = c[9].is
  BY <1>8
<1>10. /\ c[1].is = <<"name", t.id>> /\ c[2].is = <<"priority", t.id>> /\ c[3].is = <<"policy", t.id>>
       /\ c[4].is = <<"period", period>> /\ c[5].is = <<"release", t.id>>
  BY <1>1, <1>6
<1>11. /\ c[6].is = <<"runtime", runtime>> /\ c[7].is = <<"deadline", t.id>> /\ c[8].is = <<"cpu", t.cpu>>
       /\ c[9].is = <<"dmiss", t.id>> /\ c[10].is = <<"node", t.node>>
  BY <1>1, <1>7
<1> QED  BY <1>4, <1>9, <1>10, <1>11, Zenon

\* init_task_list sets up processes of its own entries.
LEMMA TaskListStep ==
  ASSUME WireInv, CppInv, NEW n \in Nodes, init_task_list(n)
  PROVE  WireInv'
<1>1. /\ stage = "decoded" /\ workload_id # "Apex.OS" /\ UNCHANGED <<vars, cppVars, stage, buf, tinfos>>
      /\ UNCHANGED <<stage, buf, tinfos>>
  BY Zenon DEF init_task_list
<1>2. PICK found \in SUBSET Own(n) : \E bound \in SUBSET found :
        tt_list' = [tt_list EXCEPT ![n] =
          {[id |-> tinfos[i].name[2],
            cpu |-> IF i \in bound THEN set_affinity(n, tinfos[i].cpu[2]) ELSE NoCpu] : i \in found}]
  BY Zenon DEF init_task_list
<1>3. PICK bound \in SUBSET found :
        tt_list' = [tt_list EXCEPT ![n] =
          {[id |-> tinfos[i].name[2],
            cpu |-> IF i \in bound THEN set_affinity(n, tinfos[i].cpu[2]) ELSE NoCpu] : i \in found}]
  BY <1>2, Zenon
<1>4. /\ IsBuffer(buf) /\ status = "stored" /\ algorithm = "target_node_priority"
      /\ buf.pos = 0 /\ Popped(0) /\ BoundAsSent
  BY <1>1, ZenonT(60) DEF WireInv
<1>5. /\ Entries' = Entries /\ (\A x : Entry(x)' = Entry(x) /\ Rank(x)' = Rank(x))
      /\ UNCHANGED <<status, algorithm, workload_id>>
  BY <1>1, ScheduleIsKept, ZenonT(60)
<1>6. ASSUME NEW i \in found
      PROVE  \E x \in Entries : x[1] = n /\ tinfos[i].name[2] = x[2] /\ tinfos[i].cpu[2] = Entry(x).cpu
  <2>1. i \in DOMAIN tinfos /\ tinfos[i].node = <<"node", n>>
    BY <1>2, Zenon DEF Own
  <2>2. PICK x \in Entries : tinfos[i] = PopTask(TaskCells(Entry(x)))
    <3>1. tinfos \in Seq(Range(tinfos)) /\ \A j \in 1..Len(tinfos) : \E x \in Entries : tinfos[j] = PopTask(TaskCells(Entry(x)))
      BY <1>4, ZenonT(60) DEF Popped
    <3>2. i \in 1..Len(tinfos)
      BY <2>1, <3>1
    <3> QED  BY <3>1, <3>2, ZenonT(60)
  <2>3. /\ tinfos[i].name = <<"name", Entry(x).id>> /\ tinfos[i].node = <<"node", Entry(x).node>>
        /\ tinfos[i].cpu = <<"cpu", Entry(x).cpu>>
    BY <2>2, PoppedIsPacked, Zenon
  <2>4. Entry(x).id = x[2] /\ Entry(x).node = x[1]
    BY <1>4, EntriesAre, ZenonT(60) DEF ScheduleIs, IsEntry
  <2>5. Entry(x).node = n
    BY <2>1, <2>3
  <2>6. tinfos[i].name[2] = Entry(x).id /\ tinfos[i].cpu[2] = Entry(x).cpu
    BY <2>3
  <2> QED  BY <2>4, <2>5, <2>6, Zenon
<1>7. BoundAsSent'
  <2>1. DOMAIN tt_list = Nodes /\ DOMAIN tt_list' = Nodes
    BY <1>3, <1>4, Zenon DEF BoundAsSent
  <2>2. \A m \in Nodes : m # n => tt_list'[m] = tt_list[m]
    BY <1>3, <2>1, Zenon
  <2>3. tt_list'[n] = {[id |-> tinfos[i].name[2],
                        cpu |-> IF i \in bound THEN set_affinity(n, tinfos[i].cpu[2]) ELSE NoCpu] : i \in found}
    BY <1>3, <2>1, ZenonT(60)
  <2>4. ASSUME NEW b \in tt_list'[n]
        PROVE  \E x \in Entries : x[1] = n /\ b.id = x[2] /\ b.cpu \in {NoCpu, set_affinity(n, Entry(x).cpu)}
    <3>1. PICK i \in found : b = [id |-> tinfos[i].name[2],
                                  cpu |-> IF i \in bound THEN set_affinity(n, tinfos[i].cpu[2]) ELSE NoCpu]
      BY <2>3, ZenonT(60)
    <3>2. b.id = tinfos[i].name[2] /\ b.cpu \in {NoCpu, set_affinity(n, tinfos[i].cpu[2])}
      BY <3>1, ZenonT(60)
    <3> QED  BY <1>6, <3>2, ZenonT(60)
  <2>5. ASSUME NEW m \in Nodes, NEW b \in tt_list'[m]
        PROVE  \E x \in Entries : x[1] = m /\ b.id = x[2] /\ b.cpu \in {NoCpu, set_affinity(m, Entry(x).cpu)}
    <3>1. CASE m = n
      BY <2>4, <3>1, ZenonT(60)
    <3>2. CASE m # n
      <4>1. b \in tt_list[m]
        BY <2>2, <3>2, ZenonT(60)
      <4> QED  BY <1>4, <4>1, ZenonT(60) DEF BoundAsSent
    <3> QED  BY <3>1, <3>2, ZenonT(60)
  <2>6. \A m, x : set_affinity(m, Entry(x)'.cpu) = set_affinity(m, Entry(x).cpu)
    BY <1>5, ZenonT(60)
  <2>7. \A m \in Nodes : \A b \in tt_list'[m] : \E x \in Entries' :
          x[1] = m /\ b.id = x[2] /\ b.cpu \in {NoCpu, set_affinity(m, Entry(x)'.cpu)}
    BY <1>5, <2>5, <2>6, ZenonT(60)
  <2> QED  BY <2>1, <2>7, Zenon DEF BoundAsSent
<1>8. Popped(0)'
  <2>1. tinfos' = tinfos
    BY <1>1, ZenonT(60)
  <2>2. \A x : PopTask(TaskCells(Entry(x)')) = PopTask(TaskCells(Entry(x)))
    BY <1>5, ZenonT(60)
  <2> QED  BY <1>4, <1>5, <2>1, <2>2, ZenonT(60) DEF Popped
<1>9. IsBuffer(buf)' /\ buf'.pos = 0 /\ stage' = "decoded" /\ workload_id' # "Apex.OS"
  BY <1>1, <1>4, <1>5, ZenonT(60) DEF IsBuffer
<1> QED  BY <1>4, <1>5, <1>7, <1>8, <1>9, ZenonT(60) DEF WireInv

\* init_apex_list sets up nothing.
LEMMA ApexListStep ==
  ASSUME WireInv, UNCHANGED <<vars, cppVars, stage, buf, todo, left, tinfos, tt_list>>
  PROVE  WireInv'
<1>1. UNCHANGED <<stage, buf, todo, left, tinfos, tt_list>> /\ UNCHANGED <<vars, cppVars, tt_list>> /\ UNCHANGED <<vars, cppVars>>
  BY ZenonT(60)
<1>2. /\ Entries' = Entries /\ Header' = Header /\ (\A x : Entry(x)' = Entry(x) /\ Rank(x)' = Rank(x))
      /\ UNCHANGED <<status, algorithm, workload_id>>
  BY <1>1, ScheduleIsKept, ZenonT(60)
<1>3. /\ \A x : TaskCells(Entry(x)') = TaskCells(Entry(x))
      /\ \A x : PopTask(TaskCells(Entry(x)')) = PopTask(TaskCells(Entry(x)))
  BY <1>2, ZenonT(60)
<1>4. \A m : Holds(m) => Holds(m)'
  BY <1>1, <1>2, <1>3, ZenonT(60) DEF Holds
<1>5. \A m : Popped(m) => Popped(m)'
  BY <1>1, <1>2, <1>3, ZenonT(60) DEF Popped
<1>6. Packed' = Packed
  BY <1>1, <1>2, ZenonT(60) DEF Packed
<1>7. BoundAsSent'
  BY <1>1, BoundIsKept, ZenonT(60) DEF WireInv
<1>8. IsBuffer(buf)'
  BY <1>1, ZenonT(60) DEF WireInv, IsBuffer
<1>9. (Holds(Packed) => Holds(Packed)') /\ (Holds(left) => Holds(left)')
      /\ (Holds(Cardinality(Entries)) => Holds(Cardinality(Entries))')
      /\ (Popped(left) => Popped(left)') /\ (Popped(0) => Popped(0)')
  <2>1. Holds(Packed) => Holds(Packed)'
    <3>1. PICK m : m = Packed /\ m = Packed'
      BY <1>6, ZenonT(60)
    <3>2. Holds(Packed) => Holds(m)'
      BY <1>4, <3>1, ZenonT(60)
    <3> QED  BY <3>1, <3>2, ZenonT(60) DEF Holds
  <2>2. Holds(left) => Holds(left)'
    <3>1. PICK m : m = left /\ m = left'
      BY <1>1, ZenonT(60)
    <3>2. Holds(left) => Holds(m)'
      BY <1>4, <3>1, ZenonT(60)
    <3> QED  BY <3>1, <3>2, ZenonT(60) DEF Holds
  <2>3. Holds(Cardinality(Entries)) => Holds(Cardinality(Entries))'
    <3>1. PICK m : m = Cardinality(Entries) /\ m = Cardinality(Entries')
      BY <1>2, ZenonT(60)
    <3>2. Holds(Cardinality(Entries)) => Holds(m)'
      BY <1>4, <3>1, ZenonT(60)
    <3> QED  BY <3>1, <3>2, ZenonT(60) DEF Holds
  <2>4. Popped(left) => Popped(left)'
    BY <1>1, <1>2, <1>3, ZenonT(60) DEF Popped
  <2>5. Popped(0) => Popped(0)'
    BY <1>1, <1>2, <1>3, ZenonT(60) DEF Popped
  <2> QED  BY <2>1, <2>2, <2>3, <2>4, <2>5, ZenonT(60)
<1>10. stage \in {"none", "packing", "sent", "decoding", "decoded"}
  BY ZenonT(60) DEF WireInv
<1>11. CASE stage = "none"
  BY <1>1, <1>2, <1>7, <1>8, <1>11, ZenonT(60) DEF WireInv
<1>12. CASE stage = "packing"
  BY <1>1, <1>2, <1>6, <1>7, <1>8, <1>9, <1>12, ZenonT(60) DEF WireInv
<1>13. CASE stage = "sent"
  BY <1>1, <1>2, <1>7, <1>8, <1>9, <1>13, ZenonT(60) DEF WireInv
<1>14. CASE stage = "decoding"
  BY <1>1, <1>2, <1>7, <1>8, <1>9, <1>14, ZenonT(60) DEF WireInv
<1>15. CASE stage = "decoded"
  BY <1>1, <1>2, <1>7, <1>8, <1>9, <1>15, ZenonT(60) DEF WireInv
<1> QED  BY <1>10, <1>11, <1>12, <1>13, <1>14, <1>15, ZenonT(60)

\* Before there is a schedule, the wire does not look at the schedulers.
LEMMA NothingSent ==
  ASSUME WireInv, stage = "none", UNCHANGED wireVars
  PROVE  WireInv'
<1>1. UNCHANGED <<stage, buf, tinfos, tt_list>>
  BY Zenon DEF wireVars
<1>2. IsBuffer(buf) /\ buf.cells = <<>> /\ tinfos = <<>> /\ tt_list = [n \in Nodes |-> {}]
  BY Zenon DEF WireInv
<1>3. IsBuffer(buf)'
  BY <1>1, <1>2, ZenonT(60) DEF IsBuffer
<1>4. BoundAsSent'
  <2>1. DOMAIN tt_list' = Nodes /\ \A n \in Nodes : tt_list'[n] = {}
    BY <1>1, <1>2, ZenonT(60)
  <2> QED  BY <2>1, Zenon DEF BoundAsSent
<1> QED  BY <1>1, <1>2, <1>3, <1>4, ZenonT(60) DEF WireInv

\* The invariant of the wire holds throughout.
LEMMA WireInvariance == AllSpec => []WireInv
<1>1. WireInit => WireInv
  <2> SUFFICES ASSUME WireInit PROVE WireInv
    BY Zenon
  <2>1. /\ stage = "none" /\ tinfos = <<>> /\ tt_list = [n \in Nodes |-> {}]
        /\ buf = [cells |-> <<>>, pos |-> 0, size |-> InitialSize]
    BY Zenon DEF WireInit
  <2>2. buf.cells = <<>> /\ buf.pos = 0 /\ buf.size = InitialSize
        /\ buf = [cells |-> buf.cells, pos |-> buf.pos, size |-> buf.size]
    BY <2>1, Zenon
  <2>3. <<>> \in Seq(Range(<<>>)) /\ Len(<<>>) = 0
    OBVIOUS
  <2>4. IsBuffer(buf)
    BY <2>2, <2>3, BytesOfOne, WireAssumption DEF IsBuffer
  <2>5. BoundAsSent
    BY <2>1, ZenonT(60) DEF BoundAsSent
  <2> QED  BY <2>1, <2>2, <2>4, <2>5, ZenonT(60) DEF WireInv
<1>2. CppInv /\ WireInv /\ [AllNext]_allVars => WireInv'
  <2> SUFFICES ASSUME CppInv, WireInv, [AllNext]_allVars PROVE WireInv'
    BY Zenon
  <2>1. ASSUME Next \/ CppNext, UNCHANGED wireVars PROVE WireInv'
    <3>1. stage = "none"
      <4>1. Next => ~RustDone
        BY Zenon DEF Next, Refuse, Begin, TargetNodePriority, LeastLoaded, BestFitDecreasing, Placing, Finish, RustDone
      <4>2. CppNext => status \in {"idle", "placing"}
        BY Zenon DEF CppNext, AddSchedInfoEnds, AddSchedInfo, schedule_with_target_node_priority,
               schedule_with_least_loaded, schedule_with_best_fit_decreasing, AddSchedInfoReturns, CppPlacing
      <4>3. status = "stored" => RustDone
        BY Zenon DEF CppInv, Requested
      <4>4. stage # "none" => status = "stored"
        BY Zenon DEF WireInv
      <4> QED  BY <2>1, <4>1, <4>2, <4>3, <4>4, ZenonT(60)
    <3> QED  BY <2>1, <3>1, NothingSent, ZenonT(60)
  <2>2. ASSUME NEW n \in Nodes, init_apex_list(n) PROVE WireInv'
    <3>1. UNCHANGED <<vars, cppVars, stage, buf, todo, left, tinfos, tt_list>>
      BY <2>2, ZenonT(60) DEF init_apex_list
    <3> QED  BY <3>1, ApexListStep, ZenonT(60)
  <2>3. CASE UNCHANGED allVars
    <3>1. UNCHANGED <<vars, cppVars, stage, buf, todo, left, tinfos, tt_list>>
      BY <2>3, ZenonT(60) DEF allVars, wireVars
    <3> QED  BY <3>1, ApexListStep, ZenonT(60)
  <2> QED  BY <2>1, <2>2, <2>3, HeaderStep, PackStep, CountStep, PopCountStep, PopTaskStep, PopHeaderStep,
              TaskListStep, ZenonT(60) DEF AllNext, WireNext
<1> QED  BY <1>1, <1>2, CppInvariance, PTL DEF AllSpec

\* Whatever size the buffer starts with and however long the names are, what
\* SerializeSchedInfo writes stays within what reserve_space allocated.
THEOREM BufferSuffices == AllSpec => []BufferIsLargeEnough
<1>1. WireInv => BufferIsLargeEnough
  BY ZenonT(60) DEF WireInv, IsBuffer, BufferIsLargeEnough
<1> QED  BY <1>1, WireInvariance, PTL

\* For any workload, the pops of deserialize_sched_info mirror the pushes of
\* SerializeSchedInfo: a node decodes the stored schedule, field by field.
THEOREM DecodesTheSchedule == AllSpec => []NodeDecodesTheSchedule
<1>1. CppInv /\ WireInv => NodeDecodesTheSchedule
  <2> SUFFICES ASSUME CppInv, WireInv PROVE NodeDecodesTheSchedule
    BY Zenon
  <2>1. stage # "garbled"
    BY ZenonT(60) DEF WireInv
  <2>2. CASE stage # "decoded"
    BY <2>1, <2>2, Zenon DEF NodeDecodesTheSchedule
  <2>3. CASE stage = "decoded"
    <3>1. status = "stored" /\ algorithm = "target_node_priority" /\ buf.pos = 0 /\ Popped(0)
      BY <2>3, Zenon DEF WireInv
    <3>2. ScheduleIs
      BY <3>1, EntriesAre, ZenonT(60)
    <3>3. /\ Cardinality(Entries) \in Nat /\ \A x \in Entries : Rank(x) \in 1..Cardinality(Entries)
          /\ \A x, y \in Entries : Rank(x) = Rank(y) => x = y
      BY <3>2, RankIsPosition, ZenonT(60)
    <3>4. /\ Len(tinfos) = Cardinality(Entries)
          /\ \A i \in 1..Len(tinfos) : \E x \in Entries : Rank(x) = i /\ tinfos[i] = PopTask(TaskCells(Entry(x)))
      <4>1. /\ Len(tinfos) = Cardinality(Entries) - 0
            /\ \A i \in 1..Len(tinfos) : \E x \in Entries : Rank(x) = 0 + i /\ tinfos[i] = PopTask(TaskCells(Entry(x)))
        BY <3>1, Zenon DEF Popped
      <4>2. Len(tinfos) = Cardinality(Entries)
        BY <3>3, <4>1
      <4>3. \A i \in 1..Len(tinfos) : 0 + i = i
        OBVIOUS
      <4> QED  BY <4>1, <4>2, <4>3, ZenonT(60)
    <3>5. ASSUME NEW x \in Entries
          PROVE  LET t == Entry(x)
                     i == tinfos[Rank(x)] IN
                 /\ i.name = <<"name", t.id>> /\ i.node = <<"node", t.node>> /\ i.cpu = <<"cpu", t.cpu>>
                 /\ i.period = <<"period", given[t.id].period>>
                 /\ i.runtime = <<"runtime", IF workload_id = "Apex.OS" THEN 0 ELSE given[t.id].runtime>>
                 /\ \A f \in {"priority", "policy", "release", "deadline", "dmiss"} : i[f] = <<f, t.id>>
      <4> DEFINE t == Entry(x)
                 i == tinfos[Rank(x)]
      <4>1. i = PopTask(TaskCells(t))
        BY <3>3, <3>4, ZenonT(60)
      <4>2. /\ t.id = x[2] /\ t.period_ns \div kNsToUs = given[x[2]].period
            /\ t.runtime_ns \div kNsToUs = IF workload_id = "Apex.OS" THEN 0 ELSE given[x[2]].runtime
        BY <3>2, Zenon DEF ScheduleIs, IsEntry
      <4> HIDE DEF t, i
      <4>3. /\ i.name = <<"name", t.id>> /\ i.node = <<"node", t.node>> /\ i.cpu = <<"cpu", t.cpu>>
            /\ i.period = <<"period", t.period_ns \div kNsToUs>> /\ i.runtime = <<"runtime", t.runtime_ns \div kNsToUs>>
            /\ i["priority"] = <<"priority", t.id>> /\ i["policy"] = <<"policy", t.id>>
            /\ i["release"] = <<"release", t.id>> /\ i["deadline"] = <<"deadline", t.id>> /\ i["dmiss"] = <<"dmiss", t.id>>
        BY <4>1, PoppedIsPacked, Zenon
      <4>4. /\ i.period = <<"period", given[t.id].period>>
            /\ i.runtime = <<"runtime", IF workload_id = "Apex.OS" THEN 0 ELSE given[t.id].runtime>>
        BY <4>2, <4>3, Zenon
      <4>5. \A f \in {"priority", "policy", "release", "deadline", "dmiss"} : i[f] = <<f, t.id>>
        BY <4>3, Zenon
      <4> QED  BY <4>3, <4>4, <4>5, Zenon DEF t, i
    <3> QED  BY <2>1, <3>1, <3>4, <3>5, Zenon DEF NodeDecodesTheSchedule
  <2> QED  BY <2>2, <2>3, ZenonT(60)
<1> QED  BY <1>1, CppInvariance, WireInvariance, PTL

\* From the request to the affinity of the processes: if the nodes have the
\* CPUs that are configured and every task sent has a CPU, then no CPU of any
\* node gets more than the threshold.
THEOREM LoadStaysBelowThreshold == AllSpec => []PlacedLoadBelowThreshold
<1>1. CppInv /\ WireInv => PlacedLoadBelowThreshold
  <2> SUFFICES ASSUME CppInv, WireInv, \A n \in Nodes : Cpus[n] \subseteq 0..(num_cpus[n] - 1),
                      \A k \in DOMAIN tasks_ : tasks_[k].node # NoNode => tasks_[k].cpu # NoCpu,
                      NEW n \in Nodes, NEW c \in 0..(num_cpus[n] - 1)
               PROVE  NodeLoad(n, c) <= CPU_UTILIZATION_THRESHOLD
    BY Zenon DEF PlacedLoadBelowThreshold, NodeLoadBelowThreshold
  <2> DEFINE u == [k \in DOMAIN given |-> utilization(given[k])]
             ids == {b.id : b \in {x \in tt_list[n] : x.cpu = c}}
  <2>1. NodeLoad(n, c) = SumFunctionOnSet(u, ids)
    BY Zenon DEF NodeLoad
  <2>2. CASE ids = {}
    <3>1. SumFunctionOnSet(u, {}) = 0
      BY SumEmpty, Zenon
    <3> HIDE DEF u
    <3>2. NodeLoad(n, c) = 0
      BY <2>1, <2>2, <3>1, Zenon
    <3> QED  BY <3>2, ConfigAssumption
  <2>3. CASE ids # {}
    <3>1. PICK b0 \in tt_list[n] : b0.cpu = c
      BY <2>3, Zenon
    <3>2. stage = "decoded" /\ workload_id # "Apex.OS"
      <4>1. tt_list # [m \in Nodes |-> {}]
        BY <3>1, Zenon
      <4> QED  BY <4>1, ZenonT(60) DEF WireInv
    <3>3. status = "stored" /\ algorithm = "target_node_priority" /\ BoundAsSent
      BY <3>2, ZenonT(60) DEF WireInv
    <3>4. LoopInv /\ Requested
      BY <3>2, <3>3, ZenonT(60) DEF CppInv
    <3>5. ScheduleIs
      BY <3>3, EntriesAre, ZenonT(60)
    <3>6. /\ DOMAIN tasks_ = 1..Len(given) /\ DOMAIN given = 1..Len(given) /\ IsFiniteSet(1..Len(given))
          /\ \A k \in 1..Len(given) : utilization(given[k]) \in Nat /\ CppTaskUtilization[k] = utilization(given[k])
      BY <3>4, LoopFacts, Zenon
    <3>7. c \in Int /\ c # NoCpu /\ \A d \in Cpus[n] : set_affinity(n, d) = d
      <4>1. num_cpus[n] \in Nat
        BY WireAssumption, ZenonT(60)
      <4> QED  BY <4>1 DEF NoCpu, set_affinity
    <3>8. ASSUME NEW b \in tt_list[n], b.cpu = c
          PROVE  /\ b.id \in 1..Len(given) /\ b.id \in Placed
                 /\ <<tasks_[b.id].node, tasks_[b.id].cpu>> = <<n, c>> /\ <<n, c>> \in Places
      <4>1. PICK x \in Entries : x[1] = n /\ b.id = x[2] /\ b.cpu \in {NoCpu, set_affinity(n, Entry(x).cpu)}
        BY <3>3, Zenon DEF BoundAsSent
      <4>2. /\ x[2] \in 1..Len(given) /\ x[1] # NoNode /\ tasks_[x[2]].node = x[1] /\ Entry(x).cpu = tasks_[x[2]].cpu
        BY <3>2, <3>5, ZenonT(60) DEF ScheduleIs, IsEntry
      <4> DEFINE k == b.id
      <4>3. k \in 1..Len(given) /\ tasks_[k].node = n /\ n # NoNode /\ b.cpu \in {NoCpu, set_affinity(n, tasks_[k].cpu)}
        BY <4>1, <4>2, Zenon
      <4>4. tasks_[k].cpu # NoCpu
        BY <3>6, <4>3, ZenonT(60)
      <4>5. <<n, tasks_[k].cpu>> \in Places
        BY <3>4, <3>6, <4>3, <4>4, Zenon DEF LoopInv, PlacedOnTarget
      <4>6. tasks_[k].cpu \in Cpus[n]
        BY <4>5, ZenonT(60) DEF Places
      <4>7. tasks_[k].cpu = c
        BY <3>7, <3>8, <4>3, <4>6, ZenonT(60)
      <4>8. k \in Placed
        BY <3>6, <4>3, <4>4, ZenonT(60) DEF Placed
      <4> QED  BY <4>3, <4>5, <4>7, <4>8, ZenonT(60)
    <3> DEFINE there == {k \in Placed : <<tasks_[k].node, tasks_[k].cpu>> = <<n, c>>}
    <3>9. ids \subseteq there /\ there \subseteq 1..Len(given) /\ <<n, c>> \in Places
      BY <3>1, <3>6, <3>8, Zenon DEF Placed
    <3>10. SumFunctionOnSet(CppTaskUtilization, there) <= CPU_UTILIZATION_THRESHOLD
           /\ SumFunctionOnSet(CppTaskUtilization, there) \in Nat
      <4>1. Books
        BY <3>4, Zenon DEF LoopInv
      <4>2. /\ cpu_utilization_per_node_[<<n, c>>] = SumFunctionOnSet(CppTaskUtilization, there)
            /\ cpu_utilization_per_node_[<<n, c>>] <= CPU_UTILIZATION_THRESHOLD
            /\ cpu_utilization_per_node_ \in [Places -> Nat]
        BY <3>9, <4>1, Zenon DEF Books
      <4> HIDE DEF there
      <4>3. cpu_utilization_per_node_[<<n, c>>] \in Nat
        BY <3>9, <4>2, ZenonT(60)
      <4> QED  BY <4>2, <4>3, ZenonT(60)
    <3>11. IsFiniteSet(there) /\ ids \in SUBSET there /\ (\A k \in there : CppTaskUtilization[k] \in Nat)
           /\ (\A k \in ids : u[k] = CppTaskUtilization[k])
      <4>1. IsFiniteSet(there)
        <5> HIDE DEF there
        <5> QED  BY <3>6, <3>9, FS_Subset, Zenon
      <4>2. \A k \in 1..Len(given) : u[k] = CppTaskUtilization[k] /\ CppTaskUtilization[k] \in Nat
        BY <3>6, ZenonT(60)
      <4> HIDE DEF u, ids, there
      <4> QED  BY <3>9, <4>1, <4>2, ZenonT(60)
    <3> HIDE DEF u, ids, there
    <3>12. SumFunctionOnSet(CppTaskUtilization, ids) <= SumFunctionOnSet(CppTaskUtilization, there)
      BY <3>11, SumSubset, ZenonT(60)
    <3>13. IsFiniteSet(ids)
      BY <3>11, FS_Subset, ZenonT(60)
    <3>14. SumFunctionOnSet(u, ids) = SumFunctionOnSet(CppTaskUtilization, ids)
      BY <3>11, <3>13, SumSame, ZenonT(60)
    <3>15. SumFunctionOnSet(CppTaskUtilization, ids) \in Nat
      <4>1. \A k \in ids : CppTaskUtilization[k] \in Nat
        BY <3>11, ZenonT(60)
      <4> QED  BY <3>13, <4>1, SumIsNat, ZenonT(60)
    <3>16. PICK y \in Nat, z \in Nat : /\ y = SumFunctionOnSet(CppTaskUtilization, ids)
                                      /\ z = SumFunctionOnSet(CppTaskUtilization, there)
      BY <3>10, <3>15, ZenonT(60)
    <3>17. y <= z /\ z <= CPU_UTILIZATION_THRESHOLD
      BY <3>10, <3>12, <3>16, Zenon
    <3>18. y <= CPU_UTILIZATION_THRESHOLD
      BY <3>17, ConfigAssumption
    <3> QED  BY <2>1, <3>14, <3>16, <3>18, Zenon
  <2> QED  BY <2>2, <2>3, ZenonT(60)
<1> QED  BY <1>1, CppInvariance, WireInvariance, PTL
=============================================================================
