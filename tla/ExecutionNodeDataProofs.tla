----------------------- MODULE ExecutionNodeDataProofs -----------------------
(***************************************************************************)
(* Theorems about the rows of a query's execution, for every plan, mask,   *)
(* number of rows and block size: what is computed is right, a failure     *)
(* never shortens it silently, and the exception that is reported is a     *)
(* cause and not its consequence.                                          *)
(*                                                                         *)
(* On top of the control of ExecutionNodeProofs the invariant says which   *)
(* rows of its meaning each node holds in its buffer, has emitted and has  *)
(* read so far, as long as nothing that it reads, directly or not, has     *)
(* failed (such a node is clean), and that an assertion fails only in a    *)
(* node with an input that is not clean.                                   *)
(***************************************************************************)
EXTENDS ExecutionNodeProofs

-----------------------------------------------------------------------------
(* Blocks of rows.                                                         *)

\* The rows before block k + 1, if the blocks before it are full.
Pos(k) == k * BlockSize
\* The rows of s in its first k blocks.
Upper(s, k) == IF Pos(k) < Len(s) THEN Pos(k) ELSE Len(s)
\* b is the block of s after k blocks.
IsChunk(b, s, k) ==
  /\ Pos(k) < Len(s) /\ Len(b) = Upper(s, k + 1) - Pos(k)
  /\ \A j \in 1 .. Len(b) : b[j] = s[Pos(k) + j]
\* The first i rows of b follow k blocks of t, and y rows of t are done.
Fills(t, k, i, b, y) ==
  /\ y = Pos(k) + i
  /\ \A j \in 1 .. i : j \in DOMAIN b /\ b[j] = t[Pos(k) + j]

LEMMA PosStep ==
  ASSUME NEW k \in Nat
  PROVE  Pos(k) \in Nat /\ Pos(0) = 0 /\ Pos(k + 1) = Pos(k) + BlockSize
<1>1. BlockSize \in Nat
  BY ConstantTypes
<1>2. Pos(k) \in Nat /\ Pos(0) = 0
  BY <1>1 DEF Pos
<1>3. Pos(k + 1) = Pos(k) + BlockSize
  BY <1>1 DEF Pos
<1>4. QED
  BY <1>2, <1>3

LEMMA PosMonotone ==
  ASSUME NEW j \in Nat, NEW k \in Nat, j <= k
  PROVE  Pos(j) <= Pos(k)
<1>1. PICK i \in Nat : k = j + i
  <2>1. k - j \in Nat /\ k = j + (k - j)
    OBVIOUS
  <2>2. QED
    BY <2>1
<1>2. Pos(i) \in Nat /\ Pos(j) \in Nat
  BY PosStep
<1>3. Pos(k) = Pos(j) + Pos(i)
  BY <1>1, ConstantTypes DEF Pos
<1>4. QED
  BY <1>2, <1>3

LEMMA UpperIs ==
  ASSUME NEW S, NEW s \in Seq(S), NEW k \in Nat
  PROVE  /\ Upper(s, k) \in 0 .. Len(s) /\ Upper(s, k) <= Upper(s, k + 1)
         /\ Pos(k) < Len(s) => Upper(s, k) = Pos(k) /\ Pos(k) < Upper(s, k + 1)
                               /\ Upper(s, k + 1) <= Pos(k) + BlockSize
         /\ Len(s) <= Pos(k) => Upper(s, k) = Len(s)
         /\ Upper(s, k) = Len(s) => Len(s) <= Pos(k)
<1>1. Pos(k) \in Nat /\ Pos(k + 1) = Pos(k) + BlockSize
  BY PosStep
<1>2. Len(s) \in Nat /\ BlockSize \in Nat \ {0}
  BY ConstantTypes
<1>3. QED
  BY <1>1, <1>2 DEF Upper

LEMMA ResizeIs ==
  ASSUME NEW b, NEW k \in Nat
  PROVE  /\ DOMAIN Resize(b, k) = 1 .. k /\ Len(Resize(b, k)) = k
         /\ \A j \in 1 .. k : j \in DOMAIN b => Resize(b, k)[j] = b[j]
<1>1. PICK c : c = Resize(b, k)
  OBVIOUS
<1>2. c = [j \in 1 .. k |-> RowAt(b, j)]
  BY <1>1 DEF Resize
<1>3. DOMAIN c = 1 .. k /\ \A j \in 1 .. k : c[j] = RowAt(b, j)
  BY <1>2
<1>4. Len(c) = k
  BY <1>2
<1>5. QED
  BY <1>1, <1>3, <1>4 DEF RowAt

LEMMA SetRowIs ==
  ASSUME NEW b, NEW i \in Nat, i + 1 \in 1 .. BlockSize, NEW v
  PROVE  /\ DOMAIN SetRow(b, i + 1, v) = 1 .. BlockSize /\ Len(SetRow(b, i + 1, v)) = BlockSize
         /\ SetRow(b, i + 1, v)[i + 1] = v
         /\ \A j \in 1 .. i : j \in DOMAIN b => SetRow(b, i + 1, v)[j] = b[j]
<1>1. PICK c : c = Resize(b, BlockSize)
  OBVIOUS
<1>2. PICK e : e = SetRow(b, i + 1, v)
  OBVIOUS
<1>3. BlockSize \in Nat
  BY ConstantTypes
<1>4. DOMAIN c = 1 .. BlockSize /\ \A j \in 1 .. BlockSize : j \in DOMAIN b => c[j] = b[j]
  BY <1>1, <1>3, ResizeIs
<1>5. e = [c EXCEPT ![i + 1] = v]
  BY <1>1, <1>2 DEF SetRow
<1>6. c = [j \in 1 .. BlockSize |-> RowAt(b, j)]
  BY <1>1 DEF Resize
<1>7. DOMAIN e = 1 .. BlockSize /\ e[i + 1] = v /\ \A j \in 1 .. BlockSize : j # i + 1 => e[j] = c[j]
  BY <1>5, <1>6
<1>8. Len(e) = BlockSize
  <2>1. PICK f : f = [j \in 1 .. BlockSize |-> e[j]]
    OBVIOUS
  <2>2. f = e
    BY <1>5, <1>6, <1>7, <2>1
  <2>3. Len(f) = BlockSize
    BY <1>3, <2>1
  <2>4. QED
    BY <2>2, <2>3
<1>9. ASSUME NEW j \in 1 .. i, j \in DOMAIN b PROVE e[j] = b[j]
  <2>1. j \in 1 .. BlockSize /\ j # i + 1
    BY <1>3
  <2>2. QED
    BY <1>4, <1>7, <1>9, <2>1
<1>10. QED
  BY <1>2, <1>7, <1>8, <1>9

LEMMA SetRowLen ==
  ASSUME NEW b, NEW i \in Nat, i + 1 \in 1 .. BlockSize, NEW v, NEW e, e = SetRow(b, i + 1, v)
  PROVE  Len(e) = BlockSize
BY SetRowIs

\* The next row is put into the buffer,
LEMMA FillsKeep ==
  ASSUME NEW t, NEW k \in Nat, NEW i \in Nat, i + 1 \in 1 .. BlockSize, NEW b, NEW y, Fills(t, k, i, b, y)
  PROVE  /\ y \in Nat /\ y = Pos(k) + i
         /\ Fills(t, k, i + 1, SetRow(b, i + 1, t[y + 1]), y + 1)
<1>1. Pos(k) \in Nat /\ BlockSize \in Nat
  BY PosStep, ConstantTypes
<1>2. y = Pos(k) + i /\ \A j \in 1 .. i : j \in DOMAIN b /\ b[j] = t[Pos(k) + j]
  BY DEF Fills
<1>3. PICK v : v = t[y + 1]
  OBVIOUS
<1>4. PICK c : c = SetRow(b, i + 1, v)
  OBVIOUS
<1>5. DOMAIN c = 1 .. BlockSize /\ c[i + 1] = v /\ \A j \in 1 .. i : j \in DOMAIN b => c[j] = b[j]
  BY <1>4, SetRowIs
<1>6. ASSUME NEW j \in 1 .. (i + 1) PROVE j \in DOMAIN c /\ c[j] = t[Pos(k) + j]
  <2>1. CASE j = i + 1
    <3>1. Pos(k) + j = y + 1
      BY <1>1, <1>2, <2>1
    <3>2. QED
      BY <1>3, <1>5, <2>1, <3>1
  <2>2. CASE j # i + 1
    <3>1. j \in 1 .. i /\ j \in 1 .. BlockSize
      BY <1>1, <2>2
    <3>2. QED
      BY <1>2, <1>5, <3>1
  <2>3. QED
    BY <2>1, <2>2
<1>7. y + 1 = Pos(k) + (i + 1) /\ y \in Nat
  BY <1>1, <1>2
<1>8. QED
  BY <1>2, <1>3, <1>4, <1>6, <1>7 DEF Fills

\* which may fill it.
LEMMA FillsEmit ==
  ASSUME NEW S, NEW t \in Seq(S), NEW k \in Nat, NEW i \in Nat, i = BlockSize, NEW b, NEW y, Fills(t, k, i, b, y),
         Len(b) = BlockSize, y <= Len(t)
  PROVE  IsChunk(b, t, k) /\ Fills(t, k + 1, 0, b, y)
<1>1. Pos(k) \in Nat /\ BlockSize \in Nat \ {0} /\ Len(t) \in Nat /\ Pos(k + 1) = Pos(k) + BlockSize
  BY PosStep, ConstantTypes
<1>2. y = Pos(k) + i /\ \A j \in 1 .. i : b[j] = t[Pos(k) + j]
  BY DEF Fills
<1>3. Pos(k) < Len(t) /\ y = Pos(k + 1) + 0
  BY <1>1, <1>2
<1>4. Upper(t, k + 1) = Pos(k + 1)
  BY <1>1, <1>2 DEF Upper
<1>5. IsChunk(b, t, k)
  BY <1>1, <1>2, <1>3, <1>4 DEF IsChunk
<1>6. Fills(t, k + 1, 0, b, y)
  BY <1>3 DEF Fills
<1>7. QED
  BY <1>5, <1>6

\* What is left over is the last block.
LEMMA FillsRest ==
  ASSUME NEW S, NEW t \in Seq(S), NEW k \in Nat, NEW i \in 0 .. (BlockSize - 1), NEW b, Fills(t, k, i, b, Len(t))
  PROVE  /\ i = 0 => Len(t) <= Pos(k)
         /\ i > 0 => IsChunk(Resize(b, i), t, k) /\ Len(t) <= Pos(k + 1)
<1>1. Pos(k) \in Nat /\ BlockSize \in Nat \ {0} /\ Len(t) \in Nat /\ Pos(k + 1) = Pos(k) + BlockSize /\ i \in Nat
  BY PosStep, ConstantTypes
<1>2. Len(t) = Pos(k) + i /\ \A j \in 1 .. i : j \in DOMAIN b /\ b[j] = t[Pos(k) + j]
  BY DEF Fills
<1>3. PICK c : c = Resize(b, i)
  OBVIOUS
<1>4. Len(c) = i /\ \A j \in 1 .. i : c[j] = t[Pos(k) + j]
  BY <1>1, <1>2, <1>3, ResizeIs
<1>5. Upper(t, k + 1) = Len(t)
  BY <1>1, <1>2 DEF Upper
<1>6. i > 0 => IsChunk(c, t, k)
  BY <1>1, <1>2, <1>4, <1>5 DEF IsChunk
<1>7. QED
  BY <1>1, <1>2, <1>3, <1>6

-----------------------------------------------------------------------------
(* What a plan means.                                                      *)

\* One step of Filtered.
FilterFrom(s, m, mask, f, k) ==
  IF k = 0 THEN <<>>
  ELSE IF RowAt(m, k) \in mask THEN Append(f[k - 1], s[k]) ELSE f[k - 1]

\* U[k] is what is left of the first k rows of s.
IsUpto(s, m, mask, U) ==
  /\ U \in [0 .. Len(s) -> Seq(1 .. NumRows)] /\ U[0] = <<>>
  /\ \A k \in 0 .. (Len(s) - 1) :
       U[k + 1] = IF RowAt(m, k + 1) \in mask THEN Append(U[k], s[k + 1]) ELSE U[k]

LEMMA FilteredUpto ==
  ASSUME NEW s \in Seq(1 .. NumRows), NEW m, NEW mask
  PROVE  \E U : IsUpto(s, m, mask, U) /\ Filtered(s, m, mask) = U[Len(s)]
<1>1. PICK l \in Nat : l = Len(s)
  OBVIOUS
<1> DEFINE Body(f) == [k \in 0 .. l |-> FilterFrom(s, m, mask, f, k)]
           V == Seq(1 .. NumRows)
           upto == CHOOSE f : f = Body(f)
<1>2. Filtered(s, m, mask) = upto[l]
  BY <1>1 DEF Filtered, FilterFrom
<1>3. ASSUME NEW f, NEW k \in 0 .. l, \A j \in 0 .. l : j < k => f[j] \in V
      PROVE  FilterFrom(s, m, mask, f, k) \in V
  <2>1. CASE k = 0
    BY <2>1 DEF FilterFrom
  <2>2. CASE k # 0
    <3>1. k - 1 \in 0 .. l /\ k - 1 < k /\ k \in 1 .. Len(s)
      BY <1>1, <2>2
    <3>2. f[k - 1] \in V /\ s[k] \in 1 .. NumRows
      BY <1>3, <3>1, ElementOfSeq
    <3>3. Append(f[k - 1], s[k]) \in V
      BY <3>2
    <3>4. QED
      BY <2>2, <3>2, <3>3 DEF FilterFrom
  <2>3. QED
    BY <2>1, <2>2
<1>4. \E f : f = Body(f)
  <2> DEFINE G == [f \in [0 .. l -> V] |-> Body(f)]
  <2>1. ASSUME NEW f \in [0 .. l -> V] PROVE Body(f) \in [0 .. l -> V]
    BY <1>3
  <2>2. G \in [[0 .. l -> V] -> [0 .. l -> V]]
    BY <2>1
  <2>3. ASSUME NEW f \in [0 .. l -> V], NEW g \in [0 .. l -> V], NEW n \in 0 .. l,
               \A k \in 0 .. l : k < n => f[k] = g[k]
        PROVE  G[f][n] = G[g][n]
    <3>1. FilterFrom(s, m, mask, f, n) = FilterFrom(s, m, mask, g, n)
      <4>1. n # 0 => n - 1 \in 0 .. l /\ n - 1 < n
        OBVIOUS
      <4>2. QED
        BY <2>3, <4>1 DEF FilterFrom
    <3>2. G[f] = Body(f) /\ G[g] = Body(g)
      OBVIOUS
    <3>3. QED
      BY <3>1, <3>2
  <2>4. <<>> \in V /\ 0 \in Nat
    OBVIOUS
  <2>5. \A f \in [0 .. l -> V] : G[f] = Body(f)
    OBVIOUS
  <2> HIDE DEF G, V, Body
  <2>6. \A f, g \in [0 .. l -> V] : \A n \in 0 .. l :
          (\A k \in 0 .. l : k < n => f[k] = g[k]) => G[f][n] = G[g][n]
    BY <2>3
  <2>7. Causal(0, l, V, G)
    BY <2>2, <2>6 DEF Causal
  <2>8. HasFixpoint(0, l, V, G)
    BY <2>4, <2>7, RecursionExists
  <2>9. QED
    BY <2>5, <2>8 DEF HasFixpoint
<1>5. upto = Body(upto)
  BY <1>4
<1>6. PICK U : U = upto
  OBVIOUS
<1> HIDE DEF upto
<1>7. U = [k \in 0 .. l |-> FilterFrom(s, m, mask, U, k)]
  BY <1>5, <1>6
<1>8. \A k \in 0 .. l : U[k] = FilterFrom(s, m, mask, U, k)
  BY <1>7
<1>9. \A k \in 0 .. l : U[k] \in V
  <2> DEFINE T == {k \in Nat : k \in 0 .. l /\ U[k] \notin V}
  <2>1. SUFFICES T = {}
    OBVIOUS
  <2>2. SUFFICES ASSUME T # {} PROVE FALSE
    OBVIOUS
  <2>3. PICK k \in T : \A j \in T : k <= j
    BY <2>2, Least
  <2>4. ASSUME NEW j \in 0 .. l, j < k PROVE U[j] \in V
    BY <2>3, <2>4
  <2>5. U[k] = FilterFrom(s, m, mask, U, k) /\ U[k] \notin V /\ k \in 0 .. l
    BY <1>8, <2>3
  <2>6. QED
    BY <1>3, <2>4, <2>5
<1>10. DOMAIN U = 0 .. l
  BY <1>7
<1>11. U \in [0 .. l -> V]
  <2>1. U = [k \in 0 .. l |-> U[k]]
    BY <1>7, <1>8
  <2>2. QED
    BY <1>9, <2>1
<1>12. U[0] = <<>>
  BY <1>8 DEF FilterFrom
<1>13. ASSUME NEW k \in 0 .. (l - 1)
       PROVE  U[k + 1] = IF RowAt(m, k + 1) \in mask THEN Append(U[k], s[k + 1]) ELSE U[k]
  <2>1. k + 1 \in 0 .. l /\ k + 1 # 0 /\ (k + 1) - 1 = k
    OBVIOUS
  <2>2. U[k + 1] = FilterFrom(s, m, mask, U, k + 1)
    BY <1>8, <2>1
  <2>3. QED
    BY <2>1, <2>2 DEF FilterFrom
<1>14. IsUpto(s, m, mask, U)
  BY <1>1, <1>11, <1>12, <1>13 DEF IsUpto
<1>15. QED
  BY <1>1, <1>2, <1>6, <1>14

\* C[k] of the rows of t are rows of the first k rows of s, those in the mask.
CountsOf(s, t, mask, C) ==
  /\ C \in [0 .. Len(s) -> Nat] /\ C[0] = 0 /\ C[Len(s)] = Len(t)
  /\ \A k \in 0 .. (Len(s) - 1) :
       /\ s[k + 1] \in mask => C[k + 1] = C[k] + 1 /\ C[k + 1] <= Len(t) /\ t[C[k] + 1] = s[k + 1]
       /\ s[k + 1] \notin mask => C[k + 1] = C[k]

\* What has been kept stays.
LEMMA UptoPrefix ==
  ASSUME NEW s \in Seq(1 .. NumRows), NEW m, NEW mask, NEW U, IsUpto(s, m, mask, U), NEW k \in 0 .. Len(s)
  PROVE  \A n \in k .. Len(s) : /\ Len(U[k]) <= Len(U[n])
                                /\ \A j \in 1 .. Len(U[k]) : U[n][j] = U[k][j]
<1>1. PICK l \in Nat : l = Len(s)
  OBVIOUS
<1> DEFINE P(n) == Len(U[k]) <= Len(U[n]) /\ \A j \in 1 .. Len(U[k]) : U[n][j] = U[k][j]
           T == {n \in Nat : n \in k .. l /\ ~ P(n)}
<1>2. SUFFICES ASSUME T # {} PROVE FALSE
  BY <1>1
<1>3. PICK n \in T : \A j \in T : n <= j
  BY <1>2, Least
<1>4. n \in k .. l /\ ~ P(n) /\ k \in 0 .. l
  BY <1>1, <1>3
<1>14. \A x \in 0 .. l : U[x] \in Seq(1 .. NumRows)
  BY <1>1 DEF IsUpto
<1>15. \A x \in 0 .. l : Len(U[x]) \in Nat
  BY <1>14, LenProperties
<1>5. U[k] \in Seq(1 .. NumRows) /\ Len(U[k]) \in Nat
  BY <1>4, <1>14, <1>15
<1>6. P(k)
  BY <1>5
<1>7. PICK i \in 0 .. (l - 1) : n = i + 1 /\ i \in k .. l
  <2>1. n # k
    BY <1>4, <1>6
  <2>2. n - 1 \in 0 .. (l - 1) /\ n = (n - 1) + 1 /\ n - 1 \in k .. l
    BY <1>4, <2>1
  <2>3. QED
    BY <2>2
<1>8. P(i)
  <2>1. i \notin T
    BY <1>3, <1>7
  <2>2. i \in Nat
    BY <1>7
  <2>3. QED
    BY <1>7, <2>1, <2>2
<1>9. U[i] \in Seq(1 .. NumRows) /\ Len(U[i]) \in Nat
  <2>1. i \in 0 .. l
    BY <1>7
  <2>2. QED
    BY <2>1, <1>14, <1>15
<1>10. U[n] = Append(U[i], s[i + 1]) \/ U[n] = U[i]
  BY <1>1, <1>7 DEF IsUpto
<1>11. CASE U[n] = U[i]
  BY <1>4, <1>8, <1>11
<1>12. CASE U[n] = Append(U[i], s[i + 1])
  <2>8. i + 1 \in 1 .. Len(s)
    BY <1>1, <1>7
  <2>1. s[i + 1] \in 1 .. NumRows
    BY <2>8, ElementOfSeq
  <2>2. PICK u \in Seq(1 .. NumRows), v \in 1 .. NumRows : u = U[i] /\ v = s[i + 1]
    BY <1>9, <2>1
  <2>3. Len(Append(u, v)) = Len(u) + 1 /\ \A j \in 1 .. Len(u) : Append(u, v)[j] = u[j]
    BY <2>2, AppendProperties
  <2>4. Len(U[n]) = Len(U[i]) + 1 /\ \A j \in 1 .. Len(U[i]) : U[n][j] = U[i][j]
    BY <1>12, <2>2, <2>3
  <2>5. \A j \in 1 .. Len(U[k]) : j \in 1 .. Len(U[i])
    BY <1>5, <1>8, <1>9
  <2>9. Len(U[k]) <= Len(U[n])
    BY <1>5, <1>8, <1>9, <2>4
  <2>10. \A j \in 1 .. Len(U[k]) : U[n][j] = U[k][j]
    BY <1>8, <2>4, <2>5
  <2>6. P(n)
    BY <2>9, <2>10
  <2>7. QED
    BY <1>4, <2>6
<1>13. QED
  BY <1>10, <1>11, <1>12

LEMMA FilteredCounts ==
  ASSUME NEW s \in Seq(1 .. NumRows), NEW mask
  PROVE  \E C : CountsOf(s, Filtered(s, s, mask), mask, C)
<1>1. PICK l \in Nat : l = Len(s)
  OBVIOUS
<1>2. PICK U : IsUpto(s, s, mask, U) /\ Filtered(s, s, mask) = U[l]
  BY <1>1, FilteredUpto
<1>3. PICK t : t = U[l]
  OBVIOUS
<1>4. PICK C : C = [k \in 0 .. l |-> Len(U[k])]
  OBVIOUS
<1>5. \A k \in 0 .. l : U[k] \in Seq(1 .. NumRows) /\ Len(U[k]) \in Nat /\ C[k] = Len(U[k])
  <2>1. U \in [0 .. l -> Seq(1 .. NumRows)]
    BY <1>1, <1>2 DEF IsUpto
  <2>2. SUFFICES ASSUME NEW k \in 0 .. l
                 PROVE  U[k] \in Seq(1 .. NumRows) /\ Len(U[k]) \in Nat /\ C[k] = Len(U[k])
    OBVIOUS
  <2>3. C[k] = Len(U[k])
    BY <1>4
  <2>4. U[k] \in Seq(1 .. NumRows)
    BY <2>1
  <2>5. QED
    BY <2>3, <2>4, LenProperties
<1>6. C \in [0 .. l -> Nat]
  BY <1>4, <1>5
<1>7. C[0] = 0 /\ C[l] = Len(t)
  BY <1>2, <1>3, <1>5 DEF IsUpto
<1>8. ASSUME NEW k \in 0 .. (l - 1)
      PROVE  /\ s[k + 1] \in mask => C[k + 1] = C[k] + 1 /\ C[k + 1] <= Len(t) /\ t[C[k] + 1] = s[k + 1]
             /\ s[k + 1] \notin mask => C[k + 1] = C[k]
  <2>1. k + 1 \in 1 .. l /\ k + 1 \in 0 .. l /\ k \in 0 .. l /\ l \in (k + 1) .. l
    OBVIOUS
  <2>2. s[k + 1] \in 1 .. NumRows /\ RowAt(s, k + 1) = s[k + 1]
    <3>1. k + 1 \in 1 .. Len(s)
      BY <1>1, <2>1
    <3>2. k + 1 \in DOMAIN s
      BY <3>1, LenProperties
    <3>3. QED
      BY <3>1, <3>2, ElementOfSeq DEF RowAt
  <2>3. U[k + 1] = IF s[k + 1] \in mask THEN Append(U[k], s[k + 1]) ELSE U[k]
    BY <1>1, <1>2, <2>2 DEF IsUpto
  <2>4. CASE s[k + 1] \notin mask
    BY <1>5, <2>1, <2>3, <2>4
  <2>5. CASE s[k + 1] \in mask
    <3>1. PICK u \in Seq(1 .. NumRows), v \in 1 .. NumRows : u = U[k] /\ v = s[k + 1]
      BY <1>5, <2>1, <2>2
    <3>2. Len(Append(u, v)) = Len(u) + 1 /\ Append(u, v)[Len(u) + 1] = v
      BY <3>1, AppendProperties
    <3>3. C[k + 1] = C[k] + 1 /\ U[k + 1][C[k] + 1] = s[k + 1]
      BY <1>5, <2>1, <2>3, <2>5, <3>1, <3>2
    <3>4. Len(U[k + 1]) <= Len(U[l]) /\ \A j \in 1 .. Len(U[k + 1]) : U[l][j] = U[k + 1][j]
      BY <1>1, <1>2, <2>1, UptoPrefix
    <3>5. C[k] + 1 \in 1 .. Len(U[k + 1])
      <4>1. Len(U[k + 1]) = C[k + 1]
        BY <1>5, <2>1
      <4>2. PICK i \in Nat : i = C[k]
        BY <1>6, <2>1
      <4>3. Len(U[k + 1]) = i + 1
        BY <3>3, <4>1, <4>2
      <4>4. i + 1 \in 1 .. (i + 1)
        OBVIOUS
      <4>5. QED
        BY <4>2, <4>3, <4>4
    <3>6. QED
      BY <1>3, <1>5, <2>1, <2>5, <3>3, <3>4, <3>5
  <2>6. QED
    BY <2>4, <2>5
<1>9. CountsOf(s, t, mask, C)
  BY <1>1, <1>6, <1>7, <1>8 DEF CountsOf
<1>10. QED
  BY <1>2, <1>3, <1>9

\* Rows that are not in the mask do not count.
LEMMA CountSame ==
  ASSUME NEW s \in Seq(1 .. NumRows), NEW t, NEW mask, NEW C, CountsOf(s, t, mask, C),
         NEW a \in 0 .. Len(s), NEW b \in a .. Len(s), \A j \in (a + 1) .. b : s[j] \notin mask
  PROVE  C[b] = C[a]
<1>1. PICK l \in Nat : l = Len(s)
  OBVIOUS
<1> DEFINE T == {n \in Nat : n \in a .. b /\ C[n] # C[a]}
<1>2. SUFFICES ASSUME T # {} PROVE FALSE
  BY <1>1
<1>3. PICK n \in T : \A j \in T : n <= j
  BY <1>2, Least
<1>4. n \in a .. b /\ C[n] # C[a] /\ a \in 0 .. l /\ b \in a .. l
  BY <1>1, <1>3
<1>5. PICK i \in 0 .. (l - 1) : n = i + 1 /\ i \in a .. b /\ i + 1 \in (a + 1) .. b
  <2>1. n # a
    BY <1>4
  <2>2. n - 1 \in 0 .. (l - 1) /\ n = (n - 1) + 1 /\ n - 1 \in a .. b /\ (n - 1) + 1 \in (a + 1) .. b
    BY <1>4, <2>1
  <2>3. QED
    BY <2>2
<1>6. C[i] = C[a]
  <2>1. i \notin T
    BY <1>3, <1>5
  <2>2. i \in Nat
    BY <1>5
  <2>3. QED
    BY <1>5, <2>1, <2>2
<1>7. C[i + 1] = C[i]
  BY <1>1, <1>5 DEF CountsOf
<1>8. QED
  BY <1>4, <1>5, <1>6, <1>7

LEMMA FilteredTyped ==
  ASSUME NEW s \in Seq(1 .. NumRows), NEW m, NEW mask
  PROVE  Filtered(s, m, mask) \in Seq(1 .. NumRows)
<1>1. PICK U : IsUpto(s, m, mask, U) /\ Filtered(s, m, mask) = U[Len(s)]
  BY FilteredUpto
<1>2. Len(s) \in 0 .. Len(s)
  OBVIOUS
<1>3. QED
  BY <1>1, <1>2 DEF IsUpto

\* The inputs of a node that has two.
LEMMA TwoInputs ==
  ASSUME NEW p, IsPlan(p), NEW n \in DOMAIN p, p[n].op # "source"
  PROVE  /\ 1 \in 1 .. Arity(p, n) /\ p[n].in[1] \in DOMAIN p /\ p[n].in[1] \in Nat /\ p[n].in[1] < n
         /\ p[n].op \in {"filter", "append"} =>
              /\ Arity(p, n) = 2 /\ 2 \in 1 .. Arity(p, n)
              /\ p[n].in[2] \in DOMAIN p /\ p[n].in[2] \in Nat /\ p[n].in[2] < n
<1>1. Arity(p, n) \in Nat /\ 1 <= Arity(p, n) /\ (p[n].op \in {"filter", "append"} => Arity(p, n) = 2)
  BY PlanArity, PlanShape
<1>2. \A i \in 1 .. Arity(p, n) : p[n].in[i] \in DOMAIN p /\ p[n].in[i] \in Nat /\ p[n].in[i] < n
  BY PlanArity, PlanShape
<1>3. 1 \in 1 .. Arity(p, n) /\ (p[n].op \in {"filter", "append"} => 2 \in 1 .. Arity(p, n))
  BY <1>1
<1>4. QED
  BY <1>1, <1>2, <1>3

LEMMA RowsFromTyped ==
  ASSUME NEW p, IsPlan(p), NEW mask, NEW f, NEW n \in DOMAIN p,
         \A k \in DOMAIN p : k < n => f[k] \in Seq(1 .. NumRows)
  PROVE  RowsFrom(p, mask, f, n) \in Seq(1 .. NumRows)
<1>1. p[n].op \in {"source", "linear", "filter", "append"} /\ NumRows \in Nat
  BY PlanShape, PlanArity, ConstantTypes
<1>2. CASE p[n].op = "source"
  <2>1. [j \in 1 .. NumRows |-> j] \in Seq(1 .. NumRows)
    BY <1>1
  <2>2. QED
    BY <1>2, <2>1 DEF RowsFrom
<1>3. CASE p[n].op = "linear"
  BY <1>3, TwoInputs DEF RowsFrom
<1>4. CASE p[n].op = "filter"
  <2>1. f[p[n].in[1]] \in Seq(1 .. NumRows)
    BY <1>4, TwoInputs
  <2>2. QED
    BY <1>4, <2>1, FilteredTyped DEF RowsFrom
<1>5. CASE p[n].op = "append"
  <2>1. f[p[n].in[1]] \in Seq(1 .. NumRows) /\ f[p[n].in[2]] \in Seq(1 .. NumRows)
    BY <1>5, TwoInputs
  <2>2. QED
    BY <1>5, <2>1 DEF RowsFrom
<1>6. QED
  BY <1>1, <1>2, <1>3, <1>4, <1>5

LEMMA RowsFromSame ==
  ASSUME NEW p, IsPlan(p), NEW mask, NEW f, NEW g, NEW n \in DOMAIN p,
         \A k \in DOMAIN p : k < n => f[k] = g[k]
  PROVE  RowsFrom(p, mask, f, n) = RowsFrom(p, mask, g, n)
<1>1. p[n].op \in {"source", "linear", "filter", "append"}
  BY PlanShape, PlanArity
<1>2. p[n].op # "source" => f[p[n].in[1]] = g[p[n].in[1]]
  BY TwoInputs
<1>3. p[n].op \in {"filter", "append"} => f[p[n].in[2]] = g[p[n].in[2]]
  BY TwoInputs
<1>4. QED
  BY <1>1, <1>2, <1>3 DEF RowsFrom

LEMMA RowsAre ==
  ASSUME NEW p, IsPlan(p), NEW mask, NEW W, W = RowsOf(p, mask), NEW n \in DOMAIN p
  PROVE  W[n] \in Seq(1 .. NumRows) /\ W[n] = RowsFrom(p, mask, W, n)
<1>1. PICK l \in Nat \ {0} : l = Len(p) /\ DOMAIN p = 1 .. l
  BY PlanShape
<1> DEFINE Body(f) == [x \in DOMAIN p |-> RowsFrom(p, mask, f, x)]
           V == Seq(1 .. NumRows)
           rows == CHOOSE f : f = Body(f)
<1>2. W = rows
  BY DEF RowsOf
<1>3. \E f : f = Body(f)
  <2> DEFINE G == [f \in [1 .. l -> V] |-> Body(f)]
  <2>1. ASSUME NEW f \in [1 .. l -> V] PROVE Body(f) \in [1 .. l -> V]
    <3>1. \A x \in 1 .. l : RowsFrom(p, mask, f, x) \in V
      BY <1>1, RowsFromTyped
    <3>2. QED
      BY <1>1, <3>1
  <2>2. G \in [[1 .. l -> V] -> [1 .. l -> V]]
    BY <2>1
  <2>3. ASSUME NEW f \in [1 .. l -> V], NEW g \in [1 .. l -> V], NEW x \in 1 .. l,
               \A k \in 1 .. l : k < x => f[k] = g[k]
        PROVE  G[f][x] = G[g][x]
    <3>1. RowsFrom(p, mask, f, x) = RowsFrom(p, mask, g, x)
      BY <1>1, <2>3, RowsFromSame
    <3>2. G[f] = Body(f) /\ G[g] = Body(g)
      OBVIOUS
    <3>3. QED
      BY <1>1, <3>1, <3>2
  <2>4. <<>> \in V /\ 1 \in Nat /\ l \in Nat
    OBVIOUS
  <2>5. \A f \in [1 .. l -> V] : G[f] = Body(f)
    OBVIOUS
  <2> HIDE DEF G, V, Body
  <2>6. \A f, g \in [1 .. l -> V] : \A x \in 1 .. l :
          (\A k \in 1 .. l : k < x => f[k] = g[k]) => G[f][x] = G[g][x]
    BY <2>3
  <2>7. Causal(1, l, V, G)
    BY <2>2, <2>6 DEF Causal
  <2>8. HasFixpoint(1, l, V, G)
    BY <2>4, <2>7, RecursionExists
  <2>9. QED
    BY <2>5, <2>8 DEF HasFixpoint
<1>4. rows = Body(rows)
  BY <1>3
<1> HIDE DEF rows
<1>5. \A x \in 1 .. l : W[x] = RowsFrom(p, mask, W, x)
  BY <1>1, <1>2, <1>4
<1>6. \A x \in 1 .. l : W[x] \in V
  <2> DEFINE T == {x \in Nat : x \in 1 .. l /\ W[x] \notin V}
  <2>1. SUFFICES ASSUME T # {} PROVE FALSE
    OBVIOUS
  <2>2. PICK x \in T : \A j \in T : x <= j
    BY <2>1, Least
  <2>3. ASSUME NEW k \in 1 .. l, k < x PROVE W[k] \in V
    BY <2>2, <2>3
  <2>4. W[x] = RowsFrom(p, mask, W, x) /\ W[x] \notin V /\ x \in 1 .. l
    BY <1>5, <2>2
  <2>5. RowsFrom(p, mask, W, x) \in V
    BY <1>1, <2>3, <2>4, RowsFromTyped
  <2>6. QED
    BY <2>4, <2>5
<1>7. QED
  BY <1>1, <1>5, <1>6

\* The rows of the nodes, when inputs that are read together have the same rows.
RowsKnown(p, mask, W) == \A n \in DOMAIN p :
  /\ W[n] \in Seq(1 .. NumRows)
  /\ p[n].op = "source" => Len(W[n]) = NumRows /\ \A j \in 1 .. NumRows : W[n][j] = j
  /\ p[n].op = "linear" => \A i \in 1 .. Arity(p, n) : W[p[n].in[i]] = W[n]
  /\ p[n].op = "filter" => /\ W[p[n].in[2]] = W[p[n].in[1]]
                           /\ \E C : CountsOf(W[p[n].in[1]], W[n], mask, C)
  /\ p[n].op = "append" =>
       /\ Len(W[n]) = Len(W[p[n].in[1]]) + Len(W[p[n].in[2]])
       /\ \A j \in 1 .. Len(W[p[n].in[1]]) : W[n][j] = W[p[n].in[1]][j]
       /\ \A j \in 1 .. Len(W[p[n].in[2]]) : W[n][Len(W[p[n].in[1]]) + j] = W[p[n].in[2]][j]

LEMMA RowsAligned ==
  ASSUME NEW p, IsPlan(p), NEW mask, Aligned(p, mask)
  PROVE  RowsKnown(p, mask, RowsOf(p, mask))
<1>1. PICK W : W = RowsOf(p, mask)
  OBVIOUS
<1>2. SUFFICES ASSUME NEW n \in DOMAIN p
      PROVE  /\ W[n] \in Seq(1 .. NumRows)
             /\ p[n].op = "source" => Len(W[n]) = NumRows /\ \A j \in 1 .. NumRows : W[n][j] = j
             /\ p[n].op = "linear" => \A i \in 1 .. Arity(p, n) : W[p[n].in[i]] = W[n]
             /\ p[n].op = "filter" => /\ W[p[n].in[2]] = W[p[n].in[1]]
                                      /\ \E C : CountsOf(W[p[n].in[1]], W[n], mask, C)
             /\ p[n].op = "append" =>
                  /\ Len(W[n]) = Len(W[p[n].in[1]]) + Len(W[p[n].in[2]])
                  /\ \A j \in 1 .. Len(W[p[n].in[1]]) : W[n][j] = W[p[n].in[1]][j]
                  /\ \A j \in 1 .. Len(W[p[n].in[2]]) : W[n][Len(W[p[n].in[1]]) + j] = W[p[n].in[2]][j]
  BY <1>1 DEF RowsKnown
<1>3. \A x \in DOMAIN p : W[x] \in Seq(1 .. NumRows) /\ W[x] = RowsFrom(p, mask, W, x)
  BY <1>1, RowsAre
<1>4. p[n].op \in {"linear", "filter"} => \A i \in 1 .. Arity(p, n) : W[p[n].in[i]] = W[p[n].in[1]]
  <2>1. DOMAIN p[n].in = 1 .. Arity(p, n)
    BY PlanArity, PlanShape
  <2>2. QED
    BY <1>1, <2>1 DEF Aligned
<1>5. CASE p[n].op = "source"
  <2>1. W[n] = [j \in 1 .. NumRows |-> j] /\ NumRows \in Nat
    BY <1>3, <1>5, ConstantTypes DEF RowsFrom
  <2>2. Len(W[n]) = NumRows /\ \A j \in 1 .. NumRows : W[n][j] = j
    BY <2>1
  <2>3. QED
    BY <1>3, <1>5, <2>2
<1>6. CASE p[n].op = "linear"
  <2>1. W[n] = W[p[n].in[1]]
    BY <1>3, <1>6 DEF RowsFrom
  <2>2. QED
    BY <1>3, <1>4, <1>6, <2>1
<1>7. CASE p[n].op = "filter"
  <2>1. p[n].in[1] \in DOMAIN p /\ 2 \in 1 .. Arity(p, n)
    BY <1>7, TwoInputs
  <2>2. W[n] = Filtered(W[p[n].in[1]], W[p[n].in[2]], mask) /\ W[p[n].in[2]] = W[p[n].in[1]]
    BY <1>3, <1>4, <1>7, <2>1 DEF RowsFrom
  <2>3. PICK s \in Seq(1 .. NumRows) : s = W[p[n].in[1]]
    BY <1>3, <2>1
  <2>4. \E C : CountsOf(s, Filtered(s, s, mask), mask, C)
    BY <2>3, FilteredCounts
  <2>5. \E C : CountsOf(W[p[n].in[1]], W[n], mask, C)
    BY <2>2, <2>3, <2>4
  <2>6. QED
    BY <1>3, <1>7, <2>2, <2>5
<1>8. CASE p[n].op = "append"
  <2>1. p[n].in[1] \in DOMAIN p /\ p[n].in[2] \in DOMAIN p
    BY <1>8, TwoInputs
  <2>2. PICK s \in Seq(1 .. NumRows), t \in Seq(1 .. NumRows) : s = W[p[n].in[1]] /\ t = W[p[n].in[2]]
    BY <1>3, <2>1
  <2>3. W[n] = s \o t
    BY <1>3, <1>8, <2>2 DEF RowsFrom
  <2>4. /\ Len(s \o t) = Len(s) + Len(t) /\ \A j \in 1 .. Len(s) : (s \o t)[j] = s[j]
        /\ \A j \in 1 .. Len(t) : (s \o t)[Len(s) + j] = t[j]
    BY ConcatProperties
  <2>5. QED
    BY <1>3, <1>8, <2>2, <2>3, <2>4
<1>9. p[n].op \in {"source", "linear", "filter", "append"}
  BY PlanShape, PlanArity
<1>10. QED
  BY <1>5, <1>6, <1>7, <1>8, <1>9

-----------------------------------------------------------------------------
(* What a filter has done.                                                 *)

\* It has looked at the first y rows of s, its inputs, of which it has read x
\* blocks.
FilterIsAt(mask, s, o, x, y) ==
  /\ o.pc \in {"first_left", "first_right", "first"} => y = 0
  /\ o.pc \in {"first_right", "first"} => x = 1
  /\ o.pc = "rows" => \E k \in Nat : /\ x = k + 1 /\ Pos(k) < Len(s)
                                     /\ y + 1 = Pos(k) + o.row /\ y <= Upper(s, x)
  /\ o.pc \in {"right", "test", "left", "skip_left"} => y = Upper(s, x)
  /\ o.pc = "check" => \E k \in Nat : x = k + 1 /\ y = Upper(s, k)
  /\ o.pc \in {"tail", "end"} => y = Len(s)
  /\ o.pc = "skip_left" => \A j \in (y + 1) .. Upper(s, x + 1) : s[j] \notin mask
\* It has emitted k blocks of t, its output, and has the next rows in b.
Filters(mask, C, s, t, o, b, k, x) ==
  \E y \in 0 .. Len(s) :
    /\ FilterIsAt(mask, s, o, x, y)
    /\ o.pc # "end" => Fills(t, k, o.outidx, b, C[y])
    /\ o.pc = "end" => Len(t) <= Pos(k)

\* The inputs and the output of a filter.
FilterRows(mask, C, s, t) ==
  s \in Seq(1 .. NumRows) /\ t \in Seq(1 .. NumRows) /\ CountsOf(s, t, mask, C)

LEMMA FilterStarts ==
  ASSUME NEW mask, NEW C, NEW s, NEW t, FilterRows(mask, C, s, t), NEW o, o.pc = "first_left",
         o.outidx = 0, NEW b, NEW x
  PROVE  Filters(mask, C, s, t, o, b, 0, x)
<1>1. 0 \in 0 .. Len(s) /\ C[0] = 0 /\ Pos(0) = 0
  BY PosStep DEF FilterRows, CountsOf
<1>2. Fills(t, 0, 0, b, C[0])
  BY <1>1 DEF Fills
<1>3. FilterIsAt(mask, s, o, x, 0)
  BY DEF FilterIsAt
<1>4. QED
  BY <1>1, <1>2, <1>3 DEF Filters

\* The moves that keep what has been looked at and what has been kept.
FilterMoves(mask, s, q, o, x, x2) ==
  \/ q.pc = "first_left" /\ o.pc = "first_right" /\ x2 = 1
  \/ q.pc = "first_right" /\ o.pc = "first" /\ x2 = x
  \/ q.pc = "right" /\ o.pc = "test" /\ x2 = x
  \/ q.pc = "test" /\ o.pc = "left" /\ x2 = x
  \/ q.pc = "left" /\ o.pc = "check" /\ x2 = x + 1
  \/ q.pc = "check" /\ o.pc = "tail" /\ \E k \in Nat : x = k + 1 /\ Len(s) <= Pos(k)
  \/ /\ q.pc = "check" /\ o.pc = "rows" /\ o.row = 1 /\ x2 = x
     /\ \E k \in Nat : x = k + 1 /\ Pos(k) < Len(s)
  \/ q.pc = "first" /\ o.pc = "rows" /\ o.row = 1 /\ x2 = x /\ Pos(0) < Len(s)
  \/ /\ q.pc = "rows" /\ o.pc = "right" /\ x2 = x
     /\ \E b1 : \E k \in Nat : x = k + 1 /\ IsChunk(b1, s, k) /\ q.row > Len(b1)
  \/ /\ q.pc = "test" /\ o.pc = "skip_left" /\ x2 = x
     /\ \E b2 : IsChunk(b2, s, x) /\ \A j \in 1 .. Len(b2) : b2[j] \notin mask
  \/ q.pc = o.pc /\ q.row = o.row /\ x2 = x

LEMMA FilterGoes ==
  ASSUME NEW mask, NEW C, NEW s, NEW t, FilterRows(mask, C, s, t), NEW q, NEW o, NEW b, NEW k \in Nat,
         NEW x \in Nat, NEW x2 \in Nat, Filters(mask, C, s, t, q, b, k, x), q.row \in Nat,
         FilterMoves(mask, s, q, o, x, x2), o.outidx = q.outidx
  PROVE  Filters(mask, C, s, t, o, b, k, x2)
<1>1. PICK l \in Nat : l = Len(s)
  BY DEF FilterRows
<1>2. PICK y \in 0 .. l : /\ FilterIsAt(mask, s, q, x, y)
                          /\ q.pc # "end" => Fills(t, k, q.outidx, b, C[y])
                          /\ q.pc = "end" => Len(t) <= Pos(k)
  BY <1>1 DEF Filters
<1>3. SUFFICES FilterIsAt(mask, s, o, x2, y) /\ (q.pc = "end" <=> o.pc = "end")
  BY <1>1, <1>2 DEF Filters
<1>4. s \in Seq(1 .. NumRows)
  BY DEF FilterRows
<1>5. CASE q.pc = "first_left" /\ o.pc = "first_right" /\ x2 = 1
  BY <1>2, <1>5 DEF FilterIsAt
<1>6. CASE q.pc = "first_right" /\ o.pc = "first" /\ x2 = x
  BY <1>2, <1>6 DEF FilterIsAt
<1>7. CASE q.pc = "right" /\ o.pc = "test" /\ x2 = x
  BY <1>2, <1>7 DEF FilterIsAt
<1>8. CASE q.pc = "test" /\ o.pc = "left" /\ x2 = x
  BY <1>2, <1>8 DEF FilterIsAt
<1>9. CASE q.pc = "left" /\ o.pc = "check" /\ x2 = x + 1
  BY <1>2, <1>9 DEF FilterIsAt
<1>10. CASE q.pc = "check" /\ o.pc = "tail" /\ \E j \in Nat : x = j + 1 /\ Len(s) <= Pos(j)
  <2>1. PICK j \in Nat : x = j + 1 /\ Len(s) <= Pos(j)
    BY <1>10
  <2>2. PICK i \in Nat : x = i + 1 /\ y = Upper(s, i)
    BY <1>2, <1>10 DEF FilterIsAt
  <2>3. i = j
    BY <2>1, <2>2
  <2>4. y = Len(s)
    BY <1>4, <2>1, <2>2, <2>3, UpperIs
  <2>5. QED
    BY <1>10, <2>4 DEF FilterIsAt
<1>11. CASE /\ q.pc = "check" /\ o.pc = "rows" /\ o.row = 1 /\ x2 = x
            /\ \E j \in Nat : x = j + 1 /\ Pos(j) < Len(s)
  <2>1. PICK j \in Nat : x = j + 1 /\ Pos(j) < Len(s)
    BY <1>11
  <2>2. PICK i \in Nat : x = i + 1 /\ y = Upper(s, i)
    BY <1>2, <1>11 DEF FilterIsAt
  <2>3. i = j
    BY <2>1, <2>2
  <2>4. y = Pos(j) /\ Pos(j) < Upper(s, j + 1)
    BY <1>4, <2>1, <2>2, <2>3, UpperIs
  <2>5. y + 1 = Pos(j) + o.row /\ y <= Upper(s, x2)
    BY <1>4, <1>11, <2>1, <2>4, UpperIs, PosStep
  <2>6. QED
    BY <1>11, <2>1, <2>5 DEF FilterIsAt
<1>12. CASE q.pc = "first" /\ o.pc = "rows" /\ o.row = 1 /\ x2 = x /\ Pos(0) < Len(s)
  <2>1. y = 0 /\ Pos(0) = 0 /\ x = 1
    BY <1>2, <1>12, PosStep DEF FilterIsAt
  <2>2. Upper(s, 0) <= Upper(s, 0 + 1) /\ Upper(s, 0) = Pos(0)
    BY <1>4, <1>12, UpperIs
  <2>3. x2 = 0 + 1 /\ y + 1 = Pos(0) + o.row /\ y <= Upper(s, x2) /\ 0 \in Nat
    BY <1>12, <2>1, <2>2
  <2>4. QED
    BY <1>12, <2>3 DEF FilterIsAt
<1>13. CASE /\ q.pc = "rows" /\ o.pc = "right" /\ x2 = x
            /\ \E b1 : \E j \in Nat : x = j + 1 /\ IsChunk(b1, s, j) /\ q.row > Len(b1)
  <2>1. PICK b1 : \E j \in Nat : x = j + 1 /\ IsChunk(b1, s, j) /\ q.row > Len(b1)
    BY <1>13
  <2>2. PICK j \in Nat : x = j + 1 /\ IsChunk(b1, s, j) /\ q.row > Len(b1)
    BY <2>1
  <2>3. PICK i \in Nat : x = i + 1 /\ y + 1 = Pos(i) + q.row /\ y <= Upper(s, x)
    BY <1>2, <1>13 DEF FilterIsAt
  <2>4. i = j
    BY <2>2, <2>3
  <2>5. Len(b1) = Upper(s, x) - Pos(j)
    BY <2>2 DEF IsChunk
  <2>6. Upper(s, x) \in Nat /\ Pos(j) \in Nat
    <3>1. Upper(s, x) \in 0 .. l
      BY <1>1, <1>4, UpperIs
    <3>2. Pos(j) \in Nat
      BY PosStep
    <3>3. QED
      BY <3>1, <3>2
  <2>7. y = Upper(s, x)
    BY <2>2, <2>3, <2>4, <2>5, <2>6
  <2>8. QED
    BY <1>13, <2>7 DEF FilterIsAt
<1>14. CASE /\ q.pc = "test" /\ o.pc = "skip_left" /\ x2 = x
            /\ \E b2 : IsChunk(b2, s, x) /\ \A j \in 1 .. Len(b2) : b2[j] \notin mask
  <2>1. PICK b2 : IsChunk(b2, s, x) /\ \A j \in 1 .. Len(b2) : b2[j] \notin mask
    BY <1>14
  <2>2. y = Upper(s, x)
    BY <1>2, <1>14 DEF FilterIsAt
  <2>3. Pos(x) < Len(s) /\ Len(b2) = Upper(s, x + 1) - Pos(x)
    BY <2>1 DEF IsChunk
  <2>4. y = Pos(x) /\ Pos(x) \in Nat /\ Upper(s, x + 1) \in Nat
    BY <1>1, <1>4, <2>2, <2>3, UpperIs, PosStep
  <2>5. ASSUME NEW j \in (y + 1) .. Upper(s, x + 1) PROVE s[j] \notin mask
    <3>1. j - y \in 1 .. Len(b2) /\ Pos(x) + (j - y) = j
      <4>1. PICK g \in Nat, v \in Nat : g = Pos(x) /\ v = Upper(s, x + 1) /\ g = y
        BY <2>4
      <4>2. j \in (g + 1) .. v
        BY <4>1
      <4>3. j - g \in 1 .. (v - g) /\ g + (j - g) = j
        BY <4>2
      <4>4. QED
        BY <2>3, <4>1, <4>3
    <3>2. b2[j - y] = s[j]
      BY <2>1, <3>1 DEF IsChunk
    <3>3. QED
      BY <2>1, <3>1, <3>2
  <2>6. QED
    BY <1>14, <2>2, <2>5 DEF FilterIsAt
<1>15. CASE q.pc = o.pc /\ q.row = o.row /\ x2 = x
  BY <1>2, <1>15 DEF FilterIsAt
<1>16. QED
  BY <1>5, <1>6, <1>7, <1>8, <1>9, <1>10, <1>11, <1>12, <1>13, <1>14, <1>15 DEF FilterMoves

\* The left block has been skipped: no row of it is missed.
LEMMA FilterSkips ==
  ASSUME NEW mask, NEW C, NEW s, NEW t, FilterRows(mask, C, s, t), NEW q, NEW o, NEW b, NEW k \in Nat,
         NEW x \in Nat, Filters(mask, C, s, t, q, b, k, x),
         q.pc = "skip_left", o.pc = "right", o.outidx = q.outidx
  PROVE  Filters(mask, C, s, t, o, b, k, x + 1)
<1>1. PICK l \in Nat : l = Len(s)
  BY DEF FilterRows
<1>2. PICK y \in 0 .. l : /\ FilterIsAt(mask, s, q, x, y) /\ Fills(t, k, q.outidx, b, C[y])
  BY <1>1 DEF Filters
<1>3. s \in Seq(1 .. NumRows) /\ CountsOf(s, t, mask, C)
  BY DEF FilterRows
<1>4. y = Upper(s, x) /\ \A j \in (y + 1) .. Upper(s, x + 1) : s[j] \notin mask
  BY <1>2 DEF FilterIsAt
<1>5. PICK u \in 0 .. l : u = Upper(s, x + 1) /\ y <= u
  <2>1. x + 1 \in Nat
    OBVIOUS
  <2>2. Upper(s, x + 1) \in 0 .. l
    BY <1>1, <1>3, <2>1, UpperIs
  <2>3. Upper(s, x) <= Upper(s, x + 1)
    BY <1>3, UpperIs
  <2>4. QED
    BY <1>4, <2>2, <2>3
<1>6. C[u] = C[y]
  <2>1. u \in y .. Len(s) /\ y \in 0 .. Len(s)
    BY <1>1, <1>5
  <2>2. \A j \in (y + 1) .. u : s[j] \notin mask
    BY <1>4, <1>5
  <2>3. QED
    BY <1>3, <2>1, <2>2, CountSame
<1>7. FilterIsAt(mask, s, o, x + 1, u)
  BY <1>5 DEF FilterIsAt
<1>8. Fills(t, k, o.outidx, b, C[u])
  BY <1>2, <1>6
<1>9. QED
  BY <1>1, <1>5, <1>7, <1>8 DEF Filters

\* A filter at row of the block b1 of its inputs.
AtRow(s, q, x, b1) ==
  /\ q.pc = "rows" /\ q.row \in 1 .. Len(b1)
  /\ \E k \in Nat : x = k + 1 /\ IsChunk(b1, s, k)

\* The next row of the inputs.
LEMMA FilterAtRow ==
  ASSUME NEW mask, NEW C, NEW s, NEW t, FilterRows(mask, C, s, t), NEW q, NEW b, NEW k \in Nat,
         NEW x \in Nat, Filters(mask, C, s, t, q, b, k, x), NEW b1, AtRow(s, q, x, b1)
  PROVE  \E y \in 0 .. (Len(s) - 1) :
           /\ Fills(t, k, q.outidx, b, C[y]) /\ b1[q.row] = s[y + 1]
           /\ \A o : o.pc = "rows" /\ o.row = q.row + 1 => FilterIsAt(mask, s, o, x, y + 1)
<1>1. PICK l \in Nat : l = Len(s)
  BY DEF FilterRows
<1>2. PICK y \in 0 .. l : FilterIsAt(mask, s, q, x, y) /\ Fills(t, k, q.outidx, b, C[y])
  BY <1>1 DEF Filters, AtRow
<1>3. PICK j \in Nat : x = j + 1 /\ IsChunk(b1, s, j)
  BY DEF AtRow
<1>4. PICK i \in Nat : x = i + 1 /\ Pos(i) < Len(s) /\ y + 1 = Pos(i) + q.row
  BY <1>2 DEF FilterIsAt, AtRow
<1>5. i = j
  BY <1>3, <1>4
<1>6. PICK u \in 0 .. l : u = Upper(s, x)
  <2>1. s \in Seq(1 .. NumRows)
    BY DEF FilterRows
  <2>2. QED
    BY <1>1, <2>1, UpperIs
<1>7. PICK r \in Nat : r = q.row /\ r \in 1 .. (u - Pos(j)) /\ b1[r] = s[Pos(j) + r]
  <2>1. q.row \in 1 .. Len(b1) /\ Len(b1) = u - Pos(j)
    BY <1>3, <1>6 DEF AtRow, IsChunk
  <2>2. b1[q.row] = s[Pos(j) + q.row]
    BY <1>3, <2>1 DEF IsChunk
  <2>5. Pos(j) \in Nat
    BY PosStep
  <2>3. q.row \in Nat
    BY <1>6, <2>1, <2>5
  <2>4. QED
    BY <2>1, <2>2, <2>3
<1>8. Pos(j) \in Nat
  BY PosStep
<1>9. y + 1 = Pos(j) + r /\ y + 1 <= u /\ y \in 0 .. (l - 1)
  BY <1>4, <1>5, <1>6, <1>7, <1>8
<1>10. ASSUME NEW o, o.pc = "rows", o.row = q.row + 1 PROVE FilterIsAt(mask, s, o, x, y + 1)
  <2>1. (y + 1) + 1 = Pos(j) + o.row
    BY <1>7, <1>8, <1>9, <1>10
  <2>2. QED
    BY <1>3, <1>4, <1>5, <1>6, <1>9, <1>10, <2>1 DEF FilterIsAt
<1>11. QED
  BY <1>1, <1>2, <1>7, <1>9, <1>10

\* It passes over a row that is not in the mask.
LEMMA FilterPasses ==
  ASSUME NEW mask, NEW C, NEW s, NEW t, FilterRows(mask, C, s, t), NEW q, NEW o, NEW b, NEW k \in Nat,
         NEW x \in Nat, Filters(mask, C, s, t, q, b, k, x), NEW b1, AtRow(s, q, x, b1),
         b1[q.row] \notin mask, o.pc = "rows", o.row = q.row + 1, o.outidx = q.outidx
  PROVE  Filters(mask, C, s, t, o, b, k, x)
<1>1. PICK l \in Nat : l = Len(s)
  BY DEF FilterRows
<1>2. PICK y \in 0 .. (l - 1) :
           /\ Fills(t, k, q.outidx, b, C[y]) /\ b1[q.row] = s[y + 1]
           /\ \A o2 : o2.pc = "rows" /\ o2.row = q.row + 1 => FilterIsAt(mask, s, o2, x, y + 1)
  BY <1>1, FilterAtRow
<1>3. C[y + 1] = C[y]
  BY <1>1, <1>2 DEF FilterRows, CountsOf
<1>4. y + 1 \in 0 .. l
  OBVIOUS
<1>5. FilterIsAt(mask, s, o, x, y + 1) /\ Fills(t, k, o.outidx, b, C[y + 1])
  BY <1>2, <1>3
<1>6. QED
  BY <1>1, <1>4, <1>5 DEF Filters

\* It copies a row that is,
LEMMA FilterKeeps ==
  ASSUME NEW mask, NEW C, NEW s, NEW t, FilterRows(mask, C, s, t), NEW q, NEW o, NEW b, NEW k \in Nat,
         NEW x \in Nat, Filters(mask, C, s, t, q, b, k, x), NEW b1, AtRow(s, q, x, b1),
         b1[q.row] \in mask, o.pc = "rows", o.row = q.row + 1,
         q.outidx \in 0 .. (BlockSize - 1), NEW b2, b2 = SetRow(b, q.outidx + 1, b1[q.row])
  PROVE  /\ o.outidx = q.outidx + 1 => Filters(mask, C, s, t, o, b2, k, x)
         /\ q.outidx + 1 = BlockSize /\ o.outidx = 0 =>
              IsChunk(b2, t, k) /\ Filters(mask, C, s, t, o, b2, k + 1, x)
<1>1. PICK l \in Nat : l = Len(s)
  BY DEF FilterRows
<1>2. PICK y \in 0 .. (l - 1) :
           /\ Fills(t, k, q.outidx, b, C[y]) /\ b1[q.row] = s[y + 1]
           /\ \A o2 : o2.pc = "rows" /\ o2.row = q.row + 1 => FilterIsAt(mask, s, o2, x, y + 1)
  BY <1>1, FilterAtRow
<1>3. C[y + 1] = C[y] + 1 /\ C[y + 1] <= Len(t) /\ t[C[y] + 1] = s[y + 1]
  BY <1>1, <1>2 DEF FilterRows, CountsOf
<1>4. y + 1 \in 0 .. l
  OBVIOUS
<1>5. PICK i \in Nat : i = q.outidx /\ i + 1 \in 1 .. BlockSize
  BY ConstantTypes
<1>6. Fills(t, k, i + 1, SetRow(b, i + 1, t[C[y] + 1]), C[y] + 1)
  BY <1>2, <1>5, FillsKeep
<1>7. Fills(t, k, i + 1, b2, C[y + 1])
  BY <1>2, <1>3, <1>5, <1>6
<1>8. FilterIsAt(mask, s, o, x, y + 1)
  BY <1>2
<1>9. o.outidx = q.outidx + 1 => Filters(mask, C, s, t, o, b2, k, x)
  BY <1>1, <1>4, <1>5, <1>7, <1>8 DEF Filters
<1>10. ASSUME q.outidx + 1 = BlockSize, o.outidx = 0
       PROVE  IsChunk(b2, t, k) /\ Filters(mask, C, s, t, o, b2, k + 1, x)
  <2>1. Len(b2) = BlockSize
    <3>1. PICK v : v = b1[q.row]
      OBVIOUS
    <3>2. b2 = SetRow(b, i + 1, v)
      BY <1>5, <3>1
    <3>3. QED
      BY <1>5, <3>2, SetRowLen
  <2>2. t \in Seq(1 .. NumRows) /\ i + 1 = BlockSize /\ i + 1 \in Nat
    BY <1>5, <1>10 DEF FilterRows
  <2>3. IsChunk(b2, t, k) /\ Fills(t, k + 1, 0, b2, C[y + 1])
    BY <1>3, <1>7, <2>1, <2>2, FillsEmit
  <2>4. QED
    BY <1>1, <1>4, <1>8, <1>10, <2>3 DEF Filters
<1>11. QED
  BY <1>9, <1>10

\* and ends with what is left over.
LEMMA FilterEnds ==
  ASSUME NEW mask, NEW C, NEW s, NEW t, FilterRows(mask, C, s, t), NEW q, NEW o, NEW b, NEW k \in Nat,
         NEW x \in Nat, Filters(mask, C, s, t, q, b, k, x), q.outidx \in 0 .. (BlockSize - 1)
  PROVE  /\ q.pc = "end" => Len(t) <= Pos(k)
         /\ q.pc = "tail" /\ q.outidx = 0 => Len(t) <= Pos(k)
         /\ q.pc = "first" /\ Len(s) = 0 => Len(t) <= Pos(k)
         /\ q.pc = "tail" /\ q.outidx > 0 /\ o.pc = "end" =>
              /\ IsChunk(Resize(b, q.outidx), t, k)
              /\ Filters(mask, C, s, t, o, Resize(b, q.outidx), k + 1, x)
<1>1. PICK l \in Nat : l = Len(s)
  BY DEF FilterRows
<1>2. PICK y \in 0 .. l : /\ FilterIsAt(mask, s, q, x, y)
                          /\ q.pc # "end" => Fills(t, k, q.outidx, b, C[y])
                          /\ q.pc = "end" => Len(t) <= Pos(k)
  BY <1>1 DEF Filters
<1>3. t \in Seq(1 .. NumRows) /\ C[l] = Len(t) /\ C[0] = 0
  BY <1>1 DEF FilterRows, CountsOf
<1>4. CASE q.pc = "tail"
  <2>1. y = l /\ Fills(t, k, q.outidx, b, Len(t))
    BY <1>1, <1>2, <1>3, <1>4 DEF FilterIsAt
  <2>2. /\ q.outidx = 0 => Len(t) <= Pos(k)
        /\ q.outidx > 0 => IsChunk(Resize(b, q.outidx), t, k) /\ Len(t) <= Pos(k + 1)
    BY <1>3, <2>1, FillsRest
  <2>3. o.pc = "end" => FilterIsAt(mask, s, o, x, l)
    BY <1>1 DEF FilterIsAt
  <2>4. l \in 0 .. Len(s)
    BY <1>1
  <2>5. o.pc = "end" /\ q.outidx > 0 => Filters(mask, C, s, t, o, Resize(b, q.outidx), k + 1, x)
    BY <2>2, <2>3, <2>4 DEF Filters
  <2>6. QED
    BY <1>4, <2>2, <2>5
<1>5. CASE q.pc = "first" /\ Len(s) = 0
  <2>1. Len(t) = 0
    BY <1>1, <1>3, <1>5
  <2>2. QED
    BY <1>5, <2>1, PosStep
<1>6. QED
  BY <1>2, <1>4, <1>5

-----------------------------------------------------------------------------
(* What an append has done.                                                *)

\* The rows of the input it reads, and those before them.
Part(s1, s2, o) == IF o.arg = 1 THEN s1 ELSE s2
Base(s1, o) == IF o.arg = 1 THEN 0 ELSE Len(s1)
\* It has copied the first y rows; of the input it reads it has read x blocks.
AppendIsAt(s1, s2, t, o, x, y) ==
  /\ o.pc = "copy" /\ o.got[o.arg] =>
       \E k \in Nat : /\ x = k + 1 /\ Pos(k) < Len(Part(s1, s2, o))
                      /\ y + 1 = Base(s1, o) + Pos(k) + o.row
                      /\ y <= Base(s1, o) + Upper(Part(s1, s2, o), x)
  /\ o.pc = "copy" /\ ~ o.got[o.arg] =>
       y = Base(s1, o) + Len(Part(s1, s2, o)) /\ \E k \in Nat : x = k + 1
  /\ o.pc = "get" => y = Base(s1, o) + Upper(Part(s1, s2, o), x)
  /\ o.pc \in {"tail", "end"} => y = Len(t)
Joins(s1, s2, t, o, b, k, x) ==
  \E y \in 0 .. Len(t) :
    /\ AppendIsAt(s1, s2, t, o, x, y)
    /\ o.pc # "end" => Fills(t, k, o.outidx, b, y)
    /\ o.pc = "end" => Len(t) <= Pos(k)

\* The inputs and the output of an append.
JoinRows(s1, s2, t) ==
  /\ s1 \in Seq(1 .. NumRows) /\ s2 \in Seq(1 .. NumRows) /\ t \in Seq(1 .. NumRows)
  /\ Len(t) = Len(s1) + Len(s2)
  /\ \A j \in 1 .. Len(s1) : t[j] = s1[j]
  /\ \A j \in 1 .. Len(s2) : t[Len(s1) + j] = s2[j]

\* The rows s are those of t after the first e.
PartOf(s, e, t) ==
  /\ s \in Seq(1 .. NumRows) /\ e \in Nat /\ Len(s) \in Nat /\ Len(t) \in Nat
  /\ e + Len(s) <= Len(t) /\ \A j \in 1 .. Len(s) : t[e + j] = s[j]

LEMMA PartRows ==
  ASSUME NEW s1, NEW s2, NEW t, JoinRows(s1, s2, t), NEW o, o.arg \in 1 .. 2,
         NEW s, s = Part(s1, s2, o), NEW e, e = Base(s1, o)
  PROVE  PartOf(s, e, t) /\ (o.arg = 2 => e + Len(s) = Len(t))
<1>1. Len(s1) \in Nat /\ Len(s2) \in Nat /\ Len(t) = Len(s1) + Len(s2)
  BY DEF JoinRows
<1>2. CASE o.arg = 1
  <2>1. s = s1 /\ e = 0
    BY <1>2 DEF Part, Base
  <2>2. \A j \in 1 .. Len(s) : e + j = j
    BY <1>1, <2>1
  <2>3. QED
    BY <1>1, <1>2, <2>1, <2>2 DEF JoinRows, PartOf
<1>3. CASE o.arg = 2
  <2>1. s = s2 /\ e = Len(s1)
    BY <1>3 DEF Part, Base
  <2>2. QED
    BY <1>1, <1>3, <2>1 DEF JoinRows, PartOf
<1>4. QED
  BY <1>2, <1>3

LEMMA AppendStarts ==
  ASSUME NEW s1, NEW s2, NEW t, JoinRows(s1, s2, t), NEW o, o.pc = "get", o.arg = 1, o.outidx = 0, NEW b
  PROVE  Joins(s1, s2, t, o, b, 0, 0)
<1>1. 0 \in 0 .. Len(t) /\ Pos(0) = 0
  BY PosStep DEF JoinRows
<1>2. Upper(s1, 0) = 0
  <2>1. Len(s1) \in Nat
    BY DEF JoinRows
  <2>2. QED
    BY <1>1, <2>1 DEF Upper
<1>3. AppendIsAt(s1, s2, t, o, 0, 0)
  <2>1. Part(s1, s2, o) = s1 /\ Base(s1, o) = 0
    BY DEF Part, Base
  <2>2. QED
    BY <1>2, <2>1 DEF AppendIsAt
<1>4. Fills(t, 0, 0, b, 0)
  BY <1>1 DEF Fills
<1>5. QED
  BY <1>1, <1>3, <1>4 DEF Joins

\* The moves that copy no row.
AppendMoves(s1, s2, q, o, x, x2) ==
  \/ /\ q.pc = "get" /\ o.pc = "copy" /\ o.arg = q.arg /\ x2 = x + 1 /\ o.got[o.arg] /\ o.row = 1
     /\ Pos(x) < Len(Part(s1, s2, q))
  \/ /\ q.pc = "get" /\ o.pc = "copy" /\ o.arg = q.arg /\ x2 = x + 1 /\ ~ o.got[o.arg]
     /\ Len(Part(s1, s2, q)) <= Pos(x)
  \/ q.pc = "copy" /\ ~ q.got[q.arg] /\ q.arg = 2 /\ o.pc = "tail"
  \/ q.pc = "copy" /\ ~ q.got[q.arg] /\ q.arg = 1 /\ o.pc = "get" /\ o.arg = 2 /\ x2 = 0
  \/ /\ q.pc = "copy" /\ q.got[q.arg] /\ o.pc = "get" /\ o.arg = q.arg /\ x2 = x
     /\ \E b1 : \E k \in Nat : x = k + 1 /\ IsChunk(b1, Part(s1, s2, q), k) /\ q.row > Len(b1)
  \/ o.pc = q.pc /\ o.row = q.row /\ o.arg = q.arg /\ o.got = q.got /\ x2 = x

LEMMA AppendGoes ==
  ASSUME NEW s1, NEW s2, NEW t, JoinRows(s1, s2, t), NEW q, NEW o, NEW b, NEW k \in Nat,
         NEW x \in Nat, NEW x2 \in Nat, Joins(s1, s2, t, q, b, k, x), q.row \in Nat, q.arg \in 1 .. 2,
         AppendMoves(s1, s2, q, o, x, x2), o.outidx = q.outidx
  PROVE  Joins(s1, s2, t, o, b, k, x2)
<1>1. PICK l \in Nat : l = Len(t)
  BY DEF JoinRows
<1>2. PICK y \in 0 .. l : /\ AppendIsAt(s1, s2, t, q, x, y)
                          /\ q.pc # "end" => Fills(t, k, q.outidx, b, y)
                          /\ q.pc = "end" => Len(t) <= Pos(k)
  BY <1>1 DEF Joins
<1>3. SUFFICES AppendIsAt(s1, s2, t, o, x2, y) /\ (q.pc = "end" <=> o.pc = "end")
  BY <1>1, <1>2 DEF Joins
<1>4. PICK s, e : s = Part(s1, s2, q) /\ e = Base(s1, q)
  OBVIOUS
<1>5. /\ s \in Seq(1 .. NumRows) /\ e \in Nat /\ Len(s) \in Nat
      /\ q.arg = 2 => e + Len(s) = Len(t)
  BY <1>4, PartRows DEF PartOf
<1>6. o.arg = q.arg => Part(s1, s2, o) = s /\ Base(s1, o) = e
  BY <1>4 DEF Part, Base
<1>7. CASE /\ q.pc = "get" /\ o.pc = "copy" /\ o.arg = q.arg /\ x2 = x + 1 /\ o.got[o.arg] /\ o.row = 1
           /\ Pos(x) < Len(Part(s1, s2, q))
  <2>1. Pos(x) < Len(s) /\ y = e + Upper(s, x)
    BY <1>2, <1>4, <1>7 DEF AppendIsAt
  <2>2. Upper(s, x) = Pos(x) /\ Upper(s, x) <= Upper(s, x + 1) /\ Upper(s, x + 1) \in Nat
    <3>1. x + 1 \in Nat
      OBVIOUS
    <3>2. Upper(s, x + 1) \in 0 .. Len(s)
      BY <1>5, <3>1, UpperIs
    <3>3. Upper(s, x) = Pos(x) /\ Upper(s, x) <= Upper(s, x + 1)
      BY <1>5, <2>1, UpperIs
    <3>4. QED
      BY <1>5, <3>2, <3>3
  <2>3. Pos(x) \in Nat
    BY PosStep
  <2>4. y + 1 = e + Pos(x) + o.row /\ y <= e + Upper(s, x2)
    BY <1>5, <1>7, <2>1, <2>2, <2>3
  <2>5. QED
    BY <1>6, <1>7, <2>1, <2>4 DEF AppendIsAt
<1>8. CASE /\ q.pc = "get" /\ o.pc = "copy" /\ o.arg = q.arg /\ x2 = x + 1 /\ ~ o.got[o.arg]
           /\ Len(Part(s1, s2, q)) <= Pos(x)
  <2>1. y = e + Upper(s, x) /\ Len(s) <= Pos(x)
    BY <1>2, <1>4, <1>8 DEF AppendIsAt
  <2>2. Upper(s, x) = Len(s)
    BY <1>5, <2>1, UpperIs
  <2>3. QED
    BY <1>6, <1>8, <2>1, <2>2 DEF AppendIsAt
<1>9. CASE q.pc = "copy" /\ ~ q.got[q.arg] /\ q.arg = 2 /\ o.pc = "tail"
  <2>1. y = e + Len(s)
    BY <1>2, <1>4, <1>9 DEF AppendIsAt
  <2>2. QED
    BY <1>5, <1>9, <2>1 DEF AppendIsAt
<1>10. CASE q.pc = "copy" /\ ~ q.got[q.arg] /\ q.arg = 1 /\ o.pc = "get" /\ o.arg = 2 /\ x2 = 0
  <2>1. y = e + Len(s) /\ e = 0 /\ s = s1
    BY <1>2, <1>4, <1>10 DEF AppendIsAt, Part, Base
  <2>2. Part(s1, s2, o) = s2 /\ Base(s1, o) = Len(s1)
    BY <1>10 DEF Part, Base
  <2>3. Upper(s2, 0) = 0
    <3>1. Len(s2) \in Nat /\ Pos(0) = 0
      BY PosStep DEF JoinRows
    <3>2. QED
      BY <3>1 DEF Upper
  <2>4. y = Len(s1) + Upper(s2, 0)
    BY <1>5, <2>1, <2>3
  <2>5. QED
    BY <1>10, <2>2, <2>4 DEF AppendIsAt
<1>11. CASE /\ q.pc = "copy" /\ q.got[q.arg] /\ o.pc = "get" /\ o.arg = q.arg /\ x2 = x
            /\ \E b1 : \E j \in Nat : x = j + 1 /\ IsChunk(b1, Part(s1, s2, q), j) /\ q.row > Len(b1)
  <2>1. PICK b1 : \E j \in Nat : x = j + 1 /\ IsChunk(b1, s, j) /\ q.row > Len(b1)
    BY <1>4, <1>11
  <2>2. PICK j \in Nat : x = j + 1 /\ IsChunk(b1, s, j) /\ q.row > Len(b1)
    BY <2>1
  <2>3. PICK i \in Nat : x = i + 1 /\ y + 1 = e + Pos(i) + q.row /\ y <= e + Upper(s, x)
    BY <1>2, <1>4, <1>11 DEF AppendIsAt
  <2>4. i = j
    BY <2>2, <2>3
  <2>5. Len(b1) = Upper(s, x) - Pos(j)
    BY <2>2 DEF IsChunk
  <2>6. Upper(s, x) \in 0 .. Len(s)
    BY <1>5, UpperIs
  <2>7. Pos(j) \in Nat
    BY PosStep
  <2>8. y = e + Upper(s, x)
    <3>1. PICK g \in Nat, v \in Nat, r \in Nat : g = Pos(j) /\ v = Upper(s, x) /\ r = q.row
      BY <1>5, <2>6, <2>7
    <3>2. r > v - g /\ y + 1 = e + g + r /\ y <= e + v
      BY <2>2, <2>3, <2>4, <2>5, <3>1
    <3>3. y \in Nat /\ e \in Nat
      BY <1>1, <1>2, <1>5
    <3>4. y = e + v
      BY <3>1, <3>2, <3>3
    <3>5. QED
      BY <3>1, <3>4
  <2>9. QED
    BY <1>6, <1>11, <2>8 DEF AppendIsAt
<1>12. CASE o.pc = q.pc /\ o.row = q.row /\ o.arg = q.arg /\ o.got = q.got /\ x2 = x
  BY <1>2, <1>4, <1>6, <1>12 DEF AppendIsAt
<1>13. QED
  BY <1>7, <1>8, <1>9, <1>10, <1>11, <1>12 DEF AppendMoves

\* It copies a row.
LEMMA AppendKeeps ==
  ASSUME NEW s1, NEW s2, NEW t, JoinRows(s1, s2, t), NEW q, NEW o, NEW b, NEW k \in Nat,
         NEW x \in Nat, Joins(s1, s2, t, q, b, k, x), q.arg \in 1 .. 2, q.pc = "copy", q.got[q.arg],
         NEW b1, q.row \in 1 .. Len(b1), \E j \in Nat : x = j + 1 /\ IsChunk(b1, Part(s1, s2, q), j),
         o.pc = "copy", o.row = q.row + 1, o.arg = q.arg, o.got = q.got,
         q.outidx \in 0 .. (BlockSize - 1), NEW b2, b2 = SetRow(b, q.outidx + 1, b1[q.row])
  PROVE  /\ o.outidx = q.outidx + 1 => Joins(s1, s2, t, o, b2, k, x)
         /\ q.outidx + 1 = BlockSize /\ o.outidx = 0 =>
              IsChunk(b2, t, k) /\ Joins(s1, s2, t, o, b2, k + 1, x)
<1>1. PICK l \in Nat : l = Len(t)
  BY DEF JoinRows
<1>2. PICK y \in 0 .. l : AppendIsAt(s1, s2, t, q, x, y) /\ Fills(t, k, q.outidx, b, y)
  BY <1>1 DEF Joins
<1>3. PICK s, e : s = Part(s1, s2, q) /\ e = Base(s1, q)
  OBVIOUS
<1>4. /\ s \in Seq(1 .. NumRows) /\ e \in Nat /\ Len(s) \in Nat
      /\ e + Len(s) <= l /\ \A j \in 1 .. Len(s) : t[e + j] = s[j]
  <2>1. PartOf(s, e, t)
    BY <1>3, PartRows
  <2>2. QED
    BY <1>1, <2>1 DEF PartOf
<1>5. Part(s1, s2, o) = s /\ Base(s1, o) = e
  BY <1>3 DEF Part, Base
<1>6. PICK j \in Nat : x = j + 1 /\ IsChunk(b1, s, j)
  BY <1>3
<1>7. PICK i \in Nat : x = i + 1 /\ Pos(i) < Len(s) /\ y + 1 = e + Pos(i) + q.row
  BY <1>2, <1>3 DEF AppendIsAt
<1>8. i = j
  BY <1>6, <1>7
<1>9. PICK u \in 0 .. Len(s) : u = Upper(s, x)
  BY <1>4, UpperIs
<1>10. Pos(j) \in Nat
  BY PosStep
<1>11. PICK r \in Nat : r = q.row /\ r \in 1 .. (u - Pos(j)) /\ b1[r] = s[Pos(j) + r]
  <2>1. q.row \in 1 .. Len(b1) /\ Len(b1) = u - Pos(j)
    BY <1>6, <1>9 DEF IsChunk
  <2>2. b1[q.row] = s[Pos(j) + q.row]
    BY <1>6, <2>1 DEF IsChunk
  <2>3. q.row \in Nat
    BY <1>9, <1>10, <2>1
  <2>4. QED
    BY <2>1, <2>2, <2>3
<1>12. y + 1 = e + (Pos(j) + r) /\ Pos(j) + r \in 1 .. Len(s) /\ Pos(j) + r <= u
  <2>1. PICK g \in Nat, v \in Nat : g = Pos(j) /\ v = Len(s)
    BY <1>4, <1>10
  <2>2. y + 1 = e + g + r /\ r \in 1 .. (u - g) /\ u \in 0 .. v
    BY <1>7, <1>8, <1>9, <1>11, <2>1
  <2>3. y \in Nat /\ e \in Nat /\ u \in Nat /\ r \in Nat
    BY <1>1, <1>2, <1>4, <1>9, <1>11
  <2>4. y + 1 = e + (g + r) /\ g + r \in 1 .. v /\ g + r <= u
    BY <2>2, <2>3
  <2>5. QED
    BY <2>1, <2>4
<1>13. t[y + 1] = b1[q.row]
  BY <1>4, <1>11, <1>12
<1>14. y + 1 \in 0 .. l /\ y + 1 <= Len(t) /\ y + 1 <= e + u
  <2>0. Pos(j) + r \in Nat
    BY <1>10
  <2>1. PICK w \in Nat, v \in Nat : w = Pos(j) + r /\ v = Len(s)
    BY <1>4, <2>0
  <2>2. y + 1 = e + w /\ w <= v /\ w <= u /\ e + v <= l
    BY <1>4, <1>12, <2>1
  <2>3. y \in Nat /\ e \in Nat /\ u \in Nat
    BY <1>1, <1>2, <1>4, <1>9
  <2>4. y + 1 \in 0 .. l /\ y + 1 <= l /\ y + 1 <= e + u
    BY <2>2, <2>3
  <2>5. QED
    BY <1>1, <2>4
<1>15. (y + 1) + 1 = e + Pos(j) + o.row
  <2>1. PICK g \in Nat : g = Pos(j)
    BY <1>10
  <2>2. y + 1 = e + (g + r) /\ o.row = r + 1
    BY <1>11, <1>12, <2>1
  <2>3. y \in Nat /\ e \in Nat /\ r \in Nat
    BY <1>1, <1>2, <1>4, <1>11
  <2>4. (y + 1) + 1 = e + g + (r + 1)
    BY <2>2, <2>3
  <2>5. QED
    BY <2>1, <2>2, <2>4
<1>16. AppendIsAt(s1, s2, t, o, x, y + 1)
  BY <1>5, <1>6, <1>7, <1>8, <1>9, <1>14, <1>15 DEF AppendIsAt
<1>17. PICK a \in Nat : a = q.outidx /\ a + 1 \in 1 .. BlockSize
  BY ConstantTypes
<1>18. Fills(t, k, a + 1, SetRow(b, a + 1, t[y + 1]), y + 1)
  BY <1>2, <1>17, FillsKeep
<1>19. Fills(t, k, a + 1, b2, y + 1)
  BY <1>13, <1>17, <1>18
<1>20. o.outidx = q.outidx + 1 => Joins(s1, s2, t, o, b2, k, x)
  BY <1>1, <1>14, <1>16, <1>17, <1>19 DEF Joins
<1>21. ASSUME q.outidx + 1 = BlockSize, o.outidx = 0
       PROVE  IsChunk(b2, t, k) /\ Joins(s1, s2, t, o, b2, k + 1, x)
  <2>1. Len(b2) = BlockSize
    BY <1>17, SetRowLen
  <2>2. t \in Seq(1 .. NumRows) /\ a + 1 = BlockSize /\ a + 1 \in Nat
    BY <1>17, <1>21 DEF JoinRows
  <2>3. IsChunk(b2, t, k) /\ Fills(t, k + 1, 0, b2, y + 1)
    BY <1>14, <1>19, <2>1, <2>2, FillsEmit
  <2>4. QED
    BY <1>1, <1>14, <1>16, <1>21, <2>3 DEF Joins
<1>22. QED
  BY <1>20, <1>21

LEMMA AppendEnds ==
  ASSUME NEW s1, NEW s2, NEW t, JoinRows(s1, s2, t), NEW q, NEW o, NEW b, NEW k \in Nat,
         NEW x \in Nat, Joins(s1, s2, t, q, b, k, x), q.outidx \in 0 .. (BlockSize - 1)
  PROVE  /\ q.pc = "end" => Len(t) <= Pos(k)
         /\ q.pc = "tail" /\ q.outidx = 0 => Len(t) <= Pos(k)
         /\ q.pc = "tail" /\ q.outidx > 0 /\ o.pc = "end" =>
              /\ IsChunk(Resize(b, q.outidx), t, k)
              /\ Joins(s1, s2, t, o, Resize(b, q.outidx), k + 1, x)
<1>1. PICK l \in Nat : l = Len(t)
  BY DEF JoinRows
<1>2. PICK y \in 0 .. l : /\ AppendIsAt(s1, s2, t, q, x, y)
                          /\ q.pc # "end" => Fills(t, k, q.outidx, b, y)
                          /\ q.pc = "end" => Len(t) <= Pos(k)
  BY <1>1 DEF Joins
<1>3. t \in Seq(1 .. NumRows)
  BY DEF JoinRows
<1>4. CASE q.pc = "tail"
  <2>1. Fills(t, k, q.outidx, b, Len(t))
    BY <1>2, <1>4 DEF AppendIsAt
  <2>2. /\ q.outidx = 0 => Len(t) <= Pos(k)
        /\ q.outidx > 0 => IsChunk(Resize(b, q.outidx), t, k) /\ Len(t) <= Pos(k + 1)
    BY <1>3, <2>1, FillsRest
  <2>3. o.pc = "end" => AppendIsAt(s1, s2, t, o, x, l)
    BY <1>1 DEF AppendIsAt
  <2>4. l \in 0 .. Len(t)
    BY <1>1
  <2>5. o.pc = "end" /\ q.outidx > 0 => Joins(s1, s2, t, o, Resize(b, q.outidx), k + 1, x)
    BY <2>2, <2>3, <2>4 DEF Joins
  <2>6. QED
    BY <1>4, <2>2, <2>5
<1>5. QED
  BY <1>2, <1>4

-----------------------------------------------------------------------------
(* The data.  W gives the rows of every node, as the plan means them, and  *)
(* D the counts of every filter.                                           *)

Means(p, mask, W, D) ==
  /\ RowsKnown(p, mask, W)
  /\ \A n \in DOMAIN p : p[n].op = "filter" => CountsOf(W[p[n].in[1]], W[n], mask, D[n])

\* Nothing that n reads, directly or not, has failed, nor has n.
Closed(p, z, S) ==
  \A m \in S : z.nd[m].exception = "none" /\ \A i \in 1 .. Arity(p, m) : p[m].in[i] \in S
Clean(p, z, n) == \E S \in SUBSET DOMAIN p : n \in S /\ Closed(p, z, S)

\* The buffer holds the block of this round, if it has been read and not skipped.
HasBlock(p, W, d, z, n) ==
  (Ac(z, n) = 0 /\ Fk(p, z, n) = 0 /\ K(z, n) = R(z, d[n])) =>
    \A k \in Nat : K(z, n) = k + 1 => IsChunk(z.nd[n].buffer, W[n], k)
\* A node ends when it has emitted all its rows.
HasEnded(W, z, n) == En(z, n) = 1 => Len(W[n]) <= Pos(K(z, n))
SourceData(p, W, z, n) == p[n].op = "source" => z.nd[n].local.start = Upper(W[n], K(z, n))
FilterData(p, mask, W, D, z, n) == p[n].op = "filter" =>
  Filters(mask, D[n], W[p[n].in[1]], W[n], z.nd[n].local, z.nd[n].buffer, K(z, n), A(z, <<n, 1>>))
AppendData(p, W, z, n) == p[n].op = "append" =>
  Joins(W[p[n].in[1]], W[p[n].in[2]], W[n], z.nd[n].local, z.nd[n].buffer, K(z, n),
        A(z, <<n, z.nd[n].local.arg>>))
NodeData(p, mask, W, D, d, z, n) == Up(z, n) = 1 =>
  /\ HasBlock(p, W, d, z, n) /\ HasEnded(W, z, n) /\ SourceData(p, W, z, n)
  /\ FilterData(p, mask, W, D, z, n) /\ AppendData(p, W, z, n)

\* What is known of the rows of a node.
LEMMA MeansFilter ==
  ASSUME NEW p, NEW mask, NEW W, NEW D, Means(p, mask, W, D), NEW n \in DOMAIN p, p[n].op = "filter",
         p[n].in[1] \in DOMAIN p
  PROVE  FilterRows(mask, D[n], W[p[n].in[1]], W[n])
BY DEF Means, RowsKnown, FilterRows

LEMMA MeansAppend ==
  ASSUME NEW p, NEW mask, NEW W, NEW D, Means(p, mask, W, D), NEW n \in DOMAIN p, p[n].op = "append",
         p[n].in[1] \in DOMAIN p, p[n].in[2] \in DOMAIN p
  PROVE  JoinRows(W[p[n].in[1]], W[p[n].in[2]], W[n])
BY DEF Means, RowsKnown, JoinRows

LEMMA MeansRows ==
  ASSUME NEW p, NEW mask, NEW W, NEW D, Means(p, mask, W, D), NEW n \in DOMAIN p
  PROVE  /\ W[n] \in Seq(1 .. NumRows) /\ Len(W[n]) \in Nat
         /\ p[n].op = "source" => Len(W[n]) = NumRows /\ \A j \in 1 .. NumRows : W[n][j] = j
         /\ p[n].op = "linear" => \A i \in 1 .. Arity(p, n) : W[p[n].in[i]] = W[n]
         /\ p[n].op = "filter" => W[p[n].in[2]] = W[p[n].in[1]]
<1>1. W[n] \in Seq(1 .. NumRows)
  BY DEF Means, RowsKnown
<1>2. Len(W[n]) \in Nat
  BY <1>1, LenProperties
<1>3. QED
  BY <1>1, <1>2 DEF Means, RowsKnown

LEMMA CleanInput ==
  ASSUME NEW p, NEW z, IsPlan(p), NEW n \in DOMAIN p, Clean(p, z, n), NEW i \in 1 .. Arity(p, n)
  PROVE  Clean(p, z, p[n].in[i])
<1>1. PICK S \in SUBSET DOMAIN p : n \in S /\ Closed(p, z, S)
  BY DEF Clean
<1>2. p[n].in[i] \in S
  BY <1>1 DEF Closed
<1>3. QED
  BY <1>1, <1>2 DEF Clean

LEMMA CleanNone ==
  ASSUME NEW p, NEW z, NEW n, Clean(p, z, n)
  PROVE  z.nd[n].exception = "none"
BY DEF Clean, Closed

\* Exceptions stay.
ExceptionsStay(p, z, z2) ==
  \A m \in DOMAIN p : z.nd[m].exception # "none" => z2.nd[m].exception = z.nd[m].exception

LEMMA CleanBack ==
  ASSUME NEW p, NEW z, NEW z2, ExceptionsStay(p, z, z2), NEW n, Clean(p, z2, n)
  PROVE  Clean(p, z, n)
<1>1. PICK S \in SUBSET DOMAIN p : n \in S /\ Closed(p, z2, S)
  BY DEF Clean
<1>2. Closed(p, z, S)
  BY <1>1 DEF Closed, ExceptionsStay
<1>3. QED
  BY <1>1, <1>2 DEF Clean

\* What a consumer looks at is the block of its round, or the end.
SeenBlock(p, W, z, c, j) == \A k \in Nat : A(z, c) = k + 1 =>
  /\ Got(z, c[1], c[2]) = 1 => IsChunk(z.nd[j].buffer, W[j], k)
  /\ Got(z, c[1], c[2]) # 1 => Len(W[j]) <= Pos(k)

LEMMA SeenFresh ==
  ASSUME NEW p, NEW d, NEW z, Ctl(p, d, z), NEW c \in Edges(p), Sees(p, z, c), Pc(z, c[1]) # "skip_left"
  PROVE  ~ Skipping(p, z, d[Src(p, c)]) /\ ~ Skipped(p, z, d[Src(p, c)])
<1>1. c # Executor
  BY DEF Sees
<1>2. PICK m, D : m = c[1] /\ D = d[Src(p, c)]
  OBVIOUS
<1>3. m \in DOMAIN p /\ p[m].op \in {"linear", "filter", "append"} /\ IsPlan(p) /\ IsDriver(p, d)
  BY <1>1, <1>2, AllKnown DEF KnownEdge
<1>4. CASE p[m].op = "append"
  <2>1. D = c
    BY <1>1, <1>2, <1>3, <1>4, DriverOf
  <2>2. QED
    BY <1>2, <1>4, <2>1 DEF Skipping, Skipped
<1>5. CASE p[m].op = "filter"
  <2>1. D = <<m, 2>>
    BY <1>1, <1>2, <1>3, <1>5, DriverOf
  <2>2. D[1] = m
    BY <2>1
  <2>3. Pc(z, m) # "right"
    BY <1>2, <1>5 DEF Sees
  <2>4. QED
    BY <1>2, <2>2, <2>3 DEF Skipping, Skipped
<1>6. CASE p[m].op = "linear"
  <2>1. D = d[m]
    BY <1>1, <1>2, <1>3, <1>6, DriverOf
  <2>2. Ac(z, m) = 1 /\ Pc(z, m) \in {"apply", "get"}
    BY <1>2, <1>6 DEF Sees
  <2>3. Known(p, d, z, m) /\ m \in ON(z)
    BY <1>3, <2>2, AllKnown DEF Known, NodeViewOK
  <2>4. Sk(z, m) # 1
    BY <1>6, <2>2, <2>3 DEF Known, NodeCtl, Linear
  <2>5. ~ Skipping(p, z, D)
    BY <2>1, <2>3, <2>4 DEF Known, NodeCtl, Skips
  <2>6. ASSUME Skipped(p, z, D) PROVE FALSE
    <3>1. D # Executor /\ p[D[1]].op = "filter" /\ Pc(z, D[1]) = "right" /\ Ca(z, D) = 0
      BY <2>6 DEF Skipped
    <3>2. Ca(z, <<D[1], 1>>) = 1 \/ Ca(z, <<D[1], 2>>) = 1
      BY <2>1, <2>3, <3>1 DEF Known, NodeCtl, Busy
    <3>3. D = <<D[1], 2>> /\ D[1] \in DOMAIN p
      <4>1. IsDriverOf(p, m, D)
        BY <2>1, <2>3 DEF Known
      <4>2. QED
        BY <3>1, <4>1 DEF IsDriverOf
    <3>4. Ca(z, <<D[1], 1>>) = 1
      BY <3>1, <3>2, <3>3
    <3>5. 1 \in 1 .. Arity(p, D[1])
      BY <1>3, <3>1, <3>3, TwoInputs
    <3>6. <<D[1], 1>> \in Edges(p) /\ <<D[1], 1>> # Executor
      BY <1>3, <3>3, <3>5, IsEdge
    <3>7. EdgeViewOK(p, z, <<D[1], 1>>) /\ NodeViewOK(p, z, D[1])
      BY <3>3, <3>6, AllKnown DEF KnownEdge, Known
    <3>8. Arg(z, D[1]) = 1 /\ Arg(z, D[1]) = 2
      BY <3>1, <3>4, <3>6, <3>7 DEF EdgeViewOK, NodeViewOK
    <3>9. QED
      BY <3>8
  <2>7. QED
    BY <1>2, <2>5, <2>6
<1>7. QED
  BY <1>3, <1>4, <1>5, <1>6

LEMMA SeenData ==
  ASSUME NEW p, NEW mask, NEW W, NEW D, NEW d, NEW z, Ctl(p, d, z), Means(p, mask, W, D),
         NEW c \in Edges(p), Sees(p, z, c), Pc(z, c[1]) # "skip_left",
         NEW j, j = Src(p, c), NodeData(p, mask, W, D, d, z, j)
  PROVE  SeenBlock(p, W, z, c, j)
<1>1. j \in DOMAIN p /\ Known(p, d, z, j) /\ EdgeCtl(p, d, z, c) /\ EdgeViewOK(p, z, c)
  BY AllKnown DEF KnownEdge
<1>2. /\ Got(z, c[1], c[2]) = 1 => A(z, c) = K(z, j)
      /\ Got(z, c[1], c[2]) # 1 => En(z, j) = 1 /\ K(z, j) < A(z, c)
  BY <1>1 DEF EdgeCtl, Gets1
<1>3. A(z, c) = R(z, d[j]) /\ Ac(z, j) = 0
  BY SeesCurrent, SeenIsQuiet
<1>4. K(z, j) \in Nat /\ Fk(p, z, j) \in {0, 1} /\ (Up(z, j) = 0 => K(z, j) = 0)
      /\ (En(z, j) = 1 => Up(z, j) = 1) /\ Up(z, j) \in {0, 1} /\ A(z, c) \in Nat
  BY <1>1 DEF Known, NodeViewOK, EdgeViewOK
<1>5. SUFFICES ASSUME NEW k \in Nat, A(z, c) = k + 1
               PROVE  /\ Got(z, c[1], c[2]) = 1 => IsChunk(z.nd[j].buffer, W[j], k)
                      /\ Got(z, c[1], c[2]) # 1 => Len(W[j]) <= Pos(k)
  BY DEF SeenBlock
<1>6. ASSUME Got(z, c[1], c[2]) = 1 PROVE IsChunk(z.nd[j].buffer, W[j], k)
  <2>1. K(z, j) = k + 1 /\ K(z, j) = R(z, d[j]) /\ K(z, j) > 0 /\ Up(z, j) = 1
    BY <1>2, <1>3, <1>4, <1>5, <1>6
  <2>2. Fk(p, z, j) = 0
    <3>1. ~ Skipping(p, z, d[j]) /\ ~ Skipped(p, z, d[j])
      BY SeenFresh
    <3>2. Skips(p, d, z, j)
      BY <1>1 DEF Known, NodeCtl
    <3>3. QED
      BY <1>4, <2>1, <3>1, <3>2 DEF Skips
  <2>3. HasBlock(p, W, d, z, j)
    BY <2>1 DEF NodeData
  <2>4. QED
    BY <1>3, <2>1, <2>2, <2>3 DEF HasBlock
<1>7. ASSUME Got(z, c[1], c[2]) # 1 PROVE Len(W[j]) <= Pos(k)
  <2>1. En(z, j) = 1 /\ K(z, j) <= k /\ Up(z, j) = 1
    BY <1>2, <1>4, <1>5, <1>7
  <2>2. Len(W[j]) <= Pos(K(z, j))
    BY <2>1 DEF NodeData, HasEnded
  <2>3. Pos(K(z, j)) <= Pos(k)
    BY <1>4, <2>1, PosMonotone
  <2>4. Pos(K(z, j)) \in Nat
    BY <1>4, PosStep
  <2>5. Pos(k) \in Nat /\ Len(W[j]) \in Nat
    BY <1>1, PosStep, MeansRows
  <2>6. QED
    BY <2>2, <2>3, <2>4, <2>5
<1>8. QED
  BY <1>6, <1>7

-----------------------------------------------------------------------------
(* What does not change the data of a node.                                *)

LEMMA DataFrame ==
  ASSUME NEW p, NEW mask, NEW W, NEW D, NEW d, NEW z, NEW z2, NEW x, NodeData(p, mask, W, D, d, z, x),
         Up(z2, x) = Up(z, x), K(z2, x) = K(z, x), En(z2, x) = En(z, x),
         z2.nd[x].buffer = z.nd[x].buffer, z2.nd[x].local.start = z.nd[x].local.start,
         p[x].op \in {"filter", "append"} =>
           /\ z2.nd[x].local = z.nd[x].local
           /\ A(z2, <<x, 1>>) = A(z, <<x, 1>>)
           /\ A(z2, <<x, z.nd[x].local.arg>>) = A(z, <<x, z.nd[x].local.arg>>),
         \/ Ac(z2, x) # 0 \/ K(z2, x) # R(z2, d[x])
         \/ Ac(z, x) = Ac(z2, x) /\ Fk(p, z2, x) = Fk(p, z, x) /\ R(z2, d[x]) = R(z, d[x])
  PROVE  NodeData(p, mask, W, D, d, z2, x)
<1>1. SUFFICES ASSUME Up(z2, x) = 1
               PROVE  /\ HasBlock(p, W, d, z2, x) /\ HasEnded(W, z2, x) /\ SourceData(p, W, z2, x)
                      /\ FilterData(p, mask, W, D, z2, x) /\ AppendData(p, W, z2, x)
  BY DEF NodeData
<1>2. /\ HasBlock(p, W, d, z, x) /\ HasEnded(W, z, x) /\ SourceData(p, W, z, x)
      /\ FilterData(p, mask, W, D, z, x) /\ AppendData(p, W, z, x)
  BY <1>1 DEF NodeData
<1>3. HasBlock(p, W, d, z2, x)
  BY <1>2 DEF HasBlock
<1>4. HasEnded(W, z2, x) /\ SourceData(p, W, z2, x)
  BY <1>2 DEF HasEnded, SourceData
<1>5. FilterData(p, mask, W, D, z2, x)
  BY <1>2 DEF FilterData
<1>6. AppendData(p, W, z2, x)
  BY <1>2 DEF AppendData
<1>7. QED
  BY <1>3, <1>4, <1>5, <1>6

\* The node is the same but for what has been popped and the skip request.
SameNode(z, z2, x) ==
  /\ z2.nd[x].started = z.nd[x].started /\ z2.nd[x].done = z.nd[x].done
  /\ z2.nd[x].queue = z.nd[x].queue /\ z2.nd[x].buffer = z.nd[x].buffer
  /\ z2.nd[x].local = z.nd[x].local

LEMMA SameViewsOf ==
  ASSUME NEW p, NEW z, NEW z2, NEW x, SameNode(z, z2, x)
  PROVE  /\ Up(z2, x) = Up(z, x) /\ K(z2, x) = K(z, x) /\ En(z2, x) = En(z, x)
         /\ Fk(p, z2, x) = Fk(p, z, x)
<1>1. Up(z2, x) = Up(z, x) /\ K(z2, x) = K(z, x) /\ En(z2, x) = En(z, x)
  BY DEF SameNode, Up, K, En
<1>2. El(z2, x) = El(z, x)
  BY <1>1 DEF SameNode, El
<1>3. QED
  BY <1>1, <1>2 DEF SameNode, Fk

LEMMA SameNodeData ==
  ASSUME NEW p, NEW mask, NEW W, NEW D, NEW d, NEW z, NEW z2, NEW x, NodeData(p, mask, W, D, d, z, x),
         SameNode(z, z2, x), z.nd[x].local.arg \in 1 .. 2,
         p[x].op \in {"filter", "append"} => \A i \in 1 .. 2 : A(z2, <<x, i>>) = A(z, <<x, i>>),
         \/ Ac(z2, x) # 0 \/ K(z2, x) # R(z2, d[x])
         \/ Ac(z, x) = Ac(z2, x) /\ R(z2, d[x]) = R(z, d[x])
  PROVE  NodeData(p, mask, W, D, d, z2, x)
<1>1. /\ Up(z2, x) = Up(z, x) /\ K(z2, x) = K(z, x) /\ En(z2, x) = En(z, x)
      /\ Fk(p, z2, x) = Fk(p, z, x)
  BY SameViewsOf
<1>2. z2.nd[x].buffer = z.nd[x].buffer /\ z2.nd[x].local = z.nd[x].local
  BY DEF SameNode
<1>3. p[x].op \in {"filter", "append"} =>
           /\ A(z2, <<x, 1>>) = A(z, <<x, 1>>)
           /\ A(z2, <<x, z.nd[x].local.arg>>) = A(z, <<x, z.nd[x].local.arg>>)
  OBVIOUS
<1>4. QED
  BY <1>1, <1>2, <1>3, DataFrame
-----------------------------------------------------------------------------
(* The exceptions, the executor and its outcome.                           *)

\* A node that throws has ended; it throws an assertion only if an input has
\* failed before.
ExceptionOK(p, z, n) ==
  /\ z.nd[n].exception # "none" => En(z, n) = 1
  /\ z.nd[n].exception = "canceled" => ~ z.go
  /\ z.nd[n].exception = "assert" => \E i \in 1 .. Arity(p, n) : ~ Clean(p, z, p[n].in[i])
\* The rows c are the first u rows of w.
IsPrefix(c, w, u) == Len(c) = u /\ \A j \in 1 .. u : c[j] = w[j]
Complete(z) == z.ex.pc = "check" \/ z.ex.outcome = "ok"
ExecData(p, W, z) == Clean(p, z, Len(p)) =>
  /\ IsPrefix(z.ex.collected, W[Len(p)], Upper(W[Len(p)], A(z, Executor)))
  /\ Complete(z) /\ ~ z.ex.stopped => Len(z.ex.collected) = Len(W[Len(p)])
OutcomeOK(p, z) ==
  /\ z.ex.pc # "done" => z.ex.outcome = "none" /\ z.ex.reported = 0
  /\ z.ex.outcome = "ok" => \A n \in DOMAIN p : z.nd[n].exception = "none"
  /\ z.ex.outcome = "thrown" /\ z.ex.reported = 0 => ~ z.go
  /\ z.ex.outcome = "thrown" /\ z.ex.reported # 0 =>
       z.nd[z.ex.reported].exception \in {"failed", "canceled"}
NodesData(p, mask, W, D, d, z) ==
  \A n \in DOMAIN p : Clean(p, z, n) => NodeData(p, mask, W, D, d, z, n)
ExceptionsOK(p, z) == \A n \in DOMAIN p : ExceptionOK(p, z, n)
Data(p, mask, W, D, d, z) ==
  /\ NodesData(p, mask, W, D, d, z) /\ ExceptionsOK(p, z) /\ ExecData(p, W, z) /\ OutcomeOK(p, z)
\* What is known of the executor from its type.
ExecTyped(z) ==
  /\ z.ex.collected \in Seq(0 .. NumRows)
  /\ z.st # <<>> => z.ex.pc = "call"

\* A step during a call that the executor does not notice.
LEMMA CallExec ==
  ASSUME NEW p, NEW W, NEW z, NEW z2, ExecData(p, W, z), OutcomeOK(p, z), z2.ex = z.ex,
         A(z2, Executor) = A(z, Executor), z.ex.pc = "call", ExceptionsStay(p, z, z2)
  PROVE  ExecData(p, W, z2) /\ OutcomeOK(p, z2)
<1>1. z.ex.outcome = "none"
  BY DEF OutcomeOK
<1>2. OutcomeOK(p, z2)
  BY <1>1 DEF OutcomeOK
<1>3. ASSUME Clean(p, z2, Len(p))
      PROVE  IsPrefix(z2.ex.collected, W[Len(p)], Upper(W[Len(p)], A(z2, Executor)))
  <2>1. Clean(p, z, Len(p))
    BY <1>3, CleanBack
  <2>2. QED
    BY <2>1 DEF ExecData
<1>4. ~ Complete(z2)
  BY <1>1 DEF Complete
<1>5. QED
  BY <1>2, <1>3, <1>4 DEF ExecData

\* The exceptions of the nodes that had one before.
LEMMA ExceptionStays ==
  ASSUME NEW p, NEW z, NEW z2, ExceptionsStay(p, z, z2), EndsStay(p, z, z2), z2.go => z.go,
         NEW n \in DOMAIN p, z2.nd[n].exception = z.nd[n].exception, ExceptionOK(p, z, n)
  PROVE  ExceptionOK(p, z2, n)
<1>1. z2.nd[n].exception # "none" => En(z2, n) = 1
  BY DEF ExceptionOK, EndsStay
<1>2. z2.nd[n].exception = "canceled" => ~ z2.go
  BY DEF ExceptionOK
<1>3. ASSUME z2.nd[n].exception = "assert" PROVE \E i \in 1 .. Arity(p, n) : ~ Clean(p, z2, p[n].in[i])
  <2>1. PICK i \in 1 .. Arity(p, n) : ~ Clean(p, z, p[n].in[i])
    BY <1>3 DEF ExceptionOK
  <2>2. ~ Clean(p, z2, p[n].in[i])
    BY <2>1, CleanBack
  <2>3. QED
    BY <2>2
<1>4. QED
  BY <1>1, <1>2, <1>3 DEF ExceptionOK

-----------------------------------------------------------------------------
(* A step of the operator of n and the data of the other nodes.            *)

LEMMA OwnData ==
  ASSUME NEW p, NEW mask, NEW W, NEW D, NEW d, NEW z, NEW z2, NEW n, Ctl(p, d, z),
         OwnStep(p, z, z2, n), EndsStay(p, z, z2), \A x \in DOMAIN p : x # n => z2.nd[x] = z.nd[x],
         Aside(z, z2), z.ex.pc = "call", Data(p, mask, W, D, d, z),
         z.nd[n].exception = "none" \/ z2.nd[n].exception = z.nd[n].exception,
         ExceptionOK(p, z2, n),
         Clean(p, z2, n) => NodeData(p, mask, W, D, d, z2, n)
  PROVE  Data(p, mask, W, D, d, z2)
<1>1. ExceptionsStay(p, z, z2)
  BY DEF ExceptionsStay
<1>2. ExecData(p, W, z2) /\ OutcomeOK(p, z2)
  BY <1>1, CallExec DEF Aside, Unnoticed, Data, A
<1>3. ASSUME NEW x \in DOMAIN p PROVE ExceptionOK(p, z2, x)
  <2>1. CASE x = n
    BY <2>1
  <2>2. CASE x # n
    <3>1. z2.nd[x].exception = z.nd[x].exception /\ (z2.go => z.go)
      BY <2>2 DEF Aside, Unnoticed
    <3>2. QED
      BY <1>1, <3>1, ExceptionStays DEF Data, ExceptionsOK
  <2>3. QED
    BY <2>1, <2>2
<1>4. ASSUME NEW x \in DOMAIN p, Clean(p, z2, x) PROVE NodeData(p, mask, W, D, d, z2, x)
  <2>1. CASE x = n
    BY <1>4, <2>1
  <2>2. CASE x # n
    <3>1. Clean(p, z, x)
      BY <1>1, <1>4, CleanBack
    <3>2. NodeData(p, mask, W, D, d, z, x)
      BY <3>1 DEF Data, NodesData
    <3>3. SameNode(z, z2, x)
      BY <2>2 DEF SameNode
    <3>4. z.nd[x].local.arg \in 1 .. 2
      BY AllKnown DEF Known, NodeViewOK, Arg
    <3>5. Ac(z, x) = Ac(z2, x)
      BY <2>2 DEF OwnStep
    <3>6. R(z2, d[x]) = R(z, d[x]) /\ \A i \in 1 .. 2 : A(z2, <<x, i>>) = A(z, <<x, i>>)
      BY DEF Aside, A, R
    <3>7. QED
      BY <3>2, <3>3, <3>4, <3>5, <3>6, SameNodeData
  <2>3. QED
    BY <2>1, <2>2
<1>5. QED
  BY <1>2, <1>3, <1>4 DEF Data, NodesData, ExceptionsOK
-----------------------------------------------------------------------------
(* What an operator that has read its inputs together looks at.            *)

Looks(p, z, n) ==
  /\ Ac(z, n) = 1
  /\ \/ p[n].op = "linear" /\ Pc(z, n) = "apply"
     \/ p[n].op = "filter" /\ Pc(z, n) \in {"first", "check", "rows"}
\* The block after k blocks of input i, or the end.
BlockSeen(p, W, z, n, i, k) ==
  /\ Got(z, n, i) = 1 => IsChunk(Blk(p, z.nd, n, i), W[p[n].in[i]], k)
  /\ Got(z, n, i) # 1 => Len(W[p[n].in[i]]) <= Pos(k)
\* k blocks have been read before.
LooksAfter(p, z, n, k) ==
  /\ p[n].op = "linear" => K(z, n) = k
  /\ \A i \in 1 .. Arity(p, n) : A(z, <<n, i>>) = k + 1

LEMMA LooksRound ==
  ASSUME NEW p, NEW d, NEW z, Ctl(p, d, z), NEW n \in DOMAIN p, Looks(p, z, n)
  PROVE  \E k \in Nat : LooksAfter(p, z, n, k)
<1>1. Known(p, d, z, n) /\ IsPlan(p)
  BY AllKnown
<1>2. CASE p[n].op = "linear"
  <2>1. Pc(z, n) = "apply" /\ Ac(z, n) = 1
    BY <1>2 DEF Looks
  <2>2. K(z, n) \in Nat /\ Linear(p, z, n)
    BY <1>1 DEF Known, NodeViewOK, NodeCtl
  <2>3. \A i \in 1 .. Arity(p, n) : A(z, <<n, i>>) = K(z, n) + 1
    BY <1>2, <2>1, <2>2 DEF Linear
  <2>4. QED
    BY <2>2, <2>3 DEF LooksAfter
<1>3. CASE p[n].op = "filter"
  <2>1. Pc(z, n) \in {"first", "check", "rows"} /\ Up(z, n) = 1
    BY <1>1, <1>3 DEF Looks, Known, NodeViewOK
  <2>2. Filter(p, z, n)
    BY <1>1 DEF Known, NodeCtl
  <2>3. A(z, <<n, 1>>) >= 1 /\ A(z, <<n, 2>>) = A(z, <<n, 1>>)
    BY <1>3, <2>1, <2>2 DEF Filter, FilterAt
  <2>4. Arity(p, n) = 2 /\ 1 \in 1 .. Arity(p, n)
    BY <1>1, <1>3, TwoInputs
  <2>5. A(z, <<n, 1>>) \in Nat
    <3>1. <<n, 1>> \in Edges(p)
      BY <1>1, <2>4, IsEdge
    <3>2. QED
      BY <3>1, AllKnown DEF KnownEdge, EdgeViewOK
  <2>6. PICK k \in Nat : A(z, <<n, 1>>) = k + 1
    <3>1. A(z, <<n, 1>>) - 1 \in Nat /\ A(z, <<n, 1>>) = (A(z, <<n, 1>>) - 1) + 1
      BY <2>3, <2>5
    <3>2. QED
      BY <3>1
  <2>7. \A i \in 1 .. Arity(p, n) : A(z, <<n, i>>) = k + 1
    BY <2>3, <2>4, <2>6
  <2>8. QED
    BY <1>3, <2>7 DEF LooksAfter
<1>4. QED
  BY <1>2, <1>3 DEF Looks

LEMMA LooksData ==
  ASSUME NEW p, NEW mask, NEW W, NEW D, NEW d, NEW z, Ctl(p, d, z), Means(p, mask, W, D),
         NodesData(p, mask, W, D, d, z), NEW n \in DOMAIN p, Looks(p, z, n), NEW k \in Nat,
         LooksAfter(p, z, n, k), NEW i \in 1 .. Arity(p, n), Clean(p, z, p[n].in[i])
  PROVE  BlockSeen(p, W, z, n, i, k)
<1>1. IsPlan(p) /\ Known(p, d, z, n)
  BY AllKnown
<1>2. PICK c : c = <<n, i>>
  OBVIOUS
<1>3. c \in Edges(p) /\ c # Executor /\ Src(p, c) = p[n].in[i] /\ c[1] = n /\ c[2] = i
  BY <1>1, <1>2, IsEdge
<1>4. p[n].in[i] \in DOMAIN p
  BY <1>1, PlanArity
<1>5. Sees(p, z, c) /\ Pc(z, n) # "skip_left"
  BY <1>1, <1>3 DEF Looks, Sees, Known, NodeViewOK
<1>6. NodeData(p, mask, W, D, d, z, p[n].in[i])
  BY <1>4 DEF NodesData
<1>7. SeenBlock(p, W, z, c, p[n].in[i])
  BY <1>3, <1>5, <1>6, SeenData
<1>8. A(z, c) = k + 1
  BY <1>2 DEF LooksAfter
<1>9. QED
  BY <1>3, <1>7, <1>8 DEF SeenBlock, BlockSeen, Blk

LEMMA GoodLocal ==
  ASSUME NEW p, NEW d, NEW z, Ctl(p, d, z), NEW n \in DOMAIN p, NEW q, q = z.nd[n].local
  PROVE  /\ LocalOK(p, n, q) /\ q.pc \in Pcs(p[n].op) /\ q.arg \in 1 .. 2 /\ q.got \in [1 .. 2 -> BOOLEAN]
         /\ q.row \in Nat /\ q.row \in 1 .. (BlockSize + 1) /\ q.outidx \in 0 .. (BlockSize - 1)
         /\ q.start \in 0 .. NumRows /\ q.skip_next_block \in BOOLEAN
         /\ z.nd[n].buffer \in Seq(0 .. NumRows) /\ Len(z.nd[n].buffer) <= BlockSize
<1>1. NodeOK(p, n, z.nd[n])
  BY DEF Ctl, Good, Good0, Shape
<1>2. LocalOK(p, n, q) /\ z.nd[n].buffer \in Seq(0 .. NumRows) /\ Len(z.nd[n].buffer) <= BlockSize
  BY <1>1, NodeParts
<1>3. /\ q.arg \in 1 .. 2 /\ q.got \in [1 .. 2 -> BOOLEAN]
      /\ q.row \in 1 .. (BlockSize + 1) /\ q.outidx \in 0 .. (BlockSize - 1)
      /\ q.start \in 0 .. NumRows /\ q.skip_next_block \in BOOLEAN
  BY <1>2, LocalParts
<1>4. q.row \in Nat /\ q.pc \in Pcs(p[n].op)
  BY <1>2, <1>3, ConstantTypes DEF LocalOK
<1>5. QED
  BY <1>2, <1>3, <1>4

\* A filter that has read its first blocks has read one of each.
LEMMA FilterFirst ==
  ASSUME NEW mask, NEW C, NEW s, NEW t, NEW q, NEW b, NEW k, NEW x, Filters(mask, C, s, t, q, b, k, x),
         q.pc = "first"
  PROVE  x = 1
BY DEF Filters, FilterIsAt

-----------------------------------------------------------------------------
(* The operator of n ends.                                                 *)

LEMMA TogetherRows ==
  ASSUME NEW p, IsPlan(p), NEW mask, NEW W, NEW D, Means(p, mask, W, D), NEW n \in DOMAIN p,
         p[n].op \in {"linear", "filter"}, NEW i \in 1 .. Arity(p, n)
  PROVE  W[p[n].in[i]] = W[p[n].in[1]]
<1>1. 1 \in 1 .. Arity(p, n)
  BY TwoInputs
<1>2. CASE p[n].op = "linear"
  BY <1>1, <1>2, MeansRows
<1>3. CASE p[n].op = "filter"
  <2>1. i = 1 \/ i = 2
    BY <1>3, PlanArity
  <2>2. QED
    BY <1>3, <2>1, MeansRows
<1>4. QED
  BY <1>2, <1>3

\* Inputs that are read together end together.
LEMMA NoAssertion ==
  ASSUME NEW p, NEW mask, NEW W, NEW D, NEW d, NEW z, Ctl(p, d, z), Means(p, mask, W, D),
         NodesData(p, mask, W, D, d, z), NEW n \in DOMAIN p, Looks(p, z, n),
         \A i \in 1 .. Arity(p, n) : Clean(p, z, p[n].in[i])
  PROVE  NoneGot(p, z.nd, n) \/ (AllGot(p, z.nd, n) /\ SameLengths(p, z.nd, n))
<1>1. IsPlan(p)
  BY AllKnown
<1>2. p[n].op \in {"linear", "filter"}
  BY DEF Looks
<1>3. PICK k \in Nat : LooksAfter(p, z, n, k)
  BY LooksRound
<1>4. 1 \in 1 .. Arity(p, n) /\ p[n].in[1] \in DOMAIN p
  BY <1>1, <1>2, TwoInputs
<1>5. PICK w : w = W[p[n].in[1]]
  OBVIOUS
<1>6. Len(w) \in Nat
  BY <1>4, <1>5, MeansRows
<1>7. Pos(k) \in Nat
  BY PosStep
<1>8. ASSUME NEW i \in 1 .. Arity(p, n)
      PROVE  /\ Got(z, n, i) = 1 => IsChunk(Blk(p, z.nd, n, i), w, k)
             /\ Got(z, n, i) # 1 => Len(w) <= Pos(k)
  <2>1. BlockSeen(p, W, z, n, i, k)
    BY <1>3, LooksData
  <2>2. W[p[n].in[i]] = w
    BY <1>1, <1>2, <1>5, TogetherRows
  <2>3. QED
    BY <2>1, <2>2 DEF BlockSeen
<1>9. CASE Len(w) <= Pos(k)
  <2>1. ASSUME NEW i \in 1 .. Arity(p, n) PROVE ~ z.nd[n].local.got[i]
    <3>1. Got(z, n, i) # 1
      BY <1>6, <1>7, <1>8, <1>9 DEF IsChunk
    <3>2. QED
      BY <3>1 DEF Got
  <2>2. QED
    BY <2>1 DEF NoneGot
<1>10. CASE ~ (Len(w) <= Pos(k))
  <2>1. ASSUME NEW i \in 1 .. Arity(p, n)
        PROVE  z.nd[n].local.got[i] /\ Len(Blk(p, z.nd, n, i)) = Upper(w, k + 1) - Pos(k)
    <3>1. Got(z, n, i) = 1
      BY <1>8, <1>10
    <3>2. IsChunk(Blk(p, z.nd, n, i), w, k)
      BY <1>8, <3>1
    <3>3. QED
      BY <3>1, <3>2 DEF Got, IsChunk
  <2>2. QED
    BY <1>4, <2>1 DEF AllGot, SameLengths
<1>11. QED
  BY <1>9, <1>10

\* An operator that returns has emitted all its rows.
LEMMA EndsComplete ==
  ASSUME NEW p, NEW mask, NEW W, NEW D, NEW d, NEW z, Ctl(p, d, z), Means(p, mask, W, D),
         NodesData(p, mask, W, D, d, z), NEW n \in DOMAIN p, Ac(z, n) = 1, Clean(p, z, n),
         EndCase(p, z.nd, z.go, n, "none")
  PROVE  Len(W[n]) <= Pos(K(z, n))
<1>1. IsPlan(p) /\ Known(p, d, z, n)
  BY AllKnown
<1>2. Up(z, n) = 1 /\ K(z, n) \in Nat
  BY <1>1 DEF Known, NodeViewOK
<1>3. NodeData(p, mask, W, D, d, z, n)
  BY DEF NodesData
<1>4. SourceData(p, W, z, n) /\ FilterData(p, mask, W, D, z, n) /\ AppendData(p, W, z, n)
  BY <1>2, <1>3 DEF NodeData
<1>5. W[n] \in Seq(1 .. NumRows) /\ Len(W[n]) \in Nat
  BY MeansRows
<1>6. PICK q : q = z.nd[n].local
  OBVIOUS
<1>7. q.outidx \in 0 .. (BlockSize - 1) /\ q.arg \in 1 .. 2
  BY <1>6, GoodLocal
<1>8. ASSUME Looks(p, z, n), NoneGot(p, z.nd, n)
      PROVE  \E k \in Nat : LooksAfter(p, z, n, k) /\ Len(W[p[n].in[1]]) <= Pos(k)
  <2>1. PICK k \in Nat : LooksAfter(p, z, n, k)
    BY <1>8, LooksRound
  <2>2. 1 \in 1 .. Arity(p, n)
    BY <1>1, <1>8, TwoInputs DEF Looks
  <2>3. Clean(p, z, p[n].in[1])
    BY <1>1, <2>2, CleanInput
  <2>4. BlockSeen(p, W, z, n, 1, k)
    BY <1>8, <2>1, <2>2, <2>3, LooksData
  <2>5. Got(z, n, 1) # 1
    BY <1>8, <2>2 DEF NoneGot, Got
  <2>6. QED
    BY <2>1, <2>4, <2>5 DEF BlockSeen
<1>9. CASE p[n].op = "source" /\ z.nd[n].local.start = NumRows
  <2>1. Upper(W[n], K(z, n)) = Len(W[n])
    BY <1>4, <1>9, MeansRows DEF SourceData
  <2>2. QED
    BY <1>2, <1>5, <2>1, UpperIs
<1>10. CASE p[n].op = "linear" /\ z.nd[n].local.pc = "apply" /\ NoneGot(p, z.nd, n)
  <2>1. Looks(p, z, n)
    BY <1>10 DEF Looks, Pc
  <2>2. PICK k \in Nat : LooksAfter(p, z, n, k) /\ Len(W[p[n].in[1]]) <= Pos(k)
    BY <1>8, <1>10, <2>1
  <2>3. K(z, n) = k
    BY <1>10, <2>2 DEF LooksAfter
  <2>4. W[p[n].in[1]] = W[n]
    <3>1. 1 \in 1 .. Arity(p, n)
      BY <1>1, <1>10, TwoInputs
    <3>2. QED
      BY <1>10, <3>1, MeansRows
  <2>5. QED
    BY <2>2, <2>3, <2>4
<1>11. ASSUME p[n].op = "filter"
       PROVE  /\ FilterRows(mask, D[n], W[p[n].in[1]], W[n]) /\ A(z, <<n, 1>>) \in Nat
              /\ Filters(mask, D[n], W[p[n].in[1]], W[n], q, z.nd[n].buffer, K(z, n), A(z, <<n, 1>>))
              /\ 1 \in 1 .. Arity(p, n) /\ p[n].in[1] \in DOMAIN p
  <2>1. 1 \in 1 .. Arity(p, n) /\ p[n].in[1] \in DOMAIN p
    BY <1>1, <1>11, TwoInputs
  <2>2. <<n, 1>> \in Edges(p)
    BY <1>1, <2>1, IsEdge
  <2>3. A(z, <<n, 1>>) \in Nat
    BY <2>2, AllKnown DEF KnownEdge, EdgeViewOK
  <2>4. QED
    BY <1>4, <1>6, <1>11, <2>1, <2>3, MeansFilter DEF FilterData
<1>12. CASE p[n].op = "filter" /\ z.nd[n].local.pc = "first" /\ NoneGot(p, z.nd, n)
  <2>1. Looks(p, z, n)
    BY <1>12 DEF Looks, Pc
  <2>2. PICK k \in Nat : LooksAfter(p, z, n, k) /\ Len(W[p[n].in[1]]) <= Pos(k)
    BY <1>8, <1>12, <2>1
  <2>3. A(z, <<n, 1>>) = k + 1
    BY <1>11, <1>12, <2>2 DEF LooksAfter
  <2>4. A(z, <<n, 1>>) = 1
    BY <1>6, <1>11, <1>12, FilterFirst
  <2>5. k = 0
    BY <2>3, <2>4
  <2>6. Len(W[p[n].in[1]]) = 0
    <3>1. Pos(0) = 0
      BY PosStep
    <3>2. Len(W[p[n].in[1]]) \in Nat
      BY <1>11, <1>12, MeansRows
    <3>3. QED
      BY <2>2, <2>5, <3>1, <3>2
  <2>7. QED
    BY <1>2, <1>6, <1>7, <1>11, <1>12, <2>6, FilterEnds
<1>13. CASE /\ p[n].op \in {"filter", "append"}
            /\ z.nd[n].local.pc = "end" \/ (z.nd[n].local.pc = "tail" /\ z.nd[n].local.outidx = 0)
  <2>1. CASE p[n].op = "filter"
    BY <1>2, <1>6, <1>7, <1>11, <1>13, <2>1, FilterEnds
  <2>2. CASE p[n].op = "append"
    <3>1. /\ p[n].in[1] \in DOMAIN p /\ p[n].in[2] \in DOMAIN p /\ Arity(p, n) = 2
      BY <1>1, <2>2, TwoInputs
    <3>2. JoinRows(W[p[n].in[1]], W[p[n].in[2]], W[n])
      BY <2>2, <3>1, MeansAppend
    <3>3. <<n, q.arg>> \in Edges(p)
      BY <1>1, <1>7, <3>1, IsEdge
    <3>4. A(z, <<n, q.arg>>) \in Nat
      BY <3>3, AllKnown DEF KnownEdge, EdgeViewOK
    <3>5. Joins(W[p[n].in[1]], W[p[n].in[2]], W[n], q, z.nd[n].buffer, K(z, n), A(z, <<n, q.arg>>))
      BY <1>4, <1>6, <2>2 DEF AppendData
    <3>6. QED
      BY <1>2, <1>6, <1>7, <1>13, <3>2, <3>4, <3>5, AppendEnds
  <2>3. QED
    BY <1>13, <2>1, <2>2
<1>14. QED
  BY <1>9, <1>10, <1>12, <1>13 DEF EndCase

\* The operator of n leaves the buffer b, the variables o and the exception why.
Becomes(p, z, z2, n, b, o, why) ==
  /\ z.st # <<>> /\ z2.nd[n].buffer = b /\ z2.nd[n].local = o /\ z2.nd[n].exception = why
  /\ \A x \in DOMAIN p : x # n => z2.nd[x] = z.nd[x]

LEMMA NodeAfterEnd ==
  ASSUME NEW p, NEW d, NEW z, NEW z2, NEW n, NEW why, Ctl(p, d, z),
         EndStep(z.nd, z.st, z2.nd, z2.st, n, why)
  PROVE  Becomes(p, z, z2, n, z.nd[n].buffer, z.nd[n].local, why)
<1>1. Good0(p, z.nd, z.st) /\ Inside(z.st, n)
  BY DEF Ctl, Good, EndStep
<1>2. n \in DOMAIN p /\ z.nd[n] \in NodeType(p, n) /\ z.st # <<>>
  BY <1>1, InsideTyped
<1>3. PICK x : x = [z.nd[n] EXCEPT !.done = TRUE, !.exception = why]
  OBVIOUS
<1>4. x.buffer = z.nd[n].buffer /\ x.local = z.nd[n].local /\ x.exception = why
  BY <1>2, <1>3 DEF NodeType
<1>5. z.nd = [y \in DOMAIN p |-> z.nd[y]]
  BY <1>1 DEF Good0, Shape
<1>6. z2.nd[n] = x /\ (\A y \in DOMAIN p : y # n => z2.nd[y] = z.nd[y])
  BY <1>2, <1>3, <1>5 DEF EndStep
<1>7. QED
  BY <1>2, <1>4, <1>6 DEF Becomes

LEMMA NodeAfterSink ==
  ASSUME NEW p, NEW d, NEW z, NEW z2, NEW n, NEW e, NEW b, NEW o, Ctl(p, d, z),
         SinkStep(z.nd, z.st, z2.nd, z2.st, n, e, b, o)
  PROVE  Becomes(p, z, z2, n, b, o, z.nd[n].exception)
<1>1. Good0(p, z.nd, z.st) /\ Inside(z.st, n)
  BY DEF Ctl, Good, SinkStep
<1>2. n \in DOMAIN p /\ z.nd[n] \in NodeType(p, n) /\ z.st # <<>>
  BY <1>1, InsideTyped
<1>3. PICK x : x = [z.nd[n] EXCEPT !.queue = Append(z.nd[n].queue, e), !.buffer = b, !.local = o]
  OBVIOUS
<1>4. x.buffer = b /\ x.local = o /\ x.exception = z.nd[n].exception
  BY <1>2, <1>3 DEF NodeType
<1>5. z.nd = [y \in DOMAIN p |-> z.nd[y]]
  BY <1>1 DEF Good0, Shape
<1>6. z2.nd[n] = x /\ (\A y \in DOMAIN p : y # n => z2.nd[y] = z.nd[y])
  BY <1>2, <1>3, <1>5 DEF SinkStep
<1>7. QED
  BY <1>2, <1>4, <1>6 DEF Becomes

LEMMA NodeAfterMove ==
  ASSUME NEW p, NEW d, NEW z, NEW z2, NEW n, NEW b, NEW o, Ctl(p, d, z),
         LocalStep(z.nd, z.st, z2.nd, z2.st, n, b, o)
  PROVE  Becomes(p, z, z2, n, b, o, z.nd[n].exception)
<1>1. Good0(p, z.nd, z.st) /\ Inside(z.st, n)
  BY DEF Ctl, Good, LocalStep
<1>2. n \in DOMAIN p /\ z.nd[n] \in NodeType(p, n) /\ z.st # <<>>
  BY <1>1, InsideTyped
<1>3. PICK x : x = [z.nd[n] EXCEPT !.queue = z.nd[n].queue, !.buffer = b, !.local = o]
  OBVIOUS
<1>4. x.buffer = b /\ x.local = o /\ x.exception = z.nd[n].exception
  BY <1>2, <1>3 DEF NodeType
<1>5. z.nd = [y \in DOMAIN p |-> z.nd[y]]
  BY <1>1 DEF Good0, Shape
<1>6. z2.nd[n] = x /\ (\A y \in DOMAIN p : y # n => z2.nd[y] = z.nd[y])
  BY <1>2, <1>3, <1>5 DEF LocalStep
<1>7. QED
  BY <1>2, <1>4, <1>6 DEF Becomes

LEMMA NodeAfterResume ==
  ASSUME NEW p, NEW d, NEW z, NEW z2, NEW n, NEW c, NEW o, Ctl(p, d, z),
         ResumeStep(z.nd, z.st, z2.nd, z2.st, n, c, o)
  PROVE  Becomes(p, z, z2, n, z.nd[n].buffer, o, z.nd[n].exception)
<1>1. Good0(p, z.nd, z.st) /\ z.st # <<>> /\ TopOf(z.st).node = n
  BY DEF Ctl, Good, ResumeStep, Waits
<1>2. n \in DOMAIN p /\ z.nd[n] \in NodeType(p, n)
  BY <1>1, TopTyped DEF NodeOK
<1>3. PICK x : x = [z.nd[n] EXCEPT !.local = o]
  OBVIOUS
<1>4. x.buffer = z.nd[n].buffer /\ x.local = o /\ x.exception = z.nd[n].exception
  BY <1>2, <1>3 DEF NodeType
<1>5. z.nd = [y \in DOMAIN p |-> z.nd[y]]
  BY <1>1 DEF Good0, Shape
<1>6. z2.nd[n] = x /\ (\A y \in DOMAIN p : y # n => z2.nd[y] = z.nd[y])
  BY <1>2, <1>3, <1>5 DEF ResumeStep
<1>7. QED
  BY <1>1, <1>4, <1>6 DEF Becomes

\* The node on top has thrown nothing.
LEMMA RunsCleanly ==
  ASSUME NEW p, NEW d, NEW z, Ctl(p, d, z), NEW n \in DOMAIN p, Ac(z, n) = 1, ExceptionsOK(p, z)
  PROVE  z.nd[n].exception = "none"
<1>1. En(z, n) = 0
  BY AllKnown DEF Known, NodeViewOK
<1>2. QED
  BY <1>1 DEF ExceptionsOK, ExceptionOK

LEMMA EndsData ==
  ASSUME NEW p, NEW mask, NEW W, NEW D, NEW d, NEW z, NEW z2, Paced(p, d, z), Means(p, mask, W, D),
         Data(p, mask, W, D, d, z), ExecTyped(z), TurnEnds(p, z, z2)
  PROVE  Data(p, mask, W, D, d, z2)
<1>1. PICK n \in DOMAIN p, why \in Exceptions :
        EndCase(p, z.nd, z.go, n, why) /\ EndStep(z.nd, z.st, z2.nd, z2.st, n, why)
  BY DEF TurnEnds
<1>2. Aside(z, z2) /\ SameRest(z, z2) /\ Unnoticed(z, z2) /\ Steady(p, d, z) /\ Ctl(p, d, z)
  BY AsideRest DEF TurnEnds, Paced, Aside, Steady
<1>3. CEnd(p, z, z2, n) /\ Ctl(p, d, z2)
  BY <1>1, <1>2, EndCaseLink DEF Steady
<1>4. /\ OwnStep(p, z, z2, n) /\ Ac(z, n) = 1 /\ Ac(z2, n) = 0 /\ En(z2, n) = 1 /\ K(z2, n) = K(z, n)
      /\ Fk(p, z2, n) = Fk(p, z, n) /\ Up(z2, n) = Up(z, n)
  BY <1>3 DEF CEnd, OwnStep
<1>5. EndsStay(p, z, z2)
  BY <1>4, OwnEndsStay
<1>6. Becomes(p, z, z2, n, z.nd[n].buffer, z.nd[n].local, why)
  BY <1>1, <1>2, NodeAfterEnd
<1>7. z.ex.pc = "call" /\ \A x \in DOMAIN p : x # n => z2.nd[x] = z.nd[x]
  BY <1>6 DEF Becomes, ExecTyped
<1>8. z.nd[n].exception = "none" /\ z2.nd[n].exception = why
  BY <1>2, <1>4, <1>6, RunsCleanly DEF Becomes, Data
<1>9. ExceptionsStay(p, z, z2)
  BY <1>7, <1>8 DEF ExceptionsStay
<1>10. NodesData(p, mask, W, D, d, z)
  BY DEF Data
<1>11. ExceptionOK(p, z2, n)
  <2>1. why = "canceled" => ~ z2.go
    BY <1>1, <1>2 DEF EndCase, SameRest
  <2>2. ASSUME why = "assert", \A i \in 1 .. Arity(p, n) : Clean(p, z2, p[n].in[i]) PROVE FALSE
    <3>1. /\ ~ NoneGot(p, z.nd, n) /\ ~ (AllGot(p, z.nd, n) /\ SameLengths(p, z.nd, n))
          /\ \/ p[n].op = "linear" /\ z.nd[n].local.pc = "apply"
             \/ p[n].op = "filter" /\ z.nd[n].local.pc \in {"first", "check"}
      BY <1>1, <2>2 DEF EndCase
    <3>2. Looks(p, z, n)
      BY <1>4, <3>1 DEF Looks, Pc
    <3>3. \A i \in 1 .. Arity(p, n) : Clean(p, z, p[n].in[i])
      BY <1>9, <2>2, CleanBack
    <3>4. QED
      BY <1>2, <1>10, <3>1, <3>2, <3>3, NoAssertion
  <2>3. QED
    BY <1>4, <1>8, <2>1, <2>2 DEF ExceptionOK
<1>12. ASSUME Clean(p, z2, n) PROVE NodeData(p, mask, W, D, d, z2, n)
  <2>1. why = "none" /\ Clean(p, z, n)
    BY <1>8, <1>9, <1>12, CleanNone, CleanBack
  <2>2. NodeData(p, mask, W, D, d, z, n)
    BY <1>10, <2>1 DEF NodesData
  <2>3. Len(W[n]) <= Pos(K(z, n))
    BY <1>1, <1>2, <1>4, <1>10, <2>1, EndsComplete
  <2>4. K(z, n) # R(z2, d[n])
    <3>1. K(z, n) + 1 = R(z, d[n]) /\ K(z, n) \in Nat
      BY <1>2, <1>4, ActivePace, AllKnown DEF Known, NodeViewOK
    <3>2. R(z2, d[n]) = R(z, d[n])
      BY <1>2 DEF SameRest, R
    <3>3. QED
      BY <3>1, <3>2
  <2>5. z2.nd[n].buffer = z.nd[n].buffer /\ z2.nd[n].local = z.nd[n].local
    BY <1>6 DEF Becomes
  <2>6. \A c : A(z2, c) = A(z, c)
    BY <1>2 DEF SameRest, A
  <2>7. Up(z, n) = 1
    BY <1>2, <1>4, AllKnown DEF Known, NodeViewOK
  <2>8. HasBlock(p, W, d, z2, n)
    BY <1>4, <2>4 DEF HasBlock
  <2>9. HasEnded(W, z2, n)
    BY <1>4, <2>3 DEF HasEnded
  <2>10. SourceData(p, W, z2, n)
    BY <1>4, <2>2, <2>5, <2>7 DEF NodeData, SourceData
  <2>11. FilterData(p, mask, W, D, z2, n)
    BY <1>4, <2>2, <2>5, <2>6, <2>7 DEF NodeData, FilterData
  <2>12. AppendData(p, W, z2, n)
    BY <1>4, <2>2, <2>5, <2>6, <2>7 DEF NodeData, AppendData
  <2>13. QED
    BY <2>8, <2>9, <2>10, <2>11, <2>12 DEF NodeData
<1>13. QED
  BY <1>2, <1>4, <1>5, <1>7, <1>8, <1>11, <1>12, OwnData

-----------------------------------------------------------------------------
(* What a filter and an append know.                                       *)

FilterHas(p, mask, W, D, z, n) ==
  /\ FilterRows(mask, D[n], W[p[n].in[1]], W[n]) /\ A(z, <<n, 1>>) \in Nat /\ K(z, n) \in Nat
  /\ Filters(mask, D[n], W[p[n].in[1]], W[n], z.nd[n].local, z.nd[n].buffer, K(z, n), A(z, <<n, 1>>))

LEMMA FilterKnows ==
  ASSUME NEW p, NEW mask, NEW W, NEW D, NEW d, NEW z, Ctl(p, d, z), Means(p, mask, W, D),
         NEW n \in DOMAIN p, NodeData(p, mask, W, D, d, z, n), Up(z, n) = 1, p[n].op = "filter"
  PROVE  FilterHas(p, mask, W, D, z, n)
<1>1. IsPlan(p) /\ K(z, n) \in Nat
  BY AllKnown DEF Known, NodeViewOK
<1>2. 1 \in 1 .. Arity(p, n) /\ p[n].in[1] \in DOMAIN p
  BY <1>1, TwoInputs
<1>3. <<n, 1>> \in Edges(p)
  BY <1>1, <1>2, IsEdge
<1>4. A(z, <<n, 1>>) \in Nat
  BY <1>3, AllKnown DEF KnownEdge, EdgeViewOK
<1>5. FilterRows(mask, D[n], W[p[n].in[1]], W[n])
  BY <1>2, MeansFilter
<1>6. FilterData(p, mask, W, D, z, n)
  BY DEF NodeData
<1>7. QED
  BY <1>1, <1>4, <1>5, <1>6 DEF FilterHas, FilterData

AppendHas(p, W, z, n) ==
  /\ JoinRows(W[p[n].in[1]], W[p[n].in[2]], W[n]) /\ K(z, n) \in Nat
  /\ \A i \in 1 .. 2 : A(z, <<n, i>>) \in Nat
  /\ Joins(W[p[n].in[1]], W[p[n].in[2]], W[n], z.nd[n].local, z.nd[n].buffer, K(z, n),
           A(z, <<n, z.nd[n].local.arg>>))

LEMMA AppendKnows ==
  ASSUME NEW p, NEW mask, NEW W, NEW D, NEW d, NEW z, Ctl(p, d, z), Means(p, mask, W, D),
         NEW n \in DOMAIN p, NodeData(p, mask, W, D, d, z, n), Up(z, n) = 1, p[n].op = "append"
  PROVE  AppendHas(p, W, z, n)
<1>1. IsPlan(p) /\ K(z, n) \in Nat
  BY AllKnown DEF Known, NodeViewOK
<1>2. Arity(p, n) = 2 /\ p[n].in[1] \in DOMAIN p /\ p[n].in[2] \in DOMAIN p
  BY <1>1, TwoInputs
<1>3. ASSUME NEW i \in 1 .. 2 PROVE A(z, <<n, i>>) \in Nat
  <2>1. <<n, i>> \in Edges(p)
    BY <1>1, <1>2, IsEdge
  <2>2. QED
    BY <2>1, AllKnown DEF KnownEdge, EdgeViewOK
<1>4. JoinRows(W[p[n].in[1]], W[p[n].in[2]], W[n])
  BY <1>2, MeansAppend
<1>5. AppendData(p, W, z, n)
  BY DEF NodeData
<1>6. QED
  BY <1>1, <1>3, <1>4, <1>5 DEF AppendHas, AppendData

\* What a filter sees of its inputs, of which it has read k blocks before.
FilterSees(p, W, z, n, k) ==
  /\ A(z, <<n, 1>>) = k + 1
  /\ \A i \in 1 .. 2 : /\ z.nd[n].local.got[i] => IsChunk(Blk(p, z.nd, n, i), W[p[n].in[1]], k)
                       /\ ~ z.nd[n].local.got[i] => Len(W[p[n].in[1]]) <= Pos(k)

LEMMA FilterLooks ==
  ASSUME NEW p, NEW mask, NEW W, NEW D, NEW d, NEW z, Ctl(p, d, z), Means(p, mask, W, D),
         NodesData(p, mask, W, D, d, z), NEW n \in DOMAIN p, Ac(z, n) = 1, Clean(p, z, n),
         p[n].op = "filter", z.nd[n].local.pc \in {"first", "check", "rows"}
  PROVE  \E k \in Nat : FilterSees(p, W, z, n, k)
<1>1. IsPlan(p)
  BY AllKnown
<1>2. Looks(p, z, n)
  BY DEF Looks, Pc
<1>3. PICK k \in Nat : LooksAfter(p, z, n, k)
  BY <1>2, LooksRound
<1>4. Arity(p, n) = 2
  BY <1>1, TwoInputs
<1>5. ASSUME NEW i \in 1 .. 2
      PROVE  /\ z.nd[n].local.got[i] => IsChunk(Blk(p, z.nd, n, i), W[p[n].in[1]], k)
             /\ ~ z.nd[n].local.got[i] => Len(W[p[n].in[1]]) <= Pos(k)
  <2>1. i \in 1 .. Arity(p, n)
    BY <1>4
  <2>2. Clean(p, z, p[n].in[i])
    BY <1>1, <2>1, CleanInput
  <2>3. BlockSeen(p, W, z, n, i, k)
    BY <1>2, <1>3, <2>1, <2>2, LooksData
  <2>4. W[p[n].in[i]] = W[p[n].in[1]]
    BY <1>1, <2>1, TogetherRows
  <2>5. QED
    BY <2>3, <2>4 DEF BlockSeen, Got
<1>6. A(z, <<n, 1>>) = k + 1
  BY <1>3, <1>4 DEF LooksAfter
<1>7. QED
  BY <1>5, <1>6 DEF FilterSees

\* A filter that has a row to copy.
LEMMA FilterHasRow ==
  ASSUME NEW p, NEW mask, NEW W, NEW D, NEW d, NEW z, Ctl(p, d, z), Means(p, mask, W, D),
         NodesData(p, mask, W, D, d, z), NEW n \in DOMAIN p, Ac(z, n) = 1, Clean(p, z, n),
         p[n].op = "filter", z.nd[n].local.pc = "rows", Copies(z.nd, n, Blk(p, z.nd, n, 1))
  PROVE  /\ AtRow(W[p[n].in[1]], z.nd[n].local, A(z, <<n, 1>>), Blk(p, z.nd, n, 1))
         /\ RowAt(Blk(p, z.nd, n, 2), z.nd[n].local.row) = Blk(p, z.nd, n, 1)[z.nd[n].local.row]
<1>1. PICK k \in Nat : FilterSees(p, W, z, n, k)
  BY FilterLooks
<1>2. z.nd[n].local.got[1] /\ z.nd[n].local.got[2]
  <2>1. Filter(p, z, n) /\ Up(z, n) = 1
    BY AllKnown DEF Known, NodeCtl, NodeViewOK
  <2>2. QED
    BY <2>1 DEF Filter, Pc, Got
<1>3. PICK b1, b2, w, j : b1 = Blk(p, z.nd, n, 1) /\ b2 = Blk(p, z.nd, n, 2) /\ w = W[p[n].in[1]]
                          /\ j = z.nd[n].local.row
  OBVIOUS
<1>4. IsChunk(b1, w, k) /\ IsChunk(b2, w, k) /\ A(z, <<n, 1>>) = k + 1
  BY <1>1, <1>2, <1>3 DEF FilterSees
<1>5. j \in 1 .. Len(b1)
  BY <1>3 DEF Copies
<1>6. AtRow(w, z.nd[n].local, A(z, <<n, 1>>), b1)
  BY <1>3, <1>4, <1>5 DEF AtRow
<1>7. Len(b2) = Len(b1) /\ b1[j] = w[Pos(k) + j] /\ b2[j] = w[Pos(k) + j]
  BY <1>4, <1>5 DEF IsChunk
<1>8. j \in DOMAIN b2
  <2>1. p[n].in[2] \in DOMAIN p
    BY AllKnown, TwoInputs
  <2>2. b2 \in Seq(0 .. NumRows)
    BY <1>3, <2>1, GoodLocal DEF Blk
  <2>3. DOMAIN b2 = 1 .. Len(b2)
    BY <2>2
  <2>4. QED
    BY <1>5, <1>7, <2>3
<1>9. QED
  BY <1>3, <1>6, <1>7, <1>8 DEF RowAt

\* What an append sees of the input it reads.
AppendSees(p, W, z, n, k) ==
  LET q == z.nd[n].local
  IN  /\ A(z, <<n, q.arg>>) = k + 1
      /\ q.got[q.arg] => IsChunk(Blk(p, z.nd, n, q.arg), Part(W[p[n].in[1]], W[p[n].in[2]], q), k)
      /\ ~ q.got[q.arg] => Len(Part(W[p[n].in[1]], W[p[n].in[2]], q)) <= Pos(k)

LEMMA AppendLooks ==
  ASSUME NEW p, NEW mask, NEW W, NEW D, NEW d, NEW z, Ctl(p, d, z), Means(p, mask, W, D),
         NEW n \in DOMAIN p, Up(z, n) = 1, p[n].op = "append", z.nd[n].local.pc = "copy",
         NodeData(p, mask, W, D, d, z, p[n].in[z.nd[n].local.arg]),
         NEW k \in Nat, A(z, <<n, z.nd[n].local.arg>>) = k + 1
  PROVE  AppendSees(p, W, z, n, k)
<1>1. IsPlan(p)
  BY AllKnown
<1>2. Arity(p, n) = 2
  BY <1>1, TwoInputs
<1>3. PICK q : q = z.nd[n].local
  OBVIOUS
<1>4. q.arg \in 1 .. 2
  BY <1>3, GoodLocal
<1>5. PICK c : c = <<n, q.arg>>
  OBVIOUS
<1>6. c \in Edges(p) /\ c # Executor /\ Src(p, c) = p[n].in[q.arg] /\ c[1] = n /\ c[2] = q.arg
  BY <1>1, <1>2, <1>4, <1>5, IsEdge
<1>7. Sees(p, z, c) /\ Pc(z, c[1]) # "skip_left"
  BY <1>3, <1>6 DEF Sees, Pc, Arg
<1>8. SeenBlock(p, W, z, c, p[n].in[q.arg])
  BY <1>3, <1>6, <1>7, SeenData
<1>9. A(z, c) = k + 1
  BY <1>3, <1>5
<1>10. PICK u, v, g : u = W[p[n].in[q.arg]] /\ v = z.nd[p[n].in[q.arg]].buffer /\ g = q.got[q.arg]
  OBVIOUS
<1>11. u = Part(W[p[n].in[1]], W[p[n].in[2]], q)
  BY <1>4, <1>10 DEF Part
<1>12. Got(z, c[1], c[2]) = IF g THEN 1 ELSE 0
  BY <1>3, <1>6, <1>10 DEF Got
<1>13. /\ Got(z, c[1], c[2]) = 1 => IsChunk(v, u, k)
       /\ Got(z, c[1], c[2]) # 1 => Len(u) <= Pos(k)
  BY <1>8, <1>9, <1>10 DEF SeenBlock
<1>14. (g => IsChunk(v, u, k)) /\ (~ g => Len(u) <= Pos(k))
  BY <1>12, <1>13
<1>15. v = Blk(p, z.nd, n, q.arg)
  BY <1>10 DEF Blk
<1>16. QED
  BY <1>3, <1>10, <1>11, <1>14, <1>15 DEF AppendSees

-----------------------------------------------------------------------------
(* The operator of n emits.                                                *)

\* What must hold of the node after a sink.
SinkNeeds(p, mask, W, D, z, z2, n, b, o) ==
  /\ Fk(p, z2, n) = 0 => IsChunk(b, W[n], K(z, n))
  /\ p[n].op = "source" => o.start = Upper(W[n], K(z, n) + 1)
  /\ p[n].op = "filter" =>
       Filters(mask, D[n], W[p[n].in[1]], W[n], o, b, K(z, n) + 1, A(z, <<n, 1>>))
  /\ p[n].op = "append" =>
       Joins(W[p[n].in[1]], W[p[n].in[2]], W[n], o, b, K(z, n) + 1, A(z, <<n, o.arg>>))

LEMMA SinkNode ==
  ASSUME NEW p, NEW mask, NEW W, NEW D, NEW d, NEW z, NEW z2, NEW n \in DOMAIN p, NEW b, NEW o, NEW why,
         Ctl(p, d, z), CSink(p, z, z2, n), SameRest(z, z2), Becomes(p, z, z2, n, b, o, why),
         SinkNeeds(p, mask, W, D, z, z2, n, b, o)
  PROVE  NodeData(p, mask, W, D, d, z2, n)
<1>1. K(z2, n) = K(z, n) + 1 /\ En(z2, n) = En(z, n) /\ Ac(z, n) = 1
  BY DEF CSink
<1>2. En(z, n) = 0 /\ K(z, n) \in Nat
  BY <1>1, AllKnown DEF Known, NodeViewOK
<1>3. z2.nd[n].buffer = b /\ z2.nd[n].local = o
  BY DEF Becomes
<1>4. \A c : A(z2, c) = A(z, c)
  BY DEF SameRest, A
<1>5. HasBlock(p, W, d, z2, n)
  <2>1. ASSUME NEW k \in Nat, K(z2, n) = k + 1, Fk(p, z2, n) = 0 PROVE IsChunk(b, W[n], k)
    <3>1. k = K(z, n)
      BY <1>1, <1>2, <2>1
    <3>2. QED
      BY <2>1, <3>1 DEF SinkNeeds
  <2>2. QED
    BY <1>3, <2>1 DEF HasBlock
<1>6. HasEnded(W, z2, n)
  BY <1>1, <1>2 DEF HasEnded
<1>7. SourceData(p, W, z2, n)
  BY <1>1, <1>3 DEF SourceData, SinkNeeds
<1>8. FilterData(p, mask, W, D, z2, n)
  BY <1>1, <1>3, <1>4 DEF FilterData, SinkNeeds
<1>9. AppendData(p, W, z2, n)
  BY <1>1, <1>3, <1>4 DEF AppendData, SinkNeeds
<1>10. QED
  BY <1>5, <1>6, <1>7, <1>8, <1>9 DEF NodeData

LEMMA RangeLen ==
  ASSUME NEW m \in Nat, NEW y
  PROVE  Len([j \in 1 .. m |-> y + j]) = m
OBVIOUS

\* The next block of a source.
LEMMA SourceChunk ==
  ASSUME NEW w \in Seq(1 .. NumRows), Len(w) = NumRows, \A j \in 1 .. NumRows : w[j] = j,
         NEW k \in Nat, NEW s, s = Upper(w, k), s # NumRows,
         NEW e, e = IF s + BlockSize < NumRows THEN s + BlockSize ELSE NumRows,
         NEW b, b = [j \in 1 .. (e - s) |-> s + j]
  PROVE  e = Upper(w, k + 1) /\ IsChunk(b, w, k)
<1>1. NumRows \in Nat /\ BlockSize \in Nat \ {0}
  BY ConstantTypes
<1>2. PICK y \in Nat : y = Pos(k)
  BY PosStep
<1>3. Pos(k + 1) = y + BlockSize
  BY <1>2, PosStep
<1>4. y < NumRows /\ s = y
  <2>1. Upper(w, k) = IF y < NumRows THEN y ELSE NumRows
    BY <1>2 DEF Upper
  <2>2. QED
    BY <1>1, <2>1
<1>5. e = Upper(w, k + 1)
  BY <1>3, <1>4 DEF Upper
<1>6. e \in Nat /\ y < e /\ e <= NumRows
  BY <1>1, <1>4
<1>7. e - y \in Nat /\ b = [j \in 1 .. (e - y) |-> y + j]
  BY <1>4, <1>6
<1>8. Len(b) = e - y
  <2>1. PICK m \in Nat : m = e - y
    BY <1>7
  <2>2. b = [j \in 1 .. m |-> y + j]
    BY <1>7, <2>1
  <2>3. Len(b) = m
    BY <2>2, RangeLen, Zenon
  <2>4. QED
    BY <2>1, <2>3
<1>9. ASSUME NEW j \in 1 .. Len(b) PROVE b[j] = w[Pos(k) + j]
  <2>1. j \in 1 .. (e - y)
    BY <1>8, <1>9
  <2>2. y + j \in 1 .. NumRows
    BY <1>1, <1>6, <2>1
  <2>3. b[j] = y + j
    BY <1>7, <2>1
  <2>4. QED
    BY <1>2, <2>2, <2>3
<1>10. QED
  BY <1>2, <1>4, <1>5, <1>8, <1>9 DEF IsChunk

LEMMA SourceSinks ==
  ASSUME NEW p, NEW mask, NEW W, NEW D, NEW d, NEW z, NEW z2, NEW n \in DOMAIN p, NEW b, NEW o, NEW q,
         Ctl(p, d, z), CSink(p, z, z2, n), Means(p, mask, W, D), NodeData(p, mask, W, D, d, z, n),
         p[n].op = "source", q = z.nd[n].local, q.start # NumRows,
         b = SourceBlock(z.nd[n]), o = [q EXCEPT !.start = SourceEnd(q)]
  PROVE  SinkNeeds(p, mask, W, D, z, z2, n, b, o)
<1>1. Ac(z, n) = 1 /\ Fk(p, z2, n) = Fk(p, z, n)
  BY DEF CSink
<1>2. Up(z, n) = 1 /\ K(z, n) \in Nat
  BY <1>1, AllKnown DEF Known, NodeViewOK
<1>3. PICK w : w = W[n]
  OBVIOUS
<1>4. w \in Seq(1 .. NumRows) /\ Len(w) = NumRows /\ \A j \in 1 .. NumRows : w[j] = j
  BY <1>3, MeansRows
<1>5. q.start = Upper(w, K(z, n))
  BY <1>2, <1>3 DEF NodeData, SourceData
<1>6. q \in LocalType
  BY GoodLocal DEF LocalOK
<1>7. PICK e : e = SourceEnd(q)
  OBVIOUS
<1>8. o.start = e
  BY <1>6, <1>7 DEF LocalType
<1>9. PICK u : u = [j \in 1 .. (e - q.start) |-> q.start + j]
  OBVIOUS
<1>10. e = IF q.start + BlockSize < NumRows THEN q.start + BlockSize ELSE NumRows
  BY <1>7 DEF SourceEnd
<1>11. e = Upper(w, K(z, n) + 1) /\ IsChunk(u, w, K(z, n))
  BY <1>2, <1>4, <1>5, <1>9, <1>10, SourceChunk
<1>12. Fk(p, z, n) = 0 => b = u
  BY <1>7, <1>9 DEF Fk, SourceBlock
<1>13. QED
  BY <1>1, <1>3, <1>8, <1>11, <1>12 DEF SinkNeeds

\* The block of a transform.
LEMMA AppliedChunk ==
  ASSUME NEW p, NEW nd, NEW n, NEW w, NEW k \in Nat, 1 \in 1 .. Arity(p, n),
         Blk(p, nd, n, 1) \in Seq(0 .. NumRows),
         \A i \in 1 .. Arity(p, n) : IsChunk(Blk(p, nd, n, i), w, k) /\ Blk(p, nd, n, i) \in Seq(0 .. NumRows)
  PROVE  IsChunk(Applied(p, nd, n), w, k)
<1>1. PICK b : b = Blk(p, nd, n, 1)
  OBVIOUS
<1>2. b \in Seq(0 .. NumRows) /\ IsChunk(b, w, k)
  BY <1>1
<1>3. DOMAIN b = 1 .. Len(b) /\ Len(b) \in Nat
  BY <1>2, LenProperties
<1>4. ASSUME NEW i \in 1 .. Arity(p, n), NEW j \in DOMAIN b PROVE RowAt(Blk(p, nd, n, i), j) = b[j]
  <2>1. PICK v : v = Blk(p, nd, n, i)
    OBVIOUS
  <2>2. v \in Seq(0 .. NumRows) /\ IsChunk(v, w, k)
    BY <2>1
  <2>3. Len(v) = Len(b)
    BY <1>2, <2>2 DEF IsChunk
  <2>4. DOMAIN v = 1 .. Len(v)
    BY <2>2
  <2>5. j \in 1 .. Len(b) /\ j \in 1 .. Len(v) /\ j \in DOMAIN v
    BY <1>3, <1>4, <2>3, <2>4
  <2>6. v[j] = w[Pos(k) + j] /\ b[j] = w[Pos(k) + j]
    BY <1>2, <2>2, <2>5 DEF IsChunk
  <2>7. QED
    BY <2>1, <2>5, <2>6 DEF RowAt
<1>5. PICK a : a = Applied(p, nd, n)
  OBVIOUS
<1>6. a = [j \in DOMAIN b |-> b[j]]
  BY <1>1, <1>4, <1>5 DEF Applied
<1>7. a = b
  <2>1. b = [j \in DOMAIN b |-> b[j]]
    BY <1>2
  <2>2. QED
    BY <1>6, <2>1
<1>8. QED
  BY <1>2, <1>5, <1>7

LEMMA LinearSinks ==
  ASSUME NEW p, NEW mask, NEW W, NEW D, NEW d, NEW z, NEW z2, NEW n \in DOMAIN p, NEW b, NEW o,
         Ctl(p, d, z), Means(p, mask, W, D), NodesData(p, mask, W, D, d, z), Ac(z, n) = 1, Clean(p, z, n),
         p[n].op = "linear", z.nd[n].local.pc = "apply", AllGot(p, z.nd, n), b = Applied(p, z.nd, n)
  PROVE  SinkNeeds(p, mask, W, D, z, z2, n, b, o)
<1>1. IsPlan(p)
  BY AllKnown
<1>2. Looks(p, z, n)
  BY DEF Looks, Pc
<1>3. PICK k \in Nat : LooksAfter(p, z, n, k)
  BY <1>2, LooksRound
<1>4. K(z, n) = k
  BY <1>3 DEF LooksAfter
<1>5. 1 \in 1 .. Arity(p, n)
  BY <1>1, TwoInputs
<1>6. ASSUME NEW i \in 1 .. Arity(p, n)
      PROVE  IsChunk(Blk(p, z.nd, n, i), W[n], k) /\ Blk(p, z.nd, n, i) \in Seq(0 .. NumRows)
  <2>1. Clean(p, z, p[n].in[i])
    BY <1>1, CleanInput
  <2>2. BlockSeen(p, W, z, n, i, k)
    BY <1>2, <1>3, <2>1, LooksData
  <2>3. W[p[n].in[i]] = W[n]
    BY MeansRows
  <2>4. Got(z, n, i) = 1
    BY DEF Got, AllGot
  <2>5. p[n].in[i] \in DOMAIN p
    BY <1>1, PlanArity
  <2>6. Blk(p, z.nd, n, i) \in Seq(0 .. NumRows)
    BY <2>5, GoodLocal DEF Blk
  <2>7. QED
    BY <2>2, <2>3, <2>4, <2>6 DEF BlockSeen
<1>7. IsChunk(b, W[n], K(z, n))
  BY <1>4, <1>5, <1>6, AppliedChunk
<1>8. QED
  BY <1>7 DEF SinkNeeds

LEMMA FilterSinks ==
  ASSUME NEW p, NEW mask, NEW W, NEW D, NEW d, NEW z, NEW z2, NEW n \in DOMAIN p, NEW b, NEW o, NEW q,
         Ctl(p, d, z), Means(p, mask, W, D), NodesData(p, mask, W, D, d, z), Ac(z, n) = 1, Clean(p, z, n),
         p[n].op = "filter", q = z.nd[n].local,
         \/ /\ q.pc = "rows" /\ Copies(z.nd, n, Blk(p, z.nd, n, 1))
            /\ RowAt(Blk(p, z.nd, n, 2), q.row) \in mask /\ q.outidx + 1 = BlockSize
            /\ b = Filled(z.nd[n], Blk(p, z.nd, n, 1)) /\ o = RowEmitted(q)
         \/ /\ q.pc = "tail" /\ q.outidx > 0
            /\ b = Resize(z.nd[n].buffer, q.outidx) /\ o = [q EXCEPT !.pc = "end"]
  PROVE  SinkNeeds(p, mask, W, D, z, z2, n, b, o)
<1>1. Up(z, n) = 1
  BY AllKnown DEF Known, NodeViewOK
<1>2. FilterHas(p, mask, W, D, z, n)
  BY <1>1, FilterKnows DEF NodesData
<1>3. q \in LocalType /\ q.outidx \in 0 .. (BlockSize - 1)
  BY GoodLocal DEF LocalOK
<1>4. PICK s, t, C, k, x, b0 : s = W[p[n].in[1]] /\ t = W[n] /\ C = D[n] /\ k = K(z, n) /\ x = A(z, <<n, 1>>)
                               /\ b0 = z.nd[n].buffer
  OBVIOUS
<1>5. FilterRows(mask, C, s, t) /\ x \in Nat /\ k \in Nat /\ Filters(mask, C, s, t, q, b0, k, x)
  BY <1>2, <1>4 DEF FilterHas
<1>6. SUFFICES IsChunk(b, t, k) /\ Filters(mask, C, s, t, o, b, k + 1, x)
  BY <1>4 DEF SinkNeeds
<1>7. CASE /\ q.pc = "rows" /\ Copies(z.nd, n, Blk(p, z.nd, n, 1))
           /\ RowAt(Blk(p, z.nd, n, 2), q.row) \in mask /\ q.outidx + 1 = BlockSize
           /\ b = Filled(z.nd[n], Blk(p, z.nd, n, 1)) /\ o = RowEmitted(q)
  <2>1. PICK b1 : b1 = Blk(p, z.nd, n, 1)
    OBVIOUS
  <2>2. AtRow(s, q, x, b1) /\ b1[q.row] \in mask
    BY <1>4, <1>7, <2>1, FilterHasRow
  <2>3. o.pc = "rows" /\ o.row = q.row + 1 /\ o.outidx = 0
    BY <1>3, <1>7 DEF RowEmitted, LocalType
  <2>4. b = SetRow(b0, q.outidx + 1, b1[q.row])
    BY <1>4, <1>7, <2>1 DEF Filled
  <2>5. QED
    BY <1>3, <1>5, <1>7, <2>2, <2>3, <2>4, FilterKeeps
<1>8. CASE /\ q.pc = "tail" /\ q.outidx > 0
           /\ b = Resize(z.nd[n].buffer, q.outidx) /\ o = [q EXCEPT !.pc = "end"]
  <2>1. o.pc = "end"
    BY <1>3, <1>8 DEF LocalType
  <2>2. b = Resize(b0, q.outidx)
    BY <1>4, <1>8
  <2>3. IsChunk(Resize(b0, q.outidx), t, k) /\ Filters(mask, C, s, t, o, Resize(b0, q.outidx), k + 1, x)
    <3>1. q.pc = "tail" /\ q.outidx > 0
      BY <1>8
    <3>2. QED
      BY <1>3, <1>5, <2>1, <3>1, FilterEnds
  <2>4. QED
    BY <2>2, <2>3
<1>9. QED
  BY <1>7, <1>8

\* An append that copies has asked.
LEMMA JoinsAsked ==
  ASSUME NEW s1, NEW s2, NEW t, NEW o, NEW b, NEW k, NEW x, Joins(s1, s2, t, o, b, k, x), o.pc = "copy"
  PROVE  \E j \in Nat : x = j + 1
BY DEF Joins, AppendIsAt

LEMMA AppendLooksNow ==
  ASSUME NEW p, NEW mask, NEW W, NEW D, NEW d, NEW z, Ctl(p, d, z), Means(p, mask, W, D),
         NodesData(p, mask, W, D, d, z), NEW n \in DOMAIN p, Up(z, n) = 1, Clean(p, z, n),
         p[n].op = "append", z.nd[n].local.pc = "copy"
  PROVE  \E j \in Nat : AppendSees(p, W, z, n, j)
<1>1. AppendHas(p, W, z, n)
  BY AppendKnows DEF NodesData
<1>2. PICK j \in Nat : A(z, <<n, z.nd[n].local.arg>>) = j + 1
  BY <1>1, JoinsAsked DEF AppendHas
<1>3. IsPlan(p)
  BY AllKnown
<1>4. z.nd[n].local.arg \in 1 .. Arity(p, n)
  BY <1>3, GoodLocal, TwoInputs
<1>5. Clean(p, z, p[n].in[z.nd[n].local.arg]) /\ p[n].in[z.nd[n].local.arg] \in DOMAIN p
  BY <1>3, <1>4, CleanInput, PlanArity
<1>6. NodeData(p, mask, W, D, d, z, p[n].in[z.nd[n].local.arg])
  BY <1>5 DEF NodesData
<1>7. QED
  BY <1>2, <1>6, AppendLooks

LEMMA AppendTail ==
  ASSUME NEW s1, NEW s2, NEW t, JoinRows(s1, s2, t), NEW q, NEW o, NEW b, NEW k \in Nat,
         NEW x \in Nat, Joins(s1, s2, t, q, b, k, x), q.outidx \in 0 .. (BlockSize - 1),
         q.pc = "tail", q.outidx > 0, o.pc = "end"
  PROVE  IsChunk(Resize(b, q.outidx), t, k) /\ Joins(s1, s2, t, o, Resize(b, q.outidx), k + 1, x)
BY AppendEnds

LEMMA AppendSinks ==
  ASSUME NEW p, NEW mask, NEW W, NEW D, NEW d, NEW z, NEW z2, NEW n \in DOMAIN p, NEW b, NEW o, NEW q,
         Ctl(p, d, z), Means(p, mask, W, D), NodesData(p, mask, W, D, d, z), Ac(z, n) = 1, Clean(p, z, n),
         p[n].op = "append", q = z.nd[n].local,
         \/ /\ q.pc = "copy" /\ Copies(z.nd, n, Blk(p, z.nd, n, q.arg))
            /\ q.got[q.arg] /\ q.outidx + 1 = BlockSize
            /\ b = Filled(z.nd[n], Blk(p, z.nd, n, q.arg)) /\ o = RowEmitted(q)
         \/ /\ q.pc = "tail" /\ q.outidx > 0
            /\ b = Resize(z.nd[n].buffer, q.outidx) /\ o = [q EXCEPT !.pc = "end"]
  PROVE  SinkNeeds(p, mask, W, D, z, z2, n, b, o)
<1>1. Up(z, n) = 1
  BY AllKnown DEF Known, NodeViewOK
<1>2. AppendHas(p, W, z, n)
  BY <1>1, AppendKnows DEF NodesData
<1>3. q \in LocalType /\ q.outidx \in 0 .. (BlockSize - 1) /\ q.arg \in 1 .. 2
  BY GoodLocal DEF LocalOK
<1>4. PICK s1, s2, t, k, x, b0 : s1 = W[p[n].in[1]] /\ s2 = W[p[n].in[2]] /\ t = W[n] /\ k = K(z, n)
                               /\ x = A(z, <<n, q.arg>>) /\ b0 = z.nd[n].buffer
  OBVIOUS
<1>5. JoinRows(s1, s2, t) /\ x \in Nat /\ k \in Nat /\ Joins(s1, s2, t, q, b0, k, x)
  BY <1>2, <1>3, <1>4 DEF AppendHas
<1>6. o.arg = q.arg
  BY <1>3 DEF RowEmitted, LocalType
<1>7. SUFFICES IsChunk(b, t, k) /\ Joins(s1, s2, t, o, b, k + 1, x)
  BY <1>4, <1>6 DEF SinkNeeds
<1>8. CASE /\ q.pc = "copy" /\ Copies(z.nd, n, Blk(p, z.nd, n, q.arg))
           /\ q.got[q.arg] /\ q.outidx + 1 = BlockSize
           /\ b = Filled(z.nd[n], Blk(p, z.nd, n, q.arg)) /\ o = RowEmitted(q)
  <2>1. PICK b1 : b1 = Blk(p, z.nd, n, q.arg)
    OBVIOUS
  <2>2. PICK j \in Nat : AppendSees(p, W, z, n, j)
    BY <1>1, <1>8, AppendLooksNow
  <2>3. x = j + 1 /\ IsChunk(b1, Part(s1, s2, q), j)
    BY <1>4, <1>8, <2>1, <2>2 DEF AppendSees
  <2>4. q.row \in 1 .. Len(b1)
    BY <1>8, <2>1 DEF Copies
  <2>5. o.pc = "copy" /\ o.row = q.row + 1 /\ o.outidx = 0 /\ o.got = q.got
    BY <1>3, <1>8 DEF RowEmitted, LocalType
  <2>6. b = SetRow(b0, q.outidx + 1, b1[q.row])
    BY <1>4, <1>8, <2>1 DEF Filled
  <2>7. q.pc = "copy" /\ q.got[q.arg] /\ q.outidx + 1 = BlockSize
    BY <1>8
  <2>8. \E i \in Nat : x = i + 1 /\ IsChunk(b1, Part(s1, s2, q), i)
    BY <2>3
  <2>9. QED
    BY <1>3, <1>5, <1>6, <2>4, <2>5, <2>6, <2>7, <2>8, AppendKeeps, ZenonT(20)
<1>9. CASE /\ q.pc = "tail" /\ q.outidx > 0
           /\ b = Resize(z.nd[n].buffer, q.outidx) /\ o = [q EXCEPT !.pc = "end"]
  <2>1. o.pc = "end"
    BY <1>3, <1>9 DEF LocalType
  <2>2. b = Resize(b0, q.outidx)
    BY <1>4, <1>9
  <2>3. q.pc = "tail" /\ q.outidx > 0 /\ q.outidx \in 0 .. (BlockSize - 1)
    BY <1>3, <1>9
  <2>4. IsChunk(Resize(b0, q.outidx), t, k) /\ Joins(s1, s2, t, o, Resize(b0, q.outidx), k + 1, x)
    BY <1>5, <2>1, <2>3, AppendTail, Zenon
  <2>5. QED
    BY <2>2, <2>4
<1>10. QED
  BY <1>8, <1>9

\* A nullptr stands for a skipped block.
LEMMA SinkNull ==
  ASSUME NEW p, NEW d, NEW z, NEW z2, NEW n, NEW e \in BOOLEAN, NEW b, NEW o, Ctl(p, d, z), ~ e,
         SinkStep(z.nd, z.st, z2.nd, z2.st, n, e, b, o), p[n].op = "linear"
  PROVE  Fk(p, z2, n) = 1
<1>1. Good0(p, z.nd, z.st) /\ Inside(z.st, n)
  BY DEF Ctl, Good, SinkStep
<1>2. n \in DOMAIN p /\ z.nd[n] \in NodeType(p, n) /\ z.nd[n].started
  BY <1>1, InsideTyped
<1>3. PICK h : h = Append(z.nd[n].queue, e)
  OBVIOUS
<1>4. PICK x : x = [z.nd[n] EXCEPT !.queue = h, !.buffer = b, !.local = o]
  OBVIOUS
<1>5. x.queue = h /\ x.started /\ z.nd[n].queue \in Seq(BOOLEAN)
  BY <1>2, <1>4 DEF NodeType
<1>6. z.nd = [y \in DOMAIN p |-> z.nd[y]]
  BY <1>1 DEF Good0, Shape
<1>7. z2.nd[n] = x
  BY <1>2, <1>3, <1>4, <1>6 DEF SinkStep
<1>8. Len(h) = Len(z.nd[n].queue) + 1 /\ h[Len(h)] = e /\ Len(h) > 0
  BY <1>3, <1>5
<1>9. K(z2, n) = Len(h)
  BY <1>5, <1>7 DEF K
<1>10. El(z2, n) = 0
  BY <1>5, <1>7, <1>8, <1>9 DEF El
<1>11. QED
  BY <1>10 DEF Fk

LEMMA SinksData ==
  ASSUME NEW p, NEW mask, NEW W, NEW D, NEW d, NEW z, NEW z2, Paced(p, d, z), Means(p, mask, W, D),
         Data(p, mask, W, D, d, z), ExecTyped(z), TurnSinks(p, mask, z, z2)
  PROVE  Data(p, mask, W, D, d, z2)
<1>1. PICK n \in DOMAIN p, e \in BOOLEAN, b \in Seq(0 .. NumRows) : \E o :
        SinkCase(p, mask, z.nd, n, e, b, o) /\ SinkStep(z.nd, z.st, z2.nd, z2.st, n, e, b, o)
  BY DEF TurnSinks
<1>2. PICK o : SinkCase(p, mask, z.nd, n, e, b, o) /\ SinkStep(z.nd, z.st, z2.nd, z2.st, n, e, b, o)
  BY <1>1
<1>3. Aside(z, z2) /\ SameRest(z, z2) /\ Unnoticed(z, z2) /\ Steady(p, d, z) /\ Ctl(p, d, z)
  BY AsideRest DEF TurnSinks, Paced, Aside, Steady
<1>4. CSink(p, z, z2, n)
  BY <1>2, <1>3, SinkCaseLink DEF Steady
<1>5. OwnStep(p, z, z2, n) /\ Ac(z, n) = 1 /\ En(z2, n) = En(z, n)
  BY <1>4 DEF CSink
<1>6. EndsStay(p, z, z2)
  BY <1>5, OwnEndsStay
<1>7. Becomes(p, z, z2, n, b, o, z.nd[n].exception)
  BY <1>2, <1>3, NodeAfterSink
<1>8. /\ z.ex.pc = "call" /\ \A x \in DOMAIN p : x # n => z2.nd[x] = z.nd[x]
      /\ z2.nd[n].exception = z.nd[n].exception
  BY <1>7 DEF Becomes, ExecTyped
<1>9. ExceptionsStay(p, z, z2)
  BY <1>8 DEF ExceptionsStay
<1>10. ExceptionOK(p, z2, n)
  BY <1>3, <1>6, <1>8, <1>9, ExceptionStays DEF Data, ExceptionsOK, SameRest
<1>11. ASSUME Clean(p, z2, n) PROVE NodeData(p, mask, W, D, d, z2, n)
  <2>1. Clean(p, z, n)
    BY <1>9, <1>11, CleanBack
  <2>2. NodesData(p, mask, W, D, d, z) /\ NodeData(p, mask, W, D, d, z, n)
    BY <2>1 DEF Data, NodesData
  <2>3. SinkNeeds(p, mask, W, D, z, z2, n, b, o)
    <3>1. PICK q : q = z.nd[n].local
      OBVIOUS
    <3>2. CASE /\ p[n].op = "source" /\ q.start # NumRows /\ e
               /\ b = SourceBlock(z.nd[n]) /\ o = [q EXCEPT !.start = SourceEnd(q)]
      BY <1>3, <1>4, <2>2, <3>1, <3>2, SourceSinks
    <3>3. CASE /\ p[n].op = "linear" /\ q.pc = "apply" /\ e
               /\ AllGot(p, z.nd, n) /\ SameLengths(p, z.nd, n) /\ b = Applied(p, z.nd, n) /\ o = q
      BY <1>3, <1>5, <2>1, <2>2, <3>1, <3>3, LinearSinks
    <3>4. CASE p[n].op = "linear" /\ q.pc = "fake" /\ ~ e /\ b = z.nd[n].buffer /\ o = q
      <4>1. Fk(p, z2, n) = 1
        BY <1>2, <1>3, <3>4, SinkNull
      <4>2. QED
        BY <3>4, <4>1 DEF SinkNeeds
    <3>5. CASE \/ /\ p[n].op = "filter" /\ q.pc = "rows" /\ e /\ Copies(z.nd, n, Blk(p, z.nd, n, 1))
                  /\ RowAt(Blk(p, z.nd, n, 2), q.row) \in mask /\ q.outidx + 1 = BlockSize
                  /\ b = Filled(z.nd[n], Blk(p, z.nd, n, 1)) /\ o = RowEmitted(q)
               \/ /\ p[n].op = "filter" /\ q.pc = "tail" /\ e /\ q.outidx > 0
                  /\ b = Resize(z.nd[n].buffer, q.outidx) /\ o = [q EXCEPT !.pc = "end"]
      BY <1>3, <1>5, <2>1, <2>2, <3>1, <3>5, FilterSinks
    <3>6. CASE \/ /\ p[n].op = "append" /\ q.pc = "copy" /\ e /\ Copies(z.nd, n, Blk(p, z.nd, n, q.arg))
                  /\ q.got[q.arg] /\ q.outidx + 1 = BlockSize
                  /\ b = Filled(z.nd[n], Blk(p, z.nd, n, q.arg)) /\ o = RowEmitted(q)
               \/ /\ p[n].op = "append" /\ q.pc = "tail" /\ e /\ q.outidx > 0
                  /\ b = Resize(z.nd[n].buffer, q.outidx) /\ o = [q EXCEPT !.pc = "end"]
      BY <1>3, <1>5, <2>1, <2>2, <3>1, <3>6, AppendSinks
    <3>7. QED
      BY <1>2, <3>1, <3>2, <3>3, <3>4, <3>5, <3>6 DEF SinkCase
  <2>4. QED
    BY <1>3, <1>4, <1>7, <2>3, SinkNode
<1>12. QED
  BY <1>3, <1>5, <1>6, <1>8, <1>10, <1>11, OwnData

-----------------------------------------------------------------------------
(* The operator of n goes on.                                              *)

MoveNeeds(p, mask, W, D, z, n, b, o) ==
  /\ p[n].op = "filter" =>
       Filters(mask, D[n], W[p[n].in[1]], W[n], o, b, K(z, n), A(z, <<n, 1>>))
  /\ p[n].op = "append" =>
       Joins(W[p[n].in[1]], W[p[n].in[2]], W[n], o, b, K(z, n), A(z, <<n, o.arg>>))

LEMMA MoveNode ==
  ASSUME NEW p, NEW mask, NEW W, NEW D, NEW d, NEW z, NEW z2, NEW n \in DOMAIN p, NEW b, NEW o, NEW why,
         Ctl(p, d, z), CLocal(p, z, z2, n), SameRest(z, z2), Becomes(p, z, z2, n, b, o, why),
         MoveNeeds(p, mask, W, D, z, n, b, o)
  PROVE  NodeData(p, mask, W, D, d, z2, n)
<1>1. K(z2, n) = K(z, n) /\ En(z2, n) = En(z, n) /\ Ac(z, n) = 1 /\ Ac(z2, n) = 1 /\ p[n].op # "source"
  BY DEF CLocal
<1>2. En(z, n) = 0
  BY <1>1, AllKnown DEF Known, NodeViewOK
<1>3. z2.nd[n].buffer = b /\ z2.nd[n].local = o
  BY DEF Becomes
<1>4. \A c : A(z2, c) = A(z, c)
  BY DEF SameRest, A
<1>5. HasBlock(p, W, d, z2, n) /\ HasEnded(W, z2, n) /\ SourceData(p, W, z2, n)
  BY <1>1, <1>2 DEF HasBlock, HasEnded, SourceData
<1>6. FilterData(p, mask, W, D, z2, n)
  BY <1>1, <1>3, <1>4 DEF FilterData, MoveNeeds
<1>7. AppendData(p, W, z2, n)
  BY <1>1, <1>3, <1>4 DEF AppendData, MoveNeeds
<1>8. QED
  BY <1>5, <1>6, <1>7 DEF NodeData

\* The mask of the block after those that a filter has looked at.
LEMMA FilterTests ==
  ASSUME NEW p, NEW mask, NEW W, NEW D, NEW d, NEW z, Ctl(p, d, z), Means(p, mask, W, D),
         NodesData(p, mask, W, D, d, z), NEW n \in DOMAIN p, Up(z, n) = 1, Clean(p, z, n),
         p[n].op = "filter", z.nd[n].local.pc = "test", z.nd[n].local.got[2]
  PROVE  IsChunk(Blk(p, z.nd, n, 2), W[p[n].in[1]], A(z, <<n, 1>>))
<1>1. IsPlan(p) /\ Known(p, d, z, n)
  BY AllKnown
<1>2. Arity(p, n) = 2
  BY <1>1, TwoInputs
<1>3. PICK c, j : c = <<n, 2>> /\ j = p[n].in[2]
  OBVIOUS
<1>4. c \in Edges(p) /\ c # Executor /\ Src(p, c) = j /\ c[1] = n /\ c[2] = 2
  BY <1>1, <1>2, <1>3, IsEdge
<1>5. Clean(p, z, j) /\ j \in DOMAIN p
  BY <1>1, <1>2, <1>3, CleanInput, PlanArity
<1>6. Sees(p, z, c) /\ Pc(z, c[1]) # "skip_left"
  BY <1>4 DEF Sees, Pc
<1>7. SeenBlock(p, W, z, c, j)
  BY <1>4, <1>5, <1>6, SeenData DEF NodesData
<1>8. A(z, c) = A(z, <<n, 1>>) + 1
  BY <1>1, <1>3 DEF Known, NodeCtl, Filter, FilterAt, Pc
<1>9. A(z, <<n, 1>>) \in Nat
  <2>1. <<n, 1>> \in Edges(p)
    BY <1>1, <1>2, IsEdge
  <2>2. QED
    BY <2>1, AllKnown DEF KnownEdge, EdgeViewOK
<1>10. Got(z, c[1], c[2]) = 1
  BY <1>4 DEF Got
<1>11. IsChunk(z.nd[j].buffer, W[j], A(z, <<n, 1>>))
  BY <1>7, <1>8, <1>9, <1>10 DEF SeenBlock
<1>12. W[j] = W[p[n].in[1]]
  BY <1>3, MeansRows
<1>13. QED
  BY <1>3, <1>11, <1>12 DEF Blk

LEMMA FilterGoesTo ==
  ASSUME NEW p, NEW mask, NEW W, NEW D, NEW d, NEW z, NEW n \in DOMAIN p, NEW o,
         Ctl(p, d, z), Means(p, mask, W, D), NodesData(p, mask, W, D, d, z), Ac(z, n) = 1, Clean(p, z, n),
         p[n].op = "filter", z.nd[n].local.outidx = o.outidx,
         FilterMoves(mask, W[p[n].in[1]], z.nd[n].local, o, A(z, <<n, 1>>), A(z, <<n, 1>>))
  PROVE  MoveNeeds(p, mask, W, D, z, n, z.nd[n].buffer, o)
<1>1. Up(z, n) = 1
  BY AllKnown DEF Known, NodeViewOK
<1>2. FilterHas(p, mask, W, D, z, n)
  BY <1>1, FilterKnows DEF NodesData
<1>3. PICK q : q = z.nd[n].local
  OBVIOUS
<1>4. q.row \in Nat
  BY <1>3, GoodLocal
<1>5. PICK s, t, C, k, x, b : s = W[p[n].in[1]] /\ t = W[n] /\ C = D[n] /\ k = K(z, n) /\ x = A(z, <<n, 1>>)
                              /\ b = z.nd[n].buffer
  OBVIOUS
<1>6. FilterRows(mask, C, s, t) /\ x \in Nat /\ k \in Nat /\ Filters(mask, C, s, t, q, b, k, x)
  BY <1>2, <1>3, <1>5 DEF FilterHas
<1>7. FilterMoves(mask, s, q, o, x, x) /\ o.outidx = q.outidx
  BY <1>3, <1>5
<1>8. Filters(mask, C, s, t, o, b, k, x)
  BY <1>4, <1>6, <1>7, FilterGoes
<1>9. QED
  BY <1>5, <1>8 DEF MoveNeeds

LEMMA FilterCaseData ==
  ASSUME NEW p, NEW mask, NEW W, NEW D, NEW d, NEW z, NEW n \in DOMAIN p, NEW b, NEW o,
         Ctl(p, d, z), Means(p, mask, W, D), NodesData(p, mask, W, D, d, z), Ac(z, n) = 1, Clean(p, z, n),
         p[n].op = "filter", FilterCase(p, mask, z.nd, n, b, o)
  PROVE  MoveNeeds(p, mask, W, D, z, n, b, o)
<1>1. Up(z, n) = 1 /\ IsPlan(p)
  BY AllKnown DEF Known, NodeViewOK
<1>2. FilterHas(p, mask, W, D, z, n)
  BY <1>1, FilterKnows DEF NodesData
<1>3. PICK q : q = z.nd[n].local
  OBVIOUS
<1>4. q \in LocalType /\ q.outidx \in 0 .. (BlockSize - 1)
  BY <1>3, GoodLocal DEF LocalOK
<1>5. PICK s, t, C, k, x, b0 : s = W[p[n].in[1]] /\ t = W[n] /\ C = D[n] /\ k = K(z, n) /\ x = A(z, <<n, 1>>)
                               /\ b0 = z.nd[n].buffer
  OBVIOUS
<1>6. FilterRows(mask, C, s, t) /\ x \in Nat /\ k \in Nat /\ Filters(mask, C, s, t, q, b0, k, x)
  BY <1>2, <1>3, <1>5 DEF FilterHas
<1>7. ASSUME FilterMoves(mask, s, q, o, x, x), o.outidx = q.outidx, b = b0
      PROVE  MoveNeeds(p, mask, W, D, z, n, b, o)
  BY <1>3, <1>5, <1>7, FilterGoesTo
<1>8. ASSUME Filters(mask, C, s, t, o, b, k, x)
      PROVE  MoveNeeds(p, mask, W, D, z, n, b, o)
  BY <1>5, <1>8 DEF MoveNeeds
<1>9. PICK b1, b2 : b1 = Blk(p, z.nd, n, 1) /\ b2 = Blk(p, z.nd, n, 2)
  OBVIOUS
<1>10. Arity(p, n) = 2
  BY <1>1, TwoInputs
<1>11. ASSUME q.pc \in {"first", "check", "rows"}
       PROVE  \E j \in Nat : /\ x = j + 1
                             /\ q.got[1] => IsChunk(b1, s, j)
                             /\ ~ q.got[1] => Len(s) <= Pos(j)
  <2>1. PICK j \in Nat : FilterSees(p, W, z, n, j)
    BY <1>3, <1>11, FilterLooks
  <2>2. QED
    BY <1>3, <1>5, <1>9, <2>1 DEF FilterSees
<1>12. CASE q.pc = "check" /\ NoneGot(p, z.nd, n) /\ b = z.nd[n].buffer /\ o = [q EXCEPT !.pc = "tail"]
  <2>1. o.pc = "tail" /\ o.outidx = q.outidx
    BY <1>4, <1>12 DEF LocalType
  <2>2. ~ q.got[1]
    BY <1>3, <1>10, <1>12 DEF NoneGot
  <2>3. FilterMoves(mask, s, q, o, x, x)
    BY <1>11, <1>12, <2>1, <2>2 DEF FilterMoves
  <2>4. QED
    BY <1>5, <1>7, <1>12, <2>1, <2>3
<1>13. CASE /\ q.pc \in {"first", "check"} /\ AllGot(p, z.nd, n) /\ SameLengths(p, z.nd, n)
            /\ b = z.nd[n].buffer /\ o = [q EXCEPT !.pc = "rows", !.row = 1]
  <2>1. o.pc = "rows" /\ o.row = 1 /\ o.outidx = q.outidx
    BY <1>4, <1>13 DEF LocalType
  <2>2. q.got[1]
    BY <1>3, <1>10, <1>13 DEF AllGot
  <2>3. PICK j \in Nat : x = j + 1 /\ Pos(j) < Len(s)
    BY <1>11, <1>13, <2>2 DEF IsChunk
  <2>4. CASE q.pc = "check"
    <3>1. FilterMoves(mask, s, q, o, x, x)
      BY <2>1, <2>3, <2>4 DEF FilterMoves
    <3>2. QED
      BY <1>5, <1>7, <1>13, <2>1, <3>1
  <2>5. CASE q.pc = "first"
    <3>1. x = 1
      BY <1>6, <2>5, FilterFirst
    <3>2. j = 0
      BY <2>3, <3>1
    <3>3. FilterMoves(mask, s, q, o, x, x)
      BY <2>1, <2>3, <2>5, <3>2 DEF FilterMoves
    <3>4. QED
      BY <1>5, <1>7, <1>13, <2>1, <3>3
  <2>6. QED
    BY <1>13, <2>4, <2>5
<1>14. ASSUME q.pc = "rows" PROVE q.got[1]
  <2>1. Filter(p, z, n) /\ Up(z, n) = 1
    BY <1>1, AllKnown DEF Known, NodeCtl, NodeViewOK
  <2>2. Got(z, n, 1) = 1
    BY <1>3, <1>14, <2>1 DEF Filter, Pc
  <2>3. QED
    BY <1>3, <2>2 DEF Got
<1>15. CASE /\ q.pc = "rows" /\ q.row > Len(Blk(p, z.nd, n, 1))
            /\ b = z.nd[n].buffer /\ o = [q EXCEPT !.pc = "right", !.arg = 2]
  <2>1. o.pc = "right" /\ o.outidx = q.outidx
    BY <1>4, <1>15 DEF LocalType
  <2>2. PICK j \in Nat : x = j + 1 /\ IsChunk(b1, s, j)
    BY <1>11, <1>14, <1>15
  <2>3. FilterMoves(mask, s, q, o, x, x)
    BY <1>9, <1>15, <2>1, <2>2 DEF FilterMoves
  <2>4. QED
    BY <1>5, <1>7, <1>15, <2>1, <2>3
<1>16. ASSUME q.pc = "rows", Copies(z.nd, n, Blk(p, z.nd, n, 1))
       PROVE  AtRow(s, q, x, b1) /\ RowAt(b2, q.row) = b1[q.row]
  BY <1>3, <1>5, <1>9, <1>16, FilterHasRow
<1>17. CASE /\ q.pc = "rows" /\ Copies(z.nd, n, Blk(p, z.nd, n, 1))
            /\ RowAt(Blk(p, z.nd, n, 2), q.row) \notin mask /\ b = z.nd[n].buffer /\ o = RowPassed(q)
  <2>1. o.pc = "rows" /\ o.row = q.row + 1 /\ o.outidx = q.outidx
    BY <1>4, <1>17 DEF LocalType, RowPassed
  <2>2. AtRow(s, q, x, b1) /\ b1[q.row] \notin mask /\ b = b0
    BY <1>5, <1>9, <1>16, <1>17
  <2>3. Filters(mask, C, s, t, o, b0, k, x)
    BY <1>6, <2>1, <2>2, FilterPasses
  <2>4. QED
    BY <1>8, <2>2, <2>3
<1>18. CASE /\ q.pc = "rows" /\ Copies(z.nd, n, Blk(p, z.nd, n, 1))
            /\ RowAt(Blk(p, z.nd, n, 2), q.row) \in mask /\ q.outidx + 1 # BlockSize
            /\ b = Filled(z.nd[n], Blk(p, z.nd, n, 1)) /\ o = RowKept(q)
  <2>1. o.pc = "rows" /\ o.row = q.row + 1 /\ o.outidx = q.outidx + 1
    BY <1>4, <1>18 DEF LocalType, RowKept
  <2>2. AtRow(s, q, x, b1) /\ b1[q.row] \in mask
    BY <1>9, <1>16, <1>18
  <2>3. b = SetRow(b0, q.outidx + 1, b1[q.row])
    BY <1>3, <1>5, <1>9, <1>18 DEF Filled
  <2>4. Filters(mask, C, s, t, o, b, k, x)
    BY <1>4, <1>6, <2>1, <2>2, <2>3, FilterKeeps
  <2>5. QED
    BY <1>8, <2>4
<1>19. CASE q.pc = "test" /\ b = z.nd[n].buffer /\ o = [q EXCEPT !.pc = "left"]
  <2>1. o.pc = "left" /\ o.outidx = q.outidx
    BY <1>4, <1>19 DEF LocalType
  <2>2. FilterMoves(mask, s, q, o, x, x)
    BY <1>19, <2>1 DEF FilterMoves
  <2>3. QED
    BY <1>5, <1>7, <1>19, <2>1, <2>2
<1>20. CASE /\ q.pc = "test" /\ q.got[2] /\ b = z.nd[n].buffer /\ o = [q EXCEPT !.pc = "skip_left"]
            /\ \A j \in DOMAIN Blk(p, z.nd, n, 2) : Blk(p, z.nd, n, 2)[j] \notin mask
  <2>1. o.pc = "skip_left" /\ o.outidx = q.outidx
    BY <1>4, <1>20 DEF LocalType
  <2>2. IsChunk(b2, s, x)
    BY <1>1, <1>3, <1>5, <1>9, <1>20, FilterTests
  <2>3. DOMAIN b2 = 1 .. Len(b2)
    <3>1. p[n].in[2] \in DOMAIN p
      BY <1>1, TwoInputs
    <3>2. b2 \in Seq(0 .. NumRows)
      BY <1>9, <3>1, GoodLocal DEF Blk
    <3>3. QED
      BY <3>2
  <2>4. \A j \in 1 .. Len(b2) : b2[j] \notin mask
    BY <1>9, <1>20, <2>3
  <2>5. FilterMoves(mask, s, q, o, x, x)
    BY <1>20, <2>1, <2>2, <2>4 DEF FilterMoves
  <2>6. QED
    BY <1>5, <1>7, <1>20, <2>1, <2>5
<1>21. QED
  BY <1>3, <1>12, <1>13, <1>15, <1>17, <1>18, <1>19, <1>20 DEF FilterCase

LEMMA AppendCaseData ==
  ASSUME NEW p, NEW mask, NEW W, NEW D, NEW d, NEW z, NEW n \in DOMAIN p, NEW b, NEW o,
         Ctl(p, d, z), Means(p, mask, W, D), NodesData(p, mask, W, D, d, z), Ac(z, n) = 1, Clean(p, z, n),
         p[n].op = "append", AppendCase(p, z.nd, n, b, o)
  PROVE  MoveNeeds(p, mask, W, D, z, n, b, o)
<1>1. Up(z, n) = 1 /\ IsPlan(p) /\ Appends(p, z, n)
  BY AllKnown DEF Known, NodeViewOK, NodeCtl
<1>2. AppendHas(p, W, z, n)
  BY <1>1, AppendKnows DEF NodesData
<1>3. PICK q : q = z.nd[n].local
  OBVIOUS
<1>4. q \in LocalType /\ q.outidx \in 0 .. (BlockSize - 1) /\ q.arg \in 1 .. 2 /\ q.row \in Nat
  BY <1>3, GoodLocal DEF LocalOK
<1>5. PICK s1, s2, t, k, x, b0 : s1 = W[p[n].in[1]] /\ s2 = W[p[n].in[2]] /\ t = W[n] /\ k = K(z, n)
                               /\ x = A(z, <<n, q.arg>>) /\ b0 = z.nd[n].buffer
  OBVIOUS
<1>6. JoinRows(s1, s2, t) /\ x \in Nat /\ k \in Nat /\ Joins(s1, s2, t, q, b0, k, x)
  BY <1>2, <1>3, <1>4, <1>5 DEF AppendHas
<1>7. q.pc = "copy"
  BY <1>3 DEF AppendCase
<1>8. PICK j \in Nat : AppendSees(p, W, z, n, j)
  BY <1>1, <1>3, <1>7, AppendLooksNow
<1>9. PICK b1 : b1 = Blk(p, z.nd, n, q.arg)
  OBVIOUS
<1>10. x = j + 1 /\ (q.got[q.arg] => IsChunk(b1, Part(s1, s2, q), j))
  BY <1>3, <1>5, <1>8, <1>9 DEF AppendSees
<1>11. ASSUME NEW x2 \in Nat, x2 = A(z, <<n, o.arg>>), AppendMoves(s1, s2, q, o, x, x2),
              o.outidx = q.outidx, b = b0
       PROVE  MoveNeeds(p, mask, W, D, z, n, b, o)
  <2>1. Joins(s1, s2, t, o, b0, k, x2)
    BY <1>4, <1>6, <1>11, AppendGoes
  <2>2. QED
    BY <1>5, <1>11, <2>1 DEF MoveNeeds
<1>12. CASE ~ q.got[q.arg] /\ q.arg = 2 /\ b = z.nd[n].buffer /\ o = [q EXCEPT !.pc = "tail"]
  <2>1. o.pc = "tail" /\ o.arg = q.arg /\ o.outidx = q.outidx
    BY <1>4, <1>12 DEF LocalType
  <2>2. AppendMoves(s1, s2, q, o, x, x)
    BY <1>7, <1>12, <2>1 DEF AppendMoves
  <2>3. x = A(z, <<n, o.arg>>) /\ b = b0
    BY <1>5, <1>12, <2>1
  <2>4. QED
    BY <1>6, <1>11, <2>1, <2>2, <2>3
<1>13. CASE ~ q.got[q.arg] /\ q.arg = 1 /\ b = z.nd[n].buffer /\ o = [q EXCEPT !.pc = "get", !.arg = 2]
  <2>1. o.pc = "get" /\ o.arg = 2 /\ o.outidx = q.outidx
    BY <1>4, <1>13 DEF LocalType
  <2>2. A(z, <<n, 2>>) = 0
    BY <1>1, <1>3, <1>13 DEF Appends, Arg
  <2>3. AppendMoves(s1, s2, q, o, x, 0)
    BY <1>7, <1>13, <2>1 DEF AppendMoves
  <2>4. 0 = A(z, <<n, o.arg>>) /\ b = b0
    BY <1>5, <1>13, <2>1, <2>2
  <2>5. QED
    BY <1>11, <2>1, <2>3, <2>4
<1>14. CASE /\ q.got[q.arg] /\ q.row > Len(Blk(p, z.nd, n, q.arg)) /\ b = z.nd[n].buffer
            /\ o = [q EXCEPT !.pc = "get"]
  <2>1. o.pc = "get" /\ o.arg = q.arg /\ o.outidx = q.outidx
    BY <1>4, <1>14 DEF LocalType
  <2>2. q.row > Len(b1) /\ IsChunk(b1, Part(s1, s2, q), j)
    BY <1>9, <1>10, <1>14
  <2>3. AppendMoves(s1, s2, q, o, x, x)
    BY <1>7, <1>10, <1>14, <2>1, <2>2 DEF AppendMoves
  <2>4. x = A(z, <<n, o.arg>>) /\ b = b0
    BY <1>5, <1>14, <2>1
  <2>5. QED
    BY <1>6, <1>11, <2>1, <2>3, <2>4
<1>15. CASE /\ q.got[q.arg] /\ Copies(z.nd, n, Blk(p, z.nd, n, q.arg)) /\ q.outidx + 1 # BlockSize
            /\ b = Filled(z.nd[n], Blk(p, z.nd, n, q.arg)) /\ o = RowKept(q)
  <2>1. q.outidx + 1 \in 0 .. (BlockSize - 1)
    BY <1>4, <1>15, ConstantTypes
  <2>2. o.pc = "copy" /\ o.row = q.row + 1 /\ o.arg = q.arg /\ o.got = q.got /\ o.outidx = q.outidx + 1
    BY <1>4, <1>7, <1>15 DEF RowKept, LocalType
  <2>3. q.row \in 1 .. Len(b1)
    BY <1>3, <1>9, <1>15 DEF Copies
  <2>4. b = SetRow(b0, q.outidx + 1, b1[q.row])
    BY <1>3, <1>5, <1>9, <1>15 DEF Filled
  <2>5. q.got[q.arg] /\ \E i \in Nat : x = i + 1 /\ IsChunk(b1, Part(s1, s2, q), i)
    BY <1>10, <1>15
  <2>6. Joins(s1, s2, t, o, b, k, x)
    BY <1>4, <1>6, <1>7, <2>2, <2>3, <2>4, <2>5, AppendKeeps
  <2>7. x = A(z, <<n, o.arg>>)
    BY <1>5, <2>2
  <2>8. QED
    BY <1>5, <2>6, <2>7 DEF MoveNeeds
<1>16. QED
  BY <1>3, <1>4, <1>12, <1>13, <1>14, <1>15 DEF AppendCase

LEMMA MovesData ==
  ASSUME NEW p, NEW mask, NEW W, NEW D, NEW d, NEW z, NEW z2, Paced(p, d, z), Means(p, mask, W, D),
         Data(p, mask, W, D, d, z), ExecTyped(z), TurnMoves(p, mask, z, z2)
  PROVE  Data(p, mask, W, D, d, z2)
<1>1. PICK n \in DOMAIN p, b \in Seq(0 .. NumRows) : \E o :
        LocalCase(p, mask, z.nd, n, b, o) /\ LocalStep(z.nd, z.st, z2.nd, z2.st, n, b, o)
  BY DEF TurnMoves
<1>2. PICK o : LocalCase(p, mask, z.nd, n, b, o) /\ LocalStep(z.nd, z.st, z2.nd, z2.st, n, b, o)
  BY <1>1
<1>3. Aside(z, z2) /\ SameRest(z, z2) /\ Unnoticed(z, z2) /\ Steady(p, d, z) /\ Ctl(p, d, z)
  BY AsideRest DEF TurnMoves, Paced, Aside, Steady
<1>4. CLocal(p, z, z2, n)
  BY <1>2, <1>3, LocalCaseLink DEF Steady
<1>5. OwnStep(p, z, z2, n) /\ Ac(z, n) = 1 /\ En(z2, n) = En(z, n)
  BY <1>4 DEF CLocal
<1>6. EndsStay(p, z, z2)
  BY <1>5, OwnEndsStay
<1>7. Becomes(p, z, z2, n, b, o, z.nd[n].exception)
  BY <1>2, <1>3, NodeAfterMove
<1>8. /\ z.ex.pc = "call" /\ \A x \in DOMAIN p : x # n => z2.nd[x] = z.nd[x]
      /\ z2.nd[n].exception = z.nd[n].exception
  BY <1>7 DEF Becomes, ExecTyped
<1>9. ExceptionsStay(p, z, z2)
  BY <1>8 DEF ExceptionsStay
<1>10. ExceptionOK(p, z2, n)
  BY <1>3, <1>6, <1>8, <1>9, ExceptionStays DEF Data, ExceptionsOK, SameRest
<1>11. ASSUME Clean(p, z2, n) PROVE NodeData(p, mask, W, D, d, z2, n)
  <2>1. Clean(p, z, n)
    BY <1>9, <1>11, CleanBack
  <2>2. NodesData(p, mask, W, D, d, z)
    BY DEF Data
  <2>3. MoveNeeds(p, mask, W, D, z, n, b, o)
    BY <1>2, <1>3, <1>5, <2>1, <2>2, FilterCaseData, AppendCaseData DEF LocalCase
  <2>4. QED
    BY <1>3, <1>4, <1>7, <2>3, MoveNode
<1>12. QED
  BY <1>3, <1>5, <1>6, <1>8, <1>10, <1>11, OwnData

LEMMA ResumesData ==
  ASSUME NEW p, NEW mask, NEW W, NEW D, NEW d, NEW z, NEW z2, Paced(p, d, z), Means(p, mask, W, D),
         Data(p, mask, W, D, d, z), ExecTyped(z), TurnResumes(p, z, z2)
  PROVE  Data(p, mask, W, D, d, z2)
<1>1. PICK n \in DOMAIN p, c \in Edges(p) : \E o :
        /\ ResumeStep(z.nd, z.st, z2.nd, z2.st, n, c, o)
        /\ AfterSinkIs(p, n, z.nd[n].skip, z.nd[n].local, o)
  BY DEF TurnResumes
<1>2. PICK o : /\ ResumeStep(z.nd, z.st, z2.nd, z2.st, n, c, o)
               /\ AfterSinkIs(p, n, z.nd[n].skip, z.nd[n].local, o)
  BY <1>1
<1>3. Aside(z, z2) /\ SameRest(z, z2) /\ Unnoticed(z, z2) /\ Steady(p, d, z) /\ Ctl(p, d, z)
  BY AsideRest DEF TurnResumes, Paced, Aside, Steady
<1>4. CResume(p, z, z2, n, c)
  BY <1>2, <1>3, ResumeLink
<1>5. /\ OwnStep(p, z, z2, n) /\ Ac(z2, n) = 1 /\ En(z2, n) = En(z, n) /\ K(z2, n) = K(z, n)
      /\ Up(z2, n) = Up(z, n)
  BY <1>4 DEF CResume, OwnStep
<1>6. EndsStay(p, z, z2)
  BY <1>5, OwnEndsStay
<1>7. Becomes(p, z, z2, n, z.nd[n].buffer, o, z.nd[n].exception)
  BY <1>2, <1>3, NodeAfterResume
<1>8. /\ z.ex.pc = "call" /\ \A x \in DOMAIN p : x # n => z2.nd[x] = z.nd[x]
      /\ z2.nd[n].exception = z.nd[n].exception
      /\ z2.nd[n].buffer = z.nd[n].buffer /\ z2.nd[n].local = o
  BY <1>7 DEF Becomes, ExecTyped
<1>9. ExceptionsStay(p, z, z2)
  BY <1>8 DEF ExceptionsStay
<1>10. ExceptionOK(p, z2, n)
  BY <1>3, <1>6, <1>8, <1>9, ExceptionStays DEF Data, ExceptionsOK, SameRest
<1>11. ASSUME Clean(p, z2, n) PROVE NodeData(p, mask, W, D, d, z2, n)
  <2>1. Clean(p, z, n)
    BY <1>9, <1>11, CleanBack
  <2>2. NodeData(p, mask, W, D, d, z, n)
    BY <2>1 DEF Data, NodesData
  <2>3. \A e : A(z2, e) = A(z, e)
    BY <1>3 DEF SameRest, A
  <2>4. o.start = z.nd[n].local.start /\ (p[n].op \in {"filter", "append"} => o = z.nd[n].local)
    BY <1>2 DEF AfterSinkIs
  <2>5. z2.nd[n].local.start = z.nd[n].local.start /\ Ac(z2, n) # 0
    BY <1>5, <1>8, <2>4
  <2>6. p[n].op \in {"filter", "append"} =>
          /\ z2.nd[n].local = z.nd[n].local
          /\ A(z2, <<n, 1>>) = A(z, <<n, 1>>)
          /\ A(z2, <<n, z.nd[n].local.arg>>) = A(z, <<n, z.nd[n].local.arg>>)
    BY <1>8, <2>3, <2>4
  <2>7. z2.nd[n].buffer = z.nd[n].buffer
    BY <1>8
  <2>8. QED
    BY <1>5, <2>2, <2>5, <2>6, <2>7, DataFrame
<1>12. QED
  BY <1>3, <1>5, <1>6, <1>8, <1>10, <1>11, OwnData

-----------------------------------------------------------------------------
(* A call is entered.                                                      *)

\* A step that throws nothing.
LEMMA QuietData ==
  ASSUME NEW p, NEW mask, NEW W, NEW D, NEW d, NEW z, NEW z2, Data(p, mask, W, D, d, z),
         EndsStay(p, z, z2), z2.go => z.go,
         \A x \in DOMAIN p : z2.nd[x].exception = z.nd[x].exception,
         \A x \in DOMAIN p : Clean(p, z, x) => NodeData(p, mask, W, D, d, z2, x),
         ExecData(p, W, z2), OutcomeOK(p, z2)
  PROVE  Data(p, mask, W, D, d, z2)
<1>1. ExceptionsStay(p, z, z2)
  BY DEF ExceptionsStay
<1>2. ExceptionsOK(p, z2)
  BY <1>1, ExceptionStays DEF Data, ExceptionsOK
<1>3. NodesData(p, mask, W, D, d, z2)
  BY <1>1, CleanBack DEF NodesData
<1>4. QED
  BY <1>2, <1>3 DEF Data

\* A node whose coroutine starts.
LEMMA FreshData ==
  ASSUME NEW p, NEW mask, NEW W, NEW D, NEW d, NEW z2, NEW n \in DOMAIN p, IsPlan(p), Means(p, mask, W, D),
         K(z2, n) = 0, En(z2, n) = 0, Ac(z2, n) = 1, z2.nd[n].local = NewOperator(p[n].op),
         p[n].op = "append" => A(z2, <<n, 1>>) = 0
  PROVE  NodeData(p, mask, W, D, d, z2, n)
<1>1. PICK o : o = z2.nd[n].local
  OBVIOUS
<1>2. o.pc = FirstPc(p[n].op) /\ o.arg = 1 /\ o.outidx = 0 /\ o.start = 0
  BY <1>1 DEF NewOperator
<1>3. HasBlock(p, W, d, z2, n) /\ HasEnded(W, z2, n)
  BY DEF HasBlock, HasEnded
<1>4. SourceData(p, W, z2, n)
  <2>1. Len(W[n]) \in Nat /\ Pos(0) = 0
    BY MeansRows, PosStep
  <2>2. Upper(W[n], 0) = 0
    BY <2>1 DEF Upper
  <2>3. QED
    BY <1>1, <1>2, <2>2 DEF SourceData
<1>5. FilterData(p, mask, W, D, z2, n)
  <2>1. SUFFICES ASSUME p[n].op = "filter"
                 PROVE  Filters(mask, D[n], W[p[n].in[1]], W[n], o, z2.nd[n].buffer, 0, A(z2, <<n, 1>>))
    BY <1>1 DEF FilterData
  <2>2. FilterRows(mask, D[n], W[p[n].in[1]], W[n])
    BY <2>1, TwoInputs, MeansFilter
  <2>3. o.pc = "first_left"
    BY <1>2, <2>1 DEF FirstPc
  <2>4. QED
    BY <1>2, <2>2, <2>3, FilterStarts
<1>6. AppendData(p, W, z2, n)
  <2>1. SUFFICES ASSUME p[n].op = "append"
                 PROVE  Joins(W[p[n].in[1]], W[p[n].in[2]], W[n], o, z2.nd[n].buffer, 0, 0)
    BY <1>1, <1>2 DEF AppendData
  <2>2. JoinRows(W[p[n].in[1]], W[p[n].in[2]], W[n])
    BY <2>1, TwoInputs, MeansAppend
  <2>3. o.pc = "get"
    BY <1>2, <2>1 DEF FirstPc
  <2>4. QED
    BY <1>2, <2>2, <2>3, AppendStarts
<1>7. QED
  BY <1>3, <1>4, <1>5, <1>6 DEF NodeData

LEMMA EntersData ==
  ASSUME NEW p, NEW mask, NEW W, NEW D, NEW d, NEW z, NEW z2, Paced(p, d, z), Means(p, mask, W, D),
         Data(p, mask, W, D, d, z), ExecTyped(z), TurnEnters(p, d, z, z2)
  PROVE  Data(p, mask, W, D, d, z2)
<1>1. PICK c \in Edges(p), k \in BOOLEAN :
       /\ EnterStep(p, z.nd, z.st, z2.nd, z2.st, c, k)
       /\ c = Executor => z.pc = "call"
       /\ z2.r = Rounds(p, d, z, c)
  BY DEF TurnEnters
<1>2. /\ Unnoticed(z, z2) /\ z.go /\ z2.a = z.a /\ z2.go /\ z2.pc = z.pc /\ z2.ex = z.ex
      /\ Steady(p, d, z) /\ Ctl(p, d, z) /\ z.pc = z.ex.pc
  BY DEF TurnEnters, Unnoticed, Paced, Steady
<1>3. PICK n : n = Src(p, c)
  OBVIOUS
<1>4. CEnter(p, d, z, z2, c, n)
  BY <1>1, <1>2, <1>3, EnterLink
<1>5. IsPlan(p) /\ Shape(p, z.nd) /\ n \in DOMAIN p
  BY <1>1, <1>2, <1>3, AllKnown DEF KnownEdge, Ctl, Good, Good0
<1>6. IsEntered(p, n, k, z.nd[n], z2.nd[n]) /\ \A x \in DOMAIN p : x # n => z2.nd[x] = z.nd[x]
  <2>1. PICK y : y = Entered(z.nd, p, n, k)
    OBVIOUS
  <2>2. IsEntered(p, n, k, z.nd[n], y)
    BY <1>5, <2>1, NodeEntered
  <2>3. z2.nd = [z.nd EXCEPT ![n] = y]
    BY <1>1, <1>3, <2>1 DEF EnterStep
  <2>4. z.nd = [x \in DOMAIN p |-> z.nd[x]]
    BY <1>5 DEF Shape
  <2>5. z2.nd[n] = y /\ \A x \in DOMAIN p : x # n => z2.nd[x] = z.nd[x]
    BY <1>5, <2>3, <2>4
  <2>6. QED
    BY <2>2, <2>5
<1>7. /\ \A x \in DOMAIN p : K(z2, x) = K(z, x) /\ En(z2, x) = En(z, x)
      /\ \A x \in DOMAIN p : x # n => Ac(z2, x) = Ac(z, x)
      /\ \A e \in Edges(p) : R(z2, e) = R(z, e) \/ R(z2, e) = R(z, e) + 1
  BY <1>4 DEF CEnter, StillAt
<1>8. EndsStay(p, z, z2)
  BY <1>7 DEF EndsStay
<1>9. \A x \in DOMAIN p : z2.nd[x].exception = z.nd[x].exception
  BY <1>6 DEF IsEntered
<1>10. z.ex.pc = "call"
  <2>1. CASE c = Executor
    BY <1>1, <1>2, <2>1
  <2>2. CASE c # Executor
    BY <1>1, <2>2 DEF EnterStep, Inside, ExecTyped
  <2>3. QED
    BY <2>1, <2>2
<1>11. \A e : A(z2, e) = A(z, e)
  BY <1>2 DEF A
<1>12. ExecData(p, W, z2) /\ OutcomeOK(p, z2)
  <2>1. ExceptionsStay(p, z, z2)
    BY <1>9 DEF ExceptionsStay
  <2>2. QED
    BY <1>2, <1>10, <1>11, <2>1, CallExec DEF Data
<1>13. ASSUME NEW x \in DOMAIN p, Clean(p, z, x) PROVE NodeData(p, mask, W, D, d, z2, x)
  <2>1. NodeData(p, mask, W, D, d, z, x) /\ Known(p, d, z, x)
    BY <1>2, <1>13, AllKnown DEF Data, NodesData
  <2>2. CASE x = n /\ ~ z.nd[n].started
    <3>1. /\ z2.nd[n].started /\ z2.nd[n].local = NewOperator(p[n].op)
      BY <1>6, <2>2 DEF IsEntered
    <3>2. Up(z, n) = 0 /\ Up(z2, n) = 1
      BY <2>2, <3>1 DEF Up
    <3>3. Ac(z2, n) = 1 /\ K(z, n) = 0 /\ En(z, n) = 0
      BY <1>4, <3>2 DEF CEnter, StillAt, FreshAt
    <3>4. p[n].op = "append" => A(z2, <<n, 1>>) = 0
      BY <1>11, <2>1, <2>2, <3>2 DEF Known, NodeCtl, Appends
    <3>5. QED
      BY <1>5, <1>7, <2>2, <3>1, <3>3, <3>4, FreshData
  <2>3. CASE x # n \/ z.nd[n].started
    <3>1. SameNode(z, z2, x)
      BY <1>6, <2>3 DEF SameNode, IsEntered
    <3>2. Ac(z2, x) = Ac(z, x)
      <4>1. CASE x # n
        BY <1>7, <4>1
      <4>2. CASE x = n
        <5>1. Up(z, n) = 1
          BY <2>3, <4>2 DEF Up
        <5>2. QED
          BY <1>4, <4>2, <5>1 DEF CEnter, StillAt, FreshAt
      <4>3. QED
        BY <4>1, <4>2
    <3>3. R(z2, d[x]) = R(z, d[x]) \/ K(z2, x) # R(z2, d[x])
      <4>1. K(z, x) \in Nat /\ R(z, d[x]) \in Nat /\ Pace(d, z, x) /\ En(z, x) \in {0, 1} /\ d[x] \in Edges(p)
        BY <2>1 DEF Known, NodeViewOK, NodeCtl
      <4>2. K(z, x) <= R(z, d[x]) /\ K(z2, x) = K(z, x)
        BY <1>7, <4>1 DEF Pace
      <4>3. QED
        BY <1>7, <4>1, <4>2
    <3>4. z.nd[x].local.arg \in 1 .. 2
      BY <2>1 DEF Known, NodeViewOK, Arg
    <3>5. QED
      BY <1>11, <2>1, <3>1, <3>2, <3>3, <3>4, SameNodeData
  <2>4. QED
    BY <2>2, <2>3
<1>14. QED
  BY <1>2, <1>8, <1>9, <1>12, <1>13, QuietData

-----------------------------------------------------------------------------
(* A call returns.                                                         *)

\* What is returned, if nobody skips: the next block, or the end.
LEMMA ReturnedBlock ==
  ASSUME NEW p, NEW mask, NEW W, NEW D, NEW d, NEW z, NEW z2, NEW n, NEW c, NEW b,
         Ctl(p, d, z), Good(p, z2), CReturn(p, z, z2, n, c, b), Means(p, mask, W, D),
         NodeData(p, mask, W, D, d, z, n), Sk(z, n) = 0,
         ~ Skipping(p, z, d[n]), ~ Skipped(p, z, d[n])
  PROVE  /\ b = 1 => IsChunk(z.nd[n].buffer, W[n], A(z, c))
         /\ b = 0 => Len(W[n]) <= Pos(A(z, c))
<1>1. ReturnKnown(p, d, z, z2, n, c, b)
  BY ReturnKnows
<1>2. n \in DOMAIN p /\ Known(p, d, z, n) /\ A(z, c) \in Nat /\ K(z, n) \in Nat /\ n \in ON(z)
  BY <1>1 DEF ReturnKnown
<1>3. Up(z, n) = 1 /\ Fk(p, z, n) \in {0, 1} /\ Ac(z, n) = 0
  BY <1>2 DEF Known, NodeViewOK, CReturn
<1>4. HasBlock(p, W, d, z, n) /\ HasEnded(W, z, n)
  BY <1>3 DEF NodeData
<1>5. ASSUME b = 1 PROVE IsChunk(z.nd[n].buffer, W[n], A(z, c))
  <2>1. K(z, n) = A(z, c) + 1 /\ K(z, n) = R(z, d[n])
    BY <1>1, <1>5 DEF ReturnKnown
  <2>2. Fk(p, z, n) = 0
    BY <1>2, <1>3, <2>1 DEF Known, NodeCtl, Skips
  <2>3. QED
    BY <1>2, <1>3, <1>4, <2>1, <2>2 DEF HasBlock
<1>6. ASSUME b = 0 PROVE Len(W[n]) <= Pos(A(z, c))
  <2>1. En(z, n) = 1 /\ K(z, n) < A(z, c) + 1
    BY <1>1, <1>6 DEF ReturnKnown
  <2>2. K(z, n) <= A(z, c)
    BY <1>2, <2>1
  <2>3. Len(W[n]) <= Pos(K(z, n)) /\ Pos(K(z, n)) <= Pos(A(z, c))
    BY <1>2, <1>4, <2>1, <2>2, PosMonotone DEF HasEnded
  <2>4. Len(W[n]) \in Nat /\ Pos(K(z, n)) \in Nat /\ Pos(A(z, c)) \in Nat
    BY <1>2, MeansRows, PosStep
  <2>5. QED
    BY <2>3, <2>4
<1>7. QED
  BY <1>5, <1>6

\* The operator that made the call goes on.
LEMMA CallerNode ==
  ASSUME NEW p, NEW mask, NEW W, NEW D, NEW d, NEW z2, NEW m, Ac(z2, m) = 1, En(z2, m) = 0,
         p[m].op # "source", FilterData(p, mask, W, D, z2, m), AppendData(p, W, z2, m)
  PROVE  NodeData(p, mask, W, D, d, z2, m)
BY DEF NodeData, HasBlock, HasEnded, SourceData

\* What the operator of m is after a return.
CallerIs(p, z, z2, m, o) ==
  /\ z2.nd[m].local = o /\ z2.nd[m].buffer = z.nd[m].buffer
  /\ K(z2, m) = K(z, m) /\ En(z2, m) = En(z, m) /\ Up(z2, m) = Up(z, m) /\ Ac(z2, m) = Ac(z, m)

LEMMA FilterReceives ==
  ASSUME NEW p, NEW mask, NEW W, NEW D, NEW d, NEW z, NEW z2, NEW n, NEW c, NEW b, NEW o, NEW rows,
         NEW m \in DOMAIN p, Ctl(p, d, z), Good(p, z2), CReturn(p, z, z2, n, c, b), Means(p, mask, W, D),
         c # Executor, m = c[1], p[m].op = "filter", NodeData(p, mask, W, D, d, z, m),
         ReceivedIs(p, m, rows, z.nd[m].local, o), CallerIs(p, z, z2, m, o)
  PROVE  FilterData(p, mask, W, D, z2, m)
<1>1. ReturnKnown(p, d, z, z2, n, c, b)
  BY ReturnKnows
<1>2. IsPlan(p) /\ KnownEdge(p, d, z, c) /\ Known(p, d, z, m) /\ c = <<c[1], c[2]>>
  BY <1>1, AllKnown DEF ReturnKnown, KnownEdge
<1>3. /\ Up(z, m) = 1 /\ Pc(z, m) \in AskingPcs /\ Pc(z, m) \in Pcs("filter")
      /\ Pc(z, m) \in {"first_left", "left", "skip_left"} => c[2] = 1
      /\ Pc(z, m) \in {"first_right", "right"} => c[2] = 2
  BY <1>1 DEF ReturnKnown
<1>4. FilterHas(p, mask, W, D, z, m)
  BY <1>3, FilterKnows
<1>5. PICK q : q = z.nd[m].local
  OBVIOUS
<1>6. q.row \in Nat /\ q.pc = Pc(z, m)
  BY <1>5, GoodLocal DEF Pc
<1>7. PICK s, t, C, k, x, x2, b0 : s = W[p[m].in[1]] /\ t = W[m] /\ C = D[m] /\ k = K(z, m)
         /\ x = A(z, <<m, 1>>) /\ x2 = A(z2, <<m, 1>>) /\ b0 = z.nd[m].buffer
  OBVIOUS
<1>8. FilterRows(mask, C, s, t) /\ x \in Nat /\ k \in Nat /\ Filters(mask, C, s, t, q, b0, k, x)
  BY <1>4, <1>5, <1>7 DEF FilterHas
<1>9. SUFFICES Filters(mask, C, s, t, o, b0, k, x2)
  BY <1>7 DEF FilterData, CallerIs
<1>10. 1 \in 1 .. Arity(p, m)
  BY <1>2, TwoInputs
<1>11. (c[2] = 1 => x2 = x + 1) /\ (c[2] # 1 => x2 = x)
  <2>1. /\ c # <<m, 1>> => A(z2, <<m, 1>>) = A(z, <<m, 1>>)
        /\ c = <<m, 1>> => A(z2, <<m, 1>>) = A(z, <<m, 1>>) + 1
    BY <1>10, ReturnInputs
  <2>2. c = <<m, 1>> <=> c[2] = 1
    BY <1>2
  <2>3. QED
    BY <1>7, <2>1, <2>2
<1>12. /\ o.outidx = q.outidx
       /\ q.pc = "first_left" => o.pc = "first_right"
       /\ q.pc = "first_right" => o.pc = "first"
       /\ q.pc = "right" => o.pc = "test"
       /\ q.pc = "left" => o.pc = "check"
       /\ q.pc = "skip_left" => o.pc = "right"
  BY <1>5 DEF ReceivedIs
<1>13. q.pc \in {"first_left", "first_right", "right", "left", "skip_left"}
  BY <1>3, <1>6 DEF AskingPcs, Pcs
<1>14. CASE q.pc = "skip_left"
  <2>1. x2 = x + 1
    BY <1>3, <1>6, <1>11, <1>14
  <2>2. Filters(mask, C, s, t, o, b0, k, x + 1)
    BY <1>8, <1>12, <1>14, FilterSkips
  <2>3. QED
    BY <2>1, <2>2
<1>15. CASE q.pc # "skip_left"
  <2>1. q.pc = "first_left" => x = 0
    BY <1>2, <1>3, <1>6, <1>7 DEF Known, NodeCtl, Filter, FilterAt
  <2>2. FilterMoves(mask, s, q, o, x, x2)
    <3>1. CASE q.pc = "first_left"
      BY <1>3, <1>6, <1>11, <1>12, <2>1, <3>1 DEF FilterMoves
    <3>2. CASE q.pc = "left"
      BY <1>3, <1>6, <1>11, <1>12, <3>2 DEF FilterMoves
    <3>3. CASE q.pc \in {"first_right", "right"}
      BY <1>3, <1>6, <1>11, <1>12, <3>3 DEF FilterMoves
    <3>4. QED
      BY <1>13, <1>15, <3>1, <3>2, <3>3
  <2>3. x2 \in Nat
    BY <1>8, <1>11
  <2>4. QED
    BY <1>6, <1>8, <1>12, <2>2, <2>3, FilterGoes
<1>16. QED
  BY <1>14, <1>15

LEMMA AppendReceives ==
  ASSUME NEW p, NEW mask, NEW W, NEW D, NEW d, NEW z, NEW z2, NEW n, NEW c, NEW rows \in BOOLEAN, NEW b, NEW o,
         b = IF rows THEN 1 ELSE 0,
         NEW m \in DOMAIN p, Ctl(p, d, z), Good(p, z2), CReturn(p, z, z2, n, c, b), Means(p, mask, W, D),
         c # Executor, m = c[1], p[m].op = "append", NodeData(p, mask, W, D, d, z, m),
         NodeData(p, mask, W, D, d, z, n),
         ReceivedIs(p, m, rows, z.nd[m].local, o), CallerIs(p, z, z2, m, o)
  PROVE  AppendData(p, W, z2, m)
<1>1. ReturnKnown(p, d, z, z2, n, c, b)
  BY ReturnKnows
<1>2. /\ IsPlan(p) /\ KnownEdge(p, d, z, c) /\ Known(p, d, z, m) /\ c = <<c[1], c[2]>> /\ c \in Edges(p)
      /\ Src(p, c) = n /\ IsDriver(p, d)
  BY <1>1, AllKnown DEF ReturnKnown, KnownEdge, CReturn
<1>3. /\ Up(z, m) = 1 /\ Pc(z, m) \in AskingPcs /\ Pc(z, m) \in Pcs("append") /\ Arg(z, m) = c[2]
      /\ Sk(z, n) = 1 <=> Pc(z, m) \in SkippingPcs
      /\ Sk(z, n) \in {0, 1}
  BY <1>1, <1>2 DEF ReturnKnown, Known, NodeViewOK
<1>4. AppendHas(p, W, z, m)
  BY <1>3, AppendKnows
<1>5. PICK q : q = z.nd[m].local
  OBVIOUS
<1>6. q.row \in Nat /\ q.pc = Pc(z, m) /\ q.arg \in 1 .. 2 /\ q.arg = c[2] /\ q.got \in [1 .. 2 -> BOOLEAN]
  BY <1>3, <1>5, GoodLocal DEF Pc, Arg
<1>7. q.pc = "get" /\ Sk(z, n) = 0
  BY <1>3, <1>6 DEF AskingPcs, Pcs, SkippingPcs
<1>8. d[n] = c
  BY <1>2, DriverOf
<1>9. ~ Skipping(p, z, d[n]) /\ ~ Skipped(p, z, d[n])
  BY <1>8 DEF Skipping, Skipped
<1>10. PICK x : x = A(z, c)
  OBVIOUS
<1>11. (rows => IsChunk(z.nd[n].buffer, W[n], x)) /\ (~ rows => Len(W[n]) <= Pos(x))
  BY <1>7, <1>9, <1>10, ReturnedBlock
<1>12. PICK s1, s2, t, k, b0 : s1 = W[p[m].in[1]] /\ s2 = W[p[m].in[2]] /\ t = W[m] /\ k = K(z, m)
                               /\ b0 = z.nd[m].buffer
  OBVIOUS
<1>13. c = <<m, q.arg>> /\ x = A(z, <<m, q.arg>>)
  BY <1>2, <1>6, <1>10
<1>14. JoinRows(s1, s2, t) /\ x \in Nat /\ k \in Nat /\ Joins(s1, s2, t, q, b0, k, x)
  BY <1>4, <1>5, <1>6, <1>12, <1>13 DEF AppendHas
<1>15. o.pc = "copy" /\ o.arg = q.arg /\ o.row = 1 /\ o.outidx = q.outidx /\ o.got[o.arg] = rows
  BY <1>5, <1>6, <1>7 DEF ReceivedIs
<1>16. W[n] = Part(s1, s2, q)
  <2>1. n = p[m].in[q.arg]
    BY <1>2, <1>6 DEF Src
  <2>2. QED
    BY <1>6, <1>12, <2>1 DEF Part
<1>17. A(z2, c) = x + 1
  BY <1>10 DEF CReturn
<1>18. AppendMoves(s1, s2, q, o, x, x + 1)
  <2>1. CASE rows
    <3>1. Pos(x) < Len(Part(s1, s2, q))
      BY <1>11, <1>16, <2>1 DEF IsChunk
    <3>2. QED
      BY <1>7, <1>15, <2>1, <3>1 DEF AppendMoves
  <2>2. CASE ~ rows
    BY <1>7, <1>11, <1>15, <1>16, <2>2 DEF AppendMoves
  <2>3. QED
    BY <2>1, <2>2
<1>19. Joins(s1, s2, t, o, b0, k, x + 1)
  <2>1. x + 1 \in Nat
    BY <1>14
  <2>2. QED
    BY <1>6, <1>14, <1>15, <1>18, <2>1, AppendGoes
<1>20. A(z2, <<m, o.arg>>) = x + 1
  BY <1>13, <1>15, <1>17
<1>21. QED
  BY <1>12, <1>19, <1>20 DEF AppendData, CallerIs

\* The data of the other nodes,
LEMMA ReturnedOther ==
  ASSUME NEW p, NEW mask, NEW W, NEW D, NEW d, NEW z, NEW z2, NEW n, NEW c, NEW b, NEW o,
         Ctl(p, d, z), Good(p, z2), CReturn(p, z, z2, n, c, b), NEW x \in DOMAIN p,
         NodeReturned(p, z, z2, c, o, x), c = Executor \/ x # c[1], NodeData(p, mask, W, D, d, z, x)
  PROVE  NodeData(p, mask, W, D, d, z2, x)
<1>1. Known(p, d, z, x) /\ IsPlan(p) /\ c \in Edges(p)
  BY AllKnown DEF CReturn
<1>2. SameNode(z, z2, x)
  BY DEF NodeReturned, SameNode
<1>3. z.nd[x].local.arg \in 1 .. 2
  BY <1>1 DEF Known, NodeViewOK, Arg
<1>4. p[x].op \in {"filter", "append"} => \A i \in 1 .. 2 : A(z2, <<x, i>>) = A(z, <<x, i>>)
  <2>1. SUFFICES ASSUME p[x].op \in {"filter", "append"}, NEW i \in 1 .. 2
                 PROVE  A(z2, <<x, i>>) = A(z, <<x, i>>)
    OBVIOUS
  <2>2. i \in 1 .. Arity(p, x)
    BY <1>1, <2>1, PlanArity
  <2>3. c # <<x, i>>
    <3>1. <<x, i>> # Executor
      BY <1>1, <2>2, IsEdge
    <3>2. QED
      BY <3>1
  <2>4. QED
    BY <2>2, <2>3, ReturnInputs
<1>5. Ac(z2, x) = Ac(z, x)
  BY DEF CReturn, KeptAt
<1>6. R(z2, d[x]) = R(z, d[x])
  BY <1>1 DEF CReturn, Known
<1>7. QED
  BY <1>2, <1>3, <1>4, <1>5, <1>6, SameNodeData

\* of the node whose operator has got its block,
LEMMA ReturnedCaller ==
  ASSUME NEW p, NEW mask, NEW W, NEW D, NEW d, NEW z, NEW z2, NEW n, NEW c, NEW rows \in BOOLEAN, NEW b, NEW o,
         b = IF rows THEN 1 ELSE 0,
         Ctl(p, d, z), Good(p, z2), CReturn(p, z, z2, n, c, b), Means(p, mask, W, D),
         c # Executor, NEW m, m = c[1], NodeReturned(p, z, z2, c, o, m),
         NodesData(p, mask, W, D, d, z), Clean(p, z, m),
         ReceivedIs(p, m, rows, z.nd[m].local, o)
  PROVE  NodeData(p, mask, W, D, d, z2, m)
<1>1. ReturnKnown(p, d, z, z2, n, c, b)
  BY ReturnKnows
<1>2. /\ IsPlan(p) /\ m \in DOMAIN p /\ c[2] \in 1 .. Arity(p, m) /\ Src(p, c) = n /\ n \in DOMAIN p
      /\ p[m].op \in {"linear", "filter", "append"}
  BY <1>1 DEF ReturnKnown, KnownEdge, CReturn
<1>3. KeptAt(p, z, z2, m)
  BY <1>2 DEF CReturn
<1>4. CallerIs(p, z, z2, m, o)
  BY <1>3 DEF CallerIs, KeptAt, NodeReturned
<1>5. Ac(z2, m) = 1 /\ En(z2, m) = 0
  BY <1>1, <1>3 DEF ReturnKnown, KeptAt
<1>6. NodeData(p, mask, W, D, d, z, m)
  BY <1>2 DEF NodesData
<1>7. NodeData(p, mask, W, D, d, z, n)
  <2>1. n = p[m].in[c[2]]
    BY <1>2 DEF Src
  <2>2. Clean(p, z, n)
    BY <1>2, <2>1, CleanInput
  <2>3. QED
    BY <1>2, <2>2 DEF NodesData
<1>8. FilterData(p, mask, W, D, z2, m)
  <2>1. CASE p[m].op = "filter"
    BY <1>2, <1>4, <1>6, <2>1, FilterReceives
  <2>2. CASE p[m].op # "filter"
    BY <2>2 DEF FilterData
  <2>3. QED
    BY <2>1, <2>2
<1>9. AppendData(p, W, z2, m)
  <2>1. CASE p[m].op = "append"
    BY <1>2, <1>4, <1>6, <1>7, <2>1, AppendReceives
  <2>2. CASE p[m].op # "append"
    BY <2>2 DEF AppendData
  <2>3. QED
    BY <2>1, <2>2
<1>10. QED
  BY <1>2, <1>5, <1>8, <1>9, CallerNode

\* The rows after another block.
LEMMA PrefixGrows ==
  ASSUME NEW w \in Seq(1 .. NumRows), NEW k \in Nat, NEW s \in Seq(0 .. NumRows), NEW b \in Seq(0 .. NumRows),
         IsPrefix(s, w, Upper(w, k)), IsChunk(b, w, k)
  PROVE  IsPrefix(s \o b, w, Upper(w, k + 1))
<1>1. PICK x : x = Upper(w, k)
  OBVIOUS
<1>2. PICK y : y = Upper(w, k + 1)
  OBVIOUS
<1>3. Pos(k) < Len(w) /\ Len(b) = y - Pos(k) /\ \A j \in 1 .. Len(b) : b[j] = w[Pos(k) + j]
  BY <1>2 DEF IsChunk
<1>4. x = Pos(k) /\ Pos(k) < y /\ y \in Nat /\ Pos(k) \in Nat
  <2>1. Upper(w, k) = Pos(k) /\ Pos(k) < Upper(w, k + 1)
    BY <1>3, UpperIs
  <2>2. k + 1 \in Nat
    OBVIOUS
  <2>3. Upper(w, k + 1) \in 0 .. Len(w) /\ Len(w) \in Nat
    BY <2>2, UpperIs
  <2>4. Pos(k) \in Nat
    BY PosStep
  <2>5. QED
    BY <1>1, <1>2, <2>1, <2>3, <2>4
<1>5. Len(s) = x /\ \A j \in 1 .. x : s[j] = w[j]
  BY <1>1 DEF IsPrefix
<1>6. PICK q, i : q = Pos(k) /\ i = Len(b)
  OBVIOUS
<1>7. q \in Nat /\ i \in Nat /\ i = y - q /\ q < y /\ Len(s) = q
  BY <1>3, <1>4, <1>5, <1>6
<1>8. Len(s \o b) = q + i /\ \A j \in 1 .. (q + i) : (s \o b)[j] = IF j <= q THEN s[j] ELSE b[j - q]
  <2>1. Len(s \o b) = Len(s) + Len(b)
        /\ \A j \in 1 .. (Len(s) + Len(b)) : (s \o b)[j] = IF j <= Len(s) THEN s[j] ELSE b[j - Len(s)]
    BY ConcatProperties
  <2>2. QED
    BY <1>6, <1>7, <2>1
<1>9. q + i = y
  BY <1>4, <1>7
<1>10. ASSUME NEW j \in 1 .. y PROVE (s \o b)[j] = w[j]
  <2>1. (s \o b)[j] = IF j <= q THEN s[j] ELSE b[j - q]
    BY <1>8, <1>9
  <2>2. CASE j <= q
    <3>1. j \in 1 .. x
      BY <1>4, <1>6, <1>7, <2>2
    <3>2. QED
      BY <1>5, <2>1, <2>2, <3>1
  <2>3. CASE ~ (j <= q)
    <3>1. j - q \in 1 .. i /\ q + (j - q) = j
      BY <1>4, <1>7, <2>3
    <3>2. b[j - q] = w[q + (j - q)]
      BY <1>3, <1>6, <3>1
    <3>3. QED
      BY <2>1, <2>3, <3>1, <3>2
  <2>4. QED
    BY <2>2, <2>3
<1>11. QED
  BY <1>2, <1>8, <1>9, <1>10 DEF IsPrefix

\* and what the executor has collected.
LEMMA ExecutorGets ==
  ASSUME NEW p, NEW mask, NEW W, NEW D, NEW d, NEW z, NEW z2, NEW n, NEW c, NEW rows \in BOOLEAN, NEW b,
         b = IF rows THEN 1 ELSE 0,
         Ctl(p, d, z), Good(p, z2), CReturn(p, z, z2, n, c, b), Means(p, mask, W, D), c = Executor,
         Data(p, mask, W, D, d, z), ExecTyped(z), z.ex.pc = "call", Collects(z, z2, n, rows),
         ExceptionsStay(p, z, z2)
  PROVE  ExecData(p, W, z2) /\ OutcomeOK(p, z2)
<1>1. z.ex.outcome = "none" /\ z.ex.reported = 0
  BY DEF Data, OutcomeOK
<1>2. z2.ex.outcome = "none" /\ z2.ex.reported = 0
  BY <1>1 DEF Collects
<1>3. OutcomeOK(p, z2)
  BY <1>2 DEF OutcomeOK
<1>4. SUFFICES ASSUME Clean(p, z2, Len(p)) PROVE ExecData(p, W, z2)
  BY <1>3 DEF ExecData
<1>5. ReturnKnown(p, d, z, z2, n, c, b)
  BY ReturnKnows
<1>6. /\ IsPlan(p) /\ IsDriver(p, d) /\ n \in DOMAIN p /\ Src(p, c) = n /\ c \in Edges(p) /\ Ca(z, c) = 1
      /\ EdgeViewOK(p, z, c) /\ A(z, c) \in Nat
  BY <1>5 DEF ReturnKnown, CReturn, KnownEdge
<1>7. n = Len(p) /\ d[n] = Executor /\ Sk(z, n) = 0
  <2>1. n = Len(p)
    BY <1>6 DEF Src
  <2>2. d[n] = Executor
    BY <1>6, DriverOf
  <2>3. Sk(z, n) = 0
    BY <1>6 DEF EdgeViewOK
  <2>4. QED
    BY <2>1, <2>2, <2>3
<1>8. ~ Skipping(p, z, d[n]) /\ ~ Skipped(p, z, d[n])
  BY <1>7 DEF Skipping, Skipped
<1>9. Clean(p, z, n)
  BY <1>4, <1>7, CleanBack
<1>10. NodeData(p, mask, W, D, d, z, n)
  BY <1>6, <1>9 DEF Data, NodesData
<1>11. PICK k, w : k = A(z, c) /\ w = W[n]
  OBVIOUS
<1>12. (rows => IsChunk(z.nd[n].buffer, w, k)) /\ (~ rows => Len(w) <= Pos(k))
  BY <1>7, <1>8, <1>10, <1>11, ReturnedBlock
<1>13. w \in Seq(1 .. NumRows) /\ Len(w) \in Nat /\ k \in Nat /\ k + 1 \in Nat
  BY <1>6, <1>11, MeansRows
<1>14. A(z2, Executor) = k + 1
  BY <1>11 DEF CReturn
<1>15. IsPrefix(z.ex.collected, w, Upper(w, k))
  BY <1>7, <1>9, <1>11 DEF Data, ExecData
<1>16. SUFFICES /\ IsPrefix(z2.ex.collected, w, Upper(w, k + 1))
                /\ Complete(z2) /\ ~ z2.ex.stopped => Len(z2.ex.collected) = Len(w)
  BY <1>7, <1>11, <1>14 DEF ExecData
<1>17. CASE rows
  <2>1. z2.ex.collected = z.ex.collected \o z.nd[n].buffer
    BY <1>17 DEF Collects
  <2>2. PICK y : y = z.nd[n].buffer
    OBVIOUS
  <2>3. y \in Seq(0 .. NumRows)
    BY <1>6, <2>2, GoodLocal
  <2>4. IsPrefix(z.ex.collected \o y, w, Upper(w, k + 1))
    BY <1>12, <1>13, <1>15, <1>17, <2>2, <2>3, PrefixGrows DEF ExecTyped
  <2>5. Complete(z2) => z2.ex.stopped
    BY <1>2, <1>17 DEF Collects, Complete
  <2>6. QED
    BY <2>1, <2>2, <2>4, <2>5
<1>18. CASE ~ rows
  <2>1. z2.ex.collected = z.ex.collected
    BY <1>18 DEF Collects
  <2>2. Len(w) <= Pos(k) /\ Pos(k) <= Pos(k + 1) /\ Pos(k) \in Nat /\ Pos(k + 1) \in Nat
    <3>1. k <= k + 1
      BY <1>13
    <3>2. QED
      BY <1>12, <1>13, <1>18, <3>1, PosMonotone, PosStep
  <2>3. Upper(w, k) = Len(w) /\ Upper(w, k + 1) = Len(w)
    <3>1. Len(w) <= Pos(k + 1)
      BY <1>13, <2>2
    <3>2. QED
      BY <1>13, <2>2, <3>1, UpperIs
  <2>4. QED
    BY <1>15, <2>1, <2>3 DEF IsPrefix
<1>19. QED
  BY <1>17, <1>18

LEMMA ReturnsData ==
  ASSUME NEW p, NEW mask, NEW W, NEW D, NEW d, NEW z, NEW z2, Paced(p, d, z), Means(p, mask, W, D),
         Data(p, mask, W, D, d, z), ExecTyped(z), TurnReturns(p, z, z2), z2.pc = z2.ex.pc
  PROVE  Data(p, mask, W, D, d, z2)
<1>1. PICK n \in DOMAIN p, c \in Edges(p), rows \in BOOLEAN : \E o : IsReturn(p, z, z2, n, c, rows, o)
  BY DEF TurnReturns
<1>2. PICK o : IsReturn(p, z, z2, n, c, rows, o)
  BY <1>1
<1>3. z2.r = z.r /\ z2.go = z.go
  BY DEF TurnReturns
<1>4. PICK b : b = IF rows THEN 1 ELSE 0
  OBVIOUS
<1>5. Steady(p, d, z2) /\ CReturn(p, z, z2, n, c, b)
  BY <1>2, <1>3, <1>4, ReturnIs
<1>6. Ctl(p, d, z) /\ Good(p, z2) /\ Good(p, z)
  BY <1>5 DEF Paced, Steady, Ctl
<1>7. /\ ReturnStep(p, z.nd, z.st, z2.nd, z2.st, n, c, o)
      /\ c # Executor => ReceivedIs(p, c[1], rows, z.nd[c[1]].local, o) /\ z2.ex = z.ex
      /\ c = Executor => Collects(z, z2, n, rows)
  BY <1>2 DEF IsReturn
<1>8. \A x \in DOMAIN p : NodeReturned(p, z, z2, c, o, x)
  BY <1>6, <1>7, ReturnedNodes
<1>9. \A x \in DOMAIN p : z2.nd[x].exception = z.nd[x].exception
  BY <1>8 DEF NodeReturned
<1>10. ExceptionsStay(p, z, z2)
  BY <1>9 DEF ExceptionsStay
<1>11. EndsStay(p, z, z2)
  BY <1>5 DEF CReturn, KeptAt, EndsStay
<1>12. z.ex.pc = "call"
  BY <1>7 DEF ReturnStep, Waits, ExecTyped
<1>13. ExecData(p, W, z2) /\ OutcomeOK(p, z2)
  <2>1. CASE c = Executor
    BY <1>4, <1>5, <1>6, <1>7, <1>10, <1>12, <2>1, ExecutorGets
  <2>2. CASE c # Executor
    <3>1. A(z2, Executor) = A(z, Executor)
      BY <1>5, <1>6, <2>2, AllKnown DEF CReturn
    <3>2. QED
      BY <1>7, <1>10, <1>12, <2>2, <3>1, CallExec DEF Data
  <2>3. QED
    BY <2>1, <2>2
<1>14. ASSUME NEW x \in DOMAIN p, Clean(p, z, x) PROVE NodeData(p, mask, W, D, d, z2, x)
  <2>1. NodesData(p, mask, W, D, d, z) /\ NodeData(p, mask, W, D, d, z, x)
    BY <1>14 DEF Data, NodesData
  <2>2. CASE c = Executor \/ x # c[1]
    BY <1>5, <1>6, <1>8, <2>1, <2>2, ReturnedOther
  <2>3. CASE c # Executor /\ x = c[1]
    BY <1>4, <1>5, <1>6, <1>7, <1>8, <1>14, <2>1, <2>3, ReturnedCaller
  <2>4. QED
    BY <2>2, <2>3
<1>15. QED
  BY <1>3, <1>9, <1>11, <1>13, <1>14, QuietData

-----------------------------------------------------------------------------
(* The steps of the executor, and the user.                                *)

LEMMA OutsideData ==
  ASSUME NEW p, NEW mask, NEW W, NEW D, NEW d, NEW z, NEW z2, Paced(p, d, z), Data(p, mask, W, D, d, z),
         z2.nd = z.nd, z2.st = z.st, z2.a = z.a, z2.r = z.r, z2.go => z.go,
         ExecData(p, W, z2), OutcomeOK(p, z2)
  PROVE  Data(p, mask, W, D, d, z2)
<1>1. EndsStay(p, z, z2)
  BY DEF EndsStay, En
<1>2. \A x \in DOMAIN p : z2.nd[x].exception = z.nd[x].exception
  OBVIOUS
<1>3. ASSUME NEW x \in DOMAIN p, Clean(p, z, x) PROVE NodeData(p, mask, W, D, d, z2, x)
  <2>1. NodeData(p, mask, W, D, d, z, x)
    BY <1>3 DEF Data, NodesData
  <2>2. SameNode(z, z2, x)
    BY DEF SameNode
  <2>3. z.nd[x].local.arg \in 1 .. 2
    BY AllKnown DEF Paced, Steady, Known, NodeViewOK, Arg
  <2>4. \A c : A(z2, c) = A(z, c) /\ R(z2, c) = R(z, c)
    BY DEF A, R
  <2>5. Ac(z2, x) = Ac(z, x)
    BY DEF Ac
  <2>6. QED
    BY <2>1, <2>2, <2>3, <2>4, <2>5, SameNodeData
<1>4. QED
  BY <1>1, <1>2, <1>3, QuietData

LEMMA OutsideClean ==
  ASSUME NEW p, NEW z, NEW z2, NEW n, z2.nd = z.nd, Clean(p, z2, n)
  PROVE  Clean(p, z, n)
BY CleanBack DEF ExceptionsStay

LEMMA CancelsData ==
  ASSUME NEW p, NEW mask, NEW W, NEW D, NEW d, NEW z, NEW z2, Paced(p, d, z),
         Data(p, mask, W, D, d, z), TurnCancels(z, z2)
  PROVE  Data(p, mask, W, D, d, z2)
<1>1. /\ z2.nd = z.nd /\ z2.st = z.st /\ z2.a = z.a /\ z2.r = z.r /\ ~ z2.go /\ z2.ex = z.ex
      /\ ExecData(p, W, z) /\ OutcomeOK(p, z)
  BY DEF TurnCancels, Data
<1>2. A(z2, Executor) = A(z, Executor)
  BY <1>1 DEF A
<1>3. ExecData(p, W, z2)
  BY <1>1, <1>2, OutsideClean DEF ExecData, Complete
<1>4. OutcomeOK(p, z2)
  BY <1>1 DEF OutcomeOK
<1>5. QED
  BY <1>1, <1>3, <1>4, OutsideData

LEMMA StopsData ==
  ASSUME NEW p, NEW mask, NEW W, NEW D, NEW d, NEW z, NEW z2, Paced(p, d, z),
         Data(p, mask, W, D, d, z), TurnStops(z, z2)
  PROVE  Data(p, mask, W, D, d, z2)
<1>1. /\ z2.nd = z.nd /\ z2.st = z.st /\ z2.a = z.a /\ z2.r = z.r /\ z2.go = z.go /\ ~ z.go
      /\ z.ex.pc = "call" /\ z2.ex.pc = "done" /\ z2.ex.outcome = "thrown" /\ z2.ex.reported = z.ex.reported
      /\ z2.ex.collected = z.ex.collected
      /\ ExecData(p, W, z) /\ OutcomeOK(p, z)
  BY DEF TurnStops, Data
<1>2. A(z2, Executor) = A(z, Executor)
  BY <1>1 DEF A
<1>3. ExecData(p, W, z2)
  BY <1>1, <1>2, OutsideClean DEF ExecData, Complete
<1>4. z2.ex.reported = 0
  BY <1>1 DEF OutcomeOK
<1>5. OutcomeOK(p, z2)
  BY <1>1, <1>4 DEF OutcomeOK
<1>6. QED
  BY <1>1, <1>3, <1>5, OutsideData

\* What the search of find_earliest_exception() finds.
IsEarliest(p, nd, e) ==
  e \in [DOMAIN p -> 0 .. Len(p)] /\ \A n \in DOMAIN p : e[n] = EarliestFrom(p, nd, e, n)

\* Where it finds nothing, nothing has failed.
LEMMA EarliestClean ==
  ASSUME NEW p, IsPlan(p), NEW z, NEW e, IsEarliest(p, z.nd, e), NEW x \in DOMAIN p, e[x] = 0
  PROVE  Clean(p, z, x)
<1>1. PICK S : S = {m \in DOMAIN p : e[m] = 0}
  OBVIOUS
<1>2. ASSUME NEW m \in S
      PROVE  z.nd[m].exception = "none" /\ \A i \in 1 .. Arity(p, m) : p[m].in[i] \in S
  <2>1. m \in DOMAIN p /\ e[m] = 0 /\ e[m] = EarliestFrom(p, z.nd, e, m) /\ m \in Nat \ {0}
    BY <1>1, <1>2, PlanShape DEF IsEarliest
  <2>2. /\ \A i \in 1 .. Arity(p, m) : e[p[m].in[i]] = 0
        /\ EarliestFrom(p, z.nd, e, m) = IF z.nd[m].exception # "none" THEN m ELSE 0
    BY <2>1, EarliestChoice
  <2>3. z.nd[m].exception = "none"
    BY <2>1, <2>2
  <2>4. \A i \in 1 .. Arity(p, m) : p[m].in[i] \in DOMAIN p
    BY <2>1, PlanArity
  <2>5. QED
    BY <1>1, <2>2, <2>3, <2>4
<1>3. Closed(p, z, S)
  BY <1>2 DEF Closed
<1>4. S \in SUBSET DOMAIN p /\ x \in S
  BY <1>1
<1>5. QED
  BY <1>3, <1>4 DEF Clean

\* What it finds has failed, and nothing before it.
IsCause(p, nd, e, y) ==
  y \in DOMAIN p /\ nd[y].exception # "none" /\ \A i \in 1 .. Arity(p, y) : e[p[y].in[i]] = 0
LEMMA EarliestCause ==
  ASSUME NEW p, IsPlan(p), NEW nd, NEW e, IsEarliest(p, nd, e), NEW x \in DOMAIN p, e[x] # 0
  PROVE  IsCause(p, nd, e, e[x])
<1>1. PICK T : T = {n \in DOMAIN p : e[n] # 0 /\ ~ IsCause(p, nd, e, e[n])}
  OBVIOUS
<1>2. SUFFICES ASSUME T # {} PROVE FALSE
  BY <1>1
<1>3. T \in SUBSET Nat
  BY <1>1, PlanShape
<1>4. PICK m \in T : \A k \in T : m <= k
  BY <1>2, <1>3, Least
<1>5. m \in DOMAIN p /\ e[m] # 0 /\ ~ IsCause(p, nd, e, e[m]) /\ e[m] = EarliestFrom(p, nd, e, m) /\ m \in Nat
  BY <1>1, <1>3, <1>4 DEF IsEarliest
<1>6. CASE \E i \in 1 .. Arity(p, m) : e[p[m].in[i]] # 0 /\ EarliestFrom(p, nd, e, m) = e[p[m].in[i]]
  <2>1. PICK i \in 1 .. Arity(p, m) : e[p[m].in[i]] # 0 /\ EarliestFrom(p, nd, e, m) = e[p[m].in[i]]
    BY <1>6
  <2>2. PICK j : j = p[m].in[i]
    OBVIOUS
  <2>3. j \in DOMAIN p /\ j < m /\ j \in Nat
    BY <1>5, <2>2, PlanArity, PlanShape
  <2>4. j \in T
    BY <1>1, <1>5, <2>1, <2>2, <2>3
  <2>5. QED
    BY <1>4, <1>5, <2>3, <2>4
<1>7. CASE /\ \A i \in 1 .. Arity(p, m) : e[p[m].in[i]] = 0
           /\ EarliestFrom(p, nd, e, m) = IF nd[m].exception # "none" THEN m ELSE 0
  <2>1. e[m] = m /\ nd[m].exception # "none"
    BY <1>5, <1>7
  <2>2. QED
    BY <1>5, <1>7, <2>1 DEF IsCause
<1>8. QED
  BY <1>5, <1>6, <1>7, EarliestChoice

\* If something has failed, it finds it.
LEMMA EarliestThrows ==
  ASSUME NEW p, IsPlan(p), NEW nd, NEW e, IsEarliest(p, nd, e), NEW x \in DOMAIN p, nd[x].exception # "none"
  PROVE  e[Len(p)] # 0
<1>1. PICK T : T = {n \in DOMAIN p : e[n] # 0}
  OBVIOUS
<1>2. \A n \in DOMAIN p : n \in Nat \ {0} /\ n \in 0 .. Len(p) /\ Len(p) \in Nat
  BY PlanShape
<1>3. x \in T
  <2>1. e[x] = EarliestFrom(p, nd, e, x)
    BY DEF IsEarliest
  <2>2. e[x] # 0
    BY <1>2, <2>1, EarliestChoice
  <2>3. QED
    BY <1>1, <2>2
<1>4. T \in SUBSET (0 .. Len(p)) /\ Len(p) \in Nat
  BY <1>1, <1>2
<1>5. PICK m \in T : \A k \in T : k <= m
  BY <1>3, <1>4, Greatest
<1>6. m \in DOMAIN p /\ e[m] # 0 /\ m \in Nat
  BY <1>1, <1>2, <1>5
<1>7. PICK c \in Edges(p) : Src(p, c) = m
  BY <1>6, HasConsumer
<1>8. CASE c = Executor
  BY <1>6, <1>7, <1>8 DEF Src
<1>9. CASE c # Executor
  <2>1. c[1] \in DOMAIN p /\ c[2] \in 1 .. Arity(p, c[1]) /\ p[c[1]].in[c[2]] = m /\ m < c[1]
    BY <1>7, <1>9, EdgeShape
  <2>2. PICK j, i : j = c[1] /\ i = c[2]
    OBVIOUS
  <2>3. j \in DOMAIN p /\ i \in 1 .. Arity(p, j) /\ p[j].in[i] = m /\ m < j /\ j \in Nat
    BY <1>2, <2>1, <2>2
  <2>4. e[j] = EarliestFrom(p, nd, e, j)
    BY <2>3 DEF IsEarliest
  <2>5. e[p[j].in[i]] # 0
    BY <1>6, <2>3
  <2>6. e[j] # 0
    BY <2>3, <2>4, <2>5, EarliestChoice
  <2>7. j \in T
    BY <1>1, <2>3, <2>6
  <2>8. QED
    BY <1>5, <1>6, <2>3, <2>7
<1>10. QED
  BY <1>8, <1>9

LEMMA ChecksData ==
  ASSUME NEW p, NEW mask, NEW W, NEW D, NEW d, NEW z, NEW z2, Paced(p, d, z),
         Data(p, mask, W, D, d, z), TurnChecks(p, z, z2)
  PROVE  Data(p, mask, W, D, d, z2)
<1>1. /\ z2.nd = z.nd /\ z2.st = z.st /\ z2.a = z.a /\ z2.r = z.r /\ z2.go = z.go
      /\ z.ex.pc = "check" /\ z2.ex.pc = "done"
      /\ z2.ex.collected = z.ex.collected /\ z2.ex.stopped = z.ex.stopped
      /\ ExecData(p, W, z) /\ ExceptionsOK(p, z)
  BY DEF TurnChecks, Data
<1>2. A(z2, Executor) = A(z, Executor)
  BY <1>1 DEF A
<1>3. ExecData(p, W, z2)
  BY <1>1, <1>2, OutsideClean DEF ExecData, Complete
<1>4. OutcomeOK(p, z2)
  <2>1. CASE ~ Throws(p, z)
    <3>1. z2.ex.outcome = "ok" /\ z2.ex.reported = 0
      BY <2>1 DEF TurnChecks
    <3>2. \A n \in DOMAIN p : z2.nd[n].exception = "none"
      BY <1>1, <2>1 DEF Throws
    <3>3. QED
      BY <1>1, <3>1, <3>2 DEF OutcomeOK
  <2>2. CASE Throws(p, z)
    <3>1. z2.ex.outcome = "thrown"
      BY <2>2 DEF TurnChecks
    <3>2. PICK e : IsEarliest(p, z.nd, e) /\ z2.ex.reported = e[Len(p)]
      BY <2>2 DEF TurnChecks, IsEarliest
    <3>3. PICK x \in DOMAIN p : z.nd[x].exception # "none"
      BY <2>2 DEF Throws
    <3>4. IsPlan(p) /\ Shape(p, z.nd)
      BY DEF Paced, Steady, Ctl, Good, Good0
    <3>5. e[Len(p)] # 0 /\ Len(p) \in DOMAIN p
      BY <3>2, <3>3, <3>4, EarliestThrows, PlanShape
    <3>6. PICK y : y = e[Len(p)]
      OBVIOUS
    <3>7. IsCause(p, z.nd, e, y)
      BY <3>2, <3>4, <3>5, <3>6, EarliestCause
    <3>8. y \in DOMAIN p /\ z.nd[y].exception # "none" /\ \A i \in 1 .. Arity(p, y) : e[p[y].in[i]] = 0
      BY <3>7 DEF IsCause
    <3>9. \A i \in 1 .. Arity(p, y) : Clean(p, z, p[y].in[i])
      <4>1. \A i \in 1 .. Arity(p, y) : p[y].in[i] \in DOMAIN p
        BY <3>4, <3>8, PlanArity
      <4>2. QED
        BY <3>2, <3>4, <3>8, <4>1, EarliestClean
    <3>10. z.nd[y].exception # "assert"
      BY <1>1, <3>8, <3>9 DEF ExceptionsOK, ExceptionOK
    <3>11. z.nd[y].exception \in Exceptions
      BY <3>4, <3>8, NodeParts DEF Shape
    <3>12. z2.nd[z2.ex.reported].exception \in {"failed", "canceled"}
      BY <1>1, <3>2, <3>6, <3>8, <3>10, <3>11 DEF Exceptions
    <3>13. z2.ex.reported # 0
      BY <3>2, <3>5
    <3>14. QED
      BY <1>1, <3>1, <3>12, <3>13 DEF OutcomeOK
  <2>3. QED
    BY <2>1, <2>2
<1>5. QED
  BY <1>1, <1>3, <1>4, OutsideData

\* Before the first call.
LEMMA FirstData ==
  ASSUME NEW p, NEW mask, NEW W, NEW D, NEW d, NEW z, IsPlan(p), Means(p, mask, W, D),
         \A x \in DOMAIN p : ~ z.nd[x].started /\ z.nd[x].exception = "none",
         z.a = [c \in Edges(p) |-> 0], z.ex = NewExec
  PROVE  Data(p, mask, W, D, d, z)
<1>1. NodesData(p, mask, W, D, d, z)
  BY DEF NodesData, NodeData, Up
<1>2. ExceptionsOK(p, z)
  BY DEF ExceptionsOK, ExceptionOK
<1>3. z.ex.pc = "call" /\ z.ex.outcome = "none" /\ z.ex.reported = 0 /\ z.ex.collected = <<>>
  BY DEF NewExec
<1>4. OutcomeOK(p, z)
  BY <1>3 DEF OutcomeOK
<1>5. A(z, Executor) = 0
  BY DEF A, Edges
<1>6. Upper(W[Len(p)], 0) = 0
  <2>1. Len(W[Len(p)]) \in Nat /\ Pos(0) = 0
    BY PlanShape, MeansRows, PosStep
  <2>2. QED
    BY <2>1 DEF Upper
<1>7. IsPrefix(<<>>, W[Len(p)], 0)
  BY DEF IsPrefix
<1>8. ExecData(p, W, z)
  BY <1>3, <1>5, <1>6, <1>7 DEF ExecData, Complete
<1>9. QED
  BY <1>1, <1>2, <1>4, <1>8 DEF Data

LEMMA ResetsData ==
  ASSUME NEW p, NEW mask, NEW W, NEW D, NEW d, NEW z, NEW z2, Paced(p, d, z), Means(p, mask, W, D),
         Data(p, mask, W, D, d, z), TurnResets(p, z, z2)
  PROVE  Data(p, mask, W, D, d, z2)
<1>1. PICK S \in SUBSET DOMAIN p : ResetOf(p, z, z2, S)
  BY DEF TurnResets
<1>2. IsPlan(p) /\ Steady(p, d, z)
  BY DEF Paced, Steady, Ctl, Good, Good0
<1>3. ASSUME NEW x \in DOMAIN p PROVE ~ z2.nd[x].started /\ z2.nd[x].exception = "none"
  <2>1. (z.nd[x].started => x \in S) /\ ~ z2.nd[x].started
    BY <1>1, <1>2, <1>3, ResetUp
  <2>2. z.nd[x].exception # "none" => z.nd[x].started
    BY <1>3 DEF Data, ExceptionsOK, ExceptionOK, En
  <2>3. QED
    BY <1>1, <1>3, <2>1, <2>2 DEF ResetOf
<1>4. QED
  BY <1>2, <1>3, FirstData DEF TurnResets

LEMMA TurnData ==
  ASSUME NEW p, NEW mask, NEW W, NEW D, NEW d, NEW z, NEW z2, Paced(p, d, z), Means(p, mask, W, D),
         Data(p, mask, W, D, d, z), ExecTyped(z), Turn(p, mask, d, z, z2), z2.pc = z2.ex.pc
  PROVE  Data(p, mask, W, D, d, z2)
BY EndsData, SinksData, MovesData, ResumesData, EntersData, ReturnsData, CancelsData, StopsData, ChecksData,
   ResetsData DEF Turn

-----------------------------------------------------------------------------
(* The data of a plan that is read at one pace and whose operators get     *)
(* inputs with the same rows.                                              *)

Whole(p, mask, d, z) ==
  /\ Paced(p, d, z)
  /\ \E W, D : W = RowsOf(p, mask) /\ Means(p, mask, W, D) /\ Data(p, mask, W, D, d, z)
WholeInv == TypeInv /\ \E d, a, r : Whole(plan.nodes, plan.mask, d, Now(a, r))

LEMMA MeansAligned ==
  ASSUME NEW p, IsPlan(p), NEW mask, Aligned(p, mask), NEW W, W = RowsOf(p, mask)
  PROVE  \E D : Means(p, mask, W, D)
<1>1. RowsKnown(p, mask, W)
  BY RowsAligned
<1>2. PICK D : D = [n \in DOMAIN p |-> CHOOSE C : CountsOf(W[p[n].in[1]], W[n], mask, C)]
  OBVIOUS
<1>3. ASSUME NEW n \in DOMAIN p, p[n].op = "filter" PROVE CountsOf(W[p[n].in[1]], W[n], mask, D[n])
  <2>1. \E C : CountsOf(W[p[n].in[1]], W[n], mask, C)
    BY <1>1, <1>3 DEF RowsKnown
  <2>2. D[n] = CHOOSE C : CountsOf(W[p[n].in[1]], W[n], mask, C)
    BY <1>2
  <2>3. QED
    BY <2>1, <2>2
<1>4. QED
  BY <1>1, <1>3 DEF Means

LEMMA InitWhole ==
  ASSUME \A p \in Plans : SameRate(p) /\ \A mask \in SUBSET (1 .. NumRows) : Aligned(p, mask), Init
  PROVE  WholeInv
<1>1. PacedInv /\ TypeInv /\ exec = NewExec
  BY InitPaced DEF PacedInv, Init
<1>2. /\ plan.nodes \in Plans /\ IsPlan(plan.nodes) /\ Good0(plan.nodes, node, stack)
      /\ Aligned(plan.nodes, plan.mask)
  BY <1>1, TypeInvTyped DEF TypeInv, Good0
<1>3. PICK p, mask : p = plan.nodes /\ mask = plan.mask
  OBVIOUS
<1>4. \A x \in DOMAIN p : ~ node[x].started /\ node[x].exception = "none"
  BY <1>3 DEF Init, NewNode
<1>5. stack = <<>> /\ last = NoReturn
  BY DEF Init
<1>6. PICK d : IsDriver(p, d)
  BY <1>2, <1>3 DEF SameRate
<1>7. PICK a : a = [c \in Edges(p) |-> 0]
  OBVIOUS
<1>8. PICK z : z = Now(a, a)
  OBVIOUS
<1>9. z.nd = node /\ z.st = stack /\ z.a = a /\ z.r = a /\ z.pc = z.ex.pc /\ z.last = last /\ z.ex = exec
  BY <1>8, NowIs
<1>10. Steady(p, d, z)
  BY <1>2, <1>3, <1>4, <1>5, <1>6, <1>7, <1>9, FreshSteady
<1>11. 0 \notin DOMAIN p
  BY <1>2, <1>3, PlanShape
<1>12. z.last.node = 0
  BY <1>5, <1>9 DEF NoReturn
<1>13. Paced(p, d, z)
  BY <1>9, <1>10, <1>11, <1>12 DEF Paced, LastOK
<1>14. PICK W : W = RowsOf(p, mask)
  OBVIOUS
<1>15. PICK D : Means(p, mask, W, D)
  BY <1>2, <1>3, <1>14, MeansAligned
<1>16. Data(p, mask, W, D, d, z)
  BY <1>1, <1>2, <1>3, <1>4, <1>7, <1>9, <1>15, FirstData
<1>17. Whole(p, mask, d, z)
  BY <1>13, <1>14, <1>15, <1>16 DEF Whole
<1>18. QED
  BY <1>1, <1>3, <1>8, <1>17 DEF WholeInv

LEMMA NowTyped ==
  ASSUME TypeInv, NEW a, NEW r, NEW z, z = Now(a, r)
  PROVE  ExecTyped(z)
<1>1. z.ex = exec /\ z.st = stack
  BY NowIs
<1>2. QED
  BY <1>1 DEF TypeInv, ExecTyped

LEMMA NextWhole ==
  ASSUME WholeInv, [Next]_vars
  PROVE  WholeInv'
<1>1. TypeInv /\ TypeInv'
  BY NextKeepsType DEF WholeInv
<1>2. PICK d, a, r : Whole(plan.nodes, plan.mask, d, Now(a, r))
  BY DEF WholeInv
<1>3. CASE UNCHANGED vars
  <2>1. plan' = plan /\ Now(a, r)' = Now(a, r)
    BY <1>3 DEF vars, Now
  <2>2. QED
    BY <1>1, <1>2, <2>1 DEF WholeInv
<1>4. CASE Next
  <2>1. plan' = plan /\ \E a2, r2 : /\ Turn(plan.nodes, plan.mask, d, Now(a, r), After(a2, r2))
                                    /\ After(a2, r2).pc = After(a2, r2).ex.pc
    BY <1>1, <1>4, NextTurn DEF TurnNext
  <2>2. PICK a2, r2 : /\ Turn(plan.nodes, plan.mask, d, Now(a, r), After(a2, r2))
                      /\ After(a2, r2).pc = After(a2, r2).ex.pc
    BY <2>1
  <2>3. PICK p, mask, z, z2 : p = plan.nodes /\ mask = plan.mask /\ z = Now(a, r) /\ z2 = After(a2, r2)
    OBVIOUS
  <2>4. Paced(p, d, z) /\ Turn(p, mask, d, z, z2) /\ z2.pc = z2.ex.pc
    BY <1>2, <2>2, <2>3 DEF Whole
  <2>5. PICK W, D : W = RowsOf(p, mask) /\ Means(p, mask, W, D) /\ Data(p, mask, W, D, d, z)
    BY <1>2, <2>3 DEF Whole
  <2>6. Paced(p, d, z2)
    BY <2>4, TurnPaced
  <2>7. ExecTyped(z)
    BY <1>1, <2>3, NowTyped
  <2>8. Data(p, mask, W, D, d, z2)
    BY <2>4, <2>5, <2>7, TurnData
  <2>9. Whole(p, mask, d, z2)
    BY <2>5, <2>6, <2>8 DEF Whole
  <2>10. Now(a2, r2)' = After(a2, r2)
    BY DEF Now, After
  <2>11. Whole(plan.nodes, plan.mask, d, After(a2, r2))
    BY <2>3, <2>9
  <2>12. QED
    BY <1>1, <2>1, <2>10, <2>11 DEF WholeInv
<1>5. QED
  BY <1>3, <1>4

\* Rows that are a prefix.
LEMMA PrefixIs ==
  ASSUME NEW w \in Seq(1 .. NumRows), NEW u \in 0 .. Len(w), NEW s \in Seq(0 .. NumRows), IsPrefix(s, w, u)
  PROVE  Len(s) = u /\ s = SubSeq(w, 1, u) /\ (u = Len(w) => s = w)
<1>1. Len(s) = u /\ \A j \in 1 .. u : s[j] = w[j]
  BY DEF IsPrefix
<1>2. Len(w) \in Nat /\ u \in Int /\ 1 \in Int /\ u \in Nat
  OBVIOUS
<1>3. w \in Seq(0 .. NumRows) /\ \A i \in 1 .. u : w[i] \in 0 .. NumRows
  <2>1. \A i \in 1 .. Len(w) : w[i] \in 1 .. NumRows
    BY ElementOfSeq
  <2>2. \A i \in 1 .. Len(w) : w[i] \in 0 .. NumRows
    BY <2>1, ConstantTypes
  <2>3. 1 .. NumRows \subseteq 0 .. NumRows
    BY ConstantTypes
  <2>4. w \in Seq(0 .. NumRows)
    BY <2>3, SeqMonotonic
  <2>5. \A i \in 1 .. u : i \in 1 .. Len(w)
    BY <1>2
  <2>6. QED
    BY <2>2, <2>4, <2>5
<1>4. PICK t : t = SubSeq(w, 1, u)
  OBVIOUS
<1>5. /\ t \in Seq(0 .. NumRows) /\ Len(t) = (IF 1 <= u THEN u - 1 + 1 ELSE 0)
      /\ \A i \in 1 .. (u - 1 + 1) : t[i] = w[1 + i - 1]
  BY <1>2, <1>3, <1>4, SubSeqProperties
<1>6. Len(t) = u /\ \A i \in 1 .. u : t[i] = w[i]
  BY <1>2, <1>5
<1>7. s = t
  BY <1>1, <1>5, <1>6, SeqEqual
<1>8. u = Len(w) => s = w
  BY <1>1, <1>3, SeqEqual
<1>9. QED
  BY <1>1, <1>4, <1>7, <1>8

\* The executor, if nothing has failed.
LEMMA WholeOutput ==
  ASSUME NEW p, NEW mask, NEW d, NEW z, Whole(p, mask, d, z), ExecTyped(z), NEW w, w = RowsOf(p, mask)[Len(p)],
         \A n \in DOMAIN p : z.nd[n].exception = "none"
  PROVE  /\ Len(z.ex.collected) <= Len(w)
         /\ z.ex.collected = SubSeq(w, 1, Len(z.ex.collected))
         /\ Complete(z) /\ ~ z.ex.stopped => z.ex.collected = w
<1>1. IsPlan(p) /\ Ctl(p, d, z)
  BY DEF Whole, Paced, Steady, Ctl, Good, Good0
<1>2. Len(p) \in DOMAIN p
  BY <1>1, PlanShape
<1>3. PICK W, D : W = RowsOf(p, mask) /\ Means(p, mask, W, D) /\ Data(p, mask, W, D, d, z)
  BY DEF Whole
<1>4. Clean(p, z, Len(p))
  <2>1. Closed(p, z, DOMAIN p)
    BY <1>1, PlanArity DEF Closed
  <2>2. QED
    BY <1>2, <2>1 DEF Clean
<1>5. w = W[Len(p)] /\ w \in Seq(1 .. NumRows) /\ Len(w) \in Nat
  BY <1>2, <1>3, MeansRows
<1>6. PICK k : k = A(z, Executor)
  OBVIOUS
<1>7. k \in Nat
  BY <1>1, <1>6, AllKnown DEF KnownEdge, EdgeViewOK
<1>8. PICK u : u = Upper(w, k)
  OBVIOUS
<1>9. u \in 0 .. Len(w)
  BY <1>5, <1>7, <1>8, UpperIs
<1>10. PICK s : s = z.ex.collected
  OBVIOUS
<1>11. s \in Seq(0 .. NumRows)
  BY <1>10 DEF ExecTyped
<1>12. /\ IsPrefix(s, w, u)
       /\ Complete(z) /\ ~ z.ex.stopped => Len(s) = Len(w)
  BY <1>3, <1>4, <1>5, <1>6, <1>8, <1>10 DEF Data, ExecData
<1>13. Len(s) = u /\ s = SubSeq(w, 1, u) /\ (u = Len(w) => s = w)
  BY <1>5, <1>9, <1>11, <1>12, PrefixIs
<1>14. QED
  BY <1>5, <1>9, <1>10, <1>12, <1>13

LEMMA WholeImplies ==
  ASSUME WholeInv
  PROVE  OutputIsRight /\ NoSilentTruncation /\ RootCauseIsReported
<1>1. TypeInv
  BY DEF WholeInv
<1>2. PICK d, a, r : Whole(plan.nodes, plan.mask, d, Now(a, r))
  BY DEF WholeInv
<1>3. PICK z, p, mask : z = Now(a, r) /\ p = plan.nodes /\ mask = plan.mask
  OBVIOUS
<1>4. z.nd = node /\ z.ex = exec /\ z.go = (~ env.canceled)
  BY <1>3, NowIs
<1>5. ExecTyped(z) /\ Whole(p, mask, d, z)
  BY <1>1, <1>2, <1>3, NowTyped
<1>6. PICK w : w = Meaning
  OBVIOUS
<1>7. w = RowsOf(p, mask)[Len(p)]
  BY <1>3, <1>6 DEF Meaning, Tip
<1>8. OutcomeOK(p, z)
  BY <1>5 DEF Whole, Data
<1>9. (\A n \in DOMAIN p : z.nd[n].exception = "none") =>
        /\ Len(exec.collected) <= Len(w)
        /\ exec.collected = SubSeq(w, 1, Len(exec.collected))
        /\ Complete(z) /\ ~ exec.stopped => exec.collected = w
  BY <1>4, <1>5, <1>7, WholeOutput
<1>10. OutputIsRight
  BY <1>3, <1>4, <1>6, <1>9 DEF OutputIsRight, Nodes
<1>11. NoSilentTruncation
  <2>1. SUFFICES ASSUME exec.outcome = "ok", ~ exec.stopped PROVE exec.collected = w
    BY <1>6 DEF NoSilentTruncation
  <2>2. \A n \in DOMAIN p : z.nd[n].exception = "none"
    BY <1>4, <1>8, <2>1 DEF OutcomeOK
  <2>3. Complete(z)
    BY <1>4, <2>1 DEF Complete
  <2>4. QED
    BY <1>9, <2>1, <2>2, <2>3
<1>12. RootCauseIsReported
  BY <1>4, <1>8 DEF OutcomeOK, RootCauseIsReported
<1>13. QED
  BY <1>10, <1>11, <1>12

\* If whoever reads a node reads it at one pace, and inputs that are read
\* together have the same rows, then what generate_to_callback_function() has
\* passed to its callback is at any time, block by block, the beginning of the
\* rows that the plan means: whatever is skipped, shared, emitted in smaller
\* blocks or read again after a reset.
THEOREM OutputCorrect ==
  ASSUME \A p \in Plans : SameRate(p) /\ \A mask \in SUBSET (1 .. NumRows) : Aligned(p, mask)
  PROVE  Spec => []OutputIsRight
<1>1. Init => WholeInv
  BY InitWhole
<1>2. WholeInv /\ [Next]_vars => WholeInv'
  BY NextWhole
<1>3. WholeInv => OutputIsRight
  BY WholeImplies
<1>4. QED
  BY <1>1, <1>2, <1>3, PTL DEF Spec

\* For such plans it returns normally only with all the rows, unless the callback
\* has stopped it: the nullptr with which a node that failed or was canceled ends
\* is never taken for the end of the data.
THEOREM TruncationCorrect ==
  ASSUME \A p \in Plans : SameRate(p) /\ \A mask \in SUBSET (1 .. NumRows) : Aligned(p, mask)
  PROVE  Spec => []NoSilentTruncation
<1>1. Init => WholeInv
  BY InitWhole
<1>2. WholeInv /\ [Next]_vars => WholeInv'
  BY NextWhole
<1>3. WholeInv => NoSilentTruncation
  BY WholeImplies
<1>4. QED
  BY <1>1, <1>2, <1>3, PTL DEF Spec

\* And what find_earliest_exception() rethrows is a failure or the cancellation,
\* never an assertion that failed because of one: an operator whose inputs have
\* not failed gets blocks of the same length that end together.
THEOREM RootCauseCorrect ==
  ASSUME \A p \in Plans : SameRate(p) /\ \A mask \in SUBSET (1 .. NumRows) : Aligned(p, mask)
  PROVE  Spec => []RootCauseIsReported
<1>1. Init => WholeInv
  BY InitWhole
<1>2. WholeInv /\ [Next]_vars => WholeInv'
  BY NextWhole
<1>3. WholeInv => RootCauseIsReported
  BY WholeImplies
<1>4. QED
  BY <1>1, <1>2, <1>3, PTL DEF Spec
=============================================================================
