------------------------- MODULE ExactPercentageProofs -------------------------
(***************************************************************************)
(* The interval arithmetic of the percentage calculation is sound: an      *)
(* interval that is calculated contains what it is calculated of, whatever *)
(* the ends are, open or closed.  Products are whole numbers of parts, as  *)
(* the choice of Hundred makes them (ExactPercentage).  At the beginning   *)
(* there are the lemmas that recursive definitions are reasoned about with *)
(* here and in OwnershipGraphProofs.                                       *)
(***************************************************************************)
EXTENDS ExactPercentage, FiniteSetsExt, FiniteSetTheorems, TLAPS

------------------------------------------------------------------------------
(* Induction and recursion, stated with sets.                              *)

\* What holds of 0 and of every successor holds of every number.
LEMMA Counting ==
  ASSUME NEW S, 0 \in S, \A n \in Nat : n \in S => n + 1 \in S
  PROVE  \A n \in Nat : n \in S
<1> DEFINE M == {n \in Nat : n \notin S}
<1> SUFFICES ASSUME M # {} PROVE FALSE
  OBVIOUS
<1>1. PICK n \in M : \A m \in M : ~ (<<m, n>> \in OpToRel(<, Nat))
  BY WFMin, NatLessThanWellFounded
<1>2. n \in Nat /\ n # 0  OBVIOUS
<1>3. n - 1 \in Nat /\ n - 1 < n /\ (n - 1) + 1 = n  BY <1>2
<1>4. n - 1 \notin M  BY <1>1, <1>3 DEF OpToRel
<1> QED  BY <1>1, <1>3, <1>4

\* A process that is given by its first state and its steps exists.
LEMMA Iterates ==
  ASSUME NEW V, NEW base \in V, NEW step \in [V -> V]
  PROVE  \E f \in [Nat -> V] : f[0] = base /\ \A n \in Nat : f[n + 1] = step[f[n]]
<1> DEFINE Upto(n, f) == /\ f \in [0..n -> V] /\ f[0] = base
                         /\ \A m \in Nat : m + 1 \in 0..n => f[m + 1] = step[f[m]]
<1>1. \A n \in Nat : \E f : Upto(n, f)
  <2> DEFINE S == {n \in Nat : \E f : Upto(n, f)}
  <2>1. 0 \in S
    <3> DEFINE g == [m \in 0..0 |-> base]
    <3>1. Upto(0, g)
      <4>1. g \in [0..0 -> V] /\ g[0] = base  OBVIOUS
      <4>2. \A m \in Nat : m + 1 \notin 0..0  OBVIOUS
      <4> QED  BY <4>1, <4>2
    <3> QED  BY <3>1
  <2>2. ASSUME NEW n \in Nat, n \in S PROVE n + 1 \in S
    <3>1. PICK f : Upto(n, f)  BY <2>2
    <3> DEFINE g == [m \in 0..(n + 1) |-> IF m = n + 1 THEN step[f[n]] ELSE f[m]]
    <3>2. \A m \in 0..n : f[m] \in V /\ step[f[m]] \in V  BY <3>1
    <3>3. g \in [0..(n + 1) -> V]
      <4>1. ASSUME NEW m \in 0..(n + 1) PROVE g[m] \in V
        <5>1. CASE m = n + 1  BY <5>1, <3>2
        <5>2. CASE m # n + 1
          <6>1. m \in 0..n  BY <5>2
          <6> QED  BY <5>2, <6>1, <3>2
        <5> QED  BY <5>1, <5>2
      <4> QED  BY <4>1
    <3>4. g[0] = base  BY <3>1
    <3>5. ASSUME NEW m \in Nat, m + 1 \in 0..(n + 1) PROVE g[m + 1] = step[g[m]]
      <4>1. m \in 0..n /\ m # n + 1  BY <3>5
      <4>2. g[m] = f[m]  BY <4>1
      <4>3. CASE m = n  BY <4>2, <4>3
      <4>4. CASE m # n
        <5>1. m + 1 \in 0..n  BY <4>1, <4>4
        <5>2. m + 1 # n + 1  BY <4>1, <4>4
        <5>3. g[m + 1] = f[m + 1]  BY <5>1, <5>2
        <5> QED  BY <5>1, <5>3, <4>2, <3>1
      <4> QED  BY <4>3, <4>4
    <3>6. Upto(n + 1, g)  BY <3>3, <3>4, <3>5
    <3> HIDE DEF Upto, g
    <3> QED  BY <3>6
  <2> HIDE DEF S
  <2>3. \A n \in Nat : n \in S  BY <2>1, <2>2, Counting
  <2> QED  BY <2>3 DEF S
<1>2. ASSUME NEW n \in Nat, NEW m \in Nat, NEW f, NEW g, Upto(n, f), Upto(m, g)
      PROVE  \A k \in Nat : k <= n /\ k <= m => f[k] = g[k]
  <2> DEFINE S == {k \in Nat : k <= n /\ k <= m => f[k] = g[k]}
  <2>1. 0 \in S  BY <1>2
  <2>2. ASSUME NEW k \in Nat, k \in S PROVE k + 1 \in S
    <3> SUFFICES ASSUME k + 1 <= n, k + 1 <= m PROVE f[k + 1] = g[k + 1]
      OBVIOUS
    <3>1. f[k] = g[k]  BY <2>2
    <3>2. k + 1 \in 0..n /\ k + 1 \in 0..m  OBVIOUS
    <3>3. f[k + 1] = step[f[k]]  BY <1>2, <3>2
    <3>4. g[k + 1] = step[g[k]]  BY <1>2, <3>2
    <3> QED  BY <3>1, <3>3, <3>4
  <2> HIDE DEF S
  <2>3. \A k \in Nat : k \in S  BY <2>1, <2>2, Counting
  <2> QED  BY <2>3 DEF S
<1> DEFINE some(n) == CHOOSE f : Upto(n, f)
           h == [n \in Nat |-> some(n)[n]]
<1>3. \A n \in Nat : Upto(n, some(n))  BY <1>1
<1>4. ASSUME NEW n \in Nat PROVE some(n)[n] \in V
  <2>1. n \in 0..n  OBVIOUS
  <2> HIDE DEF some
  <2> QED  BY <1>3, <2>1
<1>5. ASSUME NEW n \in Nat PROVE some(n + 1)[n + 1] = step[some(n)[n]]
  <2> HIDE DEF some, Upto
  <2>2. n + 1 \in Nat /\ n + 1 \in 0..(n + 1) /\ n <= n + 1 /\ n <= n  OBVIOUS
  <2>1. Upto(n + 1, some(n + 1)) /\ Upto(n, some(n))  BY <1>3, <2>2
  <2>3. some(n + 1)[n + 1] = step[some(n + 1)[n]]  BY <2>1, <2>2 DEF Upto
  <2>4. some(n + 1)[n] = some(n)[n]  BY <1>2, <2>1, <2>2
  <2> QED  BY <2>3, <2>4
<1>6. some(0)[0] = base  BY <1>3
<1> HIDE DEF some
<1>7. h \in [Nat -> V]  BY <1>4
<1>8. h[0] = base /\ \A n \in Nat : h[n + 1] = step[h[n]]  BY <1>5, <1>6
<1> QED  BY <1>7, <1>8

\* What holds of the empty set, and of a set if it holds of the set without
\* any one of its elements, holds of every subset of a finite set.
LEMMA Removing ==
  ASSUME NEW S, IsFiniteSet(S), NEW Q, {} \in Q,
         \A T \in SUBSET S : T # {} /\ (\A x \in T : T \ {x} \in Q) => T \in Q
  PROVE  \A T \in SUBSET S : T \in Q
<1> DEFINE N == {n \in Nat : \A T \in SUBSET S : Cardinality(T) = n => T \in Q}
<1>1. \A T \in SUBSET S : IsFiniteSet(T) /\ Cardinality(T) \in Nat
  BY FS_Subset, FS_CardinalityType
<1>2. 0 \in N  BY <1>1, FS_EmptySet
<1>3. ASSUME NEW n \in Nat, n \in N PROVE n + 1 \in N
  <2> SUFFICES ASSUME NEW T \in SUBSET S, Cardinality(T) = n + 1 PROVE T \in Q
    OBVIOUS
  <2>1. T # {}  BY FS_EmptySet
  <2>2. ASSUME NEW x \in T PROVE T \ {x} \in Q
    <3>1. Cardinality(T \ {x}) = n  BY <1>1, FS_RemoveElement
    <3>2. T \ {x} \in SUBSET S  OBVIOUS
    <3> QED  BY <3>1, <3>2, <1>3
  <2> QED  BY <2>1, <2>2
<1> HIDE DEF N
<1>4. \A n \in Nat : n \in N  BY <1>2, <1>3, Counting
<1> QED  BY <1>1, <1>4 DEF N
------------------------------------------------------------------------------
(* Folds over finite sets.                                                 *)

One(T) == CHOOSE p \in T : TRUE

\* What a fold over K calculates, for every subset of K.
Unfolds(g, K, base, add, val) ==
  /\ g[{}] = base
  /\ \A T \in SUBSET K : T # {} => g[T] = add[val[One(T)]][g[T \ {One(T)}]]

\* What sums has for every subset of K is calculated by some such fold.
FoldsAll(sums, K, D, zero, plus, of) ==
  \A L \in SUBSET K : \E g \in [SUBSET L -> D] :
    Unfolds(g, L, zero, plus, of) /\ sums[L] = g[L]

Commutes(D, plus) ==
  /\ plus \in [D -> [D -> D]]
  /\ \A x, y, z \in D : plus[x][plus[y][z]] = plus[y][plus[x][z]]

\* What follows from that about the whole.
Summed(sums, K, D, zero, plus, of) ==
  /\ sums[{}] = zero
  /\ \A T \in SUBSET K : sums[T] \in D
  /\ \A T \in SUBSET K : \A p \in T : sums[T] = plus[of[p]][sums[T \ {p}]]

\* The recursion of a fold has a solution.
LEMMA FoldExists ==
  ASSUME NEW K, IsFiniteSet(K), NEW D, NEW zero, zero \in D,
         NEW plus, plus \in [D -> [D -> D]], NEW of, of \in [K -> D]
  PROVE  \E g \in [SUBSET K -> D] : Unfolds(g, K, zero, plus, of)
<1> DEFINE W == [SUBSET K -> D]
           next(g) == [T \in SUBSET K |-> IF T = {} THEN zero
                                         ELSE plus[of[One(T)]][g[T \ {One(T)}]]]
           step == [g \in W |-> next(g)]
           first == [T \in SUBSET K |-> zero]
<1>1. \A T \in SUBSET K : T # {} => One(T) \in T /\ T \ {One(T)} \in SUBSET K
  BY DEF One
<1>2. ASSUME NEW g \in W PROVE next(g) \in W
  <2>1. ASSUME NEW T \in SUBSET K PROVE next(g)[T] \in D
    <3>1. CASE T = {}  BY <3>1
    <3>2. CASE T # {}
      <4>1. of[One(T)] \in D /\ g[T \ {One(T)}] \in D  BY <1>1, <3>2
      <4> QED  BY <3>2, <4>1
    <3> QED  BY <3>1, <3>2
  <2> QED  BY <2>1
<1>3. first \in W  OBVIOUS
<1> HIDE DEF next, first, W
<1>4. step \in [W -> W]  BY <1>2
<1>5. PICK f \in [Nat -> W] : f[0] = first /\ \A n \in Nat : f[n + 1] = step[f[n]]
  <2> HIDE DEF step
  <2> QED  BY ONLY <1>3, <1>4, Iterates
<1>6. \A n \in Nat : f[n] \in W /\ f[n + 1] = next(f[n])  BY <1>5
<1>7. \A T \in SUBSET K : IsFiniteSet(T) /\ Cardinality(T) \in Nat
  BY FS_Subset, FS_CardinalityType
<1> DEFINE N == {n \in Nat : \A T \in SUBSET K : Cardinality(T) <= n => f[n + 1][T] = f[n][T]}
<1>8. 0 \in N
  <2> SUFFICES ASSUME NEW T \in SUBSET K, Cardinality(T) <= 0 PROVE f[0 + 1][T] = f[0][T]
    OBVIOUS
  <2>1. T = {}  BY <1>7, FS_EmptySet
  <2>2. f[0 + 1][T] = zero  BY <2>1, <1>6 DEF next
  <2>3. f[0][T] = zero  BY <1>5 DEF first
  <2> QED  BY <2>2, <2>3
<1>9. ASSUME NEW n \in Nat, n \in N PROVE n + 1 \in N
  <2> SUFFICES ASSUME NEW T \in SUBSET K, Cardinality(T) <= n + 1
               PROVE  f[(n + 1) + 1][T] = f[n + 1][T]
    OBVIOUS
  <2>1. f[(n + 1) + 1][T] = next(f[n + 1])[T] /\ f[n + 1][T] = next(f[n])[T]  BY <1>6
  <2>2. CASE T = {}  BY <2>1, <2>2 DEF next
  <2>3. CASE T # {}
    <3> DEFINE U == T \ {One(T)}
    <3>1. U \in SUBSET K /\ One(T) \in T  BY <1>1, <2>3
    <3>2. Cardinality(U) = Cardinality(T) - 1  BY <1>7, <3>1, FS_RemoveElement
    <3>3. Cardinality(U) <= n  BY <1>7, <3>1, <3>2
    <3>4. f[n + 1][U] = f[n][U]  BY <1>9, <3>1, <3>3
    <3> QED  BY <2>1, <2>3, <3>4 DEF next
  <2> QED  BY <2>2, <2>3
<1>10. \A n \in Nat : n \in N
  <2> HIDE DEF N
  <2> QED  BY <1>8, <1>9, Counting
<1> DEFINE c == Cardinality(K)
<1>11. c \in Nat /\ \A T \in SUBSET K : Cardinality(T) <= c  BY FS_Subset, FS_CardinalityType
<1>12. \A T \in SUBSET K : next(f[c])[T] = f[c][T]  BY <1>6, <1>10, <1>11
<1>13. f[c] \in W  BY <1>6, <1>11
<1> HIDE DEF c
<1>14. Unfolds(f[c], K, zero, plus, of)
  <2>1. f[c][{}] = zero
    <3>1. {} \in SUBSET K  OBVIOUS
    <3> QED  BY <1>12, <3>1 DEF next
  <2>2. ASSUME NEW T \in SUBSET K, T # {}
        PROVE  f[c][T] = plus[of[One(T)]][f[c][T \ {One(T)}]]
    BY <1>12, <2>2 DEF next
  <2> QED  BY <2>1, <2>2 DEF Unfolds
<1> QED  BY <1>13, <1>14 DEF W

\* The result does not depend on the order of the elements.
LEMMA FoldRules ==
  ASSUME NEW K, IsFiniteSet(K), NEW D, NEW zero, zero \in D, NEW plus, Commutes(D, plus),
         NEW of, of \in [K -> D], NEW sums, FoldsAll(sums, K, D, zero, plus, of)
  PROVE  Summed(sums, K, D, zero, plus, of)
<1>a. /\ plus \in [D -> [D -> D]]
      /\ \A x, y, z \in D : plus[x][plus[y][z]] = plus[y][plus[x][z]]
  BY DEF Commutes
<1>b. \A L \in SUBSET K : \E g \in [SUBSET L -> D] :
        Unfolds(g, L, zero, plus, of) /\ sums[L] = g[L]
  BY DEF FoldsAll
<1>1. PICK g \in [SUBSET K -> D] : Unfolds(g, K, zero, plus, of)  BY <1>b
<1>2. \A T \in SUBSET K : \A p \in T : g[T] = plus[of[p]][g[T \ {p}]]
  <2> DEFINE Q == {T \in SUBSET K : \A p \in T : g[T] = plus[of[p]][g[T \ {p}]]}
  <2>1. {} \in Q  OBVIOUS
  <2>2. ASSUME NEW T \in SUBSET K, T # {}, \A x \in T : T \ {x} \in Q PROVE T \in Q
    <3> DEFINE o == One(T)
    <3>1. o \in T  BY <2>2 DEF One
    <3>2. g[T] = plus[of[o]][g[T \ {o}]]  BY <1>1, <2>2 DEF Unfolds
    <3> HIDE DEF o
    <3>3. ASSUME NEW p \in T PROVE g[T] = plus[of[p]][g[T \ {p}]]
      <4>1. CASE p = o  BY <3>2, <4>1
      <4>2. CASE p # o
        <5> DEFINE U == (T \ {o}) \ {p}
        <5>1. U = (T \ {p}) \ {o} /\ U \in SUBSET K  OBVIOUS
        <5>2. g[T \ {o}] = plus[of[p]][g[U]]
          <6>1. T \ {o} \in Q /\ p \in T \ {o}  BY <2>2, <3>1, <4>2
          <6> QED  BY <6>1
        <5>3. g[T \ {p}] = plus[of[o]][g[U]]
          <6>1. T \ {p} \in Q /\ o \in T \ {p}  BY <2>2, <3>1, <4>2
          <6> HIDE DEF U
          <6> QED  BY <5>1, <6>1
        <5> HIDE DEF U
        <5>4. g[U] \in D /\ of[p] \in D /\ of[o] \in D  BY <3>1, <5>1
        <5>5. ASSUME NEW x \in D, NEW y \in D, NEW z \in D
              PROVE  plus[x][plus[y][z]] = plus[y][plus[x][z]]
          BY <1>a
        <5>6. plus[of[o]][plus[of[p]][g[U]]] = plus[of[p]][plus[of[o]][g[U]]]
          BY ONLY <5>4, <5>5
        <5> QED  BY <3>2, <5>2, <5>3, <5>6
      <4> QED  BY <4>1, <4>2
    <3> QED  BY <3>3
  <2> HIDE DEF Q
  <2>3. \A T \in SUBSET K : T \in Q  BY <2>1, <2>2, Removing
  <2> QED  BY <2>3 DEF Q
<1>3. ASSUME NEW L \in SUBSET K PROVE sums[L] = g[L]
  <2>1. IsFiniteSet(L)  BY FS_Subset
  <2>2. PICK h \in [SUBSET L -> D] : Unfolds(h, L, zero, plus, of) /\ sums[L] = h[L]
    BY <1>b
  <2> DEFINE Q == {T \in SUBSET L : h[T] = g[T]}
  <2>3. {} \in Q  BY <1>1, <2>2 DEF Unfolds
  <2>4. ASSUME NEW T \in SUBSET L, T # {}, \A x \in T : T \ {x} \in Q PROVE T \in Q
    <3>1. One(T) \in T  BY <2>4 DEF One
    <3>2. h[T] = plus[of[One(T)]][h[T \ {One(T)}]]  BY <2>2, <2>4 DEF Unfolds
    <3>3. g[T] = plus[of[One(T)]][g[T \ {One(T)}]]  BY <1>1, <2>4 DEF Unfolds
    <3> QED  BY <2>4, <3>1, <3>2, <3>3
  <2> HIDE DEF Q
  <2>5. \A T \in SUBSET L : T \in Q  BY <2>1, <2>3, <2>4, Removing
  <2> QED  BY <2>2, <2>5 DEF Q
<1>4. g[{}] = zero  BY <1>1 DEF Unfolds
<1>5. ASSUME NEW T \in SUBSET K, NEW p \in T PROVE sums[T] = plus[of[p]][sums[T \ {p}]]
  <2>1. T \ {p} \in SUBSET K  OBVIOUS
  <2>2. sums[T \ {p}] = g[T \ {p}]  BY <1>3, <2>1
  <2>3. sums[T] = g[T] /\ g[T] = plus[of[p]][g[T \ {p}]]  BY <1>2, <1>3
  <2> QED  BY ONLY <2>2, <2>3
<1> QED  BY <1>3, <1>4, <1>5 DEF Summed

\* The sum of numbers over a set (SumFunctionOnSet), taken apart.
LEMMA Adds ==
  ASSUME NEW K, IsFiniteSet(K), NEW f, \A x \in K : f[x] \in Nat
  PROVE  /\ SumFunctionOnSet(f, {}) = 0
         /\ \A T \in SUBSET K : SumFunctionOnSet(f, T) \in Nat
         /\ \A T \in SUBSET K : \A p \in T :
              SumFunctionOnSet(f, T) = f[p] + SumFunctionOnSet(f, T \ {p})
<1> DEFINE add == [x \in Nat |-> [y \in Nat |-> x + y]]
           val == [x \in K |-> f[x]]
           total == [L \in SUBSET K |-> SumFunctionOnSet(f, L)]
<1>1. add \in [Nat -> [Nat -> Nat]] /\ val \in [K -> Nat] /\ 0 \in Nat
      /\ \A x, y, z \in Nat : add[x][add[y][z]] = add[y][add[x][z]]
  OBVIOUS
<1>2. ASSUME NEW L \in SUBSET K
      PROVE  \E g \in [SUBSET L -> Nat] : Unfolds(g, L, 0, add, val) /\ total[L] = g[L]
  <2> DEFINE next(g) == [s \in SUBSET L |-> IF s = {} THEN 0
                                            ELSE f[One(s)] + g[s \ {One(s)}]]
             g == CHOOSE g : g = next(g)
             lval == [x \in L |-> f[x]]
  <2>1. IsFiniteSet(L) /\ lval \in [L -> Nat]  BY FS_Subset
  <2>2. PICK h \in [SUBSET L -> Nat] : Unfolds(h, L, 0, add, lval)
    <3> HIDE DEF add, lval
    <3> QED  BY <1>1, <2>1, FoldExists
  <2>3. h = next(h)
    <3>1. ASSUME NEW s \in SUBSET L PROVE h[s] = next(h)[s]
      <4>1. CASE s = {}  BY <2>2, <4>1 DEF Unfolds
      <4>2. CASE s # {}
        <5>1. One(s) \in s /\ s \ {One(s)} \in SUBSET L  BY <4>2 DEF One
        <5>2. h[s] = add[lval[One(s)]][h[s \ {One(s)}]]  BY <2>2, <4>2 DEF Unfolds
        <5>3. lval[One(s)] = f[One(s)] /\ f[One(s)] \in Nat /\ h[s \ {One(s)}] \in Nat
          BY <5>1
        <5>4. h[s] = f[One(s)] + h[s \ {One(s)}]  BY <5>2, <5>3
        <5> QED  BY <4>2, <5>4
      <4> QED  BY <4>1, <4>2
    <3> QED  BY <3>1
  <2>4. g = next(g)
    <3> HIDE DEF next
    <3> QED  BY <2>3
  <2>5. total[L] = g[L]
    BY DEF SumFunctionOnSet, FoldFunctionOnSet, MapThenFoldSet, One
  <2> HIDE DEF g, total
  <2>6. g[{}] = 0  BY <2>4
  <2>7. ASSUME NEW s \in SUBSET L, s # {} PROVE g[s] = f[One(s)] + g[s \ {One(s)}]
    BY <2>4, <2>7
  <2>8. \A s \in SUBSET L : g[s] \in Nat
    <3> DEFINE Q == {s \in SUBSET L : g[s] \in Nat}
    <3>1. {} \in Q  BY <2>6
    <3>2. ASSUME NEW s \in SUBSET L, s # {}, \A x \in s : s \ {x} \in Q PROVE s \in Q
      <4>1. One(s) \in s  BY <3>2 DEF One
      <4>2. f[One(s)] \in Nat /\ g[s \ {One(s)}] \in Nat  BY <3>2, <4>1
      <4> QED  BY <2>7, <3>2, <4>2
    <3> HIDE DEF Q
    <3>3. \A s \in SUBSET L : s \in Q  BY <2>1, <3>1, <3>2, Removing
    <3> QED  BY <3>3 DEF Q
  <2>9. g \in [SUBSET L -> Nat]
    <3>1. g = [s \in SUBSET L |-> g[s]]  BY <2>4
    <3> QED  BY <2>8, <3>1
  <2>10. Unfolds(g, L, 0, add, val)
    <3>1. ASSUME NEW s \in SUBSET L, s # {}
          PROVE  g[s] = add[val[One(s)]][g[s \ {One(s)}]]
      <4>1. One(s) \in s /\ s \ {One(s)} \in SUBSET L  BY <3>1 DEF One
      <4>2. val[One(s)] = f[One(s)] /\ f[One(s)] \in Nat /\ g[s \ {One(s)}] \in Nat
        BY <2>8, <4>1
      <4> QED  BY <2>7, <3>1, <4>2
    <3> QED  BY <2>6, <3>1 DEF Unfolds
  <2> QED  BY <2>5, <2>9, <2>10
<1>3. \A T \in SUBSET K : total[T] = SumFunctionOnSet(f, T)  OBVIOUS
<1>4. \A T \in SUBSET K : \A p \in T : val[p] = f[p] /\ f[p] \in Nat  OBVIOUS
<1>5. \A x, y \in Nat : add[x][y] = x + y  OBVIOUS
<1> HIDE DEF add, val, total
<1>6. /\ total[{}] = 0
      /\ \A T \in SUBSET K : total[T] \in Nat
      /\ \A T \in SUBSET K : \A p \in T : total[T] = add[val[p]][total[T \ {p}]]
  <2>1. IsFiniteSet(K) /\ val \in [K -> Nat] /\ 0 \in Nat  BY <1>1
  <2>2. Commutes(Nat, add)  BY <1>1 DEF Commutes
  <2>3. FoldsAll(total, K, Nat, 0, add, val)  BY <1>2 DEF FoldsAll
  <2>4. Summed(total, K, Nat, 0, add, val)  BY ONLY <2>1, <2>2, <2>3, FoldRules
  <2> QED  BY <2>4 DEF Summed
<1>7. ASSUME NEW T \in SUBSET K, NEW p \in T
      PROVE  SumFunctionOnSet(f, T) = f[p] + SumFunctionOnSet(f, T \ {p})
  <2>1. T \ {p} \in SUBSET K  OBVIOUS
  <2>2. total[T] = add[val[p]][total[T \ {p}]] /\ total[T \ {p}] \in Nat  BY <1>6, <2>1
  <2>3. val[p] = f[p] /\ val[p] \in Nat  BY <1>4
  <2>4. total[T] = f[p] + total[T \ {p}]  BY ONLY <1>5, <2>2, <2>3
  <2> QED  BY <1>3, <2>1, <2>4
<1>8. {} \in SUBSET K  OBVIOUS
<1> QED  BY <1>3, <1>6, <1>7, <1>8

------------------------------------------------------------------------------
(* Sums of numbers over finite sets.                                       *)

Numbers(f, S) == IsFiniteSet(S) /\ \A x \in S : f[x] \in Nat

\* How a sum over a subset of S is taken apart.
Additive(f, S) ==
  /\ SumFunctionOnSet(f, {}) = 0
  /\ \A T \in SUBSET S : SumFunctionOnSet(f, T) \in Nat
  /\ \A T \in SUBSET S : \A p \in T :
       SumFunctionOnSet(f, T) = f[p] + SumFunctionOnSet(f, T \ {p})

LEMMA Sums ==
  ASSUME NEW S, NEW f, Numbers(f, S)
  PROVE  Additive(f, S)
<1>1. IsFiniteSet(S) /\ \A x \in S : f[x] \in Nat  BY DEF Numbers
<1> QED  BY ONLY <1>1, Adds DEF Additive

LEMMA Distribute ==
  ASSUME NEW a \in Nat, NEW b \in Nat, NEW c \in Nat
  PROVE  a * (b + c) = a * b + a * c /\ a * b \in Nat
OBVIOUS

\* Sums are compared by their summands, whatever they are scaled by.
LEMMA SumCompares ==
  ASSUME NEW S, NEW f, Numbers(f, S), NEW g, Numbers(g, S), NEW c \in Nat, NEW d \in Nat,
         \A x \in S : c * f[x] <= d * g[x]
  PROVE  /\ SumFunctionOnSet(f, S) \in Nat /\ SumFunctionOnSet(g, S) \in Nat
         /\ c * SumFunctionOnSet(f, S) <= d * SumFunctionOnSet(g, S)
<1> DEFINE F(T) == SumFunctionOnSet(f, T)
           G(T) == SumFunctionOnSet(g, T)
           Q == {T \in SUBSET S : c * F(T) <= d * G(T)}
<1>1. /\ F({}) = 0 /\ \A T \in SUBSET S : F(T) \in Nat
      /\ \A T \in SUBSET S : \A p \in T : F(T) = f[p] + F(T \ {p})
  BY Sums DEF Additive
<1>2. /\ G({}) = 0 /\ \A T \in SUBSET S : G(T) \in Nat
      /\ \A T \in SUBSET S : \A p \in T : G(T) = g[p] + G(T \ {p})
  BY Sums DEF Additive
<1> HIDE DEF F, G
<1>3. {} \in Q  BY <1>1, <1>2
<1>4. ASSUME NEW T \in SUBSET S, T # {}, \A x \in T : T \ {x} \in Q PROVE T \in Q
  <2>1. PICK p \in T : TRUE  BY <1>4
  <2> DEFINE U == T \ {p}
  <2>2. U \in SUBSET S /\ c * F(U) <= d * G(U)  BY <1>4, <2>1
  <2>3. F(T) = f[p] + F(U) /\ G(T) = g[p] + G(U)  BY <1>1, <1>2, <2>1
  <2> HIDE DEF U
  <2>4. F(U) \in Nat /\ G(U) \in Nat /\ f[p] \in Nat /\ g[p] \in Nat
    BY <1>1, <1>2, <2>2 DEF Numbers
  <2>5. c * f[p] <= d * g[p]  OBVIOUS
  <2>6. /\ c * (f[p] + F(U)) = c * f[p] + c * F(U) /\ c * f[p] \in Nat /\ c * F(U) \in Nat
        /\ d * (g[p] + G(U)) = d * g[p] + d * G(U) /\ d * g[p] \in Nat /\ d * G(U) \in Nat
    BY <2>4, Distribute
  <2>7. c * F(T) <= d * G(T)  BY <2>2, <2>3, <2>5, <2>6
  <2> QED  BY <2>7
<1> HIDE DEF Q
<1>5. \A T \in SUBSET S : T \in Q  BY <1>3, <1>4, Removing DEF Numbers
<1> QED  BY <1>1, <1>2, <1>5 DEF Q, F, G

LEMMA SumEquals ==
  ASSUME NEW S, NEW f, Numbers(f, S), NEW g, \A x \in S : f[x] = g[x]
  PROVE  SumFunctionOnSet(f, S) \in Nat /\ SumFunctionOnSet(f, S) = SumFunctionOnSet(g, S)
<1>1. Numbers(g, S)  BY DEF Numbers
<1>2. \A x \in S : 1 * f[x] <= 1 * g[x] /\ 1 * g[x] <= 1 * f[x]  BY DEF Numbers
<1>3. /\ SumFunctionOnSet(f, S) \in Nat /\ SumFunctionOnSet(g, S) \in Nat
      /\ 1 * SumFunctionOnSet(f, S) <= 1 * SumFunctionOnSet(g, S)
  BY <1>1, <1>2, SumCompares
<1>4. 1 * SumFunctionOnSet(g, S) <= 1 * SumFunctionOnSet(f, S)
  BY <1>1, <1>2, SumCompares
<1> QED  BY <1>3, <1>4

\* The sum over two sets that have nothing in common.
Apart(A, B, S) == A \in SUBSET S /\ B \in SUBSET S /\ A \cap B = {}

LEMMA SumSplits ==
  ASSUME NEW S, NEW f, Numbers(f, S), NEW A, NEW B, Apart(A, B, S)
  PROVE  /\ SumFunctionOnSet(f, A) \in Nat /\ SumFunctionOnSet(f, B) \in Nat
         /\ SumFunctionOnSet(f, A \cup B) = SumFunctionOnSet(f, A) + SumFunctionOnSet(f, B)
<1> DEFINE F(T) == SumFunctionOnSet(f, T)
           Q == {T \in SUBSET B : F(A \cup T) = F(A) + F(T)}
<1> USE DEF Apart
<1>1. /\ F({}) = 0 /\ \A T \in SUBSET S : F(T) \in Nat
      /\ \A T \in SUBSET S : \A p \in T : F(T) = f[p] + F(T \ {p})
  BY Sums DEF Additive
<1> HIDE DEF F
<1>2. {} \in Q
  <2>1. A \cup {} = A  OBVIOUS
  <2> QED  BY <1>1, <2>1
<1>3. ASSUME NEW T \in SUBSET B, T # {}, \A x \in T : T \ {x} \in Q PROVE T \in Q
  <2>1. PICK p \in T : TRUE  BY <1>3
  <2> DEFINE U == T \ {p}
  <2>2. U \in SUBSET S /\ A \cup U \in SUBSET S /\ A \cup T \in SUBSET S /\ T \in SUBSET S
    OBVIOUS
  <2>3. F(A \cup U) = F(A) + F(U)  BY <1>3, <2>1
  <2>4. (A \cup T) \ {p} = A \cup U /\ p \in A \cup T  BY <2>1
  <2>5. F(T) = f[p] + F(U)  BY <1>1, <2>1, <2>2
  <2>6. F(A \cup T) = f[p] + F(A \cup U)  BY <1>1, <2>2, <2>4
  <2> HIDE DEF U
  <2>7. F(A) \in Nat /\ F(U) \in Nat /\ f[p] \in Nat  BY <1>1, <2>1, <2>2 DEF Numbers
  <2>8. F(A \cup T) = F(A) + F(T)  BY <2>3, <2>5, <2>6, <2>7
  <2> QED  BY <2>8
<1> HIDE DEF Q
<1>4. IsFiniteSet(B)  BY FS_Subset DEF Numbers
<1>5. \A T \in SUBSET B : T \in Q  BY <1>2, <1>3, <1>4, Removing
<1> QED  BY <1>1, <1>5 DEF Q, F

LEMMA SumPart ==
  ASSUME NEW S, NEW f, Numbers(f, S), NEW A \in SUBSET S
  PROVE  /\ SumFunctionOnSet(f, A) \in Nat /\ SumFunctionOnSet(f, S) \in Nat
         /\ SumFunctionOnSet(f, A) <= SumFunctionOnSet(f, S)
         /\ (\A x \in S \ A : f[x] = 0) => SumFunctionOnSet(f, A) = SumFunctionOnSet(f, S)
<1> DEFINE B == S \ A
<1>1. /\ SumFunctionOnSet(f, A) \in Nat /\ SumFunctionOnSet(f, B) \in Nat
      /\ SumFunctionOnSet(f, A \cup B) = SumFunctionOnSet(f, A) + SumFunctionOnSet(f, B)
  <2>1. Numbers(f, S) /\ Apart(A, B, S)  BY DEF Apart
  <2> HIDE DEF B
  <2> QED  BY ONLY <2>1, SumSplits
<1>2. A \cup B = S  OBVIOUS
<1>3. ASSUME \A x \in B : f[x] = 0 PROVE SumFunctionOnSet(f, B) = 0
  <2>1. Numbers(f, B)  BY FS_Subset DEF Numbers
  <2>2. \A x \in B : 1 * f[x] <= 0 * f[x]  BY <1>3
  <2> HIDE DEF B
  <2>3. 1 * SumFunctionOnSet(f, B) <= 0 * SumFunctionOnSet(f, B)  BY <2>1, <2>2, SumCompares
  <2> QED  BY <1>1, <2>3
<1>4. (\A x \in S \ A : f[x] = 0) => SumFunctionOnSet(f, B) = 0
  <2> SUFFICES ASSUME \A x \in S \ A : f[x] = 0 PROVE SumFunctionOnSet(f, B) = 0
    OBVIOUS
  <2>1. \A x \in B : f[x] = 0  OBVIOUS
  <2> HIDE DEF B
  <2> QED  BY <1>3, <2>1
<1> HIDE DEF B
<1>5. SumFunctionOnSet(f, S) = SumFunctionOnSet(f, A) + SumFunctionOnSet(f, B)  BY <1>1, <1>2
<1> QED  BY ONLY <1>1, <1>4, <1>5

\* The sum over a set is that over another one whose elements stand for its own.
LEMMA SumRenames ==
  ASSUME NEW S, NEW f, Numbers(f, S), NEW b, NEW g,
         \A x, y \in S : b[x] = b[y] => x = y, \A x \in S : g[b[x]] = f[x]
  PROVE  SumFunctionOnSet(g, {b[x] : x \in S}) = SumFunctionOnSet(f, S)
<1> DEFINE I(T) == {b[x] : x \in T}
           F(T) == SumFunctionOnSet(f, T)
           G(T) == SumFunctionOnSet(g, T)
           Q == {T \in SUBSET S : G(I(T)) = F(T)}
<1>1. /\ F({}) = 0
      /\ \A T \in SUBSET S : \A p \in T : F(T) = f[p] + F(T \ {p})
  BY Sums DEF Additive
<1>2. /\ G({}) = 0
      /\ \A T \in SUBSET I(S) : \A p \in T : G(T) = g[p] + G(T \ {p})
  <2>1. IsFiniteSet(I(S))
    <3> DEFINE h == [x \in S |-> b[x]]
    <3>1. h \in Surjection(S, I(S))  BY DEF Surjection
    <3> HIDE DEF h, I
    <3> QED  BY <3>1, FS_Surjection DEF Numbers
  <2>2. \A y \in I(S) : g[y] \in Nat  BY DEF Numbers
  <2> HIDE DEF I
  <2> QED  BY <2>1, <2>2, Sums DEF Numbers, Additive
<1> HIDE DEF F, G
<1>3. {} \in Q
  <2>1. I({}) = {}  OBVIOUS
  <2> QED  BY <1>1, <1>2, <2>1
<1>4. ASSUME NEW T \in SUBSET S, T # {}, \A x \in T : T \ {x} \in Q PROVE T \in Q
  <2>1. PICK p \in T : TRUE  BY <1>4
  <2>2. G(I(T \ {p})) = F(T \ {p})  BY <1>4, <2>1
  <2>3. I(T) \in SUBSET I(S) /\ b[p] \in I(T)  BY <2>1
  <2>4. I(T) \ {b[p]} = I(T \ {p})  BY <2>1
  <2> HIDE DEF I
  <2>5. G(I(T)) = g[b[p]] + G(I(T \ {p}))  BY <1>2, <2>3, <2>4
  <2>6. F(T) = f[p] + F(T \ {p})  BY <1>1, <2>1
  <2>7. g[b[p]] = f[p]  BY <2>1
  <2> QED  BY <2>2, <2>5, <2>6, <2>7
<1> HIDE DEF Q
<1>5. \A T \in SUBSET S : T \in Q  BY <1>3, <1>4, Removing DEF Numbers
<1> QED  BY <1>5 DEF Q, F, G, I

\* The sum over a set, part by part: the part of a is what has the key a.
Keyed(S, key, A) == IsFiniteSet(A) /\ \A x \in S : key[x] \in A
Parts(g, A, f, S, key) == \A a \in A : g[a] = SumFunctionOnSet(f, {x \in S : key[x] = a})

LEMMA SumByParts ==
  ASSUME NEW S, NEW f, Numbers(f, S), NEW A, NEW key, Keyed(S, key, A),
         NEW g, Parts(g, A, f, S, key)
  PROVE  Numbers(g, A) /\ SumFunctionOnSet(f, S) = SumFunctionOnSet(g, A)
<1> DEFINE P(T) == {x \in S : key[x] \in T}
           F(T) == SumFunctionOnSet(f, T)
           G(T) == SumFunctionOnSet(g, T)
           Q == {T \in SUBSET A : F(P(T)) = G(T)}
<1>1. F({}) = 0 /\ \A T \in SUBSET S : F(T) \in Nat
  BY Sums DEF Additive
<1>2. \A a \in A : g[a] = F({x \in S : key[x] = a}) /\ g[a] \in Nat
  <2>1. \A a \in A : {x \in S : key[x] = a} \in SUBSET S  OBVIOUS
  <2>2. \A a \in A : g[a] = F({x \in S : key[x] = a})  BY DEF Parts
  <2> HIDE DEF F
  <2> QED  BY <1>1, <2>1, <2>2
<1>3. /\ G({}) = 0
      /\ \A T \in SUBSET A : \A p \in T : G(T) = g[p] + G(T \ {p})
  <2>1. Numbers(g, A)  BY <1>2 DEF Numbers, Keyed
  <2> QED  BY <2>1, Sums DEF Additive
<1>4. \A X, Y \in SUBSET S : X \cap Y = {} => F(X \cup Y) = F(X) + F(Y)
  <2> SUFFICES ASSUME NEW X \in SUBSET S, NEW Y \in SUBSET S, X \cap Y = {}
               PROVE  F(X \cup Y) = F(X) + F(Y)
    OBVIOUS
  <2>1. Numbers(f, S) /\ Apart(X, Y, S)  BY DEF Apart
  <2> QED  BY ONLY <2>1, SumSplits DEF F
<1> HIDE DEF F, G
<1>5. {} \in Q
  <2>1. P({}) = {}  OBVIOUS
  <2> QED  BY <1>1, <1>3, <2>1
<1>6. ASSUME NEW T \in SUBSET A, T # {}, \A x \in T : T \ {x} \in Q PROVE T \in Q
  <2>1. PICK p \in T : TRUE  BY <1>6
  <2>2. F(P(T \ {p})) = G(T \ {p})  BY <1>6, <2>1
  <2> DEFINE X == {x \in S : key[x] = p}
  <2>3. P(T) = X \cup P(T \ {p}) /\ X \cap P(T \ {p}) = {}  BY <2>1
  <2>4. X \in SUBSET S /\ P(T \ {p}) \in SUBSET S  OBVIOUS
  <2>5. F(X) = g[p]  BY <1>2, <2>1
  <2> HIDE DEF X, P
  <2>6. F(P(T)) = g[p] + G(T \ {p})  BY <1>4, <2>2, <2>3, <2>4, <2>5
  <2>7. G(T) = g[p] + G(T \ {p})  BY <1>3, <2>1
  <2> QED  BY <2>6, <2>7
<1> HIDE DEF Q
<1>7. A \in Q  BY <1>5, <1>6, Removing DEF Keyed
<1>8. P(A) = S  BY DEF Keyed
<1>9. F(S) = G(A)  BY <1>7, <1>8 DEF Q
<1> QED  BY <1>2, <1>9 DEF F, G, Numbers, Keyed

------------------------------------------------------------------------------
(* The arithmetic of intervals.                                            *)

Whole(x, p) == p \in Nat /\ x = p * Hundred

LEMMA ProductGrows ==
  ASSUME NEW a \in Nat, NEW b \in Nat, NEW c \in Nat, NEW d \in Nat, a <= b, c <= d
  PROVE  a * c <= b * d
<1>1. a * c <= b * c
  OBVIOUS
<1>2. b * c <= b * d
  OBVIOUS
<1>3. a * c \in Int /\ b * c \in Int /\ b * d \in Int
  OBVIOUS
<1> QED BY <1>1, <1>2, <1>3

LEMMA ProductGrowsStrictly ==
  ASSUME NEW a \in Nat, NEW b \in Nat, NEW c \in Nat, NEW d \in Nat, a < b, c <= d, d > 0
  PROVE  a * c < b * d /\ c * a < d * b
<1>1. a * c <= a * d
  OBVIOUS
<1>2. a * d < b * d
  OBVIOUS
<1>3. a * c \in Int /\ a * d \in Int /\ b * d \in Int
  OBVIOUS
<1>4. a * c < b * d
  BY <1>1, <1>2, <1>3
<1>5. a * c = c * a /\ b * d = d * b
  OBVIOUS
<1> QED BY <1>4, <1>5

LEMMA ProductZero ==
  ASSUME NEW a \in Nat, NEW b \in Nat
  PROVE  a * b \in Nat /\ (a * b = 0 <=> a = 0 \/ b = 0)
OBVIOUS

LEMMA Quotient ==
  ASSUME NEW p \in Nat
  PROVE  (p * Hundred) \div Hundred = p
BY HundredAssumption

LEMMA WholeOrder ==
  ASSUME NEW x, NEW y, NEW p, NEW q, Whole(x, p), Whole(y, q)
  PROVE  /\ x \in Nat /\ y \in Nat /\ x \div Hundred = p
         /\ (x <= y <=> p <= q) /\ (x < y <=> p < q) /\ (x = 0 <=> p = 0)
<1>1. /\ p \in Nat /\ q \in Nat /\ x = p * Hundred /\ y = q * Hundred
      /\ Hundred \in Nat /\ Hundred > 0
  BY HundredAssumption DEF Whole
<1>2. x \in Nat /\ y \in Nat
  BY <1>1
<1>3. x \div Hundred = p
  BY <1>1, Quotient
<1>4. p <= q => x <= y
  BY <1>1
<1>5. p < q => x < y
  BY <1>1
<1>6. q < p => y < x
  BY <1>1
<1>7. q <= p => y <= x
  BY <1>1
<1>8. x = 0 <=> p = 0
  BY <1>1, ProductZero
<1> QED BY <1>1, <1>2, <1>3, <1>4, <1>5, <1>6, <1>7, <1>8

------------------------------------------------------------------------------
(* Nothing is rounded.                                                     *)

LEMMA Powers ==
  /\ Power[0] = 1
  /\ \A n \in Nat : Power[n] \in Nat /\ Power[n + 1] = Step * Power[n]
<1> DEFINE next(g) == [n \in Nat |-> IF n = 0 THEN 1 ELSE Step * g[n - 1]]
           V == Nat
           step == [x \in V |-> Step * x]
<1>1. step \in [V -> V]
  <2>1. ASSUME NEW x \in Nat PROVE Step * x \in Nat  BY StepAssumption
  <2> QED  BY <2>1
<1>2. PICK f \in [Nat -> V] : f[0] = 1 /\ \A n \in Nat : f[n + 1] = step[f[n]]
  <2> DEFINE one == 1
  <2>1. one \in V  OBVIOUS
  <2> HIDE DEF step, V, one
  <2>2. \E f \in [Nat -> V] : f[0] = one /\ \A n \in Nat : f[n + 1] = step[f[n]]
    BY ONLY <1>1, <2>1, Iterates
  <2> QED  BY <2>2 DEF one
<1>3. \A n \in Nat : f[n + 1] = Step * f[n]  BY <1>2
<1>4. f = next(f)
  <2>1. ASSUME NEW n \in Nat PROVE f[n] = next(f)[n]
    <3>1. CASE n = 0  BY <1>2, <3>1
    <3>2. CASE n # 0
      <4>1. n - 1 \in Nat /\ (n - 1) + 1 = n  BY <3>2
      <4>2. f[n] = Step * f[n - 1]  BY <1>3, <4>1
      <4> QED  BY <3>2, <4>2
    <3> QED  BY <3>1, <3>2
  <2> QED  BY <1>2, <2>1
<1>5. Power = CHOOSE g : g = next(g)  BY DEF Power
<1>6. Power = next(Power)
  <2> HIDE DEF next
  <2> QED  BY <1>4, <1>5
<1>7. \A n \in Nat : Power[n] = f[n]
  <2> DEFINE S == {n \in Nat : Power[n] = f[n]}
  <2>1. 0 \in S  BY <1>2, <1>6
  <2>2. ASSUME NEW n \in Nat, n \in S PROVE n + 1 \in S
    <3>1. n + 1 \in Nat /\ n + 1 # 0 /\ (n + 1) - 1 = n  OBVIOUS
    <3>2. Power[n + 1] = Step * Power[n]  BY <1>6, <3>1
    <3> QED  BY <1>3, <2>2, <3>1, <3>2
  <2> HIDE DEF S
  <2>3. \A n \in Nat : n \in S  BY <2>1, <2>2, Counting
  <2> QED  BY <2>3 DEF S
<1> QED  BY <1>2, <1>3, <1>7

LEMMA Associate ==
  ASSUME NEW a \in Nat, NEW b \in Nat, NEW c \in Nat
  PROVE  a * b \in Nat /\ a * b = b * a /\ a * (b * c) = (a * b) * c
OBVIOUS

LEMMA PowersMultiply ==
  ASSUME NEW m \in Nat
  PROVE  \A n \in Nat : Power[m + n] = Power[m] * Power[n]
<1> DEFINE S == {n \in Nat : Power[m + n] = Power[m] * Power[n]}
<1>1. 0 \in S
  <2>1. Power[m] * 1 = Power[m] /\ m + 0 = m  BY Powers
  <2> QED  BY <2>1, Powers
<1>2. ASSUME NEW n \in Nat, n \in S PROVE n + 1 \in S
  <2>1. Power[m + (n + 1)] = Step * Power[m + n]
    <3>1. m + (n + 1) = (m + n) + 1 /\ m + n \in Nat  OBVIOUS
    <3> QED  BY <3>1, Powers
  <2>2. Power[n + 1] = Step * Power[n]  BY Powers
  <2>3. Step \in Nat /\ Power[m] \in Nat /\ Power[n] \in Nat  BY StepAssumption, Powers
  <2>4. Step * (Power[m] * Power[n]) = Power[m] * (Step * Power[n])
    <3>1. /\ Step * (Power[m] * Power[n]) = (Step * Power[m]) * Power[n]
          /\ Power[m] * (Step * Power[n]) = (Power[m] * Step) * Power[n]
          /\ Step * Power[m] = Power[m] * Step
      BY <2>3, Associate
    <3> QED  BY <3>1
  <2> QED  BY <1>2, <2>1, <2>2, <2>4
<1> HIDE DEF S
<1>3. \A n \in Nat : n \in S  BY <1>1, <1>2, Counting
<1> QED  BY <1>3 DEF S

\* Products of k inputs.
Fine(k) == {a * Power[Depth - k] : a \in Nat}

LEMMA FineNumbers ==
  ASSUME NEW k \in 0..Depth
  PROVE  /\ Depth - k \in Nat /\ k \in Nat /\ Fine(k) \subseteq Nat
         /\ 0 \in Fine(k)
         /\ \A x, y \in Fine(k) : x + y \in Fine(k)
<1>1. Depth - k \in Nat /\ k \in Nat  BY StepAssumption
<1>2. Power[Depth - k] \in Nat  BY <1>1, Powers
<1>3. Fine(k) \subseteq Nat  BY <1>2, ProductZero DEF Fine
<1>4. 0 \in Fine(k)
  <2>1. 0 * Power[Depth - k] = 0  BY <1>2
  <2> QED  BY <2>1 DEF Fine
<1>5. ASSUME NEW x \in Fine(k), NEW y \in Fine(k) PROVE x + y \in Fine(k)
  <2>1. PICK a \in Nat : x = a * Power[Depth - k]  BY DEF Fine
  <2>2. PICK b \in Nat : y = b * Power[Depth - k]  BY DEF Fine
  <2>3. (a + b) * Power[Depth - k] = a * Power[Depth - k] + b * Power[Depth - k]
    BY <1>2
  <2>4. a + b \in Nat  OBVIOUS
  <2> QED  BY <2>1, <2>2, <2>3, <2>4 DEF Fine
<1> QED  BY <1>1, <1>3, <1>4, <1>5

\* A product of fewer inputs is one of more, with factors of 100%.
LEMMA FineGrows ==
  ASSUME NEW j \in Nat, NEW k \in 0..Depth, j <= k
  PROVE  Fine(j) \subseteq Fine(k)
<1> SUFFICES ASSUME NEW x \in Fine(j) PROVE x \in Fine(k)
  OBVIOUS
<1>1. PICK a \in Nat : x = a * Power[Depth - j]  BY DEF Fine
<1>2. k - j \in Nat /\ Depth - k \in Nat /\ Depth - j = (k - j) + (Depth - k)
  BY StepAssumption
<1>3. Power[Depth - j] = Power[k - j] * Power[Depth - k]  BY <1>2, PowersMultiply
<1>4. Power[k - j] \in Nat /\ Power[Depth - k] \in Nat  BY <1>2, Powers
<1>5. x = (a * Power[k - j]) * Power[Depth - k] /\ a * Power[k - j] \in Nat
  BY <1>1, <1>3, <1>4, Associate
<1> QED  BY <1>5 DEF Fine

LEMMA FineInputs ==
  /\ Hundred \in Fine(0)
  /\ Grid \subseteq Fine(1) /\ 0 \in Grid
<1>1. Hundred = 1 * Power[Depth - 0]
  <2>1. Depth - 0 = Depth /\ Hundred = 1 * Hundred  BY StepAssumption, HundredAssumption
  <2> QED  BY <2>1, WholeAssumption
<1>2. Hundred \in Fine(0)  BY <1>1 DEF Fine
<1>3. Depth - 1 \in Nat /\ (Depth - 1) + 1 = Depth  BY StepAssumption
<1>4. Hundred = Step * Power[Depth - 1] /\ Power[Depth - 1] \in Nat
  BY <1>3, Powers, WholeAssumption
<1>5. Hundred \div Step = Power[Depth - 1]
  <2>1. ASSUME NEW s \in Nat \ {0}, NEW x \in Nat PROVE (s * x) \div s = x
    OBVIOUS
  <2> QED  BY <1>4, <2>1, StepAssumption
<1>6. Grid \subseteq Fine(1)
  <2>1. 0..Step \subseteq Nat  BY StepAssumption
  <2> QED  BY <1>5, <2>1 DEF Grid, Fine
<1>7. 0 \in Grid
  <2>1. 0 \in 0..Step /\ 0 * (Hundred \div Step) = 0  BY <1>4, <1>5, StepAssumption
  <2> QED  BY <2>1 DEF Grid
<1> QED  BY <1>2, <1>6, <1>7

\* A share of a share is a whole number of parts.
LEMMA FineProduct ==
  ASSUME NEW j \in Nat, NEW k \in Nat, j + k <= Depth, NEW x \in Fine(j), NEW y \in Fine(k)
  PROVE  /\ (x * y) \div Hundred \in Fine(j + k)
         /\ Whole(x * y, (x * y) \div Hundred)
<1>1. PICK a \in Nat : x = a * Power[Depth - j]  BY DEF Fine
<1>2. PICK b \in Nat : y = b * Power[Depth - k]  BY DEF Fine
<1> DEFINE r == Depth - (j + k)
<1>3. /\ r \in Nat /\ Depth - j = k + r /\ Depth - k \in Nat /\ Depth = k + (Depth - k)
      /\ Depth - j \in Nat
  BY StepAssumption
<1>4. Power[Depth - j] = Power[k] * Power[r]  BY <1>3, PowersMultiply
<1>5. Hundred = Power[k] * Power[Depth - k]  BY <1>3, PowersMultiply, WholeAssumption
<1> DEFINE p == (a * b) * Power[r]
<1>6. ASSUME NEW u \in Nat, NEW v \in Nat, NEW w \in Nat
      PROVE  /\ (a * (u * v)) * (b * w) = ((a * b) * v) * (u * w)
             /\ (a * b) * v \in Nat /\ a * b \in Nat
  OBVIOUS
<1>7. Power[k] \in Nat /\ Power[r] \in Nat /\ Power[Depth - k] \in Nat  BY <1>3, Powers
<1>8. x * y = p * Hundred /\ p \in Nat /\ a * b \in Nat
  BY <1>1, <1>2, <1>4, <1>5, <1>6, <1>7
<1>9. p \in Fine(j + k)  BY <1>8 DEF Fine
<1> HIDE DEF p
<1>10. (x * y) \div Hundred = p  BY <1>8, Quotient
<1> QED  BY <1>8, <1>9, <1>10 DEF Whole

LEMMA FineSums ==
  ASSUME NEW k \in 0..Depth, NEW S, NEW f, Numbers(f, S), \A x \in S : f[x] \in Fine(k)
  PROVE  SumFunctionOnSet(f, S) \in Fine(k)
<1> DEFINE Q == {T \in SUBSET S : SumFunctionOnSet(f, T) \in Fine(k)}
<1>1. Additive(f, S)  BY Sums
<1>2. {} \in Q  BY <1>1, FineNumbers DEF Additive
<1>3. ASSUME NEW T \in SUBSET S, T # {}, \A x \in T : T \ {x} \in Q PROVE T \in Q
  <2>1. PICK p \in T : TRUE  BY <1>3
  <2>2. SumFunctionOnSet(f, T) = f[p] + SumFunctionOnSet(f, T \ {p})
    BY <1>1, <2>1 DEF Additive
  <2>3. f[p] \in Fine(k) /\ SumFunctionOnSet(f, T \ {p}) \in Fine(k)  BY <1>3, <2>1
  <2> QED  BY <2>2, <2>3, FineNumbers
<1> HIDE DEF Q
<1>4. \A T \in SUBSET S : T \in Q  BY <1>2, <1>3, Removing DEF Numbers
<1> QED  BY <1>4 DEF Q

------------------------------------------------------------------------------

\* The sum of two shares is in the sum of their intervals (addIntervals).
THEOREM AddSound ==
  ASSUME NEW l \in Interval, NEW r \in Interval, NEW v \in Nat, NEW w \in Nat,
         Contains(l, v), Contains(r, w)
  PROVE  Contains(AddIntervals(l, r), v + w)
<1> DEFINE s == AddIntervals(l, r)
<1>1. /\ s.lower = l.lower + r.lower /\ s.upper = l.upper + r.upper
      /\ s.lowerInclusive = (l.lowerInclusive /\ r.lowerInclusive)
      /\ s.upperInclusive = (l.upperInclusive /\ r.upperInclusive)
  BY DEF AddIntervals
<1>2. l.lower \in Nat /\ l.upper \in Nat /\ r.lower \in Nat /\ r.upper \in Nat
  BY DEF Interval
<1>3. l.lower <= v /\ v <= l.upper /\ r.lower <= w /\ w <= r.upper
  BY <1>2 DEF Contains
<1>4. /\ ~l.lowerInclusive => l.lower < v
      /\ ~r.lowerInclusive => r.lower < w
      /\ ~l.upperInclusive => v < l.upper
      /\ ~r.upperInclusive => w < r.upper
  BY DEF Contains
<1> HIDE DEF s
<1>5. s.lower <= v + w /\ v + w <= s.upper
  BY <1>1, <1>2, <1>3
<1>6. ~s.lowerInclusive => s.lower < v + w
  <2>1. ~s.lowerInclusive => ~l.lowerInclusive \/ ~r.lowerInclusive
    BY <1>1, Zenon
  <2> QED BY <1>1, <1>2, <1>3, <1>4, <2>1
<1>7. ~s.upperInclusive => v + w < s.upper
  <2>1. ~s.upperInclusive => ~l.upperInclusive \/ ~r.upperInclusive
    BY <1>1, Zenon
  <2> QED BY <1>1, <1>2, <1>3, <1>4, <2>1
<1> QED BY <1>5, <1>6, <1>7 DEF Contains, s

\* Cutting an interval off at 100% loses no share (capPercentageInterval).
THEOREM CapSound ==
  ASSUME NEW l \in Interval, NEW v \in Nat, Contains(l, v), v <= Hundred
  PROVE  Contains(CapPercentageInterval(l), v)
<1> DEFINE s == CapPercentageInterval(l)
<1>1. CASE l.upper <= Hundred
  BY <1>1 DEF CapPercentageInterval
<1>2. CASE ~(l.upper <= Hundred)
  <2>1. /\ s.lower = l.lower /\ s.lowerInclusive = l.lowerInclusive
        /\ s.upper = Hundred /\ s.upperInclusive = TRUE
    BY <1>2 DEF CapPercentageInterval, Interval
  <2> HIDE DEF s
  <2> QED BY <2>1 DEF Contains, s
<1> QED BY <1>1, <1>2

\* A share of a share is in the product of their intervals
\* (multiplyPercentageIntervals): an open end of a factor opens the end of
\* the product, except where the other factor may be zero.
THEOREM MultiplySound ==
  ASSUME NEW l \in Interval, NEW r \in Interval, NEW v \in Nat, NEW w \in Nat,
         Contains(l, v), Contains(r, w),
         NEW p, Whole(v * w, p),
         NEW a, Whole(l.lower * r.lower, a), NEW b, Whole(l.upper * r.upper, b)
  PROVE  Contains(MultiplyPercentageIntervals(l, r), p)
<1> DEFINE s == MultiplyPercentageIntervals(l, r)
           zero == ContainsZero(l) \/ ContainsZero(r)
<1>1. /\ l.lower \in Nat /\ l.upper \in Nat /\ r.lower \in Nat /\ r.upper \in Nat
      /\ p \in Nat /\ a \in Nat /\ b \in Nat
  BY DEF Interval, Whole
<1>2. l.lower <= v /\ v <= l.upper /\ r.lower <= w /\ w <= r.upper
  BY <1>1 DEF Contains
<1>3. /\ ~l.lowerInclusive => l.lower < v
      /\ ~r.lowerInclusive => r.lower < w
      /\ ~l.upperInclusive => v < l.upper
      /\ ~r.upperInclusive => w < r.upper
  BY DEF Contains
<1>4. (l.lower * r.lower) \div Hundred = a /\ (l.upper * r.upper) \div Hundred = b
  BY WholeOrder
<1>5. /\ s.lower = a /\ s.upper = b
      /\ s.lowerInclusive = IF a = 0 THEN zero ELSE l.lowerInclusive /\ r.lowerInclusive
      /\ s.upperInclusive = IF b = 0 THEN zero ELSE l.upperInclusive /\ r.upperInclusive
  BY <1>4 DEF MultiplyPercentageIntervals
<1> HIDE DEF s
<1>6. a <= p /\ p <= b
  <2>1. l.lower * r.lower <= v * w /\ v * w <= l.upper * r.upper
    BY <1>1, <1>2, ProductGrows
  <2> QED BY <2>1, WholeOrder
<1>7. /\ a = 0 <=> l.lower = 0 \/ r.lower = 0
      /\ b = 0 <=> l.upper = 0 \/ r.upper = 0
      /\ p = 0 <=> v = 0 \/ w = 0
  <2>1. /\ l.lower * r.lower = 0 <=> a = 0
        /\ l.upper * r.upper = 0 <=> b = 0
        /\ v * w = 0 <=> p = 0
    BY WholeOrder
  <2> QED BY <1>1, <2>1, ProductZero
<1>8. ASSUME ~s.lowerInclusive PROVE a < p
  <2>1. CASE a = 0
    <3>1. ~ContainsZero(l) /\ ~ContainsZero(r)
      BY <1>5, <1>8, <2>1, Zenon
    <3>2. v > 0
      BY <1>1, <1>2, <1>3, <3>1 DEF ContainsZero
    <3>3. w > 0
      BY <1>1, <1>2, <1>3, <3>1 DEF ContainsZero
    <3> QED BY <1>1, <1>7, <2>1, <3>2, <3>3
  <2>2. CASE a # 0
    <3>1. ~l.lowerInclusive \/ ~r.lowerInclusive
      BY <1>5, <1>8, <2>2, Zenon
    <3>2. l.lower > 0 /\ r.lower > 0 /\ v > 0 /\ w > 0
      BY <1>1, <1>2, <1>7, <2>2
    <3>3. CASE ~l.lowerInclusive
      <4>1. l.lower * r.lower < v * w
        BY <1>1, <1>2, <1>3, <3>2, <3>3, ProductGrowsStrictly
      <4> QED BY <4>1, WholeOrder
    <3>4. CASE ~r.lowerInclusive
      <4>1. l.lower * r.lower < v * w
        BY <1>1, <1>2, <1>3, <3>2, <3>4, ProductGrowsStrictly
      <4> QED BY <4>1, WholeOrder
    <3> QED BY <3>1, <3>3, <3>4
  <2> QED BY <2>1, <2>2
<1>9. ASSUME ~s.upperInclusive PROVE p < b
  <2>1. CASE b = 0
    <3>1. ~ContainsZero(l) /\ ~ContainsZero(r)
      BY <1>5, <1>9, <2>1, Zenon
    <3>2. l.upper > 0
      BY <1>1, <1>2, <1>3, <3>1 DEF ContainsZero
    <3>3. r.upper > 0
      BY <1>1, <1>2, <1>3, <3>1 DEF ContainsZero
    <3> QED BY <1>1, <1>7, <2>1, <3>2, <3>3
  <2>2. CASE b # 0
    <3>1. ~l.upperInclusive \/ ~r.upperInclusive
      BY <1>5, <1>9, <2>2, Zenon
    <3>2. l.upper > 0 /\ r.upper > 0
      BY <1>1, <1>7, <2>2
    <3>3. CASE ~l.upperInclusive
      <4>1. v * w < l.upper * r.upper
        BY <1>1, <1>2, <1>3, <3>2, <3>3, ProductGrowsStrictly
      <4> QED BY <4>1, WholeOrder
    <3>4. CASE ~r.upperInclusive
      <4>1. v * w < l.upper * r.upper
        BY <1>1, <1>2, <1>3, <3>2, <3>4, ProductGrowsStrictly
      <4> QED BY <4>1, WholeOrder
    <3> QED BY <3>1, <3>3, <3>4
  <2> QED BY <2>1, <2>2
<1>10. s.lower <= p /\ p <= s.upper
       /\ (~s.lowerInclusive => s.lower < p) /\ (~s.upperInclusive => p < s.upper)
  BY <1>5, <1>6, <1>8, <1>9
<1> QED BY <1>10 DEF Contains, s
==============================================================================
