------------------------ MODULE OwnershipGraphProofs -------------------------
(***************************************************************************)
(* The evaluation of an ownership case, for every number of entities and   *)
(* every set of claims.  A case is always evaluated from the claims that   *)
(* are operative (GInv), so what has to be shown is about the algorithms:  *)
(* the search for holders, the traversals towards the customer and the     *)
(* sum of their shares.  All three are recursive definitions; the lemmas   *)
(* at the beginning give the induction they are reasoned about with.       *)
(***************************************************************************)
EXTENDS OwnershipGraph, ExactPercentageProofs

------------------------------------------------------------------------------
(* The sum of the shares of a set of paths.                                *)

Sum(K) == MapThenFoldSet(AddIntervals, ExactInterval(0), LAMBDA p : p.share,
                         LAMBDA S : CHOOSE p \in S : TRUE, K)

\* Intervals can be added in any order.
LEMMA Adding ==
  /\ ExactInterval(0) \in Interval
  /\ \A i, j \in Interval : AddIntervals(i, j) \in Interval
  /\ \A i, j, k \in Interval :
       AddIntervals(i, AddIntervals(j, k)) = AddIntervals(j, AddIntervals(i, k))
<1>1. ExactInterval(0) \in Interval  BY DEF ExactInterval, Interval
<1>2. ASSUME NEW i \in Interval, NEW j \in Interval PROVE AddIntervals(i, j) \in Interval
  BY DEF AddIntervals, Interval
<1>3. ASSUME NEW i \in Interval, NEW j \in Interval, NEW k \in Interval
      PROVE  AddIntervals(i, AddIntervals(j, k)) = AddIntervals(j, AddIntervals(i, k))
  <2>1. /\ i.lower + (j.lower + k.lower) = j.lower + (i.lower + k.lower)
        /\ i.upper + (j.upper + k.upper) = j.upper + (i.upper + k.upper)
    BY DEF Interval
  <2> QED  BY <2>1 DEF AddIntervals
<1> QED  BY <1>1, <1>2, <1>3

\* The sum does not depend on the order in which the shares are added.
LEMMA SumRules ==
  ASSUME NEW K, IsFiniteSet(K), \A p \in K : p.share \in Interval
  PROVE  /\ Sum({}) = ExactInterval(0)
         /\ \A T \in SUBSET K : Sum(T) \in Interval
         /\ \A T \in SUBSET K : \A p \in T : Sum(T) = AddIntervals(p.share, Sum(T \ {p}))
<1> DEFINE add == [x \in Interval |-> [y \in Interval |-> AddIntervals(x, y)]]
           val == [p \in K |-> p.share]
           total == [L \in SUBSET K |-> Sum(L)]
<1>1. Commutes(Interval, add)
  <2>1. \A x, y \in Interval : add[x][y] = AddIntervals(x, y) /\ add[x][y] \in Interval
    BY Adding
  <2>2. add \in [Interval -> [Interval -> Interval]]  BY Adding
  <2> HIDE DEF add
  <2>3. ASSUME NEW x \in Interval, NEW y \in Interval, NEW z \in Interval
        PROVE  add[x][add[y][z]] = add[y][add[x][z]]
    <3>1. add[x][add[y][z]] = AddIntervals(x, AddIntervals(y, z))  BY <2>1
    <3>2. add[y][add[x][z]] = AddIntervals(y, AddIntervals(x, z))  BY <2>1
    <3> QED  BY <3>1, <3>2, Adding
  <2> QED  BY <2>2, <2>3 DEF Commutes
<1>2. ASSUME NEW L \in SUBSET K
      PROVE  \E g \in [SUBSET L -> Interval] :
               Unfolds(g, L, ExactInterval(0), add, val) /\ total[L] = g[L]
  <2> DEFINE next(g) == [s \in SUBSET L |-> IF s = {} THEN ExactInterval(0)
                                            ELSE AddIntervals(One(s).share, g[s \ {One(s)}])]
             g == CHOOSE g : g = next(g)
             lval == [p \in L |-> p.share]
  <2>1. IsFiniteSet(L) /\ lval \in [L -> Interval]  BY FS_Subset
  <2>2. PICK h \in [SUBSET L -> Interval] : Unfolds(h, L, ExactInterval(0), add, lval)
    <3>1. ExactInterval(0) \in Interval /\ add \in [Interval -> [Interval -> Interval]]
      BY <1>1, Adding DEF Commutes
    <3> HIDE DEF add, lval
    <3> QED  BY ONLY <2>1, <3>1, FoldExists
  <2>3. h = next(h)
    <3>1. ASSUME NEW s \in SUBSET L PROVE h[s] = next(h)[s]
      <4>1. CASE s = {}  BY <2>2, <4>1 DEF Unfolds
      <4>2. CASE s # {}
        <5>1. One(s) \in s /\ s \ {One(s)} \in SUBSET L  BY <4>2 DEF One
        <5>2. h[s] = add[lval[One(s)]][h[s \ {One(s)}]]  BY <2>2, <4>2 DEF Unfolds
        <5>3. /\ lval[One(s)] = One(s).share /\ One(s).share \in Interval
              /\ h[s \ {One(s)}] \in Interval
          BY <5>1
        <5>4. h[s] = AddIntervals(One(s).share, h[s \ {One(s)}])  BY <5>2, <5>3
        <5> QED  BY <4>2, <5>4
      <4> QED  BY <4>1, <4>2
    <3> QED  BY <3>1
  <2>4. g = next(g)
    <3> HIDE DEF next
    <3> QED  BY <2>3
  <2>5. total[L] = g[L]
    BY DEF Sum, MapThenFoldSet, One
  <2> HIDE DEF g, total
  <2>6. g[{}] = ExactInterval(0)  BY <2>4
  <2>7. ASSUME NEW s \in SUBSET L, s # {}
        PROVE  g[s] = AddIntervals(One(s).share, g[s \ {One(s)}])
    BY <2>4, <2>7
  <2>8. \A s \in SUBSET L : g[s] \in Interval
    <3> DEFINE Q == {s \in SUBSET L : g[s] \in Interval}
    <3>1. {} \in Q  BY <2>6, Adding
    <3>2. ASSUME NEW s \in SUBSET L, s # {}, \A x \in s : s \ {x} \in Q PROVE s \in Q
      <4>1. One(s) \in s  BY <3>2 DEF One
      <4>2. One(s).share \in Interval /\ g[s \ {One(s)}] \in Interval  BY <3>2, <4>1
      <4>3. g[s] = AddIntervals(One(s).share, g[s \ {One(s)}])  BY <2>7, <3>2
      <4>4. AddIntervals(One(s).share, g[s \ {One(s)}]) \in Interval  BY ONLY <4>2, Adding
      <4> QED  BY <4>3, <4>4
    <3> HIDE DEF Q
    <3>3. \A s \in SUBSET L : s \in Q  BY <2>1, <3>1, <3>2, Removing
    <3> QED  BY <3>3 DEF Q
  <2>9. g \in [SUBSET L -> Interval]
    <3>1. g = [s \in SUBSET L |-> g[s]]  BY <2>4
    <3> QED  BY <2>8, <3>1
  <2>10. Unfolds(g, L, ExactInterval(0), add, val)
    <3>1. ASSUME NEW s \in SUBSET L, s # {}
          PROVE  g[s] = add[val[One(s)]][g[s \ {One(s)}]]
      <4>1. One(s) \in s /\ s \ {One(s)} \in SUBSET L  BY <3>1 DEF One
      <4>2. /\ val[One(s)] = One(s).share /\ One(s).share \in Interval
            /\ g[s \ {One(s)}] \in Interval
        BY <2>8, <4>1
      <4> QED  BY <2>7, <3>1, <4>2
    <3> QED  BY <2>6, <3>1 DEF Unfolds
  <2> QED  BY <2>5, <2>9, <2>10
<1>3. \A T \in SUBSET K : total[T] = Sum(T)  OBVIOUS
<1>4. \A p \in K : val[p] = p.share  OBVIOUS
<1>5. \A x, y \in Interval : add[x][y] = AddIntervals(x, y)  OBVIOUS
<1>6. val \in [K -> Interval]  OBVIOUS
<1> HIDE DEF add, val, total
<1>7. Summed(total, K, Interval, ExactInterval(0), add, val)
  <2>1. IsFiniteSet(K) /\ ExactInterval(0) \in Interval  BY Adding
  <2>2. FoldsAll(total, K, Interval, ExactInterval(0), add, val)  BY <1>2 DEF FoldsAll
  <2> QED  BY ONLY <1>1, <1>6, <2>1, <2>2, FoldRules
<1>8. ASSUME NEW T \in SUBSET K, NEW p \in T PROVE Sum(T) = AddIntervals(p.share, Sum(T \ {p}))
  <2>1. T \ {p} \in SUBSET K  OBVIOUS
  <2>2. total[T] = add[val[p]][total[T \ {p}]] /\ total[T \ {p}] \in Interval
    BY <1>7, <2>1 DEF Summed
  <2>3. val[p] = p.share /\ val[p] \in Interval  BY <1>4
  <2>4. total[T] = AddIntervals(p.share, total[T \ {p}])  BY ONLY <1>5, <2>2, <2>3
  <2> QED  BY <1>3, <2>1, <2>4
<1>9. {} \in SUBSET K  OBVIOUS
<1> QED  BY <1>3, <1>7, <1>8, <1>9 DEF Summed

\* An interval j begins no lower than i.
Above(j, i) == i.lower <= j.lower /\ (j.lowerInclusive => i.lowerInclusive)

\* More shares never make a smaller sum, and open ends stay open.
LEMMA SumGrows ==
  ASSUME NEW K, IsFiniteSet(K), \A p \in K : p.share \in Interval, NEW L \in SUBSET K
  PROVE  Above(Sum(K), Sum(L))
<1> DEFINE Q == {T \in SUBSET K : L \subseteq T => Above(Sum(T), Sum(L))}
<1>1. {} \in Q
  <2>1. Sum(L) \in Interval  BY SumRules
  <2>2. Above(Sum(L), Sum(L))  BY <2>1 DEF Interval, Above
  <2>3. L \subseteq {} => L = {}  OBVIOUS
  <2> QED  BY <2>2, <2>3
<1>2. ASSUME NEW T \in SUBSET K, T # {}, \A x \in T : T \ {x} \in Q PROVE T \in Q
  <2> SUFFICES ASSUME L \subseteq T PROVE Above(Sum(T), Sum(L))
    OBVIOUS
  <2>1. Sum(T) \in Interval /\ Sum(L) \in Interval  BY SumRules
  <2>2. CASE T = L  BY <2>1, <2>2 DEF Interval, Above
  <2>3. CASE T # L
    <3>1. PICK p \in T : p \notin L  BY <2>3
    <3> DEFINE U == T \ {p}
    <3>2. U \in Q /\ L \subseteq U /\ U \in SUBSET K  BY <1>2, <3>1
    <3>3. Sum(T) = AddIntervals(p.share, Sum(U))  BY SumRules
    <3> HIDE DEF U
    <3>4. Above(Sum(U), Sum(L))  BY <3>2
    <3>5. Sum(U) \in Interval /\ p.share \in Interval  BY <3>2, SumRules
    <3>6. Sum(T).lower = p.share.lower + Sum(U).lower  BY <3>3 DEF AddIntervals
    <3>7. Sum(T).lowerInclusive = (p.share.lowerInclusive /\ Sum(U).lowerInclusive)
      BY <3>3 DEF AddIntervals
    <3>8. Sum(L).lower <= Sum(T).lower
      BY <2>1, <3>4, <3>5, <3>6 DEF Interval, Above
    <3>9. Sum(T).lowerInclusive => Sum(L).lowerInclusive
      BY <2>1, <3>4, <3>5, <3>7 DEF Interval, Above
    <3> QED  BY <3>8, <3>9 DEF Above
  <2> QED  BY <2>2, <2>3
<1> HIDE DEF Q
<1>3. \A T \in SUBSET K : T \in Q  BY <1>1, <1>2, Removing
<1> QED  BY <1>3 DEF Q
------------------------------------------------------------------------------
(* What is upstream of the customer.                                       *)

Sound(r) == /\ r.subject \in Entities /\ r.object \in Entities
            /\ r.measurement \in Measurement \cup {Unknown}
Graph(us) == IsFiniteSet(us) /\ \A r \in us : Sound(r)

\* The number of levels that the searches go through.
LEMMA EntityCount == Cardinality(Entities) \in Nat
BY EntitiesAssumption, FS_CardinalityType

\* One level more upstream.
Upstream(us, S) == S \cup {r.subject : r \in {u \in us : u.object \in S}}

\* The search for holders, level by level.
LEMMA Reaching ==
  ASSUME NEW us, Graph(us)
  PROVE  \E f \in [Nat -> SUBSET Entities] :
           /\ f[0] = {Target}
           /\ \A n \in Nat : f[n + 1] = Upstream(us, f[n])
           /\ ReverseReachable(us) = f[Cardinality(Entities)]
<1> DEFINE level(g) == [n \in Nat |-> IF n = 0 THEN {Target}
             ELSE g[n - 1] \cup {r.subject : r \in {u \in us : u.object \in g[n - 1]}}]
           upTo == CHOOSE g : g = level(g)
           V == SUBSET Entities
           step == [S \in V |-> Upstream(us, S)]
<1>1. {Target} \in V  BY TargetAssumption
<1>2. step \in [V -> V]
  <2>1. ASSUME NEW S \in V PROVE Upstream(us, S) \in V  BY DEF Graph, Sound, Upstream
  <2> QED  BY <2>1
<1>3. PICK f \in [Nat -> V] : f[0] = {Target} /\ \A n \in Nat : f[n + 1] = step[f[n]]
  <2> HIDE DEF step, V
  <2> QED  BY ONLY <1>1, <1>2, Iterates
<1>4. \A n \in Nat : f[n + 1] = Upstream(us, f[n])  BY <1>3
<1>5. f = level(f)
  <2>1. ASSUME NEW n \in Nat PROVE f[n] = level(f)[n]
    <3>1. CASE n = 0  BY <1>3, <3>1
    <3>2. CASE n # 0
      <4>1. n - 1 \in Nat /\ (n - 1) + 1 = n  BY <3>2
      <4>2. f[n] = Upstream(us, f[n - 1])  BY <1>4, <4>1
      <4> QED  BY <3>2, <4>2 DEF Upstream
    <3> QED  BY <3>1, <3>2
  <2> HIDE DEF V
  <2> QED  BY <1>3, <2>1
<1>6. upTo = level(upTo)
  <2> HIDE DEF level
  <2> QED  BY <1>5
<1>7. ReverseReachable(us) = upTo[Cardinality(Entities)]  BY DEF ReverseReachable
<1> HIDE DEF upTo
<1>8. \A n \in Nat : f[n] = upTo[n]
  <2> DEFINE S == {n \in Nat : f[n] = upTo[n]}
  <2>1. 0 \in S  BY <1>3, <1>6
  <2>2. ASSUME NEW n \in Nat, n \in S PROVE n + 1 \in S
    <3>1. n + 1 \in Nat /\ n + 1 # 0 /\ (n + 1) - 1 = n  OBVIOUS
    <3>2. upTo[n + 1] = Upstream(us, upTo[n])  BY <1>6, <3>1 DEF Upstream
    <3> QED  BY <1>4, <2>2, <3>1, <3>2
  <2> HIDE DEF S
  <2>3. \A n \in Nat : n \in S  BY <2>1, <2>2, Counting
  <2> QED  BY <2>3 DEF S
<1> QED  BY <1>3, <1>4, <1>7, <1>8, EntityCount

\* Everything upstream is an entity, and stays upstream in a larger graph.
LEMMA ReachGrows ==
  ASSUME NEW us, Graph(us), NEW vs, Graph(vs), us \subseteq vs
  PROVE  /\ ReverseReachable(us) \in SUBSET Entities
         /\ ReverseReachable(us) \subseteq ReverseReachable(vs)
<1>1. PICK f \in [Nat -> SUBSET Entities] :
           /\ f[0] = {Target}
           /\ \A n \in Nat : f[n + 1] = Upstream(us, f[n])
           /\ ReverseReachable(us) = f[Cardinality(Entities)]
  BY Reaching
<1>2. PICK g \in [Nat -> SUBSET Entities] :
           /\ g[0] = {Target}
           /\ \A n \in Nat : g[n + 1] = Upstream(vs, g[n])
           /\ ReverseReachable(vs) = g[Cardinality(Entities)]
  BY Reaching
<1> DEFINE S == {n \in Nat : f[n] \subseteq g[n]}
<1>3. 0 \in S  BY <1>1, <1>2
<1>4. ASSUME NEW n \in Nat, n \in S PROVE n + 1 \in S
  <2>1. f[n] \subseteq g[n]  BY <1>4
  <2>2. Upstream(us, f[n]) \subseteq Upstream(vs, g[n])  BY <2>1 DEF Upstream
  <2> QED  BY <1>1, <1>2, <2>2
<1> HIDE DEF S
<1>5. \A n \in Nat : n \in S  BY <1>3, <1>4, Counting
<1> QED  BY <1>1, <1>2, <1>5, EntityCount DEF S
------------------------------------------------------------------------------
(* Traversals towards the customer.                                        *)

Path(us) == [trail : SUBSET us, at : Entities, visited : SUBSET Entities,
             share : Interval, known : BOOLEAN]

\* The traversals one relationship longer than those of P.
Further(us, P) ==
  UNION {{Extend(p, r) : r \in {u \in Onward(p, us, ReverseReachable(us)) :
                                  u.object \notin p.visited}} : p \in P}

\* A product of intervals is an interval.
LEMMA Multiplying ==
  ASSUME NEW i \in Interval, NEW j \in Interval
  PROVE  MultiplyPercentageIntervals(i, j) \in Interval
<1>1. ASSUME NEW x \in Nat PROVE x \div Hundred \in Nat
  BY HundredAssumption
<1>2. i.lower * j.lower \in Nat /\ i.upper * j.upper \in Nat
  <2>1. ASSUME NEW x \in Nat, NEW y \in Nat PROVE x * y \in Nat  OBVIOUS
  <2>2. i.lower \in Nat /\ j.lower \in Nat /\ i.upper \in Nat /\ j.upper \in Nat
    BY DEF Interval
  <2> QED  BY <2>1, <2>2
<1> DEFINE lower == (i.lower * j.lower) \div Hundred
           upper == (i.upper * j.upper) \div Hundred
           zero == ContainsZero(i) \/ ContainsZero(j)
<1>3. lower \in Nat /\ upper \in Nat  BY <1>1, <1>2
<1>4. MultiplyPercentageIntervals(i, j) =
        [lower |-> lower, upper |-> upper,
           lowerInclusive |-> IF lower = 0 THEN zero ELSE i.lowerInclusive /\ j.lowerInclusive,
           upperInclusive |-> IF upper = 0 THEN zero ELSE i.upperInclusive /\ j.upperInclusive]
  BY DEF MultiplyPercentageIntervals
<1>5. zero \in BOOLEAN
  BY DEF ContainsZero
<1>6. /\ (i.lowerInclusive /\ j.lowerInclusive) \in BOOLEAN
      /\ (i.upperInclusive /\ j.upperInclusive) \in BOOLEAN
  BY DEF Interval
<1> HIDE DEF lower, upper, zero
<1>7. (IF lower = 0 THEN zero ELSE i.lowerInclusive /\ j.lowerInclusive) \in BOOLEAN
  BY <1>5, <1>6
<1>8. (IF upper = 0 THEN zero ELSE i.upperInclusive /\ j.upperInclusive) \in BOOLEAN
  BY <1>5, <1>6
<1> QED  BY <1>3, <1>4, <1>7, <1>8 DEF Interval

\* The traversals are paths of the graph.
LEMMA ExtendType ==
  ASSUME NEW us, Graph(us), NEW p \in Path(us), NEW r \in us
  PROVE  Extend(p, r) \in Path(us)
<1>1. Sound(r)  BY DEF Graph
<1>2. p.trail \cup {r} \in SUBSET us /\ r.object \in Entities
      /\ p.visited \cup {r.object} \in SUBSET Entities
  BY <1>1 DEF Path, Sound
<1> DEFINE share == IF r.measurement = Unknown THEN p.share
                    ELSE MultiplyPercentageIntervals(p.share, r.measurement)
           known == p.known /\ r.measurement # Unknown /\ r.temporal # "UNKNOWN"
<1>3. share \in Interval
  <2>1. p.share \in Interval  BY DEF Path
  <2>2. CASE r.measurement = Unknown  BY <2>1, <2>2
  <2>3. CASE r.measurement # Unknown
    <3>1. r.measurement \in Interval  BY <1>1, <2>3 DEF Sound, Measurement
    <3> QED  BY <2>1, <2>3, <3>1, Multiplying
  <2> QED  BY <2>2, <2>3
<1>4. known \in BOOLEAN  OBVIOUS
<1>5. Extend(p, r) = [trail |-> p.trail \cup {r}, at |-> r.object,
                      visited |-> p.visited \cup {r.object}, share |-> share, known |-> known]
  BY DEF Extend
<1> HIDE DEF share, known
<1> QED  BY <1>2, <1>3, <1>4, <1>5 DEF Path

LEMMA StartType ==
  ASSUME NEW us, NEW e \in Entities
  PROVE  Start(e) \in Path(us)
<1>1. ExactInterval(Hundred) \in Interval
  BY HundredAssumption DEF ExactInterval, Interval
<1> QED  BY <1>1 DEF Start, Path

LEMMA FurtherType ==
  ASSUME NEW us, Graph(us), NEW P \in SUBSET Path(us)
  PROVE  Further(us, P) \in SUBSET Path(us)
<1> SUFFICES ASSUME NEW q \in Further(us, P) PROVE q \in Path(us)
  OBVIOUS
<1>1. PICK p \in P : q \in {Extend(p, r) : r \in {u \in Onward(p, us, ReverseReachable(us)) :
                                                     u.object \notin p.visited}}
  BY DEF Further
<1>2. PICK r \in Onward(p, us, ReverseReachable(us)) : q = Extend(p, r)  BY <1>1
<1>3. r \in us  BY <1>2 DEF Onward
<1> QED  BY <1>2, <1>3, ExtendType

\* There are only finitely many of one length.
LEMMA FurtherFinite ==
  ASSUME NEW us, Graph(us), NEW P, IsFiniteSet(P)
  PROVE  IsFiniteSet(Further(us, P))
<1> DEFINE T == {Extend(x[1], x[2]) : x \in P \X us}
           f == [x \in P \X us |-> Extend(x[1], x[2])]
<1>1. IsFiniteSet(P \X us)  BY FS_Product DEF Graph
<1>2. f \in Surjection(P \X us, T)  BY DEF Surjection
<1>3. IsFiniteSet(T)
  <2> HIDE DEF f, T
  <2> QED  BY <1>1, <1>2, FS_Surjection
<1>4. Further(us, P) \subseteq T
  <2> SUFFICES ASSUME NEW q \in Further(us, P) PROVE q \in T
    OBVIOUS
  <2>1. PICK p \in P : q \in {Extend(p, r) : r \in {u \in Onward(p, us, ReverseReachable(us)) :
                                                       u.object \notin p.visited}}
    BY DEF Further
  <2>2. PICK r \in Onward(p, us, ReverseReachable(us)) : q = Extend(p, r)  BY <2>1
  <2>3. r \in us  BY <2>2 DEF Onward
  <2>4. <<p, r>> \in P \X us /\ <<p, r>>[1] = p /\ <<p, r>>[2] = r  BY <2>3
  <2> QED  BY <2>2, <2>4
<1> HIDE DEF T
<1> QED  BY <1>3, <1>4, FS_Subset

\* The traversals of visit, by their length.
LEMMA Traversing ==
  ASSUME NEW us, Graph(us), NEW e \in Entities
  PROVE  \E f \in [Nat -> SUBSET Path(us)] :
           /\ f[0] = {Start(e)}
           /\ \A n \in Nat : f[n + 1] = Further(us, f[n])
           /\ Traversals(us, e) = UNION {f[n] : n \in 0..Cardinality(Entities)}
<1> DEFINE level(g) == [n \in Nat |-> IF n = 0 THEN {Start(e)}
             ELSE UNION {{Extend(p, r) : r \in {u \in Onward(p, us, ReverseReachable(us)) :
                                                  u.object \notin p.visited}} : p \in g[n - 1]}]
           after == CHOOSE g : g = level(g)
           V == SUBSET Path(us)
           step == [P \in V |-> Further(us, P)]
<1>1. {Start(e)} \in V  BY StartType
<1>2. step \in [V -> V]
  <2>1. ASSUME NEW P \in V PROVE Further(us, P) \in V  BY FurtherType
  <2> QED  BY <2>1
<1>3. PICK f \in [Nat -> V] : f[0] = {Start(e)} /\ \A n \in Nat : f[n + 1] = step[f[n]]
  <2> HIDE DEF step, V
  <2> QED  BY <1>1, <1>2, Iterates
<1>4. \A n \in Nat : f[n + 1] = Further(us, f[n])  BY <1>3
<1>5. f = level(f)
  <2>1. ASSUME NEW n \in Nat PROVE f[n] = level(f)[n]
    <3>1. CASE n = 0  BY <1>3, <3>1
    <3>2. CASE n # 0
      <4>1. n - 1 \in Nat /\ (n - 1) + 1 = n  BY <3>2
      <4>2. f[n] = Further(us, f[n - 1])  BY <1>4, <4>1
      <4> QED  BY <3>2, <4>2 DEF Further
    <3> QED  BY <3>1, <3>2
  <2> HIDE DEF V
  <2> QED  BY <1>3, <2>1
<1>6. after = level(after)
  <2> HIDE DEF level
  <2> QED  BY <1>5
<1>7. Traversals(us, e) = UNION {after[n] : n \in 0..Cardinality(Entities)}
  BY DEF Traversals
<1> HIDE DEF after
<1>8. \A n \in Nat : f[n] = after[n]
  <2> DEFINE S == {n \in Nat : f[n] = after[n]}
  <2>1. 0 \in S  BY <1>3, <1>6
  <2>2. ASSUME NEW n \in Nat, n \in S PROVE n + 1 \in S
    <3>1. n + 1 \in Nat /\ n + 1 # 0 /\ (n + 1) - 1 = n  OBVIOUS
    <3>2. after[n + 1] = Further(us, after[n])  BY <1>6, <3>1 DEF Further
    <3> QED  BY <1>4, <2>2, <3>1, <3>2
  <2> HIDE DEF S
  <2>3. \A n \in Nat : n \in S  BY <2>1, <2>2, Counting
  <2> QED  BY <2>3 DEF S
<1>9. \A n \in 0..Cardinality(Entities) : f[n] = after[n]  BY <1>8, EntityCount
<1>10. Traversals(us, e) = UNION {f[n] : n \in 0..Cardinality(Entities)}  BY <1>7, <1>9
<1> HIDE DEF V
<1> QED  BY <1>3, <1>4, <1>10 DEF V

\* There are finitely many traversals, and all are paths of the graph.
LEMMA TraversalsTyped ==
  ASSUME NEW us, Graph(us), NEW e \in Entities
  PROVE  Traversals(us, e) \in SUBSET Path(us) /\ IsFiniteSet(Traversals(us, e))
<1>1. PICK f \in [Nat -> SUBSET Path(us)] :
           /\ f[0] = {Start(e)}
           /\ \A n \in Nat : f[n + 1] = Further(us, f[n])
           /\ Traversals(us, e) = UNION {f[n] : n \in 0..Cardinality(Entities)}
  BY Traversing
<1> DEFINE c == Cardinality(Entities)
           F == {f[n] : n \in 0..c}
           g == [n \in 0..c |-> f[n]]
<1>2. c \in Nat  BY EntityCount
<1> HIDE DEF c
<1>3. \A n \in Nat : IsFiniteSet(f[n])
  <2> DEFINE S == {n \in Nat : IsFiniteSet(f[n])}
  <2>1. 0 \in S  BY <1>1, FS_Singleton
  <2>2. ASSUME NEW n \in Nat, n \in S PROVE n + 1 \in S  BY <1>1, <2>2, FurtherFinite
  <2> HIDE DEF S
  <2>3. \A n \in Nat : n \in S  BY <2>1, <2>2, Counting
  <2> QED  BY <2>3 DEF S
<1>4. g \in Surjection(0..c, F)  BY DEF Surjection
<1>5. IsFiniteSet(0..c)  BY <1>2, FS_Interval
<1>6. IsFiniteSet(F)
  <2> HIDE DEF g, F
  <2> QED  BY <1>4, <1>5, FS_Surjection
<1>7. \A P \in F : IsFiniteSet(P) /\ P \in SUBSET Path(us)  BY <1>2, <1>3
<1>8. Traversals(us, e) = UNION F  BY <1>1 DEF c
<1> HIDE DEF F
<1> QED  BY <1>6, <1>7, <1>8, FS_UNION

\* A traversal remains one in a larger graph.
LEMMA TraversalsGrow ==
  ASSUME NEW us, Graph(us), NEW vs, Graph(vs), us \subseteq vs, NEW e \in Entities
  PROVE  Traversals(us, e) \subseteq Traversals(vs, e)
<1>1. PICK f \in [Nat -> SUBSET Path(us)] :
           /\ f[0] = {Start(e)}
           /\ \A n \in Nat : f[n + 1] = Further(us, f[n])
           /\ Traversals(us, e) = UNION {f[n] : n \in 0..Cardinality(Entities)}
  BY Traversing
<1>2. PICK g \in [Nat -> SUBSET Path(vs)] :
           /\ g[0] = {Start(e)}
           /\ \A n \in Nat : g[n + 1] = Further(vs, g[n])
           /\ Traversals(vs, e) = UNION {g[n] : n \in 0..Cardinality(Entities)}
  BY Traversing
<1> DEFINE S == {n \in Nat : f[n] \subseteq g[n]}
<1>3. 0 \in S  BY <1>1, <1>2
<1>4. ASSUME NEW n \in Nat, n \in S PROVE n + 1 \in S
  <2>1. f[n] \subseteq g[n]  BY <1>4
  <2>2. ReverseReachable(us) \subseteq ReverseReachable(vs)  BY ReachGrows
  <2>3. \A p : Onward(p, us, ReverseReachable(us)) \subseteq Onward(p, vs, ReverseReachable(vs))
    BY <2>2 DEF Onward
  <2>4. Further(us, f[n]) \subseteq Further(vs, g[n])
    <3> SUFFICES ASSUME NEW q \in Further(us, f[n]) PROVE q \in Further(vs, g[n])
      OBVIOUS
    <3>1. PICK p \in f[n] : q \in {Extend(p, r) : r \in {u \in Onward(p, us, ReverseReachable(us)) :
                                                         u.object \notin p.visited}}
      BY DEF Further
    <3>2. PICK r \in Onward(p, us, ReverseReachable(us)) :
                 r.object \notin p.visited /\ q = Extend(p, r)
      BY <3>1
    <3>3. p \in g[n] /\ r \in Onward(p, vs, ReverseReachable(vs))  BY <2>1, <2>3
    <3> QED  BY <3>2, <3>3 DEF Further
  <2>5. f[n + 1] \subseteq g[n + 1]
    <3>1. f[n + 1] = Further(us, f[n]) /\ g[n + 1] = Further(vs, g[n])  BY <1>1, <1>2
    <3> QED  BY <2>4, <3>1
  <2> QED  BY <2>5
<1> HIDE DEF S
<1>5. \A n \in Nat : n \in S  BY <1>3, <1>4, Counting
<1>6. \A n \in 0..Cardinality(Entities) : f[n] \subseteq g[n]  BY <1>5, EntityCount DEF S
<1> QED  BY <1>1, <1>2, <1>6
------------------------------------------------------------------------------
(* The determination of one holder.                                        *)

KnownOf(us, e) == KnownPaths({p \in Traversals(us, e) : Arrived(p)})

\* What is added up are finitely many intervals.
LEMMA KnownTyped ==
  ASSUME NEW us, Graph(us), NEW e \in Entities
  PROVE  /\ IsFiniteSet(KnownOf(us, e))
         /\ \A p \in KnownOf(us, e) : p.share \in Interval
         /\ Sum(KnownOf(us, e)) \in Interval
<1>1. KnownOf(us, e) \in SUBSET Traversals(us, e)  BY DEF KnownOf, KnownPaths
<1>2. IsFiniteSet(KnownOf(us, e))  BY <1>1, TraversalsTyped, FS_Subset
<1>3. \A p \in KnownOf(us, e) : p.share \in Interval  BY <1>1, TraversalsTyped DEF Path
<1>4. Sum(KnownOf(us, e)) \in Interval  BY <1>2, <1>3, SumRules
<1> QED  BY <1>2, <1>3, <1>4

LEMMA Aggregate ==
  ASSUME NEW K
  PROVE  AggregateKnownPaths(K) = CapPercentageInterval(Sum(K))
BY DEF AggregateKnownPaths, Sum

\* Cutting off at 100% does not move the lower end.
LEMMA Capping ==
  ASSUME NEW i \in Interval
  PROVE  /\ CapPercentageInterval(i) \in Interval
         /\ WhollyAbove(CapPercentageInterval(i)) <=> WhollyAbove(i)
<1>1. CASE i.upper <= Hundred  BY <1>1 DEF CapPercentageInterval
<1>2. CASE ~ (i.upper <= Hundred)
  <2> DEFINE j == [i EXCEPT !.upper = Hundred, !.upperInclusive = TRUE]
  <2>1. CapPercentageInterval(i) = j  BY <1>2 DEF CapPercentageInterval
  <2>2. j \in Interval  BY HundredAssumption DEF Interval
  <2>3. j.lower = i.lower /\ j.lowerInclusive = i.lowerInclusive  BY DEF Interval
  <2> HIDE DEF j
  <2> QED  BY <2>1, <2>2, <2>3 DEF WhollyAbove
<1> QED  BY <1>1, <1>2

\* A holder is above the threshold when its known part is.
LEMMA Assessing ==
  ASSUME NEW status, NEW known \in BOOLEAN, NEW value
  PROVE  Assess(status, known, value) = "SATISFIED" <=>
           status # "NO_PATH" /\ known /\ WhollyAbove(value)
BY DEF Assess

Established(us, e) ==
  TerminalConceptEstablished({p \in Traversals(us, e) : Arrived(p)})

\* It is found so when besides all its traversals end in the concept.
LEMMA Determination ==
  ASSUME NEW us, Graph(us), NEW e \in Entities
  PROVE  LET d == EffectivePercentage(us, e) IN
         /\ d.value \in Interval
         /\ d.status \in {"NO_PATH", "COMPLETE", "PARTIAL", "UNRESOLVED"}
         /\ d.state \in {"SATISFIED", "NOT_SATISFIED", "INDETERMINATE"}
         /\ d.state = "SATISFIED" <=>
              /\ Established(us, e)
              /\ KnownOf(us, e) # {} /\ WhollyAbove(Sum(KnownOf(us, e)))
         /\ ~ Established(us, e) => d.state = "INDETERMINATE"
<1> DEFINE ts     == Traversals(us, e)
           paths  == {p \in ts : Arrived(p)}
           known  == KnownPaths(paths)
           status == Status(paths, Cycles(us, ts))
           value  == AggregateKnownPaths(known)
           d      == EffectivePercentage(us, e)
           assessed == Assess(status, known # {}, value)
<1>1. d = [status |-> status, known |-> known # {}, value |-> value,
           state |-> IF TerminalConceptEstablished(paths) THEN assessed ELSE "INDETERMINATE"]
  BY DEF EffectivePercentage, BasisState
<1>2. known = KnownOf(us, e)  BY DEF KnownOf
<1>3. value \in Interval /\ (WhollyAbove(value) <=> WhollyAbove(Sum(known)))
  BY <1>2, KnownTyped, Aggregate, Capping
<1>4. status \in {"NO_PATH", "COMPLETE", "PARTIAL", "UNRESOLVED"}  BY DEF Status
<1>5. known # {} => status # "NO_PATH"  BY DEF Status, KnownPaths
<1>6. TerminalConceptEstablished(paths) <=> Established(us, e)  BY DEF Established
<1> HIDE DEF status, known, value, paths, d
<1>7. assessed \in {"SATISFIED", "NOT_SATISFIED", "INDETERMINATE"}
  BY DEF Assess
<1>8. assessed = "SATISFIED" <=> known # {} /\ WhollyAbove(value)
  BY <1>5, Assessing
<1> HIDE DEF assessed
<1>9. /\ d.value = value /\ d.status = status
      /\ d.state = IF Established(us, e) THEN assessed ELSE "INDETERMINATE"
  BY <1>1, <1>6
<1> QED  BY <1>2, <1>3, <1>4, <1>7, <1>8, <1>9 DEF d

\* In a larger graph a holder is still above the threshold, but for the concept.
LEMMA StillAbove ==
  ASSUME NEW us, Graph(us), NEW vs, Graph(vs), us \subseteq vs, NEW e \in Entities,
         EffectivePercentage(us, e).state = "SATISFIED"
  PROVE  EffectivePercentage(vs, e).state =
           IF Established(vs, e) THEN "SATISFIED" ELSE "INDETERMINATE"
<1> DEFINE K == KnownOf(us, e)
           M == KnownOf(vs, e)
<1>1. K # {} /\ WhollyAbove(Sum(K))  BY Determination
<1>2. K \in SUBSET M  BY TraversalsGrow DEF KnownOf, KnownPaths
<1>3. Above(Sum(M), Sum(K))  BY <1>2, KnownTyped, SumGrows
<1>4. Sum(M) \in Interval /\ Sum(K) \in Interval  BY KnownTyped
<1>5. WhollyAbove(Sum(M))
  BY <1>1, <1>3, <1>4, ThresholdAssumption DEF WhollyAbove, Above, Interval
<1>6. M # {}  BY <1>1, <1>2
<1> QED  BY <1>5, <1>6, Determination

------------------------------------------------------------------------------
(* The case.                                                               *)

Uptodate == evaluation = Evaluate(operative)
GInv == operative \in SUBSET Claims /\ IsFiniteSet(operative) /\ Uptodate

Current(cs) == Usable(Relationships(cs))

\* A case has a finite graph, and further claims add to it.
LEMMA CaseGraph ==
  ASSUME NEW cs \in SUBSET Claims, IsFiniteSet(cs)
  PROVE  Graph(Current(cs))
<1> DEFINE rel(c) == [slot |-> Slot(c), subject |-> c.subject, object |-> c.object,
                      dimension |-> c.dimension, temporal |-> TemporalState(c),
                      measurement |-> c.measurement]
           f == [c \in cs |-> rel(c)]
<1>1. Relationships(cs) = {rel(c) : c \in cs}  BY DEF Relationships
<1> HIDE DEF rel
<1>2. f \in Surjection(cs, Relationships(cs))  BY <1>1 DEF Surjection
<1>3. IsFiniteSet(Relationships(cs))  BY <1>2, FS_Surjection
<1>4. \A c \in cs : Sound(rel(c))  BY ClaimsAssumption DEF Sound, rel
<1>5. Current(cs) \in SUBSET Relationships(cs)  BY DEF Current, Usable
<1> QED  BY <1>1, <1>3, <1>4, <1>5, FS_Subset DEF Graph

LEMMA CaseGrows ==
  ASSUME NEW cs, NEW ds, cs \subseteq ds
  PROVE  Current(cs) \subseteq Current(ds)
BY DEF Current, Usable, Relationships

\* What is answered for a case, when it can be evaluated and when not.
LEMMA Answers ==
  ASSUME NEW cs
  PROVE  LET v == Evaluate(cs) IN
         /\ v.error \in {"NONE", "CONTRADICTORY_TEMPORAL_STATE",
                         "CONFLICTING_OPERATIVE_CLAIMS", "IMPOSSIBLE_MINIMUM_TOTAL"}
         /\ v.error # "NONE" => DOMAIN v.holders = {}
         /\ v.error = "NONE" =>
              /\ v.graph = Relationships(cs)
              /\ DOMAIN v.holders = Holders(Current(cs))
              /\ \A e \in Holders(Current(cs)) : v.holders[e] = EffectivePercentage(Current(cs), e)
<1>1. DOMAIN NoHolders = {}  BY DEF NoHolders
<1> QED  BY <1>1 DEF Evaluate, Current

\* Whatever becomes operative, the evaluation is that of the present claims.
LEMMA CaseInvariance == Spec => []GInv
<1>1. Init => GInv
  BY FS_EmptySet DEF Init, GInv, Uptodate
<1>2. GInv /\ [Next]_vars => GInv'
  <2> SUFFICES ASSUME GInv, [Next]_vars PROVE GInv'
    OBVIOUS
  <2>1. ASSUME NEW c \in Claims, MakeOperative(c) PROVE GInv'
    BY <2>1, FS_AddElement DEF GInv, Uptodate, MakeOperative
  <2>2. CASE UNCHANGED vars  BY <2>2 DEF GInv, Uptodate, vars
  <2> QED  BY <2>1, <2>2 DEF Next
<1> QED  BY <1>1, <1>2, PTL DEF Spec

\* For every number of entities and claims the evaluation is well-typed, all
\* recursions of the calculation being defined.
THEOREM TypeCorrect == Spec => []TypeOK
<1>1. GInv => TypeOK
  <2> SUFFICES ASSUME GInv PROVE TypeOK
    OBVIOUS
  <2> DEFINE us == Current(operative)
  <2>1. Graph(us)  BY CaseGraph DEF GInv
  <2>2. Holders(us) \subseteq Entities \ {Target}  BY <2>1, ReachGrows DEF Holders
  <2> HIDE DEF us
  <2>3. evaluation.error \in {"NONE", "CONTRADICTORY_TEMPORAL_STATE",
                         "CONFLICTING_OPERATIVE_CLAIMS", "IMPOSSIBLE_MINIMUM_TOTAL"}
    BY Answers DEF GInv, Uptodate
  <2>4. CASE evaluation.error # "NONE"
    <3>1. DOMAIN evaluation.holders = {}  BY <2>4, Answers DEF GInv, Uptodate
    <3> QED  BY <2>3, <3>1 DEF TypeOK, GInv
  <2>5. CASE evaluation.error = "NONE"
    <3>1. /\ DOMAIN evaluation.holders = Holders(us)
          /\ \A e \in Holders(us) : evaluation.holders[e] = EffectivePercentage(us, e)
      BY <2>5, Answers DEF GInv, Uptodate, us
    <3>2. ASSUME NEW e \in DOMAIN evaluation.holders
          PROVE  /\ Evaluated(e).value \in Interval
                 /\ Evaluated(e).status \in {"NO_PATH", "COMPLETE", "PARTIAL", "UNRESOLVED"}
                 /\ Evaluated(e).state \in {"SATISFIED", "NOT_SATISFIED", "INDETERMINATE"}
      <4>1. e \in Entities  BY <2>2, <3>1
      <4> QED  BY <2>1, <3>1, <4>1, Determination DEF Evaluated
    <3> QED  BY <2>2, <2>3, <3>1, <3>2 DEF TypeOK, GInv
  <2> QED  BY <2>4, <2>5
<1> QED  BY <1>1, CaseInvariance, PTL

------------------------------------------------------------------------------
(* Downstream of a holder, and what the traversals say of it.              *)

Succ(us, x) ==
  {r.object : r \in {u \in us : u.subject = x /\ u.object \in ReverseReachable(us)}}
Downward(us, S, stop) == S \cup UNION {Succ(us, x) : x \in S \ stop}
Level(us, S, stop) ==
  CHOOSE f : /\ f \in [Nat -> SUBSET Entities] /\ f[0] = S
             /\ \A n \in Nat : f[n + 1] = Downward(us, f[n], stop)

\* Levels that grow by one step grow.
LEMMA Growing ==
  ASSUME NEW f, \A n \in Nat : f[n] \subseteq f[n + 1]
  PROVE  \A n, m \in Nat : n <= m => f[n] \subseteq f[m]
<1> SUFFICES ASSUME NEW n \in Nat PROVE \A m \in Nat : n <= m => f[n] \subseteq f[m]
  OBVIOUS
<1> DEFINE S == {m \in Nat : n <= m => f[n] \subseteq f[m]}
<1>1. 0 \in S
  <2>1. n <= 0 => n = 0  OBVIOUS
  <2> QED  BY <2>1
<1>2. ASSUME NEW m \in Nat, m \in S PROVE m + 1 \in S
  <2>1. n <= m + 1 => n <= m \/ n = m + 1  OBVIOUS
  <2>2. n <= m => f[n] \subseteq f[m]  BY <1>2
  <2>3. f[m] \subseteq f[m + 1]  OBVIOUS
  <2>4. n <= m + 1 => f[n] \subseteq f[m + 1]  BY <2>1, <2>2, <2>3
  <2> QED  BY <2>4
<1> HIDE DEF S
<1>3. \A m \in Nat : m \in S  BY <1>1, <1>2, Counting
<1> QED  BY <1>3 DEF S

LEMMA TargetReached ==
  ASSUME NEW us, Graph(us)
  PROVE  Target \in ReverseReachable(us)
<1>1. PICK f \in [Nat -> SUBSET Entities] :
           /\ f[0] = {Target}
           /\ \A n \in Nat : f[n + 1] = Upstream(us, f[n])
           /\ ReverseReachable(us) = f[Cardinality(Entities)]
  BY Reaching
<1>2. \A n \in Nat : f[n] \subseteq f[n + 1]  BY <1>1 DEF Upstream
<1>3. \A n, m \in Nat : n <= m => f[n] \subseteq f[m]  BY <1>2, Growing
<1>4. f[0] \subseteq f[Cardinality(Entities)]  BY <1>3, EntityCount
<1> QED  BY <1>1, <1>4

LEMMA SuccType ==
  ASSUME NEW us, Graph(us), NEW x
  PROVE  Succ(us, x) \in SUBSET Entities
BY DEF Succ, Graph, Sound

\* The levels downstream of a set, and of the successors of an entity.
LEMMA Levels ==
  ASSUME NEW us, Graph(us), NEW S \in SUBSET Entities, NEW stop
  PROVE  LET f == Level(us, S, stop) IN
         /\ f \in [Nat -> SUBSET Entities] /\ f[0] = S
         /\ \A n \in Nat : f[n + 1] = Downward(us, f[n], stop)
         /\ \A n, m \in Nat : n <= m => f[n] \subseteq f[m]
<1> DEFINE V == SUBSET Entities
           step == [X \in V |-> Downward(us, X, stop)]
           f == Level(us, S, stop)
<1>1. step \in [V -> V]
  <2>1. ASSUME NEW X \in V PROVE Downward(us, X, stop) \in V  BY SuccType DEF Downward
  <2> QED  BY <2>1
<1>2. PICK g \in [Nat -> V] : g[0] = S /\ \A n \in Nat : g[n + 1] = step[g[n]]
  <2> HIDE DEF step, V
  <2>1. S \in V  BY DEF V
  <2> QED  BY <1>1, <2>1, Iterates
<1>3. \A n \in Nat : g[n + 1] = Downward(us, g[n], stop)  BY <1>2
<1>4. /\ f \in [Nat -> V] /\ f[0] = S
      /\ \A n \in Nat : f[n + 1] = Downward(us, f[n], stop)
  BY <1>2, <1>3 DEF Level
<1> HIDE DEF f, V
<1>5. \A n \in Nat : f[n] \subseteq f[n + 1]  BY <1>4 DEF Downward
<1>6. \A n, m \in Nat : n <= m => f[n] \subseteq f[m]  BY <1>5, Growing
<1> QED  BY <1>4, <1>6 DEF f, V

LEMMA SuccLevels ==
  ASSUME NEW us, Graph(us), NEW x
  PROVE  LET f == Level(us, Succ(us, x), {Target}) IN
         /\ f[0] = Succ(us, x)
         /\ \A n \in Nat : f[n + 1] = Downward(us, f[n], {Target})
         /\ \A n, m \in Nat : n <= m => f[n] \subseteq f[m]
<1>1. ASSUME NEW X \in SUBSET Entities
      PROVE  LET f == Level(us, X, {Target}) IN
             /\ f[0] = X
             /\ \A n \in Nat : f[n + 1] = Downward(us, f[n], {Target})
             /\ \A n, m \in Nat : n <= m => f[n] \subseteq f[m]
  BY Levels
<1> QED  BY <1>1, SuccType

LEMMA HolderLevels ==
  ASSUME NEW us, Graph(us), NEW x \in Entities
  PROVE  LET f == Level(us, {x}, {Target}) IN
         /\ f[0] = {x}
         /\ \A n \in Nat : f[n + 1] = Downward(us, f[n], {Target})
<1>1. ASSUME NEW S \in SUBSET Entities, NEW stop
      PROVE  LET f == Level(us, S, stop) IN
             f[0] = S /\ \A n \in Nat : f[n + 1] = Downward(us, f[n], stop)
  BY ONLY Graph(us), S \in SUBSET Entities, Levels
<1>2. {x} \in SUBSET Entities  OBVIOUS
<1> QED  BY <1>1, <1>2, Zenon

\* They are what StatusExplained speaks of.
LEMMA DownstreamLevel ==
  ASSUME Graph(Usables), NEW S \in SUBSET Entities, NEW stop
  PROVE  /\ \A x : Successors(x) = Succ(Usables, x)
         /\ Downstream(S, stop) = Level(Usables, S, stop)[Cardinality(Entities)]
<1> DEFINE us == Usables
<1>1. \A x : Successors(x) = Succ(us, x)  BY DEF Successors, Succ
<1> DEFINE level(g) == [n \in Nat |-> IF n = 0 THEN S
             ELSE g[n - 1] \cup UNION {Successors(x) : x \in g[n - 1] \ stop}]
           upTo == CHOOSE g : g = level(g)
           f == Level(us, S, stop)
<1> HIDE DEF us
<1>2. /\ f \in [Nat -> SUBSET Entities] /\ f[0] = S
      /\ \A n \in Nat : f[n + 1] = Downward(us, f[n], stop)
  BY Levels DEF us
<1>3. \A X : Downward(us, X, stop) = X \cup UNION {Successors(x) : x \in X \ stop}
  BY <1>1 DEF Downward
<1> HIDE DEF f
<1>4. f = level(f)
  <2>1. ASSUME NEW n \in Nat PROVE f[n] = level(f)[n]
    <3>1. CASE n = 0  BY <1>2, <3>1
    <3>2. CASE n # 0
      <4>1. n - 1 \in Nat /\ (n - 1) + 1 = n  BY <3>2
      <4>2. f[n] = Downward(us, f[n - 1], stop)  BY <1>2, <4>1
      <4> QED  BY <1>3, <3>2, <4>2
    <3> QED  BY <3>1, <3>2
  <2> QED  BY <1>2, <2>1
<1>5. upTo = level(upTo)
  <2> HIDE DEF level
  <2> QED  BY <1>4
<1>6. Downstream(S, stop) = upTo[Cardinality(Entities)]  BY DEF Downstream
<1> HIDE DEF upTo
<1>7. \A n \in Nat : f[n] = upTo[n]
  <2> DEFINE T == {n \in Nat : f[n] = upTo[n]}
  <2>1. 0 \in T  BY <1>2, <1>5
  <2>2. ASSUME NEW n \in Nat, n \in T PROVE n + 1 \in T
    <3>1. n + 1 \in Nat /\ n + 1 # 0 /\ (n + 1) - 1 = n  OBVIOUS
    <3>2. upTo[n + 1] = Downward(us, upTo[n], stop)  BY <1>3, <1>5, <3>1
    <3> QED  BY <1>2, <2>2, <3>1, <3>2
  <2> HIDE DEF T
  <2>3. \A n \in Nat : n \in T  BY <2>1, <2>2, Counting
  <2> QED  BY <2>3 DEF T
<1> QED  BY <1>1, <1>6, <1>7, EntityCount DEF f, us
Certain(r) == r.measurement # Unknown /\ r.temporal # "UNKNOWN"

\* A traversal of n relationships from e: where it has been, and what lies
\* downstream of what.
Located(us, e, n, p) ==
  /\ p.at \in p.visited /\ e \in p.visited /\ p.at \in ReverseReachable(us)
  /\ p.trail = {} => p.at = e
  /\ Target \in p.visited => p.at = Target
Counted(n, p) == IsFiniteSet(p.visited) /\ Cardinality(p.visited) = n + 1
Trailed(us, p) ==
  /\ p.known <=> \A r \in p.trail : Certain(r)
  /\ \A r \in p.trail : /\ r.subject \in p.visited \ {Target}
                         /\ r.object \in p.visited /\ r.object \in ReverseReachable(us)
Placed(us, e, n, p) ==
  \A v \in p.visited :
    /\ v \in Level(us, {e}, {Target})[n]
    /\ v # p.at => p.at \in Level(us, Succ(us, v), {Target})[n]
Shape(us, e, n, p) ==
  /\ p \in Path(us) /\ Located(us, e, n, p) /\ Counted(n, p)
  /\ Trailed(us, p) /\ Placed(us, e, n, p)

\* Every traversal has this shape.
LEMMA StartShape ==
  ASSUME NEW us, Graph(us), NEW e \in Entities \ {Target}, e \in ReverseReachable(us)
  PROVE  Shape(us, e, 0, Start(e))
<1> DEFINE p == Start(e)
<1>1. p.trail = {} /\ p.at = e /\ p.visited = {e} /\ p.known = TRUE  BY DEF Start
<1>2. p \in Path(us)  BY StartType
<1> HIDE DEF p
<1>3. Located(us, e, 0, p)  BY <1>1 DEF Located
<1>4. Counted(0, p)
  <2>1. IsFiniteSet({e}) /\ Cardinality({e}) = 1  BY FS_Singleton
  <2> QED  BY <1>1, <2>1 DEF Counted
<1>5. Trailed(us, p)  BY <1>1 DEF Trailed
<1>6. {e} \in SUBSET Entities  OBVIOUS
<1>7. Level(us, {e}, {Target})[0] = {e}  BY <1>6, Levels
<1>8. Placed(us, e, 0, p)  BY <1>1, <1>7 DEF Placed
<1> QED  BY <1>2, <1>3, <1>4, <1>5, <1>8 DEF Shape, p

LEMMA ExtendShape ==
  ASSUME NEW us, Graph(us), NEW e \in Entities \ {Target}, NEW n \in Nat,
         NEW p, Shape(us, e, n, p), p.at # Target,
         NEW r \in us, r.subject = p.at, r.object \in ReverseReachable(us),
         r.object \notin p.visited
  PROVE  Shape(us, e, n + 1, Extend(p, r))
<1> DEFINE q == Extend(p, r)
           o == r.object
<1>1. /\ q.trail = p.trail \cup {r} /\ q.at = o /\ q.visited = p.visited \cup {o}
      /\ q.known = (p.known /\ r.measurement # Unknown /\ r.temporal # "UNKNOWN")
  BY DEF Extend
<1>2. q \in Path(us)  BY ExtendType DEF Shape
<1> HIDE DEF q
<1>3. p.at \in p.visited /\ e \in p.visited /\ Target \notin p.visited
  BY DEF Shape, Located
<1>4. Located(us, e, n + 1, q)  BY <1>1, <1>3 DEF Located
<1>5. Counted(n + 1, q)
  <2>1. IsFiniteSet(p.visited) /\ Cardinality(p.visited) = n + 1  BY DEF Shape, Counted
  <2>2. /\ IsFiniteSet(p.visited \cup {o})
        /\ Cardinality(p.visited \cup {o}) = Cardinality(p.visited) + 1
    BY <2>1, FS_AddElement
  <2>3. IsFiniteSet(q.visited) /\ Cardinality(q.visited) = (n + 1) + 1
    BY <1>1, <2>1, <2>2
  <2> QED  BY <2>3 DEF Counted
<1>6. Trailed(us, q)
  <2>1. Trailed(us, p)  BY DEF Shape
  <2>2. q.known <=> \A x \in q.trail : Certain(x)
    <3>1. q.known <=> p.known /\ Certain(r)  BY <1>1 DEF Certain
    <3> QED  BY <1>1, <2>1, <3>1 DEF Trailed
  <2>3. ASSUME NEW x \in q.trail
        PROVE  /\ x.subject \in q.visited \ {Target}
               /\ x.object \in q.visited /\ x.object \in ReverseReachable(us)
    <3>1. CASE x \in p.trail  BY <1>1, <2>1, <3>1 DEF Trailed
    <3>2. CASE x = r  BY <1>1, <1>3, <3>2
    <3> QED  BY <1>1, <3>1, <3>2
  <2> QED  BY <2>2, <2>3 DEF Trailed
<1>7. Placed(us, e, n + 1, q)
  <2>1. Placed(us, e, n, p)  BY DEF Shape
  <2>2. o \in Succ(us, p.at)  BY DEF Succ
  <2>3. n <= n + 1 /\ 0 <= n + 1 /\ n + 1 \in Nat  OBVIOUS
  <2> DEFINE L == Level(us, {e}, {Target})
  <2>4. /\ L[n] \subseteq L[n + 1] /\ L[n + 1] = Downward(us, L[n], {Target})
    <3>1. {e} \in SUBSET Entities  OBVIOUS
    <3> QED  BY <2>3, <3>1, Levels
  <2> HIDE DEF L
  <2>5. p.at \in L[n]  BY <1>3, <2>1 DEF Placed, L
  <2>6. o \in L[n + 1]  BY <2>2, <2>4, <2>5 DEF Downward
  <2>7. ASSUME NEW v \in p.visited PROVE o \in Level(us, Succ(us, v), {Target})[n + 1]
    <3> DEFINE C == Level(us, Succ(us, v), {Target})
    <3>5. /\ C[0] = Succ(us, v)
          /\ \A k \in Nat : C[k + 1] = Downward(us, C[k], {Target})
          /\ \A k, m \in Nat : k <= m => C[k] \subseteq C[m]
      BY SuccLevels
    <3> HIDE DEF C
    <3>1. /\ C[0] = Succ(us, v) /\ C[0] \subseteq C[n + 1]
          /\ C[n + 1] = Downward(us, C[n], {Target})
      BY <2>3, <3>5
    <3>2. v # p.at => p.at \in C[n]  BY <2>1 DEF Placed, C
    <3>3. CASE v = p.at
      <4>1. o \in C[n + 1]  BY <2>2, <3>1, <3>3
      <4> QED  BY <4>1 DEF C
    <3>4. CASE v # p.at
      <4>1. o \in C[n + 1]  BY <2>2, <3>1, <3>2, <3>4 DEF Downward
      <4> QED  BY <4>1 DEF C
    <3> QED  BY <3>3, <3>4
  <2>8. ASSUME NEW v \in q.visited
        PROVE  /\ v \in L[n + 1]
               /\ v # q.at => q.at \in Level(us, Succ(us, v), {Target})[n + 1]
    <3>1. CASE v = o  BY <1>1, <2>6, <3>1
    <3>2. CASE v \in p.visited
      <4>1. v \in L[n]  BY <2>1, <3>2 DEF Placed, L
      <4> QED  BY <1>1, <2>4, <2>7, <3>2, <4>1
    <3> QED  BY <1>1, <3>1, <3>2
  <2> QED  BY <2>8 DEF Placed, L
<1> QED  BY <1>2, <1>4, <1>5, <1>6, <1>7 DEF Shape, q

\* The traversals of a holder, by their length, which is less than the number
\* of entities.
LEMMA Shapes ==
  ASSUME NEW us, Graph(us), NEW e \in Entities \ {Target}, e \in ReverseReachable(us)
  PROVE  \E f \in [Nat -> SUBSET Path(us)] :
           /\ f[0] = {Start(e)}
           /\ \A n \in Nat : f[n + 1] = Further(us, f[n])
           /\ Traversals(us, e) = UNION {f[n] : n \in 0..Cardinality(Entities)}
           /\ \A n \in Nat : \A p \in f[n] :
                Shape(us, e, n, p) /\ n + 1 <= Cardinality(Entities)
<1>1. PICK f \in [Nat -> SUBSET Path(us)] :
           /\ f[0] = {Start(e)}
           /\ \A n \in Nat : f[n + 1] = Further(us, f[n])
           /\ Traversals(us, e) = UNION {f[n] : n \in 0..Cardinality(Entities)}
  BY Traversing
<1> DEFINE S == {n \in Nat : \A p \in f[n] : Shape(us, e, n, p)}
<1>2. 0 \in S
  <2>1. \A p \in f[0] : p = Start(e)  BY <1>1
  <2> QED  BY <2>1, StartShape
<1>3. ASSUME NEW n \in Nat, n \in S PROVE n + 1 \in S
  <2> SUFFICES ASSUME NEW q \in f[n + 1] PROVE Shape(us, e, n + 1, q)
    OBVIOUS
  <2>1. q \in Further(us, f[n])  BY <1>1
  <2>2. PICK p \in f[n] : q \in {Extend(p, r) : r \in {u \in Onward(p, us, ReverseReachable(us)) :
                                                       u.object \notin p.visited}}
    BY <2>1 DEF Further
  <2>3. PICK r \in Onward(p, us, ReverseReachable(us)) :
               r.object \notin p.visited /\ q = Extend(p, r)
    BY <2>2
  <2>4. Shape(us, e, n, p)  BY <1>3
  <2>5. ~ Arrived(p) /\ r \in us /\ r.subject = p.at /\ r.object \in ReverseReachable(us)
    BY <2>3 DEF Onward
  <2>6. p.at # Target  BY <2>4, <2>5 DEF Arrived, Shape, Located
  <2> QED  BY <2>3, <2>4, <2>5, <2>6, ExtendShape
<1>4. \A n \in Nat : \A p \in f[n] : Shape(us, e, n, p)
  <2> HIDE DEF S
  <2>1. \A n \in Nat : n \in S  BY <1>2, <1>3, Counting
  <2> QED  BY <2>1 DEF S
<1>5. ASSUME NEW n \in Nat, NEW p \in f[n] PROVE n + 1 <= Cardinality(Entities)
  <2>1. p.visited \in SUBSET Entities  BY <1>4 DEF Shape, Path
  <2>2. Cardinality(p.visited) <= Cardinality(Entities)  BY <2>1, EntitiesAssumption, FS_Subset
  <2>3. Cardinality(p.visited) = n + 1  BY <1>4 DEF Shape, Counted
  <2> QED  BY <2>2, <2>3
<1> QED  BY <1>1, <1>4, <1>5
------------------------------------------------------------------------------
(* A calculation without cycles follows every way to the customer.         *)

\* The same, for one traversal.
LEMMA InShape ==
  ASSUME NEW us, Graph(us), NEW e \in Entities \ {Target}, e \in ReverseReachable(us),
         NEW p \in Traversals(us, e)
  PROVE  \E n \in Nat : n + 1 <= Cardinality(Entities) /\ Shape(us, e, n, p)
<1>1. PICK f \in [Nat -> SUBSET Path(us)] :
           /\ f[0] = {Start(e)}
           /\ \A n \in Nat : f[n + 1] = Further(us, f[n])
           /\ Traversals(us, e) = UNION {f[n] : n \in 0..Cardinality(Entities)}
           /\ \A n \in Nat : \A q \in f[n] :
                Shape(us, e, n, q) /\ n + 1 <= Cardinality(Entities)
  BY Shapes
<1>2. PICK n \in 0..Cardinality(Entities) : p \in f[n]  BY <1>1
<1>3. n \in Nat  BY EntityCount
<1> QED  BY <1>1, <1>2, <1>3

\* A traversal takes every relationship that leads on to where it has not been.
LEMMA TakesNew ==
  ASSUME NEW us, Graph(us), NEW e \in Entities \ {Target}, e \in ReverseReachable(us),
         NEW p \in Traversals(us, e), p.at # Target,
         NEW r \in us, r.subject = p.at, r.object \in ReverseReachable(us),
         r.object \notin p.visited
  PROVE  Extend(p, r) \in Traversals(us, e)
<1> DEFINE ts == Traversals(us, e)
<1>1. r \in Onward(p, us, ReverseReachable(us))  BY DEF Onward, Arrived
<1>2. PICK f \in [Nat -> SUBSET Path(us)] :
           /\ f[0] = {Start(e)}
           /\ \A n \in Nat : f[n + 1] = Further(us, f[n])
           /\ ts = UNION {f[n] : n \in 0..Cardinality(Entities)}
           /\ \A n \in Nat : \A q \in f[n] :
                Shape(us, e, n, q) /\ n + 1 <= Cardinality(Entities)
  BY Shapes
<1>3. PICK n \in 0..Cardinality(Entities) : p \in f[n]  BY <1>2
<1>4. n \in Nat /\ n + 1 \in 0..Cardinality(Entities)  BY <1>2, <1>3, EntityCount
<1>5. Extend(p, r) \in Further(us, f[n])  BY <1>1, <1>3 DEF Further
<1>6. Extend(p, r) \in f[n + 1]  BY <1>2, <1>4, <1>5
<1> HIDE DEF ts
<1>7. Extend(p, r) \in ts  BY <1>2, <1>4, <1>6
<1> QED  BY <1>7 DEF ts

\* Without cycles that is every relationship that leads on.
LEMMA Onwards ==
  ASSUME NEW us, Graph(us), NEW e \in Entities \ {Target}, e \in ReverseReachable(us),
         Cycles(us, Traversals(us, e)) = {}, NEW p \in Traversals(us, e), p.at # Target,
         NEW r \in us, r.subject = p.at, r.object \in ReverseReachable(us)
  PROVE  r.object \notin p.visited /\ Extend(p, r) \in Traversals(us, e)
<1> DEFINE R == ReverseReachable(us)
           ts == Traversals(us, e)
<1>1. r \in Onward(p, us, R)  BY DEF Onward, Arrived
<1>2. r.object \notin p.visited
  <2> SUFFICES ASSUME r.object \in p.visited PROVE FALSE
    OBVIOUS
  <2> HIDE DEF R, ts
  <2>1. r \in {u \in Onward(p, us, R) : u.object \in p.visited}  BY <1>1
  <2>2. p.trail \cup {r} \in Cycles(us, ts)  BY <2>1 DEF Cycles, R, ts
  <2> QED  BY <2>2 DEF ts
<1> QED  BY <1>2, TakesNew

LEMMA Extended ==
  ASSUME NEW p, NEW r
  PROVE  /\ Extend(p, r).trail = p.trail \cup {r} /\ Extend(p, r).at = r.object
         /\ Extend(p, r).visited = p.visited \cup {r.object}
BY DEF Extend

\* Every traversal goes on until it arrives.
LEMMA Arrives ==
  ASSUME NEW us, Graph(us), NEW e \in Entities \ {Target}, e \in ReverseReachable(us),
         Cycles(us, Traversals(us, e)) = {}, NEW p \in Traversals(us, e)
  PROVE  \E q \in Traversals(us, e) : Arrived(q) /\ p.trail \subseteq q.trail
<1> DEFINE ts == Traversals(us, e)
<1>1. PICK f \in [Nat -> SUBSET Entities] :
           /\ f[0] = {Target}
           /\ \A n \in Nat : f[n + 1] = Upstream(us, f[n])
           /\ ReverseReachable(us) = f[Cardinality(Entities)]
  BY Reaching
<1>2. \A n \in Nat : f[n] \subseteq f[n + 1]  BY <1>1 DEF Upstream
<1>3. \A n, m \in Nat : n <= m => f[n] \subseteq f[m]  BY <1>2, Growing
<1>4. ASSUME NEW q \in ts, q.at = Target PROVE Arrived(q)
  BY <1>4, InShape DEF Shape, Located, Arrived
<1> DEFINE Goes(x) == \A q \in ts : q.at = x => \E z \in ts : Arrived(z) /\ q.trail \subseteq z.trail
           S == {n \in Nat : n <= Cardinality(Entities) => \A x \in f[n] : Goes(x)}
<1>5. 0 \in S
  <2>1. Goes(Target)  BY <1>4
  <2> QED  BY <1>1, <2>1
<1>6. ASSUME NEW n \in Nat, n \in S PROVE n + 1 \in S
  <2> SUFFICES ASSUME n + 1 <= Cardinality(Entities), NEW x \in f[n + 1] PROVE Goes(x)
    OBVIOUS
  <2>1. n <= Cardinality(Entities)  BY EntityCount
  <2>2. \A y \in f[n] : Goes(y)  BY <1>6, <2>1
  <2>3. f[n] \subseteq ReverseReachable(us)  BY <1>1, <1>3, <2>1, EntityCount
  <2>4. CASE x \in f[n]  BY <2>2, <2>4
  <2>5. CASE x = Target  BY <1>4, <2>5
  <2>6. CASE x # Target /\ x \notin f[n]
    <3>1. f[n + 1] = Upstream(us, f[n])  BY <1>1
    <3>2. PICK r \in us : r.object \in f[n] /\ r.subject = x
      BY <2>6, <3>1 DEF Upstream
    <3> SUFFICES ASSUME NEW q \in ts, q.at = x
                 PROVE  \E z \in ts : Arrived(z) /\ q.trail \subseteq z.trail
      OBVIOUS
    <3>3. Extend(q, r) \in ts  BY <2>3, <2>6, <3>2, Onwards
    <3> HIDE DEF ts
    <3>4. Extend(q, r).at = r.object /\ q.trail \subseteq Extend(q, r).trail  BY Extended
    <3>5. Goes(r.object)  BY <2>2, <3>2
    <3> QED  BY <3>3, <3>4, <3>5
  <2> QED  BY <2>4, <2>5, <2>6
<1> HIDE DEF S
<1>7. \A n \in Nat : n \in S  BY <1>5, <1>6, Counting
<1>8. \A x \in ReverseReachable(us) : Goes(x)  BY <1>1, <1>7, EntityCount DEF S
<1>9. p.at \in ReverseReachable(us)  BY InShape DEF Shape, Located
<1> QED  BY <1>8, <1>9

\* Every entity between the holder and the customer is visited, also where
\* there are cycles: by a traversal that has been on earlier levels only.
LEMMA Visits ==
  ASSUME NEW us, Graph(us), NEW e \in Entities \ {Target}, e \in ReverseReachable(us),
         NEW x \in Level(us, {e}, {Target})[Cardinality(Entities)]
  PROVE  \E p \in Traversals(us, e) : p.at = x
<1> DEFINE ts == Traversals(us, e)
           L == Level(us, {e}, {Target})
<1>1. /\ L[0] = {e}
      /\ \A n \in Nat : L[n + 1] = Downward(us, L[n], {Target})
  <2>1. e \in Entities  OBVIOUS
  <2> QED  BY <2>1, HolderLevels
<1> DEFINE S == {n \in Nat : \A y \in L[n] : \E p \in ts : p.at = y /\ p.visited \subseteq L[n]}
<1> HIDE DEF L
<1>2. 0 \in S
  <2>1. Start(e) \in ts /\ Start(e).at = e /\ Start(e).visited = {e}
    <3>1. Start(e).at = e /\ Start(e).visited = {e}  BY DEF Start
    <3>2. PICK f \in [Nat -> SUBSET Path(us)] :
             f[0] = {Start(e)} /\ ts = UNION {f[n] : n \in 0..Cardinality(Entities)}
      BY Shapes
    <3>3. 0 \in 0..Cardinality(Entities)  BY EntityCount
    <3> HIDE DEF ts
    <3> QED  BY <3>1, <3>2, <3>3
  <2> QED  BY <1>1, <2>1
<1>3. ASSUME NEW n \in Nat, n \in S PROVE n + 1 \in S
  <2> SUFFICES ASSUME NEW y \in L[n + 1]
               PROVE  \E p \in ts : p.at = y /\ p.visited \subseteq L[n + 1]
    OBVIOUS
  <2>1. y \in Downward(us, L[n], {Target}) /\ L[n] \subseteq L[n + 1]
    BY <1>1 DEF Downward
  <2>2. CASE y \in L[n]  BY <1>3, <2>1, <2>2
  <2>3. CASE y \notin L[n]
    <3>1. PICK z \in L[n] \ {Target} : y \in Succ(us, z)  BY <2>1, <2>3 DEF Downward
    <3>2. PICK r \in us : r.subject = z /\ r.object = y /\ y \in ReverseReachable(us)
      BY <3>1 DEF Succ
    <3>3. PICK p \in ts : p.at = z /\ p.visited \subseteq L[n]  BY <1>3, <3>1
    <3>4. Extend(p, r) \in ts  BY <2>3, <3>1, <3>2, <3>3, TakesNew
    <3>5. Extend(p, r).at = y /\ Extend(p, r).visited = p.visited \cup {y}
      BY <3>2, Extended
    <3>6. Extend(p, r).visited \subseteq L[n + 1]  BY <2>1, <3>3, <3>5
    <3> HIDE DEF ts
    <3> QED  BY <3>4, <3>5, <3>6
  <2> QED  BY <2>2, <2>3
<1> HIDE DEF S
<1>4. \A n \in Nat : n \in S  BY <1>2, <1>3, Counting
<1> QED  BY <1>4, EntityCount DEF S, L

\* None of them is downstream of itself.
LEMMA NoReturn ==
  ASSUME NEW us, Graph(us), NEW e \in Entities \ {Target}, e \in ReverseReachable(us),
         Cycles(us, Traversals(us, e)) = {},
         NEW x \in Level(us, {e}, {Target})[Cardinality(Entities)], x # Target
  PROVE  x \notin Level(us, Succ(us, x), {Target})[Cardinality(Entities)]
<1>1. PICK p0 \in Traversals(us, e) : p0.at = x
  <2>1. x \in Level(us, {e}, {Target})[Cardinality(Entities)]  OBVIOUS
  <2> QED
    BY ONLY Graph(us), e \in Entities \ {Target}, e \in ReverseReachable(us), <2>1, Visits
<1> DEFINE ts == Traversals(us, e)
           L == Level(us, Succ(us, x), {Target})
           Past(y) == y # x /\ \E p \in ts : p.at = y /\ x \in p.visited
           S == {n \in Nat : \A y \in L[n] : Past(y)}
<1>2. x \in p0.visited  BY <1>1, InShape DEF Shape, Located
<1>3. p0 \in ts /\ p0.at = x  BY <1>1
<1>4. /\ L[0] = Succ(us, x)
      /\ \A n \in Nat : L[n + 1] = Downward(us, L[n], {Target})
  BY SuccLevels
<1>5. ASSUME NEW p \in ts, p.at # Target, x \in p.visited, NEW y \in Succ(us, p.at)
      PROVE  Past(y)
  <2>1. PICK r \in us : r.subject = p.at /\ r.object = y /\ y \in ReverseReachable(us)
    BY <1>5 DEF Succ
  <2>2. y \notin p.visited /\ Extend(p, r) \in ts  BY <1>5, <2>1, Onwards
  <2>3. Extend(p, r).at = y /\ x \in Extend(p, r).visited  BY <1>5, <2>1, Extended
  <2> HIDE DEF ts
  <2> QED  BY <1>5, <2>2, <2>3
<1> HIDE DEF L, ts, Past
<1>6. 0 \in S  BY <1>2, <1>3, <1>4, <1>5
<1>7. ASSUME NEW n \in Nat, n \in S PROVE n + 1 \in S
  <2> SUFFICES ASSUME NEW y \in L[n + 1] PROVE Past(y)
    OBVIOUS
  <2>1. y \in Downward(us, L[n], {Target})  BY <1>4
  <2>2. CASE y \in L[n]  BY <1>7, <2>2
  <2>3. CASE y \notin L[n]
    <3>1. PICK z \in L[n] \ {Target} : y \in Succ(us, z)  BY <2>1, <2>3 DEF Downward
    <3>2. Past(z)  BY <1>7, <3>1
    <3>3. PICK p \in ts : p.at = z /\ x \in p.visited  BY <3>2 DEF Past
    <3> QED  BY <1>5, <3>1, <3>3
  <2> QED  BY <2>2, <2>3
<1> HIDE DEF S
<1>8. \A n \in Nat : n \in S  BY <1>6, <1>7, Counting
<1> QED  BY <1>8, EntityCount DEF S, Past, L
Between(us, e) == Level(us, {e}, {Target})[Cardinality(Entities)] \ {Target}
Open(us, e) ==
  \E u \in us : /\ u.subject \in Between(us, e) /\ u.object \in ReverseReachable(us)
                /\ u.temporal = "UNKNOWN" \/ u.measurement = Unknown
Cyclic(us, e) ==
  \E x \in Between(us, e) : x \in Level(us, Succ(us, x), {Target})[Cardinality(Entities)]

\* When the code calls a calculation COMPLETE.
LEMMA CompleteWhen ==
  ASSUME NEW us, NEW e
  PROVE  EffectivePercentage(us, e).status = "COMPLETE" <=>
           /\ Cycles(us, Traversals(us, e)) = {}
           /\ \E p \in Traversals(us, e) : Arrived(p)
           /\ \A p \in Traversals(us, e) : Arrived(p) => p.known
<1> DEFINE paths == {p \in Traversals(us, e) : Arrived(p)}
           cycles == Cycles(us, Traversals(us, e))
<1>1. EffectivePercentage(us, e).status = Status(paths, cycles)  BY DEF EffectivePercentage
<1>2. Status(paths, cycles) = "COMPLETE" <=>
        cycles = {} /\ paths # {} /\ \A p \in paths : p.known
  <2> HIDE DEF paths, cycles
  <2> QED  BY DEF Status
<1> QED  BY <1>1, <1>2

\* What a traversal has visited lies between holder and customer.
LEMMA VisitedBetween ==
  ASSUME NEW us, Graph(us), NEW e \in Entities \ {Target}, e \in ReverseReachable(us),
         NEW p \in Traversals(us, e), NEW v \in p.visited
  PROVE  /\ v # Target => v \in Between(us, e)
         /\ p.at # Target => \A r \in us :
              r.subject = p.at /\ r.object = v /\ v \in ReverseReachable(us) =>
                v \in Level(us, Succ(us, v), {Target})[Cardinality(Entities)]
<1> DEFINE N == Cardinality(Entities)
           D == Level(us, {e}, {Target})
           L == Level(us, Succ(us, v), {Target})
<1>1. PICK n \in Nat : n + 1 <= N /\ Shape(us, e, n, p)  BY InShape
<1>2. v \in D[n] /\ (v # p.at => p.at \in L[n])  BY <1>1 DEF Shape, Placed
<1>3. n <= N /\ n + 1 \in Nat /\ 0 <= N /\ N \in Nat  BY <1>1, EntityCount
<1>4. D[n] \subseteq D[N]
  <2>1. {e} \in SUBSET Entities  OBVIOUS
  <2>2. \A k, m \in Nat : k <= m => D[k] \subseteq D[m]  BY <2>1, Levels
  <2> HIDE DEF D, N
  <2> QED  BY <1>3, <2>2
<1>5. v # Target => v \in Between(us, e)  BY <1>2, <1>4 DEF Between
<1>6. ASSUME p.at # Target, NEW r \in us, r.subject = p.at, r.object = v,
             v \in ReverseReachable(us)
      PROVE  v \in L[N]
  <2>1. v \in Succ(us, p.at)  BY <1>6 DEF Succ
  <2>2. /\ L[0] = Succ(us, v)
        /\ \A k \in Nat : L[k + 1] = Downward(us, L[k], {Target})
        /\ \A k, m \in Nat : k <= m => L[k] \subseteq L[m]
    BY SuccLevels
  <2> HIDE DEF L, N
  <2>3. CASE v = p.at
    <3>1. L[0] \subseteq L[N]  BY <1>3, <2>2
    <3> QED  BY <2>1, <2>2, <2>3, <3>1
  <2>4. CASE v # p.at
    <3>1. v \in Downward(us, L[n], {Target})  BY <1>2, <1>6, <2>1, <2>4 DEF Downward
    <3>2. L[n + 1] \subseteq L[N]  BY <1>1, <1>3, <2>2
    <3> QED  BY <2>2, <3>1, <3>2
  <2> QED  BY <2>3, <2>4
<1> QED  BY <1>5, <1>6

\* That is, when nothing between holder and customer is open or on a cycle.
LEMMA CompleteExplained ==
  ASSUME NEW us, Graph(us), NEW e \in Entities \ {Target}, e \in ReverseReachable(us)
  PROVE  EffectivePercentage(us, e).status = "COMPLETE" <=> ~ Open(us, e) /\ ~ Cyclic(us, e)
<1> DEFINE ts == Traversals(us, e)
           R == ReverseReachable(us)
           done == EffectivePercentage(us, e).status = "COMPLETE"
<1>1. done <=> /\ Cycles(us, ts) = {}
               /\ \E p \in ts : Arrived(p)
               /\ \A p \in ts : Arrived(p) => p.known
  BY CompleteWhen
<1>2. \A p \in ts : (p.known <=> \A r \in p.trail : Certain(r))
  BY InShape DEF Shape, Trailed
<1>3. ASSUME done PROVE ~ Cyclic(us, e)
  BY <1>1, <1>3, NoReturn DEF Cyclic, Between
<1>4. ASSUME done, Open(us, e) PROVE FALSE
  <2>1. PICK u \in us : /\ u.subject \in Between(us, e) /\ u.object \in R
                        /\ u.temporal = "UNKNOWN" \/ u.measurement = Unknown
    BY <1>4 DEF Open
  <2>2. PICK p \in ts : p.at = u.subject
    <3>1. u.subject \in Level(us, {e}, {Target})[Cardinality(Entities)]
      BY <2>1 DEF Between
    <3> QED  BY <3>1, Visits
  <2>3. p.at # Target  BY <2>1, <2>2 DEF Between
  <2>4. Extend(p, u) \in ts  BY <1>1, <1>4, <2>1, <2>2, <2>3, Onwards
  <2>5. PICK q \in ts : Arrived(q) /\ Extend(p, u).trail \subseteq q.trail
    BY <1>1, <1>4, <2>4, Arrives
  <2>6. u \in q.trail  BY <2>5, Extended
  <2>7. q.known  BY <1>1, <1>4, <2>5
  <2>8. Certain(u)  BY <1>2, <2>6, <2>7
  <2> QED  BY <2>1, <2>8 DEF Certain
<1>5. ASSUME ~ Open(us, e), ~ Cyclic(us, e) PROVE done
  <2>1. Cycles(us, ts) = {}
    <3> SUFFICES ASSUME Cycles(us, ts) # {} PROVE FALSE
      OBVIOUS
    <3>1. PICK p \in ts : {p.trail \cup {r} : r \in {u \in Onward(p, us, R) :
                                                    u.object \in p.visited}} # {}
      <4> HIDE DEF ts
      <4> QED  BY DEF Cycles
    <3>2. PICK r \in Onward(p, us, R) : r.object \in p.visited  BY <3>1
    <3>3. ~ Arrived(p) /\ r \in us /\ r.subject = p.at /\ r.object \in R
      BY <3>2 DEF Onward
    <3>4. p.at # Target /\ r.object # Target
      BY <3>2, <3>3, InShape DEF Shape, Located, Arrived
    <3>5. r.object \in Between(us, e)  BY <3>2, <3>4, VisitedBetween
    <3>6. r.object \in Level(us, Succ(us, r.object), {Target})[Cardinality(Entities)]
      BY <3>2, <3>3, <3>4, VisitedBetween
    <3> QED  BY <1>5, <3>5, <3>6 DEF Cyclic
  <2>2. \E p \in ts : Arrived(p)
    <3>1. \E p \in ts : TRUE
      <4>1. PICK f \in [Nat -> SUBSET Path(us)] :
               f[0] = {Start(e)} /\ ts = UNION {f[n] : n \in 0..Cardinality(Entities)}
        BY Shapes
      <4>2. 0 \in 0..Cardinality(Entities)  BY EntityCount
      <4> HIDE DEF ts
      <4> QED  BY <4>1, <4>2
    <3> QED  BY <2>1, <3>1, Arrives
  <2>3. ASSUME NEW p \in ts, NEW r \in p.trail PROVE Certain(r)
    <3>1. PICK n \in Nat : Shape(us, e, n, p)  BY InShape
    <3>2. r \in us /\ r.subject \in p.visited \ {Target} /\ r.object \in R
      BY <3>1 DEF Shape, Path, Trailed
    <3>3. r.subject \in Between(us, e)  BY <3>2, VisitedBetween
    <3> QED  BY <1>5, <3>2, <3>3 DEF Open, Certain
  <2> QED  BY <1>1, <1>2, <2>1, <2>2, <2>3
<1> QED  BY <1>3, <1>4, <1>5
\* A calculation is COMPLETE exactly when everything between holder and customer
\* is current, measured and free of cycles, as deep as the graph may be: the
\* traversals of visit miss no open relationship and no cycle on the way.
THEOREM CompletenessExplained == Spec => []StatusExplained
<1>1. GInv => StatusExplained
  <2> SUFFICES ASSUME GInv, NEW e \in DOMAIN evaluation.holders
               PROVE  LET between == Downstream({e}, {Target}) \ {Target}
                          open    == \E u \in Usables :
                                       /\ u.subject \in between
                                       /\ u.object \in ReverseReachable(Usables)
                                       /\ u.temporal = "UNKNOWN" \/ u.measurement = Unknown
                          cyclic  == \E x \in between : x \in Downstream(Successors(x), {Target})
                      IN (Evaluated(e).status = "COMPLETE") <=> ~open /\ ~cyclic
    BY DEF StatusExplained
  <2> DEFINE us == Current(operative)
             N == Cardinality(Entities)
  <2>1. evaluation.error = "NONE"  BY Answers DEF GInv, Uptodate
  <2>2. /\ evaluation.graph = Relationships(operative)
        /\ DOMAIN evaluation.holders = Holders(us)
        /\ \A x \in Holders(us) : evaluation.holders[x] = EffectivePercentage(us, x)
    BY <2>1, Answers DEF GInv, Uptodate
  <2>3. Usables = us  BY <2>2 DEF Usables, Current
  <2>4. Graph(us)  BY CaseGraph DEF GInv
  <2> HIDE DEF us
  <2>5. e \in Entities \ {Target} /\ e \in ReverseReachable(us)
    BY <2>2, <2>4, ReachGrows DEF Holders
  <2>6. Evaluated(e).status = EffectivePercentage(us, e).status  BY <2>2 DEF Evaluated
  <2>7. Downstream({e}, {Target}) \ {Target} = Between(us, e)
    <3>1. {e} \in SUBSET Entities  BY <2>5
    <3>2. Downstream({e}, {Target}) = Level(Usables, {e}, {Target})[N]
      BY <2>3, <2>4, <3>1, DownstreamLevel
    <3> QED  BY <2>3, <3>2 DEF Between
  <2>8. ASSUME NEW x PROVE Downstream(Successors(x), {Target}) = Level(us, Succ(us, x), {Target})[N]
    <3>1. Successors(x) = Succ(us, x)  BY <2>3, <2>4, DownstreamLevel
    <3>2. ASSUME NEW X \in SUBSET Entities
          PROVE  Downstream(X, {Target}) = Level(Usables, X, {Target})[N]
      BY <2>3, <2>4, DownstreamLevel
    <3>3. Succ(us, x) \in SUBSET Entities  BY <2>4, SuccType
    <3> QED  BY <2>3, <3>1, <3>2, <3>3
  <2>9. (Evaluated(e).status = "COMPLETE") <=> ~ Open(us, e) /\ ~ Cyclic(us, e)
    BY <2>4, <2>5, <2>6, CompleteExplained
  <2>10. Open(us, e) <=>
           \E u \in us :
             /\ u.subject \in Between(us, e)
             /\ u.object \in ReverseReachable(us)
             /\ u.temporal = "UNKNOWN" \/ u.measurement = Unknown
    BY DEF Open
  <2>11. Cyclic(us, e) <=>
           \E x \in Between(us, e) : x \in Downstream(Successors(x), {Target})
    BY <2>8 DEF Cyclic
  <2> QED  BY <2>3, <2>7, <2>9, <2>10, <2>11
<1> QED  BY <1>1, CaseInvariance, PTL
------------------------------------------------------------------------------
(* What later claims do to a decision.                                     *)

Foreign(us, e) ==
  \E u \in us : u.object = Target /\ ~ ConceptEstablished(u) /\ u.subject \in Between(us, e)

\* The traversals to the customer end in every interest that is found below
\* the holder level by level, and in no other.
LEMMA ConceptExplained ==
  ASSUME NEW us, Graph(us), NEW e \in Entities \ {Target}, e \in ReverseReachable(us)
  PROVE  Established(us, e) <=> ~ Foreign(us, e)
<1> DEFINE ts == Traversals(us, e)
           last == Terminal({p \in ts : Arrived(p)})
<1>1. Established(us, e) <=> \A r \in last : ConceptEstablished(r)
  BY DEF Established, TerminalConceptEstablished
<1>2. ASSUME NEW r \in last
      PROVE  r \in us /\ r.object = Target /\ r.subject \in Between(us, e)
  <2>1. PICK p \in ts : Arrived(p) /\ r \in p.trail /\ r.object = Target
    BY <1>2 DEF Terminal
  <2>2. PICK n \in Nat : Shape(us, e, n, p)  BY InShape
  <2>3. r \in us /\ r.subject \in p.visited \ {Target}
    BY <2>1, <2>2 DEF Shape, Path, Trailed
  <2> QED  BY <2>1, <2>3, VisitedBetween
<1>3. ASSUME NEW u \in us, u.object = Target, u.subject \in Between(us, e)
      PROVE  u \in last
  <2>1. PICK p \in ts : p.at = u.subject  BY <1>3, Visits DEF Between
  <2>2. p.at # Target  BY <1>3, <2>1 DEF Between
  <2>3. Target \notin p.visited  BY <2>2, InShape DEF Shape, Located
  <2>4. Target \in ReverseReachable(us)  BY TargetReached
  <2>5. Extend(p, u) \in ts  BY <1>3, <2>1, <2>2, <2>3, <2>4, TakesNew
  <2>6. Arrived(Extend(p, u)) /\ u \in Extend(p, u).trail
    BY <1>3, Extended DEF Arrived
  <2> HIDE DEF ts
  <2> QED  BY <1>3, <2>5, <2>6 DEF Terminal
<1> HIDE DEF last
<1> QED  BY <1>1, <1>2, <1>3 DEF Foreign

\* What is asked of the concept is what OtherConcept looks for.
ConceptAsked ==
  \A s \in DOMAIN evaluation.holders :
    OtherConcept(s) <=> ~ Established(Current(operative), s)

LEMMA ConceptSeen == GInv => ConceptAsked
<1> SUFFICES ASSUME GInv, NEW s \in DOMAIN evaluation.holders
             PROVE  OtherConcept(s) <=> ~ Established(Current(operative), s)
  BY DEF ConceptAsked
<1> DEFINE us == Current(operative)
<1>1. evaluation.error = "NONE"  BY Answers DEF GInv, Uptodate
<1>2. evaluation.graph = Relationships(operative) /\ DOMAIN evaluation.holders = Holders(us)
  BY <1>1, Answers DEF GInv, Uptodate
<1>3. Usables = us  BY <1>2 DEF Usables, Current
<1>4. Graph(us)  BY CaseGraph DEF GInv
<1> HIDE DEF us
<1>5. s \in Entities \ {Target} /\ s \in ReverseReachable(us)
  BY <1>2, <1>4, ReachGrows DEF Holders
<1>6. Downstream({s}, {Target}) \ {Target} = Between(us, s)
  <2>1. {s} \in SUBSET Entities  BY <1>5
  <2>2. Downstream({s}, {Target}) = Level(Usables, {s}, {Target})[Cardinality(Entities)]
    BY <1>3, <1>4, <2>1, DownstreamLevel
  <2> QED  BY <1>3, <2>2 DEF Between
<1>7. OtherConcept(s) <=> Foreign(us, s)  BY <1>3, <1>6 DEF OtherConcept, Foreign
<1>8. Established(us, s) <=> ~ Foreign(us, s)  BY <1>4, <1>5, ConceptExplained
<1> QED  BY <1>7, <1>8 DEF us

\* Further operative claims add relationships, hence traversals, hence to the
\* lower end of the sum: all that they can do to a holder above the threshold
\* (assessCalculationAgainstExclusiveThreshold decides on a PARTIAL calculation
\* too) is to put an interest of another concept below it, at any depth and
\* among cycles, for which makeCalculationBasis withholds the decision.
THEOREM AboveUnlessOtherConcept == Spec => OnlyConceptRevokes
<1> DEFINE Kept(s) ==
             /\ s \in DOMAIN evaluation'.holders
             /\ evaluation'.holders[s].state =
                  IF OtherConcept(s)' THEN "INDETERMINATE" ELSE "SATISFIED"
<1>1. GInv /\ ConceptAsked' /\ [Next]_vars =>
        [evaluation'.error = "NONE" =>
           \A s \in DOMAIN evaluation.holders :
             evaluation.holders[s].state = "SATISFIED" => Kept(s)]_vars
  <2> SUFFICES ASSUME GInv, ConceptAsked', NEW c \in Claims, MakeOperative(c),
                      evaluation'.error = "NONE",
                      NEW s \in DOMAIN evaluation.holders,
                      evaluation.holders[s].state = "SATISFIED"
               PROVE  Kept(s)
    BY DEF Next, vars
  <2> DEFINE us == Current(operative)
             vs == Current(operative')
  <2>1. evaluation = Evaluate(operative) /\ evaluation' = Evaluate(operative')
    BY DEF GInv, Uptodate, MakeOperative
  <2>2. operative \subseteq operative' /\ operative' \in SUBSET Claims /\ IsFiniteSet(operative')
    BY FS_AddElement DEF MakeOperative, GInv
  <2>3. Graph(us) /\ Graph(vs)  BY <2>2, CaseGraph DEF GInv
  <2>4. us \subseteq vs  BY <2>2, CaseGrows
  <2>5. /\ DOMAIN evaluation.holders = Holders(us)
        /\ \A e \in Holders(us) : evaluation.holders[e] = EffectivePercentage(us, e)
    BY <2>1, Answers
  <2>6. /\ DOMAIN evaluation'.holders = Holders(vs)
        /\ \A e \in Holders(vs) : evaluation'.holders[e] = EffectivePercentage(vs, e)
    BY <2>1, Answers
  <2>7. \A e \in DOMAIN evaluation'.holders : OtherConcept(e)' <=> ~ Established(vs, e)
    BY DEF ConceptAsked
  <2> HIDE DEF us, vs
  <2>8. Holders(us) \subseteq Holders(vs) /\ Holders(us) \subseteq Entities
    BY <2>3, <2>4, ReachGrows DEF Holders
  <2>9. s \in Holders(us) /\ s \in Holders(vs) /\ s \in Entities  BY <2>5, <2>8
  <2>10. EffectivePercentage(us, s).state = "SATISFIED"  BY <2>5, <2>9
  <2>11. EffectivePercentage(vs, s).state =
           IF Established(vs, s) THEN "SATISFIED" ELSE "INDETERMINATE"
    BY <2>3, <2>4, <2>9, <2>10, StillAbove
  <2>12. OtherConcept(s)' <=> ~ Established(vs, s)  BY <2>6, <2>7, <2>9
  <2> QED  BY <2>6, <2>9, <2>11, <2>12
<1> QED  BY <1>1, CaseInvariance, ConceptSeen, PTL DEF Spec, OnlyConceptRevokes
------------------------------------------------------------------------------
(* What the traversals are worth, when each relationship r is worth v[r].  *)

Holder(us, e) == Graph(us) /\ e \in Entities \ {Target} /\ e \in ReverseReachable(us)

\* The traversals of a holder by their length.
Rounds(us, e) ==
  CHOOSE f : /\ f \in [Nat -> SUBSET Path(us)] /\ f[0] = {Start(e)}
             /\ \A n \in Nat : f[n + 1] = Further(us, f[n])
             /\ Traversals(us, e) = UNION {f[n] : n \in 0..Cardinality(Entities)}
             /\ \A n \in Nat : \A p \in f[n] :
                  Shape(us, e, n, p) /\ n + 1 <= Cardinality(Entities)

\* The relationships by which a traversal goes on.
Out(us, p) == {r \in Onward(p, us, ReverseReachable(us)) : r.object \notin p.visited}

LEMMA InRounds ==
  ASSUME NEW us, NEW e, Holder(us, e)
  PROVE  LET f == Rounds(us, e) IN
         /\ f \in [Nat -> SUBSET Path(us)] /\ f[0] = {Start(e)}
         /\ \A n \in Nat : f[n + 1] = Further(us, f[n])
         /\ Traversals(us, e) = UNION {f[n] : n \in 0..Cardinality(Entities)}
         /\ \A n \in Nat : \A p \in f[n] :
              Shape(us, e, n, p) /\ n + 1 <= Cardinality(Entities)
<1>1. \E f \in [Nat -> SUBSET Path(us)] :
           /\ f[0] = {Start(e)}
           /\ \A n \in Nat : f[n + 1] = Further(us, f[n])
           /\ Traversals(us, e) = UNION {f[n] : n \in 0..Cardinality(Entities)}
           /\ \A n \in Nat : \A p \in f[n] :
                Shape(us, e, n, p) /\ n + 1 <= Cardinality(Entities)
  BY Shapes DEF Holder
<1> QED  BY <1>1 DEF Rounds

\* Traversals of one length are finitely many, and they are traversals.
LEMMA RoundFacts ==
  ASSUME NEW us, NEW e, Holder(us, e), NEW n \in Nat
  PROVE  /\ Rounds(us, e)[n] \subseteq Traversals(us, e)
         /\ IsFiniteSet(Rounds(us, e)[n])
         /\ \A p \in Rounds(us, e)[n] : /\ p \in Path(us) /\ Shape(us, e, n, p)
                                        /\ n + 1 <= Cardinality(Entities)
         /\ \A m \in Nat : m # n => Rounds(us, e)[m] \cap Rounds(us, e)[n] = {}
<1> DEFINE f == Rounds(us, e)
<1>1. /\ f \in [Nat -> SUBSET Path(us)]
      /\ Traversals(us, e) = UNION {f[m] : m \in 0..Cardinality(Entities)}
      /\ \A m \in Nat : \A p \in f[m] : Shape(us, e, m, p) /\ m + 1 <= Cardinality(Entities)
  BY InRounds
<1> HIDE DEF f
<1>2. f[n] \subseteq Traversals(us, e)
  <2> SUFFICES ASSUME NEW p \in f[n] PROVE p \in Traversals(us, e)
    OBVIOUS
  <2>1. n \in 0..Cardinality(Entities)  BY <1>1, EntityCount
  <2> QED  BY <1>1, <2>1
<1>3. IsFiniteSet(Traversals(us, e))  BY TraversalsTyped DEF Holder
<1>4. ASSUME NEW m \in Nat, m # n, NEW p \in f[m], p \in f[n] PROVE FALSE
  <2>1. Counted(m, p) /\ Counted(n, p)  BY <1>1, <1>4 DEF Shape
  <2> QED  BY <1>4, <2>1 DEF Counted
<1> QED  BY <1>1, <1>2, <1>3, <1>4, FS_Subset DEF f

\* How a traversal goes on.
LEMMA GoesOn ==
  ASSUME NEW us, NEW e, Holder(us, e), NEW n \in Nat, NEW p \in Rounds(us, e)[n],
         NEW r \in Out(us, p)
  PROVE  /\ p.at # Target /\ r \in us /\ r.subject = p.at
         /\ r.object \in ReverseReachable(us) /\ r.object \notin p.visited
         /\ Extend(p, r) \in Rounds(us, e)[n + 1]
<1>1. Shape(us, e, n, p)  BY RoundFacts
<1>2. /\ ~ Arrived(p) /\ r \in us /\ r.subject = p.at
      /\ r.object \in ReverseReachable(us) /\ r.object \notin p.visited
  BY DEF Out, Onward
<1>3. p.at # Target  BY <1>1, <1>2 DEF Arrived, Shape, Located, Holder
<1>4. Rounds(us, e)[n + 1] = Further(us, Rounds(us, e)[n])  BY InRounds
<1>5. Extend(p, r) \in Further(us, Rounds(us, e)[n])  BY DEF Out, Further
<1> QED  BY <1>2, <1>3, <1>4, <1>5

LEMMA CameFrom ==
  ASSUME NEW us, NEW e, Holder(us, e), NEW n \in Nat, NEW q \in Rounds(us, e)[n + 1]
  PROVE  \E p \in Rounds(us, e)[n] : \E r \in Out(us, p) : q = Extend(p, r)
<1>1. q \in Further(us, Rounds(us, e)[n])  BY InRounds
<1>2. PICK p \in Rounds(us, e)[n] :
         q \in {Extend(p, r) : r \in {u \in Onward(p, us, ReverseReachable(us)) :
                                        u.object \notin p.visited}}
  BY <1>1 DEF Further
<1> QED  BY <1>2 DEF Out

\* The last relationship of a traversal is the only one that leads to where it stands.
LEMMA LastOne ==
  ASSUME NEW us, NEW e, Holder(us, e), NEW n \in Nat,
         NEW p \in Rounds(us, e)[n], NEW q \in Rounds(us, e)[n],
         NEW r \in Out(us, p), NEW u \in Out(us, q),
         p.trail \cup {r} = q.trail \cup {u}, r.object = u.object
  PROVE  r = u /\ p.trail = q.trail /\ p.at = q.at
<1>1. /\ \A x \in p.trail : x.object \in p.visited
      /\ \A x \in q.trail : x.object \in q.visited
  BY RoundFacts DEF Shape, Trailed
<1>2. /\ r.object \notin p.visited /\ u.object \notin q.visited
      /\ r.subject = p.at /\ u.subject = q.at
  BY GoesOn
<1>3. r \notin q.trail /\ r \notin p.trail /\ u \notin q.trail  BY <1>1, <1>2
<1> QED  BY <1>2, <1>3

\* No two traversals take the same relationships to the same place.
LEMMA TrailTells ==
  ASSUME NEW us, NEW e, Holder(us, e), NEW n \in Nat
  PROVE  \A p, q \in Rounds(us, e)[n] : p.trail = q.trail /\ p.at = q.at => p = q
<1> DEFINE f == Rounds(us, e)
           S == {m \in Nat : \A p, q \in f[m] : p.trail = q.trail /\ p.at = q.at => p = q}
<1>1. 0 \in S  BY InRounds
<1>2. ASSUME NEW m \in Nat, m \in S PROVE m + 1 \in S
  <2> SUFFICES ASSUME NEW p \in f[m + 1], NEW q \in f[m + 1], p.trail = q.trail, p.at = q.at
               PROVE  p = q
    OBVIOUS
  <2>1. PICK x \in f[m] : \E r \in Out(us, x) : p = Extend(x, r)  BY CameFrom
  <2>2. PICK r \in Out(us, x) : p = Extend(x, r)  BY <2>1
  <2>3. PICK y \in f[m] : \E u \in Out(us, y) : q = Extend(y, u)  BY CameFrom
  <2>4. PICK u \in Out(us, y) : q = Extend(y, u)  BY <2>3
  <2>5. /\ p.trail = x.trail \cup {r} /\ p.at = r.object
        /\ q.trail = y.trail \cup {u} /\ q.at = u.object
    BY <2>2, <2>4, Extended
  <2>6. r = u /\ x.trail = y.trail /\ x.at = y.at
    <3>1. x.trail \cup {r} = y.trail \cup {u} /\ r.object = u.object  BY <2>5
    <3> HIDE DEF S
    <3> QED  BY <3>1, LastOne
  <2>7. x = y  BY <1>2, <2>6
  <2> QED  BY <2>2, <2>4, <2>6, <2>7
<1> HIDE DEF S
<1>3. \A m \in Nat : m \in S  BY <1>1, <1>2, Counting
<1> QED  BY <1>3 DEF S

LEMMA ExtendOnce ==
  ASSUME NEW us, NEW e, Holder(us, e), NEW n \in Nat,
         NEW p \in Rounds(us, e)[n], NEW q \in Rounds(us, e)[n],
         NEW r \in Out(us, p), NEW u \in Out(us, q), Extend(p, r) = Extend(q, u)
  PROVE  p = q /\ r = u
<1>1. p.trail \cup {r} = q.trail \cup {u} /\ r.object = u.object  BY Extended
<1>2. r = u /\ p.trail = q.trail /\ p.at = q.at  BY <1>1, LastOne
<1> QED  BY <1>2, TrailTells

\* The same for traversals of any length.
LEMMA OfSomeLength ==
  ASSUME NEW us, NEW e, Holder(us, e), NEW p \in Traversals(us, e)
  PROVE  \E n \in Nat : p \in Rounds(us, e)[n]
<1>1. PICK n \in 0..Cardinality(Entities) : p \in Rounds(us, e)[n]  BY InRounds
<1>2. n \in Nat  BY EntityCount
<1> QED  BY <1>1, <1>2

LEMMA OneWay ==
  ASSUME NEW us, NEW e, Holder(us, e),
         NEW p \in Traversals(us, e), NEW q \in Traversals(us, e),
         NEW r \in Out(us, p), NEW u \in Out(us, q), Extend(p, r) = Extend(q, u)
  PROVE  p = q /\ r = u
<1>1. PICK n \in Nat : p \in Rounds(us, e)[n]  BY OfSomeLength
<1>2. PICK m \in Nat : q \in Rounds(us, e)[m]  BY OfSomeLength
<1>3. /\ Extend(p, r) \in Rounds(us, e)[n + 1] /\ Extend(q, u) \in Rounds(us, e)[m + 1]
      /\ n + 1 \in Nat /\ m + 1 \in Nat
  <2>1. Extend(p, r) \in Rounds(us, e)[n + 1]  BY <1>1, GoesOn
  <2>2. Extend(q, u) \in Rounds(us, e)[m + 1]  BY <1>2, GoesOn
  <2> QED  BY <2>1, <2>2
<1>4. n + 1 = m + 1  BY <1>3, RoundFacts
<1>5. n = m  BY <1>4
<1> QED  BY <1>1, <1>2, <1>5, ExtendOnce

Upto(us, e, n) == UNION {Rounds(us, e)[m] : m \in 0..n}

LEMMA UptoFacts ==
  ASSUME NEW us, NEW e, Holder(us, e)
  PROVE  /\ Upto(us, e, 0) = {Start(e)} /\ Rounds(us, e)[0] = {Start(e)}
         /\ \A n \in Nat :
              /\ Upto(us, e, n + 1) = Upto(us, e, n) \cup Rounds(us, e)[n + 1]
              /\ Upto(us, e, n) \cap Rounds(us, e)[n + 1] = {}
              /\ Start(e) \in Upto(us, e, n) /\ Rounds(us, e)[n] \subseteq Upto(us, e, n)
              /\ Upto(us, e, n) \subseteq Traversals(us, e)
         /\ Traversals(us, e) = Upto(us, e, Cardinality(Entities))
         /\ Rounds(us, e)[Cardinality(Entities)] = {}
<1> DEFINE f == Rounds(us, e)
<1>1. f[0] = {Start(e)} /\ Traversals(us, e) = UNION {f[n] : n \in 0..Cardinality(Entities)}
  BY InRounds
<1>2. \A n \in Nat : f[n] \subseteq Traversals(us, e)
  BY RoundFacts
<1>3. \A n, m \in Nat : m # n => f[m] \cap f[n] = {}
  BY RoundFacts
<1>4. f[Cardinality(Entities)] = {}
  <2> SUFFICES ASSUME NEW p \in f[Cardinality(Entities)] PROVE FALSE
    OBVIOUS
  <2>1. Cardinality(Entities) + 1 <= Cardinality(Entities)  BY EntityCount, RoundFacts
  <2> QED  BY <2>1, EntityCount
<1> HIDE DEF f
<1>5. Upto(us, e, 0) = {Start(e)}
  <2>1. 0..0 = {0}  OBVIOUS
  <2> QED  BY <1>1, <2>1 DEF Upto, f
<1>6. ASSUME NEW n \in Nat
      PROVE  /\ Upto(us, e, n + 1) = Upto(us, e, n) \cup f[n + 1]
             /\ Upto(us, e, n) \cap f[n + 1] = {}
             /\ Start(e) \in Upto(us, e, n) /\ f[n] \subseteq Upto(us, e, n)
             /\ Upto(us, e, n) \subseteq Traversals(us, e)
  <2>1. 0..(n + 1) = (0..n) \cup {n + 1} /\ 0 \in 0..n /\ n \in 0..n  OBVIOUS
  <2>2. Upto(us, e, n + 1) = Upto(us, e, n) \cup f[n + 1]
    BY ONLY <2>1 DEF Upto, f
  <2>3. ASSUME NEW m \in 0..n PROVE f[m] \cap f[n + 1] = {}
    <3>1. m \in Nat /\ n + 1 \in Nat /\ m # n + 1  OBVIOUS
    <3> QED  BY <1>3, <3>1
  <2>4. Upto(us, e, n) \cap f[n + 1] = {}  BY <2>3 DEF Upto, f
  <2>5. \A m \in 0..n : f[m] \subseteq Traversals(us, e)  BY <1>2
  <2> QED  BY <1>1, <2>1, <2>2, <2>4, <2>5 DEF Upto, f
<1> QED  BY <1>1, <1>4, <1>5, <1>6 DEF f, Upto

LEMMA Divided ==
  ASSUME NEW x \in Nat, NEW y \in Nat
  PROVE  /\ x * y \in Nat /\ (x * y) \div Hundred \in Nat
         /\ Hundred * ((x * y) \div Hundred) <= y * x
<1>1. x * y \in Nat /\ x * y = y * x  OBVIOUS
<1>2. ASSUME NEW z \in Nat
      PROVE  z \div Hundred \in Nat /\ Hundred * (z \div Hundred) <= z
  BY HundredAssumption
<1> QED  BY <1>1, <1>2

\* Each traversal is worth the product of what its relationships are worth.
Worth(us, e, v, X) ==
  /\ X \in [Traversals(us, e) -> Nat]
  /\ X[Start(e)] = Hundred
  /\ \A p \in Traversals(us, e) : \A r \in Out(us, p) :
       /\ Extend(p, r) \in Traversals(us, e)
       /\ X[Extend(p, r)] = (X[p] * v[r]) \div Hundred

LEMMA Worths ==
  ASSUME NEW us, NEW e, Holder(us, e), NEW v, v \in [us -> Nat]
  PROVE  \E X : Worth(us, e, v, X)
<1> DEFINE f == Rounds(us, e)
           U(n) == Upto(us, e, n)
           Goes(X, n) == \A m \in Nat : m < n => \A p \in f[m] : \A r \in Out(us, p) :
                            X[Extend(p, r)] = (X[p] * v[r]) \div Hundred
           So(n, X) == X \in [U(n) -> Nat] /\ X[Start(e)] = Hundred /\ Goes(X, n)
           S == {n \in Nat : \E X : So(n, X)}
<1>1. /\ U(0) = {Start(e)}
      /\ \A n \in Nat : /\ U(n + 1) = U(n) \cup f[n + 1] /\ U(n) \cap f[n + 1] = {}
                        /\ Start(e) \in U(n) /\ f[n] \subseteq U(n)
  BY UptoFacts
<1>2. 0 \in S
  <2> DEFINE X == [p \in {Start(e)} |-> Hundred]
  <2>1. X \in [U(0) -> Nat] /\ X[Start(e)] = Hundred  BY <1>1, HundredAssumption
  <2>2. Goes(X, 0)  OBVIOUS
  <2> HIDE DEF X, Goes
  <2>3. So(0, X)  BY <2>1, <2>2
  <2> QED  BY <2>3
<1>3. ASSUME NEW n \in Nat, n \in S PROVE n + 1 \in S
  <2>1. PICK X : So(n, X)  BY <1>3
  <2> DEFINE from(q) == CHOOSE y \in Nat : \E p \in f[n] : \E r \in Out(us, p) :
                           q = Extend(p, r) /\ y = (X[p] * v[r]) \div Hundred
             Y == [q \in U(n + 1) |-> IF q \in U(n) THEN X[q] ELSE from(q)]
  <2>2. ASSUME NEW p \in f[n], NEW r \in Out(us, p)
        PROVE  /\ Extend(p, r) \in f[n + 1]
               /\ from(Extend(p, r)) = (X[p] * v[r]) \div Hundred
               /\ (X[p] * v[r]) \div Hundred \in Nat
    <3>1. r \in us /\ Extend(p, r) \in f[n + 1]  BY GoesOn
    <3>2. X[p] \in Nat /\ v[r] \in Nat  BY <1>1, <2>1, <3>1
    <3>3. (X[p] * v[r]) \div Hundred \in Nat  BY <3>2, Divided
    <3>4. ASSUME NEW x \in f[n], NEW u \in Out(us, x), Extend(p, r) = Extend(x, u)
          PROVE  x = p /\ u = r
      BY <3>4, ExtendOnce
    <3> QED  BY <3>1, <3>3, <3>4
  <2>3. \A q \in f[n + 1] : from(q) \in Nat
    <3> SUFFICES ASSUME NEW q \in f[n + 1] PROVE from(q) \in Nat
      OBVIOUS
    <3>1. PICK p \in f[n] : \E r \in Out(us, p) : q = Extend(p, r)  BY CameFrom
    <3>2. PICK r \in Out(us, p) : q = Extend(p, r)  BY <3>1
    <3> QED  BY <2>2, <3>2
  <2> HIDE DEF from
  <2>4. Y \in [U(n + 1) -> Nat]
    <3>1. ASSUME NEW q \in U(n + 1) PROVE Y[q] \in Nat
      <4>1. CASE q \in U(n)  BY <2>1, <4>1
      <4>2. CASE q \notin U(n)
        <5>1. q \in f[n + 1]  BY <1>1, <4>2
        <5> QED  BY <2>3, <4>2, <5>1
      <4> QED  BY <4>1, <4>2
    <3> HIDE DEF U
    <3> QED  BY <3>1
  <2>5. \A q \in U(n) : Y[q] = X[q]  BY <1>1
  <2>6. \A q \in f[n + 1] : Y[q] = from(q)  BY <1>1
  <2> HIDE DEF Y
  <2>7. Y[Start(e)] = Hundred  BY <1>1, <2>1, <2>5
  <2>8. Goes(Y, n + 1)
    <3> SUFFICES ASSUME NEW m \in Nat, m < n + 1, NEW p \in f[m], NEW r \in Out(us, p)
                 PROVE  Y[Extend(p, r)] = (Y[p] * v[r]) \div Hundred
      OBVIOUS
    <3>1. CASE m = n
      <4>1. Y[p] = X[p]  BY <1>1, <2>5, <3>1
      <4>2. Y[Extend(p, r)] = (X[p] * v[r]) \div Hundred  BY <2>2, <2>6, <3>1
      <4> QED  BY <4>1, <4>2
    <3>2. CASE m # n
      <4>1. m < n /\ m \in 0..n /\ m + 1 \in 0..n  BY <3>2
      <4>2. Extend(p, r) \in f[m + 1]  BY GoesOn
      <4>3. p \in U(n) /\ Extend(p, r) \in U(n)  BY <4>1, <4>2 DEF Upto
      <4>4. X[Extend(p, r)] = (X[p] * v[r]) \div Hundred  BY <2>1, <4>1
      <4> QED  BY <2>5, <4>3, <4>4
    <3> QED  BY <3>1, <3>2
  <2> HIDE DEF Goes, U
  <2>9. So(n + 1, Y)  BY <2>4, <2>7, <2>8
  <2> QED  BY <2>9
<1> HIDE DEF S
<1>4. \A n \in Nat : n \in S  BY <1>2, <1>3, Counting
<1>5. PICK X : So(Cardinality(Entities), X)  BY <1>4, EntityCount DEF S
<1>6. ASSUME NEW p \in Traversals(us, e), NEW r \in Out(us, p)
      PROVE  /\ Extend(p, r) \in Traversals(us, e)
             /\ X[Extend(p, r)] = (X[p] * v[r]) \div Hundred
  <2>1. PICK n \in Nat : p \in f[n]  BY OfSomeLength
  <2>2. Extend(p, r) \in f[n + 1] /\ n + 1 \in Nat  BY <2>1, GoesOn
  <2>3. Extend(p, r) \in Traversals(us, e) /\ (n + 1) + 1 <= Cardinality(Entities)
    BY <2>2, RoundFacts
  <2>4. n < Cardinality(Entities)  BY <2>3, EntityCount
  <2> QED  BY <1>5, <2>1, <2>3, <2>4
<1>7. U(Cardinality(Entities)) = Traversals(us, e)  BY UptoFacts
<1> QED  BY <1>5, <1>6, <1>7 DEF Worth

\* What the shares of the paths contain adds up to what their sum contains.
LEMMA SumContains ==
  ASSUME NEW K, NEW X, Numbers(X, K), \A p \in K : p.share \in Interval,
         \A p \in K : Contains(p.share, X[p])
  PROVE  Contains(Sum(K), SumFunctionOnSet(X, K))
<1> DEFINE F(T) == SumFunctionOnSet(X, T)
           Q == {T \in SUBSET K : Contains(Sum(T), F(T))}
<1>1. /\ F({}) = 0 /\ \A T \in SUBSET K : F(T) \in Nat
      /\ \A T \in SUBSET K : \A p \in T : F(T) = X[p] + F(T \ {p})
  BY Sums DEF Additive
<1>2. /\ Sum({}) = ExactInterval(0)
      /\ \A T \in SUBSET K : Sum(T) \in Interval
      /\ \A T \in SUBSET K : \A p \in T : Sum(T) = AddIntervals(p.share, Sum(T \ {p}))
  BY SumRules DEF Numbers
<1> HIDE DEF F
<1>3. {} \in Q  BY <1>1, <1>2 DEF Contains, ExactInterval
<1>4. ASSUME NEW T \in SUBSET K, T # {}, \A p \in T : T \ {p} \in Q PROVE T \in Q
  <2>1. PICK p \in T : TRUE  BY <1>4
  <2>2. Contains(Sum(T \ {p}), F(T \ {p}))  BY <1>4, <2>1
  <2>3. Sum(T \ {p}) \in Interval /\ F(T \ {p}) \in Nat  BY <1>1, <1>2
  <2>4. p.share \in Interval /\ X[p] \in Nat /\ Contains(p.share, X[p])  BY DEF Numbers
  <2>5. Contains(AddIntervals(p.share, Sum(T \ {p})), X[p] + F(T \ {p}))
    BY <2>2, <2>3, <2>4, AddSound
  <2>6. Contains(Sum(T), F(T))  BY <1>1, <1>2, <2>1, <2>5
  <2> QED  BY <2>6
<1> HIDE DEF Q
<1>5. K \in Q  BY <1>3, <1>4, Removing DEF Numbers
<1> QED  BY <1>5 DEF Q, F

\* Each traversal but the first came from a shorter one.
LEMMA Stepped ==
  ASSUME NEW us, NEW e, Holder(us, e), NEW n \in Nat
  PROVE  /\ \A p \in Upto(us, e, n + 1) : p # Start(e) =>
              \E y \in Upto(us, e, n) : \E r \in Out(us, y) : p = Extend(y, r)
         /\ \A y \in Upto(us, e, n) : \A r \in Out(us, y) :
              /\ Extend(y, r) \in Upto(us, e, n + 1)
              /\ y.at # Target /\ r \in us /\ r.subject = y.at /\ r.object # e
              /\ r.object \in ReverseReachable(us) /\ r.object \notin y.visited
<1>1. ASSUME NEW p \in Upto(us, e, n + 1), p # Start(e)
      PROVE  \E y \in Upto(us, e, n) : \E r \in Out(us, y) : p = Extend(y, r)
  <2>1. PICK m \in 0..(n + 1) : p \in Rounds(us, e)[m]  BY DEF Upto
  <2>2. m # 0  BY <1>1, <2>1, UptoFacts
  <2>3. m - 1 \in 0..n /\ m - 1 \in Nat /\ (m - 1) + 1 = m  BY <2>2
  <2>4. \E y \in Rounds(us, e)[m - 1] : \E r \in Out(us, y) : p = Extend(y, r)
    BY <2>1, <2>3, CameFrom
  <2> QED  BY <2>3, <2>4 DEF Upto
<1>2. ASSUME NEW y \in Upto(us, e, n), NEW r \in Out(us, y)
      PROVE  /\ Extend(y, r) \in Upto(us, e, n + 1)
             /\ y.at # Target /\ r \in us /\ r.subject = y.at /\ r.object # e
             /\ r.object \in ReverseReachable(us) /\ r.object \notin y.visited
  <2>1. PICK m \in 0..n : y \in Rounds(us, e)[m]  BY DEF Upto
  <2>2. m \in Nat /\ m + 1 \in 0..(n + 1)  OBVIOUS
  <2>3. /\ Extend(y, r) \in Rounds(us, e)[m + 1]
        /\ y.at # Target /\ r \in us /\ r.subject = y.at
        /\ r.object \in ReverseReachable(us) /\ r.object \notin y.visited
    BY <2>1, <2>2, GoesOn
  <2>4. e \in y.visited  BY <2>1, <2>2, RoundFacts DEF Shape, Located
  <2> QED  BY <2>2, <2>3, <2>4 DEF Upto
<1> QED  BY <1>1, <1>2

\* Where no entity is held by more than 100%, a holder reaches none by more.
LEMMA Flow ==
  ASSUME NEW us, NEW e, Holder(us, e), NEW v, v \in [us -> Nat], NEW X, Worth(us, e, v, X),
         \A o \in Entities : SumFunctionOnSet(v, {r \in us : r.object = o}) <= Hundred
  PROVE  SumFunctionOnSet(X, {p \in Traversals(us, e) : p.at = Target}) <= Hundred
<1> DEFINE ts == Traversals(us, e)
           U(n) == Upto(us, e, n)
           At(n, x) == {p \in U(n) : p.at = x}
           S == {n \in Nat : \A x \in Entities : SumFunctionOnSet(X, At(n, x)) <= Hundred}
<1>1. Numbers(X, ts)
  BY TraversalsTyped DEF Holder, Worth, Numbers
<1>2. /\ U(0) = {Start(e)}
      /\ \A n \in Nat : U(n) \subseteq ts /\ Start(e) \in U(n)
      /\ ts = U(Cardinality(Entities))
  BY UptoFacts
<1>3. Numbers(v, us)  BY DEF Holder, Graph, Numbers
<1>4. Hundred \in Nat /\ Hundred > 0  BY HundredAssumption
<1>5. SumFunctionOnSet(X, {}) = 0 /\ SumFunctionOnSet(X, {Start(e)}) = Hundred
  <2>1. {Start(e)} \in SUBSET ts /\ Start(e) \in {Start(e)}  BY <1>2
  <2>2. /\ SumFunctionOnSet(X, {}) = 0
        /\ SumFunctionOnSet(X, {Start(e)})
             = X[Start(e)] + SumFunctionOnSet(X, {Start(e)} \ {Start(e)})
    BY <1>1, <2>1, Sums DEF Additive
  <2>3. {Start(e)} \ {Start(e)} = {}  OBVIOUS
  <2>4. X[Start(e)] = Hundred  BY DEF Worth
  <2> QED  BY <1>4, <2>2, <2>3, <2>4
<1>6. Start(e).at = e  BY DEF Start
<1>7. 0 \in S
  <2> SUFFICES ASSUME NEW x \in Entities PROVE SumFunctionOnSet(X, At(0, x)) <= Hundred
    OBVIOUS
  <2>1. At(0, x) = {} \/ At(0, x) = {Start(e)}  BY <1>2
  <2> HIDE DEF At
  <2>2. SumFunctionOnSet(X, At(0, x)) = 0 \/ SumFunctionOnSet(X, At(0, x)) = Hundred
    BY <1>5, <2>1, Zenon
  <2> QED  BY <1>4, <2>2
<1>8. ASSUME NEW n \in Nat, n \in S PROVE n + 1 \in S
  <2> SUFFICES ASSUME NEW x, x \in Entities PROVE SumFunctionOnSet(X, At(n + 1, x)) <= Hundred
    OBVIOUS
  <2>1. /\ \A p \in U(n + 1) : p # Start(e) =>
             \E y \in U(n) : \E r \in Out(us, y) : p = Extend(y, r)
        /\ \A y \in U(n) : \A r \in Out(us, y) :
             /\ Extend(y, r) \in U(n + 1)
             /\ y.at # Target /\ r \in us /\ r.subject = y.at /\ r.object # e
    BY Stepped
  <2>2. CASE x = e
    <3>1. ASSUME NEW p \in At(n + 1, x), p # Start(e) PROVE FALSE
      <4>1. PICK y \in U(n) : \E r \in Out(us, y) : p = Extend(y, r)  BY <2>1, <3>1
      <4>2. PICK r \in Out(us, y) : p = Extend(y, r)  BY <4>1
      <4>3. p.at = r.object  BY <4>2, Extended
      <4> QED  BY <2>1, <2>2, <4>3
    <3>2. Start(e) \in At(n + 1, x)  BY <1>2, <1>6, <2>2
    <3>3. At(n + 1, x) = {Start(e)}  BY <3>1, <3>2
    <3> HIDE DEF At
    <3> QED  BY <1>4, <1>5, <3>3
  <2>3. CASE x # e
    <3> DEFINE Here == At(n + 1, x)
               In == {r \in us : r.object = x}
               last(p) == CHOOSE r : \E y \in U(n) : r \in Out(us, y) /\ p = Extend(y, r)
               by == [p \in Here |-> last(p)]
               from(r) == {y \in U(n) : r \in Out(us, y)}
               each == [r \in In |-> SumFunctionOnSet(X, {p \in Here : by[p] = r})]
    <3>1. ASSUME NEW p, p \in Here
          PROVE  /\ by[p] \in In
                 /\ \E y \in from(by[p]) : p = Extend(y, by[p])
      <4>1. p # Start(e)  BY <1>6, <2>3, <3>1
      <4>2. \E y \in U(n) : \E r \in Out(us, y) : p = Extend(y, r)  BY <2>1, <3>1, <4>1
      <4>3. \E r : \E y \in U(n) : r \in Out(us, y) /\ p = Extend(y, r)  BY <4>2
      <4>4. PICK y \in U(n) : by[p] \in Out(us, y) /\ p = Extend(y, by[p])
        <5>1. by[p] = last(p)  BY <3>1
        <5> HIDE DEF by, U, Here
        <5> QED  BY <4>3, <5>1
      <4>5. by[p] \in us /\ p.at = by[p].object  BY <2>1, <4>4, Extended
      <4> QED  BY <3>1, <4>4, <4>5
    <3>2. ASSUME NEW r \in In, NEW y \in from(r)
          PROVE  Extend(y, r) \in Here /\ by[Extend(y, r)] = r
      <4>1. y \in U(n) /\ r \in Out(us, y) /\ r.object = x  OBVIOUS
      <4>2. Extend(y, r) \in Here  BY <2>1, <4>1, Extended
      <4>3. PICK z \in from(by[Extend(y, r)]) : Extend(y, r) = Extend(z, by[Extend(y, r)])
        BY <3>1, <4>2
      <4>4. y \in ts /\ z \in ts /\ by[Extend(y, r)] \in Out(us, z)  BY <1>2, <4>1, <4>3
      <4>5. r = by[Extend(y, r)]
        <5> HIDE DEF by
        <5> QED  BY <4>1, <4>3, <4>4, OneWay
      <4> QED  BY <4>2, <4>5
    <3>3. Here \in SUBSET ts /\ In \in SUBSET us  BY <1>2
    <3>4. Numbers(X, Here) /\ Numbers(v, In)
      BY <1>1, <1>3, <3>3, FS_Subset DEF Numbers
    <3> HIDE DEF Here, In, by
    <3>5. Numbers(each, In) /\ SumFunctionOnSet(X, Here) = SumFunctionOnSet(each, In)
      <4>1. Parts(each, In, X, Here, by)  BY DEF Parts
      <4>2. Keyed(Here, by, In)  BY <3>1, <3>4 DEF Numbers, Keyed
      <4> HIDE DEF each
      <4> QED  BY ONLY <3>4, <4>1, <4>2, SumByParts
    <3>6. ASSUME NEW r, r \in In PROVE 1 * each[r] <= 1 * v[r]
      <4> DEFINE B == from(r)
                 b == [y \in B |-> Extend(y, r)]
                 f == [y \in B |-> X[Extend(y, r)]]
      <4>1. B \in SUBSET ts  BY <1>2
      <4>2. B \in SUBSET At(n, r.subject) /\ At(n, r.subject) \in SUBSET ts
            /\ r.subject \in Entities /\ r \in us
        BY <1>2, <2>1, <3>3, <3>6 DEF Holder, Graph, Sound
      <4>3. Numbers(X, B) /\ Numbers(X, At(n, r.subject))
        BY <1>1, <4>1, <4>2, FS_Subset DEF Numbers
      <4>4. Numbers(f, B)
        <5>1. \A y \in B : X[Extend(y, r)] \in Nat  BY <3>2, <3>3, <3>6, <1>1 DEF Numbers
        <5> QED  BY <4>3, <5>1 DEF Numbers
      <4>5. \A y, z \in B : b[y] = b[z] => y = z
        <5> SUFFICES ASSUME NEW y \in B, NEW z \in B, Extend(y, r) = Extend(z, r) PROVE y = z
          OBVIOUS
        <5>1. y \in ts /\ z \in ts /\ r \in Out(us, y) /\ r \in Out(us, z)  BY <1>2
        <5> QED  BY <5>1, OneWay
      <4>6. \A y \in B : X[b[y]] = f[y]  OBVIOUS
      <4>7. {b[y] : y \in B} = {p \in Here : by[p] = r}
        <5>1. \A y \in B : b[y] = Extend(y, r)  OBVIOUS
        <5>2. \A y \in B : b[y] \in Here /\ by[b[y]] = r  BY <3>2, <3>6, <5>1
        <5>3. \A p \in Here : by[p] = r => \E y \in B : p = b[y]  BY <3>1, <5>1
        <5> HIDE DEF b, B
        <5> QED  BY <5>2, <5>3
      <4>8. \A y \in B : Hundred * f[y] <= v[r] * X[y]
        <5> SUFFICES ASSUME NEW y \in B PROVE Hundred * f[y] <= v[r] * X[y]
          OBVIOUS
        <5>1. y \in ts /\ r \in Out(us, y)  BY <1>2
        <5>2. f[y] = (X[y] * v[r]) \div Hundred  BY <5>1 DEF Worth
        <5>3. X[y] \in Nat /\ v[r] \in Nat  BY <4>2, <4>3 DEF Numbers
        <5> HIDE DEF f
        <5> QED  BY <5>2, <5>3, Divided
      <4> HIDE DEF f, b, B
      <4>9. SumFunctionOnSet(X, {b[y] : y \in B}) = SumFunctionOnSet(f, B)
        BY ONLY <4>4, <4>5, <4>6, SumRenames
      <4>10. each[r] = SumFunctionOnSet(f, B)  BY <3>6, <4>7, <4>9
      <4>11. v[r] \in Nat /\ Hundred \in Nat  BY <4>2, HundredAssumption
      <4>12. /\ SumFunctionOnSet(f, B) \in Nat /\ SumFunctionOnSet(X, B) \in Nat
             /\ Hundred * SumFunctionOnSet(f, B) <= v[r] * SumFunctionOnSet(X, B)
        BY ONLY <4>3, <4>4, <4>8, <4>11, SumCompares
      <4>13. /\ SumFunctionOnSet(X, At(n, r.subject)) \in Nat
             /\ SumFunctionOnSet(X, B) <= SumFunctionOnSet(X, At(n, r.subject))
        BY ONLY <4>2, <4>3, SumPart
      <4>14. SumFunctionOnSet(X, At(n, r.subject)) <= Hundred  BY <1>8, <4>2
      <4>15. SumFunctionOnSet(X, B) <= Hundred  BY <4>11, <4>12, <4>13, <4>14
      <4> DEFINE s == SumFunctionOnSet(f, B)
                 w == SumFunctionOnSet(X, B)
      <4>16. v[r] * w <= v[r] * Hundred
        <5>1. v[r] \in Nat /\ w \in Nat /\ w <= Hundred /\ v[r] <= v[r]
          BY <4>11, <4>12, <4>15
        <5> HIDE DEF w
        <5> QED  BY ONLY <5>1, <4>11, ProductGrows
      <4>17. s <= v[r]
        <5>1. s \in Nat /\ Hundred * s <= v[r] * Hundred
          <6>1. v[r] * w \in Nat /\ v[r] * Hundred \in Nat /\ Hundred * s \in Nat
            BY <4>11, <4>12, Associate
          <6> HIDE DEF s, w
          <6> QED  BY <4>12, <4>16, <6>1 DEF s, w
        <5> HIDE DEF s
        <5>2. CASE s > v[r]
          <6>1. v[r] * Hundred < s * Hundred  BY <1>4, <4>11, <5>1, <5>2, ProductGrowsStrictly
          <6>2. s * Hundred = Hundred * s /\ s * Hundred \in Nat /\ v[r] * Hundred \in Nat
            BY <4>11, <5>1, Associate
          <6> QED  BY <5>1, <6>1, <6>2
        <5> QED  BY <4>11, <5>1, <5>2
      <4> QED  BY <4>10, <4>11, <4>12, <4>17
    <3> HIDE DEF each
    <3>7. /\ SumFunctionOnSet(each, In) \in Nat /\ SumFunctionOnSet(v, In) \in Nat
          /\ 1 * SumFunctionOnSet(each, In) <= 1 * SumFunctionOnSet(v, In)
      <4>1. 1 \in Nat  OBVIOUS
      <4> QED  BY ONLY <3>4, <3>5, <3>6, <4>1, SumCompares
    <3>8. SumFunctionOnSet(v, In) <= Hundred  BY DEF In
    <3> QED  BY <1>4, <3>5, <3>7, <3>8 DEF Here
  <2> QED  BY <2>2, <2>3
<1> HIDE DEF S
<1>9. \A n \in Nat : n \in S  BY <1>7, <1>8, Counting
<1> QED  BY <1>2, <1>9, EntityCount, TargetAssumption DEF S

\* What r gives its subject of the target when its object has t of it.
Part(us, v, t) ==
  [r \in us |-> IF r.object = Target THEN v[r] ELSE (v[r] * t[r.object]) \div Hundred]

\* Looking through one level after the other.
Looks(us, v, T) ==
  /\ T \in [Nat -> [Entities -> Nat]]
  /\ \A x \in Entities : T[0][x] = 0
  /\ \A n \in Nat : \A x \in Entities :
       T[n + 1][x] = SumFunctionOnSet(Part(us, v, T[n]), {r \in us : r.subject = x})

\* Inputs as they are accepted.
Inputs(us, v) == v \in [us -> Nat] /\ \A r \in us : v[r] \in Fine(1)

\* What lies ahead of a traversal when t has been looked through.
Ahead(X, t, p) == IF p.at = Target THEN X[p] ELSE (X[p] * t[p.at]) \div Hundred

LEMMA PartFacts ==
  ASSUME NEW us, Graph(us), NEW v, Inputs(us, v), NEW n \in Nat, n + 1 <= Depth,
         NEW t, t \in [Entities -> Nat], \A x \in Entities : t[x] \in Fine(n)
  PROVE  /\ Numbers(Part(us, v, t), us)
         /\ \A r \in us : /\ Part(us, v, t)[r] \in Fine(n + 1)
                          /\ r.object # Target =>
                               /\ Hundred * Part(us, v, t)[r] = v[r] * t[r.object]
                               /\ t[r.object] = 0 => Part(us, v, t)[r] = 0
<1> DEFINE part == Part(us, v, t)
<1>1. n + 1 \in 0..Depth /\ n + 1 \in Nat /\ 1 <= n + 1 /\ 1 + n = n + 1 /\ 1 \in Nat
  BY StepAssumption
<1>2. ASSUME NEW r \in us
      PROVE  /\ part[r] \in Fine(n + 1)
             /\ r.object # Target => /\ Hundred * part[r] = v[r] * t[r.object]
                                     /\ t[r.object] = 0 => part[r] = 0
  <2>1. v[r] \in Fine(1) /\ v[r] \in Nat /\ r.object \in Entities
    BY DEF Inputs, Graph, Sound
  <2>2. CASE r.object = Target
    <3>1. part[r] = v[r]  BY <2>2 DEF Part
    <3>2. Fine(1) \subseteq Fine(n + 1)  BY <1>1, FineGrows
    <3> QED  BY <2>1, <2>2, <3>1, <3>2
  <2>3. CASE r.object # Target
    <3> DEFINE y == t[r.object]
    <3>1. y \in Fine(n) /\ y \in Nat  BY <2>1
    <3>2. part[r] = (v[r] * y) \div Hundred  BY <2>3 DEF Part
    <3> HIDE DEF y, part
    <3>3. /\ (v[r] * y) \div Hundred \in Fine(1 + n)
          /\ Whole(v[r] * y, (v[r] * y) \div Hundred)
      BY <1>1, <2>1, <3>1, FineProduct
    <3>4. part[r] \in Fine(n + 1)  BY <1>1, <3>2, <3>3
    <3>5. part[r] \in Nat /\ v[r] * y = part[r] * Hundred  BY <3>2, <3>3 DEF Whole
    <3>6. Hundred * part[r] = part[r] * Hundred  BY <3>5, HundredAssumption, Associate
    <3>7. y = 0 => part[r] = 0
      <4>1. v[r] * 0 = 0  BY <2>1
      <4>2. part[r] * Hundred = 0 => part[r] = 0  BY <3>5, HundredAssumption, ProductZero
      <4> QED  BY <3>5, <4>1, <4>2
    <3> QED  BY <2>3, <3>4, <3>5, <3>6, <3>7 DEF y
  <2> QED  BY <2>2, <2>3
<1>3. Fine(n + 1) \subseteq Nat  BY <1>1, FineNumbers
<1>4. Numbers(part, us)  BY <1>2, <1>3 DEF Numbers, Graph
<1> QED  BY <1>2, <1>4

\* All levels are whole numbers of parts, and there is nothing for whoever is
\* not upstream of the target.
LEMMA LookFacts ==
  ASSUME NEW us, Graph(us), NEW v, Inputs(us, v), NEW T, Looks(us, v, T), NEW n \in Nat,
         n <= Cardinality(Entities)
  PROVE  \A x \in Entities : /\ T[n][x] \in Fine(n)
                             /\ x \notin ReverseReachable(us) => T[n][x] = 0
<1>1. PICK f \in [Nat -> SUBSET Entities] :
           /\ f[0] = {Target}
           /\ \A m \in Nat : f[m + 1] = Upstream(us, f[m])
           /\ ReverseReachable(us) = f[Cardinality(Entities)]
  BY Reaching
<1> DEFINE N == Cardinality(Entities)
           S == {m \in Nat : m <= N => \A x \in Entities :
                               T[m][x] \in Fine(m) /\ (x \notin f[m] => T[m][x] = 0)}
<1>2. N \in Nat /\ Depth \in Nat /\ N <= Depth
  BY EntityCount, DepthAssumption, StepAssumption
<1>3. 0 \in S
  <2>1. 0 \in Fine(0)  BY <1>2, FineNumbers
  <2> QED  BY <2>1 DEF Looks
<1>4. ASSUME NEW m \in Nat, m \in S PROVE m + 1 \in S
  <2> SUFFICES ASSUME m + 1 <= N, NEW x, x \in Entities
               PROVE  T[m + 1][x] \in Fine(m + 1) /\ (x \notin f[m + 1] => T[m + 1][x] = 0)
    OBVIOUS
  <2> DEFINE part == Part(us, v, T[m])
             In == {r \in us : r.subject = x}
  <2>1. \A z \in Entities : T[m][z] \in Fine(m) /\ (z \notin f[m] => T[m][z] = 0)
    BY <1>2, <1>4
  <2>2. T[m] \in [Entities -> Nat] /\ T[m + 1][x] = SumFunctionOnSet(part, In)
    BY DEF Looks
  <2>3. m + 1 <= Depth /\ m + 1 \in 0..Depth  BY <1>2
  <2>4. /\ Numbers(part, us)
        /\ \A r \in us : /\ part[r] \in Fine(m + 1)
                         /\ r.object # Target /\ T[m][r.object] = 0 => part[r] = 0
    BY <2>1, <2>2, <2>3, PartFacts
  <2> HIDE DEF part
  <2>5. In \in SUBSET us  OBVIOUS
  <2>6. Numbers(part, In)  BY <2>4, <2>5, FS_Subset DEF Numbers
  <2>7. SumFunctionOnSet(part, In) \in Fine(m + 1)
    <3>1. \A r \in In : part[r] \in Fine(m + 1)  BY <2>4
    <3> HIDE DEF In
    <3> QED  BY <2>3, <2>6, <3>1, FineSums
  <2>8. ASSUME x \notin f[m + 1] PROVE SumFunctionOnSet(part, In) = 0
    <3>1. ASSUME NEW r \in In PROVE part[r] = 0
      <4>1. f[m + 1] = Upstream(us, f[m])  BY <1>1
      <4>2. r \in us /\ r.object \in Entities  BY DEF Graph, Sound
      <4>3. r.object \notin f[m]  BY <2>8, <4>1 DEF Upstream
      <4>4. Target \in f[m]
        <5>1. \A j \in Nat : f[j] \subseteq f[j + 1]  BY <1>1 DEF Upstream
        <5>2. \A i, j \in Nat : i <= j => f[i] \subseteq f[j]  BY <5>1, Growing
        <5> QED  BY <1>1, <5>2
      <4> QED  BY <2>1, <2>4, <4>2, <4>3, <4>4
    <3> HIDE DEF In
    <3>2. {} \in SUBSET In /\ \A r \in In \ {} : part[r] = 0  BY <3>1
    <3>3. SumFunctionOnSet(part, {}) = SumFunctionOnSet(part, In)  BY <2>6, <3>2, SumPart
    <3>4. SumFunctionOnSet(part, {}) = 0  BY <2>6, Sums DEF Additive
    <3> QED  BY <3>3, <3>4
  <2> QED  BY <2>2, <2>7, <2>8
<1> HIDE DEF S
<1>5. \A m \in Nat : m \in S  BY <1>3, <1>4, Counting
<1>6. f[n] \subseteq f[N]
  <2>1. \A j \in Nat : f[j] \subseteq f[j + 1]  BY <1>1 DEF Upstream
  <2>2. \A i, j \in Nat : i <= j => f[i] \subseteq f[j]  BY <2>1, Growing
  <2> QED  BY <1>2, <2>2
<1> QED  BY <1>1, <1>5, <1>6 DEF S

\* So is what the traversals are worth.
LEMMA WorthFacts ==
  ASSUME NEW us, NEW e, Holder(us, e), NEW v, Inputs(us, v), NEW X, Worth(us, e, v, X),
         NEW n \in Nat
  PROVE  \A p \in Rounds(us, e)[n] :
           /\ X[p] \in Fine(n) /\ X[p] \in Nat
           /\ \A r \in Out(us, p) : /\ X[Extend(p, r)] \in Nat
                                    /\ Hundred * X[Extend(p, r)] = X[p] * v[r]
<1> DEFINE f == Rounds(us, e)
           S == {m \in Nat : \A p \in f[m] : X[p] \in Fine(m)}
<1>1. f[0] = {Start(e)}  BY UptoFacts
<1>2. \A m \in Nat : \A p \in f[m] : p \in Traversals(us, e) /\ m + 1 <= Depth
  BY RoundFacts, EntityCount, DepthAssumption, StepAssumption
<1>3. 0 \in S  BY <1>1, FineInputs DEF Worth
<1>4. ASSUME NEW m, m \in Nat, m \in S, NEW p, p \in f[m], NEW r, r \in Out(us, p)
      PROVE  /\ X[Extend(p, r)] \in Fine(m + 1) /\ X[Extend(p, r)] \in Nat
             /\ Hundred * X[Extend(p, r)] = X[p] * v[r]
  <2>1. p \in Traversals(us, e) /\ m + 1 <= Depth /\ 1 \in Nat  BY <1>2, <1>4
  <2>2. r \in us  BY <1>4, GoesOn
  <2>3. X[p] \in Fine(m) /\ v[r] \in Fine(1)  BY <1>4, <2>2 DEF Inputs
  <2> DEFINE a == X[p]
             b == v[r]
             c == X[Extend(p, r)]
  <2>4. c = (a * b) \div Hundred  BY <1>4, <2>1 DEF Worth
  <2> HIDE DEF a, b, c
  <2>5. (a * b) \div Hundred \in Fine(m + 1) /\ Whole(a * b, (a * b) \div Hundred)
    <3>1. a \in Fine(m) /\ b \in Fine(1)  BY <2>3 DEF a, b
    <3> QED  BY <1>4, <2>1, <3>1, FineProduct
  <2>6. c \in Nat /\ a * b = c * Hundred  BY <2>4, <2>5 DEF Whole
  <2>7. c * Hundred = Hundred * c  BY <2>6, HundredAssumption, Associate
  <2> QED  BY <2>4, <2>5, <2>6, <2>7 DEF a, b, c
<1>5. ASSUME NEW m \in Nat, m \in S PROVE m + 1 \in S
  <2> SUFFICES ASSUME NEW q \in f[m + 1] PROVE X[q] \in Fine(m + 1)
    OBVIOUS
  <2>1. \E p \in f[m] : \E r \in Out(us, p) : q = Extend(p, r)  BY CameFrom
  <2> QED  BY <1>4, <1>5, <2>1
<1> HIDE DEF S
<1>6. \A m \in Nat : m \in S  BY <1>3, <1>5, Counting
<1>7. ASSUME NEW p \in f[n] PROVE X[p] \in Nat
  BY <1>2 DEF Worth
<1> QED  BY <1>4, <1>6, <1>7 DEF S

\* a is x shared out by v.
Shared(a, x, v) == a \in Nat /\ x \in Nat /\ v \in Nat /\ Hundred * a = x * v

LEMMA Reassociates ==
  ASSUME NEW x, NEW v, NEW t, NEW a, NEW b, NEW c,
         Shared(a, x, v), Shared(b, v, t), Shared(c, a, t)
  PROVE  Shared(c, x, b)
<1> USE DEF Shared
<1>1. Hundred \in Nat  BY HundredAssumption
<1>2. Hundred * c \in Nat /\ x * b \in Nat  BY <1>1, Associate
<1>3. Hundred * (Hundred * c) = (Hundred * a) * t  BY <1>1, Associate
<1>4. (x * v) * t = x * (Hundred * b)  BY Associate
<1>5. x * (Hundred * b) = Hundred * (x * b)
  <2>1. x * (Hundred * b) = (x * Hundred) * b  BY <1>1, Associate
  <2>2. x * Hundred = Hundred * x  BY <1>1, Associate
  <2>3. (Hundred * x) * b = Hundred * (x * b)  BY <1>1, Associate
  <2> QED  BY <2>1, <2>2, <2>3
<1> DEFINE y == Hundred * c
           z == x * b
<1>6. y \in Nat /\ z \in Nat /\ Hundred * y = Hundred * z  BY <1>2, <1>3, <1>4, <1>5
<1> HIDE DEF y, z
<1>7. y * Hundred = Hundred * y /\ z * Hundred = Hundred * z  BY <1>1, <1>6, Associate
<1>8. y = (y * Hundred) \div Hundred /\ z = (z * Hundred) \div Hundred  BY <1>6, Quotient
<1>9. y = z  BY <1>6, <1>7, <1>8
<1> QED  BY <1>9 DEF y, z

LEMMA Dividing ==
  ASSUME NEW s \in Nat, NEW y \in Nat
  PROVE  /\ Hundred * s <= y => s <= y \div Hundred
         /\ Hundred * s = y => s = y \div Hundred
<1>1. y \div Hundred \in Nat /\ Hundred * (y \div Hundred) <= y
      /\ y < Hundred * (y \div Hundred) + Hundred
  BY HundredAssumption
<1> DEFINE d == y \div Hundred
<1>2. Hundred * s <= y => s <= d
  <2> SUFFICES ASSUME Hundred * s <= y, d < s PROVE FALSE
    BY <1>1
  <2>1. d + 1 \in Nat /\ d + 1 <= s  BY <1>1
  <2> HIDE DEF d
  <2>2. Hundred \in Nat /\ Hundred <= Hundred  BY HundredAssumption
  <2>3. Hundred * (d + 1) <= Hundred * s  BY <2>1, <2>2, ProductGrows
  <2>4. d \in Nat /\ y < Hundred * d + Hundred  BY <1>1 DEF d
  <2>5. Hundred * (d + 1) = Hundred * d + Hundred * 1 /\ Hundred * d \in Nat
    BY <2>2, <2>4, Distribute
  <2>6. Hundred * s \in Nat /\ Hundred * 1 = Hundred  BY <2>2, Associate
  <2> QED  BY <2>2, <2>3, <2>4, <2>5, <2>6
<1>3. ASSUME Hundred * s = y PROVE s = d
  <2>1. s * Hundred = Hundred * s  BY HundredAssumption, Associate
  <2> QED  BY <1>3, <2>1, Quotient
<1> QED  BY <1>2, <1>3

\* What lies ahead when p has gone on by r.
Carries(us, p, w, X, t) == \A r \in Out(us, p) : w[r] = Ahead(X, t, Extend(p, r))

\* One level further nothing is gained, and without cycles nothing is lost.
LEMMA OneRound ==
  ASSUME NEW us, NEW e, Holder(us, e), NEW v, Inputs(us, v), NEW X, Worth(us, e, v, X),
         NEW T, Looks(us, v, T), NEW n \in Nat, NEW k \in Nat, n + k + 1 = Cardinality(Entities),
         NEW p, p \in Rounds(us, e)[n], p.at # Target,
         NEW w, Carries(us, p, w, X, T[k])
  PROVE  /\ Numbers(w, Out(us, p))
         /\ SumFunctionOnSet(w, Out(us, p)) <= Ahead(X, T[k + 1], p)
         /\ Cycles(us, Traversals(us, e)) = {} =>
              SumFunctionOnSet(w, Out(us, p)) = Ahead(X, T[k + 1], p)
<1> DEFINE t == T[k]
           part == Part(us, v, t)
           In == {r \in us : r.subject = p.at}
           O == Out(us, p)
           x == X[p]
<1>1. /\ k <= Cardinality(Entities) /\ k + 1 <= Depth
      /\ n + 1 + k = Cardinality(Entities) /\ Cardinality(Entities) <= Depth
      /\ n + 1 \in Nat /\ (n + 1) + k <= Depth
  BY EntityCount, DepthAssumption, StepAssumption
<1>2. Graph(us)  BY DEF Holder
<1>3. p \in Path(us) /\ p \in Traversals(us, e) /\ p.at \in Entities  BY RoundFacts DEF Path
<1>4. t \in [Entities -> Nat] /\ T[k + 1][p.at] = SumFunctionOnSet(part, In)
  BY <1>3 DEF Looks
<1>5. \A z \in Entities : t[z] \in Fine(k) /\ (z \notin ReverseReachable(us) => t[z] = 0)
  BY <1>1, <1>2, LookFacts
<1>6. /\ Numbers(part, us)
      /\ \A r \in us : r.object # Target => /\ Hundred * part[r] = v[r] * t[r.object]
                                            /\ t[r.object] = 0 => part[r] = 0
  BY <1>1, <1>2, <1>4, <1>5, PartFacts
<1>7. \A r \in us : r.object = Target => part[r] = v[r]  BY DEF Part
<1>8. x \in Nat /\ \A r \in O : X[Extend(p, r)] \in Nat /\ Hundred * X[Extend(p, r)] = x * v[r]
  BY WorthFacts
<1>9. \A r \in O : /\ r \in us /\ r.subject = p.at /\ r.object \in Entities
                   /\ Extend(p, r) \in Rounds(us, e)[n + 1] /\ Extend(p, r).at = r.object
  BY <1>2, GoesOn, Extended DEF Graph, Sound
<1> HIDE DEF part, t, x, O
<1>10. ASSUME NEW r \in O PROVE w[r] \in Nat /\ Hundred * w[r] = x * part[r]
  <2> DEFINE q == Extend(p, r)
  <2>1. w[r] = Ahead(X, t, q)  BY DEF O, t, Carries
  <2>2. X[q] \in Nat /\ Hundred * X[q] = x * v[r] /\ q.at = r.object /\ r \in us  BY <1>8, <1>9
  <2>3. CASE r.object = Target
    <3>1. w[r] = X[q]  BY <2>1, <2>2, <2>3 DEF Ahead
    <3> QED  BY <1>7, <2>2, <2>3, <3>1
  <2>4. CASE r.object # Target
    <3> DEFINE y == t[r.object]
    <3>1. y \in Fine(k) /\ y \in Nat  BY <1>4, <1>5, <1>9
    <3>2. w[r] = (X[q] * y) \div Hundred  BY <2>1, <2>2, <2>4 DEF Ahead
    <3>3. X[q] \in Fine(n + 1)  BY <1>1, <1>9, WorthFacts
    <3>4. Whole(X[q] * y, (X[q] * y) \div Hundred)
      <4> DEFINE a == X[q]
      <4>1. a \in Fine(n + 1)  BY <3>3
      <4> HIDE DEF a, y
      <4>2. Whole(a * y, (a * y) \div Hundred)  BY <1>1, <3>1, <4>1, FineProduct
      <4> QED  BY <4>2 DEF a
    <3>5. w[r] \in Nat /\ X[q] * y = w[r] * Hundred  BY <3>2, <3>4 DEF Whole
    <3>6. w[r] * Hundred = Hundred * w[r]  BY <3>5, HundredAssumption, Associate
    <3>7. part[r] \in Nat /\ Hundred * part[r] = v[r] * y  BY <1>6, <2>2, <2>4 DEF Numbers
    <3>8. v[r] \in Nat  BY <2>2 DEF Inputs
    <3> DEFINE x1 == X[q]
               w1 == w[r]
               p1 == part[r]
               v1 == v[r]
    <3>10. Shared(x1, x, v1) /\ Shared(p1, v1, y) /\ Shared(w1, x1, y)
      BY <1>8, <2>2, <3>1, <3>5, <3>6, <3>7, <3>8 DEF Shared
    <3> HIDE DEF y, q, x1, w1, p1, v1
    <3>11. Shared(w1, x, p1)  BY ONLY <3>10, Reassociates
    <3>9. Hundred * w[r] = x * part[r]  BY <3>11 DEF w1, p1, Shared
    <3> QED  BY <3>5, <3>9
  <2> QED  BY <2>3, <2>4
<1>11. O \in SUBSET In /\ In \in SUBSET us  BY <1>9
<1>12. Numbers(part, In) /\ Numbers(part, O)
  BY <1>6, <1>11, FS_Subset DEF Numbers
<1>13. Numbers(w, O)  BY <1>10, <1>12 DEF Numbers
<1> DEFINE s == SumFunctionOnSet(w, O)
           m == SumFunctionOnSet(part, O)
           y == SumFunctionOnSet(part, In)
<1>14. s \in Nat /\ m \in Nat /\ Hundred * s = x * m
  <2>1. Hundred \in Nat /\ x \in Nat  BY <1>8, HundredAssumption
  <2>2. \A r \in O : Hundred * w[r] <= x * part[r] /\ x * part[r] <= Hundred * w[r]
    <3> SUFFICES ASSUME NEW r \in O
                 PROVE  Hundred * w[r] <= x * part[r] /\ x * part[r] <= Hundred * w[r]
      OBVIOUS
    <3> DEFINE a == Hundred * w[r]
               b == x * part[r]
    <3>1. w[r] \in Nat /\ a = b  BY <1>10
    <3>2. a \in Nat  BY <2>1, <3>1, Associate
    <3> HIDE DEF a, b
    <3>3. a <= b /\ b <= a  BY <3>1, <3>2
    <3> QED  BY <3>3 DEF a, b
  <2>3. /\ s \in Nat /\ m \in Nat /\ Hundred * s <= x * m
    BY ONLY <1>12, <1>13, <2>1, <2>2, SumCompares
  <2>4. x * m <= Hundred * s
    BY ONLY <1>12, <1>13, <2>1, <2>2, SumCompares
  <2>5. x * m \in Nat /\ Hundred * s \in Nat  BY <2>1, <2>3, Associate
  <2> HIDE DEF s, m
  <2> QED  BY <2>3, <2>4, <2>5
<1>15. /\ y \in Nat /\ m <= y
       /\ (\A r \in In \ O : part[r] = 0) => m = y
  BY ONLY <1>11, <1>12, SumPart
<1>16. Ahead(X, T[k + 1], p) = (x * y) \div Hundred  BY <1>4 DEF Ahead, x
<1>17. Cycles(us, Traversals(us, e)) = {} => m = y
  <2> SUFFICES ASSUME Cycles(us, Traversals(us, e)) = {}, NEW r \in In \ O PROVE part[r] = 0
    BY <1>15
  <2>1. r \in us /\ r.subject = p.at /\ r \notin O  OBVIOUS
  <2>2. r.object \notin ReverseReachable(us)
    <3> SUFFICES ASSUME r.object \in ReverseReachable(us) PROVE FALSE
      OBVIOUS
    <3>1. r.object \notin p.visited  BY <1>2, <1>3, <2>1, Onwards DEF Holder
    <3> QED  BY <2>1, <3>1 DEF O, Out, Onward, Arrived
  <2>3. r.object # Target
    <3>1. Target \in ReverseReachable(us)  BY <1>2, TargetReached
    <3> QED  BY <2>2, <3>1
  <2>4. r.object \in Entities  BY <1>2, <2>1 DEF Graph, Sound
  <2> QED  BY <1>5, <1>6, <2>1, <2>2, <2>3, <2>4
<1> HIDE DEF s, m, y
<1>18. x * m <= x * y /\ x * y \in Nat
  <2>1. x <= x  BY <1>8
  <2> QED  BY <1>8, <1>14, <1>15, <2>1, ProductGrows, Associate
<1>19. s <= (x * y) \div Hundred /\ (m = y => s = (x * y) \div Hundred)
  <2>1. Hundred * s <= x * y /\ (m = y => Hundred * s = x * y)
    <3>1. x * m \in Nat  BY <1>8, <1>14, Associate
    <3> QED  BY <1>14, <1>18, <3>1
  <2> QED  BY <1>14, <1>18, <2>1, Dividing
<1> QED  BY <1>13, <1>16, <1>17, <1>19 DEF s, O

\* What has arrived and what still lies ahead, level by level.
Arrivals(us, e, n) == {p \in Upto(us, e, n) : p.at = Target}
Underway(us, e, n) == {p \in Rounds(us, e)[n] : p.at # Target}
Balance(us, e, X, t, n) ==
  SumFunctionOnSet(X, Arrivals(us, e, n))
  + SumFunctionOnSet([p \in Rounds(us, e)[n] |-> Ahead(X, t, p)], Underway(us, e, n))

LEMMA AheadTyped ==
  ASSUME NEW us, NEW e, Holder(us, e), NEW v, NEW X, Worth(us, e, v, X),
         NEW t, t \in [Entities -> Nat], NEW n \in Nat
  PROVE  /\ Numbers(X, Traversals(us, e))
         /\ Numbers([p \in Rounds(us, e)[n] |-> Ahead(X, t, p)], Rounds(us, e)[n])
<1>1. Numbers(X, Traversals(us, e))
  BY TraversalsTyped DEF Holder, Worth, Numbers
<1>2. ASSUME NEW p \in Rounds(us, e)[n] PROVE Ahead(X, t, p) \in Nat
  <2>1. X[p] \in Nat /\ p.at \in Entities  BY RoundFacts DEF Worth, Path
  <2>2. t[p.at] \in Nat  BY <2>1
  <2>3. (X[p] * t[p.at]) \div Hundred \in Nat  BY <2>1, <2>2, Divided
  <2> QED  BY <2>1, <2>3 DEF Ahead
<1>3. IsFiniteSet(Rounds(us, e)[n])  BY RoundFacts
<1> QED  BY <1>1, <1>2, <1>3 DEF Numbers

LEMMA RoundBalance ==
  ASSUME NEW us, NEW e, Holder(us, e), NEW v, Inputs(us, v), NEW X, Worth(us, e, v, X),
         NEW T, Looks(us, v, T), NEW n \in Nat, NEW k \in Nat, n + k + 1 = Cardinality(Entities)
  PROVE  /\ Balance(us, e, X, T[k], n + 1) <= Balance(us, e, X, T[k + 1], n)
         /\ Cycles(us, Traversals(us, e)) = {} =>
              Balance(us, e, X, T[k], n + 1) = Balance(us, e, X, T[k + 1], n)
<1> DEFINE Now == Rounds(us, e)[n]
           Next1 == Rounds(us, e)[n + 1]
           now == [p \in Now |-> Ahead(X, T[k + 1], p)]
           after == [p \in Next1 |-> Ahead(X, T[k], p)]
           Before == Arrivals(us, e, n)
           Just == {p \in Next1 : p.at = Target}
           Open1 == Underway(us, e, n + 1)
           Open0 == Underway(us, e, n)
           came(q) == CHOOSE p : p \in Now /\ \E r \in Out(us, p) : q = Extend(p, r)
           by == [q \in Next1 |-> came(q)]
           each == [p \in Open0 |-> SumFunctionOnSet(after, {q \in Next1 : by[q] = p})]
<1>1. T[k] \in [Entities -> Nat] /\ T[k + 1] \in [Entities -> Nat] /\ n + 1 \in Nat
  BY DEF Looks
<1>2. Numbers(X, Traversals(us, e)) /\ Numbers(now, Now) /\ Numbers(after, Next1)
  BY <1>1, AheadTyped
<1>3. /\ Upto(us, e, n + 1) = Upto(us, e, n) \cup Next1
      /\ Upto(us, e, n) \cap Next1 = {}
      /\ Upto(us, e, n + 1) \subseteq Traversals(us, e)
  BY <1>1, UptoFacts
<1>4. Arrivals(us, e, n + 1) = Before \cup Just  BY <1>3 DEF Arrivals
<1>5. Apart(Before, Just, Traversals(us, e))  BY <1>3 DEF Arrivals, Apart
<1>6. Apart(Just, Open1, Next1) /\ Just \cup Open1 = Next1  BY DEF Apart, Underway
<1>7. /\ SumFunctionOnSet(X, Before) \in Nat /\ SumFunctionOnSet(X, Just) \in Nat
      /\ SumFunctionOnSet(X, Before \cup Just)
           = SumFunctionOnSet(X, Before) + SumFunctionOnSet(X, Just)
  BY ONLY <1>2, <1>5, SumSplits
<1>8. /\ SumFunctionOnSet(after, Just) \in Nat /\ SumFunctionOnSet(after, Open1) \in Nat
      /\ SumFunctionOnSet(after, Just \cup Open1)
           = SumFunctionOnSet(after, Just) + SumFunctionOnSet(after, Open1)
  <2> HIDE DEF after, Just, Open1, Next1
  <2> QED  BY ONLY <1>2, <1>6, SumSplits
<1>9. SumFunctionOnSet(X, Just) = SumFunctionOnSet(after, Just)
  <2>1. Numbers(X, Just)
    BY <1>2, <1>5, FS_Subset DEF Numbers, Apart
  <2>2. \A p \in Just : X[p] = after[p]  BY DEF Ahead
  <2> HIDE DEF after, Just
  <2> QED  BY ONLY <2>1, <2>2, SumEquals
<1>10. \A q \in Next1 : /\ by[q] \in Open0
                        /\ \E r \in Out(us, by[q]) : q = Extend(by[q], r)
  <2> SUFFICES ASSUME NEW q \in Next1
               PROVE  by[q] \in Open0 /\ \E r \in Out(us, by[q]) : q = Extend(by[q], r)
    OBVIOUS
  <2>1. \E p : p \in Now /\ \E r \in Out(us, p) : q = Extend(p, r)
    <3>1. q \in Rounds(us, e)[n + 1]  OBVIOUS
    <3>2. \E p \in Rounds(us, e)[n] : \E r \in Out(us, p) : q = Extend(p, r)
      BY ONLY <3>1, Holder(us, e), n \in Nat, CameFrom
    <3> QED  BY <3>2
  <2>2. by[q] = came(q)  OBVIOUS
  <2> HIDE DEF by, Now
  <2>3. by[q] \in Now /\ \E r \in Out(us, by[q]) : q = Extend(by[q], r)  BY <2>1, <2>2
  <2>4. by[q].at # Target  BY <2>3, GoesOn DEF Now
  <2> QED  BY <2>3, <2>4 DEF Underway, Now
<1>11. ASSUME NEW p \in Now, NEW r \in Out(us, p)
       PROVE  Extend(p, r) \in Next1 /\ by[Extend(p, r)] = p
  <2> DEFINE q == Extend(p, r)
  <2>1. q \in Next1  BY GoesOn
  <2>2. PICK u \in Out(us, by[q]) : q = Extend(by[q], u)  BY <1>10, <2>1
  <2>3. by[q] \in Now  BY <1>10, <2>1 DEF Underway
  <2> HIDE DEF by
  <2>4. by[q] = p  BY <2>2, <2>3, ExtendOnce
  <2> QED  BY <2>1, <2>4
<1>12. Open0 \in SUBSET Now /\ IsFiniteSet(Open0)
  <2>1. Open0 \in SUBSET Now  BY DEF Underway
  <2> QED  BY <1>2, <2>1, FS_Subset DEF Numbers
<1> HIDE DEF by, Now, Next1, Open0
<1>13. Numbers(each, Open0) /\ SumFunctionOnSet(after, Next1) = SumFunctionOnSet(each, Open0)
  <2>1. Parts(each, Open0, after, Next1, by)  BY DEF Parts
  <2>2. Keyed(Next1, by, Open0)  BY <1>10, <1>12 DEF Keyed
  <2> HIDE DEF each, after
  <2> QED  BY ONLY <1>2, <2>1, <2>2, SumByParts
<1>14. ASSUME NEW p, p \in Open0
       PROVE  /\ each[p] <= now[p]
              /\ Cycles(us, Traversals(us, e)) = {} => each[p] = now[p]
  <2> DEFINE O == Out(us, p)
             w == [r \in O |-> after[Extend(p, r)]]
             b == [r \in O |-> Extend(p, r)]
  <2>1. p \in Now /\ p.at # Target  BY <1>14 DEF Open0, Underway, Now
  <2>2. now[p] = Ahead(X, T[k + 1], p)  BY <2>1
  <2>3. Carries(us, p, w, X, T[k])
    <3>1. \A r \in O : after[Extend(p, r)] = Ahead(X, T[k], Extend(p, r))  BY <1>11, <2>1
    <3> HIDE DEF after
    <3> QED  BY <3>1 DEF Carries
  <2>4. /\ Numbers(w, O) /\ SumFunctionOnSet(w, O) <= Ahead(X, T[k + 1], p)
        /\ Cycles(us, Traversals(us, e)) = {} =>
              SumFunctionOnSet(w, O) = Ahead(X, T[k + 1], p)
    <3>1. p \in Rounds(us, e)[n]  BY <2>1 DEF Now
    <3> HIDE DEF w
    <3> QED  BY <2>1, <2>3, <3>1, OneRound
  <2>5. \A r, u \in O : b[r] = b[u] => r = u
    <3> SUFFICES ASSUME NEW r \in O, NEW u \in O, Extend(p, r) = Extend(p, u) PROVE r = u
      OBVIOUS
    <3> QED  BY <2>1, ExtendOnce DEF Now
  <2>6. \A r \in O : after[b[r]] = w[r]
    <3> HIDE DEF after
    <3> QED  OBVIOUS
  <2>7. {b[r] : r \in O} = {q \in Next1 : by[q] = p}
    <3>1. \A r \in O : b[r] \in Next1 /\ by[b[r]] = p  BY <1>11, <2>1
    <3>2. \A q \in Next1 : by[q] = p => \E r \in O : q = b[r]
      <4> SUFFICES ASSUME NEW q \in Next1, by[q] = p PROVE \E r \in O : q = Extend(p, r)
        OBVIOUS
      <4> QED  BY <1>10
    <3> HIDE DEF b, O
    <3> QED  BY <3>1, <3>2
  <2> HIDE DEF b, w, O, after
  <2>8. SumFunctionOnSet(after, {b[r] : r \in O}) = SumFunctionOnSet(w, O)
    BY ONLY <2>4, <2>5, <2>6, SumRenames
  <2>9. each[p] = SumFunctionOnSet(after, {q \in Next1 : by[q] = p})  BY <1>14
  <2>10. each[p] = SumFunctionOnSet(w, O)  BY <2>7, <2>8, <2>9
  <2> HIDE DEF each, now
  <2> QED  BY <2>2, <2>4, <2>10
<1>15. Numbers(now, Open0)  BY <1>2, <1>12 DEF Numbers
<1> HIDE DEF each, now
<1>16. /\ SumFunctionOnSet(each, Open0) \in Nat /\ SumFunctionOnSet(now, Open0) \in Nat
       /\ SumFunctionOnSet(each, Open0) <= SumFunctionOnSet(now, Open0)
  <2>1. 1 \in Nat /\ \A p \in Open0 : 1 * each[p] <= 1 * now[p]
    BY <1>13, <1>14, <1>15 DEF Numbers
  <2>2. /\ SumFunctionOnSet(each, Open0) \in Nat /\ SumFunctionOnSet(now, Open0) \in Nat
        /\ 1 * SumFunctionOnSet(each, Open0) <= 1 * SumFunctionOnSet(now, Open0)
    BY ONLY <1>13, <1>15, <2>1, SumCompares
  <2> QED  BY <2>2
<1>17. Cycles(us, Traversals(us, e)) = {} =>
         SumFunctionOnSet(each, Open0) = SumFunctionOnSet(now, Open0)
  <2> SUFFICES ASSUME Cycles(us, Traversals(us, e)) = {}
               PROVE  SumFunctionOnSet(each, Open0) = SumFunctionOnSet(now, Open0)
    OBVIOUS
  <2>1. \A p \in Open0 : each[p] = now[p]  BY <1>14
  <2> QED  BY ONLY <1>13, <2>1, SumEquals
<1>18. /\ Balance(us, e, X, T[k], n + 1)
            = SumFunctionOnSet(X, Arrivals(us, e, n + 1)) + SumFunctionOnSet(after, Open1)
       /\ Balance(us, e, X, T[k + 1], n)
            = SumFunctionOnSet(X, Before) + SumFunctionOnSet(now, Open0)
  BY DEF Balance, now, Now, Next1, Open0
<1> HIDE DEF after, Just, Open1, Before
<1> DEFINE s1 == SumFunctionOnSet(X, Before)
           s2 == SumFunctionOnSet(X, Just)
           s3 == SumFunctionOnSet(after, Open1)
           s4 == SumFunctionOnSet(now, Open0)
           s5 == SumFunctionOnSet(each, Open0)
<1>19. Balance(us, e, X, T[k], n + 1) = (s1 + s2) + s3  BY <1>4, <1>7, <1>18
<1>20. s2 + s3 = s5  BY <1>6, <1>8, <1>9, <1>13
<1>21. s1 \in Nat /\ s2 \in Nat /\ s3 \in Nat /\ s4 \in Nat /\ s5 \in Nat /\ s5 <= s4
  BY <1>7, <1>8, <1>16
<1> HIDE DEF s1, s2, s3, s4, s5
<1>22. (s1 + s2) + s3 <= s1 + s4 /\ (s5 = s4 => (s1 + s2) + s3 = s1 + s4)
  BY ONLY <1>20, <1>21
<1> QED  BY <1>17, <1>18, <1>19, <1>22 DEF s1, s4, s5

\* What a holder has of the target, looked through level by level, is at
\* least what its traversals are worth, and is that if there are no cycles.
LEMMA Conservation ==
  ASSUME NEW us, NEW e, Holder(us, e), NEW v, Inputs(us, v), NEW X, Worth(us, e, v, X),
         NEW T, Looks(us, v, T)
  PROVE  LET arrived == SumFunctionOnSet(X, {p \in Traversals(us, e) : p.at = Target}) IN
         /\ arrived \in Nat /\ T[Cardinality(Entities)][e] \in Nat
         /\ arrived <= T[Cardinality(Entities)][e]
         /\ Cycles(us, Traversals(us, e)) = {} => arrived = T[Cardinality(Entities)][e]
<1> DEFINE N == Cardinality(Entities)
           A == {p \in Traversals(us, e) : p.at = Target}
           free == Cycles(us, Traversals(us, e)) = {}
           Z(n) == Balance(us, e, X, T[N - n], n)
           S == {n \in Nat : n <= N => Z(n) \in Nat /\ Z(n) <= Z(0) /\ (free => Z(n) = Z(0))}
<1>1. N \in Nat  BY EntityCount
<1>2. \A n \in Nat : n <= N => Z(n) \in Nat
  <2> SUFFICES ASSUME NEW n, n \in Nat, n <= N PROVE Z(n) \in Nat
    OBVIOUS
  <2> DEFINE g == [p \in Rounds(us, e)[n] |-> Ahead(X, T[N - n], p)]
             C == Arrivals(us, e, n)
             D == Underway(us, e, n)
  <2>1. T[N - n] \in [Entities -> Nat]
    <3>1. N - n \in Nat  BY <1>1
    <3> QED  BY <3>1 DEF Looks
  <2>2. Numbers(X, Traversals(us, e)) /\ Numbers(g, Rounds(us, e)[n])
    BY <2>1, AheadTyped
  <2>3. C \in SUBSET Traversals(us, e) /\ D \in SUBSET Rounds(us, e)[n]
    BY UptoFacts DEF Arrivals, Underway
  <2> HIDE DEF g, C, D
  <2>4. SumFunctionOnSet(X, C) \in Nat /\ SumFunctionOnSet(g, D) \in Nat
    BY <2>2, <2>3, Sums DEF Additive
  <2>5. Z(n) = SumFunctionOnSet(X, C) + SumFunctionOnSet(g, D)  BY DEF Balance, g, C, D
  <2> QED  BY <2>4, <2>5
<1>3. 0 \in S  BY <1>1, <1>2
<1>4. ASSUME NEW n \in Nat, n \in S PROVE n + 1 \in S
  <2> SUFFICES ASSUME n + 1 <= N
               PROVE  Z(n + 1) <= Z(0) /\ (free => Z(n + 1) = Z(0))
    BY <1>2
  <2> DEFINE k == N - (n + 1)
  <2>1. k \in Nat /\ n + k + 1 = N /\ k + 1 = N - n /\ n <= N /\ n + 1 \in Nat /\ 0 <= N
    BY <1>1
  <2>2. /\ Balance(us, e, X, T[k], n + 1) <= Balance(us, e, X, T[k + 1], n)
        /\ free => Balance(us, e, X, T[k], n + 1) = Balance(us, e, X, T[k + 1], n)
    <3> HIDE DEF k
    <3> QED  BY <2>1, RoundBalance
  <2>3. Z(n + 1) <= Z(n) /\ (free => Z(n + 1) = Z(n))  BY <2>1, <2>2
  <2>4. Z(n + 1) \in Nat /\ Z(n) \in Nat /\ Z(0) \in Nat  BY <1>2, <2>1
  <2>5. Z(n) <= Z(0) /\ (free => Z(n) = Z(0))  BY <1>4, <2>1
  <2> HIDE DEF Z, free
  <2> QED  BY <2>3, <2>4, <2>5
<1> HIDE DEF S
<1>5. \A n \in Nat : n \in S  BY <1>3, <1>4, Counting
<1>6. Z(N) <= Z(0) /\ (free => Z(N) = Z(0))  BY <1>1, <1>5 DEF S
<1>7. Numbers(X, Traversals(us, e))
  BY TraversalsTyped DEF Holder, Worth, Numbers
<1>8. A \in SUBSET Traversals(us, e)  OBVIOUS
<1>9. SumFunctionOnSet(X, A) \in Nat /\ SumFunctionOnSet(X, {}) = 0
  <2> HIDE DEF A
  <2> QED  BY <1>7, <1>8, Sums DEF Additive
<1>10. Z(N) = SumFunctionOnSet(X, A)
  <2> DEFINE g == [p \in Rounds(us, e)[N] |-> Ahead(X, T[N - N], p)]
  <2>1. Underway(us, e, N) = {} /\ Arrivals(us, e, N) = A
    BY UptoFacts DEF Underway, Arrivals
  <2>2. {} \in SUBSET {} /\ Numbers(g, {})  BY FS_EmptySet DEF Numbers
  <2> HIDE DEF g
  <2>3. SumFunctionOnSet(g, {}) = 0  BY <2>2, Sums DEF Additive
  <2>4. Z(N) = SumFunctionOnSet(X, Arrivals(us, e, N)) + SumFunctionOnSet(g, Underway(us, e, N))
    BY DEF Balance, g
  <2> HIDE DEF A, Z
  <2> QED  BY <1>9, <2>1, <2>3, <2>4
<1>11. Z(0) = T[N][e] /\ T[N][e] \in Nat
  <2> DEFINE p0 == Start(e)
             g == [p \in Rounds(us, e)[0] |-> Ahead(X, T[N - 0], p)]
  <2>1. Rounds(us, e)[0] = {p0} /\ Upto(us, e, 0) = {p0}  BY UptoFacts
  <2>2. p0.at = e /\ e # Target /\ e \in Entities /\ X[p0] = Hundred
    BY DEF Start, Holder, Worth
  <2>3. N - 0 = N /\ T[N] \in [Entities -> Nat]  BY <1>1 DEF Looks
  <2>4. T[N][e] \in Nat  BY <2>2, <2>3
  <2>5. (Hundred * T[N][e]) \div Hundred = T[N][e]
    <3> DEFINE y == T[N][e]
    <3>1. Hundred * y = y * Hundred  BY <2>4, HundredAssumption, Associate
    <3> QED  BY <2>4, <3>1, Quotient
  <2>6. g[p0] = T[N][e]  BY <2>1, <2>2, <2>3, <2>5 DEF Ahead
  <2> HIDE DEF g, p0
  <2>7. Arrivals(us, e, 0) = {} /\ Underway(us, e, 0) = {p0}
    BY <2>1, <2>2 DEF Arrivals, Underway
  <2>8. SumFunctionOnSet(g, {p0}) = T[N][e]
    <3>1. Numbers(g, {p0})  BY <2>4, <2>6, FS_Singleton DEF Numbers
    <3>2. /\ SumFunctionOnSet(g, {}) = 0
          /\ SumFunctionOnSet(g, {p0}) = g[p0] + SumFunctionOnSet(g, {p0} \ {p0})
      BY <3>1, Sums DEF Additive
    <3>3. {p0} \ {p0} = {}  OBVIOUS
    <3> QED  BY <2>4, <2>6, <3>2, <3>3
  <2>9. Z(0) = SumFunctionOnSet(X, Arrivals(us, e, 0)) + SumFunctionOnSet(g, Underway(us, e, 0))
    BY DEF Balance, g
  <2>10. /\ SumFunctionOnSet(X, Arrivals(us, e, 0)) = 0
         /\ SumFunctionOnSet(g, Underway(us, e, 0)) = T[N][e]
    BY <1>9, <2>7, <2>8, Zenon
  <2> HIDE DEF Z
  <2> QED  BY <2>4, <2>9, <2>10
<1> HIDE DEF Z, N, A, free
<1>12. /\ SumFunctionOnSet(X, A) \in Nat /\ T[N][e] \in Nat
       /\ SumFunctionOnSet(X, A) <= T[N][e]
       /\ free => SumFunctionOnSet(X, A) = T[N][e]
  BY <1>6, <1>9, <1>10, <1>11
<1> QED  BY <1>12 DEF N, A, free
------------------------------------------------------------------------------
(* The shares that are calculated for the known traversals.                *)

LEMMA KnownStep ==
  ASSUME NEW us, NEW e, Holder(us, e), NEW n \in Nat, NEW p \in Rounds(us, e)[n],
         NEW r \in Out(us, p), Extend(p, r).known
  PROVE  /\ p.known /\ p.share \in Interval /\ r \in us /\ Certain(r)
         /\ r.measurement \in Measurement /\ r.measurement \in Interval
         /\ Extend(p, r).share = MultiplyPercentageIntervals(p.share, r.measurement)
<1>1. p.known /\ r.measurement # Unknown /\ r.temporal # "UNKNOWN"  BY DEF Extend
<1>2. Extend(p, r).share = MultiplyPercentageIntervals(p.share, r.measurement)
  BY <1>1 DEF Extend
<1>3. r \in us /\ p \in Path(us)  BY GoesOn, RoundFacts
<1>4. r.measurement \in Measurement  BY <1>1, <1>3 DEF Holder, Graph, Sound
<1> QED  BY <1>1, <1>2, <1>3, <1>4 DEF Certain, Measurement, Path

LEMMA Multiplied ==
  ASSUME NEW l, NEW r
  PROVE  LET q == MultiplyPercentageIntervals(l, r) IN
         /\ q.lower = (l.lower * r.lower) \div Hundred
         /\ q.upper = (l.upper * r.upper) \div Hundred
         /\ q.lowerInclusive /\ q.lower = 0 => ContainsZero(l) \/ ContainsZero(r)
         /\ q.lowerInclusive /\ q.lower # 0 => l.lowerInclusive /\ r.lowerInclusive
BY DEF MultiplyPercentageIntervals

\* The share of a known traversal contains what the traversal is worth when
\* the measurements contain what the relationships are worth.
LEMMA SharesContain ==
  ASSUME NEW us, NEW e, Holder(us, e), NEW v, Inputs(us, v), NEW X, Worth(us, e, v, X),
         \A r \in us : Certain(r) => Contains(r.measurement, v[r])
  PROVE  \A p \in Traversals(us, e) : p.known => Contains(p.share, X[p])
<1> DEFINE f == Rounds(us, e)
           S == {n \in Nat : \A p \in f[n] : p.known =>
                   /\ p.share.lower \in Fine(n) /\ p.share.upper \in Fine(n)
                   /\ Contains(p.share, X[p])}
<1>1. 0 \in S
  <2>1. f[0] = {Start(e)} /\ X[Start(e)] = Hundred  BY UptoFacts DEF Worth
  <2>2. Start(e).share = ExactInterval(Hundred)  BY DEF Start
  <2>3. /\ ExactInterval(Hundred).lower = Hundred /\ ExactInterval(Hundred).upper = Hundred
        /\ Contains(ExactInterval(Hundred), Hundred)
    BY HundredAssumption DEF ExactInterval, Contains
  <2> QED  BY <2>1, <2>2, <2>3, FineInputs
<1>2. ASSUME NEW n, n \in Nat, n \in S PROVE n + 1 \in S
  <2> SUFFICES ASSUME NEW q \in f[n + 1], q.known
               PROVE  /\ q.share.lower \in Fine(n + 1) /\ q.share.upper \in Fine(n + 1)
                      /\ Contains(q.share, X[q])
    BY <1>2
  <2>1. PICK p \in f[n] : \E r \in Out(us, p) : q = Extend(p, r)  BY <1>2, CameFrom
  <2>2. PICK r \in Out(us, p) : q = Extend(p, r)  BY <2>1
  <2> DEFINE i == p.share
             j == r.measurement
             x == X[p]
             y == v[r]
             a == (i.lower * j.lower) \div Hundred
             b == (i.upper * j.upper) \div Hundred
             c == X[q]
  <2>3. /\ p.known /\ i \in Interval /\ r \in us /\ Certain(r)
        /\ j \in Measurement /\ j \in Interval
        /\ q.share = MultiplyPercentageIntervals(i, j)
    BY <1>2, <2>1, <2>2, KnownStep
  <2>4. n + 1 <= Depth /\ 1 \in Nat
    <3>1. n + 1 <= Cardinality(Entities)  BY <1>2, <2>1, RoundFacts
    <3> QED  BY <1>2, <3>1, EntityCount, DepthAssumption, StepAssumption
  <2>5. i.lower \in Fine(n) /\ i.upper \in Fine(n) /\ Contains(i, x)
    BY <1>2, <2>1, <2>3
  <2>6. j.lower \in Fine(1) /\ j.upper \in Fine(1) /\ Contains(j, y)
    BY <2>3, FineInputs DEF Measurement
  <2>7. /\ a \in Fine(n + 1) /\ Whole(i.lower * j.lower, a)
        /\ b \in Fine(n + 1) /\ Whole(i.upper * j.upper, b)
    <3> DEFINE il == i.lower
               iu == i.upper
               jl == j.lower
               ju == j.upper
    <3>1. il \in Fine(n) /\ iu \in Fine(n) /\ jl \in Fine(1) /\ ju \in Fine(1)
      BY <2>5, <2>6
    <3> HIDE DEF il, iu, jl, ju
    <3>2. /\ (il * jl) \div Hundred \in Fine(n + 1) /\ Whole(il * jl, (il * jl) \div Hundred)
          /\ (iu * ju) \div Hundred \in Fine(n + 1) /\ Whole(iu * ju, (iu * ju) \div Hundred)
      BY <1>2, <2>4, <3>1, FineProduct
    <3> QED  BY <3>2 DEF il, iu, jl, ju
  <2>8. x \in Nat /\ y \in Nat /\ Whole(x * y, c)
    <3>1. x \in Nat /\ c \in Nat /\ Hundred * c = x * y  BY <1>2, <2>1, <2>2, WorthFacts
    <3>2. Hundred * c = c * Hundred  BY <3>1, HundredAssumption, Associate
    <3>3. y \in Nat  BY <2>3 DEF Inputs
    <3> QED  BY <3>1, <3>2, <3>3 DEF Whole
  <2>9. q.share.lower = a /\ q.share.upper = b  BY <2>3, Multiplied
  <2> HIDE DEF i, j, x, y, a, b, c
  <2>10. Contains(MultiplyPercentageIntervals(i, j), c)
    <3>1. /\ i \in Interval /\ j \in Interval /\ x \in Nat /\ y \in Nat
          /\ Contains(i, x) /\ Contains(j, y) /\ Whole(x * y, c)
      BY <2>3, <2>5, <2>6, <2>8
    <3>2. Whole(i.lower * j.lower, a) /\ Whole(i.upper * j.upper, b)  BY <2>7
    <3> QED  BY ONLY <3>1, <3>2, MultiplySound
  <2>11. Contains(q.share, X[q])  BY <2>3, <2>10 DEF c
  <2> QED  BY <2>7, <2>9, <2>11
<1> HIDE DEF S
<1>3. \A n \in Nat : n \in S  BY <1>1, <1>2, Counting
<1> QED  BY <1>3, OfSomeLength DEF S

\* A traversal is worth the lower end of its share when the relationships are
\* worth the lower ends of the measurements.
LEMMA SharesLower ==
  ASSUME NEW us, NEW e, Holder(us, e), NEW v, v \in [us -> Nat], NEW X, Worth(us, e, v, X),
         \A r \in us : Certain(r) /\ r.measurement.lowerInclusive => v[r] = r.measurement.lower
  PROVE  \A p \in Traversals(us, e) : p.known /\ p.share.lowerInclusive => X[p] = p.share.lower
<1> DEFINE f == Rounds(us, e)
           S == {n \in Nat : \A p \in f[n] :
                   p.known /\ p.share.lowerInclusive => X[p] = p.share.lower}
<1>1. 0 \in S
  <2>1. f[0] = {Start(e)} /\ X[Start(e)] = Hundred  BY UptoFacts DEF Worth
  <2>2. Start(e).share.lower = Hundred  BY DEF Start, ExactInterval
  <2> QED  BY <2>1, <2>2
<1>2. ASSUME NEW n, n \in Nat, n \in S PROVE n + 1 \in S
  <2> SUFFICES ASSUME NEW q \in f[n + 1], q.known, q.share.lowerInclusive
               PROVE  X[q] = q.share.lower
    BY <1>2
  <2>1. PICK p \in f[n] : \E r \in Out(us, p) : q = Extend(p, r)  BY <1>2, CameFrom
  <2>2. PICK r \in Out(us, p) : q = Extend(p, r)  BY <2>1
  <2> DEFINE i == p.share
             j == r.measurement
  <2>3. /\ p.known /\ i \in Interval /\ r \in us /\ Certain(r) /\ j \in Interval
        /\ q.share = MultiplyPercentageIntervals(i, j)
    BY <1>2, <2>1, <2>2, KnownStep
  <2>4. X[q] = (X[p] * v[r]) \div Hundred
    BY <1>2, <2>1, <2>2, RoundFacts DEF Worth
  <2>5. X[p] \in Nat /\ v[r] \in Nat  BY <1>2, <2>1, <2>3, RoundFacts DEF Worth
  <2>6. /\ q.share.lower = (i.lower * j.lower) \div Hundred
        /\ q.share.lower = 0 => ContainsZero(i) \/ ContainsZero(j)
        /\ q.share.lower # 0 => i.lowerInclusive /\ j.lowerInclusive
    BY <2>3, Multiplied
  <2>7. i.lowerInclusive => X[p] = i.lower  BY <1>2, <2>1, <2>3
  <2>8. j.lowerInclusive => v[r] = j.lower  BY <2>3
  <2> HIDE DEF i, j
  <2>9. CASE q.share.lower = 0
    <3>1. X[p] = 0 \/ v[r] = 0  BY <2>6, <2>7, <2>8, <2>9 DEF ContainsZero
    <3> DEFINE x == X[p]
               y == v[r]
    <3>2. x * y = 0  BY <2>5, <3>1, ProductZero
    <3>3. 0 \div Hundred = 0  BY HundredAssumption
    <3>4. X[q] = (x * y) \div Hundred  BY <2>4
    <3> HIDE DEF x, y
    <3> QED  BY <2>9, <3>2, <3>3, <3>4
  <2>10. CASE q.share.lower # 0
    <3>1. X[p] = i.lower /\ v[r] = j.lower  BY <2>6, <2>7, <2>8, <2>10
    <3> QED  BY <2>4, <2>6, <3>1
  <2> QED  BY <2>9, <2>10
<1> HIDE DEF S
<1>3. \A n \in Nat : n \in S  BY <1>1, <1>2, Counting
<1> QED  BY <1>3, OfSomeLength DEF S

\* The lower end of the share is the product of the lower ends, and is not
\* above the upper end.
LEMMA SharesLeast ==
  ASSUME NEW us, NEW e, Holder(us, e), NEW v, v \in [us -> Nat], NEW X, Worth(us, e, v, X),
         \A r \in us : Certain(r) => v[r] = r.measurement.lower
  PROVE  \A p \in Traversals(us, e) : p.known =>
           X[p] = p.share.lower /\ p.share.lower <= p.share.upper
<1> DEFINE f == Rounds(us, e)
           S == {n \in Nat : \A p \in f[n] : p.known =>
                   X[p] = p.share.lower /\ p.share.lower <= p.share.upper}
<1>1. 0 \in S
  <2>1. f[0] = {Start(e)} /\ X[Start(e)] = Hundred  BY UptoFacts DEF Worth
  <2>2. Start(e).share.lower = Hundred /\ Start(e).share.upper = Hundred
    BY DEF Start, ExactInterval
  <2>3. Hundred <= Hundred  BY HundredAssumption
  <2> QED  BY <2>1, <2>2, <2>3
<1>2. ASSUME NEW n, n \in Nat, n \in S PROVE n + 1 \in S
  <2> SUFFICES ASSUME NEW q \in f[n + 1], q.known
               PROVE  X[q] = q.share.lower /\ q.share.lower <= q.share.upper
    BY <1>2
  <2>1. PICK p \in f[n] : \E r \in Out(us, p) : q = Extend(p, r)  BY <1>2, CameFrom
  <2>2. PICK r \in Out(us, p) : q = Extend(p, r)  BY <2>1
  <2> DEFINE i == p.share
             j == r.measurement
  <2>3. /\ p.known /\ i \in Interval /\ r \in us /\ Certain(r) /\ j \in Measurement
        /\ q.share = MultiplyPercentageIntervals(i, j)
    BY <1>2, <2>1, <2>2, KnownStep
  <2>4. X[q] = (X[p] * v[r]) \div Hundred
    BY <1>2, <2>1, <2>2, RoundFacts DEF Worth
  <2>5. /\ q.share.lower = (i.lower * j.lower) \div Hundred
        /\ q.share.upper = (i.upper * j.upper) \div Hundred
    BY <2>3, Multiplied
  <2>6. X[p] = i.lower /\ i.lower <= i.upper /\ v[r] = j.lower  BY <1>2, <2>1, <2>3
  <2>7. /\ i.lower \in Nat /\ i.upper \in Nat /\ j.lower \in Nat /\ j.upper \in Nat
        /\ j.lower <= j.upper
    BY <2>3 DEF Interval, Measurement
  <2> HIDE DEF i, j
  <2>8. X[q] = q.share.lower  BY <2>4, <2>5, <2>6
  <2> DEFINE a == i.lower * j.lower
             b == i.upper * j.upper
  <2>9. a \in Nat /\ b \in Nat /\ a <= b
    <3> DEFINE il == i.lower
               iu == i.upper
               jl == j.lower
               ju == j.upper
    <3>1. il \in Nat /\ iu \in Nat /\ jl \in Nat /\ ju \in Nat /\ il <= iu /\ jl <= ju
      BY <2>6, <2>7
    <3> HIDE DEF il, iu, jl, ju
    <3>2. il * jl \in Nat /\ iu * ju \in Nat /\ il * jl <= iu * ju
      BY <3>1, ProductGrows, Associate
    <3> QED  BY <3>2 DEF il, iu, jl, ju
  <2>10. q.share.lower = a \div Hundred /\ q.share.upper = b \div Hundred  BY <2>5
  <2> HIDE DEF a, b
  <2>11. a \div Hundred <= b \div Hundred  BY <2>9, HundredAssumption
  <2> QED  BY <2>8, <2>10, <2>11
<1> HIDE DEF S
<1>3. \A n \in Nat : n \in S  BY <1>1, <1>2, Counting
<1> QED  BY <1>3, OfSomeLength DEF S
------------------------------------------------------------------------------
(* The worlds that the claims allow, seen as worths of relationships.      *)

LEMMA Evaluable ==
  ASSUME GInv, evaluation.error = "NONE"
  PROVE  /\ Graph(Current(operative)) /\ operative \in SUBSET Claims
         /\ ~ Conflicting(operative) /\ ~ ImpossibleTotal(Relationships(operative))
         /\ DOMAIN evaluation.holders = Holders(Current(operative))
         /\ \A e \in Holders(Current(operative)) :
              /\ Evaluated(e) = EffectivePercentage(Current(operative), e)
              /\ Holder(Current(operative), e)
<1>1. evaluation = Evaluate(operative)  BY DEF GInv, Uptodate
<1>2. ~ Conflicting(operative) /\ ~ ImpossibleTotal(Relationships(operative))
  BY <1>1 DEF Evaluate
<1>3. Graph(Current(operative))  BY CaseGraph DEF GInv
<1>4. /\ DOMAIN evaluation.holders = Holders(Current(operative))
      /\ \A e \in Holders(Current(operative)) :
           evaluation.holders[e] = EffectivePercentage(Current(operative), e)
  BY <1>1, Answers
<1>5. \A e \in Holders(Current(operative)) : Holder(Current(operative), e)
  BY <1>3, ReachGrows DEF Holder, Holders
<1> QED  BY <1>2, <1>3, <1>4, <1>5 DEF GInv, Evaluated

\* Without conflicts each slot has one relationship.
LEMMA OnePerSlot ==
  ASSUME ~ Conflicting(operative)
  PROVE  LET us == Current(operative) IN
         /\ \A r, u \in us : r.slot = u.slot => r = u
         /\ Slots = {r.slot : r \in us}
         /\ \A r \in us : r.subject = r.slot.subject /\ r.object = r.slot.object
         /\ \A r \in us : \E c \in operative :
              Slot(c) = r.slot /\ c.measurement = r.measurement
         /\ \A r \in us : Certain(r) => "CURRENT" \in r.slot.qualifiers
         /\ \A r \in us : r.dimension = Dimension /\ r.slot.dimension = Dimension
<1> DEFINE us == Current(operative)
           rel(c) == [slot |-> Slot(c), subject |-> c.subject, object |-> c.object,
                      dimension |-> c.dimension, temporal |-> TemporalState(c),
                      measurement |-> c.measurement]
<1>1. us = {r \in {rel(c) : c \in operative} : r.dimension = Dimension /\ r.temporal # "CEASED"}
  BY DEF Current, Usable, Relationships
<1> HIDE DEF us
<1>2. \A c : /\ Slot(c).subject = c.subject /\ Slot(c).object = c.object
             /\ Slot(c).dimension = c.dimension /\ Slot(c).qualifiers = c.qualifiers
  BY DEF Slot
<1>3. ASSUME NEW c, NEW d, Slot(c) = Slot(d)
      PROVE  /\ c.subject = d.subject /\ c.object = d.object /\ c.dimension = d.dimension
             /\ TemporalState(c) = TemporalState(d)
  <2>1. /\ c.subject = d.subject /\ c.object = d.object /\ c.dimension = d.dimension
        /\ c.qualifiers = d.qualifiers
    BY <1>2, <1>3
  <2> QED  BY <2>1 DEF TemporalState
<1>4. ASSUME NEW r \in us, NEW u \in us, r.slot = u.slot PROVE r = u
  <2>1. PICK c \in operative : r = rel(c)  BY <1>1
  <2>2. PICK d \in operative : u = rel(d)  BY <1>1
  <2>3. Slot(c) = Slot(d)  BY <1>4, <2>1, <2>2
  <2>4. c.measurement = d.measurement  BY <2>3 DEF Conflicting, Written
  <2> QED  BY <1>3, <2>1, <2>2, <2>3, <2>4
<1>5. Slots = {r.slot : r \in us}
  <2>1. \A c \in operative : rel(c) \in us <=> c.dimension = Dimension /\ TemporalState(c) # "CEASED"
    BY <1>1
  <2>2. \A r \in us : \E c \in operative : r = rel(c)  BY <1>1
  <2>3. \A c : rel(c).slot = Slot(c)  OBVIOUS
  <2> HIDE DEF rel
  <2> QED  BY <2>1, <2>2, <2>3 DEF Slots
<1>6. ASSUME NEW r \in us
      PROVE  /\ r.subject = r.slot.subject /\ r.object = r.slot.object
             /\ \E c \in operative : Slot(c) = r.slot /\ c.measurement = r.measurement
             /\ Certain(r) => "CURRENT" \in r.slot.qualifiers
             /\ r.dimension = Dimension /\ r.slot.dimension = Dimension
  <2>1. PICK c \in operative : r = rel(c)  BY <1>1
  <2>2. /\ r.slot = Slot(c) /\ r.subject = c.subject /\ r.object = c.object
        /\ r.dimension = c.dimension /\ r.temporal = TemporalState(c)
        /\ r.measurement = c.measurement
    BY <2>1
  <2>3. r.dimension = Dimension /\ r.temporal # "CEASED"  BY <1>1
  <2>4. Certain(r) => "CURRENT" \in c.qualifiers
    BY <2>2, <2>3 DEF Certain, TemporalState
  <2> QED  BY <1>2, <2>2, <2>3, <2>4
<1> QED  BY <1>4, <1>5, <1>6 DEF us

\* A world gives each relationship an amount that its measurement contains,
\* and no entity more than 100%.
Seen(w) == [r \in Current(operative) |-> w[r.slot]]

LEMMA WorldWorth ==
  ASSUME GInv, evaluation.error = "NONE", NEW w, w \in Worlds
  PROVE  LET us == Current(operative)
             v == Seen(w)
         IN /\ Inputs(us, v)
            /\ \A r \in us : Certain(r) => Contains(r.measurement, v[r])
            /\ \A o \in Entities : SumFunctionOnSet(v, {r \in us : r.object = o}) <= Hundred
            /\ DOMAIN w = Slots
<1> DEFINE us == Current(operative)
           v == Seen(w)
<1>1. Graph(us) /\ ~ Conflicting(operative)  BY Evaluable
<1>2. /\ \A r, u \in us : r.slot = u.slot => r = u
      /\ Slots = {r.slot : r \in us}
      /\ \A r \in us : r.subject = r.slot.subject /\ r.object = r.slot.object
      /\ \A r \in us : \E c \in operative : Slot(c) = r.slot /\ c.measurement = r.measurement
      /\ \A r \in us : Certain(r) => "CURRENT" \in r.slot.qualifiers
  BY <1>1, OnePerSlot
<1>3. /\ \A i \in Slots : w[i] \in Possible(i)
      /\ \A o \in Entities : SumFunctionOnSet(w, {i \in Slots : i.object = o}) <= Hundred
      /\ DOMAIN w = Slots
  BY DEF Worlds
<1> HIDE DEF us
<1>4. ASSUME NEW r \in us
      PROVE  /\ v[r] = w[r.slot] /\ v[r] \in Grid
             /\ Certain(r) => Contains(r.measurement, v[r])
  <2>1. v[r] = w[r.slot]  BY DEF Seen, us
  <2>2. w[r.slot] \in Possible(r.slot)  BY <1>2, <1>3
  <2>3. \/ /\ w[r.slot] \in Grid
           /\ \A c \in operative : Slot(c) = r.slot =>
                c.measurement = Unknown \/ Contains(c.measurement, w[r.slot])
        \/ w[r.slot] = 0 /\ "CURRENT" \notin r.slot.qualifiers
    BY <2>2 DEF Possible
  <2>4. 0 \in Grid  BY FineInputs
  <2>5. PICK c \in operative : Slot(c) = r.slot /\ c.measurement = r.measurement  BY <1>2
  <2>6. Certain(r) => r.measurement # Unknown /\ "CURRENT" \in r.slot.qualifiers
    BY <1>2 DEF Certain
  <2> HIDE DEF v
  <2>7. v[r] \in Grid  BY <2>1, <2>3, <2>4
  <2>8. Certain(r) => Contains(r.measurement, v[r])
    <3> SUFFICES ASSUME Certain(r) PROVE Contains(r.measurement, v[r])
      OBVIOUS
    <3>1. Contains(c.measurement, w[r.slot])  BY <2>3, <2>5, <2>6
    <3> QED  BY <2>1, <2>5, <3>1
  <2> QED  BY <2>1, <2>7, <2>8
<1>5. Inputs(us, v)
  <2>1. 1 \in 0..Depth  BY StepAssumption
  <2>2. Grid \subseteq Fine(1) /\ Fine(1) \subseteq Nat  BY <2>1, FineInputs, FineNumbers
  <2>3. v = [r \in us |-> w[r.slot]]  BY DEF Seen, us
  <2> HIDE DEF v
  <2>4. \A r \in us : v[r] \in Fine(1) /\ v[r] \in Nat  BY <1>4, <2>2
  <2>5. v \in [us -> Nat]  BY <2>3, <2>4
  <2> QED  BY <2>4, <2>5 DEF Inputs
<1> HIDE DEF v
<1>6. ASSUME NEW o \in Entities
      PROVE  SumFunctionOnSet(v, {r \in us : r.object = o}) <= Hundred
  <2> DEFINE In == {r \in us : r.object = o}
             b == [r \in In |-> r.slot]
  <2>1. In \in SUBSET us  OBVIOUS
  <2>2. Numbers(v, In)
    BY <1>1, <1>5, <2>1, FS_Subset DEF Inputs, Numbers, Graph
  <2>3. \A r, u \in In : b[r] = b[u] => r = u  BY <1>2
  <2>4. \A r \in In : w[b[r]] = v[r]  BY <1>4
  <2>5. {b[r] : r \in In} = {i \in Slots : i.object = o}
    <3>1. \A r \in In : b[r] = r.slot /\ r.slot \in Slots /\ r.slot.object = o  BY <1>2
    <3>2. \A i \in Slots : i.object = o => \E r \in In : i = r.slot  BY <1>2
    <3> HIDE DEF b, In
    <3> QED  BY <3>1, <3>2
  <2> HIDE DEF b, In
  <2>6. SumFunctionOnSet(w, {b[r] : r \in In}) = SumFunctionOnSet(v, In)
    BY ONLY <2>2, <2>3, <2>4, SumRenames
  <2>7. SumFunctionOnSet(w, {i \in Slots : i.object = o}) = SumFunctionOnSet(v, In)
    BY <2>5, <2>6
  <2> QED  BY <1>3, <2>7 DEF In
<1> QED  BY <1>3, <1>4, <1>5, <1>6 DEF us, v

\* What everyone holds in a world is found level by level.
LEMMA WorldLooks ==
  ASSUME GInv, evaluation.error = "NONE", NEW w, w \in Worlds
  PROVE  \E T : /\ Looks(Current(operative), Seen(w), T)
                /\ Holding(w) = T[Cardinality(Entities)]
<1> DEFINE us == Current(operative)
           v == Seen(w)
           of(t) == [i \in DOMAIN w |-> IF i.object = Target THEN w[i]
                                        ELSE (w[i] * t[i.object]) \div Hundred]
           level(g) == [n \in Nat |->
             IF n = 0 THEN [x \in Entities |-> 0]
             ELSE [x \in Entities |-> SumFunctionOnSet(of(g[n - 1]), {i \in DOMAIN w : i.subject = x})]]
           through == CHOOSE g : g = level(g)
           V == [Entities -> Nat]
           more(t) == [x \in Entities |-> SumFunctionOnSet(Part(us, v, t), {r \in us : r.subject = x})]
           step == [t \in V |-> more(t)]
           none == [x \in Entities |-> 0]
<1>1. Graph(us) /\ ~ Conflicting(operative)  BY Evaluable
<1>2. /\ \A r, u \in us : r.slot = u.slot => r = u
      /\ Slots = {r.slot : r \in us}
      /\ \A r \in us : r.subject = r.slot.subject /\ r.object = r.slot.object
  BY <1>1, OnePerSlot
<1>3. v \in [us -> Nat] /\ DOMAIN w = Slots /\ \A r \in us : v[r] = w[r.slot]
  BY WorldWorth DEF Inputs, Seen
<1> HIDE DEF us, v
<1>4. ASSUME NEW t \in V
      PROVE  /\ Numbers(Part(us, v, t), us)
             /\ \A x \in Entities :
                  SumFunctionOnSet(of(t), {i \in DOMAIN w : i.subject = x}) = more(t)[x]
             /\ more(t) \in V
  <2>1. ASSUME NEW r \in us PROVE Part(us, v, t)[r] \in Nat
    <3>1. v[r] \in Nat /\ r.object \in Entities  BY <1>1, <1>3 DEF Graph, Sound
    <3>2. t[r.object] \in Nat  BY <3>1
    <3>3. (v[r] * t[r.object]) \div Hundred \in Nat  BY <3>1, <3>2, Divided
    <3> QED  BY <3>1, <3>3 DEF Part
  <2>2. Numbers(Part(us, v, t), us)  BY <1>1, <2>1 DEF Numbers, Graph
  <2>3. ASSUME NEW x \in Entities
        PROVE  /\ SumFunctionOnSet(of(t), {i \in DOMAIN w : i.subject = x})
                    = SumFunctionOnSet(Part(us, v, t), {r \in us : r.subject = x})
               /\ SumFunctionOnSet(Part(us, v, t), {r \in us : r.subject = x}) \in Nat
    <3> DEFINE f == Part(us, v, t)
               g == of(t)
               In == {r \in us : r.subject = x}
               b == [r \in In |-> r.slot]
    <3>1. In \in SUBSET us  OBVIOUS
    <3>2. Numbers(f, In)  BY <2>2, <3>1, FS_Subset DEF Numbers
    <3>3. \A r, u \in In : b[r] = b[u] => r = u  BY <1>2
    <3>4. \A r \in In : g[b[r]] = f[r]
      <4> SUFFICES ASSUME NEW r \in In PROVE g[r.slot] = f[r]
        OBVIOUS
      <4>1. r.slot \in DOMAIN w /\ r.object = r.slot.object /\ w[r.slot] = v[r] /\ r \in us
        BY <1>2, <1>3
      <4>2. f[r] = IF r.object = Target THEN v[r] ELSE (v[r] * t[r.object]) \div Hundred
        BY <4>1 DEF Part
      <4>3. g[r.slot] = IF r.slot.object = Target THEN w[r.slot]
                        ELSE (w[r.slot] * t[r.slot.object]) \div Hundred
        BY <4>1
      <4> HIDE DEF f, g
      <4> QED  BY <4>1, <4>2, <4>3
    <3>5. {b[r] : r \in In} = {i \in DOMAIN w : i.subject = x}
      <4>1. \A r \in In : b[r] = r.slot /\ r.slot \in DOMAIN w /\ r.slot.subject = x  BY <1>2, <1>3
      <4>2. \A i \in DOMAIN w : i.subject = x => \E r \in In : i = r.slot  BY <1>2, <1>3
      <4> HIDE DEF b, In
      <4> QED  BY <4>1, <4>2
    <3> HIDE DEF f, g, b, In
    <3>6. SumFunctionOnSet(g, {b[r] : r \in In}) = SumFunctionOnSet(f, In)
      BY ONLY <3>2, <3>3, <3>4, SumRenames
    <3>7. SumFunctionOnSet(f, In) \in Nat  BY <2>2, <3>1, Sums DEF f, Additive
    <3>8. SumFunctionOnSet(g, {i \in DOMAIN w : i.subject = x}) = SumFunctionOnSet(f, In)
      BY <3>5, <3>6
    <3> QED  BY <3>7, <3>8 DEF f, g, In
  <2> HIDE DEF of
  <2> QED  BY <2>2, <2>3
<1>5. step \in [V -> V]
  <2> HIDE DEF V, more
  <2> QED  BY <1>4
<1>6. none \in V  OBVIOUS
<1>7. PICK f \in [Nat -> V] : f[0] = none /\ \A n \in Nat : f[n + 1] = step[f[n]]
  <2> HIDE DEF step, V, none
  <2> QED  BY <1>5, <1>6, Iterates
<1>8. \A n \in Nat : f[n] \in V /\ f[n + 1] = more(f[n])
  <2> HIDE DEF V, more
  <2> QED  BY <1>7
<1>9. \A t \in V : [x \in Entities |-> SumFunctionOnSet(of(t), {i \in DOMAIN w : i.subject = x})]
                     = more(t)
  <2> HIDE DEF V, of
  <2> QED  BY <1>4
<1>10. f = level(f)
  <2>1. ASSUME NEW n \in Nat PROVE f[n] = level(f)[n]
    <3>1. CASE n = 0  BY <1>7, <3>1
    <3>2. CASE n # 0
      <4>1. n - 1 \in Nat /\ (n - 1) + 1 = n  BY <3>2
      <4>2. f[n] = more(f[n - 1]) /\ f[n - 1] \in V  BY <1>8, <4>1
      <4> HIDE DEF V, of, more
      <4> QED  BY <1>9, <3>2, <4>2
    <3> QED  BY <3>1, <3>2
  <2> HIDE DEF V, of
  <2> QED  BY <1>7, <2>1
<1>11. through = level(through)
  <2> HIDE DEF level
  <2> QED  BY <1>10
<1>12. Holding(w) = through[Cardinality(Entities)]
  BY DEF Holding
<1> HIDE DEF through
<1>13. \A n \in Nat : f[n] = through[n]
  <2> DEFINE S == {n \in Nat : f[n] = through[n]}
  <2>1. 0 \in S  BY <1>7, <1>11
  <2>2. ASSUME NEW n \in Nat, n \in S PROVE n + 1 \in S
    <3>1. n + 1 \in Nat /\ n + 1 # 0 /\ (n + 1) - 1 = n  OBVIOUS
    <3>2. through[n + 1] = [x \in Entities |->
            SumFunctionOnSet(of(through[n]), {i \in DOMAIN w : i.subject = x})]
      BY <1>11, <3>1
    <3> HIDE DEF of, more, V
    <3>3. through[n] \in V /\ through[n] = f[n]  BY <1>8, <2>2
    <3> QED  BY <1>8, <1>9, <2>2, <3>1, <3>2, <3>3
  <2> HIDE DEF S
  <2>3. \A n \in Nat : n \in S  BY <2>1, <2>2, Counting
  <2> QED  BY <2>3 DEF S
<1>14. Looks(us, v, f)
  <2>1. f \in [Nat -> [Entities -> Nat]] /\ \A x \in Entities : f[0][x] = 0  BY <1>7
  <2>2. ASSUME NEW n \in Nat, NEW x \in Entities
        PROVE  f[n + 1][x] = SumFunctionOnSet(Part(us, v, f[n]), {r \in us : r.subject = x})
    <3>1. f[n + 1] = more(f[n])  BY <1>8
    <3> QED  BY <3>1
  <2> QED  BY <2>1, <2>2 DEF Looks
<1>15. Holding(w) = f[Cardinality(Entities)]  BY <1>12, <1>13, EntityCount
<1> QED  BY <1>14, <1>15 DEF us, v
------------------------------------------------------------------------------
(* What is answered for a holder, and what the holder has in every world.  *)

Reached(us, e) == {p \in Traversals(us, e) : p.at = Target}

LEMMA Answered ==
  ASSUME NEW us, NEW e, Holder(us, e)
  PROVE  LET d == EffectivePercentage(us, e)
             K == KnownOf(us, e)
         IN /\ d.value = CapPercentageInterval(Sum(K)) /\ Sum(K) \in Interval
            /\ d.known <=> K # {}
            /\ d.state # "INDETERMINATE" => d.state = Assess(d.status, d.known, d.value)
            /\ d.status = "COMPLETE" =>
                 K = Reached(us, e) /\ Cycles(us, Traversals(us, e)) = {}
            /\ K \in SUBSET Reached(us, e) /\ Reached(us, e) \in SUBSET Traversals(us, e)
            /\ \A p \in K : p \in Traversals(us, e) /\ p.known /\ p.share \in Interval
<1> DEFINE ts     == Traversals(us, e)
           paths  == {p \in ts : Arrived(p)}
           known  == KnownPaths(paths)
           status == Status(paths, Cycles(us, ts))
           value  == AggregateKnownPaths(known)
           d      == EffectivePercentage(us, e)
           assessed == Assess(status, known # {}, value)
<1>1. d = [status |-> status, known |-> known # {}, value |-> value,
           state |-> IF TerminalConceptEstablished(paths) THEN assessed ELSE "INDETERMINATE"]
  BY DEF EffectivePercentage, BasisState
<1>2. known = KnownOf(us, e)  BY DEF KnownOf
<1>3. paths = Reached(us, e)
  <2>1. \A p \in ts : p.at = Target => p.trail # {}
    BY InShape DEF Holder, Shape, Located
  <2> QED  BY <2>1 DEF Arrived, Reached
<1>4. \A p \in known : p \in paths /\ p.known  BY DEF KnownPaths
<1>5. status = "COMPLETE" => Cycles(us, ts) = {} /\ known = paths  BY DEF Status, KnownPaths
<1>6. \A p \in ts : p.share \in Interval  BY TraversalsTyped DEF Holder, Path
<1>7. Sum(known) \in Interval /\ value = CapPercentageInterval(Sum(known))
  BY <1>2, KnownTyped, Aggregate DEF Holder
<1> HIDE DEF status, known, value, d, paths, assessed
<1>8. /\ d.status = status /\ d.value = value
      /\ d.known = (known # {})
      /\ d.state # "INDETERMINATE" => d.state = assessed
  BY <1>1
<1>9. known \in SUBSET Reached(us, e) /\ Reached(us, e) \in SUBSET ts  BY <1>3, <1>4 DEF Reached
<1>10. \A p \in known : p \in ts /\ p.known /\ p.share \in Interval  BY <1>4, <1>6 DEF paths
<1>11. status = "COMPLETE" =>
         KnownOf(us, e) = Reached(us, e) /\ Cycles(us, Traversals(us, e)) = {}
  BY <1>2, <1>3, <1>5
<1>12. d.value = CapPercentageInterval(Sum(known)) /\ Sum(known) \in Interval
  BY <1>7, <1>8
<1>13. d.known <=> known # {}  BY <1>8
<1>14. d.state # "INDETERMINATE" => d.state = Assess(d.status, d.known, d.value)
  BY <1>8 DEF assessed
<1>15. d.status = "COMPLETE" =>
         KnownOf(us, e) = Reached(us, e) /\ Cycles(us, Traversals(us, e)) = {}
  BY <1>8, <1>11
<1> QED  BY <1>2, <1>9, <1>10, <1>12, <1>13, <1>14, <1>15 DEF d
\* In every world the known traversals are worth something that their sum
\* contains, that is not above 100% and not above what the holder has.
LEMMA InWorld ==
  ASSUME GInv, evaluation.error = "NONE", NEW w, w \in Worlds,
         NEW e, e \in Holders(Current(operative))
  PROVE  /\ Holding(w)[e] \in Nat
         /\ \E x \in Nat : /\ Contains(Sum(KnownOf(Current(operative), e)), x)
                           /\ x <= Hundred /\ x <= Holding(w)[e]
                           /\ Evaluated(e).status = "COMPLETE" => x = Holding(w)[e]
<1> DEFINE us == Current(operative)
           v == Seen(w)
           K == KnownOf(us, e)
           A == Reached(us, e)
<1>1. Holder(us, e) /\ Evaluated(e) = EffectivePercentage(us, e)  BY Evaluable
<1>2. /\ Inputs(us, v)
      /\ \A r \in us : Certain(r) => Contains(r.measurement, v[r])
      /\ \A o \in Entities : SumFunctionOnSet(v, {r \in us : r.object = o}) <= Hundred
  BY WorldWorth
<1>3. v \in [us -> Nat]  BY <1>2 DEF Inputs
<1>4. PICK T : Looks(us, v, T) /\ Holding(w) = T[Cardinality(Entities)]  BY WorldLooks
<1> HIDE DEF us, v
<1>5. PICK X : Worth(us, e, v, X)  BY <1>1, <1>3, Worths
<1>6. /\ SumFunctionOnSet(X, A) \in Nat /\ Holding(w)[e] \in Nat
      /\ SumFunctionOnSet(X, A) <= Holding(w)[e]
      /\ Cycles(us, Traversals(us, e)) = {} => SumFunctionOnSet(X, A) = Holding(w)[e]
  BY <1>1, <1>2, <1>4, <1>5, Conservation DEF Reached
<1>7. SumFunctionOnSet(X, A) <= Hundred
  BY <1>1, <1>2, <1>3, <1>5, Flow DEF Reached
<1>8. /\ K \in SUBSET A /\ A \in SUBSET Traversals(us, e)
      /\ \A p \in K : p \in Traversals(us, e) /\ p.known /\ p.share \in Interval
      /\ Evaluated(e).status = "COMPLETE" => K = A /\ Cycles(us, Traversals(us, e)) = {}
  BY <1>1, Answered
<1>9. Numbers(X, Traversals(us, e))
  BY <1>1, <1>5, TraversalsTyped DEF Holder, Worth, Numbers
<1> HIDE DEF K, A
<1>10. Numbers(X, K) /\ Numbers(X, A)
  BY <1>8, <1>9, FS_Subset DEF Numbers
<1>11. \A p \in K : Contains(p.share, X[p])
  BY <1>1, <1>2, <1>5, <1>8, SharesContain
<1>12. Contains(Sum(K), SumFunctionOnSet(X, K))
  <2>1. \A p \in K : p.share \in Interval  BY <1>8
  <2> QED  BY ONLY <1>10, <1>11, <2>1, SumContains
<1>13. SumFunctionOnSet(X, K) \in Nat /\ SumFunctionOnSet(X, K) <= SumFunctionOnSet(X, A)
  BY ONLY <1>8, <1>10, SumPart
<1> DEFINE x == SumFunctionOnSet(X, K)
           y == SumFunctionOnSet(X, A)
<1>14. Evaluated(e).status = "COMPLETE" => x = y /\ y = Holding(w)[e]  BY <1>6, <1>8
<1>15. Contains(Sum(K), x) /\ x \in Nat /\ x <= y /\ y \in Nat /\ y <= Hundred
       /\ y <= Holding(w)[e] /\ Holding(w)[e] \in Nat
  BY <1>6, <1>7, <1>12, <1>13
<1> HIDE DEF x, y
<1>16. x <= Hundred /\ x <= Holding(w)[e]  BY <1>15, HundredAssumption
<1> QED  BY <1>14, <1>15, <1>16 DEF K, us

LEMMA CappedLower ==
  ASSUME NEW i \in Interval
  PROVE  LET j == CapPercentageInterval(i) IN
         /\ j \in Interval /\ j.lower = i.lower /\ j.lowerInclusive = i.lowerInclusive
         /\ j.upper <= Hundred
         /\ j.upper = i.upper \/ (j.upper = Hundred /\ Hundred < i.upper)
<1>1. CASE i.upper <= Hundred  BY <1>1 DEF CapPercentageInterval
<1>2. CASE ~ (i.upper <= Hundred)
  <2> DEFINE j == [i EXCEPT !.upper = Hundred, !.upperInclusive = TRUE]
  <2>1. CapPercentageInterval(i) = j  BY <1>2 DEF CapPercentageInterval
  <2>2. j \in Interval  BY HundredAssumption DEF Interval
  <2>3. j.lower = i.lower /\ j.lowerInclusive = i.lowerInclusive /\ j.upper = Hundred
    BY DEF Interval
  <2>4. Hundred <= Hundred /\ Hundred < i.upper  BY <1>2, HundredAssumption DEF Interval
  <2> HIDE DEF j
  <2> QED  BY <2>1, <2>2, <2>3, <2>4
<1> QED  BY <1>1, <1>2

\* The share of a holder lies in the interval.
LEMMA Inside ==
  ASSUME GInv, evaluation.error = "NONE", NEW w, w \in Worlds,
         NEW e, e \in Holders(Current(operative))
  PROVE  LET d == Evaluated(e) IN
         /\ Holding(w)[e] \in Nat /\ d.value \in Interval
         /\ d.status = "COMPLETE" => Contains(d.value, Holding(w)[e])
         /\ IF d.value.lowerInclusive THEN d.value.lower <= Holding(w)[e]
            ELSE d.value.lower < Holding(w)[e]
<1> DEFINE us == Current(operative)
           d == Evaluated(e)
           i == Sum(KnownOf(us, e))
           h == Holding(w)[e]
<1>1. Holder(us, e) /\ d = EffectivePercentage(us, e)  BY Evaluable
<1>2. d.value = CapPercentageInterval(i) /\ i \in Interval  BY <1>1, Answered
<1>3. h \in Nat  BY InWorld
<1>4. PICK x \in Nat : Contains(i, x) /\ x <= Hundred /\ x <= h /\ (d.status = "COMPLETE" => x = h)
  BY InWorld
<1>5. Contains(d.value, x)  BY <1>2, <1>4, CapSound
<1>6. /\ d.value \in Interval /\ d.value.lower = i.lower
      /\ d.value.lowerInclusive = i.lowerInclusive
  BY <1>2, CappedLower
<1> HIDE DEF d, h, i
<1>7. d.value.lower \in Nat  BY <1>6 DEF Interval
<1>8. IF d.value.lowerInclusive THEN d.value.lower <= x ELSE d.value.lower < x
  BY <1>5 DEF Contains
<1>9. IF d.value.lowerInclusive THEN d.value.lower <= h ELSE d.value.lower < h
  <2>1. CASE d.value.lowerInclusive  BY <1>3, <1>4, <1>7, <1>8, <2>1
  <2>2. CASE ~ d.value.lowerInclusive  BY <1>3, <1>4, <1>7, <1>8, <2>2
  <2> QED  BY <2>1, <2>2
<1> QED  BY <1>3, <1>4, <1>5, <1>6, <1>9 DEF d, h

\* However the interests really are, the share of a holder lies in the
\* interval of a COMPLETE calculation and not below that of a PARTIAL one
\* (calculateEffectivePercentage, combined by multiplyPercentageIntervals,
\* addIntervals and capPercentageInterval).
THEOREM TrueSharesContained == Spec => []TrueShareInside
<1>1. GInv => TrueShareInside
  <2> SUFFICES ASSUME GInv, NEW w \in Worlds, NEW s \in DOMAIN evaluation.holders
               PROVE  /\ Evaluated(s).status = "COMPLETE" =>
                           Contains(Evaluated(s).value, Holding(w)[s])
                      /\ Evaluated(s).status = "PARTIAL" =>
                           IF Evaluated(s).value.lowerInclusive
                             THEN Evaluated(s).value.lower <= Holding(w)[s]
                             ELSE Evaluated(s).value.lower < Holding(w)[s]
    BY DEF TrueShareInside
  <2>1. evaluation.error = "NONE"  BY Answers DEF GInv, Uptodate
  <2>2. s \in Holders(Current(operative))  BY <2>1, Evaluable
  <2> QED  BY <2>1, <2>2, Inside
<1> QED  BY <1>1, CaseInvariance, PTL

\* A holder that is found above the threshold, or not above it, is so however
\* the interests really are (assessCalculationAgainstExclusiveThreshold).
THEOREM DeterminationsHold == Spec => []DeterminationRight
<1>1. GInv => DeterminationRight
  <2> SUFFICES ASSUME GInv, NEW w \in Worlds, NEW s \in DOMAIN evaluation.holders
               PROVE  /\ Evaluated(s).state = "SATISFIED" => Holding(w)[s] > Threshold
                      /\ Evaluated(s).state = "NOT_SATISFIED" => Holding(w)[s] <= Threshold
    BY DEF DeterminationRight
  <2> DEFINE d == Evaluated(s)
             h == Holding(w)[s]
  <2>1. evaluation.error = "NONE"  BY Answers DEF GInv, Uptodate
  <2>2. s \in Holders(Current(operative))  BY <2>1, Evaluable
  <2>3. /\ h \in Nat /\ d.value \in Interval
        /\ d.status = "COMPLETE" => Contains(d.value, h)
        /\ IF d.value.lowerInclusive THEN d.value.lower <= h ELSE d.value.lower < h
    BY <2>1, <2>2, Inside
  <2>4. d.state # "INDETERMINATE" => d.state = Assess(d.status, d.known, d.value)
    BY <2>1, <2>2, Evaluable, Answered
  <2> HIDE DEF d, h
  <2>5. d.value.lower \in Nat /\ d.value.upper \in Nat /\ Threshold \in Nat
    BY <2>3, ThresholdAssumption DEF Interval
  <2>6. ASSUME d.state = "SATISFIED" PROVE h > Threshold
    <3>1. WhollyAbove(d.value)  BY <2>4, <2>6 DEF Assess
    <3>2. CASE d.value.lower > Threshold
      <4>1. d.value.lower <= h  BY <2>3, <2>5
      <4> QED  BY <2>3, <2>5, <3>2, <4>1
    <3>3. CASE d.value.lower = Threshold /\ ~ d.value.lowerInclusive  BY <2>3, <3>3
    <3> QED  BY <3>1, <3>2, <3>3 DEF WhollyAbove
  <2>7. ASSUME d.state = "NOT_SATISFIED" PROVE h <= Threshold
    <3>1. d.status = "COMPLETE" /\ d.value.upper <= Threshold  BY <2>4, <2>7 DEF Assess
    <3>2. h <= d.value.upper
      <4>1. Contains(d.value, h)  BY <2>3, <3>1
      <4> QED  BY <2>3, <2>5, <4>1 DEF Contains
    <3> QED  BY <2>3, <2>5, <3>1, <3>2
  <2> QED  BY <2>6, <2>7 DEF d, h
<1> QED  BY <1>1, CaseInvariance, PTL
------------------------------------------------------------------------------
(* The ends of the intervals.                                              *)

LEMMA AddEnds ==
  ASSUME NEW i \in Interval, NEW j \in Interval
  PROVE  /\ AddIntervals(i, j).lower = i.lower + j.lower
         /\ AddIntervals(i, j).upper = i.upper + j.upper
         /\ AddIntervals(i, j).lowerInclusive => i.lowerInclusive /\ j.lowerInclusive
         /\ i.lower \in Nat /\ i.upper \in Nat
BY DEF AddIntervals, Interval

\* The sum of lower ends is the lower end of the sum.
LEMMA SumLeast ==
  ASSUME NEW K, NEW X, Numbers(X, K), \A p \in K : p.share \in Interval,
         \A p \in K : X[p] = p.share.lower /\ p.share.lower <= p.share.upper
  PROVE  SumFunctionOnSet(X, K) = Sum(K).lower /\ Sum(K).lower <= Sum(K).upper
<1> DEFINE F(T) == SumFunctionOnSet(X, T)
           Q == {T \in SUBSET K : F(T) = Sum(T).lower /\ Sum(T).lower <= Sum(T).upper}
<1>1. /\ F({}) = 0 /\ \A T \in SUBSET K : F(T) \in Nat
      /\ \A T \in SUBSET K : \A p \in T : F(T) = X[p] + F(T \ {p})
  BY Sums DEF Additive
<1>2. /\ Sum({}) = ExactInterval(0)
      /\ \A T \in SUBSET K : Sum(T) \in Interval
      /\ \A T \in SUBSET K : \A p \in T : Sum(T) = AddIntervals(p.share, Sum(T \ {p}))
  BY SumRules DEF Numbers
<1> HIDE DEF F
<1>3. {} \in Q
  <2>1. ExactInterval(0).lower = 0 /\ ExactInterval(0).upper = 0  BY DEF ExactInterval
  <2> QED  BY <1>1, <1>2, <2>1
<1>4. ASSUME NEW T \in SUBSET K, T # {}, \A p \in T : T \ {p} \in Q PROVE T \in Q
  <2>1. PICK p \in T : TRUE  BY <1>4
  <2> DEFINE i == p.share
             j == Sum(T \ {p})
  <2>2. F(T \ {p}) = j.lower /\ j.lower <= j.upper  BY <1>4, <2>1
  <2>3. i \in Interval /\ j \in Interval  BY <1>2
  <2>4. X[p] = i.lower /\ i.lower <= i.upper /\ F(T) = X[p] + F(T \ {p})  BY <1>1
  <2>5. Sum(T) = AddIntervals(i, j)  BY <1>2
  <2> HIDE DEF i, j
  <2>6. /\ Sum(T).lower = i.lower + j.lower /\ Sum(T).upper = i.upper + j.upper
        /\ i.lower \in Nat /\ i.upper \in Nat /\ j.lower \in Nat /\ j.upper \in Nat
    BY <2>3, <2>5, AddEnds
  <2>7. F(T) = Sum(T).lower /\ Sum(T).lower <= Sum(T).upper  BY <2>2, <2>4, <2>6
  <2> QED  BY <2>7
<1> HIDE DEF Q
<1>5. K \in Q  BY <1>3, <1>4, Removing DEF Numbers
<1> QED  BY <1>5 DEF Q, F

LEMMA SumAttained ==
  ASSUME NEW K, NEW X, Numbers(X, K), \A p \in K : p.share \in Interval,
         \A p \in K : p.share.lowerInclusive => X[p] = p.share.lower, Sum(K).lowerInclusive
  PROVE  SumFunctionOnSet(X, K) = Sum(K).lower
<1> DEFINE F(T) == SumFunctionOnSet(X, T)
           Q == {T \in SUBSET K : Sum(T).lowerInclusive => F(T) = Sum(T).lower}
<1>1. /\ F({}) = 0 /\ \A T \in SUBSET K : F(T) \in Nat
      /\ \A T \in SUBSET K : \A p \in T : F(T) = X[p] + F(T \ {p})
  BY Sums DEF Additive
<1>2. /\ Sum({}) = ExactInterval(0)
      /\ \A T \in SUBSET K : Sum(T) \in Interval
      /\ \A T \in SUBSET K : \A p \in T : Sum(T) = AddIntervals(p.share, Sum(T \ {p}))
  BY SumRules DEF Numbers
<1> HIDE DEF F
<1>3. {} \in Q
  <2>1. ExactInterval(0).lower = 0  BY DEF ExactInterval
  <2> QED  BY <1>1, <1>2, <2>1
<1>4. ASSUME NEW T \in SUBSET K, T # {}, \A p \in T : T \ {p} \in Q PROVE T \in Q
  <2>1. PICK p \in T : TRUE  BY <1>4
  <2> DEFINE i == p.share
             j == Sum(T \ {p})
  <2>2. j.lowerInclusive => F(T \ {p}) = j.lower  BY <1>4, <2>1
  <2>3. i \in Interval /\ j \in Interval  BY <1>2
  <2>4. (i.lowerInclusive => X[p] = i.lower) /\ F(T) = X[p] + F(T \ {p})  BY <1>1
  <2>5. Sum(T) = AddIntervals(i, j)  BY <1>2
  <2> HIDE DEF i, j
  <2>6. /\ Sum(T).lower = i.lower + j.lower
        /\ Sum(T).lowerInclusive => i.lowerInclusive /\ j.lowerInclusive
    BY <2>3, <2>5, AddEnds
  <2>7. Sum(T).lowerInclusive => F(T) = Sum(T).lower  BY <2>2, <2>4, <2>6
  <2> QED  BY <2>7
<1> HIDE DEF Q
<1>5. K \in Q  BY <1>3, <1>4, Removing DEF Numbers
<1> QED  BY <1>5 DEF Q, F

\* The minimum of what the claims say is not above 100% for any entity.
Floor == [r \in Current(operative) |-> IF Certain(r) THEN r.measurement.lower ELSE 0]

LEMMA FloorFits ==
  ASSUME GInv, evaluation.error = "NONE"
  PROVE  LET us == Current(operative) IN
         /\ Floor \in [us -> Nat]
         /\ \A o \in Entities : SumFunctionOnSet(Floor, {r \in us : r.object = o}) <= Hundred
<1> DEFINE us == Current(operative)
           rs == Relationships(operative)
           min == [r \in rs |-> Minimum(r)]
<1>1. Graph(us) /\ ~ ImpossibleTotal(rs)  BY Evaluable
<1>2. us \in SUBSET rs /\ \A r \in us : r.dimension = Dimension /\ r.temporal # "CEASED"
  BY DEF Current, Usable
<1>3. \A r \in rs : r.temporal \in {"CURRENT", "CEASED", "UNKNOWN"}
  BY DEF Relationships, TemporalState
<1>4. \A r \in rs : r.dimension = Dimension /\ r.temporal # "CEASED" => r \in us
  BY DEF Current, Usable
<1>5. \A r \in us : r.measurement # Unknown => r.measurement.lower \in Nat
  BY <1>1 DEF Graph, Sound, Measurement, Interval
<1>6. \A r \in us : Floor[r] = IF Certain(r) THEN r.measurement.lower ELSE 0  BY DEF Floor
<1>7. Floor \in [us -> Nat]  BY <1>5 DEF Floor, Certain
<1>8. \A o \in Entities :
        ~ (SumFunctionOnSet(min, {r \in rs : r.object = o /\ r.dimension = Dimension
                                             /\ r.temporal = "CURRENT"}) > Hundred)
  BY <1>1, DimensionAssumption DEF ImpossibleTotal
<1> HIDE DEF us, rs
<1>9. ASSUME NEW o \in Entities
      PROVE  SumFunctionOnSet(Floor, {r \in us : r.object = o}) <= Hundred
  <2> DEFINE C == {r \in rs : r.object = o /\ r.dimension = Dimension /\ r.temporal = "CURRENT"}
             In == {r \in us : r.object = o}
  <2>1. C \in SUBSET In /\ In \in SUBSET us  BY <1>2, <1>3, <1>4
  <2>2. Numbers(Floor, In) /\ Numbers(Floor, C)
    BY <1>1, <1>7, <2>1, FS_Subset DEF Numbers, Graph
  <2>3. \A r \in In \ C : Floor[r] = 0
    BY <1>2, <1>3, <1>6 DEF Certain
  <2>4. \A r \in C : Floor[r] = min[r]
    <3> SUFFICES ASSUME NEW r \in C PROVE Floor[r] = Minimum(r)
      OBVIOUS
    <3>1. r \in us /\ (Certain(r) <=> r.measurement # Unknown)  BY <2>1 DEF Certain
    <3> QED  BY <1>6, <3>1 DEF Minimum
  <2>5. ~ (SumFunctionOnSet(min, C) > Hundred)  BY <1>8
  <2> HIDE DEF C, In, min
  <2>6. SumFunctionOnSet(Floor, C) = SumFunctionOnSet(Floor, In)
        /\ SumFunctionOnSet(Floor, In) \in Nat
    BY ONLY <2>1, <2>2, <2>3, SumPart
  <2>7. SumFunctionOnSet(Floor, C) = SumFunctionOnSet(min, C)
    BY ONLY <2>2, <2>4, SumEquals
  <2>8. SumFunctionOnSet(Floor, In) <= Hundred  BY <2>5, <2>6, <2>7, HundredAssumption
  <2> QED  BY <2>8 DEF In
<1> QED  BY <1>7, <1>9 DEF us

\* No interval says more than 100%, and none is empty unless the claims cannot
\* all be true (assertMinimumTotals, capPercentageInterval).
THEOREM NothingBeyondWhole == Spec => []WithinWhole
<1>1. GInv => WithinWhole
  <2> SUFFICES ASSUME GInv, NEW s \in DOMAIN evaluation.holders, Evaluated(s).known
               PROVE  LET i == Evaluated(s).value IN
                      /\ i.lower <= i.upper
                      /\ i.upper <= Hundred
                      /\ i.lower = i.upper /\ Worlds # {} => i.lowerInclusive /\ i.upperInclusive
    BY DEF WithinWhole
  <2> DEFINE us == Current(operative)
             K == KnownOf(us, s)
             A == Reached(us, s)
             i == Sum(K)
             j == Evaluated(s).value
  <2>1. evaluation.error = "NONE"  BY Answers DEF GInv, Uptodate
  <2>2. s \in Holders(us)  BY <2>1, Evaluable
  <2>3. Holder(us, s) /\ Evaluated(s) = EffectivePercentage(us, s)  BY <2>1, <2>2, Evaluable
  <2>4. /\ j = CapPercentageInterval(i) /\ i \in Interval
        /\ K \in SUBSET A /\ A \in SUBSET Traversals(us, s)
        /\ \A p \in K : p \in Traversals(us, s) /\ p.known /\ p.share \in Interval
    BY <2>3, Answered
  <2>5. /\ Floor \in [us -> Nat]
        /\ \A o \in Entities : SumFunctionOnSet(Floor, {r \in us : r.object = o}) <= Hundred
    BY <2>1, FloorFits
  <2>6. \A r \in us : Certain(r) => Floor[r] = r.measurement.lower  BY DEF Floor
  <2> HIDE DEF us
  <2>7. PICK X : Worth(us, s, Floor, X)  BY <2>3, <2>5, Worths
  <2>8. SumFunctionOnSet(X, A) <= Hundred  BY <2>3, <2>5, <2>7, Flow DEF Reached
  <2>9. Numbers(X, Traversals(us, s))
    BY <2>3, <2>7, TraversalsTyped DEF Holder, Worth, Numbers
  <2> HIDE DEF A, K
  <2>10. Numbers(X, A) /\ Numbers(X, K)
    BY <2>4, <2>9, FS_Subset DEF Numbers
  <2>11. \A p \in K : X[p] = p.share.lower /\ p.share.lower <= p.share.upper
    BY <2>3, <2>4, <2>5, <2>6, <2>7, SharesLeast
  <2>12. SumFunctionOnSet(X, K) = i.lower /\ i.lower <= i.upper
    <3>1. \A p \in K : p.share \in Interval  BY <2>4
    <3> QED  BY ONLY <2>10, <2>11, <3>1, SumLeast
  <2>13. /\ SumFunctionOnSet(X, K) \in Nat /\ SumFunctionOnSet(X, A) \in Nat
         /\ SumFunctionOnSet(X, K) <= SumFunctionOnSet(X, A)
    BY ONLY <2>4, <2>10, SumPart
  <2>14. i.lower <= Hundred  BY <2>8, <2>12, <2>13, HundredAssumption
  <2>15. /\ j \in Interval /\ j.lower = i.lower /\ j.upper <= Hundred
         /\ j.upper = i.upper \/ (j.upper = Hundred /\ Hundred < i.upper)
    BY <2>4, CappedLower
  <2>16. ASSUME j.lower = j.upper, Worlds # {} PROVE j.lowerInclusive /\ j.upperInclusive
    <3>1. PICK w : w \in Worlds  BY <2>16
    <3>2. PICK x \in Nat : Contains(i, x) /\ x <= Hundred  BY <2>1, <2>2, <3>1, InWorld DEF K, us
    <3>3. Contains(j, x)  BY <2>4, <3>2, CapSound
    <3> HIDE DEF i, j
    <3> QED  BY <2>15, <2>16, <3>3 DEF Contains, Interval
  <2> HIDE DEF i, j
  <2>17. j.lower <= j.upper  BY <2>12, <2>14, <2>15
  <2> QED  BY <2>15, <2>16, <2>17 DEF j
<1> QED  BY <1>1, CaseInvariance, PTL

\* The world in which, starting from w, everything that is measured and
\* current is as small as its measurement attains.
Lowest(r, x) == IF Certain(r) /\ r.measurement.lowerInclusive THEN r.measurement.lower ELSE x
InSlot(i) == CHOOSE r \in Current(operative) : r.slot = i
LeastWorld(w) == [i \in Slots |-> Lowest(InSlot(i), w[i])]

LEMMA LeastWorldAllowed ==
  ASSUME GInv, evaluation.error = "NONE", NEW w, w \in Worlds
  PROVE  /\ LeastWorld(w) \in Worlds
         /\ \A r \in Current(operative) :
              Certain(r) /\ r.measurement.lowerInclusive =>
                Seen(LeastWorld(w))[r] = r.measurement.lower
<1> DEFINE us == Current(operative)
           l == LeastWorld(w)
           possible == [i \in Slots |-> Possible(i)]
<1>1. Graph(us) /\ ~ Conflicting(operative)  BY Evaluable
<1>2. /\ \A r, u \in us : r.slot = u.slot => r = u
      /\ Slots = {r.slot : r \in us}
      /\ \A r \in us : \E c \in operative : Slot(c) = r.slot /\ c.measurement = r.measurement
  BY <1>1, OnePerSlot
<1>3. /\ Inputs(us, Seen(w))
      /\ \A r \in us : Certain(r) => Contains(r.measurement, Seen(w)[r])
  BY WorldWorth
<1>4. /\ \A i \in Slots : w[i] \in Possible(i)
      /\ \A o \in Entities : SumFunctionOnSet(w, {i \in Slots : i.object = o}) <= Hundred
  BY DEF Worlds
<1>5. \A r \in us : Seen(w)[r] = w[r.slot] /\ Seen(l)[r] = l[r.slot]  BY DEF Seen
<1>6. \A i \in Slots : InSlot(i) \in us /\ InSlot(i).slot = i
  <2> SUFFICES ASSUME NEW i \in Slots PROVE InSlot(i) \in us /\ InSlot(i).slot = i
    OBVIOUS
  <2>1. \E r \in us : r.slot = i  BY <1>2
  <2> QED  BY <2>1 DEF InSlot
<1>7. \A r \in us : r.slot \in Slots /\ InSlot(r.slot) = r  BY <1>2, <1>6
<1> HIDE DEF us
<1>8. ASSUME NEW i, i \in Slots
      PROVE  /\ w[i] \in Nat /\ l[i] \in Nat /\ l[i] <= w[i]
             /\ l[i] \in Possible(i) /\ l[i] = Lowest(InSlot(i), w[i])
  <2> DEFINE r == InSlot(i)
             m == r.measurement
  <2>1. r \in us /\ r.slot = i /\ l[i] = Lowest(r, w[i])  BY <1>6, <1>8 DEF LeastWorld
  <2> HIDE DEF l, r
  <2>2. w[i] \in Nat  BY <1>3, <1>5, <2>1 DEF Inputs
  <2>3. CASE ~ (Certain(r) /\ m.lowerInclusive)
    <3>1. l[i] = w[i] /\ w[i] <= w[i]  BY <2>1, <2>2, <2>3 DEF Lowest
    <3> QED  BY <1>4, <1>8, <2>1, <2>2, <3>1 DEF r
  <2>4. CASE Certain(r) /\ m.lowerInclusive
    <3>1. l[i] = m.lower  BY <2>1, <2>4 DEF Lowest
    <3>2. m \in Measurement  BY <1>1, <2>1, <2>4 DEF Graph, Sound, Certain
    <3>3. Contains(m, w[i])  BY <1>3, <1>5, <2>1, <2>4
    <3> HIDE DEF m
    <3>4. /\ m.lower \in Nat /\ m.upper \in Nat /\ m.lower <= m.upper /\ m.lower \in Grid
          /\ m.lower = m.upper => m.upperInclusive
      BY <3>2 DEF Measurement, Interval
    <3>5. m.lower <= w[i]  BY <2>4, <3>3 DEF Contains, m
    <3>6. Contains(m, m.lower)
      <4>1. m.lower <= m.lower  BY <3>4
      <4>2. m.lowerInclusive  BY <2>4 DEF m
      <4>3. CASE m.lower = m.upper  BY <3>4, <4>1, <4>2, <4>3 DEF Contains
      <4>4. CASE m.lower # m.upper
        <5>1. m.lower < m.upper  BY <3>4, <4>4
        <5> QED  BY <3>4, <4>1, <4>2, <5>1 DEF Contains
      <4> QED  BY <4>3, <4>4
    <3>7. \A c \in operative : Slot(c) = i => c.measurement = m
      <4> SUFFICES ASSUME NEW c \in operative, Slot(c) = i PROVE c.measurement = m
        OBVIOUS
      <4>1. PICK d \in operative : Slot(d) = r.slot /\ d.measurement = r.measurement
        BY <1>2, <2>1
      <4> QED  BY <1>1, <2>1, <4>1 DEF Conflicting, Written, m
    <3>8. m.lower \in Possible(i)  BY <3>4, <3>6, <3>7 DEF Possible
    <3> QED  BY <2>1, <2>2, <3>1, <3>4, <3>5, <3>8 DEF r
  <2> QED  BY <2>3, <2>4
<1>9. l \in [Slots -> UNION {possible[i] : i \in Slots}] /\ \A i \in Slots : l[i] \in possible[i]
  <2>1. l = [i \in Slots |-> Lowest(InSlot(i), w[i])]  BY DEF LeastWorld
  <2>2. \A i \in Slots : l[i] \in possible[i]  BY <1>8
  <2> HIDE DEF l, possible
  <2> QED  BY <2>1, <2>2
<1>10. IsFiniteSet(Slots)
  <2> DEFINE f == [r \in us |-> r.slot]
  <2>1. f \in Surjection(us, Slots)  BY <1>2 DEF Surjection
  <2>2. IsFiniteSet(us)  BY <1>1 DEF Graph
  <2> HIDE DEF f
  <2> QED  BY <2>1, <2>2, FS_Surjection
<1> HIDE DEF l
<1>11. ASSUME NEW o \in Entities
       PROVE  SumFunctionOnSet(l, {i \in Slots : i.object = o}) <= Hundred
  <2> DEFINE In == {i \in Slots : i.object = o}
  <2>1. In \in SUBSET Slots  OBVIOUS
  <2>2. IsFiniteSet(In)  BY <1>10, <2>1, FS_Subset
  <2>3. Numbers(w, In) /\ Numbers(l, In)  BY <1>8, <2>2 DEF Numbers
  <2>4. 1 \in Nat /\ \A i \in In : 1 * l[i] <= 1 * w[i]  BY <1>8
  <2>5. SumFunctionOnSet(w, In) <= Hundred  BY <1>4
  <2> HIDE DEF In
  <2>6. /\ SumFunctionOnSet(l, In) \in Nat /\ SumFunctionOnSet(w, In) \in Nat
        /\ 1 * SumFunctionOnSet(l, In) <= 1 * SumFunctionOnSet(w, In)
    BY ONLY <2>3, <2>4, SumCompares
  <2>7. SumFunctionOnSet(l, In) <= Hundred  BY <2>5, <2>6, HundredAssumption
  <2> QED  BY <2>7 DEF In
<1>12. l \in Worlds
  BY <1>9, <1>11 DEF Worlds
<1>13. \A r \in us : Certain(r) /\ r.measurement.lowerInclusive => Seen(l)[r] = r.measurement.lower
  BY <1>5, <1>7, <1>8 DEF Lowest
<1> QED  BY <1>12, <1>13 DEF l, us

\* A COMPLETE interval is as narrow as the claims allow at its lower end
\* (multiplyPercentageIntervals and addIntervals say when an end is attained).
THEOREM LowerEndsAttained == Spec => []LowerEndAttained
<1>1. GInv => LowerEndAttained
  <2> SUFFICES ASSUME GInv, Worlds # {}, NEW s \in DOMAIN evaluation.holders,
                      Evaluated(s).status = "COMPLETE", Evaluated(s).value.lowerInclusive
               PROVE  \E w \in Worlds : Holding(w)[s] = Evaluated(s).value.lower
    BY DEF LowerEndAttained
  <2> DEFINE us == Current(operative)
             K == KnownOf(us, s)
             A == Reached(us, s)
             i == Sum(K)
             j == Evaluated(s).value
  <2>1. evaluation.error = "NONE"  BY Answers DEF GInv, Uptodate
  <2>2. s \in Holders(us)  BY <2>1, Evaluable
  <2>3. Holder(us, s) /\ Evaluated(s) = EffectivePercentage(us, s)  BY <2>1, <2>2, Evaluable
  <2>4. PICK u : u \in Worlds  OBVIOUS
  <2> DEFINE w == LeastWorld(u)
             v == Seen(w)
  <2>5. /\ w \in Worlds
        /\ \A r \in us : Certain(r) /\ r.measurement.lowerInclusive => v[r] = r.measurement.lower
    BY <2>1, <2>4, LeastWorldAllowed
  <2> HIDE DEF w
  <2>6. Inputs(us, v)  BY <2>1, <2>5, WorldWorth
  <2>7. v \in [us -> Nat]  BY <2>6 DEF Inputs
  <2>8. PICK T : Looks(us, v, T) /\ Holding(w) = T[Cardinality(Entities)]
    BY <2>1, <2>5, WorldLooks
  <2>9. /\ j = CapPercentageInterval(i) /\ i \in Interval
        /\ K = A /\ Cycles(us, Traversals(us, s)) = {} /\ A \in SUBSET Traversals(us, s)
        /\ \A p \in K : p \in Traversals(us, s) /\ p.known /\ p.share \in Interval
    BY <2>3, Answered
  <2>10. j.lower = i.lower /\ i.lowerInclusive  BY <2>9, CappedLower
  <2> HIDE DEF us, v
  <2>11. PICK X : Worth(us, s, v, X)  BY <2>3, <2>7, Worths
  <2>12. SumFunctionOnSet(X, A) = Holding(w)[s]
    BY <2>3, <2>6, <2>8, <2>9, <2>11, Conservation DEF Reached
  <2>13. \A p \in Traversals(us, s) : p.known /\ p.share.lowerInclusive => X[p] = p.share.lower
    BY <2>3, <2>5, <2>7, <2>11, SharesLower
  <2>14. Numbers(X, Traversals(us, s))
    BY <2>3, <2>11, TraversalsTyped DEF Holder, Worth, Numbers
  <2> HIDE DEF A, K
  <2>15. Numbers(X, K)  BY <2>9, <2>14, FS_Subset DEF Numbers
  <2>16. SumFunctionOnSet(X, K) = i.lower
    <3>1. /\ \A p \in K : p.share \in Interval
          /\ \A p \in K : p.share.lowerInclusive => X[p] = p.share.lower
          /\ Sum(K).lowerInclusive
      BY <2>9, <2>10, <2>13
    <3> QED  BY ONLY <2>15, <3>1, SumAttained
  <2>17. Holding(w)[s] = j.lower  BY <2>9, <2>10, <2>12, <2>16
  <2> QED  BY <2>5, <2>17
<1> QED  BY <1>1, CaseInvariance, PTL
==============================================================================
