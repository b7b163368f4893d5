----------------------- MODULE DecisionApplicationProofs -----------------------
(***************************************************************************)
(* Proofs about the ownership case and the decision application, for any   *)
(* number of callers, operations, facts and entities: every case that a    *)
(* caller may hold or that was decided upon is well-typed and replays, its *)
(* customer inputs answer decisions in order, and the decisions account    *)
(* for its claims.                                                         *)
(***************************************************************************)
EXTENDS DecisionApplication, FiniteSetTheorems, WellFoundedInduction, TLAPS

------------------------------------------------------------------------------
(* The inductive invariant.                                                *)

Case == [revision : Nat \ {0}, entities : SUBSET Entities,
         status : UNION {[S -> ClaimStates] : S \in SUBSET ClaimIds},
         identities : Seq(IdentityDecision), adjudications : Seq(Adjudication),
         intakes : SUBSET Operations, inputs : Seq(CustomerInput)]

\* Identity decisions resolve parties to entities of the case.
EntitiesKnown(k) ==
  \A i \in DOMAIN k.identities :
    k.identities[i].status = "RESOLVED" => k.identities[i].entity \in k.entities

\* Every claim begins as a candidate.
Candidates(S) == [c \in S |-> "CANDIDATE"]

\* Each adjudication continues what the ones before it left.
Replays(k) ==
  /\ \A c \in Claims(k) :
       k.status[c] = StatusAfter(Candidates(Claims(k)), k.adjudications, Len(k.adjudications), c)
  /\ \A i \in DOMAIN k.adjudications :
       LET a == k.adjudications[i]
       IN /\ a.claim \in Claims(k)
          /\ a.previous = StatusAfter(Candidates(Claims(k)), k.adjudications, i - 1, a.claim)
          /\ a.previous \notin Terminal

Good(k) == k \in Case /\ EntitiesKnown(k) /\ Replays(k)

AnswersInOrder(k) ==
  \A j \in DOMAIN k.inputs :
    /\ k.inputs[j].snapshot \in DOMAIN history
    /\ history[k.inputs[j].snapshot].revision < k.revision
    /\ \A i \in 1..(j - 1) :
         history[k.inputs[i].snapshot].revision < history[k.inputs[j].snapshot].revision

\* A decision is taken on a case without open claims or parties.
NothingLeftOpen == \A n \in DOMAIN history : NothingOpen(history[n])

Inv ==
  /\ DOMAIN held = Callers
  /\ history \in Seq(Case)
  /\ known \in [Callers -> 0..Len(history)]
  /\ calls \in 0..MaxCalls
  /\ \A k \in Cases : Good(k) /\ AnswersInOrder(k)
  /\ NothingLeftOpen

------------------------------------------------------------------------------
(* Largest and smallest members.                                           *)

LEMMA MinExists ==
  ASSUME NEW T \in SUBSET Nat, T # {}
  PROVE  \E t \in T : \A y \in T : t <= y
<1>1. PICK t \in T : \A y \in T : ~ (<<y, t>> \in OpToRel(<, Nat))
  BY WFMin, NatLessThanWellFounded
<1>2. \A y \in T : ~ (y < t)
  BY <1>1 DEF OpToRel
<1> QED BY <1>2

LEMMA MaxOf ==
  ASSUME NEW n \in Nat, NEW S \in SUBSET (1..n), S # {}
  PROVE  Max(S) \in S /\ \A y \in S : Max(S) >= y
<1> DEFINE T == {n - x : x \in S}
<1>0. \A x \in S : x \in Int /\ 1 <= x /\ x <= n
  OBVIOUS
<1>1. T \subseteq Nat
  BY <1>0
<1>2. T # {}
  <2>1. PICK x \in S : TRUE
    OBVIOUS
  <2> QED BY <2>1
<1>3. PICK t \in T : \A y \in T : t <= y
  BY <1>1, <1>2, MinExists
<1>4. PICK x \in S : t = n - x
  OBVIOUS
<1>5. ASSUME NEW y \in S PROVE x >= y
  <2>1. t <= n - y
    BY <1>3
  <2> QED BY <1>0, <1>4, <2>1
<1> QED BY <1>5 DEF Max

\* The member that no other exceeds is the one that Max chooses.
LEMMA MaxIs ==
  ASSUME NEW n \in Nat, NEW S \in SUBSET (1..n), NEW m \in S, \A y \in S : m >= y
  PROVE  Max(S) = m
<1>1. Max(S) \in S /\ Max(S) >= m
  BY MaxOf
<1>2. m >= Max(S)
  BY <1>1
<1>3. \A x \in S : x \in Int
  OBVIOUS
<1>4. m \in Int /\ Max(S) \in Int
  BY <1>1, <1>3
<1> QED BY <1>1, <1>2, <1>4

------------------------------------------------------------------------------
(* Where adjudications leave a claim.                                      *)

Mine(xs, n, c) == {i \in 1..n : xs[i].claim = c}

LEMMA MineIs ==
  ASSUME NEW xs, NEW n \in Nat, NEW c
  PROVE  /\ Mine(xs, n, c) \in SUBSET (1..n)
         /\ \A i \in 1..n : i \in Mine(xs, n, c) <=> xs[i].claim = c
         /\ Mine(xs, n, c) # {} => /\ Max(Mine(xs, n, c)) \in Mine(xs, n, c)
                                   /\ Max(Mine(xs, n, c)) \in 1..n
                                   /\ \A y \in Mine(xs, n, c) : Max(Mine(xs, n, c)) >= y
<1>1. Mine(xs, n, c) \in SUBSET (1..n)
      /\ \A i \in 1..n : i \in Mine(xs, n, c) <=> xs[i].claim = c
  BY DEF Mine
<1> QED BY <1>1, MaxOf

LEMMA StatusAfterIs ==
  ASSUME NEW s, NEW xs, NEW n, NEW c
  PROVE  StatusAfter(s, xs, n, c)
           = IF Mine(xs, n, c) = {} THEN s[c] ELSE xs[Max(Mine(xs, n, c))].resulting
BY DEF StatusAfter, Mine

LEMMA StatusTyped ==
  ASSUME NEW xs \in Seq(Adjudication), NEW n \in 0..Len(xs), NEW c, NEW s,
         s[c] \in ClaimStates
  PROVE  StatusAfter(s, xs, n, c) \in ClaimStates
<1>0. n \in Nat /\ n <= Len(xs) /\ Len(xs) \in Nat
  OBVIOUS
<1>1. CASE Mine(xs, n, c) = {}
  BY <1>1, StatusAfterIs
<1>2. CASE Mine(xs, n, c) # {}
  <2> DEFINE m == Max(Mine(xs, n, c))
  <2>1. m \in 1..n
    BY <1>0, <1>2, MineIs
  <2> HIDE DEF m
  <2>2. xs[m] \in Adjudication
    BY <1>0, <2>1
  <2>3. xs[m].resulting \in ClaimStates
    BY <2>2 DEF Adjudication
  <2> QED BY <1>2, <2>3, StatusAfterIs DEF m
<1> QED BY <1>1, <1>2

\* It depends on the claim's own first status only.
LEMMA StatusFrom ==
  ASSUME NEW s, NEW t, NEW xs, NEW n, NEW c, s[c] = t[c]
  PROVE  StatusAfter(s, xs, n, c) = StatusAfter(t, xs, n, c)
BY StatusAfterIs

LEMMA Joined ==
  ASSUME NEW xs \in Seq(Adjudication), NEW bs \in Seq(Adjudication)
  PROVE  /\ Len(xs) \in Nat /\ Len(bs) \in Nat
         /\ xs \o bs \in Seq(Adjudication)
         /\ Len(xs \o bs) = Len(xs) + Len(bs)
         /\ \A i \in 1..Len(xs) : (xs \o bs)[i] = xs[i]
         /\ \A i \in 1..Len(bs) : Len(xs) + i \in Int /\ (xs \o bs)[Len(xs) + i] = bs[i]
<1>1. \A i \in 1..(Len(xs) + Len(bs)) :
        (xs \o bs)[i] = IF i <= Len(xs) THEN xs[i] ELSE bs[i - Len(xs)]
  OBVIOUS
<1>2. Len(xs) \in Nat /\ Len(bs) \in Nat
  OBVIOUS
<1>3. ASSUME NEW i \in 1..Len(bs) PROVE (xs \o bs)[Len(xs) + i] = bs[i]
  <2> DEFINE l == Len(xs) + i
  <2>1. l \in 1..(Len(xs) + Len(bs)) /\ ~ (l <= Len(xs)) /\ l - Len(xs) = i
    BY <1>2
  <2> QED BY <1>1, <2>1
<1> QED BY <1>1, <1>2, <1>3

\* What follows does not matter.
LEMMA StatusOfPrefix ==
  ASSUME NEW xs \in Seq(Adjudication), NEW bs \in Seq(Adjudication),
         NEW n \in 0..Len(xs), NEW s, NEW c
  PROVE  StatusAfter(s, xs \o bs, n, c) = StatusAfter(s, xs, n, c)
<1>1. n \in Nat /\ \A i \in 1..n : (xs \o bs)[i] = xs[i]
  BY Joined
<1>2. Mine(xs \o bs, n, c) = Mine(xs, n, c)
  BY <1>1 DEF Mine
<1>3. CASE Mine(xs, n, c) # {}
  <2>1. Max(Mine(xs, n, c)) \in 1..n
    BY <1>1, <1>3, MineIs
  <2>2. (xs \o bs)[Max(Mine(xs, n, c))] = xs[Max(Mine(xs, n, c))]
    BY <1>1, <2>1
  <2> QED BY <1>2, <1>3, <2>2, StatusAfterIs
<1> QED BY <1>2, <1>3, StatusAfterIs

\* Later adjudications continue from where the earlier ones left the claim.
LEMMA StatusContinues ==
  ASSUME NEW xs \in Seq(Adjudication), NEW bs \in Seq(Adjudication),
         NEW n \in 0..Len(bs), NEW s, NEW t, NEW c,
         t[c] = StatusAfter(s, xs, Len(xs), c)
  PROVE  StatusAfter(s, xs \o bs, Len(xs) + n, c) = StatusAfter(t, bs, n, c)
<1> DEFINE ab == xs \o bs
           L == Len(xs)
           A == Mine(ab, L + n, c)
           B == Mine(bs, n, c)
<1>1. /\ L \in Nat /\ n \in Nat /\ L + n \in Nat
      /\ \A i \in 1..L : ab[i] = xs[i]
      /\ \A i \in 1..n : ab[L + i] = bs[i]
  BY Joined
<1> HIDE DEF ab, L
<1>2. /\ A \in SUBSET (1..(L + n)) /\ B \in SUBSET (1..n)
      /\ \A i \in 1..(L + n) : i \in A <=> ab[i].claim = c
      /\ \A i \in 1..n : i \in B <=> bs[i].claim = c
      /\ B # {} => Max(B) \in B /\ \A y \in B : Max(B) >= y
      /\ Mine(xs, L, c) # {} => Max(Mine(xs, L, c)) \in 1..L
  <2>1. A \in SUBSET (1..(L + n)) /\ \A i \in 1..(L + n) : i \in A <=> ab[i].claim = c
    BY <1>1, MineIs
  <2>2. /\ B \in SUBSET (1..n) /\ \A i \in 1..n : i \in B <=> bs[i].claim = c
        /\ B # {} => Max(B) \in B /\ \A y \in B : Max(B) >= y
    BY <1>1, MineIs
  <2>3. Mine(xs, L, c) # {} => Max(Mine(xs, L, c)) \in 1..L
    BY <1>1, MineIs
  <2> HIDE DEF A, B
  <2> QED BY <2>1, <2>2, <2>3
<1>3. CASE B = {}
  <2>1. ASSUME NEW i \in A PROVE i \in 1..L
    <3> SUFFICES ASSUME i > L PROVE FALSE
      BY <1>1, <1>2
    <3> DEFINE d == i - L
    <3>1. d \in 1..n /\ L + d = i
      BY <1>1, <1>2
    <3>2. ab[i].claim = c
      BY <1>2
    <3>3. ab[i] = bs[d]
      BY <1>1, <3>1
    <3> QED BY <1>2, <1>3, <3>1, <3>2, <3>3
  <2>2. \A i \in 1..L : i \in 1..(L + n) /\ (i \in A <=> xs[i].claim = c)
    BY <1>1, <1>2
  <2>3. A = Mine(xs, L, c)
    BY <2>1, <2>2 DEF Mine
  <2> HIDE DEF A, B
  <2>4. CASE A = {}
    BY <1>3, <2>3, <2>4, StatusAfterIs DEF A, B, ab, L
  <2>5. CASE A # {}
    <3>1. Max(A) \in 1..L
      BY <1>2, <2>3, <2>5
    <3>2. ab[Max(A)] = xs[Max(A)]
      BY <1>1, <3>1
    <3>3. StatusAfter(s, ab, L + n, c) = ab[Max(A)].resulting
      BY <2>5, StatusAfterIs DEF A
    <3>4. StatusAfter(s, xs, L, c) = xs[Max(A)].resulting
      BY <2>3, <2>5, StatusAfterIs
    <3>5. StatusAfter(t, bs, n, c) = t[c]
      BY <1>3, StatusAfterIs DEF B
    <3> QED BY <3>2, <3>3, <3>4, <3>5 DEF ab, L
  <2> QED BY <2>4, <2>5
<1>4. CASE B # {}
  <2> DEFINE m == Max(B)
  <2> HIDE DEF A, B, m
  <2>1. m \in B /\ (\A y \in B : m >= y)
    BY <1>2, <1>4 DEF m
  <2>2. m \in 1..n /\ m \in Int
    BY <1>2, <2>1
  <2>3. L + m \in 1..(L + n) /\ ab[L + m] = bs[m]
    BY <1>1, <2>2
  <2>4. L + m \in A
    BY <1>2, <2>1, <2>2, <2>3
  <2>5. ASSUME NEW y \in A PROVE L + m >= y
    <3> SUFFICES ASSUME y > L + m PROVE FALSE
      BY <1>1, <1>2, <2>2
    <3> DEFINE d == y - L
    <3>1. d \in 1..n /\ L + d = y /\ d > m
      BY <1>1, <1>2, <2>2
    <3>2. ab[y] = bs[d]
      BY <1>1, <3>1
    <3>3. d \in B
      BY <1>2, <3>1, <3>2
    <3> QED BY <2>1, <2>2, <3>1, <3>3
  <2>6. Max(A) = L + m
    BY <1>1, <1>2, <2>4, <2>5, MaxIs
  <2>7. StatusAfter(s, ab, L + n, c) = ab[L + m].resulting
    BY <2>4, <2>6, StatusAfterIs DEF A
  <2>8. StatusAfter(t, bs, n, c) = bs[m].resulting
    BY <1>4, StatusAfterIs DEF B, m
  <2> QED BY <2>3, <2>7, <2>8 DEF ab, L
<1> QED BY <1>3, <1>4

------------------------------------------------------------------------------
(* What the operations make of a case.                                     *)

LEMMA CaseIs ==
  ASSUME NEW k \in Case
  PROVE  /\ k.revision \in Nat \ {0} /\ k.entities \subseteq Entities
         /\ Claims(k) \subseteq ClaimIds /\ k.status \in [Claims(k) -> ClaimStates]
         /\ k.identities \in Seq(IdentityDecision)
         /\ k.adjudications \in Seq(Adjudication)
         /\ k.intakes \subseteq Operations /\ k.inputs \in Seq(CustomerInput)
BY DEF Case, Claims

LEMMA NewCaseGood == Good(NewCase) /\ NewCase.inputs = <<>>
<1>1. [c \in {} |-> "CANDIDATE"] \in [{} -> ClaimStates]
  OBVIOUS
<1>2. [c \in {} |-> "CANDIDATE"] \in UNION {[S -> ClaimStates] : S \in SUBSET ClaimIds}
  BY <1>1
<1>3. NewCase \in Case
  <2>1. \A S : <<>> \in Seq(S)
    OBVIOUS
  <2> QED BY <1>2, <2>1 DEF NewCase, Case
<1>4. NewCase.identities = <<>> /\ NewCase.adjudications = <<>> /\ NewCase.inputs = <<>>
      /\ Claims(NewCase) = {}
  BY DEF NewCase, Claims
<1> QED BY <1>3, <1>4 DEF Good, EntitiesKnown, Replays

LEMMA Extended ==
  ASSUME NEW k \in Case, NEW cs \in SUBSET ClaimIds
  PROVE  /\ WithCandidates(k, cs) \in UNION {[S -> ClaimStates] : S \in SUBSET ClaimIds}
         /\ DOMAIN WithCandidates(k, cs) = Claims(k) \cup cs
         /\ \A c \in Claims(k) : WithCandidates(k, cs)[c] = k.status[c]
         /\ \A c \in cs \ Claims(k) : WithCandidates(k, cs)[c] = "CANDIDATE"
<1>1. Claims(k) \subseteq ClaimIds /\ \A c \in Claims(k) : k.status[c] \in ClaimStates
  BY CaseIs
<1>2. "CANDIDATE" \in ClaimStates
  BY DEF ClaimStates
<1> HIDE DEF ClaimStates, ClaimIds
<1>3. WithCandidates(k, cs) \in [Claims(k) \cup cs -> ClaimStates]
  BY <1>1, <1>2 DEF WithCandidates
<1>4. Claims(k) \cup cs \in SUBSET ClaimIds
  BY <1>1
<1> QED BY <1>3, <1>4 DEF WithCandidates

LEMMA ExtendedReplays ==
  ASSUME NEW k \in Case, Replays(k), NEW cs \in SUBSET ClaimIds, NEW n,
         n.status = WithCandidates(k, cs), n.adjudications = k.adjudications
  PROVE  Replays(n)
<1> DEFINE old == Candidates(Claims(k))
           new == Candidates(Claims(n))
           xs == k.adjudications
<1>1. xs \in Seq(Adjudication) /\ Len(xs) \in Nat /\ DOMAIN xs = 1..Len(xs)
  BY CaseIs
<1>2. Claims(n) = Claims(k) \cup cs
  BY Extended DEF Claims
<1>3. \A c \in Claims(k) : old[c] = new[c]
  BY <1>2 DEF Candidates
<1>4. \A c \in Claims(n) : new[c] = "CANDIDATE"
  BY DEF Candidates
<1>0. /\ \A c \in Claims(k) : n.status[c] = k.status[c]
      /\ \A c \in cs \ Claims(k) : n.status[c] = "CANDIDATE"
  <2>1. /\ \A c \in Claims(k) : WithCandidates(k, cs)[c] = k.status[c]
        /\ \A c \in cs \ Claims(k) : WithCandidates(k, cs)[c] = "CANDIDATE"
    BY Extended
  <2> QED BY <2>1
<1> HIDE DEF old, new
<1>5. \A c \in Claims(k) : \A i : StatusAfter(old, xs, i, c) = StatusAfter(new, xs, i, c)
  BY <1>3, StatusFrom
<1>6. ASSUME NEW c \in Claims(n)
      PROVE  n.status[c] = StatusAfter(new, xs, Len(xs), c)
  <2>1. CASE c \in Claims(k)
    <3>1. n.status[c] = k.status[c]
      BY <1>0, <2>1
    <3>2. k.status[c] = StatusAfter(old, xs, Len(xs), c)
      BY <2>1 DEF Replays, old
    <3> QED BY <1>5, <2>1, <3>1, <3>2
  <2>2. CASE c \notin Claims(k)
    <3>1. \A i \in 1..Len(xs) : xs[i].claim # c
      BY <1>1, <2>2 DEF Replays
    <3>2. Mine(xs, Len(xs), c) = {}
      BY <3>1 DEF Mine
    <3>3. StatusAfter(new, xs, Len(xs), c) = new[c]
      BY <3>2, StatusAfterIs
    <3>4. n.status[c] = "CANDIDATE"
      BY <1>2, <1>0, <2>2
    <3> QED BY <1>4, <3>3, <3>4
  <2> QED BY <2>1, <2>2
<1>7. ASSUME NEW i \in DOMAIN xs
      PROVE  /\ xs[i].claim \in Claims(n)
             /\ xs[i].previous = StatusAfter(new, xs, i - 1, xs[i].claim)
             /\ xs[i].previous \notin Terminal
  <2>1. /\ xs[i].claim \in Claims(k)
        /\ xs[i].previous = StatusAfter(old, xs, i - 1, xs[i].claim)
        /\ xs[i].previous \notin Terminal
    BY DEF Replays, old
  <2> QED BY <1>2, <1>5, <2>1
<1> QED BY <1>6, <1>7 DEF Replays, new

LEMMA IntakeGood ==
  ASSUME NEW k, Good(k), NEW op \in Operations, NEW facts \in SUBSET Facts
  PROVE  LET n == AfterIntake(k, op, facts)
         IN Good(n) /\ n.inputs = k.inputs /\ n.revision = k.revision + 1
<1> DEFINE n == AfterIntake(k, op, facts)
           cs == {op} \X facts
<1>1. k \in Case /\ cs \in SUBSET ClaimIds
  BY DEF Good, ClaimIds
<1>2. WithCandidates(k, cs) \in UNION {[S -> ClaimStates] : S \in SUBSET ClaimIds}
  BY <1>1, Extended
<1>3. /\ n.status = WithCandidates(k, cs) /\ n.adjudications = k.adjudications
      /\ n.identities = k.identities /\ n.entities = k.entities
      /\ n.inputs = k.inputs /\ n.revision = k.revision + 1
  BY <1>1 DEF AfterIntake, Case
<1>4. n \in Case
  <2>1. k.intakes \cup {op} \in SUBSET Operations /\ k.revision + 1 \in Nat \ {0}
    BY <1>1, CaseIs
  <2> QED BY <1>1, <1>2, <2>1 DEF AfterIntake, Case
<1> HIDE DEF n, cs
<1>5. Replays(n)
  BY <1>1, <1>3, ExtendedReplays DEF Good
<1> QED BY <1>3, <1>4, <1>5 DEF Good, EntitiesKnown, n

LEMMA DecisionsGood ==
  ASSUME NEW k, Good(k), NEW r \in DecisionRequests, CanDecide(k, r)
  PROVE  LET n == AfterDecisions(k, r)
         IN Good(n) /\ n.inputs = k.inputs /\ n.revision >= k.revision
<1> DEFINE n == AfterDecisions(k, r)
           xs == k.adjudications
           bs == r.adjudications
           old == Candidates(Claims(k))
<1>1. /\ k \in Case /\ k.revision \in Nat \ {0}
      /\ xs \in Seq(Adjudication) /\ bs \in Seq(Adjudication)
      /\ Len(xs) \in Nat /\ Len(bs) \in Nat
      /\ k.identities \in Seq(IdentityDecision) /\ r.identities \in Seq(IdentityDecision)
      /\ Len(r.identities) \in Nat
      /\ k.entities \cup r.entities \in SUBSET Entities
  BY CaseIs, RequestsAssumption DEF Good, Entities
<1>2. Cardinality(r.entities) \in Nat
  BY RequestsAssumption, FS_CardinalityType
<1>3. /\ n.revision = k.revision + Cardinality(r.entities) + Len(r.identities) + Len(bs)
      /\ n.entities = k.entities \cup r.entities
      /\ n.identities = k.identities \o r.identities
      /\ n.adjudications = xs \o bs
      /\ n.status = [c \in Claims(k) |-> StatusAfter(k.status, bs, Len(bs), c)]
      /\ n.inputs = k.inputs /\ n.intakes = k.intakes
  BY <1>1 DEF AfterDecisions, Case
<1>4. n.revision \in Nat \ {0} /\ n.revision >= k.revision
  <2> HIDE DEF n, bs
  <2> QED  BY ONLY <1>1, <1>2, <1>3
<1>5. Claims(n) = Claims(k)
  BY <1>3 DEF Claims
<1>6. n.status \in [Claims(k) -> ClaimStates]
  <2>1. \A c \in Claims(k) : k.status[c] \in ClaimStates
    BY <1>1, CaseIs
  <2>2. \A c \in Claims(k) : StatusAfter(k.status, bs, Len(bs), c) \in ClaimStates
    BY ONLY <1>1, <2>1, StatusTyped
  <2> QED BY <1>3, <2>2
<1>7. n \in Case
  <2>1. n.status \in UNION {[S -> ClaimStates] : S \in SUBSET ClaimIds}
    BY <1>1, <1>6, CaseIs
  <2>2. n.identities \in Seq(IdentityDecision) /\ n.adjudications \in Seq(Adjudication)
    BY <1>1, <1>3
  <2>3. n.intakes \in SUBSET Operations /\ n.inputs \in Seq(CustomerInput)
    BY <1>1, <1>3, CaseIs
  <2> HIDE DEF ClaimStates, ClaimIds
  <2> QED BY <1>1, <1>3, <1>4, <2>1, <2>2, <2>3 DEF AfterDecisions, Case
<1> HIDE DEF n
<1>8. EntitiesKnown(n)
  <2> DEFINE ys == k.identities
             zs == r.identities
  <2>1. /\ DOMAIN (ys \o zs) = 1..(Len(ys) + Len(zs)) /\ Len(ys) \in Nat /\ Len(zs) \in Nat
        /\ \A i \in 1..Len(ys) : (ys \o zs)[i] = ys[i] /\ i \in DOMAIN ys
        /\ \A i \in 1..(Len(ys) + Len(zs)) : i > Len(ys) =>
             (ys \o zs)[i] = zs[i - Len(ys)] /\ i - Len(ys) \in DOMAIN zs
    <3>1. ys \in Seq(IdentityDecision) /\ zs \in Seq(IdentityDecision)
      BY <1>1
    <3> HIDE DEF ys, zs
    <3> QED BY <3>1
  <2>2. \A i \in DOMAIN ys : ys[i].status = "RESOLVED" => ys[i].entity \in n.entities
    BY <1>3 DEF Good, EntitiesKnown
  <2>3. \A i \in DOMAIN zs : zs[i].status = "RESOLVED" => zs[i].entity \in n.entities
    BY <1>3 DEF CanDecide, CanResolve
  <2> HIDE DEF ys, zs
  <2>4. ASSUME NEW i \in DOMAIN (ys \o zs), (ys \o zs)[i].status = "RESOLVED"
        PROVE  (ys \o zs)[i].entity \in n.entities
    <3>1. CASE i <= Len(ys)
      BY <2>1, <2>2, <2>4, <3>1
    <3>2. CASE i > Len(ys)
      BY <2>1, <2>3, <2>4, <3>2
    <3> QED BY <2>1, <3>1, <3>2
  <2> QED BY <1>3, <2>4 DEF EntitiesKnown, ys, zs
<1>9. Replays(n)
  <2> HIDE DEF xs, bs, old
  <2>1. \A c \in Claims(k) : k.status[c] = StatusAfter(old, xs, Len(xs), c)
    BY DEF Good, Replays, xs, old
  <2>2. ASSUME NEW c \in Claims(k), NEW i \in 0..Len(bs)
        PROVE  StatusAfter(old, xs \o bs, Len(xs) + i, c) = StatusAfter(k.status, bs, i, c)
    <3> DEFINE st == k.status
    <3>1. st[c] = StatusAfter(old, xs, Len(xs), c)
      BY <2>1
    <3>3. xs \in Seq(Adjudication) /\ bs \in Seq(Adjudication)
      BY <1>1
    <3> HIDE DEF st
    <3>2. StatusAfter(old, xs \o bs, Len(xs) + i, c) = StatusAfter(st, bs, i, c)
      BY <3>1, <3>3, StatusContinues
    <3> QED BY <3>2 DEF st
  <2>3. \A i \in 0..Len(xs) : \A c :
          StatusAfter(old, xs \o bs, i, c) = StatusAfter(old, xs, i, c)
    BY <1>1, StatusOfPrefix
  <2>4. /\ Len(xs \o bs) = Len(xs) + Len(bs) /\ DOMAIN (xs \o bs) = 1..(Len(xs) + Len(bs))
        /\ \A i \in 1..Len(xs) : (xs \o bs)[i] = xs[i]
        /\ \A i \in 1..Len(bs) : (xs \o bs)[Len(xs) + i] = bs[i]
    BY <1>1, Joined
  <2>5. ASSUME NEW c \in Claims(k)
        PROVE  n.status[c] = StatusAfter(old, xs \o bs, Len(xs \o bs), c)
    <3>1. StatusAfter(old, xs \o bs, Len(xs) + Len(bs), c) = StatusAfter(k.status, bs, Len(bs), c)
      BY <1>1, <2>2
    <3> QED BY <1>3, <2>4, <3>1 DEF bs
  <2>6. ASSUME NEW i \in 1..Len(xs)
        PROVE  /\ (xs \o bs)[i].claim \in Claims(k)
               /\ (xs \o bs)[i].previous
                    = StatusAfter(old, xs \o bs, i - 1, (xs \o bs)[i].claim)
               /\ (xs \o bs)[i].previous \notin Terminal
    <3>1. /\ xs[i].claim \in Claims(k)
          /\ xs[i].previous = StatusAfter(old, xs, i - 1, xs[i].claim)
          /\ xs[i].previous \notin Terminal
      BY <1>1 DEF Good, Replays, xs, old
    <3>2. i - 1 \in 0..Len(xs)
      BY <1>1
    <3> QED BY <2>3, <2>4, <3>1, <3>2
  <2>7. ASSUME NEW i \in 1..Len(bs)
        PROVE  /\ (xs \o bs)[Len(xs) + i].claim \in Claims(k)
               /\ (xs \o bs)[Len(xs) + i].previous
                    = StatusAfter(old, xs \o bs, Len(xs) + i - 1, (xs \o bs)[Len(xs) + i].claim)
               /\ (xs \o bs)[Len(xs) + i].previous \notin Terminal
    <3>1. /\ bs[i].claim \in Claims(k)
          /\ bs[i].previous = StatusAfter(k.status, bs, i - 1, bs[i].claim)
          /\ bs[i].previous \notin Terminal
      BY <1>1 DEF CanDecide, CanAdjudicate, bs
    <3>2. i - 1 \in 0..Len(bs) /\ Len(xs) + (i - 1) = Len(xs) + i - 1
      BY <1>1
    <3> QED BY <2>2, <2>4, <3>1, <3>2
  <2>8. ASSUME NEW l \in DOMAIN (xs \o bs)
        PROVE  /\ (xs \o bs)[l].claim \in Claims(k)
               /\ (xs \o bs)[l].previous
                    = StatusAfter(old, xs \o bs, l - 1, (xs \o bs)[l].claim)
               /\ (xs \o bs)[l].previous \notin Terminal
    <3>1. CASE l \in 1..Len(xs)
      BY <2>6, <3>1
    <3>2. CASE l \notin 1..Len(xs)
      <4> DEFINE i == l - Len(xs)
      <4>1. i \in 1..Len(bs) /\ l = Len(xs) + i
        BY <1>1, <2>4, <3>2
      <4> HIDE DEF i
      <4> QED BY <2>7, <4>1
    <3> QED BY <3>1, <3>2
  <2> QED BY <1>3, <1>5, <2>5, <2>8 DEF Replays, xs, bs, old
<1> QED BY <1>3, <1>4, <1>7, <1>8, <1>9 DEF Good, n

\* The identity decisions of an input that registers the entities of new.
Fits(k, new, resolved) ==
  /\ new \subseteq Entities
  /\ resolved \in Seq(IdentityDecision)
  /\ \A i \in DOMAIN resolved : resolved[i].entity \in k.entities \cup new

LEMMA InputGood ==
  ASSUME NEW k, Good(k), NEW op \in Operations, NEW facts \in SUBSET Facts,
         NEW new, NEW resolved, Fits(k, new, resolved), NEW snapshot \in Nat \ {0},
         NEW n, n = AfterInput(k, op, facts, new, resolved, snapshot)
  PROVE  Good(n)
<1> DEFINE cs == {op} \X facts
           input == [operation |-> op, snapshot |-> snapshot]
           ys == k.identities
           zs == resolved
<1>0. /\ new \subseteq Entities /\ zs \in Seq(IdentityDecision)
      /\ \A i \in DOMAIN zs : zs[i].entity \in k.entities \cup new
  BY DEF Fits
<1>1. k \in Case /\ cs \in SUBSET ClaimIds
  BY DEF Good, ClaimIds
<1>2. /\ WithCandidates(k, cs) \in UNION {[S -> ClaimStates] : S \in SUBSET ClaimIds}
      /\ ys \o zs \in Seq(IdentityDecision)
      /\ k.entities \cup new \in SUBSET Entities
      /\ k.revision + 1 \in Nat \ {0}
  <2>1. WithCandidates(k, cs) \in UNION {[S -> ClaimStates] : S \in SUBSET ClaimIds}
    BY <1>1, Extended
  <2>2. ys \in Seq(IdentityDecision) /\ k.entities \subseteq Entities /\ k.revision \in Nat
    BY <1>1, CaseIs
  <2>3. k.entities \cup new \in SUBSET Entities
    BY <1>0, <2>2
  <2>4. ys \o zs \in Seq(IdentityDecision)
    BY <1>0, <2>2
  <2>5. k.revision + 1 \in Nat \ {0}
    BY <2>2
  <2> HIDE DEF cs, ys, zs
  <2> QED BY <2>1, <2>3, <2>4, <2>5
<1>3. Append(k.inputs, input) \in Seq(CustomerInput)
  <2>1. input \in CustomerInput
    BY DEF CustomerInput
  <2> HIDE DEF input
  <2> QED BY <1>1, <2>1, CaseIs
<1>4. /\ n.status = WithCandidates(k, cs) /\ n.adjudications = k.adjudications
      /\ n.identities = ys \o zs /\ n.entities = k.entities \cup new
      /\ n.inputs = Append(k.inputs, input) /\ n.revision = k.revision + 1
  BY <1>1 DEF AfterInput, Case
<1>5. n \in Case
  <2> HIDE DEF cs, input, ClaimStates, ClaimIds
  <2> QED BY <1>1, <1>2, <1>3 DEF AfterInput, Case, cs, input
<1> HIDE DEF cs, input
<1>6. Replays(n)
  BY <1>1, <1>4, ExtendedReplays DEF Good
<1>7. EntitiesKnown(n)
  <2>1. /\ DOMAIN (ys \o zs) = 1..(Len(ys) + Len(zs)) /\ Len(ys) \in Nat /\ Len(zs) \in Nat
        /\ \A i \in 1..Len(ys) : (ys \o zs)[i] = ys[i] /\ i \in DOMAIN ys
        /\ \A i \in 1..(Len(ys) + Len(zs)) : i > Len(ys) =>
             (ys \o zs)[i] = zs[i - Len(ys)] /\ i - Len(ys) \in DOMAIN zs
    <3>1. ys \in Seq(IdentityDecision) /\ zs \in Seq(IdentityDecision)
      BY <1>0, <1>1, CaseIs
    <3> HIDE DEF ys, zs
    <3> QED BY <3>1
  <2>2. \A i \in DOMAIN ys : ys[i].status = "RESOLVED" => ys[i].entity \in n.entities
    BY <1>4 DEF Good, EntitiesKnown
  <2>3. \A i \in DOMAIN zs : zs[i].entity \in n.entities
    BY <1>0, <1>4
  <2> HIDE DEF ys, zs
  <2>4. ASSUME NEW i \in DOMAIN (ys \o zs), (ys \o zs)[i].status = "RESOLVED"
        PROVE  (ys \o zs)[i].entity \in n.entities
    <3>1. CASE i <= Len(ys)
      BY <2>1, <2>2, <2>4, <3>1
    <3>2. CASE i > Len(ys)
      BY <2>1, <2>3, <2>4, <3>2
    <3> QED BY <2>1, <3>1, <3>2
  <2> QED BY <1>4, <2>4 DEF EntitiesKnown, ys, zs
<1> QED BY <1>4, <1>5, <1>6, <1>7 DEF Good, input

\* The references of an input resolve parties of its own claims.
LEMMA ResolutionIs ==
  ASSUME NEW op \in Operations, NEW facts \in SUBSET Facts,
         NEW endpoint \in {"SUBJECT", "OBJECT"}, NEW e \in Entities \cup {NoEntity}
  PROVE  /\ Resolution(op, facts, endpoint, e) \in Seq(IdentityDecision)
         /\ Resolution(op, facts, endpoint, e) = <<>>
            \/ (e # NoEntity /\ \A i \in DOMAIN Resolution(op, facts, endpoint, e) :
                                  Resolution(op, facts, endpoint, e)[i].entity = e)
<1>1. CASE facts = {} \/ e = NoEntity
  <2>1. \A S : <<>> \in Seq(S)
    OBVIOUS
  <2> QED BY <1>1, <2>1 DEF Resolution
<1>2. CASE facts # {} /\ e # NoEntity
  <2> DEFINE f == CHOOSE g \in facts : TRUE
             d == [party |-> <<<<op, f>>, endpoint>>, status |-> "RESOLVED", entity |-> e]
  <2>1. f \in Facts
    BY <1>2
  <2> HIDE DEF f
  <2>2. d \in IdentityDecision
    BY <2>1 DEF IdentityDecision, Parties, ClaimIds
  <2>3. d.entity = e
    OBVIOUS
  <2>4. Resolution(op, facts, endpoint, e) = <<d>>
    BY <1>2 DEF Resolution, f
  <2> HIDE DEF d
  <2>5. <<d>> \in Seq(IdentityDecision) /\ DOMAIN <<d>> = {1} /\ <<d>>[1] = d
    BY <2>2
  <2> QED BY <1>2, <2>3, <2>4, <2>5
<1> QED BY <1>1, <1>2

------------------------------------------------------------------------------
(* Steps.                                                                  *)

LEMMA HistoryIs ==
  ASSUME Inv
  PROVE  \A n \in DOMAIN history :
           history[n] \in Case /\ history[n].revision \in Nat /\ n \in Nat \ {0}
<1>1. history \in Seq(Case)
  BY DEF Inv
<1>2. \A n \in DOMAIN history : history[n] \in Case /\ n \in Nat \ {0}
  BY <1>1
<1> QED BY <1>2, CaseIs

\* A new revision with the same inputs answers in order if the old one did.
LEMMA AnswersKept ==
  ASSUME Inv, NEW k, AnswersInOrder(k), k.revision \in Nat,
         NEW n, n.inputs = k.inputs, n.revision \in Nat, n.revision >= k.revision
  PROVE  AnswersInOrder(n)
BY HistoryIs DEF AnswersInOrder

LEMMA AnswersAppended ==
  ASSUME Inv, NEW k \in Case, AnswersInOrder(k), NEW s \in DOMAIN history,
         history[s].revision = k.revision,
         NEW op \in Operations, NEW n, n.revision = k.revision + 1,
         n.inputs = Append(k.inputs, [operation |-> op, snapshot |-> s])
  PROVE  AnswersInOrder(n)
<1> DEFINE xs == k.inputs
           x == [operation |-> op, snapshot |-> s]
           at(y) == history[y.snapshot].revision
<1>1. s \in Nat \ {0} /\ k.revision \in Nat /\ x.snapshot = s
  BY HistoryIs, CaseIs
<1>2. x \in CustomerInput /\ xs \in Seq(CustomerInput)
  BY <1>1, CaseIs DEF CustomerInput
<1>3. \A j \in DOMAIN xs :
        /\ xs[j].snapshot \in DOMAIN history /\ at(xs[j]) < k.revision
        /\ \A i \in 1..(j - 1) : at(xs[i]) < at(xs[j])
  BY DEF AnswersInOrder
<1>4. \A j \in DOMAIN history : history[j].revision \in Nat
  BY HistoryIs
<1>5. at(x) = k.revision
  BY <1>1
<1> DEFINE l == Len(xs)
<1>6. /\ DOMAIN Append(xs, x) = 1..(l + 1) /\ DOMAIN xs = 1..l /\ l \in Nat
      /\ Append(xs, x)[l + 1] = x
      /\ \A i \in 1..l : Append(xs, x)[i] = xs[i]
  <2> HIDE DEF x, xs
  <2> QED BY <1>2
<1>7. n.inputs = Append(xs, x)
  OBVIOUS
<1> HIDE DEF x, xs, l
<1>8. ASSUME NEW j \in 1..(l + 1)
      PROVE  /\ Append(xs, x)[j].snapshot \in DOMAIN history
             /\ at(Append(xs, x)[j]) < k.revision + 1
             /\ \A i \in 1..(j - 1) : at(Append(xs, x)[i]) < at(Append(xs, x)[j])
  <2>1. CASE j \in 1..l
    <3>1. \A i \in 1..(j - 1) : i \in 1..l
      BY <1>6, <2>1
    <3>2. at(xs[j]) \in Nat
      BY <1>3, <1>4, <1>6, <2>1
    <3> QED BY <1>1, <1>3, <1>6, <2>1, <3>1, <3>2
  <2>2. CASE j = l + 1
    <3>1. \A i \in 1..(j - 1) : i \in 1..l
      BY <1>6, <2>2
    <3>2. Append(xs, x)[j] = x /\ \A i \in 1..(j - 1) : Append(xs, x)[i] = xs[i]
      BY <1>6, <2>2, <3>1
    <3>3. \A i \in 1..(j - 1) : at(xs[i]) < k.revision  BY <1>3, <1>6, <3>1
    <3> HIDE DEF at
    <3>4. \A i \in 1..(j - 1) : at(Append(xs, x)[i]) < at(Append(xs, x)[j])
      BY <1>5, <3>2, <3>3
    <3> QED BY <1>1, <1>5, <3>2, <3>4
  <2> QED BY <1>6, <2>1, <2>2
<1> QED BY <1>6, <1>7, <1>8 DEF AnswersInOrder

LEMMA AnswerPreserves ==
  ASSUME Inv, NEW c \in Callers, NEW k, Good(k), AnswersInOrder(k),
         Answer(c, k), UNCHANGED <<known, history>>
  PROVE  Inv'
<1>1. held' = [held EXCEPT ![c] = k] /\ calls' = calls + 1 /\ calls < MaxCalls
  BY DEF Answer
<1>2. DOMAIN held' = Callers /\ \A d \in Callers : held'[d] = IF d = c THEN k ELSE held[d]
  BY <1>1 DEF Inv
<1>3. calls' \in 0..MaxCalls
  BY <1>1, CallsAssumption DEF Inv
<1>4. Cases' \subseteq Cases \cup {k}
  BY <1>2 DEF Cases, Holds
<1>5. \A n \in Cases' : Good(n) /\ AnswersInOrder(n)'
  BY <1>4 DEF Inv, AnswersInOrder
<1> QED BY <1>2, <1>3, <1>5 DEF Inv, NothingLeftOpen

LEMMA HeldGood ==
  ASSUME Inv, NEW c \in Callers, Holds(c)
  PROVE  /\ Good(held[c]) /\ AnswersInOrder(held[c]) /\ held[c] \in Case
         /\ held[c].revision \in Nat
<1>1. held[c] \in Cases
  BY DEF Cases
<1>2. Good(held[c]) /\ AnswersInOrder(held[c])
  BY <1>1 DEF Inv
<1> QED BY <1>2, CaseIs DEF Good

LEMMA IntakePreserves ==
  ASSUME Inv, NEW c \in Callers, NEW op \in Operations, NEW facts \in SUBSET Facts,
         Intake(c, op, facts)
  PROVE  Inv'
<1> DEFINE k == IF Holds(c) THEN held[c] ELSE NewCase
           n == AfterIntake(k, op, facts)
<1>1. Answer(c, n) /\ UNCHANGED <<known, history>>
  BY DEF Intake
<1>2. Good(k) /\ AnswersInOrder(k)
  <2>1. CASE Holds(c)
    BY <2>1, HeldGood
  <2>2. CASE ~Holds(c)
    BY <2>2, NewCaseGood DEF AnswersInOrder
  <2> QED BY <2>1, <2>2
<1> HIDE DEF k
<1>3. Good(n) /\ n.inputs = k.inputs /\ n.revision = k.revision + 1
  BY <1>2, IntakeGood
<1> HIDE DEF n
<1>4. k.revision \in Nat /\ n.revision \in Nat
  BY <1>2, <1>3, CaseIs DEF Good
<1>5. AnswersInOrder(n)
  BY <1>2, <1>3, <1>4, AnswersKept
<1> QED BY <1>1, <1>3, <1>5, AnswerPreserves

LEMMA DecisionsPreserve ==
  ASSUME Inv, NEW c \in Callers, NEW r \in DecisionRequests, ApplyDecisions(c, r)
  PROVE  Inv'
<1> DEFINE k == held[c]
           n == AfterDecisions(k, r)
<1>1. Answer(c, n) /\ UNCHANGED <<known, history>> /\ CanDecide(k, r)
  BY DEF ApplyDecisions
<1>2. Good(k) /\ AnswersInOrder(k) /\ k.revision \in Nat
  BY HeldGood DEF ApplyDecisions
<1> HIDE DEF k
<1>3. Good(n) /\ n.inputs = k.inputs /\ n.revision >= k.revision
  BY <1>1, <1>2, DecisionsGood
<1> HIDE DEF n
<1>4. n.revision \in Nat
  BY <1>3, CaseIs DEF Good
<1>5. AnswersInOrder(n)
  BY <1>2, <1>3, <1>4, AnswersKept
<1> QED BY <1>1, <1>3, <1>5, AnswerPreserves

LEMMA InputPreserves ==
  ASSUME Inv, NEW c \in Callers, NEW op \in Operations, NEW facts \in SUBSET Facts,
         NEW s \in DOMAIN history, NEW subject \in Entities \cup {NoEntity},
         NEW object \in Entities \cup {NoEntity},
         ApplyCustomerInput(c, op, facts, s, subject, object)
  PROVE  Inv'
<1> DEFINE k == held[c]
           new == {subject} \cap {CustomerPerson(op)}
           of1 == Resolution(op, facts, "SUBJECT", subject)
           of2 == Resolution(op, facts, "OBJECT", object)
           n == AfterInput(k, op, facts, new, of1 \o of2, s)
<1>1. /\ Answer(c, n) /\ UNCHANGED <<known, history>>
      /\ history[s].revision = k.revision
      /\ {subject, object} \subseteq k.entities \cup {NoEntity, CustomerPerson(op)}
      /\ object # CustomerPerson(op)
  BY DEF ApplyCustomerInput, Pinned
<1>2. Good(k) /\ AnswersInOrder(k) /\ k \in Case
  BY HeldGood DEF ApplyCustomerInput
<1>3. new \in SUBSET Entities /\ s \in Nat \ {0}
  BY HistoryIs DEF Entities
<1>4. /\ of1 \in Seq(IdentityDecision)
      /\ of1 = <<>> \/ (subject # NoEntity /\ \A i \in DOMAIN of1 : of1[i].entity = subject)
  BY ResolutionIs
<1>5. /\ of2 \in Seq(IdentityDecision)
      /\ of2 = <<>> \/ (object # NoEntity /\ \A i \in DOMAIN of2 : of2[i].entity = object)
  BY ResolutionIs
<1>6. subject # NoEntity => subject \in k.entities \cup new
  BY <1>1
<1>7. object # NoEntity => object \in k.entities \cup new
  BY <1>1
<1> HIDE DEF k, new, of1, of2
<1>8. \A i \in DOMAIN of1 : of1[i].entity \in k.entities \cup new
  BY <1>4, <1>6
<1>9. \A i \in DOMAIN of2 : of2[i].entity \in k.entities \cup new
  BY <1>5, <1>7
<1>10. /\ of1 \o of2 \in Seq(IdentityDecision)
       /\ DOMAIN (of1 \o of2) = 1..(Len(of1) + Len(of2)) /\ Len(of1) \in Nat /\ Len(of2) \in Nat
       /\ \A i \in 1..Len(of1) : (of1 \o of2)[i] = of1[i] /\ i \in DOMAIN of1
       /\ \A i \in 1..(Len(of1) + Len(of2)) : i > Len(of1) =>
            (of1 \o of2)[i] = of2[i - Len(of1)] /\ i - Len(of1) \in DOMAIN of2
  BY <1>4, <1>5
<1>11. ASSUME NEW i \in DOMAIN (of1 \o of2)
       PROVE  (of1 \o of2)[i].entity \in k.entities \cup new
  <2>1. CASE i <= Len(of1)
    BY <1>8, <1>10, <2>1
  <2>2. CASE i > Len(of1)
    BY <1>9, <1>10, <2>2
  <2> QED BY <1>10, <2>1, <2>2
<1>12. /\ Good(n) /\ n.revision = k.revision + 1
       /\ n.inputs = Append(k.inputs, [operation |-> op, snapshot |-> s])
  <2> DEFINE both == of1 \o of2
  <2>1. Fits(k, new, both)
    BY <1>3, <1>10, <1>11 DEF Fits
  <2> HIDE DEF both
  <2>2. n = AfterInput(k, op, facts, new, both, s)
    BY DEF both
  <2> HIDE DEF n
  <2>3. Good(k) /\ s \in Nat \ {0}
    BY <1>2, <1>3
  <2>4. Good(n)
    BY <2>1, <2>2, <2>3, InputGood
  <2>5. n.revision = k.revision + 1
    BY <1>2, <2>2 DEF AfterInput, Case
  <2>6. n.inputs = Append(k.inputs, [operation |-> op, snapshot |-> s])
    BY <1>2, <2>2 DEF AfterInput, Case
  <2> QED BY <2>4, <2>5, <2>6
<1> HIDE DEF n
<1>13. AnswersInOrder(n)
  BY <1>1, <1>2, <1>12, AnswersAppended
<1> QED BY <1>1, <1>12, <1>13, AnswerPreserves

LEMMA EvaluatePreserves ==
  ASSUME Inv, NEW c \in Callers, Evaluate(c)
  PROVE  Inv'
<1> DEFINE k == held[c]
           l == Len(history)
<1>1. /\ held' = [held EXCEPT ![c] = k] /\ calls' = calls + 1 /\ calls < MaxCalls
      /\ history' = Append(history, k) /\ known' = [known EXCEPT ![c] = l + 1]
      /\ NothingOpen(k) /\ Holds(c)
  BY DEF Evaluate, Answer
<1>2. Good(k) /\ AnswersInOrder(k) /\ k \in Case
  BY <1>1, HeldGood
<1>3. history \in Seq(Case) /\ l \in Nat
  BY DEF Inv
<1>4. /\ history' \in Seq(Case) /\ Len(history') = l + 1
      /\ DOMAIN history = 1..l /\ DOMAIN history' = 1..(l + 1)
      /\ history'[l + 1] = k /\ \A n \in 1..l : history'[n] = history[n]
  <2> HIDE DEF k
  <2> QED BY <1>1, <1>2, <1>3
<1>5. DOMAIN held' = Callers /\ \A d \in Callers : held'[d] = held[d]
  BY <1>1 DEF Inv
<1>6. known' \in [Callers -> 0..Len(history')]
  <2>1. known \in [Callers -> 0..l]
    BY DEF Inv
  <2>2. \A d \in Callers : known[d] \in 0..(l + 1)
    BY <1>3, <2>1
  <2>3. l + 1 \in 0..(l + 1)
    BY <1>3
  <2> HIDE DEF l
  <2> QED BY <1>1, <1>4, <2>1, <2>2, <2>3
<1>7. calls' \in 0..MaxCalls
  BY <1>1, CallsAssumption DEF Inv
<1>8. Cases' \subseteq Cases
  <2>1. k \in Cases
    BY <1>1 DEF Cases
  <2>2. \A n \in 1..(l + 1) : n \in 1..l \/ n = l + 1
    BY <1>3
  <2>3. \A n \in DOMAIN history' : history'[n] \in Cases
    <3> HIDE DEF k, l
    <3> QED BY <1>4, <2>1, <2>2 DEF Cases
  <2>4. \A d \in Callers : Holds(d)' => held'[d] \in Cases
    BY <1>5 DEF Cases, Holds
  <2> QED BY <2>3, <2>4 DEF Cases
<1> HIDE DEF k, l
<1>9. ASSUME NEW n \in Case, AnswersInOrder(n) PROVE AnswersInOrder(n)'
  <2>1. \A i \in DOMAIN history : i \in DOMAIN history' /\ history'[i] = history[i]
    BY <1>3, <1>4
  <2>2. \A j \in DOMAIN n.inputs : n.inputs[j].snapshot \in DOMAIN history
    BY <1>9 DEF AnswersInOrder
  <2>3. ASSUME NEW j \in DOMAIN n.inputs, NEW i \in 1..(j - 1)
        PROVE  history'[n.inputs[i].snapshot].revision < history'[n.inputs[j].snapshot].revision
    <3>1. n.inputs \in Seq(CustomerInput)
      BY CaseIs
    <3>2. i \in DOMAIN n.inputs
      BY <3>1
    <3> QED BY <1>9, <2>1, <2>2, <3>2 DEF AnswersInOrder
  <2> QED BY <1>9, <2>1, <2>2, <2>3 DEF AnswersInOrder
<1>10. \A n \in Cases' : Good(n) /\ AnswersInOrder(n)'
  BY <1>8, <1>9 DEF Inv, Good
<1>11. NothingLeftOpen'
  <2>1. \A n \in 1..(l + 1) : n \in 1..l \/ n = l + 1
    BY <1>3
  <2> QED BY <1>1, <1>4, <2>1 DEF Inv, NothingLeftOpen
<1> QED BY <1>4, <1>5, <1>6, <1>7, <1>10, <1>11 DEF Inv

LEMMA HandedPreserves ==
  ASSUME Inv, NEW c \in Callers,
         ReadHistory(c) \/ \E d \in Callers : Take(c, d)
  PROVE  Inv'
<1>1. CASE ReadHistory(c)
  <2>1. UNCHANGED <<held, history, calls>> /\ known' = [known EXCEPT ![c] = Len(history)]
    BY <1>1 DEF ReadHistory
  <2>2. Len(history) \in 0..Len(history)
    BY DEF Inv
  <2>3. known' \in [Callers -> 0..Len(history)]
    BY <2>1, <2>2 DEF Inv
  <2> QED BY <2>1, <2>3 DEF Inv, Cases, Holds, AnswersInOrder, NothingLeftOpen
<1>2. ASSUME NEW d \in Callers, Take(c, d) PROVE Inv'
  <2>1. UNCHANGED <<known, history, calls>> /\ held' = [held EXCEPT ![c] = held[d]] /\ Holds(d)
    BY <1>2 DEF Take
  <2>2. DOMAIN held' = Callers
        /\ \A b \in Callers : held'[b] = IF b = c THEN held[d] ELSE held[b]
    BY <2>1 DEF Inv
  <2>3. Cases' \subseteq Cases
    BY <2>1, <2>2 DEF Cases, Holds
  <2>4. \A k \in Cases' : Good(k) /\ AnswersInOrder(k)'
    BY <2>1, <2>3 DEF Inv, AnswersInOrder
  <2> QED BY <2>1, <2>2, <2>4 DEF Inv, NothingLeftOpen
<1> QED BY <1>1, <1>2

LEMMA InitInv == Init => Inv
<1> SUFFICES ASSUME Init PROVE Inv
  OBVIOUS
<1>1. history = <<>> /\ history \in Seq(Case) /\ Len(history) = 0 /\ DOMAIN history = {}
  BY DEF Init
<1>2. Cases = {}
  BY <1>1 DEF Init, Cases, Holds
<1>3. DOMAIN held = Callers /\ known \in [Callers -> 0..Len(history)] /\ calls \in 0..MaxCalls
  BY <1>1, CallsAssumption DEF Init
<1> QED BY <1>1, <1>2, <1>3 DEF Inv, NothingLeftOpen

LEMMA StepInv == Inv /\ [Next]_vars => Inv'
<1> SUFFICES ASSUME Inv, [Next]_vars PROVE Inv'
  OBVIOUS
<1>1. CASE Next
  BY <1>1, IntakePreserves, DecisionsPreserve, InputPreserves, EvaluatePreserves,
     HandedPreserves DEF Next
<1>2. CASE UNCHANGED vars
  BY <1>2 DEF vars, Inv, Cases, Holds, AnswersInOrder, NothingLeftOpen
<1> QED BY <1>1, <1>2

\* The inductive invariant: every case in use replays, resolves parties to
\* its own entities and answers decisions in order, whoever derived it.
THEOREM CasesGood == Spec => []Inv
BY InitInv, StepInv, PTL DEF Spec

------------------------------------------------------------------------------
(* Theorems.                                                               *)

LEMMA AllCases ==
  ASSUME Inv, NEW k \in Cases
  PROVE  k \in Case /\ EntitiesKnown(k) /\ Replays(k) /\ AnswersInOrder(k)
BY DEF Inv, Good

\* Every variable keeps its type, for any number of callers and operations.
THEOREM TypeCorrect == Spec => []TypeOK
<1>1. ASSUME Inv PROVE TypeOK
  <2>1. ASSUME NEW k \in Cases PROVE CaseType(k)
    BY <1>1, AllCases, CaseIs DEF CaseType
  <2> QED BY <1>1, <2>1 DEF Inv, TypeOK
<1> QED BY <1>1, CasesGood, PTL

\* The customer inputs of a case answer decisions of ever later revisions,
\* however callers share, fork and hand on cases.
THEOREM AnsweredInOrder == Spec => []InputsAnswerInOrder
<1>1. Inv => InputsAnswerInOrder
  BY AllCases DEF AnswersInOrder, InputsAnswerInOrder
<1> QED BY <1>1, CasesGood, PTL

\* A decision accounts for every operative relationship of its case.
THEOREM ClaimsAccountedFor == Spec => []DecisionsAccountForClaims
<1>1. ASSUME Inv PROVE DecisionsAccountForClaims
  <2> SUFFICES ASSUME NEW n \in DOMAIN history
               PROVE  LET k == history[n] IN
                      /\ \A c \in GraphEligible(k) : \A p \in PartiesOf(c) :
                           LatestDecision(k, p).entity \in k.entities
                      /\ \A c \in Claims(k) :
                           k.status[c] = "OPERATIVE" /\ c[2] \in Relationships
                           /\ c \notin GraphEligible(k) =>
                             \E p \in PartiesOf(c) : /\ Decisions(k, p) # {}
                                                     /\ LatestDecision(k, p).status # "RESOLVED"
    BY DEF DecisionsAccountForClaims
  <2> DEFINE k == history[n]
  <2>1. k \in Case /\ EntitiesKnown(k) /\ NothingOpen(k)
    <3>1. k \in Cases
      BY DEF Cases
    <3> QED BY <1>1, <3>1, AllCases DEF Inv, NothingLeftOpen
  <2> HIDE DEF k
  <2>2. ASSUME NEW p, Resolved(k, p) PROVE LatestDecision(k, p).entity \in k.entities
    <3> DEFINE m == Max(Decisions(k, p))
               ys == k.identities
    <3>1. ys \in Seq(IdentityDecision) /\ Len(ys) \in Nat /\ DOMAIN ys = 1..Len(ys)
      BY <2>1, CaseIs
    <3>2. Decisions(k, p) \in SUBSET (1..Len(ys)) /\ Decisions(k, p) # {}
      BY <2>2, <3>1 DEF Decisions, Resolved
    <3>3. m \in DOMAIN ys
      BY <3>1, <3>2, MaxOf
    <3>4. LatestDecision(k, p) = ys[m] /\ ys[m].status = "RESOLVED"
      BY <2>2 DEF LatestDecision, Resolved
    <3> QED BY <2>1, <3>3, <3>4 DEF EntitiesKnown
  <2>3. \A c \in GraphEligible(k) : \A p \in PartiesOf(c) :
          LatestDecision(k, p).entity \in k.entities
    BY <2>2 DEF GraphEligible
  <2>4. ASSUME NEW c \in Claims(k), k.status[c] = "OPERATIVE", c[2] \in Relationships,
               c \notin GraphEligible(k)
        PROVE  \E p \in PartiesOf(c) : /\ Decisions(k, p) # {}
                                       /\ LatestDecision(k, p).status # "RESOLVED"
    <3>1. PICK p \in PartiesOf(c) : ~Resolved(k, p)
      BY <2>4 DEF GraphEligible
    <3>2. k.status[c] \notin Terminal
      BY <2>4 DEF Terminal
    <3>3. p \in UNION {PartiesOf(d) : d \in {e \in Claims(k) : k.status[e] \notin Terminal}}
      BY <3>1, <3>2
    <3>4. Decisions(k, p) # {}
      BY <2>1, <3>3 DEF NothingOpen, CandidateParties
    <3> QED BY <3>1, <3>4 DEF Resolved
  <2> QED BY <2>3, <2>4 DEF k
<1> QED BY <1>1, CasesGood, PTL

\* Every claim stands as its adjudications leave it, each of which continues
\* the one before it, and none follows a final one.
THEOREM CasesReplay == Spec => []AdjudicationsReplay
<1>1. ASSUME Inv PROVE AdjudicationsReplay
  <2> SUFFICES ASSUME NEW k \in Cases, NEW c \in Claims(k)
               PROVE  LET candidates == [d \in Claims(k) |-> "CANDIDATE"]
                      IN /\ k.status[c]
                              = StatusAfter(candidates, k.adjudications, Len(k.adjudications), c)
                         /\ \A i \in DOMAIN k.adjudications : k.adjudications[i].claim = c =>
                              /\ k.adjudications[i].previous
                                   = StatusAfter(candidates, k.adjudications, i - 1, c)
                              /\ \A j \in 1..(i - 1) : k.adjudications[j].claim = c =>
                                   k.adjudications[j].resulting \notin Terminal
    BY DEF AdjudicationsReplay
  <2> DEFINE st == Candidates(Claims(k))
             xs == k.adjudications
  <2>1. k \in Case /\ Replays(k)
    BY <1>1, AllCases
  <2>2. xs \in Seq(Adjudication) /\ Len(xs) \in Nat /\ DOMAIN xs = 1..Len(xs)
    BY <2>1, CaseIs
  <2>3. k.status[c] = StatusAfter(st, xs, Len(xs), c)
    BY <2>1 DEF Replays
  <2>4. \A i \in DOMAIN xs : xs[i].claim = c =>
          xs[i].previous = StatusAfter(st, xs, i - 1, c) /\ xs[i].previous \notin Terminal
    BY <2>1 DEF Replays
  <2> HIDE DEF st, xs
  <2>5. ASSUME NEW i \in DOMAIN xs, xs[i].claim = c,
               NEW j \in 1..(i - 1), xs[j].claim = c
        PROVE  xs[j].resulting \notin Terminal
    <3> DEFINE T == {l \in 1..Len(xs) : l > j /\ xs[l].claim = c}
    <3>1. T \in SUBSET Nat /\ i \in T /\ j \in Nat
      BY <2>2, <2>5
    <3>2. PICK l \in T : \A y \in T : l <= y
      BY <3>1, MinExists
    <3>3. /\ l \in 1..Len(xs) /\ l > j /\ xs[l].claim = c /\ l - 1 \in Nat
          /\ j \in 1..(l - 1)
      BY <3>1, <3>2, <2>2, <2>5
    <3>4. \A y \in 1..(l - 1) : y \in 1..Len(xs) /\ ~(l <= y)
      BY <2>2, <3>3
    <3>5. \A y \in Mine(xs, l - 1, c) : y \in 1..(l - 1) /\ y \notin T /\ xs[y].claim = c
      BY <3>2, <3>4 DEF Mine
    <3>6. \A y \in Mine(xs, l - 1, c) : j >= y
      BY <3>3, <3>4, <3>5
    <3>7. j \in Mine(xs, l - 1, c) /\ Mine(xs, l - 1, c) \in SUBSET (1..(l - 1))
      BY <2>5, <3>3 DEF Mine
    <3> HIDE DEF T
    <3>8. Max(Mine(xs, l - 1, c)) = j
      BY <3>3, <3>6, <3>7, MaxIs
    <3>9. StatusAfter(st, xs, l - 1, c) = xs[j].resulting
      BY <3>7, <3>8, StatusAfterIs
    <3> QED BY <2>2, <2>4, <3>3, <3>9
  <2> QED BY <2>3, <2>4, <2>5 DEF st, xs, Candidates
<1> QED BY <1>1, CasesGood, PTL
==============================================================================
