----------------------------- MODULE Rbac_proofs -----------------------------
(***************************************************************************)
(* The access control service keeps its rules, its index and its table in  *)
(* step, answers checks as the table means, and clones exactly.            *)
(*                                                                         *)
(* Invariants, each proved with the help of those before it:               *)
(*   - Inv: types, and what rests on who shares rules: the pointers of a   *)
(*     call point to rules that are still there and keep their keys, those *)
(*     a clone is about to write through point to rules of its target, and *)
(*     who is in the middle of a grant has the lock;                       *)
(*   - Books: the table has what the rules say, and a flush under way has  *)
(*     taken what makes it so;                                             *)
(*   - Promises: nothing that was promised is waiting to be written or     *)
(*     deleted, so that no failure and no flush changes it, and what the   *)
(*     service lost track of stays lost until it is changed or reloaded;   *)
(*   - Current: while nobody clones, the index says what the rules say,    *)
(*     although it points to older objects;                                *)
(*   - Known: the table has no row of a key that has no rule in memory;    *)
(*   - Cloned: a clone has all the rules of its targets in hand and has    *)
(*     set them to inherit, or has merged what makes the table so.         *)
(*                                                                         *)
(* Sequences are picked from by rank, and levels are compared at the last  *)
(* reference where two patterns differ, so that no induction is needed:    *)
(* the ranks of a finite set of indices are the numbers up to its size.    *)
(***************************************************************************)
EXTENDS Rbac, FiniteSetTheorems, SequenceTheorems, TLAPS

-----------------------------------------------------------------------------
(* Sequences *)

\* Every element of a finite set of numbers has a rank, and every rank up to
\* its cardinality an element.
LEMMA Ranks ==
  ASSUME NEW m \in Nat, NEW I \in SUBSET (1..m)
  PROVE  /\ IsFiniteSet(I) /\ Cardinality(I) \in Nat
         /\ \A i \in I : Cardinality({j \in I : j <= i}) \in 1..Cardinality(I)
         /\ \A n \in 1..Cardinality(I) : \E i \in I : Cardinality({j \in I : j <= i}) = n
<1> DEFINE below(i) == {j \in I : j <= i}
           rank == [i \in I |-> Cardinality(below(i))]
           n == Cardinality(I)
<1>1. IsFiniteSet(I) /\ n \in Nat
  <2>1. IsFiniteSet(1..m) /\ I \subseteq 1..m
    BY FS_Interval
  <2>2. IsFiniteSet(I)
    BY <2>1, FS_Subset
  <2> QED
    BY <2>2, FS_CardinalityType
<1>2. ASSUME NEW i \in I
      PROVE  IsFiniteSet(below(i)) /\ Cardinality(below(i)) \in 1..n
  <2>1. below(i) \subseteq I /\ i \in below(i)
    OBVIOUS
  <2>2. IsFiniteSet(below(i)) /\ Cardinality(below(i)) <= n /\ Cardinality(below(i)) \in Nat
    BY <1>1, <2>1, FS_Subset, FS_CardinalityType
  <2>3. Cardinality(below(i)) # 0
    BY <2>1, <2>2, FS_EmptySet
  <2> QED
    BY <1>1, <2>2, <2>3
<1>3. ASSUME NEW i \in I, NEW j \in I, i < j
      PROVE  Cardinality(below(i)) < Cardinality(below(j))
  <2>1. below(i) \subseteq below(j) /\ j \in below(j) /\ j \notin below(i)
    <3>1. \A k \in I : k \in Nat
      OBVIOUS
    <3>2. \A k \in I : k <= i => k <= j
      BY <1>3, <3>1
    <3>3. j <= j /\ ~(j <= i)
      BY <1>3, <3>1
    <3> QED
      BY <3>2, <3>3
  <2>2. Cardinality(below(i)) <= Cardinality(below(j))
        /\ (Cardinality(below(i)) = Cardinality(below(j)) => below(i) = below(j))
    BY <1>2, <2>1, FS_Subset
  <2> QED
    BY <1>2, <2>1, <2>2
<1>4. rank \in Injection(I, 1..n)
  <2>1. rank \in [I -> 1..n]
    BY <1>2
  <2>2. ASSUME NEW i \in I, NEW j \in I, rank[i] = rank[j] PROVE i = j
    <3>1. i \in Nat /\ j \in Nat /\ Cardinality(below(i)) \in Nat /\ Cardinality(below(j)) \in Nat
      BY <1>2
    <3>2. ~(i < j) /\ ~(j < i)
      BY <1>3, <2>2, <3>1
    <3> QED
      BY <3>1, <3>2
  <2> HIDE DEF rank
  <2> QED
    BY <2>1, <2>2 DEF Injection, IsInjective
<1>5. IsFiniteSet(1..n) /\ Cardinality(1..n) = n
  BY <1>1, FS_Interval
<1> HIDE DEF rank
<1>6. rank \in Surjection(I, 1..n)
  BY <1>1, <1>4, <1>5, FS_Injection
<1>7. \A k \in 1..n : \E i \in I : rank[i] = k
  BY <1>6 DEF Surjection
<1> QED
  BY <1>1, <1>2, <1>7 DEF rank

\* A set of indices that is not empty has a greatest one.
LEMMA Greatest ==
  ASSUME NEW m \in Nat, NEW I \in SUBSET (1..m), I # {}
  PROVE  \E i \in I : \A j \in I : j <= i
<1>1. IsFiniteSet(I) /\ Cardinality(I) \in Nat /\ Cardinality(I) # 0
  BY Ranks, FS_EmptySet
<1>2. PICK i \in I : Cardinality({j \in I : j <= i}) = Cardinality(I)
  <2>1. Cardinality(I) \in 1..Cardinality(I)
    BY <1>1
  <2> QED
    BY <2>1, Ranks
<1>3. {j \in I : j <= i} = I
  <2> DEFINE b == {j \in I : j <= i}
  <2>1. b \subseteq I
    OBVIOUS
  <2> HIDE DEF b
  <2>2. Cardinality(b) = Cardinality(I) => b = I
    BY <1>1, <2>1, FS_Subset
  <2> QED
    BY <1>2, <2>2 DEF b
<1> QED
  BY <1>3

\* What is picked are the members at the indices, and nothing else.
LEMMA Picking ==
  ASSUME NEW S, NEW s \in Seq(S), NEW I \in SUBSET (1..Len(s))
  PROVE  /\ Picked(s, I) \in Seq(S)
         /\ \A n \in 1..Len(Picked(s, I)) : \E i \in I : Picked(s, I)[n] = s[i]
         /\ \A i \in I : \E n \in 1..Len(Picked(s, I)) : Picked(s, I)[n] = s[i]
         /\ \A n, o \in 1..Len(Picked(s, I)) : n # o =>
               \E i, j \in I : i # j /\ Picked(s, I)[n] = s[i] /\ Picked(s, I)[o] = s[j]
<1> DEFINE rank(i) == Cardinality({j \in I : j <= i})
           m == Cardinality(I)
           at(n) == CHOOSE i \in I : rank(i) = n
<1>1. /\ m \in Nat /\ \A i \in I : rank(i) \in 1..m
      /\ \A n \in 1..m : \E i \in I : rank(i) = n
      /\ IsFiniteSet(I)
  <2>1. Len(s) \in Nat
    OBVIOUS
  <2> QED
    BY <2>1, Ranks
<1>2. Picked(s, I) = [n \in 1..m |-> s[at(n)]]
  BY DEF Picked
<1>3. \A n \in 1..m : at(n) \in I /\ rank(at(n)) = n
  BY <1>1
<1>4. ASSUME NEW i \in I, NEW j \in I, i < j PROVE rank(i) # rank(j)
  <2> DEFINE b(x) == {y \in I : y <= x}
  <2>1. b(i) \subseteq b(j) /\ j \in b(j) /\ j \notin b(i) /\ IsFiniteSet(b(j))
    <3>1. \A x \in I : x \in Nat
      OBVIOUS
    <3>2. b(j) \subseteq I
      OBVIOUS
    <3>3. IsFiniteSet(b(j))
      BY <1>1, <3>2, FS_Subset
    <3>4. \A x \in I : x <= i => x <= j
      BY <1>4, <3>1
    <3>5. j <= j /\ ~(j <= i)
      BY <1>4, <3>1
    <3> QED
      BY <3>3, <3>4, <3>5
  <2>2. Cardinality(b(i)) = Cardinality(b(j)) => b(i) = b(j)
    BY <2>1, FS_Subset
  <2> QED
    BY <2>1, <2>2
<1> HIDE DEF rank, at, m
<1>5. \A i \in I : i \in 1..Len(s) /\ s[i] \in S /\ i \in Nat
  OBVIOUS
<1>6. \A i \in I : at(rank(i)) = i
  <2> SUFFICES ASSUME NEW i \in I PROVE at(rank(i)) = i
    OBVIOUS
  <2>1. rank(i) \in 1..m /\ at(rank(i)) \in I /\ rank(at(rank(i))) = rank(i)
    BY <1>1, <1>3
  <2> DEFINE a == at(rank(i))
  <2>2. a \in I /\ rank(a) = rank(i)
    BY <2>1
  <2> HIDE DEF a
  <2>3. ~(a < i) /\ ~(i < a)
    BY <1>4, <2>2
  <2>4. a = i
    BY <1>5, <2>2, <2>3
  <2> QED
    BY <2>4 DEF a
<1> DEFINE p == Picked(s, I)
<1>7. p \in [1..m -> S]
  BY <1>2, <1>3, <1>5
<1>8. p \in Seq(S) /\ Len(p) = m
  <2> HIDE DEF p
  <2> QED
    BY <1>1, <1>7
<1>9. \A n \in 1..m : p[n] = s[at(n)]
  BY <1>2
<1> HIDE DEF p
<1>10. \A n \in 1..Len(p) : \E i \in I : p[n] = s[i]
  BY <1>3, <1>8, <1>9
<1>11. \A i \in I : \E n \in 1..Len(p) : p[n] = s[i]
  BY <1>1, <1>6, <1>8, <1>9
<1>12. \A n, o \in 1..Len(p) : n # o => \E i, j \in I : i # j /\ p[n] = s[i] /\ p[o] = s[j]
  <2> SUFFICES ASSUME NEW n \in 1..Len(p), NEW o \in 1..Len(p), n # o
               PROVE  \E i, j \in I : i # j /\ p[n] = s[i] /\ p[o] = s[j]
    OBVIOUS
  <2>1. n \in 1..m /\ o \in 1..m
    BY <1>8
  <2>2. at(n) \in I /\ at(o) \in I /\ at(n) # at(o)
    BY <1>3, <2>1
  <2> QED
    BY <1>9, <2>1, <2>2
<1> QED
  BY <1>8, <1>10, <1>11, <1>12 DEF p

\* A concatenation has the members of both.
LEMMA Joined ==
  ASSUME NEW S, NEW a \in Seq(S), NEW b \in Seq(S)
  PROVE  /\ a \o b \in Seq(S) /\ Len(a \o b) = Len(a) + Len(b)
         /\ Len(a) \in Nat /\ Len(b) \in Nat
         /\ \A i \in 1..Len(a) : (a \o b)[i] = a[i] /\ i \in 1..Len(a \o b)
         /\ \A i \in 1..Len(b) : (a \o b)[Len(a) + i] = b[i] /\ Len(a) + i \in 1..Len(a \o b)
         /\ \A i \in 1..Len(a \o b) : i \notin 1..Len(a) =>
               i - Len(a) \in 1..Len(b) /\ (a \o b)[i] = b[i - Len(a)]
<1>1. Len(a) \in Nat /\ Len(b) \in Nat
  OBVIOUS
<1>2. a \o b \in Seq(S) /\ Len(a \o b) = Len(a) + Len(b)
      /\ \A i \in 1..(Len(a) + Len(b)) : (a \o b)[i] = IF i <= Len(a) THEN a[i] ELSE b[i - Len(a)]
  BY ConcatProperties
<1>3. \A i \in 1..Len(a) : (a \o b)[i] = a[i] /\ i \in 1..Len(a \o b)
  BY <1>1, <1>2
<1>4. ASSUME NEW i \in 1..Len(b)
      PROVE  (a \o b)[Len(a) + i] = b[i] /\ Len(a) + i \in 1..Len(a \o b)
  <2> DEFINE k == Len(a) + i
  <2>1. k \in 1..(Len(a) + Len(b)) /\ ~(k <= Len(a)) /\ k - Len(a) = i
    BY <1>1
  <2> HIDE DEF k
  <2>2. (a \o b)[k] = b[i] /\ k \in 1..Len(a \o b)
    BY <1>2, <2>1
  <2> QED
    BY <2>2 DEF k
<1>5. \A i \in 1..Len(a \o b) : i \notin 1..Len(a) =>
         i - Len(a) \in 1..Len(b) /\ (a \o b)[i] = b[i - Len(a)]
  BY <1>1, <1>2
<1> QED
  BY <1>1, <1>2, <1>3, <1>4, <1>5

-----------------------------------------------------------------------------
(* The table *)

\* The value of a row after the first n statements is the one before, or that
\* of one of their rules.
LEMMA Upserting ==
  ASSUME NEW st, NEW rs \in Seq(Rule), NEW n \in 0..Len(rs), NEW k \in Key
  PROVE  \/ /\ Upserted(st, rs, n)[k] = st[k]
            /\ \A i \in 1..n : rs[i].key # k
         \/ \E i \in 1..n : /\ rs[i].key = k
                            /\ Upserted(st, rs, n)[k] = rs[i].access
<1> DEFINE hits == {i \in 1..n : rs[i].key = k}
           last == CHOOSE i \in hits : \A j \in hits : j <= i
<1>1. Upserted(st, rs, n)[k] = IF hits = {} THEN st[k] ELSE rs[last].access
  BY DEF Upserted
<1>2. CASE hits = {}
  BY <1>1, <1>2
<1>3. CASE hits # {}
  <2>1. n \in Nat /\ hits \subseteq 1..n
    OBVIOUS
  <2>2. \E i \in hits : \A j \in hits : j <= i
    <3> HIDE DEF hits
    <3> QED
      BY <1>3, <2>1, Greatest
  <2>3. last \in hits
    BY <2>2
  <2> QED
    BY <1>1, <1>3, <2>3
<1> QED
  BY <1>2, <1>3

LEMMA Deleting ==
  ASSUME NEW st, NEW rs, NEW n, NEW k \in Key
  PROVE  \/ Deleted(st, rs, n)[k] = st[k] /\ \A i \in 1..n : rs[i].key # k
         \/ Deleted(st, rs, n)[k] = Unset /\ \E i \in 1..n : rs[i].key = k
BY DEF Deleted

\* The rules that a reload reads are those of the table, each once.
LEMMA Storing ==
  ASSUME NEW st, \A k \in Key : st[k] \in Access \cup {Unset}
  PROVE  LET rs == Stored(st)
         IN  /\ rs \in Seq(Rule)
             /\ \A i \in 1..Len(rs) : /\ rs[i].key \in Key /\ st[rs[i].key] # Unset
                                      /\ rs[i].access = st[rs[i].key] /\ ~rs[i].dirty
             /\ \A k \in Key : st[k] # Unset => \E i \in 1..Len(rs) : rs[i].key = k
             /\ \A i, j \in 1..Len(rs) : rs[i].key = rs[j].key => i = j
<1> DEFINE S == {k \in Key : st[k] # Unset}
           n == Cardinality(S)
           ks == SetToSeq(S)
           rs == Stored(st)
<1>1. IsFiniteSet(S) /\ n \in Nat
  BY KeyAssumption, FS_Subset, FS_CardinalityType
<1>2. IsFiniteSet(1..n) /\ Cardinality(1..n) = n
  BY <1>1, FS_Interval
<1>3. PICK f \in Bijection(1..n, S) : TRUE
  BY <1>1, FS_CardinalityType DEF ExistsBijection
<1> HIDE DEF n, S
<1>4. f \in [1..n -> S] /\ IsInjective(f)
  BY <1>3 DEF Bijection, Injection, IsInjective
<1>5. ks \in [1..n -> S] /\ IsInjective(ks)
  BY <1>4 DEF SetToSeq, n
<1> HIDE DEF ks
<1>6. ks \in Injection(1..n, S)
  BY <1>5 DEF Injection, IsInjective
<1>7. ks \in Surjection(1..n, S)
  BY <1>1, <1>2, <1>6, FS_Injection DEF n
<1>8. \A k \in S : \E i \in 1..n : ks[i] = k
  BY <1>7 DEF Surjection
<1>9. ks \in Seq(S) /\ Len(ks) = n
  BY <1>1, <1>5
<1>10. rs = [i \in 1..n |-> [key |-> ks[i], access |-> st[ks[i]], dirty |-> FALSE]]
  BY <1>9 DEF Stored, ks, S
<1>11. \A k \in S : k \in Key /\ st[k] \in Access /\ st[k] # Unset
  BY DEF S
<1>12. rs \in [1..n -> Rule]
  BY <1>5, <1>10, <1>11 DEF Rule
<1> HIDE DEF rs
<1>13. rs \in Seq(Rule) /\ Len(rs) = n
  BY <1>1, <1>12
<1>14. \A i \in 1..n : /\ ks[i] \in S /\ rs[i].key = ks[i]
                       /\ rs[i].access = st[ks[i]] /\ rs[i].dirty = FALSE
  BY <1>5, <1>10
<1>15. \A i, j \in 1..n : ks[i] = ks[j] => i = j
  BY <1>5 DEF IsInjective
<1>16. \A k \in Key : st[k] # Unset => \E i \in 1..n : ks[i] = k
  BY <1>8 DEF S
<1>17. /\ rs \in Seq(Rule)
       /\ \A i \in 1..Len(rs) : /\ rs[i].key \in Key /\ st[rs[i].key] # Unset
                                /\ rs[i].access = st[rs[i].key] /\ ~rs[i].dirty
       /\ \A k \in Key : st[k] # Unset => \E i \in 1..Len(rs) : rs[i].key = k
       /\ \A i, j \in 1..Len(rs) : rs[i].key = rs[j].key => i = j
  BY <1>11, <1>13, <1>14, <1>15, <1>16
<1> QED
  BY <1>17 DEF rs

-----------------------------------------------------------------------------
(* merge and flushable *)

LEMMA Overwriting ==
  ASSUME NEW r \in Rule, NEW hits \in Seq(Rule)
  PROVE  /\ Overwritten(r, hits) \in Rule /\ Overwritten(r, hits).key = r.key
         /\ hits = <<>> => Overwritten(r, hits) = r
<1>1. CASE hits = <<>>
  BY <1>1 DEF Overwritten
<1>2. CASE hits # <<>>
  <2> DEFINE before == IF Len(hits) = 1 THEN r.access ELSE hits[Len(hits) - 1].access
  <2>1. Last(hits) \in Rule
    BY <1>2 DEF Last
  <2>2. Overwritten(r, hits) = [r EXCEPT !.access = Last(hits).access,
                                         !.dirty  = before # Last(hits).access]
    BY <1>2 DEF Overwritten
  <2>3. (before # Last(hits).access) \in BOOLEAN
    OBVIOUS
  <2> HIDE DEF before
  <2> QED
    BY <1>2, <2>1, <2>2, <2>3 DEF Rule
<1> QED
  BY <1>1, <1>2

\* What a merge consists of: the rules of the base, the first one of each key
\* overwritten by the new ones of that key, and the new ones of other keys.
LEMMA Merged ==
  ASSUME NEW base \in Seq(Rule), NEW new \in Seq(Rule)
  PROVE  LET m == merge(base, new)
         IN  /\ m \in Seq(Rule) /\ Len(m) \in Nat /\ Len(base) \in Nat /\ Len(m) >= Len(base)
             /\ \A i \in 1..Len(base) :
                   m[i] = IF \A j \in 1..(i - 1) : base[j].key # base[i].key
                          THEN Overwritten(base[i], Picked(new, {n \in 1..Len(new) : new[n].key = base[i].key}))
                          ELSE base[i]
             /\ \A i \in 1..Len(m) : i \notin 1..Len(base) =>
                   \E n \in 1..Len(new) : /\ new[n].key \notin KeysOf(base)
                                          /\ m[i] = [new[n] EXCEPT !.dirty = TRUE]
             /\ \A n \in 1..Len(new) : new[n].key \notin KeysOf(base) =>
                   \E i \in 1..Len(m) : m[i] = [new[n] EXCEPT !.dirty = TRUE]
             /\ \A i \in 1..Len(base) : /\ m[i].key = base[i].key
                                        /\ base[i].key \notin KeysOf(new) => m[i] = base[i]
<1> DEFINE m == merge(base, new)
           first(i) == \A j \in 1..(i - 1) : base[j].key # base[i].key
           I(i) == {n \in 1..Len(new) : new[n].key = base[i].key}
           a == [i \in 1..Len(base) |-> IF first(i) THEN Overwritten(base[i], Picked(new, I(i))) ELSE base[i]]
           marked == [n \in 1..Len(new) |-> [new[n] EXCEPT !.dirty = TRUE]]
           J == {n \in 1..Len(new) : new[n].key \notin KeysOf(base)}
           b == Picked(marked, J)
<1>1. m = a \o b
  BY DEF merge
<1>2. Len(base) \in Nat /\ Len(new) \in Nat
  OBVIOUS
<1>3. ASSUME NEW i \in 1..Len(base)
      PROVE  /\ a[i] \in Rule /\ a[i].key = base[i].key
             /\ base[i].key \notin KeysOf(new) => a[i] = base[i]
  <2> DEFINE hits == Picked(new, I(i))
  <2>1. base[i] \in Rule
    OBVIOUS
  <2>2. I(i) \in SUBSET (1..Len(new))
    OBVIOUS
  <2>3. hits \in Seq(Rule)
    BY <2>2, Picking
  <2>4. a[i] = IF first(i) THEN Overwritten(base[i], hits) ELSE base[i]
    OBVIOUS
  <2>5. ASSUME base[i].key \notin KeysOf(new) PROVE hits = <<>>
    <3>1. I(i) = {}
      BY <2>5 DEF KeysOf
    <3> HIDE DEF I
    <3>2. Cardinality(I(i)) = 0
      BY <3>1, FS_EmptySet
    <3> QED
      BY <3>2 DEF Picked
  <2> HIDE DEF hits, a, first, I
  <2> QED
    BY <2>1, <2>3, <2>4, <2>5, Overwriting
<1>4. a \in Seq(Rule) /\ Len(a) = Len(base)
  <2>1. a \in [1..Len(base) -> Rule]
    <3>1. a = [i \in 1..Len(base) |-> a[i]]
      OBVIOUS
    <3> HIDE DEF a
    <3> QED
      BY <1>3, <3>1
  <2> HIDE DEF a
  <2> QED
    BY <1>2, <2>1
<1>5. ASSUME NEW n \in 1..Len(new)
      PROVE  marked[n] \in Rule /\ marked[n].key = new[n].key /\ marked[n].dirty = TRUE
  <2>1. new[n] \in Rule /\ marked[n] = [new[n] EXCEPT !.dirty = TRUE]
    OBVIOUS
  <2> HIDE DEF marked
  <2> QED
    BY <2>1 DEF Rule
<1>6. marked \in Seq(Rule) /\ Len(marked) = Len(new)
  <2>1. marked = [n \in 1..Len(new) |-> marked[n]]
    OBVIOUS
  <2> HIDE DEF marked
  <2>2. marked \in [1..Len(new) -> Rule]
    BY <1>5, <2>1
  <2> QED
    BY <1>2, <2>2
<1>7. J \in SUBSET (1..Len(marked))
  <2> HIDE DEF marked
  <2> QED
    BY <1>6
<1>8. /\ b \in Seq(Rule) /\ \A n \in 1..Len(b) : \E j \in J : b[n] = marked[j]
      /\ \A j \in J : \E n \in 1..Len(b) : b[n] = marked[j]
  <2> HIDE DEF marked, J
  <2> QED
    BY <1>6, <1>7, Picking
<1>9. \A n \in 1..Len(new) : new[n].key \notin KeysOf(base) => n \in J
  OBVIOUS
<1>12. \A n \in J : n \in 1..Len(new) /\ new[n].key \notin KeysOf(base)
  OBVIOUS
<1>13. \A i \in 1..Len(base) :
          a[i] = IF \A j \in 1..(i - 1) : base[j].key # base[i].key
                 THEN Overwritten(base[i], Picked(new, {n \in 1..Len(new) : new[n].key = base[i].key}))
                 ELSE base[i]
  OBVIOUS
<1>14. \A n \in 1..Len(new) : marked[n] = [new[n] EXCEPT !.dirty = TRUE]
  OBVIOUS
<1> HIDE DEF a, b, m, marked, first, J, I
<1>10. /\ m \in Seq(Rule) /\ Len(m) = Len(a) + Len(b) /\ Len(b) \in Nat
       /\ \A i \in 1..Len(a) : m[i] = a[i]
       /\ \A i \in 1..Len(b) : m[Len(a) + i] = b[i] /\ Len(a) + i \in 1..Len(m)
       /\ \A i \in 1..Len(m) : i \notin 1..Len(a) => i - Len(a) \in 1..Len(b) /\ m[i] = b[i - Len(a)]
  <2>1. a \in Seq(Rule) /\ b \in Seq(Rule)
    BY <1>4, <1>8
  <2>2. a \o b \in Seq(Rule) /\ Len(a \o b) = Len(a) + Len(b) /\ Len(b) \in Nat
    BY <2>1, Joined
  <2>3. \A i \in 1..Len(a) : (a \o b)[i] = a[i]
    BY <2>1, Joined
  <2>4. \A i \in 1..Len(a \o b) : i \notin 1..Len(a) =>
           i - Len(a) \in 1..Len(b) /\ (a \o b)[i] = b[i - Len(a)]
    BY <2>1, Joined
  <2>5. \A i \in 1..Len(b) : (a \o b)[Len(a) + i] = b[i] /\ Len(a) + i \in 1..Len(a \o b)
    BY <2>1, Joined
  <2> QED
    BY <1>1, <2>2, <2>3, <2>4, <2>5
<1>11. Len(m) \in Nat /\ Len(m) >= Len(base)
  BY <1>2, <1>4, <1>10
<1>15. \A i \in 1..Len(base) :
          m[i] = IF \A j \in 1..(i - 1) : base[j].key # base[i].key
                 THEN Overwritten(base[i], Picked(new, {n \in 1..Len(new) : new[n].key = base[i].key}))
                 ELSE base[i]
  BY <1>4, <1>10, <1>13
<1>16. ASSUME NEW i \in 1..Len(m), i \notin 1..Len(base)
       PROVE  \E n \in 1..Len(new) : new[n].key \notin KeysOf(base) /\ m[i] = [new[n] EXCEPT !.dirty = TRUE]
  <2>1. i - Len(a) \in 1..Len(b) /\ m[i] = b[i - Len(a)]
    BY <1>4, <1>10, <1>16
  <2>2. PICK n \in J : b[i - Len(a)] = marked[n]
    BY <1>8, <2>1
  <2> QED
    BY <1>12, <1>14, <2>1, <2>2
<1>17. ASSUME NEW n \in 1..Len(new), new[n].key \notin KeysOf(base)
       PROVE  \E i \in 1..Len(m) : m[i] = [new[n] EXCEPT !.dirty = TRUE]
  <2>1. PICK i \in 1..Len(b) : b[i] = marked[n]
    BY <1>8, <1>9, <1>17
  <2> DEFINE l == Len(a) + i
  <2>2. m[l] = b[i] /\ l \in 1..Len(m)
    BY <1>10
  <2> HIDE DEF l
  <2> QED
    BY <1>14, <2>1, <2>2
<1>18. \A i \in 1..Len(base) : /\ m[i].key = base[i].key
                               /\ base[i].key \notin KeysOf(new) => m[i] = base[i]
  BY <1>3, <1>4, <1>10
<1> QED
  BY <1>2, <1>10, <1>11, <1>15, <1>16, <1>17, <1>18 DEF m

\* Merging changes the rules that the new ones name and appends the others.
LEMMA Merging ==
  ASSUME NEW base \in Seq(Rule), NEW new \in Seq(Rule)
  PROVE  LET m == merge(base, new)
         IN  /\ m \in Seq(Rule) /\ Len(m) \in Nat /\ Len(base) \in Nat /\ Len(m) >= Len(base)
             /\ \A i \in 1..Len(base) :
                   /\ m[i].key = base[i].key
                   /\ base[i].key \notin KeysOf(new) => m[i] = base[i]
             /\ \A i \in 1..Len(m) : i \notin 1..Len(base) =>
                   m[i].key \in KeysOf(new) \ KeysOf(base) /\ m[i].dirty
             /\ KeysOf(new) \subseteq KeysOf(m)
<1> DEFINE m == merge(base, new)
           dirtied(r) == [r EXCEPT !.dirty = TRUE]
<1>1. \A r \in Rule : dirtied(r) \in Rule /\ dirtied(r).key = r.key /\ dirtied(r).dirty
  BY DEF Rule
<1>2. /\ m \in Seq(Rule) /\ Len(m) \in Nat /\ Len(base) \in Nat /\ Len(m) >= Len(base)
      /\ \A i \in 1..Len(base) : /\ m[i].key = base[i].key
                                 /\ base[i].key \notin KeysOf(new) => m[i] = base[i]
      /\ \A i \in 1..Len(m) : i \notin 1..Len(base) =>
            \E n \in 1..Len(new) : new[n].key \notin KeysOf(base) /\ m[i] = dirtied(new[n])
      /\ \A n \in 1..Len(new) : new[n].key \notin KeysOf(base) =>
            \E i \in 1..Len(m) : m[i] = dirtied(new[n])
  BY Merged
<1>3. \A n \in 1..Len(new) : new[n] \in Rule
  OBVIOUS
<1> HIDE DEF m, dirtied
<1>4. ASSUME NEW i \in 1..Len(m), i \notin 1..Len(base)
      PROVE  m[i].key \in KeysOf(new) \ KeysOf(base) /\ m[i].dirty
  <2>1. PICK n \in 1..Len(new) : new[n].key \notin KeysOf(base) /\ m[i] = dirtied(new[n])
    BY <1>2, <1>4
  <2>2. new[n].key \in KeysOf(new)
    BY DEF KeysOf
  <2> QED
    BY <1>1, <1>3, <2>1, <2>2
<1>5. ASSUME NEW n \in 1..Len(new) PROVE \E i \in 1..Len(m) : m[i].key = new[n].key
  <2>1. CASE new[n].key \in KeysOf(base)
    <3>1. PICK i \in 1..Len(base) : base[i].key = new[n].key
      BY <2>1 DEF KeysOf
    <3>2. i \in 1..Len(m)
      BY <1>2
    <3> QED
      BY <1>2, <3>1, <3>2
  <2>2. CASE new[n].key \notin KeysOf(base)
    BY <1>1, <1>2, <1>3, <2>2
  <2> QED
    BY <2>1, <2>2
<1>6. KeysOf(new) \subseteq KeysOf(m)
  BY <1>5 DEF KeysOf
<1> QED
  BY <1>2, <1>4, <1>6 DEF m

\* What a flush deletes, writes and keeps.
LEMMA Flushing ==
  ASSUME NEW set \in Seq(Rule)
  PROVE  /\ deletable(set) \in Seq(Rule) /\ updatable(set) \in Seq(Rule) /\ final(set) \in Seq(Rule)
         /\ \A d \in 1..Len(deletable(set)) : \E i \in 1..Len(set) :
               deletable(set)[d] = set[i] /\ set[i].access = "Inherit"
         /\ \A i \in 1..Len(set) : set[i].access = "Inherit" =>
               \E d \in 1..Len(deletable(set)) : deletable(set)[d] = set[i]
         /\ \A u \in 1..Len(updatable(set)) : \E i \in 1..Len(set) :
               updatable(set)[u] = set[i] /\ set[i].access # "Inherit" /\ set[i].dirty
         /\ \A i \in 1..Len(set) : set[i].access # "Inherit" /\ set[i].dirty =>
               \E u \in 1..Len(updatable(set)) : updatable(set)[u] = set[i]
         /\ \A f \in 1..Len(final(set)) : \E i \in 1..Len(set) :
               /\ final(set)[f].key = set[i].key /\ final(set)[f].access = set[i].access
               /\ set[i].access # "Inherit" /\ ~final(set)[f].dirty
         /\ \A i \in 1..Len(set) : set[i].access # "Inherit" =>
               \E f \in 1..Len(final(set)) :
                  final(set)[f].key = set[i].key /\ final(set)[f].access = set[i].access
         /\ \A f, g \in 1..Len(final(set)) : f # g =>
               \E i, o \in 1..Len(set) : /\ i # o /\ set[i].access # "Inherit"
                                         /\ final(set)[f].key = set[i].key /\ final(set)[g].key = set[o].key
<1> DEFINE D == {i \in 1..Len(set) : set[i].access = "Inherit"}
           U == {i \in 1..Len(set) : set[i].access # "Inherit" /\ set[i].dirty}
           K == {i \in 1..Len(set) : set[i].access # "Inherit"}
           kept == Picked(set, K)
           fin == [i \in 1..Len(kept) |-> [kept[i] EXCEPT !.dirty = FALSE]]
<1>1. D \in SUBSET (1..Len(set)) /\ U \in SUBSET (1..Len(set)) /\ K \in SUBSET (1..Len(set))
  OBVIOUS
<1>2. deletable(set) = Picked(set, D) /\ updatable(set) = Picked(set, U) /\ final(set) = fin
  BY DEF deletable, updatable, final
<1>3. /\ \A i \in D : i \in 1..Len(set) /\ set[i].access = "Inherit"
      /\ \A i \in 1..Len(set) : set[i].access = "Inherit" => i \in D
  OBVIOUS
<1>4. /\ \A i \in U : i \in 1..Len(set) /\ set[i].access # "Inherit" /\ set[i].dirty
      /\ \A i \in 1..Len(set) : set[i].access # "Inherit" /\ set[i].dirty => i \in U
  OBVIOUS
<1>5. /\ \A i \in K : i \in 1..Len(set) /\ set[i].access # "Inherit"
      /\ \A i \in 1..Len(set) : set[i].access # "Inherit" => i \in K
  OBVIOUS
<1> HIDE DEF D, U, K
<1>6. /\ deletable(set) \in Seq(Rule)
      /\ \A d \in 1..Len(deletable(set)) : \E i \in D : deletable(set)[d] = set[i]
      /\ \A i \in D : \E d \in 1..Len(deletable(set)) : deletable(set)[d] = set[i]
  BY <1>1, <1>2, Picking
<1>7. /\ updatable(set) \in Seq(Rule)
      /\ \A d \in 1..Len(updatable(set)) : \E i \in U : updatable(set)[d] = set[i]
      /\ \A i \in U : \E d \in 1..Len(updatable(set)) : updatable(set)[d] = set[i]
  BY <1>1, <1>2, Picking
<1>8. /\ kept \in Seq(Rule)
      /\ \A d \in 1..Len(kept) : \E i \in K : kept[d] = set[i]
      /\ \A i \in K : \E d \in 1..Len(kept) : kept[d] = set[i]
      /\ \A f, g \in 1..Len(kept) : f # g => \E i, o \in K : i # o /\ kept[f] = set[i] /\ kept[g] = set[o]
  BY <1>1, Picking
<1> HIDE DEF kept
<1>9. \A i \in 1..Len(kept) : /\ fin[i] \in Rule /\ fin[i].key = kept[i].key
                              /\ fin[i].access = kept[i].access /\ fin[i].dirty = FALSE
  <2> SUFFICES ASSUME NEW i \in 1..Len(kept)
               PROVE  /\ fin[i] \in Rule /\ fin[i].key = kept[i].key
                      /\ fin[i].access = kept[i].access /\ fin[i].dirty = FALSE
    OBVIOUS
  <2>1. kept[i] \in Rule /\ fin[i] = [kept[i] EXCEPT !.dirty = FALSE]
    BY <1>8
  <2> HIDE DEF fin
  <2> QED
    BY <2>1 DEF Rule
<1>10. fin \in Seq(Rule) /\ Len(fin) = Len(kept)
  <2>1. fin = [i \in 1..Len(kept) |-> fin[i]]
    OBVIOUS
  <2>2. Len(kept) \in Nat
    BY <1>8
  <2> HIDE DEF fin
  <2>3. fin \in [1..Len(kept) -> Rule]
    BY <1>9, <2>1
  <2> QED
    BY <2>2, <2>3
<1> HIDE DEF fin
<1>11. \A f \in 1..Len(fin) : \E i \in 1..Len(set) :
          /\ fin[f].key = set[i].key /\ fin[f].access = set[i].access
          /\ set[i].access # "Inherit" /\ ~fin[f].dirty
  <2> SUFFICES ASSUME NEW f \in 1..Len(fin)
               PROVE  \E i \in 1..Len(set) :
                         /\ fin[f].key = set[i].key /\ fin[f].access = set[i].access
                         /\ set[i].access # "Inherit" /\ ~fin[f].dirty
    OBVIOUS
  <2>1. f \in 1..Len(kept)
    BY <1>10
  <2>2. PICK i \in K : kept[f] = set[i]
    BY <1>8, <2>1
  <2>3. i \in 1..Len(set) /\ set[i].access # "Inherit"
    BY <1>5
  <2>4. fin[f].key = set[i].key /\ fin[f].access = set[i].access /\ fin[f].dirty = FALSE
    BY <1>9, <2>1, <2>2
  <2> QED
    BY <2>3, <2>4
<1>12. \A i \in 1..Len(set) : set[i].access # "Inherit" =>
          \E f \in 1..Len(fin) : fin[f].key = set[i].key /\ fin[f].access = set[i].access
  <2> SUFFICES ASSUME NEW i \in 1..Len(set), set[i].access # "Inherit"
               PROVE  \E f \in 1..Len(fin) : fin[f].key = set[i].key /\ fin[f].access = set[i].access
    OBVIOUS
  <2>1. PICK f \in 1..Len(kept) : kept[f] = set[i]
    BY <1>5, <1>8
  <2>2. fin[f].key = set[i].key /\ fin[f].access = set[i].access /\ f \in 1..Len(fin)
    BY <1>9, <1>10, <2>1
  <2> QED
    BY <2>2
<1>15. \A f, g \in 1..Len(fin) : f # g =>
          \E i, o \in 1..Len(set) : /\ i # o /\ set[i].access # "Inherit"
                                    /\ fin[f].key = set[i].key /\ fin[g].key = set[o].key
  <2> SUFFICES ASSUME NEW f \in 1..Len(fin), NEW g \in 1..Len(fin), f # g
               PROVE  \E i, o \in 1..Len(set) : /\ i # o /\ set[i].access # "Inherit"
                                                /\ fin[f].key = set[i].key /\ fin[g].key = set[o].key
    OBVIOUS
  <2>1. f \in 1..Len(kept) /\ g \in 1..Len(kept)
    BY <1>10
  <2>2. PICK i \in K, o \in K : i # o /\ kept[f] = set[i] /\ kept[g] = set[o]
    BY <1>8, <2>1
  <2>3. i \in 1..Len(set) /\ o \in 1..Len(set) /\ set[i].access # "Inherit"
    BY <1>5
  <2> QED
    BY <1>9, <2>1, <2>2, <2>3
<1>13. /\ \A d \in 1..Len(deletable(set)) : \E i \in 1..Len(set) :
             deletable(set)[d] = set[i] /\ set[i].access = "Inherit"
       /\ \A i \in 1..Len(set) : set[i].access = "Inherit" =>
             \E d \in 1..Len(deletable(set)) : deletable(set)[d] = set[i]
  BY <1>3, <1>6
<1>14. /\ \A u \in 1..Len(updatable(set)) : \E i \in 1..Len(set) :
             updatable(set)[u] = set[i] /\ set[i].access # "Inherit" /\ set[i].dirty
       /\ \A i \in 1..Len(set) : set[i].access # "Inherit" /\ set[i].dirty =>
             \E u \in 1..Len(updatable(set)) : updatable(set)[u] = set[i]
  BY <1>4, <1>7
<1> QED
  BY <1>2, <1>6, <1>7, <1>10, <1>11, <1>12, <1>13, <1>14, <1>15

-----------------------------------------------------------------------------
(* Pointers *)

Busy == {"flush", "delete", "upsert"}

Pointer == {Own(r) : r \in Rule} \cup {Shared(g, i) : g \in Generation, i \in Nat}

Job == [pc : {"idle", "find", "write", "flush", "delete", "upsert"},
        news : Seq(Pointer), from : Seq(Pointer), to : Seq(Role), existing : Seq(Pointer),
        deletable : Seq(Rule), updatable : Seq(Rule), final : Seq(Rule),
        clone : BOOLEAN, touched : SUBSET Key]

Heap == [Generation -> Seq(Rule)]

Types ==
    /\ heap \in Heap /\ rulesAt \in Generation /\ indexedAt \in Generation
    /\ roles \in Setups
    /\ store \in [Key -> Access \cup {Unset}]
    /\ lock \in Client \cup {NoClient}
    /\ job \in [Client -> Job]
    /\ calls \in 0..MaxCalls
    /\ promised \in [Key -> Access \cup {Unset}]
    /\ untracked \subseteq Key /\ foreign \subseteq Key

\* a pointer points to a rule that is still there
Valid(h, e)   == e.at # <<>> => e.at[2] \in 1..Len(h[e.at[1]])
ValidAt(h, s) == \A n \in 1..Len(s) : Valid(h, s[n])

\* what the pointers of a call point to
PointedAt(h, j) ==
    /\ ValidAt(h, j.news) /\ ValidAt(h, j.from) /\ ValidAt(h, j.existing)
    /\ j.pc = "write" => /\ j.to # <<>>
                         /\ \A n \in 1..Len(j.existing) :
                               /\ j.existing[n].at # <<>>
                               /\ h[j.existing[n].at[1]][j.existing[n].at[2]].key.role = Head(j.to)
    /\ j.pc # "write" => j.existing = <<>>
    /\ j.pc \in Busy => \A n \in 1..Len(j.news) : j.news[n].at = <<>>

\* who is in the middle of a grant has the lock, and the index is that of the rules
LockOK ==
    /\ \A c \in Client : job[c].pc \in Busy <=> lock = c
    /\ lock # NoClient => indexedAt = rulesAt

Inv == Types /\ (\A c \in Client : PointedAt(heap, job[c])) /\ LockOK

LEMMA Assembled ==
  ASSUME Types', \A c \in Client : PointedAt(heap', job'[c]), LockOK'
  PROVE  Inv'
<1>1. (\A c \in Client : PointedAt(heap, job[c]))' <=> \A c \in Client : PointedAt(heap', job'[c])
  BY DEF PointedAt, ValidAt, Valid
<1> QED
  BY <1>1 DEF Inv

LEMMA Pointers ==
  ASSUME NEW e \in Pointer
  PROVE  \/ e.at = <<>> /\ e.rule \in Rule
         \/ e.at # <<>> /\ e.at[1] \in Generation /\ e.at[2] \in Nat
<1>1. CASE e \in {Own(r) : r \in Rule}
  BY <1>1 DEF Own
<1>2. CASE e \in {Shared(g, i) : g \in Generation, i \in Nat}
  <2>1. PICK g \in Generation, i \in Nat : e = Shared(g, i)
    BY <1>2
  <2>2. e.at = <<g, i>>
    BY <2>1 DEF Shared
  <2> QED
    BY <2>2
<1> QED
  BY <1>1, <1>2 DEF Pointer

LEMMA Dereferenced ==
  ASSUME NEW h \in Heap, NEW e \in Pointer, Valid(h, e)
  PROVE  Deref(h, e) \in Rule
<1>1. CASE e.at = <<>>
  BY <1>1, Pointers DEF Deref
<1>2. CASE e.at # <<>>
  <2>1. e.at[1] \in Generation /\ e.at[2] \in 1..Len(h[e.at[1]])
    BY <1>2, Pointers DEF Valid
  <2>2. h[e.at[1]] \in Seq(Rule)
    BY <2>1 DEF Heap
  <2> DEFINE s == h[e.at[1]]
             i == e.at[2]
  <2>3. s[i] \in Rule
    <3>1. s \in Seq(Rule) /\ i \in 1..Len(s)
      BY <2>1, <2>2
    <3> HIDE DEF s, i
    <3> QED
      BY <3>1
  <2> QED
    BY <1>2, <2>3 DEF Deref
<1> QED
  BY <1>1, <1>2

\* The generations a call points into are in use.
LEMMA Pointing ==
  ASSUME NEW j \in Job, NEW s \in {j.news, j.from, j.existing}, NEW n \in 1..Len(s), s[n].at # <<>>
  PROVE  s[n].at[1] \in PointersOf(j) /\ s \in Seq(Pointer) /\ s[n] \in Pointer
<1>1. s \in Seq(Pointer) /\ s[n] \in Pointer
  BY DEF Job
<1>2. s[n] \in ToSet(s)
  BY <1>1 DEF ToSet
<1>3. s[n] \in ToSet(j.news) \cup ToSet(j.from) \cup ToSet(j.existing)
  BY <1>2
<1> QED
  BY <1>1, <1>3 DEF PointersOf

-----------------------------------------------------------------------------
(* The heap *)

\* rules are added at the end, and keys stay
Extends(a, b) == Len(b) >= Len(a) /\ \A i \in 1..Len(a) : b[i].key = a[i].key

Steady == \A g \in Generation : g \in InUse /\ g \in InUse' => Extends(heap[g], heap'[g])

\* rules with other keys than ks stay as they are
Leaves(ks) ==
    \A g \in Generation : g \in InUse /\ g \in InUse' =>
        \A i \in 1..Len(heap[g]) : heap[g][i].key \notin ks => heap'[g][i] = heap[g][i]

LEMMA Collecting ==
  ASSUME Types, NEW g0 \in Generation, NEW rs \in Seq(Rule),
         heap' = Collected([heap EXCEPT ![g0] = rs]),
         g0 \notin InUse \/ Extends(heap[g0], rs)
  PROVE  /\ heap' \in Heap /\ Steady
         /\ g0 \in InUse' => heap'[g0] = rs
         /\ \A g \in Generation : g \in InUse' /\ g # g0 => heap'[g] = heap[g]
<1> DEFINE h == [heap EXCEPT ![g0] = rs]
<1>1. h \in Heap /\ h[g0] = rs /\ \A g \in Generation : g # g0 => h[g] = heap[g]
  BY DEF Types, Heap
<1>2. heap' = [g \in Generation |-> IF g \in InUse' THEN h[g] ELSE <<>>]
  BY DEF Collected
<1> HIDE DEF h
<1>3. <<>> \in Seq(Rule)
  OBVIOUS
<1>4. \A g \in Generation : h[g] \in Seq(Rule)
  BY <1>1 DEF Heap
<1>5. heap' \in Heap
  BY <1>2, <1>3, <1>4 DEF Heap
<1>6. ASSUME NEW g \in Generation, g \in InUse, g \in InUse' PROVE Extends(heap[g], heap'[g])
  <2>1. heap'[g] = h[g]
    BY <1>2, <1>6
  <2>2. CASE g = g0
    <3>1. heap'[g] = rs
      BY <1>1, <2>1, <2>2
    <3>2. Extends(heap[g0], rs)
      BY <1>6, <2>2
    <3>3. heap[g] = heap[g0]
      BY <2>2
    <3> QED
      BY <3>1, <3>2, <3>3
  <2>3. CASE g # g0
    <3>1. heap'[g] = heap[g] /\ heap[g] \in Seq(Rule)
      BY <1>1, <1>4, <2>1, <2>3
    <3>2. \A s \in Seq(Rule) : Extends(s, s)
      BY DEF Extends
    <3> QED
      BY <3>1, <3>2
  <2> QED
    BY <2>2, <2>3
<1> QED
  BY <1>1, <1>2, <1>5, <1>6 DEF Steady

LEMMA Still ==
  ASSUME Types, UNCHANGED heap
  PROVE  heap' \in Heap /\ Steady /\ Leaves({})
<1>1. ASSUME NEW g \in Generation PROVE Extends(heap[g], heap'[g])
  <2>1. heap[g] \in Seq(Rule) /\ heap'[g] = heap[g]
    BY DEF Types, Heap
  <2>2. Len(heap[g]) \in Nat
    BY <2>1
  <2> QED
    BY <2>1, <2>2 DEF Extends
<1> QED
  BY <1>1 DEF Types, Steady, Leaves

\* The pointers that a call keeps go on pointing to rules with the same keys.
LEMMA Carried ==
  ASSUME Types, Steady, heap' \in Heap, NEW x \in Client, job'[x] \in Job,
         NEW s \in {job[x].news, job[x].from, job[x].existing},
         s \in {job'[x].news, job'[x].from, job'[x].existing},
         ValidAt(heap, s)
  PROVE  /\ ValidAt(heap', s)
         /\ \A n \in 1..Len(s) : s[n].at # <<>> =>
               heap'[s[n].at[1]][s[n].at[2]].key = heap[s[n].at[1]][s[n].at[2]].key
<1>1. job[x] \in Job
  BY DEF Types
<1>2. ASSUME NEW n \in 1..Len(s), s[n].at # <<>>
      PROVE  /\ s[n].at[2] \in 1..Len(heap'[s[n].at[1]])
             /\ heap'[s[n].at[1]][s[n].at[2]].key = heap[s[n].at[1]][s[n].at[2]].key
  <2> DEFINE g == s[n].at[1]
             i == s[n].at[2]
  <2>1. g \in PointersOf(job[x]) /\ s[n] \in Pointer
    BY <1>1, <1>2, Pointing
  <2>2. g \in PointersOf(job'[x])
    BY <1>2, Pointing
  <2>3. g \in InUse
    BY <2>1 DEF InUse
  <2>4. g \in InUse'
    <3>1. PointersOf(job[x])' = PointersOf(job'[x])
      BY DEF PointersOf
    <3> QED
      BY <2>2, <3>1 DEF InUse
  <2>5. g \in Generation /\ i \in 1..Len(heap[g])
    BY <1>2, <2>1, Pointers DEF ValidAt, Valid
  <2>6. Extends(heap[g], heap'[g])
    BY <2>3, <2>4, <2>5 DEF Steady
  <2>7. Len(heap[g]) \in Nat /\ Len(heap'[g]) \in Nat
    <3>1. heap[g] \in Seq(Rule) /\ heap'[g] \in Seq(Rule)
      BY <2>5 DEF Types, Heap
    <3> QED
      BY <3>1
  <2> HIDE DEF g, i
  <2>8. i \in 1..Len(heap'[g]) /\ heap'[g][i].key = heap[g][i].key
    BY <2>5, <2>6, <2>7 DEF Extends
  <2> QED
    BY <2>8 DEF g, i
<1> QED
  BY <1>2 DEF ValidAt, Valid

-----------------------------------------------------------------------------
(* Calls *)

\* a call of another, which may have learned that keys were touched
SameJob(x) ==
    LET j == job[x] k == job'[x]
    IN  /\ k \in Job
        /\ k.pc = j.pc /\ k.news = j.news /\ k.from = j.from /\ k.to = j.to /\ k.existing = j.existing
        /\ k.deletable = j.deletable /\ k.updatable = j.updatable /\ k.final = j.final
        /\ k.clone = j.clone /\ j.touched \subseteq k.touched

LEMMA SamePointed ==
  ASSUME Inv, Steady, heap' \in Heap, NEW x \in Client, SameJob(x)
  PROVE  PointedAt(heap', job'[x])
<1> DEFINE j == job[x]
           k == job'[x]
<1>1. Types /\ PointedAt(heap, j)
  BY DEF Inv
<1>2. /\ k \in Job /\ k.pc = j.pc /\ k.news = j.news /\ k.from = j.from
      /\ k.to = j.to /\ k.existing = j.existing
  BY DEF SameJob
<1>3. ValidAt(heap, j.news) /\ ValidAt(heap, j.from) /\ ValidAt(heap, j.existing)
  BY <1>1 DEF PointedAt
<1>4. ValidAt(heap', j.news) /\ ValidAt(heap', j.from) /\ ValidAt(heap', j.existing)
  BY <1>1, <1>2, <1>3, Carried
<1>5. \A n \in 1..Len(j.existing) : j.existing[n].at # <<>> =>
         heap'[j.existing[n].at[1]][j.existing[n].at[2]].key
           = heap[j.existing[n].at[1]][j.existing[n].at[2]].key
  BY <1>1, <1>2, <1>3, Carried
<1> HIDE DEF j, k
<1>6. PointedAt(heap', k)
  BY <1>1, <1>2, <1>4, <1>5 DEF PointedAt
<1> QED
  BY <1>6 DEF k

LEMMA OthersPointed ==
  ASSUME Inv, Steady, heap' \in Heap, NEW c \in Client,
         \A x \in Client \ {c} : SameJob(x), PointedAt(heap', job'[c])
  PROVE  \A x \in Client : PointedAt(heap', job'[x])
<1> SUFFICES ASSUME NEW x \in Client PROVE PointedAt(heap', job'[x])
  OBVIOUS
<1>1. CASE x = c
  BY <1>1
<1>2. CASE x # c
  BY <1>2, SamePointed
<1> QED
  BY <1>1, <1>2

\* What everybody else learns of a change, if they are in the middle of a call.
LEMMA Touching ==
  ASSUME Types, NEW c, NEW ks \in SUBSET Key
  PROVE  /\ Touch(c, ks) \in [Client -> Job]
         /\ \A x \in Client :
              LET j == job[x] k == Touch(c, ks)[x]
              IN  /\ k \in Job
                  /\ k.pc = j.pc /\ k.news = j.news /\ k.from = j.from /\ k.to = j.to /\ k.existing = j.existing
                  /\ k.deletable = j.deletable /\ k.updatable = j.updatable /\ k.final = j.final
                  /\ k.clone = j.clone /\ j.touched \subseteq k.touched
                  /\ x # c /\ j.pc # "idle" => ks \subseteq k.touched
                  /\ x = c => k = j
<1>1. ASSUME NEW x \in Client
      PROVE  LET j == job[x] k == Touch(c, ks)[x]
             IN  /\ k \in Job
                 /\ k.pc = j.pc /\ k.news = j.news /\ k.from = j.from /\ k.to = j.to /\ k.existing = j.existing
                 /\ k.deletable = j.deletable /\ k.updatable = j.updatable /\ k.final = j.final
                 /\ k.clone = j.clone /\ j.touched \subseteq k.touched
                 /\ x # c /\ j.pc # "idle" => ks \subseteq k.touched
                 /\ x = c => k = j
  <2> DEFINE j == job[x]
             k == Touch(c, ks)[x]
  <2>1. j \in Job
    BY DEF Types
  <2>2. k = IF x = c \/ j.pc = "idle" THEN j ELSE [j EXCEPT !.touched = @ \cup ks]
    BY DEF Touch
  <2>3. j.touched \cup ks \subseteq Key
    BY <2>1 DEF Job
  <2> HIDE DEF j, k
  <2>4. CASE x = c \/ j.pc = "idle"
    <3>1. k = j
      BY <2>2, <2>4
    <3> QED
      BY <2>1, <2>4, <3>1 DEF j, k
  <2>5. CASE ~(x = c \/ j.pc = "idle")
    <3>1. k = [j EXCEPT !.touched = j.touched \cup ks]
      BY <2>2, <2>5
    <3>2. /\ k \in Job
          /\ k.pc = j.pc /\ k.news = j.news /\ k.from = j.from /\ k.to = j.to /\ k.existing = j.existing
          /\ k.deletable = j.deletable /\ k.updatable = j.updatable /\ k.final = j.final
          /\ k.clone = j.clone /\ k.touched = j.touched \cup ks
      BY <2>1, <2>3, <3>1 DEF Job
    <3> QED
      BY <2>5, <3>2 DEF j, k
  <2> QED
    BY <2>4, <2>5
<1>2. Touch(c, ks) = [x \in Client |-> Touch(c, ks)[x]]
  BY DEF Touch
<1>3. \A x \in Client : Touch(c, ks)[x] \in Job
  BY <1>1
<1> QED
  BY <1>1, <1>2, <1>3

\* Nobody but c does anything, and nothing is touched.
LEMMA Alone ==
  ASSUME Types, NEW c \in Client, NEW j \in Job, job' = [job EXCEPT ![c] = j]
  PROVE  /\ job' \in [Client -> Job] /\ job'[c] = j
         /\ \A x \in Client \ {c} : SameJob(x) /\ job'[x] = job[x]
<1>1. job \in [Client -> Job]
  BY DEF Types
<1>2. \A x \in Client \ {c} : job'[x] = job[x] /\ job[x] \in Job
  BY <1>1
<1>3. \A x \in Client \ {c} : SameJob(x)
  BY <1>2 DEF SameJob
<1> QED
  BY <1>1, <1>2, <1>3

LEMMA NoJobIs == NoJob \in Job /\ NoJob.pc = "idle" /\ NoJob.existing = <<>>
                 /\ \A h : PointedAt(h, NoJob)
<1>1. <<>> \in Seq(Pointer) /\ <<>> \in Seq(Role) /\ <<>> \in Seq(Rule) /\ Len(<<>>) = 0
  OBVIOUS
<1>2. NoJob \in Job /\ NoJob.pc = "idle" /\ NoJob.existing = <<>> /\ NoJob.news = <<>> /\ NoJob.from = <<>>
  BY <1>1 DEF NoJob, Job
<1>3. \A h : ValidAt(h, <<>>)
  BY DEF ValidAt
<1> QED
  BY <1>2, <1>3 DEF PointedAt, Busy

\* Rules in the hands of a caller.
LEMMA Owning ==
  ASSUME NEW new \in Seq(Rule)
  PROVE  LET s == [n \in 1..Len(new) |-> Own(new[n])]
         IN  /\ s \in Seq(Pointer) /\ Len(s) = Len(new)
             /\ \A n \in 1..Len(s) : s[n].at = <<>> /\ s[n].rule = new[n]
             /\ \A h : ValidAt(h, s)
<1> DEFINE s == [n \in 1..Len(new) |-> Own(new[n])]
<1>1. \A n \in 1..Len(new) : s[n] \in Pointer /\ s[n].at = <<>> /\ s[n].rule = new[n]
  BY DEF Pointer, Own
<1>2. s = [n \in 1..Len(new) |-> s[n]] /\ Len(new) \in Nat
  OBVIOUS
<1> HIDE DEF s
<1>3. s \in [1..Len(new) -> Pointer]
  BY <1>1, <1>2
<1>4. s \in Seq(Pointer) /\ Len(s) = Len(new)
  BY <1>2, <1>3
<1>5. \A h : ValidAt(h, s)
  BY <1>1, <1>4 DEF ValidAt, Valid
<1> QED
  BY <1>1, <1>4, <1>5 DEF s

LEMMA RulesAre == ASSUME Types PROVE rules \in Seq(Rule) /\ indexed \in Seq(Rule) /\ KeysOf(rules) \subseteq Key
<1>1. rules \in Seq(Rule) /\ indexed \in Seq(Rule)
  BY DEF Types, Heap, rules, indexed
<1>2. \A i \in 1..Len(rules) : rules[i] \in Rule
  BY <1>1
<1> QED
  BY <1>1, <1>2 DEF KeysOf, Rule

-----------------------------------------------------------------------------
(* Steps *)

LEMMA InitInv == Init => Inv
<1> SUFFICES ASSUME Init PROVE Inv
  OBVIOUS
<1>1. rulesAt \in Generation /\ indexedAt \in Generation
  BY GenerationAssumption DEF Init
<1>2. heap \in Heap
  <2>1. <<>> \in Seq(Rule)
    OBVIOUS
  <2> QED
    BY <2>1 DEF Init, Heap
<1>3. job \in [Client -> Job] /\ \A c \in Client : job[c] = NoJob
  BY NoJobIs DEF Init
<1>4. Types
  BY <1>1, <1>2, <1>3, MaxCallsAssumption DEF Init, Types, Access
<1>5. \A c \in Client : PointedAt(heap, job[c])
  BY <1>3, NoJobIs
<1>6. LockOK
  BY <1>3, NoJobIs, ClientAssumption DEF LockOK, Busy, Init
<1> QED
  BY <1>4, <1>5, <1>6 DEF Inv

\* The rules of a caller, merged with those in memory.
LEMMA MergeTypes ==
  ASSUME Inv, NEW news \in Seq(Pointer), ValidAt(heap, news)
  PROVE  LET new    == [n \in 1..Len(news) |-> Deref(heap, news[n])]
             merged == merge(rules, new)
         IN  /\ new \in Seq(Rule) /\ Len(new) = Len(news)
             /\ KeysOf(new) \subseteq Key /\ merged \in Seq(Rule) /\ KeysOf(merged) \subseteq Key
             /\ UntrackedBy(rules, merged) \subseteq Key
             /\ Extends(rules, merged)
<1> DEFINE new    == [n \in 1..Len(news) |-> Deref(heap, news[n])]
           merged == merge(rules, new)
<1>1. Types /\ rules \in Seq(Rule) /\ KeysOf(rules) \subseteq Key
  BY RulesAre DEF Inv
<1>2. ASSUME NEW n \in 1..Len(news) PROVE new[n] \in Rule
  <2>1. news[n] \in Pointer /\ Valid(heap, news[n]) /\ heap \in Heap
    BY <1>1 DEF ValidAt, Types
  <2> QED
    BY <2>1, Dereferenced
<1>3. new = [n \in 1..Len(news) |-> new[n]] /\ Len(news) \in Nat
  OBVIOUS
<1> HIDE DEF new
<1>4. new \in [1..Len(news) -> Rule]
  BY <1>2, <1>3
<1>5. new \in Seq(Rule) /\ Len(new) = Len(news)
  BY <1>3, <1>4
<1>6. /\ merged \in Seq(Rule) /\ Len(merged) >= Len(rules) /\ Len(rules) \in Nat
      /\ \A i \in 1..Len(rules) : merged[i].key = rules[i].key
  BY <1>1, <1>5, Merging
<1> HIDE DEF merged
<1>7. Extends(rules, merged)
  BY <1>6 DEF Extends
<1>8. \A s \in Seq(Rule) : KeysOf(s) \subseteq Key
  <2> SUFFICES ASSUME NEW s \in Seq(Rule), NEW i \in 1..Len(s) PROVE s[i].key \in Key
    BY DEF KeysOf
  <2>1. s[i] \in Rule
    OBVIOUS
  <2> QED
    BY <2>1 DEF Rule
<1>9. UntrackedBy(rules, merged) \subseteq Key
  <2>1. UntrackedBy(rules, merged) \subseteq KeysOf(rules)
    BY DEF UntrackedBy, KeysOf
  <2> QED
    BY <1>1, <2>1
<1> QED
  BY <1>5, <1>6, <1>7, <1>8, <1>9 DEF new, merged

LEMMA MergeInv ==
  ASSUME Inv, NEW c \in Client, NEW news \in Seq(Pointer), ValidAt(heap, news),
         NEW was \in Job, was.existing = <<>>, Merge(c, news, was),
         job[c].pc \notin Busy, calls' \in 0..MaxCalls
  PROVE  /\ Inv' /\ \A x \in Client \ {c} : SameJob(x)
         /\ heap'[rulesAt] = merge(rules, [n \in 1..Len(news) |-> Deref(heap, news[n])])
         /\ LET new == [n \in 1..Len(news) |-> Deref(heap, news[n])]
            IN  /\ Steady /\ Leaves(KeysOf(new))
                /\ \A x \in Client \ {c} : job[x].pc # "idle" => KeysOf(new) \subseteq job'[x].touched
                /\ job'[c].pc = "flush" /\ job'[c].clone = was.clone /\ job'[c].touched = was.touched
                /\ job'[c].news = [n \in 1..Len(new) |-> Own(new[n])]
<1> DEFINE new    == [n \in 1..Len(news) |-> Deref(heap, news[n])]
           merged == merge(rules, new)
           ks     == KeysOf(new)
           own    == [n \in 1..Len(new) |-> Own(new[n])]
           mine   == [was EXCEPT !.pc = "flush", !.from = <<>>, !.news = own]
<1>1. Types /\ rules \in Seq(Rule) /\ rules = heap[rulesAt]
  BY RulesAre DEF Inv, rules
<1>2. /\ new \in Seq(Rule) /\ ks \subseteq Key /\ merged \in Seq(Rule) /\ KeysOf(merged) \subseteq Key
      /\ UntrackedBy(rules, merged) \subseteq Key /\ Extends(rules, merged)
  BY MergeTypes
<1>3. /\ lock = NoClient /\ lock' = c /\ indexedAt' = rulesAt
      /\ job' = [Touch(c, ks) EXCEPT ![c] = mine]
      /\ promised' = [k \in Key |-> IF k \in ks THEN Unset ELSE promised[k]]
      /\ untracked' \subseteq untracked \cup UntrackedBy(rules, merged)
      /\ UNCHANGED <<rulesAt, roles, store, foreign>>
      /\ heap' = Collected([heap EXCEPT ![rulesAt] = merged])
  BY DEF Merge
<1> HIDE DEF ks, merged
<1>4. own \in Seq(Pointer) /\ Len(own) = Len(new) /\ (\A h : ValidAt(h, own))
      /\ \A n \in 1..Len(own) : own[n].at = <<>>
  BY <1>2, Owning
<1> HIDE DEF own, new
<1>5. /\ mine \in Job /\ mine.pc = "flush" /\ mine.news = own /\ mine.from = <<>>
      /\ mine.existing = <<>> /\ mine.clone = was.clone /\ mine.touched = was.touched
  <2>1. <<>> \in Seq(Pointer)
    OBVIOUS
  <2> QED
    BY <1>4, <2>1 DEF Job
<1>6. \A h : PointedAt(h, mine)
  <2>1. \A h : ValidAt(h, <<>>)
    BY DEF ValidAt
  <2> QED
    BY <1>4, <1>5, <2>1 DEF PointedAt
<1> HIDE DEF mine
<1>7. /\ heap' \in Heap /\ Steady /\ (rulesAt \in InUse' => heap'[rulesAt] = merged)
      /\ \A g \in Generation : g \in InUse' /\ g # rulesAt => heap'[g] = heap[g]
  BY <1>1, <1>2, <1>3, Collecting DEF Types
<1>17. \A i \in 1..Len(rules) : rules[i].key \notin ks => merged[i] = rules[i]
  <2>1. LET m == merge(rules, new)
        IN \A i \in 1..Len(rules) : rules[i].key \notin KeysOf(new) => m[i] = rules[i]
    BY <1>1, <1>2, Merging
  <2> QED
    BY <2>1 DEF merged, ks
<1>18. Leaves(ks)
  BY <1>1, <1>7, <1>17 DEF Leaves
<1>8. rulesAt \in InUse'
  BY <1>3 DEF InUse
<1>9. Touch(c, ks) \in [Client -> Job]
  BY <1>1, <1>2, Touching
<1>10. job' \in [Client -> Job] /\ job'[c] = mine
       /\ \A x \in Client \ {c} : job'[x] = Touch(c, ks)[x]
  BY <1>3, <1>5, <1>9
<1>11. ASSUME NEW x \in Client \ {c} PROVE SameJob(x)
  <2>1. job'[x] = Touch(c, ks)[x]
    BY <1>10
  <2> QED
    BY <1>1, <1>2, <2>1, Touching DEF SameJob
<1>19. ASSUME NEW x \in Client \ {c}, job[x].pc # "idle" PROVE ks \subseteq job'[x].touched
  <2>1. job'[x] = Touch(c, ks)[x]
    BY <1>10
  <2> QED
    BY <1>1, <1>2, <1>19, <2>1, Touching
<1>12. \A x \in Client : PointedAt(heap', job'[x])
  BY <1>6, <1>7, <1>10, <1>11, OthersPointed
<1>13. promised' \in [Key -> Access \cup {Unset}]
  <2>1. \A k \in Key : promised[k] \in Access \cup {Unset}
    BY <1>1 DEF Types
  <2> QED
    BY <1>3, <2>1
<1>14. Types'
  BY <1>1, <1>2, <1>3, <1>7, <1>10, <1>13 DEF Types
<1>15. LockOK'
  <2>1. \A x \in Client : job[x].pc \notin Busy
    BY <1>3, ClientAssumption DEF Inv, LockOK
  <2>2. \A x \in Client \ {c} : job'[x].pc \notin Busy
    BY <1>11, <2>1 DEF SameJob
  <2>3. job'[c].pc \in Busy
    BY <1>5, <1>10 DEF Busy
  <2> QED
    BY <1>3, <2>2, <2>3 DEF LockOK, Busy
<1>16. Inv'
  BY <1>12, <1>14, <1>15, Assembled
<1> QED
  <2>1. /\ Inv' /\ (\A x \in Client \ {c} : SameJob(x)) /\ heap'[rulesAt] = merged
        /\ Steady /\ Leaves(ks) /\ \A x \in Client \ {c} : job[x].pc # "idle" => ks \subseteq job'[x].touched
    BY <1>7, <1>8, <1>11, <1>16, <1>18, <1>19
  <2>2. /\ job'[c].pc = "flush" /\ job'[c].clone = was.clone /\ job'[c].touched = was.touched
        /\ job'[c].news = own
    BY <1>5, <1>10
  <2> QED
    BY <2>1, <2>2 DEF merged, new, ks, own

\* The arguments of a Grant are its caller's own.
LEMMA Granted ==
  ASSUME NEW rr \in Grants
  PROVE  LET s == [n \in 1..Len(rr) |-> Own([key |-> rr[n].key, access |-> rr[n].access, dirty |-> FALSE])]
         IN  s \in Seq(Pointer) /\ \A h : ValidAt(h, s)
<1> DEFINE rs == [n \in 1..Len(rr) |-> [key |-> rr[n].key, access |-> rr[n].access, dirty |-> FALSE]]
           s == [n \in 1..Len(rr) |-> Own([key |-> rr[n].key, access |-> rr[n].access, dirty |-> FALSE])]
<1>1. rr \in Seq(Grantable) /\ Len(rr) \in Nat
  BY GrantsAssumption
<1>2. \A n \in 1..Len(rr) : rr[n] \in Grantable
  BY <1>1
<1>3. rs \in [1..Len(rr) -> Rule]
  BY <1>2 DEF Grantable, Rule
<1>4. rs \in Seq(Rule) /\ Len(rs) = Len(rr)
  <2> HIDE DEF rs
  <2> QED
    BY <1>1, <1>3
<1>5. s = [n \in 1..Len(rs) |-> Own(rs[n])]
  BY <1>4
<1> HIDE DEF rs
<1>6. s \in Seq(Pointer) /\ \A h : ValidAt(h, s)
  <2> HIDE DEF s
  <2> QED
    BY <1>4, <1>5, Owning
<1> QED
  BY <1>6

\* A grant and the end of a clone merge.
LEMMA GrantMerges ==
  ASSUME Inv, NEW c \in Client, Grant(c) \/ CloneGrant(c)
  PROVE  \E news \in Seq(Pointer), was \in Job :
            /\ ValidAt(heap, news) /\ was.existing = <<>> /\ Merge(c, news, was)
            /\ job[c].pc \notin Busy /\ calls' \in 0..MaxCalls
<1>1. CASE Grant(c)
  <2>1. PICK rr \in Grants :
           Merge(c, [n \in 1..Len(rr) |-> Own([key |-> rr[n].key, access |-> rr[n].access, dirty |-> FALSE])], NoJob)
    BY <1>1 DEF Grant
  <2> DEFINE s == [n \in 1..Len(rr) |-> Own([key |-> rr[n].key, access |-> rr[n].access, dirty |-> FALSE])]
  <2>2. s \in Seq(Pointer) /\ ValidAt(heap, s)
    BY Granted
  <2>3. job[c].pc \notin Busy /\ calls' \in 0..MaxCalls
    <3>1. calls \in 0..MaxCalls /\ calls < MaxCalls /\ calls' = calls + 1 /\ job[c].pc = "idle"
      BY <1>1 DEF Grant, Inv, Types
    <3> QED
      BY <3>1, MaxCallsAssumption DEF Busy
  <2> HIDE DEF s
  <2>4. Merge(c, s, NoJob)
    BY <2>1 DEF s
  <2> QED
    BY <2>2, <2>3, <2>4, NoJobIs
<1>2. CASE CloneGrant(c)
  <2>1. /\ job[c] \in Job /\ job[c].pc = "find" /\ Merge(c, job[c].news, job[c])
        /\ calls' \in 0..MaxCalls
    BY <1>2 DEF CloneGrant, Inv, Types
  <2>2. job[c].existing = <<>> /\ ValidAt(heap, job[c].news) /\ job[c].news \in Seq(Pointer)
        /\ job[c].pc \notin Busy
    BY <2>1 DEF Inv, PointedAt, Job, Busy
  <2> QED
    BY <2>1, <2>2
<1> QED
  BY <1>1, <1>2

LEMMA GrantInv ==
  ASSUME Inv, NEW c \in Client, Grant(c) \/ CloneGrant(c)
  PROVE  Inv'
BY GrantMerges, MergeInv

\* A step of the caller that leaves the heap and the lock alone, and keeps its
\* pointers.
LEMMA StillInv ==
  ASSUME Inv, NEW c \in Client, NEW j \in Job, UNCHANGED <<heap, rulesAt, indexedAt, roles>>,
         job' = [job EXCEPT ![c] = j], PointedAt(heap, j),
         store' \in [Key -> Access \cup {Unset}], UNCHANGED foreign,
         calls' \in 0..MaxCalls, UNCHANGED promised, untracked' \subseteq Key,
         \/ UNCHANGED lock /\ (j.pc \in Busy <=> job[c].pc \in Busy)
         \/ lock = c /\ lock' = NoClient /\ j.pc \notin Busy
  PROVE  Inv'
<1>1. Types
  BY DEF Inv
<1>2. heap' \in Heap /\ Steady
  BY <1>1, Still
<1>3. job' \in [Client -> Job] /\ job'[c] = j /\ \A x \in Client \ {c} : SameJob(x) /\ job'[x] = job[x]
  BY <1>1, Alone
<1>4. PointedAt(heap', job'[c])
  BY <1>3
<1>5. \A x \in Client : PointedAt(heap', job'[x])
  BY <1>2, <1>3, <1>4, OthersPointed
<1>6. Types'
  BY <1>1, <1>2, <1>3 DEF Types
<1>7. LockOK'
  BY <1>3, ClientAssumption DEF Inv, LockOK
<1> QED
  BY <1>5, <1>6, <1>7, Assembled

LEMMA FlushInv ==
  ASSUME Inv, NEW c \in Client, Flush(c)
  PROVE  Inv'
<1> DEFINE d == deletable(rules)
           u == updatable(rules)
           f == final(rules)
           j == [job[c] EXCEPT !.pc = "delete", !.deletable = d, !.updatable = u, !.final = f]
<1>1. Types /\ job[c] \in Job /\ job[c].pc = "flush" /\ PointedAt(heap, job[c]) /\ rules \in Seq(Rule)
  BY RulesAre DEF Inv, Types, Flush
<1>2. d \in Seq(Rule) /\ u \in Seq(Rule) /\ f \in Seq(Rule)
  BY <1>1, Flushing
<1>3. job' = [job EXCEPT ![c] = j]
  BY DEF Flush
<1> HIDE DEF d, u, f
<1>4. /\ j \in Job /\ j.pc = "delete" /\ j.news = job[c].news /\ j.from = job[c].from
      /\ j.existing = job[c].existing /\ j.to = job[c].to
  BY <1>1, <1>2 DEF Job
<1> HIDE DEF j
<1>5. PointedAt(heap, j) /\ j.pc \in Busy /\ job[c].pc \in Busy
  BY <1>1, <1>4 DEF PointedAt, Busy
<1>6. /\ UNCHANGED <<heap, rulesAt, indexedAt, roles, foreign, promised, lock>>
      /\ store' \in [Key -> Access \cup {Unset}]
      /\ calls' \in 0..MaxCalls /\ untracked' \subseteq Key
  BY <1>1 DEF Flush, Types
<1> QED
  BY <1>3, <1>4, <1>5, <1>6, StillInv

\* What statements leave in the table.
LEMMA TableTypes ==
  ASSUME Types, NEW rs \in Seq(Rule), NEW n \in 0..Len(rs)
  PROVE  /\ Deleted(store, rs, n) \in [Key -> Access \cup {Unset}]
         /\ Upserted(store, rs, n) \in [Key -> Access \cup {Unset}]
<1>1. \A k \in Key : store[k] \in Access \cup {Unset}
  BY DEF Types
<1>2. Deleted(store, rs, n) \in [Key -> Access \cup {Unset}]
  BY <1>1 DEF Deleted
<1>3. \A i \in 1..n : rs[i].access \in Access
  <2> SUFFICES ASSUME NEW i \in 1..n PROVE rs[i].access \in Access
    OBVIOUS
  <2>1. rs[i] \in Rule
    OBVIOUS
  <2> QED
    BY <2>1 DEF Rule
<1>4. \A k \in Key : Upserted(store, rs, n)[k] \in Access \cup {Unset}
  BY <1>1, <1>3, Upserting
<1>5. Upserted(store, rs, n) = [k \in Key |-> Upserted(store, rs, n)[k]]
  BY DEF Upserted
<1> QED
  BY <1>2, <1>4, <1>5

LEMMA DeleteRulesInv ==
  ASSUME Inv, NEW c \in Client, DeleteRules(c)
  PROVE  Inv'
<1> DEFINE j == [job[c] EXCEPT !.pc = "upsert"]
           d == job[c].deletable
<1>1. Types /\ job[c] \in Job /\ job[c].pc = "delete" /\ PointedAt(heap, job[c]) /\ d \in Seq(Rule)
  BY DEF Inv, Types, DeleteRules, Job
<1>2. job' = [job EXCEPT ![c] = j] /\ store' = Deleted(store, d, Len(d))
  BY DEF DeleteRules
<1>3. /\ j \in Job /\ j.pc = "upsert" /\ j.news = job[c].news /\ j.from = job[c].from
      /\ j.existing = job[c].existing /\ j.to = job[c].to
  BY <1>1 DEF Job
<1> HIDE DEF j
<1>4. PointedAt(heap, j) /\ j.pc \in Busy /\ job[c].pc \in Busy
  BY <1>1, <1>3 DEF PointedAt, Busy
<1>5. store' \in [Key -> Access \cup {Unset}]
  <2>1. Len(d) \in 0..Len(d)
    BY <1>1
  <2> QED
    BY <1>1, <1>2, <2>1, TableTypes
<1>6. /\ UNCHANGED <<heap, rulesAt, indexedAt, roles, foreign, promised, lock>>
      /\ calls' \in 0..MaxCalls /\ untracked' \subseteq Key
  BY <1>1 DEF DeleteRules, Types
<1> QED
  BY <1>2, <1>3, <1>4, <1>5, <1>6, StillInv

LEMMA DoubledKeys == ASSUME NEW s \in Seq(Rule) PROVE Doubled(s) \subseteq Key
<1>1. \A i \in 1..Len(s) : s[i] \in Rule
  OBVIOUS
<1> QED
  BY <1>1 DEF Doubled, Rule

LEMMA AbortInv ==
  ASSUME Inv, NEW c \in Client, Abort(c), lock = c, store' \in [Key -> Access \cup {Unset}]
  PROVE  Inv'
<1>1. Types /\ untracked' \subseteq Key /\ calls' \in 0..MaxCalls
  BY RulesAre, DoubledKeys DEF Inv, Types, Abort
<1>2. /\ UNCHANGED <<heap, rulesAt, indexedAt, roles, foreign, promised>>
      /\ job' = [job EXCEPT ![c] = NoJob] /\ lock' = NoClient
  BY DEF Abort
<1>3. NoJob \in Job /\ PointedAt(heap, NoJob) /\ NoJob.pc \notin Busy
  BY NoJobIs DEF Busy
<1> QED
  BY <1>1, <1>2, <1>3, StillInv

LEMMA FailsInv ==
  ASSUME Inv, NEW c \in Client, DeleteFails(c) \/ UpsertFails(c)
  PROVE  Inv'
<1>1. Types /\ job[c] \in Job /\ job[c].deletable \in Seq(Rule) /\ job[c].updatable \in Seq(Rule)
  BY DEF Inv, Types, Job
<1>2. Abort(c)
  BY DEF DeleteFails, UpsertFails
<1>3. lock = c
  BY DEF DeleteFails, UpsertFails, Inv, LockOK, Busy
<1>4. store' \in [Key -> Access \cup {Unset}]
  <2>1. CASE DeleteFails(c)
    <3>1. PICK n \in 0..(Len(job[c].deletable) - 1) : store' = Deleted(store, job[c].deletable, n)
      BY <2>1 DEF DeleteFails
    <3>2. n \in 0..Len(job[c].deletable)
      BY <1>1
    <3> QED
      BY <1>1, <3>1, <3>2, TableTypes
  <2>2. CASE UpsertFails(c)
    <3>1. PICK n \in 0..(Len(job[c].updatable) - 1) : store' = Upserted(store, job[c].updatable, n)
      BY <2>2 DEF UpsertFails
    <3>2. n \in 0..Len(job[c].updatable)
      BY <1>1
    <3> QED
      BY <1>1, <3>1, <3>2, TableTypes
  <2> QED
    BY <2>1, <2>2
<1> QED
  BY <1>2, <1>3, <1>4, AbortInv

LEMMA FreshIs == ASSUME HasFresh PROVE Fresh \in Generation /\ Fresh \notin InUse
<1>1. \E g \in Generation \ InUse : TRUE
  BY DEF HasFresh
<1>2. Fresh \in Generation \ InUse
  BY <1>1 DEF Fresh
<1> QED
  BY <1>2

LEMMA UpsertRulesInv ==
  ASSUME Inv, NEW c \in Client, UpsertRules(c)
  PROVE  /\ Inv' /\ heap'[rulesAt'] = job[c].final
         /\ indexedAt \in Generation /\ heap'[indexedAt] = heap[indexedAt]
         /\ Steady /\ Leaves({})
         /\ \A x \in Client \ {c} : SameJob(x) /\ job'[x] = job[x]
<1> DEFINE f == job[c].final
           u == job[c].updatable
<1>1. /\ Types /\ job[c] \in Job /\ job[c].pc = "upsert" /\ HasFresh
      /\ f \in Seq(Rule) /\ u \in Seq(Rule)
  BY DEF Inv, Types, UpsertRules, Job
<1>2. /\ rulesAt' = Fresh /\ lock' = NoClient /\ job' = [job EXCEPT ![c] = NoJob]
      /\ UNCHANGED <<indexedAt, roles, calls, foreign>>
      /\ heap' = Collected([heap EXCEPT ![Fresh] = f])
      /\ store' = Upserted(store, u, Len(u))
      /\ untracked' = untracked \cup Doubled(f)
  BY DEF UpsertRules
<1>3. Fresh \in Generation /\ Fresh \notin InUse
  BY <1>1, FreshIs
<1> DEFINE fresh == Fresh
<1>4. fresh \in Generation /\ fresh \notin InUse /\ heap' = Collected([heap EXCEPT ![fresh] = f]) /\ rulesAt' = fresh
  BY <1>2, <1>3
<1> HIDE DEF fresh
<1>5. /\ heap' \in Heap /\ Steady /\ (fresh \in InUse' => heap'[fresh] = f)
      /\ \A g \in Generation : g \in InUse' /\ g # fresh => heap'[g] = heap[g]
  BY <1>1, <1>4, Collecting
<1>15. Leaves({})
  BY <1>4, <1>5 DEF Leaves
<1>6. heap'[rulesAt'] = f
  <2>1. fresh \in InUse'
    BY <1>4 DEF InUse
  <2> QED
    BY <1>4, <1>5, <2>1
<1>7. indexedAt \in Generation /\ heap'[indexedAt] = heap[indexedAt]
  <2>1. indexedAt \in InUse' /\ indexedAt \in InUse /\ indexedAt \in Generation
    BY <1>1, <1>2 DEF InUse, Types
  <2> QED
    BY <1>4, <1>5, <2>1
<1>8. NoJob \in Job /\ NoJob.pc \notin Busy /\ \A h : PointedAt(h, NoJob)
  BY NoJobIs DEF Busy
<1>9. job' \in [Client -> Job] /\ job'[c] = NoJob /\ \A x \in Client \ {c} : SameJob(x) /\ job'[x] = job[x]
  BY <1>1, <1>2, <1>8, Alone
<1>10. \A x \in Client : PointedAt(heap', job'[x])
  BY <1>5, <1>8, <1>9, OthersPointed
<1>11. promised' \in [Key -> Access \cup {Unset}]
  <2>1. \A k \in Key : promised[k] \in Access \cup {Unset}
    BY <1>1 DEF Types
  <2>2. ASSUME NEW k \in Key, k \in KeysOf(f)
        PROVE  f[CHOOSE i \in 1..Len(f) : f[i].key = k].access \in Access
    <3>1. \E i \in 1..Len(f) : f[i].key = k
      BY <2>2 DEF KeysOf
    <3> DEFINE i == CHOOSE i \in 1..Len(f) : f[i].key = k
    <3>2. i \in 1..Len(f)
      BY <3>1
    <3> HIDE DEF i, f
    <3>3. f[i] \in Rule
      BY <1>1, <3>2
    <3> QED
      BY <3>3 DEF Rule, i
  <2> DEFINE kept == {e.rule.key : e \in ToSet(job[c].news)} \ job[c].touched
             val(k) == IF k \notin kept THEN promised[k]
                       ELSE IF k \in KeysOf(f)
                            THEN f[CHOOSE i \in 1..Len(f) : f[i].key = k].access
                            ELSE "Inherit"
  <2>3. promised' = [k \in Key |-> val(k)]
    BY DEF UpsertRules
  <2> HIDE DEF kept, f
  <2>4. \A k \in Key : val(k) \in Access \cup {Unset}
    BY <2>1, <2>2 DEF Access
  <2> HIDE DEF val
  <2> QED
    BY <2>3, <2>4
<1>12. store' \in [Key -> Access \cup {Unset}]
  <2>1. Len(u) \in 0..Len(u)
    BY <1>1
  <2> QED
    BY <1>1, <1>2, <2>1, TableTypes
<1>13. Types'
  <2>1. Doubled(f) \subseteq Key
    BY <1>1, DoubledKeys
  <2> QED
    BY <1>1, <1>2, <1>4, <1>5, <1>9, <1>11, <1>12, <2>1 DEF Types
<1>14. LockOK'
  <2>1. lock = c
    BY <1>1 DEF Inv, LockOK, Busy
  <2> QED
    BY <1>2, <1>8, <1>9, <2>1, ClientAssumption DEF Inv, LockOK
<1> QED
  BY <1>5, <1>6, <1>7, <1>9, <1>10, <1>13, <1>14, <1>15, Assembled

\* The pointers to the rules of a role.
LEMMA RulesByRole ==
  ASSUME Types, NEW r
  PROVE  /\ ruleByRole(r) \in Seq(Pointer) /\ ValidAt(heap, ruleByRole(r))
         /\ \A n \in 1..Len(ruleByRole(r)) :
              LET e == ruleByRole(r)[n]
              IN  e.at # <<>> /\ heap[e.at[1]][e.at[2]].key.role = r
<1> DEFINE all == [i \in 1..Len(rules) |-> Shared(rulesAt, i)]
           I == {i \in 1..Len(rules) : rules[i].key.role = r}
           p == ruleByRole(r)
<1>1. rules \in Seq(Rule) /\ Len(rules) \in Nat /\ rulesAt \in Generation
  BY RulesAre DEF Types
<1>2. \A i \in 1..Len(rules) : all[i] \in Pointer
  BY <1>1 DEF Pointer
<1>3. all \in Seq(Pointer) /\ Len(all) = Len(rules) /\ \A i \in 1..Len(rules) : all[i] = Shared(rulesAt, i)
  <2>1. all = [i \in 1..Len(rules) |-> all[i]]
    OBVIOUS
  <2>2. \A i \in 1..Len(rules) : all[i] = Shared(rulesAt, i)
    OBVIOUS
  <2> HIDE DEF all
  <2>3. all \in [1..Len(rules) -> Pointer]
    BY <1>2, <2>1
  <2> QED
    BY <1>1, <2>2, <2>3
<1> HIDE DEF all
<1>4. I \in SUBSET (1..Len(all)) /\ \A i \in I : i \in 1..Len(rules) /\ rules[i].key.role = r
  BY <1>3
<1>5. p = Picked(all, I)
  BY DEF ruleByRole, all
<1> HIDE DEF I, p
<1>6. p \in Seq(Pointer) /\ \A n \in 1..Len(p) : \E i \in I : p[n] = all[i]
  BY <1>3, <1>4, <1>5, Picking
<1>7. ASSUME NEW n \in 1..Len(p)
      PROVE  p[n].at # <<>> /\ Valid(heap, p[n]) /\ heap[p[n].at[1]][p[n].at[2]].key.role = r
  <2>1. PICK i \in I : p[n] = all[i]
    BY <1>6
  <2>2. i \in 1..Len(rules) /\ rules[i].key.role = r
    BY <1>4
  <2>4. p[n] = Shared(rulesAt, i)
    BY <1>3, <2>1, <2>2
  <2>3. p[n].at # <<>> /\ p[n].at[1] = rulesAt /\ p[n].at[2] = i
    BY <2>4 DEF Shared
  <2> QED
    BY <2>2, <2>3 DEF Valid, rules
<1>8. /\ p \in Seq(Pointer) /\ ValidAt(heap, p)
      /\ \A n \in 1..Len(p) : p[n].at # <<>> /\ heap[p[n].at[1]][p[n].at[2]].key.role = r
  BY <1>6, <1>7 DEF ValidAt
<1> QED
  BY <1>8 DEF p

LEMMA CloneInv ==
  ASSUME Inv, NEW c \in Client, Clone(c)
  PROVE  Inv'
<1>1. Types /\ job[c].pc = "idle" /\ calls' \in 0..MaxCalls
  <2>1. calls \in 0..MaxCalls /\ calls < MaxCalls /\ calls' = calls + 1 /\ job[c].pc = "idle"
    BY DEF Clone, Inv, Types
  <2> QED
    BY <2>1, MaxCallsAssumption DEF Inv
<1>2. PICK a \in Clones :
          job' = [job EXCEPT ![c] = [NoJob EXCEPT !.pc = "find", !.from = ruleByRole(a.from),
                                                  !.to = a.to, !.clone = TRUE]]
  BY DEF Clone
<1> DEFINE j == [NoJob EXCEPT !.pc = "find", !.from = ruleByRole(a.from), !.to = a.to, !.clone = TRUE]
<1>3. a.to \in Seq(Role) /\ ruleByRole(a.from) \in Seq(Pointer) /\ ValidAt(heap, ruleByRole(a.from))
  BY <1>1, ClonesAssumption, RulesByRole
<1>4. NoJob \in Job /\ NoJob.existing = <<>> /\ NoJob.news = <<>>
  BY NoJobIs DEF NoJob
<1>5. /\ j \in Job /\ j.pc = "find" /\ j.from = ruleByRole(a.from) /\ j.existing = <<>> /\ j.news = <<>>
  <2> DEFINE n == NoJob
             p == ruleByRole(a.from)
  <2>1. n \in Job /\ p \in Seq(Pointer) /\ n.existing = <<>> /\ n.news = <<>>
    BY <1>3, <1>4
  <2> HIDE DEF n, p
  <2>2. LET k == [n EXCEPT !.pc = "find", !.from = p, !.to = a.to, !.clone = TRUE]
        IN  k \in Job /\ k.pc = "find" /\ k.from = p /\ k.existing = <<>> /\ k.news = <<>>
    BY <1>3, <2>1 DEF Job
  <2> QED
    BY <2>2 DEF n, p
<1>6. job' = [job EXCEPT ![c] = j]
  BY <1>2
<1> HIDE DEF j
<1>7. PointedAt(heap, j) /\ j.pc \notin Busy /\ job[c].pc \notin Busy
  <2>1. ValidAt(heap, <<>>)
    BY DEF ValidAt
  <2> QED
    BY <1>1, <1>3, <1>5, <2>1 DEF PointedAt, Busy
<1>8. /\ UNCHANGED <<heap, rulesAt, indexedAt, roles, foreign, promised, lock>>
      /\ store' \in [Key -> Access \cup {Unset}] /\ untracked' \subseteq Key
  BY <1>1 DEF Clone, Types
<1> QED
  BY <1>1, <1>5, <1>6, <1>7, <1>8, StillInv

LEMMA CloneFindInv ==
  ASSUME Inv, NEW c \in Client, CloneFind(c)
  PROVE  Inv'
<1>1. Types /\ job[c] \in Job /\ job[c].pc = "find" /\ PointedAt(heap, job[c]) /\ job[c].to # <<>>
  BY DEF CloneFind, Inv, Types
<1> DEFINE ex == ruleByRole(Head(job[c].to))
           j == [job[c] EXCEPT !.pc = "write", !.existing = ex]
<1>2. /\ ex \in Seq(Pointer) /\ ValidAt(heap, ex)
      /\ \A n \in 1..Len(ex) : ex[n].at # <<>> /\ heap[ex[n].at[1]][ex[n].at[2]].key.role = Head(job[c].to)
  BY <1>1, RulesByRole
<1>3. job' = [job EXCEPT ![c] = j]
  BY DEF CloneFind
<1> HIDE DEF ex
<1>4. /\ j \in Job /\ j.pc = "write" /\ j.news = job[c].news /\ j.from = job[c].from
      /\ j.existing = ex /\ j.to = job[c].to
  BY <1>1, <1>2 DEF Job
<1> HIDE DEF j
<1>5. PointedAt(heap, j) /\ j.pc \notin Busy /\ job[c].pc \notin Busy
  BY <1>1, <1>2, <1>4 DEF PointedAt, Busy
<1>6. /\ UNCHANGED <<heap, rulesAt, indexedAt, roles, foreign, promised, lock>>
      /\ store' \in [Key -> Access \cup {Unset}] /\ untracked' \subseteq Key /\ calls' \in 0..MaxCalls
  BY <1>1 DEF CloneFind, Types
<1> QED
  BY <1>3, <1>4, <1>5, <1>6, StillInv

\* The rules of a role inherit, through whatever pointers there are.
Inherited(ex) ==
    [g \in Generation |-> [i \in 1..Len(heap[g]) |->
        IF \E n \in 1..Len(ex) : ex[n].at = <<g, i>>
        THEN [heap[g][i] EXCEPT !.access = "Inherit"] ELSE heap[g][i]]]

LEMMA Inheriting ==
  ASSUME Types, NEW ex
  PROVE  /\ Inherited(ex) \in Heap
         /\ \A g \in Generation :
              /\ Len(Inherited(ex)[g]) = Len(heap[g]) /\ Extends(heap[g], Inherited(ex)[g])
              /\ \A i \in 1..Len(heap[g]) :
                   /\ Inherited(ex)[g][i] \in Rule /\ heap[g][i] \in Rule
                   /\ Inherited(ex)[g][i].key = heap[g][i].key
                   /\ Inherited(ex)[g][i].dirty = heap[g][i].dirty
                   /\ IF \E n \in 1..Len(ex) : ex[n].at = <<g, i>>
                      THEN Inherited(ex)[g][i].access = "Inherit"
                      ELSE Inherited(ex)[g][i] = heap[g][i]
<1> DEFINE h == Inherited(ex)
<1>1. ASSUME NEW g \in Generation, NEW i \in 1..Len(heap[g])
      PROVE  /\ h[g][i] \in Rule /\ heap[g][i] \in Rule /\ h[g][i].key = heap[g][i].key
             /\ h[g][i].dirty = heap[g][i].dirty
             /\ IF \E n \in 1..Len(ex) : ex[n].at = <<g, i>>
                THEN h[g][i].access = "Inherit" ELSE h[g][i] = heap[g][i]
  <2> DEFINE P == \E n \in 1..Len(ex) : ex[n].at = <<g, i>>
  <2>1. heap[g][i] \in Rule
    <3>1. heap[g] \in Seq(Rule)
      BY DEF Types, Heap
    <3> QED
      BY <3>1
  <2>2. h[g][i] = IF P THEN [heap[g][i] EXCEPT !.access = "Inherit"] ELSE heap[g][i]
    BY DEF Inherited
  <2> HIDE DEF P, h
  <2>3. CASE P
    <3>1. h[g][i] = [heap[g][i] EXCEPT !.access = "Inherit"]
      BY <2>2, <2>3
    <3> QED
      BY <2>1, <2>3, <3>1 DEF Rule, Access, P
  <2>4. CASE ~P
    BY <2>1, <2>2, <2>4 DEF P
  <2> QED
    BY <2>3, <2>4
<1>2. ASSUME NEW g \in Generation
      PROVE  h[g] \in Seq(Rule) /\ Len(h[g]) = Len(heap[g]) /\ Extends(heap[g], h[g])
  <2>1. heap[g] \in Seq(Rule) /\ Len(heap[g]) \in Nat
    BY DEF Types, Heap
  <2>2. h[g] = [i \in 1..Len(heap[g]) |-> h[g][i]]
    BY DEF Inherited
  <2> HIDE DEF h
  <2>3. h[g] \in [1..Len(heap[g]) -> Rule]
    BY <1>1, <2>2
  <2>4. h[g] \in Seq(Rule) /\ Len(h[g]) = Len(heap[g])
    BY <2>1, <2>3
  <2> QED
    BY <1>1, <2>1, <2>4 DEF Extends
<1>3. h = [g \in Generation |-> h[g]]
  BY DEF Inherited
<1> HIDE DEF h
<1>4. h \in Heap
  BY <1>2, <1>3 DEF Heap
<1> QED
  BY <1>1, <1>2, <1>4 DEF h

LEMMA StillValid ==
  ASSUME NEW a \in Heap, NEW b \in Heap, \A g \in Generation : Extends(a[g], b[g]),
         NEW s \in Seq(Pointer), ValidAt(a, s)
  PROVE  ValidAt(b, s)
<1> SUFFICES ASSUME NEW n \in 1..Len(s), s[n].at # <<>>
             PROVE  s[n].at[2] \in 1..Len(b[s[n].at[1]])
  BY DEF ValidAt, Valid
<1> DEFINE g == s[n].at[1]
           i == s[n].at[2]
<1>1. s[n] \in Pointer
  OBVIOUS
<1>2. g \in Generation /\ i \in 1..Len(a[g])
  BY <1>1, Pointers DEF ValidAt, Valid
<1>3. a[g] \in Seq(Rule) /\ b[g] \in Seq(Rule) /\ Extends(a[g], b[g])
  BY <1>2 DEF Heap
<1> HIDE DEF g, i
<1>4. Len(a[g]) \in Nat /\ Len(b[g]) \in Nat
  BY <1>3
<1>5. i \in 1..Len(b[g])
  BY <1>2, <1>3, <1>4 DEF Extends
<1> QED
  BY <1>5 DEF g, i

LEMMA CloneWriteInv ==
  ASSUME Inv, NEW c \in Client, CloneWrite(c)
  PROVE  /\ Inv' /\ (\A x \in Client \ {c} : SameJob(x))
         /\ heap' = Inherited(job[c].existing) /\ job'[c].pc = "find"
         /\ \A x \in Client \ {c} : job[x].pc # "idle" =>
               {k \in Key : k.role = Head(job[c].to)} \subseteq job'[x].touched
         /\ Steady
<1> DEFINE ex   == job[c].existing
           t    == Head(job[c].to)
           h    == Inherited(ex)
           copy == [n \in 1..Len(job[c].from) |->
                      LET r == Deref(h, job[c].from[n]) IN Own([r EXCEPT !.key.role = t])]
           ks   == {k \in Key : k.role = t}
           tc   == Touch(c, ks)
           mine == [tc[c] EXCEPT !.pc = "find", !.to = Tail(@), !.existing = <<>>, !.news = @ \o ex \o copy]
<1>1. /\ Types /\ job[c] \in Job /\ job[c].pc = "write" /\ PointedAt(heap, job[c])
      /\ job[c].to # <<>> /\ job[c].to \in Seq(Role) /\ t \in Role /\ Tail(job[c].to) \in Seq(Role)
      /\ ex \in Seq(Pointer) /\ job[c].from \in Seq(Pointer) /\ job[c].news \in Seq(Pointer)
  <2>1. /\ Types /\ job[c] \in Job /\ job[c].pc = "write" /\ PointedAt(heap, job[c])
    BY DEF CloneWrite, Inv, Types
  <2>2. /\ job[c].to # <<>> /\ job[c].to \in Seq(Role)
        /\ ex \in Seq(Pointer) /\ job[c].from \in Seq(Pointer) /\ job[c].news \in Seq(Pointer)
    BY <2>1 DEF PointedAt, Job
  <2>3. Head(job[c].to) \in Role /\ Tail(job[c].to) \in Seq(Role)
    BY <2>2, HeadTailProperties
  <2> QED
    BY <2>1, <2>2, <2>3
<1>2. heap' = h
  BY DEF CloneWrite, Inherited
<1>3. job' = [tc EXCEPT ![c] = mine]
  BY DEF CloneWrite, Inherited
<1>4. h \in Heap /\ \A g \in Generation : Extends(heap[g], h[g])
  BY <1>1, Inheriting
<1> HIDE DEF h
<1>5. ValidAt(h, ex) /\ ValidAt(h, job[c].from) /\ ValidAt(h, job[c].news)
  BY <1>1, <1>4, StillValid DEF PointedAt, Types
<1>6. Steady
  BY <1>2, <1>4 DEF Steady
<1>7. copy \in Seq(Pointer) /\ ValidAt(h, copy)
  <2> DEFINE r(n) == Deref(h, job[c].from[n])
             rs == [n \in 1..Len(job[c].from) |-> [r(n) EXCEPT !.key.role = t]]
  <2>1. ASSUME NEW n \in 1..Len(job[c].from) PROVE [r(n) EXCEPT !.key.role = t] \in Rule
    <3>1. job[c].from[n] \in Pointer /\ Valid(h, job[c].from[n])
      BY <1>1, <1>5 DEF ValidAt
    <3>2. r(n) \in Rule
      BY <1>4, <3>1, Dereferenced
    <3> HIDE DEF r, t
    <3> QED
      BY <1>1, <3>2 DEF Rule, Key
  <2>2. Len(job[c].from) \in Nat
    BY <1>1
  <2>3. rs \in Seq(Rule) /\ Len(rs) = Len(job[c].from)
    <3> HIDE DEF r
    <3>1. rs \in [1..Len(job[c].from) -> Rule]
      BY <2>1
    <3> HIDE DEF rs
    <3> QED
      BY <2>2, <3>1
  <2>4. copy = [n \in 1..Len(rs) |-> Own(rs[n])]
    BY <2>3
  <2> HIDE DEF rs, copy
  <2> QED
    BY <2>3, <2>4, Owning
<1>8. tc \in [Client -> Job] /\ tc[c] = job[c]
  BY <1>1, Touching
<1> HIDE DEF tc, copy, ex, t
<1>9. (job[c].news \o ex) \o copy \in Seq(Pointer) /\ ValidAt(h, (job[c].news \o ex) \o copy)
  <2>1. \A a, b \in Seq(Pointer) : ValidAt(h, a) /\ ValidAt(h, b) => a \o b \in Seq(Pointer) /\ ValidAt(h, a \o b)
    <3> SUFFICES ASSUME NEW a \in Seq(Pointer), NEW b \in Seq(Pointer), ValidAt(h, a), ValidAt(h, b)
                 PROVE  a \o b \in Seq(Pointer) /\ ValidAt(h, a \o b)
      OBVIOUS
    <3>1. ASSUME NEW i \in 1..Len(a \o b) PROVE Valid(h, (a \o b)[i])
      <4>1. CASE i \in 1..Len(a)
        <5>1. (a \o b)[i] = a[i]
          BY <4>1, Joined
        <5> QED
          BY <4>1, <5>1 DEF ValidAt
      <4>2. CASE i \notin 1..Len(a)
        <5>1. i - Len(a) \in 1..Len(b) /\ (a \o b)[i] = b[i - Len(a)]
          BY <4>2, Joined
        <5> QED
          BY <5>1 DEF ValidAt
      <4> QED
        BY <4>1, <4>2
    <3>2. a \o b \in Seq(Pointer)
      BY Joined
    <3> QED
      BY <3>1, <3>2 DEF ValidAt
  <2>2. job[c].news \o ex \in Seq(Pointer) /\ ValidAt(h, job[c].news \o ex)
    BY <1>1, <1>5, <2>1
  <2> QED
    BY <1>7, <2>1, <2>2
<1>10. /\ mine \in Job /\ mine.pc = "find" /\ mine.from = job[c].from /\ mine.existing = <<>>
       /\ mine.news = (job[c].news \o ex) \o copy
  <2> DEFINE nn == (job[c].news \o ex) \o copy
  <2>1. mine = [job[c] EXCEPT !.pc = "find", !.to = Tail(job[c].to), !.existing = <<>>, !.news = nn]
    BY <1>8
  <2>2. <<>> \in Seq(Pointer) /\ nn \in Seq(Pointer)
    BY <1>9
  <2> HIDE DEF nn, mine
  <2>3. /\ mine \in Job /\ mine.pc = "find" /\ mine.from = job[c].from /\ mine.existing = <<>>
        /\ mine.news = nn
    BY <1>1, <2>1, <2>2 DEF Job
  <2> QED
    BY <2>3 DEF nn
<1> HIDE DEF mine
<1>11. PointedAt(h, mine)
  <2>1. ValidAt(h, <<>>)
    BY DEF ValidAt
  <2> QED
    BY <1>5, <1>9, <1>10, <2>1 DEF PointedAt, Busy
<1>12. job' \in [Client -> Job] /\ job'[c] = mine /\ \A x \in Client \ {c} : job'[x] = tc[x]
  BY <1>3, <1>8, <1>10
<1>13. ASSUME NEW x \in Client \ {c} PROVE SameJob(x)
  <2>1. ks \subseteq Key /\ job'[x] = Touch(c, ks)[x]
    BY <1>12 DEF tc
  <2> HIDE DEF ks
  <2> QED
    BY <1>1, <2>1, Touching DEF SameJob
<1>19. ASSUME NEW x \in Client \ {c}, job[x].pc # "idle" PROVE ks \subseteq job'[x].touched
  <2>1. ks \subseteq Key /\ job'[x] = Touch(c, ks)[x]
    BY <1>12 DEF tc
  <2> HIDE DEF ks
  <2> QED
    BY <1>1, <1>19, <2>1, Touching
<1>14. \A x \in Client : PointedAt(heap', job'[x])
  BY <1>2, <1>4, <1>6, <1>11, <1>12, <1>13, OthersPointed
<1>15. promised' \in [Key -> Access \cup {Unset}]
  <2>1. \A k \in Key : promised[k] \in Access \cup {Unset}
    BY <1>1 DEF Types
  <2>2. promised' = [k \in Key |-> IF k \in ks THEN Unset ELSE promised[k]]
    BY DEF CloneWrite, t
  <2> QED
    BY <2>1, <2>2
<1>16. UNCHANGED <<rulesAt, indexedAt, roles, store, lock, calls, untracked, foreign>>
  BY DEF CloneWrite
<1>17. Types'
  BY <1>1, <1>2, <1>4, <1>12, <1>15, <1>16 DEF Types
<1>18. LockOK'
  <2>1. \A x \in Client \ {c} : job'[x].pc = job[x].pc
    BY <1>13 DEF SameJob
  <2> QED
    BY <1>1, <1>10, <1>12, <1>16, <2>1 DEF Inv, LockOK, Busy
<1> QED
  <2>1. Inv'
    BY <1>14, <1>17, <1>18, Assembled
  <2> QED
    BY <1>2, <1>6, <1>10, <1>12, <1>13, <1>19, <2>1 DEF h, ex, t

LEMMA ReloadInv ==
  ASSUME Inv, Reload
  PROVE  /\ Inv' /\ heap'[rulesAt'] = Stored(store) /\ (\A x \in Client : SameJob(x))
         /\ Steady /\ Leaves({})
         /\ \A x \in Client : job[x].pc # "idle" => foreign \subseteq job'[x].touched
<1> DEFINE f == Stored(store)
           fresh == Fresh
<1>1. Types /\ HasFresh /\ f \in Seq(Rule)
  <2>1. Types /\ \A k \in Key : store[k] \in Access \cup {Unset}
    BY DEF Inv, Types
  <2> QED
    BY <2>1, Storing DEF Reload
<1>2. /\ rulesAt' = fresh /\ indexedAt' = fresh /\ lock = NoClient
      /\ untracked' = {} /\ foreign' = {} /\ job' = Touch(NoClient, foreign)
      /\ promised' = [k \in Key |-> IF k \in untracked \cup foreign THEN Unset ELSE promised[k]]
      /\ UNCHANGED <<roles, store, lock, calls>>
      /\ heap' = Collected([heap EXCEPT ![fresh] = f])
  BY DEF Reload
<1>3. fresh \in Generation /\ fresh \notin InUse
  BY <1>1, FreshIs
<1> HIDE DEF fresh, f
<1>4. /\ heap' \in Heap /\ Steady /\ (fresh \in InUse' => heap'[fresh] = f)
      /\ \A g \in Generation : g \in InUse' /\ g # fresh => heap'[g] = heap[g]
  BY <1>1, <1>2, <1>3, Collecting
<1>10. Leaves({})
  BY <1>3, <1>4 DEF Leaves
<1>5. heap'[rulesAt'] = f
  <2>1. fresh \in InUse'
    BY <1>2 DEF InUse
  <2> QED
    BY <1>2, <1>4, <2>1
<1>6. job' \in [Client -> Job] /\ \A x \in Client : SameJob(x)
  BY <1>1, <1>2, Touching DEF SameJob, Types
<1>11. ASSUME NEW x \in Client, job[x].pc # "idle" PROVE foreign \subseteq job'[x].touched
  <2>1. x # NoClient /\ foreign \in SUBSET Key /\ job'[x] = Touch(NoClient, foreign)[x]
    BY <1>1, <1>2, ClientAssumption DEF Types
  <2> QED
    BY <1>1, <1>11, <2>1, Touching
<1>7. \A x \in Client : PointedAt(heap', job'[x])
  BY <1>4, <1>6, SamePointed
<1>8. Types'
  <2>1. promised' \in [Key -> Access \cup {Unset}]
    BY <1>1, <1>2 DEF Types
  <2> QED
    BY <1>1, <1>2, <1>3, <1>4, <1>6, <2>1 DEF Types
<1>9. LockOK'
  <2>1. \A x \in Client : job'[x].pc = job[x].pc
    BY <1>6 DEF SameJob
  <2> QED
    BY <1>2, <2>1 DEF Inv, LockOK
<1> QED
  BY <1>4, <1>5, <1>6, <1>7, <1>8, <1>9, <1>10, <1>11, Assembled DEF f

LEMMA ImportInv ==
  ASSUME Inv, Import
  PROVE  /\ Inv' /\ (\A x \in Client : SameJob(x)) /\ Steady /\ Leaves({})
         /\ \A k \in Key : store'[k] # store[k] =>
               \A x \in Client : job[x].pc # "idle" => k \in job'[x].touched
<1>1. PICK i \in Imports :
          /\ store' = [store EXCEPT ![i.key] = i.access]
          /\ foreign' = foreign \cup {i.key}
          /\ promised' = [promised EXCEPT ![i.key] = Unset]
          /\ job' = Touch(NoClient, {i.key})
  BY DEF Import
<1>2. Types /\ i.key \in Key /\ i.access \in Access
  BY ImportsAssumption DEF Inv, Access
<1>3. UNCHANGED <<heap, rulesAt, indexedAt, roles, lock, untracked>> /\ calls' \in 0..MaxCalls
  <2>1. calls \in 0..MaxCalls /\ calls < MaxCalls /\ calls' = calls + 1
    BY DEF Import, Inv, Types
  <2> QED
    BY <2>1, MaxCallsAssumption DEF Import
<1>4. heap' \in Heap /\ Steady /\ Leaves({})
  BY <1>2, <1>3, Still
<1>5. job' \in [Client -> Job] /\ \A x \in Client : SameJob(x)
  BY <1>1, <1>2, Touching DEF SameJob
<1>9. ASSUME NEW k \in Key, store'[k] # store[k], NEW x \in Client, job[x].pc # "idle"
      PROVE  k \in job'[x].touched
  <2>1. k = i.key
    BY <1>1, <1>2, <1>9 DEF Types
  <2>2. x # NoClient /\ {k} \in SUBSET Key /\ job'[x] = Touch(NoClient, {k})[x]
    BY <1>1, <2>1, ClientAssumption
  <2> QED
    BY <1>2, <1>9, <2>2, Touching
<1>6. \A x \in Client : PointedAt(heap', job'[x])
  BY <1>4, <1>5, SamePointed
<1>7. Types'
  BY <1>1, <1>2, <1>3, <1>4, <1>5 DEF Types
<1>8. LockOK'
  <2>1. \A x \in Client : job'[x].pc = job[x].pc
    BY <1>5 DEF SameJob
  <2> QED
    BY <1>3, <2>1 DEF Inv, LockOK
<1> QED
  BY <1>4, <1>5, <1>6, <1>7, <1>8, <1>9, Assembled

\* Only the roles change, or nothing.
LEMMA SameInv ==
  ASSUME Inv, roles' \in Setups,
         UNCHANGED <<heap, rulesAt, indexedAt, store, lock, job, calls, promised, untracked, foreign>>
  PROVE  Inv'
<1>1. \A c \in Client : PointedAt(heap', job'[c])
  BY DEF Inv
<1>2. Types' /\ LockOK'
  BY DEF Inv, Types, LockOK
<1> QED
  BY <1>1, <1>2, Assembled

LEMMA NextInv ==
  ASSUME Inv, [Next]_vars
  PROVE  Inv'
<1>1. ASSUME UpdateRoles PROVE Inv'
  BY <1>1, SameInv DEF UpdateRoles
<1>2. ASSUME UNCHANGED vars PROVE Inv'
  <2>1. roles' \in Setups /\ UNCHANGED <<heap, rulesAt, indexedAt, store, lock, job, calls, promised, untracked, foreign>>
    BY <1>2 DEF vars, Inv, Types
  <2> QED
    BY <2>1, SameInv
<1>3. ASSUME NEW c \in Client, ClientStep(c) PROVE Inv'
  BY <1>3, FlushInv, DeleteRulesInv, FailsInv, UpsertRulesInv, CloneFindInv, CloneWriteInv,
     GrantInv DEF ClientStep
<1> QED
  BY <1>1, <1>2, <1>3, GrantInv, CloneInv, ReloadInv, ImportInv DEF Next

\* The types, the pointers and the lock of every reachable state.
THEOREM Invariance == Spec => []Inv
<1>1. Inv /\ [Next]_vars => Inv'
  BY NextInv
<1> QED
  BY <1>1, InitInv, PTL DEF Spec

\* Types are as TypeOK says: every rule, row and call has the shape the code gives it.
THEOREM TypeCorrect == Spec => []TypeOK
<1>1. Inv => TypeOK
  BY DEF Inv, Types, TypeOK, Job, Heap
<1> QED
  BY <1>1, Invariance, PTL

-----------------------------------------------------------------------------
(* The table and the rules *)

\* What the store has of a key is what the rules say of it, unless a rule waits
\* to be written or to be deleted.
Mirrored(rs, k, v) ==
    IF k \in KeysOf(rs)
    THEN \E i \in 1..Len(rs) : rs[i].key = k /\ (rs[i].dirty \/ rs[i].access \in {"Inherit", v})
    ELSE v = Unset

Mirrors == \A k \in Key \ (untracked \cup foreign) : Mirrored(rules, k, store[k])

\* A key has two rules only while a grant is under way, and both are to be written.
Twice ==
    \A i, o \in 1..Len(rules) :
        i # o /\ rules[i].key = rules[o].key /\ rules[i].key \notin untracked =>
            rules[i].dirty /\ lock # NoClient

Stores == \A k \in Key : store[k] # "Inherit"

\* What a flush took from the rules rs it found, while the statements run: it
\* deletes, writes and keeps what the rules go on saying.
Taken(j, rs, st, lost, wild) ==
    /\ \A n \in 1..Len(j.updatable) :
          /\ j.updatable[n].access # "Inherit"
          /\ \E i \in 1..Len(rs) : rs[i].key = j.updatable[n].key /\ rs[i].dirty
          /\ \E f \in 1..Len(j.final) : /\ j.final[f].key = j.updatable[n].key
                                        /\ j.final[f].access = j.updatable[n].access
    /\ \A f \in 1..Len(j.final) : j.final[f].access # "Inherit" /\ ~j.final[f].dirty
    /\ \A f, g \in 1..Len(j.final) :
          f # g /\ j.final[f].key = j.final[g].key /\ j.final[f].key \notin lost =>
              j.final[f].key \in KeysOf(j.updatable)
    /\ \A k \in Key \ (lost \cup wild) : k \in KeysOf(j.final) /\ k \notin KeysOf(j.updatable) =>
          \A f \in 1..Len(j.final) : j.final[f].key = k => j.final[f].access = st[k]
    /\ \A k \in Key \ j.touched : Said(rs, k) = Said(j.final, k)

\* What is still to be deleted, and what is not.
Waiting(j, rs, st, lost, wild) ==
    /\ \A n \in 1..Len(j.deletable) :
          \E i \in 1..Len(rs) : rs[i].key = j.deletable[n].key /\ rs[i].access = "Inherit"
    /\ \A k \in Key \ (lost \cup wild) :
          IF k \in KeysOf(j.final) \ KeysOf(j.updatable) THEN k \notin KeysOf(j.deletable)
          ELSE k \notin KeysOf(j.final) => k \in KeysOf(j.deletable) \/ st[k] = Unset

Gone(j, st, lost, wild) ==
    \A k \in Key \ (lost \cup wild) : k \notin KeysOf(j.final) => st[k] = Unset

Flushed ==
    \A c \in Client :
        /\ job[c].pc \in {"delete", "upsert"} => Taken(job[c], rules, store, untracked, foreign)
        /\ job[c].pc = "delete" => Waiting(job[c], rules, store, untracked, foreign)
        /\ job[c].pc = "upsert" => Gone(job[c], store, untracked, foreign)

Books == Mirrors /\ Twice /\ Stores /\ Flushed

LEMMA Booked ==
  ASSUME \A k \in Key \ (untracked' \cup foreign') : Mirrored(rules', k, store'[k]),
         \A i, o \in 1..Len(rules') :
            i # o /\ rules'[i].key = rules'[o].key /\ rules'[i].key \notin untracked' =>
                rules'[i].dirty /\ lock' # NoClient,
         \A k \in Key : store'[k] # "Inherit",
         \A c \in Client :
            /\ job'[c].pc \in {"delete", "upsert"} => Taken(job'[c], rules', store', untracked', foreign')
            /\ job'[c].pc = "delete" => Waiting(job'[c], rules', store', untracked', foreign')
            /\ job'[c].pc = "upsert" => Gone(job'[c], store', untracked', foreign')
  PROVE  Books'
<1>1. Mirrors'
  BY DEF Mirrors, Mirrored, KeysOf
<1>2. Twice' /\ Stores'
  BY DEF Twice, Stores
<1>3. Flushed'
  BY DEF Flushed, Taken, Waiting, Gone, KeysOf, Said
<1> QED
  BY <1>1, <1>2, <1>3 DEF Books

\* A rule may come to inherit; keys and flags stay.
Fades(a, b) ==
    /\ Len(b) = Len(a)
    /\ \A i \in 1..Len(a) : /\ b[i].key = a[i].key /\ b[i].dirty = a[i].dirty
                            /\ b[i].access \in {a[i].access, "Inherit"}

LEMMA Fading ==
  ASSUME NEW a, NEW b, Fades(a, b)
  PROVE  /\ KeysOf(b) = KeysOf(a)
         /\ \A k, v : Mirrored(a, k, v) => Mirrored(b, k, v)
<1>1. KeysOf(b) = KeysOf(a)
  BY DEF KeysOf, Fades
<1>2. ASSUME NEW k, NEW v, Mirrored(a, k, v) PROVE Mirrored(b, k, v)
  <2>1. CASE k \in KeysOf(a)
    <3>1. PICK i \in 1..Len(a) : a[i].key = k /\ (a[i].dirty \/ a[i].access \in {"Inherit", v})
      BY <1>2, <2>1 DEF Mirrored
    <3>2. i \in 1..Len(b) /\ b[i].key = k /\ (b[i].dirty \/ b[i].access \in {"Inherit", v})
      BY <3>1 DEF Fades
    <3> QED
      BY <1>1, <2>1, <3>2 DEF Mirrored
  <2>2. CASE k \notin KeysOf(a)
    BY <1>1, <1>2, <2>2 DEF Mirrored
  <2> QED
    BY <2>1, <2>2
<1> QED
  BY <1>1, <1>2

\* What was taken stays good while others do what they may do meanwhile.
Unharmed(x) ==
    LET j == job[x] j2 == job'[x]
    IN  /\ j2.updatable = j.updatable /\ j2.deletable = j.deletable /\ j2.final = j.final
        /\ j.touched \subseteq j2.touched
        /\ \A k \in Key \ j2.touched : Said(rules', k) = Said(rules, k)

LEMMA TakenStays ==
  ASSUME NEW x \in Client, Unharmed(x), Fades(rules, rules'),
         untracked \subseteq untracked', foreign \subseteq foreign',
         \A k \in Key \ foreign' : store'[k] = store[k]
  PROVE  /\ Taken(job[x], rules, store, untracked, foreign) =>
                Taken(job'[x], rules', store', untracked', foreign')
         /\ Waiting(job[x], rules, store, untracked, foreign) =>
                Waiting(job'[x], rules', store', untracked', foreign')
         /\ Gone(job[x], store, untracked, foreign) => Gone(job'[x], store', untracked', foreign')
<1> DEFINE j == job[x]
           j2 == job'[x]
           a == rules
           b == rules'
           st == store
           st2 == store'
           lost == untracked
           lost2 == untracked'
           wild == foreign
           wild2 == foreign'
<1>0. /\ j2.updatable = j.updatable /\ j2.deletable = j.deletable /\ j2.final = j.final
      /\ j.touched \subseteq j2.touched
      /\ \A k \in Key \ j2.touched : Said(b, k) = Said(a, k)
      /\ Fades(a, b) /\ lost \subseteq lost2 /\ wild \subseteq wild2
      /\ \A k \in Key \ wild2 : st2[k] = st[k]
  BY DEF Unharmed
<1> HIDE DEF j, j2, a, b, st, st2, lost, lost2, wild, wild2
<1>1. ASSUME Taken(j, a, st, lost, wild) PROVE Taken(j2, b, st2, lost2, wild2)
  <2>1. ASSUME NEW n \in 1..Len(j2.updatable)
        PROVE  /\ j2.updatable[n].access # "Inherit"
               /\ \E i \in 1..Len(b) : b[i].key = j2.updatable[n].key /\ b[i].dirty
               /\ \E f \in 1..Len(j2.final) : /\ j2.final[f].key = j2.updatable[n].key
                                              /\ j2.final[f].access = j2.updatable[n].access
    <3>1. n \in 1..Len(j.updatable)
      BY <1>0
    <3>2. PICK i \in 1..Len(a) : a[i].key = j.updatable[n].key /\ a[i].dirty
      BY <1>1, <3>1 DEF Taken
    <3>3. i \in 1..Len(b) /\ b[i].key = j2.updatable[n].key /\ b[i].dirty
      BY <1>0, <3>2 DEF Fades
    <3>4. /\ j2.updatable[n].access # "Inherit"
          /\ \E f \in 1..Len(j2.final) : /\ j2.final[f].key = j2.updatable[n].key
                                         /\ j2.final[f].access = j2.updatable[n].access
      BY <1>0, <1>1, <3>1 DEF Taken
    <3> QED
      BY <3>3, <3>4
  <2>2. \A f \in 1..Len(j2.final) : j2.final[f].access # "Inherit" /\ ~j2.final[f].dirty
    BY <1>0, <1>1 DEF Taken
  <2>3. \A f, g \in 1..Len(j2.final) :
          f # g /\ j2.final[f].key = j2.final[g].key /\ j2.final[f].key \notin lost2 =>
              j2.final[f].key \in KeysOf(j2.updatable)
    BY <1>0, <1>1 DEF Taken
  <2>4. \A k \in Key \ (lost2 \cup wild2) : k \in KeysOf(j2.final) /\ k \notin KeysOf(j2.updatable) =>
          \A f \in 1..Len(j2.final) : j2.final[f].key = k => j2.final[f].access = st2[k]
    BY <1>0, <1>1 DEF Taken
  <2>5. \A k \in Key \ j2.touched : Said(b, k) = Said(j2.final, k)
    BY <1>0, <1>1 DEF Taken
  <2> QED
    BY <2>1, <2>2, <2>3, <2>4, <2>5 DEF Taken
<1>2. ASSUME Waiting(j, a, st, lost, wild) PROVE Waiting(j2, b, st2, lost2, wild2)
  <2>1. ASSUME NEW n \in 1..Len(j2.deletable)
        PROVE  \E i \in 1..Len(b) : b[i].key = j2.deletable[n].key /\ b[i].access = "Inherit"
    <3>1. PICK i \in 1..Len(a) : a[i].key = j.deletable[n].key /\ a[i].access = "Inherit"
      BY <1>0, <1>2 DEF Waiting
    <3> QED
      BY <1>0, <3>1 DEF Fades
  <2>2. \A k \in Key \ (lost2 \cup wild2) :
          IF k \in KeysOf(j2.final) \ KeysOf(j2.updatable) THEN k \notin KeysOf(j2.deletable)
          ELSE k \notin KeysOf(j2.final) => k \in KeysOf(j2.deletable) \/ st2[k] = Unset
    BY <1>0, <1>2 DEF Waiting
  <2> QED
    BY <2>1, <2>2 DEF Waiting
<1>3. ASSUME Gone(j, st, lost, wild) PROVE Gone(j2, st2, lost2, wild2)
  BY <1>0, <1>3 DEF Gone
<1> QED
  BY <1>1, <1>2, <1>3 DEF j, j2, a, b, st, st2, lost, lost2, wild, wild2

\* A step by which rules at most come to inherit, and nobody starts or ends a grant.
LEMMA QuietBooks ==
  ASSUME Books, Fades(rules, rules'), untracked' = untracked, foreign \subseteq foreign', lock' = lock,
         \A k \in Key : store'[k] # "Inherit",
         \A k \in Key \ foreign' : store'[k] = store[k],
         \A x \in Client : job'[x].pc \in {"delete", "upsert"} => job'[x].pc = job[x].pc /\ Unharmed(x)
  PROVE  Books'
<1>1. ASSUME NEW k \in Key \ (untracked' \cup foreign')
      PROVE  Mirrored(rules', k, store'[k])
  <2>1. Mirrored(rules, k, store[k]) /\ store'[k] = store[k]
    BY DEF Books, Mirrors
  <2> QED
    BY <2>1, Fading
<1>2. ASSUME NEW i \in 1..Len(rules'), NEW o \in 1..Len(rules'),
             i # o, rules'[i].key = rules'[o].key, rules'[i].key \notin untracked'
      PROVE  rules'[i].dirty /\ lock' # NoClient
  <2> DEFINE b == rules'
  <2>1. i \in 1..Len(rules) /\ o \in 1..Len(rules) /\ b[i].key = rules[i].key /\ b[o].key = rules[o].key
        /\ b[i].dirty = rules[i].dirty
    BY DEF Fades
  <2>2. rules[i].key = rules[o].key /\ rules[i].key \notin untracked
    BY <1>2, <2>1
  <2>3. rules[i].dirty /\ lock # NoClient
    BY <1>2, <2>1, <2>2 DEF Books, Twice
  <2> QED
    BY <2>1, <2>3
<1>3. ASSUME NEW x \in Client, job'[x].pc \in {"delete", "upsert"}
      PROVE  /\ Taken(job'[x], rules', store', untracked', foreign')
             /\ job'[x].pc = "delete" => Waiting(job'[x], rules', store', untracked', foreign')
             /\ job'[x].pc = "upsert" => Gone(job'[x], store', untracked', foreign')
  <2>1. /\ Taken(job[x], rules, store, untracked, foreign)
        /\ job'[x].pc = "delete" => Waiting(job[x], rules, store, untracked, foreign)
        /\ job'[x].pc = "upsert" => Gone(job[x], store, untracked, foreign)
    BY <1>3 DEF Books, Flushed
  <2> QED
    BY <1>3, <2>1, TakenStays
<1> QED
  BY <1>1, <1>2, <1>3, Booked

\* Nobody but who has the lock is in the middle of a flush.
LEMMA Holder ==
  ASSUME Inv, NEW c \in Client, job[c].pc \in Busy
  PROVE  /\ lock = c /\ c # NoClient /\ indexedAt = rulesAt
         /\ \A x \in Client \ {c} : job[x].pc \notin Busy
<1>1. lock = c /\ c # NoClient
  BY ClientAssumption DEF Inv, LockOK
<1> QED
  BY <1>1 DEF Inv, LockOK

LEMMA Nobody ==
  ASSUME Inv, lock = NoClient
  PROVE  \A x \in Client : job[x].pc \notin Busy
BY ClientAssumption DEF Inv, LockOK

\* After a merge the rules that are neither clean nor gone wait to be written.
LEMMA MergeBooks ==
  ASSUME Inv, Books, NEW c \in Client, NEW news \in Seq(Pointer), ValidAt(heap, news),
         NEW was \in Job, was.existing = <<>>, Merge(c, news, was),
         job[c].pc \notin Busy, calls' \in 0..MaxCalls
  PROVE  Books'
<1> DEFINE a   == rules
           new == [n \in 1..Len(news) |-> Deref(heap, news[n])]
           m   == merge(a, new)
           set == {m[i].key : i \in {j \in 1..Len(m) : m[j].dirty \/ m[j].access = "Inherit"}}
           by  == UntrackedBy(a, m)
<1>1. /\ lock = NoClient /\ lock' = c /\ c # NoClient /\ UNCHANGED <<rulesAt, store, foreign>>
      /\ untracked' = (untracked \cup by) \ (set \ Doubled(a))
  BY ClientAssumption DEF Merge
<1>2. a \in Seq(Rule) /\ new \in Seq(Rule) /\ Len(a) \in Nat
  <2>1. a \in Seq(Rule) /\ new \in Seq(Rule)
    BY MergeTypes, RulesAre DEF Inv
  <2> HIDE DEF a
  <2> QED
    BY <2>1
<1>3. Inv' /\ rules' = m /\ job'[c].pc = "flush"
  <2>1. Inv' /\ heap'[rulesAt] = m /\ job'[c].pc = "flush"
    BY MergeInv
  <2> QED
    BY <1>1, <2>1 DEF rules
<1> HIDE DEF a, new, m
<1>4. /\ Len(m) \in Nat /\ Len(m) >= Len(a) /\ KeysOf(new) \subseteq KeysOf(m)
      /\ \A i \in 1..Len(a) : /\ m[i].key = a[i].key
                              /\ a[i].key \notin KeysOf(new) => m[i] = a[i]
      /\ \A i \in 1..Len(m) : i \notin 1..Len(a) => m[i].key \in KeysOf(new) \ KeysOf(a) /\ m[i].dirty
  <2>1. LET mm == merge(a, new)
        IN /\ Len(mm) \in Nat /\ Len(mm) >= Len(a) /\ KeysOf(new) \subseteq KeysOf(mm)
           /\ \A i \in 1..Len(a) : /\ mm[i].key = a[i].key
                                   /\ a[i].key \notin KeysOf(new) => mm[i] = a[i]
           /\ \A i \in 1..Len(mm) : i \notin 1..Len(a) => mm[i].key \in KeysOf(new) \ KeysOf(a) /\ mm[i].dirty
    BY <1>2, Merging
  <2> QED
    BY <2>1 DEF m
<1>5. \A k \in Key \ (untracked \cup foreign) : Mirrored(a, k, store[k])
  BY DEF Books, Mirrors, a
<1>6. Doubled(a) \subseteq untracked /\ \A k \in Doubled(a) : k \in untracked'
  <2>1. ASSUME NEW i \in 1..Len(a), NEW o \in 1..Len(a), i # o, a[i].key = a[o].key
        PROVE  a[i].key \in untracked
    BY <1>1, <2>1 DEF Books, Twice, a
  <2>2. Doubled(a) \subseteq untracked
    BY <2>1 DEF Doubled
  <2> QED
    BY <1>1, <2>2
<1>7. ASSUME NEW i \in 1..Len(m), NEW o \in 1..Len(m), i # o, m[i].key = m[o].key, m[i].key \notin untracked'
      PROVE  m[i].dirty
  <2>1. CASE i \notin 1..Len(a)
    BY <1>4, <2>1
  <2>2. CASE i \in 1..Len(a) /\ o \notin 1..Len(a)
    <3>1. m[o].key \notin KeysOf(a) /\ m[i].key = a[i].key
      BY <1>4, <2>2
    <3> QED
      BY <1>7, <2>2, <3>1 DEF KeysOf
  <2>3. CASE i \in 1..Len(a) /\ o \in 1..Len(a)
    <3>1. a[i].key = a[o].key /\ m[i].key = a[i].key
      BY <1>4, <1>7, <2>3
    <3>2. a[i].key \in Doubled(a)
      BY <1>7, <2>3, <3>1 DEF Doubled
    <3> QED
      BY <1>6, <1>7, <3>1, <3>2
  <2> QED
    BY <2>1, <2>2, <2>3
<1>8. ASSUME NEW k \in Key \ (untracked' \cup foreign')
      PROVE  Mirrored(m, k, store'[k])
  <2>1. CASE k \in set
    <3>1. PICK i \in 1..Len(m) : m[i].key = k /\ (m[i].dirty \/ m[i].access = "Inherit")
      BY <2>1
    <3> QED
      BY <3>1 DEF Mirrored, KeysOf
  <2>2. CASE k \notin set
    <3>1. k \notin untracked /\ k \notin by /\ k \notin foreign /\ store'[k] = store[k]
      BY <1>1, <2>2
    <3>2. Mirrored(a, k, store[k])
      BY <1>5, <3>1
    <3>3. \A i \in 1..Len(m) : m[i].key = k => ~m[i].dirty /\ m[i].access # "Inherit" /\ i \in 1..Len(a)
      BY <1>4, <2>2
    <3>4. CASE k \in KeysOf(a)
      <4>1. PICK i \in 1..Len(a) : a[i].key = k /\ (a[i].dirty \/ a[i].access \in {"Inherit", store[k]})
        BY <3>2, <3>4 DEF Mirrored
      <4>2. i \in 1..Len(m) /\ m[i].key = k
        BY <1>2, <1>4, <4>1
      <4>3. m[i].access # "Inherit" /\ ~m[i].dirty
        BY <3>3, <4>2
      <4>4. ~(a[i].dirty \/ a[i].access # m[i].access)
        BY <3>1, <4>1, <4>3 DEF UntrackedBy
      <4>5. m[i].access = store[k]
        BY <4>1, <4>3, <4>4
      <4> QED
        BY <3>1, <4>2, <4>5 DEF Mirrored, KeysOf
    <3>5. CASE k \notin KeysOf(a)
      <4>1. k \notin KeysOf(m)
        BY <1>4, <3>3, <3>5 DEF KeysOf
      <4> QED
        BY <3>1, <3>2, <3>5, <4>1 DEF Mirrored
    <3> QED
      BY <3>4, <3>5
  <2> QED
    BY <2>1, <2>2
<1>9. \A x \in Client : job'[x].pc \notin {"delete", "upsert"}
  <2>1. \A x \in Client : job'[x].pc \in Busy <=> lock' = x
    BY <1>3 DEF Inv, LockOK
  <2> QED
    BY <1>1, <1>3, <2>1 DEF Busy
<1>10. \A k \in Key : store'[k] # "Inherit"
  BY <1>1 DEF Books, Stores
<1> HIDE DEF set, by
<1> QED
  BY <1>1, <1>3, <1>7, <1>8, <1>9, <1>10, Booked

\* What a flush takes from the rules.
LEMMA FlushBooks ==
  ASSUME Inv, Books, NEW c \in Client, Flush(c)
  PROVE  Books'
<1> DEFINE a == rules
           d == deletable(a)
           u == updatable(a)
           f == final(a)
           j == job'[c]
<1>1. /\ UNCHANGED <<heap, rulesAt, store, lock, untracked, foreign>> /\ a \in Seq(Rule)
      /\ job[c] \in Job /\ job[c].pc \in Busy
  BY RulesAre DEF Flush, Inv, Types, Busy
<1>21. \A n \in 1..Len(d) : \E i \in 1..Len(a) : d[n] = a[i] /\ a[i].access = "Inherit"
  BY <1>1, Flushing
<1>22. \A i \in 1..Len(a) : a[i].access = "Inherit" => \E n \in 1..Len(d) : d[n] = a[i]
  BY <1>1, Flushing
<1>23. \A n \in 1..Len(u) : \E i \in 1..Len(a) : u[n] = a[i] /\ a[i].access # "Inherit" /\ a[i].dirty
  BY <1>1, Flushing
<1>24. \A i \in 1..Len(a) : a[i].access # "Inherit" /\ a[i].dirty => \E n \in 1..Len(u) : u[n] = a[i]
  BY <1>1, Flushing
<1>25. \A n \in 1..Len(f) : \E i \in 1..Len(a) :
            f[n].key = a[i].key /\ f[n].access = a[i].access /\ a[i].access # "Inherit" /\ ~f[n].dirty
  BY <1>1, Flushing
<1>26. \A i \in 1..Len(a) : a[i].access # "Inherit" =>
            \E n \in 1..Len(f) : f[n].key = a[i].key /\ f[n].access = a[i].access
  BY <1>1, Flushing
<1>27. \A n, o \in 1..Len(f) : n # o =>
            \E i, l \in 1..Len(a) : /\ i # l /\ a[i].access # "Inherit"
                                    /\ f[n].key = a[i].key /\ f[o].key = a[l].key
  BY <1>1, Flushing
<1>3. /\ j.pc = "delete" /\ j.deletable = d /\ j.updatable = u /\ j.final = f
      /\ j.touched = job[c].touched
      /\ \A x \in Client \ {c} : job'[x] = job[x]
  <2>1. job' = [job EXCEPT ![c].pc = "delete", ![c].deletable = d, ![c].updatable = u, ![c].final = f]
    BY DEF Flush
  <2> HIDE DEF d, u, f
  <2> QED
    BY <1>1, <2>1 DEF Inv, Types, Job
<1>4. rules' = a
  BY <1>1 DEF rules
<1>5. /\ \A k \in Key \ (untracked \cup foreign) : Mirrored(a, k, store[k])
      /\ \A i, o \in 1..Len(a) : i # o /\ a[i].key = a[o].key /\ a[i].key \notin untracked =>
            a[i].dirty /\ lock # NoClient
      /\ \A k \in Key : store[k] # "Inherit"
  BY DEF Books, Mirrors, Twice, Stores
<1> HIDE DEF a, d, u, f, j
<1>6. Taken(j, a, store, untracked, foreign)
  <2>1. ASSUME NEW n \in 1..Len(u)
        PROVE  /\ u[n].access # "Inherit"
               /\ \E i \in 1..Len(a) : a[i].key = u[n].key /\ a[i].dirty
               /\ \E g \in 1..Len(f) : f[g].key = u[n].key /\ f[g].access = u[n].access
    <3>1. PICK i \in 1..Len(a) : u[n] = a[i] /\ a[i].access # "Inherit" /\ a[i].dirty
      BY <1>23
    <3> QED
      BY <1>26, <3>1
  <2>2. \A g \in 1..Len(f) : f[g].access # "Inherit" /\ ~f[g].dirty
    BY <1>25
  <2>3. ASSUME NEW g \in 1..Len(f), NEW h \in 1..Len(f), g # h, f[g].key = f[h].key, f[g].key \notin untracked
        PROVE  f[g].key \in KeysOf(u)
    <3>1. PICK i \in 1..Len(a), l \in 1..Len(a) : /\ i # l /\ a[i].access # "Inherit"
                                                  /\ f[g].key = a[i].key /\ f[h].key = a[l].key
      BY <1>27, <2>3
    <3>2. a[i].dirty
      BY <1>5, <2>3, <3>1
    <3>3. PICK n \in 1..Len(u) : u[n] = a[i]
      BY <1>24, <3>1, <3>2
    <3> QED
      BY <3>1, <3>3 DEF KeysOf
  <2>4. ASSUME NEW k \in Key \ (untracked \cup foreign), k \notin KeysOf(u),
               NEW g \in 1..Len(f), f[g].key = k
        PROVE  f[g].access = store[k] /\ k \notin KeysOf(d)
    <3>1. PICK i \in 1..Len(a) : f[g].key = a[i].key /\ f[g].access = a[i].access /\ a[i].access # "Inherit"
      BY <1>25
    <3>2. ~a[i].dirty
      BY <1>24, <2>4, <3>1 DEF KeysOf
    <3>3. \A o \in 1..Len(a) : a[o].key = k => o = i
      BY <1>5, <2>4, <3>1, <3>2
    <3>4. k \in KeysOf(a) /\ Mirrored(a, k, store[k])
      BY <1>5, <2>4, <3>1 DEF KeysOf
    <3>5. a[i].access = store[k]
      BY <3>1, <3>2, <3>3, <3>4 DEF Mirrored
    <3>6. k \notin KeysOf(d)
      <4> SUFFICES ASSUME NEW n \in 1..Len(d), d[n].key = k PROVE FALSE
        BY DEF KeysOf
      <4>1. PICK o \in 1..Len(a) : d[n] = a[o] /\ a[o].access = "Inherit"
        BY <1>21
      <4> QED
        BY <3>1, <3>3, <4>1
    <3> QED
      BY <3>1, <3>5, <3>6
  <2>5. \A k \in Key \ (untracked \cup foreign) : k \in KeysOf(f) /\ k \notin KeysOf(u) =>
          \A g \in 1..Len(f) : f[g].key = k => f[g].access = store[k]
    BY <2>4
  <2>6. \A k : Said(a, k) = Said(f, k)
    <3> SUFFICES ASSUME NEW k PROVE Said(a, k) = Said(f, k)
      OBVIOUS
    <3>1. ASSUME NEW v \in Said(a, k) PROVE v \in Said(f, k)
      <4>1. PICK i \in 1..Len(a) : a[i].key = k /\ v = a[i].access /\ v # "Inherit"
        BY <3>1 DEF Said
      <4>2. PICK n \in 1..Len(f) : f[n].key = a[i].key /\ f[n].access = a[i].access
        BY <1>26, <4>1
      <4> QED
        BY <4>1, <4>2 DEF Said
    <3>2. ASSUME NEW v \in Said(f, k) PROVE v \in Said(a, k)
      <4>1. PICK n \in 1..Len(f) : f[n].key = k /\ v = f[n].access /\ v # "Inherit"
        BY <3>2 DEF Said
      <4>2. PICK i \in 1..Len(a) : f[n].key = a[i].key /\ f[n].access = a[i].access
        BY <1>25
      <4> QED
        BY <4>1, <4>2 DEF Said
    <3> QED
      BY <3>1, <3>2
  <2> QED
    BY <1>3, <2>1, <2>2, <2>3, <2>5, <2>6 DEF Taken
<1>7. Waiting(j, a, store, untracked, foreign)
  <2>1. \A n \in 1..Len(d) : \E i \in 1..Len(a) : a[i].key = d[n].key /\ a[i].access = "Inherit"
    BY <1>21
  <2>2. ASSUME NEW k \in Key \ (untracked \cup foreign), k \in KeysOf(f), k \notin KeysOf(u)
        PROVE  k \notin KeysOf(d)
    <3>1. PICK g \in 1..Len(f) : f[g].key = k /\ f[g].access # "Inherit"
      BY <1>25, <2>2 DEF KeysOf
    <3>2. PICK i \in 1..Len(a) : f[g].key = a[i].key /\ a[i].access # "Inherit"
      BY <1>25
    <3>3. ~a[i].dirty
      BY <1>24, <2>2, <3>1, <3>2 DEF KeysOf
    <3>4. \A o \in 1..Len(a) : a[o].key = k => o = i
      BY <1>5, <2>2, <3>1, <3>2, <3>3
    <3> SUFFICES ASSUME NEW n \in 1..Len(d), d[n].key = k PROVE FALSE
      BY DEF KeysOf
    <3>5. PICK o \in 1..Len(a) : d[n] = a[o] /\ a[o].access = "Inherit"
      BY <1>21
    <3> QED
      BY <3>2, <3>4, <3>5
  <2>3. ASSUME NEW k \in Key \ (untracked \cup foreign), k \notin KeysOf(f)
        PROVE  k \in KeysOf(d) \/ store[k] = Unset
    <3>1. \A i \in 1..Len(a) : a[i].key = k => a[i].access = "Inherit"
      BY <1>26, <2>3 DEF KeysOf
    <3>2. CASE k \in KeysOf(a)
      BY <1>22, <3>1, <3>2 DEF KeysOf
    <3>3. CASE k \notin KeysOf(a)
      BY <1>5, <2>3, <3>3 DEF Mirrored
    <3> QED
      BY <3>2, <3>3
  <2> QED
    BY <1>3, <2>1, <2>2, <2>3 DEF Waiting
<1>8. \A x \in Client : job'[x].pc \in {"delete", "upsert"} => x = c
  BY <1>1, <1>3, Holder DEF Busy
<1> QED
  <2>1. /\ \A k \in Key \ (untracked' \cup foreign') : Mirrored(rules', k, store'[k])
        /\ \A i, o \in 1..Len(rules') :
              i # o /\ rules'[i].key = rules'[o].key /\ rules'[i].key \notin untracked' =>
                  rules'[i].dirty /\ lock' # NoClient
        /\ \A k \in Key : store'[k] # "Inherit"
    BY <1>1, <1>4, <1>5
  <2>2. ASSUME NEW x \in Client
        PROVE  /\ job'[x].pc \in {"delete", "upsert"} => Taken(job'[x], rules', store', untracked', foreign')
               /\ job'[x].pc = "delete" => Waiting(job'[x], rules', store', untracked', foreign')
               /\ job'[x].pc = "upsert" => Gone(job'[x], store', untracked', foreign')
    <3>1. CASE x = c
      BY <1>1, <1>3, <1>4, <1>6, <1>7, <3>1 DEF j
    <3>2. CASE x # c
      BY <1>8, <3>2
    <3> QED
      BY <3>1, <3>2
  <2> QED
    BY <2>1, <2>2, Booked

\* A table that lost rows of rules that inherit.
LEMMA Clearing ==
  ASSUME NEW a, NEW d, NEW st, NEW n \in 0..Len(d), NEW k \in Key, Mirrored(a, k, st[k]), st[k] # "Inherit",
         \A l \in 1..Len(d) : \E i \in 1..Len(a) : a[i].key = d[l].key /\ a[i].access = "Inherit"
  PROVE  Mirrored(a, k, Deleted(st, d, n)[k]) /\ Deleted(st, d, n)[k] # "Inherit"
<1> DEFINE v == Deleted(st, d, n)[k]
<1>1. CASE v = st[k]
  BY <1>1
<1>2. CASE v = Unset /\ \E l \in 1..n : d[l].key = k
  <2>1. PICK l \in 1..n : d[l].key = k
    BY <1>2
  <2>2. l \in 1..Len(d) \/ Len(d) \notin Nat
    OBVIOUS
  <2>3. l \in 1..Len(d)
    OBVIOUS
  <2>4. PICK i \in 1..Len(a) : a[i].key = k /\ a[i].access = "Inherit"
    BY <2>1, <2>3
  <2>5. Mirrored(a, k, v)
    BY <2>4 DEF Mirrored, KeysOf
  <2> QED
    BY <1>2, <2>5 DEF Unset
<1> QED
  BY <1>1, <1>2, Deleting

\* A table to which rules were written that wait for it.
LEMMA Writing ==
  ASSUME NEW a, NEW u \in Seq(Rule), NEW st, NEW n \in 0..Len(u), NEW k \in Key,
         Mirrored(a, k, st[k]), st[k] # "Inherit",
         \A l \in 1..Len(u) : u[l].access # "Inherit" /\ \E i \in 1..Len(a) : a[i].key = u[l].key /\ a[i].dirty
  PROVE  Mirrored(a, k, Upserted(st, u, n)[k]) /\ Upserted(st, u, n)[k] # "Inherit"
<1> DEFINE v == Upserted(st, u, n)[k]
<1>1. CASE v = st[k]
  BY <1>1
<1>2. CASE \E l \in 1..n : u[l].key = k /\ v = u[l].access
  <2>1. PICK l \in 1..n : u[l].key = k /\ v = u[l].access
    BY <1>2
  <2>2. l \in 1..Len(u)
    OBVIOUS
  <2>3. PICK i \in 1..Len(a) : a[i].key = k /\ a[i].dirty
    BY <2>1, <2>2
  <2>4. Mirrored(a, k, v) /\ v # "Inherit"
    BY <2>1, <2>2, <2>3 DEF Mirrored, KeysOf
  <2> QED
    BY <2>4
<1> QED
  BY <1>1, <1>2, Upserting

\* A call that fails leaves the rules, and loses track of those it doubled.
LEMMA AbortBooks ==
  ASSUME Inv, Books, NEW c \in Client, Abort(c), job[c].pc \in Busy,
         \A k \in Key \ (untracked \cup foreign) : Mirrored(rules, k, store'[k]),
         \A k \in Key : store'[k] # "Inherit"
  PROVE  Books'
<1>1. /\ UNCHANGED <<heap, rulesAt, foreign>> /\ untracked' = untracked \cup Doubled(rules)
      /\ job' = [job EXCEPT ![c] = NoJob]
  BY DEF Abort
<1>2. rules' = rules
  BY <1>1 DEF rules
<1>3. \A x \in Client : job'[x].pc \notin {"delete", "upsert"}
  <2>1. NoJob.pc = "idle" /\ job'[c] = NoJob /\ \A x \in Client \ {c} : job'[x] = job[x]
    BY <1>1, NoJobIs, Alone DEF Inv
  <2> QED
    BY <2>1, Holder DEF Busy
<1>4. \A k \in Key \ (untracked' \cup foreign') : Mirrored(rules', k, store'[k])
  BY <1>1, <1>2
<1>5. \A i, o \in 1..Len(rules') : i # o /\ rules'[i].key = rules'[o].key => rules'[i].key \in untracked'
  BY <1>1, <1>2 DEF Doubled
<1> QED
  BY <1>3, <1>4, <1>5, Booked

LEMMA FailsBooks ==
  ASSUME Inv, Books, NEW c \in Client, DeleteFails(c) \/ UpsertFails(c)
  PROVE  Books'
<1> DEFINE j == job[c]
<1>1. j \in Job /\ j.deletable \in Seq(Rule) /\ j.updatable \in Seq(Rule) /\ Abort(c) /\ j.pc \in Busy
  BY DEF DeleteFails, UpsertFails, Inv, Types, Job, Busy
<1>2. /\ \A k \in Key \ (untracked \cup foreign) : Mirrored(rules, k, store[k])
      /\ \A k \in Key : store[k] # "Inherit"
  BY DEF Books, Mirrors, Stores
<1>3. CASE DeleteFails(c)
  <2>1. PICK n \in 0..(Len(j.deletable) - 1) : store' = Deleted(store, j.deletable, n)
    BY <1>3 DEF DeleteFails
  <2>2. n \in 0..Len(j.deletable)
    BY <1>1
  <2>3. \A l \in 1..Len(j.deletable) :
          \E i \in 1..Len(rules) : rules[i].key = j.deletable[l].key /\ rules[i].access = "Inherit"
    BY <1>3 DEF Books, Flushed, Waiting, DeleteFails
  <2>4. \A k \in Key \ (untracked \cup foreign) : Mirrored(rules, k, store'[k])
    BY <1>2, <2>1, <2>2, <2>3, Clearing
  <2>5. \A k \in Key : store'[k] # "Inherit"
    BY <1>2, <2>1 DEF Deleted, Unset
  <2> QED
    BY <1>1, <2>4, <2>5, AbortBooks
<1>4. CASE UpsertFails(c)
  <2>1. PICK n \in 0..(Len(j.updatable) - 1) : store' = Upserted(store, j.updatable, n)
    BY <1>4 DEF UpsertFails
  <2>2. n \in 0..Len(j.updatable)
    BY <1>1
  <2>3. \A l \in 1..Len(j.updatable) :
          j.updatable[l].access # "Inherit" /\ \E i \in 1..Len(rules) : rules[i].key = j.updatable[l].key /\ rules[i].dirty
    BY <1>4 DEF Books, Flushed, Taken, UpsertFails
  <2>4. \A k \in Key \ (untracked \cup foreign) : Mirrored(rules, k, store'[k])
    BY <1>1, <1>2, <2>1, <2>2, <2>3, Writing
  <2>5. ASSUME NEW k \in Key PROVE store'[k] # "Inherit"
    <3> DEFINE u == j.updatable
    <3>0. u \in Seq(Rule) /\ n \in 0..Len(u) /\ store'[k] = Upserted(store, u, n)[k]
      BY <1>1, <2>1, <2>2
    <3> HIDE DEF u
    <3>3. \/ Upserted(store, u, n)[k] = store[k]
          \/ \E i \in 1..n : Upserted(store, u, n)[k] = u[i].access
      BY <3>0, Upserting
    <3>1. \/ store'[k] = store[k]
          \/ \E i \in 1..n : store'[k] = u[i].access
      BY <3>0, <3>3
    <3>2. \A i \in 1..n : i \in 1..Len(j.updatable)
      BY <2>2
    <3> QED
      BY <1>2, <2>3, <3>1, <3>2 DEF u
  <2> QED
    BY <1>1, <2>4, <2>5, AbortBooks
<1> QED
  BY <1>3, <1>4

LEMMA DeleteBooks ==
  ASSUME Inv, Books, NEW c \in Client, DeleteRules(c)
  PROVE  Books'
<1> DEFINE j == job[c]
           d == j.deletable
           a == rules
           j2 == job'[c]
<1>1. /\ j \in Job /\ j.pc = "delete" /\ j.pc \in Busy /\ d \in Seq(Rule) /\ Len(d) \in 0..Len(d)
      /\ UNCHANGED <<heap, rulesAt, lock, untracked, foreign>>
      /\ store' = Deleted(store, d, Len(d)) /\ job' = [job EXCEPT ![c] = [j EXCEPT !.pc = "upsert"]]
  <2>1. j \in Job /\ j.pc = "delete" /\ d \in Seq(Rule)
    BY DEF DeleteRules, Inv, Types, Job
  <2> QED
    BY <2>1 DEF DeleteRules, Busy
<1>2. /\ j2.pc = "upsert" /\ j2.updatable = j.updatable /\ j2.final = j.final /\ j2.touched = j.touched
      /\ \A x \in Client \ {c} : job'[x] = job[x]
  BY <1>1 DEF Inv, Types, Job
<1>3. rules' = a
  BY <1>1 DEF rules
<1>4. /\ \A k \in Key \ (untracked \cup foreign) : Mirrored(a, k, store[k])
      /\ \A k \in Key : store[k] # "Inherit"
      /\ Taken(j, a, store, untracked, foreign) /\ Waiting(j, a, store, untracked, foreign)
  BY <1>1 DEF Books, Mirrors, Stores, Flushed
<1>5. \A i, o \in 1..Len(a) : i # o /\ a[i].key = a[o].key /\ a[i].key \notin untracked =>
         a[i].dirty /\ lock # NoClient
  BY DEF Books, Twice
<1> HIDE DEF j, d, a, j2
<1>6. \A k \in Key \ (untracked \cup foreign) : Mirrored(a, k, store'[k])
  <2>1. \A l \in 1..Len(d) : \E i \in 1..Len(a) : a[i].key = d[l].key /\ a[i].access = "Inherit"
    BY <1>4 DEF Waiting, d
  <2> QED
    BY <1>1, <1>4, <2>1, Clearing
<1>7. \A k \in Key : store'[k] # "Inherit"
  BY <1>1, <1>4 DEF Deleted, Unset
<1>8. \A k \in Key : IF k \in KeysOf(d) THEN store'[k] = Unset ELSE store'[k] = store[k]
  BY <1>1 DEF Deleted, KeysOf
<1>9. Taken(j2, a, store', untracked, foreign)
  <2>1. \A k \in Key \ (untracked \cup foreign) : k \in KeysOf(j.final) /\ k \notin KeysOf(j.updatable) =>
          \A f \in 1..Len(j.final) : j.final[f].key = k => j.final[f].access = store'[k]
    BY <1>4, <1>8 DEF Taken, Waiting, d
  <2> QED
    BY <1>2, <1>4, <2>1 DEF Taken
<1>10. Gone(j2, store', untracked, foreign)
  BY <1>2, <1>4, <1>8 DEF Waiting, Gone, d
<1>11. \A x \in Client : job'[x].pc \in {"delete", "upsert"} => x = c
  BY <1>1, <1>2, Holder DEF Busy, j
<1>12. ASSUME NEW x \in Client
       PROVE  /\ job'[x].pc \in {"delete", "upsert"} => Taken(job'[x], rules', store', untracked', foreign')
              /\ job'[x].pc = "delete" => Waiting(job'[x], rules', store', untracked', foreign')
              /\ job'[x].pc = "upsert" => Gone(job'[x], store', untracked', foreign')
  <2>1. CASE x = c
    BY <1>1, <1>2, <1>3, <1>9, <1>10, <2>1 DEF j2
  <2>2. CASE x # c
    BY <1>11, <2>2
  <2> QED
    BY <2>1, <2>2
<1> QED
  BY <1>1, <1>3, <1>5, <1>6, <1>7, <1>12, Booked

\* The copies that take the place of the rules are what the table now has.
LEMMA UpsertBooks ==
  ASSUME Inv, Books, NEW c \in Client, UpsertRules(c)
  PROVE  Books'
<1> DEFINE j == job[c]
           u == j.updatable
           f == j.final
<1>1. /\ j \in Job /\ j.pc = "upsert" /\ j.pc \in Busy /\ u \in Seq(Rule) /\ Len(u) \in 0..Len(u)
      /\ store' = Upserted(store, u, Len(u)) /\ foreign' = foreign
      /\ untracked' = untracked \cup Doubled(f)
  <2>1. j \in Job /\ j.pc = "upsert" /\ u \in Seq(Rule)
    BY DEF UpsertRules, Inv, Types, Job
  <2> QED
    BY <2>1 DEF UpsertRules, Busy
<1>2. Inv' /\ rules' = f /\ (\A x \in Client : job'[x].pc \notin {"delete", "upsert"})
  <2>1. Inv' /\ rules' = f /\ \A x \in Client \ {c} : job'[x] = job[x]
    BY UpsertRulesInv DEF rules
  <2>2. job'[c].pc = "idle"
    BY NoJobIs, Alone DEF UpsertRules, Inv
  <2> QED
    BY <1>1, <2>1, <2>2, Holder DEF Busy
<1>3. Taken(j, rules, store, untracked, foreign) /\ Gone(j, store, untracked, foreign)
      /\ \A k \in Key : store[k] # "Inherit"
  BY <1>1 DEF Books, Flushed, Stores
<1>4. /\ \A l \in 1..Len(u) : /\ u[l].access # "Inherit"
                              /\ \E g \in 1..Len(f) : f[g].key = u[l].key /\ f[g].access = u[l].access
      /\ \A k \in Key \ (untracked \cup foreign) : k \notin KeysOf(u) =>
            \A g \in 1..Len(f) : f[g].key = k => f[g].access = store[k]
      /\ \A k \in Key \ (untracked \cup foreign) : k \notin KeysOf(f) => store[k] = Unset
  <2>1. \A l \in 1..Len(u) : /\ u[l].access # "Inherit"
                             /\ \E g \in 1..Len(f) : f[g].key = u[l].key /\ f[g].access = u[l].access
    BY <1>3 DEF Taken
  <2>2. ASSUME NEW k \in Key \ (untracked \cup foreign), k \notin KeysOf(u), NEW g \in 1..Len(f), f[g].key = k
        PROVE  f[g].access = store[k]
    <3>1. k \in KeysOf(f)
      BY <2>2 DEF KeysOf
    <3> QED
      BY <1>3, <2>2, <3>1 DEF Taken
  <2>3. \A k \in Key \ (untracked \cup foreign) : k \notin KeysOf(f) => store[k] = Unset
    BY <1>3 DEF Gone
  <2> QED
    BY <2>1, <2>2, <2>3
<1> HIDE DEF j, u, f
<1>5. \A k \in Key : \/ store'[k] = store[k] /\ k \notin KeysOf(u)
                     \/ \E l \in 1..Len(u) : u[l].key = k /\ store'[k] = u[l].access
  <2> SUFFICES ASSUME NEW k \in Key
               PROVE  \/ store'[k] = store[k] /\ k \notin KeysOf(u)
                      \/ \E l \in 1..Len(u) : u[l].key = k /\ store'[k] = u[l].access
    OBVIOUS
  <2> DEFINE v == Upserted(store, u, Len(u))[k]
  <2>1. \/ v = store[k] /\ \A i \in 1..Len(u) : u[i].key # k
        \/ \E i \in 1..Len(u) : u[i].key = k /\ v = u[i].access
    BY <1>1, Upserting
  <2>2. store'[k] = v
    BY <1>1
  <2> HIDE DEF v
  <2> QED
    BY <2>1, <2>2 DEF KeysOf
<1>6. ASSUME NEW k \in Key \ (untracked' \cup foreign')
      PROVE  Mirrored(f, k, store'[k])
  <2>1. k \in Key \ (untracked \cup foreign) /\ k \notin Doubled(f)
    BY <1>1
  <2>2. CASE k \in KeysOf(f)
    <3>1. PICK g \in 1..Len(f) : f[g].key = k
      BY <2>2 DEF KeysOf
    <3>2. \A h \in 1..Len(f) : f[h].key = k => h = g
      BY <2>1, <3>1 DEF Doubled
    <3>3. f[g].access = store'[k]
      <4>1. CASE store'[k] = store[k] /\ k \notin KeysOf(u)
        BY <1>4, <2>1, <3>1, <4>1
      <4>2. CASE \E l \in 1..Len(u) : u[l].key = k /\ store'[k] = u[l].access
        BY <1>4, <3>2, <4>2
      <4> QED
        BY <1>5, <2>1, <4>1, <4>2
    <3> QED
      BY <2>2, <3>1, <3>3 DEF Mirrored
  <2>3. CASE k \notin KeysOf(f)
    <3>1. k \notin KeysOf(u)
      BY <1>4, <2>3 DEF KeysOf
    <3>2. store'[k] = store[k]
      BY <1>5, <2>1, <3>1 DEF KeysOf
    <3> QED
      BY <1>4, <2>1, <2>3, <3>2 DEF Mirrored
  <2> QED
    BY <2>2, <2>3
<1>7. \A i, o \in 1..Len(f) : i # o /\ f[i].key = f[o].key => f[i].key \in untracked'
  BY <1>1 DEF Doubled
<1>8. \A k \in Key : store'[k] # "Inherit"
  BY <1>3, <1>4, <1>5
<1> QED
  BY <1>2, <1>6, <1>7, <1>8, Booked

\* A reload starts from the table.
LEMMA ReloadBooks ==
  ASSUME Inv, Books, Reload
  PROVE  Books'
<1> DEFINE rs == Stored(store)
<1>1. Inv' /\ rules' = rs /\ UNCHANGED store /\ lock = NoClient
  BY ReloadInv DEF rules, Reload
<1>2. \A x \in Client : job'[x].pc \notin {"delete", "upsert"}
  <2>1. \A x \in Client : job'[x].pc = job[x].pc
    BY ReloadInv DEF SameJob
  <2> QED
    BY <1>1, <2>1, Nobody DEF Busy
<1>3. \A k \in Key : store[k] \in Access \cup {Unset} /\ store[k] # "Inherit"
  BY DEF Books, Stores, Inv, Types
<1>4. /\ \A i \in 1..Len(rs) : /\ rs[i].key \in Key /\ store[rs[i].key] # Unset
                               /\ rs[i].access = store[rs[i].key] /\ ~rs[i].dirty
      /\ \A k \in Key : store[k] # Unset => \E i \in 1..Len(rs) : rs[i].key = k
      /\ \A i, j \in 1..Len(rs) : rs[i].key = rs[j].key => i = j
  BY <1>3, Storing
<1> HIDE DEF rs
<1>5. ASSUME NEW k \in Key PROVE Mirrored(rs, k, store'[k])
  <2>1. CASE k \in KeysOf(rs)
    <3>1. PICK i \in 1..Len(rs) : rs[i].key = k
      BY <2>1 DEF KeysOf
    <3> QED
      BY <1>1, <1>4, <2>1, <3>1 DEF Mirrored
  <2>2. CASE k \notin KeysOf(rs)
    BY <1>1, <1>4, <2>2 DEF Mirrored, KeysOf
  <2> QED
    BY <2>1, <2>2
<1> QED
  BY <1>1, <1>2, <1>3, <1>4, <1>5, Booked

\* A clone writes to rules of its target only, and makes them inherit.
LEMMA CloneWrites ==
  ASSUME Inv, NEW c \in Client, CloneWrite(c)
  PROVE  /\ Fades(rules, rules') /\ Fades(indexed, indexed')
         /\ \A k \in Key : k.role # Head(job[c].to) =>
               Said(rules', k) = Said(rules, k) /\ Said(indexed', k) = Said(indexed, k)
         /\ \A i \in 1..Len(rules) : rules[i].key.role # Head(job[c].to) => rules'[i] = rules[i]
<1> DEFINE ex == job[c].existing
           t  == Head(job[c].to)
<1>1. Types /\ heap' = Inherited(ex) /\ UNCHANGED <<rulesAt, indexedAt>>
  BY CloneWriteInv DEF Inv, CloneWrite
<1>2. \A n \in 1..Len(ex) : ex[n].at # <<>> /\ heap[ex[n].at[1]][ex[n].at[2]].key.role = t
  BY DEF CloneWrite, Inv, PointedAt
<1> HIDE DEF ex, t
<1>3. ASSUME NEW g \in Generation
      PROVE  /\ Fades(heap[g], heap'[g])
             /\ \A i \in 1..Len(heap[g]) : heap[g][i].key.role # t => heap'[g][i] = heap[g][i]
             /\ \A k : k.role # t => Said(heap'[g], k) = Said(heap[g], k)
  <2> DEFINE a == heap[g]
             b == heap'[g]
  <2>1. /\ Len(b) = Len(a)
        /\ \A i \in 1..Len(a) :
              /\ b[i].key = a[i].key /\ b[i].dirty = a[i].dirty
              /\ IF \E n \in 1..Len(ex) : ex[n].at = <<g, i>> THEN b[i].access = "Inherit" ELSE b[i] = a[i]
    <3> DEFINE h == Inherited(ex)[g]
    <3>1. /\ Len(h) = Len(a)
          /\ \A i \in 1..Len(a) :
                /\ h[i].key = a[i].key /\ h[i].dirty = a[i].dirty
                /\ IF \E n \in 1..Len(ex) : ex[n].at = <<g, i>> THEN h[i].access = "Inherit" ELSE h[i] = a[i]
      BY <1>1, Inheriting
    <3>2. b = h
      BY <1>1
    <3> HIDE DEF h, a, b
    <3> QED
      BY <3>1, <3>2
  <2>2. ASSUME NEW i \in 1..Len(a), NEW n \in 1..Len(ex), ex[n].at = <<g, i>> PROVE a[i].key.role = t
    BY <1>2, <2>2
  <2> HIDE DEF a, b
  <2>3. \A i \in 1..Len(a) : a[i].key.role # t => b[i] = a[i]
    BY <2>1, <2>2
  <2>4. Fades(a, b)
    BY <2>1 DEF Fades
  <2>5. ASSUME NEW k, k.role # t PROVE Said(b, k) = Said(a, k)
    <3>1. \A i \in 1..Len(a) : a[i].key = k => b[i] = a[i]
      BY <2>3, <2>5
    <3>2. \A i \in 1..Len(a) : b[i].key = a[i].key
      BY <2>1
    <3>3. {i \in 1..Len(b) : b[i].key = k} = {i \in 1..Len(a) : a[i].key = k}
      BY <2>1, <3>2
    <3> QED
      BY <2>1, <3>1, <3>3 DEF Said
  <2> QED
    BY <2>3, <2>4, <2>5 DEF a, b
<1>4. /\ rulesAt \in Generation /\ indexedAt \in Generation
      /\ rules = heap[rulesAt] /\ indexed = heap[indexedAt]
      /\ rules' = heap'[rulesAt] /\ indexed' = heap'[indexedAt]
  BY <1>1 DEF Types, rules, indexed
<1> QED
  BY <1>3, <1>4 DEF t

LEMMA SelfFades == ASSUME Types, rules' = rules PROVE Fades(rules, rules')
BY DEF Fades

\* What a step that leaves the rules alone leaves of a call.
LEMMA QuietSteps ==
  ASSUME Inv, Books, rules' = rules, untracked' = untracked, foreign \subseteq foreign', lock' = lock,
         \A k \in Key : store'[k] # "Inherit",
         \A k \in Key \ foreign' : store'[k] = store[k],
         \A x \in Client : SameJob(x) \/ job'[x].pc \notin Busy
  PROVE  Books'
<1>1. \A x \in Client : job'[x].pc \in {"delete", "upsert"} => job'[x].pc = job[x].pc /\ Unharmed(x)
  BY DEF SameJob, Unharmed, Busy
<1> QED
  BY <1>1, SelfFades, QuietBooks DEF Inv

LEMMA CloneSteps ==
  ASSUME Inv, NEW c \in Client, Clone(c) \/ CloneFind(c)
  PROVE  \A x \in Client : SameJob(x) \/ job'[x].pc \notin Busy
<1>3. Types /\ job \in [Client -> Job]
  BY DEF Inv, Types
<1>4. job'[c].pc \notin Busy /\ \A x \in Client \ {c} : job'[x] = job[x]
  <2>1. CASE Clone(c)
    <3>1. PICK a \in Clones :
             job' = [job EXCEPT ![c] = [NoJob EXCEPT !.pc = "find", !.from = ruleByRole(a.from),
                                                     !.to = a.to, !.clone = TRUE]]
      BY <2>1 DEF Clone
    <3> DEFINE p == ruleByRole(a.from)
    <3>2. [NoJob EXCEPT !.pc = "find", !.from = p, !.to = a.to, !.clone = TRUE].pc = "find"
      <4> HIDE DEF p
      <4> QED
        BY DEF NoJob
    <3> QED
      BY <1>3, <3>1, <3>2 DEF Busy
  <2>2. CASE CloneFind(c)
    <3> DEFINE p == ruleByRole(Head(job[c].to))
    <3>1. job' = [job EXCEPT ![c].pc = "write", ![c].existing = p]
      BY <2>2 DEF CloneFind
    <3> HIDE DEF p
    <3>2. job'[c].pc = "write" /\ \A x \in Client \ {c} : job'[x] = job[x]
      BY <1>3, <3>1 DEF Job
    <3> QED
      BY <3>2 DEF Busy
  <2> QED
    BY <2>1, <2>2
<1> QED
  BY <1>3, <1>4 DEF SameJob

LEMMA CloneBooks ==
  ASSUME Inv, Books, NEW c \in Client, Clone(c) \/ CloneFind(c)
  PROVE  Books'
<1>1. UNCHANGED <<heap, rulesAt, store, lock, untracked, foreign>>
  BY DEF Clone, CloneFind
<1>2. rules' = rules /\ \A k \in Key : store'[k] # "Inherit"
  BY <1>1 DEF rules, Books, Stores
<1> QED
  BY <1>1, <1>2, CloneSteps, QuietSteps

LEMMA CloneWriteBooks ==
  ASSUME Inv, Books, NEW c \in Client, CloneWrite(c)
  PROVE  Books'
<1>1. UNCHANGED <<store, lock, untracked, foreign>> /\ \A k \in Key : store'[k] # "Inherit"
  BY DEF CloneWrite, Books, Stores
<1>2. Fades(rules, rules') /\ \A k \in Key : k.role # Head(job[c].to) => Said(rules', k) = Said(rules, k)
  BY CloneWrites
<1>3. ASSUME NEW x \in Client, job'[x].pc \in {"delete", "upsert"}
      PROVE  job'[x].pc = job[x].pc /\ Unharmed(x)
  <2>1. x # c /\ SameJob(x) /\ job[x].pc # "idle"
        /\ {k \in Key : k.role = Head(job[c].to)} \subseteq job'[x].touched
    BY <1>3, CloneWriteInv DEF SameJob
  <2>2. \A k \in Key \ job'[x].touched : Said(rules', k) = Said(rules, k)
    BY <1>2, <2>1
  <2> QED
    BY <2>1, <2>2 DEF SameJob, Unharmed
<1> QED
  BY <1>1, <1>2, <1>3, QuietBooks

LEMMA ImportBooks ==
  ASSUME Inv, Books, Import
  PROVE  Books'
<1>1. PICK i \in Imports : store' = [store EXCEPT ![i.key] = i.access] /\ foreign' = foreign \cup {i.key}
  BY DEF Import
<1>2. UNCHANGED <<heap, rulesAt, lock, untracked>> /\ \A x \in Client : SameJob(x)
  BY ImportInv DEF Import
<1>3. i.key \in Key /\ i.access # "Inherit" /\ store \in [Key -> Access \cup {Unset}]
  BY ImportsAssumption DEF Inv, Types
<1>4. \A k \in Key : store'[k] # "Inherit" /\ (k \notin foreign' => store'[k] = store[k])
  BY <1>1, <1>3 DEF Books, Stores
<1>5. rules' = rules
  BY <1>2 DEF rules
<1> QED
  BY <1>1, <1>2, <1>4, <1>5, QuietSteps

LEMMA SameBooks ==
  ASSUME Inv, Books, UNCHANGED <<heap, rulesAt, store, lock, job, untracked, foreign>>
  PROVE  Books'
<1>1. \A x \in Client : SameJob(x)
  BY DEF SameJob, Inv, Types
<1>2. rules' = rules /\ \A k \in Key : store'[k] # "Inherit"
  BY DEF rules, Books, Stores
<1> QED
  BY <1>1, <1>2, QuietSteps

LEMMA InitBooks == Init => Books
<1> SUFFICES ASSUME Init PROVE Books
  OBVIOUS
<1>1. Inv /\ job = [c \in Client |-> NoJob] /\ NoJob.pc = "idle"
  BY InitInv, NoJobIs DEF Init
<1>2. rules = <<>> /\ Len(<<>>) = 0
  <2>1. rulesAt \in Generation
    BY <1>1 DEF Inv, Types
  <2> QED
    BY <2>1 DEF Init, rules
<1>3. KeysOf(rules) = {}
  BY <1>2 DEF KeysOf
<1>4. Mirrors /\ Twice /\ Stores
  BY <1>2, <1>3 DEF Init, Mirrors, Mirrored, Twice, Stores, Unset
<1>5. Flushed
  BY <1>1 DEF Flushed
<1> QED
  BY <1>4, <1>5 DEF Books

LEMMA NextBooks ==
  ASSUME Inv, Books, [Next]_vars
  PROVE  Books'
<1>1. ASSUME UpdateRoles \/ UNCHANGED vars PROVE Books'
  <2>1. UNCHANGED <<heap, rulesAt, store, lock, job, untracked, foreign>>
    BY <1>1 DEF UpdateRoles, vars
  <2> QED
    BY <2>1, SameBooks
<1>2. ASSUME NEW c \in Client, Grant(c) \/ CloneGrant(c) PROVE Books'
  <2>1. PICK news \in Seq(Pointer), was \in Job :
            /\ ValidAt(heap, news) /\ was.existing = <<>> /\ Merge(c, news, was)
            /\ job[c].pc \notin Busy /\ calls' \in 0..MaxCalls
    BY <1>2, GrantMerges
  <2> QED
    BY <2>1, MergeBooks
<1>3. ASSUME NEW c \in Client, ClientStep(c) PROVE Books'
  BY <1>2, <1>3, FlushBooks, DeleteBooks, FailsBooks, UpsertBooks, CloneBooks, CloneWriteBooks
     DEF ClientStep
<1> QED
  BY <1>1, <1>2, <1>3, CloneBooks, ReloadBooks, ImportBooks DEF Next

\* The table is what the service believes it to be, whatever fails, for every key
\* but those it lost track of and those written behind it.
THEOREM MirrorsStore == Spec => []CacheMirrorsStore
<1>1. Init => Inv /\ Books
  BY InitInv, InitBooks
<1>2. (Inv /\ Books) /\ [Next]_vars => (Inv /\ Books)'
  BY NextInv, NextBooks
<1>3. Inv /\ Books => CacheMirrorsStore
  BY DEF Books, Mirrors, Mirrored, CacheMirrorsStore
<1> QED
  BY <1>1, <1>2, <1>3, PTL DEF Spec

-----------------------------------------------------------------------------
(* What callers were promised *)

\* A promise that the rules, the index and the table keep.
Shown(k, a, rs, ix, st) ==
    /\ \A i \in 1..Len(rs) : rs[i].key = k => ~rs[i].dirty /\ rs[i].access = a /\ a # "Inherit"
    /\ a # "Inherit" => k \in KeysOf(rs)
    /\ Said(ix, k) = {a} \ {"Inherit"}
    /\ StoredAccess(st, k) = a

\* A flush under way that does not touch it.
Safe(j, k, a) ==
    j.pc \in {"delete", "upsert"} =>
        /\ k \notin KeysOf(j.updatable)
        /\ j.pc = "delete" => k \notin KeysOf(j.deletable)
        /\ \A f \in 1..Len(j.final) : j.final[f].key = k => j.final[f].access = a
        /\ a # "Inherit" => k \in KeysOf(j.final)

\* What is promised of a key the service has not lost, nor found written behind it.
Promised(k) == promised[k] # Unset /\ k \notin untracked /\ k \notin foreign

\* Nothing waits to be written or deleted: such a key is not tracked again before
\* somebody changes it or the rules are reloaded.
Quiet(k, rs) == \A i \in 1..Len(rs) : rs[i].key = k => ~rs[i].dirty /\ rs[i].access # "Inherit"

Promises ==
    /\ \A k \in Key : promised[k] # Unset => Quiet(k, rules)
    /\ \A k \in Key : Promised(k) =>
          /\ Shown(k, promised[k], rules, indexed, store)
          /\ \A c \in Client : Safe(job[c], k, promised[k])

LEMMA Promising ==
  ASSUME \A k \in Key : promised'[k] # Unset => Quiet(k, rules'),
         \A k \in Key : Promised(k)' =>
            /\ Shown(k, promised'[k], rules', indexed', store')
            /\ \A c \in Client : Safe(job'[c], k, promised'[k])
  PROVE  Promises'
BY DEF Promises, Quiet, Shown, Safe, Said, StoredAccess, KeysOf

LEMMA ShownSaid ==
  ASSUME NEW k, NEW a, NEW rs, a # "Inherit" => k \in KeysOf(rs),
         \A i \in 1..Len(rs) : rs[i].key = k => rs[i].access = a /\ a # "Inherit"
  PROVE  Said(rs, k) = {a} \ {"Inherit"}
<1>1. Said(rs, k) \subseteq {a} \ {"Inherit"}
  BY DEF Said
<1>2. ASSUME a # "Inherit" PROVE a \in Said(rs, k)
  <2>1. PICK i \in 1..Len(rs) : rs[i].key = k
    BY <1>2 DEF KeysOf
  <2> QED
    BY <1>2, <2>1 DEF Said
<1> QED
  BY <1>1, <1>2

LEMMA SafeStays ==
  ASSUME NEW x \in Client, SameJob(x) \/ job'[x].pc \notin Busy
  PROVE  \A k, a : Safe(job[x], k, a) => Safe(job'[x], k, a)
BY DEF SameJob, Safe, Busy

\* Steps that leave the rules, the index and the rows of what is promised alone.
LEMMA QuietPromises ==
  ASSUME Promises, rules' = rules, indexed' = indexed, untracked' = untracked,
         foreign \subseteq foreign',
         \A k \in Key : promised'[k] # Unset => promised'[k] = promised[k] /\ store'[k] = store[k],
         \A x \in Client : SameJob(x) \/ job'[x].pc \notin Busy
  PROVE  Promises'
<1>1. ASSUME NEW k \in Key, promised'[k] # Unset PROVE Quiet(k, rules')
  BY <1>1 DEF Promises
<1>2. ASSUME NEW k \in Key, Promised(k)'
      PROVE  /\ Shown(k, promised'[k], rules', indexed', store')
             /\ \A c \in Client : Safe(job'[c], k, promised'[k])
  <2>1. promised'[k] = promised[k] /\ store'[k] = store[k]
    BY <1>2 DEF Promised
  <2>2. /\ Shown(k, promised[k], rules, indexed, store)
        /\ \A c \in Client : Safe(job[c], k, promised[k])
    BY <1>2, <2>1 DEF Promises, Promised
  <2>3. Shown(k, promised'[k], rules', indexed', store')
    BY <2>1, <2>2 DEF Shown, StoredAccess
  <2>4. \A c \in Client : Safe(job'[c], k, promised'[k])
    BY <2>1, <2>2, SafeStays
  <2> QED
    BY <2>3, <2>4
<1> QED
  BY <1>1, <1>2, Promising

LEMMA ClonePromises ==
  ASSUME Inv, Promises, NEW c \in Client, Clone(c) \/ CloneFind(c)
  PROVE  Promises'
<1>1. UNCHANGED <<heap, rulesAt, indexedAt, store, untracked, foreign, promised>>
  BY DEF Clone, CloneFind
<1>2. \A x \in Client : SameJob(x) \/ job'[x].pc \notin Busy
  BY CloneSteps
<1> QED
  BY <1>1, <1>2, QuietPromises DEF rules, indexed

LEMMA SamePromises ==
  ASSUME Inv, Promises, UNCHANGED <<heap, rulesAt, indexedAt, store, job, untracked, foreign, promised>>
  PROVE  Promises'
<1>1. \A x \in Client : SameJob(x)
  BY DEF SameJob, Inv, Types
<1> QED
  BY <1>1, QuietPromises DEF rules, indexed

LEMMA ImportPromises ==
  ASSUME Inv, Promises, Import
  PROVE  Promises'
<1>1. PICK i \in Imports :
          /\ store' = [store EXCEPT ![i.key] = i.access]
          /\ foreign' = foreign \cup {i.key}
          /\ promised' = [promised EXCEPT ![i.key] = Unset]
  BY DEF Import
<1>2. UNCHANGED <<heap, rulesAt, indexedAt, untracked>> /\ \A x \in Client : SameJob(x)
  BY ImportInv DEF Import
<1>3. /\ store \in [Key -> Access \cup {Unset}] /\ promised \in [Key -> Access \cup {Unset}]
      /\ i.key \in Key
  BY ImportsAssumption DEF Inv, Types
<1>4. \A k \in Key : promised'[k] # Unset => promised'[k] = promised[k] /\ store'[k] = store[k]
  BY <1>1, <1>3
<1> QED
  BY <1>1, <1>2, <1>4, QuietPromises DEF rules, indexed

\* The rules of other roles stay as they are.
LEMMA CloneWritePromises ==
  ASSUME Inv, Promises, NEW c \in Client, CloneWrite(c)
  PROVE  Promises'
<1> DEFINE t == Head(job[c].to)
<1>1. UNCHANGED <<store, untracked, foreign>>
  BY DEF CloneWrite
<1>2. \A k \in Key : promised'[k] # Unset => k.role # t /\ promised'[k] = promised[k]
  <2>1. promised' = [l \in Key |-> IF l \in {m \in Key : m.role = t} THEN Unset ELSE promised[l]]
    BY DEF CloneWrite
  <2> HIDE DEF t
  <2> QED
    BY <2>1
<1>3. ASSUME NEW k \in Key, promised'[k] # Unset
      PROVE  /\ Said(rules', k) = Said(rules, k) /\ Said(indexed', k) = Said(indexed, k)
             /\ KeysOf(rules') = KeysOf(rules)
             /\ \A i \in 1..Len(rules') : rules'[i].key = k => i \in 1..Len(rules) /\ rules'[i] = rules[i]
  <2>1. k.role # t
    BY <1>2, <1>3
  <2>2. /\ Fades(rules, rules') /\ KeysOf(rules') = KeysOf(rules)
        /\ Said(rules', k) = Said(rules, k) /\ Said(indexed', k) = Said(indexed, k)
        /\ \A i \in 1..Len(rules) : rules[i].key.role # t => rules'[i] = rules[i]
    BY <2>1, CloneWrites, Fading
  <2> QED
    BY <2>1, <2>2 DEF Fades
<1>4. ASSUME NEW k \in Key, promised'[k] # Unset PROVE Quiet(k, rules')
  <2>1. Quiet(k, rules)
    BY <1>2, <1>4 DEF Promises
  <2> QED
    BY <1>3, <1>4, <2>1 DEF Quiet
<1>5. ASSUME NEW k \in Key, Promised(k)'
      PROVE  /\ Shown(k, promised'[k], rules', indexed', store')
             /\ \A x \in Client : Safe(job'[x], k, promised'[k])
  <2>1. promised'[k] # Unset /\ promised'[k] = promised[k]
    BY <1>2, <1>5 DEF Promised
  <2>2. /\ Shown(k, promised[k], rules, indexed, store)
        /\ \A x \in Client : Safe(job[x], k, promised[k])
    BY <1>1, <1>5, <2>1 DEF Promises, Promised
  <2>3. Shown(k, promised'[k], rules', indexed', store')
    BY <1>1, <1>3, <2>1, <2>2 DEF Shown, StoredAccess
  <2>4. \A x \in Client : SameJob(x) \/ job'[x].pc \notin Busy
    BY CloneWriteInv DEF Busy
  <2>5. \A x \in Client : Safe(job'[x], k, promised'[k])
    BY <2>1, <2>2, <2>4, SafeStays
  <2> QED
    BY <2>3, <2>5
<1> QED
  BY <1>4, <1>5, Promising

\* A merge leaves the rules alone that its caller does not name.
LEMMA MergePromises ==
  ASSUME Inv, Promises, NEW c \in Client, NEW news \in Seq(Pointer), ValidAt(heap, news),
         NEW was \in Job, was.existing = <<>>, Merge(c, news, was),
         job[c].pc \notin Busy, calls' \in 0..MaxCalls
  PROVE  Promises'
<1> DEFINE a   == rules
           new == [n \in 1..Len(news) |-> Deref(heap, news[n])]
           m   == merge(a, new)
<1>1. /\ lock' = c /\ c # NoClient /\ UNCHANGED <<rulesAt, store, foreign>> /\ indexedAt' = rulesAt
      /\ promised' = [k \in Key |-> IF k \in KeysOf(new) THEN Unset ELSE promised[k]]
  BY ClientAssumption DEF Merge
<1>2. a \in Seq(Rule) /\ new \in Seq(Rule)
  BY MergeTypes, RulesAre DEF Inv
<1>3. Inv' /\ rules' = m /\ indexed' = m /\ job'[c].pc = "flush"
  <2>1. Inv' /\ heap'[rulesAt] = m /\ job'[c].pc = "flush"
    BY MergeInv
  <2> QED
    BY <1>1, <2>1 DEF rules, indexed
<1> HIDE DEF new, m
<1>4. /\ Len(m) \in Nat /\ Len(m) >= Len(a) /\ Len(a) \in Nat
      /\ \A i \in 1..Len(a) : /\ m[i].key = a[i].key
                              /\ a[i].key \notin KeysOf(new) => m[i] = a[i]
      /\ \A i \in 1..Len(m) : i \notin 1..Len(a) => m[i].key \in KeysOf(new) \ KeysOf(a) /\ m[i].dirty
  <2> HIDE DEF a
  <2>1. LET mm == merge(a, new)
        IN /\ Len(mm) \in Nat /\ Len(mm) >= Len(a) /\ Len(a) \in Nat
           /\ \A i \in 1..Len(a) : /\ mm[i].key = a[i].key
                                   /\ a[i].key \notin KeysOf(new) => mm[i] = a[i]
           /\ \A i \in 1..Len(mm) : i \notin 1..Len(a) => mm[i].key \in KeysOf(new) \ KeysOf(a) /\ mm[i].dirty
    BY <1>2, Merging
  <2> QED
    BY <2>1 DEF m
<1>5. \A x \in Client : job'[x].pc \notin {"delete", "upsert"}
  <2>1. \A x \in Client : job'[x].pc \in Busy <=> lock' = x
    BY <1>3 DEF Inv, LockOK
  <2> QED
    BY <1>1, <1>3, <2>1 DEF Busy
<1>7. ASSUME NEW k \in Key, promised'[k] # Unset
      PROVE  /\ k \notin KeysOf(new) /\ promised'[k] = promised[k]
             /\ Quiet(k, a) /\ Quiet(k, m)
  <2>1. k \notin KeysOf(new) /\ promised'[k] = promised[k]
    BY <1>1, <1>7
  <2>2. Quiet(k, a)
    BY <1>7, <2>1 DEF Promises
  <2>3. \A i \in 1..Len(m) : m[i].key = k => i \in 1..Len(a) /\ a[i].key = k /\ m[i] = a[i]
    BY <1>4, <2>1
  <2> QED
    BY <2>1, <2>2, <2>3 DEF Quiet
\* the books find it again only if it waits to be written or deleted
<1>8. untracked \ untracked' \subseteq
         {m[i].key : i \in {j \in 1..Len(m) : m[j].dirty \/ m[j].access = "Inherit"}}
  BY DEF Merge, m, new
<1>6. ASSUME NEW k \in Key, Promised(k)'
      PROVE  /\ Shown(k, promised'[k], rules', indexed', store')
             /\ \A x \in Client : Safe(job'[x], k, promised'[k])
  <2>1. k \notin KeysOf(new) /\ promised'[k] = promised[k] /\ Quiet(k, m)
    BY <1>6, <1>7 DEF Promised
  <2>9. k \notin untracked
    BY <1>6, <1>8, <2>1 DEF Promised, Quiet
  <2>2. Shown(k, promised[k], a, indexed, store)
    BY <1>1, <1>6, <2>1, <2>9 DEF Promises, Promised
  <2> HIDE DEF a
  <2>3. \A i \in 1..Len(m) : m[i].key = k => i \in 1..Len(a) /\ a[i].key = k /\ m[i] = a[i]
    BY <1>4, <2>1
  <2>4. /\ \A i \in 1..Len(m) : m[i].key = k => ~m[i].dirty /\ m[i].access = promised[k] /\ promised[k] # "Inherit"
        /\ promised[k] # "Inherit" => k \in KeysOf(m)
    <3>1. \A i \in 1..Len(m) : m[i].key = k => ~m[i].dirty /\ m[i].access = promised[k] /\ promised[k] # "Inherit"
      BY <2>2, <2>3 DEF Shown
    <3>2. ASSUME k \in KeysOf(a) PROVE k \in KeysOf(m)
      <4>1. PICK i \in 1..Len(a) : a[i].key = k
        BY <3>2 DEF KeysOf
      <4>2. i \in 1..Len(m) /\ m[i].key = k
        BY <1>4, <4>1
      <4> QED
        BY <4>2 DEF KeysOf
    <3> QED
      BY <2>2, <3>1, <3>2 DEF Shown
  <2>5. Said(m, k) = {promised[k]} \ {"Inherit"}
    BY <2>4, ShownSaid
  <2>6. StoredAccess(store', k) = promised[k]
    BY <1>1, <2>2 DEF Shown, StoredAccess
  <2>7. Shown(k, promised[k], m, m, store')
    BY <2>4, <2>5, <2>6 DEF Shown
  <2> QED
    BY <1>1, <1>3, <1>5, <2>1, <2>7 DEF Safe
<1> QED
  BY <1>3, <1>6, <1>7, Promising

\* A flush takes nothing of what is promised: it is neither waiting to be
\* written nor to be deleted.
LEMMA FlushPromises ==
  ASSUME Inv, Promises, NEW c \in Client, Flush(c)
  PROVE  Promises'
<1> DEFINE a == rules
           d == deletable(a)
           u == updatable(a)
           f == final(a)
           j == job'[c]
<1>1. /\ UNCHANGED <<heap, rulesAt, indexedAt, store, untracked, foreign, promised>> /\ a \in Seq(Rule)
      /\ job[c] \in Job /\ job[c].pc \in Busy
  BY RulesAre DEF Flush, Inv, Types, Busy
<1>2. \A n \in 1..Len(d) : \E i \in 1..Len(a) : d[n] = a[i] /\ a[i].access = "Inherit"
  BY <1>1, Flushing
<1>3. \A n \in 1..Len(u) : \E i \in 1..Len(a) : u[n] = a[i] /\ a[i].access # "Inherit" /\ a[i].dirty
  BY <1>1, Flushing
<1>4. \A n \in 1..Len(f) : \E i \in 1..Len(a) :
         f[n].key = a[i].key /\ f[n].access = a[i].access /\ a[i].access # "Inherit" /\ ~f[n].dirty
  BY <1>1, Flushing
<1>5. \A i \in 1..Len(a) : a[i].access # "Inherit" =>
         \E n \in 1..Len(f) : f[n].key = a[i].key /\ f[n].access = a[i].access
  BY <1>1, Flushing
<1>6. /\ j.pc = "delete" /\ j.deletable = d /\ j.updatable = u /\ j.final = f
      /\ \A x \in Client \ {c} : job'[x] = job[x]
  <2>1. job' = [job EXCEPT ![c].pc = "delete", ![c].deletable = d, ![c].updatable = u, ![c].final = f]
    BY DEF Flush
  <2> HIDE DEF d, u, f
  <2> QED
    BY <1>1, <2>1 DEF Inv, Types, Job
<1>7. rules' = a /\ indexed' = indexed
  BY <1>1 DEF rules, indexed
<1>9. ASSUME NEW k \in Key, promised'[k] # Unset PROVE Quiet(k, rules')
  BY <1>1, <1>7, <1>9 DEF Promises
<1>8. ASSUME NEW k \in Key, Promised(k)'
      PROVE  /\ Shown(k, promised'[k], rules', indexed', store')
             /\ \A x \in Client : Safe(job'[x], k, promised'[k])
  <2> DEFINE p == promised[k]
  <2>1. Shown(k, p, a, indexed, store) /\ \A x \in Client : Safe(job[x], k, p)
    BY <1>1, <1>8 DEF Promises, Promised
  <2> HIDE DEF a, d, u, f, j, p
  <2>2. /\ \A i \in 1..Len(a) : a[i].key = k => ~a[i].dirty /\ a[i].access = p /\ p # "Inherit"
        /\ p # "Inherit" => k \in KeysOf(a)
    BY <2>1 DEF Shown
  <2>3. k \notin KeysOf(u)
    BY <1>3, <2>2 DEF KeysOf
  <2>4. k \notin KeysOf(d)
    BY <1>2, <2>2 DEF KeysOf
  <2>5. \A n \in 1..Len(f) : f[n].key = k => f[n].access = p
    BY <1>4, <2>2
  <2>6. p # "Inherit" => k \in KeysOf(f)
    BY <1>5, <2>2 DEF KeysOf
  <2>7. Safe(j, k, p)
    BY <1>6, <2>3, <2>4, <2>5, <2>6 DEF Safe
  <2>8. Shown(k, p, rules', indexed', store')
    BY <1>1, <1>7, <2>1 DEF Shown, StoredAccess
  <2>9. \A x \in Client : Safe(job'[x], k, p)
    BY <1>6, <2>1, <2>7 DEF j
  <2> QED
    BY <1>1, <2>1, <2>8, <2>9 DEF p
<1> QED
  BY <1>8, <1>9, Promising

LEMMA DeletePromises ==
  ASSUME Inv, Promises, NEW c \in Client, DeleteRules(c)
  PROVE  Promises'
<1> DEFINE j == job[c]
           d == j.deletable
           j2 == job'[c]
<1>1. /\ j \in Job /\ j.pc = "delete"
      /\ UNCHANGED <<heap, rulesAt, indexedAt, untracked, foreign, promised>>
      /\ store' = Deleted(store, d, Len(d)) /\ job' = [job EXCEPT ![c] = [j EXCEPT !.pc = "upsert"]]
  BY DEF DeleteRules, Inv, Types
<1>2. /\ j2.pc = "upsert" /\ j2.updatable = j.updatable /\ j2.final = j.final
      /\ \A x \in Client \ {c} : job'[x] = job[x]
  BY <1>1 DEF Inv, Types, Job
<1>3. rules' = rules /\ indexed' = indexed
  BY <1>1 DEF rules, indexed
<1>5. ASSUME NEW k \in Key, promised'[k] # Unset PROVE Quiet(k, rules')
  BY <1>1, <1>3, <1>5 DEF Promises
<1>4. ASSUME NEW k \in Key, Promised(k)'
      PROVE  /\ Shown(k, promised'[k], rules', indexed', store')
             /\ \A x \in Client : Safe(job'[x], k, promised'[k])
  <2> DEFINE p == promised[k]
  <2>1. Shown(k, p, rules, indexed, store) /\ \A x \in Client : Safe(job[x], k, p)
    BY <1>1, <1>4 DEF Promises, Promised
  <2> HIDE DEF p
  <2>2. k \notin KeysOf(d)
    BY <1>1, <2>1 DEF Safe
  <2>3. store'[k] = store[k]
    BY <1>1, <2>2 DEF Deleted, KeysOf
  <2>4. Shown(k, p, rules', indexed', store')
    BY <1>3, <2>1, <2>3 DEF Shown, StoredAccess
  <2>5. Safe(j2, k, p)
    BY <1>1, <1>2, <2>1 DEF Safe
  <2>6. \A x \in Client : Safe(job'[x], k, p)
    BY <1>2, <2>1, <2>5
  <2> QED
    BY <1>1, <2>1, <2>4, <2>6 DEF p
<1> QED
  BY <1>4, <1>5, Promising

\* A failure leaves the rules and the rows of what is promised as they are.
LEMMA FailsPromises ==
  ASSUME Inv, Promises, NEW c \in Client, DeleteFails(c) \/ UpsertFails(c)
  PROVE  Promises'
<1> DEFINE j == job[c]
           u == j.updatable
           d == j.deletable
<1>1. /\ j \in Job /\ d \in Seq(Rule) /\ u \in Seq(Rule) /\ Abort(c)
  BY DEF DeleteFails, UpsertFails, Inv, Types, Job
<1>2. /\ UNCHANGED <<heap, rulesAt, indexedAt, foreign, promised>>
      /\ untracked' = untracked \cup Doubled(rules)
      /\ job' = [job EXCEPT ![c] = NoJob]
  BY <1>1 DEF Abort
<1>3. rules' = rules /\ indexed' = indexed
  BY <1>2 DEF rules, indexed
<1>4. job'[c].pc = "idle" /\ \A x \in Client \ {c} : job'[x] = job[x]
  BY <1>2, NoJobIs, Alone DEF Inv
<1> HIDE DEF u, d
<1>6. ASSUME NEW k \in Key, promised'[k] # Unset PROVE Quiet(k, rules')
  BY <1>2, <1>3, <1>6 DEF Promises
<1>5. ASSUME NEW k \in Key, Promised(k)'
      PROVE  /\ Shown(k, promised'[k], rules', indexed', store')
             /\ \A x \in Client : Safe(job'[x], k, promised'[k])
  <2> DEFINE p == promised[k]
  <2>1. Shown(k, p, rules, indexed, store) /\ \A x \in Client : Safe(job[x], k, p)
    BY <1>2, <1>5 DEF Promises, Promised
  <2> HIDE DEF p
  <2>3. store'[k] = store[k]
    <3>1. CASE DeleteFails(c)
      <4>1. PICK n \in 0..(Len(d) - 1) : store' = Deleted(store, d, n)
        BY <3>1 DEF DeleteFails, d
      <4>2. k \notin KeysOf(d)
        BY <2>1, <3>1 DEF Safe, DeleteFails, d
      <4>3. \A l \in 1..n : l \in 1..Len(d)
        BY <1>1
      <4> QED
        BY <4>1, <4>2, <4>3 DEF Deleted, KeysOf
    <3>2. CASE UpsertFails(c)
      <4>1. PICK n \in 0..(Len(u) - 1) : store' = Upserted(store, u, n)
        BY <3>2 DEF UpsertFails, u
      <4>2. k \notin KeysOf(u)
        BY <2>1, <3>2 DEF Safe, UpsertFails, u
      <4>3. \A l \in 1..n : l \in 1..Len(u)
        BY <1>1
      <4>4. {l \in 1..n : u[l].key = k} = {}
        BY <4>2, <4>3 DEF KeysOf
      <4> QED
        BY <4>1, <4>4 DEF Upserted
    <3> QED
      BY <3>1, <3>2
  <2>4. Shown(k, p, rules', indexed', store')
    BY <1>3, <2>1, <2>3 DEF Shown, StoredAccess
  <2>5. \A x \in Client : Safe(job'[x], k, p)
    <3>1. Safe(job'[c], k, p)
      BY <1>4 DEF Safe
    <3> QED
      BY <1>4, <2>1, <3>1
  <2> QED
    BY <1>2, <2>4, <2>5 DEF p
<1> QED
  BY <1>5, <1>6, Promising

\* What a grant promises when it ends is what its copies say, and what the index
\* still says of the rules they are copies of.
LEMMA UpsertPromises ==
  ASSUME Inv, Books, Promises, NEW c \in Client, UpsertRules(c)
  PROVE  Promises'
<1> DEFINE j == job[c]
           u == j.updatable
           f == j.final
           lost == untracked \cup Doubled(f)
           kept == {e.rule.key : e \in ToSet(j.news)} \ j.touched
           says(k) == IF k \in KeysOf(f) THEN f[CHOOSE i \in 1..Len(f) : f[i].key = k].access ELSE "Inherit"
<1>1. /\ j \in Job /\ j.pc = "upsert" /\ j.pc \in Busy /\ u \in Seq(Rule) /\ f \in Seq(Rule)
      /\ store' = Upserted(store, u, Len(u)) /\ foreign' = foreign
      /\ untracked' = lost
  <2>1. j \in Job /\ j.pc = "upsert" /\ u \in Seq(Rule) /\ f \in Seq(Rule)
    BY DEF UpsertRules, Inv, Types, Job
  <2> QED
    BY <2>1 DEF UpsertRules, Busy
<1>2. \A k \in Key : promised'[k] = IF k \notin kept THEN promised[k] ELSE says(k)
  BY DEF UpsertRules
<1>3. /\ rules' = f /\ indexed' = indexed /\ indexed = rules
      /\ \A x \in Client : job'[x].pc \notin {"delete", "upsert"}
  <2>1. rules' = f /\ indexed' = indexed /\ \A x \in Client \ {c} : job'[x] = job[x]
    BY UpsertRulesInv DEF rules, indexed, UpsertRules
  <2>2. job'[c].pc = "idle"
    BY NoJobIs, Alone DEF UpsertRules, Inv
  <2> QED
    BY <1>1, <2>1, <2>2, Holder DEF Busy, rules, indexed
<1>4. Taken(j, rules, store, untracked, foreign) /\ Books'
  BY <1>1, UpsertBooks DEF Books, Flushed
<1>5. \A k \in Key \ (untracked' \cup foreign') : Mirrored(f, k, store'[k])
  BY <1>3, <1>4 DEF Books, Mirrors, Mirrored, KeysOf
<1>6. /\ \A g \in 1..Len(f) : f[g].access # "Inherit" /\ ~f[g].dirty
      /\ \A k \in Key \ j.touched : Said(rules, k) = Said(f, k)
      /\ \A g, h \in 1..Len(f) : g # h /\ f[g].key = f[h].key /\ f[g].key \notin untracked =>
            f[g].key \in KeysOf(u)
  BY <1>4 DEF Taken
<1>7. \A k \in Key : k \in kept => k \notin j.touched
  OBVIOUS
<1> HIDE DEF j, u, f, kept
<1>8. ASSUME NEW k \in Key, Promised(k)', k \in kept
      PROVE  Shown(k, promised'[k], rules', indexed', store')
  <2> DEFINE p == says(k)
  <2>1. p = promised'[k] /\ k \notin lost /\ k \notin foreign /\ k \notin j.touched
    BY <1>1, <1>2, <1>7, <1>8 DEF Promised
  <2>2. ASSUME NEW i \in 1..Len(f), f[i].key = k
        PROVE  p = f[i].access /\ p # "Inherit" /\ p # Unset /\ ~f[i].dirty
    <3>1. k \in KeysOf(f) /\ \E h \in 1..Len(f) : f[h].key = k
      BY <2>2 DEF KeysOf
    <3>2. \A h \in 1..Len(f) : f[h].key = k => h = i
      BY <2>1, <2>2 DEF Doubled
    <3>3. p = f[i].access
      BY <3>1, <3>2
    <3>4. f[i] \in Rule
      BY <1>1
    <3> HIDE DEF p
    <3> QED
      BY <1>6, <3>3, <3>4 DEF Rule, Access, Unset
  <2>3. p # "Inherit" => k \in KeysOf(f)
    OBVIOUS
  <2> HIDE DEF p
  <2>4. Said(f, k) = {p} \ {"Inherit"}
    BY <2>2, <2>3, ShownSaid
  <2>5. Said(indexed', k) = {p} \ {"Inherit"}
    BY <1>3, <1>6, <2>1, <2>4
  <2>6. Mirrored(f, k, store'[k])
    BY <1>1, <1>5, <2>1
  <2>7. StoredAccess(store', k) = p
    <3>1. CASE k \in KeysOf(f)
      <4>1. PICK i \in 1..Len(f) : f[i].key = k /\ (f[i].dirty \/ f[i].access \in {"Inherit", store'[k]})
        BY <2>6, <3>1 DEF Mirrored
      <4>2. store'[k] = p /\ p # Unset
        BY <2>2, <4>1
      <4> QED
        BY <4>2 DEF StoredAccess
    <3>2. CASE k \notin KeysOf(f)
      <4>1. store'[k] = Unset /\ p = "Inherit"
        BY <2>3, <2>6, <3>2 DEF Mirrored
      <4> QED
        BY <4>1 DEF StoredAccess
    <3> QED
      BY <3>1, <3>2
  <2>8. Shown(k, p, f, indexed', store')
    BY <2>2, <2>3, <2>5, <2>7 DEF Shown
  <2> QED
    BY <1>1, <1>3, <2>1, <2>8
<1>9. ASSUME NEW k \in Key, Promised(k)', k \notin kept
      PROVE  Shown(k, promised'[k], rules', indexed', store')
  <2> DEFINE p == promised[k]
  <2>1. p = promised'[k]
    BY <1>2, <1>9
  <2>2. Shown(k, p, rules, indexed, store) /\ Safe(j, k, p)
    BY <1>1, <1>9, <2>1 DEF Promises, Promised, j
  <2> HIDE DEF p
  <2>3. /\ k \notin KeysOf(u) /\ (\A g \in 1..Len(f) : f[g].key = k => f[g].access = p)
        /\ p # "Inherit" => k \in KeysOf(f)
    BY <1>1, <2>2 DEF Safe, u, f
  <2>5. store'[k] = store[k]
    <3>1. {i \in 1..Len(u) : u[i].key = k} = {}
      BY <2>3 DEF KeysOf
    <3> QED
      BY <1>1, <3>1 DEF Upserted
  <2>6. \A g \in 1..Len(f) : f[g].key = k => ~f[g].dirty /\ f[g].access = p /\ p # "Inherit"
    BY <1>6, <2>3
  <2>7. Shown(k, p, f, indexed', store')
    BY <1>3, <2>2, <2>3, <2>5, <2>6 DEF Shown, StoredAccess
  <2> QED
    BY <1>3, <2>1, <2>7
<1>11. ASSUME NEW k \in Key, promised'[k] # Unset PROVE Quiet(k, rules')
  BY <1>3, <1>6 DEF Quiet
<1>10. ASSUME NEW k \in Key, Promised(k)'
       PROVE  /\ Shown(k, promised'[k], rules', indexed', store')
              /\ \A x \in Client : Safe(job'[x], k, promised'[k])
  <2>1. Shown(k, promised'[k], rules', indexed', store')
    BY <1>8, <1>9, <1>10
  <2> QED
    BY <1>3, <2>1 DEF Safe
<1> QED
  BY <1>10, <1>11, Promising

\* A reload finds what was promised in the table.
LEMMA ReloadPromises ==
  ASSUME Inv, Books, Promises, Reload
  PROVE  Promises'
<1> DEFINE rs == Stored(store)
<1>1. /\ rules' = rs /\ indexed' = rs /\ store' = store /\ lock = NoClient
      /\ promised' = [k \in Key |-> IF k \in untracked \cup foreign THEN Unset ELSE promised[k]]
  <2>1. rulesAt' = indexedAt'
    BY DEF Reload
  <2> QED
    BY <2>1, ReloadInv DEF rules, indexed, Reload
<1>2. \A x \in Client : job'[x].pc \notin {"delete", "upsert"}
  <2>1. \A x \in Client : job'[x].pc = job[x].pc
    BY ReloadInv DEF SameJob
  <2> QED
    BY <1>1, <2>1, Nobody DEF Busy
<1>3. \A k \in Key : store[k] \in Access \cup {Unset} /\ store[k] # "Inherit"
  BY DEF Books, Stores, Inv, Types
<1>4. /\ \A i \in 1..Len(rs) : /\ rs[i].key \in Key /\ store[rs[i].key] # Unset
                               /\ rs[i].access = store[rs[i].key] /\ ~rs[i].dirty
      /\ \A k \in Key : store[k] # Unset => \E i \in 1..Len(rs) : rs[i].key = k
  BY <1>3, Storing
<1> HIDE DEF rs
<1>6. ASSUME NEW k \in Key, promised'[k] # Unset PROVE Quiet(k, rules')
  BY <1>1, <1>3, <1>4 DEF Quiet
<1>5. ASSUME NEW k \in Key, Promised(k)'
      PROVE  /\ Shown(k, promised'[k], rules', indexed', store')
             /\ \A x \in Client : Safe(job'[x], k, promised'[k])
  <2> DEFINE p == promised[k]
  <2>1. p = promised'[k] /\ StoredAccess(store, k) = p
    BY <1>1, <1>5 DEF Promises, Promised, Shown
  <2> HIDE DEF p
  <2>2. p = IF store[k] = Unset THEN "Inherit" ELSE store[k]
    BY <2>1 DEF StoredAccess
  <2>3. \A i \in 1..Len(rs) : rs[i].key = k => ~rs[i].dirty /\ rs[i].access = p /\ p # "Inherit"
    BY <1>3, <1>4, <2>2
  <2>4. p # "Inherit" => k \in KeysOf(rs)
    BY <1>4, <2>2 DEF KeysOf
  <2>5. Said(rs, k) = {p} \ {"Inherit"}
    BY <2>3, <2>4, ShownSaid
  <2>6. Shown(k, p, rs, rs, store')
    BY <1>1, <2>1, <2>3, <2>4, <2>5 DEF Shown, StoredAccess
  <2> QED
    BY <1>1, <1>2, <2>1, <2>6 DEF Safe
<1> QED
  BY <1>5, <1>6, Promising

LEMMA InitPromises == Init => Promises
BY DEF Init, Promises, Promised

LEMMA NextPromises ==
  ASSUME Inv, Books, Promises, [Next]_vars
  PROVE  Promises'
<1>1. ASSUME UpdateRoles \/ UNCHANGED vars PROVE Promises'
  <2>1. UNCHANGED <<heap, rulesAt, indexedAt, store, job, untracked, foreign, promised>>
    BY <1>1 DEF UpdateRoles, vars
  <2> QED
    BY <2>1, SamePromises
<1>2. ASSUME NEW c \in Client, Grant(c) \/ CloneGrant(c) PROVE Promises'
  <2>1. PICK news \in Seq(Pointer), was \in Job :
            /\ ValidAt(heap, news) /\ was.existing = <<>> /\ Merge(c, news, was)
            /\ job[c].pc \notin Busy /\ calls' \in 0..MaxCalls
    BY <1>2, GrantMerges
  <2> QED
    BY <2>1, MergePromises
<1>3. ASSUME NEW c \in Client, ClientStep(c) PROVE Promises'
  BY <1>2, <1>3, FlushPromises, DeletePromises, FailsPromises, UpsertPromises, ClonePromises,
     CloneWritePromises DEF ClientStep
<1> QED
  BY <1>1, <1>2, <1>3, ClonePromises, ReloadPromises, ImportPromises DEF Next

\* What a caller was told is granted stays granted until somebody changes it, for
\* every key but those the service lost track of and those written behind it.
THEOREM PromisesKept == Spec => []GrantDurable
<1>1. Init => Inv /\ Books /\ Promises
  BY InitInv, InitBooks, InitPromises
<1>2. (Inv /\ Books /\ Promises) /\ [Next]_vars => (Inv /\ Books /\ Promises)'
  BY NextInv, NextBooks, NextPromises
<1>3. Inv /\ Books /\ Promises => GrantDurable
  BY DEF Promises, Promised, Shown, GrantDurable
<1> QED
  BY <1>1, <1>2, <1>3, PTL DEF Spec

-----------------------------------------------------------------------------
(* Levels *)

\* What a reference adds to the level of its pattern.
Bit(r, i) == IF r[i] = Wildcard THEN 0 ELSE 1

\* The scores of a pattern, from its last reference to its first.
Scores(f, r) ==
    /\ f \in [1..(Len(r) + 1) -> Nat]
    /\ f[Len(r) + 1] = 0
    /\ \A i \in 1..Len(r) : f[i] = 10 * f[i + 1] + Bit(r, i)

\* The scores from any reference on exist: where they do not there would be a
\* last such reference, and they exist from the next one on.
LEMMA ScoresExist ==
  ASSUME NEW S, NEW r \in Seq(S)
  PROVE  \E f : Scores(f, r)
<1> DEFINE n == Len(r)
           From(m, f) == /\ f \in [m..(n + 1) -> Nat]
                         /\ f[n + 1] = 0
                         /\ \A i \in m..n : f[i] = 10 * f[i + 1] + Bit(r, i)
           bad == {m \in 1..(n + 1) : ~\E f : From(m, f)}
<1>1. n \in Nat
  OBVIOUS
<1>2. bad = {}
  <2>1. SUFFICES ASSUME bad # {} PROVE FALSE
    OBVIOUS
  <2>2. PICK m \in bad : \A j \in bad : j <= m
    <3>1. n + 1 \in Nat /\ bad \in SUBSET (1..(n + 1))
      BY <1>1
    <3> QED
      BY <2>1, <3>1, Greatest
  <2>3. CASE m = n + 1
    <3>1. From(n + 1, [i \in (n + 1)..(n + 1) |-> 0])
      BY <1>1
    <3> QED
      BY <2>2, <2>3, <3>1
  <2>4. CASE m # n + 1
    <3>1. m \in 1..n /\ m + 1 \in 1..(n + 1)
      BY <1>1, <2>2, <2>4
    <3>2. PICK f : From(m + 1, f)
      <4>1. m + 1 \notin bad
        <5>1. ~(m + 1 <= m)
          BY <3>1
        <5> QED
          BY <2>2, <5>1
      <4> QED
        BY <3>1, <4>1
    <3> DEFINE g == [i \in m..(n + 1) |-> IF i = m THEN 10 * f[m + 1] + Bit(r, m) ELSE f[i]]
    <3>3. f[m + 1] \in Nat /\ Bit(r, m) \in Nat
      <4>1. m + 1 \in (m + 1)..(n + 1)
        BY <1>1, <3>1
      <4> QED
        BY <3>2, <4>1 DEF Bit
    <3>4. g \in [m..(n + 1) -> Nat] /\ g[n + 1] = 0
      BY <1>1, <3>1, <3>2, <3>3
    <3>5. \A i \in m..n : g[i] = 10 * g[i + 1] + Bit(r, i)
      BY <1>1, <3>1, <3>2, <3>3
    <3>6. From(m, g)
      BY <3>4, <3>5
    <3> QED
      BY <2>2, <3>6
  <2> QED
    BY <2>3, <2>4
<1>3. \E f : From(1, f)
  <2>1. 1 \in 1..(n + 1)
    BY <1>1
  <2> QED
    BY <1>2, <2>1
<1> QED
  BY <1>3 DEF Scores

\* The level of a pattern is its first score.
LEMMA LevelIs ==
  ASSUME NEW S, NEW r \in Seq(S)
  PROVE  \E f : Scores(f, r) /\ level(r) = f[1]
<1> DEFINE n == Len(r)
           is(s) == s = [i \in 1..(n + 1) |-> IF i = n + 1 THEN 0
                                            ELSE 10 * s[i + 1] + (IF r[i] = Wildcard THEN 0 ELSE 1)]
           score == CHOOSE s : is(s)
           bad == {i \in 1..(n + 1) : score[i] \notin Nat}
<1>1. n \in Nat
  OBVIOUS
<1>2. is(score)
  <2>1. PICK f : Scores(f, r)
    BY ScoresExist
  <2>2. is(f)
    BY <1>1, <2>1 DEF Scores, Bit
  <2> QED
    BY <2>2
<1>3. level(r) = score[1]
  BY DEF level
<1> HIDE DEF score
<1>4. /\ DOMAIN score = 1..(n + 1) /\ score[n + 1] = 0
      /\ \A i \in 1..n : score[i] = 10 * score[i + 1] + Bit(r, i)
  <2>1. DOMAIN score = 1..(n + 1)
    BY <1>2
  <2>2. n + 1 \in 1..(n + 1) /\ \A i \in 1..n : i \in 1..(n + 1) /\ i # n + 1
    BY <1>1
  <2>3. \A i \in 1..(n + 1) :
           score[i] = IF i = n + 1 THEN 0 ELSE 10 * score[i + 1] + (IF r[i] = Wildcard THEN 0 ELSE 1)
    BY <1>2, Zenon
  <2>4. score[n + 1] = 0
    BY <2>2, <2>3
  <2> HIDE DEF is
  <2>5. ASSUME NEW i \in 1..n PROVE score[i] = 10 * score[i + 1] + Bit(r, i)
    BY <2>2, <2>3 DEF Bit
  <2> QED
    BY <2>1, <2>4, <2>5
<1>5. bad = {}
  <2>1. SUFFICES ASSUME bad # {} PROVE FALSE
    OBVIOUS
  <2>2. PICK m \in bad : \A j \in bad : j <= m
    <3>1. n + 1 \in Nat /\ bad \in SUBSET (1..(n + 1))
      BY <1>1
    <3> QED
      BY <2>1, <3>1, Greatest
  <2>3. m \in 1..n /\ m + 1 \in 1..(n + 1) /\ ~(m + 1 <= m)
    BY <1>1, <1>4, <2>2
  <2>4. score[m + 1] \in Nat
    BY <2>2, <2>3
  <2>5. score[m] \in Nat
    <3>1. score[m] = 10 * score[m + 1] + Bit(r, m)
      BY <1>4, <2>3
    <3>2. Bit(r, m) \in Nat
      BY DEF Bit
    <3> QED
      BY <2>4, <3>1, <3>2
  <2> QED
    BY <2>2, <2>5
<1>6. score \in [1..(n + 1) -> Nat]
  BY <1>4, <1>5, <1>2
<1> QED
  BY <1>3, <1>4, <1>6 DEF Scores

\* Of two patterns of one length the more specific one has the higher level.
LEMMA Levels ==
  ASSUME NEW S, NEW a \in Seq(S), NEW b \in Seq(S), Len(a) = Len(b)
  PROVE  /\ level(a) \in Nat /\ level(b) \in Nat
         /\ level(a) <= level(b) <=> ~MoreSpecific(a, b)
<1> DEFINE n == Len(a)
           Same(i) == \A j \in i..n : a[j] = Wildcard <=> b[j] = Wildcard
           Above(x, y, i) == \E j \in i..n : x[j] # Wildcard /\ y[j] = Wildcard /\ Same(j + 1)
<1>1. n \in Nat /\ n = Len(b)
  OBVIOUS
<1>2. PICK f : Scores(f, a) /\ level(a) = f[1]
  BY LevelIs
<1>3. PICK g : Scores(g, b) /\ level(b) = g[1]
  BY LevelIs
<1>4. /\ f \in [1..(n + 1) -> Nat] /\ g \in [1..(n + 1) -> Nat]
      /\ f[n + 1] = 0 /\ g[n + 1] = 0
      /\ \A i \in 1..n : /\ f[i] = 10 * f[i + 1] + Bit(a, i)
                         /\ g[i] = 10 * g[i + 1] + Bit(b, i)
  BY <1>1, <1>2, <1>3 DEF Scores
<1> DEFINE P(i) == \/ Same(i) /\ f[i] = g[i]
                   \/ Above(a, b, i) /\ f[i] > g[i]
                   \/ Above(b, a, i) /\ f[i] < g[i]
           bad == {i \in 1..(n + 1) : ~P(i)}
<1>5. bad = {}
  <2>1. SUFFICES ASSUME bad # {} PROVE FALSE
    OBVIOUS
  <2>2. PICK m \in bad : \A j \in bad : j <= m
    <3>1. n + 1 \in Nat /\ bad \in SUBSET (1..(n + 1))
      BY <1>1
    <3> QED
      BY <2>1, <3>1, Greatest
  <2>3. P(n + 1)
    BY <1>1, <1>4
  <2>4. m \in 1..n /\ m + 1 \in 1..(n + 1) /\ ~(m + 1 <= m)
    BY <1>1, <2>2, <2>3
  <2>5. P(m + 1)
    BY <2>2, <2>4
  <2>6. /\ f[m] \in Nat /\ g[m] \in Nat /\ f[m + 1] \in Nat /\ g[m + 1] \in Nat
        /\ f[m] = 10 * f[m + 1] + Bit(a, m) /\ g[m] = 10 * g[m + 1] + Bit(b, m)
    BY <1>1, <1>4, <2>4
  <2>7. m..n = (m + 1)..n \cup {m} /\ m \in m..n
    BY <1>1, <2>4
  <2> HIDE DEF bad
  <2>8. CASE Same(m + 1) /\ f[m + 1] = g[m + 1]
    <3>1. CASE a[m] = Wildcard <=> b[m] = Wildcard
      <4>1. Same(m)
        BY <2>7, <2>8, <3>1
      <4>2. f[m] = g[m]
        BY <2>6, <2>8, <3>1 DEF Bit
      <4> QED
        BY <2>2, <4>1, <4>2 DEF bad
    <3>2. CASE a[m] # Wildcard /\ b[m] = Wildcard
      <4>1. Above(a, b, m)
        BY <2>7, <2>8, <3>2
      <4>2. f[m] > g[m]
        BY <2>6, <2>8, <3>2 DEF Bit
      <4> QED
        BY <2>2, <4>1, <4>2 DEF bad
    <3>3. CASE a[m] = Wildcard /\ b[m] # Wildcard
      <4>1. Above(b, a, m)
        BY <2>7, <2>8, <3>3
      <4>2. f[m] < g[m]
        BY <2>6, <2>8, <3>3 DEF Bit
      <4> QED
        BY <2>2, <4>1, <4>2 DEF bad
    <3> QED
      BY <3>1, <3>2, <3>3
  <2>9. CASE Above(a, b, m + 1) /\ f[m + 1] > g[m + 1]
    <3>1. Above(a, b, m)
      BY <2>7, <2>9
    <3>2. f[m] > g[m]
      BY <2>6, <2>9 DEF Bit
    <3> QED
      BY <2>2, <3>1, <3>2 DEF bad
  <2>10. CASE Above(b, a, m + 1) /\ f[m + 1] < g[m + 1]
    <3>1. Above(b, a, m)
      BY <2>7, <2>10
    <3>2. f[m] < g[m]
      BY <2>6, <2>10 DEF Bit
    <3> QED
      BY <2>2, <3>1, <3>2 DEF bad
  <2> QED
    BY <2>5, <2>8, <2>9, <2>10
<1>6. P(1)
  <2>1. 1 \in 1..(n + 1)
    BY <1>1
  <2> QED
    BY <1>5, <2>1
<1>7. f[1] \in Nat /\ g[1] \in Nat
  BY <1>1, <1>4
<1>8. MoreSpecific(a, b) <=> Above(a, b, 1)
  BY <1>1 DEF MoreSpecific
<1>9. ~(Above(a, b, 1) /\ Same(1)) /\ ~(Above(a, b, 1) /\ Above(b, a, 1))
  <2>1. ASSUME NEW i \in 1..n, NEW j \in 1..n,
               a[i] # Wildcard, b[i] = Wildcard, Same(i + 1),
               b[j] # Wildcard, a[j] = Wildcard, Same(j + 1)
        PROVE  FALSE
    <3>1. i < j => j \in (i + 1)..n
      BY <1>1
    <3>2. j < i => i \in (j + 1)..n
      BY <1>1
    <3>3. i # j
      BY <2>1
    <3>4. i < j \/ j < i
      BY <3>3
    <3> QED
      BY <2>1, <3>1, <3>2, <3>4
  <2>2. ~(Above(a, b, 1) /\ Above(b, a, 1))
    BY <2>1
  <2> QED
    BY <2>2
<1>10. level(a) <= level(b) <=> ~Above(a, b, 1)
  <2> DEFINE A == Above(a, b, 1)
             B == Above(b, a, 1)
             E == Same(1)
  <2>1. (E /\ f[1] = g[1]) \/ (A /\ f[1] > g[1]) \/ (B /\ f[1] < g[1])
    BY <1>6
  <2>2. ~(A /\ E) /\ ~(A /\ B)
    BY <1>9
  <2> HIDE DEF A, B, E
  <2>3. f[1] <= g[1] <=> ~A
    BY <1>7, <2>1, <2>2
  <2> QED
    BY <1>2, <1>3, <2>3 DEF A
<1> QED
  BY <1>2, <1>3, <1>7, <1>8, <1>10

-----------------------------------------------------------------------------
(* The index and the rules *)

Cloning == \E c \in Client : job[c].pc \in {"find", "write"}

\* Unless a clone is under way, the index says what the rules say, and so does
\* what a flush is about to put in the place of the rules.
Current ==
    ~Cloning =>
        /\ \A k \in Key : Said(indexed, k) = Said(rules, k)
        /\ \A c \in Client : job[c].pc \in {"delete", "upsert"} =>
              \A k \in Key : Said(job[c].final, k) = Said(rules, k)

LEMMA StaysCurrent ==
  ASSUME Cloning' \/ /\ \A k \in Key : Said(indexed', k) = Said(rules', k)
                     /\ \A c \in Client : job'[c].pc \in {"delete", "upsert"} =>
                           \A k \in Key : Said(job'[c].final, k) = Said(rules', k)
  PROVE  Current'
BY DEF Current, Said

\* The copies of a flush say what the rules say.
LEMMA FinalSaid ==
  ASSUME NEW set \in Seq(Rule), NEW k
  PROVE  Said(final(set), k) = Said(set, k)
<1> DEFINE f == final(set)
<1>1. \A n \in 1..Len(f) : \E i \in 1..Len(set) :
            f[n].key = set[i].key /\ f[n].access = set[i].access /\ set[i].access # "Inherit"
  BY Flushing
<1>2. \A i \in 1..Len(set) : set[i].access # "Inherit" =>
            \E n \in 1..Len(f) : f[n].key = set[i].key /\ f[n].access = set[i].access
  BY Flushing
<1> HIDE DEF f
<1>3. ASSUME NEW a \in Said(f, k) PROVE a \in Said(set, k)
  <2>1. PICK n \in 1..Len(f) : f[n].key = k /\ f[n].access = a /\ a # "Inherit"
    BY <1>3 DEF Said
  <2>2. PICK i \in 1..Len(set) : f[n].key = set[i].key /\ f[n].access = set[i].access
    BY <1>1
  <2> QED
    BY <2>1, <2>2 DEF Said
<1>4. ASSUME NEW a \in Said(set, k) PROVE a \in Said(f, k)
  <2>1. PICK i \in 1..Len(set) : set[i].key = k /\ set[i].access = a /\ a # "Inherit"
    BY <1>4 DEF Said
  <2>2. PICK n \in 1..Len(f) : f[n].key = set[i].key /\ f[n].access = set[i].access
    BY <1>2, <2>1
  <2> QED
    BY <2>1, <2>2 DEF Said
<1> QED
  BY <1>3, <1>4 DEF f

\* A step that leaves rules and index alone and starts no flush.
LEMMA QuietCurrent ==
  ASSUME Inv, Current, UNCHANGED <<heap, rulesAt, indexedAt>>,
         \A x \in Client : job[x].pc \in {"find", "write"} => job'[x].pc = job[x].pc,
         \A x \in Client : job'[x].pc \in {"delete", "upsert"} =>
              job[x].pc \in {"delete", "upsert"} /\ job'[x].final = job[x].final
  PROVE  Current'
<1>1. rules' = rules /\ indexed' = indexed
  BY DEF rules, indexed
<1>2. Cloning => Cloning'
  BY DEF Cloning
<1> QED
  BY <1>1, <1>2, StaysCurrent DEF Current

LEMMA GrantCurrent ==
  ASSUME Inv, NEW c \in Client, Grant(c) \/ CloneGrant(c)
  PROVE  Current'
<1>1. PICK news \in Seq(Pointer), was \in Job :
            /\ ValidAt(heap, news) /\ was.existing = <<>> /\ Merge(c, news, was)
            /\ job[c].pc \notin Busy /\ calls' \in 0..MaxCalls
  BY GrantMerges
<1>2. /\ \A x \in Client \ {c} : SameJob(x)
      /\ job'[c].pc = "flush"
  BY <1>1, MergeInv
<1>3. lock = NoClient /\ indexedAt' = rulesAt /\ rulesAt' = rulesAt
  BY <1>1 DEF Merge
<1>4. indexed' = rules'
  BY <1>3 DEF indexed, rules
<1>5. \A x \in Client : job'[x].pc \notin {"delete", "upsert"}
  BY <1>2, <1>3, Nobody DEF SameJob, Busy
<1> QED
  BY <1>4, <1>5, StaysCurrent

LEMMA FlushCurrent ==
  ASSUME Inv, Current, NEW c \in Client, Flush(c)
  PROVE  Current'
<1> DEFINE f == final(rules)
<1>1. Types /\ rules \in Seq(Rule) /\ job \in [Client -> Job] /\ job[c].pc = "flush"
  BY RulesAre DEF Inv, Types, Flush
<1>2. rules' = rules /\ indexed' = indexed
  BY DEF Flush, rules, indexed
<1>3. \A k : Said(f, k) = Said(rules, k)
  BY <1>1, FinalSaid
<1> DEFINE d == deletable(rules)
           u == updatable(rules)
<1>4. job' = [job EXCEPT ![c].pc = "delete", ![c].deletable = d, ![c].updatable = u, ![c].final = f]
  BY DEF Flush
<1> HIDE DEF d, u, f
<1>5. job'[c].pc = "delete" /\ job'[c].final = f /\ \A x \in Client \ {c} : job'[x] = job[x]
  BY <1>1, <1>4 DEF Job
<1>6. Cloning => Cloning'
  BY <1>1, <1>5 DEF Cloning
<1> QED
  BY <1>2, <1>3, <1>5, <1>6, StaysCurrent DEF Current

LEMMA DeleteCurrent ==
  ASSUME Inv, Current, NEW c \in Client, DeleteRules(c)
  PROVE  Current'
<1>1. /\ job \in [Client -> Job] /\ job[c].pc = "delete" /\ job' = [job EXCEPT ![c].pc = "upsert"]
      /\ UNCHANGED <<heap, rulesAt, indexedAt>>
  BY DEF Inv, Types, DeleteRules
<1>2. job'[c].pc = "upsert" /\ job'[c].final = job[c].final /\ \A x \in Client \ {c} : job'[x] = job[x]
  BY <1>1 DEF Job
<1> QED
  BY <1>1, <1>2, QuietCurrent

LEMMA FailsCurrent ==
  ASSUME Inv, Current, NEW c \in Client, DeleteFails(c) \/ UpsertFails(c)
  PROVE  Current'
<1>1. /\ job \in [Client -> Job] /\ job[c].pc \in {"delete", "upsert"} /\ job' = [job EXCEPT ![c] = NoJob]
      /\ UNCHANGED <<heap, rulesAt, indexedAt>>
  BY DEF Inv, Types, DeleteFails, UpsertFails, Abort
<1>2. job'[c].pc = "idle" /\ \A x \in Client \ {c} : job'[x] = job[x]
  BY <1>1, NoJobIs
<1> QED
  BY <1>1, <1>2, QuietCurrent

LEMMA UpsertCurrent ==
  ASSUME Inv, Current, NEW c \in Client, UpsertRules(c)
  PROVE  Current'
<1>1. /\ heap'[rulesAt'] = job[c].final /\ heap'[indexedAt] = heap[indexedAt] /\ indexedAt' = indexedAt
      /\ \A x \in Client \ {c} : job'[x] = job[x]
  BY UpsertRulesInv DEF UpsertRules
<1>2. job \in [Client -> Job] /\ job[c].pc = "upsert" /\ job' = [job EXCEPT ![c] = NoJob]
  BY DEF Inv, Types, UpsertRules
<1>3. rules' = job[c].final /\ indexed' = indexed
  BY <1>1 DEF rules, indexed
<1>4. job'[c].pc = "idle"
  BY <1>2, NoJobIs
<1>5. \A x \in Client \ {c} : job'[x].pc \notin {"delete", "upsert"}
  BY <1>1, <1>2, Holder DEF Busy
<1>6. Cloning => Cloning'
  BY <1>1, <1>2 DEF Cloning
<1> QED
  BY <1>2, <1>3, <1>4, <1>5, <1>6, StaysCurrent DEF Current

\* While a clone is under way nothing is said.
LEMMA CloneCurrent ==
  ASSUME Inv, NEW c \in Client, Clone(c) \/ CloneFind(c) \/ CloneWrite(c)
  PROVE  Current'
<1>1. job'[c].pc \in {"find", "write"}
  <2>1. CASE Clone(c)
    <3>1. job \in [Client -> Job]
      BY DEF Inv, Types
    <3>2. PICK a \in Clones :
             job' = [job EXCEPT ![c] = [NoJob EXCEPT !.pc = "find", !.from = ruleByRole(a.from),
                                                     !.to = a.to, !.clone = TRUE]]
      BY <2>1 DEF Clone
    <3> DEFINE p == ruleByRole(a.from)
    <3>3. [NoJob EXCEPT !.pc = "find", !.from = p, !.to = a.to, !.clone = TRUE].pc = "find"
      <4> HIDE DEF p
      <4> QED
        BY DEF NoJob
    <3> QED
      BY <3>1, <3>2, <3>3
  <2>2. CASE CloneFind(c)
    <3>1. job \in [Client -> Job]
      BY DEF Inv, Types
    <3> DEFINE p == ruleByRole(Head(job[c].to))
    <3>2. job' = [job EXCEPT ![c].pc = "write", ![c].existing = p]
      BY <2>2 DEF CloneFind
    <3> HIDE DEF p
    <3> QED
      BY <3>1, <3>2 DEF Job
  <2>3. CASE CloneWrite(c)
    BY <2>3, CloneWriteInv
  <2> QED
    BY <2>1, <2>2, <2>3
<1> QED
  BY <1>1, StaysCurrent DEF Cloning

LEMMA ReloadCurrent ==
  ASSUME Inv, Reload
  PROVE  Current'
<1>1. lock = NoClient /\ rulesAt' = indexedAt' /\ \A x \in Client : SameJob(x)
  BY ReloadInv DEF Reload
<1>2. indexed' = rules'
  BY <1>1 DEF indexed, rules
<1>3. \A x \in Client : job'[x].pc \notin {"delete", "upsert"}
  BY <1>1, Nobody DEF SameJob, Busy
<1> QED
  BY <1>2, <1>3, StaysCurrent

LEMMA OtherwiseCurrent ==
  ASSUME Inv, Current, Import \/ UpdateRoles \/ UNCHANGED vars
  PROVE  Current'
<1>1. UNCHANGED <<heap, rulesAt, indexedAt>>
  BY DEF Import, UpdateRoles, vars
<1>2. \A x \in Client : SameJob(x) \/ job' = job
  BY ImportInv DEF UpdateRoles, vars
<1>3. \A x \in Client : job'[x].pc = job[x].pc /\ job'[x].final = job[x].final
  BY <1>2 DEF SameJob
<1> QED
  BY <1>1, <1>3, QuietCurrent

LEMMA InitCurrent == Init => Current
<1> SUFFICES ASSUME Init PROVE Current
  OBVIOUS
<1>1. job = [c \in Client |-> NoJob] /\ NoJob.pc = "idle" /\ indexedAt = rulesAt
  BY NoJobIs DEF Init
<1> QED
  BY <1>1 DEF Current, indexed, rules

LEMMA NextCurrent ==
  ASSUME Inv, Current, [Next]_vars
  PROVE  Current'
<1>1. ASSUME NEW c \in Client, ClientStep(c) PROVE Current'
  BY <1>1, GrantCurrent, FlushCurrent, DeleteCurrent, FailsCurrent, UpsertCurrent, CloneCurrent
     DEF ClientStep
<1> QED
  BY <1>1, GrantCurrent, CloneCurrent, ReloadCurrent, OtherwiseCurrent DEF Next

-----------------------------------------------------------------------------
(* What a check answers *)

\* A pattern matches where each of its references is the wildcard or the same.
LEMMA Matching ==
  ASSUME NEW m \in Resource, NEW r \in Resource, ~hasWildcards(r)
  PROVE  matchResource(m, r) <=> Len(m) = Len(r) /\ \A i \in 1..Len(r) : m[i] \in {Wildcard, r[i]}
BY DEF matchResource

\* The keys of rules in the table that apply, and what the best of them say.
Hit(st, R, op, r) ==
    {k \in Key : /\ st[k] # Unset /\ k.op = op /\ k.role \in R
                 /\ Len(k.res) = Len(r)
                 /\ \A i \in 1..Len(r) : k.res[i] \in {Wildcard, r[i]}}
Best(st, H) == {st[k] : k \in {x \in H : \A y \in H : ~MoreSpecific(y.res, x.res)}}

\* The index ix says what the table st says.
Indexes(ix, st) ==
    /\ ix \subseteq Rule
    /\ \A rule \in ix : rule.access # "Inherit" => rule.access = st[rule.key] /\ st[rule.key] # Unset
    /\ \A k \in Key : st[k] # Unset => \E rule \in ix : /\ rule.key = k /\ rule.access = st[k]
                                                      /\ rule.access # "Inherit"

\* The rules of some roles in the index decide as the table does.
LEMMA Checked ==
  ASSUME NEW ix, NEW st, Indexes(ix, st), NEW R, NEW op, NEW r \in Resource, ~hasWildcards(r)
  PROVE  LET set == {rule \in ix : rule.key.op = op /\ rule.key.role \in R}
             H   == Hit(st, R, op, r)
         IN  checkRulesByResource(set, r) = IF H = {} THEN {"Inherit"} ELSE Best(st, H)
<1> DEFINE set      == {rule \in ix : rule.key.op = op /\ rule.key.role \in R}
           H        == Hit(st, R, op, r)
           deciding == {rule \in set : matchResource(rule.key.res, r) /\ rule.access # "Inherit"}
           first    == {rule \in deciding :
                           \A other \in deciding : level(other.key.res) <= level(rule.key.res)}
           top      == {x \in H : \A y \in H : ~MoreSpecific(y.res, x.res)}
<1>1. \A rule \in ix : rule.key \in Key /\ rule.key.res \in Resource
  BY DEF Indexes, Rule, Key
<1>2. ASSUME NEW rule \in deciding PROVE rule.key \in H /\ rule.access = st[rule.key] /\ rule.access # "Inherit"
  <2>1. rule \in ix /\ rule.access # "Inherit" /\ rule.key.op = op /\ rule.key.role \in R
    OBVIOUS
  <2>2. Len(rule.key.res) = Len(r) /\ \A i \in 1..Len(r) : rule.key.res[i] \in {Wildcard, r[i]}
    BY <1>1, Matching
  <2>3. rule.access = st[rule.key] /\ st[rule.key] # Unset
    BY <2>1 DEF Indexes
  <2> QED
    BY <1>1, <2>1, <2>2, <2>3 DEF Hit
<1>3. ASSUME NEW k \in H PROVE \E rule \in deciding : rule.key = k
  <2>1. /\ k \in Key /\ st[k] # Unset /\ k.op = op /\ k.role \in R /\ k.res \in Resource
        /\ Len(k.res) = Len(r) /\ \A i \in 1..Len(r) : k.res[i] \in {Wildcard, r[i]}
    BY DEF Hit, Key
  <2>2. PICK rule \in ix : rule.key = k /\ rule.access # "Inherit"
    BY <2>1 DEF Indexes
  <2>3. matchResource(k.res, r)
    BY <2>1, Matching
  <2> QED
    BY <2>1, <2>2, <2>3
<1>4. ASSUME NEW x \in H, NEW y \in H
      PROVE  level(y.res) <= level(x.res) <=> ~MoreSpecific(y.res, x.res)
  <2> DEFINE a == x.res
             b == y.res
             S == {a[i] : i \in DOMAIN a} \cup {b[i] : i \in DOMAIN b}
  <2>1. a \in Resource /\ b \in Resource /\ Len(a) = Len(b)
    BY DEF Hit, Key
  <2>2. a \in Seq({a[i] : i \in DOMAIN a}) /\ b \in Seq({b[i] : i \in DOMAIN b})
    BY <2>1, ResourceAssumption
  <2>3. a \in Seq(S) /\ b \in Seq(S)
    BY <2>2
  <2> HIDE DEF a, b, S
  <2>4. level(b) <= level(a) <=> ~MoreSpecific(b, a)
    BY <2>1, <2>3, Levels
  <2> QED
    BY <2>4 DEF a, b
<1> HIDE DEF set, H, deciding
<1>5. ASSUME NEW rule \in first PROVE rule.key \in top /\ rule.access = st[rule.key]
  <2>1. rule \in deciding /\ rule.key \in H /\ rule.access = st[rule.key]
    BY <1>2
  <2>2. ASSUME NEW y \in H PROVE ~MoreSpecific(y.res, rule.key.res)
    <3>1. PICK other \in deciding : other.key = y
      BY <1>3
    <3> QED
      BY <1>4, <2>1, <3>1
  <2> QED
    BY <2>1, <2>2
<1>6. ASSUME NEW x \in top PROVE \E rule \in first : rule.key = x /\ rule.access = st[x]
  <2>1. x \in H /\ \A y \in H : ~MoreSpecific(y.res, x.res)
    OBVIOUS
  <2>2. PICK rule \in deciding : rule.key = x
    BY <1>3, <2>1
  <2>3. ASSUME NEW other \in deciding PROVE level(other.key.res) <= level(rule.key.res)
    <3>1. other.key \in H
      BY <1>2
    <3> QED
      BY <1>4, <2>1, <2>2, <3>1
  <2> QED
    BY <1>2, <2>2, <2>3
<1>7. {rule.access : rule \in first} = {st[k] : k \in top}
  <2> HIDE DEF first, top
  <2>1. ASSUME NEW rule \in first PROVE rule.access \in {st[k] : k \in top}
    BY <1>5
  <2>2. ASSUME NEW k \in top PROVE st[k] \in {rule.access : rule \in first}
    BY <1>6
  <2> QED
    BY <2>1, <2>2
<1>8. deciding = {} <=> H = {}
  BY <1>2, <1>3
<1>9. checkRulesByResource(set, r) = IF deciding = {} THEN {"Inherit"} ELSE {rule.access : rule \in first}
  BY DEF checkRulesByResource, deciding
<1> QED
  BY <1>7, <1>8, <1>9 DEF Best, set, H

\* When nothing is pending, the index says what the table says.
LEMMA IndexSays ==
  ASSUME Inv, Books, Current, lock = NoClient, untracked = {}, foreign = {},
         \A c \in Client : job[c].pc = "idle",
         \A i \in 1..Len(rules) : ~rules[i].dirty /\ rules[i].access # "Inherit"
  PROVE  Indexes(ToSet(indexed), store)
<1>1. Types /\ rules \in Seq(Rule) /\ indexed \in Seq(Rule)
  BY RulesAre DEF Inv
<1>2. \A k \in Key : Said(indexed, k) = Said(rules, k)
  BY DEF Current, Cloning
<1>3. ASSUME NEW i \in 1..Len(rules), NEW k \in Key, rules[i].key = k
      PROVE  rules[i].access = store[k] /\ store[k] # Unset
  <2>1. k \in KeysOf(rules) /\ Mirrored(rules, k, store[k])
    BY <1>3 DEF Books, Mirrors, KeysOf
  <2>2. PICK o \in 1..Len(rules) : /\ rules[o].key = k
                                   /\ rules[o].dirty \/ rules[o].access \in {"Inherit", store[k]}
    BY <2>1 DEF Mirrored
  <2>3. rules[o].access = store[k]
    BY <2>2
  <2>4. i = o
    BY <1>3, <2>2 DEF Books, Twice
  <2>5. rules[i].access \in Access
    <3>1. rules[i] \in Rule
      BY <1>1
    <3> QED
      BY <3>1 DEF Rule
  <2> QED
    BY <2>3, <2>4, <2>5 DEF Access, Unset
<1>4. ASSUME NEW k \in Key, store[k] # Unset PROVE \E i \in 1..Len(rules) : rules[i].key = k
  BY <1>4 DEF Books, Mirrors, Mirrored, KeysOf
<1>5. ToSet(indexed) = {indexed[i] : i \in 1..Len(indexed)}
  BY <1>1 DEF ToSet
<1>6. ToSet(indexed) \subseteq Rule
  BY <1>1, <1>5
<1>7. ASSUME NEW rule \in ToSet(indexed), rule.access # "Inherit"
      PROVE  rule.access = store[rule.key] /\ store[rule.key] # Unset
  <2>1. PICK i \in 1..Len(indexed) : rule = indexed[i]
    BY <1>5
  <2>2. rule.key \in Key /\ rule.access \in Said(indexed, rule.key)
    BY <1>6, <1>7, <2>1 DEF Said, Rule
  <2>3. rule.access \in Said(rules, rule.key)
    BY <1>2, <2>2
  <2>4. PICK o \in 1..Len(rules) : rules[o].key = rule.key /\ rules[o].access = rule.access
    BY <2>3 DEF Said
  <2> QED
    BY <1>3, <2>2, <2>4
<1>8. ASSUME NEW k \in Key, store[k] # Unset
      PROVE  \E rule \in ToSet(indexed) : rule.key = k /\ rule.access = store[k] /\ rule.access # "Inherit"
  <2>1. PICK i \in 1..Len(rules) : rules[i].key = k
    BY <1>4, <1>8
  <2>2. rules[i].access = store[k] /\ rules[i].access # "Inherit"
    BY <1>3, <2>1
  <2>3. store[k] \in Said(rules, k)
    BY <2>1, <2>2 DEF Said
  <2>4. store[k] \in Said(indexed, k)
    BY <1>2, <2>3
  <2>5. PICK o \in 1..Len(indexed) : indexed[o].key = k /\ indexed[o].access = store[k]
    BY <2>4 DEF Said
  <2> QED
    BY <1>5, <2>2, <2>5
<1> QED
  BY <1>6, <1>7, <1>8 DEF Indexes

\* The kinds of roles are asked in the order of their niche.
LEMMA Evaluated ==
  ASSUME NEW ix, Indexes(ix, store), Inv, Stores, NEW byKind, NEW op, NEW r \in Resource, ~hasWildcards(r)
  PROVE  evaluate(ix, byKind, op, r) = Means(byKind, op, r)
<1> DEFINE rulesOf(kind) == {rule \in ix : rule.key.op = op /\ rule.key.role \in byKind[kind]}
           answer(kind)  == checkRulesByResource(rulesOf(kind), r)
           says          == {n \in 1..Len(Niche) : answer(Niche[n]) # {"Inherit"}}
           H(kind)       == Hit(store, byKind[kind], op, r)
           B(kind)       == Best(store, H(kind))
<1>1. \A kind : answer(kind) = IF H(kind) = {} THEN {"Inherit"} ELSE B(kind)
  BY Checked
<1>2. ASSUME NEW kind PROVE B(kind) # {"Inherit"}
  BY DEF Best, Hit, Stores
<1>3. \A kind : byKind[kind] = {} => H(kind) = {}
  BY DEF Hit
<1>4. ix = {} => \A kind : H(kind) = {}
  BY DEF Indexes, Hit
<1>5. evaluate(ix, byKind, op, r) =
        IF byKind["anonymous"] # {} THEN {"Deny"}
        ELSE IF byKind["bypass"] # {} THEN {"Allow"}
        ELSE IF ix = {} \/ says = {} THEN {"Inherit"}
        ELSE answer(Niche[CHOOSE n \in says : \A o \in says : n <= o])
  BY DEF evaluate
<1>6. Means(byKind, op, r) =
        IF byKind["anonymous"] # {} THEN {"Deny"}
        ELSE IF byKind["bypass"] # {} THEN {"Allow"}
        ELSE IF H("context") # {} THEN B("context")
        ELSE IF H("common") # {} THEN B("common")
        ELSE IF H("authenticated") # {} THEN B("authenticated")
        ELSE {"Inherit"}
  BY DEF Means, Hit, Best
<1>7. /\ Len(Niche) = 4 /\ Niche[1] = "context" /\ Niche[2] = "common"
      /\ Niche[3] = "authenticated" /\ Niche[4] = "anonymous"
  BY DEF Niche
<1> HIDE DEF answer, B
<1>8. \A kind : answer(kind) # {"Inherit"} <=> H(kind) # {}
  BY <1>1, <1>2
<1> HIDE DEF H
<1>9. /\ 1 \in says <=> H("context") # {}
      /\ 2 \in says <=> H("common") # {}
      /\ 3 \in says <=> H("authenticated") # {}
      /\ byKind["anonymous"] = {} => 4 \notin says
      /\ says \subseteq 1..4
  BY <1>3, <1>7, <1>8
<1> DEFINE n == CHOOSE n \in says : \A o \in says : n <= o
<1> HIDE DEF says
<1>10. ASSUME NEW m \in says, \A o \in says : m <= o PROVE n = m
  <2>1. n \in says /\ \A o \in says : n <= o
    BY <1>10
  <2>2. n <= m /\ m <= n /\ n \in 1..4 /\ m \in 1..4
    BY <1>9, <1>10, <2>1
  <2> HIDE DEF n
  <2> QED
    BY <2>2
<1> HIDE DEF n
<1>11. CASE byKind["anonymous"] # {} \/ byKind["bypass"] # {}
  BY <1>5, <1>6, <1>11
<1>12. CASE byKind["anonymous"] = {} /\ byKind["bypass"] = {}
  <2>1. CASE H("context") # {}
    <3>1. n = 1 /\ says # {} /\ ix # {}
      BY <1>4, <1>9, <1>10, <2>1 DEF H
    <3>2. answer("context") = B("context")
      BY <1>1, <2>1
    <3> QED
      BY <1>5, <1>6, <1>7, <1>12, <2>1, <3>1, <3>2 DEF n
  <2>2. CASE H("context") = {} /\ H("common") # {}
    <3>1. n = 2 /\ says # {} /\ ix # {}
      BY <1>4, <1>9, <1>10, <2>2 DEF H
    <3>2. answer("common") = B("common")
      BY <1>1, <2>2
    <3> QED
      BY <1>5, <1>6, <1>7, <1>12, <2>2, <3>1, <3>2 DEF n
  <2>3. CASE H("context") = {} /\ H("common") = {} /\ H("authenticated") # {}
    <3>1. n = 3 /\ says # {} /\ ix # {}
      BY <1>4, <1>9, <1>10, <2>3 DEF H
    <3>2. answer("authenticated") = B("authenticated")
      BY <1>1, <2>3
    <3> QED
      BY <1>5, <1>6, <1>7, <1>12, <2>3, <3>1, <3>2 DEF n
  <2>4. CASE H("context") = {} /\ H("common") = {} /\ H("authenticated") = {}
    <3>1. says = {}
      BY <1>9, <1>12, <2>4
    <3> QED
      BY <1>5, <1>6, <1>12, <2>4, <3>1
  <2> QED
    BY <2>1, <2>2, <2>3, <2>4
<1> QED
  BY <1>11, <1>12

\* A check answers what the table means, for any rules, roles and resources.
THEOREM ChecksMeanStore == Spec => []CheckMeansStore
<1>1. Inv /\ Books /\ Current => CheckMeansStore
  BY IndexSays, Evaluated DEF CheckMeansStore, Books
<1>2. Inv /\ Current /\ [Next]_vars => Current'
  BY NextCurrent
<1> QED
  BY <1>1, <1>2, InitInv, InitBooks, InitCurrent, NextInv, NextBooks, PTL DEF Spec

-----------------------------------------------------------------------------
(* The table has no rule that the service does not know *)

\* What a flush under way keeps and deletes.
Plans(j, rs, st, wild) ==
    /\ KeysOf(j.final) \subseteq KeysOf(rs) /\ KeysOf(j.updatable) \subseteq KeysOf(j.final)
    /\ \A k \in Key \ wild : k \notin KeysOf(j.final) =>
          st[k] = Unset \/ (j.pc = "delete" /\ k \in KeysOf(j.deletable))

\* The table only has rules of keys that are in memory, those included that the
\* service lost track of.
Known ==
    /\ \A k \in Key \ foreign : k \notin KeysOf(rules) => store[k] = Unset
    /\ \A c \in Client : job[c].pc \in {"delete", "upsert"} => Plans(job[c], rules, store, foreign)

LEMMA StaysKnown ==
  ASSUME \A k \in Key \ foreign' : k \notin KeysOf(rules') => store'[k] = Unset,
         \A c \in Client : job'[c].pc \in {"delete", "upsert"} => Plans(job'[c], rules', store', foreign')
  PROVE  Known'
BY DEF Known, Plans, KeysOf

\* A step that leaves the table alone, but for keys that become foreign.
LEMMA QuietKnown ==
  ASSUME Known, KeysOf(rules) \subseteq KeysOf(rules'), foreign \subseteq foreign',
         \A k \in Key \ foreign' : store'[k] = store[k],
         \A x \in Client : job'[x].pc \in {"delete", "upsert"} => job'[x].pc = job[x].pc /\ SameJob(x)
  PROVE  Known'
<1>1. \A k \in Key \ foreign' : k \notin KeysOf(rules') => store'[k] = Unset
  BY DEF Known
<1>2. ASSUME NEW c \in Client, job'[c].pc \in {"delete", "upsert"}
      PROVE  Plans(job'[c], rules', store', foreign')
  <2>1. Plans(job[c], rules, store, foreign) /\ SameJob(c) /\ job'[c].pc = job[c].pc
    BY <1>2 DEF Known
  <2>2. /\ job'[c].final = job[c].final /\ job'[c].updatable = job[c].updatable
        /\ job'[c].deletable = job[c].deletable
    BY <2>1 DEF SameJob
  <2> QED
    BY <2>1, <2>2 DEF Plans
<1> QED
  BY <1>1, <1>2, StaysKnown

LEMMA FadedKeys ==
  ASSUME NEW a, NEW b, Fades(a, b)
  PROVE  KeysOf(a) = KeysOf(b)
BY DEF Fades, KeysOf

LEMMA GrantKnown ==
  ASSUME Inv, Known, NEW c \in Client, Grant(c) \/ CloneGrant(c)
  PROVE  Known'
<1>1. PICK news \in Seq(Pointer), was \in Job :
            /\ ValidAt(heap, news) /\ was.existing = <<>> /\ Merge(c, news, was)
            /\ job[c].pc \notin Busy /\ calls' \in 0..MaxCalls
  BY GrantMerges
<1> DEFINE new == [n \in 1..Len(news) |-> Deref(heap, news[n])]
<1>2. /\ \A x \in Client \ {c} : SameJob(x)
      /\ job'[c].pc = "flush" /\ heap'[rulesAt] = merge(rules, new)
  BY <1>1, MergeInv
<1>3. lock = NoClient /\ UNCHANGED <<rulesAt, store, foreign>>
  BY <1>1 DEF Merge
<1>4. \A x \in Client : job'[x].pc \notin {"delete", "upsert"}
  BY <1>2, <1>3, Nobody DEF SameJob, Busy
<1>5. KeysOf(rules) \subseteq KeysOf(rules')
  <2>1. rules \in Seq(Rule) /\ new \in Seq(Rule)
    BY <1>1, RulesAre, MergeTypes DEF Inv
  <2> DEFINE m == merge(rules, new)
  <2>2. rules' = m
    BY <1>2, <1>3 DEF rules
  <2>3. /\ Len(m) \in Nat /\ Len(rules) \in Nat /\ Len(m) >= Len(rules)
        /\ \A i \in 1..Len(rules) : m[i].key = rules[i].key
    <3> HIDE DEF new
    <3>1. /\ Len(m) \in Nat /\ Len(rules) \in Nat /\ Len(m) >= Len(rules)
          /\ \A i \in 1..Len(rules) : /\ m[i].key = rules[i].key
                                      /\ rules[i].key \notin KeysOf(new) => m[i] = rules[i]
      BY <2>1, Merging
    <3> QED
      BY <3>1
  <2> HIDE DEF m
  <2>4. \A i \in 1..Len(rules) : i \in 1..Len(m)
    BY <2>3
  <2> QED
    BY <2>2, <2>3, <2>4 DEF KeysOf
<1> QED
  BY <1>3, <1>4, <1>5, QuietKnown

LEMMA FlushKnown ==
  ASSUME Inv, Known, NEW c \in Client, Flush(c)
  PROVE  Known'
<1> DEFINE a == rules
           d == deletable(a)
           u == updatable(a)
           f == final(a)
<1>1. /\ Types /\ a \in Seq(Rule) /\ job \in [Client -> Job] /\ job[c].pc = "flush"
      /\ UNCHANGED <<heap, rulesAt, store, foreign>>
  BY RulesAre DEF Inv, Types, Flush
<1>2. rules' = a
  BY <1>1 DEF rules
<1>3. \A i \in 1..Len(a) : a[i].access = "Inherit" => \E n \in 1..Len(d) : d[n] = a[i]
  BY <1>1, Flushing
<1>4. \A n \in 1..Len(u) : \E i \in 1..Len(a) : u[n] = a[i] /\ a[i].access # "Inherit"
  BY <1>1, Flushing
<1>5. \A n \in 1..Len(f) : \E i \in 1..Len(a) :
            f[n].key = a[i].key /\ f[n].access = a[i].access /\ a[i].access # "Inherit" /\ ~f[n].dirty
  BY <1>1, Flushing
<1>6. \A i \in 1..Len(a) : a[i].access # "Inherit" =>
            \E n \in 1..Len(f) : f[n].key = a[i].key /\ f[n].access = a[i].access
  BY <1>1, Flushing
<1>7. job' = [job EXCEPT ![c].pc = "delete", ![c].deletable = d, ![c].updatable = u, ![c].final = f]
  BY DEF Flush
<1> HIDE DEF d, u, f
<1>8. /\ job'[c].pc = "delete" /\ job'[c].final = f /\ job'[c].updatable = u /\ job'[c].deletable = d
      /\ \A x \in Client \ {c} : job'[x] = job[x]
  BY <1>1, <1>7 DEF Job
<1>9. KeysOf(f) \subseteq KeysOf(a)
  BY <1>5 DEF KeysOf
<1>10. KeysOf(u) \subseteq KeysOf(f)
  <2> SUFFICES ASSUME NEW n \in 1..Len(u) PROVE u[n].key \in KeysOf(f)
    BY DEF KeysOf
  <2>1. PICK i \in 1..Len(a) : u[n] = a[i] /\ a[i].access # "Inherit"
    BY <1>4
  <2> QED
    BY <1>6, <2>1 DEF KeysOf
<1>11. ASSUME NEW k \in Key \ foreign, k \notin KeysOf(f) PROVE store[k] = Unset \/ k \in KeysOf(d)
  <2>1. CASE k \in KeysOf(a)
    <3>1. PICK i \in 1..Len(a) : a[i].key = k
      BY <2>1 DEF KeysOf
    <3>2. a[i].access = "Inherit"
      BY <1>6, <1>11, <3>1 DEF KeysOf
    <3> QED
      BY <1>3, <3>1, <3>2 DEF KeysOf
  <2>2. CASE k \notin KeysOf(a)
    BY <2>2 DEF Known
  <2> QED
    BY <2>1, <2>2
<1>12. ASSUME NEW x \in Client, job'[x].pc \in {"delete", "upsert"}
       PROVE  Plans(job'[x], rules', store', foreign')
  <2>1. CASE x = c
    BY <1>1, <1>2, <1>8, <1>9, <1>10, <1>11, <2>1 DEF Plans
  <2>2. CASE x # c
    BY <1>1, <1>2, <1>8, <1>12, <2>2 DEF Known
  <2> QED
    BY <2>1, <2>2
<1>13. \A k \in Key \ foreign' : k \notin KeysOf(rules') => store'[k] = Unset
  BY <1>1, <1>2 DEF Known
<1> QED
  BY <1>12, <1>13, StaysKnown

LEMMA DeleteKnown ==
  ASSUME Inv, Known, NEW c \in Client, DeleteRules(c)
  PROVE  Known'
<1> DEFINE j == job[c]
           d == j.deletable
<1>1. /\ job \in [Client -> Job] /\ j \in Job /\ j.pc = "delete" /\ UNCHANGED <<heap, rulesAt, foreign>>
      /\ store' = Deleted(store, d, Len(d)) /\ job' = [job EXCEPT ![c].pc = "upsert"]
  BY DEF DeleteRules, Inv, Types
<1>2. /\ job'[c].pc = "upsert" /\ job'[c].updatable = j.updatable /\ job'[c].final = j.final
      /\ \A x \in Client \ {c} : job'[x] = job[x]
  BY <1>1 DEF Job
<1>3. rules' = rules
  BY <1>1 DEF rules
<1>4. \A k \in Key : IF k \in KeysOf(d) THEN store'[k] = Unset ELSE store'[k] = store[k]
  BY <1>1 DEF Deleted, KeysOf
<1>5. Plans(j, rules, store, foreign)
  BY <1>1 DEF Known
<1>6. Plans(job'[c], rules', store', foreign')
  BY <1>1, <1>2, <1>3, <1>4, <1>5 DEF Plans
<1>7. \A x \in Client \ {c} : job'[x].pc \notin {"delete", "upsert"}
  BY <1>1, <1>2, Holder DEF Busy
<1> QED
  BY <1>1, <1>3, <1>4, <1>6, <1>7, StaysKnown DEF Known

LEMMA FailsKnown ==
  ASSUME Inv, Known, NEW c \in Client, DeleteFails(c) \/ UpsertFails(c)
  PROVE  Known'
<1> DEFINE j == job[c]
<1>1. /\ job \in [Client -> Job] /\ j \in Job /\ j.pc \in {"delete", "upsert"}
      /\ j.updatable \in Seq(Rule)
      /\ UNCHANGED <<heap, rulesAt, foreign>> /\ job' = [job EXCEPT ![c] = NoJob]
  BY DEF DeleteFails, UpsertFails, Abort, Inv, Types, Job
<1>2. rules' = rules
  BY <1>1 DEF rules
<1>3. \A x \in Client : job'[x].pc \notin {"delete", "upsert"}
  <2>1. job'[c].pc = "idle" /\ \A x \in Client \ {c} : job'[x] = job[x]
    BY <1>1, NoJobIs
  <2> QED
    BY <1>1, <2>1, Holder DEF Busy
<1>4. KeysOf(j.updatable) \subseteq KeysOf(rules)
  BY <1>1 DEF Known, Plans
<1>5. ASSUME NEW k \in Key \ foreign', k \notin KeysOf(rules') PROVE store'[k] = Unset
  <2>1. store[k] = Unset
    BY <1>1, <1>2, <1>5 DEF Known
  <2>2. CASE DeleteFails(c)
    BY <2>1, <2>2 DEF DeleteFails, Deleted
  <2>3. CASE UpsertFails(c)
    <3> DEFINE u == j.updatable
    <3>1. PICK n \in 0..(Len(u) - 1) : store' = Upserted(store, u, n)
      BY <2>3 DEF UpsertFails
    <3>2. u \in Seq(Rule) /\ n \in 0..Len(u) /\ \A i \in 1..n : i \in 1..Len(u)
      BY <1>1
    <3> HIDE DEF u
    <3>3. \/ Upserted(store, u, n)[k] = store[k]
          \/ \E i \in 1..n : u[i].key = k
      BY <3>2, Upserting
    <3>4. \A i \in 1..n : u[i].key # k
      BY <1>2, <1>4, <1>5, <3>2 DEF KeysOf, u
    <3> QED
      BY <2>1, <3>1, <3>3, <3>4
  <2> QED
    BY <2>2, <2>3
<1> QED
  BY <1>3, <1>5, StaysKnown

LEMMA UpsertKnown ==
  ASSUME Inv, Known, NEW c \in Client, UpsertRules(c)
  PROVE  Known'
<1> DEFINE j == job[c]
           u == j.updatable
<1>1. /\ job \in [Client -> Job] /\ j \in Job /\ j.pc = "upsert" /\ u \in Seq(Rule)
      /\ foreign' = foreign /\ job' = [job EXCEPT ![c] = NoJob]
      /\ store' = Upserted(store, u, Len(u))
  BY DEF UpsertRules, Inv, Types, Job
<1>2. rules' = j.final
  BY UpsertRulesInv DEF rules
<1>3. \A x \in Client : job'[x].pc \notin {"delete", "upsert"}
  <2>1. job'[c].pc = "idle" /\ \A x \in Client \ {c} : job'[x] = job[x]
    BY <1>1, NoJobIs
  <2> QED
    BY <1>1, <2>1, Holder DEF Busy
<1>4. Plans(j, rules, store, foreign)
  BY <1>1 DEF Known
<1>5. ASSUME NEW k \in Key \ foreign', k \notin KeysOf(rules') PROVE store'[k] = Unset
  <2>1. store[k] = Unset /\ k \notin KeysOf(u)
    BY <1>1, <1>2, <1>4, <1>5 DEF Plans
  <2> HIDE DEF u
  <2>2. Len(u) \in 0..Len(u)
    BY <1>1
  <2>3. \/ store'[k] = store[k]
        \/ \E i \in 1..Len(u) : u[i].key = k
    BY <1>1, <2>2, Upserting
  <2> QED
    BY <2>1, <2>3 DEF KeysOf
<1> QED
  BY <1>3, <1>5, StaysKnown

LEMMA ReloadKnown ==
  ASSUME Inv, Reload
  PROVE  Known'
<1> DEFINE s == Stored(store)
<1>1. lock = NoClient /\ rules' = s /\ store' = store /\ \A x \in Client : SameJob(x)
  BY ReloadInv DEF Reload, rules
<1>2. \A k \in Key : store[k] # Unset => \E i \in 1..Len(s) : s[i].key = k
  <2>1. \A k \in Key : store[k] \in Access \cup {Unset}
    BY DEF Inv, Types
  <2> QED
    BY <2>1, Storing
<1>3. \A x \in Client : job'[x].pc \notin {"delete", "upsert"}
  BY <1>1, Nobody DEF SameJob, Busy
<1>4. \A k \in Key : k \notin KeysOf(rules') => store'[k] = Unset
  BY <1>1, <1>2 DEF KeysOf
<1> QED
  BY <1>3, <1>4, StaysKnown

LEMMA OtherwiseKnown ==
  ASSUME Inv, Known,
         \/ \E c \in Client : Clone(c) \/ CloneFind(c) \/ CloneWrite(c)
         \/ Import \/ UpdateRoles \/ UNCHANGED vars
  PROVE  Known'
<1>1. ASSUME NEW c \in Client, Clone(c) \/ CloneFind(c) PROVE Known'
  <2>1. rules' = rules /\ UNCHANGED <<store, foreign>>
    BY <1>1 DEF Clone, CloneFind, rules
  <2>2. \A x \in Client : SameJob(x) \/ job'[x].pc \notin Busy
    BY <1>1, CloneSteps
  <2>3. \A x \in Client : job'[x].pc \in {"delete", "upsert"} => job'[x].pc = job[x].pc /\ SameJob(x)
    BY <2>2 DEF SameJob, Busy
  <2> QED
    BY <2>1, <2>3, QuietKnown
<1>2. ASSUME NEW c \in Client, CloneWrite(c) PROVE Known'
  <2>1. KeysOf(rules) = KeysOf(rules') /\ UNCHANGED <<store, foreign>>
    BY <1>2, CloneWrites, FadedKeys DEF CloneWrite
  <2>2. (\A x \in Client \ {c} : SameJob(x)) /\ job'[c].pc = "find"
    BY <1>2, CloneWriteInv
  <2>3. \A x \in Client : job'[x].pc \in {"delete", "upsert"} => job'[x].pc = job[x].pc /\ SameJob(x)
    BY <2>2 DEF SameJob
  <2> QED
    BY <2>1, <2>3, QuietKnown
<1>3. ASSUME Import PROVE Known'
  <2>1. PICK i \in Imports : store' = [store EXCEPT ![i.key] = i.access] /\ foreign' = foreign \cup {i.key}
    BY <1>3 DEF Import
  <2>2. rules' = rules /\ \A x \in Client : SameJob(x)
    BY <1>3, ImportInv DEF Import, rules
  <2>3. \A k \in Key \ foreign' : store'[k] = store[k]
    BY <2>1 DEF Inv, Types
  <2>4. \A x \in Client : job'[x].pc = job[x].pc
    BY <2>2 DEF SameJob
  <2> QED
    BY <2>1, <2>2, <2>3, <2>4, QuietKnown
<1>4. ASSUME UpdateRoles \/ UNCHANGED vars PROVE Known'
  <2>1. rules' = rules /\ UNCHANGED <<store, foreign, job>>
    BY <1>4 DEF UpdateRoles, vars, rules
  <2>2. \A x \in Client : SameJob(x)
    BY <2>1 DEF SameJob, Inv, Types
  <2> QED
    BY <2>1, <2>2, QuietKnown
<1> QED
  BY <1>1, <1>2, <1>3, <1>4

LEMMA InitKnown == Init => Known
<1> SUFFICES ASSUME Init PROVE Known
  OBVIOUS
<1>1. job = [c \in Client |-> NoJob] /\ NoJob.pc = "idle"
  BY NoJobIs DEF Init
<1> QED
  BY <1>1 DEF Known, Init

LEMMA NextKnown ==
  ASSUME Inv, Known, [Next]_vars
  PROVE  Known'
<1>1. ASSUME NEW c \in Client, ClientStep(c) PROVE Known'
  BY <1>1, GrantKnown, FlushKnown, DeleteKnown, FailsKnown, UpsertKnown, OtherwiseKnown
     DEF ClientStep
<1> QED
  BY <1>1, GrantKnown, ReloadKnown, OtherwiseKnown DEF Next

-----------------------------------------------------------------------------
(* A clone leaves its targets with what it brought *)

\* The rules a call is to grant.
Brought(j) == [n \in 1..Len(j.news) |-> j.news[n].rule]
Hits(new, k) == Picked(new, {n \in 1..Len(new) : new[n].key = k})
Wanted(hits) == IF hits = <<>> THEN "Inherit" ELSE Last(hits).access
\* Is the role of the key one that is cloned to, and the key brought once?
Decided(new, k) ==
    /\ \E n \in 1..Len(new) : new[n].key.role = k.role
    /\ \A n \in 1..(Len(Hits(new, k)) - 1) : Hits(new, k)[n].access = "Inherit"

\* All the changes of a key that wait to be written make it v.
Settled(rs, k, v) ==
    /\ \A i \in 1..Len(rs) : rs[i].key = k => ~rs[i].dirty \/ rs[i].access \in {v, "Inherit"}
    /\ v # "Inherit" => \E i \in 1..Len(rs) : rs[i].key = k /\ rs[i].access = v /\ rs[i].dirty
    /\ v = "Inherit" => k \notin KeysOf(rs) \/ \E i \in 1..Len(rs) : rs[i].key = k /\ rs[i].access = v
\* What a flush has taken makes a key v.
Due(j, st, k, v) ==
    /\ \A n \in 1..Len(j.updatable) : j.updatable[n].key = k => j.updatable[n].access = v /\ v # "Inherit"
    /\ v # "Inherit" => k \in KeysOf(j.updatable)
    /\ v = "Inherit" => st[k] = Unset \/ (j.pc = "delete" /\ k \in KeysOf(j.deletable))

\* The rules of a key in memory are all among those a clone has set to inherit,
\* or clean.
Cleared(h, s, rs, k) ==
    /\ \A n \in 1..Len(s) : s[n].at # <<>> /\ Deref(h, s[n]).key = k => Deref(h, s[n]).access = "Inherit"
    /\ k \in KeysOf(rs) => \E n \in 1..Len(s) : s[n].at # <<>> /\ Deref(h, s[n]).key = k
    /\ \A i \in 1..Len(rs) : rs[i].key = k => ~rs[i].dirty \/ rs[i].access = "Inherit"
\* A clone that is about to set the rules of a key to inherit has them all.
Caught(h, s, at, rs, k) ==
    /\ k \in KeysOf(rs) => \E n \in 1..Len(s) : Deref(h, s[n]).key = k
    /\ \A i \in 1..Len(rs) : rs[i].key = k =>
          ~rs[i].dirty \/ rs[i].access = "Inherit" \/ \E n \in 1..Len(s) : s[n].at = <<at, i>>
Covers(h, s, k) == \E n \in 1..Len(s) : Deref(h, s[n]).key.role = k.role

Collects(h, j, at, rs, k) ==
    /\ Covers(h, j.news, k) => Cleared(h, j.news, rs, k)
    /\ j.pc = "write" /\ k.role = Head(j.to) => Caught(h, j.existing, at, rs, k)
Carries(j, rs, st, k) ==
    LET new == Brought(j) v == Wanted(Hits(new, k))
    IN  Decided(new, k) => /\ j.pc = "flush" => Settled(rs, k, v)
                           /\ j.pc \in {"delete", "upsert"} => Due(j, st, k, v)
Clean(j, h, at, rs, st, wild) ==
    j.clone => \A k \in Key \ (j.touched \cup wild) :
        /\ j.pc \in {"find", "write"} => Collects(h, j, at, rs, k)
        /\ j.pc \in {"flush", "delete", "upsert"} => Carries(j, rs, st, k)
Cloned == \A c \in Client : Clean(job[c], heap, rulesAt, rules, store, foreign)

LEMMA Least ==
  ASSUME NEW m \in Nat, NEW I \in SUBSET (1..m), I # {}
  PROVE  \E i \in I : \A j \in I : i <= j
<1> DEFINE J == {n \in 1..m : m + 1 - n \in I}
<1>1. J \in SUBSET (1..m) /\ J # {}
  <2>1. PICK i \in I : TRUE
    OBVIOUS
  <2>2. i \in 1..m /\ m + 1 - (m + 1 - i) = i /\ m + 1 - i \in 1..m
    BY <2>1
  <2> QED
    BY <2>2
<1>2. \A n \in J : m + 1 - n \in I
  OBVIOUS
<1>3. \A i \in I : m + 1 - i \in J
  <2> SUFFICES ASSUME NEW i \in I PROVE m + 1 - i \in J
    OBVIOUS
  <2>1. i \in 1..m /\ m + 1 - (m + 1 - i) = i /\ m + 1 - i \in 1..m
    OBVIOUS
  <2> QED
    BY <2>1
<1> HIDE DEF J
<1>4. PICK g \in J : \A n \in J : n <= g
  BY <1>1, Greatest
<1>5. \A j \in I : m + 1 - g <= j
  <2> SUFFICES ASSUME NEW j \in I PROVE m + 1 - g <= j
    OBVIOUS
  <2>1. m + 1 - j <= g /\ j \in 1..m /\ g \in 1..m
    BY <1>1, <1>3, <1>4
  <2> QED
    BY <2>1
<1> QED
  BY <1>2, <1>5

\* What a call brings of a key.
LEMMA Hitting ==
  ASSUME NEW new \in Seq(Rule), NEW k
  PROVE  LET H == Hits(new, k)
         IN  /\ H \in Seq(Rule) /\ Len(H) \in Nat
             /\ \A n \in 1..Len(H) : \E i \in 1..Len(new) : H[n] = new[i] /\ new[i].key = k
             /\ \A i \in 1..Len(new) : new[i].key = k => \E n \in 1..Len(H) : H[n] = new[i]
<1> DEFINE I == {n \in 1..Len(new) : new[n].key = k}
           H == Hits(new, k)
<1>1. H = Picked(new, I)
  BY DEF Hits
<1>2. /\ I \in SUBSET (1..Len(new))
      /\ (\A i \in I : i \in 1..Len(new) /\ new[i].key = k)
      /\ \A i \in 1..Len(new) : new[i].key = k => i \in I
  OBVIOUS
<1> HIDE DEF I, H
<1>3. H \in Seq(Rule) /\ (\A n \in 1..Len(H) : \E i \in I : H[n] = new[i])
      /\ \A i \in I : \E n \in 1..Len(H) : H[n] = new[i]
  BY <1>1, <1>2, Picking
<1>4. Len(H) \in Nat
  BY <1>3
<1>5. H \in Seq(Rule) /\ Len(H) \in Nat
      /\ (\A n \in 1..Len(H) : \E i \in 1..Len(new) : H[n] = new[i] /\ new[i].key = k)
      /\ \A i \in 1..Len(new) : new[i].key = k => \E n \in 1..Len(H) : H[n] = new[i]
  BY <1>2, <1>3, <1>4
<1> QED
  BY <1>5 DEF H

\* After the merge of what a clone brings, the key is to become what was copied last.
LEMMA Applied ==
  ASSUME NEW base \in Seq(Rule), NEW new \in Seq(Rule), NEW k \in Key, Decided(new, k),
         k \in KeysOf(base) => \E n \in 1..Len(new) : new[n].key = k /\ new[n].access = "Inherit",
         \A i \in 1..Len(base) : base[i].key = k => ~base[i].dirty \/ base[i].access = "Inherit"
  PROVE  Settled(merge(base, new), k, Wanted(Hits(new, k)))
<1> DEFINE m == merge(base, new)
           H == Hits(new, k)
           v == Wanted(H)
           first(i) == \A j \in 1..(i - 1) : base[j].key # base[i].key
           dirtied(r) == [r EXCEPT !.dirty = TRUE]
<1>1. /\ m \in Seq(Rule) /\ Len(m) \in Nat /\ Len(base) \in Nat /\ Len(m) >= Len(base)
      /\ \A i \in 1..Len(base) :
            /\ base[i].key = k => m[i] = IF first(i) THEN Overwritten(base[i], H) ELSE base[i]
            /\ m[i].key = base[i].key
      /\ \A i \in 1..Len(m) : i \notin 1..Len(base) =>
            \E n \in 1..Len(new) : new[n].key \notin KeysOf(base) /\ m[i] = dirtied(new[n])
      /\ \A n \in 1..Len(new) : new[n].key \notin KeysOf(base) =>
            \E i \in 1..Len(m) : m[i] = dirtied(new[n])
  <2> DEFINE p(i) == Picked(new, {n \in 1..Len(new) : new[n].key = base[i].key})
  <2>1. \A i \in 1..Len(base) : base[i].key = k => H = p(i)
    BY DEF Hits
  <2>2. m \in Seq(Rule) /\ Len(m) \in Nat /\ Len(base) \in Nat /\ Len(m) >= Len(base)
    BY Merged
  <2>3. \A i \in 1..Len(base) : m[i] = IF first(i) THEN Overwritten(base[i], p(i)) ELSE base[i]
    BY Merged
  <2>4. \A i \in 1..Len(base) : m[i].key = base[i].key
    BY Merged
  <2>5. \A i \in 1..Len(m) : i \notin 1..Len(base) =>
           \E n \in 1..Len(new) : new[n].key \notin KeysOf(base) /\ m[i] = dirtied(new[n])
    BY Merged
  <2>6. \A n \in 1..Len(new) : new[n].key \notin KeysOf(base) =>
           \E i \in 1..Len(m) : m[i] = dirtied(new[n])
    BY Merged
  <2> HIDE DEF H, p, m, first, dirtied
  <2> QED
    BY <2>1, <2>2, <2>3, <2>4, <2>5, <2>6
<1>2. /\ H \in Seq(Rule) /\ Len(H) \in Nat
      /\ \A n \in 1..Len(H) : \E i \in 1..Len(new) : H[n] = new[i] /\ new[i].key = k
      /\ \A i \in 1..Len(new) : new[i].key = k => \E n \in 1..Len(H) : H[n] = new[i]
  BY Hitting
<1>3. \A r \in Rule : dirtied(r).key = r.key /\ dirtied(r).access = r.access /\ dirtied(r).dirty
  BY DEF Rule
<1>4. (\A i \in 1..Len(base) : base[i] \in Rule) /\ \A n \in 1..Len(new) : new[n] \in Rule
  OBVIOUS
<1>5. \A n \in 1..(Len(H) - 1) : H[n].access = "Inherit"
  BY DEF Decided
<1> HIDE DEF m, H, dirtied
<1>6. \A i \in 1..Len(m) : i \notin 1..Len(base) =>
         \E n \in 1..Len(new) : /\ new[n].key \notin KeysOf(base) /\ m[i].key = new[n].key
                                /\ m[i].access = new[n].access /\ m[i].dirty
  <2> SUFFICES ASSUME NEW i \in 1..Len(m), i \notin 1..Len(base)
               PROVE  \E n \in 1..Len(new) : /\ new[n].key \notin KeysOf(base) /\ m[i].key = new[n].key
                                             /\ m[i].access = new[n].access /\ m[i].dirty
    OBVIOUS
  <2>1. PICK n \in 1..Len(new) : new[n].key \notin KeysOf(base) /\ m[i] = dirtied(new[n])
    BY <1>1
  <2>2. new[n] \in Rule
    BY <1>4
  <2> QED
    BY <1>3, <2>1, <2>2
<1>7. \A n \in 1..Len(new) : new[n].key \notin KeysOf(base) =>
         \E i \in 1..Len(m) : m[i].key = new[n].key /\ m[i].access = new[n].access /\ m[i].dirty
  <2> SUFFICES ASSUME NEW n \in 1..Len(new), new[n].key \notin KeysOf(base)
               PROVE  \E i \in 1..Len(m) : m[i].key = new[n].key /\ m[i].access = new[n].access /\ m[i].dirty
    OBVIOUS
  <2>1. PICK i \in 1..Len(m) : m[i] = dirtied(new[n])
    BY <1>1
  <2>2. new[n] \in Rule
    BY <1>4
  <2> QED
    BY <1>3, <2>1, <2>2
<1>8. \A i \in 1..Len(base) : i \in 1..Len(m)
  BY <1>1
<1>9. CASE H = <<>>
  <2>1. v = "Inherit"
    BY <1>9 DEF Wanted
  <2>2. \A n \in 1..Len(new) : new[n].key # k
    BY <1>2, <1>9
  <2>3. k \notin KeysOf(base)
    BY <2>2
  <2>4. \A i \in 1..Len(m) : m[i].key # k
    <3> SUFFICES ASSUME NEW i \in 1..Len(m) PROVE m[i].key # k
      OBVIOUS
    <3>1. CASE i \in 1..Len(base)
      BY <1>1, <2>3, <3>1 DEF KeysOf
    <3>2. CASE i \notin 1..Len(base)
      BY <1>6, <2>2, <3>2
    <3> QED
      BY <3>1, <3>2
  <2> QED
    BY <2>1, <2>4 DEF Settled, KeysOf, m, H
<1>10. CASE H # <<>>
  <2> DEFINE l == Len(H)
             before(r) == IF l = 1 THEN r.access ELSE H[l - 1].access
  <2>1. l \in 1..l /\ H[l] = Last(H) /\ v = H[l].access /\ l \in Nat \ {0}
    BY <1>2, <1>10 DEF Last, Wanted
  <2>2. \A i \in 1..Len(base) :
           base[i].key = k /\ first(i) => m[i].access = v /\ m[i].dirty = (before(base[i]) # v)
    <3> SUFFICES ASSUME NEW i \in 1..Len(base), base[i].key = k, first(i)
                 PROVE  m[i].access = v /\ m[i].dirty = (before(base[i]) # v)
      OBVIOUS
    <3> DEFINE r == base[i]
               d == (before(r) # v)
    <3>1. r \in Rule
      BY <1>4
    <3>4. m[i] = Overwritten(r, H)
      BY <1>1
    <3>5. Overwritten(r, H) = [r EXCEPT !.access = Last(H).access, !.dirty = before(r) # Last(H).access]
      BY <1>10 DEF Overwritten
    <3>2. m[i] = [r EXCEPT !.access = v, !.dirty = d]
      BY <2>1, <3>4, <3>5
    <3> HIDE DEF r, d, v
    <3>3. m[i].access = v /\ m[i].dirty = d
      BY <3>1, <3>2 DEF Rule
    <3> QED
      BY <3>3 DEF r, d
  <2>3. \A n \in 1..Len(new) : new[n].key = k => new[n].access \in {v, "Inherit"}
    <3> SUFFICES ASSUME NEW n \in 1..Len(new), new[n].key = k PROVE new[n].access \in {v, "Inherit"}
      OBVIOUS
    <3>1. PICK q \in 1..l : H[q] = new[n]
      BY <1>2
    <3>2. q = l \/ q \in 1..(l - 1)
      BY <2>1
    <3> QED
      BY <1>5, <2>1, <3>1, <3>2
  <2>4. ASSUME NEW i \in 1..Len(m), m[i].key = k PROVE ~m[i].dirty \/ m[i].access \in {v, "Inherit"}
    <3>1. CASE i \in 1..Len(base)
      <4>1. base[i].key = k
        BY <1>1, <2>4, <3>1
      <4>2. CASE first(i)
        BY <2>2, <3>1, <4>1, <4>2
      <4>3. CASE ~first(i)
        <5>1. m[i] = base[i]
          BY <1>1, <3>1, <4>1, <4>3
        <5> QED
          BY <3>1, <4>1, <5>1
      <4> QED
        BY <4>2, <4>3
    <3>2. CASE i \notin 1..Len(base)
      <4>1. PICK n \in 1..Len(new) : m[i].key = new[n].key /\ m[i].access = new[n].access
        BY <1>6, <3>2
      <4> QED
        BY <2>3, <2>4, <4>1
    <3> QED
      BY <3>1, <3>2
  <2>5. \E i \in 1..Len(m) : m[i].key = k /\ m[i].access = v /\ (v # "Inherit" => m[i].dirty)
    <3>1. CASE k \in KeysOf(base)
      <4> DEFINE I == {i \in 1..Len(base) : base[i].key = k}
      <4>1. I \in SUBSET (1..Len(base)) /\ I # {} /\ \A i \in 1..Len(base) : base[i].key = k => i \in I
        BY <3>1 DEF KeysOf
      <4>2. \A i \in I : i \in 1..Len(base) /\ base[i].key = k
        OBVIOUS
      <4> HIDE DEF I
      <4>3. PICK i \in I : \A j \in I : i <= j
        BY <1>1, <4>1, Least
      <4>4. first(i)
        <5> SUFFICES ASSUME NEW j \in 1..(i - 1), base[j].key = base[i].key PROVE FALSE
          OBVIOUS
        <5>1. i \in 1..Len(base) /\ base[i].key = k
          BY <4>2
        <5>2. j \in 1..Len(base) /\ ~(i <= j)
          BY <1>1, <5>1
        <5> QED
          BY <4>1, <4>3, <5>1, <5>2
      <4>5. i \in 1..Len(base) /\ base[i].key = k /\ i \in 1..Len(m) /\ m[i].key = k
        BY <1>1, <1>8, <4>2
      <4>6. m[i].access = v /\ m[i].dirty = (before(base[i]) # v)
        BY <2>2, <4>4, <4>5
      <4>7. ASSUME v # "Inherit" PROVE before(base[i]) # v
        <5>1. PICK n \in 1..Len(new) : new[n].key = k /\ new[n].access = "Inherit"
          BY <3>1
        <5>2. PICK q \in 1..l : H[q] = new[n]
          BY <1>2, <5>1
        <5>3. q # l
          BY <2>1, <4>7, <5>1, <5>2
        <5>4. l # 1 /\ l - 1 \in 1..(l - 1)
          BY <2>1, <5>2, <5>3
        <5> QED
          BY <1>5, <4>7, <5>4
      <4> QED
        BY <4>5, <4>6, <4>7
    <3>2. CASE k \notin KeysOf(base)
      <4>1. PICK n \in 1..Len(new) : H[l] = new[n] /\ new[n].key = k
        BY <1>2, <2>1
      <4>2. PICK i \in 1..Len(m) : m[i].key = k /\ m[i].access = new[n].access /\ m[i].dirty
        BY <1>7, <3>2, <4>1
      <4> QED
        BY <2>1, <4>1, <4>2
    <3> QED
      BY <3>1, <3>2
  <2> HIDE DEF v
  <2>6. Settled(m, k, v)
    BY <2>4, <2>5 DEF Settled
  <2> QED
    BY <2>6 DEF m, H, v
<1> QED
  BY <1>9, <1>10

-----------------------------------------------------------------------------
(* Others leave alone what a clone has collected *)

\* A step that does to the rules of a key no more than to drop, to flush or to inherit.
Spares(k) ==
    /\ \A g \in Generation : g \in InUse /\ g \in InUse' =>
          \A i \in 1..Len(heap[g]) :
             heap[g][i].key = k => heap'[g][i].access \in {heap[g][i].access, "Inherit"}
    /\ k \in KeysOf(rules') => k \in KeysOf(rules)
    /\ \A i \in 1..Len(rules') :
          rules'[i].key = k /\ rules'[i].dirty /\ rules'[i].access # "Inherit" =>
             /\ rulesAt' = rulesAt /\ i \in 1..Len(rules)
             /\ rules[i].key = k /\ rules[i].dirty /\ rules[i].access # "Inherit"

LEMMA StaysCloned ==
  ASSUME \A c \in Client : Clean(job'[c], heap', rulesAt', rules', store', foreign')
  PROVE  Cloned'
BY DEF Cloned, Clean, Collects, Carries, Covers, Cleared, Caught, Settled, Due, Brought, Hits, Wanted,
       Decided, KeysOf, Deref, Picked

\* The pointers that a call keeps still point to rules of the same key, which
\* at most inherit.
LEMMA KeptPointers ==
  ASSUME Types, Steady, heap' \in Heap, NEW x \in Client, job'[x] \in Job,
         NEW s \in {job[x].news, job[x].from, job[x].existing},
         s \in {job'[x].news, job'[x].from, job'[x].existing},
         ValidAt(heap, s), NEW k, Spares(k)
  PROVE  \A n \in 1..Len(s) :
            /\ Deref(heap', s[n]).key = Deref(heap, s[n]).key
            /\ Deref(heap, s[n]).key = k =>
                  Deref(heap', s[n]).access \in {Deref(heap, s[n]).access, "Inherit"}
<1> SUFFICES ASSUME NEW n \in 1..Len(s)
             PROVE  /\ Deref(heap', s[n]).key = Deref(heap, s[n]).key
                    /\ Deref(heap, s[n]).key = k =>
                          Deref(heap', s[n]).access \in {Deref(heap, s[n]).access, "Inherit"}
  OBVIOUS
<1>1. CASE s[n].at = <<>>
  BY <1>1 DEF Deref
<1>2. CASE s[n].at # <<>>
  <2> DEFINE g == s[n].at[1]
             i == s[n].at[2]
  <2>1. heap'[g][i].key = heap[g][i].key
    BY <1>2, Carried
  <2>2. g \in PointersOf(job[x]) /\ s[n] \in Pointer /\ job[x] \in Job
    BY <1>2, Pointing DEF Types
  <2>3. g \in PointersOf(job'[x])
    BY <1>2, Pointing
  <2>4. g \in InUse
    BY <2>2 DEF InUse
  <2>5. g \in InUse'
    <3>1. PointersOf(job[x])' = PointersOf(job'[x])
      BY DEF PointersOf
    <3> QED
      BY <2>3, <3>1 DEF InUse
  <2>6. g \in Generation /\ i \in 1..Len(heap[g])
    BY <1>2, <2>2, Pointers DEF ValidAt, Valid
  <2>7. Deref(heap, s[n]) = heap[g][i] /\ Deref(heap', s[n]) = heap'[g][i]
    BY <1>2 DEF Deref
  <2> HIDE DEF g, i
  <2>8. heap[g][i].key = k => heap'[g][i].access \in {heap[g][i].access, "Inherit"}
    BY <2>4, <2>5, <2>6 DEF Spares
  <2> QED
    BY <2>1, <2>7, <2>8
<1> QED
  BY <1>1, <1>2

LEMMA Undisturbed ==
  ASSUME Inv, Steady, heap' \in Heap, NEW x \in Client, SameJob(x), NEW k, Spares(k),
         Collects(heap, job[x], rulesAt, rules, k)
  PROVE  Collects(heap', job'[x], rulesAt', rules', k)
<1> DEFINE s == job[x].news
           ex == job[x].existing
           a == rules
           b == rules'
<1>1. /\ Types /\ job'[x] \in Job /\ ValidAt(heap, s) /\ ValidAt(heap, ex)
      /\ job'[x].news = s /\ job'[x].existing = ex /\ job'[x].pc = job[x].pc /\ job'[x].to = job[x].to
  BY DEF Inv, PointedAt, SameJob
<1>2. \A n \in 1..Len(s) :
         /\ Deref(heap', s[n]).key = Deref(heap, s[n]).key
         /\ Deref(heap, s[n]).key = k =>
               Deref(heap', s[n]).access \in {Deref(heap, s[n]).access, "Inherit"}
  BY <1>1, KeptPointers
<1>3. \A n \in 1..Len(ex) : Deref(heap', ex[n]).key = Deref(heap, ex[n]).key
  BY <1>1, KeptPointers
<1>4. /\ k \in KeysOf(b) => k \in KeysOf(a)
      /\ \A i \in 1..Len(b) : b[i].key = k /\ b[i].dirty /\ b[i].access # "Inherit" =>
            /\ rulesAt' = rulesAt /\ i \in 1..Len(a)
            /\ a[i].key = k /\ a[i].dirty /\ a[i].access # "Inherit"
  BY DEF Spares
<1> HIDE DEF s, ex, a, b
<1>5. ASSUME Covers(heap', s, k) PROVE Cleared(heap', s, b, k)
  <2>1. Covers(heap, s, k)
    BY <1>2, <1>5 DEF Covers
  <2>2. Cleared(heap, s, a, k)
    BY <2>1 DEF Collects, s, a
  <2>3. \A n \in 1..Len(s) : s[n].at # <<>> /\ Deref(heap', s[n]).key = k =>
           Deref(heap', s[n]).access = "Inherit"
    BY <1>2, <2>2 DEF Cleared
  <2>4. k \in KeysOf(b) => \E n \in 1..Len(s) : s[n].at # <<>> /\ Deref(heap', s[n]).key = k
    BY <1>2, <1>4, <2>2 DEF Cleared
  <2>5. \A i \in 1..Len(b) : b[i].key = k => ~b[i].dirty \/ b[i].access = "Inherit"
    BY <1>4, <2>2 DEF Cleared
  <2> QED
    BY <2>3, <2>4, <2>5 DEF Cleared
<1>6. ASSUME job[x].pc = "write", k.role = Head(job[x].to) PROVE Caught(heap', ex, rulesAt', b, k)
  <2>1. Caught(heap, ex, rulesAt, a, k)
    BY <1>6 DEF Collects, ex, a
  <2>2. k \in KeysOf(b) => \E n \in 1..Len(ex) : Deref(heap', ex[n]).key = k
    BY <1>3, <1>4, <2>1 DEF Caught
  <2>3. \A i \in 1..Len(b) : b[i].key = k =>
           ~b[i].dirty \/ b[i].access = "Inherit" \/ \E n \in 1..Len(ex) : ex[n].at = <<rulesAt', i>>
    BY <1>4, <2>1 DEF Caught
  <2> QED
    BY <2>2, <2>3 DEF Caught
<1> QED
  BY <1>1, <1>5, <1>6 DEF Collects, b

LEMMA CarriesOn ==
  ASSUME NEW x \in Client, SameJob(x), NEW k, store'[k] = store[k],
         Fades(rules, rules'), \A i \in 1..Len(rules) : rules[i].key = k => rules'[i] = rules[i],
         Carries(job[x], rules, store, k)
  PROVE  Carries(job'[x], rules', store', k)
<1> DEFINE new == Brought(job[x])
           v == Wanted(Hits(new, k))
           a == rules
           b == rules'
<1>1. /\ job'[x].pc = job[x].pc /\ job'[x].news = job[x].news
      /\ job'[x].updatable = job[x].updatable /\ job'[x].deletable = job[x].deletable
  BY DEF SameJob
<1>2. Brought(job'[x]) = new
  BY <1>1 DEF Brought
<1>3. /\ Len(b) = Len(a) /\ \A i \in 1..Len(a) : b[i].key = a[i].key
      /\ \A i \in 1..Len(a) : a[i].key = k => b[i] = a[i]
  BY DEF Fades
<1>7. /\ Decided(new, k) /\ job[x].pc = "flush" => Settled(a, k, v)
      /\ Decided(new, k) /\ job[x].pc \in {"delete", "upsert"} => Due(job[x], store, k, v)
  BY DEF Carries
<1> HIDE DEF new, v, a, b
<1>4. ASSUME Settled(a, k, v) PROVE Settled(b, k, v)
  <2>1. \A i \in 1..Len(b) : b[i].key = k => i \in 1..Len(a) /\ b[i] = a[i] /\ a[i].key = k
    BY <1>3
  <2>2. \A i \in 1..Len(a) : a[i].key = k => i \in 1..Len(b) /\ b[i] = a[i] /\ b[i].key = k
    BY <1>3
  <2> QED
    BY <1>4, <2>1, <2>2 DEF Settled, KeysOf
<1>5. ASSUME Due(job[x], store, k, v) PROVE Due(job'[x], store', k, v)
  BY <1>1, <1>5 DEF Due
<1> QED
  BY <1>1, <1>2, <1>4, <1>5, <1>7 DEF Carries, v, a, b

\* The calls of others.
LEMMA OthersClean ==
  ASSUME Inv, Cloned, Steady, heap' \in Heap, NEW x \in Client, SameJob(x), foreign \subseteq foreign' \/ job[x].pc \notin Busy,
         job[x].pc \in {"find", "write"} =>
            \A k \in Key \ (job'[x].touched \cup foreign') : k \notin foreign /\ Spares(k),
         job[x].pc \in Busy =>
            \A k \in Key \ (job'[x].touched \cup foreign') :
               /\ store'[k] = store[k] /\ Fades(rules, rules')
               /\ \A i \in 1..Len(rules) : rules[i].key = k => rules'[i] = rules[i]
  PROVE  Clean(job'[x], heap', rulesAt', rules', store', foreign')
<1>1. /\ job'[x].pc = job[x].pc /\ job'[x].clone = job[x].clone /\ job[x].touched \subseteq job'[x].touched
  BY DEF SameJob
<1>2. Clean(job[x], heap, rulesAt, rules, store, foreign)
  BY DEF Cloned
<1>3. ASSUME job[x].clone, job[x].pc \in {"find", "write"}, NEW k \in Key \ (job'[x].touched \cup foreign')
      PROVE  Collects(heap', job'[x], rulesAt', rules', k)
  <2>1. Spares(k) /\ k \in Key \ (job[x].touched \cup foreign)
    BY <1>1, <1>3
  <2>2. Collects(heap, job[x], rulesAt, rules, k)
    BY <1>2, <1>3, <2>1 DEF Clean
  <2> QED
    BY <2>1, <2>2, Undisturbed
<1>4. ASSUME job[x].clone, job[x].pc \in Busy, NEW k \in Key \ (job'[x].touched \cup foreign')
      PROVE  Carries(job'[x], rules', store', k)
  <2>1. k \in Key \ (job[x].touched \cup foreign)
    BY <1>1, <1>4
  <2>2. Carries(job[x], rules, store, k)
    BY <1>2, <1>4, <2>1 DEF Clean, Busy
  <2> QED
    BY <1>4, <2>2, CarriesOn
<1> QED
  BY <1>1, <1>3, <1>4 DEF Clean, Busy

LEMMA StillSpares ==
  ASSUME Types, UNCHANGED <<heap, rulesAt>>, NEW k
  PROVE  Spares(k) /\ Steady /\ heap' \in Heap
<1>1. rules' = rules /\ rules \in Seq(Rule)
  BY RulesAre DEF rules
<1>2. \A g \in Generation : heap'[g] = heap[g]
  OBVIOUS
<1>3. k \in KeysOf(rules') => k \in KeysOf(rules)
  BY <1>1
<1> QED
  BY <1>1, <1>2, <1>3, Still DEF Spares

\* A call that neither starts, ends nor goes on with a flush.
LEMMA QuietClean ==
  ASSUME Inv, Cloned, UNCHANGED <<heap, rulesAt>>, foreign \subseteq foreign', NEW x \in Client, SameJob(x),
         job[x].pc \in Busy => \A k \in Key \ foreign' : store'[k] = store[k]
  PROVE  Clean(job'[x], heap', rulesAt', rules', store', foreign')
<1>1. Types /\ rules' = rules
  BY DEF Inv, rules
<1>2. Steady /\ heap' \in Heap /\ \A k : Spares(k)
  BY <1>1, StillSpares
<1>3. Fades(rules, rules')
  BY <1>1, SelfFades
<1>4. \A k \in Key \ (job'[x].touched \cup foreign') : k \notin foreign /\ Spares(k)
  BY <1>2
<1>5. job[x].pc \in Busy =>
         \A k \in Key \ (job'[x].touched \cup foreign') :
            /\ store'[k] = store[k] /\ Fades(rules, rules')
            /\ \A i \in 1..Len(rules) : rules[i].key = k => rules'[i] = rules[i]
  BY <1>1, <1>3
<1> QED
  BY <1>2, <1>4, <1>5, OthersClean

LEMMA FlushCloned ==
  ASSUME Inv, Known, Cloned, NEW c \in Client, Flush(c)
  PROVE  Cloned'
<1> DEFINE a == rules
           d == deletable(a)
           u == updatable(a)
           f == final(a)
<1>1. /\ Types /\ a \in Seq(Rule) /\ job \in [Client -> Job] /\ job[c].pc = "flush"
      /\ UNCHANGED <<heap, rulesAt, store, foreign>>
  BY RulesAre DEF Inv, Types, Flush
<1>2. \A i \in 1..Len(a) : a[i].access = "Inherit" => \E n \in 1..Len(d) : d[n] = a[i]
  BY <1>1, Flushing
<1>3. \A n \in 1..Len(u) : \E i \in 1..Len(a) : u[n] = a[i] /\ a[i].access # "Inherit" /\ a[i].dirty
  BY <1>1, Flushing
<1>4. \A i \in 1..Len(a) : a[i].access # "Inherit" /\ a[i].dirty => \E n \in 1..Len(u) : u[n] = a[i]
  BY <1>1, Flushing
<1>5. job' = [job EXCEPT ![c].pc = "delete", ![c].deletable = d, ![c].updatable = u, ![c].final = f]
  BY DEF Flush
<1> HIDE DEF d, u, f
<1>6. /\ job'[c].pc = "delete" /\ job'[c].updatable = u /\ job'[c].deletable = d
      /\ job'[c].news = job[c].news /\ job'[c].touched = job[c].touched /\ job'[c].clone = job[c].clone
      /\ \A x \in Client \ {c} : job'[x] = job[x]
  BY <1>1, <1>5 DEF Job
<1>7. \A k \in Key \ foreign : k \notin KeysOf(a) => store[k] = Unset
  BY DEF Known
<1>8. ASSUME NEW k \in Key \ foreign, NEW v, Settled(a, k, v) PROVE Due(job'[c], store, k, v)
  <2> HIDE DEF a
  <2>1. \A n \in 1..Len(u) : u[n].key = k => u[n].access = v /\ v # "Inherit"
    BY <1>3, <1>8 DEF Settled
  <2>2. v # "Inherit" => \E n \in 1..Len(u) : u[n].key = k
    BY <1>4, <1>8 DEF Settled
  <2>3. v = "Inherit" => store[k] = Unset \/ \E n \in 1..Len(d) : d[n].key = k
    BY <1>2, <1>7, <1>8 DEF Settled
  <2> QED
    BY <1>6, <2>1, <2>2, <2>3 DEF Due, KeysOf
<1>9. Clean(job[c], heap, rulesAt, rules, store, foreign)
  BY DEF Cloned
<1>10. ASSUME NEW k \in Key \ (job[c].touched \cup foreign), job[c].clone
       PROVE  Carries(job'[c], rules, store, k)
  <2> DEFINE new == Brought(job[c])
             v == Wanted(Hits(new, k))
  <2>1. Brought(job'[c]) = new
    BY <1>6 DEF Brought
  <2>2. Carries(job[c], a, store, k)
    BY <1>1, <1>9, <1>10 DEF Clean
  <2>3. Decided(new, k) => Settled(a, k, v)
    BY <1>1, <2>2 DEF Carries
  <2> HIDE DEF new, v, a
  <2>4. Decided(new, k) => Due(job'[c], store, k, v)
    BY <1>8, <1>10, <2>3
  <2> QED
    BY <1>6, <2>1, <2>4 DEF Carries, v
<1>11. Clean(job'[c], heap', rulesAt', rules', store', foreign')
  BY <1>1, <1>6, <1>10 DEF Clean, rules
<1>12. ASSUME NEW x \in Client \ {c} PROVE Clean(job'[x], heap', rulesAt', rules', store', foreign')
  BY <1>1, <1>6, <1>12 DEF Cloned, rules
<1> QED
  BY <1>11, <1>12, StaysCloned

LEMMA DeleteCloned ==
  ASSUME Inv, Cloned, NEW c \in Client, DeleteRules(c)
  PROVE  Cloned'
<1> DEFINE j == job[c]
           d == j.deletable
<1>1. /\ job \in [Client -> Job] /\ j \in Job /\ j.pc = "delete" /\ UNCHANGED <<heap, rulesAt, foreign>>
      /\ store' = Deleted(store, d, Len(d)) /\ job' = [job EXCEPT ![c].pc = "upsert"]
  BY DEF DeleteRules, Inv, Types
<1>2. /\ job'[c].pc = "upsert" /\ job'[c].updatable = j.updatable /\ job'[c].news = j.news
      /\ job'[c].touched = j.touched /\ job'[c].clone = j.clone
      /\ \A x \in Client \ {c} : job'[x] = job[x]
  BY <1>1 DEF Job
<1>3. \A k \in Key : IF k \in KeysOf(d) THEN store'[k] = Unset ELSE store'[k] = store[k]
  BY <1>1 DEF Deleted, KeysOf
<1>4. ASSUME NEW k \in Key \ (j.touched \cup foreign), j.clone
      PROVE  Carries(job'[c], rules', store', k)
  <2> DEFINE new == Brought(j)
             v == Wanted(Hits(new, k))
  <2>1. Brought(job'[c]) = new
    BY <1>2 DEF Brought
  <2>2. Carries(j, rules, store, k)
    BY <1>1, <1>4 DEF Cloned, Clean
  <2>3. Decided(new, k) => Due(j, store, k, v)
    BY <1>1, <2>2 DEF Carries
  <2> HIDE DEF new, v
  <2>4. Due(j, store, k, v) => Due(job'[c], store', k, v)
    BY <1>1, <1>2, <1>3 DEF Due
  <2> QED
    BY <1>2, <2>1, <2>3, <2>4 DEF Carries, v
<1>5. Clean(job'[c], heap', rulesAt', rules', store', foreign')
  BY <1>1, <1>2, <1>4 DEF Clean
<1>6. ASSUME NEW x \in Client \ {c} PROVE Clean(job'[x], heap', rulesAt', rules', store', foreign')
  <2>1. SameJob(x) /\ job[x].pc \notin Busy
    BY <1>1, <1>2, Holder DEF SameJob, Busy
  <2> QED
    BY <1>1, <2>1, QuietClean
<1> QED
  BY <1>5, <1>6, StaysCloned

\* A call that is over has nothing to clone.
LEMMA OverClean == \A h, at, rs, st, wild : Clean(NoJob, h, at, rs, st, wild)
BY NoJobIs DEF Clean

LEMMA FailsCloned ==
  ASSUME Inv, Cloned, NEW c \in Client, DeleteFails(c) \/ UpsertFails(c)
  PROVE  Cloned'
<1>1. /\ job \in [Client -> Job] /\ job[c].pc \in Busy /\ UNCHANGED <<heap, rulesAt, foreign>>
      /\ job' = [job EXCEPT ![c] = NoJob]
  BY DEF DeleteFails, UpsertFails, Abort, Inv, Types, Busy
<1>2. job'[c] = NoJob /\ \A x \in Client \ {c} : job'[x] = job[x]
  BY <1>1
<1>3. ASSUME NEW x \in Client \ {c} PROVE Clean(job'[x], heap', rulesAt', rules', store', foreign')
  <2>1. SameJob(x) /\ job[x].pc \notin Busy
    BY <1>1, <1>2, Holder DEF SameJob
  <2> QED
    BY <1>1, <2>1, QuietClean
<1> QED
  BY <1>2, <1>3, OverClean, StaysCloned

\* The rules that a flush leaves are clean, and of keys there were rules of.
LEMMA UpsertCloned ==
  ASSUME Inv, Books, Known, Cloned, NEW c \in Client, UpsertRules(c)
  PROVE  Cloned'
<1> DEFINE f == job[c].final
<1>1. /\ job \in [Client -> Job] /\ job[c].pc = "upsert" /\ foreign' = foreign
      /\ job' = [job EXCEPT ![c] = NoJob]
  BY DEF UpsertRules, Inv, Types
<1>2. job'[c] = NoJob /\ \A x \in Client \ {c} : job'[x] = job[x]
  BY <1>1
<1>3. Steady /\ Leaves({}) /\ rules' = f /\ heap' \in Heap /\ \A x \in Client \ {c} : SameJob(x)
  BY UpsertRulesInv DEF Inv, Types, rules
<1>4. KeysOf(f) \subseteq KeysOf(rules)
  BY <1>1 DEF Known, Plans
<1>5. \A i \in 1..Len(f) : ~f[i].dirty
  BY <1>1 DEF Books, Flushed, Taken
<1>6. \A k : Spares(k)
  BY <1>3, <1>4, <1>5 DEF Spares, Leaves
<1>7. ASSUME NEW x \in Client \ {c} PROVE Clean(job'[x], heap', rulesAt', rules', store', foreign')
  <2>1. job[x].pc \notin Busy
    BY <1>1, Holder DEF Busy
  <2> QED
    BY <1>1, <1>3, <1>6, <2>1, OthersClean
<1> QED
  BY <1>2, <1>7, OverClean, StaysCloned

\* A reload reads clean rules, and of keys there were rules of already.
LEMMA ReloadCloned ==
  ASSUME Inv, Known, Cloned, Reload
  PROVE  Cloned'
<1> DEFINE s == Stored(store)
<1>1. /\ lock = NoClient /\ rules' = s /\ heap' \in Heap /\ Steady /\ Leaves({})
      /\ (\A x \in Client : SameJob(x))
      /\ \A x \in Client : job[x].pc # "idle" => foreign \subseteq job'[x].touched
  BY ReloadInv DEF Reload, rules, Inv, Types
<1>2. \A i \in 1..Len(s) : s[i].key \in Key /\ store[s[i].key] # Unset /\ ~s[i].dirty
  <2>1. \A k \in Key : store[k] \in Access \cup {Unset}
    BY DEF Inv, Types
  <2> QED
    BY <2>1, Storing
<1>3. \A x \in Client : job[x].pc \notin Busy
  BY <1>1, Nobody
<1>4. \A k \in Key \ foreign : Spares(k)
  <2> SUFFICES ASSUME NEW k \in Key \ foreign PROVE Spares(k)
    OBVIOUS
  <2> HIDE DEF s
  <2>1. k \in KeysOf(s) => k \in KeysOf(rules)
    <3>1. k \in KeysOf(s) => store[k] # Unset
      BY <1>2 DEF KeysOf
    <3> QED
      BY <3>1 DEF Known
  <2>2. \A i \in 1..Len(s) : ~s[i].dirty
    BY <1>2
  <2> QED
    BY <1>1, <2>1, <2>2 DEF Spares, Leaves
<1>5. ASSUME NEW x \in Client PROVE Clean(job'[x], heap', rulesAt', rules', store', foreign')
  <2>1. job[x].pc \in {"find", "write"} =>
           \A k \in Key \ (job'[x].touched \cup foreign') : k \notin foreign /\ Spares(k)
    BY <1>1, <1>4
  <2> QED
    BY <1>1, <1>3, <2>1, OthersClean
<1> QED
  BY <1>5, StaysCloned

\* A merge leaves alone the rules of other keys than it brings.
LEMMA MergeSpares ==
  ASSUME Inv, NEW c \in Client, NEW news \in Seq(Pointer), ValidAt(heap, news),
         NEW was \in Job, was.existing = <<>>, Merge(c, news, was),
         job[c].pc \notin Busy, calls' \in 0..MaxCalls
  PROVE  LET new == [n \in 1..Len(news) |-> Deref(heap, news[n])]
         IN  rules' = merge(rules, new) /\ \A k : k \notin KeysOf(new) => Spares(k)
<1> DEFINE new == [n \in 1..Len(news) |-> Deref(heap, news[n])]
           a == rules
           m == merge(a, new)
<1>1. /\ heap'[rulesAt] = m /\ Leaves(KeysOf(new)) /\ rulesAt' = rulesAt
  BY MergeInv DEF Merge
<1>2. rules' = m
  BY <1>1 DEF rules
<1>3. a \in Seq(Rule) /\ new \in Seq(Rule)
  BY MergeTypes, RulesAre DEF Inv
<1> HIDE DEF new, m, a
<1>4. /\ \A i \in 1..Len(a) : m[i].key = a[i].key /\ (a[i].key \notin KeysOf(new) => m[i] = a[i])
      /\ \A i \in 1..Len(m) : i \notin 1..Len(a) => m[i].key \in KeysOf(new)
  BY <1>3, Merging DEF m
<1>5. ASSUME NEW k, k \notin KeysOf(new) PROVE Spares(k)
  <2>1. \A i \in 1..Len(m) : m[i].key = k => i \in 1..Len(a) /\ a[i].key = k /\ m[i] = a[i]
    BY <1>4, <1>5
  <2>2. k \in KeysOf(m) => k \in KeysOf(a)
    BY <2>1 DEF KeysOf
  <2>3. \A g \in Generation : g \in InUse /\ g \in InUse' =>
           \A i \in 1..Len(heap[g]) :
              heap[g][i].key = k => heap'[g][i].access \in {heap[g][i].access, "Inherit"}
    BY <1>1, <1>5 DEF Leaves
  <2> QED
    BY <1>1, <1>2, <2>1, <2>2, <2>3 DEF Spares, a
<1> QED
  BY <1>2, <1>5 DEF new, m, a

LEMMA MergeOthers ==
  ASSUME Inv, Cloned, NEW c \in Client, NEW news \in Seq(Pointer), ValidAt(heap, news),
         NEW was \in Job, was.existing = <<>>, Merge(c, news, was),
         job[c].pc \notin Busy, calls' \in 0..MaxCalls
  PROVE  \A x \in Client \ {c} : Clean(job'[x], heap', rulesAt', rules', store', foreign')
<1> DEFINE new == [n \in 1..Len(news) |-> Deref(heap, news[n])]
<1>1. /\ Inv' /\ Steady /\ (\A x \in Client \ {c} : SameJob(x))
      /\ \A x \in Client \ {c} : job[x].pc # "idle" => KeysOf(new) \subseteq job'[x].touched
  BY MergeInv
<1>2. \A k : k \notin KeysOf(new) => Spares(k)
  BY MergeSpares
<1>3. lock = NoClient /\ foreign' = foreign
  BY DEF Merge
<1>4. (\A x \in Client : job[x].pc \notin Busy) /\ heap' \in Heap
  BY <1>1, <1>3, Nobody DEF Inv, Types
<1> HIDE DEF new
<1>5. ASSUME NEW x \in Client \ {c} PROVE Clean(job'[x], heap', rulesAt', rules', store', foreign')
  <2>1. job[x].pc \in {"find", "write"} =>
           \A k \in Key \ (job'[x].touched \cup foreign') : k \notin foreign /\ Spares(k)
    BY <1>1, <1>2, <1>3
  <2> QED
    BY <1>1, <1>4, <2>1, OthersClean
<1> QED
  BY <1>5

LEMMA GrantCloned ==
  ASSUME Inv, Cloned, NEW c \in Client, Grant(c)
  PROVE  Cloned'
<1>1. PICK rr \in Grants :
         Merge(c, [n \in 1..Len(rr) |-> Own([key |-> rr[n].key, access |-> rr[n].access, dirty |-> FALSE])], NoJob)
  BY DEF Grant
<1> DEFINE s == [n \in 1..Len(rr) |-> Own([key |-> rr[n].key, access |-> rr[n].access, dirty |-> FALSE])]
<1>2. s \in Seq(Pointer) /\ ValidAt(heap, s)
  BY Granted
<1>3. job[c].pc \notin Busy /\ calls' \in 0..MaxCalls
  <2>1. calls \in 0..MaxCalls /\ calls < MaxCalls /\ calls' = calls + 1 /\ job[c].pc = "idle"
    BY DEF Grant, Inv, Types
  <2> QED
    BY <2>1, MaxCallsAssumption DEF Busy
<1> HIDE DEF s
<1>4. Merge(c, s, NoJob)
  BY <1>1 DEF s
<1>5. job'[c].clone = FALSE
  <2>1. job'[c].clone = NoJob.clone
    BY <1>2, <1>3, <1>4, NoJobIs, MergeInv
  <2> QED
    BY <2>1 DEF NoJob
<1>6. Clean(job'[c], heap', rulesAt', rules', store', foreign')
  BY <1>5 DEF Clean
<1>7. \A x \in Client \ {c} : Clean(job'[x], heap', rulesAt', rules', store', foreign')
  BY <1>2, <1>3, <1>4, NoJobIs, MergeOthers
<1> QED
  BY <1>6, <1>7, StaysCloned

LEMMA CloneGrantCloned ==
  ASSUME Inv, Cloned, NEW c \in Client, CloneGrant(c)
  PROVE  Cloned'
<1> DEFINE s == job[c].news
           new == [n \in 1..Len(s) |-> Deref(heap, s[n])]
           a == rules
<1>1. /\ Types /\ job[c] \in Job /\ job[c].pc = "find" /\ Merge(c, s, job[c]) /\ calls' \in 0..MaxCalls
  BY DEF CloneGrant, Inv, Types
<1>2. job[c].existing = <<>> /\ ValidAt(heap, s) /\ s \in Seq(Pointer) /\ job[c].pc \notin Busy
  BY <1>1 DEF Inv, PointedAt, Job, Busy
<1>3. /\ rules' = merge(a, new) /\ foreign' = foreign
  BY <1>1, <1>2, MergeSpares DEF Merge
<1>4. /\ job'[c].pc = "flush" /\ job'[c].clone = job[c].clone /\ job'[c].touched = job[c].touched
      /\ job'[c].news = [n \in 1..Len(new) |-> Own(new[n])]
  BY <1>1, <1>2, MergeInv
<1>5. a \in Seq(Rule) /\ new \in Seq(Rule) /\ Len(new) = Len(s)
  BY <1>1, <1>2, MergeTypes, RulesAre
<1>6. Brought(job'[c]) = new
  <2> HIDE DEF new
  <2> DEFINE own == [n \in 1..Len(new) |-> Own(new[n])]
  <2>1. /\ own \in Seq(Pointer) /\ Len(own) = Len(new)
        /\ \A n \in 1..Len(own) : own[n].rule = new[n]
    BY <1>5, Owning
  <2>2. Brought(job'[c]) = [n \in 1..Len(own) |-> own[n].rule]
    BY <1>4 DEF Brought
  <2> HIDE DEF own
  <2>3. [n \in 1..Len(own) |-> own[n].rule] = [n \in 1..Len(new) |-> new[n]]
    BY <2>1
  <2> QED
    BY <1>5, <2>2, <2>3
<1>7. \A n \in 1..Len(s) : new[n] = Deref(heap, s[n])
  OBVIOUS
<1> HIDE DEF new, s, a
<1>8. ASSUME NEW k \in Key \ (job[c].touched \cup foreign), job[c].clone, Decided(new, k)
      PROVE  Settled(rules', k, Wanted(Hits(new, k)))
  <2>1. Covers(heap, s, k)
    BY <1>5, <1>7, <1>8 DEF Decided, Covers
  <2>2. Cleared(heap, s, a, k)
    BY <1>1, <1>8, <2>1 DEF Cloned, Clean, Collects, s, a
  <2>3. k \in KeysOf(a) => \E n \in 1..Len(new) : new[n].key = k /\ new[n].access = "Inherit"
    BY <1>5, <1>7, <2>2 DEF Cleared
  <2>4. \A i \in 1..Len(a) : a[i].key = k => ~a[i].dirty \/ a[i].access = "Inherit"
    BY <2>2 DEF Cleared
  <2>5. Settled(merge(a, new), k, Wanted(Hits(new, k)))
    BY <1>5, <1>8, <2>3, <2>4, Applied
  <2> QED
    BY <1>3, <2>5
<1>9. \A k \in Key \ (job[c].touched \cup foreign) : job[c].clone => Carries(job'[c], rules', store', k)
  BY <1>4, <1>6, <1>8 DEF Carries
<1>10. Clean(job'[c], heap', rulesAt', rules', store', foreign')
  BY <1>3, <1>4, <1>9 DEF Clean
<1>11. \A x \in Client \ {c} : Clean(job'[x], heap', rulesAt', rules', store', foreign')
  BY <1>1, <1>2, MergeOthers DEF s
<1> QED
  BY <1>10, <1>11, StaysCloned

LEMMA CloneCloned ==
  ASSUME Inv, Cloned, NEW c \in Client, Clone(c)
  PROVE  Cloned'
<1>1. PICK a \in Clones :
          job' = [job EXCEPT ![c] = [NoJob EXCEPT !.pc = "find", !.from = ruleByRole(a.from),
                                                  !.to = a.to, !.clone = TRUE]]
  BY DEF Clone
<1> DEFINE p == ruleByRole(a.from)
           j == [NoJob EXCEPT !.pc = "find", !.from = p, !.to = a.to, !.clone = TRUE]
<1>2. /\ job \in [Client -> Job] /\ UNCHANGED <<heap, rulesAt, store, foreign>>
  BY DEF Inv, Types, Clone
<1> HIDE DEF p
<1>3. j.pc = "find" /\ j.news = <<>>
  BY DEF NoJob
<1>4. job' = [job EXCEPT ![c] = j]
  BY <1>1 DEF p
<1> HIDE DEF j
<1>5. job'[c] = j /\ \A x \in Client \ {c} : job'[x] = job[x]
  BY <1>2, <1>4
<1>6. Clean(job'[c], heap', rulesAt', rules', store', foreign')
  <2>1. \A k : ~Covers(heap', j.news, k)
    BY <1>3 DEF Covers
  <2> QED
    BY <1>3, <1>5, <2>1 DEF Clean, Collects
<1>7. ASSUME NEW x \in Client \ {c} PROVE Clean(job'[x], heap', rulesAt', rules', store', foreign')
  <2>1. SameJob(x)
    BY <1>2, <1>5 DEF SameJob
  <2> QED
    BY <1>2, <2>1, QuietClean
<1> QED
  BY <1>6, <1>7, StaysCloned

\* There is a pointer to each rule of the role.
LEMMA RulesOfRole ==
  ASSUME Types, NEW r, NEW i \in 1..Len(rules), rules[i].key.role = r
  PROVE  \E n \in 1..Len(ruleByRole(r)) : ruleByRole(r)[n].at = <<rulesAt, i>>
<1> DEFINE all == [o \in 1..Len(rules) |-> Shared(rulesAt, o)]
           I == {o \in 1..Len(rules) : rules[o].key.role = r}
           p == ruleByRole(r)
<1>1. rules \in Seq(Rule) /\ Len(rules) \in Nat /\ rulesAt \in Generation
  BY RulesAre DEF Types
<1>2. \A o \in 1..Len(rules) : all[o] \in Pointer
  BY <1>1 DEF Pointer
<1>3. all \in Seq(Pointer) /\ Len(all) = Len(rules) /\ all[i] = Shared(rulesAt, i)
  <2>1. all = [o \in 1..Len(rules) |-> all[o]]
    OBVIOUS
  <2>2. all[i] = Shared(rulesAt, i)
    OBVIOUS
  <2> HIDE DEF all
  <2>3. all \in [1..Len(rules) -> Pointer]
    BY <1>2, <2>1
  <2> QED
    BY <1>1, <2>2, <2>3
<1> HIDE DEF all
<1>4. I \in SUBSET (1..Len(all)) /\ i \in I
  BY <1>3
<1>5. p = Picked(all, I)
  BY DEF ruleByRole, all
<1> HIDE DEF I, p
<1>6. PICK n \in 1..Len(p) : p[n] = all[i]
  BY <1>3, <1>4, <1>5, Picking
<1>7. p[n].at = <<rulesAt, i>>
  BY <1>3, <1>6 DEF Shared
<1> QED
  BY <1>7 DEF p

LEMMA CloneFindCloned ==
  ASSUME Inv, Cloned, NEW c \in Client, CloneFind(c)
  PROVE  Cloned'
<1> DEFINE j == job[c]
           t == Head(j.to)
           ex == ruleByRole(t)
           a == rules
<1>1. /\ Types /\ job \in [Client -> Job] /\ j \in Job /\ j.pc = "find"
      /\ UNCHANGED <<heap, rulesAt, store, foreign>> /\ rules' = a
  BY DEF CloneFind, Inv, Types, rules
<1>2. \A i \in 1..Len(a) : a[i].key.role = t => \E n \in 1..Len(ex) : ex[n].at = <<rulesAt, i>>
  BY <1>1, RulesOfRole
<1>3. job' = [job EXCEPT ![c].pc = "write", ![c].existing = ex]
  BY DEF CloneFind
<1> HIDE DEF ex
<1>4. /\ job'[c].pc = "write" /\ job'[c].news = j.news /\ job'[c].to = j.to /\ job'[c].existing = ex
      /\ job'[c].touched = j.touched /\ job'[c].clone = j.clone
      /\ \A x \in Client \ {c} : job'[x] = job[x]
  BY <1>1, <1>3 DEF Job
<1>5. ASSUME NEW k, k.role = t PROVE Caught(heap, ex, rulesAt, a, k)
  <2>1. \A i \in 1..Len(a) : a[i].key = k => \E n \in 1..Len(ex) : ex[n].at = <<rulesAt, i>>
    BY <1>2, <1>5
  <2>2. ASSUME k \in KeysOf(a) PROVE \E n \in 1..Len(ex) : Deref(heap, ex[n]).key = k
    <3>1. PICK i \in 1..Len(a) : a[i].key = k
      BY <2>2 DEF KeysOf
    <3>2. PICK n \in 1..Len(ex) : ex[n].at = <<rulesAt, i>>
      BY <2>1, <3>1
    <3>3. Deref(heap, ex[n]) = a[i]
      BY <3>2 DEF Deref, rules
    <3> QED
      BY <3>1, <3>3
  <2> QED
    BY <2>1, <2>2 DEF Caught
<1>6. \A k \in Key \ (j.touched \cup foreign) : j.clone => Collects(heap, j, rulesAt, a, k)
  BY <1>1 DEF Cloned, Clean
<1> HIDE DEF a
<1>7. \A k \in Key \ (j.touched \cup foreign) : j.clone => Collects(heap, job'[c], rulesAt, a, k)
  BY <1>4, <1>5, <1>6 DEF Collects
<1>8. Clean(job'[c], heap', rulesAt', rules', store', foreign')
  BY <1>1, <1>4, <1>7 DEF Clean
<1>9. ASSUME NEW x \in Client \ {c} PROVE Clean(job'[x], heap', rulesAt', rules', store', foreign')
  <2>1. SameJob(x)
    BY <1>1, <1>4 DEF SameJob
  <2> QED
    BY <1>1, <2>1, QuietClean
<1> QED
  BY <1>8, <1>9, StaysCloned

\* A pointer after the rules of a target were set to inherit.
LEMMA InheritedPointers ==
  ASSUME Types, NEW ex, NEW e \in Pointer, Valid(heap, e)
  PROVE  LET h == Inherited(ex)
         IN  /\ Deref(h, e).key = Deref(heap, e).key
             /\ Deref(h, e).access \in {Deref(heap, e).access, "Inherit"}
             /\ e.at # <<>> /\ (\E n \in 1..Len(ex) : ex[n] = e) => Deref(h, e).access = "Inherit"
<1> DEFINE h == Inherited(ex)
<1>1. CASE e.at = <<>>
  BY <1>1 DEF Deref
<1>2. CASE e.at # <<>>
  <2>1. PICK g \in Generation, i \in Nat : e = Shared(g, i)
    BY <1>2 DEF Pointer, Own
  <2>2. e.at = <<g, i>> /\ e.at[1] = g /\ e.at[2] = i
    BY <2>1 DEF Shared
  <2>3. i \in 1..Len(heap[g])
    BY <1>2, <2>2 DEF Valid
  <2>4. /\ h[g][i].key = heap[g][i].key
        /\ IF \E n \in 1..Len(ex) : ex[n].at = <<g, i>>
           THEN h[g][i].access = "Inherit" ELSE h[g][i] = heap[g][i]
    BY <2>3, Inheriting
  <2>5. Deref(h, e) = h[g][i] /\ Deref(heap, e) = heap[g][i]
    BY <1>2, <2>2 DEF Deref
  <2> HIDE DEF h
  <2>6. (\E n \in 1..Len(ex) : ex[n] = e) => \E n \in 1..Len(ex) : ex[n].at = <<g, i>>
    BY <2>2
  <2> QED
    BY <2>4, <2>5, <2>6 DEF h
<1> QED
  BY <1>1, <1>2

\* What a clone has collected after it has dealt with a target.
LEMMA CloneWriteJob ==
  ASSUME Inv, NEW c \in Client, CloneWrite(c)
  PROVE  /\ job'[c].pc = "find" /\ job'[c].clone = job[c].clone /\ job'[c].touched = job[c].touched
         /\ \E copy \in Seq(Pointer) :
               /\ job'[c].news = (job[c].news \o job[c].existing) \o copy
               /\ \A n \in 1..Len(copy) : copy[n].at = <<>> /\ copy[n].rule.key.role = Head(job[c].to)
<1> DEFINE ex   == job[c].existing
           t    == Head(job[c].to)
           h    == Inherited(ex)
           r(n) == Deref(h, job[c].from[n])
           copy == [n \in 1..Len(job[c].from) |-> Own([r(n) EXCEPT !.key.role = t])]
           ks   == {k \in Key : k.role = t}
           tc   == Touch(c, ks)
           nn   == (job[c].news \o ex) \o copy
           mine == [tc[c] EXCEPT !.pc = "find", !.to = Tail(@), !.existing = <<>>, !.news = nn]
<1>1. /\ Types /\ job[c] \in Job /\ job[c].pc = "write" /\ PointedAt(heap, job[c])
      /\ job[c].to # <<>> /\ job[c].to \in Seq(Role)
      /\ ex \in Seq(Pointer) /\ job[c].from \in Seq(Pointer) /\ job[c].news \in Seq(Pointer)
  <2>1. /\ Types /\ job[c] \in Job /\ job[c].pc = "write" /\ PointedAt(heap, job[c])
    BY DEF CloneWrite, Inv, Types
  <2> QED
    BY <2>1 DEF PointedAt, Job
<1>2. t \in Role
  BY <1>1, HeadTailProperties
<1>3. job' = [tc EXCEPT ![c] = [tc[c] EXCEPT !.pc = "find", !.to = Tail(@), !.existing = <<>>,
                                             !.news = tc[c].news \o ex \o copy]]
  BY DEF CloneWrite, Inherited
<1>4. tc \in [Client -> Job] /\ tc[c] = job[c]
  BY <1>1, Touching
<1>5. h \in Heap /\ \A g \in Generation : Extends(heap[g], h[g])
  BY <1>1, Inheriting
<1>6. ValidAt(h, job[c].from)
  <2> HIDE DEF h
  <2> QED
    BY <1>1, <1>5, StillValid DEF PointedAt, Types
<1>7. ASSUME NEW n \in 1..Len(job[c].from)
      PROVE  [r(n) EXCEPT !.key.role = t] \in Rule /\ [r(n) EXCEPT !.key.role = t].key.role = t
  <2>1. job[c].from[n] \in Pointer /\ Valid(h, job[c].from[n])
    BY <1>1, <1>6 DEF ValidAt
  <2>2. r(n) \in Rule
    BY <1>5, <2>1, Dereferenced
  <2> HIDE DEF r, t
  <2> QED
    BY <1>2, <2>2 DEF Rule, Key
<1> DEFINE rs == [n \in 1..Len(job[c].from) |-> [r(n) EXCEPT !.key.role = t]]
<1>8. rs \in Seq(Rule) /\ Len(rs) = Len(job[c].from)
  <2> HIDE DEF r
  <2>1. rs \in [1..Len(job[c].from) -> Rule]
    BY <1>7
  <2>2. Len(job[c].from) \in Nat
    BY <1>1
  <2> HIDE DEF rs
  <2> QED
    BY <2>1, <2>2
<1>9. copy = [n \in 1..Len(rs) |-> Own(rs[n])] /\ \A n \in 1..Len(rs) : rs[n].key.role = t
  <2> HIDE DEF r
  <2> QED
    BY <1>7, <1>8
<1> HIDE DEF rs, copy, tc, ex, t
<1>10. /\ copy \in Seq(Pointer) /\ \A n \in 1..Len(copy) : copy[n].at = <<>> /\ copy[n].rule.key.role = t
  <2> DEFINE own == [n \in 1..Len(rs) |-> Own(rs[n])]
  <2>1. /\ own \in Seq(Pointer) /\ Len(own) = Len(rs)
        /\ \A n \in 1..Len(own) : own[n].at = <<>> /\ own[n].rule = rs[n]
    BY <1>8, Owning
  <2>2. copy = own
    BY <1>9
  <2> HIDE DEF own
  <2> QED
    BY <1>9, <2>1, <2>2
<1>11. job'[c] = [job[c] EXCEPT !.pc = "find", !.to = Tail(job[c].to), !.existing = <<>>, !.news = nn]
  BY <1>3, <1>4
<1> HIDE DEF nn
<1>12. /\ job'[c].pc = "find" /\ job'[c].clone = job[c].clone /\ job'[c].touched = job[c].touched
       /\ job'[c].news = nn
  BY <1>1, <1>11 DEF Job
<1> QED
  BY <1>10, <1>12 DEF nn, ex, t

\* The target's rules inherit now, and all of them are among what is collected.
LEMMA CloneWriteCloned ==
  ASSUME Inv, Cloned, NEW c \in Client, CloneWrite(c)
  PROVE  Cloned'
<1> DEFINE j == job[c]
           ex == j.existing
           t == Head(j.to)
           s == j.news
           s2 == job'[c].news
           a == rules
           b == rules'
<1>1. /\ Types /\ j \in Job /\ j.pc = "write" /\ UNCHANGED <<rulesAt, store, foreign>>
      /\ ValidAt(heap, s) /\ ValidAt(heap, ex) /\ s \in Seq(Pointer) /\ ex \in Seq(Pointer)
      /\ \A n \in 1..Len(ex) : ex[n].at # <<>> /\ Deref(heap, ex[n]).key.role = t
  <2>1. Types /\ j \in Job /\ j.pc = "write" /\ PointedAt(heap, j) /\ UNCHANGED <<rulesAt, store, foreign>>
    BY DEF CloneWrite, Inv, Types
  <2> QED
    BY <2>1 DEF PointedAt, Job, Deref
<1>2. /\ heap' = Inherited(ex) /\ heap' \in Heap /\ Steady /\ (\A x \in Client \ {c} : SameJob(x))
      /\ \A x \in Client \ {c} : job[x].pc # "idle" => {k \in Key : k.role = t} \subseteq job'[x].touched
  BY CloneWriteInv DEF Inv, Types
<1>3. job'[c].pc = "find" /\ job'[c].clone = j.clone /\ job'[c].touched = j.touched
  BY CloneWriteJob
<1>4. PICK copy \in Seq(Pointer) :
         /\ s2 = (s \o ex) \o copy
         /\ \A n \in 1..Len(copy) : copy[n].at = <<>> /\ copy[n].rule.key.role = t
  BY CloneWriteJob
<1>5. /\ Fades(a, b) /\ KeysOf(b) = KeysOf(a)
      /\ \A i \in 1..Len(a) : a[i].key.role # t => b[i] = a[i]
  BY CloneWrites, FadedKeys
<1>6. \A i \in 1..Len(a) : (\E n \in 1..Len(ex) : ex[n].at = <<rulesAt, i>>) => b[i].access = "Inherit"
  <2>1. rulesAt \in Generation
    BY <1>1 DEF Types
  <2>2. ASSUME NEW i \in 1..Len(heap[rulesAt]), \E n \in 1..Len(ex) : ex[n].at = <<rulesAt, i>>
        PROVE  Inherited(ex)[rulesAt][i].access = "Inherit"
    <3> DEFINE h == Inherited(ex)
    <3>1. IF \E n \in 1..Len(ex) : ex[n].at = <<rulesAt, i>>
          THEN h[rulesAt][i].access = "Inherit" ELSE h[rulesAt][i] = heap[rulesAt][i]
      BY <1>1, <2>1, Inheriting
    <3> HIDE DEF h
    <3> QED
      BY <2>2, <3>1 DEF h
  <2> QED
    BY <1>1, <1>2, <2>2 DEF rules
<1>7. ASSUME NEW e \in Pointer, Valid(heap, e)
      PROVE  /\ Deref(heap', e).key = Deref(heap, e).key
             /\ Deref(heap', e).access \in {Deref(heap, e).access, "Inherit"}
             /\ e.at # <<>> /\ (\E n \in 1..Len(ex) : ex[n] = e) => Deref(heap', e).access = "Inherit"
  <2> DEFINE h == Inherited(ex)
  <2>1. /\ Deref(h, e).key = Deref(heap, e).key
        /\ Deref(h, e).access \in {Deref(heap, e).access, "Inherit"}
        /\ e.at # <<>> /\ (\E n \in 1..Len(ex) : ex[n] = e) => Deref(h, e).access = "Inherit"
    BY <1>1, <1>7, InheritedPointers
  <2>2. heap' = h
    BY <1>2
  <2> HIDE DEF h
  <2> QED
    BY <2>1, <2>2
<1> HIDE DEF s, ex, s2, a, b, t
<1>8. \A n \in 1..Len(s) :
         /\ Deref(heap', s[n]).key = Deref(heap, s[n]).key
         /\ Deref(heap', s[n]).access \in {Deref(heap, s[n]).access, "Inherit"}
  <2>1. \A n \in 1..Len(s) : s[n] \in Pointer /\ Valid(heap, s[n])
    BY <1>1 DEF ValidAt
  <2> QED
    BY <1>7, <2>1
<1>9. \A n \in 1..Len(ex) :
         /\ Deref(heap', ex[n]).key = Deref(heap, ex[n]).key /\ Deref(heap', ex[n]).access = "Inherit"
  <2>1. \A n \in 1..Len(ex) : ex[n] \in Pointer /\ Valid(heap, ex[n])
    BY <1>1 DEF ValidAt
  <2> QED
    BY <1>1, <1>7, <2>1
<1>10. /\ \A n \in 1..Len(s2) : \/ \E l \in 1..Len(s) : s2[n] = s[l]
                                \/ \E l \in 1..Len(ex) : s2[n] = ex[l]
                                \/ s2[n].at = <<>> /\ s2[n].rule.key.role = t
       /\ \A l \in 1..Len(s) : \E n \in 1..Len(s2) : s2[n] = s[l]
       /\ \A l \in 1..Len(ex) : \E n \in 1..Len(s2) : s2[n] = ex[l]
  <2> DEFINE p == s \o ex
  <2>1. /\ p \in Seq(Pointer) /\ Len(p) = Len(s) + Len(ex)
        /\ \A l \in 1..Len(s) : p[l] = s[l]
        /\ \A l \in 1..Len(ex) : p[Len(s) + l] = ex[l] /\ Len(s) + l \in 1..Len(p)
        /\ \A n \in 1..Len(p) : n \notin 1..Len(s) => n - Len(s) \in 1..Len(ex) /\ p[n] = ex[n - Len(s)]
    BY <1>1, Joined
  <2>2. Len(s) \in Nat /\ Len(ex) \in Nat
    BY <1>1
  <2> HIDE DEF p
  <2>3. /\ \A n \in 1..Len(p) : (\E l \in 1..Len(s) : p[n] = s[l]) \/ (\E l \in 1..Len(ex) : p[n] = ex[l])
        /\ \A l \in 1..Len(s) : \E n \in 1..Len(p) : p[n] = s[l]
        /\ \A l \in 1..Len(ex) : \E n \in 1..Len(p) : p[n] = ex[l]
    <3>1. \A l \in 1..Len(s) : l \in 1..Len(p)
      BY <2>1, <2>2
    <3> QED
      BY <2>1, <3>1
  <2>4. s2 = p \o copy
    BY <1>4 DEF p
  <2>5. /\ Len(p) \in Nat /\ Len(copy) \in Nat /\ Len(s2) = Len(p) + Len(copy)
        /\ \A l \in 1..Len(p) : s2[l] = p[l]
        /\ \A n \in 1..Len(s2) : n \notin 1..Len(p) =>
              n - Len(p) \in 1..Len(copy) /\ s2[n] = copy[n - Len(p)]
    <3>1. Len(p \o copy) = Len(p) + Len(copy)
      BY <2>1, Joined
    <3>3. \A l \in 1..Len(p) : (p \o copy)[l] = p[l]
      BY <2>1, Joined
    <3>4. \A n \in 1..Len(p \o copy) : n \notin 1..Len(p) =>
             n - Len(p) \in 1..Len(copy) /\ (p \o copy)[n] = copy[n - Len(p)]
      BY <2>1, Joined
    <3>2. Len(p) \in Nat /\ Len(copy) \in Nat
      BY <2>1
    <3> QED
      BY <2>4, <3>1, <3>2, <3>3, <3>4
  <2>6. ASSUME NEW n \in 1..Len(s2)
        PROVE  \/ \E l \in 1..Len(s) : s2[n] = s[l]
               \/ \E l \in 1..Len(ex) : s2[n] = ex[l]
               \/ s2[n].at = <<>> /\ s2[n].rule.key.role = t
    <3>1. CASE n \in 1..Len(p)
      <4>1. s2[n] = p[n]
        BY <2>5, <3>1
      <4>2. (\E l \in 1..Len(s) : p[n] = s[l]) \/ (\E l \in 1..Len(ex) : p[n] = ex[l])
        BY <2>3, <3>1
      <4> QED
        BY <4>1, <4>2
    <3>2. CASE n \notin 1..Len(p)
      <4>1. n - Len(p) \in 1..Len(copy) /\ s2[n] = copy[n - Len(p)]
        BY <2>5, <3>2
      <4> QED
        BY <1>4, <4>1
    <3> QED
      BY <3>1, <3>2
  <2>7. \A n \in 1..Len(p) : n \in 1..Len(s2)
    BY <2>5
  <2> QED
    BY <2>3, <2>5, <2>6, <2>7
<1>11. ASSUME NEW k, Covers(heap', s2, k), Collects(heap, j, rulesAt, a, k)
       PROVE  Cleared(heap', s2, b, k)
  <2>1. CASE k.role = t
    <3>1. Caught(heap, ex, rulesAt, a, k)
      BY <1>1, <1>11, <2>1 DEF Collects, ex, t
    <3>2. Covers(heap, s, k) => Cleared(heap, s, a, k)
      BY <1>11 DEF Collects, s
    <3>3. \A n \in 1..Len(s) : s[n].at # <<>> /\ Deref(heap, s[n]).key = k => Deref(heap, s[n]).access = "Inherit"
      BY <3>2 DEF Covers, Cleared
    <3>4. ASSUME NEW n \in 1..Len(s2), s2[n].at # <<>>, Deref(heap', s2[n]).key = k
          PROVE  Deref(heap', s2[n]).access = "Inherit"
      <4>1. CASE \E l \in 1..Len(s) : s2[n] = s[l]
        BY <1>8, <3>3, <3>4, <4>1
      <4>2. CASE \E l \in 1..Len(ex) : s2[n] = ex[l]
        BY <1>9, <4>2
      <4> QED
        BY <1>10, <3>4, <4>1, <4>2
    <3>5. ASSUME k \in KeysOf(b) PROVE \E n \in 1..Len(s2) : s2[n].at # <<>> /\ Deref(heap', s2[n]).key = k
      <4>1. PICK l \in 1..Len(ex) : Deref(heap, ex[l]).key = k
        BY <1>5, <3>1, <3>5 DEF Caught
      <4>2. PICK n \in 1..Len(s2) : s2[n] = ex[l]
        BY <1>10
      <4> QED
        BY <1>1, <1>9, <4>1, <4>2
    <3>6. ASSUME NEW i \in 1..Len(b), b[i].key = k PROVE ~b[i].dirty \/ b[i].access = "Inherit"
      <4>1. /\ i \in 1..Len(a) /\ a[i].key = k /\ b[i].dirty = a[i].dirty
            /\ b[i].access \in {a[i].access, "Inherit"}
        BY <1>5, <3>6 DEF Fades
      <4>2. ~a[i].dirty \/ a[i].access = "Inherit" \/ \E n \in 1..Len(ex) : ex[n].at = <<rulesAt, i>>
        BY <3>1, <4>1 DEF Caught
      <4> QED
        BY <1>6, <4>1, <4>2
    <3> QED
      BY <3>4, <3>5, <3>6 DEF Cleared
  <2>2. CASE k.role # t
    <3>1. \A n \in 1..Len(s2) : Deref(heap', s2[n]).key.role = k.role => \E l \in 1..Len(s) : s2[n] = s[l]
      <4> SUFFICES ASSUME NEW n \in 1..Len(s2), Deref(heap', s2[n]).key.role = k.role
                   PROVE  \E l \in 1..Len(s) : s2[n] = s[l]
        OBVIOUS
      <4>1. ~ \E l \in 1..Len(ex) : s2[n] = ex[l]
        BY <1>1, <1>9, <2>2
      <4>2. ~(s2[n].at = <<>> /\ s2[n].rule.key.role = t)
        BY <2>2 DEF Deref
      <4> QED
        BY <1>10, <4>1, <4>2
    <3>2. Covers(heap, s, k)
      BY <1>8, <1>11, <3>1 DEF Covers
    <3>3. Cleared(heap, s, a, k)
      BY <1>11, <3>2 DEF Collects, s
    <3>4. ASSUME NEW n \in 1..Len(s2), s2[n].at # <<>>, Deref(heap', s2[n]).key = k
          PROVE  Deref(heap', s2[n]).access = "Inherit"
      <4>1. PICK l \in 1..Len(s) : s2[n] = s[l]
        BY <3>1, <3>4
      <4> QED
        BY <1>8, <3>3, <3>4, <4>1 DEF Cleared
    <3>5. ASSUME k \in KeysOf(b) PROVE \E n \in 1..Len(s2) : s2[n].at # <<>> /\ Deref(heap', s2[n]).key = k
      <4>1. PICK l \in 1..Len(s) : s[l].at # <<>> /\ Deref(heap, s[l]).key = k
        BY <1>5, <3>3, <3>5 DEF Cleared
      <4>2. PICK n \in 1..Len(s2) : s2[n] = s[l]
        BY <1>10
      <4> QED
        BY <1>8, <4>1, <4>2
    <3>6. ASSUME NEW i \in 1..Len(b), b[i].key = k PROVE ~b[i].dirty \/ b[i].access = "Inherit"
      <4>1. i \in 1..Len(a) /\ a[i].key = k /\ b[i] = a[i]
        BY <1>5, <2>2, <3>6 DEF Fades
      <4> QED
        BY <3>3, <4>1 DEF Cleared
    <3> QED
      BY <3>4, <3>5, <3>6 DEF Cleared
  <2> QED
    BY <2>1, <2>2
<1>12. ASSUME NEW k \in Key \ (j.touched \cup foreign), j.clone
       PROVE  Collects(heap', job'[c], rulesAt', b, k)
  <2>1. Collects(heap, j, rulesAt, a, k)
    BY <1>1, <1>12 DEF Cloned, Clean, a
  <2> QED
    BY <1>3, <1>11, <2>1 DEF Collects, s2
<1>13. Clean(job'[c], heap', rulesAt', rules', store', foreign')
  BY <1>1, <1>3, <1>12 DEF Clean, b
<1>14. \A k : k.role # t => Spares(k)
  <2> SUFFICES ASSUME NEW k, k.role # t PROVE Spares(k)
    OBVIOUS
  <2>1. ASSUME NEW g \in Generation, NEW i \in 1..Len(heap[g])
        PROVE  heap'[g][i].access \in {heap[g][i].access, "Inherit"}
    <3> DEFINE h == Inherited(ex)
    <3>1. IF \E n \in 1..Len(ex) : ex[n].at = <<g, i>>
          THEN h[g][i].access = "Inherit" ELSE h[g][i] = heap[g][i]
      BY <1>1, Inheriting
    <3> HIDE DEF h
    <3> QED
      BY <1>2, <3>1 DEF h
  <2>2. \A i \in 1..Len(b) : b[i].key = k => i \in 1..Len(a) /\ a[i].key = k /\ b[i] = a[i]
    BY <1>5 DEF Fades
  <2> QED
    BY <1>1, <1>5, <2>1, <2>2 DEF Spares, a, b
<1>15. ASSUME NEW x \in Client \ {c} PROVE Clean(job'[x], heap', rulesAt', rules', store', foreign')
  <2>1. \A k \in Key \ (job'[x].touched \cup foreign') :
           job[x].pc # "idle" => k \notin foreign /\ k.role # t
    BY <1>1, <1>2
  <2>2. job[x].pc \in {"find", "write"} =>
           \A k \in Key \ (job'[x].touched \cup foreign') : k \notin foreign /\ Spares(k)
    BY <1>14, <2>1
  <2>3. \A k : k.role # t => \A i \in 1..Len(rules) : rules[i].key = k => rules'[i] = rules[i]
    BY <1>5 DEF a, b
  <2>4. Fades(rules, rules')
    BY <1>5 DEF a, b
  <2>5. job[x].pc \in Busy =>
           \A k \in Key \ (job'[x].touched \cup foreign') :
              /\ store'[k] = store[k] /\ Fades(rules, rules')
              /\ \A i \in 1..Len(rules) : rules[i].key = k => rules'[i] = rules[i]
    BY <1>1, <2>1, <2>3, <2>4 DEF Busy
  <2> QED
    BY <1>1, <1>2, <2>2, <2>5, OthersClean
<1> QED
  BY <1>13, <1>15, StaysCloned

LEMMA OtherwiseCloned ==
  ASSUME Inv, Cloned, Import \/ UpdateRoles \/ UNCHANGED vars
  PROVE  Cloned'
<1>1. UNCHANGED <<heap, rulesAt>> /\ foreign \subseteq foreign' /\ \A x \in Client : SameJob(x)
  <2>1. CASE Import
    BY <2>1, ImportInv DEF Import
  <2>2. CASE UpdateRoles \/ UNCHANGED vars
    BY <2>2 DEF UpdateRoles, vars, SameJob, Inv, Types
  <2> QED
    BY <2>1, <2>2
<1>2. \A k \in Key \ foreign' : store'[k] = store[k]
  <2>1. CASE Import
    <3>1. PICK i \in Imports : store' = [store EXCEPT ![i.key] = i.access] /\ foreign' = foreign \cup {i.key}
      BY <2>1 DEF Import
    <3> QED
      BY <3>1 DEF Inv, Types
  <2>2. CASE UpdateRoles \/ UNCHANGED vars
    BY <2>2 DEF UpdateRoles, vars
  <2> QED
    BY <2>1, <2>2
<1>3. \A x \in Client : Clean(job'[x], heap', rulesAt', rules', store', foreign')
  BY <1>1, <1>2, QuietClean
<1> QED
  BY <1>3, StaysCloned

LEMMA InitCloned == Init => Cloned
<1> SUFFICES ASSUME Init PROVE Cloned
  OBVIOUS
<1>1. \A c \in Client : job[c] = NoJob
  BY DEF Init
<1> QED
  BY <1>1, OverClean DEF Cloned

LEMMA NextCloned ==
  ASSUME Inv, Books, Known, Cloned, [Next]_vars
  PROVE  Cloned'
<1>1. ASSUME NEW c \in Client, ClientStep(c) PROVE Cloned'
  BY <1>1, FlushCloned, DeleteCloned, FailsCloned, UpsertCloned, CloneFindCloned, CloneWriteCloned,
     CloneGrantCloned DEF ClientStep
<1> QED
  BY <1>1, GrantCloned, CloneCloned, ReloadCloned, OtherwiseCloned DEF Next

\* What a clone writes makes the key what the clone brought.
LEMMA CloneWritten ==
  ASSUME Inv, Cloned, NEW c \in Client, job[c].clone, UpsertRules(c),
         NEW k \in Key \ (job[c].touched \cup foreign), Decided(Brought(job[c]), k)
  PROVE  StoredAccess(store', k) = Wanted(Hits(Brought(job[c]), k))
<1> DEFINE u == job[c].updatable
           v == Wanted(Hits(Brought(job[c]), k))
<1>1. /\ job[c].pc = "upsert" /\ u \in Seq(Rule) /\ store' = Upserted(store, u, Len(u))
  BY DEF UpsertRules, Inv, Types, Job
<1>2. Due(job[c], store, k, v)
  BY <1>1 DEF Cloned, Clean, Carries
<1> HIDE DEF v
<1>3. /\ \A n \in 1..Len(u) : u[n].key = k => u[n].access = v /\ v # "Inherit"
      /\ v # "Inherit" => \E n \in 1..Len(u) : u[n].key = k
      /\ v = "Inherit" => store[k] = Unset
  BY <1>1, <1>2 DEF Due, KeysOf
<1>4. \A n \in 1..Len(u) : u[n].access # Unset
  <2>1. \A n \in 1..Len(u) : u[n] \in Rule
    BY <1>1
  <2> QED
    BY <2>1 DEF Rule, Access, Unset
<1> HIDE DEF u
<1>5. Len(u) \in 0..Len(u)
  BY <1>1
<1>6. \/ store'[k] = store[k] /\ \A n \in 1..Len(u) : u[n].key # k
      \/ \E n \in 1..Len(u) : u[n].key = k /\ store'[k] = u[n].access
  BY <1>1, <1>5, Upserting
<1>7. StoredAccess(store', k) = v
  BY <1>3, <1>4, <1>6 DEF StoredAccess
<1> QED
  BY <1>7 DEF v

\* CloneRulesByRoleID (service.go:284): whatever others do meanwhile to other rules,
\* and however often the rules are reloaded, a clone that succeeds leaves the
\* table with the rules it has copied for its targets, and with no other.
THEOREM ClonesAreExact == Spec => CloneExact
<1>1. Init => Inv /\ Books /\ Known /\ Cloned
  BY InitInv, InitBooks, InitKnown, InitCloned
<1>2. Inv /\ Books /\ Known /\ Cloned /\ [Next]_vars => (Inv /\ Books /\ Known /\ Cloned)'
  BY NextInv, NextBooks, NextKnown, NextCloned
<1>3. ASSUME Inv, Cloned, NEW c \in Client, job[c].clone, UpsertRules(c),
             NEW k \in Key \ (job[c].touched \cup foreign)
      PROVE  LET news == [n \in 1..Len(job[c].news) |-> job[c].news[n].rule]
                 hits == Picked(news, {n \in 1..Len(news) : news[n].key = k})
             IN  /\ \E n \in 1..Len(news) : news[n].key.role = k.role
                 /\ \A n \in 1..(Len(hits) - 1) : hits[n].access = "Inherit"
                 => StoredAccess(store', k) = (IF hits = <<>> THEN "Inherit" ELSE Last(hits).access)
  BY <1>3, CloneWritten DEF Brought, Hits, Wanted, Decided
<1>4. Inv /\ Cloned => [\A c \in Client :
          (job[c].clone /\ UpsertRules(c)) =>
              \A k \in Key \ (job[c].touched \cup foreign) :
                  LET news == [n \in 1..Len(job[c].news) |-> job[c].news[n].rule]
                      hits == Picked(news, {n \in 1..Len(news) : news[n].key = k})
                  IN  /\ \E n \in 1..Len(news) : news[n].key.role = k.role
                      /\ \A n \in 1..(Len(hits) - 1) : hits[n].access = "Inherit"
                      => StoredAccess(store', k) = (IF hits = <<>> THEN "Inherit" ELSE Last(hits).access)]_vars
  BY <1>3
<1> QED
  BY <1>1, <1>2, <1>4, PTL DEF Spec, CloneExact
=============================================================================
