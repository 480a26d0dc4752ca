------------------------- MODULE SelfTuning_proofs --------------------------
(***************************************************************************)
(* The durable memory and the tool policy for any sessions, files, facts,  *)
(* rules and limits: their types, that facts leave on request only, and    *)
(* that the limit holds.                                                   *)
(*                                                                         *)
(* The inductive invariant is about a call that has read its file and not  *)
(* been overtaken since: what it is to write differs from the file by what *)
(* it was asked to cut, and once checked it keeps the limit.               *)
(***************************************************************************)
EXTENDS SelfTuning, FiniteSetTheorems, SequenceTheorems, WellFoundedInduction, TLAPS

-----------------------------------------------------------------------------
(* Lists: picking positions, merging, the newest.                          *)

\* A set of numbers that is not empty has a least one.
LEMMA MinOfNats ==
    ASSUME NEW S \in SUBSET Nat, S # {}
    PROVE  Min(S) \in S /\ \A y \in S : Min(S) <= y
<1>1. \E x \in S : \A y \in S : ~(<<y, x>> \in OpToRel(<, Nat))
  BY NatLessThanWellFounded, WFMin
<1>2. \E x \in S : \A y \in S : ~(y < x)
  BY <1>1 DEF OpToRel
<1>3. \E x \in S : \A y \in S : x <= y
  BY <1>2
<1> QED
  BY <1>3 DEF Min

\* There are n numbers from 1 to n.
LEMMA CountUpTo ==
    ASSUME NEW n \in Nat
    PROVE  IsFiniteSet(1..n) /\ Cardinality(1..n) = n
  BY FS_Interval

\* The picked list has as many entries as positions, in the order of the list.
LEMMA PickedProperties ==
    ASSUME NEW S, NEW list \in Seq(S), NEW at \in SUBSET DOMAIN list
    PROVE  /\ IsFiniteSet(at)
           /\ Picked(list, at) \in Seq(S)
           /\ Len(Picked(list, at)) = Cardinality(at)
           /\ ToSet(Picked(list, at)) = {list[i] : i \in at}
           /\ (\A i, k \in at : list[i] = list[k] => i = k) => IsInjective(Picked(list, at))
<1> DEFINE N == Cardinality(at)
           Below(i) == {j \in at : j <= i}
           rank == [i \in at |-> Cardinality(Below(i))]
           place(n) == CHOOSE i \in at : Cardinality(Below(i)) = n
<1>1. at \subseteq 1..Len(list) /\ Len(list) \in Nat
  BY LenProperties
<1>2. IsFiniteSet(at) /\ N \in Nat
  <2>1. IsFiniteSet(1..Len(list))
    BY <1>1, FS_Interval
  <2>2. IsFiniteSet(at)
    BY <1>1, <2>1, FS_Subset
  <2> QED
    BY <2>2, FS_CardinalityType
<1>3. \A i \in at : /\ Below(i) \in SUBSET at /\ i \in Below(i)
                    /\ IsFiniteSet(Below(i)) /\ Cardinality(Below(i)) \in 1..N
  <2>1. ASSUME NEW i \in at
        PROVE  Below(i) \in SUBSET at /\ i \in Below(i)
    BY <1>1
  <2>2. ASSUME NEW i \in at
        PROVE  IsFiniteSet(Below(i)) /\ Cardinality(Below(i)) <= N /\ Cardinality(Below(i)) \in Nat
    <3>1. Below(i) \in SUBSET at
      BY <2>1
    <3> HIDE DEF Below
    <3> QED
      BY <1>2, <3>1, FS_Subset, FS_CardinalityType
  <2>3. ASSUME NEW i \in at
        PROVE  Cardinality(Below(i)) # 0
    <3>1. IsFiniteSet(Below(i)) /\ i \in Below(i)
      BY <2>1, <2>2
    <3> HIDE DEF Below
    <3> QED
      BY <3>1, FS_EmptySet
  <2> HIDE DEF Below, N
  <2> QED
    BY <1>2, <2>1, <2>2, <2>3 DEF N
<1>4. ASSUME NEW i \in at, NEW k \in at, i < k
      PROVE  Cardinality(Below(i)) # Cardinality(Below(k))
  <2>1. Below(i) \in SUBSET Below(k) /\ k \in Below(k) /\ k \notin Below(i)
    BY <1>1, <1>4
  <2> HIDE DEF Below
  <2> QED
    BY <1>3, <2>1, FS_Subset
<1>5. \A i, k \in at : Cardinality(Below(i)) = Cardinality(Below(k)) => i = k
  <2>1. ASSUME NEW i \in at, NEW k \in at, Cardinality(Below(i)) = Cardinality(Below(k))
        PROVE  i = k
    <3> HIDE DEF Below
    <3>1. ~(i < k) /\ ~(k < i)
      BY <1>4, <2>1
    <3> QED
      BY <1>1, <3>1
  <2> QED
    BY <2>1
<1>6. rank \in Injection(at, 1..N)
  <2>1. rank \in [at -> 1..N]
    BY <1>3
  <2>2. IsInjective(rank)
    BY <1>5 DEF IsInjective
  <2> QED
    BY <2>1, <2>2 DEF Injection
<1>7. \A n \in 1..N : \E i \in at : Cardinality(Below(i)) = n
  <2>1. IsFiniteSet(1..N) /\ Cardinality(1..N) = N
    BY <1>2, FS_Interval
  <2> HIDE DEF rank, N
  <2>2. rank \in Surjection(at, 1..N)
    BY <1>6, <2>1, FS_Injection DEF N
  <2>3. \A n \in 1..N : \E i \in at : rank[i] = n
    BY <2>2 DEF Surjection
  <2> QED
    BY <2>3 DEF rank
<1>8. \A n \in 1..N : place(n) \in at /\ Cardinality(Below(place(n))) = n
  BY <1>7
<1>9. \A i \in at : place(Cardinality(Below(i))) = i
  BY <1>3, <1>5, <1>8
<1>10. Picked(list, at) = [n \in 1..N |-> list[place(n)]]
  BY DEF Picked
<1> HIDE DEF place, Below, N
<1>11. \A n \in 1..N : list[place(n)] \in S
  BY <1>1, <1>8, ElementOfSeq
<1>12. /\ Picked(list, at) \in [1..N -> S] /\ DOMAIN Picked(list, at) = 1..N
       /\ \A n \in 1..N : Picked(list, at)[n] = list[place(n)]
  BY <1>10, <1>11
<1>13. Picked(list, at) \in Seq(S)
  BY <1>2, <1>12, SeqDef
<1>14. Len(Picked(list, at)) = N
  <2>1. /\ DOMAIN Picked(list, at) = 1..Len(Picked(list, at))
        /\ Len(Picked(list, at)) \in Nat
    BY <1>13, LenProperties
  <2>2. 1..Len(Picked(list, at)) = 1..N
    BY <1>12, <2>1
  <2> QED
    <3>1. Cardinality(1..Len(Picked(list, at))) = Len(Picked(list, at))
      BY <2>1, CountUpTo
    <3>2. Cardinality(1..N) = N
      BY <1>2, CountUpTo
    <3> QED
      BY <2>2, <3>1, <3>2
<1>15. ToSet(Picked(list, at)) = {list[i] : i \in at}
  <2>1. ToSet(Picked(list, at)) = {Picked(list, at)[n] : n \in 1..N}
    BY <1>12 DEF ToSet
  <2>2. \A n \in 1..N : Picked(list, at)[n] \in {list[i] : i \in at}
    BY <1>8, <1>12
  <2>3. ASSUME NEW i \in at
        PROVE  list[i] \in ToSet(Picked(list, at))
    <3>1. Cardinality(Below(i)) \in 1..N /\ place(Cardinality(Below(i))) = i
      BY <1>3, <1>9
    <3> QED
      BY <1>12, <2>1, <3>1
  <2> QED
    BY <2>1, <2>2, <2>3
<1>16. ASSUME \A i, k \in at : list[i] = list[k] => i = k
       PROVE  IsInjective(Picked(list, at))
  <2>1. ASSUME NEW n \in 1..N, NEW m \in 1..N, list[place(n)] = list[place(m)]
        PROVE  n = m
    BY <1>8, <1>16, <2>1
  <2> QED
    BY <1>12, <2>1 DEF IsInjective
<1> QED
  BY <1>2, <1>13, <1>14, <1>15, <1>16 DEF N

LEMMA MergedProperties ==
    ASSUME NEW S, NEW old \in Seq(S), NEW new \in Seq(S)
    PROVE  /\ Merged(old, new) \in Seq(S)
           /\ IsInjective(Merged(old, new))
           /\ Len(Merged(old, new)) <= Len(old) + Len(new)
           /\ ToSet(old) \subseteq ToSet(Merged(old, new))
<1> DEFINE all == old \o new
           first == {i \in DOMAIN all : \A j \in 1..(i - 1) : all[j] # all[i]}
<1>1. /\ all \in Seq(S) /\ Len(all) = Len(old) + Len(new) /\ Len(all) \in Nat
      /\ DOMAIN all = 1..Len(all) /\ Len(old) \in Nat /\ Len(new) \in Nat
      /\ \A i \in 1..Len(old) : all[i] = old[i]
      /\ DOMAIN old = 1..Len(old)
  BY ConcatProperties, LenProperties
<1>2. Merged(old, new) = Picked(all, first)
  BY DEF Merged
<1>3. first \in SUBSET DOMAIN all /\ first \in SUBSET (1..Len(all))
  BY <1>1
<1>4. \A i, k \in first : all[i] = all[k] => i = k
  <2>1. ASSUME NEW i \in first, NEW k \in first, i < k
        PROVE  all[i] # all[k]
    <3>1. i \in 1..(k - 1)
      BY <1>1, <2>1
    <3> QED
      BY <3>1
  <2> QED
    BY <1>1, <2>1
<1>5. ASSUME NEW i \in 1..Len(all)
      PROVE  \E k \in first : all[k] = all[i]
  <2> DEFINE same == {k \in 1..Len(all) : all[k] = all[i]}
         least == Min(same)
  <2>1. same \in SUBSET Nat /\ i \in same
    BY <1>1
  <2>2. least \in same /\ \A y \in same : least <= y
    <3> HIDE DEF same
    <3> QED
      BY <2>1, MinOfNats
  <2>3. least \in 1..Len(all) /\ all[least] = all[i]
    BY <2>2
  <2> HIDE DEF least
  <2>4. ASSUME NEW j \in 1..(least - 1)
        PROVE  all[j] # all[least]
    <3>1. j \in 1..Len(all) /\ ~(least <= j)
      BY <1>1, <2>3
    <3> QED
      BY <2>2, <2>3, <3>1
  <2> QED
    BY <1>1, <2>3, <2>4
<1> HIDE DEF first, all
<1>6. Cardinality(first) <= Len(all)
  <2>1. IsFiniteSet(1..Len(all)) /\ Cardinality(1..Len(all)) = Len(all)
    BY <1>1, FS_Interval
  <2> QED
    BY <1>3, <2>1, FS_Subset
<1>7. ToSet(old) \subseteq {all[i] : i \in first}
  <2>1. ASSUME NEW i \in 1..Len(old)
        PROVE  old[i] \in {all[k] : k \in first}
    <3>1. i \in 1..Len(all) /\ all[i] = old[i]
      BY <1>1
    <3> QED
      BY <1>5, <3>1
  <2> QED
    BY <1>1, <2>1 DEF ToSet
<1> QED
  BY <1>1, <1>2, <1>3, <1>4, <1>6, <1>7, PickedProperties

LEMMA WithoutProperties ==
    ASSUME NEW S, NEW list \in Seq(S), NEW m
    PROVE  Without(list, m) \in Seq(S) /\ ToSet(list) \ ToSet(Without(list, m)) \subseteq m
<1> DEFINE at == {i \in DOMAIN list : list[i] \notin m}
<1>1. /\ Without(list, m) \in Seq(S)
      /\ ToSet(Without(list, m)) = {list[i] : i \in at}
  BY PickedProperties DEF Without
<1> QED
  BY <1>1 DEF ToSet

LEMMA ReplacedProperties ==
    ASSUME NEW S, NEW list \in Seq(S), NEW m, NEW e \in S
    PROVE  Replaced(list, m, e) \in Seq(S) /\ ToSet(list) \ ToSet(Replaced(list, m, e)) \subseteq m
<1> DEFINE hits == {i \in 1..Len(list) : list[i] \in m}
           i0 == SelectInSeq(list, LAMBDA f : f \in m)
<1>1. i0 = IF hits # {} THEN Min(hits) ELSE 0
  BY DEF SelectInSeq
<1>2. Len(list) \in Nat /\ DOMAIN list = 1..Len(list)
  BY LenProperties
<1>3. Replaced(list, m, e) = IF i0 = 0 THEN Append(list, e) ELSE [list EXCEPT ![i0] = e]
  BY DEF Replaced
<1>4. CASE hits = {}
  <2>1. Replaced(list, m, e) = Append(list, e)
    BY <1>1, <1>3, <1>4
  <2>2. /\ Append(list, e) \in Seq(S) /\ Len(Append(list, e)) = Len(list) + 1
        /\ \A i \in 1..Len(list) : Append(list, e)[i] = list[i]
    BY AppendProperties
  <2>3. DOMAIN Append(list, e) = 1..(Len(list) + 1)
    BY <2>2, LenProperties
  <2> QED
    BY <1>2, <2>1, <2>2, <2>3 DEF ToSet
<1>5. CASE hits # {}
  <2>1. i0 \in hits
    <3>1. hits \in SUBSET Nat
      BY <1>2
    <3> HIDE DEF hits, i0
    <3> QED
      BY <1>1, <1>5, <3>1, MinOfNats
  <2>2. i0 \in 1..Len(list) /\ list[i0] \in m /\ i0 # 0
    BY <1>2, <2>1
  <2> HIDE DEF i0
  <2>3. Replaced(list, m, e) = [list EXCEPT ![i0] = e]
    BY <1>3, <2>2
  <2>4. /\ [list EXCEPT ![i0] = e] \in Seq(S)
        /\ \A j \in 1..Len(list) : [list EXCEPT ![i0] = e][j] = IF j = i0 THEN e ELSE list[j]
        /\ DOMAIN [list EXCEPT ![i0] = e] = 1..Len(list)
    BY <1>2, <2>2, ExceptSeq
  <2> QED
    BY <1>2, <2>2, <2>3, <2>4 DEF ToSet
<1> QED
  BY <1>4, <1>5

LEMMA AppendKeeps ==
    ASSUME NEW S, NEW list \in Seq(S), NEW e \in S
    PROVE  Append(list, e) \in Seq(S) /\ ToSet(list) \subseteq ToSet(Append(list, e))
<1>1. /\ Append(list, e) \in Seq(S) /\ Len(Append(list, e)) = Len(list) + 1
      /\ \A i \in 1..Len(list) : Append(list, e)[i] = list[i]
  BY AppendProperties
<1>2. DOMAIN Append(list, e) = 1..(Len(list) + 1) /\ DOMAIN list = 1..Len(list) /\ Len(list) \in Nat
  BY <1>1, LenProperties
<1> QED
  BY <1>1, <1>2 DEF ToSet

LEMMA NewestProperties ==
    ASSUME NEW S, NEW list \in Seq(S), NEW many \in Nat \ {0}
    PROVE  /\ Newest(list, many) \in Seq(S)
           /\ Len(Newest(list, many)) <= many
           /\ IsInjective(list) => IsInjective(Newest(list, many))
<1> DEFINE from == IF Len(list) > many THEN Len(list) - many + 1 ELSE 1
           new == SubSeq(list, from, Len(list))
<1>1. /\ Len(list) \in Nat /\ DOMAIN list = 1..Len(list)
      /\ \A i \in 1..Len(list) : list[i] \in S
  BY LenProperties, ElementOfSeq
<1>2. from \in 1..(Len(list) + 1) /\ Len(list) - from + 1 <= many
  BY <1>1
<1> HIDE DEF from
<1>3. \A i \in from..Len(list) : list[i] \in S
  BY <1>1, <1>2
<1>4. /\ new \in Seq(S)
      /\ Len(new) = IF from <= Len(list) THEN Len(list) - from + 1 ELSE 0
      /\ \A i \in 1..(Len(list) - from + 1) : new[i] = list[from + i - 1]
  BY <1>1, <1>2, <1>3, SubSeqProperties
<1>5. new = Newest(list, many)
  BY DEF Newest, from
<1> HIDE DEF new
<1>6. DOMAIN new = 1..Len(new)
  BY <1>4, LenProperties
<1>7. DOMAIN new = 1..(Len(list) - from + 1)
  BY <1>1, <1>2, <1>4, <1>6
<1>8. ASSUME IsInjective(list), NEW a \in DOMAIN new, NEW b \in DOMAIN new, new[a] = new[b]
      PROVE  a = b
  <2>1. list[from + a - 1] = list[from + b - 1]
    BY <1>4, <1>7, <1>8
  <2>2. from + a - 1 \in DOMAIN list /\ from + b - 1 \in DOMAIN list
    BY <1>1, <1>2, <1>7
  <2>3. from + a - 1 = from + b - 1
    BY <1>8, <2>1, <2>2 DEF IsInjective
  <2> QED
    BY <1>1, <1>2, <1>7, <2>3
<1> QED
  BY <1>1, <1>2, <1>4, <1>5, <1>8 DEF IsInjective

\* The facts of a list of facts are facts.
LEMMA FactsOfList ==
    ASSUME NEW S, NEW list \in Seq(S)
    PROVE  ToSet(list) \subseteq S
  BY LenProperties, ElementOfSeq DEF ToSet

-----------------------------------------------------------------------------
(* The size of the memory.                                                 *)

\* Any files have a size.
LEMMA EntriesFinite ==
    ASSUME NEW f \in [Targets -> Seq(Facts)]
    PROVE  IsFiniteSet(Entries(f))
<1>1. \A t \in Targets : IsFiniteSet({t} \X DOMAIN f[t])
  <2>1. ASSUME NEW t \in Targets
        PROVE  IsFiniteSet({t} \X DOMAIN f[t])
    <3>1. DOMAIN f[t] = 1..Len(f[t]) /\ Len(f[t]) \in Nat
      BY LenProperties
    <3>2. IsFiniteSet(DOMAIN f[t])
      BY <3>1, CountUpTo
    <3>3. IsFiniteSet({t})
      BY FS_Singleton
    <3> QED
      BY <3>2, <3>3, FS_Product
  <2> QED
    BY <2>1
<1> DEFINE parts == {{t} \X DOMAIN f[t] : t \in Targets}
       part == [t \in Targets |-> {t} \X DOMAIN f[t]]
<1>2. IsFiniteSet(parts)
  <2>1. part \in Surjection(Targets, parts)
    BY DEF Surjection
  <2> HIDE DEF part, parts
  <2> QED
    BY <2>1, TargetsAssumption, FS_Surjection
<1>3. \A p \in parts : IsFiniteSet(p)
  BY <1>1
<1>4. Entries(f) = UNION parts
  BY DEF Entries
<1> HIDE DEF parts
<1> QED
  BY <1>2, <1>3, <1>4, FS_UNION

LEMMA SizeType ==
    ASSUME NEW f \in [Targets -> Seq(Facts)]
    PROVE  Size(f) \in Nat
BY EntriesFinite, FS_CardinalityType DEF Size

\* A file cut short makes the memory no larger.
LEMMA CutIsNoLarger ==
    ASSUME NEW f \in [Targets -> Seq(Facts)], NEW t \in Targets, NEW new \in Seq(Facts),
           NEW n \in 0..Len(new)
    PROVE  /\ [f EXCEPT ![t] = SubSeq(new, 1, n)] \in [Targets -> Seq(Facts)]
           /\ Size([f EXCEPT ![t] = SubSeq(new, 1, n)]) <= Size([f EXCEPT ![t] = new])
<1> DEFINE cut == SubSeq(new, 1, n)
           whole == [f EXCEPT ![t] = new]
           less == [f EXCEPT ![t] = cut]
<1>1. Len(new) \in Nat /\ DOMAIN new = 1..Len(new) /\ \A i \in 1..Len(new) : new[i] \in Facts
  BY LenProperties, ElementOfSeq
<1>2. cut \in Seq(Facts) /\ Len(cut) <= Len(new) /\ Len(cut) \in Nat
  <2>1. \A i \in 1..n : new[i] \in Facts
    BY <1>1
  <2>2. cut \in Seq(Facts) /\ Len(cut) = IF 1 <= n THEN n - 1 + 1 ELSE 0
    BY <1>1, <2>1, SubSeqProperties
  <2> HIDE DEF cut
  <2> QED
    BY <1>1, <2>2
<1> HIDE DEF cut
<1>3. DOMAIN cut = 1..Len(cut)
  BY <1>2, LenProperties
<1>4. DOMAIN cut \subseteq DOMAIN new
  BY <1>1, <1>2, <1>3
<1>5. whole \in [Targets -> Seq(Facts)] /\ less \in [Targets -> Seq(Facts)]
  BY <1>2
<1>6. \A u \in Targets : DOMAIN less[u] \subseteq DOMAIN whole[u]
  BY <1>4
<1> HIDE DEF whole, less
<1>7. Entries(less) \subseteq Entries(whole)
  BY <1>6 DEF Entries
<1>8. Size(less) <= Size(whole)
  BY <1>5, <1>7, EntriesFinite, FS_Subset DEF Size
<1> QED
  BY <1>5, <1>8 DEF cut, whole, less

\* The entries of one file alone.
LEMMA OneColumn ==
    ASSUME NEW u, NEW n \in Nat
    PROVE  Cardinality({u} \X (1..n)) = n
<1> DEFINE R == 1..n
<1>1. IsFiniteSet({u}) /\ Cardinality({u}) = 1
  BY FS_Singleton
<1>2. IsFiniteSet(R) /\ Cardinality(R) = n
  BY CountUpTo
<1> HIDE DEF R
<1>3. Cardinality({u} \X R) = Cardinality({u}) * Cardinality(R)
  BY <1>1, <1>2, FS_Product
<1> QED
  BY <1>1, <1>2, <1>3 DEF R

\* A memory in which one file has entries has as many as that file.
LEMMA SizeOfOneFile ==
    ASSUME NEW f \in [Targets -> Seq(Facts)], NEW u \in Targets,
           \A t \in Targets \ {u} : f[t] = <<>>
    PROVE  Size(f) = Len(f[u])
<1>1. /\ DOMAIN f[u] = 1..Len(f[u]) /\ Len(f[u]) \in Nat
      /\ \A t \in Targets \ {u} : DOMAIN f[t] = {}
  BY LenProperties
<1>2. Entries(f) = {u} \X (1..Len(f[u]))
  BY <1>1 DEF Entries
<1>3. Cardinality({u} \X (1..Len(f[u]))) = Len(f[u])
  BY <1>1, OneColumn
<1> QED
  BY <1>2, <1>3 DEF Size

\* A migration keeps the files' types and takes no fact away.
LEMMA MigratedProperties ==
    ASSUME NEW f \in [Targets -> Seq(Facts)]
    PROVE  /\ Migrated(f) \in [Targets -> Seq(Facts)]
           /\ \A t \in Targets : ToSet(f[t]) \subseteq ToSet(Migrated(f)[t])
           /\ \A t \in Targets \ {User} : Migrated(f)[t] = f[t]
           /\ Legacy = <<>> => Migrated(f) = f
           /\ Legacy # <<>> => Migrated(f)[User] = Merged(f[User], Legacy)
<1>1. /\ Merged(f[User], Legacy) \in Seq(Facts)
      /\ ToSet(f[User]) \subseteq ToSet(Merged(f[User], Legacy))
  BY TargetsAssumption, LegacyAssumption, MergedProperties
<1> QED
  BY <1>1, TargetsAssumption DEF Migrated

\* The memory of a first start is within the limit.
LEMMA FirstStartFits ==
    ~(Size(Migrated([t \in Targets |-> <<>>])) > Limit)
<1> DEFINE none == [t \in Targets |-> <<>>]
<1>1. none \in [Targets -> Seq(Facts)] /\ User \in Targets /\ \A t \in Targets : none[t] = <<>>
  BY TargetsAssumption, EmptySeq
<1>2. Len(Legacy) \in Nat /\ Len(Legacy) <= Limit /\ Limit \in Nat
  BY LegacyAssumption, BoundsAssumption, LenProperties
<1> HIDE DEF none
<1>3. Migrated(none) \in [Targets -> Seq(Facts)] /\ \A t \in Targets \ {User} : Migrated(none)[t] = <<>>
  BY <1>1, MigratedProperties
<1>4. Size(Migrated(none)) = Len(Migrated(none)[User])
  BY <1>1, <1>3, SizeOfOneFile
<1>5. Len(Migrated(none)[User]) <= Len(Legacy) /\ Len(Migrated(none)[User]) \in Nat
  <2>1. CASE Legacy = <<>>
    <3>1. Migrated(none)[User] = <<>>
      BY <1>1, <2>1, MigratedProperties
    <3> QED
      BY <1>2, <3>1, EmptySeq
  <2>2. CASE Legacy # <<>>
    <3>1. Migrated(none)[User] = Merged(<<>>, Legacy)
      BY <1>1, <2>2, MigratedProperties
    <3>2. <<>> \in Seq(Facts) /\ Len(<<>>) = 0
      BY EmptySeq
    <3>3. Len(Merged(<<>>, Legacy)) <= 0 + Len(Legacy) /\ Merged(<<>>, Legacy) \in Seq(Facts)
      BY <3>2, LegacyAssumption, MergedProperties
    <3> QED
      BY <1>2, <3>1, <3>3, LenProperties
  <2> QED
    BY <2>1, <2>2
<1> QED
  BY <1>2, <1>4, <1>5 DEF none

-----------------------------------------------------------------------------
(* The inductive invariant.                                                *)

Call == [pc : {"none", "check", "write"}, target : Targets, new : Seq(Facts),
         cut : SUBSET Facts, moved : BOOLEAN]

\* The types TypeOK leaves to the calls and the counters.
Typed == call \in [Tasks -> Call] /\ quiet \in [Sessions -> Nat] /\ turns \in Nat

\* A running turn is not yet among those counted since the last review.
TurnIsAhead == \A s \in Sessions : task[Turn(s)].on => quiet[s] < turns

\* A call nobody has overtaken takes nothing from its file but its cut.
CutsAreAsked == \A k \in Tasks : call[k].pc # "none" /\ ~call[k].moved =>
    FactsIn(call[k].target) \ ToSet(call[k].new) \subseteq call[k].cut

\* What it has checked still holds.
ChecksStand == \A k \in Tasks : call[k].pc = "write" /\ ~call[k].moved => ~(SizeAfter(k) > Limit)

CallsInv == CutsAreAsked /\ ChecksStand /\ LimitHolds

Inv == TypeOK /\ Typed /\ TurnIsAhead /\ CallsInv

\* The turn of a session is a task, and none of its reviews.
LEMMA TasksOfSessions ==
    /\ \A s \in Sessions : Turn(s) \in Tasks /\ Late(s) \in Tasks
    /\ \A s, r \in Sessions : Turn(s) # Late(r)
    /\ \A s, r \in Sessions : Turn(s) = Turn(r) => s = r
    /\ \A k \in Reviews : k \in Tasks /\ k[2] \in Sessions
    /\ \A k \in Reviews : \A s \in Sessions : k # Turn(s)
  BY BoundsAssumption DEF Tasks, Turn, Late, Reviews

\* Calls that end, or go on in another task, keep what is known of the others.
LEMMA CallsPassedOn ==
    ASSUME CallsInv, UNCHANGED <<files, raced>>,
           \A j \in Tasks : call'[j].pc = "none" \/ \E i \in Tasks : call'[j] = call[i]
    PROVE  CallsInv'
<1>1. CutsAreAsked'
  BY DEF CallsInv, CutsAreAsked, FactsIn
<1>2. ASSUME NEW j \in Tasks, call'[j].pc = "write", ~call'[j].moved
      PROVE  ~(SizeAfter(j)' > Limit)
  <2>1. PICK i \in Tasks : call'[j] = call[i]
    BY <1>2
  <2>2. SizeAfter(j)' = SizeAfter(i)
    BY <2>1 DEF SizeAfter
  <2> QED
    BY <1>2, <2>1, <2>2 DEF CallsInv, ChecksStand
<1> QED
  BY <1>1, <1>2 DEF CallsInv, ChecksStand, LimitHolds

\* What stands in no call and writes no file leaves the calls as they are.
LEMMA CallsUntouched ==
    ASSUME CallsInv, UNCHANGED <<files, call, raced>>
    PROVE  CallsInv'
  BY DEF CallsInv, CutsAreAsked, ChecksStand, LimitHolds, FactsIn, SizeAfter

LEMMA InitHolds == Init => Inv
<1> SUFFICES ASSUME Init PROVE Inv
  OBVIOUS
<1>1. [t \in Targets |-> <<>>] \in [Targets -> Seq(Facts)]
  BY EmptySeq
<1>2. files \in [Targets -> Seq(Facts)]
  BY <1>1, MigratedProperties DEF Init
<1>3. TypeOK
  <2>1. <<>> \in Seq({"fine", "missed"}) /\ <<>> \in Seq(Rules) /\ Len(<<>>) = 0 /\ IsInjective(<<>>)
    BY EmptySeq DEF IsInjective
  <2>2. Window \in Nat /\ MaxRules \in Nat
    BY BoundsAssumption
  <2>3. /\ Len(log) <= Window /\ Len(policy) <= MaxRules
        /\ log \in Seq({"fine", "missed"}) /\ policy \in Seq(Rules) /\ IsInjective(policy)
    BY <2>1, <2>2 DEF Init
  <2>4. /\ task \in [Tasks -> [on : BOOLEAN, saved : BOOLEAN]] /\ up
        /\ \A k \in Tasks : call[k].pc \in {"none", "check", "write"}
        /\ \A s \in Sessions : quiet[s] <= turns
    BY DEF Init, Off, NoCall
  <2> QED
    BY <1>2, <2>3, <2>4 DEF Init, TypeOK
<1>4. Typed /\ TurnIsAhead
  <2>1. <<>> \in Seq(Facts)
    BY EmptySeq
  <2> QED
    BY <2>1, TargetsAssumption, TasksOfSessions DEF Init, Typed, TurnIsAhead, Call, NoCall, Off
<1>5. CallsInv
  <2>1. LimitHolds
    BY FirstStartFits DEF Init, LimitHolds
  <2> QED
    BY <2>1 DEF Init, CallsInv, CutsAreAsked, ChecksStand, NoCall
<1> QED
  BY <1>3, <1>4, <1>5 DEF Inv, Init

-----------------------------------------------------------------------------
(* Starting.                                                               *)

\* A start changes the files it finds by a migration, or not at all.
LEMMA StartsMigrates ==
    ASSUME NEW left \in [Targets -> Seq(Facts)], NEW unread, Starts(left, unread)
    PROVE  /\ files' \in [Targets -> Seq(Facts)]
           /\ \A t \in Targets : ToSet(left[t]) \subseteq ToSet(files'[t])
           /\ Size(files') > Limit => Size(left) > Limit
<1>1. \/ files' = left
      \/ files' = Migrated(left) /\ (Legacy = <<>> \/ Size(Migrated(left)) <= Limit)
  <2> DEFINE fits == Legacy = <<>> \/ (unread = {} /\ Size(Migrated(left)) <= Limit)
  <2>1. files' = IF fits THEN Migrated(left) ELSE left
    BY DEF Starts
  <2> QED
    BY <2>1
<1>2. CASE files' = left \/ Legacy = <<>>
  <2>1. files' = left
    BY <1>1, <1>2, MigratedProperties
  <2> QED
    BY <2>1
<1>3. CASE files' = Migrated(left) /\ Size(Migrated(left)) <= Limit
  <2>1. /\ files' \in [Targets -> Seq(Facts)]
        /\ \A t \in Targets : ToSet(left[t]) \subseteq ToSet(files'[t])
    BY <1>3, MigratedProperties
  <2>2. Size(files') \in Nat /\ Limit \in Nat
    BY <2>1, SizeType, BoundsAssumption
  <2> QED
    BY <1>3, <2>1, <2>2
<1> QED
  BY <1>1, <1>2, <1>3

LEMMA StartsKeepsInv ==
    ASSUME Inv, NEW left \in [Targets -> Seq(Facts)], NEW unread \in SUBSET Targets,
           Starts(left, unread), torn' \in BOOLEAN, raced' \in BOOLEAN,
           Size(left) > Limit => raced'
    PROVE  Inv'
<1>1. TypeOK'
  <2>1. files' \in [Targets -> Seq(Facts)]
    BY StartsMigrates
  <2>2. /\ broken' = unread /\ up' \in BOOLEAN /\ due' = TRUE /\ drained' = {}
        /\ task' = [k \in Tasks |-> Off] /\ call' = [k \in Tasks |-> NoCall]
        /\ UNCHANGED <<quiet, log, policy, turns>>
    BY DEF Starts
  <2> QED
    BY <2>1, <2>2 DEF Inv, TypeOK, Off, NoCall
<1>2. Typed' /\ TurnIsAhead'
  <2>1. <<>> \in Seq(Facts)
    BY EmptySeq
  <2> QED
    BY <2>1, TargetsAssumption, TasksOfSessions
    DEF Inv, Starts, Typed, TurnIsAhead, Call, NoCall, Off
<1>3. CallsInv'
  <2>1. LimitHolds'
    BY StartsMigrates DEF LimitHolds
  <2> QED
    BY <2>1 DEF Starts, CallsInv, CutsAreAsked, ChecksStand, NoCall
<1> QED
  BY <1>1, <1>2, <1>3 DEF Inv

\* What is left of a file whose write was stopped is the start of what was to be
\* written, which had been checked.
LEMMA StopsInWriteKeepsInv ==
    ASSUME Inv, NEW k \in Tasks, StopsInWrite(k)
    PROVE  Inv'
<1> DEFINE c == call[k]
           Cut(n) == [files EXCEPT ![c.target] = SubSeq(c.new, 1, n)]
<1>1. /\ c.pc = "write" /\ c.target \in Targets /\ c.new \in Seq(Facts) /\ c.moved \in BOOLEAN
      /\ files \in [Targets -> Seq(Facts)] /\ broken \in SUBSET Targets
      /\ raced \in BOOLEAN /\ torn \in BOOLEAN
  BY DEF Inv, TypeOK, Typed, Call, StopsInWrite
<1>2. raced' = (raced \/ c.moved) /\ torn' = torn
  BY DEF StopsInWrite
<1>3. \A n \in 0..Len(c.new) : /\ Cut(n) \in [Targets -> Seq(Facts)]
                                /\ Size(Cut(n)) <= SizeAfter(k)
  BY <1>1, CutIsNoLarger DEF SizeAfter
<1>4. c.moved \/ ~(SizeAfter(k) > Limit)
  BY <1>1 DEF Inv, CallsInv, ChecksStand
<1>5. 0 \in 0..Len(c.new)
  BY <1>1, LenProperties
<1>6. SizeAfter(k) \in Nat /\ Limit \in Nat /\ \A n \in 0..Len(c.new) : Size(Cut(n)) \in Nat
  <2>1. [files EXCEPT ![c.target] = c.new] \in [Targets -> Seq(Facts)]
    BY <1>1
  <2> HIDE DEF Cut, c
  <2> QED
    BY <1>3, <2>1, SizeType, BoundsAssumption DEF SizeAfter, c
<1>7. \E n \in 0..Len(c.new), unread \in SUBSET Targets : Starts(Cut(n), unread)
  <2>1. broken \cup {c.target} \in SUBSET Targets
    BY <1>1
  <2> QED
    BY <1>1, <1>5, <2>1 DEF StopsInWrite
<1>8. PICK n \in 0..Len(c.new), unread \in SUBSET Targets : Starts(Cut(n), unread)
  BY <1>7
<1> HIDE DEF Cut, c
<1>9. Size(Cut(n)) > Limit => raced'
  <2>1. Size(Cut(n)) > Limit => c.moved
    BY <1>3, <1>4, <1>6 DEF c
  <2> QED
    BY <1>2, <2>1
<1>10. torn' \in BOOLEAN /\ raced' \in BOOLEAN
  <2>1. torn' \in BOOLEAN
    BY <1>1, <1>2
  <2>2. raced' \in BOOLEAN
    BY <1>2
  <2> QED
    BY <2>1, <2>2
<1>11. Cut(n) \in [Targets -> Seq(Facts)]
  BY <1>3
<1> QED
  BY <1>8, <1>9, <1>10, <1>11, StartsKeepsInv

-----------------------------------------------------------------------------
(* Memory calls.                                                           *)

LEMMA ReadsKeepsInv ==
    ASSUME Inv, NEW k \in Tasks, NEW t \in Targets, NEW new \in Seq(Facts), NEW cut,
           Reads(k, t, new, cut), FactsIn(t) \ ToSet(new) \subseteq cut
    PROVE  Inv'
<1>1. FactsIn(t) \subseteq Facts
  BY FactsOfList DEF Inv, TypeOK, FactsIn
<1>2. cut \cap FactsIn(t) \in SUBSET Facts
  BY <1>1
<1>3. call \in [Tasks -> Call]
  BY DEF Inv, Typed
<1>4. /\ call' \in [Tasks -> Call]
      /\ call'[k] = [pc |-> "check", target |-> t, new |-> new,
                     cut |-> cut \cap FactsIn(t), moved |-> FALSE]
      /\ \A j \in Tasks \ {k} : call'[j] = call[j]
  BY <1>2, <1>3 DEF Reads, Call
<1>5. UNCHANGED <<files, broken, up, task, quiet, raced, learning, drained, turns>>
  BY DEF Reads
<1>6. TypeOK'
  BY <1>4, <1>5 DEF Inv, TypeOK, Reads, MayCall, learning
<1>7. Typed' /\ TurnIsAhead'
  BY <1>4, <1>5 DEF Inv, Typed, TurnIsAhead
<1>8. CallsInv'
  <2>1. CutsAreAsked'
    BY <1>4, <1>5 DEF Inv, CallsInv, CutsAreAsked, FactsIn
  <2>2. ASSUME NEW j \in Tasks, call'[j].pc = "write", ~call'[j].moved
        PROVE  ~(SizeAfter(j)' > Limit)
    <3>1. j # k /\ call'[j] = call[j]
      BY <1>4, <2>2
    <3>2. SizeAfter(j)' = SizeAfter(j)
      BY <1>5, <3>1 DEF SizeAfter
    <3> QED
      BY <2>2, <3>1, <3>2 DEF Inv, CallsInv, ChecksStand
  <2> QED
    BY <1>5, <2>1, <2>2 DEF Inv, CallsInv, ChecksStand, LimitHolds
<1> QED
  BY <1>6, <1>7, <1>8 DEF Inv

\* What each kind of call is to write keeps all but what it cuts.
LEMMA CallsKeepInv ==
    ASSUME Inv, NEW k \in Tasks, NEW t \in Targets
    PROVE  /\ \A e \in Facts : Add(k, t, e) => Inv'
           /\ \A e \in Facts : \A m \in Matches : Replace(k, t, m, e) => Inv'
           /\ \A m \in Matches : Forget(k, t, m) => Inv'
<1>1. files[t] \in Seq(Facts)
  BY DEF Inv, TypeOK
<1>2. ASSUME NEW e \in Facts, Add(k, t, e)
      PROVE  Inv'
  <2>1. Append(files[t], e) \in Seq(Facts) /\ FactsIn(t) \ ToSet(Append(files[t], e)) \subseteq {}
    BY <1>1, AppendKeeps DEF FactsIn
  <2> QED
    BY <1>2, <2>1, ReadsKeepsInv DEF Add
<1>3. ASSUME NEW e \in Facts, NEW m \in Matches, Replace(k, t, m, e)
      PROVE  Inv'
  <2>1. /\ Replaced(files[t], m, e) \in Seq(Facts)
        /\ FactsIn(t) \ ToSet(Replaced(files[t], m, e)) \subseteq m
    BY <1>1, ReplacedProperties DEF FactsIn
  <2> QED
    BY <1>3, <2>1, ReadsKeepsInv DEF Replace
<1>4. ASSUME NEW m \in Matches, Forget(k, t, m)
      PROVE  Inv'
  <2>1. /\ Without(files[t], m) \in Seq(Facts)
        /\ FactsIn(t) \ ToSet(Without(files[t], m)) \subseteq m
    BY <1>1, WithoutProperties DEF FactsIn
  <2> QED
    BY <1>4, <2>1, ReadsKeepsInv DEF Forget
<1> QED
  BY <1>2, <1>3, <1>4

LEMMA AddAgainKeepsInv ==
    ASSUME Inv, NEW k \in Tasks, NEW t \in Targets, NEW e \in Facts, AddAgain(k, t, e)
    PROVE  Inv'
<1>1. UNCHANGED <<files, broken, up, call, quiet, raced, learning, drained, turns>>
  BY DEF AddAgain
<1>2. TypeOK'
  <2>1. task' \in [Tasks -> [on : BOOLEAN, saved : BOOLEAN]] /\ \A j \in Tasks : task'[j].on = task[j].on
    BY DEF Inv, TypeOK, AddAgain
  <2> QED
    BY <1>1, <2>1 DEF Inv, TypeOK, learning
<1>3. Typed' /\ TurnIsAhead'
  BY <1>1, TasksOfSessions DEF Inv, TypeOK, AddAgain, Typed, TurnIsAhead
<1>4. CallsInv'
  BY <1>1, CallsUntouched DEF Inv
<1> QED
  BY <1>2, <1>3, <1>4 DEF Inv

LEMMA ChecksKeepsInv ==
    ASSUME Inv, NEW k \in Tasks, Checks(k)
    PROVE  Inv'
<1>1. call \in [Tasks -> Call] /\ call[k] \in Call /\ NoCall \in Call
  <2>1. <<>> \in Seq(Facts)
    BY EmptySeq
  <2> QED
    BY <2>1, TargetsAssumption DEF Inv, Typed, Call, NoCall
<1>2. /\ call' \in [Tasks -> Call]
      /\ \A j \in Tasks \ {k} : call'[j] = call[j]
      /\ \/ call'[k] = NoCall
         \/ ~(SizeAfter(k) > Limit) /\ call'[k] = [call[k] EXCEPT !.pc = "write"]
  BY <1>1 DEF Checks, Call
<1>3. UNCHANGED <<files, broken, up, task, quiet, raced, learning, drained, turns>>
  BY DEF Checks, counts
<1>4. TypeOK'
  <2>1. \A j \in Tasks : /\ call'[j].pc \in {"none", "check", "write"}
                         /\ call'[j].pc # "none" => call[j].pc # "none"
    BY <1>1, <1>2 DEF Checks, Call, NoCall
  <2> QED
    BY <1>3, <2>1 DEF Inv, TypeOK, learning
<1>5. Typed' /\ TurnIsAhead'
  BY <1>2, <1>3 DEF Inv, Typed, TurnIsAhead
<1>6. CallsInv'
  <2>1. \A j \in Tasks : call'[j].pc # "none" =>
            /\ call[j].pc # "none" /\ call'[j].moved = call[j].moved /\ call'[j].cut = call[j].cut
            /\ call'[j].target = call[j].target /\ call'[j].new = call[j].new
    BY <1>1, <1>2 DEF Checks, Call, NoCall
  <2>2. CutsAreAsked'
    BY <1>3, <2>1 DEF Inv, CallsInv, CutsAreAsked, FactsIn
  <2>3. ASSUME NEW j \in Tasks, call'[j].pc = "write", ~call'[j].moved
        PROVE  ~(SizeAfter(j)' > Limit)
    <3>1. SizeAfter(j)' = SizeAfter(j)
      BY <1>3, <2>1, <2>3 DEF SizeAfter
    <3>2. ~(SizeAfter(j) > Limit)
      BY <1>2, <2>1, <2>3 DEF Inv, CallsInv, ChecksStand, NoCall
    <3> QED
      BY <3>1, <3>2
  <2> QED
    BY <1>3, <2>2, <2>3 DEF Inv, CallsInv, ChecksStand, LimitHolds
<1> QED
  BY <1>4, <1>5, <1>6 DEF Inv

LEMMA WritesKeepsInv ==
    ASSUME Inv, NEW k \in Tasks, Writes(k)
    PROVE  Inv'
<1>1. call \in [Tasks -> Call] /\ call[k] \in Call /\ NoCall \in Call
  <2>1. <<>> \in Seq(Facts)
    BY EmptySeq
  <2> QED
    BY <2>1, TargetsAssumption DEF Inv, Typed, Call, NoCall
<1>2. /\ call' \in [Tasks -> Call]
      /\ \A j \in Tasks : /\ call'[j].pc # "none" => call[j].pc # "none"
                          /\ call'[j].pc # "none" => call'[j].moved
  BY <1>1 DEF Writes, Call, NoCall
<1>3. files' \in [Targets -> Seq(Facts)]
  BY <1>1 DEF Inv, TypeOK, Writes, Stored, Call
<1>4. UNCHANGED <<broken, up, quiet, learning, drained, turns>>
  BY DEF Writes, counts
<1>5. task' = [task EXCEPT ![k].saved = TRUE]
  BY DEF Writes
<1>6. TypeOK'
  <2>1. \A j \in Tasks : call'[j].pc \in {"none", "check", "write"}
    BY <1>2 DEF Call
  <2>2. task' \in [Tasks -> [on : BOOLEAN, saved : BOOLEAN]] /\ \A j \in Tasks : task'[j].on = task[j].on
    BY <1>5 DEF Inv, TypeOK
  <2>3. raced' \in BOOLEAN
    BY <1>1 DEF Inv, TypeOK, Writes, Call
  <2> QED
    BY <1>2, <1>3, <1>4, <2>1, <2>2, <2>3 DEF Inv, TypeOK, learning
<1>7. Typed' /\ TurnIsAhead'
  BY <1>2, <1>4, <1>5, TasksOfSessions
  DEF Inv, TypeOK, Typed, TurnIsAhead
<1>8. CallsInv'
  <2>1. CutsAreAsked' /\ ChecksStand'
    BY <1>2 DEF CutsAreAsked, ChecksStand
  <2>2. LimitHolds'
    <3>1. Size(files') = SizeAfter(k)
      BY DEF Writes, Stored, SizeAfter
    <3>2. call[k].moved \/ ~(SizeAfter(k) > Limit)
      BY DEF Inv, CallsInv, ChecksStand, Writes
    <3> QED
      BY <3>1, <3>2 DEF LimitHolds, Writes
  <2> QED
    BY <2>1, <2>2 DEF CallsInv
<1> QED
  BY <1>6, <1>7, <1>8 DEF Inv

-----------------------------------------------------------------------------
(* Turns and reviews.                                                      *)

\* Rules are added without repeating one, and no more than may be kept.
LEMMA WithRulesKeepsPolicy ==
    ASSUME TypeOK, NEW new \in Seq(Rules)
    PROVE  /\ WithRules(new) \in Seq(Rules) /\ IsInjective(WithRules(new))
           /\ Len(WithRules(new)) <= MaxRules
<1>1. Merged(policy, new) \in Seq(Rules) /\ IsInjective(Merged(policy, new))
  BY MergedProperties DEF TypeOK
<1>2. MaxRules \in Nat \ {0}
  BY BoundsAssumption
<1> QED
  BY <1>1, <1>2, NewestProperties DEF WithRules

LEMMA ReviewFallsDueKeepsInv == Inv /\ ReviewFallsDue => Inv'
<1> SUFFICES ASSUME Inv, ReviewFallsDue PROVE Inv'
  OBVIOUS
<1>1. UNCHANGED <<memory, up, log, torn, policy, drained, turns>> /\ due' = TRUE
  BY DEF ReviewFallsDue, counts
<1>2. CallsInv'
  BY <1>1, CallsUntouched DEF Inv, memory
<1> QED
  BY <1>1, <1>2 DEF Inv, TypeOK, Typed, TurnIsAhead, memory

LEMMA TurnStartsKeepsInv ==
    ASSUME Inv, NEW s \in Sessions, TurnStarts(s)
    PROVE  Inv'
<1>1. /\ UNCHANGED <<files, broken, up, call, quiet, raced, learning>> /\ up
      /\ task' = [task EXCEPT ![Turn(s)].on = TRUE] /\ turns' = turns + 1
      /\ drained' = drained \ {s}
  BY DEF TurnStarts
<1>2. turns \in Nat /\ quiet \in [Sessions -> Nat] /\ \A r \in Sessions : quiet[r] <= turns
  BY DEF Inv, Typed, TypeOK
<1>3. TypeOK'
  <2>1. task' \in [Tasks -> [on : BOOLEAN, saved : BOOLEAN]]
    BY <1>1 DEF Inv, TypeOK
  <2>2. \A r \in Sessions : quiet'[r] <= turns'
    BY <1>1, <1>2
  <2>3. drained' \subseteq Sessions
    BY <1>1 DEF Inv, TypeOK
  <2> QED
    BY <1>1, <2>1, <2>2, <2>3 DEF Inv, TypeOK, learning
<1>4. Typed' /\ TurnIsAhead'
  BY <1>1, <1>2 DEF Inv, Typed, TurnIsAhead
<1>5. CallsInv'
  BY <1>1, CallsUntouched DEF Inv
<1> QED
  BY <1>3, <1>4, <1>5 DEF Inv

LEMMA TurnEndsKeepsInv ==
    ASSUME Inv, NEW s \in Sessions, NEW how \in {"fine", "missed"}, NEW new \in Seq(Rules),
           TurnEnds(s, how, new)
    PROVE  Inv'
<1>1. /\ UNCHANGED <<files, broken, up, call, raced, torn, turns>> /\ task[Turn(s)].on
      /\ task' = [task EXCEPT ![Turn(s)] = Off] /\ drained' = drained \cup {s}
      /\ quiet' = [quiet EXCEPT ![s] = IF task[Turn(s)].saved THEN 0 ELSE @ + 1]
  BY DEF TurnEnds, counts
<1>2. turns \in Nat /\ quiet \in [Sessions -> Nat] /\ \A r \in Sessions : quiet[r] <= turns
  BY DEF Inv, Typed, TypeOK
<1>3. quiet[s] < turns
  BY <1>1 DEF Inv, TurnIsAhead
<1>4. quiet' \in [Sessions -> Nat] /\ \A r \in Sessions : quiet'[r] <= turns
  BY <1>1, <1>2, <1>3
<1>5. log' \in Seq({"fine", "missed"}) /\ Len(log') <= Window
  <2>1. log' = Newest(Append(log, how), Window)
    BY DEF TurnEnds
  <2>2. Append(log, how) \in Seq({"fine", "missed"})
    BY AppendProperties DEF Inv, TypeOK
  <2>3. Window \in Nat \ {0}
    BY BoundsAssumption
  <2> QED
    BY <2>1, <2>2, <2>3, NewestProperties
<1>6. policy' \in Seq(Rules) /\ IsInjective(policy') /\ Len(policy') <= MaxRules /\ due' \in BOOLEAN
  <2>1. \/ UNCHANGED <<policy, due>>
        \/ due' = FALSE /\ policy' = IF new = <<>> THEN policy ELSE WithRules(new)
    BY DEF TurnEnds, PolicyReview
  <2> QED
    BY <2>1, WithRulesKeepsPolicy DEF Inv, TypeOK
<1>7. TypeOK'
  <2>1. task' \in [Tasks -> [on : BOOLEAN, saved : BOOLEAN]] /\ \A k \in Tasks : task'[k].on => task[k].on
    BY <1>1 DEF Inv, TypeOK, Off
  <2>2. drained' \subseteq Sessions
    BY <1>1 DEF Inv, TypeOK
  <2> QED
    BY <1>1, <1>4, <1>5, <1>6, <2>1, <2>2 DEF Inv, TypeOK
<1>8. Typed' /\ TurnIsAhead'
  <2>1. \A r \in Sessions : task'[Turn(r)].on => r # s /\ task[Turn(r)].on
    BY <1>1, TasksOfSessions DEF Inv, TypeOK, Off
  <2> QED
    BY <1>1, <1>2, <1>4, <2>1 DEF Inv, Typed, TurnIsAhead
<1>9. CallsInv'
  BY <1>1, CallsUntouched DEF Inv
<1> QED
  BY <1>7, <1>8, <1>9 DEF Inv

\* A task that ends without touching files, calls or answers.
LEMMA TaskEndsKeepsInv ==
    ASSUME Inv, NEW k \in Tasks,
           task' = [task EXCEPT ![k] = Off],
           quiet' = quiet \/ \E s \in Sessions : quiet' = [quiet EXCEPT ![s] = 0],
           drained' \subseteq Sessions,
           UNCHANGED <<files, broken, up, call, raced, learning, turns>>
    PROVE  Inv'
<1>1. turns \in Nat /\ quiet \in [Sessions -> Nat] /\ \A r \in Sessions : quiet[r] <= turns
  BY DEF Inv, Typed, TypeOK
<1>2. quiet' \in [Sessions -> Nat] /\ \A r \in Sessions : quiet'[r] <= quiet[r]
  BY <1>1
<1>3. task' \in [Tasks -> [on : BOOLEAN, saved : BOOLEAN]] /\ \A j \in Tasks : task'[j].on => task[j].on
  BY DEF Inv, TypeOK, Off
<1>4. TypeOK'
  <2>1. \A r \in Sessions : quiet'[r] <= turns'
    BY <1>1, <1>2
  <2> QED
    BY <1>3, <2>1 DEF Inv, TypeOK, learning
<1>5. Typed' /\ TurnIsAhead'
  <2>1. \A r \in Sessions : task'[Turn(r)].on => quiet'[r] < turns
    BY <1>1, <1>2, <1>3, TasksOfSessions DEF Inv, TurnIsAhead
  <2> QED
    BY <1>1, <1>2, <2>1 DEF Inv, Typed, TurnIsAhead
<1>6. CallsInv'
  BY CallsUntouched DEF Inv
<1> QED
  BY <1>4, <1>5, <1>6 DEF Inv

LEMMA TurnFailsKeepsInv ==
    ASSUME Inv, NEW s \in Sessions, TurnFails(s)
    PROVE  Inv'
<1>1. drained' \subseteq Sessions /\ Turn(s) \in Tasks
  BY TasksOfSessions DEF TurnFails, Inv, TypeOK
<1> QED
  BY <1>1, TaskEndsKeepsInv DEF TurnFails, counts

LEMMA LateThreadEndsKeepsInv ==
    ASSUME Inv, NEW s \in Sessions, LateThreadEnds(s)
    PROVE  Inv'
<1>1. drained' \subseteq Sessions /\ Late(s) \in Tasks
  BY TasksOfSessions DEF LateThreadEnds, Inv, TypeOK
<1> QED
  BY <1>1, TaskEndsKeepsInv DEF LateThreadEnds, counts

\* The call of a turn that times out goes on in the thread it has left.
LEMMA TurnTimesOutKeepsInv ==
    ASSUME Inv, NEW s \in Sessions, TurnTimesOut(s)
    PROVE  Inv'
<1>1. /\ UNCHANGED <<files, broken, up, quiet, raced, learning, turns>>
      /\ task' = [task EXCEPT ![Turn(s)] = Off, ![Late(s)] = task[Turn(s)]]
      /\ call' = [call EXCEPT ![Turn(s)] = NoCall, ![Late(s)] = call[Turn(s)]]
      /\ drained' = drained \cup {s} /\ task[Turn(s)].on
  BY DEF TurnTimesOut, counts
<1>2. Turn(s) \in Tasks /\ Late(s) \in Tasks /\ Turn(s) # Late(s)
  BY TasksOfSessions
<1>3. task \in [Tasks -> [on : BOOLEAN, saved : BOOLEAN]] /\ call \in [Tasks -> Call] /\ NoCall \in Call
  <2>1. <<>> \in Seq(Facts)
    BY EmptySeq
  <2> QED
    BY <2>1, TargetsAssumption DEF Inv, TypeOK, Typed, Call, NoCall
<1>4. /\ task' \in [Tasks -> [on : BOOLEAN, saved : BOOLEAN]] /\ call' \in [Tasks -> Call]
      /\ task'[Turn(s)] = Off /\ task'[Late(s)] = task[Turn(s)]
      /\ call'[Turn(s)] = NoCall /\ call'[Late(s)] = call[Turn(s)]
      /\ \A k \in Tasks \ {Turn(s), Late(s)} : task'[k] = task[k] /\ call'[k] = call[k]
  BY <1>1, <1>2, <1>3 DEF Off
<1>5. TypeOK'
  <2>1. up
    BY <1>1, <1>2 DEF Inv, TypeOK
  <2>2. \A k \in Tasks : call'[k].pc \in {"none", "check", "write"}
    BY <1>4 DEF Call
  <2>3. drained' \subseteq Sessions
    BY <1>1 DEF Inv, TypeOK
  <2> QED
    BY <1>1, <1>4, <2>1, <2>2, <2>3 DEF Inv, TypeOK, learning
<1>6. Typed' /\ TurnIsAhead'
  <2>1. \A r \in Sessions : task'[Turn(r)].on => task[Turn(r)].on
    BY <1>1, <1>4, TasksOfSessions
  <2> QED
    BY <1>1, <1>4, <2>1 DEF Inv, Typed, TurnIsAhead
<1>7. CallsInv'
  <2>1. \A j \in Tasks : call'[j].pc = "none" \/ \E i \in Tasks : call'[j] = call[i]
    BY <1>2, <1>4 DEF NoCall
  <2> QED
    BY <1>1, <2>1, CallsPassedOn DEF Inv
<1> QED
  BY <1>5, <1>6, <1>7 DEF Inv

LEMMA ReviewStartsKeepsInv ==
    ASSUME Inv, NEW k \in Tasks, ReviewStarts(k), drained' \subseteq Sessions
    PROVE  Inv'
<1>1. /\ UNCHANGED <<files, broken, up, call, quiet, raced, learning, turns>> /\ up
      /\ k \in Reviews /\ task' = [task EXCEPT ![k].on = TRUE]
  BY DEF ReviewStarts, counts
<1>2. task' \in [Tasks -> [on : BOOLEAN, saved : BOOLEAN]]
  BY <1>1 DEF Inv, TypeOK
<1>3. TypeOK'
  BY <1>1, <1>2 DEF Inv, TypeOK, learning
<1>4. Typed' /\ TurnIsAhead'
  <2>1. \A s \in Sessions : task'[Turn(s)] = task[Turn(s)]
    BY <1>1, TasksOfSessions DEF Inv, TypeOK
  <2> QED
    BY <1>1, <2>1 DEF Inv, Typed, TurnIsAhead
<1>5. CallsInv'
  BY <1>1, CallsUntouched DEF Inv
<1> QED
  BY <1>3, <1>4, <1>5 DEF Inv

LEMMA ReviewStepKeepsInv ==
    ASSUME Inv, NEW k \in Tasks, ReviewStep(k)
    PROVE  Inv'
<1>1. drained \subseteq Sessions
  BY DEF Inv, TypeOK
<1>2. CASE ReviewIsDue(k) \/ ReviewIsAsked(k)
  BY <1>1, <1>2, ReviewStartsKeepsInv DEF ReviewIsDue, ReviewIsAsked
<1>3. CASE ReviewEnds(k)
  <2>1. k[2] \in Sessions /\ (quiet' = quiet \/ quiet' = [quiet EXCEPT ![k[2]] = 0])
    BY <1>3, TasksOfSessions DEF ReviewEnds
  <2>2. /\ task' = [task EXCEPT ![k] = Off] /\ drained' \subseteq Sessions
        /\ UNCHANGED <<files, broken, up, call, raced, learning, turns>>
    BY <1>1, <1>3 DEF ReviewEnds, counts
  <2> QED
    BY <2>1, <2>2, TaskEndsKeepsInv
<1>4. CASE ReviewFails(k)
  BY <1>1, <1>4, TaskEndsKeepsInv DEF ReviewFails, counts
<1> QED
  BY <1>2, <1>3, <1>4 DEF ReviewStep

-----------------------------------------------------------------------------
(* The theorems.                                                           *)

LEMMA StepKeepsInv == Inv /\ [Next]_vars => Inv'
<1> SUFFICES ASSUME Inv, [Next]_vars PROVE Inv'
  OBVIOUS
<1>1. CASE Restart
  <2>1. /\ files \in [Targets -> Seq(Facts)] /\ broken \in SUBSET Targets
        /\ raced \in BOOLEAN /\ torn \in BOOLEAN
        /\ Size(files) > Limit => raced
    BY DEF Inv, TypeOK, CallsInv, LimitHolds
  <2>2. Starts(files, broken) /\ torn' = torn /\ raced' = raced
    BY <1>1 DEF Restart
  <2>3. torn' \in BOOLEAN /\ raced' \in BOOLEAN
    BY <2>1, <2>2
  <2>4. Size(files) > Limit => raced'
    BY <2>1, <2>2
  <2> QED
    BY <2>1, <2>2, <2>3, <2>4, StartsKeepsInv
<1>2. CASE ReviewFallsDue
  BY <1>2, ReviewFallsDueKeepsInv
<1>3. ASSUME NEW s \in Sessions, SessionStep(s)
      PROVE  Inv'
  <2>1. CASE TurnStarts(s)
    BY <2>1, TurnStartsKeepsInv
  <2>2. CASE TurnFails(s) \/ TurnTimesOut(s) \/ LateThreadEnds(s)
    BY <2>2, TurnFailsKeepsInv, TurnTimesOutKeepsInv, LateThreadEndsKeepsInv
  <2>3. CASE StopsInLog(s)
    <3>1. /\ files \in [Targets -> Seq(Facts)] /\ broken \in SUBSET Targets /\ raced \in BOOLEAN
          /\ Size(files) > Limit => raced
      BY DEF Inv, TypeOK, CallsInv, LimitHolds
    <3>2. Starts(files, broken) /\ torn' = TRUE /\ raced' = raced
      BY <2>3 DEF StopsInLog
    <3>3. torn' \in BOOLEAN /\ raced' \in BOOLEAN
      BY <3>1, <3>2
    <3>4. Size(files) > Limit => raced'
      BY <3>1, <3>2
    <3> QED
      BY <3>1, <3>2, <3>3, <3>4, StartsKeepsInv
  <2>4. ASSUME NEW how \in {"fine", "missed"}, NEW new \in {<<>>} \cup {<<r>> : r \in Rules},
               TurnEnds(s, how, new)
        PROVE  Inv'
    <3>1. \A r \in Rules : <<r>> \in Seq(Rules)
      OBVIOUS
    <3>2. new \in Seq(Rules)
      BY <3>1, EmptySeq
    <3> QED
      BY <2>4, <3>2, TurnEndsKeepsInv
  <2> QED
    BY <1>3, <2>1, <2>2, <2>3, <2>4 DEF SessionStep
<1>4. ASSUME NEW k \in Tasks, MemoryCall(k)
      PROVE  Inv'
  <2>1. ASSUME NEW t \in Targets, NEW e \in Facts, AddAgain(k, t, e)
        PROVE  Inv'
    BY <2>1, AddAgainKeepsInv
  <2>2. CASE Checks(k)
    BY <2>2, ChecksKeepsInv
  <2>3. CASE Writes(k)
    BY <2>3, WritesKeepsInv
  <2>4. CASE StopsInWrite(k)
    BY <2>4, StopsInWriteKeepsInv
  <2> QED
    BY <1>4, <2>1, <2>2, <2>3, <2>4, CallsKeepInv DEF MemoryCall
<1>5. ASSUME NEW k \in Tasks, ReviewStep(k)
      PROVE  Inv'
  BY <1>5, ReviewStepKeepsInv
<1>6. CASE UNCHANGED vars
  <2>1. CallsInv'
    BY <1>6, CallsUntouched DEF Inv, vars, memory
  <2> QED
    BY <1>6, <2>1
    DEF Inv, TypeOK, Typed, TurnIsAhead, vars, memory, learning, counts
<1> QED
  BY <1>1, <1>2, <1>3, <1>4, <1>5, <1>6 DEF Next

LEMMA Invariance == Spec => []Inv
<1>1. Init => Inv
  BY InitHolds
<1>2. Inv /\ [Next]_vars => Inv'
  BY StepKeepsInv
<1> QED
  BY <1>1, <1>2, PTL DEF Spec

\* Files are lists of facts, the policy repeats no rule and keeps its bound, and
\* nothing runs while the server is down.
THEOREM TypeCorrect == Spec => []TypeOK
<1>1. Inv => TypeOK
  BY DEF Inv
<1> QED
  BY <1>1, Invariance, PTL

\* memory_disk_max_chars is kept by every history without a write that rests on
\* a check another write has overtaken.
THEOREM LimitKept == Spec => []LimitHolds
<1>1. Inv => LimitHolds
  BY DEF Inv, CallsInv
<1> QED
  BY <1>1, Invariance, PTL

\* The files change by a start, a write, or a write that is stopped.
LEMMA FilesChange ==
    ASSUME [Next]_vars
    PROVE  \/ files' = files \/ Starts(files, broken)
           \/ \E k \in Tasks : Writes(k) \/ StopsInWrite(k)
BY DEF Next, vars, memory, Restart, ReviewFallsDue, SessionStep, TurnStarts, TurnEnds, TurnFails,
       TurnTimesOut, LateThreadEnds, StopsInLog, MemoryCall, Add, AddAgain, Replace, Forget, Reads, Checks,
       ReviewStep, ReviewIsDue, ReviewIsAsked, ReviewStarts, ReviewEnds, ReviewFails

Counted == restarts \in Nat

LEMMA RestartsCounted == Spec => []Counted
<1>1. Init => Counted
  BY DEF Init, Counted
<1>2. ASSUME NEW left, NEW unread, Starts(left, unread)
      PROVE  restarts' = restarts + 1
  BY <1>2 DEF Starts
<1>3. Counted /\ [Next]_vars => Counted'
  <2>1. \A k \in Tasks : StopsInWrite(k) => restarts' = restarts + 1
    BY <1>2 DEF StopsInWrite
  <2>2. \A s \in Sessions : StopsInLog(s) => restarts' = restarts + 1
    BY <1>2 DEF StopsInLog
  <2>3. Restart => restarts' = restarts + 1
    BY <1>2 DEF Restart
  <2>4. [Next]_vars => restarts' = restarts \/ restarts' = restarts + 1
    BY <2>1, <2>2, <2>3
    DEF Next, vars, counts, ReviewFallsDue, SessionStep, TurnStarts, TurnEnds, TurnFails, TurnTimesOut,
        LateThreadEnds, MemoryCall, Add, AddAgain, Replace, Forget, Reads, Checks, Writes, ReviewStep,
        ReviewIsDue, ReviewIsAsked, ReviewStarts, ReviewEnds, ReviewFails
  <2> QED
    BY <2>4 DEF Counted
<1> QED
  BY <1>1, <1>3, PTL DEF Spec

LEMMA FactsLeaveStep ==
    ASSUME Inv, Counted, [Next]_vars, NEW t \in Targets, NEW f \in FactsIn(t) \ ToSet(files'[t])
    PROVE  \E k \in Tasks : /\ call[k].pc = "write" /\ call[k].target = t
                            /\ \/ f \in call[k].cut \/ call[k].moved
                               \/ restarts' # restarts
<1>1. CASE files' = files
  BY <1>1 DEF FactsIn
<1>2. CASE Starts(files, broken)
  BY <1>2, StartsMigrates DEF Inv, TypeOK, FactsIn
<1>3. ASSUME NEW k \in Tasks, Writes(k)
      PROVE  /\ call[k].pc = "write" /\ call[k].target = t
             /\ f \in call[k].cut \/ call[k].moved
  <2>1. /\ files \in [Targets -> Seq(Facts)] /\ call[k].target \in Targets
        /\ files' = [files EXCEPT ![call[k].target] = call[k].new] /\ call[k].pc = "write"
    BY <1>3 DEF Inv, TypeOK, Typed, Call, Writes, Stored
  <2>2. call[k].target = t
    BY <2>1 DEF FactsIn
  <2>3. f \in FactsIn(call[k].target) \ ToSet(call[k].new)
    BY <2>1, <2>2
  <2> QED
    BY <2>1, <2>2, <2>3 DEF Inv, CallsInv, CutsAreAsked
<1>4. ASSUME NEW k \in Tasks, StopsInWrite(k)
      PROVE  call[k].pc = "write" /\ call[k].target = t /\ restarts' # restarts
  <2> DEFINE c == call[k]
             Cut(n) == [files EXCEPT ![c.target] = SubSeq(c.new, 1, n)]
  <2>1. /\ files \in [Targets -> Seq(Facts)] /\ c.target \in Targets /\ c.new \in Seq(Facts)
        /\ c.pc = "write"
    BY <1>4 DEF Inv, TypeOK, Typed, Call, StopsInWrite
  <2>2. 0 \in 0..Len(c.new)
    BY <2>1, LenProperties
  <2>3. PICK n \in 0..Len(c.new) : \E unread : Starts(Cut(n), unread)
    BY <1>4, <2>2 DEF StopsInWrite
  <2>4. PICK unread : Starts(Cut(n), unread)
    BY <2>3
  <2>5. Cut(n) \in [Targets -> Seq(Facts)]
    BY <2>1, CutIsNoLarger
  <2>6. t # c.target => Cut(n)[t] = files[t]
    BY <2>1
  <2>7. ToSet(Cut(n)[t]) \subseteq ToSet(files'[t])
    <3> HIDE DEF Cut
    <3> QED
      BY <2>4, <2>5, StartsMigrates
  <2>8. restarts' = restarts + 1 /\ restarts \in Nat
    BY <2>4 DEF Starts, Counted
  <2> QED
    BY <2>1, <2>6, <2>7, <2>8 DEF FactsIn
<1> QED
  BY <1>1, <1>2, <1>3, <1>4, FilesChange

\* A fact leaves its file only when the call that writes the file asked for it,
\* had read before somebody else's write, or is stopped in its write.
THEOREM FactsOnlyOnRequest == Spec => FactsLeaveOnRequest
<1>1. Inv /\ Counted /\ [Next]_vars =>
        [\A t \in Targets : \A f \in FactsIn(t) \ ToSet(files'[t]) :
            \E k \in Tasks : /\ call[k].pc = "write" /\ call[k].target = t
                             /\ \/ f \in call[k].cut \/ call[k].moved
                                \/ restarts' # restarts]_vars
  BY FactsLeaveStep
<1> QED
  BY <1>1, Invariance, RestartsCounted, PTL DEF Spec, FactsLeaveOnRequest

=============================================================================
