-------------------------- MODULE ExcitedGroupsProofs --------------------------
(***************************************************************************)
(* Proofs about ExcitedGroups, for every map and any number of groups.     *)
(*                                                                         *)
(* A call passes a record of pointers, lists and cooldowns from operator   *)
(* to operator.  Good says what every such record keeps; one lemma per     *)
(* operator shows that it does, and one that Become makes it the state.    *)
(***************************************************************************)
EXTENDS ExcitedGroups, SequenceTheorems, FiniteSetTheorems, TLAPS

Records ==
  [ptr : [Turfs -> Groups \cup {None}], list : [Groups -> Seq(Turfs)],
   brk : [Groups -> Int], dis : [Groups -> Int], all : Seq(Groups)]

\* No tile twice in one list, and none in two.
Apart(list) ==
  \A g, h \in Groups : \A i \in DOMAIN list[g], j \in DOMAIN list[h] :
    list[g][i] = list[h][j] => g = h /\ i = j

\* A tile in a list has a group.
Owned(ptr, list) ==
  \A g \in Groups : \A t \in Elements(list[g]) : ptr[t] # None

\* The controller knows each group once, and every group that lives.
Known(ptr, all) ==
  /\ IsInjective(all)
  /\ \A t \in Turfs : ptr[t] # None => ptr[t] \in Elements(all)

Good(now) ==
  /\ now \in Records
  /\ Apart(now.list)
  /\ Owned(now.ptr, now.list)
  /\ Known(now.ptr, now.all)

\* The lists say what the pointers say.
Agree(now) ==
  \A g \in Groups : Elements(now.list[g]) = {t \in Turfs : now.ptr[t] = g}

\* b is as good as a: what each operator has to keep.
AsGood(a, b) == Good(b) /\ (Agree(a) => Agree(b))

-----------------------------------------------------------------------------
(***************************************************************************)
(* Sequences.                                                              *)
(***************************************************************************)

LEMMA ElementsAre ==
  ASSUME NEW S, NEW l \in Seq(S)
  PROVE  /\ DOMAIN l = 1 .. Len(l) /\ Len(l) \in Nat
         /\ Elements(l) \subseteq S
         /\ \A i \in 1 .. Len(l) : l[i] \in Elements(l)
         /\ \A e \in Elements(l) : \E i \in 1 .. Len(l) : l[i] = e
  BY DEF Elements

LEMMA EmptyElements == Elements(<<>>) = {}
  BY DEF Elements

LEMMA ElementsAppend ==
  ASSUME NEW S, NEW l \in Seq(S), NEW e \in S
  PROVE  Elements(Append(l, e)) = Elements(l) \cup {e}
<1> DEFINE a == Len(l)
           r == Append(l, e)
<1>1. /\ a \in Nat /\ r \in Seq(S) /\ Len(r) = a + 1
      /\ \A i \in 1 .. a : r[i] = l[i]
      /\ r[a + 1] = e
  BY AppendProperties
<1>2. DOMAIN r = 1 .. a + 1 /\ DOMAIN l = 1 .. a
  BY <1>1
<1> HIDE DEF a, r
<1>3. \A x \in Elements(r) : x \in Elements(l) \cup {e}
  BY <1>1, <1>2 DEF Elements
<1>4. \A i \in 1 .. a : i \in 1 .. a + 1 /\ a + 1 \in 1 .. a + 1
  BY <1>1
<1>5. \A x \in Elements(l) : x \in Elements(r)
  BY <1>1, <1>2, <1>4 DEF Elements
<1>6. e \in Elements(r)
  <2>1. a + 1 \in DOMAIN r
    BY <1>1, <1>2
  <2>2. QED
    BY <1>1, <2>1 DEF Elements
<1>7. QED
  BY <1>3, <1>5, <1>6 DEF r

LEMMA ElementsConcat ==
  ASSUME NEW S, NEW l \in Seq(S), NEW m \in Seq(S)
  PROVE  Elements(l \o m) = Elements(l) \cup Elements(m)
<1> DEFINE a == Len(l)
           b == Len(m)
           r == l \o m
<1>1. /\ a \in Nat /\ b \in Nat /\ r \in Seq(S) /\ Len(r) = a + b
      /\ \A i \in 1 .. a + b : r[i] = IF i <= a THEN l[i] ELSE m[i - a]
  BY ConcatProperties
<1>2. DOMAIN r = 1 .. a + b /\ DOMAIN l = 1 .. a /\ DOMAIN m = 1 .. b
  BY <1>1
<1> HIDE DEF a, b, r
<1>3. ASSUME NEW i \in 1 .. a + b
      PROVE  r[i] \in Elements(l) \cup Elements(m)
  <2>1. CASE i <= a
    <3>1. i \in 1 .. a /\ r[i] = l[i]
      BY <1>1, <2>1
    <3>2. QED
      BY <1>2, <3>1 DEF Elements
  <2>2. CASE ~ (i <= a)
    <3>1. i - a \in 1 .. b /\ r[i] = m[i - a]
      BY <1>1, <2>2, SMTT(30)
    <3>2. QED
      BY <1>2, <3>1 DEF Elements
  <2>3. QED
    BY <2>1, <2>2
<1>4. ASSUME NEW i \in 1 .. a
      PROVE  l[i] \in Elements(r)
  <2>1. i \in 1 .. a + b /\ r[i] = l[i]
    BY <1>1
  <2>2. QED
    BY <1>2, <2>1 DEF Elements
<1>5. ASSUME NEW i \in 1 .. b
      PROVE  m[i] \in Elements(r)
  <2>1. a + i \in 1 .. a + b /\ ~ (a + i <= a) /\ (a + i) - a = i
    BY <1>1
  <2>2. r[a + i] = m[i]
    BY <1>1, <2>1
  <2>3. QED
    BY <1>2, <2>1, <2>2 DEF Elements
<1>6. Elements(r) \subseteq Elements(l) \cup Elements(m)
  BY <1>2, <1>3 DEF Elements
<1>7. Elements(l) \subseteq Elements(r) /\ Elements(m) \subseteq Elements(r)
  <2>1. /\ Elements(l) = {l[i] : i \in 1 .. a}
        /\ Elements(m) = {m[i] : i \in 1 .. b}
    BY <1>2 DEF Elements
  <2>2. QED
    BY <1>4, <1>5, <2>1
<1>8. QED
  BY <1>6, <1>7 DEF r

(* A new element goes to the end of a sequence without repetitions.          *)
LEMMA OnceAppend ==
  ASSUME NEW S, NEW l \in Seq(S), NEW e \in S, IsInjective(l), e \notin Elements(l)
  PROVE  IsInjective(Append(l, e))
<1> DEFINE a == Len(l)
           r == Append(l, e)
<1>1. /\ a \in Nat /\ r \in Seq(S) /\ Len(r) = a + 1
      /\ \A i \in 1 .. a : r[i] = l[i]
      /\ r[a + 1] = e
  BY AppendProperties
<1>2. DOMAIN r = 1 .. a + 1 /\ DOMAIN l = 1 .. a
  BY <1>1
<1> HIDE DEF a, r
<1>3. \A i \in 1 .. a + 1 : i \in 1 .. a \/ i = a + 1
  BY <1>1
<1>4. \A i \in 1 .. a : r[i] # e
  BY <1>1, <1>2 DEF Elements
<1>5. \A i, j \in 1 .. a : r[i] = r[j] => i = j
  BY <1>1, <1>2 DEF IsInjective
<1>6. \A i, j \in 1 .. a + 1 : r[i] = r[j] => i = j
  BY <1>1, <1>3, <1>4, <1>5
<1>7. QED
  BY <1>2, <1>6 DEF IsInjective, r

(* What is left of a sequence: its elements that live, once if it had them   *)
(* once.                                                                     *)
LEMMA KeptProperties ==
  ASSUME NEW S, NEW l \in Seq(S), NEW alive, NEW q \in Kept(l, alive)
  PROVE  /\ q \in Seq(S)
         /\ Elements(q) = Elements(l) \cap alive
         /\ IsInjective(l) => IsInjective(q)
<1>1. PICK n \in 0 .. Len(l) : \E k \in [1 .. n -> DOMAIN l] :
        /\ Rising(k)
        /\ Elements(k) = {i \in DOMAIN l : l[i] \in alive}
        /\ q = [i \in DOMAIN k |-> l[k[i]]]
  BY DEF Kept
<1>k. PICK k \in [1 .. n -> DOMAIN l] :
        /\ Rising(k)
        /\ Elements(k) = {i \in DOMAIN l : l[i] \in alive}
        /\ q = [i \in DOMAIN k |-> l[k[i]]]
  BY <1>1
<1>2. n \in Nat /\ DOMAIN k = 1 .. n /\ DOMAIN q = 1 .. n
  BY <1>k
<1>3. \A i \in 1 .. n : k[i] \in DOMAIN l /\ q[i] = l[k[i]] /\ q[i] \in S
  BY <1>k, <1>2, ElementsAre
<1>4. q \in Seq(S)
  <2>1. q \in [1 .. n -> S]
    BY <1>k, <1>2, <1>3
  <2>2. QED
    BY <1>2, <2>1, SeqDef
<1>5. Elements(q) = {l[k[i]] : i \in 1 .. n} /\ Elements(k) = {k[i] : i \in 1 .. n}
  BY <1>2, <1>3 DEF Elements
<1>6. Elements(q) = Elements(l) \cap alive
  <2>1. \A e \in Elements(q) : e \in Elements(l) /\ e \in alive
    BY <1>k, <1>3, <1>5 DEF Elements
  <2>2. \A e \in Elements(l) : e \in alive => e \in Elements(q)
    <3> SUFFICES ASSUME NEW m \in DOMAIN l, l[m] \in alive
                 PROVE  l[m] \in Elements(q)
      BY DEF Elements
    <3>1. m \in {k[i] : i \in 1 .. n}
      BY <1>k, <1>5
    <3>2. QED
      BY <1>5, <3>1
  <2>3. QED
    BY <2>1, <2>2
<1>7. ASSUME IsInjective(l), NEW i \in 1 .. n, NEW j \in 1 .. n, q[i] = q[j]
      PROVE  i = j
  <2>1. k[i] = k[j]
    BY <1>3, <1>7 DEF IsInjective
  <2>2. k[i] \in Int
    BY <1>3
  <2>3. ~ (i < j) /\ ~ (j < i)
    BY <1>k, <1>2, <2>1, <2>2 DEF Rising
  <2>4. QED
    BY <2>3
<1>8. IsInjective(l) => IsInjective(q)
  BY <1>2, <1>7 DEF IsInjective
<1>9. QED
  BY <1>4, <1>6, <1>8

LEMMA OnceCounts ==
  ASSUME NEW S, NEW l \in Seq(S), IsInjective(l)
  PROVE  Cardinality(Elements(l)) = Len(l)
<1>1. DOMAIN l = 1 .. Len(l) /\ Len(l) \in Nat /\ l \in [1 .. Len(l) -> S]
  BY ElementsAre
<1>2. l \in Bijection(1 .. Len(l), Elements(l))
  <2>1. l \in [1 .. Len(l) -> Elements(l)]
    BY <1>1, ElementsAre
  <2>2. l \in Injection(1 .. Len(l), Elements(l))
    BY <1>1, <2>1 DEF IsInjective, Injection
  <2>3. l \in Surjection(1 .. Len(l), Elements(l))
    BY <1>1, <2>1 DEF Elements, Surjection
  <2>4. QED
    BY <2>2, <2>3 DEF Bijection
<1>3. ExistsBijection(1 .. Len(l), Elements(l))
  BY <1>2 DEF ExistsBijection
<1>4. QED
  BY <1>1, <1>3, FS_CountingElements

-----------------------------------------------------------------------------
(***************************************************************************)
(* The operators.                                                          *)
(***************************************************************************)

\* Only the cooldowns differ.
SameGroups(a, b) ==
  b \in Records /\ b.ptr = a.ptr /\ b.list = a.list /\ b.all = a.all

LEMMA SameIsAsGood ==
  ASSUME NEW a, NEW b, Good(a), SameGroups(a, b)
  PROVE  AsGood(a, b)
  BY DEF AsGood, Good, Agree, SameGroups

LEMMA ZeroKeeps ==
  ASSUME NEW f \in [Groups -> Int], NEW g
  PROVE  [f EXCEPT ![g] = 0] \in [Groups -> Int]
<1>1. \A h \in Groups : [f EXCEPT ![g] = 0][h] = IF h = g THEN 0 ELSE f[h]
  OBVIOUS
<1>2. [f EXCEPT ![g] = 0] = [h \in Groups |-> IF h = g THEN 0 ELSE f[h]]
  BY <1>1
<1>3. \A h \in Groups : (IF h = g THEN 0 ELSE f[h]) \in Int
  OBVIOUS
<1>4. [h \in Groups |-> IF h = g THEN 0 ELSE f[h]] \in [Groups -> Int]
  BY <1>3, Zenon
<1>5. QED
  BY <1>2, <1>4, Zenon

LEMMA ResetKeeps ==
  ASSUME NEW now \in Records, NEW g
  PROVE  SameGroups(now, ResetCooldowns(now, g))
<1> DEFINE brk == [now.brk EXCEPT ![g] = 0]
           dis == [now.dis EXCEPT ![g] = 0]
<1>1. brk \in [Groups -> Int] /\ dis \in [Groups -> Int]
  BY ZeroKeeps DEF Records
<1>2. ResetCooldowns(now, g) = [now EXCEPT !.brk = brk, !.dis = dis]
  BY DEF Records, ResetCooldowns
<1> HIDE DEF brk, dis
<1>3. QED
  BY <1>1, <1>2 DEF SameGroups, Records

LEMMA ShareKeeps ==
  ASSUME NEW now \in Records, NEW t, NEW share
  PROVE  SameGroups(now, LastShareCheck(now, t, share))
<1> DEFINE dis == [now.dis EXCEPT ![now.ptr[t]] = 0]
<1>1. dis \in [Groups -> Int]
  BY ZeroKeeps DEF Records
<1>2. [now EXCEPT !.dis[now.ptr[t]] = 0] = [now EXCEPT !.dis = dis]
  BY DEF Records
<1> HIDE DEF dis
<1>3. SameGroups(now, [now EXCEPT !.dis = dis]) /\ SameGroups(now, now)
  BY <1>1 DEF SameGroups, Records
<1>4. QED
  BY <1>2, <1>3, ResetKeeps DEF LastShareCheck

LEMMA BreakdownKeeps ==
  ASSUME NEW now \in Records, NEW g
  PROVE  SameGroups(now, SelfBreakdown(now, g))
<1> DEFINE brk == [now.brk EXCEPT ![g] = 0]
<1>1. brk \in [Groups -> Int]
  BY ZeroKeeps DEF Records
<1>2. [now EXCEPT !.brk[g] = 0] = [now EXCEPT !.brk = brk]
  BY DEF Records
<1> HIDE DEF brk
<1>3. SameGroups(now, [now EXCEPT !.brk = brk]) /\ SameGroups(now, now)
  BY <1>1 DEF SameGroups, Records
<1>4. QED
  BY <1>2, <1>3 DEF SelfBreakdown

LEMMA AsGoodTransitive ==
  ASSUME NEW a, NEW b, NEW c, AsGood(a, b), AsGood(b, c)
  PROVE  AsGood(a, c)
  BY DEF AsGood

(* A new group: the controller knows it before a tile points to it.          *)
LEMMA InitializeGood ==
  ASSUME NEW now, Good(now), NEW g \in Groups, g \notin Elements(now.all)
  PROVE  /\ AsGood(now, Initialize(now, g))
         /\ g \in Elements(Initialize(now, g).all)
         /\ Initialize(now, g).ptr = now.ptr
<1> DEFINE new == Initialize(now, g)
<1>1. /\ new \in Records /\ new.ptr = now.ptr /\ new.list = now.list
      /\ new.all = Append(now.all, g) /\ now.all \in Seq(Groups)
  <2>1. Append(now.all, g) \in Seq(Groups)
    BY DEF Good, Records
  <2>2. QED
    BY <2>1 DEF Initialize, Records, Good
<1>2. Elements(new.all) = Elements(now.all) \cup {g} /\ IsInjective(new.all)
  BY <1>1, ElementsAppend, OnceAppend DEF Good, Known
<1> HIDE DEF new
<1>3. Good(new)
  BY <1>1, <1>2 DEF Good, Known
<1>4. Agree(now) => Agree(new)
  BY <1>1 DEF Agree
<1>5. QED
  BY <1>1, <1>2, <1>3, <1>4 DEF AsGood, new

(* A tile without a group is in no list, so it may go to the end of one.     *)
LEMMA AddTurfGood ==
  ASSUME NEW now, Good(now), NEW g \in Groups, g \in Elements(now.all),
         NEW t \in Turfs, now.ptr[t] = None
  PROVE  AsGood(now, AddTurf(now, g, t)) /\ AddTurf(now, g, t).all = now.all
         /\ AddTurf(now, g, t).ptr = [now.ptr EXCEPT ![t] = g]
<1> DEFINE mid == [now EXCEPT !.list[g] = Append(@, t), !.ptr[t] = g]
           l == now.list[g]
<1>1. /\ now.ptr \in [Turfs -> Groups \cup {None}]
      /\ now.list \in [Groups -> Seq(Turfs)] /\ l \in Seq(Turfs)
      /\ None \notin Groups
  BY GroupsAssumption DEF Good, Records
<1>2. Append(l, t) \in Seq(Turfs)
  BY <1>1
<1>3. /\ mid.ptr = [now.ptr EXCEPT ![t] = g]
      /\ mid.list = [now.list EXCEPT ![g] = Append(l, t)]
      /\ mid.all = now.all /\ mid \in Records
  BY <1>1, <1>2 DEF Good, Records
<1>4. /\ mid.ptr[t] = g /\ \A u \in Turfs \ {t} : mid.ptr[u] = now.ptr[u]
      /\ mid.list[g] = Append(l, t)
      /\ \A h \in Groups \ {g} : mid.list[h] = now.list[h]
  BY <1>1, <1>3
<1>5. \A h \in Groups : t \notin Elements(now.list[h])
  BY GroupsAssumption DEF Good, Owned
<1>6. Elements(mid.list[g]) = Elements(l) \cup {t}
  BY <1>1, <1>4, ElementsAppend
<1> HIDE DEF mid
<1>7. Apart(mid.list)
  <2>1. IsInjective(mid.list[g])
    <3>1. IsInjective(l)
      BY DEF Good, Apart, IsInjective
    <3>2. QED
      BY <1>1, <1>4, <1>5, <3>1, OnceAppend
  <2>2. ASSUME NEW h \in Groups \ {g}, NEW i \in DOMAIN mid.list[h],
               NEW j \in DOMAIN mid.list[g]
        PROVE  mid.list[h][i] # mid.list[g][j]
    <3>1. mid.list[h][i] \in Elements(now.list[h]) /\ i \in DOMAIN now.list[h]
          /\ mid.list[h][i] = now.list[h][i]
      BY <1>4, <2>2 DEF Elements
    <3>2. mid.list[g][j] \in Elements(l) \cup {t}
      BY <1>6, <2>2 DEF Elements
    <3>3. mid.list[h][i] \notin Elements(l)
      BY <3>1 DEF Good, Apart, Elements
    <3>4. mid.list[h][i] # t
      BY <1>5, <3>1
    <3>5. QED
      BY <3>2, <3>3, <3>4
  <2>3. SUFFICES ASSUME NEW h \in Groups, NEW k \in Groups,
                        NEW i \in DOMAIN mid.list[h], NEW j \in DOMAIN mid.list[k],
                        mid.list[h][i] = mid.list[k][j]
                 PROVE  h = k /\ i = j
    BY DEF Apart
  <2>4. CASE h = g /\ k = g
    BY <2>1, <2>3, <2>4 DEF IsInjective
  <2>5. CASE h # g /\ k = g
    BY <2>2, <2>3, <2>5
  <2>6. CASE h = g /\ k # g
    BY <2>2, <2>3, <2>6
  <2>7. CASE h # g /\ k # g
    BY <1>4, <2>3, <2>7 DEF Good, Apart
  <2>8. QED
    BY <2>4, <2>5, <2>6, <2>7
<1>8. Owned(mid.ptr, mid.list)
  <2> SUFFICES ASSUME NEW h \in Groups, NEW u \in Elements(mid.list[h])
               PROVE  mid.ptr[u] # None
    BY DEF Owned
  <2>1. u = t \/ u \in Elements(now.list[h])
    BY <1>4, <1>6
  <2>2. u \in Turfs
    BY <1>1, <2>1, ElementsAre
  <2>3. u # t => now.ptr[u] # None
    BY <2>1 DEF Good, Owned
  <2>4. QED
    BY <1>1, <1>4, <2>2, <2>3
<1>9. Known(mid.ptr, mid.all)
  BY <1>3, <1>4 DEF Good, Known
<1>10. Good(mid)
  BY <1>3, <1>7, <1>8, <1>9 DEF Good
<1>11. Agree(now) => Agree(mid)
  <2> SUFFICES ASSUME Agree(now), NEW h \in Groups
               PROVE  Elements(mid.list[h]) = {u \in Turfs : mid.ptr[u] = h}
    BY DEF Agree
  <2>1. Elements(now.list[h]) = {u \in Turfs : now.ptr[u] = h}
    BY DEF Agree
  <2>2. CASE h = g
    BY <1>1, <1>4, <1>6, <2>1, <2>2
  <2>3. CASE h # g
    BY <1>1, <1>4, <2>1, <2>3
  <2>4. QED
    BY <2>2, <2>3
<1>12. AddTurf(now, g, t) = ResetCooldowns(mid, g)
  BY DEF AddTurf, mid
<1>13. SameGroups(mid, AddTurf(now, g, t))
  BY <1>3, <1>12, ResetKeeps
<1>14. AsGood(now, AddTurf(now, g, t))
  BY <1>10, <1>11, <1>13, SameIsAsGood DEF AsGood
<1>15. QED
  BY <1>3, <1>13, <1>14 DEF SameGroups

LEMMA AddUngroupedGood ==
  ASSUME NEW now, Good(now), NEW g \in Groups, g \in Elements(now.all),
         NEW t \in Turfs
  PROVE  /\ AsGood(now, AddUngrouped(now, g, t))
         /\ AddUngrouped(now, g, t).all = now.all
         /\ AddUngrouped(now, g, t).ptr =
              IF now.ptr[t] = None THEN [now.ptr EXCEPT ![t] = g] ELSE now.ptr
  BY AddTurfGood DEF AddUngrouped, AsGood

LEMMA OnceConcat ==
  ASSUME NEW S, NEW l \in Seq(S), NEW m \in Seq(S),
         IsInjective(l), IsInjective(m), Elements(l) \cap Elements(m) = {}
  PROVE  IsInjective(l \o m)
<1> DEFINE a == Len(l)
           b == Len(m)
           r == l \o m
<1>1. /\ a \in Nat /\ b \in Nat /\ r \in Seq(S) /\ Len(r) = a + b
      /\ \A i \in 1 .. a + b : r[i] = IF i <= a THEN l[i] ELSE m[i - a]
  BY ConcatProperties
<1>2. DOMAIN r = 1 .. a + b /\ DOMAIN l = 1 .. a /\ DOMAIN m = 1 .. b
  BY <1>1
<1> HIDE DEF a, b, r
<1>3. /\ \A i \in 1 .. a : l[i] \in Elements(l)
      /\ \A i \in 1 .. b : m[i] \in Elements(m)
  BY <1>2 DEF Elements
<1>4. \A i, j \in 1 .. a : l[i] = l[j] => i = j
  BY <1>2 DEF IsInjective
<1>5. \A i, j \in 1 .. b : m[i] = m[j] => i = j
  BY <1>2 DEF IsInjective
<1>6. ASSUME NEW i \in 1 .. a + b, NEW j \in 1 .. a + b, r[i] = r[j]
      PROVE  i = j
  <2>1. CASE i <= a /\ j <= a
    <3>1. i \in 1 .. a /\ j \in 1 .. a /\ l[i] = l[j]
      BY <1>1, <1>6, <2>1
    <3>2. QED
      BY <1>4, <3>1
  <2>2. CASE ~ (i <= a) /\ ~ (j <= a)
    <3>1. i - a \in 1 .. b /\ j - a \in 1 .. b /\ m[i - a] = m[j - a]
      BY <1>1, <1>6, <2>2
    <3>2. i - a = j - a
      BY <1>5, <3>1
    <3>3. QED
      BY <1>1, <3>2
  <2>3. CASE i <= a /\ ~ (j <= a)
    <3>1. i \in 1 .. a /\ j - a \in 1 .. b /\ l[i] = m[j - a]
      BY <1>1, <1>6, <2>3
    <3>2. QED
      BY <1>3, <3>1
  <2>4. CASE ~ (i <= a) /\ j <= a
    <3>1. j \in 1 .. a /\ i - a \in 1 .. b /\ l[j] = m[i - a]
      BY <1>1, <1>6, <2>4
    <3>2. QED
      BY <1>3, <3>1
  <2>5. QED
    BY <2>1, <2>2, <2>3, <2>4
<1>7. QED
  BY <1>2, <1>6 DEF IsInjective, r

(* No tile in two lists, and none twice in one.                              *)
LEMMA ApartIff ==
  ASSUME NEW list \in [Groups -> Seq(Turfs)]
  PROVE  Apart(list) <=>
           /\ \A g \in Groups : IsInjective(list[g])
           /\ \A g, h \in Groups : g # h => Elements(list[g]) \cap Elements(list[h]) = {}
<1>1. ASSUME Apart(list), NEW g \in Groups
      PROVE  IsInjective(list[g])
  BY <1>1 DEF Apart, IsInjective
<1>2. ASSUME Apart(list), NEW g \in Groups, NEW h \in Groups, g # h
      PROVE  Elements(list[g]) \cap Elements(list[h]) = {}
  BY <1>2 DEF Apart, Elements
<1>3. ASSUME \A g \in Groups : IsInjective(list[g]),
             \A g, h \in Groups : g # h => Elements(list[g]) \cap Elements(list[h]) = {},
             NEW g \in Groups, NEW h \in Groups,
             NEW i \in DOMAIN list[g], NEW j \in DOMAIN list[h], list[g][i] = list[h][j]
      PROVE  g = h /\ i = j
  <2>1. list[g][i] \in Elements(list[g]) /\ list[h][j] \in Elements(list[h])
    BY DEF Elements
  <2>2. g = h
    BY <1>3, <2>1
  <2>3. QED
    BY <1>3, <2>2 DEF IsInjective
<1>4. QED
  BY <1>1, <1>2, <1>3 DEF Apart

\* The tiles of one list are pointed to the other group, and the list goes to
\* the end of the other's.
Absorbs(now, new, from, into) ==
  /\ new \in Records
  /\ new.ptr = Point(now.ptr, Elements(now.list[from]), into)
  /\ new.list[into] = now.list[into] \o now.list[from]
  /\ new.list[from] = <<>>
  /\ \A h \in Groups \ {into, from} : new.list[h] = now.list[h]
  /\ new.all = now.all

LEMMA AbsorbGood ==
  ASSUME NEW now, Good(now), NEW from \in Groups, NEW into \in Groups, from # into,
         into \in Elements(now.all), NEW new, Absorbs(now, new, from, into)
  PROVE  AsGood(now, new)
<1> DEFINE l == now.list[into]
           m == now.list[from]
<1>1. /\ now.ptr \in [Turfs -> Groups \cup {None}]
      /\ now.list \in [Groups -> Seq(Turfs)] /\ new.list \in [Groups -> Seq(Turfs)]
      /\ l \in Seq(Turfs) /\ m \in Seq(Turfs) /\ None \notin Groups
  BY GroupsAssumption DEF Absorbs, Good, Records
<1>2. /\ new.list[into] = l \o m /\ new.list[from] = <<>>
      /\ \A h \in Groups \ {into, from} : new.list[h] = now.list[h]
  BY DEF Absorbs
<1>3. /\ \A u \in Elements(m) : u \in Turfs => new.ptr[u] = into
      /\ \A u \in Turfs \ Elements(m) : new.ptr[u] = now.ptr[u]
  BY DEF Absorbs, Point
<1>4. /\ Elements(new.list[into]) = Elements(l) \cup Elements(m)
      /\ Elements(new.list[from]) = {}
      /\ \A h \in Groups \ {into, from} :
           Elements(new.list[h]) = Elements(now.list[h])
  <2>1. Elements(l \o m) = Elements(l) \cup Elements(m)
    <3> HIDE DEF l, m
    <3>1. QED
      BY <1>1, ElementsConcat
  <2>2. QED
    BY <1>2, <2>1, EmptyElements
<1>5. /\ \A h \in Groups : IsInjective(now.list[h])
      /\ \A h, k \in Groups : h # k => Elements(now.list[h]) \cap Elements(now.list[k]) = {}
  BY <1>1, ApartIff DEF Good
<1>6. Elements(m) \subseteq Turfs /\ Elements(l) \subseteq Turfs
  BY <1>1, ElementsAre
<1>7. Apart(new.list)
  <2>1. \A h \in Groups : IsInjective(new.list[h])
    <3>1. IsInjective(new.list[into])
      <4>1. IsInjective(l) /\ IsInjective(m) /\ Elements(l) \cap Elements(m) = {}
        BY <1>5
      <4>2. IsInjective(l \o m)
        <5> HIDE DEF l, m
        <5>1. QED
          BY <1>1, <4>1, OnceConcat
      <4>3. QED
        BY <1>2, <4>2
    <3>2. IsInjective(new.list[from])
      BY <1>2 DEF IsInjective
    <3>3. QED
      BY <1>2, <1>5, <3>1, <3>2
  <2>2. \A h, k \in Groups : h # k => Elements(new.list[h]) \cap Elements(new.list[k]) = {}
    <3> SUFFICES ASSUME NEW h \in Groups, NEW k \in Groups, h # k,
                        NEW u, u \in Elements(new.list[h]), u \in Elements(new.list[k])
                 PROVE  FALSE
      OBVIOUS
    <3>1. h # from /\ k # from
      BY <1>4
    <3>2. CASE h = into
      <4>1. (u \in Elements(l) \/ u \in Elements(m)) /\ u \in Elements(now.list[k])
        BY <1>4, <3>1, <3>2
      <4>2. QED
        BY <1>5, <3>1, <3>2, <4>1
    <3>3. CASE k = into
      <4>1. (u \in Elements(l) \/ u \in Elements(m)) /\ u \in Elements(now.list[h])
        BY <1>4, <3>1, <3>3
      <4>2. QED
        BY <1>5, <3>1, <3>3, <4>1
    <3>4. CASE h # into /\ k # into
      BY <1>4, <1>5, <3>1, <3>4
    <3>5. QED
      BY <3>2, <3>3, <3>4
  <2>3. QED
    BY <1>1, <2>1, <2>2, ApartIff
<1>8. Owned(new.ptr, new.list)
  <2> SUFFICES ASSUME NEW h \in Groups, NEW u \in Elements(new.list[h])
               PROVE  new.ptr[u] # None
    BY DEF Owned
  <2>1. \E k \in Groups : u \in Elements(now.list[k])
    BY <1>4
  <2>2. u \in Turfs /\ now.ptr[u] # None
    BY <1>1, <2>1, ElementsAre DEF Good, Owned
  <2>3. QED
    BY <1>1, <1>3, <2>2
<1>9. Known(new.ptr, new.all)
  BY <1>3 DEF Absorbs, Good, Known
<1>10. Agree(now) => Agree(new)
  <2> SUFFICES ASSUME Agree(now), NEW h \in Groups
               PROVE  Elements(new.list[h]) = {u \in Turfs : new.ptr[u] = h}
    BY DEF Agree
  <2>1. \A k \in Groups : Elements(now.list[k]) = {u \in Turfs : now.ptr[u] = k}
    BY DEF Agree
  <2>2. CASE h = into
    BY <1>3, <1>4, <1>6, <2>1, <2>2
  <2>3. CASE h = from
    BY <1>3, <1>4, <2>1, <2>3
  <2>4. CASE h # into /\ h # from
    <3>1. \A u \in Turfs : new.ptr[u] = h <=> now.ptr[u] = h
      BY <1>3, <2>1, <2>4
    <3>2. QED
      BY <1>4, <2>1, <2>4, <3>1
  <2>5. QED
    BY <2>2, <2>3, <2>4
<1>11. QED
  BY <1>7, <1>8, <1>9, <1>10 DEF AsGood, Good, Absorbs

(* The merge that assigns to the pointer it reads from loses a list, no more. *)
LEMMA AliasedGood ==
  ASSUME NEW now, Good(now), NEW us \in Groups, us \in Elements(now.all),
         NEW enemy
  PROVE  Good(IntoUsAliased(now, us, enemy))
<1> DEFINE theirs == now.list[now.ptr[enemy]]
           turn == CHOOSE i \in DOMAIN theirs :
                     /\ theirs[i] = enemy
                     /\ \A j \in 1 .. i - 1 : theirs[j] # enemy
           tiles == {theirs[i] : i \in 1 .. turn}
                      \cup {now.list[us][i] : i \in turn + 1 .. Len(theirs)}
           mid == [now EXCEPT !.ptr = Point(@, tiles, us), !.list[us] = <<>>]
<1>1. IntoUsAliased(now, us, enemy) = ResetCooldowns(mid, us)
  BY DEF IntoUsAliased
<1> HIDE DEF tiles
<1>2. /\ now.ptr \in [Turfs -> Groups \cup {None}]
      /\ now.list \in [Groups -> Seq(Turfs)] /\ None \notin Groups
  BY GroupsAssumption DEF Good, Records
<1>3. Point(now.ptr, tiles, us) \in [Turfs -> Groups \cup {None}]
      /\ \A u \in Turfs : Point(now.ptr, tiles, us)[u] \in {now.ptr[u], us}
  BY <1>2 DEF Point
<1>4. /\ mid \in Records /\ mid.ptr = Point(now.ptr, tiles, us)
      /\ mid.list = [now.list EXCEPT ![us] = <<>>] /\ mid.all = now.all
  <2>1. [now.list EXCEPT ![us] = <<>>] \in [Groups -> Seq(Turfs)]
    BY <1>2
  <2>2. QED
    BY <1>2, <1>3, <2>1 DEF Good, Records
<1> HIDE DEF mid
<1>5. Apart(mid.list)
  BY <1>2, <1>4 DEF Good, Apart
<1>6. Owned(mid.ptr, mid.list)
  <2> SUFFICES ASSUME NEW h \in Groups, NEW u \in Elements(mid.list[h])
               PROVE  mid.ptr[u] # None
    BY DEF Owned
  <2>1. u \in Elements(now.list[h])
    BY <1>2, <1>4, EmptyElements
  <2>2. u \in Turfs /\ now.ptr[u] # None
    BY <1>2, <2>1, ElementsAre DEF Good, Owned
  <2>3. QED
    BY <1>2, <1>3, <1>4, <2>2
<1>7. Known(mid.ptr, mid.all)
  BY <1>3, <1>4 DEF Good, Known
<1>8. Good(mid)
  BY <1>4, <1>5, <1>6, <1>7 DEF Good
<1>9. QED
  BY <1>1, <1>4, <1>8, ResetKeeps, SameIsAsGood DEF AsGood

LEMMA MergeGood ==
  ASSUME NEW now, Good(now), NEW us \in Groups, us \in Elements(now.all),
         NEW enemy \in Turfs, now.ptr[enemy] \in Groups, us # now.ptr[enemy]
  PROVE  /\ Good(MergeGroups(now, us, enemy))
         /\ ~ Aliases(now, us, enemy) /\ Agree(now) => Agree(MergeGroups(now, us, enemy))
<1> DEFINE other == now.ptr[enemy]
           ours == [now EXCEPT !.ptr = Point(@, Elements(now.list[us]), other),
                               !.list[other] = @ \o now.list[us],
                               !.list[us] = <<>>]
           theirs == [now EXCEPT !.ptr = Point(@, Elements(now.list[other]), us),
                                 !.list[us] = @ \o now.list[other],
                                 !.list[other] = <<>>]
<1>1. /\ now.ptr \in [Turfs -> Groups \cup {None}]
      /\ now.list \in [Groups -> Seq(Turfs)]
      /\ other \in Groups /\ other \in Elements(now.all)
  BY GroupsAssumption DEF Good, Records, Known
<1> HIDE DEF other
<1>2. \A tiles, g : g \in Groups =>
        Point(now.ptr, tiles, g) \in [Turfs -> Groups \cup {None}]
  BY <1>1 DEF Point
<1>3. ASSUME NEW g \in Groups, NEW h \in Groups, g # h
      PROVE  [now.list EXCEPT ![g] = @ \o now.list[h], ![h] = <<>>]
               \in [Groups -> Seq(Turfs)]
  <2>1. now.list[g] \o now.list[h] \in Seq(Turfs)
    BY <1>1
  <2> DEFINE f == [now.list EXCEPT ![g] = @ \o now.list[h], ![h] = <<>>]
  <2>2. \A k \in Groups : f[k] = IF k = h THEN <<>> ELSE
                               IF k = g THEN now.list[g] \o now.list[h] ELSE now.list[k]
    BY <1>1, <1>3
  <2>3. \A k \in Groups : f[k] \in Seq(Turfs)
    <3>1. <<>> \in Seq(Turfs)
      OBVIOUS
    <3>2. \A k \in Groups : now.list[k] \in Seq(Turfs)
      BY <1>1
    <3> HIDE DEF f
    <3>3. QED
      BY <2>1, <2>2, <3>1, <3>2
  <2>4. f = [k \in Groups |-> f[k]]
    BY <1>1
  <2>5. QED
    BY <2>3, <2>4
<1>4. /\ ours \in Records /\ ours.all = now.all
      /\ ours.ptr = Point(now.ptr, Elements(now.list[us]), other)
      /\ ours.list = [now.list EXCEPT ![other] = @ \o now.list[us], ![us] = <<>>]
  <2> DEFINE l == [now.list EXCEPT ![other] = @ \o now.list[us], ![us] = <<>>]
             p == Point(now.ptr, Elements(now.list[us]), other)
  <2>1. ours = [now EXCEPT !.ptr = p, !.list = l]
    BY <1>1 DEF Good, Records
  <2>2. l \in [Groups -> Seq(Turfs)] /\ p \in [Turfs -> Groups \cup {None}]
    BY <1>1, <1>2, <1>3 DEF other
  <2> HIDE DEF l, p
  <2>3. ours \in Records /\ ours.all = now.all /\ ours.ptr = p /\ ours.list = l
    BY <2>1, <2>2 DEF Good, Records
  <2>4. QED
    BY <2>3 DEF l, p
<1>5. /\ theirs \in Records /\ theirs.all = now.all
      /\ theirs.ptr = Point(now.ptr, Elements(now.list[other]), us)
      /\ theirs.list = [now.list EXCEPT ![us] = @ \o now.list[other], ![other] = <<>>]
  <2> DEFINE l == [now.list EXCEPT ![us] = @ \o now.list[other], ![other] = <<>>]
             p == Point(now.ptr, Elements(now.list[other]), us)
  <2>1. theirs = [now EXCEPT !.ptr = p, !.list = l]
    BY <1>1 DEF Good, Records
  <2>2. l \in [Groups -> Seq(Turfs)] /\ p \in [Turfs -> Groups \cup {None}]
    BY <1>1, <1>2, <1>3 DEF other
  <2> HIDE DEF l, p
  <2>3. theirs \in Records /\ theirs.all = now.all /\ theirs.ptr = p /\ theirs.list = l
    BY <2>1, <2>2 DEF Good, Records
  <2>4. QED
    BY <2>3 DEF l, p
<1>6. IntoOther(now, us, enemy) = ResetCooldowns(ours, other)
      /\ IntoUs(now, us, enemy) = ResetCooldowns(theirs, us)
  BY DEF IntoOther, IntoUs, other
<1> HIDE DEF ours, theirs
<1>7. AsGood(now, ours) /\ AsGood(now, theirs)
  <2>1. us # other
    BY DEF other
  <2>2. Absorbs(now, ours, us, other)
    BY <1>1, <1>4, <2>1 DEF Absorbs
  <2>3. Absorbs(now, theirs, other, us)
    BY <1>1, <1>5, <2>1 DEF Absorbs
  <2>4. QED
    BY <1>1, <2>1, <2>2, <2>3, AbsorbGood
<1>8. AsGood(now, IntoOther(now, us, enemy)) /\ AsGood(now, IntoUs(now, us, enemy))
  BY <1>4, <1>5, <1>6, <1>7, ResetKeeps, SameIsAsGood DEF AsGood
<1>9. QED
  BY <1>8, AliasedGood DEF MergeGroups, AsGood

(* A dismantle takes the tiles of one list their group.                      *)
LEMMA DismantleGood ==
  ASSUME NEW now, Good(now), NEW g \in Groups
  PROVE  AsGood(now, Dismantle(now, g))
<1> DEFINE l == now.list[g]
           new == Dismantle(now, g)
<1>1. /\ now.ptr \in [Turfs -> Groups \cup {None}]
      /\ now.list \in [Groups -> Seq(Turfs)] /\ l \in Seq(Turfs)
      /\ None \notin Groups
  BY GroupsAssumption DEF Good, Records
<1>2. /\ new \in Records /\ new.ptr = Point(now.ptr, Elements(l), None)
      /\ new.list = [now.list EXCEPT ![g] = <<>>] /\ new.all = now.all
  <2>1. [now.list EXCEPT ![g] = <<>>] \in [Groups -> Seq(Turfs)]
    BY <1>1
  <2>2. Point(now.ptr, Elements(l), None) \in [Turfs -> Groups \cup {None}]
    BY <1>1 DEF Point
  <2>3. QED
    BY <2>1, <2>2 DEF Dismantle, Good, Records
<1> HIDE DEF new
<1>3. \A u \in Turfs : new.ptr[u] = IF u \in Elements(l) THEN None ELSE now.ptr[u]
  BY <1>2 DEF Point
<1>4. /\ Elements(new.list[g]) = {}
      /\ \A h \in Groups \ {g} : new.list[h] = now.list[h]
  BY <1>1, <1>2, EmptyElements
<1>5. \A h \in Groups \ {g} : Elements(now.list[h]) \cap Elements(l) = {}
  BY <1>1, ApartIff DEF Good
<1>6. Apart(new.list)
  BY <1>1, <1>2 DEF Good, Apart
<1>7. Owned(new.ptr, new.list)
  <2> SUFFICES ASSUME NEW h \in Groups, NEW u \in Elements(new.list[h])
               PROVE  new.ptr[u] # None
    BY DEF Owned
  <2>1. h # g /\ u \in Elements(now.list[h])
    BY <1>4
  <2>2. u \in Turfs /\ now.ptr[u] # None
    BY <1>1, <2>1, ElementsAre DEF Good, Owned
  <2>3. QED
    BY <1>3, <1>5, <2>1, <2>2
<1>8. Known(new.ptr, new.all)
  BY <1>2, <1>3 DEF Good, Known
<1>9. Agree(now) => Agree(new)
  <2> SUFFICES ASSUME Agree(now), NEW h \in Groups
               PROVE  Elements(new.list[h]) = {u \in Turfs : new.ptr[u] = h}
    BY DEF Agree
  <2>1. \A k \in Groups : Elements(now.list[k]) = {u \in Turfs : now.ptr[u] = k}
    BY DEF Agree
  <2>2. CASE h = g
    BY <1>1, <1>3, <1>4, <2>1, <2>2
  <2>3. CASE h # g
    <3>1. \A u \in Turfs : new.ptr[u] = h <=> now.ptr[u] = h
      BY <1>1, <1>3, <2>1, <2>3
    <3>2. QED
      BY <1>4, <2>1, <2>3, <3>1
  <2>4. QED
    BY <2>2, <2>3
<1>10. QED
  BY <1>2, <1>6, <1>7, <1>8, <1>9 DEF AsGood, Good, new

-----------------------------------------------------------------------------
(***************************************************************************)
(* The state.                                                              *)
(***************************************************************************)

\* The controller knows the groups that live and no other, each once.
AllLive ==
  Elements(excited_groups) = {excited_group[t] : t \in Turfs} \ {None}

RunOnce ==
  /\ excited_groups_currentrun \in Seq(Groups)
  /\ IsInjective(excited_groups_currentrun)

CellOK == cell \in Turfs \cup {None} /\ neighbour \in Nat \ {0}

GroupsInv ==
  /\ Good(Now)
  /\ AllLive
  /\ RunOnce
  /\ CellOK
  /\ ~ aliased => Agree(Now)

(* Whatever the operators made of the groups becomes the state: the groups   *)
(* without a tile are gone.                                                  *)
LEMMA BecomeGood ==
  ASSUME NEW now, Good(now), Become(now)
  PROVE  /\ Good(Now)' /\ AllLive'
         /\ Agree(now) => Agree(Now)'
         /\ excited_group' = now.ptr
<1> DEFINE alive == {now.ptr[t] : t \in Turfs}
           list == [g \in Groups |-> IF g \in alive THEN now.list[g] ELSE <<>>]
           brk == [g \in Groups |-> IF g \in alive THEN now.brk[g] ELSE 0]
           dis == [g \in Groups |-> IF g \in alive THEN now.dis[g] ELSE 0]
<1>1. /\ now.ptr \in [Turfs -> Groups \cup {None}]
      /\ now.list \in [Groups -> Seq(Turfs)] /\ now.all \in Seq(Groups)
      /\ now.brk \in [Groups -> Int] /\ now.dis \in [Groups -> Int]
      /\ None \notin Groups
  BY GroupsAssumption DEF Good, Records
<1>2. /\ excited_group' = now.ptr /\ turf_list' = list
      /\ breakdown_cooldown' = brk /\ dismantle_cooldown' = dis
      /\ excited_groups' \in Kept(now.all, alive)
  BY DEF Become
<1>3. /\ excited_groups' \in Seq(Groups)
      /\ Elements(excited_groups') = Elements(now.all) \cap alive
      /\ IsInjective(excited_groups')
  BY <1>1, <1>2, KeptProperties DEF Good, Known
<1>4. list \in [Groups -> Seq(Turfs)]
  BY <1>1
<1>5. brk \in [Groups -> Int] /\ dis \in [Groups -> Int]
  <2>1. \A g \in Groups : (IF g \in alive THEN now.brk[g] ELSE 0) \in Int
                          /\ (IF g \in alive THEN now.dis[g] ELSE 0) \in Int
    BY <1>1
  <2>2. QED
    BY <2>1, Zenon
<1>6. \A g \in Groups : list[g] = IF g \in alive THEN now.list[g] ELSE <<>>
  OBVIOUS
<1> HIDE DEF list, brk, dis
<1>7. /\ Now'.ptr = now.ptr /\ Now'.list = list /\ Now'.all = excited_groups'
      /\ Now' \in Records
  BY <1>1, <1>2, <1>3, <1>4, <1>5 DEF Now, Records
<1>8. Apart(list)
  BY <1>6 DEF Good, Apart
<1>9. Owned(now.ptr, list)
  BY <1>6, EmptyElements DEF Good, Owned
<1>10. Elements(excited_groups') = alive \ {None}
  BY <1>1, <1>3, ElementsAre DEF Good, Known
<1>11. Known(now.ptr, excited_groups')
  BY <1>3, <1>10 DEF Known
<1>12. Good(Now)'
  BY <1>7, <1>8, <1>9, <1>11 DEF Good
<1>13. AllLive'
  BY <1>2, <1>10 DEF AllLive
<1>14. Agree(now) => Agree(Now)'
  <2> SUFFICES ASSUME Agree(now), NEW h \in Groups
               PROVE  Elements(list[h]) = {u \in Turfs : now.ptr[u] = h}
    BY <1>7 DEF Agree
  <2>1. Elements(now.list[h]) = {u \in Turfs : now.ptr[u] = h}
    BY DEF Agree
  <2>2. QED
    BY <1>6, <2>1, EmptyElements
<1>15. QED
  BY <1>2, <1>12, <1>13, <1>14

LEMMA RunGoesOnOnce ==
  ASSUME NEW run \in Seq(Groups), IsInjective(run), RunGoesOn(run)
  PROVE  RunOnce'
  BY KeptProperties DEF RunGoesOn, RunOnce

LEMMA GroupsInit == Init => GroupsInv
<1> SUFFICES ASSUME Init PROVE GroupsInv
  OBVIOUS
<1>1. /\ excited_group = [t \in Turfs |-> None] /\ turf_list = [g \in Groups |-> <<>>]
      /\ excited_groups = <<>> /\ excited_groups_currentrun = <<>>
      /\ cell = None /\ neighbour = 1
      /\ breakdown_cooldown \in [Groups -> Int] /\ dismantle_cooldown \in [Groups -> Int]
  <2>1. \A g \in Groups : 0 \in Int
    OBVIOUS
  <2>2. QED
    BY <2>1, Zenon DEF Init
<1>2. Now \in Records
  BY <1>1 DEF Now, Records
<1>3. Now.ptr = excited_group /\ Now.list = turf_list /\ Now.all = <<>>
  BY <1>1 DEF Now
<1>4. Good(Now)
  BY <1>1, <1>2, <1>3, EmptyElements DEF Good, Apart, Owned, Known, IsInjective
<1>5. AllLive /\ RunOnce /\ CellOK
  BY <1>1, EmptyElements DEF AllLive, RunOnce, CellOK, IsInjective
<1>6. Agree(Now)
  BY <1>1, <1>3, EmptyElements, GroupsAssumption DEF Agree
<1>7. QED
  BY <1>4, <1>5, <1>6 DEF GroupsInv

(* What an action sees of the groups before it changes them.                 *)
LEMMA NowFacts ==
  ASSUME GroupsInv
  PROVE  /\ Now \in Records
         /\ Now.ptr = excited_group /\ Now.list = turf_list /\ Now.all = excited_groups
         /\ excited_group \in [Turfs -> Groups \cup {None}]
         /\ excited_groups \in Seq(Groups) /\ IsInjective(excited_groups)
         /\ \A t \in Turfs : excited_group[t] # None =>
              excited_group[t] \in Groups /\ excited_group[t] \in Elements(excited_groups)
         /\ \A g \in Groups : IsFree(g) => g \notin Elements(excited_groups)
<1>1. /\ Now \in Records /\ Now.ptr = excited_group /\ Now.list = turf_list
      /\ Now.all = excited_groups
  BY DEF GroupsInv, Good, Now
<1>2. excited_group \in [Turfs -> Groups \cup {None}] /\ excited_groups \in Seq(Groups)
  BY <1>1 DEF Records
<1>3. /\ IsInjective(excited_groups)
      /\ \A t \in Turfs : excited_group[t] # None => excited_group[t] \in Elements(excited_groups)
  BY <1>1 DEF GroupsInv, Good, Known
<1>4. \A g \in Groups : IsFree(g) => g \notin Elements(excited_groups)
  BY DEF GroupsInv, AllLive, IsFree
<1>5. QED
  BY <1>1, <1>2, <1>3, <1>4

LEMMA StillGroups ==
  ASSUME GroupsInv, UNCHANGED <<excited_group, groupVars, listVars, aliased>>, CellOK'
  PROVE  GroupsInv'
<1>1. Now' = Now /\ AllLive' /\ RunOnce'
  BY DEF groupVars, listVars, Now, GroupsInv, AllLive, RunOnce
<1>2. QED
  BY <1>1 DEF GroupsInv, groupVars, listVars, Good, Agree

LEMMA NewGroups ==
  ASSUME NEW now, Good(now), Become(now), RunOnce', CellOK', ~ aliased' => Agree(now)
  PROVE  GroupsInv'
  BY BecomeGood DEF GroupsInv

(* process_cell.                                                             *)
LEMMA CellKeepsGroups ==
  ASSUME GroupsInv, CellStep
  PROVE  GroupsInv'
<1>1. CASE Skip
  <2>1. CellOK'
    BY <1>1 DEF Skip, NextNeighbour, GroupsInv, CellOK
  <2>2. QED
    BY <1>1, <2>1, StillGroups DEF Skip, NextNeighbour, tileVars
<1>2. CASE EndCell
  <2>1. CellOK'
    BY <1>2 DEF EndCell, CellOK
  <2>2. QED
    BY <1>2, <2>1, StillGroups DEF EndCell, tileVars
<1>3. ASSUME NEW share \in Shares, Meet(share)
      PROVE  GroupsInv'
  <2> DEFINE us == excited_group[cell]
             merged == IF us = excited_group[Enemy] THEN Now
                       ELSE MergeGroups(Now, us, Enemy)
             now == LastShareCheck(merged, cell, share)
  <2>1. /\ AtNeighbour /\ BothGrouped /\ NextNeighbour
        /\ Become(now) /\ RunGoesOn(excited_groups_currentrun)
        /\ aliased' = (aliased \/ (us # excited_group[Enemy] /\ Aliases(Now, us, Enemy)))
    BY <1>3 DEF Meet
  <2>2. cell \in Turfs /\ neighbour \in 1 .. Len(Adjacent[cell])
    BY <2>1 DEF AtNeighbour, GroupsInv, CellOK
  <2>3. Enemy \in Turfs
    BY <2>2, GroupsAssumption DEF Enemy
  <2>4. /\ us \in Groups /\ us \in Elements(Now.all)
        /\ excited_group[Enemy] \in Groups /\ Now.ptr[Enemy] = excited_group[Enemy]
    BY <2>1, <2>2, <2>3, NowFacts DEF BothGrouped
  <2>5. Good(merged) /\ (~ aliased' => Agree(merged))
    <3>1. Good(Now) /\ (~ aliased' => Agree(Now))
      BY <2>1 DEF GroupsInv
    <3>2. CASE us = excited_group[Enemy]
      BY <3>1, <3>2
    <3>3. CASE us # excited_group[Enemy]
      <4>1. /\ Good(MergeGroups(Now, us, Enemy))
            /\ ~ Aliases(Now, us, Enemy) /\ Agree(Now) => Agree(MergeGroups(Now, us, Enemy))
        BY <2>3, <2>4, <3>1, <3>3, MergeGood
      <4>2. QED
        BY <2>1, <3>1, <3>3, <4>1
    <3>4. QED
      BY <3>2, <3>3
  <2> HIDE DEF merged
  <2>6. Good(now) /\ (~ aliased' => Agree(now))
    <3>1. SameGroups(merged, now)
      BY <2>5, ShareKeeps DEF Good
    <3>2. QED
      BY <2>5, <3>1, SameIsAsGood DEF AsGood
  <2>7. RunOnce'
    BY <2>1, RunGoesOnOnce DEF GroupsInv, RunOnce
  <2>8. CellOK'
    BY <2>1, <2>2 DEF NextNeighbour, GroupsInv, CellOK
  <2> HIDE DEF now
  <2>9. QED
    BY <2>1, <2>6, <2>7, <2>8, NewGroups
<1>4. ASSUME NEW g \in Groups, NEW share \in Shares, Join(g, share)
      PROVE  GroupsInv'
  <2> DEFINE mine == excited_group[cell]
             theirs == excited_group[Enemy]
             begun == IF mine = None /\ theirs = None THEN Initialize(Now, g) ELSE Now
             first == AddUngrouped(begun, g, cell)
             joined == AddUngrouped(first, g, Enemy)
             now == LastShareCheck(joined, cell, share)
  <2>1. /\ AtNeighbour /\ NextNeighbour
        /\ g = mine \/ g = theirs \/ (mine = None /\ theirs = None /\ IsFree(g))
        /\ Become(now) /\ RunGoesOn(excited_groups_currentrun) /\ aliased' = aliased
    BY <1>4 DEF Join
  <2>2. cell \in Turfs /\ neighbour \in 1 .. Len(Adjacent[cell])
    BY <2>1 DEF AtNeighbour, GroupsInv, CellOK
  <2>3. Enemy \in Turfs
    BY <2>2, GroupsAssumption DEF Enemy
  <2>4. Good(Now) /\ None \notin Groups
    BY GroupsAssumption DEF GroupsInv
  <2>5. AsGood(Now, begun) /\ g \in Elements(begun.all)
    <3>1. CASE mine = None /\ theirs = None
      <4>1. g \notin Elements(Now.all)
        BY <2>1, <2>4, <3>1, NowFacts
      <4>2. QED
        BY <2>4, <3>1, <4>1, InitializeGood
    <3>2. CASE ~ (mine = None /\ theirs = None)
      <4>1. begun = Now /\ (g = mine \/ g = theirs) /\ g # None
        BY <2>1, <2>4, <3>2
      <4>2. g \in Elements(Now.all)
        BY <2>2, <2>3, <4>1, NowFacts
      <4>3. QED
        BY <2>4, <4>1, <4>2 DEF AsGood
    <3>3. QED
      BY <3>1, <3>2
  <2> HIDE DEF begun
  <2>6. AsGood(begun, first) /\ first.all = begun.all
    BY <2>2, <2>5, AddUngroupedGood DEF AsGood
  <2> HIDE DEF first
  <2>7. AsGood(first, joined)
    BY <2>3, <2>5, <2>6, AddUngroupedGood DEF AsGood
  <2> HIDE DEF joined
  <2>8. AsGood(joined, now)
    <3>1. SameGroups(joined, now)
      BY <2>7, ShareKeeps DEF AsGood, Good
    <3>2. QED
      BY <2>7, <3>1, SameIsAsGood DEF AsGood
  <2>9. Good(now) /\ (~ aliased' => Agree(now))
    BY <2>1, <2>5, <2>6, <2>7, <2>8 DEF AsGood, GroupsInv
  <2>10. RunOnce'
    BY <2>1, RunGoesOnOnce DEF GroupsInv, RunOnce
  <2>11. CellOK'
    BY <2>1, <2>2 DEF NextNeighbour, GroupsInv, CellOK
  <2> HIDE DEF now
  <2>12. QED
    BY <2>1, <2>9, <2>10, <2>11, NewGroups
<1>5. ASSUME NEW g \in Groups, NEW share \in Shares, SharePlanet(g, share)
      PROVE  GroupsInv'
  <2> DEFINE mine == excited_group[cell]
             begun == Initialize(Now, g)
             grouped == IF mine = None THEN AddTurf(begun, g, cell) ELSE Now
             now == LastShareCheck(grouped, cell, share)
  <2>1. /\ cell \in Planetary
        /\ g = mine \/ (mine = None /\ IsFree(g))
        /\ Become(now) /\ RunGoesOn(excited_groups_currentrun) /\ aliased' = aliased
        /\ cell' = None /\ neighbour' = 1
    BY <1>5 DEF SharePlanet
  <2>2. cell \in Turfs /\ None \notin Groups /\ Good(Now)
    BY <1>5, GroupsAssumption DEF SharePlanet, GroupsInv
  <2>3. AsGood(Now, grouped)
    <3>1. CASE mine = None
      <4>1. g \notin Elements(Now.all)
        BY <2>1, <2>2, <3>1, NowFacts
      <4>2. AsGood(Now, begun) /\ g \in Elements(begun.all) /\ begun.ptr = Now.ptr
        BY <2>2, <4>1, InitializeGood
      <4>3. begun.ptr[cell] = None
        BY <3>1, <4>2, NowFacts
      <4> HIDE DEF begun
      <4>4. AsGood(begun, AddTurf(begun, g, cell))
        BY <2>2, <4>2, <4>3, AddTurfGood DEF AsGood
      <4>5. QED
        BY <3>1, <4>2, <4>4, AsGoodTransitive
    <3>2. CASE mine # None
      BY <2>2, <3>2 DEF AsGood
    <3>3. QED
      BY <3>1, <3>2
  <2> HIDE DEF grouped
  <2>4. AsGood(grouped, now)
    <3>1. SameGroups(grouped, now)
      BY <2>3, ShareKeeps DEF AsGood, Good
    <3>2. QED
      BY <2>3, <3>1, SameIsAsGood DEF AsGood
  <2>5. Good(now) /\ (~ aliased' => Agree(now))
    BY <2>1, <2>3, <2>4 DEF AsGood, GroupsInv
  <2>6. RunOnce'
    BY <2>1, RunGoesOnOnce DEF GroupsInv, RunOnce
  <2>7. CellOK'
    BY <2>1 DEF CellOK
  <2> HIDE DEF now
  <2>8. QED
    BY <2>1, <2>5, <2>6, <2>7, NewGroups
<1>6. QED
  BY <1>1, <1>2, <1>3, <1>4, <1>5 DEF CellStep

(* The other hooks.                                                          *)
LEMMA HooksKeepGroups ==
  ASSUME GroupsInv, NEW t \in Turfs, Hooks(t)
  PROVE  GroupsInv'
<1>1. CASE ProcessCell(t)
  <2>1. CellOK'
    BY <1>1 DEF ProcessCell, CellOK
  <2>2. QED
    BY <1>1, <2>1, StillGroups DEF ProcessCell, tileVars
<1>2. CASE \E b \in BOOLEAN : SetExcited(t, b)
  <2>1. CellOK'
    BY <1>2 DEF SetExcited, cellVars, GroupsInv, CellOK
  <2>2. QED
    BY <1>2, <2>1, StillGroups DEF SetExcited
<1>3. CASE EgResetCooldowns(t)
  <2> DEFINE now == ResetCooldowns(Now, excited_group[t])
  <2>1. /\ Become(now) /\ UNCHANGED <<excited_groups_currentrun, cellVars, aliased>>
    BY <1>3 DEF EgResetCooldowns
  <2>2. AsGood(Now, now)
    BY ResetKeeps, SameIsAsGood DEF GroupsInv, Good
  <2>3. RunOnce' /\ CellOK' /\ (~ aliased' => Agree(Now))
    BY <2>1 DEF GroupsInv, RunOnce, CellOK, cellVars
  <2> HIDE DEF now
  <2>4. QED
    BY <2>1, <2>2, <2>3, NewGroups DEF AsGood
<1>4. CASE EgGarbageCollect(t)
  <2> DEFINE now == Dismantle(Now, excited_group[t])
  <2>1. /\ excited_group[t] # None /\ Become(now) /\ RunGoesOn(excited_groups_currentrun)
        /\ UNCHANGED <<cellVars, aliased>>
    BY <1>4 DEF EgGarbageCollect
  <2>2. AsGood(Now, now)
    BY <2>1, NowFacts, DismantleGood DEF GroupsInv
  <2>3. RunOnce' /\ CellOK' /\ (~ aliased' => Agree(Now))
    BY <2>1, RunGoesOnOnce DEF GroupsInv, RunOnce, CellOK, cellVars
  <2> HIDE DEF now
  <2>4. QED
    BY <2>1, <2>2, <2>3, NewGroups DEF AsGood
<1>5. QED
  BY <1>1, <1>2, <1>3, <1>4 DEF Hooks

(* refresh_atmos_grid: every group dies, and its list with it.               *)
LEMMA RefreshKeepsGroups ==
  ASSUME GroupsInv, Refresh
  PROVE  GroupsInv'
<1> DEFINE none == [t \in Turfs |-> None]
           now == [Now EXCEPT !.ptr = none]
<1>1. /\ Become(now) /\ RunGoesOn(excited_groups_currentrun)
      /\ UNCHANGED <<cellVars>>
  BY DEF Refresh
<1>2. /\ now \in Records /\ now.ptr = none /\ now.all = excited_groups
      /\ now.list = turf_list
  BY NowFacts DEF Records
<1>3. {now.ptr[t] : t \in Turfs} \subseteq {None} /\ None \notin Groups
  BY <1>2, GroupsAssumption
<1> HIDE DEF now
<1>4. /\ excited_group' = none
      /\ turf_list' = [g \in Groups |-> <<>>]
      /\ breakdown_cooldown' = [g \in Groups |-> 0]
      /\ dismantle_cooldown' = [g \in Groups |-> 0]
      /\ excited_groups' \in Kept(excited_groups, {now.ptr[t] : t \in Turfs})
  BY <1>1, <1>2, <1>3 DEF Become
<1>5. excited_groups' \in Seq(Groups) /\ Elements(excited_groups') = {}
      /\ IsInjective(excited_groups')
  <2> DEFINE alive == {now.ptr[t] : t \in Turfs}
  <2>1. excited_groups \in Seq(Groups) /\ IsInjective(excited_groups)
    BY NowFacts
  <2>2. Elements(excited_groups) \subseteq Groups
    BY <2>1, ElementsAre
  <2>3. alive \subseteq {None} /\ None \notin Groups
    BY <1>3
  <2> HIDE DEF alive
  <2>4. excited_groups' \in Kept(excited_groups, alive)
    BY <1>4 DEF alive
  <2>5. /\ excited_groups' \in Seq(Groups)
        /\ Elements(excited_groups') = Elements(excited_groups) \cap alive
        /\ IsInjective(excited_groups')
    BY <2>1, <2>4, KeptProperties
  <2>6. QED
    BY <2>2, <2>3, <2>5
<1>6. Now' \in Records
  <2>1. [g \in Groups |-> 0] \in [Groups -> Int]
    <3>1. 0 \in Int
      OBVIOUS
    <3>2. QED
      BY <3>1, Zenon
  <2>2. [g \in Groups |-> <<>>] \in [Groups -> Seq(Turfs)]
    <3>1. <<>> \in Seq(Turfs)
      OBVIOUS
    <3>2. QED
      BY <3>1, Zenon
  <2> HIDE DEF now
  <2>3. none \in [Turfs -> Groups \cup {None}]
    OBVIOUS
  <2>4. QED
    BY <1>4, <1>5, <2>1, <2>2, <2>3 DEF Now, Records
<1>7. Now'.ptr = none /\ Now'.list = [g \in Groups |-> <<>>] /\ Now'.all = excited_groups'
  BY <1>4 DEF Now
<1>8. Good(Now)'
  BY <1>5, <1>6, <1>7, EmptyElements DEF Good, Apart, Owned, Known
<1>9. Agree(Now)'
  BY <1>3, <1>7, EmptyElements DEF Agree
<1>10. AllLive'
  BY <1>4, <1>5 DEF AllLive
<1>11. RunOnce' /\ CellOK'
  BY <1>1, RunGoesOnOnce DEF GroupsInv, RunOnce, CellOK, cellVars
<1>12. QED
  BY <1>8, <1>9, <1>10, <1>11 DEF GroupsInv

(* One group of a run of the controller.                                     *)
LEMMA ControllerKeepsGroups ==
  ASSUME GroupsInv, NEW g \in Groups, NEW resumed \in BOOLEAN,
         ProcessExcitedGroup(g, resumed)
  PROVE  GroupsInv'
<1> DEFINE run == IF resumed THEN excited_groups_currentrun ELSE excited_groups
           brk == UpTo(BreakdownCycles, breakdown_cooldown[g] + 1)
           dis == UpTo(DismantleCycles, dismantle_cooldown[g] + 1)
           ticked == [Now EXCEPT !.brk[g] = brk, !.dis[g] = dis]
           broken == IF brk >= BreakdownCycles THEN SelfBreakdown(ticked, g) ELSE ticked
           rest == SubSeq(run, 1, Len(run) - 1)
<1>1. /\ run # <<>> /\ RunGoesOn(rest) /\ UNCHANGED <<cellVars, aliased>>
      /\ \/ dis >= DismantleCycles /\ Become(Dismantle(broken, g))
         \/ ~ (dis >= DismantleCycles) /\ Become(broken)
  BY DEF ProcessExcitedGroup
<1>2. /\ Good(Now) /\ Now \in Records
      /\ breakdown_cooldown \in [Groups -> Int] /\ dismantle_cooldown \in [Groups -> Int]
      /\ Now.brk = breakdown_cooldown /\ Now.dis = dismantle_cooldown
  BY NowFacts DEF GroupsInv, Now, Records
<1>3. brk \in Int /\ dis \in Int
  BY <1>2, GroupsAssumption DEF UpTo
<1> HIDE DEF brk, dis
<1>4. SameGroups(Now, ticked)
  <2> DEFINE b == [Now.brk EXCEPT ![g] = brk]
             d == [Now.dis EXCEPT ![g] = dis]
  <2>1. b \in [Groups -> Int] /\ d \in [Groups -> Int]
    BY <1>2, <1>3
  <2>2. ticked = [Now EXCEPT !.brk = b, !.dis = d]
    BY <1>2 DEF Records
  <2> HIDE DEF b, d
  <2>3. QED
    BY <1>2, <2>1, <2>2 DEF SameGroups, Records
<1> HIDE DEF ticked
<1>5. AsGood(Now, ticked)
  BY <1>2, <1>4, SameIsAsGood
<1>6. AsGood(ticked, broken)
  <2>1. SameGroups(ticked, SelfBreakdown(ticked, g))
    BY <1>5, BreakdownKeeps DEF AsGood, Good
  <2>2. QED
    BY <1>5, <2>1, SameIsAsGood DEF AsGood
<1> HIDE DEF broken
<1>7. AsGood(broken, Dismantle(broken, g))
  BY <1>6, DismantleGood DEF AsGood
<1>8. RunOnce'
  <2>1. run \in Seq(Groups) /\ IsInjective(run)
    BY NowFacts DEF GroupsInv, RunOnce
  <2> HIDE DEF run
  <2>2. rest \in Seq(Groups) /\ IsInjective(rest)
    <3> DEFINE n == Len(run)
    <3>1. n \in Nat \ {0} /\ DOMAIN run = 1 .. n /\ n - 1 \in Nat /\ n - 1 \in 0 .. n
      BY <1>1, <2>1
    <3>2. /\ Len(rest) = n - 1 /\ \A i \in 1 .. n - 1 : rest[i] = run[i]
          /\ rest \in Seq(Groups)
      BY <2>1, <3>1
    <3>3. DOMAIN rest = 1 .. n - 1
      BY <3>2
    <3>4. \A i \in 1 .. n - 1 : i \in 1 .. n
      BY <3>1
    <3> HIDE DEF n, rest
    <3>5. QED
      BY <2>1, <3>1, <3>2, <3>3, <3>4 DEF IsInjective
  <2>3. QED
    BY <1>1, <2>2, RunGoesOnOnce
<1>9. CellOK' /\ (~ aliased' => Agree(Now))
  BY <1>1 DEF GroupsInv, CellOK, cellVars
<1>10. CASE Become(Dismantle(broken, g))
  BY <1>5, <1>6, <1>7, <1>8, <1>9, <1>10, NewGroups DEF AsGood
<1>11. CASE Become(broken)
  BY <1>5, <1>6, <1>8, <1>9, <1>11, NewGroups DEF AsGood
<1>12. QED
  BY <1>1, <1>10, <1>11

THEOREM GroupsInvariance == Spec => []GroupsInv
<1>1. GroupsInv /\ [Next]_vars => GroupsInv'
  <2> SUFFICES ASSUME GroupsInv, [Next]_vars
               PROVE  GroupsInv'
    OBVIOUS
  <2>1. CASE UNCHANGED vars
    <3>1. CellOK'
      BY <2>1 DEF vars, cellVars, GroupsInv, CellOK
    <3>2. QED
      BY <2>1, <3>1, StillGroups DEF vars, tileVars
  <2>2. CASE Fire
    <3>1. CellOK'
      BY <2>2 DEF Fire, GroupsInv, CellOK
    <3>2. QED
      BY <2>2, <3>1, StillGroups DEF Fire, tileVars
  <2>3. CASE \E t \in Turfs : Hooks(t)
    BY <2>3, HooksKeepGroups
  <2>4. CASE CellStep
    BY <2>4, CellKeepsGroups
  <2>5. CASE Refresh
    BY <2>5, RefreshKeepsGroups
  <2>6. CASE Controller
    BY <2>6, ControllerKeepsGroups DEF Controller
  <2>7. QED
    BY <2>1, <2>2, <2>3, <2>4, <2>5, <2>6 DEF Next
<1>2. QED
  BY <1>1, GroupsInit, PTL DEF Spec

(* Whatever the airs do and in whichever order the DM side calls, no tile is *)
(* in two lists or twice in one, none without a group is in any, and the     *)
(* controller knows every group that lives once: also after a merge that     *)
(* assigned to the pointer it reads from.                                    *)
THEOREM TilesListedOnce == Spec => []ListedOnce
<1>1. GroupsInv => ListedOnce
  <2> SUFFICES ASSUME GroupsInv PROVE ListedOnce
    OBVIOUS
  <2>1. EveryGroupIsKnown
    BY NowFacts, OnceCounts DEF GroupsInv, AllLive, RunOnce, EveryGroupIsKnown
  <2>2. Apart(turf_list) /\ Owned(excited_group, turf_list)
    BY NowFacts DEF GroupsInv, Good
  <2>3. QED
    BY <2>1, <2>2 DEF ListedOnce, Apart, Owned
<1>2. QED
  BY <1>1, GroupsInvariance, PTL

(* The lists and the pointers agree as long as no merge assigned to the      *)
(* pointer it reads from since the last refresh: nothing else in the code    *)
(* brings them out of step.                                                  *)
THEOREM ListsAndPointersAgree == Spec => []ListsAgree
<1>1. GroupsInv => ListsAgree
  BY NowFacts DEF GroupsInv, Agree, ListsAgree
<1>2. QED
  BY <1>1, GroupsInvariance, PTL

=============================================================================
