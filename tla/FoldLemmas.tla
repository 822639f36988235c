------------------------------ MODULE FoldLemmas ------------------------------
(***************************************************************************)
(* What the proofs need to know of folds and sums over finite sets.  A     *)
(* fold is defined as some function that satisfies its recursive equation, *)
(* so first there must be one.  The operator that is folded is a function  *)
(* here, whose value at each element is a function on the states: facts    *)
(* about functions, unlike facts about operators, can be cited.            *)
(***************************************************************************)
EXTENDS Integers, FiniteSetsExt, FiniteSetTheorems, WellFoundedInduction, TLAPS

LEMMA LeastIn ==
  ASSUME NEW D, D \subseteq Nat, D # {}
  PROVE  \E k \in D : \A j \in D : k <= j
<1>1. IsWellFoundedOn(OpToRel(<, Nat), Nat)
  BY NatLessThanWellFounded
<1>2. PICK k \in D : \A j \in D : <<j, k>> \notin OpToRel(<, Nat)
  BY <1>1, WFMin
<1>3. ASSUME NEW j \in D
      PROVE  k <= j
  <2>1. j \in Nat /\ k \in Nat
    OBVIOUS
  <2>2. ~ (j < k)
    BY <1>2, <2>1 DEF OpToRel
  <2>3. QED
    BY <2>1, <2>2
<1>4. QED
  BY <1>3

\* What holds of 0, and of i if of i - 1, holds up to n.
LEMMA Climbs ==
  ASSUME NEW n \in Nat, NEW S, 0 \in S, \A i \in 1 .. n : i - 1 \in S => i \in S
  PROVE  \A i \in 0 .. n : i \in S
<1> DEFINE bad == {i \in 0 .. n : i \notin S}
<1> SUFFICES ASSUME bad # {}
             PROVE  FALSE
  OBVIOUS
<1>1. bad \subseteq Nat
  OBVIOUS
<1>2. PICK k \in bad : \A j \in bad : k <= j
  <2> HIDE DEF bad
  <2> QED
    BY <1>1, LeastIn
<1>3. k \in 1 .. n /\ k - 1 \in 0 .. n /\ ~ (k <= k - 1)
  OBVIOUS
<1>4. k - 1 \in S
  BY <1>2, <1>3
<1>5. QED
  BY <1>3, <1>4

-----------------------------------------------------------------------------
(* f is the beginning, up to k, of the iteration of H from b.                *)
Begins(f, k, T, b, H) ==
  /\ f \in [0 .. k -> T]
  /\ f[0] = b
  /\ \A i \in 0 .. k - 1 : f[i + 1] = H[f[i]]

LEMMA BeginningsExist ==
  ASSUME NEW T, NEW b \in T, NEW H \in [T -> T]
  PROVE  \A k \in Nat : \E f : Begins(f, k, T, b, H)
<1> DEFINE bad == {k \in Nat : ~ \E f : Begins(f, k, T, b, H)}
<1> SUFFICES ASSUME bad # {}
             PROVE  FALSE
  OBVIOUS
<1>1. PICK k \in bad : \A j \in bad : k <= j
  <2> HIDE DEF bad
  <2> QED
    BY LeastIn DEF bad
<1>2. k # 0
  <2>1. Begins([i \in 0 .. 0 |-> b], 0, T, b, H)
    BY DEF Begins
  <2>2. QED
    BY <2>1
<1>3. k - 1 \in Nat /\ k \in Nat
  BY <1>2
<1>4. k - 1 \notin bad
  <2>1. ASSUME k - 1 \in bad
        PROVE  FALSE
    <3>1. k <= k - 1
      BY <2>1, <1>1
    <3>2. QED
      BY <3>1, <1>3
  <2>2. QED
    BY <2>1
<1>5. PICK f : Begins(f, k - 1, T, b, H)
  BY <1>3, <1>4
<1> DEFINE g == [i \in 0 .. k |-> IF i < k THEN f[i] ELSE H[f[k - 1]]]
<1>6. Begins(g, k, T, b, H)
  <2>1. \A i \in 0 .. k - 1 : f[i] \in T
    BY <1>5 DEF Begins
  <2>2. H[f[k - 1]] \in T
    BY <2>1, <1>3
  <2>3. g \in [0 .. k -> T]
    BY <2>1, <2>2, <1>3
  <2>4. g[0] = b
    BY <1>3, <1>5 DEF Begins
  <2>5. ASSUME NEW i \in 0 .. k - 1
        PROVE  g[i + 1] = H[g[i]]
    <3>1. CASE i + 1 < k
      BY <3>1, <1>3, <1>5 DEF Begins
    <3>2. CASE i = k - 1
      BY <3>2, <1>3
    <3>3. QED
      BY <3>1, <3>2, <1>3
  <2>6. QED
    BY <2>3, <2>4, <2>5 DEF Begins
<1>7. QED
  BY <1>6

LEMMA BeginningsAgree ==
  ASSUME NEW T, NEW b \in T, NEW H \in [T -> T], NEW k \in Nat, NEW f, NEW g,
         Begins(f, k, T, b, H), Begins(g, k + 1, T, b, H)
  PROVE  \A i \in 0 .. k : f[i] = g[i]
<1> DEFINE bad == {i \in 0 .. k : f[i] # g[i]}
<1> SUFFICES ASSUME bad # {}
             PROVE  FALSE
  OBVIOUS
<1>1. PICK i \in bad : \A j \in bad : i <= j
  <2>1. bad \subseteq Nat
    OBVIOUS
  <2> HIDE DEF bad
  <2> QED
    BY <2>1, LeastIn
<1>2. i # 0 /\ i \in 0 .. k
  BY DEF Begins
<1>3. i - 1 \in 0 .. k - 1 /\ i - 1 \in 0 .. k + 1 - 1 /\ (i - 1) + 1 = i /\ i - 1 \in 0 .. k
  BY <1>2
<1>4. i - 1 \notin bad
  <2>1. ASSUME i - 1 \in bad
        PROVE  FALSE
    <3>1. i <= i - 1
      BY <2>1, <1>1
    <3>2. QED
      BY <3>1, <1>2
  <2>2. QED
    BY <2>1
<1>5. f[i - 1] = g[i - 1]
  BY <1>3, <1>4
<1>6. f[(i - 1) + 1] = H[f[i - 1]] /\ g[(i - 1) + 1] = H[g[i - 1]]
  BY <1>3 DEF Begins
<1>7. QED
  BY <1>3, <1>5, <1>6

Iterates(h, T, b, H) ==
  h \in [Nat -> T] /\ h[0] = b /\ \A k \in Nat : h[k + 1] = H[h[k]]

LEMMA IterationExists ==
  ASSUME NEW T, NEW b \in T, NEW H \in [T -> T]
  PROVE  \E h : Iterates(h, T, b, H)
<1> DEFINE B(k) == CHOOSE f : Begins(f, k, T, b, H)
           h == [k \in Nat |-> B(k)[k]]
<1>1. \A k \in Nat : Begins(B(k), k, T, b, H)
  BY BeginningsExist
<1> HIDE DEF B
<1>2. h \in [Nat -> T]
  BY <1>1 DEF Begins
<1>3. h[0] = b
  BY <1>1 DEF Begins
<1>4. ASSUME NEW k \in Nat
      PROVE  h[k + 1] = H[h[k]]
  <2>1. Begins(B(k), k, T, b, H) /\ Begins(B(k + 1), k + 1, T, b, H)
    BY <1>1
  <2>2. B(k)[k] = B(k + 1)[k]
    <3>1. k \in 0 .. k
      OBVIOUS
    <3>2. QED
      BY <2>1, <3>1, BeginningsAgree
  <2>3. k \in 0 .. (k + 1) - 1
    OBVIOUS
  <2>4. B(k + 1)[k + 1] = H[B(k + 1)[k]]
    BY <2>1, <2>3 DEF Begins
  <2>5. QED
    BY <2>2, <2>4
<1>5. QED
  BY <1>2, <1>3, <1>4 DEF Iterates

-----------------------------------------------------------------------------
(* The elements of a finite set D taken out in the order of pick, the states *)
(* T changed by F: every such fold is defined.                               *)
FoldOver(g, D, b, pick, F) ==
  g = [s \in SUBSET D |-> IF s = {} THEN b ELSE F[pick[s]][g[s \ {pick[s]}]]]

Foldable(D, T, b, pick, F) ==
  /\ IsFiniteSet(D) /\ b \in T /\ F \in [D -> [T -> T]]
  /\ \A s \in SUBSET D : s # {} => pick[s] \in s

Definable(D, T, b, pick, F) == \E g \in [SUBSET D -> T] : FoldOver(g, D, b, pick, F)

LEMMA FoldExists ==
  ASSUME NEW D, NEW T, NEW b, NEW pick, NEW F, Foldable(D, T, b, pick, F)
  PROVE  Definable(D, T, b, pick, F)
<1> DEFINE G == [SUBSET D -> T]
           Step(g) == [s \in SUBSET D |-> IF s = {} THEN b ELSE F[pick[s]][g[s \ {pick[s]}]]]
           H == [g \in G |-> Step(g)]
           start == [s \in SUBSET D |-> b]
<1> USE DEF Foldable, Definable
<1>1. start \in G
  OBVIOUS
<1>2. ASSUME NEW g \in G
      PROVE  Step(g) \in G
  <2>1. ASSUME NEW s \in SUBSET D, s # {}
        PROVE  F[pick[s]][g[s \ {pick[s]}]] \in T
    <3>1. pick[s] \in D /\ s \ {pick[s]} \in SUBSET D
      BY <2>1
    <3>2. g[s \ {pick[s]}] \in T
      BY <3>1
    <3>3. F[pick[s]] \in [T -> T]
      BY <3>1
    <3>4. QED
      BY <3>2, <3>3
  <2>2. QED
    BY <2>1
<1>3. H \in [G -> G]
  BY <1>2
<1> HIDE DEF G, Step, H, start
<1>4. PICK h : Iterates(h, G, start, H)
  BY ONLY <1>1, <1>3, IterationExists
<1> USE DEF G, Step, H, start, Iterates
<1>5. \A s \in SUBSET D : IsFiniteSet(s) /\ Cardinality(s) \in Nat
  BY FS_Subset, FS_CardinalityType
<1> DEFINE g == [s \in SUBSET D |-> h[Cardinality(s)][s]]
<1>6. g \in G
  BY <1>4, <1>5
<1>7. ASSUME NEW s \in SUBSET D
      PROVE  g[s] = IF s = {} THEN b ELSE F[pick[s]][g[s \ {pick[s]}]]
  <2>1. CASE s = {}
    <3>1. Cardinality(s) = 0
      BY <2>1, FS_EmptySet
    <3>2. QED
      BY <2>1, <3>1, <1>4
  <2>2. CASE s # {}
    <3> DEFINE n == Cardinality(s) - 1
               t == s \ {pick[s]}
    <3>1. pick[s] \in s
      BY <2>2
    <3>2. Cardinality(t) = n /\ t \in SUBSET D
      BY <3>1, <1>5, FS_RemoveElement
    <3>3. n \in Nat /\ n + 1 = Cardinality(s)
      BY <3>2, <1>5
    <3>4. h[n] \in G
      BY <1>4, <3>3
    <3>5. h[n + 1] = Step(h[n])
      BY <1>4, <3>3, <3>4
    <3> HIDE DEF n, t
    <3>6. h[n + 1][s] = F[pick[s]][h[n][t]]
      BY <3>5, <2>2 DEF t
    <3>7. g[t] = h[n][t]
      BY <3>2
    <3>8. g[s] = h[n + 1][s]
      BY <3>3
    <3>9. QED
      BY <3>6, <3>7, <3>8, <2>2 DEF t
  <2>3. QED
    BY <2>1, <2>2
<1>8. FoldOver(g, D, b, pick, F)
  <2> HIDE DEF g
  <2>1. g = [s \in SUBSET D |-> g[s]]
    BY <1>6
  <2>2. QED
    BY <1>7, <2>1 DEF FoldOver
<1>9. QED
  BY <1>6, <1>8

-----------------------------------------------------------------------------
(* The sequences.  FoldLeft takes the greatest of the indices that are left, *)
(* FoldRight the least, and is at 1 .. i, or at i .. n, when i are done.     *)
LEMMA LeastOf ==
  ASSUME NEW s, s \subseteq Nat, s # {}
  PROVE  Min(s) \in s /\ \A j \in s : Min(s) <= j
BY LeastIn DEF Min

LEMMA GreatestOf ==
  ASSUME NEW n \in Nat, NEW s, s \subseteq 1 .. n, s # {}
  PROVE  Max(s) \in s /\ \A j \in s : Max(s) >= j
<1> DEFINE D == {k \in Nat : n - k \in s}
<1>1. \A i \in s : i \in Nat /\ n - i \in D /\ n - (n - i) = i
  OBVIOUS
<1>2. D # {} /\ D \subseteq Nat
  BY <1>1
<1>3. \A k \in D : k \in Nat /\ n - k \in s
  OBVIOUS
<1> HIDE DEF D
<1>4. PICK k \in D : \A j \in D : k <= j
  BY <1>2, LeastIn
<1>5. n - k \in s /\ \A i \in s : n - k >= i
  <2>1. ASSUME NEW i \in s
        PROVE  n - k >= i
    <3>1. k <= n - i /\ i \in Nat /\ k \in Nat
      BY <1>1, <1>3, <1>4
    <3>2. QED
      BY <3>1
  <2>2. QED
    BY <1>3, <2>1
<1>6. QED
  BY <1>5 DEF Max

LEMMA UpTo ==
  ASSUME NEW n \in Nat, NEW i \in 1 .. n
  PROVE  /\ 1 .. i \in SUBSET (1 .. n) /\ 1 .. i # {}
         /\ Max(1 .. i) = i
         /\ (1 .. i) \ {i} = 1 .. i - 1
<1>1. 1 .. i \subseteq 1 .. n /\ i \in 1 .. i
  OBVIOUS
<1>2. Max(1 .. i) \in 1 .. i /\ Max(1 .. i) >= i
  BY <1>1, GreatestOf
<1>3. QED
  BY <1>1, <1>2

LEMMA DownTo ==
  ASSUME NEW n \in Nat, NEW i \in 1 .. n
  PROVE  /\ i .. n \in SUBSET (1 .. n) /\ i .. n # {}
         /\ Min(i .. n) = i
         /\ (i .. n) \ {i} = i + 1 .. n
<1>1. i .. n \subseteq 1 .. n /\ i \in i .. n /\ i .. n \subseteq Nat
  OBVIOUS
<1>2. Min(i .. n) \in i .. n /\ Min(i .. n) <= i
  BY <1>1, LeastOf
<1>3. QED
  BY <1>1, <1>2

\* The steps F of a fold over n elements are functions on T, and so is b in T.
StepsOf(n, T, b, F) == n \in Nat /\ b \in T /\ F \in [1 .. n -> [T -> T]]

FromLeft(g, n, b, F) ==
  g = [s \in SUBSET (1 .. n) |-> IF s = {} THEN b ELSE F[Max(s)][g[s \ {Max(s)}]]]

LeftFolded(n, T, b, F) == \E g \in [SUBSET (1 .. n) -> T] : FromLeft(g, n, b, F)

LEMMA LeftFoldExists ==
  ASSUME NEW n, NEW T, NEW b, NEW F, StepsOf(n, T, b, F)
  PROVE  LeftFolded(n, T, b, F)
<1> USE DEF StepsOf
<1> DEFINE D == 1 .. n
           pick == [s \in SUBSET D |-> Max(s)]
<1>1. IsFiniteSet(D)
  BY FS_Interval
<1>2. \A s \in SUBSET D : s # {} => pick[s] \in s
  BY GreatestOf
<1>3. \A s \in SUBSET D : pick[s] = Max(s)
  OBVIOUS
<1>4. F \in [D -> [T -> T]]
  OBVIOUS
<1> HIDE DEF D, pick
<1>5. PICK g \in [SUBSET D -> T] : FoldOver(g, D, b, pick, F)
  <2>1. Foldable(D, T, b, pick, F)
    BY <1>1, <1>2, <1>4 DEF Foldable
  <2>2. Definable(D, T, b, pick, F)
    BY ONLY <2>1, FoldExists
  <2>3. QED
    BY <2>2 DEF Definable
<1>6. g = [s \in SUBSET D |-> IF s = {} THEN b ELSE F[Max(s)][g[s \ {Max(s)}]]]
  BY <1>3, <1>5 DEF FoldOver
<1>7. QED
  BY <1>5, <1>6 DEF D, LeftFolded, FromLeft

FromRight(g, n, b, F) ==
  g = [s \in SUBSET (1 .. n) |-> IF s = {} THEN b ELSE F[Min(s)][g[s \ {Min(s)}]]]

RightFolded(n, T, b, F) == \E g \in [SUBSET (1 .. n) -> T] : FromRight(g, n, b, F)

LEMMA RightFoldExists ==
  ASSUME NEW n, NEW T, NEW b, NEW F, StepsOf(n, T, b, F)
  PROVE  RightFolded(n, T, b, F)
<1> USE DEF StepsOf
<1> DEFINE D == 1 .. n
           pick == [s \in SUBSET D |-> Min(s)]
<1>1. IsFiniteSet(D)
  BY FS_Interval
<1>2. \A s \in SUBSET D : s # {} => pick[s] \in s
  <2>1. \A s \in SUBSET D : s \subseteq Nat
    OBVIOUS
  <2>2. QED
    BY <2>1, LeastOf
<1>3. \A s \in SUBSET D : pick[s] = Min(s)
  OBVIOUS
<1>4. F \in [D -> [T -> T]]
  OBVIOUS
<1> HIDE DEF D, pick
<1>5. PICK g \in [SUBSET D -> T] : FoldOver(g, D, b, pick, F)
  <2>1. Foldable(D, T, b, pick, F)
    BY <1>1, <1>2, <1>4 DEF Foldable
  <2>2. Definable(D, T, b, pick, F)
    BY ONLY <2>1, FoldExists
  <2>3. QED
    BY <2>2 DEF Definable
<1>6. g = [s \in SUBSET D |-> IF s = {} THEN b ELSE F[Min(s)][g[s \ {Min(s)}]]]
  BY <1>3, <1>5 DEF FoldOver
<1>7. QED
  BY <1>5, <1>6 DEF D, RightFolded, FromRight

(* The library's folds run through the states one element after the other.   *)
LeftRun(r, n, T, b, F) ==
  /\ r \in [0 .. n -> T] /\ r[0] = b
  /\ \A i \in 1 .. n : r[i] = F[i][r[i - 1]]

FoldsLeft(h, n, T, b, F) ==
  /\ h[{}] = b
  /\ \A s \in SUBSET (1 .. n) : s # {} /\ h[s \ {Max(s)}] \in T =>
       h[s] = F[Max(s)][h[s \ {Max(s)}]]

RunsLeft(h, n, T, b, F) == \E r : LeftRun(r, n, T, b, F) /\ r[n] = h[1 .. n]

LEMMA LeftRunIs ==
  ASSUME NEW n, NEW T, NEW b, NEW F, StepsOf(n, T, b, F), NEW h, FoldsLeft(h, n, T, b, F)
  PROVE  RunsLeft(h, n, T, b, F)
<1> DEFINE r == [i \in 0 .. n |-> h[1 .. i]]
           S == {i \in 0 .. n : r[i] \in T}
<1>1. n \in Nat /\ b \in T /\ F \in [1 .. n -> [T -> T]]
  BY DEF StepsOf
<1>2. r[0] = b
  <2>1. 1 .. 0 = {}
    OBVIOUS
  <2>2. QED
    BY <1>1, <2>1 DEF FoldsLeft
<1>3. \A i \in 1 .. n : r[i - 1] \in T => r[i] = F[i][r[i - 1]]
  <2>1. SUFFICES ASSUME NEW i \in 1 .. n, r[i - 1] \in T
                 PROVE  r[i] = F[i][r[i - 1]]
    OBVIOUS
  <2>2. r[i] = h[1 .. i] /\ r[i - 1] = h[1 .. i - 1]
    BY <1>1
  <2>3. /\ 1 .. i \in SUBSET (1 .. n) /\ 1 .. i # {}
        /\ Max(1 .. i) = i /\ (1 .. i) \ {i} = 1 .. i - 1
    BY <1>1, UpTo
  <2> HIDE DEF r
  <2>4. QED
    BY <2>1, <2>2, <2>3 DEF FoldsLeft
<1> HIDE DEF r
<1>4. \A i \in 0 .. n : r[i] \in T
  <2>1. 0 \in S
    BY <1>1, <1>2
  <2>2. \A i \in 1 .. n : i - 1 \in S => i \in S
    BY <1>1, <1>3
  <2> HIDE DEF S
  <2>3. \A i \in 0 .. n : i \in S
    BY <1>1, <2>1, <2>2, Climbs
  <2>4. QED
    BY <2>3 DEF S
<1>5. r \in [0 .. n -> T]
  BY <1>4 DEF r
<1>6. r[n] = h[1 .. n]
  BY <1>1 DEF r
<1>7. LeftRun(r, n, T, b, F)
  <2>1. \A i \in 1 .. n : i - 1 \in 0 .. n
    BY <1>1
  <2>2. QED
    BY <1>2, <1>3, <1>4, <1>5, <2>1 DEF LeftRun
<1>8. QED
  BY <1>6, <1>7 DEF RunsLeft

RightRun(r, n, T, b, F) ==
  /\ r \in [0 .. n -> T] /\ r[n] = b
  /\ \A i \in 1 .. n : r[i - 1] = F[i][r[i]]

FoldsRight(h, n, T, b, F) ==
  /\ h[{}] = b
  /\ \A s \in SUBSET (1 .. n) : s # {} /\ h[s \ {Min(s)}] \in T =>
       h[s] = F[Min(s)][h[s \ {Min(s)}]]

RunsRight(h, n, T, b, F) == \E r : RightRun(r, n, T, b, F) /\ r[0] = h[1 .. n]

LEMMA RightRunIs ==
  ASSUME NEW n, NEW T, NEW b, NEW F, StepsOf(n, T, b, F), NEW h, FoldsRight(h, n, T, b, F)
  PROVE  RunsRight(h, n, T, b, F)
<1> DEFINE r == [i \in 0 .. n |-> h[i + 1 .. n]]
           S == {i \in 0 .. n : r[n - i] \in T}
<1>1. n \in Nat /\ b \in T /\ F \in [1 .. n -> [T -> T]]
  BY DEF StepsOf
<1>2. r[n] = b
  <2>1. n + 1 .. n = {}
    BY <1>1
  <2>2. QED
    BY <1>1, <2>1 DEF FoldsRight
<1>3. \A i \in 1 .. n : r[i] \in T => r[i - 1] = F[i][r[i]]
  <2>1. SUFFICES ASSUME NEW i \in 1 .. n, r[i] \in T
                 PROVE  r[i - 1] = F[i][r[i]]
    OBVIOUS
  <2>2. r[i - 1] = h[i .. n] /\ r[i] = h[i + 1 .. n]
    <3>1. i - 1 \in 0 .. n /\ i \in 0 .. n /\ (i - 1) + 1 = i
      BY <1>1
    <3>2. QED
      BY <3>1
  <2>3. /\ i .. n \in SUBSET (1 .. n) /\ i .. n # {}
        /\ Min(i .. n) = i /\ (i .. n) \ {i} = i + 1 .. n
    BY <1>1, DownTo
  <2>4. \A s \in SUBSET (1 .. n) : s # {} /\ h[s \ {Min(s)}] \in T =>
          h[s] = F[Min(s)][h[s \ {Min(s)}]]
    BY DEF FoldsRight
  <2>5. h[(i .. n) \ {i}] \in T => h[i .. n] = F[i][h[(i .. n) \ {i}]]
    BY ONLY <2>3, <2>4
  <2> HIDE DEF r
  <2>6. QED
    BY ONLY <2>1, <2>2, <2>3, <2>5
<1> HIDE DEF r
<1>4. \A i \in 0 .. n : r[i] \in T
  <2>1. 0 \in S
    BY <1>1, <1>2
  <2>2. \A i \in 1 .. n : i - 1 \in S => i \in S
    <3>1. SUFFICES ASSUME NEW i \in 1 .. n, r[n - (i - 1)] \in T
                   PROVE  r[n - i] \in T
      BY <1>1
    <3>2. n - (i - 1) \in 1 .. n /\ (n - (i - 1)) - 1 = n - i
      BY <1>1
    <3>3. r[n - i] = F[n - (i - 1)][r[n - (i - 1)]]
      BY <1>3, <3>1, <3>2
    <3>4. QED
      BY <1>1, <3>1, <3>2, <3>3
  <2> HIDE DEF S
  <2>3. \A i \in 0 .. n : i \in S
    BY <1>1, <2>1, <2>2, Climbs
  <2>4. \A i \in 0 .. n : n - i \in 0 .. n /\ n - (n - i) = i
    BY <1>1
  <2>5. QED
    BY <2>3, <2>4 DEF S
<1>5. r \in [0 .. n -> T]
  BY <1>4 DEF r
<1>6. r[0] = h[1 .. n]
  BY <1>1 DEF r
<1>7. RightRun(r, n, T, b, F)
  <2>1. \A i \in 1 .. n : i \in 0 .. n
    BY <1>1
  <2>2. QED
    BY <1>2, <1>3, <1>4, <1>5, <2>1 DEF RightRun
<1>8. QED
  BY <1>6, <1>7 DEF RunsRight

-----------------------------------------------------------------------------
(* Sums.                                                                     *)
SumAll(f, S) == MapThenSumSet(LAMBDA x : f[x], S)

Integral(f, S) == \A x \in S : f[x] \in Int

\* The library's sum is some function h on the subsets.
Summing(h, f, S) ==
  h = [s \in SUBSET S |->
         IF s = {} THEN 0
         ELSE f[CHOOSE x \in s : TRUE] + h[s \ {CHOOSE x \in s : TRUE}]]

LEMMA SumAllIs ==
  ASSUME NEW S, IsFiniteSet(S), NEW f, Integral(f, S)
  PROVE  \E h \in [SUBSET S -> Int] : Summing(h, f, S) /\ SumAll(f, S) = h[S]
<1> DEFINE pick == [s \in SUBSET S |-> CHOOSE x \in s : TRUE]
           F == [x \in S |-> [n \in Int |-> f[x] + n]]
           h == CHOOSE h : Summing(h, f, S)
<1>1. F \in [S -> [Int -> Int]]
  BY DEF Integral
<1>2. \A s \in SUBSET S : s # {} => pick[s] \in s
  OBVIOUS
<1>3. \A x \in S, n \in Int : F[x][n] = f[x] + n
  OBVIOUS
<1>4. \A s \in SUBSET S : pick[s] = CHOOSE x \in s : TRUE
  OBVIOUS
<1> HIDE DEF F, pick
<1>5. PICK g \in [SUBSET S -> Int] : FoldOver(g, S, 0, pick, F)
  <2>1. Foldable(S, Int, 0, pick, F)
    BY <1>1, <1>2 DEF Foldable
  <2>2. Definable(S, Int, 0, pick, F)
    BY ONLY <2>1, FoldExists
  <2>3. QED
    BY <2>2 DEF Definable
<1>6. Summing(g, f, S)
  <2>1. ASSUME NEW s \in SUBSET S, s # {}
        PROVE  F[pick[s]][g[s \ {pick[s]}]] = f[pick[s]] + g[s \ {pick[s]}]
    <3>1. pick[s] \in S
      BY <1>2, <2>1
    <3>2. s \ {pick[s]} \in SUBSET S
      BY <2>1
    <3>3. g[s \ {pick[s]}] \in Int
      BY <3>2
    <3>4. QED
      BY ONLY <1>3, <3>1, <3>3
  <2>2. g = [s \in SUBSET S |-> IF s = {} THEN 0 ELSE F[pick[s]][g[s \ {pick[s]}]]]
    BY <1>5 DEF FoldOver
  <2>3. g = [s \in SUBSET S |-> IF s = {} THEN 0 ELSE f[pick[s]] + g[s \ {pick[s]}]]
    BY ONLY <2>1, <2>2
  <2>4. QED
    BY ONLY <1>4, <2>3 DEF Summing
<1>7. Summing(h, f, S)
  BY <1>6
<1>8. SumAll(f, S) = h[S]
  BY DEF SumAll, MapThenSumSet, MapThenFoldSet, Summing
<1> HIDE DEF h
<1>9. ASSUME NEW s \in SUBSET S
      PROVE  h[s] = g[s]
  <2> DEFINE differ == {t \in SUBSET S : h[t] # g[t]}
             sizes == {Cardinality(t) : t \in differ}
  <2> SUFFICES ASSUME differ # {}
               PROVE  FALSE
    OBVIOUS
  <2>1. \A t \in SUBSET S : IsFiniteSet(t) /\ Cardinality(t) \in Nat
    BY FS_Subset, FS_CardinalityType
  <2>2. sizes \subseteq Nat /\ sizes # {}
    BY <2>1
  <2>3. PICK k \in sizes : \A j \in sizes : k <= j
    <3> HIDE DEF sizes
    <3> QED
      BY <2>2, LeastIn
  <2>4. PICK t \in differ : Cardinality(t) = k
    OBVIOUS
  <2> DEFINE c == CHOOSE x \in t : TRUE
  <2>5. t # {} /\ t \in SUBSET S
    BY <1>6, <1>7, <2>4 DEF Summing
  <2>6. c \in t
    BY <2>5
  <2>7. t \ {c} \in SUBSET S /\ Cardinality(t \ {c}) = k - 1 /\ k \in Nat
    BY <2>1, <2>4, <2>5, <2>6, FS_RemoveElement
  <2>8. t \ {c} \notin differ
    <3>1. ASSUME t \ {c} \in differ
          PROVE  FALSE
      <4>1. k - 1 \in sizes
        BY <2>7, <3>1
      <4>2. QED
        BY <2>3, <2>7, <4>1
    <3>2. QED
      BY <3>1
  <2>9. h[t \ {c}] = g[t \ {c}]
    BY <2>7, <2>8
  <2>10. h[t] = f[c] + h[t \ {c}] /\ g[t] = f[c] + g[t \ {c}]
    BY <1>6, <1>7, <2>5 DEF Summing
  <2>11. QED
    BY <2>4, <2>9, <2>10
<1>10. h \in [SUBSET S -> Int]
  <2>1. h = [s \in SUBSET S |-> h[s]]
    BY <1>7 DEF Summing
  <2>2. QED
    BY <1>9, <2>1
<1>11. QED
  BY <1>7, <1>8, <1>10

LEMMA SumEmpty ==
  ASSUME NEW f
  PROVE  SumAll(f, {}) = 0
<1>1. IsFiniteSet({}) /\ Integral(f, {})
  BY FS_EmptySet DEF Integral
<1>2. PICK h \in [SUBSET {} -> Int] : Summing(h, f, {}) /\ SumAll(f, {}) = h[{}]
  BY <1>1, SumAllIs
<1>3. QED
  BY <1>2 DEF Summing

LEMMA SumType ==
  ASSUME NEW S, IsFiniteSet(S), NEW f, Integral(f, S)
  PROVE  SumAll(f, S) \in Int
<1>1. PICK h \in [SUBSET S -> Int] : Summing(h, f, S) /\ SumAll(f, S) = h[S]
  BY SumAllIs
<1>2. QED
  BY <1>1

\* A sum over a part of S is what the sum over S passed through.
LEMMA SumOfPart ==
  ASSUME NEW S, IsFiniteSet(S), NEW f, NEW g, NEW R \in SUBSET S,
         Integral(f, S), Integral(g, R), \A x \in R : f[x] = g[x],
         NEW h, Summing(h, f, S), NEW k, Summing(k, g, R)
  PROVE  h[R] = k[R]
<1> DEFINE differ == {t \in SUBSET R : h[t] # k[t]}
           sizes == {Cardinality(t) : t \in differ}
<1> SUFFICES ASSUME differ # {}
             PROVE  FALSE
  OBVIOUS
<1>1. \A t \in SUBSET S : IsFiniteSet(t) /\ Cardinality(t) \in Nat
  BY FS_Subset, FS_CardinalityType
<1>2. sizes \subseteq Nat /\ sizes # {}
  BY <1>1
<1>3. PICK n \in sizes : \A j \in sizes : n <= j
  <2> HIDE DEF sizes
  <2> QED
    BY <1>2, LeastIn
<1>4. PICK t \in differ : Cardinality(t) = n
  OBVIOUS
<1> DEFINE c == CHOOSE x \in t : TRUE
<1>5. t # {} /\ t \in SUBSET R /\ t \in SUBSET S
  BY <1>4 DEF Summing
<1>6. c \in t
  BY <1>5
<1>7. t \ {c} \in SUBSET R /\ Cardinality(t \ {c}) = n - 1 /\ n \in Nat
  BY <1>1, <1>4, <1>5, <1>6, FS_RemoveElement
<1>8. t \ {c} \notin differ
  <2>1. ASSUME t \ {c} \in differ
        PROVE  FALSE
    <3>1. n - 1 \in sizes
      BY <1>7, <2>1
    <3>2. QED
      BY <1>3, <1>7, <3>1
  <2>2. QED
    BY <2>1
<1>9. h[t \ {c}] = k[t \ {c}]
  BY <1>7, <1>8
<1>10. h[t] = f[c] + h[t \ {c}] /\ k[t] = g[c] + k[t \ {c}]
  BY <1>5 DEF Summing
<1>11. f[c] = g[c]
  BY <1>5, <1>6
<1>12. QED
  BY <1>4, <1>9, <1>10, <1>11

LEMMA SumSame ==
  ASSUME NEW S, IsFiniteSet(S), NEW f, NEW g, Integral(f, S),
         \A x \in S : f[x] = g[x]
  PROVE  SumAll(f, S) = SumAll(g, S)
<1>1. Integral(g, S) /\ S \in SUBSET S
  BY DEF Integral
<1>2. PICK h \in [SUBSET S -> Int] : Summing(h, f, S) /\ SumAll(f, S) = h[S]
  BY SumAllIs
<1>3. PICK k \in [SUBSET S -> Int] : Summing(k, g, S) /\ SumAll(g, S) = k[S]
  BY <1>1, SumAllIs
<1>4. h[S] = k[S]
  BY <1>1, <1>2, <1>3, SumOfPart
<1>5. QED
  BY <1>2, <1>3, <1>4

\* The element the library takes first.
LEMMA SumChosen ==
  ASSUME NEW S, IsFiniteSet(S), S # {}, NEW f, Integral(f, S)
  PROVE  \E c \in S : SumAll(f, S) = f[c] + SumAll(f, S \ {c})
<1> DEFINE c == CHOOSE x \in S : TRUE
           R == S \ {c}
<1>1. c \in S
  OBVIOUS
<1>2. R \in SUBSET S /\ IsFiniteSet(R) /\ Integral(f, R)
  BY FS_Subset DEF Integral
<1>3. PICK h \in [SUBSET S -> Int] : Summing(h, f, S) /\ SumAll(f, S) = h[S]
  BY SumAllIs
<1> HIDE DEF R
<1>4. PICK k \in [SUBSET R -> Int] : Summing(k, f, R) /\ SumAll(f, R) = k[R]
  BY <1>2, SumAllIs
<1>5. h[R] = k[R]
  BY <1>2, <1>3, <1>4, SumOfPart
<1>6. h[S] = f[c] + h[R]
  BY <1>3 DEF Summing, R
<1>7. QED
  BY <1>1, <1>3, <1>4, <1>5, <1>6 DEF R

Splits(f, S) == \A x \in S : SumAll(f, S) = f[x] + SumAll(f, S \ {x})

LEMMA SumSplits ==
  ASSUME NEW S, IsFiniteSet(S), NEW f, Integral(f, S)
  PROVE  Splits(f, S)
<1> DEFINE bad == {t \in SUBSET S : ~ Splits(f, t)}
           sizes == {Cardinality(t) : t \in bad}
<1> SUFFICES ASSUME bad # {}
             PROVE  FALSE
  OBVIOUS
<1>1. \A t \in SUBSET S : IsFiniteSet(t) /\ Cardinality(t) \in Nat /\ Integral(f, t)
  BY FS_Subset, FS_CardinalityType DEF Integral
<1>2. sizes \subseteq Nat /\ sizes # {}
  BY <1>1
<1>3. PICK n \in sizes : \A j \in sizes : n <= j
  <2> HIDE DEF sizes
  <2> QED
    BY <1>2, LeastIn
<1>4. PICK t \in bad : Cardinality(t) = n
  OBVIOUS
<1>5. t \in SUBSET S /\ IsFiniteSet(t) /\ Integral(f, t) /\ n \in Nat
  BY <1>1, <1>4
<1>6. ASSUME NEW y \in t
      PROVE  Splits(f, t \ {y})
  <2>1. t \ {y} \in SUBSET S /\ Cardinality(t \ {y}) = n - 1
    BY <1>4, <1>5, FS_RemoveElement
  <2>2. ASSUME t \ {y} \in bad
        PROVE  FALSE
    <3>1. n - 1 \in sizes
      BY <2>1, <2>2
    <3>2. QED
      BY <1>3, <1>5, <3>1
  <2>3. QED
    BY <2>1, <2>2
<1>7. PICK x \in t : SumAll(f, t) # f[x] + SumAll(f, t \ {x})
  BY <1>4 DEF Splits
<1>8. PICK c \in t : SumAll(f, t) = f[c] + SumAll(f, t \ {c})
  BY <1>5, <1>7, SumChosen
<1>9. x # c /\ x \in t \ {c} /\ c \in t \ {x}
  BY <1>7, <1>8
<1>10. (t \ {c}) \ {x} = (t \ {x}) \ {c}
  OBVIOUS
<1> DEFINE rest == SumAll(f, (t \ {x}) \ {c})
<1>11. SumAll(f, t \ {c}) = f[x] + rest /\ SumAll(f, t \ {x}) = f[c] + rest
  BY <1>6, <1>9, <1>10 DEF Splits
<1>12. rest \in Int /\ f[x] \in Int /\ f[c] \in Int
  <2>1. (t \ {x}) \ {c} \in SUBSET S
    BY <1>5
  <2>2. QED
    BY <1>1, <1>5, <2>1, SumType DEF Integral
<1> HIDE DEF rest
<1>13. QED
  BY <1>7, <1>8, <1>11, <1>12

LEMMA SumSplit ==
  ASSUME NEW S, IsFiniteSet(S), NEW f, Integral(f, S), NEW x \in S
  PROVE  /\ SumAll(f, S) = f[x] + SumAll(f, S \ {x})
         /\ SumAll(f, S \ {x}) \in Int
<1>1. IsFiniteSet(S \ {x}) /\ Integral(f, S \ {x})
  BY FS_RemoveElement DEF Integral
<1>2. SumAll(f, S \ {x}) \in Int
  BY <1>1, SumType
<1>3. Splits(f, S)
  BY SumSplits
<1>4. QED
  BY <1>2, <1>3 DEF Splits

\* Two functions that differ at one element only.
LEMMA SumChange ==
  ASSUME NEW S, IsFiniteSet(S), NEW f, NEW g, Integral(f, S), Integral(g, S),
         NEW x \in S, \A y \in S \ {x} : f[y] = g[y]
  PROVE  SumAll(g, S) = SumAll(f, S) + g[x] - f[x]
<1>1. /\ SumAll(f, S) = f[x] + SumAll(f, S \ {x})
      /\ SumAll(g, S) = g[x] + SumAll(g, S \ {x})
      /\ SumAll(f, S \ {x}) \in Int
  BY SumSplit
<1>2. IsFiniteSet(S \ {x}) /\ Integral(f, S \ {x})
  BY FS_RemoveElement DEF Integral
<1>3. SumAll(f, S \ {x}) = SumAll(g, S \ {x})
  BY <1>2, SumSame
<1>4. f[x] \in Int /\ g[x] \in Int
  BY DEF Integral
<1>5. QED
  BY <1>1, <1>3, <1>4

\* There is a number that adds nothing, even to itself: what a trade that moves
\* nothing hands over.
LEMMA Nought == \E n \in Int : n + n = 0
<1>1. 0 \in Int /\ 0 + 0 = 0
  OBVIOUS
<1>2. QED
  BY <1>1

\* What is moved from one element to another leaves the sum.
LEMMA SumMoves ==
  ASSUME NEW S, IsFiniteSet(S), NEW f, NEW g, Integral(f, S), Integral(g, S),
         NEW t \in S, NEW u \in S, t # u, g[t] + g[u] = f[t] + f[u],
         \A y \in S \ {t, u} : g[y] = f[y]
  PROVE  SumAll(g, S) = SumAll(f, S)
<1> DEFINE R == S \ {t}
           Q == R \ {u}
<1>1. /\ IsFiniteSet(R) /\ Integral(f, R) /\ Integral(g, R) /\ u \in R
      /\ \A y \in Q : g[y] = f[y]
      /\ f[t] \in Int /\ f[u] \in Int /\ g[t] \in Int /\ g[u] \in Int
  BY FS_Subset DEF Integral
<1>2. /\ SumAll(f, S) = f[t] + SumAll(f, R) /\ SumAll(g, S) = g[t] + SumAll(g, R)
  BY SumSplit
<1> HIDE DEF R
<1>3. /\ SumAll(f, R) = f[u] + SumAll(f, Q) /\ SumAll(g, R) = g[u] + SumAll(g, Q)
      /\ SumAll(f, Q) \in Int
  BY <1>1, SumSplit
<1>4. IsFiniteSet(Q) /\ Integral(f, Q)
  BY <1>1, FS_Subset DEF Integral
<1> HIDE DEF Q
<1>5. SumAll(g, Q) = SumAll(f, Q)
  BY <1>1, <1>4, SumSame
<1>6. QED
  BY <1>1, <1>2, <1>3, <1>5

Balances(f, g, a, b, S) == SumAll(f, S) + SumAll(g, S) = SumAll(a, S) + SumAll(b, S)

\* What is moved between two functions, element by element, is not lost.
LEMMA SumsBalance ==
  ASSUME NEW S, IsFiniteSet(S), NEW f, NEW g, NEW a, NEW b,
         Integral(f, S), Integral(g, S), Integral(a, S), Integral(b, S),
         \A x \in S : f[x] + g[x] = a[x] + b[x]
  PROVE  Balances(f, g, a, b, S)
<1> DEFINE bad == {t \in SUBSET S : ~ Balances(f, g, a, b, t)}
           sizes == {Cardinality(t) : t \in bad}
<1> SUFFICES ASSUME bad # {}
             PROVE  FALSE
  OBVIOUS
<1>1. \A t \in SUBSET S :
        /\ IsFiniteSet(t) /\ Cardinality(t) \in Nat
        /\ Integral(f, t) /\ Integral(g, t) /\ Integral(a, t) /\ Integral(b, t)
  BY FS_Subset, FS_CardinalityType DEF Integral
<1>2. sizes \subseteq Nat /\ sizes # {}
  BY <1>1
<1>3. PICK n \in sizes : \A j \in sizes : n <= j
  <2> HIDE DEF sizes
  <2> QED
    BY <1>2, LeastIn
<1>4. PICK t \in bad : Cardinality(t) = n
  OBVIOUS
<1>5. /\ t \in SUBSET S /\ IsFiniteSet(t) /\ n \in Nat
      /\ Integral(f, t) /\ Integral(g, t) /\ Integral(a, t) /\ Integral(b, t)
  BY <1>1, <1>4
<1>6. t # {}
  BY <1>4, SumEmpty DEF Balances
<1>7. PICK x \in t : TRUE
  BY <1>6
<1> DEFINE r == t \ {x}
<1>8. Balances(f, g, a, b, r)
  <2>1. r \in SUBSET S /\ Cardinality(r) = n - 1
    BY <1>4, <1>5, <1>7, FS_RemoveElement
  <2>2. ASSUME r \in bad
        PROVE  FALSE
    <3>1. n - 1 \in sizes
      BY <2>1, <2>2
    <3>2. QED
      BY <1>3, <1>5, <3>1
  <2>3. QED
    BY <2>1, <2>2
<1>9. /\ SumAll(f, t) = f[x] + SumAll(f, r) /\ SumAll(f, r) \in Int
      /\ SumAll(g, t) = g[x] + SumAll(g, r) /\ SumAll(g, r) \in Int
      /\ SumAll(a, t) = a[x] + SumAll(a, r) /\ SumAll(a, r) \in Int
      /\ SumAll(b, t) = b[x] + SumAll(b, r) /\ SumAll(b, r) \in Int
  BY <1>5, <1>7, SumSplit
<1>10. /\ f[x] \in Int /\ g[x] \in Int /\ a[x] \in Int /\ b[x] \in Int
       /\ f[x] + g[x] = a[x] + b[x]
  BY <1>5, <1>7 DEF Integral
<1> HIDE DEF r
<1>11. Balances(f, g, a, b, t)
  BY <1>8, <1>9, <1>10 DEF Balances
<1>12. QED
  BY <1>4, <1>11
\* What the empty part has, and every part has when it has it less any one
\* element, the whole set has.
LEMMA EveryPart ==
  ASSUME NEW S, IsFiniteSet(S), NEW good, {} \in good,
         \A t \in SUBSET S :
           t # {} /\ (\A x \in t : t \ {x} \in good) => t \in good
  PROVE  S \in good
<1> DEFINE bad == {t \in SUBSET S : t \notin good}
           sizes == {Cardinality(t) : t \in bad}
<1> SUFFICES ASSUME bad # {}
             PROVE  FALSE
  OBVIOUS
<1>1. \A t \in SUBSET S : IsFiniteSet(t) /\ Cardinality(t) \in Nat
  BY FS_Subset, FS_CardinalityType
<1>2. sizes \subseteq Nat /\ sizes # {}
  BY <1>1
<1>3. PICK n \in sizes : \A j \in sizes : n <= j
  <2> HIDE DEF sizes
  <2> QED
    BY <1>2, LeastIn
<1>4. PICK t \in bad : Cardinality(t) = n
  OBVIOUS
<1>5. t \in SUBSET S /\ IsFiniteSet(t) /\ n \in Nat
  BY <1>1, <1>4
<1>6. PICK x \in t : t \ {x} \notin good
  BY <1>4
<1>7. t \ {x} \in bad /\ Cardinality(t \ {x}) = n - 1
  BY <1>4, <1>5, <1>6, FS_RemoveElement
<1>8. n - 1 \in sizes
  BY <1>7
<1>9. QED
  BY <1>3, <1>5, <1>8

\* One element more.
LEMMA SumMore ==
  ASSUME NEW S, IsFiniteSet(S), NEW f, NEW x, x \notin S, Integral(f, S \cup {x})
  PROVE  SumAll(f, S \cup {x}) = f[x] + SumAll(f, S)
<1>1. IsFiniteSet(S \cup {x}) /\ (S \cup {x}) \ {x} = S /\ x \in S \cup {x}
  BY FS_AddElement
<1> DEFINE R == S \cup {x}
<1> HIDE DEF R
<1>2. SumAll(f, R) = f[x] + SumAll(f, R \ {x})
  BY <1>1, SumSplit DEF R
<1>3. QED
  BY <1>1, <1>2 DEF R

LEMMA SumZero ==
  ASSUME NEW S, IsFiniteSet(S), NEW f, \A x \in S : f[x] = 0
  PROVE  SumAll(f, S) = 0
<1> DEFINE good == {t \in SUBSET S : SumAll(f, t) = 0}
<1>1. {} \in good
  BY SumEmpty
<1>2. ASSUME NEW t \in SUBSET S, t # {}, \A x \in t : t \ {x} \in good
      PROVE  t \in good
  <2>1. PICK x \in t : TRUE
    BY <1>2
  <2>2. IsFiniteSet(t) /\ Integral(f, t)
    BY FS_Subset DEF Integral
  <2>3. SumAll(f, t) = f[x] + SumAll(f, t \ {x})
    BY <2>2, SumSplit
  <2>4. QED
    BY <1>2, <2>3
<1>3. S \in good
  <2> HIDE DEF good
  <2> QED
    BY <1>1, <1>2, EveryPart
<1>4. QED
  BY <1>3

\* The sum of a sum.
LEMMA SumPlus ==
  ASSUME NEW S, IsFiniteSet(S), NEW f, NEW g, NEW h,
         Integral(f, S), Integral(g, S), \A x \in S : h[x] = f[x] + g[x]
  PROVE  SumAll(h, S) = SumAll(f, S) + SumAll(g, S)
<1> DEFINE zero == [x \in S |-> 0]
<1>1. Integral(h, S) /\ Integral(zero, S)
  BY DEF Integral
<1>2. \A x \in S : f[x] + g[x] = h[x] + zero[x]
  BY DEF Integral
<1>3. SumAll(zero, S) = 0
  BY SumZero
<1> HIDE DEF zero
<1>4. Balances(f, g, h, zero, S)
  BY <1>1, <1>2, SumsBalance
<1>5. SumAll(h, S) \in Int
  BY <1>1, SumType
<1>6. QED
  BY <1>3, <1>4, <1>5 DEF Balances

\* A number of elements is a sum of ones.
LEMMA CountIsSum ==
  ASSUME NEW S, IsFiniteSet(S), NEW T, NEW f,
         \A x \in S : f[x] = IF x \in T THEN 1 ELSE 0
  PROVE  SumAll(f, S) = Cardinality(S \cap T)
<1> DEFINE good == {t \in SUBSET S : SumAll(f, t) = Cardinality(t \cap T)}
<1>1. {} \in good
  BY SumEmpty, FS_EmptySet
<1>2. ASSUME NEW t \in SUBSET S, t # {}, \A x \in t : t \ {x} \in good
      PROVE  t \in good
  <2>1. PICK x \in t : TRUE
    BY <1>2
  <2>2. IsFiniteSet(t) /\ IsFiniteSet(t \cap T) /\ Integral(f, t)
    BY FS_Subset DEF Integral
  <2>3. SumAll(f, t) = f[x] + SumAll(f, t \ {x})
    BY <2>2, SumSplit
  <2>4. SumAll(f, t \ {x}) = Cardinality((t \ {x}) \cap T)
    BY <1>2, <2>1
  <2>5. Cardinality(t \cap T) \in Nat
    BY <2>2, FS_CardinalityType
  <2>6. CASE x \in T
    <3>1. (t \ {x}) \cap T = (t \cap T) \ {x} /\ x \in t \cap T
      BY <2>1, <2>6
    <3>2. Cardinality((t \cap T) \ {x}) = Cardinality(t \cap T) - 1
      BY <2>2, <3>1, FS_RemoveElement
    <3>3. f[x] = 1
      BY <2>1, <2>6
    <3>4. SumAll(f, t) = 1 + (Cardinality(t \cap T) - 1)
      BY <2>3, <2>4, <3>1, <3>2, <3>3
    <3>5. QED
      BY <2>5, <3>4
  <2>7. CASE x \notin T
    <3>1. (t \ {x}) \cap T = t \cap T
      BY <2>7
    <3>2. QED
      BY <2>1, <2>3, <2>4, <2>5, <2>7, <3>1
  <2>8. QED
    BY <2>6, <2>7
<1>3. S \in good
  <2> HIDE DEF good
  <2> QED
    BY <1>1, <1>2, EveryPart
<1>4. QED
  BY <1>3

-----------------------------------------------------------------------------
(* Numbers that differ by whole turns of a counter that wraps at m.          *)
Wraps(m) == m \in Nat /\ m > 0

Same(m, a, b) == \E k \in Int : a = b + m * k

LEMMA SameItself ==
  ASSUME NEW m, Wraps(m), NEW a \in Int
  PROVE  Same(m, a, a)
<1>1. a = a + m * 0
  BY DEF Wraps
<1>2. QED
  BY <1>1 DEF Same

LEMMA SameSwapped ==
  ASSUME NEW m, Wraps(m), NEW a \in Int, NEW b \in Int, Same(m, a, b)
  PROVE  Same(m, b, a)
<1>1. PICK k \in Int : a = b + m * k
  BY DEF Same
<1>2. m * (-k) = -(m * k) /\ m * k \in Int
  BY DEF Wraps
<1>3. b = a + m * (-k) /\ -k \in Int
  BY <1>1, <1>2
<1>4. QED
  BY <1>3 DEF Same

LEMMA SameThrough ==
  ASSUME NEW m, Wraps(m), NEW a \in Int, NEW b \in Int, NEW c \in Int,
         Same(m, a, b), Same(m, b, c)
  PROVE  Same(m, a, c)
<1>1. PICK k \in Int : a = b + m * k
  BY DEF Same
<1>2. PICK l \in Int : b = c + m * l
  BY DEF Same
<1>3. m * (k + l) = m * k + m * l /\ m * k \in Int /\ m * l \in Int
  BY DEF Wraps
<1>4. a = c + m * (k + l) /\ k + l \in Int
  BY <1>1, <1>2, <1>3
<1>5. QED
  BY <1>4 DEF Same

LEMMA SameSum ==
  ASSUME NEW m, Wraps(m), NEW a \in Int, NEW b \in Int, NEW c \in Int, NEW d \in Int,
         Same(m, a, b), Same(m, c, d)
  PROVE  Same(m, a + c, b + d)
<1>1. PICK k \in Int : a = b + m * k
  BY DEF Same
<1>2. PICK l \in Int : c = d + m * l
  BY DEF Same
<1>3. m * (k + l) = m * k + m * l /\ m * k \in Int /\ m * l \in Int
  BY DEF Wraps
<1>4. a + c = (b + d) + m * (k + l) /\ k + l \in Int
  BY <1>1, <1>2, <1>3
<1>5. QED
  BY <1>4 DEF Same

LEMMA SameRemainder ==
  ASSUME NEW m, Wraps(m), NEW a \in Int
  PROVE  a % m \in 0 .. m - 1 /\ Same(m, a % m, a)
<1>1. a % m \in 0 .. m - 1 /\ a = m * (a \div m) + (a % m) /\ a \div m \in Int
  BY DEF Wraps
<1> DEFINE q == a \div m
           r == a % m
<1> HIDE DEF q, r
<1>2. m * (-q) = -(m * q) /\ m * q \in Int /\ r \in Int
  BY <1>1 DEF Wraps, q, r
<1>3. r = a + m * (-q) /\ -q \in Int
  BY <1>1, <1>2 DEF q, r
<1>4. Same(m, r, a)
  BY <1>3 DEF Same
<1>5. QED
  BY <1>1, <1>4 DEF r

LEMMA SameRest ==
  ASSUME NEW m, Wraps(m), NEW r \in 0 .. m - 1, NEW s \in 0 .. m - 1, Same(m, r, s)
  PROVE  r = s
<1>1. PICK k \in Int : r = s + m * k
  BY DEF Same
<1>2. k >= 1 => m * k >= m
  BY DEF Wraps
<1>3. k <= -1 => m * k <= -m
  BY DEF Wraps
<1>4. m * 0 = 0 /\ m * k \in Int
  BY DEF Wraps
<1>5. QED
  BY <1>1, <1>2, <1>3, <1>4 DEF Wraps

LEMMA SameModulo ==
  ASSUME NEW m, Wraps(m), NEW a \in Int, NEW b \in Int, Same(m, a, b)
  PROVE  a % m = b % m
<1> DEFINE r == a % m
           s == b % m
<1>1. r \in 0 .. m - 1 /\ s \in 0 .. m - 1 /\ Same(m, r, a) /\ Same(m, s, b)
  BY SameRemainder
<1> HIDE DEF r, s
<1>2. m \in Int /\ r \in Int /\ s \in Int
  BY <1>1 DEF Wraps
<1>3. Same(m, r, b) /\ Same(m, b, s)
  BY <1>1, <1>2, SameThrough, SameSwapped
<1>4. Same(m, r, s)
  BY <1>2, <1>3, SameThrough
<1>5. r = s
  BY <1>1, <1>4, SameRest
<1>6. QED
  BY <1>5 DEF r, s

LEMMA SameSums ==
  ASSUME NEW m, Wraps(m), NEW S, IsFiniteSet(S), NEW f, NEW g,
         Integral(f, S), Integral(g, S), \A x \in S : Same(m, f[x], g[x])
  PROVE  Same(m, SumAll(f, S), SumAll(g, S))
<1> DEFINE good == {t \in SUBSET S : Same(m, SumAll(f, t), SumAll(g, t))}
<1>1. {} \in good
  BY SumEmpty, SameItself
<1>2. ASSUME NEW t \in SUBSET S, t # {}, \A x \in t : t \ {x} \in good
      PROVE  t \in good
  <2>1. PICK x \in t : TRUE
    BY <1>2
  <2>2. IsFiniteSet(t) /\ Integral(f, t) /\ Integral(g, t)
    BY FS_Subset DEF Integral
  <2> DEFINE a == SumAll(f, t \ {x})
             b == SumAll(g, t \ {x})
  <2>3. SumAll(f, t) = f[x] + a /\ SumAll(g, t) = g[x] + b /\ a \in Int /\ b \in Int
    BY <2>2, SumSplit
  <2>4. Same(m, a, b) /\ Same(m, f[x], g[x])
    BY <1>2, <2>1
  <2>5. f[x] \in Int /\ g[x] \in Int
    BY <2>2 DEF Integral
  <2> HIDE DEF a, b
  <2>6. Same(m, f[x] + a, g[x] + b)
    BY <2>3, <2>4, <2>5, SameSum
  <2>7. QED
    BY <2>3, <2>6
<1>3. S \in good
  <2> HIDE DEF good
  <2> QED
    BY <1>1, <1>2, EveryPart
<1>4. QED
  BY <1>3
=============================================================================
