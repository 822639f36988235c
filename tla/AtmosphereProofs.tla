--------------------------- MODULE AtmosphereProofs ---------------------------
(***************************************************************************)
(* What happens to the air.  The registry of gas mixtures stays sound for  *)
(* any datums, tiles and gases: the hooks that change mixtures leave it    *)
(* alone, and its own operations keep the addresses, the heap and the      *)
(* count together.  Immutable air stays as it is, and what is moved        *)
(* between mixtures is not lost.  Neighbours that share never give more    *)
(* than they have, where nobody has more than three.  What the plan of a   *)
(* zone says flows adds up to what its tiles have too much.  A breach      *)
(* empties the zone and nothing else.                                      *)
(***************************************************************************)
EXTENDS Equalize, GasMixtures, AirSharing, FoldLemmas, FiniteSetTheorems, TLAPS

Held == {pointer[d] : d \in Datums} \ {Null}

\* What is lost is held by no datum: freeing what a datum holds loses nothing.
RegistryInv ==
  /\ pointer \in [Datums -> Pointers \cup {Null}]
  /\ allocated \subseteq Pointers /\ IsFiniteSet(allocated)
  /\ lost \cap Held = {}
  /\ RegistryIsSound

-----------------------------------------------------------------------------
LEMMA Initially == GasInit => RegistryInv
BY FS_EmptySet DEF GasInit, RegistryInv, RegistryIsSound, Held

(* The hooks that change mixtures leave the registry alone.                *)
LEMMA HeapKept ==
    ASSUME RegistryInv, UNCHANGED heap
    PROVE  RegistryInv'
BY DEF RegistryInv, RegistryIsSound, Held, heap

LEMMA RegisterKeeps ==
    ASSUME RegistryInv, NEW d \in Datums, Register(d)
    PROVE  RegistryInv'
<1> USE DEF RegistryInv, RegistryIsSound
<1>1. PICK p \in Unused : /\ pointer' = [pointer EXCEPT ![d] = p]
                          /\ allocated' = allocated \cup {p}
  BY DEF Register
<1>2. /\ gas_mixture_count' = gas_mixture_count + 1
      /\ lost' = lost \cup ({pointer[d]} \ {Null})
  BY DEF Register
<1>3. p \in Pointers /\ p \notin allocated /\ p # Null
  BY GasAssumption DEF Unused
<1>4. pointer' \in [Datums -> Pointers \cup {Null}] /\ pointer'[d] = p
      /\ \A e \in Datums \ {d} : pointer'[e] = pointer[e]
  BY <1>1, <1>3
<1>5. Held' = (Held \ {pointer[d]}) \cup {p}
  BY <1>3, <1>4 DEF Held
<1>6. /\ IsFiniteSet(allocated') /\ Cardinality(allocated') = Cardinality(allocated) + 1
      /\ allocated' \subseteq Pointers
  BY <1>1, <1>3, FS_AddElement
<1>7. p \notin lost
  BY <1>3
<1>8. lost' \cap Held' = {}
  BY <1>2, <1>3, <1>5, <1>7
<1>9. allocated' = lost' \cup Held'
  <2>1. pointer[d] # Null => pointer[d] \in Held
    BY DEF Held
  <2>2. allocated = lost \cup Held
    BY DEF Held
  <2>3. QED
    BY <1>1, <1>2, <1>5, <2>1, <2>2 DEF Held
<1>10. \A e, f \in Datums : pointer'[e] = pointer'[f] /\ e # f => pointer'[e] = Null
  BY <1>3, <1>4
<1>11. \A e \in Datums : pointer'[e] # Null => pointer'[e] \in allocated'
  BY <1>1, <1>4
<1>12. gas_mixture_count' = Cardinality(allocated')
  BY <1>2, <1>6
<1>13. QED
  BY <1>4, <1>6, <1>8, <1>9, <1>10, <1>11, <1>12 DEF Held

LEMMA FreeKeeps ==
    ASSUME RegistryInv, NEW d \in Datums, pointer[d] # Null, Free(d)
    PROVE  RegistryInv'
<1> USE DEF RegistryInv, RegistryIsSound
<1>1. /\ allocated' = allocated \ {pointer[d]}
      /\ gas_mixture_count' = gas_mixture_count - 1
      /\ pointer' = [pointer EXCEPT ![d] = Null]
      /\ lost' = lost
  BY DEF Free, AddressCleared
<1>2. /\ pointer' \in [Datums -> Pointers \cup {Null}] /\ pointer'[d] = Null
      /\ \A e \in Datums \ {d} : pointer'[e] = pointer[e]
  BY <1>1
<1>3. pointer[d] \in allocated /\ pointer[d] \in Held /\ pointer[d] \notin lost
  BY DEF Held
<1>4. \A e \in Datums \ {d} : pointer[e] # pointer[d]
  OBVIOUS
<1>5. Held' = Held \ {pointer[d]}
  BY <1>2, <1>4 DEF Held
<1>6. /\ IsFiniteSet(allocated') /\ Cardinality(allocated') = Cardinality(allocated) - 1
      /\ allocated' \subseteq Pointers
  <2>1. IsFiniteSet(allocated) /\ allocated \subseteq Pointers
    OBVIOUS
  <2>2. /\ IsFiniteSet(allocated \ {pointer[d]})
        /\ Cardinality(allocated \ {pointer[d]}) = Cardinality(allocated) - 1
    BY ONLY <1>3, <2>1, FS_RemoveElement
  <2>3. QED
    BY ONLY <1>1, <2>1, <2>2
<1>7. allocated' = lost' \cup Held'
  <2>1. allocated = lost \cup Held
    BY DEF Held
  <2>2. QED
    BY <1>1, <1>3, <1>5, <2>1
<1>8. lost' \cap Held' = {}
  BY <1>1, <1>5
<1>9. \A e \in Datums : pointer'[e] # Null => pointer'[e] \in allocated'
  BY <1>1, <1>2, <1>4
<1>10. \A e, f \in Datums : pointer'[e] = pointer'[f] /\ e # f => pointer'[e] = Null
  BY <1>2
<1>11. gas_mixture_count' = Cardinality(allocated')
  BY <1>1, <1>6
<1>12. QED
  BY <1>2, <1>6, <1>7, <1>8, <1>9, <1>10, <1>11 DEF Held

(* A datum with many variables is deleted, and its pointer stays behind.   *)
LEMMA DelDatumKeeps ==
    ASSUME RegistryInv, NEW d \in Datums, DelDatum(d)
    PROVE  RegistryInv'
<1> USE DEF RegistryInv, RegistryIsSound
<1>1. pointer[d] # Null
  BY DEF DelDatum
<1>2. CASE d \notin long
  BY <1>1, <1>2, FreeKeeps DEF DelDatum
<1>3. CASE d \in long
  <2>1. /\ pointer' = [pointer EXCEPT ![d] = Null]
        /\ lost' = lost \cup {pointer[d]}
        /\ UNCHANGED <<allocated, gas_mixture_count>>
    BY <1>3 DEF DelDatum
  <2>2. /\ pointer' \in [Datums -> Pointers \cup {Null}] /\ pointer'[d] = Null
        /\ \A e \in Datums \ {d} : pointer'[e] = pointer[e]
    BY <2>1
  <2>3. \A e \in Datums \ {d} : pointer[e] # pointer[d]
    BY <1>1
  <2>4. Held' = Held \ {pointer[d]} /\ pointer[d] \in Held
    BY <1>1, <2>2, <2>3 DEF Held
  <2>5. lost' \cap Held' = {}
    BY <2>1, <2>4
  <2>6. allocated' = lost' \cup Held'
    <3>1. allocated = lost \cup Held
      BY DEF Held
    <3>2. QED
      BY <2>1, <2>4, <3>1
  <2>7. \A e \in Datums : pointer'[e] # Null => pointer'[e] \in allocated'
    BY <2>1, <2>2
  <2>8. \A e, f \in Datums : pointer'[e] = pointer'[f] /\ e # f => pointer'[e] = Null
    BY <2>2
  <2>9. QED
    BY <2>1, <2>2, <2>5, <2>6, <2>7, <2>8 DEF Held
<1>4. QED
  BY <1>2, <1>3

(* A step that is none of the registry's three operations on a datum keeps *)
(* the heap.                                                               *)
LEMMA HooksKeepHeap ==
    ASSUME NEW d \in Datums, NEW e \in Datums, Single(d) \/ Pair(d, e)
    PROVE  UNCHANGED heap
<1>1. CASE Single(d)
  BY <1>1 DEF Single, Change
<1>2. CASE HookMerge(d, e)
  BY <1>2 DEF HookMerge, Change
<1>3. CASE HookCopyFrom(d, e)
  BY <1>3 DEF HookCopyFrom, Change
<1>4. CASE HookRemove(d, e)
  BY <1>4 DEF HookRemove, RemoveInto, Change, Change2
<1>5. ASSUME NEW adjacent \in {1, 4}, HookShare(d, e, adjacent)
      PROVE  UNCHANGED heap
  BY <1>5 DEF HookShare, Change2
<1>6. ASSUME NEW gases \in SUBSET Gases \ {{}}, HookScrubInto(d, e, gases)
      PROVE  UNCHANGED heap
  BY <1>6 DEF HookScrubInto, Change, Change2
<1>7. QED
  BY <1>1, <1>2, <1>3, <1>4, <1>5, <1>6 DEF Pair

LEMMA Step ==
    ASSUME RegistryInv, [GasNext]_gasVars
    PROVE  RegistryInv'
<1>1. ASSUME NEW d \in Datums, Register(d)
      PROVE  RegistryInv'
  BY <1>1, RegisterKeeps
<1>2. ASSUME NEW d \in Datums, Unregister(d)
      PROVE  RegistryInv'
  BY <1>2, FreeKeeps DEF Unregister
<1>3. ASSUME NEW d \in Datums, DelDatum(d)
      PROVE  RegistryInv'
  BY <1>3, DelDatumKeeps
<1>4. ASSUME NEW t \in Turfs, NEW p \in Pointers \cup {Null}, UpdateAirRef(t, p)
      PROVE  RegistryInv'
  <2>1. UNCHANGED heap
    BY <1>4 DEF UpdateAirRef
  <2>2. QED
    BY <2>1, HeapKept
<1>5. ASSUME NEW d \in Datums, Single(d)
      PROVE  RegistryInv'
  <2>1. UNCHANGED heap
    BY <1>5, HooksKeepHeap
  <2>2. QED
    BY <2>1, HeapKept
<1>6. ASSUME NEW d \in Datums, NEW e \in Datums, Pair(d, e)
      PROVE  RegistryInv'
  <2>1. UNCHANGED heap
    BY <1>6, HooksKeepHeap
  <2>2. QED
    BY <2>1, HeapKept
<1>7. CASE UNCHANGED gasVars
  <2>1. UNCHANGED heap
    BY <1>7 DEF gasVars
  <2>2. QED
    BY <2>1, HeapKept
<1>8. QED
  BY <1>1, <1>2, <1>3, <1>4, <1>5, <1>6, <1>7 DEF GasNext, Registry

(* gasmixture_register, gasmixture_unregister and hDelDatum, with every    *)
(* hook that changes mixtures in between: no datum holds a freed address,  *)
(* no two the same, and gas_mixture_count counts what is on the heap.      *)
THEOREM RegistryStaysSound == GasSpec => []RegistryIsSound
<1>1. RegistryInv /\ [GasNext]_gasVars => RegistryInv'
  BY Step
<1>2. RegistryInv => RegistryIsSound
  BY DEF RegistryInv
<1>3. QED
  BY <1>1, <1>2, Initially, PTL DEF GasSpec

-----------------------------------------------------------------------------
(***************************************************************************)
(* Immutable air.                                                          *)
(***************************************************************************)
\* A mixture is a record of the four fields, whatever its amounts are.
IsMixture(m) ==
  m = [moles |-> m.moles, archived |-> m.archived,
       immutable |-> m.immutable, vacuum |-> m.vacuum]

MixturesInv ==
  /\ pointer \in [Datums -> Pointers \cup {Null}]
  /\ mixture = [p \in Pointers |-> mixture[p]]
  /\ \A p \in Pointers : IsMixture(mixture[p])

\* What a call makes of the mixture m: one of the same kind which, if m is
\* immutable, has the same air.
Succeeds(n, m) ==
  /\ IsMixture(n)
  /\ m.immutable => n.immutable /\ n.moles = m.moles

(* GasMixture::set_moles and what is built on it look at the flag first.   *)
LEMMA SetMolesSucceeds ==
    ASSUME NEW m, IsMixture(m), NEW amounts
    PROVE  Succeeds(SetMoles(m, amounts), m)
BY DEF SetMoles, Succeeds, IsMixture

LEMMA SubtractSucceeds ==
    ASSUME NEW m, IsMixture(m), NEW removed
    PROVE  Succeeds(Subtract(m, removed), m)
BY SetMolesSucceeds DEF Subtract

LEMMA MergeSucceeds ==
    ASSUME NEW m, IsMixture(m), NEW giver
    PROVE  Succeeds(Merge(m, giver), m)
BY SetMolesSucceeds DEF Merge

LEMMA CopySucceeds ==
    ASSUME NEW m, IsMixture(m), NEW amounts
    PROVE  Succeeds(CopyFromMutable(m, amounts), m)
<1>1. Succeeds(m, m)
  BY DEF Succeeds
<1>2. QED
  BY <1>1, SetMolesSucceeds DEF CopyFromMutable

LEMMA SucceedsTwice ==
    ASSUME NEW m, NEW n, NEW o, Succeeds(n, m), Succeeds(o, n)
    PROVE  Succeeds(o, m)
BY DEF Succeeds

LEMMA ArchiveSucceeds ==
    ASSUME NEW m, IsMixture(m)
    PROVE  Succeeds([m EXCEPT !.archived = m.moles], m)
BY DEF Succeeds, IsMixture

LEMMA MarkSucceeds ==
    ASSUME NEW m, IsMixture(m)
    PROVE  /\ Succeeds([m EXCEPT !.immutable = TRUE], m)
           /\ Succeeds([m EXCEPT !.vacuum = TRUE], m)
<1>1. /\ [m EXCEPT !.immutable = TRUE] =
            [moles |-> m.moles, archived |-> m.archived,
             immutable |-> TRUE, vacuum |-> m.vacuum]
      /\ [m EXCEPT !.vacuum = TRUE] =
            [moles |-> m.moles, archived |-> m.archived,
             immutable |-> m.immutable, vacuum |-> TRUE]
  <2>1. ASSUME NEW flag
        PROVE  /\ [m EXCEPT !.immutable = flag] =
                    [moles |-> m.moles, archived |-> m.archived,
                     immutable |-> flag, vacuum |-> m.vacuum]
               /\ [m EXCEPT !.vacuum = flag] =
                    [moles |-> m.moles, archived |-> m.archived,
                     immutable |-> m.immutable, vacuum |-> flag]
    BY DEF IsMixture
  <2>2. QED
    BY ONLY <2>1
<1>2. QED
  BY <1>1 DEF Succeeds, IsMixture

\* What a step leaves of the mixtures.
AirKept ==
  /\ mixture' = [p \in Pointers |-> mixture'[p]]
  /\ \A p \in Pointers : /\ IsMixture(mixture'[p])
                         /\ p \notin Unused' => Succeeds(mixture'[p], mixture[p])

LEMMA ChangeKeeps ==
    ASSUME MixturesInv, NEW d \in Datums, NEW m,
           Succeeds(m, Of(d)), Change(d, m)
    PROVE  AirKept
<1>1. pointer[d] \in Pointers
  BY DEF MixturesInv, Change
<1>2. mixture' = [mixture EXCEPT ![pointer[d]] = m]
  BY DEF Change
<1>3. \A p \in Pointers : Succeeds(mixture[p], mixture[p])
  BY DEF MixturesInv, Succeeds
<1>4. \A p \in Pointers : mixture'[p] = IF p = pointer[d] THEN m ELSE mixture[p]
  BY <1>1, <1>2 DEF MixturesInv
<1>5. mixture' = [p \in Pointers |-> mixture'[p]]
  BY <1>1, <1>2 DEF MixturesInv
<1>6. \A p \in Pointers : Succeeds(mixture'[p], mixture[p])
  BY <1>1, <1>3, <1>4 DEF Of
<1>7. QED
  BY <1>5, <1>6 DEF AirKept, Succeeds

LEMMA Change2Keeps ==
    ASSUME MixturesInv,
           NEW d \in Datums, NEW e \in Datums, NEW m, NEW n,
           Succeeds(m, Of(d)), Succeeds(n, Of(e)), Change2(d, m, e, n)
    PROVE  AirKept
<1>1. pointer[d] \in Pointers /\ pointer[e] \in Pointers
  BY DEF MixturesInv, Change2
<1>2. mixture' = [mixture EXCEPT ![pointer[d]] = m, ![pointer[e]] = n]
  BY DEF Change2
<1>3. \A p \in Pointers : Succeeds(mixture[p], mixture[p])
  BY DEF MixturesInv, Succeeds
<1>4. \A p \in Pointers :
        mixture'[p] = IF p = pointer[e] THEN n ELSE IF p = pointer[d] THEN m ELSE mixture[p]
  BY <1>1, <1>2 DEF MixturesInv
<1>5. mixture' = [p \in Pointers |-> mixture'[p]]
  BY <1>1, <1>2 DEF MixturesInv
<1>6. \A p \in Pointers : Succeeds(mixture'[p], mixture[p])
  BY <1>1, <1>3, <1>4 DEF Of
<1>7. QED
  BY <1>5, <1>6 DEF AirKept, Succeeds

(* A mixture that something still holds is not swept.                      *)
LEMMA SweepKeeps ==
    ASSUME MixturesInv, mixture' = Sweep(mixture, allocated', tile_air')
    PROVE  AirKept
<1>1. \A p \in Pointers :
        mixture'[p] = IF p \in Unused' THEN GasMixture ELSE mixture[p]
  BY DEF Sweep, Unused
<1>2. mixture' = [p \in Pointers |-> mixture'[p]]
  BY DEF Sweep
<1>3. IsMixture(GasMixture)
  BY DEF IsMixture, GasMixture
<1>4. \A p \in Pointers : Succeeds(mixture[p], mixture[p])
  BY DEF MixturesInv, Succeeds
<1>5. QED
  BY <1>1, <1>2, <1>3, <1>4 DEF AirKept, MixturesInv

LEMMA StillKeeps ==
    ASSUME MixturesInv, UNCHANGED mixture
    PROVE  AirKept
BY DEF AirKept, MixturesInv, Succeeds

LEMMA SingleKeeps ==
    ASSUME MixturesInv, NEW d \in Datums, Single(d)
    PROVE  AirKept
<1>1. IsMixture(Of(d))
  BY DEF Single, MixturesInv, Of
<1>2. CASE Change(d, [Of(d) EXCEPT !.archived = Of(d).moles])
  BY <1>1, <1>2, ArchiveSucceeds, ChangeKeeps
<1>3. CASE Change(d, [Of(d) EXCEPT !.immutable = TRUE])
  BY <1>1, <1>3, MarkSucceeds, ChangeKeeps
<1>4. CASE Change(d, [Of(d) EXCEPT !.vacuum = TRUE])
  BY <1>1, <1>4, MarkSucceeds, ChangeKeeps
<1>5. ASSUME NEW amounts, Change(d, SetMoles(Of(d), amounts))
      PROVE  AirKept
  BY <1>1, <1>5, SetMolesSucceeds, ChangeKeeps
<1>6. QED
  BY <1>2, <1>3, <1>4, <1>5 DEF Single

LEMMA RemoveKeepsAir ==
    ASSUME MixturesInv, NEW d \in Datums, NEW e \in Datums,
           pointer[d] # Null, pointer[e] # Null,
           NEW part, NEW whole, RemoveInto(d, e, part, whole)
    PROVE  AirKept
<1> DEFINE removed == RatioOf(Of(d), part, whole)
           left == Subtract(Of(d), removed)
<1>1. IsMixture(Of(d)) /\ IsMixture(Of(e))
  BY DEF MixturesInv, Of
<1>2. IF pointer[d] = pointer[e] THEN Change(d, CopyFromMutable(left, removed))
      ELSE Change2(d, left, e, CopyFromMutable(Of(e), removed))
  BY DEF RemoveInto
<1> HIDE DEF removed
<1>3. Succeeds(left, Of(d))
  BY <1>1, SubtractSucceeds
<1> HIDE DEF left
<1>4. Succeeds(CopyFromMutable(left, removed), Of(d))
  <2>1. Succeeds(CopyFromMutable(left, removed), left)
    BY <1>3, CopySucceeds DEF Succeeds
  <2>2. QED
    BY <1>3, <2>1, SucceedsTwice
<1>5. Succeeds(CopyFromMutable(Of(e), removed), Of(e))
  BY <1>1, CopySucceeds
<1>6. QED
  BY <1>2, <1>3, <1>4, <1>5, ChangeKeeps, Change2Keeps

LEMMA ScrubKeepsAir ==
    ASSUME MixturesInv, NEW d \in Datums, NEW e \in Datums,
           NEW gases, HookScrubInto(d, e, gases)
    PROVE  AirKept
<1> DEFINE scrubbed == [g \in Gases |-> IF g \in gases /\ Of(d).moles[g] > 0
                                        THEN Of(d).moles[g] ELSE 0]
           kept == [g \in Gases |-> IF g \in gases THEN 0 ELSE Of(d).moles[g]]
           left == SetMoles(Of(d), kept)
           buffer == [GasMixture EXCEPT !.moles = scrubbed]
<1>1. IsMixture(Of(d)) /\ IsMixture(Of(e))
  BY DEF HookScrubInto, MixturesInv, Of
<1>2. IF pointer[d] = pointer[e] THEN Change(d, Merge(left, buffer))
      ELSE Change2(d, left, e, Merge(Of(e), buffer))
  BY DEF HookScrubInto
<1> HIDE DEF scrubbed, kept, buffer
<1>3. Succeeds(left, Of(d))
  BY <1>1, SetMolesSucceeds
<1> HIDE DEF left
<1>4. Succeeds(Merge(left, buffer), Of(d))
  <2>1. Succeeds(Merge(left, buffer), left)
    BY <1>3, MergeSucceeds DEF Succeeds
  <2>2. QED
    BY <1>3, <2>1, SucceedsTwice
<1>5. Succeeds(Merge(Of(e), buffer), Of(e))
  BY <1>1, MergeSucceeds
<1>6. QED
  BY <1>2, <1>3, <1>4, <1>5, ChangeKeeps, Change2Keeps

LEMMA PairKeeps ==
    ASSUME MixturesInv, NEW d \in Datums, NEW e \in Datums, Pair(d, e)
    PROVE  AirKept
<1>1. CASE HookMerge(d, e)
  <2>1. IsMixture(Of(d)) /\ Change(d, Merge(Of(d), Of(e)))
    BY <1>1 DEF HookMerge, MixturesInv, Of
  <2>2. QED
    BY <2>1, MergeSucceeds, ChangeKeeps
<1>2. CASE HookCopyFrom(d, e)
  <2>1. IsMixture(Of(d)) /\ Change(d, CopyFromMutable(Of(d), Of(e).moles))
    BY <1>2 DEF HookCopyFrom, MixturesInv, Of
  <2>2. QED
    BY <2>1, CopySucceeds, ChangeKeeps
<1>3. CASE HookRemove(d, e)
  <2>1. pointer[d] # Null /\ pointer[e] # Null
    BY <1>3 DEF HookRemove
  <2>2. \E part, whole : RemoveInto(d, e, part, whole)
    BY <1>3 DEF HookRemove
  <2>3. QED
    BY <2>1, <2>2, RemoveKeepsAir
<1>4. ASSUME NEW adjacent \in {1, 4}, HookShare(d, e, adjacent)
      PROVE  AirKept
  <2> DEFINE delta == Shared(Of(d), Of(e), adjacent)
  <2>1. /\ IsMixture(Of(d)) /\ IsMixture(Of(e))
        /\ Change2(d, SetMoles(Of(d), Minus(Of(d).moles, delta)),
                   e, SetMoles(Of(e), Plus(Of(e).moles, delta)))
    BY <1>4 DEF HookShare, MixturesInv, Of
  <2> HIDE DEF delta
  <2>2. QED
    BY <2>1, SetMolesSucceeds, Change2Keeps
<1>5. ASSUME NEW gases \in SUBSET Gases \ {{}}, HookScrubInto(d, e, gases)
      PROVE  AirKept
  BY <1>5, ScrubKeepsAir
<1>6. QED
  BY <1>1, <1>2, <1>3, <1>4, <1>5 DEF Pair

LEMMA AirStep ==
    ASSUME MixturesInv, [GasNext]_gasVars
    PROVE  AirKept
<1>1. ASSUME NEW d \in Datums, Register(d)
      PROVE  AirKept
  BY <1>1, StillKeeps DEF Register
<1>2. ASSUME NEW d \in Datums, Free(d)
      PROVE  AirKept
  BY <1>2, SweepKeeps DEF Free
<1>3. ASSUME NEW d \in Datums, Unregister(d) \/ DelDatum(d)
      PROVE  AirKept
  BY <1>2, <1>3, StillKeeps DEF Unregister, DelDatum
<1>4. ASSUME NEW t \in Turfs, NEW p \in Pointers \cup {Null}, UpdateAirRef(t, p)
      PROVE  AirKept
  BY <1>4, SweepKeeps DEF UpdateAirRef, heap
<1>5. ASSUME NEW d \in Datums, Single(d)
      PROVE  AirKept
  BY <1>5, SingleKeeps
<1>6. ASSUME NEW d \in Datums, NEW e \in Datums, Pair(d, e)
      PROVE  AirKept
  BY <1>6, PairKeeps
<1>7. CASE UNCHANGED gasVars
  BY <1>7, StillKeeps DEF gasVars
<1>8. QED
  BY <1>1, <1>3, <1>4, <1>5, <1>6, <1>7 DEF GasNext, Registry

LEMMA MixturesInvariance == GasSpec => [](MixturesInv /\ RegistryInv)
<1>1. GasInit => MixturesInv
  <2>1. IsMixture(GasMixture)
    BY DEF IsMixture, GasMixture
  <2>2. QED
    BY <2>1 DEF GasInit, MixturesInv
<1>2. MixturesInv /\ RegistryInv /\ [GasNext]_gasVars => MixturesInv' /\ RegistryInv'
  BY Step, AirStep DEF MixturesInv, RegistryInv, AirKept
<1>3. QED
  BY <1>1, <1>2, Initially, PTL DEF GasSpec

(* Every hook on gas mixtures: the air of a mixture that was marked        *)
(* immutable never changes while the mixture lives, through either side of *)
(* a call, and no call lifts the mark.                                     *)
THEOREM ImmutableAirIsKept == GasSpec => ImmutablesKeep
<1>1. MixturesInv /\ [GasNext]_gasVars =>
        [\A p \in Pointers :
           mixture[p].immutable /\ p \notin Unused' =>
             mixture'[p].immutable /\ mixture'[p].moles = mixture[p].moles]_gasVars
  BY AirStep DEF AirKept, Succeeds
<1>2. QED
  BY <1>1, MixturesInvariance, PTL DEF GasSpec, ImmutablesKeep
-----------------------------------------------------------------------------
(***************************************************************************)
(* Amounts of gas.                                                         *)
(***************************************************************************)
\* Every amount is a number: of moles, and of moles that were archived.
IsWhole(m) == \A g \in Gases : m.moles[g] \in Int /\ m.archived[g] \in Int

WholeInv == \A p \in Pointers : IsWhole(mixture[p])

\* What an archive may become.
Archives(n, m) ==
  n.archived = m.archived \/ n.archived = m.moles \/ n.archived = NoGas

LEMMA SetMolesArchives ==
  ASSUME NEW m, IsMixture(m), NEW amounts
  PROVE  SetMoles(m, amounts).archived = m.archived
BY DEF SetMoles, IsMixture

LEMMA BoundsAreWhole ==
  ASSUME NEW mix, InBounds(mix)
  PROVE  \A p \in Pointers, g \in Gases : mix[p].moles[g] \in Int
BY GasAssumption DEF InBounds

LEMMA ChangeIsWhole ==
  ASSUME MixturesInv, WholeInv, NEW d \in Datums, NEW m,
         Archives(m, Of(d)), Change(d, m)
  PROVE  WholeInv'
<1>1. pointer[d] \in Pointers
  BY DEF MixturesInv, Change
<1>2. mixture' = [mixture EXCEPT ![pointer[d]] = m] /\ InBounds(mixture')
  BY DEF Change
<1>3. \A p \in Pointers : mixture'[p] = IF p = pointer[d] THEN m ELSE mixture[p]
  BY <1>1, <1>2 DEF MixturesInv
<1>4. \A p \in Pointers, g \in Gases : mixture'[p].moles[g] \in Int
  BY <1>2, BoundsAreWhole
<1>5. \A p \in Pointers : Archives(mixture'[p], mixture[p])
  BY <1>1, <1>3 DEF Archives, Of
<1>6. QED
  BY <1>4, <1>5 DEF WholeInv, IsWhole, Archives, NoGas

LEMMA Change2IsWhole ==
  ASSUME MixturesInv, WholeInv, NEW d \in Datums, NEW e \in Datums, NEW m, NEW n,
         Archives(m, Of(d)), Archives(n, Of(e)), Change2(d, m, e, n)
  PROVE  WholeInv'
<1>1. pointer[d] \in Pointers /\ pointer[e] \in Pointers
  BY DEF MixturesInv, Change2
<1>2. /\ mixture' = [mixture EXCEPT ![pointer[d]] = m, ![pointer[e]] = n]
      /\ InBounds(mixture')
  BY DEF Change2
<1>3. \A p \in Pointers :
        mixture'[p] = IF p = pointer[e] THEN n ELSE IF p = pointer[d] THEN m ELSE mixture[p]
  BY <1>1, <1>2 DEF MixturesInv
<1>4. \A p \in Pointers, g \in Gases : mixture'[p].moles[g] \in Int
  BY <1>2, BoundsAreWhole
<1>5. \A p \in Pointers : Archives(mixture'[p], mixture[p])
  <2>1. \A p \in Pointers : Archives(mixture[p], mixture[p])
    BY DEF Archives
  <2>2. Archives(m, mixture[pointer[d]]) /\ Archives(n, mixture[pointer[e]])
    BY DEF Of
  <2>3. QED
    BY <1>1, <1>3, <2>1, <2>2
<1>6. QED
  BY <1>4, <1>5 DEF WholeInv, IsWhole, Archives, NoGas

LEMMA SingleIsWhole ==
  ASSUME MixturesInv, WholeInv, NEW d \in Datums, Single(d)
  PROVE  WholeInv'
<1>1. IsMixture(Of(d))
  BY DEF Single, MixturesInv, Of
<1>2. CASE Change(d, [Of(d) EXCEPT !.archived = Of(d).moles])
  <2>1. Archives([Of(d) EXCEPT !.archived = Of(d).moles], Of(d))
    BY <1>1 DEF Archives, IsMixture
  <2>2. QED
    BY <1>2, <2>1, ChangeIsWhole
<1>3. ASSUME NEW m, m = [Of(d) EXCEPT !.immutable = TRUE] \/ m = [Of(d) EXCEPT !.vacuum = TRUE],
             Change(d, m)
      PROVE  WholeInv'
  <2>1. Archives(m, Of(d))
    BY <1>1, <1>3 DEF Archives, IsMixture
  <2>2. QED
    BY <1>3, <2>1, ChangeIsWhole
<1>4. ASSUME NEW amounts, Change(d, SetMoles(Of(d), amounts))
      PROVE  WholeInv'
  <2>1. Archives(SetMoles(Of(d), amounts), Of(d))
    BY <1>1, SetMolesArchives DEF Archives
  <2>2. QED
    BY <1>4, <2>1, ChangeIsWhole
<1>5. QED
  BY <1>2, <1>3, <1>4 DEF Single

LEMMA RemoveIsWhole ==
  ASSUME MixturesInv, WholeInv, NEW d \in Datums, NEW e \in Datums,
         pointer[d] # Null, pointer[e] # Null,
         NEW part, NEW whole, RemoveInto(d, e, part, whole)
  PROVE  WholeInv'
<1> DEFINE removed == RatioOf(Of(d), part, whole)
           left == Subtract(Of(d), removed)
<1>1. IsMixture(Of(d)) /\ IsMixture(Of(e))
  BY DEF MixturesInv, Of
<1>2. IF pointer[d] = pointer[e] THEN Change(d, CopyFromMutable(left, removed))
      ELSE Change2(d, left, e, CopyFromMutable(Of(e), removed))
  BY DEF RemoveInto
<1> HIDE DEF removed
<1>3. left.archived = Of(d).archived /\ IsMixture(left)
  BY <1>1, SetMolesArchives, SubtractSucceeds DEF Subtract, Succeeds
<1> HIDE DEF left
<1>4. /\ CopyFromMutable(left, removed).archived = Of(d).archived
      /\ CopyFromMutable(Of(e), removed).archived = Of(e).archived
  BY <1>1, <1>3, SetMolesArchives DEF CopyFromMutable
<1>5. QED
  BY <1>2, <1>3, <1>4, ChangeIsWhole, Change2IsWhole DEF Archives

LEMMA ScrubIsWhole ==
  ASSUME MixturesInv, WholeInv, NEW d \in Datums, NEW e \in Datums,
         NEW gases, HookScrubInto(d, e, gases)
  PROVE  WholeInv'
<1> DEFINE scrubbed == [g \in Gases |-> IF g \in gases /\ Of(d).moles[g] > 0
                                        THEN Of(d).moles[g] ELSE 0]
           kept == [g \in Gases |-> IF g \in gases THEN 0 ELSE Of(d).moles[g]]
           left == SetMoles(Of(d), kept)
           buffer == [GasMixture EXCEPT !.moles = scrubbed]
<1>1. IsMixture(Of(d)) /\ IsMixture(Of(e))
  BY DEF HookScrubInto, MixturesInv, Of
<1>2. IF pointer[d] = pointer[e] THEN Change(d, Merge(left, buffer))
      ELSE Change2(d, left, e, Merge(Of(e), buffer))
  BY DEF HookScrubInto
<1> HIDE DEF scrubbed, kept, buffer
<1>3. left.archived = Of(d).archived /\ IsMixture(left)
  BY <1>1, SetMolesArchives, SetMolesSucceeds DEF Succeeds
<1> HIDE DEF left
<1>4. /\ Merge(left, buffer).archived = Of(d).archived
      /\ Merge(Of(e), buffer).archived = Of(e).archived
  BY <1>1, <1>3, SetMolesArchives DEF Merge
<1>5. QED
  BY <1>2, <1>3, <1>4, ChangeIsWhole, Change2IsWhole DEF Archives

LEMMA PairIsWhole ==
  ASSUME MixturesInv, WholeInv, NEW d \in Datums, NEW e \in Datums, Pair(d, e)
  PROVE  WholeInv'
<1>1. CASE HookMerge(d, e)
  <2>1. IsMixture(Of(d)) /\ Change(d, Merge(Of(d), Of(e)))
    BY <1>1 DEF HookMerge, MixturesInv, Of
  <2>2. Merge(Of(d), Of(e)).archived = Of(d).archived
    BY <2>1, SetMolesArchives DEF Merge
  <2>3. QED
    BY <2>1, <2>2, ChangeIsWhole DEF Archives
<1>2. CASE HookCopyFrom(d, e)
  <2>1. IsMixture(Of(d)) /\ Change(d, CopyFromMutable(Of(d), Of(e).moles))
    BY <1>2 DEF HookCopyFrom, MixturesInv, Of
  <2>2. CopyFromMutable(Of(d), Of(e).moles).archived = Of(d).archived
    BY <2>1, SetMolesArchives DEF CopyFromMutable
  <2>3. QED
    BY <2>1, <2>2, ChangeIsWhole DEF Archives
<1>3. CASE HookRemove(d, e)
  <2>1. pointer[d] # Null /\ pointer[e] # Null
    BY <1>3 DEF HookRemove
  <2>2. \E part, whole : RemoveInto(d, e, part, whole)
    BY <1>3 DEF HookRemove
  <2>3. QED
    BY <2>1, <2>2, RemoveIsWhole
<1>4. ASSUME NEW adjacent \in {1, 4}, HookShare(d, e, adjacent)
      PROVE  WholeInv'
  <2> DEFINE delta == Shared(Of(d), Of(e), adjacent)
             m == SetMoles(Of(d), Minus(Of(d).moles, delta))
             n == SetMoles(Of(e), Plus(Of(e).moles, delta))
  <2>1. /\ IsMixture(Of(d)) /\ IsMixture(Of(e))
        /\ Change2(d, m, e, n)
    BY <1>4 DEF HookShare, MixturesInv, Of
  <2>2. m.archived = Of(d).archived /\ n.archived = Of(e).archived
    BY <2>1, SetMolesArchives
  <2> HIDE DEF m, n
  <2>3. QED
    BY <2>1, <2>2, Change2IsWhole DEF Archives
<1>5. ASSUME NEW gases \in SUBSET Gases \ {{}}, HookScrubInto(d, e, gases)
      PROVE  WholeInv'
  BY <1>5, ScrubIsWhole
<1>6. QED
  BY <1>1, <1>2, <1>3, <1>4, <1>5 DEF Pair

LEMMA SweepIsWhole ==
  ASSUME WholeInv, NEW tiles, NEW cells, mixture' = Sweep(mixture, cells, tiles)
  PROVE  WholeInv'
BY DEF WholeInv, IsWhole, Sweep, GasMixture, NoGas

LEMMA StepIsWhole ==
  ASSUME MixturesInv, WholeInv, [GasNext]_gasVars
  PROVE  WholeInv'
<1>1. CASE UNCHANGED mixture
  BY <1>1 DEF WholeInv
<1>2. ASSUME NEW d \in Datums, Free(d)
      PROVE  WholeInv'
  BY <1>2, SweepIsWhole DEF Free
<1>3. ASSUME NEW d \in Datums, Register(d) \/ Unregister(d) \/ DelDatum(d)
      PROVE  WholeInv'
  BY <1>1, <1>2, <1>3 DEF Register, Unregister, DelDatum
<1>4. ASSUME NEW t \in Turfs, NEW p \in Pointers \cup {Null}, UpdateAirRef(t, p)
      PROVE  WholeInv'
  BY <1>4, SweepIsWhole DEF UpdateAirRef
<1>5. ASSUME NEW d \in Datums, Single(d)
      PROVE  WholeInv'
  BY <1>5, SingleIsWhole
<1>6. ASSUME NEW d \in Datums, NEW e \in Datums, Pair(d, e)
      PROVE  WholeInv'
  BY <1>6, PairIsWhole
<1>7. CASE UNCHANGED gasVars
  BY <1>1, <1>7 DEF gasVars
<1>8. QED
  BY <1>3, <1>4, <1>5, <1>6, <1>7 DEF GasNext, Registry

(* Two mixtures change, and of every gas there is as much in both.           *)
MovedBetween(p, q, m, n) ==
  /\ p \in Pointers /\ q \in Pointers /\ p # q
  /\ mixture' = [mixture EXCEPT ![p] = m, ![q] = n]
  /\ \A g \in Gases : m.moles[g] + n.moles[g] = mixture[p].moles[g] + mixture[q].moles[g]

LEMMA TwoBalance ==
  ASSUME MixturesInv, WholeInv, WholeInv', NEW p, NEW q, NEW m, NEW n, MovedBetween(p, q, m, n)
  PROVE  Everything' = Everything
<1> USE DEF MovedBetween
<1> DEFINE S == Pointers
           total == [x \in S |-> TotalMoles(mixture[x].moles)]
           between == [x \in S |-> IF x = p THEN TotalMoles(m.moles)
                                   ELSE TotalMoles(mixture[x].moles)]
           after == [x \in S |-> TotalMoles(mixture'[x].moles)]
<1>1. IsFiniteSet(S) /\ IsFiniteSet(Gases)
  BY GasAssumption
<1>2. \A x \in S : mixture'[x] = IF x = q THEN n ELSE IF x = p THEN m ELSE mixture[x]
  BY DEF MixturesInv
<1>3. \A a : TotalMoles(a) = SumAll(a, Gases)
  BY DEF TotalMoles, SumAll
<1>4. \A x \in S : Integral(mixture[x].moles, Gases) /\ Integral(mixture'[x].moles, Gases)
  BY DEF WholeInv, IsWhole, Integral
<1>5. \A x \in S : TotalMoles(mixture[x].moles) \in Int /\ TotalMoles(mixture'[x].moles) \in Int
  BY <1>1, <1>3, <1>4, SumType
<1>6. mixture'[p] = m /\ mixture'[q] = n
  BY <1>2
<1>7. TotalMoles(m.moles) + TotalMoles(n.moles) =
        TotalMoles(mixture[p].moles) + TotalMoles(mixture[q].moles)
  <2>1. /\ Integral(m.moles, Gases) /\ Integral(n.moles, Gases)
        /\ Integral(mixture[p].moles, Gases) /\ Integral(mixture[q].moles, Gases)
    BY <1>4, <1>6
  <2>2. Balances(m.moles, n.moles, mixture[p].moles, mixture[q].moles, Gases)
    BY <1>1, <2>1, SumsBalance
  <2>3. QED
    BY <1>3, <2>2 DEF Balances
<1>8. TotalMoles(m.moles) \in Int /\ TotalMoles(n.moles) \in Int
  BY <1>5, <1>6
<1>9. Integral(total, S) /\ Integral(between, S) /\ Integral(after, S)
  BY <1>5, <1>8 DEF Integral
<1>10. /\ \A x \in S \ {p} : total[x] = between[x]
       /\ \A x \in S \ {q} : between[x] = after[x]
       /\ between[p] = TotalMoles(m.moles) /\ total[p] = TotalMoles(mixture[p].moles)
       /\ after[q] = TotalMoles(n.moles) /\ between[q] = TotalMoles(mixture[q].moles)
  BY <1>2
<1>11. Everything = SumAll(total, S) /\ Everything' = SumAll(after, S)
  <2>1. Everything = AllMoles(mixture) /\ Everything' = AllMoles(mixture')
    BY ONLY TRUE DEF Everything
  <2>2. AllMoles(mixture) = SumAll(total, S)
    BY DEF AllMoles, SumAll
  <2> DEFINE mix == mixture'
  <2>3. AllMoles(mix) = SumAll([x \in S |-> TotalMoles(mix[x].moles)], S)
    <3> HIDE DEF mix
    <3> QED
      BY DEF AllMoles, SumAll
  <2>4. QED
    BY <2>1, <2>2, <2>3
<1> HIDE DEF S, total, between, after
<1>12. p \in S /\ q \in S
  BY DEF S
<1>13. /\ SumAll(between, S) = SumAll(total, S) + between[p] - total[p]
       /\ SumAll(after, S) = SumAll(between, S) + after[q] - between[q]
  BY <1>1, <1>9, <1>10, <1>12, SumChange
<1>14. SumAll(total, S) \in Int
  BY <1>1, <1>9, SumType
<1>15. TotalMoles(mixture[p].moles) \in Int /\ TotalMoles(mixture[q].moles) \in Int
  BY <1>5, <1>12
<1>16. QED
  BY <1>7, <1>8, <1>10, <1>11, <1>13, <1>14, <1>15

LEMMA RatioIsWhole ==
  ASSUME NEW m, IsWhole(m), NEW part \in Int, NEW whole \in Int, part > 0
  PROVE  \A g \in Gases : RatioOf(m, part, whole)[g] \in Int
<1>1. SUFFICES ASSUME NEW g \in Gases
               PROVE  RatioOf(m, part, whole)[g] \in Int
  OBVIOUS
<1> DEFINE a == m.moles[g]
<1>2. a \in Int
  BY DEF IsWhole
<1>3. RatioOf(m, part, whole)[g] =
        IF a <= 0 \/ part * whole < 0 THEN 0
        ELSE IF whole = 0 \/ part > whole THEN a ELSE (a * part) \div whole
  BY DEF RatioOf
<1> HIDE DEF a
<1>4. CASE a > 0 /\ whole > 0
  <2>1. a * part \in Int
    BY <1>2
  <2>2. (a * part) \div whole \in Int
    BY <1>4, <2>1
  <2>3. QED
    BY <1>2, <1>3, <2>2
<1>5. CASE ~ (a > 0 /\ whole > 0)
  BY <1>2, <1>3, <1>5
<1>6. QED
  BY <1>4, <1>5

\* What may be moved between.
Movable(d, e) ==
  /\ pointer[d] # Null /\ pointer[e] # Null /\ pointer[d] # pointer[e]
  /\ ~ Of(d).immutable /\ ~ Of(e).immutable /\ ~ Of(e).vacuum
  /\ \A g \in Gases : Of(d).moles[g] >= 0

LEMMA Change2Balances ==
  ASSUME MixturesInv, WholeInv, WholeInv', NEW d \in Datums, NEW e \in Datums,
         pointer[d] # pointer[e], NEW m, NEW n, Change2(d, m, e, n),
         \A g \in Gases : m.moles[g] + n.moles[g] = Of(d).moles[g] + Of(e).moles[g]
  PROVE  Everything' = Everything
<1>1. pointer[d] \in Pointers /\ pointer[e] \in Pointers
  BY DEF MixturesInv, Change2
<1>2. mixture' = [mixture EXCEPT ![pointer[d]] = m, ![pointer[e]] = n]
  BY DEF Change2
<1> DEFINE p == pointer[d]
           q == pointer[e]
<1>3. \A g \in Gases : m.moles[g] + n.moles[g] = mixture[p].moles[g] + mixture[q].moles[g]
  BY DEF Of
<1> HIDE DEF p, q
<1>4. p \in Pointers /\ q \in Pointers /\ p # q
  BY <1>1 DEF p, q
<1>5. mixture' = [mixture EXCEPT ![p] = m, ![q] = n]
  BY <1>2 DEF p, q
<1>6. MovedBetween(p, q, m, n)
  BY <1>3, <1>4, <1>5 DEF MovedBetween
<1>7. QED
  BY <1>6, TwoBalance

LEMMA SetMolesSets ==
  ASSUME NEW m, IsMixture(m), ~ m.immutable, NEW amounts
  PROVE  SetMoles(m, amounts).moles = amounts
BY DEF SetMoles, IsMixture

LEMMA RemoveBalances ==
  ASSUME MixturesInv, WholeInv, WholeInv', NEW d \in Datums, NEW e \in Datums,
         Movable(d, e), Of(e).moles = NoGas,
         NEW part \in Int, NEW whole \in Int, part > 0, RemoveInto(d, e, part, whole)
  PROVE  Everything' = Everything
<1> DEFINE removed == RatioOf(Of(d), part, whole)
           left == Subtract(Of(d), removed)
           got == CopyFromMutable(Of(e), removed)
<1>1. /\ IsMixture(Of(d)) /\ IsMixture(Of(e)) /\ IsWhole(Of(d))
  BY DEF MixturesInv, WholeInv, Of, Movable
<1>2. Change2(d, left, e, got)
  BY DEF RemoveInto, Movable
<1>3. \A g \in Gases : removed[g] \in Int
  BY <1>1, RatioIsWhole
<1> HIDE DEF removed
<1>4. left.moles = Minus(Of(d).moles, removed) /\ got.moles = removed
  BY <1>1, SetMolesSets DEF Subtract, CopyFromMutable, Movable
<1> HIDE DEF left, got
<1>5. ASSUME NEW g \in Gases
      PROVE  left.moles[g] + got.moles[g] = Of(d).moles[g] + Of(e).moles[g]
  <2>1. left.moles[g] = Of(d).moles[g] - removed[g] /\ got.moles[g] = removed[g]
    BY <1>4 DEF Minus
  <2>2. Of(e).moles[g] = 0 /\ Of(d).moles[g] \in Int /\ removed[g] \in Int
    BY <1>1, <1>3 DEF NoGas, IsWhole
  <2>3. QED
    BY <2>1, <2>2
<1>6. pointer[d] # pointer[e]
  BY DEF Movable
<1>7. QED
  BY <1>2, <1>5, <1>6, Change2Balances

LEMMA ShareBalances ==
  ASSUME MixturesInv, WholeInv, WholeInv', NEW d \in Datums, NEW e \in Datums,
         Movable(d, e), NEW adjacent \in {1, 4}, HookShare(d, e, adjacent)
  PROVE  Everything' = Everything
<1> DEFINE delta == Shared(Of(d), Of(e), adjacent)
           m == SetMoles(Of(d), Minus(Of(d).moles, delta))
           n == SetMoles(Of(e), Plus(Of(e).moles, delta))
<1>1. /\ IsMixture(Of(d)) /\ IsMixture(Of(e)) /\ IsWhole(Of(d)) /\ IsWhole(Of(e))
  BY DEF MixturesInv, WholeInv, Of, Movable
<1>2. Change2(d, m, e, n)
  BY DEF HookShare
<1>3. ASSUME NEW g \in Gases
      PROVE  delta[g] \in Int
  <2> DEFINE a == Of(d).archived[g] - Of(e).archived[g]
  <2>1. a \in Int
    BY <1>1 DEF IsWhole
  <2>2. delta[g] = Quotient(a, adjacent + 1)
    BY DEF Shared
  <2> HIDE DEF a, delta
  <2>3. QED
    BY <2>1, <2>2 DEF Quotient
<1> HIDE DEF delta
<1>4. m.moles = Minus(Of(d).moles, delta) /\ n.moles = Plus(Of(e).moles, delta)
  BY <1>1, SetMolesSets DEF Movable
<1> HIDE DEF m, n
<1>5. ASSUME NEW g \in Gases
      PROVE  m.moles[g] + n.moles[g] = Of(d).moles[g] + Of(e).moles[g]
  <2>1. m.moles[g] = Of(d).moles[g] - delta[g] /\ n.moles[g] = Of(e).moles[g] + delta[g]
    BY <1>4 DEF Minus, Plus
  <2>2. Of(e).moles[g] \in Int /\ Of(d).moles[g] \in Int /\ delta[g] \in Int
    BY <1>1, <1>3 DEF IsWhole
  <2>3. QED
    BY <2>1, <2>2
<1>6. pointer[d] # pointer[e]
  BY DEF Movable
<1>7. QED
  BY <1>2, <1>5, <1>6, Change2Balances

LEMMA ScrubBalances ==
  ASSUME MixturesInv, WholeInv, WholeInv', NEW d \in Datums, NEW e \in Datums,
         Movable(d, e), NEW gases, HookScrubInto(d, e, gases)
  PROVE  Everything' = Everything
<1> DEFINE scrubbed == [g \in Gases |-> IF g \in gases /\ Of(d).moles[g] > 0
                                        THEN Of(d).moles[g] ELSE 0]
           kept == [g \in Gases |-> IF g \in gases THEN 0 ELSE Of(d).moles[g]]
           left == SetMoles(Of(d), kept)
           buffer == [GasMixture EXCEPT !.moles = scrubbed]
           got == Merge(Of(e), buffer)
<1>1. /\ IsMixture(Of(d)) /\ IsMixture(Of(e)) /\ IsWhole(Of(d)) /\ IsWhole(Of(e))
  BY DEF MixturesInv, WholeInv, Of, Movable
<1>2. Change2(d, left, e, got)
  BY DEF HookScrubInto, Movable
<1>3. buffer.moles = scrubbed
  BY DEF GasMixture
<1> HIDE DEF buffer
<1>4. left.moles = kept /\ got.moles = Plus(Of(e).moles, scrubbed)
  <2> HIDE DEF kept, scrubbed
  <2> QED
    BY <1>1, <1>3, SetMolesSets DEF Merge, Movable
<1> HIDE DEF left, got
<1>5. ASSUME NEW g \in Gases
      PROVE  left.moles[g] + got.moles[g] = Of(d).moles[g] + Of(e).moles[g]
  <2>1. left.moles[g] = kept[g] /\ got.moles[g] = Of(e).moles[g] + scrubbed[g]
    BY <1>4 DEF Plus
  <2>2. Of(e).moles[g] \in Int /\ Of(d).moles[g] \in Int /\ Of(d).moles[g] >= 0
    BY <1>1 DEF IsWhole, Movable
  <2>3. QED
    BY <2>1, <2>2
<1>6. pointer[d] # pointer[e]
  BY DEF Movable
<1>7. QED
  BY <1>2, <1>5, <1>6, Change2Balances

LEMMA MovesBalance ==
  ASSUME MixturesInv, WholeInv, WholeInv', NEW d \in Datums, NEW e \in Datums,
         Movable(d, e), Moves(d, e)
  PROVE  Everything' = Everything
<1>1. CASE HookRemove(d, e) /\ Of(e).moles = NoGas
  <2>1. TotalMoles(Of(d).moles) \in Int
    <3>1. Integral(Of(d).moles, Gases)
      BY DEF MixturesInv, WholeInv, IsWhole, Of, Movable, Integral
    <3>2. SumAll(Of(d).moles, Gases) \in Int
      BY <3>1, GasAssumption, SumType
    <3>3. QED
      BY <3>2 DEF TotalMoles, SumAll
  <2>2. ASSUME NEW n \in 1 .. MaxMoles, RemoveInto(d, e, n, TotalMoles(Of(d).moles))
        PROVE  Everything' = Everything
    BY <1>1, <2>1, <2>2, GasAssumption, RemoveBalances
  <2>3. CASE RemoveInto(d, e, 1, 2)
    BY <1>1, <2>3, RemoveBalances
  <2>4. QED
    BY <1>1, <2>2, <2>3 DEF HookRemove
<1>2. ASSUME NEW adjacent \in {1, 4}, HookShare(d, e, adjacent)
      PROVE  Everything' = Everything
  BY <1>2, ShareBalances
<1>3. ASSUME NEW gases \in SUBSET Gases \ {{}}, HookScrubInto(d, e, gases)
      PROVE  Everything' = Everything
  BY <1>3, ScrubBalances
<1>4. QED
  BY <1>1, <1>2, <1>3 DEF Moves

LEMMA WholeInvariance == GasSpec => [](MixturesInv /\ WholeInv)
<1>1. GasInit => WholeInv
  BY DEF GasInit, WholeInv, IsWhole, GasMixture, NoGas
<1>2. MixturesInv /\ WholeInv /\ [GasNext]_gasVars => WholeInv'
  BY StepIsWhole
<1>3. QED
  BY <1>1, <1>2, MixturesInvariance, PTL DEF GasSpec

(* A removal into an empty mixture, a share and a scrubbing move gas between *)
(* two mixtures that can change and make or lose none (remove, share,        *)
(* scrub_into), for any gases, any amounts that are not negative, and any    *)
(* other mixtures.                                                           *)
THEOREM MovedGasIsKept == GasSpec => MovesKeepGas
<1>1. MixturesInv /\ WholeInv /\ WholeInv' =>
        [Everything' # Everything =>
           \A d, e \in {f \in Datums : pointer[f] # Null} :
             /\ pointer[d] # pointer[e]
             /\ ~ Of(d).immutable /\ ~ Of(e).immutable /\ ~ Of(e).vacuum
             /\ \A g \in Gases : Of(d).moles[g] >= 0
             => ~ Moves(d, e)]_gasVars
  <2>1. SUFFICES ASSUME MixturesInv, WholeInv, WholeInv', Everything' # Everything,
                        NEW d \in Datums, NEW e \in Datums, Movable(d, e), Moves(d, e)
                 PROVE  FALSE
    BY DEF Movable
  <2>2. QED
    BY <2>1, MovesBalance
<1>2. QED
  BY <1>1, WholeInvariance, PTL DEF MovesKeepGas

-----------------------------------------------------------------------------
(***************************************************************************)
(* Neighbours that share.                                                  *)
(***************************************************************************)
SharingTypes ==
  /\ turf_moles \in [Cells -> Int] /\ moles_archived \in [Cells -> Int]
  /\ archived_cycle \in [Cells -> Nat] /\ current_cycle \in [Cells -> Nat]
  /\ fire_count \in Nat
  /\ \A t \in Cells : /\ archived_cycle[t] <= fire_count
                      /\ current_cycle[t] <= fire_count

\* What is at least left of a, if a part for one of k ways and the turf is gone.
Rest(a, k) == a - a \div (k + 1)

\* A turf that a neighbour archived in its turn has lost at most the part of
\* that neighbour, and that neighbour will not be given to any more.
RestIsLeft(t) ==
  archived_cycle[t] = fire_count /\ current_cycle[t] < fire_count =>
    \E i \in 1 .. Len(Adjacent[t]) :
      /\ current_cycle[Adjacent[t][i]] = fire_count
      /\ turf_moles[t] >= Rest(moles_archived[t], Len(Adjacent[Adjacent[t][i]]))

SharingSafe ==
  /\ SharingTypes
  /\ \A t \in Cells : turf_moles[t] >= 0 /\ moles_archived[t] >= 0
  /\ \A t \in Cells : RestIsLeft(t)

SharingInv == strained \/ SharingSafe

AirsNow == [moles : [Cells -> Int], archived : [Cells -> Int], cycle : [Cells -> Int]]

LEMMA WaysAre ==
  ASSUME NEW t \in Cells
  PROVE  Len(Adjacent[t]) \in Nat /\ DOMAIN Adjacent[t] = 1 .. Len(Adjacent[t])
<1>1. Adjacent[t] \in Seq(Cells)
  BY SharingAssumption
<1>2. QED
  BY <1>1

LEMMA WaysAreMutual ==
  ASSUME NEW t \in Cells, NEW i \in 1 .. Len(Adjacent[t])
  PROVE  \E j \in 1 .. Len(Adjacent[Adjacent[t][i]]) : Adjacent[Adjacent[t][i]][j] = t
BY SharingAssumption

LEMMA NeighboursAre ==
  ASSUME NEW t \in Cells
  PROVE  /\ Len(Adjacent[t]) \in Nat /\ DOMAIN Adjacent[t] = 1 .. Len(Adjacent[t])
         /\ \A i \in 1 .. Len(Adjacent[t]) : Adjacent[t][i] \in Cells /\ Adjacent[t][i] # t
<1>1. Adjacent[t] \in Seq(Cells)
  BY SharingAssumption
<1>2. /\ Len(Adjacent[t]) \in Nat /\ DOMAIN Adjacent[t] = 1 .. Len(Adjacent[t])
      /\ \A i \in 1 .. Len(Adjacent[t]) : Adjacent[t][i] \in Cells
  BY <1>1
<1>3. \A i \in 1 .. Len(Adjacent[t]) : Adjacent[t][i] # t
  BY SharingAssumption
<1>4. QED
  BY <1>2, <1>3

LEMMA PartIsNat ==
  ASSUME NEW a \in Nat, NEW k \in Nat
  PROVE  /\ a \div (k + 1) \in Nat
         /\ (k + 1) * (a \div (k + 1)) <= a
         /\ a \div (k + 1) <= a
<1> DEFINE q == a \div (k + 1)
<1>1. q \in Nat /\ (k + 1) * q <= a
  OBVIOUS
<1>2. q <= (k + 1) * q
  BY <1>1
<1>3. QED
  BY <1>1, <1>2

LEMMA PortionBounds ==
  ASSUME NEW a \in Nat, NEW b \in Nat, NEW k \in Nat \ {0}
  PROVE  /\ Portion(a - b, k + 1) \in Int
         /\ Portion(a - b, k + 1) <= a \div (k + 1)
         /\ - Portion(a - b, k + 1) <= b \div (k + 1)
         /\ a \div (k + 1) \in Nat
<1>1. a \div (k + 1) \in Nat /\ b \div (k + 1) \in Nat
  OBVIOUS
<1>2. CASE a - b < 0
  <2>1. Portion(a - b, k + 1) = - ((b - a) \div (k + 1))
    BY <1>2 DEF Portion
  <2>2. b - a \in Nat /\ b - a <= b
    BY <1>2
  <2> DEFINE c == b - a
             x == c \div (k + 1)
             y == b \div (k + 1)
  <2>3. x \in Nat /\ x * (k + 1) <= b
    BY <2>2
  <2>4. y \in Nat /\ b < (y + 1) * (k + 1)
    OBVIOUS
  <2>5. x < y + 1
    <3>1. x * (k + 1) < (y + 1) * (k + 1)
      BY <2>3, <2>4
    <3>2. QED
      BY <2>3, <2>4, <3>1
  <2>6. QED
    BY <1>1, <2>1, <2>3, <2>4, <2>5
<1>3. CASE a - b >= 0
  <2>1. Portion(a - b, k + 1) = (a - b) \div (k + 1)
    BY <1>3 DEF Portion
  <2>2. a - b \in Nat /\ a - b <= a
    BY <1>3
  <2> DEFINE c == a - b
             x == c \div (k + 1)
             y == a \div (k + 1)
  <2>3. x \in Nat /\ x * (k + 1) <= a
    BY <2>2
  <2>4. y \in Nat /\ a < (y + 1) * (k + 1)
    OBVIOUS
  <2>5. x < y + 1
    <3>1. x * (k + 1) < (y + 1) * (k + 1)
      BY <2>3, <2>4
    <3>2. QED
      BY <2>3, <2>4, <3>1
  <2>6. QED
    BY <1>1, <2>1, <2>3, <2>4, <2>5
<1>4. QED
  BY <1>2, <1>3

(* What the meetings with the neighbours leave, one after the other.         *)
Turn(r, t, grouped) ==
  /\ r \in [0 .. Len(Adjacent[t]) -> AirsNow]
  /\ r[0] = OwnArchive(Now, t)
  /\ \A i \in 1 .. Len(Adjacent[t]) : r[i] = Meet(r[i - 1], t, Adjacent[t][i], grouped)

Given(now, t, enemy) ==
  Portion(now.archived[t] - now.archived[enemy], Len(Adjacent[t]) + 1)

LEMMA SharedAir ==
  ASSUME NEW t \in Cells, NEW enemy \in Cells, NEW now \in AirsNow, Len(Adjacent[t]) \in Nat
  PROVE  /\ Given(now, t, enemy) \in Int
         /\ Share(now, t, enemy) \in AirsNow
         /\ Share(now, t, enemy).archived = now.archived
         /\ Share(now, t, enemy).cycle = now.cycle
         /\ t # enemy => \A u \in Cells :
              Share(now, t, enemy).moles[u] =
                CASE u = t -> now.moles[u] - Given(now, t, enemy)
                  [] u = enemy -> now.moles[u] + Given(now, t, enemy)
                  [] OTHER -> now.moles[u]
<1> DEFINE a == now.archived[t] - now.archived[enemy]
           delta == Given(now, t, enemy)
           both == [now.moles EXCEPT ![t] = now.moles[t] - delta,
                                     ![enemy] = now.moles[enemy] + delta]
<1>1. /\ now.moles \in [Cells -> Int] /\ a \in Int
      /\ now.archived \in [Cells -> Int] /\ now.cycle \in [Cells -> Int]
      /\ now = [moles |-> now.moles, archived |-> now.archived, cycle |-> now.cycle]
  BY DEF AirsNow
<1>2. delta \in Int
  <2>1. delta = Portion(a, Len(Adjacent[t]) + 1)
    BY DEF Given
  <2> HIDE DEF a, delta
  <2>2. QED
    BY <1>1, <2>1 DEF Portion
<1>3. Share(now, t, enemy) = [now EXCEPT !.moles = both]
  BY DEF Share, Given
<1> HIDE DEF a, delta
<1>4. Share(now, t, enemy) = [moles |-> both, archived |-> now.archived, cycle |-> now.cycle]
  <2>1. DOMAIN now = {"moles", "archived", "cycle"}
    BY DEF AirsNow
  <2>2. QED
    BY <1>3, <2>1
<1>5. both \in [Cells -> Int]
  BY <1>1, <1>2
<1>6. t # enemy => \A u \in Cells :
        both[u] = CASE u = t -> now.moles[u] - delta
                    [] u = enemy -> now.moles[u] + delta
                    [] OTHER -> now.moles[u]
  BY <1>1, <1>5
<1> HIDE DEF both
<1>7. QED
  BY <1>1, <1>2, <1>4, <1>5, <1>6 DEF AirsNow, delta

LEMMA ArchivedAir ==
  ASSUME SharingTypes, NEW t \in Cells, NEW now \in AirsNow
  PROVE  /\ Archive(now, t) \in AirsNow
         /\ Archive(now, t).moles = now.moles
         /\ \A u \in Cells :
              /\ Archive(now, t).archived[u] = IF u = t THEN now.moles[u] ELSE now.archived[u]
              /\ Archive(now, t).cycle[u] = IF u = t THEN fire_count ELSE now.cycle[u]
<1> DEFINE a == [now.archived EXCEPT ![t] = now.moles[t]]
           c == [now.cycle EXCEPT ![t] = fire_count]
<1>1. /\ now.moles \in [Cells -> Int]
      /\ now.archived \in [Cells -> Int] /\ now.cycle \in [Cells -> Int]
      /\ now = [moles |-> now.moles, archived |-> now.archived, cycle |-> now.cycle]
  BY DEF AirsNow
<1>2. Archive(now, t) = [moles |-> now.moles, archived |-> a, cycle |-> c]
  <2>1. Archive(now, t) = [now EXCEPT !.archived = a, !.cycle = c]
    BY DEF Archive
  <2>2. DOMAIN now = {"moles", "archived", "cycle"}
    BY DEF AirsNow
  <2>3. QED
    BY <2>1, <2>2
<1>3. a \in [Cells -> Int] /\ c \in [Cells -> Int]
  BY <1>1 DEF SharingTypes
<1>4. /\ \A u \in Cells : a[u] = IF u = t THEN now.moles[u] ELSE now.archived[u]
      /\ \A u \in Cells : c[u] = IF u = t THEN fire_count ELSE now.cycle[u]
  BY <1>1
<1> HIDE DEF a, c
<1>5. QED
  BY <1>1, <1>2, <1>3, <1>4 DEF AirsNow

LEMMA AirsStay ==
  ASSUME SharingTypes, NEW t \in Cells, NEW enemy \in Cells, NEW grouped,
         NEW now \in AirsNow, Len(Adjacent[t]) \in Nat
  PROVE  /\ OwnArchive(now, t) \in AirsNow
         /\ Meet(now, t, enemy, grouped) \in AirsNow
<1>1. \A u \in Cells : Archive(now, u) \in AirsNow
  BY ArchivedAir
<1>2. \A x \in AirsNow : Share(x, t, enemy) \in AirsNow
  BY SharedAir
<1>3. QED
  BY <1>1, <1>2 DEF OwnArchive, Meet, EnemyArchived

LEMMA TurnIsFold ==
  ASSUME SharingTypes, NEW t \in Cells, NEW grouped
  PROVE  \E r : Turn(r, t, grouped) /\ AfterTurn(t, grouped) = r[Len(Adjacent[t])]
<1> DEFINE q == Adjacent[t]
           n == Len(q)
           b == OwnArchive(Now, t)
           op(now, enemy) == Meet(now, t, enemy, grouped)
           F == [i \in 1 .. n |-> [now \in AirsNow |-> op(now, q[i])]]
           Fold(h) == h = [s \in SUBSET (DOMAIN q) |->
                              IF s = {} THEN b ELSE op(h[s \ {Max(s)}], q[Max(s)])]
           h == CHOOSE h : Fold(h)
           r == [i \in 0 .. n |-> h[1 .. i]]
<1>1. n \in Nat /\ DOMAIN q = 1 .. n /\ \A i \in 1 .. n : q[i] \in Cells
  BY NeighboursAre
<1>2. Now \in AirsNow
  BY DEF Now, AirsNow, SharingTypes
<1>3. b \in AirsNow
  BY <1>1, <1>2, AirsStay
<1>4. \A now \in AirsNow, i \in 1 .. n : op(now, q[i]) \in AirsNow
  BY <1>1, AirsStay
<1>5. F \in [1 .. n -> [AirsNow -> AirsNow]]
  BY <1>4
<1>6. \A i \in 1 .. n : \A now \in AirsNow : F[i][now] = op(now, q[i])
  OBVIOUS
<1>7. AfterTurn(t, grouped) = h[DOMAIN q]
  BY DEF AfterTurn, FoldLeft, MapThenFoldSet
<1>8. /\ r[0] = OwnArchive(Now, t) <=> r[0] = b
      /\ n = Len(Adjacent[t])
      /\ \A i \in 1 .. n : op(r[i - 1], q[i]) = Meet(r[i - 1], t, Adjacent[t][i], grouped)
  OBVIOUS
<1> HIDE DEF q, n, b, op, F
<1>9. PICK g \in [SUBSET (1 .. n) -> AirsNow] :
        FromLeft(g, n, b, F)
  <2>1. StepsOf(n, AirsNow, b, F)
    BY <1>1, <1>3, <1>5 DEF StepsOf
  <2>2. LeftFolded(n, AirsNow, b, F)
    BY ONLY <2>1, LeftFoldExists
  <2>3. QED
    BY <2>2 DEF LeftFolded
<1>10. Fold(h)
  <2>1. \A s \in SUBSET (1 .. n) : s # {} =>
          F[Max(s)][g[s \ {Max(s)}]] = op(g[s \ {Max(s)}], q[Max(s)])
    BY <1>1, <1>6, GreatestOf
  <2>2. Fold(g)
    BY <1>1, <1>9, <2>1 DEF FromLeft
  <2>3. QED
    BY <2>2
<1> HIDE DEF h
<1>11. 1 .. 0 = {} /\ {} \in SUBSET (1 .. n)
  OBVIOUS
<1>12. r[0] = b
  BY <1>1, <1>10, <1>11
<1>13. \A i \in 1 .. n : r[i] = op(r[i - 1], q[i])
  <2>1. SUFFICES ASSUME NEW i \in 1 .. n
                 PROVE  r[i] = op(r[i - 1], q[i])
    OBVIOUS
  <2>2. i \in 0 .. n /\ i - 1 \in 0 .. n
    BY <1>1
  <2>3. r[i] = h[1 .. i] /\ r[i - 1] = h[1 .. i - 1]
    BY <2>2
  <2>4. /\ 1 .. i \in SUBSET (1 .. n) /\ 1 .. i # {}
        /\ Max(1 .. i) = i /\ (1 .. i) \ {i} = 1 .. i - 1
    BY <1>1, UpTo
  <2> HIDE DEF r
  <2>5. h[1 .. i] = op(h[(1 .. i) \ {Max(1 .. i)}], q[Max(1 .. i)])
    BY <1>1, <1>10, <2>4
  <2>6. QED
    BY <2>3, <2>4, <2>5
<1> HIDE DEF r
<1>14. \A i \in 0 .. n : r[i] \in AirsNow
  <2> DEFINE S == {i \in 0 .. n : r[i] \in AirsNow}
  <2>1. 0 \in S
    BY <1>1, <1>3, <1>12
  <2>2. \A i \in 1 .. n : i - 1 \in S => i \in S
    <3>1. ASSUME NEW i \in 1 .. n, r[i - 1] \in AirsNow
          PROVE  r[i] \in AirsNow
      BY <1>4, <1>13, <3>1
    <3>2. \A i \in 1 .. n : i \in 0 .. n /\ i - 1 \in 0 .. n
      BY <1>1
    <3>3. QED
      BY <3>1, <3>2
  <2> HIDE DEF S
  <2>3. \A i \in 0 .. n : i \in S
    BY <1>1, <2>1, <2>2, Climbs
  <2>4. QED
    BY <2>3 DEF S
<1>15. r \in [0 .. n -> AirsNow] /\ r[n] = h[DOMAIN q]
  BY <1>1, <1>14 DEF r
<1>16. QED
  BY <1>7, <1>8, <1>12, <1>13, <1>15 DEF Turn

Untouched(x, now, u) ==
  x.moles[u] = now.moles[u] /\ x.archived[u] = now.archived[u] /\ x.cycle[u] = now.cycle[u]

\* A neighbour that t meets gives at most the part for t of what it has.
Met(x, t, u) ==
  /\ x.cycle[u] = fire_count /\ x.archived[u] >= 0
  /\ x.moles[u] >= 0 /\ x.moles[u] >= Rest(x.archived[u], Len(Adjacent[t]))

Meets(x, now, t, enemy) ==
  /\ x.archived[t] = now.archived[t] /\ x.cycle[t] = now.cycle[t]
  /\ x.moles[t] >= now.moles[t] - now.archived[t] \div (Len(Adjacent[t]) + 1)
  /\ Met(x, t, enemy)

LEMMA MeetingLeavesRest ==
  ASSUME SharingTypes, NEW t \in Cells, NEW enemy \in Cells, t # enemy, NEW grouped,
         NEW now \in AirsNow, Len(Adjacent[t]) \in Nat \ {0},
         now.archived[t] >= 0, now.moles[enemy] >= 0,
         NEW x, x = Meet(now, t, enemy, grouped)
  PROVE  /\ \A u \in Cells \ {t, enemy} : Untouched(x, now, u)
         /\ IF current_cycle[enemy] >= fire_count THEN x = now ELSE Meets(x, now, t, enemy)
<1> DEFINE k == Len(Adjacent[t])
           y == Archive(now, enemy)
           z == Share(y, t, enemy)
           delta == Given(y, t, enemy)
<1>1. /\ y \in AirsNow /\ y.moles = now.moles
      /\ \A u \in Cells :
           /\ y.archived[u] = IF u = enemy THEN now.moles[u] ELSE now.archived[u]
           /\ y.cycle[u] = IF u = enemy THEN fire_count ELSE now.cycle[u]
  BY ArchivedAir
<1>2. /\ now.archived[t] \in Nat /\ now.moles[enemy] \in Nat
      /\ now.moles \in [Cells -> Int] /\ now.moles[t] \in Int
      /\ k \in Nat \ {0}
  BY DEF AirsNow
<1> HIDE DEF k
<1>3. /\ now.archived[t] \div (k + 1) \in Nat
      /\ now.moles[enemy] \div (k + 1) \in Nat
      /\ now.moles[enemy] \div (k + 1) <= now.moles[enemy]
  <2>1. k \in Nat /\ now.moles[enemy] \in Nat /\ now.archived[t] \in Nat
    BY <1>2
  <2>2. QED
    BY <2>1, PartIsNat
<1>4. \A u \in Cells \ {t, enemy} : Untouched(y, now, u)
  BY <1>1 DEF Untouched
<1>5. Meets(y, now, t, enemy)
  <2>2. /\ y.archived[t] = now.archived[t] /\ y.cycle[t] = now.cycle[t]
        /\ y.archived[enemy] = now.moles[enemy] /\ y.cycle[enemy] = fire_count
        /\ y.moles[t] = now.moles[t] /\ y.moles[enemy] = now.moles[enemy]
    BY <1>1
  <2>3. QED
    BY <1>2, <1>3, <2>2 DEF Meets, Met, Rest, k
<1> HIDE DEF y
<1>6. /\ delta \in Int
      /\ z.archived = y.archived /\ z.cycle = y.cycle
      /\ \A u \in Cells :
           z.moles[u] = CASE u = t -> y.moles[u] - delta
                          [] u = enemy -> y.moles[u] + delta
                          [] OTHER -> y.moles[u]
  BY <1>1, SharedAir DEF k
<1>7. /\ delta <= now.archived[t] \div (k + 1)
      /\ - delta <= now.moles[enemy] \div (k + 1)
  <2>1. delta = Portion(now.archived[t] - now.moles[enemy], k + 1)
    BY <1>1 DEF Given, k
  <2> HIDE DEF delta
  <2>2. QED
    BY <1>2, <2>1, PortionBounds
<1> HIDE DEF z, delta
<1>8. \A u \in Cells \ {t, enemy} : Untouched(z, now, u)
  BY <1>1, <1>6 DEF Untouched
<1>9. Meets(z, now, t, enemy)
  <2>1. /\ z.archived[t] = now.archived[t] /\ z.cycle[t] = now.cycle[t]
        /\ z.archived[enemy] = now.moles[enemy] /\ z.cycle[enemy] = fire_count
        /\ z.moles[t] = now.moles[t] - delta /\ z.moles[enemy] = now.moles[enemy] + delta
    BY <1>1, <1>6
  <2>4. z.moles[enemy] >= 0 /\ z.moles[enemy] >= Rest(z.archived[enemy], k)
    <3> DEFINE part == now.moles[enemy] \div (k + 1)
    <3>1. part \in Nat /\ part <= now.moles[enemy] /\ - delta <= part
          /\ Rest(z.archived[enemy], k) = now.moles[enemy] - part
      BY <1>3, <1>7, <2>1 DEF Rest
    <3> HIDE DEF part
    <3>2. QED
      BY <1>2, <1>6, <2>1, <3>1, SMTT(20)
  <2>5. z.moles[t] >= now.moles[t] - now.archived[t] \div (k + 1)
    BY <1>2, <1>6, <1>7, <1>3, <2>1
  <2>6. QED
    BY <1>2, <2>1, <2>4, <2>5 DEF Meets, Met, k
<1>10. x = now \/ x = y \/ x = z
  BY DEF Meet, EnemyArchived, y, z
<1>11. current_cycle[enemy] >= fire_count => x = now
  BY DEF Meet
<1>12. ~ (current_cycle[enemy] >= fire_count) => x = y \/ x = z
  BY DEF Meet, EnemyArchived, y, z
<1>13. \A u \in Cells \ {t, enemy} : Untouched(now, now, u)
  BY DEF Untouched
<1>14. QED
  BY <1>4, <1>5, <1>8, <1>9, <1>10, <1>11, <1>12, <1>13

(* During the turn of t every other turf is as it was or was met.            *)
OtherAirs(x, t) ==
  \A u \in Cells \ {t} :
    \/ Untouched(x, Now, u)
    \/ /\ current_cycle[u] < fire_count /\ Met(x, t, u)
       /\ \E i \in 1 .. Len(Adjacent[t]) : Adjacent[t][i] = u

\* How many of the first i neighbours are given to, if number j is not.
GivenTo(i, j) == IF j <= i THEN i - 1 ELSE i

\* What g neighbours are given in all, q each; the steps below reckon with it
\* by the lemma alone.
InAll(g, q) == g * q

LEMMA OneMore ==
  ASSUME NEW g \in Int, NEW q \in Nat
  PROVE  /\ InAll(g, q) \in Int
         /\ InAll(g - 1, q) = InAll(g, q) - q
         /\ InAll(g, q) >= InAll(g - 1, q)
         /\ InAll(0, q) = 0
BY DEF InAll

DuringTurn(x, t, i, j, first) ==
  /\ x \in AirsNow /\ OtherAirs(x, t)
  /\ x.archived[t] = first.archived[t] /\ x.cycle[t] = fire_count
  /\ x.moles[t] >= first.moles[t]
                   - InAll(GivenTo(i, j), first.archived[t] \div (Len(Adjacent[t]) + 1))

LEMMA OneMeeting ==
  ASSUME SharingSafe, NEW t \in Cells, NEW i \in 1 .. Len(Adjacent[t]), NEW grouped,
         NEW j \in 1 .. Len(Adjacent[t]) + 1,
         j <= Len(Adjacent[t]) => current_cycle[Adjacent[t][j]] >= fire_count,
         NEW first \in AirsNow, first.archived[t] >= 0,
         NEW now, DuringTurn(now, t, i - 1, j, first),
         NEW x, x = Meet(now, t, Adjacent[t][i], grouped), x \in AirsNow
  PROVE  DuringTurn(x, t, i, j, first)
<1> DEFINE k == Len(Adjacent[t])
           enemy == Adjacent[t][i]
           q == first.archived[t] \div (k + 1)
<1>1. k \in Nat \ {0} /\ i \in 1 .. k /\ j \in 1 .. k + 1
  BY NeighboursAre
<1>2. enemy \in Cells /\ t # enemy
  BY NeighboursAre
<1>3. /\ now \in AirsNow /\ OtherAirs(now, t)
      /\ now.archived[t] = first.archived[t] /\ now.cycle[t] = fire_count
      /\ now.moles[t] >= first.moles[t] - InAll(GivenTo(i - 1, j), q)
  BY DEF DuringTurn
<1>4. now.moles[enemy] >= 0
  BY <1>2, <1>3 DEF OtherAirs, Untouched, Met, Now, SharingSafe
<1>5. /\ \A u \in Cells \ {t, enemy} : Untouched(x, now, u)
      /\ IF current_cycle[enemy] >= fire_count THEN x = now ELSE Meets(x, now, t, enemy)
  <2>1. SharingTypes /\ now.archived[t] >= 0 /\ now \in AirsNow
    BY <1>3 DEF SharingSafe
  <2>2. x = Meet(now, t, enemy, grouped) /\ Len(Adjacent[t]) \in Nat \ {0}
    BY <1>1
  <2> HIDE DEF enemy
  <2>3. QED
    BY <1>2, <1>4, <2>1, <2>2, MeetingLeavesRest
<1>6. OtherAirs(x, t)
  <2>1. SUFFICES ASSUME NEW u \in Cells \ {t}
                 PROVE  \/ Untouched(x, Now, u)
                        \/ /\ current_cycle[u] < fire_count /\ Met(x, t, u)
                           /\ \E n \in 1 .. k : Adjacent[t][n] = u
    BY DEF OtherAirs
  <2>2. \/ Untouched(now, Now, u)
        \/ /\ current_cycle[u] < fire_count /\ Met(now, t, u)
           /\ \E n \in 1 .. k : Adjacent[t][n] = u
    BY <1>3 DEF OtherAirs
  <2>3. CASE u # enemy \/ x = now
    <3>1. Untouched(x, now, u)
      BY <1>5, <2>1, <2>3 DEF Untouched
    <3>2. QED
      BY <2>2, <3>1 DEF Untouched, Met
  <2>4. CASE u = enemy /\ x # now
    <3>1. current_cycle[u] < fire_count /\ Met(x, t, u)
      <4>1. current_cycle[enemy] \in Nat /\ fire_count \in Nat
        BY <1>2 DEF SharingSafe, SharingTypes
      <4>2. current_cycle[enemy] < fire_count /\ Meets(x, now, t, enemy)
        BY ONLY <1>5, <2>4, <4>1
      <4>3. QED
        BY <2>4, <4>2 DEF Meets
    <3>2. QED
      BY <1>1, <2>4, <3>1
  <2>5. QED
    BY <2>3, <2>4
<1>7. x.archived[t] = first.archived[t] /\ x.cycle[t] = fire_count
  BY <1>3, <1>5 DEF Meets
<1>8. x.moles[t] >= first.moles[t] - InAll(GivenTo(i, j), q)
  <2>1. q \in Nat /\ first.moles[t] \in Int /\ now.moles[t] \in Int /\ x.moles[t] \in Int
    <3>1. first.archived[t] \in Nat /\ first.moles[t] \in Int /\ now.moles[t] \in Int
      BY <1>3 DEF AirsNow
    <3> HIDE DEF k
    <3>2. q \in Nat
      BY <1>1, <3>1, PortionBounds
    <3>3. QED
      BY <3>1, <3>2 DEF AirsNow
  <2> DEFINE g == GivenTo(i, j)
  <2>2. g \in Int /\ GivenTo(i - 1, j) \in Int
    BY <1>1 DEF GivenTo
  <2>3. /\ InAll(g, q) \in Int
        /\ InAll(g - 1, q) = InAll(g, q) - q
    BY <2>1, <2>2, OneMore
  <2>4. CASE x = now
    <3>1. GivenTo(i - 1, j) = g \/ GivenTo(i - 1, j) = g - 1
      BY <1>1 DEF GivenTo
    <3> HIDE DEF q, g
    <3>2. QED
      BY <1>3, <2>1, <2>3, <2>4, <3>1 DEF g
  <2>5. CASE x # now
    <3>1. i # j
      BY <1>1, <1>5, <2>5
    <3>2. GivenTo(i - 1, j) = g - 1
      BY <1>1, <3>1 DEF GivenTo
    <3>3. x.moles[t] >= now.moles[t] - q
      BY <1>3, <1>5, <2>5 DEF Meets
    <3>4. now.moles[t] >= first.moles[t] - InAll(g - 1, q)
      BY <1>3, <3>2
    <3> HIDE DEF q, g
    <3>5. x.moles[t] >= first.moles[t] - InAll(g, q)
      <4> DEFINE one == InAll(g - 1, q)
                 all == InAll(g, q)
      <4>1. /\ one = all - q /\ all \in Int
            /\ now.moles[t] >= first.moles[t] - one
        BY <2>3, <3>4
      <4> HIDE DEF one, all
      <4>2. x.moles[t] >= first.moles[t] - all
        BY <2>1, <3>3, <4>1, SMTT(20)
      <4>3. QED
        BY <4>2 DEF all
    <3>6. QED
      BY <3>5 DEF g
  <2>6. QED
    BY <2>4, <2>5
<1>9. QED
  BY <1>6, <1>7, <1>8 DEF DuringTurn

LEMMA AllMeetings ==
  ASSUME SharingSafe, NEW t \in Cells, NEW grouped, NEW r, Turn(r, t, grouped),
         NEW j \in 1 .. Len(Adjacent[t]) + 1,
         j <= Len(Adjacent[t]) => current_cycle[Adjacent[t][j]] >= fire_count,
         NEW first, first = OwnArchive(Now, t), first.archived[t] >= 0,
         first.cycle[t] = fire_count
  PROVE  DuringTurn(r[Len(Adjacent[t])], t, Len(Adjacent[t]), j, first)
<1> DEFINE n == Len(Adjacent[t])
           S == {i \in 0 .. n : DuringTurn(r[i], t, i, j, first)}
<1>1. n \in Nat
  BY NeighboursAre
<1>2. r \in [0 .. n -> AirsNow] /\ r[0] = first
  BY DEF Turn
<1>3. first \in AirsNow
  BY <1>1, <1>2
<1>4. 0 \in S
  <2>1. OtherAirs(first, t)
    <3>1. SharingTypes /\ Now \in AirsNow
      BY DEF SharingSafe, SharingTypes, Now, AirsNow
    <3>2. \A u \in Cells \ {t} : Untouched(first, Now, u)
      BY <3>1, ArchivedAir DEF OwnArchive, Untouched
    <3>3. QED
      BY <3>2 DEF OtherAirs
  <2> DEFINE q == first.archived[t] \div (n + 1)
  <2>2. GivenTo(0, j) = 0
    BY <1>1 DEF GivenTo
  <2>3. q \in Nat /\ first.moles[t] \in Int
    <3>1. first.archived[t] \in Nat /\ first.moles[t] \in Int
      BY <1>3 DEF AirsNow
    <3>2. QED
      BY <1>1, <3>1, PartIsNat
  <2> HIDE DEF q
  <2>4. first.moles[t] >= first.moles[t] - InAll(GivenTo(0, j), q)
    <3>1. InAll(0, q) = 0
      BY <2>3, OneMore
    <3>2. InAll(GivenTo(0, j), q) = 0
      BY <2>2, <3>1
    <3>3. QED
      BY <2>3, <3>2
  <2>5. DuringTurn(first, t, 0, j, first)
    BY <1>3, <2>1, <2>4 DEF DuringTurn, q
  <2>6. QED
    BY <1>1, <1>2, <2>5
<1>5. \A i \in 1 .. n : i - 1 \in S => i \in S
  <2>1. SUFFICES ASSUME NEW i \in 1 .. n, DuringTurn(r[i - 1], t, i - 1, j, first)
                 PROVE  DuringTurn(r[i], t, i, j, first)
    BY <1>1
  <2>2. r[i] = Meet(r[i - 1], t, Adjacent[t][i], grouped) /\ r[i] \in AirsNow
    BY <1>1, <1>2, SMTT(20) DEF Turn
  <2>3. QED
    BY <1>3, <2>1, <2>2, OneMeeting
<1> HIDE DEF S
<1>6. \A i \in 0 .. n : i \in S
  BY <1>1, <1>4, <1>5, Climbs
<1>7. QED
  BY <1>1, <1>6 DEF S

\* What t has left if it gives to g neighbours: all it archived was there, or all
\* but the part for a neighbour of n ways, to which it does not give.
EnoughToGive(g, k, m, a) ==
  \/ g = k /\ m = a
  \/ g = k - 1 /\ \E n \in Nat : k <= 2 * n + 1 /\ m >= Rest(a, n)

LEMMA NotMore ==
  ASSUME NEW c \in Nat \ {0}, NEW x \in Int, NEW y \in Int, c * x <= c * y
  PROVE  x <= y
BY SMTT(20)

LEMMA EnoughIsLeft ==
  ASSUME NEW k \in Nat, NEW m \in Nat, NEW a \in Nat,
         NEW g \in 0 .. k, EnoughToGive(g, k, m, a)
  PROVE  m - InAll(g, a \div (k + 1)) >= 0
<1> USE DEF InAll
<1> DEFINE q == a \div (k + 1)
<1>1. q \in Nat /\ (k + 1) * q <= a
  BY PartIsNat
<1> HIDE DEF q
<1>2. CASE g = k /\ m = a
  <2>1. k * q <= (k + 1) * q
    BY <1>1
  <2>2. QED
    BY <1>1, <1>2, <2>1 DEF q
<1>3. CASE g = k - 1 /\ \E n \in Nat : k <= 2 * n + 1 /\ m >= Rest(a, n)
  <2>1. PICK n \in Nat : k <= 2 * n + 1 /\ m >= Rest(a, n)
    BY <1>3
  <2> DEFINE p == a \div (n + 1)
  <2>2. p \in Nat /\ (n + 1) * p <= a /\ m >= a - p
    BY <2>1, PartIsNat DEF Rest
  <2> HIDE DEF p
  <2>3. (k + 1) * p <= 2 * a
    <3>1. (k + 1) * p <= (2 * (n + 1)) * p
      <4>1. k + 1 \in Nat /\ 2 * (n + 1) \in Nat /\ k + 1 <= 2 * (n + 1)
        BY <2>1
      <4> DEFINE b == k + 1
                 c == 2 * (n + 1)
      <4>2. b * p <= c * p
        <5>1. c - b \in Nat /\ b \in Nat /\ c \in Nat
          BY <4>1
        <5> HIDE DEF b, c
        <5>2. (c - b) * p >= 0 /\ (c - b) * p = c * p - b * p
          BY <2>2, <5>1
        <5>3. b * p \in Int /\ c * p \in Int
          BY <2>2, <5>1
        <5>4. QED
          BY <5>2, <5>3
      <4>3. QED
        BY <4>2
    <3>2. (2 * (n + 1)) * p = 2 * ((n + 1) * p)
      BY <2>2
    <3>3. (k + 1) * p \in Int /\ (n + 1) * p \in Int
      BY <2>2
    <3>4. QED
      BY <2>2, <3>1, <3>2, <3>3
  <2>4. g \in Nat /\ g + 1 = k
    BY <1>3
  <2>5. (k + 1) * (g * q) <= g * a
    <3>1. (k + 1) * (g * q) = g * ((k + 1) * q)
      BY <1>1, <2>4
    <3>2. g * ((k + 1) * q) <= g * a
      <4> DEFINE b == (k + 1) * q
      <4>1. b \in Int /\ b <= a
        BY <1>1
      <4> HIDE DEF b
      <4>2. g * b <= g * a
        BY <2>4, <4>1, SMTT(20)
      <4>3. QED
        BY <4>2 DEF b
    <3>3. QED
      BY <3>1, <3>2
  <2>6. (k + 1) * (p + g * q) <= (k + 1) * a
    <3> DEFINE h == g * q
    <3>1. h \in Int /\ (k + 1) * h <= g * a
      BY <1>1, <2>4, <2>5
    <3> HIDE DEF h
    <3>2. (k + 1) * (p + h) = (k + 1) * p + (k + 1) * h
      BY <2>2, <3>1
    <3>3. (k + 1) * a = 2 * a + g * a
      BY <2>4
    <3>4. /\ (k + 1) * p \in Int /\ (k + 1) * h \in Int /\ g * a \in Int
      BY <2>2, <2>4, <3>1
    <3>5. (k + 1) * (p + h) <= (k + 1) * a
      BY <2>3, <3>1, <3>2, <3>3, <3>4
    <3>6. QED
      BY <3>5 DEF h
  <2>7. p + g * q <= a
    BY <1>1, <2>2, <2>4, <2>6, NotMore
  <2>8. g * q \in Int
    BY <1>1, <2>4
  <2>9. m - g * q >= 0
    BY <2>2, <2>7, <2>8
  <2>10. QED
    BY <2>9 DEF q
<1>4. QED
  BY <1>2, <1>3 DEF EnoughToGive

-----------------------------------------------------------------------------
LEMMA TurnLeavesEnough ==
  ASSUME SharingSafe, NEW t \in Cells, current_cycle[t] < fire_count,
         ~ Strains(t), NEW grouped, NEW x, x = AfterTurn(t, grouped)
  PROVE  /\ x \in AirsNow /\ OtherAirs(x, t)
         /\ x.moles[t] >= 0 /\ x.archived[t] >= 0 /\ x.cycle[t] = fire_count
<1> DEFINE k == Len(Adjacent[t])
           first == OwnArchive(Now, t)
<1>1. PICK r : Turn(r, t, grouped) /\ x = r[k]
  BY TurnIsFold DEF SharingSafe
<1>2. k \in Nat
  BY WaysAre
<1>3. SharingTypes /\ Now \in AirsNow
  BY DEF SharingSafe, SharingTypes, Now, AirsNow
<1>4. /\ turf_moles[t] \in Nat /\ moles_archived[t] \in Nat
      /\ archived_cycle[t] \in 0 .. fire_count /\ fire_count \in Nat
  BY DEF SharingSafe, SharingTypes
<1>5. \E j \in 1 .. k + 1 :
        /\ j <= k => current_cycle[Adjacent[t][j]] >= fire_count
        /\ first.moles[t] \in Nat /\ first.archived[t] \in Nat
        /\ first.cycle[t] = fire_count
        /\ EnoughToGive(GivenTo(k, j), k, first.moles[t], first.archived[t])
  <2>1. CASE archived_cycle[t] < fire_count
    <3>1. first = Archive(Now, t)
      BY <2>1 DEF OwnArchive, Now
    <3>2. /\ first.moles[t] = turf_moles[t] /\ first.archived[t] = turf_moles[t]
          /\ first.cycle[t] = fire_count
      BY <1>3, <3>1, ArchivedAir DEF Now
    <3>3. GivenTo(k, k + 1) = k /\ k + 1 \in 1 .. k + 1 /\ ~ (k + 1 <= k)
      BY <1>2 DEF GivenTo
    <3> HIDE DEF first
    <3>4. QED
      BY <1>4, <3>2, <3>3 DEF EnoughToGive
  <2>2. CASE archived_cycle[t] = fire_count
    <3>1. first = Now
      BY <1>4, <2>2 DEF OwnArchive, Now
    <3> DEFINE ways(i) == Len(Adjacent[Adjacent[t][i]])
    <3>2. PICK j \in 1 .. k : /\ current_cycle[Adjacent[t][j]] = fire_count
                              /\ turf_moles[t] >= Rest(moles_archived[t], ways(j))
      BY <2>2 DEF SharingSafe, RestIsLeft
    <3>3. ways(j) \in Nat /\ k <= 2 * ways(j) + 1
      <4>1. Adjacent[t][j] \in Cells /\ Adjacent[t][j] \in ToSet(Adjacent[t])
        BY NeighboursAre DEF ToSet
      <4>2. ways(j) \in Nat
        BY <4>1, WaysAre
      <4>3. ~ (Len(Adjacent[t]) > 2 * Len(Adjacent[Adjacent[t][j]]) + 1)
        BY <3>2, <4>1 DEF Strains
      <4> HIDE DEF ways
      <4>4. ~ (k > 2 * ways(j) + 1)
        BY <4>3 DEF ways
      <4> HIDE DEF k
      <4>5. QED
        BY <1>2, <4>2, <4>4
    <3>4. GivenTo(k, j) = k - 1 /\ j \in 1 .. k + 1
      BY <1>2 DEF GivenTo
    <3>5. /\ first.moles[t] = turf_moles[t] /\ first.archived[t] = moles_archived[t]
          /\ first.cycle[t] = fire_count
      BY <2>2, <3>1 DEF Now
    <3> HIDE DEF first
    <3>6. current_cycle[Adjacent[t][j]] >= fire_count
      BY <1>4, <3>2
    <3> HIDE DEF k, ways
    <3>7. EnoughToGive(GivenTo(k, j), k, first.moles[t], first.archived[t])
      BY <3>2, <3>3, <3>4, <3>5 DEF EnoughToGive
    <3>8. QED
      BY <1>4, <3>4, <3>5, <3>6, <3>7
  <2>3. QED
    BY <1>4, <2>1, <2>2
<1>6. PICK j \in 1 .. k + 1 :
        /\ j <= k => current_cycle[Adjacent[t][j]] >= fire_count
        /\ first.moles[t] \in Nat /\ first.archived[t] \in Nat
        /\ first.cycle[t] = fire_count
        /\ EnoughToGive(GivenTo(k, j), k, first.moles[t], first.archived[t])
  BY <1>5
<1>7. DuringTurn(x, t, k, j, first)
  BY <1>1, <1>6, AllMeetings
<1>8. first.moles[t] - InAll(GivenTo(k, j), first.archived[t] \div (k + 1)) >= 0
  <2>1. GivenTo(k, j) \in 0 .. k
    BY <1>2 DEF GivenTo
  <2> HIDE DEF k, first
  <2>2. QED
    BY <1>2, <1>6, <2>1, EnoughIsLeft
<1>9. InAll(GivenTo(k, j), first.archived[t] \div (k + 1)) \in Int
  <2>1. GivenTo(k, j) \in Int
    BY <1>2 DEF GivenTo
  <2> HIDE DEF k, first
  <2>2. first.archived[t] \div (k + 1) \in Nat
    BY <1>2, <1>6, PartIsNat
  <2>3. QED
    BY <2>1, <2>2, OneMore
<1>10. x \in AirsNow /\ OtherAirs(x, t)
       /\ x.archived[t] = first.archived[t] /\ x.cycle[t] = fire_count
       /\ x.moles[t] >= first.moles[t]
                        - InAll(GivenTo(k, j), first.archived[t] \div (k + 1))
  BY <1>7 DEF DuringTurn
<1>11. x.moles[t] \in Int
  BY <1>10 DEF AirsNow
<1> DEFINE given == InAll(GivenTo(k, j), first.archived[t] \div (k + 1))
<1> HIDE DEF first, given
<1>12. x.moles[t] >= 0
  BY <1>6, <1>8, <1>9, <1>10, <1>11 DEF given
<1>13. QED
  BY <1>6, <1>10, <1>12

LEMMA ProcessCellShares ==
  ASSUME SharingSafe, NEW t \in Cells, ~ Strains(t), ProcessCell(t)
  PROVE  SharingSafe'
<1>1. PICK grouped : /\ turf_moles' = AfterTurn(t, grouped).moles
                     /\ moles_archived' = AfterTurn(t, grouped).archived
                     /\ archived_cycle' = AfterTurn(t, grouped).cycle
  BY DEF ProcessCell
<1>2. /\ current_cycle[t] < fire_count
      /\ current_cycle' = [current_cycle EXCEPT ![t] = fire_count]
      /\ fire_count' = fire_count
  BY DEF ProcessCell
<1> DEFINE x == AfterTurn(t, grouped)
<1>3. /\ x \in AirsNow /\ OtherAirs(x, t)
      /\ x.moles[t] >= 0 /\ x.archived[t] >= 0 /\ x.cycle[t] = fire_count
  BY <1>2, TurnLeavesEnough
<1>4. x = [moles |-> turf_moles', archived |-> moles_archived', cycle |-> archived_cycle']
  BY <1>1, <1>3 DEF AirsNow
<1> HIDE DEF x
<1>5. SharingTypes /\ fire_count \in Nat
  BY DEF SharingSafe, SharingTypes
<1>6. /\ turf_moles' \in [Cells -> Int] /\ moles_archived' \in [Cells -> Int]
      /\ archived_cycle' \in [Cells -> Int]
  BY <1>3, <1>4 DEF AirsNow
<1>7. current_cycle' \in [Cells -> Nat] /\ current_cycle'[t] = fire_count
      /\ \A u \in Cells \ {t} : current_cycle'[u] = current_cycle[u]
  BY <1>2, <1>5 DEF SharingTypes
<1>8. ASSUME NEW u \in Cells
      PROVE  /\ turf_moles'[u] >= 0 /\ moles_archived'[u] >= 0
             /\ archived_cycle'[u] \in Nat /\ archived_cycle'[u] <= fire_count
             /\ RestIsLeft(u)'
  <2>1. CASE u = t
    BY <1>2, <1>3, <1>4, <1>5, <1>7, <2>1 DEF RestIsLeft
  <2>2. CASE u # t /\ Untouched(x, Now, u)
    <3>1. /\ turf_moles'[u] = turf_moles[u] /\ moles_archived'[u] = moles_archived[u]
          /\ archived_cycle'[u] = archived_cycle[u]
      BY <1>4, <2>2 DEF Untouched, Now
    <3>2. /\ turf_moles[u] >= 0 /\ moles_archived[u] >= 0 /\ RestIsLeft(u)
          /\ archived_cycle[u] \in Nat /\ archived_cycle[u] <= fire_count
      BY DEF SharingSafe, SharingTypes
    <3>3. \A i \in 1 .. Len(Adjacent[u]) : current_cycle[Adjacent[u][i]] = fire_count =>
            current_cycle'[Adjacent[u][i]] = fire_count
      BY <1>7, NeighboursAre
    <3>4. RestIsLeft(u)'
      BY <1>2, <1>7, <2>2, <3>1, <3>2, <3>3 DEF RestIsLeft
    <3>5. QED
      BY <3>1, <3>2, <3>4
  <2>3. CASE u # t /\ ~ Untouched(x, Now, u)
    <3>1. /\ current_cycle[u] < fire_count /\ Met(x, t, u)
          /\ \E i \in 1 .. Len(Adjacent[t]) : Adjacent[t][i] = u
      BY <1>3, <2>3 DEF OtherAirs
    <3>2. PICK j \in 1 .. Len(Adjacent[u]) : Adjacent[u][j] = t
      <4>1. PICK i \in 1 .. Len(Adjacent[t]) : Adjacent[t][i] = u
        BY <3>1
      <4>2. QED
        BY <4>1, WaysAreMutual
    <3>3. RestIsLeft(u)'
      BY <1>2, <1>4, <1>7, <3>1, <3>2 DEF RestIsLeft, Met
    <3>4. QED
      BY <1>4, <1>5, <3>1, <3>3 DEF Met
  <2>4. QED
    BY <2>1, <2>2, <2>3
<1>9. ASSUME NEW u \in Cells
      PROVE  current_cycle'[u] <= fire_count
  <2>1. CASE u = t
    BY <1>5, <1>7, <2>1
  <2>2. CASE u # t
    <3>1. current_cycle'[u] = current_cycle[u]
      BY <1>7, <2>2
    <3>2. QED
      BY <1>5, <3>1 DEF SharingTypes
  <2>3. QED
    BY <2>1, <2>2
<1>10. archived_cycle' \in [Cells -> Nat]
  BY <1>6, <1>8
<1>11. SharingTypes'
  BY <1>2, <1>5, <1>6, <1>7, <1>8, <1>9, <1>10 DEF SharingTypes
<1>12. QED
  BY <1>8, <1>11 DEF SharingSafe

LEMMA FireShares ==
  ASSUME SharingSafe, Fire
  PROVE  SharingSafe'
<1>1. SharingTypes'
  BY DEF SharingSafe, SharingTypes, Fire, airs
<1>2. \A u \in Cells : RestIsLeft(u)'
  BY DEF SharingSafe, SharingTypes, Fire, RestIsLeft, airs
<1>3. QED
  BY <1>1, <1>2 DEF SharingSafe, Fire, airs

(* Until a turf has its turn after a neighbour with less than half as many   *)
(* ways, nobody gives more than it has: for any grid, any number of ways and *)
(* any airs, in any order of turns (process_cell, share).  A turf loses a    *)
(* part of its air to the last neighbour that archived it, to which it does  *)
(* not give in its own turn; the others get less than is left, if that part  *)
(* was not much greater than theirs.                                         *)
THEOREM NobodyOverdraws == SharingSpec => []NoOverdraft
<1>1. SharingInit => SharingInv
  <2> SUFFICES ASSUME SharingInit
               PROVE  SharingSafe
    BY DEF SharingInv
  <2>1. turf_moles \in [Cells -> Nat]
    BY SharingAssumption DEF SharingInit
  <2>2. QED
    BY <2>1 DEF SharingInit, SharingSafe, SharingTypes, RestIsLeft
<1>2. SharingInv /\ [SharingNext]_sharingVars => SharingInv'
  <2> SUFFICES ASSUME SharingInv, [SharingNext]_sharingVars
               PROVE  SharingInv'
    OBVIOUS
  <2>1. CASE strained
    BY <2>1 DEF SharingInv, SharingNext, Fire, ProcessCell, sharingVars
  <2>2. CASE SharingSafe /\ Fire
    BY <2>2, FireShares DEF SharingInv
  <2>3. ASSUME SharingSafe, NEW t \in Cells, ProcessCell(t)
        PROVE  SharingInv'
    <3>1. CASE Strains(t)
      BY <2>3, <3>1 DEF SharingInv, ProcessCell
    <3>2. CASE ~ Strains(t)
      BY <2>3, <3>2, ProcessCellShares DEF SharingInv
    <3>3. QED
      BY <3>1, <3>2
  <2>4. CASE SharingSafe /\ UNCHANGED sharingVars
    BY <2>4 DEF sharingVars, airs, SharingInv, SharingSafe, SharingTypes, RestIsLeft
  <2>5. QED
    BY <2>1, <2>2, <2>3, <2>4 DEF SharingInv, SharingNext
<1>3. SharingInv => NoOverdraft
  BY DEF SharingInv, SharingSafe, NoOverdraft
<1>4. QED
  BY <1>1, <1>2, <1>3, PTL DEF SharingSpec

-----------------------------------------------------------------------------
(***************************************************************************)
(* The plan of an equalization: what the plan says flows out of a tile,    *)
(* and what the tile still owes, are together what it has more than its    *)
(* share (PlansAddUp).  First the directions that are open: Chosen keeps   *)
(* the elements of a sequence that are in a set, in its order.             *)
(***************************************************************************)
ChosenRun(r, s, X, chosen) ==
  /\ r \in [0 .. Len(s) -> Seq(X)] /\ r[0] = <<>>
  /\ \A i \in 1 .. Len(s) :
       r[i] = IF s[i] \in chosen THEN Append(r[i - 1], s[i]) ELSE r[i - 1]

LEMMA ChosenRuns ==
  ASSUME NEW X, NEW s \in Seq(X), NEW chosen
  PROVE  \E r : ChosenRun(r, s, X, chosen) /\ Chosen(s, chosen) = r[Len(s)]
<1> DEFINE n == Len(s)
           b == <<>>
           op(kept, x) == IF x \in chosen THEN Append(kept, x) ELSE kept
           F == [i \in 1 .. n |-> [kept \in Seq(X) |-> op(kept, s[i])]]
           Fold(h) == h = [z \in SUBSET (DOMAIN s) |->
                             IF z = {} THEN b ELSE op(h[z \ {Max(z)}], s[Max(z)])]
           h == CHOOSE h : Fold(h)
<1>1. n \in Nat /\ DOMAIN s = 1 .. n /\ \A i \in 1 .. n : s[i] \in X
  OBVIOUS
<1>2. b \in Seq(X)
  OBVIOUS
<1>3. \A kept \in Seq(X), i \in 1 .. n : op(kept, s[i]) \in Seq(X)
  BY <1>1
<1>4. \A i \in 1 .. n : \A kept \in Seq(X) : F[i][kept] = op(kept, s[i])
  OBVIOUS
<1>5. StepsOf(n, Seq(X), b, F)
  BY <1>1, <1>2, <1>3 DEF StepsOf
<1>6. Chosen(s, chosen) = h[DOMAIN s]
  BY DEF Chosen, FoldLeft, MapThenFoldSet
<1>7. b = <<>> /\ \A kept, x : op(kept, x) = IF x \in chosen THEN Append(kept, x) ELSE kept
  OBVIOUS
<1> HIDE DEF b, op, F
<1>8. Fold(h)
  <2>1. PICK g \in [SUBSET (1 .. n) -> Seq(X)] : FromLeft(g, n, b, F)
    BY ONLY <1>5, LeftFoldExists DEF LeftFolded
  <2>2. \A z \in SUBSET (1 .. n) : z # {} =>
          F[Max(z)][g[z \ {Max(z)}]] = op(g[z \ {Max(z)}], s[Max(z)])
    BY <1>1, <1>4, <2>1, GreatestOf
  <2>3. Fold(g)
    BY <1>1, <2>1, <2>2 DEF FromLeft
  <2>4. QED
    BY <2>3
<1> HIDE DEF h
<1>9. FoldsLeft(h, n, Seq(X), b, F)
  <2>1. \A z \in SUBSET (1 .. n) : z # {} => Max(z) \in 1 .. n
    BY <1>1, GreatestOf
  <2>2. h[{}] = b
    BY <1>1, <1>8
  <2>3. \A z \in SUBSET (1 .. n) : z # {} => h[z] = op(h[z \ {Max(z)}], s[Max(z)])
    BY <1>1, <1>8
  <2>4. QED
    BY <1>4, <2>1, <2>2, <2>3 DEF FoldsLeft
<1>10. PICK r : LeftRun(r, n, Seq(X), b, F) /\ r[n] = h[1 .. n]
  BY ONLY <1>5, <1>9, LeftRunIs DEF RunsLeft
<1>11. ASSUME NEW i \in 1 .. n
       PROVE  r[i] = op(r[i - 1], s[i])
  <2>1. i - 1 \in 0 .. n
    BY <1>1
  <2>2. QED
    BY <1>4, <1>10, <2>1 DEF LeftRun
<1>12. ChosenRun(r, s, X, chosen)
  BY <1>7, <1>10, <1>11 DEF ChosenRun, LeftRun
<1>13. QED
  BY <1>1, <1>6, <1>10, <1>12

Once(s) == \A i, j \in 1 .. Len(s) : s[i] = s[j] => i = j

\* Up to i, what was chosen is what was to be, once if it is in s once.
ChosenTo(i, r, s, X, chosen) ==
  /\ \A k \in 1 .. Len(r[i]) : \E j \in 1 .. i : r[i][k] = s[j] /\ s[j] \in chosen
  /\ Once(s) => Once(r[i])
  /\ \A j \in 1 .. i : s[j] \in chosen => \E k \in 1 .. Len(r[i]) : r[i][k] = s[j]

LEMMA ChosenIs ==
  ASSUME NEW X, NEW s \in Seq(X), NEW chosen, NEW q, q = Chosen(s, chosen)
  PROVE  /\ q \in Seq(X)
         /\ \A k \in 1 .. Len(q) : q[k] \in chosen /\ \E j \in 1 .. Len(s) : q[k] = s[j]
         /\ Once(s) => Once(q)
         /\ \A j \in 1 .. Len(s) : s[j] \in chosen => \E k \in 1 .. Len(q) : q[k] = s[j]
<1> DEFINE n == Len(s)
<1>1. n \in Nat /\ \A i \in 1 .. n : s[i] \in X
  OBVIOUS
<1>2. PICK r : ChosenRun(r, s, X, chosen) /\ q = r[n]
  BY ChosenRuns
<1> DEFINE S == {i \in 0 .. n : ChosenTo(i, r, s, X, chosen)}
<1>3. 0 \in S
  BY <1>1, <1>2 DEF ChosenRun, ChosenTo, Once
<1>4. \A i \in 1 .. n : i - 1 \in S => i \in S
  <2>1. SUFFICES ASSUME NEW i \in 1 .. n, ChosenTo(i - 1, r, s, X, chosen)
                 PROVE  ChosenTo(i, r, s, X, chosen)
    BY <1>1
  <2> DEFINE p == r[i - 1]
             m == Len(p)
  <2>2. p \in Seq(X) /\ r[i] = IF s[i] \in chosen THEN Append(p, s[i]) ELSE p
    BY <1>1, <1>2 DEF ChosenRun
  <2>3. /\ \A k \in 1 .. m : \E j \in 1 .. i - 1 : p[k] = s[j] /\ s[j] \in chosen
        /\ Once(s) => \A k, j \in 1 .. m : p[k] = p[j] => k = j
        /\ \A j \in 1 .. i - 1 : s[j] \in chosen => \E k \in 1 .. m : p[k] = s[j]
    BY <2>1 DEF ChosenTo, Once
  <2> HIDE DEF p
  <2>4. CASE s[i] \notin chosen
    <3>1. r[i] = p /\ \A j \in 1 .. i : j \in 1 .. i - 1 \/ j = i
      BY <1>1, <2>2, <2>4
    <3>2. \A j \in 1 .. i - 1 : j \in 1 .. i
      BY <1>1
    <3>3. QED
      BY <2>3, <2>4, <3>1, <3>2 DEF ChosenTo, Once
  <2>5. CASE s[i] \in chosen
    <3>1. /\ r[i] = Append(p, s[i]) /\ m \in Nat /\ Len(r[i]) = m + 1
          /\ r[i][m + 1] = s[i] /\ \A k \in 1 .. m : r[i][k] = p[k]
      BY <1>1, <2>2, <2>5
    <3>2. /\ \A k \in 1 .. m + 1 : k \in 1 .. m \/ k = m + 1
          /\ \A k \in 1 .. m : k \in 1 .. m + 1
          /\ m + 1 \in 1 .. m + 1
      BY <3>1
    <3>3. /\ \A j \in 1 .. i : j \in 1 .. i - 1 \/ j = i
          /\ \A j \in 1 .. i - 1 : j \in 1 .. i /\ j \in 1 .. n /\ j # i
          /\ i \in 1 .. i
      BY <1>1
    <3>4. \A k \in 1 .. Len(r[i]) : \E j \in 1 .. i : r[i][k] = s[j] /\ s[j] \in chosen
      BY <2>3, <2>5, <3>1, <3>2, <3>3
    <3>5. \A j \in 1 .. i : s[j] \in chosen => \E k \in 1 .. Len(r[i]) : r[i][k] = s[j]
      BY <2>3, <3>1, <3>2, <3>3
    <3>6. ASSUME Once(s)
          PROVE  Once(r[i])
      <4>1. \A k \in 1 .. m : p[k] # s[i]
        BY <2>3, <3>3, <3>6 DEF Once
      <4>2. \A k, j \in 1 .. m + 1 : r[i][k] = r[i][j] => k = j
        BY <2>3, <3>1, <3>2, <3>6, <4>1
      <4>3. QED
        BY <3>1, <4>2 DEF Once
    <3>7. QED
      BY <3>4, <3>5, <3>6 DEF ChosenTo
  <2>6. QED
    BY <2>4, <2>5
<1> HIDE DEF S
<1>5. \A i \in 0 .. n : i \in S
  BY <1>1, <1>3, <1>4, Climbs
<1>6. ChosenTo(n, r, s, X, chosen)
  BY <1>1, <1>5 DEF S
<1>7. q \in Seq(X)
  BY <1>1, <1>2 DEF ChosenRun
<1>8. QED
  BY <1>2, <1>6, <1>7 DEF ChosenTo

-----------------------------------------------------------------------------
(* A tile's info.                                                            *)
-----------------------------------------------------------------------------
(***************************************************************************)
(* What the steps of the plan do to the dues of a tile, which are what it  *)
(* owes and what is planned to flow out of it, and to what it passes on.   *)
(***************************************************************************)
Due(inf, t) == inf[t].mole_delta + SumAll(inf[t].transfer_dirs, 1 .. Still)
Amount(inf, t) == inf[t].curr_transfer_amount
Way(inf, t) == inf[t].curr_transfer_dir

\* What a step may do to a tile: it owes more, or passes more on.
Becomes(now, inf, t, owed, passed) ==
  /\ now \in Plans
  /\ Due(now, t) = Due(inf, t) + owed /\ Amount(now, t) = Amount(inf, t) + passed
  /\ Way(now, t) = Way(inf, t)
  /\ \A u \in Tiles \ {t} : now[u] = inf[u]

LEMMA StillIs == Still \in Nat /\ Still = 7 /\ IsFiniteSet(1 .. Still)
<1>1. Still \in Nat /\ Still = 7
  BY DEF Still
<1>2. \A n \in Nat : IsFiniteSet(1 .. n)
  BY FS_Interval
<1>3. QED
  BY <1>1, <1>2

LEMMA FieldsAre ==
  ASSUME NEW i \in Infos
  PROVE  /\ DOMAIN i = {"last_cycle", "mole_delta", "curr_transfer_amount",
                       "curr_transfer_dir", "transfer_dirs"}
         /\ i.last_cycle \in Nat /\ i.mole_delta \in Int /\ i.curr_transfer_amount \in Int
         /\ i.curr_transfer_dir \in 1 .. Still /\ i.transfer_dirs \in [1 .. Still -> Int]
BY DEF Infos

LEMMA DeltaChanges ==
  ASSUME NEW i \in Infos, NEW n \in Int, NEW x, x = [i EXCEPT !.mole_delta = n]
  PROVE  /\ x \in Infos /\ x.mole_delta = n
         /\ x.transfer_dirs = i.transfer_dirs /\ x.curr_transfer_amount = i.curr_transfer_amount
         /\ x.curr_transfer_dir = i.curr_transfer_dir
BY FieldsAre DEF Infos

LEMMA AmountChanges ==
  ASSUME NEW i \in Infos, NEW n \in Int, NEW x,
         x = [i EXCEPT !.curr_transfer_amount = n]
  PROVE  /\ x \in Infos /\ x.curr_transfer_amount = n
         /\ x.transfer_dirs = i.transfer_dirs /\ x.mole_delta = i.mole_delta
         /\ x.curr_transfer_dir = i.curr_transfer_dir
BY FieldsAre DEF Infos

LEMMA WayChanges ==
  ASSUME NEW i \in Infos, NEW n \in 1 .. Still, NEW x,
         x = [i EXCEPT !.curr_transfer_dir = n]
  PROVE  /\ x \in Infos /\ x.curr_transfer_dir = n
         /\ x.transfer_dirs = i.transfer_dirs /\ x.mole_delta = i.mole_delta
         /\ x.curr_transfer_amount = i.curr_transfer_amount
BY FieldsAre DEF Infos

LEMMA DirsChange ==
  ASSUME NEW i \in Infos, NEW n \in [1 .. Still -> Int], NEW x,
         x = [i EXCEPT !.transfer_dirs = n]
  PROVE  /\ x \in Infos /\ x.transfer_dirs = n
         /\ x.mole_delta = i.mole_delta /\ x.curr_transfer_amount = i.curr_transfer_amount
         /\ x.curr_transfer_dir = i.curr_transfer_dir
BY FieldsAre DEF Infos

Instead(now, inf, t, x) == now = [inf EXCEPT ![t] = x]

LEMMA OneInfo ==
  ASSUME NEW inf \in Plans, NEW t \in Tiles, NEW x \in Infos,
         x.curr_transfer_dir \in DOMAIN Neighbour[t] \cup {Still},
         NEW now, Instead(now, inf, t, x)
  PROVE  now \in Plans /\ now[t] = x /\ \A u \in Tiles \ {t} : now[u] = inf[u]
<1>1. now \in [Tiles -> Infos]
  BY DEF Plans, Instead
<1>2. now[t] = x /\ \A u \in Tiles \ {t} : now[u] = inf[u]
  BY DEF Plans, Instead
<1>3. QED
  BY <1>1, <1>2 DEF Plans

LEMMA InfosAre ==
  ASSUME NEW inf \in Plans, NEW t \in Tiles
  PROVE  /\ inf[t] \in Infos /\ Way(inf, t) \in DOMAIN Neighbour[t] \cup {Still}
         /\ inf[t].mole_delta \in Int /\ Amount(inf, t) \in Int
         /\ inf[t].transfer_dirs \in [1 .. Still -> Int]
         /\ Integral(inf[t].transfer_dirs, 1 .. Still)
         /\ SumAll(inf[t].transfer_dirs, 1 .. Still) \in Int
         /\ Due(inf, t) \in Int
<1>1. /\ inf[t] \in Infos /\ Way(inf, t) \in DOMAIN Neighbour[t] \cup {Still}
      /\ inf[t].mole_delta \in Int /\ Amount(inf, t) \in Int
      /\ inf[t].transfer_dirs \in [1 .. Still -> Int]
  BY DEF Plans, Infos, Way, Amount
<1>2. Integral(inf[t].transfer_dirs, 1 .. Still)
  BY <1>1 DEF Integral
<1>3. IsFiniteSet(1 .. Still)
  BY StillIs
<1>4. SumAll(inf[t].transfer_dirs, 1 .. Still) \in Int
  BY <1>2, <1>3, SumType
<1>5. QED
  BY <1>1, <1>2, <1>4 DEF Due

LEMMA OwesIs ==
  ASSUME NEW inf \in Plans, NEW t \in Tiles, NEW n \in Int
  PROVE  Becomes(Owes(inf, t, n), inf, t, n, 0)
<1> DEFINE x == [inf[t] EXCEPT !.mole_delta = inf[t].mole_delta + n]
           now == Owes(inf, t, n)
<1>1. Instead(now, inf, t, x)
  BY DEF Instead, Owes
<1>2. /\ x \in Infos /\ x.mole_delta = inf[t].mole_delta + n
      /\ x.transfer_dirs = inf[t].transfer_dirs
      /\ x.curr_transfer_amount = inf[t].curr_transfer_amount
      /\ x.curr_transfer_dir = inf[t].curr_transfer_dir
  <2>1. inf[t].mole_delta + n \in Int
    BY InfosAre
  <2>2. QED
    BY <2>1, InfosAre, DeltaChanges
<1> HIDE DEF x, now
<1>3. now \in Plans /\ now[t] = x /\ \A u \in Tiles \ {t} : now[u] = inf[u]
  BY <1>1, <1>2, InfosAre, OneInfo DEF Way
<1>4. Due(now, t) = Due(inf, t) + n
  BY <1>2, <1>3, InfosAre DEF Due
<1>5. QED
  BY <1>2, <1>3, <1>4, InfosAre DEF Becomes, Amount, Way, now

LEMMA PassesIs ==
  ASSUME NEW inf \in Plans, NEW t \in Tiles, NEW n \in Int
  PROVE  Becomes(Passes(inf, t, n), inf, t, 0, n)
<1> DEFINE x == [inf[t] EXCEPT !.curr_transfer_amount = inf[t].curr_transfer_amount + n]
           now == Passes(inf, t, n)
<1>1. Instead(now, inf, t, x)
  BY DEF Instead, Passes
<1>2. /\ x \in Infos /\ x.curr_transfer_amount = inf[t].curr_transfer_amount + n
      /\ x.transfer_dirs = inf[t].transfer_dirs
      /\ x.mole_delta = inf[t].mole_delta
      /\ x.curr_transfer_dir = inf[t].curr_transfer_dir
  <2>1. inf[t].curr_transfer_amount + n \in Int
    BY InfosAre DEF Amount
  <2>2. QED
    BY <2>1, InfosAre, AmountChanges
<1> HIDE DEF x, now
<1>3. now \in Plans /\ now[t] = x /\ \A u \in Tiles \ {t} : now[u] = inf[u]
  BY <1>1, <1>2, InfosAre, OneInfo DEF Way
<1>4. Due(now, t) = Due(inf, t) + 0
  <2>1. Due(inf, t) \in Int
    BY InfosAre
  <2>2. Due(now, t) = Due(inf, t)
    BY <1>2, <1>3 DEF Due
  <2>3. QED
    BY <2>1, <2>2
<1>5. QED
  BY <1>2, <1>3, <1>4 DEF Becomes, Amount, Way, now

MoreAt(f, e, d, n) == f = [e EXCEPT ![d] = e[d] + n]

LEMMA MoreInOne ==
  ASSUME NEW S, IsFiniteSet(S), NEW e \in [S -> Int], NEW d \in S, NEW n \in Int,
         NEW f, MoreAt(f, e, d, n)
  PROVE  f \in [S -> Int] /\ SumAll(f, S) = SumAll(e, S) + n
<1>1. /\ f \in [S -> Int] /\ f[d] = e[d] + n /\ e[d] \in Int
      /\ \A x \in S \ {d} : e[x] = f[x]
  BY DEF MoreAt
<1>2. Integral(e, S) /\ Integral(f, S)
  BY <1>1 DEF Integral
<1>3. SumAll(f, S) = SumAll(e, S) + f[d] - e[d]
  BY <1>1, <1>2, SumChange
<1>4. SumAll(e, S) \in Int
  BY <1>2, SumType
<1>5. SumAll(f, S) = SumAll(e, S) + n
  BY <1>1, <1>3, <1>4
<1>6. QED
  BY <1>1, <1>5

LEMMA FlowsIs ==
  ASSUME NEW inf \in Plans, NEW t \in Tiles, NEW d \in 1 .. Still, NEW n \in Int
  PROVE  Becomes(Flows(inf, t, d, n), inf, t, n, 0)
<1> DEFINE dirs == inf[t].transfer_dirs
           f == [dirs EXCEPT ![d] = dirs[d] + n]
           x == [inf[t] EXCEPT !.transfer_dirs = f]
           now == Flows(inf, t, d, n)
<1>1. dirs \in [1 .. Still -> Int]
  BY InfosAre
<1>2. Instead(now, inf, t, x)
  BY DEF Instead, Flows
<1>3. f \in [1 .. Still -> Int] /\ SumAll(f, 1 .. Still) = SumAll(dirs, 1 .. Still) + n
  <2>1. MoreAt(f, dirs, d, n)
    BY DEF MoreAt
  <2> HIDE DEF dirs, f
  <2>2. QED
    BY <1>1, <2>1, MoreInOne, StillIs
<1>4. x = [inf[t] EXCEPT !.transfer_dirs = f]
  OBVIOUS
<1> HIDE DEF f, x, now
<1>5. /\ x \in Infos /\ x.transfer_dirs = f
      /\ x.mole_delta = inf[t].mole_delta
      /\ x.curr_transfer_amount = inf[t].curr_transfer_amount
      /\ x.curr_transfer_dir = inf[t].curr_transfer_dir
  BY <1>3, <1>4, InfosAre, DirsChange
<1>6. now \in Plans /\ now[t] = x /\ \A u \in Tiles \ {t} : now[u] = inf[u]
  BY <1>2, <1>5, InfosAre, OneInfo DEF Way
<1>7. Due(now, t) = Due(inf, t) + n
  BY <1>3, <1>5, <1>6, InfosAre DEF Due
<1>8. QED
  BY <1>5, <1>6, <1>7, InfosAre DEF Becomes, Amount, Way, now

\* The next amount of a tile that points to d is new.
LEMMA PointsIs ==
  ASSUME NEW inf \in Plans, NEW t \in Tiles, NEW d \in DOMAIN Neighbour[t] \cup {Still},
         d \in 1 .. Still, NEW now, now = Points(inf, t, d)
  PROVE  /\ now \in Plans /\ Due(now, t) = Due(inf, t)
         /\ Amount(now, t) = 0 /\ Way(now, t) = d
         /\ \A u \in Tiles \ {t} : now[u] = inf[u]
<1> DEFINE y == [inf[t] EXCEPT !.curr_transfer_dir = d]
           x == [y EXCEPT !.curr_transfer_amount = 0]
<1>1. Instead(now, inf, t, x)
  BY DEF Instead, Points, Plans
<1>2. /\ y \in Infos /\ y.curr_transfer_dir = d
      /\ y.transfer_dirs = inf[t].transfer_dirs
      /\ y.mole_delta = inf[t].mole_delta
  BY InfosAre, WayChanges
<1> HIDE DEF y
<1>3. /\ x \in Infos /\ x.curr_transfer_dir = d /\ x.curr_transfer_amount = 0
      /\ x.transfer_dirs = inf[t].transfer_dirs
      /\ x.mole_delta = inf[t].mole_delta
  BY <1>2, AmountChanges
<1> HIDE DEF x
<1>4. now \in Plans /\ now[t] = x /\ \A u \in Tiles \ {t} : now[u] = inf[u]
  BY <1>1, <1>3, OneInfo
<1>5. QED
  BY <1>3, <1>4 DEF Due, Amount, Way

LEMMA NeighbourIs ==
  ASSUME NEW t \in Tiles, NEW d \in DOMAIN Neighbour[t]
  PROVE  LET u == Neighbour[t][d]
             e == opp_dir_index[d]
         IN  /\ d \in 1 .. 6 /\ d \in 1 .. Still /\ d # Still
             /\ u \in Tiles /\ u # t
             /\ e \in DOMAIN Neighbour[u] /\ e \in 1 .. Still /\ e # Still
             /\ Neighbour[u][e] = t
             /\ \A f \in DOMAIN Neighbour[t] : Neighbour[t][f] = u => f = d
<1>1. ToSet(Directions) = 1 .. 6
  BY DEF ToSet, Directions
<1>2. d \in 1 .. 6
  BY <1>1, EqualizeAssumption
<1>3. opp_dir_index[d] \in 1 .. 6
  BY <1>2 DEF opp_dir_index
<1>4. \A f \in 1 .. 6 : f \in 1 .. Still /\ f # Still
  BY DEF Still
<1>5. QED
  BY <1>2, <1>3, <1>4, EqualizeAssumption

\* What a step may do to both ends of a way.
Between(now, inf, t, u, owed, owing, passed, passing) ==
  /\ now \in Plans
  /\ Due(now, t) = Due(inf, t) + owed /\ Due(now, u) = Due(inf, u) + owing
  /\ Amount(now, t) = Amount(inf, t) + passed
  /\ Amount(now, u) = Amount(inf, u) + passing
  /\ Way(now, t) = Way(inf, t) /\ Way(now, u) = Way(inf, u)
  /\ \A x \in Tiles \ {t, u} : now[x] = inf[x]

LEMMA BothEnds ==
  ASSUME NEW inf \in Plans, NEW t \in Tiles, NEW u \in Tiles, t # u,
         NEW a \in Int, NEW b \in Int, NEW c \in Int, NEW e \in Int,
         NEW now, Between(now, inf, t, u, a, b, c, e),
         NEW m \in Int, NEW n \in Int, NEW next
  PROVE  /\ Becomes(next, now, t, m, n) => Between(next, inf, t, u, a + m, b, c + n, e)
         /\ Becomes(next, now, u, m, n) => Between(next, inf, t, u, a, b + m, c, e + n)
<1> USE DEF Between, Becomes
<1>1. /\ Due(inf, t) \in Int /\ Due(inf, u) \in Int
      /\ Amount(inf, t) \in Int /\ Amount(inf, u) \in Int
  BY InfosAre
<1>2. ASSUME Becomes(next, now, t, m, n)
      PROVE  Between(next, inf, t, u, a + m, b, c + n, e)
  <2>1. next[u] = now[u]
    BY <1>2
  <2>2. Due(next, u) = Due(now, u) /\ Amount(next, u) = Amount(now, u) /\ Way(next, u) = Way(now, u)
    BY <2>1 DEF Due, Amount, Way
  <2>3. QED
    BY <1>1, <1>2, <2>2
<1>3. ASSUME Becomes(next, now, u, m, n)
      PROVE  Between(next, inf, t, u, a, b + m, c, e + n)
  <2>1. next[t] = now[t]
    BY <1>3
  <2>2. Due(next, t) = Due(now, t) /\ Amount(next, t) = Amount(now, t) /\ Way(next, t) = Way(now, t)
    BY <2>1 DEF Due, Amount, Way
  <2>3. QED
    BY <1>1, <1>3, <2>2
<1>4. QED
  BY <1>2, <1>3

LEMMA OneEnd ==
  ASSUME NEW inf \in Plans, NEW t \in Tiles, NEW u \in Tiles, t # u,
         NEW m \in Int, NEW n \in Int, NEW now, Becomes(now, inf, t, m, n)
  PROVE  Between(now, inf, t, u, m, 0, n, 0)
<1>1. now[u] = inf[u]
  BY DEF Becomes
<1>2. Due(now, u) = Due(inf, u) /\ Amount(now, u) = Amount(inf, u) /\ Way(now, u) = Way(inf, u)
  BY <1>1 DEF Due, Amount, Way
<1>3. Due(inf, u) \in Int /\ Amount(inf, u) \in Int
  BY InfosAre
<1>4. QED
  BY <1>2, <1>3 DEF Becomes, Between

LEMMA AdjustIs ==
  ASSUME NEW inf \in Plans, NEW t \in Tiles, NEW n \in Int
  PROVE  /\ Becomes(AdjustEqMovement(inf, t, Still, n), inf, t, n, 0)
         /\ \A d \in DOMAIN Neighbour[t] :
              Between(AdjustEqMovement(inf, t, d, n), inf, t, Neighbour[t][d], n, -n, 0, 0)
<1>1. Still \in 1 .. Still
  BY StillIs
<1>2. Becomes(AdjustEqMovement(inf, t, Still, n), inf, t, n, 0)
  BY <1>1, FlowsIs DEF AdjustEqMovement
<1>3. ASSUME NEW d \in DOMAIN Neighbour[t]
      PROVE  Between(AdjustEqMovement(inf, t, d, n), inf, t, Neighbour[t][d], n, -n, 0, 0)
  <2> DEFINE u == Neighbour[t][d]
             e == opp_dir_index[d]
             x == Flows(inf, t, d, n)
             y == Flows(x, u, e, -n)
  <2>1. /\ d \in 1 .. Still /\ d # Still /\ e \in 1 .. Still
        /\ u \in Tiles /\ u # t
    BY NeighbourIs
  <2>2. AdjustEqMovement(inf, t, d, n) = y
    BY <2>1 DEF AdjustEqMovement
  <2>3. -n \in Int
    OBVIOUS
  <2> HIDE DEF u, e
  <2>4. Becomes(x, inf, t, n, 0)
    BY <2>1, FlowsIs
  <2> HIDE DEF x
  <2>5. x \in Plans
    BY <2>4 DEF Becomes
  <2>6. Becomes(y, x, u, -n, 0)
    BY <2>1, <2>3, <2>5, FlowsIs
  <2> HIDE DEF y
  <2>7. Between(x, inf, t, u, n, 0, 0, 0)
    BY <2>1, <2>4, OneEnd
  <2>8. Between(y, inf, t, u, n, 0 + (-n), 0, 0 + 0)
    BY ONLY <2>1, <2>3, <2>6, <2>7, BothEnds, inf \in Plans, t \in Tiles, n \in Int
  <2>9. QED
    BY <2>2, <2>8 DEF u
<1>4. QED
  BY <1>2, <1>3

\* The order of these changes what is owed and planned at no tile.
SameDues(now, inf) == now \in Plans /\ \A x \in Tiles : Due(now, x) = Due(inf, x)

LEMMA EndsEven ==
  ASSUME NEW inf \in Plans, NEW t \in Tiles, NEW u \in Tiles,
         NEW now, NEW c, NEW e, Between(now, inf, t, u, 0, 0, c, e)
  PROVE  SameDues(now, inf)
<1>1. Due(inf, t) \in Int /\ Due(inf, u) \in Int
  BY InfosAre
<1>2. ASSUME NEW x \in Tiles \ {t, u}
      PROVE  Due(now, x) = Due(inf, x)
  BY <1>2 DEF Between, Due
<1>3. QED
  BY <1>1, <1>2 DEF Between, SameDues

LEMMA ShareOutIs ==
  ASSUME NEW inf \in Plans, NEW t \in Tiles, NEW d \in DOMAIN Neighbour[t], NEW n \in Int
  PROVE  SameDues(ShareOut(inf, t, d, n), inf)
<1> DEFINE u == Neighbour[t][d]
           x == AdjustEqMovement(inf, t, d, n)
           y == Owes(x, t, -n)
           z == Owes(y, u, n)
<1>1. u \in Tiles /\ u # t /\ -n \in Int
  BY NeighbourIs
<1>2. Between(x, inf, t, u, n, -n, 0, 0)
  BY AdjustIs
<1>3. ShareOut(inf, t, d, n) = z
  BY DEF ShareOut
<1> HIDE DEF u, x
<1>4. Becomes(y, x, t, -n, 0)
  BY <1>1, <1>2, OwesIs DEF Between
<1> HIDE DEF y
<1>5. Between(y, inf, t, u, n + (-n), -n, 0 + 0, 0)
  BY ONLY <1>1, <1>2, <1>4, BothEnds, inf \in Plans, t \in Tiles, n \in Int
<1>6. Becomes(z, y, u, n, 0)
  BY <1>1, <1>4, OwesIs DEF Becomes
<1> HIDE DEF z
<1>7. Between(z, inf, t, u, n + (-n), (-n) + n, 0 + 0, 0 + 0)
  <2>1. n + (-n) \in Int /\ 0 + 0 \in Int
    OBVIOUS
  <2>2. QED
    BY ONLY <1>1, <1>5, <1>6, <2>1, BothEnds, inf \in Plans, t \in Tiles, n \in Int
<1>8. Between(z, inf, t, u, 0, 0, 0, 0)
  BY <1>7
<1>9. QED
  BY <1>1, <1>3, <1>8, EndsEven

LEMMA HandsOverIs ==
  ASSUME NEW inf \in Plans, NEW one \in Tiles, NEW other \in Tiles, one # other, NEW n \in Int
  PROVE  Between(HandsOver(inf, one, other, n), inf, other, one, n, -n, -n, 0)
<1> DEFINE x == Passes(inf, other, -n)
           y == Owes(x, other, n)
           z == Owes(y, one, -n)
<1>1. -n \in Int /\ 0 + n = n /\ -n + 0 = -n /\ 0 + (-n) = -n
  OBVIOUS
<1>2. HandsOver(inf, one, other, n) = z
  BY DEF HandsOver
<1>3. Becomes(x, inf, other, 0, -n)
  BY <1>1, PassesIs
<1> HIDE DEF x
<1>4. Becomes(y, x, other, n, 0)
  BY <1>3, OwesIs DEF Becomes
<1> HIDE DEF y
<1>5. Becomes(z, y, one, -n, 0)
  BY <1>1, <1>4, OwesIs DEF Becomes
<1> HIDE DEF z
<1>6. Between(x, inf, other, one, 0, 0, -n, 0)
  BY <1>1, <1>3, OneEnd
<1>7. Between(y, inf, other, one, 0 + n, 0, -n + 0, 0)
  BY ONLY <1>1, <1>4, <1>6, BothEnds, inf \in Plans, one \in Tiles, other \in Tiles,
          one # other, n \in Int
<1>8. Between(z, inf, other, one, n, 0 + (-n), -n, 0 + 0)
  <2>1. Between(y, inf, other, one, n, 0, -n, 0)
    BY <1>1, <1>7
  <2>2. QED
    BY ONLY <1>1, <1>5, <2>1, BothEnds, inf \in Plans, one \in Tiles, other \in Tiles,
            one # other, n \in Int
<1>9. QED
  BY <1>1, <1>2, <1>8

\* What is owed, planned and passed on by a tile stays; what is passed on goes
\* to the next.
Carries(now, inf, t) ==
  /\ now \in Plans
  /\ \A x \in Tiles : /\ Due(now, x) + Amount(now, x) = Due(inf, x) + Amount(inf, x)
                      /\ Way(now, x) = Way(inf, x)
  /\ IF Way(inf, t) = Still THEN now = inf
     ELSE LET u == Neighbour[t][Way(inf, t)]
          IN  /\ Amount(now, t) = 0 /\ Amount(now, u) = Amount(inf, u) + Amount(inf, t)
              /\ \A x \in Tiles \ {t, u} : Amount(now, x) = Amount(inf, x)

LEMMA CarryIs ==
  ASSUME NEW inf \in Plans, NEW t \in Tiles
  PROVE  Carries(Carry(inf, t), inf, t)
<1> DEFINE d == Way(inf, t)
           n == Amount(inf, t)
           u == Neighbour[t][d]
           x == AdjustEqMovement(inf, t, d, n)
           y == Passes(x, u, Amount(x, t))
           z == [y EXCEPT ![t].curr_transfer_amount = 0]
<1>1. n \in Int /\ d \in DOMAIN Neighbour[t] \cup {Still}
  BY InfosAre
<1>2. CASE d = Still
  <2>1. Carry(inf, t) = inf
    BY <1>2 DEF Carry, Way
  <2>2. QED
    BY <1>2, <2>1 DEF Carries
<1>3. CASE d # Still /\ n = 0
  <2>1. Carry(inf, t) = inf
    BY <1>3 DEF Carry, Amount
  <2>2. u \in Tiles
    BY <1>1, <1>3, NeighbourIs
  <2>3. Amount(inf, u) + Amount(inf, t) = Amount(inf, u)
    BY <1>3, <2>2, InfosAre
  <2>4. QED
    BY <1>3, <2>1, <2>3 DEF Carries
<1>4. CASE d # Still /\ n # 0
  <2>1. d \in DOMAIN Neighbour[t] /\ u \in Tiles /\ u # t /\ -n \in Int
    BY <1>1, <1>4, NeighbourIs
  <2>2. Carry(inf, t) = z
    BY <1>4 DEF Carry, PassOn, Way, Amount
  <2>3. Between(x, inf, t, u, n, -n, 0, 0)
    BY <1>1, <2>1, AdjustIs
  <2> HIDE DEF x, d, u
  <2>4. x \in Plans /\ Amount(x, t) = n
    BY <1>1, <2>3 DEF Between, n
  <2> HIDE DEF n
  <2>5. Becomes(y, x, u, 0, n)
    BY <1>1, <2>1, <2>4, PassesIs
  <2> HIDE DEF y
  <2>6. Between(y, inf, t, u, n, -n + 0, 0, 0 + n)
    BY ONLY <1>1, <2>1, <2>3, <2>5, BothEnds, inf \in Plans, t \in Tiles
  <2>7. /\ y \in Plans /\ Due(y, t) = Due(inf, t) + n /\ Due(y, u) = Due(inf, u) - n
        /\ Amount(y, u) = Amount(inf, u) + n
        /\ Way(y, t) = Way(inf, t) /\ Way(y, u) = Way(inf, u)
        /\ \A v \in Tiles \ {t, u} : y[v] = inf[v]
    <3>1. Due(inf, u) \in Int
      BY <2>1, InfosAre
    <3>2. QED
      BY <1>1, <2>6, <3>1 DEF Between
  <2>8. /\ z \in Plans /\ Due(z, t) = Due(y, t) /\ Amount(z, t) = 0 /\ Way(z, t) = Way(y, t)
        /\ \A v \in Tiles \ {t} : z[v] = y[v]
    <3> DEFINE i == [y[t] EXCEPT !.curr_transfer_amount = 0]
    <3>1. Instead(z, y, t, i)
      BY DEF Instead
    <3>2. /\ i \in Infos /\ i.curr_transfer_amount = 0
          /\ i.transfer_dirs = y[t].transfer_dirs /\ i.mole_delta = y[t].mole_delta
          /\ i.curr_transfer_dir = y[t].curr_transfer_dir
      <4>1. y[t] \in Infos /\ 0 \in Int
        BY <2>7, InfosAre
      <4>2. i = [y[t] EXCEPT !.curr_transfer_amount = 0]
        OBVIOUS
      <4> HIDE DEF i
      <4>3. QED
        BY ONLY <4>1, <4>2, AmountChanges
    <3> HIDE DEF i, z
    <3>3. z \in Plans /\ z[t] = i /\ \A v \in Tiles \ {t} : z[v] = y[v]
      BY <2>7, <3>1, <3>2, InfosAre, OneInfo DEF Way
    <3>4. QED
      BY <3>2, <3>3 DEF Due, Amount, Way
  <2> HIDE DEF z
  <2>9. ASSUME NEW v \in Tiles
        PROVE  /\ Due(z, v) + Amount(z, v) = Due(inf, v) + Amount(inf, v)
               /\ Way(z, v) = Way(inf, v)
    <3>1. CASE v = t
      BY <1>1, <2>7, <2>8, <3>1, InfosAre DEF n
    <3>2. CASE v = u
      <4>1. Due(z, u) = Due(y, u) /\ Amount(z, u) = Amount(y, u) /\ Way(z, u) = Way(y, u)
        BY <2>1, <2>8 DEF Due, Amount, Way
      <4>2. Due(inf, u) \in Int /\ Amount(inf, u) \in Int
        BY <2>1, InfosAre
      <4>3. QED
        BY <1>1, <2>7, <3>2, <4>1, <4>2
    <3>3. CASE v # t /\ v # u
      <4>1. z[v] = inf[v]
        BY <2>7, <2>8, <3>3
      <4>2. QED
        BY <4>1 DEF Due, Amount, Way
    <3>4. QED
      BY <3>1, <3>2, <3>3
  <2>10. Amount(z, u) = Amount(inf, u) + Amount(inf, t)
    BY <2>1, <2>7, <2>8 DEF Amount, n
  <2>11. \A v \in Tiles \ {t, u} : Amount(z, v) = Amount(inf, v)
    BY <2>7, <2>8 DEF Amount
  <2>12. QED
    BY <1>4, <2>2, <2>8, <2>9, <2>10, <2>11 DEF Carries, d, u
<1>5. QED
  BY <1>2, <1>3, <1>4

LEMMA FlowIs ==
  ASSUME NEW inf \in Plans, NEW t \in Tiles, NEW target \in Int
  PROVE  SameDues(Flow(inf, t, target), inf)
<1> DEFINE d == Way(inf, t)
           n == inf[t].mole_delta - target
           u == Neighbour[t][d]
           x == AdjustEqMovement(inf, t, d, n)
           y == [x EXCEPT ![t].mole_delta = target]
           z == Owes(y, u, n)
<1>1. n \in Int /\ -n \in Int /\ d \in DOMAIN Neighbour[t] \cup {Still}
  BY InfosAre
<1>2. /\ d = Still => Flow(inf, t, target) = y
      /\ d # Still => Flow(inf, t, target) = z
  BY DEF Flow, Way
<1>3. d = Still => Becomes(x, inf, t, n, 0)
  BY <1>1, AdjustIs
<1>4. d # Still => /\ u \in Tiles /\ u # t
                   /\ Between(x, inf, t, u, n, -n, 0, 0)
  BY <1>1, AdjustIs, NeighbourIs
<1>5. x \in Plans
  BY <1>3, <1>4 DEF Becomes, Between
<1>6. x[t].mole_delta = inf[t].mole_delta
  <2>1. \A v \in Tiles, e \in 1 .. Still, m \in Int, f \in Plans :
          v \in Tiles => Flows(f, v, e, m)[t].mole_delta = f[t].mole_delta
    <3>1. SUFFICES ASSUME NEW v \in Tiles, NEW e \in 1 .. Still, NEW m \in Int, NEW f \in Plans
                   PROVE  Flows(f, v, e, m)[t].mole_delta = f[t].mole_delta
      OBVIOUS
    <3>2. f \in [Tiles -> Infos] /\ f[t] \in Infos
      BY DEF Plans
    <3>3. DOMAIN f[t] = {"last_cycle", "mole_delta", "curr_transfer_amount",
                         "curr_transfer_dir", "transfer_dirs"}
      BY <3>2, FieldsAre
    <3>4. QED
      BY <3>2, <3>3 DEF Flows
  <2>2. CASE d = Still
    BY <1>1, <2>1, <2>2, StillIs DEF AdjustEqMovement
  <2>3. CASE d # Still
    <3> DEFINE e == opp_dir_index[d]
               f == Flows(inf, t, d, n)
    <3>1. d \in DOMAIN Neighbour[t] /\ d \in 1 .. Still /\ e \in 1 .. Still /\ u \in Tiles
      BY <1>1, <2>3, NeighbourIs
    <3>2. x = Flows(f, u, e, -n)
      BY <2>3 DEF AdjustEqMovement
    <3> HIDE DEF e, n, u, x, d
    <3>3. Becomes(f, inf, t, n, 0)
      BY <1>1, <3>1, FlowsIs
    <3>4. f \in Plans
      BY <3>3 DEF Becomes
    <3>5. f[t].mole_delta = inf[t].mole_delta
      BY <1>1, <2>1, <3>1
    <3> HIDE DEF f
    <3>6. QED
      BY <1>1, <2>1, <3>1, <3>2, <3>4, <3>5
  <2>4. QED
    BY <2>2, <2>3
<1>7. Becomes(y, x, t, -n, 0)
  <2> DEFINE i == [x[t] EXCEPT !.mole_delta = target]
  <2>1. Instead(y, x, t, i)
    BY DEF Instead
  <2> HIDE DEF x, y
  <2>2. /\ i \in Infos /\ i.mole_delta = target
        /\ i.transfer_dirs = x[t].transfer_dirs
        /\ i.curr_transfer_amount = x[t].curr_transfer_amount
        /\ i.curr_transfer_dir = x[t].curr_transfer_dir
    BY <1>5, InfosAre, DeltaChanges
  <2> HIDE DEF i
  <2>3. y \in Plans /\ y[t] = i /\ \A v \in Tiles \ {t} : y[v] = x[v]
    BY <1>5, <2>1, <2>2, InfosAre, OneInfo DEF Way
  <2>4. Due(y, t) = Due(x, t) + (-n)
    <3>1. /\ target = x[t].mole_delta - n /\ x[t].mole_delta \in Int
          /\ SumAll(x[t].transfer_dirs, 1 .. Still) \in Int
      BY <1>5, <1>6, InfosAre
    <3> HIDE DEF n
    <3>2. QED
      BY <1>1, <2>2, <2>3, <3>1 DEF Due
  <2>5. Amount(y, t) = Amount(x, t) + 0
    BY <1>5, <2>2, <2>3, InfosAre DEF Amount
  <2>6. QED
    BY <2>2, <2>3, <2>4, <2>5 DEF Becomes, Way
<1> HIDE DEF d, n, x, y
<1>8. CASE d = Still
  <2>1. /\ Due(y, t) = Due(inf, t) /\ y \in Plans
    <3>1. Due(inf, t) \in Int
      BY InfosAre
    <3>2. QED
      BY <1>1, <1>3, <1>7, <1>8, <3>1 DEF Becomes
  <2>2. \A v \in Tiles \ {t} : y[v] = inf[v]
    BY <1>3, <1>7, <1>8 DEF Becomes
  <2>3. QED
    BY <1>2, <1>8, <2>1, <2>2 DEF SameDues, Due
<1>9. CASE d # Still
  <2>1. /\ u \in Tiles /\ u # t /\ Between(x, inf, t, u, n, -n, 0, 0)
    BY <1>4, <1>9
  <2> HIDE DEF u
  <2>2. Between(y, inf, t, u, n + (-n), -n, 0 + 0, 0)
    BY ONLY <1>1, <1>7, <2>1, BothEnds, inf \in Plans, t \in Tiles
  <2>3. Becomes(z, y, u, n, 0)
    BY <1>1, <1>7, <2>1, OwesIs DEF Becomes
  <2> HIDE DEF z
  <2>4. Between(z, inf, t, u, n + (-n), (-n) + n, 0 + 0, 0 + 0)
    <3>1. n + (-n) \in Int /\ 0 + 0 \in Int
      BY <1>1
    <3>2. QED
      BY ONLY <1>1, <2>1, <2>2, <2>3, <3>1, BothEnds, inf \in Plans, t \in Tiles
  <2>5. Between(z, inf, t, u, 0, 0, 0, 0)
    BY <1>1, <2>4
  <2>6. QED
    BY <1>2, <1>9, <2>1, <2>5, EndsEven
<1>10. QED
  BY <1>8, <1>9

-----------------------------------------------------------------------------
(***************************************************************************)
(* A pass over tiles or directions is a fold; each is the run of its steps.*)
(***************************************************************************)
LEMMA SharesOut ==
  ASSUME NEW inf \in Plans, NEW t \in Tiles, NEW q \in Seq(DOMAIN Neighbour[t]), NEW n \in Int
  PROVE  SameDues(FoldLeft(LAMBDA st, d : ShareOut(st, t, d, n), inf, q), inf)
<1> DEFINE m == Len(q)
           b == inf
           T == {st \in Plans : SameDues(st, inf)}
           op(st, x) == ShareOut(st, t, x, n)
           F == [k \in 1 .. m |-> [st \in T |-> op(st, q[k])]]
           Fold(h) == h = [z \in SUBSET (DOMAIN q) |->
                             IF z = {} THEN b ELSE op(h[z \ {Max(z)}], q[Max(z)])]
           h == CHOOSE h : Fold(h)
<1>1. m \in Nat /\ DOMAIN q = 1 .. m
  OBVIOUS
<1>2. b \in T
  BY DEF SameDues
<1>3. \A st \in T, k \in 1 .. m : op(st, q[k]) \in T
  BY ShareOutIs DEF SameDues
<1>4. \A k \in 1 .. m : \A st \in T : F[k][st] = op(st, q[k])
  OBVIOUS
<1>5. StepsOf(m, T, b, F)
  <2> HIDE DEF T, b, op
  <2> QED
    BY <1>1, <1>2, <1>3 DEF StepsOf
<1>6. FoldLeft(LAMBDA st, d : ShareOut(st, t, d, n), inf, q) = h[DOMAIN q]
  BY DEF FoldLeft, MapThenFoldSet
<1> HIDE DEF T, b, op, F
<1>7. \A z \in SUBSET (1 .. m) : z # {} => Max(z) \in z
  <2> HIDE DEF m
  <2> QED
    BY <1>1, GreatestOf
<1>8. Fold(h)
  <2>1. PICK g \in [SUBSET (1 .. m) -> T] : FromLeft(g, m, b, F)
    BY ONLY <1>5, LeftFoldExists DEF LeftFolded
  <2>2. \A z \in SUBSET (1 .. m) : z # {} =>
          F[Max(z)][g[z \ {Max(z)}]] = op(g[z \ {Max(z)}], q[Max(z)])
    BY <1>4, <1>7, <2>1
  <2>3. Fold(g)
    BY <1>1, <2>1, <2>2 DEF FromLeft
  <2>4. QED
    BY <2>3
<1> HIDE DEF h
<1>9. FoldsLeft(h, m, T, b, F)
  <2>1. h[{}] = b
    BY <1>1, <1>8
  <2>2. \A z \in SUBSET (1 .. m) : z # {} => h[z] = op(h[z \ {Max(z)}], q[Max(z)])
    BY <1>1, <1>8
  <2>3. QED
    BY <1>4, <1>7, <2>1, <2>2 DEF FoldsLeft
<1>10. PICK r : LeftRun(r, m, T, b, F) /\ r[m] = h[1 .. m]
  BY ONLY <1>5, <1>9, LeftRunIs DEF RunsLeft
<1>11. r[m] \in T
  BY <1>1, <1>10 DEF LeftRun
<1>12. QED
  BY <1>1, <1>6, <1>10, <1>11 DEF T

LEMMA AllFlow ==
  ASSUME NEW inf \in Plans, NEW q \in Seq(Tiles), NEW target \in Int
  PROVE  SameDues(FoldRight(LAMBDA t, st : Flow(st, t, target), q, inf), inf)
<1> DEFINE m == Len(q)
           b == inf
           T == {st \in Plans : SameDues(st, inf)}
           op(st, x) == Flow(st, x, target)
           F == [k \in 1 .. m |-> [st \in T |-> op(st, q[k])]]
           Fold(h) == h = [z \in SUBSET (DOMAIN q) |->
                             IF z = {} THEN b ELSE op(h[z \ {Min(z)}], q[Min(z)])]
           h == CHOOSE h : Fold(h)
<1>1. m \in Nat /\ DOMAIN q = 1 .. m
  OBVIOUS
<1>2. b \in T
  BY DEF SameDues
<1>3. \A st \in T, k \in 1 .. m : op(st, q[k]) \in T
  BY FlowIs DEF SameDues
<1>4. \A k \in 1 .. m : \A st \in T : F[k][st] = op(st, q[k])
  OBVIOUS
<1>5. StepsOf(m, T, b, F)
  <2> HIDE DEF T, b, op
  <2> QED
    BY <1>1, <1>2, <1>3 DEF StepsOf
<1>6. FoldRight(LAMBDA t, st : Flow(st, t, target), q, inf) = h[DOMAIN q]
  BY DEF FoldRight, MapThenFoldSet
<1> HIDE DEF T, b, op, F
<1>7. \A z \in SUBSET (1 .. m) : z # {} => Min(z) \in z
  <2> HIDE DEF m
  <2> QED
    <3>1. \A z \in SUBSET (1 .. m) : z \subseteq Nat
      OBVIOUS
    <3>2. QED
      BY <3>1, LeastOf
<1>8. Fold(h)
  <2>1. PICK g \in [SUBSET (1 .. m) -> T] : FromRight(g, m, b, F)
    BY ONLY <1>5, RightFoldExists DEF RightFolded
  <2>2. \A z \in SUBSET (1 .. m) : z # {} =>
          F[Min(z)][g[z \ {Min(z)}]] = op(g[z \ {Min(z)}], q[Min(z)])
    BY <1>4, <1>7, <2>1
  <2>3. Fold(g)
    BY <1>1, <2>1, <2>2 DEF FromRight
  <2>4. QED
    BY <2>3
<1> HIDE DEF h
<1>9. FoldsRight(h, m, T, b, F)
  <2>1. h[{}] = b
    BY <1>1, <1>8
  <2>2. \A z \in SUBSET (1 .. m) : z # {} => h[z] = op(h[z \ {Min(z)}], q[Min(z)])
    BY <1>1, <1>8
  <2>3. QED
    BY <1>4, <1>7, <2>1, <2>2 DEF FoldsRight
<1>10. PICK r : RightRun(r, m, T, b, F) /\ r[0] = h[1 .. m]
  BY ONLY <1>5, <1>9, RightRunIs DEF RunsRight
<1>11. r[0] \in T
  BY <1>1, <1>10 DEF RightRun
<1>12. QED
  BY <1>1, <1>6, <1>10, <1>11 DEF T

CarryRun(r, inf, q) ==
  /\ r \in [0 .. Len(q) -> Plans] /\ r[Len(q)] = inf
  /\ \A i \in 1 .. Len(q) : r[i - 1] = Carry(r[i], q[i])

LEMMA CarryRuns ==
  ASSUME NEW inf \in Plans, NEW q \in Seq(Tiles)
  PROVE  \E r : /\ CarryRun(r, inf, q)
                /\ FoldRight(LAMBDA t, st : Carry(st, t), q, inf) = r[0]
<1> DEFINE m == Len(q)
           b == inf
           T == Plans
           op(st, x) == Carry(st, x)
           F == [k \in 1 .. m |-> [st \in T |-> op(st, q[k])]]
           Fold(h) == h = [z \in SUBSET (DOMAIN q) |->
                             IF z = {} THEN b ELSE op(h[z \ {Min(z)}], q[Min(z)])]
           h == CHOOSE h : Fold(h)
<1>1. m \in Nat /\ DOMAIN q = 1 .. m
  OBVIOUS
<1>2. b \in T
  OBVIOUS
<1>3. \A st \in T, k \in 1 .. m : op(st, q[k]) \in T
  BY CarryIs DEF Carries
<1>4. \A k \in 1 .. m : \A st \in T : F[k][st] = op(st, q[k])
  OBVIOUS
<1>5. StepsOf(m, T, b, F)
  <2> HIDE DEF T, b, op
  <2> QED
    BY <1>1, <1>2, <1>3 DEF StepsOf
<1>6. FoldRight(LAMBDA t, st : Carry(st, t), q, inf) = h[DOMAIN q]
  BY DEF FoldRight, MapThenFoldSet
<1> HIDE DEF T, b, op, F
<1>7. \A z \in SUBSET (1 .. m) : z # {} => Min(z) \in z
  <2> HIDE DEF m
  <2> QED
    <3>1. \A z \in SUBSET (1 .. m) : z \subseteq Nat
      OBVIOUS
    <3>2. QED
      BY <3>1, LeastOf
<1>8. Fold(h)
  <2>1. PICK g \in [SUBSET (1 .. m) -> T] : FromRight(g, m, b, F)
    BY ONLY <1>5, RightFoldExists DEF RightFolded
  <2>2. \A z \in SUBSET (1 .. m) : z # {} =>
          F[Min(z)][g[z \ {Min(z)}]] = op(g[z \ {Min(z)}], q[Min(z)])
    BY <1>4, <1>7, <2>1
  <2>3. Fold(g)
    BY <1>1, <2>1, <2>2 DEF FromRight
  <2>4. QED
    BY <2>3
<1> HIDE DEF h
<1>9. FoldsRight(h, m, T, b, F)
  <2>1. h[{}] = b
    BY <1>1, <1>8
  <2>2. \A z \in SUBSET (1 .. m) : z # {} => h[z] = op(h[z \ {Min(z)}], q[Min(z)])
    BY <1>1, <1>8
  <2>3. QED
    BY <1>4, <1>7, <2>1, <2>2 DEF FoldsRight
<1>10. PICK r : RightRun(r, m, T, b, F) /\ r[0] = h[1 .. m]
  BY ONLY <1>5, <1>9, RightRunIs DEF RunsRight
<1>11. ASSUME NEW i \in 1 .. m
       PROVE  r[i - 1] = Carry(r[i], q[i])
  <2>1. i \in 0 .. m
    BY <1>1
  <2>2. QED
    BY <1>4, <1>10, <2>1 DEF RightRun, op
<1>12. CarryRun(r, inf, q)
  BY <1>10, <1>11 DEF CarryRun, RightRun, T, b
<1>13. QED
  BY <1>1, <1>6, <1>10, <1>12

-----------------------------------------------------------------------------
(***************************************************************************)
(* The slow pass.  The tiles of the queue owe what they pass on towards the*)
(* served tile, and it lacks what all of them pass on.                     *)
(***************************************************************************)
LEMMA ElementsAre ==
  ASSUME NEW X, NEW q \in Seq(X)
  PROVE  /\ \A x : x \in ToSet(q) <=> \E i \in 1 .. Len(q) : q[i] = x
         /\ ToSet(q) \subseteq X
         /\ \A x \in X : /\ ToSet(Append(q, x)) = ToSet(q) \cup {x}
                         /\ Append(q, x) \in Seq(X)
         /\ \A p \in Seq(X) : ToSet(q \o p) = ToSet(q) \cup ToSet(p)
<1>1. DOMAIN q = 1 .. Len(q) /\ \A i \in 1 .. Len(q) : q[i] \in X
  OBVIOUS
<1>2. ASSUME NEW x \in X
      PROVE  ToSet(Append(q, x)) = ToSet(q) \cup {x}
  <2>1. /\ DOMAIN Append(q, x) = 1 .. Len(q) + 1
        /\ \A i \in 1 .. Len(q) : Append(q, x)[i] = q[i] /\ i \in 1 .. Len(q) + 1
        /\ Append(q, x)[Len(q) + 1] = x /\ Len(q) + 1 \in 1 .. Len(q) + 1
        /\ \A i \in 1 .. Len(q) + 1 : i \in 1 .. Len(q) \/ i = Len(q) + 1
    OBVIOUS
  <2> DEFINE p == Append(q, x)
             n == Len(q) + 1
  <2> HIDE DEF p, n
  <2>2. QED
    BY <1>1, <2>1 DEF ToSet, p, n
<1>3. ASSUME NEW p \in Seq(X)
      PROVE  ToSet(q \o p) = ToSet(q) \cup ToSet(p)
  <2> DEFINE r == q \o p
             n == Len(q)
             k == Len(p)
  <2>1. /\ n \in Nat /\ k \in Nat /\ DOMAIN r = 1 .. n + k /\ DOMAIN q = 1 .. n /\ DOMAIN p = 1 .. k
        /\ \A i \in 1 .. n : r[i] = q[i]
        /\ \A i \in 1 .. k : r[n + i] = p[i]
    OBVIOUS
  <2> HIDE DEF r, n, k
  <2>2. /\ \A i \in 1 .. n : i \in 1 .. n + k
        /\ \A i \in 1 .. k : n + i \in 1 .. n + k
        /\ \A i \in 1 .. n + k : i \in 1 .. n \/ (i - n \in 1 .. k /\ n + (i - n) = i)
    BY <2>1
  <2>3. ToSet(r) \subseteq ToSet(q) \cup ToSet(p)
    <3>1. SUFFICES ASSUME NEW i \in 1 .. n + k
                   PROVE  r[i] \in ToSet(q) \cup ToSet(p)
      BY <2>1 DEF ToSet
    <3>2. QED
      BY <2>1, <2>2 DEF ToSet
  <2>4. ToSet(q) \subseteq ToSet(r)
    BY <2>1, <2>2 DEF ToSet
  <2>5. ToSet(p) \subseteq ToSet(r)
    <3>1. SUFFICES ASSUME NEW i \in 1 .. k
                   PROVE  p[i] \in ToSet(r)
      BY <2>1 DEF ToSet
    <3>2. n + i \in 1 .. n + k /\ r[n + i] = p[i]
      BY <2>1, <2>2
    <3>3. QED
      BY <2>1, <3>2 DEF ToSet
  <2>6. QED
    BY <2>3, <2>4, <2>5 DEF r
<1>4. \A x : x \in ToSet(q) <=> \E i \in 1 .. Len(q) : q[i] = x
  BY ONLY <1>1 DEF ToSet
<1>5. ToSet(q) \subseteq X
  BY <1>1, <1>4
<1>6. \A x \in X : Append(q, x) \in Seq(X)
  OBVIOUS
<1>7. QED
  BY <1>2, <1>3, <1>4, <1>5, <1>6

Amounts(inf) == [t \in Tiles |-> Amount(inf, t)]

Passing(inf, tiles) == SumAll(Amounts(inf), tiles)

\* Of the tiles in the queue all but the first pass an amount to an earlier one.
LeadsBack(inf, q) ==
  \A i \in 2 .. Len(q) :
    /\ Way(inf, q[i]) \in DOMAIN Neighbour[q[i]]
    /\ \E j \in 1 .. i - 1 : Neighbour[q[i]][Way(inf, q[i])] = q[j]

QueueOf(inf, q, one) ==
  /\ inf \in Plans /\ q \in Seq(Tiles) /\ Len(q) >= 1 /\ q[1] = one /\ Once(q)
  /\ Way(inf, one) = Still /\ Amount(inf, one) = 0
  /\ LeadsBack(inf, q)

\* What a tile passes on will be planned by it; what the others pass on is what
\* the first lacks.
SettlesAs(inf, q, one, goal) ==
  \A t \in DOMAIN goal :
    IF t = one THEN Due(inf, t) - Passing(inf, ToSet(q)) = goal[t]
    ELSE Due(inf, t) + (IF t \in ToSet(q) THEN Amount(inf, t) ELSE 0) = goal[t]

Goal(goal) == goal \in [DOMAIN goal -> Int] /\ DOMAIN goal \subseteq Tiles

LEMMA PassingIs ==
  ASSUME NEW inf \in Plans, NEW tiles \in SUBSET Tiles
  PROVE  /\ IsFiniteSet(tiles) /\ Integral(Amounts(inf), tiles) /\ Passing(inf, tiles) \in Int
         /\ \A t \in Tiles : Amounts(inf)[t] = Amount(inf, t)
<1>1. IsFiniteSet(tiles)
  BY EqualizeAssumption, FS_Subset
<1>2. \A t \in Tiles : Amounts(inf)[t] = Amount(inf, t)
  BY DEF Amounts
<1>3. Integral(Amounts(inf), tiles)
  BY <1>2, InfosAre DEF Integral
<1>4. QED
  BY <1>1, <1>2, <1>3, SumType DEF Passing

\* One more in the queue, that passes n less.
LEMMA OneAsked ==
  ASSUME NEW inf, NEW q, NEW one, NEW goal, Goal(goal), QueueOf(inf, q, one),
         SettlesAs(inf, q, one, goal),
         NEW k \in 1 .. Len(q), NEW other \in Tiles, other \notin ToSet(q),
         NEW d \in DOMAIN Neighbour[other], Neighbour[other][d] = q[k],
         NEW n \in Int, NEW now, now \in Plans,
         Way(now, other) = d, Amount(now, other) = -n, Due(now, other) = Due(inf, other) + n,
         Way(now, one) = Still, Amount(now, one) = 0, Due(now, one) = Due(inf, one) - n,
         \A t \in Tiles \ {one, other} : now[t] = inf[t]
  PROVE  QueueOf(now, Append(q, other), one) /\ SettlesAs(now, Append(q, other), one, goal)
<1> DEFINE m == Len(q)
           p == Append(q, other)
<1>1. /\ inf \in Plans /\ q \in Seq(Tiles) /\ m \in Nat /\ m >= 1 /\ q[1] = one /\ Once(q)
      /\ k \in 1 .. m
  BY DEF QueueOf
<1>2. /\ p \in Seq(Tiles) /\ Len(p) = m + 1 /\ p[m + 1] = other
      /\ \A i \in 1 .. m : p[i] = q[i] /\ q[i] \in Tiles
      /\ ToSet(p) = ToSet(q) \cup {other}
  BY <1>1, ElementsAre
<1>3. \A i \in 1 .. m : q[i] # other
  BY <1>1, ElementsAre
<1>4. one \in Tiles /\ one # other /\ one \in ToSet(q)
  BY <1>1, <1>3, ElementsAre
<1> HIDE DEF p, m
<1>5. \A t \in Tiles \ {one, other} : /\ Due(now, t) = Due(inf, t)
                                      /\ Amount(now, t) = Amount(inf, t)
                                      /\ Way(now, t) = Way(inf, t)
  BY DEF Due, Amount, Way
<1>6. LeadsBack(now, p)
  <2>1. SUFFICES ASSUME NEW i \in 2 .. m + 1
                 PROVE  /\ Way(now, p[i]) \in DOMAIN Neighbour[p[i]]
                        /\ \E j \in 1 .. i - 1 : Neighbour[p[i]][Way(now, p[i])] = p[j]
    BY <1>2 DEF LeadsBack
  <2>2. CASE i = m + 1
    <3>1. k \in 1 .. i - 1 /\ p[k] = q[k] /\ p[i] = other
      BY <1>1, <1>2, <2>2
    <3>2. QED
      BY <3>1
  <2>3. CASE i # m + 1
    <3>1. i \in 2 .. m /\ i \in 1 .. m /\ i # 1 /\ 1 \in 1 .. m
      BY <1>1, <2>1, <2>3
    <3>2. p[i] = q[i] /\ q[i] \in Tiles /\ q[i] # other /\ q[i] # one
      BY <1>1, <1>2, <1>3, <3>1 DEF Once, m
    <3>3. Way(now, p[i]) = Way(inf, q[i])
      BY <1>5, <3>2
    <3>4. PICK j \in 1 .. i - 1 : Neighbour[q[i]][Way(inf, q[i])] = q[j]
      BY <3>1 DEF QueueOf, LeadsBack, m
    <3>5. j \in 1 .. m /\ p[j] = q[j]
      BY <1>1, <1>2, <3>1
    <3>6. Way(inf, q[i]) \in DOMAIN Neighbour[q[i]]
      BY <3>1 DEF QueueOf, LeadsBack, m
    <3>7. QED
      BY <3>2, <3>3, <3>4, <3>5, <3>6
  <2>4. QED
    BY <2>2, <2>3
<1>7. Once(p)
  <2>1. \A i \in 1 .. m + 1 : i \in 1 .. m \/ i = m + 1
    BY <1>1
  <2>2. QED
    BY <1>1, <1>2, <1>3, <2>1 DEF Once, m
<1>8. QueueOf(now, p, one)
  <2>1. 1 \in 1 .. m /\ m + 1 >= 1
    BY <1>1
  <2>2. p[1] = one
    BY <1>1, <1>2, <2>1
  <2>3. QED
    BY <1>2, <1>6, <1>7, <2>1, <2>2 DEF QueueOf
<1>9. Passing(now, ToSet(p)) = Passing(inf, ToSet(q)) - n
  <2> DEFINE S == ToSet(q)
             f == Amounts(now)
             g == Amounts(inf)
  <2>1. S \in SUBSET Tiles /\ S \cup {other} \in SUBSET Tiles
    BY <1>1, ElementsAre
  <2>2. /\ IsFiniteSet(S) /\ Integral(f, S \cup {other}) /\ Integral(f, S) /\ Integral(g, S)
        /\ Passing(inf, S) \in Int
        /\ \A t \in Tiles : f[t] = Amount(now, t) /\ g[t] = Amount(inf, t)
    BY <1>1, <2>1, PassingIs
  <2>3. \A t \in S : f[t] = g[t]
    <3>1. SUFFICES ASSUME NEW t \in S
                   PROVE  Amount(now, t) = Amount(inf, t)
      BY <2>1, <2>2
    <3>2. CASE t = one
      BY <3>2 DEF QueueOf
    <3>3. CASE t # one
      BY <1>5, <2>1, <3>3
    <3>4. QED
      BY <3>2, <3>3
  <2> HIDE DEF S, f, g
  <2>4. SumAll(f, S \cup {other}) = f[other] + SumAll(f, S)
    BY <2>2, SumMore DEF S
  <2>5. SumAll(f, S) = SumAll(g, S)
    BY <2>2, <2>3, SumSame
  <2>6. QED
    BY <1>2, <2>2, <2>4, <2>5 DEF Passing, S, f, g
<1>10. ASSUME NEW t \in DOMAIN goal
       PROVE  IF t = one THEN Due(now, t) - Passing(now, ToSet(p)) = goal[t]
              ELSE Due(now, t) + (IF t \in ToSet(p) THEN Amount(now, t) ELSE 0) = goal[t]
  <2>1. t \in Tiles /\ goal[t] \in Int
    BY DEF Goal
  <2>2. Due(inf, t) \in Int /\ Passing(inf, ToSet(q)) \in Int
    BY <1>1, <2>1, ElementsAre, InfosAre, PassingIs
  <2>3. CASE t = one
    <3>1. Due(inf, t) - Passing(inf, ToSet(q)) = goal[t]
      BY <2>3 DEF SettlesAs
    <3>2. QED
      BY <1>9, <2>2, <2>3, <3>1
  <2>4. CASE t = other
    <3>1. Due(inf, t) + 0 = goal[t]
      BY <1>4, <2>4 DEF SettlesAs
    <3>2. QED
      BY <1>2, <1>4, <2>2, <2>4, <3>1
  <2>5. CASE t # one /\ t # other
    BY <1>2, <1>5, <2>1, <2>5 DEF SettlesAs
  <2>6. QED
    BY <2>3, <2>4, <2>5
<1>11. SettlesAs(now, p, one, goal)
  BY <1>10 DEF SettlesAs
<1>12. QED
  BY <1>8, <1>11 DEF p

\* The two may be the same: then nothing changes but the amount.
LEMMA TradeStays ==
  ASSUME NEW inf \in Plans, NEW one \in Tiles, NEW other \in Tiles
  PROVE  /\ Trade(inf, one, other) \in Plans
         /\ \/ Trade(inf, one, other) = inf
            \/ \E n \in Int : Trade(inf, one, other) = HandsOver(inf, one, other, n)
<1> DEFINE x == inf[one].mole_delta
           y == inf[other].mole_delta
<1>1. x \in Int /\ -y \in Int
  BY InfosAre
<1>2. \/ Trade(inf, one, other) = inf
      \/ Trade(inf, one, other) = HandsOver(inf, one, other, x)
      \/ Trade(inf, one, other) = HandsOver(inf, one, other, -y)
  BY DEF Trade
<1> HIDE DEF x, y
<1>3. ASSUME NEW n \in Int
      PROVE  HandsOver(inf, one, other, n) \in Plans
  <2> DEFINE p == Passes(inf, other, -n)
             o == Owes(p, other, n)
  <2>1. -n \in Int
    OBVIOUS
  <2>2. p \in Plans
    BY <2>1, PassesIs DEF Becomes
  <2> HIDE DEF p
  <2>3. o \in Plans
    BY <2>2, OwesIs DEF Becomes
  <2> HIDE DEF o
  <2>4. Owes(o, one, -n) \in Plans
    BY <2>1, <2>3, OwesIs DEF Becomes
  <2>5. QED
    BY <2>4 DEF HandsOver, o, p
<1>4. QED
  BY <1>1, <1>2, <1>3

LEMMA AskIs ==
  ASSUME NEW inf, NEW q, NEW one, NEW goal, Goal(goal), QueueOf(inf, q, one),
         SettlesAs(inf, q, one, goal), one = Head(work),
         NEW k \in 1 .. Len(q), NEW d \in DOMAIN Neighbour[q[k]],
         NEW other, other = Neighbour[q[k]][d], other \notin ToSet(q),
         NEW st, st.inf = inf, st.queue = q, NEW now, now = Ask(st, q[k], d)
  PROVE  /\ QueueOf(now.inf, now.queue, one) /\ SettlesAs(now.inf, now.queue, one, goal)
         /\ now.queue = q \/ now.queue = Append(q, other)
<1> DEFINE e == opp_dir_index[d]
           p == Points(inf, other, e)
           z == Trade(p, one, other)
<1>1. inf \in Plans /\ q \in Seq(Tiles) /\ q[k] \in Tiles /\ one \in ToSet(q) /\ one \in Tiles
  BY ElementsAre DEF QueueOf
<1>2. CASE Served(inf)
  <2>1. now = st
    BY <1>2 DEF Ask
  <2>2. QED
    BY <2>1
<1>3. CASE ~ Served(inf)
  <2>1. now.inf = z /\ now.queue = Append(q, other)
    BY <1>3 DEF Ask
  <2>2. /\ other \in Tiles /\ e \in DOMAIN Neighbour[other] /\ e \in 1 .. Still
        /\ Neighbour[other][e] = q[k] /\ one # other
    BY <1>1, NeighbourIs
  <2> HIDE DEF e
  <2>3. /\ p \in Plans /\ Due(p, other) = Due(inf, other)
        /\ Amount(p, other) = 0 /\ Way(p, other) = e
        /\ \A u \in Tiles \ {other} : p[u] = inf[u]
    BY <1>1, <2>2, PointsIs
  <2> HIDE DEF p
  <2>4. Due(p, one) = Due(inf, one) /\ Amount(p, one) = 0 /\ Way(p, one) = Still
    BY <1>1, <2>2, <2>3 DEF Due, Amount, Way, QueueOf
  <2>5. Due(inf, one) \in Int /\ Due(inf, other) \in Int
    BY <1>1, <2>2, InfosAre
  <2>6. \E n \in Int :
          /\ z \in Plans
          /\ Way(z, other) = e /\ Amount(z, other) = -n /\ Due(z, other) = Due(inf, other) + n
          /\ Way(z, one) = Still /\ Amount(z, one) = 0 /\ Due(z, one) = Due(inf, one) - n
          /\ \A t \in Tiles \ {one, other} : z[t] = inf[t]
    <3>1. CASE z = p
      <4>2. PICK n \in Int : n + n = 0
        BY Nought
      <4>3. -n = n
        BY <4>2
      <4>7. \A a \in Int : a + n = a /\ a - n = a
        BY <4>2
      <4> HIDE DEF z
      <4>4. /\ z \in Plans
            /\ Way(z, other) = e /\ Amount(z, other) = -n /\ Due(z, other) = Due(inf, other) + n
            /\ Way(z, one) = Still /\ Amount(z, one) = 0 /\ Due(z, one) = Due(inf, one) - n
        <5>1. Amount(z, other) = 0 /\ Amount(z, one) = 0
          BY <2>3, <2>4, <3>1
        <5>2. -n = 0
          BY <4>2
        <5>3. QED
          BY <2>3, <2>4, <2>5, <3>1, <4>7, <5>1, <5>2
      <4>5. \A t \in Tiles \ {one, other} : z[t] = inf[t]
        BY <2>3, <3>1
      <4>6. QED
        BY <4>4, <4>5
    <3>2. CASE \E n \in Int : z = HandsOver(p, one, other, n)
      <4>1. PICK n \in Int : z = HandsOver(p, one, other, n)
        BY <3>2
      <4>2. Between(z, p, other, one, n, -n, -n, 0)
        BY <1>1, <2>2, <2>3, <4>1, HandsOverIs
      <4> HIDE DEF z
      <4>3. /\ z \in Plans
            /\ Way(z, other) = e /\ Amount(z, other) = -n /\ Due(z, other) = Due(inf, other) + n
            /\ Way(z, one) = Still /\ Amount(z, one) = 0 /\ Due(z, one) = Due(inf, one) - n
        BY <2>3, <2>4, <2>5, <4>2 DEF Between
      <4>4. \A t \in Tiles \ {one, other} : z[t] = inf[t]
        BY <2>3, <4>2 DEF Between
      <4>5. QED
        BY <4>3, <4>4
    <3>3. p \in Plans /\ one \in Tiles /\ other \in Tiles
      BY <1>1, <2>2, <2>3
    <3> HIDE DEF z
    <3>4. z = p \/ \E n \in Int : z = HandsOver(p, one, other, n)
      BY <3>3, TradeStays DEF z
    <3>5. QED
      BY <3>1, <3>2, <3>4
  <2> HIDE DEF z
  <2>7. QueueOf(z, Append(q, other), one) /\ SettlesAs(z, Append(q, other), one, goal)
    <3>1. PICK n \in Int :
          /\ z \in Plans
          /\ Way(z, other) = e /\ Amount(z, other) = -n /\ Due(z, other) = Due(inf, other) + n
          /\ Way(z, one) = Still /\ Amount(z, one) = 0 /\ Due(z, one) = Due(inf, one) - n
          /\ \A t \in Tiles \ {one, other} : z[t] = inf[t]
      BY <2>6
    <3>2. QED
      BY <2>2, <3>1, OneAsked
  <2>8. QED
    BY <2>1, <2>7
<1>4. QED
  BY <1>2, <1>3

Asks == [inf : Plans, queue : Seq(Tiles)]

AskRun(r, first, tile, ways) ==
  /\ r \in [0 .. Len(ways) -> Asks] /\ r[0] = first
  /\ \A i \in 1 .. Len(ways) : r[i] = Ask(r[i - 1], tile, ways[i])

LEMMA AskRuns ==
  ASSUME NEW first \in Asks, Head(work) \in Tiles, NEW tile \in Tiles,
         NEW ways \in Seq(DOMAIN Neighbour[tile])
  PROVE  \E r : /\ AskRun(r, first, tile, ways)
                /\ FoldLeft(LAMBDA st, d : Ask(st, tile, d), first, ways) = r[Len(ways)]
<1> DEFINE m == Len(ways)
           b == first
           T == Asks
           op(st, x) == Ask(st, tile, x)
           F == [k \in 1 .. m |-> [st \in T |-> op(st, ways[k])]]
           Fold(h) == h = [z \in SUBSET (DOMAIN ways) |->
                             IF z = {} THEN b ELSE op(h[z \ {Max(z)}], ways[Max(z)])]
           h == CHOOSE h : Fold(h)
<1>1. m \in Nat /\ DOMAIN ways = 1 .. m
  OBVIOUS
<1>2. b \in T
  OBVIOUS
<1>3. \A st \in T, k \in 1 .. m : op(st, ways[k]) \in T
  <2>1. SUFFICES ASSUME NEW st \in Asks, NEW k \in 1 .. m
                 PROVE  Ask(st, tile, ways[k]) \in Asks
    OBVIOUS
  <2> DEFINE d == ways[k]
             other == Neighbour[tile][d]
             e == opp_dir_index[d]
             p == Points(st.inf, other, e)
             z == Trade(p, Head(work), other)
  <2>2. d \in DOMAIN Neighbour[tile]
    OBVIOUS
  <2>3. other \in Tiles /\ e \in DOMAIN Neighbour[other] /\ e \in 1 .. Still
    BY <2>2, NeighbourIs
  <2>4. st.inf \in Plans /\ st.queue \in Seq(Tiles)
    BY DEF Asks
  <2>5. Ask(st, tile, d) = IF Served(st.inf) THEN st
                           ELSE [inf |-> z, queue |-> Append(st.queue, other)]
    BY DEF Ask
  <2> HIDE DEF d, other, e
  <2>6. p \in Plans
    BY <2>3, <2>4, PointsIs
  <2> HIDE DEF p
  <2>7. z \in Plans
    BY <2>3, <2>6, TradeStays
  <2> HIDE DEF z
  <2>8. Append(st.queue, other) \in Seq(Tiles)
    BY <2>3, <2>4
  <2>9. QED
    BY <2>5, <2>7, <2>8 DEF Asks, d
<1>4. \A k \in 1 .. m : \A st \in T : F[k][st] = op(st, ways[k])
  OBVIOUS
<1>5. StepsOf(m, T, b, F)
  <2> HIDE DEF T, b, op
  <2> QED
    BY <1>1, <1>2, <1>3 DEF StepsOf
<1>6. FoldLeft(LAMBDA st, d : Ask(st, tile, d), first, ways) = h[DOMAIN ways]
  BY DEF FoldLeft, MapThenFoldSet
<1> HIDE DEF T, b, op, F
<1>7. \A z \in SUBSET (1 .. m) : z # {} => Max(z) \in z
  <2> HIDE DEF m
  <2> QED
    BY <1>1, GreatestOf
<1>8. Fold(h)
  <2>1. PICK g \in [SUBSET (1 .. m) -> T] : FromLeft(g, m, b, F)
    BY ONLY <1>5, LeftFoldExists DEF LeftFolded
  <2>2. \A z \in SUBSET (1 .. m) : z # {} =>
          F[Max(z)][g[z \ {Max(z)}]] = op(g[z \ {Max(z)}], ways[Max(z)])
    BY <1>4, <1>7, <2>1
  <2>3. Fold(g)
    BY <1>1, <2>1, <2>2 DEF FromLeft
  <2>4. QED
    BY <2>3
<1> HIDE DEF h
<1>9. FoldsLeft(h, m, T, b, F)
  <2>1. h[{}] = b
    BY <1>1, <1>8
  <2>2. \A z \in SUBSET (1 .. m) : z # {} => h[z] = op(h[z \ {Max(z)}], ways[Max(z)])
    BY <1>1, <1>8
  <2>3. QED
    BY <1>4, <1>7, <2>1, <2>2 DEF FoldsLeft
<1>10. PICK r : LeftRun(r, m, T, b, F) /\ r[m] = h[1 .. m]
  BY ONLY <1>5, <1>9, LeftRunIs DEF RunsLeft
<1>11. ASSUME NEW i \in 1 .. m
       PROVE  r[i] = Ask(r[i - 1], tile, ways[i])
  <2>1. i - 1 \in 0 .. m
    BY <1>1
  <2>2. QED
    BY <1>4, <1>10, <2>1 DEF LeftRun, op
<1>12. AskRun(r, first, tile, ways)
  BY <1>10, <1>11 DEF AskRun, LeftRun, T, b
<1>13. QED
  BY <1>1, <1>6, <1>10, <1>12

\* After i ways: the queue has grown by tiles these lead to.
AskedTo(i, st, q, one, goal, tile, ways) ==
  /\ QueueOf(st.inf, st.queue, one) /\ SettlesAs(st.inf, st.queue, one, goal)
  /\ Len(st.queue) >= Len(q) /\ \A j \in 1 .. Len(q) : st.queue[j] = q[j]
  /\ \A x \in ToSet(st.queue) : \/ x \in ToSet(q)
                                 \/ \E j \in 1 .. i : x = Neighbour[tile][ways[j]]

LEMMA AsksAround ==
  ASSUME NEW inf, NEW q, NEW one, NEW goal, Goal(goal), QueueOf(inf, q, one),
         SettlesAs(inf, q, one, goal), one = Head(work),
         NEW k \in 1 .. Len(q), NEW tile, tile = q[k],
         NEW ways \in Seq(DOMAIN Neighbour[tile]), Once(ways),
         \A i \in 1 .. Len(ways) : Neighbour[tile][ways[i]] \notin ToSet(q),
         NEW first, first.inf = inf, first.queue = q,
         NEW r, AskRun(r, first, tile, ways),
         NEW n, n = Len(ways)
  PROVE  AskedTo(n, r[n], q, one, goal, tile, ways)
<1> DEFINE S == {i \in 0 .. n : AskedTo(i, r[i], q, one, goal, tile, ways)}
<1>1. /\ inf \in Plans /\ q \in Seq(Tiles) /\ n \in Nat /\ Len(q) \in Nat
      /\ \A i \in 1 .. n : ways[i] \in DOMAIN Neighbour[tile]
  BY DEF QueueOf
<1>2. tile \in Tiles /\ one \in Tiles
  BY <1>1 DEF QueueOf
<1>3. /\ r[0] = first /\ \A i \in 1 .. n : r[i] = Ask(r[i - 1], tile, ways[i])
      /\ \A i \in 1 .. n : Neighbour[tile][ways[i]] \notin ToSet(q)
      /\ \A i, j \in 1 .. n : ways[i] = ways[j] => i = j
  BY DEF AskRun, Once
<1>4. 0 \in S
  <2>1. AskedTo(0, first, q, one, goal, tile, ways)
    BY <1>1 DEF AskedTo
  <2>2. QED
    BY <1>1, <1>3, <2>1
<1>5. ASSUME NEW i \in 1 .. n, AskedTo(i - 1, r[i - 1], q, one, goal, tile, ways)
      PROVE  AskedTo(i, r[i], q, one, goal, tile, ways)
  <2> DEFINE d == ways[i]
             other == Neighbour[tile][d]
  <2>1. \E st, w, v, x, l : /\ st = r[i - 1] /\ w = st.inf /\ v = st.queue /\ x = r[i]
                            /\ l = Len(v)
    OBVIOUS
  <2>2. PICK st, w, v, x, l : /\ st = r[i - 1] /\ w = st.inf /\ v = st.queue /\ x = r[i]
                              /\ l = Len(v)
    BY ONLY <2>1
  <2>3. x = Ask(st, tile, d) /\ AskedTo(i - 1, st, q, one, goal, tile, ways)
    BY ONLY <1>3, <1>5, <2>2
  <2>4. d \in DOMAIN Neighbour[tile]
    BY <1>1
  <2>5. other \in Tiles
    BY <1>2, <2>4, NeighbourIs
  <2> HIDE DEF d, other
  <2>6. /\ QueueOf(w, v, one) /\ SettlesAs(w, v, one, goal)
        /\ l >= Len(q) /\ \A j \in 1 .. Len(q) : v[j] = q[j]
        /\ v \in Seq(Tiles) /\ l \in Nat
        /\ \A y \in ToSet(v) : \/ y \in ToSet(q)
                               \/ \E j \in 1 .. i - 1 : y = Neighbour[tile][ways[j]]
    BY ONLY <2>2, <2>3 DEF AskedTo, QueueOf
  <2>7. other \notin ToSet(v)
    <3> SUFFICES ASSUME other \in ToSet(v)
                 PROVE  FALSE
      OBVIOUS
    <3>0. other \notin ToSet(q)
      BY ONLY <1>3, i \in 1 .. n DEF other, d
    <3>1. PICK j \in 1 .. i - 1 : other = Neighbour[tile][ways[j]]
      BY ONLY <2>6, <3>0, other \in ToSet(v)
    <3>2. j \in 1 .. n /\ j # i /\ i \in 1 .. n
      BY <1>1, <1>5
    <3>3. ways[j] \in DOMAIN Neighbour[tile] /\ ways[j] # ways[i]
      BY ONLY <1>1, <1>3, <3>2
    <3>4. ways[j] = d
      BY <1>2, <2>4, <3>1, <3>3, NeighbourIs DEF other
    <3>5. QED
      BY ONLY <3>3, <3>4 DEF d
  <2>8. /\ k \in 1 .. l /\ v[k] = tile
    BY <1>1, <2>6
  <2>9. /\ QueueOf(x.inf, x.queue, one) /\ SettlesAs(x.inf, x.queue, one, goal)
        /\ x.queue = v \/ x.queue = Append(v, other)
    <3>1. /\ d \in DOMAIN Neighbour[v[k]] /\ other = Neighbour[v[k]][d]
          /\ x = Ask(st, v[k], d) /\ k \in 1 .. Len(v)
          /\ st.inf = w /\ st.queue = v
      BY ONLY <2>2, <2>3, <2>4, <2>8 DEF other
    <3>2. QED
      <4>1. d \in DOMAIN Neighbour[v[k]] /\ k \in 1 .. Len(v)
        BY ONLY <3>1
      <4>2. /\ Goal(goal) /\ QueueOf(w, v, one) /\ SettlesAs(w, v, one, goal)
            /\ one = Head(work) /\ other = Neighbour[v[k]][d] /\ other \notin ToSet(v)
            /\ st.inf = w /\ st.queue = v /\ x = Ask(st, v[k], d)
        BY ONLY <2>6, <2>7, <3>1, Goal(goal), one = Head(work)
      <4>3. QED
        BY ONLY <4>1, <4>2, AskIs
  <2>10. CASE x.queue = v
    <3>1. \A j \in 1 .. i - 1 : j \in 1 .. i
      BY <1>1
    <3>2. \A y \in ToSet(v) : \/ y \in ToSet(q)
                              \/ \E j \in 1 .. i : y = Neighbour[tile][ways[j]]
      BY ONLY <2>6, <3>1
    <3>3. QED
      BY ONLY <2>2, <2>6, <2>9, <2>10, <3>2 DEF AskedTo
  <2>11. CASE x.queue = Append(v, other)
    <3>1. /\ Len(Append(v, other)) >= Len(q)
          /\ \A j \in 1 .. Len(q) : Append(v, other)[j] = q[j]
      BY ONLY <1>1, <2>2, <2>5, <2>6
    <3>2. ToSet(x.queue) = ToSet(v) \cup {other}
      BY ONLY <2>5, <2>6, <2>11, ElementsAre
    <3>3. /\ \A j \in 1 .. i - 1 : j \in 1 .. i
          /\ i \in 1 .. i /\ other = Neighbour[tile][ways[i]]
      BY <1>1 DEF other, d
    <3>4. \A y \in ToSet(x.queue) : \/ y \in ToSet(q)
                                     \/ \E j \in 1 .. i : y = Neighbour[tile][ways[j]]
      BY ONLY <2>6, <3>2, <3>3
    <3>5. QED
      BY ONLY <2>2, <2>9, <2>11, <3>1, <3>4 DEF AskedTo
  <2>12. QED
    BY ONLY <2>9, <2>10, <2>11
<1>6. \A i \in 1 .. n : i - 1 \in S => i \in S
  BY <1>1, <1>5
<1> HIDE DEF S
<1>7. \A i \in 0 .. n : i \in S
  BY ONLY <1>1, <1>4, <1>6, Climbs
<1>8. QED
  BY <1>1, <1>7 DEF S

\* The tiles after the i-th have passed on what they had to.
CarriedTo(i, now, inf, q) ==
  /\ now \in Plans
  /\ \A x \in Tiles : /\ Due(now, x) + Amount(now, x) = Due(inf, x) + Amount(inf, x)
                      /\ Way(now, x) = Way(inf, x)
  /\ \A x \in Tiles : x \notin ToSet(q) => Amount(now, x) = Amount(inf, x)
  /\ \A j \in 2 .. Len(q) : j > i => Amount(now, q[j]) = 0
  /\ Passing(now, ToSet(q)) = Passing(inf, ToSet(q))

LEMMA CarriedOn ==
  ASSUME NEW inf, NEW q, NEW one, QueueOf(inf, q, one),
         NEW i \in 1 .. Len(q), NEW now, CarriedTo(i, now, inf, q),
         NEW next, next = Carry(now, q[i])
  PROVE  CarriedTo(i - 1, next, inf, q)
<1> DEFINE n == Len(q)
           t == q[i]
           S == ToSet(q)
<1>1. /\ inf \in Plans /\ now \in Plans /\ q \in Seq(Tiles) /\ n \in Nat /\ q[1] = one /\ Once(q)
      /\ t \in Tiles /\ t \in S /\ S \in SUBSET Tiles /\ \A j \in 1 .. n : q[j] \in S /\ q[j] \in Tiles
      /\ Way(inf, one) = Still
  BY ElementsAre DEF QueueOf, CarriedTo
<1>2. Carries(next, now, t)
  BY <1>1, CarryIs
<1>3. \A x \in Tiles : /\ Due(inf, x) \in Int /\ Amount(inf, x) \in Int
                       /\ Due(now, x) \in Int /\ Amount(now, x) \in Int
  BY <1>1, InfosAre
<1>4. next \in Plans /\ \A x \in Tiles : Due(next, x) \in Int /\ Amount(next, x) \in Int
  BY <1>2, InfosAre DEF Carries
<1>5. Way(now, t) = Way(inf, t)
  BY <1>1 DEF CarriedTo
<1>6. CASE i = 1
  <2>1. Way(now, t) = Still
    BY <1>1, <1>5, <1>6
  <2>2. next = now
    BY <1>2, <2>1 DEF Carries
  <2>3. \A j \in 2 .. n : j > i
    BY <1>1, <1>6
  <2>4. QED
    BY <2>2, <2>3 DEF CarriedTo
<1>7. CASE i # 1
  <2> DEFINE d == Way(now, t)
             u == Neighbour[t][d]
  <2>1. i \in 2 .. n
    BY <1>1, <1>7
  <2>2. d \in DOMAIN Neighbour[t] /\ \E j \in 1 .. i - 1 : u = q[j]
    BY <1>5, <2>1 DEF QueueOf, LeadsBack
  <2>3. PICK j \in 1 .. i - 1 : u = q[j]
    BY <2>2
  <2>4. j \in 1 .. n /\ j # i
    BY <1>1, <2>1
  <2>5. u \in S /\ u \in Tiles /\ u # t
    BY <1>1, <2>3, <2>4 DEF Once
  <2>6. d # Still
    BY <1>1, <2>2, NeighbourIs
  <2>7. /\ Amount(next, t) = 0 /\ Amount(next, u) = Amount(now, u) + Amount(now, t)
        /\ \A x \in Tiles \ {t, u} : Amount(next, x) = Amount(now, x)
    BY <1>2, <2>6 DEF Carries
  <2> HIDE DEF u, d, t, S, n
  <2>8. \A x \in Tiles : /\ Due(next, x) + Amount(next, x) = Due(inf, x) + Amount(inf, x)
                         /\ Way(next, x) = Way(inf, x)
    BY <1>2 DEF Carries, CarriedTo
  <2>9. \A x \in Tiles : x \notin S => Amount(next, x) = Amount(inf, x)
    BY <1>1, <2>5, <2>7 DEF CarriedTo, S
  <2>10. ASSUME NEW k \in 2 .. n, k > i - 1
         PROVE  Amount(next, q[k]) = 0
    <3>1. CASE k = i
      BY <2>7, <3>1 DEF t
    <3>2. CASE k # i
      <4>1. k > i /\ k \in 1 .. n /\ j # k
        BY <1>1, <2>1, <2>3, <2>4, <2>10, <3>2
      <4>2. q[k] # t /\ q[k] # u /\ q[k] \in Tiles
        BY <1>1, <2>1, <2>3, <2>4, <3>2, <4>1 DEF Once, n, t
      <4>3. Amount(now, q[k]) = 0
        BY <4>1 DEF CarriedTo, n
      <4>4. QED
        BY <2>7, <4>2, <4>3
    <3>3. QED
      BY <3>1, <3>2
  <2>11. Passing(next, S) = Passing(now, S)
    <3> DEFINE f == Amounts(now)
               g == Amounts(next)
    <3>1. /\ IsFiniteSet(S) /\ Integral(f, S) /\ Integral(g, S)
          /\ \A x \in Tiles : f[x] = Amount(now, x) /\ g[x] = Amount(next, x)
      BY <1>1, <1>4, PassingIs
    <3>2. /\ g[t] + g[u] = f[t] + f[u] /\ \A y \in S \ {t, u} : g[y] = f[y]
      <4>1. g[t] = 0 /\ g[u] = Amount(now, u) + Amount(now, t)
        BY <1>1, <2>5, <2>7, <3>1
      <4>2. f[t] = Amount(now, t) /\ f[u] = Amount(now, u)
        BY <1>1, <2>5, <3>1
      <4>3. Amount(now, t) \in Int /\ Amount(now, u) \in Int
        BY <1>1, <1>3, <2>5
      <4>4. \A y \in S \ {t, u} : y \in Tiles \ {t, u}
        BY <1>1
      <4>5. \A y \in S \ {t, u} : g[y] = f[y]
        BY <2>7, <3>1, <4>4
      <4> HIDE DEF f, g
      <4>6. QED
        BY ONLY <4>1, <4>2, <4>3, <4>5
    <3> HIDE DEF f, g
    <3>3. SumAll(g, S) = SumAll(f, S)
      BY <1>1, <2>5, <3>1, <3>2, SumMoves
    <3>4. QED
      BY <3>3 DEF Passing, f, g
  <2>12. QED
    BY <1>4, <2>8, <2>9, <2>10, <2>11 DEF CarriedTo, n, S
<1>8. QED
  BY <1>6, <1>7

LEMMA CarriesBack ==
  ASSUME NEW inf, NEW q, NEW one, NEW goal, Goal(goal), QueueOf(inf, q, one),
         SettlesAs(inf, q, one, goal), NEW r, CarryRun(r, inf, q)
  PROVE  r[0] \in Plans /\ \A t \in DOMAIN goal : Due(r[0], t) = goal[t]
<1> DEFINE n == Len(q)
           Q == {k \in 0 .. n : CarriedTo(n - k, r[n - k], inf, q)}
           now == r[0]
           S == ToSet(q)
<1>1. /\ inf \in Plans /\ q \in Seq(Tiles) /\ n \in Nat /\ n >= 1 /\ q[1] = one /\ Once(q)
      /\ S \in SUBSET Tiles /\ one \in S /\ Amount(inf, one) = 0 /\ one \in Tiles
  BY ElementsAre DEF QueueOf
<1>2. r[n] = inf /\ \A i \in 1 .. n : r[i - 1] = Carry(r[i], q[i])
  BY DEF CarryRun
<1>3. 0 \in Q
  <2>1. \A j \in 2 .. n : ~ (j > n)
    BY <1>1
  <2>2. CarriedTo(n, inf, inf, q)
    BY <1>1, <2>1 DEF CarriedTo
  <2>3. n - 0 = n /\ 0 \in 0 .. n
    BY <1>1
  <2>4. QED
    BY <1>2, <2>2, <2>3
<1>4. ASSUME NEW k \in 1 .. n, k - 1 \in Q
      PROVE  k \in Q
  <2>1. \E i : i = n - (k - 1)
    OBVIOUS
  <2>2. PICK i : i = n - (k - 1)
    BY <2>1
  <2>3. i \in 1 .. n /\ n - k = i - 1 /\ k \in 0 .. n
    BY <1>1, <2>2
  <2>4. CarriedTo(i, r[i], inf, q)
    BY <1>4, <2>2
  <2>5. CarriedTo(i - 1, r[i - 1], inf, q)
    <3>1. \E a, b : a = r[i] /\ b = r[i - 1]
      OBVIOUS
    <3>2. PICK a, b : a = r[i] /\ b = r[i - 1]
      BY <3>1
    <3>3. CarriedTo(i, a, inf, q) /\ b = Carry(a, q[i])
      BY <1>2, <2>3, <2>4, <3>2
    <3>4. CarriedTo(i - 1, b, inf, q)
      BY <2>3, <3>3, CarriedOn
    <3>5. QED
      BY <3>2, <3>4
  <2>6. QED
    BY <2>3, <2>5
<1>5. \A k \in 1 .. n : k - 1 \in Q => k \in Q
  BY <1>4
<1> HIDE DEF Q
<1>6. \A k \in 0 .. n : k \in Q
  BY ONLY <1>1, <1>3, <1>5, Climbs
<1>7. CarriedTo(0, now, inf, q)
  <2>1. n \in 0 .. n /\ n - n = 0
    BY <1>1
  <2>2. QED
    BY <1>6, <2>1 DEF Q
<1> HIDE DEF now, S, n
<1>8. now \in Plans
  BY <1>7 DEF CarriedTo
<1>9. \A x \in Tiles : /\ Due(inf, x) \in Int /\ Amount(inf, x) \in Int
                       /\ Due(now, x) \in Int /\ Amount(now, x) \in Int
                       /\ Due(now, x) + Amount(now, x) = Due(inf, x) + Amount(inf, x)
  BY <1>1, <1>7, <1>8, InfosAre DEF CarriedTo
<1>10. \A t \in S : t # one => Amount(now, t) = 0
  <2>1. SUFFICES ASSUME NEW t \in S, t # one
                 PROVE  Amount(now, t) = 0
    OBVIOUS
  <2>2. PICK j \in 1 .. n : q[j] = t
    BY <1>1, ElementsAre DEF S, n
  <2>3. j \in 2 .. n /\ j > 0
    BY <1>1, <2>1, <2>2
  <2>4. QED
    BY <1>7, <2>2, <2>3 DEF CarriedTo, n
<1>11. Amount(now, one) = Passing(inf, S)
  <2> DEFINE f == Amounts(now)
             R == S \ {one}
  <2>1. /\ IsFiniteSet(S) /\ Integral(f, S) /\ \A x \in Tiles : f[x] = Amount(now, x)
    BY <1>1, <1>8, PassingIs
  <2>2. IsFiniteSet(R) /\ \A x \in R : f[x] = 0
    BY <1>1, <1>10, <2>1, FS_Subset
  <2>3. f[one] \in Int
    BY <1>1, <1>9, <2>1
  <2> HIDE DEF f
  <2>4. SumAll(f, S) = f[one] + SumAll(f, R) /\ SumAll(f, R) \in Int
    BY <1>1, <2>1, SumSplit
  <2> HIDE DEF R
  <2>5. SumAll(f, R) = 0
    BY <2>2, SumZero
  <2>6. Passing(now, S) = Passing(inf, S)
    BY <1>7 DEF CarriedTo, S
  <2>7. QED
    BY <1>1, <2>1, <2>3, <2>4, <2>5, <2>6 DEF Passing, f
<1>12. ASSUME NEW t \in DOMAIN goal
       PROVE  Due(now, t) = goal[t]
  <2>1. t \in Tiles /\ goal[t] \in Int
    BY DEF Goal
  <2>2. CASE t = one
    <3>1. Due(inf, t) - Passing(inf, S) = goal[t]
      BY <2>2 DEF SettlesAs, S
    <3>2. QED
      BY <1>1, <1>9, <1>11, <2>1, <2>2, <3>1
  <2>3. CASE t # one /\ t \in S
    <3>1. Due(inf, t) + Amount(inf, t) = goal[t]
      BY <2>3 DEF SettlesAs, S
    <3>2. QED
      BY <1>9, <1>10, <2>1, <2>3, <3>1
  <2>4. CASE t # one /\ t \notin S
    <3>1. Due(inf, t) = goal[t]
      <4>1. Due(inf, t) \in Int
        BY <1>9, <2>1
      <4>2. Due(inf, t) + (IF t \in S THEN Amount(inf, t) ELSE 0) = goal[t]
        BY <2>4 DEF SettlesAs, S
      <4>3. QED
        BY <2>4, <4>1, <4>2
    <3>2. Amount(now, t) = Amount(inf, t)
      BY <1>7, <2>1, <2>4 DEF CarriedTo, S
    <3>3. /\ Due(now, t) + Amount(now, t) = Due(inf, t) + Amount(inf, t)
          /\ Due(inf, t) \in Int /\ Amount(inf, t) \in Int /\ Due(now, t) \in Int
      BY <1>9, <2>1
    <3>4. \A a, b, c \in Int : a + b = c + b => a = c
      OBVIOUS
    <3>5. QED
      BY <3>1, <3>2, <3>3, <3>4
  <2>5. QED
    BY <2>2, <2>3, <2>4
<1>13. QED
  BY <1>8, <1>12 DEF now

-----------------------------------------------------------------------------
(***************************************************************************)
(* What is found: directions that lead to tiles, new infos, and ways.      *)
(***************************************************************************)
\* The directions that are open are some with a neighbour.
WaysTyped == \A t \in Tiles : adjacent_bits[t] \subseteq DOMAIN Neighbour[t]

LEMMA OpenIs ==
  ASSUME WaysTyped, NEW t \in Tiles, NEW tiles, NEW q, q = Open(t, tiles)
  PROVE  /\ q \in Seq(DOMAIN Neighbour[t]) /\ Once(q)
         /\ \A k \in 1 .. Len(q) : Neighbour[t][q[k]] \in tiles
<1> DEFINE c == {d \in adjacent_bits[t] : Neighbour[t][d] \in tiles}
           D == Directions
<1>1. D \in Seq(1 .. 6) /\ Once(D)
  BY DEF Directions, Once
<1>2. q = Chosen(D, c)
  BY DEF Open
<1>3. \A d \in c : d \in DOMAIN Neighbour[t] /\ Neighbour[t][d] \in tiles
  BY DEF WaysTyped
<1> HIDE DEF c, D
<1>4. /\ q \in Seq(1 .. 6) /\ Once(q) /\ \A k \in 1 .. Len(q) : q[k] \in c
  BY <1>1, <1>2, ChosenIs
<1>5. q \in Seq(DOMAIN Neighbour[t])
  BY <1>3, <1>4
<1>6. QED
  BY <1>3, <1>4, <1>5

LEMMA WithoutIs ==
  ASSUME NEW X, NEW dirs \in Seq(X), NEW closed
  PROVE  Without(dirs, closed) \in Seq(X)
BY ChosenIs DEF Without

LEMMA BeyondIs ==
  ASSUME NEW t \in Tiles, NEW q \in Seq(DOMAIN Neighbour[t])
  PROVE  /\ Beyond(t, q) \in Seq(Tiles) /\ Len(Beyond(t, q)) = Len(q)
         /\ \A k \in 1 .. Len(q) : Beyond(t, q)[k] = Neighbour[t][q[k]]
<1>1. \A k \in 1 .. Len(q) : Neighbour[t][q[k]] \in Tiles
  BY NeighbourIs
<1>2. QED
  BY <1>1 DEF Beyond

LEMMA NewInfo ==
  /\ MonstermosInfo \in Infos /\ MonstermosInfo.curr_transfer_dir = Still
  /\ MonstermosInfo.mole_delta = 0 /\ MonstermosInfo.curr_transfer_amount = 0
  /\ MonstermosInfo.transfer_dirs \in [1 .. Still -> Int]
  /\ SumAll(MonstermosInfo.transfer_dirs, 1 .. Still) = 0
<1> DEFINE z == [d \in 1 .. Still |-> 0]
<1>1. z \in [1 .. Still -> Int] /\ \A d \in 1 .. Still : z[d] = 0
  OBVIOUS
<1>2. MonstermosInfo.transfer_dirs = z
  BY DEF MonstermosInfo
<1> HIDE DEF z
<1>3. SumAll(z, 1 .. Still) = 0
  BY <1>1, StillIs, SumZero
<1>4. Still \in 1 .. Still
  BY StillIs
<1>5. /\ MonstermosInfo \in Infos /\ MonstermosInfo.curr_transfer_dir = Still
      /\ MonstermosInfo.mole_delta = 0 /\ MonstermosInfo.curr_transfer_amount = 0
  BY <1>1, <1>4 DEF MonstermosInfo, Infos, z
<1>6. QED
  BY <1>1, <1>2, <1>3, <1>5

LEMMA RenewIs ==
  ASSUME info \in Plans, NEW tiles
  PROVE  /\ Renew(tiles) \in Plans
         /\ \A t \in Tiles : Renew(tiles)[t] = IF t \in tiles THEN MonstermosInfo ELSE info[t]
<1>1. \A t \in Tiles : Renew(tiles)[t] = IF t \in tiles THEN MonstermosInfo ELSE info[t]
  BY DEF Renew
<1>2. Renew(tiles) \in [Tiles -> Infos]
  BY NewInfo DEF Renew, Plans
<1>3. \A t \in Tiles : Renew(tiles)[t].curr_transfer_dir \in DOMAIN Neighbour[t] \cup {Still}
  BY <1>1, NewInfo DEF Plans
<1>4. QED
  BY <1>1, <1>2, <1>3 DEF Plans

LEMMA FoundIs ==
  ASSUME WaysTyped, NEW t \in Tiles, NEW found, found = Found(t)
  PROVE  found \in Seq(Tiles) /\ \A k \in 1 .. Len(found) : found[k] \notin queue_cycle
<1> DEFINE tiles == Tiles \ (queue_cycle \cup layout.wall)
           q == Open(t, tiles)
<1>1. CASE found = <<>>
  <2>1. \A k \in 1 .. 0 : FALSE
    OBVIOUS
  <2>2. QED
    BY <1>1, <2>1
<1>2. CASE found = Beyond(t, q)
  <2>1. \A u \in tiles : u \notin queue_cycle
    OBVIOUS
  <2> HIDE DEF tiles
  <2>2. /\ q \in Seq(DOMAIN Neighbour[t])
        /\ \A k \in 1 .. Len(q) : Neighbour[t][q[k]] \in tiles
    BY OpenIs
  <2> HIDE DEF q
  <2>3. /\ Beyond(t, q) \in Seq(Tiles) /\ Len(Beyond(t, q)) = Len(q)
        /\ \A k \in 1 .. Len(q) : Beyond(t, q)[k] = Neighbour[t][q[k]]
    BY <2>2, BeyondIs
  <2>4. QED
    BY <1>2, <2>1, <2>2, <2>3
<1>3. QED
  BY <1>1, <1>2 DEF Found

\* The ways are the only thing set.
LEMMA SetDirsIs ==
  ASSUME info \in Plans, NEW t \in Tiles, NEW dirs \in Seq(DOMAIN Neighbour[t])
  PROVE  SameDues(SetDirs(t, dirs), info)
<1> DEFINE now == SetDirs(t, dirs)
           chosen(u) == CHOOSE d \in ToSet(dirs) : Neighbour[t][d] = u
           way(u) == opp_dir_index[chosen(u)]
<1>1. ToSet(dirs) \subseteq DOMAIN Neighbour[t]
  BY ElementsAre
<1>2. ASSUME NEW u \in Tiles
      PROVE  /\ now[u] \in Infos /\ now[u].mole_delta = info[u].mole_delta
             /\ now[u].transfer_dirs = info[u].transfer_dirs
             /\ now[u].curr_transfer_dir \in DOMAIN Neighbour[u] \cup {Still}
  <2>1. info[u] \in Infos /\ info[u].curr_transfer_dir \in DOMAIN Neighbour[u] \cup {Still}
    BY DEF Plans
  <2>2. CASE \E d \in ToSet(dirs) : Neighbour[t][d] = u
    <3>1. chosen(u) \in ToSet(dirs) /\ Neighbour[t][chosen(u)] = u
      BY <2>2
    <3>2. now[u] = [info[u] EXCEPT !.curr_transfer_dir = way(u)]
      BY <2>2 DEF SetDirs
    <3> DEFINE d == chosen(u)
               i == info[u]
    <3> HIDE DEF d, now, i
    <3>3. d \in DOMAIN Neighbour[t] /\ Neighbour[t][d] = u
      BY <1>1, <3>1 DEF d
    <3>4. opp_dir_index[d] \in DOMAIN Neighbour[u] /\ opp_dir_index[d] \in 1 .. Still
      BY <3>3, NeighbourIs
    <3>5. now[u] = [i EXCEPT !.curr_transfer_dir = opp_dir_index[d]]
      BY <3>2 DEF d, i
    <3>6. i \in Infos
      BY <2>1 DEF i
    <3>7. /\ now[u] \in Infos /\ now[u].curr_transfer_dir = opp_dir_index[d]
          /\ now[u].transfer_dirs = i.transfer_dirs /\ now[u].mole_delta = i.mole_delta
      BY <3>4, <3>5, <3>6, WayChanges
    <3>8. QED
      BY <3>4, <3>7 DEF i
  <2>3. CASE ~ \E d \in ToSet(dirs) : Neighbour[t][d] = u
    <3>1. now[u] = info[u]
      BY <2>3 DEF SetDirs
    <3>2. QED
      BY <2>1, <3>1
  <2>4. QED
    BY <2>2, <2>3
<1>3. now \in Plans
  <2>1. DOMAIN now = Tiles /\ now = [u \in Tiles |-> now[u]]
    BY DEF SetDirs
  <2> HIDE DEF now
  <2>2. now \in [Tiles -> Infos]
    BY <1>2, <2>1
  <2>3. QED
    BY <1>2, <2>2 DEF Plans
<1> HIDE DEF now
<1>4. ASSUME NEW u \in Tiles
      PROVE  Due(now, u) = Due(info, u)
  <2>1. now[u].mole_delta = info[u].mole_delta /\ now[u].transfer_dirs = info[u].transfer_dirs
    BY <1>2
  <2>2. QED
    BY ONLY <2>1 DEF Due
<1>5. QED
  BY <1>3, <1>4 DEF SameDues, now

-----------------------------------------------------------------------------
(***************************************************************************)
(* Carrying a plan out, and blowing into space, keep the types.            *)
(***************************************************************************)
LEMMA StatesAre ==
  ASSUME NEW st \in States
  PROVE  /\ DOMAIN st = {"moles", "info"} /\ st.moles \in [Tiles -> Int] /\ st.info \in Plans
         /\ \A t \in Tiles : st.moles[t] \in Int
BY DEF States

\* The states with the same air in space.
Like(st) == {s \in States : \A u \in Tiles : IsSpace(u) => s.moles[u] = st.moles[u]}

LEMMA LikeIs ==
  ASSUME NEW st \in States
  PROVE  /\ st \in Like(st) /\ Like(st) \subseteq States
         /\ \A s \in Like(st) : Like(s) \subseteq Like(st)
BY DEF Like

LEMMA MolesChange ==
  ASSUME NEW st \in States, NEW t \in Tiles, ~ IsSpace(t), NEW n \in Int
  PROVE  [st EXCEPT !.moles[t] = n] \in Like(st)
<1> DEFINE now == [st EXCEPT !.moles[t] = n]
           m == [st.moles EXCEPT ![t] = n]
<1>1. now = [moles |-> m, info |-> st.info]
  BY StatesAre
<1>2. m \in [Tiles -> Int] /\ \A u \in Tiles : IsSpace(u) => m[u] = st.moles[u]
  BY StatesAre
<1> HIDE DEF m
<1>3. now \in States /\ now.moles = m
  BY <1>1, <1>2, StatesAre DEF States
<1> HIDE DEF now
<1>4. now \in Like(st)
  BY <1>2, <1>3 DEF Like
<1>5. QED
  BY <1>4 DEF now

LEMMA GainsIs ==
  ASSUME NEW st \in States, NEW t \in Tiles, NEW n \in Int
  PROVE  Gains(st, t, n) \in Like(st)
<1>1. st.moles[t] + n \in Int
  BY StatesAre
<1>2. QED
  BY <1>1, MolesChange, LikeIs DEF Gains

LEMMA TransferIs ==
  ASSUME NEW st \in States, NEW t \in Tiles, NEW u \in Tiles, NEW n \in Int
  PROVE  Transfer(st, t, u, n) \in Like(st)
<1> DEFINE moved == Removed(st.moles[t], n)
<1>1. moved \in Int
  BY StatesAre DEF Removed
<1> HIDE DEF moved
<1>2. -moved \in Int
  BY <1>1
<1> DEFINE s == Gains(st, t, -moved)
<1>3. s \in Like(st) /\ s \in States
  BY <1>2, GainsIs, LikeIs
<1>4. Transfer(st, t, u, n) = Gains(s, u, moved)
  BY DEF Transfer, moved
<1> HIDE DEF s
<1>5. Gains(s, u, moved) \in Like(s)
  BY <1>1, <1>3, GainsIs
<1>6. QED
  BY <1>3, <1>4, <1>5, LikeIs

LEMMA DirsSet ==
  ASSUME NEW st \in States, NEW t \in Tiles, NEW dirs \in [1 .. Still -> Int], NEW now,
         now = [st EXCEPT !.info[t].transfer_dirs = dirs]
  PROVE  now \in Like(st)
<1> DEFINE i == st.info[t]
           x == [i EXCEPT !.transfer_dirs = dirs]
           inf == [st.info EXCEPT ![t] = x]
<1>1. i \in Infos /\ st.info \in Plans /\ i.curr_transfer_dir \in DOMAIN Neighbour[t] \cup {Still}
  BY StatesAre, InfosAre DEF Way
<1>2. now = [moles |-> st.moles, info |-> inf]
  BY StatesAre
<1> HIDE DEF i
<1>3. x \in Infos /\ x.curr_transfer_dir = i.curr_transfer_dir
  BY <1>1, DirsChange
<1>4. Instead(inf, st.info, t, x)
  BY DEF Instead
<1> HIDE DEF x, inf
<1>5. inf \in Plans
  BY <1>1, <1>3, <1>4, OneInfo
<1>6. now \in States /\ now.moles = st.moles
  BY <1>2, <1>5, StatesAre DEF States
<1>7. QED
  BY <1>6 DEF Like

LEMMA ForgetPlanIs ==
  ASSUME NEW st \in States, NEW t \in Tiles
  PROVE  ForgetPlan(st, t) \in Like(st)
BY DirsSet, NewInfo DEF ForgetPlan

LEMMA ForgetWayIs ==
  ASSUME NEW st \in States, NEW u \in Tiles, NEW d \in 1 .. Still
  PROVE  ForgetWay(st, u, d) \in Like(st)
<1> DEFINE i == st.info[u]
           dirs == [i.transfer_dirs EXCEPT ![d] = 0]
<1>1. i \in Infos
  BY StatesAre, InfosAre
<1>2. dirs \in [1 .. Still -> Int]
  BY <1>1, FieldsAre
<1>3. ForgetWay(st, u, d) = [st EXCEPT !.info[u].transfer_dirs = dirs]
  BY DEF ForgetWay
<1> HIDE DEF dirs
<1>4. QED
  BY <1>2, <1>3, DirsSet

Again ==
  {again \in [Tiles -> [States -> States]] :
     \A t \in Tiles, st \in States : again[t][st] \in Like(st)}

\* What is planned for a tile.
PlanOf(plan) == plan \in [1 .. Still -> Int]

LEMMA NeighboursFinalized ==
  ASSUME WaysTyped, NEW again \in Again, NEW start \in States, NEW t \in Tiles,
         NEW plan, PlanOf(plan)
  PROVE  finalize_eq_neighbors(again, start, t, plan) \in Like(start)
<1> DEFINE q == Open(t, Tiles)
<1>0. q \in Seq(DOMAIN Neighbour[t])
  BY OpenIs
<1>20. \A x \in DOMAIN Neighbour[t] : Neighbour[t][x] \in Tiles
  BY NeighbourIs
<1>21. finalize_eq_neighbors(again, start, t, plan) =
         FoldLeft(LAMBDA st, d : IF plan[d] < 0 THEN again[Neighbour[t][d]][st] ELSE st,
                  start, q)
  BY DEF finalize_eq_neighbors
<1> HIDE DEF q
<1> DEFINE m == Len(q)
           b == start
           T == Like(start)
           op(st, x) == IF plan[x] < 0 THEN again[Neighbour[t][x]][st] ELSE st
           F == [k \in 1 .. m |-> [st \in T |-> op(st, q[k])]]
           Fold(h) == h = [z \in SUBSET (DOMAIN q) |->
                             IF z = {} THEN b ELSE op(h[z \ {Max(z)}], q[Max(z)])]
           h == CHOOSE h : Fold(h)
<1>1. m \in Nat /\ DOMAIN q = 1 .. m
  BY <1>0
<1>2. b \in T
  BY LikeIs
<1>3. \A st \in T, k \in 1 .. m : op(st, q[k]) \in T
  <2>1. SUFFICES ASSUME NEW st \in T, NEW k \in 1 .. m
                 PROVE  op(st, q[k]) \in T
    OBVIOUS
  <2>2. Neighbour[t][q[k]] \in Tiles
    BY <1>0, <1>20
  <2>3. st \in States /\ Like(st) \subseteq T
    BY LikeIs
  <2> HIDE DEF T
  <2>4. again[Neighbour[t][q[k]]][st] \in T
    BY <2>2, <2>3 DEF Again
  <2>5. QED
    BY <2>4
<1>4. \A k \in 1 .. m : \A st \in T : F[k][st] = op(st, q[k])
  OBVIOUS
<1>5. StepsOf(m, T, b, F)
  <2> HIDE DEF T, b, op
  <2> QED
    BY <1>1, <1>2, <1>3 DEF StepsOf
<1>6. FoldLeft(LAMBDA st, d : IF plan[d] < 0 THEN again[Neighbour[t][d]][st] ELSE st, start, q) = h[DOMAIN q]
  BY DEF FoldLeft, MapThenFoldSet
<1> HIDE DEF T, b, op, F
<1>7. \A z \in SUBSET (1 .. m) : z # {} => Max(z) \in z
  <2> HIDE DEF m
  <2> QED
    BY <1>1, GreatestOf
<1>8. Fold(h)
  <2>1. PICK g \in [SUBSET (1 .. m) -> T] : FromLeft(g, m, b, F)
    BY ONLY <1>5, LeftFoldExists DEF LeftFolded
  <2>2. \A z \in SUBSET (1 .. m) : z # {} =>
          F[Max(z)][g[z \ {Max(z)}]] = op(g[z \ {Max(z)}], q[Max(z)])
    BY <1>4, <1>7, <2>1
  <2>3. Fold(g)
    BY <1>1, <2>1, <2>2 DEF FromLeft
  <2>4. QED
    BY <2>3
<1> HIDE DEF h
<1>9. FoldsLeft(h, m, T, b, F)
  <2>1. h[{}] = b
    BY <1>1, <1>8
  <2>2. \A z \in SUBSET (1 .. m) : z # {} => h[z] = op(h[z \ {Max(z)}], q[Max(z)])
    BY <1>1, <1>8
  <2>3. QED
    BY <1>4, <1>7, <2>1, <2>2 DEF FoldsLeft
<1>10. PICK r : LeftRun(r, m, T, b, F) /\ r[m] = h[1 .. m]
  BY ONLY <1>5, <1>9, LeftRunIs DEF RunsLeft
<1>11. r[m] \in T
  BY <1>1, <1>10 DEF LeftRun
<1>12. QED
  BY <1>1, <1>6, <1>10, <1>11, <1>21 DEF T

LEMMA ReadyIs ==
  ASSUME WaysTyped, NEW again \in Again, NEW st \in States, NEW t \in Tiles,
         NEW plan, PlanOf(plan), NEW amount
  PROVE  Ready(again, st, t, plan, amount) \in Like(st)
BY NeighboursFinalized, LikeIs DEF Ready

LEMMA PushIs ==
  ASSUME WaysTyped, NEW again \in Again, NEW st \in States, NEW t \in Tiles,
         NEW plan, PlanOf(plan), NEW d \in DOMAIN Neighbour[t]
  PROVE  Push(again, st, t, plan, d) \in Like(st)
<1> DEFINE ready == Ready(again, st, t, plan, plan[d])
           u == Neighbour[t][d]
           e == opp_dir_index[d]
           way == ForgetWay(ready, u, e)
<1>1. u \in Tiles /\ e \in 1 .. Still /\ d \in 1 .. Still
  BY NeighbourIs
<1>2. plan[d] \in Int
  BY <1>1 DEF PlanOf
<1>3. ready \in Like(st) /\ ready \in States
  BY ReadyIs, LikeIs
<1>4. Push(again, st, t, plan, d) = IF plan[d] <= 0 THEN st ELSE Transfer(way, t, u, plan[d])
  BY DEF Push
<1> HIDE DEF ready, u, e
<1>5. way \in Like(ready) /\ way \in States
  BY <1>1, <1>3, ForgetWayIs, LikeIs
<1> HIDE DEF way
<1>6. Transfer(way, t, u, plan[d]) \in Like(way)
  BY <1>1, <1>2, <1>5, TransferIs
<1>7. Transfer(way, t, u, plan[d]) \in Like(st)
  BY <1>3, <1>5, <1>6, LikeIs
<1>8. QED
  BY <1>4, <1>7, LikeIs

LEMMA FromPlanetIs ==
  ASSUME WaysTyped, NEW again \in Again, NEW st \in States, NEW t \in Tiles,
         NEW plan, PlanOf(plan)
  PROVE  FromPlanet(again, st, t, plan) \in Like(st)
<1> DEFINE n == plan[Still]
           ready == Ready(again, st, t, plan, n)
           a == -Removed(ready.moles[t], n)
           b == -n
<1>1. n \in Int
  BY StillIs DEF PlanOf
<1>2. ready \in Like(st) /\ ready \in States
  BY ReadyIs, LikeIs
<1>3. FromPlanet(again, st, t, plan) = CASE n > 0 -> Gains(ready, t, a)
                                         [] n < 0 /\ PlanetMoles > 0 -> Gains(st, t, b)
                                         [] OTHER -> st
  BY DEF FromPlanet
<1> HIDE DEF n, ready
<1>4. a \in Int /\ b \in Int
  BY <1>1, <1>2, StatesAre DEF Removed
<1> HIDE DEF a, b
<1>5. Gains(ready, t, a) \in Like(st) /\ Gains(st, t, b) \in Like(st) /\ st \in Like(st)
  BY <1>2, <1>4, GainsIs, LikeIs
<1>6. QED
  BY <1>3, <1>5

LEMMA FinalizedIs ==
  ASSUME WaysTyped, NEW again \in Again, NEW start \in States, NEW t \in Tiles
  PROVE  Finalized(again, start, t) \in Like(start)
<1> DEFINE plan == start.info[t].transfer_dirs
           base == FromPlanet(again, ForgetPlan(start, t), t, plan)
           q == Open(t, Tiles)
<1>0. q \in Seq(DOMAIN Neighbour[t])
  BY OpenIs
<1>20. PlanOf(plan)
  BY StatesAre, InfosAre DEF PlanOf
<1>21. base \in Like(start)
  <2> DEFINE st == ForgetPlan(start, t)
  <2> HIDE DEF plan
  <2>1. st \in Like(start) /\ st \in States
    BY ForgetPlanIs, LikeIs
  <2> HIDE DEF st
  <2>2. FromPlanet(again, st, t, plan) \in Like(st)
    BY <1>20, <2>1, FromPlanetIs
  <2>3. QED
    BY <2>1, <2>2, LikeIs DEF st
<1>22. Finalized(again, start, t) =
         IF \A d \in 1 .. Still : plan[d] = 0 THEN start
         ELSE FoldLeft(LAMBDA st, d : Push(again, st, t, plan, d), base, q)
  BY DEF Finalized
<1> HIDE DEF q, plan, base
<1> DEFINE m == Len(q)
           b == base
           T == Like(start)
           op(st, x) == Push(again, st, t, plan, x)
           F == [k \in 1 .. m |-> [st \in T |-> op(st, q[k])]]
           Fold(h) == h = [z \in SUBSET (DOMAIN q) |->
                             IF z = {} THEN b ELSE op(h[z \ {Max(z)}], q[Max(z)])]
           h == CHOOSE h : Fold(h)
<1>1. m \in Nat /\ DOMAIN q = 1 .. m
  BY <1>0
<1>2. b \in T
  BY <1>21
<1>3. \A st \in T, k \in 1 .. m : op(st, q[k]) \in T
  <2>1. SUFFICES ASSUME NEW st \in T, NEW k \in 1 .. m
                 PROVE  op(st, q[k]) \in T
    OBVIOUS
  <2>2. q[k] \in DOMAIN Neighbour[t]
    BY <1>0
  <2>3. st \in States /\ Like(st) \subseteq T
    BY LikeIs
  <2> HIDE DEF T
  <2>4. Push(again, st, t, plan, q[k]) \in Like(st)
    BY <1>20, <2>2, <2>3, PushIs
  <2>5. QED
    BY <2>3, <2>4
<1>4. \A k \in 1 .. m : \A st \in T : F[k][st] = op(st, q[k])
  OBVIOUS
<1>5. StepsOf(m, T, b, F)
  <2> HIDE DEF T, b, op
  <2> QED
    BY <1>1, <1>2, <1>3 DEF StepsOf
<1>6. FoldLeft(LAMBDA st, d : Push(again, st, t, plan, d), base, q) = h[DOMAIN q]
  BY DEF FoldLeft, MapThenFoldSet
<1> HIDE DEF T, b, op, F
<1>7. \A z \in SUBSET (1 .. m) : z # {} => Max(z) \in z
  <2> HIDE DEF m
  <2> QED
    BY <1>1, GreatestOf
<1>8. Fold(h)
  <2>1. PICK g \in [SUBSET (1 .. m) -> T] : FromLeft(g, m, b, F)
    BY ONLY <1>5, LeftFoldExists DEF LeftFolded
  <2>2. \A z \in SUBSET (1 .. m) : z # {} =>
          F[Max(z)][g[z \ {Max(z)}]] = op(g[z \ {Max(z)}], q[Max(z)])
    BY <1>4, <1>7, <2>1
  <2>3. Fold(g)
    BY <1>1, <2>1, <2>2 DEF FromLeft
  <2>4. QED
    BY <2>3
<1> HIDE DEF h
<1>9. FoldsLeft(h, m, T, b, F)
  <2>1. h[{}] = b
    BY <1>1, <1>8
  <2>2. \A z \in SUBSET (1 .. m) : z # {} => h[z] = op(h[z \ {Max(z)}], q[Max(z)])
    BY <1>1, <1>8
  <2>3. QED
    BY <1>4, <1>7, <2>1, <2>2 DEF FoldsLeft
<1>10. PICK r : LeftRun(r, m, T, b, F) /\ r[m] = h[1 .. m]
  BY ONLY <1>5, <1>9, LeftRunIs DEF RunsLeft
<1>11. r[m] \in T
  BY <1>1, <1>10 DEF LeftRun
<1>12. QED
  BY <1>1, <1>6, <1>10, <1>11, <1>22, LikeIs DEF T

LEMMA BlowIs ==
  ASSUME moles \in [Tiles -> Int], NEW inf \in Plans, NEW t \in Tiles
  PROVE  Blow(inf, t) \in Plans
<1> DEFINE d == inf[t].curr_transfer_dir
           u == Neighbour[t][d]
           n == inf[t].curr_transfer_amount + moles[u]
           x == [inf[t] EXCEPT !.curr_transfer_amount = n]
           now == [inf EXCEPT ![t] = x]
<1>1. CASE d = Still
  BY <1>1 DEF Blow
<1>2. CASE d # Still
  <2>1. Blow(inf, t) = Passes(now, u, n)
    BY <1>2 DEF Blow
  <2>2. d \in DOMAIN Neighbour[t] /\ inf[t] \in Infos /\ inf[t].curr_transfer_amount \in Int
    BY <1>2, InfosAre DEF Way, Amount
  <2>3. u \in Tiles
    BY <2>2, NeighbourIs
  <2>4. n \in Int
    BY <2>2, <2>3
  <2> HIDE DEF n, u
  <2>5. x \in Infos /\ x.curr_transfer_dir = d
    BY <2>2, <2>4, AmountChanges
  <2>6. Instead(now, inf, t, x)
    BY DEF Instead
  <2> HIDE DEF x, now, d
  <2>7. now \in Plans
    BY <2>2, <2>5, <2>6, OneInfo
  <2>8. QED
    BY <2>1, <2>3, <2>4, <2>7, PassesIs DEF Becomes
<1>3. QED
  BY <1>1, <1>2

LEMMA AllBlow ==
  ASSUME moles \in [Tiles -> Int], NEW inf \in Plans, NEW q \in Seq(Tiles)
  PROVE  FoldRight(LAMBDA t, st : Blow(st, t), q, inf) \in Plans
<1> DEFINE m == Len(q)
           b == inf
           T == Plans
           op(st, x) == Blow(st, x)
           F == [k \in 1 .. m |-> [st \in T |-> op(st, q[k])]]
           Fold(h) == h = [z \in SUBSET (DOMAIN q) |->
                             IF z = {} THEN b ELSE op(h[z \ {Min(z)}], q[Min(z)])]
           h == CHOOSE h : Fold(h)
<1>1. m \in Nat /\ DOMAIN q = 1 .. m
  OBVIOUS
<1>2. b \in T
  OBVIOUS
<1>3. \A st \in T, k \in 1 .. m : op(st, q[k]) \in T
  BY BlowIs
<1>4. \A k \in 1 .. m : \A st \in T : F[k][st] = op(st, q[k])
  OBVIOUS
<1>5. StepsOf(m, T, b, F)
  <2> HIDE DEF T, b, op
  <2> QED
    BY <1>1, <1>2, <1>3 DEF StepsOf
<1>6. FoldRight(LAMBDA t, st : Blow(st, t), q, inf) = h[DOMAIN q]
  BY DEF FoldRight, MapThenFoldSet
<1> HIDE DEF T, b, op, F
<1>7. \A z \in SUBSET (1 .. m) : z # {} => Min(z) \in z
  <2> HIDE DEF m
  <2> QED
    <3>1. \A z \in SUBSET (1 .. m) : z \subseteq Nat
      OBVIOUS
    <3>2. QED
      BY <3>1, LeastOf
<1>8. Fold(h)
  <2>1. PICK g \in [SUBSET (1 .. m) -> T] : FromRight(g, m, b, F)
    BY ONLY <1>5, RightFoldExists DEF RightFolded
  <2>2. \A z \in SUBSET (1 .. m) : z # {} =>
          F[Min(z)][g[z \ {Min(z)}]] = op(g[z \ {Min(z)}], q[Min(z)])
    BY <1>4, <1>7, <2>1
  <2>3. Fold(g)
    BY <1>1, <2>1, <2>2 DEF FromRight
  <2>4. QED
    BY <2>3
<1> HIDE DEF h
<1>9. FoldsRight(h, m, T, b, F)
  <2>1. h[{}] = b
    BY <1>1, <1>8
  <2>2. \A z \in SUBSET (1 .. m) : z # {} => h[z] = op(h[z \ {Min(z)}], q[Min(z)])
    BY <1>1, <1>8
  <2>3. QED
    BY <1>4, <1>7, <2>1, <2>2 DEF FoldsRight
<1>10. PICK r : RightRun(r, m, T, b, F) /\ r[0] = h[1 .. m]
  BY ONLY <1>5, <1>9, RightRunIs DEF RunsRight
<1>11. r[0] \in T
  BY <1>1, <1>10 DEF RightRun
<1>12. QED
  BY <1>1, <1>6, <1>10, <1>11 DEF T

\* The recursion is well defined, and leaves the air of space as it was.
Deeper == [again \in Again |-> [t \in Tiles |-> [start \in States |-> Finalized(again, start, t)]]]

LEMMA finalize_eqIs ==
  ASSUME WaysTyped
  PROVE  \A n \in Nat : finalize_eq[n] \in Again
<1> DEFINE b == [t \in Tiles |-> [start \in States |-> start]]
           Rec(f) == f = [depth \in Nat |->
              [t \in Tiles |-> [start \in States |->
                 IF depth = 0 THEN start ELSE Finalized(f[depth - 1], start, t)]]]
<1>1. b \in Again
  BY LikeIs DEF Again
<1>2. Deeper \in [Again -> Again]
  <2>1. \A again \in Again, t \in Tiles, start \in States :
          Finalized(again, start, t) \in Like(start) /\ Finalized(again, start, t) \in States
    BY FinalizedIs, LikeIs
  <2>2. QED
    BY <2>1 DEF Deeper, Again
<1>3. PICK h : Iterates(h, Again, b, Deeper)
  BY <1>1, <1>2, IterationExists
<1>4. Rec(h)
  <2>1. h \in [Nat -> Again] /\ h[0] = b /\ \A k \in Nat : h[k + 1] = Deeper[h[k]]
    BY <1>3 DEF Iterates
  <2>2. ASSUME NEW k \in Nat
        PROVE  h[k] = [t \in Tiles |-> [start \in States |->
                         IF k = 0 THEN start ELSE Finalized(h[k - 1], start, t)]]
    <3>1. CASE k = 0
      BY <2>1, <3>1
    <3>2. CASE k # 0
      <4>1. k - 1 \in Nat /\ (k - 1) + 1 = k
        BY <3>2
      <4>2. h[k] = Deeper[h[k - 1]] /\ h[k - 1] \in Again
        BY <2>1, <4>1
      <4>3. h[k] = [t \in Tiles |-> [start \in States |-> Finalized(h[k - 1], start, t)]]
        BY <4>2 DEF Deeper
      <4>4. QED
        BY <3>2, <4>3
    <3>3. QED
      BY <3>1, <3>2
  <2>3. QED
    BY <2>1, <2>2
<1> DEFINE f == CHOOSE f : Rec(f)
<1>5. finalize_eq = f
  BY DEF finalize_eq
<1> HIDE DEF f
<1>6. Rec(f)
  BY <1>4 DEF f
<1> DEFINE S == {n \in Nat : f[n] \in Again}
<1>7. 0 \in S
  <2>1. f[0] = b
    BY <1>6
  <2>2. QED
    BY <1>1, <2>1
<1>8. ASSUME NEW k \in Nat, NEW i \in 1 .. k, i - 1 \in S
      PROVE  i \in S
  <2>1. i \in Nat /\ i # 0 /\ f[i - 1] \in Again
    BY <1>8
  <2>2. f[i] = [t \in Tiles |-> [start \in States |-> Finalized(f[i - 1], start, t)]]
    BY <1>6, <2>1
  <2> HIDE DEF Rec
  <2>3. \A t \in Tiles, start \in States :
          Finalized(f[i - 1], start, t) \in Like(start) /\ Finalized(f[i - 1], start, t) \in States
    BY <2>1, FinalizedIs, LikeIs
  <2>4. f[i] \in Again
    BY <2>2, <2>3 DEF Again
  <2>5. QED
    BY <2>1, <2>4
<1> HIDE DEF S
<1>9. \A k \in Nat : k \in S
  <2>1. SUFFICES ASSUME NEW k \in Nat
                 PROVE  k \in S
    OBVIOUS
  <2>2. \A i \in 1 .. k : i - 1 \in S => i \in S
    BY <1>8
  <2>3. \A i \in 0 .. k : i \in S
    BY ONLY <1>7, <2>2, k \in Nat, Climbs
  <2>4. QED
    BY <2>3
<1>10. QED
  BY <1>5, <1>9 DEF S

-----------------------------------------------------------------------------
(***************************************************************************)
(* The invariant: the types; what exploring leaves to divide; that every   *)
(* tile's dues are its share, between the passes and while one is served.  *)
(***************************************************************************)
EqTyped ==
  /\ moles \in [Tiles -> Int] /\ info \in Plans /\ cyclenum \in Nat /\ WaysTyped
  /\ turfs \in Seq(Tiles) /\ planet_turfs \in Seq(Tiles) /\ average_moles \in Int
  /\ work \in Seq(Tiles) /\ queue \in Seq(Tiles) /\ index \in Nat \ {0}
  /\ pc # "idle" => this \in Tiles
  /\ pc = "idle" => index = 1 /\ planet_turfs = <<>>

Unplanned(inf, t) == SumAll(inf[t].transfer_dirs, 1 .. Still) = 0

\* The first tile is no planet, so the zone has more tiles than planets.
Explored ==
  pc = "explore" =>
    /\ Len(turfs) >= 1 /\ ~ IsPlanet(turfs[1]) /\ index <= Len(turfs) + 1
    /\ \A k \in 1 .. Len(turfs) :
         /\ turfs[k] \in queue_cycle /\ Unplanned(info, turfs[k])
         /\ k < index /\ k <= TurfLimit => info[turfs[k]].mole_delta = moles[turfs[k]]
    /\ \/ planet_turfs = <<>>
       \/ Len(planet_turfs) <= index - 2 /\ Len(planet_turfs) <= TurfLimit - 1

Planning == pc \in {"fast", "choose", "slow", "planet"} \/ (pc = "finalize" /\ index = 1)

Wanted == [t \in ToSet(turfs) |-> moles[t] - average_moles]

DuesMet(inf, goal) == \A t \in DOMAIN goal : Due(inf, t) = goal[t]

Planned == Planning => DuesMet(info, Wanted)

Visiting ==
  pc = "visit" =>
    /\ work # <<>> /\ QueueOf(info, queue, Head(work))
    /\ SettlesAs(info, queue, Head(work), Wanted)
    /\ ToSet(queue) \subseteq slow_cycle

PlanInv == EqTyped /\ Explored /\ Planned /\ Visiting

-----------------------------------------------------------------------------
(***************************************************************************)
(* It holds at first, and every step keeps it.                             *)
(***************************************************************************)
LEMMA InitPlans == Init => PlanInv
<1>1. SUFFICES ASSUME Init
               PROVE  PlanInv
  OBVIOUS
<1>2. moles \in [Tiles -> Int]
  BY <1>1, EqualizeAssumption DEF Init
<1>3. info \in Plans
  BY <1>1, NewInfo DEF Init, Plans
<1>4. WaysTyped
  BY <1>1 DEF Init, WaysTyped
<1>5. <<>> \in Seq(Tiles)
  OBVIOUS
<1>6. EqTyped
  BY <1>1, <1>2, <1>3, <1>4, <1>5 DEF Init, EqTyped
<1>7. Explored /\ Planned /\ Visiting
  BY <1>1 DEF Init, Explored, Planned, Planning, Visiting
<1>8. QED
  BY <1>6, <1>7 DEF PlanInv

\* Outside the zone's phases only the types matter.
Elsewhere == pc \in {"idle", "breach", "drain"}

LEMMA OnlyTypes ==
  ASSUME EqTyped', Elsewhere'
  PROVE  PlanInv'
BY DEF PlanInv, Elsewhere, Explored, Planned, Planning, Visiting

LEMMA ReturnTypes ==
  ASSUME PlanInv, Return, moles' \in [Tiles -> Int], info' \in Plans, WaysTyped', cyclenum' = cyclenum
  PROVE  PlanInv'
<1>1. <<>> \in Seq(Tiles)
  OBVIOUS
<1>2. EqTyped'
  <2>1. /\ pc' = "idle" /\ turfs' = <<>> /\ planet_turfs' = <<>> /\ average_moles' = 0
        /\ work' = <<>> /\ queue' = <<>> /\ index' = 1
    BY DEF Return
  <2>2. cyclenum' \in Nat
    BY DEF PlanInv, EqTyped
  <2>3. QED
    BY <1>1, <2>1, <2>2 DEF EqTyped
<1>3. Elsewhere'
  BY DEF Return, Elsewhere
<1>4. QED
  BY <1>2, <1>3, OnlyTypes

LEMMA CycleChanges ==
  ASSUME NEW i \in Infos, NEW n \in Nat, NEW x, x = [i EXCEPT !.last_cycle = n]
  PROVE  /\ x \in Infos /\ x.mole_delta = i.mole_delta
         /\ x.transfer_dirs = i.transfer_dirs /\ x.curr_transfer_amount = i.curr_transfer_amount
         /\ x.curr_transfer_dir = i.curr_transfer_dir
BY FieldsAre DEF Infos

LEMMA SkipPlans ==
  ASSUME PlanInv, NEW t \in Tiles, Skip(t)
  PROVE  PlanInv'
<1> DEFINE n == IF IsNeeded(t) THEN 0 ELSE cyclenum
           x == [MonstermosInfo EXCEPT !.last_cycle = n]
<1>1. n \in Nat /\ EqTyped
  BY DEF PlanInv, EqTyped
<1>2. Instead(info', info, t, x)
  BY DEF Skip, Instead
<1> HIDE DEF n
<1>3. x \in Infos /\ x.curr_transfer_dir = Still
  BY <1>1, NewInfo, CycleChanges
<1> HIDE DEF x
<1>4. info' \in Plans
  BY <1>1, <1>2, <1>3, OneInfo DEF EqTyped
<1>5. EqTyped' /\ Elsewhere'
  <2>1. /\ pc = "idle" /\ pc' = pc /\ moles' = moles /\ adjacent_bits' = adjacent_bits
        /\ cyclenum' = cyclenum /\ turfs' = turfs /\ planet_turfs' = planet_turfs
        /\ average_moles' = average_moles /\ work' = work /\ queue' = queue /\ index' = index
    BY DEF Skip, Call, call, world, air, zoneVars, served, loop
  <2>2. EqTyped'
    BY <1>1, <1>4, <2>1 DEF EqTyped, WaysTyped
  <2>3. QED
    BY <2>1, <2>2 DEF Elsewhere
<1>6. QED
  BY <1>5, OnlyTypes

LEMMA BeginPlans ==
  ASSUME PlanInv, NEW t \in Tiles, Begin(t)
  PROVE  PlanInv'
<1>1. EqTyped
  BY DEF PlanInv
<1>2. /\ info' \in Plans /\ info'[t] = MonstermosInfo
  <2>1. info' = Renew({t}) /\ info \in Plans
    BY <1>1 DEF Begin, EqTyped
  <2>2. QED
    BY <2>1, RenewIs
<1>3. turfs' = <<t>> /\ turfs' \in Seq(Tiles) /\ Len(turfs') = 1 /\ turfs'[1] = t
  BY DEF Begin
<1>4. EqTyped'
  BY <1>1, <1>2, <1>3 DEF EqTyped, WaysTyped, Begin, Call, world, air, served, loop
<1>5. Explored'
  <2>1. index' = 1 /\ planet_turfs' = <<>> /\ queue_cycle' = {t} /\ ~ IsPlanet(t)'
    BY <1>1 DEF Begin, Call, EqTyped, IsPlanet, world, loop
  <2>2. Unplanned(info', t)
    BY <1>2, NewInfo DEF Unplanned
  <2>3. \A k \in 1 .. 1 : k = 1 /\ ~ (k < 1)
    OBVIOUS
  <2>4. QED
    BY <1>3, <2>1, <2>2, <2>3 DEF Explored
<1>6. pc' = "explore"
  BY DEF Begin
<1>7. QED
  BY <1>4, <1>5, <1>6 DEF PlanInv, Planned, Planning, Visiting

\* What becomes of the plans when a tile's neighbours are found.
LEMMA ExploreIs ==
  ASSUME EqTyped, Explored, Explore
  PROVE  /\ index \in 1 .. Len(turfs) /\ turfs[index] \in Tiles
         /\ Found(turfs[index]) \in Seq(Tiles)
         /\ \A k \in 1 .. Len(Found(turfs[index])) : Found(turfs[index])[k] \notin queue_cycle
         /\ info' \in Plans
         /\ \A u \in Tiles :
              LET found == ToSet(Found(turfs[index]))
              IN  /\ u \in found => info'[u] = MonstermosInfo
                  /\ u \notin found => info'[u].transfer_dirs = info[u].transfer_dirs
                  /\ u \notin found =>
                       info'[u].mole_delta = IF u = turfs[index] /\ index <= TurfLimit
                                             THEN moles[u] ELSE info[u].mole_delta
<1> DEFINE tile == turfs[index]
           found == Found(tile)
           R == Renew(ToSet(found))
<1>1. index \in 1 .. Len(turfs) /\ tile \in Tiles
  <2>1. index \in Nat \ {0} /\ index <= Len(turfs) /\ turfs \in Seq(Tiles)
    BY DEF EqTyped, Explore, Exploring
  <2>2. index \in 1 .. Len(turfs)
    BY ONLY <2>1
  <2>3. QED
    BY ONLY <2>1, <2>2, ElementsAre
<1>2. info' = IF index <= TurfLimit THEN [R EXCEPT ![tile].mole_delta = moles[tile]] ELSE R
  BY DEF Explore
<1>3. tile \in queue_cycle
  BY <1>1 DEF Explored, Explore, Exploring
<1> HIDE DEF tile
<1>4. /\ found \in Seq(Tiles) /\ \A k \in 1 .. Len(found) : found[k] \notin queue_cycle
  BY <1>1, FoundIs DEF EqTyped
<1>5. /\ R \in Plans
      /\ \A u \in Tiles : R[u] = IF u \in ToSet(found) THEN MonstermosInfo ELSE info[u]
  BY RenewIs DEF EqTyped
<1> HIDE DEF found, R
<1>6. tile \notin ToSet(found)
  BY <1>3, <1>4, ElementsAre
<1>7. moles[tile] \in Int
  BY <1>1 DEF EqTyped
<1>8. CASE index <= TurfLimit
  <2> DEFINE i == R[tile]
             x == [i EXCEPT !.mole_delta = moles[tile]]
  <2>1. Instead(info', R, tile, x)
    BY <1>2, <1>8 DEF Instead
  <2>2. i \in Infos /\ i.curr_transfer_dir \in DOMAIN Neighbour[tile] \cup {Still}
    BY <1>1, <1>5, InfosAre DEF Way
  <2>3. i = info[tile]
    BY <1>1, <1>5, <1>6
  <2> HIDE DEF i
  <2>4. /\ x \in Infos /\ x.mole_delta = moles[tile] /\ x.transfer_dirs = i.transfer_dirs
        /\ x.curr_transfer_dir = i.curr_transfer_dir
    BY <1>7, <2>2, DeltaChanges
  <2> HIDE DEF x
  <2>5. /\ info' \in Plans /\ info'[tile] = x
        /\ \A u \in Tiles \ {tile} : info'[u] = R[u]
    BY <1>1, <1>5, <2>1, <2>2, <2>4, OneInfo
  <2>6. QED
    BY <1>1, <1>4, <1>5, <1>6, <1>8, <2>3, <2>4, <2>5 DEF tile, found
<1>9. CASE ~ (index <= TurfLimit)
  <2>1. info' = R
    BY <1>2, <1>9
  <2>2. QED
    BY <1>1, <1>4, <1>5, <1>9, <2>1 DEF tile, found
<1>10. QED
  BY <1>8, <1>9

LEMMA ExplorePlans ==
  ASSUME PlanInv, Explore
  PROVE  PlanInv'
<1> DEFINE tile == turfs[index]
           found == Found(tile)
           n == Len(turfs)
           F == ToSet(found)
<1>1. EqTyped /\ Explored /\ pc = "explore"
  BY DEF PlanInv, Explore, Exploring
<1>2. /\ index \in 1 .. n /\ tile \in Tiles /\ found \in Seq(Tiles) /\ info' \in Plans
      /\ \A k \in 1 .. Len(found) : found[k] \notin queue_cycle
      /\ \A u \in Tiles :
           /\ u \in F => info'[u] = MonstermosInfo
           /\ u \notin F => info'[u].transfer_dirs = info[u].transfer_dirs
           /\ u \notin F => info'[u].mole_delta = IF u = tile /\ index <= TurfLimit
                                                  THEN moles[u] ELSE info[u].mole_delta
  <2>1. \E t, f : t = tile /\ f = found
    OBVIOUS
  <2> HIDE DEF found, tile, F, n
  <2> QED
    BY <1>1, ExploreIs DEF found, tile, F, n
<1>3. /\ turfs' = turfs \o found /\ queue_cycle' = queue_cycle \cup F
      /\ planet_turfs' = IF EndsZone(tile) THEN Append(planet_turfs, tile) ELSE planet_turfs
      /\ index' = index + 1 /\ pc' = pc /\ average_moles' = average_moles /\ queue' = queue
      /\ work' = work /\ moles' = moles /\ adjacent_bits' = adjacent_bits
      /\ cyclenum' = cyclenum /\ this' = this /\ layout' = layout
  BY DEF Explore, call, world, air, served
<1>4. n \in Nat /\ turfs \in Seq(Tiles) /\ planet_turfs \in Seq(Tiles) /\ index \in Nat \ {0}
  BY <1>1 DEF EqTyped
<1> HIDE DEF tile, found, F
<1>5. EqTyped'
  <2>1. turfs' \in Seq(Tiles) /\ planet_turfs' \in Seq(Tiles) /\ index' \in Nat \ {0}
    BY <1>2, <1>3, <1>4
  <2>2. QED
    BY <1>1, <1>2, <1>3, <2>1 DEF EqTyped, WaysTyped
<1>6. /\ Len(turfs') = n + Len(found) /\ Len(found) \in Nat
      /\ \A k \in 1 .. n : turfs'[k] = turfs[k] /\ turfs[k] \in Tiles
      /\ \A k \in n + 1 .. n + Len(found) :
           turfs'[k] = found[k - n] /\ k - n \in 1 .. Len(found)
  BY <1>2, <1>3, <1>4
<1>7. /\ n >= 1 /\ ~ IsPlanet(turfs[1]) /\ index <= n + 1
      /\ \A k \in 1 .. n :
           /\ turfs[k] \in queue_cycle /\ Unplanned(info, turfs[k])
           /\ k < index /\ k <= TurfLimit => info[turfs[k]].mole_delta = moles[turfs[k]]
      /\ \/ planet_turfs = <<>>
         \/ Len(planet_turfs) <= index - 2 /\ Len(planet_turfs) <= TurfLimit - 1
  BY <1>1 DEF Explored
<1>8. \A k \in 1 .. n : turfs[k] \notin F
  BY <1>2, <1>7, ElementsAre DEF F
<1>9. \A k \in 1 .. n : turfs'[k] \in queue_cycle' /\ Unplanned(info', turfs'[k])
  BY <1>2, <1>3, <1>6, <1>7, <1>8 DEF Unplanned
<1>10. ASSUME NEW k \in n + 1 .. Len(turfs')
       PROVE  turfs'[k] \in queue_cycle' /\ Unplanned(info', turfs'[k])
  <2>1. turfs'[k] = found[k - n] /\ k - n \in 1 .. Len(found)
    BY <1>6
  <2>2. turfs'[k] \in F /\ turfs'[k] \in Tiles
    BY <1>2, <2>1, ElementsAre DEF F
  <2>3. info'[turfs'[k]] = MonstermosInfo
    BY <1>2, <2>2
  <2>4. QED
    BY <1>3, <2>2, <2>3, NewInfo DEF Unplanned
<1>11. ASSUME NEW k \in 1 .. Len(turfs'), k < index', k <= TurfLimit
       PROVE  info'[turfs'[k]].mole_delta = moles'[turfs'[k]]
  <2>1. k \in 1 .. n /\ k <= index
    BY <1>2, <1>3, <1>4, <1>6, <1>11
  <2>2. turfs'[k] = turfs[k] /\ turfs[k] \in Tiles /\ turfs[k] \notin F
    BY <1>6, <1>8, <2>1
  <2>3. CASE turfs[k] = tile /\ index <= TurfLimit
    BY <1>2, <1>3, <2>2, <2>3
  <2>4. CASE ~ (turfs[k] = tile /\ index <= TurfLimit)
    <3>1. k # index
      <4>1. SUFFICES ASSUME k = index
                     PROVE  FALSE
        OBVIOUS
      <4>2. turfs[k] = tile /\ index <= TurfLimit
        BY <1>11, <4>1 DEF tile
      <4>3. QED
        BY <2>4, <4>2
    <3>2. k < index
      BY <1>4, <2>1, <3>1
    <3>3. info[turfs[k]].mole_delta = moles[turfs[k]]
      BY <1>7, <1>11, <2>1, <3>2
    <3>4. QED
      BY <1>2, <1>3, <2>2, <2>4, <3>3
  <2>5. QED
    BY <2>3, <2>4
<1>12. \/ planet_turfs' = <<>>
       \/ Len(planet_turfs') <= index' - 2 /\ Len(planet_turfs') <= TurfLimit - 1
  <2>0. TurfLimit \in Nat
    BY EqualizeAssumption
  <2>1. CASE EndsZone(tile)
    <3>1. index # 1 /\ index <= TurfLimit
      BY <1>7, <2>1 DEF EndsZone, tile
    <3>2. Len(planet_turfs') = Len(planet_turfs) + 1 /\ Len(planet_turfs) \in Nat
      BY <1>2, <1>3, <1>4, <2>1
    <3>3. planet_turfs = <<>> => Len(planet_turfs) = 0
      OBVIOUS
    <3>4. Len(planet_turfs) <= index - 2
      BY <1>4, <1>7, <3>1, <3>2, <3>3
    <3>5. QED
      BY <1>3, <1>4, <2>0, <3>1, <3>2, <3>4
  <2>2. CASE ~ EndsZone(tile)
    <3>1. planet_turfs' = planet_turfs /\ Len(planet_turfs) \in Nat
      BY <1>3, <1>4, <2>2
    <3>2. QED
      BY <1>3, <1>4, <1>7, <2>0, <3>1
  <2>3. QED
    BY <2>1, <2>2
<1>13. /\ Len(turfs') >= 1 /\ ~ IsPlanet(turfs[1])' /\ index' <= Len(turfs') + 1
  <2>1. Len(turfs') >= 1 /\ index' <= Len(turfs') + 1 /\ 1 \in 1 .. n
    BY <1>2, <1>3, <1>4, <1>6, <1>7
  <2>2. turfs'[1] = turfs[1]
    BY <1>6, <2>1
  <2>3. QED
    BY <1>3, <1>7, <2>1, <2>2 DEF IsPlanet
<1>14. \A k \in 1 .. Len(turfs') : k \in 1 .. n \/ k \in n + 1 .. Len(turfs')
  BY <1>4, <1>6
<1>15. Explored'
  BY <1>9, <1>10, <1>11, <1>12, <1>13, <1>14 DEF Explored
<1>16. QED
  BY <1>1, <1>3, <1>5, <1>15 DEF PlanInv, Planned, Planning, Visiting

LEMMA BreachPlans ==
  ASSUME PlanInv, Breach
  PROVE  PlanInv'
<1>1. EqTyped /\ pc = "explore"
  BY DEF PlanInv, Breach, Exploring
<1>2. info' \in Plans
  <2>1. info \in Plans
    BY <1>1 DEF EqTyped
  <2>2. \E s : info' = Renew(s)
    BY DEF Breach
  <2>3. QED
    BY <2>1, <2>2, RenewIs
<1>3. /\ pc' = "breach" /\ turfs' = <<this>> /\ index' = 1 /\ this' = this
      /\ moles' = moles /\ adjacent_bits' = adjacent_bits /\ cyclenum' = cyclenum
      /\ planet_turfs' = planet_turfs /\ average_moles' = average_moles
      /\ work' = work /\ queue' = queue
  BY DEF Breach, call, world, air, served
<1>4. this \in Tiles
  BY <1>1 DEF EqTyped
<1>5. turfs' \in Seq(Tiles)
  BY <1>3, <1>4
<1>6. EqTyped' /\ Elsewhere'
  BY <1>1, <1>2, <1>3, <1>4, <1>5 DEF EqTyped, WaysTyped, Elsewhere
<1>7. QED
  BY <1>6, OnlyTypes

\* A tile of the zone gets its cycle and its difference to the average.
Divides(x, i, n, m) == x = [i EXCEPT !.last_cycle = n, !.mole_delta = m]

LEMMA DivideChanges ==
  ASSUME NEW i \in Infos, NEW n \in Nat, NEW m \in Int, NEW x, Divides(x, i, n, m)
  PROVE  /\ x \in Infos /\ x.mole_delta = m
         /\ x.transfer_dirs = i.transfer_dirs
         /\ x.curr_transfer_dir = i.curr_transfer_dir
BY FieldsAre DEF Infos, Divides

LEMMA MinOfTwo ==
  ASSUME NEW a \in Nat, NEW b \in Nat, NEW m, m = Min({a, b})
  PROVE  m \in Nat /\ m <= a /\ m <= b /\ (m = a \/ m = b)
<1>1. {a, b} \subseteq Nat /\ {a, b} # {}
  OBVIOUS
<1>2. m \in {a, b} /\ \A j \in {a, b} : m <= j
  BY <1>1, LeastOf
<1>3. QED
  BY <1>2

\* However the zone is sorted, it has no other tiles.
LEMMA SortedIs ==
  ASSUME NEW zone \in Seq(Tiles), NEW inf, NEW s \in SortedZones(zone, inf)
  PROVE  s \in Seq(Tiles) /\ ToSet(s) \subseteq ToSet(zone)
<1> DEFINE n == Len(zone)
<1>1. DOMAIN zone = 1 .. n /\ n \in Nat /\ \A i \in 1 .. n : zone[i] \in Tiles
  OBVIOUS
<1>2. \E p \in [1 .. n -> 1 .. n] : s = [i \in 1 .. n |-> zone[p[i]]]
  <2>1. PICK p \in [DOMAIN zone -> DOMAIN zone] : s = [i \in DOMAIN zone |-> zone[p[i]]]
    BY DEF SortedZones
  <2>2. QED
    BY <1>1, <2>1
<1>3. PICK p \in [1 .. n -> 1 .. n] : s = [i \in 1 .. n |-> zone[p[i]]]
  BY <1>2
<1>4. s \in Seq(Tiles) /\ Len(s) = n /\ \A i \in 1 .. n : s[i] = zone[p[i]] /\ p[i] \in 1 .. n
  BY <1>1, <1>3
<1> HIDE DEF n
<1>5. \A x : x \in ToSet(s) <=> \E i \in 1 .. n : s[i] = x
  BY <1>4, ElementsAre
<1>6. \A x : x \in ToSet(zone) <=> \E i \in 1 .. n : zone[i] = x
  BY ElementsAre DEF n
<1>7. QED
  BY <1>4, <1>5, <1>6

LEMMA DividePlans ==
  ASSUME PlanInv, Divide
  PROVE  PlanInv'
<1> DEFINE m == Min({TurfLimit, Len(turfs)})
           zone == SubSeq(turfs, 1, m)
           size == Len(zone) - Len(planet_turfs)
           inside == {t \in ToSet(zone) : ~ IsPlanet(t)}
           average == SumOf(moles, inside) \div size
           inf == [t \in Tiles |->
                     IF t \in ToSet(zone)
                     THEN [info[t] EXCEPT !.last_cycle = cyclenum,
                                          !.mole_delta = info[t].mole_delta - average]
                     ELSE info[t]]
           n == Len(turfs)
<1>1. EqTyped /\ Explored /\ pc = "explore"
  BY DEF PlanInv, Divide
<1>2. /\ turfs' = zone \/ turfs' \in SortedZones(zone, inf)
      /\ pc' \in {"fast", "choose"} /\ average_moles' = average /\ info' = inf /\ index' = 1
      /\ this' = this /\ moles' = moles /\ adjacent_bits' = adjacent_bits
      /\ cyclenum' = cyclenum /\ planet_turfs' = planet_turfs /\ work' = work /\ queue' = queue
  BY DEF Divide, call, world, air, served
<1>3. /\ n \in Nat /\ n >= 1 /\ turfs \in Seq(Tiles) /\ planet_turfs \in Seq(Tiles)
      /\ index \in Nat \ {0} /\ index <= n + 1 /\ Len(planet_turfs) \in Nat
      /\ TurfLimit \in Nat \ {0} /\ HardLimit \in Nat /\ TurfLimit <= HardLimit
      /\ \/ planet_turfs = <<>>
         \/ Len(planet_turfs) <= index - 2 /\ Len(planet_turfs) <= TurfLimit - 1
      /\ index > n \/ index - 1 > HardLimit
  <2>1. TurfLimit \in Nat \ {0} /\ HardLimit \in Nat /\ TurfLimit <= HardLimit
    BY EqualizeAssumption
  <2>2. turfs \in Seq(Tiles) /\ planet_turfs \in Seq(Tiles) /\ index \in Nat \ {0}
    BY <1>1 DEF EqTyped
  <2>3. n \in Nat /\ Len(planet_turfs) \in Nat
    BY <2>2
  <2>4. /\ n >= 1 /\ index <= n + 1
        /\ \/ planet_turfs = <<>>
           \/ Len(planet_turfs) <= index - 2 /\ Len(planet_turfs) <= TurfLimit - 1
    BY <1>1 DEF Explored
  <2>5. ~ (index <= n /\ index - 1 <= HardLimit)
    BY <1>1 DEF Divide, Exploring
  <2>6. index > n \/ index - 1 > HardLimit
    BY <2>1, <2>2, <2>3, <2>5
  <2>7. QED
    BY <2>1, <2>2, <2>3, <2>4, <2>6
<1>4. m \in Nat /\ m <= TurfLimit /\ m <= n /\ (m = TurfLimit \/ m = n) /\ m >= 1
  BY <1>3, MinOfTwo
<1> HIDE DEF m, n
<1>5. /\ zone \in Seq(Tiles) /\ Len(zone) = m
      /\ \A k \in 1 .. m : zone[k] = turfs[k] /\ turfs[k] \in Tiles
  BY <1>3, <1>4 DEF n
<1> HIDE DEF zone
<1>6. size \in Nat /\ size >= 1
  <2>1. CASE planet_turfs = <<>>
    BY <1>4, <1>5, <2>1
  <2>2. CASE Len(planet_turfs) <= index - 2 /\ Len(planet_turfs) <= TurfLimit - 1
    BY <1>3, <1>4, <1>5, <2>2
  <2>3. QED
    BY <1>3, <2>1, <2>2
<1>7. average \in Int
  <2>1. inside \in SUBSET Tiles
    BY <1>5, ElementsAre
  <2>2. IsFiniteSet(inside) /\ Integral(moles, inside)
    BY <1>1, <2>1, EqualizeAssumption, FS_Subset DEF Integral, EqTyped
  <2> HIDE DEF inside, size
  <2>3. SumAll(moles, inside) \in Int
    BY <2>2, SumType
  <2>4. SumOf(moles, inside) = SumAll(moles, inside)
    BY DEF SumOf, SumAll
  <2>5. QED
    BY <1>6, <2>3, <2>4
<1> HIDE DEF average, inside, size
<1>8. ASSUME NEW t \in ToSet(zone)
      PROVE  /\ t \in Tiles /\ info[t].mole_delta = moles[t] /\ Unplanned(info, t)
  <2>1. PICK k \in 1 .. m : zone[k] = t
    BY <1>5, ElementsAre
  <2>2. k \in 1 .. n /\ k < index /\ k <= TurfLimit /\ t = turfs[k] /\ t \in Tiles
    BY <1>3, <1>4, <1>5, <2>1
  <2>3. QED
    BY <1>1, <2>2 DEF Explored, n
<1>9. ASSUME NEW t \in Tiles
      PROVE  /\ inf[t] \in Infos /\ inf[t].transfer_dirs = info[t].transfer_dirs
             /\ inf[t].curr_transfer_dir \in DOMAIN Neighbour[t] \cup {Still}
             /\ t \in ToSet(zone) => inf[t].mole_delta = info[t].mole_delta - average
  <2> DEFINE i == info[t]
             v == i.mole_delta - average
             x == [i EXCEPT !.last_cycle = cyclenum, !.mole_delta = v]
  <2>1. inf[t] = IF t \in ToSet(zone) THEN x ELSE i
    OBVIOUS
  <2>2. i \in Infos /\ i.curr_transfer_dir \in DOMAIN Neighbour[t] \cup {Still} /\ i.mole_delta \in Int
    BY <1>1, InfosAre DEF Way, EqTyped
  <2> HIDE DEF inf
  <2>3. v \in Int /\ cyclenum \in Nat
    BY <1>1, <1>7, <2>2 DEF EqTyped
  <2> HIDE DEF i, v
  <2>6. Divides(x, i, cyclenum, v)
    BY DEF Divides
  <2> HIDE DEF x
  <2>4. /\ x \in Infos /\ x.mole_delta = v
        /\ x.transfer_dirs = i.transfer_dirs /\ x.curr_transfer_dir = i.curr_transfer_dir
    BY <2>2, <2>3, <2>6, DivideChanges
  <2>5. QED
    BY <2>1, <2>2, <2>4 DEF i, v
<1>10. inf \in Plans
  <2>1. inf = [t \in Tiles |-> inf[t]]
    OBVIOUS
  <2> HIDE DEF inf
  <2>2. inf \in [Tiles -> Infos]
    BY <1>9, <2>1
  <2>3. QED
    BY <1>9, <2>2 DEF Plans
<1> HIDE DEF inf
<1>11. turfs' \in Seq(Tiles) /\ ToSet(turfs') \subseteq ToSet(zone)
  BY <1>2, <1>5, SortedIs
<1>12. EqTyped'
  <2>1. index' \in Nat \ {0}
    BY <1>2
  <2>2. QED
    BY <1>1, <1>2, <1>7, <1>10, <1>11, <2>1 DEF EqTyped, WaysTyped
<1>13. ASSUME NEW t \in ToSet(turfs')
       PROVE  Due(info', t) = moles'[t] - average_moles'
  <2>1. t \in ToSet(zone)
    BY <1>11
  <2>2. t \in Tiles /\ info[t].mole_delta = moles[t] /\ Unplanned(info, t)
    BY <1>8, <2>1
  <2>3. /\ inf[t].transfer_dirs = info[t].transfer_dirs
        /\ inf[t].mole_delta = info[t].mole_delta - average
    BY <1>9, <2>1, <2>2
  <2>4. inf[t].mole_delta \in Int
    BY <1>9, <2>2, FieldsAre
  <2>5. SumAll(inf[t].transfer_dirs, 1 .. Still) = 0
    BY <2>2, <2>3 DEF Unplanned
  <2>6. Due(inf, t) = inf[t].mole_delta
    BY <2>4, <2>5 DEF Due
  <2>7. QED
    BY <1>2, <2>2, <2>3, <2>6
<1>14. DuesMet(info', Wanted')
  BY <1>13 DEF DuesMet, Wanted
<1>15. QED
  BY <1>2, <1>12, <1>14 DEF PlanInv, Planned, Explored, Visiting

\* A step of the plan that changes nobody's dues.
LEMMA PlanKept ==
  ASSUME EqTyped, Planned, Planning, SameDues(info', info),
         turfs' = turfs, moles' = moles, average_moles' = average_moles
  PROVE  info' \in Plans /\ DuesMet(info', Wanted')
<1>1. info' \in Plans /\ \A x \in Tiles : Due(info', x) = Due(info, x)
  BY DEF SameDues
<1>2. Wanted' = Wanted /\ DOMAIN Wanted \subseteq Tiles
  <2>1. turfs \in Seq(Tiles)
    BY DEF EqTyped
  <2>2. ToSet(turfs) \subseteq Tiles
    BY <2>1, ElementsAre
  <2>3. QED
    BY <2>2 DEF Wanted
<1>3. DuesMet(info, Wanted)
  BY DEF Planned
<1>4. DuesMet(info', Wanted)
  BY <1>1, <1>2, <1>3 DEF DuesMet
<1>5. QED
  BY <1>1, <1>2, <1>4

LEMMA GoalIs ==
  ASSUME EqTyped
  PROVE  Goal(Wanted)
<1>1. turfs \in Seq(Tiles) /\ moles \in [Tiles -> Int] /\ average_moles \in Int
  BY DEF EqTyped
<1>2. ToSet(turfs) \subseteq Tiles
  BY <1>1, ElementsAre
<1>3. QED
  BY <1>1, <1>2 DEF Goal, Wanted

LEMMA SpreadPlans ==
  ASSUME PlanInv, Spread
  PROVE  PlanInv'
<1> DEFINE tile == turfs[index]
           eligible == Open(tile, queue_cycle \ {turfs[i] : i \in 1 .. index})
           part == info[tile].mole_delta \div Len(eligible)
<1>1. EqTyped /\ Planned /\ Planning /\ pc = "fast"
  BY DEF PlanInv, Spread, Planning
<1>2. /\ tile \in Tiles /\ info \in Plans
  <2>1. index <= Len(turfs)
    BY DEF Spread
  <2>2. turfs \in Seq(Tiles) /\ index \in Nat \ {0} /\ info \in Plans
    BY <1>1 DEF EqTyped
  <2>3. QED
    BY ONLY <2>1, <2>2
<1>3. /\ info' = IF info[tile].mole_delta > 0 /\ eligible # <<>>
                 THEN FoldLeft(LAMBDA inf, d : ShareOut(inf, tile, d, part), info, eligible)
                 ELSE info
      /\ index' = index + 1 /\ pc' = pc /\ this' = this
      /\ moles' = moles /\ adjacent_bits' = adjacent_bits /\ cyclenum' = cyclenum
      /\ turfs' = turfs /\ planet_turfs' = planet_turfs /\ average_moles' = average_moles
      /\ work' = work /\ queue' = queue
  BY DEF Spread, call, world, air, served, zoneVars
<1> HIDE DEF tile
<1>4. eligible \in Seq(DOMAIN Neighbour[tile])
  BY <1>1, <1>2, OpenIs DEF EqTyped
<1>5. info[tile].mole_delta \in Int
  BY <1>2, InfosAre
<1> HIDE DEF eligible
<1>6. eligible # <<>> => Len(eligible) \in Nat /\ Len(eligible) > 0
  BY <1>4
<1>7. eligible # <<>> => part \in Int
  BY <1>5, <1>6
<1> HIDE DEF part
<1>8. SameDues(info', info)
  <2>1. CASE info[tile].mole_delta > 0 /\ eligible # <<>>
    <3>1. part \in Int
      BY <1>7, <2>1
    <3>2. SameDues(FoldLeft(LAMBDA inf, d : ShareOut(inf, tile, d, part), info, eligible), info)
      BY <1>2, <1>4, <3>1, SharesOut
    <3>3. info' = FoldLeft(LAMBDA inf, d : ShareOut(inf, tile, d, part), info, eligible)
      BY <1>3, <2>1
    <3>4. QED
      BY <3>2, <3>3
  <2>2. CASE ~ (info[tile].mole_delta > 0 /\ eligible # <<>>)
    <3>1. info' = info
      BY <1>3, <2>2
    <3>2. QED
      BY <1>2, <3>1 DEF SameDues
  <2>3. QED
    BY <2>1, <2>2
<1>9. info' \in Plans /\ DuesMet(info', Wanted')
  BY <1>1, <1>3, <1>8, PlanKept
<1>10. EqTyped'
  <2>1. index' = index + 1 /\ index \in Nat
    BY <1>1, <1>3 DEF EqTyped
  <2>2. index' \in Nat \ {0}
    BY ONLY <2>1
  <2>3. QED
    BY <1>1, <1>3, <1>9, <2>2 DEF EqTyped, WaysTyped
<1>11. QED
  BY <1>1, <1>3, <1>9, <1>10 DEF PlanInv, Planned, Explored, Visiting

LEMMA ChoosePlans ==
  ASSUME PlanInv, Choose
  PROVE  PlanInv'
<1>1. EqTyped /\ Planned /\ Planning
  BY DEF PlanInv, Choose, Planning
<1>2. /\ pc' = "slow" /\ this' = this /\ info' = info /\ index' = index
      /\ moles' = moles /\ adjacent_bits' = adjacent_bits /\ cyclenum' = cyclenum
      /\ turfs' = turfs /\ planet_turfs' = planet_turfs /\ average_moles' = average_moles
      /\ queue' = queue /\ \E over : work' = Those(turfs, info, over)
  BY DEF Choose, call, world, air, zoneVars, loop
<1>3. turfs \in Seq(Tiles) /\ info \in Plans
  BY <1>1 DEF EqTyped
<1>4. work' \in Seq(Tiles)
  BY <1>2, <1>3, ChosenIs DEF Those
<1>5. SameDues(info', info)
  BY <1>2, <1>3 DEF SameDues
<1>6. info' \in Plans /\ DuesMet(info', Wanted')
  BY <1>1, <1>2, <1>5, PlanKept
<1>7. EqTyped'
  <2>1. pc # "idle"
    BY DEF Choose
  <2>2. QED
    BY <1>1, <1>2, <1>4, <1>6, <2>1 DEF EqTyped, WaysTyped
<1>8. QED
  BY <1>2, <1>6, <1>7 DEF PlanInv, Planned, Explored, Visiting

LEMMA ServePlans ==
  ASSUME PlanInv, Serve
  PROVE  PlanInv'
<1> DEFINE one == Head(work)
           q == <<one>>
           now == Points(info, one, Still)
<1>1. EqTyped /\ Planned /\ Planning /\ pc = "slow"
  BY DEF PlanInv, Serve, Planning
<1>2. /\ pc' = "visit" /\ this' = this /\ info' = now /\ index' = 1 /\ queue' = q
      /\ moles' = moles /\ adjacent_bits' = adjacent_bits /\ cyclenum' = cyclenum
      /\ turfs' = turfs /\ planet_turfs' = planet_turfs /\ average_moles' = average_moles
      /\ work' = work /\ slow_cycle' = {one} /\ work # <<>>
  BY DEF Serve, call, world, air, zoneVars
<1>3. one \in Tiles /\ info \in Plans
  BY <1>1, <1>2 DEF EqTyped
<1> HIDE DEF one
<1>4. /\ now \in Plans /\ Due(now, one) = Due(info, one)
      /\ Amount(now, one) = 0 /\ Way(now, one) = Still
      /\ \A u \in Tiles \ {one} : now[u] = info[u]
  BY <1>3, StillIs, PointsIs
<1> HIDE DEF now
<1>5. q \in Seq(Tiles) /\ Len(q) = 1 /\ q[1] = one /\ ToSet(q) = {one}
  <2>1. q \in Seq(Tiles) /\ Len(q) = 1 /\ q[1] = one
    BY <1>3
  <2> HIDE DEF q
  <2>2. \A x : x \in ToSet(q) <=> \E i \in 1 .. 1 : q[i] = x
    BY <2>1, ElementsAre
  <2>3. QED
    BY <2>1, <2>2
<1> HIDE DEF q
<1>6. EqTyped'
  BY <1>1, <1>2, <1>4, <1>5 DEF EqTyped, WaysTyped
<1>7. QueueOf(now, q, one)
  <2>1. Once(q)
    BY <1>5 DEF Once
  <2>2. \A i \in 2 .. 1 : FALSE
    OBVIOUS
  <2>3. LeadsBack(now, q)
    BY <1>5, <2>2 DEF LeadsBack
  <2>4. QED
    BY <1>4, <1>5, <2>1, <2>3 DEF QueueOf
<1>8. Passing(now, ToSet(q)) = 0
  <2> DEFINE f == Amounts(now)
  <2>1. {one} \in SUBSET Tiles
    BY <1>3
  <2>2. IsFiniteSet({one}) /\ \A x \in {one} : f[x] = 0
    BY <1>3, <1>4, <2>1, PassingIs
  <2> HIDE DEF f
  <2>3. SumAll(f, {one}) = 0
    BY <2>2, SumZero
  <2>4. QED
    BY <1>5, <2>3 DEF Passing, f
<1>9. ASSUME NEW t \in DOMAIN Wanted
      PROVE  IF t = one THEN Due(now, t) - Passing(now, ToSet(q)) = Wanted[t]
             ELSE Due(now, t) + (IF t \in ToSet(q) THEN Amount(now, t) ELSE 0) = Wanted[t]
  <2>1. t \in Tiles /\ Wanted[t] \in Int
    BY <1>1, GoalIs DEF Goal
  <2>2. Due(info, t) = Wanted[t]
    BY <1>1 DEF Planned, DuesMet
  <2>3. Due(now, t) = Due(info, t)
    <3>1. CASE t = one
      BY <1>4, <3>1
    <3>2. CASE t # one
      BY <1>4, <2>1, <3>2 DEF Due
    <3>3. QED
      BY <3>1, <3>2
  <2>4. CASE t = one
    BY <1>8, <2>1, <2>2, <2>3, <2>4
  <2>5. CASE t # one
    BY <1>5, <2>1, <2>2, <2>3, <2>5
  <2>6. QED
    BY <2>4, <2>5
<1>10. SettlesAs(now, q, one, Wanted)
  BY <1>9 DEF SettlesAs
<1>11. Visiting'
  <2>1. Wanted' = Wanted
    BY <1>2 DEF Wanted
  <2>2. work' # <<>> /\ Head(work') = one
    BY <1>2 DEF one
  <2>3. QED
    BY <1>2, <1>5, <1>7, <1>10, <2>1, <2>2 DEF Visiting
<1>12. QED
  BY <1>2, <1>6, <1>11 DEF PlanInv, Planned, Planning, Explored

LEMMA VisitPlans ==
  ASSUME PlanInv, Visit
  PROVE  PlanInv'
<1> DEFINE tile == queue[index]
           beyond == (queue_cycle \ slow_cycle) \ layout.planet
           ways == Open(tile, beyond)
           first == [inf |-> info, queue |-> queue]
           asked == FoldLeft(LAMBDA st, d : Ask(st, tile, d), first, ways)
           one == Head(work)
           n == Len(ways)
<1>1. EqTyped /\ Visiting /\ pc = "visit" /\ index <= Len(queue)
  BY DEF PlanInv, Visit
<1>2. /\ info' = asked.inf /\ queue' = asked.queue
      /\ slow_cycle' = slow_cycle \cup ToSet(asked.queue) /\ index' = index + 1
      /\ pc' = pc /\ this' = this
      /\ moles' = moles /\ adjacent_bits' = adjacent_bits /\ cyclenum' = cyclenum
      /\ turfs' = turfs /\ planet_turfs' = planet_turfs /\ average_moles' = average_moles
      /\ work' = work
  BY DEF Visit, call, world, air, zoneVars
<1>3. /\ work # <<>> /\ QueueOf(info, queue, one) /\ SettlesAs(info, queue, one, Wanted)
      /\ ToSet(queue) \subseteq slow_cycle
  BY <1>1 DEF Visiting
<1>4. /\ info \in Plans /\ queue \in Seq(Tiles) /\ index \in Nat \ {0} /\ work \in Seq(Tiles)
      /\ WaysTyped
  BY <1>1 DEF EqTyped
<1>5. /\ index \in 1 .. Len(queue) /\ tile \in Tiles /\ one \in Tiles /\ first \in Asks
      /\ first.inf = info /\ first.queue = queue
  BY <1>1, <1>3, <1>4 DEF Asks
<1>6. \A u \in beyond : u \notin ToSet(queue)
  BY <1>3
<1> HIDE DEF beyond, first, tile
<1>7. /\ ways \in Seq(DOMAIN Neighbour[tile]) /\ Once(ways)
      /\ \A k \in 1 .. n : Neighbour[tile][ways[k]] \in beyond
  BY <1>4, <1>5, OpenIs
<1> HIDE DEF ways
<1>8. PICK r : AskRun(r, first, tile, ways) /\ asked = r[n]
  BY <1>5, <1>7, AskRuns
<1> HIDE DEF asked, one, n
<1>9. AskedTo(n, asked, queue, one, Wanted, tile, ways)
  <2>1. Goal(Wanted)
    BY <1>1, GoalIs
  <2>2. tile = queue[index] /\ one = Head(work) /\ n = Len(ways)
    BY DEF tile, one, n
  <2>3. \A i \in 1 .. n : Neighbour[tile][ways[i]] \notin ToSet(queue)
    BY <1>6, <1>7
  <2>4. AskedTo(n, r[n], queue, one, Wanted, tile, ways)
    <3>1. \E g, q, w, k : g = Wanted /\ q = queue /\ w = info /\ k = index
      OBVIOUS
    <3>2. PICK g, q, w, k : g = Wanted /\ q = queue /\ w = info /\ k = index
      BY <3>1
    <3>3. /\ Goal(g) /\ QueueOf(w, q, one) /\ SettlesAs(w, q, one, g) /\ one = Head(work)
          /\ k \in 1 .. Len(q) /\ tile = q[k] /\ ways \in Seq(DOMAIN Neighbour[tile]) /\ Once(ways)
          /\ \A i \in 1 .. Len(ways) : Neighbour[tile][ways[i]] \notin ToSet(q)
          /\ first.inf = w /\ first.queue = q /\ AskRun(r, first, tile, ways) /\ n = Len(ways)
      BY <1>3, <1>5, <1>7, <1>8, <2>1, <2>2, <2>3, <3>2
    <3>4. AskedTo(n, r[n], q, one, g, tile, ways)
      BY ONLY <3>3, AsksAround
    <3>5. QED
      BY <3>2, <3>4
  <2>5. QED
    BY <1>8, <2>4
<1>10. QueueOf(info', queue', one) /\ SettlesAs(info', queue', one, Wanted)
  BY <1>2, <1>9 DEF AskedTo
<1>11. EqTyped'
  <2>1. info' \in Plans /\ queue' \in Seq(Tiles)
    BY <1>10 DEF QueueOf
  <2>2. index' \in Nat \ {0}
    BY <1>2, <1>4
  <2>3. QED
    BY <1>1, <1>2, <2>1, <2>2 DEF EqTyped, WaysTyped
<1>12. Visiting'
  <2>1. Wanted' = Wanted
    BY <1>2 DEF Wanted
  <2>2. work' # <<>> /\ Head(work') = one
    BY <1>2, <1>3 DEF one
  <2>3. ToSet(queue') \subseteq slow_cycle'
    BY <1>2
  <2>4. QED
    BY <1>10, <2>1, <2>2, <2>3 DEF Visiting
<1>13. QED
  BY <1>1, <1>2, <1>11, <1>12 DEF PlanInv, Planned, Planning, Explored

LEMMA CarryBackPlans ==
  ASSUME PlanInv, CarryBack
  PROVE  PlanInv'
<1> DEFINE one == Head(work)
<1>1. EqTyped /\ Visiting /\ pc = "visit"
  BY DEF PlanInv, CarryBack
<1>2. /\ info' = FoldRight(LAMBDA t, inf : Carry(inf, t), queue, info)
      /\ work' = Tail(work) /\ pc' = "slow" /\ this' = this /\ queue' = queue /\ index' = index
      /\ moles' = moles /\ adjacent_bits' = adjacent_bits /\ cyclenum' = cyclenum
      /\ turfs' = turfs /\ planet_turfs' = planet_turfs /\ average_moles' = average_moles
  BY DEF CarryBack, call, world, air, zoneVars, loop
<1>3. /\ work # <<>> /\ QueueOf(info, queue, one) /\ SettlesAs(info, queue, one, Wanted)
  BY <1>1 DEF Visiting
<1>4. info \in Plans /\ queue \in Seq(Tiles) /\ work \in Seq(Tiles)
  BY <1>1 DEF EqTyped
<1>5. work' \in Seq(Tiles)
  <2>1. work' = Tail(work) /\ work # <<>>
    BY <1>2, <1>3
  <2>2. QED
    BY ONLY <1>4, <2>1
<1>6. PICK r : CarryRun(r, info, queue) /\ info' = r[0]
  BY <1>2, <1>4, CarryRuns
<1> HIDE DEF one
<1>7. info' \in Plans /\ \A t \in DOMAIN Wanted : Due(info', t) = Wanted[t]
  BY <1>1, <1>3, <1>6, GoalIs, CarriesBack
<1>8. EqTyped'
  BY <1>1, <1>2, <1>5, <1>7 DEF EqTyped, WaysTyped
<1>9. Wanted' = Wanted
  BY <1>2 DEF Wanted
<1>10. DuesMet(info', Wanted')
  BY <1>7, <1>9 DEF DuesMet
<1>11. QED
  BY <1>2, <1>8, <1>10 DEF PlanInv, Planned, Explored, Visiting

LEMMA PlanPlanetPlans ==
  ASSUME PlanInv, PlanPlanet
  PROVE  PlanInv'
<1>1. EqTyped /\ Planned /\ Planning
  BY DEF PlanInv, PlanPlanet, Planning
<1>2. /\ pc' \in {"finalize", "planet"} /\ this' = this /\ index' = 1 /\ queue' = planet_turfs
      /\ info' = [t \in Tiles |->
                    IF t \in ToSet(planet_turfs)
                    THEN [info[t] EXCEPT !.curr_transfer_dir = Still] ELSE info[t]]
      /\ moles' = moles /\ adjacent_bits' = adjacent_bits /\ cyclenum' = cyclenum
      /\ turfs' = turfs /\ planet_turfs' = planet_turfs /\ average_moles' = average_moles
      /\ work' = work
  BY DEF PlanPlanet, call, world, air, zoneVars
<1>3. info \in Plans
  BY <1>1 DEF EqTyped
<1>4. ASSUME NEW t \in Tiles
      PROVE  /\ info'[t] \in Infos /\ info'[t].mole_delta = info[t].mole_delta
             /\ info'[t].transfer_dirs = info[t].transfer_dirs
             /\ info'[t].curr_transfer_dir \in DOMAIN Neighbour[t] \cup {Still}
  <2> DEFINE i == info[t]
             x == [i EXCEPT !.curr_transfer_dir = Still]
  <2>1. i \in Infos /\ i.curr_transfer_dir \in DOMAIN Neighbour[t] \cup {Still}
    BY <1>3, InfosAre DEF Way
  <2>2. info'[t] = x \/ info'[t] = i
    BY <1>2
  <2> HIDE DEF i
  <2>3. Still \in 1 .. Still
    BY StillIs
  <2>4. /\ x \in Infos /\ x.curr_transfer_dir = Still
        /\ x.transfer_dirs = i.transfer_dirs /\ x.mole_delta = i.mole_delta
    BY <2>1, <2>3, WayChanges
  <2> HIDE DEF x
  <2>5. QED
    BY <2>1, <2>2, <2>4 DEF i
<1>5. info' \in Plans
  <2>1. info' = [t \in Tiles |-> info'[t]]
    BY <1>2
  <2>2. info' \in [Tiles -> Infos]
    BY <1>4, <2>1
  <2>3. QED
    BY <1>4, <2>2 DEF Plans
<1>6. SameDues(info', info)
  <2>1. ASSUME NEW u \in Tiles
        PROVE  Due(info', u) = Due(info, u)
    <3>1. /\ info'[u].mole_delta = info[u].mole_delta
          /\ info'[u].transfer_dirs = info[u].transfer_dirs
      BY <1>4
    <3>2. QED
      BY ONLY <3>1 DEF Due
  <2>2. QED
    BY <1>5, <2>1 DEF SameDues
<1>7. info' \in Plans /\ DuesMet(info', Wanted')
  BY <1>1, <1>2, <1>6, PlanKept
<1>8. EqTyped'
  <2>1. pc # "idle" /\ index' \in Nat \ {0}
    BY <1>2 DEF PlanPlanet
  <2>2. QED
    BY <1>1, <1>2, <1>7, <2>1 DEF EqTyped, WaysTyped
<1>9. QED
  BY <1>2, <1>7, <1>8 DEF PlanInv, Planned, Explored, Visiting

LEMMA CloseIs ==
  ASSUME WaysTyped, NEW t, NEW dirs, Close(t, dirs)
  PROVE  WaysTyped'
<1>1. \A u \in Tiles : adjacent_bits'[u] \subseteq adjacent_bits[u]
  BY DEF Close
<1>2. QED
  BY <1>1 DEF WaysTyped

LEMMA FindPlanetPlans ==
  ASSUME PlanInv, FindPlanet
  PROVE  PlanInv'
<1> DEFINE tile == queue[index]
           asked == Open(tile, (queue_cycle \ slow_cycle) \ layout.planet)
<1>1. EqTyped /\ Planned /\ Planning /\ pc = "planet"
  BY DEF PlanInv, FindPlanet, Planning
<1>2. info \in Plans /\ WaysTyped /\ queue \in Seq(Tiles) /\ index \in Nat \ {0} /\ tile \in Tiles
  BY <1>1 DEF EqTyped, FindPlanet
<1>3. PICK closed \in SUBSET Lockable(tile, asked) :
        /\ Close(tile, closed)
        /\ queue' = queue \o Beyond(tile, Without(asked, closed))
        /\ info' = SetDirs(tile, Without(asked, closed))
  BY DEF FindPlanet
<1>4. /\ index' = index + 1 /\ pc' = pc /\ this' = this /\ moles' = moles /\ cyclenum' = cyclenum
      /\ turfs' = turfs /\ planet_turfs' = planet_turfs /\ average_moles' = average_moles
      /\ work' = work
  BY DEF FindPlanet, call, world, zoneVars
<1> HIDE DEF tile
<1>5. asked \in Seq(DOMAIN Neighbour[tile])
  BY <1>2, OpenIs
<1> HIDE DEF asked
<1>6. Without(asked, closed) \in Seq(DOMAIN Neighbour[tile])
  BY <1>5, WithoutIs
<1>7. Beyond(tile, Without(asked, closed)) \in Seq(Tiles)
  BY <1>2, <1>6, BeyondIs
<1>8. SameDues(info', info)
  BY <1>2, <1>3, <1>6, SetDirsIs
<1>9. info' \in Plans /\ DuesMet(info', Wanted')
  BY <1>1, <1>4, <1>8, PlanKept
<1>10. WaysTyped'
  BY <1>2, <1>3, CloseIs
<1>11. EqTyped'
  <2>1. queue' \in Seq(Tiles)
    BY <1>2, <1>3, <1>7
  <2>2. index' \in Nat \ {0}
    BY <1>2, <1>4
  <2>3. QED
    BY <1>1, <1>4, <1>9, <1>10, <2>1, <2>2 DEF EqTyped
<1>12. QED
  BY <1>1, <1>4, <1>9, <1>11 DEF PlanInv, Planned, Explored, Visiting

LEMMA FlowToPlanetPlans ==
  ASSUME PlanInv, FlowToPlanet
  PROVE  PlanInv'
<1> DEFINE target == PlanetMoles - average_moles
<1>1. EqTyped /\ Planned /\ Planning
  BY DEF PlanInv, FlowToPlanet, Planning
<1>2. /\ info' = FoldRight(LAMBDA t, inf : Flow(inf, t, target), queue, info)
      /\ index' = 1 /\ pc' = "finalize" /\ this' = this /\ moles' = moles /\ cyclenum' = cyclenum
      /\ turfs' = turfs /\ planet_turfs' = planet_turfs /\ average_moles' = average_moles
      /\ work' = work /\ queue' = queue /\ adjacent_bits' = adjacent_bits
  BY DEF FlowToPlanet, call, world, air, zoneVars, served
<1>3. target \in Int /\ info \in Plans /\ queue \in Seq(Tiles)
  BY <1>1, EqualizeAssumption DEF EqTyped
<1> HIDE DEF target
<1>4. SameDues(info', info)
  BY <1>2, <1>3, AllFlow
<1>5. info' \in Plans /\ DuesMet(info', Wanted')
  BY <1>1, <1>2, <1>4, PlanKept
<1>6. EqTyped'
  <2>1. pc # "idle"
    BY DEF FlowToPlanet
  <2>2. /\ index' = 1 /\ pc' = "finalize" /\ this' = this /\ moles' = moles /\ cyclenum' = cyclenum
        /\ turfs' = turfs /\ planet_turfs' = planet_turfs /\ average_moles' = average_moles
        /\ work' = work /\ queue' = queue /\ adjacent_bits' = adjacent_bits
    BY <1>2
  <2>3. QED
    BY ONLY <1>1, <1>5, <2>1, <2>2 DEF EqTyped, WaysTyped
<1>7. QED
  BY <1>2, <1>5, <1>6 DEF PlanInv, Planned, Explored, Visiting

LEMMA FinalizePlans ==
  ASSUME PlanInv, Finalize
  PROVE  PlanInv'
<1> DEFINE tile == turfs[index]
           n == Cardinality(Tiles)
           start == [moles |-> moles, info |-> info]
           done == finalize_eq[n][tile][start]
<1>1. EqTyped /\ pc = "finalize"
  BY DEF PlanInv, Finalize
<1>2. /\ moles' = done.moles /\ info' = done.info /\ index' = index + 1 /\ pc' = pc /\ this' = this
      /\ cyclenum' = cyclenum /\ adjacent_bits' = adjacent_bits
      /\ turfs' = turfs /\ planet_turfs' = planet_turfs /\ average_moles' = average_moles
      /\ work' = work /\ queue' = queue
  BY DEF Finalize, call, world, zoneVars, served
<1>3. index \in Nat \ {0} /\ WaysTyped /\ turfs \in Seq(Tiles) /\ index <= Len(turfs)
  BY <1>1 DEF EqTyped, Finalize
<1>4. n \in Nat /\ tile \in Tiles /\ start \in States
  BY <1>1, <1>3, EqualizeAssumption, FS_CardinalityType DEF EqTyped, States
<1> HIDE DEF n, tile, start
<1>5. finalize_eq[n] \in Again
  BY <1>3, <1>4, finalize_eqIs
<1>6. done \in States
  BY <1>4, <1>5 DEF Again
<1> HIDE DEF done
<1>7. moles' \in [Tiles -> Int] /\ info' \in Plans
  BY <1>2, <1>6 DEF States
<1>8. index' \in Nat \ {0} /\ index' # 1
  BY <1>2, <1>3
<1>9. EqTyped'
  BY <1>1, <1>2, <1>7, <1>8 DEF EqTyped, WaysTyped
<1>10. QED
  BY <1>1, <1>2, <1>8, <1>9 DEF PlanInv, Planned, Planning, Explored, Visiting

LEMMA WakePlans ==
  ASSUME PlanInv, Wake
  PROVE  PlanInv'
<1>1. EqTyped
  BY DEF PlanInv
<1>2. /\ Return /\ moles' = moles /\ adjacent_bits' = adjacent_bits /\ info' = info
      /\ cyclenum' = cyclenum
  BY DEF Wake
<1>3. QED
  BY <1>1, <1>2, ReturnTypes DEF EqTyped, WaysTyped

\* What a tile that is explored stands at.
Stands(x, i, n, d) == x = [i EXCEPT !.last_cycle = n, !.curr_transfer_dir = d]

LEMMA StandsIs ==
  ASSUME NEW i \in Infos, NEW n \in Nat, NEW d \in 1 .. Still, NEW x,
         Stands(x, i, n, d)
  PROVE  x \in Infos /\ x.curr_transfer_dir = d
BY FieldsAre DEF Infos, Stands

LEMMA RushPlans ==
  ASSUME PlanInv, Rush
  PROVE  PlanInv'
<1> DEFINE tile == turfs[index]
           beyond == Tiles \ (queue_cycle \cup layout.wall)
           stops == IsPlanet(tile) \/ IsSpace(tile) \/ index - 1 > HardLimit
           asked == IF stops THEN <<>> ELSE Open(tile, beyond)
<1>1. EqTyped /\ pc = "breach"
  BY DEF PlanInv, Rush
<1>2. /\ info \in Plans /\ WaysTyped /\ turfs \in Seq(Tiles) /\ index \in Nat \ {0}
      /\ queue \in Seq(Tiles) /\ cyclenum \in Nat /\ tile \in Tiles
  BY <1>1 DEF EqTyped, Rush
<1>3. PICK closed \in SUBSET Lockable(tile, asked) :
        /\ Close(tile, closed)
        /\ turfs' = turfs \o Beyond(tile, Without(asked, closed))
        /\ info' = [Renew(ToSet(Beyond(tile, Without(asked, closed))))
                      EXCEPT ![tile].last_cycle = cyclenum, ![tile].curr_transfer_dir = Still]
  BY DEF Rush
<1>4. /\ queue' = queue \/ queue' = Append(queue, tile)
      /\ index' = index + 1 /\ pc' = pc /\ this' = this /\ moles' = moles /\ cyclenum' = cyclenum
      /\ planet_turfs' = planet_turfs /\ average_moles' = average_moles /\ work' = work
  BY DEF Rush, call, world, served
<1> HIDE DEF tile, beyond, stops
<1>5. asked \in Seq(DOMAIN Neighbour[tile])
  <2>1. Open(tile, beyond) \in Seq(DOMAIN Neighbour[tile])
    BY <1>2, OpenIs
  <2>2. <<>> \in Seq(DOMAIN Neighbour[tile])
    OBVIOUS
  <2>3. QED
    BY <2>1, <2>2
<1> HIDE DEF asked
<1>6. Without(asked, closed) \in Seq(DOMAIN Neighbour[tile])
  BY <1>5, WithoutIs
<1>7. Beyond(tile, Without(asked, closed)) \in Seq(Tiles)
  BY <1>2, <1>6, BeyondIs
<1>8. info' \in Plans
  <2> DEFINE R == Renew(ToSet(Beyond(tile, Without(asked, closed))))
             i == R[tile]
             x == [i EXCEPT !.last_cycle = cyclenum, !.curr_transfer_dir = Still]
  <2>1. R \in Plans
    BY <1>2, RenewIs
  <2>2. info' = [R EXCEPT ![tile].last_cycle = cyclenum, ![tile].curr_transfer_dir = Still]
    BY <1>3
  <2> HIDE DEF R
  <2>3. Instead(info', R, tile, x)
    BY <1>2, <2>1, <2>2 DEF Instead, Plans
  <2>4. i \in Infos
    BY <1>2, <2>1, InfosAre
  <2> HIDE DEF i
  <2>5. Still \in 1 .. Still /\ cyclenum \in Nat
    BY <1>2, StillIs
  <2>6. Stands(x, i, cyclenum, Still)
    BY DEF Stands
  <2> HIDE DEF x
  <2>7. x \in Infos /\ x.curr_transfer_dir = Still
    BY <2>4, <2>5, <2>6, StandsIs
  <2>8. QED
    BY <1>2, <2>1, <2>3, <2>7, OneInfo
<1>9. WaysTyped'
  BY <1>2, <1>3, CloseIs
<1>10. EqTyped' /\ Elsewhere'
  <2>1. turfs' \in Seq(Tiles)
    BY <1>2, <1>3, <1>7
  <2>2. queue' \in Seq(Tiles) /\ index' \in Nat \ {0}
    BY <1>2, <1>4
  <2>3. QED
    BY <1>1, <1>4, <1>8, <1>9, <2>1, <2>2 DEF EqTyped, Elsewhere
<1>11. QED
  BY <1>10, OnlyTypes

LEMMA RushedToPlanetPlans ==
  ASSUME PlanInv, RushedToPlanet
  PROVE  PlanInv'
<1>1. EqTyped
  BY DEF PlanInv
<1>2. /\ Return /\ moles' = moles /\ adjacent_bits' = adjacent_bits /\ info' = info
      /\ cyclenum' = cyclenum
  BY DEF RushedToPlanet, world
<1>3. QED
  BY <1>1, <1>2, ReturnTypes DEF EqTyped, WaysTyped

LEMMA RushedPlans ==
  ASSUME PlanInv, Rushed
  PROVE  PlanInv'
<1>1. EqTyped /\ pc = "breach"
  BY DEF PlanInv, Rushed
<1>2. /\ pc' = "drain" /\ this' = this /\ index' = 1 /\ moles' = moles /\ info' = info
      /\ adjacent_bits' = adjacent_bits /\ cyclenum' = cyclenum
      /\ turfs' = turfs /\ planet_turfs' = planet_turfs /\ average_moles' = average_moles
      /\ work' = work /\ queue' = queue
  BY DEF Rushed, call, world, air, zoneVars
<1>3. EqTyped' /\ Elsewhere'
  BY <1>1, <1>2 DEF EqTyped, WaysTyped, Elsewhere
<1>4. QED
  BY <1>3, OnlyTypes

LEMMA FindSpacePlans ==
  ASSUME PlanInv, FindSpace
  PROVE  PlanInv'
<1> DEFINE tile == queue[index]
           dirs == Open(tile, (queue_cycle \ slow_cycle) \ layout.space)
<1>1. EqTyped /\ pc = "drain"
  BY DEF PlanInv, FindSpace
<1>2. info \in Plans /\ WaysTyped /\ queue \in Seq(Tiles) /\ index \in Nat \ {0} /\ tile \in Tiles
  BY <1>1 DEF EqTyped, FindSpace
<1>3. /\ queue' = queue \o Beyond(tile, dirs) /\ info' = SetDirs(tile, dirs)
      /\ index' = index + 1 /\ pc' = pc /\ this' = this /\ moles' = moles /\ cyclenum' = cyclenum
      /\ turfs' = turfs /\ planet_turfs' = planet_turfs /\ average_moles' = average_moles
      /\ work' = work /\ adjacent_bits' = adjacent_bits
  BY DEF FindSpace, call, world, air, zoneVars
<1> HIDE DEF tile
<1>4. dirs \in Seq(DOMAIN Neighbour[tile])
  BY <1>2, OpenIs
<1> HIDE DEF dirs
<1>5. Beyond(tile, dirs) \in Seq(Tiles)
  BY <1>2, <1>4, BeyondIs
<1>6. info' \in Plans
  BY <1>2, <1>3, <1>4, SetDirsIs DEF SameDues
<1>7. queue' \in Seq(Tiles) /\ index' \in Nat \ {0}
  BY <1>2, <1>3, <1>5
<1>8. EqTyped' /\ Elsewhere'
  BY <1>1, <1>3, <1>6, <1>7 DEF EqTyped, WaysTyped, Elsewhere
<1>9. QED
  BY <1>8, OnlyTypes

LEMMA DrainPlans ==
  ASSUME PlanInv, Drain
  PROVE  PlanInv'
<1>1. EqTyped
  BY DEF PlanInv
<1>2. /\ Return /\ adjacent_bits' = adjacent_bits /\ cyclenum' = cyclenum
      /\ info' = FoldRight(LAMBDA t, inf : Blow(inf, t), queue, info)
  BY DEF Drain, world
<1>3. moles \in [Tiles -> Int] /\ info \in Plans /\ queue \in Seq(Tiles) /\ WaysTyped
  BY <1>1 DEF EqTyped
<1>4. info' \in Plans
  BY <1>2, <1>3, AllBlow
<1>5. moles' \in [Tiles -> Int]
  <2>1. moles' = [t \in Tiles |->
                    IF t \in Drained /\ info[t].curr_transfer_dir # Still THEN 0 ELSE moles[t]]
    BY DEF Drain
  <2>2. QED
    BY ONLY <1>3, <2>1
<1>6. WaysTyped'
  BY <1>2, <1>3 DEF WaysTyped
<1>7. Return /\ cyclenum' = cyclenum
  BY <1>2
<1>8. QED
  BY <1>4, <1>5, <1>6, <1>7, ReturnTypes

LEMMA NextCyclePlans ==
  ASSUME PlanInv, NextCycle
  PROVE  PlanInv'
<1>1. EqTyped /\ pc = "idle"
  BY DEF PlanInv, NextCycle
<1>2. /\ pc' = pc /\ this' = this /\ index' = index /\ moles' = moles /\ info' = info
      /\ adjacent_bits' = adjacent_bits /\ cyclenum' = cyclenum + 1
      /\ turfs' = turfs /\ planet_turfs' = planet_turfs /\ average_moles' = average_moles
      /\ work' = work /\ queue' = queue
  BY DEF NextCycle, air, zoneVars, served, loop
<1>3. EqTyped' /\ Elsewhere'
  BY <1>1, <1>2 DEF EqTyped, WaysTyped, Elsewhere
<1>4. QED
  BY <1>3, OnlyTypes

LEMMA RefreshPlans ==
  ASSUME PlanInv, Refresh
  PROVE  PlanInv'
<1>1. EqTyped /\ pc = "idle"
  BY DEF PlanInv, Refresh
<1>2. /\ pc' = pc /\ this' = this /\ index' = index /\ moles' = moles /\ info' = Renew(Tiles)
      /\ cyclenum' = cyclenum /\ adjacent_bits' = [t \in Tiles |-> DOMAIN Neighbour[t]]
      /\ turfs' = turfs /\ planet_turfs' = planet_turfs /\ average_moles' = average_moles
      /\ work' = work /\ queue' = queue
  BY DEF Refresh, call, world, zoneVars, served, loop
<1>3. info' \in Plans /\ WaysTyped'
  BY <1>1, <1>2, RenewIs DEF EqTyped, WaysTyped
<1>4. EqTyped' /\ Elsewhere'
  BY <1>1, <1>2, <1>3 DEF EqTyped, Elsewhere
<1>5. QED
  BY <1>4, OnlyTypes

LEMMA StutterPlans ==
  ASSUME PlanInv, UNCHANGED vars
  PROVE  PlanInv'
BY DEF PlanInv, EqTyped, WaysTyped, Explored, Planned, Planning, DuesMet, Wanted, Visiting,
       Unplanned, IsPlanet, vars, call, world, air, zoneVars, served, loop

LEMMA PlansStay == PlanInv /\ [Next]_vars => PlanInv'
<1>1. ASSUME PlanInv, Next
      PROVE  PlanInv'
  BY ONLY <1>1, SkipPlans, BeginPlans, ExplorePlans, BreachPlans, DividePlans, SpreadPlans,
     ChoosePlans, ServePlans, VisitPlans, CarryBackPlans, PlanPlanetPlans, FindPlanetPlans,
     FlowToPlanetPlans, FinalizePlans, WakePlans, RushPlans, RushedToPlanetPlans,
     RushedPlans, FindSpacePlans, DrainPlans, NextCyclePlans, RefreshPlans DEF Next
<1>2. QED
  BY <1>1, StutterPlans

(* What the plan says flows out of a tile is what the tile has more than its  *)
(* share, through every pass of equalize_pressure_in_zone that plans, on any  *)
(* map.                                                                       *)
THEOREM PlansAddUp == Spec => []PlanAddsUp
<1>1. Init => PlanInv
  BY InitPlans
<1>2. PlanInv /\ [Next]_vars => PlanInv'
  BY PlansStay
<1>3. PlanInv => PlanAddsUp
  <2>1. SUFFICES ASSUME PlanInv, pc \in {"fast", "choose", "slow"} \/ (pc = "finalize" /\ index = 1),
                        NEW t \in ToSet(turfs)
                 PROVE  info[t].mole_delta = moles[t] - average_moles
                                               - SumOf(info[t].transfer_dirs, 1 .. Still)
    BY DEF PlanAddsUp
  <2>2. EqTyped /\ DuesMet(info, Wanted)
    BY <2>1 DEF PlanInv, Planned, Planning
  <2>3. turfs \in Seq(Tiles) /\ info \in Plans /\ moles \in [Tiles -> Int] /\ average_moles \in Int
    BY <2>2 DEF EqTyped
  <2>4. t \in Tiles
    BY <2>3, ElementsAre
  <2>5. Due(info, t) = moles[t] - average_moles
    BY <2>2 DEF DuesMet, Wanted
  <2>6. info[t].mole_delta \in Int /\ SumAll(info[t].transfer_dirs, 1 .. Still) \in Int
    BY <2>3, <2>4, InfosAre
  <2>7. SumOf(info[t].transfer_dirs, 1 .. Still) = SumAll(info[t].transfer_dirs, 1 .. Still)
    BY DEF SumOf, SumAll
  <2>8. moles[t] \in Int
    BY <2>3, <2>4
  <2>9. QED
    BY <2>3, <2>5, <2>6, <2>7, <2>8 DEF Due
<1>4. QED
  BY <1>1, <1>2, <1>3, PTL DEF Spec

-----------------------------------------------------------------------------
(***************************************************************************)
(* A zone that is open to space.  Its turfs are those that can be reached, *)
(* each over an open way from one before it; then all of them are reached  *)
(* from space.                                                             *)
(***************************************************************************)
\* Space is empty, ways are open at both ends, and no queue is left from before.
Standing ==
  /\ layout \in Layouts
  /\ \A t \in Tiles : IsSpace(t) => moles[t] = 0
  /\ \A t \in Tiles : \A d \in adjacent_bits[t] :
       opp_dir_index[d] \in adjacent_bits[Neighbour[t][d]]
  /\ pc \in {"idle", "explore"} => queue = <<>>

OpensTo(t, u) == \E d \in adjacent_bits[t] : Neighbour[t][d] = u

Spreads(k) ==
  HasAir(turfs[k]) /\ \E j \in 1 .. k - 1 : ~ IsSpace(turfs[j]) /\ OpensTo(turfs[j], turfs[k])

Explores(t) == \A u \in Tiles : HasAir(u) /\ OpensTo(t, u) => u \in ToSet(turfs)

\* The first turfs, up to done, are explored.
Rushing(done) ==
  /\ Len(turfs) >= 1 /\ turfs[1] = this /\ queue_cycle = ToSet(turfs) /\ Once(turfs)
  /\ \A k \in 2 .. Len(turfs) : Spreads(k)
  /\ \A k \in 1 .. done : IsPlanet(turfs[k]) \/ IsSpace(turfs[k]) \/ Explores(turfs[k])

Rushes ==
  pc = "breach" =>
    /\ index <= Len(turfs) + 1 /\ Rushing(index - 1)
    /\ \A t \in Tiles :
         t \in ToSet(queue) <=> IsSpace(t) /\ \E k \in 1 .. index - 1 : turfs[k] = t

Drains ==
  pc = "drain" =>
    /\ Rushing(Len(turfs)) /\ \A t \in ToSet(turfs) : ~ IsPlanet(t)
    /\ slow_cycle = ToSet(queue) /\ ToSet(queue) \subseteq ToSet(turfs)
    /\ index <= Len(queue) + 1 /\ (queue # <<>> => IsSpace(queue[1]))
    /\ \A t \in ToSet(turfs) : IsSpace(t) => t \in ToSet(queue)
    /\ \A i \in 1 .. index - 1 : \A u \in ToSet(turfs) :
         OpensTo(queue[i], u) /\ ~ IsSpace(u) => u \in ToSet(queue)
    /\ \A t \in ToSet(queue) : ~ IsSpace(t) => info[t].curr_transfer_dir # Still

BreachInv == Standing /\ Rushes /\ Drains

LEMMA InitBreaches == Init => BreachInv
<1>1. SUFFICES ASSUME Init
               PROVE  BreachInv
  OBVIOUS
<1>2. /\ layout \in Layouts /\ adjacent_bits = [t \in Tiles |-> DOMAIN Neighbour[t]]
      /\ pc = "idle" /\ queue = <<>>
      /\ \A t \in Tiles : t \notin layout.planet /\ t \notin layout.full => moles[t] = 0
  BY <1>1 DEF Init
<1>3. \A t \in Tiles : IsSpace(t) => moles[t] = 0
  <2>1. ASSUME NEW t \in Tiles, IsSpace(t)
        PROVE  t \notin layout.planet /\ t \notin layout.full
    BY <1>2, <2>1, EqualizeAssumption DEF IsSpace
  <2>2. QED
    BY <1>2, <2>1
<1>4. \A t \in Tiles : \A d \in adjacent_bits[t] :
        opp_dir_index[d] \in adjacent_bits[Neighbour[t][d]]
  BY <1>2, NeighbourIs
<1>5. QED
  BY <1>2, <1>3, <1>4 DEF BreachInv, Standing, Rushes, Drains

\* Most steps have nothing to do with it.
LEMMA Unconcerned ==
  ASSUME BreachInv, layout' = layout, moles' = moles, adjacent_bits' = adjacent_bits,
         pc' \notin {"breach", "drain"},
         pc' \notin {"idle", "explore"} \/ queue' = <<>>
  PROVE  BreachInv'
<1>1. Standing
  BY DEF BreachInv
<1>2. \A t : IsSpace(t)' <=> IsSpace(t)
  BY DEF IsSpace
<1>3. Standing'
  BY <1>1, <1>2 DEF Standing
<1>4. Rushes' /\ Drains'
  BY DEF Rushes, Drains
<1>5. QED
  BY <1>3, <1>4 DEF BreachInv

LEMMA ClosedAtBothEnds ==
  ASSUME WaysTyped, Standing, NEW t \in Tiles, NEW dirs, Close(t, dirs)
  PROVE  \A u \in Tiles : \A d \in adjacent_bits'[u] :
           opp_dir_index[d] \in adjacent_bits'[Neighbour[u][d]]
<1>1. SUFFICES ASSUME NEW u \in Tiles, NEW d \in adjacent_bits'[u]
               PROVE  opp_dir_index[d] \in adjacent_bits'[Neighbour[u][d]]
  OBVIOUS
<1> DEFINE v == Neighbour[u][d]
           e == opp_dir_index[d]
<1>2. \A x \in Tiles : \A f : f \in adjacent_bits'[x] <=>
        /\ f \in adjacent_bits[x]
        /\ ~ (f \in DOMAIN Neighbour[x] /\ (\/ x = t /\ f \in dirs
                                            \/ Neighbour[x][f] = t /\ opp_dir_index[f] \in dirs))
  BY DEF Close
<1>3. d \in adjacent_bits[u] /\ d \in DOMAIN Neighbour[u]
  BY <1>1, <1>2 DEF WaysTyped
<1>4. /\ v \in Tiles /\ e \in DOMAIN Neighbour[v] /\ Neighbour[v][e] = u
      /\ opp_dir_index[e] = d
  <2>1. d \in 1 .. 6
    BY <1>3, NeighbourIs
  <2>2. opp_dir_index[opp_dir_index[d]] = d
    BY <2>1 DEF opp_dir_index
  <2>3. QED
    BY <1>3, <2>2, NeighbourIs
<1>5. e \in adjacent_bits[v]
  BY <1>3 DEF Standing
<1>6. ~ (u = t /\ d \in dirs) /\ ~ (v = t /\ e \in dirs)
  BY <1>1, <1>2, <1>3
<1> HIDE DEF v, e
<1>7. e \in adjacent_bits'[v]
  BY <1>2, <1>4, <1>5, <1>6
<1>8. QED
  BY <1>7 DEF v, e

LEMMA FindPlanetBreaches ==
  ASSUME PlanInv, BreachInv, FindPlanet
  PROVE  BreachInv'
<1>1. queue[index] \in Tiles /\ WaysTyped
  BY DEF PlanInv, EqTyped, FindPlanet
<1>2. /\ \E dirs : Close(queue[index], dirs)
      /\ layout' = layout /\ moles' = moles /\ pc' = "planet"
  BY DEF FindPlanet, call, world
<1>3. Standing'
  BY <1>1, <1>2, ClosedAtBothEnds DEF BreachInv, Standing, IsSpace
<1>4. QED
  BY <1>2, <1>3 DEF BreachInv, Rushes, Drains

LEMMA FinalizeBreaches ==
  ASSUME PlanInv, BreachInv, Finalize
  PROVE  BreachInv'
<1> DEFINE tile == turfs[index]
           n == Cardinality(Tiles)
           start == [moles |-> moles, info |-> info]
           done == finalize_eq[n][tile][start]
<1>1. EqTyped
  BY DEF PlanInv
<1>2. moles' = done.moles /\ layout' = layout /\ adjacent_bits' = adjacent_bits /\ pc' = "finalize"
  BY DEF Finalize, call, world
<1>3. WaysTyped /\ n \in Nat /\ tile \in Tiles /\ start \in States /\ start.moles = moles
  <2>1. index \in Nat \ {0} /\ WaysTyped /\ turfs \in Seq(Tiles) /\ index <= Len(turfs)
    BY <1>1 DEF EqTyped, Finalize
  <2>2. QED
    BY <1>1, <2>1, EqualizeAssumption, FS_CardinalityType DEF EqTyped, States
<1> HIDE DEF n, tile, start
<1>4. finalize_eq[n] \in Again
  BY <1>3, finalize_eqIs
<1>5. done \in Like(start)
  BY <1>3, <1>4 DEF Again
<1> HIDE DEF done
<1>6. \A t \in Tiles : IsSpace(t) => moles'[t] = moles[t]
  BY <1>2, <1>3, <1>5 DEF Like
<1>7. Standing'
  BY <1>2, <1>6 DEF BreachInv, Standing, IsSpace
<1>8. QED
  BY <1>2, <1>7 DEF BreachInv, Rushes, Drains

LEMMA RefreshBreaches ==
  ASSUME BreachInv, Refresh
  PROVE  BreachInv'
<1>1. /\ layout' = layout /\ moles' = moles /\ pc' = pc /\ queue' = queue /\ pc = "idle"
      /\ adjacent_bits' = [t \in Tiles |-> DOMAIN Neighbour[t]]
  BY DEF Refresh, call, world, loop
<1>2. \A t \in Tiles : \A d \in adjacent_bits'[t] :
        opp_dir_index[d] \in adjacent_bits'[Neighbour[t][d]]
  BY <1>1, NeighbourIs
<1>3. Standing'
  BY <1>1, <1>2 DEF BreachInv, Standing, IsSpace
<1>4. QED
  BY <1>1, <1>3 DEF BreachInv, Rushes, Drains

\* Whom a tile reaches, by directions and by tiles.
LEMMA OpenAre ==
  ASSUME WaysTyped, NEW t \in Tiles, NEW tiles, NEW q, q = Open(t, tiles)
  PROVE  /\ q \in Seq(DOMAIN Neighbour[t]) /\ Once(q)
         /\ ToSet(q) = {d \in adjacent_bits[t] : Neighbour[t][d] \in tiles}
<1> DEFINE c == {d \in adjacent_bits[t] : Neighbour[t][d] \in tiles}
           D == Directions
<1>1. q \in Seq(DOMAIN Neighbour[t]) /\ Once(q)
  BY OpenIs
<1>2. D \in Seq(1 .. 6) /\ Once(D) /\ Len(D) = 6 /\ \A d \in 1 .. 6 : D[d] = d
  BY DEF Directions, Once
<1>3. q = Chosen(D, c)
  BY DEF Open
<1>4. \A d \in c : d \in 1 .. 6
  BY NeighbourIs DEF WaysTyped
<1> HIDE DEF c, D
<1>5. /\ q \in Seq(1 .. 6) /\ \A k \in 1 .. Len(q) : q[k] \in c
      /\ \A j \in 1 .. Len(D) : D[j] \in c => \E k \in 1 .. Len(q) : q[k] = D[j]
  <2>1. D \in Seq(1 .. 6)
    BY <1>2
  <2>2. \A k \in 1 .. Len(q) : q[k] \in c /\ \E j \in 1 .. Len(D) : q[k] = D[j]
    BY ONLY <2>1, <1>3, ChosenIs
  <2>3. q \in Seq(1 .. 6)
    BY ONLY <2>1, <1>3, ChosenIs
  <2>4. \A j \in 1 .. Len(D) : D[j] \in c => \E k \in 1 .. Len(q) : q[k] = D[j]
    BY ONLY <2>1, <1>3, ChosenIs
  <2>5. QED
    BY <2>2, <2>3, <2>4
<1>6. \A d : d \in ToSet(q) <=> \E k \in 1 .. Len(q) : q[k] = d
  BY <1>1, ElementsAre
<1>7. ToSet(q) = c
  <2>1. \A d \in c : d \in 1 .. Len(D) /\ D[d] = d
    BY <1>2, <1>4
  <2>2. \A d \in c : d \in ToSet(q)
    BY <1>5, <1>6, <2>1
  <2>3. QED
    BY <1>5, <1>6, <2>2
<1>8. QED
  BY <1>1, <1>7 DEF c

LEMMA WithoutAre ==
  ASSUME NEW X, NEW dirs \in Seq(X), Once(dirs), NEW closed
  PROVE  /\ Without(dirs, closed) \in Seq(X) /\ Once(Without(dirs, closed))
         /\ ToSet(Without(dirs, closed)) = ToSet(dirs) \ closed
<1> DEFINE q == Without(dirs, closed)
           c == ToSet(dirs) \ closed
<1>1. q = Chosen(dirs, c)
  BY DEF Without
<1>2. \A d : d \in ToSet(dirs) <=> \E j \in 1 .. Len(dirs) : dirs[j] = d
  BY ElementsAre
<1>3. c \subseteq ToSet(dirs)
  OBVIOUS
<1> HIDE DEF c, q
<1>4. /\ q \in Seq(X) /\ Once(q)
      /\ \A k \in 1 .. Len(q) : q[k] \in c
      /\ \A j \in 1 .. Len(dirs) : dirs[j] \in c => \E k \in 1 .. Len(q) : q[k] = dirs[j]
  <2>1. dirs \in Seq(X) /\ Once(dirs)
    OBVIOUS
  <2>2. q \in Seq(X) /\ Once(q)
    BY ONLY <2>1, <1>1, ChosenIs
  <2>3. \A k \in 1 .. Len(q) : q[k] \in c /\ \E j \in 1 .. Len(dirs) : q[k] = dirs[j]
    BY ONLY <2>1, <1>1, ChosenIs
  <2>4. \A j \in 1 .. Len(dirs) : dirs[j] \in c => \E k \in 1 .. Len(q) : q[k] = dirs[j]
    BY ONLY <2>1, <1>1, ChosenIs
  <2>5. QED
    BY <2>2, <2>3, <2>4
<1>5. \A d : d \in ToSet(q) <=> \E k \in 1 .. Len(q) : q[k] = d
  BY <1>4, ElementsAre
<1>6. ToSet(q) = c
  BY <1>2, <1>3, <1>4, <1>5
<1>7. QED
  BY <1>4, <1>6 DEF c, q

LEMMA BeyondAre ==
  ASSUME NEW t \in Tiles, NEW q \in Seq(DOMAIN Neighbour[t]), Once(q)
  PROVE  /\ Beyond(t, q) \in Seq(Tiles) /\ Once(Beyond(t, q))
         /\ ToSet(Beyond(t, q)) = {Neighbour[t][d] : d \in ToSet(q)}
<1> DEFINE s == Beyond(t, q)
<1>1. /\ s \in Seq(Tiles) /\ Len(s) = Len(q)
      /\ \A k \in 1 .. Len(q) : s[k] = Neighbour[t][q[k]] /\ q[k] \in DOMAIN Neighbour[t]
  BY BeyondIs
<1> HIDE DEF s
<1>2. Once(s)
  <2>1. ASSUME NEW i \in 1 .. Len(s), NEW j \in 1 .. Len(s), s[i] = s[j]
        PROVE  i = j
    <3>1. q[i] = q[j]
      BY <1>1, <2>1, NeighbourIs
    <3>2. QED
      BY <1>1, <3>1 DEF Once
  <2>2. QED
    BY <2>1 DEF Once
<1>3. \A u : u \in ToSet(s) <=> \E k \in 1 .. Len(s) : s[k] = u
  BY <1>1, ElementsAre
<1>4. \A d : d \in ToSet(q) <=> \E k \in 1 .. Len(q) : q[k] = d
  BY ElementsAre
<1>5. ToSet(s) = {Neighbour[t][d] : d \in ToSet(q)}
  BY <1>1, <1>3, <1>4
<1>6. QED
  BY <1>1, <1>2, <1>5 DEF s

LEMMA OnceIsShort ==
  ASSUME NEW q \in Seq(Tiles), Once(q)
  PROVE  Len(q) <= Cardinality(Tiles)
<1> DEFINE n == Len(q)
<1>1. n \in Nat /\ q \in [1 .. n -> Tiles]
  OBVIOUS
<1>2. q \in Injection(1 .. n, Tiles)
  BY <1>1 DEF Injection, IsInjective, Once
<1> HIDE DEF n
<1>3. Cardinality(1 .. n) <= Cardinality(Tiles)
  BY <1>2, EqualizeAssumption, FS_Injection
<1>4. 1 \in Int /\ n \in Int
  BY <1>1
<1>5. Cardinality(1 .. n) = n
  BY <1>1, <1>4, FS_Interval
<1>6. QED
  BY <1>3, <1>5 DEF n

LEMMA NoneIsEmpty ==
  ASSUME NEW X, NEW q \in Seq(X), ToSet(q) = {}
  PROVE  q = <<>>
<1>1. \A i \in 1 .. Len(q) : q[i] \in ToSet(q)
  BY ElementsAre
<1>2. Len(q) \in Nat /\ (Len(q) # 0 => 1 \in 1 .. Len(q))
  OBVIOUS
<1>3. Len(q) = 0
  BY <1>1, <1>2
<1>4. QED
  BY <1>3

\* Found tiles at the end of others are found once, if they are new.
LEMMA OnceMore ==
  ASSUME NEW X, NEW q \in Seq(X), NEW p \in Seq(X), Once(q), Once(p),
         \A x \in ToSet(p) : x \notin ToSet(q)
  PROVE  /\ q \o p \in Seq(X) /\ Once(q \o p) /\ Len(q \o p) >= Len(q)
         /\ ToSet(q \o p) = ToSet(q) \cup ToSet(p)
         /\ \A i \in 1 .. Len(q) : i \in 1 .. Len(q \o p) /\ (q \o p)[i] = q[i]
         /\ \A i \in 1 .. Len(q \o p) : i \in 1 .. Len(q) \/ (i > Len(q) /\ (q \o p)[i] \in ToSet(p))
<1> DEFINE r == q \o p
           n == Len(q)
           k == Len(p)
<1>1. /\ n \in Nat /\ k \in Nat /\ r \in Seq(X) /\ Len(r) = n + k
      /\ \A i \in 1 .. n : i \in 1 .. Len(r) /\ r[i] = q[i]
      /\ \A i \in 1 .. Len(r) : i \in 1 .. n \/ (i > n /\ i - n \in 1 .. k /\ r[i] = p[i - n])
  OBVIOUS
<1>2. /\ \A x : x \in ToSet(p) <=> \E i \in 1 .. k : p[i] = x
      /\ \A x : x \in ToSet(q) <=> \E i \in 1 .. n : q[i] = x
      /\ ToSet(r) = ToSet(q) \cup ToSet(p)
  BY ElementsAre
<1>3. (\A i, j \in 1 .. n : q[i] = q[j] => i = j) /\ \A i, j \in 1 .. k : p[i] = p[j] => i = j
  BY DEF Once
<1> HIDE DEF r, n, k
<1>4. ASSUME NEW i \in 1 .. Len(r), NEW j \in 1 .. Len(r), r[i] = r[j]
      PROVE  i = j
  <2>1. CASE i \in 1 .. n /\ j \in 1 .. n
    BY <1>1, <1>3, <1>4, <2>1
  <2>2. CASE i \notin 1 .. n /\ j \notin 1 .. n
    <3>1. i - n \in 1 .. k /\ j - n \in 1 .. k /\ p[i - n] = p[j - n]
      BY <1>1, <1>4, <2>2
    <3>2. i - n = j - n
      BY <1>3, <3>1
    <3>3. QED
      BY <1>1, <3>2
  <2>3. CASE i \in 1 .. n /\ j \notin 1 .. n
    BY <1>1, <1>2, <1>4, <2>3
  <2>4. CASE i \notin 1 .. n /\ j \in 1 .. n
    BY <1>1, <1>2, <1>4, <2>4
  <2>5. QED
    BY <2>1, <2>2, <2>3, <2>4
<1>5. Once(r)
  BY <1>4 DEF Once
<1>6. Len(r) >= n /\ \A i \in 1 .. Len(r) : i \in 1 .. n \/ (i > n /\ r[i] \in ToSet(p))
  BY <1>1, <1>2
<1>7. QED
  BY <1>1, <1>2, <1>5, <1>6 DEF r, n

LEMMA BreachBreaches ==
  ASSUME PlanInv, BreachInv, Breach
  PROVE  BreachInv'
<1>1. /\ pc = "explore" /\ pc' = "breach" /\ turfs' = <<this>> /\ queue_cycle' = {this} /\ index' = 1
      /\ this' = this /\ layout' = layout /\ moles' = moles /\ adjacent_bits' = adjacent_bits
      /\ queue' = queue
  BY DEF Breach, Exploring, call, world, air
<1>2. Standing'
  BY <1>1 DEF BreachInv, Standing, IsSpace
<1>3. Rushing(index - 1)'
  <2>1. Len(turfs') = 1 /\ turfs'[1] = this' /\ ToSet(turfs') = {this}
    BY <1>1 DEF ToSet
  <2>2. Once(turfs')
    BY <1>1 DEF Once
  <2>3. (\A k \in 2 .. 1 : FALSE) /\ \A k \in 1 .. 1 - 1 : FALSE
    OBVIOUS
  <2>4. QED
    BY <1>1, <2>1, <2>2, <2>3 DEF Rushing
<1>4. Rushes'
  <2>1. queue = <<>>
    BY <1>1 DEF BreachInv, Standing
  <2>2. ToSet(queue') = {} /\ index' <= Len(turfs') + 1 /\ \A k \in 1 .. index' - 1 : FALSE
    BY <1>1, <2>1 DEF ToSet
  <2>3. QED
    BY <1>3, <2>2 DEF Rushes
<1>5. QED
  BY <1>1, <1>2, <1>4 DEF BreachInv, Drains

\* The ways asked about and closed lead to tiles that are new.
LEMMA WaysStay ==
  ASSUME WaysTyped, NEW t \in Tiles, NEW closed, Close(t, closed),
         \A d \in closed : d \in adjacent_bits[t] /\ Neighbour[t][d] \notin queue_cycle
  PROVE  /\ \A u \in Tiles : adjacent_bits'[u] \subseteq adjacent_bits[u]
         /\ \A d \in adjacent_bits[t] \ closed : d \in adjacent_bits'[t]
         /\ \A d \in closed : d \notin adjacent_bits'[t]
         /\ \A u \in queue_cycle \cap Tiles : \A d \in adjacent_bits[u] :
              Neighbour[u][d] \in queue_cycle => d \in adjacent_bits'[u]
<1>1. \A x \in Tiles : \A f : f \in adjacent_bits'[x] <=>
        /\ f \in adjacent_bits[x]
        /\ ~ (f \in DOMAIN Neighbour[x] /\ (\/ x = t /\ f \in closed
                                            \/ Neighbour[x][f] = t /\ opp_dir_index[f] \in closed))
  BY DEF Close
<1>2. \A x \in Tiles : \A f \in DOMAIN Neighbour[x] :
        /\ Neighbour[x][f] \in Tiles /\ Neighbour[x][f] # x
        /\ Neighbour[Neighbour[x][f]][opp_dir_index[f]] = x
  BY NeighbourIs
<1>3. \A x \in Tiles : \A f \in adjacent_bits[x] : f \in DOMAIN Neighbour[x]
  BY DEF WaysTyped
<1>4. ASSUME NEW u \in queue_cycle \cap Tiles, NEW d \in adjacent_bits[u],
             Neighbour[u][d] \in queue_cycle
      PROVE  d \in adjacent_bits'[u]
  <2>1. ~ (u = t /\ d \in closed)
    BY <1>4
  <2>2. ~ (Neighbour[u][d] = t /\ opp_dir_index[d] \in closed)
    BY <1>2, <1>3, <1>4
  <2>3. QED
    BY <1>1, <2>1, <2>2
<1>5. \A d \in adjacent_bits[t] \ closed : d \in adjacent_bits'[t]
  BY <1>1, <1>2, <1>3
<1>6. QED
  BY <1>1, <1>3, <1>4, <1>5

OpensThen(t, u) == \E d \in adjacent_bits'[t] : Neighbour[t][d] = u

\* What the rush finds from a tile.
FindsAround(t, found) ==
  /\ found \in Seq(Tiles) /\ Once(found)
  /\ \A u \in ToSet(found) : u \notin queue_cycle /\ HasAir(u)
  /\ found # <<>> => ~ IsSpace(t) /\ \A u \in ToSet(found) : OpensThen(t, u)
  /\ IsPlanet(t) \/ IsSpace(t) \/ \A u \in Tiles :
       HasAir(u) /\ OpensThen(t, u) => u \in queue_cycle \cup ToSet(found)
  /\ \A x, u \in Tiles : OpensThen(x, u) => OpensTo(x, u)
  /\ \A x, u \in queue_cycle \cap Tiles : OpensTo(x, u) => OpensThen(x, u)

LEMMA RushFinds ==
  ASSUME WaysTyped, NEW tile \in Tiles, index - 1 <= HardLimit, index \in Nat,
         NEW asked,
         asked = IF IsPlanet(tile) \/ IsSpace(tile) \/ index - 1 > HardLimit THEN <<>>
                 ELSE Open(tile, Tiles \ (queue_cycle \cup layout.wall)),
         NEW closed \in SUBSET Lockable(tile, asked), Close(tile, closed),
         NEW found, found = Beyond(tile, Without(asked, closed))
  PROVE  FindsAround(tile, found)
<1> DEFINE beyond == Tiles \ (queue_cycle \cup layout.wall)
           dirs == Without(asked, closed)
<1>1. ~ (index - 1 > HardLimit)
  BY EqualizeAssumption
<1>2. CASE IsPlanet(tile) \/ IsSpace(tile)
  <2>1. asked = <<>>
    BY <1>2
  <2>2. /\ <<>> \in Seq(DOMAIN Neighbour[tile]) /\ Once(<<>>) /\ ToSet(<<>>) = {}
    BY DEF Once, ToSet
  <2>9. /\ asked \in Seq(DOMAIN Neighbour[tile]) /\ Once(asked) /\ ToSet(asked) = {}
    BY <2>1, <2>2
  <2>3. closed = {}
    BY <2>9 DEF Lockable
  <2>4. /\ dirs \in Seq(DOMAIN Neighbour[tile]) /\ Once(dirs) /\ ToSet(dirs) = {}
    <3>1. {} \ closed = {}
      OBVIOUS
    <3>2. QED
      BY ONLY <2>9, <3>1, WithoutAre
  <2> HIDE DEF dirs
  <2>5. found \in Seq(Tiles) /\ Once(found) /\ ToSet(found) = {}
    BY <2>4, BeyondAre DEF dirs
  <2>6. found = <<>>
    BY ONLY <2>5, NoneIsEmpty
  <2>7. /\ \A u \in Tiles : adjacent_bits'[u] \subseteq adjacent_bits[u]
        /\ \A u \in queue_cycle \cap Tiles : \A d \in adjacent_bits[u] :
              Neighbour[u][d] \in queue_cycle => d \in adjacent_bits'[u]
    BY <2>3, WaysStay
  <2>8. QED
    BY <1>2, <2>5, <2>6, <2>7 DEF FindsAround, OpensTo, OpensThen
<1>3. CASE ~ (IsPlanet(tile) \/ IsSpace(tile))
  <2>1. asked = Open(tile, beyond)
    BY <1>1, <1>3
  <2>2. \A u \in Tiles : u \in beyond <=> u \notin queue_cycle /\ HasAir(u)
    BY DEF HasAir
  <2>3. \A u \in beyond : u \in Tiles
    OBVIOUS
  <2> HIDE DEF beyond
  <2>4. /\ asked \in Seq(DOMAIN Neighbour[tile]) /\ Once(asked)
        /\ ToSet(asked) = {d \in adjacent_bits[tile] : Neighbour[tile][d] \in beyond}
    BY <2>1, OpenAre
  <2>5. \A d \in closed : d \in adjacent_bits[tile] /\ Neighbour[tile][d] \notin queue_cycle
    <3>1. closed \subseteq ToSet(asked)
      BY DEF Lockable
    <3>2. QED
      BY <2>2, <2>3, <2>4, <3>1
  <2>6. /\ \A u \in Tiles : adjacent_bits'[u] \subseteq adjacent_bits[u]
        /\ \A d \in adjacent_bits[tile] \ closed : d \in adjacent_bits'[tile]
        /\ \A d \in closed : d \notin adjacent_bits'[tile]
        /\ \A u \in queue_cycle \cap Tiles : \A d \in adjacent_bits[u] :
              Neighbour[u][d] \in queue_cycle => d \in adjacent_bits'[u]
    BY <2>5, WaysStay
  <2>7. /\ dirs \in Seq(DOMAIN Neighbour[tile]) /\ Once(dirs)
        /\ ToSet(dirs) = ToSet(asked) \ closed
    <3>1. asked \in Seq(DOMAIN Neighbour[tile]) /\ Once(asked)
      BY <2>4
    <3>2. QED
      BY ONLY <3>1, WithoutAre
  <2>8. found \in Seq(Tiles) /\ Once(found) /\ ToSet(found) = {Neighbour[tile][d] : d \in ToSet(dirs)}
    BY <2>7, BeyondAre
  <2> HIDE DEF dirs
  <2>9. \A u \in ToSet(found) : u \notin queue_cycle /\ HasAir(u) /\ OpensThen(tile, u)
    BY <2>2, <2>3, <2>4, <2>6, <2>7, <2>8 DEF OpensTo, OpensThen
  <2>10. ASSUME NEW u \in Tiles, HasAir(u), OpensThen(tile, u), u \notin queue_cycle
         PROVE  u \in ToSet(found)
    <3>1. PICK d \in adjacent_bits'[tile] : Neighbour[tile][d] = u
      BY <2>10 DEF OpensTo, OpensThen
    <3>2. d \in adjacent_bits[tile] /\ d \notin closed
      BY <2>6, <3>1
    <3>3. d \in ToSet(dirs)
      BY <2>2, <2>4, <2>7, <2>10, <3>1, <3>2
    <3>4. QED
      BY <2>8, <3>1, <3>3
  <2>11. \A x, u \in Tiles : OpensThen(x, u) => OpensTo(x, u)
    BY <2>6 DEF OpensTo, OpensThen
  <2>12. \A x, u \in queue_cycle \cap Tiles : OpensTo(x, u) => OpensThen(x, u)
    BY <2>6 DEF OpensTo, OpensThen
  <2>13. QED
    BY <1>3, <2>8, <2>9, <2>10, <2>11, <2>12 DEF FindsAround
<1>4. QED
  BY <1>2, <1>3

LEMMA SpaceIsNoPlanet ==
  ASSUME Standing, NEW t, IsSpace(t)
  PROVE  ~ IsPlanet(t)
BY EqualizeAssumption DEF Standing, IsSpace, IsPlanet

LEMMA RushBreaches ==
  ASSUME PlanInv, BreachInv, Rush, Cardinality(Tiles) <= HardLimit
  PROVE  BreachInv'
<1> DEFINE tile == turfs[index]
           asked == IF IsPlanet(tile) \/ IsSpace(tile) \/ index - 1 > HardLimit THEN <<>>
                    ELSE Open(tile, Tiles \ (queue_cycle \cup layout.wall))
<1>1. /\ pc = "breach" /\ pc' = "breach" /\ this' = this /\ layout' = layout /\ moles' = moles
      /\ index' = index + 1
      /\ queue' = IF IsSpace(tile) /\ ~ IsPlanet(tile) THEN Append(queue, tile) ELSE queue
  BY DEF Rush, call, world
<1>2. /\ WaysTyped /\ turfs \in Seq(Tiles) /\ index \in Nat \ {0} /\ queue \in Seq(Tiles)
      /\ index <= Len(turfs) /\ tile \in Tiles /\ index \in 1 .. Len(turfs)
  BY DEF PlanInv, EqTyped, Rush
<1>3. /\ Standing /\ Rushing(index - 1)
      /\ \A t \in Tiles :
           t \in ToSet(queue) <=> IsSpace(t) /\ \E k \in 1 .. index - 1 : turfs[k] = t
  BY <1>1 DEF BreachInv, Rushes
<1>4. PICK closed \in SUBSET Lockable(tile, asked) :
        /\ Close(tile, closed)
        /\ turfs' = turfs \o Beyond(tile, Without(asked, closed))
        /\ queue_cycle' = queue_cycle \cup ToSet(Beyond(tile, Without(asked, closed)))
  BY DEF Rush
<1> DEFINE found == Beyond(tile, Without(asked, closed))
<1>5. index - 1 <= HardLimit
  <2>1. Len(turfs) <= Cardinality(Tiles)
    BY <1>2, <1>3, OnceIsShort DEF Rushing
  <2>2. Cardinality(Tiles) \in Nat
    BY EqualizeAssumption, FS_CardinalityType
  <2>3. QED
    BY <1>2, <2>1, <2>2, EqualizeAssumption
<1>6. FindsAround(tile, found)
  BY <1>2, <1>4, <1>5, RushFinds
<1>7. turfs' = turfs \o found /\ queue_cycle' = queue_cycle \cup ToSet(found)
  BY <1>4
<1>8. \A t \in Tiles : \A d \in adjacent_bits'[t] :
        opp_dir_index[d] \in adjacent_bits'[Neighbour[t][d]]
  BY <1>2, <1>3, <1>4, ClosedAtBothEnds
<1>9. \A t : /\ IsSpace(t)' = IsSpace(t) /\ IsPlanet(t)' = IsPlanet(t) /\ HasAir(t)' = HasAir(t)
  BY <1>1 DEF IsSpace, IsPlanet, HasAir
<1> HIDE DEF found, asked, tile
<1>10. /\ turfs' \in Seq(Tiles) /\ Once(turfs') /\ Len(turfs') >= Len(turfs)
       /\ ToSet(turfs') = ToSet(turfs) \cup ToSet(found)
       /\ \A i \in 1 .. Len(turfs) : i \in 1 .. Len(turfs') /\ turfs'[i] = turfs[i]
       /\ \A i \in 1 .. Len(turfs') :
            i \in 1 .. Len(turfs) \/ (i > Len(turfs) /\ turfs'[i] \in ToSet(found))
  BY <1>2, <1>3, <1>6, <1>7, OnceMore DEF Rushing, FindsAround
<1>11. /\ \A i \in 1 .. Len(turfs) : turfs[i] \in queue_cycle \cap Tiles
       /\ ToSet(found) \subseteq Tiles
  BY <1>2, <1>3, <1>6, ElementsAre DEF Rushing, FindsAround
<1>12. \A k \in 2 .. Len(turfs') : Spreads(k)'
  <2>1. SUFFICES ASSUME NEW k \in 2 .. Len(turfs')
                 PROVE  Spreads(k)'
    OBVIOUS
  <2>2. CASE k \in 1 .. Len(turfs)
    <3>1. HasAir(turfs[k]) /\ k \in 2 .. Len(turfs)
      BY <1>3, <2>2 DEF Rushing, Spreads
    <3>2. PICK j \in 1 .. k - 1 : ~ IsSpace(turfs[j]) /\ OpensTo(turfs[j], turfs[k])
      BY <1>3, <3>1 DEF Rushing, Spreads
    <3>3. j \in 1 .. Len(turfs)
      BY <1>2, <3>1, <3>2
    <3>4. OpensTo(turfs[j], turfs[k])'
      <4>1. \A x, u \in queue_cycle \cap Tiles : OpensTo(x, u) => OpensThen(x, u)
        BY <1>6 DEF FindsAround
      <4>2. turfs'[j] = turfs[j] /\ turfs'[k] = turfs[k]
        BY <1>10, <2>2, <3>3
      <4>3. \E d \in adjacent_bits'[turfs[j]] : Neighbour[turfs[j]][d] = turfs[k]
        BY <1>11, <2>2, <3>2, <3>3, <4>1 DEF OpensTo, OpensThen
      <4>4. QED
        BY <4>2, <4>3 DEF OpensTo, OpensThen
    <3>5. HasAir(turfs[k])' /\ ~ IsSpace(turfs[j])'
      BY <1>1, <1>10, <2>2, <3>1, <3>2, <3>3 DEF HasAir, IsSpace
    <3>6. QED
      BY <3>4, <3>5 DEF Spreads
  <2>3. CASE k > Len(turfs) /\ turfs'[k] \in ToSet(found)
    <3>1. found # <<>>
      BY <2>3 DEF ToSet
    <3>2. HasAir(turfs'[k]) /\ ~ IsSpace(tile)
      BY <1>6, <2>3, <3>1 DEF FindsAround
    <3>3. PICK j \in 1 .. k - 1 : j = index
      BY <1>2, <2>3
    <3>4. turfs'[j] = tile
      BY <1>2, <1>10, <3>3 DEF tile
    <3>5. OpensTo(turfs[j], turfs[k])'
      <4>1. \A u \in ToSet(found) : \E d \in adjacent_bits'[tile] : Neighbour[tile][d] = u
        BY <1>6, <3>1 DEF FindsAround, OpensTo, OpensThen
      <4>2. \E d \in adjacent_bits'[turfs'[j]] : Neighbour[turfs'[j]][d] = turfs'[k]
        BY <2>3, <3>4, <4>1
      <4>3. QED
        BY <4>2 DEF OpensTo, OpensThen
    <3>6. HasAir(turfs[k])' /\ ~ IsSpace(turfs[j])'
      BY <1>1, <3>2, <3>4 DEF HasAir, IsSpace
    <3>7. QED
      BY <3>5, <3>6 DEF Spreads
  <2>4. QED
    BY <1>10, <2>2, <2>3
<1>13. \A k \in 1 .. index : IsPlanet(turfs'[k]) \/ IsSpace(turfs'[k]) \/
         \A u \in Tiles : HasAir(u) /\ OpensThen(turfs'[k], u) => u \in ToSet(turfs')
  <2>1. SUFFICES ASSUME NEW k \in 1 .. index
                 PROVE  IsPlanet(turfs'[k]) \/ IsSpace(turfs'[k]) \/
                        \A u \in Tiles : HasAir(u) /\ OpensThen(turfs'[k], u) => u \in ToSet(turfs')
    OBVIOUS
  <2>2. k \in 1 .. Len(turfs) /\ turfs'[k] = turfs[k] /\ turfs[k] \in Tiles
    BY <1>2, <1>10, <1>11, <2>1
  <2>3. CASE k \in 1 .. index - 1
    <3>1. IsPlanet(turfs[k]) \/ IsSpace(turfs[k]) \/
          \A u \in Tiles : HasAir(u) /\ OpensTo(turfs[k], u) => u \in ToSet(turfs)
      BY <1>3, <2>3 DEF Rushing, Explores
    <3>2. \A u \in Tiles : OpensThen(turfs[k], u) => OpensTo(turfs[k], u)
      BY <1>6, <2>2 DEF FindsAround
    <3>3. ToSet(turfs) \subseteq ToSet(turfs')
      BY <1>10
    <3>4. QED
      BY <2>2, <3>1, <3>2, <3>3
  <2>4. CASE k = index
    <3>1. turfs[k] = tile
      BY <2>4 DEF tile
    <3>2. queue_cycle \cup ToSet(found) = ToSet(turfs')
      BY <1>3, <1>10 DEF Rushing
    <3>3. IsPlanet(tile) \/ IsSpace(tile) \/ \A u \in Tiles :
            HasAir(u) /\ OpensThen(tile, u) => u \in queue_cycle \cup ToSet(found)
      BY <1>6 DEF FindsAround
    <3>4. QED
      BY <2>2, <3>1, <3>2, <3>3
  <2>5. QED
    BY <1>2, <2>3, <2>4
<1>14. Rushing(index - 1)'
  <2>1. Len(turfs') >= 1 /\ turfs'[1] = this' /\ queue_cycle' = ToSet(turfs')
    BY <1>1, <1>2, <1>3, <1>7, <1>10 DEF Rushing
  <2>2. index' - 1 = index
    BY <1>1, <1>2
  <2>3. \A k \in 1 .. index' - 1 : IsPlanet(turfs[k])' \/ IsSpace(turfs[k])' \/ Explores(turfs[k])'
    BY <1>1, <1>13, <2>2 DEF IsPlanet, IsSpace, Explores, HasAir, OpensTo, OpensThen
  <2>4. QED
    BY <1>10, <1>12, <2>1, <2>3 DEF Rushing
<1>15. \A t \in Tiles :
         t \in ToSet(queue') <=> IsSpace(t) /\ \E k \in 1 .. index : turfs'[k] = t
  <2>1. \A t \in Tiles : (\E k \in 1 .. index : turfs'[k] = t) <=>
                         (\E k \in 1 .. index - 1 : turfs[k] = t) \/ t = tile
    <3>1. /\ \A k \in 1 .. index - 1 : k \in 1 .. index /\ turfs'[k] = turfs[k]
          /\ index \in 1 .. index /\ turfs'[index] = tile
      BY <1>2, <1>10 DEF tile
    <3>2. \A k \in 1 .. index : k \in 1 .. index - 1 \/ k = index
      BY <1>2
    <3>3. QED
      BY <3>1, <3>2
  <2>2. IsSpace(tile) => ~ IsPlanet(tile)
    BY <1>3, SpaceIsNoPlanet
  <2>3. \A t : t \in ToSet(queue') <=> t \in ToSet(queue) \/ (IsSpace(tile) /\ t = tile)
    <3>1. tile \in Tiles
      BY <1>2 DEF tile
    <3>2. queue' = IF IsSpace(tile) THEN Append(queue, tile) ELSE queue
      BY <1>1, <2>2 DEF tile
    <3>3. ToSet(Append(queue, tile)) = ToSet(queue) \cup {tile}
      BY <1>2, <3>1, ElementsAre
    <3>4. QED
      BY <3>2, <3>3
  <2>4. QED
    BY <1>3, <2>1, <2>3
<1>16. Rushes'
  <2>1. index' <= Len(turfs') + 1 /\ index' - 1 = index
    BY <1>1, <1>2, <1>10
  <2>2. \A t \in Tiles : IsSpace(t)' <=> IsSpace(t)
    BY <1>9
  <2>3. QED
    BY <1>14, <1>15, <2>1, <2>2 DEF Rushes
<1>17. Standing'
  BY <1>1, <1>3, <1>8 DEF Standing, IsSpace
<1>18. QED
  BY <1>1, <1>16, <1>17 DEF BreachInv, Drains

LEMMA SetDirsTurns ==
  ASSUME info \in Plans, NEW t \in Tiles, NEW dirs \in Seq(DOMAIN Neighbour[t]), NEW u \in Tiles
  PROVE  IF \E d \in ToSet(dirs) : Neighbour[t][d] = u
         THEN SetDirs(t, dirs)[u].curr_transfer_dir # Still
         ELSE SetDirs(t, dirs)[u] = info[u]
<1> DEFINE now == SetDirs(t, dirs)
           d == CHOOSE d \in ToSet(dirs) : Neighbour[t][d] = u
           i == info[u]
<1>1. ToSet(dirs) \subseteq DOMAIN Neighbour[t] /\ i \in Infos
  BY ElementsAre DEF Plans
<1>2. ASSUME \E e \in ToSet(dirs) : Neighbour[t][e] = u
      PROVE  now[u].curr_transfer_dir # Still
  <2>1. d \in ToSet(dirs) /\ Neighbour[t][d] = u
    BY <1>2
  <2>2. now[u] = [i EXCEPT !.curr_transfer_dir = opp_dir_index[d]]
    BY <1>2 DEF SetDirs
  <2> HIDE DEF d, now, i
  <2>3. d \in 1 .. 6
    BY <1>1, <2>1, NeighbourIs
  <2>4. opp_dir_index[d] \in 1 .. Still /\ opp_dir_index[d] # Still
    BY <2>3 DEF opp_dir_index, Still
  <2>5. now[u].curr_transfer_dir = opp_dir_index[d]
    BY <1>1, <2>2, <2>4, WayChanges
  <2>6. QED
    BY <2>4, <2>5
<1>3. ASSUME ~ \E e \in ToSet(dirs) : Neighbour[t][e] = u
      PROVE  now[u] = info[u]
  BY <1>3 DEF SetDirs
<1> HIDE DEF now
<1>4. IF \E e \in ToSet(dirs) : Neighbour[t][e] = u
      THEN now[u].curr_transfer_dir # Still ELSE now[u] = info[u]
  BY <1>2, <1>3
<1>5. QED
  BY <1>4 DEF now

\* The zone stands as it is while the way to space is looked for.
LEMMA ZoneStands ==
  ASSUME this' = this, layout' = layout, adjacent_bits' = adjacent_bits, turfs' = turfs,
         queue_cycle' = queue_cycle, Rushing(Len(turfs))
  PROVE  Rushing(Len(turfs))'
<1>1. \A t, u : OpensTo(t, u)' <=> OpensTo(t, u)
  BY DEF OpensTo
<1>2. \A t : IsSpace(t)' = IsSpace(t) /\ IsPlanet(t)' = IsPlanet(t) /\ HasAir(t)' = HasAir(t)
  BY DEF IsSpace, IsPlanet, HasAir
<1>3. \A k \in 2 .. Len(turfs') : Spreads(k)'
  <2>1. SUFFICES ASSUME NEW k \in 2 .. Len(turfs)
                 PROVE  Spreads(k)'
    OBVIOUS
  <2>2. Spreads(k)
    BY DEF Rushing
  <2>3. QED
    BY <1>1, <1>2, <2>2 DEF Spreads, OpensTo, HasAir, IsSpace
<1>4. \A k \in 1 .. Len(turfs') : IsPlanet(turfs[k])' \/ IsSpace(turfs[k])' \/ Explores(turfs[k])'
  <2>1. SUFFICES ASSUME NEW k \in 1 .. Len(turfs)
                 PROVE  IsPlanet(turfs[k])' \/ IsSpace(turfs[k])' \/ Explores(turfs[k])'
    OBVIOUS
  <2>2. IsPlanet(turfs[k]) \/ IsSpace(turfs[k]) \/ Explores(turfs[k])
    BY DEF Rushing
  <2>3. QED
    BY <2>2 DEF Explores, OpensTo, HasAir, IsSpace, IsPlanet
<1>5. QED
  BY <1>3, <1>4 DEF Rushing

LEMMA RushedBreaches ==
  ASSUME PlanInv, BreachInv, Rushed
  PROVE  BreachInv'
<1>1. /\ pc = "breach" /\ pc' = "drain" /\ this' = this /\ layout' = layout /\ moles' = moles
      /\ adjacent_bits' = adjacent_bits /\ turfs' = turfs /\ queue_cycle' = queue_cycle
      /\ queue' = queue /\ info' = info /\ slow_cycle' = ToSet(queue) /\ index' = 1
      /\ index > Len(turfs) /\ \A t \in ToSet(turfs) : ~ IsPlanet(t)
  BY DEF Rushed, call, world, air, zoneVars
<1>2. /\ Standing /\ Rushing(index - 1) /\ index <= Len(turfs) + 1
      /\ \A t \in Tiles :
           t \in ToSet(queue) <=> IsSpace(t) /\ \E k \in 1 .. index - 1 : turfs[k] = t
  BY <1>1 DEF BreachInv, Rushes
<1>3. index \in Nat /\ turfs \in Seq(Tiles) /\ queue \in Seq(Tiles) /\ Len(turfs) \in Nat
  BY DEF PlanInv, EqTyped
<1>4. index - 1 = Len(turfs)
  BY <1>1, <1>2, <1>3
<1>5. \A t \in Tiles : t \in ToSet(queue) <=> IsSpace(t) /\ t \in ToSet(turfs)
  BY <1>2, <1>3, <1>4, ElementsAre
<1>6. \A t : IsSpace(t)' = IsSpace(t) /\ IsPlanet(t)' = IsPlanet(t) /\ HasAir(t)' = HasAir(t)
  BY <1>1 DEF IsSpace, IsPlanet, HasAir
<1>7. Standing'
  BY <1>1, <1>2 DEF Standing, IsSpace
<1>8. Rushing(Len(turfs))'
  BY <1>1, <1>2, <1>4, ZoneStands
<1>9. ToSet(queue) \subseteq Tiles /\ ToSet(turfs) \subseteq Tiles
  BY <1>3, ElementsAre
<1>10. /\ \A t \in ToSet(turfs') : ~ IsPlanet(t)'
       /\ slow_cycle' = ToSet(queue') /\ ToSet(queue') \subseteq ToSet(turfs')
       /\ index' <= Len(queue') + 1
       /\ \A t \in ToSet(turfs') : IsSpace(t)' => t \in ToSet(queue')
       /\ \A i \in 1 .. index' - 1 : FALSE
       /\ \A t \in ToSet(queue') : IsSpace(t)'
  BY <1>1, <1>3, <1>5, <1>6, <1>9
<1>11. queue' # <<>> => IsSpace(queue[1])'
  <2>1. queue # <<>> => queue[1] \in ToSet(queue)
    BY <1>3, ElementsAre
  <2>2. QED
    BY <1>1, <1>10, <2>1 DEF IsSpace
<1>12. Drains'
  BY <1>8, <1>10, <1>11 DEF Drains
<1>13. QED
  BY <1>1, <1>7, <1>12 DEF BreachInv, Rushes

LEMMA FindSpaceBreaches ==
  ASSUME PlanInv, BreachInv, FindSpace
  PROVE  BreachInv'
<1> DEFINE tile == queue[index]
           tiles == (queue_cycle \ slow_cycle) \ layout.space
           dirs == Open(tile, tiles)
           found == Beyond(tile, dirs)
<1>1. /\ pc = "drain" /\ pc' = "drain" /\ this' = this /\ layout' = layout /\ moles' = moles
      /\ adjacent_bits' = adjacent_bits /\ turfs' = turfs /\ queue_cycle' = queue_cycle
      /\ queue' = queue \o found /\ slow_cycle' = slow_cycle \cup ToSet(found)
      /\ info' = SetDirs(tile, dirs) /\ index' = index + 1 /\ index <= Len(queue)
  BY DEF FindSpace, call, world, air, zoneVars
<1>2. /\ WaysTyped /\ turfs \in Seq(Tiles) /\ index \in Nat \ {0} /\ queue \in Seq(Tiles)
      /\ info \in Plans /\ tile \in Tiles /\ index \in 1 .. Len(queue)
  BY <1>1 DEF PlanInv, EqTyped
<1>3. Standing /\ Drains
  BY DEF BreachInv
<1>4. /\ Rushing(Len(turfs)) /\ \A t \in ToSet(turfs) : ~ IsPlanet(t)
      /\ slow_cycle = ToSet(queue) /\ ToSet(queue) \subseteq ToSet(turfs)
      /\ queue_cycle = ToSet(turfs) /\ IsSpace(queue[1])
      /\ \A t \in ToSet(turfs) : IsSpace(t) => t \in ToSet(queue)
      /\ \A i \in 1 .. index - 1 : \A u \in ToSet(turfs) :
           OpensTo(queue[i], u) /\ ~ IsSpace(u) => u \in ToSet(queue)
      /\ \A t \in ToSet(queue) : ~ IsSpace(t) => info[t].curr_transfer_dir # Still
  BY <1>1, <1>2, <1>3 DEF Drains, Rushing
<1>5. ToSet(turfs) \subseteq Tiles /\ ToSet(queue) \subseteq Tiles
  BY <1>2, ElementsAre
<1> HIDE DEF tile, tiles
<1>6. /\ dirs \in Seq(DOMAIN Neighbour[tile]) /\ Once(dirs)
      /\ ToSet(dirs) = {d \in adjacent_bits[tile] : Neighbour[tile][d] \in tiles}
  BY <1>2, OpenAre
<1> HIDE DEF dirs
<1>7. found \in Seq(Tiles) /\ ToSet(found) = {Neighbour[tile][d] : d \in ToSet(dirs)}
  BY <1>2, <1>6, BeyondAre
<1> HIDE DEF found
<1>8. \A u \in tiles : u \in ToSet(turfs) /\ u \notin ToSet(queue) /\ ~ IsSpace(u)
  BY <1>4 DEF tiles, IsSpace
<1>9. \A u \in ToSet(turfs) : u \in ToSet(queue) \/ IsSpace(u) \/ u \in tiles
  BY <1>4 DEF tiles, IsSpace
<1>10. \A u : u \in ToSet(found) <=> u \in tiles /\ OpensTo(tile, u)
  BY <1>6, <1>7 DEF OpensTo
<1>11. /\ queue' \in Seq(Tiles) /\ ToSet(queue') = ToSet(queue) \cup ToSet(found)
       /\ Len(queue') >= Len(queue) /\ \A i \in 1 .. Len(queue) : queue'[i] = queue[i]
  <2>1. /\ queue \o found \in Seq(Tiles) /\ Len(queue \o found) >= Len(queue)
        /\ \A i \in 1 .. Len(queue) : (queue \o found)[i] = queue[i]
    BY <1>2, <1>7
  <2>2. ToSet(queue \o found) = ToSet(queue) \cup ToSet(found)
    BY <1>2, <1>7, ElementsAre
  <2>3. QED
    BY <1>1, <2>1, <2>2
<1>12. Standing'
  BY <1>1, <1>3 DEF Standing, IsSpace
<1>13. Rushing(Len(turfs))'
  BY <1>1, <1>4, ZoneStands
<1>14. /\ \A t \in ToSet(turfs') : ~ IsPlanet(t)'
       /\ slow_cycle' = ToSet(queue') /\ ToSet(queue') \subseteq ToSet(turfs')
       /\ index' <= Len(queue') + 1
       /\ \A t \in ToSet(turfs') : IsSpace(t)' => t \in ToSet(queue')
  <2>1. \A t : IsSpace(t)' = IsSpace(t) /\ IsPlanet(t)' = IsPlanet(t)
    BY <1>1 DEF IsSpace, IsPlanet
  <2>2. ToSet(found) \subseteq ToSet(turfs)
    BY <1>8, <1>10
  <2>3. index' <= Len(queue') + 1
    BY <1>1, <1>2, <1>11
  <2>4. QED
    BY <1>1, <1>4, <1>11, <2>1, <2>2, <2>3
<1>15. queue' # <<>> => IsSpace(queue[1])'
  <2>1. queue'[1] = queue[1]
    BY <1>2, <1>11
  <2>2. QED
    BY <1>1, <1>4, <2>1 DEF IsSpace
<1>16. \A i \in 1 .. index' - 1 : \A u \in ToSet(turfs) :
         OpensTo(queue'[i], u) /\ ~ IsSpace(u) => u \in ToSet(queue')
  <2>1. SUFFICES ASSUME NEW i \in 1 .. index, NEW u \in ToSet(turfs),
                        OpensTo(queue'[i], u), ~ IsSpace(u), u \notin ToSet(queue)
                 PROVE  u \in ToSet(found)
    BY <1>1, <1>2, <1>11
  <2>2. queue'[i] = queue[i]
    BY <1>2, <1>11
  <2>3. i \notin 1 .. index - 1
    BY <1>4, <2>1, <2>2
  <2>4. i = index
    BY <1>2, <2>3
  <2>5. OpensTo(tile, u)
    BY <2>1, <2>2, <2>4 DEF tile
  <2>6. QED
    BY <1>9, <1>10, <2>1, <2>5
<1>17. \A t \in ToSet(queue') : ~ IsSpace(t) => info'[t].curr_transfer_dir # Still
  <2>1. SUFFICES ASSUME NEW t \in ToSet(queue'), ~ IsSpace(t)
                 PROVE  info'[t].curr_transfer_dir # Still
    OBVIOUS
  <2>2. t \in Tiles
    BY <1>11, ElementsAre
  <2>3. IF \E d \in ToSet(dirs) : Neighbour[tile][d] = t
        THEN info'[t].curr_transfer_dir # Still ELSE info'[t] = info[t]
    <3>1. tile \in Tiles /\ info \in Plans /\ dirs \in Seq(DOMAIN Neighbour[tile])
      BY <1>2, <1>6 DEF tile
    <3>2. IF \E d \in ToSet(dirs) : Neighbour[tile][d] = t
          THEN SetDirs(tile, dirs)[t].curr_transfer_dir # Still
          ELSE SetDirs(tile, dirs)[t] = info[t]
      BY ONLY <2>2, <3>1, SetDirsTurns
    <3>3. info' = SetDirs(tile, dirs)
      BY <1>1 DEF tile
    <3>4. QED
      BY <3>2, <3>3
  <2>4. (\E d \in ToSet(dirs) : Neighbour[tile][d] = t) \/ t \in ToSet(queue)
    BY <1>7, <1>11, <2>1
  <2>5. QED
    BY <1>4, <2>1, <2>3, <2>4
<1>18. Drains'
  <2>1. /\ \A i \in 1 .. index' - 1 : \A u \in ToSet(turfs') :
             OpensTo(queue[i], u)' /\ ~ IsSpace(u)' => u \in ToSet(queue')
        /\ \A t \in ToSet(queue') : ~ IsSpace(t)' => info'[t].curr_transfer_dir # Still
    BY <1>1, <1>16, <1>17 DEF OpensTo, IsSpace
  <2>2. QED
    BY <1>13, <1>14, <1>15, <2>1 DEF Drains
<1>19. QED
  BY <1>1, <1>12, <1>18 DEF BreachInv, Rushes


\* Where the zone is Zone, the tiles that are reached step by step.
LEMMA ZoneSteps ==
  ASSUME NEW t \in Tiles
  PROVE  \E r : /\ Zone(t) = r[Cardinality(Tiles)]
                /\ \A n \in Nat : r[n] = IF n = 0 THEN {t} ELSE Reach(r[n - 1])
<1> DEFINE Rec(r) == r = [n \in Nat |-> IF n = 0 THEN {t} ELSE Reach(r[n - 1])]
           H == [tiles \in SUBSET Tiles |-> Reach(tiles)]
<1>1. H \in [SUBSET Tiles -> SUBSET Tiles]
  BY DEF Reach
<1>2. \A tiles \in SUBSET Tiles : H[tiles] = Reach(tiles)
  OBVIOUS
<1> HIDE DEF H
<1>3. PICK h : Iterates(h, SUBSET Tiles, {t}, H)
  BY <1>1, IterationExists
<1>4. Rec(h)
  <2>1. h \in [Nat -> SUBSET Tiles] /\ h[0] = {t} /\ \A k \in Nat : h[k + 1] = H[h[k]]
    BY <1>3 DEF Iterates
  <2>2. ASSUME NEW k \in Nat
        PROVE  h[k] = IF k = 0 THEN {t} ELSE Reach(h[k - 1])
    <3>1. CASE k = 0
      BY <2>1, <3>1
    <3>2. CASE k # 0
      <4>1. k - 1 \in Nat /\ (k - 1) + 1 = k
        BY <3>2
      <4>2. h[k] = H[h[k - 1]] /\ h[k - 1] \in SUBSET Tiles
        BY <2>1, <4>1
      <4>3. h[k] = Reach(h[k - 1])
        BY <1>2, <4>2
      <4>4. QED
        BY <3>2, <4>3
    <3>3. QED
      BY <3>1, <3>2
  <2>3. QED
    BY <2>1, <2>2
<1> DEFINE f == CHOOSE r : Rec(r)
<1>5. Zone(t) = f[Cardinality(Tiles)]
  BY DEF Zone
<1> HIDE DEF f
<1>6. Rec(f)
  BY <1>4 DEF f
<1>7. \A n \in Nat : f[n] = IF n = 0 THEN {t} ELSE Reach(f[n - 1])
  BY <1>6
<1>8. QED
  BY <1>5, <1>7

\* The turfs of a breach are the zone.
LEMMA ZoneIs ==
  ASSUME PlanInv, Rushing(Len(turfs)), \A t \in ToSet(turfs) : ~ IsPlanet(t)
  PROVE  Zone(this) = ToSet(turfs)
<1> DEFINE N == Cardinality(Tiles)
           first(n) == {turfs[k] : k \in {i \in 1 .. Len(turfs) : i <= n + 1}}
<1>1. turfs \in Seq(Tiles) /\ Len(turfs) \in Nat /\ N \in Nat
  BY EqualizeAssumption, FS_CardinalityType DEF PlanInv, EqTyped
<1>2. /\ Len(turfs) >= 1 /\ turfs[1] = this /\ Once(turfs)
      /\ \A k \in 2 .. Len(turfs) : Spreads(k)
      /\ \A k \in 1 .. Len(turfs) : IsPlanet(turfs[k]) \/ IsSpace(turfs[k]) \/ Explores(turfs[k])
  BY DEF Rushing
<1>3. ToSet(turfs) \subseteq Tiles /\ \A t : t \in ToSet(turfs) <=> \E k \in 1 .. Len(turfs) : turfs[k] = t
  BY <1>1, ElementsAre
<1>4. this \in Tiles /\ this \in ToSet(turfs)
  BY <1>1, <1>2, <1>3
<1>5. PICK r : /\ Zone(this) = r[N]
               /\ \A n \in Nat : r[n] = IF n = 0 THEN {this} ELSE Reach(r[n - 1])
  BY <1>4, ZoneSteps
<1> HIDE DEF N
<1> DEFINE S == {n \in Nat : first(n) \subseteq r[n] /\ r[n] \subseteq ToSet(turfs)}
<1>6. 0 \in S
  <2>1. r[0] = {this}
    BY <1>5
  <2>2. \A k \in 1 .. Len(turfs) : k <= 0 + 1 => turfs[k] = this
    BY <1>1, <1>2
  <2>3. QED
    BY <1>4, <2>1, <2>2
<1>7. ASSUME NEW n \in 1 .. N, n - 1 \in S
      PROVE  n \in S
  <2>1. n \in Nat /\ n # 0 /\ n - 1 \in Nat /\ r[n] = Reach(r[n - 1])
    BY <1>1, <1>5
  <2>2. first(n - 1) \subseteq r[n - 1] /\ r[n - 1] \subseteq ToSet(turfs)
    BY <1>7
  <2>3. \A u : u \in r[n] <=> u \in r[n - 1] \/
          (u \in Tiles /\ HasAir(u) /\ \E t \in r[n - 1] : ~ IsSpace(t) /\ OpensTo(t, u))
    BY <2>1 DEF Reach, IsSpace, OpensTo
  <2>4. r[n] \subseteq ToSet(turfs)
    <3>1. SUFFICES ASSUME NEW u \in Tiles, HasAir(u), NEW t \in r[n - 1], ~ IsSpace(t), OpensTo(t, u)
                   PROVE  u \in ToSet(turfs)
      BY <2>2, <2>3
    <3>2. t \in ToSet(turfs)
      BY <2>2
    <3>3. Explores(t)
      BY <1>2, <1>3, <3>1, <3>2
    <3>4. QED
      BY <3>1, <3>3 DEF Explores
  <2>5. first(n) \subseteq r[n]
    <3>1. SUFFICES ASSUME NEW k \in 1 .. Len(turfs), k <= n + 1
                   PROVE  turfs[k] \in r[n]
      OBVIOUS
    <3>2. CASE k <= (n - 1) + 1
      <4>1. turfs[k] \in r[n - 1]
        BY <2>2, <3>2
      <4>2. QED
        BY <2>3, <4>1
    <3>3. CASE k = n + 1
      <4>1. k \in 2 .. Len(turfs)
        BY <1>1, <2>1, <3>3
      <4>2. PICK j \in 1 .. k - 1 : ~ IsSpace(turfs[j]) /\ OpensTo(turfs[j], turfs[k])
        BY <1>2, <4>1 DEF Spreads
      <4>3. j \in 1 .. Len(turfs) /\ j <= (n - 1) + 1
        BY <1>1, <2>1, <3>3, <4>2
      <4>4. turfs[j] \in r[n - 1]
        BY <2>2, <4>3
      <4>5. HasAir(turfs[k]) /\ turfs[k] \in Tiles
        BY <1>1, <1>2, <4>1 DEF Spreads
      <4>6. QED
        BY <2>3, <4>2, <4>4, <4>5
    <3>4. QED
      BY <1>1, <2>1, <3>1, <3>2, <3>3
  <2>6. QED
    BY <2>1, <2>4, <2>5
<1> HIDE DEF S
<1>8. \A n \in 0 .. N : n \in S
  BY ONLY <1>1, <1>6, <1>7, Climbs
<1>9. N \in S
  BY <1>1, <1>8
<1>10. first(N) \subseteq r[N] /\ r[N] \subseteq ToSet(turfs)
  BY <1>9 DEF S
<1>11. Len(turfs) <= N
  BY <1>1, <1>2, OnceIsShort DEF N
<1>12. ToSet(turfs) \subseteq first(N)
  BY <1>1, <1>3, <1>11
<1>13. QED
  BY <1>5, <1>10, <1>12

\* Where there is space, every turf finds a way to it.
LEMMA AllFindSpace ==
  ASSUME PlanInv, Standing, Drains, pc = "drain", index > Len(queue), queue # <<>>
  PROVE  ToSet(turfs) \subseteq ToSet(queue)
<1> DEFINE Q == ToSet(queue)
<1>1. /\ turfs \in Seq(Tiles) /\ queue \in Seq(Tiles) /\ index \in Nat /\ WaysTyped
      /\ Len(turfs) \in Nat /\ Len(queue) \in Nat
  BY DEF PlanInv, EqTyped
<1>2. /\ \A k \in 2 .. Len(turfs) : Spreads(k)
      /\ Q \subseteq ToSet(turfs) /\ IsSpace(queue[1])
      /\ \A t \in ToSet(turfs) : IsSpace(t) => t \in Q
      /\ index <= Len(queue) + 1
      /\ \A i \in 1 .. index - 1 : \A u \in ToSet(turfs) :
           OpensTo(queue[i], u) /\ ~ IsSpace(u) => u \in Q
  BY DEF Drains, Rushing
<1>3. index - 1 = Len(queue)
  BY <1>1, <1>2
<1>4. \A t : t \in Q <=> \E i \in 1 .. Len(queue) : queue[i] = t
  BY <1>1, ElementsAre
<1>5. /\ \A k \in 1 .. Len(turfs) : turfs[k] \in ToSet(turfs) /\ turfs[k] \in Tiles
      /\ \A t \in ToSet(turfs) : \E k \in 1 .. Len(turfs) : turfs[k] = t
  BY <1>1, ElementsAre
<1>6. \A q \in Q, u \in ToSet(turfs) : OpensTo(q, u) /\ ~ IsSpace(u) => u \in Q
  BY <1>2, <1>3, <1>4
<1>7. \A t, u \in Tiles : OpensTo(t, u) => OpensTo(u, t)
  <2>1. SUFFICES ASSUME NEW t \in Tiles, NEW u \in Tiles, OpensTo(t, u)
                 PROVE  OpensTo(u, t)
    OBVIOUS
  <2>2. PICK d \in adjacent_bits[t] : Neighbour[t][d] = u
    BY <2>1 DEF OpensTo
  <2>3. opp_dir_index[d] \in adjacent_bits[u]
    BY <2>2 DEF Standing
  <2>4. Neighbour[u][opp_dir_index[d]] = t
    BY <1>1, <2>2, NeighbourIs DEF WaysTyped
  <2>5. QED
    BY <2>3, <2>4 DEF OpensTo
<1>8. queue[1] \in Q
  BY <1>1, <1>4
<1> HIDE DEF Q
\* A turf that is reached from one that is no space, in the queue or before it.
<1>9. ASSUME NEW k \in 2 .. Len(turfs)
      PROVE  \E j \in 1 .. k - 1 : j \in 1 .. Len(turfs) /\ ~ IsSpace(turfs[j]) /\
               (turfs[k] \in Q <=> turfs[j] \in Q)
  <2>1. PICK j \in 1 .. k - 1 : ~ IsSpace(turfs[j]) /\ OpensTo(turfs[j], turfs[k])
    BY <1>2 DEF Spreads
  <2>2. j \in 1 .. Len(turfs) /\ k \in 1 .. Len(turfs)
    BY <1>1
  <2>3. OpensTo(turfs[k], turfs[j])
    BY <1>5, <1>7, <2>1, <2>2
  <2>4. turfs[k] \in Q => turfs[j] \in Q
    BY <1>5, <1>6, <2>1, <2>2, <2>3
  <2>5. turfs[j] \in Q => turfs[k] \in Q
    BY <1>2, <1>5, <1>6, <2>1, <2>2
  <2>6. QED
    BY <2>1, <2>2, <2>4, <2>5
<1>10. turfs[1] \in Q
  <2> DEFINE D == {k \in 1 .. Len(turfs) : turfs[k] \in Q}
  <2>1. D \subseteq Nat /\ D # {}
    BY <1>2, <1>5, <1>8
  <2>2. PICK k \in D : \A j \in D : k <= j
    <3> HIDE DEF D
    <3> QED
      BY <2>1, LeastIn
  <2>3. ASSUME k # 1
        PROVE  FALSE
    <3>1. k \in 2 .. Len(turfs)
      BY <1>1, <2>3
    <3>2. PICK j \in 1 .. k - 1 : j \in 1 .. Len(turfs) /\ turfs[j] \in Q
      BY <1>9, <3>1
    <3>3. k <= j
      BY <2>2, <3>2
    <3>4. QED
      BY <3>1, <3>2, <3>3
  <2>4. QED
    BY <2>3
<1>11. ASSUME \E k \in 1 .. Len(turfs) : turfs[k] \notin Q
       PROVE  FALSE
  <2> DEFINE D == {k \in 1 .. Len(turfs) : turfs[k] \notin Q}
  <2>1. D \subseteq Nat /\ D # {}
    BY <1>11
  <2>2. PICK k \in D : \A j \in D : k <= j
    <3> HIDE DEF D
    <3> QED
      BY <2>1, LeastIn
  <2>3. k \in 2 .. Len(turfs)
    BY <1>1, <1>10
  <2>4. PICK j \in 1 .. k - 1 : j \in 1 .. Len(turfs) /\ turfs[j] \notin Q
    BY <1>9, <2>3
  <2>5. k <= j
    BY <2>2, <2>4
  <2>6. QED
    BY <2>3, <2>4, <2>5
<1>12. QED
  BY <1>5, <1>11 DEF Q

\* Draining empties the zone if it has space, and nothing else.
LEMMA DrainEmpties ==
  ASSUME PlanInv, BreachInv, Drain
  PROVE  \A t \in Tiles :
           moles'[t] = IF t \in Zone(this) /\ Zone(this) \cap layout.space # {}
                       THEN 0 ELSE moles[t]
<1>1. /\ pc = "drain" /\ index > Len(queue) /\ pc' = "idle" /\ queue' = <<>>
      /\ layout' = layout /\ adjacent_bits' = adjacent_bits
      /\ \A t \in Tiles : moles'[t] = IF t \in ToSet(queue) /\ info[t].curr_transfer_dir # Still
                                      THEN 0 ELSE moles[t]
  BY DEF Drain, Drained, Return, world
<1>2. Standing /\ Drains
  BY DEF BreachInv
<1>3. /\ Rushing(Len(turfs)) /\ \A t \in ToSet(turfs) : ~ IsPlanet(t)
      /\ ToSet(queue) \subseteq ToSet(turfs) /\ (queue # <<>> => IsSpace(queue[1]))
      /\ \A t \in ToSet(turfs) : IsSpace(t) => t \in ToSet(queue)
      /\ \A t \in ToSet(queue) : ~ IsSpace(t) => info[t].curr_transfer_dir # Still
  BY <1>1, <1>2 DEF Drains
<1>4. turfs \in Seq(Tiles) /\ queue \in Seq(Tiles)
  BY DEF PlanInv, EqTyped
<1>5. Zone(this) = ToSet(turfs)
  BY <1>3, ZoneIs
<1>6. \A t \in Tiles : IsSpace(t) => moles[t] = 0
  BY <1>2 DEF Standing
<1>7. CASE queue = <<>>
  <2>1. ToSet(queue) = {}
    BY <1>7 DEF ToSet
  <2>2. ToSet(turfs) \cap layout.space = {}
    BY <1>3, <2>1 DEF IsSpace
  <2>3. QED
    BY <1>1, <1>5, <2>1, <2>2
<1>8. CASE queue # <<>>
  <2>1. ToSet(turfs) = ToSet(queue)
    BY <1>1, <1>2, <1>3, <1>8, AllFindSpace
  <2>2. queue[1] \in ToSet(queue)
    BY <1>4, <1>8, ElementsAre
  <2>3. ToSet(turfs) \cap layout.space # {}
    BY <1>3, <1>8, <2>1, <2>2 DEF IsSpace
  <2>4. QED
    BY <1>1, <1>3, <1>5, <1>6, <2>1, <2>3
<1>9. QED
  BY <1>7, <1>8

LEMMA DrainBreaches ==
  ASSUME BreachInv, Drain
  PROVE  BreachInv'
<1>1. /\ pc' = "idle" /\ queue' = <<>> /\ layout' = layout /\ adjacent_bits' = adjacent_bits
      /\ \A t \in Tiles : moles'[t] = 0 \/ moles'[t] = moles[t]
  BY DEF Drain, Drained, Return, world
<1>2. Standing
  BY DEF BreachInv
<1>3. Standing'
  BY <1>1, <1>2 DEF Standing, IsSpace
<1>4. QED
  BY <1>1, <1>3 DEF BreachInv, Rushes, Drains

LEMMA OtherBreaches ==
  ASSUME BreachInv,
         \/ \E t \in Tiles : Skip(t) \/ Begin(t)
         \/ Explore \/ Divide
         \/ Spread \/ Choose \/ Serve \/ Visit \/ CarryBack
         \/ PlanPlanet \/ FlowToPlanet \/ Wake
         \/ RushedToPlanet \/ NextCycle
  PROVE  BreachInv'
<1>1. CASE \E t \in Tiles : Skip(t) \/ Begin(t)
  <2>1. /\ pc = "idle" /\ pc' \in {"idle", "explore"} /\ queue' = queue
        /\ layout' = layout /\ moles' = moles /\ adjacent_bits' = adjacent_bits
    BY <1>1 DEF Skip, Begin, Call, call, world, air, loop
  <2>2. queue = <<>>
    BY <2>1 DEF BreachInv, Standing
  <2>3. QED
    BY <2>1, <2>2, Unconcerned
<1>2. CASE Explore
  <2>1. /\ pc = "explore" /\ pc' = "explore" /\ queue' = queue
        /\ layout' = layout /\ moles' = moles /\ adjacent_bits' = adjacent_bits
    BY <1>2 DEF Explore, Exploring, call, world, air
  <2>2. queue = <<>>
    BY <2>1 DEF BreachInv, Standing
  <2>3. QED
    BY <2>1, <2>2, Unconcerned
<1>3. CASE Divide
  <2>1. /\ pc' = "fast" \/ pc' = "choose"
        /\ layout' = layout /\ moles' = moles /\ adjacent_bits' = adjacent_bits
    BY <1>3 DEF Divide, call, world, air
  <2>2. QED
    BY <2>1, Unconcerned
<1>4. CASE Spread
  <2>1. /\ pc' = "fast"
        /\ layout' = layout /\ moles' = moles /\ adjacent_bits' = adjacent_bits
    BY <1>4 DEF Spread, call, world, air
  <2>2. QED
    BY <2>1, Unconcerned
<1>5. CASE Choose \/ CarryBack
  <2>1. /\ pc' = "slow"
        /\ layout' = layout /\ moles' = moles /\ adjacent_bits' = adjacent_bits
    BY <1>5 DEF Choose, CarryBack, call, world, air
  <2>2. QED
    BY <2>1, Unconcerned
<1>6. CASE Serve \/ Visit
  <2>1. /\ pc' = "visit"
        /\ layout' = layout /\ moles' = moles /\ adjacent_bits' = adjacent_bits
    BY <1>6 DEF Serve, Visit, call, world, air
  <2>2. QED
    BY <2>1, Unconcerned
<1>7. CASE PlanPlanet \/ FlowToPlanet
  <2>1. /\ pc' = "finalize" \/ pc' = "planet"
        /\ layout' = layout /\ moles' = moles /\ adjacent_bits' = adjacent_bits
    BY <1>7 DEF PlanPlanet, FlowToPlanet, call, world, air
  <2>2. QED
    BY <2>1, Unconcerned
<1>8. CASE Wake \/ RushedToPlanet
  <2>1. /\ pc' = "idle" /\ queue' = <<>>
        /\ layout' = layout /\ moles' = moles /\ adjacent_bits' = adjacent_bits
    BY <1>8 DEF Wake, RushedToPlanet, Return, world
  <2>2. QED
    BY <2>1, Unconcerned
<1>9. CASE NextCycle
  <2>1. /\ pc = "idle" /\ pc' = "idle" /\ queue' = queue
        /\ layout' = layout /\ moles' = moles /\ adjacent_bits' = adjacent_bits
    BY <1>9 DEF NextCycle, air, loop
  <2>2. queue = <<>>
    BY <2>1 DEF BreachInv, Standing
  <2>3. QED
    BY <2>1, <2>2, Unconcerned
<1>10. QED
  BY <1>1, <1>2, <1>3, <1>4, <1>5, <1>6, <1>7, <1>8, <1>9

LEMMA BreachesStay ==
  Cardinality(Tiles) <= HardLimit => (PlanInv /\ BreachInv /\ [Next]_vars => BreachInv')
<1>1. SUFFICES ASSUME Cardinality(Tiles) <= HardLimit, PlanInv, BreachInv, [Next]_vars
               PROVE  BreachInv'
  OBVIOUS
<1>2. CASE UNCHANGED vars
  BY <1>1, <1>2 DEF vars, call, world, air, zoneVars, served, loop, BreachInv, Standing, Rushes,
     Drains, Rushing, Spreads, Explores, OpensTo, HasAir, IsSpace, IsPlanet
<1>3. QED
  BY <1>1, <1>2, OtherBreaches, BreachBreaches, RushBreaches, RushedBreaches, FindSpaceBreaches,
     DrainBreaches, FindPlanetBreaches, FinalizeBreaches, RefreshBreaches DEF Next

(* A breach empties every turf that is open to space by then, however many   *)
(* firelocks closed while it spread, and no other (explosively_depressurize),*)
(* on every map that is no larger than MONSTERMOS_HARD_TURF_LIMIT.           *)
THEOREM BreachesEmpty ==
  ASSUME Cardinality(Tiles) <= HardLimit
  PROVE  Spec => BreachEmpties
<1>1. Init => PlanInv /\ BreachInv
  BY InitPlans, InitBreaches
<1>2. PlanInv /\ BreachInv /\ [Next]_vars => (PlanInv /\ BreachInv)'
  BY PlansStay, BreachesStay
<1>3. PlanInv /\ BreachInv /\ [Next]_vars =>
        [Drain => \A t \in Tiles :
           moles'[t] = IF t \in Zone(this) /\ Zone(this) \cap layout.space # {}
                       THEN 0 ELSE moles[t]]_vars
  BY DrainEmpties
<1>4. QED
  BY <1>1, <1>2, <1>3, PTL DEF Spec, BreachEmpties

===============================================================================
