------------------------------ MODULE GasMixtures ------------------------------
(***************************************************************************)
(* Gas mixtures.  A DM datum holds, in a variable, the address of a shared *)
(* pointer on the heap; tiles share the mixture behind it.  The hooks look *)
(* the address up at every call and change the mixtures.  What a mixture   *)
(* is here: the moles of every gas, now and archived, and two flags;       *)
(* temperature, heat and volume are left out.  Moles are whole numbers     *)
(* and a share that does not divide is cut off.                            *)
(***************************************************************************)
EXTENDS Integers, SequencesExt

CONSTANTS
  Datums,
  Turfs,         (* the tiles that may share a mixture.                      *)
  Gases,
  Pointers,      (* addresses of shared pointers; a mixture is named by the  *)
                 (* pointer it was made with.                                *)
  Null,
  MaxMoles,      (* bound: moles of a gas; half of it when they are negative.*)
  MaxPointers    (* bound: gas_mixture_count.                                *)

\* There are as many addresses and gases as there is memory.
ASSUME GasAssumption ==
  /\ Null \notin Pointers
  /\ IsFiniteSet(Pointers) /\ IsFiniteSet(Gases)
  /\ MaxMoles \in Nat

VARIABLES
  pointer,       (* datum -> _extools_pointer_gasmixture.                    *)
  long,          (* datums with ten variables or more.                       *)
  allocated,     (* shared pointers that are on the heap.                    *)
  tile_air,      (* tile -> its air, the mixture it shares, or Null.         *)
  mixture,       (* pointer -> its mixture.                                  *)
  gas_mixture_count,
  lost           (* history: shared pointers no datum held when it was       *)
                 (* given another or was deleted.                            *)

heap == <<pointer, long, allocated, gas_mixture_count, lost>>
gasVars == <<heap, tile_air, mixture>>

NoGas == [g \in Gases |-> 0]
GasMixture == [moles |-> NoGas, archived |-> NoGas, immutable |-> FALSE, vacuum |-> FALSE]

GasInit ==
  /\ pointer = [d \in Datums |-> Null]
  /\ long \in SUBSET Datums
  /\ allocated = {}
  /\ tile_air = [t \in Turfs |-> Null]
  /\ mixture = [p \in Pointers |-> GasMixture]
  /\ gas_mixture_count = 0
  /\ lost = {}

\* A mixture lives while a shared pointer or a tile holds it.
Unused == {p \in Pointers : p \notin allocated /\ \A t \in Turfs : tile_air[t] # p}

\* Mixtures that are gone are as new.
Sweep(mix, cells, tiles) ==
  [p \in Pointers |-> IF p \in cells \/ \E t \in Turfs : tiles[t] = p
                      THEN mix[p] ELSE GasMixture]

-----------------------------------------------------------------------------
(***************************************************************************)
(* The registry.                                                           *)
(***************************************************************************)
\* What the datum pointed to before is not freed.
Register(d) ==
  /\ gas_mixture_count < MaxPointers
  /\ \E p \in Unused :
       /\ pointer' = [pointer EXCEPT ![d] = p]
       /\ allocated' = allocated \cup {p}
  /\ gas_mixture_count' = gas_mixture_count + 1
  /\ lost' = lost \cup ({pointer[d]} \ {Null})
  /\ UNCHANGED <<long, tile_air, mixture>>

\* A definition marked "Mutant" is no part of the model: it is the slip its
\* name says, kept to show which property notices it.

\* Mutant: the datum keeps the address of what is freed.
AddressKept(d) == pointer

AddressCleared(d) == [pointer EXCEPT ![d] = Null]

Free(d) ==
  /\ allocated' = allocated \ {pointer[d]}
  /\ mixture' = Sweep(mixture, allocated', tile_air)
  /\ gas_mixture_count' = gas_mixture_count - 1
  /\ pointer' = AddressCleared(d)
  /\ UNCHANGED <<long, tile_air, lost>>

Unregister(d) ==
  /\ pointer[d] # Null
  /\ Free(d)

\* hDelDatum: a datum with many variables keeps its mixture from being freed.
DelDatum(d) ==
  \/ /\ d \notin long
     /\ pointer[d] # Null
     /\ Free(d)
  \/ /\ d \in long
     /\ pointer[d] # Null
     /\ pointer' = [pointer EXCEPT ![d] = Null]
     /\ lost' = lost \cup {pointer[d]}
     /\ UNCHANGED <<long, allocated, tile_air, mixture, gas_mixture_count>>

\* update_air_ref of a tile whose air is the datum with pointer p, or none.
UpdateAirRef(t, p) ==
  /\ p \in {Null} \cup {pointer[d] : d \in Datums}
  /\ tile_air' = [tile_air EXCEPT ![t] = p]
  /\ mixture' = Sweep(mixture, allocated, tile_air')
  /\ UNCHANGED heap

-----------------------------------------------------------------------------
(***************************************************************************)
(* What a call does to a mixture.                                          *)
(***************************************************************************)
SetMoles(m, moles) == IF m.immutable THEN m ELSE [m EXCEPT !.moles = moles]

Plus(a, b) == [g \in Gases |-> a[g] + b[g]]
Minus(a, b) == [g \in Gases |-> a[g] - b[g]]
TotalMoles(moles) == MapThenSumSet(LAMBDA g : moles[g], Gases)

Merge(m, giver) == SetMoles(m, Plus(m.moles, giver.moles))

\* Mutant: what is removed from an immutable mixture is gone.
SubtractAlways(m, removed) == [m EXCEPT !.moles = Minus(@, removed)]

\* Mutant: what is removed stays.
SubtractNothing(m, removed) == m

Subtract(m, removed) == SetMoles(m, Minus(m.moles, removed))

\* remove_ratio(part / whole), of the gases there are more than no moles of.
RatioOf(m, part, whole) ==
  [g \in Gases |->
     IF m.moles[g] <= 0 \/ part * whole < 0 THEN 0
     ELSE IF whole = 0 \/ part > whole THEN m.moles[g]
     ELSE (m.moles[g] * part) \div whole]

CopyFromMutable(m, moles) == IF m.vacuum THEN m ELSE SetMoles(m, moles)

\* A division that cuts off, as a conversion to int does.
Quotient(a, b) == IF a < 0 THEN -((-a) \div b) ELSE a \div b

Shared(m, sharer, turfs) ==
  [g \in Gases |-> Quotient(m.archived[g] - sharer.archived[g], turfs + 1)]

-----------------------------------------------------------------------------
(***************************************************************************)
(* The hooks of a datum.  get_gas_mixture of a datum without an address    *)
(* raises a runtime and reads through the null pointer: it is not called.  *)
(***************************************************************************)
Of(d) == mixture[pointer[d]]

InBounds(mix) ==
  \A p \in Pointers, g \in Gases : mix[p].moles[g] \in -(MaxMoles \div 2) .. MaxMoles

Change(d, m) ==
  /\ pointer[d] # Null
  /\ mixture' = [mixture EXCEPT ![pointer[d]] = m]
  /\ InBounds(mixture')
  /\ UNCHANGED <<heap, tile_air>>

\* d first, then e, which may be the same mixture.
Change2(d, m, e, n) ==
  /\ pointer[d] # Null /\ pointer[e] # Null
  /\ mixture' = [mixture EXCEPT ![pointer[d]] = m, ![pointer[e]] = n]
  /\ InBounds(mixture')
  /\ UNCHANGED <<heap, tile_air>>

\* archive, mark_immutable, mark_vacuum, set_moles, and multiply or clear.
Single(d) ==
  /\ pointer[d] # Null
  /\ \/ Change(d, [Of(d) EXCEPT !.archived = Of(d).moles])
     \/ Change(d, [Of(d) EXCEPT !.immutable = TRUE])
     \/ Change(d, [Of(d) EXCEPT !.vacuum = TRUE])
     \/ \E g \in Gases, n \in 0 .. MaxMoles :
          Change(d, SetMoles(Of(d), [Of(d).moles EXCEPT ![g] = n]))
     \/ \E factor \in {0, 2} :
          Change(d, SetMoles(Of(d), [g \in Gases |-> factor * Of(d).moles[g]]))

HookMerge(d, e) ==
  /\ pointer[d] # Null /\ pointer[e] # Null
  /\ Change(d, Merge(Of(d), Of(e)))

HookCopyFrom(d, e) ==
  /\ pointer[d] # Null /\ pointer[e] # Null
  /\ Change(d, CopyFromMutable(Of(d), Of(e).moles))

\* remove(n) and remove_ratio(part / whole) of d, into e, which loses what it
\* had.  When they are one, only what was removed stays.
RemoveInto(d, e, part, whole) ==
  LET removed == RatioOf(Of(d), part, whole)
      left == Subtract(Of(d), removed)
  IN  IF pointer[d] = pointer[e] THEN Change(d, CopyFromMutable(left, removed))
      ELSE Change2(d, left, e, CopyFromMutable(Of(e), removed))

HookRemove(d, e) ==
  /\ pointer[d] # Null /\ pointer[e] # Null
  /\ \/ \E n \in 1 .. MaxMoles : RemoveInto(d, e, n, TotalMoles(Of(d).moles))
     \/ RemoveInto(d, e, 1, 2)

\* Nothing moves between a mixture and itself.
HookShare(d, e, turfs) ==
  /\ pointer[d] # Null /\ pointer[e] # Null
  /\ pointer[d] # pointer[e]
  /\ LET delta == Shared(Of(d), Of(e), turfs)
     IN  Change2(d, SetMoles(Of(d), Minus(Of(d).moles, delta)),
                 e, SetMoles(Of(e), Plus(Of(e).moles, delta)))

\* The gases that are scrubbed go through a buffer.
HookScrubInto(d, e, gases) ==
  LET scrubbed == [g \in Gases |-> IF g \in gases /\ Of(d).moles[g] > 0
                                   THEN Of(d).moles[g] ELSE 0]
      left == SetMoles(Of(d), [g \in Gases |-> IF g \in gases THEN 0 ELSE Of(d).moles[g]])
      buffer == [GasMixture EXCEPT !.moles = scrubbed]
  IN
  /\ pointer[d] # Null /\ pointer[e] # Null
  /\ IF pointer[d] = pointer[e] THEN Change(d, Merge(left, buffer))
     ELSE Change2(d, left, e, Merge(Of(e), buffer))

Registry ==
  \/ \E d \in Datums : Register(d) \/ Unregister(d) \/ DelDatum(d)
  \/ \E t \in Turfs, p \in Pointers \cup {Null} : UpdateAirRef(t, p)

Pair(d, e) ==
  \/ HookMerge(d, e)
  \/ HookCopyFrom(d, e)
  \/ HookRemove(d, e)
  \/ \E turfs \in {1, 4} : HookShare(d, e, turfs)
  \/ \E gases \in SUBSET Gases \ {{}} : HookScrubInto(d, e, gases)

GasNext ==
  \/ Registry
  \/ \E d \in Datums : Single(d)
  \/ \E d, e \in Datums : Pair(d, e)

GasSpec == GasInit /\ [][GasNext]_gasVars

-----------------------------------------------------------------------------
(* No address a datum holds was freed, no two datums hold the same, and the  *)
(* count is that of the pointers on the heap, of which only those are lost   *)
(* that a second registration or a datum with many variables left behind     *)
(* (gasmixture_register, gasmixture_unregister, hDelDatum).                  *)
RegistryIsSound ==
  /\ \A d \in Datums : pointer[d] # Null => pointer[d] \in allocated
  /\ \A d, e \in Datums : pointer[d] = pointer[e] /\ d # e => pointer[d] = Null
  /\ gas_mixture_count = Cardinality(allocated)
  /\ allocated = lost \cup ({pointer[d] : d \in Datums} \ {Null})

(* Once immutable, the air of a mixture that lives stays what it is: through *)
(* a datum, as the other side of a call, or through both ("should maintain   *)
(* this principle", GasMixture.cpp).                                         *)
ImmutablesKeep ==
  [][\A p \in Pointers :
       mixture[p].immutable /\ p \notin Unused' =>
         mixture'[p].immutable /\ mixture'[p].moles = mixture[p].moles]_gasVars

AllMoles(mix) ==
  LET total == [p \in Pointers |-> TotalMoles(mix[p].moles)]
  IN  MapThenSumSet(LAMBDA p : total[p], Pointers)
Everything == AllMoles(mixture)

Moves(d, e) ==
  \/ HookRemove(d, e) /\ Of(e).moles = NoGas
  \/ \E turfs \in {1, 4} : HookShare(d, e, turfs)
  \/ \E gases \in SUBSET Gases \ {{}} : HookScrubInto(d, e, gases)

(* A removal into an empty mixture of its own, a share and a scrubbing move  *)
(* gas between mixtures that can change and neither make nor lose any, if a  *)
(* share of stale archives has not left less than nothing of a gas.          *)
MovesKeepGas ==
  [][Everything' # Everything =>
       \A d, e \in {f \in Datums : pointer[f] # Null} :
         /\ pointer[d] # pointer[e]
         /\ ~ Of(d).immutable /\ ~ Of(e).immutable /\ ~ Of(e).vacuum
         /\ \A g \in Gases : Of(d).moles[g] >= 0
         => ~ Moves(d, e)]_gasVars
=============================================================================
