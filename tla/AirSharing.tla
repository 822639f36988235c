------------------------------- MODULE AirSharing -------------------------------
(***************************************************************************)
(* How much air process_cell moves.  What a turf gives is a part of the    *)
(* difference between two archived airs, but it is taken from the airs of  *)
(* now, and a turf's own archive may be as old as its last neighbour's     *)
(* turn.  Space, planets, temperature and reactions are left out; the      *)
(* groups are in ExcitedGroups, of which only Grouped matters here: airs   *)
(* that do not differ are shared if both turfs are grouped.                *)
(***************************************************************************)
EXTENDS Integers, SequencesExt

CONSTANTS
  Cells,         (* the turfs that have air.                                 *)
  Adjacent,      (* turf -> its neighbours, in the order of the bits.        *)
  FirstAirs,     (* what the airs may be at first.                           *)
  MaxFires       (* bound: fire_count.                                       *)

\* Both turfs or neither have the other among their adjacent turfs.
ASSUME SharingAssumption ==
  /\ Adjacent \in [Cells -> Seq(Cells)]
  /\ \A t \in Cells : \A i \in 1 .. Len(Adjacent[t]) :
       LET enemy == Adjacent[t][i]
       IN  /\ enemy # t
           /\ \E j \in 1 .. Len(Adjacent[enemy]) : Adjacent[enemy][j] = t
  /\ FirstAirs \subseteq [Cells -> Nat]
  /\ MaxFires \in Nat

VARIABLES
  turf_moles, moles_archived,
  archived_cycle, current_cycle,
  fire_count,
  strained       (* history: a turf had its turn after a neighbour that has  *)
                 (* less than half as many ways.                             *)

airs == <<turf_moles, moles_archived, archived_cycle, current_cycle>>
sharingVars == <<airs, fire_count, strained>>

SharingInit ==
  /\ turf_moles \in FirstAirs
  /\ moles_archived = [t \in Cells |-> 0]
  /\ archived_cycle = [t \in Cells |-> 0]
  /\ current_cycle = [t \in Cells |-> 0]
  /\ fire_count = 1
  /\ strained = FALSE

Now == [moles |-> turf_moles, archived |-> moles_archived, cycle |-> archived_cycle]

Archive(now, t) ==
  [now EXCEPT !.archived[t] = now.moles[t], !.cycle[t] = fire_count]

\* A definition marked "Mutant" is no part of the model: it is the slip its
\* name says, kept to show which property notices it.

\* Mutant: a neighbour keeps the archive it has.
EnemyAsItWas(now, t) == now

EnemyArchived(now, t) == Archive(now, t)

OwnArchive(now, t) ==
  IF now.cycle[t] < fire_count THEN Archive(now, t) ELSE now

\* A division that cuts off, as a float has an end.
Portion(a, b) == IF a < 0 THEN -((-a) \div b) ELSE a \div b

Share(now, t, enemy) ==
  LET delta == Portion(now.archived[t] - now.archived[enemy], Len(Adjacent[t]) + 1)
      air == now.moles
  IN  [now EXCEPT !.moles = [air EXCEPT ![t] = air[t] - delta,
                                        ![enemy] = air[enemy] + delta]]

\* One neighbour; grouped are those whose air is shared though it is the same.
Meet(now, t, enemy, grouped) ==
  LET archived == EnemyArchived(now, enemy)
  IN  IF current_cycle[enemy] >= fire_count THEN now
      ELSE IF now.moles[t] # now.moles[enemy] \/ enemy \in grouped
      THEN Share(archived, t, enemy) ELSE archived

\* The neighbours of t, one after the other.
AfterTurn(t, grouped) ==
  FoldLeft(LAMBDA now, enemy : Meet(now, t, enemy, grouped), OwnArchive(Now, t), Adjacent[t])

\* A neighbour had its turn in this cycle: it made the archive of t, or a later
\* neighbour did, and with so few ways it may have taken the larger part of it.
Strains(t) ==
  \E enemy \in ToSet(Adjacent[t]) :
    /\ current_cycle[enemy] = fire_count
    /\ Len(Adjacent[t]) > 2 * Len(Adjacent[enemy]) + 1

\* The DM side processes a turf once in a cycle.
ProcessCell(t) ==
  /\ current_cycle[t] < fire_count
  /\ \E grouped \in SUBSET ToSet(Adjacent[t]) :
       /\ turf_moles' = AfterTurn(t, grouped).moles
       /\ moles_archived' = AfterTurn(t, grouped).archived
       /\ archived_cycle' = AfterTurn(t, grouped).cycle
  /\ current_cycle' = [current_cycle EXCEPT ![t] = fire_count]
  /\ strained' = (strained \/ Strains(t))
  /\ UNCHANGED fire_count

\* The next cycle may begin before all turfs had their turn.
Fire ==
  /\ fire_count < MaxFires
  /\ fire_count' = fire_count + 1
  /\ UNCHANGED <<airs, strained>>

SharingNext == Fire \/ \E t \in Cells : ProcessCell(t)

SharingSpec == SharingInit /\ [][SharingNext]_sharingVars

-----------------------------------------------------------------------------
(* Nobody gives more than it has, in whatever order the turfs have their     *)
(* turns and however stale their own archives are by then (process_cell,     *)
(* share), until a turf has its turn after a neighbour with less than half   *)
(* as many ways: then it may, as a turf of four ways at the end of a         *)
(* corridor that gave a half of its air and gives three fifths of it again.  *)
NoOverdraft == strained \/ \A t \in Cells : turf_moles[t] >= 0
=============================================================================
