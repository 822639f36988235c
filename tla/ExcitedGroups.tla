----------------------------- MODULE ExcitedGroups -----------------------------
(***************************************************************************)
(* Excited groups of the atmospherics: turfs that share air are grouped,   *)
(* groups that meet are merged, and the air controller counts the ticks    *)
(* until a group's air is averaged, and until the group is dismantled.     *)
(*                                                                         *)
(* A tile holds a shared pointer to its group, a group a list of its       *)
(* tiles, and nothing but the code below keeps the two in step.  Whether   *)
(* two airs differ and how much is shared are choices; every tile has air. *)
(* The DM side calls the hooks in any order and at any time.               *)
(***************************************************************************)
EXTENDS Integers, Sequences, FiniteSets

CONSTANTS
  Turfs,
  Groups,           (* the objects an ExcitedGroup may be allocated at.      *)
  None,             (* the null pointer.                                     *)
  Adjacent,         (* turf -> its neighbours, in the order of the bits.     *)
  Planetary,        (* the turfs that share with a planet's air.             *)
  BreakdownCycles,  (* EXCITED_GROUP_BREAKDOWN_CYCLES (4).                   *)
  DismantleCycles   (* EXCITED_GROUP_DISMANTLE_CYCLES (16).                  *)

ASSUME GroupsAssumption ==
  /\ None \notin Turfs \cup Groups
  /\ Adjacent \in [Turfs -> Seq(Turfs)]
  /\ Planetary \subseteq Turfs
  /\ BreakdownCycles \in Nat /\ DismantleCycles \in Nat

VARIABLES
  excited_group,       (* turf -> its group, or None.                        *)
  excited,             (* turf -> whether it is active.                      *)
  turf_list,           (* group -> its tiles.                                *)
  breakdown_cooldown,  (* group -> ticks since the last breakdown.           *)
  dismantle_cooldown,  (* group -> ticks since air was last shared.          *)
  excited_groups,      (* the weak pointers, of the groups that live.        *)
  excited_groups_currentrun,
  current_cycle,       (* the turfs whose current_cycle is this fire_count.  *)
  cell,                (* the turf process_cell runs for, or None.           *)
  neighbour,           (* the index of the neighbour it looks at.            *)
  aliased              (* history: since the last refresh, a merge assigned  *)
                       (* to the pointer it reads the other group from.      *)

tileVars == <<excited_group, excited>>
groupVars == <<turf_list, breakdown_cooldown, dismantle_cooldown>>
listVars == <<excited_groups, excited_groups_currentrun>>
cellVars == <<current_cycle, cell, neighbour>>
vars == <<tileVars, groupVars, listVars, cellVars, aliased>>

Init ==
  /\ excited_group = [t \in Turfs |-> None]
  /\ excited = [t \in Turfs |-> FALSE]
  /\ turf_list = [g \in Groups |-> <<>>]
  /\ breakdown_cooldown = [g \in Groups |-> 0]
  /\ dismantle_cooldown = [g \in Groups |-> 0]
  /\ excited_groups = <<>>
  /\ excited_groups_currentrun = <<>>
  /\ current_cycle = {}
  /\ cell = None
  /\ neighbour = 1
  /\ aliased = FALSE

Elements(l) == {l[i] : i \in DOMAIN l}

-----------------------------------------------------------------------------
(***************************************************************************)
(* A call changes pointers, lists and cooldowns one after the other: the   *)
(* operators take all of them as one record and return what they become.   *)
(***************************************************************************)
Now == [ptr |-> excited_group, list |-> turf_list,
        brk |-> breakdown_cooldown, dis |-> dismantle_cooldown,
        all |-> excited_groups]

\* What is left of l, in its order, when only the groups in alive are: the
\* sequence of the elements at the positions k[1] < k[2] < ...  It is given by
\* these, not by SelectSeq, as it is reasoned about.
Rising(k) == \A i, j \in DOMAIN k : i < j => k[i] < k[j]

Kept(l, alive) ==
  {[i \in DOMAIN k |-> l[k[i]]] :
     k \in {k \in UNION {[1 .. n -> DOMAIN l] : n \in 0 .. Len(l)} :
             /\ Rising(k)
             /\ Elements(k) = {i \in DOMAIN l : l[i] \in alive}}}

\* A group lives while a tile points to it.  The destructor takes it out of
\* excited_groups; its entry in a current run can no longer be locked.
Become(now) ==
  LET alive == {now.ptr[t] : t \in Turfs}
  IN  /\ excited_group' = now.ptr
      /\ turf_list' = [g \in Groups |-> IF g \in alive THEN now.list[g] ELSE <<>>]
      /\ breakdown_cooldown' =
           [g \in Groups |-> IF g \in alive THEN now.brk[g] ELSE 0]
      /\ dismantle_cooldown' =
           [g \in Groups |-> IF g \in alive THEN now.dis[g] ELSE 0]
      /\ excited_groups' \in Kept(now.all, alive)

\* What is left of a current run.
RunGoesOn(run) ==
  excited_groups_currentrun' \in Kept(run, {excited_group'[t] : t \in Turfs})

ResetCooldowns(now, g) ==
  [now EXCEPT !.brk[g] = 0, !.dis[g] = 0]

AddTurf(now, g, t) ==
  ResetCooldowns([now EXCEPT !.list[g] = Append(@, t), !.ptr[t] = g], g)

\* A definition marked "Mutant" is no part of the model: it is the slip its
\* name says, kept to show which property notices it.

\* Mutant: a turf is added whether it has a group or not.
AddAnyTurf(now, g, t) == AddTurf(now, g, t)

AddUngrouped(now, g, t) == IF now.ptr[t] = None THEN AddTurf(now, g, t) ELSE now

Point(ptr, tiles, g) == [t \in Turfs |-> IF t \in tiles THEN g ELSE ptr[t]]

\* merge_groups of a group us with the group that enemy points to, which it
\* gets as a reference to enemy's own pointer.
IntoOther(now, us, enemy) ==
  LET other == now.ptr[enemy]
  IN  ResetCooldowns(
        [now EXCEPT !.ptr = Point(@, Elements(now.list[us]), other),
                    !.list[other] = @ \o now.list[us],
                    !.list[us] = <<>>], other)

IntoUs(now, us, enemy) ==
  LET other == now.ptr[enemy]
  IN  ResetCooldowns(
        [now EXCEPT !.ptr = Point(@, Elements(now.list[other]), us),
                    !.list[us] = @ \o now.list[other],
                    !.list[other] = <<>>], us)

\* From the turn of enemy itself on, other is us: the loop goes on through
\* our own tiles, and the list that is cleared in the end is ours.
IntoUsAliased(now, us, enemy) ==
  LET theirs == now.list[now.ptr[enemy]]
      turn == CHOOSE i \in DOMAIN theirs :
                /\ theirs[i] = enemy
                /\ \A j \in 1 .. i - 1 : theirs[j] # enemy
      tiles == {theirs[i] : i \in 1 .. turn}
                 \cup {now.list[us][i] : i \in turn + 1 .. Len(theirs)}
  IN  ResetCooldowns([now EXCEPT !.ptr = Point(@, tiles, us),
                                 !.list[us] = <<>>], us)

Aliases(now, us, enemy) ==
  LET theirs == now.list[now.ptr[enemy]]
  IN  Len(now.list[us]) > Len(theirs) /\ enemy \in Elements(theirs)

MergeGroups(now, us, enemy) ==
  IF Aliases(now, us, enemy) THEN IntoUsAliased(now, us, enemy)
  ELSE IF Len(now.list[us]) > Len(now.list[now.ptr[enemy]])
  THEN IntoUs(now, us, enemy)
  ELSE IntoOther(now, us, enemy)

\* A group a planetary turf or a pair of turfs begins.
Initialize(now, g) == [now EXCEPT !.all = Append(@, g)]

IsFree(g) == \A t \in Turfs : excited_group[t] # g

Shares == {"little", "some", "much"}

\* last_share_check: what share does to the cooldowns of the turf's group.
LastShareCheck(now, t, share) ==
  CASE share = "much" -> ResetCooldowns(now, now.ptr[t])
    [] share = "some" -> [now EXCEPT !.dis[now.ptr[t]] = 0]
    [] OTHER -> now

-----------------------------------------------------------------------------
(***************************************************************************)
(* process_cell: one step per neighbour.  Nothing else runs meanwhile.     *)
(***************************************************************************)
ProcessCell(t) ==
  /\ cell = None
  /\ cell' = t
  /\ neighbour' = 1
  /\ current_cycle' = current_cycle \cup {t}
  /\ UNCHANGED <<tileVars, groupVars, listVars, aliased>>

AtNeighbour ==
  /\ cell # None
  /\ neighbour <= Len(Adjacent[cell])

NextNeighbour ==
  /\ neighbour' = neighbour + 1
  /\ UNCHANGED <<current_cycle, cell>>

Enemy == Adjacent[cell][neighbour]
BothGrouped == excited_group[cell] # None /\ excited_group[Enemy] # None

\* It was processed in this cycle, or its air does not differ.
Skip ==
  /\ AtNeighbour
  /\ Enemy \in current_cycle \/ ~ BothGrouped
  /\ NextNeighbour
  /\ UNCHANGED <<tileVars, groupVars, listVars, aliased>>

Meet(share) ==
  LET us == excited_group[cell]
      merged == IF us = excited_group[Enemy] THEN Now
                ELSE MergeGroups(Now, us, Enemy)
  IN
  /\ AtNeighbour
  /\ Enemy \notin current_cycle
  /\ BothGrouped
  /\ Become(LastShareCheck(merged, cell, share))
  /\ RunGoesOn(excited_groups_currentrun)
  /\ aliased' = (aliased \/ (us # excited_group[Enemy]
                               /\ Aliases(Now, us, Enemy)))
  /\ NextNeighbour
  /\ UNCHANGED excited

\* add_to_active, on the DM side, sets excited.
Join(g, share) ==
  LET mine == excited_group[cell]
      theirs == excited_group[Enemy]
      begun == IF mine = None /\ theirs = None THEN Initialize(Now, g) ELSE Now
      joined == AddUngrouped(AddUngrouped(begun, g, cell), g, Enemy)
  IN
  /\ AtNeighbour
  /\ Enemy \notin current_cycle
  /\ ~ BothGrouped
  /\ \/ g = mine
     \/ g = theirs
     \/ mine = None /\ theirs = None /\ IsFree(g)
  /\ excited' = [excited EXCEPT ![Enemy] = TRUE]
  /\ Become(LastShareCheck(joined, cell, share))
  /\ RunGoesOn(excited_groups_currentrun)
  /\ NextNeighbour
  /\ UNCHANGED aliased

\* After the neighbours a planetary turf may share with its planet.
EndCell ==
  /\ cell # None
  /\ neighbour > Len(Adjacent[cell])
  /\ cell' = None
  /\ neighbour' = 1
  /\ UNCHANGED <<current_cycle, tileVars, groupVars, listVars, aliased>>

SharePlanet(g, share) ==
  LET mine == excited_group[cell]
      grouped == IF mine = None THEN AddTurf(Initialize(Now, g), g, cell) ELSE Now
  IN
  /\ cell \in Planetary
  /\ neighbour > Len(Adjacent[cell])
  /\ g = mine \/ (mine = None /\ IsFree(g))
  /\ Become(LastShareCheck(grouped, cell, share))
  /\ RunGoesOn(excited_groups_currentrun)
  /\ cell' = None
  /\ neighbour' = 1
  /\ UNCHANGED <<current_cycle, excited, aliased>>

CellStep ==
  \/ Skip
  \/ \E share \in Shares : Meet(share)
  \/ \E g \in Groups, share \in Shares : Join(g, share) \/ SharePlanet(g, share)
  \/ EndCell

-----------------------------------------------------------------------------
(***************************************************************************)
(* The other hooks, and the air controller.                                *)
(***************************************************************************)
Idle == cell = None

\* The DM side begins a new cycle: fire_count grows.
Fire ==
  /\ Idle
  /\ current_cycle' = {}
  /\ UNCHANGED <<tileVars, groupVars, listVars, cell, neighbour, aliased>>

SetExcited(t, b) ==
  /\ Idle
  /\ excited' = [excited EXCEPT ![t] = b]
  /\ UNCHANGED <<excited_group, groupVars, listVars, cellVars, aliased>>

EgResetCooldowns(t) ==
  /\ Idle
  /\ excited_group[t] # None
  /\ Become(ResetCooldowns(Now, excited_group[t]))
  /\ UNCHANGED <<excited, excited_groups_currentrun, cellVars, aliased>>

\* Mutant: dismantle leaves the first tile of its list its group.
DismantleButFirst(now, g) ==
  [now EXCEPT !.ptr = Point(@, {now.list[g][i] : i \in 2 .. Len(now.list[g])}, None),
              !.list[g] = <<>>]

Dismantle(now, g) ==
  [now EXCEPT !.ptr = Point(@, Elements(now.list[g]), None), !.list[g] = <<>>]

EgGarbageCollect(t) ==
  /\ Idle
  /\ excited_group[t] # None
  /\ Become(Dismantle(Now, excited_group[t]))
  /\ RunGoesOn(excited_groups_currentrun)
  /\ UNCHANGED <<excited, cellVars, aliased>>

\* refresh_atmos_grid on a map of the same size: every tile is moved to a new
\* grid without its group, and the groups die with their last pointers.
Refresh ==
  /\ Idle
  /\ Become([Now EXCEPT !.ptr = [t \in Turfs |-> None]])
  /\ RunGoesOn(excited_groups_currentrun)
  /\ aliased' = FALSE
  /\ UNCHANGED <<excited, cellVars>>

\* Mutant: a breakdown resets both cooldowns.
SelfBreakdownResets(now, g) == ResetCooldowns(now, g)

SelfBreakdown(now, g) ==
  IF now.list[g] = <<>> THEN now ELSE [now EXCEPT !.brk[g] = 0]

\* A cooldown above its limit is as good as at the limit.
UpTo(limit, n) == IF n > limit THEN limit ELSE n

\* One group of process_excited_groups.  The time may be up after each; the
\* next call goes on with the rest, or begins a new run.
ProcessExcitedGroup(g, resumed) ==
  LET run == IF resumed THEN excited_groups_currentrun ELSE excited_groups
      brk == UpTo(BreakdownCycles, breakdown_cooldown[g] + 1)
      dis == UpTo(DismantleCycles, dismantle_cooldown[g] + 1)
      ticked == [Now EXCEPT !.brk[g] = brk, !.dis[g] = dis]
      broken == IF brk >= BreakdownCycles THEN SelfBreakdown(ticked, g) ELSE ticked
  IN
  /\ Idle
  /\ run # <<>>
  /\ g = run[Len(run)]
  /\ IF dis >= DismantleCycles
     THEN /\ Become(Dismantle(broken, g))
          /\ excited' = [t \in Turfs |-> excited[t] /\ t \notin Elements(turf_list[g])]
     ELSE Become(broken) /\ UNCHANGED excited
  /\ RunGoesOn(SubSeq(run, 1, Len(run) - 1))
  /\ UNCHANGED <<cellVars, aliased>>

Hooks(t) ==
  \/ ProcessCell(t)
  \/ \E b \in BOOLEAN : SetExcited(t, b)
  \/ EgResetCooldowns(t)
  \/ EgGarbageCollect(t)

Controller == \E g \in Groups, resumed \in BOOLEAN : ProcessExcitedGroup(g, resumed)

Next ==
  \/ \E t \in Turfs : Hooks(t)
  \/ CellStep
  \/ Fire
  \/ Refresh
  \/ Controller

Spec == Init /\ [][Next]_vars

\* process_cell ends, and the air controller keeps ticking.
FairSpec == Spec /\ WF_vars(CellStep) /\ WF_vars(Controller)

-----------------------------------------------------------------------------
(* Every group that lives is known to the air controller, once, so it ticks  *)
(* once in a run (initialize, ~ExcitedGroup and their "first expired one").  *)
EveryGroupIsKnown ==
  /\ Elements(excited_groups) = {excited_group[t] : t \in Turfs} \ {None}
  /\ Cardinality(Elements(excited_groups)) = Len(excited_groups)
  /\ Cardinality(Elements(excited_groups_currentrun))
       = Len(excited_groups_currentrun)

(* No tile is in two lists or twice in one, and none that has no group is in *)
(* any, or a breakdown would count its air twice: not even after a merge     *)
(* went wrong (add_turf, merge_groups, dismantle).  And no group is known to *)
(* the controller twice, which would tick it twice in a run.                 *)
ListedOnce ==
  /\ EveryGroupIsKnown
  /\ \A g, h \in Groups :
       \A i \in DOMAIN turf_list[g], j \in DOMAIN turf_list[h] :
         turf_list[g][i] = turf_list[h][j] => g = h /\ i = j
  /\ \A g \in Groups, t \in Turfs :
       t \in Elements(turf_list[g]) => excited_group[t] # None

(* A group's list and the tiles' pointers agree until a merge assigns to the *)
(* pointer it reads from, and again after a refresh (merge_groups, add_turf, *)
(* dismantle, refresh).                                                      *)
ListsAgree ==
  ~ aliased =>
    \A g \in Groups :
      Elements(turf_list[g]) = {t \in Turfs : excited_group[t] = g}

(* While no cell is processed, no cooldown reset and no merge has gone wrong *)
(* the controller's ticks dismantle every group (process_excited_groups).    *)
QuietGroupsEnd ==
  \/ []<><<\E t \in Turfs : ProcessCell(t) \/ EgResetCooldowns(t)>>_vars
  \/ []<>aliased
  \/ []<>(\A t \in Turfs : excited_group[t] = None)

(* "number of FULL air controller ticks before an excited group dismantles   *)
(* and removes its turfs from active" (atmos_defines.h:27): after a dismantle*)
(* no turf points to the group, and none of them is excited.                 *)
DismantleRemovesTurfs ==
  [][\A g \in Groups :
       /\ \E resumed \in BOOLEAN : ProcessExcitedGroup(g, resumed)
       /\ dismantle_cooldown[g] + 1 >= DismantleCycles
       => \A t \in Turfs : excited_group[t] = g =>
            excited_group'[t] = None /\ ~ excited'[t]]_vars
=============================================================================
