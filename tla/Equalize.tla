-------------------------------- MODULE Equalize --------------------------------
(***************************************************************************)
(* Zone equalization ("monstermos"): a turf whose air differs from its     *)
(* neighbours' collects the zone it opens to, plans who gives how much air *)
(* to whom so that all end with the average, and carries the plan out; a   *)
(* zone open to space is emptied, one open to a planet gets its air.       *)
(*                                                                         *)
(* An air is its number of moles of one gas, a whole number (a share that  *)
(* does not divide leaves its rest where it is, as a float rounds).  Space is the   *)
(* immutable vacuum.  Everything is one call of the DM side; it calls back *)
(* in consider_firelocks, which may close the way it asks about.           *)
(***************************************************************************)
EXTENDS Integers, SequencesExt

CONSTANTS
  Tiles,
  Neighbour,     (* tile -> the directions it has a neighbour in -> that     *)
                 (* neighbour, adjacent[] when every way is open.            *)
  Firelocks,     (* the pairs of tiles with a firelock between them.         *)
  Layouts,       (* what the tiles may be: records of sets of tiles, space,  *)
                 (* planet, wall (no air) and full (FullMoles of air).       *)
  FullMoles, PlanetMoles,
  TurfLimit,     (* MONSTERMOS_TURF_LIMIT (200).                             *)
  HardLimit,     (* MONSTERMOS_HARD_TURF_LIMIT (2000).                       *)
  Minimum,       (* MINIMUM_MOLES_DELTA_TO_MOVE.                             *)
  RatioToMove,   (* one in so many moles: 1 / MINIMUM_AIR_RATIO_TO_MOVE.     *)
  MaxCycle       (* bound: the cycles of the air controller.                 *)

(* NORTH, SOUTH, EAST, WEST, UP, DOWN; Still is the direction 6 of the code. *)
Directions == <<1, 2, 3, 4, 5, 6>>
Still == 7
opp_dir_index == <<2, 1, 4, 3, 6, 5, 7>>

(* The ways from a tile lead to different tiles, and back from them; space is *)
(* empty.                                                                     *)
ASSUME EqualizeAssumption ==
  /\ IsFiniteSet(Tiles)
  /\ \A t \in Tiles : \A d \in DOMAIN Neighbour[t] :
       LET u == Neighbour[t][d]
       IN  /\ d \in ToSet(Directions) /\ u \in Tiles \ {t}
           /\ opp_dir_index[d] \in DOMAIN Neighbour[u]
           /\ Neighbour[u][opp_dir_index[d]] = t
           /\ \A e \in DOMAIN Neighbour[t] \ {d} : Neighbour[t][e] # u
  /\ \A l \in Layouts : l.space \cap (l.planet \cup l.full) = {}
  /\ FullMoles \in Nat /\ PlanetMoles \in Nat
  /\ TurfLimit \in Nat \ {0} /\ HardLimit \in Nat /\ TurfLimit <= HardLimit

VARIABLES
  layout,        (* which tiles are space, planet or wall.                   *)
  moles,         (* tile -> air->total_moles().                              *)
  adjacent_bits, (* tile -> the directions that are open.                    *)
  info,          (* tile -> its MonstermosInfo; a tile without one is as one *)
                 (* with a new one.                                          *)
  active,        (* tiles given to add_to_active.                            *)
  cyclenum,
  pc, this,      (* the loop the call is in, and the tile it was made for.   *)
  turfs, planet_turfs, average_moles,
  queue_cycle,   (* tiles whose last_queue_cycle is the current one.         *)
  slow_cycle,    (* tiles whose last_slow_queue_cycle is the current one.    *)
  work, giving,  (* givers (or takers) still to serve.                       *)
  queue, index,  (* the loop variables.                                      *)
  sealed         (* history: a firelock closed during this call.             *)

world == <<layout, cyclenum, active>>
call == <<world, this>>
air == <<moles, adjacent_bits, sealed>>
zoneVars == <<turfs, planet_turfs, average_moles, queue_cycle>>
served == <<work, giving, slow_cycle>>
loop == <<queue, index>>
vars == <<call, air, info, pc, zoneVars, served, loop>>

MonstermosInfo ==
  [last_cycle |-> 0, mole_delta |-> 0, curr_transfer_amount |-> 0,
   curr_transfer_dir |-> Still, transfer_dirs |-> [d \in 1 .. Still |-> 0]]

Infos ==
  [last_cycle : Nat, mole_delta : Int, curr_transfer_amount : Int,
   curr_transfer_dir : 1 .. Still, transfer_dirs : [1 .. Still -> Int]]

\* A direction to transfer to is one with a neighbour, or Still.
Plans ==
  {inf \in [Tiles -> Infos] :
     \A t \in Tiles : inf[t].curr_transfer_dir \in DOMAIN Neighbour[t] \cup {Still}}

Init ==
  /\ layout \in Layouts
  /\ moles = [t \in Tiles |-> CASE t \in layout.planet -> PlanetMoles
                                [] t \in layout.full -> FullMoles
                                [] OTHER -> 0]
  /\ adjacent_bits = [t \in Tiles |-> DOMAIN Neighbour[t]]
  /\ info = [t \in Tiles |-> MonstermosInfo]
  /\ active = {}
  /\ cyclenum = 1
  /\ pc = "idle" /\ this = CHOOSE t \in Tiles : TRUE
  /\ turfs = <<>> /\ planet_turfs = <<>> /\ average_moles = 0
  /\ queue_cycle = {} /\ slow_cycle = {}
  /\ work = <<>> /\ giving = FALSE /\ queue = <<>> /\ index = 1
  /\ sealed = FALSE

\* The call is over, and its local variables with it.
Return ==
  /\ pc' = "idle" /\ this' = CHOOSE t \in Tiles : TRUE
  /\ turfs' = <<>> /\ planet_turfs' = <<>> /\ average_moles' = 0
  /\ queue_cycle' = {} /\ slow_cycle' = {}
  /\ work' = <<>> /\ giving' = FALSE /\ queue' = <<>> /\ index' = 1
  /\ sealed' = FALSE

HasAir(t) == t \notin layout.wall
IsSpace(t) == t \in layout.space
IsPlanet(t) == t \in layout.planet
Abs(n) == IF n < 0 THEN -n ELSE n
Differ(t, u) == Abs(moles[t] - moles[u]) > Minimum

\* GasMixture::compare, of the air of t with that of u: a difference is to be a
\* part of what t has, too.  There is one gas, and one temperature.
Compare(t, u) ==
  Differ(t, u) /\ Abs(moles[t] - moles[u]) * RatioToMove > moles[t]

\* The elements of s that are in chosen, in its order.
Chosen(s, chosen) ==
  FoldLeft(LAMBDA kept, x : IF x \in chosen THEN Append(kept, x) ELSE kept, <<>>, s)

\* The open directions of a tile, in the order of its bits, that lead to tiles.
Open(t, tiles) ==
  Chosen(Directions, {d \in adjacent_bits[t] : Neighbour[t][d] \in tiles})

Beyond(t, dirs) == [k \in DOMAIN dirs |-> Neighbour[t][dirs[k]]]

Renew(tiles) == [t \in Tiles |-> IF t \in tiles THEN MonstermosInfo ELSE info[t]]

\* consider_firelocks of the ways from t in directions dirs.
Close(t, dirs) ==
  /\ adjacent_bits' =
       [u \in Tiles |-> adjacent_bits[u] \
          {d \in DOMAIN Neighbour[u] :
             \/ u = t /\ d \in dirs
             \/ Neighbour[u][d] = t /\ opp_dir_index[d] \in dirs}]
  /\ sealed' = (sealed \/ dirs # {})

Lockable(t, dirs) == {d \in ToSet(dirs) : {t, Neighbour[t][d]} \in Firelocks}

Without(dirs, closed) == Chosen(dirs, ToSet(dirs) \ closed)

-----------------------------------------------------------------------------
(***************************************************************************)
(* equalize_pressure_in_zone: is there anything to do, and for whom?       *)
(***************************************************************************)
IsNeeded(t) == \E d \in adjacent_bits[t] :
  HasAir(Neighbour[t][d]) /\ Differ(t, Neighbour[t][d])

Call(t) ==
  /\ pc = "idle"
  /\ HasAir(t)
  /\ info[t].last_cycle < cyclenum

Skip(t) ==
  /\ Call(t)
  /\ IsNeeded(t) => IsPlanet(t)
  /\ info' = [info EXCEPT ![t] = [MonstermosInfo EXCEPT !.last_cycle =
                                    IF IsNeeded(t) THEN 0 ELSE cyclenum]]
  /\ UNCHANGED <<call, air, zoneVars, served, loop, pc>>

Begin(t) ==
  /\ Call(t)
  /\ IsNeeded(t) /\ ~ IsPlanet(t)
  /\ info' = Renew({t})
  /\ pc' = "explore" /\ this' = t
  /\ turfs' = <<t>> /\ queue_cycle' = {t}
  /\ UNCHANGED <<world, air, served, loop, planet_turfs, average_moles>>

\* Planets are not explored, while they are within the limit.
EndsZone(t) == IsPlanet(t) /\ index <= TurfLimit

Found(t) ==
  IF EndsZone(t) THEN <<>>
  ELSE Beyond(t, Open(t, Tiles \ (queue_cycle \cup layout.wall)))

Exploring == pc = "explore" /\ index <= Len(turfs) /\ index - 1 <= HardLimit

Explore ==
  LET tile == turfs[index]
      found == Found(tile)
  IN
  /\ Exploring
  /\ \A k \in DOMAIN found : ~ IsSpace(found[k])
  /\ turfs' = turfs \o found
  /\ queue_cycle' = queue_cycle \cup ToSet(found)
  /\ info' = IF index <= TurfLimit
             THEN [Renew(ToSet(found)) EXCEPT ![tile].mole_delta = moles[tile]]
             ELSE Renew(ToSet(found))
  /\ planet_turfs' = IF EndsZone(tile) THEN Append(planet_turfs, tile) ELSE planet_turfs
  /\ index' = index + 1
  /\ UNCHANGED <<call, air, served, pc, average_moles, queue>>

\* Space: explosively_depressurize begins, for the same tile.
Breach ==
  LET found == Found(turfs[index])
      first == SelectInSeq(found, IsSpace)
  IN
  /\ Exploring
  /\ \E k \in DOMAIN found : IsSpace(found[k])
  /\ info' = Renew({this} \cup ToSet(SubSeq(found, 1, first)))
  /\ pc' = "breach"
  /\ turfs' = <<this>> /\ queue_cycle' = {this} /\ index' = 1
  /\ UNCHANGED <<call, air, served, planet_turfs, average_moles, queue>>

SumOf(f, tiles) == MapThenSumSet(LAMBDA t : f[t], tiles)

\* Givers (over the average) or takers of a zone, in its order.
Those(zone, inf, over) ==
  Chosen(zone, {t \in ToSet(zone) : ~ IsPlanet(t) /\ (inf[t].mole_delta > 0) = over})

\* n > log2(size)
ExceedsLog(n, size) == 2^n > size

\* Every order std::sort may leave: only the deltas count, as every
\* distance_score is 0.
SortedZones(zone, inf) ==
  {[i \in DOMAIN zone |-> zone[p[i]]] :
     p \in {q \in [DOMAIN zone -> DOMAIN zone] :
              /\ IsInjective(q)
              /\ \A i \in 1 .. Len(zone) - 1 :
                   inf[zone[q[i]]].mole_delta >= inf[zone[q[i + 1]]].mole_delta}}

Divide ==
  LET zone == SubSeq(turfs, 1, Min({TurfLimit, Len(turfs)}))
      size == Len(zone) - Len(planet_turfs)
      average == SumOf(moles, {t \in ToSet(zone) : ~ IsPlanet(t)}) \div size
      inf == [t \in Tiles |->
                IF t \in ToSet(zone)
                THEN [info[t] EXCEPT !.last_cycle = cyclenum,
                                     !.mole_delta = info[t].mole_delta - average]
                ELSE info[t]]
      fast == \A over \in BOOLEAN : ExceedsLog(Len(Those(zone, inf, over)), Len(zone))
  IN
  /\ pc = "explore"
  /\ ~ Exploring
  /\ IF fast THEN turfs' \in SortedZones(zone, inf) ELSE turfs' = zone
  /\ pc' = IF fast THEN "fast" ELSE "choose"
  /\ queue_cycle' = ToSet(zone)
  /\ average_moles' = average
  /\ info' = inf
  /\ index' = 1
  /\ UNCHANGED <<call, air, served, planet_turfs, queue>>

-----------------------------------------------------------------------------
(***************************************************************************)
(* The plan.  transfer_dirs of both ends of a way say what flows over it.  *)
(***************************************************************************)
Flows(inf, t, d, amount) ==
  [inf EXCEPT ![t].transfer_dirs[d] = inf[t].transfer_dirs[d] + amount]

AdjustEqMovement(inf, t, d, amount) ==
  IF d = Still THEN Flows(inf, t, d, amount)
  ELSE Flows(Flows(inf, t, d, amount), Neighbour[t][d], opp_dir_index[d], -amount)

Owes(inf, t, amount) == [inf EXCEPT ![t].mole_delta = inf[t].mole_delta + amount]

Passes(inf, t, amount) ==
  [inf EXCEPT ![t].curr_transfer_amount = inf[t].curr_transfer_amount + amount]

Points(inf, t, d) ==
  [inf EXCEPT ![t].curr_transfer_dir = d, ![t].curr_transfer_amount = 0]

ShareOut(inf, t, d, part) ==
  Owes(Owes(AdjustEqMovement(inf, t, d, part), t, -part), Neighbour[t][d], part)

\* The fast pass: who has too much shares it with those after it in the order.
Spread ==
  LET tile == turfs[index]
      eligible == Open(tile, queue_cycle \ {turfs[i] : i \in 1 .. index})
      part == info[tile].mole_delta \div Len(eligible)
  IN
  /\ pc = "fast"
  /\ index <= Len(turfs)
  /\ info' = IF info[tile].mole_delta > 0 /\ eligible # <<>>
             THEN FoldLeft(LAMBDA inf, d : ShareOut(inf, tile, d, part), info, eligible)
             ELSE info
  /\ index' = index + 1
  /\ UNCHANGED <<call, air, zoneVars, served, pc, queue>>

\* The slow pass serves the givers or the takers, whichever are fewer.
Choose ==
  LET givers == Those(turfs, info, TRUE)
      takers == Those(turfs, info, FALSE)
  IN
  /\ pc = "choose" \/ (pc = "fast" /\ index > Len(turfs))
  /\ giving' = (Len(givers) < Len(takers))
  /\ work' = IF giving' THEN givers ELSE takers
  /\ pc' = "slow"
  /\ UNCHANGED <<call, air, zoneVars, loop, info, slow_cycle>>

Serve ==
  /\ pc = "slow"
  /\ work # <<>>
  /\ queue' = <<Head(work)>> /\ index' = 1
  /\ slow_cycle' = {Head(work)}
  /\ info' = Points(info, Head(work), Still)
  /\ pc' = "visit"
  /\ UNCHANGED <<call, air, zoneVars, work, giving>>

Served(inf) ==
  LET delta == inf[Head(work)].mole_delta
  IN  IF giving THEN delta <= 0 ELSE delta >= 0

\* The other owes the amount less, and passes it on to the served tile.
HandsOver(inf, one, other, amount) ==
  Owes(Owes(Passes(inf, other, -amount), other, amount), one, -amount)

\* What the served tile and another do for each other: the smaller of the two
\* differences is met.
Trade(inf, one, other) ==
  LET x == inf[one].mole_delta
      y == inf[other].mole_delta
      opposite == IF giving THEN y < 0 ELSE y > 0
      much == IF giving THEN -y > x ELSE y > -x
  IN  IF ~ opposite THEN inf
      ELSE HandsOver(inf, one, other, IF much THEN x ELSE -y)

Ask(st, tile, d) ==
  LET other == Neighbour[tile][d]
      pointed == Points(st.inf, other, opp_dir_index[d])
  IN  IF Served(st.inf) THEN st
      ELSE [inf |-> Trade(pointed, Head(work), other), queue |-> Append(st.queue, other)]

Visit ==
  LET tile == queue[index]
      ways == Open(tile, (queue_cycle \ slow_cycle) \ layout.planet)
      asked == FoldLeft(LAMBDA st, d : Ask(st, tile, d),
                        [inf |-> info, queue |-> queue], ways)
  IN
  /\ pc = "visit"
  /\ index <= Len(queue) /\ ~ Served(info)
  /\ info' = asked.inf
  /\ queue' = asked.queue
  /\ slow_cycle' = slow_cycle \cup ToSet(asked.queue)
  /\ index' = index + 1
  /\ UNCHANGED <<call, air, zoneVars, pc, work, giving>>

\* A definition marked "Mutant" is no part of the model: it is the slip its
\* name says, kept to show which property notices it.

\* Mutant: what a tile passes on is not added to what the next one passes on.
PassAlone(inf, t, d) == inf

\* An amount goes on with what the next tile passes on.
PassOn(inf, t, d) == Passes(inf, Neighbour[t][d], inf[t].curr_transfer_amount)

Carry(inf, t) ==
  LET d == inf[t].curr_transfer_dir
      amount == inf[t].curr_transfer_amount
  IN  IF d = Still \/ amount = 0 THEN inf
      ELSE [PassOn(AdjustEqMovement(inf, t, d, amount), t, d)
              EXCEPT ![t].curr_transfer_amount = 0]

\* From the end of the queue, every amount moves towards the served tile.
CarryBack ==
  /\ pc = "visit"
  /\ index > Len(queue) \/ Served(info)
  /\ info' = FoldRight(LAMBDA t, inf : Carry(inf, t), queue, info)
  /\ work' = Tail(work)
  /\ pc' = "slow"
  /\ UNCHANGED <<call, air, zoneVars, loop, slow_cycle, giving>>

\* Paths to the planet's turfs, then what flows along them.
PlanPlanet ==
  /\ pc = "slow"
  /\ work = <<>>
  /\ queue' = planet_turfs
  /\ slow_cycle' = ToSet(planet_turfs)
  /\ info' = [t \in Tiles |->
                IF t \in ToSet(planet_turfs)
                THEN [info[t] EXCEPT !.curr_transfer_dir = Still] ELSE info[t]]
  /\ pc' = IF planet_turfs = <<>> THEN "finalize" ELSE "planet"
  /\ index' = 1
  /\ UNCHANGED <<call, air, zoneVars, work, giving>>

SetDirs(t, dirs) ==
  [u \in Tiles |->
     IF \E d \in ToSet(dirs) : Neighbour[t][d] = u
     THEN [info[u] EXCEPT !.curr_transfer_dir =
             opp_dir_index[CHOOSE d \in ToSet(dirs) : Neighbour[t][d] = u]]
     ELSE info[u]]

FindPlanet ==
  LET tile == queue[index]
      asked == Open(tile, (queue_cycle \ slow_cycle) \ layout.planet)
  IN
  /\ pc = "planet"
  /\ index <= Len(queue)
  /\ \E closed \in SUBSET Lockable(tile, asked) :
       /\ Close(tile, closed)
       /\ queue' = queue \o Beyond(tile, Without(asked, closed))
       /\ slow_cycle' = slow_cycle \cup ToSet(Beyond(tile, Without(asked, closed)))
       /\ info' = SetDirs(tile, Without(asked, closed))
  /\ index' = index + 1
  /\ UNCHANGED <<call, zoneVars, moles, pc, work, giving>>

\* A tile is to keep target; the rest flows on, or to the planet under it.
Flow(inf, t, target) ==
  LET d == inf[t].curr_transfer_dir
      airflow == inf[t].mole_delta - target
      moved == [AdjustEqMovement(inf, t, d, airflow) EXCEPT ![t].mole_delta = target]
  IN  IF d = Still THEN moved ELSE Owes(moved, Neighbour[t][d], airflow)

FlowToPlanet ==
  LET target == PlanetMoles - average_moles
  IN
  /\ pc = "planet"
  /\ index > Len(queue)
  /\ info' = FoldRight(LAMBDA t, inf : Flow(inf, t, target), queue, info)
  /\ pc' = "finalize"
  /\ index' = 1
  /\ UNCHANGED <<call, air, zoneVars, served, queue>>

-----------------------------------------------------------------------------
(***************************************************************************)
(* Carrying the plan out.                                                  *)
(***************************************************************************)
States == [moles : [Tiles -> Int], info : Plans]

\* remove and merge of total amounts: an immutable air does not change.
Removed(have, amount) == IF amount > have THEN have ELSE amount

Gains(st, t, amount) ==
  IF IsSpace(t) THEN st ELSE [st EXCEPT !.moles[t] = st.moles[t] + amount]

Transfer(st, t, u, amount) ==
  LET moved == Removed(st.moles[t], amount)
  IN  Gains(Gains(st, t, -moved), u, moved)

ForgetPlan(st, t) ==
  [st EXCEPT !.info[t].transfer_dirs = MonstermosInfo.transfer_dirs]

\* The other end of a way that is served forgets what should flow over it.
ForgetWay(st, u, d) == [st EXCEPT !.info[u].transfer_dirs[d] = 0]

\* Mutant: nobody waits for the neighbours that have yet to give.
PullNever(have, amount) == FALSE

MustPull(have, amount) == have < amount

\* The neighbours that have yet to give do so; again is the recursive call.
finalize_eq_neighbors(again, start, t, plan) ==
  FoldLeft(LAMBDA st, d : IF plan[d] < 0 THEN again[Neighbour[t][d]][st] ELSE st,
           start, Open(t, Tiles))

Ready(again, st, t, plan, amount) ==
  IF MustPull(st.moles[t], amount) THEN finalize_eq_neighbors(again, st, t, plan) ELSE st

Push(again, st, t, plan, d) ==
  LET ready == Ready(again, st, t, plan, plan[d])
      u == Neighbour[t][d]
  IN  IF plan[d] <= 0 THEN st
      ELSE Transfer(ForgetWay(ready, u, opp_dir_index[d]), t, u, plan[d])

\* What goes to the planet under the tile, or comes from it.
FromPlanet(again, st, t, plan) ==
  LET ready == Ready(again, st, t, plan, plan[Still])
  IN  CASE plan[Still] > 0 -> Gains(ready, t, -Removed(ready.moles[t], plan[Still]))
        [] plan[Still] < 0 /\ PlanetMoles > 0 -> Gains(st, t, -plan[Still])
        [] OTHER -> st

Finalized(again, start, t) ==
  LET plan == start.info[t].transfer_dirs
  IN  IF \A d \in 1 .. Still : plan[d] = 0 THEN start
      ELSE FoldLeft(LAMBDA st, d : Push(again, st, t, plan, d),
                    FromPlanet(again, ForgetPlan(start, t), t, plan), Open(t, Tiles))

\* A tile that is called has no plan from then on, so calls nest once per tile.
finalize_eq[depth \in Nat] ==
  [t \in Tiles |-> [start \in States |->
     IF depth = 0 THEN start ELSE Finalized(finalize_eq[depth - 1], start, t)]]

Finalize ==
  LET tile == turfs[index]
      done == finalize_eq[Cardinality(Tiles)][tile][[moles |-> moles, info |-> info]]
  IN
  /\ pc = "finalize"
  /\ index <= Len(turfs)
  /\ moles' = done.moles
  /\ info' = done.info
  /\ index' = index + 1
  /\ UNCHANGED <<call, zoneVars, served, adjacent_bits, pc, queue, sealed>>

\* The comparison is with the air of this, not with the tile's.
Woken ==
  {t \in ToSet(turfs) : \E d \in adjacent_bits[t] :
     HasAir(Neighbour[t][d]) /\ Compare(Neighbour[t][d], this)}

Wake ==
  /\ pc = "finalize"
  /\ index > Len(turfs)
  /\ active' = active \cup Woken
  /\ Return
  /\ UNCHANGED <<layout, moles, adjacent_bits, info, cyclenum>>

-----------------------------------------------------------------------------
(***************************************************************************)
(* explosively_depressurize.                                               *)
(***************************************************************************)
\* Here turfs is the zone, queue the space turfs, then the order of progress.
Rush ==
  LET tile == turfs[index]
      asked == IF IsPlanet(tile) \/ IsSpace(tile) \/ index - 1 > HardLimit THEN <<>>
               ELSE Open(tile, Tiles \ (queue_cycle \cup layout.wall))
  IN
  /\ pc = "breach"
  /\ index <= Len(turfs)
  /\ \E closed \in SUBSET Lockable(tile, asked) :
       LET found == Beyond(tile, Without(asked, closed))
       IN  /\ Close(tile, closed)
           /\ turfs' = turfs \o found
           /\ queue_cycle' = queue_cycle \cup ToSet(found)
           /\ info' = [Renew(ToSet(found)) EXCEPT ![tile].last_cycle = cyclenum,
                                                  ![tile].curr_transfer_dir = Still]
  /\ queue' = IF IsSpace(tile) /\ ~ IsPlanet(tile) THEN Append(queue, tile) ELSE queue
  /\ index' = index + 1
  /\ UNCHANGED <<call, served, moles, pc, planet_turfs, average_moles>>

\* "planet atmos > space".
RushedToPlanet ==
  /\ pc = "breach"
  /\ index > Len(turfs)
  /\ \E t \in ToSet(turfs) : IsPlanet(t)
  /\ Return
  /\ UNCHANGED <<world, moles, adjacent_bits, info>>

Rushed ==
  /\ pc = "breach"
  /\ index > Len(turfs)
  /\ \A t \in ToSet(turfs) : ~ IsPlanet(t)
  /\ pc' = "drain"
  /\ slow_cycle' = ToSet(queue)
  /\ index' = 1
  /\ UNCHANGED <<call, air, zoneVars, info, work, giving, queue>>

FindSpace ==
  LET tile == queue[index]
      dirs == Open(tile, (queue_cycle \ slow_cycle) \ layout.space)
  IN
  /\ pc = "drain"
  /\ index <= Len(queue)
  /\ queue' = queue \o Beyond(tile, dirs)
  /\ slow_cycle' = slow_cycle \cup ToSet(Beyond(tile, dirs))
  /\ info' = SetDirs(tile, dirs)
  /\ index' = index + 1
  /\ UNCHANGED <<call, air, zoneVars, pc, work, giving>>

\* Mutant: the last turf of the progression is passed over.
DrainedButLast == {queue[i] : i \in 1 .. Len(queue) - 1}

Drained == ToSet(queue)

\* The moles of the tile it blows to count, and what blew by it before.
Blow(inf, t) ==
  LET d == inf[t].curr_transfer_dir
      u == Neighbour[t][d]
      amount == inf[t].curr_transfer_amount + moles[u]
  IN  IF d = Still THEN inf
      ELSE Passes([inf EXCEPT ![t].curr_transfer_amount = amount], u, amount)

\* Every tile but space, from the farthest.
Drain ==
  /\ pc = "drain"
  /\ index > Len(queue)
  /\ info' = FoldRight(LAMBDA t, inf : Blow(inf, t), queue, info)
  /\ moles' = [t \in Tiles |->
                 IF t \in Drained /\ info[t].curr_transfer_dir # Still
                 THEN 0 ELSE moles[t]]
  /\ Return
  /\ UNCHANGED <<world, adjacent_bits>>

-----------------------------------------------------------------------------
NextCycle ==
  /\ pc = "idle"
  /\ cyclenum < MaxCycle
  /\ cyclenum' = cyclenum + 1
  /\ UNCHANGED <<air, zoneVars, served, loop, layout, info, active, pc, this>>

\* refresh_atmos_grid: every tile is moved to a new grid without its info, and
\* update_adjacent finds every way open.
Refresh ==
  /\ pc = "idle"
  /\ info' = Renew(Tiles)
  /\ adjacent_bits' = [t \in Tiles |-> DOMAIN Neighbour[t]]
  /\ UNCHANGED <<call, zoneVars, served, loop, moles, pc, sealed>>

Next ==
  \/ \E t \in Tiles : Skip(t) \/ Begin(t)
  \/ Explore \/ Breach \/ Divide
  \/ Spread \/ Choose \/ Serve \/ Visit \/ CarryBack
  \/ PlanPlanet \/ FindPlanet \/ FlowToPlanet
  \/ Finalize \/ Wake
  \/ Rush \/ RushedToPlanet \/ Rushed \/ FindSpace \/ Drain
  \/ NextCycle \/ Refresh

Spec == Init /\ [][Next]_vars

-----------------------------------------------------------------------------
(* What the plan says flows out of a tile is what it has more than its share *)
(* and will not have later, whichever pass planned it (adjust_eq_movement,   *)
(* the fast and the slow pass, the planet's).                                *)
PlanAddsUp ==
  pc \in {"fast", "choose", "slow"} \/ (pc = "finalize" /\ index = 1) =>
    \A t \in ToSet(turfs) :
      info[t].mole_delta = moles[t] - average_moles
                             - SumOf(info[t].transfer_dirs, 1 .. Still)

\* A neighbour of t whose air and that of t would compare as different, if
\* their difference were greater by slack.
HasOther(t, slack) ==
  \E d \in adjacent_bits[t] :
    LET u == Neighbour[t][d]
        delta == Abs(moles[t] - moles[u]) + slack
    IN  HasAir(u) /\ delta > Minimum /\ delta * RatioToMove > moles[u]

(* A zone without space ends with the same air everywhere, its average (and  *)
(* what the division left) or the planet's, unless a firelock closed on the  *)
(* way; then a turf wakes if it has a neighbour that differs by more than    *)
(* the minimum and the ratio of compare, and, but for what the division      *)
(* left, only then (equalize_pressure_in_zone, finalize_eq, compare).        *)
ZoneEndsEven ==
  /\ pc = "finalize" /\ index > Len(turfs)
  /\ ~ sealed
  /\ \A t \in ToSet(turfs) : ~ IsSpace(t)
  => /\ \A t \in ToSet(turfs) :
          IF planet_turfs = <<>>
          THEN moles[t] - average_moles \in 0 .. Len(turfs) - 1
          ELSE moles[t] = PlanetMoles
     /\ \A t \in ToSet(turfs) :
          /\ HasOther(t, -Len(turfs)) => t \in Woken
          /\ t \in Woken => HasOther(t, Len(turfs))

\* Tiles a tile reaches over open ways that do not lead through space.
Reach(tiles) ==
  tiles \cup {u \in Tiles : HasAir(u) /\ \E t \in tiles \ layout.space :
                              \E d \in adjacent_bits[t] : Neighbour[t][d] = u}

Zone(t) ==
  LET r[n \in Nat] == IF n = 0 THEN {t} ELSE Reach(r[n - 1])
  IN  r[Cardinality(Tiles)]

(* A breach empties every turf that is open to space by then, however many   *)
(* firelocks closed while it spread, and no other (explosively_depressurize).*)
BreachEmpties ==
  [][Drain => \A t \in Tiles :
       moles'[t] = IF t \in Zone(this) /\ Zone(this) \cap layout.space # {}
                   THEN 0 ELSE moles[t]]_vars
=============================================================================
