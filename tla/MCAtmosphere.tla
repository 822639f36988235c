----------------------------- MODULE MCAtmosphere -----------------------------
(* What happens to the air: the equalisation of zones and the sharing of       *)
(* neighbours, each on a grid of its own, and the mixtures that DM datums      *)
(* name.  A behaviour is one of the three, chosen in the initial state.        *)
EXTENDS Equalize, AirSharing, GasMixtures

\* Three by two tiles and one to the east of the first row:
\*   1 2 3 7
\*   4 5 6
Pairs == {<<1, 3, 2>>, <<2, 3, 3>>, <<3, 3, 7>>, <<4, 3, 5>>, <<5, 3, 6>>,
          <<1, 2, 4>>, <<2, 2, 5>>, <<3, 2, 6>>}
Towards(t, d) ==
  {p[3] : p \in {q \in Pairs : q[1] = t /\ q[2] = d}}
    \cup {p[1] : p \in {q \in Pairs : q[3] = t /\ opp_dir_index[q[2]] = d}}
ThreeByTwo ==
  [t \in 1 .. 7 |-> [d \in {e \in 1 .. 6 : Towards(t, e) # {}} |->
                       CHOOSE u \in Towards(t, d) : TRUE]]
TwoFirelocks == {{2, 3}, {4, 5}}

Layout(space, planet, wall, full) ==
  [space |-> space, planet |-> planet, wall |-> wall, full |-> full]
SomeLayouts ==
  {Layout({}, {}, {7}, full) : full \in {{1, 2, 3}, {1, 5, 3}, {2, 4, 6}, {1, 4, 6}}}
    \cup {Layout({}, {}, wall, full) : wall \in {{}, {2}}, full \in {{7, 6}, {1, 4, 5}}}
    \cup {Layout({}, {7}, {3}, {1, 2}), Layout({}, {7, 4}, {6}, {1, 2, 5})}
    \cup {Layout({7}, planet, {}, {1, 2, 6}) : planet \in {{}, {4}}}

(* A turf with four ways, two to dead ends and two that meet at a corner:      *)
(*       3 6                                                                   *)
(*     1 2 5                                                                   *)
(*       4                                                                     *)
Crossing == <<<<2>>, <<3, 4, 5, 1>>, <<2, 6>>, <<2>>, <<6, 2>>, <<5, 3>>>>
CrossingAirs == {[t \in 1 .. 6 |-> IF t = 2 THEN 120 ELSE 0]}

VARIABLE part

AtmosphereInit ==
  /\ part \in {"zones", "sharing", "gas"}
  /\ Init /\ (part # "zones" => layout = Layout({}, {}, {7}, {1, 2, 3}))
  /\ SharingInit /\ (part # "sharing" => turf_moles = CHOOSE first \in FirstAirs : TRUE)
  /\ GasInit /\ Cardinality(long) = (IF part = "gas" THEN 1 ELSE 0)

AtmosphereNext ==
  \/ part = "zones" /\ Next /\ UNCHANGED <<part, sharingVars, gasVars>>
  \/ part = "sharing" /\ SharingNext /\ UNCHANGED <<part, vars, gasVars>>
  \/ part = "gas" /\ GasNext /\ UNCHANGED <<part, vars, sharingVars>>

Symmetry == Permutations(Datums) \cup Permutations(Pointers)
===============================================================================
