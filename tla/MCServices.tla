----------------------------- MODULE MCServices -----------------------------
(* Four services of the library that share nothing with one another: a     *)
(* behaviour is a behaviour of one of them, chosen in the initial state.   *)
EXTENDS ExtendedProfiling, LuaBridge, RefTracking, MemoryUsage

VARIABLE part

(* Tables of two slots.  In one kind each slot is empty or an entity of    *)
(* either type with one part empty or larger; the others are fixed.        *)
Holding(kind, one, n) == [f \in Fields(kind) |-> IF f = one THEN n ELSE 1]

Entities(kind) ==
    {NoEntity} \cup {[type |-> t, parts |-> Holding(kind, f, n)] :
                       t \in Types, f \in Fields(kind), n \in {0, 3}}

Sample ==
    [kind \in Kinds |->
       <<NoEntity, [type |-> "a", parts |-> [f \in Fields(kind) |-> 2]]>>]

AllTables ==
    {Sample} \cup UNION {{[Sample EXCEPT ![kind] = <<e, f>>] :
                            e, f \in Entities(kind)} : kind \in Kinds}

ServicesInit ==
    /\ part \in {"memory", "profiling", "references", "lua"}
    /\ MemoryInit /\ Init /\ ReferencesInit /\ LuaInit
    /\ part # "memory" => tables = Sample
    /\ \A d, e \in Datums : field[d] = field[e]
    /\ part # "references" =>
         live = Datums /\ field = [d \in Datums |-> [n \in Names |-> Null]]

ServicesNext ==
    \/ part = "memory" /\ MemoryNext /\ UNCHANGED <<part, vars, referenceVars, luaVars>>
    \/ part = "profiling" /\ Next /\ UNCHANGED <<part, memoryVars, referenceVars, luaVars>>
    \/ part = "references" /\ ReferencesNext /\ UNCHANGED <<part, memoryVars, vars, luaVars>>
    \/ part = "lua" /\ LuaNext /\ UNCHANGED <<part, memoryVars, vars, referenceVars>>

Symmetry == Permutations(Datums)
=============================================================================
