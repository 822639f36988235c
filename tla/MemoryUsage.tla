----------------------------- MODULE MemoryUsage -----------------------------
(***************************************************************************)
(* Memory profiling (memory_profiling.cpp): dump_memory_usage walks the    *)
(* tables of objects, datums and mobs slot by slot, adds what every entity *)
(* takes to its type's entry and to the table's total, adds the table      *)
(* itself, and sums the three tables into one report.  All counters are    *)
(* unsigned ints.  The lists are measured the same way but never reported. *)
(***************************************************************************)
EXTENDS Integers, SequencesExt

CONSTANTS
    Tables,   \* what the tables may hold: kind |-> a sequence of entities
    Types,    \* the types of entities
    Width,    \* bits of an unsigned int
    NoEntity  \* an empty slot

VARIABLES
    tables,     \* kind |-> the table of that kind
    rest,       \* kinds still to be measured, the one being measured first
    slot,       \* the last slot of it that was measured
    full,       \* kind |-> FullMemUsage: [entries, total_instances, table, total]
    everything  \* the report, once it is dumped

memoryVars == <<tables, rest, slot, full, everything>>

-----------------------------------------------------------------------------
Kinds == {"obj", "datum", "mob"}

(* The parts of an entity beside its base, all of them vectors or chains   *)
(* with an entry size of their own.                                        *)
Fields(kind) ==
    CASE kind = "obj"   -> {"modified_vars", "vis_contents", "vis_locs",
                            "simple_linked_list", "complex_linked_list"}
      [] kind = "datum" -> {"modified_vars"}
      [] kind = "mob"   -> {"modified_vars", "unknown_linked_list_1",
                            "unknown_linked_list_2", "unknown_linked_list_3",
                            "unknown_table_1", "unknown_table_2"}

Entity(kind) == [type : Types, parts : [Fields(kind) -> Nat]]

ASSUME MemoryAssumption ==
    /\ \A kind \in Kinds :
         /\ NoEntity \notin Entity(kind)
         /\ \A t \in Tables : t[kind] \in Seq(Entity(kind) \cup {NoEntity})
    /\ 2 ^ Width \in Nat \ {0}

(* sizeof, in units that keep the counters small.                          *)
SizeOf(part) ==
    CASE part = "base"                      -> 3
      [] part \in {"modified_vars", "simple_linked_list",
                   "unknown_linked_list_2"} -> 2
      [] OTHER                              -> 1

Sum(f) == MapThenSumSet(LAMBDA x : f[x], DOMAIN f)

Unsigned(n) == n % (2 ^ Width)

(* get_obj_mem_usage and its like.  A null pointer counts as no entries,   *)
(* and an empty slot as base 0, by which the walk knows to pass it by.     *)
Usage(kind, e) ==
    IF e = NoEntity THEN [part \in Fields(kind) \cup {"base"} |-> 0]
    ELSE [part \in Fields(kind) \cup {"base"} |->
            IF part = "base" THEN SizeOf("base")
            ELSE Unsigned(e.parts[part] * SizeOf(part))]

Total(usage) == Unsigned(Sum(usage))

NoUsage(kind) == [part \in Fields(kind) \cup {"base", "instances"} |-> 0]

\* Mutant: one part is forgotten when it is added to its type.
AddedButOne(u, usage) ==
    [part \in DOMAIN u |->
       IF part = "unknown_table_2" THEN u[part]
       ELSE Unsigned(u[part] + IF part = "instances" THEN 1 ELSE usage[part])]

(* u.instances++ and a += for every part of the type's entry.              *)
Added(u, usage) ==
    [part \in DOMAIN u |->
       Unsigned(u[part] + IF part = "instances" THEN 1 ELSE usage[part])]

-----------------------------------------------------------------------------
NothingYet == [entries |-> [t \in {} |-> NoUsage("obj")],
               total_instances |-> 0, table |-> 0, total |-> 0]

MemoryInit ==
    /\ tables \in Tables
    /\ rest = <<"obj", "datum", "mob">>
    /\ slot = 0
    /\ full = [kind \in Kinds |-> NothingYet]
    /\ everything = <<>>

(* One slot of get_full_obj_mem_usage, get_full_datum_mem_usage or         *)
(* get_full_mob_mem_usage.                                                 *)
Measured(kind, f, e) ==
    LET usage == Usage(kind, e)
        u == IF e.type \in DOMAIN f.entries THEN f.entries[e.type] ELSE NoUsage(kind)
    IN  [f EXCEPT !.total_instances = Unsigned(f.total_instances + 1),
                  !.total = Unsigned(f.total + Total(usage)),
                  !.entries = [t \in DOMAIN f.entries \cup {e.type} |->
                                 IF t = e.type THEN Added(u, usage) ELSE f.entries[t]]]

Measure ==
    /\ rest # <<>>
    /\ slot < Len(tables[Head(rest)])
    /\ LET kind == Head(rest)
           e == tables[kind][slot + 1]
       IN  full' = IF Usage(kind, e).base = 0 THEN full
                   ELSE [full EXCEPT ![kind] = Measured(kind, full[kind], e)]
    /\ slot' = slot + 1
    /\ UNCHANGED <<tables, rest, everything>>

(* The table's own memory, once all of its slots are measured.             *)
AddTable ==
    /\ rest # <<>>
    /\ slot = Len(tables[Head(rest)])
    /\ LET table == Unsigned(slot * SizeOf("pointer"))
       IN  full' = [full EXCEPT ![Head(rest)].table = table,
                                ![Head(rest)].total = Unsigned(@ + table)]
    /\ rest' = Tail(rest)
    /\ slot' = 0
    /\ UNCHANGED <<tables, everything>>

(* The report shows a type's entry with its total.                         *)
to_json(u) ==
    [part \in DOMAIN u \cup {"total"} |->
       IF part = "total" THEN Unsigned(Sum(u) - u.instances) ELSE u[part]]

Reported(f) == [f EXCEPT !.entries = [t \in DOMAIN f.entries |-> to_json(f.entries[t])]]

(* dump_full_obj_mem_usage, at its end.                                    *)
Report ==
    [kinds |-> [kind \in Kinds |-> Reported(full[kind])],
     total |-> Unsigned(Sum([kind \in Kinds |-> full[kind].total])),
     total_instances |-> Unsigned(Sum([kind \in Kinds |-> full[kind].total_instances]))]

Dump ==
    /\ rest = <<>> /\ everything = <<>>
    /\ everything' = Report
    /\ UNCHANGED <<tables, rest, slot, full>>

MemoryNext == Measure \/ AddTable \/ Dump

MemorySpec == MemoryInit /\ [][MemoryNext]_memoryVars

-----------------------------------------------------------------------------
(* What an entity really takes, in whole numbers.                          *)
TakenBy(e) ==
    IF e = NoEntity THEN 0
    ELSE SizeOf("base") + Sum([part \in DOMAIN e.parts |-> e.parts[part] * SizeOf(part)])

(* The report counts every entity and every table once: the total of a     *)
(* kind is what its types' totals and its table add up to, and the dump    *)
(* is what all of the entities and tables take, in bytes and in number,    *)
(* modulo an unsigned int, however many of the sums have wrapped.          *)
ReportAddsUp ==
    everything # <<>> =>
      /\ \A kind \in Kinds :
           LET k == everything.kinds[kind]
           IN  /\ k.total = Unsigned(k.table
                     + Sum([t \in DOMAIN k.entries |-> k.entries[t].total]))
               /\ k.total_instances =
                    Unsigned(Sum([t \in DOMAIN k.entries |-> k.entries[t].instances]))
      /\ everything.total =
           Unsigned(Sum([kind \in Kinds |->
             Sum([i \in DOMAIN tables[kind] |->
                    TakenBy(tables[kind][i]) + SizeOf("pointer")])]))
      /\ everything.total_instances =
           Unsigned(Sum([kind \in Kinds |->
             Cardinality({i \in DOMAIN tables[kind] : tables[kind][i] # NoEntity})]))
=============================================================================
