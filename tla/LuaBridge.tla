------------------------------ MODULE LuaBridge ------------------------------
(***************************************************************************)
(* The Lua bridge (luajit): DM procs whose code is a Lua function, and Lua *)
(* code that calls DM procs back.  A function assigned to dm.path gets the *)
(* next number of a table in the Lua registry; the proc's bytecode is      *)
(* replaced by that number and the proc is hooked, and a call of the proc  *)
(* looks the function up again by the number.                              *)
(*                                                                         *)
(* An error no lua_pcall is there to catch ends in the panic function,     *)
(* which jumps to the one place the bridge remembers (setjmp).  Every      *)
(* entry into Lua remembers itself; nothing brings back the place of the   *)
(* entry before it.  What a jump to a place that has returned does is      *)
(* undefined, and not modelled.                                            *)
(***************************************************************************)
EXTENDS Integers, SequencesExt

CONSTANTS
    LuaProcs,     \* DM procs that exist
    Missing,      \* paths that are no proc
    Closures,     \* Lua functions
    NoId,         \* a proc that still runs its own bytecode
    Dead,         \* a place in a function that has returned
    MaxFunctions, \* bound: entries of the registry table
    MaxEntries    \* bound: entries into Lua inside one another

VARIABLES
    registry,  \* the table under extools_luajit_key: its functions, from 1
    injected,  \* proc |-> the id in its bytecode
    assigned,  \* proc |-> the function last assigned to its path
    frames,    \* entries into Lua in progress: [phase, calledBack]
    jmp,       \* the place jmp_buf holds: <<entry, function>> or Dead
    jmp_set

luaVars == <<registry, injected, assigned, frames, jmp, jmp_set>>

-----------------------------------------------------------------------------
LuaInit ==
    /\ registry = <<>>
    /\ injected = [p \in LuaProcs |-> NoId]
    /\ assigned = [p \in LuaProcs |-> NoId]
    /\ frames = <<>>
    /\ jmp = Dead
    /\ jmp_set = TRUE            \* ExtoolsLuajit::Init has set it, and returned

(* Lua code runs in the innermost entry, or the engine runs.               *)
InLua == frames # <<>> /\ Last(frames).phase = "lua"

Calling == (frames = <<>> \/ InLua) /\ Len(frames) < MaxEntries

SetJmp(place) == jmp' = <<Len(frames'), place>> /\ jmp_set' = TRUE

(* The entries from the n-th on have returned, or were jumped over.        *)
Returned(n) ==
    /\ frames' = SubSeq(frames, 1, n - 1)
    /\ jmp' = IF jmp # Dead /\ jmp[1] >= n THEN Dead ELSE jmp

Entered(phase) ==
    frames' = Append([i \in DOMAIN frames |->
                        [frames[i] EXCEPT !.calledBack = i = Len(frames) \/ @]],
                     [phase |-> phase, calledBack |-> FALSE])

-----------------------------------------------------------------------------
\* Mutant: the hook trusts in the place LuaCall will set.
CallHookUnset(p) ==
    /\ Calling /\ injected[p] # NoId
    /\ Entered("pushing")
    /\ UNCHANGED <<registry, injected, assigned, jmp, jmp_set>>

(* luajit_call_hook: a proc that was given a function is called, by the    *)
(* engine or from Lua.  LuaCall starts by pushing src and the arguments.   *)
CallHook(p) ==
    /\ Calling /\ injected[p] # NoId
    /\ Entered("pushing")
    /\ SetJmp("hook")
    /\ UNCHANGED <<registry, injected, assigned>>

(* LuaCall, from its setjmp into lua_pcall.                                *)
LuaCall ==
    /\ frames # <<>> /\ Last(frames).phase = "pushing"
    /\ frames' = [frames EXCEPT ![Len(frames)].phase = "lua"]
    /\ SetJmp("call")
    /\ UNCHANGED <<registry, injected, assigned>>

(* load_script: LoadScript remembers itself and runs the file.             *)
LoadScript ==
    /\ Calling
    /\ Entered("lua")
    /\ SetJmp("call")
    /\ UNCHANGED <<registry, injected, assigned>>

\* Mutant: the id is the length of the table once it has an entry.
IDReused == IF registry = <<>> THEN 1 ELSE Len(registry)

(* GetID: the length of the table, plus one.                               *)
GetID == Len(registry) + 1

(* RegisterFunction: the table's entry with that id.                       *)
Registered(id, f) == [i \in 1..id |-> IF i = id THEN f ELSE registry[i]]

(* dm_table_newindex: dm.path = function.  The function is registered      *)
(* before Inject finds out whether there is such a proc; if there is none  *)
(* the error ends the running entry, or Lua code that caught it goes on.   *)
Assign(path, f) ==
    /\ InLua /\ Len(registry) < MaxFunctions
    /\ registry' = Registered(GetID, f)
    /\ IF path \in LuaProcs
       THEN /\ injected' = [injected EXCEPT ![path] = GetID]
            /\ assigned' = [assigned EXCEPT ![path] = f]
            /\ UNCHANGED <<frames, jmp, jmp_set>>
       ELSE /\ Returned(Len(frames)) \/ UNCHANGED <<frames, jmp>>
            /\ UNCHANGED <<injected, assigned, jmp_set>>

(* lua_pcall is back with a result, which LuaToByond reads outside of it.  *)
Result ==
    /\ InLua
    /\ frames' = [frames EXCEPT ![Len(frames)].phase = "result"]
    /\ UNCHANGED <<registry, injected, assigned, jmp, jmp_set>>

(* The entry returns to its caller: with the result, or with null after an *)
(* error that its lua_pcall caught.                                        *)
Return ==
    /\ frames # <<>> /\ Last(frames).phase \in {"lua", "result"}
    /\ Returned(Len(frames))
    /\ UNCHANGED <<registry, injected, assigned, jmp_set>>

(* An error outside of the entry's own lua_pcall, converting a value.  The *)
(* lua_pcall of an outer entry catches it, and that entry returns null;    *)
(* with none around luajit_error jumps, and the entry jumped to returns.   *)
Unprotected ==
    /\ frames # <<>> /\ Last(frames).phase # "lua"
    /\ UNCHANGED <<registry, injected, assigned>>
    /\ IF Len(frames) > 1
       THEN Returned(Len(frames) - 1) /\ UNCHANGED jmp_set
       ELSE /\ jmp_set /\ jmp # Dead
            /\ Returned(jmp[1])
            /\ jmp_set' = FALSE

LuaNext ==
    \/ \E p \in LuaProcs : CallHook(p)
    \/ LoadScript
    \/ LuaCall
    \/ \E path \in LuaProcs \cup Missing, f \in Closures : Assign(path, f)
    \/ Result
    \/ Return
    \/ Unprotected

LuaSpec == LuaInit /\ [][LuaNext]_luaVars

-----------------------------------------------------------------------------
(* A proc that was given Lua functions runs the last of them: no function  *)
(* registered later, for it, for another proc or for a path without a      *)
(* proc, takes the entry its id stands for.                                *)
RunsItsFunction ==
    \A p \in LuaProcs : injected[p] # NoId =>
        /\ injected[p] \in DOMAIN registry
        /\ registry[injected[p]] = assigned[p]

(* The panic function never jumps past an entry in progress to one outside *)
(* of it, and until an entry has called back into DM it jumps to the entry *)
(* itself.  (Once it has, the place it jumps to may have returned.)        *)
JumpsHome ==
    frames # <<>> =>
      /\ jmp = Dead \/ jmp[1] = Len(frames)
      /\ ~ Last(frames).calledBack =>
           /\ jmp_set
           /\ jmp = <<Len(frames),
                      IF Last(frames).phase = "pushing" THEN "hook" ELSE "call">>
=============================================================================
