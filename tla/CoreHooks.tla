------------------------------- MODULE CoreHooks -------------------------------
(***************************************************************************)
(* The core of extools: the table of hooks over BYOND's functions, the     *)
(* custom opcodes, the list of procs, and the life cycle that starts when  *)
(* a module is initialised and ends with cleanup and the world's reboot.   *)
(*                                                                         *)
(* A hook overwrites the first bytes of a BYOND function with a jump to a  *)
(* handler and keeps the bytes it overwrote; its trampoline, through which *)
(* the handler reaches the original, lives as long as the hook.            *)
(***************************************************************************)
EXTENDS Naturals, FiniteSets

CONSTANTS
  Modules,     (* the modules, besides the core, a program initialises.      *)
  MaxLives,    (* bound: worlds started in one process.                      *)
  MaxOpcodes,  (* bound: custom opcodes registered in one process.           *)
  Original     (* the bytes BYOND's function has when nobody hooked it.      *)

\* The functions whose first bytes each module overwrites.
HookedBy ==
  [core       |-> {"CrashProc", "CallGlobalProc", "TopicFloodCheck",
                   "StartTiming", "Runtime"},
   debugger   |-> {"Runtime"},
   locator    |-> {"Runtime"},
   profiler   |-> {"CreateContext", "ProcCleanup", "Suspend"},
   monstermos |-> {"DelDatum"},
   maptick    |-> {"SendMaps"},
   reftracking |-> {"SetVariable", "AppendToContainer",
                    "InitializeListFromContext", "RemoveFromContainer",
                    "SetAssocElement", "DestroyList", "DestroyDatum"},
   tffi       |-> {},
   sockets    |-> {}]

Owners == DOMAIN HookedBy
Functions == UNION {HookedBy[m] : m \in Owners}

\* How many opcodes each module registers, and how many it compiles into
\* procs at once (the debugger writes its own as breakpoints are set).
OpcodesOf == [m \in Owners |-> CASE m \in {"debugger", "sockets"} -> 2
                                 [] m = "tffi" -> 1
                                 [] OTHER -> 0]
Rewriters == {"tffi", "sockets", "debugger"}
ProcHookers == {"monstermos", "reftracking", "sockets"}

ASSUME HooksAssumption ==
  /\ Modules \subseteq Owners \ {"core"}
  /\ MaxLives \in Nat \ {0} /\ MaxOpcodes \in Nat
  /\ Original \notin Owners

NoHook == [dst |-> Original, saved |-> Original]
Code == Owners \cup {Original}
Hooks == {NoHook} \cup [dst : Owners, saved : Code]

VARIABLES
  initialized,           (* Core::initialized.                               *)
  debugger_initialized,  (* the debugger's own flag; nothing resets it.      *)
  code,                  (* function -> whose handler its first bytes enter. *)
  hooks,                 (* function -> the entry of the table of hooks.     *)
  next_opcode_id,        (* never reset; the code starts at 0x1337.          *)
  opcode_handlers,       (* opcode -> the module whose handler it runs, or   *)
                         (* Original: CrashProc crashes the proc.            *)
  statics,               (* module -> the opcodes its variables hold.        *)
  procs,                 (* the world whose procs procs_by_id lists, or 0.   *)
  proc_hooks,            (* the modules whose functions replace procs.       *)
  bytecode,              (* module -> the bytecode it wrote into procs:      *)
                         (* none, owned by procs_by_id, freed with it, or    *)
                         (* BYOND's own, patched in place.                   *)
  life,                  (* the world that runs; environment.                *)
  rehooked               (* history: functions hooked over a hook.           *)

hookVars   == <<code, hooks, rehooked>>
opcodeVars == <<next_opcode_id, opcode_handlers, statics>>
procVars   == <<procs, proc_hooks, bytecode>>
coreVars == <<initialized, debugger_initialized, hookVars, opcodeVars, procVars, life>>

Init ==
  /\ initialized = FALSE
  /\ debugger_initialized = FALSE
  /\ code = [f \in Functions |-> Original]
  /\ hooks = [f \in Functions |-> NoHook]
  /\ next_opcode_id = 0
  /\ opcode_handlers = [o \in 0 .. MaxOpcodes - 1 |-> Original]
  /\ statics = [m \in Modules |-> {}]
  /\ procs = 0
  /\ proc_hooks = {}
  /\ bytecode = [m \in Modules |-> "none"]
  /\ life = 1
  /\ rehooked = {}

\* install_hook for each of fs: the new hook saves the code it finds and
\* writes its jump; storing it in the table destroys the entry that was
\* there, whose destructor writes its own saved code over the new jump.
Hooked(t, fs, owner) ==
  [code |-> [f \in Functions |-> IF f \notin fs THEN t.code[f]
                                 ELSE IF t.hooks[f] = NoHook THEN owner
                                 ELSE t.hooks[f].saved],
   hooks |-> [f \in Functions |-> IF f \notin fs THEN t.hooks[f]
                                  ELSE [dst |-> owner, saved |-> t.code[f]]],
   rehooked |-> t.rehooked \cup {f \in fs : t.hooks[f] # NoHook}]

Table == [code |-> code, hooks |-> hooks, rehooked |-> rehooked]

SetTable(t) == code' = t.code /\ hooks' = t.hooks /\ rehooked' = t.rehooked

\* Core::initialize: the procs are listed and the core's hooks installed, once.
CoreTable == IF initialized THEN Table ELSE Hooked(Table, HookedBy["core"], "core")

\* A definition marked "Mutant" is no part of the model: it is the slip its
\* name says, kept to show which property notices it.

\* Mutant: the counter is increased before the opcode is taken.
PreIncremented(m) == next_opcode_id + 1 .. next_opcode_id + OpcodesOf[m]

NewOpcodes(m) == next_opcode_id .. next_opcode_id + OpcodesOf[m] - 1

\* A module that asks for opcodes gets new ones, whatever it had before.
RegisterOpcodes(m) ==
  LET new == NewOpcodes(m)
  IN  /\ next_opcode_id + OpcodesOf[m] <= MaxOpcodes
      /\ next_opcode_id' = next_opcode_id + OpcodesOf[m]
      /\ opcode_handlers' = [o \in DOMAIN opcode_handlers |->
                               IF o \in new THEN m ELSE opcode_handlers[o]]
      /\ statics' = IF new = {} THEN statics ELSE [statics EXCEPT ![m] = new]

\* <module>_initialize: nothing but the debugger remembers that it ran before.
Initialize(m) ==
  /\ initialized' = TRUE
  /\ procs' = IF initialized THEN procs ELSE life
  /\ \/ /\ m = "debugger" /\ debugger_initialized
        /\ SetTable(CoreTable)
        /\ UNCHANGED <<debugger_initialized, opcodeVars, proc_hooks, bytecode>>
     \/ /\ ~ (m = "debugger" /\ debugger_initialized)
        /\ SetTable(Hooked(CoreTable, HookedBy[m], m))
        /\ RegisterOpcodes(m)
        /\ debugger_initialized' = (debugger_initialized \/ m = "debugger")
        /\ proc_hooks' = proc_hooks \cup ({m} \cap ProcHookers)
        /\ bytecode' = IF m \in Rewriters \ {"debugger"}
                       THEN [bytecode EXCEPT ![m] = "owned"] ELSE bytecode
  /\ UNCHANGED life

\* The debugger writes a breakpoint into a proc's own words ("directly",
\* so that procs that run hit it too), which no cleanup frees or mends.
WriteBreakpoint ==
  /\ "debugger" \in Modules /\ debugger_initialized /\ procs = life
  /\ bytecode' = [bytecode EXCEPT !["debugger"] = "patched"]
  /\ UNCHANGED <<initialized, debugger_initialized, hookVars, opcodeVars, procs, proc_hooks, life>>

\* Mutant: the hooks are forgotten and not removed.
JumpsKept == code

RestoredCode == [f \in Functions |-> IF hooks[f] = NoHook THEN code[f] ELSE hooks[f].saved]

\* Mutant: the list of procs survives cleanup.
BytecodeKept == bytecode

FreedBytecode == [m \in Modules |-> IF bytecode[m] = "owned" THEN "freed" ELSE bytecode[m]]

\* Core::cleanup: every hook writes back what it saved; handlers, proc hooks
\* and the list of procs, with the bytecode it owns, go.
Cleanup ==
  /\ initialized' = FALSE
  /\ code' = RestoredCode
  /\ hooks' = [f \in Functions |-> NoHook]
  /\ opcode_handlers' = [o \in DOMAIN opcode_handlers |-> Original]
  /\ procs' = 0
  /\ proc_hooks' = {}
  /\ bytecode' = FreedBytecode
  /\ UNCHANGED <<debugger_initialized, rehooked, next_opcode_id, statics, life>>

\* The world ends after cleanup and another starts in the same process, with
\* the bytecode its own file has.
Reboot ==
  /\ ~ initialized /\ life < MaxLives
  /\ life' = life + 1
  /\ bytecode' = [m \in Modules |-> "none"]
  /\ UNCHANGED <<initialized, debugger_initialized, hookVars, opcodeVars, procs, proc_hooks>>

CoreNext ==
  \/ \E m \in Modules : Initialize(m)
  \/ WriteBreakpoint
  \/ Cleanup
  \/ Reboot

CoreSpec == Init /\ [][CoreNext]_coreVars
--------------------------------------------------------------------------------
CoreTypeOK ==
  /\ initialized \in BOOLEAN /\ debugger_initialized \in BOOLEAN
  /\ code \in [Functions -> Code]
  /\ hooks \in [Functions -> Hooks]
  /\ next_opcode_id \in 0 .. MaxOpcodes
  /\ opcode_handlers \in [0 .. MaxOpcodes - 1 -> Code]
  /\ statics \in [Modules -> SUBSET (0 .. MaxOpcodes - 1)]
  /\ procs \in 0 .. MaxLives
  /\ proc_hooks \subseteq ProcHookers
  /\ bytecode \in [Modules -> {"none", "owned", "freed", "patched"}]
  /\ life \in 1 .. MaxLives
  /\ rehooked \subseteq Functions

\* A function that was never hooked over a hook does what the table says: it
\* enters the handler whose trampoline is alive, or, when no entry is there,
\* BYOND's own code; cleanup gives BYOND every such function back.
TableIsTrue ==
  \A f \in Functions \ rehooked :
     /\ code[f] = hooks[f].dst
     /\ hooks[f].saved = Original

\* An opcode never runs the handler of another module than the one that got
\* it, not even an opcode a module still remembers from before a cleanup; and
\* bytecode that a module compiled into procs and cleanup has not freed finds
\* its handlers.  (Breakpoints patched into BYOND's words do not: they outlive
\* the handlers when the core is cleaned up.)
OpcodesKeepOwner ==
  \A m \in Modules :
     /\ \A o \in statics[m] : opcode_handlers[o] \in {m, Original}
     /\ bytecode[m] = "owned" => statics[m] # {} /\ \A o \in statics[m] : opcode_handlers[o] = m

\* The debugger is told of runtime errors, as its messages "break on runtimes"
\* and "runtime" promise (protocol.ts): while it is initialised BYOND's
\* Runtime enters its handler (debugger_initialize, hRuntime).
DebuggerSeesRuntimes ==
  initialized /\ debugger_initialized => code["Runtime"] = "debugger"
================================================================================
