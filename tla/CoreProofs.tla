------------------------------ MODULE CoreProofs ------------------------------
(***************************************************************************)
(* Proofs about the core: its hooks with the topic filter (CoreHooks,      *)
(* TopicFilter), its stream of messages (JsonStream) and the disassembler  *)
(* (Disassembly).  Every variable keeps its type, the table of hooks tells *)
(* the truth about the code, opcodes keep their owners, and the filter     *)
(* keeps its promises; for any modules, worlds, addresses and lists.  The  *)
(* stream implements the channel of MessageChannel, for any senders,       *)
(* messages, sizes and cuts.  The disassembler never leaves a bytecode,    *)
(* and finds its way through it, whatever its words are.                   *)
(***************************************************************************)
EXTENDS TopicFilter, JsonStream, Disassembly, FoldLemmas, FiniteSetTheorems,
        SequenceTheorems, WellFoundedInduction, TLAPS

-----------------------------------------------------------------------------
(***************************************************************************)
(* The table of hooks.                                                     *)
(***************************************************************************)

TableType(t) ==
  /\ t.code \in [Functions -> Code]
  /\ t.hooks \in [Functions -> Hooks]
  /\ t.rehooked \subseteq Functions

Truthful(t) ==
  \A f \in Functions \ t.rehooked :
     /\ t.code[f] = t.hooks[f].dst
     /\ t.hooks[f].saved = Original

(* An entry names code: its handler and the bytes it saved.                  *)
LEMMA HookFields ==
  ASSUME NEW h \in Hooks
  PROVE  h.dst \in Code /\ h.saved \in Code
BY DEF Hooks, NoHook, Code

(* install_hook keeps the types, and the truth of every entry that did not   *)
(* replace another.                                                          *)
LEMMA HookedKeeps ==
  ASSUME NEW t, TableType(t), NEW fs \in SUBSET Functions, NEW owner \in Owners
  PROVE  /\ TableType(Hooked(t, fs, owner))
         /\ Truthful(t) => Truthful(Hooked(t, fs, owner))
<1> DEFINE u == Hooked(t, fs, owner)
<1>1. /\ u.code = [f \in Functions |-> IF f \notin fs THEN t.code[f]
                                       ELSE IF t.hooks[f] = NoHook THEN owner
                                       ELSE t.hooks[f].saved]
      /\ u.hooks = [f \in Functions |-> IF f \notin fs THEN t.hooks[f]
                                        ELSE [dst |-> owner, saved |-> t.code[f]]]
      /\ u.rehooked = t.rehooked \cup {f \in fs : t.hooks[f] # NoHook}
  BY DEF Hooked
<1> HIDE DEF u
<1>2. TableType(u)
  <2>1. \A f \in Functions : /\ t.code[f] \in Code /\ t.hooks[f] \in Hooks
                             /\ t.hooks[f].saved \in Code
    BY HookFields DEF TableType
  <2>2. owner \in Code
    BY DEF Code
  <2>3. u.code \in [Functions -> Code]
    BY <1>1, <2>1, <2>2
  <2>4. u.hooks \in [Functions -> Hooks]
    BY <1>1, <2>1, <2>2 DEF Hooks
  <2>5. QED
    BY <1>1, <2>3, <2>4 DEF TableType
<1>3. ASSUME Truthful(t), NEW f \in Functions \ u.rehooked
      PROVE  u.code[f] = u.hooks[f].dst /\ u.hooks[f].saved = Original
  <2>1. CASE f \notin fs
    BY <1>1, <1>3, <2>1 DEF Truthful
  <2>2. CASE f \in fs
    <3>1. t.hooks[f] = NoHook /\ f \notin t.rehooked
      BY <1>1, <1>3, <2>2
    <3>2. t.code[f] = Original
      BY <1>3, <3>1 DEF Truthful, NoHook
    <3>3. QED
      BY <1>1, <2>2, <3>1, <3>2
  <2>3. QED
    BY <2>1, <2>2
<1>4. QED
  BY <1>2, <1>3 DEF u, Truthful

LEMMA HookedByOwners ==
  ASSUME NEW m \in Owners
  PROVE  HookedBy[m] \in SUBSET Functions
BY DEF Functions

LEMMA CoreIsOwner == "core" \in Owners
BY DEF Owners, HookedBy

(* Core::initialize keeps both, whether it has been called before or not.    *)
LEMMA CoreTableKeeps ==
  ASSUME TableType(Table)
  PROVE  /\ TableType(CoreTable)
         /\ Truthful(Table) => Truthful(CoreTable)
BY HookedKeeps, HookedByOwners, CoreIsOwner DEF CoreTable

-----------------------------------------------------------------------------
(***************************************************************************)
(* The invariant of the core.                                              *)
(***************************************************************************)

\* Opcodes are given out in order; one a module holds runs its handler or
\* none, and one nobody holds yet runs none.
OpcodesInOrder ==
  /\ \A m \in Modules : \A o \in statics[m] :
       o < next_opcode_id /\ opcode_handlers[o] \in {m, Original}
  /\ \A o \in DOMAIN opcode_handlers :
       o >= next_opcode_id => opcode_handlers[o] = Original

\* Bytecode that is still owned finds the handlers of its module.
OwnedHaveHandlers ==
  \A m \in Modules : bytecode[m] = "owned" =>
    /\ statics[m] # {}
    /\ \A o \in statics[m] : opcode_handlers[o] = m

CoreInv ==
  /\ CoreTypeOK
  /\ Truthful(Table)
  /\ OpcodesInOrder
  /\ OwnedHaveHandlers

LEMMA TableTyped == CoreTypeOK => TableType(Table)
BY DEF CoreTypeOK, TableType, Table

LEMMA CoreInitially == Init => CoreInv
<1> SUFFICES ASSUME Init PROVE CoreInv
  OBVIOUS
<1> USE HooksAssumption DEF Init
<1>1. CoreTypeOK
  <2>1. NoHook \in Hooks /\ Original \in Code
    BY DEF Hooks, Code
  <2>2. initialized \in BOOLEAN /\ debugger_initialized \in BOOLEAN
    OBVIOUS
  <2>3. /\ code \in [Functions -> Code] /\ hooks \in [Functions -> Hooks]
        /\ rehooked \subseteq Functions /\ proc_hooks \subseteq ProcHookers
    BY <2>1
  <2>4. /\ opcode_handlers \in [0 .. MaxOpcodes - 1 -> Code]
        /\ statics \in [Modules -> SUBSET (0 .. MaxOpcodes - 1)]
        /\ bytecode \in [Modules -> {"none", "owned", "freed", "patched"}]
    BY <2>1
  <2>5. next_opcode_id \in 0 .. MaxOpcodes /\ procs \in 0 .. MaxLives /\ life \in 1 .. MaxLives
    OBVIOUS
  <2>6. QED
    BY <2>2, <2>3, <2>4, <2>5 DEF CoreTypeOK
<1>2. Truthful(Table)
  BY DEF Truthful, Table, NoHook
<1>3. OpcodesInOrder
  BY DEF OpcodesInOrder
<1>4. OwnedHaveHandlers
  BY DEF OwnedHaveHandlers
<1>5. QED
  BY <1>1, <1>2, <1>3, <1>4 DEF CoreInv

\* What a step that only touches the table and the list of procs must show.
LEMMA TableStepKeeps ==
  ASSUME CoreInv,
         NEW t, TableType(t), Truthful(t), SetTable(t),
         initialized' \in BOOLEAN, procs' \in 0 .. MaxLives,
         UNCHANGED <<debugger_initialized, opcodeVars, proc_hooks, bytecode, life>>
  PROVE  CoreInv'
<1>1. CoreTypeOK'
  BY DEF CoreInv, CoreTypeOK, TableType, SetTable, opcodeVars
<1>2. Truthful(Table)'
  BY DEF Truthful, Table, SetTable
<1>3. OpcodesInOrder' /\ OwnedHaveHandlers'
  BY DEF CoreInv, OpcodesInOrder, OwnedHaveHandlers, opcodeVars
<1>4. QED
  BY <1>1, <1>2, <1>3 DEF CoreInv

(* Registering keeps the order and the owners of opcodes, and gives a module *)
(* that compiles procs opcodes of its own.                                   *)
LEMMA OpcodeCounts ==
  ASSUME NEW m \in Owners
  PROVE  OpcodesOf[m] \in Nat /\ (m \in Rewriters => OpcodesOf[m] > 0)
BY DEF OpcodesOf, Rewriters

LEMMA RegisterKeeps ==
  ASSUME CoreInv, NEW m \in Modules, RegisterOpcodes(m)
  PROVE  /\ next_opcode_id' \in 0 .. MaxOpcodes
         /\ opcode_handlers' \in [0 .. MaxOpcodes - 1 -> Code]
         /\ statics' \in [Modules -> SUBSET (0 .. MaxOpcodes - 1)]
         /\ OpcodesInOrder'
         /\ \A k \in Modules : \A o \in statics'[k] :
              k # m => opcode_handlers'[o] = opcode_handlers[o] /\ o \in statics[k]
         /\ \A k \in Modules : k # m => statics'[k] = statics[k]
         /\ m \in Rewriters => /\ statics'[m] # {}
                               /\ \A o \in statics'[m] : opcode_handlers'[o] = m
<1> DEFINE new == NewOpcodes(m)
<1>1. m \in Owners /\ OpcodesOf[m] \in Nat /\ (m \in Rewriters => OpcodesOf[m] > 0)
  BY HooksAssumption, OpcodeCounts
<1>2. /\ next_opcode_id + OpcodesOf[m] <= MaxOpcodes
      /\ next_opcode_id' = next_opcode_id + OpcodesOf[m]
      /\ opcode_handlers' = [o \in DOMAIN opcode_handlers |->
                               IF o \in new THEN m ELSE opcode_handlers[o]]
      /\ statics' = IF new = {} THEN statics ELSE [statics EXCEPT ![m] = new]
  BY DEF RegisterOpcodes
<1>3. /\ next_opcode_id \in 0 .. MaxOpcodes /\ MaxOpcodes \in Nat
      /\ opcode_handlers \in [0 .. MaxOpcodes - 1 -> Code]
      /\ statics \in [Modules -> SUBSET (0 .. MaxOpcodes - 1)]
  BY HooksAssumption DEF CoreInv, CoreTypeOK
<1>4. \A o : o \in new <=> o \in Nat /\ next_opcode_id <= o /\ o < next_opcode_id'
  BY <1>1, <1>2, <1>3 DEF NewOpcodes
<1>5. /\ \A k \in Modules : \A o \in statics[k] :
           o < next_opcode_id /\ opcode_handlers[o] \in {k, Original}
      /\ \A o \in 0 .. MaxOpcodes - 1 :
           o >= next_opcode_id => opcode_handlers[o] = Original
  BY <1>3 DEF CoreInv, OpcodesInOrder
<1> HIDE DEF new
<1>6. /\ next_opcode_id' \in 0 .. MaxOpcodes
      /\ opcode_handlers' \in [0 .. MaxOpcodes - 1 -> Code]
      /\ statics' \in [Modules -> SUBSET (0 .. MaxOpcodes - 1)]
  <2>1. m \in Code
    BY <1>1 DEF Code
  <2>2. new \in SUBSET (0 .. MaxOpcodes - 1)
    BY <1>1, <1>2, <1>3, <1>4
  <2>3. QED
    BY <1>1, <1>2, <1>3, <2>1, <2>2
<1>7. \A k \in Modules : k # m => statics'[k] = statics[k]
  BY <1>2, <1>3
<1>8. \A o \in 0 .. MaxOpcodes - 1 : o < next_opcode_id => o \notin new
  BY <1>3, <1>4
<1>9. \A k \in Modules : \A o \in statics[k] : opcode_handlers'[o] = opcode_handlers[o]
  BY <1>2, <1>3, <1>5, <1>8
<1>10. statics'[m] \in {statics[m], new}
  BY <1>2, <1>3
<1>11. \A o \in new : opcode_handlers'[o] = m
  BY <1>1, <1>2, <1>3, <1>4
<1>12. OpcodesInOrder'
  <2>1. \A o \in DOMAIN opcode_handlers' : o >= next_opcode_id' => opcode_handlers'[o] = Original
    BY <1>1, <1>2, <1>3, <1>4, <1>5
  <2>2. \A k \in Modules : \A o \in statics[k] : o < next_opcode_id'
    BY <1>1, <1>2, <1>3, <1>5
  <2>3. \A o \in new : o < next_opcode_id'
    BY <1>4
  <2>4. ASSUME NEW k \in Modules, NEW o \in statics'[k]
        PROVE  o < next_opcode_id' /\ opcode_handlers'[o] \in {k, Original}
    BY <1>5, <1>7, <1>9, <1>10, <1>11, <2>2, <2>3
  <2>5. QED
    BY <2>1, <2>4 DEF OpcodesInOrder
<1>13. m \in Rewriters => statics'[m] # {} /\ \A o \in statics'[m] : opcode_handlers'[o] = m
  <2>1. m \in Rewriters => next_opcode_id \in new
    BY <1>1, <1>2, <1>3, <1>4
  <2>2. QED
    BY <1>2, <1>3, <1>11, <2>1
<1>14. QED
  BY <1>6, <1>7, <1>9, <1>12, <1>13

-----------------------------------------------------------------------------
(***************************************************************************)
(* The steps of the core.                                                  *)
(***************************************************************************)

LEMMA InitializeKeeps ==
  ASSUME CoreInv, NEW m \in Modules, Initialize(m)
  PROVE  CoreInv'
<1>1. TableType(CoreTable) /\ Truthful(CoreTable)
  BY TableTyped, CoreTableKeeps DEF CoreInv
<1>2. initialized' \in BOOLEAN /\ procs' \in 0 .. MaxLives
  BY HooksAssumption DEF Initialize, CoreInv, CoreTypeOK
<1>3. CASE m = "debugger" /\ debugger_initialized
  <2>1. /\ SetTable(CoreTable)
        /\ UNCHANGED <<debugger_initialized, opcodeVars, proc_hooks, bytecode, life>>
    BY <1>3 DEF Initialize
  <2>2. QED
    BY <1>1, <1>2, <2>1, TableStepKeeps
<1>4. CASE ~ (m = "debugger" /\ debugger_initialized)
  <2> DEFINE t == Hooked(CoreTable, HookedBy[m], m)
  <2>1. m \in Owners
    BY HooksAssumption
  <2>2. TableType(t) /\ Truthful(t)
    BY <1>1, <2>1, HookedKeeps, HookedByOwners
  <2>3. /\ SetTable(t)
        /\ RegisterOpcodes(m)
        /\ debugger_initialized' = (debugger_initialized \/ m = "debugger")
        /\ proc_hooks' = proc_hooks \cup ({m} \cap ProcHookers)
        /\ bytecode' = IF m \in Rewriters \ {"debugger"}
                       THEN [bytecode EXCEPT ![m] = "owned"] ELSE bytecode
        /\ UNCHANGED life
    BY <1>4 DEF Initialize
  <2> HIDE DEF t
  <2>4. Truthful(Table)'
    BY <2>2, <2>3 DEF Truthful, Table, SetTable
  <2>5. OpcodesInOrder'
    BY <2>3, RegisterKeeps
  <2>6. bytecode \in [Modules -> {"none", "owned", "freed", "patched"}]
    BY DEF CoreInv, CoreTypeOK
  <2>7. CoreTypeOK'
    <3>1. debugger_initialized' \in BOOLEAN
      BY <2>3
    <3>2. bytecode' \in [Modules -> {"none", "owned", "freed", "patched"}]
      BY <2>3, <2>6
    <3>3. proc_hooks' \subseteq ProcHookers
      BY <2>3 DEF CoreInv, CoreTypeOK
    <3>4. life' \in 1 .. MaxLives
      BY <2>3 DEF CoreInv, CoreTypeOK
    <3>5. QED
      BY <1>2, <2>2, <2>3, <3>1, <3>2, <3>3, <3>4, RegisterKeeps
         DEF CoreTypeOK, TableType, SetTable
  <2>8. OwnedHaveHandlers'
    <3> SUFFICES ASSUME NEW k \in Modules, bytecode'[k] = "owned"
                 PROVE  statics'[k] # {} /\ \A o \in statics'[k] : opcode_handlers'[o] = k
      BY DEF OwnedHaveHandlers
    <3>1. CASE k = m /\ m \in Rewriters
      BY <2>3, <3>1, RegisterKeeps
    <3>2. CASE k = m /\ m \notin Rewriters
      <4>1. /\ statics[k] # {} /\ \A o \in statics[k] : opcode_handlers[o] = k
            /\ OpcodesOf[m] = 0
        BY <2>1, <2>3, <3>2 DEF CoreInv, OwnedHaveHandlers, OpcodesOf, Rewriters
      <4>2. NewOpcodes(m) = {}
        BY <4>1 DEF NewOpcodes, CoreInv, CoreTypeOK
      <4>3. statics' = statics /\ opcode_handlers' = opcode_handlers
        BY <2>3, <4>2 DEF RegisterOpcodes, CoreInv, CoreTypeOK
      <4>4. QED
        BY <4>1, <4>3
    <3>3. CASE k # m
      <4>1. bytecode[k] = "owned"
        BY <2>3, <2>6, <3>3
      <4>2. statics[k] # {} /\ \A o \in statics[k] : opcode_handlers[o] = k
        BY <4>1 DEF CoreInv, OwnedHaveHandlers
      <4>3. QED
        BY <2>3, <3>3, <4>2, RegisterKeeps
    <3>4. QED
      BY <3>1, <3>2, <3>3
  <2>9. QED
    BY <2>4, <2>5, <2>7, <2>8 DEF CoreInv
<1>5. QED
  BY <1>3, <1>4

LEMMA CleanupKeeps ==
  ASSUME CoreInv, Cleanup
  PROVE  CoreInv'
<1>1. TableType(Table)
  BY TableTyped DEF CoreInv
<1>2. CoreTypeOK'
  <2>1. code' \in [Functions -> Code]
    BY <1>1, HookFields DEF Cleanup, RestoredCode, TableType, Table
  <2>2. hooks' \in [Functions -> Hooks]
    BY DEF Cleanup, Hooks
  <2>3. bytecode' \in [Modules -> {"none", "owned", "freed", "patched"}]
    BY DEF Cleanup, FreedBytecode, CoreInv, CoreTypeOK
  <2>4. opcode_handlers' \in [0 .. MaxOpcodes - 1 -> Code]
    BY DEF Cleanup, Code, CoreInv, CoreTypeOK
  <2>5. initialized' \in BOOLEAN /\ debugger_initialized' \in BOOLEAN
    BY DEF Cleanup, CoreInv, CoreTypeOK
  <2>6. /\ procs' \in 0 .. MaxLives /\ life' \in 1 .. MaxLives
        /\ proc_hooks' \subseteq ProcHookers /\ rehooked' \subseteq Functions
        /\ next_opcode_id' \in 0 .. MaxOpcodes
        /\ statics' \in [Modules -> SUBSET (0 .. MaxOpcodes - 1)]
    BY HooksAssumption DEF Cleanup, CoreInv, CoreTypeOK
  <2>7. QED
    BY <2>1, <2>2, <2>3, <2>4, <2>5, <2>6 DEF CoreTypeOK
<1>3. Truthful(Table)'
  <2> SUFFICES ASSUME NEW f \in Functions \ rehooked
               PROVE  /\ code'[f] = hooks'[f].dst
                      /\ hooks'[f].saved = Original
    BY DEF Truthful, Table, Cleanup
  <2>1. code[f] = hooks[f].dst /\ hooks[f].saved = Original
    BY DEF CoreInv, Truthful, Table
  <2>2. hooks'[f] = NoHook /\ NoHook.dst = Original /\ NoHook.saved = Original
    BY DEF Cleanup, NoHook
  <2>3. code'[f] = Original
    BY <2>1, <2>2 DEF Cleanup, RestoredCode
  <2>4. QED
    BY <2>2, <2>3
<1>4. OpcodesInOrder'
  BY DEF Cleanup, CoreInv, CoreTypeOK, OpcodesInOrder
<1>5. OwnedHaveHandlers'
  BY DEF Cleanup, FreedBytecode, CoreInv, CoreTypeOK, OwnedHaveHandlers
<1>6. QED
  BY <1>2, <1>3, <1>4, <1>5 DEF CoreInv

(* Every step of the core keeps its invariant.                               *)
LEMMA CoreStep == CoreInv /\ [CoreNext]_coreVars => CoreInv'
<1> SUFFICES ASSUME CoreInv, [CoreNext]_coreVars
             PROVE  CoreInv'
  OBVIOUS
<1>1. CASE \E m \in Modules : Initialize(m)
  BY <1>1, InitializeKeeps
<1>2. CASE WriteBreakpoint \/ Reboot
  <2>1. Truthful(Table)' /\ OpcodesInOrder'
    BY <1>2 DEF CoreInv, WriteBreakpoint, Reboot, hookVars, opcodeVars,
       Truthful, Table, OpcodesInOrder
  <2>2. OwnedHaveHandlers'
    BY <1>2 DEF CoreInv, CoreTypeOK, WriteBreakpoint, Reboot, opcodeVars, OwnedHaveHandlers
  <2>3. CoreTypeOK'
    <3>1. bytecode' \in [Modules -> {"none", "owned", "freed", "patched"}]
      BY <1>2 DEF CoreInv, CoreTypeOK, WriteBreakpoint, Reboot
    <3>2. life' \in 1 .. MaxLives
      BY <1>2, HooksAssumption DEF CoreInv, CoreTypeOK, WriteBreakpoint, Reboot
    <3>3. UNCHANGED <<initialized, debugger_initialized, code, hooks, rehooked,
                      next_opcode_id, opcode_handlers, statics, procs, proc_hooks>>
      BY <1>2 DEF WriteBreakpoint, Reboot, hookVars, opcodeVars
    <3>4. initialized' \in BOOLEAN /\ debugger_initialized' \in BOOLEAN
      BY <3>3 DEF CoreInv, CoreTypeOK
    <3>5. /\ code' \in [Functions -> Code] /\ hooks' \in [Functions -> Hooks]
          /\ rehooked' \subseteq Functions /\ proc_hooks' \subseteq ProcHookers
      BY <3>3 DEF CoreInv, CoreTypeOK
    <3>6. /\ next_opcode_id' \in 0 .. MaxOpcodes /\ procs' \in 0 .. MaxLives
          /\ opcode_handlers' \in [0 .. MaxOpcodes - 1 -> Code]
          /\ statics' \in [Modules -> SUBSET (0 .. MaxOpcodes - 1)]
      BY <3>3 DEF CoreInv, CoreTypeOK
    <3>7. QED
      BY <3>1, <3>2, <3>4, <3>5, <3>6 DEF CoreTypeOK
  <2>4. QED
    BY <2>1, <2>2, <2>3 DEF CoreInv
<1>3. CASE Cleanup
  BY <1>3, CleanupKeeps
<1>4. CASE UNCHANGED coreVars
  BY <1>4 DEF CoreInv, CoreTypeOK, Truthful, Table, OpcodesInOrder,
     OwnedHaveHandlers, coreVars, hookVars, opcodeVars, procVars
<1>5. QED
  BY <1>1, <1>2, <1>3, <1>4 DEF CoreNext

-----------------------------------------------------------------------------
(***************************************************************************)
(* The filter.                                                             *)
(***************************************************************************)

FilterTypeOK ==
  /\ current_topic_filter \in BOOLEAN
  /\ blacklist \subseteq Addresses /\ whitelist \subseteq Addresses
  /\ last_packets \in [Addresses -> 0 .. Never]
  /\ ban_callback \in 0 .. MaxLives
  /\ answer \in [addr : Addresses, asked : BOOLEAN, accepted : BOOLEAN, called : 0 .. MaxLives]
  /\ quiet \in [Addresses -> 0 .. Window]
  /\ hasty \subseteq Addresses
  /\ banned \in [Addresses -> Nat]

\* last_packets knows the age of an address that was accepted lately, unless
\* it is exempt, or banned and therefore on the blacklist.
AgesKnown ==
  \A a \in Addresses : ~ Exempt(a) /\ a \notin blacklist =>
    quiet[a] = Window \/ quiet[a] = last_packets[a]

FilterInv ==
  /\ FilterTypeOK
  /\ AgesKnown
  /\ AcceptedApart
  /\ BannedOnce
  /\ \A a \in Addresses : banned[a] > 0 => a \in blacklist

LEMMA FilterInitially == FilterInit => FilterInv
<1> SUFFICES ASSUME FilterInit PROVE FilterInv
  OBVIOUS
<1> USE FilterAssumption, HooksAssumption DEF FilterInit
<1>1. current_topic_filter \in BOOLEAN
  OBVIOUS
<1>2. answer \in [addr : Addresses, asked : BOOLEAN, accepted : BOOLEAN, called : 0 .. MaxLives]
  BY DEF NoTopic
<1>3. FilterTypeOK
  BY <1>1, <1>2 DEF FilterTypeOK, Never
<1>4. AgesKnown /\ AcceptedApart /\ BannedOnce
  BY DEF AgesKnown, AcceptedApart, BannedOnce
<1>5. QED
  BY <1>3, <1>4 DEF FilterInv

\* An address that is exempt, or that waited for the window, is accepted.
LEMMA AcceptKeeps ==
  ASSUME FilterInv, NEW a \in Addresses, a \notin blacklist, Accept(a),
         \/ Exempt(a) /\ last_packets' = last_packets
         \/ ~ Exempt(a) /\ ~ TooSoon(a) /\ last_packets' = Refreshed(a),
         UNCHANGED <<current_topic_filter, whitelist, ban_callback>>
  PROVE  FilterInv'
<1> USE FilterAssumption DEF FilterInv
<1>1. /\ answer' = [addr |-> a, asked |-> TRUE, accepted |-> TRUE, called |-> 0]
      /\ quiet' = [quiet EXCEPT ![a] = 0]
      /\ hasty' = IF quiet[a] < Window /\ ~ Exempt(a) THEN hasty \cup {a} ELSE hasty
      /\ UNCHANGED <<blacklist, banned>>
  BY DEF Accept, Answer
<1>2. ~ (quiet[a] < Window /\ ~ Exempt(a))
  BY DEF AgesKnown, TooSoon, FilterTypeOK
<1>3. \A b : Exempt(b)' = Exempt(b)
  BY DEF Exempt
<1>4. FilterTypeOK'
  <2>1. last_packets' \in [Addresses -> 0 .. Never]
    BY DEF FilterTypeOK, Refreshed, Never
  <2>2. answer' \in [addr : Addresses, asked : BOOLEAN, accepted : BOOLEAN, called : 0 .. MaxLives]
    BY <1>1, HooksAssumption
  <2>3. current_topic_filter' \in BOOLEAN
    BY DEF FilterTypeOK
  <2>4. quiet' \in [Addresses -> 0 .. Window] /\ hasty' \subseteq Addresses
    BY <1>1, <1>2 DEF FilterTypeOK
  <2>5. QED
    BY <1>1, <2>1, <2>2, <2>3, <2>4 DEF FilterTypeOK
<1>5. AgesKnown'
  BY <1>1, <1>3 DEF AgesKnown, FilterTypeOK, Refreshed
<1>6. AcceptedApart'
  BY <1>1, <1>2 DEF AcceptedApart
<1>7. BannedOnce' /\ \A b \in Addresses : banned'[b] > 0 => b \in blacklist'
  BY <1>1, <1>3 DEF BannedOnce
<1>8. QED
  BY <1>4, <1>5, <1>6, <1>7

LEMMA BannedKeeps ==
  ASSUME FilterInv, NEW a \in Addresses, Banned(a),
         UNCHANGED <<current_topic_filter, whitelist, ban_callback>>
  PROVE  FilterInv'
<1> USE FilterAssumption DEF FilterInv
<1>1. /\ a \notin blacklist /\ ~ Exempt(a)
      /\ answer' = [addr |-> a, asked |-> TRUE, accepted |-> FALSE, called |-> ban_callback]
      /\ blacklist' = blacklist \cup {a}
      /\ last_packets' = [last_packets EXCEPT ![a] = Never]
      /\ banned' = [banned EXCEPT ![a] = @ + 1]
      /\ UNCHANGED <<quiet, hasty>>
  BY DEF Banned, Answer, Blacklisted
<1>2. banned[a] = 0
  BY <1>1 DEF FilterTypeOK
<1>3. \A b : Exempt(b)' = Exempt(b)
  BY DEF Exempt
<1>4. FilterTypeOK'
  BY <1>1 DEF FilterTypeOK, Never
<1>5. AgesKnown'
  BY <1>1, <1>3 DEF AgesKnown, FilterTypeOK
<1>6. AcceptedApart'
  BY <1>1 DEF AcceptedApart
<1>7. BannedOnce' /\ \A b \in Addresses : banned'[b] > 0 => b \in blacklist'
  BY <1>1, <1>2, <1>3 DEF BannedOnce, FilterTypeOK
<1>8. QED
  BY <1>4, <1>5, <1>6, <1>7

LEMMA InstallKeeps ==
  ASSUME CoreInv, Install
  PROVE  CoreInv' /\ FilterInv'
<1> USE FilterAssumption, HooksAssumption
<1>1. procs' \in 0 .. MaxLives
  BY DEF Install, CoreInv, CoreTypeOK
<1>2. CoreInv'
  <2>1. TableType(CoreTable) /\ Truthful(CoreTable)
    BY TableTyped, CoreTableKeeps DEF CoreInv
  <2>2. initialized' \in BOOLEAN /\ SetTable(CoreTable)
    BY DEF Install
  <2>3. UNCHANGED <<debugger_initialized, opcodeVars, proc_hooks, bytecode, life>>
    BY DEF Install
  <2>4. QED
    BY <1>1, <2>1, <2>2, <2>3, TableStepKeeps
<1>3. FilterTypeOK'
  <2>1. current_topic_filter' \in BOOLEAN
    BY DEF Install
  <2>2. answer' \in [addr : Addresses, asked : BOOLEAN, accepted : BOOLEAN, called : 0 .. MaxLives]
    BY DEF Install, NoTopic
  <2>3. QED
    BY <1>1, <2>1, <2>2 DEF Install, FilterTypeOK, Never
<1>4. AgesKnown' /\ AcceptedApart' /\ BannedOnce'
      /\ \A a \in Addresses : banned'[a] > 0 => a \in blacklist'
  BY DEF Install, AgesKnown, AcceptedApart, BannedOnce
<1>5. QED
  BY <1>2, <1>3, <1>4 DEF FilterInv

LEMMA TopicKeeps ==
  ASSUME FilterInv, NEW a \in Addresses, Topic(a)
  PROVE  FilterInv'
<1> USE FilterAssumption
<1>1. UNCHANGED <<current_topic_filter, whitelist, ban_callback>>
  BY DEF Topic
<1>2. CASE Denied(a)
  <2>1. /\ a \in blacklist
        /\ answer' = [addr |-> a, asked |-> TRUE, accepted |-> FALSE, called |-> 0]
        /\ UNCHANGED <<blacklist, last_packets, quiet, hasty, banned>>
    BY <1>2 DEF Denied, Answer
  <2>2. answer' \in [addr : Addresses, asked : BOOLEAN, accepted : BOOLEAN, called : 0 .. MaxLives]
    BY <2>1, HooksAssumption
  <2>3. current_topic_filter' \in BOOLEAN
    BY <1>1 DEF FilterInv, FilterTypeOK
  <2>4. FilterTypeOK'
    BY <1>1, <2>1, <2>2, <2>3 DEF FilterInv, FilterTypeOK
  <2>5. QED
    BY <1>1, <2>1, <2>4 DEF FilterInv, AgesKnown, AcceptedApart, BannedOnce, Exempt
<1>3. CASE Exempted(a)
  BY <1>1, <1>3, AcceptKeeps DEF Exempted
<1>4. CASE Banned(a)
  BY <1>1, <1>4, BannedKeeps
<1>5. CASE Accepted(a)
  BY <1>1, <1>5, AcceptKeeps DEF Accepted
<1>6. QED
  BY <1>2, <1>3, <1>4, <1>5 DEF Topic

LEMMA UnfilteredKeeps ==
  ASSUME FilterInv, NEW a \in Addresses, UnfilteredTopic(a)
  PROVE  FilterInv'
<1>1. PICK ok \in BOOLEAN :
        answer' = [addr |-> a, asked |-> FALSE, accepted |-> ok, called |-> 0]
  BY DEF UnfilteredTopic
<1>2. UNCHANGED <<current_topic_filter, blacklist, whitelist, last_packets,
                  ban_callback, quiet, hasty, banned>>
  BY DEF UnfilteredTopic
<1>3. answer' \in [addr : Addresses, asked : BOOLEAN, accepted : BOOLEAN, called : 0 .. MaxLives]
  BY <1>1, HooksAssumption
<1>4. current_topic_filter' \in BOOLEAN
  BY <1>2 DEF FilterInv, FilterTypeOK
<1>5. FilterTypeOK'
  BY <1>2, <1>3, <1>4 DEF FilterInv, FilterTypeOK
<1>6. QED
  BY <1>1, <1>2, <1>5 DEF FilterInv, AgesKnown, AcceptedApart, BannedOnce, Exempt

LEMMA TickKeeps ==
  ASSUME FilterInv, Tick
  PROVE  FilterInv'
<1> USE FilterAssumption
<1>1. /\ last_packets' = [a \in Addresses |->
           IF last_packets[a] < Window THEN last_packets[a] + 1 ELSE last_packets[a]]
      /\ quiet' = [a \in Addresses |-> IF quiet[a] < Window THEN quiet[a] + 1 ELSE quiet[a]]
      /\ UNCHANGED <<current_topic_filter, blacklist, whitelist, ban_callback, answer,
                     hasty, banned>>
  BY DEF Tick
<1>2. /\ last_packets \in [Addresses -> 0 .. Never]
      /\ quiet \in [Addresses -> 0 .. Window]
  BY DEF FilterInv, FilterTypeOK
<1>3. /\ last_packets' \in [Addresses -> 0 .. Never]
      /\ quiet' \in [Addresses -> 0 .. Window]
  BY <1>1, <1>2 DEF Never
<1>4. current_topic_filter' \in BOOLEAN
  BY <1>1 DEF FilterInv, FilterTypeOK
<1>5. FilterTypeOK'
  BY <1>1, <1>3, <1>4 DEF FilterInv, FilterTypeOK
<1>6. AgesKnown'
  BY <1>1, <1>2 DEF FilterInv, AgesKnown, Exempt
<1>7. QED
  BY <1>1, <1>5, <1>6 DEF FilterInv, AcceptedApart, BannedOnce, Exempt

LEMMA FilterUntouched ==
  ASSUME FilterInv, UNCHANGED filterVars
  PROVE  FilterInv'
BY DEF FilterInv, FilterTypeOK, AgesKnown, AcceptedApart, BannedOnce, Exempt, filterVars

-----------------------------------------------------------------------------
(***************************************************************************)
(* The theorems.                                                           *)
(***************************************************************************)

LEMMA Step == CoreInv /\ FilterInv /\ [Next]_vars => CoreInv' /\ FilterInv'
<1> SUFFICES ASSUME CoreInv, FilterInv, [Next]_vars
             PROVE  CoreInv' /\ FilterInv'
  OBVIOUS
<1>1. CASE Core
  BY <1>1, CoreStep, FilterUntouched DEF Core
<1>2. CASE Install
  BY <1>2, InstallKeeps
<1>3. ASSUME NEW a \in Addresses, Topic(a)
      PROVE  CoreInv' /\ FilterInv'
  BY <1>3, TopicKeeps, CoreStep DEF Topic
<1>4. ASSUME NEW a \in Addresses, UnfilteredTopic(a)
      PROVE  CoreInv' /\ FilterInv'
  BY <1>4, UnfilteredKeeps, CoreStep DEF UnfilteredTopic
<1>5. CASE Tick
  BY <1>5, TickKeeps, CoreStep DEF Tick
<1>6. CASE UNCHANGED vars
  BY <1>6, CoreStep, FilterUntouched DEF vars
<1>7. QED
  BY <1>1, <1>2, <1>3, <1>4, <1>5, <1>6 DEF Next

LEMMA Invariance == Spec => [](CoreInv /\ FilterInv)
<1>1. Init /\ FilterInit => CoreInv /\ FilterInv
  BY CoreInitially, FilterInitially
<1>2. QED
  BY <1>1, Step, PTL DEF Spec

(* Every variable of the core and of the filter keeps its type, for any      *)
(* modules and addresses.                                                    *)
THEOREM TypeCorrect == Spec => []TypeOK
<1>1. CoreInv /\ FilterInv => TypeOK
  BY DEF CoreInv, FilterInv, FilterTypeOK, TypeOK
<1>2. QED
  BY <1>1, Invariance, PTL

(* install_hook, remove_all_hooks: whatever modules are initialised, however *)
(* often, and through any cleanups and worlds, a function that was never     *)
(* hooked over a hook enters what the table says, or BYOND's own code.       *)
THEOREM TableStaysTrue == Spec => []TableIsTrue
<1>1. CoreInv => TableIsTrue
  BY DEF CoreInv, Truthful, Table, TableIsTrue
<1>2. QED
  BY <1>1, Invariance, PTL

(* register_opcode, cleanup: no opcode ever runs a handler of another module *)
(* than the one that got it, and bytecode not freed finds its handlers.      *)
THEOREM OpcodesStayOwned == Spec => []OpcodesKeepOwner
<1>1. CoreInv => OpcodesKeepOwner
  BY DEF CoreInv, OpcodesInOrder, OwnedHaveHandlers, OpcodesKeepOwner
<1>2. QED
  BY <1>1, Invariance, PTL

(* flood_topic_filter: two topics of one address it accepts are a window     *)
(* apart, whatever cleanups, worlds and other addresses come between.        *)
THEOREM TopicsAreApart == Spec => []AcceptedApart
<1>1. FilterInv => AcceptedApart
  BY DEF FilterInv
<1>2. QED
  BY <1>1, Invariance, PTL

(* flood_topic_filter: an address is banned once and stays banned until the  *)
(* filter is installed again; one that is exempt never is.                   *)
THEOREM BannedStayBanned == Spec => []BannedOnce
<1>1. FilterInv => BannedOnce
  BY DEF FilterInv
<1>2. QED
  BY <1>1, Invariance, PTL

-----------------------------------------------------------------------------
(***************************************************************************)
(* The stream of messages.  What the reader has not parsed is, byte for    *)
(* byte, the messages that are sent and not received, each ended by its    *)
(* zero, and at most the beginning of one more: so a zero ends the oldest  *)
(* of them, and it is that one.  Where a thread wrote into another's       *)
(* message this ends, and no text that reaches further is a message.       *)
(***************************************************************************)
(* A byte of a message.                                                      *)
At(m, k) == <<m, k>>

(* The first l bytes of st hold messages number a + 1 to b of q: message i   *)
(* ends at c[i], and no zero is anywhere else.                               *)
Cuts(c, q, a, b) ==
  /\ c \in [Nat -> Nat] /\ c[a] = 0
  /\ \A i, j \in a .. b : i < j => c[i] < c[j]
  /\ \A i \in a + 1 .. b : q[i] \in Messages /\ c[i] = c[i - 1] + Size[q[i]] + 1

Framed(c, st, l, q, a, b) ==
  /\ Cuts(c, q, a, b)
  /\ \A i \in a + 1 .. b : st[c[i]] = Zero
  /\ \A i \in a + 1 .. b : \A k \in c[i - 1] + 1 .. c[i] - 1 : st[k] = At(q[i], k - c[i - 1])
  /\ c[b] <= l
  /\ \A k \in 1 .. l : st[k] = Zero => \E i \in a + 1 .. b : k = c[i]

\* The last of the frames ends at e.
FramedUpTo(e, st, l, q, a, b) == \E c : Framed(c, st, l, q, a, b) /\ c[b] = e

LEMMA SizeIs == \A m \in Messages : /\ Size[m] \in Nat /\ Size[m] >= 1
                                    /\ \A k \in Nat : At(m, k) # Zero
BY StreamAssumption DEF At

LEMMA CutsInside ==
  ASSUME NEW a \in Nat, NEW b \in Nat, NEW q, NEW c, a <= b, Cuts(c, q, a, b)
  PROVE  /\ \A i \in a .. b : c[i] \in Nat /\ c[i] <= c[b]
         /\ \A i \in a + 1 .. b : c[i - 1] \in Nat /\ c[i] <= c[b] /\ c[i - 1] < c[i]
         /\ c[a] = 0 /\ c[b] \in Nat
<1>1. ASSUME NEW i \in a .. b
      PROVE  c[i] \in Nat /\ c[i] <= c[b]
  <2>1. i \in Nat /\ b \in a .. b /\ (i < b \/ i = b)
    OBVIOUS
  <2>2. c[i] \in Nat /\ c[b] \in Nat
    BY <2>1 DEF Cuts
  <2>3. i < b => c[i] < c[b]
    BY <2>1 DEF Cuts
  <2>4. QED
    BY <2>1, <2>2, <2>3
<1>2. ASSUME NEW i \in a + 1 .. b
      PROVE  c[i - 1] \in Nat /\ c[i] <= c[b] /\ c[i - 1] < c[i]
  <2>1. i \in a .. b /\ i - 1 \in a .. b /\ i - 1 < i
    OBVIOUS
  <2>2. QED
    BY <1>1, <2>1 DEF Cuts
<1>3. QED
  BY <1>1, <1>2 DEF Cuts

\* Bytes after the last message that are no zeros change nothing.
LEMMA FramedGrows ==
  ASSUME NEW a \in Nat, NEW b \in Nat, NEW l \in Nat, NEW n \in Nat, NEW q, NEW p,
         NEW c, NEW st, NEW su, a <= b, l <= n, Framed(c, st, l, q, a, b),
         \A k \in 1 .. l : su[k] = st[k], \A k \in l + 1 .. n : su[k] # Zero,
         \A i \in a + 1 .. b : p[i] = q[i]
  PROVE  Framed(c, su, n, p, a, b)
<1>1. /\ \A i \in a + 1 .. b : /\ c[i] \in Nat /\ c[i - 1] \in Nat
                               /\ c[i] <= l /\ c[i - 1] < c[i]
      /\ c[b] <= n
  <2> DEFINE e == c[b]
  <2>1. Cuts(c, q, a, b) /\ e <= l
    BY DEF Framed
  <2>2. e \in Nat /\ \A i \in a .. b : c[i] \in Nat /\ c[i] <= e
    BY <2>1, CutsInside
  <2>3. \A i \in a + 1 .. b : c[i - 1] \in Nat /\ c[i - 1] < c[i]
    BY <2>1, CutsInside
  <2> HIDE DEF e
  <2>4. \A i \in a + 1 .. b : i \in a .. b
    OBVIOUS
  <2>5. \A i \in a + 1 .. b : c[i] \in Nat /\ c[i] <= l
    BY <2>1, <2>2, <2>4
  <2>6. e <= n
    BY <2>1, <2>2
  <2>7. QED
    BY ONLY <2>3, <2>5, <2>6 DEF e
<1>2. Cuts(c, p, a, b)
  <2>1. Cuts(c, q, a, b)
    BY DEF Framed
  <2>2. QED
    BY <2>1 DEF Cuts
<1>3. \A i \in a + 1 .. b : su[c[i]] = Zero
  <2>1. \A i \in a + 1 .. b : c[i] \in 1 .. l
    BY <1>1
  <2>2. QED
    BY <2>1 DEF Framed
<1>4. \A i \in a + 1 .. b : \A k \in c[i - 1] + 1 .. c[i] - 1 : su[k] = At(p[i], k - c[i - 1])
  <2> SUFFICES ASSUME NEW i \in a + 1 .. b, NEW k \in c[i - 1] + 1 .. c[i] - 1
               PROVE  su[k] = At(p[i], k - c[i - 1])
    OBVIOUS
  <2>1. k \in 1 .. l
    BY <1>1
  <2>2. st[k] = At(q[i], k - c[i - 1])
    BY DEF Framed
  <2>3. QED
    BY <2>1, <2>2
<1>5. \A k \in 1 .. n : su[k] = Zero => \E i \in a + 1 .. b : k = c[i]
  <2>1. \A k \in 1 .. n : k \in 1 .. l \/ k \in l + 1 .. n
    OBVIOUS
  <2>2. QED
    BY <2>1 DEF Framed
<1>6. QED
  BY <1>1, <1>2, <1>3, <1>4, <1>5 DEF Framed

\* One more message, the rest of which came in.
LEMMA FramedSent ==
  ASSUME NEW a \in Nat, NEW b \in Nat, NEW l \in Nat, NEW n \in Nat, NEW q, NEW p,
         NEW c, NEW st, NEW su, NEW m \in Messages, a <= b,
         Framed(c, st, l, q, a, b), n = c[b] + Size[m] + 1,
         \A k \in 1 .. c[b] : su[k] = st[k],
         \A k \in c[b] + 1 .. n - 1 : su[k] = At(m, k - c[b]), su[n] = Zero,
         \A i \in a + 1 .. b : p[i] = q[i], p[b + 1] = m
  PROVE  FramedUpTo(n, su, n, p, a, b + 1)
<1> DEFINE d == [c EXCEPT ![b + 1] = n]
           e == c[b]
<1>1. Cuts(c, q, a, b) /\ e \in Nat /\ e <= l
  BY CutsInside DEF Framed
<1>2. /\ \A i \in a .. b : c[i] \in Nat /\ c[i] <= e
      /\ \A i \in a + 1 .. b : c[i - 1] \in Nat /\ c[i] <= e /\ c[i - 1] < c[i]
  BY <1>1, CutsInside
<1>3. d \in [Nat -> Nat] /\ d[b + 1] = n /\ \A i \in a .. b : d[i] = c[i]
  BY <1>1 DEF Cuts
<1>4. n \in Nat /\ e + 1 < n
  BY <1>1, SizeIs
<1> HIDE DEF d
<1>5. Cuts(d, p, a, b + 1)
  <2>1. d[a] = 0
    BY <1>1, <1>3 DEF Cuts
  <2>2. ASSUME NEW i \in a .. b + 1, NEW j \in a .. b + 1, i < j
        PROVE  d[i] < d[j]
    <3>1. i \in a .. b
      BY <2>2
    <3>2. CASE j = b + 1
      BY <1>2, <1>3, <1>4, <3>1, <3>2
    <3>3. CASE j \in a .. b
      BY <1>1, <1>3, <2>2, <3>1, <3>3 DEF Cuts
    <3>4. QED
      BY <3>2, <3>3
  <2>3. ASSUME NEW i \in a + 1 .. b + 1
        PROVE  p[i] \in Messages /\ d[i] = d[i - 1] + Size[p[i]] + 1
    <3>1. CASE i = b + 1
      <4>1. i - 1 = b /\ b \in a .. b
        BY <3>1
      <4>2. QED
        BY <1>3, <3>1, <4>1
    <3>2. CASE i \in a + 1 .. b
      <4>1. i \in a .. b /\ i - 1 \in a .. b
        BY <3>2
      <4>2. QED
        BY <1>1, <1>3, <3>2, <4>1 DEF Cuts
    <3>3. QED
      BY <3>1, <3>2
  <2>4. QED
    BY <1>3, <2>1, <2>2, <2>3 DEF Cuts
<1>6. \A i \in a + 1 .. b : /\ d[i] = c[i] /\ d[i - 1] = c[i - 1]
                            /\ d[i] \in 1 .. e /\ d[i - 1] \in Nat
  <2> SUFFICES ASSUME NEW i \in a + 1 .. b
               PROVE  /\ d[i] = c[i] /\ d[i - 1] = c[i - 1]
                      /\ d[i] \in 1 .. e /\ d[i - 1] \in Nat
    OBVIOUS
  <2>1. i \in a .. b /\ i - 1 \in a .. b
    OBVIOUS
  <2>2. QED
    BY <1>1, <1>2, <1>3, <2>1
<1>7. d[(b + 1) - 1] = e
  <2>1. (b + 1) - 1 = b /\ b \in a .. b
    OBVIOUS
  <2>2. QED
    BY <1>3, <2>1
<1>8. \A i \in a + 1 .. b + 1 : i \in a + 1 .. b \/ i = b + 1
  OBVIOUS
<1>9. \A i \in a + 1 .. b + 1 : su[d[i]] = Zero
  <2>1. ASSUME NEW i \in a + 1 .. b
        PROVE  su[d[i]] = Zero
    <3>1. d[i] = c[i] /\ d[i] \in 1 .. e /\ su[d[i]] = st[d[i]] /\ st[c[i]] = Zero
      BY <1>3, <1>6 DEF Framed
    <3>2. QED
      BY ONLY <3>1
  <2>2. su[d[b + 1]] = Zero
    BY <1>3
  <2>3. QED
    BY ONLY <1>8, <2>1, <2>2
<1>10. ASSUME NEW i \in a + 1 .. b + 1, NEW k \in d[i - 1] + 1 .. d[i] - 1
       PROVE  su[k] = At(p[i], k - d[i - 1])
  <2>1. CASE i = b + 1
    BY <1>3, <1>7, <2>1
  <2>2. CASE i \in a + 1 .. b
    <3>1. /\ k \in 1 .. e /\ k \in c[i - 1] + 1 .. c[i] - 1
          /\ d[i - 1] = c[i - 1] /\ p[i] = q[i]
      BY <1>1, <1>6, <2>2
    <3>2. su[k] = st[k] /\ st[k] = At(q[i], k - c[i - 1])
      BY <2>2, <3>1 DEF Framed
    <3>3. QED
      BY <3>1, <3>2
  <2>3. QED
    BY <1>8, <2>1, <2>2
<1>11. ASSUME NEW k \in 1 .. n, su[k] = Zero
       PROVE  \E i \in a + 1 .. b + 1 : k = d[i]
  <2>1. k = n \/ k \in e + 1 .. n - 1 \/ k \in 1 .. e
    BY <1>1, <1>4
  <2>2. k \notin e + 1 .. n - 1
    <3>1. ASSUME k \in e + 1 .. n - 1
          PROVE  su[k] = At(m, k - e) /\ k - e \in Nat
      BY <1>1, <3>1
    <3>2. QED
      BY <1>11, <3>1, SizeIs
  <2>3. CASE k = n
    BY <1>3, <2>3
  <2>4. CASE k \in 1 .. e
    <3>1. st[k] = Zero /\ k \in 1 .. l
      BY <1>1, <1>11, <2>4
    <3>2. PICK i \in a + 1 .. b : k = c[i]
      BY <3>1 DEF Framed
    <3>3. i \in a + 1 .. b + 1
      OBVIOUS
    <3>4. QED
      BY <1>6, <3>2, <3>3
  <2>5. QED
    BY <2>1, <2>2, <2>3, <2>4
<1>12. Framed(d, su, n, p, a, b + 1)
  BY <1>3, <1>4, <1>5, <1>9, <1>10, <1>11 DEF Framed
<1>13. QED
  BY <1>3, <1>12 DEF FramedUpTo

\* The first zero ends the oldest message, and what precedes it is that one.
LEMMA OldestFrame ==
  ASSUME NEW a \in Nat, NEW b \in Nat, NEW l \in Nat, NEW q, NEW c, NEW st,
         a <= b, Framed(c, st, l, q, a, b), NEW z \in 1 .. l, st[z] = Zero
  PROVE  /\ a + 1 <= b /\ q[a + 1] \in Messages
         /\ c[a + 1] = Size[q[a + 1]] + 1 /\ c[a + 1] \in Nat
         /\ 2 <= c[a + 1] /\ c[a + 1] <= z /\ st[c[a + 1]] = Zero
         /\ \A k \in 1 .. c[a + 1] - 1 : st[k] = At(q[a + 1], k)
<1>1. PICK i \in a + 1 .. b : z = c[i]
  BY DEF Framed
<1>2. a + 1 \in a + 1 .. b /\ a + 1 <= b /\ a + 1 \in a .. b /\ i \in a .. b
  OBVIOUS
<1>3. q[a + 1] \in Messages /\ c[a + 1] = c[(a + 1) - 1] + Size[q[a + 1]] + 1
  BY <1>2 DEF Framed, Cuts
<1>4. (a + 1) - 1 = a /\ c[a] = 0
  BY DEF Framed, Cuts
<1>5. Size[q[a + 1]] \in Nat /\ Size[q[a + 1]] >= 1
  BY <1>3, SizeIs
<1>6. c[a + 1] = Size[q[a + 1]] + 1 /\ c[a + 1] \in Nat /\ 2 <= c[a + 1]
  BY <1>3, <1>4, <1>5
<1>7. a + 1 = i \/ c[a + 1] < c[i]
  BY <1>2 DEF Framed, Cuts
<1>8. c[a + 1] <= z
  BY <1>1, <1>6, <1>7
<1>9. st[c[a + 1]] = Zero
  BY <1>2 DEF Framed
<1>10. \A k \in 1 .. c[a + 1] - 1 : st[k] = At(q[a + 1], k)
  <2>1. \A k \in c[(a + 1) - 1] + 1 .. c[a + 1] - 1 :
          st[k] = At(q[a + 1], k - c[(a + 1) - 1])
    BY <1>2 DEF Framed
  <2>2. c[(a + 1) - 1] + 1 = 1 /\ \A k \in 1 .. c[a + 1] - 1 : k - c[(a + 1) - 1] = k
    BY <1>4, <1>6
  <2>3. QED
    BY <2>1, <2>2
<1>11. QED
  BY <1>2, <1>3, <1>6, <1>8, <1>9, <1>10

\* The oldest message is cut off.
LEMMA FramedParsed ==
  ASSUME NEW a \in Nat, NEW b \in Nat, NEW l \in Nat, NEW q, NEW c, NEW st, NEW su,
         a + 1 <= b, Framed(c, st, l, q, a, b), NEW f, f = c[a + 1],
         \A k \in 1 .. l - f : su[k] = st[k + f]
  PROVE  FramedUpTo(c[b] - f, su, l - f, q, a + 1, b)
<1> DEFINE d == [i \in Nat |-> IF i \in a + 1 .. b THEN c[i] - f ELSE 0]
           e == c[b]
<1>1. Cuts(c, q, a, b) /\ e \in Nat /\ e <= l
  BY CutsInside DEF Framed
<1>2. /\ \A i \in a .. b : c[i] \in Nat /\ c[i] <= e
      /\ c[a] = 0
  BY <1>1, CutsInside
<1>3. f \in Nat
  <2>1. a + 1 \in a .. b
    OBVIOUS
  <2>2. QED
    BY <1>2, <2>1
<1>4. ASSUME NEW i \in a + 1 .. b
      PROVE  f <= c[i] /\ c[i] \in Nat /\ c[i] <= e
  <2>1. a + 1 \in a .. b /\ i \in a .. b /\ (i = a + 1 \/ a + 1 < i)
    OBVIOUS
  <2>2. i = a + 1 \/ f < c[i]
    BY <1>1, <2>1 DEF Cuts
  <2>3. c[i] \in Nat /\ c[i] <= e
    BY <1>2, <2>1
  <2>4. QED
    BY <1>3, <2>2, <2>3
<1>5. /\ d \in [Nat -> Nat] /\ d[a + 1] = 0
      /\ \A i \in a + 1 .. b : d[i] = c[i] - f
  <2>1. \A i \in a + 1 .. b : c[i] - f \in Nat
    BY <1>3, <1>4
  <2>2. d \in [Nat -> Nat]
    BY <2>1
  <2>3. \A i \in a + 1 .. b : d[i] = c[i] - f
    OBVIOUS
  <2>4. a + 1 \in a + 1 .. b /\ c[a + 1] - f = 0
    BY <1>3
  <2>5. QED
    BY <2>2, <2>3, <2>4
<1> HIDE DEF d
<1>6. \A i \in (a + 1) + 1 .. b : i \in a + 1 .. b /\ i \in a .. b /\ i - 1 \in a + 1 .. b
  OBVIOUS
<1>7. Cuts(d, q, a + 1, b)
  <2>1. ASSUME NEW i \in a + 1 .. b, NEW j \in a + 1 .. b, i < j
        PROVE  d[i] < d[j]
    <3>1. i \in a .. b /\ j \in a .. b
      OBVIOUS
    <3>2. c[i] < c[j]
      BY <1>1, <2>1, <3>1 DEF Cuts
    <3>3. QED
      BY <1>3, <1>4, <1>5, <3>2
  <2>2. ASSUME NEW i \in (a + 1) + 1 .. b
        PROVE  q[i] \in Messages /\ d[i] = d[i - 1] + Size[q[i]] + 1
    <3>1. q[i] \in Messages /\ c[i] = c[i - 1] + Size[q[i]] + 1
      BY <1>1, <1>6 DEF Cuts
    <3>2. d[i] = c[i] - f /\ d[i - 1] = c[i - 1] - f
      BY <1>5, <1>6
    <3>3. c[i - 1] \in Nat /\ Size[q[i]] \in Nat
      BY <1>4, <1>6, <3>1, SizeIs
    <3>4. QED
      BY <1>3, <3>1, <3>2, <3>3
  <2>3. QED
    BY <1>5, <2>1, <2>2 DEF Cuts
<1>8. d[b] = e - f /\ d[b] <= l - f
  <2>1. b \in a + 1 .. b
    OBVIOUS
  <2>2. QED
    BY <1>1, <1>3, <1>5, <2>1
<1>9. ASSUME NEW i \in (a + 1) + 1 .. b
      PROVE  /\ su[d[i]] = Zero
             /\ \A k \in d[i - 1] + 1 .. d[i] - 1 : su[k] = At(q[i], k - d[i - 1])
  <2>1. i \in a + 1 .. b /\ i - 1 \in a + 1 .. b
    BY <1>6
  <2>2. /\ c[i] \in Nat /\ c[i] <= e /\ c[i - 1] \in Nat /\ f <= c[i - 1]
        /\ d[i] = c[i] - f /\ d[i - 1] = c[i - 1] - f
    BY <1>4, <1>5, <2>1
  <2>3. c[i - 1] < c[i]
    <3>1. i \in a .. b /\ i - 1 \in a .. b /\ i - 1 < i
      BY <1>6
    <3>2. QED
      BY <1>1, <3>1 DEF Cuts
  <2> DEFINE x == c[i]
             y == c[i - 1]
  <2>4. st[x] = Zero /\ \A k \in y + 1 .. x - 1 : st[k] = At(q[i], k - y)
    BY <2>1 DEF Framed
  <2>5. x \in Nat /\ y \in Nat /\ f <= y /\ y < x /\ x <= l /\ d[i] = x - f /\ d[i - 1] = y - f
    BY <1>1, <2>2, <2>3
  <2> HIDE DEF x, y, e
  <2>6. x - f \in 1 .. l - f /\ (x - f) + f = x
    BY <1>3, <2>5
  <2>7. su[x - f] = Zero
    BY <2>4, <2>6
  <2>8. ASSUME NEW k \in (y - f) + 1 .. (x - f) - 1
        PROVE  su[k] = At(q[i], k - (y - f))
    <3>1. k \in 1 .. l - f /\ k + f \in y + 1 .. x - 1 /\ (k + f) - y = k - (y - f)
      BY <1>3, <2>5
    <3>2. QED
      BY <2>4, <3>1
  <2>9. QED
    BY <2>5, <2>7, <2>8
<1>10. ASSUME NEW k \in 1 .. l - f, su[k] = Zero
       PROVE  \E i \in (a + 1) + 1 .. b : k = d[i]
  <2>1. k + f \in 1 .. l /\ st[k + f] = Zero /\ k + f # f
    BY <1>3, <1>10
  <2>2. PICK i \in a + 1 .. b : k + f = c[i]
    BY <2>1 DEF Framed
  <2>3. i # a + 1
    BY <2>1, <2>2
  <2>4. i \in (a + 1) + 1 .. b /\ c[i] - f = k
    BY <1>3, <2>2, <2>3
  <2>5. QED
    BY <1>5, <2>2, <2>4
<1>11. Framed(d, su, l - f, q, a + 1, b)
  BY <1>7, <1>8, <1>9, <1>10 DEF Framed
<1>12. QED
  BY <1>8, <1>11 DEF FramedUpTo

-----------------------------------------------------------------------------
(* What is left of the frames when the bytes after the first n are lost: the *)
(* messages that are complete, which are as many as there are zeros.         *)
LEMMA LastAtMost ==
  ASSUME NEW a \in Nat, NEW b \in Nat, NEW I, I \subseteq a .. b, I # {}
  PROVE  \E e \in I : \A i \in I : i <= e
<1> DEFINE D == {k \in Nat : b - k \in I}
<1>1. D # {}
  <2>1. PICK i : i \in I
    OBVIOUS
  <2>2. i \in a .. b
    BY <2>1
  <2>3. b - i \in Nat /\ b - (b - i) = i
    BY <2>2
  <2>4. QED
    BY <2>1, <2>3
<1>2. D \subseteq Nat
  OBVIOUS
<1>3. \A i \in I : i \in Nat /\ b - i \in D
  <2> SUFFICES ASSUME NEW i \in I
               PROVE  i \in Nat /\ b - i \in D
    OBVIOUS
  <2>1. i \in a .. b
    OBVIOUS
  <2>2. b - i \in Nat /\ b - (b - i) = i /\ i \in Nat
    BY <2>1
  <2>3. QED
    BY <2>2
<1>4. \A k \in D : b - k \in I
  OBVIOUS
<1> HIDE DEF D
<1>5. PICK k \in D : \A j \in D : ~ (j < k)
  <2>1. IsWellFoundedOn(OpToRel(<, Nat), Nat)
    BY NatLessThanWellFounded
  <2>2. \E k \in D : \A j \in D : <<j, k>> \notin OpToRel(<, Nat)
    BY <1>1, <1>2, <2>1, WFMin
  <2>3. QED
    BY <1>2, <2>2 DEF OpToRel
<1>6. ASSUME NEW i \in I
      PROVE  i <= b - k
  <2>1. i \in Nat /\ ~ (b - i < k) /\ k \in Nat
    BY <1>2, <1>3, <1>5
  <2>2. QED
    BY <2>1
<1>7. QED
  BY <1>4, <1>5, <1>6

Survive(c, st, n, q, a, b) ==
  \E e \in a .. b : /\ Framed(c, st, n, q, a, e)
                    /\ Cardinality({k \in 1 .. n : st[k] = Zero}) = e - a

LEMMA FramedCut ==
  ASSUME NEW a \in Nat, NEW b \in Nat, NEW l \in Nat, NEW n \in Nat, NEW q, NEW c,
         NEW st, a <= b, n <= l, Framed(c, st, l, q, a, b)
  PROVE  Survive(c, st, n, q, a, b)
<1> DEFINE I == {i \in a .. b : c[i] <= n}
<1>1. Cuts(c, q, a, b) /\ \A i \in a .. b : c[i] \in Nat
  BY CutsInside DEF Framed
<1>2. I \subseteq a .. b /\ I # {}
  <2>1. a \in a .. b /\ c[a] = 0
    BY <1>1 DEF Cuts
  <2>2. QED
    BY <2>1
<1>3. PICK e \in I : \A i \in I : i <= e
  <2> HIDE DEF I
  <2>1. QED
    BY <1>2, LastAtMost
<1>4. e \in a .. b /\ c[e] <= n /\ \A i \in a .. b : c[i] <= n => i <= e
  BY <1>3
<1> HIDE DEF I
<1>5. \A i \in a .. e : i \in a .. b
  BY <1>4
<1>6. \A i \in a + 1 .. e : i \in a + 1 .. b /\ i \in a .. b
  BY <1>4
<1>7. Cuts(c, q, a, e)
  BY <1>1, <1>5, <1>6 DEF Cuts
<1>8. ASSUME NEW k \in 1 .. n, st[k] = Zero
      PROVE  \E i \in a + 1 .. e : k = c[i]
  <2>1. k \in 1 .. l
    OBVIOUS
  <2>2. PICK i \in a + 1 .. b : k = c[i]
    BY <1>8, <2>1 DEF Framed
  <2>3. i \in a .. b /\ c[i] <= n
    BY <2>2
  <2>4. i <= e
    BY <1>4, <2>3
  <2>5. QED
    BY <1>4, <2>2, <2>4
<1>9. Framed(c, st, n, q, a, e)
  BY <1>4, <1>6, <1>7, <1>8 DEF Framed
<1>10. Cardinality({k \in 1 .. n : st[k] = Zero}) = e - a
  <2> DEFINE S == a + 1 .. e
             T == {k \in 1 .. n : st[k] = Zero}
             g == [i \in S |-> c[i]]
  <2>1. IsFiniteSet(S) /\ Cardinality(S) = e - a
    <3>1. a + 1 \in Int /\ e \in Int /\ a <= e
      BY <1>4
    <3>2. /\ IsFiniteSet(S)
          /\ Cardinality(S) = IF a + 1 > e THEN 0 ELSE e - (a + 1) + 1
      <4>1. /\ IsFiniteSet((a + 1) .. e)
            /\ Cardinality((a + 1) .. e) = IF a + 1 > e THEN 0 ELSE e - (a + 1) + 1
        BY <3>1, FS_Interval
      <4>2. QED
        BY <4>1
    <3> HIDE DEF S
    <3>3. QED
      BY <3>1, <3>2
  <2>2. \A i \in S : c[i] \in T
    <3> SUFFICES ASSUME NEW i \in S
                 PROVE  c[i] \in T
      OBVIOUS
    <3>1. i \in a .. e /\ (i = e \/ i < e) /\ e \in a .. e /\ a < i /\ a \in a .. e
      BY <1>4
    <3>2. (i = e \/ c[i] < c[e]) /\ c[a] < c[i] /\ c[a] = 0
      BY <1>7, <3>1 DEF Cuts
    <3>3. c[i] \in Nat /\ c[e] \in Nat
      BY <1>1, <1>5, <3>1
    <3>4. c[i] \in 1 .. n
      BY <1>4, <3>2, <3>3
    <3>5. QED
      BY <1>9, <3>4 DEF Framed
  <2>3. \A i, j \in S : c[i] = c[j] => i = j
    <3> SUFFICES ASSUME NEW i \in S, NEW j \in S, c[i] = c[j]
                 PROVE  i = j
      OBVIOUS
    <3>1. i \in a .. e /\ j \in a .. e /\ (i < j \/ j < i \/ i = j)
      BY <1>4
    <3>2. (i < j => c[i] < c[j]) /\ (j < i => c[j] < c[i]) /\ c[i] \in Nat
      BY <1>1, <1>5, <1>7, <3>1 DEF Cuts
    <3>3. QED
      BY <3>1, <3>2
  <2>4. \A k \in T : \E i \in S : k = c[i]
    BY <1>8
  <2> HIDE DEF S, T
  <2>5. g \in Bijection(S, T)
    <3>1. g \in [S -> T] /\ \A i \in S : g[i] = c[i]
      BY <2>2
    <3> HIDE DEF g
    <3>2. \A i, j \in S : g[i] = g[j] => i = j
      BY <2>3, <3>1
    <3>3. \A k \in T : \E i \in S : g[i] = k
      BY <2>4, <3>1
    <3>4. QED
      BY <3>1, <3>2, <3>3 DEF Bijection, Injection, Surjection, IsInjective
  <2>6. ExistsBijection(S, T)
    BY <2>5 DEF ExistsBijection
  <2>7. Cardinality(T) = Cardinality(S)
    BY <2>1, <2>6, FS_Bijection
  <2>8. QED
    BY <2>1, <2>7 DEF T
<1>11. QED
  BY <1>4, <1>9, <1>10 DEF Survive

-----------------------------------------------------------------------------
(* Bytes on their way.                                                       *)
Byte == (Messages \X Nat) \cup {Zero}

LEMMA Joined ==
  ASSUME NEW S, NEW s \in Seq(S), NEW t \in Seq(S), NEW m, NEW n, m = Len(s), n = Len(t)
  PROVE  /\ s \o t \in Seq(S) /\ Len(s \o t) = m + n /\ m \in Nat /\ n \in Nat
         /\ \A k \in 1 .. m : (s \o t)[k] = s[k]
         /\ \A k \in 1 .. n : (s \o t)[m + k] = t[k]
<1> DEFINE u == s \o t
<1>1. /\ u \in Seq(S) /\ Len(u) = m + n
      /\ \A k \in 1 .. m + n : u[k] = IF k <= m THEN s[k] ELSE t[k - m]
  BY ConcatProperties
<1>2. m \in Nat /\ n \in Nat
  OBVIOUS
<1> HIDE DEF u
<1>3. \A k \in 1 .. m : u[k] = s[k]
  BY <1>1, <1>2
<1>4. ASSUME NEW k \in 1 .. n
      PROVE  u[m + k] = t[k]
  <2>1. m + k \in 1 .. m + n /\ ~ (m + k <= m) /\ (m + k) - m = k
    BY ONLY <1>2, k \in 1 .. n
  <2>2. QED
    BY <1>1, <2>1
<1>5. QED
  BY <1>1, <1>2, <1>3, <1>4 DEF u

LEMMA Part ==
  ASSUME NEW S, NEW s \in Seq(S), NEW l, l = Len(s), NEW m \in Nat, NEW n \in Nat,
         m <= n, n <= l
  PROVE  /\ SubSeq(s, m + 1, n) \in Seq(S) /\ Len(SubSeq(s, m + 1, n)) = n - m
         /\ \A k \in 1 .. n - m : SubSeq(s, m + 1, n)[k] = s[m + k]
<1> DEFINE u == SubSeq(s, m + 1, n)
<1>1. l \in Nat /\ m + 1 \in Int /\ n \in Int
  OBVIOUS
<1>2. \A k \in m + 1 .. n : s[k] \in S
  <2>1. \A k \in m + 1 .. n : k \in 1 .. l
    BY <1>1
  <2>2. QED
    BY <2>1, ElementOfSeq
<1>3. /\ u \in Seq(S) /\ Len(u) = IF m + 1 <= n THEN n - (m + 1) + 1 ELSE 0
      /\ \A k \in 1 .. n - (m + 1) + 1 : u[k] = s[(m + 1) + k - 1]
  BY <1>1, <1>2, SubSeqProperties
<1> HIDE DEF u
<1>4. Len(u) = n - m
  BY <1>3
<1>5. ASSUME NEW k \in 1 .. n - m
      PROVE  u[k] = s[m + k]
  <2>1. k \in 1 .. n - (m + 1) + 1 /\ (m + 1) + k - 1 = m + k
    OBVIOUS
  <2>2. QED
    BY <1>3, <2>1
<1>6. QED
  BY <1>3, <1>4, <1>5 DEF u

LEMMA Begin ==
  ASSUME NEW S, NEW s \in Seq(S), NEW l, l = Len(s), NEW n \in Nat, n <= l
  PROVE  /\ SubSeq(s, 1, n) \in Seq(S) /\ Len(SubSeq(s, 1, n)) = n
         /\ \A k \in 1 .. n : SubSeq(s, 1, n)[k] = s[k]
<1>1. /\ SubSeq(s, 0 + 1, n) \in Seq(S) /\ Len(SubSeq(s, 0 + 1, n)) = n - 0
      /\ \A k \in 1 .. n - 0 : SubSeq(s, 0 + 1, n)[k] = s[0 + k]
  BY Part
<1>2. 0 + 1 = 1 /\ n - 0 = n /\ \A k \in 1 .. n : 0 + k = k
  OBVIOUS
<1>3. QED
  BY <1>1, <1>2

\* A piece of the wire goes to the buffer.
LEMMA WireMoves ==
  ASSUME NEW s \in Seq(Byte), NEW t \in Seq(Byte), NEW n \in Nat, n <= Len(t)
  PROVE  /\ s \o SubSeq(t, 1, n) \in Seq(Byte) /\ SubSeq(t, n + 1, Len(t)) \in Seq(Byte)
         /\ (s \o SubSeq(t, 1, n)) \o SubSeq(t, n + 1, Len(t)) = s \o t
<1> DEFINE l == Len(t)
           u == SubSeq(t, 1, n)
           v == SubSeq(t, n + 1, l)
<1>1. /\ u \in Seq(Byte) /\ Len(u) = n /\ \A k \in 1 .. n : u[k] = t[k]
  BY Begin
<1>2. l \in Nat /\ l <= l /\ n <= l
  OBVIOUS
<1>3. v \in Seq(Byte) /\ Len(v) = l - n /\ \A k \in 1 .. l - n : v[k] = t[n + k]
  BY <1>2, Part
<1>4. u \o v = t
  <2> DEFINE w == u \o v
  <2> HIDE DEF u, v
  <2>1. /\ w \in Seq(Byte) /\ Len(w) = n + (l - n)
        /\ \A k \in 1 .. n : w[k] = u[k]
        /\ \A k \in 1 .. l - n : w[n + k] = v[k]
    <3>1. l - n = Len(v)
      BY <1>3
    <3>2. QED
      BY <1>1, <1>3, <3>1, Joined
  <2> HIDE DEF w, l
  <2>2. Len(w) = l
    BY <1>2, <2>1
  <2>3. ASSUME NEW k \in 1 .. l
        PROVE  w[k] = t[k]
    <3>1. CASE k <= n
      BY <1>1, <2>1, <3>1
    <3>2. CASE ~ (k <= n)
      <4>1. k - n \in 1 .. l - n /\ n + (k - n) = k
        BY <1>2, <3>2
      <4>2. QED
        BY <1>3, <2>1, <4>1
    <3>3. QED
      BY <3>1, <3>2
  <2>4. w = t
    BY <2>1, <2>2, <2>3, SeqEqual DEF l
  <2>5. QED
    BY <2>4 DEF w
<1> HIDE DEF u, v
<1>5. (s \o u) \o v = s \o (u \o v)
  <2>1. u \in Seq(Byte) /\ v \in Seq(Byte)
    BY <1>1, <1>3
  <2>2. QED
    BY ONLY <2>1, s \in Seq(Byte), ConcatAssociative, SMTT(60)
<1>6. s \o u \in Seq(Byte)
  BY <1>1, ConcatProperties
<1>7. QED
  BY <1>3, <1>4, <1>5, <1>6 DEF u, v

\* The beginning of the buffer is cut off.
CutOff(w, v, s, t, u, n) == w = s \o t /\ u = SubSeq(s, n + 1, Len(s)) /\ v = u \o t

Shifted(w, v, n) ==
  Len(v) = Len(w) - n /\ \A k \in 1 .. Len(w) - n : v[k] = w[k + n]

LEMMA BufferCut ==
  ASSUME NEW s \in Seq(Byte), NEW t \in Seq(Byte), NEW n \in Nat, n <= Len(s),
         NEW u, NEW v, NEW w, CutOff(w, v, s, t, u, n)
  PROVE  u \in Seq(Byte) /\ Shifted(w, v, n)
<1> DEFINE a == Len(s)
           b == Len(t)
           l == Len(w)
<1>0. w = s \o t /\ u = SubSeq(s, n + 1, Len(s)) /\ v = u \o t
  BY DEF CutOff
<1> USE <1>0
<1>1. a \in Nat /\ b \in Nat /\ n <= a /\ a <= a
  OBVIOUS
<1>2. u \in Seq(Byte) /\ Len(u) = a - n /\ \A k \in 1 .. a - n : u[k] = s[n + k]
  BY <1>1, Part, SMTT(20)
<1>3. /\ l = a + b
      /\ \A k \in 1 .. a : w[k] = s[k]
      /\ \A k \in 1 .. b : w[a + k] = t[k]
  BY Joined
<1>4. /\ Len(v) = (a - n) + b
      /\ \A k \in 1 .. a - n : v[k] = u[k]
      /\ \A k \in 1 .. b : v[(a - n) + k] = t[k]
  <2>1. a - n = Len(u) /\ u \in Seq(Byte) /\ b = Len(t)
    BY <1>2
  <2> HIDE DEF a, b
  <2>2. \A m, k : m = Len(u) /\ k = Len(t) =>
          /\ Len(u \o t) = m + k
          /\ \A i \in 1 .. m : (u \o t)[i] = u[i]
          /\ \A i \in 1 .. k : (u \o t)[m + i] = t[i]
    BY ONLY <2>1, t \in Seq(Byte), Joined
  <2>3. QED
    BY <2>1, <2>2
<1> HIDE DEF a, b, l
<1>5. Len(v) = l - n
  BY <1>1, <1>3, <1>4
<1>6. ASSUME NEW k \in 1 .. l - n
      PROVE  v[k] = w[k + n]
  <2>1. CASE k <= a - n
    <3>1. k \in 1 .. a - n /\ n + k = k + n /\ k + n \in 1 .. a
      <4>1. a \in Nat /\ n \in Nat /\ k \in 1 .. (a + b) - n /\ b \in Nat /\ k <= a - n
        BY <1>1, <1>3, <1>6, <2>1
      <4>2. QED
        BY ONLY <4>1
    <3>2. QED
      BY ONLY <1>2, <1>3, <1>4, <3>1
  <2>2. CASE ~ (k <= a - n)
    <3> DEFINE j == k - (a - n)
    <3>1. j \in 1 .. b /\ (a - n) + j = k /\ a + j = k + n
      <4>1. /\ a \in Nat /\ b \in Nat /\ n \in Nat /\ n <= a
            /\ k \in 1 .. (a + b) - n /\ ~ (k <= a - n)
        BY <1>1, <1>3, <1>6, <2>2
      <4>2. QED
        BY ONLY <4>1
    <3> HIDE DEF j
    <3>2. v[(a - n) + j] = t[j] /\ w[a + j] = t[j]
      BY <1>3, <1>4, <3>1
    <3>3. QED
      BY <3>1, <3>2
  <2>3. QED
    BY <2>1, <2>2
<1>7. QED
  BY <1>2, <1>5, <1>6 DEF l, Shifted

-----------------------------------------------------------------------------
(***************************************************************************)
(* The invariant.  Up to l the bytes not parsed yet are framed, and what   *)
(* follows the last frame is the beginning of a message of which a sender  *)
(* has the rest.  l is the end, until a thread writes into that message:   *)
(* from then on l is where, and the first byte of another message follows, *)
(* which no text of a message has there.                                   *)
(***************************************************************************)
Stream == recv_buffer \o wire

StreamTypes ==
  /\ torn \in BOOLEAN
  /\ data \in [Senders -> Seq(Byte)] /\ writing \in [Senders -> Seq(Messages)]
  /\ wire \in Seq(Byte) /\ recv_buffer \in Seq(Byte)
  /\ begun \in Seq(Messages) /\ sent \in Seq(Messages) /\ received \in Seq(Messages)
  /\ Len(received) <= Len(sent)

Begun(m) == \E i \in DOMAIN begun : begun[i] = m

\* d is the end of m.
RestOf(d, m) ==
  /\ Len(d) <= Size[m] + 1
  /\ \A j \in 1 .. Len(d) : d[j] = Bytes(m)[((Size[m] + 1) - Len(d)) + j]

\* What is written, or was written and counts, is a message that was sent.
SendsBegan ==
  /\ \A s \in Senders : data[s] # <<>> =>
       \E m \in Messages : writing[s] = <<m>> /\ Begun(m) /\ RestOf(data[s], m)
  /\ reader = "waiting" => \A i \in DOMAIN sent : Begun(sent[i])

\* A part of the sender's message is taken.
Parted(da, wr, s) == da[s] # <<>> /\ Len(da[s]) # Size[wr[s][1]] + 1

\* The frames end at n, and the stream st goes on to l with the beginning of the
\* one message of which a part is taken.
Unfinished(n, st, l, da, wr) ==
  /\ (\A s \in Senders : ~ Parted(da, wr, s)) => n = l
  /\ \A s, t \in Senders : Parted(da, wr, s) /\ Parted(da, wr, t) => s = t
  /\ \A s \in Senders : Parted(da, wr, s) =>
       /\ (l - n) + Len(da[s]) = Size[wr[s][1]] + 1
       /\ \A k \in n + 1 .. l : st[k] = At(wr[s][1], k - n)

\* Into the message that begins after n another is written at l.
Broken(n, st, l) == n < l /\ \E m \in Messages : st[l + 1] = At(m, 1)

FramesTo(l, c, st, L, q, a, b, tn) ==
  /\ l \in Nat /\ l <= L /\ Framed(c, st, l, q, a, b)
  /\ l < L => tn /\ Broken(c[b], st, l)

GoesOn(n, st, l, L, da, wr, tn) == IF tn THEN l < L ELSE Unfinished(n, st, l, da, wr)

Framing ==
  reader = "waiting" => \E c, l :
    /\ FramesTo(l, c, Stream, Len(Stream), sent, Len(received), Len(sent), torn)
    /\ connection = "open" =>
         GoesOn(c[Len(sent)], Stream, l, Len(Stream), data, writing, torn)

FramingInv == StreamTypes /\ SendsBegan /\ Framing

LEMMA StreamFacts ==
  ASSUME StreamTypes
  PROVE  /\ Stream \in Seq(Byte) /\ Len(Stream) \in Nat
         /\ Len(Stream) = Len(recv_buffer) + Len(wire)
         /\ Len(sent) \in Nat /\ Len(received) \in Nat /\ Len(recv_buffer) \in Nat
         /\ Len(recv_buffer) <= Len(Stream)
         /\ \A k \in 1 .. Len(recv_buffer) : recv_buffer[k] = Stream[k]
<1>1. recv_buffer \in Seq(Byte) /\ wire \in Seq(Byte)
  BY DEF StreamTypes
<1>2. /\ Stream \in Seq(Byte) /\ Len(Stream) = Len(recv_buffer) + Len(wire)
      /\ \A k \in 1 .. Len(recv_buffer) : recv_buffer[k] = Stream[k]
  BY <1>1, Joined DEF Stream
<1>3. Len(recv_buffer) \in Nat /\ Len(wire) \in Nat
  BY <1>1
<1>4. Len(sent) \in Nat /\ Len(received) \in Nat
  BY DEF StreamTypes
<1>5. Len(Stream) \in Nat /\ Len(recv_buffer) <= Len(Stream)
  BY <1>2, <1>3
<1>6. QED
  BY <1>2, <1>3, <1>4, <1>5

LEMMA FunctionIsSeq ==
  ASSUME NEW S, NEW n \in Nat, NEW f \in [1 .. n -> S]
  PROVE  f \in Seq(S) /\ Len(f) = n
BY SeqDef

LEMMA BytesAre ==
  ASSUME NEW m \in Messages
  PROVE  /\ Bytes(m) \in Seq(Byte) /\ Len(Bytes(m)) = Size[m] + 1 /\ Bytes(m) # <<>>
         /\ \A i \in 1 .. Size[m] : Bytes(m)[i] = At(m, i)
         /\ Bytes(m)[Size[m] + 1] = Zero
         /\ RestOf(Bytes(m), m)
<1> DEFINE n == Size[m] + 1
           d == Bytes(m)
<1>1. Size[m] \in Nat /\ n \in Nat /\ 0 < n
  BY SizeIs
<1>2. d = [i \in 1 .. n |-> IF i <= Size[m] THEN At(m, i) ELSE Zero]
  BY DEF Bytes, At
<1>3. d \in Seq(Byte) /\ Len(d) = n
  <2>1. d \in [1 .. n -> Byte]
    <3>1. \A i \in 1 .. n : At(m, i) \in Byte
      BY <1>1 DEF Byte, At
    <3>2. Zero \in Byte
      BY DEF Byte
    <3>3. QED
      BY <1>2, <3>1, <3>2
  <2> HIDE DEF d, n
  <2>2. QED
    BY <1>1, <2>1, FunctionIsSeq
<1>4. RestOf(d, m)
  <2>1. Len(d) = Size[m] + 1
    BY <1>3
  <2>2. (Size[m] + 1) - Len(d) = 0
    BY <1>1, <2>1
  <2>3. \A j \in 1 .. Len(d) : 0 + j = j
    OBVIOUS
  <2> HIDE DEF d, n
  <2>4. QED
    BY <1>1, <2>1, <2>2, <2>3 DEF RestOf, d
<1>5. QED
  BY <1>1, <1>2, <1>3, <1>4

\* The bytes of the rest of a message.
LEMMA RestIs ==
  ASSUME NEW m \in Messages, NEW d, RestOf(d, m), NEW L \in Nat, L = Len(d),
         NEW w \in Nat, w + L = Size[m] + 1
  PROVE  \A k \in 1 .. L : d[k] = IF k = L THEN Zero ELSE At(m, w + k)
<1>1. Size[m] \in Nat
  BY SizeIs
<1>2. (Size[m] + 1) - L = w
  BY <1>1
<1>3. ASSUME NEW k \in 1 .. L
      PROVE  d[k] = IF k = L THEN Zero ELSE At(m, w + k)
  <2>1. d[k] = Bytes(m)[w + k]
    BY <1>2 DEF RestOf
  <2>2. CASE k = L
    <3>1. w + k = Size[m] + 1
      BY <2>2
    <3>2. Bytes(m)[w + k] = Zero
      BY <3>1, BytesAre
    <3>3. QED
      BY <2>1, <2>2, <3>2
  <2>3. CASE k # L
    <3>1. w + k \in 1 .. Size[m]
      BY <1>1, <2>3
    <3>2. QED
      BY <2>1, <2>3, <3>1, BytesAre
  <2>4. QED
    BY <2>2, <2>3
<1>4. QED
  BY <1>3

\* A message of which a part is taken is shorter than its bytes.
LEMMA PartlyIs ==
  ASSUME StreamTypes, SendsBegan, NEW s \in Senders
  PROVE  /\ Partly(s) => Parted(data, writing, s)
         /\ data[s] # <<>> =>
              \E m \in Messages : /\ writing[s] = <<m>> /\ writing[s][1] = m /\ Begun(m)
                                  /\ RestOf(data[s], m)
<1>1. ASSUME data[s] # <<>>
      PROVE  \E m \in Messages : /\ writing[s] = <<m>> /\ writing[s][1] = m /\ Begun(m)
                                 /\ RestOf(data[s], m)
  <2>1. PICK m \in Messages : writing[s] = <<m>> /\ Begun(m) /\ RestOf(data[s], m)
    BY <1>1 DEF SendsBegan
  <2>2. QED
    BY <2>1
<1>2. ASSUME Partly(s)
      PROVE  Parted(data, writing, s)
  <2>1. data[s] # <<>> /\ data[s] # Bytes(Head(writing[s]))
    BY <1>2 DEF Partly
  <2>2. PICK m \in Messages : /\ writing[s] = <<m>> /\ writing[s][1] = m
                              /\ RestOf(data[s], m)
    BY <1>1, <2>1
  <2>3. Head(writing[s]) = m /\ data[s] \in Seq(Byte)
    BY <2>2 DEF StreamTypes
  <2>4. ASSUME Len(data[s]) = Size[m] + 1
        PROVE  FALSE
    <3> DEFINE L == Len(data[s])
    <3>1. L \in Nat /\ Size[m] \in Nat /\ (Size[m] + 1) - L = 0
      BY <2>3, <2>4, SizeIs
    <3>2. \A j \in 1 .. L : data[s][j] = Bytes(m)[0 + j]
      BY <2>2, <3>1 DEF RestOf
    <3>3. \A j \in 1 .. L : 0 + j = j
      OBVIOUS
    <3>4. Bytes(m) \in Seq(Byte) /\ Len(Bytes(m)) = L
      BY <2>4, BytesAre
    <3> HIDE DEF L
    <3>5. \A j \in 1 .. L : data[s][j] = Bytes(m)[j]
      BY <3>2, <3>3
    <3>6. data[s] = Bytes(m)
      BY <2>3, <3>4, <3>5, SeqEqual DEF L
    <3>7. QED
      BY <2>1, <2>3, <3>6
  <2>5. QED
    BY <2>1, <2>2, <2>4 DEF Parted
<1>3. QED
  BY <1>1, <1>2

LEMMA PartedIs ==
  ASSUME StreamTypes, SendsBegan, NEW s \in Senders, Parted(data, writing, s)
  PROVE  Partly(s)
<1>1. data[s] # <<>> /\ Len(data[s]) # Size[writing[s][1]] + 1
  BY DEF Parted
<1>2. PICK m \in Messages : writing[s] = <<m>> /\ writing[s][1] = m
  BY <1>1, PartlyIs
<1>3. Head(writing[s]) = m
  BY <1>2
<1>4. QED
  BY <1>1, <1>2, <1>3, BytesAre DEF Partly

-----------------------------------------------------------------------------
(* Each step keeps the invariant.                                            *)
LEMMA FramingInit == StreamInit => FramingInv
<1> SUFFICES ASSUME StreamInit PROVE FramingInv
  OBVIOUS
<1>1. /\ data = [s \in Senders |-> <<>>] /\ writing = [s \in Senders |-> <<>>]
      /\ wire = <<>> /\ recv_buffer = <<>> /\ torn = FALSE
      /\ begun = <<>> /\ sent = <<>> /\ received = <<>>
  BY DEF StreamInit
<1>2. StreamTypes
  <2>1. torn \in BOOLEAN
    BY <1>1
  <2>2. QED
    BY <1>1, <2>1, EmptySeq DEF StreamTypes
<1>3. SendsBegan
  BY <1>1 DEF SendsBegan
<1>4. Stream = <<>> /\ Len(Stream) = 0 /\ Len(sent) = 0 /\ Len(received) = 0
  BY <1>1 DEF Stream
<1>5. Framing
  <2> DEFINE c == [i \in Nat |-> 0]
  <2>1. Framed(c, Stream, 0, sent, 0, 0)
    BY DEF Framed, Cuts
  <2>2. FramesTo(0, c, Stream, 0, sent, 0, 0, torn)
    BY <2>1 DEF FramesTo
  <2>3. GoesOn(c[0], Stream, 0, 0, data, writing, torn)
    BY <1>1 DEF GoesOn, Unfinished, Parted
  <2> HIDE DEF c
  <2>4. QED
    BY <1>4, <2>2, <2>3 DEF Framing
<1>6. QED
  BY <1>2, <1>3, <1>5 DEF FramingInv

LEMMA BegunGrows ==
  ASSUME begun \in Seq(Messages), NEW m \in Messages, begun' = Append(begun, m)
  PROVE  begun' \in Seq(Messages) /\ Begun(m)' /\ \A x : Begun(x) => Begun(x)'
<1> DEFINE n == Len(begun)
<1>1. n \in Nat /\ DOMAIN begun = 1 .. n
  OBVIOUS
<1>2. /\ begun' \in Seq(Messages) /\ Len(begun') = n + 1
      /\ \A i \in 1 .. n : begun'[i] = begun[i]
      /\ begun'[n + 1] = m
  BY AppendProperties
<1> HIDE DEF n
<1>3. DOMAIN begun' = 1 .. n + 1
  BY <1>2, LenProperties
<1>4. n + 1 \in 1 .. n + 1 /\ \A i \in 1 .. n : i \in 1 .. n + 1
  BY <1>1
<1>5. QED
  BY <1>1, <1>2, <1>3, <1>4 DEF Begun

LEMMA SendKeeps ==
  ASSUME FramingInv, NEW s \in Senders, NEW m \in Messages, Send(s, m)
  PROVE  FramingInv'
<1>1. /\ data[s] = <<>>
      /\ data' = [data EXCEPT ![s] = Bytes(m)]
      /\ writing' = [writing EXCEPT ![s] = <<m>>]
      /\ begun' = Append(begun, m)
      /\ UNCHANGED <<wire, connection, recv_buffer, reader, torn, sent, received>>
  BY DEF Send
<1>2. StreamTypes /\ SendsBegan /\ Framing
  BY DEF FramingInv
<1>3. /\ Bytes(m) \in Seq(Byte) /\ Len(Bytes(m)) = Size[m] + 1 /\ Bytes(m) # <<>>
      /\ RestOf(Bytes(m), m)
  BY BytesAre
<1>4. begun' \in Seq(Messages) /\ Begun(m)' /\ \A x : Begun(x) => Begun(x)'
  BY <1>1, <1>2, BegunGrows DEF StreamTypes
<1>5. /\ data'[s] = Bytes(m) /\ writing'[s] = <<m>> /\ writing'[s][1] = m
      /\ \A t \in Senders : t # s => data'[t] = data[t] /\ writing'[t] = writing[t]
  BY <1>1, <1>2 DEF StreamTypes
<1>6. StreamTypes'
  BY <1>1, <1>2, <1>3, <1>4 DEF StreamTypes
<1>7. SendsBegan'
  BY <1>1, <1>2, <1>3, <1>4, <1>5 DEF SendsBegan
<1>8. \A t \in Senders : Parted(data', writing', t) <=> Parted(data, writing, t)
  BY <1>1, <1>3, <1>5 DEF Parted
<1>9. ASSUME NEW n, NEW l, NEW st, Unfinished(n, st, l, data, writing)
      PROVE  Unfinished(n, st, l, data', writing')
  <2>1. ASSUME NEW t \in Senders, Parted(data', writing', t)
        PROVE  Parted(data, writing, t) /\ data'[t] = data[t] /\ writing'[t] = writing[t]
    BY <1>1, <1>5, <1>8, <2>1 DEF Parted
  <2>2. QED
    BY <1>8, <1>9, <2>1 DEF Unfinished
<1>10. Framing'
  <2>1. Stream' = Stream
    BY <1>1 DEF Stream
  <2>2. ASSUME NEW n, NEW l, NEW st, NEW L, GoesOn(n, st, l, L, data, writing, torn)
        PROVE  GoesOn(n, st, l, L, data', writing', torn)
    BY <1>9, <2>2 DEF GoesOn
  <2>3. SUFFICES ASSUME reader' = "waiting"
                 PROVE  \E c, l :
                   /\ FramesTo(l, c, Stream, Len(Stream), sent, Len(received), Len(sent), torn)
                   /\ connection = "open" =>
                        GoesOn(c[Len(sent)], Stream, l, Len(Stream), data', writing', torn)
    BY <1>1, <2>1 DEF Framing
  <2>4. PICK c, l :
          /\ FramesTo(l, c, Stream, Len(Stream), sent, Len(received), Len(sent), torn)
          /\ connection = "open" =>
               GoesOn(c[Len(sent)], Stream, l, Len(Stream), data, writing, torn)
    BY <1>1, <1>2, <2>3 DEF Framing
  <2>5. QED
    BY <2>2, <2>4
<1>11. QED
  BY <1>6, <1>7, <1>10 DEF FramingInv

\* su goes on where st, of length l, ends, with the first n bytes of d.
Takes(su, st, l, n, d) ==
  /\ \A k \in 1 .. l : su[k] = st[k]
  /\ \A k \in 1 .. n : su[l + k] = d[k]

\* f is da without the first n bytes of s.
Leaves(f, da, s, n) ==
  /\ Len(f[s]) = Len(da[s]) - n
  /\ \A k \in 1 .. Len(da[s]) - n : f[s][k] = da[s][n + k]
  /\ \A t \in Senders : t # s => f[t] = da[t]

\* p is q and, after its first b messages, m.
Longer(p, q, b, m) == p[b + 1] = m /\ \A i \in 1 .. b : p[i] = q[i]

Halfway(st, l, q, a, b, da) ==
  \E c : Framed(c, st, l, q, a, b) /\ Unfinished(c[b], st, l, da, writing)

\* What one call of ::send does to the bytes: the message m, of which d is
\* still to be written, and n bytes of it are taken.
Taken(s, n) ==
  /\ data[s] # <<>> /\ n \in 1 .. Len(data[s])
  /\ wire' = wire \o SubSeq(data[s], 1, n) /\ recv_buffer' = recv_buffer
  /\ data' = [data EXCEPT ![s] = SubSeq(@, n + 1, Len(@))]

LEMMA BytesTaken ==
  ASSUME StreamTypes, NEW s \in Senders, NEW n, Taken(s, n)
  PROVE  /\ Len(data[s]) \in Nat /\ Len(Stream) \in Nat
         /\ wire' \in Seq(Byte) /\ data' \in [Senders -> Seq(Byte)]
         /\ Len(Stream') = Len(Stream) + n
         /\ Takes(Stream', Stream, Len(Stream), n, data[s])
         /\ Leaves(data', data, s, n)
<1> DEFINE L == Len(data[s])
           l == Len(Stream)
           d == data[s]
           u == SubSeq(d, 1, n)
           v == SubSeq(d, n + 1, L)
<1>0. /\ data[s] # <<>> /\ n \in 1 .. L
      /\ wire' = wire \o SubSeq(data[s], 1, n) /\ recv_buffer' = recv_buffer
      /\ data' = [data EXCEPT ![s] = SubSeq(@, n + 1, Len(@))]
  BY DEF Taken
<1> USE <1>0
<1>1. d \in Seq(Byte) /\ wire \in Seq(Byte) /\ recv_buffer \in Seq(Byte)
  BY DEF StreamTypes
<1>2. L \in Nat /\ n \in Nat /\ n <= L /\ L <= L
  BY <1>1
<1>3. u \in Seq(Byte) /\ Len(u) = n /\ \A k \in 1 .. n : u[k] = d[k]
  BY <1>1, <1>2, Begin, SMTT(30)
<1>4. v \in Seq(Byte) /\ Len(v) = L - n /\ \A k \in 1 .. L - n : v[k] = d[n + k]
  BY <1>1, <1>2, Part, SMTT(30)
<1>5. /\ data'[s] = v /\ data' \in [Senders -> Seq(Byte)]
      /\ \A t \in Senders : t # s => data'[t] = data[t]
  BY <1>4 DEF StreamTypes
<1>6. Stream' = recv_buffer \o (wire \o u) /\ Stream = recv_buffer \o wire
  BY DEF Stream
<1>7. wire' = wire \o u
  OBVIOUS
<1> HIDE DEF u, v, d
<1>8. /\ Len(Stream \o u) = l + n /\ l \in Nat
      /\ \A k \in 1 .. l : (Stream \o u)[k] = Stream[k]
      /\ \A k \in 1 .. n : (Stream \o u)[l + k] = u[k]
  <2>1. Stream \in Seq(Byte)
    BY StreamFacts
  <2>2. n = Len(u) /\ l = Len(Stream) /\ u \in Seq(Byte)
    BY <1>3
  <2>3. QED
    BY ONLY <2>1, <2>2, Joined
<1>9. recv_buffer \o (wire \o u) = (recv_buffer \o wire) \o u
  BY ONLY <1>1, <1>3, ConcatAssociative, SMTT(60)
<1>10. Stream' = Stream \o u
  BY <1>6, <1>9
<1>11. wire \o u \in Seq(Byte)
  BY <1>1, <1>3, ConcatProperties
<1>12. Takes(Stream', Stream, l, n, d)
  BY <1>3, <1>8, <1>10 DEF Takes
<1>13. Leaves(data', data, s, n)
  BY <1>4, <1>5 DEF Leaves, d
<1>14. QED
  BY <1>2, <1>5, <1>7, <1>8, <1>11, <1>10, <1>12, <1>13 DEF d

\* What the sender has still to write is all of its message but what is taken.
WritesOn(e, st, l, s, m) ==
  /\ writing[s] = <<m>> /\ RestOf(data[s], m)
  /\ (l - e) + Len(data[s]) = Size[m] + 1
  /\ \A k \in e + 1 .. l : st[k] = At(m, k - e)
  /\ \A t \in Senders : t # s => ~ Parted(data, writing, t)

\* n of the L bytes left of message m, which begins after e, are behind l.
Behind(su, e, l, L, n, m) ==
  /\ Size[m] \in Nat /\ (l - e) + L = Size[m] + 1
  /\ \A k \in e + 1 .. l + n : k # l + L => su[k] = At(m, k - e) /\ su[k] # Zero
  /\ n = L => su[l + L] = Zero

\* The stream goes on with those bytes.
LEMMA BytesGoOn ==
  ASSUME NEW s \in Senders, NEW m \in Messages, NEW e \in Nat, NEW l \in Nat, e <= l,
         NEW st, NEW su, WritesOn(e, st, l, s, m), NEW L \in Nat, L = Len(data[s]),
         NEW n \in 1 .. L, Takes(su, st, l, n, data[s])
  PROVE  Behind(su, e, l, L, n, m)
<1> DEFINE d == data[s]
<1>1. /\ \A k \in 1 .. l : su[k] = st[k]
      /\ \A k \in 1 .. n : su[l + k] = d[k]
  BY DEF Takes
<1>2. /\ RestOf(d, m) /\ (l - e) + L = Size[m] + 1 /\ Size[m] \in Nat
      /\ \A k \in e + 1 .. l : st[k] = At(m, k - e)
  BY SizeIs DEF WritesOn
<1> DEFINE w == l - e
<1>3. w \in Nat /\ w + L = Size[m] + 1 /\ L = Len(d) /\ RestOf(d, m)
  BY <1>2
<1> HIDE DEF d, w
<1>4. \A k \in 1 .. L : d[k] = IF k = L THEN Zero ELSE At(m, w + k)
  BY ONLY <1>3, RestIs, m \in Messages, L \in Nat
<1>5. ASSUME NEW k \in e + 1 .. l + n, k # l + L
      PROVE  su[k] = At(m, k - e) /\ su[k] # Zero
  <2>1. su[k] = At(m, k - e)
    <3>1. CASE k <= l
      <4>1. k \in 1 .. l /\ k \in e + 1 .. l
        BY <3>1
      <4>2. QED
        BY <1>1, <1>2, <4>1
    <3>2. CASE ~ (k <= l)
      <4>1. /\ k - l \in 1 .. n /\ k - l \in 1 .. L /\ l + (k - l) = k /\ k - l # L
            /\ (l - e) + (k - l) = k - e
        BY <1>5, <3>2
      <4>2. QED
        BY <1>1, <1>4, <4>1 DEF w
    <3>3. QED
      BY <3>1, <3>2
  <2>2. k - e \in Nat
    OBVIOUS
  <2>3. QED
    BY <2>1, <2>2, SizeIs
<1>6. n = L => su[l + L] = Zero
  <2>1. n = L => L \in 1 .. L /\ L \in 1 .. n
    OBVIOUS
  <2>2. QED
    BY <1>1, <1>4, <2>1
<1>7. QED
  BY <1>2, <1>5, <1>6 DEF Behind

\* Part of the message is taken.
LEMMA PartTaken ==
  ASSUME NEW a \in Nat, NEW b \in Nat, a <= b, NEW c, NEW q, NEW st, NEW su,
         NEW s \in Senders, NEW m \in Messages,
         NEW l \in Nat, NEW L \in Nat, L = Len(data[s]), NEW n \in 1 .. L, n # L,
         Framed(c, st, l, q, a, b), WritesOn(c[b], st, l, s, m), NEW f,
         Takes(su, st, l, n, data[s]), Leaves(f, data, s, n)
  PROVE  Halfway(su, l + n, q, a, b, f)
<1> DEFINE e == c[b]
<1>1. e \in Nat /\ e <= l /\ WritesOn(e, st, l, s, m)
  BY CutsInside DEF Framed
<1>2. /\ Size[m] \in Nat /\ (l - e) + L = Size[m] + 1
      /\ \A k \in e + 1 .. l + n : k # l + L => su[k] = At(m, k - e) /\ su[k] # Zero
  <2> HIDE DEF e
  <2>1. Behind(su, e, l, L, n, m)
    BY <1>1, BytesGoOn
  <2>2. QED
    BY <2>1 DEF Behind
<1>3. /\ writing[s][1] = m
      /\ \A t \in Senders : t # s => ~ Parted(data, writing, t)
  BY DEF WritesOn
<1>4. /\ Len(f[s]) = L - n
      /\ \A t \in Senders : t # s => f[t] = data[t]
  BY DEF Leaves
<1> HIDE DEF e
<1>5. \A k \in e + 1 .. l + n : su[k] = At(m, k - e) /\ su[k] # Zero
  BY <1>2
<1>6. Framed(c, su, l + n, q, a, b)
  <2> DEFINE z == l + n
  <2>1. z \in Nat /\ l <= z
    OBVIOUS
  <2>2. \A k \in l + 1 .. z : su[k] # Zero
    BY <1>1, <1>5
  <2>3. \A k \in 1 .. l : su[k] = st[k]
    BY DEF Takes
  <2> HIDE DEF z
  <2>4. Framed(c, su, z, q, a, b)
    BY ONLY <2>1, <2>2, <2>3, FramedGrows, a \in Nat, b \in Nat, l \in Nat, a <= b,
            Framed(c, st, l, q, a, b)
  <2>5. QED
    BY <2>4 DEF z
<1>7. Parted(f, writing, s) /\ Len(f[s]) = L - n
  <2>1. Len(f[s]) # 0 /\ Len(f[s]) # Size[m] + 1
    BY <1>1, <1>2, <1>4
  <2>2. QED
    BY <1>3, <1>4, <2>1 DEF Parted
<1>8. \A t \in Senders : Parted(f, writing, t) => t = s
  BY <1>3, <1>4 DEF Parted
<1>9. ((l + n) - e) + (L - n) = Size[m] + 1
  <2>1. n \in Nat /\ (l - e) + L = Size[m] + 1 /\ Size[m] \in Nat
    BY <1>2
  <2>2. QED
    BY ONLY <1>1, <2>1, l \in Nat, L \in Nat
<1>10. Unfinished(e, su, l + n, f, writing)
  BY <1>3, <1>5, <1>7, <1>8, <1>9 DEF Unfinished
<1>11. QED
  BY <1>6, <1>10 DEF e, Halfway

\* The rest of the message is taken: it is sent.
LEMMA AllTaken ==
  ASSUME NEW a \in Nat, NEW b \in Nat, a <= b, NEW c, NEW q, NEW p, NEW st, NEW su,
         NEW s \in Senders, NEW m \in Messages,
         NEW l \in Nat, NEW L \in Nat, L = Len(data[s]), 1 <= L,
         Framed(c, st, l, q, a, b), WritesOn(c[b], st, l, s, m), NEW f, f[s] = <<>>,
         Takes(su, st, l, L, data[s]), Leaves(f, data, s, L), Longer(p, q, b, m)
  PROVE  Halfway(su, l + L, p, a, b + 1, f)
<1> DEFINE e == c[b]
<1>1. e \in Nat /\ e <= l /\ WritesOn(e, st, l, s, m)
  BY CutsInside DEF Framed
<1>2. L \in 1 .. L
  OBVIOUS
<1>3. /\ Size[m] \in Nat /\ (l - e) + L = Size[m] + 1
      /\ \A k \in e + 1 .. l + L : k # l + L => su[k] = At(m, k - e)
      /\ su[l + L] = Zero
  <2> HIDE DEF e
  <2>1. Behind(su, e, l, L, L, m)
    BY <1>1, <1>2, BytesGoOn
  <2>2. QED
    BY <2>1 DEF Behind
<1>4. /\ \A k \in 1 .. l : su[k] = st[k]
      /\ \A i \in a + 1 .. b : p[i] = q[i]
      /\ p[b + 1] = m
  <2>1. \A i \in a + 1 .. b : i \in 1 .. b
    OBVIOUS
  <2>2. QED
    BY <2>1 DEF Takes, Longer
<1> HIDE DEF e
<1> DEFINE n == l + L
<1>5. n \in Nat /\ n = e + Size[m] + 1
  BY ONLY <1>1, <1>3, l \in Nat, L \in Nat
<1>6. \A k \in 1 .. e : su[k] = st[k]
  <2>1. \A k \in 1 .. e : k \in 1 .. l
    BY <1>1
  <2>2. QED
    BY <1>4, <2>1
<1>7. \A k \in e + 1 .. n - 1 : su[k] = At(m, k - e)
  <2>1. \A k \in e + 1 .. n - 1 : k \in e + 1 .. l + L /\ k # l + L
    BY <1>1
  <2>2. QED
    BY <1>3, <2>1
<1>8. PICK g : Framed(g, su, n, p, a, b + 1) /\ g[b + 1] = n
  <2>1. /\ \A k \in 1 .. c[b] : su[k] = st[k]
        /\ \A k \in c[b] + 1 .. n - 1 : su[k] = At(m, k - c[b])
        /\ su[n] = Zero /\ n \in Nat /\ n = c[b] + Size[m] + 1
    BY <1>3, <1>5, <1>6, <1>7 DEF e
  <2> HIDE DEF n
  <2>2. FramedUpTo(n, su, n, p, a, b + 1)
    BY <1>4, <2>1, FramedSent
  <2>3. QED
    BY <2>2 DEF FramedUpTo
<1>9. \A t \in Senders : ~ Parted(f, writing, t)
  <2>1. \A t \in Senders : t # s => f[t] = data[t] /\ ~ Parted(data, writing, t)
    BY DEF Leaves, WritesOn
  <2>2. QED
    BY <2>1 DEF Parted
<1>10. Unfinished(n, su, n, f, writing)
  BY <1>9 DEF Unfinished
<1>11. QED
  BY <1>8, <1>10 DEF Halfway

\* Who writes into no other's message goes on with the one begun, or begins one.
LEMMA WriterGoesOn ==
  ASSUME StreamTypes, SendsBegan, NEW s \in Senders, data[s] # <<>>,
         NEW m \in Messages, writing[s] = <<m>>, RestOf(data[s], m),
         \A t \in Senders \ {s} : ~ Partly(t),
         NEW e \in Nat, NEW l \in Nat, e <= l, NEW st, Unfinished(e, st, l, data, writing)
  PROVE  WritesOn(e, st, l, s, m)
<1>1. \A t \in Senders : t # s => ~ Parted(data, writing, t)
  BY PartedIs
<1>2. writing[s][1] = m /\ Size[m] \in Nat
  BY SizeIs
<1>3. CASE Parted(data, writing, s)
  BY <1>1, <1>2, <1>3 DEF Unfinished, WritesOn
<1>4. CASE ~ Parted(data, writing, s)
  <2>1. e = l
    BY <1>1, <1>4 DEF Unfinished
  <2>2. Len(data[s]) = Size[m] + 1
    BY <1>2, <1>4 DEF Parted
  <2>3. (l - e) + Len(data[s]) = Size[m] + 1 /\ \A k \in e + 1 .. l : FALSE
    BY <1>2, <2>1, <2>2
  <2>4. QED
    BY <1>1, <2>3 DEF WritesOn
<1>5. QED
  BY <1>3, <1>4

\* Who writes into another's message begins its own there.
LEMMA WriterBreaks ==
  ASSUME StreamTypes, SendsBegan, NEW s \in Senders, data[s] # <<>>,
         NEW m \in Messages, writing[s] = <<m>>, RestOf(data[s], m),
         NEW t \in Senders \ {s}, Partly(t),
         NEW e \in Nat, NEW l \in Nat, e <= l, NEW st, Unfinished(e, st, l, data, writing)
  PROVE  e < l /\ data[s][1] = At(m, 1) /\ 1 \in 1 .. Len(data[s])
<1>1. Parted(data, writing, t) /\ ~ Parted(data, writing, s)
  BY PartlyIs DEF Unfinished
<1>2. PICK x \in Messages : writing[t][1] = x /\ RestOf(data[t], x)
  BY <1>1, PartlyIs DEF Parted
<1>3. Len(data[t]) <= Size[x] + 1 /\ Len(data[t]) # Size[x] + 1
  BY <1>1, <1>2 DEF Parted, RestOf
<1>4. (l - e) + Len(data[t]) = Size[x] + 1
  BY <1>1, <1>2 DEF Unfinished
<1>5. Size[x] \in Nat /\ Len(data[t]) \in Nat
  BY SizeIs DEF StreamTypes
<1>6. e < l
  BY <1>3, <1>4, <1>5
<1>7. Len(data[s]) = Size[m] + 1 /\ Size[m] \in Nat /\ Size[m] >= 1
  BY <1>1, SizeIs DEF Parted
<1>8. data[s][1] = At(m, 1) /\ 1 \in 1 .. Len(data[s])
  <2>1. 1 \in 1 .. Len(data[s]) /\ 1 \in 1 .. Size[m] /\ ((Size[m] + 1) - Len(data[s])) + 1 = 1
    BY <1>7
  <2>2. data[s][1] = Bytes(m)[1]
    BY <2>1 DEF RestOf
  <2>3. QED
    BY <2>1, <2>2, BytesAre
<1>9. QED
  BY <1>6, <1>8

\* The sender's rest stays one.
LEMMA RestStays ==
  ASSUME NEW m \in Messages, NEW d, RestOf(d, m), NEW L \in Nat, L = Len(d),
         NEW n \in 1 .. L, NEW f, Len(f) = L - n, \A k \in 1 .. L - n : f[k] = d[n + k]
  PROVE  RestOf(f, m)
<1>1. Size[m] \in Nat /\ L <= Size[m] + 1
  BY SizeIs DEF RestOf
<1>2. L - n <= Size[m] + 1
  BY <1>1
<1>3. ASSUME NEW j \in 1 .. L - n
      PROVE  f[j] = Bytes(m)[((Size[m] + 1) - (L - n)) + j]
  <2>1. n + j \in 1 .. L /\ ((Size[m] + 1) - L) + (n + j) = ((Size[m] + 1) - (L - n)) + j
    BY <1>1
  <2>2. d[n + j] = Bytes(m)[((Size[m] + 1) - L) + (n + j)]
    BY <2>1 DEF RestOf
  <2>3. QED
    BY <2>1, <2>2
<1>4. QED
  BY <1>2, <1>3 DEF RestOf

\* The frames of a stream that grew behind where they are broken.
LEMMA BrokenStays ==
  ASSUME NEW a \in Nat, NEW b \in Nat, a <= b, NEW l \in Nat, NEW L \in Nat, l < L,
         NEW c, NEW st, NEW q, Framed(c, st, l, q, a, b), Broken(c[b], st, l),
         NEW su, NEW M \in Nat, L <= M, \A k \in 1 .. L : su[k] = st[k]
  PROVE  FramesTo(l, c, su, M, q, a, b, TRUE)
<1>1. \A k \in 1 .. l : su[k] = st[k]
  OBVIOUS
<1>2. \A k \in l + 1 .. l : su[k] # Zero
  OBVIOUS
<1>3. Framed(c, su, l, q, a, b)
  BY <1>1, <1>2, FramedGrows
<1>4. l + 1 \in 1 .. L
  OBVIOUS
<1>5. Broken(c[b], su, l)
  BY <1>4 DEF Broken
<1>6. QED
  BY <1>3, <1>5 DEF FramesTo

LEMMA WriteOpenKeeps ==
  ASSUME FramingInv, NEW s \in Senders, data[s] # <<>>, connection = "open",
         torn' = (torn \/ \E t \in Senders \ {s} : Partly(t)),
         NEW n \in 1 .. Len(data[s]),
         wire' = wire \o SubSeq(data[s], 1, n),
         data' = [data EXCEPT ![s] = SubSeq(@, n + 1, Len(@))],
         sent' = IF n = Len(data[s]) /\ reader = "waiting" /\ ~ torn'
                 THEN sent \o writing[s] ELSE sent,
         UNCHANGED <<writing, connection, recv_buffer, reader, begun, received>>
  PROVE  FramingInv'
<1> DEFINE L == Len(data[s])
           l == Len(Stream)
           a == Len(received)
           b == Len(sent)
<1>1. StreamTypes /\ SendsBegan /\ Framing
  BY DEF FramingInv
<1>2. PICK m \in Messages : writing[s] = <<m>> /\ Begun(m) /\ RestOf(data[s], m)
  BY <1>1 DEF SendsBegan
<1>3. /\ L \in Nat /\ l \in Nat
      /\ wire' \in Seq(Byte) /\ data' \in [Senders -> Seq(Byte)]
      /\ Len(Stream') = l + n
      /\ Takes(Stream', Stream, l, n, data[s]) /\ Leaves(data', data, s, n)
  <2>1. Taken(s, n)
    BY DEF Taken
  <2>2. QED
    BY <1>1, <2>1, BytesTaken, Zenon
<1>4. a \in Nat /\ b \in Nat /\ a <= b /\ sent \in Seq(Messages)
  BY ONLY <1>1, SMTT(30) DEF StreamTypes
<1>5. /\ \A t \in Senders : t # s => data'[t] = data[t]
      /\ RestOf(data'[s], m)
  <2>1. \A t \in Senders : t # s => data'[t] = data[t]
    BY <1>3 DEF Leaves
  <2>2. /\ Len(data'[s]) = L - n
        /\ \A k \in 1 .. L - n : data'[s][k] = data[s][n + k]
    BY <1>3 DEF Leaves
  <2> DEFINE d == data[s]
             f == data'[s]
  <2>3. /\ RestOf(d, m) /\ L = Len(d) /\ L \in Nat /\ n \in 1 .. L
        /\ Len(f) = L - n /\ \A k \in 1 .. L - n : f[k] = d[n + k]
    BY <1>2, <1>3, <2>2
  <2> HIDE DEF d, f, L
  <2>4. RestOf(f, m)
    BY ONLY <2>3, RestStays, m \in Messages
  <2>5. QED
    BY <2>1, <2>4 DEF f
<1>6. Begun(m) = Begun(m)' /\ \A x : Begun(x)' = Begun(x)
  BY DEF Begun
<1>7. /\ sent \o <<m>> \in Seq(Messages) /\ Len(sent \o <<m>>) = b + 1
      /\ \A i \in 1 .. b : (sent \o <<m>>)[i] = sent[i]
      /\ (sent \o <<m>>)[b + 1] = m
  <2>1. <<m>> \in Seq(Messages) /\ 1 = Len(<<m>>) /\ b = Len(sent) /\ 1 \in 1 .. 1
    OBVIOUS
  <2> HIDE DEF b
  <2>2. /\ sent \o <<m>> \in Seq(Messages) /\ Len(sent \o <<m>>) = b + 1
        /\ \A i \in 1 .. b : (sent \o <<m>>)[i] = sent[i]
        /\ \A i \in 1 .. 1 : (sent \o <<m>>)[b + i] = <<m>>[i]
    BY <1>4, <2>1, Joined
  <2>3. QED
    BY <2>1, <2>2
<1>8. sent' = sent \/ sent' = sent \o <<m>>
  BY <1>2
<1>9. StreamTypes'
  <2>1. sent' \in Seq(Messages) /\ Len(received) <= Len(sent')
    <3> HIDE DEF b, a
    <3>1. Len(sent) = b /\ Len(received) = a
      BY DEF a, b
    <3>2. CASE sent' = sent
      BY <1>4, <3>1, <3>2
    <3>3. CASE sent' = sent \o <<m>>
      BY ONLY <1>4, <1>7, <3>1, <3>3
    <3>4. QED
      BY <1>8, <3>2, <3>3
  <2>2. torn' \in BOOLEAN
    OBVIOUS
  <2>3. QED
    BY <1>1, <1>3, <2>1, <2>2 DEF StreamTypes
<1>10. SendsBegan'
  <2>1. ASSUME reader = "waiting", NEW i \in DOMAIN sent'
        PROVE  Begun(sent'[i])
    <3>1. \A j \in 1 .. b : Begun(sent[j])
      BY <1>1, <2>1 DEF SendsBegan
    <3>2. CASE sent' = sent
      <4>1. i \in 1 .. b
        BY <1>4, <3>2, LenProperties
      <4>2. QED
        BY <3>1, <3>2, <4>1
    <3>3. CASE sent' = sent \o <<m>>
      <4>1. DOMAIN sent' = 1 .. b + 1
        BY <1>7, <3>3, LenProperties
      <4>2. i = b + 1 \/ i \in 1 .. b
        BY <1>4, <4>1
      <4>3. QED
        BY <1>2, <1>7, <3>1, <3>3, <4>2
    <3>4. QED
      BY <1>8, <3>2, <3>3
  <2>2. ASSUME NEW t \in Senders, data'[t] # <<>>
        PROVE  \E x \in Messages : writing[t] = <<x>> /\ Begun(x) /\ RestOf(data'[t], x)
    <3>1. CASE t = s
      BY <1>2, <1>5, <3>1
    <3>2. CASE t # s
      BY <1>1, <1>5, <2>2, <3>2 DEF SendsBegan
    <3>3. QED
      BY <3>1, <3>2
  <2>3. QED
    BY <1>6, <2>1, <2>2 DEF SendsBegan
<1>11. ASSUME reader = "waiting"
       PROVE  \E c, j :
                /\ FramesTo(j, c, Stream', Len(Stream'), sent', a, Len(sent'), torn')
                /\ GoesOn(c[Len(sent')], Stream', j, Len(Stream'), data', writing, torn')
  <2>1. PICK c, j : /\ FramesTo(j, c, Stream, l, sent, a, b, torn)
                    /\ GoesOn(c[b], Stream, j, l, data, writing, torn)
    BY <1>1, <1>11 DEF Framing
  <2>2. /\ j \in Nat /\ j <= l /\ Framed(c, Stream, j, sent, a, b)
        /\ j < l => torn /\ Broken(c[b], Stream, j)
    BY <2>1 DEF FramesTo
  <2> DEFINE e == c[b]
  <2>3. e \in Nat /\ e <= j
    BY <1>4, <2>2, CutsInside DEF Framed
  <2>4. /\ \A k \in 1 .. l : Stream'[k] = Stream[k]
        /\ \A k \in 1 .. n : Stream'[l + k] = data[s][k]
    BY <1>3 DEF Takes
  <2>5. l + n \in Nat /\ l < l + n /\ l <= l + n
    BY <1>3
  <2>6. CASE torn
    <3>1. j < l /\ Broken(c[b], Stream, j) /\ torn' = TRUE /\ sent' = sent
      BY <2>1, <2>2, <2>6 DEF GoesOn
    <3> HIDE DEF l, a, b, e
    <3>2. FramesTo(j, c, Stream', l + n, sent, a, b, TRUE)
      BY <1>3, <1>4, <2>2, <2>4, <2>5, <3>1, BrokenStays
    <3>3. j < l + n
      BY <1>3, <2>2, <2>5
    <3>4. QED
      BY <1>3, <3>1, <3>2, <3>3 DEF GoesOn, b
  <2>7. CASE ~ torn /\ torn'
    <3>1. PICK t \in Senders \ {s} : Partly(t)
      BY <2>7
    <3>2. j = l /\ Unfinished(e, Stream, l, data, writing) /\ sent' = sent /\ torn' = TRUE
      BY <1>3, <2>1, <2>2, <2>7 DEF GoesOn
    <3>3. e < l /\ data[s][1] = At(m, 1) /\ 1 \in 1 .. L
      <4> HIDE DEF e, l
      <4>1. e \in Nat /\ l \in Nat /\ e <= l
        BY <1>3, <2>3, <3>2
      <4>2. QED
        BY <1>1, <1>2, <3>1, <3>2, <4>1, WriterBreaks
    <3>4. 1 \in 1 .. n
      OBVIOUS
    <3>5. Stream'[l + 1] = At(m, 1)
      BY <2>4, <3>3, <3>4
    <3>6. Framed(c, Stream', l, sent, a, b)
      <4>1. Framed(c, Stream, l, sent, a, b) /\ \A k \in l + 1 .. l : FALSE
        BY <1>3, <2>2, <3>2
      <4> HIDE DEF l, a, b
      <4>2. l <= l
        BY <1>3
      <4>3. QED
        BY <1>3, <1>4, <2>4, <4>1, <4>2, FramedGrows
    <3>7. FramesTo(l, c, Stream', l + n, sent, a, b, TRUE)
      BY <1>3, <2>5, <3>3, <3>5, <3>6 DEF FramesTo, Broken
    <3>8. GoesOn(e, Stream', l, l + n, data', writing, TRUE)
      BY <2>5 DEF GoesOn
    <3>9. QED
      BY <1>3, <3>2, <3>7, <3>8
  <2>8. CASE ~ torn'
    <3>1. ~ torn /\ j = l /\ Unfinished(e, Stream, l, data, writing)
      <4>1. ~ torn
        BY <2>8
      <4>2. j = l
        BY <1>3, <2>2, <4>1
      <4>3. QED
        BY <2>1, <4>1, <4>2 DEF GoesOn
    <3>2. \A t \in Senders \ {s} : ~ Partly(t)
      BY <2>8
    <3>3. Framed(c, Stream, l, sent, a, b)
      BY <2>2, <3>1
    <3>4. WritesOn(e, Stream, l, s, m)
      <4> HIDE DEF e, l
      <4>1. e \in Nat /\ l \in Nat /\ e <= l
        BY <1>3, <2>3, <3>1
      <4>2. QED
        BY <1>1, <1>2, <3>1, <3>2, <4>1, WriterGoesOn
    <3>5. ASSUME NEW q, NEW k, Halfway(Stream', l + n, q, a, k, data'), sent' = q, Len(q) = k
          PROVE  \E g, i :
                   /\ FramesTo(i, g, Stream', Len(Stream'), sent', a, Len(sent'), torn')
                   /\ GoesOn(g[Len(sent')], Stream', i, Len(Stream'), data', writing, torn')
      <4>1. PICK g : Framed(g, Stream', l + n, q, a, k) /\ Unfinished(g[k], Stream', l + n, data', writing)
        BY <3>5 DEF Halfway
      <4>2. FramesTo(l + n, g, Stream', l + n, q, a, k, torn')
        BY <2>5, <4>1 DEF FramesTo
      <4>3. GoesOn(g[k], Stream', l + n, l + n, data', writing, torn')
        BY <2>8, <4>1 DEF GoesOn
      <4>4. QED
        BY <1>3, <3>5, <4>2, <4>3
    <3>6. CASE n # L
      <4>1. sent' = sent
        BY <3>6
      <4> HIDE DEF L, l, a, b
      <4>2. L = Len(data[s]) /\ n \in 1 .. L
        BY DEF L
      <4>3. Halfway(Stream', l + n, sent, a, b, data')
        BY <1>3, <1>4, <3>3, <3>4, <3>6, <4>2, PartTaken DEF e
      <4>4. QED
        BY <3>5, <4>1, <4>3 DEF b
    <3>7. CASE n = L
      <4>1. sent' = sent \o <<m>>
        BY <1>2, <1>11, <2>8, <3>7
      <4>2. data'[s] = <<>>
        <5>1. Len(data'[s]) = 0 /\ data'[s] \in Seq(Byte)
          BY <1>3, <3>7 DEF Leaves
        <5>2. QED
          BY <5>1, EmptySeq
      <4> HIDE DEF L, l, a, b
      <4>3. L = Len(data[s]) /\ 1 <= L /\ n = L
        BY <1>3, <3>7 DEF L
      <4>4. Len(sent') = b + 1 /\ Longer(sent', sent, b, m)
        BY <1>4, <1>7, <4>1 DEF Longer
      <4>5. Halfway(Stream', l + L, sent', a, b + 1, data')
        BY <1>3, <1>4, <3>3, <3>4, <4>2, <4>3, <4>4, AllTaken DEF e
      <4>6. QED
        BY <3>5, <3>7, <4>4, <4>5
    <3>8. QED
      BY <3>6, <3>7
  <2>9. QED
    BY <2>6, <2>7, <2>8
<1>12. Framing'
  <2>1. /\ reader' = reader /\ received' = received /\ writing' = writing
        /\ connection' = connection
    OBVIOUS
  <2>2. QED
    BY ONLY <1>11, <2>1 DEF Framing
<1>13. QED
  BY <1>9, <1>10, <1>12 DEF FramingInv

\* A step that leaves the bytes and the counts, and sends no more.
LEMMA OthersKeep ==
  ASSUME FramingInv,
         \/ data' = data
         \/ /\ connection # "open"
            /\ \E s \in Senders : data' = [data EXCEPT ![s] = <<>>],
         connection' # "open" \/ connection' = connection,
         Stream' = Stream, wire' \in Seq(Byte), recv_buffer' \in Seq(Byte),
         reader' = reader \/ reader' # "waiting",
         UNCHANGED <<writing, begun, torn, sent, received>>
  PROVE  FramingInv'
<1>1. StreamTypes /\ SendsBegan /\ Framing
  BY DEF FramingInv
<1>2. StreamTypes'
  BY <1>1, EmptySeq DEF StreamTypes
<1>3. \A t \in Senders : data'[t] # <<>> => data'[t] = data[t]
  BY <1>1 DEF StreamTypes
<1>4. SendsBegan'
  BY <1>1, <1>3 DEF SendsBegan, Begun
<1>5. Framing'
  <2>1. SUFFICES ASSUME reader' = "waiting"
                 PROVE  \E c, l :
                   /\ FramesTo(l, c, Stream, Len(Stream), sent, Len(received), Len(sent), torn)
                   /\ connection' = "open" =>
                        GoesOn(c[Len(sent)], Stream, l, Len(Stream), data', writing, torn)
    BY DEF Framing
  <2>2. reader = "waiting" /\ (connection' = "open" => connection = "open" /\ data' = data)
    BY <2>1
  <2>3. QED
    BY <1>1, <2>2 DEF Framing
<1>6. QED
  BY <1>2, <1>4, <1>5 DEF FramingInv

\* What recv_message looks for.
LEMMA FirstZeroIs ==
  ASSUME recv_buffer \in Seq(Byte), HasZero
  PROVE  /\ FirstZero \in 1 .. Len(recv_buffer) /\ recv_buffer[FirstZero] = Zero
         /\ \A k \in 1 .. FirstZero - 1 : recv_buffer[k] # Zero
         /\ Text \in Seq(Byte) /\ Len(Text) = FirstZero
         /\ \A k \in 1 .. FirstZero : Text[k] = recv_buffer[k]
<1> DEFINE n == Len(recv_buffer)
           I == {i \in 1 .. n : recv_buffer[i] = Zero}
           f == FirstZero
<1>1. n \in Nat /\ I \subseteq Nat /\ I # {}
  BY DEF HasZero
<1>2. PICK g \in I : \A i \in I : g <= i
  <2> HIDE DEF I
  <2>1. QED
    BY <1>1, LeastIn
<1>3. f = g
  <2>1. FirstZero = Min(I)
    BY <1>1 DEF FirstZero, SelectInSeq
  <2> HIDE DEF I
  <2>2. \A x, y \in I : x <= y /\ y <= x => x = y
    BY <1>1
  <2>3. Min(I) = g
    BY <1>2, <2>2 DEF Min
  <2>4. QED
    BY <2>1, <2>3
<1>4. f \in 1 .. n /\ recv_buffer[f] = Zero
  BY <1>2, <1>3
<1>5. \A k \in 1 .. f - 1 : recv_buffer[k] # Zero
  <2>1. ASSUME NEW k \in 1 .. f - 1, recv_buffer[k] = Zero
        PROVE  FALSE
    <3>1. k \in I /\ ~ (g <= k)
      BY <1>1, <1>3, <1>4, <2>1
    <3>2. QED
      BY <1>2, <3>1
  <2>2. QED
    BY <2>1
<1> HIDE DEF f, n
<1>6. f \in Nat /\ f <= n /\ n = Len(recv_buffer)
  BY <1>1, <1>4 DEF n
<1>7. /\ SubSeq(recv_buffer, 1, f) \in Seq(Byte) /\ Len(SubSeq(recv_buffer, 1, f)) = f
      /\ \A k \in 1 .. f : SubSeq(recv_buffer, 1, f)[k] = recv_buffer[k]
  BY <1>6, Begin
<1>8. QED
  BY <1>4, <1>5, <1>7 DEF f, n, Text

OldestIs(c, a, b) ==
  /\ a + 1 <= b /\ sent[a + 1] \in Messages
  /\ FirstZero = c[a + 1] /\ Text = Bytes(sent[a + 1])

NoMessage == \A x \in Messages : Text # Bytes(x)

\* What recv_message cuts off is the oldest message, whole, or, when all before
\* it are received and one is torn, the text of none.
LEMMA OldestParsed ==
  ASSUME StreamTypes, HasZero, NEW c, NEW l, NEW a, NEW b, a = Len(received),
         b = Len(sent), FramesTo(l, c, Stream, Len(Stream), sent, a, b, torn)
  PROVE  OldestIs(c, a, b) \/ (torn /\ NoMessage)
<1> DEFINE f == FirstZero
           n == Len(recv_buffer)
<1>1. /\ recv_buffer \in Seq(Byte) /\ a \in Nat /\ b \in Nat /\ a <= b
      /\ n \in Nat /\ Len(Stream) \in Nat /\ n <= Len(Stream)
      /\ \A k \in 1 .. n : recv_buffer[k] = Stream[k]
  BY StreamFacts DEF StreamTypes
<1>2. /\ f \in 1 .. n /\ recv_buffer[f] = Zero
      /\ \A k \in 1 .. f - 1 : recv_buffer[k] # Zero
      /\ Text \in Seq(Byte) /\ Len(Text) = f
      /\ \A k \in 1 .. f : Text[k] = recv_buffer[k]
  BY <1>1, FirstZeroIs
<1>3. /\ l \in Nat /\ l <= Len(Stream) /\ Framed(c, Stream, l, sent, a, b)
      /\ l < Len(Stream) => torn /\ Broken(c[b], Stream, l)
  BY DEF FramesTo
<1> HIDE DEF f, n
<1>4. ASSUME NEW k \in 1 .. f
      PROVE  k \in 1 .. n /\ Text[k] = Stream[k]
  <2>1. k \in 1 .. n
    BY <1>1, <1>2
  <2>2. Text[k] = recv_buffer[k] /\ recv_buffer[k] = Stream[k]
    BY <1>1, <1>2, <2>1
  <2>3. QED
    BY <2>1, <2>2
<1>5. f \in Nat /\ f >= 1 /\ Stream[f] = Zero /\ \A k \in 1 .. f - 1 : Stream[k] # Zero
  <2>1. f \in Nat /\ f >= 1 /\ Stream[f] = Zero
    BY <1>1, <1>2
  <2>2. ASSUME NEW k \in 1 .. f - 1
        PROVE  Stream[k] # Zero
    <3>1. k \in 1 .. n
      BY <1>1, <1>2
    <3>2. QED
      BY <1>1, <1>2, <3>1
  <2>3. QED
    BY <2>1, <2>2
<1>6. CASE f <= l
  <2>1. f \in 1 .. l
    BY <1>3, <1>5, <1>6
  <2> DEFINE m == sent[a + 1]
             g == c[a + 1]
  <2>2. /\ a + 1 <= b /\ m \in Messages
        /\ g = Size[m] + 1 /\ g \in Nat /\ 2 <= g /\ g <= f /\ Stream[g] = Zero
        /\ \A k \in 1 .. g - 1 : Stream[k] = At(m, k)
    BY <1>1, <1>3, <1>5, <2>1, OldestFrame, SMTT(30)
  <2> HIDE DEF m, g
  <2>3. g = f
    <3>1. ASSUME g # f
          PROVE  FALSE
      <4>1. g \in 1 .. f - 1
        BY <1>5, <2>2, <3>1
      <4>2. QED
        BY <1>5, <2>2, <4>1
    <3>2. QED
      BY <3>1
  <2>4. Text = Bytes(m)
    <3>1. /\ Bytes(m) \in Seq(Byte) /\ Len(Bytes(m)) = f
          /\ \A i \in 1 .. Size[m] : Bytes(m)[i] = At(m, i)
          /\ Bytes(m)[f] = Zero
      BY <2>2, <2>3, BytesAre
    <3>2. ASSUME NEW k \in 1 .. f
          PROVE  Text[k] = Bytes(m)[k]
      <4>1. Size[m] \in Nat
        BY <2>2, SizeIs
      <4>2. k = f \/ (k \in 1 .. g - 1 /\ k \in 1 .. Size[m])
        BY ONLY <2>2, <2>3, <4>1, k \in 1 .. f
      <4>3. QED
        BY <1>4, <1>5, <2>2, <3>1, <4>2
    <3>3. QED
      BY <1>2, <3>1, <3>2, SeqEqual
  <2>5. QED
    BY <2>2, <2>3, <2>4 DEF OldestIs, f, g, m
<1>7. CASE ~ (f <= l)
  <2>1. l < f /\ l < Len(Stream)
    BY <1>1, <1>2, <1>3, <1>5, <1>7
  <2>2. torn /\ Broken(c[b], Stream, l)
    BY <1>3, <2>1
  <2>3. PICK m \in Messages : Stream[l + 1] = At(m, 1)
    BY <2>2 DEF Broken
  <2>4. 0 < l
    <3>1. c[b] \in Nat /\ c[b] < l
      BY <1>1, <1>3, <2>2, CutsInside DEF Framed, Broken
    <3>2. QED
      BY <1>3, <3>1
  <2>5. l + 1 \in 1 .. f
    BY <1>3, <1>5, <2>1
  <2>6. ASSUME NEW x \in Messages, Text = Bytes(x)
        PROVE  FALSE
    <3>1. f = Size[x] + 1 /\ Size[x] \in Nat
      BY <1>2, <2>6, BytesAre, SizeIs
    <3>2. Bytes(x)[l + 1] = At(m, 1) /\ At(m, 1) # Zero
      <4>1. At(m, 1) # Zero
        BY SizeIs
      <4>2. QED
        BY <1>4, <2>3, <2>5, <2>6, <4>1
    <3>3. CASE l + 1 = Size[x] + 1
      BY <3>2, <3>3, BytesAre
    <3>4. CASE l + 1 # Size[x] + 1
      <4>1. l + 1 \in 1 .. Size[x]
        BY <1>3, <2>5, <3>1, <3>4
      <4>2. At(x, l + 1) = At(m, 1)
        BY <3>2, <4>1, BytesAre
      <4>3. l + 1 = 1
        BY <4>2 DEF At
      <4>4. QED
        BY <1>3, <2>4, <4>3
    <3>5. QED
      BY <3>3, <3>4
  <2>7. QED
    BY <2>2, <2>6 DEF NoMessage
<1>8. QED
  BY <1>6, <1>7

LEMMA BytesDiffer ==
  ASSUME NEW m \in Messages, NEW k \in Messages, Bytes(m) = Bytes(k)
  PROVE  m = k
<1>1. Size[m] \in Nat /\ Size[m] >= 1 /\ Size[k] \in Nat /\ Size[k] >= 1
  BY SizeIs
<1>2. Bytes(m)[1] = At(m, 1)
  BY <1>1, BytesAre
<1>3. Bytes(k)[1] = At(k, 1)
  BY <1>1, BytesAre
<1>4. QED
  BY <1>2, <1>3 DEF At

\* What the reader does with a complete text, in terms of the messages.
LEMMA WhatIsParsed ==
  ASSUME FramingInv, reader = "waiting", HasZero
  PROVE  \/ /\ Len(received) + 1 <= Len(sent)
            /\ sent[Len(received) + 1] \in Messages
            /\ Begun(sent[Len(received) + 1])
            /\ Text = Bytes(sent[Len(received) + 1])
         \/ torn /\ NoMessage
<1> DEFINE a == Len(received)
           b == Len(sent)
<1>1. StreamTypes /\ SendsBegan /\ Framing
  BY DEF FramingInv
<1>2. PICK c, l : FramesTo(l, c, Stream, Len(Stream), sent, a, b, torn)
  BY <1>1 DEF Framing
<1>3. a = Len(received) /\ b = Len(sent) /\ a \in Nat /\ b \in Nat
  BY <1>1 DEF StreamTypes
<1>4. OldestIs(c, a, b) \/ (torn /\ NoMessage)
  <2> HIDE DEF a, b
  <2>1. QED
    BY <1>1, <1>2, <1>3, OldestParsed
<1>5. ASSUME OldestIs(c, a, b)
      PROVE  Begun(sent[a + 1])
  <2>1. a + 1 \in 1 .. b
    BY <1>3, <1>5 DEF OldestIs
  <2>2. QED
    BY <1>1, <2>1 DEF SendsBegan, StreamTypes
<1>6. QED
  BY <1>4, <1>5 DEF OldestIs

LEMMA ParseKeeps ==
  ASSUME FramingInv, Parse
  PROVE  FramingInv'
<1> DEFINE L == Len(Stream)
           a == Len(received)
           b == Len(sent)
           f == FirstZero
<1>1. StreamTypes /\ SendsBegan /\ Framing
  BY DEF FramingInv
<1>2. /\ reader = "waiting" /\ HasZero
      /\ recv_buffer' = SubSeq(recv_buffer, f + 1, Len(recv_buffer))
      /\ UNCHANGED <<data, writing, wire, connection, reader, begun, torn, sent>>
  BY DEF Parse, Rest
<1>3. PICK m \in Messages : Text = Bytes(m) /\ received' = Append(received, m)
  BY DEF Parse
<1>4. /\ a \in Nat /\ b \in Nat /\ L \in Nat
      /\ recv_buffer \in Seq(Byte) /\ wire \in Seq(Byte) /\ received \in Seq(Messages)
  BY <1>1, StreamFacts DEF StreamTypes
<1>5. received' \in Seq(Messages) /\ Len(received') = a + 1
  BY <1>3, <1>4
<1>6. PICK c, l : /\ FramesTo(l, c, Stream, L, sent, a, b, torn)
                  /\ connection = "open" => GoesOn(c[b], Stream, l, L, data, writing, torn)
  BY <1>1, <1>2 DEF Framing
<1>7. a + 1 <= b /\ f = c[a + 1] /\ f \in 1 .. Len(recv_buffer)
  <2>1. f \in 1 .. Len(recv_buffer)
    BY <1>2, <1>4, FirstZeroIs
  <2>2. OldestIs(c, a, b) \/ NoMessage
    BY <1>1, <1>2, <1>6, OldestParsed
  <2>3. QED
    BY <1>3, <2>1, <2>2 DEF OldestIs, NoMessage
<1>8. /\ recv_buffer' \in Seq(Byte)
      /\ Len(Stream') = L - f
      /\ \A k \in 1 .. L - f : Stream'[k] = Stream[k + f]
  <2>1. f \in Nat /\ f <= Len(recv_buffer) /\ L = Len(recv_buffer \o wire)
    BY <1>4, <1>7 DEF Stream
  <2>2. Stream' = recv_buffer' \o wire /\ Stream = recv_buffer \o wire
    BY <1>2 DEF Stream
  <2> HIDE DEF f
  <2>3. CutOff(Stream, Stream', recv_buffer, wire, recv_buffer', f)
    BY <1>2, <2>2 DEF CutOff
  <2>4. f \in Nat /\ f <= Len(recv_buffer)
    BY <2>1
  <2>5. recv_buffer \in Seq(Byte)
    BY <1>4
  <2>6. wire \in Seq(Byte)
    BY <1>4
  <2>7. recv_buffer' \in Seq(Byte) /\ Shifted(Stream, Stream', f)
    BY ONLY <2>3, <2>4, <2>5, <2>6, BufferCut
  <2>8. QED
    BY <2>7 DEF Shifted
<1>9. StreamTypes'
  BY <1>1, <1>2, <1>5, <1>7, <1>8 DEF StreamTypes
<1>10. SendsBegan'
  BY <1>1, <1>2 DEF SendsBegan, Begun
<1>11. Framing'
  <2> DEFINE n == c[b]
  <2>0. /\ l \in Nat /\ l <= L /\ Framed(c, Stream, l, sent, a, b)
        /\ l < L => torn /\ Broken(n, Stream, l)
    BY <1>6 DEF FramesTo
  <2>1. n \in Nat /\ n <= l /\ f <= n /\ f \in Nat
    <3>1. Cuts(c, sent, a, b) /\ n <= l
      BY <2>0 DEF Framed
    <3>2. a + 1 \in a + 1 .. b /\ a <= b
      BY <1>4, <1>7
    <3>3. c[a + 1] <= c[b] /\ c[b] \in Nat
      BY <1>4, <3>1, <3>2, CutsInside
    <3>4. QED
      BY <1>7, <3>1, <3>3
  <2>2. FramedUpTo(n - f, Stream', l - f, sent, a + 1, b)
    <3>1. \A k \in 1 .. l - f : k \in 1 .. L - f
      BY <1>4, <2>0, <2>1
    <3> HIDE DEF f, L, a, b
    <3>2. \A k \in 1 .. l - f : Stream'[k] = Stream[k + f]
      BY <1>8, <3>1
    <3>3. QED
      BY <1>4, <1>7, <2>0, <3>2, FramedParsed DEF n
  <2>3. ASSUME Unfinished(n, Stream, l, data, writing)
        PROVE  Unfinished(n - f, Stream', l - f, data, writing)
    <3> HIDE DEF f, L, n
    <3>1. (l - f) - (n - f) = l - n /\ (n = l => n - f = l - f)
      BY <2>0, <2>1
    <3>2. ASSUME NEW k \in (n - f) + 1 .. l - f
          PROVE  /\ Stream'[k] = Stream[k + f] /\ k + f \in n + 1 .. l
                 /\ (k + f) - n = k - (n - f)
      <4>1. k \in 1 .. L - f /\ k + f \in n + 1 .. l /\ (k + f) - n = k - (n - f)
        BY <1>4, <2>0, <2>1
      <4>2. QED
        BY <1>8, <4>1
    <3>3. QED
      BY <2>3, <3>1, <3>2 DEF Unfinished
  <2>4. ASSUME l < L
        PROVE  torn /\ Broken(n - f, Stream', l - f)
    <3>1. torn /\ n < l /\ \E x \in Messages : Stream[l + 1] = At(x, 1)
      BY <2>0, <2>4 DEF Broken
    <3> HIDE DEF f, L, n
    <3>2. (l - f) + 1 \in 1 .. L - f /\ ((l - f) + 1) + f = l + 1 /\ n - f < l - f
      BY <1>4, <2>0, <2>1, <2>4, <3>1
    <3>3. Stream'[(l - f) + 1] = Stream[l + 1]
      BY <1>8, <3>2
    <3>4. QED
      BY <3>1, <3>2, <3>3 DEF Broken
  <2>5. l - f \in Nat /\ l - f <= L - f /\ (l - f < L - f <=> l < L)
    BY <1>4, <2>0, <2>1
  <2>6. PICK d : Framed(d, Stream', l - f, sent, a + 1, b) /\ d[b] = n - f
    BY <2>2 DEF FramedUpTo
  <2>7. FramesTo(l - f, d, Stream', L - f, sent, a + 1, b, torn)
    BY <2>4, <2>5, <2>6 DEF FramesTo
  <2>8. connection = "open" => GoesOn(d[b], Stream', l - f, L - f, data, writing, torn)
    BY <1>6, <2>3, <2>5, <2>6 DEF GoesOn
  <2>9. /\ FramesTo(l - f, d, Stream', Len(Stream'), sent', Len(received'), Len(sent'), torn')
        /\ connection' = "open" =>
             GoesOn(d[Len(sent')], Stream', l - f, Len(Stream'), data', writing', torn')
    BY <1>2, <1>5, <1>8, <2>7, <2>8
  <2>10. QED
    BY <1>2, <2>9 DEF Framing
<1>12. QED
  BY <1>9, <1>10, <1>11 DEF FramingInv

LEMMA ParseThrowsKeeps ==
  ASSUME FramingInv, ParseThrows
  PROVE  FramingInv'
<1>1. StreamTypes /\ SendsBegan
  BY DEF FramingInv
<1>2. /\ reader' = "thrown" /\ sent' = received
      /\ UNCHANGED <<data, writing, wire, connection, recv_buffer, begun, torn, received>>
  BY DEF ParseThrows
<1>3. StreamTypes'
  BY <1>1, <1>2 DEF StreamTypes
<1>4. SendsBegan' /\ Framing'
  BY <1>1, <1>2 DEF SendsBegan, Framing, Begun
<1>5. QED
  BY <1>3, <1>4 DEF FramingInv

LEMMA ReceiveKeeps ==
  ASSUME FramingInv, Receive
  PROVE  FramingInv'
<1>1. recv_buffer \in Seq(Byte) /\ wire \in Seq(Byte)
  BY DEF FramingInv, StreamTypes
<1>2. UNCHANGED <<data, writing, connection, begun, torn, sent, received>>
  BY DEF Receive
<1>3. CASE \E n \in 1 .. MaxPiece :
             /\ n <= Len(wire)
             /\ recv_buffer' = recv_buffer \o SubSeq(wire, 1, n)
             /\ wire' = SubSeq(wire, n + 1, Len(wire))
             /\ UNCHANGED reader
  <2>1. PICK n \in 1 .. MaxPiece :
          /\ n <= Len(wire)
          /\ recv_buffer' = recv_buffer \o SubSeq(wire, 1, n)
          /\ wire' = SubSeq(wire, n + 1, Len(wire))
          /\ UNCHANGED reader
    BY <1>3
  <2>2. n \in Nat
    OBVIOUS
  <2>3. /\ recv_buffer \o SubSeq(wire, 1, n) \in Seq(Byte)
        /\ SubSeq(wire, n + 1, Len(wire)) \in Seq(Byte)
        /\ (recv_buffer \o SubSeq(wire, 1, n)) \o SubSeq(wire, n + 1, Len(wire))
             = recv_buffer \o wire
    BY ONLY <1>1, <2>1, <2>2, WireMoves
  <2>4. Stream' = Stream
    BY <2>1, <2>3 DEF Stream
  <2>5. QED
    BY <1>2, <2>1, <2>3, <2>4, OthersKeep
<1>4. CASE /\ wire = <<>> /\ connection # "open"
           /\ reader' = IF connection = "closed" THEN "done" ELSE "undefined"
           /\ UNCHANGED <<recv_buffer, wire>>
  <2>1. Stream' = Stream /\ reader' # "waiting"
    BY <1>4 DEF Stream
  <2>2. QED
    BY <1>1, <1>2, <1>4, <2>1, OthersKeep
<1>5. QED
  BY <1>3, <1>4 DEF Receive

LEMMA CloseKeeps ==
  ASSUME FramingInv, Close
  PROVE  FramingInv'
<1>1. recv_buffer \in Seq(Byte) /\ wire \in Seq(Byte)
  BY DEF FramingInv, StreamTypes
<1>2. /\ connection' = "closed"
      /\ UNCHANGED <<data, writing, wire, recv_buffer, reader, begun, torn, sent, received>>
  BY DEF Close
<1>3. Stream' = Stream
  BY <1>2 DEF Stream
<1>4. QED
  BY <1>1, <1>2, <1>3, OthersKeep

LEMMA WriteKeeps ==
  ASSUME FramingInv, NEW s \in Senders, Write(s)
  PROVE  FramingInv'
<1>1. /\ data[s] # <<>>
      /\ UNCHANGED <<writing, connection, recv_buffer, reader, begun, received>>
  BY DEF Write
<1>2. CASE /\ connection = "open"
           /\ torn' = (torn \/ \E t \in Senders \ {s} : Partly(t))
           /\ \E n \in 1 .. Len(data[s]) :
                /\ wire' = wire \o SubSeq(data[s], 1, n)
                /\ data' = [data EXCEPT ![s] = SubSeq(@, n + 1, Len(@))]
                /\ sent' = IF n = Len(data[s]) /\ reader = "waiting" /\ ~ torn'
                           THEN sent \o writing[s] ELSE sent
  <2>1. PICK n \in 1 .. Len(data[s]) :
                /\ wire' = wire \o SubSeq(data[s], 1, n)
                /\ data' = [data EXCEPT ![s] = SubSeq(@, n + 1, Len(@))]
                /\ sent' = IF n = Len(data[s]) /\ reader = "waiting" /\ ~ torn'
                           THEN sent \o writing[s] ELSE sent
    BY <1>2
  <2>2. QED
    BY <1>1, <1>2, <2>1, WriteOpenKeeps
<1>3. CASE /\ connection # "open"
           /\ data' = [data EXCEPT ![s] = <<>>]
           /\ UNCHANGED <<wire, torn, sent>>
  <2>1. wire' \in Seq(Byte) /\ recv_buffer' \in Seq(Byte)
    BY <1>1, <1>3 DEF FramingInv, StreamTypes
  <2>2. Stream' = Stream
    BY <1>1, <1>3 DEF Stream
  <2>3. QED
    BY <1>1, <1>3, <2>1, <2>2, OthersKeep
<1>4. QED
  BY <1>2, <1>3 DEF Write

LEMMA MinOfTwo ==
  ASSUME NEW x \in Nat, NEW y \in Nat
  PROVE  Min({x, y}) = IF x <= y THEN x ELSE y
<1>1. Min({x, y}) = CHOOSE z \in {x, y} : \A w \in {x, y} : z <= w
  BY DEF Min
<1>2. QED
  BY <1>1

LEMMA CompleteIs ==
  ASSUME recv_buffer \in Seq(Byte)
  PROVE  Complete \in Nat
<1> DEFINE n == Len(recv_buffer)
           I == {i \in 1 .. n : recv_buffer[i] = Zero}
<1>1. n \in Nat /\ DOMAIN recv_buffer = 1 .. n
  OBVIOUS
<1>2. Complete = Cardinality(I)
  BY <1>1 DEF Complete
<1>3. IsFiniteSet(1 .. n)
  <2>1. 1 \in Int /\ n \in Int
    BY <1>1
  <2> HIDE DEF n
  <2>2. QED
    BY <2>1, FS_Interval
<1>4. I \subseteq 1 .. n
  OBVIOUS
<1> HIDE DEF I, n
<1>5. IsFiniteSet(I)
  BY <1>3, <1>4, FS_Subset
<1>6. QED
  BY <1>2, <1>5, FS_CardinalityType

\* As many messages are complete as there are zeros, if the buffer goes on
\* behind the frames.
LEMMA ZerosBeyond ==
  ASSUME NEW a \in Nat, NEW b \in Nat, a <= b, NEW l \in Nat, NEW n \in Nat, l <= n,
         NEW c, NEW st, NEW q, Framed(c, st, l, q, a, b)
  PROVE  /\ Cardinality({k \in 1 .. n : st[k] = Zero}) \in Nat
         /\ Cardinality({k \in 1 .. n : st[k] = Zero}) >= b - a
<1> DEFINE S == {k \in 1 .. l : st[k] = Zero}
           T == {k \in 1 .. n : st[k] = Zero}
<1>1. PICK e \in a .. b : Framed(c, st, l, q, a, e) /\ Cardinality(S) = e - a
  <2>1. l <= l
    OBVIOUS
  <2>2. Survive(c, st, l, q, a, b)
    BY <2>1, FramedCut
  <2>3. QED
    BY <2>2 DEF Survive
<1>2. e = b
  <2>1. ASSUME e # b
        PROVE  FALSE
    <3>1. b \in a + 1 .. b /\ b \in a .. b /\ e \in a .. b /\ e < b
      BY <2>1
    <3>2. st[c[b]] = Zero /\ c[b] <= l
      BY <3>1 DEF Framed
    <3>3. c[b] \in Nat /\ c[e] < c[b] /\ c[e] \in Nat
      <4>1. Cuts(c, q, a, b)
        BY DEF Framed
      <4>2. QED
        BY <3>1, <4>1, CutsInside DEF Cuts
    <3>4. c[b] \in 1 .. l
      BY <3>2, <3>3
    <3>5. PICK i \in a + 1 .. e : c[b] = c[i]
      BY <1>1, <3>2, <3>4 DEF Framed
    <3>6. i \in a .. b /\ i < b
      BY <1>1, <3>1
    <3>7. c[i] < c[b] /\ c[i] \in Nat
      BY <3>1, <3>6 DEF Framed, Cuts
    <3>8. QED
      BY <3>3, <3>5, <3>7
  <2>2. QED
    BY <2>1
<1>3. IsFiniteSet(T) /\ S \subseteq T
  <2>1. IsFiniteSet(1 .. n)
    <3>1. 1 \in Int /\ n \in Int
      OBVIOUS
    <3>2. QED
      BY <3>1, FS_Interval
  <2>2. T \subseteq 1 .. n
    OBVIOUS
  <2>3. IsFiniteSet(T)
    BY <2>1, <2>2, FS_Subset
  <2>4. QED
    BY <2>3
<1> HIDE DEF S, T
<1>4. Cardinality(S) <= Cardinality(T) /\ Cardinality(T) \in Nat
  BY <1>3, FS_Subset, FS_CardinalityType
<1>5. QED
  BY <1>1, <1>2, <1>4 DEF T

LEMMA ResetKeeps ==
  ASSUME FramingInv, Reset
  PROVE  /\ FramingInv'
         /\ \E e \in Len(received) .. Len(sent) : sent' = SubSeq(sent, 1, e)
<1> DEFINE a == Len(received)
           b == Len(sent)
           n == Len(recv_buffer)
           e == Min({b, a + Complete})
<1>1. StreamTypes /\ SendsBegan /\ Framing
  BY DEF FramingInv
<1>2. /\ connection' = "reset" /\ wire' = <<>>
      /\ sent' = SubSeq(sent, 1, e)
      /\ UNCHANGED <<data, writing, recv_buffer, reader, begun, torn, received>>
  BY DEF Reset
<1>3. /\ a \in Nat /\ b \in Nat /\ a <= b /\ n \in Nat
      /\ sent \in Seq(Messages) /\ recv_buffer \in Seq(Byte)
  BY <1>1 DEF StreamTypes
<1>4. Complete \in Nat
  BY <1>3, CompleteIs
<1>5. e \in a .. b /\ (a + Complete <= b => e = a + Complete) /\ (b <= a + Complete => e = b)
  <2>1. a + Complete \in Nat
    BY <1>3, <1>4
  <2>2. e = IF b <= a + Complete THEN b ELSE a + Complete
    BY <1>3, <2>1, MinOfTwo
  <2> HIDE DEF e, a, b
  <2>3. QED
    BY <1>3, <1>4, <2>2
<1> HIDE DEF e
<1>6. /\ sent' \in Seq(Messages) /\ Len(sent') = e
      /\ \A k \in 1 .. e : sent'[k] = sent[k]
  <2>1. e \in Nat /\ e <= b /\ b = Len(sent)
    BY <1>3, <1>5
  <2>2. QED
    BY <1>2, <1>3, <2>1, Begin
<1>7. StreamTypes'
  <2>1. a <= e
    BY <1>3, <1>5
  <2>2. QED
    BY <1>1, <1>2, <1>6, <2>1, EmptySeq DEF StreamTypes
<1>8. SendsBegan'
  <2>1. ASSUME reader = "waiting", NEW i \in DOMAIN sent'
        PROVE  Begun(sent'[i])
    <3>1. i \in 1 .. e /\ i \in 1 .. b
      BY <1>3, <1>5, <1>6, LenProperties
    <3>2. Begun(sent[i])
      BY <1>1, <1>3, <2>1, <3>1 DEF SendsBegan
    <3>3. QED
      BY <1>6, <3>1, <3>2
  <2>2. \A x : Begun(x)' = Begun(x)
    BY <1>2 DEF Begun
  <2>3. QED
    BY <1>1, <1>2, <2>1, <2>2 DEF SendsBegan
<1>9. Stream' = recv_buffer
  BY <1>2, <1>3, ConcatEmptySeq DEF Stream
<1>10. ASSUME reader = "waiting"
       PROVE  \E c, l : FramesTo(l, c, recv_buffer, n, sent', a, e, torn)
  <2> DEFINE L == Len(Stream)
  <2>1. PICK c, l : FramesTo(l, c, Stream, L, sent, a, b, torn)
    BY <1>1, <1>10 DEF Framing
  <2>2. /\ L \in Nat /\ n <= L
        /\ \A k \in 1 .. n : recv_buffer[k] = Stream[k]
    BY <1>1, StreamFacts
  <2>3. /\ l \in Nat /\ l <= L /\ Framed(c, Stream, l, sent, a, b)
        /\ l < L => torn /\ Broken(c[b], Stream, l)
    BY <2>1 DEF FramesTo
  <2>4. Complete = Cardinality({k \in 1 .. n : Stream[k] = Zero})
    <3>1. DOMAIN recv_buffer = 1 .. n
      BY <1>3
    <3>2. {i \in DOMAIN recv_buffer : recv_buffer[i] = Zero}
            = {k \in 1 .. n : Stream[k] = Zero}
      BY <2>2, <3>1
    <3>3. QED
      BY <3>2 DEF Complete
  <2> HIDE DEF a, b, n, L
  <2>5. CASE n <= l
    <3>1. PICK j \in a .. b :
            /\ Framed(c, Stream, n, sent, a, j)
            /\ Cardinality({k \in 1 .. n : Stream[k] = Zero}) = j - a
      <4>1. Survive(c, Stream, n, sent, a, b)
        BY <1>3, <2>3, <2>5, FramedCut
      <4>2. QED
        BY <4>1 DEF Survive
    <3>2. j = e
      BY <1>3, <1>5, <2>4, <3>1
    <3>3. \A i \in a + 1 .. j : i \in 1 .. e
      BY <1>3, <3>2
    <3>4. Framed(c, recv_buffer, n, sent', a, j)
      <4>1. /\ \A i \in a + 1 .. j : sent'[i] = sent[i]
            /\ a \in Nat /\ j \in Nat /\ a <= j /\ n \in Nat /\ n <= n
        BY <1>3, <1>6, <3>3
      <4>2. \A k \in n + 1 .. n : recv_buffer[k] # Zero
        BY <1>3
      <4>3. QED
        BY ONLY <2>2, <3>1, <4>1, <4>2, FramedGrows
    <3>5. FramesTo(n, c, recv_buffer, n, sent', a, e, torn)
      BY <1>3, <3>2, <3>4 DEF FramesTo
    <3>6. QED
      BY <3>5
  <2>6. CASE ~ (n <= l)
    <3>1. l <= n /\ l < n /\ l < L /\ l + 1 \in 1 .. n
      BY <1>3, <2>2, <2>3, <2>6
    <3>2. Complete >= b - a
      BY <1>3, <2>3, <2>4, <3>1, ZerosBeyond
    <3>3. e = b
      BY <1>3, <1>4, <1>5, <3>2
    <3>4. \A i \in a + 1 .. b : i \in 1 .. e
      BY <1>3, <3>3
    <3>5. \A k \in 1 .. l : k \in 1 .. n
      BY <1>3, <2>3, <3>1
    <3>6. Framed(c, recv_buffer, l, sent', a, b)
      <4>1. /\ \A i \in a + 1 .. b : sent'[i] = sent[i]
            /\ a \in Nat /\ b \in Nat /\ a <= b /\ l \in Nat /\ l <= l
        BY <1>3, <1>6, <2>3, <3>4
      <4>2. /\ \A k \in l + 1 .. l : recv_buffer[k] # Zero
            /\ \A k \in 1 .. l : recv_buffer[k] = Stream[k]
        BY <2>2, <2>3, <3>5
      <4>3. QED
        BY ONLY <2>3, <4>1, <4>2, FramedGrows
    <3>7. torn /\ Broken(c[b], recv_buffer, l)
      BY <2>2, <2>3, <3>1 DEF Broken
    <3>8. FramesTo(l, c, recv_buffer, n, sent', a, e, torn)
      BY <2>3, <3>1, <3>3, <3>6, <3>7 DEF FramesTo
    <3>9. QED
      BY <3>8
  <2>7. QED
    BY <2>5, <2>6
<1>11. Framing'
  <2>1. /\ reader' = reader /\ received' = received /\ connection' # "open"
        /\ torn' = torn /\ Stream' = recv_buffer /\ Len(sent') = e
    BY <1>2, <1>6, <1>9
  <2>2. QED
    BY ONLY <1>10, <2>1 DEF Framing
<1>12. QED
  BY <1>2, <1>5, <1>7, <1>8, <1>11 DEF FramingInv

\* What recv_message has not parsed is, byte for byte, the messages sent and not
\* received, each ended by its zero, and the beginning of one more, however the
\* bytes are cut and whichever threads write: to the end, or to where a thread
\* wrote into the message of another, and no message is read past that place.
THEOREM FramesAreMessages == StreamSpec => []FramingInv
<1>1. ASSUME FramingInv, [StreamNext]_streamVars
      PROVE  FramingInv'
  <2>1. ASSUME NEW s \in Senders, Write(s)
        PROVE  FramingInv'
    BY <1>1, <2>1, WriteKeeps
  <2>2. ASSUME NEW s \in Senders, NEW m \in Messages, Send(s, m)
        PROVE  FramingInv'
    BY <1>1, <2>2, SendKeeps
  <2>3. CASE Parse
    BY <1>1, <2>3, ParseKeeps
  <2>4. CASE ParseThrows
    BY <1>1, <2>4, ParseThrowsKeeps
  <2>5. CASE Receive
    BY <1>1, <2>5, ReceiveKeeps
  <2>6. CASE Close
    BY <1>1, <2>6, CloseKeeps
  <2>7. CASE Reset
    BY <1>1, <2>7, ResetKeeps
  <2>8. CASE UNCHANGED streamVars
    <3>1. recv_buffer' \in Seq(Byte) /\ wire' \in Seq(Byte)
      BY <1>1, <2>8 DEF streamVars, FramingInv, StreamTypes
    <3>2. Stream' = Stream
      BY <2>8 DEF streamVars, Stream
    <3>3. QED
      BY <1>1, <2>8, <3>1, <3>2, OthersKeep DEF streamVars
  <2>9. QED
    BY <1>1, <2>1, <2>2, <2>3, <2>4, <2>5, <2>6, <2>7, <2>8 DEF StreamNext, Reader
<1>2. QED
  BY <1>1, FramingInit, PTL DEF StreamSpec

-----------------------------------------------------------------------------
(***************************************************************************)
(* The channel.  Its queue is the messages sent and not received.          *)
(***************************************************************************)
Queue == SubSeq(sent, Len(received) + 1, Len(sent))
Faulty == connection = "reset" \/ torn \/ \E i \in DOMAIN begun : begun[i] \in Garbage

LEMMA LongerQueue ==
  ASSUME NEW S, NEW s \in Seq(S), NEW m \in S, NEW a \in Nat, a <= Len(s)
  PROVE  SubSeq(s \o <<m>>, a + 1, Len(s \o <<m>>)) = Append(SubSeq(s, a + 1, Len(s)), m)
<1> DEFINE b == Len(s)
           t == s \o <<m>>
           u == SubSeq(t, a + 1, b + 1)
           q == SubSeq(s, a + 1, b)
           w == Append(q, m)
<1>1. b \in Nat /\ a <= b /\ b <= b /\ b + 1 \in Nat /\ a <= b + 1 /\ b + 1 <= b + 1
  OBVIOUS
<1>2. <<m>> \in Seq(S) /\ Len(<<m>>) = 1 /\ <<m>>[1] = m /\ 1 \in 1 .. 1
  OBVIOUS
<1>3. /\ t \in Seq(S) /\ Len(t) = b + 1 /\ t[b + 1] = m
      /\ \A k \in 1 .. b : t[k] = s[k]
  <2>1. \A x, y : x = Len(s) /\ y = Len(<<m>>) =>
          /\ t \in Seq(S) /\ Len(t) = x + y
          /\ \A k \in 1 .. x : t[k] = s[k]
          /\ \A k \in 1 .. y : t[x + k] = <<m>>[k]
    BY ONLY s \in Seq(S), <1>2, Joined
  <2>2. QED
    BY <1>2, <2>1
<1>4. q \in Seq(S) /\ Len(q) = b - a /\ \A k \in 1 .. b - a : q[k] = s[a + k]
  BY <1>1, Part
<1>5. /\ u \in Seq(S) /\ Len(u) = (b + 1) - a
      /\ \A k \in 1 .. (b + 1) - a : u[k] = t[a + k]
  <2> HIDE DEF t
  <2>1. b + 1 = Len(t) /\ t \in Seq(S)
    BY <1>3
  <2>2. QED
    BY <1>1, <2>1, Part
<1>6. /\ w \in Seq(S) /\ Len(w) = (b - a) + 1
      /\ \A k \in 1 .. b - a : w[k] = q[k]
      /\ w[(b - a) + 1] = m
  <2> HIDE DEF q
  <2>1. /\ w \in Seq(S) /\ Len(w) = Len(q) + 1
        /\ \A k \in 1 .. Len(q) : w[k] = q[k]
        /\ w[Len(q) + 1] = m
    BY <1>4, AppendProperties
  <2>2. QED
    BY <1>4, <2>1
<1> HIDE DEF b, t, u, q, w
<1>7. Len(u) = Len(w)
  BY <1>1, <1>5, <1>6
<1>8. ASSUME NEW k \in 1 .. Len(u)
      PROVE  u[k] = w[k]
  <2>1. CASE k \in 1 .. b - a
    <3>1. k \in 1 .. (b + 1) - a /\ a + k \in 1 .. b
      BY <1>1, <2>1
    <3>2. QED
      BY <1>3, <1>4, <1>5, <1>6, <2>1, <3>1
  <2>2. CASE k = (b - a) + 1
    <3>1. k \in 1 .. (b + 1) - a /\ a + k = b + 1
      BY <1>1, <2>2
    <3>2. QED
      BY <1>3, <1>5, <1>6, <2>2, <3>1
  <2>3. QED
    BY <1>1, <1>5, <2>1, <2>2
<1>9. u = w
  BY <1>5, <1>6, <1>7, <1>8, SeqEqual
<1>10. QED
  BY <1>3, <1>9 DEF b, t, u, q, w

LEMMA ShorterQueue ==
  ASSUME NEW S, NEW s \in Seq(S), NEW a \in Nat, a + 1 <= Len(s)
  PROVE  LET q == SubSeq(s, a + 1, Len(s)) IN
           /\ q # <<>> /\ Head(q) = s[a + 1]
           /\ Tail(q) = SubSeq(s, (a + 1) + 1, Len(s))
<1> DEFINE b == Len(s)
           q == SubSeq(s, a + 1, b)
<1>1. b \in Nat /\ a + 1 \in 1 .. b /\ b \in a + 1 .. b /\ a <= b /\ b <= b
  OBVIOUS
<1>2. q \in Seq(S) /\ Len(q) = b - a
  BY <1>1, Part
<1>3. Head(q) = s[a + 1] /\ Tail(q) = SubSeq(s, (a + 1) + 1, b)
  BY <1>1, HeadTailOfSubSeq
<1>4. q # <<>>
  <2> HIDE DEF q
  <2>1. Len(q) # 0
    BY <1>1, <1>2
  <2>2. QED
    BY <2>1
<1>5. QED
  BY <1>3, <1>4

LEMMA CutQueue ==
  ASSUME NEW S, NEW s \in Seq(S), NEW a \in Nat, NEW e \in Nat, a <= e, e <= Len(s)
  PROVE  LET q == SubSeq(s, a + 1, Len(s))
             t == SubSeq(s, 1, e)
         IN  /\ e - a \in 0 .. Len(q)
             /\ SubSeq(t, a + 1, Len(t)) = SubSeq(q, 1, e - a)
<1> DEFINE b == Len(s)
           q == SubSeq(s, a + 1, b)
           t == SubSeq(s, 1, e)
           u == SubSeq(t, a + 1, e)
           w == SubSeq(q, 1, e - a)
<1>1. b \in Nat /\ a <= b /\ b <= b /\ e <= b /\ e <= e /\ e - a \in Nat
  OBVIOUS
<1>2. q \in Seq(S) /\ Len(q) = b - a /\ \A k \in 1 .. b - a : q[k] = s[a + k]
  BY <1>1, Part
<1>3. t \in Seq(S) /\ Len(t) = e /\ \A k \in 1 .. e : t[k] = s[k]
  BY <1>1, Begin
<1>4. u \in Seq(S) /\ Len(u) = e - a /\ \A k \in 1 .. e - a : u[k] = t[a + k]
  <2> HIDE DEF t
  <2>1. e = Len(t) /\ t \in Seq(S)
    BY <1>3
  <2>2. QED
    BY <1>1, <2>1, Part
<1>5. w \in Seq(S) /\ Len(w) = e - a /\ \A k \in 1 .. e - a : w[k] = q[k]
  <2> DEFINE l == Len(q)
             n == e - a
  <2> HIDE DEF q
  <2>1. n \in Nat /\ n <= l /\ q \in Seq(S)
    BY <1>1, <1>2
  <2> HIDE DEF n
  <2>2. /\ SubSeq(q, 1, n) \in Seq(S) /\ Len(SubSeq(q, 1, n)) = n
        /\ \A k \in 1 .. n : SubSeq(q, 1, n)[k] = q[k]
    BY <2>1, Begin
  <2>3. QED
    BY <2>2 DEF n
<1> HIDE DEF b, q, t, u, w
<1>6. ASSUME NEW k \in 1 .. Len(u)
      PROVE  u[k] = w[k]
  <2>1. k \in 1 .. e - a /\ k \in 1 .. b - a /\ a + k \in 1 .. e
    BY <1>1, <1>4
  <2>2. QED
    BY <1>2, <1>3, <1>4, <1>5, <2>1
<1>7. u = w
  BY <1>4, <1>5, <1>6, SeqEqual
<1>8. e - a \in 0 .. Len(q)
  BY <1>1, <1>2
<1>9. QED
  BY <1>3, <1>7, <1>8 DEF b, q, t, u, w

\* The actions of the channel, in the words of the stream.
ChannelSend == \E m \in Messages : Queue' = Append(Queue, m) /\ received' = received /\ (Faulty' <=> Faulty)
ChannelReceive ==
  /\ Queue # <<>> /\ received' = Append(received, Head(Queue)) /\ Queue' = Tail(Queue)
  /\ Faulty' <=> Faulty
ChannelFail ==
  /\ Faulty' /\ received' = received
  /\ \E n \in 0 .. Len(Queue) : Queue' = SubSeq(Queue, 1, n)
ChannelRests == Queue' = Queue /\ received' = received /\ (Faulty' <=> Faulty)

LEMMA SendIsChannel ==
  ASSUME FramingInv, NEW s \in Senders, NEW m \in Messages, Send(s, m)
  PROVE  ChannelFail \/ ChannelRests
<1>1. begun \in Seq(Messages) /\ sent \in Seq(Messages) /\ received \in Seq(Messages)
  BY DEF FramingInv, StreamTypes
<1>2. /\ begun' = Append(begun, m)
      /\ UNCHANGED <<connection, torn, sent, received>>
  BY DEF Send
<1>3. Queue' = Queue
  BY <1>2 DEF Queue
<1>4. /\ \A x : Begun(x) => Begun(x)'
      /\ \A x : Begun(x)' => Begun(x) \/ x = m
      /\ Begun(m)'
  <2> DEFINE n == Len(begun)
  <2>1. /\ Len(begun') = n + 1 /\ begun' \in Seq(Messages)
        /\ \A i \in 1 .. n : begun'[i] = begun[i]
        /\ begun'[n + 1] = m
    BY <1>1, <1>2, AppendProperties
  <2>2. DOMAIN begun' = 1 .. n + 1 /\ DOMAIN begun = 1 .. n /\ n \in Nat
    BY <1>1, <2>1, LenProperties
  <2> HIDE DEF n
  <2>3. \A i \in 1 .. n + 1 : i \in 1 .. n \/ i = n + 1
    BY <2>2
  <2>4. QED
    BY <1>1, <1>2, <2>1, <2>2, <2>3, BegunGrows DEF Begun
<1>5. Faulty <=> (connection = "reset" \/ torn \/ \E x \in Garbage : Begun(x))
  BY DEF Faulty, Begun
<1>6. Faulty' <=> (connection' = "reset" \/ torn' \/ \E x \in Garbage : Begun(x)')
  BY DEF Faulty, Begun
<1>7. CASE m \in Garbage
  <2>1. Faulty'
    BY <1>4, <1>6, <1>7
  <2>2. Len(Queue) \in 0 .. Len(Queue) /\ SubSeq(Queue, 1, Len(Queue)) = Queue
    <3>1. Queue \in Seq(Messages)
      BY <1>1 DEF Queue
    <3>2. QED
      BY <3>1
  <2>3. QED
    BY <1>2, <1>3, <2>1, <2>2 DEF ChannelFail
<1>8. CASE m \notin Garbage
  BY <1>2, <1>3, <1>4, <1>5, <1>6, <1>8 DEF ChannelRests
<1>9. QED
  BY <1>7, <1>8

LEMMA WriteIsChannel ==
  ASSUME FramingInv, NEW s \in Senders, Write(s)
  PROVE  ChannelSend \/ ChannelFail \/ ChannelRests
<1>1. /\ sent \in Seq(Messages) /\ received \in Seq(Messages)
      /\ Len(received) \in Nat /\ Len(received) <= Len(sent)
  BY DEF FramingInv, StreamTypes
<1>2. data[s] # <<>> /\ UNCHANGED <<writing, connection, begun, received>>
  BY DEF Write
<1>3. PICK m \in Messages : writing[s] = <<m>>
  BY <1>2 DEF FramingInv, SendsBegan
<1>4. /\ sent' = sent \/ sent' = sent \o <<m>>
      /\ torn => torn'
      /\ torn' # torn => torn' /\ sent' = sent
  <2>1. CASE UNCHANGED <<wire, torn, sent>>
    BY <2>1
  <2>2. CASE ~ UNCHANGED <<wire, torn, sent>>
    <3>1. /\ torn' = (torn \/ \E t \in Senders \ {s} : Partly(t))
          /\ sent' = sent \/ (~ torn' /\ sent' = sent \o writing[s])
      BY <2>2 DEF Write
    <3>2. torn \in BOOLEAN /\ torn' \in BOOLEAN
      BY <3>1 DEF FramingInv, StreamTypes
    <3>3. (torn => torn') /\ (torn' # torn => torn')
      BY <3>1, <3>2, Zenon
    <3>4. QED
      BY <1>3, <3>1, <3>3
  <2>3. QED
    BY <2>1, <2>2
<1>5. torn' = torn => (Faulty' <=> Faulty)
  BY <1>2 DEF Faulty
<1>6. CASE sent' = sent /\ torn' = torn
  BY <1>2, <1>5, <1>6 DEF ChannelRests, Queue
<1>7. CASE torn' # torn
  <2>1. Queue' = Queue /\ Faulty'
    BY <1>2, <1>4, <1>7 DEF Queue, Faulty
  <2>2. Len(Queue) \in 0 .. Len(Queue) /\ SubSeq(Queue, 1, Len(Queue)) = Queue
    <3>1. Queue \in Seq(Messages)
      BY <1>1 DEF Queue
    <3>2. QED
      BY <3>1
  <2>3. QED
    BY <1>2, <2>1, <2>2 DEF ChannelFail
<1>8. CASE sent' = sent \o <<m>> /\ torn' = torn
  <2> DEFINE a == Len(received)
  <2>1. a \in Nat /\ a <= Len(sent)
    BY <1>1
  <2> HIDE DEF a
  <2>2. SubSeq(sent \o <<m>>, a + 1, Len(sent \o <<m>>))
          = Append(SubSeq(sent, a + 1, Len(sent)), m)
    BY ONLY <1>1, <2>1, LongerQueue, m \in Messages
  <2>3. Queue' = SubSeq(sent \o <<m>>, a + 1, Len(sent \o <<m>>))
    BY <1>2, <1>8 DEF a, Queue
  <2>4. Queue = SubSeq(sent, a + 1, Len(sent))
    BY DEF a, Queue
  <2>5. Queue' = Append(Queue, m)
    BY <2>2, <2>3, <2>4
  <2>6. QED
    BY <1>2, <1>5, <1>8, <2>5 DEF ChannelSend
<1>9. QED
  BY <1>4, <1>6, <1>7, <1>8

LEMMA ParseIsChannel ==
  ASSUME FramingInv, Parse
  PROVE  ChannelReceive
<1> DEFINE a == Len(received)
           b == Len(sent)
<1>1. sent \in Seq(Messages) /\ received \in Seq(Messages) /\ a \in Nat /\ b \in Nat
  BY DEF FramingInv, StreamTypes
<1>2. /\ reader = "waiting" /\ HasZero
      /\ UNCHANGED <<connection, begun, torn, sent>>
  BY DEF Parse
<1>3. PICK m \in Messages : Text = Bytes(m) /\ received' = Append(received, m)
  BY DEF Parse
<1>4. a + 1 <= b /\ sent[a + 1] \in Messages /\ Text = Bytes(sent[a + 1])
  BY <1>2, <1>3, WhatIsParsed DEF NoMessage
<1>5. m = sent[a + 1]
  BY <1>3, <1>4, BytesDiffer
<1>6. Len(received') = a + 1
  BY <1>1, <1>3
<1>7. Faulty' <=> Faulty
  BY <1>2 DEF Faulty
<1>8. /\ Queue # <<>> /\ Head(Queue) = sent[a + 1]
      /\ Tail(Queue) = SubSeq(sent, (a + 1) + 1, Len(sent))
  <2>1. Queue = SubSeq(sent, a + 1, Len(sent))
    BY DEF Queue
  <2>2. a + 1 <= Len(sent)
    BY <1>4
  <2> HIDE DEF a
  <2>3. QED
    BY <1>1, <2>1, <2>2, ShorterQueue
<1>9. Queue' = SubSeq(sent, (a + 1) + 1, Len(sent))
  BY <1>2, <1>6 DEF Queue
<1>10. QED
  BY <1>3, <1>5, <1>7, <1>8, <1>9 DEF ChannelReceive

LEMMA ParseThrowsIsChannel ==
  ASSUME FramingInv, ParseThrows
  PROVE  ChannelFail
<1> DEFINE a == Len(received)
<1>1. received \in Seq(Messages) /\ sent \in Seq(Messages)
  BY DEF FramingInv, StreamTypes
<1>2. /\ reader = "waiting" /\ HasZero /\ sent' = received
      /\ \A m \in Messages \ Garbage : Text # Bytes(m)
      /\ UNCHANGED <<connection, begun, torn, received>>
  BY DEF ParseThrows
<1>3. \/ /\ sent[a + 1] \in Messages /\ Text = Bytes(sent[a + 1])
         /\ Begun(sent[a + 1])
      \/ torn
  BY <1>2, WhatIsParsed
<1>4. torn \/ sent[a + 1] \in Garbage
  BY <1>2, <1>3
<1>5. Faulty'
  BY <1>2, <1>3, <1>4 DEF Faulty, Begun
<1>6. Queue' = <<>>
  BY <1>1, <1>2 DEF Queue
<1>7. 0 \in 0 .. Len(Queue) /\ SubSeq(Queue, 1, 0) = <<>>
  <2>1. Queue \in Seq(Messages)
    BY <1>1 DEF Queue
  <2>2. QED
    BY <2>1
<1>8. QED
  BY <1>2, <1>5, <1>6, <1>7 DEF ChannelFail

LEMMA ResetIsChannel ==
  ASSUME FramingInv, Reset
  PROVE  ChannelFail
<1> DEFINE a == Len(received)
<1>1. /\ sent \in Seq(Messages) /\ received \in Seq(Messages) /\ a \in Nat
      /\ a <= Len(sent) /\ Len(sent) \in Nat
  BY DEF FramingInv, StreamTypes
<1>2. connection' = "reset" /\ received' = received
  BY DEF Reset
<1>3. PICK e \in a .. Len(sent) : sent' = SubSeq(sent, 1, e)
  BY ResetKeeps
<1>4. Faulty'
  BY <1>2 DEF Faulty
<1>5. e \in Nat /\ a <= e /\ e <= Len(sent)
  BY <1>1
<1>6. /\ e - a \in 0 .. Len(SubSeq(sent, a + 1, Len(sent)))
      /\ SubSeq(SubSeq(sent, 1, e), a + 1, Len(SubSeq(sent, 1, e)))
           = SubSeq(SubSeq(sent, a + 1, Len(sent)), 1, e - a)
  <2> HIDE DEF a
  <2>1. QED
    BY ONLY <1>1, <1>5, CutQueue
<1>7. Queue = SubSeq(sent, a + 1, Len(sent))
  BY DEF Queue
<1>8. Queue' = SubSeq(SubSeq(sent, 1, e), a + 1, Len(SubSeq(sent, 1, e)))
  BY <1>2, <1>3 DEF Queue
<1>9. QED
  <2> HIDE DEF a
  <2>1. QED
    BY <1>2, <1>4, <1>6, <1>7, <1>8 DEF ChannelFail

LEMMA StreamStepIsChannel ==
  ASSUME FramingInv, [StreamNext]_streamVars
  PROVE  ChannelSend \/ ChannelReceive \/ ChannelFail \/ ChannelRests
<1>1. ASSUME NEW s \in Senders, Write(s)
      PROVE  ChannelSend \/ ChannelFail \/ ChannelRests
  BY <1>1, WriteIsChannel
<1>2. ASSUME NEW s \in Senders, NEW m \in Messages, Send(s, m)
      PROVE  ChannelFail \/ ChannelRests
  BY <1>2, SendIsChannel
<1>3. CASE Parse
  BY <1>3, ParseIsChannel
<1>4. CASE ParseThrows
  BY <1>4, ParseThrowsIsChannel
<1>5. CASE Receive \/ UNCHANGED streamVars
  <2>1. UNCHANGED <<connection, begun, torn, sent, received>>
    BY <1>5 DEF Receive, streamVars
  <2>2. QED
    BY <2>1 DEF ChannelRests, Queue, Faulty
<1>6. CASE Close
  <2>1. /\ connection = "open" /\ connection' = "closed"
        /\ UNCHANGED <<begun, torn, sent, received>>
    BY <1>6 DEF Close
  <2>2. QED
    BY <2>1 DEF ChannelRests, Queue, Faulty
<1>7. CASE Reset
  BY <1>7, ResetIsChannel
<1>8. QED
  BY <1>1, <1>2, <1>3, <1>4, <1>5, <1>6, <1>7 DEF StreamNext, Reader

\* However the bytes are cut, in whatever order the threads' writes come, into
\* one another's messages too, and whatever is lost at a reset, the stream makes
\* only steps of the channel: a message is received once, in order and unchanged,
\* or lost with those after it at a fault (JsonStream::send, whose loop takes no
\* lock, and recv_message).  That each one arrives while nothing fails, the
\* channel's fairness, stays with TLC.
THEOREM StreamIsAChannel ==
  StreamSpec => Channel!Init /\ [][Channel!Next]_(Channel!vars)
<1>1. StreamInit => Channel!Init
  <2> SUFFICES ASSUME StreamInit PROVE Channel!Init
    OBVIOUS
  <2>1. sent = <<>> /\ received = <<>> /\ begun = <<>> /\ connection = "open" /\ torn = FALSE
    BY DEF StreamInit
  <2>2. SubSeq(sent, Len(received) + 1, Len(sent)) = <<>>
    BY <2>1
  <2>3. (connection = "reset" \/ torn \/ \E i \in DOMAIN begun : begun[i] \in Garbage) = FALSE
    BY <2>1
  <2>4. QED
    BY <2>1, <2>2, <2>3 DEF Channel!Init
<1>2. ASSUME FramingInv, [StreamNext]_streamVars
      PROVE  [Channel!Next]_(Channel!vars)
  <2>1. CASE ChannelSend
    BY <2>1 DEF ChannelSend, Queue, Faulty, Channel!Next, Channel!Send
  <2>2. CASE ChannelReceive
    BY <2>2 DEF ChannelReceive, Queue, Faulty, Channel!Next, Channel!Receive
  <2>3. CASE ChannelFail
    BY <2>3 DEF ChannelFail, Queue, Faulty, Channel!Next, Channel!Fail
  <2>4. CASE ChannelRests
    BY <2>4 DEF ChannelRests, Queue, Faulty, Channel!vars
  <2>5. QED
    BY <1>2, <2>1, <2>2, <2>3, <2>4, StreamStepIsChannel
<1>3. QED
  BY <1>1, <1>2, FramesAreMessages, PTL DEF StreamSpec

-----------------------------------------------------------------------------
(***************************************************************************)
(* The disassembler.  A reader goes on from where another was if it is not *)
(* before it and still in the bytecode; everything that reads goes on.     *)
(***************************************************************************)
Onward(r, start) == r \in Readers /\ start.at <= r.at /\ r.at <= Len(buffer)

LEMMA ReaderFields ==
  ASSUME NEW r \in Readers
  PROVE  /\ r.at \in Nat /\ r.bytes \in Seq(Nat) /\ r.jumps \in Seq(Nat)
         /\ r.base \in Seq(Nat) /\ r.chain \in Seq(Nat)
         /\ \A n \in Nat : LET q == [r EXCEPT !.at = n]
                           IN  q \in Readers /\ q.at = n
         /\ \A w \in Seq(Nat) : LET q == [r EXCEPT !.bytes = w]
                                IN  q \in Readers /\ q.at = r.at
         /\ \A w \in Seq(Nat) : LET q == [r EXCEPT !.jumps = w]
                                IN  q \in Readers /\ q.at = r.at
         /\ \A w \in Seq(Nat) : LET q == [r EXCEPT !.base = w]
                                IN  q \in Readers /\ q.at = r.at
         /\ \A w \in Seq(Nat) : LET q == [r EXCEPT !.chain = w]
                                IN  q \in Readers /\ q.at = r.at
BY DEF Readers

LEMMA ValueIs ==
  ASSUME buffer \in Seq(Nat), NEW r \in Readers
  PROVE  Value(r) \in Nat
<1>1. r.at \in Nat
  BY ReaderFields
<1>2. r.at < Len(buffer) => r.at + 1 \in 1 .. Len(buffer)
  BY <1>1
<1>3. QED
  BY <1>2 DEF Value, END

LEMMA TakeGoes ==
  ASSUME buffer \in Seq(Nat), NEW start, start.at \in Nat, NEW r, Onward(r, start)
  PROVE  /\ Onward(Take(r), start)
         /\ r.at < Len(buffer) => Take(r).at = r.at + 1
<1> DEFINE n == IF r.at < Len(buffer) THEN r.at + 1 ELSE r.at
           q == Take(r)
<1>1. r \in Readers /\ r.at \in Nat /\ Len(buffer) \in Nat /\ start.at <= r.at /\ r.at <= Len(buffer)
  BY ReaderFields DEF Onward
<1>2. n \in Nat /\ start.at <= n /\ n <= Len(buffer) /\ (r.at < Len(buffer) => n = r.at + 1)
  BY <1>1
<1>3. q = [r EXCEPT !.at = n]
  BY DEF Take
<1> HIDE DEF n, q
<1>4. q \in Readers /\ q.at = n
  BY <1>1, <1>2, <1>3, ReaderFields
<1>5. QED
  BY <1>2, <1>4 DEF Onward, q

LEMMA EatGoes ==
  ASSUME buffer \in Seq(Nat), NEW start, start.at \in Nat, NEW r, Onward(r, start)
  PROVE  /\ Onward(Eat(r), start)
         /\ r.at < Len(buffer) => Eat(r).at = r.at + 1
<1> DEFINE t == Take(r)
           w == Append(r.bytes, Value(r))
           q == Eat(r)
<1>1. Onward(t, start) /\ (r.at < Len(buffer) => t.at = r.at + 1)
  BY TakeGoes
<1>2. r \in Readers
  BY DEF Onward
<1>3. w \in Seq(Nat)
  BY <1>2, ValueIs, ReaderFields
<1>4. q = [t EXCEPT !.bytes = w]
  BY DEF Eat
<1> HIDE DEF t, w, q
<1>5. t \in Readers
  BY <1>1 DEF Onward
<1>6. q \in Readers /\ q.at = t.at
  BY <1>3, <1>4, <1>5, ReaderFields
<1>7. QED
  BY <1>1, <1>6 DEF Onward, q

LEMMA JumpsGo ==
  ASSUME buffer \in Seq(Nat), NEW start, start.at \in Nat, NEW r, Onward(r, start)
  PROVE  Onward(EatJump(r), start) /\ Onward(TakeJump(r), start)
<1> DEFINE e == Eat(r)
           t == Take(r)
           w == Append(r.jumps, Value(r) % 65536)
<1>1. Onward(e, start) /\ Onward(t, start)
  BY TakeGoes, EatGoes
<1>2. w \in Seq(Nat)
  <2>1. r \in Readers
    BY DEF Onward
  <2>2. Value(r) \in Nat /\ r.jumps \in Seq(Nat)
    BY <2>1, ValueIs, ReaderFields
  <2>3. Value(r) % 65536 \in Nat
    BY <2>2
  <2>4. QED
    BY <2>2, <2>3
<1>3. EatJump(r) = [e EXCEPT !.jumps = w] /\ TakeJump(r) = [t EXCEPT !.jumps = w]
  BY DEF EatJump, TakeJump
<1> HIDE DEF e, t, w
<1>4. /\ [e EXCEPT !.jumps = w] \in Readers /\ [e EXCEPT !.jumps = w].at = e.at
      /\ [t EXCEPT !.jumps = w] \in Readers /\ [t EXCEPT !.jumps = w].at = t.at
  BY <1>1, <1>2, ReaderFields DEF Onward
<1>5. QED
  BY <1>1, <1>3, <1>4 DEF Onward

LEMMA NameGoes ==
  ASSUME buffer \in Seq(Nat), NEW start, start.at \in Nat, NEW r, Onward(r, start)
  PROVE  Onward(Name(r), start)
<1> DEFINE e == Eat(r)
           w == Append(r.chain, Value(r))
<1>1. Onward(e, start)
  BY EatGoes
<1>2. w \in Seq(Nat)
  BY ValueIs, ReaderFields DEF Onward
<1>3. Name(r) = [e EXCEPT !.chain = w]
  BY DEF Name
<1> HIDE DEF e, w
<1>4. [e EXCEPT !.chain = w] \in Readers /\ [e EXCEPT !.chain = w].at = e.at
  BY <1>1, <1>2, ReaderFields DEF Onward
<1>5. QED
  BY <1>1, <1>3, <1>4 DEF Onward

\* What is repeated runs through the states one after the other.
RunOf(r, n, T, b, read) ==
  /\ r \in [0 .. n -> T]
  /\ r[0] = b
  /\ r[n] = Repeat(read, n, b)
  /\ \A i \in 1 .. n : r[i] = read[r[i - 1]]

Reads(read, T) == \A s \in T : read[s] \in T

LEMMA RepeatRuns ==
  ASSUME NEW T, NEW n \in Nat, NEW b \in T, NEW read, Reads(read, T)
  PROVE  \E r : RunOf(r, n, T, b, read)
<1> DEFINE q == [i \in 1 .. n |-> i]
           F == [k \in 1 .. n |-> [s \in T |-> read[s]]]
           Fold(h) == h = [z \in SUBSET (DOMAIN q) |->
                             IF z = {} THEN b ELSE read[h[z \ {Max(z)}]]]
           h == CHOOSE h : Fold(h)
<1>0. \A s \in T : read[s] \in T
  BY DEF Reads
<1>1. DOMAIN q = 1 .. n
  OBVIOUS
<1>2. \A k \in 1 .. n : \A s \in T : F[k][s] = read[s]
  OBVIOUS
<1>3. StepsOf(n, T, b, F)
  BY <1>0 DEF StepsOf
<1>4. Repeat(read, n, b) = h[DOMAIN q]
  BY DEF Repeat, FoldLeft, MapThenFoldSet
<1> HIDE DEF F, q
<1>5. \A z \in SUBSET (1 .. n) : z # {} => Max(z) \in z
  BY GreatestOf
<1>6. Fold(h)
  <2>1. PICK g \in [SUBSET (1 .. n) -> T] : FromLeft(g, n, b, F)
    BY ONLY <1>3, LeftFoldExists DEF LeftFolded
  <2>2. ASSUME NEW z \in SUBSET (1 .. n), z # {}
        PROVE  F[Max(z)][g[z \ {Max(z)}]] = read[g[z \ {Max(z)}]]
    <3>1. Max(z) \in 1 .. n /\ z \ {Max(z)} \in SUBSET (1 .. n)
      BY <1>5, <2>2
    <3>2. g[z \ {Max(z)}] \in T
      BY <2>1, <3>1
    <3>3. QED
      BY ONLY <1>2, <3>1, <3>2
  <2>3. Fold(g)
    BY <1>1, <2>1, <2>2 DEF FromLeft
  <2>4. QED
    BY <2>3
<1> HIDE DEF h
<1>7. FoldsLeft(h, n, T, b, F)
  <2>1. h[{}] = b
    BY <1>1, <1>6
  <2>2. \A z \in SUBSET (1 .. n) : z # {} => h[z] = read[h[z \ {Max(z)}]]
    BY <1>1, <1>6
  <2>3. QED
    BY <1>2, <1>5, <2>1, <2>2 DEF FoldsLeft
<1>8. PICK r : LeftRun(r, n, T, b, F) /\ r[n] = h[1 .. n]
  BY ONLY <1>3, <1>7, LeftRunIs DEF RunsLeft
<1>9. r \in [0 .. n -> T] /\ r[0] = b /\ \A i \in 1 .. n : r[i] = F[i][r[i - 1]]
  BY <1>8 DEF LeftRun
<1>10. \A i \in 1 .. n : r[i - 1] \in T
  BY <1>9
<1>11. \A i \in 1 .. n : r[i] = read[r[i - 1]]
  BY <1>2, <1>9, <1>10
<1>12. QED
  BY <1>1, <1>4, <1>8, <1>9, <1>11 DEF RunOf

LEMMA RepeatGoes ==
  ASSUME NEW start, NEW n \in Nat, NEW r, Onward(r, start), NEW read,
         \A q : Onward(q, start) => Onward(read[q], start)
  PROVE  Onward(Repeat(read, n, r), start)
<1> DEFINE T == {q \in Readers : Onward(q, start)}
<1>1. r \in T /\ \A q \in T : read[q] \in T
  BY DEF Onward
<1>2. \A q \in T : Onward(q, start)
  OBVIOUS
<1> HIDE DEF T
<1>3. r \in T /\ Reads(read, T)
  BY <1>1 DEF Reads
<1>4. PICK run : RunOf(run, n, T, r, read)
  BY <1>3, RepeatRuns
<1>5. run[n] \in T /\ run[n] = Repeat(read, n, r)
  BY <1>4 DEF RunOf
<1>6. QED
  BY <1>2, <1>5

LEMMA FollowGoes ==
  ASSUME buffer \in Seq(Nat), NEW start, start.at \in Nat, NEW r, Onward(r, start)
  PROVE  Onward(Follow[r], start)
<1>1. r \in Readers
  BY DEF Onward
<1>2. Onward(Eat(r), start)
  BY EatGoes
<1>3. Onward(Name(Eat(r)), start)
  BY <1>2, NameGoes
<1>4. Follow[r] = Name(Eat(r)) \/ Follow[r] = r
  BY <1>1 DEF Follow
<1>5. QED
  BY <1>3, <1>4

LEMMA FollowsGo ==
  ASSUME buffer \in Seq(Nat), NEW start, start.at \in Nat, NEW r, Onward(r, start)
  PROVE  Onward(disassemble_subvar_follows(r), start)
<1> DEFINE last == Repeat(Follow, Len(buffer) - r.at, r)
<1>1. Len(buffer) - r.at \in Nat
  BY ReaderFields DEF Onward
<1>2. \A q : Onward(q, start) => Onward(Follow[q], start)
  BY FollowGoes
<1>3. Onward(last, start)
  BY <1>1, <1>2, RepeatGoes
<1>4. Onward(Name(last), start)
  <2> HIDE DEF last
  <2> QED
    BY <1>3, NameGoes
<1>5. disassemble_subvar_follows(r) = last \/ disassemble_subvar_follows(r) = Name(last)
  BY DEF disassemble_subvar_follows
<1>6. QED
  BY <1>3, <1>4, <1>5

LEMMA WithBaseGoes ==
  ASSUME buffer \in Seq(Nat), NEW start, start.at \in Nat, NEW r, Onward(r, start)
  PROVE  Onward(WithBase(r), start)
<1> DEFINE mod == Value(r)
           base == Eat(r)
           more == Eat(base)
           number == Value(base)
           none == [base EXCEPT !.base = <<0, 0>>]
           plain == [base EXCEPT !.base = <<mod, 0>>]
           numbered == [more EXCEPT !.base = <<mod, number>>]
<1>1. Onward(base, start) /\ Onward(more, start)
  BY EatGoes
<1>2. mod \in Nat /\ number \in Nat
  BY <1>1, ValueIs DEF Onward
<1>3. WithBase(r) \in {none, disassemble_subvar_follows(plain),
                       disassemble_subvar_follows(numbered)}
  <2> HIDE DEF none, plain, numbered
  <2> QED
    BY DEF WithBase, none, plain, numbered
<1> HIDE DEF mod, base, more, number
<1>4. <<0, 0>> \in Seq(Nat) /\ <<mod, 0>> \in Seq(Nat) /\ <<mod, number>> \in Seq(Nat)
  BY <1>2
<1>5. base \in Readers /\ more \in Readers
  BY <1>1 DEF Onward
<1>6. /\ none \in Readers /\ none.at = base.at
      /\ plain \in Readers /\ plain.at = base.at
      /\ numbered \in Readers /\ numbered.at = more.at
  BY <1>4, <1>5, ReaderFields
<1> HIDE DEF none, plain, numbered
<1>7. Onward(none, start) /\ Onward(plain, start) /\ Onward(numbered, start)
  BY <1>1, <1>6 DEF Onward
<1>8. QED
  BY <1>3, <1>7, FollowsGo

LEMMA VarGoes ==
  ASSUME buffer \in Seq(Nat), NEW start, start.at \in Nat, NEW r, Onward(r, start)
  PROVE  Onward(disassemble_var(r), start)
<1>1. Onward(Eat(r), start)
  BY EatGoes
<1>2. Onward(Eat(Eat(r)), start) /\ Onward(WithBase(Eat(r)), start)
  BY <1>1, EatGoes, WithBaseGoes
<1>3. disassemble_var(r) \in {WithBase(Eat(r)), Eat(Eat(r)), r, Eat(r)}
  BY DEF disassemble_var, SUBVAR, INITIAL, Numbered, Procs
<1>4. QED
  BY <1>1, <1>2, <1>3

LEMMA ThreeGo ==
  ASSUME buffer \in Seq(Nat), NEW start, start.at \in Nat, NEW r, Onward(r, start)
  PROVE  /\ Onward(Eat(Eat(r)), start) /\ Onward(Eat(Eat(Eat(r))), start)
         /\ Onward(Take(Take(r)), start) /\ Onward(Take(Take(Take(r))), start)
<1>1. Onward(Eat(r), start) /\ Onward(Take(r), start)
  BY EatGoes, TakeGoes
<1>2. Onward(Eat(Eat(r)), start) /\ Onward(Take(Take(r)), start)
  BY <1>1, EatGoes, TakeGoes
<1>3. QED
  BY <1>2, EatGoes, TakeGoes

LEMMA CasesGo ==
  ASSUME buffer \in Seq(Nat), NEW start, start.at \in Nat, NEW r, Onward(r, start)
  PROVE  Onward(Case[r], start) /\ Onward(PickCase[r], start)
<1>1. r \in Readers
  BY DEF Onward
<1>2. Onward(Take(Take(Take(r))), start)
  BY ThreeGo
<1>3. Onward(TakeJump(Take(Take(Take(r)))), start)
  BY <1>2, JumpsGo
<1>4. Onward(TakeJump(Take(r)), start)
  BY TakeGoes, JumpsGo
<1>5. /\ Case[r] = TakeJump(Take(Take(Take(r)))) \/ Case[r] = Take(Take(Take(r)))
      /\ PickCase[r] = TakeJump(Take(r))
  BY <1>1 DEF Case, PickCase
<1>6. QED
  BY <1>2, <1>3, <1>4, <1>5

LEMMA SwitchesGo ==
  ASSUME buffer \in Seq(Nat), NEW start, start.at \in Nat, NEW r, Onward(r, start)
  PROVE  Onward(Switch(r), start) /\ Onward(PickSwitch(r), start)
<1>1. Value(r) \in Nat
  BY ValueIs DEF Onward
<1>2. Onward(Eat(r), start)
  BY EatGoes
<1>3. \A q : Onward(q, start) => Onward(Case[q], start)
  BY CasesGo
<1>4. \A q : Onward(q, start) => Onward(PickCase[q], start)
  BY CasesGo
<1>5. Onward(Repeat(Case, Value(r), Eat(r)), start)
  BY <1>1, <1>2, <1>3, RepeatGoes
<1>6. Onward(Repeat(PickCase, Value(r), Eat(r)), start)
  BY <1>1, <1>2, <1>4, RepeatGoes
<1>7. QED
  BY <1>5, <1>6, JumpsGo DEF Switch, PickSwitch

LEMMA OperandsGo ==
  ASSUME buffer \in Seq(Nat), NEW start, start.at \in Nat, NEW r, Onward(r, start), NEW op
  PROVE  Onward(Operands(op, r), start)
<1>1. Onward(Eat(r), start) /\ Onward(EatJump(r), start)
  BY EatGoes, JumpsGo
<1>2. Onward(Eat(Eat(r)), start) /\ Onward(Eat(Eat(Eat(r))), start)
  BY ThreeGo
<1>3. Onward(disassemble_var(r), start) /\ Onward(disassemble_var(Eat(r)), start)
  BY <1>1, VarGoes
<1>4. Onward(disassemble_proc(disassemble_var(r)), start)
  <2>1. Onward(Eat(Eat(Eat(disassemble_var(r)))), start)
    BY <1>3, ThreeGo
  <2>2. QED
    BY <1>3, <2>1 DEF disassemble_proc
<1>5. Onward(PushVal(r), start)
  BY <1>2 DEF PushVal
<1>6. Onward(Switch(r), start) /\ Onward(PickSwitch(r), start)
  BY SwitchesGo
<1>7. Operands(op, r) \in {Eat(r), Eat(Eat(r)), Eat(Eat(Eat(r))), EatJump(r),
                           disassemble_var(r), disassemble_var(Eat(r)),
                           disassemble_proc(disassemble_var(r)), PushVal(r),
                           Switch(r), PickSwitch(r), r}
  BY DEF Operands
<1>8. QED
  BY <1>1, <1>2, <1>3, <1>4, <1>5, <1>6, <1>7

-----------------------------------------------------------------------------
(***************************************************************************)
(* The bisection of next_from_offset, over instructions in the order of    *)
(* their offsets: it never loses the instruction it looks for, and what is *)
(* left shrinks until nothing is.                                          *)
(***************************************************************************)
InOrder ==
  /\ \A i \in 1 .. Len(instructions) : instructions[i].offset \in Nat
  /\ \A i, j \in 1 .. Len(instructions) :
        i < j => instructions[i].offset < instructions[j].offset

Around(k, p) == /\ 1 <= p[1] /\ p[1] <= k /\ k <= p[1] + p[2]
                /\ p[1] + p[2] <= Len(instructions) + 1

LEMMA HalfOf ==
  ASSUME NEW m \in Nat
  PROVE  m \div 2 \in Nat /\ (m # 0 => m \div 2 < m)
OBVIOUS

LEMMA HalvesKeep ==
  ASSUME InOrder, Len(instructions) \in Nat, NEW k \in 1 .. Len(instructions),
         NEW p \in Nat \X Nat, Around(k, p)
  PROVE  LET q == Halved(instructions[k].offset)[p]
         IN  /\ q \in Nat \X Nat /\ Around(k, q)
             /\ q[2] <= p[2] - 1 \/ (p[2] = 0 /\ q = p)
<1> DEFINE first == p[1]
           count == p[2]
           step == count \div 2
           offset == instructions[k].offset
           q == Halved(offset)[p]
<1>1. first \in Nat /\ count \in Nat
  OBVIOUS
<1>2. q = IF count = 0 THEN p
          ELSE IF instructions[first + step].offset < offset
               THEN <<first + step + 1, count - step - 1>>
               ELSE <<first, step>>
  BY DEF Halved
<1>3. step \in Nat /\ (count # 0 => step < count)
  BY <1>1, HalfOf
<1>4. /\ 1 <= first /\ first <= k /\ k <= first + count
      /\ first + count <= Len(instructions) + 1
  BY DEF Around
<1> HIDE DEF first, count, step, q
<1>5. CASE count = 0
  BY <1>2, <1>5 DEF count, q
<1>6. CASE count # 0 /\ instructions[first + step].offset < offset
  <2>1. first + step \in 1 .. Len(instructions)
    BY <1>1, <1>3, <1>4, <1>6
  <2>2. first + step < k
    <3>1. ~ (k < first + step)
      <4>1. SUFFICES ASSUME k < first + step
                     PROVE  FALSE
        OBVIOUS
      <4>2. offset < instructions[first + step].offset
        BY <2>1, <4>1 DEF InOrder
      <4>3. offset \in Nat /\ instructions[first + step].offset \in Nat
        BY <2>1 DEF InOrder
      <4>4. QED
        BY <1>6, <4>2, <4>3
    <3>2. k # first + step
      <4>1. offset \in Nat
        BY DEF InOrder
      <4>2. QED
        BY <1>6, <4>1
    <3>3. QED
      BY <1>1, <1>3, <3>1, <3>2
  <2>3. q = <<first + step + 1, count - step - 1>>
    BY <1>2, <1>6
  <2>4. first + step + 1 \in Nat /\ count - step - 1 \in Nat /\ count - step - 1 <= count - 1
    BY <1>1, <1>3, <1>6
  <2>5. q \in Nat \X Nat /\ q[1] = first + step + 1 /\ q[2] = count - step - 1
    BY <2>3, <2>4
  <2>6. Around(k, q)
    BY <1>1, <1>3, <1>4, <2>2, <2>5 DEF Around
  <2>7. QED
    BY <2>4, <2>5, <2>6 DEF q, count
<1>7. CASE count # 0 /\ ~ (instructions[first + step].offset < offset)
  <2>1. first + step \in 1 .. Len(instructions)
    BY <1>1, <1>3, <1>4, <1>7
  <2>2. k <= first + step
    <3>1. ~ (first + step < k)
      BY <1>7, <2>1 DEF InOrder
    <3>2. QED
      BY <1>1, <1>3, <3>1
  <2>3. q = <<first, step>>
    BY <1>2, <1>7
  <2>4. q \in Nat \X Nat /\ q[1] = first /\ q[2] = step
    BY <1>1, <1>3, <2>3
  <2>5. Around(k, q)
    BY <1>1, <1>3, <1>4, <1>7, <2>2, <2>4 DEF Around
  <2>6. step <= count - 1
    BY <1>1, <1>3, <1>7
  <2>7. QED
    BY <2>4, <2>5, <2>6 DEF q, count
<1>8. QED
  BY <1>5, <1>6, <1>7

LEMMA BisectionFinds ==
  ASSUME InOrder, Len(instructions) \in Nat, NEW k \in 1 .. Len(instructions)
  PROVE  local_lower_bound(instructions[k].offset) = k
<1> DEFINE n == Len(instructions)
           offset == instructions[k].offset
           T == {p \in Nat \X Nat : Around(k, p)}
           b == <<1, n>>
           read == Halved(offset)
<1>1. b \in T
  BY DEF Around
<1>2. \A p \in T : read[p] \in T
  BY HalvesKeep
<1>3. \A p \in T : /\ p \in Nat \X Nat /\ Around(k, p)
                   /\ read[p][2] <= p[2] - 1 \/ (p[2] = 0 /\ read[p] = p)
  BY HalvesKeep
<1>4. n \in Nat
  OBVIOUS
<1> HIDE DEF T, read
<1>5. PICK run : /\ run \in [0 .. n -> T] /\ run[0] = b
                 /\ run[n] = Repeat(read, n, b)
                 /\ \A i \in 1 .. n : run[i] = read[run[i - 1]]
  <2> HIDE DEF n, b
  <2>1. Reads(read, T)
    BY <1>2 DEF Reads
  <2>2. \E run : RunOf(run, n, T, b, read)
    BY <1>1, <1>4, <2>1, RepeatRuns
  <2>3. QED
    BY <2>2 DEF RunOf
<1> DEFINE S == {i \in 0 .. n : run[i][2] <= n - i}
<1>6. 0 \in S
  BY <1>4, <1>5
<1>7. ASSUME NEW i \in 1 .. n, i - 1 \in S
      PROVE  i \in S
  <2>1. run[i - 1] \in T /\ run[i] = read[run[i - 1]] /\ run[i - 1][2] <= n - (i - 1)
    BY <1>4, <1>5, <1>7
  <2>2. /\ run[i - 1][2] \in Nat
        /\ run[i][2] <= run[i - 1][2] - 1 \/ (run[i - 1][2] = 0 /\ run[i] = run[i - 1])
    BY <1>3, <2>1
  <2>3. run[i] \in T
    BY <1>5
  <2>4. run[i][2] \in Nat
    BY <1>3, <2>3
  <2>5. run[i][2] <= n - i
    BY <1>4, <2>1, <2>2, <2>4
  <2>6. QED
    BY <2>5
<1>8. n \in S
  <2> HIDE DEF S
  <2>1. \A i \in 1 .. n : i - 1 \in S => i \in S
    BY <1>7
  <2>2. \A i \in 0 .. n : i \in S
    BY <1>4, <1>6, <2>1, Climbs
  <2>3. QED
    BY <1>4, <2>2
<1>9. run[n] \in T
  BY <1>4, <1>5
<1>10. run[n] \in Nat \X Nat /\ Around(k, run[n]) /\ run[n][2] <= 0
  BY <1>3, <1>4, <1>8, <1>9
<1>11. run[n][1] = k
  BY <1>10 DEF Around
<1>12. QED
  BY <1>5, <1>11 DEF local_lower_bound, read

-----------------------------------------------------------------------------
(***************************************************************************)
(* The instructions found so far are in the order of their offsets, all    *)
(* of them in the part that is read; each round reads at least one word.   *)
(***************************************************************************)
Found == [offset : Nat, bytes : Seq(Nat), jumps : Seq(Nat), base : Seq(Nat),
          chain : Seq(Nat)]

(* Any words at all, as many as an offset of 16 bits can tell apart.       *)
Bytecode == buffer \in Seq(Nat) /\ Len(buffer) <= 65536

CodeInv ==
  /\ Bytecode
  /\ current_offset \in Nat /\ current_offset <= Len(buffer)
  /\ instructions \in Seq(Found)
  /\ InOrder
  /\ \A i \in 1 .. Len(instructions) : instructions[i].offset < current_offset

LEMMA RoundKeeps ==
  ASSUME CodeInv, disassemble_next
  PROVE  CodeInv'
<1> DEFINE e == Eat(Fresh)
           r == Operands(Value(Fresh), e)
           new == [offset |-> current_offset, bytes |-> r.bytes, jumps |-> r.jumps,
                   base |-> r.base, chain |-> r.chain]
<1>1. /\ buffer \in Seq(Nat) /\ Len(buffer) \in Nat /\ Len(buffer) <= 65536
      /\ current_offset \in Nat /\ current_offset < Len(buffer)
      /\ instructions \in Seq(Found)
  BY DEF CodeInv, Bytecode, disassemble_next
<1>0. CASE UNCHANGED <<buffer, instructions, current_offset>>
  BY <1>0 DEF CodeInv, Bytecode, InOrder
<1>2. ASSUME ~ UNCHANGED <<buffer, instructions, current_offset>>
      PROVE  /\ buffer' = buffer /\ current_offset' = r.at
             /\ instructions' = Append(instructions, new)
  BY <1>2 DEF disassemble_next
<1> SUFFICES ASSUME ~ UNCHANGED <<buffer, instructions, current_offset>>
             PROVE  CodeInv'
  BY <1>0
<1>3. Fresh \in Readers /\ Fresh.at = current_offset
  BY <1>1 DEF Fresh, Readers
<1>4. Onward(Fresh, Fresh)
  BY <1>1, <1>3 DEF Onward
<1>5. Onward(e, Fresh) /\ e.at = current_offset + 1
  <2>1. buffer \in Seq(Nat) /\ Fresh.at \in Nat /\ Fresh.at < Len(buffer)
    BY <1>1, <1>3
  <2>2. /\ Onward(Eat(Fresh), Fresh)
        /\ Fresh.at < Len(buffer) => Eat(Fresh).at = Fresh.at + 1
    BY ONLY <1>4, <2>1, EatGoes
  <2>3. QED
    BY <1>3, <2>1, <2>2
<1>6. e \in Readers /\ e.at \in Nat /\ e.at <= Len(buffer)
  BY <1>1, <1>5 DEF Onward
<1> HIDE DEF e
<1>7. Onward(e, e)
  BY <1>6 DEF Onward
<1>8. Onward(r, e)
  BY <1>1, <1>6, <1>7, OperandsGo
<1>9. /\ r \in Readers /\ r.at \in Nat /\ current_offset + 1 <= r.at /\ r.at <= Len(buffer)
  BY <1>5, <1>8, ReaderFields DEF Onward
<1> HIDE DEF r
<1>10. new \in Found /\ new.offset = current_offset
  BY <1>1, <1>9, ReaderFields DEF Found
<1> HIDE DEF new
<1>11. instructions' \in Seq(Found) /\ Len(instructions') = Len(instructions) + 1
  <2>1. instructions \in Seq(Found) /\ new \in Found
    BY <1>1, <1>10
  <2>2. instructions' = Append(instructions, new)
    BY <1>2
  <2>3. QED
    BY ONLY <2>1, <2>2
<1>12. /\ Len(instructions) \in Nat
       /\ \A i \in 1 .. Len(instructions) : instructions'[i] = instructions[i]
       /\ instructions'[Len(instructions) + 1] = new
  BY <1>1, <1>2
<1>13. \A i \in 1 .. Len(instructions) : /\ instructions[i].offset \in Nat
                                          /\ instructions[i].offset < current_offset
  BY DEF CodeInv, InOrder
<1>14. ASSUME NEW i \in 1 .. Len(instructions')
       PROVE  instructions'[i].offset \in Nat /\ instructions'[i].offset <= current_offset
  <2>1. CASE i \in 1 .. Len(instructions)
    <3>1. instructions'[i] = instructions[i]
      BY <1>12, <2>1
    <3>2. instructions[i].offset \in Nat /\ instructions[i].offset < current_offset
      BY <1>13, <2>1
    <3>3. current_offset \in Nat
      BY <1>1
    <3>4. QED
      BY ONLY <3>1, <3>2, <3>3
  <2>2. CASE i = Len(instructions) + 1
    BY <1>1, <1>10, <1>12, <2>2
  <2>3. QED
    BY <1>11, <1>12, <2>1, <2>2
<1>15. ASSUME NEW i \in 1 .. Len(instructions'), NEW j \in 1 .. Len(instructions'), i < j
       PROVE  instructions'[i].offset < instructions'[j].offset
  <2>1. i \in 1 .. Len(instructions)
    BY <1>11, <1>12, <1>15
  <2>2. CASE j \in 1 .. Len(instructions)
    BY <1>12, <1>15, <2>1, <2>2 DEF CodeInv, InOrder
  <2>3. CASE j = Len(instructions) + 1
    BY <1>10, <1>12, <1>13, <2>1, <2>3
  <2>4. QED
    BY <1>11, <1>12, <2>2, <2>3
<1>16. InOrder'
  BY <1>14, <1>15 DEF InOrder
<1>17. \A i \in 1 .. Len(instructions') : instructions'[i].offset < current_offset'
  <2>1. current_offset \in Nat /\ current_offset' \in Nat /\ current_offset < current_offset'
    BY <1>1, <1>2, <1>9
  <2>2. QED
    BY ONLY <1>14, <2>1
<1>18. QED
  BY <1>1, <1>2, <1>9, <1>11, <1>16, <1>17 DEF CodeInv, Bytecode

LEMMA SafeWhileRead == CodeInv => ShortCodeIsSafe
<1> SUFFICES ASSUME CodeInv
             PROVE  ShortCodeIsSafe
  OBVIOUS
<1>1. /\ Len(buffer) \in Nat /\ Len(buffer) <= 65536 /\ current_offset <= Len(buffer)
      /\ current_offset \in Nat /\ instructions \in Seq(Found) /\ InOrder
  BY DEF CodeInv, Bytecode
<1>2. Len(instructions) \in Nat /\ DOMAIN instructions = 1 .. Len(instructions)
  BY <1>1
<1>3. ASSUME NEW i \in 1 .. Len(instructions)
      PROVE  next_from_offset(instructions[i].offset) =
               IF i < Len(instructions) THEN i + 1 ELSE 0
  <2>1. instructions[i].offset \in Nat /\ instructions[i].offset < current_offset
    BY DEF CodeInv, InOrder
  <2>2. instructions[i].offset % 65536 = instructions[i].offset
    BY <1>1, <2>1
  <2>3. local_lower_bound(instructions[i].offset % 65536) = i
    BY <1>1, <1>2, <2>2, BisectionFinds
  <2>4. QED
    BY <1>2, <2>3 DEF next_from_offset
<1>4. QED
  BY <1>1, <1>2, <1>3 DEF ShortCodeIsSafe

(* Whatever the words of a bytecode are, written by a compiler or not, cut *)
(* short or not: while it is disassembled, to its end or to a name that    *)
(* does not exist, the reader never leaves it, and next_from_offset leads  *)
(* from each instruction found to the one after it, for any bytecode whose *)
(* offsets fit the 16 bits that function takes.                            *)
THEOREM AnyCodeIsSafe ==
  Bytecode /\ Start /\ [][disassemble_next]_codeVars => []ShortCodeIsSafe
<1>1. Bytecode /\ Start => CodeInv
  <2> SUFFICES ASSUME Bytecode, Start
               PROVE  CodeInv
    OBVIOUS
  <2>1. current_offset = 0 /\ instructions = <<>> /\ Len(buffer) \in Nat
    BY DEF Start, Bytecode
  <2>2. Len(instructions) = 0 /\ instructions \in Seq(Found)
    BY <2>1
  <2>3. QED
    BY <2>1, <2>2 DEF CodeInv, InOrder
<1>2. CodeInv /\ [disassemble_next]_codeVars => CodeInv'
  <2>1. CodeInv /\ UNCHANGED codeVars => CodeInv'
    BY DEF CodeInv, codeVars, Bytecode, InOrder
  <2>2. QED
    BY <2>1, RoundKeeps
<1>3. QED
  BY <1>1, <1>2, SafeWhileRead, PTL

===============================================================================
