-------------------------- MODULE DebugServerProofs --------------------------
(***************************************************************************)
(* Proofs about DebugServer for every set of procs, offsets, code, frame   *)
(* ids and client.                                                         *)
(***************************************************************************)
EXTENDS DebugServer, SequenceTheorems, TLAPS

\* The places of the main thread where a frame is running.
InFrame == MainPlaces \ {"configuring", "idle"}

\* Locals hold an instruction of their own site, or the breakpoint opcode.
OwnLocals ==
  /\ net_op \in {Code[net_site], DEBUG_BREAKPOINT} \/ net = "idle"
  /\ bp.op \in {Code[bp.site], DEBUG_BREAKPOINT}
  /\ net = "unset_code" => net_op = Code[net_site]

FrameRuns == main \in InFrame => stack # <<>>

SleepersHaveFrames == \A st \in asleep : st # <<>>

TypeInv == TypeOK /\ OwnInstructions /\ OwnLocals /\ FrameRuns /\ SleepersHaveFrames

-----------------------------------------------------------------------------
LEMMA LastIndex ==
  ASSUME NEW S, NEW st \in Seq(S), st # <<>>
  PROVE  Len(st) \in 1..Len(st)
<1>1. Len(st) \in Nat
  OBVIOUS
<1>2. Len(st) # 0
  OBVIOUS
<1>3. QED
  BY <1>1, <1>2

LEMMA TopIsFrame ==
  ASSUME stack \in Seq(Frame), stack # <<>>
  PROVE  Top \in Frame /\ Here \in Sites
<1>1. Len(stack) \in 1..Len(stack)
  BY LastIndex
<1>2. Top \in Frame
  BY <1>1 DEF Top
<1>3. QED
  BY <1>2 DEF Here, Frame, Sites

LEMMA AdvancedIsStack ==
  ASSUME stack \in Seq(Frame), stack # <<>>, NEW o \in Offsets
  PROVE  Advanced(o) \in Seq(Frame) /\ Advanced(o) # <<>>
<1>1. Len(stack) \in 1..Len(stack)
  BY LastIndex
<1>2. [stack[Len(stack)] EXCEPT !.pc = o] \in Frame
  BY TopIsFrame DEF Top, Frame
<1>3. QED
  BY <1>1, <1>2 DEF Advanced

LEMMA PoppedIsStack ==
  ASSUME stack \in Seq(Frame), stack # <<>>
  PROVE  Popped \in Seq(Frame)
<1>1. Len(stack) \in 1..Len(stack)
  BY LastIndex
<1>2. QED
  BY <1>1 DEF Popped

-----------------------------------------------------------------------------
LEMMA TypeInvInit == Init => TypeInv
<1> SUFFICES ASSUME Init PROVE TypeInv
  OBVIOUS
<1>1. Code \in [Sites -> Opcodes]
  BY CodeAssumption DEF Opcodes
<1>2. net_site \in Sites
  BY ClientAssumption DEF Init
<1>3. <<>> \in Seq(Frame)
  OBVIOUS
<1>4. Blocking \in BOOLEAN
  BY ClientAssumption
<1>5. breakpoints \in [Sites -> Opcodes \cup {Unset}]
  BY DEF Init
<1>6. bp \in Breakpoint
  BY <1>2 DEF Init, Breakpoint, Opcodes
<1>7. TypeOK
  BY <1>1, <1>2, <1>3, <1>4, <1>5, <1>6 DEF Init, TypeOK, Opcodes, Instructions, Breakpoint, StepModes,
     NetPlaces, MainPlaces, Reasons, StepFrom, NoStep, DEBUG_BREAKPOINT
<1>8. OwnInstructions
  BY DEF Init, OwnInstructions
<1>9. OwnLocals /\ FrameRuns /\ SleepersHaveFrames
  BY DEF Init, OwnLocals, FrameRuns, SleepersHaveFrames, InFrame
<1>10. QED
  BY <1>7, <1>8, <1>9 DEF TypeInv

LEMMA HandlerKeepsTypeInv ==
  ASSUME TypeInv, Handler
  PROVE  TypeInv'
<1> USE DEF bpVars, overVars, netVars, stopVars, vmVars, histVars, TypeInv,
        OwnInstructions, OwnLocals, FrameRuns, SleepersHaveFrames
<1>1. CASE SetCode
  BY <1>1 DEF SetCode, TypeOK, NetPlaces, Opcodes, DEBUG_BREAKPOINT, Unset
<1>2. CASE SetMap
  BY <1>2 DEF SetMap, TypeOK, NetPlaces, Opcodes, DEBUG_BREAKPOINT, Unset
<1>3. CASE RemoveCode
  BY <1>3 DEF RemoveCode, TypeOK, NetPlaces, Opcodes, DEBUG_BREAKPOINT, Unset
<1>4. CASE RemoveErase
  BY <1>4 DEF RemoveErase, TypeOK, NetPlaces, Opcodes, DEBUG_BREAKPOINT, Unset
<1>5. CASE RemoveForget
  BY <1>5 DEF RemoveForget, TypeOK, NetPlaces, Opcodes, DEBUG_BREAKPOINT, Unset
<1>6. QED
  BY <1>1, <1>2, <1>3, <1>4, <1>5 DEF Handler

LEMMA ClientKeepsTypeInv ==
  ASSUME TypeInv, Client
  PROVE  TypeInv'
<1> USE DEF bpVars, overVars, netVars, stopVars, vmVars, histVars, TypeInv,
        OwnInstructions, OwnLocals, FrameRuns, SleepersHaveFrames
<1>1. ASSUME NEW s \in ClientSites, SetBreakpoint(s)
      PROVE  TypeInv'
  BY <1>1, ClientAssumption
     DEF SetBreakpoint, TypeOK, NetPlaces, Opcodes, DEBUG_BREAKPOINT
<1>2. ASSUME NEW s \in ClientSites, RemoveBreakpoint(s)
      PROVE  TypeInv'
  BY <1>2, ClientAssumption
     DEF RemoveBreakpoint, TypeOK, NetPlaces, Opcodes, DEBUG_BREAKPOINT, Unset
<1>3. ASSUME NEW a \in Commands, Command(a)
      PROVE  TypeInv'
  BY <1>3 DEF Command, TypeOK, MainPlaces, InFrame
<1>4. CASE Pause
  BY <1>4 DEF Pause, TypeOK, StepModes
<1>5. CASE ToggleBreakOnRuntime
  BY <1>5 DEF ToggleBreakOnRuntime, TypeOK
<1>6. CASE ConfigurationDone
  BY <1>6 DEF ConfigurationDone, TypeOK, MainPlaces, InFrame
<1>7. CASE Disconnect
  BY <1>7 DEF Disconnect, TypeOK, MainPlaces, InFrame
<1>8. QED
  BY <1>1, <1>2, <1>3, <1>4, <1>5, <1>6, <1>7 DEF Client

LEMMA ControlStepKeepsTypeInv ==
  ASSUME TypeInv, stack # <<>>,
         UNCHANGED <<bpVars, break_on_runtimes, loop, netVars, bp, vmVars>>,
         main' \in InFrame, next_action' \in Commands \cup {"WAIT"},
         step_mode' \in StepModes, over_seq' \in FrameIds \cup {NoFrame},
         over_parent_seq' \in FrameIds \cup {NoFrame},
         taken' \in Commands \cup {"WAIT"}, reason' \in Reasons,
         progress' \in BOOLEAN, step_from' \in StepFrom
  PROVE  TypeInv'
  BY DEF TypeInv, TypeOK, OwnInstructions, OwnLocals, FrameRuns,
     SleepersHaveFrames, InFrame, bpVars, netVars, vmVars

LEMMA HookKeepsTypeInv ==
  ASSUME TypeInv, Hook
  PROVE  TypeInv'
<1> USE DEF bpVars, overVars, netVars, stopVars, vmVars, histVars, NetUnchanged,
        TypeInv, OwnInstructions, OwnLocals, FrameRuns, SleepersHaveFrames,
        InFrame
<1>1. CASE HookRestore
  BY <1>1 DEF HookRestore, TypeOK, MainPlaces
<1>2. CASE Restore
  BY <1>2 DEF Restore, TypeOK, MainPlaces
<1>3. CASE RestoreSwap
  BY <1>3 DEF RestoreSwap, TypeOK, MainPlaces, Opcodes, DEBUG_BREAKPOINT, Breakpoint
<1>4. CASE ModeNone
  BY <1>4 DEF ModeNone, TypeOK, MainPlaces
<1>5. CASE ModePause
  <2>1. /\ stack # <<>>
        /\ main' \in {"fetch", "wait"}
        /\ reason' \in Reasons
        /\ UNCHANGED <<bpVars, next_action, break_on_runtimes, loop, netVars,
                       bp, taken, vmVars, histVars>>
    BY <1>5 DEF ModePause, Stop, TypeOK, Reasons, MainPlaces
  <2>2. /\ step_mode' \in StepModes
        /\ over_seq' \in FrameIds \cup {NoFrame}
        /\ over_parent_seq' \in FrameIds \cup {NoFrame}
    BY <1>5 DEF ModePause, TypeOK, StepModes
  <2>3. QED
    BY <2>1, <2>2, ControlStepKeepsTypeInv DEF TypeOK, MainPlaces
<1>6. CASE ModeInto
  <2>1. /\ stack # <<>>
        /\ main' \in {"fetch", "wait"}
        /\ reason' \in Reasons
        /\ UNCHANGED <<bpVars, next_action, break_on_runtimes, loop, netVars,
                       bp, taken, vmVars, histVars>>
    BY <1>6 DEF ModeInto, Stop, TypeOK, Reasons, MainPlaces
  <2>2. /\ step_mode' \in StepModes
        /\ over_seq' \in FrameIds \cup {NoFrame}
        /\ over_parent_seq' \in FrameIds \cup {NoFrame}
    BY <1>6 DEF ModeInto, TypeOK, StepModes
  <2>3. QED
    BY <2>1, <2>2, ControlStepKeepsTypeInv DEF TypeOK, MainPlaces
<1>7. CASE ModeOver
  <2>1. /\ stack # <<>>
        /\ main' \in {"fetch", "wait"}
        /\ reason' \in Reasons
        /\ UNCHANGED <<bpVars, next_action, break_on_runtimes, loop, netVars,
                       bp, taken, vmVars, histVars>>
    BY <1>7 DEF ModeOver, Stop, TypeOK, Reasons, MainPlaces
  <2>2. /\ step_mode' \in StepModes
        /\ over_seq' \in FrameIds \cup {NoFrame}
        /\ over_parent_seq' \in FrameIds \cup {NoFrame}
    BY <1>7 DEF ModeOver, TypeOK, StepModes
  <2>3. QED
    BY <2>1, <2>2, ControlStepKeepsTypeInv DEF TypeOK, MainPlaces
<1>8. CASE ModePreOver
  BY <1>8 DEF ModePreOver, TypeOK, MainPlaces
<1>9. CASE ToOver
  BY <1>9 DEF ToOver, TypeOK, MainPlaces, StepModes
<1>10. QED
  BY <1>1, <1>2, <1>3, <1>4, <1>5, <1>6, <1>7, <1>8, <1>9 DEF Hook

LEMMA BreakKeepsTypeInv ==
  ASSUME TypeInv, Break \/ SpuriousWakeup
  PROVE  TypeInv'
<1> USE DEF bpVars, overVars, netVars, stopVars, vmVars, histVars, NetUnchanged,
        TypeInv, OwnInstructions, OwnLocals, FrameRuns, SleepersHaveFrames,
        InFrame
<1>0. stack # <<>> => Here \in Sites /\ Top \in Frame
  BY TopIsFrame DEF TypeOK
<1>1. CASE FetchBreakpoint
  BY <1>1 DEF FetchBreakpoint, TypeOK, MainPlaces
<1>2. CASE BreakpointGet
  BY <1>0, <1>2 DEF BreakpointGet, TypeOK, MainPlaces, Breakpoint, Opcodes, Unset, DEBUG_BREAKPOINT
<1>3. CASE BreakpointSwap
  BY <1>3 DEF BreakpointSwap, TypeOK, MainPlaces, Breakpoint, Opcodes, DEBUG_BREAKPOINT
<1>4. CASE BreakpointKeep
  <2>1. \E b \in Breakpoint : breakpoint_to_restore' = {b}
    BY <1>4 DEF BreakpointKeep, TypeOK
  <2>2. OwnInstructions'
    BY <1>4 DEF BreakpointKeep
  <2>3. stack # <<>>
    BY <1>4 DEF BreakpointKeep, MainPlaces
  <2>4. QED
    <3>1. main' = "wait" /\ reason' = "breakpoint opcode"
      BY <1>4 DEF BreakpointKeep
    <3>2. UNCHANGED <<bytecode, breakpoints, next_action, step_mode, overVars,
                      break_on_runtimes, loop, netVars, bp, taken, vmVars,
                      histVars>>
      BY <1>4 DEF BreakpointKeep
    <3>3. "wait" \in MainPlaces /\ "breakpoint opcode" \in Reasons
      BY DEF MainPlaces, Reasons
    <3>4. TypeOK'
      BY <2>1, <3>1, <3>2, <3>3 DEF TypeOK
    <3>5. QED
      BY <2>2, <2>3, <3>1, <3>2, <3>4
<1>5. CASE WaitForAction
  BY <1>5 DEF WaitForAction, TypeOK, MainPlaces
<1>6. CASE SpuriousWakeup
  BY <1>6 DEF SpuriousWakeup, TypeOK, MainPlaces
<1>7. CASE BreakReturns
  <2>1. stack # <<>>
    BY <1>7 DEF BreakReturns, MainPlaces
  <2>2. Len(stack) \in 1..Len(stack) /\ Top.seq \in FrameIds
    BY <1>0, <2>1, LastIndex DEF TypeOK, Frame
  <2>3. ASSUME NEW n \in 1..Len(stack)
        PROVE  stack[n].seq \in FrameIds /\ Parent(n) \in FrameIds \cup {NoFrame}
    <3>1. \A m \in 1..Len(stack) : stack[m].seq \in FrameIds
      <4>1. \A m \in 1..Len(stack) : stack[m] \in Frame
        BY ElementOfSeq DEF TypeOK
      <4>2. QED
        BY <4>1 DEF Frame
    <3>2. n > 1 => n - 1 \in 1..Len(stack)
      BY <2>2, <2>3
    <3>3. QED
      BY <3>1, <3>2, <2>3 DEF Parent
  <2>4. Len(stack) > 1 => Len(stack) - 1 \in 1..Len(stack)
    BY <2>2
  <2> DEFINE SteppingTyped == /\ step_mode' \in StepModes
                              /\ over_seq' \in FrameIds \cup {NoFrame}
                              /\ over_parent_seq' \in FrameIds \cup {NoFrame}
                              /\ step_from' \in StepFrom
  <2>5. SteppingTyped
    <3>1. ASSUME NEW n \in 1..Len(stack), NEW kind \in {"over", "out"},
                 StepOver(n, kind)
          PROVE  SteppingTyped
      BY <2>2, <2>3, <3>1 DEF StepOver, StepModes, StepFrom
    <3>2. ASSUME NEW m \in {"INTO", "NONE"}, SetMode(m)
          PROVE  SteppingTyped
      BY <3>2 DEF SetMode, StepModes, StepFrom, NoStep, TypeOK
    <3> HIDE DEF SteppingTyped
    <3>3. QED
      BY <1>7, <2>2, <2>4, <3>1, <3>2 DEF BreakReturns, OnBreak
  <2>6. QED
    BY <1>7, <2>1, <2>5 DEF BreakReturns, TypeOK, MainPlaces
<1>8. CASE RuntimeReturns
  <2>1. stack # <<>>
    BY <1>8 DEF RuntimeReturns, MainPlaces
  <2>2. Popped \in Seq(Frame)
    BY <2>1, PoppedIsStack DEF TypeOK
  <2>3. QED
    BY <1>8, <2>2 DEF RuntimeReturns, Resumes, TypeOK, MainPlaces
<1>9. QED
  BY <1>1, <1>2, <1>3, <1>4, <1>5, <1>6, <1>7, <1>8 DEF Break

LEMMA VMKeepsTypeInv ==
  ASSUME TypeInv, Execute \/ RuntimeError \/ StartProc \/ WakeProc
  PROVE  TypeInv'
<1> USE DEF bpVars, overVars, netVars, stopVars, vmVars, histVars, NetUnchanged,
        TypeInv, OwnInstructions, OwnLocals, FrameRuns, SleepersHaveFrames,
        InFrame
<1>1. ASSUME NEW st \in Seq(Frame), Resumes(st), NetUnchanged,
             UNCHANGED <<bpVars, next_action, step_mode, overVars, bp, taken,
                         step_from>>,
             reason' \in Reasons, asleep' \subseteq Seq(Frame),
             \A s \in asleep' : s # <<>>
      PROVE  TypeInv'
  BY <1>1 DEF Resumes, TypeOK, MainPlaces
<1>2. CASE Execute
  <2>1. stack # <<>> /\ stack \in Seq(Frame)
    BY <1>2 DEF Execute, TypeOK, MainPlaces
  <2>2. Here \in Sites /\ Top \in Frame
    BY <2>1, TopIsFrame
  <2>3. bytecode[Here] # DEBUG_BREAKPOINT => bytecode[Here] = Code[Here]
    BY <2>2
  <2>4. bytecode[Here] \in {"LINENO", "OP", "CALL", "SLEEP"} => Next_pc \in Offsets
    BY <2>2, <2>3, CodeAssumption DEF Next_pc, Here, Frame, DEBUG_BREAKPOINT
  <2>5. \A o \in Offsets : Advanced(o) \in Seq(Frame) /\ Advanced(o) # <<>>
    BY <2>1, AdvancedIsStack
  <2>6. Popped \in Seq(Frame)
    BY <2>1, PoppedIsStack
  <2>7. reason' \in Reasons /\ NetUnchanged
        /\ UNCHANGED <<bpVars, next_action, step_mode, overVars, bp, taken, step_from>>
    BY <1>2 DEF Execute, TypeOK
  <2>8. CASE bytecode[Here] \in {"LINENO", "OP", "CALL"} /\ Resumes(Advanced(Next_pc))
             /\ UNCHANGED asleep
    BY <1>1, <2>4, <2>5, <2>7, <2>8 DEF TypeOK
  <2>9. ASSUME NEW o \in Offsets, Resumes(Advanced(o)), UNCHANGED asleep
        PROVE  TypeInv'
    BY <1>1, <2>5, <2>7, <2>9 DEF TypeOK
  <2>10. ASSUME NEW q \in Procs, NEW f \in FreshIds, bytecode[Here] = "CALL",
                Resumes(Append(Advanced(Next_pc), [proc |-> q, pc |-> 0, seq |-> f])),
                UNCHANGED asleep
         PROVE  TypeInv'
    <3>1. [proc |-> q, pc |-> 0, seq |-> f] \in Frame
      BY CodeAssumption DEF Frame, FreshIds
    <3>2. Append(Advanced(Next_pc), [proc |-> q, pc |-> 0, seq |-> f]) \in Seq(Frame)
      BY <2>4, <2>5, <2>10, <3>1
    <3>3. QED
      BY <1>1, <2>7, <2>10, <3>2 DEF TypeOK
  <2>11. CASE Resumes(Popped) /\ UNCHANGED asleep
    BY <1>1, <2>6, <2>7, <2>11 DEF TypeOK
  <2>12. CASE /\ bytecode[Here] = "SLEEP"
              /\ asleep' = asleep \cup {Advanced(Next_pc)}
              /\ Resumes(<<>>)
    <3>1. <<>> \in Seq(Frame)
      OBVIOUS
    <3>2. asleep' \subseteq Seq(Frame) /\ \A s \in asleep' : s # <<>>
      BY <2>4, <2>5, <2>12 DEF TypeOK
    <3>3. QED
      BY <1>1, <2>7, <2>12, <3>1, <3>2
  <2>13. QED
    BY <1>2, <2>8, <2>9, <2>10, <2>11, <2>12 DEF Execute
<1>3. CASE RuntimeError
  <2>1. stack # <<>> /\ stack \in Seq(Frame)
    BY <1>3 DEF RuntimeError, TypeOK, MainPlaces
  <2>2. Popped \in Seq(Frame)
    BY <2>1, PoppedIsStack
  <2>3. CASE break_on_runtimes
    <3>1. main' = "wait" /\ reason' = "runtime"
      BY <1>3, <2>3 DEF RuntimeError
    <3>2. UNCHANGED <<bpVars, next_action, step_mode, overVars, bp, taken,
                      break_on_runtimes, loop, netVars, vmVars, histVars>>
      BY <1>3, <2>3 DEF RuntimeError
    <3>3. "wait" \in MainPlaces /\ "runtime" \in Reasons
      BY DEF MainPlaces, Reasons
    <3>4. TypeOK'
      BY <3>1, <3>2, <3>3 DEF TypeOK
    <3>5. QED
      BY <2>1, <3>1, <3>2, <3>4
  <2>4. CASE ~break_on_runtimes
    BY <1>1, <1>3, <2>2, <2>4 DEF RuntimeError, TypeOK
  <2>5. QED
    BY <2>3, <2>4
<1>4. CASE StartProc
  <2>1. PICK q \in Procs, f \in FreshIds :
          stack' = <<[proc |-> q, pc |-> 0, seq |-> f]>>
    BY <1>4 DEF StartProc
  <2>2. [proc |-> q, pc |-> 0, seq |-> f] \in Frame
    BY CodeAssumption DEF Frame, FreshIds
  <2>3. stack' \in Seq(Frame) /\ stack' # <<>>
    BY <2>1, <2>2
  <2>4. QED
    BY <1>4, <2>3 DEF StartProc, TypeOK, MainPlaces
<1>5. CASE WakeProc
  <2>1. PICK st \in asleep : stack' = st /\ asleep' = asleep \ {st}
    BY <1>5 DEF WakeProc
  <2>2. stack' \in Seq(Frame) /\ stack' # <<>>
    BY <2>1 DEF TypeOK
  <2>3. QED
    BY <1>5, <2>1, <2>2 DEF WakeProc, TypeOK, MainPlaces
<1>6. QED
  BY <1>2, <1>3, <1>4, <1>5

(* In every state of every behaviour each variable has its type, and every   *)
(* site holds, and has saved, its own instruction or the breakpoint opcode.  *)
THEOREM TypeInvariance == Spec => []TypeInv
<1>1. TypeInv /\ [Next]_vars => TypeInv'
  <2> SUFFICES ASSUME TypeInv, [Next]_vars
               PROVE  TypeInv'
    OBVIOUS
  <2>1. CASE Next
    BY <2>1, ClientKeepsTypeInv, HandlerKeepsTypeInv, HookKeepsTypeInv,
       BreakKeepsTypeInv, VMKeepsTypeInv DEF Next, Main
  <2>2. CASE UNCHANGED vars
    BY <2>2 DEF vars, bpVars, overVars, netVars, stopVars, vmVars, histVars,
       TypeInv, TypeOK, OwnInstructions, OwnLocals, FrameRuns,
       SleepersHaveFrames
  <2>3. QED
    BY <2>1, <2>2
<1>2. QED
  BY <1>1, TypeInvInit, PTL DEF Spec

-----------------------------------------------------------------------------
(***************************************************************************)
(* The patient client.  The message handler only runs while the main       *)
(* thread is stopped, so each thread finds the other between two           *)
(* statements: the handler's half-done states need no clause about main,   *)
(* and the main thread's half-done states none about the handler.          *)
(***************************************************************************)
HandlerHalfway ==
  /\ net # "idle" => Stopped
  /\ net \in {"set_code", "set_map"} =>
       net_op = Code[net_site] /\ breakpoints[net_site] = Unset
  /\ net = "unset_map" => bytecode[net_site] # DEBUG_BREAKPOINT
  /\ net = "unset_restore" => breakpoints[net_site] = Unset

\* Only a breakpoint of the map is ever waiting to be put back, except while
\* remove_breakpoint has erased it and not yet forgotten the restore.
RestoreIsKnown ==
  \A b \in breakpoint_to_restore :
    /\ b.op = DEBUG_BREAKPOINT
    /\ breakpoints[b.site] # Unset \/ (net = "unset_restore" /\ net_site = b.site)

MainHalfway ==
  /\ main \in {"restore_swap", "bp_keep"} =>
       bp.op = DEBUG_BREAKPOINT /\ breakpoints[bp.site] # Unset
  /\ main = "bp_get" =>
       bytecode[Here] = DEBUG_BREAKPOINT /\ breakpoints[Here] # Unset
  /\ main = "bp_swap" =>
       /\ bytecode[bp.site] = DEBUG_BREAKPOINT
       /\ breakpoints[bp.site] # Unset
       /\ bp.op = Code[bp.site]

PatientInv ==
  /\ OriginalsKept
  /\ NoStrayOpcode
  /\ HitsAreKnown
  /\ HandlerHalfway
  /\ RestoreIsKnown
  /\ MainHalfway

LEMMA NotPatchMarks == \A s \in Sites : Code[s] # DEBUG_BREAKPOINT /\ Code[s] # Unset
  BY CodeAssumption DEF Instructions, DEBUG_BREAKPOINT, Unset

LEMMA PatientInit == Init => PatientInv
  BY CodeAssumption, NotPatchMarks, ClientAssumption
     DEF Init, PatientInv, OriginalsKept, NoStrayOpcode, HitsAreKnown,
         HandlerHalfway, RestoreIsKnown, MainHalfway

LEMMA HandlerKeepsPatientInv ==
  ASSUME TypeInv, PatientInv, Handler
  PROVE  PatientInv'
<1> USE NotPatchMarks
    DEF bpVars, overVars, netVars, stopVars, vmVars, histVars, PatientInv,
        OriginalsKept, NoStrayOpcode, HitsAreKnown, HandlerHalfway,
        RestoreIsKnown, MainHalfway, Stopped, TypeInv, TypeOK, Breakpoint, Here, Top
<1>1. CASE SetCode
  BY <1>1 DEF SetCode
<1>2. CASE SetMap
  BY <1>2 DEF SetMap
<1>3. CASE RemoveCode
  BY <1>3 DEF RemoveCode, OwnLocals
<1>4. CASE RemoveErase
  BY <1>4 DEF RemoveErase
<1>5. CASE RemoveForget
  BY <1>5 DEF RemoveForget
<1>6. QED
  BY <1>1, <1>2, <1>3, <1>4, <1>5 DEF Handler

LEMMA ClientKeepsPatientInv ==
  ASSUME Patient = TRUE, TypeInv, PatientInv, Client
  PROVE  PatientInv'
<1> USE NotPatchMarks
    DEF bpVars, overVars, netVars, stopVars, vmVars, histVars, PatientInv,
        OriginalsKept, NoStrayOpcode, HitsAreKnown, HandlerHalfway,
        RestoreIsKnown, MainHalfway, Stopped, Edits, Receives, Here, Top
<1>1. ASSUME NEW s \in ClientSites, SetBreakpoint(s)
      PROVE  PatientInv'
  BY <1>1, ClientAssumption DEF SetBreakpoint
<1>2. ASSUME NEW s \in ClientSites, RemoveBreakpoint(s)
      PROVE  PatientInv'
  BY <1>2, ClientAssumption DEF RemoveBreakpoint
<1>3. ASSUME NEW a \in Commands, Command(a)
      PROVE  PatientInv'
  BY <1>3 DEF Command
<1>4. CASE Pause
  BY <1>4 DEF Pause
<1>5. CASE ToggleBreakOnRuntime
  BY <1>5 DEF ToggleBreakOnRuntime
<1>6. CASE ConfigurationDone
  BY <1>6 DEF ConfigurationDone
<1>7. CASE Disconnect
  BY <1>7 DEF Disconnect
<1>8. QED
  BY <1>1, <1>2, <1>3, <1>4, <1>5, <1>6, <1>7 DEF Client

\* Steps of the main thread that leave the patched bytecode alone.
LEMMA UnpatchedStepKeepsPatientInv ==
  ASSUME PatientInv, UNCHANGED <<bpVars, netVars>>, net # "idle" => Stopped',
         main' \notin {"restore_swap", "bp_get", "bp_swap", "bp_keep", "undefined"}
  PROVE  PatientInv'
  BY DEF bpVars, netVars, PatientInv, OriginalsKept, NoStrayOpcode, HitsAreKnown,
         HandlerHalfway, RestoreIsKnown, MainHalfway, Stopped

LEMMA MainKeepsPatientInv ==
  ASSUME TypeInv, PatientInv, Main
  PROVE  PatientInv'
<1> USE DEF bpVars, overVars, netVars, stopVars, vmVars, histVars, NetUnchanged
<1>0. /\ net # "idle" => Stopped
      /\ stack # <<>> => Here \in Sites
  BY TopIsFrame DEF PatientInv, HandlerHalfway, TypeInv, TypeOK
<1>1. CASE HookRestore \/ ModeNone \/ ModePause \/ ModeInto \/ ModeOver
           \/ ModePreOver \/ ToOver
  BY <1>0, <1>1, UnpatchedStepKeepsPatientInv
     DEF HookRestore, ModeNone, ModePause, ModeInto, ModeOver, ModePreOver,
         ToOver, Stop, Stopped
<1>2. CASE Restore
  BY <1>0, <1>2 DEF Restore, PatientInv, OriginalsKept, NoStrayOpcode,
     HitsAreKnown, HandlerHalfway, RestoreIsKnown, MainHalfway, Stopped
<1>3. CASE RestoreSwap
  BY <1>0, <1>3, NotPatchMarks DEF RestoreSwap, PatientInv, OriginalsKept,
     NoStrayOpcode, HitsAreKnown, HandlerHalfway, RestoreIsKnown, MainHalfway,
     Stopped, TypeInv, TypeOK, Breakpoint
<1>4. CASE FetchBreakpoint
  <2>1. net = "idle" /\ stack # <<>>
    BY <1>0, <1>4 DEF FetchBreakpoint, Stopped, TypeInv, FrameRuns, InFrame,
       MainPlaces
  <2>2. breakpoints[Here] # Unset
    BY <1>0, <1>4, <2>1 DEF FetchBreakpoint, PatientInv, NoStrayOpcode
  <2>3. QED
    BY <1>0, <1>4, <2>1, <2>2 DEF FetchBreakpoint, PatientInv, OriginalsKept,
       NoStrayOpcode, HitsAreKnown, HandlerHalfway, RestoreIsKnown, MainHalfway,
       Stopped, Here, Top
<1>5. CASE BreakpointGet
  <2>1. net = "idle" /\ stack # <<>>
    BY <1>0, <1>5 DEF BreakpointGet, Stopped, TypeInv, FrameRuns, InFrame,
       MainPlaces
  <2>2. breakpoints[Here] = Code[Here] /\ breakpoints[Here] # Unset
    BY <1>0, <1>5, <2>1 DEF BreakpointGet, PatientInv, OriginalsKept, MainHalfway
  <2>3. QED
    BY <1>0, <1>5, <2>1, <2>2 DEF BreakpointGet, PatientInv, OriginalsKept,
       NoStrayOpcode, HitsAreKnown, HandlerHalfway, RestoreIsKnown, MainHalfway,
       Stopped
<1>6. CASE BreakpointSwap
  BY <1>0, <1>6, NotPatchMarks DEF BreakpointSwap, PatientInv, OriginalsKept,
     NoStrayOpcode, HitsAreKnown, HandlerHalfway, RestoreIsKnown, MainHalfway,
     Stopped, TypeInv, TypeOK, Breakpoint
<1>7. CASE BreakpointKeep
  BY <1>0, <1>7 DEF BreakpointKeep, PatientInv, OriginalsKept,
     NoStrayOpcode, HitsAreKnown, HandlerHalfway, RestoreIsKnown, MainHalfway,
     Stopped
<1>8. CASE WaitForAction \/ SpuriousWakeup
  BY <1>0, <1>8, UnpatchedStepKeepsPatientInv
     DEF WaitForAction, SpuriousWakeup, Stopped
<1>9. CASE BreakReturns \/ RuntimeReturns
  BY <1>0, <1>9, UnpatchedStepKeepsPatientInv
     DEF BreakReturns, RuntimeReturns, Resumes, Stopped
<1>10. CASE Execute \/ RuntimeError \/ StartProc \/ WakeProc
  BY <1>0, <1>10, UnpatchedStepKeepsPatientInv
     DEF Execute, RuntimeError, StartProc, WakeProc, Resumes, Stopped
<1>11. QED
  BY <1>1, <1>2, <1>3, <1>4, <1>5, <1>6, <1>7, <1>8, <1>9, <1>10
     DEF Main, Hook, Break

LEMMA PatientInvariance ==
  ASSUME Patient = TRUE
  PROVE  Spec => []PatientInv
<1>1. TypeInv /\ PatientInv /\ [Next]_vars => PatientInv'
  <2> SUFFICES ASSUME TypeInv, PatientInv, [Next]_vars
               PROVE  PatientInv'
    OBVIOUS
  <2>1. CASE Next
    BY <2>1, HandlerKeepsPatientInv, ClientKeepsPatientInv, MainKeepsPatientInv
       DEF Next
  <2>2. CASE UNCHANGED vars
    BY <2>2 DEF vars, bpVars, netVars, vmVars, stopVars, PatientInv,
       OriginalsKept, NoStrayOpcode, HitsAreKnown, HandlerHalfway,
       RestoreIsKnown, MainHalfway, Stopped, Here, Top
  <2>3. QED
    BY <2>1, <2>2
<1>2. QED
  BY <1>1, PatientInit, TypeInvariance, PTL DEF Spec

(* With a client that edits breakpoints only while the program is stopped,   *)
(* set_, remove_, restore_ and on_breakpoint never lose a compiled           *)
(* instruction, for any code and any number of breakpoints.                  *)
THEOREM OriginalsAreKept ==
  ASSUME Patient = TRUE
  PROVE  Spec => []OriginalsKept
<1>1. PatientInv => OriginalsKept
  BY DEF PatientInv
<1>2. QED
  BY <1>1, PatientInvariance, PTL

(* With such a client no breakpoint opcode outlives its map entry, whatever  *)
(* the order of hits, restores, sets and unsets.                             *)
THEOREM NoStrayOpcodeEver ==
  ASSUME Patient = TRUE
  PROVE  Spec => []NoStrayOpcode
<1>1. PatientInv => NoStrayOpcode
  BY DEF PatientInv
<1>2. QED
  BY <1>1, PatientInvariance, PTL

(* With such a client on_breakpoint always finds the breakpoint it was       *)
(* called for, so its unchecked optional is never empty.                     *)
THEOREM EveryHitIsKnown ==
  ASSUME Patient = TRUE
  PROVE  Spec => []HitsAreKnown
<1>1. PatientInv => HitsAreKnown
  BY DEF PatientInv
<1>2. QED
  BY <1>1, PatientInvariance, PTL

-----------------------------------------------------------------------------
(* Every variable keeps its type, for any client.                            *)
THEOREM TypeCorrect == Spec => []TypeOK
<1>1. TypeInv => TypeOK
  BY DEF TypeInv
<1>2. QED
  BY <1>1, TypeInvariance, PTL

(* Whatever the client and the races, no site ever holds or has saved an     *)
(* instruction of another site.                                              *)
THEOREM InstructionsStayHome == Spec => []OwnInstructions
<1>1. TypeInv => OwnInstructions
  BY DEF TypeInv
<1>2. QED
  BY <1>1, TypeInvariance, PTL

LEMMA WakeupStep == BlockedMeansNoAction /\ [Next]_vars => BlockedMeansNoAction'
<1> SUFFICES ASSUME BlockedMeansNoAction, [Next]_vars
             PROVE  BlockedMeansNoAction'
  OBVIOUS
<1> USE DEF BlockedMeansNoAction
<1>1. CASE Client
  BY <1>1 DEF Client, SetBreakpoint, RemoveBreakpoint, Command, Pause,
     ToggleBreakOnRuntime, ConfigurationDone, Disconnect
<1>2. CASE Handler
  BY <1>2 DEF Handler, SetCode, SetMap, RemoveCode, RemoveErase, RemoveForget
<1>3. CASE Hook
  BY <1>3 DEF Hook, HookRestore, Restore, RestoreSwap, ModeNone, ModePause,
     ModeInto, ModeOver, ModePreOver, ToOver, Stop
<1>4. CASE Break
  BY <1>4 DEF Break, FetchBreakpoint, BreakpointGet, BreakpointSwap,
     BreakpointKeep, WaitForAction, BreakReturns, RuntimeReturns, Resumes
<1>5. CASE SpuriousWakeup \/ Execute \/ RuntimeError \/ StartProc \/ WakeProc
  BY <1>5 DEF SpuriousWakeup, Execute, RuntimeError, StartProc, WakeProc, Resumes
<1>6. CASE UNCHANGED vars
  BY <1>6 DEF vars
<1>7. QED
  BY <1>1, <1>2, <1>3, <1>4, <1>5, <1>6 DEF Next, Main

(* No lost wakeup: the main thread never sleeps on the condition variable    *)
(* with an action waiting for it, for any client and any number of messages. *)
THEOREM NoLostWakeup == Spec => []BlockedMeansNoAction
<1>1. Init => BlockedMeansNoAction
  BY DEF Init, BlockedMeansNoAction
<1>2. QED
  BY <1>1, WakeupStep, PTL DEF Spec

LEMMA StepImplementsHandshake ==
  ASSUME TypeInv, [Next]_vars
  PROVE  [Handshake!Next]_(Handshake!vars)
<1> USE DEF Handshake!Next, Handshake!vars, Handshake!Stop, Handshake!Go,
        Handshake!Give
<1>1. CASE Client
  <2>1. ASSUME NEW a \in Commands, Command(a)
        PROVE  Handshake!Give(a)
    BY <2>1 DEF Command
  <2>2. ASSUME ~ \E a \in Commands : Command(a)
        PROVE  UNCHANGED Handshake!vars
    BY <1>1, <2>2 DEF Client, SetBreakpoint, RemoveBreakpoint, Pause,
       ToggleBreakOnRuntime, ConfigurationDone, Disconnect
  <2>3. QED
    BY <2>1, <2>2
<1>2. CASE Handler
  BY <1>2 DEF Handler, SetCode, SetMap, RemoveCode, RemoveErase, RemoveForget
<1>3. CASE Hook
  BY <1>3 DEF Hook, HookRestore, Restore, RestoreSwap, ModeNone, ModePause,
     ModeInto, ModeOver, ModePreOver, ToOver, Stop
<1>4. CASE Break
  BY <1>4 DEF Break, FetchBreakpoint, BreakpointGet, BreakpointSwap,
     BreakpointKeep, WaitForAction, BreakReturns, RuntimeReturns, Resumes
<1>5. CASE SpuriousWakeup \/ Execute \/ RuntimeError \/ StartProc \/ WakeProc
  BY <1>5 DEF SpuriousWakeup, Execute, RuntimeError, StartProc, WakeProc, Resumes
<1>6. CASE UNCHANGED vars
  BY <1>6 DEF vars
<1>7. QED
  BY <1>1, <1>2, <1>3, <1>4, <1>5, <1>6 DEF Next, Main

(* The two threads implement BreakHandshake: every step of the debug server  *)
(* is a step of the one-slot handshake or leaves it alone.                   *)
THEOREM ImplementsHandshake == Spec => HandshakeSpec
<1>1. Init => Handshake!Init
  BY DEF Init, Handshake!Init
<1>2. TypeInv /\ [Next]_vars => [Handshake!Next]_(Handshake!vars)
  BY StepImplementsHandshake
<1>3. QED
  BY <1>1, <1>2, TypeInvariance, PTL DEF Spec, HandshakeSpec, Handshake!Spec

-----------------------------------------------------------------------------
(***************************************************************************)
(* Stepping.  A step over or out starts when on_break returns and is armed *)
(* (OVER) only as a hook has passed; until the next hook comes to look,    *)
(* an instruction has run.                                                 *)
(***************************************************************************)
ArmedHasRun ==
  step_mode = "OVER"
    /\ main \in {"configuring", "idle", "hook", "restore", "restore_swap", "mode"}
    => progress

LEMMA ArmedHasRunStep == ArmedHasRun /\ [Next]_vars => ArmedHasRun'
<1> SUFFICES ASSUME ArmedHasRun, [Next]_vars
             PROVE  ArmedHasRun'
  OBVIOUS
<1> USE DEF ArmedHasRun, stopVars, histVars, overVars, netVars
<1>1. CASE Client
  BY <1>1 DEF Client, SetBreakpoint, RemoveBreakpoint, Command, Pause,
     ToggleBreakOnRuntime, ConfigurationDone, Disconnect
<1>2. CASE Handler
  BY <1>2 DEF Handler, SetCode, SetMap, RemoveCode, RemoveErase, RemoveForget
<1>3. CASE Hook
  BY <1>3 DEF Hook, HookRestore, Restore, RestoreSwap, ModeNone, ModePause,
     ModeInto, ModeOver, ModePreOver, ToOver, Stop
<1>4. CASE Break
  BY <1>4 DEF Break, FetchBreakpoint, BreakpointGet, BreakpointSwap,
     BreakpointKeep, WaitForAction, BreakReturns, RuntimeReturns, Resumes,
     OnBreak, StepOver, SetMode
<1>5. CASE SpuriousWakeup \/ Execute \/ RuntimeError \/ StartProc \/ WakeProc
  BY <1>5 DEF SpuriousWakeup, Execute, RuntimeError, StartProc, WakeProc, Resumes
<1>6. CASE UNCHANGED vars
  BY <1>6 DEF vars
<1>7. QED
  BY <1>1, <1>2, <1>3, <1>4, <1>5, <1>6 DEF Next, Main

(* A step over or out never stops twice at the same place: on_breakpoint   *)
(* sends the replaced instruction through the hook again, which must not   *)
(* take it for the end of the step.                                        *)
THEOREM OverRunsSomething == Spec => OverMakesProgress
<1>1. Init => ArmedHasRun
  BY DEF Init, ArmedHasRun
<1>2. ArmedHasRun /\ [Next]_vars => [OverStops => progress]_vars
  BY DEF ArmedHasRun, OverStops
<1>3. QED
  BY <1>1, <1>2, ArmedHasRunStep, PTL DEF Spec, OverMakesProgress

-----------------------------------------------------------------------------
(***************************************************************************)
(* Where a step lands.  Sequence numbers of frames differ, on one stack    *)
(* and between stacks, and a number the step remembers is not given again; *)
(* so the frames it looks for stand below the frame it was given in,       *)
(* wherever that one is still on a stack.                                  *)
(***************************************************************************)
Distinct(st) == \A i, j \in DOMAIN st : st[i].seq = st[j].seq => i = j

FramesApart ==
  /\ Distinct(stack)
  /\ \A st \in asleep : Distinct(st) /\ Ids(st) \cap Ids(stack) = {}
  /\ \A st, su \in asleep : st # su => Ids(st) \cap Ids(su) = {}

Below(st, low, high) ==
  \A i, j \in DOMAIN st : st[i].seq = low /\ st[j].seq = high => i < j

\* The sequence number low is below high on every stack.
BelowAll(low, high) ==
  Below(stack, low, high) /\ \A st \in asleep : Below(st, low, high)

StepKnown ==
  \/ /\ step_from.kind = "over"
     /\ over_seq = step_from.seq
     /\ BelowAll(over_parent_seq, step_from.seq)
  \/ /\ step_from.kind = "out"
     /\ BelowAll(over_seq, step_from.seq)
     /\ BelowAll(over_parent_seq, step_from.seq)

StepUnderWay ==
  (step_mode \in {"PRE_OVER", "OVER"} \/ main = "to_over") /\ over_seq # NoFrame

LandingInv == FramesApart /\ (StepUnderWay => StepKnown)

\* The frames of t are the lowest of st, wherever they have got to.
LowestOf(t, st) ==
  /\ t \in Seq(Frame) /\ Len(t) <= Len(st)
  /\ \A i \in DOMAIN t : t[i].seq = st[i].seq

LEMMA LowestKeep ==
  ASSUME NEW st \in Seq(Frame), NEW t, LowestOf(t, st)
  PROVE  /\ Ids(t) \subseteq Ids(st)
         /\ Distinct(st) => Distinct(t)
         /\ \A low, high : Below(st, low, high) => Below(t, low, high)
<1>1. DOMAIN t \subseteq DOMAIN st
  BY DEF LowestOf
<1>2. QED
  BY <1>1 DEF LowestOf, Ids, Distinct, Below

\* A frame with a number of its own on top of st.
PushedOn(t, st, f) ==
  /\ t \in Seq(Frame) /\ Len(t) = Len(st) + 1
  /\ t[Len(st) + 1].seq = f
  /\ \A i \in DOMAIN st : t[i].seq = st[i].seq

LEMMA PushedKeep ==
  ASSUME NEW st \in Seq(Frame), NEW t, NEW f, PushedOn(t, st, f), f \notin Ids(st)
  PROVE  /\ Ids(t) = Ids(st) \cup {f}
         /\ Distinct(st) => Distinct(t)
         /\ \A low, high : f \notin {low, high} /\ Below(st, low, high) => Below(t, low, high)
<1>1. Len(st) \in Nat /\ DOMAIN st = 1 .. Len(st) /\ DOMAIN t = 1 .. Len(st) + 1
  BY DEF PushedOn
<1>2. \A i \in DOMAIN t : i \in DOMAIN st \/ i = Len(st) + 1
  BY <1>1
<1>3. DOMAIN st \subseteq DOMAIN t /\ Len(st) + 1 \in DOMAIN t
  BY <1>1
<1>4. \A i \in DOMAIN st : st[i].seq # f
  BY DEF Ids
<1>5. Ids(t) = Ids(st) \cup {f}
  BY <1>2, <1>3 DEF PushedOn, Ids
<1>6. Distinct(st) => Distinct(t)
  BY <1>2, <1>4 DEF PushedOn, Distinct
<1>7. ASSUME NEW low, NEW high, f \notin {low, high}, Below(st, low, high)
      PROVE  Below(t, low, high)
  BY <1>2, <1>7 DEF PushedOn, Below
<1>8. QED
  BY <1>5, <1>6, <1>7

-----------------------------------------------------------------------------
(* The five things a step of the VM does to the stacks.                    *)
\* The numbers a step remembers keep their places.
StacksKeep ==
  /\ FramesApart'
  /\ \A low, high \in {over_seq, over_parent_seq, step_from.seq} :
       BelowAll(low, high) => BelowAll(low, high)'

LEMMA LowerStack ==
  ASSUME TypeInv, FramesApart, LowestOf(stack', stack), UNCHANGED asleep
  PROVE  StacksKeep
<1>1. stack \in Seq(Frame)
  BY DEF TypeInv, TypeOK
<1>2. /\ Ids(stack') \subseteq Ids(stack)
      /\ Distinct(stack) => Distinct(stack')
      /\ \A low, high : Below(stack, low, high) => Below(stack', low, high)
  BY <1>1, LowestKeep
<1>3. FramesApart'
  BY <1>2 DEF FramesApart
<1>4. QED
  BY <1>2, <1>3 DEF StacksKeep, BelowAll

LEMMA PushStack ==
  ASSUME TypeInv, FramesApart, NEW f \in FreshIds, PushedOn(stack', stack, f),
         UNCHANGED asleep
  PROVE  StacksKeep
<1>1. stack \in Seq(Frame) /\ f \notin Ids(stack) /\ (\A st \in asleep : f \notin Ids(st))
      /\ f \notin {over_seq, over_parent_seq, step_from.seq}
  BY DEF TypeInv, TypeOK, FreshIds, LiveIds
<1>2. /\ Ids(stack') = Ids(stack) \cup {f}
      /\ Distinct(stack) => Distinct(stack')
      /\ \A low, high : f \notin {low, high} /\ Below(stack, low, high)
                        => Below(stack', low, high)
  BY <1>1, PushedKeep
<1>3. FramesApart'
  BY <1>1, <1>2 DEF FramesApart
<1>4. QED
  BY <1>1, <1>2, <1>3 DEF StacksKeep, BelowAll

LEMMA EmptyStack ==
  /\ Ids(<<>>) = {} /\ Distinct(<<>>)
  /\ \A low, high : Below(<<>>, low, high)
BY DEF Ids, Distinct, Below

LEMMA SuspendStack ==
  ASSUME TypeInv, FramesApart, NEW st, LowestOf(st, stack),
         asleep' = asleep \cup {st}, stack' = <<>>
  PROVE  StacksKeep
<1>1. stack \in Seq(Frame)
  BY DEF TypeInv, TypeOK
<1>2. /\ Ids(st) \subseteq Ids(stack)
      /\ Distinct(stack) => Distinct(st)
      /\ \A low, high : Below(stack, low, high) => Below(st, low, high)
  BY <1>1, LowestKeep
<1>3. FramesApart'
  BY <1>2, EmptyStack DEF FramesApart
<1>4. QED
  BY <1>2, <1>3, EmptyStack DEF StacksKeep, BelowAll

LEMMA StartStack ==
  ASSUME TypeInv, FramesApart, NEW f \in FreshIds, PushedOn(stack', <<>>, f),
         UNCHANGED asleep
  PROVE  StacksKeep
<1>1. <<>> \in Seq(Frame) /\ (\A st \in asleep : f \notin Ids(st))
      /\ f \notin {over_seq, over_parent_seq, step_from.seq}
  BY DEF FreshIds, LiveIds
<1>2. /\ Ids(stack') = {f} /\ Distinct(stack')
      /\ \A low, high : f \notin {low, high} => Below(stack', low, high)
  <2>1. f \notin Ids(<<>>)
    BY EmptyStack
  <2>2. /\ Ids(stack') = Ids(<<>>) \cup {f}
        /\ Distinct(<<>>) => Distinct(stack')
        /\ \A low, high : f \notin {low, high} /\ Below(<<>>, low, high)
                          => Below(stack', low, high)
    BY <1>1, <2>1, PushedKeep
  <2>3. QED
    BY <2>2, EmptyStack
<1>3. FramesApart'
  BY <1>1, <1>2 DEF FramesApart
<1>4. QED
  BY <1>1, <1>2, <1>3 DEF StacksKeep, BelowAll

LEMMA WakeStack ==
  ASSUME FramesApart, NEW st \in asleep, stack' = st, asleep' = asleep \ {st}
  PROVE  StacksKeep
<1>1. FramesApart'
  BY DEF FramesApart
<1>2. QED
  BY <1>1 DEF StacksKeep, BelowAll

LEMMA AdvancedIsLowest ==
  ASSUME stack \in Seq(Frame), stack # <<>>, NEW o \in Offsets
  PROVE  /\ Advanced(o) \in Seq(Frame) /\ Len(Advanced(o)) = Len(stack)
         /\ LowestOf(Advanced(o), stack)
<1>1. Len(stack) \in 1 .. Len(stack) /\ Advanced(o) \in Seq(Frame)
  BY LastIndex, AdvancedIsStack
<1>2. /\ Len(Advanced(o)) = Len(stack)
      /\ \A i \in DOMAIN stack : Advanced(o)[i].seq = stack[i].seq
  <2>1. \A i \in DOMAIN stack : stack[i] \in Frame
    BY ElementOfSeq
  <2>2. [stack[Len(stack)] EXCEPT !.pc = o].seq = stack[Len(stack)].seq
    BY <1>1, <2>1 DEF Frame
  <2>3. QED
    BY <1>1, <2>2 DEF Advanced
<1>3. QED
  BY <1>1, <1>2 DEF LowestOf

LEMMA PoppedIsLowest ==
  ASSUME stack \in Seq(Frame), stack # <<>>
  PROVE  LowestOf(Popped, stack) /\ Len(Popped) = Len(stack) - 1
<1> DEFINE n == Len(stack) - 1
           t == SubSeq(stack, 1, n)
<1>1. n \in Nat /\ Len(stack) = n + 1 /\ Popped \in Seq(Frame)
  BY LastIndex, PoppedIsStack
<1>2. /\ Len(t) = IF 1 <= n THEN n - 1 + 1 ELSE 0
      /\ \A i \in 1 .. n - 1 + 1 : t[i] = stack[1 + i - 1]
  <2>1. 1 \in Int /\ n \in Int /\ \A i \in 1 .. n : stack[i] \in Frame
    BY <1>1, ElementOfSeq
  <2> HIDE DEF n
  <2>2. QED
    BY <2>1, SubSeqProperties
<1>3. Popped = t
  BY DEF Popped
<1> HIDE DEF t, n
<1>4. Len(t) = n /\ \A i \in 1 .. n : t[i] = stack[i]
  <2>1. n - 1 + 1 = n /\ (n = 0 \/ 1 <= n) /\ \A i \in 1 .. n : 1 + i - 1 = i
    BY <1>1
  <2>2. QED
    BY <1>2, <2>1
<1>5. t \in Seq(Frame)
  BY <1>1, <1>3
<1>6. DOMAIN t = 1 .. n
  BY <1>4, <1>5
<1>7. LowestOf(t, stack)
  BY <1>1, <1>4, <1>5, <1>6 DEF LowestOf
<1>8. Len(t) = Len(stack) - 1
  BY <1>1, <1>4
<1>9. QED
  BY <1>3, <1>7, <1>8

LEMMA PushedIsPushed ==
  ASSUME NEW st \in Seq(Frame), NEW t \in Seq(Frame), LowestOf(t, st), Len(t) = Len(st),
         NEW new \in Frame
  PROVE  PushedOn(Append(t, new), st, new.seq)
<1>1. /\ Append(t, new) \in Seq(Frame) /\ Len(Append(t, new)) = Len(t) + 1
      /\ Append(t, new)[Len(t) + 1] = new
      /\ \A i \in 1 .. Len(t) : Append(t, new)[i] = t[i]
  BY AppendProperties
<1>2. DOMAIN t = 1 .. Len(t) /\ DOMAIN st = 1 .. Len(st)
  OBVIOUS
<1>3. QED
  BY <1>1, <1>2 DEF PushedOn, LowestOf

(* They do through any step of the VM.                                     *)
LEMMA VMKeepsStacks ==
  ASSUME TypeInv, FramesApart,
         Execute \/ RuntimeError \/ RuntimeReturns \/ StartProc \/ WakeProc
  PROVE  StacksKeep
<1>1. FreshIds \subseteq FrameIds
  BY DEF FreshIds
<1>2. stack \in Seq(Frame)
  BY DEF TypeInv, TypeOK
<1>3. CASE Execute
  <2>1. stack # <<>>
    BY <1>3 DEF Execute, TypeInv, FrameRuns, InFrame, MainPlaces
  <2>2. Here \in Sites /\ Top \in Frame
    BY <1>2, <2>1, TopIsFrame
  <2>3. bytecode[Here] # DEBUG_BREAKPOINT => bytecode[Here] = Code[Here]
    BY <2>2 DEF TypeInv, OwnInstructions
  <2>4. bytecode[Here] \in {"LINENO", "OP", "CALL", "SLEEP"} => Next_pc \in Offsets
    BY <2>2, <2>3, CodeAssumption DEF Next_pc, Here, Frame, DEBUG_BREAKPOINT
  <2>5. ASSUME NEW o \in Offsets, stack' = Advanced(o), UNCHANGED asleep
        PROVE  StacksKeep
    BY <1>2, <2>1, <2>5, AdvancedIsLowest, LowerStack
  <2>6. ASSUME NEW q \in Procs, NEW f \in FreshIds, Next_pc \in Offsets,
               stack' = Append(Advanced(Next_pc), [proc |-> q, pc |-> 0, seq |-> f]),
               UNCHANGED asleep
        PROVE  StacksKeep
    <3> DEFINE new == [proc |-> q, pc |-> 0, seq |-> f]
    <3>1. new \in Frame /\ new.seq = f
      BY <1>1, CodeAssumption DEF Frame
    <3> HIDE DEF new
    <3>2. PushedOn(Append(Advanced(Next_pc), new), stack, f)
      BY <1>2, <2>1, <2>6, <3>1, AdvancedIsLowest, PushedIsPushed
    <3>3. QED
      BY <2>6, <3>2, PushStack DEF new
  <2>7. CASE stack' = Popped /\ UNCHANGED asleep
    BY <1>2, <2>1, <2>7, PoppedIsLowest, LowerStack
  <2>8. CASE /\ Next_pc \in Offsets
             /\ asleep' = asleep \cup {Advanced(Next_pc)} /\ stack' = <<>>
    BY <1>2, <2>1, <2>8, AdvancedIsLowest, SuspendStack
  <2>9. QED
    <3>1. CASE /\ bytecode[Here] \in {"LINENO", "OP", "CALL"}
               /\ Resumes(Advanced(Next_pc)) /\ UNCHANGED asleep
      BY <2>4, <2>5, <3>1 DEF Resumes
    <3>2. CASE \E o \in Offsets : Resumes(Advanced(o)) /\ UNCHANGED asleep
      BY <2>5, <3>2 DEF Resumes
    <3>3. ASSUME NEW q \in Procs, NEW f \in FreshIds, bytecode[Here] = "CALL",
                 Resumes(Append(Advanced(Next_pc), [proc |-> q, pc |-> 0, seq |-> f])),
                 UNCHANGED asleep
          PROVE  StacksKeep
      BY <2>4, <2>6, <3>3 DEF Resumes
    <3>4. CASE Resumes(Popped) /\ UNCHANGED asleep
      BY <2>7, <3>4 DEF Resumes
    <3>5. CASE /\ bytecode[Here] = "SLEEP"
               /\ asleep' = asleep \cup {Advanced(Next_pc)} /\ Resumes(<<>>)
      BY <2>4, <2>8, <3>5 DEF Resumes
    <3>6. QED
      BY <1>3, <3>1, <3>2, <3>3, <3>4, <3>5 DEF Execute
<1>4. CASE RuntimeError \/ RuntimeReturns
  <2>1. stack # <<>>
    BY <1>4 DEF RuntimeError, RuntimeReturns, TypeInv, FrameRuns, InFrame, MainPlaces
  <2>2. UNCHANGED asleep /\ (stack' = stack \/ stack' = Popped)
    BY <1>4 DEF RuntimeError, RuntimeReturns, Resumes
  <2>3. LowestOf(stack, stack)
    BY <1>2 DEF LowestOf
  <2>4. QED
    BY <1>2, <2>1, <2>2, <2>3, PoppedIsLowest, LowerStack
<1>5. CASE StartProc
  <2>1. PICK q \in Procs, f \in FreshIds :
          stack' = <<[proc |-> q, pc |-> 0, seq |-> f]>> /\ UNCHANGED asleep
    BY <1>5 DEF StartProc
  <2> DEFINE new == [proc |-> q, pc |-> 0, seq |-> f]
  <2>2. new \in Frame /\ new.seq = f
    BY <1>1, CodeAssumption DEF Frame
  <2> HIDE DEF new
  <2>3. PushedOn(<<new>>, <<>>, f)
    BY <2>2 DEF PushedOn
  <2>4. QED
    BY <2>1, <2>3, StartStack DEF new
<1>6. CASE WakeProc
  <2>1. PICK st \in asleep : stack' = st /\ asleep' = asleep \ {st}
    BY <1>6 DEF WakeProc
  <2>2. QED
    BY <2>1, WakeStack
<1>7. QED
  BY <1>3, <1>4, <1>5, <1>6

LEMMA VMKeepsLanding ==
  ASSUME TypeInv, LandingInv,
         Execute \/ RuntimeError \/ RuntimeReturns \/ StartProc \/ WakeProc
  PROVE  LandingInv'
<1>1. StacksKeep
  BY VMKeepsStacks DEF LandingInv
<1>2. FramesApart'
  BY <1>1 DEF StacksKeep
<1>3. UNCHANGED <<step_mode, over_seq, over_parent_seq, step_from>>
      /\ main # "to_over" /\ main' # "to_over"
  BY DEF Execute, RuntimeError, RuntimeReturns, StartProc, WakeProc, Resumes,
     overVars, histVars
<1>4. StepUnderWay' => StepUnderWay
  BY <1>3 DEF StepUnderWay
<1>5. ASSUME StepKnown
      PROVE  StepKnown'
  <2>1. BelowAll(over_parent_seq, step_from.seq) => BelowAll(over_parent_seq, step_from.seq)'
    BY <1>1, <1>3 DEF StacksKeep
  <2>2. BelowAll(over_seq, step_from.seq) => BelowAll(over_seq, step_from.seq)'
    BY <1>1, <1>3 DEF StacksKeep
  <2>3. QED
    BY <1>3, <1>5, <2>1, <2>2 DEF StepKnown
<1>6. QED
  BY <1>2, <1>4, <1>5 DEF LandingInv

\* What leaves the stacks and the step alone keeps the invariant, unless it
\* arms a step.
LEMMA LandingKept ==
  ASSUME LandingInv, UNCHANGED <<vmVars, overVars, step_from>>,
         StepUnderWay' => StepUnderWay
  PROVE  LandingInv'
<1>1. FramesApart'
  BY DEF LandingInv, FramesApart, vmVars
<1>2. StepKnown => StepKnown'
  BY DEF StepKnown, BelowAll, vmVars, overVars
<1>3. QED
  BY <1>1, <1>2 DEF LandingInv

\* What stands under the running frame is below it on every stack.
LEMMA BelowTop ==
  ASSUME TypeInv, FramesApart, stack # <<>>, NEW low,
         low = NoFrame \/ \E i \in 1 .. Len(stack) - 1 : stack[i].seq = low
  PROVE  BelowAll(low, Top.seq)
<1>1. stack \in Seq(Frame) /\ asleep \subseteq Seq(Frame)
  BY DEF TypeInv, TypeOK
<1>2. Len(stack) \in Nat /\ Len(stack) \in DOMAIN stack /\ DOMAIN stack = 1 .. Len(stack)
  BY <1>1, LastIndex
<1>3. Below(stack, low, Top.seq)
  <2> SUFFICES ASSUME NEW i \in DOMAIN stack, NEW j \in DOMAIN stack,
                      stack[i].seq = low, stack[j].seq = Top.seq
               PROVE  i < j
    BY DEF Below
  <2>1. j = Len(stack)
    BY <1>2 DEF FramesApart, Distinct, Top
  <2>2. low # NoFrame
    <3>1. stack[i] \in Frame
      BY <1>1
    <3>2. QED
      BY <3>1, FrameAssumption DEF Frame
  <2>3. PICK k \in 1 .. Len(stack) - 1 : stack[k].seq = low
    BY <2>2
  <2>4. k \in DOMAIN stack /\ k < Len(stack)
    BY <1>2, <2>3
  <2>5. i = k
    BY <2>3, <2>4 DEF FramesApart, Distinct
  <2>6. QED
    BY <2>1, <2>4, <2>5
<1>4. ASSUME NEW st \in asleep
      PROVE  Below(st, low, Top.seq)
  <2>1. Top.seq \in Ids(stack)
    BY <1>2 DEF Ids, Top
  <2>2. \A j \in DOMAIN st : st[j].seq # Top.seq
    BY <2>1 DEF FramesApart, Ids
  <2>3. QED
    BY <2>2 DEF Below
<1>5. QED
  BY <1>3, <1>4 DEF BelowAll

\* A step the client asks for is known from the start.
LEMMA BreakReturnsKnows ==
  ASSUME TypeInv, FramesApart, BreakReturns
  PROVE  StepUnderWay' => StepKnown'
<1>1. stack # <<>> /\ stack \in Seq(Frame)
  BY DEF BreakReturns, TypeInv, TypeOK, FrameRuns, InFrame, MainPlaces
<1>2. Len(stack) \in Nat \ {0}
  BY <1>1
<1>3. UNCHANGED <<stack, asleep>> /\ main' # "to_over"
  BY DEF BreakReturns, vmVars
<1>4. \A low : BelowAll(low, Top.seq) => BelowAll(low, Top.seq)'
  BY <1>3 DEF BelowAll, Top
<1>5. ASSUME NEW n \in 1 .. Len(stack)
      PROVE  BelowAll(Parent(n), Top.seq)
  <2>1. CASE n > 1
    <3>1. n - 1 \in 1 .. Len(stack) - 1 /\ Parent(n) = stack[n - 1].seq
      BY <1>2, <2>1 DEF Parent
    <3>2. QED
      BY <1>1, <3>1, BelowTop
  <2>2. CASE ~ (n > 1)
    BY <1>1, <2>2, BelowTop DEF Parent
  <2>3. QED
    BY <2>1, <2>2
<1>6. CASE StepOver(Len(stack), "over")
  <2>1. /\ over_seq' = Top.seq /\ step_from'.kind = "over" /\ step_from'.seq = Top.seq
        /\ over_parent_seq' = Parent(Len(stack))
    BY <1>6 DEF StepOver, Top
  <2>2. BelowAll(Parent(Len(stack)), Top.seq)'
    <3>1. Len(stack) \in 1 .. Len(stack)
      BY <1>2
    <3>2. BelowAll(Parent(Len(stack)), Top.seq)
      BY <1>5, <3>1
    <3>3. QED
      BY <1>3, <3>2 DEF BelowAll, Top, Parent
  <2>3. QED
    BY <1>3, <2>1, <2>2 DEF StepKnown, BelowAll, Top, Parent
<1>7. CASE Len(stack) > 1 /\ StepOver(Len(stack) - 1, "out")
  <2> DEFINE n == Len(stack) - 1
  <2>1. n \in 1 .. Len(stack) /\ n \in 1 .. Len(stack) - 1
    BY <1>2, <1>7
  <2>2. /\ over_seq' = stack[n].seq /\ step_from'.kind = "out" /\ step_from'.seq = Top.seq
        /\ over_parent_seq' = Parent(n)
    BY <1>7 DEF StepOver
  <2>3. BelowAll(stack[n].seq, Top.seq) /\ BelowAll(Parent(n), Top.seq)
    BY <1>1, <1>5, <2>1, BelowTop
  <2> HIDE DEF n
  <2>4. QED
    BY <1>3, <2>2, <2>3 DEF StepKnown, BelowAll, Top
<1>8. CASE \E m \in {"NONE", "INTO"} : SetMode(m)
  BY <1>3, <1>8 DEF SetMode, StepUnderWay
<1>9. QED
  BY <1>6, <1>7, <1>8 DEF BreakReturns, OnBreak

LEMMA LandingStep == TypeInv /\ LandingInv /\ [Next]_vars => LandingInv'
<1> SUFFICES ASSUME TypeInv, LandingInv, [Next]_vars
             PROVE  LandingInv'
  OBVIOUS
<1> USE DEF stopVars, histVars, vmVars
<1>1. CASE Client
  <2>1. UNCHANGED <<vmVars, overVars, step_from>> /\ (StepUnderWay' => StepUnderWay)
    BY <1>1 DEF Client, SetBreakpoint, RemoveBreakpoint, Command, Pause, StepUnderWay,
       ToggleBreakOnRuntime, ConfigurationDone, Disconnect, overVars
  <2>2. QED
    BY <2>1, LandingKept
<1>2. CASE Handler
  <2>1. UNCHANGED <<vmVars, overVars, step_from>> /\ (StepUnderWay' => StepUnderWay)
    BY <1>2 DEF Handler, SetCode, SetMap, RemoveCode, RemoveErase, RemoveForget,
       StepUnderWay, overVars
  <2>2. QED
    BY <2>1, LandingKept
<1>3. CASE HookRestore \/ Restore \/ RestoreSwap \/ ModeNone \/ ModePause
           \/ ModeInto \/ ModePreOver \/ ToOver
  <2>1. UNCHANGED <<vmVars, overVars, step_from>> /\ (StepUnderWay' => StepUnderWay)
    BY <1>3 DEF HookRestore, Restore, RestoreSwap, ModeNone, ModePause,
       ModeInto, ModePreOver, ToOver, Stop, StepUnderWay, overVars
  <2>2. QED
    BY <2>1, LandingKept
<1>4. CASE ModeOver
  <2>1. CASE over_seq' = NoFrame /\ UNCHANGED <<stack, asleep>>
    BY <2>1 DEF LandingInv, FramesApart, StepUnderWay
  <2>2. CASE UNCHANGED <<vmVars, overVars, step_from>> /\ (StepUnderWay' => StepUnderWay)
    BY <2>2, LandingKept
  <2>3. QED
    BY <1>4, <2>1, <2>2 DEF ModeOver, Stop, StepUnderWay, overVars
<1>5. CASE FetchBreakpoint \/ BreakpointGet \/ BreakpointSwap \/ BreakpointKeep
           \/ WaitForAction \/ SpuriousWakeup
  <2>1. UNCHANGED <<vmVars, overVars, step_from>> /\ (StepUnderWay' => StepUnderWay)
    BY <1>5 DEF FetchBreakpoint, BreakpointGet, BreakpointSwap, BreakpointKeep,
       WaitForAction, SpuriousWakeup, StepUnderWay, overVars
  <2>2. QED
    BY <2>1, LandingKept
<1>6. CASE BreakReturns
  <2>1. FramesApart'
    BY <1>6 DEF BreakReturns, LandingInv, FramesApart
  <2>2. QED
    BY <1>6, <2>1, BreakReturnsKnows DEF LandingInv
<1>7. CASE RuntimeReturns \/ Execute \/ RuntimeError \/ StartProc \/ WakeProc
  BY <1>7, VMKeepsLanding
<1>8. CASE UNCHANGED vars
  <2>1. UNCHANGED <<vmVars, overVars, step_from>> /\ (StepUnderWay' => StepUnderWay)
    BY <1>8 DEF vars, StepUnderWay, overVars
  <2>2. QED
    BY <2>1, LandingKept
<1>9. QED
  BY <1>1, <1>2, <1>3, <1>4, <1>5, <1>6, <1>7, <1>8 DEF Next, Main, Hook, Break

\* Where a step stops, seen from the stack it stops on.
LEMMA StopIsThere ==
  ASSUME TypeInv, LandingInv, ModeOver, main' = "wait"
  PROVE  /\ step_from.kind = "over" => step_from.seq \notin Ids(Popped)
         /\ step_from.kind = "out" => step_from.seq \notin Ids(stack)
<1>1. stack # <<>> /\ stack \in Seq(Frame)
  BY DEF ModeOver, TypeInv, TypeOK, FrameRuns, InFrame, MainPlaces
<1>2. Len(stack) \in Nat /\ Len(stack) \in DOMAIN stack /\ DOMAIN stack = 1 .. Len(stack)
  BY <1>1, LastIndex
<1>3. Top.seq \in {over_seq, over_parent_seq} /\ over_seq # NoFrame
  BY DEF ModeOver
<1>4. StepKnown /\ Distinct(stack)
  BY <1>3 DEF ModeOver, LandingInv, StepUnderWay, FramesApart
<1>5. ASSUME step_from.kind = "over"
      PROVE  step_from.seq \notin Ids(Popped)
  <2> SUFFICES ASSUME NEW i \in DOMAIN Popped, Popped[i].seq = step_from.seq
               PROVE  FALSE
    BY DEF Ids
  <2>1. /\ i \in DOMAIN stack /\ i \in Nat /\ ~ (Len(stack) <= i)
        /\ stack[i].seq = step_from.seq
    <3>1. LowestOf(Popped, stack) /\ Len(Popped) = Len(stack) - 1
      BY <1>1, PoppedIsLowest
    <3>2. DOMAIN Popped = 1 .. Len(stack) - 1
      BY <3>1 DEF LowestOf
    <3>3. QED
      BY <1>2, <3>1, <3>2 DEF LowestOf
  <2>2. over_seq = step_from.seq /\ Below(stack, over_parent_seq, step_from.seq)
    BY <1>4, <1>5 DEF StepKnown, BelowAll
  <2>3. Top.seq = over_seq => i = Len(stack)
    BY <1>2, <1>4, <2>1, <2>2 DEF Distinct, Top
  <2>4. Top.seq = over_parent_seq => Len(stack) < i
    BY <1>2, <2>1, <2>2 DEF Below, Top
  <2>5. QED
    BY <1>2, <1>3, <2>1, <2>3, <2>4
<1>6. ASSUME step_from.kind = "out"
      PROVE  step_from.seq \notin Ids(stack)
  <2> SUFFICES ASSUME NEW i \in DOMAIN stack, stack[i].seq = step_from.seq
               PROVE  FALSE
    BY DEF Ids
  <2>1. \A low \in {over_seq, over_parent_seq} : Below(stack, low, step_from.seq)
    BY <1>4, <1>6 DEF StepKnown, BelowAll
  <2>2. Len(stack) < i
    BY <1>2, <1>3, <2>1 DEF Below, Top
  <2>3. QED
    BY <1>2, <2>2
<1>7. QED
  BY <1>5, <1>6

(* A step over never stops in a callee of the frame it was given in, a step *)
(* out never before that frame is gone, through any calls, returns, runtime *)
(* errors, sleeping procs and pauses in between (on_break, on_singlestep).  *)
THEOREM StepsLandWhereAsked == Spec => StepLandsWhereAsked
<1>1. Init => LandingInv
  BY EmptyStack DEF Init, LandingInv, FramesApart, StepUnderWay
<1>2. TypeInv /\ LandingInv /\ [Next]_vars =>
        [OverStops => CASE step_from.kind = "over" -> step_from.seq \notin Ids(Popped)
                        [] step_from.kind = "out"  -> step_from.seq \notin Ids(stack)
                        [] OTHER -> FALSE]_vars
  <2> SUFFICES ASSUME TypeInv, LandingInv, Next, OverStops
               PROVE  CASE step_from.kind = "over" -> step_from.seq \notin Ids(Popped)
                        [] step_from.kind = "out"  -> step_from.seq \notin Ids(stack)
                        [] OTHER -> FALSE
    OBVIOUS
  <2>1. ModeOver
    <3>1. ~ Client /\ ~ Handler
      BY DEF OverStops, Client, SetBreakpoint, RemoveBreakpoint, Command, Pause,
         ToggleBreakOnRuntime, ConfigurationDone, Disconnect, Handler, SetCode,
         SetMap, RemoveCode, RemoveErase, RemoveForget
    <3>2. QED
      BY <3>1 DEF OverStops, Next, Main, Hook, HookRestore, Restore, RestoreSwap,
         ModeNone, ModePause, ModeInto, ModePreOver, ToOver, Break,
         FetchBreakpoint, BreakpointGet, BreakpointSwap, BreakpointKeep,
         WaitForAction, BreakReturns, RuntimeReturns, SpuriousWakeup, Execute,
         RuntimeError, StartProc, WakeProc
  <2>2. StepKnown
    BY <2>1 DEF OverStops, ModeOver, LandingInv, StepUnderWay
  <2>3. QED
    BY <2>1, <2>2, StopIsThere DEF StepKnown, OverStops
<1>3. QED
  BY <1>1, <1>2, LandingStep, TypeInvariance, PTL DEF Spec, StepLandsWhereAsked
=============================================================================
