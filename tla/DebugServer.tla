----------------------------- MODULE DebugServer -----------------------------
(***************************************************************************)
(* The debug server of byond-extools: breakpoints patched into the live    *)
(* bytecode, and the stepping commands that stop and release the BYOND     *)
(* main thread.                                                            *)
(*                                                                         *)
(* Two threads share the server's fields.  The main thread interprets      *)
(* bytecode; before every instruction it runs on_singlestep, and a         *)
(* breakpoint opcode sends it into on_breakpoint.  The network thread      *)
(* runs debug_loop and handles one client message at a time.  Only         *)
(* next_action is protected by a mutex (notifier_mutex); the breakpoint    *)
(* map, the bytecode, breakpoint_to_restore and step_mode are not, so the  *)
(* two threads' statements interleave.  A step of this module is a         *)
(* statement, or a run of statements no other thread can tell apart.       *)
(***************************************************************************)
EXTENDS Integers, Sequences, FiniteSets

CONSTANTS
  Procs,           (* proc ids.                                              *)
  Offsets,         (* bytecode offsets.                                      *)
  Code,            (* the compiled instruction at every site.                *)
  FrameIds,        (* sequence numbers of running procs.  Bounds the stacks. *)
  NoFrame,         (* UINT32_MAX, "no sequence number".                      *)
  ClientSites,     (* the sites the client sets and unsets breakpoints at.   *)
  ClientMessages,  (* the kinds of messages the client sends.                *)
  Patient,         (* TRUE: it edits breakpoints only while main is stopped. *)
  Blocking         (* TRUE: DBG_MODE_BLOCK or _LAUNCHED; FALSE: _BACKGROUND. *)

Sites == Procs \X Offsets
Instructions == {"LINENO", "OP", "CALL", "JMP", "SLEEP", "RET"}
DEBUG_BREAKPOINT == "DEBUG_BREAKPOINT"
Opcodes == Instructions \cup {DEBUG_BREAKPOINT}
Unset == "unset"

Commands == {"STEP_INTO", "STEP_OVER", "STEP_OUT", "RESUME"}
Messages == Commands \cup {"SET", "UNSET", "PAUSE", "TOGGLE_RUNTIMES"}

ASSUME CodeAssumption ==
  /\ Offsets \subseteq Nat
  /\ 0 \in Offsets
  /\ Code \in [Sites -> Instructions]
  /\ \A p \in Procs, o \in Offsets :
       Code[<<p, o>>] \in {"RET", "JMP"} \/ o + 1 \in Offsets

ASSUME ClientAssumption ==
  /\ ClientSites \subseteq Sites
  /\ ClientMessages \subseteq Messages
  /\ Patient \in BOOLEAN
  /\ Blocking \in BOOLEAN

ASSUME FrameAssumption == NoFrame \notin FrameIds

VARIABLES
  bytecode,               (* every proc's bytecode, as the VM fetches it.    *)
  breakpoints,            (* site -> the opcode replaced there, or Unset.    *)
  breakpoint_to_restore,  (* optional<Breakpoint>: {} or {b}.                *)
  next_action,
  step_mode,
  over_seq,               (* step_over_sequence_number.                      *)
  over_parent_seq,        (* step_over_parent_sequence_number.               *)
  break_on_runtimes,
  loop,                   (* which message loop runs.                        *)
  net,                    (* where the message handler is.                   *)
  net_site,               (* its local: the site of the message.             *)
  net_op,                 (* its local: the replaced opcode.                 *)
  main,                   (* where the main thread is.                       *)
  bp,                     (* its local copy of a breakpoint.                 *)
  taken,                  (* its local: the action wait_for_action returned. *)
  reason,                 (* what it told the client when it last stopped.   *)
  stack,                  (* the call stack, the running frame last.         *)
  asleep,                 (* the call stacks of suspended procs.             *)
  progress,               (* history: ran an instruction since the last stop *)
  step_from               (* history: the step over or out under way.        *)

bpVars    == <<bytecode, breakpoints, breakpoint_to_restore>>
overVars  == <<over_seq, over_parent_seq>>
netVars   == <<net, net_site, net_op>>
stopVars  == <<bp, taken, reason>>
vmVars    == <<stack, asleep>>
histVars  == <<progress, step_from>>
vars == <<bpVars, next_action, step_mode, overVars, break_on_runtimes, loop,
          netVars, main, stopVars, vmVars, histVars>>

Breakpoint == [site : Sites, op : Opcodes]
Frame == [proc : Procs, pc : Offsets, seq : FrameIds]
StepModes == {"NONE", "PRE_OVER", "OVER", "INTO", "PAUSE"}
Reasons == {"breakpoint opcode", "step", "pause", "runtime"}
StepFrom == [kind : {"over", "out", "none"}, seq : FrameIds \cup {NoFrame}]
NoStep == [kind |-> "none", seq |-> NoFrame]

NetPlaces == {"idle", "set_code", "set_map",
              "unset_code", "unset_map", "unset_restore"}
MainPlaces == {"configuring", "idle", "hook", "restore", "restore_swap", "mode",
               "to_over", "fetch", "bp_get", "bp_swap", "bp_keep",
               "wait", "blocked", "act", "undefined"}

Top == stack[Len(stack)]
Here == <<Top.proc, Top.pc>>
Parent(n) == IF n > 1 THEN stack[n - 1].seq ELSE NoFrame

Ids(st) == {st[i].seq : i \in DOMAIN st}
LiveIds == Ids(stack) \cup UNION {Ids(st) : st \in asleep}
FreshIds == FrameIds \ (LiveIds \cup {over_seq, over_parent_seq, step_from.seq})

(***************************************************************************)
(* Init: debugger_initialize has run, nothing is patched yet.  In the      *)
(* blocking modes the main thread itself runs loop_until_configured first. *)
(***************************************************************************)
Init ==
  /\ bytecode = Code
  /\ breakpoints = [s \in Sites |-> Unset]
  /\ breakpoint_to_restore = {}
  /\ next_action = "WAIT"
  /\ step_mode = "NONE"
  /\ over_seq = NoFrame
  /\ over_parent_seq = NoFrame
  /\ break_on_runtimes = FALSE
  /\ loop = IF Blocking THEN "configuring" ELSE "running"
  /\ net = "idle"
  /\ net_site \in ClientSites
  /\ net_op = "OP"
  /\ main = IF Blocking THEN "configuring" ELSE "idle"
  /\ bp = [site |-> net_site, op |-> DEBUG_BREAKPOINT]
  /\ taken = "WAIT"
  /\ reason = "step"
  /\ stack = <<>>
  /\ asleep = {}
  /\ progress = FALSE
  /\ step_from = NoStep

-----------------------------------------------------------------------------
(***************************************************************************)
(* The message handler (handle_one_message), on the network thread or, in  *)
(* loop_until_configured, on the main thread.                              *)
(***************************************************************************)

\* The client saw the main thread stop and has not released it.
Stopped ==
  \/ main = "configuring"
  \/ main \in {"wait", "blocked"} /\ next_action = "WAIT"

Receives(m) == loop # "ended" /\ net = "idle" /\ m \in ClientMessages

Edits(m) == Receives(m) /\ (Patient => Stopped)

\* A definition marked "Mutant" is no part of the model: it is the slip its
\* name says, kept to show which property notices it.

\* Mutant: a breakpoint that is already known is set once more.
SetBreakpointAgain(s) ==
  /\ Edits("SET")
  /\ net' = "set_code"
  /\ net_site' = s
  /\ net_op' = bytecode[s]
  /\ UNCHANGED <<bpVars, next_action, step_mode, overVars, break_on_runtimes,
                 loop, main, stopVars, vmVars, histVars>>

\* set_breakpoint: the early return for a known breakpoint is a stutter.
SetBreakpoint(s) ==
  /\ Edits("SET")
  /\ breakpoints[s] = Unset
  /\ net' = "set_code"
  /\ net_site' = s
  /\ net_op' = bytecode[s]
  /\ UNCHANGED <<bpVars, next_action, step_mode, overVars, break_on_runtimes,
                 loop, main, stopVars, vmVars, histVars>>

SetCode ==
  /\ net = "set_code"
  /\ net' = "set_map"
  /\ bytecode' = [bytecode EXCEPT ![net_site] = DEBUG_BREAKPOINT]
  /\ UNCHANGED <<breakpoints, breakpoint_to_restore, next_action, step_mode,
                 overVars, break_on_runtimes, loop, net_site, net_op, main,
                 stopVars, vmVars, histVars>>

SetMap ==
  /\ net = "set_map"
  /\ net' = "idle"
  /\ breakpoints' = [breakpoints EXCEPT ![net_site] = net_op]
  /\ UNCHANGED <<bytecode, breakpoint_to_restore, next_action, step_mode,
                 overVars, break_on_runtimes, loop, net_site, net_op, main,
                 stopVars, vmVars, histVars>>

\* remove_breakpoint: both alerts and their early returns are stutters.
RemoveBreakpoint(s) ==
  /\ Edits("UNSET")
  /\ breakpoints[s] \notin {Unset, DEBUG_BREAKPOINT}
  /\ net' = "unset_code"
  /\ net_site' = s
  /\ net_op' = breakpoints[s]
  /\ UNCHANGED <<bpVars, next_action, step_mode, overVars, break_on_runtimes,
                 loop, main, stopVars, vmVars, histVars>>

\* Mutant: the map entry goes, the opcode stays in the bytecode.
RemoveLeavesCode ==
  /\ net = "unset_code"
  /\ net' = "unset_map"
  /\ UNCHANGED <<bpVars, next_action, step_mode, overVars, break_on_runtimes,
                 loop, net_site, net_op, main, stopVars, vmVars, histVars>>

RemoveCode ==
  /\ net = "unset_code"
  /\ net' = "unset_map"
  /\ bytecode' = [bytecode EXCEPT ![net_site] = net_op]
  /\ UNCHANGED <<breakpoints, breakpoint_to_restore, next_action, step_mode,
                 overVars, break_on_runtimes, loop, net_site, net_op, main,
                 stopVars, vmVars, histVars>>

RemoveErase ==
  /\ net = "unset_map"
  /\ net' = "unset_restore"
  /\ breakpoints' = [breakpoints EXCEPT ![net_site] = Unset]
  /\ UNCHANGED <<bytecode, breakpoint_to_restore, next_action, step_mode,
                 overVars, break_on_runtimes, loop, net_site, net_op, main,
                 stopVars, vmVars, histVars>>

\* Mutant: a pending restore outlives the breakpoint.
RemoveKeepsRestore ==
  /\ net = "unset_restore"
  /\ net' = "idle"
  /\ UNCHANGED <<bpVars, next_action, step_mode, overVars, break_on_runtimes,
                 loop, net_site, net_op, main, stopVars, vmVars, histVars>>

\* It forgets breakpoint_to_restore whichever breakpoint that one is.
RemoveForget ==
  /\ net = "unset_restore"
  /\ net' = "idle"
  /\ breakpoint_to_restore' = {}
  /\ UNCHANGED <<bytecode, breakpoints, next_action, step_mode, overVars,
                 break_on_runtimes, loop, net_site, net_op, main, stopVars,
                 vmVars, histVars>>

\* Mutant: notify_all is forgotten.
CommandWithoutNotify(a) ==
  /\ Receives(a)
  /\ a \in Commands
  /\ next_action' = a
  /\ UNCHANGED <<bpVars, step_mode, overVars, break_on_runtimes, loop, netVars,
                 main, stopVars, vmVars, histVars>>

\* The lock is held over the write and the notify_all, so they are one step.
Command(a) ==
  /\ Receives(a)
  /\ a \in Commands
  /\ next_action' = a
  /\ main' = IF main = "blocked" THEN "wait" ELSE main
  /\ UNCHANGED <<bpVars, step_mode, overVars, break_on_runtimes, loop, netVars,
                 stopVars, vmVars, histVars>>

Pause ==
  /\ Receives("PAUSE")
  /\ step_mode' = "PAUSE"
  /\ UNCHANGED <<bpVars, next_action, overVars, break_on_runtimes, loop,
                 netVars, main, stopVars, vmVars, histVars>>

ToggleBreakOnRuntime ==
  /\ Receives("TOGGLE_RUNTIMES")
  /\ break_on_runtimes' = ~break_on_runtimes
  /\ UNCHANGED <<bpVars, next_action, step_mode, overVars, loop, netVars, main,
                 stopVars, vmVars, histVars>>

\* CONFIGURATION_DONE leaves loop_until_configured and detaches debug_loop.
ConfigurationDone ==
  /\ main = "configuring"
  /\ net = "idle"
  /\ loop' = "running"
  /\ main' = "idle"
  /\ UNCHANGED <<bpVars, next_action, step_mode, overVars, break_on_runtimes,
                 netVars, stopVars, vmVars, histVars>>

\* A null message ends the loop; in loop_until_configured the game goes on.
Disconnect ==
  /\ loop # "ended"
  /\ net = "idle"
  /\ loop' = "ended"
  /\ main' = IF main = "configuring" THEN "idle" ELSE main
  /\ UNCHANGED <<bpVars, next_action, step_mode, overVars, break_on_runtimes,
                 netVars, stopVars, vmVars, histVars>>

Handler == SetCode \/ SetMap \/ RemoveCode \/ RemoveErase \/ RemoveForget

Client ==
  \/ \E s \in ClientSites : SetBreakpoint(s) \/ RemoveBreakpoint(s)
  \/ \E a \in Commands : Command(a)
  \/ Pause
  \/ ToggleBreakOnRuntime
  \/ ConfigurationDone
  \/ Disconnect

-----------------------------------------------------------------------------
(***************************************************************************)
(* on_singlestep, run by the hook before the VM fetches an instruction.    *)
(***************************************************************************)

NetUnchanged == UNCHANGED <<break_on_runtimes, loop, netVars>>

\* Only the offset is compared with the restorer's, not the proc.
HookRestore ==
  /\ main = "hook"
  /\ main' = IF \E b \in breakpoint_to_restore : b.site[2] # Top.pc
             THEN "restore" ELSE "mode"
  /\ NetUnchanged
  /\ UNCHANGED <<bpVars, next_action, step_mode, overVars, stopVars, vmVars,
                 histVars>>

\* restore_breakpoint looks again, and alerts when there is nothing left.
Restore ==
  /\ main = "restore"
  /\ IF breakpoint_to_restore = {}
     THEN main' = "mode" /\ UNCHANGED bp
     ELSE main' = "restore_swap" /\ bp' \in breakpoint_to_restore
  /\ NetUnchanged
  /\ UNCHANGED <<bpVars, next_action, step_mode, overVars, taken, reason,
                 vmVars, histVars>>

\* The swap, and the reset nobody else's write can conflict with.
RestoreSwap ==
  /\ main = "restore_swap"
  /\ main' = "mode"
  /\ bytecode' = [bytecode EXCEPT ![bp.site] = bp.op]
  /\ breakpoint_to_restore' = {}
  /\ NetUnchanged
  /\ UNCHANGED <<breakpoints, next_action, step_mode, overVars, stopVars,
                 vmVars, histVars>>

\* on_step: the stop is sent to the client, then on_break waits.
Stop(why) ==
  /\ main' = "wait"
  /\ reason' = why
  /\ UNCHANGED <<bp, taken>>

ModeNone ==
  /\ main = "mode"
  /\ step_mode = "NONE"
  /\ main' = "fetch"
  /\ NetUnchanged
  /\ UNCHANGED <<bpVars, next_action, step_mode, overVars, stopVars, vmVars,
                 histVars>>

\* Mutant: on_singlestep has no case for PAUSE.
ModePauseIgnored ==
  /\ main = "mode"
  /\ step_mode = "PAUSE"
  /\ main' = "fetch"
  /\ NetUnchanged
  /\ UNCHANGED <<bpVars, next_action, step_mode, overVars, stopVars, vmVars,
                 histVars>>

ModePause ==
  /\ main = "mode"
  /\ step_mode = "PAUSE"
  /\ Stop("pause")
  /\ NetUnchanged
  /\ UNCHANGED <<bpVars, next_action, step_mode, overVars, vmVars, histVars>>

\* A line start is only seen where no breakpoint opcode covers it.
ModeInto ==
  /\ main = "mode"
  /\ step_mode = "INTO"
  /\ IF bytecode[Here] # "LINENO"
     THEN main' = "fetch" /\ UNCHANGED stopVars
     ELSE Stop("step")
  /\ NetUnchanged
  /\ UNCHANGED <<bpVars, next_action, step_mode, overVars, vmVars, histVars>>

\* The last branch of the code, which resets the mode at the RET or END of a
\* bottom frame, stands behind the early return for every opcode but LINENO.
ModeOver ==
  /\ main = "mode"
  /\ step_mode = "OVER"
  /\ IF over_seq = NoFrame
     THEN /\ step_mode' = "NONE"
          /\ main' = "fetch"
          /\ UNCHANGED <<overVars, stopVars>>
     ELSE IF /\ bytecode[Here] = "LINENO"
             /\ Top.seq \in {over_seq, over_parent_seq}
     THEN /\ over_seq' = NoFrame
          /\ over_parent_seq' = NoFrame
          /\ Stop("step")
          /\ UNCHANGED step_mode
     ELSE /\ main' = "fetch"
          /\ UNCHANGED <<step_mode, overVars, stopVars>>
  /\ NetUnchanged
  /\ UNCHANGED <<bpVars, next_action, vmVars, histVars>>

\* PRE_OVER is read, and then overwritten: a PAUSE in between is lost.
ModePreOver ==
  /\ main = "mode"
  /\ step_mode = "PRE_OVER"
  /\ main' = "to_over"
  /\ NetUnchanged
  /\ UNCHANGED <<bpVars, next_action, step_mode, overVars, stopVars, vmVars,
                 histVars>>

ToOver ==
  /\ main = "to_over"
  /\ main' = "fetch"
  /\ step_mode' = "OVER"
  /\ NetUnchanged
  /\ UNCHANGED <<bpVars, next_action, overVars, stopVars, vmVars, histVars>>

-----------------------------------------------------------------------------
(***************************************************************************)
(* The VM fetches the opcode.  A breakpoint opcode is unknown to it and    *)
(* reaches DebugServer::on_breakpoint through the CrashProc hook.          *)
(***************************************************************************)
FetchBreakpoint ==
  /\ main = "fetch"
  /\ bytecode[Here] = DEBUG_BREAKPOINT
  /\ main' = "bp_get"
  /\ NetUnchanged
  /\ UNCHANGED <<bpVars, next_action, step_mode, overVars, stopVars, vmVars,
                 histVars>>

\* Mutant: breakpoints are looked up by their offset alone.
BreakpointGetByOffset ==
  /\ main = "bp_get"
  /\ main' = "bp_swap"
  /\ \E s \in Sites :
       /\ s[2] = Top.pc
       /\ breakpoints[s] # Unset
       /\ bp' = [site |-> Here, op |-> breakpoints[s]]
  /\ NetUnchanged
  /\ UNCHANGED <<bpVars, next_action, step_mode, overVars, taken, reason,
                 vmVars, histVars>>

\* get_breakpoint returns a copy; on_breakpoint uses it without a check, and
\* an empty optional is undefined behaviour: nothing is said after it.
BreakpointGet ==
  /\ main = "bp_get"
  /\ IF breakpoints[Here] = Unset
     THEN main' = "undefined" /\ UNCHANGED bp
     ELSE /\ main' = "bp_swap"
          /\ bp' = [site |-> Here, op |-> breakpoints[Here]]
  /\ NetUnchanged
  /\ UNCHANGED <<bpVars, next_action, step_mode, overVars, taken, reason,
                 vmVars, histVars>>

BreakpointSwap ==
  /\ main = "bp_swap"
  /\ main' = "bp_keep"
  /\ bytecode' = [bytecode EXCEPT ![bp.site] = bp.op]
  /\ bp' = [bp EXCEPT !.op = bytecode[bp.site]]
  /\ NetUnchanged
  /\ UNCHANGED <<breakpoints, breakpoint_to_restore, next_action, step_mode,
                 overVars, taken, reason, vmVars, histVars>>

\* breakpoint_to_restore = bp, and the stop is sent to the client.
BreakpointKeep ==
  /\ main = "bp_keep"
  /\ main' = "wait"
  /\ breakpoint_to_restore' = {bp}
  /\ reason' = "breakpoint opcode"
  /\ NetUnchanged
  /\ UNCHANGED <<bytecode, breakpoints, next_action, step_mode, overVars, bp,
                 taken, vmVars, histVars>>

-----------------------------------------------------------------------------
(***************************************************************************)
(* wait_for_action and on_break.  The predicate is tested under the lock;  *)
(* going to sleep releases it in the same step.                            *)
(***************************************************************************)
\* Mutant: the action is read and not reset to WAIT.
WaitKeepsAction ==
  /\ main = "wait"
  /\ IF next_action = "WAIT"
     THEN main' = "blocked" /\ UNCHANGED taken
     ELSE main' = "act" /\ taken' = next_action
  /\ NetUnchanged
  /\ UNCHANGED <<bpVars, next_action, step_mode, overVars, bp, reason, vmVars,
                 histVars>>

WaitForAction ==
  /\ main = "wait"
  /\ IF next_action = "WAIT"
     THEN main' = "blocked" /\ UNCHANGED <<next_action, taken>>
     ELSE /\ main' = "act"
          /\ taken' = next_action
          /\ next_action' = "WAIT"
  /\ NetUnchanged
  /\ UNCHANGED <<bpVars, step_mode, overVars, bp, reason, vmVars, histVars>>

\* A condition variable may wake by itself: the predicate is tested again.
SpuriousWakeup ==
  /\ main = "blocked"
  /\ main' = "wait"
  /\ NetUnchanged
  /\ UNCHANGED <<bpVars, next_action, step_mode, overVars, stopVars, vmVars,
                 histVars>>

\* Mutant: OVER is armed at once, before the replaced instruction ran.
StepOverAtOnce(n, kind) ==
  /\ step_mode' = "OVER"
  /\ over_seq' = stack[n].seq
  /\ over_parent_seq' = Parent(n)
  /\ step_from' = [kind |-> kind, seq |-> Top.seq]

\* The switch of on_break: the mode, the two sequence numbers, the history.
StepOver(n, kind) ==
  /\ step_mode' = "PRE_OVER"
  /\ over_seq' = stack[n].seq
  /\ over_parent_seq' = Parent(n)
  /\ step_from' = [kind |-> kind, seq |-> Top.seq]

SetMode(m) ==
  /\ step_mode' = m
  /\ step_from' = NoStep
  /\ UNCHANGED overVars

\* Mutant: a step out targets the frame it is given in.
OnBreakOutIsOver(a) ==
  CASE a = "STEP_INTO" -> SetMode("INTO")
    [] a = "STEP_OVER" -> StepOver(Len(stack), "over")
    [] a = "STEP_OUT" -> StepOver(Len(stack), "out")
    [] OTHER -> SetMode("NONE")

OnBreak(a) ==
  CASE a = "STEP_INTO" -> SetMode("INTO")
    [] a = "STEP_OVER" -> StepOver(Len(stack), "over")
    [] a = "STEP_OUT" /\ Len(stack) > 1 -> StepOver(Len(stack) - 1, "out")
    [] OTHER -> SetMode("NONE")

\* on_breakpoint steps current_opcode back, so the instruction that the
\* breakpoint replaced is reached again, hook included; on_step goes on to
\* the fetch of the instruction it stopped before.
BreakReturns ==
  /\ main = "act"
  /\ reason # "runtime"
  /\ OnBreak(taken)
  /\ main' = IF reason = "breakpoint opcode" THEN "hook" ELSE "fetch"
  /\ progress' = FALSE
  /\ NetUnchanged
  /\ UNCHANGED <<bpVars, next_action, stopVars, vmVars>>

-----------------------------------------------------------------------------
(***************************************************************************)
(* The BYOND virtual machine, from how the code in src/ relies on it: the  *)
(* instruction at the current site moves the current frame, calls, ends or *)
(* suspends; with no frame left the scheduler starts or wakes a proc.      *)
(***************************************************************************)
Resumes(st) ==
  /\ stack' = st
  /\ main' = IF st = <<>> THEN "idle" ELSE "hook"
  /\ progress' = TRUE

Advanced(o) == [stack EXCEPT ![Len(stack)].pc = o]
Popped == SubSeq(stack, 1, Len(stack) - 1)
Next_pc == Top.pc + 1

Execute ==
  /\ main = "fetch"
  /\ \/ /\ bytecode[Here] \in {"LINENO", "OP", "CALL"}
        /\ Resumes(Advanced(Next_pc))
        /\ UNCHANGED asleep
     \/ /\ bytecode[Here] = "JMP"
        /\ \E o \in Offsets : Resumes(Advanced(o))
        /\ UNCHANGED asleep
     \/ /\ bytecode[Here] = "CALL"
        /\ \E q \in Procs, f \in FreshIds :
             Resumes(Append(Advanced(Next_pc), [proc |-> q, pc |-> 0, seq |-> f]))
        /\ UNCHANGED asleep
     \/ /\ bytecode[Here] = "RET"
        /\ Resumes(Popped)
        /\ UNCHANGED asleep
     \/ /\ bytecode[Here] = "SLEEP"
        /\ asleep' = asleep \cup {Advanced(Next_pc)}
        /\ Resumes(<<>>)
  /\ NetUnchanged
  /\ UNCHANGED <<bpVars, next_action, step_mode, overVars, stopVars, step_from>>

\* hRuntime: with break_on_runtimes, on_error waits for an action before the
\* original handler ends the proc.
RuntimeError ==
  /\ main = "fetch"
  /\ bytecode[Here] = "OP"
  /\ IF break_on_runtimes
     THEN /\ main' = "wait"
          /\ reason' = "runtime"
          /\ UNCHANGED <<stack, progress>>
     ELSE /\ Resumes(Popped)
          /\ UNCHANGED reason
  /\ NetUnchanged
  /\ UNCHANGED <<bpVars, next_action, step_mode, overVars, bp, taken, asleep,
                 step_from>>

\* on_error drops the action it waited for.
RuntimeReturns ==
  /\ main = "act"
  /\ reason = "runtime"
  /\ Resumes(Popped)
  /\ NetUnchanged
  /\ UNCHANGED <<bpVars, next_action, step_mode, overVars, stopVars, asleep,
                 step_from>>

StartProc ==
  /\ main = "idle"
  /\ main' = "hook"
  /\ \E p \in Procs, f \in FreshIds : stack' = <<[proc |-> p, pc |-> 0, seq |-> f]>>
  /\ NetUnchanged
  /\ UNCHANGED <<bpVars, next_action, step_mode, overVars, stopVars, asleep,
                 histVars>>

WakeProc ==
  /\ main = "idle"
  /\ main' = "hook"
  /\ \E st \in asleep : stack' = st /\ asleep' = asleep \ {st}
  /\ NetUnchanged
  /\ UNCHANGED <<bpVars, next_action, step_mode, overVars, stopVars, histVars>>

Hook ==
  \/ HookRestore \/ Restore \/ RestoreSwap
  \/ ModeNone \/ ModePause \/ ModeInto \/ ModeOver \/ ModePreOver \/ ToOver

Break ==
  \/ FetchBreakpoint \/ BreakpointGet \/ BreakpointSwap \/ BreakpointKeep
  \/ WaitForAction \/ BreakReturns \/ RuntimeReturns

Main == Hook \/ Break \/ SpuriousWakeup \/ Execute \/ RuntimeError
        \/ StartProc \/ WakeProc

Next == Client \/ Handler \/ Main

Spec == Init /\ [][Next]_vars

(***************************************************************************)
(* Both threads are OS threads that are always scheduled again: a message  *)
(* handler finishes, and the main thread runs whatever code follows a      *)
(* wakeup.  Nothing obliges the client to send, the scheduler to start a   *)
(* proc or the condition variable to wake spuriously.                      *)
(***************************************************************************)
FairSpec ==
  /\ Spec
  /\ WF_vars(Handler)
  /\ WF_vars(Hook)
  /\ WF_vars(Break)
  /\ WF_vars(Execute)

-----------------------------------------------------------------------------
(* Every variable keeps its type (the fields of DebugServer and the threads' *)
(* locals, debug_server.h:67-105).                                           *)
TypeOK ==
  /\ bytecode \in [Sites -> Opcodes]
  /\ breakpoints \in [Sites -> Opcodes \cup {Unset}]
  /\ breakpoint_to_restore = {} \/ \E b \in Breakpoint : breakpoint_to_restore = {b}
  /\ next_action \in Commands \cup {"WAIT"}
  /\ step_mode \in StepModes
  /\ over_seq \in FrameIds \cup {NoFrame}
  /\ over_parent_seq \in FrameIds \cup {NoFrame}
  /\ break_on_runtimes \in BOOLEAN
  /\ loop \in {"configuring", "running", "ended"}
  /\ net \in NetPlaces
  /\ net_site \in Sites
  /\ net_op \in Opcodes
  /\ main \in MainPlaces
  /\ bp \in Breakpoint
  /\ taken \in Commands \cup {"WAIT"}
  /\ reason \in Reasons
  /\ stack \in Seq(Frame)
  /\ asleep \subseteq Seq(Frame)
  /\ progress \in BOOLEAN
  /\ step_from \in StepFrom

(***************************************************************************)
(* Properties of the patched bytecode, for a patient client.               *)
(***************************************************************************)

(* Patching never loses an instruction: the map remembers the compiled one   *)
(* and the bytecode holds it or the breakpoint opcode, through any order of  *)
(* sets, unsets, hits and restores (set_, remove_ and restore_breakpoint).   *)
OriginalsKept ==
  \A s \in Sites : /\ breakpoints[s] \in {Unset, Code[s]}
                   /\ bytecode[s] \in {Code[s], DEBUG_BREAKPOINT}

(* The weaker form that any client leaves true: no site ever holds, or has   *)
(* saved, an instruction of another site.                                    *)
OwnInstructions ==
  /\ \A s \in Sites : /\ bytecode[s] \in {Code[s], DEBUG_BREAKPOINT}
                      /\ breakpoints[s] \in {Unset, Code[s], DEBUG_BREAKPOINT}
  /\ \A b \in breakpoint_to_restore : b.op \in {Code[b.site], DEBUG_BREAKPOINT}

(* The breakpoint opcode stands only where the map has an entry to handle    *)
(* it: an unset breakpoint is never written back by a pending restore.       *)
NoStrayOpcode ==
  \A s \in Sites : bytecode[s] = DEBUG_BREAKPOINT =>
    breakpoints[s] # Unset \/ (net = "set_map" /\ net_site = s)

(* on_breakpoint never dereferences an empty optional (debug_server.cpp:383) *)
HitsAreKnown == main # "undefined"

(* A breakpoint in the map stands in the bytecode, or is the one about to be *)
(* put back: "this will ensure any running procs will also hit this"         *)
(* (set_breakpoint, debug_server.cpp:329).                                   *)
StaysArmed ==
  \A s \in Sites : breakpoints[s] # Unset =>
    \/ bytecode[s] = DEBUG_BREAKPOINT
    \/ \E b \in breakpoint_to_restore : b.site = s
    \/ main = "bp_keep" /\ bp.site = s
    \/ net = "unset_map" /\ net_site = s

(***************************************************************************)
(* Properties of stopping, waiting and stepping, for any client.           *)
(***************************************************************************)

(* No lost wakeup: the main thread is never asleep on the condition variable *)
(* while an action waits for it (wait_for_action against handle_one_message) *)
BlockedMeansNoAction == main = "blocked" => next_action = "WAIT"

\* The main thread makes the stop of a completed step over or out.
OverStops == main = "mode" /\ step_mode = "OVER" /\ main' = "wait"

(* A step over or out runs at least one instruction before it stops again,   *)
(* even from a breakpoint, whose instruction goes through the hook twice.    *)
OverMakesProgress == [][OverStops => progress]_vars

(* A step over never stops in a callee of the frame it was given in, and a   *)
(* step out never before that frame is gone (on_singlestep's comparisons).   *)
StepLandsWhereAsked ==
  [][OverStops =>
       CASE step_from.kind = "over" -> step_from.seq \notin Ids(Popped)
         [] step_from.kind = "out"  -> step_from.seq \notin Ids(stack)
         [] OTHER -> FALSE]_vars

(* The two threads implement the abstract handshake: the main thread leaves  *)
(* wait_for_action only by taking the one command in the slot, and a command *)
(* is only ever replaced by a command or taken.                              *)
Handshake == INSTANCE BreakHandshake WITH
  GoCommands <- Commands,
  NoCommand  <- "WAIT",
  phase      <- IF main \in {"wait", "blocked"} THEN "stopped" ELSE "running",
  slot       <- next_action

HandshakeSpec == Handshake!Spec

(* A pause stops the program at its next instruction, unless on_break or the *)
(* change from PRE_OVER to OVER is about to overwrite the mode.              *)
PauseStops ==
  (step_mode = "PAUSE" /\ main \notin {"to_over", "wait", "blocked", "act"})
    ~> (main \in {"wait", "idle", "configuring", "undefined"})
=============================================================================
