---------------------------- MODULE MCDebugServer ----------------------------
(* Small instances of DebugServer: two procs of a few instructions.          *)
EXTENDS DebugServer, TLC

CONSTANTS p, q, f1, f2

ProcsPQ == {p, q}
Assemble(code) == [s \in {p, q} \X (0 .. Len(code[p]) - 1) |-> code[s[1]][s[2] + 1]]

\* A caller with two lines; a callee that sleeps, jumps and may fail.
CallCode == Assemble(p :> <<"LINENO", "CALL", "LINENO", "RET">> @@
                     q :> <<"OP", "SLEEP", "JMP", "RET">>)

\* A caller that loops around its call; a callee of two lines.
StepCode == Assemble(p :> <<"CALL", "LINENO", "JMP">> @@
                     q :> <<"LINENO", "LINENO", "RET">>)

CallSites == {<<p, 0>>, <<p, 1>>, <<q, 1>>}
EntrySites == {<<p, 0>>, <<q, 0>>}

EditAndStep == {"SET", "UNSET", "RESUME", "STEP_INTO", "TOGGLE_RUNTIMES"}
Steps == {"SET", "RESUME", "STEP_OVER", "STEP_OUT", "PAUSE"}
EditOnly == {"SET", "UNSET", "RESUME"}

FrameSymmetry == Permutations(FrameIds)
=============================================================================
