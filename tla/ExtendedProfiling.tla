-------------------------- MODULE ExtendedProfiling --------------------------
(***************************************************************************)
(* The extended profiler: three hooks on the start, the suspension and the *)
(* end of a proc's context keep one profile per proc id.  A profile is     *)
(* written to a file whenever its proc sleeps or ends.                     *)
(*                                                                         *)
(* A call made by the proc on top of a profile is pushed on that profile's *)
(* call stack; the line after that uses the pointer it has just given away *)
(* and the program is lost.  So a profile that lives holds no sub-call.    *)
(***************************************************************************)
EXTENDS Naturals, SequencesExt

CONSTANTS
  Procs,
  NoProc,     (* no proc id.                                                 *)
  MaxDepth,   (* bound: contexts, running and asleep.                        *)
  MaxId       (* bound: profiles created.                                    *)

ASSUME ProfilingAssumption == NoProc \notin Procs

VARIABLES
  procs_to_profile,
  profiles,            (* proc -> the id of its running profile, or 0.       *)
  sleeping_profiles,   (* proc -> the id of its sleeping profile, or 0.      *)
  next_profile_id,
  new_call,            (* the proc id hCallGlobalProc stored last, or NoProc.*)
  running,             (* the call stack: contexts, the innermost last.      *)
  asleep,              (* suspended contexts.                                *)
  lost,                (* TRUE: the null pointer was used.                   *)
  enabled,             (* history: the procs last asked to be profiled.      *)
  killed,              (* history: procs of which a sleeping run was killed. *)
  missed               (* history: procs of which a run, or a part of it up  *)
                       (* to a sleep, was not recorded.                      *)

profileVars == <<procs_to_profile, profiles, sleeping_profiles, next_profile_id>>
contextVars == <<new_call, running, asleep, lost>>
vars == <<profileVars, contextVars, enabled, killed, missed>>

Contexts == [proc : Procs, wanted : BOOLEAN, alone : BOOLEAN]

Init ==
  /\ procs_to_profile = {}
  /\ profiles = [p \in Procs |-> 0] /\ sleeping_profiles = [p \in Procs |-> 0]
  /\ next_profile_id = 1
  /\ new_call = NoProc /\ running = <<>> /\ asleep = <<>> /\ lost = FALSE
  /\ enabled = {} /\ killed = {} /\ missed = {}

\* enable_extended_profiling and disable_extended_profiling
Enable(p) ==
  /\ procs_to_profile' = procs_to_profile \cup {p}
  /\ enabled' = enabled \cup {p}
  /\ UNCHANGED <<profiles, sleeping_profiles, next_profile_id, contextVars, killed, missed>>

\* Its runs are no longer asked for, those that go on included.
NotWanted(s, p) ==
  [i \in DOMAIN s |-> IF s[i].proc = p THEN [s[i] EXCEPT !.wanted = FALSE] ELSE s[i]]

Disable(p) ==
  /\ procs_to_profile' = procs_to_profile \ {p}
  /\ enabled' = enabled \ {p}
  /\ running' = NotWanted(running, p) /\ asleep' = NotWanted(asleep, p)
  /\ UNCHANGED <<profiles, sleeping_profiles, next_profile_id, new_call, lost, killed, missed>>

\* Mutant: a resumed proc is taken for a new call.
EveryStartIsNew(p) == profiles[p] # 0 \/ sleeping_profiles[p] # 0

Ignored(p) == profiles[p] # 0 \/ (new_call' = p /\ sleeping_profiles[p] # 0)

\* hCreateContext, for a call (new_call' = p) or a resumption.
CreateContext(p, caller) ==
  \/ /\ Ignored(p)
     /\ UNCHANGED <<profileVars, lost>>
  \/ /\ ~ Ignored(p) /\ sleeping_profiles[p] # 0
     /\ profiles' = [profiles EXCEPT ![p] = sleeping_profiles[p]]
     /\ sleeping_profiles' = [sleeping_profiles EXCEPT ![p] = 0]
     /\ UNCHANGED <<procs_to_profile, next_profile_id, lost>>
  \/ /\ ~ Ignored(p) /\ sleeping_profiles[p] = 0 /\ p \in procs_to_profile
     /\ next_profile_id <= MaxId
     /\ profiles' = [profiles EXCEPT ![p] = next_profile_id]
     /\ next_profile_id' = next_profile_id + 1
     /\ procs_to_profile' = procs_to_profile \ {p}
     /\ UNCHANGED <<sleeping_profiles, lost>>
  \/ /\ ~ Ignored(p) /\ sleeping_profiles[p] = 0 /\ p \notin procs_to_profile
     /\ lost' = (caller # NoProc /\ profiles[caller] # 0)
     /\ UNCHANGED profileVars

Others(p) == \E i \in DOMAIN running : running[i].proc = p
NotAlone(s, p) == [i \in DOMAIN s |-> IF s[i].proc = p THEN [s[i] EXCEPT !.alone = FALSE] ELSE s[i]]
Caller == IF running = <<>> THEN NoProc ELSE Last(running).proc

\* A proc is called, by the innermost context or by BYOND itself.
Call(p) ==
  /\ ~ lost /\ Len(running) + Len(asleep) < MaxDepth
  /\ new_call' = p
  /\ CreateContext(p, Caller)
  /\ LET alone == \A i \in DOMAIN (running \o asleep) : (running \o asleep)[i].proc # p
     IN  running' = Append(NotAlone(running, p),
                           [proc |-> p, wanted |-> p \in enabled, alone |-> alone])
  /\ asleep' = NotAlone(asleep, p)
  /\ UNCHANGED <<enabled, killed, missed>>

\* BYOND's scheduler resumes a proc when nothing runs.
Resume(i) ==
  /\ ~ lost /\ running = <<>>
  /\ UNCHANGED new_call
  /\ CreateContext(asleep[i].proc, NoProc)
  /\ running' = <<asleep[i]>>
  /\ asleep' = RemoveAt(asleep, i)
  /\ UNCHANGED <<enabled, killed, missed>>

\* A context ends or sleeps, and its profile was written or not.
Missed(context, written) ==
  IF context.wanted /\ context.alone /\ ~ written THEN missed \cup {context.proc} ELSE missed

RequestedAgain(p) == procs_to_profile \cup {p}

\* hProcCleanup of a proc that ends: its profile is written and it is
\* profiled again; a sleeping profile of the same proc prevents that.
End ==
  /\ ~ lost /\ running # <<>>
  /\ LET p == Last(running).proc
         dumped == sleeping_profiles[p] = 0 /\ profiles[p] # 0
     IN  /\ profiles' = IF dumped THEN [profiles EXCEPT ![p] = 0] ELSE profiles
         /\ procs_to_profile' = IF dumped THEN RequestedAgain(p) ELSE procs_to_profile
         /\ missed' = Missed(Last(running), dumped)
  /\ running' = Front(running)
  /\ new_call' = NoProc
  /\ UNCHANGED <<sleeping_profiles, next_profile_id, asleep, lost, enabled, killed>>

\* Mutant: a sleeping proc keeps its profile running.
StillRunning(p) == sleeping_profiles

PutToSleep(p) == [sleeping_profiles EXCEPT ![p] = profiles[p]]

\* hSuspend, and the hProcCleanup of the suspended context, which the sleeping
\* profile turns into nothing; without profile it has nothing to do either.
Suspend ==
  /\ ~ lost /\ running # <<>>
  /\ LET p == Last(running).proc
     IN  IF profiles[p] # 0
         THEN /\ sleeping_profiles' = PutToSleep(p)
              /\ profiles' = [profiles EXCEPT ![p] = 0]
         ELSE UNCHANGED <<sleeping_profiles, profiles>>
  /\ missed' = Missed(Last(running), profiles[Last(running).proc] # 0)
  /\ asleep' = Append(asleep, Last(running))
  /\ running' = Front(running)
  /\ new_call' = NoProc
  /\ UNCHANGED <<procs_to_profile, next_profile_id, lost, enabled, killed>>

\* The object a sleeping proc belongs to is deleted: it never resumes, and
\* nobody tells the profiler.
Kill(i) ==
  /\ ~ lost
  /\ killed' = killed \cup {asleep[i].proc}
  /\ asleep' = RemoveAt(asleep, i)
  /\ UNCHANGED <<profileVars, new_call, running, lost, enabled, missed>>

Next ==
  \/ \E p \in Procs : Enable(p) \/ Disable(p) \/ Call(p)
  \/ \E i \in DOMAIN asleep : Resume(i) \/ Kill(i)
  \/ End \/ Suspend

Spec == Init /\ [][Next]_vars
--------------------------------------------------------------------------------
\* A run of a proc that was asked for when it was called is written to a file at
\* each of its sleeps and at its end, while stop_profiling is not called for the
\* proc: if no other run of the proc overlapped it and no sleeping run of the
\* proc was killed before (hCreateContext, hSuspend, hProcCleanup).  One file
\* collects its parts, and what becomes of it after stop_profiling is not said.
RunsRecorded == missed \subseteq killed

\* A proc has a running or a sleeping profile, never both; and a proc asked
\* for is waiting to be profiled or is being profiled.
NeverForgotten ==
  \A p \in Procs :
     /\ profiles[p] = 0 \/ sleeping_profiles[p] = 0
     /\ p \in enabled => p \in procs_to_profile \/ profiles[p] + sleeping_profiles[p] # 0

================================================================================
