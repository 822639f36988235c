--------------------------------- MODULE Tffi ---------------------------------
(***************************************************************************)
(* Threaded FFI: a DM proc calls a function of a foreign library, a worker *)
(* thread runs it and writes the result into a /datum/promise, and a proc  *)
(* that resolves the promise is suspended until the worker resumes it.     *)
(*                                                                         *)
(* The main thread runs one DM proc at a time and switches between them    *)
(* only where they sleep.  The worker threads run beside it; the map of    *)
(* suspended procs is protected by a mutex, the promise datums are not.    *)
(* A promise is known by two numbers: its datum id, which BYOND reuses as  *)
(* soon as the datum is freed, and __id, which only grows.                 *)
(***************************************************************************)
EXTENDS Integers, FiniteSets

CONSTANTS
  Procs,        (* running DM procs.                                         *)
  Datums,       (* datum ids.                                                *)
  MaxPromises,  (* bound: how many promises are ever made.                   *)
  None

Ids == 0 .. MaxPromises - 1

ASSUME TffiAssumption ==
  /\ MaxPromises \in Nat
  /\ None \notin Procs /\ None \notin Datums /\ None \notin Ids

VARIABLES
  rewritten,        (* TRUE: __internal_resolve suspends; FALSE: its DM      *)
                    (* code, which polls, runs (not on Windows).             *)
  discards,         (* TRUE: the program may drop a promise while its worker *)
                    (* runs.                                                 *)
  next_promise_id,
  live,             (* the datum ids that are promises now.                  *)
  __id,             (* the fields of the promise at each datum id.           *)
  completed,
  result,
  held,             (* proc -> the datum id of the promise it refers to.     *)
  where,            (* proc -> where it is.                                  *)
  suspended_procs,  (* __id -> the suspended proc, or None.                  *)
  worker,           (* __id -> where the thread of that call is.             *)
  promise_id,       (* its argument: the datum id.                           *)
  internal_id,      (* its local: the __id it read.                          *)
  resolved,         (* history: the __ids resolve was called for.            *)
  returned          (* history: proc -> the last call resolved, its result.  *)

setup       == <<rewritten, discards>>
dmVars      == <<setup, next_promise_id, held, resolved, returned>>
promiseVars == <<live, __id, completed, result>>
localVars   == <<promise_id, internal_id>>
workerVars  == <<worker, localVars>>
vars == <<dmVars, promiseVars, where, suspended_procs, workerVars>>

\* The result of a call is represented by the call's own __id.
ProcPlaces == {"idle", "holds", "spawned", "polling", "asleep", "scheduled"}
WorkerPlaces == {"none", "running", "completing", "reading", "waiting",
                 "blocked", "ended", "undefined"}

Init ==
  /\ rewritten \in BOOLEAN
  /\ discards \in BOOLEAN
  /\ next_promise_id = 0
  /\ live = {}
  /\ __id = [d \in Datums |-> None]
  /\ completed = [d \in Datums |-> FALSE]
  /\ result = [d \in Datums |-> None]
  /\ held = [p \in Procs |-> None]
  /\ where = [p \in Procs |-> "idle"]
  /\ suspended_procs = [i \in Ids |-> None]
  /\ worker = [i \in Ids |-> "none"]
  /\ promise_id = [i \in Ids |-> None]
  /\ internal_id = [i \in Ids |-> None]
  /\ resolved = {}
  /\ returned = [p \in Procs |-> [call |-> None, result |-> None]]

-----------------------------------------------------------------------------
(***************************************************************************)
(* DM code and the two entry points it calls, on the main thread.          *)
(***************************************************************************)

\* call_async finds the function and starts the thread, or answers an error.
Starts == {"running", "none"}

\* /proc/call_async makes the promise and starts the thread; the DM code does
\* not look at the error call_async answers, and returns the promise anyway.
\* /proc/call_cb does the same for a proc it spawns, which resolves next.
CallAsync(p, d, place) ==
  /\ where[p] = "idle"
  /\ d \notin live
  /\ next_promise_id \in Ids
  /\ next_promise_id' = next_promise_id + 1
  /\ live' = live \cup {d}
  /\ __id' = [__id EXCEPT ![d] = next_promise_id]
  /\ completed' = [completed EXCEPT ![d] = FALSE]
  /\ result' = [result EXCEPT ![d] = None]
  /\ held' = [held EXCEPT ![p] = d]
  /\ where' = [where EXCEPT ![p] = place]
  /\ \E start \in Starts : worker' = [worker EXCEPT ![next_promise_id] = start]
  /\ promise_id' = [promise_id EXCEPT ![next_promise_id] = d]
  /\ UNCHANGED <<setup, suspended_procs, internal_id, resolved, returned>>

\* DM code hands the promise to another proc.
Share(p, q) ==
  /\ where[p] = "holds"
  /\ where[q] = "idle"
  /\ held' = [held EXCEPT ![q] = held[p]]
  /\ where' = [where EXCEPT ![q] = "holds"]
  /\ UNCHANGED <<setup, next_promise_id, promiseVars, suspended_procs, workerVars,
                 resolved, returned>>

\* A definition marked "Mutant" is no part of the model: it is the slip its
\* name says, kept to show which property notices it.

\* The last reference to a promise frees the datum, and its id.
Drop(p) ==
  /\ where[p] = "holds"
  /\ discards \/ worker[__id[held[p]]] \in {"none", "ended"}
  /\ held' = [held EXCEPT ![p] = None]
  /\ where' = [where EXCEPT ![p] = "idle"]
  /\ live' = IF \E q \in Procs \ {p} : held[q] = held[p] THEN live
             ELSE live \ {held[p]}
  /\ UNCHANGED <<setup, next_promise_id, __id, completed, result, suspended_procs,
                 workerVars, resolved, returned>>

MayResolve(p) == where[p] \in {"holds", "spawned"}

\* Mutant: notify_all is forgotten.
SuspendWithoutNotify(p) ==
  LET id == __id[held[p]] IN
  /\ rewritten
  /\ MayResolve(p)
  /\ where' = [where EXCEPT ![p] = "asleep"]
  /\ suspended_procs' =
       [suspended_procs EXCEPT ![id] = IF @ = None THEN p ELSE @]
  /\ resolved' = resolved \cup {id}
  /\ UNCHANGED <<setup, next_promise_id, promiseVars, held, workerVars, returned>>

\* tffi_suspend: the map's insert keeps an entry that is already there, and
\* the proc is suspended all the same.  notify_all runs under the lock.
Suspend(p) ==
  LET id == __id[held[p]] IN
  /\ rewritten
  /\ MayResolve(p)
  /\ where' = [where EXCEPT ![p] = "asleep"]
  /\ suspended_procs' =
       [suspended_procs EXCEPT ![id] = IF @ = None THEN p ELSE @]
  /\ worker' = [i \in Ids |->
       IF worker[i] = "blocked" THEN "waiting" ELSE worker[i]]
  /\ resolved' = resolved \cup {id}
  /\ UNCHANGED <<setup, next_promise_id, promiseVars, held, localVars, returned>>

\* The DM code of __internal_resolve, where it was not rewritten.
StartPolling(p) ==
  /\ ~rewritten
  /\ MayResolve(p)
  /\ where' = [where EXCEPT ![p] = "polling"]
  /\ resolved' = resolved \cup {__id[held[p]]}
  /\ UNCHANGED <<setup, next_promise_id, promiseVars, held, suspended_procs,
                 workerVars, returned>>

\* resolve returns what the promise holds when __internal_resolve is over.
Return(p) ==
  /\ \/ where[p] = "scheduled"
     \/ where[p] = "polling" /\ completed[held[p]]
  /\ where' = [where EXCEPT ![p] = "holds"]
  /\ returned' = [returned EXCEPT ![p] =
       [call |-> __id[held[p]], result |-> result[held[p]]]]
  /\ UNCHANGED <<setup, next_promise_id, promiseVars, held, suspended_procs,
                 workerVars, resolved>>

-----------------------------------------------------------------------------
(***************************************************************************)
(* ffi_thread.  It reaches the promise by its datum id; nothing is said of *)
(* a thread that touches a datum which was freed.                          *)
(***************************************************************************)
Freed(i) == promise_id[i] \notin live

\* Mutant: completed is written where the result should be.
CompletedBeforeResult(i) ==
  /\ worker[i] = "running"
  /\ ~Freed(i)
  /\ worker' = [worker EXCEPT ![i] = "completing"]
  /\ completed' = [completed EXCEPT ![promise_id[i]] = TRUE]
  /\ UNCHANGED <<dmVars, live, __id, result, where, suspended_procs, localVars>>

\* The foreign function returns, and its result is written.
SetResult(i) ==
  /\ worker[i] = "running"
  /\ IF Freed(i)
     THEN worker' = [worker EXCEPT ![i] = "undefined"] /\ UNCHANGED result
     ELSE /\ worker' = [worker EXCEPT ![i] = "completing"]
          /\ result' = [result EXCEPT ![promise_id[i]] = i]
  /\ UNCHANGED <<dmVars, live, __id, completed, where, suspended_procs,
                 localVars>>

\* Mutant: the promise is never completed.
SetCompletedForgotten(i) ==
  /\ worker[i] = "completing"
  /\ worker' = [worker EXCEPT ![i] = "reading"]
  /\ UNCHANGED <<dmVars, promiseVars, where, suspended_procs, localVars>>

SetCompleted(i) ==
  /\ worker[i] = "completing"
  /\ IF Freed(i)
     THEN worker' = [worker EXCEPT ![i] = "undefined"] /\ UNCHANGED completed
     ELSE /\ worker' = [worker EXCEPT ![i] = "reading"]
          /\ completed' = [completed EXCEPT ![promise_id[i]] = TRUE]
  /\ UNCHANGED <<dmVars, live, __id, result, where, suspended_procs, localVars>>

ReadId(i) ==
  /\ worker[i] = "reading"
  /\ IF Freed(i)
     THEN worker' = [worker EXCEPT ![i] = "undefined"] /\ UNCHANGED internal_id
     ELSE /\ worker' = [worker EXCEPT ![i] = "waiting"]
          /\ internal_id' = [internal_id EXCEPT ![i] = __id[promise_id[i]]]
  /\ UNCHANGED <<dmVars, promiseVars, where, suspended_procs, promise_id>>

\* The predicate is false: the lock is released and the thread sleeps at once.
Block(i) ==
  /\ worker[i] = "waiting"
  /\ suspended_procs[internal_id[i]] = None
  /\ worker' = [worker EXCEPT ![i] = "blocked"]
  /\ UNCHANGED <<dmVars, promiseVars, where, suspended_procs, localVars>>

SpuriousWakeup(i) ==
  /\ worker[i] = "blocked"
  /\ worker' = [worker EXCEPT ![i] = "waiting"]
  /\ UNCHANGED <<dmVars, promiseVars, where, suspended_procs, localVars>>

\* resume and erase, under one lock.
Resume(i) ==
  /\ worker[i] = "waiting"
  /\ suspended_procs[internal_id[i]] # None
  /\ worker' = [worker EXCEPT ![i] = "ended"]
  /\ where' = [where EXCEPT ![suspended_procs[internal_id[i]]] = "scheduled"]
  /\ suspended_procs' = [suspended_procs EXCEPT ![internal_id[i]] = None]
  /\ UNCHANGED <<dmVars, promiseVars, localVars>>

Dm(p) ==
  \/ \E d \in Datums, place \in {"holds", "spawned"} : CallAsync(p, d, place)
  \/ \E q \in Procs : Share(p, q)
  \/ Drop(p) \/ Suspend(p) \/ StartPolling(p) \/ Return(p)

Thread(i) ==
  SetResult(i) \/ SetCompleted(i) \/ ReadId(i) \/ Block(i) \/ Resume(i)

Next ==
  \/ \E p \in Procs : Dm(p)
  \/ \E i \in Ids : Thread(i) \/ SpuriousWakeup(i)

Spec == Init /\ [][Next]_vars

\* Foreign functions return, threads are scheduled, and so are awake procs.
FairSpec ==
  /\ Spec
  /\ \A i \in Ids : WF_vars(Thread(i))
  /\ \A p \in Procs : WF_vars(Return(p))

-----------------------------------------------------------------------------
(* Every variable keeps its type, and only procs that refer to a promise are *)
(* anywhere but idle (tffi.cpp:11, _extools_api.dm:55-63).                   *)
TypeOK ==
  /\ rewritten \in BOOLEAN /\ discards \in BOOLEAN
  /\ next_promise_id \in 0 .. MaxPromises
  /\ live \subseteq Datums
  /\ __id \in [Datums -> Ids \cup {None}]
  /\ completed \in [Datums -> BOOLEAN]
  /\ result \in [Datums -> Ids \cup {None}]
  /\ held \in [Procs -> Datums \cup {None}]
  /\ where \in [Procs -> ProcPlaces]
  /\ suspended_procs \in [Ids -> Procs \cup {None}]
  /\ worker \in [Ids -> WorkerPlaces]
  /\ promise_id \in [Ids -> Datums \cup {None}]
  /\ internal_id \in [Ids -> Ids \cup {None}]
  /\ resolved \subseteq Ids
  /\ returned \in [Procs -> [call : Ids \cup {None}, result : Ids \cup {None}]]
  /\ \A p \in Procs : where[p] # "idle" => held[p] \in live

(* No lost wakeup: no thread sleeps on the condition variable while the proc *)
(* it waits for is in the map (tffi_suspend against ffi_thread).             *)
NoLostWakeup ==
  \A i \in Ids :
    worker[i] = "blocked" => suspended_procs[internal_id[i]] = None

(* The map only holds procs that still sleep, each under the __id of the     *)
(* promise it resolves: resume never starts a proc twice (tffi.cpp:56-57).   *)
SuspendedKeys ==
  \A i \in Ids : suspended_procs[i] # None =>
    LET p == suspended_procs[i]
    IN  where[p] = "asleep" /\ __id[held[p]] = i

(* resolve returns what the function of its own call returned, and not       *)
(* before it did: "sleeps until do_work returns" (_extools_api.dm:30).       *)
ReturnsOwnResult ==
  \A p \in Procs : returned[p].result = returned[p].call

(* So it does in a program that keeps every promise until its worker ended.  *)
KeptReturnsOwnResult == ~discards => ReturnsOwnResult

\* p waits for the result of a call that was made, in a program that keeps it.
Waits(p) ==
  /\ ~discards
  /\ where[p] \in {"asleep", "polling"}
  /\ worker[__id[held[p]]] # "none"

(* Every proc that polls goes on in the end, "at any time"                   *)
(* (_extools_api.dm:23), and so does the proc that resolves a promise first  *)
(* (the one tffi_suspend puts into the map), whenever the worker finishes.   *)
FirstResolveReturns ==
  \A p \in Procs :
    ( /\ Waits(p)
      /\ \/ where[p] = "polling"
         \/ /\ suspended_procs[__id[held[p]]] = p
            /\ worker[__id[held[p]]] # "ended" )
      ~> where[p] = "holds"

(* The thread of a call somebody resolves comes to its end (ffi_thread),     *)
(* where __internal_resolve was rewritten.                                   *)
ThreadsEnd ==
  \A i \in Ids :
    (rewritten /\ ~discards /\ i \in resolved /\ worker[i] # "none")
      ~> worker[i] = "ended"
=============================================================================
