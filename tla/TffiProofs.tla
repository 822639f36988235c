------------------------------ MODULE TffiProofs ------------------------------
(***************************************************************************)
(* Proofs about Tffi: what holds for every number of procs, datums, calls  *)
(* and threads, and what more holds while promises are kept.               *)
(***************************************************************************)
EXTENDS Tffi, TLAPS

(* Type correctness is inductive only with the keys of the map: that the     *)
(* proc a thread resumes still refers to a promise follows from its being    *)
(* asleep.                                                                   *)
TypeInv ==
  /\ TypeOK
  /\ SuspendedKeys
  /\ \A d \in live : __id[d] \in Ids
  /\ \A i \in Ids : worker[i] # "none" => promise_id[i] \in Datums
  /\ \A i \in Ids : worker[i] \in {"waiting", "blocked"} => internal_id[i] \in Ids

LEMMA TypeInit == Init => TypeInv
  BY TffiAssumption DEF Init, TypeInv, TypeOK, SuspendedKeys, ProcPlaces, WorkerPlaces, Ids

LEMMA TypeStep ==
  ASSUME TypeInv, Next
  PROVE  TypeInv'
<1> USE TffiAssumption DEF TypeInv, TypeOK, SuspendedKeys, ProcPlaces, WorkerPlaces
<1>1. ASSUME NEW p \in Procs, NEW d \in Datums, NEW place \in {"holds", "spawned"},
             CallAsync(p, d, place)
      PROVE  TypeInv'
  <2>1. next_promise_id' \in 0 .. MaxPromises
    BY <1>1 DEF CallAsync, Starts, Ids
  <2>2. QED
    BY <1>1, <2>1 DEF CallAsync, Starts, setup
<1>2. ASSUME NEW p \in Procs, NEW q \in Procs, Share(p, q)
      PROVE  TypeInv'
  BY <1>2 DEF Share, setup, workerVars, localVars, promiseVars
<1>3. ASSUME NEW p \in Procs, Drop(p)
      PROVE  TypeInv'
  BY <1>3 DEF Drop, setup, workerVars, localVars
<1>4. ASSUME NEW p \in Procs, Suspend(p)
      PROVE  TypeInv'
  BY <1>4 DEF Suspend, MayResolve, setup, localVars, promiseVars
<1>5. ASSUME NEW p \in Procs, StartPolling(p)
      PROVE  TypeInv'
  BY <1>5 DEF StartPolling, MayResolve, setup, workerVars, localVars, promiseVars
<1>6. ASSUME NEW p \in Procs, Return(p)
      PROVE  TypeInv'
  BY <1>6 DEF Return, setup, workerVars, localVars, promiseVars
<1>7. ASSUME NEW i \in Ids, Thread(i) \/ SpuriousWakeup(i)
      PROVE  TypeInv'
  <2>1. CASE SetResult(i)
    BY <2>1, SMTT(30) DEF SetResult, Freed, dmVars, setup, localVars
  <2>2. CASE SetCompleted(i)
    <3>1. completed' \in [Datums -> BOOLEAN]
      BY <2>2, ZenonT(60) DEF SetCompleted
    <3>2. QED
      BY <2>2, <3>1 DEF SetCompleted, Freed, dmVars, setup, localVars
  <2>3. CASE ReadId(i)
    BY <2>3, SMTT(30) DEF ReadId, Freed, dmVars, setup, promiseVars
  <2>4. CASE Block(i)
    BY <2>4 DEF Block, dmVars, setup, promiseVars, localVars
  <2>5. CASE Resume(i)
    BY <2>5 DEF Resume, dmVars, setup, promiseVars, localVars
  <2>6. CASE SpuriousWakeup(i)
    BY <2>6 DEF SpuriousWakeup, dmVars, setup, promiseVars, localVars
  <2>7. QED
    BY <1>7, <2>1, <2>2, <2>3, <2>4, <2>5, <2>6 DEF Thread
<1>8. QED
  BY <1>1, <1>2, <1>3, <1>4, <1>5, <1>6, <1>7 DEF Next, Dm

THEOREM TypeInvariance == Spec => []TypeInv
<1>1. TypeInv /\ UNCHANGED vars => TypeInv'
  BY DEF TypeInv, TypeOK, SuspendedKeys, vars, dmVars, setup, promiseVars, workerVars,
         localVars
<1>2. QED
  BY <1>1, TypeInit, TypeStep, PTL DEF Spec

(* Every variable keeps its type, for any number of procs and calls, and     *)
(* whether promises are dropped early or not.                                *)
THEOREM TypeCorrect == Spec => []TypeOK
<1>1. TypeInv => TypeOK
  BY DEF TypeInv
<1>2. QED
  BY <1>1, TypeInvariance, PTL

(* The map of suspended procs only ever holds sleeping procs under their own *)
(* keys, so no thread resumes a proc that runs or has ended.                 *)
THEOREM OnlySleepersAreResumed == Spec => []SuspendedKeys
<1>1. TypeInv => SuspendedKeys
  BY DEF TypeInv
<1>2. QED
  BY <1>1, TypeInvariance, PTL

LEMMA WakeupStep ==
  ASSUME TypeInv, NoLostWakeup, [Next]_vars
  PROVE  NoLostWakeup'
<1> USE DEF NoLostWakeup
<1>1. ASSUME NEW p \in Procs, Dm(p)
      PROVE  NoLostWakeup'
  <2>1. ASSUME NEW d \in Datums, NEW place \in {"holds", "spawned"},
               CallAsync(p, d, place)
        PROVE  NoLostWakeup'
    BY <2>1 DEF CallAsync, Starts, TypeInv, TypeOK
  <2>2. CASE Suspend(p)
    BY <2>2 DEF Suspend, localVars, TypeInv, TypeOK
  <2>3. ASSUME \/ \E q \in Procs : Share(p, q)
               \/ Drop(p) \/ StartPolling(p) \/ Return(p)
        PROVE  NoLostWakeup'
    BY <2>3 DEF Share, Drop, StartPolling, Return, workerVars, localVars
  <2>4. QED
    BY <1>1, <2>1, <2>2, <2>3 DEF Dm
<1>2. ASSUME NEW i \in Ids, Thread(i) \/ SpuriousWakeup(i)
      PROVE  NoLostWakeup'
  BY <1>2 DEF Thread, SetResult, SetCompleted, ReadId, Block, Resume,
     SpuriousWakeup, localVars, TypeInv, TypeOK
<1>3. CASE UNCHANGED vars
  BY <1>3 DEF vars, workerVars, localVars
<1>4. QED
  BY <1>1, <1>2, <1>3 DEF Next

(* No lost wakeup between tffi_suspend and any number of threads.            *)
THEOREM NoThreadMissesItsProc == Spec => []NoLostWakeup
<1>1. Init => NoLostWakeup
  BY DEF Init, NoLostWakeup
<1>2. TypeInv /\ NoLostWakeup /\ [Next]_vars => NoLostWakeup'
  BY WakeupStep
<1>3. QED
  BY <1>1, <1>2, TypeInvariance, PTL DEF Spec

-----------------------------------------------------------------------------
(***************************************************************************)
(* While promises are kept: no datum id is reused under a running thread,  *)
(* so a thread and its promise stay a pair until the thread has ended.     *)
(***************************************************************************)
Active == {"running", "completing", "reading", "waiting", "blocked"}

\* Threads only run for promises that were made.
IdsGrow ==
  /\ \A i \in Ids : i >= next_promise_id => worker[i] = "none"
  /\ \A d \in live : __id[d] < next_promise_id

\* The thread of a live promise has that promise, and the other way round.
Paired ==
  /\ \A d \in live : worker[__id[d]] # "none" => promise_id[__id[d]] = d
  /\ \A i \in Ids : worker[i] \in Active =>
       promise_id[i] \in live /\ __id[promise_id[i]] = i

\* What a thread has written by the time it is somewhere.
Written ==
  /\ \A i \in Ids : worker[i] \in Active \ {"running"} => result[promise_id[i]] = i
  /\ \A i \in Ids : worker[i] \in {"reading", "waiting", "blocked"} =>
       completed[promise_id[i]]
  /\ \A i \in Ids : worker[i] \in {"waiting", "blocked"} => internal_id[i] = i
  /\ \A d \in live : completed[d] => result[d] = __id[d]

KeptInv ==
  /\ IdsGrow
  /\ Paired
  /\ Written
  /\ \A p \in Procs : where[p] = "scheduled" => completed[held[p]]
  /\ ReturnsOwnResult

LEMMA KeptStep ==
  ASSUME ~discards, TypeInv, KeptInv, Next
  PROVE  KeptInv'
<1> USE TffiAssumption DEF TypeInv, TypeOK, SuspendedKeys, KeptInv, IdsGrow,
        Paired, Written, ReturnsOwnResult, Active
<1>1. ASSUME NEW p \in Procs, NEW d \in Datums, NEW place \in {"holds", "spawned"},
             CallAsync(p, d, place)
      PROVE  KeptInv'
  BY <1>1 DEF CallAsync, Starts, Ids
<1>2. ASSUME NEW p \in Procs, NEW q \in Procs, Share(p, q)
      PROVE  KeptInv'
  BY <1>2 DEF Share, setup, workerVars, localVars, promiseVars
<1>3. ASSUME NEW p \in Procs, Drop(p)
      PROVE  KeptInv'
  BY <1>3 DEF Drop, setup, workerVars, localVars
<1>4. ASSUME NEW p \in Procs, Suspend(p)
      PROVE  KeptInv'
  BY <1>4 DEF Suspend, MayResolve, setup, localVars, promiseVars
<1>5. ASSUME NEW p \in Procs, StartPolling(p)
      PROVE  KeptInv'
  BY <1>5 DEF StartPolling, MayResolve, setup, workerVars, localVars, promiseVars
<1>6. ASSUME NEW p \in Procs, Return(p)
      PROVE  KeptInv'
  BY <1>6 DEF Return, setup, workerVars, localVars, promiseVars
<1>7. ASSUME NEW i \in Ids, Thread(i) \/ SpuriousWakeup(i)
      PROVE  KeptInv'
  <2>1. CASE SetResult(i)
    BY <2>1 DEF SetResult, Freed, dmVars, setup, localVars
  <2>2. CASE SetCompleted(i)
    <3>1. /\ worker[i] = "completing"
          /\ worker' = [worker EXCEPT ![i] = "reading"]
          /\ completed' = [completed EXCEPT ![promise_id[i]] = TRUE]
          /\ UNCHANGED <<dmVars, live, __id, result, where, suspended_procs,
                         localVars>>
      BY <2>2 DEF SetCompleted, Freed
    <3>2. \A d \in live : completed'[d] => completed[d] \/ d = promise_id[i]
      BY <3>1
    <3>3. \A d \in Datums : completed[d] => completed'[d]
      BY <3>1
    <3>4. completed'[promise_id[i]]
      BY <3>1
    <3>5. IdsGrow' /\ Paired' /\ ReturnsOwnResult'
      BY <3>1 DEF dmVars, setup, localVars
    <3>6. Written'
      BY <3>1, <3>2, <3>3, <3>4 DEF dmVars, setup, localVars
    <3>7. \A p \in Procs : where'[p] = "scheduled" => completed'[held'[p]]
      BY <3>1, <3>3 DEF dmVars, setup
    <3>8. QED
      BY <3>5, <3>6, <3>7
  <2>3. CASE ReadId(i)
    BY <2>3 DEF ReadId, Freed, dmVars, setup, promiseVars
  <2>4. CASE Block(i)
    BY <2>4 DEF Block, dmVars, setup, promiseVars, localVars
  <2>5. CASE Resume(i)
    BY <2>5 DEF Resume, dmVars, setup, promiseVars, localVars
  <2>6. CASE SpuriousWakeup(i)
    BY <2>6 DEF SpuriousWakeup, dmVars, setup, promiseVars, localVars
  <2>7. QED
    BY <1>7, <2>1, <2>2, <2>3, <2>4, <2>5, <2>6 DEF Thread
<1>8. QED
  BY <1>1, <1>2, <1>3, <1>4, <1>5, <1>6, <1>7 DEF Next, Dm

(* While no promise is dropped under its running thread, resolve returns the *)
(* result of its own call, and never before the foreign function returned:   *)
(* with the rewritten __internal_resolve and with the polling one.           *)
THEOREM ResultsAreOwn == Spec => []KeptReturnsOwnResult
<1> DEFINE Inv == ~discards => KeptInv
<1>1. Init => Inv
  BY TffiAssumption DEF Init, KeptInv, IdsGrow, Paired, Written,
     ReturnsOwnResult, Active
<1>2. Next => discards' = discards
  <2>1. ASSUME NEW p \in Procs, Dm(p)
        PROVE  discards' = discards
    BY <2>1 DEF Dm, CallAsync, Share, Drop, Suspend, StartPolling, Return, setup
  <2>2. ASSUME NEW i \in Ids, Thread(i) \/ SpuriousWakeup(i)
        PROVE  discards' = discards
    BY <2>2 DEF Thread, SetResult, SetCompleted, ReadId, Block, Resume,
       SpuriousWakeup, dmVars, setup
  <2>3. QED
    BY <2>1, <2>2 DEF Next
<1>3. TypeInv /\ Inv /\ [Next]_vars => Inv'
  <2>1. TypeInv /\ Inv /\ UNCHANGED vars => Inv'
    BY DEF KeptInv, IdsGrow, Paired, Written, ReturnsOwnResult, vars, dmVars, setup,
           setup, promiseVars, workerVars, localVars
  <2>2. TypeInv /\ Inv /\ Next => Inv'
    BY <1>2, KeptStep
  <2>3. QED
    BY <2>1, <2>2
<1>4. Inv => KeptReturnsOwnResult
  BY DEF KeptInv, KeptReturnsOwnResult
<1>5. QED
  BY <1>1, <1>3, <1>4, TypeInvariance, PTL DEF Spec

=============================================================================
