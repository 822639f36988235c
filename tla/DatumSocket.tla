----------------------------- MODULE DatumSocket -----------------------------
(***************************************************************************)
(* /datum/socket: TCP sockets for DM code.  Every connected or listening   *)
(* socket has a detached thread that receives into its buffer, or queues   *)
(* accepted connections, and resumes the DM proc that waits for them.      *)
(*                                                                         *)
(* buffer_lock protects the buffer, not the question whether to wait for   *)
(* it: the DM proc asks has_data, and suspends itself in a second call.    *)
(* The awaiters, open and close are not protected at all.                  *)
(***************************************************************************)
EXTENDS Integers, Sequences, FiniteSets

CONSTANTS
  Procs,       (* running DM procs.                                          *)
  Sockets,     (* datum ids of /datum/socket.                                *)
  None,
  Spent,       (* a ResumableProc that was resumed: its pointer is null.     *)
  MaxItems,    (* bound: bytes or connections a peer sends one socket.       *)
  MaxTotal,    (* bound: of all sockets at a time.                           *)
  RecvLimit,   (* retrieve_data asks for that many bytes (1024), never for   *)
               (* the length recv was called with.                           *)
  OneReader    (* TRUE: no two procs use one socket at a time.               *)

ASSUME SocketAssumption ==
  /\ None \notin Procs \cup Sockets /\ Spent \notin Procs \cup {None}
  /\ MaxItems \in Nat /\ MaxTotal \in Nat /\ RecvLimit \in Nat \ {0}
  /\ OneReader \in BOOLEAN

VARIABLES
  sockets,          (* the registered sockets.                               *)
  mode, open,       (* fields of the DatumSocket.                            *)
  buffer,           (* the bytes received and not retrieved.                 *)
  accepts,          (* the connections accepted and not taken.               *)
  data_awaiter,     (* None, the suspended proc, or Spent.                   *)
  accept_awaiter,
  thread,           (* where the socket's detached thread is.                *)
  at,               (* proc -> where it is.                                  *)
  using,            (* proc -> the socket it uses.                           *)
  sent, fin,        (* the network: items sent to the socket, end of stream. *)
  received,         (* how many of them the thread has received.             *)
  taken             (* history: the items DM code got from the socket.       *)

fieldVars == <<mode, open>>
queueVars == <<buffer, accepts>>
waitVars  == <<data_awaiter, accept_awaiter>>
procVars  == <<at, using>>
netVars   == <<sent, fin>>
histVars  == <<received, taken>>
vars == <<sockets, fieldVars, queueVars, waitVars, thread, procVars, netVars,
          histVars>>

ProcPlaces == {"idle", "wait_for_data", "retrieve", "wait_accept", "accept",
               "asleep", "asleep_accept", "scheduled", "scheduled_accept",
               "undefined"}
\* The calls in which the proc holds the main thread.
OnMain == {"wait_for_data", "retrieve", "wait_accept", "accept", "undefined"}

Looping == {"loop", "notify", "resume", "reset"}
Closing == {"close", "close_stream", "close_open"}
ThreadPlaces == Looping \cup Closing \cup {"none", "ended"}

Init ==
  /\ sockets = {}
  /\ mode = [s \in Sockets |-> "NONE"]
  /\ open = [s \in Sockets |-> FALSE]
  /\ buffer = [s \in Sockets |-> <<>>]
  /\ accepts = [s \in Sockets |-> <<>>]
  /\ data_awaiter = [s \in Sockets |-> None]
  /\ accept_awaiter = [s \in Sockets |-> None]
  /\ thread = [s \in Sockets |-> "none"]
  /\ at = [p \in Procs |-> "idle"]
  /\ using = [p \in Procs |-> None]
  /\ sent = [s \in Sockets |-> 0]
  /\ fin = [s \in Sockets |-> FALSE]
  /\ received = [s \in Sockets |-> 0]
  /\ taken = [s \in Sockets |-> <<>>]

-----------------------------------------------------------------------------
(***************************************************************************)
(* The hooked procs, on the main thread.  A proc keeps it until it sleeps. *)
(***************************************************************************)
MainFree == \A q \in Procs : at[q] \notin OnMain

MayUse(p, s) ==
  /\ MainFree
  /\ at[p] = "idle"
  /\ s \in sockets
  /\ OneReader => \A q \in Procs : using[q] # s

\* The object behind a socket as its constructor leaves it.
IsNew(s) ==
  /\ mode' = [mode EXCEPT ![s] = "NONE"]
  /\ open' = [open EXCEPT ![s] = FALSE]
  /\ thread' = [thread EXCEPT ![s] = "none"]
  /\ buffer' = [buffer EXCEPT ![s] = <<>>]
  /\ accepts' = [accepts EXCEPT ![s] = <<>>]
  /\ data_awaiter' = [data_awaiter EXCEPT ![s] = None]
  /\ accept_awaiter' = [accept_awaiter EXCEPT ![s] = None]
  /\ sent' = [sent EXCEPT ![s] = 0]
  /\ fin' = [fin EXCEPT ![s] = FALSE]
  /\ received' = [received EXCEPT ![s] = 0]
  /\ taken' = [taken EXCEPT ![s] = <<>>]

Register(s) ==
  /\ MainFree
  /\ s \notin sockets
  /\ sockets' = sockets \cup {s}
  /\ IsNew(s)
  /\ UNCHANGED procVars

\* connect and listen: the mode is never NONE again, not even after close.
Connect(s, m) ==
  /\ MainFree
  /\ s \in sockets
  /\ mode[s] = "NONE"
  /\ m \in {"CLIENT", "SERVER"}
  /\ mode' = [mode EXCEPT ![s] = m]
  /\ open' = [open EXCEPT ![s] = TRUE]
  /\ thread' = [thread EXCEPT ![s] = "loop"]
  /\ UNCHANGED <<sockets, queueVars, waitVars, procVars, netVars, histVars>>

\* The datum is garbage: no proc uses it.  Its object is closed and freed.  In
\* the code its detached thread goes on, with a pointer to what was freed; the
\* model has it vanish, so nothing is said of what that thread does.
Deregister(s) ==
  /\ MainFree
  /\ s \in sockets
  /\ \A p \in Procs : using[p] # s
  /\ sockets' = sockets \ {s}
  /\ IsNew(s)
  /\ UNCHANGED procVars

HasData(s) == buffer[s] # <<>> \/ ~open[s]

\* recv: __check_has_data, then __wait_for_data or __retrieve_data.
CheckHasData(p, s) ==
  /\ MayUse(p, s)
  /\ at' = [at EXCEPT ![p] = IF HasData(s) THEN "retrieve" ELSE "wait_for_data"]
  /\ using' = [using EXCEPT ![p] = s]
  /\ UNCHANGED <<sockets, fieldVars, queueVars, waitVars, thread, netVars,
                 histVars>>

\* An awaiter that is already there is forgotten.
WaitForData(p) ==
  /\ at[p] = "wait_for_data"
  /\ at' = [at EXCEPT ![p] = "asleep"]
  /\ data_awaiter' = [data_awaiter EXCEPT ![using[p]] = p]
  /\ UNCHANGED <<sockets, fieldVars, queueVars, accept_awaiter, thread, using, netVars, histVars>>

\* How many bytes a retrieve takes.
Nom(s) == IF Len(buffer[s]) < RecvLimit THEN Len(buffer[s]) ELSE RecvLimit

\* A definition marked "Mutant" is no part of the model: it is the slip its
\* name says, kept to show which property notices it.

\* Mutant: the bytes that are returned stay in the buffer.
RetrieveWithoutErase(p) ==
  LET s == using[p] IN
  /\ at[p] = "retrieve" \/ (at[p] = "scheduled" /\ MainFree)
  /\ Len(taken[s]) < MaxItems
  /\ at' = [at EXCEPT ![p] = "idle"]
  /\ using' = [using EXCEPT ![p] = None]
  /\ taken' = [taken EXCEPT ![s] = @ \o SubSeq(buffer[s], 1, Nom(s))]
  /\ UNCHANGED <<sockets, fieldVars, queueVars, waitVars, thread, netVars,
                 received>>

RetrieveData(p) ==
  LET s == using[p]
      n == IF mode[s] = "CLIENT" THEN Nom(s) ELSE 0
  IN
  /\ at[p] = "retrieve" \/ (at[p] = "scheduled" /\ MainFree)
  /\ at' = [at EXCEPT ![p] = "idle"]
  /\ using' = [using EXCEPT ![p] = None]
  /\ taken' = [taken EXCEPT ![s] = @ \o SubSeq(buffer[s], 1, n)]
  /\ buffer' = [buffer EXCEPT ![s] = SubSeq(@, n + 1, Len(@))]
  /\ UNCHANGED <<sockets, fieldVars, accepts, waitVars, thread, netVars,
                 received>>

\* The DM side of accept is not in the repository: it is taken to call the
\* three hooked procs in the order recv calls its own.
CheckCanAccept(p, s) ==
  /\ MayUse(p, s)
  /\ at' = [at EXCEPT ![p] =
              IF accepts[s] # <<>> THEN "accept" ELSE "wait_accept"]
  /\ using' = [using EXCEPT ![p] = s]
  /\ UNCHANGED <<sockets, fieldVars, queueVars, waitVars, thread, netVars,
                 histVars>>

WaitAccept(p) ==
  /\ at[p] = "wait_accept"
  /\ at' = [at EXCEPT ![p] = "asleep_accept"]
  /\ accept_awaiter' = [accept_awaiter EXCEPT ![using[p]] = p]
  /\ UNCHANGED <<sockets, fieldVars, queueVars, data_awaiter, thread, using, netVars, histVars>>

\* The front of the queue becomes a socket of its own.  The front of an empty
\* queue is undefined behaviour: nothing is said after it.
AcceptSocket(p, t) ==
  LET s == using[p] IN
  /\ at[p] = "accept" \/ (at[p] = "scheduled_accept" /\ MainFree)
  /\ accepts[s] # <<>>
  /\ t \notin sockets
  /\ at' = [at EXCEPT ![p] = "idle"]
  /\ using' = [using EXCEPT ![p] = None]
  /\ sockets' = sockets \cup {t}
  /\ mode' = [mode EXCEPT ![t] = "CLIENT"]
  /\ open' = [open EXCEPT ![t] = TRUE]
  /\ thread' = [thread EXCEPT ![t] = "loop"]
  /\ accepts' = [accepts EXCEPT ![s] = Tail(@)]
  /\ taken' = [taken EXCEPT ![s] = Append(@, Head(accepts[s]))]
  /\ UNCHANGED <<buffer, waitVars, netVars, received>>

AcceptNothing(p) ==
  /\ at[p] = "accept" \/ (at[p] = "scheduled_accept" /\ MainFree)
  /\ accepts[using[p]] = <<>>
  /\ at' = [at EXCEPT ![p] = "undefined"]
  /\ UNCHANGED <<sockets, fieldVars, queueVars, waitVars, thread, using,
                 netVars, histVars>>

-----------------------------------------------------------------------------
(***************************************************************************)
(* recv_loop and accept_loop, one thread for every open socket.            *)
(***************************************************************************)

\* stream.recv returns some bytes; they are appended under the lock.
RecvData(s) ==
  /\ thread[s] = "loop"
  /\ mode[s] = "CLIENT"
  /\ \E n \in received[s] + 1 .. sent[s] :
       /\ buffer' = [buffer EXCEPT ![s] =
                       @ \o [i \in 1 .. n - received[s] |-> received[s] + i]]
       /\ received' = [received EXCEPT ![s] = n]
  /\ thread' = [thread EXCEPT ![s] = "notify"]
  /\ UNCHANGED <<sockets, fieldVars, accepts, waitVars, procVars, netVars,
                 taken>>

AcceptClient(s) ==
  /\ thread[s] = "loop"
  /\ mode[s] = "SERVER"
  /\ received[s] < sent[s]
  /\ accepts' = [accepts EXCEPT ![s] = Append(@, received[s] + 1)]
  /\ received' = [received EXCEPT ![s] = @ + 1]
  /\ thread' = [thread EXCEPT ![s] = "notify"]
  /\ UNCHANGED <<sockets, fieldVars, buffer, waitVars, procVars, netVars,
                 taken>>

\* accept fails: the loop ends, and the listener stays open without it.
AcceptInvalid(s) ==
  /\ thread[s] = "loop"
  /\ mode[s] = "SERVER"
  /\ thread' = [thread EXCEPT ![s] = "ended"]
  /\ UNCHANGED <<sockets, fieldVars, queueVars, waitVars, procVars, netVars,
                 histVars>>

Awaiter(s) == IF mode[s] = "SERVER" THEN accept_awaiter[s] ELSE data_awaiter[s]

\* if (awaiter) ...
Notify(s) ==
  /\ thread[s] = "notify"
  /\ thread' = [thread EXCEPT ![s] =
                  IF Awaiter(s) = None THEN "loop" ELSE "resume"]
  /\ UNCHANGED <<sockets, fieldVars, queueVars, waitVars, procVars, netVars,
                 histVars>>

\* Mutant: resume leaves the pointer to the proc it started.
ResumeKeepsPointer(s) ==
  /\ thread[s] = "resume"
  /\ mode[s] = "CLIENT"
  /\ at' = [p \in Procs |-> IF p = data_awaiter[s] THEN "scheduled" ELSE at[p]]
  /\ thread' = [thread EXCEPT ![s] = "reset"]
  /\ UNCHANGED <<sockets, fieldVars, queueVars, waitVars, using, netVars,
                 histVars>>

\* ... awaiter->resume(), which does nothing the second time, ...
ResumeData(s) ==
  /\ thread[s] = "resume"
  /\ mode[s] = "CLIENT"
  /\ at' = [p \in Procs |-> IF p = data_awaiter[s] THEN "scheduled" ELSE at[p]]
  /\ data_awaiter' = [data_awaiter EXCEPT ![s] = Spent]
  /\ thread' = [thread EXCEPT ![s] = "reset"]
  /\ UNCHANGED <<sockets, fieldVars, queueVars, accept_awaiter, using,
                 netVars, histVars>>

ResumeAccept(s) ==
  /\ thread[s] = "resume"
  /\ mode[s] = "SERVER"
  /\ at' = [p \in Procs |->
              IF p = accept_awaiter[s] THEN "scheduled_accept" ELSE at[p]]
  /\ accept_awaiter' = [accept_awaiter EXCEPT ![s] = Spent]
  /\ thread' = [thread EXCEPT ![s] = "reset"]
  /\ UNCHANGED <<sockets, fieldVars, queueVars, data_awaiter, using,
                 netVars, histVars>>

\* ... awaiter.reset(): whichever proc waits by then is forgotten.
ResetAwaiter(s) ==
  /\ thread[s] = "reset"
  /\ thread' = [thread EXCEPT ![s] = "loop"]
  /\ IF mode[s] = "CLIENT"
     THEN /\ data_awaiter' = [data_awaiter EXCEPT ![s] = None]
          /\ UNCHANGED accept_awaiter
     ELSE /\ accept_awaiter' = [accept_awaiter EXCEPT ![s] = None]
          /\ UNCHANGED data_awaiter
  /\ UNCHANGED <<sockets, fieldVars, queueVars, procVars, netVars, histVars>>

\* recv returns nothing at the end of the stream: the thread runs close.
EndOfStream(s) ==
  /\ thread[s] = "loop"
  /\ mode[s] = "CLIENT"
  /\ fin[s]
  /\ received[s] = sent[s]
  /\ thread' = [thread EXCEPT ![s] = "close"]
  /\ UNCHANGED <<sockets, fieldVars, queueVars, waitVars, procVars, netVars,
                 histVars>>

\* close forgets the proc that waits and the bytes nobody retrieved.
CloseAwaiter(s) ==
  /\ thread[s] = "close"
  /\ thread' = [thread EXCEPT ![s] = "close_stream"]
  /\ data_awaiter' = [data_awaiter EXCEPT ![s] = None]
  /\ UNCHANGED <<sockets, fieldVars, queueVars, accept_awaiter, procVars,
                 netVars, histVars>>

CloseStream(s) ==
  /\ thread[s] = "close_stream"
  /\ thread' = [thread EXCEPT ![s] = "close_open"]
  /\ buffer' = [buffer EXCEPT ![s] = <<>>]
  /\ UNCHANGED <<sockets, fieldVars, accepts, waitVars, procVars, netVars,
                 histVars>>

\* Mutant: close leaves the socket open.
CloseLeavesOpen(s) ==
  /\ thread[s] = "close_open"
  /\ thread' = [thread EXCEPT ![s] = "ended"]
  /\ UNCHANGED <<sockets, fieldVars, queueVars, waitVars, procVars, netVars,
                 histVars>>

CloseOpen(s) ==
  /\ thread[s] = "close_open"
  /\ thread' = [thread EXCEPT ![s] = "ended"]
  /\ open' = [open EXCEPT ![s] = FALSE]
  /\ UNCHANGED <<sockets, mode, queueVars, waitVars, procVars, netVars,
                 histVars>>

-----------------------------------------------------------------------------
(***************************************************************************)
(* The peers: bytes or connections arrive, a stream ends.                  *)
(***************************************************************************)
AllSent ==
  Cardinality({i \in Sockets \X (1 .. MaxItems) : i[2] <= sent[i[1]]})

PeerSends(s) ==
  /\ mode[s] # "NONE"
  /\ sent[s] < MaxItems
  /\ AllSent < MaxTotal
  /\ ~fin[s]
  /\ sent' = [sent EXCEPT ![s] = @ + 1]
  /\ UNCHANGED <<sockets, fieldVars, queueVars, waitVars, thread, procVars, fin,
                 histVars>>

PeerCloses(s) ==
  /\ mode[s] = "CLIENT"
  /\ ~fin[s]
  /\ fin' = [fin EXCEPT ![s] = TRUE]
  /\ UNCHANGED <<sockets, fieldVars, queueVars, waitVars, thread, procVars,
                 sent, histVars>>

\* What a proc that is not asleep does next, once it has the main thread.
Awake(p) ==
  \/ WaitForData(p) \/ RetrieveData(p)
  \/ WaitAccept(p) \/ AcceptNothing(p)
  \/ \E t \in Sockets : AcceptSocket(p, t)

Dm(p) ==
  \/ \E s \in Sockets : CheckHasData(p, s)
  \/ \E s \in Sockets : CheckCanAccept(p, s)
  \/ Awake(p)

Thread(s) ==
  \/ RecvData(s) \/ AcceptClient(s) \/ AcceptInvalid(s)
  \/ Notify(s) \/ ResumeData(s) \/ ResumeAccept(s) \/ ResetAwaiter(s)
  \/ EndOfStream(s) \/ CloseAwaiter(s) \/ CloseStream(s) \/ CloseOpen(s)

Next ==
  \/ \E p \in Procs : Dm(p)
  \/ \E s \in Sockets :
       \/ Register(s) \/ Connect(s, "CLIENT") \/ Connect(s, "SERVER")
       \/ Deregister(s)
       \/ Thread(s)
       \/ PeerSends(s) \/ PeerCloses(s)

Spec == Init /\ [][Next]_vars

\* The threads are scheduled, and a proc that is awake goes on.
FairSpec ==
  /\ Spec
  /\ \A s \in Sockets : WF_vars(Thread(s))
  /\ \A p \in Procs : WF_vars(Awake(p))

-----------------------------------------------------------------------------
(* Every variable keeps its type (DatumSocket's fields and the DM procs').   *)
TypeOK ==
  /\ sockets \subseteq Sockets
  /\ mode \in [Sockets -> {"NONE", "CLIENT", "SERVER"}]
  /\ open \in [Sockets -> BOOLEAN]
  /\ buffer \in [Sockets -> Seq(1 .. MaxItems)]
  /\ accepts \in [Sockets -> Seq(1 .. MaxItems)]
  /\ data_awaiter \in [Sockets -> Procs \cup {None, Spent}]
  /\ accept_awaiter \in [Sockets -> Procs \cup {None, Spent}]
  /\ thread \in [Sockets -> ThreadPlaces]
  /\ at \in [Procs -> ProcPlaces]
  /\ using \in [Procs -> Sockets \cup {None}]
  /\ \A p \in Procs : at[p] = "idle" <=> using[p] = None
  /\ sent \in [Sockets -> 0 .. MaxItems]
  /\ fin \in [Sockets -> BOOLEAN]
  /\ received \in [Sockets -> 0 .. MaxItems]
  /\ taken \in [Sockets -> Seq(1 .. MaxItems)]

Queue(s) == IF mode[s] = "SERVER" THEN accepts[s] ELSE buffer[s]

(* DM code gets the bytes of a stream and the connections of a listener in   *)
(* order and once each, and while the thread loops none is missing, whatever *)
(* the interleaving of receives, retrieves and suspensions.                  *)
StreamKept ==
  \A s \in sockets :
    LET items == taken[s] \o Queue(s)
    IN  /\ items = [i \in DOMAIN items |-> i]
        /\ thread[s] \in Looping => Len(items) = received[s]

(* An awaiter is a proc that sleeps in a call on that very socket, so no     *)
(* proc is ever started twice (resume and reset in recv_loop, accept_loop).  *)
AwaitersSleep ==
  \A s \in Sockets, p \in Procs :
    /\ data_awaiter[s] = p => at[p] = "asleep" /\ using[p] = s
    /\ accept_awaiter[s] = p => at[p] = "asleep_accept" /\ using[p] = s

(* recv "sleeps until there's data in the buffer" (socket.dm:20), no longer. *)
RecvReturns ==
  \A p \in Procs :
    (at[p] = "asleep" /\ buffer[using[p]] # <<>>) ~> at[p] # "asleep"

(* The end of a stream is noticed: the socket closes, or is deregistered, so *)
(* a recv that starts later does not wait for it (recv_loop, has_data).      *)
EndIsNoticed ==
  \A s \in Sockets : (mode[s] = "CLIENT" /\ fin[s]) ~> ~open[s]
=============================================================================
