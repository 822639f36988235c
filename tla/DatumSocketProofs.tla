-------------------------- MODULE DatumSocketProofs --------------------------
(***************************************************************************)
(* Proofs about DatumSocket, for every number of procs, sockets and bytes. *)
(***************************************************************************)
EXTENDS DatumSocket, SequenceTheorems, TLAPS

Item == 1 .. MaxItems

(* What the awaiters and procs are, apart from the queues.                   *)
ProcsOK ==
  /\ sockets \subseteq Sockets
  /\ mode \in [Sockets -> {"NONE", "CLIENT", "SERVER"}]
  /\ open \in [Sockets -> BOOLEAN]
  /\ data_awaiter \in [Sockets -> Procs \cup {None, Spent}]
  /\ accept_awaiter \in [Sockets -> Procs \cup {None, Spent}]
  /\ thread \in [Sockets -> ThreadPlaces]
  /\ at \in [Procs -> ProcPlaces]
  /\ using \in [Procs -> Sockets \cup {None}]
  /\ \A p \in Procs : at[p] = "idle" <=> using[p] = None
  /\ fin \in [Sockets -> BOOLEAN]

(* What the queues, the network and the history are.                         *)
ItemsOK ==
  /\ buffer \in [Sockets -> Seq(Item)]
  /\ accepts \in [Sockets -> Seq(Item)]
  /\ taken \in [Sockets -> Seq(Item)]
  /\ sent \in [Sockets -> 0 .. MaxItems]
  /\ received \in [Sockets -> 0 .. MaxItems]

SafeInv == ProcsOK /\ AwaitersSleep /\ ItemsOK

LEMMA FunctionIsSeq ==
  ASSUME NEW S, NEW n \in Nat, NEW f \in [1 .. n -> S]
  PROVE  f \in Seq(S)
  BY SeqDef

LEMMA SafeInit == Init => SafeInv
  BY SocketAssumption DEF Init, SafeInv, ProcsOK, ItemsOK, AwaitersSleep,
     ProcPlaces, ThreadPlaces, Looping, Closing, Item

LEMMA ProcsStep ==
  ASSUME ProcsOK, AwaitersSleep, Next
  PROVE  ProcsOK' /\ AwaitersSleep'
<1> USE SocketAssumption DEF ProcsOK, AwaitersSleep, ProcPlaces, ThreadPlaces,
        Looping, Closing
<1>1. ASSUME NEW p \in Procs, NEW s \in Sockets,
             CheckHasData(p, s)
      PROVE  ProcsOK' /\ AwaitersSleep'
  BY <1>1 DEF CheckHasData, MayUse, fieldVars, waitVars, netVars
<1>2. ASSUME NEW p \in Procs, NEW s \in Sockets, CheckCanAccept(p, s)
      PROVE  ProcsOK' /\ AwaitersSleep'
  BY <1>2 DEF CheckCanAccept, MayUse, fieldVars, waitVars, netVars
<1>3. ASSUME NEW p \in Procs, WaitForData(p)
      PROVE  ProcsOK' /\ AwaitersSleep'
  BY <1>3 DEF WaitForData, fieldVars, netVars
<1>4. ASSUME NEW p \in Procs, RetrieveData(p)
      PROVE  ProcsOK' /\ AwaitersSleep'
  BY <1>4 DEF RetrieveData, fieldVars, waitVars, netVars
<1>5. ASSUME NEW p \in Procs, WaitAccept(p)
      PROVE  ProcsOK' /\ AwaitersSleep'
  BY <1>5 DEF WaitAccept, fieldVars, netVars
<1>6. ASSUME NEW p \in Procs, AcceptNothing(p)
      PROVE  ProcsOK' /\ AwaitersSleep'
  BY <1>6 DEF AcceptNothing, fieldVars, waitVars, netVars
<1>7. ASSUME NEW p \in Procs, NEW t \in Sockets, AcceptSocket(p, t)
      PROVE  ProcsOK' /\ AwaitersSleep'
  BY <1>7 DEF AcceptSocket, waitVars, netVars
<1>8. ASSUME NEW s \in Sockets, Register(s)
      PROVE  ProcsOK' /\ AwaitersSleep'
  BY <1>8 DEF Register, IsNew, procVars
<1>9. ASSUME NEW s \in Sockets, NEW m, Connect(s, m)
      PROVE  ProcsOK' /\ AwaitersSleep'
  BY <1>9 DEF Connect, waitVars, procVars, netVars
<1>10. ASSUME NEW s \in Sockets, Deregister(s)
       PROVE  ProcsOK' /\ AwaitersSleep'
  BY <1>10 DEF Deregister, IsNew, procVars
<1>11. ASSUME NEW s \in Sockets, Thread(s)
       PROVE  ProcsOK' /\ AwaitersSleep'
  <2> USE DEF fieldVars, waitVars, procVars, netVars
  <2>1. CASE RecvData(s) \/ AcceptClient(s) \/ Notify(s)
    BY <2>1 DEF RecvData, AcceptClient, Notify
  <2>2. CASE ResumeData(s)
    BY <2>2 DEF ResumeData
  <2>3. CASE ResumeAccept(s)
    BY <2>3 DEF ResumeAccept
  <2>4. CASE ResetAwaiter(s)
    BY <2>4 DEF ResetAwaiter
  <2>5. CASE EndOfStream(s) \/ AcceptInvalid(s) \/ CloseAwaiter(s) \/ CloseStream(s)
    BY <2>5 DEF EndOfStream, AcceptInvalid, CloseAwaiter, CloseStream
  <2>6. CASE CloseOpen(s)
    <3>1. open' \in [Sockets -> BOOLEAN]
      BY <2>6, Zenon DEF CloseOpen
    <3>2. QED
      BY <2>6, <3>1 DEF CloseOpen
  <2>7. QED
    BY <1>11, <2>1, <2>2, <2>3, <2>4, <2>5, <2>6 DEF Thread
<1>12. ASSUME NEW s \in Sockets, PeerSends(s) \/ PeerCloses(s)
       PROVE  ProcsOK' /\ AwaitersSleep'
  <2>1. fin' \in [Sockets -> BOOLEAN]
    <3>1. CASE PeerSends(s)
      BY <3>1 DEF PeerSends
    <3>2. CASE PeerCloses(s)
      BY <3>2, Zenon DEF PeerCloses
    <3>3. QED
      BY <1>12, <3>1, <3>2
  <2>2. QED
    BY <1>12, <2>1 DEF PeerSends, PeerCloses, fieldVars, waitVars, procVars
<1>13. QED
  BY <1>1, <1>2, <1>3, <1>4, <1>5, <1>6, <1>7, <1>8, <1>9, <1>10, <1>11, <1>12
     DEF Next, Dm, Awake

LEMMA ItemsStep ==
  ASSUME ProcsOK, ItemsOK, Next
  PROVE  ItemsOK'
<1> USE SocketAssumption DEF ItemsOK, ProcsOK, Item
<1>1. ASSUME NEW p \in Procs, RetrieveData(p)
      PROVE  ItemsOK'
  <2> DEFINE s == using[p]
             n == IF mode[s] = "CLIENT" THEN Nom(s) ELSE 0
  <2>1. s \in Sockets
    BY <1>1 DEF RetrieveData
  <2>2. n \in 0 .. Len(buffer[s])
    BY <2>1 DEF Nom
  <2>3. SubSeq(buffer[s], 1, n) \in Seq(Item)
    BY <2>1, <2>2, SMTT(30)
  <2>4. SubSeq(buffer[s], n + 1, Len(buffer[s])) \in Seq(Item)
    BY <2>1, <2>2, SMTT(30)
  <2>5. taken[s] \o SubSeq(buffer[s], 1, n) \in Seq(Item)
    <3>1. taken[s] \in Seq(Item)
      BY <2>1
    <3> HIDE DEF Item, s, n
    <3>2. QED
      BY ONLY <2>3, <3>1, ConcatProperties
  <2>6. QED
    BY <1>1, <2>1, <2>4, <2>5 DEF RetrieveData, netVars
<1>2. ASSUME NEW p \in Procs, NEW t \in Sockets, AcceptSocket(p, t)
      PROVE  ItemsOK'
  <2> DEFINE s == using[p]
  <2>1. s \in Sockets /\ accepts[s] # <<>>
    BY <1>2 DEF AcceptSocket
  <2>2. Tail(accepts[s]) \in Seq(Item) /\ Head(accepts[s]) \in Item
    <3> HIDE DEF Item, s
    <3>1. accepts[s] \in Seq(Item)
      BY <2>1
    <3>2. QED
      BY <2>1, <3>1, HeadTailProperties
  <2>3. Append(taken[s], Head(accepts[s])) \in Seq(Item)
    BY <2>1, <2>2
  <2>4. QED
    BY <1>2, <2>1, <2>2, <2>3 DEF AcceptSocket, netVars
<1>3. ASSUME NEW p \in Procs, Dm(p), ~ RetrieveData(p),
             ~ \E t \in Sockets : AcceptSocket(p, t)
      PROVE  ItemsOK'
  BY <1>3 DEF Dm, Awake, CheckHasData, CheckCanAccept, WaitForData, WaitAccept,
     AcceptNothing, queueVars, netVars, histVars
<1>4. ASSUME NEW s \in Sockets, Register(s) \/ Deregister(s)
      PROVE  ItemsOK'
  <2>1. IsNew(s)
    BY <1>4 DEF Register, Deregister
  <2>2. <<>> \in Seq(Item)
    OBVIOUS
  <2>3. QED
    BY <2>1, <2>2 DEF IsNew
<1>5. ASSUME NEW s \in Sockets, NEW m, Connect(s, m)
      PROVE  ItemsOK'
  BY <1>5 DEF Connect, queueVars, netVars, histVars
<1>6. ASSUME NEW s \in Sockets, RecvData(s)
      PROVE  ItemsOK'
  <2>1. PICK n \in received[s] + 1 .. sent[s] :
          /\ buffer' = [buffer EXCEPT ![s] =
                          @ \o [i \in 1 .. n - received[s] |-> received[s] + i]]
          /\ received' = [received EXCEPT ![s] = n]
    BY <1>6 DEF RecvData
  <2> DEFINE new == [i \in 1 .. n - received[s] |-> received[s] + i]
  <2>2. n \in 1 .. MaxItems /\ n - received[s] \in Nat
    <3>1. received[s] \in 0 .. MaxItems /\ sent[s] \in 0 .. MaxItems
      OBVIOUS
    <3>2. QED
      BY ONLY <3>1, SocketAssumption, n \in received[s] + 1 .. sent[s]
  <2>3. new \in Seq(Item)
    <3>1. \A i \in 1 .. n - received[s] : received[s] + i \in Item
      <4>1. received[s] \in Nat /\ n \in 1 .. MaxItems /\ MaxItems \in Nat
        BY <2>2
      <4>2. QED
        BY ONLY <4>1 DEF Item
    <3>2. new \in [1 .. n - received[s] -> Item]
      BY <3>1
    <3>3. QED
      BY <2>2, <3>2, FunctionIsSeq
  <2>4. buffer[s] \o new \in Seq(Item)
    <3> HIDE DEF Item, new
    <3>1. buffer[s] \in Seq(Item)
      OBVIOUS
    <3>2. QED
      BY <2>3, <3>1
  <2>5. buffer' = [buffer EXCEPT ![s] = @ \o new]
        /\ received' = [received EXCEPT ![s] = n]
    BY <2>1
  <2>6. UNCHANGED <<accepts, taken, sent>>
    BY <1>6 DEF RecvData, netVars
  <2>7. n \in 0 .. MaxItems
    BY <2>2
  <2> HIDE DEF new, Item
  <2>8. QED
    BY <2>4, <2>5, <2>6, <2>7
<1>7. ASSUME NEW s \in Sockets, AcceptClient(s)
      PROVE  ItemsOK'
  <2>1. received[s] + 1 \in Item
    BY <1>7, SMTT(30) DEF AcceptClient
  <2>2. Append(accepts[s], received[s] + 1) \in Seq(Item)
    <3> HIDE DEF Item
    <3>1. accepts[s] \in Seq(Item)
      OBVIOUS
    <3>2. QED
      BY <2>1, <3>1, AppendProperties
  <2> HIDE DEF Item
  <2>3. received[s] + 1 \in 0 .. MaxItems
    BY <2>1 DEF Item
  <2>4. QED
    BY <1>7, <2>2, <2>3, SMTT(30) DEF AcceptClient, netVars
<1>8. ASSUME NEW s \in Sockets, Thread(s), ~ RecvData(s), ~ AcceptClient(s)
      PROVE  ItemsOK'
  <2>1. CASE CloseStream(s)
    <3>1. <<>> \in Seq(Item)
      OBVIOUS
    <3>2. QED
      BY <2>1, <3>1 DEF CloseStream, netVars, histVars
  <2>2. CASE ~ CloseStream(s)
    <3>1. UNCHANGED <<queueVars, netVars, histVars>>
      BY <1>8, <2>2 DEF Thread, Notify, ResumeData, ResumeAccept, ResetAwaiter,
         EndOfStream, AcceptInvalid, CloseAwaiter, CloseOpen
    <3>2. QED
      BY <3>1 DEF queueVars, netVars, histVars
  <2>3. QED
    BY <2>1, <2>2
<1>9. ASSUME NEW s \in Sockets, PeerSends(s) \/ PeerCloses(s)
      PROVE  ItemsOK'
  <2>1. CASE PeerSends(s)
    <3>1. sent[s] < MaxItems /\ sent' = [sent EXCEPT ![s] = @ + 1]
      BY <2>1 DEF PeerSends
    <3>2. UNCHANGED <<queueVars, histVars>>
      BY <2>1 DEF PeerSends
    <3>3. sent[s] + 1 \in 0 .. MaxItems
      BY <3>1
    <3>4. QED
      BY <3>1, <3>2, <3>3 DEF queueVars, histVars
  <2>2. CASE PeerCloses(s)
    BY <2>2 DEF PeerCloses, queueVars, histVars
  <2>3. QED
    BY <1>9, <2>1, <2>2
<1>10. QED
  BY <1>1, <1>2, <1>3, <1>4, <1>5, <1>6, <1>7, <1>8, <1>9 DEF Next, Dm, Awake

THEOREM SafeInvariance == Spec => []SafeInv
<1>1. SafeInv /\ [Next]_vars => SafeInv'
  <2>1. SafeInv /\ UNCHANGED vars => SafeInv'
    BY DEF SafeInv, ProcsOK, ItemsOK, AwaitersSleep, vars, fieldVars, queueVars,
           waitVars, procVars, netVars, histVars
  <2>2. QED
    BY <2>1, ProcsStep, ItemsStep DEF SafeInv
<1>2. QED
  BY <1>1, SafeInit, PTL DEF Spec

(* Every variable keeps its type: the buffers hold what the peer sent, for   *)
(* any number of bytes, sockets and procs.                                   *)
THEOREM TypeCorrect == Spec => []TypeOK
<1>1. SafeInv => TypeOK
  BY DEF SafeInv, ProcsOK, ItemsOK, Item, TypeOK
<1>2. QED
  BY <1>1, SafeInvariance, PTL

(* Whatever two threads and any number of procs do, an awaiter is a proc     *)
(* that sleeps on that socket: resume never starts a proc that is awake.     *)
THEOREM OnlySleepersAwait == Spec => []AwaitersSleep
<1>1. SafeInv => AwaitersSleep
  BY DEF SafeInv
<1>2. QED
  BY <1>1, SafeInvariance, PTL

(***************************************************************************)
(* The stream.  Of the two queues of a socket the one of the other mode is *)
(* empty, and a socket that is not registered is as good as new: it may    *)
(* become the end of an accepted connection at once.                       *)
(***************************************************************************)
ModesKept ==
  \A s \in Sockets :
    /\ mode[s] # "SERVER" => accepts[s] = <<>>
    /\ mode[s] # "CLIENT" => buffer[s] = <<>>
    /\ mode[s] = "NONE" => /\ thread[s] = "none" /\ received[s] = 0
                           /\ taken[s] = <<>>
    /\ s \notin sockets => mode[s] = "NONE"

(* The items of q are k + 1, k + 2, ...                                      *)
Counts(q, k) == \A i \in 1 .. Len(q) : q[i] = k + i

(* What was taken, and what waits in either queue.                           *)
InOrder ==
  \A s \in Sockets :
    /\ Counts(taken[s], 0)
    /\ Counts(buffer[s], Len(taken[s]))
    /\ Counts(accepts[s], Len(taken[s]))

NoneMissing ==
  \A s \in Sockets : thread[s] \in Looping =>
    Len(taken[s]) + Len(buffer[s]) + Len(accepts[s]) = received[s]

StreamInv == ModesKept /\ InOrder /\ NoneMissing

LEMMA StreamInit == Init => StreamInv
  BY DEF Init, StreamInv, ModesKept, InOrder, NoneMissing, Looping, Counts

(* A step that leaves the queues and the history alone.                      *)
LEMMA QueuesUntouched ==
  ASSUME ProcsOK, StreamInv, UNCHANGED <<sockets, mode, queueVars, histVars>>,
         \A s \in Sockets : thread'[s] \in Looping => thread[s] \in Looping,
         \A s \in Sockets : thread[s] = "none" => thread'[s] = "none"
  PROVE  StreamInv'
  BY DEF StreamInv, ModesKept, InOrder, NoneMissing, Counts, queueVars, histVars

(* A socket that is registered or freed starts anew.                         *)
LEMMA NewIsInOrder ==
  ASSUME NEW s \in Sockets, ProcsOK, ItemsOK, StreamInv, IsNew(s),
         \A t \in Sockets \ {s} : t \in sockets <=> t \in sockets'
  PROVE  StreamInv'
  BY DEF IsNew, StreamInv, ModesKept, InOrder, NoneMissing, Counts,
     ProcsOK, ItemsOK, Looping

(* A retrieve moves a part of the buffer to the end of what was taken.       *)
LEMMA CountsEmpty ==
  ASSUME NEW k
  PROVE  Counts(<<>>, k)
  BY DEF Counts

LEMMA CountsConcat ==
  ASSUME NEW q \in Seq(Int), NEW w \in Seq(Int), NEW k \in Nat,
         Counts(q, k), Counts(w, k + Len(q))
  PROVE  /\ Counts(q \o w, k)
         /\ Len(q \o w) = Len(q) + Len(w) /\ q \o w \in Seq(Int)
<1> DEFINE a == Len(q)
           b == Len(w)
<1>1. /\ a \in Nat /\ b \in Nat /\ Len(q \o w) = a + b
      /\ \A i \in 1 .. a + b :
           (q \o w)[i] = IF i <= a THEN q[i] ELSE w[i - a]
  BY ConcatProperties
<1>2. /\ \A i \in 1 .. a : q[i] = k + i
      /\ \A i \in 1 .. b : w[i] = k + a + i
  BY DEF Counts
<1> HIDE DEF a, b
<1>3. ASSUME NEW i \in 1 .. a + b
      PROVE  (q \o w)[i] = k + i
  <2>1. CASE i <= a
    <3>1. i \in 1 .. a /\ (q \o w)[i] = q[i]
      BY <1>1, <2>1
    <3>2. QED
      BY <1>2, <3>1
  <2>2. CASE ~ (i <= a)
    <3>1. i - a \in 1 .. b /\ (q \o w)[i] = w[i - a]
      BY <1>1, <2>2
    <3>2. w[i - a] = k + a + (i - a)
      BY <1>2, <3>1
    <3>3. k + a + (i - a) = k + i
      BY <1>1
    <3>4. QED
      BY <3>1, <3>2, <3>3
  <2>3. QED
    BY <2>1, <2>2
<1>4. Counts(q \o w, k)
  BY <1>1, <1>3 DEF Counts
<1>5. QED
  BY <1>1, <1>4 DEF a, b

LEMMA CountsAppend ==
  ASSUME NEW q \in Seq(Int), NEW k \in Nat, Counts(q, k)
  PROVE  /\ Counts(Append(q, k + Len(q) + 1), k)
         /\ Len(Append(q, k + Len(q) + 1)) = Len(q) + 1
<1> DEFINE a == Len(q)
           x == k + a + 1
           r == Append(q, x)
<1>1. /\ a \in Nat /\ x \in Int /\ Len(r) = a + 1
      /\ \A i \in 1 .. a : r[i] = q[i]
      /\ r[a + 1] = x
  BY AppendProperties
<1>2. \A i \in 1 .. a : q[i] = k + i
  BY DEF Counts
<1> HIDE DEF a, r
<1>3. ASSUME NEW i \in 1 .. a + 1
      PROVE  r[i] = k + i
  <2>1. CASE i = a + 1
    <3>1. x = k + i
      BY <1>1, <2>1
    <3>2. QED
      BY <1>1, <2>1, <3>1
  <2>2. CASE i # a + 1
    <3>1. i \in 1 .. a
      BY <1>1, <2>2
    <3>2. QED
      BY <1>1, <1>2, <3>1
  <2>3. QED
    BY <2>1, <2>2
<1>4. Counts(r, k)
  BY <1>1, <1>3 DEF Counts
<1>5. QED
  BY <1>1, <1>4 DEF a, r

LEMMA CountsTail ==
  ASSUME NEW q \in Seq(Int), q # <<>>, NEW k \in Nat, Counts(q, k)
  PROVE  /\ Head(q) = k + 1
         /\ Counts(Tail(q), k + 1)
         /\ Len(Tail(q)) = Len(q) - 1 /\ Len(q) \in Nat \ {0}
<1> DEFINE a == Len(q)
           r == Tail(q)
<1>1. /\ a \in Nat \ {0} /\ Len(r) = a - 1 /\ Head(q) = q[1]
      /\ \A i \in 1 .. a - 1 : r[i] = q[i + 1]
  BY HeadTailProperties
<1>2. \A i \in 1 .. a : q[i] = k + i
  BY DEF Counts
<1> HIDE DEF a, r
<1>3. ASSUME NEW i \in 1 .. a - 1
      PROVE  r[i] = k + 1 + i
  BY <1>1, <1>2
<1>4. Counts(r, k + 1)
  BY <1>1, <1>3 DEF Counts
<1>5. Head(q) = k + 1
  BY <1>1, <1>2
<1>6. QED
  BY <1>1, <1>4, <1>5 DEF a, r

(* The first n items of q, and the rest.                                     *)
LEMMA CountsSplit ==
  ASSUME NEW q \in Seq(Int), NEW k \in Nat, NEW n \in 0 .. Len(q), Counts(q, k)
  PROVE  /\ Counts(SubSeq(q, 1, n), k) /\ Len(SubSeq(q, 1, n)) = n
         /\ SubSeq(q, 1, n) \in Seq(Int)
         /\ Counts(SubSeq(q, n + 1, Len(q)), k + n)
         /\ Len(SubSeq(q, n + 1, Len(q))) = Len(q) - n
<1> DEFINE a == Len(q)
           f == SubSeq(q, 1, n)
           g == SubSeq(q, n + 1, a)
<1>1. a \in Nat /\ n \in 0 .. a
  OBVIOUS
<1>2. Len(f) = n /\ f \in Seq(Int) /\ \A i \in 1 .. n : f[i] = q[i]
  BY <1>1
<1>3. Len(g) = a - n /\ \A i \in 1 .. a - n : g[i] = q[n + i]
  <2>1. \A i \in n + 1 .. a : q[i] \in Int
    BY <1>1
  <2> HIDE DEF a
  <2>2. /\ Len(g) = IF n + 1 <= a THEN a - (n + 1) + 1 ELSE 0
        /\ \A i \in 1 .. a - (n + 1) + 1 : g[i] = q[n + 1 + i - 1]
    <3> DEFINE m == n + 1
    <3>1. m \in Int /\ a \in Int /\ \A i \in m .. a : q[i] \in Int
      BY <1>1, <2>1
    <3> HIDE DEF m
    <3>2. /\ Len(SubSeq(q, m, a)) = IF m <= a THEN a - m + 1 ELSE 0
          /\ \A i \in 1 .. a - m + 1 : SubSeq(q, m, a)[i] = q[m + i - 1]
      BY <3>1, SubSeqProperties
    <3>3. QED
      BY <3>2 DEF m
  <2>3. Len(g) = a - n
    BY <1>1, <2>2
  <2> HIDE DEF g
  <2>4. ASSUME NEW i \in 1 .. a - n
        PROVE  g[i] = q[n + i]
    <3>1. i \in 1 .. a - (n + 1) + 1 /\ n + 1 + i - 1 = n + i
      BY <1>1
    <3>2. QED
      BY <2>2, <3>1
  <2>5. QED
    BY <2>3, <2>4
<1>4. \A i \in 1 .. a : q[i] = k + i
  BY DEF Counts
<1> HIDE DEF a, f, g
<1>5. ASSUME NEW i \in 1 .. n
      PROVE  f[i] = k + i
  <2>1. i \in 1 .. a
    BY <1>1
  <2>2. QED
    BY <1>2, <1>4, <2>1
<1>6. \A i \in 1 .. a - n : g[i] = k + n + i
  BY <1>1, <1>3, <1>4
<1>7. Counts(f, k) /\ Counts(g, k + n)
  BY <1>2, <1>3, <1>5, <1>6 DEF Counts
<1>8. QED
  BY <1>2, <1>3, <1>7 DEF a, f, g

LEMMA ItemsAreInt ==
  ASSUME ItemsOK, NEW s \in Sockets
  PROVE  /\ taken[s] \in Seq(Int) /\ buffer[s] \in Seq(Int) /\ accepts[s] \in Seq(Int)
         /\ Len(taken[s]) \in Nat /\ Len(buffer[s]) \in Nat
         /\ Len(accepts[s]) \in Nat /\ received[s] \in Nat
<1>1. Item \subseteq Int
  BY SocketAssumption DEF Item
<1>2. \A q \in Seq(Item) : q \in Seq(Int) /\ Len(q) \in Nat
  <2> HIDE DEF Item
  <2>1. Seq(Item) \subseteq Seq(Int)
    BY <1>1, SeqMonotonic
  <2>2. \A q \in Seq(Int) : Len(q) \in Nat
    OBVIOUS
  <2>3. QED
    BY <2>1, <2>2
<1>3. QED
  BY <1>2, SocketAssumption DEF ItemsOK

(* A retrieve moves a part of the buffer to the end of what was taken.       *)
LEMMA RetrieveKeepsOrder ==
  ASSUME NEW p \in Procs, ProcsOK, ItemsOK, StreamInv, RetrieveData(p)
  PROVE  StreamInv'
<1> DEFINE s == using[p]
           n == IF mode[s] = "CLIENT" THEN Nom(s) ELSE 0
           got == SubSeq(buffer[s], 1, n)
           left == SubSeq(buffer[s], n + 1, Len(buffer[s]))
<1>1. s \in Sockets
  BY SocketAssumption DEF RetrieveData, ProcsOK
<1>2. /\ taken' = [taken EXCEPT ![s] = @ \o got]
      /\ buffer' = [buffer EXCEPT ![s] = left]
      /\ UNCHANGED <<sockets, mode, accepts, thread, received>>
  BY DEF RetrieveData, fieldVars
<1>3. n \in 0 .. Len(buffer[s]) /\ (mode[s] # "CLIENT" => n = 0)
  BY <1>1, ItemsAreInt, SocketAssumption DEF Nom
<1> HIDE DEF n, s
<1>4. /\ taken'[s] = taken[s] \o got /\ buffer'[s] = left
      /\ \A t \in Sockets \ {s} : taken'[t] = taken[t] /\ buffer'[t] = buffer[t]
  BY <1>1, <1>2 DEF ItemsOK
<1>5. mode[s] # "CLIENT" => buffer[s] = <<>> /\ got = <<>> /\ left = <<>>
  BY <1>1, <1>3 DEF StreamInv, ModesKept
<1>6. mode[s] # "CLIENT" => taken[s] \o got = taken[s]
  <2>1. taken[s] \in Seq(Int)
    BY <1>1, ItemsAreInt
  <2>2. taken[s] \o <<>> = taken[s]
    BY <2>1, ConcatEmptySeq
  <2>3. QED
    BY <1>5, <2>2, Zenon
<1>7. /\ Counts(got, Len(taken[s])) /\ Len(got) = n /\ got \in Seq(Int)
      /\ Counts(left, Len(taken[s]) + n) /\ Len(left) = Len(buffer[s]) - n
  BY <1>1, <1>3, ItemsAreInt, CountsSplit DEF StreamInv, InOrder
<1> HIDE DEF got, left
<1>8. Counts(taken[s] \o got, 0) /\ Len(taken[s] \o got) = Len(taken[s]) + n
  <2>1. taken[s] \in Seq(Int) /\ Counts(taken[s], 0) /\ 0 + Len(taken[s]) = Len(taken[s])
    BY <1>1, ItemsAreInt DEF StreamInv, InOrder
  <2>2. Counts(got, 0 + Len(taken[s]))
    BY <1>7, <2>1
  <2>3. QED
    BY <1>7, <2>1, <2>2, CountsConcat
<1>9. ModesKept'
  BY <1>1, <1>2, <1>4, <1>5, <1>6 DEF StreamInv, ModesKept
<1>10. InOrder'
  <2>1. Counts(accepts[s], Len(taken[s]) + n)
    <3>1. CASE mode[s] = "SERVER"
      BY <1>1, <1>3, <3>1, ItemsAreInt DEF StreamInv, InOrder
    <3>2. CASE mode[s] # "SERVER"
      BY <1>1, <3>2, CountsEmpty DEF StreamInv, ModesKept
    <3>3. QED
      BY <3>1, <3>2
  <2>2. QED
    BY <1>1, <1>2, <1>4, <1>7, <1>8, <2>1 DEF StreamInv, InOrder
<1>11. NoneMissing'
  <2> DEFINE a == Len(taken[s])
             b == Len(buffer[s])
             c == Len(accepts[s])
  <2>1. a \in Nat /\ b \in Nat /\ c \in Nat /\ n \in Nat
    BY <1>1, <1>3, ItemsAreInt
  <2>2. Len(taken'[s]) = a + n /\ Len(buffer'[s]) = b - n /\ Len(accepts'[s]) = c
    BY <1>2, <1>4, <1>7, <1>8
  <2>3. thread[s] \in Looping => a + b + c = received[s]
    BY <1>1 DEF StreamInv, NoneMissing
  <2> HIDE DEF a, b, c
  <2>4. (a + n) + (b - n) + c = a + b + c
    BY <2>1
  <2>5. QED
    BY <1>1, <1>2, <1>4, <2>2, <2>3, <2>4 DEF StreamInv, NoneMissing
<1>12. QED
  BY <1>9, <1>10, <1>11 DEF StreamInv

(* The front connection of a listener is taken; it becomes a socket that was *)
(* not registered, so its queues are empty.                                  *)
LEMMA AcceptKeepsOrder ==
  ASSUME NEW p \in Procs, NEW t \in Sockets,
         ProcsOK, ItemsOK, StreamInv, AcceptSocket(p, t)
  PROVE  StreamInv'
<1> DEFINE s == using[p]
           a == Len(taken[s])
           rest == Tail(accepts[s])
           got == Append(taken[s], Head(accepts[s]))
<1>1. s \in Sockets
  BY SocketAssumption DEF AcceptSocket, ProcsOK
<1>2. /\ accepts[s] # <<>> /\ t \notin sockets
      /\ sockets' = sockets \cup {t}
      /\ mode' = [mode EXCEPT ![t] = "CLIENT"]
      /\ thread' = [thread EXCEPT ![t] = "loop"]
      /\ accepts' = [accepts EXCEPT ![s] = rest]
      /\ taken' = [taken EXCEPT ![s] = got]
      /\ UNCHANGED <<buffer, received>>
  BY DEF AcceptSocket
<1> HIDE DEF s
<1>3. /\ mode[s] = "SERVER" /\ buffer[s] = <<>> /\ s \in sockets /\ s # t
      /\ mode[t] = "NONE" /\ buffer[t] = <<>> /\ accepts[t] = <<>>
      /\ taken[t] = <<>> /\ received[t] = 0
  BY <1>1, <1>2 DEF StreamInv, ModesKept
<1>4. /\ Head(accepts[s]) = a + 1 /\ Counts(rest, a + 1)
      /\ Len(rest) = Len(accepts[s]) - 1 /\ Len(accepts[s]) \in Nat \ {0}
  BY <1>1, <1>2, ItemsAreInt, CountsTail DEF StreamInv, InOrder
<1>5. Counts(got, 0) /\ Len(got) = a + 1
  <2>1. 0 + a + 1 = a + 1 /\ 0 \in Nat
    BY <1>1, ItemsAreInt
  <2>2. Counts(Append(taken[s], 0 + a + 1), 0) /\ Len(Append(taken[s], 0 + a + 1)) = a + 1
    BY <1>1, <2>1, ItemsAreInt, CountsAppend DEF StreamInv, InOrder
  <2>3. QED
    BY <1>4, <2>1, <2>2
<1>6. /\ taken'[s] = got /\ accepts'[s] = rest /\ buffer'[s] = <<>>
      /\ \A r \in Sockets \ {s} : taken'[r] = taken[r] /\ accepts'[r] = accepts[r]
      /\ mode'[t] = "CLIENT" /\ thread'[t] = "loop"
      /\ \A r \in Sockets \ {t} : mode'[r] = mode[r] /\ thread'[r] = thread[r]
  BY <1>1, <1>2, <1>3 DEF ItemsOK, ProcsOK
<1> HIDE DEF rest, got
<1>7. ModesKept'
  BY <1>1, <1>2, <1>3, <1>6 DEF StreamInv, ModesKept
<1>8. InOrder'
  BY <1>1, <1>2, <1>4, <1>5, <1>6, CountsEmpty DEF StreamInv, InOrder
<1>9. NoneMissing'
  <2> DEFINE b == Len(buffer[s])
             c == Len(accepts[s])
  <2>1. a \in Nat /\ b \in Nat /\ c \in Nat
    BY <1>1, ItemsAreInt
  <2>2. Len(taken'[s]) = a + 1 /\ Len(buffer'[s]) = b /\ Len(accepts'[s]) = c - 1
    BY <1>2, <1>4, <1>5, <1>6
  <2>3. thread[s] \in Looping => a + b + c = received[s]
    BY <1>1 DEF StreamInv, NoneMissing
  <2> HIDE DEF a, b, c
  <2>4. (a + 1) + b + (c - 1) = a + b + c
    BY <2>1
  <2>5. /\ Len(taken'[t]) = 0 /\ Len(buffer'[t]) = 0 /\ Len(accepts'[t]) = 0
        /\ received'[t] = 0
    <3>1. taken'[t] = <<>> /\ buffer'[t] = <<>> /\ accepts'[t] = <<>>
      BY <1>2, <1>3, <1>6
    <3>2. QED
      BY <1>2, <1>3, <3>1
  <2>6. ASSUME NEW r \in Sockets, thread'[r] \in Looping
        PROVE  Len(taken'[r]) + Len(buffer'[r]) + Len(accepts'[r]) = received'[r]
    <3>1. CASE r = s
      <4>1. thread[s] \in Looping /\ received'[s] = received[s]
        BY <1>2, <1>3, <1>6, <2>6, <3>1
      <4>2. QED
        BY <2>2, <2>3, <2>4, <3>1, <4>1
    <3>2. CASE r = t
      <4>1. Len(taken'[r]) = 0 /\ Len(buffer'[r]) = 0 /\ Len(accepts'[r]) = 0
            /\ received'[r] = 0
        BY <2>5, <3>2, Zenon
      <4>2. QED
        BY <4>1
    <3>3. CASE r # s /\ r # t
      <4>1. /\ taken'[r] = taken[r] /\ buffer'[r] = buffer[r]
            /\ accepts'[r] = accepts[r] /\ received'[r] = received[r]
            /\ thread'[r] = thread[r]
        BY <1>2, <1>6, <3>3
      <4>2. QED
        BY <2>6, <4>1 DEF StreamInv, NoneMissing
    <3>4. QED
      BY <3>1, <3>2, <3>3
  <2>7. QED
    BY <2>6 DEF NoneMissing
<1>10. QED
  BY <1>7, <1>8, <1>9 DEF StreamInv

(* The thread of a stream appends the bytes that come next in it.            *)
LEMMA RecvKeepsOrder ==
  ASSUME NEW s \in Sockets, ProcsOK, ItemsOK, StreamInv, RecvData(s)
  PROVE  StreamInv'
<1> DEFINE r == received[s]
           a == Len(taken[s])
           b == Len(buffer[s])
<1>1. PICK n \in r + 1 .. sent[s] :
        /\ buffer' = [buffer EXCEPT ![s] = @ \o [i \in 1 .. n - r |-> r + i]]
        /\ received' = [received EXCEPT ![s] = n]
  BY DEF RecvData
<1> DEFINE new == [i \in 1 .. n - r |-> r + i]
<1>2. /\ thread[s] = "loop" /\ thread' = [thread EXCEPT ![s] = "notify"]
      /\ mode[s] = "CLIENT" /\ UNCHANGED <<sockets, mode, accepts, taken>>
  BY DEF RecvData, fieldVars
<1>3. /\ r \in Nat /\ n \in Nat /\ n - r \in Nat /\ a \in Nat /\ b \in Nat
      /\ accepts[s] = <<>> /\ Len(accepts[s]) = 0
  <2>1. r \in Nat /\ sent[s] \in Nat
    BY SocketAssumption DEF ItemsOK
  <2>2. n \in Nat /\ n - r \in Nat
    BY ONLY <2>1, n \in r + 1 .. sent[s]
  <2>3. a \in Nat /\ b \in Nat
    BY ItemsAreInt
  <2>4. accepts[s] = <<>> /\ Len(accepts[s]) = 0
    BY <1>2 DEF StreamInv, ModesKept
  <2>5. QED
    BY <2>1, <2>2, <2>3, <2>4
<1>4. a + b = r
  <2>1. a + b + Len(accepts[s]) = r
    BY <1>2 DEF StreamInv, NoneMissing, Looping
  <2> HIDE DEF a, b, r
  <2>2. a + b + 0 = r
    BY <1>3, <2>1
  <2>3. QED
    BY <1>3, <2>2
<1>5. new \in Seq(Int) /\ Len(new) = n - r /\ Counts(new, r)
  <2> HIDE DEF r
  <2>1. new \in [1 .. n - r -> Int]
    BY <1>3
  <2>2. new \in Seq(Int) /\ Len(new) = n - r
    BY <1>3, <2>1, FunctionIsSeq
  <2>3. QED
    BY <2>2 DEF Counts
<1>6. /\ buffer'[s] = buffer[s] \o new /\ received'[s] = n /\ thread'[s] = "notify"
      /\ \A q \in Sockets \ {s} : /\ buffer'[q] = buffer[q] /\ received'[q] = received[q]
                                  /\ thread'[q] = thread[q]
  BY <1>1, <1>2 DEF ItemsOK, ProcsOK
<1> HIDE DEF new
<1>7. Counts(buffer[s] \o new, a) /\ Len(buffer[s] \o new) = b + (n - r)
  <2>1. buffer[s] \in Seq(Int) /\ Counts(buffer[s], a) /\ Counts(new, a + b)
    BY <1>4, <1>5, ItemsAreInt DEF StreamInv, InOrder
  <2>2. QED
    BY <1>3, <1>5, <2>1, CountsConcat
<1>8. ModesKept'
  BY <1>2, <1>6 DEF StreamInv, ModesKept
<1>9. InOrder'
  BY <1>2, <1>6, <1>7 DEF StreamInv, InOrder
<1>10. NoneMissing'
  <2>1. Len(taken'[s]) = a /\ Len(buffer'[s]) = b + (n - r) /\ Len(accepts'[s]) = 0
    BY <1>2, <1>3, <1>6, <1>7
  <2> HIDE DEF a, b, r
  <2>2. a + (b + (n - r)) + 0 = n
    BY <1>3, <1>4
  <2>3. QED
    BY <1>2, <1>6, <2>1, <2>2 DEF StreamInv, NoneMissing
<1>11. QED
  BY <1>8, <1>9, <1>10 DEF StreamInv

(* The thread of a listener appends the connection that comes next.          *)
LEMMA ClientKeepsOrder ==
  ASSUME NEW s \in Sockets, ProcsOK, ItemsOK, StreamInv, AcceptClient(s)
  PROVE  StreamInv'
<1> DEFINE r == received[s]
           a == Len(taken[s])
           c == Len(accepts[s])
           all == Append(accepts[s], r + 1)
<1>1. /\ thread[s] = "loop" /\ thread' = [thread EXCEPT ![s] = "notify"]
      /\ mode[s] = "SERVER" /\ UNCHANGED <<sockets, mode, buffer, taken>>
      /\ accepts' = [accepts EXCEPT ![s] = all]
      /\ received' = [received EXCEPT ![s] = r + 1]
  BY DEF AcceptClient, fieldVars
<1>2. /\ r \in Nat /\ a \in Nat /\ c \in Nat
      /\ buffer[s] = <<>> /\ Len(buffer[s]) = 0
  BY <1>1, ItemsAreInt DEF StreamInv, ModesKept
<1>3. a + c = r
  <2>1. a + Len(buffer[s]) + c = r
    BY <1>1 DEF StreamInv, NoneMissing, Looping
  <2> HIDE DEF a, c, r
  <2>2. a + 0 + c = r
    BY <1>2, <2>1
  <2>3. QED
    BY <1>2, <2>2
<1>4. /\ accepts'[s] = all /\ received'[s] = r + 1 /\ thread'[s] = "notify"
      /\ \A q \in Sockets \ {s} : /\ accepts'[q] = accepts[q] /\ received'[q] = received[q]
                                  /\ thread'[q] = thread[q]
  BY <1>1 DEF ItemsOK, ProcsOK
<1>5. Counts(all, a) /\ Len(all) = c + 1
  <2>1. accepts[s] \in Seq(Int) /\ Counts(accepts[s], a)
    BY ItemsAreInt DEF StreamInv, InOrder
  <2>2. /\ Counts(Append(accepts[s], a + c + 1), a)
        /\ Len(Append(accepts[s], a + c + 1)) = c + 1
    BY <1>2, <2>1, CountsAppend
  <2>3. QED
    BY <1>3, <2>2
<1> HIDE DEF all
<1>6. ModesKept'
  BY <1>1, <1>4 DEF StreamInv, ModesKept
<1>7. InOrder'
  BY <1>1, <1>4, <1>5 DEF StreamInv, InOrder
<1>8. NoneMissing'
  <2>1. Len(taken'[s]) = a /\ Len(buffer'[s]) = 0 /\ Len(accepts'[s]) = c + 1
    BY <1>1, <1>2, <1>4, <1>5
  <2> HIDE DEF a, c, r
  <2>2. a + 0 + (c + 1) = r + 1
    BY <1>2, <1>3
  <2>3. QED
    BY <1>1, <1>4, <2>1, <2>2 DEF StreamInv, NoneMissing
<1>9. QED
  BY <1>6, <1>7, <1>8 DEF StreamInv

(* close drops the bytes nobody retrieved: none is promised from then on.    *)
LEMMA CloseKeepsOrder ==
  ASSUME NEW s \in Sockets, ProcsOK, ItemsOK, StreamInv, CloseStream(s)
  PROVE  StreamInv'
<1>1. /\ thread[s] = "close_stream" /\ thread' = [thread EXCEPT ![s] = "close_open"]
      /\ buffer' = [buffer EXCEPT ![s] = <<>>]
      /\ UNCHANGED <<sockets, mode, accepts, taken, received>>
  BY DEF CloseStream, fieldVars, histVars
<1>2. /\ buffer'[s] = <<>> /\ thread'[s] = "close_open"
      /\ \A q \in Sockets \ {s} : buffer'[q] = buffer[q] /\ thread'[q] = thread[q]
  BY <1>1 DEF ItemsOK, ProcsOK
<1>3. ModesKept'
  BY <1>1, <1>2 DEF StreamInv, ModesKept
<1>4. InOrder'
  BY <1>1, <1>2, CountsEmpty DEF StreamInv, InOrder
<1>5. NoneMissing'
  BY <1>1, <1>2 DEF StreamInv, NoneMissing, Looping
<1>6. QED
  BY <1>3, <1>4, <1>5 DEF StreamInv

LEMMA ConnectKeepsOrder ==
  ASSUME NEW s \in Sockets, NEW m, ProcsOK, ItemsOK, StreamInv, Connect(s, m)
  PROVE  StreamInv'
<1>1. /\ s \in sockets /\ mode[s] = "NONE" /\ m \in {"CLIENT", "SERVER"}
      /\ mode'[s] = m /\ thread'[s] = "loop"
      /\ \A q \in Sockets \ {s} : mode'[q] = mode[q] /\ thread'[q] = thread[q]
      /\ UNCHANGED <<sockets, buffer, accepts, taken, received>>
  BY DEF Connect, ProcsOK, queueVars, histVars
<1>2. /\ buffer[s] = <<>> /\ accepts[s] = <<>> /\ taken[s] = <<>> /\ received[s] = 0
  BY <1>1 DEF StreamInv, ModesKept
<1>3. ModesKept'
  BY <1>1, <1>2 DEF StreamInv, ModesKept
<1>4. InOrder'
  BY <1>1 DEF StreamInv, InOrder
<1>5. NoneMissing'
  <2>1. Len(taken[s]) + Len(buffer[s]) + Len(accepts[s]) = 0
    BY <1>2
  <2>2. QED
    BY <1>1, <1>2, <2>1 DEF StreamInv, NoneMissing
<1>6. QED
  BY <1>3, <1>4, <1>5 DEF StreamInv

LEMMA StreamStep ==
  ASSUME ProcsOK, ItemsOK, StreamInv, Next
  PROVE  StreamInv'
<1>1. ASSUME NEW p \in Procs, Dm(p)
      PROVE  StreamInv'
  <2>1. CASE RetrieveData(p) \/ \E t \in Sockets : AcceptSocket(p, t)
    BY <2>1, RetrieveKeepsOrder, AcceptKeepsOrder
  <2>2. CASE ~ RetrieveData(p) /\ ~ \E t \in Sockets : AcceptSocket(p, t)
    <3>1. UNCHANGED <<sockets, fieldVars, queueVars, thread, histVars>>
      BY <1>1, <2>2 DEF Dm, Awake, CheckHasData, CheckCanAccept, WaitForData,
         WaitAccept, AcceptNothing
    <3>2. QED
      BY <3>1, QueuesUntouched DEF fieldVars
  <2>3. QED
    BY <2>1, <2>2
<1>2. ASSUME NEW s \in Sockets, Register(s) \/ Deregister(s)
      PROVE  StreamInv'
  BY <1>2, NewIsInOrder DEF Register, Deregister
<1>3. ASSUME NEW s \in Sockets, Thread(s)
      PROVE  StreamInv'
  <2>1. CASE RecvData(s) \/ AcceptClient(s) \/ CloseStream(s)
    BY <2>1, RecvKeepsOrder, ClientKeepsOrder, CloseKeepsOrder
  <2>2. CASE ~ (RecvData(s) \/ AcceptClient(s) \/ CloseStream(s))
    <3>1. /\ UNCHANGED <<sockets, mode, queueVars, histVars>>
          /\ \E place \in ThreadPlaces :
               /\ thread' = [thread EXCEPT ![s] = place]
               /\ thread[s] # "none" /\ place # "none"
               /\ place \in Looping => thread[s] \in Looping
      BY <1>3, <2>2 DEF Thread, Notify, ResumeData, ResumeAccept, ResetAwaiter,
         EndOfStream, AcceptInvalid, CloseAwaiter, CloseOpen, fieldVars,
         ThreadPlaces, Looping, Closing
    <3>2. QED
      BY <3>1, QueuesUntouched DEF ProcsOK
  <2>3. QED
    BY <2>1, <2>2
<1>4. ASSUME NEW s \in Sockets, PeerSends(s) \/ PeerCloses(s)
      PROVE  StreamInv'
  <2>1. UNCHANGED <<sockets, fieldVars, queueVars, thread, histVars>>
    BY <1>4 DEF PeerSends, PeerCloses
  <2>2. QED
    BY <2>1, QueuesUntouched DEF fieldVars
<1>5. QED
  BY <1>1, <1>2, <1>3, <1>4, ConnectKeepsOrder DEF Next

THEOREM StreamInvariance == Spec => [](SafeInv /\ StreamInv)
<1>1. SafeInv /\ StreamInv /\ [Next]_vars => StreamInv'
  <2>1. SafeInv /\ StreamInv /\ UNCHANGED vars => StreamInv'
    BY QueuesUntouched DEF SafeInv, vars, fieldVars
  <2>2. QED
    BY <2>1, StreamStep DEF SafeInv
<1>2. QED
  BY <1>1, StreamInit, SafeInvariance, PTL DEF Spec

(* Through any interleaving of receives, retrieves, suspensions and closes,  *)
(* what DM code took from a socket and what waits in its queue is what the   *)
(* peer sent, in order and once each; nothing is missing while it receives.  *)
THEOREM StreamIsKept == Spec => []StreamKept
<1>1. SafeInv /\ StreamInv => StreamKept
  <2> SUFFICES ASSUME SafeInv, StreamInv, NEW s \in sockets
               PROVE  LET items == taken[s] \o Queue(s)
                      IN  /\ items = [i \in DOMAIN items |-> i]
                          /\ thread[s] \in Looping => Len(items) = received[s]
    BY Zenon DEF StreamKept
  <2> DEFINE q == Queue(s)
             items == taken[s] \o q
             a == Len(taken[s])
             b == Len(q)
  <2>1. s \in Sockets /\ taken[s] \in Seq(Int) /\ q \in Seq(Int)
    BY ItemsAreInt DEF SafeInv, ProcsOK, Queue
  <2>2. Counts(taken[s], 0) /\ Counts(q, 0 + a)
    <3>1. 0 + a = a
      BY <2>1
    <3>2. QED
      BY <2>1, <3>1 DEF StreamInv, InOrder, Queue
  <2>3. Counts(items, 0) /\ Len(items) = a + b /\ items \in Seq(Int)
    <3> HIDE DEF q
    <3>1. QED
      BY <2>1, <2>2, CountsConcat
  <2>4. items = [i \in DOMAIN items |-> i]
    <3> HIDE DEF items
    <3>1. items = [i \in 1 .. Len(items) |-> items[i]] /\ DOMAIN items = 1 .. Len(items)
      BY <2>3
    <3>2. \A i \in 1 .. Len(items) : items[i] = i
      BY <2>3 DEF Counts
    <3>3. QED
      BY <3>1, <3>2
  <2>5. ASSUME thread[s] \in Looping
        PROVE  Len(items) = received[s]
    <3>1. a + Len(buffer[s]) + Len(accepts[s]) = received[s]
      BY <2>1, <2>5 DEF StreamInv, NoneMissing
    <3>2. a \in Nat /\ Len(buffer[s]) \in Nat /\ Len(accepts[s]) \in Nat
      BY <2>1, ItemsAreInt DEF SafeInv
    <3>3. CASE mode[s] = "SERVER"
      <4>1. b = Len(accepts[s]) /\ Len(buffer[s]) = 0
        BY <2>1, <3>3 DEF Queue, StreamInv, ModesKept
      <4> HIDE DEF a, b
      <4>2. a + b = received[s]
        BY <3>1, <3>2, <4>1
      <4>3. QED
        BY <2>3, <4>2
    <3>4. CASE mode[s] # "SERVER"
      <4>1. b = Len(buffer[s]) /\ Len(accepts[s]) = 0
        BY <2>1, <3>4 DEF Queue, StreamInv, ModesKept
      <4> HIDE DEF a, b
      <4>2. a + b = received[s]
        BY <3>1, <3>2, <4>1
      <4>3. QED
        BY <2>3, <4>2
    <3>5. QED
      BY <3>3, <3>4
  <2>6. QED
    BY <2>4, <2>5
<1>2. QED
  BY <1>1, StreamInvariance, PTL

=============================================================================
