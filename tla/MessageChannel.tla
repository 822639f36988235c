---------------------------- MODULE MessageChannel ----------------------------
(***************************************************************************)
(* What a stream of messages promises: what is sent is received, once and  *)
(* in order; a reset, or a message nobody can read, may cost the messages  *)
(* under way but never changes one.                                        *)
(***************************************************************************)
EXTENDS Naturals, Sequences

CONSTANT Messages

VARIABLES queue, received, faulty
vars == <<queue, received, faulty>>

Init == queue = <<>> /\ received = <<>> /\ faulty = FALSE

Send == \E m \in Messages : queue' = Append(queue, m) /\ UNCHANGED <<received, faulty>>

Receive ==
  /\ queue # <<>>
  /\ received' = Append(received, Head(queue))
  /\ queue' = Tail(queue)
  /\ UNCHANGED faulty

Fail ==
  /\ faulty'
  /\ \E n \in 0 .. Len(queue) : queue' = SubSeq(queue, 1, n)
  /\ UNCHANGED received

Next == Send \/ Receive \/ Fail

Spec == Init /\ [][Next]_vars /\ WF_vars(Receive)
================================================================================
