------------------------------ MODULE JsonStream ------------------------------
(***************************************************************************)
(* Messages over a byte stream: each one is dumped as text, ended by a     *)
(* zero byte and written in as many calls as the stack wants; the reader   *)
(* collects what arrives, in whatever pieces, and cuts it at the zeros.    *)
(* Nothing keeps two threads from writing at once.  A byte is its message  *)
(* and its place in it.                                                    *)
(***************************************************************************)
EXTENDS Naturals, FiniteSets, FiniteSetsExt, SequencesExt

CONSTANTS
  Senders,     (* the threads that send: main thread and debugger thread.    *)
  Messages,    (* what they may send.                                        *)
  Garbage,     (* those that are no JSON: another program's client errs.     *)
  Size,        (* message -> bytes of its text.                              *)
  Zero,        (* the byte that ends a message.                              *)
  MaxSent,     (* bound: messages sent.                                      *)
  MaxPiece     (* bound: bytes one recv returns (1024 in the code).          *)

\* A text is never empty and has no zero byte in it: dump escapes one.  That
\* bytes of two messages are no text is in the bytes: in that of a message the
\* first byte of another has no place.
ASSUME StreamAssumption ==
  /\ Size \in [Messages -> Nat \ {0}]
  /\ Zero \notin Messages \X Nat
  /\ Garbage \subseteq Messages
  /\ MaxPiece \in Nat

VARIABLES
  data,         (* sender -> the bytes its send has still to write.          *)
  writing,      (* sender -> the message, while its send runs.               *)
  wire,         (* bytes taken by the stack and not received.                *)
  connection,   (* open, closed by the writer, or reset.                     *)
  recv_buffer,
  reader,       (* the reader: waiting, done, thrown out of recv_message, or *)
                (* undefined: recv's -1 was used as a length.                *)
  begun,        (* history: the messages whose sends began.                  *)
  torn,         (* history: a thread wrote into the message of another, of   *)
                (* which the stack had taken a part.                         *)
  sent,         (* history: the messages written that no reset, no message   *)
                (* torn and no unreadable one before them has lost.          *)
  received      (* history: the messages recv_message returned.              *)

streamVars == <<data, writing, wire, connection, recv_buffer, reader, begun, torn, sent, received>>

Bytes(m) == [i \in 1 .. Size[m] + 1 |-> IF i <= Size[m] THEN <<m, i>> ELSE Zero]

StreamInit ==
  /\ data = [s \in Senders |-> <<>>] /\ writing = [s \in Senders |-> <<>>]
  /\ wire = <<>> /\ connection = "open"
  /\ recv_buffer = <<>> /\ reader = "waiting"
  /\ begun = <<>> /\ torn = FALSE /\ sent = <<>> /\ received = <<>>

\* JsonStream::send: the text and the zero that ends it.
Send(s, m) ==
  /\ data[s] = <<>> /\ Len(begun) < MaxSent
  /\ data' = [data EXCEPT ![s] = Bytes(m)]
  /\ writing' = [writing EXCEPT ![s] = <<m>>]
  /\ begun' = Append(begun, m)
  /\ UNCHANGED <<wire, connection, recv_buffer, reader, torn, sent, received>>

\* A part of the sender's message has been taken.
Partly(s) == data[s] # <<>> /\ data[s] # Bytes(Head(writing[s]))

\* One ::send of its loop takes n bytes, whatever another thread has written
\* of its message; on an error send returns false.
Write(s) ==
  /\ data[s] # <<>>
  /\ \/ /\ connection = "open"
        /\ torn' = (torn \/ \E t \in Senders \ {s} : Partly(t))
        /\ \E n \in 1 .. Len(data[s]) :
             /\ wire' = wire \o SubSeq(data[s], 1, n)
             /\ data' = [data EXCEPT ![s] = SubSeq(@, n + 1, Len(@))]
             /\ sent' = IF n = Len(data[s]) /\ reader = "waiting" /\ ~ torn'
                        THEN sent \o writing[s] ELSE sent
     \/ /\ connection # "open"
        /\ data' = [data EXCEPT ![s] = <<>>]
        /\ UNCHANGED <<wire, torn, sent>>
  /\ UNCHANGED <<writing, connection, recv_buffer, reader, begun, received>>

HasZero == \E i \in DOMAIN recv_buffer : recv_buffer[i] = Zero
FirstZero == SelectInSeq(recv_buffer, LAMBDA b : b = Zero)

\* Mutant: the zero stays in the buffer.
ZeroKept == SubSeq(recv_buffer, FirstZero, Len(recv_buffer))

Rest == SubSeq(recv_buffer, FirstZero + 1, Len(recv_buffer))

Text == SubSeq(recv_buffer, 1, FirstZero)

\* recv_message finds a zero: the text before it is parsed and cut off.
Parse ==
  /\ reader = "waiting" /\ HasZero
  /\ \E m \in Messages \ Garbage :
        Text = Bytes(m) /\ received' = Append(received, m)
  /\ recv_buffer' = Rest
  /\ UNCHANGED <<data, writing, wire, connection, reader, begun, torn, sent>>

\* A text that is no JSON throws before anything is cut off, and nothing
\* catches it.
ParseThrows ==
  /\ reader = "waiting" /\ HasZero
  /\ \A m \in Messages \ Garbage : Text # Bytes(m)
  /\ reader' = "thrown"
  /\ sent' = received
  /\ UNCHANGED <<data, writing, wire, connection, recv_buffer, begun, torn, received>>

\* Otherwise recv_message receives.
Receive ==
  /\ reader = "waiting" /\ ~ HasZero
  /\ \/ \E n \in 1 .. MaxPiece :
          /\ n <= Len(wire)
          /\ recv_buffer' = recv_buffer \o SubSeq(wire, 1, n)
          /\ wire' = SubSeq(wire, n + 1, Len(wire))
          /\ UNCHANGED reader
     \/ /\ wire = <<>> /\ connection # "open"
        /\ reader' = IF connection = "closed" THEN "done" ELSE "undefined"
        /\ UNCHANGED <<recv_buffer, wire>>
  /\ UNCHANGED <<data, writing, connection, begun, torn, sent, received>>

\* The writer closes the connection; what it wrote still arrives.
Close ==
  /\ connection = "open"
  /\ connection' = "closed"
  /\ UNCHANGED <<data, writing, wire, recv_buffer, reader, begun, torn, sent, received>>

\* The messages the reader has received and not yet cut out of its buffer.
Complete == Cardinality({i \in DOMAIN recv_buffer : recv_buffer[i] = Zero})

\* The connection is reset: what the reader has not received is lost.
Reset ==
  /\ connection = "open"
  /\ connection' = "reset"
  /\ wire' = <<>>
  /\ sent' = SubSeq(sent, 1, Min({Len(sent), Len(received) + Complete}))
  /\ UNCHANGED <<data, writing, recv_buffer, reader, begun, torn, received>>

\* One round of recv_message's loop.
Reader == Parse \/ ParseThrows \/ Receive

StreamNext ==
  \/ \E s \in Senders : Write(s) \/ \E m \in Messages : Send(s, m)
  \/ Reader \/ Close \/ Reset

\* The reader's loop runs and the network delivers.
StreamSpec == StreamInit /\ [][StreamNext]_streamVars /\ WF_streamVars(Reader)
--------------------------------------------------------------------------------
\* The messages written are received, once, in order and all of them, however
\* their bytes are cut, while the connection is not reset, nothing unreadable is
\* sent and no thread writes into a message of which the stack took a part (the
\* loop of JsonStream::send takes no lock); after any of these, what is still
\* received is what was sent, in order.  The stream implements the channel,
\* its fairness included.
Channel == INSTANCE MessageChannel
             WITH queue  <- SubSeq(sent, Len(received) + 1, Len(sent)),
                  faulty <- \/ connection = "reset" \/ torn
                            \/ \E i \in DOMAIN begun : begun[i] \in Garbage
ChannelSpec == Channel!Spec
================================================================================
