------------------------- MODULE WritePipelineProofs -------------------------
(***************************************************************************)
(* Proofs about the outgoing half of tcp_connection, for every set of       *)
(* message kinds, every bound on the messages and every outcome of the      *)
(* uninitialised timeout; and, at the end, about what the client of StateDB *)
(* is told, whose connection is such a pipeline.                            *)
(***************************************************************************)
EXTENDS StateDB, SequenceTheorems, TLAPS

PipelineType == [busy : BOOLEAN, flight : Chunk \union {NoChunk}, queue : Seq(Chunk)]

------------------------------------------------------------------------------
(* Chunks, and what async_write_message and async_write_raw do.             *)

\* A chunk is never the absence of one.
LEMMA ChunkIsNotNoChunk == \A c \in Chunk : c # NoChunk
  BY WriteAssumption DEF Chunk, NoChunk

\* The body of a chunk is a chunk.
LEMMA BodyIsChunk == \A c \in Chunk : BodyOf(c) \in Chunk
  BY DEF Chunk, BodyOf

\* The state that the write functions read has its type.
LEMMA PipelineTyped ==
  ASSUME TypeOK
  PROVE  /\ Pipeline \in PipelineType
         /\ Idle \in PipelineType
         /\ Pipeline.busy = write_in_progress
         /\ Pipeline.flight = inflight
         /\ Pipeline.queue = pending
         /\ Idle = [busy |-> FALSE, flight |-> NoChunk, queue |-> pending]
  BY DEF TypeOK, Pipeline, PipelineType, Idle

\* A write is queued behind the others when one is in progress, and is started
\* otherwise.
LEMMA WriteEffect ==
  ASSUME NEW q \in PipelineType, NEW c \in Chunk
  PROVE  /\ Write(q, c) \in PipelineType
         /\ q.busy => Write(q, c) = [busy |-> TRUE, flight |-> q.flight,
                                     queue |-> Append(q.queue, c)]
         /\ ~q.busy => Write(q, c) = [busy |-> TRUE, flight |-> c, queue |-> q.queue]
<1>1. CASE q.busy
  <2>1. Append(q.queue, c) \in Seq(Chunk)
    BY AppendProperties DEF PipelineType
  <2> QED
    BY <1>1, <2>1 DEF Write, PipelineType
<1>2. CASE ~q.busy
  BY <1>2 DEF Write, PipelineType
<1> QED
  BY <1>1, <1>2

\* What handle_write_operation leaves behind, in its three cases: the chunk's own
\* handler starts its body and the front of the queue goes to the back; the
\* queue is empty; the front of the queue is started.
LEMMA AfterWriteEffect ==
  ASSUME TypeOK, inflight \in Chunk
  PROVE  /\ AfterWrite \in PipelineType
         /\ WritesBody(inflight) /\ pending = <<>> =>
               AfterWrite = [busy |-> TRUE, flight |-> BodyOf(inflight), queue |-> <<>>]
         /\ WritesBody(inflight) /\ pending # <<>> =>
               AfterWrite = [busy |-> TRUE, flight |-> BodyOf(inflight),
                             queue |-> Append(Tail(pending), Head(pending))]
         /\ ~WritesBody(inflight) /\ pending = <<>> =>
               AfterWrite = [busy |-> FALSE, flight |-> NoChunk, queue |-> <<>>]
         /\ ~WritesBody(inflight) /\ pending # <<>> =>
               AfterWrite = [busy |-> TRUE, flight |-> Head(pending),
                             queue |-> Tail(pending)]
<1> DEFINE next == IF WritesBody(inflight) THEN Write(Idle, BodyOf(inflight)) ELSE Idle
           rest == [next EXCEPT !.queue = Tail(@)]
<1>1. /\ Idle \in PipelineType
      /\ Idle = [busy |-> FALSE, flight |-> NoChunk, queue |-> pending]
  BY PipelineTyped
<1>2. /\ next \in PipelineType
      /\ next.queue = pending
      /\ WritesBody(inflight) => next = [busy |-> TRUE, flight |-> BodyOf(inflight),
                                         queue |-> pending]
      /\ ~WritesBody(inflight) => next = Idle
  <2>1. BodyOf(inflight) \in Chunk
    BY BodyIsChunk
  <2>2. Idle.queue = pending /\ ~Idle.busy
    BY <1>1
  <2>3. /\ Write(Idle, BodyOf(inflight)) \in PipelineType
        /\ Write(Idle, BodyOf(inflight)) =
              [busy |-> TRUE, flight |-> BodyOf(inflight), queue |-> pending]
    BY <1>1, <2>1, <2>2, WriteEffect
  <2>4. CASE WritesBody(inflight)
    BY <2>3, <2>4
  <2>5. CASE ~WritesBody(inflight)
    BY <1>1, <2>2, <2>5
  <2> QED
    BY <2>4, <2>5
<1>3. AfterWrite = IF next.queue = <<>> THEN next ELSE Write(rest, Head(next.queue))
  BY DEF AfterWrite
<1>4. CASE pending = <<>>
  BY <1>1, <1>2, <1>3, <1>4
<1>5. CASE pending # <<>>
  <2>1. Head(pending) \in Chunk /\ Tail(pending) \in Seq(Chunk)
    BY <1>5, HeadTailProperties DEF TypeOK
  <2>2. rest \in PipelineType /\ rest.queue = Tail(pending)
        /\ rest.busy = next.busy /\ rest.flight = next.flight
    BY <1>2, <2>1 DEF PipelineType
  <2>3. AfterWrite = Write(rest, Head(pending))
    BY <1>2, <1>3, <1>5
  <2> HIDE DEF next, rest
  <2>4. CASE WritesBody(inflight)
    <3>1. rest.busy /\ rest.flight = BodyOf(inflight)
      BY <1>2, <2>2, <2>4
    <3> QED
      BY <1>5, <2>1, <2>2, <2>3, <2>4, <3>1, WriteEffect
  <2>5. CASE ~WritesBody(inflight)
    <3>1. ~rest.busy
      BY <1>1, <1>2, <2>2, <2>5
    <3> QED
      BY <1>5, <2>1, <2>2, <2>3, <2>5, <3>1, WriteEffect
  <2> QED
    BY <2>4, <2>5
<1> QED
  BY <1>4, <1>5

\* What Issue leaves behind.  The chunks it appends to the history are the
\* preamble, and the body unless the message is a pong.
LEMMA IssueEffect ==
  ASSUME TypeOK, NEW kind \in Kinds, Issue(kind)
  PROVE  LET head == HeadOf(count + 1, kind)
         IN  /\ head \in Chunk
             /\ Issued(count + 1, kind) \in Seq(Chunk)
             /\ Issued(count + 1, kind) =
                  IF kind = "pong" THEN <<head>> ELSE <<head, BodyOf(head)>>
             /\ write_in_progress' = TRUE
             /\ inflight' = IF write_in_progress THEN inflight ELSE head
             /\ pending' = IF write_in_progress
                           THEN IF kind = "pair"
                                THEN Append(Append(pending, head), BodyOf(head))
                                ELSE Append(pending, head)
                           ELSE IF kind = "pair"
                                THEN Append(pending, BodyOf(head))
                                ELSE pending
<1> DEFINE head == HeadOf(count + 1, kind)
           one  == Write(Pipeline, head)
           q    == IF kind = "pair" THEN Write(one, BodyOf(head)) ELSE one
<1>1. head \in Chunk /\ BodyOf(head) \in Chunk
  <2>1. count + 1 \in 1..MaxMessages
    BY WriteAssumption DEF TypeOK, Issue
  <2> QED
    BY <2>1, BodyIsChunk DEF HeadOf, Chunk
<1>2. Issued(count + 1, kind) = IF kind = "pong" THEN <<head>> ELSE <<head, BodyOf(head)>>
  BY DEF Issued
<1>3. Issued(count + 1, kind) \in Seq(Chunk)
  <2> HIDE DEF head
  <2>1. <<head>> \in Seq(Chunk) /\ <<head, BodyOf(head)>> \in Seq(Chunk)
    BY <1>1
  <2> QED
    BY <1>2, <2>1
<1>4. write_in_progress' = q.busy /\ inflight' = q.flight /\ pending' = q.queue
  BY DEF Issue, Becomes
<1>5. /\ one \in PipelineType
      /\ write_in_progress => one = [busy |-> TRUE, flight |-> inflight,
                                     queue |-> Append(pending, head)]
      /\ ~write_in_progress => one = [busy |-> TRUE, flight |-> head, queue |-> pending]
  BY <1>1, PipelineTyped, WriteEffect
<1>6. one.busy
  BY <1>5 DEF TypeOK
<1> HIDE DEF one, head
<1>7. Write(one, BodyOf(head)) = [busy |-> TRUE, flight |-> one.flight,
                                  queue |-> Append(one.queue, BodyOf(head))]
  BY <1>1, <1>5, <1>6, WriteEffect
<1>8. /\ write_in_progress' = TRUE
      /\ inflight' = one.flight
      /\ pending' = IF kind = "pair" THEN Append(one.queue, BodyOf(head)) ELSE one.queue
  <2>1. CASE kind = "pair"
    BY <1>4, <1>7, <2>1
  <2>2. CASE kind # "pair"
    BY <1>4, <1>5, <2>2 DEF TypeOK
  <2> QED
    BY <2>1, <2>2
<1>9. /\ one.flight = IF write_in_progress THEN inflight ELSE head
      /\ one.queue = IF write_in_progress THEN Append(pending, head) ELSE pending
  <2>1. CASE write_in_progress
    BY <1>5, <2>1
  <2>2. CASE ~write_in_progress
    BY <1>5, <2>2
  <2> QED
    BY <2>1, <2>2
<1>10. QED
  BY <1>1, <1>2, <1>3, <1>8, <1>9 DEF head

------------------------------------------------------------------------------
(* Type correctness.                                                        *)

\* The state of the one operation that the pipeline allows: a result belongs to a
\* chunk in flight, a chunk in flight keeps write_in_progress set, and an open
\* connection without one is idle and has an empty queue.
FlightInv ==
    /\ result # "none" => inflight # NoChunk
    /\ inflight # NoChunk => write_in_progress
    /\ open /\ inflight = NoChunk => ~write_in_progress /\ pending = <<>>

\* Every action keeps the types: what handle_write_operation, the timers and the
\* senders assign are chunks, flags and queues of chunks.
LEMMA TypePreserved ==
  ASSUME TypeOK, FlightInv, [Next]_vars
  PROVE  TypeOK'
<1>1. ASSUME NEW kind \in Kinds, Issue(kind)
      PROVE  TypeOK'
  <2> DEFINE head == HeadOf(count + 1, kind)
  <2>1. head \in Chunk /\ BodyOf(head) \in Chunk
    BY <1>1, IssueEffect, BodyIsChunk
  <2>2. inflight' \in Chunk \union {NoChunk} /\ write_in_progress' \in BOOLEAN
    BY <1>1, <2>1, IssueEffect DEF TypeOK
  <2>3. pending' \in Seq(Chunk)
    <3>1. /\ Append(pending, head) \in Seq(Chunk)
          /\ Append(pending, BodyOf(head)) \in Seq(Chunk)
          /\ Append(Append(pending, head), BodyOf(head)) \in Seq(Chunk)
      BY <2>1 DEF TypeOK
    <3> QED
      BY <1>1, <3>1, IssueEffect DEF TypeOK
  <2>4. script' \in Seq(Chunk)
    <3>1. Issued(count + 1, kind) \in Seq(Chunk)
      BY <1>1, IssueEffect
    <3> QED
      BY <1>1, <3>1, ConcatProperties DEF Issue, TypeOK
  <2>5. waits' \subseteq Chunk
    BY <1>1, <2>1 DEF Issue, Timer, TypeOK
  <2>6. count' \in 0..MaxMessages
    BY <1>1, WriteAssumption DEF Issue, TypeOK
  <2> QED
    BY <1>1, <2>2, <2>3, <2>4, <2>5, <2>6 DEF Issue, TypeOK
<1>2. ASSUME NEW whole \in BOOLEAN, Transmit(whole) PROVE TypeOK'
  <2>1. Append(wire, inflight) \in Seq(Chunk)
    BY <1>2 DEF Transmit, TypeOK
  <2> QED
    BY <1>2, <2>1 DEF Transmit, TypeOK
<1>3. CASE Fail
  BY <1>3 DEF Fail, TypeOK
<1>4. CASE HandleWritten
  <2>1. inflight \in Chunk
    BY <1>4 DEF HandleWritten, FlightInv, TypeOK
  <2>2. AfterWrite \in PipelineType
    BY <2>1, AfterWriteEffect
  <2>3. /\ write_in_progress' \in BOOLEAN
        /\ inflight' \in Chunk \union {NoChunk}
        /\ pending' \in Seq(Chunk)
    BY <1>4, <2>2 DEF HandleWritten, Becomes, PipelineType
  <2>4. waits' \subseteq Chunk
    <3>1. PICK timed \in TimerChoices(AfterWrite.flight) : Timer(AfterWrite.flight, timed)
      BY <1>4 DEF HandleWritten
    <3>2. CASE AfterWrite.flight = NoChunk
      <4>1. ~timed
        BY <3>1, <3>2 DEF TimerChoices
      <4> QED
        BY <3>1, <4>1 DEF Timer, TypeOK
    <3>3. CASE AfterWrite.flight \in Chunk
      BY <3>1, <3>3 DEF Timer, TypeOK
    <3> QED
      BY <2>2, <3>2, <3>3 DEF PipelineType
  <2> QED
    BY <1>4, <2>3, <2>4 DEF HandleWritten, TypeOK
<1>5. CASE HandleFailed
  BY <1>5 DEF HandleFailed, TypeOK
<1>6. ASSUME NEW c \in waits, HandleTimeout(c)
      PROVE  TypeOK'
  BY <1>6 DEF HandleTimeout, TypeOK
<1>7. CASE CloseByReader
  BY <1>7 DEF CloseByReader, TypeOK
<1>8. CASE UNCHANGED vars
  BY <1>8 DEF vars, TypeOK
<1> QED
  BY <1>1, <1>2, <1>3, <1>4, <1>5, <1>6, <1>7, <1>8 DEF Next

\* Every action keeps FlightInv, the link between write_in_progress, the chunk in
\* flight and the state of the socket.
LEMMA FlightPreserved ==
  ASSUME TypeOK, FlightInv, [Next]_vars
  PROVE  FlightInv'
<1>1. ASSUME NEW kind \in Kinds, Issue(kind)
      PROVE  FlightInv'
  <2>1. HeadOf(count + 1, kind) # NoChunk
    BY <1>1, IssueEffect, ChunkIsNotNoChunk
  <2>2. write_in_progress' /\ open' = open /\ result' = result
    BY <1>1, IssueEffect DEF Issue
  <2>3. inflight' = IF write_in_progress THEN inflight ELSE HeadOf(count + 1, kind)
    BY <1>1, IssueEffect
  <2> QED
    BY <2>1, <2>2, <2>3 DEF FlightInv
<1>2. ASSUME NEW whole \in BOOLEAN, Transmit(whole) PROVE FlightInv'
  BY <1>2 DEF Transmit, FlightInv
<1>3. CASE Fail
  BY <1>3 DEF Fail, FlightInv
<1>4. CASE HandleWritten
  <2>1. inflight \in Chunk
    BY <1>4 DEF HandleWritten, FlightInv, TypeOK
  <2>2. /\ result' = "none"
        /\ write_in_progress' = AfterWrite.busy
        /\ inflight' = AfterWrite.flight
        /\ pending' = AfterWrite.queue
    BY <1>4 DEF HandleWritten, Becomes
  <2>3. CASE WritesBody(inflight)
    <3>1. write_in_progress' /\ inflight' = BodyOf(inflight)
      BY <2>1, <2>2, <2>3, AfterWriteEffect
    <3> QED
      BY <2>1, <2>2, <3>1, BodyIsChunk, ChunkIsNotNoChunk DEF FlightInv
  <2>4. CASE ~WritesBody(inflight) /\ pending = <<>>
    <3>1. ~write_in_progress' /\ inflight' = NoChunk /\ pending' = <<>>
      BY <2>1, <2>2, <2>4, AfterWriteEffect
    <3> QED
      BY <2>2, <3>1 DEF FlightInv
  <2>5. CASE ~WritesBody(inflight) /\ pending # <<>>
    <3>1. write_in_progress' /\ inflight' = Head(pending)
      BY <2>1, <2>2, <2>5, AfterWriteEffect
    <3>2. Head(pending) # NoChunk
      BY <2>5, HeadTailProperties, ChunkIsNotNoChunk DEF TypeOK
    <3> QED
      BY <2>2, <3>1, <3>2 DEF FlightInv
  <2> QED
    BY <2>3, <2>4, <2>5
<1>5. CASE HandleFailed
  BY <1>5 DEF HandleFailed, FlightInv
<1>6. ASSUME NEW c \in waits, HandleTimeout(c)
      PROVE  FlightInv'
  BY <1>6 DEF HandleTimeout, FlightInv
<1>7. CASE CloseByReader
  BY <1>7 DEF CloseByReader, FlightInv
<1>8. CASE UNCHANGED vars
  BY <1>8 DEF vars, FlightInv
<1> QED
  BY <1>1, <1>2, <1>3, <1>4, <1>5, <1>6, <1>7, <1>8 DEF Next

\* The variables of the write half keep their types, and its one operation its
\* shape, in every behaviour.
LEMMA TypeAndFlight == Spec => [](TypeOK /\ FlightInv)
<1>1. Init => TypeOK /\ FlightInv
  <2>1. <<>> \in Seq(Chunk) /\ 0 \in 0..MaxMessages /\ 0 \in 0..Len(<<>>)
    BY WriteAssumption
  <2> QED
    BY <2>1 DEF Init, TypeOK, FlightInv
<1>2. TypeOK /\ FlightInv /\ [Next]_vars => (TypeOK /\ FlightInv)'
  BY TypePreserved, FlightPreserved
<1> QED
  BY <1>1, <1>2, PTL DEF Spec

\* The variables of the outgoing half keep their types; in particular every timer
\* that was started belongs to a chunk that was started.
THEOREM TypeCorrect == Spec => []TypeOK
  BY TypeAndFlight, PTL

\* While the connection is open, queued operations imply an operation in flight:
\* handle_write_operation never leaves the queue waiting for nothing.
THEOREM NeverStalls == Spec => []NoStall
<1>1. FlightInv => NoStall
  BY DEF FlightInv, NoStall
<1> QED
  BY <1>1, TypeAndFlight, PTL

------------------------------------------------------------------------------
(* Framing of key-updated notices.                                          *)

LastSent == wire[Len(wire)]

\* While a preamble of a value is the last chunk sent on an open connection, the
\* write in progress is that preamble (its handler is about to run) or its body.
\* A body of a value is never queued, and is in flight only after its preamble.
FramingInv ==
    /\ ValueFramed
    /\ \A i \in 1..Len(pending) : ~IsValueBody(pending[i])
    /\ result = "ok" => wire # <<>> /\ LastSent = inflight
    /\ open /\ wire # <<>> /\ WritesBody(LastSent) =>
          \/ inflight = LastSent /\ result = "ok"
          \/ inflight = BodyOf(LastSent) /\ result # "ok"
    /\ open /\ IsValueBody(inflight) /\ result # "ok" =>
          wire # <<>> /\ WritesBody(LastSent) /\ inflight = BodyOf(LastSent)

\* Sending one more chunk keeps the framing if it is the body that the last chunk
\* asks for, or if neither of the two belongs to an unfinished value.
LEMMA FramedAppend ==
  ASSUME NEW w \in Seq(Chunk), NEW c \in Chunk,
         w # <<>> /\ WritesBody(w[Len(w)]) => c = BodyOf(w[Len(w)]),
         IsValueBody(c) => w # <<>> /\ WritesBody(w[Len(w)]) /\ c = BodyOf(w[Len(w)]),
         \A i \in 1..Len(w) :
            /\ WritesBody(w[i]) /\ i < Len(w) => w[i + 1] = BodyOf(w[i])
            /\ IsValueBody(w[i]) =>
                   i > 1 /\ WritesBody(w[i - 1]) /\ w[i] = BodyOf(w[i - 1]),
         NEW i \in 1..Len(Append(w, c))
  PROVE  /\ WritesBody(Append(w, c)[i]) /\ i < Len(Append(w, c)) =>
                Append(w, c)[i + 1] = BodyOf(Append(w, c)[i])
         /\ IsValueBody(Append(w, c)[i]) =>
                /\ i > 1
                /\ WritesBody(Append(w, c)[i - 1])
                /\ Append(w, c)[i] = BodyOf(Append(w, c)[i - 1])
<1> DEFINE z == Append(w, c)
<1>1. /\ Len(w) \in Nat
      /\ Len(z) = Len(w) + 1
      /\ \A j \in 1..Len(w) : z[j] = w[j]
      /\ z[Len(w) + 1] = c
  BY AppendProperties, LenProperties
<1>2. w # <<>> => Len(w) > 0
  BY EmptySeq
<1>3. w = <<>> => Len(w) = 0
  OBVIOUS
<1> HIDE DEF z
<1>4. WritesBody(z[i]) /\ i < Len(z) => z[i + 1] = BodyOf(z[i])
  <2> SUFFICES ASSUME WritesBody(z[i]), i < Len(z)
               PROVE  z[i + 1] = BodyOf(z[i])
    OBVIOUS
  <2>1. i \in 1..Len(w) /\ z[i] = w[i]
    BY <1>1 DEF z
  <2>2. CASE i < Len(w)
    BY <1>1, <2>1, <2>2
  <2>3. CASE i = Len(w)
    BY <1>1, <1>3, <2>1, <2>3
  <2> QED
    BY <2>1, <2>2, <2>3
<1>5. IsValueBody(z[i]) => i > 1 /\ WritesBody(z[i - 1]) /\ z[i] = BodyOf(z[i - 1])
  <2> SUFFICES ASSUME IsValueBody(z[i])
               PROVE  i > 1 /\ WritesBody(z[i - 1]) /\ z[i] = BodyOf(z[i - 1])
    OBVIOUS
  <2>1. CASE i \in 1..Len(w)
    BY <1>1, <2>1
  <2>2. CASE i = Len(w) + 1
    BY <1>1, <1>2, <2>2
  <2> QED
    BY <1>1, <2>1, <2>2 DEF z
<1> QED
  BY <1>4, <1>5 DEF z

\* The body of a value's preamble is a value's body.  Nothing else is both.
LEMMA BodyOfPreamble ==
  \A c \in Chunk : /\ WritesBody(c) => IsValueBody(BodyOf(c))
                   /\ ~(WritesBody(c) /\ IsValueBody(c))
                   /\ ~WritesBody(BodyOf(c))
                   /\ BodyOf(c).kind = c.kind
  BY DEF Chunk, BodyOf, WritesBody, IsValueBody

\* Queueing a chunk that is no value's body brings none into the queue.
LEMMA AppendNoBody ==
  \A s \in Seq(Chunk), c \in Chunk :
     (\A i \in 1..Len(s) : ~IsValueBody(s[i])) /\ ~IsValueBody(c) =>
        \A i \in 1..Len(Append(s, c)) : ~IsValueBody(Append(s, c)[i])
  BY AppendProperties, LenProperties

\* Every action keeps FramingInv: the preamble last on the wire has its body in
\* flight, and no body waits in the queue without it.
LEMMA FramingPreserved ==
  ASSUME TypeOK, FlightInv, FramingInv, [Next]_vars
  PROVE  FramingInv'
<1> USE DEF LastSent
<1>0. wire # <<>> => LastSent \in Chunk
  BY EmptySeq, ElementOfSeq DEF TypeOK
<1>1. ASSUME NEW kind \in Kinds, Issue(kind)
      PROVE  FramingInv'
  <2> DEFINE head == HeadOf(count + 1, kind)
  <2>1. head \in Chunk /\ BodyOf(head) \in Chunk
    BY <1>1, IssueEffect, BodyIsChunk
  <2>2. ~IsValueBody(head) /\ (kind = "pair" => ~IsValueBody(BodyOf(head)))
    BY DEF HeadOf, BodyOf, IsValueBody
  <2>3. \A i \in 1..Len(pending') : ~IsValueBody(pending'[i])
    <3> HIDE DEF head
    <3>2. \A i \in 1..Len(pending) : ~IsValueBody(pending[i])
      BY DEF FramingInv
    <3>3. pending \in Seq(Chunk) /\ Append(pending, head) \in Seq(Chunk)
      BY <2>1, AppendProperties DEF TypeOK
    <3>4. pending' = IF write_in_progress
                     THEN IF kind = "pair"
                          THEN Append(Append(pending, head), BodyOf(head))
                          ELSE Append(pending, head)
                     ELSE IF kind = "pair" THEN Append(pending, BodyOf(head)) ELSE pending
      BY <1>1, IssueEffect DEF head
    <3>5. \A i \in 1..Len(Append(pending, head)) : ~IsValueBody(Append(pending, head)[i])
      BY <2>1, <2>2, <3>2, <3>3, AppendNoBody
    <3>6. CASE kind = "pair"
      BY <2>1, <2>2, <3>2, <3>3, <3>4, <3>5, <3>6, AppendNoBody
    <3>7. CASE kind # "pair"
      BY <3>2, <3>4, <3>5, <3>7
    <3> QED
      BY <3>6, <3>7
  <2>4. /\ inflight' = IF write_in_progress THEN inflight ELSE head
        /\ wire' = wire /\ result' = result /\ open' = open
    BY <1>1, IssueEffect DEF Issue
  <2>5. CASE write_in_progress
    BY <2>3, <2>4, <2>5 DEF FramingInv, ValueFramed
  <2>6. CASE ~write_in_progress
    <3>1. inflight = NoChunk /\ result = "none"
      BY <2>6 DEF FlightInv, TypeOK
    <3>2. ~(open /\ wire # <<>> /\ WritesBody(LastSent))
      BY <1>0, <3>1, BodyIsChunk, ChunkIsNotNoChunk DEF FramingInv
    <3> QED
      BY <2>2, <2>3, <2>4, <2>6, <3>1, <3>2 DEF FramingInv, ValueFramed
  <2> QED
    BY <2>5, <2>6
<1>2. ASSUME NEW whole \in BOOLEAN, Transmit(whole) PROVE FramingInv'
  <2>1. /\ open /\ inflight \in Chunk /\ result = "none" /\ result' = "ok"
        /\ wire' = Append(wire, inflight)
        /\ open' = open /\ inflight' = inflight /\ pending' = pending
    BY <1>2 DEF Transmit, TypeOK
  <2>2. wire # <<>> /\ WritesBody(LastSent) => inflight = BodyOf(LastSent)
    BY <2>1 DEF FramingInv
  <2>3. IsValueBody(inflight) =>
           wire # <<>> /\ WritesBody(LastSent) /\ inflight = BodyOf(LastSent)
    BY <2>1 DEF FramingInv
  <2>4. wire \in Seq(Chunk) /\ ValueFramed
    BY DEF TypeOK, FramingInv
  <2>5. ValueFramed'
    BY <2>1, <2>2, <2>3, <2>4, FramedAppend DEF ValueFramed
  <2>6. wire' # <<>> /\ LastSent' = inflight
    BY <2>1, <2>4, AppendProperties, LenProperties
  <2> QED
    BY <2>1, <2>5, <2>6 DEF FramingInv
<1>3. CASE Fail
  BY <1>3 DEF Fail, FramingInv, ValueFramed
<1>4. CASE HandleWritten
  <2>1. inflight \in Chunk
    BY <1>4 DEF HandleWritten, FlightInv, TypeOK
  <2>2. /\ result = "ok" /\ result' = "none" /\ wire' = wire /\ open' = open
        /\ inflight' = AfterWrite.flight
        /\ pending' = AfterWrite.queue
        /\ wire # <<>> /\ LastSent = inflight
    BY <1>4 DEF HandleWritten, Becomes, FramingInv
  <2>3. \A i \in 1..Len(pending) : ~IsValueBody(pending[i])
    BY DEF FramingInv
  <2>4. CASE WritesBody(inflight)
    <3>1. inflight' = BodyOf(inflight)
      BY <2>1, <2>2, <2>4, AfterWriteEffect
    <3>2. \A i \in 1..Len(pending') : ~IsValueBody(pending'[i])
      <4>1. CASE pending = <<>>
        BY <2>1, <2>2, <2>4, <4>1, AfterWriteEffect
      <4>2. CASE pending # <<>>
        <5>1. pending' = Append(Tail(pending), Head(pending))
          BY <2>1, <2>2, <2>4, <4>2, AfterWriteEffect
        <5>2. /\ Tail(pending) \in Seq(Chunk) /\ Head(pending) \in Chunk
              /\ Len(Tail(pending)) = Len(pending) - 1
              /\ \A i \in 1..Len(Tail(pending)) : Tail(pending)[i] = pending[i + 1]
              /\ Len(pending) \in Nat \ {0}
          BY <4>2, HeadTailProperties, EmptySeq DEF TypeOK
        <5>3. Head(pending) = pending[1]
          BY <4>2 DEF TypeOK
        <5>4. \A i \in 1..Len(Tail(pending)) : ~IsValueBody(Tail(pending)[i])
          BY <2>3, <5>2
        <5>5. ~IsValueBody(Head(pending))
          BY <2>3, <5>2, <5>3
        <5> QED
          BY <5>1, <5>2, <5>4, <5>5, AppendNoBody
      <4> QED
        BY <4>1, <4>2
    <3> QED
      BY <2>1, <2>2, <2>4, <3>1, <3>2, BodyOfPreamble DEF FramingInv, ValueFramed
  <2>5. CASE ~WritesBody(inflight)
    <3>1. CASE pending = <<>>
      <4>1. inflight' = NoChunk /\ pending' = <<>>
        BY <2>1, <2>2, <2>5, <3>1, AfterWriteEffect
      <4>2. ~IsValueBody(NoChunk)
        BY DEF IsValueBody, NoChunk
      <4> QED
        BY <2>2, <2>5, <4>1, <4>2 DEF FramingInv, ValueFramed
    <3>2. CASE pending # <<>>
      <4>1. inflight' = Head(pending) /\ pending' = Tail(pending)
        BY <2>1, <2>2, <2>5, <3>2, AfterWriteEffect
      <4>2. /\ Len(Tail(pending)) = Len(pending) - 1
            /\ \A i \in 1..Len(Tail(pending)) : Tail(pending)[i] = pending[i + 1]
            /\ Len(pending) \in Nat \ {0}
        BY <3>2, HeadTailProperties, EmptySeq DEF TypeOK
      <4>3. Head(pending) = pending[1]
        BY <3>2 DEF TypeOK
      <4>4. /\ ~IsValueBody(inflight')
            /\ \A i \in 1..Len(pending') : ~IsValueBody(pending'[i])
        BY <2>3, <4>1, <4>2, <4>3
      <4> QED
        BY <2>2, <2>5, <4>4 DEF FramingInv, ValueFramed
    <3> QED
      BY <3>1, <3>2
  <2> QED
    BY <2>4, <2>5
<1>5. CASE HandleFailed
  BY <1>5 DEF HandleFailed, FramingInv, ValueFramed
<1>6. ASSUME NEW c \in waits, HandleTimeout(c)
      PROVE  FramingInv'
  BY <1>6 DEF HandleTimeout, FramingInv, ValueFramed
<1>7. CASE CloseByReader
  BY <1>7 DEF CloseByReader, FramingInv, ValueFramed
<1>8. CASE UNCHANGED vars
  BY <1>8 DEF vars, FramingInv, ValueFramed
<1> QED
  BY <1>1, <1>2, <1>3, <1>4, <1>5, <1>6, <1>7, <1>8 DEF Next

\* The body of every key-updated notice follows its preamble on the wire.
THEOREM ValuesAreFramed == Spec => []ValueFramed
<1>1. Init => FramingInv
  BY DEF Init, FramingInv, ValueFramed, NoChunk, IsValueBody
<1>2. TypeOK /\ FlightInv /\ FramingInv /\ [Next]_vars => FramingInv'
  BY FramingPreserved
<1>3. FramingInv => ValueFramed
  BY DEF FramingInv
<1> QED
  BY <1>1, <1>2, <1>3, TypeAndFlight, PTL DEF Spec

------------------------------------------------------------------------------
(* Order, as long as no key-updated notice is written.                      *)

\* On an open connection the history of issued chunks is what was sent, then the
\* chunk in flight, then the queue.
OrderInv == NoValues => InOrder /\ (open => script = wire \o (Unsent \o pending))

\* The two halves of a history that grows at its end.
LEMMA NoValuesEarlier ==
  ASSUME NEW s \in Seq(Chunk), NEW t \in Seq(Chunk),
         \A i \in 1..Len(s \o t) : (s \o t)[i].kind # "value"
  PROVE  /\ \A i \in 1..Len(s) : s[i].kind # "value"
         /\ \A i \in 1..Len(t) : t[i].kind # "value"
<1>1. /\ Len(s) \in Nat /\ Len(t) \in Nat
      /\ Len(s \o t) = Len(s) + Len(t)
      /\ \A i \in 1..Len(s) + Len(t) :
            (s \o t)[i] = IF i <= Len(s) THEN s[i] ELSE t[i - Len(s)]
  BY ConcatProperties, LenProperties
<1>2. ASSUME NEW i \in 1..Len(s)
      PROVE  s[i].kind # "value"
  BY <1>1, <1>2
<1>3. ASSUME NEW i \in 1..Len(t)
      PROVE  t[i].kind # "value"
  <2>1. Len(s) + i \in 1..Len(s \o t) /\ (s \o t)[Len(s) + i] = t[i]
    BY <1>1
  <2> QED
    BY <2>1
<1> QED
  BY <1>2, <1>3

\* Concatenation of chunks.
LEMMA ChunkConcat ==
  /\ \A s, t, u \in Seq(Chunk) : (s \o t) \o u = s \o (t \o u)
  /\ \A a, b \in Chunk : <<a>> \o <<b>> = <<a, b>>
<1>1. ASSUME NEW s \in Seq(Chunk), NEW t \in Seq(Chunk), NEW u \in Seq(Chunk)
      PROVE  (s \o t) \o u = s \o (t \o u)
  <2>1. /\ s \o t \in Seq(Chunk) /\ t \o u \in Seq(Chunk)
        /\ Len(s \o t) = Len(s) + Len(t) /\ Len(t \o u) = Len(t) + Len(u)
        /\ Len(s) \in Nat /\ Len(t) \in Nat /\ Len(u) \in Nat
    BY ConcatProperties, LenProperties
  <2>2. /\ (s \o t) \o u \in Seq(Chunk) /\ s \o (t \o u) \in Seq(Chunk)
        /\ Len((s \o t) \o u) = Len(s) + Len(t) + Len(u)
        /\ Len(s \o (t \o u)) = Len(s) + Len(t) + Len(u)
    BY <2>1, ConcatProperties
  <2>3. ASSUME NEW i \in 1..Len(s) + Len(t) + Len(u)
        PROVE  ((s \o t) \o u)[i] = (s \o (t \o u))[i]
    <3>1. CASE i <= Len(s)
      BY <2>1, <3>1, ConcatProperties
    <3>2. CASE i > Len(s) /\ i <= Len(s) + Len(t)
      BY <2>1, <3>2, ConcatProperties
    <3>3. CASE i > Len(s) + Len(t)
      BY <2>1, <3>3, ConcatProperties
    <3> QED
      BY <2>1, <3>1, <3>2, <3>3
  <2> QED
    BY <2>2, <2>3, SeqEqual
<1>2. ASSUME NEW a \in Chunk, NEW b \in Chunk
      PROVE  <<a>> \o <<b>> = <<a, b>>
  <2>1. /\ <<a>> \in Seq(Chunk) /\ <<b>> \in Seq(Chunk) /\ <<a, b>> \in Seq(Chunk)
        /\ Len(<<a>>) = 1 /\ Len(<<b>>) = 1 /\ Len(<<a, b>>) = 2
    OBVIOUS
  <2>2. /\ <<a>> \o <<b>> \in Seq(Chunk)
        /\ Len(<<a>> \o <<b>>) = 2
        /\ (<<a>> \o <<b>>)[1] = a /\ (<<a>> \o <<b>>)[2] = b
    BY <2>1, ConcatProperties
  <2>3. \A i \in 1..Len(<<a>> \o <<b>>) : (<<a>> \o <<b>>)[i] = <<a, b>>[i]
    BY <2>1, <2>2
  <2> DEFINE l == <<a>> \o <<b>>
             r == <<a, b>>
  <2>4. l \in Seq(Chunk) /\ r \in Seq(Chunk) /\ Len(l) = Len(r)
        /\ \A i \in 1..Len(l) : l[i] = r[i]
    BY <2>1, <2>2, <2>3
  <2> HIDE DEF l, r
  <2>5. l = r
    BY <2>4, SeqEqual
  <2> QED
    BY <2>5 DEF l, r
<1> QED
  BY <1>1, <1>2

\* Every action keeps OrderInv: without key-updated notices, what is on the wire, in
\* flight and queued is, in this order, what was issued.
LEMMA OrderPreserved ==
  ASSUME TypeOK, TypeOK', FlightInv, FramingInv, OrderInv, [Next]_vars
  PROVE  OrderInv'
<1> SUFFICES ASSUME NoValues'
             PROVE  InOrder' /\ (open' => script' = wire' \o (Unsent' \o pending'))
  BY DEF OrderInv
<1>0. wire \in Seq(Chunk) /\ script \in Seq(Chunk) /\ pending \in Seq(Chunk)
  BY DEF TypeOK
<1>1. ASSUME NEW kind \in Kinds, Issue(kind)
      PROVE  InOrder' /\ (open' => script' = wire' \o (Unsent' \o pending'))
  <2> DEFINE head == HeadOf(count + 1, kind)
             new  == Issued(count + 1, kind)
  <2>1. /\ head \in Chunk /\ BodyOf(head) \in Chunk /\ new \in Seq(Chunk)
        /\ new = IF kind = "pong" THEN <<head>> ELSE <<head, BodyOf(head)>>
    BY <1>1, IssueEffect, BodyIsChunk
  <2>2. script' = script \o new /\ wire' = wire /\ result' = result /\ open' = open
    BY <1>1 DEF Issue
  <2>3. /\ Len(new) >= 1 /\ new[1] = head
    BY <2>1
  <2>4. NoValues /\ kind # "value"
    <3>1. NoValues /\ new[1].kind # "value"
      BY <1>0, <2>1, <2>2, <2>3, NoValuesEarlier DEF NoValues
    <3> QED
      BY <2>3, <3>1 DEF HeadOf
  <2>5. InOrder'
    <3>1. InOrder
      BY <2>4 DEF OrderInv
    <3> QED
      BY <1>0, <2>1, <2>2, <3>1, ConcatProperties, LenProperties DEF InOrder
  <2>6. ASSUME open
        PROVE  script' = wire' \o (Unsent' \o pending')
    <3>1. script = wire \o (Unsent \o pending)
      BY <2>4, <2>6 DEF OrderInv
    <3>2. CASE write_in_progress
      <4>1. inflight' = inflight /\ Unsent' = Unsent
        BY <1>1, <2>2, <3>2, IssueEffect DEF Unsent
      <4>2. pending' = pending \o new
        <5>1. Append(pending, head) = pending \o <<head>>
          BY <1>0, <2>1, AppendIsConcat
        <5>2. Append(Append(pending, head), BodyOf(head)) = pending \o <<head, BodyOf(head)>>
          BY <1>0, <2>1
        <5>3. kind = "pong" \/ kind = "pair"
          BY <2>4, WriteAssumption
        <5>4. pending' = IF kind = "pair" THEN Append(Append(pending, head), BodyOf(head))
                         ELSE Append(pending, head)
          BY <1>1, <3>2, IssueEffect
        <5> QED
          BY <2>1, <5>1, <5>2, <5>3, <5>4
      <4>3. Unsent \in Seq(Chunk)
        BY DEF Unsent, TypeOK
      <4>4. (wire \o (Unsent \o pending)) \o new = wire \o (Unsent \o (pending \o new))
        <5>1. new \in Seq(Chunk)
          BY <2>1
        <5> HIDE DEF new
        <5>2. Unsent \o pending \in Seq(Chunk)
          BY <1>0, <4>3, ConcatProperties
        <5>3. (wire \o (Unsent \o pending)) \o new = wire \o ((Unsent \o pending) \o new)
          BY <1>0, <5>1, <5>2, ChunkConcat, Zenon
        <5>4. (Unsent \o pending) \o new = Unsent \o (pending \o new)
          BY <1>0, <4>3, <5>1, ChunkConcat, ZenonT(60)
        <5> QED
          BY <5>3, <5>4
      <4> QED
        BY <2>2, <3>1, <4>1, <4>2, <4>4
    <3>3. CASE ~write_in_progress
      <4>1. inflight = NoChunk /\ result = "none" /\ pending = <<>> /\ Unsent = <<>>
        BY <2>6, <3>3 DEF FlightInv, TypeOK, Unsent
      <4>2. script = wire
        BY <1>0, <3>1, <4>1
      <4>3. inflight' = head /\ Unsent' = <<head>>
        <5>1. inflight' = head
          BY <1>1, <3>3, IssueEffect
        <5> QED
          BY <2>1, <2>2, <4>1, <5>1, ChunkIsNotNoChunk DEF Unsent
      <4>4. Unsent' \o pending' = new
        <5>1. pending' = IF kind = "pair" THEN <<BodyOf(head)>> ELSE <<>>
          <6>1. pending' = IF kind = "pair" THEN Append(pending, BodyOf(head)) ELSE pending
            BY <1>1, <3>3, IssueEffect
          <6> QED
            BY <2>1, <4>1, <6>1
        <5>2. kind = "pong" \/ kind = "pair"
          BY <2>4, WriteAssumption
        <5>3. CASE kind = "pong"
          BY <2>1, <4>3, <5>1, <5>3
        <5>4. CASE kind = "pair"
          <6>1. Unsent' \o pending' = <<head>> \o <<BodyOf(head)>> /\ new = <<head, BodyOf(head)>>
            BY <2>1, <4>3, <5>1, <5>4
          <6> HIDE DEF head
          <6>2. <<head>> \o <<BodyOf(head)>> = <<head, BodyOf(head)>>
            BY <2>1, ChunkConcat
          <6> QED
            BY <6>1, <6>2
        <5> QED
          BY <5>2, <5>3, <5>4
      <4> QED
        BY <2>2, <4>2, <4>4
    <3> QED
      BY <3>2, <3>3
  <2> QED
    BY <2>2, <2>5, <2>6
<1>2. ASSUME NEW whole \in BOOLEAN, Transmit(whole)
      PROVE  InOrder' /\ (open' => script' = wire' \o (Unsent' \o pending'))
  <2>1. /\ open /\ inflight \in Chunk /\ result = "none" /\ result' = "ok"
        /\ wire' = Append(wire, inflight) /\ script' = script
        /\ pending' = pending
    BY <1>2 DEF Transmit, TypeOK
  <2>2. Unsent = <<inflight>> /\ Unsent' = <<>>
    BY <1>2 DEF Transmit, Unsent
  <2>3. script = wire \o (<<inflight>> \o pending)
    BY <2>1, <2>2 DEF OrderInv, NoValues
  <2>4. script' = wire' \o (Unsent' \o pending')
    <3>1. <<inflight>> \in Seq(Chunk)
      BY <2>1
    <3>2. wire' = wire \o <<inflight>>
      BY <1>0, <2>1, AppendIsConcat
    <3>3. script = wire' \o pending
      BY <1>0, <2>3, <3>1, <3>2, ConcatAssociative
    <3>4. <<>> \o pending = pending
      BY <1>0, ConcatEmptySeq
    <3> QED
      BY <2>1, <2>2, <3>3, <3>4
  <2>5. InOrder'
    <3>1. wire' \in Seq(Chunk) /\ pending \in Seq(Chunk) /\ script' = wire' \o pending
      BY <1>0, <2>1, <2>2, <2>4, ConcatEmptySeq DEF TypeOK
    <3> QED
      BY <3>1, ConcatProperties, LenProperties DEF InOrder
  <2> QED
    BY <2>4, <2>5
<1>3. CASE Fail
  <2>1. Unsent' = Unsent
    BY <1>3 DEF Fail, Unsent
  <2> QED
    BY <1>3, <2>1 DEF Fail, OrderInv, NoValues, InOrder
<1>4. CASE HandleWritten
  <2>1. inflight \in Chunk
    BY <1>4 DEF HandleWritten, FlightInv, TypeOK
  <2>2. /\ result = "ok" /\ result' = "none" /\ open' = open
        /\ wire' = wire /\ script' = script
        /\ inflight' = AfterWrite.flight /\ pending' = AfterWrite.queue
        /\ wire # <<>> /\ LastSent = inflight
    BY <1>4 DEF HandleWritten, Becomes, FramingInv
  <2>3. InOrder /\ NoValues
    BY <2>2 DEF OrderInv, NoValues
  <2>4. InOrder'
    BY <2>2, <2>3 DEF InOrder
  <2>5. ~WritesBody(inflight)
    <3>1. Len(wire) \in 1..Len(script) /\ wire[Len(wire)] = script[Len(wire)]
      BY <1>0, <2>2, <2>3, EmptySeq, LenProperties DEF InOrder
    <3> QED
      BY <2>2, <2>3, <3>1 DEF NoValues, LastSent, WritesBody
  <2>6. ASSUME open
        PROVE  script = wire \o (Unsent' \o pending')
    <3>1. script = wire \o pending
      <4>1. Unsent = <<>>
        BY <2>2 DEF Unsent
      <4>2. script = wire \o (Unsent \o pending)
        BY <2>3, <2>6 DEF OrderInv
      <4> QED
        BY <1>0, <4>1, <4>2, ConcatEmptySeq
    <3>2. CASE pending = <<>>
      <4>1. inflight' = NoChunk /\ pending' = <<>>
        BY <2>1, <2>2, <2>5, <3>2, AfterWriteEffect
      <4> QED
        BY <3>1, <3>2, <4>1 DEF Unsent
    <3>3. CASE pending # <<>>
      <4>1. inflight' = Head(pending) /\ pending' = Tail(pending)
        BY <2>1, <2>2, <2>5, <3>3, AfterWriteEffect
      <4>2. Head(pending) \in Chunk
        BY <1>0, <3>3, HeadTailProperties
      <4>3. Unsent' = <<Head(pending)>>
        BY <2>2, <4>1, <4>2, ChunkIsNotNoChunk DEF Unsent
      <4>4. <<Head(pending)>> \o Tail(pending) = pending
        BY <1>0, <3>3
      <4> QED
        BY <3>1, <4>1, <4>3, <4>4
    <3> QED
      BY <3>2, <3>3
  <2> QED
    BY <2>2, <2>4, <2>6
<1>5. CASE HandleFailed
  BY <1>5 DEF HandleFailed, OrderInv, NoValues, InOrder
<1>6. ASSUME NEW c \in waits, HandleTimeout(c)
      PROVE  InOrder' /\ (open' => script' = wire' \o (Unsent' \o pending'))
  BY <1>6 DEF HandleTimeout, OrderInv, NoValues, InOrder, Unsent
<1>7. CASE CloseByReader
  BY <1>7 DEF CloseByReader, OrderInv, NoValues, InOrder
<1>8. CASE UNCHANGED vars
  BY <1>8 DEF vars, OrderInv, NoValues, InOrder, Unsent
<1> QED
  BY <1>1, <1>2, <1>3, <1>4, <1>5, <1>6, <1>7, <1>8 DEF Next

\* While only pongs, errors and key-deleted notices are written, they are sent in
\* the order in which they were issued.
THEOREM OrderWithoutValues == Spec => []InOrderWithoutValues
<1>1. Init => FramingInv /\ OrderInv
  BY DEF Init, FramingInv, ValueFramed, NoChunk, IsValueBody, OrderInv, InOrder, Unsent
<1>2. TypeOK /\ TypeOK' /\ FlightInv /\ FramingInv /\ OrderInv /\ [Next]_vars
         => FramingInv' /\ OrderInv'
  BY FramingPreserved, OrderPreserved
<1>3. OrderInv => InOrderWithoutValues
  BY DEF OrderInv, InOrderWithoutValues
<1> QED
  BY <1>1, <1>2, <1>3, TypeAndFlight, PTL DEF Spec

------------------------------------------------------------------------------
(* Nothing is lost and nothing is sent twice.                               *)

Distinct(s) == \A i, j \in 1..Len(s) : i # j => s[i] # s[j]

\* What a queue holds after a chunk is put at its end.
LEMMA ElementsAppend ==
  ASSUME NEW s \in Seq(Chunk), NEW c \in Chunk
  PROVE  /\ Elements(Append(s, c)) = Elements(s) \union {c}
         /\ Distinct(s) /\ c \notin Elements(s) => Distinct(Append(s, c))
<1> DEFINE z == Append(s, c)
<1>1. /\ Len(s) \in Nat /\ Len(z) = Len(s) + 1
      /\ \A j \in 1..Len(s) : z[j] = s[j]
      /\ z[Len(s) + 1] = c
  BY AppendProperties, LenProperties
<1> HIDE DEF z
<1>2. Elements(z) \subseteq Elements(s) \union {c}
  BY <1>1 DEF Elements
<1>3. Elements(s) \union {c} \subseteq Elements(z)
  <2>1. c \in Elements(z)
    BY <1>1 DEF Elements
  <2>2. \A i \in 1..Len(s) : i \in 1..Len(z) /\ s[i] = z[i]
    BY <1>1
  <2>3. Elements(s) \subseteq Elements(z)
    BY <2>2 DEF Elements
  <2> QED
    BY <2>1, <2>3
<1>4. ASSUME Distinct(s), c \notin Elements(s), NEW i \in 1..Len(z), NEW j \in 1..Len(z), i # j
      PROVE  z[i] # z[j]
  <2>1. \A k \in 1..Len(s) : s[k] # c
    BY <1>4 DEF Elements
  <2>2. CASE i \in 1..Len(s) /\ j \in 1..Len(s)
    BY <1>1, <1>4, <2>2 DEF Distinct
  <2>3. CASE i = Len(s) + 1 /\ j \in 1..Len(s)
    BY <1>1, <2>1, <2>3
  <2>4. CASE j = Len(s) + 1 /\ i \in 1..Len(s)
    BY <1>1, <2>1, <2>4
  <2> QED
    BY <1>1, <1>4, <2>2, <2>3, <2>4
<1> QED
  BY <1>2, <1>3, <1>4 DEF Distinct, z

\* What is left of a queue when its front is taken.
LEMMA ElementsTail ==
  ASSUME NEW s \in Seq(Chunk), s # <<>>
  PROVE  /\ Head(s) \in Chunk /\ Tail(s) \in Seq(Chunk)
         /\ Elements(s) = Elements(Tail(s)) \union {Head(s)}
         /\ Distinct(s) => Distinct(Tail(s)) /\ Head(s) \notin Elements(Tail(s))
<1> DEFINE t == Tail(s)
<1>1. /\ Head(s) \in Chunk /\ t \in Seq(Chunk) /\ Head(s) = s[1]
      /\ Len(s) \in Nat \ {0} /\ Len(t) = Len(s) - 1
      /\ \A i \in 1..Len(t) : t[i] = s[i + 1]
  BY HeadTailProperties, EmptySeq
<1> HIDE DEF t
<1>2. \A i \in 1..Len(t) : i + 1 \in 1..Len(s) /\ i + 1 # 1
  BY <1>1
<1>3. Elements(t) \union {Head(s)} \subseteq Elements(s)
  <2>1. 1 \in 1..Len(s)
    BY <1>1
  <2>2. Head(s) \in Elements(s)
    BY <1>1, <2>1 DEF Elements
  <2>3. Elements(t) \subseteq Elements(s)
    BY <1>1, <1>2 DEF Elements
  <2> QED
    BY <2>2, <2>3
<1>4. Elements(s) \subseteq Elements(t) \union {Head(s)}
  <2> SUFFICES ASSUME NEW i \in 1..Len(s), i # 1 PROVE s[i] \in Elements(t)
    BY <1>1 DEF Elements
  <2>1. i - 1 \in 1..Len(t) /\ (i - 1) + 1 = i
    BY <1>1
  <2>2. t[i - 1] = s[i]
    BY <1>1, <2>1
  <2> QED
    BY <2>1, <2>2 DEF Elements
<1>5. ASSUME Distinct(s) PROVE Distinct(t) /\ Head(s) \notin Elements(t)
  <2>1. ASSUME NEW i \in 1..Len(t), NEW j \in 1..Len(t), i # j PROVE t[i] # t[j]
    <3>1. i + 1 # j + 1
      BY <2>1
    <3> QED
      BY <1>1, <1>2, <1>5, <3>1 DEF Distinct
  <2>2. ASSUME NEW i \in 1..Len(t) PROVE t[i] # Head(s)
    <3>1. 1 \in 1..Len(s) /\ i + 1 \in 1..Len(s) /\ i + 1 # 1
      BY <1>1, <1>2
    <3>2. s[i + 1] # s[1]
      BY <1>5, <3>1 DEF Distinct
    <3> QED
      BY <1>1, <3>2
  <2> QED
    BY <2>1, <2>2 DEF Distinct, Elements
<1> QED
  BY <1>1, <1>3, <1>4, <1>5 DEF t

\* Two queues without a chunk in common, one behind the other.
LEMMA ElementsConcat ==
  ASSUME NEW s \in Seq(Chunk), NEW t \in Seq(Chunk)
  PROVE  /\ s \o t \in Seq(Chunk)
         /\ Elements(s \o t) = Elements(s) \union Elements(t)
         /\ Distinct(s) /\ Distinct(t) /\ Elements(s) \intersect Elements(t) = {} =>
               Distinct(s \o t)
<1> DEFINE z == s \o t
           m == Len(s)
           n == Len(t)
<1>1. /\ z \in Seq(Chunk) /\ m \in Nat /\ n \in Nat /\ Len(z) = m + n
      /\ \A i \in 1..(m + n) : z[i] = IF i <= m THEN s[i] ELSE t[i - m]
  BY ConcatProperties, LenProperties
<1> HIDE DEF z
<1>2. \A i \in 1..m : i \in 1..Len(z) /\ z[i] = s[i]
  BY <1>1
<1>3. \A i \in 1..n : m + i \in 1..Len(z) /\ z[m + i] = t[i]
  <2> HIDE DEF m, n
  <2> SUFFICES ASSUME NEW i \in 1..n PROVE m + i \in 1..Len(z) /\ z[m + i] = t[i]
    OBVIOUS
  <2>1. m + i \in 1..(m + n) /\ ~(m + i <= m) /\ (m + i) - m = i
    BY <1>1
  <2> QED
    BY <1>1, <2>1
<1>4. \A i \in 1..Len(z) : \/ i \in 1..m /\ z[i] = s[i]
                           \/ i - m \in 1..n /\ z[i] = t[i - m]
  <2> HIDE DEF m, n
  <2> SUFFICES ASSUME NEW i \in 1..Len(z)
               PROVE  \/ i \in 1..m /\ z[i] = s[i]
                      \/ i - m \in 1..n /\ z[i] = t[i - m]
    OBVIOUS
  <2>1. CASE i <= m
    BY <1>1, <2>1
  <2>2. CASE i > m
    <3>1. z[i] = t[i - m]
      BY <1>1, <2>2
    <3>2. i - m \in 1..n
      BY <1>1, <2>2
    <3> QED
      BY <3>1, <3>2
  <2> QED
    BY <1>1, <2>1, <2>2
<1> HIDE DEF m, n
<1>5. Elements(z) \subseteq Elements(s) \union Elements(t)
  BY <1>4 DEF Elements, m, n
<1>6. Elements(s) \union Elements(t) \subseteq Elements(z)
  <2>1. Elements(s) \subseteq Elements(z)
    BY <1>2 DEF Elements, m
  <2>2. Elements(t) \subseteq Elements(z)
    BY <1>3 DEF Elements, n
  <2> QED
    BY <2>1, <2>2
<1>7. ASSUME Distinct(s), Distinct(t), Elements(s) \intersect Elements(t) = {},
             NEW i \in 1..Len(z), NEW j \in 1..Len(z), i # j
      PROVE  z[i] # z[j]
  <2>1. \A k \in 1..m, l \in 1..n : s[k] # t[l]
    BY <1>7 DEF Elements, m, n
  <2>2. CASE i \in 1..m /\ z[i] = s[i] /\ j \in 1..m /\ z[j] = s[j]
    BY <1>7, <2>2 DEF Distinct, m
  <2>3. CASE i \in 1..m /\ z[i] = s[i] /\ j - m \in 1..n /\ z[j] = t[j - m]
    BY <2>1, <2>3
  <2>4. CASE i - m \in 1..n /\ z[i] = t[i - m] /\ j \in 1..m /\ z[j] = s[j]
    BY <2>1, <2>4
  <2>5. CASE i - m \in 1..n /\ z[i] = t[i - m] /\ j - m \in 1..n /\ z[j] = t[j - m]
    <3>1. i - m # j - m
      BY <1>1, <1>7
    <3> QED
      BY <1>7, <2>5, <3>1 DEF Distinct, n
  <2> QED
    BY <1>4, <2>2, <2>3, <2>4, <2>5
<1> QED
  BY <1>1, <1>5, <1>6, <1>7 DEF Distinct, z

\* The chunk in flight that is not on the wire, as a set.
UnsentSet == IF inflight # NoChunk /\ result # "ok" THEN {inflight} ELSE {}

\* EachChunkPlaced on sets, with the bound that makes an issued chunk new.
PlaceInv ==
    /\ \A c \in Elements(script) : c.msg <= count
    /\ open =>
          /\ Distinct(wire) /\ Distinct(pending)
          /\ Elements(wire) \intersect Elements(pending) = {}
          /\ UnsentSet \intersect Elements(wire) = {}
          /\ UnsentSet \intersect Elements(pending) = {}
          /\ Held \intersect (Elements(wire) \union UnsentSet \union Elements(pending)) = {}
          /\ Held \union Elements(wire) \union UnsentSet \union Elements(pending)
                = Elements(script)

\* PlaceInv, about sets of chunks, gives the property, about the sequence of them.
LEMMA PlaceImplies ==
  ASSUME TypeOK, PlaceInv
  PROVE  EachChunkPlaced
<1> SUFFICES ASSUME open
             PROVE  LET placed == wire \o Unsent \o pending
                    IN  /\ Distinct(placed)
                        /\ Held \intersect Elements(placed) = {}
                        /\ Held \union Elements(placed) = Elements(script)
  BY DEF EachChunkPlaced, Distinct
<1>1. /\ wire \in Seq(Chunk) /\ pending \in Seq(Chunk)
      /\ Distinct(wire) /\ Distinct(pending)
      /\ Elements(wire) \intersect Elements(pending) = {}
      /\ UnsentSet \intersect Elements(wire) = {}
      /\ UnsentSet \intersect Elements(pending) = {}
      /\ Held \intersect (Elements(wire) \union UnsentSet \union Elements(pending)) = {}
      /\ Held \union Elements(wire) \union UnsentSet \union Elements(pending) = Elements(script)
  BY DEF TypeOK, PlaceInv
<1>2. Unsent \in Seq(Chunk) /\ Distinct(Unsent) /\ Elements(Unsent) = UnsentSet
  <2>1. CASE inflight # NoChunk /\ result # "ok"
    <3>1. Unsent = <<inflight>> /\ UnsentSet = {inflight} /\ inflight \in Chunk
      BY <2>1 DEF Unsent, UnsentSet, TypeOK
    <3>2. Len(<<inflight>>) = 1 /\ <<inflight>>[1] = inflight /\ <<inflight>> \in Seq(Chunk)
      BY <3>1
    <3>3. Elements(Unsent) = {inflight} /\ Distinct(Unsent)
      BY <3>1, <3>2 DEF Elements, Distinct
    <3> QED
      BY <3>1, <3>2, <3>3
  <2>2. CASE ~(inflight # NoChunk /\ result # "ok")
    <3>1. Unsent = <<>> /\ UnsentSet = {}
      BY <2>2 DEF Unsent, UnsentSet
    <3>2. Len(<<>>) = 0 /\ <<>> \in Seq(Chunk)
      BY EmptySeq
    <3> QED
      BY <3>1, <3>2 DEF Elements, Distinct
  <2> QED
    BY <2>1, <2>2
<1> DEFINE sent == wire \o Unsent
<1>3. /\ sent \in Seq(Chunk) /\ Elements(sent) = Elements(wire) \union UnsentSet
      /\ Distinct(sent)
  BY <1>1, <1>2, ElementsConcat
<1> HIDE DEF sent
<1>4. Elements(sent) \intersect Elements(pending) = {}
  BY <1>1, <1>3
<1>5. /\ Elements(sent \o pending) = Elements(wire) \union UnsentSet \union Elements(pending)
      /\ Distinct(sent \o pending)
  BY <1>1, <1>3, <1>4, ElementsConcat
<1> QED
  BY <1>1, <1>5 DEF sent

\* At first no chunk is anywhere.
LEMMA PlaceInit == Init => PlaceInv
<1> SUFFICES ASSUME Init PROVE PlaceInv
  OBVIOUS
<1>1. /\ Elements(wire) = {} /\ Elements(script) = {} /\ Elements(pending) = {}
      /\ Distinct(wire) /\ Distinct(pending)
  BY DEF Init, Elements, Distinct
<1>2. ~WritesBody(NoChunk)
  BY DEF WritesBody, NoChunk
<1>3. Held = {}
  BY <1>1, <1>2 DEF Init, Held
<1>4. UnsentSet = {}
  BY DEF Init, UnsentSet
<1> QED
  BY <1>1, <1>3, <1>4 DEF PlaceInv

\* The bodies that the handlers of the chunks in S hold.
HeldBy(S) == {BodyOf(c) : c \in {c \in S : WritesBody(c)}}

\* The bodies that one more operation holds back.
LEMMA HeldByUnion ==
  ASSUME NEW S, NEW c
  PROVE  /\ WritesBody(c) => HeldBy(S \union {c}) = HeldBy(S) \union {BodyOf(c)}
         /\ ~WritesBody(c) => HeldBy(S \union {c}) = HeldBy(S)
  BY DEF HeldBy

\* NoChunk holds nothing.
LEMMA NoChunkHolds == ~WritesBody(NoChunk)
  BY DEF WritesBody, NoChunk

\* Issue puts the new chunks, which are nowhere yet, in flight, in the queue or into
\* the handler of the preamble.
LEMMA PlaceIssue ==
  ASSUME TypeOK, FlightInv, PlaceInv, NEW kind \in Kinds, Issue(kind)
  PROVE  PlaceInv'
<1> DEFINE head == HeadOf(count + 1, kind)
           body == BodyOf(head)
           new  == IF kind = "pong" THEN {head} ELSE {head, body}
           now  == IF kind = "pair" THEN {head, body} ELSE {head}
<1>1. /\ head \in Chunk /\ body \in Chunk /\ head # NoChunk
      /\ head.msg = count + 1 /\ body.msg = count + 1 /\ head # body
      /\ (WritesBody(head) <=> kind = "value") /\ ~WritesBody(body)
  <2>1. head \in Chunk
    BY IssueEffect
  <2>2. body \in Chunk /\ head # NoChunk
    BY <2>1, BodyIsChunk, ChunkIsNotNoChunk
  <2>3. head.msg = count + 1 /\ head.kind = kind /\ head.part = "head"
    BY DEF HeadOf
  <2> HIDE DEF head
  <2>4. body.msg = head.msg /\ body.part = "body"
    BY <2>1 DEF BodyOf, Chunk
  <2> QED
    BY <2>1, <2>2, <2>3, <2>4 DEF WritesBody
<1>2. /\ inflight' = IF write_in_progress THEN inflight ELSE head
      /\ pending' = IF write_in_progress
                    THEN IF kind = "pair" THEN Append(Append(pending, head), body)
                                          ELSE Append(pending, head)
                    ELSE IF kind = "pair" THEN Append(pending, body) ELSE pending
      /\ Issued(count + 1, kind) = IF kind = "pong" THEN <<head>> ELSE <<head, body>>
  BY IssueEffect
<1>3. /\ script' = script \o Issued(count + 1, kind) /\ count' = count + 1
      /\ wire' = wire /\ result' = result /\ open' = open
  BY DEF Issue
<1>4. /\ wire \in Seq(Chunk) /\ pending \in Seq(Chunk) /\ script \in Seq(Chunk)
      /\ count \in Nat
  BY WriteAssumption DEF TypeOK
<1> HIDE DEF head, body
<1>5. Elements(script') = Elements(script) \union new
  <2>1. <<head>> \in Seq(Chunk) /\ <<head, body>> \in Seq(Chunk)
    BY <1>1
  <2>2. Elements(<<head>>) = {head}
    BY DEF Elements
  <2>3. Elements(<<head, body>>) = {head, body}
    BY DEF Elements
  <2>4. /\ Elements(script \o <<head>>) = Elements(script) \union {head}
        /\ Elements(script \o <<head, body>>) = Elements(script) \union {head, body}
    BY <1>4, <2>1, <2>2, <2>3, ElementsConcat, ZenonT(60)
  <2> QED
    BY <1>2, <1>3, <2>4
<1>6. head \notin Elements(script) /\ body \notin Elements(script)
  <2>1. \A c \in Elements(script) : c.msg <= count
    BY DEF PlaceInv
  <2>2. ~(count + 1 <= count)
    BY <1>4
  <2> QED
    BY <1>1, <2>1, <2>2
<1>7. \A c \in Elements(script') : c.msg <= count'
  <2>1. \A c \in Elements(script) : c.msg \in Int /\ c.msg <= count
    <3>1. \A c \in Elements(script) : c \in Chunk
      BY <1>4, ElementOfSeq DEF Elements
    <3> QED
      BY <3>1, WriteAssumption DEF PlaceInv, Chunk
  <2>2. \A c \in Elements(script) : c.msg <= count + 1
    BY <1>4, <2>1
  <2>3. \A c \in new : c.msg <= count + 1
    BY <1>1, <1>4
  <2> QED
    BY <1>3, <1>5, <2>2, <2>3
<1>8. ASSUME open
      PROVE  /\ Distinct(wire') /\ Distinct(pending')
             /\ Elements(wire') \intersect Elements(pending') = {}
             /\ UnsentSet' \intersect Elements(wire') = {}
             /\ UnsentSet' \intersect Elements(pending') = {}
             /\ Held' \intersect (Elements(wire') \union UnsentSet' \union Elements(pending')) = {}
             /\ Held' \union Elements(wire') \union UnsentSet' \union Elements(pending')
                   = Elements(script')
  <2> DEFINE W == Elements(wire)
             P == Elements(pending)
             U == UnsentSet
  <2>1. /\ Distinct(wire) /\ Distinct(pending)
        /\ W \intersect P = {} /\ U \intersect W = {} /\ U \intersect P = {}
        /\ Held \intersect (W \union U \union P) = {}
        /\ Held \union W \union U \union P = Elements(script)
    BY <1>8 DEF PlaceInv
  <2>2. Elements(wire') = W /\ Distinct(wire')
    BY <1>3, <2>1
  <2>3. head \notin P /\ body \notin P
    BY <1>6, <2>1
  <2>4. /\ Append(pending, head) \in Seq(Chunk)
        /\ Elements(Append(pending, head)) = P \union {head}
        /\ Distinct(Append(pending, head))
    BY <1>1, <1>4, <2>1, <2>3, ElementsAppend, AppendProperties
  <2>5. /\ Elements(Append(pending, body)) = P \union {body}
        /\ Distinct(Append(pending, body))
    BY <1>1, <1>4, <2>1, <2>3, ElementsAppend
  <2>6. /\ Elements(Append(Append(pending, head), body)) = P \union {head, body}
        /\ Distinct(Append(Append(pending, head), body))
    <3>1. body \notin P \union {head}
      BY <1>1, <2>3
    <3>2. /\ Elements(Append(Append(pending, head), body)) = (P \union {head}) \union {body}
          /\ Distinct(Append(Append(pending, head), body))
      BY <1>1, <2>4, <3>1, ElementsAppend
    <3> QED
      BY <3>2
  <2>7. /\ Distinct(pending')
        /\ UnsentSet' \union Elements(pending') = U \union P \union now
        /\ UnsentSet' \intersect Elements(pending') = {}
        /\ \/ Elements(pending') \union {inflight'} = P \union {inflight} \union now
           \/ inflight = NoChunk /\ Elements(pending') \union {inflight'} = P \union now
    <3>1. CASE write_in_progress
      <4>1. inflight' = inflight /\ UnsentSet' = U
        BY <1>2, <1>3, <3>1 DEF UnsentSet
      <4>2. Distinct(pending') /\ Elements(pending') = P \union now
        <5>1. CASE kind = "pair"
          BY <1>2, <2>6, <3>1, <5>1
        <5>2. CASE kind # "pair"
          BY <1>2, <2>4, <3>1, <5>2
        <5> QED
          BY <5>1, <5>2
      <4>3. U \intersect now = {}
        BY <1>6, <2>1
      <4> HIDE DEF U, P, now
      <4>4. UnsentSet' \union Elements(pending') = U \union P \union now
        BY <4>1, <4>2
      <4>5. UnsentSet' \intersect Elements(pending') = {}
        BY <2>1, <4>1, <4>2, <4>3
      <4>6. Elements(pending') \union {inflight'} = P \union {inflight} \union now
        BY <4>1, <4>2
      <4> QED
        BY <4>2, <4>4, <4>5, <4>6
    <3>2. CASE ~write_in_progress
      <4>1. inflight = NoChunk /\ result = "none"
        BY <3>2 DEF FlightInv, TypeOK
      <4>2. U = {} /\ inflight' = head /\ UnsentSet' = {head}
        BY <1>1, <1>2, <1>3, <3>2, <4>1 DEF UnsentSet
      <4>3. CASE kind = "pair"
        <5>1. Distinct(pending') /\ Elements(pending') = P \union {body} /\ now = {head, body}
          BY <1>2, <2>5, <3>2, <4>3
        <5> HIDE DEF U, P, now
        <5> QED
          BY <1>1, <2>3, <4>1, <4>2, <5>1
      <4>4. CASE kind # "pair"
        <5>1. Distinct(pending') /\ Elements(pending') = P /\ now = {head}
          BY <1>2, <2>1, <3>2, <4>4
        <5> HIDE DEF U, P, now
        <5> QED
          BY <1>1, <2>3, <4>1, <4>2, <5>1
      <4> QED
        BY <4>3, <4>4
    <3> QED
      BY <3>1, <3>2
  <2>8. Held' = Held \union (new \ now)
    <3>1. Held = HeldBy(P \union {inflight}) /\ Held' = HeldBy(Elements(pending') \union {inflight'})
      BY DEF Held, HeldBy
    <3>2. inflight = NoChunk => HeldBy(P \union {inflight}) = HeldBy(P)
      BY HeldByUnion, NoChunkHolds
    <3>3. \A S : HeldBy(S \union now) = HeldBy(S) \union (IF kind = "value" THEN {body} ELSE {})
      <4>1. \A S : S \union now = IF kind = "pair" THEN (S \union {head}) \union {body}
                                  ELSE S \union {head}
        OBVIOUS
      <4>2. \A S : HeldBy(S \union {head})
                     = HeldBy(S) \union (IF kind = "value" THEN {body} ELSE {})
        <5>1. CASE kind = "value"
          BY <1>1, <5>1, HeldByUnion DEF body
        <5>2. CASE kind # "value"
          BY <1>1, <5>2, HeldByUnion
        <5> QED
          BY <5>1, <5>2
      <4>3. \A S : HeldBy((S \union {head}) \union {body}) = HeldBy(S \union {head})
        <5>1. \A S : HeldBy(S \union {body}) = HeldBy(S)
          BY <1>1, HeldByUnion
        <5> QED
          BY <5>1
      <4> QED
        BY <4>1, <4>2, <4>3
    <3>4. Held' = Held \union (IF kind = "value" THEN {body} ELSE {})
      BY <2>7, <3>1, <3>2, <3>3
    <3>5. new \ now = IF kind = "value" THEN {body} ELSE {}
      BY <1>1, WriteAssumption
    <3> QED
      BY <3>4, <3>5
  <2>9. /\ now \subseteq new /\ new \intersect Elements(script) = {}
    BY <1>6
  <2> HIDE DEF W, P, U, new, now
  <2>10. Held' \union Elements(wire') \union UnsentSet' \union Elements(pending') = Elements(script')
    BY <1>5, <2>1, <2>2, <2>7, <2>8, <2>9
  <2>11. Held' \intersect (Elements(wire') \union UnsentSet' \union Elements(pending')) = {}
    BY <2>1, <2>2, <2>7, <2>8, <2>9
  <2>12. /\ Elements(wire') \intersect Elements(pending') = {}
         /\ UnsentSet' \intersect Elements(wire') = {}
    BY <2>1, <2>2, <2>7, <2>9
  <2> QED
    BY <2>2, <2>7, <2>10, <2>11, <2>12
<1> QED
  BY <1>3, <1>7, <1>8 DEF PlaceInv

\* Bodies tell the preambles of values apart.
LEMMA BodyOfInjective ==
  ASSUME NEW c \in Chunk, NEW d \in Chunk, WritesBody(c), WritesBody(d), BodyOf(c) = BodyOf(d)
  PROVE  c = d
<1>1. /\ BodyOf(c).msg = c.msg /\ BodyOf(c).kind = c.kind
      /\ BodyOf(d).msg = d.msg /\ BodyOf(d).kind = d.kind
  BY DEF BodyOf, Chunk
<1>2. c.msg = d.msg /\ c.kind = d.kind
  BY <1>1
<1>3. c.part = "head" /\ d.part = "head"
  BY DEF WritesBody
<1>4. /\ c = [msg |-> c.msg, kind |-> c.kind, part |-> c.part]
      /\ d = [msg |-> d.msg, kind |-> d.kind, part |-> d.part]
  BY DEF Chunk
<1> QED
  BY <1>2, <1>3, <1>4

\* handle_write_operation moves the body from the handler into flight, or the front
\* of the queue.
LEMMA PlaceWritten ==
  ASSUME TypeOK, FlightInv, FramingInv, PlaceInv, HandleWritten
  PROVE  PlaceInv'
<1> DEFINE W == Elements(wire)
           P == Elements(pending)
<1>1. inflight \in Chunk /\ result = "ok"
  BY DEF HandleWritten, FlightInv, TypeOK
<1>2. /\ result' = "none" /\ UNCHANGED <<open, count, script, wire>>
      /\ inflight' = AfterWrite.flight /\ pending' = AfterWrite.queue
  BY DEF HandleWritten, Becomes
<1>3. \A c \in Elements(script') : c.msg <= count'
  BY <1>2 DEF PlaceInv, Elements
<1> SUFFICES ASSUME open
             PROVE  /\ Distinct(wire') /\ Distinct(pending')
                    /\ Elements(wire') \intersect Elements(pending') = {}
                    /\ UnsentSet' \intersect Elements(wire') = {}
                    /\ UnsentSet' \intersect Elements(pending') = {}
                    /\ Held' \intersect
                          (Elements(wire') \union UnsentSet' \union Elements(pending')) = {}
                    /\ Held' \union Elements(wire') \union UnsentSet' \union Elements(pending')
                          = Elements(script')
  BY <1>2, <1>3 DEF PlaceInv
<1>4. UnsentSet = {} /\ inflight \in W
  <2>1. wire # <<>> /\ LastSent = inflight
    BY <1>1 DEF FramingInv
  <2>2. Len(wire) \in 1..Len(wire)
    BY <2>1, EmptySeq, LenProperties DEF TypeOK
  <2> QED
    BY <1>1, <2>1, <2>2 DEF UnsentSet, LastSent, Elements
<1>5. /\ Distinct(wire) /\ Distinct(pending) /\ W \intersect P = {}
      /\ Held \intersect (W \union P) = {} /\ Held \union W \union P = Elements(script)
      /\ pending \in Seq(Chunk)
  BY <1>4 DEF PlaceInv, TypeOK
<1>6. Elements(wire') = W /\ Distinct(wire') /\ Elements(script') = Elements(script)
  BY <1>2, <1>5
<1>7. /\ Held = HeldBy(P \union {inflight})
      /\ Held' = HeldBy(Elements(pending') \union {inflight'})
  BY DEF Held, HeldBy
<1>8. inflight' # NoChunk => UnsentSet' = {inflight'}
  BY <1>2 DEF UnsentSet
<1> HIDE DEF W
<1>9. CASE WritesBody(inflight)
  <2> DEFINE b == BodyOf(inflight)
  <2>1. inflight' = b /\ b \in Chunk /\ b # NoChunk /\ ~WritesBody(b)
    BY <1>1, <1>2, <1>9, AfterWriteEffect, BodyIsChunk, ChunkIsNotNoChunk, BodyOfPreamble
  <2>2. Distinct(pending') /\ Elements(pending') = P
    <3>1. CASE pending = <<>>
      <4>1. pending' = pending
        BY <1>1, <1>2, <1>9, <3>1, AfterWriteEffect
      <4> QED
        BY <1>5, <4>1
    <3>2. CASE pending # <<>>
      <4> DEFINE h == Head(pending)
                 t == Tail(pending)
      <4>1. pending' = Append(t, h)
        BY <1>1, <1>2, <1>9, <3>2, AfterWriteEffect
      <4>2. /\ h \in Chunk /\ t \in Seq(Chunk) /\ P = Elements(t) \union {h}
            /\ Distinct(t) /\ h \notin Elements(t)
        BY <1>5, <3>2, ElementsTail
      <4> HIDE DEF h, t, P
      <4> QED
        BY <4>1, <4>2, ElementsAppend
    <3> QED
      BY <3>1, <3>2
  <2>3. Held = HeldBy(P) \union {b} /\ Held' = HeldBy(P)
    BY <1>7, <1>9, <2>1, <2>2, HeldByUnion
  <2>4. b \notin HeldBy(P)
    <3> SUFFICES ASSUME NEW c \in P, WritesBody(c), BodyOf(c) = b PROVE FALSE
      BY DEF HeldBy
    <3>1. c \in Chunk
      BY <1>5, ElementOfSeq DEF Elements
    <3>2. c = inflight
      BY <1>1, <1>9, <3>1, BodyOfInjective
    <3> QED
      BY <1>4, <1>5, <3>2
  <2>5. UnsentSet' = {b}
    BY <1>8, <2>1
  <2> HIDE DEF b, P
  <2>6. b \notin W /\ b \notin P
    BY <1>5, <2>3
  <2>7. Held' \union W \union {b} \union P = Elements(script)
    BY <1>5, <2>3
  <2>8. Held' \intersect (W \union {b} \union P) = {}
    BY <1>5, <2>3, <2>4
  <2> QED
    BY <1>5, <1>6, <2>2, <2>5, <2>6, <2>7, <2>8
<1>10. CASE ~WritesBody(inflight) /\ pending = <<>>
  <2>1. inflight' = NoChunk /\ pending' = pending
    BY <1>1, <1>2, <1>10, AfterWriteEffect
  <2>2. UnsentSet' = {} /\ Elements(pending') = P /\ Distinct(pending')
    BY <1>5, <2>1 DEF UnsentSet
  <2>3. Held = HeldBy(P) /\ Held' = HeldBy(P)
    BY <1>7, <1>10, <2>1, <2>2, HeldByUnion, NoChunkHolds
  <2> HIDE DEF P
  <2> QED
    BY <1>5, <1>6, <2>2, <2>3
<1>11. CASE ~WritesBody(inflight) /\ pending # <<>>
  <2> DEFINE h == Head(pending)
             T == Elements(Tail(pending))
  <2>1. inflight' = h /\ pending' = Tail(pending)
    BY <1>1, <1>2, <1>11, AfterWriteEffect
  <2>2. /\ h \in Chunk /\ h # NoChunk /\ P = T \union {h}
        /\ Distinct(pending') /\ h \notin T /\ Elements(pending') = T
    BY <1>5, <1>11, <2>1, ElementsTail, ChunkIsNotNoChunk
  <2>3. UnsentSet' = {h}
    BY <1>8, <2>1, <2>2
  <2>4. Held = HeldBy(P) /\ Held' = HeldBy(P)
    BY <1>7, <1>11, <2>1, <2>2, HeldByUnion
  <2> HIDE DEF h, T, P
  <2>5. Held' \union W \union {h} \union T = Elements(script)
    BY <1>5, <2>2, <2>4
  <2>6. Held' \intersect (W \union {h} \union T) = {}
    BY <1>5, <2>2, <2>4
  <2>7. W \intersect T = {} /\ {h} \intersect W = {} /\ {h} \intersect T = {}
    BY <1>5, <2>2
  <2> QED
    BY <1>5, <1>6, <2>2, <2>3, <2>5, <2>6, <2>7
<1> QED
  BY <1>9, <1>10, <1>11

\* Every action keeps PlaceInv; those that close the connection end it.
LEMMA PlacePreserved ==
  ASSUME TypeOK, FlightInv, FramingInv, PlaceInv, [Next]_vars
  PROVE  PlaceInv'
<1>1. ASSUME NEW whole \in BOOLEAN, Transmit(whole) PROVE PlaceInv'
  <2>1. /\ open /\ inflight \in Chunk /\ inflight # NoChunk /\ result = "none" /\ result' = "ok"
        /\ wire' = Append(wire, inflight) /\ wire \in Seq(Chunk)
        /\ UNCHANGED <<open, inflight, pending, count, script>>
    BY <1>1 DEF Transmit, TypeOK
  <2>2. UnsentSet = {inflight} /\ UnsentSet' = {}
    BY <2>1 DEF UnsentSet
  <2>3. inflight \notin Elements(wire) /\ Distinct(wire)
    BY <2>1, <2>2 DEF PlaceInv
  <2>4. Elements(wire') = Elements(wire) \union {inflight} /\ Distinct(wire')
    BY <2>1, <2>3, ElementsAppend
  <2>5. /\ Held' = Held /\ Elements(pending') = Elements(pending)
        /\ Elements(script') = Elements(script) /\ Distinct(pending')
    BY <2>1 DEF Held, PlaceInv
  <2> QED
    BY <2>1, <2>2, <2>4, <2>5 DEF PlaceInv
<1>2. CASE Fail
  <2>1. /\ UNCHANGED <<open, inflight, pending, wire, count, script>>
        /\ result # "ok" /\ result' # "ok"
    BY <1>2 DEF Fail
  <2>2. UnsentSet' = UnsentSet /\ Held' = Held
    BY <2>1 DEF UnsentSet, Held
  <2> QED
    BY <2>1, <2>2 DEF PlaceInv
<1>3. CASE HandleFailed
  BY <1>3 DEF HandleFailed, PlaceInv
<1>4. ASSUME UNCHANGED <<inflight, result, pending, wire, count, script>>, open' => open
      PROVE  PlaceInv'
  <2>1. UnsentSet' = UnsentSet /\ Held' = Held
    BY <1>4 DEF UnsentSet, Held
  <2> QED
    BY <1>4, <2>1 DEF PlaceInv
<1>5. ASSUME NEW c \in waits, HandleTimeout(c) PROVE PlaceInv'
  BY <1>4, <1>5 DEF HandleTimeout
<1>6. CASE CloseByReader
  BY <1>4, <1>6 DEF CloseByReader
<1>7. CASE UNCHANGED vars
  BY <1>4, <1>7 DEF vars
<1> QED
  BY <1>1, <1>2, <1>3, <1>5, <1>6, <1>7, PlaceIssue, PlaceWritten DEF Next

\* The places of the chunks, always.
LEMMA PlaceAlways == Spec => [](TypeOK /\ PlaceInv)
<1>1. Init => FramingInv
  BY DEF Init, FramingInv, ValueFramed, NoChunk, IsValueBody
<1>2. TypeOK /\ FlightInv /\ FramingInv /\ PlaceInv /\ [Next]_vars => (FramingInv /\ PlaceInv)'
  BY FramingPreserved, PlacePreserved
<1> QED
  BY <1>1, <1>2, PlaceInit, TypeAndFlight, PTL DEF Spec

\* As long as the connection is open, every chunk of every issued message is in
\* exactly one place, for every number and mix of messages: re-queueing in
\* handle_write_operation forgets none and gives none to the socket twice.  What
\* the socket takes it may still cut.
THEOREM EachChunkIsPlaced == Spec => []EachChunkPlaced
<1>1. TypeOK /\ PlaceInv => EachChunkPlaced
  BY PlaceImplies
<1> QED
  BY <1>1, PlaceAlways, PTL

------------------------------------------------------------------------------
(* What a client is told: StateDB.                                          *)

\* The handlers of the server write messages of all kinds.
AllKinds == Kinds = {"pong", "pair", "value"}

\* What a message may tell of.
Said == [key : Key \union {NoValue}, val : Val \union {NoValue}]

\* Chunks that name the key k: the bodies of the messages about it.
Tells(k) == {c \in Elements(script) : c.part = "body" /\ about[c.msg].key = k}

\* Objects are stored under the hash of their key.
StoreInv ==
    /\ store \in [Buckets -> Object \union {NoObject}]
    /\ \A b \in Buckets : store[b] # NoObject => store[b].key \in b

\* Messages are issued in the order of their numbers, the body of each after its
\* preamble.  The latest of the messages about a key with a hash of its own tells
\* the value in the database, and there is one if the key was set.
TellingInv ==
    /\ about \in Seq(Said)
    /\ Len(about) = count
    /\ \A i \in 1..Len(script) : script[i].msg \in 1..count
    /\ \A i, j \in 1..Len(script) : i < j =>
          /\ script[i].msg <= script[j].msg
          /\ script[i].part = "body" => script[i].msg < script[j].msg
    /\ \A k \in Key : Alone(k) =>
          \/ Tells(k) = {} /\ k \notin changed
          \/ \E c \in Tells(k) : /\ about[c.msg].val = DbValue(k)
                                 /\ \A d \in Tells(k) : d.msg <= c.msg

\* A step of the database is a step of its connection, or leaves it alone.
LEMMA ConnectionStep ==
  ASSUME AllKinds, [StateDBNext]_allVars
  PROVE  [Next]_vars
  BY DEF AllKinds, StateDBNext, HandleSet, HandleGet, HandlePing, Deliver, Next, allVars

\* The connection of StateDB is a connection: whatever holds of WritePipeline holds
\* of it, although the text of its messages is chosen by the state of the database.
THEOREM ConnectionImplemented == AllKinds => (StateDBSpec => Spec)
<1>1. StateDBInit => Init
  BY DEF StateDBInit
<1>2. ASSUME AllKinds PROVE StateDBSpec => Spec
  <2>1. [StateDBNext]_allVars => [Next]_vars
    BY <1>2, ConnectionStep
  <2> QED
    BY <1>1, <2>1, PTL DEF StateDBSpec, Spec
<1> QED
  BY <1>2

\* The hash of a key is that of no other key if the key is alone.
LEMMA HashAlone ==
  ASSUME NEW k \in Key
  PROVE  /\ Hash(k) \in Buckets /\ k \in Hash(k)
         /\ Alone(k) => /\ Hash(k) = {k}
                        /\ \A l \in Key : l # k => Hash(l) # Hash(k) /\ k \notin Hash(l)
<1>1. ASSUME NEW l \in Key PROVE Hash(l) \in Buckets /\ l \in Hash(l)
  BY DEF Hash, Key
<1>2. Hash(k) \in Buckets /\ k \in Hash(k)
  BY <1>1
<1>3. ASSUME Alone(k), NEW l \in Key, l # k PROVE Hash(l) # Hash(k) /\ k \notin Hash(l)
  <2>1. Hash(l) \in Buckets /\ l \in Hash(l)
    BY <1>1
  <2>2. k \in Hash(l) => Hash(l) = {k}
    BY <1>3, <2>1 DEF Alone
  <2> QED
    BY <1>2, <1>3, <2>1, <2>2
<1>4. Alone(k) => Hash(k) = {k}
  BY <1>2 DEF Alone
<1> QED
  BY <1>2, <1>3, <1>4

\* What a queue of one or two chunks holds.
LEMMA ElementsShort ==
  ASSUME NEW c \in Chunk, NEW d \in Chunk
  PROVE  /\ <<c>> \in Seq(Chunk) /\ Elements(<<c>>) = {c}
         /\ <<c, d>> \in Seq(Chunk) /\ Elements(<<c, d>>) = {c, d}
<1>1. <<c>> \in Seq(Chunk) /\ Len(<<c>>) = 1 /\ <<c>>[1] = c
  OBVIOUS
<1>2. /\ <<c, d>> \in Seq(Chunk) /\ Len(<<c, d>>) = 2
      /\ <<c, d>>[1] = c /\ <<c, d>>[2] = d
  OBVIOUS
<1>3. 1..2 = {1, 2}
  OBVIOUS
<1> QED
  BY <1>1, <1>2, <1>3 DEF Elements

\* What Issue does to the history of what was issued.
LEMMA ScriptGrows ==
  ASSUME TypeOK, TellingInv, NEW kind \in Kinds, Issue(kind)
  PROVE  /\ count' = count + 1 /\ count \in Nat
         /\ \A i \in 1..Len(script') : script'[i].msg \in 1..count'
         /\ \A i, j \in 1..Len(script') : i < j =>
               /\ script'[i].msg <= script'[j].msg
               /\ script'[i].part = "body" => script'[i].msg < script'[j].msg
         /\ LET head == HeadOf(count + 1, kind)
            IN  Elements(script') = Elements(script)
                   \union (IF kind = "pong" THEN {head} ELSE {head, BodyOf(head)})
<1> DEFINE head == HeadOf(count + 1, kind)
           body == BodyOf(head)
           m    == Len(script)
<1>1. /\ head \in Chunk /\ Issued(count + 1, kind) \in Seq(Chunk)
      /\ Issued(count + 1, kind) = IF kind = "pong" THEN <<head>> ELSE <<head, body>>
  BY IssueEffect
<1>2. /\ body \in Chunk /\ head.msg = count + 1 /\ body.msg = count + 1
      /\ head.part = "head" /\ body.part = "body"
  BY <1>1, BodyIsChunk DEF HeadOf, BodyOf
<1>3. /\ count' = count + 1 /\ count \in Nat /\ script \in Seq(Chunk) /\ m \in Nat
      /\ script' = script \o Issued(count + 1, kind)
  BY DEF Issue, TypeOK
<1>n. count \in Nat
  BY <1>3
<1>4. /\ \A i \in 1..m : script[i].msg \in 1..count
      /\ \A i, j \in 1..m : i < j => /\ script[i].msg <= script[j].msg
                                     /\ script[i].part = "body" => script[i].msg < script[j].msg
  BY DEF TellingInv
<1> HIDE DEF head, body, m
<1>5. CASE kind = "pong"
  <2>1. script' = script \o <<head>>
    BY <1>1, <1>3, <1>5
  <2>2. /\ Len(script') = m + 1
        /\ \A i \in 1..m : script'[i] = script[i]
        /\ script'[m + 1] = head
    BY <1>1, <1>3, <2>1 DEF m
  <2>3. 1..m + 1 = (1..m) \union {m + 1}
    BY <1>3
  <2>4. Elements(script') = Elements(script) \union {head}
    <3>1. <<head>> \in Seq(Chunk) /\ Elements(<<head>>) = {head}
      BY <1>1, ElementsShort
    <3> QED
      BY ONLY <1>3, <2>1, <3>1, ElementsConcat
  <2>5. script'[m + 1].msg = count + 1
    BY <1>2, <2>2
  <2>6. \A i \in 1..m + 1 : script'[i].msg \in 1..count + 1
    <3>1. \A i \in 1..m : script'[i].msg \in 1..count
      BY <1>4, <2>2
    <3>2. \A a \in 1..count : a \in 1..count + 1
      BY ONLY <1>n
    <3>3. count + 1 \in 1..count + 1
      BY ONLY <1>n
    <3> QED
      BY ONLY <2>3, <2>5, <3>1, <3>2, <3>3, Zenon
  <2>7. ASSUME NEW i \in 1..m + 1, NEW j \in 1..m + 1, i < j
        PROVE  /\ script'[i].msg <= script'[j].msg
               /\ script'[i].part = "body" => script'[i].msg < script'[j].msg
    <3>1. i \in 1..m /\ (j \in 1..m \/ j = m + 1)
      BY <1>3, <2>3, <2>7
    <3>2. script'[i] = script[i] /\ script[i].msg \in 1..count
      BY <1>4, <2>2, <3>1
    <3>3. CASE j \in 1..m
      <4>1. script'[j] = script[j]
        BY <2>2, <3>3
      <4> QED
        BY <1>4, <2>7, <3>1, <3>2, <3>3, <4>1
    <3>4. CASE j = m + 1
      <4>1. script'[i].msg \in 1..count /\ script'[j].msg = count + 1
        BY <2>5, <3>2, <3>4
      <4>2. \A a \in 1..count : a < count + 1 /\ a <= count + 1
        BY ONLY <1>n
      <4> QED
        BY ONLY <4>1, <4>2
    <3> QED
      BY <3>1, <3>3, <3>4
  <2> QED
    BY <1>3, <1>5, <2>2, <2>4, <2>6, <2>7 DEF head
<1>6. CASE kind # "pong"
  <2>1. script' = script \o <<head, body>>
    BY <1>1, <1>3, <1>6
  <2>2. /\ Len(script') = m + 2
        /\ \A i \in 1..m : script'[i] = script[i]
        /\ script'[m + 1] = head /\ script'[m + 2] = body
    BY <1>1, <1>2, <1>3, <2>1 DEF m
  <2>3. 1..m + 2 = (1..m) \union {m + 1, m + 2}
    BY <1>3
  <2>4. Elements(script') = Elements(script) \union {head, body}
    <3>1. <<head, body>> \in Seq(Chunk) /\ Elements(<<head, body>>) = {head, body}
      BY <1>1, <1>2, ElementsShort
    <3> QED
      BY ONLY <1>3, <2>1, <3>1, ElementsConcat
  <2>5. /\ script'[m + 1].msg = count + 1 /\ script'[m + 2].msg = count + 1
        /\ script'[m + 1].part = "head"
    BY <1>2, <2>2
  <2>6. \A i \in 1..m + 2 : script'[i].msg \in 1..count + 1
    <3>1. \A i \in 1..m : script'[i].msg \in 1..count
      BY <1>4, <2>2
    <3>2. \A a \in 1..count : a \in 1..count + 1
      BY ONLY <1>n
    <3>3. count + 1 \in 1..count + 1
      BY ONLY <1>n
    <3> QED
      BY ONLY <2>3, <2>5, <3>1, <3>2, <3>3, Zenon
  <2>7. ASSUME NEW i \in 1..m + 2, NEW j \in 1..m + 2, i < j
        PROVE  /\ script'[i].msg <= script'[j].msg
               /\ script'[i].part = "body" => script'[i].msg < script'[j].msg
    <3>1. \/ i \in 1..m /\ j \in 1..m
          \/ i \in 1..m /\ j \in {m + 1, m + 2}
          \/ i = m + 1 /\ j = m + 2
      BY <1>3, <2>3, <2>7
    <3>2. CASE i \in 1..m /\ j \in 1..m
      <4>1. script'[i] = script[i] /\ script'[j] = script[j]
        BY <2>2, <3>2
      <4> QED
        BY <1>4, <2>7, <3>2, <4>1
    <3>3. CASE i \in 1..m /\ j \in {m + 1, m + 2}
      <4>1. script'[i].msg \in 1..count /\ script'[j].msg = count + 1
        BY <1>4, <2>2, <2>5, <3>3
      <4>2. \A a \in 1..count : a < count + 1 /\ a <= count + 1
        BY ONLY <1>n
      <4> QED
        BY ONLY <4>1, <4>2
    <3>4. CASE i = m + 1 /\ j = m + 2
      BY ONLY <1>n, <2>5, <3>4
    <3> QED
      BY <3>1, <3>2, <3>3, <3>4
  <2> QED
    BY <1>3, <1>6, <2>2, <2>4, <2>6, <2>7 DEF head, body
<1> QED
  BY <1>5, <1>6

\* A message that tells the value of a key becomes the latest about that key; those
\* of the keys it is not about stay what they are.  A pong has no body.
LEMMA TellingIssue ==
  ASSUME TypeOK, TellingInv, NEW kind \in Kinds, Issue(kind),
         NEW o \in Said, Says(o),
         IF kind = "pong"
         THEN UNCHANGED <<store, changed>>
         ELSE \A k \in Key : Alone(k) =>
                 \/ o.key = k /\ o.val = DbValue(k)'
                 \/ o.key # k /\ DbValue(k)' = DbValue(k) /\ (k \in changed' => k \in changed)
  PROVE  TellingInv'
<1> DEFINE head == HeadOf(count + 1, kind)
           body == BodyOf(head)
<1>1. /\ count' = count + 1 /\ count \in Nat
      /\ \A i \in 1..Len(script') : script'[i].msg \in 1..count'
      /\ \A i, j \in 1..Len(script') : i < j =>
            /\ script'[i].msg <= script'[j].msg
            /\ script'[i].part = "body" => script'[i].msg < script'[j].msg
      /\ Elements(script') = Elements(script)
            \union (IF kind = "pong" THEN {head} ELSE {head, body})
  BY ScriptGrows
<1>2. /\ head.part = "head" /\ body.part = "body" /\ body.msg = count + 1
  BY DEF HeadOf, BodyOf
<1>4. /\ about' \in Seq(Said) /\ Len(about') = count'
      /\ about'[count + 1] = o
      /\ \A i \in 1..count : about'[i] = about[i]
  <2>1. about \in Seq(Said) /\ Len(about) = count
    BY DEF TellingInv
  <2> QED
    BY <1>1, <2>1 DEF Says
<1>5. \A c \in Elements(script) : c.msg \in 1..count
  BY DEF TellingInv, Elements
<1> HIDE DEF head, body
<1>6. ASSUME NEW l \in Key
      PROVE  Tells(l)' = Tells(l) \union (IF kind # "pong" /\ l = o.key THEN {body} ELSE {})
  <2>1. \A c \in Elements(script) : about'[c.msg].key = about[c.msg].key
    BY <1>4, <1>5
  <2>2. about'[body.msg].key = o.key
    BY <1>2, <1>4
  <2>3. CASE kind = "pong"
    BY <1>1, <1>2, <2>1, <2>3 DEF Tells
  <2>4. CASE kind # "pong"
    BY <1>1, <1>2, <2>1, <2>2, <2>4 DEF Tells
  <2> QED
    BY <2>3, <2>4
<1>7. ASSUME NEW l \in Key, Alone(l)
      PROVE  \/ Tells(l)' = {} /\ l \notin changed'
             \/ \E c \in Tells(l)' : /\ about'[c.msg].val = DbValue(l)'
                                     /\ \A d \in Tells(l)' : d.msg <= c.msg
  <2>1. CASE kind # "pong" /\ l = o.key
    <3>1. o.val = DbValue(l)'
      BY <1>7, <2>1
    <3>2. body \in Tells(l)' /\ about'[body.msg].val = DbValue(l)'
      BY <1>2, <1>4, <1>6, <2>1, <3>1
    <3>3. \A d \in Tells(l)' : d.msg <= body.msg
      <4>1. \A d \in Tells(l) : d.msg \in 1..count
        BY <1>5 DEF Tells
      <4> QED
        BY <1>1, <1>2, <1>6, <2>1, <4>1
    <3> QED
      BY <3>2, <3>3
  <2>2. CASE ~(kind # "pong" /\ l = o.key)
    <3>1. DbValue(l)' = DbValue(l) /\ (l \in changed' => l \in changed)
      <4>1. CASE kind = "pong"
        BY <4>1 DEF DbValue
      <4>2. CASE kind # "pong"
        BY <1>7, <2>2, <4>2
      <4> QED
        BY <4>1, <4>2
    <3>2. Tells(l)' = Tells(l)
      BY <1>6, <2>2
    <3>3. \A c \in Tells(l) : about'[c.msg] = about[c.msg]
      BY <1>4, <1>5 DEF Tells
    <3>4. \/ Tells(l) = {} /\ l \notin changed
          \/ \E c \in Tells(l) : /\ about[c.msg].val = DbValue(l)
                                 /\ \A d \in Tells(l) : d.msg <= c.msg
      BY <1>7 DEF TellingInv
    <3> QED
      BY <3>1, <3>2, <3>3, <3>4
  <2> QED
    BY <2>1, <2>2
<1> QED
  <2>1. \A l \in Key : Alone(l)' <=> Alone(l)
    BY DEF Alone
  <2>2. \A l \in Key : Alone(l)' =>
           \/ Tells(l)' = {} /\ l \notin changed'
           \/ \E c \in Tells(l)' : /\ about'[c.msg].val = DbValue(l)'
                                   /\ \A d \in Tells(l)' : d.msg <= c.msg
    BY <1>7, <2>1
  <2> QED
    BY <1>1, <1>4, <2>2 DEF TellingInv

\* Every step keeps TellingInv and StoreInv; the steps of the socket and of the
\* timers do not touch what they are about.
LEMMA TellingPreserved ==
  ASSUME AllKinds, TypeOK, StoreInv, TellingInv, [StateDBNext]_allVars
  PROVE  StoreInv' /\ TellingInv'
<1>1. ASSUME NEW k \in Key, NEW v \in Val, HandleSet(k, v)
      PROVE  StoreInv' /\ TellingInv'
  <2> DEFINE o == [key |-> k, val |-> v]
  <2>1. Issue("value") /\ "value" \in Kinds
    BY <1>1 DEF HandleSet, AllKinds
  <2>2. Hash(k) \in Buckets /\ k \in Hash(k)
    BY HashAlone
  <2>3. /\ store' = [store EXCEPT ![Hash(k)] = o] /\ store'[Hash(k)] = o
        /\ changed' = changed \union {k}
    BY <1>1, <2>2 DEF HandleSet, StoreInv
  <2>4. Says(o) /\ o \in Said /\ o \in Object
    BY <1>1, <2>3 DEF HandleSet, Says, Said, Object
  <2>5. StoreInv'
    BY <2>2, <2>3, <2>4 DEF StoreInv
  <2>6. ASSUME NEW l \in Key, Alone(l)
        PROVE  \/ o.key = l /\ o.val = DbValue(l)'
               \/ o.key # l /\ DbValue(l)' = DbValue(l) /\ (l \in changed' => l \in changed)
    <3>1. CASE l = k
      BY <2>3, <3>1 DEF DbValue
    <3>2. CASE l # k
      <4>1. Hash(l) # Hash(k)
        BY <2>6, <3>2, HashAlone
      <4>2. store'[Hash(l)] = store[Hash(l)]
        BY <2>2, <2>3, <4>1, HashAlone DEF StoreInv
      <4> QED
        BY <2>3, <3>2, <4>2 DEF DbValue
    <3> QED
      BY <3>1, <3>2
  <2> HIDE DEF o
  <2> QED
    BY <2>1, <2>4, <2>5, <2>6, TellingIssue
<1>2. ASSUME NEW k \in Key, HandleGet(k) PROVE StoreInv' /\ TellingInv'
  <2> DEFINE found == store[Hash(k)]
             o == IF found = NoObject THEN [key |-> k, val |-> NoValue] ELSE found
  <2>1. PICK kind \in {"pair", "value"} : Issue(kind)
    BY <1>2 DEF HandleGet
  <2>2. kind \in Kinds /\ kind # "pong"
    BY DEF AllKinds
  <2>3. Says(o) /\ UNCHANGED <<store, changed>>
    BY <1>2 DEF HandleGet
  <2>4. Hash(k) \in Buckets /\ k \in Hash(k)
    BY HashAlone
  <2>5. found \in Object \union {NoObject} /\ (found # NoObject => found.key \in Hash(k))
    BY <2>4 DEF StoreInv
  <2>6. o \in Said
    BY <2>5 DEF Said, Object, NoObject
  <2>7. StoreInv'
    BY <2>3 DEF StoreInv
  <2>8. ASSUME NEW l \in Key, Alone(l)
        PROVE  \/ o.key = l /\ o.val = DbValue(l)'
               \/ o.key # l /\ DbValue(l)' = DbValue(l) /\ (l \in changed' => l \in changed)
    <3>1. DbValue(l)' = DbValue(l) /\ changed' = changed
      BY <2>3 DEF DbValue
    <3>2. CASE l = k
      <4>1. CASE found = NoObject
        BY <3>1, <3>2, <4>1 DEF DbValue, NoObject
      <4>2. CASE found # NoObject
        <5>1. found.key = k
          BY <2>5, <2>8, <3>2, <4>2, HashAlone
        <5> QED
          BY <3>1, <3>2, <4>2, <5>1 DEF DbValue
      <4> QED
        BY <4>1, <4>2
    <3>3. CASE l # k
      <4>1. l \notin Hash(k)
        BY <2>8, <3>3, HashAlone
      <4>2. o.key # l
        BY <2>5, <3>3, <4>1
      <4> QED
        BY <3>1, <4>2
    <3> QED
      BY <3>2, <3>3
  <2> HIDE DEF o, found
  <2> QED
    BY <2>1, <2>2, <2>3, <2>6, <2>7, <2>8, TellingIssue
<1>3. CASE HandlePing
  <2>1. Issue("pong") /\ "pong" \in Kinds /\ Says(NoObject) /\ UNCHANGED <<store, changed>>
    BY <1>3 DEF HandlePing, AllKinds
  <2>2. NoObject \in Said
    BY DEF NoObject, Said
  <2> QED
    BY <2>1, <2>2, TellingIssue DEF StoreInv
<1>4. ASSUME UNCHANGED <<count, script, store, changed, about>>
      PROVE  StoreInv' /\ TellingInv'
  <2>1. \A k \in Key : Tells(k)' = Tells(k) /\ DbValue(k)' = DbValue(k)
    BY <1>4 DEF Tells, Elements, DbValue
  <2> QED
    BY <1>4, <2>1 DEF TellingInv, StoreInv
<1>5. CASE Deliver
  BY <1>4, <1>5
     DEF Deliver, Transmit, Fail, HandleWritten, HandleFailed, HandleTimeout, CloseByReader
<1>6. CASE UNCHANGED allVars
  BY <1>4, <1>6 DEF allVars, vars
<1> QED
  BY <1>1, <1>2, <1>3, <1>5, <1>6 DEF StateDBNext

\* At any time the value of each key is what the latest of its messages tells.
LEMMA TellingAlways == AllKinds => (StateDBSpec => [](TypeOK /\ PlaceInv /\ TellingInv))
<1> SUFFICES ASSUME AllKinds PROVE StateDBSpec => [](TypeOK /\ PlaceInv /\ TellingInv)
  OBVIOUS
<1>1. StateDBInit => StoreInv /\ TellingInv
  <2> SUFFICES ASSUME StateDBInit PROVE StoreInv /\ TellingInv
    OBVIOUS
  <2>1. script = <<>> /\ Len(script) = 0 /\ about = <<>> /\ count = 0
    BY DEF StateDBInit, Init
  <2>2. \A k \in Key : Tells(k) = {} /\ k \notin changed
    BY <2>1 DEF StateDBInit, Tells, Elements
  <2>3. StoreInv
    BY DEF StateDBInit, StoreInv
  <2> QED
    BY <2>1, <2>2, <2>3 DEF TellingInv
<1>2. TypeOK /\ StoreInv /\ TellingInv /\ [StateDBNext]_allVars => StoreInv' /\ TellingInv'
  BY TellingPreserved
<1>3. StateDBSpec => [](TypeOK /\ PlaceInv)
  BY ConnectionImplemented, PlaceAlways, PTL
<1> QED
  BY <1>1, <1>2, <1>3, PTL DEF StateDBSpec

\* The connection is open, everything was given to the socket, and nothing was cut.
Quiet == open /\ inflight = NoChunk /\ pending = <<>> /\ cut = 0

\* What was issued is then what is on the wire.
LEMMA QuietIsSent ==
  ASSUME TypeOK, PlaceInv, Quiet
  PROVE  Elements(wire) = Elements(script)
<1>1. Held = {}
  BY NoChunkHolds, EmptySeq DEF Quiet, Held, Elements
<1>2. UnsentSet = {} /\ Elements(pending) = {}
  BY EmptySeq DEF Quiet, UnsentSet, Elements
<1> QED
  BY <1>1, <1>2 DEF PlaceInv, Quiet

\* On an open connection with nothing left to write and nothing cut, the wire holds
\* a notice with the value in the database of every key that was set since the
\* client connected and has its hash for itself.
ChangesAreOnTheWire ==
    Quiet => \A k \in changed \intersect Key : Alone(k) =>
                \E i \in ToldOf(k) : about[wire[i].msg].val = DbValue(k)

\* If the wire has kept the order of the messages as well, the last notice about a
\* key tells the value in the database, whether the key was set or asked for.
CurrentIfInOrder ==
    Quiet /\ InOrder =>
        \A k \in Key : Alone(k) /\ ToldOf(k) # {} => LastTold(k) = DbValue(k)

\* Whatever other messages were queued and re-queued, set_handler's broadcast to
\* this client is not forgotten, and the value that was stored last is among what
\* is written.
THEOREM ChangesAreWritten == AllKinds => (StateDBSpec => []ChangesAreOnTheWire)
<1>1. ASSUME TypeOK, PlaceInv, TellingInv PROVE ChangesAreOnTheWire
  <2> SUFFICES ASSUME Quiet, NEW k \in changed \intersect Key, Alone(k)
               PROVE  \E i \in ToldOf(k) : about[wire[i].msg].val = DbValue(k)
    BY DEF ChangesAreOnTheWire
  <2>1. PICK c \in Tells(k) : about[c.msg].val = DbValue(k)
    BY <1>1 DEF TellingInv
  <2>2. PICK i \in 1..Len(wire) : wire[i] = c
    BY <1>1, QuietIsSent DEF Tells, Elements
  <2> QED
    BY <2>1, <2>2 DEF Tells, ToldOf, Quiet
<1> QED
  BY <1>1, TellingAlways, PTL

\* The copy of a client is stale at rest for one of three reasons only: messages
\* have overtaken each other (AfterWrite), the socket has cut a chunk, or another
\* key has the same hash.  Without all three it is the value in the database.
THEOREM StaleHasAReason == AllKinds => (StateDBSpec => []CurrentIfInOrder)
<1>1. ASSUME TypeOK, PlaceInv, TellingInv PROVE CurrentIfInOrder
  <2> SUFFICES ASSUME InOrder, Quiet, NEW k \in Key, Alone(k), ToldOf(k) # {}
               PROVE  LastTold(k) = DbValue(k)
    BY DEF CurrentIfInOrder
  <2>1. Elements(wire) = Elements(script)
    BY <1>1, QuietIsSent
  <2>2. \A i \in ToldOf(k) : i \in 1..Len(wire) /\ wire[i] \in Tells(k)
    BY <2>1 DEF ToldOf, Tells, Elements
  <2>3. PICK c \in Tells(k) : about[c.msg].val = DbValue(k) /\ \A d \in Tells(k) : d.msg <= c.msg
    BY <1>1, <2>2 DEF TellingInv
  <2>4. PICK j \in 1..Len(wire) : wire[j] = c
    BY <2>1, <2>3 DEF Tells, Elements
  <2>5. j \in ToldOf(k)
    BY <2>3, <2>4 DEF Tells, ToldOf, Quiet
  <2>6. ASSUME NEW i \in ToldOf(k) PROVE i <= j
    <3> SUFFICES ASSUME j < i PROVE FALSE
      BY <2>2
    <3>1. /\ i \in 1..Len(script) /\ j \in 1..Len(script)
          /\ wire[i] = script[i] /\ wire[j] = script[j]
      BY <2>2 DEF InOrder
    <3>2. script[j].msg < script[i].msg
      BY <1>1, <2>3, <2>4, <3>1 DEF TellingInv, Tells
    <3>3. script[i].msg <= script[j].msg
      BY <2>2, <2>3, <2>4, <3>1
    <3>4. script[i].msg \in Nat /\ script[j].msg \in Nat
      BY <1>1, <3>1 DEF TellingInv
    <3> QED
      BY ONLY <3>2, <3>3, <3>4
  <2>7. (CHOOSE i \in ToldOf(k) : \A l \in ToldOf(k) : l <= i) = j
    <3>1. \A i \in ToldOf(k) : (\A l \in ToldOf(k) : l <= i) => i = j
      BY <2>2, <2>5, <2>6
    <3> QED
      BY <2>5, <2>6, <3>1
  <2> QED
    BY <2>3, <2>4, <2>7 DEF LastTold
<1> QED
  BY <1>1, TellingAlways, PTL
==============================================================================
