-------------------------- MODULE ReadPipelineProofs --------------------------
(***************************************************************************)
(* Theorems about the incoming half of a connection, for every set of       *)
(* requests and every bound on their number.                                *)
(***************************************************************************)
EXTENDS ReadPipeline, SequenceTheorems, TLAPS

------------------------------------------------------------------------------
(* The reader's calls on a state of the reader that is written out.         *)

Working(op, queue, buf, timed) ==
    [busy |-> TRUE, flight |-> op, queue |-> queue, buf |-> buf, waits |-> timed]

Resting(queue, buf, timed) ==
    [busy |-> FALSE, flight |-> NoRead, queue |-> queue, buf |-> buf, waits |-> timed]

\* An idle reader gives a preamble to the socket, without a deadline.
LEMMA ReadPreambleIdle ==
    ASSUME NEW q, NEW u, NEW w
    PROVE  Read(Resting(q, u, w), PreambleRead)
             = Working(PreambleRead, q, Allocated("preamble", PreambleSize), w)
  <1>1. ~Timed(PreambleRead)
    BY DEF PreambleRead, Timed
  <1>2. PreambleRead.type = "preamble" /\ PreambleRead.size = PreambleSize
    BY DEF PreambleRead
  <1> QED BY <1>1, <1>2 DEF Read, Resting, Working

\* A busy reader queues what it is asked for.
LEMMA ReadWhenBusy ==
    ASSUME NEW f, NEW q, NEW u, NEW w, NEW op
    PROVE  Read(Working(f, q, u, w), op) = Working(f, Append(q, op), u, w)
  BY DEF Read, Working

\* An empty queue is not served.
LEMMA ServeNone ==
    ASSUME NEW f, NEW u, NEW w
    PROVE  /\ ServeQueue(Working(f, <<>>, u, w)) = Working(f, <<>>, u, w)
           /\ ServeQueue(Resting(<<>>, u, w)) = Resting(<<>>, u, w)
  BY DEF ServeQueue, Working, Resting

\* The assignment of the queue alone.
LEMMA QueueAssigned ==
    ASSUME NEW f, NEW q, NEW u, NEW w, NEW x
    PROVE  /\ [Working(f, q, u, w) EXCEPT !.queue = x] = Working(f, x, u, w)
           /\ [Resting(q, u, w) EXCEPT !.queue = x] = Resting(x, u, w)
  <1> DEFINE State(b, g, y) == [busy |-> b, flight |-> g, queue |-> y, buf |-> u, waits |-> w]
  <1>1. \A b, g, y : [State(b, g, y) EXCEPT !.queue = x] = State(b, g, x)
    OBVIOUS
  <1>2. PICK b1, b2 : b1 = TRUE /\ b2 = FALSE
    OBVIOUS
  <1>3. \A y : Working(f, y, u, w) = State(b1, f, y) /\ Resting(y, u, w) = State(b2, NoRead, y)
    BY <1>2 DEF Working, Resting
  <1> HIDE DEF State
  <1> QED BY <1>1, <1>3

\* The only read of a queue is performed.
LEMMA ServeOne ==
    ASSUME NEW f, NEW u, NEW w, NEW op
    PROVE  /\ ServeQueue(Working(f, <<op>>, u, w)) = Read(Working(f, <<>>, u, w), op)
           /\ ServeQueue(Resting(<<op>>, u, w)) = Read(Resting(<<>>, u, w), op)
  <1> DEFINE s == Working(f, <<op>>, u, w)
             t == Resting(<<op>>, u, w)
  <1>1. Tail(<<op>>) = <<>> /\ Head(<<op>>) = op /\ <<op>> # <<>>
    OBVIOUS
  <1>2. s.queue = <<op>> /\ t.queue = <<op>>
    BY DEF Working, Resting
  <1>3. /\ [s EXCEPT !.queue = <<>>] = Working(f, <<>>, u, w)
        /\ [t EXCEPT !.queue = <<>>] = Resting(<<>>, u, w)
    BY QueueAssigned
  <1> HIDE DEF s, t
  <1>4. /\ ServeQueue(s) = Read([s EXCEPT !.queue = <<>>], op)
        /\ ServeQueue(t) = Read([t EXCEPT !.queue = <<>>], op)
    BY <1>1, <1>2 DEF ServeQueue
  <1> QED BY <1>3, <1>4 DEF s, t

\* Becomes assigns the fields to the variables.
LEMMA WorkingBecomes ==
    ASSUME NEW f, NEW q, NEW u, NEW w, Becomes(Working(f, q, u, w))
    PROVE  /\ read_in_progress' = TRUE
           /\ inflight' = f
           /\ pending' = q
           /\ buffer' = u
           /\ waits' = w
  BY DEF Becomes, Working

\* The variables after a step that leaves the reader without a read.
LEMMA RestingBecomes ==
    ASSUME NEW q, NEW u, NEW w, Becomes(Resting(q, u, w))
    PROVE  /\ read_in_progress' = FALSE
           /\ inflight' = NoRead
           /\ pending' = q
           /\ buffer' = u
           /\ waits' = w
  BY DEF Becomes, Resting

------------------------------------------------------------------------------
(* What the three handlers of handle_data leave behind.                     *)

\* received_hello: a preamble is waited for if the HELLO is right and the socket is
\* open, and nothing otherwise.
LEMMA HelloEffect ==
    ASSUME HandleHello, pending = <<>>, open \in BOOLEAN
    PROVE  LET go == open /\ ValidHello(buffer.data)
           IN  /\ result = "ok" /\ inflight = HelloRead /\ result' = "none"
               /\ open' = go
               /\ read_in_progress' = go
               /\ inflight' = IF go THEN PreambleRead ELSE NoRead
               /\ pending' = <<>>
               /\ buffer' = IF go THEN Allocated("preamble", PreambleSize)
                                  ELSE Deallocated(buffer)
               /\ waits' = waits
               /\ UNCHANGED <<peer, net, handled>>
  <1> DEFINE go == open /\ ValidHello(buffer.data)
             freed == Deallocated(buffer)
             q == Resting(<<>>, freed, waits)
             s == IF ValidHello(buffer.data) THEN StartReadMessage(q) ELSE q
  <1>1. Idle(freed) = q
    BY DEF Idle, Resting
  <1>2. Becomes(ServeQueue(s))
    BY <1>1 DEF HandleHello
  <1> HIDE DEF freed
  <1>3. CASE go
    <2>1. s = Working(PreambleRead, <<>>, Allocated("preamble", PreambleSize), waits)
      <3>1. s = Read(q, PreambleRead)
        BY <1>3 DEF StartReadMessage
      <3> QED BY <3>1, ReadPreambleIdle
    <2>2. Becomes(Working(PreambleRead, <<>>, Allocated("preamble", PreambleSize), waits))
      BY <1>2, <2>1, ServeNone
    <2> QED BY <1>3, <2>2, WorkingBecomes, RestingBecomes DEF HandleHello
  <1>4. CASE ~go
    <2>1. s = q
      BY <1>4 DEF StartReadMessage
    <2>2. Becomes(q)
      BY <1>2, <2>1, ServeNone
    <2> QED BY <1>4, <2>2, WorkingBecomes, RestingBecomes DEF HandleHello, freed
  <1> QED BY <1>3, <1>4

\* handle_message with the request r: a body read goes to the socket and the next
\* preamble behind it, or the next preamble goes to the socket.
LEMMA PreambleEffect ==
    ASSUME NEW r, Becomes(ServeQueue(AfterPreamble(r))), pending = <<>>, open \in BOOLEAN
    PROVE  LET body == BodyRead(Len(handled) + 1, r)
           IN  IF r.cmd \in LoadsBody
               THEN /\ read_in_progress' = TRUE
                    /\ inflight' = body
                    /\ pending' = IF open THEN <<PreambleRead>> ELSE <<>>
                    /\ buffer' = Allocated("binary", r.size)
                    /\ waits' = waits \union {body}
               ELSE /\ read_in_progress' = open
                    /\ inflight' = IF open THEN PreambleRead ELSE NoRead
                    /\ pending' = <<>>
                    /\ buffer' = IF open THEN Allocated("preamble", PreambleSize)
                                         ELSE Deallocated(buffer)
                    /\ waits' = waits
  <1> DEFINE no == Len(handled) + 1
             body == BodyRead(no, r)
             freed == Deallocated(buffer)
             q == Resting(pending, freed, waits)
  <1>1. Idle(freed) = q
    BY DEF Idle, Resting
  <1>2. AfterPreamble(r) = StartReadMessage(Dispatch(q, r))
    BY <1>1 DEF AfterPreamble
  <1>3. Dispatch(q, r) = IF r.cmd \in LoadsBody THEN Read(q, body) ELSE q
    BY DEF Dispatch
  <1> HIDE DEF freed, no
  <1>4. CASE r.cmd \in LoadsBody
    <2> DEFINE buf == Allocated("binary", r.size)
               timed == waits \union {body}
               d == Working(body, pending, buf, timed)
               e == Working(body, <<PreambleRead>>, buf, timed)
    <2>1. Dispatch(q, r) = d
      <3>1. Dispatch(q, r) = Read(q, body)
        BY <1>3, <1>4
      <3>2. body.type = "binary" /\ body.size = r.size
        BY DEF BodyRead
      <3>3. Timed(body)
        BY <3>2 DEF Timed
      <3>4. timed = waits \union {body}
        OBVIOUS
      <3> HIDE DEF body, timed
      <3>5. Read(q, body) = Working(body, pending, Allocated(body.type, body.size), timed)
        BY <3>3, <3>4 DEF Read, Resting, Working
      <3> QED BY <3>1, <3>2, <3>5
    <2> HIDE DEF body, buf, timed
    <2>2. CASE ~open
      <3>1. Becomes(d)
        BY <1>2, <2>1, <2>2, ServeNone DEF StartReadMessage
      <3>2. /\ read_in_progress' = TRUE /\ inflight' = body /\ pending' = <<>>
            /\ buffer' = buf /\ waits' = timed
        BY <3>1, WorkingBecomes
      <3> QED BY <1>4, <2>2, <3>2 DEF no, body, buf, timed
    <2>3. CASE open
      <3>1. Append(pending, PreambleRead) = <<PreambleRead>>
        OBVIOUS
      <3>2. Read(d, PreambleRead) = e
        <4>1. \A x : Read(Working(body, x, buf, timed), PreambleRead)
                       = Working(body, Append(x, PreambleRead), buf, timed)
          BY ReadWhenBusy
        <4> QED BY <3>1, <4>1
      <3>3. ServeQueue(e) = e
        <4>1. ServeQueue(Working(body, <<PreambleRead>>, buf, timed))
                = Read(Working(body, pending, buf, timed), PreambleRead)
          BY ServeOne
        <4> QED BY <3>2, <4>1
      <3>4. Becomes(e)
        BY <1>2, <2>1, <2>3, <3>2, <3>3 DEF StartReadMessage
      <3>5. /\ read_in_progress' = TRUE /\ inflight' = body /\ pending' = <<PreambleRead>>
            /\ buffer' = buf /\ waits' = timed
        BY <3>4, WorkingBecomes
      <3> QED BY <1>4, <2>3, <3>5 DEF no, body, buf, timed
    <2> QED BY <2>2, <2>3
  <1>5. CASE r.cmd \notin LoadsBody
    <2>1. Dispatch(q, r) = q
      BY <1>3, <1>5
    <2>2. CASE ~open
      <3>1. Becomes(q)
        BY <1>2, <2>1, <2>2, ServeNone DEF StartReadMessage
      <3>2. /\ read_in_progress' = FALSE /\ inflight' = NoRead /\ pending' = <<>>
            /\ buffer' = freed /\ waits' = waits
        BY <3>1, RestingBecomes
      <3> QED BY <1>5, <2>2, <3>2 DEF freed
    <2>3. CASE open
      <3> DEFINE p == Working(PreambleRead, pending, Allocated("preamble", PreambleSize), waits)
      <3>1. Read(q, PreambleRead) = p
        BY ReadPreambleIdle
      <3>2. Becomes(p)
        BY <1>2, <2>1, <2>3, <3>1, ServeNone DEF StartReadMessage
      <3>3. /\ read_in_progress' = TRUE /\ inflight' = PreambleRead /\ pending' = <<>>
            /\ buffer' = Allocated("preamble", PreambleSize) /\ waits' = waits
        BY <3>2, WorkingBecomes
      <3> QED BY <1>5, <2>3, <3>3
    <2> QED BY <2>2, <2>3
  <1> QED BY <1>4, <1>5

\* handle_proccessed_data: the preamble that waits in the queue, if any, goes to the
\* socket, be it open or not.
LEMMA BodyEffect ==
    ASSUME Becomes(ServeQueue(Idle(buffer))), pending \in {<<>>, <<PreambleRead>>}
    PROVE  LET more == pending = <<PreambleRead>>
           IN  /\ read_in_progress' = more
               /\ inflight' = IF more THEN PreambleRead ELSE NoRead
               /\ pending' = <<>>
               /\ buffer' = IF more THEN Allocated("preamble", PreambleSize) ELSE buffer
               /\ waits' = waits
  <1>1. Idle(buffer) = Resting(pending, buffer, waits)
    BY DEF Idle, Resting
  <1>2. CASE pending = <<>>
    <2>1. Becomes(Resting(<<>>, buffer, waits))
      BY <1>1, <1>2, ServeNone
    <2>2. pending # <<PreambleRead>>
      BY <1>2
    <2> QED BY <1>2, <2>1, <2>2, WorkingBecomes, RestingBecomes
  <1>3. CASE pending = <<PreambleRead>>
    <2> DEFINE p == Working(PreambleRead, <<>>, Allocated("preamble", PreambleSize), waits)
    <2>1. Read(Resting(<<>>, buffer, waits), PreambleRead) = p
      BY ReadPreambleIdle
    <2>2. Becomes(p)
      BY <1>1, <1>3, <2>1, ServeOne
    <2> QED BY <1>3, <2>2, WorkingBecomes, RestingBecomes
  <1> QED BY <1>2, <1>3

------------------------------------------------------------------------------
(* The reader alone, whatever the peer sends and however it arrives.        *)

PeerInv ==
    /\ greeting \in {"hello", "junk"}
    /\ sent \in Seq(Requests) /\ Len(sent) <= MaxRequests
    /\ outbox \in Seq(UnitSet)
    /\ net \in Seq(UnitSet)

\* What may be on the socket.
FlightInv ==
    /\ inflight.type \in {"none", "hello", "preamble", "binary"}
    /\ inflight.type = "none" <=> inflight = NoRead
    /\ inflight.type = "hello" => inflight = HelloRead
    /\ inflight.type = "preamble" => inflight = PreambleRead
    /\ inflight.type = "binary" =>
          /\ inflight.msg \in Readable /\ inflight.msg.cmd \in LoadsBody
          /\ inflight.size = inflight.msg.size

\* The buffer is allocated for the read on the socket, and behind that read is what
\* handle_message has asked for.
QueueInv ==
    inflight # NoRead =>
        /\ buffer = [type |-> inflight.type, size |-> inflight.size, data |-> buffer.data]
        /\ pending = <<>> \/ (inflight.type = "binary" /\ pending = <<PreambleRead>>)
        /\ open /\ inflight.type = "binary" => pending = <<PreambleRead>>

ReaderInv ==
    /\ open \in BOOLEAN
    /\ result \in {"none", "ok", "failed"}
    /\ PeerInv
    /\ FlightInv
    /\ QueueInv
    /\ open => inflight # NoRead
    /\ result # "none" => inflight # NoRead

LEMMA ReadableTyped == Readable \subseteq [cmd : Commands, size : Nat]
  BY ReadAssumption DEF Readable, Truncated, Unregistered, Commands

LEMMA PreambleReadable ==
    ASSUME PeerInv, NEW data, NEW r \in Preamble(data)
    PROVE  r \in Readable
  <1>1. \A n \in 1..Len(sent) : sent[n] \in Requests
    BY DEF PeerInv
  <1>2. CASE \E n \in 1..Len(sent) : r = sent[n]
    BY <1>1, <1>2 DEF Readable
  <1>3. CASE ShortReads /\ \E n \in 1..Len(sent) : r = Truncated(sent[n])
    BY <1>1, <1>3 DEF Readable
  <1>4. CASE ShortReads /\ r = Unregistered
    BY <1>4 DEF Readable
  <1>5. CASE r \in Requests
    BY <1>5 DEF Readable
  <1> QED BY <1>2, <1>3, <1>4, <1>5 DEF Preamble

\* The kinds of reads are told apart by their types.
LEMMA ReadTypes ==
    /\ NoRead.type = "none"
    /\ HelloRead.type = "hello" /\ HelloRead.size = HelloSize
    /\ PreambleRead.type = "preamble" /\ PreambleRead.size = PreambleSize
    /\ \A no, r : /\ BodyRead(no, r).type = "binary" /\ BodyRead(no, r).size = r.size
                  /\ BodyRead(no, r).msg = r /\ BodyRead(no, r).no = no
  BY DEF NoRead, HelloRead, PreambleRead, BodyRead

\* The parts of a message are sequences of units.
LEMMA UnitsTyped ==
    ASSUME NEW no \in 0..MaxRequests, NEW part \in {"hello", "junk", "preamble", "body"},
           NEW n \in Nat
    PROVE  /\ Units(no, part, n) \in Seq(UnitSet)
           /\ Len(Units(no, part, n)) = n
           /\ \A i \in 1..n : Units(no, part, n)[i] = Unit(no, part, i)
  <1>1. \A i \in 1..n : Unit(no, part, i) \in UnitSet
    BY DEF Unit, UnitSet
  <1>2. Units(no, part, n) \in [1..n -> UnitSet]
    BY <1>1 DEF Units
  <1>3. Units(no, part, n) \in Seq(UnitSet)
    BY <1>2
  <1> QED BY <1>2, <1>3 DEF Units

\* ReaderInv holds once start has asked for the HELLO.
LEMMA ReaderInit == Init => ReaderInv
  <1> SUFFICES ASSUME Init PROVE ReaderInv
    OBVIOUS
  <1>1. PeerInv
    <2>1. 0 \in 0..MaxRequests /\ HelloSize \in Nat
      BY ReadAssumption DEF HelloSize
    <2>2. Units(0, greeting, HelloSize) \in Seq(UnitSet)
      BY <2>1, UnitsTyped DEF Init
    <2> QED BY <2>2, ReadAssumption DEF Init, PeerInv
  <1>2. FlightInv
    BY ReadTypes DEF Init, FlightInv
  <1>3. QueueInv
    BY ReadTypes DEF Init, QueueInv, Allocated
  <1> QED BY <1>1, <1>2, <1>3, ReadTypes DEF Init, ReaderInv

\* The peer's stream stays one whatever the actions do with it.
LEMMA PeerStep ==
    ASSUME PeerInv, FlightInv, [Next]_vars
    PROVE  PeerInv'
  <1>1. ASSUME NEW r \in Requests, SendRequest(r) PROVE PeerInv'
    <2> DEFINE m == Len(sent) + 1
    <2>1. m \in 0..MaxRequests /\ r.size \in Nat /\ PreambleSize \in Nat
      BY <1>1, ReadAssumption DEF SendRequest, PeerInv, PreambleSize
    <2>2. /\ Units(m, "preamble", PreambleSize) \in Seq(UnitSet)
          /\ Units(m, "body", r.size) \in Seq(UnitSet)
      BY <2>1, UnitsTyped
    <2> HIDE DEF m
    <2>3. outbox' \in Seq(UnitSet)
      BY <1>1, <2>2 DEF SendRequest, PeerInv, m
    <2>4. sent' \in Seq(Requests) /\ Len(sent') = Len(sent) + 1
      BY <1>1 DEF SendRequest, PeerInv
    <2> QED BY <1>1, <2>3, <2>4, ReadAssumption DEF SendRequest, PeerInv
  <1>2. CASE Arrive
    <2>1. Head(outbox) \in UnitSet /\ Tail(outbox) \in Seq(UnitSet)
      BY <1>2, HeadTailProperties DEF Arrive, PeerInv
    <2>2. net' \in Seq(UnitSet)
      BY <1>2, <2>1 DEF Arrive, PeerInv
    <2> QED BY <1>2, <2>1, <2>2 DEF Arrive, PeerInv
  <1>3. ASSUME NEW k \in 0..inflight.size, Receive(k) PROVE PeerInv'
    <2>1. inflight.size \in Nat
      BY ReadTypes, ReadableTyped DEF FlightInv, NoRead, HelloSize, PreambleSize
    <2>2. k \in Nat
      BY <2>1
    <2>3. SubSeq(net, k + 1, Len(net)) \in Seq(UnitSet)
      BY <1>3, <2>2, SubSeqProperties DEF PeerInv
    <2> QED BY <1>3, <2>3 DEF Receive, PeerInv, peer
  <1>4. CASE UNCHANGED <<peer, net>>
    BY <1>4 DEF PeerInv, peer
  <1>5. ASSUME [Next]_vars, ~ \E r \in Requests : SendRequest(r), ~Arrive,
               ~ \E k \in 0..inflight.size : Receive(k)
        PROVE  UNCHANGED <<peer, net>>
    BY <1>5 DEF Next, vars, Fail, HandleHello, HandlePreamble, HandleBody, HandleReadFailed,
                HandleTimeout, CloseByWriter
  <1> QED BY <1>1, <1>2, <1>3, <1>4, <1>5

\* What the socket puts into the buffer.
LEMMA BufferFilled ==
    ASSUME NEW t, NEW z, NEW d, NEW b, NEW x, b = [type |-> t, size |-> z, data |-> d]
    PROVE  /\ [b EXCEPT !.data = x] = [type |-> t, size |-> z, data |-> x]
           /\ [b EXCEPT !.data = x].data = x
  OBVIOUS

\* Every step of the peer, the socket, the handlers and the timer keeps ReaderInv.
LEMMA ReaderStep ==
    ASSUME ReaderInv, [Next]_vars
    PROVE  ReaderInv'
  <1>0. PeerInv'
    BY PeerStep DEF ReaderInv
  <1>1. CASE UNCHANGED <<open, reader, result>>
    BY <1>0, <1>1 DEF ReaderInv, FlightInv, QueueInv, reader
  <1>2. ASSUME NEW k \in 0..inflight.size, Receive(k) PROVE ReaderInv'
    <2>1. buffer' = [type |-> inflight.type, size |-> inflight.size, data |-> buffer'.data]
      <3> DEFINE x == SubSeq(net, 1, k)
      <3>1. /\ buffer' = [buffer EXCEPT !.data = x]
            /\ buffer = [type |-> inflight.type, size |-> inflight.size, data |-> buffer.data]
        BY <1>2 DEF Receive, ReaderInv, QueueInv
      <3> HIDE DEF x
      <3>2. /\ buffer' = [type |-> inflight.type, size |-> inflight.size, data |-> x]
            /\ buffer'.data = x
        BY <3>1, BufferFilled
      <3> QED BY <3>2
    <2>2. QueueInv'
      BY <1>2, <2>1 DEF Receive, ReaderInv, QueueInv
    <2> QED BY <1>0, <1>2, <2>2 DEF Receive, ReaderInv, FlightInv
  <1>3. CASE Fail
    BY <1>0, <1>3 DEF Fail, ReaderInv, FlightInv, QueueInv, reader
  <1>4. CASE HandleHello
    <2>1. pending = <<>> /\ open \in BOOLEAN
      BY <1>4, ReadTypes DEF HandleHello, ReaderInv, QueueInv, FlightInv
    <2> DEFINE go == open /\ ValidHello(buffer.data)
    <2>2. /\ result' = "none" /\ open' = go
          /\ inflight' = IF go THEN PreambleRead ELSE NoRead
          /\ pending' = <<>>
          /\ buffer' = IF go THEN Allocated("preamble", PreambleSize) ELSE Deallocated(buffer)
      BY <1>4, <2>1, HelloEffect
    <2> HIDE DEF go
    <2>3. CASE go
      BY <1>0, <2>2, <2>3, ReadTypes DEF ReaderInv, FlightInv, QueueInv, Allocated
    <2>4. CASE ~go
      <3>1. open' = FALSE
        BY <2>2, <2>4 DEF go
      <3> QED BY <1>0, <2>2, <2>4, <3>1, ReadTypes DEF ReaderInv, FlightInv, QueueInv
    <2> QED BY <2>3, <2>4
  <1>5. CASE HandlePreamble
    <2>1. pending = <<>> /\ open \in BOOLEAN
      BY <1>5, ReadTypes DEF HandlePreamble, ReaderInv, QueueInv, FlightInv
    <2>2. PICK r \in Preamble(buffer.data) : Becomes(ServeQueue(AfterPreamble(r)))
      BY <1>5 DEF HandlePreamble
    <2>3. r \in Readable
      BY <2>2, PreambleReadable DEF ReaderInv
    <2>4. result' = "none" /\ open' = open
      BY <1>5 DEF HandlePreamble
    <2>5. CASE r.cmd \in LoadsBody
      <3> DEFINE no == Len(handled) + 1
      <3>1. /\ inflight' = BodyRead(no, r)
            /\ pending' = IF open THEN <<PreambleRead>> ELSE <<>>
            /\ buffer' = Allocated("binary", r.size)
        BY <2>1, <2>2, <2>5, PreambleEffect
      <3> HIDE DEF no
      <3>2. /\ inflight'.type = "binary" /\ inflight'.size = r.size /\ inflight'.msg = r
            /\ inflight' # NoRead
        BY <3>1, ReadTypes
      <3>3. FlightInv'
        BY <2>3, <2>5, <3>2 DEF FlightInv
      <3>4. QueueInv'
        BY <2>4, <3>1, <3>2 DEF QueueInv, Allocated
      <3> QED BY <1>0, <2>1, <2>4, <3>2, <3>3, <3>4 DEF ReaderInv
    <2>6. CASE r.cmd \notin LoadsBody
      <3>1. /\ inflight' = IF open THEN PreambleRead ELSE NoRead
            /\ pending' = <<>>
            /\ buffer' = IF open THEN Allocated("preamble", PreambleSize)
                                 ELSE Deallocated(buffer)
        BY <2>1, <2>2, <2>6, PreambleEffect
      <3> QED BY <1>0, <2>1, <2>4, <3>1, ReadTypes DEF ReaderInv, FlightInv, QueueInv, Allocated
    <2> QED BY <2>5, <2>6
  <1>6. CASE HandleBody
    <2>1. inflight # NoRead /\ pending \in {<<>>, <<PreambleRead>>}
      BY <1>6, ReadTypes DEF HandleBody, ReaderInv, QueueInv, FlightInv
    <2>2. open => pending = <<PreambleRead>>
      BY <1>6, <2>1 DEF HandleBody, ReaderInv, QueueInv
    <2> DEFINE more == pending = <<PreambleRead>>
    <2>3. /\ inflight' = IF more THEN PreambleRead ELSE NoRead
          /\ pending' = <<>>
          /\ buffer' = IF more THEN Allocated("preamble", PreambleSize) ELSE buffer
      BY <1>6, <2>1, BodyEffect DEF HandleBody
    <2>4. result' = "none" /\ open' = open
      BY <1>6 DEF HandleBody
    <2>5. open => more
      BY <2>2
    <2> HIDE DEF more
    <2> QED BY <1>0, <2>3, <2>4, <2>5, ReadTypes
            DEF ReaderInv, FlightInv, QueueInv, Allocated
  <1>7. CASE HandleReadFailed
    BY <1>0, <1>7, ReadTypes DEF HandleReadFailed, ReaderInv, FlightInv, QueueInv
  <1>8. ASSUME NEW op \in waits, HandleTimeout(op) PROVE ReaderInv'
    BY <1>0, <1>8 DEF HandleTimeout, ReaderInv, FlightInv, QueueInv
  <1>9. CASE CloseByWriter
    BY <1>0, <1>9 DEF CloseByWriter, ReaderInv, FlightInv, QueueInv, reader
  <1>10. ASSUME NEW r \in Requests, SendRequest(r) PROVE UNCHANGED <<open, reader, result>>
    BY <1>10 DEF SendRequest
  <1>11. CASE Arrive
    BY <1>1, <1>11 DEF Arrive
  <1>12. CASE UNCHANGED vars
    BY <1>1, <1>12 DEF vars
  <1> QED BY <1>1, <1>2, <1>3, <1>4, <1>5, <1>6, <1>7, <1>8, <1>9, <1>10, <1>11, <1>12 DEF Next

\* The reader keeps its invariant, whatever the peer sends.
LEMMA ReaderInvariant == Spec => []ReaderInv
  BY ReaderInit, ReaderStep, PTL DEF Spec

\* An open connection always has a read on the socket, and behind a body exactly the
\* next preamble, also when the stream is out of step and reads are short: the
\* handlers of connection.cpp keep one read going whatever they are given.
THEOREM AlwaysAwaitsNext == Spec => []NextPreambleAwaited
  <1>1. ReaderInv => NextPreambleAwaited
    BY DEF ReaderInv, QueueInv, NextPreambleAwaited
  <1> QED BY <1>1, ReaderInvariant, PTL

\* Every GET and SET is read with a body: a client of the protocol sends one, and no
\* short read cuts the size off the preamble.  Without it the buffer has no value and
\* an assert of get_binary fails.
BodiesNotEmpty == \A r \in Readable : r.cmd \in LoadsBody => r.size > 0

\* The one buffer belongs to the read that is about to be handled: no handler of the
\* three reallocates or frees it under another's read.
THEOREM BufferIsOwned == BodiesNotEmpty => (Spec => []BufferOwned)
  <1> SUFFICES ASSUME BodiesNotEmpty PROVE Spec => []BufferOwned
    OBVIOUS
  <1>1. ReaderInv => BufferOwned
    <2> SUFFICES ASSUME ReaderInv, result = "ok" PROVE Holds(buffer, inflight.type)
      BY DEF BufferOwned
    <2>1. /\ inflight # NoRead
          /\ buffer = [type |-> inflight.type, size |-> inflight.size, data |-> buffer.data]
      BY DEF ReaderInv, QueueInv
    <2>2. buffer.type = inflight.type /\ buffer.size = inflight.size
      BY <2>1
    <2>3. inflight.size # 0
      BY <2>1, ReadTypes, ReadableTyped, ReadAssumption
         DEF ReaderInv, FlightInv, BodiesNotEmpty, HelloSize, PreambleSize
    <2> QED BY <2>2, <2>3 DEF Holds, HasValue
  <1> QED BY <1>1, ReaderInvariant, PTL

------------------------------------------------------------------------------
(* The peer's stream as the reader sees it: what has arrived, and behind it  *)
(* what is under way.                                                       *)

Stream == net \o outbox

\* Streams may be put together in any order.
LEMMA UnitsAssociative ==
    \A s, t, u \in Seq(UnitSet) : s \o (t \o u) = (s \o t) \o u
  BY ConcatAssociative, SMTT(30)

\* The network does not change the stream.
LEMMA StreamArrive ==
    ASSUME PeerInv, Arrive
    PROVE  Stream' = Stream
  <1>1. /\ Head(outbox) \in UnitSet /\ Tail(outbox) \in Seq(UnitSet)
        /\ net \in Seq(UnitSet) /\ outbox \in Seq(UnitSet)
        /\ outbox = <<Head(outbox)>> \o Tail(outbox)
    BY HeadTailProperties DEF Arrive, PeerInv
  <1> DEFINE h == Head(outbox)
             t == Tail(outbox)
  <1>2. Stream' = Append(net, h) \o t
    BY DEF Arrive, Stream
  <1>3. Stream = net \o (<<h>> \o t)
    BY <1>1 DEF Stream
  <1> HIDE DEF h, t
  <1>4. Append(net, h) = net \o <<h>> /\ <<h>> \in Seq(UnitSet)
    BY <1>1, AppendIsConcat DEF h
  <1>5. (net \o <<h>>) \o t = net \o (<<h>> \o t)
    BY <1>1, <1>4, UnitsAssociative DEF t
  <1> QED BY <1>2, <1>3, <1>4, <1>5

\* A request goes to its end.
LEMMA StreamSend ==
    ASSUME PeerInv, NEW r \in Requests, SendRequest(r)
    PROVE  LET m == Len(sent) + 1
               n == Len(Stream)
           IN  /\ Stream \in Seq(UnitSet) /\ Stream' \in Seq(UnitSet)
               /\ Len(Stream') = n + PreambleSize + r.size
               /\ \A i \in 1..n : Stream'[i] = Stream[i]
               /\ \A i \in 1..PreambleSize : Stream'[n + i] = Unit(m, "preamble", i)
               /\ \A i \in 1..r.size :
                     Stream'[n + PreambleSize + i] = Unit(m, "body", i)
  <1> DEFINE m == Len(sent) + 1
             a == Units(m, "preamble", PreambleSize)
             b == Units(m, "body", r.size)
  <1>1. m \in 0..MaxRequests /\ r.size \in Nat /\ PreambleSize \in Nat
    BY ReadAssumption DEF SendRequest, PeerInv, PreambleSize
  <1>2. /\ a \in Seq(UnitSet) /\ Len(a) = PreambleSize
        /\ \A i \in 1..PreambleSize : a[i] = Unit(m, "preamble", i)
    BY <1>1, UnitsTyped
  <1>3. /\ b \in Seq(UnitSet) /\ Len(b) = r.size
        /\ \A i \in 1..r.size : b[i] = Unit(m, "body", i)
    BY <1>1, UnitsTyped
  <1>4. Stream' = net \o ((outbox \o a) \o b)
    BY DEF SendRequest, Stream
  <1>5. net \in Seq(UnitSet) /\ outbox \in Seq(UnitSet)
    BY DEF PeerInv
  <1> HIDE DEF a, b, m
  <1>6. Stream' = (Stream \o a) \o b
    <2>1. net \o ((outbox \o a) \o b) = (net \o (outbox \o a)) \o b
      <3> DEFINE c == outbox \o a
      <3>1. c \in Seq(UnitSet)
        BY <1>2, <1>5
      <3>2. b \in Seq(UnitSet)
        BY <1>3
      <3> HIDE DEF c
      <3>3. net \o (c \o b) = (net \o c) \o b
        BY <1>5, <3>1, <3>2, UnitsAssociative
      <3> QED BY <3>3 DEF c
    <2>2. net \o (outbox \o a) = (net \o outbox) \o a
      BY <1>2, <1>5, UnitsAssociative
    <2> QED BY <1>4, <2>1, <2>2 DEF Stream
  <1>7. Stream \in Seq(UnitSet)
    BY <1>5 DEF Stream
  <1> DEFINE n == Len(Stream)
             sa == Stream \o a
  <1>8. /\ sa \in Seq(UnitSet) /\ Len(sa) = n + PreambleSize
        /\ \A i \in 1..n : sa[i] = Stream[i]
        /\ \A i \in 1..PreambleSize : sa[n + i] = a[i]
    BY <1>1, <1>2, <1>7, SMTT(30)
  <1> HIDE DEF sa
  <1>9. /\ sa \o b \in Seq(UnitSet) /\ Len(sa \o b) = n + PreambleSize + r.size
        /\ \A i \in 1..(n + PreambleSize) : (sa \o b)[i] = sa[i]
        /\ \A i \in 1..r.size : (sa \o b)[n + PreambleSize + i] = b[i]
    BY <1>1, <1>3, <1>7, <1>8, SMTT(30)
  <1>10. Stream' = sa \o b
    BY <1>6 DEF sa
  <1>11. \A i \in 1..n : Stream'[i] = Stream[i]
    BY <1>1, <1>7, <1>8, <1>9, <1>10
  <1>12. \A i \in 1..PreambleSize : Stream'[n + i] = Unit(m, "preamble", i)
    <2> SUFFICES ASSUME NEW i \in 1..PreambleSize PROVE Stream'[n + i] = Unit(m, "preamble", i)
      OBVIOUS
    <2>1. n + i \in 1..(n + PreambleSize)
      BY <1>1, <1>7
    <2>2. Stream'[n + i] = sa[n + i]
      BY <1>9, <1>10, <2>1
    <2> QED BY <1>2, <1>8, <2>2
  <1>13. \A i \in 1..r.size : Stream'[n + PreambleSize + i] = Unit(m, "body", i)
    BY <1>3, <1>9, <1>10
  <1> QED BY <1>7, <1>9, <1>10, <1>11, <1>12, <1>13 DEF m

\* A read takes its units from the front.
LEMMA StreamReceive ==
    ASSUME PeerInv, NEW k \in Nat, Receive(k),
           NEW t, NEW z, NEW d, buffer = [type |-> t, size |-> z, data |-> d]
    PROVE  /\ Stream \in Seq(UnitSet) /\ Stream' \in Seq(UnitSet)
           /\ k <= Len(Stream)
           /\ Len(Stream') = Len(Stream) - k
           /\ \A i \in 1..(Len(Stream) - k) : Stream'[i] = Stream[i + k]
           /\ buffer'.data \in Seq(UnitSet) /\ Len(buffer'.data) = k
           /\ \A i \in 1..k : buffer'.data[i] = Stream[i]
  <1> DEFINE x == SubSeq(net, 1, k)
             y == SubSeq(net, k + 1, Len(net))
  <1>1. net \in Seq(UnitSet) /\ outbox \in Seq(UnitSet) /\ k <= Len(net)
    BY DEF PeerInv, Receive
  <1>2. /\ x \in Seq(UnitSet) /\ Len(x) = k
        /\ \A i \in 1..k : x[i] = net[i]
    BY <1>1, SubSeqProperties
  <1>3. /\ y \in Seq(UnitSet) /\ Len(y) = Len(net) - k
        /\ \A i \in 1..(Len(net) - k) : y[i] = net[i + k]
    BY <1>1, SubSeqProperties
  <1>4. buffer' = [buffer EXCEPT !.data = x] /\ net' = y /\ outbox' = outbox
    BY DEF Receive, peer
  <1> HIDE DEF x, y
  <1>5. buffer'.data = x
    <2>1. [buffer EXCEPT !.data = x].data = x
      BY BufferFilled
    <2> QED BY <1>4, <2>1
  <1>6. Stream' = y \o outbox
    BY <1>4 DEF Stream
  <1>7. /\ Stream \in Seq(UnitSet) /\ Len(Stream) = Len(net) + Len(outbox)
        /\ \A i \in 1..Len(Stream) :
              Stream[i] = IF i <= Len(net) THEN net[i] ELSE outbox[i - Len(net)]
    BY <1>1 DEF Stream
  <1>8. /\ Stream' \in Seq(UnitSet) /\ Len(Stream') = Len(y) + Len(outbox)
        /\ \A i \in 1..(Len(y) + Len(outbox)) :
              Stream'[i] = IF i <= Len(y) THEN y[i] ELSE outbox[i - Len(y)]
    <2>1. y \in Seq(UnitSet) /\ outbox \in Seq(UnitSet)
      BY <1>1, <1>3
    <2> QED BY <1>6, <2>1, ConcatProperties
  <1>9. \A i \in 1..(Len(Stream) - k) : Stream'[i] = Stream[i + k]
    <2> SUFFICES ASSUME NEW i \in 1..(Len(Stream) - k) PROVE Stream'[i] = Stream[i + k]
      OBVIOUS
    <2>1. Len(net) \in Nat /\ Len(outbox) \in Nat /\ Len(net) - k \in Nat
      BY <1>1
    <2>2. CASE i <= Len(net) - k
      BY <1>3, <1>7, <1>8, <2>1, <2>2
    <2>3. CASE i > Len(net) - k
      <3>1. Stream'[i] = outbox[i - Len(y)] /\ Len(y) = Len(net) - k
        BY <1>3, <1>7, <1>8, <2>1, <2>3
      <3>2. Stream[i + k] = outbox[(i + k) - Len(net)]
        BY <1>7, <2>1, <2>3
      <3> QED BY <2>1, <3>1, <3>2
    <2> QED BY <2>1, <2>2, <2>3
  <1>10. k <= Len(Stream) /\ Len(Stream') = Len(Stream) - k
    BY <1>1, <1>3, <1>7, <1>8
  <1>11. \A i \in 1..k : buffer'.data[i] = Stream[i]
    BY <1>1, <1>2, <1>5, <1>7, SMTT(30)
  <1> QED BY <1>2, <1>5, <1>7, <1>8, <1>9, <1>10, <1>11

------------------------------------------------------------------------------
(* A peer with a wrong greeting.                                            *)

JunkInv ==
    greeting = "junk" =>
        /\ handled = <<>>
        /\ inflight.type \in {"hello", "none"}
        /\ inflight.type = "hello" /\ result = "none" =>
              Len(Stream) > 0 /\ Stream[1] = Unit(0, "junk", 1)
        /\ inflight.type = "hello" /\ result = "ok" => ~ValidHello(buffer.data)

\* JunkInv holds before anything is read.
LEMMA JunkInit == Init => JunkInv
  <1> SUFFICES ASSUME Init, greeting = "junk" PROVE JunkInv
    BY DEF JunkInv
  <1> DEFINE u == Units(0, "junk", HelloSize)
  <1>1. 0 \in 0..MaxRequests /\ HelloSize \in Nat /\ HelloSize = 2
    BY ReadAssumption DEF HelloSize
  <1>2. u \in Seq(UnitSet) /\ Len(u) = HelloSize
    BY <1>1, UnitsTyped, ZenonT(60)
  <1>3. u[1] = Unit(0, "junk", 1)
    BY DEF Units, HelloSize
  <1>4. Stream = <<>> \o u
    BY DEF Init, Stream
  <1> HIDE DEF u
  <1>5. Len(Stream) > 0 /\ Stream[1] = Unit(0, "junk", 1)
    <2>1. <<>> \o u = u
      BY <1>2, ConcatEmptySeq
    <2>2. Stream = u
      BY <1>4, <2>1
    <2> QED BY <1>1, <1>2, <1>3, <2>2
  <1> QED BY <1>5, ReadTypes DEF Init, JunkInv

\* Every step keeps JunkInv: received_hello closes on a wrong HELLO.
LEMMA JunkStep ==
    ASSUME ReaderInv, JunkInv, [Next]_vars
    PROVE  JunkInv'
  <1> SUFFICES ASSUME greeting' = "junk" PROVE JunkInv'
    BY DEF JunkInv
  <1> DEFINE u == Unit(0, "junk", 1)
  <1>0. greeting = "junk"
    BY DEF Next, vars, peer, SendRequest, Arrive, Receive, Fail, HandleHello, HandlePreamble,
           HandleBody, HandleReadFailed, HandleTimeout, CloseByWriter
  <1>1. /\ handled = <<>>
        /\ inflight.type \in {"hello", "none"}
        /\ inflight.type = "hello" /\ result = "none" => Len(Stream) > 0 /\ Stream[1] = u
        /\ inflight.type = "hello" /\ result = "ok" => ~ValidHello(buffer.data)
    BY <1>0 DEF JunkInv
  <1> HIDE DEF u
  <1>2. ASSUME NEW r \in Requests, SendRequest(r) PROVE JunkInv'
    <2>1. Stream \in Seq(UnitSet) /\ Len(Stream') = Len(Stream) + PreambleSize + r.size
      BY <1>2, StreamSend DEF ReaderInv
    <2>2. \A i \in 1..Len(Stream) : Stream'[i] = Stream[i]
      BY <1>2, StreamSend DEF ReaderInv
    <2>3. r.size \in Nat /\ PreambleSize \in Nat /\ Len(Stream) \in Nat
      BY <2>1, ReadAssumption DEF PreambleSize
    <2>4. Len(Stream) > 0 /\ Stream[1] = u => Len(Stream') > 0 /\ Stream'[1] = u
      BY <2>1, <2>2, <2>3
    <2>5. UNCHANGED <<handled, inflight, result, buffer>>
      BY <1>2 DEF SendRequest, reader
    <2> QED BY <1>1, <2>4, <2>5 DEF JunkInv, u, ValidHello
  <1>3. CASE Arrive
    <2>1. Stream' = Stream
      BY <1>3, StreamArrive DEF ReaderInv
    <2>2. UNCHANGED <<handled, inflight, result, buffer>>
      BY <1>3 DEF Arrive, reader
    <2> QED BY <1>1, <2>1, <2>2 DEF JunkInv, u, ValidHello
  <1>4. ASSUME NEW k \in 0..inflight.size, Receive(k) PROVE JunkInv'
    <2>1. inflight = HelloRead /\ inflight.type = "hello" /\ result = "none"
      BY <1>1, <1>4, ReadTypes DEF Receive, ReaderInv, FlightInv
    <2>2. inflight.size = 2 /\ k \in Nat /\ k > 0
      BY <1>4, <2>1, ReadTypes DEF Receive, HelloSize
    <2>3. buffer = [type |-> inflight.type, size |-> inflight.size, data |-> buffer.data]
      BY <1>4 DEF Receive, ReaderInv, QueueInv
    <2>4. \A i \in 1..k : buffer'.data[i] = Stream[i]
      BY <1>4, <2>2, <2>3, StreamReceive DEF ReaderInv
    <2>5. buffer'.data[1] = u
      BY <1>1, <2>1, <2>2, <2>4
    <2>6. Units(0, "hello", HelloSize)[1] = Unit(0, "hello", 1)
      BY DEF Units, HelloSize
    <2>7. u # Unit(0, "hello", 1)
      BY DEF u, Unit
    <2>8. ~ValidHello(buffer.data)'
      BY <2>5, <2>6, <2>7 DEF ValidHello, HelloSize
    <2>9. UNCHANGED <<handled, inflight>> /\ result' = "ok"
      BY <1>4 DEF Receive
    <2> QED BY <1>1, <2>8, <2>9 DEF JunkInv
  <1>5. CASE HandleHello
    <2>1. pending = <<>> /\ open \in BOOLEAN
      BY <1>5, ReadTypes DEF HandleHello, ReaderInv, QueueInv, FlightInv
    <2>2. ~ValidHello(buffer.data)
      BY <1>1, <1>5, ReadTypes DEF HandleHello
    <2>3. inflight' = NoRead /\ handled' = handled
      BY <1>5, <2>1, <2>2, HelloEffect
    <2> QED BY <1>1, <2>3, ReadTypes DEF JunkInv
  <1>6. CASE HandlePreamble
    BY <1>1, <1>6, ReadTypes DEF HandlePreamble
  <1>7. CASE HandleBody
    BY <1>1, <1>7 DEF HandleBody
  <1>8. CASE HandleReadFailed
    BY <1>1, <1>8, ReadTypes DEF HandleReadFailed, JunkInv
  <1>9. CASE Fail
    BY <1>1, <1>9 DEF Fail, JunkInv, reader
  <1>10. ASSUME UNCHANGED <<handled, inflight, result, buffer, net, outbox>>
         PROVE  JunkInv'
    <2>1. Stream' = Stream
      BY <1>10 DEF Stream
    <2> QED BY <1>1, <1>10, <2>1 DEF JunkInv, u, ValidHello
  <1>11. CASE CloseByWriter
    BY <1>10, <1>11 DEF CloseByWriter, reader, peer
  <1>12. ASSUME NEW op \in waits, HandleTimeout(op) PROVE JunkInv'
    BY <1>10, <1>12 DEF HandleTimeout, peer
  <1>13. CASE UNCHANGED vars
    BY <1>10, <1>13 DEF vars, reader, peer
  <1> QED BY <1>2, <1>3, <1>4, <1>5, <1>6, <1>7, <1>8, <1>9, <1>11, <1>12, <1>13 DEF Next

\* A peer that did not say HELLO is never served, for any requests behind the wrong
\* greeting and with reads of any length: received_hello closes the connection and
\* starts no read, and nothing else ever does.
THEOREM UngreetedNeverServed == Spec => []NotServedUngreeted
  <1>1. ReaderInv /\ JunkInv => NotServedUngreeted
    BY DEF ReaderInv, PeerInv, JunkInv, NotServedUngreeted
  <1>2. Spec => []JunkInv
    BY JunkInit, JunkStep, ReaderInvariant, PTL DEF Spec
  <1> QED BY <1>1, <1>2, ReaderInvariant, PTL

------------------------------------------------------------------------------
(* A reader that is in step with the stream.  start[k] is how far in front   *)
(* of the units of request k the reader is: the units start[k] + 1 ... of    *)
(* the stream are the preamble of request k and then its body, as far as     *)
(* they have not been read (start[k] is then negative), and start goes on    *)
(* to the end of the stream.                                                *)

Aligned(start) ==
    /\ start \in [1..Len(sent) + 1 -> Int]
    /\ start[Len(sent) + 1] = Len(Stream)
    /\ \A k \in 1..Len(sent) + 1 : start[k] <= Len(Stream)
    /\ \A k \in 1..Len(sent) : start[k + 1] = start[k] + PreambleSize + sent[k].size
    /\ \A k \in 1..Len(sent) : \A i \in 1..PreambleSize :
          start[k] + i > 0 => Stream[start[k] + i] = Unit(k, "preamble", i)
    /\ \A k \in 1..Len(sent) : \A i \in 1..sent[k].size :
          start[k] + PreambleSize + i > 0 =>
              Stream[start[k] + PreambleSize + i] = Unit(k, "body", i)

\* The requests are dealt with one after the other, so the reader is at request n.
AtRead(start) ==
    LET n == Len(handled) + 1
    IN  /\ inflight.type = "hello" => handled = <<>>
        /\ inflight.type = "hello" /\ result = "none" => start[1] = HelloSize
        /\ inflight.type = "hello" /\ result = "ok" => start[1] = 0
        /\ inflight.type = "preamble" /\ result = "none" => start[n] = 0
        /\ inflight.type = "preamble" /\ result = "ok" =>
              /\ n <= Len(sent) /\ start[n] = -PreambleSize
              /\ buffer.data = Units(n, "preamble", PreambleSize)
        /\ inflight.type = "binary" => n <= Len(sent) /\ inflight = BodyRead(n, sent[n])
        /\ inflight.type = "binary" /\ result = "none" => start[n] = -PreambleSize
        /\ inflight.type = "binary" /\ result = "ok" =>
              /\ start[n + 1] = 0
              /\ buffer.data = Units(n, "body", sent[n].size)

HandledType == [cmd : Commands, body : Seq(UnitSet)]

InStepInv ==
    /\ handled \in Seq(HandledType)
    /\ HandledAsSent
    /\ \E start : Aligned(start) /\ AtRead(start)

\* The requests that a client of the protocol sends, on a network that fills the
\* reads: bodies are sent with the commands that have a handler for them, and only
\* with these.
Framed ==
    /\ ~ShortReads
    /\ \A r \in Requests : r.cmd \in LoadsBody <=> r.size > 0

\* The end of the stream is where the next request will be.
LEMMA AlignedSend ==
    ASSUME PeerInv, NEW r \in Requests, SendRequest(r), NEW start, Aligned(start)
    PROVE  \E s : Aligned(s)' /\ \A k \in 1..Len(sent) + 1 : s[k] = start[k]
  <1> DEFINE m == Len(sent) + 1
             n == Len(Stream)
  <1>0. PICK s : s = [k \in 1..m + 1 |-> IF k = m + 1 THEN Len(Stream') ELSE start[k]]
    OBVIOUS
  <1>1. /\ m \in Nat /\ m > 0 /\ sent' = Append(sent, r) /\ Len(sent') = m
        /\ sent \in Seq(Requests) /\ sent'[m] = r /\ r.size \in Nat
        /\ \A k \in 1..Len(sent) : sent'[k] = sent[k]
    BY ReadAssumption DEF SendRequest, PeerInv
  <1>2. /\ Stream \in Seq(UnitSet) /\ Len(Stream') = n + PreambleSize + r.size
        /\ \A i \in 1..n : Stream'[i] = Stream[i]
        /\ \A i \in 1..PreambleSize : Stream'[n + i] = Unit(m, "preamble", i)
        /\ \A i \in 1..r.size : Stream'[n + PreambleSize + i] = Unit(m, "body", i)
    BY StreamSend
  <1>3. PreambleSize \in Nat /\ n \in Nat
    BY <1>2 DEF PreambleSize
  <1>4. /\ start \in [1..m -> Int]
        /\ start[m] = n
        /\ \A k \in 1..m : start[k] <= n
    BY DEF Aligned
  <1>5. /\ s \in [1..m + 1 -> Int]
        /\ s[m + 1] = Len(Stream')
        /\ \A k \in 1..m : s[k] = start[k]
    BY <1>0, <1>1, <1>2, <1>3, <1>4
  <1> HIDE DEF m, n
  <1>6. \A k \in 1..m + 1 : s[k] <= Len(Stream')
    BY <1>1, <1>2, <1>3, <1>4, <1>5, SMTT(30)
  <1>7. \A k \in 1..m : s[k + 1] = s[k] + PreambleSize + sent'[k].size
    <2> SUFFICES ASSUME NEW k \in 1..m
                 PROVE  s[k + 1] = s[k] + PreambleSize + sent'[k].size
      OBVIOUS
    <2>1. CASE k = m
      BY <1>1, <1>2, <1>4, <1>5, <2>1
    <2>2. CASE k < m
      <3>1. k \in 1..Len(sent) /\ k + 1 \in 1..m
        BY <1>1, <2>2 DEF m
      <3>2. start[k + 1] = start[k] + PreambleSize + sent[k].size
        BY <3>1 DEF Aligned
      <3> QED BY <1>1, <1>5, <3>1, <3>2
    <2> QED BY <1>1, <2>1, <2>2
  <1>8. \A k \in 1..m : \A i \in 1..PreambleSize :
           s[k] + i > 0 => Stream'[s[k] + i] = Unit(k, "preamble", i)
    <2> SUFFICES ASSUME NEW k \in 1..m, NEW i \in 1..PreambleSize, s[k] + i > 0
                 PROVE  Stream'[s[k] + i] = Unit(k, "preamble", i)
      OBVIOUS
    <2>1. CASE k = m
      BY <1>2, <1>4, <1>5, <2>1
    <2>2. CASE k < m
      <3>1. k \in 1..Len(sent) /\ k + 1 \in 1..m
        BY <1>1, <2>2 DEF m
      <3>2. Stream[start[k] + i] = Unit(k, "preamble", i)
        BY <1>5, <3>1 DEF Aligned
      <3>3. start[k + 1] = start[k] + PreambleSize + sent[k].size
        BY <3>1 DEF Aligned
      <3>4. sent[k].size \in Nat /\ start[k + 1] <= n /\ start[k] \in Int
        BY <1>1, <1>4, <3>1, ReadAssumption
      <3>5. start[k] + i \in 1..n
        BY <1>3, <1>5, <3>3, <3>4, SMTT(30)
      <3> QED BY <1>2, <1>5, <3>2, <3>5
    <2> QED BY <1>1, <2>1, <2>2
  <1>9. \A k \in 1..m : \A i \in 1..sent'[k].size :
           s[k] + PreambleSize + i > 0 =>
               Stream'[s[k] + PreambleSize + i] = Unit(k, "body", i)
    <2> SUFFICES ASSUME NEW k \in 1..m, NEW i \in 1..sent'[k].size, s[k] + PreambleSize + i > 0
                 PROVE  Stream'[s[k] + PreambleSize + i] = Unit(k, "body", i)
      OBVIOUS
    <2>1. CASE k = m
      BY <1>1, <1>2, <1>4, <1>5, <2>1
    <2>2. CASE k < m
      <3>1. k \in 1..Len(sent) /\ k + 1 \in 1..m /\ i \in 1..sent[k].size
        BY <1>1, <2>2 DEF m
      <3>2. Stream[start[k] + PreambleSize + i] = Unit(k, "body", i)
        BY <1>5, <3>1 DEF Aligned
      <3>3. start[k + 1] = start[k] + PreambleSize + sent[k].size
        BY <3>1 DEF Aligned
      <3>4. sent[k].size \in Nat /\ start[k + 1] <= n /\ start[k] \in Int
        BY <1>1, <1>4, <3>1, ReadAssumption, SMTT(30)
      <3>5. start[k] + PreambleSize + i \in 1..n
        <4>1. s[k] = start[k]
          BY <1>5
        <4> DEFINE z == sent[k].size
                   t == start[k]
        <4>2. /\ z \in Nat /\ t \in Int /\ t + PreambleSize + z <= n
              /\ i \in 1..z /\ t + PreambleSize + i > 0
          BY <3>1, <3>3, <3>4, <4>1
        <4> HIDE DEF z, t
        <4>3. t + PreambleSize + i \in 1..n
          BY <1>3, <4>2
        <4> QED BY <4>3 DEF t
      <3> QED BY <1>2, <1>5, <3>2, <3>5
    <2> QED BY <1>1, <2>1, <2>2
  <1>10. Aligned(s)'
    BY <1>1, <1>5, <1>6, <1>7, <1>8, <1>9 DEF Aligned
  <1> QED BY <1>5, <1>10 DEF m

\* The units of a request are inside the stream.
LEMMA AlignedWithin ==
    ASSUME PeerInv, NEW start, Aligned(start), NEW k \in 1..Len(sent)
    PROVE  /\ k \in Nat /\ k + 1 \in 1..Len(sent) + 1 /\ Len(sent) \in Nat
           /\ start[k] \in Int /\ sent[k] \in Requests /\ sent[k].size \in Nat
           /\ start[k] + PreambleSize + sent[k].size <= Len(Stream)
  <1>1. sent \in Seq(Requests)
    BY DEF PeerInv
  <1>2. /\ k \in Nat /\ k \in 1..Len(sent) + 1 /\ k + 1 \in 1..Len(sent) + 1 /\ Len(sent) \in Nat
        /\ sent[k] \in Requests /\ sent[k].size \in Nat
    BY <1>1, ReadAssumption
  <1>3. start[k] \in Int
    BY <1>2 DEF Aligned
  <1>4. start[k + 1] = start[k] + PreambleSize + sent[k].size /\ start[k + 1] <= Len(Stream)
    BY <1>2 DEF Aligned
  <1> QED BY <1>2, <1>3, <1>4

\* A read takes the reader forward in the stream.
LEMMA AlignedReceive ==
    ASSUME PeerInv, NEW k \in Nat, Receive(k), NEW start, Aligned(start),
           buffer = [type |-> inflight.type, size |-> inflight.size, data |-> buffer.data]
    PROVE  \E s : Aligned(s)' /\ \A j \in 1..Len(sent) + 1 : s[j] = start[j] - k
  <1> DEFINE m == Len(sent) + 1
             n == Len(Stream)
  <1>0. PICK s : s = [j \in 1..m |-> start[j] - k]
    OBVIOUS
  <1>1. sent' = sent /\ Len(sent) \in Nat /\ m \in Nat /\ m > 0
    BY DEF Receive, peer, PeerInv
  <1>2. /\ Stream \in Seq(UnitSet) /\ k <= n /\ Len(Stream') = n - k
        /\ \A i \in 1..(n - k) : Stream'[i] = Stream[i + k]
    BY StreamReceive
  <1>3. PreambleSize \in Nat /\ n \in Nat /\ n - k \in Nat
    BY <1>2 DEF PreambleSize
  <1>4. /\ start \in [1..m -> Int]
        /\ start[m] = n
        /\ \A j \in 1..m : start[j] <= n
    BY DEF Aligned
  <1>5. /\ s \in [1..m -> Int]
        /\ \A j \in 1..m : s[j] = start[j] - k
    BY <1>0, <1>4
  <1>6. s[m] = Len(Stream') /\ \A j \in 1..m : s[j] <= Len(Stream')
    BY <1>1, <1>2, <1>3, <1>4, <1>5, SMTT(30)
  <1>7. \A j \in 1..Len(sent) : s[j + 1] = s[j] + PreambleSize + sent[j].size
    <2> SUFFICES ASSUME NEW j \in 1..Len(sent)
                 PROVE  s[j + 1] = s[j] + PreambleSize + sent[j].size
      OBVIOUS
    <2>1. /\ j \in 1..m /\ j + 1 \in 1..m /\ start[j] \in Int /\ sent[j].size \in Nat
      BY <1>1, AlignedWithin
    <2>2. start[j + 1] = start[j] + PreambleSize + sent[j].size
      BY DEF Aligned
    <2>3. s[j] = start[j] - k /\ s[j + 1] = start[j + 1] - k
      BY <1>5, <2>1
    <2> DEFINE z == sent[j].size
               t == start[j]
    <2>4. z \in Nat /\ t \in Int /\ s[j] = t - k /\ s[j + 1] = (t + PreambleSize + z) - k
      BY <2>1, <2>2, <2>3
    <2> HIDE DEF z, t
    <2>5. s[j + 1] = s[j] + PreambleSize + z
      BY <1>3, <2>4
    <2> QED BY <2>5 DEF z
  <1> HIDE DEF m, n
  <1>8. ASSUME NEW j \in 1..Len(sent), NEW i \in 1..PreambleSize, s[j] + i > 0
        PROVE  Stream'[s[j] + i] = Unit(j, "preamble", i)
    <2> DEFINE z == sent[j].size
               t == start[j]
               p == t + i
    <2>1. /\ j \in 1..m /\ t \in Int /\ z \in Nat
          /\ t + PreambleSize + z <= n
      BY <1>1, AlignedWithin DEF m, n
    <2>2. s[j] = t - k
      BY <1>5, <2>1
    <2>3. p > 0 => Stream[p] = Unit(j, "preamble", i)
      BY DEF Aligned
    <2> HIDE DEF z, t
    <2>4. t - k + i > 0
      BY <1>8, <2>2
    <2>5. /\ t - k + i \in 1..(n - k) /\ (t - k + i) + k = p /\ p > 0
      <3>1. i \in Int /\ i <= PreambleSize /\ k \in Int /\ k >= 0 /\ n \in Int
        BY <1>3
      <3>2. t - k + i \in Int /\ t - k + i <= n - k
        BY <1>3, <2>1, <3>1, SMTT(30)
      <3> QED BY <2>1, <2>4, <3>1, <3>2
    <2> HIDE DEF p
    <2> QED BY <1>2, <2>2, <2>3, <2>5
  <1>9. ASSUME NEW j \in 1..Len(sent), NEW i \in 1..sent[j].size, s[j] + PreambleSize + i > 0
        PROVE  Stream'[s[j] + PreambleSize + i] = Unit(j, "body", i)
    <2> DEFINE z == sent[j].size
               t == start[j]
               p == t + PreambleSize + i
    <2>1. /\ j \in 1..m /\ t \in Int /\ z \in Nat
          /\ t + PreambleSize + z <= n
      BY <1>1, AlignedWithin DEF m, n
    <2>2. s[j] = t - k /\ i \in 1..z
      BY <1>5, <2>1
    <2>3. p > 0 => Stream[p] = Unit(j, "body", i)
      BY DEF Aligned
    <2> HIDE DEF z, t
    <2>4. t - k + PreambleSize + i > 0
      BY <1>9, <2>2
    <2>5. /\ t - k + PreambleSize + i \in 1..(n - k)
          /\ (t - k + PreambleSize + i) + k = p /\ p > 0
      <3>1. i \in Int /\ i <= z /\ k \in Int /\ k >= 0 /\ n \in Int
        BY <1>3, <2>1, <2>2
      <3>2. t - k + PreambleSize + i \in Int /\ t - k + PreambleSize + i <= n - k
        BY <1>3, <2>1, <3>1, SMTT(30)
      <3>3. t - k + PreambleSize + i \in 1..(n - k)
        BY <1>3, <2>4, <3>1, <3>2
      <3>4. (t - k + PreambleSize + i) + k = p
        BY <1>3, <2>1, <3>1
      <3>5. p > 0
        BY <1>3, <2>1, <2>4, <3>1, SMTT(30)
      <3> QED BY <3>3, <3>4, <3>5
    <2> HIDE DEF p
    <2> QED BY <1>2, <2>2, <2>3, <2>5
  <1>10. Aligned(s)'
    BY <1>1, <1>5, <1>6, <1>7, <1>8, <1>9 DEF Aligned, m
  <1> QED BY <1>5, <1>10 DEF m

\* No other action changes the peer or the stream.
LEMMA AlignedSame ==
    ASSUME sent' = sent, Stream' = Stream, NEW start, Aligned(start)
    PROVE  Aligned(start)'
  BY DEF Aligned

\* At first the reader stands at the HELLO, and no request was sent.
LEMMA InStepInit == ASSUME Init PROVE InStepInv
  <1> DEFINE u == Units(0, greeting, HelloSize)
  <1>0. PICK start : start = [k \in 1..1 |-> HelloSize]
    OBVIOUS
  <1>1. u \in Seq(UnitSet) /\ Len(u) = HelloSize /\ HelloSize \in Nat
    <2>1. 0 \in 0..MaxRequests /\ HelloSize \in Nat
      BY ReadAssumption DEF HelloSize
    <2> QED BY <2>1, UnitsTyped DEF Init
  <1>2. Stream = <<>> \o u
    BY DEF Init, Stream
  <1> HIDE DEF u
  <1>3. Stream = u
    BY <1>1, <1>2, ConcatEmptySeq
  <1>4. Len(Stream) = HelloSize
    BY <1>1, <1>3
  <1>5. sent = <<>> /\ Len(sent) = 0 /\ handled = <<>> /\ Len(handled) = 0
    BY DEF Init
  <1>6. Aligned(start)
    BY <1>0, <1>1, <1>4, <1>5 DEF Aligned
  <1>7. inflight.type = "hello" /\ result = "none"
    BY ReadTypes DEF Init
  <1>8. start[1] = HelloSize
    BY <1>0
  <1>9. AtRead(start)
    BY <1>5, <1>7, <1>8 DEF AtRead
  <1>10. HandledAsSent
    BY <1>5 DEF HandledAsSent
  <1> QED BY <1>5, <1>6, <1>9, <1>10 DEF InStepInv

\* Where the reader is, is a place of the stream.
LEMMA ReaderAt ==
    ASSUME PeerInv, InStepInv
    PROVE  LET n == Len(handled) + 1
           IN  /\ Len(handled) \in Nat /\ Len(sent) \in Nat
               /\ n \in 1..Len(sent) + 1
  BY DEF PeerInv, InStepInv, HandledAsSent

\* A request that is dealt with as it was sent.
LEMMA HandledNext ==
    ASSUME PeerInv, handled \in Seq(HandledType), HandledAsSent, sent' = sent,
           NEW n, n = Len(handled) + 1, n <= Len(sent),
           handled' = Append(handled, [cmd |-> sent[n].cmd,
                                       body |-> Units(n, "body", sent[n].size)])
    PROVE  handled' \in Seq(HandledType) /\ Len(handled') = n /\ HandledAsSent'
  <1> DEFINE h == [cmd |-> sent[n].cmd, body |-> Units(n, "body", sent[n].size)]
  <1>1. /\ n \in 1..Len(sent) /\ n \in 0..MaxRequests /\ Len(handled) \in Nat
        /\ Len(sent) \in Nat
        /\ sent[n] \in Requests /\ sent[n].size \in Nat /\ sent[n].cmd \in Commands
    BY ReadAssumption DEF PeerInv
  <1>2. Units(n, "body", sent[n].size) \in Seq(UnitSet)
    BY <1>1, UnitsTyped
  <1>3. h \in HandledType
    BY <1>1, <1>2 DEF HandledType
  <1>4. h.cmd = sent[n].cmd /\ h.body = Units(n, "body", sent[n].size)
    OBVIOUS
  <1> HIDE DEF h
  <1>5. /\ handled' = Append(handled, h)
        /\ handled' \in Seq(HandledType) /\ Len(handled') = n
        /\ handled'[n] = h
        /\ \A i \in 1..Len(handled) : handled'[i] = handled[i]
    BY <1>3 DEF h
  <1>6. ASSUME NEW i \in 1..n
        PROVE  handled'[i].cmd = sent[i].cmd /\ handled'[i].body = Units(i, "body", sent[i].size)
    <2>1. CASE i = n
      BY <1>4, <1>5, <2>1
    <2>2. CASE i # n
      <3>1. i \in 1..Len(handled)
        BY <1>1, <2>2
      <3>2. handled[i].cmd = sent[i].cmd /\ handled[i].body = Units(i, "body", sent[i].size)
        BY <3>1 DEF HandledAsSent
      <3> QED BY <1>5, <3>1, <3>2
    <2> QED BY <2>1, <2>2
  <1>7. HandledAsSent'
    BY <1>5, <1>6 DEF HandledAsSent
  <1> QED BY <1>5, <1>7

\* SendRequest: what was sent before stays where it is.
LEMMA StepSend ==
    ASSUME PeerInv, InStepInv, NEW r \in Requests, SendRequest(r)
    PROVE  InStepInv'
  <1>1. PICK start : Aligned(start) /\ AtRead(start)
    BY DEF InStepInv
  <1>2. PICK s : Aligned(s)' /\ \A k \in 1..Len(sent) + 1 : s[k] = start[k]
    BY <1>1, AlignedSend
  <1> DEFINE n == Len(handled) + 1
  <1>3. /\ Len(handled) \in Nat /\ Len(sent) \in Nat /\ n \in 1..Len(sent) + 1
        /\ 1 \in 1..Len(sent) + 1
    BY ReaderAt
  <1>4. /\ sent \in Seq(Requests) /\ Len(sent') = Len(sent) + 1
        /\ \A k \in 1..Len(sent) : sent'[k] = sent[k]
    BY DEF PeerInv, SendRequest
  <1>5. UNCHANGED <<handled, inflight, result, buffer>>
    BY DEF SendRequest, reader
  <1>6. HandledAsSent'
    BY <1>3, <1>4, <1>5 DEF InStepInv, HandledAsSent
  <1>7. s[1] = start[1] /\ s[n] = start[n]
    BY <1>2, <1>3
  <1>8. n <= Len(sent) => sent'[n] = sent[n] /\ n <= Len(sent') /\ s[n + 1] = start[n + 1]
    BY <1>2, <1>3, <1>4
  <1>9. AtRead(s)'
    <2> HIDE DEF n
    <2>1. Len(handled) + 1 = n
      BY DEF n
    <2> QED BY <1>1, <1>5, <1>7, <1>8, <2>1 DEF AtRead
  <1> QED BY <1>2, <1>5, <1>6, <1>9 DEF InStepInv

\* Receive: a read that is filled takes exactly the part that it is for.
LEMMA StepReceive ==
    ASSUME Framed, ReaderInv, InStepInv, NEW k \in 0..inflight.size, Receive(k)
    PROVE  InStepInv'
  <1> DEFINE n == Len(handled) + 1
  <1>1. PICK start : Aligned(start) /\ AtRead(start)
    BY DEF InStepInv
  <1>2. k = inflight.size /\ result = "none" /\ result' = "ok"
    BY DEF Framed, Receive
  <1>3. UNCHANGED <<handled, inflight, sent>>
    BY DEF Receive, peer
  <1>4. /\ PeerInv /\ FlightInv /\ inflight # NoRead
        /\ buffer = [type |-> inflight.type, size |-> inflight.size, data |-> buffer.data]
    BY DEF ReaderInv, QueueInv, Receive
  <1>5. k \in Nat
    BY <1>2, <1>4, ReadTypes, ReadableTyped DEF FlightInv, HelloSize, PreambleSize
  <1>6. PICK s : Aligned(s)' /\ \A j \in 1..Len(sent) + 1 : s[j] = start[j] - k
    BY <1>1, <1>4, <1>5, AlignedReceive
  <1>7. /\ Len(handled) \in Nat /\ Len(sent) \in Nat /\ n \in 1..Len(sent) + 1
        /\ 1 \in 1..Len(sent) + 1
    BY <1>4, ReaderAt
  <1>8. /\ Stream \in Seq(UnitSet) /\ k <= Len(Stream)
        /\ buffer'.data \in Seq(UnitSet) /\ Len(buffer'.data) = k
        /\ \A i \in 1..k : buffer'.data[i] = Stream[i]
    BY <1>4, <1>5, StreamReceive
  <1>9. HandledAsSent' /\ handled' \in Seq(HandledType)
    BY <1>3 DEF InStepInv, HandledAsSent
  <1>10. Len(handled') + 1 = n
    BY <1>3
  <1> HIDE DEF n
  <1>11. CASE inflight.type = "hello"
    <2>1. k = HelloSize /\ start[1] = HelloSize /\ handled = <<>>
      BY <1>1, <1>2, <1>4, <1>11, ReadTypes DEF FlightInv, AtRead
    <2>2. s[1] = 0
      BY <1>6, <1>7, <2>1 DEF HelloSize
    <2>3. AtRead(s)'
      BY <1>2, <1>3, <1>11, <2>1, <2>2 DEF AtRead
    <2> QED BY <1>6, <1>9, <2>3 DEF InStepInv
  <1>12. CASE inflight.type = "preamble"
    <2>1. k = PreambleSize
      BY <1>2, <1>4, <1>12, ReadTypes DEF FlightInv
    <2>2. start[n] = 0
      BY <1>1, <1>2, <1>12 DEF AtRead, n
    <2>3. n <= Len(sent)
      <3>1. start[Len(sent) + 1] = Len(Stream)
        BY <1>1 DEF Aligned
      <3>2. Len(Stream) # 0
        BY <1>8, <2>1 DEF PreambleSize
      <3>3. n # Len(sent) + 1
        BY <2>2, <3>1, <3>2
      <3> QED BY <1>7, <3>3
    <2>4. s[n] = -PreambleSize
      BY <1>6, <1>7, <2>1, <2>2 DEF PreambleSize
    <2>5. \A i \in 1..PreambleSize : Stream[i] = Unit(n, "preamble", i)
      <3> SUFFICES ASSUME NEW i \in 1..PreambleSize PROVE Stream[i] = Unit(n, "preamble", i)
        OBVIOUS
      <3>1. n \in 1..Len(sent) /\ start[n] + i = i /\ i > 0
        BY <1>7, <2>2, <2>3 DEF PreambleSize
      <3>2. start[n] + i > 0 => Stream[start[n] + i] = Unit(n, "preamble", i)
        BY <1>1, <3>1 DEF Aligned
      <3> QED BY <3>1, <3>2
    <2>6. n \in 0..MaxRequests /\ PreambleSize \in Nat
      BY <1>4, <1>7, <2>3, ReadAssumption DEF PeerInv, PreambleSize
    <2>7. buffer'.data = Units(n, "preamble", PreambleSize)
      <3> DEFINE u == Units(n, "preamble", PreambleSize)
      <3>1. /\ u \in Seq(UnitSet) /\ Len(u) = PreambleSize
            /\ \A i \in 1..PreambleSize : u[i] = Unit(n, "preamble", i)
        BY <2>6, UnitsTyped
      <3> HIDE DEF u
      <3>2. \A i \in 1..Len(u) : buffer'.data[i] = u[i]
        BY <1>8, <2>1, <2>5, <3>1
      <3>3. buffer'.data = u
        BY <1>8, <2>1, <3>1, <3>2, SeqEqual
      <3> QED BY <3>3 DEF u
    <2>8. AtRead(s)'
      BY <1>2, <1>3, <1>10, <1>12, <2>3, <2>4, <2>7 DEF AtRead
    <2> QED BY <1>6, <1>9, <2>8 DEF InStepInv
  <1>13. CASE inflight.type = "binary"
    <2>1. n <= Len(sent) /\ inflight = BodyRead(n, sent[n]) /\ start[n] = -PreambleSize
      BY <1>1, <1>2, <1>13 DEF AtRead, n
    <2> DEFINE z == sent[n].size
    <2>2. k = z
      BY <1>2, <2>1, ReadTypes
    <2>3. n \in 1..Len(sent) /\ n + 1 \in 1..Len(sent) + 1 /\ n \in 0..MaxRequests
      BY <1>4, <1>7, <2>1, ReadAssumption DEF PeerInv
    <2>4. start[n + 1] = start[n] + PreambleSize + z
      BY <1>1, <2>3 DEF Aligned
    <2>5. s[n + 1] = 0
      BY <1>5, <1>6, <2>1, <2>2, <2>3, <2>4 DEF PreambleSize
    <2>6. \A i \in 1..z : Stream[i] = Unit(n, "body", i)
      <3> SUFFICES ASSUME NEW i \in 1..z PROVE Stream[i] = Unit(n, "body", i)
        OBVIOUS
      <3>1. start[n] + PreambleSize + i = i /\ i > 0
        BY <1>5, <2>1, <2>2 DEF PreambleSize
      <3>2. start[n] + PreambleSize + i > 0 =>
                Stream[start[n] + PreambleSize + i] = Unit(n, "body", i)
        BY <1>1, <2>3 DEF Aligned
      <3> QED BY <3>1, <3>2
    <2>7. buffer'.data = Units(n, "body", z)
      <3> DEFINE u == Units(n, "body", z)
      <3>1. /\ u \in Seq(UnitSet) /\ Len(u) = z
            /\ \A i \in 1..z : u[i] = Unit(n, "body", i)
        BY <1>5, <2>2, <2>3, UnitsTyped
      <3> HIDE DEF u, z
      <3>2. \A i \in 1..Len(u) : buffer'.data[i] = u[i]
        BY <1>8, <2>2, <2>6, <3>1
      <3>3. buffer'.data = u
        BY <1>8, <2>2, <3>1, <3>2, SeqEqual
      <3> QED BY <3>3 DEF u
    <2>8. AtRead(s)'
      BY <1>2, <1>3, <1>10, <1>13, <2>1, <2>5, <2>7 DEF AtRead
    <2> QED BY <1>6, <1>9, <2>8 DEF InStepInv
  <1>14. inflight.type \in {"hello", "preamble", "binary"}
    BY <1>4 DEF FlightInv
  <1> QED BY <1>11, <1>12, <1>13, <1>14

\* received_hello: the first request is next.
LEMMA StepHello ==
    ASSUME ReaderInv, InStepInv, HandleHello
    PROVE  InStepInv'
  <1>1. PICK start : Aligned(start) /\ AtRead(start)
    BY DEF InStepInv
  <1>2. /\ pending = <<>> /\ open \in BOOLEAN
        /\ inflight.type = "hello" /\ result = "ok"
    BY ReadTypes DEF HandleHello, ReaderInv, QueueInv, FlightInv
  <1>3. /\ inflight' = PreambleRead \/ inflight' = NoRead
        /\ result' = "none" /\ UNCHANGED <<handled, peer, net>>
    BY <1>2, HelloEffect
  <1>4. handled = <<>> /\ start[1] = 0
    BY <1>1, <1>2 DEF AtRead
  <1>5. sent' = sent /\ Stream' = Stream
    BY <1>3 DEF peer, Stream
  <1>6. Aligned(start)'
    BY <1>1, <1>5, AlignedSame
  <1>7. HandledAsSent' /\ handled' \in Seq(HandledType)
    BY <1>3, <1>5 DEF InStepInv, HandledAsSent
  <1>8. Len(handled') + 1 = 1
    BY <1>3, <1>4
  <1>9. AtRead(start)'
    BY <1>3, <1>4, <1>8, ReadTypes DEF AtRead
  <1> QED BY <1>6, <1>7, <1>9 DEF InStepInv

\* handle_message: the preamble is the next request's, and its body is next, or, when
\* it has none, the request behind it.
LEMMA StepPreamble ==
    ASSUME Framed, ReaderInv, InStepInv, HandlePreamble
    PROVE  InStepInv'
  <1> DEFINE n == Len(handled) + 1
  <1>1. PICK start : Aligned(start) /\ AtRead(start)
    BY DEF InStepInv
  <1>2. /\ pending = <<>> /\ open \in BOOLEAN /\ PeerInv
        /\ inflight.type = "preamble" /\ result = "ok"
    BY ReadTypes DEF HandlePreamble, ReaderInv, QueueInv, FlightInv
  <1>3. result' = "none" /\ UNCHANGED <<peer, net>>
    BY DEF HandlePreamble
  <1>4. sent' = sent /\ Stream' = Stream
    BY <1>3 DEF peer, Stream
  <1>5. Aligned(start)'
    BY <1>1, <1>4, AlignedSame
  <1>6. /\ n <= Len(sent) /\ start[n] = -PreambleSize
        /\ buffer.data = Units(n, "preamble", PreambleSize)
    BY <1>1, <1>2 DEF AtRead
  <1>7. /\ Len(handled) \in Nat /\ Len(sent) \in Nat /\ n \in 1..Len(sent)
    BY <1>2, <1>6, ReaderAt
  <1> HIDE DEF n
  <1>8. Preamble(buffer.data) = {sent[n]}
    <2> DEFINE u(j) == Units(j, "preamble", PreambleSize)
               whole == {j \in 1..Len(sent) : buffer.data = u(j)}
    <2>1. \A j : u(j)[1].no = j
      BY DEF Units, Unit, PreambleSize
    <2>2. whole # {} => Preamble(buffer.data) = {sent[j] : j \in whole}
      BY Zenon DEF Preamble
    <2>3. buffer.data = u(n)
      BY <1>6
    <2> HIDE DEF u
    <2>4. whole = {n}
      BY <1>7, <2>1, <2>3
    <2> HIDE DEF whole
    <2>5. {sent[j] : j \in whole} = {sent[n]}
      BY <2>4
    <2> QED BY <2>2, <2>4, <2>5
  <1>9. /\ Becomes(ServeQueue(AfterPreamble(sent[n])))
        /\ handled' = IF sent[n].cmd \in LoadsBody THEN handled
                      ELSE Append(handled, [cmd |-> sent[n].cmd, body |-> <<>>])
    BY <1>8 DEF HandlePreamble
  <1>10. sent[n] \in Requests /\ sent[n].size \in Nat
    BY <1>2, <1>7, ReadAssumption DEF PeerInv
  <1>11. CASE sent[n].cmd \in LoadsBody
    <2>1. inflight' = BodyRead(n, sent[n])
      BY <1>2, <1>9, <1>11, PreambleEffect DEF n
    <2>2. inflight'.type = "binary"
      BY <2>1, ReadTypes
    <2>3. handled' = handled
      BY <1>9, <1>11
    <2>4. HandledAsSent' /\ handled' \in Seq(HandledType)
      BY <1>4, <2>3 DEF InStepInv, HandledAsSent
    <2>5. Len(handled') + 1 = n
      BY <2>3 DEF n
    <2>6. AtRead(start)'
      BY <1>3, <1>4, <1>6, <2>1, <2>2, <2>5 DEF AtRead
    <2> QED BY <1>5, <2>4, <2>6 DEF InStepInv
  <1>12. CASE sent[n].cmd \notin LoadsBody
    <2>1. inflight' = PreambleRead \/ inflight' = NoRead
      BY <1>2, <1>9, <1>12, PreambleEffect
    <2>2. sent[n].size = 0
      BY <1>10, <1>12 DEF Framed
    <2>3. Units(n, "body", sent[n].size) = <<>>
      BY <2>2 DEF Units
    <2>4. handled' = Append(handled, [cmd |-> sent[n].cmd,
                                      body |-> Units(n, "body", sent[n].size)])
      BY <1>9, <1>12, <2>3
    <2>5. handled' \in Seq(HandledType) /\ Len(handled') = n /\ HandledAsSent'
      BY <1>2, <1>4, <1>6, <2>4, HandledNext DEF InStepInv, n
    <2>6. start[n + 1] = 0
      <3>1. start[n + 1] = start[n] + PreambleSize + sent[n].size
        BY <1>1, <1>7 DEF Aligned
      <3> QED BY <1>6, <2>2, <3>1 DEF PreambleSize
    <2>7. inflight'.type = "preamble" \/ inflight'.type = "none"
      BY <2>1, ReadTypes
    <2>8. AtRead(start)'
      BY <1>3, <2>5, <2>6, <2>7 DEF AtRead
    <2> QED BY <1>5, <2>5, <2>8 DEF InStepInv
  <1> QED BY <1>11, <1>12

\* handle_proccessed_data: the body is the one that was sent, and the next request
\* is behind it.
LEMMA StepBody ==
    ASSUME ReaderInv, InStepInv, HandleBody
    PROVE  InStepInv'
  <1> DEFINE n == Len(handled) + 1
  <1>1. PICK start : Aligned(start) /\ AtRead(start)
    BY DEF InStepInv
  <1>2. /\ pending \in {<<>>, <<PreambleRead>>} /\ PeerInv
        /\ inflight.type = "binary" /\ result = "ok"
    BY ReadTypes DEF HandleBody, ReaderInv, QueueInv, FlightInv
  <1>3. result' = "none" /\ UNCHANGED <<peer, net>>
    BY DEF HandleBody
  <1>4. sent' = sent /\ Stream' = Stream
    BY <1>3 DEF peer, Stream
  <1>5. Aligned(start)'
    BY <1>1, <1>4, AlignedSame
  <1>6. /\ n <= Len(sent) /\ start[n + 1] = 0 /\ inflight = BodyRead(n, sent[n])
        /\ buffer.data = Units(n, "body", sent[n].size)
    BY <1>1, <1>2 DEF AtRead
  <1>7. inflight' = PreambleRead \/ inflight' = NoRead
    BY <1>2, BodyEffect DEF HandleBody
  <1> HIDE DEF n
  <1>8. inflight.msg = sent[n]
    BY <1>6, ReadTypes
  <1>9. handled' = Append(handled, [cmd |-> sent[n].cmd,
                                    body |-> Units(n, "body", sent[n].size)])
    BY <1>6, <1>8 DEF HandleBody
  <1>10. handled' \in Seq(HandledType) /\ Len(handled') = n /\ HandledAsSent'
    BY <1>2, <1>4, <1>6, <1>9, HandledNext DEF InStepInv, n
  <1>11. inflight'.type = "preamble" \/ inflight'.type = "none"
    BY <1>7, ReadTypes
  <1>12. AtRead(start)'
    BY <1>3, <1>6, <1>10, <1>11 DEF AtRead
  <1> QED BY <1>5, <1>10, <1>12 DEF InStepInv

\* Every step keeps the reader at the start of the part it reads.
LEMMA InStepNext ==
    ASSUME Framed, ReaderInv, InStepInv, [Next]_vars
    PROVE  InStepInv'
  <1>0. PeerInv
    BY DEF ReaderInv
  <1>1. PICK start : Aligned(start) /\ AtRead(start)
    BY DEF InStepInv
  <1>2. ASSUME sent' = sent, Stream' = Stream, handled' = handled, AtRead(start)'
        PROVE  InStepInv'
    <2>1. Aligned(start)'
      BY <1>1, <1>2, AlignedSame
    <2>2. HandledAsSent' /\ handled' \in Seq(HandledType)
      BY <1>2 DEF InStepInv, HandledAsSent
    <2> QED BY <1>2, <2>1, <2>2 DEF InStepInv
  <1>3. ASSUME UNCHANGED <<handled, inflight, result, buffer, sent>>, Stream' = Stream
        PROVE  InStepInv'
    <2>1. AtRead(start)'
      BY <1>1, <1>3 DEF AtRead
    <2> QED BY <1>2, <1>3, <2>1
  <1>4. CASE Arrive
    <2>1. Stream' = Stream
      BY <1>0, <1>4, StreamArrive
    <2> QED BY <1>3, <1>4, <2>1 DEF Arrive, reader
  <1>5. CASE Fail
    <2>1. UNCHANGED <<handled, inflight, sent, net, outbox>> /\ result' = "failed"
      BY <1>5 DEF Fail, reader, peer
    <2>2. AtRead(start)'
      BY <1>1, <2>1 DEF AtRead
    <2>3. Stream' = Stream
      BY <2>1 DEF Stream
    <2> QED BY <1>2, <2>1, <2>2, <2>3
  <1>6. CASE HandleReadFailed
    <2>1. UNCHANGED <<handled, sent, net, outbox>> /\ inflight' = NoRead
      BY <1>6 DEF HandleReadFailed, peer
    <2>2. AtRead(start)'
      BY <2>1, ReadTypes DEF AtRead
    <2>3. Stream' = Stream
      BY <2>1 DEF Stream
    <2> QED BY <1>2, <2>1, <2>2, <2>3
  <1>7. CASE UNCHANGED <<handled, inflight, result, buffer, sent, net, outbox>>
    <2>1. Stream' = Stream
      BY <1>7 DEF Stream
    <2> QED BY <1>3, <1>7, <2>1
  <1>8. CASE CloseByWriter
    BY <1>7, <1>8 DEF CloseByWriter, reader, peer
  <1>9. ASSUME NEW op \in waits, HandleTimeout(op) PROVE InStepInv'
    BY <1>7, <1>9 DEF HandleTimeout, peer
  <1>10. CASE UNCHANGED vars
    BY <1>7, <1>10 DEF vars, reader, peer
  <1> QED BY <1>0, <1>4, <1>5, <1>6, <1>8, <1>9, <1>10, StepSend, StepReceive, StepHello,
             StepPreamble, StepBody DEF Next

\* The reader stays in step with the stream.
LEMMA InStepInvariant == Framed => (Spec => []InStepInv)
  <1> SUFFICES ASSUME Framed PROVE Spec => []InStepInv
    OBVIOUS
  <1> QED BY InStepInit, InStepNext, ReaderInvariant, PTL DEF Spec

\* Every request is dealt with as it was sent and in the order of the stream, with
\* all of its body, for every number of requests and whatever closes, deadlines and
\* failures come between: handle_message takes what the socket has filled the buffer
\* with for the next preamble, and it is.
THEOREM InStepWithStream == Framed => (Spec => []HandledAsSent)
  <1> SUFFICES ASSUME Framed PROVE Spec => []HandledAsSent
    OBVIOUS
  <1>1. InStepInv => HandledAsSent
    BY DEF InStepInv
  <1>2. Spec => []InStepInv
    BY InStepInvariant
  <1> QED BY <1>1, <1>2, PTL

------------------------------------------------------------------------------
(* Type correctness.                                                        *)

BufferType == [type : {"", "hello", "preamble", "binary"}, size : Nat, data : Seq(UnitSet)]

TypeInv ==
    /\ read_in_progress \in BOOLEAN
    /\ pending \in Seq(Reads)
    /\ buffer \in BufferType
    /\ waits \subseteq TimedReads

FlightOK == inflight \in Reads \union {NoRead}

\* The read on the socket is one of those that the code can start, because a reader
\* that is in step is never at a request that nobody sent.
LEMMA FlightTyped == ReaderInv /\ InStepInv => FlightOK
  <1> SUFFICES ASSUME ReaderInv, InStepInv PROVE inflight \in Reads \union {NoRead}
    BY DEF FlightOK
  <1>1. PICK start : Aligned(start) /\ AtRead(start)
    BY DEF InStepInv
  <1>2. FlightInv /\ PeerInv
    BY DEF ReaderInv
  <1>3. CASE inflight.type = "binary"
    <2> DEFINE n == Len(handled) + 1
    <2>1. n <= Len(sent) /\ inflight = BodyRead(n, sent[n])
      BY <1>1, <1>3 DEF AtRead
    <2>2. n \in 1..Len(sent) /\ n \in 1..MaxRequests
      BY <1>2, <2>1, ReaderAt, ReadAssumption DEF PeerInv
    <2> HIDE DEF n
    <2>3. sent[n] \in Readable
      BY <1>2, <2>2 DEF PeerInv, Readable
    <2>4. sent[n].cmd \in LoadsBody
      BY <1>2, <1>3, <2>1, ReadTypes DEF FlightInv
    <2>5. inflight \in BodyReads
      BY <2>1, <2>2, <2>3, <2>4 DEF BodyReads
    <2> QED BY <2>5 DEF Reads, TimedReads
  <1>4. CASE inflight.type # "binary"
    BY <1>2, <1>4 DEF FlightInv, Reads, TimedReads
  <1> QED BY <1>3, <1>4

\* FlightTyped, of the next state.
LEMMA FlightTypedNext == ReaderInv' /\ InStepInv' => FlightOK'
  BY FlightTyped, PTL

\* An empty buffer of any kind is one.
LEMMA AllocatedTyped ==
    ASSUME NEW t \in {"", "hello", "preamble", "binary"}, NEW z \in Nat
    PROVE  Allocated(t, z) \in BufferType
  <1>1. <<>> \in Seq(UnitSet)
    BY EmptySeq
  <1> QED BY <1>1 DEF Allocated, BufferType

\* The buffer after its deallocation is a buffer.
LEMMA DeallocatedTyped ==
    ASSUME buffer \in BufferType
    PROVE  Deallocated(buffer) \in BufferType
  <1>1. Deallocated(buffer) = buffer \/ Deallocated(buffer) = Allocated("", 0)
    BY DEF Deallocated, Allocated
  <1>2. Allocated("", 0) \in BufferType
    BY AllocatedTyped
  <1> QED BY <1>1, <1>2

\* The variables have their types at first.
LEMMA TypeInit == ASSUME Init PROVE TypeInv
  <1>1. Allocated("hello", HelloSize) \in BufferType
    BY AllocatedTyped DEF HelloSize
  <1> QED BY <1>1 DEF Init, TypeInv, TimedReads

\* Every step keeps the types.
LEMMA TypeStep ==
    ASSUME Framed, ReaderInv, InStepInv, TypeInv, [Next]_vars
    PROVE  TypeInv'
  <1>0. ReaderInv' /\ InStepInv'
    BY ReaderStep, InStepNext
  <1>1. /\ PreambleRead \in Reads /\ <<>> \in Seq(Reads) /\ <<PreambleRead>> \in Seq(Reads)
        /\ Allocated("preamble", PreambleSize) \in BufferType
    <2>1. PreambleRead \in Reads
      BY DEF Reads
    <2>2. Allocated("preamble", PreambleSize) \in BufferType
      BY AllocatedTyped DEF PreambleSize
    <2> QED BY <2>1, <2>2
  <1>2. Deallocated(buffer) \in BufferType
    BY DeallocatedTyped DEF TypeInv
  <1>3. CASE UNCHANGED reader
    BY <1>3 DEF TypeInv, reader
  <1>4. ASSUME NEW k \in 0..inflight.size, Receive(k) PROVE TypeInv'
    <2>1. PeerInv /\ FlightInv /\ inflight # NoRead
      BY <1>4 DEF ReaderInv, Receive
    <2>2. k \in Nat
      BY <2>1, ReadTypes, ReadableTyped DEF FlightInv, HelloSize, PreambleSize
    <2>3. SubSeq(net, 1, k) \in Seq(UnitSet)
      BY <1>4, <2>1, <2>2, SubSeqProperties DEF PeerInv, Receive
    <2>4. buffer' = [buffer EXCEPT !.data = SubSeq(net, 1, k)]
      BY <1>4 DEF Receive
    <2>5. buffer' \in BufferType
      BY <2>3, <2>4 DEF TypeInv, BufferType
    <2> QED BY <1>4, <2>5 DEF Receive, TypeInv
  <1>5. CASE HandleHello
    <2>1. pending = <<>> /\ open \in BOOLEAN
      BY <1>5, ReadTypes DEF HandleHello, ReaderInv, QueueInv, FlightInv
    <2> DEFINE go == open /\ ValidHello(buffer.data)
    <2>2. /\ read_in_progress' = go
          /\ pending' = <<>>
          /\ buffer' = IF go THEN Allocated("preamble", PreambleSize) ELSE Deallocated(buffer)
          /\ waits' = waits
      BY <1>5, <2>1, HelloEffect
    <2>3. go \in BOOLEAN
      BY <2>1
    <2> HIDE DEF go
    <2> QED BY <1>1, <1>2, <2>2, <2>3 DEF TypeInv
  <1>6. CASE HandlePreamble
    <2>1. pending = <<>> /\ open \in BOOLEAN
      BY <1>6, ReadTypes DEF HandlePreamble, ReaderInv, QueueInv, FlightInv
    <2>2. PICK r \in Preamble(buffer.data) : Becomes(ServeQueue(AfterPreamble(r)))
      BY <1>6 DEF HandlePreamble
    <2>3. r \in Readable
      BY <2>2, PreambleReadable DEF ReaderInv
    <2>4. CASE r.cmd \in LoadsBody
      <3>1. /\ read_in_progress' = TRUE
            /\ inflight' = BodyRead(Len(handled) + 1, r)
            /\ pending' = IF open THEN <<PreambleRead>> ELSE <<>>
            /\ buffer' = Allocated("binary", r.size)
            /\ waits' = waits \union {BodyRead(Len(handled) + 1, r)}
        BY <2>1, <2>2, <2>4, PreambleEffect
      <3>2. Allocated("binary", r.size) \in BufferType
        BY <2>3, AllocatedTyped, ReadableTyped
      <3>3. waits' = waits \union {inflight'}
        BY <3>1
      <3>4. inflight' \in Reads \union {NoRead}
        BY <1>0, FlightTypedNext DEF FlightOK
      <3>5. inflight' \in TimedReads
        <4>1. inflight'.type = "binary"
          BY <3>1, ReadTypes
        <4>2. inflight' # PreambleRead /\ inflight' # NoRead
          BY <4>1, ReadTypes
        <4> QED BY <3>4, <4>2 DEF Reads
      <3> QED BY <1>1, <3>1, <3>2, <3>3, <3>5 DEF TypeInv
    <2>5. CASE r.cmd \notin LoadsBody
      <3>1. /\ read_in_progress' = open
            /\ pending' = <<>>
            /\ buffer' = IF open THEN Allocated("preamble", PreambleSize)
                                 ELSE Deallocated(buffer)
            /\ waits' = waits
        BY <2>1, <2>2, <2>5, PreambleEffect
      <3> QED BY <1>1, <1>2, <2>1, <3>1 DEF TypeInv
    <2> QED BY <2>4, <2>5
  <1>7. CASE HandleBody
    <2>1. pending \in {<<>>, <<PreambleRead>>}
      BY <1>7, ReadTypes DEF HandleBody, ReaderInv, QueueInv, FlightInv
    <2> DEFINE more == pending = <<PreambleRead>>
    <2>2. /\ read_in_progress' = more
          /\ pending' = <<>>
          /\ buffer' = IF more THEN Allocated("preamble", PreambleSize) ELSE buffer
          /\ waits' = waits
      BY <1>7, <2>1, BodyEffect DEF HandleBody
    <2>3. more \in BOOLEAN
      OBVIOUS
    <2> HIDE DEF more
    <2> QED BY <1>1, <2>2, <2>3 DEF TypeInv
  <1>8. CASE HandleReadFailed
    BY <1>8 DEF HandleReadFailed, TypeInv
  <1>9. ASSUME NEW op \in waits, HandleTimeout(op) PROVE TypeInv'
    BY <1>9 DEF HandleTimeout, TypeInv
  <1>10. ASSUME NEW r \in Requests, SendRequest(r) PROVE UNCHANGED reader
    BY <1>10 DEF SendRequest
  <1>11. CASE Arrive \/ Fail \/ CloseByWriter \/ UNCHANGED vars
    BY <1>3, <1>11 DEF Arrive, Fail, CloseByWriter, vars
  <1> QED BY <1>3, <1>4, <1>5, <1>6, <1>7, <1>8, <1>9, <1>10, <1>11 DEF Next

\* The variables keep their types: only reads that the code can start are on the
\* socket, in the queue and under a deadline, and a body read is numbered by a
\* request of the peer.
THEOREM TypeCorrect == Framed => (Spec => []TypeOK)
  <1> SUFFICES ASSUME Framed PROVE Spec => []TypeOK
    OBVIOUS
  <1>1. Spec => []InStepInv
    BY InStepInvariant
  <1>2. Spec => []TypeInv
    BY <1>1, TypeInit, TypeStep, ReaderInvariant, PTL DEF Spec
  <1>3. ReaderInv /\ InStepInv /\ TypeInv => TypeOK
    BY FlightTyped DEF FlightOK, ReaderInv, PeerInv, InStepInv, TypeInv, TypeOK, BufferType, HandledType
  <1> QED BY <1>1, <1>2, <1>3, ReaderInvariant, PTL
==============================================================================
