----------------------------- MODULE ReadPipeline ----------------------------
(***************************************************************************)
(* The incoming half of tcp_connection (connection.h, connection.cpp) with  *)
(* the dispatch of requests (asio_server.cpp): HELLO, then for ever a       *)
(* preamble and, for the commands that have one, the body whose length the  *)
(* preamble tells.  One read at a time is on the socket, a second one waits *)
(* in pending_read_operations; both use the one buffer dynamic_storage_.    *)
(*                                                                         *)
(* The peer's bytes are abstracted to units: every message part is a few    *)
(* units long, so that a part can arrive, and be read, in pieces.  Handlers *)
(* of the io_context are one action each; an assert is a guard of the       *)
(* handler it stands in, and BufferOwned says that none of them fails.      *)
(***************************************************************************)
EXTENDS Integers, Sequences

CONSTANTS Requests,      \* what the peer may send: [cmd, size] with size in units
          MaxRequests,   \* bound: requests of one peer
          ShortReads     \* async_read_some may return before the buffer is full

Commands == {"ping", "get", "set", "get_all", "delete", "other"}

ASSUME ReadAssumption ==
    /\ Requests \subseteq [cmd : Commands, size : Nat]
    /\ MaxRequests \in Nat
    /\ ShortReads \in BOOLEAN

VARIABLES
    greeting,            \* history: "hello", or "junk" when the peer's HELLO is wrong
    sent,                \* history: the requests of the peer
    outbox,              \* units that the peer has sent and that have not arrived
    net,                 \* units that have arrived and have not been read
    open,                \* socket_.is_open()
    read_in_progress,
    inflight,            \* the read whose handle_data has not run yet
    result,              \* of inflight: "none" until the socket is done with it
    pending,             \* pending_read_operations
    buffer,              \* dynamic_storage_: [type, size, data]
    waits,               \* reads whose handle_timeout_expiration has not run yet
    handled              \* history: [cmd, body] for each preamble, once it is dealt with

peer == <<greeting, sent, outbox>>
reader == <<read_in_progress, inflight, pending, buffer, waits>>
vars == <<peer, net, open, reader, result, handled>>

HelloSize == 2           \* units of hello_message_static
PreambleSize == 2        \* units of message_preamble

Unit(no, part, i) == [no |-> no, part |-> part, pos |-> i]
Units(no, part, n) == [i \in 1..n |-> Unit(no, part, i)]

NoRequest == [cmd |-> "none", size |-> 0]
NoRead == [type |-> "none", size |-> 0, no |-> 0, msg |-> NoRequest]

HelloRead == [type |-> "hello", size |-> HelloSize, no |-> 0, msg |-> NoRequest]
PreambleRead == [type |-> "preamble", size |-> PreambleSize, no |-> 0, msg |-> NoRequest]
BodyRead(no, msg) == [type |-> "binary", size |-> msg.size, no |-> no, msg |-> msg]

\* init_dispatcher: the commands whose handler is wrapped in process_message, which
\* loads the body.  The others, and the commands nobody registered, are over when
\* the preamble is dispatched.
LoadsBody == {"get", "set"}

\* A preamble of which only the first bytes were read: the id is there, and zero where
\* the size would be.
Truncated(r) == [r EXCEPT !.size = 0]

\* Zeros in the place of an id, which is none that is registered.
Unregistered == [cmd |-> "other", size |-> 0]

\* What a preamble may be read as.
Readable ==
    Requests \union (IF ShortReads THEN {Unregistered} \union {Truncated(r) : r \in Requests}
                     ELSE {})

BodyReads == {BodyRead(no, r) : no \in 1..MaxRequests, r \in {r \in Readable : r.cmd \in LoadsBody}}
TimedReads == {HelloRead} \union BodyReads
Reads == {PreambleRead} \union TimedReads

------------------------------------------------------------------------------
(* dynamic_storage.                                                         *)

HasValue(b) == b.size # 0

Deallocated(b) == IF HasValue(b) THEN [type |-> "", size |-> 0, data |-> <<>>] ELSE b

\* What was not read is zero; data holds the units that were.
Allocated(type, size) == [type |-> type, size |-> size, data |-> <<>>]

\* assert_type<T> and assert_binary
Holds(b, type) == HasValue(b) /\ b.type = type

------------------------------------------------------------------------------
(* async_read_message and async_read_raw, on what they read and assign.     *)

\* Faulty variant: the preamble read is given a deadline too.
TimedAlways(op) == TRUE

\* Faulty variant: async_read_raw is given no deadline.
TimedHelloOnly(op) == op.type = "hello"

\* The reads that are given a deadline; a preamble is waited for without one.
Timed(op) == op.type \in {"hello", "binary"}

Read(q, op) ==
    IF q.busy THEN [q EXCEPT !.queue = Append(@, op)]
    ELSE [busy   |-> TRUE,
          flight |-> op,
          queue  |-> q.queue,
          buf    |-> Allocated(op.type, op.size),
          waits  |-> IF Timed(op) THEN q.waits \union {op} ELSE q.waits]

Becomes(q) ==
    /\ read_in_progress' = q.busy
    /\ inflight' = q.flight
    /\ pending' = q.queue
    /\ buffer' = q.buf
    /\ waits' = q.waits

\* Faulty variant: no preamble is waited for.
StartReadMessageNever(q) == q

StartReadMessage(q) == IF open THEN Read(q, PreambleRead) ELSE q

\* Faulty variant: the queue is not served.
ServeQueueNever(q) == q

\* The end of handle_data: perform() of the front of the queue, which goes back to
\* the end if the handler before it has started a read.
ServeQueue(q) ==
    IF q.queue = <<>> THEN q ELSE Read([q EXCEPT !.queue = Tail(@)], Head(q.queue))

\* handle_data before it calls the read's own handler, which leaves the buffer b.
Idle(b) ==
    [busy |-> FALSE, flight |-> NoRead, queue |-> pending, buf |-> b, waits |-> waits]

------------------------------------------------------------------------------
(* The peer, the network and the socket.                                    *)

SendRequest(r) ==
    /\ Len(sent) < MaxRequests
    /\ sent' = Append(sent, r)
    /\ outbox' = outbox \o Units(Len(sent) + 1, "preamble", PreambleSize)
                        \o Units(Len(sent) + 1, "body", r.size)
    /\ UNCHANGED <<greeting, net, open, reader, result, handled>>

Arrive ==
    /\ outbox # <<>>
    /\ net' = Append(net, Head(outbox))
    /\ outbox' = Tail(outbox)
    /\ UNCHANGED <<greeting, sent, open, reader, result, handled>>

\* async_read_some completes with k units.
Receive(k) ==
    /\ open
    /\ inflight # NoRead /\ result = "none"
    /\ k <= Len(net) /\ k <= inflight.size
    /\ k = inflight.size \/ (ShortReads /\ k > 0)
    /\ result' = "ok"
    /\ buffer' = [buffer EXCEPT !.data = SubSeq(net, 1, k)]
    /\ net' = SubSeq(net, k + 1, Len(net))
    /\ UNCHANGED <<peer, open, read_in_progress, inflight, pending, waits, handled>>

\* The peer has closed the connection, or this side did.
Fail ==
    /\ inflight # NoRead /\ result = "none"
    /\ result' = "failed"
    /\ UNCHANGED <<peer, net, open, reader, handled>>

------------------------------------------------------------------------------
(* handle_data with the three handlers that it may be given as next.        *)

\* Faulty variant: whatever comes is taken for a HELLO.
AnyHello(data) == TRUE

ValidHello(data) == data = Units(0, "hello", HelloSize)

\* received_hello
HandleHello ==
    LET valid == ValidHello(buffer.data)
        q     == Idle(Deallocated(buffer))
    IN  /\ result = "ok" /\ inflight = HelloRead
        /\ Holds(buffer, "hello")
        /\ result' = "none"
        /\ open' = (open /\ valid)
        /\ Becomes(ServeQueue(IF valid THEN StartReadMessage(q) ELSE q))
        /\ UNCHANGED <<peer, net, handled>>

\* What the bytes in the buffer say when read as a message_preamble: the request if
\* they are one preamble, and its command without its size if they are the first part
\* of one.  If they start elsewhere, the size of a request or its body is taken for an
\* id: a size of zero is that of no command, and anything else may be that of any.
Preamble(data) ==
    LET starts(i) == {n \in 1..Len(sent) : ShortReads /\ data[1] = Unit(n, "preamble", i)}
        whole == {n \in 1..Len(sent) : data = Units(n, "preamble", PreambleSize)}
        zeros == {n \in starts(2) : sent[n].size = 0}
    IN  CASE whole # {} -> {sent[n] : n \in whole}
          [] whole = {} /\ starts(1) # {} -> {Truncated(sent[n]) : n \in starts(1)}
          [] whole = {} /\ zeros # {} -> {Unregistered}
          [] OTHER -> Requests

\* The dispatcher's handlers, as far as they read: on_new_message_.
Dispatch(q, r) ==
    IF r.cmd \in LoadsBody THEN Read(q, BodyRead(Len(handled) + 1, r)) ELSE q

\* Faulty variant: the next preamble is asked for before the message is dispatched.
AfterPreambleReadsAhead(r) ==
    Dispatch(StartReadMessage(Idle(Deallocated(buffer))), r)

\* Faulty variant: the buffer is deallocated after the signal.
AfterPreambleFreesLate(r) ==
    StartReadMessage([Dispatch(Idle(buffer), r) EXCEPT !.buf = Deallocated(@)])

\* handle_message: the buffer is given back before the signal is called, and the
\* next preamble is asked for after it.
AfterPreamble(r) ==
    StartReadMessage(Dispatch(Idle(Deallocated(buffer)), r))

HandlePreamble ==
    /\ result = "ok" /\ inflight = PreambleRead
    /\ Holds(buffer, "preamble")
    /\ result' = "none"
    /\ \E r \in Preamble(buffer.data) :
          /\ Becomes(ServeQueue(AfterPreamble(r)))
          /\ handled' = IF r.cmd \in LoadsBody THEN handled
                        ELSE Append(handled, [cmd |-> r.cmd, body |-> <<>>])
    /\ UNCHANGED <<peer, net, open>>

\* handle_proccessed_data: the handler of GET or SET gets the body in the buffer.
HandleBody ==
    /\ result = "ok" /\ inflight.type = "binary"
    /\ Holds(buffer, "binary")
    /\ result' = "none"
    /\ handled' = Append(handled, [cmd |-> inflight.msg.cmd, body |-> buffer.data])
    /\ Becomes(ServeQueue(Idle(buffer)))
    /\ UNCHANGED <<peer, net, open>>

\* Every read is required: the connection is closed, and handle_data returns before
\* it clears read_in_progress and cancels the timer.
HandleReadFailed ==
    /\ result = "failed"
    /\ result' = "none"
    /\ inflight' = NoRead
    /\ open' = FALSE
    /\ UNCHANGED <<peer, net, read_in_progress, pending, buffer, waits, handled>>

\* handle_timeout_expiration, for a deadline that passed or that was cancelled; the
\* read is done once its handle_data has run.
HandleTimeout(op) ==
    /\ op \in waits
    /\ waits' = waits \ {op}
    /\ open' = (open /\ op # inflight)
    /\ UNCHANGED <<peer, net, read_in_progress, inflight, pending, buffer, result, handled>>

\* The outgoing half closes the connection: a write failed or timed out.
CloseByWriter ==
    /\ open
    /\ open' = FALSE
    /\ UNCHANGED <<peer, net, reader, result, handled>>

------------------------------------------------------------------------------
\* start() has just been called on the accepted connection.
Init ==
    /\ greeting \in {"hello", "junk"}
    /\ sent = <<>>
    /\ outbox = Units(0, greeting, HelloSize)
    /\ net = <<>>
    /\ open = TRUE
    /\ read_in_progress = TRUE
    /\ inflight = HelloRead
    /\ result = "none"
    /\ pending = <<>>
    /\ buffer = Allocated("hello", HelloSize)
    /\ waits = {HelloRead}
    /\ handled = <<>>

Next ==
    \/ \E r \in Requests : SendRequest(r)
    \/ Arrive
    \/ \E k \in 0..inflight.size : Receive(k)
    \/ Fail
    \/ HandleHello
    \/ HandlePreamble
    \/ HandleBody
    \/ HandleReadFailed
    \/ \E op \in waits : HandleTimeout(op)
    \/ CloseByWriter

\* The io_context runs every handler that is ready, timers expire, a read gets what
\* has arrived, and a closed socket completes its reads with an error.  Nothing
\* makes the peer send: SendRequest and Arrive are not fair.
Fairness ==
    /\ WF_vars(Receive(inflight.size))
    /\ WF_vars(~open /\ Fail)
    /\ WF_vars(HandleHello)
    /\ WF_vars(HandlePreamble)
    /\ WF_vars(HandleBody)
    /\ WF_vars(HandleReadFailed)
    /\ \A op \in TimedReads : WF_vars(HandleTimeout(op))

Spec == Init /\ [][Next]_vars
FairSpec == Spec /\ Fairness

------------------------------------------------------------------------------
(* Properties.                                                              *)

UnitSet == [no : 0..MaxRequests, part : {"hello", "junk", "preamble", "body"}, pos : Nat]

\* The reads and timers are those the code can start: only HELLO and bodies have a
\* deadline, each body read is numbered by the request that it is for.
TypeOK ==
    /\ greeting \in {"hello", "junk"}
    /\ sent \in Seq(Requests) /\ Len(sent) <= MaxRequests
    /\ outbox \in Seq(UnitSet)
    /\ net \in Seq(UnitSet)
    /\ open \in BOOLEAN
    /\ read_in_progress \in BOOLEAN
    /\ inflight \in Reads \union {NoRead}
    /\ result \in {"none", "ok", "failed"}
    /\ pending \in Seq(Reads)
    /\ buffer \in [type : {"", "hello", "preamble", "binary"}, size : Nat, data : Seq(UnitSet)]
    /\ waits \subseteq TimedReads
    /\ handled \in Seq([cmd : Commands, body : Seq(UnitSet)])

\* The n-th request that is dealt with is the n-th one the peer sent, and its handler
\* is given the body that the peer sent with it, all of it: the reader is never out
\* of step with the stream (connection.h:267, "reads data of the given type").
HandledAsSent ==
    /\ Len(handled) <= Len(sent)
    /\ \A n \in 1..Len(handled) :
          /\ handled[n].cmd = sent[n].cmd
          /\ handled[n].body = Units(n, "body", sent[n].size)

\* Whenever a completed read is about to be handled, the one buffer still belongs to
\* it: nothing has reallocated or freed it meanwhile, so the asserts of get<T>() and
\* get_binary() hold.
BufferOwned == result = "ok" => Holds(buffer, inflight.type)

\* An open connection always has a read on the socket, and while that is a body the
\* next preamble waits behind it, alone: neither is the reader left without a read,
\* nor do reads pile up in pending_read_operations.
NextPreambleAwaited ==
    open => /\ inflight # NoRead
            /\ pending = IF inflight.type = "binary" THEN <<PreambleRead>> ELSE <<>>

\* A peer that did not say HELLO is never served, however early its requests arrive
\* behind the wrong greeting and whichever handlers still run after the close.
NotServedUngreeted == handled # <<>> => greeting = "hello"

Arrived(n) == n <= Len(sent) /\ \A i \in 1..Len(outbox) : outbox[i].no # n

\* A request that has arrived in full is dealt with, or the connection is closed.
ArrivedIsHandled ==
    \A n \in 1..MaxRequests : Arrived(n) ~> Len(handled) >= n \/ ~open

\* A peer that stops in the middle of a HELLO or of a body does not keep the reader
\* waiting for ever: the deadline ends the read, whatever the network does
\* ("Closes connection if ... timer expired", connection.h:268).
TimedReadsEnd == \A op \in TimedReads : inflight = op ~> inflight # op
==============================================================================
