---------------------------- MODULE WritePipeline ----------------------------
(***************************************************************************)
(* The outgoing half of tcp_connection (connection.h, connection.cpp): one  *)
(* write at a time on the socket, the queue pending_write_operations for    *)
(* the others, a deadline for the write in progress.                        *)
(*                                                                         *)
(* What the server writes comes in chunks.  A pong is one chunk.  An error  *)
(* or a key-deleted notice is a pair: preamble and body, issued one after   *)
(* the other.  A key-updated notice is a value: only the preamble is issued *)
(* and its completion handler writes the body.  Every handler runs on the   *)
(* one thread of the io_context, so each is one action; the socket and the  *)
(* timer work between them.                                                 *)
(*                                                                         *)
(* A chunk is given to async_write_some, which may take a part of it only.  *)
(* handle_write_operation does not look at the number of bytes, and nothing *)
(* sends the rest: such a chunk is on the wire, and it is cut.  The peer has *)
(* lost its place in the stream then, so the first one is all that counts.   *)
(***************************************************************************)
EXTENDS Integers, Sequences

CONSTANTS Kinds,         \* the kinds of messages that are written
          MaxMessages,   \* bound: messages issued in a behaviour
          ShortWrites,   \* whether async_write_some may take a part of a chunk
          QueuedTimed    \* whether a queued preamble gets a deadline when performed

ASSUME WriteAssumption ==
    /\ Kinds \subseteq {"pong", "pair", "value"}
    /\ MaxMessages \in Nat
    /\ ShortWrites \in BOOLEAN
    /\ QueuedTimed \subseteq BOOLEAN /\ QueuedTimed # {}

VARIABLES
    open,                \* socket_.is_open()
    write_in_progress,
    inflight,            \* the chunk whose handle_write_operation has not run yet
    result,              \* of inflight: "none" until the socket is done with it
    pending,             \* pending_write_operations
    waits,               \* chunks whose handle_timeout_expiration has not run yet
    count,               \* messages issued
    script,              \* history: the chunks in the order they were issued
    wire,                \* history: the chunks in the order the socket took them
    cut                  \* history: where on wire the first chunk is of which the
                         \* socket took a part, 0 if there is none

vars == <<open, write_in_progress, inflight, result, pending, waits, count, script, wire, cut>>

Chunk == [msg : 1..MaxMessages, kind : Kinds, part : {"head", "body"}]
NoChunk == [msg |-> 0, kind |-> "none", part |-> "none"]

HeadOf(m, kind) == [msg |-> m, kind |-> kind, part |-> "head"]
BodyOf(c) == [c EXCEPT !.part = "body"]

\* The completion handler of this chunk (a lambda of send_value) writes a body.
WritesBody(c) == c.kind = "value" /\ c.part = "head"
IsValueBody(c) == c.kind = "value" /\ c.part = "body"

------------------------------------------------------------------------------
(* async_write_message and async_write_raw, on what they read and assign.   *)

Pipeline == [busy |-> write_in_progress, flight |-> inflight, queue |-> pending]

\* Faulty variant: the operation is pushed to the front of the queue.
WriteInFront(q, c) ==
    IF q.busy
    THEN [q EXCEPT !.queue = <<c>> \o @]
    ELSE [q EXCEPT !.busy = TRUE, !.flight = c]

Write(q, c) ==
    IF q.busy
    THEN [q EXCEPT !.queue = Append(@, c)]
    ELSE [q EXCEPT !.busy = TRUE, !.flight = c]

Becomes(q) ==
    /\ write_in_progress' = q.busy
    /\ inflight' = q.flight
    /\ pending' = q.queue

\* run_timer for the chunk that was started, unless its timeout is zero.
Timer(c, timed) == waits' = IF timed THEN waits \union {c} ELSE waits

------------------------------------------------------------------------------
(* Handlers of the server that write.                                       *)

\* Both chunks of a pair are issued at once, the body of a value later.
Issued(m, kind) ==
    IF kind = "pong" THEN <<HeadOf(m, kind)>>
    ELSE <<HeadOf(m, kind), BodyOf(HeadOf(m, kind))>>

Issue(kind) ==
    LET head == HeadOf(count + 1, kind)
        one  == Write(Pipeline, head)
        q    == IF kind = "pair" THEN Write(one, BodyOf(head)) ELSE one
    IN  /\ count < MaxMessages
        /\ count' = count + 1
        /\ script' = script \o Issued(count + 1, kind)
        /\ Becomes(q)
        /\ Timer(head, ~write_in_progress)
        /\ UNCHANGED <<open, result, wire, cut>>

------------------------------------------------------------------------------
(* The socket.                                                              *)

\* The socket takes the chunk in flight, or the first bytes of it.
Transmit(whole) ==
    /\ open
    /\ inflight # NoChunk /\ result = "none"
    /\ result' = "ok"
    /\ wire' = Append(wire, inflight)
    /\ whole \/ ShortWrites
    /\ cut' = IF whole \/ cut # 0 THEN cut ELSE Len(wire')
    /\ UNCHANGED <<open, write_in_progress, inflight, pending, waits, count, script>>

\* The peer is gone, or the socket was closed before or during the operation.
Fail ==
    /\ inflight # NoChunk /\ result = "none"
    /\ result' = "failed"
    /\ UNCHANGED <<open, write_in_progress, inflight, pending, waits, count, script, wire, cut>>

------------------------------------------------------------------------------
(* The handlers of tcp_connection.                                          *)

Idle == [busy |-> FALSE, flight |-> NoChunk, queue |-> pending]

\* Faulty variant: the queue is not served.
AfterWriteForgetsQueue ==
    IF WritesBody(inflight) THEN Write(Idle, BodyOf(inflight)) ELSE Idle

\* Faulty variant: front() without pop().
AfterWriteKeepsFront ==
    IF pending = <<>> THEN AfterWriteForgetsQueue
    ELSE Write(AfterWriteForgetsQueue, Head(pending))

\* Faulty variant: the queue is served before the chunk's own handler runs.
AfterWriteQueueFirst ==
    LET served == IF pending = <<>> THEN Idle
                  ELSE Write([Idle EXCEPT !.queue = Tail(@)], Head(pending))
    IN  IF WritesBody(inflight) THEN Write(served, BodyOf(inflight)) ELSE served

\* handle_write_operation: the flag and the timer are cleared, the chunk's own
\* handler runs, and after it the front of the queue is performed, which puts it
\* back at the end of the queue if that handler has started a write.
AfterWrite ==
    LET next == IF WritesBody(inflight) THEN Write(Idle, BodyOf(inflight)) ELSE Idle
    IN  IF next.queue = <<>> THEN next
        ELSE Write([next EXCEPT !.queue = Tail(@)], Head(next.queue))

\* Faulty variant: a timer is run although no operation was started.
TimerAlways(c) == {TRUE}

\* The deadline of the chunk that AfterWrite starts.  A body has the TIMEOUT its
\* writer passed.  A preamble comes from the queue and has what the constructor
\* of pending_write_operation<T> stored: it hands its own uninitialised member
\* timeout to its base class, in place of the parameter timeout_.
TimerChoices(c) ==
    IF c = NoChunk THEN {FALSE} ELSE IF c.part = "body" THEN {TRUE} ELSE QueuedTimed

HandleWritten ==
    /\ result = "ok"
    /\ result' = "none"
    /\ Becomes(AfterWrite)
    /\ \E timed \in TimerChoices(AfterWrite.flight) : Timer(AfterWrite.flight, timed)
    /\ UNCHANGED <<open, count, script, wire, cut>>

\* Faulty variant: the operation is tried again.
HandleFailedRetries ==
    /\ result = "failed"
    /\ result' = "none"
    /\ open' = FALSE
    /\ UNCHANGED <<write_in_progress, inflight, pending, waits, count, script, wire, cut>>

\* handle_write_operation after an error: every write is required, so it closes
\* the connection and returns before it clears write_in_progress.
HandleFailed ==
    /\ result = "failed"
    /\ result' = "none"
    /\ inflight' = NoChunk
    /\ open' = FALSE
    /\ UNCHANGED <<write_in_progress, pending, waits, count, script, wire, cut>>

\* The flag operation_done, shared by the two handlers of a write.
Done(c) == c # inflight

\* Faulty variant: the expiration is only logged.
HandleTimeoutLogs(c) ==
    /\ c \in waits
    /\ waits' = waits \ {c}
    /\ UNCHANGED <<open, write_in_progress, inflight, result, pending, count, script, wire, cut>>

\* handle_timeout_expiration, for a deadline that passed or that was cancelled.
HandleTimeout(c) ==
    /\ c \in waits
    /\ waits' = waits \ {c}
    /\ open' = (open /\ Done(c))
    /\ UNCHANGED <<write_in_progress, inflight, result, pending, count, script, wire, cut>>

\* The incoming half closes the connection: a read failed or timed out.
CloseByReader ==
    /\ open
    /\ open' = FALSE
    /\ UNCHANGED <<write_in_progress, inflight, result, pending, waits, count, script, wire, cut>>

------------------------------------------------------------------------------
Init ==
    /\ open = TRUE
    /\ write_in_progress = FALSE
    /\ inflight = NoChunk
    /\ result = "none"
    /\ pending = <<>>
    /\ waits = {}
    /\ count = 0
    /\ script = <<>>
    /\ wire = <<>>
    /\ cut = 0

Next ==
    \/ \E kind \in Kinds : Issue(kind)
    \/ \E whole \in BOOLEAN : Transmit(whole)
    \/ Fail
    \/ HandleWritten
    \/ HandleFailed
    \/ \E c \in waits : HandleTimeout(c)
    \/ CloseByReader

\* The io_context runs every handler that is ready, timers expire, and a closed
\* socket completes its operations with an error.  Nothing makes the peer read:
\* Transmit is not fair.
Fairness ==
    /\ WF_vars(HandleWritten)
    /\ WF_vars(HandleFailed)
    /\ \A c \in Chunk : WF_vars(HandleTimeout(c))
    /\ WF_vars(~open /\ Fail)

Spec == Init /\ [][Next]_vars
FairSpec == Spec /\ Fairness

------------------------------------------------------------------------------
(* Properties.                                                              *)

\* The variables keep their types: only chunks are in flight, queued and timed, and
\* no deadline runs without an operation that it is for.
TypeOK ==
    /\ open \in BOOLEAN
    /\ write_in_progress \in BOOLEAN
    /\ inflight \in Chunk \union {NoChunk}
    /\ result \in {"none", "ok", "failed"}
    /\ pending \in Seq(Chunk)
    /\ waits \subseteq Chunk
    /\ count \in 0..MaxMessages
    /\ script \in Seq(Chunk)
    /\ wire \in Seq(Chunk)
    /\ cut \in 0..Len(wire)

\* The queue never waits for nothing: while the connection is open, pending
\* operations imply a write whose handler will perform the next of them, although
\* handlers start writes of their own before the queue is looked at.
NoStall == open /\ pending # <<>> => inflight # NoChunk

\* The chunk in flight that is not on the wire yet.
Unsent == IF inflight # NoChunk /\ result # "ok" THEN <<inflight>> ELSE <<>>

Elements(s) == {s[i] : i \in 1..Len(s)}

\* Bodies that still are with the completion handler of their preamble.
Held == {BodyOf(c) : c \in {c \in Elements(pending) \union {inflight} : WritesBody(c)}}

\* On an open connection every chunk of every issued message is in exactly one
\* place: taken by the socket, once, in flight, queued, or held by the handler of
\* its preamble.  So all that such a connection loses is the end of the chunks
\* that are cut.
EachChunkPlaced ==
    open =>
        LET placed == wire \o Unsent \o pending
        IN  /\ \A i, j \in 1..Len(placed) : i # j => placed[i] # placed[j]
            /\ Held \intersect Elements(placed) = {}
            /\ Held \union Elements(placed) = Elements(script)

\* The chunk on the wire that follows the preamble of a key-updated notice is its
\* body, whatever is queued and re-queued meanwhile, and a body only follows its
\* preamble; either of them may be cut.
ValueFramed ==
    \A i \in 1..Len(wire) :
        /\ WritesBody(wire[i]) /\ i < Len(wire) => wire[i + 1] = BodyOf(wire[i])
        /\ IsValueBody(wire[i]) =>
               i > 1 /\ WritesBody(wire[i - 1]) /\ wire[i] = BodyOf(wire[i - 1])

\* The chunks on the wire are those that were issued, in that order.
InOrder ==
    /\ Len(wire) <= Len(script)
    /\ \A i \in 1..Len(wire) : wire[i] = script[i]

NoValues == \A i \in 1..Len(script) : script[i].kind # "value"

\* As long as no key-updated notice is written, the queue is a queue.
InOrderWithoutValues == NoValues => InOrder

Sent(m) == \A i \in 1..Len(script) : script[i].msg = m => script[i] \in Elements(wire)

\* The socket takes all chunks of every issued message, in full or cut, or the
\* connection is closed: a peer that does not read cannot hold the queue up for
\* ever (async_write_message has a "default timeout for connection",
\* connection.h:222).
Settles == \A m \in 1..MaxMessages : m <= count ~> Sent(m) \/ ~open

\* A closed connection comes to rest: handlers that were already queued when it
\* was closed, and writes issued after it, do not keep operations going.
ClosedComesToRest == ~open ~> [](inflight = NoChunk)
==============================================================================
