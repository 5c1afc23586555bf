# A TLA+ model of StateDB

StateDB is a key-value database that lives in memory and is reached over TCP: a
client says HELLO, sends GET, SET, PING and GET_ALL requests, and is notified of every
value that any client sets.  One thread runs the whole server (`asio_server::run` on one
`io_context`), so handlers never overlap; what interleaves is the order in which
completions, deadlines, errors and closes reach that thread.

This directory holds the specification modules (`*.tla`), the TLC configurations
(`*.cfg`), and `PROJECT.json`, which lists for every definition the source lines it
models, for every run what it checks, and the hazards the properties are aimed at.
Source paths below are relative to `src/StateDatabase/`.

## Inventory

| part | source | state | operations | what makes it hard |
|---|---|---|---|---|
| B+ tree index | `bpt.h`, `bpt_internal.h`, `leaf.h` | root, internal nodes with linked cells, chained leaves | get, set, delete_key, iterate | splits on several levels that share a cell between two lists; deletes that leave nodes without cells; an endless loop |
| leaf list | `list.h` | linked list, `m_size` | set, get_val_ptr, delete_key, split | four positions of a key; an uninitialised size |
| connection, outgoing half | `connection.h/.cpp` | `write_in_progress`, `pending_write_operations`, one deadline timer | async_write_message, async_write_raw, handle_write_operation, handle_timeout_expiration, close | handlers that start writes before the queue is served; deadlines racing completions |
| connection, incoming half | `connection.h/.cpp`, `dynamic_storage.h` | `read_in_progress`, `pending_read_operations`, one buffer, one deadline timer | start, received_hello, handle_message, handle_data, async_read_message, async_read_raw, close | one buffer for all reads; the next preamble asked for before the body is read; partial delivery; deadlines racing data |
| dispatch and request handlers | `asio_server.cpp`, `dispatcher.h` | table of handlers | ping, get, set, get_all; delete (not registered) | commands without a handler; broadcasts in the middle of other writes |
| server | `asio_server.h/.cpp` | table of connections by address | accept, register, post a removal, remove, broadcast | removals that run late or twice, raw pointers in queued handlers |
| database and objects | `db.h/.cpp`, `object.h/.cpp`, `hash.h` | the tree, keyed by hash | set_value, get_object, iterate, delete_key | colliding hashes |
| data types | `dtypes.h/.cpp` | a table of implementors | load_from, load_to, get_size | widths, bounds, empty values |
| storage file | `db_wrapper.h`, `db_header.h/.cpp`, `db.h` | one file with magic and header | load_data, verify_file, make_fresh, reload | a file judged by the wrong size, torn by a crash, written without a flush |
| program | `DBTestTerminal.cpp` | | load_data, serve, exit | a start that throws |

How they interact: the reader of a connection raises `on_new_message_`; the server
dispatches it; GET and SET load their body through the same reader; handlers read or
change the database and issue writes on one connection, or (SET) on all of them; a
connection that closes posts its removal to the same `io_context`.

What correctness means, part by part: the tree is a dictionary for `get` and for
`iterate`; a connection hands every message to the socket, once and in order, or closes; it
handles the requests of its peer whole, once and in order; nobody waits for a peer for
ever except for its next request; clients end up with the values the database has.

## Modules

| module | models | extends / uses |
|---|---|---|
| `KVStore` | the abstract dictionary: what the index promises of each call | |
| `LeafList` | `leaf_list` and `list_node` as operators on sequences | |
| `BPTree` | `bpt::tree` on an explicit heap | `LeafList`; refines `KVStore` twice |
| `WritePipeline` | the outgoing half of `tcp_connection` | |
| `ReadPipeline` | the incoming half and the dispatch | |
| `MCReadPipeline` | the requests that TLC lets the peer send | `ReadPipeline` |
| `Server` | `asio_server`: connection table, removals, request handlers, broadcast | |
| `MCServer` | two keys and their hashes for TLC | `Server` |
| `StateDB` | the database and one client's connection: what the client has been told | `WritePipeline` |
| `Codec` | the bytes of SET, GET and notices; data types, objects, hash | |
| `MCCodec` | keys and values at the limits of the types for TLC | `Codec` |
| `Storage` | the storage file and the start of the program | |
| `BPTreeShape` | the inductive invariant of the tree, its lemmas | `BPTree`, `LeafListProofs` |
| `BPTreeProofs` | theorems about the tree | `BPTreeShape` |
| `WritePipelineProofs` | theorems about the outgoing half and about what a client is told | `StateDB` |
| `LeafListProofs`, `ReadPipelineProofs`, `ServerProofs`, `CodecProofs`, `StorageProofs` | theorems | the module they are about |

### KVStore, BPTree and LeafList

A step of `KVStore` is one call, and what it leaves in `store` follows from the arguments
of that call: `Set(k, v)` binds k to v and nothing else, `Delete(k)` unbinds k, a call that
crashes changes nothing.  `BPTree` records the last call in `call`, a history variable, and
both refinements map it to that of `KVStore`.  So a set that is lost, or that binds another
key, is no step of the abstract dictionary, and it is no stutter either: `call` changes,
unless the call repeats the one before it, whose effect is in `store` already.

`heap.node` and `heap.cell` are the objects that `new` has made; pointers are indices.
The heap is explicit because `bpt_internal::split` moves the middle cell into the new
root without unlinking it from the left half, so one cell is in two lists.  Leaf entries
are never shared, so a leaf holds its list as a sequence and `LeafList` gives the list
operations as operators.  `Set` and `Delete` are one call of `tree::set` and
`tree::delete_key` each: `Path` is the descent, `LeafInsert`/`LeafDelete` the work in the
leaf, and `Return` applies `Unwind`/`Prune`, the work of an internal node, to the nodes of
the path on the way back.  Walks along pointers are `Collect` and `Trail`; they count
their steps, so that they are defined on every heap.  `status` becomes "crashed" where the code dereferences null and "hung" where
the loop of `delete_child` cannot end; `ret` is what `delete_key` returned.
`leaf_list::m_size` is uninitialised in the code: `Uninit` is the set of values it may
hold (`{0}` in the passing runs, which is what fresh zeroed memory gives).

### WritePipeline

A message is one or two chunks: a *pong* has no body; a *pair* (errors, key-not-found)
issues preamble and body at once; a *value* (key-updated) issues its preamble, and the
preamble's completion handler issues the body.  `Write` is what async_write_message and
async_write_raw do; `AfterWrite` is handle_write_operation: clear the flag, run the
chunk's own handler, then pop the front of the queue and perform it, which may put it
back at the end.  `waits` are the deadlines whose handler has not run; a cancelled one
still runs, and finds its operation done.  The socket is nondeterministic: `Fail`, and
`Transmit`, which takes the chunk in flight or, where `ShortWrites` allows it, only the
first bytes of it: `async_write_some` may do that, and `handle_write_operation` does not
look at `bytes_transferred`, so it goes on as if the rest had been sent.  `QueuedTimed` are
the outcomes of the uninitialised timeout of a queued preamble.  `script`, `wire` and `cut`
are history: what was issued, what the socket took, whole or cut, and the place on the
wire of the first chunk that was cut.

### ReadPipeline

The peer's stream is a sequence of units, each knowing which request and part it belongs
to; HELLO and preambles are two units, bodies as many as the request says, so a part can
arrive and be read in pieces.  `Read` is async_read_message/async_read_raw, including the
allocation of the one buffer; `HandleHello`, `HandlePreamble` and `HandleBody` are
handle_data with the handler it was given, including the perform() of the queue's front
at its end.  A completed read whose buffer is not its own would fail an assert of
`dynamic_storage`; the assert is a guard of the handler and `BufferOwned` says it always
holds.  `ShortReads` lets `async_read_some` return early, which TCP permits.  `Preamble`
says what the bytes that were read are taken for: the first half of a preamble is its
command with a size of zero (`Truncated`), because the buffer is zeroed; a read that starts
with the second half takes a size for an id, which for a size of zero is that of no command
(`Unregistered`).  Only what starts elsewhere, in a body, may be any request.

### Server

`connections` is the table of the server; it holds the only `shared_ptr` to a connection,
so a connection that is not in it (`~Registered`) has been destroyed.  `Accept` is
handle_accept with its assignment to the table, `AcceptFails` the exception that init()
throws when the accept failed or the peer is gone (it leaves `run()`, so `running` ends),
`Close` is close() with the removal it posts, `HandleRemove` the removal.  close() may run
again, also after the removal, because handlers are bound to the raw pointer: the memory
is then taken to hold the address still.  The request handlers change `store`, the
objects by hash as in `KVStore`, and `told`, the last notice about each key that was
issued on each connection; PONG and ERROR are about no key.  `HandleBadSet` is set_handler
turning a request down before it calls set_value.  `SetValue` is db::set_value, which loads
the object from the body before it stores it; `HandleShortSet` is the request for which
loading throws, `HandleSet` that for which it does not.  A request can be handled on a connection that
is closed but still in the table; it was read before the close.  `Hash` and
`ReuseAddress` are the environment: the hash function, and whether a peer can come back
from a port it used before.

### StateDB

`Server` knows what was issued to a client, `WritePipeline` in which order chunks are
sent; `StateDB` puts the two together for one client.  It extends `WritePipeline`: every
action of the connection is taken over (`Deliver`), and `HandleSet` (of any client),
`HandleGet` and `HandlePing` issue a message and record in `about` what it says.  The text
of a notice is copied when it is issued, as in send_value.  The database may hold objects
when the client connects (`StateDBInit`), of which the client is told nothing before it
asks.  `Buckets` are the keys, those that share a hash together: they share an object, and
a GET is answered under the key of that object.  What the client has been told ends before
the first chunk that was cut (`ToldOf`), where it loses its place in the stream.

### Codec

A body is a sequence of bytes.  `KeyOf`, `HasDtype`, `TypeOf` and `ValueOf` are the
parsing of set_handler, `Fits` the calls of require_at_least, `LoadFrom`, `GetSize` and
`LoadTo` the three functions that every data type implements, `Notice` the body that
send_value puts together.  An object holds exactly the bytes that were allocated for it,
so that a copy or a strlen past them is a fact of the model (`Overruns`, `ReadsPast`);
the program's behaviour is undefined from there and the model stops
(`HandleSetUndefined`).  The length field of a blob has `HeaderBytes` bytes and wraps like
the uint32_t it is kept in, while what copy_to copies is a 64-bit size_t and does not (in
a 32-bit build it wraps as well, and the object is too short for its own length field).
`Hash` is the hash of `hash.h`, characters signed as on x86; `Poly` is the polynomial it
stands for, wrapped once at the end instead of at every step.  Of `bigint` only decimal
digits are modelled (`DigitsAssumption`): leading zeros go, "" is 0.

### Storage

A file is its length and the number of its first bytes that are as make_fresh writes
them.  A start opens or creates it and then makes it fresh, reloads it or is refused;
`StartFails` is a file that cannot be opened, or the delete of the uninitialised member
`inner`.  What make_fresh writes is in the stream's buffer: `Flush` hands a prefix to the
operating system, `Crash` ends the process without closing the stream (`dbw` is a local
variable of `main`, which is left by exit, by an exception or by a signal), `PowerLoss`
may leave the length of the file without all its bytes.  clear_file opens with
`in | trunc`, which fails, so the old content stays under what is written.  The magic
that is read is a const member with an initial value: bytes that are not there compare
equal, and a build (`folded`) may leave out the comparison.

## Runs

| run | module / cfg | result |
|---|---|---|
| `tree_set` | `BPTree` / `BPTreeSet.cfg` | passes |
| `tree_delete` | `BPTree` / `BPTreeDelete.cfg` | passes |
| `tree_uninit` | `BPTree` / `BPTreeUninit.cfg` | `Serves` violated |
| `write_pipeline` | `WritePipeline` / `WritePipeline.cfg` | passes |
| `write_deadline` | `WritePipeline` / `WriteDeadline.cfg` | `Settles` violated |
| `read_pipeline` | `MCReadPipeline` / `ReadPipeline.cfg` | passes |
| `read_short` | `MCReadPipeline` / `ReadShort.cfg` | `HandledAsSent` violated |
| `server` | `MCServer` / `Server.cfg` | passes |
| `server_reuse` | `MCServer` / `ServerReuse.cfg` | `InUseIsRegistered` violated |
| `notify_stale` | `StateDB` / `NotifyStale.cfg` | `CopyIsCurrent` violated |
| `codec` | `MCCodec` / `Codec.cfg` | passes |
| `storage` | `Storage` / `Storage.cfg` | passes |

**tree_set.**  Eight keys inserted in every order at order 3 (the smallest that splits
sensibly; the program uses 6): leaves, internal nodes and new roots on three levels
split, and an insert before the first cell of an internal node happens, the case where
the code keeps a handed-up root whole.  What `get` sees is the dictionary `KVStore` after
every call, with the key and value of that call, and `iterate` visits the same entries in
ascending order; sizes are what they stand for, nothing crashes.

**tree_delete.**  Five keys, two values, sets and deletes in every order, at most
seven nodes in the heap (`MaxNodes` bounds how often a tree is built anew).  The search
is left to stop where a call hangs or crashes, so deadlock is not checked.  What
`iterate` visits is the dictionary `KVStore`: it changes by exactly the key that the call
was given, also in calls that hang or report the delete as not done; no freed cell is reached; what `get` finds, `iterate`
visits.  `get` itself may crash after deletes: deleting the keys of a node's children one
by one leaves the node without cells and still linked, and the next `get` through it
dereferences null.  The program's clients cannot reach that, as the handler of DELETE is
not registered.

**tree_uninit.**  With `m_size` starting at 5 instead of 0 the first set into a leaf
splits a list of one node, which crashes.  The source initialises `m_root` and not
`m_size`.

**write_pipeline.**  Three messages of every kind; three are the fewest in which a value
in flight has two operations queued behind it, which is when re-queueing matters.  The
connection can fail, time out or be closed by its reader at any moment, and the socket may
cut every chunk (`ShortWrites = TRUE`).  So the properties are about chunks: every chunk is
given to the socket once (`EachChunkPlaced`), the body of a value next after its preamble
(`ValueFramed`), or the connection is closed (`Settles`).  They hold whatever is cut, which
is to say that the connection goes on as if nothing had been: the peer of a connection with
a cut chunk has lost its place in the stream.  No document promises that it does not, so no
run states it; `StateDB` takes the chunks from there on for lost.

**write_deadline.**  A queued preamble performed with a zero timeout has no deadline; a
peer that stops reading then holds up the queue for ever.

**read_pipeline.**  Three requests of every kind (no body, not registered, a body of one
and of two units), behind a right or a wrong HELLO.  This run assumes that a read is
filled before it completes (`ShortReads = FALSE`).  Commands without a handler are sent
without a body; DELETE has a body and no handler (init_dispatcher does not register
delete_handler), so its body would be taken for the next preamble.  No run sends one.

**read_short.**  The same without that assumption: the second half of a preamble is taken
for a new one.

**server.**  Two connections from two ports, two closes each, two keys with different
hashes and two values, three requests.  Two connections show a removal against another
connection's entry and a SET against another client's copy; two closes show a late second
removal; three requests show GET_ALL, a SET by another client and one more.  Assumed:
ports are not reused (`ReuseAddress = FALSE`) and hashes do not collide.

**server_reuse.**  With ports reused: the peer of connection 1 goes and comes back from
the same port as connection 2 before the server has noticed; connection 1 fails and posts
a removal, which erases the entry of connection 2 and destroys it.

**notify_stale.**  Three SETs of one key while a client reads slowly.  When the preamble
of the first notice is sent, its handler starts the body; the second notice is popped from
the queue, finds a write in progress and goes to the end, behind the third.  The client is
told the second value last, on a connection that stays open with an empty queue.  Every
chunk is sent whole here and no two keys share a hash, so that the order is the reason.  Three
messages are the fewest that show it: with one operation queued, going to the end of the
queue changes nothing.

**codec.**  Three requests from 56 SET bodies and the GETs of their keys: for every type
values that are a byte short, exact and a byte long, with and without a zero byte; blob
lengths that are right, too large and at the limit; bodies that end early; two keys with
one hash ("aB" and "b!"), a key with a negative character, the empty key.  A byte has 256
values and the length field two bytes instead of four, as TLC's integers have 32 bits;
its wrap happens at 2^16 in the same way.  `AcceptsWellFormed` compares the parser with a
grammar, `AnswersLatest` the stored bytes with what a value means and the hash with the
polynomial it stands for.

**storage.**  Every file of up to 23 bytes at the first start, with a magic of 3 bytes, 14
bytes of fields and a limit of 20.  In the program it is 7, 290 and sizeof(db_header),
which is 312 in a 64-bit and 300 in a 32-bit build; only the order of the three matters,
and the theorems hold for all of them.  `LargeFileUntouched` says that what is at or above
the limit is left alone.  It does not say that what is below deserves to be rewritten, and
it does not deserve it: make_fresh writes 297 bytes and verify_file asks for the size of
the header in memory, so every start takes the intact file of the one before for one that
"is empty or was corrupted" (`db_wrapper.h:77`) and rewrites it.  That is stated and proved
as `NothingIsReadBack`, below; nothing that the program has written is ever loaded.

Deadlock is not checked where bounds let the system stop (server, codec), nor in the
pipelines: a peer that is silent and a connection that is closed may stay so.

**Fairness.**  `io_context::run` runs every ready handler, so the handlers are weakly
fair; deadlines expire, so `HandleTimeout` is; a closed socket completes its operations,
so `Fail` is once the connection is closed; a read gets data that has arrived.  Nothing
makes the peer read or send: `Transmit`, `SendRequest` and `Arrive` are not fair, and
the liveness properties hold because of the deadlines alone.  In `Server` posted removals
run, and a connection whose peer has gone is closed, because an open connection always has
a read outstanding (`NextPreambleAwaited`) that then fails.

## Proofs

`LeafListProofs` shows for lists of any length, any integer keys and any values that
`leaf_list` is a dictionary: `SetKeepsSorted`, `GetAfterSet`, `DeleteKeepsSorted`,
`GetAfterDelete`.  The argument: the walk of `set` stops (`StopProperties`, from the
least index whose successor is above the key), so the new node has smaller keys before
it and larger ones behind it (`SetCases`); in an ascending list a key has one node
(`FirstHitIsOnly`).  No assumption on constants is used.

`BPTreeProofs` shows for every set of integer keys, every order from 3 on, every width of
size_t above it and any number of calls (`TreeAssumption`), provided that the memory of a
new leaf is zero (`Zeroed`; other memory makes a set crash, see `tree_uninit`), that under
any sets and under deletes that unlink no child (`SparingSpec`) the tree is a dictionary:
`SparingTree`, `SparingTyped`, `SparingServes`, `SparingSizes`, `SparingLookup` (the
refinement of `KVStore` by `get`), `SparingSorted`, `SparingComplete`, `SparingFound` and
`SparingIteration` (the refinement of `KVStore` by `iterate`).

- A delete is sparing if it returns and frees no cell (`DeleteEntry`).  It may empty a
  leaf: where that leaf is its parent's `m_lesser`, or the deleted key is not that of the
  cell, delete_child is not called or finds nothing.  The others do not return, or free a
  cell and leave the node's size as it was, after which a node can be without cells and a
  later `get` or `set` crashes (`tree_delete`), so `SparingServes`, `SparingSizes` and
  `SparingLookup` are not true of all deletes.
- That a delete is sparing is a condition on its outcome.  `Roomy` is one that its caller
  can see to, that the leaf has another entry, and `RoomyIsSparing` and
  `RoomyDeletesReturn` show that it suffices: such a delete returns on every level,
  frees nothing, and returns true exactly when `get` would have found the key.
- A caller that never deletes (`SetOnly`) makes `Spec` sparing, so everything above holds
  of `Spec`: `TreeCorrect`, `TypeCorrect`, `ServesCorrect`, `SizesCorrect`,
  `LookupCorrect`, `IterationInOrder`, `IterationComplete`, `IterationCorrect`.  The
  server is such a caller, as it registers no handler of DELETE.

How they are proved:

- The invariant `TreeInv` says that there is a record g with which the heap is a `Tree`
  (`BPTreeShape`).  g gives every node the keys that calls reach it with (`resp`), the
  cells that it owns (`own`), a rank above its children's and its parent; every key a
  leaf (`home`); every leaf its place in the chain (`pos`).  The properties alone are far
  from inductive: after a split of an internal node its middle cell is in the list of the
  left half and in that of the new root, where its child changes at once and its
  successor with further splits.  That does not matter
  because the cells that a node shares come after those that it owns, and the first of
  them is above every key that reaches the node (`CellsOf`), so no walk goes that far.
- In the middle of a set the parent does not know yet that its child was split.  `Gap`
  says which keys it sends to the wrong node; `Crown` describes the new root that an
  internal node hands up.  One lemma for each thing that the code does says how the gap
  moves: `LeafStore` and `LeafSplit` in the leaf, `InsertCell` closes it with a cell,
  `Adopt` moves it to the handed-up root that is kept whole, `SplitNode` opens the next one,
  `NewRoot` ends it at the top, `Plant` is the first set.  Each of them leaves alone what
  other nodes know (`Grown`, `LeadsKept`) and the value of every key (`Value`).
- In a delete only the leaf changes (`LeafDeleteIs`), by `StoreIs`, which a set into a leaf
  with room uses as well.  On the way back only the call for the leaf's parent can find
  its child empty (`PruneFirst`): the children of the nodes above it are internal, and
  those have a size that is not zero (`PruneOn`).
- `BPTreeProofs` shows that the operators of `BPTree` make such heaps (`InsertIs`,
  `SplitIs`, `LeafInsertIs`, `UnwindStep`), that this carries along the whole path
  (`Climb`, and `ShrinkIs` and `RoomyIs` for deletes, by induction over `Return`), and what
  follows from `Tree` for get, iterate and the sizes.  A walk is the one that the invariant
  predicts because it goes down the ranks (`RankedTrail`: the descent) or the positions
  (`ListingIs`: the leaf chain).

`WritePipelineProofs` shows for every set of kinds, every bound on the messages and both
outcomes of the uninitialised timeout (`WriteAssumption`):

- `TypeCorrect` and `NeverStalls`, from the inductive invariant `TypeOK /\ FlightInv`.
  `NoStall` alone is not inductive: that a queue implies a write in flight needs that the
  flag `write_in_progress` and the operation in flight agree as long as the connection is
  open (they do not after a failure, which leaves the flag set).
- `ValuesAreFramed`, from `FramingInv`: `ValueFramed` with what makes the next step keep
  it: a value's preamble that is last on the wire is either still to be handled or has
  its body in flight, and no body of a value is ever in the queue, because the handler
  that issues it always finds the pipeline idle.
- `OrderWithoutValues`, from `OrderInv`: without values, the script is exactly the wire,
  then the chunk in flight, then the queue.
- `EachChunkIsPlaced`, from `PlaceInv`: every chunk that was issued on an open connection
  is in exactly one place, on the wire (whole or cut), in flight, in the queue, or held back
  until the preamble of its value has been handled.  No chunk occurs twice, because a
  message that is issued has a number that no chunk anywhere has.  Nothing is assumed of the
  socket: `ShortWrites` may be TRUE.

It shows of `StateDB`, for any keys, values and hashes and any objects that were stored
before the client connected, if the server writes messages of all kinds (`AllKinds`, which
it does):

- `ConnectionImplemented`: the connection of `StateDB` is a `WritePipeline`, so all of the
  above holds of it.
- `ChangesAreWritten` (`ChangesAreOnTheWire`): when an open connection has nothing left to
  write and nothing was cut, a notice with the value in the database is on the wire for
  every key that was set since the client connected and shares its hash with no other.  It
  need not be the last notice about that key: that is what `notify_stale` shows.
- `StaleHasAReason` (`CurrentIfInOrder`): if moreover the wire has kept the order in which
  the messages were issued, the last notice about such a key is the current one.  So a copy
  at rest is stale for one of three reasons: messages were reordered, a chunk was cut, or
  keys share a hash.  Each of the hypotheses is needed; a late look-up is not a fourth.
- Both come from `TellingInv`: the object of a key is what the message about it with the
  highest number tells, and messages are issued in the order of their numbers.
  `PlaceInv` takes this over to the wire: at rest, what was issued has been sent.

`ReadPipelineProofs` shows for every set of requests, any number of them and any
delivery of their bytes (`ReadAssumption`):

- `AlwaysAwaitsNext`, `UngreetedNeverServed` and, if no GET or SET is empty
  (`BodiesNotEmpty`), `BufferIsOwned`, from `ReaderInv`: which operations can be in
  flight and queued together (`FlightInv`, `QueueInv`: the queue holds at most the next
  preamble, and only behind a body), and what is known of the peer (`PeerInv`).  Behind
  a wrong HELLO the reader never gets further than that HELLO, of which it has kept the
  bytes that make it wrong (`JunkInv`).  An empty body really fails the assert of
  `dynamic_storage` (see the hazards), so the hypothesis cannot be dropped.
- `InStepWithStream` and `TypeCorrect`, if every read is filled and a request has a body
  exactly when its handler loads one (`Framed`; `read_short` shows that the first half of
  this is needed, DELETE that the second is): the reader is always at the unit of the
  stream at which the part that it awaits begins.  `InStepInv` says where that is with an
  offset for every request, which exists and of which only the recurrence is used, so no
  recursion over the stream is needed.

`ServerProofs` shows for any number of connections, closes, addresses, keys, values and
requests (`ServerAssumption`):

- `TypeCorrect`.
- `InUseStays`, provided that no address is used twice (`Unique`), from `TableInv`: the
  property alone is not inductive, because it says nothing of the removals that are still
  posted; these are all for connections that were closed (`PostedInv`), and addresses
  tell connections apart (`AddrInv`).
- `NoticesStayCurrent` and `CopyStaysComplete`, provided in addition that no two keys
  share a hash (`Injective`), from `DataInv` on top of `TableInv`: an open connection is
  in the table, so every broadcast reaches it; an object is stored under the hash of its
  own key (`StoreInv`), so a GET answers about the key it was asked for; a connection
  that is not accepted yet has been told nothing (`FreshInv`).

`CodecProofs` shows for any set of SET bodies, any base of a byte above the digits, any
width of the length field and of the hash, and any table of types of static size
(`CodecAssumption`, `TypesAssumption`, `DigitsAssumption`; `PowersAssumption` is
arithmetic that the provers lack):

- `CodecInvariant`, and from it `TypeCorrect`, `AcceptsExactly`, `OnlyEdgesUndefined`,
  `NoticesFilled` and `NoticesStoreSame`.  The invariant `CodecInv` says of every object
  that it is stored under the hash of its key and that its memory is what its type
  allocates and fills for it (`Sound`): a blob as long as its length field says, a string
  up to its first zero byte, a number in canonical digits.  `NoticeStoresSame`
  is about bodies that no client need have sent, so it takes the whole way back: the parts of a
  notice are found where `Notice` put them (`NoticeParts`), and loading them allocates
  what the object already has (`LoadToIs`).
- `LatestAnswered`, from `LatestInv`: for every hash, the stored object means what the
  last accepted SET of that hash said (`MeaningKept`; for numbers, that dropping leading
  zeros keeps the value, `NumberKept`), and `HashGivesPoly`: wrapping at every step of the
  hash is wrapping its polynomial once, so two keys share an object exactly when their
  polynomials are congruent.
- These facts need induction over the bytes of a text.  The library's induction theorems
  cannot be used (they take a predicate); `LeastNatural` derives from its theorem on
  well-founded relations that a non-empty *set* of naturals has a least element, and the
  lemmas apply it to the set of counterexamples.  `RecursionExists` gives from it that the
  recursive functions satisfy their equations.  Both are in `LeafListProofs`, as the
  proofs about the tree use them too.

`StorageProofs` shows for every layout in which the header in memory is larger than what
is written (`StorageAssumption`, true of the code because of its padding and virtual
tables): `TypeCorrect`, `RestartsAreServed`, `LargeFilesStay` and `NothingIsReadBack`, which
states a defect: what make_fresh wrote is not loaded by any later start.  The invariant `Inv` adds what a crash leaves to the next start: a file
that was or will be written is below the limit, and a write keeps it there; a file above
it is never written, so its magic verifies at every start or at none.

Only model-checked: the liveness properties of the pipelines and the server, which the
prover does not cover, and what `tree_delete` checks of deletes that unlink a child
(`IterationSorted`, `IterationImplementsStore`, `FoundIsIterated`, `NoDanglingCell`): they
leave nodes without cells and cells that the size of the node does not count, of which
`Tree` is not true.  `NoDanglingCell` has no theorem at all, because under `SparingSpec`
no cell is freed and it would say nothing.

## Plan

1. (done) `KVStore`, `LeafList`, `BPTree`, `WritePipeline`, `ReadPipeline`, `Server`, their
   runs and theorems.
2. (done) `StateDB`, `Codec`, `Storage` and its theorems.
3. (done) Theorems: `EachChunkPlaced`; the safety properties of the reader and of
   the data types.
4. (done) Theorems about `BPTree` under sets, and under deletes that unlink no child.
5. (done) Theorems about `StateDB`: what has been written to a client, and when its copy is
   current; short sends, keys that share a hash, a database that is not empty at first.
6. Open: an inductive invariant for deletes that unlink a child.

## Not modelled

- spdlog with its bundled fmt (two copies, in `src/spdlog` and `src/StateDatabase/spdlog`)
  and `optionparser.h`: third-party code that makes up about nine tenths of the lines of
  the repository.  Of StateDB's own code, some 4,000 lines with declarations and includes,
  the map covers about half.
- `bigint.h` beyond reading and printing digits: third-party arithmetic without a caller.
- `segment_container.h`, `db_vector.h`, `net_utils.cpp`, the stream helpers of `utils.cpp`:
  nothing calls them.
- Logging, formatting, configuration constants, the timer that prints statistics: no
  state that anything reads.
- The handlers clear_all, inc and dec, and `db::add`: they have no body or change nothing.
- What the peer makes of a stream in which a chunk was cut, beyond losing its place; and a
  DELETE with its body, of which the same would be true for the server.
- A peer that vanishes without its socket noticing: the read of a preamble has no deadline
  (`connection.cpp:256`), so `GoneIsRemoved` is about peers whose end is reported.
- Requests with an empty body, which fail an assert in the code.
- What is behind `server.run()` in `main`: it is not reached, because the acceptor is armed
  again after every accept and an exception leaves `main`.
