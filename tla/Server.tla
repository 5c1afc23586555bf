-------------------------------- MODULE Server --------------------------------
(***************************************************************************)
(* asio_server (asio_server.h, asio_server.cpp) over the database (db.cpp,  *)
(* object.cpp): the accept loop, the table of connections by address, the   *)
(* removals that a closing connection posts, the request handlers and the   *)
(* broadcast of a new value.                                                *)
(*                                                                         *)
(* The table holds the only shared_ptr to a connection: an entry that is    *)
(* erased or overwritten destroys the connection, whose handlers are bound  *)
(* to the raw pointer and may still run.  Of the notices that handlers      *)
(* issue on a connection the model keeps the last one about each key; how   *)
(* notices get to the socket is the business of WritePipeline.              *)
(***************************************************************************)
EXTENDS Integers, Sequences

CONSTANTS Address,         \* what get_id() may return, "IP:PORT"
          Key, Val,        \* keys and values (with their types) of the database
          Hash,            \* make_hash
          NoObject,        \* get_object found nothing
          ReuseAddress,    \* a peer may come back from the port of an earlier one
          MaxConnections,  \* bound: connections that are accepted
          MaxCloses,       \* bound: calls of close() on one connection
          MaxRequests      \* bound: requests that are handled

Conn == 1..MaxConnections
NoConn == 0
Object == [key : Key, val : Val]

ASSUME ServerAssumption ==
    /\ Hash \in [Key -> Nat]
    /\ NoObject \notin Object
    /\ ReuseAddress \in BOOLEAN
    /\ MaxConnections \in Nat /\ MaxCloses \in Nat /\ MaxRequests \in Nat

VARIABLES
    running,       \* io_service_.run() has not thrown
    addr,          \* address_string of the connections, in the order of their accepts
    left,          \* the connections whose peer has gone
    closes,        \* how often close() was called on each connection
    connections,   \* the table; NoConn where an address has no entry
    posted,        \* handle_connection_remove handlers that wait in the io_context
    store,         \* the objects of the tree, by hash
    told,          \* history: the last notice about each key, on each connection
    synced,        \* history: the connections on which GET_ALL was answered
    count          \* requests handled so far

table == <<running, addr, left, closes, connections, posted>>
data == <<store, told, synced, count>>
vars == <<table, data>>

Accepted == 1..Len(addr)
Registered(c) == c \in Accepted /\ connections[addr[c]] = c
Open(c) == c \in Accepted /\ closes[c] = 0

------------------------------------------------------------------------------
(* Connections.                                                             *)

\* The network: no two peers that are there have the same address.
AddressFree(a) ==
    \A c \in Accepted : addr[c] = a => ReuseAddress /\ c \in left

\* handle_accept without an error.  is_listening_ is set once and never reset.
Accept(a) ==
    /\ running
    /\ Len(addr) < MaxConnections
    /\ AddressFree(a)
    /\ addr' = Append(addr, a)
    /\ connections' = [connections EXCEPT ![a] = Len(addr) + 1]
    /\ UNCHANGED <<running, left, closes, posted, data>>

\* handle_accept with an error, or for a peer that has gone meanwhile: init() asks
\* for the remote endpoint first, and the exception leaves run().
AcceptFails ==
    /\ running
    /\ running' = FALSE
    /\ UNCHANGED <<addr, left, closes, connections, posted, data>>

PeerLeaves(c) ==
    /\ running
    /\ c \in Accepted \ left
    /\ left' = left \union {c}
    /\ UNCHANGED <<running, addr, closes, connections, posted, data>>

\* Faulty variant: the removal is not posted.
PostRemovalNever(c) == posted

\* handle_connection_close
PostRemoval(c) == Append(posted, addr[c])

\* close(): a read or a write failed or timed out.  Whatever else was under way fails
\* on the closed socket and closes again, also when the connection is destroyed.
Close(c) ==
    /\ running
    /\ c \in Accepted
    /\ closes[c] < MaxCloses
    /\ closes' = [closes EXCEPT ![c] = @ + 1]
    /\ posted' = PostRemoval(c)
    /\ UNCHANGED <<running, addr, left, connections, data>>

\* Faulty variant: the oldest entry that is left is erased, whatever its address.
ErasedAny(a) ==
    LET used == {b \in Address : connections[b] # NoConn}
    IN  [b \in Address |->
            IF b \in used /\ \A d \in used : connections[b] <= connections[d]
            THEN NoConn ELSE connections[b]]

\* connections.erase
Erased(a) == [connections EXCEPT ![a] = NoConn]

\* handle_connection_remove
HandleRemove ==
    /\ running
    /\ posted # <<>>
    /\ connections' = Erased(Head(posted))
    /\ posted' = Tail(posted)
    /\ UNCHANGED <<running, addr, left, closes, data>>

------------------------------------------------------------------------------
(* Requests.  A handler runs for a connection that exists; it may have been  *)
(* closed after its request was read.                                       *)

\* Faulty variant: the preamble of the other notice is used.
UpdatedAsDeleted(o) == [kind |-> "deleted", key |-> o.key, val |-> o.val]

Updated(o) == [kind |-> "updated", key |-> o.key, val |-> o.val]
Deleted(k) == [kind |-> "deleted", key |-> k]
NoNotice == [kind |-> "none"]

Notice == [kind : {"updated"}, key : Key, val : Val] \union [kind : {"deleted"}, key : Key]

\* get_handler::send_value(conn, server, key): the object is found by the hash, and
\* the notice carries the key of the object.
Answer(k) ==
    LET o == store[Hash[k]] IN IF o = NoObject THEN Deleted(k) ELSE Updated(o)

Request(c) ==
    /\ running
    /\ Registered(c)
    /\ count < MaxRequests
    /\ count' = count + 1
    /\ UNCHANGED table

\* Replies that are about no key: PONG, and the ERROR for a SET that is turned down
\* because there is no room for the type or the type is unknown.
HandlePing(c) == Request(c) /\ UNCHANGED <<store, told, synced>>
HandleBadSet(c) == Request(c) /\ UNCHANGED <<store, told, synced>>

HandleGet(c, k) ==
    /\ Request(c)
    /\ told' = [told EXCEPT ![c][Answer(k).key] = Answer(k)]
    /\ UNCHANGED <<store, synced>>

\* Faulty variant: the connection that has sent the SET is not told.
NotifiedOthers(c) == {d \in Accepted : Registered(d) /\ d # c}

\* apply_all_connections
Notified(c) == {d \in Accepted : Registered(d)}

\* Faulty variant: tree->set is called before load_from.
SetValueUnloaded(o, short) == [store EXCEPT ![Hash[o.key]] = o]

\* db::set_value: load_from comes before tree->set, and throws unsufficient_space when
\* the body is too short for the value.
SetValue(o, short) == IF short THEN store ELSE [store EXCEPT ![Hash[o.key]] = o]

\* set_handler when db::set_value throws: the sender gets an ERROR, nobody is told.
HandleShortSet(c, k, v) ==
    /\ Request(c)
    /\ store' = SetValue([key |-> k, val |-> v], TRUE)
    /\ UNCHANGED <<told, synced>>

\* set_handler, with db::set_value before the broadcast.
HandleSet(c, k, v) ==
    LET o == [key |-> k, val |-> v]
    IN  /\ Request(c)
        /\ store' = SetValue(o, FALSE)
        /\ told' = [d \in Conn |-> IF d \in Notified(c)
                                   THEN [told[d] EXCEPT ![k] = Updated(o)] ELSE told[d]]
        /\ UNCHANGED synced

\* db::iterate: the hashes that it visits.
Iterated == {h \in DOMAIN store : store[h] # NoObject}

\* get_all_handler: every object is looked up again by its key.
HandleGetAll(c) ==
    LET keys == {store[h].key : h \in Iterated}
    IN  /\ Request(c)
        /\ told' = [told EXCEPT ![c] = [k \in Key |-> IF k \in keys THEN Answer(k) ELSE @[k]]]
        /\ synced' = synced \union {c}
        /\ UNCHANGED store

------------------------------------------------------------------------------
\* start_listening() was called on a server with an empty database.
Init ==
    /\ running = TRUE
    /\ addr = <<>>
    /\ left = {}
    /\ closes = [c \in Conn |-> 0]
    /\ connections = [a \in Address |-> NoConn]
    /\ posted = <<>>
    /\ store = [h \in {Hash[k] : k \in Key} |-> NoObject]
    /\ told = [c \in Conn |-> [k \in Key |-> NoNotice]]
    /\ synced = {}
    /\ count = 0

Next ==
    \/ \E a \in Address : Accept(a)
    \/ AcceptFails
    \/ \E c \in Conn : PeerLeaves(c) \/ Close(c)
    \/ HandleRemove
    \/ \E c \in Conn : HandlePing(c) \/ HandleBadSet(c) \/ HandleGetAll(c)
    \/ \E c \in Conn, k \in Key : HandleGet(c, k)
    \/ \E c \in Conn, k \in Key, v \in Val : HandleSet(c, k, v) \/ HandleShortSet(c, k, v)

\* A posted handler runs; the read that is always outstanding on an open connection
\* (ReadPipeline, NextPreambleAwaited) fails when the peer has gone.
Fairness ==
    /\ WF_vars(HandleRemove)
    /\ \A c \in Conn : WF_vars(c \in left /\ Open(c) /\ Close(c))

Spec == Init /\ [][Next]_vars
FairSpec == Spec /\ Fairness
------------------------------------------------------------------------------
(* Properties.                                                              *)

TypeOK ==
    /\ running \in BOOLEAN
    /\ addr \in Seq(Address) /\ Len(addr) <= MaxConnections
    /\ left \subseteq Accepted
    /\ closes \in [Conn -> 0..MaxCloses]
    /\ connections \in [Address -> Conn \union {NoConn}]
    /\ posted \in Seq(Address)
    /\ store \in [{Hash[k] : k \in Key} -> Object \union {NoObject}]
    /\ told \in [Conn -> [Key -> Notice \union {NoNotice}]]
    /\ synced \subseteq Accepted
    /\ count \in 0..MaxRequests

InUse(c) == Open(c) /\ c \notin left

\* A connection whose peer is there and that nobody has closed is in the table, under
\* its own address: no removal, however late and however often it is posted, destroys
\* a connection that is in use ("Returns ID ... of the connection", connection.cpp:89).
InUseIsRegistered == \A c \in Conn : InUse(c) => Registered(c)

\* What an open client was last told of a key is what a GET would tell it now:
\* whoever sets a value, the sender and every other client are told, and a SET that
\* is turned down changes nothing behind their backs ("Always notify clients about
\* new value", config.h:4).
NoticesCurrent ==
    \A c \in Conn, k \in Key :
        Open(c) /\ told[c][k] # NoNotice => told[c][k] = Answer(k)

\* A client that has once asked for everything has from then on been told of every
\* object there is: GET_ALL and the broadcasts after it leave no gap between them.
CopyComplete ==
    \A c \in synced, k \in Key :
        Open(c) /\ store[Hash[k]] # NoObject => told[c][k] = Answer(k)

\* A connection whose peer has gone does not stay in the table, unless the server
\* itself stops: it is closed, and a removal follows every close.
GoneIsRemoved ==
    \A c \in Conn : c \in left ~> ~Registered(c) \/ ~running
==============================================================================
