------------------------------- MODULE StateDB -------------------------------
(***************************************************************************)
(* The database together with the connection of one client that is told of *)
(* its changes.  A SET of any client stores the object and writes a         *)
(* key-updated notice to every connection of the table (asio_server.cpp);   *)
(* this client's notices go through the outgoing half of its connection,    *)
(* WritePipeline, whose messages get a meaning here: what message m says is *)
(* about[m].  The text of a notice is copied when it is issued, so a later  *)
(* SET does not change it.  The client connects to a database that may hold *)
(* objects already; of those it is told only when it asks.                  *)
(***************************************************************************)
EXTENDS WritePipeline

CONSTANTS Buckets,   \* the keys, those with the same hash in one set
          Val,
          NoValue    \* no key and no value

Key == UNION Buckets

VARIABLES
    store,      \* the object of each hash
    changed,    \* history: the keys that were set since the client connected
    about       \* history: the key and the value each message tells of

allVars == <<vars, store, changed, about>>

Object == [key : Key, val : Val]

\* No object is stored; and what a pong tells of.
NoObject == [key |-> NoValue, val |-> NoValue]

\* make_hash
Hash(k) == CHOOSE b \in Buckets : k \in b

\* No other key has the hash of k.
Alone(k) == \A b \in Buckets : k \in b => b = {k}

\* The value of k in the database.
DbValue(k) == IF store[Hash(k)].key = k THEN store[Hash(k)].val ELSE NoValue

Says(o) == about' = Append(about, o)

\* set_handler, seen from this client: the object is stored first, and what is
\* broadcast is looked up again.
HandleSet(k, v) ==
    /\ Issue("value")
    /\ store' = [store EXCEPT ![Hash(k)] = [key |-> k, val |-> v]]
    /\ Says(store'[Hash(k)])
    /\ changed' = changed \union {k}

\* get_handler for this client: the value of the object with the hash of k, under
\* the key of that object, or a key-deleted notice.
HandleGet(k) ==
    /\ IF store[Hash(k)] = NoObject
       THEN Issue("pair") /\ Says([key |-> k, val |-> NoValue])
       ELSE Issue("value") /\ Says(store[Hash(k)])
    /\ UNCHANGED <<store, changed>>

HandlePing ==
    /\ Issue("pong")
    /\ Says(NoObject)
    /\ UNCHANGED <<store, changed>>

\* A step of the connection that issues nothing.
Deliver ==
    /\ \/ \E whole \in BOOLEAN : Transmit(whole)
       \/ Fail
       \/ HandleWritten
       \/ HandleFailed
       \/ \E c \in waits : HandleTimeout(c)
       \/ CloseByReader
    /\ UNCHANGED <<store, changed, about>>

StateDBInit ==
    /\ Init
    /\ store \in [Buckets -> Object \union {NoObject}]
    /\ \A b \in Buckets : store[b] # NoObject => store[b].key \in b
    /\ changed = {}
    /\ about = <<>>

StateDBNext ==
    \/ \E k \in Key, v \in Val : HandleSet(k, v)
    \/ \E k \in Key : HandleGet(k)
    \/ HandlePing
    \/ Deliver

StateDBSpec == StateDBInit /\ [][StateDBNext]_allVars

------------------------------------------------------------------------------
(* Properties.                                                              *)

\* Places of the wire with the body of a notice about k, before the first chunk
\* that was cut: behind it the client does not find the notices any more.
ToldOf(k) ==
    {i \in 1..Len(wire) :
        /\ wire[i].part = "body" /\ about[wire[i].msg].key = k
        /\ cut = 0 \/ i < cut}

\* What the client has last been told of k.
LastTold(k) ==
    LET i == CHOOSE i \in ToldOf(k) : \A j \in ToldOf(k) : j <= i
    IN  about[wire[i].msg].val

\* Once everything is written to an open connection, the client's copy of every
\* key it was told of is the value of the database: the server is built to
\* "Always notify clients about new value" (config.h:4).
CopyIsCurrent ==
    open /\ inflight = NoChunk /\ pending = <<>> =>
        \A k \in Key : ToldOf(k) # {} => LastTold(k) = DbValue(k)
==============================================================================
