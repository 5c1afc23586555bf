----------------------------- MODULE ServerProofs -----------------------------
(***************************************************************************)
(* Theorems about Server: the table of connections and the notices, for any *)
(* number of connections, addresses, keys and requests.                     *)
(***************************************************************************)
EXTENDS Server, SequenceTheorems, TLAPS

\* The environment under which the table is right: an address is one connection's.
Unique == ~ReuseAddress

\* No two keys have the same hash.
Injective == \A j, k \in Key : Hash[j] = Hash[k] => j = k

\* Addresses tell connections apart.
AddrInv == \A c, d \in Accepted : addr[c] = addr[d] => c = d

\* A posted removal is for a connection that was closed.
PostedInv == \A i \in 1..Len(posted) : \E c \in Accepted : addr[c] = posted[i] /\ closes[c] # 0

\* Nobody is told anything before it is accepted.
FreshInv == \A c \in Conn \ Accepted : \A k \in Key : told[c][k] = NoNotice

\* What close() was not called on is in the table.
OpenInv == \A c \in Accepted : closes[c] = 0 => connections[addr[c]] = c

TableInv == AddrInv /\ PostedInv /\ OpenInv

\* An object is stored under the hash of its own key.
StoreInv == \A h \in DOMAIN store : store[h] # NoObject => Hash[store[h].key] = h

DataInv == FreshInv /\ StoreInv /\ NoticesCurrent /\ CopyComplete

------------------------------------------------------------------------------
\* What GET answers is a notice: about the key that was asked for, or the key of the
\* object that was found.
LEMMA AnswerTyped ==
    ASSUME TypeOK, NEW k \in Key
    PROVE  Answer(k) \in Notice /\ Answer(k).key \in Key
<1>1. Hash[k] \in {Hash[j] : j \in Key}
    OBVIOUS
<1>2. store[Hash[k]] \in Object \union {NoObject}
    BY <1>1 DEF TypeOK
<1>3. CASE store[Hash[k]] = NoObject
    BY <1>3 DEF Answer, Deleted, Notice
<1>4. CASE store[Hash[k]] # NoObject
    <2>1. store[Hash[k]] \in Object
        BY <1>2, <1>4
    <2>. QED
        BY <1>4, <2>1 DEF Answer, Updated, Notice, Object
<1>. QED
    BY <1>3, <1>4

\* The request handlers keep the types of the data.
LEMMA DataTyped ==
    ASSUME TypeOK, NEW c \in Conn,
           \/ HandlePing(c) \/ HandleBadSet(c) \/ HandleGetAll(c)
           \/ \E k \in Key : HandleGet(c, k)
           \/ \E k \in Key, v \in Val : HandleSet(c, k, v) \/ HandleShortSet(c, k, v)
    PROVE  TypeOK'
<1>1. UNCHANGED table /\ c \in Accepted /\ count' \in 0..MaxRequests
    <2>1. Request(c)
        BY DEF HandlePing, HandleBadSet, HandleGetAll, HandleGet, HandleSet, HandleShortSet
    <2>. QED
        BY <2>1, ServerAssumption DEF Request, Registered, TypeOK
<1>2. SUFFICES /\ store' \in [{Hash[k] : k \in Key} -> Object \union {NoObject}]
               /\ told' \in [Conn -> [Key -> Notice \union {NoNotice}]]
               /\ synced' \subseteq Accepted
    BY <1>1 DEF TypeOK, table, Accepted
<1>3. CASE HandlePing(c) \/ HandleBadSet(c)
    BY <1>3 DEF HandlePing, HandleBadSet, TypeOK
<1>4. CASE HandleGetAll(c)
    <2>1. \A k \in Key : Answer(k) \in Notice
        BY AnswerTyped
    <2>. QED
        BY <1>1, <1>4, <2>1 DEF HandleGetAll, TypeOK
<1>5. ASSUME NEW k \in Key, HandleGet(c, k)
      PROVE  /\ store' \in [{Hash[j] : j \in Key} -> Object \union {NoObject}]
             /\ told' \in [Conn -> [Key -> Notice \union {NoNotice}]]
             /\ synced' \subseteq Accepted
    <2>1. Answer(k) \in Notice /\ Answer(k).key \in Key
        BY AnswerTyped
    <2>. QED
        BY <1>1, <1>5, <2>1 DEF HandleGet, TypeOK
<1>6. ASSUME NEW k \in Key, NEW v \in Val, HandleSet(c, k, v)
      PROVE  /\ store' \in [{Hash[j] : j \in Key} -> Object \union {NoObject}]
             /\ told' \in [Conn -> [Key -> Notice \union {NoNotice}]]
             /\ synced' \subseteq Accepted
    <2> DEFINE o == [key |-> k, val |-> v]
    <2>1. o \in Object /\ Updated(o) \in Notice
        BY DEF Object, Updated, Notice
    <2>2. /\ store' = [store EXCEPT ![Hash[k]] = o]
          /\ told' = [d \in Conn |-> IF d \in Notified(c)
                                     THEN [told[d] EXCEPT ![k] = Updated(o)] ELSE told[d]]
          /\ synced' = synced
        BY <1>6 DEF HandleSet, SetValue
    <2> HIDE DEF o
    <2>. QED
        BY <2>1, <2>2 DEF TypeOK
<1>7. ASSUME NEW k \in Key, NEW v \in Val, HandleShortSet(c, k, v)
      PROVE  UNCHANGED <<store, told, synced>>
    BY <1>7 DEF HandleShortSet, SetValue
<1>8. UNCHANGED <<store, told, synced>> =>
          /\ store' \in [{Hash[j] : j \in Key} -> Object \union {NoObject}]
          /\ told' \in [Conn -> [Key -> Notice \union {NoNotice}]]
          /\ synced' \subseteq Accepted
    BY DEF TypeOK
<1>. QED
    BY <1>3, <1>4, <1>5, <1>6, <1>7, <1>8

\* Accepting, closing and removing connections keep the types of the table.
LEMMA TableTyped ==
    ASSUME TypeOK,
           \/ \E a \in Address : Accept(a)
           \/ AcceptFails
           \/ \E c \in Conn : PeerLeaves(c) \/ Close(c)
           \/ HandleRemove
    PROVE  TypeOK'
<1>1. UNCHANGED data
    BY DEF Accept, AcceptFails, PeerLeaves, Close, HandleRemove
<1>2. SUFFICES /\ running' \in BOOLEAN
               /\ addr' \in Seq(Address) /\ Len(addr') <= MaxConnections
               /\ left' \subseteq 1..Len(addr')
               /\ synced \subseteq 1..Len(addr')
               /\ closes' \in [Conn -> 0..MaxCloses]
               /\ connections' \in [Address -> Conn \union {NoConn}]
               /\ posted' \in Seq(Address)
    BY <1>1 DEF TypeOK, data, Accepted
<1> USE ServerAssumption
<1>3. ASSUME NEW a \in Address, Accept(a)
      PROVE  /\ running' \in BOOLEAN
             /\ addr' \in Seq(Address) /\ Len(addr') <= MaxConnections
             /\ left' \subseteq 1..Len(addr')
             /\ synced \subseteq 1..Len(addr')
             /\ closes' \in [Conn -> 0..MaxCloses]
             /\ connections' \in [Address -> Conn \union {NoConn}]
             /\ posted' \in Seq(Address)
    <2>1. addr' \in Seq(Address) /\ Len(addr') = Len(addr) + 1 /\ Len(addr) \in Nat
        BY <1>3 DEF Accept, TypeOK
    <2>2. Len(addr) + 1 \in Conn
        BY <1>3, <2>1 DEF Accept, Conn
    <2>. QED
        BY <1>3, <2>1, <2>2 DEF Accept, TypeOK, Accepted, Conn
<1>4. CASE AcceptFails
    BY <1>4 DEF AcceptFails, TypeOK, Accepted
<1>5. ASSUME NEW c \in Conn, PeerLeaves(c)
      PROVE  left' \subseteq 1..Len(addr) /\ UNCHANGED <<running, addr, closes, connections, posted>>
    BY <1>5 DEF PeerLeaves, TypeOK, Accepted
<1>6. ASSUME NEW c \in Conn, Close(c)
      PROVE  /\ closes' \in [Conn -> 0..MaxCloses]
             /\ posted' \in Seq(Address)
             /\ UNCHANGED <<running, addr, left, connections>>
    <2>1. addr[c] \in Address
        BY <1>6 DEF Close, Accepted, TypeOK
    <2>2. posted' \in Seq(Address)
        BY <1>6, <2>1 DEF Close, PostRemoval, TypeOK
    <2>3. closes' \in [Conn -> 0..MaxCloses]
        BY <1>6 DEF Close, TypeOK
    <2>. QED
        BY <1>6, <2>2, <2>3 DEF Close
<1>7. CASE HandleRemove
    <2>1. Head(posted) \in Address /\ posted' \in Seq(Address)
        BY <1>7 DEF HandleRemove, TypeOK
    <2>. QED
        BY <1>7, <2>1 DEF HandleRemove, Erased, TypeOK, Accepted
<1>. QED
    <2>1. ASSUME NEW c \in Conn, PeerLeaves(c) \/ Close(c)
          PROVE  /\ running' \in BOOLEAN
                 /\ addr' \in Seq(Address) /\ Len(addr') <= MaxConnections
                 /\ left' \subseteq 1..Len(addr')
                 /\ synced \subseteq 1..Len(addr')
                 /\ closes' \in [Conn -> 0..MaxCloses]
                 /\ connections' \in [Address -> Conn \union {NoConn}]
                 /\ posted' \in Seq(Address)
        BY <2>1, <1>5, <1>6 DEF TypeOK, Accepted
    <2>. QED
        BY <1>3, <1>4, <1>7, <2>1

\* Server keeps its types, for any number of connections, addresses, keys, values
\* and requests.
THEOREM TypeCorrect == Spec => []TypeOK
<1>1. Init => TypeOK
    BY ServerAssumption DEF Init, TypeOK, Accepted, Conn, NoConn
<1>2. TypeOK /\ [Next]_vars => TypeOK'
    <2>1. TypeOK /\ UNCHANGED vars => TypeOK'
        BY DEF vars, table, data, TypeOK, Accepted
    <2>. QED
        BY <2>1, DataTyped, TableTyped DEF Next
<1>. QED
    BY <1>1, <1>2, PTL DEF Spec

------------------------------------------------------------------------------
\* The table stays right when connections come and go, as long as every address is
\* used once.
LEMMA TableStep ==
    ASSUME Unique, TypeOK, TableInv,
           \/ \E a \in Address : Accept(a)
           \/ AcceptFails
           \/ \E c \in Conn : PeerLeaves(c) \/ Close(c)
           \/ HandleRemove
    PROVE  TableInv'
<1> USE ServerAssumption
<1>0. Len(addr) \in Nat /\ Len(posted) \in Nat /\ \A c \in Accepted : c \in Conn
    BY DEF TypeOK, Accepted, Conn
<1>1. ASSUME NEW a \in Address, Accept(a)
      PROVE  TableInv'
    <2> DEFINE n == Len(addr) + 1
    <2>1. /\ addr' = Append(addr, a)
          /\ closes' = closes /\ posted' = posted
          /\ connections' = [connections EXCEPT ![a] = n]
        BY <1>1 DEF Accept
    <2>2. /\ Accepted' = Accepted \union {n} /\ n \notin Accepted /\ n \in Conn
          /\ addr'[n] = a
          /\ \A c \in Accepted : addr'[c] = addr[c] /\ addr[c] \in Address
        BY <1>0, <1>1, <2>1 DEF Accept, Accepted, Conn, TypeOK
    <2>3. \A c \in Accepted : addr[c] # a
        BY <1>1 DEF Accept, AddressFree, Unique
    <2>4. AddrInv'
        BY <2>2, <2>3 DEF AddrInv, TableInv
    <2>5. PostedInv'
        <3>1. ASSUME NEW i \in 1..Len(posted)
              PROVE  \E c \in Accepted' : addr'[c] = posted[i] /\ closes[c] # 0
            <4>1. PICK c \in Accepted : addr[c] = posted[i] /\ closes[c] # 0
                BY DEF PostedInv, TableInv
            <4>. QED
                BY <2>2, <4>1
        <3>. QED
            BY <2>1, <3>1 DEF PostedInv
    <2>6. OpenInv'
        <3>1. connections'[a] = n
            BY <2>1 DEF TypeOK
        <3>2. \A c \in Accepted : connections'[addr[c]] = connections[addr[c]]
            BY <2>1, <2>2, <2>3 DEF TypeOK
        <3>. QED
            BY <2>1, <2>2, <3>1, <3>2 DEF OpenInv, TableInv
    <2>. QED
        BY <2>4, <2>5, <2>6 DEF TableInv
<1>2. CASE AcceptFails
    BY <1>2 DEF AcceptFails, TableInv, AddrInv, PostedInv, OpenInv, Accepted
<1>3. ASSUME NEW c \in Conn, PeerLeaves(c)
      PROVE  TableInv'
    BY <1>3 DEF PeerLeaves, TableInv, AddrInv, PostedInv, OpenInv, Accepted
<1>4. ASSUME NEW c \in Conn, Close(c)
      PROVE  TableInv'
    <2>1. /\ addr' = addr /\ connections' = connections /\ Accepted' = Accepted
          /\ c \in Accepted /\ addr[c] \in Address
          /\ posted' = Append(posted, addr[c])
        BY <1>4 DEF Close, PostRemoval, Accepted, TypeOK
    <2>2. closes'[c] # 0 /\ \A d \in Conn : closes[d] # 0 => closes'[d] # 0
        BY <1>4 DEF Close, TypeOK
    <2>3. AddrInv'
        BY <2>1 DEF AddrInv, TableInv
    <2>4. PostedInv'
        <3>1. Len(posted') = Len(posted) + 1 /\ posted'[Len(posted) + 1] = addr[c]
            BY <1>0, <2>1 DEF TypeOK
        <3>2. \A i \in 1..Len(posted) : posted'[i] = posted[i]
            BY <1>0, <2>1 DEF TypeOK
        <3>3. ASSUME NEW i \in 1..Len(posted')
              PROVE  \E d \in Accepted : addr[d] = posted'[i] /\ closes'[d] # 0
            <4>1. i \in 1..Len(posted) \/ i = Len(posted) + 1
                BY <1>0, <3>1
            <4>. QED
                BY <1>0, <4>1, <2>1, <2>2, <3>1, <3>2 DEF PostedInv, TableInv
        <3>. QED
            BY <2>1, <3>3 DEF PostedInv
    <2>5. OpenInv'
        BY <1>0, <2>1, <2>2 DEF OpenInv, TableInv
    <2>. QED
        BY <2>3, <2>4, <2>5 DEF TableInv
<1>5. CASE HandleRemove
    <2> DEFINE a == Head(posted)
    <2>1. /\ addr' = addr /\ closes' = closes /\ Accepted' = Accepted
          /\ posted' = Tail(posted) /\ posted # <<>>
          /\ connections' = [connections EXCEPT ![a] = NoConn]
        BY <1>5 DEF HandleRemove, Erased, Accepted
    <2>2. AddrInv'
        BY <2>1 DEF AddrInv, TableInv
    <2>3. PostedInv'
        <3>1. Len(posted') = Len(posted) - 1
            BY <2>1 DEF TypeOK
        <3>2. \A i \in 1..Len(posted') : posted'[i] = posted[i + 1] /\ i + 1 \in 1..Len(posted)
            BY <1>0, <2>1, <3>1 DEF TypeOK
        <3>. QED
            BY <2>1, <3>2 DEF PostedInv, TableInv
    <2>4. OpenInv'
        <3>1. PICK d \in Accepted : addr[d] = a /\ closes[d] # 0
            <4>1. 1 \in 1..Len(posted) /\ a = posted[1]
                BY <1>0, <2>1 DEF TypeOK
            <4>. QED
                BY <4>1 DEF PostedInv, TableInv
        <3>2. ASSUME NEW c \in Accepted, closes[c] = 0
              PROVE  connections'[addr[c]] = c
            <4>1. addr[c] # a
                BY <3>1, <3>2 DEF AddrInv, TableInv
            <4>2. addr[c] \in Address
                BY DEF Accepted, TypeOK
            <4>3. connections'[addr[c]] = connections[addr[c]]
                BY <2>1, <4>1, <4>2 DEF TypeOK
            <4>. QED
                BY <3>2, <4>3 DEF OpenInv, TableInv
        <3>. QED
            BY <2>1, <3>2 DEF OpenInv
    <2>. QED
        BY <2>2, <2>3, <2>4 DEF TableInv
<1>. QED
    BY <1>1, <1>2, <1>3, <1>4, <1>5

\* A step of the server keeps the table right.
LEMMA TableNext ==
    ASSUME Unique, TypeOK, TableInv, [Next]_vars
    PROVE  TableInv'
<1>1. CASE UNCHANGED table
    BY <1>1 DEF table, TableInv, AddrInv, PostedInv, OpenInv, Accepted
<1>2. CASE UNCHANGED vars
    BY <1>1, <1>2 DEF vars
<1>3. ASSUME NEW c \in Conn,
             \/ HandlePing(c) \/ HandleBadSet(c) \/ HandleGetAll(c)
             \/ \E k \in Key : HandleGet(c, k)
             \/ \E k \in Key, v \in Val : HandleSet(c, k, v) \/ HandleShortSet(c, k, v)
      PROVE  TableInv'
    <2>1. Request(c)
        BY <1>3 DEF HandlePing, HandleBadSet, HandleGetAll, HandleGet, HandleSet, HandleShortSet
    <2>. QED
        BY <1>1, <2>1 DEF Request
<1>. QED
    BY <1>2, <1>3, TableStep DEF Next

\* While no address is used twice, a connection that is in use stays in the table,
\* whatever removals are still posted, for any number of connections and closes.
THEOREM InUseStays ==
    ASSUME Unique
    PROVE  Spec => []InUseIsRegistered
<1>1. Init => TableInv
    BY DEF Init, TableInv, AddrInv, PostedInv, OpenInv, Accepted
<1>2. TypeOK /\ TableInv /\ [Next]_vars => TableInv'
    BY TableNext
<1>3. TableInv => InUseIsRegistered
    BY DEF TableInv, OpenInv, InUseIsRegistered, InUse, Open, Registered
<1>. QED
    BY <1>1, <1>2, <1>3, TypeCorrect, PTL DEF Spec

------------------------------------------------------------------------------
\* When no two keys have the same hash, GET answers about the key it was asked for.
LEMMA AnswerOwnKey ==
    ASSUME Injective, TypeOK, StoreInv, NEW k \in Key
    PROVE  Answer(k).key = k
<1>1. Hash[k] \in DOMAIN store /\ store[Hash[k]] \in Object \union {NoObject}
    BY DEF TypeOK
<1>2. CASE store[Hash[k]] = NoObject
    BY <1>2 DEF Answer, Deleted
<1>3. CASE store[Hash[k]] # NoObject
    <2>1. store[Hash[k]].key \in Key
        BY <1>1, <1>3 DEF Object
    <2>2. store[Hash[k]].key = k
        BY <1>1, <1>3, <2>1 DEF StoreInv, Injective
    <2>. QED
        BY <1>3, <2>2 DEF Answer, Updated
<1>. QED
    BY <1>2, <1>3

\* Connections that come and go leave the notices right: a new one has been told
\* nothing yet.
LEMMA NoticesTableStep ==
    ASSUME TypeOK, DataInv,
           \/ \E a \in Address : Accept(a)
           \/ AcceptFails
           \/ \E c \in Conn : PeerLeaves(c) \/ Close(c)
           \/ HandleRemove
    PROVE  DataInv'
<1> USE ServerAssumption
<1>1. store' = store /\ told' = told /\ synced' = synced
    BY DEF Accept, AcceptFails, PeerLeaves, Close, HandleRemove, data
<1>2. Accepted \subseteq Accepted' /\ \A c \in Accepted : closes'[c] = 0 => closes[c] = 0
    <2>1. ASSUME NEW a \in Address, Accept(a)
          PROVE  Accepted \subseteq Accepted' /\ closes' = closes
        BY <2>1 DEF Accept, Accepted, TypeOK
    <2>2. ASSUME NEW c \in Conn, Close(c)
          PROVE  Accepted' = Accepted /\ \A d \in Conn : closes'[d] = 0 => closes[d] = 0
        BY <2>2 DEF Close, Accepted, TypeOK
    <2>3. ASSUME AcceptFails \/ (\E c \in Conn : PeerLeaves(c)) \/ HandleRemove
          PROVE  Accepted' = Accepted /\ closes' = closes
        BY <2>3 DEF AcceptFails, PeerLeaves, HandleRemove, Accepted
    <2>4. Accepted \subseteq Conn
        BY DEF TypeOK, Accepted, Conn
    <2>. QED
        BY <2>1, <2>2, <2>3, <2>4
<1>3. FreshInv'
    BY <1>1, <1>2 DEF DataInv, FreshInv
<1>4. StoreInv'
    BY <1>1 DEF DataInv, StoreInv
<1>5. \A k \in Key : Answer(k)' = Answer(k)
    BY <1>1 DEF Answer
<1>6. NoticesCurrent'
    <2>1. ASSUME NEW c \in Conn, NEW k \in Key, Open(c)', told[c][k] # NoNotice
          PROVE  told[c][k] = Answer(k)
        <3>1. c \in Accepted
            BY <2>1 DEF DataInv, FreshInv
        <3>2. Open(c)
            BY <1>2, <2>1, <3>1 DEF Open
        <3>. QED
            BY <2>1, <3>2 DEF DataInv, NoticesCurrent
    <2>. QED
        BY <1>1, <1>5, <2>1 DEF NoticesCurrent
<1>7. CopyComplete'
    <2>1. ASSUME NEW c \in synced, NEW k \in Key, Open(c)', store[Hash[k]] # NoObject
          PROVE  told[c][k] = Answer(k)
        <3>1. c \in Accepted
            BY DEF TypeOK
        <3>2. Open(c)
            BY <1>2, <2>1, <3>1 DEF Open
        <3>. QED
            BY <2>1, <3>2 DEF DataInv, CopyComplete
    <2>. QED
        BY <1>1, <1>5, <2>1 DEF CopyComplete
<1>. QED
    BY <1>3, <1>4, <1>6, <1>7 DEF DataInv

\* So do the requests that only read the database, and a SET that is turned down.
LEMMA NoticesReadStep ==
    ASSUME Injective, TypeOK, DataInv, NEW c \in Conn,
           \/ HandlePing(c) \/ HandleBadSet(c) \/ HandleGetAll(c)
           \/ \E k \in Key : HandleGet(c, k)
           \/ \E k \in Key, v \in Val : HandleShortSet(c, k, v)
    PROVE  DataInv'
<1>1. Request(c)
    BY DEF HandlePing, HandleBadSet, HandleGetAll, HandleGet, HandleShortSet
<1>2. /\ store' = store /\ Accepted' = Accepted /\ closes' = closes
      /\ c \in Accepted /\ Accepted \subseteq Conn
    BY <1>1, ServerAssumption
       DEF HandlePing, HandleBadSet, HandleGetAll, HandleGet, HandleShortSet, SetValue,
           Request, Registered, table, Accepted, Conn, TypeOK
<1>3. \A k \in Key : Answer(k)' = Answer(k) /\ Answer(k).key = k
    BY <1>2, AnswerOwnKey DEF Answer, DataInv
<1>4. /\ \A d \in Conn, k \in Key :
            told'[d][k] = told[d][k] \/ (d = c /\ told'[d][k] = Answer(k))
      /\ \A d \in synced', k \in Key :
            store[Hash[k]] # NoObject =>
                (d \in synced /\ told'[d][k] = told[d][k]) \/ told'[d][k] = Answer(k)
    <2>1. CASE \/ HandlePing(c) \/ HandleBadSet(c)
               \/ \E k \in Key, v \in Val : HandleShortSet(c, k, v)
        BY <2>1 DEF HandlePing, HandleBadSet, HandleShortSet
    <2>2. ASSUME NEW k \in Key, HandleGet(c, k)
          PROVE  /\ synced' = synced
                 /\ \A d \in Conn, j \in Key :
                        told'[d][j] = told[d][j] \/ (d = c /\ told'[d][j] = Answer(j))
        <3>1. synced' = synced /\ told' = [told EXCEPT ![c][k] = Answer(k)]
            BY <1>3, <2>2 DEF HandleGet
        <3>. QED
            BY <3>1 DEF TypeOK
    <2>3. CASE HandleGetAll(c)
        <3> DEFINE keys == {store[h].key : h \in Iterated}
        <3>1. /\ synced' = synced \union {c}
              /\ told' = [told EXCEPT ![c] = [k \in Key |-> IF k \in keys THEN Answer(k)
                                                            ELSE told[c][k]]]
            BY <2>3 DEF HandleGetAll
        <3>2. /\ \A k \in Key : told'[c][k] = IF k \in keys THEN Answer(k) ELSE told[c][k]
              /\ \A d \in Conn \ {c} : told'[d] = told[d]
            BY <3>1 DEF TypeOK
        <3>3. \A k \in Key : store[Hash[k]] # NoObject => k \in keys
            <4>1. SUFFICES ASSUME NEW k \in Key, store[Hash[k]] # NoObject
                           PROVE  store[Hash[k]].key = k /\ Hash[k] \in Iterated
                OBVIOUS
            <4>2. Hash[k] \in DOMAIN store
                BY DEF TypeOK
            <4>3. Answer(k).key = store[Hash[k]].key
                BY <4>1 DEF Answer, Updated
            <4>. QED
                BY <1>3, <4>1, <4>2, <4>3 DEF Iterated
        <3> HIDE DEF keys
        <3>4. \A d \in Conn, k \in Key :
                 told'[d][k] = told[d][k] \/ (d = c /\ told'[d][k] = Answer(k))
            BY <3>2
        <3>. QED
            BY <1>2, <3>1, <3>2, <3>3, <3>4 DEF TypeOK
    <2>4. synced \subseteq Conn
        BY <1>2 DEF TypeOK
    <2>. QED
        BY <2>1, <2>2, <2>3, <2>4
<1>5. \A d \in Conn : Open(d)' <=> Open(d)
    BY <1>2 DEF Open
<1>6. FreshInv'
    BY <1>2, <1>4 DEF DataInv, FreshInv
<1>7. StoreInv'
    BY <1>2 DEF DataInv, StoreInv
<1>8. NoticesCurrent'
    BY <1>3, <1>4, <1>5 DEF DataInv, NoticesCurrent
<1>9. CopyComplete'
    <2>1. synced' \subseteq Conn
        BY DataTyped, <1>2 DEF TypeOK
    <2>2. ASSUME NEW d \in synced', NEW k \in Key, Open(d), store[Hash[k]] # NoObject
          PROVE  told'[d][k] = Answer(k)
        BY <1>4, <2>2 DEF DataInv, CopyComplete
    <2>. QED
        BY <1>2, <1>3, <1>5, <2>1, <2>2 DEF CopyComplete
<1>. QED
    BY <1>6, <1>7, <1>8, <1>9 DEF DataInv

\* A SET leaves the notices right: every open connection is in the table, so the
\* broadcast reaches it.
LEMMA NoticesSetStep ==
    ASSUME Injective, TypeOK, TableInv, DataInv, NEW c \in Conn,
           NEW k \in Key, NEW v \in Val, HandleSet(c, k, v)
    PROVE  DataInv'
<1> DEFINE o == [key |-> k, val |-> v]
<1>1. /\ store' = [store EXCEPT ![Hash[k]] = o]
      /\ told' = [d \in Conn |-> IF d \in Notified(c)
                                 THEN [told[d] EXCEPT ![k] = Updated(o)] ELSE told[d]]
      /\ synced' = synced
    BY DEF HandleSet, SetValue
<1>2. /\ Accepted' = Accepted /\ closes' = closes /\ Accepted \subseteq Conn
      /\ synced \subseteq Conn
    BY ServerAssumption DEF HandleSet, Request, table, Accepted, Conn, TypeOK
<1>3. o.key = k /\ o \in Object /\ o # NoObject
    BY ServerAssumption DEF Object
<1> HIDE DEF o
<1>4. /\ DOMAIN store' = DOMAIN store
      /\ store'[Hash[k]] = o
      /\ \A h \in DOMAIN store : h # Hash[k] => store'[h] = store[h]
    BY <1>1 DEF TypeOK
<1>5. \A j \in Key : j # k => store'[Hash[j]] = store[Hash[j]]
    <2>1. \A j \in Key : Hash[j] \in DOMAIN store /\ (j # k => Hash[j] # Hash[k])
        BY DEF TypeOK, Injective
    <2>. QED
        BY <1>4, <2>1
<1>6. Answer(k)' = Updated(o) /\ \A j \in Key : j # k => Answer(j)' = Answer(j)
    <2>1. Answer(k)' = Updated(o)
        BY <1>3, <1>4 DEF Answer, Updated
    <2>2. \A j \in Key : j # k => Answer(j)' = Answer(j)
        BY <1>5 DEF Answer, Updated, Deleted
    <2>. QED
        BY <2>1, <2>2
<1>7. \A d \in Conn : Open(d)' <=> Open(d)
    BY <1>2 DEF Open
<1>8. \A d \in Conn : Open(d) => d \in Notified(c)
    BY DEF Open, TableInv, OpenInv, Notified, Registered
<1>9. /\ \A d \in Conn, j \in Key : j # k => told'[d][j] = told[d][j]
      /\ \A d \in Conn : d \in Notified(c) => told'[d][k] = Updated(o)
      /\ \A d \in Conn : d \notin Notified(c) => told'[d] = told[d]
    BY <1>1 DEF TypeOK
<1>10. FreshInv'
    BY <1>2, <1>9 DEF DataInv, FreshInv, Notified
<1>11. StoreInv'
    BY <1>3, <1>4 DEF DataInv, StoreInv
<1>12. NoticesCurrent'
    <2>1. ASSUME NEW d \in Conn, NEW j \in Key, Open(d), told'[d][j] # NoNotice
          PROVE  told'[d][j] = Answer(j)'
        <3>1. CASE j = k
            BY <1>6, <1>8, <1>9, <2>1, <3>1
        <3>2. CASE j # k
            BY <1>6, <1>9, <2>1, <3>2 DEF DataInv, NoticesCurrent
        <3>. QED
            BY <3>1, <3>2
    <2>. QED
        BY <1>7, <2>1 DEF NoticesCurrent
<1>13. CopyComplete'
    <2>1. ASSUME NEW d \in synced, NEW j \in Key, Open(d), store'[Hash[j]] # NoObject
          PROVE  told'[d][j] = Answer(j)'
        <3>1. CASE j = k
            BY <1>2, <1>6, <1>8, <1>9, <2>1, <3>1
        <3>2. CASE j # k
            BY <1>2, <1>5, <1>6, <1>9, <2>1, <3>2 DEF DataInv, CopyComplete
        <3>. QED
            BY <3>1, <3>2
    <2>. QED
        BY <1>1, <1>2, <1>7, <2>1 DEF CopyComplete
<1>. QED
    BY <1>10, <1>11, <1>12, <1>13 DEF DataInv

\* DataInv holds in every state of the server.
LEMMA DataAlways ==
    ASSUME Unique, Injective
    PROVE  Spec => []DataInv
<1>1. Init => TableInv
    BY DEF Init, TableInv, AddrInv, PostedInv, OpenInv, Accepted
<1>2. TypeOK /\ TableInv /\ [Next]_vars => TableInv'
    BY TableNext
<1>3. Init => DataInv
    BY DEF Init, DataInv, FreshInv, StoreInv, NoticesCurrent, CopyComplete
<1>4. TypeOK /\ TableInv /\ DataInv /\ [Next]_vars => DataInv'
    <2>1. ASSUME DataInv, UNCHANGED vars
          PROVE  DataInv'
        <3>1. /\ store' = store /\ told' = told /\ synced' = synced
              /\ Accepted' = Accepted /\ closes' = closes
            BY <2>1 DEF vars, table, data, Accepted
        <3>2. \A c \in Conn : Open(c)' <=> Open(c)
            BY <3>1 DEF Open
        <3>3. \A k \in Key : Answer(k)' = Answer(k)
            BY <3>1 DEF Answer
        <3>4. \A c \in synced : Open(c)' <=> Open(c)
            BY <3>1 DEF Open
        <3>5. FreshInv' /\ StoreInv'
            BY <2>1, <3>1 DEF DataInv, FreshInv, StoreInv
        <3>6. NoticesCurrent'
            BY <2>1, <3>1, <3>2, <3>3 DEF DataInv, NoticesCurrent
        <3>7. CopyComplete'
            BY <2>1, <3>1, <3>3, <3>4 DEF DataInv, CopyComplete
        <3>. QED
            BY <3>5, <3>6, <3>7 DEF DataInv
    <2>. QED
        BY <2>1, NoticesTableStep, NoticesReadStep, NoticesSetStep DEF Next
<1>. QED
    BY <1>1, <1>2, <1>3, <1>4, TypeCorrect, PTL DEF Spec

\* While no address is used twice and no two keys share a hash, what a client was last
\* told of a key is what the database holds, for any number of clients and keys.
THEOREM NoticesStayCurrent ==
    ASSUME Unique, Injective
    PROVE  Spec => []NoticesCurrent
<1>1. DataInv => NoticesCurrent
    BY DEF DataInv
<1>. QED
    BY <1>1, DataAlways, PTL

\* Under the same conditions a client that has asked for everything knows of every
\* object from then on.
THEOREM CopyStaysComplete ==
    ASSUME Unique, Injective
    PROVE  Spec => []CopyComplete
<1>1. DataInv => CopyComplete
    BY DEF DataInv
<1>. QED
    BY <1>1, DataAlways, PTL
===============================================================================
