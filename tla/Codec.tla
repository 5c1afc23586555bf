-------------------------------- MODULE Codec --------------------------------
(***************************************************************************)
(* From the body of a SET to the body of a key-updated notice, byte by      *)
(* byte: set_handler and get_handler (asio_server.cpp), the data types      *)
(* (dtypes.h, dtypes.cpp, dtypes_utils.h), db_object and the hash of a key  *)
(* (hash.h).                                                                *)
(*                                                                         *)
(* Texts are sequences of bytes.  An object holds the bytes of the memory   *)
(* its implementor allocated, no more, so that a read or a copy past them   *)
(* is seen: it is undefined behaviour, and the model ends there.            *)
(***************************************************************************)
EXTENDS Integers, Sequences

CONSTANTS
    Base,           \* values of a byte
    HeaderBytes,    \* sizeof(uint32_t), the length field of a blob
    HashModulus,    \* values of size_t, as the hash wraps
    StaticSize,     \* sizeof(T) of the types that have a static_implementor
    SetBodies,      \* the SETs that clients send
    MaxRequests     \* bound: requests handled in a behaviour

DTYPE_NONE == 0
DTYPE_BLOB == 1
DTYPE_STRING == 2
DTYPE_BIGINT == 11

\* The registry of implementors.
Types == {DTYPE_NONE, DTYPE_BLOB, DTYPE_STRING, DTYPE_BIGINT} \union DOMAIN StaticSize

ASSUME CodecAssumption ==
    /\ Base \in Nat \ {0, 1} /\ HeaderBytes \in Nat \ {0} /\ MaxRequests \in Nat
    /\ HashModulus \in Nat \ {0}
    /\ SetBodies \subseteq Seq(0..Base - 1) \ {<<>>}

\* Every type has one implementor, and the digits are bytes.
ASSUME TypesAssumption ==
    /\ StaticSize \in [DOMAIN StaticSize -> Nat]
    /\ DOMAIN StaticSize \intersect {DTYPE_NONE, DTYPE_BLOB, DTYPE_STRING, DTYPE_BIGINT} = {}
    /\ Base > 48

\* The weights of the bytes of a length field.  This is arithmetic, stated because
\* the provers know nothing of powers.
ASSUME PowersAssumption == \A i \in 0..HeaderBytes : Base ^ i \in Nat \ {0}

VARIABLES
    objects,    \* tree: the object stored under each hash
    status,     \* "serving", or "undefined" after undefined behaviour
    reply,      \* what the last request was answered with
    request,    \* history: the last request
    count,      \* requests handled
    accepted    \* history: the SETs that were accepted, in order

vars == <<objects, status, reply, request, count, accepted>>

------------------------------------------------------------------------------
(* Texts.                                                                   *)

\* strlen, within n bytes.
StrLen(s) ==
    CHOOSE n \in 0..Len(s) :
        /\ \A i \in 1..n : s[i] # 0
        /\ n < Len(s) => s[n + 1] = 0

HasNul(s) == StrLen(s) < Len(s)
Text(s) == SubSeq(s, 1, StrLen(s))
CString(s) == Append(s, 0)

\* get_string_mxsz: the bytes up to the zero byte, which replaces the last byte
\* when there is none.  An empty source has no last byte, and none is added.
Terminated(s) ==
    IF HasNul(s) THEN CString(Text(s))
    ELSE [i \in 1..Len(s) |-> IF i = Len(s) THEN 0 ELSE s[i]]

\* The int that a char of the key is promoted to.
Promoted(c) == IF c >= 128 THEN c - 256 ELSE c

\* _string_hash.
Hash(key) ==
    LET h[i \in 0..Len(key)] ==
            IF i = 0 THEN 5381 ELSE (h[i - 1] * 32 + h[i - 1] + Promoted(key[i])) % HashModulus
    IN  h[Len(key)]

------------------------------------------------------------------------------
(* The implementors.                                                        *)

\* blob_wrapper::get_size: the length field, little endian.
BlobLength(s) ==
    LET w[i \in 0..HeaderBytes] ==
            IF i = 0 THEN 0 ELSE w[i - 1] + s[i] * Base ^ (i - 1)
    IN  w[HeaderBytes]

\* What copy_to copies, and the uint32_t in which load_from keeps it.
BlobCopies(s) == BlobLength(s) + HeaderBytes
BlobSize(s) == BlobCopies(s) % Base ^ HeaderBytes

\* The bytes that load_from of a blob allocates, and those that load_to writes.
BlobIn(v) == SubSeq(v, 1, BlobSize(v))
BlobOut(data) == SubSeq(data, 1, BlobCopies(data))

\* bigint::read followed by to_string, for decimal digits: the leading zeros go.
Zero == 48
BigintText(s) ==
    LET zeros == CHOOSE n \in 0..Len(s) :
                     /\ \A i \in 1..n : s[i] = Zero
                     /\ n < Len(s) => s[n + 1] # Zero
    IN  IF zeros = Len(s) THEN <<Zero>> ELSE SubSeq(s, zeros + 1, Len(s))

\* A bigint is kept as the text that to_string gives.
BigintIn(v) == CString(BigintText(Text(Terminated(v))))

\* get_size and load_to of a string.
StringSize(data) == StrLen(data) + 1
StringOut(data) == CString(Text(data))

\* load_from of static_implementor; load_to writes the same bytes.
StaticIn(type, v) == SubSeq(v, 1, StaticSize[type])

\* Faulty variant: the length field of a blob is believed.
FitsUnchecked(type, v) ==
    \/ type \in {DTYPE_NONE, DTYPE_STRING}
    \/ type = DTYPE_BIGINT /\ Len(v) >= 2
    \/ type = DTYPE_BLOB /\ Len(v) >= HeaderBytes
    \/ type \in DOMAIN StaticSize /\ Len(v) >= StaticSize[type]

\* Faulty variant: a value of exactly the size of its type is refused.
FitsMore(type, v) ==
    \/ type \in {DTYPE_NONE, DTYPE_STRING}
    \/ type = DTYPE_BIGINT /\ Len(v) >= 2
    \/ type = DTYPE_BLOB /\ Len(v) >= HeaderBytes /\ Len(v) >= BlobSize(v)
    \/ type \in DOMAIN StaticSize /\ Len(v) > StaticSize[type]

\* The calls of require_at_least in load_from.
Fits(type, v) ==
    \/ type \in {DTYPE_NONE, DTYPE_STRING}
    \/ type = DTYPE_BIGINT /\ Len(v) >= 2
    \/ type = DTYPE_BLOB /\ Len(v) >= HeaderBytes /\ Len(v) >= BlobSize(v)
    \/ type \in DOMAIN StaticSize /\ Len(v) >= StaticSize[type]

\* load_from copies more than it has allocated or than the message holds.
Overruns(type, v) ==
    type = DTYPE_BLOB /\ (BlobCopies(v) > BlobSize(v) \/ BlobCopies(v) > Len(v))

\* Faulty variant: the whole rest of the message is kept.
LoadFromWhole(type, v) ==
    CASE type = DTYPE_NONE -> <<>>
      [] type = DTYPE_STRING -> v
      [] type = DTYPE_BIGINT -> BigintIn(v)
      [] OTHER -> v

\* db_object::load_from.
LoadFrom(type, v) ==
    CASE type = DTYPE_NONE -> <<>>
      [] type = DTYPE_STRING -> Terminated(v)
      [] type = DTYPE_BIGINT -> BigintIn(v)
      [] type = DTYPE_BLOB -> BlobIn(v)
      [] OTHER -> StaticIn(type, v)

\* Faulty variant: the zero byte is not counted.
GetSizeNoNul(o) ==
    CASE o.type = DTYPE_NONE -> 0
      [] o.type \in {DTYPE_STRING, DTYPE_BIGINT} -> StrLen(o.data)
      [] o.type = DTYPE_BLOB -> BlobCopies(o.data)
      [] OTHER -> StaticSize[o.type]

\* db_object::get_size, by which the buffer of a notice is allocated.
GetSize(o) ==
    CASE o.type = DTYPE_NONE -> 0
      [] o.type \in {DTYPE_STRING, DTYPE_BIGINT} -> StringSize(o.data)
      [] o.type = DTYPE_BLOB -> BlobCopies(o.data)
      [] OTHER -> StaticSize[o.type]

\* db_object::write_to: what load_to writes into that buffer.
LoadTo(o) ==
    CASE o.type = DTYPE_NONE -> <<>>
      [] o.type \in {DTYPE_STRING, DTYPE_BIGINT} -> StringOut(o.data)
      [] o.type = DTYPE_BLOB -> BlobOut(o.data)
      [] OTHER -> StaticIn(o.type, o.data)

\* strlen leaves the memory of the object.
ReadsPast(o) == o.type = DTYPE_STRING /\ ~HasNul(o.data)

------------------------------------------------------------------------------
(* db_object, and what the handlers make of it.                             *)

\* send_value: the length announced in the preamble, and the body.
NoticeSize(o) == Len(o.key) + 1 + 1 + GetSize(o)
Notice(o) == CString(o.key) \o <<o.type>> \o LoadTo(o)

\* The parts that set_handler takes a body apart into.
KeyOf(body) == Text(body)
HasDtype(body) == Len(body) - StrLen(body) >= 2
TypeOf(body) == body[StrLen(body) + 2]
ValueOf(body) == SubSeq(body, StrLen(body) + 3, Len(body))

\* set_value: the object that is put into the tree.
ObjectOf(body) ==
    [key |-> KeyOf(body), type |-> TypeOf(body), data |-> LoadFrom(TypeOf(body), ValueOf(body))]

Reply(kind, size, body) == [kind |-> kind, size |-> size, body |-> body]
Updated(o) == Reply("updated", NoticeSize(o), Notice(o))

\* Faulty variant: the zero byte is hashed too.
StoredHashesNul(o) ==
    LET n == Hash(CString(o.key))
    IN  [h \in DOMAIN objects \union {n} |-> IF h = n THEN o ELSE objects[h]]

\* tree::set under the hash of the key.
Stored(o) ==
    LET n == Hash(o.key)
    IN  [h \in DOMAIN objects \union {n} |-> IF h = n THEN o ELSE objects[h]]

\* as_cstr puts a zero byte over the last byte of the body.
AsCstr(query) == Text([query EXCEPT ![Len(query)] = 0])

\* Faulty variant: the key ends with the body.
AnswerUnterminated(query) ==
    IF Hash(query) \in DOMAIN objects THEN Updated(objects[Hash(query)])
    ELSE Reply("deleted", Len(query) + 1, CString(query))

\* get_handler.
Answer(query) ==
    LET key == AsCstr(query)
    IN  IF Hash(key) \in DOMAIN objects THEN Updated(objects[Hash(key)])
        ELSE Reply("deleted", Len(key) + 1, CString(key))

------------------------------------------------------------------------------
(* The requests.                                                            *)

Receive(op, body) ==
    /\ status = "serving"
    /\ count < MaxRequests
    /\ count' = count + 1
    /\ request' = [op |-> op, body |-> body]

Accepts(body) ==
    HasDtype(body) /\ TypeOf(body) \in Types /\ Fits(TypeOf(body), ValueOf(body))

\* set_handler answers an error: there is no room for a DTYPE, the type is not
\* registered, or load_from throws.
HandleBadSet(body) ==
    /\ Receive("set", body)
    /\ ~Accepts(body)
    /\ reply' = Reply("error", 0, <<>>)
    /\ UNCHANGED <<objects, status, accepted>>

\* set_handler stores the object and sends it to the connections.
HandleSet(body) ==
    /\ Receive("set", body)
    /\ Accepts(body)
    /\ ~Overruns(TypeOf(body), ValueOf(body)) /\ ~ReadsPast(ObjectOf(body))
    /\ objects' = Stored(ObjectOf(body))
    /\ reply' = Updated(ObjectOf(body))
    /\ accepted' = Append(accepted, body)
    /\ UNCHANGED status

\* load_from or the broadcast leaves the memory it may use.
HandleSetUndefined(body) ==
    /\ Receive("set", body)
    /\ Accepts(body)
    /\ Overruns(TypeOf(body), ValueOf(body)) \/ ReadsPast(ObjectOf(body))
    /\ status' = "undefined"
    /\ UNCHANGED <<objects, reply, accepted>>

HandleGet(query) ==
    /\ Receive("get", query)
    /\ reply' = Answer(query)
    /\ UNCHANGED <<objects, status, accepted>>

\* GETs ask for the keys of the SETs, with and without the zero byte.
Queries == {CString(KeyOf(b)) : b \in SetBodies} \union ({KeyOf(b) : b \in SetBodies} \ {<<>>})

\* BIGINTs are digits: what bigint::read does with other characters is not modelled.
ASSUME DigitsAssumption ==
    \A b \in SetBodies :
        HasDtype(b) /\ TypeOf(b) = DTYPE_BIGINT =>
            LET text == Text(Terminated(ValueOf(b)))
            IN  \A i \in 1..Len(text) : text[i] \in Zero..Zero + 9

------------------------------------------------------------------------------
Init ==
    /\ objects = [h \in {} |-> <<>>]
    /\ status = "serving"
    /\ reply = Reply("none", 0, <<>>)
    /\ request = [op |-> "none", body |-> <<>>]
    /\ count = 0
    /\ accepted = <<>>

Next ==
    \/ \E body \in SetBodies : HandleSet(body) \/ HandleBadSet(body) \/ HandleSetUndefined(body)
    \/ \E query \in Queries : HandleGet(query)

Spec == Init /\ [][Next]_vars

------------------------------------------------------------------------------
(* Properties.                                                              *)

Bytes == Seq(0..Base - 1)

\* Objects are typed, and found under the hash of the key they carry.
TypeOK ==
    /\ \A h \in DOMAIN objects :
           /\ h = Hash(objects[h].key)
           /\ ~HasNul(objects[h].key)
           /\ objects[h].type \in Types
           /\ objects[h].data \in Bytes
    /\ status \in {"serving", "undefined"}
    /\ reply.kind \in {"none", "error", "updated", "deleted"}
    /\ count \in 0..MaxRequests
    /\ reply.size \in Nat /\ reply.body \in Bytes

\* The grammar of a SET, as a property of its bytes: a key, a zero byte, a type
\* and a value that is long enough for it.
WellFormed(body) ==
    \E n \in 0..Len(body) - 2 :
        LET type == body[n + 2]
            left == Len(body) - n - 2
            v == SubSeq(body, n + 3, Len(body))
        IN  /\ \A i \in 1..n : body[i] # 0
            /\ body[n + 1] = 0
            /\ \/ type \in {DTYPE_NONE, DTYPE_STRING}
               \/ type = DTYPE_BIGINT /\ left >= 2
               \/ type = DTYPE_BLOB /\ left >= HeaderBytes /\ left - HeaderBytes >= BlobLength(v)
               \/ type \in DOMAIN StaticSize /\ left >= StaticSize[type]

\* set_handler takes exactly the well-formed SETs, whatever bytes the others have.
AcceptsWellFormed ==
    status = "serving" /\ request.op = "set" =>
        (reply.kind = "updated" <=> WellFormed(request.body))

\* The length of a blob is so near to the limit of uint32_t that the size of the
\* allocation wraps, or a string has no bytes to put its zero byte in.
Edge(body) ==
    \/ TypeOf(body) = DTYPE_BLOB /\ BlobCopies(ValueOf(body)) >= Base ^ HeaderBytes
    \/ TypeOf(body) = DTYPE_STRING /\ ValueOf(body) = <<>>

\* No SET makes the server copy or read past an allocation or past the message,
\* but for the two edges: require_at_least and get_string_mxsz catch the rest.
UndefinedOnlyAtEdges == status = "undefined" => Edge(request.body)

\* The body of a notice is as long as its preamble says, so that the peer finds
\* the next preamble: get_size and load_to agree for every stored object.
NoticeFilled ==
    /\ \A h \in DOMAIN objects : NoticeSize(objects[h]) = Len(Notice(objects[h]))
    /\ reply.size = Len(reply.body)

\* A notice is laid out like a SET, and sent back as one it stores the same object:
\* copies of the database can be handed on.
NoticeStoresSame ==
    \A h \in DOMAIN objects :
        Accepts(Notice(objects[h])) /\ ObjectOf(Notice(objects[h])) = objects[h]

\* What a value means: a number of fixed size, the content of a blob, a text, or a
\* number in decimal digits.
Meaning(type, v) ==
    LET text == IF HasNul(v) THEN Text(v) ELSE SubSeq(v, 1, Len(v) - 1)
        number[i \in 0..Len(text)] == IF i = 0 THEN 0 ELSE number[i - 1] * 10 + (text[i] - Zero)
    IN  CASE type = DTYPE_NONE -> <<>>
          [] type = DTYPE_STRING -> text
          [] type = DTYPE_BIGINT -> <<number[Len(text)]>>
          [] type = DTYPE_BLOB -> SubSeq(v, HeaderBytes + 1, HeaderBytes + BlobLength(v))
          [] OTHER -> SubSeq(v, 1, StaticSize[type])

\* The characters of a key as the coefficients of a polynomial at 33, wrapped once:
\* keys for which it is the same may be taken for each other.
Poly(key) ==
    LET sum[i \in 0..Len(key)] ==
            IF i = 0 THEN 5381 ELSE sum[i - 1] * 33 + Promoted(key[i])
    IN  sum[Len(key)] % HashModulus

Overtaken(i) ==
    \E j \in i + 1..Len(accepted) : Poly(KeyOf(accepted[j])) = Poly(KeyOf(accepted[i]))

\* A GET for a key is answered with its key, its type and a value that means what
\* the last SET of the key said, until a key with the same polynomial is set.
AnswersLatest ==
    \A i \in 1..Len(accepted) :
        LET sent == accepted[i]
            answer == Answer(CString(KeyOf(sent)))
            got == answer.body
        IN  Overtaken(i)
            \/ /\ answer.kind = "updated"
               /\ KeyOf(got) = KeyOf(sent) /\ TypeOf(got) = TypeOf(sent)
               /\ Meaning(TypeOf(got), ValueOf(got)) = Meaning(TypeOf(sent), ValueOf(sent))
==============================================================================
