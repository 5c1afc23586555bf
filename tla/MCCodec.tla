------------------------------- MODULE MCCodec -------------------------------
(***************************************************************************)
(* Codec with bytes of 256 values and a length field of two bytes in place  *)
(* of four.  The keys have two characters; "aB" and "b!" have one hash.     *)
(***************************************************************************)
EXTENDS Codec

\* INT8 to DOUBLE, the types with the static_implementor.
MCStaticSize ==
    [t \in 3..10 |-> CASE t \in {3, 4} -> 1 [] t \in {5, 6} -> 2 [] t \in {7, 8, 9} -> 4 [] OTHER -> 8]

MCKey == <<97, 66>>
MCOtherKeys == {<<98, 33>>, <<66, 97>>, <<200>>, <<>>}

\* Values at the limits of each type: a byte short, exact and with more behind it;
\* with and without a zero byte; blobs whose length is right, too long, or at the
\* limit of its width.  BIGINT is only given digits: its parser is not modelled
\* beyond them.
MCValues(type) ==
    CASE type = DTYPE_NONE -> {<<>>, <<5>>}
      [] type = DTYPE_BLOB ->
             {<<1>>, <<0, 0>>, <<1, 0, 9>>, <<1, 0, 9, 8>>, <<2, 0, 9>>,
              <<253, 255, 9>>, <<254, 255, 9>>, <<255, 255, 9>>}
      [] type = DTYPE_STRING -> {<<>>, <<0>>, <<48>>, <<49, 50>>, <<49, 0, 51>>}
      [] type = DTYPE_BIGINT -> {<<48>>, <<48, 0>>, <<48, 55, 0, 56>>, <<48, 55, 48>>}
      [] type \in 3..10 ->
             {[i \in 1..n |-> i] : n \in MCStaticSize[type] - 1..MCStaticSize[type] + 1}
      [] OTHER -> {<<5>>}

\* Bodies that end before a type, or whose key has no end.
MCMalformed == {<<97>>, <<97, 66>>, <<97, 66, 0>>, <<0>>}

MCSetBodies ==
    MCMalformed
        \union UNION {{CString(MCKey) \o <<t>> \o v : v \in MCValues(t)} : t \in 0..12}
        \union {CString(k) \o <<t, 5, 0>> : k \in MCOtherKeys, t \in {DTYPE_STRING, 4}}
==============================================================================
