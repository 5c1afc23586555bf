------------------------------- MODULE Storage -------------------------------
(***************************************************************************)
(* The storage file and the start of the program: db_wrapper::load_data,    *)
(* db::make_fresh and db::reload (db_wrapper.h, db.h, db_header.h), called  *)
(* by main, which exits when they throw.                                    *)
(*                                                                         *)
(* A file is its length and how many of its first bytes are the ones that   *)
(* make_fresh writes; the rest is foreign.  What make_fresh writes stays in *)
(* the buffer of the stream, of which any prefix may have reached the       *)
(* operating system when the process dies, and after a loss of power the    *)
(* file may have its length without all of its bytes.  Nothing closes the   *)
(* stream while the program runs, and SET never writes to it.               *)
(***************************************************************************)
EXTENDS Integers

CONSTANTS MagicSize,            \* sizeof(db_magic)
          FieldsSize,           \* what db_header::write_to writes
          MINIMAL_HEADER_SIZE,  \* sizeof(db_header), with padding and virtual tables
          MaxSize               \* bound: length of a file found at the first start

Written == MagicSize + FieldsSize

ASSUME StorageAssumption ==
    /\ MagicSize \in Nat \ {0} /\ FieldsSize \in Nat /\ MaxSize \in Nat
    /\ MINIMAL_HEADER_SIZE \in Nat
    /\ Written < MINIMAL_HEADER_SIZE

VARIABLES
    file,       \* the file on disk, Missing if there is none
    folded,     \* of the build: whether the compiler took magic.value for constant
    status,     \* of the process: "down", "serving" or "refused"
    header,     \* where the header in memory comes from
    buffered,   \* whether the stream holds what make_fresh wrote
    unsynced,   \* whether bytes were handed over since the last loss of power
    servedOnce, \* history: a start has succeeded
    wroteOnce   \* history: bytes of make_fresh have reached the file

vars == <<file, folded, status, header, buffered, unsynced, servedOnce, wroteOnce>>

Files == {f \in [ours : 0..Written, size : 0..MaxSize] : f.ours <= f.size}
Missing == [ours |-> 0, size |-> -1]

AtLeast(a, b) == IF a < b THEN b ELSE a
AtMost(a, b) == IF a < b THEN a ELSE b

------------------------------------------------------------------------------
(* load_data.                                                               *)

\* open_file creates the file when it does not exist.
Opened == IF file = Missing THEN [ours |-> 0, size |-> 0] ELSE file

\* Faulty variant: only an empty file is made fresh.
TooSmallIfEmpty(f) == f.size = 0

\* The test of verify_file.
TooSmall(f) == f.size < MINIMAL_HEADER_SIZE

\* db_magic::verify.  The member value starts as DB_MAGIC, so bytes that are not
\* read compare equal.  It is const: a compiler may compare DB_MAGIC with itself.
MagicVerifies(f) == folded \/ f.ours >= AtMost(MagicSize, f.size)

\* Faulty variant: the start is not noticed.
ServeKeepsDown(h) ==
    /\ status' = status
    /\ header' = h
    /\ servedOnce' = TRUE

\* A start that gets past load_data.  A short read raises no exception.
Serve(h) ==
    /\ status' = "serving"
    /\ header' = h
    /\ servedOnce' = TRUE

\* Faulty variant: a file without the magic is made fresh too.
MakesFreshUnlessMagic(f) == TooSmall(f) \/ ~MagicVerifies(f)

\* Whether verify_file rewrites the file.
MakesFresh(f) == TooSmall(f)

\* verify_file on a small file.  clear_file asks for in | trunc, a mode in which
\* no file can be opened: the content stays, and make_fresh writes over its start.
StartFresh ==
    /\ status = "down"
    /\ MakesFresh(Opened)
    /\ file' = Opened
    /\ buffered' = TRUE
    /\ Serve("default")
    /\ UNCHANGED <<folded, unsynced, wroteOnce>>

\* verify_file on a file that is large enough: reload.
StartReload ==
    /\ status = "down"
    /\ ~MakesFresh(Opened) /\ MagicVerifies(Opened)
    /\ file' = Opened
    /\ buffered' = FALSE
    /\ Serve(IF Opened.size < Written THEN "short" ELSE "loaded")
    /\ UNCHANGED <<folded, unsynced, wroteOnce>>

\* verify_magic throws, main exits with 1.
StartRefused ==
    /\ status = "down"
    /\ ~MakesFresh(Opened) /\ ~MagicVerifies(Opened)
    /\ file' = Opened
    /\ status' = "refused"
    /\ UNCHANGED <<folded, header, buffered, unsynced, servedOnce, wroteOnce>>

\* open_file throws, or reset_inner deletes what the uninitialised member inner
\* points to: the process ends before anything leaves the stream's buffer.
StartFails ==
    /\ status = "down"
    /\ file' \in {file, Opened}
    /\ UNCHANGED <<folded, status, header, buffered, unsynced, servedOnce, wroteOnce>>

------------------------------------------------------------------------------
(* The stream, and the end of the process.                                  *)

\* Some of the buffer is handed to the operating system.
Flush(n) ==
    /\ status = "serving" /\ buffered
    /\ n \in 1..Written
    /\ file' = [ours |-> AtLeast(file.ours, n), size |-> AtLeast(file.size, n)]
    /\ unsynced' = TRUE
    /\ wroteOnce' = TRUE
    /\ UNCHANGED <<folded, status, header, buffered, servedOnce>>

Down ==
    /\ status' = "down"
    /\ header' = "none"
    /\ buffered' = FALSE

\* The process is killed, run() is left by an exception, or it has exited: dbw is
\* a local variable of main and is not destroyed in any of these cases.
Crash ==
    /\ status # "down"
    /\ Down
    /\ UNCHANGED <<file, folded, unsynced, servedOnce, wroteOnce>>

PowerLoss ==
    /\ Down
    /\ unsynced
    /\ \E kept \in 0..file.ours : file' = [file EXCEPT !.ours = kept]
    /\ unsynced' = FALSE
    /\ UNCHANGED <<folded, servedOnce, wroteOnce>>

------------------------------------------------------------------------------
Init ==
    /\ file \in Files \union {Missing}
    /\ folded \in BOOLEAN
    /\ status = "down"
    /\ header = "none"
    /\ buffered = FALSE
    /\ unsynced = FALSE
    /\ servedOnce = FALSE
    /\ wroteOnce = FALSE

Next ==
    \/ StartFresh
    \/ StartReload
    \/ StartRefused
    \/ StartFails
    \/ \E n \in 1..Written : Flush(n)
    \/ Crash
    \/ PowerLoss

Spec == Init /\ [][Next]_vars

------------------------------------------------------------------------------
(* Properties.                                                              *)

\* The variables keep their types.
TypeOK ==
    /\ file \in [ours : 0..Written, size : Nat] \union {Missing}
    /\ file.ours <= AtLeast(file.size, 0)
    /\ folded \in BOOLEAN
    /\ status \in {"down", "serving", "refused"}
    /\ header \in {"none", "default", "loaded", "short"}
    /\ header = "none" <=> status # "serving"
    /\ buffered \in BOOLEAN /\ unsynced \in BOOLEAN
    /\ servedOnce \in BOOLEAN /\ wroteOnce \in BOOLEAN

\* Once a start on a file has succeeded no later one is refused for its magic,
\* however the process or the machine went down in between.
RestartNotRefused == status = "refused" => ~servedOnce

\* Starts, crashes and refusals leave a file of MINIMAL_HEADER_SIZE bytes or more
\* as it is: nothing of what a later start, crash or loss of power does reaches it.
LargeFileUntouched == [][~TooSmall(file) => file' = file]_vars
==============================================================================
