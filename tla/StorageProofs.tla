---------------------------- MODULE StorageProofs ----------------------------
(***************************************************************************)
(* Storage, for every layout of the header: its types, the header it        *)
(* serves, and what crashes leave to the next start.                        *)
(***************************************************************************)
EXTENDS Storage, TLAPS

USE StorageAssumption DEF Written

\* What a start leaves behind.  A file that was written, or is about to be, is a
\* small one and stays small, because make_fresh writes less than the limit; a
\* large one is never written.
Inv ==
    /\ TypeOK
    /\ buffered => status = "serving" /\ file.size >= 0 /\ TooSmall(file)
    /\ wroteOnce => file.size >= 0 /\ TooSmall(file)
    /\ unsynced => wroteOnce
    /\ header = "loaded" => ~TooSmall(file)
    /\ header # "short"
    /\ servedOnce => TooSmall(file) \/ MagicVerifies(file)
    /\ status = "refused" => ~servedOnce

------------------------------------------------------------------------------
\* The initial states, any file among them, satisfy the invariant.
LEMMA InvInit == Init => Inv
<1> SUFFICES ASSUME Init PROVE Inv
  OBVIOUS
<1>1. file \in [ours : 0..Written, size : Nat] \union {Missing}
  BY DEF Init, Files
<1>2. file.ours <= AtLeast(file.size, 0)
  BY DEF Init, Files, Missing, AtLeast
<1> QED BY <1>1, <1>2 DEF Init, Inv, TypeOK

\* What open_file opens is a file, and the one that was there if there was one.
LEMMA OpenedFile ==
    ASSUME TypeOK
    PROVE  /\ Opened \in [ours : 0..Written, size : Nat]
           /\ Opened.ours <= Opened.size
           /\ file # Missing => Opened = file
           /\ file.size >= 0 => Opened = file
           /\ TooSmall(file) <=> TooSmall(Opened)
  BY DEF TypeOK, Opened, Missing, AtLeast, TooSmall

\* A large file was there before it was opened.
LEMMA LargeOpened ==
    ASSUME TypeOK, ~TooSmall(Opened) \/ ~TooSmall(file)
    PROVE  Opened = file /\ ~TooSmall(file) /\ file.size \in Nat
<1>1. file # Missing
  BY DEF Opened, Missing, TooSmall
<1>2. Opened = file
  BY <1>1 DEF Opened
<1> QED BY <1>1, <1>2 DEF TypeOK

\* A step that changes nothing preserves the invariant.
LEMMA InvStutter == Inv /\ UNCHANGED vars => Inv'
  BY DEF Inv, vars, TypeOK, AtLeast, TooSmall, MagicVerifies

\* Every step preserves the invariant, one lemma for each kind of step.
LEMMA InvStart ==
    ASSUME Inv, StartFresh \/ StartReload \/ StartRefused \/ StartFails
    PROVE  Inv'
<1>1. TypeOK
  BY DEF Inv
<1>2. CASE StartFresh
  BY <1>1, <1>2, OpenedFile DEF Inv, StartFresh, Serve, MakesFresh, TooSmall, TypeOK, AtLeast
<1>3. CASE StartReload
  <2>1. file' = file /\ ~TooSmall(file) /\ MagicVerifies(file) /\ file.size >= 0
    BY <1>1, <1>3, LargeOpened DEF StartReload, MakesFresh
  <2>2. status' = "serving" /\ servedOnce' /\ header' = "loaded"
    BY <1>1, <1>3, <2>1, OpenedFile DEF StartReload, Serve, TooSmall, TypeOK
  <2>3. UNCHANGED <<folded, unsynced, wroteOnce>> /\ ~buffered'
    BY <1>3 DEF StartReload
  <2>4. TypeOK'
    BY <1>1, <1>3, <2>1, <2>2, <2>3 DEF TypeOK, StartReload, Serve
  <2> QED BY <2>1, <2>2, <2>3, <2>4 DEF Inv, TooSmall, MagicVerifies
<1>4. CASE StartRefused
  <2>1. file' = file /\ ~TooSmall(file) /\ ~MagicVerifies(file)
    BY <1>1, <1>4, LargeOpened DEF StartRefused, MakesFresh
  <2>2. status = "down" /\ status' = "refused"
        /\ UNCHANGED <<folded, header, buffered, unsynced, servedOnce, wroteOnce>>
    BY <1>4 DEF StartRefused
  <2>3. TypeOK'
    BY <1>1, <2>1, <2>2 DEF TypeOK
  <2> QED BY <2>1, <2>2, <2>3 DEF Inv, TooSmall, MagicVerifies
<1>5. CASE StartFails
  <2>1. UNCHANGED <<folded, status, header, buffered, unsynced, servedOnce, wroteOnce>>
    BY <1>5 DEF StartFails
  <2>2. CASE file' = file
    BY <2>1, <2>2, InvStutter DEF vars
  <2>3. CASE file' = Opened /\ Opened # file
    <3>1. ~wroteOnce /\ ~buffered /\ TooSmall(file) /\ TooSmall(Opened)
      BY <1>1, <2>3, OpenedFile DEF Inv, Opened, Missing, TooSmall
    <3>2. TypeOK'
      BY <1>1, <2>1, <2>3, OpenedFile DEF TypeOK, AtLeast
    <3> QED BY <2>1, <2>3, <3>1, <3>2 DEF Inv, TooSmall
  <2> QED BY <1>5, <2>2, <2>3 DEF StartFails
<1> QED BY <1>2, <1>3, <1>4, <1>5

\* Handing a part of the stream's buffer to the system keeps the invariant.
LEMMA InvFlush ==
    ASSUME Inv, NEW n \in 1..Written, Flush(n)
    PROVE  Inv'
  BY DEF Inv, Flush, TypeOK, AtLeast, TooSmall, Missing

\* A crash or a loss of power keeps the invariant.
LEMMA InvDown ==
    ASSUME Inv, Crash \/ PowerLoss
    PROVE  Inv'
<1>1. CASE Crash
  BY <1>1 DEF Inv, Crash, Down, TypeOK, AtLeast, TooSmall, MagicVerifies
<1>2. CASE PowerLoss
  <2>1. wroteOnce /\ TooSmall(file) /\ file.size >= 0 /\ TypeOK
    BY <1>2 DEF Inv, PowerLoss
  <2>2. file \in [ours : 0..Written, size : Nat] /\ file.ours <= file.size
    BY <2>1 DEF TypeOK, Missing, AtLeast
  <2>3. PICK kept \in 0..file.ours : file' = [file EXCEPT !.ours = kept]
    BY <1>2 DEF PowerLoss
  <2>4. /\ file' \in [ours : 0..Written, size : Nat]
        /\ file'.ours <= file'.size /\ file'.size = file.size
    BY <2>2, <2>3
  <2>5. TypeOK'
    <3>1. file'.ours <= AtLeast(file'.size, 0)
      BY <2>4 DEF AtLeast
    <3>2. status' = "down" /\ header' = "none" /\ buffered' = FALSE
          /\ unsynced' = FALSE /\ UNCHANGED <<folded, servedOnce, wroteOnce>>
      BY <1>2 DEF PowerLoss, Down
    <3> QED BY <2>1, <2>4, <3>1, <3>2 DEF TypeOK
  <2> QED BY <1>2, <2>1, <2>4, <2>5 DEF Inv, PowerLoss, Down, TooSmall
<1> QED BY <1>1, <1>2

\* Every reachable state satisfies the invariant.
THEOREM Invariance == Spec => []Inv
<1>1. Inv /\ [Next]_vars => Inv'
  BY InvStart, InvFlush, InvDown, InvStutter DEF Next
<1> QED BY InvInit, <1>1, PTL DEF Spec

------------------------------------------------------------------------------
\* Storage keeps its types.
THEOREM TypeCorrect == Spec => []TypeOK
<1>1. Inv => TypeOK
  BY DEF Inv
<1> QED BY Invariance, <1>1, PTL

\* After one start that succeeded no crash and no loss of power makes verify_magic
\* refuse a later one.
THEOREM RestartsAreServed == Spec => []RestartNotRefused
<1>1. Inv => RestartNotRefused
  BY DEF Inv, RestartNotRefused
<1> QED BY Invariance, <1>1, PTL

\* A process that runs after make_fresh has written to the file serves the defaults.
NeverReadBack == wroteOnce => header \in {"none", "default"}

\* What make_fresh wrote is never read by reload, for every layout in which the
\* header in memory is larger than the one in the file.  This is a defect: verify_file
\* also takes an intact file of the program for one that "is empty or was corrupted"
\* (db_wrapper.h:77), and every later start writes it again.
THEOREM NothingIsReadBack == Spec => []NeverReadBack
<1>1. Inv => NeverReadBack
  BY DEF Inv, NeverReadBack, TypeOK
<1> QED BY Invariance, <1>1, PTL

\* No step changes a file that verify_file finds large enough.
THEOREM LargeFilesStay == Spec => LargeFileUntouched
<1>1. Inv /\ [Next]_vars => [~TooSmall(file) => file' = file]_vars
  <2> SUFFICES ASSUME Inv, Next, ~TooSmall(file)
               PROVE  file' = file
    BY DEF vars
  <2>1. Opened = file
    BY LargeOpened DEF Inv
  <2>2. ~buffered /\ ~unsynced
    BY DEF Inv
  <2>3. CASE StartFails
    BY <2>1, <2>3 DEF StartFails
  <2> QED BY <2>1, <2>2, <2>3 DEF Next, StartFresh, StartReload, StartRefused,
                                 Flush, Crash, PowerLoss
<1> QED BY Invariance, <1>1, PTL DEF Spec, LargeFileUntouched
==============================================================================
