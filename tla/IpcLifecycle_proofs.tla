------------------------- MODULE IpcLifecycle_proofs -------------------------
(***************************************************************************)
(* Proofs about the life of the objects, for any number of servers and     *)
(* clients and of segments, and whichever of them are killed.              *)
(***************************************************************************)
EXTENDS IpcLifecycle, TLAPS

USE LifecycleAssumption DEF Gen, Proc, Goto

-----------------------------------------------------------------------------
(* Type correctness.                                                       *)

\* The variables that are not Boolean.
ValuesOK ==
  /\ shm \in Gen \cup {0} /\ mtx \in Gen \cup {0}
  /\ created \in 0..MaxGen
  /\ truncated \subseteq Gen /\ bonded \subseteq Gen
  /\ pc \in [Proc -> {"out", "truncate", "memset", "map", "mutex", "up", "detached",
                      "remove_shm", "remove_mtx"}]
  /\ segOf \in [Proc -> Gen \cup {0}] /\ mtxOf \in [Proc -> Gen \cup {0}]
  /\ mask \in [Proc -> {"own", "open"}] /\ old_umask \in [Proc -> {"own", "open"}]
  /\ failed \subseteq Server

\* Every action keeps the types and the handles: the segment that bond, truncate
\* and memset work on is one that was created.
LEMMA ValuesStep == ValuesOK /\ Handles /\ [Next]_vars => ValuesOK' /\ Handles'
<1> SUFFICES ASSUME ValuesOK, Handles, [Next]_vars PROVE ValuesOK' /\ Handles'
  OBVIOUS
<1> USE DEF ValuesOK, Handles, names, segments, masks, past, ServerThrows, Leave
<1>1. ASSUME NEW p \in Server, server_create(p) PROVE ValuesOK' /\ Handles'
  <2>1. CASE shm = 0
    BY <1>1, <2>1 DEF server_create
  <2>2. CASE shm # 0
    BY <1>1, <2>2 DEF server_create
  <2> QED
    BY <2>1, <2>2
<1>2. ASSUME NEW p \in Server, server_truncate(p) PROVE ValuesOK' /\ Handles'
  BY <1>2 DEF server_truncate
<1>3. ASSUME NEW p \in Server, server_memset(p) PROVE ValuesOK' /\ Handles'
  BY <1>3 DEF server_memset
<1>4. ASSUME NEW p \in Server, server_mutex(p) PROVE ValuesOK' /\ Handles'
  <2>1. CASE mtx = 0
    BY <1>4, <2>1 DEF server_mutex
  <2>2. CASE mtx # 0
    BY <1>4, <2>2 DEF server_mutex
  <2> QED
    BY <2>1, <2>2
<1>5. ASSUME NEW p \in Server, server_remove_shm(p) PROVE ValuesOK' /\ Handles'
  BY <1>5 DEF server_remove_shm
<1>6. ASSUME NEW p \in Server, server_remove_mutex(p) PROVE ValuesOK' /\ Handles'
  BY <1>6 DEF server_remove_mutex
<1>7. ASSUME NEW p \in Client, client_open(p) PROVE ValuesOK' /\ Handles'
  BY <1>7 DEF client_open
<1>8. ASSUME NEW p \in Client, client_map(p) PROVE ValuesOK' /\ Handles'
  BY <1>8 DEF client_map
<1>9. ASSUME NEW p \in Client, client_mutex(p) PROVE ValuesOK' /\ Handles'
  BY <1>9 DEF client_mutex
<1>10. ASSUME NEW p \in Client, bond(p) PROVE ValuesOK' /\ Handles'
  BY <1>10 DEF bond
<1>11. ASSUME NEW p \in Proc, destroy(p) PROVE ValuesOK' /\ Handles'
  <2>1. CASE pc[p] = "up" /\ p \in Server
    BY <1>11, <2>1 DEF destroy
  <2>2. CASE ~(pc[p] = "up" /\ p \in Server)
    BY <1>11, <2>2 DEF destroy
  <2> QED
    BY <2>1, <2>2
<1>12. ASSUME NEW p \in Proc, crash(p) PROVE ValuesOK' /\ Handles'
  BY <1>12 DEF crash
<1>13. ASSUME NEW p \in Server, server_fails(p) PROVE ValuesOK' /\ Handles'
  BY <1>13 DEF server_fails
<1>14. CASE UNCHANGED vars
  BY <1>14 DEF vars
<1> QED
  BY <1>1, <1>2, <1>3, <1>4, <1>5, <1>6, <1>7, <1>8, <1>9, <1>10, <1>11, <1>12, <1>13, <1>14
  DEF Next

\* The records of the past are Boolean.
FlagsOK == {erased, cut, overlapped} \subseteq BOOLEAN

\* The history flags stay Boolean.
LEMMA FlagsStep == FlagsOK /\ [Next]_vars => FlagsOK'
<1> SUFFICES ASSUME FlagsOK, [Next]_vars
             PROVE  erased' \in BOOLEAN /\ cut' \in BOOLEAN /\ overlapped' \in BOOLEAN
  BY DEF FlagsOK
<1>1. erased \in BOOLEAN /\ cut \in BOOLEAN /\ overlapped \in BOOLEAN
  BY DEF FlagsOK
<1>2. ASSUME NEW p \in Server, server_create(p)
      PROVE  UNCHANGED <<erased, cut>> /\ overlapped' \in BOOLEAN
  BY <1>1, <1>2 DEF server_create
<1>3. ASSUME NEW p \in Server, server_memset(p)
      PROVE  UNCHANGED <<overlapped, cut>> /\ erased' \in BOOLEAN
  BY <1>1, <1>3 DEF server_memset
<1>4. ASSUME NEW p \in Proc, crash(p)
      PROVE  UNCHANGED <<erased, overlapped>> /\ cut' \in BOOLEAN
  BY <1>1, <1>4 DEF crash
<1>5. ASSUME NEW p \in Server, server_fails(p)
      PROVE  UNCHANGED <<erased, overlapped>> /\ cut' \in BOOLEAN
  BY <1>1, <1>5 DEF server_fails
<1> QED
  BY <1>1, <1>2, <1>3, <1>4, <1>5
  DEF Next, vars, past, server_truncate, server_mutex, server_remove_shm,
      server_remove_mutex, client_open, client_map, client_mutex, bond, destroy

\* TypeOK is these together.
LEMMA TypeParts == TypeOK <=> ValuesOK /\ Handles /\ FlagsOK
  BY DEF TypeOK, ValuesOK, FlagsOK

\* The names, the segments and the objects always have their types.
THEOREM TypeCorrect == Spec => []TypeOK
<1>1. Init => ValuesOK /\ Handles
  BY DEF Init, ValuesOK, Handles
<1>2. Init => FlagsOK
  BY DEF Init, FlagsOK
<1> QED
  BY <1>1, <1>2, ValuesStep, FlagsStep, TypeParts, PTL DEF Spec

-----------------------------------------------------------------------------
(* The inductive invariant.                                                *)

\* Where a server is in init(), and where it has the name of the segment and of
\* the mutex to itself.
Initialising == {"truncate", "memset", "mutex"}
HasShm == Initialising \cup {"up", "remove_shm"}
HasMtx == {"up", "remove_shm", "remove_mtx"}

\* A server has a segment exactly when it is past create_only, and it is never
\* where only clients come.
ServerPlace ==
  \A s \in Server : /\ pc[s] \in {"out"} \cup HasShm \cup HasMtx
                    /\ segOf[s] = 0 <=> pc[s] = "out"

\* Nothing has the number of a segment that is still to be created.
Numbered ==
  /\ shm <= created /\ mtx <= created /\ bonded \subseteq 1..created
  /\ \A p \in Proc : segOf[p] <= created

\* No two servers have one segment; each one has its names while it needs them.
Owners ==
  /\ \A s, r \in Server : segOf[s] = segOf[r] /\ segOf[s] # 0 => s = r
  /\ \A s \in Server : /\ pc[s] \in HasShm => shm = segOf[s]
                       /\ pc[s] \in HasMtx => mtx = segOf[s]

\* Nothing but the servers that threw left an umask behind.
Umasks ==
  \A s \in Server \ failed :
    IF pc[s] \in Initialising THEN old_umask[s] = "own" ELSE mask[s] = "own"

\* The invariant of all behaviours.
OwnerInv == ValuesOK /\ Handles /\ ServerPlace /\ Numbered /\ Owners

\* Servers came one after the other: there is one at a time, and a client that
\* has its segment and a mutex has the mutex of that segment, or there is a
\* mutex left over with which the constructor of the server will fail.
OneServer ==
  \A s, r \in Server : pc[s] # "out" /\ pc[r] # "out" => s = r

SharesMutex(s, c) ==
  pc[s] # "out" /\ pc[c] = "up" /\ segOf[s] = segOf[c] =>
    mtxOf[c] = segOf[c] \/ (pc[s] \in Initialising /\ mtx # 0)

OneByOne ==
  /\ OneServer
  /\ \A s \in Server : pc[s] = "up" => mtxOf[s] = segOf[s]
  /\ \A s \in Server, c \in Client : SharesMutex(s, c)

Sequential == ~overlapped => OneByOne

\* Moreover none was cut short: then a name belongs to a server that is there,
\* and nobody has bonded with a segment that is being initialised.
LeftClean ==
  /\ shm # 0 => \E s \in Server : pc[s] \in HasShm
  /\ mtx # 0 => \E s \in Server : pc[s] \in HasMtx

NotYetBonded ==
  \A s \in Server : pc[s] \in Initialising =>
    /\ \A c \in Client : segOf[c] = segOf[s] => pc[c] # "up"
    /\ pc[s] # "mutex" => segOf[s] \notin bonded

AllClean == LeftClean /\ NotYetBonded /\ failed = {} /\ ~erased

Clean == Orderly => AllClean

\* The steps of init() of a client and its bond, which leave servers and names alone.
ClientStep(p) == client_open(p) \/ client_map(p) \/ client_mutex(p) \/ bond(p)

-----------------------------------------------------------------------------
(* The names and the servers.                                              *)

\* Handles that come from names, and flags of segments that somebody has open,
\* bring in no new number.
LEMMA NumberedKept ==
  ASSUME ValuesOK, Numbered, UNCHANGED created, shm' \in {shm, 0},
         mtx' \in {mtx, 0} \/ \E p \in Proc : mtx' = segOf[p],
         bonded' \subseteq bonded \/ \E p \in Proc : segOf[p] # 0 /\ bonded' = bonded \cup {segOf[p]},
         \A q \in Proc : segOf'[q] \in {segOf[q], shm, 0}
  PROVE  Numbered'
<1>1. shm' <= created /\ mtx' <= created
  BY DEF ValuesOK, Numbered
<1>2. \A q \in Proc : segOf'[q] <= created
  BY DEF ValuesOK, Numbered
<1>3. \A p \in Proc : segOf[p] # 0 => segOf[p] \in 1..created
  BY DEF ValuesOK, Numbered
<1>4. bonded' \subseteq 1..created
  BY <1>3 DEF Numbered
<1> QED
  BY <1>1, <1>2, <1>4 DEF Numbered

\* Every action keeps the numbering.
LEMMA NumberedStep == OwnerInv /\ [Next]_vars => Numbered'
<1> SUFFICES ASSUME OwnerInv, [Next]_vars PROVE Numbered'
  OBVIOUS
<1> USE DEF OwnerInv, ValuesOK, Handles, names, segments, ServerThrows, Leave
<1>1. ASSUME NEW p \in Server, server_create(p) PROVE Numbered'
  <2>1. CASE shm = 0
    BY <1>1, <2>1 DEF server_create, Numbered
  <2>2. CASE shm # 0
    BY <1>1, <2>2 DEF server_create, Numbered
  <2> QED
    BY <2>1, <2>2
<1>2. ASSUME NEW p \in Server, \/ server_truncate(p) \/ server_memset(p) \/ server_mutex(p)
                               \/ server_fails(p)
                               \/ server_remove_shm(p) \/ server_remove_mutex(p)
      PROVE  Numbered'
  <2>1. /\ UNCHANGED created /\ shm' \in {shm, 0} /\ bonded' \subseteq bonded
        /\ mtx' \in {mtx, 0, segOf[p]}
        /\ \A q \in Proc : segOf'[q] \in {segOf[q], 0}
    BY <1>2 DEF server_truncate, server_memset, server_mutex, server_fails,
                server_remove_shm, server_remove_mutex
  <2> QED
    BY <2>1, NumberedKept
<1>3. ASSUME NEW p \in Client, client_open(p) \/ client_map(p) \/ client_mutex(p)
      PROVE  Numbered'
  <2>1. /\ UNCHANGED <<created, shm, mtx, bonded>>
        /\ \A q \in Proc : segOf'[q] \in {segOf[q], shm, 0}
    BY <1>3 DEF client_open, client_map, client_mutex
  <2> QED
    BY <2>1, NumberedKept
<1>4. ASSUME NEW p \in Client, bond(p) PROVE Numbered'
  <2>1. /\ UNCHANGED <<created, shm, mtx, segOf>>
        /\ segOf[p] # 0 /\ bonded' = bonded \cup {segOf[p]}
    BY <1>4 DEF bond
  <2> QED
    BY <2>1, NumberedKept
<1>5. ASSUME NEW p \in Proc, destroy(p) \/ crash(p) PROVE Numbered'
  <2>1. /\ UNCHANGED <<created, shm, mtx>> /\ bonded' \subseteq bonded
        /\ \A q \in Proc : segOf'[q] \in {segOf[q], 0}
    BY <1>5 DEF destroy, crash
  <2> QED
    BY <2>1, NumberedKept
<1>6. CASE UNCHANGED vars
  BY <1>6 DEF vars, Numbered
<1> QED
  BY <1>1, <1>2, <1>3, <1>4, <1>5, <1>6 DEF Next

\* Every action keeps the servers in their places and in the possession of what
\* is theirs.
LEMMA OwnersStep == OwnerInv /\ [Next]_vars => ServerPlace' /\ Owners'
<1> SUFFICES ASSUME OwnerInv, [Next]_vars PROVE ServerPlace' /\ Owners'
  OBVIOUS
<1> USE DEF OwnerInv, ValuesOK, Handles, ServerPlace, Owners, Initialising,
            HasShm, HasMtx, names, ServerThrows, Leave
<1>1. ASSUME NEW p \in Server, server_create(p) PROVE ServerPlace' /\ Owners'
  <2>1. CASE shm = 0
    <3>1. \A s \in Server : pc[s] \notin HasShm /\ segOf[s] # created + 1
      BY <2>1 DEF Numbered
    <3> QED
      BY <1>1, <2>1, <3>1 DEF server_create
  <2>2. CASE shm # 0
    BY <1>1, <2>2 DEF server_create
  <2> QED
    BY <2>1, <2>2
<1>2. ASSUME NEW p \in Server, server_truncate(p) \/ server_memset(p)
      PROVE  ServerPlace' /\ Owners'
  BY <1>2 DEF server_truncate, server_memset
<1>3. ASSUME NEW p \in Server, server_mutex(p) PROVE ServerPlace' /\ Owners'
  <2>1. CASE mtx = 0
    <3>1. \A s \in Server : pc[s] \notin HasMtx
      BY <2>1
    <3> QED
      BY <1>3, <2>1, <3>1 DEF server_mutex
  <2>2. CASE mtx # 0
    BY <1>3, <2>2 DEF server_mutex
  <2> QED
    BY <2>1, <2>2
<1>4. ASSUME NEW p \in Server, server_remove_shm(p) PROVE ServerPlace' /\ Owners'
  <2>1. \A s \in Server \ {p} : pc[s] \notin HasShm
    BY <1>4 DEF server_remove_shm
  <2> QED
    BY <1>4, <2>1 DEF server_remove_shm
<1>5. ASSUME NEW p \in Server, server_remove_mutex(p) PROVE ServerPlace' /\ Owners'
  <2>1. \A s \in Server \ {p} : pc[s] \notin HasMtx
    BY <1>5 DEF server_remove_mutex
  <2> QED
    BY <1>5, <2>1 DEF server_remove_mutex
<1>6. ASSUME NEW p \in Client, ClientStep(p) PROVE ServerPlace' /\ Owners'
  <2>1. /\ UNCHANGED <<shm, mtx>>
        /\ \A s \in Server : pc'[s] = pc[s] /\ segOf'[s] = segOf[s]
    BY <1>6 DEF ClientStep, client_open, client_map, client_mutex, bond
  <2> QED
    BY <2>1
<1>7. ASSUME NEW p \in Proc, destroy(p) \/ crash(p) \/ server_fails(p)
      PROVE  ServerPlace' /\ Owners'
  BY <1>7 DEF destroy, crash, server_fails
<1>8. CASE UNCHANGED vars
  BY <1>8 DEF vars
<1> QED
  BY <1>1, <1>2, <1>3, <1>4, <1>5, <1>6, <1>7, <1>8 DEF Next, ClientStep

\* Every action keeps the invariant of the names.
LEMMA OwnerStep == OwnerInv /\ [Next]_vars => OwnerInv'
  BY ValuesStep, NumberedStep, OwnersStep DEF OwnerInv

\* The initial states, without any name, satisfy it.
LEMMA OwnerInit == Init => OwnerInv
  BY DEF Init, OwnerInv, ValuesOK, Handles, ServerPlace, Numbered, Owners, Initialising,
         HasShm, HasMtx

\* A server that is up has a segment of its own and both names lead to what it
\* created, whatever other servers start, throw, stop or are killed meanwhile.
THEOREM ServerOwnsNameHolds == Spec => []ServerOwnsName
<1>1. OwnerInv => ServerOwnsName
  BY DEF OwnerInv, ServerPlace, Owners, Initialising, HasShm, HasMtx, ServerOwnsName
<1> QED
  BY <1>1, OwnerInit, OwnerStep, PTL DEF Spec

-----------------------------------------------------------------------------
(* The umask.                                                              *)

\* Every action keeps the umask of the servers that never threw.
LEMMA UmaskStep == OwnerInv /\ Umasks /\ [Next]_vars => Umasks'
<1> SUFFICES ASSUME OwnerInv, Umasks, [Next]_vars PROVE Umasks'
  OBVIOUS
<1> USE DEF OwnerInv, ValuesOK, Umasks, Initialising, masks, past, ServerThrows, Leave
<1>1. ASSUME NEW p \in Server, server_create(p) PROVE Umasks'
  <2>1. CASE shm = 0
    BY <1>1, <2>1 DEF server_create
  <2>2. CASE shm # 0
    BY <1>1, <2>2 DEF server_create
  <2> QED
    BY <2>1, <2>2
<1>2. ASSUME NEW p \in Server, server_mutex(p) PROVE Umasks'
  <2>1. CASE mtx = 0
    BY <1>2, <2>1 DEF server_mutex
  <2>2. CASE mtx # 0
    BY <1>2, <2>2 DEF server_mutex
  <2> QED
    BY <2>1, <2>2
<1>3. ASSUME NEW p \in Server, server_truncate(p) \/ server_memset(p) PROVE Umasks'
  BY <1>3 DEF server_truncate, server_memset
<1>4. ASSUME NEW p \in Server, server_remove_shm(p) \/ server_remove_mutex(p) PROVE Umasks'
  BY <1>4 DEF server_remove_shm, server_remove_mutex
<1>5. ASSUME NEW p \in Client, ClientStep(p) PROVE Umasks'
  <2>1. /\ UNCHANGED <<mask, old_umask, failed>>
        /\ \A s \in Server : pc'[s] = pc[s]
    BY <1>5 DEF ClientStep, client_open, client_map, client_mutex, bond
  <2> QED
    BY <2>1
<1>6. ASSUME NEW p \in Proc, destroy(p) PROVE Umasks'
  BY <1>6 DEF destroy
<1>7. ASSUME NEW p \in Proc, crash(p) PROVE Umasks'
  BY <1>7 DEF crash
<1>8. CASE UNCHANGED vars
  BY <1>8 DEF vars
<1>9. ASSUME NEW p \in Server, server_fails(p) PROVE Umasks'
  BY <1>9 DEF server_fails
<1> QED
  BY <1>1, <1>2, <1>3, <1>4, <1>5, <1>6, <1>7, <1>8, <1>9 DEF Next, ClientStep

\* Outside init() a server none of whose constructors has thrown has its own
\* umask: what init stores is what it finds, and what it restores.
THEOREM UmaskRestoredHolds == Spec => []UmaskRestored
<1>1. Init => Umasks
  BY DEF Init, Umasks
<1>2. Umasks => UmaskRestored
  BY DEF Umasks, UmaskRestored, Initialising
<1> QED
  BY <1>1, <1>2, OwnerInit, OwnerStep, UmaskStep, PTL DEF Spec

-----------------------------------------------------------------------------
(* Servers that come one after the other.                                  *)

\* What is recorded of the past stays recorded.
LEMMA PastKept ==
  [Next]_vars => /\ overlapped => overlapped'
                 /\ cut => cut'
<1> SUFFICES ASSUME [Next]_vars PROVE (overlapped => overlapped') /\ (cut => cut')
  OBVIOUS
<1>1. ASSUME NEW p \in Server, server_create(p)
      PROVE  (overlapped => overlapped') /\ UNCHANGED cut
  BY <1>1 DEF server_create
<1>2. ASSUME NEW p \in Proc, crash(p) PROVE UNCHANGED overlapped /\ (cut => cut')
  BY <1>2 DEF crash
<1>3. ASSUME NEW p \in Server, server_fails(p)
      PROVE  UNCHANGED overlapped /\ (cut => cut')
  BY <1>3 DEF server_fails
<1> QED
  BY <1>1, <1>2, <1>3
  DEF Next, vars, past, server_truncate, server_memset, server_mutex, server_remove_shm,
      server_remove_mutex, client_open, client_map, client_mutex, bond, destroy

\* Every action of orderly servers, and every action of clients, keeps it.
LEMMA SequentialStep == OwnerInv /\ Sequential /\ [Next]_vars => Sequential'
<1> SUFFICES ASSUME OwnerInv, OneByOne, [Next]_vars, ~overlapped' PROVE OneByOne'
  BY PastKept DEF Sequential
<1> USE DEF OwnerInv, ValuesOK, Handles, ServerPlace, Initialising, HasShm, HasMtx,
            OneByOne, OneServer, SharesMutex, names, segments, ServerThrows, Leave
<1>1. ASSUME NEW p \in Server, server_create(p) PROVE OneByOne'
  <2>1. \A s \in Server : pc[s] = "out"
    BY <1>1 DEF server_create
  <2>2. CASE shm = 0
    <3>1. \A c \in Client : segOf[c] # created + 1
      BY DEF Numbered
    <3>2. /\ segOf' = [segOf EXCEPT ![p] = created + 1] /\ Goto(p, "truncate")
          /\ UNCHANGED mtxOf
      BY <1>1, <2>2 DEF server_create
    <3> QED
      BY <2>1, <3>1, <3>2
  <2>3. CASE shm # 0
    <3>1. Leave(p)
      BY <1>1, <2>3 DEF server_create
    <3> QED
      BY <2>1, <3>1
  <2> QED
    BY <2>2, <2>3
<1>2. ASSUME NEW p \in Server, server_truncate(p) \/ server_memset(p) PROVE OneByOne'
  <2>1. /\ UNCHANGED <<mtx, segOf, mtxOf>> /\ pc[p] \in {"truncate", "memset"}
        /\ Goto(p, "memset") \/ Goto(p, "mutex")
    BY <1>2 DEF server_truncate, server_memset
  <2> QED
    BY <2>1
<1>3. ASSUME NEW p \in Server, server_mutex(p) PROVE OneByOne'
  <2>1. \A s \in Server \ {p} : pc[s] = "out"
    BY <1>3 DEF server_mutex
  <2>2. CASE mtx = 0
    <3>1. /\ mtxOf' = [mtxOf EXCEPT ![p] = segOf[p]] /\ Goto(p, "up")
          /\ UNCHANGED segOf
      BY <1>3, <2>2 DEF server_mutex
    <3>2. \A c \in Client : pc[c] = "up" /\ segOf[c] = segOf[p] => mtxOf[c] = segOf[c]
      BY <1>3, <2>2 DEF server_mutex
    <3> QED
      BY <2>1, <3>1, <3>2
  <2>3. CASE mtx # 0
    <3>1. Leave(p)
      BY <1>3, <2>3 DEF server_mutex
    <3> QED
      BY <2>1, <3>1
  <2> QED
    BY <2>2, <2>3
<1>4. ASSUME NEW p \in Server, server_remove_shm(p) PROVE OneByOne'
  BY <1>4 DEF server_remove_shm
<1>5. ASSUME NEW p \in Server, server_remove_mutex(p) PROVE OneByOne'
  <2>1. \A s \in Server \ {p} : pc[s] = "out"
    BY <1>5 DEF server_remove_mutex
  <2>2. Leave(p)
    BY <1>5 DEF server_remove_mutex
  <2> QED
    BY <2>1, <2>2
<1>6. ASSUME NEW p \in Client, client_open(p) \/ client_map(p) PROVE OneByOne'
  <2>1. /\ UNCHANGED mtx /\ pc'[p] # "up"
        /\ \A q \in Proc \ {p} : pc'[q] = pc[q] /\ segOf'[q] = segOf[q] /\ mtxOf'[q] = mtxOf[q]
    BY <1>6 DEF client_open, client_map
  <2> QED
    BY <2>1
<1>7. ASSUME NEW p \in Client, client_mutex(p) PROVE OneByOne'
  <2>1. CASE mtx = 0
    BY <1>7, <2>1 DEF client_mutex
  <2>2. CASE mtx # 0
    <3>1. /\ Goto(p, "up") /\ mtxOf' = [mtxOf EXCEPT ![p] = mtx] /\ UNCHANGED <<mtx, segOf>>
      BY <1>7, <2>2 DEF client_mutex
    <3>2. \A s \in Server : SharesMutex(s, p)'
      BY <2>2, <3>1 DEF Owners
    <3> QED
      BY <3>1, <3>2
  <2> QED
    BY <2>1, <2>2
<1>8. ASSUME NEW p \in Client, bond(p) PROVE OneByOne'
  BY <1>8 DEF bond
<1>9. ASSUME NEW p \in Proc, destroy(p) PROVE OneByOne'
  <2>1. UNCHANGED mtx /\ (Leave(p) \/ (pc[p] = "up" /\ Goto(p, "remove_shm") /\ UNCHANGED <<segOf, mtxOf>>))
    BY <1>9 DEF destroy
  <2> QED
    BY <2>1
<1>10. ASSUME NEW p \in Proc, crash(p) \/ server_fails(p) PROVE OneByOne'
  <2>1. UNCHANGED mtx /\ Leave(p)
    BY <1>10 DEF crash, server_fails
  <2> QED
    BY <2>1
<1>11. CASE UNCHANGED vars
  BY <1>11 DEF vars
<1> QED
  BY <1>1, <1>2, <1>3, <1>4, <1>5, <1>6, <1>7, <1>8, <1>9, <1>10, <1>11 DEF Next

\* As long as servers come one after the other, a server that is up and a client
\* that has its segment exclude each other with one mutex, wherever in their
\* constructors and destructors processes were killed and started again.
THEOREM SameMutexHolds == Spec => []SameMutex
<1>1. Init => Sequential
  BY DEF Init, Sequential, OneByOne, OneServer, SharesMutex
<1>2. OwnerInv /\ Sequential => SameMutex
  BY DEF Sequential, OneByOne, SharesMutex, Initialising, SameMutex
<1> QED
  BY <1>1, <1>2, OwnerInit, OwnerStep, SequentialStep, PTL DEF Spec

-----------------------------------------------------------------------------
(* Orderly servers: one after the other, none killed or refused memory.    *)

\* Every action of orderly servers, and every action of clients, keeps it.
LEMMA CleanStep == OwnerInv /\ Sequential /\ Clean /\ [Next]_vars => Clean'
<1> SUFFICES ASSUME OwnerInv, OneServer, AllClean, [Next]_vars, Orderly' PROVE AllClean'
  BY PastKept DEF Sequential, OneByOne, Clean, Orderly
<1> USE DEF OwnerInv, ValuesOK, Handles, ServerPlace, Initialising, HasShm, HasMtx,
            OneServer, AllClean, LeftClean, NotYetBonded, names, segments, past,
            ServerThrows, Leave
<1>1. ASSUME NEW p \in Server, server_create(p) PROVE AllClean'
  <2>1. \A s \in Server : pc[s] = "out"
    BY <1>1 DEF server_create, Orderly
  <2>2. shm = 0 /\ mtx = 0
    BY <2>1
  <2>3. \A c \in Client : segOf[c] # created + 1
    BY DEF Numbered
  <2>4. created + 1 \notin bonded
    BY DEF Numbered
  <2>5. /\ segOf' = [segOf EXCEPT ![p] = created + 1] /\ Goto(p, "truncate")
        /\ UNCHANGED <<mtx, bonded, failed, erased>>
    BY <1>1, <2>2 DEF server_create
  <2> QED
    BY <2>1, <2>2, <2>3, <2>4, <2>5
<1>2. ASSUME NEW p \in Server, server_truncate(p) PROVE AllClean'
  <2>1. /\ pc[p] = "truncate" /\ Goto(p, "memset")
        /\ UNCHANGED <<shm, mtx, bonded, segOf, failed, erased>>
    BY <1>2 DEF server_truncate
  <2> QED
    BY <2>1
<1>3. ASSUME NEW p \in Server, server_memset(p) PROVE AllClean'
  <2>1. /\ pc[p] = "memset" /\ Goto(p, "mutex") /\ bonded' \subseteq bonded
        /\ UNCHANGED <<shm, mtx, segOf, failed>>
    BY <1>3 DEF server_memset
  <2>2. ~erased'
    BY <1>3 DEF server_memset
  <2> QED
    BY <2>1, <2>2
<1>4. ASSUME NEW p \in Server, server_mutex(p) PROVE AllClean'
  <2>1. \A s \in Server \ {p} : pc[s] = "out"
    BY <1>4 DEF server_mutex
  <2>2. mtx = 0
    BY <1>4, <2>1 DEF server_mutex
  <2>3. Goto(p, "up") /\ UNCHANGED <<shm, bonded, segOf, failed, erased>>
    BY <1>4, <2>2 DEF server_mutex
  <2> QED
    BY <2>1, <2>3
<1>5. ASSUME NEW p \in Server, server_remove_shm(p) PROVE AllClean'
  <2>1. /\ pc[p] = "remove_shm" /\ Goto(p, "remove_mtx") /\ shm' = 0
        /\ UNCHANGED <<mtx, bonded, segOf, failed, erased>>
    BY <1>5 DEF server_remove_shm
  <2> QED
    BY <2>1
<1>6. ASSUME NEW p \in Server, server_remove_mutex(p) PROVE AllClean'
  <2>1. \A s \in Server \ {p} : pc[s] = "out"
    BY <1>6 DEF server_remove_mutex
  <2>2. /\ pc[p] = "remove_mtx" /\ Leave(p) /\ mtx' = 0
        /\ UNCHANGED <<shm, bonded, failed, erased>>
    BY <1>6 DEF server_remove_mutex
  <2> QED
    BY <2>1, <2>2
<1>7. ASSUME NEW p \in Client, client_open(p) \/ client_map(p) PROVE AllClean'
  <2>1. /\ UNCHANGED <<shm, mtx, bonded, failed, erased>> /\ pc'[p] # "up"
        /\ \A q \in Proc \ {p} : pc'[q] = pc[q] /\ segOf'[q] = segOf[q]
    BY <1>7 DEF client_open, client_map
  <2> QED
    BY <2>1
<1>8. ASSUME NEW p \in Client, client_mutex(p) PROVE AllClean'
  <2>1. /\ UNCHANGED <<shm, mtx, bonded, segOf, failed, erased>>
        /\ mtx = 0 => pc'[p] # "up"
        /\ \A q \in Proc \ {p} : pc'[q] = pc[q]
    BY <1>8 DEF client_mutex
  <2>2. \A s \in Server : pc[s] \in Initialising => mtx = 0
    OBVIOUS
  <2> QED
    BY <2>1, <2>2
<1>9. ASSUME NEW p \in Client, bond(p) PROVE AllClean'
  <2>1. /\ UNCHANGED <<shm, mtx, pc, segOf, failed, erased>>
        /\ pc[p] = "up" /\ bonded' = bonded \cup {segOf[p]}
    BY <1>9 DEF bond
  <2> QED
    BY <2>1
<1>10. ASSUME NEW p \in Proc, destroy(p) PROVE AllClean'
  <2>1. /\ UNCHANGED <<shm, mtx, failed, erased>> /\ bonded' \subseteq bonded
        /\ \/ p \in Client /\ Leave(p)
           \/ pc[p] = "up" /\ Goto(p, "remove_shm") /\ UNCHANGED segOf
    BY <1>10 DEF destroy
  <2> QED
    BY <2>1
<1>11. ASSUME NEW p \in Proc, crash(p) PROVE AllClean'
  <2>1. p \in Client /\ Leave(p) /\ UNCHANGED <<shm, mtx, bonded, failed, erased>>
    BY <1>11 DEF crash, Orderly
  <2> QED
    BY <2>1
<1>12. CASE UNCHANGED vars
  BY <1>12 DEF vars
<1>13. ASSUME NEW p \in Server PROVE ~server_fails(p)
  BY DEF server_fails, Orderly
<1> QED
  BY <1>1, <1>2, <1>3, <1>4, <1>5, <1>6, <1>7, <1>8, <1>9, <1>10, <1>11, <1>12, <1>13
  DEF Next

\* The inductive invariant of orderly servers holds throughout.
LEMMA CleanCorrect == Spec => []Clean
<1>1. Init => Sequential
  BY DEF Init, Sequential, OneByOne, OneServer, SharesMutex
<1>2. Init => Clean
  BY DEF Init, Clean, AllClean, LeftClean, NotYetBonded, Initialising
<1> QED
  BY <1>1, <1>2, OwnerInit, OwnerStep, SequentialStep, CleanStep, PTL DEF Spec

\* No constructor of an orderly server ever throws: the destructor leaves nothing
\* that the next create_only would find, whatever clients do and are killed.
THEOREM CleanRestartHolds == Spec => []CleanRestart
<1>1. Clean => CleanRestart
  BY DEF Clean, AllClean, CleanRestart
<1> QED
  BY <1>1, CleanCorrect, PTL

\* The memset in init() of an orderly server never clears the flag of a client
\* that has bonded with the segment.
THEOREM InitErasesNothingHolds == Spec => []InitErasesNothing
<1>1. Clean => InitErasesNothing
  BY DEF Clean, AllClean, InitErasesNothing
<1> QED
  BY <1>1, CleanCorrect, PTL
=============================================================================
