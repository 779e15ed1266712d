----------------------------- MODULE IpcLifecycle -----------------------------
(***************************************************************************)
(* The life of RealTimeIPC objects: init(), which creates (server) or      *)
(* opens (client) the shared memory and the named mutex, and the           *)
(* destructor, which removes both names.  They are separate system calls,  *)
(* so processes interleave between them and may be killed between them.    *)
(*                                                                         *)
(* A segment lives on after its name was removed, for those who mapped it; *)
(* so does a mutex.  Segments are numbered in the order of their creation, *)
(* a mutex has the number of the segment of the server that created it.    *)
(* The two calls that the destructor makes on the packet, isBonded and     *)
(* breakBond, are one step here: module RealTimeIPC takes them apart.      *)
(***************************************************************************)
EXTENDS Integers

CONSTANTS
  Server,    \* the processes that create the segment
  Client,    \* the processes that open it
  MayCrash,  \* the processes that may be killed
  MaxGen     \* bound on the segments ever created, for model checking

Proc == Server \cup Client

ASSUME LifecycleAssumption ==
  /\ Server \cap Client = {}
  /\ MayCrash \subseteq Proc
  /\ MaxGen \in Nat

Gen == 1..MaxGen

VARIABLES
  shm,        \* the segment that has the name, or 0
  mtx,        \* the mutex that has the name, or 0
  created,    \* the number of segments created so far
  truncated,  \* the segments that have their size
  bonded,     \* the segments whose bond flag is set
  pc,         \* where each process is in the life of its object
  segOf,      \* the segment it opened, or 0
  mtxOf,      \* the mutex it opened, or 0
  mask,       \* the umask of the process: its own, or open (0)
  old_umask,  \* the local of init
  failed,     \* history: the servers whose constructor has thrown
  erased,     \* history: an initialisation cleared the flag of a client
  cut,        \* history: a server was killed or was refused memory
  overlapped  \* history: a server has started while another one was there

names == <<shm, mtx>>
segments == <<created, truncated, bonded>>
masks == <<mask, old_umask>>
past == <<failed, erased, cut, overlapped>>
vars == <<names, segments, pc, segOf, mtxOf, masks, past>>

Init ==
  /\ shm = 0
  /\ mtx = 0
  /\ created = 0
  /\ truncated = {}
  /\ bonded = {}
  /\ pc = [p \in Proc |-> "out"]
  /\ segOf = [p \in Proc |-> 0]
  /\ mtxOf = [p \in Proc |-> 0]
  /\ mask = [p \in Proc |-> "own"]
  /\ old_umask = [p \in Proc |-> "own"]
  /\ failed = {}
  /\ erased = FALSE
  /\ cut = FALSE
  /\ overlapped = FALSE

Goto(p, label) == pc' = [pc EXCEPT ![p] = label]

\* The object of p is gone, with its handles.
Leave(p) ==
  /\ Goto(p, "out")
  /\ segOf' = [segOf EXCEPT ![p] = 0]
  /\ mtxOf' = [mtxOf EXCEPT ![p] = 0]

\* init() returns false and the constructor throws.
ServerThrows(p) == Leave(p) /\ failed' = failed \cup {p}

-----------------------------------------------------------------------------
(* init() of a server.                                                     *)

\* Mutant of server_create: open_or_create.
server_create_or_open(p) ==
  /\ pc[p] = "out"
  /\ created < MaxGen
  /\ overlapped' = (overlapped \/ \E q \in Server : pc[q] # "out")
  /\ created' = IF shm = 0 THEN created + 1 ELSE created
  /\ shm' = IF shm = 0 THEN created' ELSE shm
  /\ segOf' = [segOf EXCEPT ![p] = shm']
  /\ Goto(p, "truncate")
  /\ UNCHANGED <<mtx, truncated, bonded, mtxOf, masks, failed, erased, cut>>

\* umask(0), then create_only.
server_create(p) ==
  /\ pc[p] = "out"
  /\ created < MaxGen
  /\ overlapped' = (overlapped \/ \E q \in Server : pc[q] # "out")
  /\ old_umask' = [old_umask EXCEPT ![p] = mask[p]]
  /\ mask' = [mask EXCEPT ![p] = "open"]
  /\ \/ /\ shm = 0
        /\ created' = created + 1
        /\ shm' = created'
        /\ segOf' = [segOf EXCEPT ![p] = created']
        /\ Goto(p, "truncate")
        /\ UNCHANGED <<mtxOf, failed>>
     \/ /\ shm # 0
        /\ ServerThrows(p)
        /\ UNCHANGED <<shm, created>>
  /\ UNCHANGED <<mtx, truncated, bonded, erased, cut>>

server_truncate(p) ==
  /\ pc[p] = "truncate"
  /\ truncated' = truncated \cup {segOf[p]}
  /\ Goto(p, "memset")
  /\ UNCHANGED <<names, created, bonded, segOf, mtxOf, masks, past>>

\* Map the segment and fill it with zeros.
server_memset(p) ==
  /\ pc[p] = "memset"
  /\ erased' = (erased \/ segOf[p] \in bonded)
  /\ bonded' = bonded \ {segOf[p]}
  /\ Goto(p, "mutex")
  /\ UNCHANGED <<names, created, truncated, segOf, mtxOf, masks, failed, cut, overlapped>>

\* Mutants of server_mutex: the umask is not restored; a mutex left over is
\* removed first.
server_mutex_open(p) ==
  /\ pc[p] = "mutex"
  /\ \/ /\ mtx = 0
        /\ mtx' = segOf[p]
        /\ mtxOf' = [mtxOf EXCEPT ![p] = segOf[p]]
        /\ Goto(p, "up")
        /\ UNCHANGED <<segOf, failed>>
     \/ /\ mtx # 0
        /\ ServerThrows(p)
        /\ UNCHANGED mtx
  /\ UNCHANGED <<shm, segments, masks, erased, cut, overlapped>>

server_mutex_replaces(p) ==
  /\ pc[p] = "mutex"
  /\ mtx' = segOf[p]
  /\ mtxOf' = [mtxOf EXCEPT ![p] = segOf[p]]
  /\ mask' = [mask EXCEPT ![p] = old_umask[p]]
  /\ Goto(p, "up")
  /\ UNCHANGED <<shm, segments, segOf, old_umask, past>>

\* Create the mutex, create_only, and restore the umask.  If the name is taken
\* the exception leaves the segment, its name and the umask as they are.
server_mutex(p) ==
  /\ pc[p] = "mutex"
  /\ \/ /\ mtx = 0
        /\ mtx' = segOf[p]
        /\ mtxOf' = [mtxOf EXCEPT ![p] = segOf[p]]
        /\ mask' = [mask EXCEPT ![p] = old_umask[p]]
        /\ Goto(p, "up")
        /\ UNCHANGED <<segOf, failed>>
     \/ /\ mtx # 0
        /\ ServerThrows(p)
        /\ UNCHANGED <<mtx, mask>>
  /\ UNCHANGED <<shm, segments, old_umask, erased, cut, overlapped>>

\* The truncate or the mapping of a server fails: the names of what it has created
\* stay, and so does umask 0.
server_fails(p) ==
  /\ pc[p] \in {"truncate", "memset"}
  /\ ServerThrows(p)
  /\ cut' = TRUE
  /\ UNCHANGED <<names, segments, masks, erased, overlapped>>

-----------------------------------------------------------------------------
(* init() of a client.                                                     *)

\* Mutant of client_open: the missing name goes unnoticed.
client_open_unchecked(p) ==
  /\ pc[p] = "out"
  /\ Goto(p, "map")
  /\ segOf' = [segOf EXCEPT ![p] = shm]
  /\ UNCHANGED <<names, segments, mtxOf, masks, past>>

\* open_only; a name that does not exist leaves the client without memory.
client_open(p) ==
  /\ pc[p] = "out"
  /\ IF shm = 0 THEN Goto(p, "detached") /\ UNCHANGED segOf
                ELSE Goto(p, "map") /\ segOf' = [segOf EXCEPT ![p] = shm]
  /\ UNCHANGED <<names, segments, mtxOf, masks, past>>

\* A segment without a size cannot be mapped: the constructor throws.
client_map(p) ==
  /\ pc[p] = "map"
  /\ IF segOf[p] \in truncated THEN Goto(p, "mutex") /\ UNCHANGED <<segOf, mtxOf>>
                               ELSE Leave(p)
  /\ UNCHANGED <<names, segments, masks, past>>

\* Mutant of client_mutex: a missing mutex is not an error.
client_mutex_optional(p) ==
  /\ pc[p] = "mutex"
  /\ Goto(p, "up")
  /\ mtxOf' = [mtxOf EXCEPT ![p] = mtx]
  /\ UNCHANGED <<names, segments, segOf, masks, past>>

\* open_only; without the mutex dim_with_header_ stays that of no memory.
client_mutex(p) ==
  /\ pc[p] = "mutex"
  /\ IF mtx = 0 THEN Goto(p, "detached") /\ UNCHANGED mtxOf
                ELSE Goto(p, "up") /\ mtxOf' = [mtxOf EXCEPT ![p] = mtx]
  /\ UNCHANGED <<names, segments, segOf, masks, past>>

-----------------------------------------------------------------------------
(* Use and destruction.                                                    *)

\* A client that has its memory bonds; the flag stays with the segment.
bond(p) ==
  /\ p \in Client
  /\ pc[p] = "up"
  /\ segOf[p] \notin bonded
  /\ bonded' = bonded \cup {segOf[p]}
  /\ UNCHANGED <<names, created, truncated, pc, segOf, mtxOf, masks, past>>

\* ~RealTimeIPC: break the bond; a server goes on to remove the names.
destroy(p) ==
  /\ \/ /\ pc[p] = "up"
        /\ bonded' = bonded \ {segOf[p]}
        /\ IF p \in Server THEN Goto(p, "remove_shm") /\ UNCHANGED <<segOf, mtxOf>>
                           ELSE Leave(p)
     \/ /\ pc[p] = "detached"
        /\ Leave(p)
        /\ UNCHANGED bonded
  /\ UNCHANGED <<names, created, truncated, masks, past>>

\* Whatever segment has the name by now loses it.
server_remove_shm(p) ==
  /\ pc[p] = "remove_shm"
  /\ shm' = 0
  /\ Goto(p, "remove_mtx")
  /\ UNCHANGED <<mtx, segments, segOf, mtxOf, masks, past>>

\* Mutant of server_remove_mutex: the name of the mutex stays.
server_remove_mutex_not(p) ==
  /\ pc[p] = "remove_mtx"
  /\ Leave(p)
  /\ UNCHANGED <<names, segments, masks, past>>

server_remove_mutex(p) ==
  /\ pc[p] = "remove_mtx"
  /\ mtx' = 0
  /\ Leave(p)
  /\ UNCHANGED <<shm, segments, masks, past>>

\* The process is killed and may be started again: the names stay.
crash(p) ==
  /\ p \in MayCrash
  /\ pc[p] # "out"
  /\ Leave(p)
  /\ mask' = [mask EXCEPT ![p] = "own"]
  /\ old_umask' = [old_umask EXCEPT ![p] = "own"]
  /\ cut' = (cut \/ p \in Server)
  /\ UNCHANGED <<names, segments, failed, erased, overlapped>>

Next ==
  \/ \E p \in Server : \/ server_create(p) \/ server_truncate(p) \/ server_memset(p)
                       \/ server_mutex(p) \/ server_fails(p)
                       \/ server_remove_shm(p) \/ server_remove_mutex(p)
  \/ \E p \in Client : client_open(p) \/ client_map(p) \/ client_mutex(p) \/ bond(p)
  \/ \E p \in Proc : destroy(p) \/ crash(p)

Spec == Init /\ [][Next]_vars

-----------------------------------------------------------------------------
(* Properties.                                                             *)

\* What a process has a handle of, by where it is: nobody works on a segment or
\* locks a mutex that it has not got, and an object that is gone has left none.
Handles ==
  \A p \in Proc :
    /\ pc[p] = "out" => segOf[p] = 0 /\ mtxOf[p] = 0
    /\ pc[p] \notin {"out", "detached"} => segOf[p] # 0
    /\ pc[p] \in {"up", "remove_shm", "remove_mtx"} => mtxOf[p] # 0

\* The types of the names, the segments and the objects, and Handles.
TypeOK ==
  /\ shm \in Gen \cup {0}
  /\ mtx \in Gen \cup {0}
  /\ created \in 0..MaxGen
  /\ truncated \subseteq Gen
  /\ bonded \subseteq Gen
  /\ pc \in [Proc -> {"out", "truncate", "memset", "map", "mutex", "up", "detached",
                      "remove_shm", "remove_mtx"}]
  /\ segOf \in [Proc -> Gen \cup {0}]
  /\ mtxOf \in [Proc -> Gen \cup {0}]
  /\ mask \in [Proc -> {"own", "open"}]
  /\ old_umask \in [Proc -> {"own", "open"}]
  /\ failed \subseteq Server
  /\ {erased, cut, overlapped} \subseteq BOOLEAN
  /\ Handles

\* As long as servers came one after the other, a server that is up and a
\* client that has the same segment lock the same mutex, whatever processes
\* were killed and restarted in the middle of their constructors and
\* destructors: otherwise the copies of getDataPacket and setDataPacket are not
\* exclusive.
SameMutex ==
  ~overlapped => \A s \in Server, c \in Client :
    pc[s] = "up" /\ pc[c] = "up" /\ segOf[s] = segOf[c] => mtxOf[s] = mtxOf[c]

\* Each server that is up has a segment of its own: create_only never hands
\* one segment to two servers, and the destructor of one that went before
\* has not removed the name of the one that is up.
ServerOwnsName ==
  \A s \in Server : pc[s] = "up" =>
    /\ shm = segOf[s] /\ mtx = segOf[s]
    /\ \A r \in Server \ {s} : segOf[r] # segOf[s]

\* Servers came one after the other, and none was killed or refused memory.
Orderly == ~cut /\ ~overlapped

\* With orderly servers every constructor of a server has succeeded, whatever
\* clients did and were killed: the destructor leaves nothing that makes the
\* next create_only throw.
CleanRestart == Orderly => failed = {}

\* With orderly servers no bond that a client made is erased by the memset of a
\* server that is still initialising the segment: the mutex appears after it.
InitErasesNothing == Orderly => ~erased

\* "store old", "restore old": outside init() a server has its own umask, through
\* any number of starts and stops, unless one of its constructors has thrown.
\* One that throws leaves umask 0, and the next one that succeeds stores and
\* restores that.
UmaskRestored ==
  \A s \in Server \ failed :
    pc[s] \notin {"truncate", "memset", "mutex"} => mask[s] = "own"
=============================================================================
