---------------------------- MODULE Persistence -----------------------------
(***************************************************************************)
(* How every API request of internal/server reaches memory and disk: one   *)
(* readers-writer lock around the application state, a mutating handler    *)
(* that changes the state, saves the whole snapshot (internal/store: write *)
(* <path>.tmp, rename it over <path>) and only then answers, a process     *)
(* that can die between any two of these steps, and Load at the start.     *)
(*                                                                         *)
(* Only what a request does to the state as a whole matters here, so the   *)
(* state is the set of writes it reflects and a request is one write or    *)
(* one read.  A crash is the death of the process (or the end of the five  *)
(* second shutdown grace in cmd/onetrickle); what the file system does to  *)
(* un-synced data in a power failure is not modelled.                      *)
(***************************************************************************)
EXTENDS Naturals, FiniteSets

CONSTANTS Clients,      \* HTTP requests that can be in flight at a time
          MaxWrites,    \* bound: mutating requests over the whole behaviour
          MaxCrashes    \* bound: crashes over the whole behaviour

ASSUME BoundsAssumption == MaxWrites \in Nat /\ MaxCrashes \in Nat

VARIABLES
  up,        \* the server process runs and has loaded its state
  mem,       \* Server.state: the writes it reflects
  disk,      \* the file <path>
  tmp,       \* the file <path>.tmp
  writer,    \* Server.mu: who holds the write lock ({} or one client)
  readers,   \* Server.mu: who holds a read lock
  pc,        \* where each request is
  req,       \* the write a mutating request carries out (0: none)
  issued,    \* how many mutating requests have started
  acked,     \* writes answered with 200
  crashes    \* how many crashes have happened

vars == <<up, mem, disk, tmp, writer, readers, pc, req, issued, acked, crashes>>

Writes == 1 .. MaxWrites

(* A file is missing, incomplete, or a whole snapshot of some state.       *)
File  == [kind : {"missing", "torn", "whole"}, state : SUBSET Writes]
Absent   == [kind |-> "missing", state |-> {}]
Torn     == [kind |-> "torn", state |-> {}]
Whole(s) == [kind |-> "whole", state |-> s]

\* Load: no file is a fresh empty state; a torn one is an error and the server
\* does not start (see Start).
LoadedMadeUp(f) == IF f.kind = "missing" THEN {0} ELSE f.state

Loaded(f) == f.state

WriteSteps == {"drain", "mutate", "create", "write", "rename", "ok", "failed", "rejected"}
Steps == {"idle", "lock", "rlock", "queued", "read"} \cup WriteSteps

Init == /\ up = TRUE /\ mem = {} /\ disk = Absent /\ tmp = Absent
        /\ writer = {} /\ readers = {}
        /\ pc = [c \in Clients |-> "idle"] /\ req = [c \in Clients |-> 0]
        /\ issued = 0 /\ acked = {} /\ crashes = 0

-----------------------------------------------------------------------------
(* A request arrives; its body is decoded before the lock is asked for.    *)
ArriveWrite(c) ==
  /\ up /\ pc[c] = "idle" /\ issued < MaxWrites
  /\ issued' = issued + 1
  /\ req' = [req EXCEPT ![c] = issued + 1]
  /\ pc' = [pc EXCEPT ![c] = "lock"]
  /\ UNCHANGED <<up, mem, disk, tmp, writer, readers, acked, crashes>>

ArriveRead(c) ==
  /\ up /\ pc[c] = "idle"
  /\ pc' = [pc EXCEPT ![c] = "rlock"]
  /\ UNCHANGED <<up, mem, disk, tmp, writer, readers, req, issued, acked, crashes>>

(* mu is a sync.RWMutex.  Lock first keeps new readers out, then waits for *)
(* the present ones; RLock either enters or queues behind the writer, whose *)
(* Unlock lets every queued reader in at once.                             *)
Announce(c) ==
  /\ pc[c] = "lock" /\ writer = {}
  /\ writer' = {c}
  /\ pc' = [pc EXCEPT ![c] = "drain"]
  /\ UNCHANGED <<up, mem, disk, tmp, readers, req, issued, acked, crashes>>

Enter(c) ==
  /\ pc[c] = "drain" /\ readers = {}
  /\ pc' = [pc EXCEPT ![c] = "mutate"]
  /\ UNCHANGED <<up, mem, disk, tmp, writer, readers, req, issued, acked, crashes>>

RLock(c) ==
  /\ pc[c] = "rlock"
  /\ IF writer = {}
       THEN readers' = readers \cup {c} /\ pc' = [pc EXCEPT ![c] = "read"]
       ELSE UNCHANGED readers /\ pc' = [pc EXCEPT ![c] = "queued"]
  /\ UNCHANGED <<up, mem, disk, tmp, writer, req, issued, acked, crashes>>

Queued == {c \in Clients : pc[c] = "queued"}

-----------------------------------------------------------------------------
(* The body of a mutating handler, under the write lock.                   *)

\* Validation fails: a 4xx reply, nothing changes, nothing is saved.
Reject(c) ==
  /\ pc[c] = "mutate"
  /\ pc' = [pc EXCEPT ![c] = "rejected"]
  /\ UNCHANGED <<up, mem, disk, tmp, writer, readers, req, issued, acked, crashes>>

\* Validation passes and the state changes in place.
Mutate(c) ==
  /\ pc[c] = "mutate"
  /\ mem' = mem \cup {req[c]}
  /\ pc' = [pc EXCEPT ![c] = "create"]
  /\ UNCHANGED <<up, disk, tmp, writer, readers, req, issued, acked, crashes>>

\* Save, os.WriteFile opens <path>.tmp and truncates it.
CreateInPlace(c) ==
  /\ pc[c] = "create"
  /\ disk' = Torn
  /\ pc' = [pc EXCEPT ![c] = "write"]
  /\ UNCHANGED <<up, mem, tmp, writer, readers, req, issued, acked, crashes>>

Create(c) ==
  /\ pc[c] = "create"
  /\ tmp' = Torn
  /\ pc' = [pc EXCEPT ![c] = "write"]
  /\ UNCHANGED <<up, mem, disk, writer, readers, req, issued, acked, crashes>>

\* Save, os.WriteFile has written the whole marshalled state.
Write(c) ==
  /\ pc[c] = "write"
  /\ tmp' = Whole(mem)
  /\ pc' = [pc EXCEPT ![c] = "rename"]
  /\ UNCHANGED <<up, mem, disk, writer, readers, req, issued, acked, crashes>>

\* Save, os.Rename puts the temporary file in place of the snapshot.
RenameLast(c) ==
  /\ pc[c] = "rename"
  /\ disk' = Whole({req[c]}) /\ tmp' = Absent
  /\ pc' = [pc EXCEPT ![c] = "ok"]
  /\ UNCHANGED <<up, mem, writer, readers, req, issued, acked, crashes>>

Rename(c) ==
  /\ pc[c] = "rename"
  /\ disk' = tmp /\ tmp' = Absent
  /\ pc' = [pc EXCEPT ![c] = "ok"]
  /\ UNCHANGED <<up, mem, writer, readers, req, issued, acked, crashes>>

\* Save fails.  Creating the directory or the file may fail at once, the write
\* may stop half-way and leave its torn file behind, and the rename may fail,
\* after which removing the temporary file is best effort.  The mutation stays.
SaveFailsAsOk(c) ==
  /\ pc[c] \in {"create", "write", "rename"}
  /\ \/ UNCHANGED tmp
     \/ pc[c] = "rename" /\ tmp' = Absent
  /\ pc' = [pc EXCEPT ![c] = "ok"]
  /\ UNCHANGED <<up, mem, disk, writer, readers, req, issued, acked, crashes>>

SaveFails(c) ==
  /\ pc[c] \in {"create", "write", "rename"}
  /\ \/ UNCHANGED tmp
     \/ pc[c] = "rename" /\ tmp' = Absent
  /\ pc' = [pc EXCEPT ![c] = "failed"]
  /\ UNCHANGED <<up, mem, disk, writer, readers, req, issued, acked, crashes>>

(* The reply is written before the deferred Unlock runs.                   *)
ReplyWriteForgetsQueue(c) ==
  /\ pc[c] \in {"ok", "failed", "rejected"}
  /\ acked' = IF pc[c] = "ok" THEN acked \cup {req[c]} ELSE acked
  /\ writer' = {}
  /\ pc' = [pc EXCEPT ![c] = "idle"]
  /\ req' = [req EXCEPT ![c] = 0]
  /\ UNCHANGED <<up, mem, disk, tmp, readers, issued, crashes>>

ReplyWrite(c) ==
  /\ pc[c] \in {"ok", "failed", "rejected"}
  /\ acked' = IF pc[c] = "ok" THEN acked \cup {req[c]} ELSE acked
  /\ writer' = {}
  /\ readers' = readers \cup Queued
  /\ pc' = [d \in Clients |-> CASE d = c -> "idle"
                                [] d \in Queued -> "read"
                                [] OTHER -> pc[d]]
  /\ req' = [req EXCEPT ![c] = 0]
  /\ UNCHANGED <<up, mem, disk, tmp, issued, crashes>>

ReplyRead(c) ==
  /\ pc[c] = "read"
  /\ readers' = readers \ {c}
  /\ pc' = [pc EXCEPT ![c] = "idle"]
  /\ UNCHANGED <<up, mem, disk, tmp, writer, req, issued, acked, crashes>>

-----------------------------------------------------------------------------
(* The process dies: every request loses its connection, the locks and the *)
(* state in memory are gone, the files stay as they are.                   *)
Crash ==
  /\ up /\ crashes < MaxCrashes
  /\ up' = FALSE /\ mem' = {} /\ crashes' = crashes + 1
  /\ writer' = {} /\ readers' = {}
  /\ pc' = [c \in Clients |-> "idle"] /\ req' = [c \in Clients |-> 0]
  /\ UNCHANGED <<disk, tmp, issued, acked>>

\* runServe: Load the snapshot; the temporary file is never looked at.
Start ==
  /\ ~up /\ disk.kind # "torn"
  /\ up' = TRUE /\ mem' = Loaded(disk)
  /\ UNCHANGED <<disk, tmp, writer, readers, pc, req, issued, acked, crashes>>

Handle(c) ==
  \/ Announce(c) \/ Enter(c) \/ RLock(c) \/ Reject(c) \/ Mutate(c) \/ Create(c) \/ Write(c)
  \/ Rename(c) \/ SaveFails(c) \/ ReplyWrite(c) \/ ReplyRead(c)

Next == \/ \E c \in Clients : ArriveWrite(c) \/ ArriveRead(c) \/ Handle(c)
        \/ Crash \/ Start

Spec == Init /\ [][Next]_vars

(* The scheduler runs a goroutine that is not blocked; sync.Mutex, which   *)
(* orders the writers inside the RWMutex, hands itself over in FIFO order  *)
(* when a waiter starves; and clients read their replies, which nothing in *)
(* the code enforces, as the server sets no write timeout.  A crashed      *)
(* server is restarted.                                                    *)
Fairness == /\ \A c \in Clients : SF_vars(Announce(c)) /\ WF_vars(Handle(c))
            /\ WF_vars(Start)

FairSpec == Spec /\ Fairness

-----------------------------------------------------------------------------
TypeOK ==
  /\ up \in BOOLEAN /\ mem \subseteq Writes /\ acked \subseteq Writes
  /\ disk \in File /\ tmp \in File
  /\ writer \subseteq Clients /\ readers \subseteq Clients
  /\ pc \in [Clients -> Steps]
  /\ req \in [Clients -> 0 .. MaxWrites]
  /\ issued \in 0 .. MaxWrites /\ crashes \in 0 .. MaxCrashes

(* Save: whenever the process dies, the snapshot it leaves is whole, so    *)
(* Load can always start the server again.                                 *)
SnapshotWhole == disk.kind \in {"missing", "whole"}

(* Save before reply: a write a client got a 200 for is in the snapshot,   *)
(* whatever failed or crashed since, and memory never lags behind the      *)
(* snapshot, so every later read sees that write, across restarts too.     *)
AckedSurvives == /\ acked \subseteq disk.state
                 /\ up => disk.state \subseteq mem

(* The strengthening the proofs use: the write lock belongs to the one     *)
(* request inside a mutating handler; while it saves, its write is in      *)
(* memory, and a finished temporary file is the present memory.            *)
LockInv == /\ writer = {c \in Clients : pc[c] \in WriteSteps}
           /\ \A c, d \in writer : c = d

SaveInv ==
  \A c \in Clients :
    /\ pc[c] \in {"lock"} \cup WriteSteps => req[c] \in Writes
    /\ pc[c] \in {"create", "write", "rename"} => req[c] \in mem
    /\ pc[c] = "rename" => tmp = Whole(mem)
    /\ pc[c] = "ok" => req[c] \in disk.state

DownInv == ~up => \A c \in Clients : pc[c] = "idle"

IInv == TypeOK /\ LockInv /\ SaveInv /\ DownInv /\ SnapshotWhole /\ AckedSurvives

(* The lock, the files and the crashes implement the durable store.        *)
Store == INSTANCE DurableStore
           WITH memory  <- IF up THEN mem ELSE disk.state,
                durable <- disk.state
ImplementsDurableStore == Store!Spec

(* Every request is answered, or dies with the process.                    *)
EveryRequestEnds == \A c \in Clients : pc[c] # "idle" ~> pc[c] = "idle"
=============================================================================
