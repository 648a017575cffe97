------------------------- MODULE PersistenceProofs --------------------------
(***************************************************************************)
(* Proofs about persistence, for every set of concurrent requests and      *)
(* every number of writes and crashes: the snapshot is always whole, an    *)
(* acknowledged write survives, and the locks, files and crashes implement *)
(* the durable store.  The argument is the inductive invariant IInv: the   *)
(* write lock has one owner, so nothing changes memory between marshalling *)
(* it into the temporary file and renaming that file.                      *)
(***************************************************************************)
EXTENDS Persistence, TLAPS

-----------------------------------------------------------------------------
\* The three kinds of file are files.
LEMMA FileType ==
  /\ Absent \in File /\ Torn \in File
  /\ \A s \in SUBSET Writes : Whole(s) \in File
  BY DEF File, Absent, Torn, Whole

LEMMA InvInit == Init => IInv
<1> SUFFICES ASSUME Init PROVE IInv
  OBVIOUS
<1>1. TypeOK
  BY FileType, BoundsAssumption DEF Init, TypeOK, Steps
<1>2. LockInv
  BY DEF Init, LockInv, WriteSteps
<1>3. SaveInv
  BY DEF Init, SaveInv, WriteSteps
<1>4. DownInv /\ SnapshotWhole /\ AckedSurvives
  BY DEF Init, DownInv, SnapshotWhole, AckedSurvives, Absent
<1> QED
  BY <1>1, <1>2, <1>3, <1>4 DEF IInv

-----------------------------------------------------------------------------
\* Type correctness, one action at a time.
LEMMA TypeStep == TypeOK /\ SaveInv /\ [Next]_vars => TypeOK'
<1> SUFFICES ASSUME TypeOK, SaveInv, [Next]_vars PROVE TypeOK'
  OBVIOUS
<1> USE DEF TypeOK
<1>1. ASSUME NEW c \in Clients, ArriveWrite(c) PROVE TypeOK'
  BY <1>1, BoundsAssumption DEF ArriveWrite, Steps
<1>2. ASSUME NEW c \in Clients, ArriveRead(c) PROVE TypeOK'
  BY <1>2 DEF ArriveRead, Steps
<1>3. ASSUME NEW c \in Clients, Announce(c) PROVE TypeOK'
  BY <1>3 DEF Announce, Steps, WriteSteps
<1>4. ASSUME NEW c \in Clients, Enter(c) PROVE TypeOK'
  BY <1>4 DEF Enter, Steps, WriteSteps
<1>5. ASSUME NEW c \in Clients, RLock(c) PROVE TypeOK'
  BY <1>5 DEF RLock, Steps
<1>6. ASSUME NEW c \in Clients, Reject(c) PROVE TypeOK'
  BY <1>6 DEF Reject, Steps, WriteSteps
<1>7. ASSUME NEW c \in Clients, Mutate(c) PROVE TypeOK'
  <2>1. req[c] \in Writes
    BY <1>7 DEF Mutate, SaveInv, WriteSteps
  <2> QED
    BY <1>7, <2>1 DEF Mutate, Steps, WriteSteps
<1>8. ASSUME NEW c \in Clients, Create(c) PROVE TypeOK'
  BY <1>8, FileType DEF Create, Steps, WriteSteps
<1>9. ASSUME NEW c \in Clients, Write(c) PROVE TypeOK'
  BY <1>9, FileType DEF Write, Steps, WriteSteps
<1>10. ASSUME NEW c \in Clients, Rename(c) PROVE TypeOK'
  BY <1>10, FileType DEF Rename, Steps, WriteSteps
<1>11. ASSUME NEW c \in Clients, SaveFails(c) PROVE TypeOK'
  BY <1>11, FileType DEF SaveFails, Steps, WriteSteps
<1>12. ASSUME NEW c \in Clients, ReplyWrite(c) PROVE TypeOK'
  <2>1. req[c] \in Writes
    BY <1>12 DEF ReplyWrite, SaveInv, WriteSteps
  <2>2. pc' \in [Clients -> Steps]
    BY <1>12 DEF ReplyWrite, Steps
  <2> QED
    BY <1>12, <2>1, <2>2, BoundsAssumption DEF ReplyWrite, Queued
<1>13. ASSUME NEW c \in Clients, ReplyRead(c) PROVE TypeOK'
  BY <1>13 DEF ReplyRead, Steps
<1>14. CASE Crash
  <2>1. crashes' \in 0 .. MaxCrashes
    BY <1>14, BoundsAssumption DEF Crash
  <2>2. req' \in [Clients -> 0 .. MaxWrites] /\ pc' \in [Clients -> Steps]
    BY <1>14, BoundsAssumption DEF Crash, Steps
  <2> QED
    BY <1>14, <2>1, <2>2 DEF Crash
<1>15. CASE Start
  BY <1>15 DEF Start, Loaded, File
<1>16. CASE UNCHANGED vars
  BY <1>16 DEF vars
<1> QED
  BY <1>1, <1>2, <1>3, <1>4, <1>5, <1>6, <1>7, <1>8, <1>9, <1>10, <1>11,
     <1>12, <1>13, <1>14, <1>15, <1>16 DEF Next, Handle

-----------------------------------------------------------------------------
\* The write lock has one owner, the request inside a mutating handler.
LEMMA LockStep == TypeOK /\ LockInv /\ [Next]_vars => LockInv'
<1> SUFFICES ASSUME TypeOK, LockInv, [Next]_vars PROVE LockInv'
  OBVIOUS
<1> USE DEF TypeOK, LockInv, WriteSteps
<1>1. ASSUME NEW c \in Clients, ArriveWrite(c) PROVE LockInv'
  BY <1>1 DEF ArriveWrite
<1>2. ASSUME NEW c \in Clients, ArriveRead(c) PROVE LockInv'
  BY <1>2 DEF ArriveRead
<1>3. ASSUME NEW c \in Clients, Announce(c) PROVE LockInv'
  BY <1>3 DEF Announce
<1>4. ASSUME NEW c \in Clients, Enter(c) PROVE LockInv'
  BY <1>4 DEF Enter
<1>5. ASSUME NEW c \in Clients, RLock(c) PROVE LockInv'
  BY <1>5 DEF RLock
<1>6. ASSUME NEW c \in Clients, Reject(c) \/ Mutate(c) PROVE LockInv'
  BY <1>6 DEF Reject, Mutate
<1>7. ASSUME NEW c \in Clients, Create(c) \/ Write(c) PROVE LockInv'
  BY <1>7 DEF Create, Write
<1>8. ASSUME NEW c \in Clients, Rename(c) PROVE LockInv'
  BY <1>8 DEF Rename
<1>9. ASSUME NEW c \in Clients, SaveFails(c) PROVE LockInv'
  BY <1>9 DEF SaveFails
<1>10. ASSUME NEW c \in Clients, ReplyWrite(c) PROVE LockInv'
  <2>1. writer = {c}
    BY <1>10 DEF ReplyWrite
  <2>2. \A d \in Clients : pc'[d] \notin WriteSteps
    BY <1>10, <2>1 DEF ReplyWrite
  <2> QED
    BY <1>10, <2>2 DEF ReplyWrite
<1>11. ASSUME NEW c \in Clients, ReplyRead(c) PROVE LockInv'
  BY <1>11 DEF ReplyRead
<1>12. CASE Crash
  BY <1>12 DEF Crash
<1>13. CASE Start \/ UNCHANGED vars
  BY <1>13 DEF Start, vars
<1> QED
  BY <1>1, <1>2, <1>3, <1>4, <1>5, <1>6, <1>7, <1>8, <1>9, <1>10, <1>11,
     <1>12, <1>13 DEF Next, Handle

\* The owner of the lock is alone among the mutating steps.
LEMMA OneWriter ==
  ASSUME LockInv, NEW c \in Clients, pc[c] \in WriteSteps,
         NEW d \in Clients, d # c
  PROVE  pc[d] \notin WriteSteps
  BY DEF LockInv

-----------------------------------------------------------------------------
\* What each mutating step knows about its write, the memory and the files.
LEMMA SaveStep ==
  TypeOK /\ LockInv /\ SaveInv /\ DownInv /\ [Next]_vars => SaveInv'
<1> SUFFICES ASSUME TypeOK, LockInv, SaveInv, DownInv, [Next]_vars PROVE SaveInv'
  OBVIOUS
<1> USE DEF TypeOK, SaveInv, WriteSteps
<1>1. ASSUME NEW c \in Clients, ArriveWrite(c) PROVE SaveInv'
  <2>1. issued + 1 \in Writes
    BY <1>1, BoundsAssumption DEF ArriveWrite, Writes
  <2> QED
    BY <1>1, <2>1 DEF ArriveWrite
<1>2. ASSUME NEW c \in Clients, ArriveRead(c) PROVE SaveInv'
  BY <1>2 DEF ArriveRead
<1>3. ASSUME NEW c \in Clients, Announce(c) \/ Enter(c) PROVE SaveInv'
  BY <1>3 DEF Announce, Enter
<1>4. ASSUME NEW c \in Clients, RLock(c) PROVE SaveInv'
  BY <1>4 DEF RLock
<1>5. ASSUME NEW c \in Clients, Reject(c) PROVE SaveInv'
  BY <1>5 DEF Reject
<1>6. ASSUME NEW c \in Clients, Mutate(c) PROVE SaveInv'
  <2>1. \A d \in Clients \ {c} : pc[d] \notin WriteSteps
    BY <1>6, OneWriter DEF Mutate
  <2> QED
    BY <1>6, <2>1 DEF Mutate
<1>7. ASSUME NEW c \in Clients, Create(c) PROVE SaveInv'
  <2>1. \A d \in Clients \ {c} : pc[d] \notin WriteSteps
    BY <1>7, OneWriter DEF Create
  <2> QED
    BY <1>7, <2>1 DEF Create
<1>8. ASSUME NEW c \in Clients, Write(c) PROVE SaveInv'
  <2>1. \A d \in Clients \ {c} : pc[d] \notin WriteSteps
    BY <1>8, OneWriter DEF Write
  <2> QED
    BY <1>8, <2>1 DEF Write
<1>9. ASSUME NEW c \in Clients, Rename(c) PROVE SaveInv'
  <2>1. \A d \in Clients \ {c} : pc[d] \notin WriteSteps
    BY <1>9, OneWriter DEF Rename
  <2>2. req[c] \in tmp.state
    BY <1>9 DEF Rename, Whole
  <2> QED
    BY <1>9, <2>1, <2>2 DEF Rename
<1>10. ASSUME NEW c \in Clients, SaveFails(c) PROVE SaveInv'
  <2>1. \A d \in Clients \ {c} : pc[d] \notin WriteSteps
    BY <1>10, OneWriter DEF SaveFails
  <2> QED
    BY <1>10, <2>1 DEF SaveFails
<1>11. ASSUME NEW c \in Clients, ReplyWrite(c) PROVE SaveInv'
  <2>1. \A d \in Clients \ {c} : pc[d] \notin WriteSteps
    BY <1>11, OneWriter DEF ReplyWrite
  <2>2. ASSUME NEW d \in Clients
        PROVE  /\ pc'[d] \notin WriteSteps
               /\ pc'[d] = "lock" => pc[d] = "lock" /\ req'[d] = req[d]
    <3>1. CASE d = c
      BY <1>11, <3>1 DEF ReplyWrite
    <3>2. CASE d # c /\ d \in Queued
      BY <1>11, <3>2 DEF ReplyWrite
    <3>3. CASE d # c /\ d \notin Queued
      BY <1>11, <2>1, <3>3 DEF ReplyWrite
    <3> QED
      BY <3>1, <3>2, <3>3
  <2> QED
    BY <2>2
<1>12. ASSUME NEW c \in Clients, ReplyRead(c) PROVE SaveInv'
  BY <1>12 DEF ReplyRead
<1>13. CASE Crash
  BY <1>13 DEF Crash
<1>14. CASE UNCHANGED vars
  BY <1>14 DEF vars
<1>15. CASE Start
  BY <1>15 DEF Start, DownInv
<1> QED
  BY <1>1, <1>2, <1>3, <1>4, <1>5, <1>6, <1>7, <1>8, <1>9, <1>10, <1>11,
     <1>12, <1>13, <1>14, <1>15 DEF Next, Handle

-----------------------------------------------------------------------------
\* A server that is down has no request in flight.
LEMMA DownStep == TypeOK /\ DownInv /\ [Next]_vars => DownInv'
<1> SUFFICES ASSUME TypeOK, DownInv, [Next]_vars PROVE DownInv'
  OBVIOUS
<1> USE DEF TypeOK, DownInv
<1>1. ASSUME NEW c \in Clients, ArriveWrite(c) \/ ArriveRead(c) PROVE DownInv'
  BY <1>1 DEF ArriveWrite, ArriveRead
<1>2. ASSUME NEW c \in Clients, Handle(c) PROVE DownInv'
  <2>1. pc[c] # "idle" /\ up' = up
    BY <1>2 DEF Handle, Announce, Enter, RLock, Reject, Mutate, Create, Write,
                Rename, SaveFails, ReplyWrite, ReplyRead
  <2> QED
    BY <2>1
<1>3. CASE Crash
  BY <1>3 DEF Crash
<1>4. CASE Start
  BY <1>4 DEF Start
<1>5. CASE UNCHANGED vars
  BY <1>5 DEF vars
<1> QED
  BY <1>1, <1>2, <1>3, <1>4, <1>5 DEF Next

-----------------------------------------------------------------------------
\* The snapshot file changes only in Rename, to the present memory.
LEMMA DiskStep ==
  ASSUME TypeOK, SaveInv, DownInv, [Next]_vars
  PROVE  \/ disk' = disk
         \/ disk' = Whole(mem) /\ up /\ up' = up /\ mem' = mem /\ acked' = acked
<1>1. ASSUME NEW c \in Clients, Rename(c)
      PROVE  disk' = Whole(mem) /\ up /\ up' = up /\ mem' = mem /\ acked' = acked
  BY <1>1 DEF Rename, SaveInv, DownInv, TypeOK
<1>2. ASSUME NEW c \in Clients, ~Rename(c), Handle(c) PROVE disk' = disk
  BY <1>2 DEF Handle, Announce, Enter, RLock, Reject, Mutate, Create, Write,
              SaveFails, ReplyWrite, ReplyRead
<1>3. ASSUME NEW c \in Clients, ArriveWrite(c) \/ ArriveRead(c) PROVE disk' = disk
  BY <1>3 DEF ArriveWrite, ArriveRead
<1>4. CASE Crash \/ Start \/ UNCHANGED vars
  BY <1>4 DEF Crash, Start, vars
<1> QED
  BY <1>1, <1>2, <1>3, <1>4 DEF Next

\* Memory never loses a write while the server runs, and a start reads the
\* snapshot.
LEMMA MemStep ==
  ASSUME TypeOK, SaveInv, DownInv, [Next]_vars, up'
  PROVE  \/ up /\ mem \subseteq mem'
         \/ ~up /\ mem' = disk.state /\ disk' = disk
<1>1. ASSUME NEW c \in Clients, Handle(c) PROVE up /\ mem \subseteq mem'
  BY <1>1 DEF Handle, Announce, Enter, RLock, Reject, Mutate, Create, Write,
              Rename, SaveFails, ReplyWrite, ReplyRead
<1>2. ASSUME NEW c \in Clients, ArriveWrite(c) \/ ArriveRead(c)
      PROVE  up /\ mem \subseteq mem'
  BY <1>2 DEF ArriveWrite, ArriveRead
<1>3. CASE Crash
  BY <1>3 DEF Crash
<1>4. CASE Start
  BY <1>4 DEF Start, Loaded
<1>5. CASE UNCHANGED vars
  <2>1. up => mem \subseteq mem'
    BY <1>5 DEF vars
  <2> QED
    BY <1>5, <2>1 DEF vars
<1> QED
  BY <1>1, <1>2, <1>3, <1>4, <1>5 DEF Next

\* Only ReplyWrite acknowledges, and only a write that is in the snapshot.
LEMMA AckStep ==
  ASSUME TypeOK, SaveInv, [Next]_vars
  PROVE  \/ acked' = acked
         \/ \E w \in disk.state : acked' = acked \cup {w}
<1>1. ASSUME NEW c \in Clients, ReplyWrite(c)
      PROVE  acked' = acked \/ \E w \in disk.state : acked' = acked \cup {w}
  <2>1. CASE pc[c] = "ok"
    <3>1. req[c] \in disk.state /\ acked' = acked \cup {req[c]}
      BY <1>1, <2>1 DEF ReplyWrite, SaveInv
    <3> QED
      BY <3>1
  <2>2. CASE pc[c] # "ok"
    BY <1>1, <2>2 DEF ReplyWrite
  <2> QED
    BY <2>1, <2>2
<1>2. ASSUME NEW c \in Clients, ~ReplyWrite(c), Handle(c) PROVE acked' = acked
  BY <1>2 DEF Handle, Announce, Enter, RLock, Reject, Mutate, Create, Write,
              Rename, SaveFails, ReplyRead
<1>3. ASSUME NEW c \in Clients, ArriveWrite(c) \/ ArriveRead(c) PROVE acked' = acked
  BY <1>3 DEF ArriveWrite, ArriveRead
<1>4. CASE Crash \/ Start \/ UNCHANGED vars
  BY <1>4 DEF Crash, Start, vars
<1> QED
  BY <1>1, <1>2, <1>3, <1>4 DEF Next

-----------------------------------------------------------------------------
\* The whole inductive invariant is preserved.
LEMMA InvStep == IInv /\ [Next]_vars => IInv'
<1> SUFFICES ASSUME IInv, [Next]_vars PROVE IInv'
  OBVIOUS
<1>0. TypeOK /\ LockInv /\ SaveInv /\ DownInv /\ SnapshotWhole /\ AckedSurvives
  BY DEF IInv
<1>1. TypeOK' /\ LockInv' /\ SaveInv' /\ DownInv'
  BY <1>0, TypeStep, LockStep, SaveStep, DownStep
<1>2. SnapshotWhole'
  BY <1>0, DiskStep DEF SnapshotWhole, Whole
<1>3. disk.state \subseteq disk'.state
  BY <1>0, DiskStep DEF AckedSurvives, Whole
<1>4. acked' \subseteq disk'.state
  <2>1. acked \subseteq disk.state
    BY <1>0 DEF AckedSurvives
  <2> QED
    BY <1>0, <1>3, <2>1, AckStep
<1>5. up' => disk'.state \subseteq mem'
  <2> SUFFICES ASSUME up' PROVE disk'.state \subseteq mem'
    OBVIOUS
  <2>1. CASE disk' = Whole(mem) /\ mem' = mem
    BY <2>1 DEF Whole
  <2>2. CASE disk' = disk
    BY <1>0, <2>2, MemStep DEF AckedSurvives
  <2> QED
    BY <1>0, <2>1, <2>2, DiskStep
<1> QED
  BY <1>1, <1>2, <1>4, <1>5 DEF IInv, AckedSurvives

LEMMA Invariance == Spec => []IInv
  BY InvInit, InvStep, PTL DEF Spec

\* The state of the server, its files and its requests is always well-formed.
THEOREM TypeCorrect == Spec => []TypeOK
<1>1. IInv => TypeOK
  BY DEF IInv
<1> QED
  BY <1>1, Invariance, PTL

\* Whenever the process dies it leaves a whole snapshot, or none, behind.
THEOREM SnapshotAlwaysWhole == Spec => []SnapshotWhole
<1>1. IInv => SnapshotWhole
  BY DEF IInv
<1> QED
  BY <1>1, Invariance, PTL

\* A write answered with 200 is in the snapshot and in every state the server
\* answers from, whatever saves failed and however often it crashed.
THEOREM AcknowledgedWritesSurvive == Spec => []AckedSurvives
<1>1. IInv => AckedSurvives
  BY DEF IInv
<1> QED
  BY <1>1, Invariance, PTL

-----------------------------------------------------------------------------
\* A step of the server on memory, snapshot and acknowledgements is a step of
\* the durable store, or leaves it alone.
LEMMA StoreStep == IInv /\ [Next]_vars => [Store!Next]_(Store!vars)
<1> SUFFICES ASSUME IInv, [Next]_vars PROVE [Store!Next]_(Store!vars)
  OBVIOUS
<1> USE DEF Store!Next, Store!vars
<1>0. TypeOK /\ SaveInv /\ DownInv /\ AckedSurvives
  BY DEF IInv
<1>1. ASSUME NEW c \in Clients, Mutate(c) PROVE [Store!Next]_(Store!vars)
  <2>1. /\ up /\ up' = up /\ mem' = mem \cup {req[c]} /\ req[c] \in Writes
        /\ disk' = disk /\ acked' = acked
    BY <1>0, <1>1 DEF Mutate, DownInv, SaveInv, WriteSteps
  <2>2. CASE req[c] \in mem
    BY <2>1, <2>2
  <2>3. CASE req[c] \notin mem
    BY <2>1, <2>3 DEF Store!Mutate
  <2> QED
    BY <2>2, <2>3
<1>2. ASSUME NEW c \in Clients, Rename(c) PROVE [Store!Next]_(Store!vars)
  <2>1. /\ up /\ up' = up /\ mem' = mem /\ disk' = Whole(mem) /\ acked' = acked
    BY <1>0, <1>2 DEF Rename, DownInv, SaveInv
  <2> QED
    BY <2>1 DEF Whole, Store!Sync
<1>3. ASSUME NEW c \in Clients, ReplyWrite(c) PROVE [Store!Next]_(Store!vars)
  <2>1. /\ up' = up /\ mem' = mem /\ disk' = disk
        /\ acked' = acked \/ \E w \in disk.state : acked' = acked \cup {w}
    BY <1>0, <1>3, AckStep DEF ReplyWrite
  <2> QED
    BY <2>1 DEF Store!Ack
<1>4. ASSUME NEW c \in Clients, Handle(c), ~Mutate(c), ~Rename(c), ~ReplyWrite(c)
      PROVE  [Store!Next]_(Store!vars)
  <2>1. UNCHANGED <<up, mem, disk, acked>>
    BY <1>4 DEF Handle, Announce, Enter, RLock, Reject, Create, Write,
                SaveFails, ReplyRead
  <2> QED
    BY <2>1
<1>5. ASSUME NEW c \in Clients, ArriveWrite(c) \/ ArriveRead(c)
      PROVE  [Store!Next]_(Store!vars)
  <2>1. UNCHANGED <<up, mem, disk, acked>>
    BY <1>5 DEF ArriveWrite, ArriveRead
  <2> QED
    BY <2>1
<1>6. CASE Crash
  <2>1. up /\ ~up' /\ disk' = disk /\ acked' = acked
    BY <1>6 DEF Crash
  <2> QED
    BY <2>1 DEF Store!Restart
<1>7. CASE Start
  <2>1. ~up /\ up' /\ mem' = disk.state /\ disk' = disk /\ acked' = acked
    BY <1>7 DEF Start, Loaded
  <2> QED
    BY <2>1
<1>8. CASE UNCHANGED vars
  BY <1>8 DEF vars
<1> QED
  BY <1>1, <1>2, <1>3, <1>4, <1>5, <1>6, <1>7, <1>8 DEF Next

\* Locks, temporary file, failing saves and crashes implement the durable
\* store: nothing is acknowledged before it is durable, and a restart falls
\* back to exactly the durable state.
THEOREM PersistenceIsDurable == Spec => ImplementsDurableStore
<1>1. Init => Store!Init
  BY DEF Init, Store!Init, Absent
<1>2. IInv /\ [Next]_vars => [Store!Next]_(Store!vars)
  BY StoreStep
<1> QED
  BY <1>1, <1>2, Invariance, PTL DEF Spec, ImplementsDurableStore, Store!Spec
=============================================================================
