--------------------------- MODULE XsmpServerProofs ---------------------------
(* About XsmpServer, for any managers, network ids and connections: one writer *)
(* of the authority file at a time, because who reads or writes it holds a     *)
(* lock that only gets old when he has died; and one watch for a connection.   *)
(* That clients find their cookies rests on both: between what a manager has   *)
(* read and what it writes nobody else writes, what it writes is as long as    *)
(* what it overwrites, and names no id twice.  A connection is decided because *)
(* its watch and its timer come and go together.                               *)
EXTENDS XsmpServer, FiniteSetTheorems, TLAPS

Stages == {"unborn", "locking", "reading", "writing", "listening", "gone"}
Progress(S) == [stage : Stages, id : Ids, entries : S, stopping : BOOLEAN]
ConnStates == [state : {"none", "pending", "client", "closed"}, server : Managers \cup {None},
               known : BOOLEAN, watch : BOOLEAN, timer : BOOLEAN]

\* Managers have their fields, whatever they have to write.
ManagersOK == \E S : manager \in [Managers -> Progress(S)]

\* Who reads or writes the file holds a lock that nobody breaks.
WriterHasLock ==
  \A m \in Managers : manager[m].stage \in {"reading", "writing"} =>
    lock.holder = m /\ lock.old = FALSE

LocksOK == lock \in [holder : Managers \cup {None}, old : BOOLEAN]

FileInv == ManagersOK /\ LocksOK /\ WriterHasLock /\ torn \in BOOLEAN
ConnInv == conn \in [Connections -> ConnStates] /\ WatchedOnce
IInv == FileInv /\ ConnInv

-----------------------------------------------------------------------------
(* The authority file.                                                      *)

\* A manager that goes on to another stage, with what it then has to write.
LEMMA StageChanges ==
  ASSUME ManagersOK, NEW m \in Managers, NEW stage \in Stages, NEW entries,
         manager' = [manager EXCEPT ![m].stage = stage, ![m].entries = entries]
  PROVE  /\ ManagersOK'
         /\ manager'[m].stage = stage
         /\ \A n \in Managers \ {m} : manager'[n].stage = manager[n].stage
<1>1. PICK S : manager \in [Managers -> Progress(S)]
  BY DEF ManagersOK
<1> DEFINE T == S \cup {entries}
<1>2. /\ manager' \in [Managers -> Progress(T)]
      /\ manager'[m].stage = stage
      /\ \A n \in Managers \ {m} : manager'[n].stage = manager[n].stage
  BY <1>1 DEF Progress
<1> QED
  BY <1>2 DEF ManagersOK

LEMMA StageOnly ==
  ASSUME ManagersOK, NEW m \in Managers, NEW stage \in Stages,
         manager' = [manager EXCEPT ![m].stage = stage]
  PROVE  /\ ManagersOK'
         /\ manager'[m].stage = stage
         /\ \A n \in Managers \ {m} : manager'[n].stage = manager[n].stage
<1>1. PICK S : manager \in [Managers -> Progress(S)]
  BY DEF ManagersOK
<1>2. /\ manager' \in [Managers -> Progress(S)]
      /\ manager'[m].stage = stage
      /\ \A n \in Managers \ {m} : manager'[n].stage = manager[n].stage
  BY <1>1 DEF Progress
<1> QED
  BY <1>2 DEF ManagersOK

LEMMA SetupListenerOK ==
  ASSUME FileInv, NEW m \in Managers, NEW id \in Ids, SetupListener(m, id)
  PROVE  FileInv'
<1>1. PICK S : manager \in [Managers -> Progress(S)]
  BY DEF FileInv, ManagersOK
<1>2. /\ manager' \in [Managers -> Progress(S)]
      /\ manager'[m].stage = "locking"
      /\ \A n \in Managers \ {m} : manager'[n].stage = manager[n].stage
  BY <1>1 DEF SetupListener, Progress, Stages
<1>3. ManagersOK'
  BY <1>2 DEF ManagersOK
<1>4. UNCHANGED <<lock, torn>>
  BY DEF SetupListener
<1>5. WriterHasLock'
  BY <1>2, <1>4 DEF FileInv, WriterHasLock
<1> QED
  BY <1>3, <1>4, <1>5 DEF FileInv, LocksOK

\* The lock is taken of nobody, or of somebody who has died.
LEMMA LockAuthFileOK ==
  ASSUME FileInv, NEW m \in Managers, LockAuthFile(m)
  PROVE  FileInv'
<1>1. /\ ManagersOK' /\ manager'[m].stage = "reading"
      /\ \A n \in Managers \ {m} : manager'[n].stage = manager[n].stage
  BY StageOnly DEF FileInv, LockAuthFile, Stages
<1>2. lock' = [holder |-> m, old |-> FALSE] /\ torn' = torn
  BY DEF LockAuthFile
<1>3. \A n \in Managers : manager[n].stage \notin {"reading", "writing"}
  BY NoneAssumption DEF LockAuthFile, FileInv, WriterHasLock
<1>4. WriterHasLock'
  BY <1>1, <1>2, <1>3 DEF WriterHasLock
<1> QED
  BY <1>1, <1>2, <1>4 DEF FileInv, LocksOK

LEMMA ReadEntriesOK ==
  ASSUME FileInv, NEW m \in Managers, ReadEntries(m)
  PROVE  FileInv'
<1>1. PICK entries : manager' = [manager EXCEPT ![m].stage = "writing", ![m].entries = entries]
  BY DEF ReadEntries
<1>2. /\ ManagersOK' /\ manager'[m].stage = "writing"
      /\ \A n \in Managers \ {m} : manager'[n].stage = manager[n].stage
  BY <1>1, StageChanges DEF FileInv, Stages
<1>3. UNCHANGED <<lock, torn>> /\ manager[m].stage = "reading"
  BY DEF ReadEntries
<1>4. WriterHasLock'
  BY <1>2, <1>3 DEF FileInv, WriterHasLock
<1> QED
  BY <1>2, <1>3, <1>4 DEF FileInv, LocksOK

\* A writer is done, or has died with its lock, or a reader gives up, or a manager
\* ends.
LEMMA LeavesOK ==
  ASSUME FileInv, NEW m \in Managers, NEW stage \in {"listening", "gone"},
         \/ manager' = [manager EXCEPT ![m].stage = stage]
         \/ manager' = [manager EXCEPT ![m].stage = stage, ![m].entries = <<>>],
         torn' \in BOOLEAN,
         \/ lock' = lock
         \/ /\ lock' = [holder |-> None, old |-> FALSE]
            /\ manager[m].stage \in {"reading", "writing"}
  PROVE  FileInv'
<1>1. /\ ManagersOK' /\ manager'[m].stage = stage
      /\ \A n \in Managers \ {m} : manager'[n].stage = manager[n].stage
  <2>1. stage \in Stages /\ ManagersOK
    BY DEF Stages, FileInv
  <2>2. CASE manager' = [manager EXCEPT ![m].stage = stage]
    BY <2>1, <2>2, StageOnly
  <2>3. CASE manager' = [manager EXCEPT ![m].stage = stage, ![m].entries = <<>>]
    BY <2>1, <2>3, StageChanges
  <2> QED
    BY <2>2, <2>3
<1>2. \A n \in Managers \ {m} :
         manager[m].stage \in {"reading", "writing"} =>
           manager[n].stage \notin {"reading", "writing"}
  BY DEF FileInv, WriterHasLock
<1>3. WriterHasLock'
  BY <1>1, <1>2 DEF FileInv, WriterHasLock
<1>4. LocksOK'
  <2>1. [holder |-> None, old |-> FALSE] \in [holder : Managers \cup {None}, old : BOOLEAN]
    OBVIOUS
  <2>2. lock' \in {lock, [holder |-> None, old |-> FALSE]}
    OBVIOUS
  <2> QED
    BY <2>1, <2>2 DEF FileInv, LocksOK
<1> QED
  BY <1>1, <1>3, <1>4 DEF FileInv

LEMMA WriteEntriesOK ==
  ASSUME FileInv, NEW m \in Managers, WriteEntries(m)
  PROVE  FileInv'
<1>1. \E n \in 1..Len(manager[m].entries) :
        IF n = Len(manager[m].entries)
        THEN /\ lock' = [holder |-> None, old |-> FALSE]
             /\ manager' = [manager EXCEPT ![m].stage = "listening", ![m].entries = <<>>]
             /\ UNCHANGED torn
        ELSE /\ torn' = TRUE
             /\ manager' = [manager EXCEPT ![m].stage = "gone", ![m].entries = <<>>]
             /\ UNCHANGED lock
  BY DEF WriteEntries
<1>2. manager[m].stage = "writing" /\ torn \in BOOLEAN
  BY DEF WriteEntries, FileInv
<1>3. CASE /\ lock' = [holder |-> None, old |-> FALSE]
           /\ manager' = [manager EXCEPT ![m].stage = "listening", ![m].entries = <<>>]
           /\ UNCHANGED torn
  BY <1>2, <1>3, LeavesOK
<1>4. CASE /\ torn' = TRUE
           /\ manager' = [manager EXCEPT ![m].stage = "gone", ![m].entries = <<>>]
           /\ UNCHANGED lock
  BY <1>4, LeavesOK
<1> QED
  BY <1>1, <1>3, <1>4

LEMMA StopOrStartAcceptingOK ==
  ASSUME FileInv, NEW m \in Managers, StopOrStartAccepting(m)
  PROVE  FileInv'
<1>1. PICK S : manager \in [Managers -> Progress(S)]
  BY DEF FileInv, ManagersOK
<1>2. /\ manager' \in [Managers -> Progress(S)]
      /\ \A n \in Managers : manager'[n].stage = manager[n].stage
  BY <1>1 DEF StopOrStartAccepting, Progress
<1>3. UNCHANGED <<lock, torn>>
  BY DEF StopOrStartAccepting
<1> QED
  BY <1>2, <1>3 DEF FileInv, ManagersOK, LocksOK, WriterHasLock

\* Only the lock of a dead manager gets old.
LEMMA LockAgesOK == FileInv /\ LockAges => FileInv'
<1> SUFFICES ASSUME FileInv, LockAges PROVE FileInv'
  OBVIOUS
<1>1. \A m \in Managers : manager[m].stage \notin {"reading", "writing"}
  BY DEF FileInv, WriterHasLock, LockAges, Alive
<1>2. UNCHANGED <<manager, torn>> /\ lock' = [lock EXCEPT !.old = TRUE]
  BY DEF LockAges
<1>3. LocksOK'
  BY <1>2 DEF FileInv, LocksOK
<1>4. WriterHasLock'
  BY <1>1, <1>2 DEF WriterHasLock
<1> QED
  BY <1>2, <1>3, <1>4 DEF FileInv, ManagersOK

-----------------------------------------------------------------------------
(* The connections.                                                         *)

LEMMA ClosedOK ==
  ASSUME ConnInv, NEW c \in Connections, Closed(c)
  PROVE  ConnInv'
<1> DEFINE f == [conn EXCEPT ![c].state = "closed"]
           g == [f EXCEPT ![c].watch = FALSE]
           h == [g EXCEPT ![c].timer = FALSE]
<1>1. f \in [Connections -> ConnStates]
  BY DEF ConnInv, ConnStates
<1>2. ASSUME f \in [Connections -> ConnStates] PROVE g \in [Connections -> ConnStates]
  <2> HIDE DEF f
  <2> QED
    BY <1>2 DEF ConnStates
<1>3. ASSUME g \in [Connections -> ConnStates] PROVE h \in [Connections -> ConnStates]
  <2> HIDE DEF g
  <2> QED
    BY <1>3 DEF ConnStates
<1>4. conn' = h
  BY DEF Closed
<1>5. /\ conn'[c].state = "closed" /\ conn'[c].watch = FALSE /\ conn'[c].timer = FALSE
      /\ \A d \in Connections \ {c} : conn'[d] = conn[d]
  BY DEF ConnInv, Closed, ConnStates
<1>6. WatchedOnce'
  BY <1>5 DEF ConnInv, WatchedOnce
<1> HIDE DEF f, g, h
<1> QED
  BY <1>1, <1>2, <1>3, <1>4, <1>6 DEF ConnInv

LEMMA AcceptIceConnectionOK ==
  ASSUME ConnInv, NEW c \in Connections, NEW m \in Managers, AcceptIceConnection(c, m)
  PROVE  ConnInv'
<1>1. PICK known \in BOOLEAN :
        conn' = [conn EXCEPT ![c] = [state |-> "pending", server |-> m, known |-> known,
                                     watch |-> TRUE, timer |-> TRUE]]
  <2>1. CASE Lookup("ICE", manager[m].id) = m
    <3>1. (Lookup("ICE", manager[m].id) = m) = TRUE
      BY <2>1
    <3> QED
      BY <3>1, Zenon DEF AcceptIceConnection
  <2>2. CASE Lookup("ICE", manager[m].id) # m
    <3>1. (Lookup("ICE", manager[m].id) = m) = FALSE
      BY <2>2
    <3> QED
      BY <3>1, Zenon DEF AcceptIceConnection
  <2> QED
    BY <2>1, <2>2
<1>2. conn' \in [Connections -> ConnStates]
  BY <1>1 DEF ConnInv, ConnStates
<1>3. /\ conn'[c].state = "pending" /\ conn'[c].watch = TRUE /\ conn'[c].timer = TRUE
      /\ \A d \in Connections \ {c} : conn'[d] = conn[d]
  BY <1>1 DEF ConnInv
<1>4. WatchedOnce'
  BY <1>3 DEF ConnInv, WatchedOnce
<1> QED
  BY <1>2, <1>4 DEF ConnInv

LEMMA AcceptXsmpConnectionOK ==
  ASSUME ConnInv, NEW c \in Connections, AcceptXsmpConnection(c)
  PROVE  ConnInv'
  BY DEF ConnInv, AcceptXsmpConnection, ConnStates, WatchedOnce

\* The end of a manager closes what it had, and leaves the others' alone.
LEMMA ManagerEndsConnOK ==
  ASSUME ConnInv, NEW m \in Managers, ManagerEnds(m)
  PROVE  ConnInv'
<1> DEFINE r == [NoConnection EXCEPT !.state = "closed"]
<1>1. r \in ConnStates /\ r.state = "closed" /\ r.watch = FALSE /\ r.timer = FALSE
  BY DEF NoConnection, ConnStates
<1>2. conn' = [c \in Connections |-> IF conn[c].server = m THEN r ELSE conn[c]]
  BY DEF ManagerEnds
<1> HIDE DEF r
<1> QED
  BY <1>1, <1>2 DEF ConnInv, WatchedOnce

-----------------------------------------------------------------------------
LEMMA InitOK == Init => IInv
<1> SUFFICES ASSUME Init PROVE IInv
  OBVIOUS
<1>1. manager \in [Managers -> Progress({<<>>})] /\ \A m \in Managers : manager[m].stage = "unborn"
  <2> DEFINE id == CHOOSE i \in Ids : TRUE
  <2>1. id \in Ids
    BY IdsAssumption
  <2>2. manager = [m \in Managers |-> [stage |-> "unborn", id |-> id, entries |-> <<>>,
                                      stopping |-> FALSE]]
    BY DEF Init
  <2> HIDE DEF id
  <2> QED
    BY <2>1, <2>2 DEF Progress, Stages
<1>2. conn \in [Connections -> ConnStates] /\ WatchedOnce
  BY DEF Init, NoConnection, ConnStates, WatchedOnce
<1> QED
  BY <1>1, <1>2 DEF Init, IInv, FileInv, ConnInv, ManagersOK, LocksOK, WriterHasLock

THEOREM NextOK == IInv /\ [Next]_vars => IInv'
<1> SUFFICES ASSUME IInv, [Next]_vars PROVE IInv'
  OBVIOUS
<1>0. FileInv /\ ConnInv
  BY DEF IInv
<1>1. UNCHANGED conn => ConnInv'
  BY <1>0 DEF ConnInv, WatchedOnce
<1>2. UNCHANGED <<manager, lock, torn>> => FileInv'
  BY <1>0 DEF FileInv, ManagersOK, LocksOK, WriterHasLock
<1>3. ASSUME NEW m \in Managers, ManagerEnds(m) PROVE IInv'
  <2>1. FileInv'
    BY <1>0, <1>3, LeavesOK DEF ManagerEnds, FileInv
  <2> QED
    BY <1>0, <1>3, <2>1, ManagerEndsConnOK DEF IInv
<1>4. ASSUME NEW m \in Managers, LockAuthFileFails(m) PROVE IInv'
  <2>1. FileInv'
    BY <1>0, <1>4, LeavesOK DEF LockAuthFileFails, FileInv
  <2> QED
    BY <1>1, <1>4, <2>1 DEF IInv, LockAuthFileFails
<1>4a. ASSUME NEW m \in Managers, CannotOpenEntries(m) PROVE IInv'
  <2>1. FileInv'
    BY <1>0, <1>4a, LeavesOK DEF CannotOpenEntries, FileInv
  <2> QED
    BY <1>1, <1>4a, <2>1 DEF IInv, CannotOpenEntries
<1>5. ASSUME NEW m \in Managers,
             \/ \E id \in Ids : SetupListener(m, id)
             \/ LockAuthFile(m) \/ ReadEntries(m) \/ WriteEntries(m)
             \/ StopOrStartAccepting(m)
      PROVE  IInv'
  <2>1. FileInv'
    BY <1>0, <1>5, SetupListenerOK, LockAuthFileOK, ReadEntriesOK, WriteEntriesOK,
       StopOrStartAcceptingOK
  <2>2. UNCHANGED conn
    BY <1>5 DEF SetupListener, LockAuthFile, ReadEntries, WriteEntries, StopOrStartAccepting
  <2> QED
    BY <1>1, <2>1, <2>2 DEF IInv
<1>6. CASE LockAges
  BY <1>0, <1>1, <1>6, LockAgesOK DEF IInv, LockAges
<1>7. ASSUME NEW m \in Managers, NEW c \in Connections, AcceptIceConnection(c, m) PROVE IInv'
  BY <1>0, <1>2, <1>7, AcceptIceConnectionOK DEF IInv, AcceptIceConnection
<1>8. ASSUME NEW c \in Connections, AcceptXsmpConnection(c) PROVE IInv'
  BY <1>0, <1>2, <1>8, AcceptXsmpConnectionOK DEF IInv, AcceptXsmpConnection
<1>9. ASSUME NEW c \in Connections,
             AuthFailsOrClientCloses(c) \/ IceProtocolTimeout(c) \/ ClientCloses(c)
      PROVE  IInv'
  BY <1>0, <1>2, <1>9, ClosedOK
  DEF IInv, AuthFailsOrClientCloses, IceProtocolTimeout, ClientCloses
<1>10. ASSUME UNCHANGED vars PROVE IInv'
  BY <1>1, <1>2, <1>10 DEF IInv, vars
<1> QED
  BY <1>3, <1>4, <1>4a, <1>5, <1>6, <1>7, <1>8, <1>9, <1>10
  DEF Next, RefuseXsmpConnection, AllGone

THEOREM Inductive == Spec => []IInv
  BY InitOK, NextOK, PTL DEF Spec

\* The lock and the connections stay within their types.
THEOREM TypeCorrect == Spec => []TypeOK
<1>1. IInv => TypeOK
  BY DEF IInv, FileInv, LocksOK, ConnInv, ConnStates, TypeOK
<1> QED
  BY <1>1, Inductive, PTL

\* Sessions that start, end or die at any moment do not write the authority file
\* at the same time (update_iceauthority).
THEOREM AlwaysOneWriter == Spec => []OneWriter
<1>1. IInv => OneWriter
  BY DEF IInv, FileInv, WriterHasLock, OneWriter
<1> QED
  BY <1>1, Inductive, PTL

\* A connection never has a watch or a timer that is not its own: the protocol
\* timer cannot close that of an established client, and none that is pending is
\* forgotten (accept_ice_connection, accept_xsmp_connection, ice_protocol_timeout).
THEOREM AlwaysWatchedOnce == Spec => []WatchedOnce
<1>1. IInv => WatchedOnce
  BY DEF IInv, ConnInv
<1> QED
  BY <1>1, Inductive, PTL

-----------------------------------------------------------------------------
(* The entries that are kept: Kept picks every entry of another id once.      *)

Protocols == {"ICE", "XSMP"}
Entries == [protocol : Protocols, id : Ids, cookie : Managers]

\* How many positions of P are not before i.
Rank(P, i) == Cardinality({j \in P : i <= j})

\* The positions of a finite set are numbered by their rank.
LEMMA Ranked ==
  ASSUME NEW P, P \subseteq Int, IsFiniteSet(P)
  PROVE  /\ Cardinality(P) \in Nat
         /\ \A i \in P : Rank(P, i) \in 1..Cardinality(P)
         /\ \A i, j \in P : Rank(P, i) = Rank(P, j) => i = j
         /\ \A k \in 1..Cardinality(P) : \E i \in P : Rank(P, i) = k
<1> DEFINE n == Cardinality(P)
           After(i) == {j \in P : i <= j}
<1>1. n \in Nat
  BY FS_CardinalityType
<1>2. ASSUME NEW i \in P
      PROVE  IsFiniteSet(After(i)) /\ Cardinality(After(i)) \in 1..n
  <2>1. After(i) \in SUBSET P /\ i \in After(i)
    OBVIOUS
  <2>2. IsFiniteSet(After(i)) /\ Cardinality(After(i)) <= n
    BY <2>1, FS_Subset
  <2>3. Cardinality(After(i)) \in Nat /\ Cardinality(After(i)) # 0
    BY <2>1, <2>2, FS_CardinalityType, FS_EmptySet
  <2> HIDE DEF n, After
  <2> QED
    BY <1>1, <2>2, <2>3
<1>3. ASSUME NEW i \in P, NEW j \in P, i < j
      PROVE  Cardinality(After(i)) # Cardinality(After(j))
  <2>0. i \in Int /\ j \in Int /\ \A x \in P : x \in Int
    OBVIOUS
  <2>0a. (\A x \in P : j <= x => i <= x) /\ i <= i /\ ~(j <= i)
    BY <1>3, <2>0
  <2>1. After(j) \in SUBSET After(i) /\ i \in After(i) /\ i \notin After(j)
    BY <2>0a
  <2>2. IsFiniteSet(After(i))
    BY <1>2
  <2> HIDE DEF n, After
  <2>3. Cardinality(After(i)) = Cardinality(After(j)) => After(i) = After(j)
    BY <2>1, <2>2, FS_Subset
  <2> QED
    BY <2>1, <2>3
<1>4. \A i, j \in P : Rank(P, i) = Rank(P, j) => i = j
  BY <1>3 DEF Rank
<1>5. \A i \in P : Rank(P, i) \in 1..n
  BY <1>2 DEF Rank
<1> DEFINE f == [i \in P |-> Rank(P, i)]
<1>6. f \in Injection(P, 1..n)
  <2>1. f \in [P -> 1..n]
    BY <1>5
  <2>2. \A i, j \in P : f[i] = f[j] => i = j
    BY <1>4
  <2> HIDE DEF f, n
  <2> QED
    BY <2>1, <2>2 DEF Injection, IsInjective
<1>7. IsFiniteSet(1..n) /\ Cardinality(1..n) = n
  <2>1. 1 \in Int /\ n \in Int
    BY <1>1
  <2>2. IsFiniteSet(1..n) /\ Cardinality(1..n) = IF 1 > n THEN 0 ELSE n - 1 + 1
    BY <2>1, FS_Interval, Zenon
  <2> HIDE DEF n
  <2> QED
    BY <1>1, <2>2
<1>8. f \in Surjection(P, 1..n)
  <2> HIDE DEF f
  <2>1. Cardinality(P) = Cardinality(1..n)
    BY <1>7
  <2> HIDE DEF n
  <2> QED
    BY <1>6, <1>7, <2>1, FS_Injection, Zenon
<1>9. \A k \in 1..n : \E i \in P : f[i] = k
  <2> HIDE DEF f, n
  <2> QED
    BY <1>8 DEF Surjection
<1> QED
  BY <1>1, <1>4, <1>5, <1>9

LEMMA KeptPicks ==
  ASSUME file \in Seq(Entries), NEW id
  PROVE  /\ Kept(id) \in Seq(Entries)
         /\ Len(Kept(id)) = Cardinality(Others(id)) /\ Cardinality(Others(id)) \in Nat
         /\ \A k \in 1..Len(Kept(id)) : \E i \in Others(id) :
              Rank(Others(id), i) = k /\ Kept(id)[k] = file[i]
         /\ \A i \in Others(id) : \E k \in 1..Len(Kept(id)) : Kept(id)[k] = file[i]
<1> DEFINE P == Others(id)
           pick(k) == CHOOSE i \in P : Rank(P, i) = k
<1>1. P \subseteq 1..Len(file) /\ Len(file) \in Nat /\ DOMAIN file = 1..Len(file)
  BY DEF Others
<1>2. IsFiniteSet(P)
  <2>1. 1 \in Int /\ Len(file) \in Int
    BY <1>1
  <2>2. IsFiniteSet(1..Len(file))
    BY <2>1, FS_Interval, Zenon
  <2> QED
    BY <1>1, <2>2, FS_Subset
<1>3. /\ Cardinality(P) \in Nat
      /\ \A i \in P : Rank(P, i) \in 1..Cardinality(P)
      /\ \A i, j \in P : Rank(P, i) = Rank(P, j) => i = j
      /\ \A k \in 1..Cardinality(P) : \E i \in P : Rank(P, i) = k
  <2>1. P \subseteq Int
    BY <1>1
  <2> HIDE DEF P
  <2> QED
    BY <1>2, <2>1, Ranked
<1>4. Kept(id) = [k \in 1..Cardinality(P) |-> file[pick(k)]]
  BY DEF Kept, Rank
<1> HIDE DEF P
<1>5. \A k \in 1..Cardinality(P) : pick(k) \in P /\ Rank(P, pick(k)) = k
  BY <1>3
<1>6. \A i \in P : pick(Rank(P, i)) = i
  BY <1>3, <1>5
<1> HIDE DEF pick
<1>7. \A k \in 1..Cardinality(P) : file[pick(k)] \in Entries
  <2>1. \A i \in 1..Len(file) : file[i] \in Entries
    OBVIOUS
  <2>2. \A i \in P : file[i] \in Entries
    BY <1>1, <2>1
  <2> QED
    BY <1>5, <2>2
<1>8. Kept(id) \in Seq(Entries) /\ Len(Kept(id)) = Cardinality(P)
  <2> DEFINE n == Cardinality(P)
  <2>1. n \in Nat /\ Kept(id) = [k \in 1..n |-> file[pick(k)]]
    BY <1>3, <1>4
  <2>2. \A k \in 1..n : file[pick(k)] \in Entries
    BY <1>7
  <2> HIDE DEF n
  <2>3. Kept(id) \in [1..n -> Entries]
    BY <2>1, <2>2
  <2>4. Kept(id) \in Seq(Entries) /\ Len(Kept(id)) = n
    BY <2>1, <2>3
  <2> QED
    BY <2>4 DEF n
<1>9. \A k \in 1..Cardinality(P) : Kept(id)[k] = file[pick(k)]
  BY <1>4
<1>10. \A k \in 1..Len(Kept(id)) : \E i \in P : Rank(P, i) = k /\ Kept(id)[k] = file[i]
  BY <1>5, <1>8, <1>9
<1>11. \A i \in P : \E k \in 1..Len(Kept(id)) : Kept(id)[k] = file[i]
  BY <1>3, <1>6, <1>8, <1>9
<1> QED
  BY <1>3, <1>8, <1>10, <1>11 DEF P

-----------------------------------------------------------------------------
(* What is in the file, and what will be.                                     *)

\* No two entries have the same protocol and id.
NamesOnce(s) ==
  \A i, j \in DOMAIN s : s[i].protocol = s[j].protocol /\ s[i].id = s[j].id => i = j

\* The entries of a manager are there.
Present(s, id, m) ==
  \A protocol \in Protocols : \E i \in DOMAIN s :
    s[i] = [protocol |-> protocol, id |-> id, cookie |-> m]

IdsDiffer ==
  \A m, n \in Managers : Alive(m) /\ Alive(n) /\ manager[m].id = manager[n].id => m = n

\* A writer overwrites all that there is, and loses no entry of a running session.
WillBeWritten(m) ==
  /\ manager[m].entries \in Seq(Entries) /\ NamesOnce(manager[m].entries)
  /\ Len(file) <= Len(manager[m].entries)
  /\ Present(manager[m].entries, manager[m].id, m)
  /\ \A n \in Managers :
       manager[n].stage = "listening" => Present(manager[m].entries, manager[n].id, n)

FileIsGood ==
  ~torn =>
    /\ file \in Seq(Entries) /\ NamesOnce(file)
    /\ \A m \in Managers : manager[m].stage = "listening" => Present(file, manager[m].id, m)
    /\ \A m \in Managers : manager[m].stage = "writing" => WillBeWritten(m)

CookieInv == IdsDiffer /\ FileIsGood

\* Of a file that names no id twice, two entries at most are not kept.
LEMMA TwoDropped ==
  ASSUME file \in Seq(Entries), NamesOnce(file), NEW id
  PROVE  Len(file) <= Cardinality(Others(id)) + 2
<1> DEFINE D == 1..Len(file)
           Q == D \ Others(id)
           f == [i \in Q |-> file[i].protocol]
<1>1. Len(file) \in Nat /\ DOMAIN file = D
  OBVIOUS
<1>2. IsFiniteSet(D) /\ Cardinality(D) = Len(file)
  <2>1. 1 \in Int /\ Len(file) \in Int
    BY <1>1
  <2>2. IsFiniteSet(D) /\ Cardinality(D) = IF 1 > Len(file) THEN 0 ELSE Len(file) - 1 + 1
    BY <2>1, FS_Interval, Zenon
  <2> HIDE DEF D
  <2> QED
    BY <1>1, <2>2
<1>3. IsFiniteSet(Protocols) /\ Cardinality(Protocols) = 2
  <2>1. "XSMP" \notin {"ICE"} /\ Protocols = {"ICE"} \cup {"XSMP"}
    BY DEF Protocols
  <2>2. IsFiniteSet({"ICE"}) /\ Cardinality({"ICE"}) = 1
    BY FS_Singleton
  <2>3. /\ IsFiniteSet({"ICE"} \cup {"XSMP"})
        /\ Cardinality({"ICE"} \cup {"XSMP"}) = Cardinality({"ICE"}) + 1
    BY <2>1, <2>2, FS_AddElement, Zenon
  <2> QED
    BY <2>1, <2>2, <2>3
<1>4. f \in Injection(Q, Protocols)
  <2>1. \A i \in D : file[i] \in Entries
    OBVIOUS
  <2>2. \A i \in Q : i \in DOMAIN file /\ file[i].protocol \in Protocols /\ file[i].id = id
    BY <1>1, <2>1 DEF Others, Entries
  <2> HIDE DEF D, Q
  <2>3. f \in [Q -> Protocols]
    BY <2>2
  <2>4. \A i, j \in Q : f[i] = f[j] => i = j
    BY <2>2 DEF NamesOnce
  <2> HIDE DEF f
  <2> QED
    BY <2>3, <2>4 DEF Injection, IsInjective
<1>5. IsFiniteSet(Q) /\ Cardinality(Q) <= 2
  <2> HIDE DEF f, Q
  <2>1. IsFiniteSet(Q) /\ Cardinality(Q) <= Cardinality(Protocols)
    BY <1>3, <1>4, FS_Injection, Zenon
  <2> QED
    BY <1>3, <2>1
<1>6. /\ Cardinality(Q) = Cardinality(D) - Cardinality(D \cap Others(id))
      /\ Cardinality(D \cap Others(id)) \in Nat
  <2> HIDE DEF D
  <2>1. IsFiniteSet(D \cap Others(id))
    BY <1>2, FS_Intersection
  <2> QED
    BY <1>2, <2>1, FS_Difference, FS_CardinalityType
<1>7. D \cap Others(id) = Others(id)
  BY <1>1 DEF Others
<1>8. Cardinality(Q) \in Nat
  BY <1>5, FS_CardinalityType
<1> HIDE DEF D, Q
<1>9. Cardinality(Q) = Len(file) - Cardinality(Others(id)) /\ Cardinality(Others(id)) \in Nat
  BY <1>2, <1>6, <1>7
<1> QED
  BY <1>1, <1>5, <1>8, <1>9

\* What a manager makes of the file it has read.
ToWrite(m) == <<Entry("XSMP", m)>> \o Kept(manager[m].id) \o <<Entry("ICE", m)>>

LEMMA NewEntries ==
  ASSUME file \in Seq(Entries), NamesOnce(file), NEW m \in Managers, manager[m].id \in Ids,
         NEW s, s = ToWrite(m)
  PROVE  /\ s \in Seq(Entries) /\ NamesOnce(s) /\ Len(file) <= Len(s)
         /\ Present(s, manager[m].id, m)
         /\ \A i \in DOMAIN file : file[i].id # manager[m].id =>
              \E k \in DOMAIN s : s[k] = file[i]
<1> DEFINE id == manager[m].id
           K == Kept(id)
           n == Len(K)
           x == Entry("XSMP", m)
           y == Entry("ICE", m)
<1>1. /\ x \in Entries /\ x.protocol = "XSMP" /\ x.id = id
      /\ y \in Entries /\ y.protocol = "ICE" /\ y.id = id
  BY DEF Entry, Entries, Protocols
<1>2. /\ K \in Seq(Entries)
      /\ n = Cardinality(Others(id)) /\ n \in Nat
      /\ \A k \in 1..n : \E i \in Others(id) : Rank(Others(id), i) = k /\ K[k] = file[i]
      /\ \A i \in Others(id) : \E k \in 1..n : K[k] = file[i]
  <2> HIDE DEF id
  <2> QED
    BY KeptPicks
<1>3. s = <<x>> \o K \o <<y>>
  BY DEF ToWrite
<1>4. \A i \in Others(id) : i \in DOMAIN file /\ file[i].id # id
  BY DEF Others
<1>5. Len(file) <= n + 2
  <2> HIDE DEF id
  <2> QED
    BY <1>2, TwoDropped
<1> HIDE DEF K, x, y, n
<1>6. /\ s \in Seq(Entries) /\ Len(s) = n + 2 /\ DOMAIN s = 1..(n + 2)
      /\ s[1] = x /\ s[n + 2] = y
      /\ \A k \in 1..n : k + 1 \in DOMAIN s /\ s[k + 1] = K[k]
  <2> DEFINE t == <<x>> \o K
  <2>1. /\ t \in Seq(Entries) /\ Len(t) = n + 1 /\ t[1] = x
        /\ \A k \in 1..n : t[k + 1] = K[k]
    BY <1>1, <1>2 DEF n
  <2>2. s = t \o <<y>>
    BY <1>3
  <2> HIDE DEF t
  <2>3. /\ s \in Seq(Entries) /\ Len(s) = (n + 1) + 1 /\ s[(n + 1) + 1] = y
        /\ \A k \in 1..(n + 1) : s[k] = t[k]
    <3>1. /\ t \o <<y>> \in Seq(Entries) /\ Len(t \o <<y>>) = Len(t) + 1
          /\ (t \o <<y>>)[Len(t) + 1] = y
          /\ \A k \in 1..Len(t) : (t \o <<y>>)[k] = t[k]
      BY <1>1, <2>1
    <3> QED
      BY <2>1, <2>2, <3>1
  <2>4. (n + 1) + 1 = n + 2 /\ 1 \in 1..(n + 1)
    BY <1>2
  <2>5. \A k \in 1..n : k + 1 \in 1..(n + 1) /\ k + 1 \in 1..(n + 2)
    BY <1>2
  <2>6. DOMAIN s = 1..Len(s)
    BY <2>3
  <2> QED
    BY <2>1, <2>3, <2>4, <2>5, <2>6
<1>7. \A j \in DOMAIN s : \/ j = 1 \/ j = n + 2
                          \/ j - 1 \in 1..n /\ s[j] = K[j - 1]
  <2> SUFFICES ASSUME NEW j \in DOMAIN s, j # 1, j # n + 2
               PROVE  j - 1 \in 1..n /\ s[j] = K[j - 1]
    OBVIOUS
  <2>1. j \in 1..(n + 2) /\ n \in Nat
    BY <1>2, <1>6
  <2>2. j - 1 \in 1..n /\ (j - 1) + 1 = j
    BY <2>1
  <2>3. s[(j - 1) + 1] = K[j - 1]
    BY <1>6, <2>2
  <2> QED
    BY <2>2, <2>3
<1> HIDE DEF id
<1>8. \A j \in DOMAIN s : j # 1 /\ j # n + 2 =>
         \E i \in Others(id) : Rank(Others(id), i) = j - 1 /\ s[j] = file[i]
  <2> SUFFICES ASSUME NEW j \in DOMAIN s, j # 1, j # n + 2
               PROVE  \E i \in Others(id) : Rank(Others(id), i) = j - 1 /\ s[j] = file[i]
    OBVIOUS
  <2>1. j - 1 \in 1..n /\ s[j] = K[j - 1]
    BY <1>7
  <2>2. \E i \in Others(id) : Rank(Others(id), i) = j - 1 /\ K[j - 1] = file[i]
    BY <1>2, <2>1
  <2> QED
    BY <2>1, <2>2
<1>9. NamesOnce(s)
  <2> SUFFICES ASSUME NEW i \in DOMAIN s, NEW j \in DOMAIN s,
                      s[i].protocol = s[j].protocol, s[i].id = s[j].id
               PROVE  i = j
    BY DEF NamesOnce
  <2>1. i \in Int /\ j \in Int
    BY <1>2, <1>6
  <2>2. CASE s[i].id = id
    <3>1. i \in {1, n + 2} /\ j \in {1, n + 2}
      BY <1>4, <1>8, <2>2
    <3> QED
      BY <1>1, <1>6, <3>1
  <2>3. CASE s[i].id # id
    <3>1. i # 1 /\ i # n + 2 /\ j # 1 /\ j # n + 2
      BY <1>1, <1>6, <2>3
    <3>2. PICK a \in Others(id) : Rank(Others(id), a) = i - 1 /\ s[i] = file[a]
      BY <1>8, <3>1
    <3>3. PICK b \in Others(id) : Rank(Others(id), b) = j - 1 /\ s[j] = file[b]
      BY <1>8, <3>1
    <3>4. a = b
      BY <1>4, <3>2, <3>3 DEF NamesOnce
    <3>5. i - 1 = j - 1
      BY <3>2, <3>3, <3>4
    <3> QED
      BY <2>1, <3>5
  <2> QED
    BY <2>2, <2>3
<1>10. Present(s, manager[m].id, m)
  <2>1. 1 \in DOMAIN s /\ n + 2 \in DOMAIN s
    BY <1>2, <1>6
  <2> QED
    BY <1>6, <2>1 DEF Present, Protocols, Entry, x, y
<1>11. ASSUME NEW i \in DOMAIN file, file[i].id # id
       PROVE  \E k \in DOMAIN s : s[k] = file[i]
  <2>1. i \in Others(id)
    BY <1>11 DEF Others
  <2>2. PICK k \in 1..n : K[k] = file[i]
    BY <1>2, <2>1
  <2> QED
    BY <1>6, <2>2
<1> QED
  BY <1>5, <1>6, <1>9, <1>10, <1>11 DEF id

\* A step that writes nothing, and after which nobody listens or is about to write
\* who was not.
LEMMA FileLeft ==
  ASSUME FileIsGood, UNCHANGED <<file, torn>>,
         \A n \in Managers : manager'[n].stage \in {"listening", "writing"} =>
           /\ manager'[n].stage = manager[n].stage
           /\ manager'[n].id = manager[n].id
           /\ manager'[n].entries = manager[n].entries
  PROVE  FileIsGood'
<1> SUFFICES ASSUME ~torn PROVE FileIsGood'
  BY DEF FileIsGood
<1>2. /\ file \in Seq(Entries) /\ NamesOnce(file)
      /\ \A m \in Managers : manager[m].stage = "listening" => Present(file, manager[m].id, m)
      /\ \A m \in Managers : manager[m].stage = "writing" => WillBeWritten(m)
  BY DEF FileIsGood
<1>3. \A m \in Managers : manager'[m].stage = "listening" => Present(file', manager'[m].id, m)
  BY <1>2
<1>4. ASSUME NEW m \in Managers, manager'[m].stage = "writing"
      PROVE  WillBeWritten(m)'
  <2>1. WillBeWritten(m) /\ manager'[m].id = manager[m].id
        /\ manager'[m].entries = manager[m].entries
    BY <1>2, <1>4
  <2>2. Present(manager'[m].entries, manager'[m].id, m)
    BY <2>1 DEF WillBeWritten
  <2>3. \A n \in Managers : manager'[n].stage = "listening" => Present(manager'[m].entries, manager'[n].id, n)
    BY <2>1 DEF WillBeWritten
  <2> QED
    BY <2>1, <2>2, <2>3 DEF WillBeWritten, NamesOnce
<1> QED
  BY <1>2, <1>3, <1>4 DEF FileIsGood, NamesOnce

\* Nobody comes to life, or changes his id.
LEMMA IdsLeft ==
  ASSUME IdsDiffer,
         \A n \in Managers :
           manager'[n].stage \in {"locking", "reading", "writing", "listening"} =>
             Alive(n) /\ manager'[n].id = manager[n].id
  PROVE  IdsDiffer'
  BY DEF IdsDiffer, Alive

\* What a manager's step leaves of the others, and of its own id.
LEMMA OneChanges ==
  ASSUME ManagersOK, NEW m \in Managers, NEW stage, NEW entries,
         \/ manager' = [manager EXCEPT ![m].stage = stage] /\ entries = manager[m].entries
         \/ manager' = [manager EXCEPT ![m].stage = stage, ![m].entries = entries]
  PROVE  /\ manager'[m].stage = stage /\ manager'[m].id = manager[m].id
         /\ manager'[m].entries = entries
         /\ \A n \in Managers \ {m} : manager'[n] = manager[n]
<1>1. PICK S : manager \in [Managers -> Progress(S)]
  BY DEF ManagersOK
<1>2. CASE manager' = [manager EXCEPT ![m].stage = stage] /\ entries = manager[m].entries
  BY <1>1, <1>2 DEF Progress
<1>3. CASE manager' = [manager EXCEPT ![m].stage = stage, ![m].entries = entries]
  BY <1>1, <1>3 DEF Progress
<1> QED
  BY <1>2, <1>3

\* The socket of a new manager is named after an id that nobody alive has.
LEMMA SetupListenerCookies ==
  ASSUME IInv, CookieInv, NEW m \in Managers, NEW id \in Ids, SetupListener(m, id)
  PROVE  CookieInv'
<1>1. /\ manager'[m].stage = "locking" /\ manager'[m].id = id
      /\ \A n \in Managers \ {m} : manager'[n] = manager[n]
  <2>1. PICK S : manager \in [Managers -> Progress(S)]
    BY DEF IInv, FileInv, ManagersOK
  <2> QED
    BY <2>1 DEF SetupListener, Progress
<1>2. \A n \in Managers : Alive(n) => manager[n].id # id
  BY DEF SetupListener
<1>3. IdsDiffer'
  <2> SUFFICES ASSUME NEW a \in Managers, NEW b \in Managers, Alive(a)', Alive(b)',
                      manager'[a].id = manager'[b].id
               PROVE  a = b
    BY DEF IdsDiffer
  <2>1. \A n \in Managers \ {m} : Alive(n)' => Alive(n)
    BY <1>1 DEF Alive
  <2> QED
    BY <1>1, <1>2, <2>1 DEF CookieInv, IdsDiffer
<1>4. FileIsGood'
  BY <1>1, FileLeft DEF CookieInv, SetupListener
<1> QED
  BY <1>3, <1>4 DEF CookieInv

\* A manager goes on, or ends, without having read or written.
LEMMA QuietCookies ==
  ASSUME IInv, CookieInv, NEW m \in Managers, UNCHANGED <<file, torn>>,
         \/ Alive(m) /\ manager' = [manager EXCEPT ![m].stage = "gone"]
         \/ Alive(m) /\ manager' = [manager EXCEPT ![m].stage = "gone", ![m].entries = <<>>]
         \/ Alive(m) /\ manager' = [manager EXCEPT ![m].stage = "reading"]
  PROVE  CookieInv'
<1>1. PICK entries :
        /\ manager'[m].stage \in {"gone", "reading"} /\ manager'[m].id = manager[m].id
        /\ manager'[m].entries = entries
        /\ \A n \in Managers \ {m} : manager'[n] = manager[n]
  <2>1. ManagersOK
    BY DEF IInv, FileInv
  <2>2. CASE manager' = [manager EXCEPT ![m].stage = "gone"]
    BY <2>1, <2>2, OneChanges
  <2>3. CASE manager' = [manager EXCEPT ![m].stage = "gone", ![m].entries = <<>>]
    BY <2>1, <2>3, OneChanges
  <2>4. CASE manager' = [manager EXCEPT ![m].stage = "reading"]
    BY <2>1, <2>4, OneChanges
  <2> QED
    BY <2>2, <2>3, <2>4
<1>2. IdsDiffer'
  <2>1. \A n \in Managers :
          manager'[n].stage \in {"locking", "reading", "writing", "listening"} =>
            Alive(n) /\ manager'[n].id = manager[n].id
    BY <1>1 DEF Alive
  <2> QED
    BY <2>1, IdsLeft DEF CookieInv
<1>3. FileIsGood'
  BY <1>1, FileLeft DEF CookieInv
<1> QED
  BY <1>2, <1>3 DEF CookieInv

LEMMA StopOrStartCookies ==
  ASSUME IInv, CookieInv, NEW m \in Managers, StopOrStartAccepting(m)
  PROVE  CookieInv'
<1>1. \A n \in Managers :
        /\ manager'[n].stage = manager[n].stage /\ manager'[n].id = manager[n].id
        /\ manager'[n].entries = manager[n].entries
  <2>1. PICK S : manager \in [Managers -> Progress(S)]
    BY DEF IInv, FileInv, ManagersOK
  <2> QED
    BY <2>1 DEF StopOrStartAccepting, Progress
<1>2. IdsDiffer'
  <2>1. \A n \in Managers :
          manager'[n].stage \in {"locking", "reading", "writing", "listening"} =>
            Alive(n) /\ manager'[n].id = manager[n].id
    BY <1>1 DEF Alive
  <2> QED
    BY <2>1, IdsLeft DEF CookieInv
<1>3. FileIsGood'
  BY <1>1, FileLeft DEF CookieInv, StopOrStartAccepting
<1> QED
  BY <1>2, <1>3 DEF CookieInv

\* What is read of a good file, and added, is good to be written.
LEMMA ReadEntriesCookies ==
  ASSUME IInv, CookieInv, NEW m \in Managers, ReadEntries(m)
  PROVE  CookieInv'
<1> DEFINE s == ToWrite(m)
<1>1. /\ manager' = [manager EXCEPT ![m].stage = "writing", ![m].entries = s]
      /\ manager[m].stage = "reading" /\ UNCHANGED <<lock, file, torn, conn>>
  BY DEF ReadEntries, ToWrite
<1>2. /\ manager'[m].stage = "writing" /\ manager'[m].id = manager[m].id
      /\ manager'[m].entries = s
      /\ \A n \in Managers \ {m} : manager'[n] = manager[n]
  <2> HIDE DEF s
  <2> QED
    BY <1>1, OneChanges DEF IInv, FileInv
<1>3. IdsDiffer'
  <2> HIDE DEF s
  <2>1. \A n \in Managers :
          manager'[n].stage \in {"locking", "reading", "writing", "listening"} =>
            Alive(n) /\ manager'[n].id = manager[n].id
    BY <1>1, <1>2 DEF Alive
  <2> QED
    BY <2>1, IdsLeft DEF CookieInv
<1>4. ASSUME ~torn PROVE FileIsGood'
  <2>1. /\ file \in Seq(Entries) /\ NamesOnce(file)
        /\ \A n \in Managers : manager[n].stage = "listening" => Present(file, manager[n].id, n)
    BY <1>4 DEF CookieInv, FileIsGood
  <2>2. manager[m].id \in Ids
    <3>1. PICK S : manager \in [Managers -> Progress(S)]
      BY DEF IInv, FileInv, ManagersOK
    <3> QED
      BY <3>1 DEF Progress
  <2>3. /\ s \in Seq(Entries) /\ NamesOnce(s) /\ Len(file) <= Len(s)
        /\ Present(s, manager[m].id, m)
        /\ \A i \in DOMAIN file : file[i].id # manager[m].id =>
             \E k \in DOMAIN s : s[k] = file[i]
    BY <2>1, <2>2, NewEntries
  <2> HIDE DEF s
  <2>4. ASSUME NEW n \in Managers, manager[n].stage = "listening"
        PROVE  Present(s, manager[n].id, n)
    <3>1. n # m /\ manager[n].id # manager[m].id
      BY <1>1, <2>4 DEF CookieInv, IdsDiffer, Alive
    <3> SUFFICES ASSUME NEW protocol \in Protocols
                 PROVE  \E k \in DOMAIN s : s[k] = Entry(protocol, n)
      BY DEF Present, Entry
    <3>2. PICK i \in DOMAIN file : file[i] = Entry(protocol, n)
      BY <2>1, <2>4 DEF Present, Entry
    <3>3. file[i].id # manager[m].id
      BY <3>1, <3>2 DEF Entry
    <3> QED
      BY <2>3, <3>2, <3>3
  <2>5. \A n \in Managers : manager'[n].id = manager[n].id
    BY <1>2
  <2>7. \A n \in Managers : manager'[n].stage = "listening" => manager[n].stage = "listening"
    BY <1>2
  <2>8. \A n \in Managers : manager'[n].stage = "writing" => n = m
    BY <1>1, <1>2 DEF IInv, FileInv, WriterHasLock
  <2>9. WillBeWritten(m)'
    <3>1. \A n \in Managers : manager'[n].stage = "listening" => Present(s, manager'[n].id, n)
      BY <2>4, <2>5, <2>7
    <3>2. Present(s, manager'[m].id, m)
      BY <2>3, <2>5
    <3>3. file' = file
      BY <1>1
    <3> QED
      BY <1>2, <2>3, <3>1, <3>2, <3>3 DEF WillBeWritten, NamesOnce, Present
  <2>10. \A n \in Managers : manager'[n].stage = "listening" => Present(file, manager'[n].id, n)
    BY <2>1, <2>5, <2>7
  <2>11. \A n \in Managers : manager'[n].stage = "writing" => WillBeWritten(n)'
    BY <2>8, <2>9
  <2>12. file' = file
    BY <1>1
  <2>13. (\A n \in Managers : manager[n].stage = "listening" => Present(file, manager[n].id, n))'
    BY <2>10, <2>12 DEF Present
  <2>14. (file \in Seq(Entries) /\ NamesOnce(file))'
    BY <2>1, <2>12 DEF NamesOnce
  <2> QED
    BY <2>11, <2>13, <2>14 DEF FileIsGood
<1>5. torn => FileIsGood'
  BY <1>1 DEF FileIsGood
<1> QED
  BY <1>3, <1>4, <1>5 DEF CookieInv

\* Written to the end it replaces the file; otherwise the file is torn.
LEMMA WriteEntriesCookies ==
  ASSUME IInv, CookieInv, NEW m \in Managers, WriteEntries(m)
  PROVE  CookieInv'
<1> DEFINE s == manager[m].entries
<1>1. PICK k \in 1..Len(s) :
        /\ file' = SubSeq(s, 1, k) \o SubSeq(file, k + 1, Len(file))
        /\ IF k = Len(s)
           THEN /\ manager' = [manager EXCEPT ![m].stage = "listening", ![m].entries = <<>>]
                /\ UNCHANGED torn
           ELSE /\ torn' = TRUE
                /\ manager' = [manager EXCEPT ![m].stage = "gone", ![m].entries = <<>>]
  BY DEF WriteEntries
<1>2. manager[m].stage = "writing"
  BY DEF WriteEntries
<1>3. /\ manager'[m].stage = IF k = Len(s) THEN "listening" ELSE "gone"
      /\ manager'[m].id = manager[m].id
      /\ \A n \in Managers \ {m} : manager'[n] = manager[n]
  <2> DEFINE stage == IF k = Len(s) THEN "listening" ELSE "gone"
  <2>1. manager' = [manager EXCEPT ![m].stage = stage, ![m].entries = <<>>]
    BY <1>1
  <2>2. /\ manager'[m].stage = stage /\ manager'[m].id = manager[m].id
        /\ \A n \in Managers \ {m} : manager'[n] = manager[n]
    <3> HIDE DEF stage, s
    <3> QED
      BY <2>1, OneChanges DEF IInv, FileInv
  <2> QED
    BY <2>2
<1>4. IdsDiffer'
  <2>1. \A n \in Managers :
          manager'[n].stage \in {"locking", "reading", "writing", "listening"} =>
            Alive(n) /\ manager'[n].id = manager[n].id
    BY <1>2, <1>3 DEF Alive
  <2> QED
    BY <2>1, IdsLeft DEF CookieInv
<1>5. ASSUME ~torn' PROVE FileIsGood'
  <2>1. k = Len(s) /\ torn' = torn
    BY <1>1, <1>5
  <2>2. /\ file \in Seq(Entries) /\ WillBeWritten(m)
    BY <1>2, <1>5, <2>1 DEF CookieInv, FileIsGood
  <2>3. s \in Seq(Entries) /\ NamesOnce(s) /\ Len(file) <= Len(s)
    BY <2>2 DEF WillBeWritten
  <2>4. file' = s
    <3> HIDE DEF s
    <3>1. Len(s) \in Nat /\ Len(file) \in Nat
      BY <2>2, <2>3
    <3>2. SubSeq(s, 1, Len(s)) = s
      BY <2>3
    <3>3. SubSeq(file, Len(s) + 1, Len(file)) = <<>>
      BY <2>2, <2>3, <3>1
    <3>4. s \o <<>> = s
      BY <2>3
    <3> QED
      BY <1>1, <2>1, <3>2, <3>3, <3>4
  <2>6. ASSUME NEW n \in Managers, manager'[n].stage = "listening"
        PROVE  Present(s, manager'[n].id, n)
    <3>1. Present(s, manager[n].id, n)
      BY <1>3, <2>2, <2>6 DEF WillBeWritten
    <3>2. manager'[n].id = manager[n].id
      BY <1>3
    <3> QED
      BY <3>1, <3>2
  <2>7. \A n \in Managers : manager'[n].stage # "writing"
    BY <1>2, <1>3, <2>1 DEF IInv, FileInv, WriterHasLock
  <2> QED
    BY <2>3, <2>4, <2>6, <2>7 DEF FileIsGood, NamesOnce, Present
<1> QED
  BY <1>4, <1>5 DEF CookieInv, FileIsGood

LEMMA CookieInit == Init => CookieInv
<1> SUFFICES ASSUME Init PROVE CookieInv
  OBVIOUS
<1>1. \A m \in Managers : manager[m].stage = "unborn"
  <2> DEFINE id == CHOOSE i \in Ids : TRUE
  <2>1. manager = [m \in Managers |-> [stage |-> "unborn", id |-> id, entries |-> <<>>,
                                      stopping |-> FALSE]]
    BY DEF Init
  <2> HIDE DEF id
  <2> QED
    BY <2>1
<1>2. file \in Seq(Entries) /\ NamesOnce(file)
  BY DEF Init, NamesOnce
<1> QED
  BY <1>1, <1>2 DEF CookieInv, IdsDiffer, Alive, FileIsGood

LEMMA CookieNext == IInv /\ CookieInv /\ [Next]_vars => CookieInv'
<1> SUFFICES ASSUME IInv, CookieInv, [Next]_vars PROVE CookieInv'
  OBVIOUS
<1>1. ASSUME UNCHANGED <<manager, file, torn>> PROVE CookieInv'
  BY <1>1 DEF CookieInv, IdsDiffer, Alive, FileIsGood, NamesOnce, Present, Entry, WillBeWritten
<1>2. ASSUME NEW m \in Managers, \/ LockAuthFile(m) \/ LockAuthFileFails(m)
                                 \/ CannotOpenEntries(m) \/ ManagerEnds(m)
      PROVE  CookieInv'
  BY <1>2, QuietCookies DEF LockAuthFile, LockAuthFileFails, CannotOpenEntries, ManagerEnds, Alive
<1>3. ASSUME NEW m \in Managers,
             \/ \E id \in Ids : SetupListener(m, id)
             \/ ReadEntries(m) \/ WriteEntries(m) \/ StopOrStartAccepting(m)
      PROVE  CookieInv'
  BY <1>3, SetupListenerCookies, ReadEntriesCookies, WriteEntriesCookies, StopOrStartCookies
<1>4. ASSUME \/ LockAges
             \/ \E c \in Connections :
                  \/ \E m \in Managers : AcceptIceConnection(c, m)
                  \/ AuthFailsOrClientCloses(c) \/ AcceptXsmpConnection(c)
                  \/ RefuseXsmpConnection(c) \/ IceProtocolTimeout(c) \/ ClientCloses(c)
             \/ AllGone
             \/ UNCHANGED vars
      PROVE  UNCHANGED <<manager, file, torn>>
  BY <1>4 DEF LockAges, AcceptIceConnection, AuthFailsOrClientCloses, AcceptXsmpConnection,
     RefuseXsmpConnection, IceProtocolTimeout, ClientCloses, AllGone, vars
<1> QED
  BY <1>1, <1>2, <1>3, <1>4 DEF Next

\* The clients of every running session find its cookies, and no others of its
\* network id, whichever sessions come, go or die, however many there are, unless
\* one died while it was writing (update_iceauthority).
THEOREM CookiesAlwaysFound == Spec => []CookiesAreFound
<1>1. IInv /\ CookieInv => CookiesAreFound
  <2> SUFFICES ASSUME CookieInv, ~torn, NEW m \in Managers, manager[m].stage = "listening",
                      NEW protocol \in {"ICE", "XSMP"}
               PROVE  LET found == {i \in DOMAIN file :
                                      file[i].protocol = protocol /\ file[i].id = manager[m].id}
                      IN \E i \in DOMAIN file : found = {i} /\ file[i] = Entry(protocol, m)
    BY DEF CookiesAreFound
  <2>1. NamesOnce(file) /\ Present(file, manager[m].id, m)
    BY DEF CookieInv, FileIsGood
  <2>2. PICK i \in DOMAIN file : file[i] = Entry(protocol, m)
    BY <2>1 DEF Present, Protocols, Entry
  <2>3. file[i].protocol = protocol /\ file[i].id = manager[m].id
    BY <2>2 DEF Entry
  <2> QED
    BY <2>1, <2>2, <2>3 DEF NamesOnce
<1> QED
  BY <1>1, CookieInit, CookieNext, Inductive, PTL DEF Spec

-----------------------------------------------------------------------------
(* A connection is decided.                                                 *)

\* The timer of a connection fires again and again, or is off again and again:
\* the fairness of FairSpec, with the guard of IceProtocolTimeout(c), which can
\* be taken and switches the timer off whenever it is on, in place of ENABLED.
TimerFires(c) == []<>~conn[c].timer \/ []<><<IceProtocolTimeout(c)>>_vars

ProtocolTimersFire == \A c \in Connections : TimerFires(c)

\* No connection stays pending, whatever its client does or leaves and however
\* many there are, if its timer fires: that has no other work (ice_protocol_timeout).
THEOREM PendingAreDecided == Spec /\ ProtocolTimersFire => PendingIsDecided
<1>1. ASSUME NEW c \in Connections
      PROVE  Spec /\ TimerFires(c) => (conn[c].state = "pending" ~> conn[c].state # "pending")
  <2> DEFINE P == conn[c].state = "pending"
             T == conn[c].timer
  <2>1. IInv => ~P \/ T
    BY DEF IInv, ConnInv, WatchedOnce
  <2>2. IInv /\ <<IceProtocolTimeout(c)>>_vars => ~P'
    BY DEF IInv, ConnInv, ConnStates, IceProtocolTimeout, Closed
  <2>3. conn[c].state # "pending" <=> ~P
    OBVIOUS
  <2> HIDE DEF P, T
  <2>4. []IInv /\ ([]<>~T \/ []<><<IceProtocolTimeout(c)>>_vars) => []<>~P
    BY <2>1, <2>2, PTL
  <2>5. []<>~P => (P ~> ~P)
    BY PTL
  <2>6. Spec /\ TimerFires(c) => (P ~> ~P)
    BY <2>4, <2>5, Inductive, PTL DEF TimerFires, T
  <2> QED
    BY <2>3, <2>6, PTL DEF P
<1> QED
  BY <1>1 DEF ProtocolTimersFire, PendingIsDecided
=============================================================================
