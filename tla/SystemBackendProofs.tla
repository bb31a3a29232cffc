------------------------- MODULE SystemBackendProofs -------------------------
(* Proofs about SystemBackend: its types and bounds, and that its lock and    *)
(* its claim to the next PrepareForShutdown are never left over, for any set  *)
(* of backends and any bound on locks.  LockIsDue is not inductive:           *)
(* consuming a signal would lose the reason for the lock if the signal could  *)
(* come without a shutdown, and an answer that a dead process never gets      *)
(* would leave its claim behind.  PreparedIsUnderWay and NothingLeft exclude  *)
(* the two.  That the machine goes down after the clients is shown by         *)
(* counting: a lock is left for every call and every failure under way.  And  *)
(* a shutdown is decided, because the backend expects what the manager waits  *)
(* for.                                                                       *)
EXTENDS SystemBackend, FiniteSetTheorems, FunctionTheorems, TLAPS

Messages == {"prepare", "error"}
SysStates == [delay_inhibit_fd : 0..MaxLocks, prepare_for_shutdown_expected : BOOLEAN,
              is_active : BOOLEAN]
MgrStates == [phase : Phases, logout_type : {"NONE", "LOGOUT", "SHUTDOWN"},
              prepared_handler : BOOLEAN, quitting : BOOLEAN]
DaemonStates == [locks : SUBSET Locks, overwritten : SUBSET Locks, calls : 0..MaxLocks,
                 operation : {"none", "own", "foreign"}, expired : BOOLEAN,
                 unlocked : BOOLEAN, down : BOOLEAN]
SeatStates == [foreground : BOOLEAN, changed : BOOLEAN]

\* PrepareForShutdown comes only of a shutdown, and a shutdown is not undone.
PreparedIsUnderWay ==
  \A i \in 1..Len(bus) : bus[i] = "prepare" => daemon.operation # "none"

\* A process that has ended holds and expects nothing.
NothingLeft ==
  mgr.phase = "GONE" =>
    /\ sys.delay_inhibit_fd = 0
    /\ sys.prepare_for_shutdown_expected = FALSE

IInv == TypeOK /\ PreparedIsUnderWay /\ NothingLeft /\ LockIsDue

-----------------------------------------------------------------------------
(* The types, one state component at a time.                                *)

LEMMA Types ==
  TypeOK <=> /\ kind \in Kinds /\ sys \in SysStates /\ mgr \in MgrStates
             /\ daemon \in DaemonStates /\ bus \in Seq(Messages) /\ seat \in SeatStates
  BY DEF TypeOK, SysStates, MgrStates, DaemonStates, SeatStates, Messages

LEMMA TypesNext ==
  TypeOK' <=> /\ kind' \in Kinds /\ sys' \in SysStates /\ mgr' \in MgrStates
              /\ daemon' \in DaemonStates /\ bus' \in Seq(Messages) /\ seat' \in SeatStates
  BY DEF TypeOK, SysStates, MgrStates, DaemonStates, SeatStates, Messages

LEMMA Bounds ==
  /\ 0 \in 0..MaxLocks
  /\ \A fd \in Locks : fd \in 0..MaxLocks /\ fd # 0
  BY MaxLocksAssumption DEF Locks

LEMMA LockCleared ==
  ASSUME sys \in SysStates, NEW expected \in BOOLEAN,
         sys' = [sys EXCEPT !.delay_inhibit_fd = 0, !.prepare_for_shutdown_expected = expected]
  PROVE  /\ sys' \in SysStates /\ sys'.delay_inhibit_fd = 0
         /\ sys'.prepare_for_shutdown_expected = expected
<1> DEFINE Fds == 0..MaxLocks
<1>1. 0 \in Fds
  BY Bounds
<1>2. sys \in [delay_inhibit_fd : Fds, prepare_for_shutdown_expected : BOOLEAN,
               is_active : BOOLEAN]
  BY DEF SysStates
<1> HIDE DEF Fds
<1>3. /\ sys' \in [delay_inhibit_fd : Fds, prepare_for_shutdown_expected : BOOLEAN,
                   is_active : BOOLEAN]
      /\ sys'.delay_inhibit_fd = 0
      /\ sys'.prepare_for_shutdown_expected = expected
  BY <1>1, <1>2
<1> QED
  BY <1>3 DEF SysStates, Fds

LEMMA LockTaken ==
  ASSUME sys \in SysStates, NEW fd \in Locks,
         sys' = [sys EXCEPT !.delay_inhibit_fd = fd, !.prepare_for_shutdown_expected = TRUE]
  PROVE  sys' \in SysStates /\ sys'.delay_inhibit_fd = fd
<1> DEFINE Fds == 0..MaxLocks
<1>1. fd \in Fds
  BY Bounds
<1>2. sys \in [delay_inhibit_fd : Fds, prepare_for_shutdown_expected : BOOLEAN,
               is_active : BOOLEAN]
  BY DEF SysStates
<1> HIDE DEF Fds
<1>3. /\ sys' \in [delay_inhibit_fd : Fds, prepare_for_shutdown_expected : BOOLEAN,
                   is_active : BOOLEAN]
      /\ sys'.delay_inhibit_fd = fd
  BY <1>1, <1>2
<1> QED
  BY <1>3 DEF SysStates, Fds

\* What is known of the messages that wait is kept when one is taken or sent.
LEMMA TailOfBus ==
  ASSUME NEW s \in Seq(Messages), s # <<>>
  PROVE  /\ Tail(s) \in Seq(Messages)
         /\ Head(s) = s[1] /\ 1 \in 1..Len(s)
         /\ \A i \in 1..Len(Tail(s)) : i + 1 \in 1..Len(s) /\ Tail(s)[i] = s[i + 1]
  OBVIOUS

LEMMA SentOnBus ==
  ASSUME bus \in Seq(Messages), NEW e \in Messages
  PROVE  /\ Sent(e) \in Seq(Messages)
         /\ mgr.phase # "GONE" => Sent(e) # <<>>
         /\ \A i \in 1..Len(Sent(e)) :
              \/ i \in 1..Len(bus) /\ Sent(e)[i] = bus[i]
              \/ Sent(e)[i] = e
  BY DEF Sent

\* Nothing is claimed of an empty bus.
LEMMA EmptyBus ==
  /\ <<>> \in Seq(Messages)
  /\ \A i \in 1..Len(<<>>) : FALSE
  OBVIOUS

THEOREM InitOK == Init => IInv
<1> SUFFICES ASSUME Init PROVE IInv
  OBVIOUS
<1>1. sys \in SysStates /\ mgr \in MgrStates
  BY MaxLocksAssumption DEF Init, SysStates, MgrStates, Phases
<1>2. daemon \in DaemonStates
  BY Bounds DEF Init, DaemonStates
<1>2a. seat \in SeatStates
  BY DEF Init, SeatStates
<1>3. TypeOK
  BY <1>1, <1>2, <1>2a, Types, EmptyBus DEF Init
<1>4. PreparedIsUnderWay
  BY EmptyBus DEF Init, PreparedIsUnderWay
<1>5. NothingLeft /\ LockIsDue
  BY DEF Init, NothingLeft, LockIsDue
<1> QED
  BY <1>3, <1>4, <1>5 DEF IInv

-----------------------------------------------------------------------------
(* The steps of the functions.                                              *)

\* A failed or cancelled logout leaves a manager that runs.
LEMMA CancelledManager ==
  ASSUME NEW m \in MgrStates
  PROVE  /\ CancelEndSession(m) \in MgrStates /\ ShutdownFailed(m) \in MgrStates
         /\ m.phase # "GONE" =>
              ShutdownFailed(m).phase # "GONE" /\ CancelEndSession(m).phase # "GONE"
<1>1. ASSUME NEW n \in MgrStates
      PROVE  /\ CancelEndSession(n) \in MgrStates
             /\ n.phase # "GONE" => CancelEndSession(n).phase # "GONE"
  BY DEF MgrStates, CancelEndSession, Phases
<1>2. /\ [m EXCEPT !.prepared_handler = FALSE] \in MgrStates
      /\ [m EXCEPT !.prepared_handler = FALSE].phase = m.phase
  BY DEF MgrStates
<1> QED
  BY <1>1, <1>2 DEF ShutdownFailed

\* Quitting closes the lock and claims nothing.
LEMMA QuitOK == IInv /\ Quit => IInv'
<1> SUFFICES ASSUME IInv, Quit PROVE IInv'
  OBVIOUS
<1>0. /\ kind \in Kinds /\ sys \in SysStates /\ mgr \in MgrStates
      /\ daemon \in DaemonStates /\ bus \in Seq(Messages) /\ seat \in SeatStates
  BY Types DEF IInv
<1>1. sys' \in SysStates /\ sys'.delay_inhibit_fd = 0 /\ sys'.prepare_for_shutdown_expected = FALSE
  BY <1>0, LockCleared DEF Quit
<1>2. mgr' \in MgrStates
  BY <1>0 DEF Quit, Gone, MgrStates, Phases
<1>3. daemon' \in DaemonStates /\ daemon'.locks = {}
  BY <1>0 DEF Quit, DaemonStates
<1>4. bus' = <<>> /\ kind' = kind /\ seat' = seat
  BY DEF Quit
<1>5. TypeOK'
  BY <1>0, <1>1, <1>2, <1>3, <1>4, TypesNext, EmptyBus
<1>6. PreparedIsUnderWay'
  BY <1>4, EmptyBus DEF PreparedIsUnderWay
<1>7. NothingLeft' /\ LockIsDue'
  BY <1>1, <1>3 DEF NothingLeft, LockIsDue
<1> QED
  BY <1>5, <1>6, <1>7 DEF IInv

\* A manager's step that leaves the backend, the daemon and their messages alone.
LEMMA ManagerOnly ==
  ASSUME IInv, UNCHANGED <<kind, sys, daemon, bus, seat>>, mgr' \in MgrStates,
         mgr.phase # "GONE" => mgr'.phase # "GONE"
  PROVE  IInv'
<1>1. TypeOK'
  BY Types, TypesNext DEF IInv
<1>2. PreparedIsUnderWay'
  BY DEF IInv, PreparedIsUnderWay
<1>3. NothingLeft' /\ LockIsDue'
  BY DEF IInv, NothingLeft, LockIsDue
<1> QED
  BY <1>1, <1>2, <1>3 DEF IInv

\* A message is taken, and the manager that took it goes on.
LEMMA MessageTaken ==
  ASSUME IInv, bus # <<>>, bus' = Tail(bus), UNCHANGED <<kind, seat>>,
         sys' \in SysStates, mgr' \in MgrStates, daemon' \in DaemonStates,
         daemon'.operation = daemon.operation, mgr'.phase # "GONE",
         LockIsDue'
  PROVE  IInv'
<1>1. TypeOK'
  BY Types, TypesNext, TailOfBus DEF IInv
<1>2. PreparedIsUnderWay'
  <2> SUFFICES ASSUME NEW i \in 1..Len(bus'), bus'[i] = "prepare"
               PROVE  daemon'.operation # "none"
    BY DEF PreparedIsUnderWay
  <2>1. i + 1 \in 1..Len(bus) /\ bus[i + 1] = "prepare"
    BY TailOfBus, Types DEF IInv
  <2> QED
    BY <2>1 DEF IInv, PreparedIsUnderWay
<1> QED
  BY <1>1, <1>2 DEF IInv, NothingLeft

-----------------------------------------------------------------------------
(* The actions of the manager and its backend.                              *)

LEMMA RequestLogoutOK ==
  ASSUME IInv, NEW type \in {"LOGOUT", "SHUTDOWN"}, RequestLogout(type)
  PROVE  IInv'
<1>1. mgr \in MgrStates
  BY Types DEF IInv
<1>2. mgr' \in MgrStates /\ mgr'.phase # "GONE"
  BY <1>1 DEF RequestLogout, MgrStates, Phases
<1> QED
  BY <1>2, ManagerOnly DEF RequestLogout

LEMMA EndQueryForLogoutOK == IInv /\ EndQueryForLogout => IInv'
<1> SUFFICES ASSUME IInv, EndQueryForLogout PROVE IInv'
  OBVIOUS
<1>1. mgr \in MgrStates
  BY Types DEF IInv
<1>2. mgr' \in MgrStates /\ mgr'.phase # "GONE"
  BY <1>1 DEF EndQueryForLogout, MgrStates, Phases
<1> QED
  BY <1>2, ManagerOnly DEF EndQueryForLogout

LEMMA CancelOK == IInv /\ Cancel => IInv'
<1> SUFFICES ASSUME IInv, Cancel PROVE IInv'
  OBVIOUS
<1>1. mgr \in MgrStates
  BY Types DEF IInv
<1>2. mgr' \in MgrStates /\ mgr'.phase # "GONE"
  BY <1>1, CancelledManager DEF Cancel
<1> QED
  BY <1>2, ManagerOnly DEF Cancel

\* Whatever becomes of the lock, the call that is sent, or its failure, accounts
\* for it.
LEMMA EndQueryForShutdownOK == IInv /\ EndQueryForShutdown => IInv'
<1> SUFFICES ASSUME IInv, EndQueryForShutdown PROVE IInv'
  OBVIOUS
<1>0. /\ kind \in Kinds /\ sys \in SysStates /\ mgr \in MgrStates
      /\ daemon \in DaemonStates /\ bus \in Seq(Messages) /\ seat \in SeatStates
  BY Types DEF IInv
<1>1. /\ mgr.phase # "GONE"
      /\ [mgr EXCEPT !.prepared_handler = TRUE] \in MgrStates
      /\ [mgr EXCEPT !.prepared_handler = TRUE].phase # "GONE"
  BY <1>0 DEF EndQueryForShutdown, MgrStates
<1>2. daemon.calls \in Nat /\ daemon.calls + 1 \in 0..MaxLocks /\ daemon.calls + 1 > 0
  <2>1. daemon.calls \in Nat /\ Len(bus) \in Nat
    BY <1>0, MaxLocksAssumption DEF DaemonStates
  <2>2. daemon.calls + Len(bus) < MaxLocks
    BY DEF EndQueryForShutdown
  <2> QED
    BY <2>1, <2>2, MaxLocksAssumption
<1>3. UNCHANGED <<kind, bus, seat>>
  BY DEF EndQueryForShutdown
<1>4. ASSUME sys' \in SysStates, mgr' \in MgrStates, mgr'.phase # "GONE",
             daemon' \in DaemonStates, daemon'.operation = daemon.operation, LockIsDue'
      PROVE  IInv'
  <2>1. TypeOK'
    BY <1>0, <1>3, <1>4, TypesNext
  <2>2. PreparedIsUnderWay'
    BY <1>3, <1>4 DEF IInv, PreparedIsUnderWay
  <2> QED
    BY <1>4, <2>1, <2>2 DEF IInv, NothingLeft
<1>5. CASE \E fd \in Locks : PrepareWithLock(fd)
  <2>1. PICK fd \in Locks : PrepareWithLock(fd)
    BY <1>5
  <2>2. sys' \in SysStates /\ sys'.delay_inhibit_fd = fd
    BY <1>0, <2>1, LockTaken DEF PrepareWithLock
  <2>3. /\ daemon' \in DaemonStates /\ daemon'.operation = daemon.operation
        /\ daemon'.calls = daemon.calls + 1 /\ fd \in daemon'.locks
        /\ daemon'.locks = daemon.locks \cup {fd}
        /\ daemon'.overwritten = daemon.overwritten \cup ({sys.delay_inhibit_fd} \ {0})
    <3>1. {sys.delay_inhibit_fd} \ {0} \subseteq Locks
      BY <1>0 DEF SysStates, Locks
    <3>2. daemon' = [daemon EXCEPT !.locks = @ \cup {fd}, !.calls = @ + 1,
                                   !.overwritten = @ \cup ({sys.delay_inhibit_fd} \ {0})]
      BY <2>1 DEF PrepareWithLock
    <3> QED
      BY <1>0, <1>2, <3>1, <3>2 DEF DaemonStates
  <2>4. LockIsDue'
    <3>1. daemon.locks \subseteq {sys.delay_inhibit_fd} \cup daemon.overwritten
          /\ 0 \notin daemon.locks
      BY <1>0, Bounds DEF IInv, LockIsDue, DaemonStates
    <3>2. daemon'.locks \subseteq {sys'.delay_inhibit_fd} \cup daemon'.overwritten
      BY <2>2, <2>3, <3>1
    <3> QED
      BY <1>2, <2>2, <2>3, <3>2 DEF LockIsDue
  <2>5. mgr' = [mgr EXCEPT !.prepared_handler = TRUE]
    BY <2>1 DEF PrepareWithLock
  <2> QED
    BY <1>1, <1>4, <2>2, <2>3, <2>4, <2>5
<1>6. CASE PrepareWithoutLock /\ kind = "systemd"
  <2>1. UNCHANGED <<sys, daemon>> /\ mgr' = ShutdownFailed([mgr EXCEPT !.prepared_handler = TRUE])
    BY <1>6 DEF PrepareWithoutLock
  <2>2. mgr' \in MgrStates
    BY <1>1, <2>1, CancelledManager
  <2>3. mgr'.phase # "GONE"
    BY <1>1, <2>1, CancelledManager
  <2> QED
    BY <1>3, <2>1, <2>2, <2>3, ManagerOnly
<1>7. CASE PrepareWithoutLock /\ kind # "systemd"
  <2>1. sys' \in SysStates /\ sys'.delay_inhibit_fd = sys.delay_inhibit_fd
    BY <1>0, <1>7 DEF PrepareWithoutLock, SysStates
  <2>2. /\ daemon' \in DaemonStates /\ daemon'.operation = daemon.operation
        /\ daemon'.calls = daemon.calls + 1 /\ daemon'.locks = daemon.locks
        /\ daemon'.overwritten = daemon.overwritten
    BY <1>0, <1>2, <1>7 DEF PrepareWithoutLock, DaemonStates
  <2>3. LockIsDue'
    BY <1>2, <2>1, <2>2 DEF LockIsDue, IInv
  <2>4. mgr' = [mgr EXCEPT !.prepared_handler = TRUE]
    BY <1>7 DEF PrepareWithoutLock
  <2> QED
    BY <1>1, <1>4, <2>1, <2>2, <2>3, <2>4
<1>8. CASE mgr' = [mgr EXCEPT !.prepared_handler = TRUE] /\ UNCHANGED <<sys, daemon>>
  BY <1>1, <1>3, <1>8, ManagerOnly
<1> QED
  BY <1>5, <1>6, <1>7, <1>8 DEF EndQueryForShutdown

\* The answer to a call that failed: the lock and the claim go with it.
LEMMA RebootOrPoweroffDoneOK == IInv /\ RebootOrPoweroffDone => IInv'
<1> SUFFICES ASSUME IInv, RebootOrPoweroffDone PROVE IInv'
  OBVIOUS
<1>0. sys \in SysStates /\ mgr \in MgrStates /\ daemon \in DaemonStates
  BY Types DEF IInv
<1>1. mgr' \in MgrStates /\ mgr'.phase # "GONE"
  BY <1>0, CancelledManager DEF RebootOrPoweroffDone, Dispatching
<1>2. /\ sys' \in SysStates /\ sys'.delay_inhibit_fd = 0
      /\ sys'.prepare_for_shutdown_expected = FALSE
  BY <1>0, LockCleared DEF RebootOrPoweroffDone, DropDelayInhibitor
<1>3. /\ daemon' \in DaemonStates /\ daemon'.operation = daemon.operation
      /\ daemon'.locks = daemon.locks \ {sys.delay_inhibit_fd}
      /\ daemon'.overwritten = daemon.overwritten
  BY <1>0 DEF RebootOrPoweroffDone, DropDelayInhibitor, DaemonStates
<1>4. LockIsDue'
  BY <1>2, <1>3 DEF IInv, LockIsDue
<1> QED
  BY <1>1, <1>2, <1>3, <1>4, MessageTaken DEF RebootOrPoweroffDone

\* The signal ends the claim; the lock stays, for a shutdown is under way.
LEMMA PrepareForShutdownOK == IInv /\ PrepareForShutdown => IInv'
<1> SUFFICES ASSUME IInv, PrepareForShutdown PROVE IInv'
  OBVIOUS
<1>0. /\ sys \in SysStates /\ mgr \in MgrStates /\ daemon \in DaemonStates
      /\ bus \in Seq(Messages) /\ bus # <<>> /\ mgr.phase # "GONE"
  BY Types DEF IInv, PrepareForShutdown, Dispatching
<1>1. daemon.operation # "none"
  BY <1>0, TailOfBus DEF IInv, PreparedIsUnderWay, PrepareForShutdown
<1>2. CASE sys.prepare_for_shutdown_expected = FALSE
  <2>1. bus' = Tail(bus) /\ UNCHANGED <<kind, sys, mgr, daemon, seat>>
    BY <1>2 DEF PrepareForShutdown
  <2>2. LockIsDue'
    BY <1>1, <1>2, <2>1 DEF IInv, LockIsDue
  <2> QED
    BY <1>0, <2>1, <2>2, MessageTaken
<1>3. CASE sys.prepare_for_shutdown_expected /\ ~Quit
  <2>1. /\ sys' = [sys EXCEPT !.prepare_for_shutdown_expected = FALSE]
        /\ bus' = Tail(bus) /\ UNCHANGED <<kind, daemon, seat>>
        /\ mgr' \in {mgr, [mgr EXCEPT !.prepared_handler = FALSE, !.phase = "END_SESSION"]}
    BY <1>3 DEF PrepareForShutdown, ShutdownPrepared
  <2>2. /\ sys' \in SysStates /\ sys'.prepare_for_shutdown_expected = FALSE
        /\ sys'.delay_inhibit_fd = sys.delay_inhibit_fd
    BY <1>0, <2>1 DEF SysStates
  <2>3. mgr' \in MgrStates /\ mgr'.phase # "GONE"
    BY <1>0, <2>1 DEF MgrStates, Phases
  <2>4. LockIsDue'
    BY <1>1, <2>1, <2>2 DEF IInv, LockIsDue
  <2> QED
    BY <1>0, <2>1, <2>2, <2>3, <2>4, MessageTaken
<1>4. CASE Quit
  BY <1>4, QuitOK
<1> QED
  BY <1>0, <1>2, <1>3, <1>4 DEF SysStates

\* complete_shutdown() lets the lock go.
LEMMA EndSessionDoneOK == IInv /\ EndSessionDone => IInv'
<1> SUFFICES ASSUME IInv, EndSessionDone PROVE IInv'
  OBVIOUS
<1>0. /\ kind \in Kinds /\ sys \in SysStates /\ mgr \in MgrStates
      /\ daemon \in DaemonStates /\ bus \in Seq(Messages) /\ seat \in SeatStates
  BY Types DEF IInv
<1>1. mgr' \in MgrStates /\ mgr'.phase # "GONE"
  BY <1>0 DEF EndSessionDone, MgrStates, Phases
<1>2. CASE mgr.logout_type # "SHUTDOWN"
  BY <1>1, <1>2, ManagerOnly DEF EndSessionDone
<1>3. CASE mgr.logout_type = "SHUTDOWN"
  <2>1. /\ sys' = [sys EXCEPT !.delay_inhibit_fd = 0]
        /\ daemon' = [daemon EXCEPT !.locks = @ \ {sys.delay_inhibit_fd}]
        /\ UNCHANGED <<kind, bus, seat>>
    BY <1>3 DEF EndSessionDone
  <2>2. /\ sys' \in SysStates /\ sys'.delay_inhibit_fd = 0
        /\ sys'.prepare_for_shutdown_expected = sys.prepare_for_shutdown_expected
    BY <1>0, <2>1, MaxLocksAssumption DEF SysStates
  <2>3. /\ daemon' \in DaemonStates /\ daemon'.calls = daemon.calls
        /\ daemon'.operation = daemon.operation
        /\ daemon'.locks = daemon.locks \ {sys.delay_inhibit_fd}
        /\ daemon'.overwritten = daemon.overwritten
    BY <1>0, <2>1 DEF DaemonStates
  <2>4. TypeOK'
    BY <1>0, <1>1, <2>1, <2>2, <2>3, TypesNext
  <2>5. PreparedIsUnderWay'
    BY <2>1, <2>3 DEF IInv, PreparedIsUnderWay
  <2>6. NothingLeft' /\ LockIsDue'
    BY <1>1, <2>1, <2>2, <2>3 DEF IInv, NothingLeft, LockIsDue
  <2> QED
    BY <2>4, <2>5, <2>6 DEF IInv
<1> QED
  BY <1>2, <1>3

LEMMA OnActiveChangedOK == IInv /\ OnActiveChanged => IInv'
<1> SUFFICES ASSUME IInv, OnActiveChanged PROVE IInv'
  OBVIOUS
<1>0. /\ kind \in Kinds /\ sys \in SysStates /\ mgr \in MgrStates
      /\ daemon \in DaemonStates /\ bus \in Seq(Messages) /\ seat \in SeatStates
  BY Types DEF IInv
<1>1. /\ sys' \in SysStates /\ seat' \in SeatStates
      /\ sys'.delay_inhibit_fd = sys.delay_inhibit_fd
      /\ sys'.prepare_for_shutdown_expected = sys.prepare_for_shutdown_expected
  BY <1>0 DEF OnActiveChanged, SysStates, SeatStates
<1>2. UNCHANGED <<kind, mgr, daemon, bus>>
  BY DEF OnActiveChanged
<1>3. TypeOK'
  BY <1>0, <1>1, <1>2, TypesNext
<1>4. PreparedIsUnderWay' /\ NothingLeft' /\ LockIsDue'
  BY <1>1, <1>2 DEF IInv, PreparedIsUnderWay, NothingLeft, LockIsDue
<1> QED
  BY <1>3, <1>4 DEF IInv

-----------------------------------------------------------------------------
(* The daemon's.                                                            *)

\* An operation under way is not forgotten, and an answer replaces its call.
LEMMA DaemonStepOK ==
  ASSUME IInv, UNCHANGED <<kind, sys, mgr, seat>>, daemon' \in DaemonStates,
         daemon'.locks = daemon.locks, daemon'.overwritten = daemon.overwritten,
         daemon.operation # "none" => daemon'.operation # "none",
         \/ bus' = bus /\ daemon'.calls = daemon.calls
         \/ \E e \in Messages :
              bus' = Sent(e) /\ (e = "prepare" => daemon'.operation # "none")
  PROVE  IInv'
<1>0. bus \in Seq(Messages)
  BY Types DEF IInv
<1>1. CASE bus' = bus /\ daemon'.calls = daemon.calls
  <2>1. TypeOK'
    BY <1>1, Types, TypesNext DEF IInv
  <2>2. PreparedIsUnderWay'
    BY <1>1 DEF IInv, PreparedIsUnderWay
  <2>3. NothingLeft' /\ LockIsDue'
    BY <1>1 DEF IInv, NothingLeft, LockIsDue
  <2> QED
    BY <2>1, <2>2, <2>3 DEF IInv
<1>2. ASSUME NEW e \in Messages, bus' = Sent(e), e = "prepare" => daemon'.operation # "none"
      PROVE  IInv'
  <2>1. TypeOK'
    BY <1>0, <1>2, SentOnBus, Types, TypesNext DEF IInv
  <2>2. PreparedIsUnderWay'
    BY <1>0, <1>2, SentOnBus DEF IInv, PreparedIsUnderWay
  <2>3. NothingLeft'
    BY DEF IInv, NothingLeft
  <2>4. LockIsDue'
    BY <1>0, <1>2, SentOnBus DEF IInv, NothingLeft, LockIsDue
  <2> QED
    BY <2>1, <2>2, <2>3, <2>4 DEF IInv
<1> QED
  BY <1>1, <1>2

LEMMA DaemonNextOK == IInv /\ DaemonNext => IInv'
<1> SUFFICES ASSUME IInv, DaemonNext PROVE IInv'
  OBVIOUS
<1>0. /\ daemon \in DaemonStates /\ "prepare" \in Messages /\ "error" \in Messages
      /\ daemon.calls \in Nat
  BY Types, MaxLocksAssumption DEF IInv, Messages, DaemonStates
<1>1. CASE LoginAccepts
  <2>1. daemon' = [daemon EXCEPT !.calls = @ - 1, !.operation = "own"]
    BY <1>1 DEF LoginAccepts
  <2>2. daemon.calls - 1 \in 0..MaxLocks
    BY <1>0, <1>1, MaxLocksAssumption DEF LoginAccepts, DaemonStates
  <2>3. /\ daemon' \in DaemonStates /\ daemon'.operation = "own"
        /\ daemon'.locks = daemon.locks /\ daemon'.overwritten = daemon.overwritten
    BY <1>0, <2>1, <2>2 DEF DaemonStates
  <2> QED
    BY <1>0, <1>1, <2>3, DaemonStepOK DEF LoginAccepts
<1>2. CASE LoginRefuses
  <2>1. daemon' = [daemon EXCEPT !.calls = @ - 1]
    BY <1>2 DEF LoginRefuses
  <2>2. daemon.calls - 1 \in 0..MaxLocks
    BY <1>0, <1>2, MaxLocksAssumption DEF LoginRefuses, DaemonStates
  <2>3. /\ daemon' \in DaemonStates /\ daemon'.operation = daemon.operation
        /\ daemon'.locks = daemon.locks /\ daemon'.overwritten = daemon.overwritten
    BY <1>0, <2>1, <2>2 DEF DaemonStates
  <2>4. "error" # "prepare"
    OBVIOUS
  <2> QED
    BY <1>0, <1>2, <2>3, <2>4, DaemonStepOK DEF LoginRefuses
<1>3. CASE ForeignShutdown
  <2>1. /\ daemon' \in DaemonStates /\ daemon'.operation = "foreign"
        /\ daemon'.locks = daemon.locks /\ daemon'.overwritten = daemon.overwritten
    BY <1>0, <1>3 DEF ForeignShutdown, DaemonStates
  <2> QED
    BY <1>0, <1>3, <2>1, DaemonStepOK DEF ForeignShutdown
<1>4. CASE DelayExpires \/ MachineGoesDown
  <2>1. /\ daemon' \in DaemonStates /\ daemon'.operation = daemon.operation
        /\ daemon'.locks = daemon.locks /\ daemon'.calls = daemon.calls
        /\ daemon'.overwritten = daemon.overwritten
    BY <1>0, <1>4 DEF DelayExpires, MachineGoesDown, DaemonStates
  <2> QED
    BY <1>4, <2>1, DaemonStepOK DEF DelayExpires, MachineGoesDown
<1>5. CASE SessionSwitches
  <2>1. seat' \in SeatStates
    BY <1>5, Types DEF SessionSwitches, SeatStates, IInv
  <2>2. UNCHANGED <<kind, sys, mgr, daemon, bus>>
    BY <1>5 DEF SessionSwitches
  <2>3. TypeOK'
    BY <2>1, <2>2, Types, TypesNext DEF IInv
  <2>4. PreparedIsUnderWay' /\ NothingLeft' /\ LockIsDue'
    BY <2>2 DEF IInv, PreparedIsUnderWay, NothingLeft, LockIsDue
  <2> QED
    BY <2>3, <2>4 DEF IInv
<1> QED
  BY <1>1, <1>2, <1>3, <1>4, <1>5 DEF DaemonNext

LEMMA StutterOK == IInv /\ UNCHANGED vars => IInv'
<1> SUFFICES ASSUME IInv, UNCHANGED vars PROVE IInv'
  OBVIOUS
<1>1. TypeOK'
  BY Types, TypesNext DEF IInv, vars
<1>2. PreparedIsUnderWay' /\ NothingLeft' /\ LockIsDue'
  BY DEF IInv, PreparedIsUnderWay, NothingLeft, LockIsDue, vars
<1> QED
  BY <1>1, <1>2 DEF IInv

THEOREM NextOK == IInv /\ [Next]_vars => IInv'
<1> SUFFICES ASSUME IInv, [Next]_vars PROVE IInv'
  OBVIOUS
<1>1. CASE ManagerNext
  <2>1. CASE ProcessExits
    BY <2>1, QuitOK DEF ProcessExits
  <2> QED
    BY <1>1, <2>1, RequestLogoutOK, EndQueryForLogoutOK, EndQueryForShutdownOK, CancelOK,
       RebootOrPoweroffDoneOK, PrepareForShutdownOK, EndSessionDoneOK, OnActiveChangedOK
    DEF ManagerNext
<1>2. CASE DaemonNext
  BY <1>2, DaemonNextOK
<1>3. CASE UNCHANGED vars
  BY <1>3, StutterOK
<1> QED
  BY <1>1, <1>2, <1>3 DEF Next, Stopped

THEOREM Inductive == Spec => []IInv
  BY InitOK, NextOK, PTL DEF Spec

\* The state stays within its types; calls and locks within the bound.
THEOREM TypeCorrect == Spec => []TypeOK
<1>1. IInv => TypeOK
  BY DEF IInv
<1> QED
  BY <1>1, Inductive, PTL

\* LockIsDue holds whatever backends there are and however many locks and calls
\* are under way: a failed, late or foreign answer leaves no claim behind and no
\* lock but those a second prepare_shutdown has overwritten (prepare_shutdown,
\* reboot_or_poweroff_done, sd_proxy_signal_cb).
THEOREM LockAlwaysDue == Spec => []LockIsDue
<1>1. IInv => LockIsDue
  BY DEF IInv
<1> QED
  BY <1>1, Inductive, PTL

-----------------------------------------------------------------------------
(* Down only after the end.  That the machine waits for the clients rests on  *)
(* a count: while the manager has asked for its locks, every call of its that *)
(* is unanswered, every failure it has not seen, and the shutdown it obtained *)
(* has a lock of its own, unless complete_shutdown() has let one go.          *)

\* The failed calls of which the manager has not heard.
ErrorsIn(b) == {i \in 1..Len(b) : b[i] = "error"}

\* complete_shutdown() has given the lock of the shutdown back.
Allowance == IF mgr.phase = "EXIT" /\ sys.delay_inhibit_fd = 0 THEN 1 ELSE 0

Own == IF daemon.operation = "own" THEN 1 ELSE 0

LocksCounted ==
  ~daemon.unlocked /\ mgr.phase # "GONE" =>
    daemon.calls + Cardinality(ErrorsIn(bus)) + Own <= Cardinality(daemon.locks) + Allowance

\* A process that is about to exit has been told to quit.
ExitQuits == mgr.phase = "EXIT" => mgr.quitting

CountInv == LocksCounted /\ ExitQuits /\ DownAfterEnd

\* A set of locks is finite; a lock more or less changes its size by one.
LEMMA LocksFinite ==
  ASSUME NEW S \in SUBSET Locks
  PROVE  /\ Cardinality(S) \in Nat
         /\ S = {} => Cardinality(S) = 0
         /\ \A x : /\ Cardinality(S \ {x}) \in Nat
                   /\ x \in S => Cardinality(S \ {x}) = Cardinality(S) - 1
                   /\ x \notin S => S \ {x} = S
         /\ \A x : x \notin S => Cardinality(S \cup {x}) = Cardinality(S) + 1
<1>1. IsFiniteSet(Locks)
  <2>1. 1 \in Int /\ MaxLocks \in Int
    BY MaxLocksAssumption
  <2> QED
    BY <2>1, FS_Interval, Zenon DEF Locks
<1>2. IsFiniteSet(S)
  BY <1>1, FS_Subset
<1>3. Cardinality(S) \in Nat
  BY <1>2, FS_CardinalityType
<1>4. S = {} => Cardinality(S) = 0
  BY FS_EmptySet
<1>5. ASSUME NEW x
      PROVE  /\ Cardinality(S \ {x}) \in Nat
             /\ x \in S => Cardinality(S \ {x}) = Cardinality(S) - 1
             /\ x \notin S => S \ {x} = S
             /\ x \notin S => Cardinality(S \cup {x}) = Cardinality(S) + 1
  <2>1. /\ IsFiniteSet(S \ {x})
        /\ Cardinality(S \ {x}) = IF x \in S THEN Cardinality(S) - 1 ELSE Cardinality(S)
    BY <1>2, FS_RemoveElement
  <2>2. Cardinality(S \cup {x}) = IF x \in S THEN Cardinality(S) ELSE Cardinality(S) + 1
    BY <1>2, FS_AddElement
  <2>3. Cardinality(S \ {x}) \in Nat
    BY <2>1, FS_CardinalityType
  <2> QED
    BY <2>1, <2>2, <2>3
<1> QED
  BY <1>3, <1>4, <1>5

\* The failures that wait are finitely many.
LEMMA ErrorsFinite ==
  ASSUME NEW b \in Seq(Messages)
  PROVE  IsFiniteSet(ErrorsIn(b)) /\ Cardinality(ErrorsIn(b)) \in Nat
<1>1. IsFiniteSet(1..Len(b))
  <2>1. 1 \in Int /\ Len(b) \in Int
    OBVIOUS
  <2> QED
    BY <2>1, FS_Interval, Zenon
<1>2. ErrorsIn(b) \subseteq 1..Len(b)
  BY DEF ErrorsIn
<1>3. IsFiniteSet(ErrorsIn(b))
  BY <1>1, <1>2, FS_Subset
<1> QED
  BY <1>3, FS_CardinalityType

\* To take a message takes a failure off exactly when it is one.
LEMMA ErrorsTaken ==
  ASSUME NEW b \in Seq(Messages), b # <<>>
  PROVE  Cardinality(ErrorsIn(b)) =
           IF Head(b) = "error" THEN Cardinality(ErrorsIn(Tail(b))) + 1
           ELSE Cardinality(ErrorsIn(Tail(b)))
<1> DEFINE T == ErrorsIn(Tail(b))
           R == ErrorsIn(b) \ {1}
           f == [i \in T |-> i + 1]
<1>0. /\ Tail(b) \in Seq(Messages) /\ Head(b) = b[1] /\ 1 \in 1..Len(b)
      /\ Len(b) \in Nat /\ Len(Tail(b)) = Len(b) - 1
      /\ \A i \in 1..Len(Tail(b)) : Tail(b)[i] = b[i + 1]
  OBVIOUS
<1>1. \A i \in T : i \in Nat /\ i + 1 \in R
  BY <1>0 DEF ErrorsIn
<1>2. \A j \in R : \E i \in T : i + 1 = j
  <2> SUFFICES ASSUME NEW j \in R PROVE \E i \in T : i + 1 = j
    OBVIOUS
  <2>1. j \in 1..Len(b) /\ j # 1 /\ b[j] = "error"
    BY DEF ErrorsIn
  <2>2. j - 1 \in 1..Len(Tail(b)) /\ (j - 1) + 1 = j
    BY <1>0, <2>1
  <2>3. Tail(b)[j - 1] = "error"
    BY <1>0, <2>1, <2>2
  <2>4. j - 1 \in T
    BY <2>2, <2>3 DEF ErrorsIn
  <2> QED
    BY <2>2, <2>4
<1>3. IsFiniteSet(T) /\ IsFiniteSet(ErrorsIn(b))
  BY <1>0, ErrorsFinite
<1>4. ExistsBijection(T, R)
  <2> HIDE DEF T, R
  <2>1. f \in [T -> R] /\ \A i \in T : f[i] = i + 1
    BY <1>1
  <2>2. \A x, y \in T : f[x] = f[y] => x = y
    BY <1>1, <2>1
  <2>3. \A j \in R : \E i \in T : f[i] = j
    BY <1>2, <2>1
  <2> HIDE DEF f
  <2>4. f \in Bijection(T, R)
    BY <2>1, <2>2, <2>3, Fun_IsBij, Zenon
  <2> QED
    BY <2>4, Zenon DEF ExistsBijection
<1>5. Cardinality(R) = Cardinality(T)
  BY <1>3, <1>4, FS_Bijection, Zenon
<1>6. Cardinality(R) = IF 1 \in ErrorsIn(b) THEN Cardinality(ErrorsIn(b)) - 1
                       ELSE Cardinality(ErrorsIn(b))
  BY <1>3, FS_RemoveElement, Zenon
<1>7. 1 \in ErrorsIn(b) <=> Head(b) = "error"
  BY <1>0 DEF ErrorsIn
<1>8. Cardinality(T) \in Nat /\ Cardinality(ErrorsIn(b)) \in Nat
  BY <1>0, ErrorsFinite
<1> HIDE DEF T, R
<1>9. Cardinality(ErrorsIn(b)) = IF Head(b) = "error" THEN Cardinality(T) + 1
                                 ELSE Cardinality(T)
  BY <1>5, <1>6, <1>7, <1>8
<1> QED
  BY <1>9 DEF T

\* To send one adds a failure exactly when it is one.
LEMMA ErrorsSent ==
  ASSUME bus \in Seq(Messages), NEW e \in Messages, mgr.phase # "GONE"
  PROVE  Cardinality(ErrorsIn(Sent(e))) =
           IF e = "error" THEN Cardinality(ErrorsIn(bus)) + 1 ELSE Cardinality(ErrorsIn(bus))
<1>1. /\ Len(bus) \in Nat /\ Len(Sent(e)) = Len(bus) + 1 /\ Sent(e)[Len(bus) + 1] = e
      /\ \A i \in 1..Len(bus) : Sent(e)[i] = bus[i]
  BY DEF Sent
<1>2. Len(bus) + 1 \notin ErrorsIn(bus)
  BY <1>1 DEF ErrorsIn
<1>3. ErrorsIn(Sent(e)) = IF e = "error" THEN ErrorsIn(bus) \cup {Len(bus) + 1}
                          ELSE ErrorsIn(bus)
  <2>1. \A i : i \in 1..Len(Sent(e)) <=> i \in 1..Len(bus) \/ i = Len(bus) + 1
    BY <1>1
  <2>2. \A i : i \in ErrorsIn(Sent(e)) <=>
                 i \in ErrorsIn(bus) \/ (i = Len(bus) + 1 /\ e = "error")
    BY <1>1, <2>1 DEF ErrorsIn
  <2> QED
    BY <2>2
<1>4. Cardinality(ErrorsIn(bus) \cup {Len(bus) + 1}) = Cardinality(ErrorsIn(bus)) + 1
  BY <1>2, ErrorsFinite, FS_AddElement
<1> QED
  BY <1>3, <1>4

\* The numbers the count is made of.
LEMMA CountNumbers ==
  ASSUME IInv
  PROVE  /\ daemon.calls \in Nat /\ Cardinality(ErrorsIn(bus)) \in Nat /\ Own \in 0..1
         /\ Cardinality(daemon.locks) \in Nat /\ Allowance \in 0..1
         /\ daemon.locks \in SUBSET Locks
<1>1. daemon \in DaemonStates /\ bus \in Seq(Messages)
  BY Types DEF IInv
<1>2. daemon.calls \in Nat /\ daemon.locks \in SUBSET Locks
  BY <1>1, MaxLocksAssumption DEF DaemonStates
<1>3. Own \in 0..1 /\ Allowance \in 0..1
  BY DEF Own, Allowance
<1> QED
  BY <1>1, <1>2, <1>3, ErrorsFinite, LocksFinite

\* A step after which the manager has asked for no more and given nothing back.
LEMMA CountUnchanged ==
  ASSUME IInv, LocksCounted, mgr.phase # "GONE", UNCHANGED <<daemon, bus>>,
         Allowance' \in Nat, Allowance <= Allowance'
  PROVE  LocksCounted'
<1>1. Own' = Own
  BY DEF Own
<1> QED
  BY <1>1, CountNumbers DEF LocksCounted

LEMMA RunningCount ==
  ASSUME IInv, LocksCounted, mgr.phase # "GONE", mgr.phase # "EXIT",
         UNCHANGED <<daemon, bus>>
  PROVE  LocksCounted'
<1>1. Allowance = 0 /\ Allowance' \in Nat
  BY DEF Allowance
<1> QED
  BY <1>1, CountUnchanged

\* A process that is gone is not counted.
LEMMA QuitCount == Quit /\ mgr \in MgrStates => LocksCounted'
  BY DEF Quit, Gone, LocksCounted, MgrStates

\* The shutdown is sent on: a call is added, and a lock with it.
LEMMA EndQueryCount == IInv /\ LocksCounted /\ EndQueryForShutdown => LocksCounted'
<1> SUFFICES ASSUME IInv, LocksCounted, EndQueryForShutdown PROVE LocksCounted'
  OBVIOUS
<1>0. /\ mgr.phase = "QUERY_END_SESSION" /\ bus' = bus
      /\ daemon \in DaemonStates
  BY Types DEF IInv, EndQueryForShutdown
<1>1. CASE \E fd \in Locks : PrepareWithLock(fd)
  <2>1. PICK fd \in Locks : PrepareWithLock(fd)
    BY <1>1
  <2>2. /\ daemon'.calls = daemon.calls + 1 /\ daemon'.locks = daemon.locks \cup {fd}
        /\ daemon'.operation = daemon.operation /\ daemon'.unlocked = daemon.unlocked
        /\ fd \notin daemon.locks
    BY <1>0, <2>1 DEF PrepareWithLock, DaemonStates
  <2>3. Cardinality(daemon'.locks) = Cardinality(daemon.locks) + 1
    BY <2>2, CountNumbers, LocksFinite
  <2>4. Own' = Own /\ Allowance = 0 /\ Allowance' \in Nat
    BY <1>0, <2>2 DEF Own, Allowance
  <2> QED
    BY <1>0, <2>2, <2>3, <2>4, CountNumbers DEF LocksCounted
<1>2. CASE PrepareWithoutLock /\ kind # "systemd"
  <2>1. daemon'.unlocked
    BY <1>0, <1>2 DEF PrepareWithoutLock, DaemonStates
  <2> QED
    BY <2>1 DEF LocksCounted
<1>3. CASE UNCHANGED daemon
  BY <1>0, <1>3, RunningCount
<1> QED
  BY <1>1, <1>2, <1>3 DEF EndQueryForShutdown, PrepareWithoutLock

\* A failure is taken in, and at most one lock is given back for it: none when
\* complete_shutdown() has given it back before.
LEMMA FailureCount == IInv /\ LocksCounted /\ RebootOrPoweroffDone => LocksCounted'
<1> SUFFICES ASSUME IInv, LocksCounted, RebootOrPoweroffDone, ~daemon'.unlocked
             PROVE  daemon'.calls + Cardinality(ErrorsIn(bus')) + Own'
                      <= Cardinality(daemon'.locks) + Allowance'
  BY DEF LocksCounted
<1>0. /\ mgr.phase # "GONE" /\ bus # <<>> /\ Head(bus) = "error" /\ bus' = Tail(bus)
      /\ daemon \in DaemonStates /\ bus \in Seq(Messages)
      /\ sys.delay_inhibit_fd \in 0..MaxLocks
  BY Types DEF IInv, RebootOrPoweroffDone, Dispatching, SysStates
<1>1. /\ daemon'.calls = daemon.calls /\ daemon'.operation = daemon.operation
      /\ daemon'.unlocked = daemon.unlocked
      /\ daemon'.locks = daemon.locks \ {sys.delay_inhibit_fd}
  BY <1>0 DEF RebootOrPoweroffDone, DropDelayInhibitor, DaemonStates
<1>2. Cardinality(ErrorsIn(bus)) = Cardinality(ErrorsIn(bus')) + 1
  BY <1>0, ErrorsTaken
<1>3. Cardinality(ErrorsIn(bus')) \in Nat
  BY <1>0, ErrorsFinite, TailOfBus
<1>4. Own' = Own /\ Allowance' \in 0..1
  BY <1>1 DEF Own, Allowance
<1>5. daemon.calls + Cardinality(ErrorsIn(bus)) + Own
        <= Cardinality(daemon.locks) + Allowance
  BY <1>0, <1>1 DEF LocksCounted
<1>6. CASE sys.delay_inhibit_fd = 0
  <2>1. 0 \notin daemon.locks
    BY CountNumbers, Bounds
  <2>2. daemon'.locks = daemon.locks
    BY <1>1, <1>6, <2>1
  <2> QED
    BY <1>1, <1>2, <1>3, <1>4, <1>5, <2>2, CountNumbers
<1>7. CASE sys.delay_inhibit_fd # 0
  <2>1. sys.delay_inhibit_fd \in daemon.locks
    BY <1>7 DEF IInv, LockIsDue
  <2>2. /\ Cardinality(daemon'.locks) = Cardinality(daemon.locks) - 1
        /\ Cardinality(daemon'.locks) \in Nat
    BY <1>1, <2>1, CountNumbers, LocksFinite
  <2>3. Allowance = 0
    BY <1>7 DEF Allowance
  <2> QED
    BY <1>1, <1>2, <1>3, <1>4, <1>5, <2>2, <2>3, CountNumbers
<1> QED
  BY <1>6, <1>7

\* PrepareForShutdown is no failure.
LEMMA PrepareCount == IInv /\ LocksCounted /\ PrepareForShutdown => LocksCounted'
<1> SUFFICES ASSUME IInv, LocksCounted, PrepareForShutdown PROVE LocksCounted'
  OBVIOUS
<1>0. /\ mgr.phase # "GONE" /\ bus # <<>> /\ Head(bus) = "prepare"
      /\ sys \in SysStates /\ mgr \in MgrStates /\ bus \in Seq(Messages)
  BY Types DEF IInv, PrepareForShutdown, Dispatching
<1>1. CASE Quit
  BY <1>0, <1>1, QuitCount
<1>2. CASE ~Quit
  <2>1. /\ bus' = Tail(bus) /\ UNCHANGED daemon
        /\ \/ UNCHANGED <<sys, mgr>>
           \/ /\ sys' = [sys EXCEPT !.prepare_for_shutdown_expected = FALSE]
              /\ \/ UNCHANGED mgr
                 \/ mgr.phase = "QUERY_END_SESSION"
    BY <1>2 DEF PrepareForShutdown, ShutdownPrepared
  <2>2. "prepare" # "error"
    OBVIOUS
  <2>3. Cardinality(ErrorsIn(bus')) = Cardinality(ErrorsIn(bus))
    BY <1>0, <2>1, <2>2, ErrorsTaken
  <2>4. Own' = Own /\ Allowance' \in 0..1 /\ Allowance <= Allowance'
    <3>1. sys'.delay_inhibit_fd = sys.delay_inhibit_fd
      BY <1>0, <2>1 DEF SysStates
    <3> QED
      BY <2>1, <3>1 DEF Own, Allowance
  <2> QED
    BY <1>0, <2>1, <2>3, <2>4, CountNumbers DEF LocksCounted
<1> QED
  BY <1>1, <1>2

\* complete_shutdown() gives one lock back, and that is allowed for.
LEMMA EndSessionDoneCount == IInv /\ LocksCounted /\ EndSessionDone => LocksCounted'
<1> SUFFICES ASSUME IInv, LocksCounted, EndSessionDone PROVE LocksCounted'
  OBVIOUS
<1>0. /\ mgr.phase = "END_SESSION" /\ bus' = bus
      /\ sys \in SysStates /\ mgr \in MgrStates /\ daemon \in DaemonStates
  BY Types DEF IInv, EndSessionDone
<1>1. CASE UNCHANGED daemon
  BY <1>0, <1>1, RunningCount
<1>2. CASE ~UNCHANGED daemon
  <2>1. /\ sys' = [sys EXCEPT !.delay_inhibit_fd = 0]
        /\ daemon' = [daemon EXCEPT !.locks = @ \ {sys.delay_inhibit_fd}]
        /\ mgr' = [mgr EXCEPT !.phase = "EXIT", !.quitting = TRUE]
    BY <1>2 DEF EndSessionDone
  <2>2. /\ daemon'.calls = daemon.calls /\ daemon'.operation = daemon.operation
        /\ daemon'.unlocked = daemon.unlocked
        /\ daemon'.locks = daemon.locks \ {sys.delay_inhibit_fd}
        /\ sys'.delay_inhibit_fd = 0 /\ mgr'.phase = "EXIT"
    BY <1>0, <2>1 DEF DaemonStates, SysStates, MgrStates
  <2>3. Own' = Own /\ Allowance = 0 /\ Allowance' = 1
    BY <1>0, <2>2 DEF Own, Allowance
  <2>4. /\ Cardinality(daemon'.locks) \in Nat
        /\ Cardinality(daemon'.locks) >= Cardinality(daemon.locks) - 1
    <3>1. CASE sys.delay_inhibit_fd \in daemon.locks
      <4>1. Cardinality(daemon.locks \ {sys.delay_inhibit_fd}) = Cardinality(daemon.locks) - 1
        BY <3>1, CountNumbers, LocksFinite
      <4> QED
        BY <2>2, <4>1, CountNumbers, LocksFinite
    <3>2. CASE sys.delay_inhibit_fd \notin daemon.locks
      <4>1. daemon.locks \ {sys.delay_inhibit_fd} = daemon.locks
        BY <3>2
      <4>2. daemon'.locks = daemon.locks
        BY <2>2, <4>1
      <4>3. Cardinality(daemon.locks) \in Nat
        BY CountNumbers
      <4> QED
        BY <4>2, <4>3
    <3> QED
      BY <3>1, <3>2
  <2> QED
    BY <1>0, <2>2, <2>3, <2>4, CountNumbers DEF LocksCounted
<1> QED
  BY <1>1, <1>2

\* Cancelling, or the failure of a shutdown, leads to no exit.
LEMMA CancelledExits ==
  ASSUME NEW m \in MgrStates
  PROVE  /\ CancelEndSession(m).phase = "RUNNING"
         /\ ShutdownFailed(m).phase = "EXIT" =>
              m.phase = "EXIT" /\ ShutdownFailed(m).quitting = m.quitting
<1>1. ASSUME NEW n \in MgrStates
      PROVE  CancelEndSession(n).phase = "RUNNING"
  BY DEF MgrStates, CancelEndSession
<1>2. [m EXCEPT !.prepared_handler = FALSE] \in MgrStates
  BY DEF MgrStates
<1> QED
  BY <1>1, <1>2 DEF ShutdownFailed

\* The manager reaches EXIT only with the end of a session, which quits.
LEMMA ManagerExits ==
  ASSUME mgr \in MgrStates, ManagerNext, mgr'.phase = "EXIT"
  PROVE  (mgr.phase = "EXIT" /\ mgr'.quitting = mgr.quitting) \/ mgr'.quitting
<1>1. ASSUME NEW type \in {"LOGOUT", "SHUTDOWN"}, RequestLogout(type) \/ EndQueryForLogout
      PROVE  FALSE
  BY <1>1 DEF RequestLogout, EndQueryForLogout, MgrStates
<1>2. ASSUME EndQueryForShutdown
      PROVE  FALSE
  <2> DEFINE m == [mgr EXCEPT !.prepared_handler = TRUE]
  <2>1. m \in MgrStates /\ m.phase # "EXIT"
    BY <1>2 DEF EndQueryForShutdown, MgrStates
  <2>2. mgr' = m \/ mgr' = ShutdownFailed(m)
    BY <1>2 DEF EndQueryForShutdown, PrepareWithLock, PrepareWithoutLock
  <2> HIDE DEF m
  <2> QED
    BY <2>1, <2>2, CancelledExits
<1>3. CASE Cancel
  BY <1>3, CancelledExits DEF Cancel
<1>4. CASE RebootOrPoweroffDone
  BY <1>4, CancelledExits DEF RebootOrPoweroffDone
<1>5. CASE PrepareForShutdown \/ ProcessExits
  BY <1>5 DEF PrepareForShutdown, ShutdownPrepared, ProcessExits, Quit, Gone, MgrStates
<1>6. CASE EndSessionDone
  BY <1>6 DEF EndSessionDone, MgrStates
<1>7. CASE OnActiveChanged
  BY <1>7 DEF OnActiveChanged
<1> QED
  BY <1>1, <1>2, <1>3, <1>4, <1>5, <1>6, <1>7 DEF ManagerNext

\* The manager's steps: while it runs, the machine is not down.
LEMMA ManagerCount == IInv /\ CountInv /\ ManagerNext => CountInv'
<1> SUFFICES ASSUME IInv, CountInv, ManagerNext PROVE CountInv'
  OBVIOUS
<1>0. /\ mgr.phase # "GONE" /\ daemon.down = FALSE
      /\ daemon \in DaemonStates /\ sys \in SysStates /\ mgr \in MgrStates
  BY Types DEF IInv, DaemonStates, ManagerNext, RequestLogout, EndQueryForLogout,
     EndQueryForShutdown, Cancel, RebootOrPoweroffDone, PrepareForShutdown, EndSessionDone,
     ProcessExits, OnActiveChanged, Dispatching
<1>1. daemon'.down = FALSE
  BY <1>0 DEF DaemonStates, ManagerNext, RequestLogout, EndQueryForLogout,
     EndQueryForShutdown, PrepareWithLock, PrepareWithoutLock, Cancel, RebootOrPoweroffDone,
     DropDelayInhibitor, PrepareForShutdown, ShutdownPrepared, EndSessionDone, ProcessExits,
     Quit, OnActiveChanged
<1>2. LocksCounted'
  <2>1. CASE (\E type \in {"LOGOUT", "SHUTDOWN"} : RequestLogout(type)) \/ EndQueryForLogout
              \/ Cancel
    BY <1>0, <2>1, RunningCount DEF CountInv, RequestLogout, EndQueryForLogout, Cancel
  <2>2. CASE OnActiveChanged
    <3>1. Allowance' = Allowance /\ UNCHANGED <<daemon, bus>>
      BY <1>0, <2>2 DEF OnActiveChanged, Allowance, SysStates
    <3> QED
      BY <1>0, <3>1, CountNumbers, CountUnchanged DEF CountInv
  <2>3. CASE ProcessExits
    BY <1>0, <2>3, QuitCount DEF ProcessExits
  <2> QED
    BY <2>1, <2>2, <2>3, EndQueryCount, FailureCount, PrepareCount, EndSessionDoneCount
    DEF ManagerNext, CountInv
<1>3. ExitQuits'
  <2>1. mgr'.phase = "EXIT" => \/ mgr.phase = "EXIT" /\ mgr'.quitting = mgr.quitting
                              \/ mgr'.quitting
    BY <1>0, ManagerExits
  <2> QED
    BY <2>1 DEF CountInv, ExitQuits
<1> QED
  BY <1>1, <1>2, <1>3 DEF CountInv, DownAfterEnd

\* The daemon's: it replaces a call by its failure or by the shutdown, and goes
\* down early only when no lock is left.
LEMMA DaemonCount == IInv /\ CountInv /\ DaemonNext => CountInv'
<1> SUFFICES ASSUME IInv, CountInv, DaemonNext PROVE CountInv'
  OBVIOUS
<1>0. /\ daemon \in DaemonStates /\ bus \in Seq(Messages) /\ UNCHANGED <<sys, mgr>>
      /\ "prepare" \in Messages /\ "error" \in Messages /\ "prepare" # "error"
  BY Types DEF IInv, Messages, DaemonNext, LoginAccepts, LoginRefuses, ForeignShutdown,
     DelayExpires, MachineGoesDown, SessionSwitches
<1>1. Allowance' = Allowance /\ ExitQuits'
  BY <1>0 DEF Allowance, CountInv, ExitQuits
<1>2. CASE LoginAccepts
  <2>1. /\ daemon'.calls = daemon.calls - 1 /\ daemon'.locks = daemon.locks
        /\ daemon'.unlocked = daemon.unlocked /\ ~daemon'.down
        /\ Own = 0 /\ Own' = 1
    BY <1>0, <1>2 DEF LoginAccepts, DaemonStates, Own
  <2>2. mgr.phase # "GONE" => Cardinality(ErrorsIn(bus')) = Cardinality(ErrorsIn(bus))
    BY <1>0, <1>2, ErrorsSent DEF LoginAccepts
  <2>3. LocksCounted'
    BY <1>0, <1>1, <2>1, <2>2, CountNumbers DEF CountInv, LocksCounted
  <2> QED
    BY <1>1, <2>1, <2>3 DEF CountInv, DownAfterEnd
<1>3. CASE LoginRefuses
  <2>1. /\ daemon'.calls = daemon.calls - 1 /\ daemon'.locks = daemon.locks
        /\ daemon'.unlocked = daemon.unlocked /\ ~daemon'.down
        /\ Own' = Own
    BY <1>0, <1>3 DEF LoginRefuses, DaemonStates, Own
  <2>2. mgr.phase # "GONE" => Cardinality(ErrorsIn(bus')) = Cardinality(ErrorsIn(bus)) + 1
    BY <1>0, <1>3, ErrorsSent DEF LoginRefuses
  <2>3. LocksCounted'
    BY <1>0, <1>1, <2>1, <2>2, CountNumbers DEF CountInv, LocksCounted
  <2> QED
    BY <1>1, <2>1, <2>3 DEF CountInv, DownAfterEnd
<1>4. CASE ForeignShutdown
  <2>1. /\ daemon'.calls = daemon.calls /\ daemon'.locks = daemon.locks
        /\ daemon'.unlocked = daemon.unlocked /\ ~daemon'.down
        /\ Own = 0 /\ Own' = 0
    BY <1>0, <1>4 DEF ForeignShutdown, DaemonStates, Own
  <2>2. mgr.phase # "GONE" => Cardinality(ErrorsIn(bus')) = Cardinality(ErrorsIn(bus))
    BY <1>0, <1>4, ErrorsSent DEF ForeignShutdown
  <2>3. LocksCounted'
    BY <1>0, <1>1, <2>1, <2>2, CountNumbers DEF CountInv, LocksCounted
  <2> QED
    BY <1>1, <2>1, <2>3 DEF CountInv, DownAfterEnd
<1>5. CASE DelayExpires
  <2>1. /\ daemon'.calls = daemon.calls /\ daemon'.locks = daemon.locks
        /\ daemon'.unlocked = daemon.unlocked /\ daemon'.expired
        /\ Own' = Own /\ bus' = bus
    BY <1>0, <1>5 DEF DelayExpires, DaemonStates, Own
  <2>2. LocksCounted'
    BY <1>0, <1>1, <2>1 DEF CountInv, LocksCounted
  <2> QED
    BY <1>1, <2>1, <2>2 DEF CountInv, DownAfterEnd
<1>6. CASE MachineGoesDown
  <2>1. /\ daemon'.calls = daemon.calls /\ daemon'.locks = daemon.locks
        /\ daemon'.unlocked = daemon.unlocked /\ daemon'.expired = daemon.expired
        /\ daemon'.operation = daemon.operation /\ bus' = bus
        /\ daemon.locks = {} \/ daemon.expired
    BY <1>0, <1>6 DEF MachineGoesDown, DaemonStates
  <2>2. LocksCounted'
    <3>1. Own' = Own
      BY <2>1 DEF Own
    <3> QED
      BY <1>0, <1>1, <2>1, <3>1 DEF CountInv, LocksCounted
  <2>3. ASSUME daemon.operation = "own", ~daemon.expired, ~daemon.unlocked,
               mgr.phase # "GONE"
        PROVE  mgr.quitting
    <3>1. Cardinality(daemon.locks) = 0
      BY <2>1, <2>3, CountNumbers, LocksFinite
    <3>2. Own = 1
      BY <2>3 DEF Own
    <3>3. Allowance = 1
      BY <2>3, <3>1, <3>2, CountNumbers DEF CountInv, LocksCounted
    <3> QED
      BY <3>3 DEF Allowance, CountInv, ExitQuits
  <2>4. DownAfterEnd'
    BY <1>0, <2>1, <2>3 DEF DownAfterEnd, Aborted
  <2> QED
    BY <1>1, <2>2, <2>4 DEF CountInv
<1>7. CASE SessionSwitches
  <2>1. UNCHANGED <<sys, mgr, daemon, bus>>
    BY <1>7 DEF SessionSwitches
  <2> QED
    BY <2>1 DEF CountInv, LocksCounted, ExitQuits, DownAfterEnd, Aborted, Own, Allowance
<1> QED
  BY <1>2, <1>3, <1>4, <1>5, <1>6, <1>7 DEF DaemonNext

LEMMA CountInit == Init => CountInv
<1> SUFFICES ASSUME Init PROVE CountInv
  OBVIOUS
<1>1. IInv
  BY InitOK
<1>2. daemon.calls = 0 /\ Own = 0 /\ daemon.down = FALSE
  BY DEF Init, Own
<1>3. ExitQuits
  BY DEF Init, ExitQuits
<1>4. Cardinality(ErrorsIn(bus)) = 0
  <2>1. ErrorsIn(bus) = {}
    BY EmptyBus DEF Init, ErrorsIn
  <2> QED
    BY <2>1, FS_EmptySet
<1> QED
  BY <1>1, <1>2, <1>3, <1>4, CountNumbers DEF CountInv, LocksCounted, DownAfterEnd

LEMMA CountNext == IInv /\ CountInv /\ [Next]_vars => CountInv'
<1> SUFFICES ASSUME IInv, CountInv, [Next]_vars PROVE CountInv'
  OBVIOUS
<1>1. CASE UNCHANGED vars
  BY <1>1 DEF vars, CountInv, LocksCounted, ExitQuits, DownAfterEnd, Aborted, Own, Allowance
<1> QED
  BY <1>1, ManagerCount, DaemonCount DEF Next, Stopped

\* DownAfterEnd holds for every backend and any number of locks and calls: when
\* this session's own shutdown, prepared with a lock, takes the machine down in
\* time, and on_shutdown_prepared() has not aborted the manager, the clients have
\* been ended (prepare_shutdown, complete_shutdown).
THEOREM DownOnlyAfterEnd == Spec => []DownAfterEnd
<1>1. CountInv => DownAfterEnd
  BY DEF CountInv
<1> QED
  BY <1>1, CountInit, CountNext, Inductive, PTL DEF Spec

-----------------------------------------------------------------------------
(* A shutdown is decided.                                                   *)

\* While the manager waits to hear that its shutdown is prepared, the backend
\* takes the next PrepareForShutdown for its own: the manager will hear of it.
HandlerExpects == kind # "null" /\ mgr.prepared_handler => sys.prepare_for_shutdown_expected

\* The shutdown has been handed to a backend that can do it, and is not decided.
Undecided ==
  kind # "null" /\ mgr.phase = "QUERY_END_SESSION" /\ mgr.prepared_handler /\ Dispatching

\* What the manager would dispatch next, and whether the daemon owes an answer.
HeadIs(message) == Dispatching /\ bus # <<>> /\ Head(bus) = message
LoginOwes == ~daemon.down /\ daemon.calls > 0

\* What cancels or fails takes the handler away, and ends a query.
LEMMA FailureDecides ==
  ASSUME NEW m \in MgrStates
  PROVE  /\ ShutdownFailed(m).prepared_handler = FALSE
         /\ m.prepared_handler => ShutdownFailed(m).phase = "RUNNING"
         /\ CancelEndSession(m).prepared_handler = m.prepared_handler
         /\ CancelEndSession(m).phase = "RUNNING"
<1>1. ASSUME NEW n \in MgrStates
      PROVE  /\ CancelEndSession(n).prepared_handler = n.prepared_handler
             /\ CancelEndSession(n).phase = "RUNNING"
  BY DEF MgrStates, CancelEndSession
<1>2. /\ [m EXCEPT !.prepared_handler = FALSE] \in MgrStates
      /\ [m EXCEPT !.prepared_handler = FALSE].prepared_handler = FALSE
  BY DEF MgrStates
<1>3. m.prepared_handler \in BOOLEAN
  BY DEF MgrStates
<1> QED
  BY <1>1, <1>2, <1>3 DEF ShutdownFailed

\* Ending a query for shutdown makes both wait, or neither; a failure ends it.
LEMMA EndQueryWaits ==
  ASSUME IInv, EndQueryForShutdown
  PROVE  /\ HandlerExpects'
         /\ UNCHANGED <<kind, bus>>
         /\ daemon'.down = daemon.down
         /\ kind # "null" =>
              \/ mgr'.prepared_handler /\ mgr'.phase = mgr.phase
              \/ mgr'.phase = "RUNNING"
<1> DEFINE m == [mgr EXCEPT !.prepared_handler = TRUE]
<1>1. mgr \in MgrStates /\ sys \in SysStates /\ daemon \in DaemonStates
  BY Types DEF IInv
<1>2. m \in MgrStates /\ m.prepared_handler = TRUE /\ m.phase = mgr.phase
  BY <1>1 DEF MgrStates
<1>3. UNCHANGED <<kind, bus>>
  BY DEF EndQueryForShutdown
<1>4. \/ kind # "null" /\ \E fd \in Locks : PrepareWithLock(fd)
      \/ kind # "null" /\ PrepareWithoutLock
      \/ kind = "null" /\ UNCHANGED daemon
  BY DEF EndQueryForShutdown
<1>5. CASE kind = "null" /\ UNCHANGED daemon
  BY <1>3, <1>5 DEF HandlerExpects
<1>6. ASSUME NEW fd \in Locks, PrepareWithLock(fd)
      PROVE  mgr' = m /\ sys'.prepare_for_shutdown_expected = TRUE
             /\ daemon'.down = daemon.down
  BY <1>1, <1>6 DEF PrepareWithLock, SysStates, DaemonStates
<1>7. CASE PrepareWithoutLock /\ kind = "systemd"
  <2>1. mgr' = ShutdownFailed(m) /\ UNCHANGED <<sys, daemon>>
    BY <1>7 DEF PrepareWithoutLock
  <2> HIDE DEF m
  <2> QED
    BY <1>2, <1>3, <2>1, FailureDecides DEF HandlerExpects
<1>8. CASE PrepareWithoutLock /\ kind # "systemd"
  <2>1. mgr' = m /\ sys'.prepare_for_shutdown_expected = TRUE
        /\ daemon'.down = daemon.down
    BY <1>1, <1>8 DEF PrepareWithoutLock, SysStates, DaemonStates
  <2> HIDE DEF m
  <2> QED
    BY <1>2, <1>3, <2>1 DEF HandlerExpects
<1> HIDE DEF m
<1> QED
  BY <1>2, <1>3, <1>4, <1>5, <1>6, <1>7, <1>8 DEF HandlerExpects

\* A failure that reaches the manager decides the query it waits in.
LEMMA ErrorDecides ==
  ASSUME IInv, RebootOrPoweroffDone
  PROVE  /\ mgr'.prepared_handler = FALSE
         /\ Undecided => mgr'.phase = "RUNNING"
<1>1. mgr \in MgrStates /\ mgr' = ShutdownFailed(mgr)
  BY Types DEF IInv, RebootOrPoweroffDone
<1> QED
  BY <1>1, FailureDecides DEF Undecided

\* A PrepareForShutdown that reaches the manager decides the query it waits in.
LEMMA PreparedDecides ==
  ASSUME IInv, HandlerExpects, PrepareForShutdown
  PROVE  /\ HandlerExpects'
         /\ Undecided => mgr'.phase # "QUERY_END_SESSION"
<1>1. mgr \in MgrStates /\ sys \in SysStates
  BY Types DEF IInv
<1>2. CASE ~sys.prepare_for_shutdown_expected
  BY <1>2 DEF PrepareForShutdown, HandlerExpects, Undecided
<1>3. CASE sys.prepare_for_shutdown_expected /\ Quit
  BY <1>1, <1>3 DEF Quit, Gone, MgrStates, HandlerExpects
<1>4. CASE sys.prepare_for_shutdown_expected /\ ~Quit
  <2>1. mgr' = IF mgr.prepared_handler
               THEN [mgr EXCEPT !.prepared_handler = FALSE, !.phase = "END_SESSION"]
               ELSE mgr
    BY <1>4 DEF PrepareForShutdown, ShutdownPrepared
  <2>2. mgr'.prepared_handler = FALSE /\ (mgr.prepared_handler => mgr'.phase = "END_SESSION")
    BY <1>1, <2>1 DEF MgrStates
  <2> QED
    BY <2>2 DEF HandlerExpects, Undecided
<1> QED
  BY <1>2, <1>3, <1>4

\* What the daemon sends is put behind what waits already.
LEMMA SentBehind ==
  ASSUME bus \in Seq(Messages), NEW e \in Messages
  PROVE  bus # <<>> => Sent(e) # <<>> /\ Head(Sent(e)) = Head(bus)
<1>1. ASSUME NEW b \in Seq(Messages), b # <<>>
      PROVE  Append(b, e) # <<>> /\ Head(Append(b, e)) = Head(b)
  <2>1. Len(Append(b, e)) = Len(b) + 1 /\ Len(b) > 0
    BY <1>1
  <2>2. Append(b, e)[1] = b[1]
    BY <2>1
  <2> QED
    BY <1>1, <2>1, <2>2
<1> QED
  BY <1>1 DEF Sent

\* A step of the daemon leaves the manager alone and the head of the bus in place.
LEMMA DaemonStays ==
  ASSUME IInv, DaemonNext
  PROVE  /\ UNCHANGED <<kind, mgr>>
         /\ HandlerExpects => HandlerExpects'
         /\ bus # <<>> => bus' # <<>> /\ Head(bus') = Head(bus)
         /\ (LoginAccepts \/ LoginRefuses) /\ mgr.phase # "GONE" => bus' # <<>>
<1>1. bus \in Seq(Messages) /\ "prepare" \in Messages /\ "error" \in Messages
  BY Types DEF IInv, Messages
<1>2. UNCHANGED <<kind, mgr>>
  BY DEF DaemonNext, LoginAccepts, LoginRefuses, ForeignShutdown, DelayExpires,
     MachineGoesDown, SessionSwitches
<1>3. UNCHANGED sys
  BY DEF DaemonNext, LoginAccepts, LoginRefuses, ForeignShutdown, DelayExpires,
     MachineGoesDown, SessionSwitches
<1>4. UNCHANGED bus \/ \E e \in Messages : bus' = Sent(e)
  BY <1>1 DEF DaemonNext, LoginAccepts, LoginRefuses, ForeignShutdown, DelayExpires,
     MachineGoesDown, SessionSwitches
<1>5. LoginAccepts \/ LoginRefuses => \E e \in Messages : bus' = Sent(e)
  BY <1>1 DEF LoginAccepts, LoginRefuses
<1>6. HandlerExpects => HandlerExpects'
  BY <1>2, <1>3 DEF HandlerExpects
<1>7. bus # <<>> => bus' # <<>> /\ Head(bus') = Head(bus)
  BY <1>1, <1>4, SentBehind
<1>8. (LoginAccepts \/ LoginRefuses) /\ mgr.phase # "GONE" => bus' # <<>>
  BY <1>1, <1>5, SentOnBus
<1> QED
  BY <1>2, <1>6, <1>7, <1>8

\* An undecided shutdown stays so, with the same message at the head, until it is
\* decided or the machine goes down.
LEMMA StaysUndecided ==
  ASSUME IInv, HandlerExpects, [Next]_vars
  PROVE  /\ HandlerExpects'
         /\ Undecided =>
              \/ mgr'.phase # "QUERY_END_SESSION" \/ daemon'.down
              \/ /\ Undecided'
                 /\ bus # <<>> => bus' # <<>> /\ Head(bus') = Head(bus)
<1> DEFINE Stay == bus # <<>> => bus' # <<>> /\ Head(bus') = Head(bus)
           Decided == mgr'.phase # "QUERY_END_SESSION" \/ daemon'.down
<1>0. mgr \in MgrStates /\ sys \in SysStates /\ daemon \in DaemonStates
      /\ daemon'.down \in BOOLEAN
  BY Types, TypesNext, NextOK DEF IInv, DaemonStates
<1>1. ASSUME UNCHANGED <<kind, mgr, bus>>, sys'.prepare_for_shutdown_expected
               = sys.prepare_for_shutdown_expected
      PROVE  HandlerExpects' /\ (Undecided => Decided \/ (Undecided' /\ Stay))
  BY <1>1 DEF HandlerExpects, Undecided, Dispatching
<1>2. ASSUME UNCHANGED <<kind, sys>>, mgr'.prepared_handler = mgr.prepared_handler,
             mgr.phase = "RUNNING" \/ mgr'.phase # "QUERY_END_SESSION"
      PROVE  HandlerExpects' /\ (Undecided => Decided)
  BY <1>2 DEF HandlerExpects, Undecided
<1>3. ASSUME NEW type \in {"LOGOUT", "SHUTDOWN"}, RequestLogout(type) \/ EndQueryForLogout
      PROVE  HandlerExpects' /\ (Undecided => Decided)
  <2>1. UNCHANGED <<kind, sys>> /\ mgr'.prepared_handler = mgr.prepared_handler
    BY <1>0, <1>3 DEF RequestLogout, EndQueryForLogout, MgrStates
  <2>2. mgr.phase = "RUNNING" \/ mgr'.phase # "QUERY_END_SESSION"
    BY <1>0, <1>3 DEF RequestLogout, EndQueryForLogout, MgrStates
  <2> QED
    BY <1>2, <2>1, <2>2
<1>4. CASE EndQueryForShutdown
  BY <1>4, EndQueryWaits DEF Undecided, Dispatching
<1>5. CASE Cancel
  BY <1>0, <1>2, <1>5, FailureDecides DEF Cancel
<1>6. CASE RebootOrPoweroffDone
  BY <1>6, ErrorDecides DEF HandlerExpects
<1>7. CASE PrepareForShutdown
  BY <1>7, PreparedDecides
<1>8. CASE EndSessionDone
  <2>1. /\ UNCHANGED kind /\ mgr'.prepared_handler = mgr.prepared_handler
        /\ mgr.phase = "END_SESSION"
        /\ sys'.prepare_for_shutdown_expected = sys.prepare_for_shutdown_expected
    BY <1>0, <1>8 DEF EndSessionDone, MgrStates, SysStates
  <2> QED
    BY <2>1 DEF HandlerExpects, Undecided
<1>9. CASE ProcessExits
  <2>1. mgr'.prepared_handler = FALSE /\ mgr'.phase = "GONE"
    BY <1>0, <1>9 DEF ProcessExits, Quit, Gone, MgrStates
  <2> QED
    BY <2>1 DEF HandlerExpects
<1>10. CASE OnActiveChanged
  BY <1>0, <1>1, <1>10 DEF OnActiveChanged, SysStates
<1>11. CASE DaemonNext
  BY <1>11, DaemonStays DEF Undecided, Dispatching
<1>12. CASE Stopped \/ UNCHANGED vars
  BY <1>1, <1>12 DEF Stopped, vars
<1> HIDE DEF Stay, Decided
<1>13. CASE ManagerNext
  BY <1>3, <1>4, <1>5, <1>6, <1>7, <1>8, <1>9, <1>10, <1>13 DEF ManagerNext, Stay, Decided
<1> QED
  BY <1>11, <1>12, <1>13 DEF Next, Stay, Decided

\* In every reachable state the backend expects what the manager waits for.
LEMMA AlwaysExpects == Spec => []HandlerExpects
<1>1. Init => HandlerExpects
  BY DEF Init, HandlerExpects
<1>2. IInv /\ HandlerExpects /\ [Next]_vars => HandlerExpects'
  BY StaysUndecided
<1> QED
  BY <1>1, <1>2, Inductive, PTL DEF Spec

\* The main loop dispatches the answers that have come, and the login daemon
\* answers: the fairness of FairSpec, with the guards of the actions, each of which
\* can be taken and changes the state whenever its guard holds, in place of ENABLED.
AnswersAreDispatched ==
  /\ []<>~HeadIs("error") \/ []<><<RebootOrPoweroffDone>>_vars
  /\ []<>~HeadIs("prepare") \/ []<><<PrepareForShutdown>>_vars
LoginAnswers == []<>~LoginOwes \/ []<><<LoginAccepts \/ LoginRefuses>>_vars

\* A shutdown handed to a backend that can do it is decided, if the daemon answers
\* and the answer is dispatched, with any number of calls, locks and other people's
\* shutdowns before it (scsm_systemd_prepare_shutdown, reboot_or_poweroff_done,
\* sd_proxy_signal_cb).
THEOREM ShutdownsAreDecided ==
  Spec /\ AnswersAreDispatched /\ LoginAnswers => ShutdownIsDecided
<1> DEFINE P == kind # "null" /\ mgr.phase = "QUERY_END_SESSION" /\ mgr.prepared_handler
           Q == mgr.phase # "QUERY_END_SESSION" \/ daemon.down
           U == Undecided
           H == HandlerExpects
           E == HeadIs("error")
           S == HeadIs("prepare")
           L == LoginOwes
<1>1. IInv => (P => Q \/ U)
  <2>1. SUFFICES ASSUME IInv, P, ~Q PROVE U
    OBVIOUS
  <2> QED
    BY <2>1, Types DEF IInv, DaemonStates, Undecided, Dispatching
<1>2. IInv /\ H => (U => E \/ S \/ L)
  <2>1. SUFFICES ASSUME IInv, H, U PROVE E \/ S \/ L
    OBVIOUS
  <2>2. sys.prepare_for_shutdown_expected /\ Dispatching
    BY <2>1 DEF HandlerExpects, Undecided
  <2>3. daemon.calls > 0 \/ bus # <<>>
    BY <2>1, <2>2 DEF IInv, LockIsDue
  <2>4. bus # <<>> => Head(bus) \in {"error", "prepare"}
    BY <2>1, Types DEF IInv, Messages
  <2> QED
    BY <2>2, <2>3, <2>4 DEF HeadIs, LoginOwes, Dispatching
<1>3. IInv /\ H /\ [Next]_vars => (U => Q' \/ U')
  BY StaysUndecided
<1>4. IInv /\ H /\ [Next]_vars => (U /\ E => Q' \/ E')
  BY StaysUndecided DEF HeadIs, Undecided
<1>5. IInv /\ H /\ [Next]_vars => (U /\ S => Q' \/ S')
  BY StaysUndecided DEF HeadIs, Undecided
<1>6. IInv /\ H /\ <<RebootOrPoweroffDone>>_vars => (U => Q')
  BY ErrorDecides
<1>7. IInv /\ H /\ <<PrepareForShutdown>>_vars => (U => Q')
  BY PreparedDecides
<1>8. IInv /\ H /\ [Next]_vars /\ <<LoginAccepts \/ LoginRefuses>>_vars => (U => Q' \/ E' \/ S')
  <2>1. SUFFICES ASSUME IInv, H, [Next]_vars, LoginAccepts \/ LoginRefuses, U, ~Q'
                 PROVE  E' \/ S'
    OBVIOUS
  <2>2. bus' # <<>>
    BY <2>1, DaemonStays DEF DaemonNext, Undecided, Dispatching
  <2>3. Undecided'
    BY <2>1, StaysUndecided
  <2>4. Head(bus') \in {"error", "prepare"}
    BY <2>1, <2>2, NextOK, TypesNext DEF IInv, Messages
  <2> QED
    BY <2>2, <2>3, <2>4 DEF HeadIs, Undecided
<1> HIDE DEF P, Q, U, H, E, S, L
<1>9. []IInv /\ []H /\ [][Next]_vars
      /\ ([]<>~E \/ []<><<RebootOrPoweroffDone>>_vars)
      /\ ([]<>~S \/ []<><<PrepareForShutdown>>_vars)
      /\ ([]<>~L \/ []<><<LoginAccepts \/ LoginRefuses>>_vars)
        => (P ~> Q)
  BY <1>1, <1>2, <1>3, <1>4, <1>5, <1>6, <1>7, <1>8, PTL
<1> QED
  BY <1>9, Inductive, AlwaysExpects, PTL
     DEF Spec, AnswersAreDispatched, LoginAnswers, ShutdownIsDecided, P, Q, H, E, S, L
=============================================================================
