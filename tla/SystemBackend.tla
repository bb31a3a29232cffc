---------------------------- MODULE SystemBackend ----------------------------
(* The shutdown of the machine as the session manager's system backend drives *)
(* it (scsm-systemd.c, scsm-consolekit.c, the null backend of scsm-system.c): *)
(* the delay lock it takes from the login daemon, the Reboot or PowerOff call *)
(* and its late answer, PrepareForShutdown, and what the daemon does for this *)
(* session or at the request of somebody else.  Of the manager there is what  *)
(* starts, cancels and ends a logout; clients and dialogs are in EndSession.  *)
(* Definitions named Mutant... are plausible bugs that no behaviour uses.     *)
EXTENDS Naturals, FiniteSets, Sequences

CONSTANTS
  Kinds,      \* the backends scsm_get_system() may find
  MaxLocks    \* bound on delay locks open at once, and on calls and answers under way

ASSUME KindsAssumption == Kinds \subseteq {"systemd", "consolekit", "null"}
ASSUME MaxLocksAssumption == MaxLocks \in Nat \ {0}

VARIABLES
  kind,     \* the backend in use
  sys,      \* its private state: delay_inhibit_fd (0: -1), prepare_for_shutdown_expected, is_active
  mgr,      \* the manager: phase, logout_type, whether on_shutdown_prepared is connected, quitting
  daemon,   \* the login daemon: open locks of this session, unanswered calls, shutdown under
            \* way; and, for the properties, which of the locks the backend has overwritten
  bus,      \* what the daemon has sent and the manager has not seen, in order
  seat      \* whether the session is in the foreground, and a change the backend has not seen

vars == <<kind, sys, mgr, daemon, bus, seat>>

Locks == 1..MaxLocks
Phases == {"RUNNING", "QUERY_END_SESSION", "END_SESSION", "EXIT", "GONE"}

\* The process runs until it has quit or died, or the machine has gone down.
Dispatching == mgr.phase # "GONE" /\ ~daemon.down

-----------------------------------------------------------------------------
\* The process ends, in whatever way, and the kernel closes its descriptors.
Gone(m) == [m EXCEPT !.phase = "GONE", !.prepared_handler = FALSE]

Quit ==
  /\ mgr' = Gone(mgr)
  /\ sys' = [sys EXCEPT !.delay_inhibit_fd = 0, !.prepare_for_shutdown_expected = FALSE]
  /\ daemon' = [daemon EXCEPT !.locks = {}, !.overwritten = {}]
  /\ bus' = <<>>
  /\ UNCHANGED <<kind, seat>>

MutantDropDelayInhibitor ==
  /\ sys' = [sys EXCEPT !.prepare_for_shutdown_expected = FALSE]
  /\ UNCHANGED daemon

\* drop_delay_inhibitor()
DropDelayInhibitor ==
  /\ sys' = [sys EXCEPT !.delay_inhibit_fd = 0, !.prepare_for_shutdown_expected = FALSE]
  /\ daemon' = [daemon EXCEPT !.locks = @ \ {sys.delay_inhibit_fd}]

\* cancel_end_session() and start_phase() of RUNNING.
CancelEndSession(m) ==
  IF m.phase = "RUNNING" THEN m ELSE [m EXCEPT !.phase = "RUNNING", !.logout_type = "NONE"]

\* on_shutdown_prepared(FALSE), if it is connected.
ShutdownFailed(m) ==
  IF m.prepared_handler THEN CancelEndSession([m EXCEPT !.prepared_handler = FALSE]) ELSE m

\* on_shutdown_prepared(TRUE): the assertion aborts outside of the query phase.
ShutdownPrepared ==
  IF mgr.prepared_handler /\ mgr.phase # "QUERY_END_SESSION" THEN Quit
  ELSE /\ mgr' = IF mgr.prepared_handler
                 THEN [mgr EXCEPT !.prepared_handler = FALSE, !.phase = "END_SESSION"]
                 ELSE mgr
       /\ sys' = [sys EXCEPT !.prepare_for_shutdown_expected = FALSE]
       /\ bus' = Tail(bus)
       /\ UNCHANGED <<kind, daemon, seat>>

-----------------------------------------------------------------------------
Init ==
  /\ kind \in Kinds
  /\ sys = [delay_inhibit_fd |-> 0, prepare_for_shutdown_expected |-> FALSE,
            is_active |-> TRUE]
  /\ mgr = [phase |-> "RUNNING", logout_type |-> "NONE", prepared_handler |-> FALSE,
            quitting |-> FALSE]
  /\ daemon = [locks |-> {}, overwritten |-> {}, calls |-> 0, operation |-> "none",
               expired |-> FALSE, unlocked |-> FALSE, down |-> FALSE]
  /\ bus = <<>>
  /\ seat \in [foreground : BOOLEAN, changed : {FALSE}]

\* Shutdown(), Reboot() or Logout() in a running session.
RequestLogout(type) ==
  /\ Dispatching /\ ~mgr.quitting
  /\ mgr.phase = "RUNNING"
  /\ mgr' = [mgr EXCEPT !.phase = "QUERY_END_SESSION", !.logout_type = type]
  /\ UNCHANGED <<kind, sys, daemon, bus, seat>>

\* A plain logout is confirmed, or all clients have answered it.
EndQueryForLogout ==
  /\ Dispatching
  /\ mgr.phase = "QUERY_END_SESSION"
  /\ mgr' = [mgr EXCEPT !.phase = "END_SESSION", !.logout_type = "LOGOUT"]
  /\ UNCHANGED <<kind, sys, daemon, bus, seat>>

MutantPrepareWithLock(fd) ==
  /\ daemon.operation = "none"
  /\ fd \notin daemon.locks
  /\ \A other \in Locks \ daemon.locks : fd <= other
  /\ sys' = [sys EXCEPT !.delay_inhibit_fd = fd]
  /\ daemon' = [daemon EXCEPT !.locks = @ \cup {fd}, !.calls = @ + 1,
                              !.overwritten = @ \cup ({sys.delay_inhibit_fd} \ {0})]
  /\ mgr' = [mgr EXCEPT !.prepared_handler = TRUE]

\* The login daemon grants the delay lock, and the call is sent.  A lock that is
\* still held is overwritten, and stays open.
PrepareWithLock(fd) ==
  /\ daemon.operation = "none"
  /\ fd \notin daemon.locks
  /\ \A other \in Locks \ daemon.locks : fd <= other
  /\ sys' = [sys EXCEPT !.delay_inhibit_fd = fd, !.prepare_for_shutdown_expected = TRUE]
  /\ daemon' = [daemon EXCEPT !.locks = @ \cup {fd}, !.calls = @ + 1,
                              !.overwritten = @ \cup ({sys.delay_inhibit_fd} \ {0})]
  /\ mgr' = [mgr EXCEPT !.prepared_handler = TRUE]

\* The login daemon refuses the lock, as it does while a shutdown is under way.
\* scsm_systemd_prepare_shutdown() gives up, from within the call; the other
\* backend goes on without a lock.
PrepareWithoutLock ==
  IF kind = "systemd"
  THEN /\ mgr' = ShutdownFailed([mgr EXCEPT !.prepared_handler = TRUE])
       /\ UNCHANGED <<sys, daemon>>
  ELSE /\ mgr' = [mgr EXCEPT !.prepared_handler = TRUE]
       /\ sys' = [sys EXCEPT !.prepare_for_shutdown_expected = TRUE]
       /\ daemon' = [daemon EXCEPT !.calls = @ + 1, !.unlocked = TRUE]

\* The query phase of a shutdown ends: by the clients' answers, by the dialog,
\* or by another Shutdown() call, while an earlier one may still be prepared.
\* MaxLocks bounds the calls that are unanswered, or whose answer is not yet read.
EndQueryForShutdown ==
  /\ Dispatching
  /\ mgr.phase = "QUERY_END_SESSION"
  /\ mgr.logout_type = "SHUTDOWN"
  /\ daemon.calls + Len(bus) < MaxLocks
  /\ \/ kind # "null" /\ \E fd \in Locks : PrepareWithLock(fd)
     \/ kind # "null" /\ PrepareWithoutLock
     \/ /\ kind = "null"
        /\ mgr' = [mgr EXCEPT !.prepared_handler = TRUE]
        /\ UNCHANGED <<sys, daemon>>
  /\ UNCHANGED <<kind, bus, seat>>

\* Cancelled by the user in the dialog, or by an XSMP client: nothing is said
\* to the backend.
Cancel ==
  /\ Dispatching /\ ~mgr.quitting
  /\ mgr.phase \in {"QUERY_END_SESSION", "END_SESSION"}
  /\ mgr' = CancelEndSession(mgr)
  /\ UNCHANGED <<kind, sys, daemon, bus, seat>>

\* reboot_or_poweroff_done() of a call that failed; of one that succeeded
\* nothing is left to do.
RebootOrPoweroffDone ==
  /\ Dispatching
  /\ bus # <<>> /\ Head(bus) = "error"
  /\ DropDelayInhibitor
  /\ mgr' = ShutdownFailed(mgr)
  /\ bus' = Tail(bus)
  /\ UNCHANGED <<kind, seat>>

MutantPrepareForShutdown ==
  /\ Dispatching
  /\ bus # <<>> /\ Head(bus) = "prepare"
  /\ IF sys.prepare_for_shutdown_expected
     THEN /\ mgr' = [mgr EXCEPT !.prepared_handler = FALSE, !.phase = "END_SESSION"]
          /\ DropDelayInhibitor
          /\ bus' = Tail(bus) /\ UNCHANGED <<kind, seat>>
     ELSE bus' = Tail(bus) /\ UNCHANGED <<kind, sys, mgr, daemon, seat>>

\* sd_proxy_signal_cb(), ck_proxy_signal_cb(): whoever asked for the shutdown.
PrepareForShutdown ==
  /\ Dispatching
  /\ bus # <<>> /\ Head(bus) = "prepare"
  /\ IF sys.prepare_for_shutdown_expected
     THEN ShutdownPrepared
     ELSE bus' = Tail(bus) /\ UNCHANGED <<kind, sys, mgr, daemon, seat>>

\* The clients have been ended: complete_shutdown() unless it is a plain logout.
EndSessionDone ==
  /\ Dispatching
  /\ mgr.phase = "END_SESSION"
  /\ mgr' = [mgr EXCEPT !.phase = "EXIT", !.quitting = TRUE]
  /\ IF mgr.logout_type = "SHUTDOWN"
     THEN /\ sys' = [sys EXCEPT !.delay_inhibit_fd = 0]
          /\ daemon' = [daemon EXCEPT !.locks = @ \ {sys.delay_inhibit_fd}]
     ELSE UNCHANGED <<sys, daemon>>
  /\ UNCHANGED <<kind, bus, seat>>

\* scsm_quit() leaves the main loop, and main() returns.
ProcessExits == Dispatching /\ mgr.quitting /\ Quit

\* on_sd_source_changed(), ck_session_proxy_signal_cb()
OnActiveChanged ==
  /\ Dispatching
  /\ seat.changed
  /\ sys' = [sys EXCEPT !.is_active = seat.foreground]
  /\ seat' = [seat EXCEPT !.changed = FALSE]
  /\ UNCHANGED <<kind, mgr, daemon, bus>>

-----------------------------------------------------------------------------
\* What the daemon sends reaches a process that is there.
Sent(message) == IF mgr.phase = "GONE" THEN bus ELSE Append(bus, message)

\* The login daemon accepts a call of this session, when polkit has let it:
\* it announces the shutdown to everybody.
LoginAccepts ==
  /\ ~daemon.down /\ daemon.calls > 0 /\ daemon.operation = "none"
  /\ daemon' = [daemon EXCEPT !.calls = @ - 1, !.operation = "own"]
  /\ bus' = Sent("prepare")
  /\ UNCHANGED <<kind, sys, mgr, seat>>

\* It refuses a call: the user may not, or a shutdown is under way already.
LoginRefuses ==
  /\ ~daemon.down /\ daemon.calls > 0
  /\ daemon' = [daemon EXCEPT !.calls = @ - 1]
  /\ bus' = Sent("error")
  /\ UNCHANGED <<kind, sys, mgr, seat>>

\* Another session, or the administrator, shuts the machine down.
ForeignShutdown ==
  /\ ~daemon.down /\ daemon.operation = "none" /\ kind # "null"
  /\ daemon' = [daemon EXCEPT !.operation = "foreign"]
  /\ bus' = Sent("prepare")
  /\ UNCHANGED <<kind, sys, mgr, seat>>

\* InhibitDelayMaxSec is over: locks are not waited for any longer.
DelayExpires ==
  /\ daemon.operation # "none" /\ ~daemon.expired
  /\ daemon' = [daemon EXCEPT !.expired = TRUE]
  /\ UNCHANGED <<kind, sys, mgr, bus, seat>>

MachineGoesDown ==
  /\ daemon.operation # "none" /\ ~daemon.down
  /\ daemon.locks = {} \/ daemon.expired
  /\ daemon' = [daemon EXCEPT !.down = TRUE]
  /\ UNCHANGED <<kind, sys, mgr, bus, seat>>

\* The user switches to another session or back.
SessionSwitches ==
  /\ ~daemon.down /\ kind # "null" /\ ~seat.changed
  /\ seat' = [foreground |-> ~seat.foreground, changed |-> TRUE]
  /\ UNCHANGED <<kind, sys, mgr, daemon, bus>>

Stopped == ~Dispatching /\ UNCHANGED vars

ManagerNext ==
  \/ \E type \in {"LOGOUT", "SHUTDOWN"} : RequestLogout(type)
  \/ EndQueryForLogout \/ EndQueryForShutdown \/ Cancel
  \/ RebootOrPoweroffDone \/ PrepareForShutdown
  \/ EndSessionDone \/ ProcessExits \/ OnActiveChanged

DaemonNext ==
  \/ LoginAccepts \/ LoginRefuses \/ ForeignShutdown
  \/ DelayExpires \/ MachineGoesDown \/ SessionSwitches

Next == ManagerNext \/ DaemonNext \/ Stopped

Spec == Init /\ [][Next]_vars

\* The main loop dispatches what has arrived, a quitting process ends, and the
\* login daemon answers every call it is sent.
Fairness ==
  /\ WF_vars(RebootOrPoweroffDone) /\ WF_vars(PrepareForShutdown)
  /\ WF_vars(ProcessExits)
  /\ WF_vars(LoginAccepts \/ LoginRefuses)

FairSpec == Spec /\ Fairness

-----------------------------------------------------------------------------
\* The state stays within its types and bounds.
TypeOK ==
  /\ kind \in Kinds
  /\ sys \in [delay_inhibit_fd : 0..MaxLocks, prepare_for_shutdown_expected : BOOLEAN,
              is_active : BOOLEAN]
  /\ mgr \in [phase : Phases, logout_type : {"NONE", "LOGOUT", "SHUTDOWN"},
              prepared_handler : BOOLEAN, quitting : BOOLEAN]
  /\ daemon \in [locks : SUBSET Locks, overwritten : SUBSET Locks, calls : 0..MaxLocks,
                 operation : {"none", "own", "foreign"}, expired : BOOLEAN,
                 unlocked : BOOLEAN, down : BOOLEAN]
  /\ bus \in Seq({"prepare", "error"})
  /\ seat \in [foreground : BOOLEAN, changed : BOOLEAN]

\* A lock of this session is open, or the backend takes the next
\* PrepareForShutdown for its own, only while the daemon owes it an answer or the
\* machine is going down: no later shutdown by somebody else is delayed or
\* mistaken for one it asked for (prepare_shutdown, reboot_or_poweroff_done,
\* sd_proxy_signal_cb).  Except for the locks that a second prepare_shutdown has
\* overwritten: those stay open, and delay every later shutdown, until the
\* process ends.
LockIsDue ==
  /\ daemon.locks \subseteq {sys.delay_inhibit_fd} \cup daemon.overwritten
  /\ sys.delay_inhibit_fd # 0 =>
       /\ sys.delay_inhibit_fd \in daemon.locks
       /\ daemon.calls > 0 \/ bus # <<>> \/ daemon.operation # "none"
  /\ sys.prepare_for_shutdown_expected => daemon.calls > 0 \/ bus # <<>>

\* The assertion in on_shutdown_prepared() has ended the process.
Aborted == mgr.phase = "GONE" /\ ~mgr.quitting

\* When the machine goes down at the request of this session, which got its
\* lock, before the delay has expired, the manager has gone through its
\* END_SESSION phase: the clients have been told, and waited for.  Except when it
\* aborts, having cancelled the shutdown that is then prepared: the locks are
\* closed with the process, and the clients are lost with the machine.
DownAfterEnd ==
  daemon.down /\ daemon.operation = "own" /\ ~daemon.expired /\ ~daemon.unlocked /\ ~Aborted
    => mgr.quitting

\* A shutdown that has been handed to a backend that can do it is decided: the
\* session ends, is cancelled, or the machine goes down.
ShutdownIsDecided ==
  kind # "null" /\ mgr.phase = "QUERY_END_SESSION" /\ mgr.prepared_handler
    ~> mgr.phase # "QUERY_END_SESSION" \/ daemon.down
=============================================================================
