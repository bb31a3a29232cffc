------------------------------- MODULE Leader -------------------------------
(***************************************************************************)
(* A session managed by systemd has two processes that only watch each     *)
(* other through a fifo: the leader (systemd_leader_run() in main.c),      *)
(* which belongs to the login, and the monitor (do_monitor_leader() in     *)
(* scarecrow-session-ctl.c), a service of the user's systemd that is       *)
(* stopped after all others. The fifo's file outlives them; what was       *)
(* written does not.                                                       *)
(*                                                                         *)
(* Definitions named Mutant... are plausible bugs; no behaviour uses them. *)
(***************************************************************************)
EXTENDS Naturals

CONSTANTS
  MaxLogins,  \* bounds how often the user logs in
  Faults      \* may processes be killed and calls fail?
ASSUME LeaderAssumption == MaxLogins \in Nat \ {0} /\ Faults \in BOOLEAN

VARIABLES
  leader,   \* the leader process
  monitor,  \* the monitor process
  bytes,    \* bytes in the fifo
  session,  \* the user's services: LAST when only the monitor is left to stop
  logins
vars == <<leader, monitor, bytes, session, logins>>

\* OPENING: blocked in open(), with the default actions of signals.
\* UNWATCHED: the fifo could not be opened. ENDING: the main loop has been left.
Leaders == {"NONE", "OPENING", "WATCHING", "SIGNALLED", "UNWATCHED"}
Monitors == {"NONE", "OPENING", "WATCHING", "UNWATCHED", "ENDING", "ENDED", "KILLED"}

Writing == leader \in {"WATCHING", "SIGNALLED"}
Reading == monitor \in {"WATCHING", "ENDING"}

Init == leader = "NONE" /\ monitor = "NONE" /\ bytes = 0 /\ session = "DOWN" /\ logins = 0

\* Starting a unit that conflicts with the session: it is being stopped.
Shutdown == session' = IF session = "UP" THEN "STOPPING" ELSE session
\* What is in the fifo is lost with its last user.
Fifo(reading) == bytes' = IF reading THEN bytes ELSE 0

(***************************************************************************)
(* The leader.                                                             *)
(***************************************************************************)
\* main() with --systemd: the target is started, or already runs; while a
\* session is being stopped the job is refused and no leader is needed.
Login ==
  /\ leader = "NONE" /\ logins < MaxLogins /\ session \in {"DOWN", "UP"}
  /\ leader' = "OPENING" /\ logins' = logins + 1 /\ session' = "UP"
  /\ monitor' = IF session = "DOWN" THEN "NONE" ELSE monitor
  /\ UNCHANGED bytes

\* systemd_leader_run(): open() returns when there is a reader, whose open()
\* returns as well.
LeaderOpens ==
  /\ leader = "OPENING" /\ (Reading \/ monitor = "OPENING")
  /\ leader' = "WATCHING"
  /\ monitor' = IF monitor = "OPENING" THEN "WATCHING" ELSE monitor
  /\ UNCHANGED <<bytes, session, logins>>
LeaderFailsToOpen ==
  /\ Faults /\ leader = "OPENING" /\ leader' = "UNWATCHED"
  /\ UNCHANGED <<monitor, bytes, session, logins>>

\* A bug: the monitor is not told.
MutantLeaderIsTerminated ==
  /\ leader \in {"WATCHING", "UNWATCHED"}
  /\ Shutdown \/ (Faults /\ UNCHANGED session)
  /\ leader' = IF leader = "WATCHING" /\ Reading THEN "SIGNALLED" ELSE "NONE"
  /\ UNCHANGED <<monitor, bytes, logins>>
\* leader_term_or_int_signal_cb(): the shutdown target is started, which may
\* fail, and the monitor is told; without a reader there is no use in waiting.
LeaderIsTerminated ==
  /\ leader \in {"WATCHING", "UNWATCHED"}
  /\ Shutdown \/ (Faults /\ UNCHANGED session)
  /\ \/ /\ leader = "WATCHING" /\ Reading
        /\ leader' = "SIGNALLED" /\ bytes' = bytes + 1
     \/ /\ ~(leader = "WATCHING" /\ Reading)
        /\ leader' = "NONE" /\ UNCHANGED bytes
  /\ UNCHANGED <<monitor, logins>>

\* Before the handlers are installed, and after they have run once, SIGTERM has
\* its default action; SIGKILL always has.
LeaderIsKilled ==
  /\ Faults /\ leader # "NONE" /\ leader' = "NONE"
  /\ Fifo(Reading)
  /\ UNCHANGED <<monitor, session, logins>>

\* A bug: only a leader that was told to end looks at the fifo.
MutantLeaderSeesHangup ==
  /\ leader = "SIGNALLED" /\ ~Reading
  /\ leader' = "NONE" /\ bytes' = 0
  /\ UNCHANGED <<monitor, session, logins>>
\* scsm_quit(), the callback of the fifo's descriptor.
LeaderSeesHangup ==
  /\ Writing /\ ~Reading
  /\ leader' = "NONE" /\ bytes' = 0
  /\ UNCHANGED <<monitor, session, logins>>

(***************************************************************************)
(* The monitor.                                                            *)
(***************************************************************************)
\* do_monitor_leader(): open() returns when there is a writer.
MonitorStarts ==
  /\ session = "UP" /\ monitor = "NONE" /\ monitor' = "OPENING"
  /\ UNCHANGED <<leader, bytes, session, logins>>
MonitorFailsToOpen ==
  /\ Faults /\ monitor = "OPENING" /\ monitor' = "UNWATCHED"
  /\ UNCHANGED <<leader, bytes, session, logins>>

\* A bug: only a byte is noticed.
MutantMonitorSeesLeader ==
  /\ monitor = "WATCHING" /\ bytes > 0
  /\ monitor' = "ENDING" /\ bytes' = bytes - 1
  /\ UNCHANGED <<leader, session, logins>>
\* leader_fifo_io_cb(): its tests of the condition use | and always hold, so a
\* byte ends the main loop as the end of the leader does.
MonitorSeesLeader ==
  /\ monitor = "WATCHING" /\ (bytes > 0 \/ ~Writing)
  /\ monitor' = "ENDING" /\ bytes' = IF bytes > 0 THEN bytes - 1 ELSE 0
  /\ UNCHANGED <<leader, session, logins>>

\* do_start_unit(), which may fail, and the end of main(): the descriptor is closed.
MonitorEnds ==
  /\ monitor = "ENDING" /\ monitor' = "ENDED"
  /\ Shutdown \/ (Faults /\ UNCHANGED session)
  /\ Fifo(Writing)
  /\ UNCHANGED <<leader, logins>>

\* The signal systemd stops the service with: leader_term_or_int_signal_cb(),
\* which ends the main loop, or the default action.
MonitorIsTerminated ==
  /\ session = "LAST" /\ monitor \in {"OPENING", "WATCHING", "UNWATCHED"}
  /\ monitor' = IF monitor = "OPENING" THEN "ENDED" ELSE "ENDING"
  /\ UNCHANGED <<leader, bytes, session, logins>>
MonitorIsKilled ==
  /\ Faults /\ monitor \in {"OPENING", "WATCHING", "UNWATCHED", "ENDING"}
  /\ monitor' = "KILLED" /\ Fifo(Writing)
  /\ UNCHANGED <<leader, session, logins>>

(***************************************************************************)
(* The user's systemd.                                                     *)
(***************************************************************************)
\* The session manager ends: do_start_unit() of --shutdown, after it stopped.
LogsOut ==
  /\ session = "UP" /\ monitor # "NONE" /\ Shutdown
  /\ UNCHANGED <<leader, monitor, bytes, logins>>

\* scarecrow-session.target is bound to the monitor's service: it is stopped when
\* the monitor is no more, and with it what is part of it.
TargetFollowsMonitor ==
  /\ session = "UP" /\ monitor \in {"ENDED", "KILLED"} /\ session' = "STOPPING"
  /\ UNCHANGED <<leader, monitor, bytes, logins>>

\* All services but the monitor are down.
ServicesStop ==
  /\ session = "STOPPING" /\ session' = "LAST"
  /\ UNCHANGED <<leader, monitor, bytes, logins>>
SessionEnds ==
  /\ session = "LAST" /\ monitor \in {"NONE", "ENDED", "KILLED"} /\ session' = "DOWN"
  /\ UNCHANGED <<leader, monitor, bytes, logins>>

Next ==
  \/ Login \/ LeaderOpens \/ LeaderFailsToOpen \/ LeaderIsTerminated
  \/ LeaderIsKilled \/ LeaderSeesHangup
  \/ MonitorStarts \/ MonitorFailsToOpen \/ MonitorSeesLeader \/ MonitorEnds
  \/ MonitorIsTerminated \/ MonitorIsKilled
  \/ LogsOut \/ TargetFollowsMonitor \/ ServicesStop \/ SessionEnds
Spec == Init /\ [][Next]_vars

\* Processes run, and systemd finishes its jobs.
FairSpec == Spec
  /\ WF_vars(LeaderOpens) /\ WF_vars(LeaderSeesHangup)
  /\ WF_vars(MonitorSeesLeader) /\ WF_vars(MonitorEnds) /\ WF_vars(MonitorIsTerminated)
  /\ WF_vars(TargetFollowsMonitor) /\ WF_vars(ServicesStop) /\ WF_vars(SessionEnds)

(***************************************************************************)
(* Properties                                                              *)
(***************************************************************************)
\* The monitor notices the death of a leader it watched, and the session ends, even
\* if the monitor is killed, or can not start the shutdown target, unless the user
\* logs in again first (leader_fifo_io_cb, main of scarecrow-session-ctl).
SessionFollowsLeader ==
  monitor = "WATCHING" /\ leader = "NONE" ~> session # "UP" \/ leader # "NONE"

\* A leader told to end ends the session, even if it could not start the shutdown
\* target itself, because the monitor does, or is killed and takes the session with
\* it; unless the user logs in again first (leader_term_or_int_signal_cb).
TerminationEndsSession ==
  leader = "SIGNALLED" ~> session # "UP" \/ leader = "OPENING"

\* When the session has ended, so does a leader that watched it (scsm_quit on
\* the fifo's hangup): the login does not outlive its session.
LeaderFollowsSession == session = "DOWN" /\ Writing ~> leader = "NONE"

\* "It needs to quit just after the user session is done": a leader told to end
\* is there until the services have been stopped (systemd_leader_run).
LeaderWaitsForSession ==
  [][leader = "SIGNALLED" /\ leader' = "NONE" => session \in {"LAST", "DOWN"}]_vars
=============================================================================
