------------------------------- MODULE Startup -------------------------------
(***************************************************************************)
(* The start of a session as scsm-manager.c runs it, and the applications  *)
(* it starts (scsm-app.c, scsm-autostart-app.c): phase after phase, from   *)
(* STARTUP to RUNNING, the applications of the phase are launched, and the *)
(* next phase begins when each of them has registered as a client, has     *)
(* ended, could not be restarted, or when 90 seconds have passed.          *)
(* Applications go on ending, being restarted and changing their autostart *)
(* condition when the session runs.                                        *)
(*                                                                         *)
(* Each action is one main-loop callback; the C functions it calls are     *)
(* operators from the state before the call to the state after it.  Their  *)
(* argument ok is the set of applications the operating system would       *)
(* launch during this callback: for all others launching fails.            *)
(***************************************************************************)
EXTENDS Naturals, FiniteSets

CONSTANTS
  Apps,            \* the applications in the store, none disabled outright
  PhaseOf,         \* [Apps -> phase], X-GNOME-Autostart-Phase
  Required,        \* RequiredComponents of the session
  Autorestart,     \* applications with X-GNOME-AutoRestart=true
  Conditional,     \* applications with an AutostartCondition
  Activated,       \* applications started by a D-Bus call, without a child
  Wayland,         \* XDG_SESSION_TYPE is wayland
  SystemdManaged,  \* scarecrow-session --systemd-service
  MaxProcs         \* bound: child processes one application has at a time

STARTUP              == 0
EARLY_INITIALIZATION == 1
PRE_DISPLAY_SERVER   == 2
DISPLAY_SERVER       == 3
INITIALIZATION       == 4
WINDOW_MANAGER       == 5
PANEL                == 6
DESKTOP              == 7
APPLICATION          == 8
RUNNING              == 9
\* QUERY_END_SESSION and END_SESSION, which module EndSession is about: here
\* they only differ from RUNNING in how applications are treated.
ENDING               == 10

ASSUME AppsAssumption ==
  /\ IsFiniteSet(Apps)
  /\ PhaseOf \in [Apps -> EARLY_INITIALIZATION .. APPLICATION]
  /\ Required \subseteq Apps
  /\ Autorestart \subseteq Apps
  /\ Conditional \subseteq Apps
  /\ Activated \subseteq Apps
ASSUME SessionAssumption == Wayland \in BOOLEAN /\ SystemdManaged \in BOOLEAN
ASSUME ProcsAssumption == MaxProcs \in Nat \ {0}

VARIABLES
  mgr,      \* ScsmManagerPrivate and the ScsmAutostartApps
  client,   \* the client with the startup id of each application, if any
  condition_clients,  \* applications whose client was told to stop
  enabled   \* applications whose AutostartCondition holds, if they have one

vars == <<mgr, client, condition_clients, enabled>>

Application ==
  [monitored : BOOLEAN,   \* condition-changed is connected
   connected : BOOLEAN,   \* exited, died and notify::registered are connected
   registered : BOOLEAN,  \* a client has registered for it
   pid : BOOLEAN,         \* pid is not -1
   procs : 0 .. MaxProcs, \* its children that run, or wait to be reaped
   recent : BOOLEAN]      \* last_restart_time is less than a minute ago

Manager ==
  [phase : STARTUP .. ENDING, pending_apps : SUBSET Apps,
   phase_timeout : BOOLEAN,         \* timer armed
   manager_initialized : BOOLEAN, systemd_initialized : BOOLEAN,
   app : [Apps -> Application],
   whale : BOOLEAN,                 \* the fail whale has been spawned
   over : BOOLEAN,                  \* the main loop has been told to stop
   \* a freed GError was used; that has crashed the process; a g_assert failed
   fault : {"none", "freed_access", "crashed", "assertion"}]

-----------------------------------------------------------------------------
(* scsm-autostart-app.c and scsm-app.c.                                    *)

\* Definitions named Mutant... are the neighbouring definition with a plausible
\* bug; no behaviour uses them, the runs are shown to notice them.

\* autostart_app_start_spawn(): the new child replaces the one known so far.
\* A D-Bus call to an activated application leaves nothing to watch.
Launch(m, a) ==
  IF a \in Activated THEN m
  ELSE [m EXCEPT !.app[a].pid = TRUE, !.app[a].procs = @ + 1]

Launches(a, ok) == a \in ok \cup Activated

MutantReapBlind(m, a) == [m EXCEPT !.app[a].procs = @ - 1]

\* app_exited() of scsm-autostart-app.c, up to the signal: whichever child it
\* was that exited, the pid is forgotten.
Reap(m, a) == [m EXCEPT !.app[a].pid = FALSE, !.app[a].procs = @ - 1]

\* scsm_app_restart() and scsm_autostart_app_restart(), for a restart that does
\* not come too soon.  Without a pid the stop fails, its error is freed and the
\* pointer kept; a start that fails as well then hands on the freed error.
Restart(m, a, ok) ==
  LET r == [m EXCEPT !.app[a].recent = TRUE]
  IN IF Launches(a, ok) THEN Launch(r, a)
     ELSE IF m.app[a].pid THEN r ELSE [r EXCEPT !.fault = "freed_access"]

RestartSucceeds(m, a, ok) == ~m.app[a].recent /\ Launches(a, ok)

-----------------------------------------------------------------------------
(* scsm-manager.c, callees first.                                          *)

\* scsm_fail_whale_dialog_we_failed().  When it cannot be spawned the program
\* exits, as it does when the dialog is closed at once.
Whale(m) == [m EXCEPT !.whale = TRUE]

\* What _start_app() launches in a phase.
Launched(q, ok) ==
  {a \in Apps : PhaseOf[a] = q /\ a \in enabled /\ Launches(a, ok)}

\* A phase does not end in the call that begins it: applications have been
\* launched that are to register, or systemd is not ready (end_phase).
Holds(m, q, ok) ==
  \/ q = RUNNING
  \/ q < APPLICATION /\ Launched(q, ok) # {}
  \/ q = INITIALIZATION /\ SystemdManaged /\ ~m.systemd_initialized

\* _start_app() of every application of the phases in S, in which the
\* applications launched in startup phases are connected to.
StartApps(m, S, ok) ==
  LET launched == UNION {Launched(q, ok) : q \in S}
      children == launched \ Activated
  IN [m EXCEPT !.app = [a \in Apps |->
       [m.app[a] EXCEPT
          !.monitored = @ \/ PhaseOf[a] \in S,
          !.connected = @ \/ (a \in launched /\ PhaseOf[a] < APPLICATION),
          !.pid = @ \/ a \in children,
          !.procs = IF a \in children THEN @ + 1 ELSE @]]]

MutantStartPhaseUntimed(m, p, ok) ==
  LET last == CHOOSE q \in p .. RUNNING :
                Holds(m, q, ok) /\ \A r \in p .. q - 1 : ~Holds(m, r, ok)
      awaited == IF last < APPLICATION THEN Launched(last, ok) ELSE {}
  IN [StartApps(m, p .. last, ok) EXCEPT
        !.phase = last, !.pending_apps = awaited, !.phase_timeout = FALSE,
        !.manager_initialized =
          @ \/ (p <= INITIALIZATION /\ last > INITIALIZATION)
            \/ (last = INITIALIZATION /\ awaited = {})]

\* start_phase() of phase p with do_phase_startup(); phases with nothing to
\* wait for end at once, so that a call may pass through several of them.
StartPhase(m, p, ok) ==
  LET last == CHOOSE q \in p .. RUNNING :
                Holds(m, q, ok) /\ \A r \in p .. q - 1 : ~Holds(m, r, ok)
      awaited == IF last < APPLICATION THEN Launched(last, ok) ELSE {}
  IN [StartApps(m, p .. last, ok) EXCEPT
        !.phase = last, !.pending_apps = awaited,
        !.phase_timeout = awaited # {},
        !.manager_initialized =
          @ \/ (p <= INITIALIZATION /\ last > INITIALIZATION)
            \/ (last = INITIALIZATION /\ awaited = {})]

MutantEndPhaseSkips(m, ok) ==
  LET r == [m EXCEPT !.pending_apps = {}, !.phase_timeout = FALSE,
                     !.manager_initialized = @ \/ m.phase = INITIALIZATION]
  IN IF m.phase = INITIALIZATION /\ SystemdManaged /\ ~m.systemd_initialized
     THEN r
     ELSE StartPhase(r, m.phase + 2, ok)

\* end_phase() of a startup phase.
EndPhase(m, ok) ==
  LET r == [m EXCEPT !.pending_apps = {}, !.phase_timeout = FALSE,
                     !.manager_initialized = @ \/ m.phase = INITIALIZATION]
  IN IF m.phase = INITIALIZATION /\ SystemdManaged /\ ~m.systemd_initialized
     THEN r
     ELSE StartPhase(r, m.phase + 1, ok)

MutantEventEndsPhase(m, a, ok) ==
  IF m.phase < APPLICATION THEN EndPhase(m, ok) ELSE m

\* app_event_during_startup()
AppEvent(m, a, ok) ==
  LET r == [m EXCEPT !.pending_apps = @ \ {a}]
  IN CASE m.phase >= APPLICATION -> m
       [] m.phase < APPLICATION /\ r.pending_apps = {} -> EndPhase(r, ok)
       [] OTHER -> r

\* is_app_display_server()
DisplayServer(a) == Wayland /\ PhaseOf[a] = DISPLAY_SERVER /\ a \in Required

MutantRestartAnyApp(m, a, ok) ==
  LET r == IF m.app[a].recent THEN m ELSE Restart(m, a, ok)
  IN IF RestartSucceeds(m, a, ok) THEN r
     ELSE AppEvent(IF a \in Required THEN Whale(r) ELSE r, a, ok)

\* _restart_app(); scsm_app_restart() refuses a second restart within a minute.
RestartApp(m, a, ok) ==
  LET r == IF m.app[a].recent THEN m ELSE Restart(m, a, ok)
  IN CASE DisplayServer(a) -> [m EXCEPT !.over = TRUE]
       [] ~DisplayServer(a) /\ RestartSucceeds(m, a, ok) -> r
       [] OTHER -> AppEvent(IF a \in Required THEN Whale(r) ELSE r, a, ok)

\* app_died() and app_exited(), of applications that are connected to.
AppDied(m, a, ok) ==
  IF m.app[a].registered /\ a \in Autorestart THEN m ELSE RestartApp(m, a, ok)

AppExited(m, a, success, ok) ==
  IF ~success /\ a \in Required THEN AppDied(m, a, ok) ELSE AppEvent(m, a, ok)

\* find_app_for_startup_id(), for a client with the startup id of a.
FoundByStartupId(m, a) == m.phase < APPLICATION => a \in m.pending_apps

\* scsm_app_set_registered() with app_registered(), which is told of the change
\* from FALSE to TRUE only; the property is never reset.
SetRegistered(m, a, ok) ==
  LET r == [m EXCEPT !.app[a].registered = TRUE]
  IN IF m.app[a].connected /\ ~m.app[a].registered
     THEN AppEvent(r, a, ok) ELSE r

-----------------------------------------------------------------------------
(* The callbacks.                                                          *)

Init ==
  /\ mgr = [phase |-> STARTUP, pending_apps |-> {}, phase_timeout |-> FALSE,
            manager_initialized |-> FALSE, systemd_initialized |-> FALSE,
            app |-> [a \in Apps |->
                      [monitored |-> FALSE, connected |-> FALSE,
                       registered |-> FALSE, pid |-> FALSE, procs |-> 0,
                       recent |-> FALSE]],
            whale |-> FALSE, over |-> FALSE, fault |-> "none"]
  /\ client = [a \in Apps |-> "none"]
  /\ condition_clients = {}
  /\ enabled \in {Apps \ S : S \in SUBSET Conditional}

Dispatching == ~mgr.over /\ mgr.fault \in {"none", "freed_access"}

\* What a callback may find when it launches applications: only those in S, or
\* those whose phase has not begun, matter to it.
Outcomes(S) == SUBSET (S \cup {a \in Apps : ~mgr.app[a].monitored})

Become(m) == mgr' = m /\ \A a \in Apps : m.app[a].procs <= MaxProcs

\* scsm_manager_start(), when the bus name is acquired.
ManagerStart ==
  /\ Dispatching /\ mgr.phase = STARTUP
  /\ \E ok \in Outcomes({}) : Become(StartPhase(mgr, EARLY_INITIALIZATION, ok))
  /\ UNCHANGED <<client, condition_clients, enabled>>

\* A child of a ends, normally, with an error or killed by a signal.
ProcessEnds(a) ==
  /\ Dispatching /\ mgr.app[a].procs > 0
  /\ LET r == Reap(mgr, a)
     IN \E ok \in Outcomes({a}) :
          IF ~mgr.app[a].connected THEN Become(r)
          ELSE \/ Become(AppExited(r, a, TRUE, ok))
               \/ Become(AppExited(r, a, FALSE, ok))
               \/ Become(AppDied(r, a, ok))
  /\ UNCHANGED <<client, condition_clients, enabled>>

\* RegisterClient() on D-Bus, which falls back on the application's name, and
\* the XSMP message, which is refused without a matching application.  Only a
\* child knows its startup id; that of an activated application is its name.
\* Nobody can call before the bus name is acquired, which starts the manager.
ClientRegisters(a) ==
  /\ Dispatching /\ mgr.phase \in EARLY_INITIALIZATION .. RUNNING
  /\ client[a] = "none"
  /\ mgr.app[a].procs > 0 \/ a \in Activated
  /\ \E kind \in {"dbus", "xsmp"}, ok \in Outcomes({}) :
       /\ kind = "xsmp" => FoundByStartupId(mgr, a)
       /\ Become(SetRegistered(mgr, a, ok))
       /\ client' = [client EXCEPT ![a] = kind]
  /\ UNCHANGED <<condition_clients, enabled>>

\* _disconnect_client().  XSMP clients may have asked to be restarted.
ClientDisconnects(a) ==
  /\ Dispatching /\ client[a] # "none"
  /\ \E immediately \in BOOLEAN, ok \in Outcomes({a}) :
       /\ immediately => client[a] = "xsmp"
       /\ Become(IF /\ mgr.phase < ENDING
                    /\ a \in Autorestart \/ immediately
                    /\ a \notin condition_clients
                 THEN RestartApp(mgr, a, ok) ELSE mgr)
  /\ client' = [client EXCEPT ![a] = "none"]
  /\ condition_clients' = condition_clients \ {a}
  /\ UNCHANGED enabled

\* app_condition_changed(), if connected: the application is started, or its
\* client, or its child is asked to stop, which it may do or not.
ConditionBecomesTrue(a) ==
  /\ Dispatching /\ a \notin enabled
  /\ enabled' = enabled \cup {a}
  /\ \E ok \in Outcomes({a}) :
       Become(IF /\ mgr.app[a].monitored /\ ~mgr.app[a].pid
                 /\ client[a] = "none" /\ Launches(a, ok)
              THEN Launch(mgr, a) ELSE mgr)
  /\ UNCHANGED <<client, condition_clients>>

ConditionBecomesFalse(a) ==
  /\ Dispatching /\ a \in enabled \cap Conditional
  /\ enabled' = enabled \ {a}
  /\ condition_clients' =
       IF mgr.app[a].monitored /\ client[a] # "none"
       THEN condition_clients \cup {a} ELSE condition_clients
  /\ UNCHANGED <<mgr, client>>

\* on_phase_timeout()
PhaseTimeout ==
  /\ Dispatching /\ mgr.phase_timeout
  /\ \E ok \in Outcomes({}) :
       Become(EndPhase(IF mgr.pending_apps \cap Required # {}
                       THEN Whale(mgr) ELSE mgr, ok))
  /\ UNCHANGED <<client, condition_clients, enabled>>

\* scsm_manager_initialized(), for calls that are not refused: systemd reaches
\* scarecrow-session-initialized.target.
Initialized ==
  /\ Dispatching /\ SystemdManaged /\ ~mgr.systemd_initialized
  /\ mgr.phase \in EARLY_INITIALIZATION .. INITIALIZATION
  /\ \E ok \in Outcomes({}) :
       LET r == [mgr EXCEPT !.systemd_initialized = TRUE]
       IN Become(IF mgr.manager_initialized
                 THEN IF mgr.phase = INITIALIZATION
                      THEN StartPhase(r, mgr.phase + 1, ok)
                      ELSE [r EXCEPT !.fault = "assertion"]
                 ELSE r)
  /\ UNCHANGED <<client, condition_clients, enabled>>

\* The session begins to end, and may return to RUNNING (module EndSession).
LogoutBeginsOrIsCanceled ==
  /\ Dispatching
  /\ \/ mgr.phase = RUNNING /\ mgr' = [mgr EXCEPT !.phase = ENDING]
     \/ mgr.phase = ENDING /\ mgr' = [mgr EXCEPT !.phase = RUNNING]
  /\ UNCHANGED <<client, condition_clients, enabled>>

\* scsm_quit(): from on_name_lost(), from term_or_int_signal_cb() before RUNNING
\* (also when the fail whale has exited), or at the end of a logout; exit() by a
\* fatal InitializationError().
Terminate ==
  /\ Dispatching /\ mgr' = [mgr EXCEPT !.over = TRUE]
  /\ UNCHANGED <<client, condition_clients, enabled>>

\* A minute has passed since the last restart of a.
MinutePasses(a) ==
  /\ Dispatching /\ mgr.app[a].recent
  /\ mgr' = [mgr EXCEPT !.app[a].recent = FALSE]
  /\ UNCHANGED <<client, condition_clients, enabled>>

\* Undefined behaviour after a freed error was used: the process may die of it.
CrashAfterFreedAccess ==
  /\ mgr.fault = "freed_access" /\ mgr' = [mgr EXCEPT !.fault = "crashed"]
  /\ UNCHANGED <<client, condition_clients, enabled>>

Next ==
  \/ ManagerStart \/ PhaseTimeout \/ Initialized
  \/ LogoutBeginsOrIsCanceled \/ Terminate \/ CrashAfterFreedAccess
  \/ \E a \in Apps :
       \/ ProcessEnds(a) \/ ClientRegisters(a) \/ ClientDisconnects(a)
       \/ ConditionBecomesTrue(a) \/ ConditionBecomesFalse(a)
       \/ MinutePasses(a)

Spec == Init /\ [][Next]_vars

\* The main loop dispatches what is ready, a timer fires once its time has
\* come, and systemd does reach its target when it manages the session.
Fairness == WF_vars(ManagerStart) /\ WF_vars(PhaseTimeout) /\ WF_vars(Initialized)
FairSpec == Spec /\ Fairness
-----------------------------------------------------------------------------
(* Properties.                                                             *)

\* The types of the variables.
TypeOK ==
  /\ mgr \in Manager
  /\ client \in [Apps -> {"none", "dbus", "xsmp"}]
  /\ condition_clients \subseteq Apps
  /\ enabled \subseteq Apps

WaitsForSystemd ==
  /\ mgr.phase = INITIALIZATION /\ mgr.manager_initialized
  /\ SystemdManaged /\ ~mgr.systemd_initialized

\* The startup never stalls: a startup phase waits for applications of that
\* phase that the manager listens to, with the timer running, or for systemd,
\* and for nothing else (do_phase_startup, app_event_during_startup, end_phase).
StartupNeverStalls ==
  /\ mgr.phase_timeout <=> mgr.pending_apps # {}
  /\ \A a \in mgr.pending_apps :
       PhaseOf[a] = mgr.phase /\ mgr.phase < APPLICATION /\ mgr.app[a].connected
  /\ mgr.phase \in EARLY_INITIALIZATION .. APPLICATION
     /\ mgr.pending_apps = {} => WaitsForSystemd

\* However many phases a call runs through, no application's phase is skipped
\* and none is started early: monitored are those whose phase has begun.
EveryAppHasItsTurn ==
  \A a \in Apps : mgr.app[a].monitored <=> PhaseOf[a] <= mgr.phase

\* Of the end of INITIALIZATION and systemd's Initialized(), whichever comes
\* second goes on, once: nothing is started before both, and the assertion of
\* scsm_manager_initialized() holds.
BothInitialized ==
  /\ mgr.phase > INITIALIZATION =>
       mgr.manager_initialized /\ (SystemdManaged => mgr.systemd_initialized)
  /\ mgr.phase < INITIALIZATION => ~mgr.manager_initialized
  /\ mgr.fault # "assertion"

\* A known pid is that of a child that has not been reaped, whatever restarts
\* and late exits there were: scsm_app_stop() never signals a stranger.
PidIsAChild == \A a \in Apps : mgr.app[a].pid => mgr.app[a].procs > 0

\* Before the timer fires, an application is given up only for what happened to
\* itself: it registered, a child of it ended, or its client disconnected.
GivenUpForCause ==
  [][\A a \in mgr.pending_apps \ mgr'.pending_apps :
       \/ mgr'.app[a].registered
       \/ mgr'.app[a].procs < mgr.app[a].procs
       \/ client'[a] # client[a]
       \/ PhaseTimeout]_vars

\* An application is launched again after its start, in place of a child that
\* ended or next to those that run.
Relaunched(a) ==
  /\ mgr.app[a].monitored /\ mgr'.app[a].pid /\ mgr'.app[a] # mgr.app[a]
  /\ \/ mgr'.app[a].procs > mgr.app[a].procs
     \/ mgr'.app[a].procs = mgr.app[a].procs /\ ProcessEnds(a)

\* A Wayland compositor that the session requires is never started again while
\* its clients live, by none of the paths that restart applications.
CompositorNotRestarted ==
  [][\A a \in Apps : Relaunched(a) =>
       ~DisplayServer(a) \/ a \in enabled' \ enabled]_vars

\* The session gets to run: no application that hangs, dies, or is restarted
\* again and again keeps the startup in its phase for ever.
StartupCompletes ==
  mgr.phase < RUNNING ~> mgr.phase >= RUNNING \/ ~Dispatching

=============================================================================
