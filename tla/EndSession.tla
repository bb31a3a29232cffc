----------------------------- MODULE EndSession -----------------------------
(***************************************************************************)
(* The end of a session as scsm-manager.c runs it: from the first logout,  *)
(* shutdown or reboot request in the RUNNING phase, through the questions  *)
(* to the clients (QUERY_END_SESSION) and their orderly end (END_SESSION), *)
(* to EXIT, or back to RUNNING when somebody cancels.                      *)
(*                                                                         *)
(* The manager is one thread on a GLib main loop: each action below is one *)
(* main-loop callback (a D-Bus method, an XSMP message, a timer, a signal  *)
(* of the shell or of logind) and runs to completion.  Inside a callback   *)
(* the C functions call each other synchronously; each of them is an       *)
(* operator from the manager's state before the call to the state after    *)
(* it, so that a re-entrant call is a nested application.                  *)
(***************************************************************************)
EXTENDS Naturals

CONSTANTS
  DBusClients,   \* clients that may register over D-Bus
  XsmpClients,   \* clients that may connect over XSMP
  Cookies,       \* inhibitors applications may take with Inhibit()
  LogoutPrompt,  \* GSettings key logout-prompt
  MaxLast,       \* bound: entries one client may have in next_query_clients
  MaxTasks,      \* bound: unanswered Shutdown()/Reboot() calls
  MaxCalls       \* bound: logind calls in flight that are told apart

\* Bound: just-in-time inhibitors one client may hold.  Two tell "removing
\* them emits one signal" from "removing them emits several".
MaxJit == 2

ASSUME ClientsAssumption == DBusClients \cap XsmpClients = {}
ASSUME PromptAssumption == LogoutPrompt \in BOOLEAN
ASSUME BoundsAssumption == /\ MaxLast \in Nat \ {0}
                           /\ MaxTasks \in Nat \ {0}
                           /\ MaxCalls \in Nat \ {0}

VARIABLES
  mgr,           \* ScsmManagerPrivate, its stores and its ScsmSystem
  unregistered,  \* XSMP clients in the store without a "disconnected" handler
  gone,          \* clients that left without the manager having noticed
  interacting,   \* XSMP clients between Interact and InteractDone
  locked,        \* GSettings lockdown key disable-log-out
  shellRunning,  \* ScsmShell is_running: the shell owns its bus name
  logindUp       \* logind grants the delay inhibitor

vars == <<mgr, unregistered, gone, interacting, locked, shellRunning, logindUp>>
env  == <<unregistered, gone, interacting, locked, shellRunning, logindUp>>

Clients == DBusClients \cup XsmpClients

\* The phases from RUNNING on.  EXIT runs through to scsm_quit() in the same
\* call, so in a state EXIT means that the main loop has been told to stop.
Phases == {"RUNNING", "QUERY_END_SESSION", "END_SESSION", "EXIT"}
Modes  == {"NORMAL", "NO_CONFIRMATION", "FORCE"}
\* REBOOT, SHUTDOWN and their _INTERACT variants are handled alike: SHUTDOWN.
Types  == {"NONE", "LOGOUT", "SHUTDOWN"}
Flags  == {"none", "logout", "other"}
\* A freed object was used; that has crashed the process; a g_assert has failed.
Faults == {"none", "freed_access", "crashed", "assertion"}

\* A GSList of clients, up to order: how often each client occurs in it.
Empty   == [c \in Clients |-> 0]
Once(S) == [c \in Clients |-> IF c \in S THEN 1 ELSE 0]

Manager ==
  [phase : Phases, logout_mode : Modes, logout_type : Types,
   clients : SUBSET Clients,                   \* the client store
   query_clients : [Clients -> 0 .. MaxLast],
   next_query_clients : [Clients -> 0 .. MaxLast],
   jit : [Clients -> 0 .. MaxJit],             \* inhibitors made for a client
   inhibitors : [Cookies -> Flags],            \* inhibitors of Inhibit()
   query_timeout : BOOLEAN, phase_timeout : BOOLEAN,  \* timers armed
   tasks : 0 .. MaxTasks,                      \* pending_end_session_tasks
   accepting : BOOLEAN,                        \* XSMP server takes clients
   dialog_signals : BOOLEAN,                   \* connected to the shell dialog
   prepared_handler : BOOLEAN,                 \* connected to shutdown-prepared
   shutdown_expected : BOOLEAN,                \* prepare_for_shutdown_expected
   logind_calls : 0 .. MaxCalls,               \* Reboot/PowerOff in flight
   fault : Faults]

-----------------------------------------------------------------------------
(* The functions of scsm-manager.c, callees first.                         *)

\* Definitions named Mutant... are the neighbouring definition with a plausible
\* bug; no behaviour uses them, the runs are shown to notice them.

MutantResetPhaseKeepsTimer(m) ==
  [m EXCEPT !.query_clients = Empty, !.next_query_clients = Empty,
            !.query_timeout = FALSE]

\* The state end_phase() and start_phase() reset before anything else.
ResetPhase(m) ==
  [m EXCEPT !.query_clients = Empty, !.next_query_clients = Empty,
            !.query_timeout = FALSE, !.phase_timeout = FALSE]

\* do_phase_exit(), end_phase() of EXIT and scsm_manager_quit().
StartExit(m) == [ResetPhase(m) EXCEPT !.phase = "EXIT"]

MutantStartEndSessionUntimed(m) ==
  LET r == [ResetPhase(m) EXCEPT !.phase = "END_SESSION", !.tasks = 0]
  IN IF m.clients = {} THEN StartExit(r)
     ELSE [r EXCEPT !.query_clients = Once(m.clients)]

\* do_phase_end_session(): answer the pending Shutdown()/Reboot() callers,
\* then ask every client to end; without clients the phase is over at once.
StartEndSession(m) ==
  LET r == [ResetPhase(m) EXCEPT !.phase = "END_SESSION", !.tasks = 0]
  IN IF m.clients = {}
     THEN StartExit(r)
     ELSE [r EXCEPT !.phase_timeout = TRUE, !.query_clients = Once(m.clients)]

MutantStartRunningForgetsCallers(m) ==
  [ResetPhase(m) EXCEPT !.phase = "RUNNING", !.accepting = TRUE]

\* start_phase() of RUNNING, as cancel_end_session() re-enters it.
StartRunning(m) ==
  [ResetPhase(m) EXCEPT !.phase = "RUNNING", !.accepting = TRUE, !.tasks = 0]

MutantCancelKeepsJit(m) ==
  IF m.phase = "RUNNING" THEN m
  ELSE StartRunning([m EXCEPT !.logout_mode = "NORMAL", !.logout_type = "NONE"])

\* cancel_end_session(), a no-op outside of a logout; it clears the inhibitors
\* while the phase is RUNNING already, so that nothing follows from that.
CancelEndSession(m) ==
  IF m.phase = "RUNNING" THEN m
  ELSE StartRunning([m EXCEPT !.logout_mode = "NORMAL", !.logout_type = "NONE",
                              !.jit = Empty])

\* on_shutdown_prepared(): the handler disconnects itself, then ...
OnShutdownPrepared(m, success) ==
  LET r == [m EXCEPT !.prepared_handler = FALSE]
  IN CASE ~m.prepared_handler -> m
       [] m.prepared_handler /\ ~success ->
            CancelEndSession([r EXCEPT !.dialog_signals = FALSE])
       [] OTHER -> IF m.phase = "QUERY_END_SESSION"
                   THEN StartEndSession(r)
                   ELSE [r EXCEPT !.fault = "assertion"]

\* do_query_end_session_exit() and scsm_systemd_prepare_shutdown(): a refused
\* delay inhibitor answers shutdown-prepared(FALSE) from within the call.
PrepareShutdown(m) ==
  LET r == [m EXCEPT !.prepared_handler = TRUE]
  IN IF logindUp
     THEN [r EXCEPT !.shutdown_expected = TRUE,
                    !.logind_calls = IF @ < MaxCalls THEN @ + 1 ELSE @]
     ELSE OnShutdownPrepared(r, FALSE)

MutantEndQueryWithoutWaiting(m) == StartEndSession(ResetPhase(m))

\* end_phase() of QUERY_END_SESSION.
EndQueryEndSession(m) ==
  IF m.logout_type = "SHUTDOWN" THEN PrepareShutdown(ResetPhase(m))
                                ELSE StartEndSession(m)

MutantStartQueryUntimed(m) ==
  [ResetPhase(m) EXCEPT !.phase = "QUERY_END_SESSION", !.accepting = FALSE,
                        !.query_clients = Once(m.clients)]

\* do_phase_query_end_session(): the query timer is armed whatever the mode.
StartQueryEndSession(m) ==
  [ResetPhase(m) EXCEPT !.phase = "QUERY_END_SESSION", !.accepting = FALSE,
                        !.query_clients = Once(m.clients),
                        !.query_timeout = TRUE]

EndPhase(m) ==
  CASE m.phase = "RUNNING" -> IF locked THEN ResetPhase(m)
                                        ELSE StartQueryEndSession(m)
    [] m.phase = "QUERY_END_SESSION" -> EndQueryEndSession(m)
    [] OTHER -> StartExit(m)

MutantInhibitedByApplications(m) ==
  m.logout_mode # "FORCE" /\ \E k \in Cookies : m.inhibitors[k] = "logout"

\* scsm_manager_is_logout_inhibited().
Inhibited(m) ==
  /\ m.logout_mode # "FORCE"
  /\ \/ \E k \in Cookies : m.inhibitors[k] = "logout"
     \/ \E c \in Clients : m.jit[c] > 0

MutantPromptWhenForced(m) ==
  IF Inhibited(m) \/ LogoutPrompt
  THEN [m EXCEPT !.dialog_signals = @ \/ shellRunning]
  ELSE EndPhase(m)

\* show_shell_end_session_dialog() inside end_session_or_show_shell_dialog().
EndSessionOrShowDialog(m) ==
  IF \/ Inhibited(m)
     \/ m.logout_mode = "NORMAL" /\ LogoutPrompt
  THEN [m EXCEPT !.dialog_signals = @ \/ shellRunning]
  ELSE EndPhase(m)

\* on_store_inhibitor_removed(), for any inhibitor, whatever its flags.
OnInhibitorRemoved(m) ==
  IF m.phase = "RUNNING" THEN m ELSE EndSessionOrShowDialog(m)

\* scsm_store_foreach_remove (inhibitors, inhibitor_has_client_id): first all
\* of the client's inhibitors leave the store, then each emits "removed".
RemoveJit(m, c) ==
  LET r == [m EXCEPT !.jit[c] = 0]
  IN CASE m.jit[c] = 0 -> m
       [] m.jit[c] = 1 -> OnInhibitorRemoved(r)
       [] OTHER -> OnInhibitorRemoved(OnInhibitorRemoved(r))

\* do_phase_end_session_part_2(): a list entry whose client has left the store
\* is a freed object; the call may crash (CrashAfterFreedAccess) or go through.
EndSessionPart2(m) ==
  [m EXCEPT !.query_clients = m.next_query_clients,
            !.next_query_clients = Empty,
            !.fault = IF \E c \in Clients \ m.clients : m.next_query_clients[c] > 0
                      THEN "freed_access" ELSE @]

MutantAfterResponseImpatient(m, c, do_last) ==
  LET d == IF do_last THEN [m EXCEPT !.next_query_clients[c] = @ + 1] ELSE m
  IN CASE m.phase = "QUERY_END_SESSION" -> m
       [] m.phase = "END_SESSION" ->
            IF Inhibited(m) THEN d
            ELSE IF d.next_query_clients # Empty THEN EndSessionPart2(d)
            ELSE EndPhase(d)
       [] OTHER -> m

\* The end of _handle_client_end_session_response(), which reads the phase
\* again: removing inhibitors may have changed it.
AfterResponse(m, c, do_last) ==
  LET d == IF do_last THEN [m EXCEPT !.next_query_clients[c] = @ + 1] ELSE m
  IN CASE m.phase = "QUERY_END_SESSION" ->
            IF m.query_clients = Empty
            THEN EndSessionOrShowDialog([m EXCEPT !.query_timeout = FALSE])
            ELSE m
       [] m.phase = "END_SESSION" ->
            IF m.query_clients # Empty \/ Inhibited(m) THEN d
            ELSE IF d.next_query_clients # Empty THEN EndSessionPart2(d)
            ELSE EndPhase(d)
       [] OTHER -> m

\* _handle_client_end_session_response() without its cancel branch, which is
\* CancelEndSession.
HandleResponse(m, c, is_ok, do_last) ==
  LET r == [m EXCEPT !.query_clients[c] = IF @ > 0 THEN @ - 1 ELSE 0]
  IN CASE m.phase = "RUNNING" -> m
       [] m.phase # "RUNNING" /\ ~is_ok /\ m.logout_mode # "FORCE" ->
            AfterResponse([r EXCEPT !.jit[c] = @ + 1], c, do_last)
       [] OTHER -> AfterResponse(RemoveJit(r, c), c, do_last)

MutantDisconnectUnanswered(m, c) == RemoveJit(m, c)

MutantDisconnectKeepsJit(m, c) ==
  IF \/ m.phase = "QUERY_END_SESSION"
     \/ m.phase = "END_SESSION" /\ m.query_clients[c] > 0
  THEN HandleResponse(m, c, TRUE, FALSE)
  ELSE m

\* _disconnect_client(): leaving counts as an "ok" to an open question.
DisconnectClient(m, c) ==
  LET r == RemoveJit(m, c)
  IN IF \/ r.phase = "QUERY_END_SESSION"
        \/ r.phase = "END_SESSION" /\ r.query_clients[c] > 0
     THEN HandleResponse(r, c, TRUE, FALSE)
     ELSE r

\* on_client_disconnected(): the store forgets the client only afterwards.
OnClientDisconnected(m, c) ==
  LET r == DisconnectClient(m, c)
      s == [r EXCEPT !.clients = @ \ {c}]
  IN IF r.phase # "RUNNING" /\ s.clients = {} THEN EndPhase(s) ELSE s

-----------------------------------------------------------------------------
(* The callbacks of the main loop.                                         *)

Init ==
  /\ mgr = [phase |-> "RUNNING", logout_mode |-> "NORMAL", logout_type |-> "NONE",
            clients |-> {}, query_clients |-> Empty, next_query_clients |-> Empty,
            jit |-> Empty, inhibitors |-> [k \in Cookies |-> "none"],
            query_timeout |-> FALSE, phase_timeout |-> FALSE, tasks |-> 0,
            accepting |-> TRUE, dialog_signals |-> FALSE,
            prepared_handler |-> FALSE, shutdown_expected |-> FALSE,
            logind_calls |-> 0, fault |-> "none"]
  /\ unregistered = {}
  /\ gone = {}
  /\ interacting = {}
  /\ locked \in BOOLEAN
  /\ shellRunning \in BOOLEAN
  /\ logindUp \in BOOLEAN

\* The main loop dispatches callbacks until scsm_quit() or a crash.
Dispatching == mgr.phase # "EXIT" /\ mgr.fault \notin {"crashed", "assertion"}

\* Logout() over D-Bus, an XSMP SaveYourselfRequest, SIGTERM: user_logout().
Logout(mode) ==
  /\ Dispatching
  /\ ~locked
  /\ mgr' = LET m == [mgr EXCEPT !.logout_mode = mode]
            IN IF mgr.phase = "RUNNING"
               THEN EndPhase([m EXCEPT !.logout_type = "LOGOUT"])
               ELSE EndSessionOrShowDialog(m)
  /\ UNCHANGED env

\* Shutdown() and Reboot(): the caller waits in tasks; the mode is left alone.
Shutdown ==
  /\ Dispatching
  /\ ~locked
  /\ mgr.tasks < MaxTasks
  /\ mgr' = EndPhase([mgr EXCEPT !.tasks = @ + 1, !.logout_type = "SHUTDOWN"])
  /\ UNCHANGED env

\* on_shell_end_session_dialog_confirmed_{logout,shutdown,reboot}.
DialogConfirmed(type) ==
  /\ Dispatching
  /\ mgr.dialog_signals
  /\ shellRunning
  /\ mgr' = [(IF mgr.phase = "END_SESSION" THEN mgr
              ELSE EndPhase([mgr EXCEPT !.logout_mode = "FORCE",
                                        !.logout_type = type]))
             EXCEPT !.dialog_signals = FALSE]
  /\ UNCHANGED env

\* on_shell_end_session_dialog_canceled, also when the dialog failed to open.
DialogCanceled ==
  /\ Dispatching
  /\ mgr.dialog_signals
  /\ mgr' = [CancelEndSession(mgr) EXCEPT !.dialog_signals = FALSE]
  /\ UNCHANGED env

\* _on_query_end_session_timeout(): who has not answered becomes an inhibitor.
QueryTimeout ==
  /\ Dispatching
  /\ mgr.query_timeout
  /\ LET m == [mgr EXCEPT !.query_timeout = FALSE, !.query_clients = Empty]
     IN mgr' = EndSessionOrShowDialog(
                 IF mgr.logout_mode = "FORCE" THEN m
                 ELSE [m EXCEPT !.jit = [c \in Clients |-> mgr.jit[c] + mgr.query_clients[c]]])
  /\ UNCHANGED env

\* on_phase_timeout().
PhaseTimeout ==
  /\ Dispatching
  /\ mgr.phase_timeout
  /\ mgr' = EndPhase(mgr)
  /\ UNCHANGED env

\* A registered client the manager can still hear.
Speaking(c) == Dispatching /\ c \in mgr.clients \ (gone \cup unregistered)

\* EndSessionResponse() of a D-Bus client, asked for or not.
EndSessionResponse(c, is_ok) ==
  /\ Speaking(c)
  /\ is_ok \/ mgr.jit[c] < MaxJit
  /\ mgr' = HandleResponse(mgr, c, is_ok, FALSE)
  /\ UNCHANGED env

\* save_yourself_done_callback().
SaveYourselfDone(c) ==
  /\ Speaking(c)
  /\ mgr' = HandleResponse(mgr, c, TRUE, FALSE)
  /\ UNCHANGED env

\* save_yourself_phase2_request_callback(): "ok, but let me be last".
Phase2Request(c) ==
  /\ Speaking(c)
  /\ mgr.next_query_clients[c] < MaxLast
  /\ mgr' = HandleResponse(mgr, c, TRUE, TRUE)
  /\ UNCHANGED env

\* interact_request_callback(): an objection, then SmsInteract().
InteractRequest(c) ==
  /\ Speaking(c)
  /\ mgr.phase # "RUNNING"
  /\ mgr.jit[c] < MaxJit
  /\ mgr' = HandleResponse(mgr, c, FALSE, FALSE)
  /\ interacting' = interacting \cup {c}
  /\ UNCHANGED <<unregistered, gone, locked, shellRunning, logindUp>>

\* interact_done_callback(): libSM drops it unless the client interacts.
InteractDone(c, cancel_shutdown) ==
  /\ Speaking(c)
  /\ c \in interacting
  /\ mgr' = IF cancel_shutdown THEN CancelEndSession(mgr)
            ELSE HandleResponse(mgr, c, TRUE, FALSE)
  /\ interacting' = interacting \ {c}
  /\ UNCHANGED <<unregistered, gone, locked, shellRunning, logindUp>>

MutantRegisterWhileEnding(c) ==
  /\ Dispatching
  /\ c \notin mgr.clients
  /\ mgr' = [mgr EXCEPT !.clients = @ \cup {c}]
  /\ UNCHANGED env

\* RegisterClient() over D-Bus.
RegisterClient(c) ==
  /\ Dispatching
  /\ mgr.phase = "RUNNING"
  /\ c \notin mgr.clients
  /\ mgr' = [mgr EXCEPT !.clients = @ \cup {c}]
  /\ UNCHANGED env

\* accept_xsmp_connection(): the store has the client before it registers.
XsmpClientConnects(c) ==
  /\ Dispatching
  /\ mgr.accepting
  /\ c \notin mgr.clients
  /\ mgr' = [mgr EXCEPT !.clients = @ \cup {c}]
  /\ unregistered' = unregistered \cup {c}
  /\ UNCHANGED <<gone, interacting, locked, shellRunning, logindUp>>

\* on_xsmp_client_register_request(): refused, without a trace, from the query
\* phase on; only an accepted client gets its "disconnected" handler.
XsmpClientRegisters(c) ==
  /\ Dispatching
  /\ c \in unregistered \ gone
  /\ mgr.phase = "RUNNING"
  /\ unregistered' = unregistered \ {c}
  /\ UNCHANGED <<mgr, gone, interacting, locked, shellRunning, logindUp>>

\* A D-Bus client leaves the bus: a watch for the client and one for each of
\* its inhibitors will fire, in any order (OnClientVanished, JitVanished).
ClientLeavesBus(c) ==
  /\ Speaking(c)
  /\ gone' = gone \cup {c}
  /\ UNCHANGED <<mgr, unregistered, interacting, locked, shellRunning, logindUp>>

OnClientVanished(c) ==
  /\ Dispatching
  /\ c \in gone
  /\ mgr' = OnClientDisconnected(mgr, c)
  /\ gone' = gone \ {c}
  /\ UNCHANGED <<unregistered, interacting, locked, shellRunning, logindUp>>

\* on_inhibitor_vanished() for a just-in-time inhibitor.
JitVanished(c) ==
  /\ Dispatching
  /\ c \in gone
  /\ mgr.jit[c] > 0
  /\ mgr' = OnInhibitorRemoved([mgr EXCEPT !.jit[c] = @ - 1])
  /\ UNCHANGED env

\* An XSMP client closes its connection or breaks it.
XsmpClientDisconnects(c) ==
  /\ Speaking(c)
  /\ mgr' = OnClientDisconnected(mgr, c)
  /\ interacting' = interacting \ {c}
  /\ UNCHANGED <<unregistered, gone, locked, shellRunning, logindUp>>

\* The same before the client has registered: nobody listens to its
\* "disconnected" signal and the store keeps it.
UnregisteredClientBreaks(c) ==
  /\ Dispatching
  /\ c \in unregistered \ gone
  /\ gone' = gone \cup {c}
  /\ UNCHANGED <<mgr, unregistered, interacting, locked, shellRunning, logindUp>>

\* Inhibit(): refused in a forced logout only.
Inhibit(k, flags) ==
  /\ Dispatching
  /\ mgr.logout_mode # "FORCE"
  /\ mgr.inhibitors[k] = "none"
  /\ mgr' = [mgr EXCEPT !.inhibitors[k] = flags]
  /\ UNCHANGED env

\* Uninhibit(), or the application leaves the bus (on_inhibitor_vanished).
Uninhibit(k) ==
  /\ Dispatching
  /\ mgr.inhibitors[k] # "none"
  /\ mgr' = OnInhibitorRemoved([mgr EXCEPT !.inhibitors[k] = "none"])
  /\ UNCHANGED env

\* logind's PrepareForShutdown(TRUE): sd_proxy_signal_cb().
PrepareForShutdown ==
  /\ Dispatching
  /\ mgr.shutdown_expected
  /\ mgr' = [OnShutdownPrepared(mgr, TRUE) EXCEPT !.shutdown_expected = FALSE]
  /\ UNCHANGED env

\* reboot_or_poweroff_done().
RebootOrPoweroffDone(success) ==
  /\ Dispatching
  /\ mgr.logind_calls > 0
  /\ LET m == [mgr EXCEPT !.logind_calls = @ - 1]
     IN mgr' = IF success THEN m
               ELSE OnShutdownPrepared([m EXCEPT !.shutdown_expected = FALSE], FALSE)
  /\ UNCHANGED env

\* The process may die at any time after it has touched a freed client.
CrashAfterFreedAccess ==
  /\ Dispatching
  /\ mgr.fault = "freed_access"
  /\ mgr' = [mgr EXCEPT !.fault = "crashed"]
  /\ UNCHANGED env

\* What the user, the shell and logind may change at any time.
EnvironmentChanges ==
  /\ Dispatching
  /\ \/ locked' = ~locked /\ UNCHANGED <<shellRunning, logindUp>>
     \/ shellRunning' = ~shellRunning /\ UNCHANGED <<locked, logindUp>>
     \/ logindUp' = ~logindUp /\ UNCHANGED <<locked, shellRunning>>
  /\ UNCHANGED <<mgr, unregistered, gone, interacting>>

UserSteps ==
  \/ \E mode \in Modes : Logout(mode)
  \/ Shutdown
  \/ \E type \in {"LOGOUT", "SHUTDOWN"} : DialogConfirmed(type)
  \/ DialogCanceled
  \/ EnvironmentChanges

DBusClientSteps == \E c \in DBusClients :
  \/ RegisterClient(c)
  \/ \E is_ok \in BOOLEAN : EndSessionResponse(c, is_ok)
  \/ ClientLeavesBus(c)
  \/ OnClientVanished(c)
  \/ JitVanished(c)

XsmpClientSteps == \E c \in XsmpClients :
  \/ XsmpClientConnects(c)
  \/ XsmpClientRegisters(c)
  \/ UnregisteredClientBreaks(c)
  \/ SaveYourselfDone(c)
  \/ Phase2Request(c)
  \/ InteractRequest(c)
  \/ \E cancel_shutdown \in BOOLEAN : InteractDone(c, cancel_shutdown)
  \/ XsmpClientDisconnects(c)

ApplicationSteps == \E k \in Cookies :
  \/ \E flags \in {"logout", "other"} : Inhibit(k, flags)
  \/ Uninhibit(k)

LogindSteps ==
  \/ PrepareForShutdown
  \/ \E success \in BOOLEAN : RebootOrPoweroffDone(success)

TimerSteps == QueryTimeout \/ PhaseTimeout

Next == \/ UserSteps \/ DBusClientSteps \/ XsmpClientSteps \/ ApplicationSteps
        \/ LogindSteps \/ TimerSteps \/ CrashAfterFreedAccess

Spec == Init /\ [][Next]_vars

\* GLib timers: a source that stays armed is dispatched.
Fairness == WF_vars(QueryTimeout) /\ WF_vars(PhaseTimeout)

FairSpec == Spec /\ Fairness

-----------------------------------------------------------------------------
(* Properties.                                                             *)

\* The manager's state stays within its types and within the bounds above, and
\* what is remembered of a client outside of it is about clients of the store.
TypeOK ==
  /\ mgr \in Manager
  /\ unregistered \subseteq XsmpClients \cap mgr.clients
  /\ gone \subseteq mgr.clients \cap (DBusClients \cup unregistered)
  /\ interacting \subseteq XsmpClients
  /\ <<locked, shellRunning, logindUp>> \in BOOLEAN \X BOOLEAN \X BOOLEAN

\* However a logout was cancelled or refused, a running session carries no
\* trace of it: no open question, armed timer, just-in-time inhibitor or wish to be
\* last; and it takes new XSMP clients, which no other phase does
\* (cancel_end_session, start_phase).
RunningIsQuiescent ==
  /\ mgr.accepting <=> mgr.phase = "RUNNING"
  /\ mgr.phase = "RUNNING" =>
       /\ mgr.query_clients = Empty /\ mgr.next_query_clients = Empty
       /\ mgr.jit = Empty
       /\ ~mgr.query_timeout /\ ~mgr.phase_timeout

\* Nobody is waited for without a timer: the query timer runs while a query is
\* unanswered, the phase timer throughout END_SESSION, and neither survives its
\* phase (end_phase and start_phase drop them, part 2 keeps the phase timer).
QuestionsAreTimed ==
  /\ mgr.phase = "QUERY_END_SESSION" /\ mgr.query_clients # Empty => mgr.query_timeout
  /\ mgr.query_timeout => mgr.phase = "QUERY_END_SESSION"
  /\ mgr.phase_timeout <=> mgr.phase = "END_SESSION"

\* In the query phase the list of unanswered clients names each client once,
\* names no client that has left the store (its entry would be a freed object
\* that the timeout dereferences), and no client that has already objected, so
\* that a timeout never adds a second inhibitor for a client.
QueryListIsSound ==
  mgr.phase = "QUERY_END_SESSION" =>
    \A c \in Clients : mgr.query_clients[c] > 0 =>
      mgr.query_clients[c] = 1 /\ c \in mgr.clients /\ mgr.jit[c] = 0

\* An inhibitor made for a client does not outlive it: a client that has left
\* cannot block the logout for ever (_disconnect_client).
InhibitorsOfLiveClients ==
  \A c \in Clients : mgr.jit[c] > 0 => c \in mgr.clients

\* A Shutdown() or Reboot() caller is left unanswered only while the clients
\* are being asked, or by the exit of the session manager itself.
CallersAnswered == mgr.tasks > 0 => mgr.phase \in {"QUERY_END_SESSION", "EXIT"}

\* Clients are remembered as "last" only while the session ends.
LastOnlyWhileEnding == mgr.next_query_clients # Empty => mgr.phase = "END_SESSION"

\* A step that records an objection, a refusal or a missing answer, does not at
\* the same time move the session on (end_session_or_show_shell_dialog).
ObjectionHolds ==
  [][(\E c \in Clients : mgr'.jit[c] > mgr.jit[c]) => mgr'.phase = mgr.phase]_vars

\* Client c answers, or leaves, which counts as an answer.
AnswerOf(c) ==
  \/ \E is_ok \in BOOLEAN : EndSessionResponse(c, is_ok)
  \/ SaveYourselfDone(c) \/ Phase2Request(c)
  \/ InteractRequest(c) \/ InteractDone(c, FALSE)
  \/ OnClientVanished(c) \/ XsmpClientDisconnects(c)

\* While the session ends nobody is passed over: the question to a client stays
\* open until that client answers or leaves, and nobody is asked again, nor a wish
\* to be last taken off the list, while anybody has an open question but the client
\* whose answer is being handled (part 2 of END_SESSION).
LastComeLast ==
  [][mgr.phase = "END_SESSION" /\ mgr'.phase = "END_SESSION" =>
       \A c \in Clients :
         /\ mgr'.query_clients[c] < mgr.query_clients[c] => AnswerOf(c)
         /\ \/ mgr'.query_clients[c] > mgr.query_clients[c]
            \/ mgr'.next_query_clients[c] < mgr.next_query_clients[c]
              => \A d \in Clients : mgr.query_clients[d] > 0 => AnswerOf(d)]_vars

\* The session does not start to end for a shutdown or reboot before logind has
\* announced it: a step that begins END_SESSION consumes PrepareForShutdown.
ShutdownWaitsForLogind ==
  [][mgr.phase = "QUERY_END_SESSION" /\ mgr'.phase \in {"END_SESSION", "EXIT"}
     /\ mgr'.logout_type = "SHUTDOWN"
       => mgr.shutdown_expected /\ ~mgr'.shutdown_expected]_vars

\* The phases keep the promises of SessionLifecycle, with unanswered tasks as
\* the waiting callers and the client store as the members.
Lifecycle == INSTANCE SessionLifecycle WITH
  stage <- CASE mgr.phase = "RUNNING" -> "running"
             [] mgr.phase = "QUERY_END_SESSION" -> "asking"
             [] mgr.phase = "END_SESSION" -> "ending"
             [] OTHER -> "over",
  members <- mgr.clients,
  waiting <- mgr.tasks
ImplementsLifecycle == Lifecycle!Spec

\* on_shutdown_prepared() asserts that it is told of success in the query phase
\* only, as if nothing could end that phase while logind prepares.
NoAssertionFailure == mgr.fault # "assertion"

\* Once END_SESSION is entered it is left: by the clients' answers, by a cancel
\* or after the phase timeout, but not never.
EndSessionTerminates ==
  mgr.phase = "END_SESSION" ~> (mgr.phase # "END_SESSION" \/ ~Dispatching)

\* A client that never answers delays the decision by one query timeout only.
QueryIsAnswered ==
  mgr.phase = "QUERY_END_SESSION" /\ mgr.query_clients # Empty
    ~> mgr.phase # "QUERY_END_SESSION" \/ mgr.query_clients = Empty
       \/ ~Dispatching

\* A forced logout is not held up by clients, inhibitors or a missing shell: it
\* ends the session, unless it is cancelled or another request takes over.
ForcedLogoutEnds ==
  mgr.logout_mode = "FORCE" /\ mgr.logout_type = "LOGOUT" /\ mgr.phase # "RUNNING"
    ~> \/ mgr.phase \in {"EXIT", "RUNNING"}
       \/ mgr.logout_mode # "FORCE" \/ mgr.logout_type # "LOGOUT"
       \/ ~Dispatching
=============================================================================
