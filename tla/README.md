# scarecrow-session: a verification project

TLA+ models, TLC runs and TLAPS proofs about `scarecrow-session`, the session
manager of the Scarecrow desktop (C, GLib, one thread on a main loop). It starts
the applications of a session phase by phase, keeps track of clients that
register over D-Bus or XSMP, lets applications inhibit logout, suspend or idle,
and ends the session in order: it asks every client, shows the shell's dialog
when something objects, lets clients save their state, saves the session, and
prepares a shutdown or reboot with the login daemon.

Source files named below are in `src/scarecrow-session/`, unless their path begins
with `tools/`, which is `src/tools/`.

## Inventory

| component | state | operations | interacts with |
|---|---|---|---|
| End of session (`scsm-manager.c`) | phase, logout mode and type, `query_clients`, `next_query_clients`, two timers, pending tasks, dialog handlers | Logout, Shutdown, Reboot, Inhibit, Uninhibit, RegisterClient, client answers, disconnects, timeouts, dialog answers, logind answers, cancel | all of the following |
| Startup (`scsm-manager.c`) | phase, `pending_apps`, `required_apps`, phase timer, systemd flags | start a phase, app registered / exited / died, timeout, Initialized, condition changes, restart | applications, clients |
| Applications (`scsm-app.c`, `scsm-autostart-app.c`) | pid, child watch, `registered`, last restart, conditions | start, stop, restart, child exit, condition change | manager |
| D-Bus clients (`scsm-client.c`, `scsm-dbus-client.c`) | status, bus name watch | query, end, cancel, stop, response, vanish | manager |
| XSMP clients (`scsm-xsmp-client.c`) | connection, current and next SaveYourself | register, SaveYourself, phase 2, interact, done, close | manager, libSM |
| XSMP server (`scsm-xsmp-server.c`) | listening sockets, `stopping`, auth watches, protocol timers, the ICE authority file | write the cookies, accept, authenticate, time out | client store, other session managers of the user |
| Store and inhibitors (`scsm-store.c`, `scsm-inhibitor.c`) | objects by id; owner, flags, bus name watch | add, remove, foreach-remove, vanished | manager, backends, shell |
| Shell dialog (`scsm-shell.c`) | proxy, `is_running`, `dialog_is_open`, queued update | open, close, answers, update, the shell's death and return | manager, inhibitors |
| System backends (`scsm-systemd.c`, `scsm-consolekit.c`, null in `scsm-system.c`) | inhibitor list, descriptors, `prepare_for_shutdown_expected`, `is_active` | add / remove inhibitor, prepare, complete, late answers | login daemon |
| Presence (`scsm-presence.c`) | status, saved status, idle watch, screensaver | set status, idle, timeout changes | manager |
| Session saving (`scsm-session-save.c`) | the files of the saved session | clear, save one client after the other | XSMP clients, applications |
| Session definition (`scsm-session-fill.c`, `scsm-util.c`) | `.session` files, autostart directories, the saved session | find a session or its fallback, put applications into the store | manager |
| Session selector (`tools/scarecrow-session-selector.c`) | directories of sessions, the link to the one in use, the selected row, `.new-session` markers | select, create, rename, remove | session saving |
| Leader (`main.c`, `tools/scarecrow-session-ctl.c`, `src/data/*.target`) | a fifo, two processes, the user's units | open, signal, hang up, start units | systemd |
| Helpers, fail whale, command-line tools | none over time | | |

What makes this program hard is not threads (there is one) but that a callback may
find any state that any other callback has left, and that callbacks call back:
removing an inhibitor emits a signal whose handler may end the phase, so the code
that removed it goes on in a different phase. D-Bus methods, XSMP messages, timers,
bus watches, dialog signals and the login daemon's answers come in any order, calls
are answered late or by an error, clients and the shell vanish or never answer, and
a request crosses the cancelling of the one before. Files and fifos are shared with
processes that may die in the middle of what they do.

What each part must get right:

* End of session: a cancelled logout leaves nothing behind; nobody is awaited
  without a timer; clients that objected are not overridden by the same step;
  lists name living clients; callers get an answer; a forced logout gets through;
  a shutdown starts to end the session only after logind has announced it.
* Startup: every phase ends, each exactly once, and a failing application does
  not hold it up longer than its timer.
* Applications: what the manager believes of a process is about the process that runs.
* XSMP clients: a client is asked one thing at a time, is given the leave it waits for,
  and is not left frozen in a running session; cancelling a logout does not change that.
* XSMP server: every running session's clients find its cookies; a connection does not stay
  pending; the protocol timer does not close an established one.
* Shell dialog: an unanswered Open is not believed for ever; the dialog shows who
  inhibits; a logout that waits for it is decided.
* System backend: while somebody inhibits suspend a block inhibitor is held, and when nobody
  does none; no delay lock outlives its shutdown; the machine goes down after the
  session's clients have been ended. The code keeps none of these always: what breaks them is excepted by
  name in the properties (`overlapped`, `overwritten`, `Aborted`) and described below.
* Presence: the user's own status survives being idle, and idleness ends.
* Saved sessions: what was saved is restored, once, in the session that was selected; the
  link to it does not dangle.
* Leader: neither the login nor the session outlives the other.

## Modules

| module | what |
|---|---|
| `EndSession` | the end of a session: manager, client and inhibitor stores, clients, timers, dialog answers, logind |
| `SessionLifecycle` | abstract specification of the same: stages of a session, its members, waiting callers |
| `Startup`, `MCStartup` | phases STARTUP to RUNNING and the applications: launches, exits, restarts, conditions, the phase timer, systemd's Initialized(); for TLC |
| `Inhibition`, `MCInhibition` | the inhibitor store and its observers: InhibitedActions, the block inhibitor, the presence; for TLC |
| `XsmpClient` | one XSMP client and the connection to it: SaveYourself requests, interaction, phase 2, cancelling |
| `XsmpServer` | the ICE authority file shared by session managers, and a connection until it is a client |
| `ShellDialog` | the proxy of the shell's dialog, the shell, and the manager's side of it |
| `SystemBackend` | shutting down with the login daemon: delay lock, late answers, other people's shutdowns |
| `SavedSession`, `MCSavedSession` | from one login to the next: selector, login, clients, clearing and saving; for TLC |
| `Leader` | the leader, the monitor and the fifo between them |
| `EndSessionProofs`, `StartupProofs`, `InhibitionProofs`, `XsmpClientProofs`, `XsmpServerProofs`, `ShellDialogProofs`, `SystemBackendProofs`, `SavedSessionProofs` | theorems about these modules |

The modules meet where one's environment is another's subject. `EndSession` lets
any dialog signal come while its handlers are connected, any client answer at any time,
and logind's announcement come while one is expected; `ShellDialog`, `XsmpClient` and
`SystemBackend` say when these really come, and show of the manager only its phases
and what starts, cancels and ends a logout, with every order of these that other
clients, timers and callers could bring about. An application of `Startup` is one
that `SavedSession` has put into the store. `XsmpServer` ends where a connection becomes a
client, with which `XsmpClient` begins. `EndSession` and `Inhibition` look at one
store from two sides: there an inhibitor is an objection to logout, here a set of flags.

In all modules an action is one main-loop callback (or one step of an external
process) with everything it calls, in its order. A C function that is called from
several callbacks, or re-entrantly, is an operator from the record before the call to
the record after it, with the function's name.

### EndSession and the code

`mgr` is the manager's private structure with its stores and its system backend;
the other variables are what the manager does not know: which clients have not
registered yet, which have left unnoticed, who interacts, and settings and
services that may change at any time.

The operators follow the functions: `HandleResponse` is `_handle_client_end_session_response`, `RemoveJit` is
`scsm_store_foreach_remove` with the client's id, which emits "removed" for each
inhibitor, whose handler (`OnInhibitorRemoved`) may call `end_phase` (`EndPhase`),
and `AfterResponse` is what `_handle_client_end_session_response` does after that,
reading the phase again. The lists are bags: their order decides only in which
order clients are sent a message.

Abstractions:

* REBOOT, SHUTDOWN and their `_INTERACT` variants take the same paths and are one type.
* The four kinds of inhibitor flags are "logout" and "other"; only LOGOUT is read here.
* An inhibitor made for a client (just-in-time) is counted per client, up to
  `MaxJit` = 2: with two, removing them emits a signal while the first handler has
  already moved the phase. More add further emissions of the same handler.
* Settings that change nothing but the content of messages are left out: the SAVE
  and FORCEFUL flags, saving of the session, idle, emitted D-Bus signals, logs.
* The clients' restart when they disconnect concerns applications (Startup).
* While its handlers are connected and the shell runs, any dialog signal may come;
  when a dialog is really open is the subject of `ShellDialog`.
* `on_shutdown_prepared` connected several times is one handler: it disconnects
  all connections of the function first.
* Phase EXIT ends in `scsm_quit` in the same call. EXIT means here that the main
  loop has been told to stop and dispatches nothing more.
* A registered client may answer at any time, asked or not. For D-Bus clients this
  is exact. libSM filters some unsolicited XSMP answers (`interacting` keeps one of
  these filters, the one that matters for cancelling), so XSMP clients do more here
  than they can; `XsmpClient` has the filters. A client that has not registered does not answer.
* Access to a freed client is undefined: `fault` becomes "freed_access" and the process may crash
  at any later point, or go on.

### Startup and the code

`mgr` holds the manager's fields that matter before RUNNING and, in `app`, one
record per application: which signals the manager is connected to, `registered`,
whether a pid is known, how many children exist, and whether the last restart was
less than a minute ago. `client` and `condition_clients` are the clients by the
application they belong to; `enabled` says which autostart conditions hold.

* An action is a callback: a child exits or dies, a client registers or disconnects,
  a condition changes, the timer fires, systemd calls Initialized(). `AppEvent`,
  `RestartApp`, `AppDied`, `EndPhase`, `StartPhase` are the functions they call.
* `do_phase_startup` calls `end_phase` when nothing is to be awaited, which calls
  `start_phase` again. `StartPhase` goes at once to the phase where this stops
  (`Holds`) and `StartApps` launches what belongs to the phases on the way.
* Whether launching an application succeeds is up to the operating system; `ok` is
  the set of applications it would launch in this callback (`Outcomes`).
* An application can have more children than the pid the manager knows, because
  `autostart_app_start_spawn` overwrites pid and watch while the old child may run.
  `MaxProcs` = 2 is that: an old and a new child.
* Applications started by a D-Bus call have no child. Applications disabled
  outright never take part and are left out.
* A fatal `InitializationError()`, a fail whale that exits or can not be spawned,
  SIGTERM and the loss of the bus name quit the program: `Terminate`.
* ENDING stands for the logout phases, in which only the treatment of clients that
  disconnect differs; `EndSession` is about them.

### Inhibition and the code

`inhibitors` gives the flags of each inhibitor in the store, by cookie; `system` and
`presence` are the private structures of `scsm-systemd.c` and `scsm-presence.c`.
`Inhibit` and `Uninhibit` are the handlers of "added" and "removed", with everything
they call: the backend (`AddInhibitor`, `RemoveInhibitor`), InhibitedActions, and
`update_idle` (`UpdateIdle`), which resets the idle watch. `Uninhibit` stands for the
method, the owner's leaving the bus and a client's end. `InhibitDone` is logind's
answer, which may be an error, a reply without a descriptor or one with it.

Abstractions:

* SWITCH_USER and AUTOMOUNT are recorded in InhibitedActions like the others and are
  read by nobody; inhibitors with only these change nothing that is modelled.
* Whether Inhibit() is refused (forced logout, empty names) is in `EndSession`.
* The idle monitor is external: an idle watch may fire while it is registered,
  a watch for activity at any time, once. How many of these are pending is not
  counted: when one fires others may remain. The idle delay is zero or not.
* `refused`, `overlapped` and `own` are history: what logind has said since it was last asked,
  whether it has ever been asked while an answer was due, and
  which status a caller set last. A caller may set IDLE, which has no watch.
* The block inhibitor is a Boolean; `leaked` says that an open descriptor has been
  overwritten, which blocks suspend until the process exits. `SuspendIsBlocked` counts it: nothing
  is leaked unless calls have overlapped, with which the code may leak (see the findings).
  The status text and messages are left out.
* A session may run again (after a cancelled logout), which calls `update_idle`.

### XsmpClient and the code

`srv` is the private structure of one XSMP client with what libSM remembers of its
connection, and of the manager the phase and whether it waits for this client. The
operators are the methods and libSM's callbacks; an operator's `out` is what it sends.
`toClient` and `toServer` keep the order of messages and take their time. The client
is one that follows the protocol: it may checkpoint, interact, ask for phase 2, be slow.

* Other clients make the manager go on (`GoesOn`), give up waiting (`GivesUp`), or cancel
  (`Cancel`) at any time; another Logout() may change the mode or go on (`LogoutAgain`).
* The bogus SaveYourself of type -1 that the code sends when nothing is queued (see below)
  is sent here as well, and rejected by the client's libSM.
* `late` is history. A cancelling that overtakes a request the client has not finished makes it
  "answer": the properties hold on. If the client is then sent another SaveYourself before it
  has finished with the cancelled one, it is "request", and the client is `Confused`: the
  protocol does not tell the answers of the two apart, the client may stay frozen or
  unanswered (see the findings), and the properties except it until a cancelling finds it idle.

### XsmpServer and the code

`SetupListener` to `WriteEntries` are the steps of `setup_listener` and
`update_iceauthority`, which several processes of one user interleave: the file is read
and written under libICE's lock file, which is broken when it is older than ten minutes.
A manager that gets no lock, or can not open the file (`CannotOpenEntries`), gives up.
Network ids are made of process ids, so that an id may have been used before. Writing
replaces the first entries of the file and truncates nothing. Every manager may end or die
anywhere; one that dies while writing leaves the file `torn`, of which nothing is claimed.
`conn` is a connection with the server's two sources on it, the auth watch and the
five-second timer. Whether libICE finds the client's cookie right is decided by what
the client found in the file when it connected.

### ShellDialog and the code

`scsm` has `ScsmShellPrivate` and the manager's fields that opening the dialog depends on.
`Open`, `Close`, `OpenFinished`, `DialogSignal`, `QueueUpdate` are functions of `scsm-shell.c`;
`Show`, `EndSessionOrShowDialog`, `DialogConfirmed`, `DialogCanceled`, `Removed` of
`scsm-manager.c`. The manager's handlers are called from within them. The shell takes
calls in order, answers Open later or refuses it, shows one dialog, and dies and returns;
the bus answers calls to a dead shell with errors.

* An update of the dialog waits for the main loop to be idle (`NeedUpdate`).
* Clients answer the query at any time (`QueryEndSessionComplete`).
* `missed` and `died` are history: an update dropped while Open was unanswered, a shell
  that died while it was waited for. The properties speak of the other cases.

### SystemBackend and the code

`kind` is the backend. `sys` is its private structure, with a number for each open
descriptor, of which `daemon.locks` is what the login daemon counts. A lock that a second
request has overwritten is nobody's to close: it stays among them, and in `daemon.overwritten`, which is
history, until the process ends, and the kernel closes everything (`Quit`). The process ends by
`scsm_quit`, after END_SESSION, or by the assertion of finding 1 (`Aborted`). The daemon sends
PrepareForShutdown and answers in one order (`bus`), refuses calls, is asked for
shutdowns by others, delays while a lock is open, and not longer than its limit. The two
backends differ in what happens when no lock is granted (`PrepareWithoutLock`).
`scsm_system_null` prepares nothing: a query for shutdown is never decided with it.

### SavedSession and the code

`dirs` and `link` are the file system: `saved-session` is a symbolic link to a directory, a
directory itself (`Plain`), missing, or dangling. The selector works on it before a
login (`SelectorStarts` to `SelectorEnds`); `FindSession` and `AddApp` are
`scsm_session_fill` with the store's rules for duplicates; `AppRegisters` and
`ProgramRegisters` are the XSMP clients of a session; `EndSession` to `SaveOneClient` what
is cleared and written at its end, with an error (`SaveFails`) or the end of the process
(`Exit`) after each file.

* A desktop file is its name, startup id, program and services. `todo` is what is
  still to be read in each of the three places, in their order. `Manager`, `File` and `Client` are
  the types of what is kept, and part of `TypeOK`.
* Whether a `.session` file is runnable is a choice.
* Clearing one client's file is the discard command and `unlink` together.
* Left out: `AutostartCondition` and `TryExec`, which decide whether an application that
  is in the store runs; the greeter; the texts of the selector.
* A program in `Rude` ignores `DESKTOP_AUTOSTART_ID` and registers with a new id.

### Leader and the code

`leader` and `monitor` are the two processes by what they are blocked in, `bytes` the
fifo, `session` what the user's systemd has been asked to do. `LeaderOpens` is both sides'
`open()`, which each blocks until the other comes. `Faults` are failing calls (of `open()`,
and of `StartUnit` in both processes) and signals without a handler. A monitor that is killed, or whose
`StartUnit` fails, still ends the session, because `scarecrow-session.target` is bound to the
monitor's service (`BindsTo=`): `TargetFollowsMonitor` is the user's systemd stopping it.

### Runs

| run | instance | distinct states | what it shows |
|---|---|---|---|
| `end_session` | one client of each kind, one inhibiting application, no prompt | 1.6 million | safety invariants, action properties, and that `EndSession` implements `SessionLifecycle` |
| `end_session_live` | one client of each kind, prompt | 0.5 million | liveness: END_SESSION is left, a query is decided, a forced logout ends the session |
| `startup` | a required Wayland compositor, a required daemon with autorestart and a condition, a required panel activated over D-Bus, managed by systemd | 0.24 million | no phase stalls or is skipped, pids are children, applications are given up for cause, the compositor is not restarted; the session reaches RUNNING |
| `inhibition` | three inhibitors, two answers of logind due, two statuses besides IDLE | 0.28 million | the observers agree with the store, suspend is blocked when somebody inhibits it and by no lost descriptor, idleness is watched for and ends |
| `xsmp_client` | up to three messages in each direction | 1.6 million | a client is not left frozen or waiting, and saves once at a time, also across a cancelling |
| `shell_dialog` | one just-in-time inhibitor, shutdown, two calls and two signals under way | 0.3 million | Open ends, the dialog shows who inhibits, a query that waits for it is decided |
| `system_backend` | each backend, three locks | 76 thousand | no lock but an overwritten one, and no expectation, outlives its shutdown, the machine goes down after END_SESSION or an abort, a shutdown is decided |
| `xsmp_server` | three managers, two ids, one connection | 37 thousand | cookies are found, a connection is decided |
| `saved_session` | four applications, two names, four startup ids, any settings | 0.2 million | the types, that what is saved is restored, once, in the selected session, whose link does not dangle |
| `leader` | three logins, faults | 476 | leader and session end each other |
| `end_session_assert`, `leader_waits` | small | stop at the counterexample | the findings below |

Bounds.

* `EndSession`: one client of each kind and one application have all kinds of
  callbacks and relate two clients to each other, one that is or wants to be last and one
  that answers. `MaxTasks` and `MaxCalls` = 1: callers are answered all at once, so one
  stands for any number; a logind call is in flight or not, several being told apart by
  nothing in the code. `MaxJit` = 2 is given above. The proofs hold for every bound.
* `Startup`: three applications give every kind of application (required, restarted,
  conditional, activated, display server) and phases with nothing to wait for between
  phases that hold. `MaxProcs` = 2 is an old and a new child.
* `Inhibition`: `MaxCalls` = 2 is an old and a new call to logind; two inhibitors overlap in a
  flag while a third comes or goes, and they are interchangeable (`Symmetry`).
* `XsmpClient`: `MaxMessages` = 3 holds a request, the cancelling that crosses it, and the next
  request, against an answer and a checkpoint. With two, no message is left to cross.
* `ShellDialog`: `MaxOpen` = 2 is an unanswered Open and the one that follows after a Close or a
  death; `MaxSignals` = 2 is a decision with "closed". Shutdown has everything logout has
  and the preparation besides. Larger instances, with both types or an
  application's inhibitor as well, have 1.5 to 8.6 million states and the same result.
* `SystemBackend`: `MaxLocks` = 3 is an overwritten lock, one in use, and one of a new request; it also
  bounds the calls without an answer that has been read.
* `XsmpServer`: three managers are one that has died, one that rewrites the file and one
  that waits for the lock; the second id is used again by the third. Connections do not
  touch each other.
* `SavedSession`: two applications with the same service (one for the fallback), an
  ordinary one and one that ignores its id; two names are one to leave and one to go to, and
  none left for a third. A startup id is free again when nothing has it any more; a fifth
  with three applications (0.67 million states) gives the same. Names and ids
  are symmetric.
* `Leader`: a login after a login of which each process may be left over, and one more.

`CHECK_DEADLOCK FALSE`: the session manager really stops, and so do the processes of `Leader`.
`XsmpServer` and `SystemBackend` say where they stop; `SavedSession` has no last state.

Fairness.

* `EndSession`: a GLib timer that stays armed fires: weak fairness of `QueryTimeout` and
  `PhaseTimeout`, and nothing else. Clients, the user, the shell and logind may never act.
* `Startup`: the phase timer too, that `ManagerStart` is dispatched once the name is acquired,
  and that systemd reaches `scarecrow-session-initialized.target` and calls
  Initialized(): without it the INITIALIZATION phase has no timer of its own.
  Applications may never register nor end.
* `ShellDialog`: the main loop dispatches what has come, a shell that lives takes and answers
  calls, and its dialog decides by itself after `AUTOMATIC_ACTION_TIMEOUT` (60 seconds), a
  constant the manager hands to it. Nothing is assumed of a shell that has died.
* `SystemBackend`: the main loop dispatches, a quitting process ends, and the login daemon
  answers its calls.
* `XsmpServer`: the protocol timer fires. Clients may never act.
* `Leader`: processes run, and systemd finishes its jobs. That a session starts or anybody logs
  out is not assumed.

What is not claimed: a NORMAL logout with an inhibitor and no running shell stays in the
query phase, without a timer, until the next request; a shutdown waits without a timer for
a login daemon that does not answer; a shell that dies leaves the query undecided; a late
failure of one Reboot or PowerOff call cancels whatever is under way, also a newer request; a leader
whose `open()` has not returned, or has failed, does not notice the session's end.

### Findings

1. `end_session_assert`. `on_shutdown_prepared` asserts that the phase is
   QUERY_END_SESSION, but nothing keeps the session there while logind prepares: the
   dialog may be confirmed for a plain logout, or the logout cancelled over XSMP.
   logind's announcement then aborts the session manager. Its locks are closed with it, so that the
   machine goes down at once, with clients that have not been told (`DownAfterEnd` excepts this).
2. `leader_waits`. `leader_fifo_io_cb` tests `condition | G_IO_IN` and `condition | G_IO_HUP`
   (`tools/scarecrow-session-ctl.c`, 167 and 171), which always hold. The byte with which a
   leader says that it has been told to end makes the monitor end, and with it the fifo
   and the leader, while the session's services are still being stopped.
   `systemd_leader_run` says that the leader quits just after the session is done.

Also met while modelling, without a run of their own.

End of session:

* A client whose exit is the last missing answer is asked to end, and awaited, once more:
  the phase is advanced before the store forgets the client. If another client
  remains the session ends only after the 90 second timer.
* In END_SESSION a second Logout(), or the removal of an inhibitor, exits although
  clients have not replied, contrary to the comment in `_handle_client_end_session_response`.
* A client that asked to be last and then exits stays in `next_query_clients`, a
  freed object that part 2 uses (`EndSessionPart2`, fault "freed_access").
* An XSMP client that breaks before it has registered stays in the store for ever
  (`UnregisteredClientBreaks`), although the comment in `client_iochannel_watch`
  expects "disconnected" to clean up; each later logout waits for it.
* With `logout-prompt`, END_SESSION may wait out its timer with no question open
  (a prompt is shown that cannot be confirmed any more).
* `on_shell_end_session_dialog_confirmed_*` sets the FORCE mode before the lockdown
  is looked at; if the logout was cancelled before and is locked down now, the mode stays.

Startup:

* `scsm_autostart_app_restart` frees the error of a failed stop and hands the dangling
  pointer on; when the start fails as well the error is used and freed again. A stop
  fails whenever the application has ended already.
* A required application that cannot be launched, or that ends successfully without
  registering, is passed over and the session runs without it, although the doc comment
  of `scsm_manager_add_required_app` promises that the user is informed.
* `registered` is never reset: an application with autorestart that crashes after a
  restart, before it has registered again, is left to the client's disconnection,
  and there is no client (`AppDied`).
* An activated application that registers before its phase begins is awaited in its
  phase although nothing can change any more: the timer fires, and if it is
  required the fail whale is shown.
* One crash of an application with a client is seen twice, as an exit and as a
  disconnection. For a required application whose exit restarted it, the second restart is
  refused as too early, and the fail whale is shown over a session that works.
* The late exit of a replaced child clears the pid of its successor: `is_running`
  is then false for an application that runs (`Reap`).
* `app_died` and `app_exited` do not look at the phase: applications that end
  during a logout are restarted, which the comment at `main.c:93` does not expect.

Inhibitors and backends:

* An inhibitor of suspend that is released and taken again before logind has answered
  leaves two answers due; `inhibit_done` overwrites the first descriptor with the second.
  Nobody closes it: sleep and shutdown stay blocked until the session manager exits
  (`overlapped`, `leaked` in `Inhibition`).
* When logind refuses the block inhibitor it is not asked again before the last
  inhibitor of suspend has gone (`AddInhibitor`).
* A second `prepare_shutdown` overwrites `delay_inhibit_fd`: the first lock leaks, and delays
  the machine, also when its own call fails, and every later shutdown by anybody
  (`overwritten` in `SystemBackend`).
* The late failure of an earlier Reboot or PowerOff call cancels a newer request:
  `shutdown-prepared` does not say which request it is about.
* A Reboot or PowerOff call that fails because of somebody else's shutdown may be answered
  in END_SESSION: the lock is dropped and that shutdown no longer waits for the session.
* PrepareForShutdown of somebody else is ignored, unless one's own is expected, for which
  it is then taken. A handler of "shutdown-prepared" left by a cancelled logout ends the next query.
* ConsoleKit's backend goes on without a delay lock where systemd's gives up.
* `return_false` of the null backend returns TRUE (`scsm-system.c:76`): it claims to be able to
  shut down, prepares nothing, and the query is never decided.
* The property "active" is TRUE by construction, after `init` has read what it really
  is; it stays wrong until the session is next switched. ConsoleKit's `init` never reads it.
* ConsoleKit's interface lacks the firmware functions; systemd's setter frees a result it has
  not got when its call fails.

XSMP:

* A SaveYourselfDone with nothing queued sends a SaveYourself of type -1, which the
  client's libSM rejects; a queued SaveYourself of type 0, `SmSaveGlobal`, is never sent.
  Therefore a client that saves a checkpoint is never asked whether the session may end:
  the answer of the checkpoint is taken for it.
* In END_SESSION such a client may owe no answer, and is waited for until the timer fires.
* When a logout is cancelled before a client has answered, and the client is asked again
  meanwhile, its answer counts for the next query, and it can stay frozen when that is
  cancelled as well (`Confused` in `XsmpClient`).
* `update_iceauthority` is never called to remove entries: they stay until a process with the
  same id replaces them. The file is rewritten in place, so that a process that dies while it
  writes can lose the cookies of others, and clients may read half of it. A lock left by
  a process that died keeps others from logging in for ten minutes.

Shell dialog:

* An update is lost while Open is unanswered: the dialog lists those who inhibited then.
* An update that is queued when the dialog is cancelled or confirmed, or by the removal of
  just-in-time inhibitors after it, opens a dialog nobody asked for. Nobody
  is connected to its signals.
* A shell that dies after it has answered Open leaves the query undecided.
* A logout cancelled over XSMP leaves the dialog on the screen; confirming it starts
  another, forced, logout.
* While Open is unanswered, one for another kind of dialog is dropped without an error.
* Closing the dialog does not disconnect the handlers of the store's signals.

Saved sessions:

* `discard_hash` is still empty when the old session is cleared: discard commands run
  for state that the new files are going to name.
* The old session is cleared before the new one is written: a crash or an error in between
  loses it. A logout without saving clears it too, and so does one of a session that could
  not be filled, or is managed by systemd.
* The one-shot setting is reset before the directory is known.
* `save_one_client` propagates an error and then frees it.
* `AutostartCondition` is saved only if the key of autorestart is present;
  `scsm_autostart_app_get_provides` returns NULL without a key for it.
* Clients that ignore their startup id are started once more with each saved session.
* When every name for a new session is taken the link is removed and the selector
  crashes; with a dangling link nothing is ever saved. A cycle of `FallbackSession`
  keys ends in unbounded recursion.

Leader:

* A leader killed before the monitor has opened the fifo leaves the monitor blocked, and the
  session up, until the next login; a leader whose monitor never starts is blocked as well.
* A leader that could not open the fifo does not notice the session's end. After the first
  SIGTERM its handler is gone.

## Proofs

The theorems hold for every value of the constants that the named assumptions allow.
Each proof is of an inductive invariant, `IInv`: the invariants of the runs are not
inductive one by one. Every invariant and every action property of the runs is a
theorem, and so is every liveness property but those of `ShellDialog` and `Leader`.

Liveness is proved from an assumption that says of each action in the module's fairness
that its guard is false again and again or the action is taken again and again
(`PhaseTimerFires`, `CallbacksCome`, ...). This is weak fairness with the guard in place of
ENABLED, of which the prover knows nothing. The two are the same where the action can be
taken, and changes the state, exactly when the guard holds: each of these actions
switches off, counts down or consumes what its guard asks for, and has an outcome for
whatever else it chooses. The equality is not proved; TLC finds it to hold in every reachable state of
the instances of the runs. What remains is a state argument (the invariant says which guard
holds while the state is undecided, lemmas say that only decisions change that, and
that the action decides) and propositional temporal logic.

`EndSessionProofs` proves every invariant of the run `end_session`, and that
`EndSession` implements `SessionLifecycle`. The assumptions are those of `EndSession`:
the client sets are disjoint, the prompt is a Boolean, the bounds are positive.
That a query names each client once rests on the fact that a running session has no
just-in-time inhibitor left, which rests on the reset in every phase change, and so on.
`IInv` is `TypeOK` with `Orderly(mgr)`, the conjunction of them as a predicate of a
record. Because C functions nest, the argument is by function, not by action:
`Proper(m, n)` says that a call that finds an orderly record m leaves an orderly record
n and moves the session only onward (`Onward`): it adds no inhibitor and no entry to
the lists the callers go on with, and takes the phase only where `SessionLifecycle`
allows (`Advances`). One lemma per function shows that it is proper, using the lemmas of
its callees and that properness is transitive; one lemma per group of actions then
shows that a step is `Good`, which contains both the invariant's preservation
(theorem `Invariant`) and the refinement step (theorem `LifecycleImplemented`).
The action properties speak of what a call finds and leaves, and need more than
orderliness: `Prudent(m, n)` says that a call never changes what the logout is for except to
nothing, begins the end of the session for no shutdown, and leaves the lists of open questions
alone while the session ends. `Answers(m, n, c)` says that, while the session ends, an answer of c, or
its leaving, asks nobody again, takes no wish to be last off the list and closes nobody else's
question (`Patient`), unless no other client has an open question, and `NoNewJit` that a
call records no new objection.
`StepPromises` has them for every step; theorems `ObjectionsHold`, `ShutdownsWait` and
`LastAreLast` follow. The liveness theorems `EndSessionIsLeft`, `QueriesAreAnswered` and
`ForcedLogoutsEnd` rest on `QuestionsAreTimed` and on what the two timers' callbacks do; the
last one also on `ForcedIsTimed`, an invariant of its own: a forced plain logout is never in
the query phase without the query timer.

`StartupProofs` proves the invariants and the action properties of the run `startup`, for
any applications in any phases and any bound on processes. The assumptions are those of
`Startup`: the applications are finitely many and their phases are startup phases, the
settings are Booleans, the bound is positive. `IInv` is `TypeOK` with `Good(mgr)` and
`NothingYet` (before the start there are no clients and no children, so that no
callback but the start changes the phase). `Good` is needed because the invariants
rest on each other: that INITIALIZATION is left only after systemd is ready uses that
a phase without pending applications is INITIALIZATION waiting for systemd, and this
uses that `StartPhase` stops at the first phase that holds. `FirstHold` shows that
there is such a phase, which a CHOOSE needs, and `StartPhaseGood` that the record is
good again there. Within a call an application may have any number of
processes (`AnyManager`); `BecomeGood` applies the bound when the call returns. The action
properties compare the records before and after a call: `About(m, n, b)` says that a
call about application b neither gives up another application nor launches one that has
been launched before, and the lemmas named `...Keeps` and `...About` show it of each function.
`StartupsComplete`: steps go on (`Onward`: no call leads back to an earlier phase or forgets that systemd
is ready), `PhaseIsLeft` shows of each phase that it is left (STARTUP by the start,
INITIALIZATION after systemd is ready and its applications are waited for, the others by their
timer), and nine phases make a startup.

`InhibitionProofs` proves every invariant of the run `inhibition`, for any inhibitors,
statuses and number of calls. The assumptions are those of `Inhibition`: AVAILABLE is
a status, IDLE is not one of the others, the bound is positive. `IInv` is one conjunct
per observer: `StoreInv`, `SystemInv`, which adds that while somebody inhibits suspend
there is a descriptor, a call without an answer, or a refusal, and that unless calls have
overlapped nothing is leaked and a call is only due when there is no descriptor to
overwrite (`Overlap`; `SuspendIsBlocked` speaks only of the time when nothing is due), and `PresenceInv`, which says of a
presence record that its idle watch is in order (`Watching`) and that it keeps the
caller's status (`Keeping`). That every idleness ends needs the latter: otherwise what
is restored could be IDLE. Lemmas about `UpdateIdle`, `BecomeIdle` and `BecomeNotIdle`
say that they maintain both.

`XsmpClientProofs` proves the types and every invariant of the run `xsmp_client`, for any
number of messages under way. `IInv` follows the one save a client may be busy with (`Core`):
a request that the session manager counts is under way, worked on or answered, exactly once, and what
is under way comes in an order (`Ordered`) in which the client is not asked twice nor told to go
on before it has answered. After a cancelling that has overtaken a request (`late` = "answer") the manager
counts on nothing, and the news of it follow what they have overtaken, so that the client
is released when it reads them. Nothing is said of a `Confused` client. `Waiting` says that leave
to interact is due to a client that waits for it. The callbacks send and queue within one call;
the lemmas are about what will be under way when the call has returned.

`XsmpServerProofs` proves the types of locks and connections, that one manager at a time uses
the authority file (a manager that reads or writes holds a lock that is not old,
`WriterHasLock`), and that a connection has one watch and one timer while it is pending, from
which `PendingAreDecided` follows. `CookiesAlwaysFound` is by `CookieInv`: the file, and what a
manager is going to write, name no protocol and id twice, and contain the entries of every
manager that listens; living managers have different ids. `Ranked` and `KeptPicks` show that what is
kept of the old file are the entries of other ids, each once; since the list is not shorter than the file,
nothing of the old file is left behind it.

`ShellDialogProofs` proves the types, `OpenWillFinish`, `InhibitorsShown` and `DecisionIsDue`, from which
the liveness of `shell_dialog` follows under its fairness. The last one's invariant is that, whenever the manager's
handlers are connected or an Open is believed to be unanswered (such an Open is not
repeated for new handlers), the last call on the way to the shell is an Open, or there is
none and the dialog is shown, or the failure or the decision is on its way back, or
the shell has died. `Leads(s, r)` says of a function that it makes the manager wait only if
it calls Open, and Close only if it waits for nothing; `Calm(s, r)` that it does neither.
`InhibitorsShown` has `ShownInv`: the last Open under way names those who inhibit, while nothing is to be
updated; `Shows` and `Still` say of each function that it opens with the inhibitors there are, or
changes none behind the proxy's back.

`SystemBackendProofs` proves the types and the properties of the run `system_backend`, for any backends
and any number of locks. `LockIsDue` needs, besides that an overwritten lock is always recorded as one, two facts more: PrepareForShutdown comes only of
a shutdown, which is not undone (`PreparedIsUnderWay`: otherwise dispatching it would take away the
last reason for a lock), and a process that has ended holds and expects nothing (`NothingLeft`:
nobody tells it how its call ended). `DownAfterEnd` is by a count (`LocksCounted`): while the
process lives and always got its locks, there is a lock for each unanswered call, each failure that
it has not seen and its own shutdown, but for the one that `complete_shutdown` gives back; so that locks
that are leaked or dropped by the failure of another call do not let the machine go too early.
`ExitQuits` says that EXIT is only reached by quitting, after END_SESSION, so that a process that is gone has
quit, or aborted.
`ShutdownsAreDecided` needs that the backend expects what the manager waits for
(`HandlerExpects`); then a call is unanswered or a message waits, and the first one decides, whichever it is.

`SavedSessionProofs` proves the types, `SelectedIsCurrent`, `SavedIsRestored` and `StartedOnce`, from
`SavedSessionAssumption`. `IInv` says of each stage what it leaves to the next. `LinkInv` is for the link: it is
missing only before there is a session or when every name is taken, and it dangles only while there is no
session; the selector, which alone moves directories, moves the link with them. The heart is
`FillInv`: while a login fills the store, each saved application is still to be read or
is restored, and until all have been, an application that has the name of a saved one was
itself saved with the same startup id. This is why a required component, which is looked for
in the saved session first, does not keep its saved self out; it rests on names
being unique in a directory (`FilesInv`), which saving maintains. `StartInv`, for `StartedOnce`,
says of files, store, clients and what is still to be read that a startup id belongs to one of
them and a program that uses its id to one id. It needs that a startup id is no application's name,
which the assumption says: an id is generated, with a prefix, a time stamp and the process id.

Only model-checked: the liveness of `ShellDialog` (each call that waits in front of the Open has to be
taken first, which needs induction over a queue of any length) and the properties of
`Leader`, of which 476 states are all there is for three logins. Only proved, and in no run:
`TypeOK` of the modules but `SavedSession`, `LastOnlyWhileEnding`, `BothInitialized`, `OwnStatusSurvives`,
`DecisionIsDue`, `OneWriter`, `WatchedOnce`.

## Mutants

A definition named `Mutant...` stands before the definition it varies and changes
it the way a plausible bug would (a list not cleared, a timer not armed, an answer
not recorded, an inhibitor ignored). No behaviour uses them; `PROJECT.json` says
which property of which run must notice each of them.

## Not modelled

* The loss of the session bus (`on_session_connection_closed`, `remove_clients_for_connection`):
  GDBus ends the process, or the fail whale is shown (`on_name_lost`).
* `Setenv`, the requests answered from constants or settings, D-Bus properties and signals,
  logs: they change nothing that another operation reads.
* How an autostart condition is parsed and monitored: conditions change in
  `Startup` at any time.
* Suspend, hibernate and the queries of what is allowed, which keep no state.
* The fail whale's dialog, the helper that runs a program and waits, environment handling,
  the check of the graphics driver, and the command-line tools that call one D-Bus method.
* Error handlers of libICE and libSM, which log; several sockets of one XSMP server.

## Plan

Left, in this order:

1. Liveness of `ShellDialog` for queues of any length, if a measure can be found that needs no
   induction over data.
2. Autostart conditions: parsing, file and settings monitors, with the D-Bus query
   of which are handled.
