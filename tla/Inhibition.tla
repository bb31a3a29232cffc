------------------------------ MODULE Inhibition ------------------------------
(***************************************************************************)
(* What follows from an inhibitor outside of logout: the inhibitor store   *)
(* (scsm-manager.c) and its observers, which are the property              *)
(* InhibitedActions, the block inhibitor that the session manager takes    *)
(* from logind for all who inhibit suspend (scsm-systemd.c), and the       *)
(* user's presence, which does not become idle while somebody inhibits     *)
(* that (scsm-presence.c).                                                 *)
(*                                                                         *)
(* Inhibiting and releasing are synchronous, logind answers later, and the *)
(* presence is also changed by D-Bus callers, the user's activity and the  *)
(* screensaver, in any order.                                              *)
(***************************************************************************)
EXTENDS Naturals

CONSTANTS
  Cookies,   \* inhibitors, by cookie
  Statuses,  \* what a D-Bus caller sets the presence to, IDLE aside
  AVAILABLE, IDLE,
  MaxCalls   \* bound: Inhibit() calls that logind has not answered

ASSUME StatusesAssumption == AVAILABLE \in Statuses /\ IDLE \notin Statuses
ASSUME CallsAssumption == MaxCalls \in Nat \ {0}

VARIABLES
  inhibitors,         \* the flags of each inhibitor in the store, {} if none
  inhibited_actions,  \* the property InhibitedActions
  running,            \* phase RUNNING has been reached
  system,             \* ScsmSystemdPrivate
  presence,           \* ScsmPresencePrivate
  own                 \* history: the status set by the last SetStatus()

vars == <<inhibitors, inhibited_actions, running, system, presence, own>>

\* SWITCH_USER, AUTOMOUNT and LOGOUT are recorded and nothing else.
Flags == {"LOGOUT", "SUSPEND", "IDLE"}

System ==
  [inhibitors : SUBSET Cookies,  \* those with the flag SUSPEND
   inhibit_fd : BOOLEAN,         \* inhibit_fd is not -1
   calls : 0 .. MaxCalls,        \* Inhibit() calls without an answer
   leaked : BOOLEAN,             \* an open descriptor has been overwritten
   overlapped : BOOLEAN,         \* history: a call was made while one was due
   refused : BOOLEAN]            \* history: no descriptor since the last call

Presence ==
  [idle_enabled : BOOLEAN, idle_timeout : BOOLEAN,  \* not 0
   idle_watch : BOOLEAN,
   active_watch : BOOLEAN,       \* some user-active watch is pending
   status : Statuses \cup {IDLE}, saved_status : Statuses \cup {IDLE},
   screensaver_active : BOOLEAN]

----------------------------------------------------------------------------
(* scsm-systemd.c                                                          *)

\* Definitions named Mutant... are the neighbouring definition with a plausible
\* bug; no behaviour uses them, the runs are shown to notice them.

\* scsm_systemd_add_inhibitor(): the first one makes the call.
AddInhibitor(s, k, flags) ==
  LET first == s.inhibitors = {}
  IN IF "SUSPEND" \notin flags THEN s
     ELSE [s EXCEPT !.inhibitors = @ \cup {k},
                    !.calls = IF first THEN @ + 1 ELSE @,
                    !.overlapped = @ \/ (first /\ s.calls > 0),
                    !.refused = @ /\ ~first]

MutantRemoveInhibitorDrops(s, k) ==
  IF k \notin s.inhibitors THEN s
  ELSE [s EXCEPT !.inhibitors = @ \ {k}, !.inhibit_fd = FALSE]

\* scsm_systemd_remove_inhibitor(): the last one drops the descriptor, if any.
RemoveInhibitor(s, k) ==
  [s EXCEPT !.inhibitors = @ \ {k},
            !.inhibit_fd = @ /\ s.inhibitors # {k}]

\* inhibit_done(): the answer is an error, or a reply, which comes with a
\* descriptor or without.  The descriptor known so far is overwritten.
InhibitAnswered(s, answer) ==
  [s EXCEPT
     !.calls = @ - 1,
     !.leaked = @ \/ (s.inhibit_fd /\ answer # "error"),
     !.inhibit_fd = /\ answer = "descriptor" \/ (@ /\ answer = "error")
                    /\ s.inhibitors # {},
     !.refused = @ \/ answer # "descriptor"]

----------------------------------------------------------------------------
(* scsm-presence.c                                                         *)

MutantResetIdleWatch(p) ==
  [p EXCEPT !.idle_watch = @ \/ (p.idle_enabled /\ p.idle_timeout)]

\* reset_idle_watch()
ResetIdleWatch(p) == [p EXCEPT !.idle_watch = p.idle_enabled /\ p.idle_timeout]

\* scsm_presence_set_idle_enabled()
SetIdleEnabled(p, enabled) ==
  IF p.idle_enabled = enabled THEN p
  ELSE ResetIdleWatch([p EXCEPT !.idle_enabled = enabled])

MutantBecomeIdleUnwatched(p) ==
  IF p.status = IDLE THEN p
  ELSE [p EXCEPT !.saved_status = p.status, !.status = IDLE,
                 !.active_watch = @ \/ ~p.screensaver_active]

\* set_session_idle(TRUE)
BecomeIdle(p) ==
  IF p.status = IDLE THEN p
  ELSE [p EXCEPT !.saved_status = p.status, !.status = IDLE,
                 !.active_watch = TRUE]

\* set_session_idle(FALSE)
BecomeNotIdle(p) ==
  IF p.status # IDLE THEN p
  ELSE [p EXCEPT !.status = p.saved_status, !.saved_status = AVAILABLE]

----------------------------------------------------------------------------
(* scsm-manager.c                                                          *)

\* scsm_manager_is_idle_inhibited() and update_idle()
UpdateIdle(p, store) == SetIdleEnabled(p, \A k \in Cookies : "IDLE" \notin store[k])

\* collect_inhibition_flags() over the store
Collected(store) == UNION {store[k] : k \in Cookies}

Init ==
  /\ inhibitors = [k \in Cookies |-> {}]
  /\ inhibited_actions = {}
  /\ running = FALSE
  /\ system = [inhibitors |-> {}, inhibit_fd |-> FALSE, calls |-> 0,
               leaked |-> FALSE, overlapped |-> FALSE, refused |-> FALSE]
  /\ \E idle_timeout \in BOOLEAN :
       presence = [idle_enabled |-> FALSE, idle_timeout |-> idle_timeout,
                   idle_watch |-> FALSE, active_watch |-> FALSE,
                   status |-> AVAILABLE, saved_status |-> AVAILABLE,
                   screensaver_active |-> FALSE]
  /\ own = AVAILABLE

\* Inhibit() and on_store_inhibitor_added().  An inhibitor with none of Flags
\* changes nothing here.
Inhibit(k, flags) ==
  /\ inhibitors[k] = {} /\ flags # {}
  /\ inhibitors' = [inhibitors EXCEPT ![k] = flags]
  /\ system' = AddInhibitor(system, k, flags)
  /\ system'.calls <= MaxCalls
  /\ inhibited_actions' = inhibited_actions \cup flags
  /\ presence' = UpdateIdle(presence, inhibitors')
  /\ UNCHANGED <<running, own>>

MutantUninhibitSubtracts(k) ==
  /\ inhibitors[k] # {}
  /\ inhibitors' = [inhibitors EXCEPT ![k] = {}]
  /\ system' = RemoveInhibitor(system, k)
  /\ inhibited_actions' = inhibited_actions \ inhibitors[k]
  /\ presence' = UpdateIdle(presence, inhibitors')
  /\ UNCHANGED <<running, own>>

\* Uninhibit(), or its owner leaves the bus; on_store_inhibitor_removed().
Uninhibit(k) ==
  /\ inhibitors[k] # {}
  /\ inhibitors' = [inhibitors EXCEPT ![k] = {}]
  /\ system' = RemoveInhibitor(system, k)
  /\ inhibited_actions' = Collected(inhibitors')
  /\ presence' = UpdateIdle(presence, inhibitors')
  /\ UNCHANGED <<running, own>>

\* logind answers a call.
InhibitDone ==
  /\ system.calls > 0
  /\ \E answer \in {"error", "nothing", "descriptor"} :
       system' = InhibitAnswered(system, answer)
  /\ UNCHANGED <<inhibitors, inhibited_actions, running, presence, own>>

\* start_phase() of RUNNING, at the end of the startup or of a canceled logout.
StartRunning ==
  /\ running' = TRUE
  /\ presence' = UpdateIdle(presence, inhibitors)
  /\ UNCHANGED <<inhibitors, inhibited_actions, system, own>>

PresenceChanges(p) ==
  /\ presence' = p
  /\ UNCHANGED <<inhibitors, inhibited_actions, running, system>>

\* scsm_presence_set_idle_timeout(), bound to the setting idle-delay.
IdleDelayChanges ==
  /\ PresenceChanges(ResetIdleWatch([presence EXCEPT !.idle_timeout = ~@]))
  /\ UNCHANGED own

\* idle_became_idle_cb(): the user has been away for the idle delay.
UserBecomesIdle ==
  /\ presence.idle_watch
  /\ PresenceChanges(BecomeIdle(presence))
  /\ UNCHANGED own

\* idle_became_active_cb(): a pending watch fires, once; there may be more.
UserBecomesActive ==
  /\ presence.active_watch
  /\ \E more \in BOOLEAN :
       PresenceChanges(BecomeNotIdle([presence EXCEPT !.active_watch = more]))
  /\ UNCHANGED own

\* on_screensaver_dbus_signal() and on_screensaver_name_owner_changed().
ScreensaverActivates ==
  /\ ~presence.screensaver_active
  /\ PresenceChanges(BecomeIdle([presence EXCEPT !.screensaver_active = TRUE]))
  /\ UNCHANGED own

ScreensaverDeactivates ==
  /\ presence.screensaver_active
  /\ PresenceChanges(BecomeNotIdle([presence EXCEPT !.screensaver_active = FALSE]))
  /\ UNCHANGED own

ScreensaverLeavesBus ==
  /\ PresenceChanges(BecomeNotIdle([presence EXCEPT !.screensaver_active = FALSE]))
  /\ UNCHANGED own

\* SetStatus(), which takes IDLE too.
SetStatus(status) ==
  /\ PresenceChanges([presence EXCEPT !.status = status])
  /\ own' = status

Next ==
  \/ \E k \in Cookies : Uninhibit(k) \/ \E flags \in SUBSET Flags : Inhibit(k, flags)
  \/ InhibitDone \/ StartRunning
  \/ IdleDelayChanges \/ UserBecomesIdle \/ UserBecomesActive
  \/ ScreensaverActivates \/ ScreensaverDeactivates \/ ScreensaverLeavesBus
  \/ \E status \in Statuses \cup {IDLE} : SetStatus(status)

Spec == Init /\ [][Next]_vars
----------------------------------------------------------------------------
(* Properties.                                                             *)

\* The types of the variables.
TypeOK ==
  /\ inhibitors \in [Cookies -> SUBSET Flags]
  /\ inhibited_actions \subseteq Flags
  /\ running \in BOOLEAN
  /\ system \in System
  /\ presence \in Presence
  /\ own \in Statuses \cup {IDLE}

SuspendInhibited == \E k \in Cookies : "SUSPEND" \in inhibitors[k]

\* However inhibitors come and go while logind's answers are due: when it has
\* answered, somebody who inhibits suspend has a descriptor that blocks it, unless
\* logind has refused; and no descriptor, known or lost, blocks it when nobody does
\* (add_inhibitor, remove_inhibitor, inhibit_done).  Excepted from the second half is
\* a session manager that was asked to inhibit, to release and to inhibit again
\* before logind had answered the first: it may overwrite an open descriptor, which
\* then blocks suspend until it exits.
SuspendIsBlocked ==
  system.calls = 0 =>
    /\ SuspendInhibited => system.inhibit_fd \/ system.refused
    /\ system.inhibit_fd => SuspendInhibited
    /\ system.leaked => system.overlapped

\* InhibitedActions and the list of the backend agree with the store, although
\* they are updated by additions and recomputed or searched by removals.
ObserversAgree ==
  /\ inhibited_actions = Collected(inhibitors)
  /\ system.inhibitors = {k \in Cookies : "SUSPEND" \in inhibitors[k]}

\* A running session watches for idleness exactly when there is an idle delay
\* and nobody inhibits idle; before that, never against an inhibitor.
IdleIsInhibited ==
  LET inhibited == \E k \in Cookies : "IDLE" \in inhibitors[k]
  IN /\ presence.idle_watch => ~inhibited
     /\ running => (presence.idle_watch <=> presence.idle_timeout /\ ~inhibited)

\* The status that a caller has set survives being idle, whatever the order of
\* activity, screensaver and further calls: it is shown, or is kept to be restored
\* (set_session_idle).
OwnStatusSurvives ==
  own # IDLE => \/ presence.status = own
                \/ presence.status = IDLE /\ presence.saved_status = own

\* Nobody stays idle: unless a caller asked for it, a watch for the user's
\* activity is pending that ends it, also when the screensaver never tells.
IdleEndsByActivity ==
  presence.status = IDLE /\ own # IDLE => presence.active_watch

===============================================================================
