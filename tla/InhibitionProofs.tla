--------------------------- MODULE InhibitionProofs ---------------------------
(***************************************************************************)
(* Theorems about Inhibition, for any inhibitors, statuses and bound.      *)
(***************************************************************************)
EXTENDS Inhibition, TLAPS

\* The property InhibitedActions is that of the store.
StoreInv ==
  /\ inhibitors \in [Cookies -> SUBSET Flags]
  /\ inhibited_actions = Collected(inhibitors)

\* Without overlapping calls, one is made only while there is no descriptor, so that
\* no answer overwrites one.
Overlap(s) ==
  ~s.overlapped => /\ ~s.leaked
                   /\ s.calls > 0 => s.calls = 1 /\ ~s.inhibit_fd

\* The backend knows the inhibitors of suspend, and holds a descriptor only for them;
\* while there are any it has one, waits for one, or has been refused.
SystemInv ==
  /\ system \in System
  /\ system.inhibitors = {k \in Cookies : "SUSPEND" \in inhibitors[k]}
  /\ system.inhibit_fd => system.inhibitors # {}
  /\ system.inhibitors # {} =>
       system.calls > 0 \/ system.inhibit_fd \/ system.refused
  /\ Overlap(system)

\* A presence with its watches in order for the store st.
Watching(p, st, run) ==
  /\ p \in Presence
  /\ p.idle_watch = (p.idle_enabled /\ p.idle_timeout)
  /\ p.idle_enabled \/ run =>
       p.idle_enabled = \A k \in Cookies : "IDLE" \notin st[k]

\* A presence that keeps the status o of a caller.
Keeping(p, o) ==
  /\ p \in Presence
  /\ o # IDLE => \/ p.status = o
                 \/ p.status = IDLE /\ p.saved_status = o
  /\ p.status = IDLE /\ o # IDLE => p.active_watch

PresenceInv == Watching(presence, inhibitors, running) /\ Keeping(presence, own)

IInv ==
  /\ running \in BOOLEAN /\ own \in Statuses \cup {IDLE}
  /\ StoreInv
  /\ SystemInv
  /\ PresenceInv

-----------------------------------------------------------------------------
(* The functions of the presence.                                          *)

\* update_idle() puts idle_enabled and the watch in order, whatever they were, and
\* leaves the status alone.
LEMMA UpdateIdleWatches ==
  ASSUME NEW p \in Presence, NEW st,
         p.idle_watch = (p.idle_enabled /\ p.idle_timeout)
  PROVE  /\ \A run \in BOOLEAN : Watching(UpdateIdle(p, st), st, run)
         /\ \A o : Keeping(p, o) => Keeping(UpdateIdle(p, st), o)
<1> DEFINE u == \A k \in Cookies : "IDLE" \notin st[k]
<1>0. u \in BOOLEAN
  OBVIOUS
<1>1. UpdateIdle(p, st) = SetIdleEnabled(p, u)
  BY DEF UpdateIdle
<1> HIDE DEF u
<1>2. CASE p.idle_enabled = u
  <2>1. UpdateIdle(p, st) = p
    BY <1>1, <1>2 DEF SetIdleEnabled
  <2> QED
    BY <1>2, <2>1 DEF Watching, u
<1>3. CASE p.idle_enabled # u
  <2>1. UpdateIdle(p, st) =
          [p EXCEPT !.idle_enabled = u, !.idle_watch = u /\ p.idle_timeout]
    BY <1>0, <1>1, <1>3 DEF SetIdleEnabled, ResetIdleWatch, Presence
  <2>2. UpdateIdle(p, st) \in Presence
    BY <1>0, <2>1 DEF Presence
  <2>3. /\ UpdateIdle(p, st).idle_enabled = u
        /\ UpdateIdle(p, st).idle_timeout = p.idle_timeout
        /\ UpdateIdle(p, st).idle_watch = (u /\ p.idle_timeout)
        /\ UpdateIdle(p, st).status = p.status
        /\ UpdateIdle(p, st).saved_status = p.saved_status
        /\ UpdateIdle(p, st).active_watch = p.active_watch
    BY <2>1 DEF Presence
  <2>4. ASSUME NEW run \in BOOLEAN
        PROVE  Watching(UpdateIdle(p, st), st, run)
    BY <2>2, <2>3 DEF Watching, u
  <2>5. ASSUME NEW o, Keeping(p, o)
        PROVE  Keeping(UpdateIdle(p, st), o)
    BY <2>2, <2>3, <2>5 DEF Keeping
  <2> QED
    BY <2>4, <2>5
<1> QED
  BY <1>2, <1>3

\* Becoming idle or not keeps the caller's status, and does not touch the idle watch.
LEMMA BecomeKeeps ==
  ASSUME NEW p \in Presence, NEW o, Keeping(p, o)
  PROVE  Keeping(BecomeIdle(p), o)
  BY DEF BecomeIdle, Keeping, Presence

\* The same of activity, also when the watch that ends the idleness is used up.
LEMMA BecomeNotIdleKeeps ==
  ASSUME NEW p \in Presence, NEW o, o # IDLE => \/ p.status = o
                                                \/ p.status = IDLE /\ p.saved_status = o
  PROVE  Keeping(BecomeNotIdle(p), o)
  BY StatusesAssumption DEF BecomeNotIdle, Keeping, Presence

LEMMA BecomeWatches ==
  ASSUME NEW p, NEW st, NEW run \in BOOLEAN, Watching(p, st, run)
  PROVE  Watching(BecomeIdle(p), st, run) /\ Watching(BecomeNotIdle(p), st, run)
  BY StatusesAssumption DEF BecomeIdle, BecomeNotIdle, Watching, Presence

-----------------------------------------------------------------------------
(* The steps.                                                              *)

LEMMA InitInv == Init => IInv
<1> SUFFICES ASSUME Init PROVE IInv
  OBVIOUS
<1>1. StoreInv
  BY DEF Init, StoreInv, Collected
<1>2. SystemInv
  BY CallsAssumption DEF Init, SystemInv, System, Overlap
<1>3. PresenceInv
  <2>1. PICK b \in BOOLEAN :
          presence = [idle_enabled |-> FALSE, idle_timeout |-> b,
                      idle_watch |-> FALSE, active_watch |-> FALSE,
                      status |-> AVAILABLE, saved_status |-> AVAILABLE,
                      screensaver_active |-> FALSE]
    BY DEF Init
  <2>2. presence \in Presence
    BY <2>1, StatusesAssumption DEF Presence
  <2>3. running = FALSE /\ own = AVAILABLE
    BY DEF Init
  <2>4. Watching(presence, inhibitors, running)
    BY <2>1, <2>2, <2>3 DEF Watching
  <2>5. Keeping(presence, own)
    BY <2>1, <2>2, <2>3, StatusesAssumption DEF Keeping
  <2> QED
    BY <2>4, <2>5 DEF PresenceInv
<1>4. running \in BOOLEAN /\ own \in Statuses \cup {IDLE}
  BY StatusesAssumption DEF Init
<1> QED
  BY <1>1, <1>2, <1>3, <1>4 DEF IInv

\* Additions to InhibitedActions agree with recomputing it.
LEMMA InhibitStep ==
  ASSUME IInv, NEW k \in Cookies, NEW flags \in SUBSET Flags, Inhibit(k, flags)
  PROVE  IInv'
<1>0. running \in BOOLEAN /\ own \in Statuses \cup {IDLE}
  BY DEF IInv
<1>a. StoreInv /\ SystemInv /\ PresenceInv
  BY DEF IInv
<1>1. /\ inhibitors' \in [Cookies -> SUBSET Flags]
      /\ inhibitors'[k] = flags
      /\ \A j \in Cookies \ {k} : inhibitors'[j] = inhibitors[j]
  BY <1>a DEF Inhibit, StoreInv
<1>2. StoreInv'
  <2>1. Collected(inhibitors') = Collected(inhibitors) \cup flags
    BY <1>1 DEF Collected, Inhibit
  <2> QED
    BY <1>1, <1>a, <2>1 DEF StoreInv, Inhibit
<1>3. SystemInv'
  <2>1. system' = AddInhibitor(system, k, flags) /\ system'.calls <= MaxCalls
    BY DEF Inhibit
  <2>2. CASE "SUSPEND" \notin flags
    <3>1. system' = system
      BY <2>1, <2>2 DEF AddInhibitor
    <3>2. {j \in Cookies : "SUSPEND" \in inhibitors'[j]} =
            {j \in Cookies : "SUSPEND" \in inhibitors[j]}
      BY <1>1, <2>2 DEF Inhibit
    <3> QED
      BY <1>a, <3>1, <3>2 DEF SystemInv
  <2>3. CASE "SUSPEND" \in flags
    <3>1. {j \in Cookies : "SUSPEND" \in inhibitors'[j]} =
            {j \in Cookies : "SUSPEND" \in inhibitors[j]} \cup {k}
      BY <1>1, <2>3
    <3>0. system \in System /\ system.calls \in 0 .. MaxCalls
      BY <1>a DEF SystemInv, System
    <3>2. /\ system.calls \in Nat
          /\ system' = [system EXCEPT
               !.inhibitors = @ \cup {k},
               !.calls = IF system.inhibitors = {} THEN @ + 1 ELSE @,
               !.overlapped = @ \/ (system.inhibitors = {} /\ system.calls > 0),
               !.refused = @ /\ ~(system.inhibitors = {})]
      BY <2>1, <2>3, <3>0, CallsAssumption DEF AddInhibitor
    <3>3. /\ system'.inhibitors = system.inhibitors \cup {k}
          /\ system'.inhibit_fd = system.inhibit_fd
          /\ system.inhibitors = {} => system'.calls = system.calls + 1
          /\ system.inhibitors # {} => /\ system'.calls = system.calls
                                       /\ system'.refused = system.refused
      BY <3>0, <3>2 DEF System
    <3>4. system' \in System
      <4>1. system'.calls \in 0 .. MaxCalls
        BY <2>1, <3>0, <3>3, CallsAssumption
      <4> QED
        BY <3>0, <3>2, <4>1 DEF System
    <3>5. system'.calls > 0 \/ system'.inhibit_fd \/ system'.refused
      <4>1. CASE system.inhibitors = {}
        BY <3>0, <3>3, <4>1, CallsAssumption
      <4>2. CASE system.inhibitors # {}
        BY <1>a, <3>3, <4>2 DEF SystemInv
      <4> QED
        BY <4>1, <4>2
    <3>8. Overlap(system')
      <4>1. /\ system'.leaked = system.leaked
            /\ system'.overlapped =
                 (system.overlapped \/ (system.inhibitors = {} /\ system.calls > 0))
        BY <3>0, <3>2 DEF System
      <4>2. Overlap(system) /\ (system.inhibit_fd => system.inhibitors # {})
        BY <1>a DEF SystemInv
      <4>3. CASE system.inhibitors # {}
        BY <3>3, <4>1, <4>2, <4>3 DEF Overlap
      <4>4. CASE system.inhibitors = {}
        <5>1. system'.calls = system.calls + 1 /\ ~system'.inhibit_fd
          BY <3>3, <4>2, <4>4
        <5>2. ASSUME ~system'.overlapped
              PROVE  ~system.overlapped /\ ~(system.calls > 0)
          BY <3>0, <4>1, <4>4, <5>2 DEF System
        <5>3. ASSUME ~system'.overlapped
              PROVE  ~system'.leaked
          BY <4>1, <4>2, <5>2, <5>3 DEF Overlap
        <5>4. ASSUME ~(system.calls > 0)
              PROVE  system'.calls = 1
          BY <3>2, <5>1, <5>4
        <5> QED
          BY <5>1, <5>2, <5>3, <5>4 DEF Overlap
      <4> QED
        BY <4>3, <4>4
    <3>6. system'.inhibitors = {j \in Cookies : "SUSPEND" \in inhibitors'[j]}
      BY <1>a, <3>1, <3>3 DEF SystemInv
    <3>7. system'.inhibitors # {}
      BY <3>3
    <3> QED
      BY <3>4, <3>5, <3>6, <3>7, <3>8 DEF SystemInv
  <2> QED
    BY <2>2, <2>3
<1>4. PresenceInv'
  <2>1. /\ presence \in Presence
        /\ presence.idle_watch = (presence.idle_enabled /\ presence.idle_timeout)
    BY <1>a DEF PresenceInv, Watching
  <2>2. presence' = UpdateIdle(presence, inhibitors') /\ UNCHANGED <<running, own>>
    BY DEF Inhibit
  <2> QED
    BY <1>0, <1>a, <2>1, <2>2, UpdateIdleWatches DEF PresenceInv
<1>5. running' \in BOOLEAN /\ own' \in Statuses \cup {IDLE}
  BY <1>0 DEF Inhibit
<1> QED
  BY <1>2, <1>3, <1>4, <1>5 DEF IInv

LEMMA UninhibitStep ==
  ASSUME IInv, NEW k \in Cookies, Uninhibit(k)
  PROVE  IInv'
<1>0. running \in BOOLEAN /\ own \in Statuses \cup {IDLE}
  BY DEF IInv
<1>a. StoreInv /\ SystemInv /\ PresenceInv
  BY DEF IInv
<1>1. /\ inhibitors' \in [Cookies -> SUBSET Flags]
      /\ inhibitors'[k] = {}
      /\ \A j \in Cookies \ {k} : inhibitors'[j] = inhibitors[j]
  BY <1>a DEF Uninhibit, StoreInv
<1>2. StoreInv'
  BY <1>1 DEF StoreInv, Uninhibit
<1>3. SystemInv'
  <2>1. /\ system' \in System
        /\ system'.inhibitors = system.inhibitors \ {k}
        /\ system'.inhibit_fd = (system.inhibit_fd /\ system.inhibitors # {k})
        /\ system'.calls = system.calls /\ system'.refused = system.refused
    BY <1>a DEF Uninhibit, RemoveInhibitor, SystemInv, System
  <2>2. system'.inhibitors = {j \in Cookies : "SUSPEND" \in inhibitors'[j]}
    BY <1>a, <1>1, <2>1 DEF SystemInv
  <2>3. system'.inhibitors # {} => system.inhibitors # {} /\ system.inhibitors # {k}
    BY <2>1
  <2>4. system'.inhibit_fd => system'.inhibitors # {}
    BY <1>a, <2>1 DEF SystemInv
  <2>5. Overlap(system')
    <3>1. /\ system'.leaked = system.leaked /\ system'.overlapped = system.overlapped
          /\ system'.inhibit_fd => system.inhibit_fd
      BY <1>a, <2>1 DEF Uninhibit, RemoveInhibitor, SystemInv, System
    <3> QED
      BY <1>a, <2>1, <3>1 DEF SystemInv, Overlap
  <2> QED
    BY <1>a, <2>1, <2>2, <2>3, <2>4, <2>5 DEF SystemInv
<1>4. PresenceInv'
  <2>1. /\ presence \in Presence
        /\ presence.idle_watch = (presence.idle_enabled /\ presence.idle_timeout)
    BY <1>a DEF PresenceInv, Watching
  <2>2. presence' = UpdateIdle(presence, inhibitors') /\ UNCHANGED <<running, own>>
    BY DEF Uninhibit
  <2> QED
    BY <1>0, <1>a, <2>1, <2>2, UpdateIdleWatches DEF PresenceInv
<1>5. running' \in BOOLEAN /\ own' \in Statuses \cup {IDLE}
  BY <1>0 DEF Uninhibit
<1> QED
  BY <1>2, <1>3, <1>4, <1>5 DEF IInv

\* An answer that comes when nobody inhibits suspend any more leaves no descriptor.
LEMMA InhibitDoneStep ==
  ASSUME IInv, InhibitDone
  PROVE  IInv'
<1>0. system.calls - 1 \in 0 .. MaxCalls
  <2>1. system.calls \in 0 .. MaxCalls /\ system.calls > 0
    BY DEF IInv, SystemInv, System, InhibitDone
  <2> QED
    BY <2>1, CallsAssumption
<1>1. PICK answer \in {"error", "nothing", "descriptor"} :
        system' = InhibitAnswered(system, answer)
  BY DEF InhibitDone
<1>2. /\ system \in System /\ system.calls > 0
      /\ UNCHANGED <<inhibitors, inhibited_actions, running, presence, own>>
  BY DEF InhibitDone, IInv, SystemInv
<1>3. SystemInv'
  <2>1. /\ system'.inhibitors = system.inhibitors
        /\ system'.inhibit_fd =
             ((answer = "descriptor" \/ (system.inhibit_fd /\ answer = "error"))
              /\ system.inhibitors # {})
        /\ system'.calls = system.calls - 1
        /\ system'.refused = (system.refused \/ answer # "descriptor")
    BY <1>1, <1>2 DEF InhibitAnswered, System
  <2>2. system' \in System
    <3>2. \A b, c, d \in BOOLEAN :
            [system EXCEPT !.calls = system.calls - 1, !.leaked = b,
                           !.inhibit_fd = c, !.refused = d] \in System
      BY <1>0, <1>2 DEF System
    <3> DEFINE leak == system.leaked \/ (system.inhibit_fd /\ answer # "error")
               fd == /\ answer = "descriptor" \/ (system.inhibit_fd /\ answer = "error")
                     /\ system.inhibitors # {}
               refused == system.refused \/ answer # "descriptor"
    <3>3. system' = [system EXCEPT !.calls = system.calls - 1, !.leaked = leak,
                                   !.inhibit_fd = fd, !.refused = refused]
      BY <1>1 DEF InhibitAnswered
    <3>4. leak \in BOOLEAN /\ fd \in BOOLEAN /\ refused \in BOOLEAN
      BY <1>2 DEF System
    <3> HIDE DEF leak, fd, refused
    <3> QED
      BY <3>2, <3>3, <3>4
  <2>3. system'.inhibitors # {} => system'.inhibit_fd \/ system'.refused
    BY <1>1, <2>1
  <2>4. Overlap(system')
    <3>1. /\ system'.overlapped = system.overlapped
          /\ system'.leaked = (system.leaked \/ (system.inhibit_fd /\ answer # "error"))
      BY <1>1, <1>2, ZenonT(60) DEF InhibitAnswered, System
    <3>2. Overlap(system)
      BY DEF IInv, SystemInv
    <3>3. system.calls > 0
      BY <1>2
    <3>4. ASSUME ~system'.overlapped
          PROVE  ~system'.leaked
      <4>1. ~system.leaked /\ ~system.inhibit_fd
        BY <3>1, <3>2, <3>3, <3>4 DEF Overlap
      <4> QED
        BY <3>1, <4>1
    <3>5. ASSUME ~system'.overlapped
          PROVE  ~(system'.calls > 0)
      <4>1. system.calls = 1
        BY <3>1, <3>2, <3>3, <3>5 DEF Overlap
      <4>2. system'.calls = system.calls - 1
        BY <2>1
      <4>3. system'.calls = 0
        BY <4>1, <4>2
      <4> QED
        BY <4>3
    <3> QED
      BY <3>4, <3>5 DEF Overlap
  <2> QED
    BY <1>2, <2>1, <2>2, <2>3, <2>4 DEF SystemInv, IInv
<1> QED
  BY <1>2, <1>3 DEF IInv, StoreInv, PresenceInv

LEMMA StartRunningStep ==
  ASSUME IInv, StartRunning
  PROVE  IInv'
<1>1. /\ presence \in Presence
      /\ presence.idle_watch = (presence.idle_enabled /\ presence.idle_timeout)
      /\ Keeping(presence, own)
  BY DEF IInv, PresenceInv, Watching
<1>2. /\ presence' = UpdateIdle(presence, inhibitors) /\ running' = TRUE
      /\ UNCHANGED <<inhibitors, inhibited_actions, system, own>>
  BY DEF StartRunning
<1>3. PresenceInv'
  BY <1>1, <1>2, UpdateIdleWatches DEF PresenceInv
<1> QED
  BY <1>2, <1>3 DEF IInv, StoreInv, SystemInv

\* What only changes the presence keeps the other observers.
LEMMA PresenceStep ==
  ASSUME IInv, NEW p, PresenceChanges(p), own' \in Statuses \cup {IDLE},
         Watching(p, inhibitors, running), Keeping(p, own')
  PROVE  IInv'
  BY DEF PresenceChanges, IInv, StoreInv, SystemInv, PresenceInv

LEMMA IdleDelayChangesStep ==
  ASSUME IInv, IdleDelayChanges
  PROVE  IInv'
<1> DEFINE p == [presence EXCEPT !.idle_timeout = ~@,
                                 !.idle_watch = presence.idle_enabled
                                                /\ ~presence.idle_timeout]
<1>0. presence \in Presence
  BY DEF IInv, PresenceInv, Watching
<1>1. PresenceChanges(p) /\ own' = own
  BY <1>0 DEF IdleDelayChanges, ResetIdleWatch, Presence
<1>2. Watching(p, inhibitors, running)
  BY <1>0 DEF IInv, PresenceInv, Watching, Presence
<1>3. Keeping(p, own)
  BY <1>0 DEF IInv, PresenceInv, Keeping, Presence
<1> HIDE DEF p
<1> QED
  BY <1>1, <1>2, <1>3, PresenceStep DEF IInv

LEMMA UserBecomesIdleStep ==
  ASSUME IInv, UserBecomesIdle
  PROVE  IInv'
<1>1. Watching(presence, inhibitors, running) /\ Keeping(presence, own)
      /\ presence \in Presence /\ running \in BOOLEAN
  BY DEF IInv, PresenceInv, Watching
<1>2. Watching(BecomeIdle(presence), inhibitors, running)
  BY <1>1, BecomeWatches
<1>3. Keeping(BecomeIdle(presence), own)
  BY <1>1, BecomeKeeps
<1> QED
  BY <1>2, <1>3, PresenceStep DEF UserBecomesIdle, IInv

LEMMA UserBecomesActiveStep ==
  ASSUME IInv, UserBecomesActive
  PROVE  IInv'
<1>0. presence \in Presence /\ running \in BOOLEAN
  BY DEF IInv, PresenceInv, Watching
<1>1. PICK more \in BOOLEAN :
        PresenceChanges(BecomeNotIdle([presence EXCEPT !.active_watch = more]))
  BY DEF UserBecomesActive
<1> DEFINE p == [presence EXCEPT !.active_watch = more]
<1>2. p \in Presence /\ Watching(p, inhibitors, running)
  BY <1>0 DEF IInv, PresenceInv, Watching, Presence
<1>3. own # IDLE => \/ p.status = own
                    \/ p.status = IDLE /\ p.saved_status = own
  BY <1>0 DEF IInv, PresenceInv, Keeping, Presence
<1>4. PresenceChanges(BecomeNotIdle(p)) /\ own' = own
  BY <1>1 DEF UserBecomesActive
<1> HIDE DEF p
<1>5. Watching(BecomeNotIdle(p), inhibitors, running)
  BY <1>0, <1>2, BecomeWatches
<1>6. Keeping(BecomeNotIdle(p), own)
  BY <1>2, <1>3, BecomeNotIdleKeeps
<1> QED
  BY <1>4, <1>5, <1>6, PresenceStep DEF IInv

LEMMA ScreensaverStep ==
  ASSUME IInv, ScreensaverActivates \/ ScreensaverDeactivates \/ ScreensaverLeavesBus
  PROVE  IInv'
<1>0. presence \in Presence /\ running \in BOOLEAN
  BY DEF IInv, PresenceInv, Watching
<1>1. PICK b \in BOOLEAN :
        LET p == [presence EXCEPT !.screensaver_active = b]
        IN PresenceChanges(BecomeIdle(p)) \/ PresenceChanges(BecomeNotIdle(p))
  BY DEF ScreensaverActivates, ScreensaverDeactivates, ScreensaverLeavesBus
<1> DEFINE p == [presence EXCEPT !.screensaver_active = b]
<1>2. p \in Presence /\ Watching(p, inhibitors, running)
  BY <1>0 DEF IInv, PresenceInv, Watching, Presence
<1>3. Keeping(p, own)
  BY <1>0 DEF IInv, PresenceInv, Keeping, Presence
<1>4. /\ PresenceChanges(BecomeIdle(p)) \/ PresenceChanges(BecomeNotIdle(p))
      /\ own' = own
  BY <1>1 DEF ScreensaverActivates, ScreensaverDeactivates, ScreensaverLeavesBus
<1> HIDE DEF p
<1>5. /\ Watching(BecomeIdle(p), inhibitors, running)
      /\ Watching(BecomeNotIdle(p), inhibitors, running)
  BY <1>0, <1>2, BecomeWatches
<1>6. Keeping(BecomeIdle(p), own)
  BY <1>2, <1>3, BecomeKeeps
<1>7. Keeping(BecomeNotIdle(p), own)
  <2>1. own # IDLE => \/ p.status = own
                      \/ p.status = IDLE /\ p.saved_status = own
    BY <1>3 DEF Keeping
  <2> QED
    BY <1>2, <2>1, BecomeNotIdleKeeps
<1> QED
  BY <1>4, <1>5, <1>6, <1>7, PresenceStep DEF IInv

LEMMA SetStatusStep ==
  ASSUME IInv, NEW status \in Statuses \cup {IDLE}, SetStatus(status)
  PROVE  IInv'
<1> DEFINE p == [presence EXCEPT !.status = status]
<1>0. presence \in Presence
  BY DEF IInv, PresenceInv, Watching
<1>1. PresenceChanges(p) /\ own' = status
  BY DEF SetStatus
<1>2. Watching(p, inhibitors, running)
  BY <1>0 DEF IInv, PresenceInv, Watching, Presence
<1>3. Keeping(p, status)
  BY <1>0 DEF Keeping, Presence
<1> HIDE DEF p
<1> QED
  BY <1>1, <1>2, <1>3, PresenceStep

LEMMA StutterStep ==
  ASSUME IInv, UNCHANGED vars
  PROVE  IInv'
  BY DEF vars, IInv, StoreInv, SystemInv, PresenceInv

\* The invariant holds in every reachable state.
THEOREM Invariant == Spec => []IInv
<1>1. IInv /\ [Next]_vars => IInv'
  <2> SUFFICES ASSUME IInv, [Next]_vars PROVE IInv'
    OBVIOUS
  <2>1. ASSUME NEW k \in Cookies, Uninhibit(k) PROVE IInv'
    BY <2>1, UninhibitStep
  <2>2. ASSUME NEW k \in Cookies, NEW flags \in SUBSET Flags, Inhibit(k, flags)
        PROVE IInv'
    BY <2>2, InhibitStep
  <2>3. CASE InhibitDone
    BY <2>3, InhibitDoneStep
  <2>4. CASE StartRunning
    BY <2>4, StartRunningStep
  <2>5. CASE IdleDelayChanges
    BY <2>5, IdleDelayChangesStep
  <2>6. CASE UserBecomesIdle
    BY <2>6, UserBecomesIdleStep
  <2>7. CASE UserBecomesActive
    BY <2>7, UserBecomesActiveStep
  <2>8. CASE ScreensaverActivates \/ ScreensaverDeactivates \/ ScreensaverLeavesBus
    BY <2>8, ScreensaverStep
  <2>9. ASSUME NEW status \in Statuses \cup {IDLE}, SetStatus(status) PROVE IInv'
    BY <2>9, SetStatusStep
  <2>10. CASE UNCHANGED vars
    BY <2>10, StutterStep
  <2> QED
    BY <2>1, <2>2, <2>3, <2>4, <2>5, <2>6, <2>7, <2>8, <2>9, <2>10 DEF Next
<1> QED
  BY <1>1, InitInv, PTL DEF Spec

-----------------------------------------------------------------------------
(* What it implies.                                                        *)

\* The variables keep their types, and the calls to logind their bound.
THEOREM TypeCorrect == Spec => []TypeOK
<1>1. IInv => TypeOK
  <2>1. StoreInv => inhibited_actions \subseteq Flags
    BY DEF StoreInv, Collected
  <2> QED
    BY <2>1 DEF IInv, TypeOK, StoreInv, SystemInv, PresenceInv, Watching
<1> QED
  BY <1>1, Invariant, PTL

\* When logind has answered, somebody who inhibits suspend has a descriptor, unless
\* logind has refused; the one that the backend knows is held for somebody; and an
\* open one is lost only after a call was made while another was due.
THEOREM SuspendBlocked == Spec => []SuspendIsBlocked
<1>1. IInv => SuspendIsBlocked
  <2> SUFFICES ASSUME IInv, system.calls = 0 PROVE
        /\ SuspendInhibited => system.inhibit_fd \/ system.refused
        /\ system.inhibit_fd => SuspendInhibited
        /\ system.leaked => system.overlapped
    BY DEF SuspendIsBlocked
  <2>1. SuspendInhibited <=> system.inhibitors # {}
    BY DEF IInv, SystemInv, SuspendInhibited
  <2>2. ~ (system.calls > 0)
    OBVIOUS
  <2>3. system.leaked => system.overlapped
    BY DEF IInv, SystemInv, Overlap
  <2> QED
    BY <2>1, <2>2, <2>3 DEF IInv, SystemInv
<1> QED
  BY <1>1, Invariant, PTL

\* InhibitedActions and the backend's list agree with the store.
THEOREM ObserversDoAgree == Spec => []ObserversAgree
<1>1. IInv => ObserversAgree
  BY DEF IInv, ObserversAgree, StoreInv, SystemInv
<1> QED
  BY <1>1, Invariant, PTL

\* A running session watches for idleness exactly when nobody inhibits idle and
\* there is an idle delay; before that, never against an inhibitor.
THEOREM IdleInhibited == Spec => []IdleIsInhibited
<1>1. IInv => IdleIsInhibited
  BY DEF IInv, PresenceInv, Watching, IdleIsInhibited, Presence
<1> QED
  BY <1>1, Invariant, PTL

\* A caller's status is shown, or is kept to be restored.
THEOREM OwnStatusKept == Spec => []OwnStatusSurvives
<1>1. IInv => OwnStatusSurvives
  BY DEF IInv, PresenceInv, Keeping, OwnStatusSurvives
<1> QED
  BY <1>1, Invariant, PTL

\* Unless a caller asked for it, idleness has a pending watch that ends it.
THEOREM IdlenessEnds == Spec => []IdleEndsByActivity
<1>1. IInv => IdleEndsByActivity
  BY DEF IInv, PresenceInv, Keeping, IdleEndsByActivity
<1> QED
  BY <1>1, Invariant, PTL
===============================================================================
