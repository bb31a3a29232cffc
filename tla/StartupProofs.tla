---------------------------- MODULE StartupProofs ----------------------------
(***************************************************************************)
(* Theorems about Startup, for all applications, phases and settings.      *)
(*                                                                         *)
(* The C functions nest, so the argument is by function: Good(m) says that *)
(* a record is well typed, up to the bound on processes, and consistent;   *)
(* each function leads from a good record to a good one.  A step of Next   *)
(* is a composition of them.  That the startup completes follows from what *)
(* a good record waits for, and from steps going on (Onward).              *)
(***************************************************************************)
EXTENDS Startup, TLAPS

PhaseNames ==
  STARTUP = 0 /\ EARLY_INITIALIZATION = 1 /\ PRE_DISPLAY_SERVER = 2
  /\ DISPLAY_SERVER = 3 /\ INITIALIZATION = 4 /\ WINDOW_MANAGER = 5
  /\ PANEL = 6 /\ DESKTOP = 7 /\ APPLICATION = 8 /\ RUNNING = 9 /\ ENDING = 10

\* The phases are numbered as in ScsmManagerPhase.
LEMMA PhaseNumbers == PhaseNames
BY DEF PhaseNames, STARTUP, EARLY_INITIALIZATION, PRE_DISPLAY_SERVER,
  DISPLAY_SERVER, INITIALIZATION, WINDOW_MANAGER, PANEL, DESKTOP, APPLICATION,
  RUNNING, ENDING

\* Within a call an application may have any number of processes; the bound is
\* applied when the call returns (Become).
AnyApplication ==
  [monitored : BOOLEAN, connected : BOOLEAN, registered : BOOLEAN,
   pid : BOOLEAN, procs : Nat, recent : BOOLEAN]

AnyManager ==
  [phase : 0 .. 10, pending_apps : SUBSET Apps, phase_timeout : BOOLEAN,
   manager_initialized : BOOLEAN, systemd_initialized : BOOLEAN,
   app : [Apps -> AnyApplication], whale : BOOLEAN, over : BOOLEAN,
   fault : {"none", "freed_access", "crashed", "assertion"}]

\* What holds between any two phases as well: see StartPhaseGood.
Steady(m) ==
  /\ m.fault # "assertion"
  /\ \A a \in Apps : m.app[a].pid => m.app[a].procs > 0

Awaiting(m) ==
  /\ m.phase_timeout <=> m.pending_apps # {}
  /\ \A a \in m.pending_apps :
       PhaseOf[a] = m.phase /\ m.phase < 8 /\ m.app[a].connected
  /\ m.phase \in 1 .. 8 /\ m.pending_apps = {} =>
       /\ m.phase = 4 /\ m.manager_initialized
       /\ SystemdManaged /\ ~m.systemd_initialized

Begun(m) == \A a \in Apps : m.app[a].monitored <=> PhaseOf[a] <= m.phase

Signaled(m) ==
  /\ m.phase > 4 => m.manager_initialized /\ (SystemdManaged => m.systemd_initialized)
  /\ m.phase < 4 => ~m.manager_initialized
  /\ m.phase = 4 /\ m.manager_initialized => m.pending_apps = {}

Good(m) == m \in AnyManager /\ Steady(m) /\ Awaiting(m) /\ Begun(m) /\ Signaled(m)

\* Before the start nobody has registered and nothing runs.
NothingYet ==
  mgr.phase = 0 => \A a \in Apps : client[a] = "none" /\ mgr.app[a].procs = 0

IInv == TypeOK /\ Good(mgr) /\ NothingYet

-----------------------------------------------------------------------------
(* The functions.                                                          *)

\* From any phase on, there is a first one that does not end at once.
LEMMA FirstHold ==
  ASSUME NEW m, NEW ok, NEW p \in 1 .. 9
  PROVE  \E q \in p .. 9 : Holds(m, q, ok) /\ \A r \in p .. q - 1 : ~Holds(m, r, ok)
<1> DEFINE F(i) == \E q \in i .. 9 :
             Holds(m, q, ok) /\ \A r \in i .. q - 1 : ~Holds(m, r, ok)
<1>1. F(9)
  <2>1. Holds(m, 9, ok)
    BY PhaseNumbers DEF Holds, PhaseNames
  <2> QED BY <2>1
<1>2. ASSUME NEW i \in 1 .. 8, NEW j, j = i + 1, F(j)
      PROVE  F(i)
  <2>1. CASE Holds(m, i, ok)
    <3>1. i \in i .. 9 /\ \A r \in i .. i - 1 : ~Holds(m, r, ok)
      OBVIOUS
    <3> QED BY <2>1, <3>1
  <2>2. CASE ~Holds(m, i, ok)
    <3>1. PICK q \in i + 1 .. 9 :
            Holds(m, q, ok) /\ \A r \in i + 1 .. q - 1 : ~Holds(m, r, ok)
      BY <1>2
    <3>2. q \in i .. 9
      OBVIOUS
    <3>3. ASSUME NEW r \in i .. q - 1
          PROVE  ~Holds(m, r, ok)
      <4>1. r = i \/ r \in i + 1 .. q - 1
        OBVIOUS
      <4> QED BY <4>1, <2>2, <3>1
    <3> QED BY <3>1, <3>2, <3>3
  <2> QED BY <2>1, <2>2
<1> HIDE DEF F
<1>3. F(8) /\ F(7) /\ F(6) /\ F(5) /\ F(4) /\ F(3) /\ F(2) /\ F(1)
  <2>1. F(8) BY <1>1, <1>2
  <2>2. F(7) BY <2>1, <1>2
  <2>3. F(6) BY <2>2, <1>2
  <2>4. F(5) BY <2>3, <1>2
  <2>5. F(4) BY <2>4, <1>2
  <2>6. F(3) BY <2>5, <1>2
  <2>7. F(2) BY <2>6, <1>2
  <2>8. F(1) BY <2>7, <1>2
  <2> QED BY <2>1, <2>2, <2>3, <2>4, <2>5, <2>6, <2>7, <2>8
<1>4. F(p)
  <2>1. p = 1 \/ p = 2 \/ p = 3 \/ p = 4 \/ p = 5 \/ p = 6 \/ p = 7 \/ p = 8 \/ p = 9
    OBVIOUS
  <2> QED BY <2>1, <1>1, <1>3
<1> QED BY <1>4 DEF F

\* The applications as StartApps leaves them.
LEMMA StartAppsFields ==
  ASSUME NEW m \in AnyManager, NEW S, NEW ok, Steady(m)
  PROVE  LET n == StartApps(m, S, ok)
         IN /\ n \in AnyManager /\ Steady(n)
            /\ n.systemd_initialized = m.systemd_initialized
            /\ n.manager_initialized = m.manager_initialized
            /\ \A a \in Apps :
                 /\ n.app[a].monitored <=> m.app[a].monitored \/ PhaseOf[a] \in S
                 /\ \A q \in S : a \in Launched(q, ok) /\ q < 8 => n.app[a].connected
<1> DEFINE launched == UNION {Launched(q, ok) : q \in S}
           children == launched \ Activated
           f == [a \in Apps |->
                  [m.app[a] EXCEPT
                     !.monitored = @ \/ PhaseOf[a] \in S,
                     !.connected = @ \/ (a \in launched /\ PhaseOf[a] < APPLICATION),
                     !.pid = @ \/ a \in children,
                     !.procs = IF a \in children THEN @ + 1 ELSE @]]
           n == StartApps(m, S, ok)
<1>1. n = [m EXCEPT !.app = f]
  BY DEF StartApps
<1>2. ASSUME NEW a \in Apps
      PROVE  /\ f[a] \in AnyApplication
             /\ f[a].monitored <=> m.app[a].monitored \/ PhaseOf[a] \in S
             /\ f[a].connected <=> m.app[a].connected \/ (a \in launched /\ PhaseOf[a] < 8)
             /\ f[a].pid => f[a].procs > 0
  <2> DEFINE r == m.app[a]
  <2>1. r \in AnyApplication /\ (r.pid => r.procs > 0)
    BY DEF AnyManager, Steady
  <2>2. /\ (r.monitored \/ PhaseOf[a] \in S) \in BOOLEAN
        /\ (r.connected \/ (a \in launched /\ PhaseOf[a] < APPLICATION)) \in BOOLEAN
        /\ (r.pid \/ a \in children) \in BOOLEAN
        /\ (IF a \in children THEN r.procs + 1 ELSE r.procs) \in Nat
    BY <2>1 DEF AnyApplication
  <2>3. f[a] = [r EXCEPT
                  !.monitored = r.monitored \/ PhaseOf[a] \in S,
                  !.connected = r.connected \/ (a \in launched /\ PhaseOf[a] < APPLICATION),
                  !.pid = r.pid \/ a \in children,
                  !.procs = IF a \in children THEN r.procs + 1 ELSE r.procs]
    OBVIOUS
  <2> HIDE DEF f, r, children, launched
  <2>4. f[a] \in AnyApplication
    BY <2>1, <2>2, <2>3 DEF AnyApplication
  <2>5. /\ f[a].monitored = (r.monitored \/ PhaseOf[a] \in S)
        /\ f[a].connected = (r.connected \/ (a \in launched /\ PhaseOf[a] < APPLICATION))
        /\ f[a].pid = (r.pid \/ a \in children)
        /\ f[a].procs = IF a \in children THEN r.procs + 1 ELSE r.procs
    BY <2>1, <2>3 DEF AnyApplication
  <2>6. f[a].pid => f[a].procs > 0
    BY <2>1, <2>5 DEF AnyApplication
  <2> QED BY <2>4, <2>5, <2>6, PhaseNumbers DEF r, PhaseNames
<1>3. f \in [Apps -> AnyApplication]
  BY <1>2
<1> HIDE DEF f
<1>4. n \in AnyManager /\ n.app = f /\ n.fault = m.fault
      /\ n.systemd_initialized = m.systemd_initialized
      /\ n.manager_initialized = m.manager_initialized
  BY <1>1, <1>3 DEF AnyManager
<1>5. ASSUME NEW a \in Apps, NEW q \in S, a \in Launched(q, ok), q < 8
      PROVE  f[a].connected
  <2>1. a \in launched /\ PhaseOf[a] = q
    BY <1>5 DEF Launched
  <2> QED BY <1>2, <1>5, <2>1
<1> QED BY <1>2, <1>4, <1>5 DEF Steady

\* start_phase(): the phase it stops in waits for something, and everything up
\* to that phase has begun.
LEMMA StartPhaseGood ==
  ASSUME NEW m \in AnyManager, NEW p \in 1 .. 9, NEW ok, Steady(m),
         \A a \in Apps : m.app[a].monitored <=> PhaseOf[a] < p,
         p <= 4 => ~m.manager_initialized,
         p > 4 => m.manager_initialized /\ (SystemdManaged => m.systemd_initialized)
  PROVE  Good(StartPhase(m, p, ok)) /\ StartPhase(m, p, ok).phase >= p
<1> DEFINE last == CHOOSE q \in p .. RUNNING :
                Holds(m, q, ok) /\ \A r \in p .. q - 1 : ~Holds(m, r, ok)
           awaited == IF last < APPLICATION THEN Launched(last, ok) ELSE {}
           s == StartApps(m, p .. last, ok)
           i == \/ m.manager_initialized
                \/ p <= INITIALIZATION /\ last > INITIALIZATION
                \/ last = INITIALIZATION /\ awaited = {}
           n == StartPhase(m, p, ok)
<1>1. last \in p .. 9 /\ Holds(m, last, ok) /\ \A r \in p .. last - 1 : ~Holds(m, r, ok)
  <2>1. \E q \in p .. RUNNING : Holds(m, q, ok) /\ \A r \in p .. q - 1 : ~Holds(m, r, ok)
    BY FirstHold, PhaseNumbers DEF PhaseNames
  <2> QED BY <2>1, PhaseNumbers DEF PhaseNames
<1> HIDE DEF last
<1>2. /\ s \in AnyManager /\ Steady(s)
      /\ s.systemd_initialized = m.systemd_initialized
      /\ s.manager_initialized = m.manager_initialized
      /\ \A a \in Apps :
           /\ s.app[a].monitored <=> m.app[a].monitored \/ PhaseOf[a] \in p .. last
           /\ \A q \in p .. last : a \in Launched(q, ok) /\ q < 8 => s.app[a].connected
  <2> DEFINE S == p .. last
  <2> HIDE DEF S
  <2>1. LET r == StartApps(m, S, ok)
        IN /\ r \in AnyManager /\ Steady(r)
           /\ r.systemd_initialized = m.systemd_initialized
           /\ r.manager_initialized = m.manager_initialized
           /\ \A a \in Apps :
                /\ r.app[a].monitored <=> m.app[a].monitored \/ PhaseOf[a] \in S
                /\ \A q \in S : a \in Launched(q, ok) /\ q < 8 => r.app[a].connected
    BY StartAppsFields
  <2> QED BY <2>1 DEF S
<1>3. n = [s EXCEPT !.phase = last, !.pending_apps = awaited,
                    !.phase_timeout = awaited # {},
                    !.manager_initialized =
                       @ \/ (p <= INITIALIZATION /\ last > INITIALIZATION)
                         \/ (last = INITIALIZATION /\ awaited = {})]
  BY DEF StartPhase, last
<1>4. awaited \in SUBSET Apps /\ \A a \in awaited : PhaseOf[a] = last /\ last < 8
  BY PhaseNumbers DEF Launched, PhaseNames
<1> HIDE DEF s
<1>5. i \in BOOLEAN
  BY DEF AnyManager
<1>6. n = [s EXCEPT !.phase = last, !.pending_apps = awaited,
                    !.phase_timeout = awaited # {}, !.manager_initialized = i]
  BY <1>2, <1>3
<1> HIDE DEF i, n, awaited
<1>7. /\ n \in AnyManager /\ n.phase = last /\ n.pending_apps = awaited
      /\ n.phase_timeout = (awaited # {}) /\ n.manager_initialized = i
      /\ n.app = s.app /\ n.fault = s.fault
      /\ n.systemd_initialized = s.systemd_initialized
  <2> DEFINE t == awaited # {}
  <2>1. t \in BOOLEAN /\ last \in 0 .. 10
    BY <1>1
  <2>2. n = [s EXCEPT !.phase = last, !.pending_apps = awaited,
                      !.phase_timeout = t, !.manager_initialized = i]
    BY <1>6
  <2> HIDE DEF t
  <2>3. /\ n \in AnyManager /\ n.phase = last /\ n.pending_apps = awaited
        /\ n.phase_timeout = t /\ n.manager_initialized = i
        /\ n.app = s.app /\ n.fault = s.fault
        /\ n.systemd_initialized = s.systemd_initialized
    BY <1>2, <1>4, <1>5, <2>1, <2>2 DEF AnyManager
  <2> QED BY <2>3 DEF t
<1>8. Steady(n)
  BY <1>2, <1>7 DEF Steady
<1>9. Begun(n)
  <2>1. ASSUME NEW a \in Apps
        PROVE  n.app[a].monitored <=> PhaseOf[a] <= last
    <3>1. PhaseOf[a] \in 1 .. 8
      BY AppsAssumption, PhaseNumbers DEF PhaseNames
    <3>2. PhaseOf[a] < p \/ PhaseOf[a] \in p .. last <=> PhaseOf[a] <= last
      BY <1>1, <3>1
    <3> QED BY <1>2, <1>7, <3>2
  <2> QED BY <1>7, <2>1 DEF Begun
<1>10. Signaled(n)
  <2>1. CASE p > 4
    BY <1>1, <1>2, <1>7, <2>1, PhaseNumbers DEF Signaled, i, PhaseNames
  <2>2. CASE p <= 4
    <3>1. CASE last > 4
      <4>1. 4 \in p .. last - 1
        BY <1>1, <2>2, <3>1
      <4>2. ~(SystemdManaged /\ ~m.systemd_initialized)
        BY <1>1, <4>1, PhaseNumbers DEF Holds, PhaseNames
      <4> QED BY <1>1, <1>2, <1>7, <2>2, <3>1, <4>2, PhaseNumbers DEF Signaled, i, PhaseNames
    <3>2. CASE last <= 4
      BY <1>1, <1>7, <2>2, <3>2, PhaseNumbers DEF Signaled, i, PhaseNames
    <3> QED BY <1>1, <3>1, <3>2
  <2> QED BY <2>1, <2>2
<1>11. Awaiting(n)
  <2>1. \A a \in n.pending_apps :
          PhaseOf[a] = n.phase /\ n.phase < 8 /\ n.app[a].connected
    <3>1. ASSUME NEW a \in awaited
          PROVE  s.app[a].connected
      <4>1. a \in Apps /\ a \in Launched(last, ok) /\ last < 8 /\ last \in p .. last
        BY <1>1, <1>4, <3>1 DEF awaited
      <4> QED BY <1>2, <4>1
    <3> QED BY <1>4, <1>7, <3>1
  <2>2. ASSUME n.phase \in 1 .. 8, n.pending_apps = {}
        PROVE  /\ n.phase = 4 /\ n.manager_initialized
               /\ SystemdManaged /\ ~n.systemd_initialized
    <3>1. awaited = {} /\ last # 9
      BY <1>7, <2>2
    <3>2. ~(last < 8 /\ Launched(last, ok) # {})
      BY <3>1, PhaseNumbers DEF awaited, PhaseNames
    <3>3. last = 4 /\ SystemdManaged /\ ~m.systemd_initialized
      BY <1>1, <3>1, <3>2, PhaseNumbers DEF Holds, PhaseNames
    <3> QED BY <1>2, <1>7, <3>1, <3>3, PhaseNumbers DEF i, PhaseNames
  <2> QED BY <1>7, <2>1, <2>2 DEF Awaiting
<1> QED BY <1>1, <1>7, <1>8, <1>9, <1>10, <1>11 DEF Good, n

\* end_phase(): what the phase has been waiting for does not matter any more.
LEMMA EndPhaseGood ==
  ASSUME NEW m \in AnyManager, NEW ok, Steady(m), Begun(m), Signaled(m),
         m.phase \in 1 .. 7
  PROVE  /\ Good(EndPhase(m, ok)) /\ EndPhase(m, ok).phase >= m.phase
         /\ ~(m.phase = 4 /\ SystemdManaged /\ ~m.systemd_initialized) =>
              EndPhase(m, ok).phase > m.phase
<1> DEFINE i == m.manager_initialized \/ m.phase = INITIALIZATION
           r == [m EXCEPT !.pending_apps = {}, !.phase_timeout = FALSE,
                          !.manager_initialized = @ \/ m.phase = INITIALIZATION]
<1>1. i \in BOOLEAN /\ (i <=> m.manager_initialized \/ m.phase = 4)
  BY PhaseNumbers DEF AnyManager, PhaseNames
<1>2. r = [m EXCEPT !.pending_apps = {}, !.phase_timeout = FALSE,
                    !.manager_initialized = i]
  OBVIOUS
<1> HIDE DEF i, r
<1>3. /\ r \in AnyManager /\ r.phase = m.phase /\ r.pending_apps = {}
      /\ r.phase_timeout = FALSE /\ r.manager_initialized = i
      /\ r.app = m.app /\ r.fault = m.fault
      /\ r.systemd_initialized = m.systemd_initialized
  BY <1>1, <1>2 DEF AnyManager
<1>4. Steady(r) /\ Begun(r)
  BY <1>3 DEF Steady, Begun
<1>5. CASE m.phase = 4 /\ SystemdManaged /\ ~m.systemd_initialized
  <2>1. EndPhase(m, ok) = r
    BY <1>5, PhaseNumbers DEF EndPhase, r, PhaseNames
  <2>2. Awaiting(r) /\ Signaled(r)
    BY <1>1, <1>3, <1>5 DEF Awaiting, Signaled
  <2>3. Good(r) /\ r.phase >= m.phase
    BY <1>3, <1>4, <2>2 DEF Good
  <2> QED BY <1>5, <2>1, <2>3
<1>6. CASE ~(m.phase = 4 /\ SystemdManaged /\ ~m.systemd_initialized)
  <2>1. EndPhase(m, ok) = StartPhase(r, m.phase + 1, ok)
    BY <1>6, PhaseNumbers DEF EndPhase, r, PhaseNames
  <2> DEFINE p == m.phase + 1
  <2>2. p \in 1 .. 9 /\ p >= m.phase
    OBVIOUS
  <2>3. \A a \in Apps : r.app[a].monitored <=> PhaseOf[a] < p
    <3>1. \A a \in Apps : PhaseOf[a] \in 1 .. 8
      BY AppsAssumption, PhaseNumbers DEF PhaseNames
    <3> QED BY <1>3, <3>1 DEF Begun
  <2>4. /\ p <= 4 => ~r.manager_initialized
        /\ p > 4 => r.manager_initialized /\ (SystemdManaged => r.systemd_initialized)
    BY <1>1, <1>3, <1>6 DEF Signaled
  <2> HIDE DEF p
  <2>5. Good(StartPhase(r, p, ok)) /\ StartPhase(r, p, ok).phase >= p
    BY <1>3, <1>4, <2>2, <2>3, <2>4, StartPhaseGood
  <2>6. StartPhase(r, p, ok).phase \in 0 .. 10
    BY <2>5 DEF Good, AnyManager
  <2> QED BY <2>1, <2>2, <2>5, <2>6 DEF p
<1> QED BY <1>5, <1>6

\* app_event_during_startup(): one application less, and the end of the phase
\* when it was the last.
LEMMA AppEventGood ==
  ASSUME NEW m, NEW a, NEW ok, Good(m), m.phase >= 1
  PROVE  Good(AppEvent(m, a, ok)) /\ AppEvent(m, a, ok).phase >= m.phase
<1> DEFINE r == [m EXCEPT !.pending_apps = @ \ {a}]
<1>1. m \in AnyManager /\ Steady(m) /\ Begun(m) /\ Signaled(m) /\ Awaiting(m)
  BY DEF Good
<1>2. m.phase \in 0 .. 10
  BY <1>1 DEF AnyManager
<1>3. /\ r \in AnyManager /\ r.phase = m.phase
      /\ r.pending_apps = m.pending_apps \ {a}
      /\ r.phase_timeout = m.phase_timeout
      /\ r.manager_initialized = m.manager_initialized
      /\ r.app = m.app /\ r.fault = m.fault
      /\ r.systemd_initialized = m.systemd_initialized
  BY <1>1 DEF AnyManager
<1>4. AppEvent(m, a, ok) =
        CASE m.phase >= 8 -> m
          [] m.phase < 8 /\ r.pending_apps = {} -> EndPhase(r, ok)
          [] OTHER -> r
  BY PhaseNumbers DEF AppEvent, PhaseNames
<1> HIDE DEF r
<1>5. Steady(r) /\ Begun(r) /\ Signaled(r)
  BY <1>1, <1>3 DEF Steady, Begun, Signaled
<1>6. CASE m.phase >= 8
  <2>1. AppEvent(m, a, ok) = m
    BY <1>2, <1>4, <1>6
  <2> QED BY <1>2, <2>1
<1>7. CASE m.phase < 8 /\ r.pending_apps = {}
  <2>1. AppEvent(m, a, ok) = EndPhase(r, ok)
    BY <1>2, <1>4, <1>7
  <2>2. r.phase \in 1 .. 7
    BY <1>2, <1>3, <1>7
  <2> QED BY <1>3, <1>5, <2>1, <2>2, EndPhaseGood
<1>8. CASE m.phase < 8 /\ r.pending_apps # {}
  <2>1. AppEvent(m, a, ok) = r
    BY <1>2, <1>4, <1>8
  <2>2. Awaiting(r)
    BY <1>1, <1>3, <1>8 DEF Awaiting
  <2> QED BY <1>2, <1>3, <1>5, <2>1, <2>2 DEF Good
<1> QED BY <1>2, <1>6, <1>7, <1>8

\* The record m with x for the application a.
WithApp(m, a, x) == [m EXCEPT !.app = [m.app EXCEPT ![a] = x]]

\* A change of one application that keeps its connections, and has a child if
\* it has a pid, disturbs nothing.
LEMMA AppChangedGood ==
  ASSUME NEW m, Good(m), NEW a \in Apps, NEW x \in AnyApplication,
         x.monitored = m.app[a].monitored, x.connected = m.app[a].connected,
         x.pid => x.procs > 0
  PROVE  Good(WithApp(m, a, x)) /\ WithApp(m, a, x).phase = m.phase
<1> DEFINE f == [m.app EXCEPT ![a] = x]
           n == WithApp(m, a, x)
<1>1. m \in AnyManager /\ Steady(m) /\ Begun(m) /\ Signaled(m) /\ Awaiting(m)
  BY DEF Good
<1>2. f \in [Apps -> AnyApplication]
  BY <1>1 DEF AnyManager
<1>3. \A b \in Apps :
        /\ f[b].monitored = m.app[b].monitored /\ f[b].connected = m.app[b].connected
        /\ f[b].pid => f[b].procs > 0
  BY <1>1 DEF AnyManager, Steady
<1> HIDE DEF f
<1>4. n = [m EXCEPT !.app = f]
  BY DEF f, WithApp
<1> HIDE DEF n
<1>5. /\ n \in AnyManager /\ n.phase = m.phase /\ n.app = f
      /\ n.pending_apps = m.pending_apps /\ n.phase_timeout = m.phase_timeout
      /\ n.manager_initialized = m.manager_initialized /\ n.fault = m.fault
      /\ n.systemd_initialized = m.systemd_initialized
  BY <1>1, <1>2, <1>4 DEF AnyManager
<1>6. Steady(n) /\ Begun(n) /\ Signaled(n)
  BY <1>1, <1>3, <1>5 DEF Steady, Begun, Signaled
<1>7. m.pending_apps \subseteq Apps
  BY <1>1 DEF AnyManager
<1>8. Awaiting(n)
  BY <1>1, <1>3, <1>5, <1>7 DEF Awaiting
<1> QED BY <1>5, <1>6, <1>8 DEF Good, n

\* Launching gives the application a child to go with its pid.
LEMMA LaunchGood ==
  ASSUME NEW m, Good(m), NEW a \in Apps
  PROVE  Good(Launch(m, a)) /\ Launch(m, a).phase = m.phase
<1>1. CASE a \in Activated
  BY <1>1 DEF Launch
<1>2. CASE a \notin Activated
  <2> DEFINE y == m.app[a]
             x == [y EXCEPT !.pid = TRUE, !.procs = y.procs + 1]
  <2>1. m.app \in [Apps -> AnyApplication] /\ y \in AnyApplication
    BY DEF Good, AnyManager
  <2>2. Launch(m, a) = WithApp(m, a, x)
    BY <1>2 DEF Launch, WithApp
  <2> HIDE DEF y
  <2>3. /\ x \in AnyApplication /\ x.monitored = y.monitored
        /\ x.connected = y.connected /\ (x.pid => x.procs > 0)
    <3>1. y.procs \in Nat /\ y.procs + 1 \in Nat /\ y.procs + 1 > 0
      BY <2>1 DEF AnyApplication
    <3>2. x.procs = y.procs + 1 /\ x.monitored = y.monitored /\ x.connected = y.connected
      BY <2>1 DEF AnyApplication
    <3>3. x \in AnyApplication
      BY <2>1, <3>1 DEF AnyApplication
    <3> QED BY <3>1, <3>2, <3>3
  <2> HIDE DEF x
  <2> QED BY <2>2, <2>3, AppChangedGood DEF y
<1> QED BY <1>1, <1>2

\* Reaping a child forgets the pid, so that no pid is left without a child.
LEMMA ReapGood ==
  ASSUME NEW m, Good(m), NEW a \in Apps, m.app[a].procs > 0
  PROVE  Good(Reap(m, a)) /\ Reap(m, a).phase = m.phase
<1> DEFINE y == m.app[a]
           x == [y EXCEPT !.pid = FALSE, !.procs = y.procs - 1]
<1>1. m.app \in [Apps -> AnyApplication] /\ y \in AnyApplication
  BY DEF Good, AnyManager
<1>2. Reap(m, a) = WithApp(m, a, x)
  BY DEF Reap, WithApp
<1> HIDE DEF y
<1>3. y.procs > 0
  BY DEF y
<1>4. /\ x \in AnyApplication /\ x.monitored = y.monitored
      /\ x.connected = y.connected /\ ~x.pid
  <2>1. y.procs - 1 \in Nat
    BY <1>1, <1>3 DEF AnyApplication
  <2>2. ~x.pid /\ x.monitored = y.monitored /\ x.connected = y.connected
    BY <1>1 DEF AnyApplication
  <2>3. x \in AnyApplication
    BY <1>1, <2>1 DEF AnyApplication
  <2> QED BY <2>2, <2>3
<1> HIDE DEF x
<1> QED BY <1>2, <1>4, AppChangedGood DEF y

\* The fields no other field depends on.
WithFault(m, e) == [m EXCEPT !.fault = e]
Over(m) == [m EXCEPT !.over = TRUE]

LEMMA FlagsGood ==
  ASSUME NEW m, Good(m)
  PROVE  /\ Good(Whale(m)) /\ Whale(m).phase = m.phase
         /\ Good(Over(m)) /\ Over(m).phase = m.phase
         /\ \A e \in {"freed_access", "crashed"} :
              Good(WithFault(m, e)) /\ WithFault(m, e).phase = m.phase
<1>1. m \in AnyManager /\ Steady(m) /\ Begun(m) /\ Signaled(m) /\ Awaiting(m)
  BY DEF Good
<1>2. ASSUME NEW n \in AnyManager, n.phase = m.phase, n.app = m.app,
             n.pending_apps = m.pending_apps, n.phase_timeout = m.phase_timeout,
             n.manager_initialized = m.manager_initialized,
             n.systemd_initialized = m.systemd_initialized, n.fault # "assertion"
      PROVE  Good(n)
  BY <1>1, <1>2 DEF Good, Steady, Begun, Signaled, Awaiting
<1>3. m.fault # "assertion"
  BY <1>1 DEF Steady
<1>4. Good(Whale(m)) /\ Whale(m).phase = m.phase
  <2> DEFINE n == [m EXCEPT !.whale = TRUE]
  <2>1. /\ n \in AnyManager /\ n.phase = m.phase /\ n.app = m.app
        /\ n.pending_apps = m.pending_apps /\ n.phase_timeout = m.phase_timeout
        /\ n.manager_initialized = m.manager_initialized
        /\ n.systemd_initialized = m.systemd_initialized /\ n.fault = m.fault
    BY <1>1 DEF AnyManager
  <2> HIDE DEF n
  <2>2. Good(n) /\ n.phase = m.phase
    BY <1>2, <1>3, <2>1
  <2> QED BY <2>2 DEF Whale, n
<1>5. Good(Over(m)) /\ Over(m).phase = m.phase
  <2> DEFINE n == [m EXCEPT !.over = TRUE]
  <2>1. /\ n \in AnyManager /\ n.phase = m.phase /\ n.app = m.app
        /\ n.pending_apps = m.pending_apps /\ n.phase_timeout = m.phase_timeout
        /\ n.manager_initialized = m.manager_initialized
        /\ n.systemd_initialized = m.systemd_initialized /\ n.fault = m.fault
    BY <1>1 DEF AnyManager
  <2> HIDE DEF n
  <2>2. Good(n) /\ n.phase = m.phase
    BY <1>2, <1>3, <2>1
  <2> QED BY <2>2 DEF n, Over
<1>6. ASSUME NEW e \in {"freed_access", "crashed"}
      PROVE  Good(WithFault(m, e)) /\ WithFault(m, e).phase = m.phase
  <2> DEFINE n == [m EXCEPT !.fault = e]
  <2>1. /\ n \in AnyManager /\ n.phase = m.phase /\ n.app = m.app
        /\ n.pending_apps = m.pending_apps /\ n.phase_timeout = m.phase_timeout
        /\ n.manager_initialized = m.manager_initialized
        /\ n.systemd_initialized = m.systemd_initialized /\ n.fault = e
    BY <1>1 DEF AnyManager
  <2> HIDE DEF n
  <2>2. Good(n) /\ n.phase = m.phase
    BY <1>2, <2>1
  <2> QED BY <2>2 DEF n, WithFault
<1> QED BY <1>4, <1>5, <1>6

\* scsm_app_restart() keeps what it finds consistent, failures included.
LEMMA RestartGood ==
  ASSUME NEW m, Good(m), NEW a \in Apps, NEW ok
  PROVE  Good(Restart(m, a, ok)) /\ Restart(m, a, ok).phase = m.phase
<1> DEFINE y == m.app[a]
           x == [y EXCEPT !.recent = TRUE]
           r == [m EXCEPT !.app[a].recent = TRUE]
<1>1. m.app \in [Apps -> AnyApplication] /\ y \in AnyApplication /\ (y.pid => y.procs > 0)
  BY DEF Good, AnyManager, Steady
<1>2. r = WithApp(m, a, x)
  BY DEF WithApp
<1>3. \/ Restart(m, a, ok) = Launch(r, a)
      \/ Restart(m, a, ok) = r
      \/ Restart(m, a, ok) = WithFault(r, "freed_access")
  BY DEF Restart, WithFault
<1> HIDE DEF y, r
<1>4. /\ x \in AnyApplication /\ x.monitored = y.monitored
      /\ x.connected = y.connected /\ (x.pid => x.procs > 0)
  BY <1>1 DEF AnyApplication
<1> HIDE DEF x
<1>5. Good(r) /\ r.phase = m.phase
  BY <1>2, <1>4, AppChangedGood DEF y
<1> QED BY <1>3, <1>5, LaunchGood, FlagsGood

\* _restart_app(), by each of its outcomes: the session is quit, the application
\* runs again, or it is given up.
LEMMA RestartAppGood ==
  ASSUME NEW m, Good(m), m.phase >= 1, NEW a \in Apps, NEW ok
  PROVE  Good(RestartApp(m, a, ok)) /\ RestartApp(m, a, ok).phase >= m.phase
<1> DEFINE r == IF m.app[a].recent THEN m ELSE Restart(m, a, ok)
           w == IF a \in Required THEN Whale(r) ELSE r
<1>1. m.phase \in 0 .. 10
  BY DEF Good, AnyManager
<1>2. Good(r) /\ r.phase = m.phase
  BY RestartGood
<1>3. \/ RestartApp(m, a, ok) = Over(m)
      \/ RestartApp(m, a, ok) = r
      \/ RestartApp(m, a, ok) = AppEvent(w, a, ok)
  <2>1. CASE DisplayServer(a)
    BY <2>1 DEF RestartApp, Over
  <2>2. CASE ~DisplayServer(a) /\ RestartSucceeds(m, a, ok)
    BY <2>2 DEF RestartApp
  <2>3. CASE ~DisplayServer(a) /\ ~RestartSucceeds(m, a, ok)
    BY <2>3 DEF RestartApp
  <2> QED BY <2>1, <2>2, <2>3
<1> HIDE DEF r
<1>4. Good(w) /\ w.phase = m.phase
  BY <1>2, FlagsGood
<1> HIDE DEF w
<1>5. Good(AppEvent(w, a, ok)) /\ AppEvent(w, a, ok).phase >= m.phase
  BY <1>4, AppEventGood
<1> QED BY <1>1, <1>2, <1>3, <1>5, FlagsGood

\* app_died() and app_exited().
LEMMA AppEndedGood ==
  ASSUME NEW m, Good(m), m.phase >= 1, NEW a \in Apps, NEW ok
  PROVE  /\ Good(AppDied(m, a, ok)) /\ AppDied(m, a, ok).phase >= m.phase
         /\ \A success \in BOOLEAN : Good(AppExited(m, a, success, ok))
                                     /\ AppExited(m, a, success, ok).phase >= m.phase
<1>1. m.phase \in 0 .. 10
  BY DEF Good, AnyManager
<1>2. Good(AppDied(m, a, ok)) /\ AppDied(m, a, ok).phase >= m.phase
  <2>1. AppDied(m, a, ok) = m \/ AppDied(m, a, ok) = RestartApp(m, a, ok)
    BY DEF AppDied
  <2> QED BY <1>1, <2>1, RestartAppGood
<1>3. ASSUME NEW success \in BOOLEAN
      PROVE  Good(AppExited(m, a, success, ok)) /\ AppExited(m, a, success, ok).phase >= m.phase
  <2>1. \/ AppExited(m, a, success, ok) = AppDied(m, a, ok)
        \/ AppExited(m, a, success, ok) = AppEvent(m, a, ok)
    BY DEF AppExited
  <2> QED BY <1>2, <2>1, AppEventGood
<1> QED BY <1>2, <1>3

\* scsm_app_set_registered() with the handler of its notification.
LEMMA SetRegisteredGood ==
  ASSUME NEW m, Good(m), m.phase >= 1, NEW a \in Apps, NEW ok
  PROVE  Good(SetRegistered(m, a, ok)) /\ SetRegistered(m, a, ok).phase >= m.phase
<1> DEFINE y == m.app[a]
           x == [y EXCEPT !.registered = TRUE]
           r == [m EXCEPT !.app[a].registered = TRUE]
<1>1. m.app \in [Apps -> AnyApplication] /\ y \in AnyApplication
      /\ (y.pid => y.procs > 0) /\ m.phase \in 0 .. 10
  BY DEF Good, AnyManager, Steady
<1>2. r = WithApp(m, a, x)
  BY DEF WithApp
<1>3. SetRegistered(m, a, ok) = r \/ SetRegistered(m, a, ok) = AppEvent(r, a, ok)
  BY DEF SetRegistered
<1> HIDE DEF y, r
<1>4. /\ x \in AnyApplication /\ x.monitored = y.monitored
      /\ x.connected = y.connected /\ (x.pid => x.procs > 0)
  BY <1>1 DEF AnyApplication
<1> HIDE DEF x
<1>5. Good(r) /\ r.phase = m.phase
  BY <1>2, <1>4, AppChangedGood DEF y
<1> QED BY <1>1, <1>3, <1>5, AppEventGood

-----------------------------------------------------------------------------
(* The steps.                                                              *)

\* A call returns within the bound on processes.
LEMMA BecomeGood ==
  ASSUME NEW n, Good(n), Become(n)
  PROVE  mgr' = n /\ mgr' \in Manager /\ Good(mgr')
<1>1. mgr' = n /\ n \in AnyManager /\ \A a \in Apps : n.app[a].procs <= MaxProcs
  BY DEF Become, Good
<1>2. \A a \in Apps : n.app[a] \in Application
  BY <1>1, ProcsAssumption DEF AnyManager, AnyApplication, Application
<1>3. n.app \in [Apps -> Application]
  BY <1>1, <1>2 DEF AnyManager
<1>4. n \in Manager
  BY <1>1, <1>3, PhaseNumbers DEF AnyManager, Manager, PhaseNames
<1> QED BY <1>1, <1>4

\* A well-typed record is one within the bound.
LEMMA ManagerTyped ==
  ASSUME NEW n \in Manager
  PROVE  n \in AnyManager /\ \A a \in Apps : n.app[a].procs <= MaxProcs
<1>1. ASSUME NEW x \in Application
      PROVE  x \in AnyApplication /\ x.procs <= MaxProcs
  BY ProcsAssumption DEF Application, AnyApplication
<1>2. n.app \in [Apps -> Application]
  BY DEF Manager
<1>3. n.app \in [Apps -> AnyApplication] /\ \A a \in Apps : n.app[a].procs <= MaxProcs
  BY <1>1, <1>2
<1>4. n \in AnyManager
  BY <1>3, PhaseNumbers DEF AnyManager, Manager, PhaseNames
<1> QED BY <1>3, <1>4

\* The invariant holds before the manager is started.
LEMMA InitIInv == Init => IInv
<1> SUFFICES ASSUME Init PROVE IInv
  OBVIOUS
<1>1. \A a \in Apps : PhaseOf[a] \in 1 .. 8
  BY AppsAssumption, PhaseNumbers DEF PhaseNames
<1> DEFINE x == [monitored |-> FALSE, connected |-> FALSE, registered |-> FALSE,
                 pid |-> FALSE, procs |-> 0, recent |-> FALSE]
<1>2. x \in Application
  BY ProcsAssumption DEF Application
<1>3. mgr.app = [a \in Apps |-> x]
  BY DEF Init
<1>4. x.pid = FALSE /\ x.procs = 0 /\ x.monitored = FALSE
  OBVIOUS
<1> HIDE DEF x
<1>5. mgr.app \in [Apps -> Application]
  BY <1>2, <1>3
<1>6. /\ mgr.phase = 0 /\ mgr.pending_apps = {} /\ mgr.phase_timeout = FALSE
      /\ mgr.manager_initialized = FALSE /\ mgr.fault = "none"
  BY PhaseNumbers DEF Init, PhaseNames
<1>7. mgr \in Manager
  BY <1>2, <1>3, PhaseNumbers DEF Init, Manager, PhaseNames, x
<1>8. TypeOK
  BY <1>7, AppsAssumption DEF TypeOK, Init
<1>9. Steady(mgr) /\ Awaiting(mgr) /\ Begun(mgr) /\ Signaled(mgr)
  BY <1>1, <1>3, <1>4, <1>6 DEF Steady, Awaiting, Begun, Signaled
<1>10. NothingYet
  BY <1>3, <1>4 DEF NothingYet, Init
<1> QED BY <1>7, <1>8, <1>9, <1>10, ManagerTyped DEF IInv, Good

\* What a step that goes through a function has to show.
LEMMA StepIInv ==
  ASSUME NEW n, Good(n), Become(n),
         n.phase = 0 => \A a \in Apps : client'[a] = "none" /\ n.app[a].procs = 0,
         client' \in [Apps -> {"none", "dbus", "xsmp"}],
         condition_clients' \subseteq Apps, enabled' \subseteq Apps
  PROVE  IInv'
<1>1. mgr' = n /\ mgr' \in Manager /\ Good(mgr')
  BY BecomeGood
<1>2. TypeOK'
  BY <1>1 DEF TypeOK
<1>3. NothingYet'
  BY <1>1 DEF NothingYet
<1>4. Good(mgr)'
  BY <1>1 DEF Good, Steady, Awaiting, Begun, Signaled, AnyManager, AnyApplication
<1> QED BY <1>2, <1>3, <1>4 DEF IInv

\* Every callback preserves it.
LEMMA NextIInv == IInv /\ [Next]_vars => IInv'
<1> SUFFICES ASSUME IInv, [Next]_vars PROVE IInv'
  OBVIOUS
<1>1. /\ mgr \in Manager /\ Good(mgr) /\ mgr.phase \in 0 .. 10
      /\ client \in [Apps -> {"none", "dbus", "xsmp"}]
      /\ condition_clients \subseteq Apps /\ enabled \subseteq Apps
      /\ mgr.phase = 0 => \A a \in Apps : client[a] = "none" /\ mgr.app[a].procs = 0
      /\ \A a \in Apps : mgr.app[a].procs <= MaxProcs
  BY ManagerTyped DEF IInv, TypeOK, NothingYet, Good, AnyManager
<1>2. mgr \in AnyManager /\ Steady(mgr) /\ Awaiting(mgr) /\ Begun(mgr) /\ Signaled(mgr)
  BY <1>1 DEF Good
<1>3. CASE ManagerStart
  <2>1. PICK ok : Become(StartPhase(mgr, 1, ok))
    BY <1>3, PhaseNumbers DEF ManagerStart, PhaseNames
  <2>2. mgr.phase = 0
    BY <1>3, PhaseNumbers DEF ManagerStart, PhaseNames
  <2>3. /\ \A a \in Apps : mgr.app[a].monitored <=> PhaseOf[a] < 1
        /\ ~mgr.manager_initialized
    <3>1. \A a \in Apps : PhaseOf[a] \in 1 .. 8
      BY AppsAssumption, PhaseNumbers DEF PhaseNames
    <3> QED BY <1>2, <2>2, <3>1 DEF Begun, Signaled
  <2>4. Good(StartPhase(mgr, 1, ok)) /\ StartPhase(mgr, 1, ok).phase >= 1
    BY <1>2, <2>3, StartPhaseGood
  <2> QED BY <1>1, <1>3, <2>1, <2>4, StepIInv DEF ManagerStart
<1>4. CASE PhaseTimeout
  <2> DEFINE w == IF mgr.pending_apps \cap Required # {} THEN Whale(mgr) ELSE mgr
  <2>1. PICK ok : Become(EndPhase(w, ok))
    BY <1>4 DEF PhaseTimeout
  <2>2. mgr.phase \in 1 .. 7
    <3>1. PICK a \in Apps : PhaseOf[a] = mgr.phase /\ mgr.phase < 8
      BY <1>2, <1>4 DEF Awaiting, PhaseTimeout, AnyManager
    <3> QED BY <1>1, <3>1, AppsAssumption, PhaseNumbers DEF PhaseNames
  <2>3. Good(w) /\ w.phase = mgr.phase
    BY <1>1, FlagsGood
  <2> HIDE DEF w
  <2>4. Good(EndPhase(w, ok)) /\ EndPhase(w, ok).phase >= mgr.phase
    BY <2>2, <2>3, EndPhaseGood DEF Good
  <2>5. EndPhase(w, ok).phase >= 1
    <3>1. EndPhase(w, ok).phase \in 0 .. 10
      BY <2>4 DEF Good, AnyManager
    <3> QED BY <2>2, <2>4, <3>1
  <2> QED BY <1>1, <1>4, <2>1, <2>4, <2>5, StepIInv DEF PhaseTimeout
<1>5. CASE Initialized
  <2> DEFINE r == [mgr EXCEPT !.systemd_initialized = TRUE]
  <2>1. SystemdManaged /\ ~mgr.systemd_initialized /\ mgr.phase \in 1 .. 4
    BY <1>5, PhaseNumbers DEF Initialized, PhaseNames
  <2>2. mgr.manager_initialized => mgr.phase = 4
    BY <1>2, <2>1 DEF Signaled
  <2>3. \/ mgr.manager_initialized /\ \E ok : Become(StartPhase(r, 5, ok))
        \/ ~mgr.manager_initialized /\ Become(r)
    BY <1>5, <2>2, PhaseNumbers DEF Initialized, PhaseNames
  <2>4. /\ r \in AnyManager /\ r.phase = mgr.phase /\ r.app = mgr.app
        /\ r.pending_apps = mgr.pending_apps /\ r.phase_timeout = mgr.phase_timeout
        /\ r.manager_initialized = mgr.manager_initialized
        /\ r.systemd_initialized = TRUE /\ r.fault = mgr.fault
    BY <1>2 DEF AnyManager
  <2> HIDE DEF r
  <2>5. Steady(r) /\ Begun(r) /\ Signaled(r)
    BY <1>2, <2>1, <2>4 DEF Steady, Begun, Signaled
  <2>6. CASE mgr.manager_initialized
    <3>1. PICK ok : Become(StartPhase(r, 5, ok))
      BY <2>3, <2>6
    <3>2. \A a \in Apps : r.app[a].monitored <=> PhaseOf[a] < 5
      <4>1. \A a \in Apps : PhaseOf[a] \in 1 .. 8
        BY AppsAssumption, PhaseNumbers DEF PhaseNames
      <4> QED BY <2>2, <2>4, <2>5, <2>6, <4>1 DEF Begun
    <3> DEFINE p == 5
    <3>3. /\ p \in 1 .. 9 /\ Become(StartPhase(r, p, ok))
          /\ \A a \in Apps : r.app[a].monitored <=> PhaseOf[a] < p
          /\ p <= 4 => ~r.manager_initialized
          /\ p > 4 => r.manager_initialized /\ (SystemdManaged => r.systemd_initialized)
      BY <2>4, <2>6, <3>1, <3>2
    <3> HIDE DEF p
    <3>4. Good(StartPhase(r, p, ok)) /\ StartPhase(r, p, ok).phase >= p
      BY <2>4, <2>5, <3>3, StartPhaseGood
    <3>5. StartPhase(r, p, ok).phase # 0
      BY <3>3, <3>4
    <3> QED BY <1>1, <1>5, <3>3, <3>4, <3>5, StepIInv DEF Initialized
  <2>7. CASE ~mgr.manager_initialized
    <3>1. Awaiting(r)
      BY <1>2, <2>1, <2>4, <2>7 DEF Awaiting
    <3>2. Good(r) /\ r.phase # 0
      BY <2>1, <2>4, <2>5, <3>1 DEF Good
    <3> QED BY <1>1, <1>5, <2>3, <2>7, <3>2, StepIInv DEF Initialized
  <2> QED BY <2>6, <2>7
<1>6. CASE LogoutBeginsOrIsCanceled
  <2>1. PICK q \in {9, 10} : mgr.phase \in {9, 10} /\ mgr' = [mgr EXCEPT !.phase = q]
    BY <1>6, PhaseNumbers DEF LogoutBeginsOrIsCanceled, PhaseNames
  <2> DEFINE n == [mgr EXCEPT !.phase = q]
  <2>2. /\ n \in AnyManager /\ n.phase = q /\ n.app = mgr.app
        /\ n.pending_apps = mgr.pending_apps /\ n.phase_timeout = mgr.phase_timeout
        /\ n.manager_initialized = mgr.manager_initialized
        /\ n.systemd_initialized = mgr.systemd_initialized /\ n.fault = mgr.fault
    BY <1>2 DEF AnyManager
  <2> HIDE DEF n
  <2>3. mgr.pending_apps = {}
    <3>1. mgr.pending_apps \subseteq Apps
      BY <1>2 DEF AnyManager
    <3> QED BY <1>2, <2>1, <3>1 DEF Awaiting
  <2>4. Steady(n) /\ Signaled(n) /\ Awaiting(n)
    BY <1>2, <2>1, <2>2, <2>3 DEF Steady, Signaled, Awaiting
  <2>5. Begun(n)
    <3>1. \A a \in Apps : PhaseOf[a] \in 1 .. 8
      BY AppsAssumption, PhaseNumbers DEF PhaseNames
    <3> QED BY <1>2, <2>1, <2>2, <3>1 DEF Begun
  <2>6. Good(n) /\ n.phase # 0 /\ Become(n)
    BY <1>1, <2>1, <2>2, <2>4, <2>5 DEF Good, Become, n
  <2> QED BY <1>1, <1>6, <2>6, StepIInv DEF LogoutBeginsOrIsCanceled
<1>7. CASE Terminate
  <2>1. Good(Over(mgr)) /\ Over(mgr).phase = mgr.phase
    BY <1>1, FlagsGood
  <2>2. Over(mgr).app = mgr.app
    BY <1>2 DEF Over, AnyManager
  <2>3. Become(Over(mgr))
    BY <1>1, <1>7, <2>2 DEF Terminate, Become, Over
  <2> QED BY <1>1, <1>7, <2>1, <2>2, <2>3, StepIInv DEF Terminate
<1>8. CASE CrashAfterFreedAccess
  <2> DEFINE n == WithFault(mgr, "crashed")
  <2>1. Good(n) /\ n.phase = mgr.phase
    BY <1>1, FlagsGood
  <2>2. n.app = mgr.app
    BY <1>2 DEF WithFault, AnyManager
  <2>3. Become(n)
    BY <1>1, <1>8, <2>2 DEF CrashAfterFreedAccess, Become, WithFault
  <2> HIDE DEF n
  <2> QED BY <1>1, <1>8, <2>1, <2>2, <2>3, StepIInv DEF CrashAfterFreedAccess
<1>9. ASSUME NEW a \in Apps, ProcessEnds(a)
      PROVE  IInv'
  <2> DEFINE r == Reap(mgr, a)
  <2>1. mgr.app[a].procs > 0 /\ mgr.phase >= 1
    BY <1>1, <1>9 DEF ProcessEnds
  <2>2. Good(r) /\ r.phase = mgr.phase
    BY <1>1, <2>1, ReapGood
  <2>3. PICK ok : \/ Become(r)
                  \/ \E success \in BOOLEAN : Become(AppExited(r, a, success, ok))
                  \/ Become(AppDied(r, a, ok))
    BY <1>9 DEF ProcessEnds
  <2> HIDE DEF r
  <2>4. /\ r.phase >= 1
        /\ Good(AppDied(r, a, ok)) /\ AppDied(r, a, ok).phase >= r.phase
        /\ \A success \in BOOLEAN : Good(AppExited(r, a, success, ok))
                                    /\ AppExited(r, a, success, ok).phase >= r.phase
    BY <2>1, <2>2, AppEndedGood
  <2>5. PICK n : Become(n) /\ Good(n) /\ (n.phase >= r.phase \/ n = r)
    BY <2>2, <2>3, <2>4
  <2>6. n.phase # 0
    <3>1. n.phase \in 0 .. 10 /\ r.phase \in 0 .. 10
      BY <2>2, <2>5 DEF Good, AnyManager
    <3> QED BY <2>4, <2>5, <3>1
  <2> QED BY <1>1, <1>9, <2>5, <2>6, StepIInv DEF ProcessEnds
<1>10. ASSUME NEW a \in Apps, ClientRegisters(a)
       PROVE  IInv'
  <2>1. mgr.phase >= 1
    BY <1>10, PhaseNumbers DEF ClientRegisters, PhaseNames
  <2>2. PICK kind, ok :
          /\ kind \in {"dbus", "xsmp"} /\ Become(SetRegistered(mgr, a, ok))
          /\ client' = [client EXCEPT ![a] = kind]
    BY <1>10 DEF ClientRegisters
  <2> DEFINE n == SetRegistered(mgr, a, ok)
  <2>3. Good(n) /\ n.phase >= mgr.phase
    BY <1>1, <2>1, SetRegisteredGood
  <2>4. n.phase # 0 /\ client' \in [Apps -> {"none", "dbus", "xsmp"}]
    BY <1>1, <2>1, <2>2, <2>3
  <2> HIDE DEF n
  <2> QED BY <1>1, <1>10, <2>2, <2>3, <2>4, StepIInv DEF ClientRegisters, n
<1>11. ASSUME NEW a \in Apps, ClientDisconnects(a)
       PROVE  IInv'
  <2>1. mgr.phase >= 1
    BY <1>1, <1>11 DEF ClientDisconnects
  <2>2. PICK ok : Become(mgr) \/ Become(RestartApp(mgr, a, ok))
    BY <1>11 DEF ClientDisconnects
  <2>3. PICK n : Become(n) /\ Good(n) /\ n.phase >= mgr.phase
    BY <1>1, <2>1, <2>2, RestartAppGood
  <2>4. /\ n.phase # 0 /\ client' \in [Apps -> {"none", "dbus", "xsmp"}]
        /\ condition_clients' \subseteq Apps /\ enabled' = enabled
    BY <1>1, <1>11, <2>1, <2>3 DEF ClientDisconnects
  <2> QED BY <1>1, <2>3, <2>4, StepIInv
<1>12. ASSUME NEW a \in Apps, ConditionBecomesTrue(a)
       PROVE  IInv'
  <2>1. /\ enabled' \subseteq Apps /\ client' = client
        /\ condition_clients' = condition_clients
    BY <1>1, <1>12 DEF ConditionBecomesTrue
  <2>2. \/ Become(mgr)
        \/ mgr.app[a].monitored /\ Become(Launch(mgr, a))
    BY <1>12 DEF ConditionBecomesTrue
  <2>3. CASE Become(mgr)
    BY <1>1, <2>1, <2>3, StepIInv
  <2>4. CASE mgr.app[a].monitored /\ Become(Launch(mgr, a))
    <3>1. mgr.phase # 0
      BY <1>2, <2>4, AppsAssumption, PhaseNumbers DEF Begun, PhaseNames
    <3>2. Good(Launch(mgr, a)) /\ Launch(mgr, a).phase = mgr.phase
      BY <1>1, LaunchGood
    <3> QED BY <1>1, <2>1, <2>4, <3>1, <3>2, StepIInv
  <2> QED BY <2>2, <2>3, <2>4
<1>13. ASSUME NEW a \in Apps, ConditionBecomesFalse(a)
       PROVE  IInv'
  <2>1. /\ enabled' \subseteq Apps /\ client' = client /\ mgr' = mgr
        /\ condition_clients' \subseteq Apps
    BY <1>1, <1>13 DEF ConditionBecomesFalse
  <2>2. Become(mgr)
    BY <1>1, <2>1 DEF Become
  <2> QED BY <1>1, <2>1, <2>2, StepIInv
<1>14. ASSUME NEW a \in Apps, MinutePasses(a)
       PROVE  IInv'
  <2> DEFINE y == mgr.app[a]
             x == [y EXCEPT !.recent = FALSE]
             n == WithApp(mgr, a, x)
  <2>1. mgr.app \in [Apps -> AnyApplication] /\ y \in AnyApplication
        /\ (y.pid => y.procs > 0)
    BY <1>2 DEF AnyManager, Steady
  <2>2. mgr' = n
    BY <1>14 DEF MinutePasses, WithApp
  <2> HIDE DEF y
  <2>3. /\ x \in AnyApplication /\ x.monitored = y.monitored
        /\ x.connected = y.connected /\ x.procs = y.procs /\ (x.pid => x.procs > 0)
    BY <2>1 DEF AnyApplication
  <2> HIDE DEF x
  <2>4. Good(n) /\ n.phase = mgr.phase
    BY <1>1, <2>3, AppChangedGood DEF y
  <2>5. \A b \in Apps : n.app[b].procs = mgr.app[b].procs
    <3>1. n.app = [mgr.app EXCEPT ![a] = x]
      BY <1>2 DEF WithApp, AnyManager
    <3> QED BY <2>1, <2>3, <3>1 DEF y
  <2> HIDE DEF n
  <2>6. Become(n)
    BY <1>1, <2>2, <2>5 DEF Become
  <2> QED BY <1>1, <1>14, <2>4, <2>5, <2>6, StepIInv DEF MinutePasses
<1>15. CASE UNCHANGED vars
  <2>1. Become(mgr) /\ UNCHANGED <<client, condition_clients, enabled>>
    BY <1>1, <1>15 DEF Become, vars
  <2> QED BY <1>1, <2>1, StepIInv
<1> QED BY <1>3, <1>4, <1>5, <1>6, <1>7, <1>8, <1>9, <1>10, <1>11, <1>12, <1>13,
           <1>14, <1>15 DEF Next

-----------------------------------------------------------------------------
(* What a call leaves alone: an application whose phase has begun is not       *)
(* launched by the phases that begin, and is given up only by its own events. *)

\* The application a of n is that of m, but for what it is connected to.
SameApp(m, n, a) ==
  /\ n.app[a].procs = m.app[a].procs /\ n.app[a].registered = m.app[a].registered

\* A call about b leaves the others alone, and gives up nobody but b, which it
\* does not launch then.  A display server is not launched at all.
About(m, n, b) ==
  /\ \A a \in Apps \ {b} : m.app[a].monitored => n.app[a].procs = m.app[a].procs
  /\ m.pending_apps \ n.pending_apps \subseteq {b}
  /\ b \in m.pending_apps \ n.pending_apps => n.app[b].procs = m.app[b].procs
  /\ DisplayServer(b) /\ m.app[b].monitored => n.app[b].procs = m.app[b].procs

LEMMA StartAppsKeeps ==
  ASSUME NEW m \in AnyManager, NEW S, NEW ok, NEW a \in Apps, PhaseOf[a] \notin S
  PROVE  SameApp(m, StartApps(m, S, ok), a)
<1> DEFINE launched == UNION {Launched(q, ok) : q \in S}
           children == launched \ Activated
           y == m.app[a]
           x == [y EXCEPT
                   !.monitored = @ \/ PhaseOf[a] \in S,
                   !.connected = @ \/ (a \in launched /\ PhaseOf[a] < APPLICATION),
                   !.pid = @ \/ a \in children,
                   !.procs = IF a \in children THEN @ + 1 ELSE @]
           n == StartApps(m, S, ok)
<1>1. y \in AnyApplication
  BY DEF AnyManager
<1>2. a \notin children
  BY DEF Launched
<1>3. n.app[a] = x
  BY DEF StartApps, AnyManager
<1> HIDE DEF children, launched, n, y
<1>4. x.procs = y.procs /\ x.registered = y.registered
  BY <1>1, <1>2 DEF AnyApplication
<1> QED BY <1>3, <1>4 DEF SameApp, y, n

LEMMA StartPhaseKeeps ==
  ASSUME NEW m \in AnyManager, NEW p \in 1 .. 9, NEW ok, NEW a \in Apps, PhaseOf[a] < p
  PROVE  SameApp(m, StartPhase(m, p, ok), a)
<1> DEFINE last == CHOOSE q \in p .. RUNNING :
                Holds(m, q, ok) /\ \A r \in p .. q - 1 : ~Holds(m, r, ok)
           s == StartApps(m, p .. last, ok)
<1>1. StartPhase(m, p, ok).app = s.app
  BY DEF StartPhase, StartApps
<1>2. PhaseOf[a] \notin p .. last
  <2>1. PhaseOf[a] \in 1 .. 8
    BY AppsAssumption, PhaseNumbers DEF PhaseNames
  <2> HIDE DEF last
  <2> QED BY <2>1
<1> HIDE DEF last
<1>3. SameApp(m, s, a)
  BY <1>2, StartAppsKeeps
<1> QED BY <1>1, <1>3 DEF SameApp

LEMMA EndPhaseKeeps ==
  ASSUME NEW m \in AnyManager, NEW ok, m.phase \in 1 .. 7,
         NEW a \in Apps, PhaseOf[a] <= m.phase
  PROVE  SameApp(m, EndPhase(m, ok), a)
<1> DEFINE r == [m EXCEPT !.pending_apps = {}, !.phase_timeout = FALSE,
                          !.manager_initialized = @ \/ m.phase = INITIALIZATION]
           p == m.phase + 1
<1>1. r \in AnyManager /\ r.app = m.app
  BY DEF AnyManager
<1>2. \/ EndPhase(m, ok) = r
      \/ EndPhase(m, ok) = StartPhase(r, p, ok)
  BY DEF EndPhase
<1> HIDE DEF r
<1>3. p \in 1 .. 9 /\ PhaseOf[a] < p
  BY AppsAssumption, PhaseNumbers DEF PhaseNames
<1> HIDE DEF p
<1>4. SameApp(r, StartPhase(r, p, ok), a)
  BY <1>1, <1>3, StartPhaseKeeps
<1> QED BY <1>1, <1>2, <1>4 DEF SameApp

LEMMA AppEventKeeps ==
  ASSUME NEW m, NEW b, NEW ok, Good(m), m.phase >= 1
  PROVE  /\ \A a \in Apps : m.app[a].monitored => SameApp(m, AppEvent(m, b, ok), a)
         /\ m.pending_apps \ AppEvent(m, b, ok).pending_apps \subseteq {b}
<1> DEFINE r == [m EXCEPT !.pending_apps = @ \ {b}]
<1>1. m \in AnyManager /\ Begun(m) /\ m.phase \in 1 .. 10
  BY DEF Good, AnyManager
<1>2. r \in AnyManager /\ r.phase = m.phase /\ r.app = m.app
      /\ r.pending_apps = m.pending_apps \ {b}
  BY <1>1 DEF AnyManager
<1>3. \/ AppEvent(m, b, ok) = m
      \/ AppEvent(m, b, ok) = r
      \/ m.phase < 8 /\ r.pending_apps = {} /\ AppEvent(m, b, ok) = EndPhase(r, ok)
  BY PhaseNumbers DEF AppEvent, PhaseNames
<1> HIDE DEF r
<1>4. CASE AppEvent(m, b, ok) \in {m, r}
  BY <1>2, <1>4 DEF SameApp
<1>5. CASE m.phase < 8 /\ r.pending_apps = {} /\ AppEvent(m, b, ok) = EndPhase(r, ok)
  <2>1. \A a \in Apps : m.app[a].monitored => SameApp(r, EndPhase(r, ok), a)
    <3>1. r.phase \in 1 .. 7
      BY <1>1, <1>2, <1>5
    <3> QED BY <1>1, <1>2, <3>1, EndPhaseKeeps DEF Begun
  <2> QED BY <1>2, <1>5, <2>1 DEF SameApp
<1> QED BY <1>3, <1>4, <1>5

\* scsm_app_restart() may launch b, unless it says that it has failed.
LEMMA RestartKeeps ==
  ASSUME NEW m, Good(m), NEW b \in Apps, NEW ok
  PROVE  LET n == Restart(m, b, ok)
         IN /\ n.pending_apps = m.pending_apps
            /\ \A a \in Apps : n.app[a].monitored = m.app[a].monitored
            /\ \A a \in Apps \ {b} : n.app[a].procs = m.app[a].procs
            /\ ~Launches(b, ok) => n.app[b].procs = m.app[b].procs
<1> DEFINE x == [m.app[b] EXCEPT !.recent = TRUE]
           r == [m EXCEPT !.app[b].recent = TRUE]
           z == [r.app[b] EXCEPT !.pid = TRUE, !.procs = @ + 1]
           l == [r EXCEPT !.app[b].pid = TRUE, !.app[b].procs = @ + 1]
<1>1. m \in AnyManager /\ m.app \in [Apps -> AnyApplication] /\ m.app[b] \in AnyApplication
  BY DEF Good, AnyManager
<1>2. x \in AnyApplication /\ x.procs = m.app[b].procs /\ x.monitored = m.app[b].monitored
  BY <1>1 DEF AnyApplication
<1>3. /\ r.app = [m.app EXCEPT ![b] = x] /\ r.pending_apps = m.pending_apps
      /\ r.fault = m.fault /\ r \in AnyManager
  <2>1. r = WithApp(m, b, x)
    BY DEF WithApp
  <2> HIDE DEF x, r
  <2> QED BY <1>1, <1>2, <2>1 DEF WithApp, AnyManager
<1> HIDE DEF x
<1>4. /\ r.app \in [Apps -> AnyApplication] /\ r.app[b] = x
      /\ \A a \in Apps \ {b} : r.app[a] = m.app[a]
  BY <1>1, <1>2, <1>3
<1>5. \/ Launches(b, ok) /\ Restart(m, b, ok) \in {r, l}
      \/ ~Launches(b, ok) /\ Restart(m, b, ok) \in {r, WithFault(r, "freed_access")}
  BY DEF Restart, Launch, WithFault
<1> HIDE DEF r
<1>6. l.pending_apps = r.pending_apps /\ l.app[b] = z /\ \A a \in Apps \ {b} : l.app[a] = r.app[a]
  <2>1. l = WithApp(r, b, z)
    BY DEF WithApp
  <2> HIDE DEF l, z
  <2> QED BY <1>3, <1>4, <2>1 DEF WithApp, AnyManager
<1>7. z.monitored = r.app[b].monitored
  BY <1>2, <1>4 DEF AnyApplication
<1> HIDE DEF l, z
<1>8. /\ WithFault(r, "freed_access").app = r.app
      /\ WithFault(r, "freed_access").pending_apps = r.pending_apps
  BY <1>3 DEF WithFault, AnyManager
<1> QED BY <1>2, <1>3, <1>4, <1>5, <1>6, <1>7, <1>8

\* Whoever is awaited has had its phase begun.
LEMMA AwaitedMonitored ==
  ASSUME NEW m, Good(m), NEW a \in m.pending_apps
  PROVE  a \in Apps /\ m.app[a].monitored /\ PhaseOf[a] = m.phase
<1>1. a \in Apps /\ PhaseOf[a] = m.phase
  BY DEF Good, AnyManager, Awaiting
<1>2. PhaseOf[a] <= m.phase
  BY <1>1, AppsAssumption, PhaseNumbers DEF PhaseNames
<1> QED BY <1>1, <1>2 DEF Good, Begun

LEMMA AppEventAbout ==
  ASSUME NEW m, NEW b \in Apps, NEW ok, Good(m), m.phase >= 1
  PROVE  About(m, AppEvent(m, b, ok), b)
<1>1. b \in m.pending_apps => m.app[b].monitored
  BY AwaitedMonitored
<1> QED BY <1>1, AppEventKeeps DEF About, SameApp

LEMMA RestartAppAbout ==
  ASSUME NEW m, NEW b \in Apps, NEW ok, Good(m), m.phase >= 1
  PROVE  About(m, RestartApp(m, b, ok), b)
<1> DEFINE r == IF m.app[b].recent THEN m ELSE Restart(m, b, ok)
           w == IF b \in Required THEN Whale(r) ELSE r
<1>1. Good(r) /\ r.phase = m.phase
  BY RestartGood
<1>2. /\ r.pending_apps = m.pending_apps
      /\ \A a \in Apps : r.app[a].monitored = m.app[a].monitored
      /\ \A a \in Apps \ {b} : r.app[a].procs = m.app[a].procs
      /\ ~RestartSucceeds(m, b, ok) => r.app[b].procs = m.app[b].procs
  <2>1. CASE m.app[b].recent
    BY <2>1
  <2>2. CASE ~m.app[b].recent
    <3> DEFINE n == Restart(m, b, ok)
    <3>1. /\ n.pending_apps = m.pending_apps
          /\ \A a \in Apps : n.app[a].monitored = m.app[a].monitored
          /\ \A a \in Apps \ {b} : n.app[a].procs = m.app[a].procs
          /\ ~Launches(b, ok) => n.app[b].procs = m.app[b].procs
      BY RestartKeeps
    <3> QED BY <2>2, <3>1 DEF RestartSucceeds
  <2> QED BY <2>1, <2>2
<1>3. \/ DisplayServer(b) /\ RestartApp(m, b, ok) = Over(m)
      \/ /\ ~DisplayServer(b)
         /\ \/ RestartSucceeds(m, b, ok) /\ RestartApp(m, b, ok) = r
            \/ ~RestartSucceeds(m, b, ok) /\ RestartApp(m, b, ok) = AppEvent(w, b, ok)
  <2>1. CASE DisplayServer(b)
    BY <2>1 DEF RestartApp, Over
  <2>2. CASE ~DisplayServer(b) /\ RestartSucceeds(m, b, ok)
    BY <2>2 DEF RestartApp
  <2>3. CASE ~DisplayServer(b) /\ ~RestartSucceeds(m, b, ok)
    BY <2>3 DEF RestartApp
  <2> QED BY <2>1, <2>2, <2>3
<1> HIDE DEF r
<1>4. /\ Good(w) /\ w.phase = m.phase
      /\ w.app = r.app /\ w.pending_apps = r.pending_apps
  BY <1>1, FlagsGood DEF Whale, Good, AnyManager
<1> HIDE DEF w
<1>5. CASE RestartApp(m, b, ok) = Over(m)
  <2>1. Over(m).app = m.app /\ Over(m).pending_apps = m.pending_apps
    BY DEF Over, Good, AnyManager
  <2> QED BY <1>5, <2>1 DEF About
<1>6. CASE ~DisplayServer(b) /\ RestartApp(m, b, ok) = r
  BY <1>2, <1>6 DEF About
<1>7. CASE /\ ~DisplayServer(b) /\ ~RestartSucceeds(m, b, ok)
           /\ RestartApp(m, b, ok) = AppEvent(w, b, ok)
  <2> DEFINE n == AppEvent(w, b, ok)
  <2>1. About(w, n, b)
    BY <1>4, AppEventAbout
  <2> HIDE DEF n
  <2>2. About(m, n, b)
    BY <1>2, <1>4, <1>7, <2>1 DEF About
  <2> QED BY <1>7, <2>2 DEF n
<1> QED BY <1>3, <1>5, <1>6, <1>7

LEMMA AppEndedAbout ==
  ASSUME NEW m, NEW b \in Apps, NEW ok, Good(m), m.phase >= 1
  PROVE  /\ About(m, AppDied(m, b, ok), b)
         /\ \A success \in BOOLEAN : About(m, AppExited(m, b, success, ok), b)
<1>1. About(m, m, b)
  BY DEF About
<1>2. About(m, AppDied(m, b, ok), b)
  BY <1>1, RestartAppAbout DEF AppDied
<1>3. ASSUME NEW success \in BOOLEAN PROVE About(m, AppExited(m, b, success, ok), b)
  BY <1>2, AppEventAbout DEF AppExited
<1> QED BY <1>2, <1>3

LEMMA ReapKeeps ==
  ASSUME NEW m, Good(m), NEW b \in Apps, m.app[b].procs > 0
  PROVE  LET r == Reap(m, b)
         IN /\ r.pending_apps = m.pending_apps
            /\ \A a \in Apps : r.app[a].monitored = m.app[a].monitored
            /\ \A a \in Apps \ {b} : r.app[a].procs = m.app[a].procs
            /\ r.app[b].procs = m.app[b].procs - 1
<1> DEFINE y == m.app[b]
           x == [y EXCEPT !.pid = FALSE, !.procs = y.procs - 1]
<1>1. m \in AnyManager /\ m.app \in [Apps -> AnyApplication] /\ y \in AnyApplication
  BY DEF Good, AnyManager
<1>2. Reap(m, b) = WithApp(m, b, x)
  BY DEF Reap, WithApp
<1> HIDE DEF y
<1>3. x.procs = y.procs - 1 /\ x.monitored = y.monitored
  BY <1>1 DEF AnyApplication
<1> HIDE DEF x
<1>4. /\ WithApp(m, b, x).app = [m.app EXCEPT ![b] = x]
      /\ WithApp(m, b, x).pending_apps = m.pending_apps
  BY <1>1 DEF WithApp, AnyManager
<1> QED BY <1>1, <1>2, <1>3, <1>4 DEF y

\* A child's end: what is left of the application, unless it is launched again.
LEMMA ProcessEndsKeeps ==
  ASSUME IInv, NEW b \in Apps, ProcessEnds(b)
  PROVE  /\ \A a \in Apps \ {b} : mgr.app[a].monitored => mgr'.app[a].procs = mgr.app[a].procs
         /\ mgr.pending_apps \ mgr'.pending_apps \subseteq {b}
         /\ \/ b \in mgr.pending_apps \ mgr'.pending_apps
            \/ DisplayServer(b) /\ mgr.app[b].monitored
            => mgr'.app[b].procs = mgr.app[b].procs - 1
<1> DEFINE r == Reap(mgr, b)
<1>1. Good(mgr) /\ mgr.app[b].procs > 0 /\ mgr.phase >= 1
  BY ManagerTyped DEF ProcessEnds, IInv, NothingYet, Good, AnyManager
<1>2. Good(r) /\ r.phase = mgr.phase
  BY <1>1, ReapGood
<1>3. PICK ok : \/ Become(r)
                \/ \E success \in BOOLEAN : Become(AppExited(r, b, success, ok))
                \/ Become(AppDied(r, b, ok))
  BY DEF ProcessEnds
<1>4. /\ r.pending_apps = mgr.pending_apps
      /\ \A a \in Apps : r.app[a].monitored = mgr.app[a].monitored
      /\ \A a \in Apps \ {b} : r.app[a].procs = mgr.app[a].procs
      /\ r.app[b].procs = mgr.app[b].procs - 1
  BY <1>1, ReapKeeps
<1> HIDE DEF r
<1>5. About(r, r, b)
  BY DEF About
<1>6. r.phase >= 1
  BY <1>1, <1>2
<1>7. About(r, mgr', b)
  BY <1>2, <1>3, <1>5, <1>6, AppEndedAbout DEF Become
<1> QED BY <1>4, <1>7 DEF About

\* The phase that the timer ends, the one that systemd ends, and the first one.
LEMMA PhaseStepsKeep ==
  ASSUME IInv, PhaseTimeout \/ Initialized \/ ManagerStart
  PROVE  /\ \A a \in Apps : mgr.app[a].monitored => mgr'.app[a].procs = mgr.app[a].procs
         /\ PhaseTimeout \/ mgr.pending_apps \subseteq mgr'.pending_apps
<1>1. /\ Good(mgr) /\ mgr \in AnyManager /\ mgr.phase \in 0 .. 10
      /\ \A a \in Apps : PhaseOf[a] \in 1 .. 8
      /\ \A a \in Apps : mgr.app[a].monitored <=> PhaseOf[a] <= mgr.phase
  BY AppsAssumption, PhaseNumbers DEF IInv, Good, AnyManager, PhaseNames, Begun
<1>2. CASE PhaseTimeout
  <2> DEFINE w == IF mgr.pending_apps \cap Required # {} THEN Whale(mgr) ELSE mgr
  <2>1. PICK ok : mgr' = EndPhase(w, ok)
    BY <1>2 DEF PhaseTimeout, Become
  <2>2. mgr.phase \in 1 .. 7
    <3>1. PICK a \in mgr.pending_apps : PhaseOf[a] = mgr.phase /\ mgr.phase < 8
      BY <1>1, <1>2 DEF Good, Awaiting, PhaseTimeout
    <3> QED BY <1>1, <3>1, AwaitedMonitored
  <2>3. w \in AnyManager /\ w.phase = mgr.phase /\ w.app = mgr.app
    BY <1>1 DEF Whale, AnyManager
  <2> HIDE DEF w
  <2>4. \A a \in Apps : mgr.app[a].monitored => SameApp(w, EndPhase(w, ok), a)
    BY <1>1, <2>2, <2>3, EndPhaseKeeps
  <2> QED BY <1>2, <2>1, <2>3, <2>4 DEF SameApp
<1>3. CASE Initialized
  <2> DEFINE r == [mgr EXCEPT !.systemd_initialized = TRUE]
  <2>1. SystemdManaged /\ ~mgr.systemd_initialized /\ mgr.phase \in 1 .. 4
    BY <1>3, PhaseNumbers DEF Initialized, PhaseNames
  <2>2. mgr.manager_initialized => mgr.phase = 4 /\ mgr.pending_apps = {}
    BY <1>1, <2>1 DEF Good, Signaled
  <2>3. \/ mgr.manager_initialized /\ \E ok : mgr' = StartPhase(r, 5, ok)
        \/ mgr' = r
    BY <1>3, <2>2, PhaseNumbers DEF Initialized, Become, PhaseNames
  <2>4. r \in AnyManager /\ r.app = mgr.app /\ r.pending_apps = mgr.pending_apps
    BY <1>1 DEF AnyManager
  <2> HIDE DEF r
  <2>5. CASE mgr' = r
    BY <2>4, <2>5
  <2>6. ASSUME NEW ok, mgr.manager_initialized, mgr' = StartPhase(r, 5, ok)
        PROVE  \A a \in Apps : mgr.app[a].monitored => mgr'.app[a].procs = mgr.app[a].procs
    <3> DEFINE p == 5
    <3>1. p \in 1 .. 9 /\ \A a \in Apps : mgr.app[a].monitored => PhaseOf[a] < p
      BY <1>1, <2>2, <2>6
    <3>2. mgr' = StartPhase(r, p, ok)
      BY <2>6
    <3> HIDE DEF p
    <3>3. \A a \in Apps : mgr.app[a].monitored => SameApp(r, StartPhase(r, p, ok), a)
      BY <2>4, <3>1, StartPhaseKeeps
    <3> QED BY <2>4, <3>2, <3>3 DEF SameApp
  <2> QED BY <2>2, <2>3, <2>5, <2>6
<1>4. CASE ManagerStart
  <2>1. mgr.phase = 0
    BY <1>4, PhaseNumbers DEF ManagerStart, PhaseNames
  <2>2. \A a \in Apps : ~mgr.app[a].monitored
    BY <1>1, <2>1
  <2> QED BY <1>1, <2>2, AwaitedMonitored
<1> QED BY <1>2, <1>3, <1>4

\* A change that leaves procs and what is awaited alone.
LEMMA OtherStepsKeep ==
  ASSUME IInv,
         \/ LogoutBeginsOrIsCanceled \/ Terminate \/ CrashAfterFreedAccess
         \/ \E b \in Apps : ConditionBecomesFalse(b) \/ MinutePasses(b)
  PROVE  /\ \A a \in Apps : mgr'.app[a].procs = mgr.app[a].procs
         /\ mgr'.pending_apps = mgr.pending_apps
<1>1. mgr \in AnyManager
  BY DEF IInv, Good
<1>2. CASE LogoutBeginsOrIsCanceled \/ Terminate \/ CrashAfterFreedAccess
  BY <1>1, <1>2 DEF LogoutBeginsOrIsCanceled, Terminate, CrashAfterFreedAccess, AnyManager
<1>3. ASSUME NEW b \in Apps, ConditionBecomesFalse(b)
      PROVE  mgr' = mgr
  BY <1>3 DEF ConditionBecomesFalse
<1>4. ASSUME NEW b \in Apps, MinutePasses(b)
      PROVE  /\ \A a \in Apps : mgr'.app[a].procs = mgr.app[a].procs
             /\ mgr'.pending_apps = mgr.pending_apps
  <2> DEFINE x == [mgr.app[b] EXCEPT !.recent = FALSE]
  <2>1. mgr' = WithApp(mgr, b, x)
    BY <1>4 DEF MinutePasses, WithApp
  <2>2. mgr.app \in [Apps -> AnyApplication] /\ x.procs = mgr.app[b].procs
    BY <1>1 DEF AnyManager, AnyApplication
  <2> HIDE DEF x
  <2>3. mgr'.app = [mgr.app EXCEPT ![b] = x] /\ mgr'.pending_apps = mgr.pending_apps
    BY <1>1, <2>1 DEF WithApp, AnyManager
  <2> QED BY <2>2, <2>3
<1> QED BY <1>2, <1>3, <1>4

LEMMA ClientStepsKeep ==
  ASSUME IInv, NEW b \in Apps, ClientRegisters(b) \/ ClientDisconnects(b)
  PROVE  /\ \A a \in Apps \ {b} : mgr.app[a].monitored => mgr'.app[a].procs = mgr.app[a].procs
         /\ mgr.pending_apps \ mgr'.pending_apps \subseteq {b}
         /\ DisplayServer(b) /\ mgr.app[b].monitored => mgr'.app[b].procs = mgr.app[b].procs
         /\ client'[b] # client[b]
<1>1. /\ Good(mgr) /\ mgr.phase >= 1 /\ mgr \in AnyManager
      /\ client \in [Apps -> {"none", "dbus", "xsmp"}]
  BY PhaseNumbers DEF IInv, TypeOK, Good, AnyManager, NothingYet, ClientRegisters,
                      ClientDisconnects, PhaseNames
<1>2. CASE ClientDisconnects(b)
  <2>1. About(mgr, mgr, b)
    BY DEF About
  <2>2. About(mgr, mgr', b)
    BY <1>1, <1>2, <2>1, RestartAppAbout DEF ClientDisconnects, Become
  <2>3. client'[b] # client[b]
    BY <1>1, <1>2 DEF ClientDisconnects
  <2> QED BY <2>2, <2>3 DEF About
<1>3. CASE ClientRegisters(b)
  <2> DEFINE y == mgr.app[b]
             x == [y EXCEPT !.registered = TRUE]
             r == WithApp(mgr, b, x)
  <2>1. PICK ok : mgr' = SetRegistered(mgr, b, ok)
    BY <1>3 DEF ClientRegisters, Become
  <2>2. mgr' = r \/ mgr' = AppEvent(r, b, ok)
    BY <2>1 DEF SetRegistered, WithApp
  <2>3. mgr.app \in [Apps -> AnyApplication] /\ y \in AnyApplication /\ (y.pid => y.procs > 0)
    BY <1>1 DEF AnyManager, Good, Steady
  <2> HIDE DEF y
  <2>4. /\ x \in AnyApplication /\ x.monitored = y.monitored /\ x.connected = y.connected
        /\ x.procs = y.procs /\ (x.pid => x.procs > 0)
    BY <2>3 DEF AnyApplication
  <2> HIDE DEF x
  <2>5. Good(r) /\ r.phase = mgr.phase
    BY <1>1, <2>4, AppChangedGood DEF y
  <2>6. r.app = [mgr.app EXCEPT ![b] = x] /\ r.pending_apps = mgr.pending_apps
    BY <1>1 DEF WithApp, AnyManager
  <2> HIDE DEF r
  <2>7. \A a \in Apps : r.app[a].procs = mgr.app[a].procs
                        /\ r.app[a].monitored = mgr.app[a].monitored
    BY <2>3, <2>4, <2>6 DEF y
  <2>8. About(r, r, b) /\ About(r, AppEvent(r, b, ok), b)
    BY <1>1, <2>5, AppEventAbout DEF About
  <2>9. About(r, mgr', b)
    BY <2>2, <2>8
  <2>10. client'[b] # client[b]
    BY <1>1, <1>3 DEF ClientRegisters
  <2> QED BY <2>6, <2>7, <2>9, <2>10 DEF About
<1> QED BY <1>2, <1>3

LEMMA ConditionTrueKeeps ==
  ASSUME IInv, NEW b \in Apps, ConditionBecomesTrue(b)
  PROVE  /\ \A a \in Apps \ {b} : mgr'.app[a].procs = mgr.app[a].procs
         /\ mgr'.pending_apps = mgr.pending_apps
         /\ b \in enabled' \ enabled
<1>1. mgr \in AnyManager /\ mgr.app \in [Apps -> AnyApplication]
  BY DEF IInv, Good, AnyManager
<1>2. mgr' = mgr \/ mgr' = Launch(mgr, b)
  BY DEF ConditionBecomesTrue, Become
<1>3. /\ \A a \in Apps \ {b} : Launch(mgr, b).app[a] = mgr.app[a]
      /\ Launch(mgr, b).pending_apps = mgr.pending_apps
  BY <1>1 DEF Launch, AnyManager
<1>4. b \in enabled' \ enabled
  BY DEF ConditionBecomesTrue
<1> QED BY <1>2, <1>3, <1>4

-----------------------------------------------------------------------------
(* The theorems.                                                           *)

\* The invariant holds throughout.
THEOREM Invariant == Spec => []IInv
<1> QED BY InitIInv, NextIInv, PTL DEF Spec

\* Every variable keeps its type through all callbacks.
THEOREM TypeCorrect == Spec => []TypeOK
<1>1. IInv => TypeOK
  BY DEF IInv
<1> QED BY <1>1, Invariant, PTL

\* A startup phase waits only for what can end it, with the timer running.
THEOREM NeverStalls == Spec => []StartupNeverStalls
<1>1. IInv => StartupNeverStalls
  <2>1. Good(mgr) => Awaiting(mgr)
    BY DEF Good
  <2> QED BY <2>1, PhaseNumbers
        DEF IInv, Awaiting, StartupNeverStalls, WaitsForSystemd, PhaseNames
<1> QED BY <1>1, Invariant, PTL

\* No application's phase is skipped and none begins early.
THEOREM EveryTurn == Spec => []EveryAppHasItsTurn
<1>1. IInv => EveryAppHasItsTurn
  BY DEF IInv, Good, Begun, EveryAppHasItsTurn
<1> QED BY <1>1, Invariant, PTL

\* The manager and systemd are both initialized before any later phase, and the
\* assertion of scsm_manager_initialized() holds.
THEOREM BothAreInitialized == Spec => []BothInitialized
<1>1. IInv => BothInitialized
  BY PhaseNumbers DEF IInv, Good, Steady, Signaled, BothInitialized, PhaseNames
<1> QED BY <1>1, Invariant, PTL

\* A pid that is known belongs to a child that has not been reaped.
THEOREM PidsAreChildren == Spec => []PidIsAChild
<1>1. IInv => PidIsAChild
  BY DEF IInv, Good, Steady, PidIsAChild
<1> QED BY <1>1, Invariant, PTL

\* Before the timer fires, an application is given up for a cause of its own.
THEOREM GivenUpWithCause == Spec => GivenUpForCause
<1>1. ASSUME IInv, Next, NEW a \in mgr.pending_apps \ mgr'.pending_apps
      PROVE  \/ mgr'.app[a].registered
             \/ mgr'.app[a].procs < mgr.app[a].procs
             \/ client'[a] # client[a]
             \/ PhaseTimeout
  <2>1. a \in Apps
    BY <1>1, AwaitedMonitored DEF IInv
  <2>2. CASE PhaseTimeout \/ Initialized \/ ManagerStart
    BY <1>1, <2>2, PhaseStepsKeep
  <2>3. CASE \/ LogoutBeginsOrIsCanceled \/ Terminate \/ CrashAfterFreedAccess
             \/ \E b \in Apps : ConditionBecomesFalse(b) \/ MinutePasses(b)
    BY <1>1, <2>3, OtherStepsKeep
  <2>4. ASSUME NEW b \in Apps, ProcessEnds(b)
        PROVE  mgr'.app[a].procs < mgr.app[a].procs
    <3>1. a = b /\ mgr'.app[a].procs = mgr.app[a].procs - 1
      BY <1>1, <2>4, ProcessEndsKeeps
    <3>2. mgr.app[a].procs \in Nat
      BY <1>1, <2>1 DEF IInv, Good, AnyManager, AnyApplication
    <3> QED BY <3>1, <3>2
  <2>5. ASSUME NEW b \in Apps, ClientRegisters(b) \/ ClientDisconnects(b)
        PROVE  client'[a] # client[a]
    BY <1>1, <2>5, ClientStepsKeep
  <2>6. ASSUME NEW b \in Apps, ConditionBecomesTrue(b)
        PROVE  FALSE
    BY <1>1, <2>6, ConditionTrueKeeps
  <2> QED BY <1>1, <2>2, <2>3, <2>4, <2>5, <2>6 DEF Next
<1>2. IInv /\ [Next]_vars =>
        [\A a \in mgr.pending_apps \ mgr'.pending_apps :
           \/ mgr'.app[a].registered
           \/ mgr'.app[a].procs < mgr.app[a].procs
           \/ client'[a] # client[a]
           \/ PhaseTimeout]_vars
  BY <1>1
<1> QED BY <1>2, Invariant, PTL DEF Spec, GivenUpForCause

\* No callback launches a required Wayland compositor again.
THEOREM CompositorNeverRestarted == Spec => CompositorNotRestarted
<1>1. ASSUME IInv, IInv', Next, NEW a \in Apps, Relaunched(a), DisplayServer(a)
      PROVE  a \in enabled' \ enabled
  <2>1. mgr.app[a].procs \in Nat /\ mgr'.app[a].procs \in Nat /\ mgr.app[a].monitored
    BY <1>1 DEF IInv, Good, AnyManager, AnyApplication, Relaunched
  <2>2. CASE ProcessEnds(a)
    BY <1>1, <2>1, <2>2, ProcessEndsKeeps DEF Relaunched
  <2>3. ASSUME ~ProcessEnds(a), mgr'.app[a].procs = mgr.app[a].procs
        PROVE  FALSE
    BY <1>1, <2>1, <2>3 DEF Relaunched
  <2>4. CASE PhaseTimeout \/ Initialized \/ ManagerStart
    BY <1>1, <2>1, <2>2, <2>3, <2>4, PhaseStepsKeep
  <2>5. CASE \/ LogoutBeginsOrIsCanceled \/ Terminate \/ CrashAfterFreedAccess
             \/ \E b \in Apps : ConditionBecomesFalse(b) \/ MinutePasses(b)
    BY <1>1, <2>2, <2>3, <2>5, OtherStepsKeep
  <2>6. ASSUME NEW b \in Apps, b # a, ProcessEnds(b)
        PROVE  a \in enabled' \ enabled
    BY <1>1, <2>1, <2>2, <2>3, <2>6, ProcessEndsKeeps
  <2>7. ASSUME NEW b \in Apps, ClientRegisters(b) \/ ClientDisconnects(b)
        PROVE  a \in enabled' \ enabled
    BY <1>1, <2>1, <2>2, <2>3, <2>7, ClientStepsKeep
  <2>8. ASSUME NEW b \in Apps, ConditionBecomesTrue(b)
        PROVE  a \in enabled' \ enabled
    BY <1>1, <2>2, <2>3, <2>8, ConditionTrueKeeps
  <2> QED BY <1>1, <2>2, <2>4, <2>5, <2>6, <2>7, <2>8 DEF Next
<1>2. IInv /\ IInv' /\ [Next]_vars =>
        [\A a \in Apps : Relaunched(a) => ~DisplayServer(a) \/ a \in enabled' \ enabled]_vars
  BY <1>1
<1> QED BY <1>2, Invariant, PTL DEF Spec, CompositorNotRestarted

-----------------------------------------------------------------------------
(* The startup goes on: no call leads back to an earlier phase, or forgets that *)
(* systemd is ready, which only Initialized() says.                             *)

SameSystemd(m, n) == n.systemd_initialized = m.systemd_initialized

LEMMA StartPhaseSystemd ==
  ASSUME NEW m \in AnyManager, NEW p, NEW ok
  PROVE  SameSystemd(m, StartPhase(m, p, ok))
<1>1. ASSUME NEW q, NEW s, NEW t, NEW i, NEW f
      PROVE  [[m EXCEPT !.app = f] EXCEPT !.phase = q, !.pending_apps = s, !.phase_timeout = t,
                !.manager_initialized = i].systemd_initialized = m.systemd_initialized
  BY DEF AnyManager
<1> QED
  BY <1>1 DEF StartPhase, StartApps, SameSystemd

LEMMA EndPhaseSystemd ==
  ASSUME NEW m \in AnyManager, NEW ok
  PROVE  SameSystemd(m, EndPhase(m, ok))
<1> DEFINE i == m.manager_initialized \/ m.phase = INITIALIZATION
           r == [m EXCEPT !.pending_apps = {}, !.phase_timeout = FALSE,
                          !.manager_initialized = i]
<1>1. EndPhase(m, ok) = r \/ EndPhase(m, ok) = StartPhase(r, m.phase + 1, ok)
  BY DEF EndPhase
<1>2. i \in BOOLEAN
  BY DEF AnyManager
<1> HIDE DEF i
<1>3. r \in AnyManager /\ r.systemd_initialized = m.systemd_initialized
  BY <1>2 DEF AnyManager
<1> HIDE DEF r
<1> QED
  BY <1>1, <1>3, StartPhaseSystemd DEF SameSystemd

LEMMA AppEventSystemd ==
  ASSUME NEW m \in AnyManager, NEW a, NEW ok
  PROVE  SameSystemd(m, AppEvent(m, a, ok))
<1> DEFINE r == [m EXCEPT !.pending_apps = @ \ {a}]
<1>1. m.phase \in 0 .. 10
  BY DEF AnyManager
<1>2. \/ AppEvent(m, a, ok) = m
      \/ AppEvent(m, a, ok) = EndPhase(r, ok)
      \/ AppEvent(m, a, ok) = r
  BY <1>1, PhaseNumbers DEF AppEvent, PhaseNames
<1>3. r \in AnyManager /\ r.systemd_initialized = m.systemd_initialized
  BY DEF AnyManager
<1> HIDE DEF r
<1> QED
  BY <1>2, <1>3, EndPhaseSystemd DEF SameSystemd

\* The fields and the applications have nothing to do with it.
LEMMA FieldsSystemd ==
  ASSUME NEW m \in AnyManager
  PROVE  /\ SameSystemd(m, Whale(m)) /\ SameSystemd(m, Over(m))
         /\ \A e : SameSystemd(m, WithFault(m, e))
         /\ \A a, x : SameSystemd(m, WithApp(m, a, x))
         /\ \A a \in Apps : SameSystemd(m, Launch(m, a)) /\ SameSystemd(m, Reap(m, a))
<1>1. /\ SameSystemd(m, Whale(m)) /\ SameSystemd(m, Over(m))
      /\ \A e : SameSystemd(m, WithFault(m, e))
  BY DEF SameSystemd, AnyManager, Whale, Over, WithFault
<1>2. \A f : [m EXCEPT !.app = f].systemd_initialized = m.systemd_initialized
  BY DEF AnyManager
<1>3. \A a, x : SameSystemd(m, WithApp(m, a, x))
  BY <1>2 DEF SameSystemd, WithApp
<1>4. ASSUME NEW a \in Apps
      PROVE  SameSystemd(m, Launch(m, a)) /\ SameSystemd(m, Reap(m, a))
  <2> DEFINE y == m.app[a]
             x == [y EXCEPT !.pid = TRUE, !.procs = y.procs + 1]
             z == [y EXCEPT !.pid = FALSE, !.procs = y.procs - 1]
  <2>1. Launch(m, a) = m \/ Launch(m, a) = WithApp(m, a, x)
    BY DEF Launch, WithApp
  <2>2. Reap(m, a) = WithApp(m, a, z)
    BY DEF Reap, WithApp
  <2> HIDE DEF x, z
  <2> QED
    BY <1>3, <2>1, <2>2 DEF SameSystemd
<1> QED
  BY <1>1, <1>3, <1>4

LEMMA RestartAppSystemd ==
  ASSUME NEW m, Good(m), NEW a \in Apps, NEW ok
  PROVE  SameSystemd(m, RestartApp(m, a, ok))
<1> DEFINE s == [m EXCEPT !.app[a].recent = TRUE]
           r == IF m.app[a].recent THEN m ELSE Restart(m, a, ok)
           w == IF a \in Required THEN Whale(r) ELSE r
<1>1. Good(s) /\ SameSystemd(m, s)
  <2> DEFINE y == m.app[a]
             x == [y EXCEPT !.recent = TRUE]
  <2>1. s = WithApp(m, a, x)
    BY DEF WithApp
  <2>2. y \in AnyApplication /\ (y.pid => y.procs > 0) /\ m \in AnyManager
    BY DEF Good, AnyManager, Steady
  <2> HIDE DEF s, y
  <2>3. /\ x \in AnyApplication /\ x.monitored = y.monitored
        /\ x.connected = y.connected /\ (x.pid => x.procs > 0)
    BY <2>2 DEF AnyApplication
  <2> HIDE DEF x
  <2> QED
    BY <2>1, <2>2, <2>3, AppChangedGood, FieldsSystemd DEF y
<1>2. \/ Restart(m, a, ok) = Launch(s, a)
      \/ Restart(m, a, ok) = s
      \/ Restart(m, a, ok) = WithFault(s, "freed_access")
  BY DEF Restart, WithFault
<1> HIDE DEF s
<1>3. Good(r) /\ SameSystemd(m, r)
  <2>1. s \in AnyManager
    BY <1>1 DEF Good
  <2>2. SameSystemd(s, Launch(s, a)) /\ SameSystemd(s, WithFault(s, "freed_access"))
    BY <2>1, FieldsSystemd
  <2>3. SameSystemd(m, Restart(m, a, ok))
    BY <1>1, <1>2, <2>2 DEF SameSystemd
  <2> QED
    BY <2>3, RestartGood DEF SameSystemd
<1>4. \/ RestartApp(m, a, ok) = Over(m)
      \/ RestartApp(m, a, ok) = r
      \/ RestartApp(m, a, ok) = AppEvent(w, a, ok)
  <2>1. CASE DisplayServer(a)
    BY <2>1 DEF RestartApp, Over
  <2>2. CASE ~DisplayServer(a) /\ RestartSucceeds(m, a, ok)
    BY <2>2 DEF RestartApp
  <2>3. CASE ~DisplayServer(a) /\ ~RestartSucceeds(m, a, ok)
    BY <2>3 DEF RestartApp
  <2> QED BY <2>1, <2>2, <2>3
<1> HIDE DEF r
<1>5. w \in AnyManager /\ SameSystemd(m, w)
  BY <1>3, FlagsGood, FieldsSystemd DEF Good, SameSystemd
<1>6. SameSystemd(m, Over(m))
  BY FieldsSystemd DEF Good
<1> HIDE DEF w
<1> QED
  BY <1>3, <1>4, <1>5, <1>6, AppEventSystemd DEF SameSystemd

\* app_died(), app_exited() and scsm_app_set_registered() with its handler.
LEMMA AppCallsSystemd ==
  ASSUME NEW m, Good(m), NEW a \in Apps, NEW ok
  PROVE  /\ SameSystemd(m, AppDied(m, a, ok))
         /\ \A success \in BOOLEAN : SameSystemd(m, AppExited(m, a, success, ok))
         /\ SameSystemd(m, SetRegistered(m, a, ok))
<1>1. m \in AnyManager
  BY DEF Good
<1>2. SameSystemd(m, AppDied(m, a, ok))
  <2>1. AppDied(m, a, ok) = m \/ AppDied(m, a, ok) = RestartApp(m, a, ok)
    BY DEF AppDied
  <2> QED
    BY <2>1, RestartAppSystemd DEF SameSystemd
<1>3. ASSUME NEW success \in BOOLEAN
      PROVE  SameSystemd(m, AppExited(m, a, success, ok))
  <2>1. \/ AppExited(m, a, success, ok) = AppDied(m, a, ok)
        \/ AppExited(m, a, success, ok) = AppEvent(m, a, ok)
    BY DEF AppExited
  <2> QED
    BY <1>1, <1>2, <2>1, AppEventSystemd
<1>4. SameSystemd(m, SetRegistered(m, a, ok))
  <2> DEFINE y == m.app[a]
             x == [y EXCEPT !.registered = TRUE]
             r == [m EXCEPT !.app[a].registered = TRUE]
  <2>1. r = WithApp(m, a, x)
    BY DEF WithApp
  <2>2. SetRegistered(m, a, ok) = r \/ SetRegistered(m, a, ok) = AppEvent(r, a, ok)
    BY DEF SetRegistered
  <2> HIDE DEF r, y
  <2>3. y \in AnyApplication /\ (y.pid => y.procs > 0)
    BY <1>1 DEF AnyManager, Good, Steady, y
  <2>4. /\ x \in AnyApplication /\ x.monitored = y.monitored
        /\ x.connected = y.connected /\ (x.pid => x.procs > 0)
    BY <2>3 DEF AnyApplication
  <2> HIDE DEF x
  <2>5. r \in AnyManager /\ SameSystemd(m, r)
    BY <1>1, <2>1, <2>4, AppChangedGood, FieldsSystemd DEF y, Good
  <2> QED
    BY <2>2, <2>5, AppEventSystemd DEF SameSystemd
<1> QED
  BY <1>2, <1>3, <1>4

\* A step goes on, or stays, and does not forget that systemd is ready.
Onward ==
  /\ mgr'.phase >= mgr.phase \/ mgr'.phase \in {9, 10}
  /\ mgr.systemd_initialized => mgr'.systemd_initialized

\* The three callbacks that are certain to come.
LEMMA ManagerStartOnward == IInv /\ ManagerStart => Onward /\ mgr'.phase > 0
<1> SUFFICES ASSUME IInv, ManagerStart PROVE Onward /\ mgr'.phase > 0
  OBVIOUS
<1>1. mgr \in AnyManager /\ Good(mgr) /\ Steady(mgr) /\ Begun(mgr) /\ Signaled(mgr)
  BY DEF IInv, Good
<1>2. PICK ok : Become(StartPhase(mgr, 1, ok))
  BY PhaseNumbers DEF ManagerStart, PhaseNames
<1>3. mgr.phase = 0
  BY PhaseNumbers DEF ManagerStart, PhaseNames
<1>4. /\ \A a \in Apps : mgr.app[a].monitored <=> PhaseOf[a] < 1
      /\ ~mgr.manager_initialized
  <2>1. \A a \in Apps : PhaseOf[a] \in 1 .. 8
    BY AppsAssumption, PhaseNumbers DEF PhaseNames
  <2> QED BY <1>1, <1>3, <2>1 DEF Begun, Signaled
<1> DEFINE n == StartPhase(mgr, 1, ok)
<1>5. Good(n) /\ n.phase >= 1 /\ SameSystemd(mgr, n)
  BY <1>1, <1>4, StartPhaseGood, StartPhaseSystemd
<1>6. mgr' = n
  BY <1>2 DEF Become
<1> HIDE DEF n
<1>7. n.phase \in 0 .. 10
  BY <1>5 DEF Good, AnyManager
<1> QED BY <1>3, <1>5, <1>6, <1>7 DEF Onward, SameSystemd

LEMMA PhaseTimeoutOnward ==
  IInv /\ PhaseTimeout =>
    /\ Onward
    /\ mgr.phase = 4 /\ SystemdManaged => (mgr.systemd_initialized => mgr'.phase > mgr.phase)
    /\ ~(mgr.phase = 4 /\ SystemdManaged) => mgr'.phase > mgr.phase
<1> SUFFICES ASSUME IInv, PhaseTimeout
             PROVE  /\ Onward
                    /\ ~(mgr.phase = 4 /\ SystemdManaged /\ ~mgr.systemd_initialized) =>
                         mgr'.phase > mgr.phase
  OBVIOUS
<1> DEFINE w == IF mgr.pending_apps \cap Required # {} THEN Whale(mgr) ELSE mgr
<1>1. mgr \in AnyManager /\ Good(mgr) /\ Awaiting(mgr) /\ mgr.phase \in 0 .. 10
  BY DEF IInv, Good, AnyManager
<1>2. PICK ok : Become(EndPhase(w, ok))
  BY DEF PhaseTimeout
<1>3. mgr.phase \in 1 .. 7
  <2>1. PICK a \in Apps : PhaseOf[a] = mgr.phase /\ mgr.phase < 8
    BY <1>1 DEF Awaiting, PhaseTimeout, AnyManager
  <2> QED BY <1>1, <2>1, AppsAssumption, PhaseNumbers DEF PhaseNames
<1>4. Good(w) /\ w.phase = mgr.phase /\ SameSystemd(mgr, w)
  BY <1>1, FlagsGood, FieldsSystemd DEF SameSystemd
<1> HIDE DEF w
<1> DEFINE n == EndPhase(w, ok)
<1>5. /\ Good(n) /\ n.phase >= w.phase /\ SameSystemd(w, n)
      /\ ~(w.phase = 4 /\ SystemdManaged /\ ~w.systemd_initialized) => n.phase > w.phase
  BY <1>3, <1>4, EndPhaseGood, EndPhaseSystemd DEF Good
<1>6. mgr' = n
  BY <1>2 DEF Become
<1> HIDE DEF n
<1> QED BY <1>4, <1>5, <1>6 DEF Onward, SameSystemd

LEMMA InitializedOnward == IInv /\ Initialized => Onward /\ mgr'.systemd_initialized
<1> SUFFICES ASSUME IInv, Initialized PROVE Onward /\ mgr'.systemd_initialized
  OBVIOUS
<1> DEFINE r == [mgr EXCEPT !.systemd_initialized = TRUE]
<1>1. mgr \in AnyManager /\ Steady(mgr) /\ Begun(mgr) /\ Signaled(mgr)
  BY DEF IInv, Good
<1>2. mgr.phase \in 1 .. 4
  BY PhaseNumbers DEF Initialized, PhaseNames
<1>3. mgr.manager_initialized => mgr.phase = 4
  BY <1>1, <1>2 DEF Signaled
<1>4. \/ mgr.manager_initialized /\ \E ok : Become(StartPhase(r, 5, ok))
      \/ Become(r)
  BY <1>3, PhaseNumbers DEF Initialized, PhaseNames
<1>5. /\ r \in AnyManager /\ r.phase = mgr.phase /\ r.app = mgr.app
      /\ r.manager_initialized = mgr.manager_initialized
      /\ r.systemd_initialized = TRUE /\ r.fault = mgr.fault
  BY <1>1 DEF AnyManager
<1> HIDE DEF r
<1>6. CASE Become(r)
  BY <1>2, <1>5, <1>6 DEF Become, Onward
<1>7. ASSUME mgr.manager_initialized, NEW ok, Become(StartPhase(r, 5, ok))
      PROVE  Onward /\ mgr'.systemd_initialized
  <2> DEFINE p == 5
             n == StartPhase(r, p, ok)
  <2>1. Steady(r) /\ mgr.phase = 4
    BY <1>1, <1>3, <1>5, <1>7 DEF Steady
  <2>2. /\ p \in 1 .. 9
        /\ \A a \in Apps : r.app[a].monitored <=> PhaseOf[a] < p
        /\ p <= 4 => ~r.manager_initialized
        /\ p > 4 => r.manager_initialized /\ (SystemdManaged => r.systemd_initialized)
    <3>1. \A a \in Apps : PhaseOf[a] \in 1 .. 8
      BY AppsAssumption, PhaseNumbers DEF PhaseNames
    <3> QED BY <1>1, <1>5, <1>7, <2>1, <3>1 DEF Begun
  <2>3. mgr' = n /\ p = 5
    BY <1>7 DEF Become
  <2> HIDE DEF p
  <2>4. Good(n) /\ n.phase >= p /\ SameSystemd(r, n)
    BY <1>5, <2>1, <2>2, StartPhaseGood, StartPhaseSystemd
  <2> HIDE DEF n
  <2>5. n.phase \in 0 .. 10
    BY <2>4 DEF Good, AnyManager
  <2> QED BY <1>5, <2>1, <2>3, <2>4, <2>5 DEF Onward, SameSystemd
<1> QED BY <1>4, <1>6, <1>7

\* All callbacks.
LEMMA StepOnward == IInv /\ [Next]_vars => Onward
<1> SUFFICES ASSUME IInv, [Next]_vars PROVE Onward
  OBVIOUS
<1>1. mgr \in AnyManager /\ Good(mgr) /\ mgr.phase \in 0 .. 10
  BY DEF IInv, Good, AnyManager
<1>2. ASSUME NEW n, Good(n), n.phase >= mgr.phase, SameSystemd(mgr, n), Become(n)
      PROVE  Onward
  BY <1>2 DEF Become, Onward, SameSystemd
<1>3. ASSUME mgr' = mgr \/ \E e : mgr' = WithFault(mgr, e)
             \/ mgr' = Over(mgr) \/ \E a, x : mgr' = WithApp(mgr, a, x)
      PROVE  Onward
  <2>1. mgr'.phase = mgr.phase
    BY <1>1, <1>3 DEF AnyManager, WithFault, Over, WithApp
  <2>2. SameSystemd(mgr, mgr')
    BY <1>1, <1>3, FieldsSystemd DEF SameSystemd
  <2> QED BY <1>1, <2>1, <2>2 DEF Onward, SameSystemd
<1>4. CASE LogoutBeginsOrIsCanceled
  <2>1. PICK q \in {9, 10} : mgr' = [mgr EXCEPT !.phase = q]
    BY <1>4, PhaseNumbers DEF LogoutBeginsOrIsCanceled, PhaseNames
  <2>2. mgr'.phase = q /\ mgr'.systemd_initialized = mgr.systemd_initialized
    BY <1>1, <2>1 DEF AnyManager
  <2> QED BY <2>2 DEF Onward
<1>5. CASE \/ Terminate \/ CrashAfterFreedAccess
           \/ \E a \in Apps : ConditionBecomesFalse(a) \/ MinutePasses(a)
           \/ UNCHANGED vars
  <2>1. \/ mgr' = mgr \/ mgr' = WithFault(mgr, "crashed") \/ mgr' = Over(mgr)
        \/ \E a \in Apps : mgr' = WithApp(mgr, a, [mgr.app[a] EXCEPT !.recent = FALSE])
    BY <1>5 DEF Terminate, CrashAfterFreedAccess, ConditionBecomesFalse, MinutePasses, vars,
       WithFault, Over, WithApp
  <2> QED BY <1>3, <2>1
<1>6. ASSUME NEW a \in Apps, ProcessEnds(a)
      PROVE  Onward
  <2> DEFINE r == Reap(mgr, a)
  <2>1. mgr.app[a].procs > 0 /\ mgr.phase >= 1
    BY <1>1, <1>6 DEF ProcessEnds, IInv, NothingYet
  <2>2. Good(r) /\ r.phase = mgr.phase /\ SameSystemd(mgr, r)
    BY <1>1, <2>1, ReapGood, FieldsSystemd
  <2>3. PICK ok : \/ Become(r)
                  \/ \E success \in BOOLEAN : Become(AppExited(r, a, success, ok))
                  \/ Become(AppDied(r, a, ok))
    BY <1>6 DEF ProcessEnds
  <2> HIDE DEF r
  <2>4. /\ Good(AppDied(r, a, ok)) /\ AppDied(r, a, ok).phase >= r.phase
        /\ \A success \in BOOLEAN : Good(AppExited(r, a, success, ok))
                                    /\ AppExited(r, a, success, ok).phase >= r.phase
    BY <2>1, <2>2, AppEndedGood
  <2>5. /\ SameSystemd(r, AppDied(r, a, ok))
        /\ \A success \in BOOLEAN : SameSystemd(r, AppExited(r, a, success, ok))
    BY <2>2, AppCallsSystemd
  <2>6. r.phase >= mgr.phase
    BY <1>1, <2>2
  <2> QED BY <1>2, <2>2, <2>3, <2>4, <2>5, <2>6 DEF SameSystemd
<1>7. ASSUME NEW a \in Apps, ClientRegisters(a)
      PROVE  Onward
  <2>1. mgr.phase >= 1
    BY <1>7, PhaseNumbers DEF ClientRegisters, PhaseNames
  <2>2. PICK ok : Become(SetRegistered(mgr, a, ok))
    BY <1>7 DEF ClientRegisters
  <2> QED BY <1>1, <1>2, <2>1, <2>2, SetRegisteredGood, AppCallsSystemd
<1>8. ASSUME NEW a \in Apps, ClientDisconnects(a)
      PROVE  Onward
  <2>1. mgr.phase >= 1
    BY <1>1, <1>8 DEF ClientDisconnects, IInv, NothingYet
  <2>2. PICK ok : Become(mgr) \/ Become(RestartApp(mgr, a, ok))
    BY <1>8 DEF ClientDisconnects
  <2>3. CASE Become(mgr)
    BY <1>3, <2>3 DEF Become
  <2>4. CASE Become(RestartApp(mgr, a, ok))
    BY <1>1, <1>2, <2>1, <2>4, RestartAppGood, RestartAppSystemd
  <2> QED BY <2>2, <2>3, <2>4
<1>9. ASSUME NEW a \in Apps, ConditionBecomesTrue(a)
      PROVE  Onward
  <2>1. Become(mgr) \/ Become(Launch(mgr, a))
    BY <1>9 DEF ConditionBecomesTrue
  <2>2. CASE Become(mgr)
    BY <1>3, <2>2 DEF Become
  <2>3. CASE Become(Launch(mgr, a))
    <3>1. Good(Launch(mgr, a)) /\ Launch(mgr, a).phase >= mgr.phase
          /\ SameSystemd(mgr, Launch(mgr, a))
      BY <1>1, LaunchGood, FieldsSystemd
    <3> QED BY <1>2, <2>3, <3>1
  <2> QED BY <2>1, <2>2, <2>3
<1> QED BY <1>4, <1>5, <1>6, <1>7, <1>8, <1>9, ManagerStartOnward, PhaseTimeoutOnward,
           InitializedOnward DEF Next

\* Each of the three comes again and again while its guard holds: the fairness of
\* FairSpec, with the guards of the actions in place of ENABLED.  Each can be taken
\* whenever its guard holds (the system may launch nothing), and ends its guard.
StartCanCome == Dispatching /\ mgr.phase = STARTUP
TimeoutCanCome == Dispatching /\ mgr.phase_timeout
InitializedCanCome ==
  /\ Dispatching /\ SystemdManaged /\ ~mgr.systemd_initialized
  /\ mgr.phase \in EARLY_INITIALIZATION .. INITIALIZATION

CallbacksCome ==
  /\ []<>~StartCanCome \/ []<><<ManagerStart>>_vars
  /\ []<>~TimeoutCanCome \/ []<><<PhaseTimeout>>_vars
  /\ []<>~InitializedCanCome \/ []<><<Initialized>>_vars

\* The startup has come to phase i or further and goes on, or is over.
InStartup(i) == Dispatching /\ mgr.phase \in i .. 8
StartupDone == mgr.phase >= RUNNING \/ ~Dispatching

IsLeftFor(i, j) == InStartup(i) ~> InStartup(j) \/ StartupDone

\* Every phase is left for a later one.
LEMMA PhaseIsLeft ==
  ASSUME NEW i \in 0 .. 8, NEW j, j = i + 1
  PROVE  Spec /\ CallbacksCome => IsLeftFor(i, j)
<1> DEFINE A == Dispatching /\ mgr.phase = i
           B == InStartup(i)
           C == InStartup(j)
           D == StartupDone
           Z == i = 0
           R == i # 4 \/ ~SystemdManaged \/ mgr.systemd_initialized
           GS == StartCanCome
           GT == TimeoutCanCome
           GI == InitializedCanCome
<1>1. IInv => (B => A \/ C)
  BY DEF IInv, Good, AnyManager, InStartup
<1>2. IInv /\ [Next]_vars => (A => A' \/ C' \/ D')
  <2>1. SUFFICES ASSUME IInv, [Next]_vars, A, ~D' PROVE A' \/ C'
    OBVIOUS
  <2>2. mgr'.phase \in 0 .. 10
    BY <2>1, NextIInv DEF IInv, Good, AnyManager
  <2>3. Dispatching' /\ mgr'.phase < 9
    BY <2>1, <2>2, PhaseNumbers DEF StartupDone, PhaseNames
  <2>4. mgr'.phase >= i
    BY <2>1, <2>3, StepOnward DEF Onward
  <2> QED BY <2>2, <2>3, <2>4 DEF InStartup
<1>3. IInv /\ [Next]_vars => (R => R')
  BY StepOnward DEF Onward
<1>4. IInv => (A => (Z /\ GS) \/ (~Z /\ R /\ GT) \/ (~Z /\ ~R /\ GI))
  <2>1. SUFFICES ASSUME IInv, A
                 PROVE  (Z /\ GS) \/ (~Z /\ R /\ GT) \/ (~Z /\ ~R /\ GI)
    OBVIOUS
  <2>2. CASE i = 0
    BY <2>1, <2>2, PhaseNumbers DEF StartCanCome, PhaseNames
  <2>3. CASE i # 0 /\ ~R
    BY <2>1, <2>3, PhaseNumbers DEF InitializedCanCome, PhaseNames
  <2>4. CASE i # 0 /\ R
    <3>1. Awaiting(mgr) /\ mgr.phase \in 1 .. 8 /\ Dispatching
      BY <2>1, <2>4 DEF IInv, Good
    <3>2. mgr.pending_apps # {}
      BY <2>1, <2>4, <3>1 DEF Awaiting
    <3> QED BY <2>4, <3>1, <3>2 DEF Awaiting, TimeoutCanCome
  <2> QED BY <2>2, <2>3, <2>4
<1>5. IInv /\ [Next]_vars /\ <<ManagerStart>>_vars => (A => C' \/ D')
  <2>1. SUFFICES ASSUME IInv, [Next]_vars, ManagerStart, A PROVE C' \/ D'
    OBVIOUS
  <2>2. i = 0
    BY <2>1, PhaseNumbers DEF ManagerStart, PhaseNames
  <2>3. mgr'.phase > 0
    BY <2>1, ManagerStartOnward
  <2>4. ~A'
    BY <2>2, <2>3
  <2> QED BY <1>2, <2>1, <2>4
<1>6. IInv /\ [Next]_vars /\ <<PhaseTimeout>>_vars => (A /\ R => C' \/ D')
  <2>1. SUFFICES ASSUME IInv, [Next]_vars, PhaseTimeout, A, R PROVE C' \/ D'
    OBVIOUS
  <2>2. mgr'.phase # i
    BY <2>1, PhaseTimeoutOnward
  <2> QED BY <1>2, <2>1, <2>2
<1>7. IInv /\ [Next]_vars /\ <<Initialized>>_vars => R'
  BY InitializedOnward
<1>8. (Z => Z') /\ (~Z => ~Z')
  OBVIOUS
<1> HIDE DEF A, B, C, D, Z, R, GS, GT, GI
<1>9. []IInv /\ [][Next]_vars
      /\ ([]<>~GS \/ []<><<ManagerStart>>_vars)
      /\ ([]<>~GT \/ []<><<PhaseTimeout>>_vars)
      /\ ([]<>~GI \/ []<><<Initialized>>_vars)
        => (B ~> C \/ D)
  BY <1>1, <1>2, <1>3, <1>4, <1>5, <1>6, <1>7, <1>8, PTL
<1> QED BY <1>9, Invariant, PTL DEF Spec, CallbacksCome, IsLeftFor, B, C, D, GS, GT, GI

\* The session gets to run or the process ends, for any applications, in any phases,
\* whatever they do: hang, die, or are restarted again and again (start_phase,
\* on_phase_timeout, scsm_manager_initialized).
THEOREM StartupsComplete == Spec /\ CallbacksCome => StartupCompletes
<1> DEFINE S0 == InStartup(0)
           S1 == InStartup(1)
           S2 == InStartup(2)
           S3 == InStartup(3)
           S4 == InStartup(4)
           S5 == InStartup(5)
           S6 == InStartup(6)
           S7 == InStartup(7)
           S8 == InStartup(8)
           S9 == InStartup(9)
           D == StartupDone
           F == Spec /\ CallbacksCome
<1>1. F => /\ IsLeftFor(0, 1) /\ IsLeftFor(1, 2) /\ IsLeftFor(2, 3)
           /\ IsLeftFor(3, 4) /\ IsLeftFor(4, 5) /\ IsLeftFor(5, 6)
           /\ IsLeftFor(6, 7) /\ IsLeftFor(7, 8) /\ IsLeftFor(8, 9)
  BY PhaseIsLeft
<1>2. ~S9
  BY DEF InStartup
<1>3. IInv => (mgr.phase < RUNNING => S0 \/ D)
  BY PhaseNumbers DEF IInv, Good, AnyManager, InStartup, StartupDone, PhaseNames
<1> HIDE DEF S0, S1, S2, S3, S4, S5, S6, S7, S8, S9, D, F
<1>4. F /\ []IInv => (mgr.phase < RUNNING ~> D)
  BY <1>1, <1>2, <1>3, PTL DEF IsLeftFor, S0, S1, S2, S3, S4, S5, S6, S7, S8, S9, D
<1> QED BY <1>4, Invariant, PTL DEF F, StartupCompletes, StartupDone, D
=============================================================================
