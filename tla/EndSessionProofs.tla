-------------------------- MODULE EndSessionProofs --------------------------
(***************************************************************************)
(* Proofs about EndSession for any sets of clients and cookies and any     *)
(* bounds.  Nested calls of the C functions are nested operators, so the   *)
(* invariant is stated about an arbitrary manager record m: one lemma per  *)
(* function shows that it maps an orderly record to an orderly one, and    *)
(* how far it may move the session on.  The action properties follow the   *)
(* same way, from what a call promises of the records before and after it; *)
(* liveness follows from what the invariant says a phase waits for, and    *)
(* from the timers' firing.                                                *)
(***************************************************************************)
EXTENDS EndSession, TLAPS

\* The inductive invariant, as a predicate of a manager record: the invariants
\* of EndSession that concern mgr, in a form that nested calls preserve.
Orderly(m) ==
  /\ m.accepting <=> m.phase = "RUNNING"
  /\ m.phase = "RUNNING" => m.query_clients = Empty /\ m.jit = Empty
  /\ m.next_query_clients # Empty => m.phase = "END_SESSION"
  /\ m.query_timeout => m.phase = "QUERY_END_SESSION"
  /\ m.phase_timeout <=> m.phase = "END_SESSION"
  /\ m.phase = "QUERY_END_SESSION" /\ m.query_clients # Empty => m.query_timeout
  /\ m.phase = "QUERY_END_SESSION" =>
       \A c \in Clients : m.query_clients[c] > 0 =>
         m.query_clients[c] = 1 /\ c \in m.clients /\ m.jit[c] = 0
  /\ \A c \in Clients : m.jit[c] > 0 => c \in m.clients
  /\ m.tasks > 0 => m.phase \in {"QUERY_END_SESSION", "EXIT"}

\* How far a call may move the session within one callback, from m to n: it
\* lets no client in or out and moves the phase the way SessionLifecycle
\* allows, never out of RUNNING.
Advances(m, n) ==
  /\ n.clients = m.clients
  /\ \/ n.phase = m.phase /\ n.tasks = m.tasks
     \/ /\ m.phase = "QUERY_END_SESSION" /\ n.tasks = 0
        /\ n.phase \in {"RUNNING", "END_SESSION", "EXIT"}
     \/ m.phase = "END_SESSION" /\ n.phase = "RUNNING" /\ n.tasks = 0
     \/ m.phase = "END_SESSION" /\ n.phase = "EXIT" /\ n.tasks = m.tasks

\* Besides, most calls add no inhibitor and nobody to the lists they share.
Onward(m, n) ==
  /\ Advances(m, n)
  /\ \A c \in Clients : n.jit[c] <= m.jit[c]
  /\ \A c \in Clients : n.next_query_clients[c] <= m.next_query_clients[c]
  /\ n.phase = "QUERY_END_SESSION" =>
       \A c \in Clients : n.query_clients[c] <= m.query_clients[c]

\* A call that keeps the record typed and orderly and moves it only onward.
Proper(m, n) == n \in Manager /\ Orderly(n) /\ Onward(m, n)

USE ClientsAssumption, PromptAssumption, BoundsAssumption

\* The empty list and the list of all clients have the type of client lists.
LEMMA Lists ==
  /\ Empty \in [Clients -> 0 .. MaxLast]
  /\ Empty \in [Clients -> 0 .. MaxJit]
  /\ \A S : Once(S) \in [Clients -> 0 .. MaxLast]
BY DEF Empty, Once, MaxJit

\* Two calls in a row are one move.
LEMMA AdvancesTransitive ==
  ASSUME NEW m, NEW n, NEW o, Advances(m, n), Advances(n, o)
  PROVE  Advances(m, o)
BY DEF Advances

\* Calls that only reduce inhibitors and lists do so in a row, too.
LEMMA OnwardTransitive ==
  ASSUME NEW m \in Manager, NEW n \in Manager, NEW o \in Manager,
         Onward(m, n), Onward(n, o)
  PROVE  Onward(m, o)
<1>1. \A c \in Clients :
        /\ m.jit[c] \in Nat /\ n.jit[c] \in Nat /\ o.jit[c] \in Nat
        /\ m.next_query_clients[c] \in Nat /\ n.next_query_clients[c] \in Nat
        /\ o.next_query_clients[c] \in Nat
        /\ m.query_clients[c] \in Nat /\ n.query_clients[c] \in Nat
        /\ o.query_clients[c] \in Nat
  BY DEF Manager, MaxJit
<1>2. Advances(m, o)
  BY AdvancesTransitive DEF Onward
<1>3. \A c \in Clients : o.jit[c] <= m.jit[c]
  BY <1>1 DEF Onward
<1>4. \A c \in Clients : o.next_query_clients[c] <= m.next_query_clients[c]
  BY <1>1 DEF Onward
<1>5. ASSUME o.phase = "QUERY_END_SESSION"
      PROVE  \A c \in Clients : o.query_clients[c] <= m.query_clients[c]
  <2>1. n.phase = "QUERY_END_SESSION"
    BY <1>5 DEF Onward, Advances
  <2> QED
    BY <2>1, <1>1, <1>5 DEF Onward
<1> QED
  BY <1>2, <1>3, <1>4, <1>5 DEF Onward

\* A proper call after a proper call is a proper call: what nesting them needs.
LEMMA ProperTransitive ==
  ASSUME NEW m \in Manager, NEW n, NEW o, Proper(m, n), Proper(n, o)
  PROVE  Proper(m, o)
BY OnwardTransitive DEF Proper

\* A call that changes nothing is a move, too.
LEMMA OnwardReflexive ==
  ASSUME NEW m \in Manager
  PROVE  Onward(m, m)
BY DEF Onward, Advances, Manager, MaxJit

\* Each list and timer that ResetPhase() clears has its type afterwards.
LEMMA ResetPhaseType ==
  ASSUME NEW m \in Manager
  PROVE  ResetPhase(m) \in Manager
BY Lists DEF ResetPhase, Manager

\* The fields with which StartEndSession() and StartRunning() go on have their types.
LEMMA PhaseAndTasksType ==
  ASSUME NEW m \in Manager, NEW p \in Phases, NEW a \in BOOLEAN
  PROVE  /\ [m EXCEPT !.phase = p, !.tasks = 0] \in Manager
         /\ [m EXCEPT !.phase = p, !.accepting = a, !.tasks = 0] \in Manager
<1>1. 0 \in 0 .. MaxTasks
  OBVIOUS
<1>2. [m EXCEPT !.tasks = 0] \in Manager
  BY <1>1 DEF Manager
<1>3. [m EXCEPT !.phase = p, !.tasks = 0] \in Manager
  BY <1>1 DEF Manager
<1>4. [m EXCEPT !.phase = p, !.accepting = a, !.tasks = 0] \in Manager
  BY <1>1 DEF Manager
<1> QED
  BY <1>3, <1>4

\* EXIT is entered from END_SESSION, or once more while in it.
LEMMA StartExitProper ==
  ASSUME NEW m \in Manager, Orderly(m), m.phase \in {"END_SESSION", "EXIT"}
  PROVE  Proper(m, StartExit(m))
<1>1. StartExit(m) \in Manager
  BY ResetPhaseType DEF StartExit, Manager, Phases
<1>2. Orderly(StartExit(m))
  BY DEF Orderly, StartExit, ResetPhase, Manager
<1>3. Onward(m, StartExit(m))
  BY DEF Orderly, Onward, Advances, StartExit, ResetPhase, Manager, MaxJit, Phases, Empty
<1> QED
  BY <1>1, <1>2, <1>3 DEF Proper

\* END_SESSION is started from the query phase only.
LEMMA StartEndSessionProper ==
  ASSUME NEW m \in Manager, Orderly(m), m.phase = "QUERY_END_SESSION"
  PROVE  Proper(m, StartEndSession(m))
<1> DEFINE r == [ResetPhase(m) EXCEPT !.phase = "END_SESSION", !.tasks = 0]
           e == [r EXCEPT !.phase_timeout = TRUE, !.query_clients = Once(m.clients)]
<1>0. r \in Manager
  BY ResetPhaseType, PhaseAndTasksType DEF Phases
<1>1. CASE m.clients = {}
  <2>1. StartEndSession(m) = StartExit(r)
    BY <1>1 DEF StartEndSession
  <2>2. StartExit(r) \in Manager
    BY <1>0, ResetPhaseType DEF StartExit, Manager, Phases
  <2>3. Orderly(StartExit(r))
    BY DEF Orderly, StartExit, ResetPhase, Manager
  <2>4. Onward(m, StartExit(r))
    BY DEF Onward, Advances, StartExit, ResetPhase, Manager, MaxJit, Empty
  <2> QED
    BY <2>1, <2>2, <2>3, <2>4 DEF Proper
<1>2. CASE m.clients # {}
  <2>1. StartEndSession(m) = e
    BY <1>2 DEF StartEndSession
  <2>2. e \in Manager
    BY <1>0, Lists DEF Manager
  <2>3. Orderly(e)
    BY DEF Orderly, ResetPhase, Manager
  <2>4. Onward(m, e)
    BY DEF Onward, Advances, ResetPhase, Manager, MaxJit, Empty
  <2> QED
    BY <2>1, <2>2, <2>3, <2>4 DEF Proper
<1> QED
  BY <1>1, <1>2

\* Cancelling leads back to RUNNING from the two phases of a logout.
LEMMA CancelEndSessionProper ==
  ASSUME NEW m \in Manager, Orderly(m), m.phase # "EXIT"
  PROVE  Proper(m, CancelEndSession(m))
<1>1. CASE m.phase = "RUNNING"
  BY <1>1, OnwardReflexive DEF CancelEndSession, Proper
<1>2. CASE m.phase # "RUNNING"
  <2> DEFINE k == [m EXCEPT !.logout_mode = "NORMAL", !.logout_type = "NONE",
                            !.jit = Empty]
  <2>1. CancelEndSession(m) = StartRunning(k)
    BY <1>2 DEF CancelEndSession
  <2>a. ResetPhase(k) \in Manager
    <3>1. k \in Manager
      BY Lists DEF Manager, Modes, Types
    <3> QED
      BY <3>1, ResetPhaseType
  <2>2. CancelEndSession(m) \in Manager
    BY <2>1, <2>a, PhaseAndTasksType DEF StartRunning, Phases
  <2>3. Orderly(CancelEndSession(m))
    BY <2>1 DEF Orderly, StartRunning, ResetPhase, Manager, Empty
  <2>4. Onward(m, CancelEndSession(m))
    BY <1>2, <2>1 DEF Onward, Advances, StartRunning, ResetPhase, Manager, MaxJit, Empty, Phases
  <2> QED
    BY <2>2, <2>3, <2>4 DEF Proper
<1> QED
  BY <1>1, <1>2

\* logind's answer, a failed preparation or an announced shutdown.
LEMMA OnShutdownPreparedProper ==
  ASSUME NEW m \in Manager, Orderly(m), m.phase # "EXIT", NEW success \in BOOLEAN
  PROVE  Proper(m, OnShutdownPrepared(m, success))
<1> DEFINE r == [m EXCEPT !.prepared_handler = FALSE]
           d == [r EXCEPT !.dialog_signals = FALSE]
           f == [r EXCEPT !.fault = "assertion"]
<1>1. Proper(m, r) /\ Proper(m, d) /\ Proper(m, f)
  <2>1. r \in Manager /\ d \in Manager /\ f \in Manager
    BY DEF Manager, Faults
  <2>2. Orderly(r) /\ Orderly(d) /\ Orderly(f)
    BY DEF Orderly, Manager
  <2>3. Onward(m, r) /\ Onward(m, d) /\ Onward(m, f)
    BY DEF Onward, Advances, Manager, MaxJit
  <2> QED
    BY <2>1, <2>2, <2>3 DEF Proper
<1>2. r.phase = m.phase /\ d.phase = m.phase
  BY DEF Manager
<1>3. Proper(d, CancelEndSession(d))
  BY <1>1, <1>2, CancelEndSessionProper DEF Proper
<1>4. m.phase = "QUERY_END_SESSION" => Proper(r, StartEndSession(r))
  BY <1>1, <1>2, StartEndSessionProper DEF Proper
<1>5. CASE ~m.prepared_handler
  BY <1>5, OnwardReflexive DEF OnShutdownPrepared, Proper
<1>6. CASE m.prepared_handler /\ ~success
  <2>1. OnShutdownPrepared(m, success) = CancelEndSession(d)
    BY <1>6 DEF OnShutdownPrepared
  <2> QED
    BY <2>1, <1>1, <1>3, ProperTransitive
<1>7. CASE m.prepared_handler /\ success
  <2>1. OnShutdownPrepared(m, success)
          = IF m.phase = "QUERY_END_SESSION" THEN StartEndSession(r) ELSE f
    BY <1>7 DEF OnShutdownPrepared
  <2> QED
    BY <2>1, <1>1, <1>4, ProperTransitive
<1> QED
  BY <1>5, <1>6, <1>7

\* Preparing a shutdown: the delay inhibitor, the call, or the refusal.
LEMMA PrepareShutdownProper ==
  ASSUME NEW m \in Manager, Orderly(m), m.phase # "EXIT"
  PROVE  Proper(m, PrepareShutdown(m))
<1> DEFINE r == [m EXCEPT !.prepared_handler = TRUE]
           n == IF r.logind_calls < MaxCalls THEN r.logind_calls + 1
                                             ELSE r.logind_calls
           d == [r EXCEPT !.shutdown_expected = TRUE, !.logind_calls = n]
<1>1. r \in Manager /\ r.phase = m.phase
  BY DEF Manager
<1>2. Proper(m, r)
  <2>1. Orderly(r)
    BY DEF Orderly, Manager
  <2>2. Onward(m, r)
    BY DEF Onward, Advances, Manager, MaxJit
  <2> QED
    BY <1>1, <2>1, <2>2 DEF Proper
<1>3. Proper(m, d)
  <2>1. n \in 0 .. MaxCalls
    BY <1>1 DEF Manager
  <2>2. d \in Manager
    BY <1>1, <2>1 DEF Manager
  <2>3. Orderly(d)
    BY DEF Orderly, Manager
  <2>4. Onward(m, d)
    BY DEF Onward, Advances, Manager, MaxJit
  <2> QED
    BY <2>2, <2>3, <2>4 DEF Proper
<1>4. Proper(r, OnShutdownPrepared(r, FALSE))
  BY <1>1, <1>2, OnShutdownPreparedProper DEF Proper
<1>5. PrepareShutdown(m) = IF logindUp THEN d ELSE OnShutdownPrepared(r, FALSE)
  BY DEF PrepareShutdown
<1> QED
  BY <1>2, <1>3, <1>4, <1>5, ProperTransitive

\* The end of the query phase.
LEMMA EndQueryEndSessionProper ==
  ASSUME NEW m \in Manager, Orderly(m), m.phase = "QUERY_END_SESSION"
  PROVE  Proper(m, EndQueryEndSession(m))
<1>1. Proper(m, ResetPhase(m)) /\ ResetPhase(m).phase = "QUERY_END_SESSION"
  <2>1. Orderly(ResetPhase(m)) /\ ResetPhase(m).phase = "QUERY_END_SESSION"
    BY DEF Orderly, ResetPhase, Manager, Empty
  <2>2. Onward(m, ResetPhase(m))
    BY DEF Onward, Advances, ResetPhase, Manager, MaxJit, Empty
  <2> QED
    BY <2>1, <2>2, ResetPhaseType DEF Proper
<1>2. Proper(m, PrepareShutdown(ResetPhase(m)))
  BY <1>1, PrepareShutdownProper, ProperTransitive DEF Proper
<1> QED
  BY <1>2, StartEndSessionProper DEF EndQueryEndSession

\* end_phase() is proper wherever the session is not RUNNING; from RUNNING it
\* starts a query, which StartQueryOrderly is about.
LEMMA EndPhaseProper ==
  ASSUME NEW m \in Manager, Orderly(m), m.phase # "RUNNING"
  PROVE  Proper(m, EndPhase(m))
<1>1. CASE m.phase = "QUERY_END_SESSION"
  BY <1>1, EndQueryEndSessionProper DEF EndPhase
<1>2. CASE m.phase # "QUERY_END_SESSION"
  <2>1. m.phase \in {"END_SESSION", "EXIT"}
    BY <1>2 DEF Manager, Phases
  <2>2. EndPhase(m) = StartExit(m)
    BY <1>2 DEF EndPhase
  <2> QED
    BY <2>1, <2>2, StartExitProper
<1> QED
  BY <1>1, <1>2

\* Whatever hangs on a removed inhibitor or a complete list of answers.
LEMMA EndSessionOrShowDialogProper ==
  ASSUME NEW m \in Manager, Orderly(m), m.phase # "RUNNING"
  PROVE  Proper(m, EndSessionOrShowDialog(m))
<1> DEFINE b == m.dialog_signals \/ shellRunning
           d == [m EXCEPT !.dialog_signals = b]
<1>1. Proper(m, d)
  <2>1. b \in BOOLEAN
    BY DEF Manager
  <2>2. d \in Manager
    BY <2>1 DEF Manager
  <2>3. Orderly(d)
    BY DEF Orderly, Manager
  <2>4. Onward(m, d)
    BY DEF Onward, Advances, Manager, MaxJit
  <2> QED
    BY <2>2, <2>3, <2>4 DEF Proper
<1>2. EndSessionOrShowDialog(m) = d \/ EndSessionOrShowDialog(m) = EndPhase(m)
  BY DEF EndSessionOrShowDialog
<1> QED
  BY <1>1, <1>2, EndPhaseProper

\* on_store_inhibitor_removed() is proper for any record it may be nested in.
LEMMA OnInhibitorRemovedProper ==
  ASSUME NEW m \in Manager, Orderly(m)
  PROVE  Proper(m, OnInhibitorRemoved(m))
<1>1. Proper(m, m)
  BY OnwardReflexive DEF Proper
<1> QED
  BY <1>1, EndSessionOrShowDialogProper DEF OnInhibitorRemoved

\* Removing a client's inhibitors, and what their "removed" signals do.
LEMMA RemoveJitProper ==
  ASSUME NEW m \in Manager, Orderly(m), NEW c \in Clients
  PROVE  Proper(m, RemoveJit(m, c)) /\ RemoveJit(m, c).jit[c] = 0
<1> DEFINE r == [m EXCEPT !.jit[c] = 0]
<1>1. Proper(m, r) /\ r.jit[c] = 0
  <2>1. r \in Manager /\ r.jit[c] = 0
    BY DEF Manager, MaxJit
  <2>2. Orderly(r)
    BY DEF Orderly, Manager, MaxJit, Empty
  <2>3. Onward(m, r)
    BY DEF Onward, Advances, Manager, MaxJit
  <2> QED
    BY <2>1, <2>2, <2>3 DEF Proper
<1>2. Proper(r, OnInhibitorRemoved(r))
  BY <1>1, OnInhibitorRemovedProper DEF Proper
<1>3. Proper(m, OnInhibitorRemoved(OnInhibitorRemoved(r)))
  BY <1>1, <1>2, OnInhibitorRemovedProper, ProperTransitive DEF Proper
<1>4. Proper(m, OnInhibitorRemoved(r))
  BY <1>1, <1>2, ProperTransitive
<1>5. \A n : Proper(r, n) => n.jit[c] = 0
  BY <1>1 DEF Proper, Onward, Manager, MaxJit
<1>6. Proper(r, OnInhibitorRemoved(OnInhibitorRemoved(r)))
  BY <1>1, <1>2, OnInhibitorRemovedProper, ProperTransitive DEF Proper
<1>7. CASE m.jit[c] = 0
  <2>1. RemoveJit(m, c) = m
    BY <1>7 DEF RemoveJit
  <2> QED
    BY <1>7, <2>1, OnwardReflexive DEF Proper
<1>8. CASE m.jit[c] = 1
  <2>1. RemoveJit(m, c) = OnInhibitorRemoved(r)
    BY <1>8 DEF RemoveJit
  <2> QED
    BY <2>1, <1>2, <1>4, <1>5
<1>9. CASE m.jit[c] \notin {0, 1}
  <2>1. RemoveJit(m, c) = OnInhibitorRemoved(OnInhibitorRemoved(r))
    BY <1>9 DEF RemoveJit
  <2> QED
    BY <2>1, <1>3, <1>5, <1>6
<1> QED
  BY <1>7, <1>8, <1>9

\* Part 2 of END_SESSION takes over the list of the clients that come last.
LEMMA EndSessionPart2Proper ==
  ASSUME NEW m \in Manager, Orderly(m), m.phase = "END_SESSION"
  PROVE  Proper(m, EndSessionPart2(m))
<1> DEFINE f == IF \E c \in Clients \ m.clients : m.next_query_clients[c] > 0
                THEN "freed_access" ELSE m.fault
<1>1. EndSessionPart2(m) = [m EXCEPT !.query_clients = m.next_query_clients,
                                     !.next_query_clients = Empty, !.fault = f]
  BY DEF EndSessionPart2, Manager
<1>2. f \in Faults
  BY DEF Faults, Manager
<1> HIDE DEF f
<1>3. EndSessionPart2(m) \in Manager
  BY <1>1, <1>2, Lists DEF Manager
<1>4. Orderly(EndSessionPart2(m))
  BY <1>1 DEF Orderly, Manager
<1>5. Onward(m, EndSessionPart2(m))
  BY <1>1 DEF Onward, Advances, Manager, MaxJit, Empty
<1> QED
  BY <1>3, <1>4, <1>5 DEF Proper

\* The end of a response, in a state d that has already noted "do last".
LEMMA AfterResponseProper ==
  ASSUME NEW m \in Manager, Orderly(m), NEW c \in Clients, NEW do_last \in BOOLEAN,
         m.phase = "END_SESSION" /\ do_last => m.next_query_clients[c] < MaxLast
  PROVE  /\ AfterResponse(m, c, do_last) \in Manager
         /\ Orderly(AfterResponse(m, c, do_last))
         /\ Advances(m, AfterResponse(m, c, do_last))
         /\ ~do_last => Proper(m, AfterResponse(m, c, do_last))
<1> DEFINE d == IF do_last THEN [m EXCEPT !.next_query_clients[c] = @ + 1] ELSE m
           q == [m EXCEPT !.query_timeout = FALSE]
<1>1. Proper(m, m)
  BY OnwardReflexive DEF Proper
<1>2. CASE m.phase = "QUERY_END_SESSION"
  <2>1. AfterResponse(m, c, do_last) =
          IF m.query_clients = Empty THEN EndSessionOrShowDialog(q) ELSE m
    BY <1>2 DEF AfterResponse
  <2>2. ASSUME m.query_clients = Empty
        PROVE  Proper(m, q) /\ q.phase = m.phase
    <3>1. q \in Manager /\ q.phase = m.phase
      BY DEF Manager
    <3>2. Orderly(q)
      BY <1>2, <2>2 DEF Orderly, Manager
    <3>3. Onward(m, q)
      BY DEF Onward, Advances, Manager, MaxJit
    <3> QED
      BY <3>1, <3>2, <3>3 DEF Proper
  <2>3. m.query_clients = Empty => Proper(m, EndSessionOrShowDialog(q))
    BY <1>2, <2>2, EndSessionOrShowDialogProper, ProperTransitive DEF Proper
  <2> QED
    BY <1>1, <2>1, <2>3 DEF Proper, Onward
<1>3. CASE m.phase = "END_SESSION"
  <2>1. d \in Manager /\ d.phase = "END_SESSION" /\ Orderly(d) /\ Advances(m, d)
    <3>1. CASE do_last
      <4>1. m.next_query_clients[c] + 1 \in 0 .. MaxLast
        BY <1>3, <3>1 DEF Manager
      <4>2. d \in Manager
        BY <3>1, <4>1 DEF Manager
      <4>3. Orderly(d) /\ Advances(m, d) /\ d.phase = "END_SESSION"
        BY <1>3, <3>1 DEF Orderly, Advances, Manager
      <4> QED
        BY <4>2, <4>3
    <3>2. CASE ~do_last
      BY <1>1, <1>3, <3>2 DEF Proper, Onward
    <3> QED
      BY <3>1, <3>2
  <2>2. AfterResponse(m, c, do_last) =
          IF m.query_clients # Empty \/ Inhibited(m) THEN d
          ELSE IF d.next_query_clients # Empty THEN EndSessionPart2(d)
               ELSE EndPhase(d)
    BY <1>3 DEF AfterResponse
  <2> HIDE DEF d
  <2>3. Proper(d, d)
    BY <2>1, OnwardReflexive DEF Proper
  <2>4. Proper(d, EndSessionPart2(d))
    BY <2>1, EndSessionPart2Proper
  <2>5. Proper(d, EndPhase(d))
    BY <2>1, EndPhaseProper
  <2>6. Proper(d, AfterResponse(m, c, do_last))
    BY <2>2, <2>3, <2>4, <2>5
  <2>7. ~do_last => d = m
    BY DEF d
  <2> QED
    BY <2>1, <2>6, <2>7, AdvancesTransitive DEF Proper, Onward
<1>4. CASE m.phase \notin {"QUERY_END_SESSION", "END_SESSION"}
  <2>1. AfterResponse(m, c, do_last) = m
    BY <1>4 DEF AfterResponse
  <2> QED
    BY <1>1, <2>1 DEF Proper, Onward
<1> QED
  BY <1>2, <1>3, <1>4

\* A response that takes c off the list and its inhibitors out of the store.
LEMMA PositiveResponse ==
  ASSUME NEW m \in Manager, Orderly(m), NEW c \in Clients, NEW do_last \in BOOLEAN,
         do_last => m.next_query_clients[c] < MaxLast
  PROVE  /\ HandleResponse(m, c, TRUE, do_last) \in Manager
         /\ Orderly(HandleResponse(m, c, TRUE, do_last))
         /\ Advances(m, HandleResponse(m, c, TRUE, do_last))
         /\ ~do_last => Proper(m, HandleResponse(m, c, TRUE, do_last))
         /\ HandleResponse(m, c, TRUE, do_last).phase = "QUERY_END_SESSION" /\ ~do_last
              => HandleResponse(m, c, TRUE, do_last).query_clients[c] = 0
<1> DEFINE h == HandleResponse(m, c, TRUE, do_last)
           r == [m EXCEPT !.query_clients[c] = IF @ > 0 THEN @ - 1 ELSE 0]
           j == RemoveJit(r, c)
<1>1. CASE m.phase = "RUNNING"
  <2>1. h = m
    BY <1>1 DEF HandleResponse
  <2>2. Proper(m, m)
    BY OnwardReflexive DEF Proper
  <2> QED
    BY <1>1, <2>1, <2>2 DEF Proper, Onward
<1>2. CASE m.phase # "RUNNING"
  <2>1. h = AfterResponse(j, c, do_last)
    BY <1>2 DEF HandleResponse
  <2>2. Proper(m, r) /\ (r.phase = "QUERY_END_SESSION" => r.query_clients[c] = 0)
    <3>1. r \in Manager
      BY DEF Manager
    <3>2. Orderly(r)
      BY <1>2 DEF Orderly, Manager, Empty
    <3>3. Onward(m, r)
      BY DEF Onward, Advances, Manager, MaxJit
    <3>4. r.phase = "QUERY_END_SESSION" => r.query_clients[c] = 0
      BY DEF Orderly, Manager
    <3> QED
      BY <3>1, <3>2, <3>3, <3>4 DEF Proper
  <2> HIDE DEF r
  <2>3. Proper(r, j)
    BY <2>2, RemoveJitProper DEF Proper
  <2>4. Proper(m, j)
    BY <2>2, <2>3, ProperTransitive
  <2> HIDE DEF j
  <2>5. j \in Manager /\ Orderly(j) /\ Advances(m, j)
    BY <2>4 DEF Proper, Onward
  <2>6. j.phase = "END_SESSION" /\ do_last => j.next_query_clients[c] < MaxLast
    BY <2>4 DEF Proper, Onward, Manager
  <2>7. /\ h \in Manager /\ Orderly(h) /\ Advances(j, h)
        /\ ~do_last => Proper(j, h)
    BY <2>1, <2>5, <2>6, AfterResponseProper
  <2>8. Advances(m, h) /\ (~do_last => Proper(m, h))
    BY <2>4, <2>5, <2>7, AdvancesTransitive, ProperTransitive
  <2>9. h.phase = "QUERY_END_SESSION" /\ ~do_last => h.query_clients[c] = 0
    <3>1. SUFFICES ASSUME h.phase = "QUERY_END_SESSION", ~do_last
                   PROVE  h.query_clients[c] = 0
      OBVIOUS
    <3>2. Proper(r, h)
      BY <2>2, <2>3, <2>7, <3>1, ProperTransitive DEF Proper
    <3>3. r.phase = "QUERY_END_SESSION" /\ h.query_clients[c] <= r.query_clients[c]
      BY <3>1, <3>2 DEF Proper, Onward, Advances
    <3>4. r.query_clients[c] = 0
      BY <2>2, <3>3
    <3> HIDE DEF h
    <3>5. h.query_clients[c] \in 0 .. MaxLast
      BY <2>7 DEF Manager
    <3> QED
      BY <3>3, <3>4, <3>5
  <2> QED
    BY <2>7, <2>8, <2>9
<1> QED
  BY <1>1, <1>2

\* An objection of a client of the store, which adds one inhibitor for it.
LEMMA Objection ==
  ASSUME NEW m \in Manager, Orderly(m), NEW c \in Clients, c \in m.clients,
         m.jit[c] < MaxJit
  PROVE  /\ HandleResponse(m, c, FALSE, FALSE) \in Manager
         /\ Orderly(HandleResponse(m, c, FALSE, FALSE))
         /\ Advances(m, HandleResponse(m, c, FALSE, FALSE))
<1> DEFINE h == HandleResponse(m, c, FALSE, FALSE)
           r == [m EXCEPT !.query_clients[c] = IF @ > 0 THEN @ - 1 ELSE 0]
           o == [r EXCEPT !.jit[c] = @ + 1]
<1>1. CASE m.phase = "RUNNING" \/ m.logout_mode = "FORCE"
  <2>1. h = HandleResponse(m, c, TRUE, FALSE)
    BY <1>1 DEF HandleResponse
  <2> QED
    BY <2>1, PositiveResponse
<1>2. CASE m.phase # "RUNNING" /\ m.logout_mode # "FORCE"
  <2>1. h = AfterResponse(o, c, FALSE)
    BY <1>2 DEF HandleResponse, Manager
  <2>2. r \in Manager /\ r.jit = m.jit /\ r.phase = m.phase
    BY DEF Manager
  <2>3. r.jit[c] + 1 \in 0 .. MaxJit
    BY <2>2 DEF Manager, MaxJit
  <2>4. o \in Manager
    BY <2>2, <2>3 DEF Manager
  <2>5. Orderly(o)
    BY <1>2 DEF Orderly, Manager, Empty, MaxJit
  <2>6. Advances(m, o)
    BY DEF Advances, Manager
  <2>7. h \in Manager /\ Orderly(h) /\ Advances(o, h)
    BY <2>1, <2>4, <2>5, AfterResponseProper
  <2> QED
    BY <2>6, <2>7, AdvancesTransitive
<1> QED
  BY <1>1, <1>2

\* A client that leaves is neither awaited in the query phase any more nor does
\* it leave an inhibitor behind.
LEMMA DisconnectClientProper ==
  ASSUME NEW m \in Manager, Orderly(m), NEW c \in Clients
  PROVE  /\ Proper(m, DisconnectClient(m, c))
         /\ DisconnectClient(m, c).jit[c] = 0
         /\ DisconnectClient(m, c).phase = "QUERY_END_SESSION"
              => DisconnectClient(m, c).query_clients[c] = 0
<1> DEFINE r == RemoveJit(m, c)
           h == HandleResponse(r, c, TRUE, FALSE)
<1>1. Proper(m, r) /\ r.jit[c] = 0
  BY RemoveJitProper
<1>2. /\ Proper(r, h)
      /\ h.phase = "QUERY_END_SESSION" => h.query_clients[c] = 0
  BY <1>1, PositiveResponse DEF Proper
<1>3. Proper(m, h)
  BY <1>1, <1>2, ProperTransitive
<1> HIDE DEF r, h
<1>4. h.jit[c] = 0
  <2>1. h \in Manager /\ h.jit[c] <= r.jit[c]
    BY <1>2 DEF Proper, Onward
  <2>2. h.jit[c] \in 0 .. MaxJit
    BY <2>1 DEF Manager
  <2> QED
    BY <1>1, <2>1, <2>2 DEF MaxJit
<1>5. DisconnectClient(m, c) = IF \/ r.phase = "QUERY_END_SESSION"
                                  \/ r.phase = "END_SESSION" /\ r.query_clients[c] > 0
                               THEN h ELSE r
  BY DEF DisconnectClient, r, h
<1> QED
  BY <1>1, <1>2, <1>3, <1>4, <1>5

\* The client store loses exactly c, and the session moves on as far as a
\* SessionLifecycle step may take it.
LEMMA OnClientDisconnectedKeeps ==
  ASSUME NEW m \in Manager, Orderly(m), NEW c \in Clients
  PROVE  /\ OnClientDisconnected(m, c) \in Manager
         /\ Orderly(OnClientDisconnected(m, c))
         /\ OnClientDisconnected(m, c).clients = m.clients \ {c}
         /\ Advances([m EXCEPT !.clients = @ \ {c}], OnClientDisconnected(m, c))
<1> DEFINE r == DisconnectClient(m, c)
           s == [r EXCEPT !.clients = @ \ {c}]
           o == OnClientDisconnected(m, c)
           k == [m EXCEPT !.clients = @ \ {c}]
<1>1. /\ Proper(m, r) /\ r.jit[c] = 0
      /\ r.phase = "QUERY_END_SESSION" => r.query_clients[c] = 0
  BY DisconnectClientProper
<1> HIDE DEF r
<1>2. s \in Manager /\ s.phase = r.phase /\ s.clients = r.clients \ {c}
  BY <1>1 DEF Proper, Manager
<1>3. Orderly(s)
  BY <1>1 DEF Proper, Orderly, Manager, MaxJit
<1>4. Advances(k, s)
  BY <1>1 DEF Proper, Onward, Advances, Manager
<1>5. r.phase # "RUNNING" => Proper(s, EndPhase(s))
  BY <1>2, <1>3, EndPhaseProper
<1>6. o = IF r.phase # "RUNNING" /\ s.clients = {} THEN EndPhase(s) ELSE s
  BY DEF OnClientDisconnected, r
<1>7. o \in Manager /\ Orderly(o) /\ Advances(s, o)
  BY <1>2, <1>3, <1>5, <1>6, OnwardReflexive DEF Proper, Onward
<1>8. Advances(k, o)
  BY <1>4, <1>7, AdvancesTransitive
<1>9. k.clients = m.clients \ {c}
  BY DEF Manager
<1> QED
  BY <1>7, <1>8, <1>9 DEF Advances

\* The query phase starts with one question for every client, as long as no
\* inhibitor is left over that was made for a client.
LEMMA StartQueryOrderly ==
  ASSUME NEW m \in Manager, m.jit = Empty
  PROVE  LET q == StartQueryEndSession(m)
         IN /\ q \in Manager /\ Orderly(q)
            /\ q.phase = "QUERY_END_SESSION" /\ q.clients = m.clients /\ q.tasks = m.tasks
<1> DEFINE q == StartQueryEndSession(m)
<1>1. q \in Manager
  BY ResetPhaseType, Lists DEF StartQueryEndSession, Manager, Phases
<1>2. Orderly(q)
  BY DEF StartQueryEndSession, ResetPhase, Orderly, Manager, Once, Empty
<1>3. q.phase = "QUERY_END_SESSION" /\ q.clients = m.clients /\ q.tasks = m.tasks
  BY DEF StartQueryEndSession, ResetPhase, Manager
<1> QED
  BY <1>1, <1>2, <1>3

-----------------------------------------------------------------------------
(* The invariant of the whole state, and what a step does to the session.  *)

IInv == TypeOK /\ Orderly(mgr)

\* What a callback may do to the session as a whole: move it on, begin a logout
\* (with or without a caller who waits), take on one more caller, let a client
\* in, or lose one and move on.
SessionStep ==
  \/ Advances(mgr, mgr')
  \/ /\ mgr.phase = "RUNNING" /\ mgr'.phase = "QUERY_END_SESSION"
     /\ mgr'.clients = mgr.clients
     /\ mgr'.tasks \in {mgr.tasks, mgr.tasks + 1}
  \/ /\ mgr.phase \in {"QUERY_END_SESSION", "END_SESSION"}
     /\ mgr.phase = "END_SESSION" => mgr'.phase # "END_SESSION"
     /\ Advances([mgr EXCEPT !.tasks = @ + 1], mgr')
  \/ \E c \in Clients : /\ mgr.phase = "RUNNING"
                        /\ mgr' = [mgr EXCEPT !.clients = @ \cup {c}]
  \/ \E c \in mgr.clients : /\ Advances([mgr EXCEPT !.clients = @ \ {c}], mgr')
                            /\ mgr'.clients = mgr.clients \ {c}

\* Good(m) for the manager record after a step.
Good == mgr' \in Manager /\ Orderly(mgr') /\ SessionStep

\* A callback that is a proper call is a step the theorems allow.
LEMMA ProperIsGood ==
  ASSUME IInv, Proper(mgr, mgr')
  PROVE  Good /\ mgr'.clients = mgr.clients
BY DEF Proper, Onward, Good, SessionStep, Advances

\* end_phase() of RUNNING, for a request that has set the logout type or mode.
LEMMA EndPhaseOfRunning ==
  ASSUME IInv, NEW m \in Manager, m.phase = "RUNNING", m.jit = Empty,
         m.clients = mgr.clients, mgr.phase = "RUNNING", ~locked,
         m.tasks \in {mgr.tasks, mgr.tasks + 1}, mgr' = EndPhase(m)
  PROVE  Good /\ mgr'.clients = mgr.clients
<1>1. mgr' = StartQueryEndSession(m)
  BY DEF EndPhase
<1>2. /\ mgr' \in Manager /\ Orderly(mgr') /\ mgr'.phase = "QUERY_END_SESSION"
      /\ mgr'.clients = m.clients /\ mgr'.tasks = m.tasks
  BY <1>1, StartQueryOrderly
<1> QED
  BY <1>2 DEF Good, SessionStep

\* Logout() starts a query, or moves on the one that is under way.
LEMMA LogoutGood ==
  ASSUME IInv, NEW mode \in Modes, Logout(mode)
  PROVE  Good /\ mgr'.clients = mgr.clients
<1> DEFINE m == [mgr EXCEPT !.logout_mode = mode]
           n == [m EXCEPT !.logout_type = "LOGOUT"]
<1>1. mgr \in Manager /\ Orderly(mgr)
  BY DEF IInv, TypeOK
<1>2. CASE mgr.phase = "RUNNING"
  <2>1. n \in Manager /\ n.phase = "RUNNING" /\ n.jit = mgr.jit /\ n.clients = mgr.clients
        /\ n.tasks = mgr.tasks
    BY <1>1, <1>2 DEF Manager, Types
  <2>2. n.jit = Empty
    BY <1>1, <1>2, <2>1 DEF Orderly
  <2>3. mgr' = EndPhase(n) /\ ~locked
    BY <1>2 DEF Logout
  <2> HIDE DEF n
  <2> QED
    BY <1>2, <2>1, <2>2, <2>3, EndPhaseOfRunning
<1>3. CASE mgr.phase # "RUNNING"
  <2>1. m \in Manager /\ m.phase = mgr.phase
    BY <1>1 DEF Manager
  <2>2. Orderly(m)
    BY <1>1 DEF Orderly, Manager
  <2>3. Onward(mgr, m)
    BY <1>1 DEF Onward, Advances, Manager, MaxJit
  <2>4. Proper(mgr, m)
    BY <2>1, <2>2, <2>3 DEF Proper
  <2>5. mgr' = EndSessionOrShowDialog(m)
    BY <1>3 DEF Logout
  <2>6. Proper(m, mgr')
    BY <1>3, <2>1, <2>2, <2>5, EndSessionOrShowDialogProper
  <2> QED
    BY <1>1, <2>4, <2>6, ProperTransitive, ProperIsGood
<1> QED
  BY <1>2, <1>3

\* Shutdown() and Reboot() leave their caller waiting, or answer it at once.
LEMMA ShutdownGood ==
  ASSUME IInv, Shutdown
  PROVE  Good /\ mgr'.clients = mgr.clients
<1> DEFINE t == [mgr EXCEPT !.tasks = @ + 1]
           m == [mgr EXCEPT !.tasks = @ + 1, !.logout_type = "SHUTDOWN"]
<1>1. /\ mgr \in Manager /\ Orderly(mgr) /\ ~locked /\ mgr.tasks < MaxTasks
      /\ mgr.phase # "EXIT" /\ mgr' = EndPhase(m)
  BY DEF IInv, TypeOK, Shutdown, Dispatching
<1>2. mgr.tasks + 1 \in 0 .. MaxTasks
  BY <1>1 DEF Manager
<1>3. m \in Manager /\ m.phase = mgr.phase /\ m.jit = mgr.jit
      /\ m.clients = mgr.clients /\ m.tasks = mgr.tasks + 1
  BY <1>1, <1>2 DEF Manager, Types
<1>4. t.phase = mgr.phase /\ t.clients = mgr.clients /\ t.tasks = mgr.tasks + 1
  BY <1>1 DEF Manager
<1>5. CASE mgr.phase = "RUNNING"
  <2>1. m.jit = Empty
    BY <1>1, <1>3, <1>5 DEF Orderly
  <2> HIDE DEF m
  <2> QED
    BY <1>1, <1>3, <1>5, <2>1, EndPhaseOfRunning
<1>6. CASE mgr.phase = "QUERY_END_SESSION"
  <2>1. Orderly(m)
    BY <1>1, <1>6 DEF Orderly, Manager
  <2> HIDE DEF m
  <2>2. Proper(m, mgr')
    BY <1>1, <1>3, <1>6, <2>1, EndPhaseProper
  <2>3. Advances(t, mgr')
    BY <1>3, <1>4, <2>2 DEF Proper, Onward, Advances
  <2> HIDE DEF t
  <2> QED
    BY <1>3, <1>6, <2>2, <2>3 DEF Proper, Onward, Advances, Good, SessionStep, t
<1>7. CASE mgr.phase = "END_SESSION"
  <2>1. mgr' = StartExit(m)
    BY <1>1, <1>3, <1>7 DEF EndPhase
  <2>2. mgr' \in Manager
    BY <1>3, <2>1, ResetPhaseType DEF StartExit, Manager, Phases
  <2>3. Orderly(mgr')
    BY <1>1, <1>7, <2>1 DEF Orderly, StartExit, ResetPhase, Manager
  <2>4. mgr'.phase = "EXIT" /\ mgr'.clients = mgr.clients /\ mgr'.tasks = mgr.tasks + 1
    BY <1>1, <2>1 DEF StartExit, ResetPhase, Manager
  <2>5. Advances(t, mgr')
    BY <1>4, <1>7, <2>4 DEF Advances
  <2> QED
    BY <1>7, <2>2, <2>3, <2>4, <2>5 DEF Good, SessionStep
<1> QED
  BY <1>1, <1>5, <1>6, <1>7 DEF Manager, Phases

\* A confirmed dialog starts a query or ends the one that is under way.
LEMMA DialogConfirmedGood ==
  ASSUME IInv, NEW type \in {"LOGOUT", "SHUTDOWN"}, DialogConfirmed(type)
  PROVE  Good /\ mgr'.clients = mgr.clients
<1> DEFINE m == [mgr EXCEPT !.logout_mode = "FORCE", !.logout_type = type]
           e == IF mgr.phase = "END_SESSION" THEN mgr ELSE EndPhase(m)
<1>1. /\ mgr \in Manager /\ Orderly(mgr) /\ mgr.phase # "EXIT"
      /\ mgr' = [e EXCEPT !.dialog_signals = FALSE]
  BY DEF IInv, TypeOK, DialogConfirmed, Dispatching
<1>2. /\ m \in Manager /\ m.phase = mgr.phase /\ m.jit = mgr.jit
      /\ m.clients = mgr.clients /\ m.tasks = mgr.tasks
  BY <1>1 DEF Manager, Modes, Types
<1>3. Orderly(m) /\ Onward(mgr, m)
  BY <1>1 DEF Orderly, Onward, Advances, Manager, MaxJit
<1>4. Proper(mgr, m)
  BY <1>2, <1>3 DEF Proper
<1> HIDE DEF m
<1>5. /\ e \in Manager /\ Orderly(e) /\ e.clients = mgr.clients
      /\ \/ Advances(mgr, e)
         \/ /\ mgr.phase = "RUNNING" /\ e.phase = "QUERY_END_SESSION"
            /\ e.tasks = mgr.tasks
  <2>1. CASE mgr.phase = "RUNNING" /\ ~locked
    <3>1. e = StartQueryEndSession(m)
      BY <1>2, <2>1 DEF EndPhase
    <3>2. m.jit = Empty
      BY <1>1, <1>2, <2>1 DEF Orderly
    <3> QED
      BY <1>2, <2>1, <3>1, <3>2, StartQueryOrderly
  <2>2. CASE mgr.phase = "RUNNING" /\ locked
    <3>1. e = ResetPhase(m)
      BY <1>2, <2>2 DEF EndPhase
    <3>2. e \in Manager
      BY <1>2, <3>1, ResetPhaseType
    <3>3. Orderly(e)
      BY <1>2, <1>3, <2>2, <3>1 DEF Orderly, ResetPhase, Manager, Empty
    <3>4. e.clients = mgr.clients /\ Advances(mgr, e)
      BY <1>2, <3>1 DEF Advances, ResetPhase, Manager
    <3> QED
      BY <3>2, <3>3, <3>4
  <2>3. CASE mgr.phase = "END_SESSION"
    BY <1>1, <2>3 DEF Advances
  <2>4. CASE mgr.phase = "QUERY_END_SESSION"
    <3>1. Proper(mgr, e)
      BY <1>1, <1>2, <1>3, <1>4, <2>4, EndPhaseProper, ProperTransitive
    <3> QED
      BY <3>1 DEF Proper, Onward, Advances
  <2> QED
    BY <1>1, <2>1, <2>2, <2>3, <2>4 DEF Manager, Phases
<1> HIDE DEF e
<1>6. mgr' \in Manager /\ mgr'.phase = e.phase /\ mgr'.clients = e.clients
      /\ mgr'.tasks = e.tasks
  BY <1>1, <1>5 DEF Manager
<1>7. Orderly(mgr')
  BY <1>1, <1>5 DEF Orderly, Manager
<1> QED
  BY <1>5, <1>6, <1>7 DEF Good, SessionStep, Advances

\* A cancelled dialog brings the session back to RUNNING.
LEMMA DialogCanceledGood ==
  ASSUME IInv, DialogCanceled
  PROVE  Good /\ mgr'.clients = mgr.clients
<1> DEFINE m == CancelEndSession(mgr)
<1>1. /\ mgr \in Manager /\ Orderly(mgr) /\ mgr.phase # "EXIT"
      /\ mgr' = [m EXCEPT !.dialog_signals = FALSE]
  BY DEF IInv, TypeOK, DialogCanceled, Dispatching
<1>2. Proper(mgr, m)
  BY <1>1, CancelEndSessionProper
<1> HIDE DEF m
<1>3. mgr' \in Manager
  BY <1>1, <1>2 DEF Proper, Manager
<1>4. Orderly(mgr') /\ Onward(m, mgr')
  BY <1>1, <1>2 DEF Proper, Orderly, Onward, Advances, Manager, MaxJit
<1>5. Proper(m, mgr')
  BY <1>3, <1>4 DEF Proper
<1> QED
  BY <1>1, <1>2, <1>5, ProperTransitive, ProperIsGood

\* The manager's record when the query timer has fired, before anything follows
\* from it: whoever has not answered has an inhibitor, unless FORCE.
TimedOut ==
  LET m == [mgr EXCEPT !.query_timeout = FALSE, !.query_clients = Empty]
  IN IF mgr.logout_mode = "FORCE" THEN m
     ELSE [m EXCEPT !.jit = [c \in Clients |-> mgr.jit[c] + mgr.query_clients[c]]]

\* The sum of a client's inhibitors and its open questions stays in range,
\* because a client that has objected has no open question.
LEMMA TimedOutState ==
  ASSUME IInv, QueryTimeout
  PROVE  /\ mgr.phase = "QUERY_END_SESSION" /\ mgr' = EndSessionOrShowDialog(TimedOut)
         /\ TimedOut \in Manager /\ Orderly(TimedOut)
         /\ TimedOut.phase = mgr.phase /\ TimedOut.clients = mgr.clients
         /\ TimedOut.tasks = mgr.tasks /\ TimedOut.logout_mode = mgr.logout_mode
         /\ TimedOut.logout_type = mgr.logout_type /\ TimedOut.query_clients = Empty
         /\ TimedOut.next_query_clients = mgr.next_query_clients
         /\ mgr.logout_mode = "FORCE" => TimedOut.jit = mgr.jit
<1> DEFINE m == [mgr EXCEPT !.query_timeout = FALSE, !.query_clients = Empty]
           j == [c \in Clients |-> mgr.jit[c] + mgr.query_clients[c]]
           n == IF mgr.logout_mode = "FORCE" THEN m ELSE [m EXCEPT !.jit = j]
<1>1. /\ mgr \in Manager /\ Orderly(mgr) /\ mgr.phase = "QUERY_END_SESSION"
      /\ mgr' = EndSessionOrShowDialog(n)
  BY DEF IInv, TypeOK, QueryTimeout, Orderly
<1>2. n = TimedOut
  BY DEF TimedOut
<1>3. m \in Manager
  BY <1>1, Lists DEF Manager
<1>4. ASSUME NEW c \in Clients
      PROVE  j[c] \in 0 .. MaxJit /\ (j[c] > 0 => c \in mgr.clients)
  <2>1. mgr.jit[c] \in 0 .. MaxJit /\ mgr.query_clients[c] \in 0 .. MaxLast
    BY <1>1 DEF Manager
  <2>2. /\ mgr.query_clients[c] > 0
             => mgr.query_clients[c] = 1 /\ c \in mgr.clients /\ mgr.jit[c] = 0
        /\ mgr.jit[c] > 0 => c \in mgr.clients
    BY <1>1 DEF Orderly
  <2>3. j[c] = mgr.jit[c] + mgr.query_clients[c]
    OBVIOUS
  <2> HIDE DEF j
  <2> QED
    BY <2>1, <2>2, <2>3 DEF MaxJit
<1>5. j \in [Clients -> 0 .. MaxJit]
  BY <1>4
<1> HIDE DEF j
<1>6. n \in Manager
  BY <1>1, <1>3, <1>5 DEF Manager
<1>7. /\ n.phase = mgr.phase /\ n.clients = mgr.clients /\ n.tasks = mgr.tasks
      /\ n.logout_mode = mgr.logout_mode /\ n.logout_type = mgr.logout_type
      /\ n.query_clients = Empty /\ n.next_query_clients = mgr.next_query_clients
      /\ n.jit = IF mgr.logout_mode = "FORCE" THEN mgr.jit ELSE j
      /\ n.accepting = mgr.accepting /\ n.phase_timeout = mgr.phase_timeout
      /\ ~n.query_timeout
  BY <1>1, <1>5 DEF Manager
<1> HIDE DEF n
<1>8. Orderly(n)
  <2>1. \A c \in Clients : n.jit[c] > 0 => c \in n.clients
    BY <1>1, <1>4, <1>7 DEF Orderly
  <2>2. \A c \in Clients : ~(n.query_clients[c] > 0)
    BY <1>7 DEF Empty
  <2> QED
    BY <1>1, <1>7, <2>1, <2>2 DEF Orderly
<1> QED
  BY <1>1, <1>2, <1>6, <1>7, <1>8

\* The query timeout keeps the invariant and moves the session only onward.
LEMMA QueryTimeoutGood ==
  ASSUME IInv, QueryTimeout
  PROVE  Good /\ mgr'.clients = mgr.clients
<1>1. Proper(TimedOut, mgr')
  BY TimedOutState, EndSessionOrShowDialogProper
<1> QED
  BY <1>1, TimedOutState DEF Proper, Onward, Advances, Good, SessionStep

\* The phase timer fires in END_SESSION only, and ends it.
LEMMA PhaseTimeoutGood ==
  ASSUME IInv, PhaseTimeout
  PROVE  Good /\ mgr'.clients = mgr.clients
<1>1. mgr \in Manager /\ Orderly(mgr) /\ mgr.phase = "END_SESSION"
      /\ mgr' = EndPhase(mgr)
  BY DEF IInv, TypeOK, PhaseTimeout, Orderly
<1> QED
  BY <1>1, EndPhaseProper, ProperIsGood

\* No answer of a client, asked for or not, breaks the invariant.
LEMMA ClientAnswersGood ==
  ASSUME IInv, NEW c \in Clients,
         \/ \E is_ok \in BOOLEAN : EndSessionResponse(c, is_ok)
         \/ SaveYourselfDone(c)
         \/ Phase2Request(c)
         \/ InteractRequest(c)
         \/ \E cancel_shutdown \in BOOLEAN : InteractDone(c, cancel_shutdown)
  PROVE  Good /\ mgr'.clients = mgr.clients
<1>1. mgr \in Manager /\ Orderly(mgr)
  BY DEF IInv, TypeOK
<1>2. CASE mgr' = HandleResponse(mgr, c, TRUE, FALSE)
  BY <1>1, <1>2, PositiveResponse, ProperIsGood
<1>3. CASE /\ mgr' = HandleResponse(mgr, c, TRUE, TRUE)
           /\ mgr.next_query_clients[c] < MaxLast
  <2>1. mgr' \in Manager /\ Orderly(mgr') /\ Advances(mgr, mgr')
    BY <1>1, <1>3, PositiveResponse
  <2> QED
    BY <2>1 DEF Good, SessionStep, Advances
<1>4. CASE /\ mgr' = HandleResponse(mgr, c, FALSE, FALSE)
           /\ mgr.jit[c] < MaxJit /\ c \in mgr.clients
  <2>1. mgr' \in Manager /\ Orderly(mgr') /\ Advances(mgr, mgr')
    BY <1>1, <1>4, Objection
  <2> QED
    BY <2>1 DEF Good, SessionStep, Advances
<1>5. CASE mgr' = CancelEndSession(mgr) /\ mgr.phase # "EXIT"
  BY <1>1, <1>5, CancelEndSessionProper, ProperIsGood
<1> QED
  BY <1>2, <1>3, <1>4, <1>5 DEF EndSessionResponse, SaveYourselfDone, Phase2Request,
     InteractRequest, InteractDone, Speaking, Dispatching

\* A client that joins a running session has no question, inhibitor or list entry.
LEMMA ClientJoinsGood ==
  ASSUME IInv, NEW c \in Clients, RegisterClient(c) \/ XsmpClientConnects(c)
  PROVE  Good /\ mgr'.clients = mgr.clients \cup {c}
<1>1. /\ mgr \in Manager /\ Orderly(mgr) /\ mgr.phase = "RUNNING"
      /\ mgr' = [mgr EXCEPT !.clients = @ \cup {c}]
  BY DEF IInv, TypeOK, RegisterClient, XsmpClientConnects, Orderly
<1>2. mgr' \in Manager /\ mgr'.clients = mgr.clients \cup {c}
  BY <1>1 DEF Manager
<1>3. Orderly(mgr')
  BY <1>1 DEF Orderly, Manager, Empty
<1> QED
  BY <1>1, <1>2, <1>3 DEF Good, SessionStep

\* A client that leaves takes its inhibitors and its open questions along.
LEMMA ClientLeavesGood ==
  ASSUME IInv, NEW c \in mgr.clients, mgr' = OnClientDisconnected(mgr, c)
  PROVE  Good /\ mgr'.clients = mgr.clients \ {c}
<1>1. mgr \in Manager /\ Orderly(mgr) /\ c \in Clients
  BY DEF IInv, TypeOK, Manager
<1> QED
  BY <1>1, OnClientDisconnectedKeeps DEF Good, SessionStep

\* Taking or releasing an inhibitor, in whatever phase, keeps the invariant.
LEMMA InhibitorsGood ==
  ASSUME IInv,
         \/ \E c \in Clients : JitVanished(c)
         \/ \E k \in Cookies, flags \in {"logout", "other"} : Inhibit(k, flags)
         \/ \E k \in Cookies : Uninhibit(k)
  PROVE  Good /\ mgr'.clients = mgr.clients
<1>1. mgr \in Manager /\ Orderly(mgr)
  BY DEF IInv, TypeOK
<1>2. ASSUME NEW m, Proper(mgr, m), mgr' = m \/ mgr' = OnInhibitorRemoved(m)
      PROVE  Good /\ mgr'.clients = mgr.clients
  <2>1. Proper(mgr, OnInhibitorRemoved(m))
    BY <1>1, <1>2, OnInhibitorRemovedProper, ProperTransitive DEF Proper
  <2> QED
    BY <1>2, <2>1, ProperIsGood
<1>3. ASSUME NEW c \in Clients, JitVanished(c)
      PROVE  Good /\ mgr'.clients = mgr.clients
  <2> DEFINE m == [mgr EXCEPT !.jit[c] = @ - 1]
  <2>1. mgr.jit[c] > 0 /\ mgr' = OnInhibitorRemoved(m)
    BY <1>3 DEF JitVanished
  <2>2. m \in Manager
    BY <1>1, <2>1 DEF Manager, MaxJit
  <2>3. Orderly(m)
    BY <1>1, <2>1 DEF Orderly, Manager, MaxJit, Empty
  <2>4. Onward(mgr, m)
    BY <1>1 DEF Onward, Advances, Manager, MaxJit
  <2> QED
    BY <1>2, <2>1, <2>2, <2>3, <2>4 DEF Proper
<1>4. ASSUME NEW k \in Cookies, NEW f \in Flags
      PROVE  Proper(mgr, [mgr EXCEPT !.inhibitors[k] = f])
  <2> DEFINE m == [mgr EXCEPT !.inhibitors[k] = f]
  <2>1. m \in Manager
    BY <1>1 DEF Manager
  <2>2. Orderly(m) /\ Onward(mgr, m)
    BY <1>1 DEF Orderly, Onward, Advances, Manager, MaxJit
  <2> QED
    BY <2>1, <2>2 DEF Proper
<1>5. "none" \in Flags /\ "logout" \in Flags /\ "other" \in Flags
  BY DEF Flags
<1> QED
  BY <1>2, <1>3, <1>4, <1>5 DEF Inhibit, Uninhibit

\* Whatever logind answers, and whenever it does, keeps the invariant.
LEMMA LogindGood ==
  ASSUME IInv,
         PrepareForShutdown \/ \E success \in BOOLEAN : RebootOrPoweroffDone(success)
  PROVE  Good /\ mgr'.clients = mgr.clients
<1>1. mgr \in Manager /\ Orderly(mgr) /\ mgr.phase # "EXIT"
  BY DEF IInv, TypeOK, PrepareForShutdown, RebootOrPoweroffDone, Dispatching
<1>2. ASSUME PrepareForShutdown
      PROVE  Good /\ mgr'.clients = mgr.clients
  <2> DEFINE m == OnShutdownPrepared(mgr, TRUE)
  <2>1. Proper(mgr, m) /\ mgr' = [m EXCEPT !.shutdown_expected = FALSE]
    BY <1>1, <1>2, OnShutdownPreparedProper DEF PrepareForShutdown
  <2> HIDE DEF m
  <2>2. mgr' \in Manager
    BY <2>1 DEF Proper, Manager
  <2>3. Orderly(mgr') /\ Onward(m, mgr')
    BY <2>1 DEF Proper, Orderly, Onward, Advances, Manager, MaxJit
  <2>4. Proper(m, mgr')
    BY <2>2, <2>3 DEF Proper
  <2> QED
    BY <1>1, <2>1, <2>4, ProperTransitive, ProperIsGood
<1>3. ASSUME NEW success \in BOOLEAN, RebootOrPoweroffDone(success)
      PROVE  Good /\ mgr'.clients = mgr.clients
  <2> DEFINE m == [mgr EXCEPT !.logind_calls = @ - 1]
             n == [m EXCEPT !.shutdown_expected = FALSE]
  <2>1. /\ mgr.logind_calls > 0
        /\ mgr' = IF success THEN m ELSE OnShutdownPrepared(n, FALSE)
    BY <1>3 DEF RebootOrPoweroffDone
  <2>2. m \in Manager
    BY <1>1, <2>1 DEF Manager
  <2>3. n \in Manager
    BY <2>2 DEF Manager
  <2>4. Orderly(m) /\ Orderly(n) /\ Onward(mgr, m) /\ Onward(mgr, n)
        /\ n.phase = mgr.phase
    BY <1>1 DEF Orderly, Onward, Advances, Manager, MaxJit
  <2>5. Proper(mgr, m) /\ Proper(mgr, n)
    BY <2>2, <2>3, <2>4 DEF Proper
  <2>6. Proper(mgr, OnShutdownPrepared(n, FALSE))
    BY <1>1, <2>3, <2>4, <2>5, OnShutdownPreparedProper, ProperTransitive
  <2> QED
    BY <2>1, <2>5, <2>6, ProperIsGood
<1> QED
  BY <1>2, <1>3

\* Steps that do not touch the manager, or only let it crash.
LEMMA OtherStepsGood ==
  ASSUME IInv, mgr' = mgr \/ mgr' = [mgr EXCEPT !.fault = "crashed"]
  PROVE  Good /\ mgr'.clients = mgr.clients
<1>1. mgr \in Manager /\ Orderly(mgr)
  BY DEF IInv, TypeOK
<1>2. mgr' \in Manager
  BY <1>1 DEF Manager, Faults
<1>3. Orderly(mgr') /\ Onward(mgr, mgr')
  BY <1>1 DEF Orderly, Onward, Advances, Manager, MaxJit
<1> QED
  BY <1>2, <1>3, ProperIsGood DEF Proper

\* What a step does to the variables that remember clients.
Remembered ==
  /\ unregistered' \subseteq XsmpClients \cap mgr'.clients
  /\ gone' \subseteq mgr'.clients \cap (DBusClients \cup unregistered')
  /\ interacting' \subseteq XsmpClients
  /\ <<locked', shellRunning', logindUp'>> \in BOOLEAN \X BOOLEAN \X BOOLEAN

\* Every step keeps the invariant, and does to the session what it may.
LEMMA StepGood ==
  ASSUME IInv, [Next]_vars
  PROVE  Good /\ Remembered
<1> USE DEF IInv, TypeOK, Remembered
<1>1. CASE UNCHANGED vars
  BY <1>1, OtherStepsGood DEF vars
<1>2. CASE UserSteps
  <2>1. ASSUME NEW mode \in Modes, Logout(mode)
        PROVE  Good /\ Remembered
    BY <2>1, LogoutGood DEF Logout, env
  <2>2. CASE Shutdown
    BY <2>2, ShutdownGood DEF Shutdown, env
  <2>3. ASSUME NEW type \in {"LOGOUT", "SHUTDOWN"}, DialogConfirmed(type)
        PROVE  Good /\ Remembered
    BY <2>3, DialogConfirmedGood DEF DialogConfirmed, env
  <2>4. CASE DialogCanceled
    BY <2>4, DialogCanceledGood DEF DialogCanceled, env
  <2>5. CASE EnvironmentChanges
    BY <2>5, OtherStepsGood DEF EnvironmentChanges
  <2> QED
    BY <1>2, <2>1, <2>2, <2>3, <2>4, <2>5 DEF UserSteps
<1>3. ASSUME NEW c \in DBusClients, RegisterClient(c)
      PROVE  Good /\ Remembered
  BY <1>3, ClientJoinsGood DEF RegisterClient, env, Clients
<1>4. ASSUME NEW c \in XsmpClients, XsmpClientConnects(c)
      PROVE  Good /\ Remembered
  BY <1>4, ClientJoinsGood DEF XsmpClientConnects, Clients
<1>5. ASSUME NEW c \in Clients,
             \/ \E is_ok \in BOOLEAN : EndSessionResponse(c, is_ok)
             \/ SaveYourselfDone(c)
             \/ Phase2Request(c)
             \/ c \in XsmpClients /\ InteractRequest(c)
             \/ \E cancel_shutdown \in BOOLEAN : InteractDone(c, cancel_shutdown)
      PROVE  Good /\ Remembered
  <2>1. Good /\ mgr'.clients = mgr.clients
    BY <1>5, ClientAnswersGood
  <2>2. /\ UNCHANGED <<unregistered, gone, locked, shellRunning, logindUp>>
        /\ interacting' \subseteq XsmpClients
    BY <1>5 DEF EndSessionResponse, SaveYourselfDone, Phase2Request, InteractRequest,
       InteractDone, env
  <2> QED
    BY <2>1, <2>2
<1>6. ASSUME NEW c \in DBusClients, ClientLeavesBus(c)
      PROVE  Good /\ Remembered
  BY <1>6, OtherStepsGood DEF ClientLeavesBus, Speaking
<1>7. ASSUME NEW c \in DBusClients, OnClientVanished(c)
      PROVE  Good /\ Remembered
  <2>1. c \in gone /\ c \in mgr.clients /\ c \notin XsmpClients
    BY <1>7, ClientsAssumption DEF OnClientVanished
  <2>2. Good /\ mgr'.clients = mgr.clients \ {c}
    BY <1>7, <2>1, ClientLeavesGood DEF OnClientVanished
  <2> QED
    BY <1>7, <2>1, <2>2 DEF OnClientVanished
<1>8. ASSUME NEW c \in DBusClients, JitVanished(c)
      PROVE  Good /\ Remembered
  BY <1>8, InhibitorsGood DEF JitVanished, env, Clients
<1>9. ASSUME NEW c \in XsmpClients, XsmpClientRegisters(c)
      PROVE  Good /\ Remembered
  BY <1>9, OtherStepsGood DEF XsmpClientRegisters
<1>10. ASSUME NEW c \in XsmpClients, UnregisteredClientBreaks(c)
       PROVE  Good /\ Remembered
  BY <1>10, OtherStepsGood DEF UnregisteredClientBreaks
<1>11. ASSUME NEW c \in XsmpClients, XsmpClientDisconnects(c)
       PROVE  Good /\ Remembered
  <2>1. c \in mgr.clients /\ c \notin gone /\ c \notin unregistered
    BY <1>11 DEF XsmpClientDisconnects, Speaking
  <2>2. Good /\ mgr'.clients = mgr.clients \ {c}
    BY <1>11, <2>1, ClientLeavesGood DEF XsmpClientDisconnects
  <2> QED
    BY <1>11, <2>1, <2>2 DEF XsmpClientDisconnects
<1>12. CASE ApplicationSteps
  BY <1>12, InhibitorsGood DEF ApplicationSteps, Inhibit, Uninhibit, env
<1>13. CASE LogindSteps
  BY <1>13, LogindGood DEF LogindSteps, PrepareForShutdown, RebootOrPoweroffDone, env
<1>14. CASE TimerSteps
  BY <1>14, QueryTimeoutGood, PhaseTimeoutGood DEF TimerSteps, QueryTimeout,
     PhaseTimeout, env
<1>15. CASE CrashAfterFreedAccess
  BY <1>15, OtherStepsGood DEF CrashAfterFreedAccess, env
<1>16. CASE DBusClientSteps
  BY <1>3, <1>5, <1>6, <1>7, <1>8, <1>16 DEF DBusClientSteps, Clients
<1>17. CASE XsmpClientSteps
  BY <1>4, <1>5, <1>9, <1>10, <1>11, <1>17 DEF XsmpClientSteps, Clients
<1> QED
  BY <1>1, <1>2, <1>12, <1>13, <1>14, <1>15, <1>16, <1>17 DEF Next

-----------------------------------------------------------------------------
(* The theorems.                                                           *)

\* The inductive invariant holds in every reachable state.
THEOREM Invariant == Spec => []IInv
<1>1. Init => IInv
  BY Lists DEF Init, IInv, TypeOK, Manager, Orderly, Phases, Modes, Types, Flags, Faults,
     Empty, MaxJit
<1>2. IInv /\ [Next]_vars => IInv'
  BY StepGood DEF IInv, TypeOK, Good, Remembered
<1> QED
  BY <1>1, <1>2, PTL DEF Spec

\* Every list, counter and timer of the manager keeps its type and bound: the
\* record of scsm-manager.c's private state stays well-formed.
THEOREM TypeCorrect == Spec => []TypeOK
BY Invariant, PTL DEF IInv

\* However many clients and inhibitors there are, a cancelled or refused logout
\* leaves no question, timer or just-in-time inhibitor behind in RUNNING.
THEOREM RunningQuiescent == Spec => []RunningIsQuiescent
<1>1. IInv => RunningIsQuiescent
  BY DEF IInv, TypeOK, Orderly, RunningIsQuiescent, Manager
<1> QED
  BY <1>1, Invariant, PTL

\* Nobody is ever waited for without a timer.
THEOREM Timed == Spec => []QuestionsAreTimed
<1>1. IInv => QuestionsAreTimed
  BY DEF IInv, Orderly, QuestionsAreTimed
<1> QED
  BY <1>1, Invariant, PTL

\* The query timeout dereferences clients of the store only, and never adds a
\* second inhibitor for a client.
THEOREM QueryListSound == Spec => []QueryListIsSound
<1>1. IInv => QueryListIsSound
  BY DEF IInv, Orderly, QueryListIsSound
<1> QED
  BY <1>1, Invariant, PTL

\* No inhibitor outlives the client it was made for.
THEOREM InhibitorsLive == Spec => []InhibitorsOfLiveClients
<1>1. IInv => InhibitorsOfLiveClients
  BY DEF IInv, Orderly, InhibitorsOfLiveClients
<1> QED
  BY <1>1, Invariant, PTL

\* No Shutdown() or Reboot() caller is left waiting in RUNNING or END_SESSION.
THEOREM CallersGetAnswers == Spec => []CallersAnswered
<1>1. IInv => CallersAnswered
  BY DEF IInv, Orderly, CallersAnswered
<1> QED
  BY <1>1, Invariant, PTL

\* A wish to be last never outlives END_SESSION: no later logout asks a client
\* again, possibly gone by then, because of it.
THEOREM LastForgotten == Spec => []LastOnlyWhileEnding
<1>1. IInv => LastOnlyWhileEnding
  BY DEF IInv, Orderly, LastOnlyWhileEnding
<1> QED
  BY <1>1, Invariant, PTL

\* Every behaviour of the manager, seen through its phase, its client store and
\* its unanswered callers, is a behaviour of SessionLifecycle.
THEOREM LifecycleImplemented == Spec => ImplementsLifecycle
<1>1. Init => Lifecycle!Init
  BY DEF Init, Lifecycle!Init
<1>2. ASSUME IInv, Good
      PROVE  [Lifecycle!Next]_(Lifecycle!lvars)
  <2> USE DEF Lifecycle!Next, Lifecycle!lvars, Lifecycle!Move, Lifecycle!Ask,
          Lifecycle!AskAgain, Lifecycle!End, Lifecycle!Over, Lifecycle!Cancel,
          Lifecycle!Join, Lifecycle!Leave
  <2>1. mgr \in Manager /\ Orderly(mgr) /\ mgr' \in Manager
    BY <1>2 DEF IInv, TypeOK, Good
  <2>2. CASE Advances(mgr, mgr')
    BY <2>1, <2>2 DEF Advances
  <2>3. CASE /\ mgr.phase = "RUNNING" /\ mgr'.phase = "QUERY_END_SESSION"
             /\ mgr'.clients = mgr.clients
             /\ mgr'.tasks \in {mgr.tasks, mgr.tasks + 1}
    BY <2>3
  <2>4. CASE /\ mgr.phase \in {"QUERY_END_SESSION", "END_SESSION"}
             /\ mgr.phase = "END_SESSION" => mgr'.phase # "END_SESSION"
             /\ Advances([mgr EXCEPT !.tasks = @ + 1], mgr')
    BY <2>1, <2>4 DEF Advances, Manager
  <2>5. ASSUME NEW c \in Clients, mgr.phase = "RUNNING",
               mgr' = [mgr EXCEPT !.clients = @ \cup {c}]
        PROVE  [Lifecycle!Next]_(Lifecycle!lvars)
    BY <2>1, <2>5 DEF Manager
  <2>6. ASSUME NEW c \in mgr.clients, mgr'.clients = mgr.clients \ {c},
               Advances([mgr EXCEPT !.clients = @ \ {c}], mgr')
        PROVE  [Lifecycle!Next]_(Lifecycle!lvars)
    BY <2>1, <2>6 DEF Advances, Manager
  <2> QED
    BY <1>2, <2>2, <2>3, <2>4, <2>5, <2>6 DEF Good, SessionStep
<1>3. IInv /\ [Next]_vars => [Lifecycle!Next]_(Lifecycle!lvars)
  BY <1>2, StepGood
<1> QED
  BY <1>1, <1>3, Invariant, PTL DEF Spec, ImplementsLifecycle, Lifecycle!Spec

-----------------------------------------------------------------------------
(* The action properties: what one callback may do to the questions, the   *)
(* objections and the type of the logout.                                  *)

\* What the functions do that no answer of a client goes through: they never
\* change what the logout is for, except to nothing; they begin the end of the
\* session for no shutdown; and while the session ends they leave the lists of
\* open questions alone.
Prudent(m, n) ==
  /\ Advances(m, n)
  /\ n.logout_type \in {m.logout_type, "NONE"}
  /\ m.phase = "QUERY_END_SESSION" /\ n.phase \in {"END_SESSION", "EXIT"}
       => n.logout_type # "SHUTDOWN"
  /\ m.phase = "END_SESSION" /\ n.phase = "END_SESSION"
       => /\ n.query_clients = m.query_clients
          /\ n.next_query_clients = m.next_query_clients

\* Nobody is asked anew and no wish is dropped, and the questions to all clients but
\* c stay as they are.
Patient(m, n, c) ==
  \A d \in Clients : /\ n.query_clients[d] <= m.query_clients[d]
                     /\ n.next_query_clients[d] >= m.next_query_clients[d]
                     /\ d # c => n.query_clients[d] = m.query_clients[d]

\* What an answer of client c, or its leaving, does besides: in END_SESSION it
\* may begin part 2, when nobody else has an open question.
Answers(m, n, c) ==
  /\ n.logout_type \in {m.logout_type, "NONE"}
  /\ m.phase = "QUERY_END_SESSION" /\ n.phase \in {"END_SESSION", "EXIT"}
       => n.logout_type # "SHUTDOWN"
  /\ m.phase = "END_SESSION" /\ n.phase = "END_SESSION"
       => \/ Patient(m, n, c)
          \/ \A d \in Clients \ {c} : m.query_clients[d] = 0

\* No inhibitor is added.
NoNewJit(m, n) == \A c \in Clients : n.jit[c] <= m.jit[c]

\* Two prudent calls in a row are prudent: no call comes back from RUNNING.
LEMMA PrudentTransitive ==
  ASSUME NEW m, NEW n, NEW o, Prudent(m, n), Prudent(n, o)
  PROVE  Prudent(m, o)
<1>1. Advances(m, o)
  BY AdvancesTransitive DEF Prudent
<1> QED
  BY <1>1 DEF Prudent, Advances

\* A call that does nothing is prudent.
LEMMA PrudentReflexive ==
  ASSUME NEW m \in Manager
  PROVE  Prudent(m, m)
BY OnwardReflexive DEF Prudent, Onward

\* So is one that touches neither the phase nor the lists nor the type.
LEMMA PrudentSame ==
  ASSUME NEW m \in Manager, NEW n, Proper(m, n), n.phase = m.phase,
         n.logout_type = m.logout_type, n.query_clients = m.query_clients,
         n.next_query_clients = m.next_query_clients
  PROVE  Prudent(m, n)
BY DEF Prudent, Proper, Onward

\* Cancelling ends in RUNNING, whatever it was that was cancelled.
LEMMA CancelPrudent ==
  ASSUME NEW m \in Manager, Orderly(m), m.phase # "EXIT"
  PROVE  Prudent(m, CancelEndSession(m))
<1>1. CASE m.phase = "RUNNING"
  BY <1>1, PrudentReflexive DEF CancelEndSession
<1>2. CASE m.phase # "RUNNING"
  <2>1. /\ CancelEndSession(m).phase = "RUNNING"
        /\ CancelEndSession(m).logout_type = "NONE"
    BY <1>2 DEF CancelEndSession, StartRunning, ResetPhase, Manager
  <2>2. Advances(m, CancelEndSession(m))
    BY CancelEndSessionProper DEF Proper, Onward
  <2> QED
    BY <2>1, <2>2 DEF Prudent
<1> QED
  BY <1>1, <1>2

\* A preparation that failed cancels the logout or is not awaited any more.
LEMMA PreparationFailedPrudent ==
  ASSUME NEW m \in Manager, Orderly(m), m.phase # "EXIT"
  PROVE  Prudent(m, OnShutdownPrepared(m, FALSE))
<1> DEFINE d == [m EXCEPT !.prepared_handler = FALSE, !.dialog_signals = FALSE]
<1>1. /\ d \in Manager /\ d.phase = m.phase /\ d.logout_type = m.logout_type
      /\ d.query_clients = m.query_clients
      /\ d.next_query_clients = m.next_query_clients
  BY DEF Manager
<1>2. Orderly(d) /\ Onward(m, d)
  BY DEF Orderly, Onward, Advances, Manager, MaxJit
<1>3. OnShutdownPrepared(m, FALSE) = IF m.prepared_handler THEN CancelEndSession(d) ELSE m
  BY DEF OnShutdownPrepared, Manager
<1> HIDE DEF d
<1>4. Prudent(m, d)
  BY <1>1, <1>2, PrudentSame DEF Proper
<1>5. Prudent(d, CancelEndSession(d))
  BY <1>1, <1>2, CancelPrudent
<1>6. Prudent(m, CancelEndSession(d))
  BY <1>4, <1>5, PrudentTransitive
<1> QED
  BY <1>3, <1>6, PrudentReflexive

\* Preparing a shutdown asks logind and stays in the query phase, or cancels.
LEMMA PrepareShutdownPrudent ==
  ASSUME NEW m \in Manager, Orderly(m), m.phase = "QUERY_END_SESSION"
  PROVE  Prudent(m, PrepareShutdown(m))
<1> DEFINE r == [m EXCEPT !.prepared_handler = TRUE]
           p == PrepareShutdown(m)
<1>1. /\ r \in Manager /\ r.phase = m.phase /\ r.logout_type = m.logout_type
      /\ r.query_clients = m.query_clients
      /\ r.next_query_clients = m.next_query_clients
  BY DEF Manager
<1>2. Orderly(r) /\ Onward(m, r)
  BY DEF Orderly, Onward, Advances, Manager, MaxJit
<1>3. Proper(m, p)
  BY PrepareShutdownProper
<1>4. CASE logindUp
  <2>1. p.phase = m.phase /\ p.logout_type = m.logout_type
        /\ p.query_clients = m.query_clients
        /\ p.next_query_clients = m.next_query_clients
    BY <1>4 DEF PrepareShutdown, Manager
  <2> HIDE DEF p
  <2> QED
    BY <1>3, <2>1, PrudentSame DEF p
<1>5. CASE ~logindUp
  <2>1. p = OnShutdownPrepared(r, FALSE)
    BY <1>5 DEF PrepareShutdown
  <2> HIDE DEF r, p
  <2>2. Prudent(m, r)
    BY <1>1, <1>2, PrudentSame DEF Proper
  <2>3. Prudent(r, p)
    BY <1>1, <1>2, <2>1, PreparationFailedPrudent
  <2> QED
    BY <2>2, <2>3, PrudentTransitive DEF p
<1> QED
  BY <1>4, <1>5

\* The query ends in END_SESSION at once for a logout only; for a shutdown it
\* is logind that has the next word.
LEMMA EndQueryPrudent ==
  ASSUME NEW m \in Manager, Orderly(m), m.phase = "QUERY_END_SESSION"
  PROVE  Prudent(m, EndQueryEndSession(m))
<1> DEFINE z == ResetPhase(m)
<1>1. Advances(m, EndQueryEndSession(m))
  BY EndQueryEndSessionProper DEF Proper, Onward
<1>2. CASE m.logout_type = "SHUTDOWN"
  <2>1. z \in Manager
    BY ResetPhaseType
  <2>2. z.phase = "QUERY_END_SESSION" /\ z.logout_type = m.logout_type
    BY DEF ResetPhase, Manager
  <2>3. Orderly(z)
    BY DEF Orderly, ResetPhase, Manager, Empty
  <2>4. EndQueryEndSession(m) = PrepareShutdown(z)
    BY <1>2 DEF EndQueryEndSession
  <2> HIDE DEF z
  <2>5. Prudent(z, EndQueryEndSession(m))
    BY <2>1, <2>2, <2>3, <2>4, PrepareShutdownPrudent
  <2> QED
    BY <1>1, <2>2, <2>5 DEF Prudent
<1>3. CASE m.logout_type # "SHUTDOWN"
  <2>1. EndQueryEndSession(m) = StartEndSession(m)
    BY <1>3 DEF EndQueryEndSession
  <2>2. StartEndSession(m).logout_type = m.logout_type
    BY DEF StartEndSession, StartExit, ResetPhase, Manager
  <2> QED
    BY <1>1, <1>3, <2>1, <2>2 DEF Prudent
<1> QED
  BY <1>2, <1>3

\* The end of any phase of a logout is prudent.
LEMMA EndPhasePrudent ==
  ASSUME NEW m \in Manager, Orderly(m), m.phase # "RUNNING"
  PROVE  Prudent(m, EndPhase(m))
<1>1. CASE m.phase = "QUERY_END_SESSION"
  BY <1>1, EndQueryPrudent DEF EndPhase
<1>2. CASE m.phase # "QUERY_END_SESSION"
  <2>1. EndPhase(m) = StartExit(m)
    BY <1>2 DEF EndPhase
  <2>2. StartExit(m).phase = "EXIT" /\ StartExit(m).logout_type = m.logout_type
    BY DEF StartExit, ResetPhase, Manager
  <2>3. Advances(m, EndPhase(m))
    BY EndPhaseProper DEF Proper, Onward
  <2> QED
    BY <1>2, <2>1, <2>2, <2>3 DEF Prudent
<1> QED
  BY <1>1, <1>2

\* Showing the dialog instead changes nothing that the properties speak of.
LEMMA EndSessionOrShowDialogPrudent ==
  ASSUME NEW m \in Manager, Orderly(m), m.phase # "RUNNING"
  PROVE  LET n == EndSessionOrShowDialog(m)
         IN /\ Prudent(m, n)
            /\ Inhibited(m) => n.phase = m.phase /\ n.logout_type = m.logout_type
<1> DEFINE d == [m EXCEPT !.dialog_signals = @ \/ shellRunning]
           n == EndSessionOrShowDialog(m)
<1>1. /\ d.phase = m.phase /\ d.logout_type = m.logout_type
      /\ d.query_clients = m.query_clients
      /\ d.next_query_clients = m.next_query_clients
  BY DEF Manager
<1>2. n = d \/ n = EndPhase(m)
  BY DEF EndSessionOrShowDialog
<1>3. Inhibited(m) => n = d
  BY DEF EndSessionOrShowDialog
<1>4. Proper(m, n)
  BY EndSessionOrShowDialogProper
<1>5. Prudent(m, EndPhase(m))
  BY EndPhasePrudent
<1> HIDE DEF d, n
<1>6. n = d => Prudent(m, n)
  BY <1>1, <1>4, PrudentSame
<1> QED
  BY <1>1, <1>2, <1>3, <1>5, <1>6 DEF n

\* Neither does any number of "removed" signals of inhibitors.
LEMMA OnInhibitorRemovedPrudent ==
  ASSUME NEW m \in Manager, Orderly(m)
  PROVE  Prudent(m, OnInhibitorRemoved(m))
BY PrudentReflexive, EndSessionOrShowDialogPrudent DEF OnInhibitorRemoved

\* Removing a client's inhibitors, one signal after the other.
LEMMA RemoveJitPrudent ==
  ASSUME NEW m \in Manager, Orderly(m), NEW c \in Clients
  PROVE  Prudent(m, RemoveJit(m, c))
<1> DEFINE r == [m EXCEPT !.jit[c] = 0]
           s == OnInhibitorRemoved(r)
<1>1. /\ r \in Manager /\ r.phase = m.phase /\ r.logout_type = m.logout_type
      /\ r.query_clients = m.query_clients
      /\ r.next_query_clients = m.next_query_clients
  BY DEF Manager, MaxJit
<1>2. Orderly(r) /\ Onward(m, r)
  BY DEF Orderly, Onward, Advances, Manager, MaxJit, Empty
<1>3. RemoveJit(m, c) \in {m, s, OnInhibitorRemoved(s)}
  BY DEF RemoveJit
<1> HIDE DEF r
<1>4. Prudent(m, r)
  BY <1>1, <1>2, PrudentSame DEF Proper
<1>5. Prudent(r, s) /\ s \in Manager /\ Orderly(s)
  BY <1>1, <1>2, OnInhibitorRemovedPrudent, OnInhibitorRemovedProper DEF Proper
<1> HIDE DEF s
<1>6. Prudent(m, s) /\ Prudent(s, OnInhibitorRemoved(s))
  BY <1>4, <1>5, PrudentTransitive, OnInhibitorRemovedPrudent
<1>7. Prudent(m, OnInhibitorRemoved(s))
  BY <1>6, PrudentTransitive
<1> QED
  BY <1>3, <1>6, <1>7, PrudentReflexive

\* The end of a response adds no inhibitor and starts part 2 only when the list
\* of open questions has become empty.
LEMMA AfterResponseAnswers ==
  ASSUME NEW m \in Manager, Orderly(m), NEW c \in Clients, NEW do_last \in BOOLEAN,
         m.phase = "END_SESSION" /\ do_last => m.next_query_clients[c] < MaxLast
  PROVE  LET n == AfterResponse(m, c, do_last)
         IN /\ n.logout_type \in {m.logout_type, "NONE"}
            /\ m.phase = "QUERY_END_SESSION" /\ n.phase \in {"END_SESSION", "EXIT"}
                 => n.logout_type # "SHUTDOWN"
            /\ m.phase = "END_SESSION" /\ n.phase = "END_SESSION"
                 => Patient(m, n, c) \/ m.query_clients = Empty
            /\ NoNewJit(m, n)
<1> DEFINE d == IF do_last THEN [m EXCEPT !.next_query_clients[c] = @ + 1] ELSE m
           q == [m EXCEPT !.query_timeout = FALSE]
           n == AfterResponse(m, c, do_last)
<1>1. Prudent(m, m) /\ NoNewJit(m, m)
  BY PrudentReflexive, OnwardReflexive DEF Onward, NoNewJit
<1>2. CASE m.phase = "QUERY_END_SESSION"
  <2>1. n = IF m.query_clients = Empty THEN EndSessionOrShowDialog(q) ELSE m
    BY <1>2 DEF AfterResponse
  <2>2. CASE m.query_clients = Empty
    <3>1. q \in Manager
      BY DEF Manager
    <3>2. q.phase = m.phase /\ q.logout_type = m.logout_type /\ q.jit = m.jit
      BY DEF Manager
    <3>3. Orderly(q)
      BY <1>2, <2>2 DEF Orderly, Manager
    <3> HIDE DEF q
    <3>4. Prudent(q, n) /\ Proper(q, n)
      BY <1>2, <2>1, <2>2, <3>1, <3>2, <3>3, EndSessionOrShowDialogPrudent,
         EndSessionOrShowDialogProper
    <3>5. NoNewJit(m, n)
      BY <3>2, <3>4 DEF NoNewJit, Proper, Onward
    <3> QED
      BY <1>2, <3>2, <3>4, <3>5 DEF Prudent
  <2>3. CASE m.query_clients # Empty
    BY <1>1, <1>2, <2>1, <2>3 DEF Prudent
  <2> QED
    BY <2>2, <2>3
<1>3. CASE m.phase = "END_SESSION"
  <2>1. /\ d.phase = "END_SESSION" /\ d.logout_type = m.logout_type
        /\ d.jit = m.jit
    BY <1>3 DEF Manager
  <2>2. Patient(m, d, c)
    BY DEF Manager, Patient
  <2>3. d \in Manager
    BY <1>3 DEF Manager
  <2>4. Orderly(d)
    BY <1>3 DEF Orderly, Manager
  <2>5. n = IF m.query_clients # Empty \/ Inhibited(m) THEN d
            ELSE IF d.next_query_clients # Empty THEN EndSessionPart2(d)
                 ELSE EndPhase(d)
    BY <1>3 DEF AfterResponse
  <2> HIDE DEF d
  <2>6. CASE n = d
    BY <1>1, <1>3, <2>1, <2>2, <2>6 DEF NoNewJit
  <2>7. CASE m.query_clients = Empty /\ n = EndSessionPart2(d)
    <3>1. n.logout_type = m.logout_type /\ n.jit = m.jit
      BY <2>1, <2>3, <2>7 DEF EndSessionPart2, Manager
    <3> QED
      BY <1>1, <1>3, <2>7, <3>1 DEF NoNewJit
  <2>8. CASE n = EndPhase(d)
    <3>1. n = StartExit(d)
      BY <2>1, <2>8 DEF EndPhase
    <3>2. n.phase = "EXIT" /\ n.logout_type = m.logout_type /\ n.jit = m.jit
      BY <2>1, <2>3, <3>1 DEF StartExit, ResetPhase, Manager
    <3> QED
      BY <1>1, <1>3, <3>2 DEF NoNewJit
  <2> QED
    BY <2>5, <2>6, <2>7, <2>8
<1>4. CASE m.phase \notin {"QUERY_END_SESSION", "END_SESSION"}
  <2>1. n = m
    BY <1>4 DEF AfterResponse
  <2> QED
    BY <1>1, <1>4, <2>1 DEF Prudent
<1> QED
  BY <1>2, <1>3, <1>4

\* An "ok", with or without the wish to be last.
LEMMA PositiveResponseAnswers ==
  ASSUME NEW m \in Manager, Orderly(m), NEW c \in Clients, NEW do_last \in BOOLEAN,
         do_last => m.next_query_clients[c] < MaxLast
  PROVE  LET n == HandleResponse(m, c, TRUE, do_last)
         IN Answers(m, n, c) /\ NoNewJit(m, n)
<1> DEFINE h == HandleResponse(m, c, TRUE, do_last)
           r == [m EXCEPT !.query_clients[c] = IF @ > 0 THEN @ - 1 ELSE 0]
           j == RemoveJit(r, c)
<1>1. CASE m.phase = "RUNNING"
  <2>1. h = m
    BY <1>1 DEF HandleResponse
  <2>2. NoNewJit(m, m)
    BY OnwardReflexive DEF Onward, NoNewJit
  <2> QED
    BY <1>1, <2>1, <2>2 DEF Answers
<1>2. CASE m.phase # "RUNNING"
  <2>1. h = AfterResponse(j, c, do_last)
    BY <1>2 DEF HandleResponse
  <2>2. r \in Manager
    BY DEF Manager
  <2>3. Orderly(r)
    BY <1>2 DEF Orderly, Manager, Empty
  <2>4. /\ r.phase = m.phase /\ r.logout_type = m.logout_type /\ r.jit = m.jit
        /\ r.next_query_clients = m.next_query_clients
        /\ \A d \in Clients \ {c} : r.query_clients[d] = m.query_clients[d]
    BY DEF Manager
  <2>4a. \A d \in Clients : r.query_clients[d] <= m.query_clients[d]
    BY DEF Manager
  <2> HIDE DEF r
  <2>5. Prudent(r, j) /\ Proper(r, j)
    BY <2>2, <2>3, RemoveJitPrudent, RemoveJitProper
  <2> HIDE DEF j
  <2>6. j \in Manager /\ Orderly(j)
    BY <2>5 DEF Proper
  <2>7. j.phase = "END_SESSION" /\ do_last => j.next_query_clients[c] < MaxLast
    BY <2>4, <2>5, <2>6 DEF Proper, Onward, Manager
  <2>8. /\ Advances(j, h) /\ h \in Manager
        /\ h.logout_type \in {j.logout_type, "NONE"}
        /\ j.phase = "QUERY_END_SESSION" /\ h.phase \in {"END_SESSION", "EXIT"}
             => h.logout_type # "SHUTDOWN"
        /\ j.phase = "END_SESSION" /\ h.phase = "END_SESSION"
             => Patient(j, h, c) \/ j.query_clients = Empty
        /\ NoNewJit(j, h)
    BY <2>1, <2>6, <2>7, AfterResponseAnswers, AfterResponseProper
  <2>9. NoNewJit(m, h)
    <3> HIDE DEF h
    <3>1. \A d \in Clients : j.jit[d] <= m.jit[d]
      BY <2>4, <2>5 DEF Proper, Onward
    <3>2. \A d \in Clients : m.jit[d] \in Nat /\ j.jit[d] \in Nat /\ h.jit[d] \in Nat
      BY <2>6, <2>8 DEF Manager, MaxJit
    <3> QED
      BY <2>8, <3>1, <3>2 DEF NoNewJit
  <2>10. h.logout_type \in {m.logout_type, "NONE"}
    BY <2>4, <2>5, <2>8 DEF Prudent
  <2>11. m.phase = "QUERY_END_SESSION" /\ h.phase \in {"END_SESSION", "EXIT"}
           => h.logout_type # "SHUTDOWN"
    BY <2>4, <2>5, <2>8 DEF Prudent, Advances
  <2>12. ASSUME m.phase = "END_SESSION", h.phase = "END_SESSION"
         PROVE  \/ Patient(m, h, c)
                \/ \A d \in Clients \ {c} : m.query_clients[d] = 0
    <3> HIDE DEF h
    <3>1. j.phase = "END_SESSION"
      BY <2>4, <2>5, <2>8, <2>12 DEF Prudent, Advances
    <3>2. /\ j.query_clients = r.query_clients
          /\ j.next_query_clients = m.next_query_clients
      BY <2>4, <2>5, <2>12, <3>1 DEF Prudent
    <3>3. CASE j.query_clients = Empty
      BY <2>4, <3>2, <3>3 DEF Empty
    <3>4. CASE Patient(j, h, c)
      <4>1. h \in Manager
        BY <2>8
      <4>2. \A d \in Clients : h.query_clients[d] \in Nat /\ m.query_clients[d] \in Nat
                             /\ j.query_clients[d] \in Nat
        BY <2>6, <4>1 DEF Manager
      <4>3. \A d \in Clients : j.query_clients[d] <= m.query_clients[d]
        BY <2>4a, <3>2
      <4> QED
        BY <2>4, <3>2, <3>4, <4>2, <4>3 DEF Patient
    <3> QED
      BY <2>8, <2>12, <3>1, <3>3, <3>4
  <2> QED
    BY <2>9, <2>10, <2>11, <2>12 DEF Answers
<1> QED
  BY <1>1, <1>2

\* An objection adds an inhibitor, and the session stays where it is.
LEMMA ObjectionAnswers ==
  ASSUME NEW m \in Manager, Orderly(m), NEW c \in Clients, c \in m.clients,
         m.jit[c] < MaxJit
  PROVE  LET n == HandleResponse(m, c, FALSE, FALSE)
         IN Answers(m, n, c) /\ (NoNewJit(m, n) \/ n.phase = m.phase)
<1> DEFINE h == HandleResponse(m, c, FALSE, FALSE)
           r == [m EXCEPT !.query_clients[c] = IF @ > 0 THEN @ - 1 ELSE 0]
           o == [r EXCEPT !.jit[c] = @ + 1]
           q == [o EXCEPT !.query_timeout = FALSE]
<1>1. CASE m.phase = "RUNNING" \/ m.logout_mode = "FORCE"
  <2>1. h = HandleResponse(m, c, TRUE, FALSE)
    BY <1>1 DEF HandleResponse
  <2> QED
    BY <2>1, PositiveResponseAnswers
<1>2. CASE m.phase # "RUNNING" /\ m.logout_mode # "FORCE"
  <2>1. h = AfterResponse(o, c, FALSE)
    BY <1>2 DEF HandleResponse, Manager
  <2>2. r \in Manager /\ r.jit = m.jit /\ r.phase = m.phase
    BY DEF Manager
  <2>3. r.jit[c] + 1 \in 0 .. MaxJit
    BY <2>2 DEF Manager, MaxJit
  <2>4. o \in Manager
    BY <2>2, <2>3 DEF Manager
  <2>5. Orderly(o)
    BY <1>2 DEF Orderly, Manager, Empty, MaxJit
  <2>6. /\ o.phase = m.phase /\ o.logout_type = m.logout_type
        /\ o.logout_mode = m.logout_mode
        /\ o.next_query_clients = m.next_query_clients
    BY DEF Manager
  <2>6a. \A d \in Clients : /\ o.query_clients[d] <= m.query_clients[d]
                            /\ d # c => o.query_clients[d] = m.query_clients[d]
    BY DEF Manager
  <2>7. o.jit[c] > 0
    BY <2>2, <2>3 DEF Manager
  <2> HIDE DEF o, r
  <2>8. Inhibited(o)
    BY <1>2, <2>6, <2>7 DEF Inhibited
  <2>8a. Patient(m, o, c)
    BY <2>6, <2>6a DEF Patient, Manager
  <2>9. /\ h.phase = m.phase /\ h.logout_type = m.logout_type
        /\ m.phase = "END_SESSION" => h = o
    <3>1. CASE o.phase = "QUERY_END_SESSION"
      <4>1. h = IF o.query_clients = Empty THEN EndSessionOrShowDialog(q) ELSE o
        BY <2>1, <3>1 DEF AfterResponse
      <4>2. CASE o.query_clients = Empty
        <5>1. q \in Manager
          BY <2>4 DEF Manager
        <5>2. /\ q.phase = o.phase /\ q.logout_type = o.logout_type /\ q.jit = o.jit
              /\ q.logout_mode = o.logout_mode /\ q.inhibitors = o.inhibitors
          BY <2>4 DEF Manager
        <5>3. Orderly(q)
          BY <2>4, <2>5, <3>1, <4>2 DEF Orderly, Manager
        <5>4. Inhibited(q)
          BY <2>8, <5>2 DEF Inhibited
        <5> HIDE DEF q
        <5>5. h.phase = q.phase /\ h.logout_type = q.logout_type
          BY <3>1, <4>1, <4>2, <5>1, <5>2, <5>3, <5>4, EndSessionOrShowDialogPrudent
        <5> QED
          BY <2>6, <3>1, <5>2, <5>5
      <4>3. CASE o.query_clients # Empty
        BY <2>6, <3>1, <4>1, <4>3
      <4> QED
        BY <4>2, <4>3
    <3>2. CASE o.phase # "QUERY_END_SESSION"
      <4>1. h = o
        BY <2>1, <2>8, <3>2 DEF AfterResponse
      <4> QED
        BY <2>6, <4>1
    <3> QED
      BY <3>1, <3>2
  <2> QED
    BY <2>9, <2>8a DEF Answers
<1> QED
  BY <1>1, <1>2

\* A client that leaves: its inhibitors go first, then its answer is "ok".
LEMMA DisconnectClientAnswers ==
  ASSUME NEW m \in Manager, Orderly(m), NEW c \in Clients
  PROVE  Answers(m, DisconnectClient(m, c), c)
<1> DEFINE r == RemoveJit(m, c)
           h == HandleResponse(r, c, TRUE, FALSE)
<1>1. Prudent(m, r) /\ Proper(m, r)
  BY RemoveJitPrudent, RemoveJitProper
<1>2. r \in Manager /\ Orderly(r)
  BY <1>1 DEF Proper
<1>3. DisconnectClient(m, c) \in {r, h}
  BY DEF DisconnectClient
<1> HIDE DEF r
<1>4. Answers(r, h, c) /\ Advances(r, h)
  BY <1>2, PositiveResponseAnswers, PositiveResponse
<1> HIDE DEF h
<1>5. Answers(m, r, c)
  <2>1. m.phase = "END_SESSION" /\ r.phase = "END_SESSION" => Patient(m, r, c)
    BY <1>1 DEF Prudent, Patient, Manager
  <2> QED
    BY <1>1, <2>1 DEF Prudent, Answers
<1>6. Answers(m, h, c)
  <2>1. h.logout_type \in {m.logout_type, "NONE"}
    BY <1>1, <1>4 DEF Prudent, Answers
  <2>2. m.phase = "QUERY_END_SESSION" /\ h.phase \in {"END_SESSION", "EXIT"}
          => h.logout_type # "SHUTDOWN"
    BY <1>1, <1>4 DEF Prudent, Answers, Advances
  <2>3. ASSUME m.phase = "END_SESSION", h.phase = "END_SESSION"
        PROVE  \/ Patient(m, h, c)
               \/ \A d \in Clients \ {c} : m.query_clients[d] = 0
    <3>1. r.phase = "END_SESSION"
      BY <1>1, <1>4, <2>3 DEF Prudent, Advances
    <3>2. /\ r.query_clients = m.query_clients
          /\ r.next_query_clients = m.next_query_clients
      BY <1>1, <2>3, <3>1 DEF Prudent
    <3> QED
      BY <1>4, <2>3, <3>1, <3>2 DEF Answers, Patient
  <2> QED
    BY <2>1, <2>2, <2>3 DEF Answers
<1> QED
  BY <1>3, <1>5, <1>6

\* The client store forgets it; without clients the phase is over.
LEMMA OnClientDisconnectedAnswers ==
  ASSUME NEW m \in Manager, Orderly(m), NEW c \in Clients
  PROVE  /\ Answers(m, OnClientDisconnected(m, c), c)
         /\ NoNewJit(m, OnClientDisconnected(m, c))
<1> DEFINE r == DisconnectClient(m, c)
           s == [r EXCEPT !.clients = @ \ {c}]
           o == OnClientDisconnected(m, c)
<1>1. /\ Proper(m, r) /\ r.jit[c] = 0 /\ Answers(m, r, c)
      /\ r.phase = "QUERY_END_SESSION" => r.query_clients[c] = 0
  BY DisconnectClientProper, DisconnectClientAnswers
<1>2. o = IF r.phase # "RUNNING" /\ s.clients = {} THEN EndPhase(s) ELSE s
  BY DEF OnClientDisconnected
<1> HIDE DEF r
<1>3. s \in Manager
  BY <1>1 DEF Proper, Manager
<1>4. /\ s.phase = r.phase /\ s.jit = r.jit /\ s.logout_type = r.logout_type
      /\ s.query_clients = r.query_clients
      /\ s.next_query_clients = r.next_query_clients
  BY <1>1 DEF Proper, Manager
<1>5. Orderly(s)
  BY <1>1 DEF Proper, Orderly, Manager, MaxJit
<1> HIDE DEF s, o
<1>6. Prudent(s, o) /\ Proper(s, o)
  BY <1>2, <1>3, <1>4, <1>5, EndPhaseProper, EndPhasePrudent, PrudentReflexive,
     OnwardReflexive DEF Proper
<1>7. \A d \in Clients : o.jit[d] <= m.jit[d]
  <2>1. \A d \in Clients : o.jit[d] <= s.jit[d] /\ r.jit[d] <= m.jit[d]
    BY <1>1, <1>6 DEF Proper, Onward
  <2>2. \A d \in Clients : m.jit[d] \in Nat /\ r.jit[d] \in Nat /\ o.jit[d] \in Nat
    BY <1>1, <1>6 DEF Proper, Manager, MaxJit
  <2> QED
    BY <1>4, <2>1, <2>2
<1>8. o.logout_type \in {m.logout_type, "NONE"}
  BY <1>1, <1>4, <1>6 DEF Answers, Prudent
<1>9. m.phase = "QUERY_END_SESSION" /\ o.phase \in {"END_SESSION", "EXIT"}
        => o.logout_type # "SHUTDOWN"
  BY <1>1, <1>4, <1>6 DEF Answers, Prudent, Proper, Onward, Advances
<1>10. ASSUME m.phase = "END_SESSION", o.phase = "END_SESSION"
       PROVE  \/ Patient(m, o, c)
              \/ \A d \in Clients \ {c} : m.query_clients[d] = 0
  <2>1. s.phase = "END_SESSION"
    BY <1>1, <1>4, <1>6, <1>10 DEF Proper, Onward, Advances
  <2>2. /\ o.query_clients = r.query_clients
        /\ o.next_query_clients = r.next_query_clients
    BY <1>4, <1>6, <1>10, <2>1 DEF Prudent
  <2> QED
    BY <1>1, <1>4, <1>10, <2>1, <2>2 DEF Answers, Patient
<1> QED
  BY <1>7, <1>8, <1>9, <1>10 DEF Answers, NoNewJit, o

\* Nobody is passed over while the session ends.
InTurn ==
  mgr.phase = "END_SESSION" /\ mgr'.phase = "END_SESSION" =>
    \A c \in Clients :
      /\ mgr'.query_clients[c] < mgr.query_clients[c] => AnswerOf(c)
      /\ \/ mgr'.query_clients[c] > mgr.query_clients[c]
         \/ mgr'.next_query_clients[c] < mgr.next_query_clients[c]
           => \A d \in Clients : mgr.query_clients[d] > 0 => AnswerOf(d)

\* The lists are left alone.
SameLists(m, n) == m.phase = "END_SESSION" =>
  n.query_clients = m.query_clients /\ n.next_query_clients = m.next_query_clients

LEMMA SameListsInTurn ==
  ASSUME mgr \in Manager,
         mgr.phase = "END_SESSION" /\ mgr'.phase = "END_SESSION" => SameLists(mgr, mgr')
  PROVE  InTurn
BY DEF InTurn, SameLists, Manager

LEMMA AnswersInTurn ==
  ASSUME mgr \in Manager, mgr' \in Manager, NEW c \in Clients, AnswerOf(c),
         Answers(mgr, mgr', c)
  PROVE  InTurn
<1> SUFFICES ASSUME mgr.phase = "END_SESSION", mgr'.phase = "END_SESSION", NEW d \in Clients
             PROVE  /\ mgr'.query_clients[d] < mgr.query_clients[d] => AnswerOf(d)
                    /\ \/ mgr'.query_clients[d] > mgr.query_clients[d]
                       \/ mgr'.next_query_clients[d] < mgr.next_query_clients[d]
                         => \A e \in Clients : mgr.query_clients[e] > 0 => AnswerOf(e)
  BY DEF InTurn
<1>1. \A e \in Clients :
        /\ mgr.query_clients[e] \in Nat /\ mgr'.query_clients[e] \in Nat
        /\ mgr.next_query_clients[e] \in Nat /\ mgr'.next_query_clients[e] \in Nat
  BY DEF Manager
<1>2. CASE Patient(mgr, mgr', c)
  <2>1. /\ ~(mgr'.query_clients[d] > mgr.query_clients[d])
        /\ ~(mgr'.next_query_clients[d] < mgr.next_query_clients[d])
        /\ d # c => ~(mgr'.query_clients[d] < mgr.query_clients[d])
    BY <1>1, <1>2 DEF Patient
  <2> QED
    BY <2>1
<1>3. CASE \A e \in Clients \ {c} : mgr.query_clients[e] = 0
  <2>1. \A e \in Clients : mgr.query_clients[e] > 0 => e = c
    BY <1>3
  <2>2. d # c => ~(mgr'.query_clients[d] < mgr.query_clients[d])
    BY <1>1, <1>3
  <2> QED
    BY <2>1, <2>2
<1> QED
  BY <1>2, <1>3 DEF Answers

\* The three action properties, as one statement about a step.
Promises ==
  /\ (\E c \in Clients : mgr'.jit[c] > mgr.jit[c]) => mgr'.phase = mgr.phase
  /\ InTurn
  /\ mgr.phase = "QUERY_END_SESSION" /\ mgr'.phase \in {"END_SESSION", "EXIT"}
     /\ mgr'.logout_type = "SHUTDOWN"
       => mgr.shutdown_expected /\ ~mgr'.shutdown_expected

\* A callback that makes one prudent call keeps them, even when it first sets
\* the mode or the type of the logout, or drops inhibitors.
LEMMA PrudentPromises ==
  ASSUME IInv, NEW m \in Manager, m.phase = mgr.phase, NoNewJit(mgr, m),
         SameLists(mgr, m), Prudent(m, mgr'), Proper(m, mgr')
  PROVE  Promises
<1>1. \A c \in Clients : ~(mgr'.jit[c] > mgr.jit[c])
  <2>1. \A c \in Clients : mgr'.jit[c] <= m.jit[c] /\ m.jit[c] <= mgr.jit[c]
    BY DEF Proper, Onward, NoNewJit
  <2>2. \A c \in Clients : mgr'.jit[c] \in Nat /\ m.jit[c] \in Nat /\ mgr.jit[c] \in Nat
    BY DEF Proper, Manager, MaxJit, IInv, TypeOK
  <2> QED
    BY <2>1, <2>2
<1>2. InTurn
  <2>1. mgr \in Manager
    BY DEF IInv, TypeOK
  <2>2. mgr.phase = "END_SESSION" /\ mgr'.phase = "END_SESSION" => SameLists(mgr, mgr')
    BY DEF SameLists, Prudent
  <2> QED
    BY <2>1, <2>2, SameListsInTurn
<1> QED
  BY <1>1, <1>2 DEF Promises, Prudent

\* So does a callback that handles an answer, asked for or not.
LEMMA AnswersPromises ==
  ASSUME IInv, mgr' \in Manager, NEW c \in Clients, Answers(mgr, mgr', c), AnswerOf(c),
         NoNewJit(mgr, mgr') \/ mgr'.phase = mgr.phase
  PROVE  Promises
<1>1. (\E d \in Clients : mgr'.jit[d] > mgr.jit[d]) => mgr'.phase = mgr.phase
  <2>1. \A d \in Clients : mgr'.jit[d] \in Nat /\ mgr.jit[d] \in Nat
    BY DEF Manager, MaxJit, IInv, TypeOK
  <2> QED
    BY <2>1 DEF NoNewJit
<1>2. InTurn
  BY AnswersInTurn DEF IInv, TypeOK
<1> QED
  BY <1>1, <1>2 DEF Promises, Answers

\* And a callback that starts a query, or finds the session locked down.
LEMMA RunningPromises ==
  ASSUME IInv, mgr' \in Manager, mgr.phase = "RUNNING",
         mgr'.phase \in {"RUNNING", "QUERY_END_SESSION"}, mgr'.jit = mgr.jit
  PROVE  Promises
<1>1. \A c \in Clients : mgr'.jit[c] \in Nat
  BY DEF Manager, MaxJit
<1>2. \A c \in Clients : ~(mgr'.jit[c] > mgr.jit[c])
  BY <1>1
<1>3. mgr.phase # "QUERY_END_SESSION" /\ mgr'.phase # "END_SESSION"
  OBVIOUS
<1> QED
  BY <1>2, <1>3 DEF Promises, InTurn

\* end_phase() of RUNNING, for a request that has set the type or the mode.
LEMMA EndPhaseOfRunningPromises ==
  ASSUME IInv, NEW m \in Manager, m.phase = "RUNNING", mgr.phase = "RUNNING",
         m.jit = mgr.jit, mgr' = EndPhase(m), mgr' \in Manager
  PROVE  Promises
<1>1. EndPhase(m) \in {ResetPhase(m), StartQueryEndSession(m)}
  BY DEF EndPhase
<1>2. ResetPhase(m).phase = "RUNNING" /\ ResetPhase(m).jit = m.jit
  BY DEF ResetPhase, Manager
<1>3. /\ StartQueryEndSession(m).phase = "QUERY_END_SESSION"
      /\ StartQueryEndSession(m).jit = m.jit
  BY DEF StartQueryEndSession, ResetPhase, Manager
<1> QED
  BY <1>1, <1>2, <1>3, RunningPromises

\* Logout() sets the mode and may move the query under way on.
LEMMA LogoutPromises ==
  ASSUME IInv, NEW mode \in Modes, Logout(mode)
  PROVE  Promises
<1> DEFINE m == [mgr EXCEPT !.logout_mode = mode]
           n == [m EXCEPT !.logout_type = "LOGOUT"]
<1>1. mgr \in Manager /\ Orderly(mgr) /\ mgr' \in Manager
  BY LogoutGood DEF IInv, TypeOK, Good
<1>2. CASE mgr.phase = "RUNNING"
  <2>1. n \in Manager /\ n.phase = "RUNNING" /\ n.jit = mgr.jit
    BY <1>1, <1>2 DEF Manager, Types
  <2>2. mgr' = EndPhase(n)
    BY <1>2 DEF Logout
  <2> HIDE DEF n
  <2> QED
    BY <1>1, <1>2, <2>1, <2>2, EndPhaseOfRunningPromises
<1>3. CASE mgr.phase # "RUNNING"
  <2>1. m \in Manager /\ m.phase = mgr.phase /\ SameLists(mgr, m)
    BY <1>1 DEF Manager, SameLists
  <2>2. Orderly(m)
    BY <1>1 DEF Orderly, Manager
  <2>3. NoNewJit(mgr, m)
    BY <1>1 DEF NoNewJit, Manager, MaxJit
  <2>4. mgr' = EndSessionOrShowDialog(m)
    BY <1>3 DEF Logout
  <2> HIDE DEF m
  <2>5. Prudent(m, mgr') /\ Proper(m, mgr')
    BY <1>3, <2>1, <2>2, <2>4, EndSessionOrShowDialogPrudent,
       EndSessionOrShowDialogProper
  <2> QED
    BY <2>1, <2>3, <2>5, PrudentPromises
<1> QED
  BY <1>2, <1>3

\* Shutdown() ends the phase whatever it is; the query ends for logind only.
LEMMA ShutdownPromises ==
  ASSUME IInv, Shutdown
  PROVE  Promises
<1> DEFINE m == [mgr EXCEPT !.tasks = @ + 1, !.logout_type = "SHUTDOWN"]
<1>1. /\ mgr \in Manager /\ Orderly(mgr) /\ mgr.tasks < MaxTasks
      /\ mgr.phase # "EXIT" /\ mgr' = EndPhase(m) /\ mgr' \in Manager
  BY ShutdownGood DEF IInv, TypeOK, Good, Shutdown, Dispatching
<1>2. mgr.tasks + 1 \in 0 .. MaxTasks
  BY <1>1 DEF Manager
<1>3. /\ m \in Manager /\ m.phase = mgr.phase /\ m.jit = mgr.jit
      /\ SameLists(mgr, m)
  BY <1>1, <1>2 DEF Manager, Types, SameLists
<1>4. CASE mgr.phase = "RUNNING"
  <2> HIDE DEF m
  <2> QED
    BY <1>1, <1>3, <1>4, EndPhaseOfRunningPromises
<1>5. CASE mgr.phase = "QUERY_END_SESSION"
  <2>1. Orderly(m)
    BY <1>1, <1>5 DEF Orderly, Manager
  <2>2. NoNewJit(mgr, m)
    BY <1>1 DEF NoNewJit, Manager, MaxJit
  <2> HIDE DEF m
  <2>3. Prudent(m, mgr') /\ Proper(m, mgr')
    BY <1>1, <1>3, <1>5, <2>1, EndPhasePrudent, EndPhaseProper
  <2> QED
    BY <1>3, <2>2, <2>3, PrudentPromises
<1>6. CASE mgr.phase = "END_SESSION"
  <2>1. mgr' = StartExit(m)
    BY <1>1, <1>3, <1>6 DEF EndPhase
  <2>2. mgr'.phase = "EXIT" /\ mgr'.jit = mgr.jit
    BY <1>1, <2>1 DEF StartExit, ResetPhase, Manager
  <2>3. \A c \in Clients : ~(mgr'.jit[c] > mgr.jit[c])
    BY <1>1, <2>2 DEF Manager, MaxJit
  <2> QED
    BY <1>6, <2>2, <2>3 DEF Promises, InTurn
<1> QED
  BY <1>1, <1>4, <1>5, <1>6 DEF Manager, Phases

\* A confirmed dialog does the same, and forgets the dialog.
LEMMA DialogConfirmedPromises ==
  ASSUME IInv, NEW type \in {"LOGOUT", "SHUTDOWN"}, DialogConfirmed(type)
  PROVE  Promises
<1> DEFINE m == [mgr EXCEPT !.logout_mode = "FORCE", !.logout_type = type]
           e == IF mgr.phase = "END_SESSION" THEN mgr ELSE EndPhase(m)
<1>1. /\ mgr \in Manager /\ Orderly(mgr) /\ mgr.phase # "EXIT"
      /\ mgr' = [e EXCEPT !.dialog_signals = FALSE]
      /\ mgr' \in Manager /\ Orderly(mgr')
  BY DialogConfirmedGood DEF IInv, TypeOK, Good, DialogConfirmed, Dispatching
<1>2. /\ m \in Manager /\ m.phase = mgr.phase /\ m.jit = mgr.jit
      /\ SameLists(mgr, m)
  BY <1>1 DEF Manager, Modes, Types, SameLists
<1>3. Orderly(m)
  BY <1>1 DEF Orderly, Manager
<1>4. NoNewJit(mgr, m)
  BY <1>1 DEF NoNewJit, Manager, MaxJit
<1> HIDE DEF m
<1>5. CASE mgr.phase = "RUNNING"
  <2>1. e = ResetPhase(m) \/ e = StartQueryEndSession(m)
    BY <1>2, <1>5 DEF EndPhase
  <2>2. ASSUME e = ResetPhase(m)
        PROVE  mgr'.phase = "RUNNING" /\ mgr'.jit = m.jit
    BY <1>1, <1>2, <1>5, <2>2 DEF ResetPhase, Manager
  <2>3. ASSUME e = StartQueryEndSession(m)
        PROVE  mgr'.phase = "QUERY_END_SESSION" /\ mgr'.jit = m.jit
    BY <1>1, <1>2, <2>3 DEF StartQueryEndSession, ResetPhase, Manager
  <2> HIDE DEF e
  <2> QED
    BY <1>1, <1>2, <1>5, <2>1, <2>2, <2>3, RunningPromises
<1>6. CASE mgr.phase # "RUNNING"
  <2>1. PICK n \in {mgr, m} : NoNewJit(mgr, n) /\ Prudent(n, e) /\ Proper(n, e)
    <3>1. CASE mgr.phase = "END_SESSION"
      BY <1>1, <3>1, PrudentReflexive, OnwardReflexive DEF Proper, Onward, NoNewJit
    <3>2. CASE mgr.phase # "END_SESSION"
      <4>1. Prudent(m, e) /\ Proper(m, e)
        BY <1>2, <1>3, <1>6, <3>2, EndPhasePrudent, EndPhaseProper
      <4> QED
        BY <1>4, <4>1
    <3> QED
      BY <3>1, <3>2
  <2>2. n \in Manager /\ n.phase = mgr.phase /\ SameLists(mgr, n)
    BY <1>1, <1>2, <2>1 DEF SameLists
  <2> HIDE DEF e
  <2>3. e \in Manager
    BY <2>1 DEF Proper
  <2>4. /\ mgr'.phase = e.phase /\ mgr'.logout_type = e.logout_type
        /\ mgr'.query_clients = e.query_clients /\ mgr'.jit = e.jit
        /\ mgr'.next_query_clients = e.next_query_clients
        /\ mgr'.clients = e.clients /\ mgr'.tasks = e.tasks
    BY <1>1, <2>3 DEF Manager
  <2>5. Prudent(n, mgr')
    BY <2>1, <2>4 DEF Prudent, Advances
  <2>6. Proper(n, mgr')
    BY <1>1, <2>1, <2>4 DEF Proper, Onward, Advances
  <2> QED
    BY <2>1, <2>2, <2>5, <2>6, PrudentPromises
<1> QED
  BY <1>5, <1>6

\* A cancelled dialog leads back to RUNNING.
LEMMA DialogCanceledPromises ==
  ASSUME IInv, DialogCanceled
  PROVE  Promises
<1> DEFINE e == CancelEndSession(mgr)
<1>1. /\ mgr \in Manager /\ Orderly(mgr) /\ mgr.phase # "EXIT"
      /\ mgr' = [e EXCEPT !.dialog_signals = FALSE]
      /\ mgr' \in Manager /\ Orderly(mgr')
  BY DialogCanceledGood DEF IInv, TypeOK, Good, DialogCanceled, Dispatching
<1>2. Prudent(mgr, e) /\ Proper(mgr, e)
  BY <1>1, CancelPrudent, CancelEndSessionProper
<1> HIDE DEF e
<1>3. /\ mgr'.phase = e.phase /\ mgr'.logout_type = e.logout_type
      /\ mgr'.query_clients = e.query_clients /\ mgr'.jit = e.jit
      /\ mgr'.next_query_clients = e.next_query_clients
      /\ mgr'.clients = e.clients /\ mgr'.tasks = e.tasks
  BY <1>1, <1>2 DEF Proper, Manager
<1>4. Prudent(mgr, mgr') /\ Proper(mgr, mgr')
  BY <1>1, <1>2, <1>3 DEF Prudent, Proper, Onward, Advances
<1>5. NoNewJit(mgr, mgr) /\ SameLists(mgr, mgr)
  BY <1>1, OnwardReflexive DEF Onward, NoNewJit, SameLists
<1> QED
  BY <1>1, <1>4, <1>5, PrudentPromises

\* The query timeout turns open questions into inhibitors, and these hold the
\* session where it is; in a forced logout it adds none.
LEMMA QueryTimeoutPromises ==
  ASSUME IInv, QueryTimeout
  PROVE  Promises
<1> DEFINE n == TimedOut
<1>1. /\ mgr \in Manager /\ mgr.phase = "QUERY_END_SESSION"
      /\ n \in Manager /\ Orderly(n) /\ n.phase = mgr.phase
      /\ n.next_query_clients = mgr.next_query_clients
      /\ n.logout_mode = mgr.logout_mode
      /\ mgr.logout_mode = "FORCE" => n.jit = mgr.jit
      /\ mgr' = EndSessionOrShowDialog(n)
  BY TimedOutState DEF IInv, TypeOK
<1> HIDE DEF n
<1>2. Prudent(n, mgr') /\ Proper(n, mgr')
  BY <1>1, EndSessionOrShowDialogPrudent, EndSessionOrShowDialogProper
<1>3. CASE Inhibited(n)
  <2>1. mgr'.phase = mgr.phase
    BY <1>1, <1>3, EndSessionOrShowDialogPrudent
  <2> QED
    BY <1>1, <2>1 DEF Promises, InTurn
<1>4. CASE ~Inhibited(n)
  <2>1. NoNewJit(mgr, n)
    <3>1. CASE mgr.logout_mode = "FORCE"
      BY <1>1, <3>1, OnwardReflexive DEF Onward, NoNewJit
    <3>2. CASE mgr.logout_mode # "FORCE"
      <4>1. \A c \in Clients : ~(n.jit[c] > 0)
        BY <1>1, <1>4, <3>2 DEF Inhibited
      <4>2. \A c \in Clients : mgr.jit[c] \in Nat /\ n.jit[c] \in Nat
        BY <1>1 DEF Manager, MaxJit
      <4> QED
        BY <4>1, <4>2 DEF NoNewJit
    <3> QED
      BY <3>1, <3>2
  <2>2. SameLists(mgr, n)
    BY <1>1 DEF SameLists
  <2> QED
    BY <1>1, <1>2, <2>1, <2>2, PrudentPromises
<1> QED
  BY <1>3, <1>4

\* No answer of a client breaks them, asked for or not.
LEMMA ClientAnswersPromises ==
  ASSUME IInv, NEW c \in Clients,
         \/ \E is_ok \in BOOLEAN : EndSessionResponse(c, is_ok)
         \/ SaveYourselfDone(c)
         \/ Phase2Request(c)
         \/ InteractRequest(c)
         \/ \E cancel_shutdown \in BOOLEAN : InteractDone(c, cancel_shutdown)
  PROVE  Promises
<1>1. mgr \in Manager /\ Orderly(mgr) /\ mgr' \in Manager
  BY ClientAnswersGood DEF IInv, TypeOK, Good
<1>2. CASE mgr' = HandleResponse(mgr, c, TRUE, FALSE) /\ AnswerOf(c)
  BY <1>1, <1>2, PositiveResponseAnswers, AnswersPromises
<1>3. CASE /\ mgr' = HandleResponse(mgr, c, TRUE, TRUE) /\ AnswerOf(c)
           /\ mgr.next_query_clients[c] < MaxLast
  BY <1>1, <1>3, PositiveResponseAnswers, AnswersPromises
<1>4. CASE /\ mgr' = HandleResponse(mgr, c, FALSE, FALSE) /\ AnswerOf(c)
           /\ mgr.jit[c] < MaxJit /\ c \in mgr.clients
  BY <1>1, <1>4, ObjectionAnswers, AnswersPromises
<1>5. CASE mgr' = CancelEndSession(mgr) /\ mgr.phase # "EXIT"
  <2>1. NoNewJit(mgr, mgr) /\ SameLists(mgr, mgr)
    BY <1>1, OnwardReflexive DEF Onward, NoNewJit, SameLists
  <2> QED
    BY <1>1, <1>5, <2>1, CancelPrudent, CancelEndSessionProper, PrudentPromises
<1>6. ASSUME NEW is_ok \in BOOLEAN, EndSessionResponse(c, is_ok)
      PROVE  Promises
  <2>1. AnswerOf(c)
    BY <1>6 DEF AnswerOf
  <2> QED
    BY <1>2, <1>4, <1>6, <2>1 DEF EndSessionResponse, Speaking
<1>7. CASE SaveYourselfDone(c)
  <2>1. AnswerOf(c)
    BY <1>7 DEF AnswerOf
  <2> QED
    BY <1>2, <1>7, <2>1 DEF SaveYourselfDone
<1>8. CASE Phase2Request(c)
  <2>1. AnswerOf(c)
    BY <1>8 DEF AnswerOf
  <2> QED
    BY <1>3, <1>8, <2>1 DEF Phase2Request
<1>9. CASE InteractRequest(c)
  <2>1. AnswerOf(c)
    BY <1>9 DEF AnswerOf
  <2> QED
    BY <1>4, <1>9, <2>1 DEF InteractRequest, Speaking
<1>10. CASE InteractDone(c, FALSE)
  <2>1. AnswerOf(c)
    BY <1>10 DEF AnswerOf
  <2> QED
    BY <1>2, <1>10, <2>1 DEF InteractDone
<1>11. CASE InteractDone(c, TRUE)
  BY <1>5, <1>11 DEF InteractDone, Speaking, Dispatching
<1> QED
  BY <1>6, <1>7, <1>8, <1>9, <1>10, <1>11

\* A client that joins, and steps that leave the manager alone or crash it.
LEMMA OtherStepsPromises ==
  ASSUME IInv,
         \/ mgr' = mgr
         \/ mgr' = [mgr EXCEPT !.fault = "crashed"]
         \/ \E c \in Clients : mgr' = [mgr EXCEPT !.clients = @ \cup {c}]
  PROVE  Promises
<1>1. mgr \in Manager
  BY DEF IInv, TypeOK
<1>2. /\ mgr'.phase = mgr.phase /\ mgr'.jit = mgr.jit
      /\ SameLists(mgr, mgr')
  BY <1>1 DEF Manager, SameLists
<1>3. \A c \in Clients : ~(mgr'.jit[c] > mgr.jit[c])
  BY <1>1, <1>2 DEF Manager, MaxJit
<1> QED
  BY <1>1, <1>2, <1>3, SameListsInTurn DEF Promises

\* Inhibitors taken or released, one at a time.
LEMMA InhibitorsPromises ==
  ASSUME IInv,
         \/ \E c \in Clients : JitVanished(c)
         \/ \E k \in Cookies, flags \in {"logout", "other"} : Inhibit(k, flags)
         \/ \E k \in Cookies : Uninhibit(k)
  PROVE  Promises
<1>1. mgr \in Manager /\ Orderly(mgr)
  BY DEF IInv, TypeOK
<1>2. ASSUME NEW m \in Manager, Orderly(m), m.phase = mgr.phase, NoNewJit(mgr, m),
             SameLists(mgr, m),
             mgr' = m \/ mgr' = OnInhibitorRemoved(m)
      PROVE  Promises
  <2>1. Prudent(m, mgr') /\ Proper(m, mgr')
    BY <1>2, PrudentReflexive, OnwardReflexive, OnInhibitorRemovedPrudent,
       OnInhibitorRemovedProper DEF Proper
  <2> QED
    BY <1>2, <2>1, PrudentPromises
<1>3. ASSUME NEW c \in Clients, JitVanished(c)
      PROVE  Promises
  <2> DEFINE m == [mgr EXCEPT !.jit[c] = @ - 1]
  <2>1. mgr.jit[c] > 0 /\ mgr' = OnInhibitorRemoved(m)
    BY <1>3 DEF JitVanished
  <2>2. m \in Manager
    BY <1>1, <2>1 DEF Manager, MaxJit
  <2>3. Orderly(m)
    BY <1>1, <2>1 DEF Orderly, Manager, MaxJit, Empty
  <2>4. /\ m.phase = mgr.phase /\ NoNewJit(mgr, m) /\ SameLists(mgr, m)
    BY <1>1 DEF NoNewJit, Manager, MaxJit, SameLists
  <2> HIDE DEF m
  <2> QED
    BY <1>2, <2>1, <2>2, <2>3, <2>4
<1>4. ASSUME NEW k \in Cookies, NEW f \in Flags,
             \/ mgr' = [mgr EXCEPT !.inhibitors[k] = f]
             \/ mgr' = OnInhibitorRemoved([mgr EXCEPT !.inhibitors[k] = f])
      PROVE  Promises
  <2> DEFINE m == [mgr EXCEPT !.inhibitors[k] = f]
  <2>1. m \in Manager
    BY <1>1 DEF Manager
  <2>2. /\ Orderly(m) /\ m.phase = mgr.phase /\ NoNewJit(mgr, m)
        /\ SameLists(mgr, m)
    BY <1>1 DEF Orderly, NoNewJit, Manager, MaxJit, SameLists
  <2> HIDE DEF m
  <2> QED
    BY <1>2, <1>4, <2>1, <2>2 DEF m
<1>5. "none" \in Flags /\ "logout" \in Flags /\ "other" \in Flags
  BY DEF Flags
<1> QED
  BY <1>3, <1>4, <1>5 DEF Inhibit, Uninhibit

\* logind's announcement is the one step that ends the query of a shutdown.
LEMMA LogindPromises ==
  ASSUME IInv,
         PrepareForShutdown \/ \E success \in BOOLEAN : RebootOrPoweroffDone(success)
  PROVE  Promises
<1>1. mgr \in Manager /\ Orderly(mgr) /\ mgr.phase # "EXIT" /\ mgr' \in Manager
  BY LogindGood DEF IInv, TypeOK, Good, PrepareForShutdown, RebootOrPoweroffDone,
     Dispatching
<1>2. ASSUME PrepareForShutdown
      PROVE  Promises
  <2> DEFINE m == OnShutdownPrepared(mgr, TRUE)
  <2>1. /\ Proper(mgr, m) /\ mgr' = [m EXCEPT !.shutdown_expected = FALSE]
        /\ mgr.shutdown_expected
    BY <1>1, <1>2, OnShutdownPreparedProper DEF PrepareForShutdown
  <2>2. mgr.phase # "QUERY_END_SESSION" => SameLists(mgr, m)
    BY <1>1 DEF OnShutdownPrepared, Manager, SameLists
  <2> HIDE DEF m
  <2>3. /\ mgr'.jit = m.jit /\ ~mgr'.shutdown_expected
        /\ SameLists(mgr, m) => SameLists(mgr, mgr')
    BY <2>1 DEF Proper, Manager, SameLists
  <2>4. \A c \in Clients : ~(mgr'.jit[c] > mgr.jit[c])
    <3>1. \A c \in Clients : mgr'.jit[c] <= mgr.jit[c]
      BY <2>1, <2>3 DEF Proper, Onward
    <3>2. \A c \in Clients : mgr'.jit[c] \in Nat /\ mgr.jit[c] \in Nat
      BY <1>1 DEF Manager, MaxJit
    <3> QED
      BY <3>1, <3>2
  <2>5. InTurn
    BY <1>1, <2>2, <2>3, SameListsInTurn
  <2> QED
    BY <2>1, <2>3, <2>4, <2>5 DEF Promises
<1>3. ASSUME NEW success \in BOOLEAN, RebootOrPoweroffDone(success)
      PROVE  Promises
  <2> DEFINE m == [mgr EXCEPT !.logind_calls = @ - 1]
             n == [m EXCEPT !.shutdown_expected = FALSE]
  <2>1. /\ mgr.logind_calls > 0
        /\ mgr' = IF success THEN m ELSE OnShutdownPrepared(n, FALSE)
    BY <1>3 DEF RebootOrPoweroffDone
  <2>2. m \in Manager
    BY <1>1, <2>1 DEF Manager
  <2>3. n \in Manager
    BY <2>2 DEF Manager
  <2>4. /\ Orderly(m) /\ m.phase = mgr.phase /\ NoNewJit(mgr, m)
        /\ SameLists(mgr, m)
    BY <1>1 DEF Orderly, NoNewJit, Manager, MaxJit, SameLists
  <2>5. /\ Orderly(n) /\ n.phase = mgr.phase /\ NoNewJit(mgr, n)
        /\ SameLists(mgr, n)
    BY <1>1 DEF Orderly, NoNewJit, Manager, MaxJit, SameLists
  <2> HIDE DEF m, n
  <2>6. CASE success
    <3>1. Prudent(m, mgr') /\ Proper(m, mgr')
      BY <2>1, <2>2, <2>4, <2>6, PrudentReflexive, OnwardReflexive DEF Proper
    <3> QED
      BY <2>2, <2>4, <3>1, PrudentPromises
  <2>7. CASE ~success
    <3>1. Prudent(n, mgr') /\ Proper(n, mgr')
      BY <1>1, <2>1, <2>3, <2>5, <2>7, PreparationFailedPrudent, OnShutdownPreparedProper
    <3> QED
      BY <2>3, <2>5, <3>1, PrudentPromises
  <2> QED
    BY <2>6, <2>7
<1> QED
  BY <1>2, <1>3

\* Every step keeps the three promises.
LEMMA StepPromises ==
  ASSUME IInv, [Next]_vars
  PROVE  Promises
<1>1. CASE UNCHANGED vars
  BY <1>1, OtherStepsPromises DEF vars
<1>2. CASE UserSteps
  BY <1>2, LogoutPromises, ShutdownPromises, DialogConfirmedPromises,
     DialogCanceledPromises, OtherStepsPromises DEF UserSteps, EnvironmentChanges
<1>3. ASSUME NEW c \in Clients, RegisterClient(c) \/ XsmpClientConnects(c)
      PROVE  Promises
  BY <1>3, OtherStepsPromises DEF RegisterClient, XsmpClientConnects
<1>4. ASSUME NEW c \in Clients, \/ ClientLeavesBus(c)
                                \/ XsmpClientRegisters(c)
                                \/ UnregisteredClientBreaks(c)
      PROVE  Promises
  BY <1>4, OtherStepsPromises DEF ClientLeavesBus, XsmpClientRegisters,
     UnregisteredClientBreaks
<1>5. ASSUME NEW c \in Clients, OnClientVanished(c) \/ XsmpClientDisconnects(c)
      PROVE  Promises
  <2>1. mgr' = OnClientDisconnected(mgr, c)
    BY <1>5 DEF OnClientVanished, XsmpClientDisconnects
  <2>2. /\ mgr' \in Manager
        /\ Answers(mgr, mgr', c) /\ NoNewJit(mgr, mgr')
    BY <2>1, OnClientDisconnectedKeeps, OnClientDisconnectedAnswers DEF IInv, TypeOK
  <2>3. AnswerOf(c)
    BY <1>5 DEF AnswerOf
  <2> QED
    BY <2>2, <2>3, AnswersPromises
<1>6. CASE DBusClientSteps
  BY <1>3, <1>4, <1>5, <1>6, ClientAnswersPromises, InhibitorsPromises
     DEF DBusClientSteps, Clients
<1>7. CASE XsmpClientSteps
  BY <1>3, <1>4, <1>5, <1>7, ClientAnswersPromises DEF XsmpClientSteps, Clients
<1>8. CASE ApplicationSteps
  BY <1>8, InhibitorsPromises DEF ApplicationSteps
<1>9. CASE LogindSteps
  BY <1>9, LogindPromises DEF LogindSteps
<1>10. CASE QueryTimeout
  BY <1>10, QueryTimeoutPromises
<1>11. CASE PhaseTimeout
  <2>1. mgr \in Manager /\ Orderly(mgr) /\ mgr.phase = "END_SESSION"
        /\ mgr' = EndPhase(mgr)
    BY <1>11 DEF IInv, TypeOK, PhaseTimeout, Orderly
  <2>2. NoNewJit(mgr, mgr) /\ SameLists(mgr, mgr)
    BY <2>1, OnwardReflexive DEF Onward, NoNewJit, SameLists
  <2> QED
    BY <2>1, <2>2, EndPhasePrudent, EndPhaseProper, PrudentPromises
<1>12. CASE CrashAfterFreedAccess
  BY <1>12, OtherStepsPromises DEF CrashAfterFreedAccess
<1> QED
  BY <1>1, <1>2, <1>6, <1>7, <1>8, <1>9, <1>10, <1>11, <1>12 DEF Next, TimerSteps

\* Whoever objects, refuses or does not answer, and whatever else the manager
\* does in the same callback, the session does not move on in that step.
THEOREM ObjectionsHold == Spec => ObjectionHolds
<1>1. IInv /\ [Next]_vars
        => [(\E c \in Clients : mgr'.jit[c] > mgr.jit[c]) => mgr'.phase = mgr.phase]_vars
  BY StepPromises DEF Promises
<1> QED
  BY <1>1, Invariant, PTL DEF Spec, ObjectionHolds

\* No session starts to end for a shutdown or reboot before logind has said so,
\* however requests, answers, timeouts and inhibitors come one after the other.
THEOREM ShutdownsWait == Spec => ShutdownWaitsForLogind
<1>1. IInv /\ [Next]_vars
        => [mgr.phase = "QUERY_END_SESSION" /\ mgr'.phase \in {"END_SESSION", "EXIT"}
            /\ mgr'.logout_type = "SHUTDOWN"
              => mgr.shutdown_expected /\ ~mgr'.shutdown_expected]_vars
  BY StepPromises DEF Promises
<1> QED
  BY <1>1, Invariant, PTL DEF Spec, ShutdownWaitsForLogind

\* However answers, wishes and departures come, the end of the session passes
\* nobody over: a question is closed by the client's own answer only, and part 2
\* begins when nobody but the client that answers just then has one open.
THEOREM LastAreLast == Spec => LastComeLast
<1>1. IInv /\ [Next]_vars =>
        [mgr.phase = "END_SESSION" /\ mgr'.phase = "END_SESSION" =>
           \A c \in Clients :
             /\ mgr'.query_clients[c] < mgr.query_clients[c] => AnswerOf(c)
             /\ \/ mgr'.query_clients[c] > mgr.query_clients[c]
                \/ mgr'.next_query_clients[c] < mgr.next_query_clients[c]
                  => \A d \in Clients : mgr.query_clients[d] > 0 => AnswerOf(d)]_vars
  BY StepPromises DEF Promises, InTurn
<1> QED
  BY <1>1, Invariant, PTL DEF Spec, LastComeLast

-----------------------------------------------------------------------------
(* Liveness, from the fairness of GLib's timers.                           *)

\* GLib dispatches a timer that stays armed while the main loop runs.  This is
\* Fairness with the guards of the two actions in place of their ENABLED
\* conditions: each timer's action may be taken, and switches its timer off,
\* whenever its guard holds.
QueryTimerFires ==
  []<>~(Dispatching /\ mgr.query_timeout) \/ []<><<QueryTimeout>>_vars
PhaseTimerFires ==
  []<>~(Dispatching /\ mgr.phase_timeout) \/ []<><<PhaseTimeout>>_vars

\* The phase timer fires in END_SESSION only, and its phase is over then.
LEMMA PhaseTimeoutExits ==
  ASSUME IInv, PhaseTimeout
  PROVE  mgr.phase = "END_SESSION" /\ mgr'.phase = "EXIT"
<1>1. mgr \in Manager /\ Orderly(mgr) /\ mgr.phase = "END_SESSION"
      /\ mgr' = EndPhase(mgr)
  BY DEF IInv, TypeOK, PhaseTimeout, Orderly
<1> QED
  BY <1>1 DEF EndPhase, StartExit, ResetPhase, Manager

\* When the query timer has fired no question is open, or the phase is over;
\* in a forced logout the phase is over.
LEMMA QueryTimeoutDecides ==
  ASSUME IInv, QueryTimeout
  PROVE  /\ mgr.phase = "QUERY_END_SESSION"
         /\ mgr'.phase = "QUERY_END_SESSION" => mgr'.query_clients = Empty
         /\ mgr.logout_mode = "FORCE" /\ mgr.logout_type = "LOGOUT"
              => mgr'.phase # "QUERY_END_SESSION"
<1> DEFINE n == TimedOut
<1>1. /\ mgr.phase = "QUERY_END_SESSION" /\ mgr' = EndSessionOrShowDialog(n)
      /\ mgr' \in Manager /\ n \in Manager /\ Orderly(n)
      /\ n.phase = mgr.phase /\ n.logout_mode = mgr.logout_mode
      /\ n.logout_type = mgr.logout_type /\ n.query_clients = Empty
  BY TimedOutState, QueryTimeoutGood DEF Good
<1> HIDE DEF n
<1>2. Proper(n, mgr')
  BY <1>1, EndSessionOrShowDialogProper
<1>3. ASSUME mgr'.phase = "QUERY_END_SESSION"
      PROVE  mgr'.query_clients = Empty
  <2>1. \A c \in Clients : mgr'.query_clients[c] <= 0
    BY <1>1, <1>2, <1>3 DEF Proper, Onward, Empty
  <2>2. mgr'.query_clients \in [Clients -> 0 .. MaxLast]
    BY <1>1 DEF Manager
  <2>3. \A c \in Clients : mgr'.query_clients[c] = 0
    BY <2>1, <2>2
  <2> QED
    BY <2>2, <2>3 DEF Empty
<1>4. ASSUME mgr.logout_mode = "FORCE", mgr.logout_type = "LOGOUT"
      PROVE  mgr'.phase # "QUERY_END_SESSION"
  <2>1. mgr' = StartEndSession(n)
    BY <1>1, <1>4 DEF EndSessionOrShowDialog, Inhibited, EndPhase, EndQueryEndSession
  <2>2. StartEndSession(n).phase # "QUERY_END_SESSION"
    BY <1>1 DEF StartEndSession, StartExit, ResetPhase, Manager
  <2> QED
    BY <2>1, <2>2
<1> QED
  BY <1>1, <1>3, <1>4

\* END_SESSION is left in every behaviour in which the phase timer fires.
THEOREM EndSessionIsLeft == Spec /\ PhaseTimerFires => EndSessionTerminates
<1> DEFINE Q == mgr.phase # "END_SESSION" \/ ~Dispatching
           T == Dispatching /\ mgr.phase_timeout
<1>1. IInv => Q \/ T
  BY DEF IInv, Orderly
<1>2. IInv /\ <<PhaseTimeout>>_vars => Q'
  BY PhaseTimeoutExits
<1> HIDE DEF Q, T
<1>3. []IInv /\ ([]<>~T \/ []<><<PhaseTimeout>>_vars) => []<>Q
  BY <1>1, <1>2, PTL
<1>4. []<>Q => (mgr.phase = "END_SESSION" ~> Q)
  BY PTL
<1> QED
  BY <1>3, <1>4, Invariant, PTL DEF PhaseTimerFires, EndSessionTerminates, Q, T

\* Every query is decided in every behaviour in which the query timer fires:
\* however many clients never answer, one timeout is enough for all of them.
THEOREM QueriesAreAnswered == Spec /\ QueryTimerFires => QueryIsAnswered
<1> DEFINE P == mgr.phase = "QUERY_END_SESSION" /\ mgr.query_clients # Empty
           Q == mgr.phase # "QUERY_END_SESSION" \/ mgr.query_clients = Empty
                \/ ~Dispatching
           T == Dispatching /\ mgr.query_timeout
<1>1. IInv => Q \/ T
  BY DEF IInv, Orderly
<1>2. IInv /\ <<QueryTimeout>>_vars => Q'
  BY QueryTimeoutDecides
<1> HIDE DEF P, Q, T
<1>3. []IInv /\ ([]<>~T \/ []<><<QueryTimeout>>_vars) => []<>Q
  BY <1>1, <1>2, PTL
<1>4. []<>Q => (P ~> Q)
  BY PTL
<1> QED
  BY <1>3, <1>4, Invariant, PTL DEF QueryTimerFires, QueryIsAnswered, P, Q, T

\* A forced logout waits in the query phase only while the query timer runs:
\* nothing else holds it up there.
ForcedIsTimed(m) ==
  m.phase = "QUERY_END_SESSION" /\ m.logout_mode = "FORCE" /\ m.logout_type = "LOGOUT"
    => m.query_timeout

\* Cancelling leaves the query phase, where there is one.
LEMMA CancelRuns ==
  ASSUME NEW m \in Manager
  PROVE  CancelEndSession(m).phase = "RUNNING"
BY DEF CancelEndSession, StartRunning, ResetPhase, Manager

\* So does starting to end the session.
LEMMA StartEndSessionLeavesQuery ==
  ASSUME NEW m \in Manager
  PROVE  StartEndSession(m).phase \in {"END_SESSION", "EXIT"}
BY DEF StartEndSession, StartExit, ResetPhase, Manager

\* The end of a phase leads a forced logout on, or it is a shutdown; the start
\* of a query arms the timer.
LEMMA EndPhaseForced ==
  ASSUME NEW m \in Manager
  PROVE  ForcedIsTimed(EndPhase(m))
<1> DEFINE z == ResetPhase(m)
           r == [z EXCEPT !.prepared_handler = TRUE]
           d == [r EXCEPT !.prepared_handler = FALSE, !.dialog_signals = FALSE]
           e == EndPhase(m)
<1>1. CASE m.phase = "QUERY_END_SESSION" /\ m.logout_type # "SHUTDOWN"
  <2>1. e = StartEndSession(m)
    BY <1>1 DEF EndPhase, EndQueryEndSession
  <2> QED
    BY <2>1, StartEndSessionLeavesQuery DEF ForcedIsTimed
<1>2. CASE m.phase = "QUERY_END_SESSION" /\ m.logout_type = "SHUTDOWN"
  <2>1. e = PrepareShutdown(z)
    BY <1>2 DEF EndPhase, EndQueryEndSession
  <2>2. z \in Manager /\ z.logout_type = "SHUTDOWN"
    BY <1>2, ResetPhaseType DEF ResetPhase, Manager
  <2> HIDE DEF z
  <2>3. CASE logindUp
    <3>1. e.logout_type = "SHUTDOWN"
      BY <2>1, <2>2, <2>3 DEF PrepareShutdown, Manager
    <3> QED
      BY <3>1 DEF ForcedIsTimed
  <2>4. CASE ~logindUp
    <3>1. e = OnShutdownPrepared(r, FALSE)
      BY <2>1, <2>4 DEF PrepareShutdown
    <3>2. r.prepared_handler /\ d \in Manager
      BY <2>2 DEF Manager
    <3>3. e = CancelEndSession(d)
      BY <3>1, <3>2 DEF OnShutdownPrepared
    <3> QED
      BY <3>2, <3>3, CancelRuns DEF ForcedIsTimed
  <2> QED
    BY <2>3, <2>4
<1>3. CASE m.phase = "RUNNING"
  <2>1. e \in {z, StartQueryEndSession(m)}
    BY <1>3 DEF EndPhase
  <2>2. z.phase = "RUNNING"
    BY <1>3 DEF ResetPhase, Manager
  <2>3. StartQueryEndSession(m).query_timeout
    BY DEF StartQueryEndSession, ResetPhase, Manager
  <2> QED
    BY <2>1, <2>2, <2>3 DEF ForcedIsTimed
<1>4. CASE m.phase \notin {"RUNNING", "QUERY_END_SESSION"}
  <2>1. e = StartExit(m)
    BY <1>4 DEF EndPhase
  <2>2. e.phase = "EXIT"
    BY <2>1 DEF StartExit, ResetPhase, Manager
  <2> QED
    BY <2>2 DEF ForcedIsTimed
<1> QED
  BY <1>1, <1>2, <1>3, <1>4

\* The dialog is never shown instead of ending a forced logout's phase.
LEMMA EndSessionOrShowDialogForced ==
  ASSUME NEW m \in Manager
  PROVE  ForcedIsTimed(EndSessionOrShowDialog(m))
<1> DEFINE d == [m EXCEPT !.dialog_signals = @ \/ shellRunning]
<1>1. CASE m.logout_mode = "FORCE"
  <2>1. EndSessionOrShowDialog(m) = EndPhase(m)
    BY <1>1 DEF EndSessionOrShowDialog, Inhibited
  <2> QED
    BY <2>1, EndPhaseForced
<1>2. CASE m.logout_mode # "FORCE"
  <2>1. d.logout_mode # "FORCE"
    BY <1>2 DEF Manager
  <2>2. EndSessionOrShowDialog(m) \in {d, EndPhase(m)}
    BY DEF EndSessionOrShowDialog
  <2> HIDE DEF d
  <2> QED
    BY <2>1, <2>2, EndPhaseForced DEF ForcedIsTimed
<1> QED
  BY <1>1, <1>2

\* Whatever phase an inhibitor is removed in.
LEMMA OnInhibitorRemovedForced ==
  ASSUME NEW m \in Manager
  PROVE  ForcedIsTimed(OnInhibitorRemoved(m))
BY EndSessionOrShowDialogForced DEF OnInhibitorRemoved, ForcedIsTimed

\* And however many of a client's inhibitors.
LEMMA RemoveJitForced ==
  ASSUME NEW m \in Manager, Orderly(m), NEW c \in Clients, ForcedIsTimed(m)
  PROVE  ForcedIsTimed(RemoveJit(m, c))
<1> DEFINE r == [m EXCEPT !.jit[c] = 0]
           s == OnInhibitorRemoved(r)
<1>1. r \in Manager
  BY DEF Manager, MaxJit
<1>2. Orderly(r)
  BY DEF Orderly, Manager, MaxJit, Empty
<1>3. RemoveJit(m, c) \in {m, s, OnInhibitorRemoved(s)}
  BY DEF RemoveJit
<1> HIDE DEF r
<1>4. s \in Manager /\ ForcedIsTimed(s)
  BY <1>1, <1>2, OnInhibitorRemovedProper, OnInhibitorRemovedForced DEF Proper
<1> HIDE DEF s
<1> QED
  BY <1>3, <1>4, OnInhibitorRemovedForced

\* The last answer of the query drops the timer and ends the phase.
LEMMA AfterResponseForced ==
  ASSUME NEW m \in Manager, Orderly(m), NEW c \in Clients, NEW do_last \in BOOLEAN,
         m.phase = "END_SESSION" /\ do_last => m.next_query_clients[c] < MaxLast,
         ForcedIsTimed(m)
  PROVE  ForcedIsTimed(AfterResponse(m, c, do_last))
<1> DEFINE q == [m EXCEPT !.query_timeout = FALSE]
           n == AfterResponse(m, c, do_last)
<1>1. CASE m.phase = "QUERY_END_SESSION"
  <2>1. n \in {m, EndSessionOrShowDialog(q)}
    BY <1>1 DEF AfterResponse
  <2>2. q \in Manager /\ q.phase # "RUNNING"
    BY <1>1 DEF Manager
  <2> HIDE DEF q
  <2> QED
    BY <2>1, <2>2, EndSessionOrShowDialogForced
<1>2. CASE m.phase # "QUERY_END_SESSION"
  <2>1. Advances(m, n)
    BY AfterResponseProper
  <2> QED
    BY <1>2, <2>1 DEF Advances, ForcedIsTimed
<1> QED
  BY <1>1, <1>2

\* Any answer of a client.
LEMMA HandleResponseForced ==
  ASSUME NEW m \in Manager, Orderly(m), NEW c \in Clients, NEW is_ok \in BOOLEAN,
         NEW do_last \in BOOLEAN, do_last => m.next_query_clients[c] < MaxLast,
         ~is_ok => ~do_last /\ c \in m.clients /\ m.jit[c] < MaxJit,
         ForcedIsTimed(m)
  PROVE  ForcedIsTimed(HandleResponse(m, c, is_ok, do_last))
<1> DEFINE r == [m EXCEPT !.query_clients[c] = IF @ > 0 THEN @ - 1 ELSE 0]
           o == [r EXCEPT !.jit[c] = @ + 1]
           h == HandleResponse(m, c, is_ok, do_last)
<1>1. CASE m.phase = "RUNNING"
  BY <1>1 DEF HandleResponse
<1>2. r \in Manager
  BY DEF Manager
<1>3. /\ r.phase = m.phase /\ r.logout_mode = m.logout_mode /\ r.jit = m.jit
      /\ r.logout_type = m.logout_type /\ r.query_timeout = m.query_timeout
      /\ r.next_query_clients = m.next_query_clients
  BY DEF Manager
<1>4. CASE m.phase # "RUNNING" /\ ~is_ok /\ m.logout_mode # "FORCE"
  <2>1. h = AfterResponse(o, c, do_last)
    BY <1>4 DEF HandleResponse, Manager
  <2>2. r.jit[c] + 1 \in 0 .. MaxJit
    BY <1>3, <1>4 DEF Manager, MaxJit
  <2>3. o \in Manager
    BY <1>2, <2>2 DEF Manager
  <2>4. Orderly(o)
    BY <1>4 DEF Orderly, Manager, Empty, MaxJit
  <2>5. o.logout_mode # "FORCE"
    BY <1>4 DEF Manager
  <2> HIDE DEF o
  <2> QED
    BY <1>4, <2>1, <2>3, <2>4, <2>5, AfterResponseForced DEF ForcedIsTimed
<1>5. CASE m.phase # "RUNNING" /\ (is_ok \/ m.logout_mode = "FORCE")
  <2>1. h = AfterResponse(RemoveJit(r, c), c, do_last)
    BY <1>5 DEF HandleResponse
  <2>2. Orderly(r)
    BY <1>5 DEF Orderly, Manager, Empty
  <2> DEFINE j == RemoveJit(r, c)
  <2> HIDE DEF r
  <2>3. Proper(r, j) /\ ForcedIsTimed(j)
    BY <1>2, <1>3, <2>2, RemoveJitProper, RemoveJitForced DEF ForcedIsTimed
  <2> HIDE DEF j
  <2>4. j \in Manager /\ Orderly(j)
    BY <2>3 DEF Proper
  <2>5. do_last => j.next_query_clients[c] < MaxLast
    BY <1>2, <1>3, <2>3, <2>4 DEF Proper, Onward, Manager
  <2> QED
    BY <2>1, <2>3, <2>4, <2>5, AfterResponseForced DEF j
<1> QED
  BY <1>1, <1>4, <1>5

\* A client that leaves.
LEMMA OnClientDisconnectedForced ==
  ASSUME NEW m \in Manager, Orderly(m), NEW c \in Clients, ForcedIsTimed(m)
  PROVE  ForcedIsTimed(OnClientDisconnected(m, c))
<1> DEFINE r == RemoveJit(m, c)
           d == DisconnectClient(m, c)
           s == [d EXCEPT !.clients = @ \ {c}]
           o == OnClientDisconnected(m, c)
<1>1. r \in Manager /\ Orderly(r) /\ ForcedIsTimed(r)
  BY RemoveJitProper, RemoveJitForced DEF Proper
<1>2. d \in {r, HandleResponse(r, c, TRUE, FALSE)}
  BY DEF DisconnectClient
<1>3. o = IF d.phase # "RUNNING" /\ s.clients = {} THEN EndPhase(s) ELSE s
  BY DEF OnClientDisconnected
<1>4. d \in Manager
  BY DisconnectClientProper DEF Proper
<1> HIDE DEF r, d
<1>5. ForcedIsTimed(d)
  BY <1>1, <1>2, HandleResponseForced
<1>6. s \in Manager
  BY <1>4 DEF Manager
<1>7. /\ s.phase = d.phase /\ s.logout_mode = d.logout_mode
      /\ s.logout_type = d.logout_type /\ s.query_timeout = d.query_timeout
  BY <1>4 DEF Manager
<1> HIDE DEF s
<1> QED
  BY <1>3, <1>5, <1>6, <1>7, EndPhaseForced DEF ForcedIsTimed

\* Every step keeps a forced logout's query timed.
LEMMA StepForced ==
  ASSUME IInv, ForcedIsTimed(mgr), [Next]_vars
  PROVE  ForcedIsTimed(mgr')
<1>1. mgr \in Manager /\ Orderly(mgr)
  BY DEF IInv, TypeOK
<1>2. ASSUME mgr' = mgr
      PROVE  ForcedIsTimed(mgr')
  BY <1>2
<1>3. ASSUME NEW n \in Manager, mgr' = EndPhase(n) \/ mgr' = EndSessionOrShowDialog(n)
      PROVE  ForcedIsTimed(mgr')
  BY <1>3, EndPhaseForced, EndSessionOrShowDialogForced
<1>4. ASSUME NEW n \in Manager, ForcedIsTimed(n), mgr'.phase = n.phase,
             mgr'.logout_mode = n.logout_mode, mgr'.logout_type = n.logout_type,
             mgr'.query_timeout = n.query_timeout
      PROVE  ForcedIsTimed(mgr')
  BY <1>4 DEF ForcedIsTimed
<1>5. ASSUME NEW mode \in Modes, Logout(mode)
      PROVE  ForcedIsTimed(mgr')
  <2> DEFINE m == [mgr EXCEPT !.logout_mode = mode]
             n == [m EXCEPT !.logout_type = "LOGOUT"]
  <2>1. m \in Manager /\ n \in Manager
    BY <1>1 DEF Manager, Types
  <2>2. mgr' = EndPhase(n) \/ mgr' = EndSessionOrShowDialog(m)
    BY <1>5 DEF Logout
  <2> HIDE DEF n, m
  <2> QED
    BY <1>3, <2>1, <2>2
<1>6. ASSUME Shutdown
      PROVE  ForcedIsTimed(mgr')
  <2> DEFINE m == [mgr EXCEPT !.tasks = @ + 1, !.logout_type = "SHUTDOWN"]
  <2>1. mgr.tasks + 1 \in 0 .. MaxTasks /\ mgr' = EndPhase(m)
    BY <1>1, <1>6 DEF Shutdown, Manager
  <2>2. m \in Manager
    BY <1>1, <2>1 DEF Manager, Types
  <2> HIDE DEF m
  <2> QED
    BY <1>3, <2>1, <2>2
<1>7. ASSUME NEW type \in {"LOGOUT", "SHUTDOWN"}, DialogConfirmed(type)
      PROVE  ForcedIsTimed(mgr')
  <2> DEFINE m == [mgr EXCEPT !.logout_mode = "FORCE", !.logout_type = type]
             e == IF mgr.phase = "END_SESSION" THEN mgr ELSE EndPhase(m)
  <2>1. mgr' = [e EXCEPT !.dialog_signals = FALSE] /\ mgr' \in Manager
    BY <1>7, DialogConfirmedGood DEF DialogConfirmed, Good
  <2>2. m \in Manager /\ m.phase = mgr.phase /\ m.jit = mgr.jit
    BY <1>1 DEF Manager, Modes, Types
  <2>3. Orderly(m)
    BY <1>1 DEF Orderly, Manager
  <2> HIDE DEF m
  <2>4. ForcedIsTimed(e)
    BY <2>2, EndPhaseForced DEF ForcedIsTimed
  <2>5. e \in Manager
    <3>1. CASE mgr.phase = "RUNNING"
      <4>1. m.jit = Empty
        BY <1>1, <2>2, <3>1 DEF Orderly
      <4>2. e = ResetPhase(m) \/ e = StartQueryEndSession(m)
        BY <2>2, <3>1 DEF EndPhase
      <4> QED
        BY <2>2, <4>1, <4>2, ResetPhaseType, StartQueryOrderly
    <3>2. CASE mgr.phase # "RUNNING"
      BY <1>1, <2>2, <2>3, <3>2, EndPhaseProper DEF Proper
    <3> QED
      BY <3>1, <3>2
  <2> HIDE DEF e
  <2>6. /\ mgr'.phase = e.phase /\ mgr'.logout_mode = e.logout_mode
        /\ mgr'.logout_type = e.logout_type /\ mgr'.query_timeout = e.query_timeout
    BY <2>1, <2>5 DEF Manager
  <2> QED
    BY <1>4, <2>4, <2>5, <2>6
<1>8. ASSUME DialogCanceled
      PROVE  ForcedIsTimed(mgr')
  <2>1. mgr' = [CancelEndSession(mgr) EXCEPT !.dialog_signals = FALSE]
        /\ mgr.phase # "EXIT"
    BY <1>8 DEF DialogCanceled, Dispatching
  <2>2. CancelEndSession(mgr).phase = "RUNNING" /\ CancelEndSession(mgr) \in Manager
    BY <1>1, <2>1, CancelRuns, CancelEndSessionProper DEF Proper
  <2>3. mgr'.phase = "RUNNING"
    BY <2>1, <2>2 DEF Manager
  <2> QED
    BY <2>3 DEF ForcedIsTimed
<1>9. CASE QueryTimeout
  BY <1>3, <1>9, TimedOutState
<1>10. CASE PhaseTimeout
  BY <1>1, <1>3, <1>10 DEF PhaseTimeout
<1>11. ASSUME NEW c \in Clients,
              \/ \E is_ok \in BOOLEAN : EndSessionResponse(c, is_ok)
              \/ SaveYourselfDone(c)
              \/ Phase2Request(c)
              \/ InteractRequest(c)
              \/ \E cancel_shutdown \in BOOLEAN : InteractDone(c, cancel_shutdown)
       PROVE  ForcedIsTimed(mgr')
  <2>1. CASE mgr' = HandleResponse(mgr, c, TRUE, FALSE)
    BY <1>1, <2>1, HandleResponseForced
  <2>2. CASE /\ mgr' = HandleResponse(mgr, c, TRUE, TRUE)
             /\ mgr.next_query_clients[c] < MaxLast
    BY <1>1, <2>2, HandleResponseForced
  <2>3. CASE /\ mgr' = HandleResponse(mgr, c, FALSE, FALSE)
             /\ mgr.jit[c] < MaxJit /\ c \in mgr.clients
    BY <1>1, <2>3, HandleResponseForced
  <2>4. CASE mgr' = CancelEndSession(mgr)
    BY <1>1, <2>4, CancelRuns DEF ForcedIsTimed
  <2> QED
    BY <1>11, <2>1, <2>2, <2>3, <2>4 DEF EndSessionResponse, SaveYourselfDone,
       Phase2Request, InteractRequest, InteractDone, Speaking
<1>12. ASSUME NEW c \in Clients, OnClientVanished(c) \/ XsmpClientDisconnects(c)
       PROVE  ForcedIsTimed(mgr')
  BY <1>1, <1>12, OnClientDisconnectedForced DEF OnClientVanished, XsmpClientDisconnects
<1>13. ASSUME NEW c \in Clients, RegisterClient(c) \/ XsmpClientConnects(c)
       PROVE  ForcedIsTimed(mgr')
  <2>1. mgr' = [mgr EXCEPT !.clients = @ \cup {c}]
    BY <1>13 DEF RegisterClient, XsmpClientConnects
  <2>2. /\ mgr'.phase = mgr.phase /\ mgr'.logout_mode = mgr.logout_mode
        /\ mgr'.logout_type = mgr.logout_type /\ mgr'.query_timeout = mgr.query_timeout
    BY <1>1, <2>1 DEF Manager
  <2> QED
    BY <1>1, <1>4, <2>2
<1>14. ASSUME NEW c \in Clients, JitVanished(c)
       PROVE  ForcedIsTimed(mgr')
  <2>1. mgr' = OnInhibitorRemoved([mgr EXCEPT !.jit[c] = @ - 1]) /\ mgr.jit[c] > 0
    BY <1>14 DEF JitVanished
  <2>2. [mgr EXCEPT !.jit[c] = @ - 1] \in Manager
    BY <1>1, <2>1 DEF Manager, MaxJit
  <2> QED
    BY <2>1, <2>2, OnInhibitorRemovedForced
<1>15. ASSUME NEW k \in Cookies, \/ \E flags \in {"logout", "other"} : Inhibit(k, flags)
                                 \/ Uninhibit(k)
       PROVE  ForcedIsTimed(mgr')
  <2>1. PICK f \in Flags : \/ mgr' = [mgr EXCEPT !.inhibitors[k] = f]
                           \/ mgr' = OnInhibitorRemoved([mgr EXCEPT !.inhibitors[k] = f])
    BY <1>15 DEF Inhibit, Uninhibit, Flags
  <2> DEFINE m == [mgr EXCEPT !.inhibitors[k] = f]
  <2>2. m \in Manager
    BY <1>1 DEF Manager
  <2>3. /\ m.phase = mgr.phase /\ m.logout_mode = mgr.logout_mode
        /\ m.logout_type = mgr.logout_type /\ m.query_timeout = mgr.query_timeout
    BY <1>1 DEF Manager
  <2>4. mgr' = m \/ mgr' = OnInhibitorRemoved(m)
    BY <2>1
  <2> HIDE DEF m
  <2> QED
    BY <1>1, <1>4, <2>2, <2>3, <2>4, OnInhibitorRemovedForced
<1>16. ASSUME LogindSteps
       PROVE  ForcedIsTimed(mgr')
  <2>1. ASSUME NEW n \in Manager, Orderly(n), n.phase # "EXIT", ForcedIsTimed(n),
               NEW success \in BOOLEAN
        PROVE  ForcedIsTimed(OnShutdownPrepared(n, success))
    <3> DEFINE r == [n EXCEPT !.prepared_handler = FALSE]
               d == [r EXCEPT !.dialog_signals = FALSE]
               f == [r EXCEPT !.fault = "assertion"]
    <3>1. r \in Manager /\ d \in Manager
      BY DEF Manager
    <3>2. f.phase = n.phase
      BY DEF Manager
    <3>3. \/ OnShutdownPrepared(n, success) \in {n, CancelEndSession(d), StartEndSession(r)}
          \/ OnShutdownPrepared(n, success) = f /\ n.phase # "QUERY_END_SESSION"
      BY DEF OnShutdownPrepared
    <3> HIDE DEF r, d, f
    <3> QED
      BY <2>1, <3>1, <3>2, <3>3, CancelRuns, StartEndSessionLeavesQuery DEF ForcedIsTimed
  <2>2. CASE PrepareForShutdown
    <3> DEFINE m == OnShutdownPrepared(mgr, TRUE)
    <3>1. mgr' = [m EXCEPT !.shutdown_expected = FALSE] /\ mgr.phase # "EXIT"
      BY <2>2 DEF PrepareForShutdown, Dispatching
    <3>2. m \in Manager /\ ForcedIsTimed(m)
      BY <1>1, <2>1, <3>1, OnShutdownPreparedProper DEF Proper
    <3> HIDE DEF m
    <3>3. /\ mgr'.phase = m.phase /\ mgr'.logout_mode = m.logout_mode
          /\ mgr'.logout_type = m.logout_type /\ mgr'.query_timeout = m.query_timeout
      BY <3>1, <3>2 DEF Manager
    <3> QED
      BY <1>4, <3>2, <3>3
  <2>3. ASSUME NEW success \in BOOLEAN, RebootOrPoweroffDone(success)
        PROVE  ForcedIsTimed(mgr')
    <3> DEFINE m == [mgr EXCEPT !.logind_calls = @ - 1]
               n == [m EXCEPT !.shutdown_expected = FALSE]
    <3>1. /\ mgr.logind_calls > 0 /\ mgr.phase # "EXIT"
          /\ mgr' = IF success THEN m ELSE OnShutdownPrepared(n, FALSE)
      BY <2>3 DEF RebootOrPoweroffDone, Dispatching
    <3>2. m \in Manager
      BY <1>1, <3>1 DEF Manager
    <3>3. n \in Manager
      BY <3>2 DEF Manager
    <3>4. /\ m.phase = mgr.phase /\ m.logout_mode = mgr.logout_mode
          /\ m.logout_type = mgr.logout_type /\ m.query_timeout = mgr.query_timeout
          /\ n.phase = mgr.phase /\ n.logout_mode = mgr.logout_mode
          /\ n.logout_type = mgr.logout_type /\ n.query_timeout = mgr.query_timeout
      BY <1>1 DEF Manager
    <3>5. Orderly(n)
      BY <1>1 DEF Orderly, Manager
    <3> HIDE DEF m, n
    <3>6. ForcedIsTimed(m) /\ ForcedIsTimed(n)
      BY <3>4 DEF ForcedIsTimed
    <3> QED
      BY <2>1, <3>1, <3>3, <3>4, <3>5, <3>6
  <2> QED
    BY <1>16, <2>2, <2>3 DEF LogindSteps
<1>17. CASE CrashAfterFreedAccess
  <2>1. /\ mgr'.phase = mgr.phase /\ mgr'.logout_mode = mgr.logout_mode
        /\ mgr'.logout_type = mgr.logout_type /\ mgr'.query_timeout = mgr.query_timeout
    BY <1>1, <1>17 DEF CrashAfterFreedAccess, Manager
  <2> QED
    BY <1>1, <1>4, <2>1
<1>18. CASE UserSteps
  BY <1>2, <1>5, <1>6, <1>7, <1>8, <1>18 DEF UserSteps, EnvironmentChanges
<1>19. CASE DBusClientSteps
  BY <1>2, <1>11, <1>12, <1>13, <1>14, <1>19 DEF DBusClientSteps, Clients, ClientLeavesBus
<1>20. CASE XsmpClientSteps
  BY <1>2, <1>11, <1>12, <1>13, <1>20 DEF XsmpClientSteps, Clients, XsmpClientRegisters,
     UnregisteredClientBreaks
<1>21. CASE UNCHANGED vars
  BY <1>2, <1>21 DEF vars
<1> QED
  BY <1>9, <1>10, <1>15, <1>16, <1>17, <1>18, <1>19, <1>20, <1>21
     DEF Next, TimerSteps, ApplicationSteps

\* In every reachable state a forced logout's query is timed.
LEMMA ForcedTimed == Spec => []ForcedIsTimed(mgr)
<1>1. Init => ForcedIsTimed(mgr)
  BY DEF Init, ForcedIsTimed
<1>2. IInv /\ ForcedIsTimed(mgr) /\ [Next]_vars => ForcedIsTimed(mgr)'
  <2>1. ASSUME IInv, ForcedIsTimed(mgr), [Next]_vars
        PROVE  ForcedIsTimed(mgr')
    BY <2>1, StepForced
  <2> QED
    BY <2>1 DEF ForcedIsTimed
<1> QED
  BY <1>1, <1>2, Invariant, PTL DEF Spec

\* A forced logout is decided in every behaviour in which both timers fire: no
\* client, inhibitor, missing shell or silent application holds it up.
THEOREM ForcedLogoutsEnd ==
  Spec /\ QueryTimerFires /\ PhaseTimerFires => ForcedLogoutEnds
<1> DEFINE P == mgr.logout_mode = "FORCE" /\ mgr.logout_type = "LOGOUT"
                /\ mgr.phase # "RUNNING"
           Q == \/ mgr.phase \in {"EXIT", "RUNNING"}
                \/ mgr.logout_mode # "FORCE" \/ mgr.logout_type # "LOGOUT"
                \/ ~Dispatching
           A == mgr.phase = "QUERY_END_SESSION"
           E == mgr.phase = "END_SESSION"
           TQ == Dispatching /\ mgr.query_timeout
           TP == Dispatching /\ mgr.phase_timeout
           F == ForcedIsTimed(mgr)
<1>1. IInv => Q \/ A \/ E
  BY DEF IInv, TypeOK, Manager, Phases
<1>2. F => Q \/ ~A \/ TQ
  BY DEF ForcedIsTimed
<1>3. IInv /\ <<QueryTimeout>>_vars => Q \/ ~A'
  BY QueryTimeoutDecides
<1>4. IInv => Q \/ ~E \/ TP
  BY DEF IInv, Orderly
<1>5. IInv /\ <<PhaseTimeout>>_vars => Q'
  BY PhaseTimeoutExits
<1>6. IInv /\ [Next]_vars /\ E => ~A'
  <2>1. SUFFICES ASSUME IInv, [Next]_vars, E PROVE ~A'
    OBVIOUS
  <2>2. SessionStep /\ mgr \in Manager
    BY <2>1, StepGood DEF Good, IInv, TypeOK
  <2> QED
    BY <2>1, <2>2 DEF SessionStep, Advances, Manager
<1> HIDE DEF P, Q, A, E, TQ, TP, F
<1>7. []IInv /\ []F /\ [][Next]_vars
      /\ ([]<>~TQ \/ []<><<QueryTimeout>>_vars)
      /\ ([]<>~TP \/ []<><<PhaseTimeout>>_vars)
        => []<>Q
  BY <1>1, <1>2, <1>3, <1>4, <1>5, <1>6, PTL
<1>8. []<>Q => (P ~> Q)
  BY PTL
<1> QED
  BY <1>7, <1>8, Invariant, ForcedTimed, PTL
     DEF Spec, QueryTimerFires, PhaseTimerFires, ForcedLogoutEnds, P, Q, TQ, TP, F
=============================================================================
