-------------------------- MODULE ShellDialogProofs --------------------------
(***************************************************************************)
(* Theorems about ShellDialog, for any inhibitors, types and bounds.       *)
(*                                                                         *)
(* That a decision is due holds by a stronger invariant: the last call on  *)
(* the way to the shell is an Open, or nothing is and the dialog is shown, *)
(* or the failure or the decision is on its way back.  It has to hold      *)
(* whenever the manager's handlers are connected OR an Open is believed to *)
(* be unanswered, since such an Open is not repeated for new handlers; and *)
(* a Close must be the last word of a manager that waits for nothing.      *)
(* That the dialog names those who inhibit follows whatever is under way:  *)
(* the last Open names them, or an update is still to be made.             *)
(***************************************************************************)
EXTENDS ShellDialog, FiniteSetTheorems, SequenceTheorems, TLAPS

AllInhibitors == Inhibitors \cup Jit
Phases == {"RUNNING", "QUERY_END_SESSION", "END_SESSION", "EXIT"}
Outs == {<<>>} \cup {<<c>> : c \in Calls}

\* A session manager while a callback runs, which makes one call at most.
Manager ==
  [is_running : BOOLEAN, proxy : BOOLEAN, dialog_is_open : BOOLEAN,
   type : LogoutTypes, update : BOOLEAN, watching : BOOLEAN,
   phase : Phases, mode : {"NORMAL", "FORCE"}, logout_type : LogoutTypes \cup {"NONE"},
   preparing : BOOLEAN, handlers : BOOLEAN,
   inhibitors : SUBSET AllInhibitors, out : Outs]

Typed(s) == s.phase # "RUNNING" => s.logout_type # "NONE"
Waits(s) == s.handlers \/ s.dialog_is_open
AsksToOpen(s) == s.out # <<>> /\ s.out[1].method = "Open"
AsksToClose(s) == s.out # <<>> /\ s.out[1].method # "Open"

\* What a callback may make of the manager s: it waits for the shell only if it
\* did before or asks it now, and it asks it to close only if it waits no more.
Leads(s, r) ==
  /\ r \in Manager
  /\ Typed(s) => Typed(r)
  /\ r.dialog_is_open => s.dialog_is_open \/ AsksToOpen(r)
  /\ Waits(r) => Waits(s) \/ AsksToOpen(r)
  /\ AsksToClose(r) => ~Waits(r)

\* A callback that makes no call and waits for no more than before.
Calm(s, r) ==
  /\ r \in Manager /\ r.out = s.out
  /\ Typed(s) => Typed(r)
  /\ r.dialog_is_open => s.dialog_is_open
  /\ r.handlers => s.handlers

Quiet(s) == s \in Manager /\ s.out = <<>>

-----------------------------------------------------------------------------
(* The functions.                                                           *)

LEMMA CalmLeads ==
  ASSUME NEW s, NEW r, Quiet(s), Calm(s, r)
  PROVE  Leads(s, r)
  BY DEF Quiet, Calm, Leads, Waits, AsksToOpen, AsksToClose

LEMMA CalmThenLeads ==
  ASSUME NEW s, NEW q, NEW r, Quiet(s), Calm(s, q), Leads(q, r)
  PROVE  Leads(s, r)
  BY DEF Quiet, Calm, Leads, Waits, AsksToOpen, AsksToClose

LEMMA OpenLeads ==
  ASSUME NEW s, Quiet(s), NEW type \in LogoutTypes
  PROVE  /\ Leads(s, Open(s, type))
         /\ Open(s, type).phase = s.phase /\ Open(s, type).logout_type = s.logout_type
         /\ \/ AsksToOpen(Open(s, type))
            \/ Open(s, type) = s /\ s.dialog_is_open
         /\ ~AsksToClose(Open(s, type))
<1>1. CASE s.dialog_is_open
  BY <1>1 DEF Open, Leads, Quiet, Waits, AsksToOpen, AsksToClose
<1>2. CASE ~s.dialog_is_open
  <2> DEFINE c == [method |-> "Open", type |-> type, inhibitors |-> s.inhibitors]
             r == Open(s, type)
  <2>1. c \in Calls /\ c.method = "Open"
    BY DEF Quiet, Manager, Calls, AllInhibitors
  <2>2. Append(<<>>, c) = <<c>>
    OBVIOUS
  <2>3. r = [s EXCEPT !.proxy = TRUE, !.watching = TRUE, !.dialog_is_open = TRUE,
                      !.type = type, !.out = <<c>>]
    BY <1>2, <2>2 DEF Open, Quiet
  <2>4. <<c>> \in Outs
    BY <2>1 DEF Outs
  <2> HIDE DEF c, r
  <2>5. r \in Manager /\ r.out = <<c>> /\ r.phase = s.phase /\ r.logout_type = s.logout_type
    BY <2>3, <2>4 DEF Quiet, Manager
  <2>6. AsksToOpen(r) /\ ~AsksToClose(r)
    BY <2>1, <2>5 DEF AsksToOpen, AsksToClose
  <2> QED
    BY <2>5, <2>6 DEF Leads, Typed, r
<1> QED
  BY <1>1, <1>2

LEMMA CloseLeads ==
  ASSUME NEW s, Quiet(s), ~s.handlers
  PROVE  Leads(s, Close(s)) /\ ~Close(s).handlers
<1>1. CASE ~s.proxy
  BY <1>1 DEF Close, Leads, Quiet, Waits, AsksToOpen, AsksToClose
<1>2. CASE s.proxy
  <2> DEFINE c == [method |-> "Close"]
             r == Close(s)
  <2>1. c \in Calls /\ c.method # "Open"
    BY DEF Calls
  <2>2. Append(<<>>, c) = <<c>>
    OBVIOUS
  <2>3. r = [s EXCEPT !.dialog_is_open = FALSE, !.out = <<c>>]
    BY <1>2, <2>2 DEF Close, Quiet
  <2>4. <<c>> \in Outs
    BY <2>1 DEF Outs
  <2> HIDE DEF c, r
  <2>5. /\ r \in Manager /\ r.phase = s.phase /\ r.logout_type = s.logout_type
        /\ r.dialog_is_open = FALSE /\ r.handlers = s.handlers
    BY <2>3, <2>4 DEF Quiet, Manager
  <2> QED
    BY <2>5 DEF Leads, Typed, Waits, r
<1> QED
  BY <1>1, <1>2

LEMMA ShowLeads ==
  ASSUME NEW s, Quiet(s), s.logout_type \in LogoutTypes
  PROVE  Leads(s, Show(s)) /\ (Show(s).out = s.out \/ AsksToOpen(Show(s)))
<1>1. CASE ~s.is_running
  BY <1>1 DEF Show, Leads, Quiet, Waits, AsksToOpen, AsksToClose
<1>2. CASE s.is_running
  <2> DEFINE q == Open(s, s.logout_type)
             r == Show(s)
  <2>1. r = [q EXCEPT !.handlers = TRUE]
    BY <1>2 DEF Show
  <2>2. /\ Leads(s, q) /\ ~AsksToClose(q) /\ q.phase = s.phase /\ q.logout_type = s.logout_type
        /\ \/ AsksToOpen(q)
           \/ q = s /\ s.dialog_is_open
    BY OpenLeads
  <2> HIDE DEF q, r
  <2>3. /\ r \in Manager /\ r.out = q.out /\ r.phase = q.phase /\ r.logout_type = q.logout_type
        /\ r.dialog_is_open = q.dialog_is_open
    BY <2>1, <2>2 DEF Leads, Manager
  <2> QED
    BY <2>2, <2>3 DEF Leads, Typed, Waits, AsksToOpen, AsksToClose, r
<1> QED
  BY <1>1, <1>2

\* end_phase() of a logout that has a type.
LEMMA EndPhaseCalm ==
  ASSUME NEW s \in Manager, s.logout_type # "NONE"
  PROVE  Calm(s, EndPhase(s)) /\ EndPhase(s).handlers = s.handlers
  BY DEF EndPhase, Calm, Manager, Phases, Typed

LEMMA EndSessionOrShowDialogLeads ==
  ASSUME NEW s, Quiet(s), s.logout_type # "NONE"
  PROVE  /\ Leads(s, EndSessionOrShowDialog(s))
         /\ \/ EndSessionOrShowDialog(s).out = s.out
            \/ AsksToOpen(EndSessionOrShowDialog(s))
<1>1. s.logout_type \in LogoutTypes
  BY DEF Quiet, Manager
<1>2. Leads(s, EndPhase(s)) /\ EndPhase(s).out = s.out
  BY EndPhaseCalm, CalmLeads DEF Quiet, Calm
<1> QED
  BY <1>1, <1>2, ShowLeads DEF EndSessionOrShowDialog

LEMMA QueueUpdateCalm ==
  ASSUME NEW s \in Manager
  PROVE  Calm(s, QueueUpdate(s))
  BY DEF Manager, QueueUpdate, Calm, Typed

LEMMA CalmIsTransitive ==
  ASSUME NEW s, NEW q, NEW r, Calm(s, q), Calm(q, r)
  PROVE  Calm(s, r)
  BY DEF Calm

LEMMA AddedCalm ==
  ASSUME NEW s \in Manager, NEW i \in AllInhibitors
  PROVE  Calm(s, Added(s, i))
<1> DEFINE q == [s EXCEPT !.inhibitors = @ \cup {i}]
<1>1. Calm(s, q)
  BY DEF Calm, Manager, Typed
<1>2. Calm(q, QueueUpdate(q))
  BY <1>1, QueueUpdateCalm DEF Calm
<1> QED
  BY <1>1, <1>2, CalmIsTransitive DEF Added

LEMMA CancelEndSessionCalm ==
  ASSUME NEW s \in Manager
  PROVE  Calm(s, CancelEndSession(s)) /\ CancelEndSession(s).handlers = s.handlers
<1> DEFINE r == [s EXCEPT !.phase = "RUNNING", !.mode = "NORMAL",
                          !.logout_type = "NONE", !.inhibitors = @ \ Jit]
<1>1. Calm(s, r) /\ r.handlers = s.handlers
  BY DEF Calm, Manager, Typed, Phases
<1>2. CancelEndSession(s) \in {s, r, QueueUpdate(r)}
  BY DEF CancelEndSession
<1> HIDE DEF r
<1>3. Calm(r, QueueUpdate(r)) /\ QueueUpdate(r).handlers = r.handlers
  BY <1>1, QueueUpdateCalm DEF Calm, QueueUpdate, Manager
<1>4. Calm(s, s)
  BY DEF Calm
<1> QED
  BY <1>1, <1>2, <1>3, <1>4, CalmIsTransitive

LEMMA RemovedLeads ==
  ASSUME NEW s, Quiet(s), Typed(s), NEW i \in AllInhibitors
  PROVE  Leads(s, Removed(s, i))
<1> DEFINE q == [s EXCEPT !.inhibitors = @ \ {i}]
           m == IF s.phase \in {"QUERY_END_SESSION", "END_SESSION"}
                THEN EndSessionOrShowDialog(q) ELSE q
<1>1. Calm(s, q) /\ Quiet(q) /\ q.phase = s.phase /\ q.logout_type = s.logout_type
  BY DEF Calm, Quiet, Manager, Typed
<1>2. Leads(q, m) /\ (m.out = q.out \/ AsksToOpen(m))
  <2>1. CASE s.phase \in {"QUERY_END_SESSION", "END_SESSION"}
    BY <1>1, <2>1, EndSessionOrShowDialogLeads DEF Typed
  <2>2. CASE s.phase \notin {"QUERY_END_SESSION", "END_SESSION"}
    BY <1>1, <2>2 DEF Quiet, Leads, Waits, AsksToOpen, AsksToClose
  <2> QED
    BY <2>1, <2>2
<1>3. CASE m.out # s.out
  <2>1. Removed(s, i) = m
    BY <1>3 DEF Removed
  <2> HIDE DEF q, m
  <2> QED
    BY <1>1, <1>2, <2>1, CalmThenLeads
<1>4. CASE m.out = s.out
  <2>1. Removed(s, i) = QueueUpdate(m)
    BY <1>4 DEF Removed
  <2> HIDE DEF q, m
  <2>2. Leads(s, m)
    BY <1>1, <1>2, CalmThenLeads
  <2>3. Calm(m, QueueUpdate(m))
    BY <2>2, QueueUpdateCalm DEF Leads
  <2> QED
    BY <1>4, <2>1, <2>2, <2>3 DEF Calm, Leads, Quiet, Waits, AsksToOpen, AsksToClose
<1> QED
  BY <1>3, <1>4

\* What remains of the manager's wait once the shell's dialog is done with.
LEMMA DialogCanceledCalm ==
  ASSUME NEW s \in Manager
  PROVE  Calm(s, DialogCanceled(s)) /\ ~DialogCanceled(s).handlers
<1>1. CASE ~s.handlers
  BY <1>1 DEF DialogCanceled, Calm
<1>2. CASE s.handlers
  <2> DEFINE q == CancelEndSession(s)
  <2>1. Calm(s, q)
    BY CancelEndSessionCalm
  <2>2. DialogCanceled(s) = [q EXCEPT !.handlers = FALSE]
    BY <1>2 DEF DialogCanceled
  <2> HIDE DEF q
  <2> QED
    BY <2>1, <2>2 DEF Calm, Manager, Typed
<1> QED
  BY <1>1, <1>2

LEMMA DialogConfirmedCalm ==
  ASSUME NEW s \in Manager, NEW type \in LogoutTypes
  PROVE  Calm(s, DialogConfirmed(s, type)) /\ ~DialogConfirmed(s, type).handlers
<1>1. CASE ~s.handlers
  BY <1>1 DEF DialogConfirmed, Calm
<1>2. CASE s.handlers /\ s.phase \in {"RUNNING", "QUERY_END_SESSION"}
  <2> DEFINE p == [s EXCEPT !.mode = "FORCE", !.logout_type = type]
             q == EndPhase(p)
  <2>1. Calm(s, p) /\ p.logout_type # "NONE"
    BY DEF Calm, Manager, Typed, LogoutTypes
  <2>2. Calm(p, q)
    BY <2>1, EndPhaseCalm DEF Calm
  <2>3. DialogConfirmed(s, type) = [q EXCEPT !.handlers = FALSE]
    BY <1>2 DEF DialogConfirmed
  <2> HIDE DEF p, q
  <2> QED
    BY <2>1, <2>2, <2>3 DEF Calm, Manager, Typed
<1>3. CASE s.handlers /\ s.phase \notin {"RUNNING", "QUERY_END_SESSION"}
  BY <1>3 DEF DialogConfirmed, Calm, Manager, Typed
<1> QED
  BY <1>1, <1>2, <1>3

-----------------------------------------------------------------------------
(* The sequences.                                                           *)

Answers == {"ok", "error"}

\* What ends in Open, or names an Open at all.
LastOpens(q) == q # <<>> /\ q[Len(q)].method = "Open"

LEMMA LastOpensHasOpen ==
  ASSUME NEW q \in Seq(Calls), LastOpens(q)
  PROVE  Opens(q) # {}
<1>1. Len(q) \in 1 .. Len(q)
  BY DEF LastOpens
<1> QED
  BY <1>1 DEF LastOpens, Opens

\* A call is added.
LEMMA CallAdded ==
  ASSUME NEW q \in Seq(Calls), NEW c \in Calls
  PROVE  /\ q \o <<c>> \in Seq(Calls)
         /\ Len(q \o <<c>>) = Len(q) + 1
         /\ q \o <<c>> # <<>>
         /\ (q \o <<c>>)[Len(q \o <<c>>)] = c
         /\ Opens(q) # {} => Opens(q \o <<c>>) # {}
<1>1. /\ q \o <<c>> \in Seq(Calls) /\ Len(q \o <<c>>) = Len(q) + 1
      /\ (q \o <<c>>)[Len(q) + 1] = c
      /\ \A i \in 1 .. Len(q) : i \in 1 .. Len(q \o <<c>>) /\ (q \o <<c>>)[i] = q[i]
  OBVIOUS
<1> QED
  BY <1>1 DEF Opens

\* A call is taken.
LEMMA CallTaken ==
  ASSUME NEW q \in Seq(Calls), q # <<>>
  PROVE  /\ Tail(q) \in Seq(Calls) /\ Head(q) \in Calls
         /\ Len(q) \in Nat /\ Len(Tail(q)) = Len(q) - 1
         /\ LastOpens(q) => LastOpens(Tail(q)) \/ (Tail(q) = <<>> /\ Head(q).method = "Open")
         /\ Opens(q) # {} /\ Head(q).method # "Open" => Opens(Tail(q)) # {}
<1>1. /\ Tail(q) \in Seq(Calls) /\ Head(q) \in Calls /\ Head(q) = q[1]
      /\ Len(q) \in Nat /\ Len(q) > 0 /\ Len(Tail(q)) = Len(q) - 1
      /\ \A i \in 1 .. Len(q) : i # 1 => i - 1 \in 1 .. Len(Tail(q)) /\ Tail(q)[i - 1] = q[i]
  OBVIOUS
<1>2. LastOpens(q) => LastOpens(Tail(q)) \/ (Tail(q) = <<>> /\ Head(q).method = "Open")
  <2>1. CASE Len(q) = 1
    <3>1. \A t \in Seq(Calls) : t # <<>> => Len(t) # 0
      BY EmptySeq
    <3>2. Len(Tail(q)) = 0
      BY <1>1, <2>1
    <3> QED
      BY <1>1, <2>1, <3>1, <3>2 DEF LastOpens
  <2>2. CASE Len(q) # 1
    <3>1. Len(q) \in 1 .. Len(q) /\ Len(q) - 1 # 0
      BY <1>1, <2>2
    <3>2. Tail(q)[Len(Tail(q))] = q[Len(q)]
      BY <1>1, <2>2, <3>1
    <3>3. Tail(q) # <<>>
      BY <1>1, <3>1, EmptySeq
    <3> QED
      BY <3>2, <3>3 DEF LastOpens
  <2> QED
    BY <2>1, <2>2
<1>3. Opens(q) # {} /\ Head(q).method # "Open" => Opens(Tail(q)) # {}
  <2> SUFFICES ASSUME NEW i \in 1 .. Len(q), q[i].method = "Open", Head(q).method # "Open"
               PROVE  Opens(Tail(q)) # {}
    BY DEF Opens
  <2>1. i - 1 \in 1 .. Len(Tail(q)) /\ Tail(q)[i - 1].method = "Open"
    BY <1>1
  <2> QED
    BY <2>1 DEF Opens
<1> QED
  BY <1>1, <1>2, <1>3

\* There are as many calls of Open as calls at most, and one if there is any.
LEMMA OpensCounted ==
  ASSUME NEW q \in Seq(Calls)
  PROVE  /\ Cardinality(Opens(q)) \in Nat /\ Cardinality(Opens(q)) <= Len(q)
         /\ Opens(q) # {} => Cardinality(Opens(q)) > 0
<1>1. Opens(q) \subseteq 1 .. Len(q) /\ Len(q) \in Nat
  BY DEF Opens
<1>2. IsFiniteSet(1 .. Len(q)) /\ Cardinality(1 .. Len(q)) = Len(q)
  <2>1. 1 \in Int /\ Len(q) \in Int
    BY <1>1
  <2>2. /\ IsFiniteSet(1 .. Len(q))
        /\ Cardinality(1 .. Len(q)) = IF 1 > Len(q) THEN 0 ELSE Len(q) - 1 + 1
    BY <2>1, FS_Interval, Zenon
  <2> QED
    BY <1>1, <2>2
<1>3. IsFiniteSet(Opens(q)) /\ Cardinality(Opens(q)) <= Len(q)
  BY <1>1, <1>2, FS_Subset
<1>4. Cardinality(Opens(q)) \in Nat
  BY <1>3, FS_CardinalityType
<1>5. Opens(q) # {} => Cardinality(Opens(q)) # 0
  BY <1>3, FS_EmptySet
<1> QED
  BY <1>3, <1>4, <1>5

\* Errors are added to the answers.
LEMMA ErrorsAdded ==
  ASSUME NEW q \in Seq(Answers), NEW n \in Nat
  PROVE  /\ q \o Errors(n) \in Seq(Answers)
         /\ Len(q \o Errors(n)) = Len(q) + n
         /\ n > 0 => "error" \in Range(q \o Errors(n))
         /\ "error" \in Range(q) => "error" \in Range(q \o Errors(n))
<1>1. Errors(n) \in Seq(Answers) /\ Len(Errors(n)) = n
  BY DEF Errors, Answers
<1>2. \A i \in 1 .. n : Errors(n)[i] = "error"
  BY DEF Errors
<1> HIDE DEF Errors
<1>3. /\ q \o Errors(n) \in Seq(Answers) /\ Len(q \o Errors(n)) = Len(q) + n
      /\ DOMAIN (q \o Errors(n)) = 1 .. Len(q) + n
      /\ DOMAIN q = 1 .. Len(q) /\ Len(q) \in Nat
      /\ \A i \in 1 .. Len(q) : (q \o Errors(n))[i] = q[i]
      /\ \A i \in 1 .. n : (q \o Errors(n))[Len(q) + i] = Errors(n)[i]
  BY <1>1
<1>4. ASSUME n > 0 PROVE "error" \in Range(q \o Errors(n))
  <2>1. 1 \in 1 .. n /\ Len(q) + 1 \in 1 .. Len(q) + n
    BY <1>3, <1>4
  <2>2. (q \o Errors(n))[Len(q) + 1] = "error"
    BY <1>2, <1>3, <2>1
  <2> QED
    BY <1>3, <2>1, <2>2 DEF Range
<1>5. ASSUME "error" \in Range(q) PROVE "error" \in Range(q \o Errors(n))
  <2>1. PICK i \in 1 .. Len(q) : q[i] = "error"
    BY <1>3, <1>5 DEF Range
  <2>2. i \in 1 .. Len(q) + n
    BY <1>3
  <2> QED
    BY <1>3, <2>1, <2>2 DEF Range
<1> QED
  BY <1>3, <1>4, <1>5

\* What is in a sequence stays there when something is added, and is its head or
\* stays there when that is taken.
LEMMA RangeKept ==
  ASSUME NEW S, NEW q \in Seq(S), NEW e \in S
  PROVE  /\ Append(q, e) \in Seq(S) /\ Len(Append(q, e)) = Len(q) + 1 /\ Len(q) \in Nat
         /\ e \in Range(Append(q, e))
         /\ \A x \in Range(q) : x \in Range(Append(q, e))
<1>1. /\ Append(q, e) \in Seq(S) /\ Len(Append(q, e)) = Len(q) + 1 /\ Len(q) \in Nat
      /\ DOMAIN Append(q, e) = 1 .. Len(q) + 1 /\ DOMAIN q = 1 .. Len(q)
      /\ Append(q, e)[Len(q) + 1] = e
      /\ \A i \in 1 .. Len(q) : i \in 1 .. Len(q) + 1 /\ Append(q, e)[i] = q[i]
      /\ Len(q) + 1 \in 1 .. Len(q) + 1
  OBVIOUS
<1> QED
  BY <1>1 DEF Range

LEMMA RangeOfTail ==
  ASSUME NEW S, NEW q \in Seq(S), q # <<>>
  PROVE  /\ Tail(q) \in Seq(S) /\ Head(q) \in S
         /\ Len(q) \in Nat /\ Len(Tail(q)) = Len(q) - 1
         /\ \A x \in Range(q) : x = Head(q) \/ x \in Range(Tail(q))
<1>1. /\ Tail(q) \in Seq(S) /\ Head(q) \in S /\ Head(q) = q[1]
      /\ Len(q) \in Nat /\ Len(Tail(q)) = Len(q) - 1
      /\ DOMAIN q = 1 .. Len(q) /\ DOMAIN Tail(q) = 1 .. Len(q) - 1
      /\ \A i \in 1 .. Len(q) : i # 1 => i - 1 \in 1 .. Len(q) - 1 /\ Tail(q)[i - 1] = q[i]
  OBVIOUS
<1>2. ASSUME NEW x \in Range(q), x # Head(q) PROVE x \in Range(Tail(q))
  <2>1. PICK i \in 1 .. Len(q) : q[i] = x
    BY <1>1 DEF Range
  <2>2. i - 1 \in 1 .. Len(q) - 1 /\ Tail(q)[i - 1] = x
    BY <1>1, <1>2, <2>1
  <2> QED
    BY <1>1, <2>2 DEF Range
<1> QED
  BY <1>1, <1>2

-----------------------------------------------------------------------------
(* The invariant.                                                           *)

\* The shell has been asked, and not yet been answered for good.
Asked ==
  \/ LastOpens(calls)
  \/ calls = <<>> /\ dialog.shown
  \/ "error" \in Range(replies)
  \/ Range(signals) \ {"Closed"} # {}

AskedInTime == Waits(scsm) /\ ~died => Asked

IInv == TypeOK /\ OpenWillFinish /\ AskedInTime

LEMMA Types ==
  ASSUME TypeOK
  PROVE  /\ Quiet(scsm) /\ Typed(scsm)
         /\ calls \in Seq(Calls) /\ replies \in Seq(Answers) /\ signals \in Seq(Signals)
         /\ Len(calls) \in Nat /\ Len(replies) \in Nat /\ Len(signals) \in Nat
         /\ pending \in Nat
<1>1. Quiet(scsm)
  BY DEF TypeOK, SessionManager, Quiet, Manager, Phases, AllInhibitors, Outs
<1>2. pending \in Nat
  BY BoundsAssumption DEF TypeOK
<1> QED
  BY <1>1, <1>2 DEF TypeOK, Typed, Answers

\* A callback's manager with its calls made is a manager again.
LEMMA Settled ==
  ASSUME NEW r \in Manager
  PROVE  /\ [r EXCEPT !.out = <<>>] \in SessionManager
         /\ [r EXCEPT !.out = <<>>].handlers = r.handlers
         /\ [r EXCEPT !.out = <<>>].dialog_is_open = r.dialog_is_open
         /\ [r EXCEPT !.out = <<>>].phase = r.phase
         /\ [r EXCEPT !.out = <<>>].logout_type = r.logout_type
  BY DEF Manager, SessionManager, Phases, AllInhibitors

\* pending is bounded by what Open calls there may be.
LEMMA PendingBounded ==
  ASSUME NEW p \in Nat, NEW a \in Nat, NEW b \in Nat, a + p + b <= MaxOpen
  PROVE  p \in 0 .. MaxOpen
  BY BoundsAssumption

LEMMA InitOK == Init => IInv
<1> SUFFICES ASSUME Init PROVE IInv
  OBVIOUS
<1>1. AnyType \in LogoutTypes
  <2>1. AnyType \in DialogTypes
    BY TypesAssumption DEF AnyType
  <2> QED
    BY <2>1, TypesAssumption
<1>2. scsm \in SessionManager
  BY <1>1 DEF Init, SessionManager
<1>3. dialog \in Dialog
  BY <1>1 DEF Init, Dialog, NoDialog
<1>4. /\ calls \in Seq(Calls) /\ replies \in Seq({"ok", "error"}) /\ signals \in Seq(Signals)
      /\ Len(calls) = 0 /\ Len(replies) = 0 /\ Len(signals) = 0
  BY DEF Init
<1>5. pending \in 0 .. MaxOpen /\ Len(calls) + pending + Len(replies) <= MaxOpen
      /\ Len(signals) <= MaxSignals
  BY <1>4, BoundsAssumption DEF Init
<1>6. TypeOK
  BY <1>2, <1>3, <1>4, <1>5 DEF TypeOK, Init
<1>7. ~Waits(scsm)
  BY DEF Init, Waits
<1> QED
  BY <1>6, <1>7 DEF IInv, OpenWillFinish, AskedInTime, Waits

\* Calls that are made while there is a shell, or not.
LEMMA CallsMade ==
  ASSUME TypeOK, NEW r \in Manager, Handled(r)
  PROVE  /\ calls' \in Seq(Calls) /\ replies' \in Seq(Answers)
         /\ r.out = <<>> => calls' = calls /\ replies' = replies /\ died' = died
         /\ AsksToOpen(r) => LastOpens(calls') \/ "error" \in Range(replies')
         /\ Opens(calls) # {} => Opens(calls') # {}
         /\ replies # <<>> => replies' # <<>>
         /\ LastOpens(calls') \/ "error" \in Range(replies') => Opens(calls') # {} \/ replies' # <<>>
<1>0. calls \in Seq(Calls) /\ replies \in Seq(Answers)
  BY Types
<1>1. ASSUME NEW q \in Seq(Answers), "error" \in Range(q)
      PROVE  q # <<>>
  BY <1>1 DEF Range
<1>2. CASE r.out = <<>>
  <2>1. Opens(<<>>) = {} /\ Cardinality(Opens(<<>>)) = 0
    <3>1. Opens(<<>>) = {}
      BY DEF Opens
    <3> QED
      BY <3>1, FS_EmptySet
  <2>2. Errors(0) = <<>>
    BY DEF Errors
  <2>3. calls \o <<>> = calls /\ replies \o <<>> = replies
    BY <1>0
  <2>4. calls' = calls /\ replies' = replies
    BY <1>2, <2>1, <2>2, <2>3 DEF Handled
  <2>5. died' = died
    BY <1>2, <2>1 DEF Handled, TypeOK
  <2>6. LastOpens(calls) => Opens(calls) # {}
    BY <1>0, LastOpensHasOpen
  <2> QED
    BY <1>0, <1>1, <1>2, <2>4, <2>5, <2>6 DEF AsksToOpen
<1>3. ASSUME NEW c \in Calls, r.out = <<c>>, alive
      PROVE  /\ calls' \in Seq(Calls) /\ replies' = replies
             /\ AsksToOpen(r) => LastOpens(calls')
             /\ Opens(calls) # {} => Opens(calls') # {}
             /\ LastOpens(calls') => Opens(calls') # {}
  <2>1. calls' = calls \o <<c>> /\ replies' = replies
    BY <1>3 DEF Handled
  <2>2. calls' \in Seq(Calls) /\ (Opens(calls) # {} => Opens(calls') # {})
    BY <1>0, <2>1, CallAdded
  <2>3. calls' # <<>> /\ calls'[Len(calls')] = c
    BY <1>0, <2>1, CallAdded
  <2>4. AsksToOpen(r) => LastOpens(calls')
    BY <1>3, <2>3 DEF AsksToOpen, LastOpens
  <2> QED
    BY <2>1, <2>2, <2>4, LastOpensHasOpen
<1>4. ASSUME NEW c \in Calls, r.out = <<c>>, ~alive
      PROVE  /\ calls' = calls /\ replies' \in Seq(Answers)
             /\ AsksToOpen(r) => "error" \in Range(replies')
             /\ replies # <<>> => replies' # <<>>
  <2> DEFINE n == Cardinality(Opens(<<c>>))
  <2>1. calls' = calls /\ replies' = replies \o Errors(n)
    BY <1>4 DEF Handled
  <2>2. <<c>> \in Seq(Calls)
    OBVIOUS
  <2>3. n \in Nat /\ (Opens(<<c>>) # {} => n > 0)
    BY <2>2, OpensCounted
  <2>4. AsksToOpen(r) => Opens(<<c>>) # {}
    BY <1>4 DEF AsksToOpen, Opens
  <2> HIDE DEF n
  <2>5. /\ replies' \in Seq(Answers) /\ Len(replies') = Len(replies) + n
        /\ n > 0 => "error" \in Range(replies')
    BY <1>0, <2>1, <2>3, ErrorsAdded
  <2>6. replies # <<>> => Len(replies) # 0
    BY <1>0, EmptySeq
  <2>7. Len(replies) \in Nat /\ Len(<<>>) = 0
    BY <1>0
  <2>8. replies # <<>> => replies' # <<>>
    BY <2>3, <2>5, <2>6, <2>7
  <2> QED
    BY <2>1, <2>3, <2>4, <2>5, <2>8
<1>5. r.out = <<>> \/ \E c \in Calls : r.out = <<c>>
  BY DEF Manager, Outs
<1>6. r.out # <<>> => alive \in BOOLEAN
  BY DEF TypeOK
<1>7. ASSUME NEW c \in Calls PROVE <<c>> # <<>>
  OBVIOUS
<1>8. LastOpens(calls) => Opens(calls) # {}
  BY <1>0, LastOpensHasOpen
<1> QED
  BY <1>0, <1>1, <1>2, <1>3, <1>4, <1>5, <1>6, <1>7, <1>8

\* A callback of the manager, in the main loop.
LEMMA HandledOK ==
  ASSUME IInv, NEW r, Leads(scsm, r), Handled(r), UNCHANGED <<pending, dialog, alive, lost>>,
         \/ signals' = signals
         \/ /\ signals # <<>> /\ signals' = Tail(signals)
            /\ ~r.dialog_is_open
            /\ Head(signals) = "Closed" \/ ~r.handlers
  PROVE  IInv'
<1>0. /\ Quiet(scsm) /\ Typed(scsm) /\ r \in Manager /\ TypeOK
      /\ calls \in Seq(Calls) /\ replies \in Seq(Answers) /\ signals \in Seq(Signals)
  BY Types DEF IInv, Leads
<1>1. /\ scsm' \in SessionManager /\ scsm'.handlers = r.handlers
      /\ scsm'.dialog_is_open = r.dialog_is_open
      /\ scsm'.phase # "RUNNING" => scsm'.logout_type # "NONE"
  BY <1>0, Settled DEF Handled, Leads, Typed
<1>2. /\ calls' \in Seq(Calls) /\ replies' \in Seq(Answers)
      /\ r.out = <<>> => calls' = calls /\ replies' = replies /\ died' = died
      /\ AsksToOpen(r) => LastOpens(calls') \/ "error" \in Range(replies')
      /\ Opens(calls) # {} => Opens(calls') # {}
      /\ replies # <<>> => replies' # <<>>
      /\ LastOpens(calls') \/ "error" \in Range(replies') => Opens(calls') # {} \/ replies' # <<>>
  BY <1>0, CallsMade
<1>3. TypeOK'
  <2>1. signals' \in Seq(Signals) /\ Len(signals') <= MaxSignals
    <3>1. CASE signals' = signals
      BY <1>0, <3>1 DEF TypeOK
    <3>2. CASE signals # <<>> /\ signals' = Tail(signals)
      <4>1. signals' \in Seq(Signals) /\ Len(signals) \in Nat /\ Len(signals') = Len(signals) - 1
        BY <1>0, <3>2, RangeOfTail
      <4>2. Len(signals) <= MaxSignals
        BY <1>0 DEF TypeOK
      <4> QED
        BY <4>1, <4>2, BoundsAssumption
    <3> QED
      BY <3>1, <3>2
  <2>2. Len(calls') + pending' + Len(replies') <= MaxOpen
    BY DEF Handled
  <2>3. missed' \in BOOLEAN /\ died' \in BOOLEAN
    BY <1>0 DEF Handled, TypeOK
  <2>4. pending' \in 0 .. MaxOpen /\ dialog' \in Dialog /\ alive' \in BOOLEAN /\ lost' \in BOOLEAN
    BY <1>0 DEF TypeOK
  <2> QED
    BY <1>1, <1>2, <2>1, <2>2, <2>3, <2>4 DEF TypeOK, Answers
<1>4. OpenWillFinish'
  <2> SUFFICES ASSUME scsm'.dialog_is_open PROVE OpenUnderWay' \/ replies' # <<>>
    BY DEF OpenWillFinish
  <2>1. CASE AsksToOpen(r)
    BY <1>2, <2>1 DEF OpenUnderWay
  <2>2. CASE ~AsksToOpen(r)
    <3>1. OpenUnderWay \/ replies # <<>>
      BY <1>1, <2>2 DEF IInv, OpenWillFinish, Leads
    <3> QED
      BY <1>2, <3>1 DEF OpenUnderWay
  <2> QED
    BY <2>1, <2>2
<1>5. AskedInTime'
  <2> SUFFICES ASSUME Waits(r), ~died' PROVE Asked'
    BY <1>1 DEF AskedInTime, Waits
  <2>1. CASE AsksToOpen(r)
    BY <1>2, <2>1 DEF Asked
  <2>2. CASE ~AsksToOpen(r)
    <3>1. r.out = <<>> /\ Waits(scsm)
      BY <2>2 DEF Leads, AsksToOpen, AsksToClose
    <3>2. calls' = calls /\ replies' = replies /\ dialog' = dialog /\ Asked
      BY <1>2, <3>1 DEF IInv, AskedInTime
    <3>3. CASE Range(signals) \ {"Closed"} = {} \/ signals' = signals
      BY <3>2, <3>3 DEF Asked
    <3>4. CASE Range(signals) \ {"Closed"} # {} /\ signals' # signals
      <4>1. PICK x \in Range(signals) : x # "Closed"
        BY <3>4
      <4>2. Head(signals) = "Closed"
        BY <3>4 DEF Waits
      <4>3. x \in Range(signals')
        BY <1>0, <3>4, <4>1, <4>2, RangeOfTail
      <4> QED
        BY <4>1, <4>3 DEF Asked
    <3> QED
      BY <3>3, <3>4
  <2> QED
    BY <2>1, <2>2
<1> QED
  BY <1>3, <1>4, <1>5 DEF IInv

-----------------------------------------------------------------------------
(* The session manager's actions.                                           *)

LEMMA LogoutOK ==
  ASSUME IInv, NEW type \in DialogTypes, Logout(type)
  PROVE  IInv'
<1> DEFINE p == [scsm EXCEPT !.mode = "NORMAL", !.logout_type = type]
           r == EndPhase(p)
<1>1. Quiet(scsm)
  BY Types DEF IInv
<1>2. Calm(scsm, p) /\ p.logout_type # "NONE"
  BY <1>1, TypesAssumption DEF Calm, Quiet, Manager, Typed, LogoutTypes
<1>3. Calm(p, r)
  BY <1>2, EndPhaseCalm DEF Calm
<1>4. Handled(r) /\ UNCHANGED <<pending, dialog, alive, lost, signals>>
  BY DEF Logout, ShellUnchanged
<1> HIDE DEF p, r
<1>5. Leads(scsm, r)
  BY <1>1, <1>2, <1>3, CalmIsTransitive, CalmLeads
<1> QED
  BY <1>4, <1>5, HandledOK

LEMMA QueryEndSessionCompleteOK == IInv /\ QueryEndSessionComplete => IInv'
<1> SUFFICES ASSUME IInv, QueryEndSessionComplete PROVE IInv'
  OBVIOUS
<1>1. Leads(scsm, EndSessionOrShowDialog(scsm))
  BY Types, EndSessionOrShowDialogLeads DEF IInv, QueryEndSessionComplete, Typed
<1> QED
  BY <1>1, HandledOK DEF QueryEndSessionComplete, ShellUnchanged

LEMMA CancelOK == IInv /\ Cancel => IInv'
<1> SUFFICES ASSUME IInv, Cancel PROVE IInv'
  OBVIOUS
<1>1. Leads(scsm, CancelEndSession(scsm))
  BY Types, CancelEndSessionCalm, CalmLeads DEF IInv, Quiet
<1> QED
  BY <1>1, HandledOK DEF Cancel, ShellUnchanged

\* The handlers are disconnected before the dialog is closed.
LEMMA ShutdownPreparedOK == IInv /\ ShutdownPrepared => IInv'
<1> SUFFICES ASSUME IInv, ShutdownPrepared PROVE IInv'
  OBVIOUS
<1>1. Quiet(scsm) /\ Typed(scsm)
  BY Types DEF IInv
<1>2. UNCHANGED <<pending, dialog, alive, lost, signals>>
  BY DEF ShutdownPrepared, ShellUnchanged
<1>3. CASE /\ scsm.phase = "QUERY_END_SESSION"
           /\ Handled([scsm EXCEPT !.preparing = FALSE, !.phase = "END_SESSION"])
  <2> DEFINE r == [scsm EXCEPT !.preparing = FALSE, !.phase = "END_SESSION"]
  <2>1. Calm(scsm, r)
    BY <1>1, <1>3 DEF Calm, Quiet, Manager, Typed, Phases
  <2> HIDE DEF r
  <2>2. Leads(scsm, r)
    BY <1>1, <2>1, CalmLeads
  <2>3. Handled(r)
    BY <1>3 DEF r
  <2> QED
    BY <1>2, <2>2, <2>3, HandledOK
<1>4. CASE Handled(CancelEndSession(Close([scsm EXCEPT !.preparing = FALSE,
                                                       !.handlers = FALSE])))
  <2> DEFINE p == [scsm EXCEPT !.preparing = FALSE, !.handlers = FALSE]
             q == Close(p)
             r == CancelEndSession(q)
  <2>1. Calm(scsm, p) /\ Quiet(p) /\ ~p.handlers
    BY <1>1 DEF Calm, Quiet, Manager, Typed
  <2>2. Handled(r)
    BY <1>4
  <2> HIDE DEF p
  <2>3. Leads(p, q)
    BY <2>1, CloseLeads
  <2>4. Calm(q, r)
    BY <2>3, CancelEndSessionCalm DEF Leads
  <2> HIDE DEF q, r
  <2>5. Leads(scsm, q)
    BY <1>1, <2>1, <2>3, CalmThenLeads
  <2>6. Leads(scsm, r)
    BY <1>1, <2>4, <2>5 DEF Calm, Leads, Quiet, Waits, AsksToOpen, AsksToClose
  <2> QED
    BY <1>2, <2>2, <2>6, HandledOK
<1> QED
  BY <1>3, <1>4 DEF ShutdownPrepared

LEMMA InhibitorOK ==
  ASSUME IInv, NEW i \in AllInhibitors, InhibitorAdded(i) \/ InhibitorRemoved(i)
  PROVE  IInv'
<1>1. Quiet(scsm) /\ Typed(scsm) /\ scsm \in Manager
  BY Types DEF IInv, Quiet
<1>2. Leads(scsm, Added(scsm, i)) /\ Leads(scsm, Removed(scsm, i))
  BY <1>1, AddedCalm, CalmLeads, RemovedLeads
<1>3. /\ UNCHANGED <<pending, dialog, alive, lost, signals>>
      /\ Handled(Added(scsm, i)) \/ Handled(Removed(scsm, i))
  BY DEF InhibitorAdded, InhibitorRemoved, ShellUnchanged
<1> QED
  BY <1>2, <1>3, HandledOK

LEMMA NeedUpdateOK == IInv /\ NeedUpdate => IInv'
<1> SUFFICES ASSUME IInv, NeedUpdate PROVE IInv'
  OBVIOUS
<1> DEFINE p == [scsm EXCEPT !.update = FALSE]
           r == Open(p, scsm.type)
<1>1. Quiet(scsm) /\ scsm.type \in LogoutTypes
  BY Types DEF IInv, Quiet, Manager
<1>2. Calm(scsm, p) /\ Quiet(p)
  BY <1>1 DEF Calm, Quiet, Manager, Typed
<1>3. Handled(r) /\ UNCHANGED <<pending, dialog, alive, lost, signals>>
  BY DEF NeedUpdate, ShellUnchanged
<1> HIDE DEF p
<1>4. Leads(p, r)
  BY <1>1, <1>2, OpenLeads
<1>5. Leads(scsm, r)
  BY <1>1, <1>2, <1>4, CalmThenLeads
<1> QED
  BY <1>3, <1>5, HandledOK

\* A dialog that is done with is not waited for by its handlers; "closed" has none.
LEMMA DialogSignalLeads ==
  ASSUME NEW s, Quiet(s), NEW signal \in Signals
  PROVE  /\ Leads(s, DialogSignal(s, signal)) /\ ~DialogSignal(s, signal).dialog_is_open
         /\ signal = "Closed" \/ ~DialogSignal(s, signal).handlers
<1> DEFINE q == [s EXCEPT !.dialog_is_open = FALSE, !.update = FALSE, !.watching = FALSE]
<1>1. Calm(s, q) /\ q \in Manager /\ ~q.dialog_is_open
  BY DEF Calm, Quiet, Manager, Typed
<1>2. CASE signal = "Closed"
  <2>1. DialogSignal(s, signal) = q
    BY <1>2 DEF DialogSignal
  <2> QED
    BY <1>1, <1>2, <2>1, CalmLeads
<1>3. CASE signal = "Canceled"
  <2>1. DialogSignal(s, signal) = DialogCanceled(q)
    BY <1>3 DEF DialogSignal
  <2> HIDE DEF q
  <2>2. Calm(q, DialogCanceled(q)) /\ ~DialogCanceled(q).handlers
    BY <1>1, DialogCanceledCalm
  <2>3. Calm(s, DialogCanceled(q))
    BY <1>1, <2>2, CalmIsTransitive
  <2> QED
    BY <1>1, <2>1, <2>2, <2>3, CalmLeads DEF Calm
<1>4. ASSUME NEW type \in LogoutTypes, DialogSignal(s, signal) = DialogConfirmed(q, type)
      PROVE  /\ Leads(s, DialogSignal(s, signal)) /\ ~DialogSignal(s, signal).dialog_is_open
             /\ ~DialogSignal(s, signal).handlers
  <2> HIDE DEF q
  <2>1. Calm(q, DialogConfirmed(q, type)) /\ ~DialogConfirmed(q, type).handlers
    BY <1>1, DialogConfirmedCalm
  <2>2. Calm(s, DialogConfirmed(q, type))
    BY <1>1, <2>1, CalmIsTransitive
  <2> QED
    BY <1>1, <1>4, <2>1, <2>2, CalmLeads DEF Calm
<1>5. CASE signal = "ConfirmedLogout"
  <2>1. DialogSignal(s, signal) = DialogConfirmed(q, "LOGOUT")
    BY <1>5 DEF DialogSignal
  <2> QED
    BY <1>4, <2>1 DEF LogoutTypes
<1>6. CASE signal = "ConfirmedShutdown"
  <2>1. DialogSignal(s, signal) = DialogConfirmed(q, "SHUTDOWN")
    BY <1>6 DEF DialogSignal
  <2> QED
    BY <1>4, <2>1 DEF LogoutTypes
<1> QED
  BY <1>2, <1>3, <1>5, <1>6 DEF Signals

LEMMA OnDialogSignalOK == IInv /\ OnDialogSignal => IInv'
<1> SUFFICES ASSUME IInv, OnDialogSignal PROVE IInv'
  OBVIOUS
<1>1. Quiet(scsm) /\ signals \in Seq(Signals) /\ signals # <<>>
  BY Types DEF IInv, OnDialogSignal
<1>2. Head(signals) \in Signals
  BY <1>1, RangeOfTail
<1> DEFINE r == DialogSignal(scsm, Head(signals))
<1>3. Leads(scsm, r) /\ ~r.dialog_is_open /\ (Head(signals) = "Closed" \/ ~r.handlers)
  BY <1>1, <1>2, DialogSignalLeads
<1>4. Handled(r) /\ signals' = Tail(signals) /\ UNCHANGED <<pending, dialog, alive, lost>>
  BY DEF OnDialogSignal, ShellUnchanged
<1> HIDE DEF r
<1> QED
  BY <1>1, <1>3, <1>4, HandledOK

\* A refused Open ends the wait; one that has succeeded leaves it to the dialog.
LEMMA OnOpenFinishedOK == IInv /\ OnOpenFinished => IInv'
<1> SUFFICES ASSUME IInv, OnOpenFinished PROVE IInv'
  OBVIOUS
<1> DEFINE ok == Head(replies) = "ok"
           p == [scsm EXCEPT !.update = FALSE, !.dialog_is_open = FALSE]
           r == OpenFinished(scsm, ok)
<1>0. /\ TypeOK /\ Quiet(scsm) /\ Typed(scsm) /\ replies \in Seq(Answers) /\ replies # <<>>
      /\ Len(calls) \in Nat /\ Len(replies) \in Nat /\ pending \in Nat
  BY Types DEF IInv, OnOpenFinished
<1>1. Calm(scsm, p) /\ p.dialog_is_open = FALSE /\ p.handlers = scsm.handlers /\ p.out = <<>>
  BY <1>0 DEF Calm, Quiet, Manager, Typed
<1>2. /\ scsm' = r /\ replies' = Tail(replies) /\ missed' \in BOOLEAN
      /\ UNCHANGED <<calls, pending, signals, dialog, alive, lost, died>>
  BY <1>0 DEF OnOpenFinished, ShellUnchanged, TypeOK
<1>3. CASE ok
  <2>1. r = p
    BY <1>3 DEF OpenFinished
  <2> QED
    <3>1. /\ replies' \in Seq(Answers) /\ Len(replies') = Len(replies) - 1
          /\ "error" \in Range(replies) => "error" \in Range(replies')
      BY <1>0, <1>2, <1>3, RangeOfTail
    <3> HIDE DEF p, r, ok
    <3>2. r \in Manager /\ r.out = <<>> /\ Typed(r)
      BY <1>0, <1>1, <2>1 DEF Calm
    <3>3. r \in SessionManager
      BY <3>2 DEF Manager, SessionManager, Phases, AllInhibitors
    <3>4. Len(calls') + pending' + Len(replies') <= MaxOpen
      <4>1. Len(calls) + pending + Len(replies) <= MaxOpen
        BY <1>0 DEF TypeOK
      <4> QED
        BY <1>0, <1>2, <3>1, <4>1, BoundsAssumption
    <3>5. TypeOK'
      BY <1>0, <1>2, <3>1, <3>2, <3>3, <3>4 DEF TypeOK, Typed, Answers
    <3>6. OpenWillFinish'
      BY <1>1, <1>2, <2>1 DEF OpenWillFinish
    <3>7. AskedInTime'
      BY <1>1, <1>2, <2>1, <3>1 DEF IInv, AskedInTime, Waits, Asked
    <3> QED
      BY <3>5, <3>6, <3>7 DEF IInv
<1>4. CASE ~ok
  <2>1. r = DialogCanceled(p)
    BY <1>4 DEF OpenFinished
  <2> HIDE DEF p, ok, r
  <2>2. Calm(p, r) /\ ~r.handlers
    BY <1>1, <2>1, DialogCanceledCalm DEF Calm
  <2>3. r \in Manager /\ r.out = <<>> /\ Typed(r) /\ ~r.dialog_is_open
    BY <1>0, <1>1, <2>2 DEF Calm
  <2>4. r \in SessionManager
    BY <2>3 DEF Manager, SessionManager, Phases, AllInhibitors
  <2>5. replies' \in Seq(Answers) /\ Len(replies') = Len(replies) - 1
    BY <1>0, <1>2, RangeOfTail
  <2>6. Len(calls') + pending' + Len(replies') <= MaxOpen
    <3>1. Len(calls) + pending + Len(replies) <= MaxOpen
      BY <1>0 DEF TypeOK
    <3> QED
      BY <1>0, <1>2, <2>5, <3>1, BoundsAssumption
  <2>7. TypeOK'
    BY <1>0, <1>2, <2>3, <2>4, <2>5, <2>6 DEF TypeOK, Typed, Answers
  <2>8. OpenWillFinish' /\ AskedInTime'
    BY <1>2, <2>2, <2>3 DEF OpenWillFinish, AskedInTime, Waits
  <2> QED
    BY <2>7, <2>8 DEF IInv
<1> QED
  BY <1>3, <1>4

LEMMA NamesOK == IInv /\ (OnShellName \/ OnNameOwnerLost \/ ShellStarts) => IInv'
<1> SUFFICES ASSUME IInv, OnShellName \/ OnNameOwnerLost \/ ShellStarts PROVE IInv'
  OBVIOUS
<1>1. scsm \in SessionManager /\ alive \in BOOLEAN /\ TypeOK
  BY DEF IInv, TypeOK
<1>2. scsm' \in {scsm, [scsm EXCEPT !.is_running = alive], [scsm EXCEPT !.proxy = FALSE]}
  BY DEF OnShellName, OnNameOwnerLost, ShellStarts
<1>3. /\ scsm' \in SessionManager /\ scsm'.handlers = scsm.handlers
      /\ scsm'.dialog_is_open = scsm.dialog_is_open
      /\ scsm'.phase = scsm.phase /\ scsm'.logout_type = scsm.logout_type
  BY <1>1, <1>2 DEF SessionManager
<1>4. /\ UNCHANGED <<calls, pending, replies, signals, dialog, missed, died>>
      /\ alive' \in BOOLEAN /\ lost' \in BOOLEAN
  BY <1>1 DEF OnShellName, OnNameOwnerLost, ShellStarts, TypeOK
<1>5. TypeOK'
  BY <1>1, <1>3, <1>4 DEF TypeOK
<1>6. OpenWillFinish' /\ AskedInTime'
  BY <1>3, <1>4
  DEF IInv, OpenWillFinish, OpenUnderWay, Opens, AskedInTime, Waits, Asked, LastOpens
<1> QED
  BY <1>5, <1>6 DEF IInv

-----------------------------------------------------------------------------
(* The shell's actions.                                                     *)

\* A step of the shell leaves the manager alone, and each call it takes leaves an
\* answer due, each dialog that was asked for a decision.
LEMMA ShellStepOK ==
  ASSUME IInv, UNCHANGED <<scsm, missed>>,
         calls' \in Seq(Calls), replies' \in Seq(Answers), pending' \in 0 .. MaxOpen,
         Len(calls') + pending' + Len(replies') <= MaxOpen,
         signals' \in Seq(Signals), Len(signals') <= MaxSignals,
         dialog' \in Dialog, alive' \in BOOLEAN, lost' \in BOOLEAN, died' \in BOOLEAN,
         scsm.dialog_is_open => OpenUnderWay' \/ replies' # <<>>,
         Waits(scsm) /\ ~died' => Asked'
  PROVE  IInv'
<1>1. TypeOK'
  BY DEF IInv, TypeOK, Answers
<1> QED
  BY <1>1 DEF IInv, OpenWillFinish, AskedInTime

LEMMA ShellOpensOK == IInv /\ ShellOpens => IInv'
<1> SUFFICES ASSUME IInv, ShellOpens PROVE IInv'
  OBVIOUS
<1>0. /\ TypeOK /\ calls \in Seq(Calls) /\ replies \in Seq(Answers) /\ pending \in Nat
      /\ Len(replies) \in Nat /\ calls # <<>> /\ Head(calls).method = "Open"
  BY Types DEF IInv, ShellOpens
<1>1. /\ calls' = Tail(calls) /\ calls' \in Seq(Calls) /\ Head(calls) \in Calls
      /\ Len(calls) \in Nat /\ Len(calls') = Len(calls) - 1
      /\ LastOpens(calls) => LastOpens(calls') \/ calls' = <<>>
  BY <1>0, CallTaken DEF ShellOpens
<1>2. UNCHANGED <<scsm, signals, alive, lost, missed, died>>
  BY DEF ShellOpens
<1>3. Len(calls) + pending + Len(replies) <= MaxOpen
  BY <1>0 DEF TypeOK
<1>4. Waits(scsm) /\ ~died => Asked
  BY DEF IInv, AskedInTime
<1>5. CASE /\ dialog' = [shown |-> TRUE, type |-> Head(calls).type,
                         inhibitors |-> Head(calls).inhibitors]
           /\ pending' = pending + 1 /\ UNCHANGED replies
  <2>1. dialog' \in Dialog /\ dialog'.shown
    BY <1>0, <1>1, <1>5 DEF Calls, Dialog
  <2>2. /\ Len(calls') + pending' + Len(replies') <= MaxOpen
        /\ pending' \in 0 .. MaxOpen /\ pending' > 0
    BY <1>0, <1>1, <1>3, <1>5, BoundsAssumption
  <2>3. OpenUnderWay'
    BY <2>2 DEF OpenUnderWay
  <2>4. Asked => Asked'
    BY <1>0, <1>1, <1>2, <1>5, <2>1 DEF Asked
  <2> QED
    BY <1>0, <1>1, <1>2, <1>4, <1>5, <2>1, <2>2, <2>3, <2>4, ShellStepOK DEF TypeOK
<1>6. CASE replies' = Append(replies, "error") /\ UNCHANGED <<dialog, pending>>
  <2>1. /\ replies' \in Seq(Answers) /\ Len(replies') = Len(replies) + 1
        /\ "error" \in Range(replies') /\ replies' # <<>>
    BY <1>0, <1>6, RangeKept DEF Answers
  <2>2. /\ Len(calls') + pending' + Len(replies') <= MaxOpen
        /\ pending' \in 0 .. MaxOpen
    BY <1>0, <1>1, <1>3, <1>6, <2>1, BoundsAssumption
  <2>3. Asked'
    BY <2>1 DEF Asked
  <2> QED
    BY <1>0, <1>1, <1>2, <1>6, <2>1, <2>2, <2>3, ShellStepOK DEF TypeOK
<1> QED
  BY <1>5, <1>6 DEF ShellOpens

LEMMA ShellAnswersOK == IInv /\ ShellAnswers => IInv'
<1> SUFFICES ASSUME IInv, ShellAnswers PROVE IInv'
  OBVIOUS
<1>0. /\ TypeOK /\ calls \in Seq(Calls) /\ replies \in Seq(Answers)
      /\ Len(calls) \in Nat /\ pending \in Nat /\ Len(replies) \in Nat
  BY Types DEF IInv
<1>1. /\ UNCHANGED <<scsm, calls, signals, dialog, alive, lost, missed, died>>
      /\ replies' = Append(replies, "ok") /\ pending' = pending - 1 /\ pending > 0
  BY DEF ShellAnswers
<1>2. /\ replies' \in Seq(Answers) /\ Len(replies') = Len(replies) + 1 /\ replies' # <<>>
      /\ "error" \in Range(replies) => "error" \in Range(replies')
  BY <1>0, <1>1, RangeKept DEF Answers
<1>3. Len(calls) + pending + Len(replies) <= MaxOpen
  BY <1>0 DEF TypeOK
<1>4. Len(calls') + pending' + Len(replies') <= MaxOpen /\ pending' \in 0 .. MaxOpen
  BY <1>0, <1>1, <1>2, <1>3, BoundsAssumption
<1>5. Waits(scsm) /\ ~died' => Asked'
  BY <1>1, <1>2 DEF IInv, AskedInTime, Asked
<1> QED
  BY <1>0, <1>1, <1>2, <1>4, <1>5, ShellStepOK DEF TypeOK

\* "Closed" decides nothing, and neither does the Close that caused it: what the
\* manager waits for comes of another call.
LEMMA ShellClosesOK == IInv /\ ShellCloses => IInv'
<1> SUFFICES ASSUME IInv, ShellCloses PROVE IInv'
  OBVIOUS
<1>0. /\ TypeOK /\ calls \in Seq(Calls) /\ replies \in Seq(Answers) /\ signals \in Seq(Signals)
      /\ pending \in Nat /\ Len(replies) \in Nat
      /\ calls # <<>> /\ Head(calls).method # "Open"
  BY Types DEF IInv, ShellCloses
<1>1. /\ calls' = Tail(calls) /\ calls' \in Seq(Calls)
      /\ Len(calls) \in Nat /\ Len(calls') = Len(calls) - 1
      /\ LastOpens(calls) => LastOpens(calls')
      /\ Opens(calls) # {} => Opens(calls') # {}
  BY <1>0, CallTaken DEF ShellCloses
<1>2. /\ UNCHANGED <<scsm, pending, replies, alive, lost, missed, died>>
      /\ dialog' = NoDialog /\ Len(signals') <= MaxSignals
      /\ signals' \in {signals, Append(signals, "Closed")}
  BY DEF ShellCloses
<1>3. dialog' \in Dialog
  <2>1. AnyType \in DialogTypes
    BY TypesAssumption DEF AnyType
  <2> QED
    BY <1>2, <2>1, TypesAssumption DEF NoDialog, Dialog
<1>4. /\ signals' \in Seq(Signals)
      /\ \A x \in Range(signals) : x \in Range(signals')
  <2>1. "Closed" \in Signals
    BY DEF Signals
  <2> QED
    BY <1>0, <1>2, <2>1, RangeKept
<1>5. Len(calls') + pending' + Len(replies') <= MaxOpen
  <2>1. Len(calls) + pending + Len(replies) <= MaxOpen
    BY <1>0 DEF TypeOK
  <2> QED
    BY <1>0, <1>1, <1>2, <2>1, BoundsAssumption
<1>6. scsm.dialog_is_open => OpenUnderWay' \/ replies' # <<>>
  BY <1>1, <1>2 DEF IInv, OpenWillFinish, OpenUnderWay
<1>7. Waits(scsm) /\ ~died' => Asked'
  <2> SUFFICES ASSUME Asked PROVE Asked'
    BY <1>2 DEF IInv, AskedInTime
  <2>1. CASE LastOpens(calls)
    BY <1>1, <2>1 DEF Asked
  <2>2. CASE "error" \in Range(replies)
    BY <1>2, <2>2 DEF Asked
  <2>3. CASE Range(signals) \ {"Closed"} # {}
    BY <1>4, <2>3 DEF Asked
  <2> QED
    BY <1>0, <2>1, <2>2, <2>3 DEF Asked
<1> QED
  BY <1>0, <1>1, <1>2, <1>3, <1>4, <1>5, <1>6, <1>7, ShellStepOK DEF TypeOK

LEMMA UserDecidesOK == IInv /\ UserDecides => IInv'
<1> SUFFICES ASSUME IInv, UserDecides PROVE IInv'
  OBVIOUS
<1>0. TypeOK /\ signals \in Seq(Signals)
  BY Types DEF IInv
<1>1. PICK decision \in Signals :
        decision # "Closed" /\ signals' = signals \o <<decision, "Closed">>
  BY DEF UserDecides, Signals
<1>2. /\ UNCHANGED <<scsm, calls, pending, replies, alive, lost, missed, died>>
      /\ dialog' = NoDialog /\ Len(signals') <= MaxSignals
  BY DEF UserDecides
<1>3. dialog' \in Dialog
  <2>1. AnyType \in DialogTypes
    BY TypesAssumption DEF AnyType
  <2> QED
    BY <1>2, <2>1, TypesAssumption DEF NoDialog, Dialog
<1>4. signals' \in Seq(Signals) /\ decision \in Range(signals')
  <2>1. "Closed" \in Signals
    BY DEF Signals
  <2>2. /\ signals' \in Seq(Signals) /\ Len(signals) + 1 \in DOMAIN signals'
        /\ signals'[Len(signals) + 1] = decision
    BY <1>0, <1>1, <2>1
  <2> QED
    BY <2>2 DEF Range
<1>5. Asked'
  BY <1>1, <1>4 DEF Asked
<1>6. scsm.dialog_is_open => OpenUnderWay' \/ replies' # <<>>
  BY <1>2 DEF IInv, OpenWillFinish, OpenUnderWay, Opens
<1> QED
  BY <1>0, <1>2, <1>3, <1>4, <1>5, <1>6, ShellStepOK, Types DEF TypeOK, Answers

\* The shell that dies fails every Open it owes an answer.
LEMMA ShellDiesOK == IInv /\ ShellDies => IInv'
<1> SUFFICES ASSUME IInv, ShellDies PROVE IInv'
  OBVIOUS
<1>0. /\ TypeOK /\ calls \in Seq(Calls) /\ replies \in Seq(Answers) /\ pending \in Nat
      /\ Len(calls) \in Nat /\ Len(replies) \in Nat
  BY Types DEF IInv
<1> DEFINE opens == Cardinality(Opens(calls))
           n == pending + opens
<1>1. opens \in Nat /\ opens <= Len(calls) /\ (Opens(calls) # {} => opens > 0)
  BY <1>0, OpensCounted
<1>2. /\ UNCHANGED <<scsm, signals, missed>> /\ dialog' = NoDialog
      /\ pending' = 0 /\ calls' = <<>> /\ replies' = replies \o Errors(n)
      /\ alive' = FALSE /\ lost' \in BOOLEAN /\ died' \in BOOLEAN
      /\ Waits(scsm) => died'
  BY <1>0 DEF ShellDies, Waits, TypeOK, SessionManager
<1>3. dialog' \in Dialog
  <2>1. AnyType \in DialogTypes
    BY TypesAssumption DEF AnyType
  <2> QED
    BY <1>2, <2>1, TypesAssumption DEF NoDialog, Dialog
<1> HIDE DEF opens
<1>4. n \in Nat /\ (pending > 0 \/ Opens(calls) # {} => n > 0) /\ n <= pending + Len(calls)
  BY <1>0, <1>1
<1> HIDE DEF n
<1>5. replies' \in Seq(Answers) /\ Len(replies') = Len(replies) + n
  BY <1>0, <1>2, <1>4, ErrorsAdded
<1>6. calls' \in Seq(Calls) /\ Len(calls') = 0
  BY <1>2
<1>7. Len(calls') + pending' + Len(replies') <= MaxOpen /\ pending' \in 0 .. MaxOpen
  <2>1. Len(calls) + pending + Len(replies) <= MaxOpen
    BY <1>0 DEF TypeOK
  <2> QED
    BY <1>0, <1>2, <1>4, <1>5, <1>6, <2>1, BoundsAssumption
<1>8. scsm.dialog_is_open => replies' # <<>>
  <2>1. Len(<<>>) = 0 /\ (replies # <<>> => Len(replies) # 0)
    BY <1>0, EmptySeq
  <2>2. n > 0 \/ Len(replies) # 0 => replies' # <<>>
    BY <1>0, <1>4, <1>5, <2>1
  <2> QED
    BY <1>4, <2>1, <2>2 DEF IInv, OpenWillFinish, OpenUnderWay
<1> QED
  BY <1>0, <1>2, <1>3, <1>5, <1>6, <1>7, <1>8, ShellStepOK DEF TypeOK

-----------------------------------------------------------------------------
LEMMA StutterOK == IInv /\ UNCHANGED vars => IInv'
  BY DEF vars, IInv, TypeOK, OpenWillFinish, OpenUnderWay, Opens, AskedInTime, Waits, Asked,
         LastOpens

THEOREM NextOK == IInv /\ [Next]_vars => IInv'
<1> SUFFICES ASSUME IInv, [Next]_vars PROVE IInv'
  OBVIOUS
<1>1. CASE \E i \in Inhibitors \cup Jit : InhibitorAdded(i) \/ InhibitorRemoved(i)
  BY <1>1, InhibitorOK DEF AllInhibitors
<1>2. CASE UNCHANGED vars
  BY <1>2, StutterOK
<1> QED
  BY <1>1, <1>2, LogoutOK, QueryEndSessionCompleteOK, CancelOK, ShutdownPreparedOK,
     NeedUpdateOK, OnOpenFinishedOK, OnDialogSignalOK, NamesOK, ShellOpensOK,
     ShellAnswersOK, ShellClosesOK, UserDecidesOK, ShellDiesOK
  DEF Next

THEOREM Inductive == Spec => []IInv
  BY InitOK, NextOK, PTL DEF Spec

\* The state stays within its types, calls and answers within the bound.
THEOREM TypeCorrect == Spec => []TypeOK
<1>1. IInv => TypeOK
  BY DEF IInv
<1> QED
  BY <1>1, Inductive, PTL

\* An Open that the proxy believes to be unanswered is: whatever signals overtake
\* its answer, and whenever the shell dies (dialog_is_open of scsm-shell.c).
THEOREM OpenAlwaysFinishes == Spec => []OpenWillFinish
<1>1. IInv => OpenWillFinish
  BY DEF IInv
<1> QED
  BY <1>1, Inductive, PTL

\* The manager never waits for a dialog that nobody is going to show or decide,
\* unless the shell has died (show_shell_end_session_dialog).
THEOREM DecisionAlwaysDue == Spec => []DecisionIsDue
<1>1. IInv => DecisionIsDue
  <2> SUFFICES ASSUME IInv, Waits(scsm), ~died
               PROVE  \/ dialog.shown \/ OpenUnderWay \/ "error" \in Range(replies)
                      \/ Range(signals) \ {"Closed"} # {}
    BY DEF DecisionIsDue, Waits
  <2>1. LastOpens(calls) => OpenUnderWay
    BY Types, LastOpensHasOpen DEF IInv, OpenUnderWay
  <2> QED
    BY <2>1 DEF IInv, AskedInTime, Asked
<1> QED
  BY <1>1, Inductive, PTL

-----------------------------------------------------------------------------
(* What the dialog shows.  The last call that is on its way to the shell, or  *)
(* the dialog when none is, names those who inhibit: once updates have been   *)
(* made, and unless one was dropped.                                          *)

Latest ==
  scsm.watching /\ ~scsm.update /\ ~missed =>
    /\ LastOpens(calls) => calls[Len(calls)].inhibitors = scsm.inhibitors
    /\ calls = <<>> /\ dialog.shown => dialog.inhibitors = scsm.inhibitors

\* A shell that is not there has no calls to take and shows nothing.
DeadIsBlank == ~alive => calls = <<>> /\ ~dialog.shown

ShownInv == Latest /\ DeadIsBlank

\* A callback asks for no update behind the proxy's back: the inhibitors have not
\* changed while it watches them and has no update queued.
Still(s, r) ==
  /\ s.update => r.update
  /\ r.watching => s.watching
  /\ r.watching /\ ~r.update => r.inhibitors = s.inhibitors

\* It asks to open the dialog with the inhibitors there are, or is still.
Shows(s, r) ==
  /\ AsksToOpen(r) => r.out[1].inhibitors = r.inhibitors
  /\ ~AsksToOpen(r) /\ r.watching /\ ~r.update /\ ~s.update =>
       s.watching /\ r.inhibitors = s.inhibitors

LEMMA StillShows ==
  ASSUME NEW s, NEW r, Still(s, r), ~AsksToOpen(r)
  PROVE  Shows(s, r)
  BY DEF Still, Shows

LEMMA StillIsTransitive ==
  ASSUME NEW s, NEW q, NEW r, Still(s, q), Still(q, r)
  PROVE  Still(s, r)
  BY DEF Still

LEMMA OpenShows ==
  ASSUME NEW s, Quiet(s), NEW type \in LogoutTypes
  PROVE  Shows(s, Open(s, type))
<1>1. CASE s.dialog_is_open
  BY <1>1 DEF Open, Shows, Quiet, AsksToOpen
<1>2. CASE ~s.dialog_is_open
  <2> DEFINE c == [method |-> "Open", type |-> type, inhibitors |-> s.inhibitors]
             r == Open(s, type)
  <2>1. c.method = "Open" /\ c.inhibitors = s.inhibitors /\ Append(<<>>, c) = <<c>>
    OBVIOUS
  <2>2. r = [s EXCEPT !.proxy = TRUE, !.watching = TRUE, !.dialog_is_open = TRUE,
                      !.type = type, !.out = <<c>>]
    BY <1>2, <2>1 DEF Open, Quiet
  <2> HIDE DEF c, r
  <2>3. r.out = <<c>> /\ r.inhibitors = s.inhibitors
    BY <2>2 DEF Quiet, Manager
  <2>4. AsksToOpen(r)
    BY <2>1, <2>3 DEF AsksToOpen
  <2> QED
    BY <2>1, <2>3, <2>4 DEF Shows, r
<1> QED
  BY <1>1, <1>2

\* To wait for the dialog changes nothing that it shows.
LEMMA ShowShows ==
  ASSUME NEW s, Quiet(s), s.logout_type \in LogoutTypes
  PROVE  Shows(s, Show(s))
<1>1. CASE ~s.is_running
  BY <1>1 DEF Show, Shows, Quiet, AsksToOpen
<1>2. CASE s.is_running
  <2> DEFINE q == Open(s, s.logout_type)
             r == Show(s)
  <2>1. r = [q EXCEPT !.handlers = TRUE]
    BY <1>2 DEF Show
  <2>2. q \in Manager /\ Shows(s, q)
    BY OpenLeads, OpenShows DEF Leads
  <2> HIDE DEF q, r
  <2>3. /\ r.out = q.out /\ r.inhibitors = q.inhibitors
        /\ r.watching = q.watching /\ r.update = q.update
    BY <2>1, <2>2 DEF Manager
  <2> QED
    BY <2>2, <2>3 DEF Shows, AsksToOpen, r
<1> QED
  BY <1>1, <1>2

LEMMA EndPhaseStill ==
  ASSUME NEW s \in Manager
  PROVE  Still(s, EndPhase(s))
  BY DEF EndPhase, Still, Manager

LEMMA EndSessionOrShowDialogShows ==
  ASSUME NEW s, Quiet(s), s.logout_type # "NONE"
  PROVE  Shows(s, EndSessionOrShowDialog(s))
<1>1. s.logout_type \in LogoutTypes /\ s \in Manager
  BY DEF Quiet, Manager
<1>2. EndPhase(s).out = s.out
  BY <1>1, EndPhaseCalm DEF Calm
<1>3. Shows(s, EndPhase(s))
  BY <1>1, <1>2, EndPhaseStill, StillShows DEF Quiet, AsksToOpen
<1> QED
  BY <1>1, <1>3, ShowShows DEF EndSessionOrShowDialog

\* An update that is queued excuses every difference.
LEMMA QueueUpdateExcuses ==
  ASSUME NEW q \in Manager
  PROVE  /\ ~(QueueUpdate(q).watching /\ ~QueueUpdate(q).update)
         /\ QueueUpdate(q).watching = q.watching
         /\ q.update => QueueUpdate(q).update
  BY DEF QueueUpdate, Manager

LEMMA AddedStill ==
  ASSUME NEW s \in Manager, NEW i \in AllInhibitors
  PROVE  Still(s, Added(s, i))
<1> DEFINE q == [s EXCEPT !.inhibitors = @ \cup {i}]
<1>1. q \in Manager /\ q.watching = s.watching /\ q.update = s.update
  BY DEF Manager
<1> HIDE DEF q
<1>2. Still(s, QueueUpdate(q))
  BY <1>1, QueueUpdateExcuses DEF Still
<1> QED
  BY <1>2 DEF Added, q

LEMMA CancelEndSessionStill ==
  ASSUME NEW s \in Manager
  PROVE  Still(s, CancelEndSession(s))
<1> DEFINE r == [s EXCEPT !.phase = "RUNNING", !.mode = "NORMAL",
                          !.logout_type = "NONE", !.inhibitors = @ \ Jit]
<1>1. /\ r \in Manager /\ r.watching = s.watching /\ r.update = s.update
      /\ r.inhibitors = s.inhibitors \ Jit
  BY DEF Manager, Phases
<1>2. \/ CancelEndSession(s) = s
      \/ CancelEndSession(s) = r /\ s.inhibitors \cap Jit = {}
      \/ CancelEndSession(s) = QueueUpdate(r)
  BY DEF CancelEndSession
<1> HIDE DEF r
<1>3. s.inhibitors \cap Jit = {} => Still(s, r)
  <2>1. s.inhibitors \cap Jit = {} => s.inhibitors \ Jit = s.inhibitors
    OBVIOUS
  <2> QED
    BY <1>1, <2>1 DEF Still
<1>4. Still(s, QueueUpdate(r))
  BY <1>1, QueueUpdateExcuses DEF Still
<1>5. Still(s, s)
  BY DEF Still
<1> QED
  BY <1>2, <1>3, <1>4, <1>5

\* An inhibitor is removed: the dialog is opened without it, or an update queued.
LEMMA RemovedShows ==
  ASSUME NEW s, Quiet(s), Typed(s), NEW i \in AllInhibitors
  PROVE  Shows(s, Removed(s, i))
<1> DEFINE q == [s EXCEPT !.inhibitors = @ \ {i}]
           m == IF s.phase \in {"QUERY_END_SESSION", "END_SESSION"}
                THEN EndSessionOrShowDialog(q) ELSE q
<1>1. Quiet(q) /\ q.logout_type = s.logout_type
  BY DEF Quiet, Manager
<1>2. /\ m \in Manager
      /\ m.out = s.out \/ (AsksToOpen(m) /\ Shows(q, m))
  <2>1. CASE s.phase \in {"QUERY_END_SESSION", "END_SESSION"}
    <3>1. s.phase # "RUNNING"
      BY <2>1
    <3>2. q.logout_type # "NONE"
      BY <1>1, <3>1 DEF Typed
    <3>3. q.out = s.out
      BY <1>1 DEF Quiet
    <3> HIDE DEF q
    <3>4. m = EndSessionOrShowDialog(q)
      BY <2>1
    <3> QED
      BY <1>1, <3>2, <3>3, <3>4, EndSessionOrShowDialogLeads, EndSessionOrShowDialogShows DEF Leads
  <2>2. CASE s.phase \notin {"QUERY_END_SESSION", "END_SESSION"}
    BY <1>1, <2>2 DEF Quiet
  <2> QED
    BY <2>1, <2>2
<1>3. Removed(s, i) = IF m.out # s.out THEN m ELSE QueueUpdate(m)
  BY DEF Removed
<1>4. s.out = <<>>
  BY DEF Quiet
<1> HIDE DEF q, m
<1>5. CASE m.out # s.out
  BY <1>2, <1>3, <1>5 DEF Shows
<1>6. CASE m.out = s.out
  <2>1. QueueUpdate(m).out = <<>>
    BY <1>2, <1>4, <1>6 DEF QueueUpdate, Manager
  <2> QED
    BY <1>2, <1>3, <1>6, <2>1, QueueUpdateExcuses DEF Shows, AsksToOpen
<1> QED
  BY <1>5, <1>6

LEMMA DialogCanceledStill ==
  ASSUME NEW s \in Manager
  PROVE  Still(s, DialogCanceled(s))
<1>1. CASE ~s.handlers
  BY <1>1 DEF DialogCanceled, Still
<1>2. CASE s.handlers
  <2> DEFINE q == CancelEndSession(s)
  <2>1. Still(s, q) /\ q \in Manager
    BY CancelEndSessionStill, CancelEndSessionCalm DEF Calm
  <2>2. DialogCanceled(s) = [q EXCEPT !.handlers = FALSE]
    BY <1>2 DEF DialogCanceled
  <2> HIDE DEF q
  <2> QED
    BY <2>1, <2>2 DEF Still, Manager
<1> QED
  BY <1>1, <1>2

\* A dialog that is done with is not watched for.
LEMMA DialogConfirmedStill ==
  ASSUME NEW s \in Manager, NEW type \in LogoutTypes
  PROVE  Still(s, DialogConfirmed(s, type))
<1>1. CASE ~s.handlers
  BY <1>1 DEF DialogConfirmed, Still
<1>2. CASE s.handlers /\ s.phase \in {"RUNNING", "QUERY_END_SESSION"}
  <2> DEFINE p == [s EXCEPT !.mode = "FORCE", !.logout_type = type]
             q == EndPhase(p)
  <2>1. p \in Manager /\ Still(s, p) /\ p.logout_type # "NONE"
    BY DEF Still, Manager, LogoutTypes
  <2>2. Still(p, q) /\ q \in Manager
    BY <2>1, EndPhaseStill, EndPhaseCalm DEF Calm
  <2>3. DialogConfirmed(s, type) = [q EXCEPT !.handlers = FALSE]
    BY <1>2 DEF DialogConfirmed
  <2> HIDE DEF p, q
  <2> QED
    BY <2>1, <2>2, <2>3 DEF Still, Manager
<1>3. CASE s.handlers /\ s.phase \notin {"RUNNING", "QUERY_END_SESSION"}
  BY <1>3 DEF DialogConfirmed, Still, Manager
<1> QED
  BY <1>1, <1>2, <1>3

LEMMA DialogSignalShows ==
  ASSUME NEW s, Quiet(s), NEW signal \in Signals
  PROVE  Shows(s, DialogSignal(s, signal))
<1> DEFINE q == [s EXCEPT !.dialog_is_open = FALSE, !.update = FALSE, !.watching = FALSE]
           r == DialogSignal(s, signal)
<1>1. q \in Manager /\ ~q.watching /\ q.out = <<>>
  BY DEF Quiet, Manager
<1>2. r \in {q, DialogCanceled(q), DialogConfirmed(q, "LOGOUT"), DialogConfirmed(q, "SHUTDOWN")}
  BY DEF DialogSignal, Signals
<1> HIDE DEF q, r
<1>3. Still(q, r) /\ r.out = q.out
  <2>1. Still(q, q) /\ "LOGOUT" \in LogoutTypes /\ "SHUTDOWN" \in LogoutTypes
    BY DEF Still, LogoutTypes
  <2> QED
    BY <1>1, <1>2, <2>1, DialogCanceledStill, DialogConfirmedStill,
       DialogCanceledCalm, DialogConfirmedCalm DEF Calm
<1>4. ~r.watching /\ ~AsksToOpen(r)
  BY <1>1, <1>3 DEF Still, AsksToOpen
<1> QED
  BY <1>4 DEF Shows, r

\* The last of the calls stays the last until it is taken.
LEMMA LastOfTail ==
  ASSUME NEW q \in Seq(Calls), q # <<>>
  PROVE  /\ Tail(q) # <<>> => Tail(q)[Len(Tail(q))] = q[Len(q)]
         /\ Tail(q) = <<>> => q[Len(q)] = Head(q)
<1>1. /\ Tail(q) \in Seq(Calls) /\ Head(q) = q[1] /\ Len(q) \in Nat /\ Len(q) > 0
      /\ Len(Tail(q)) = Len(q) - 1 /\ Len(<<>>) = 0
      /\ \A i \in 1 .. Len(Tail(q)) : Tail(q)[i] = q[i + 1]
  OBVIOUS
<1>2. CASE Tail(q) = <<>>
  <2>1. Len(q) = 1
    BY <1>1, <1>2
  <2> QED
    BY <1>1, <1>2, <2>1
<1>3. CASE Tail(q) # <<>>
  <2>1. Len(Tail(q)) # 0
    BY <1>1, <1>3, EmptySeq
  <2>2. Len(Tail(q)) \in 1 .. Len(Tail(q)) /\ Len(Tail(q)) + 1 = Len(q)
    BY <1>1, <2>1
  <2> QED
    BY <1>1, <1>3, <2>2
<1> QED
  BY <1>2, <1>3

\* A callback of the manager, in the main loop.
LEMMA HandledShown ==
  ASSUME IInv, ShownInv, NEW r \in Manager, Shows(scsm, r), Handled(r),
         UNCHANGED <<dialog, alive>>
  PROVE  ShownInv'
<1>0. /\ Quiet(scsm) /\ scsm.update \in BOOLEAN /\ calls \in Seq(Calls) /\ alive \in BOOLEAN
  BY Types DEF IInv, TypeOK, Quiet, Manager
<1>1. /\ scsm'.watching = r.watching /\ scsm'.update = r.update
      /\ scsm'.inhibitors = r.inhibitors /\ r.update \in BOOLEAN
  BY DEF Handled, Manager
<1>2. CASE r.out = <<>>
  <2>1. Opens(r.out) = {} /\ calls' = calls
    BY <1>0, <1>2, CallsMade DEF IInv, Opens
  <2>2. missed' = IF scsm.update /\ ~r.update THEN TRUE ELSE missed
    BY <2>1 DEF Handled
  <2>3. ~AsksToOpen(r)
    BY <1>2 DEF AsksToOpen
  <2>4. scsm'.watching /\ ~scsm'.update /\ ~missed' =>
          /\ scsm.watching /\ ~scsm.update /\ ~missed /\ scsm'.inhibitors = scsm.inhibitors
    BY <1>1, <2>2, <2>3 DEF Shows
  <2>5. Latest'
    BY <2>1, <2>4 DEF ShownInv, Latest, LastOpens
  <2> QED
    BY <2>1, <2>5 DEF ShownInv, DeadIsBlank
<1>3. ASSUME NEW c \in Calls, r.out = <<c>>, alive
      PROVE  ShownInv'
  <2>1. calls' = calls \o <<c>>
    BY <1>3 DEF Handled
  <2>2. calls' # <<>> /\ calls'[Len(calls')] = c
    BY <1>0, <2>1, CallAdded
  <2>3. c.method = "Open" => c.inhibitors = scsm'.inhibitors
    BY <1>1, <1>3 DEF Shows, AsksToOpen
  <2>4. Latest'
    BY <2>2, <2>3 DEF Latest, LastOpens
  <2> QED
    BY <1>3, <2>4 DEF ShownInv, DeadIsBlank
<1>4. CASE ~alive
  <2>1. calls' = calls /\ calls = <<>> /\ ~dialog.shown
    BY <1>4 DEF Handled, ShownInv, DeadIsBlank
  <2> QED
    BY <2>1 DEF ShownInv, Latest, LastOpens, DeadIsBlank
<1> QED
  BY <1>0, <1>2, <1>3, <1>4 DEF Manager, Outs

\* The session manager's actions.
LEMMA ManagerShown ==
  ASSUME IInv, ShownInv,
         \/ \E type \in DialogTypes : Logout(type)
         \/ QueryEndSessionComplete \/ Cancel \/ ShutdownPrepared
         \/ \E i \in AllInhibitors : InhibitorAdded(i) \/ InhibitorRemoved(i)
         \/ NeedUpdate \/ OnDialogSignal
  PROVE  ShownInv'
<1>0. /\ Quiet(scsm) /\ Typed(scsm) /\ scsm \in Manager /\ scsm.out = <<>>
      /\ signals \in Seq(Signals)
  BY Types DEF IInv, Quiet
<1>1. UNCHANGED <<dialog, alive>>
  BY DEF Logout, QueryEndSessionComplete, Cancel, ShutdownPrepared, InhibitorAdded,
     InhibitorRemoved, NeedUpdate, OnDialogSignal, ShellUnchanged
<1>2. ASSUME NEW r \in Manager, Still(scsm, r), ~AsksToOpen(r), Handled(r)
      PROVE  ShownInv'
  BY <1>1, <1>2, StillShows, HandledShown
<1>3. ASSUME NEW type \in DialogTypes, Logout(type)
      PROVE  ShownInv'
  <2> DEFINE p == [scsm EXCEPT !.mode = "NORMAL", !.logout_type = type]
             r == EndPhase(p)
  <2>1. p \in Manager /\ p.logout_type # "NONE" /\ Still(scsm, p) /\ p.out = <<>>
    BY <1>0, TypesAssumption DEF Manager, LogoutTypes, Still
  <2>2. Handled(r)
    BY <1>3 DEF Logout
  <2> HIDE DEF p
  <2>3. Still(p, r) /\ r \in Manager /\ r.out = <<>>
    BY <2>1, EndPhaseStill, EndPhaseCalm DEF Calm
  <2> HIDE DEF r
  <2> QED
    BY <1>2, <2>1, <2>2, <2>3, StillIsTransitive DEF AsksToOpen
<1>4. CASE QueryEndSessionComplete
  <2>1. scsm.logout_type # "NONE"
    BY <1>0, <1>4 DEF QueryEndSessionComplete, Typed
  <2> QED
    BY <1>0, <1>1, <1>4, <2>1, EndSessionOrShowDialogLeads, EndSessionOrShowDialogShows,
       HandledShown DEF QueryEndSessionComplete, Leads
<1>5. CASE Cancel
  <2>1. CancelEndSession(scsm) \in Manager /\ CancelEndSession(scsm).out = <<>>
    BY <1>0, CancelEndSessionCalm DEF Calm
  <2> QED
    BY <1>0, <1>2, <1>5, <2>1, CancelEndSessionStill DEF Cancel, AsksToOpen
<1>6. CASE ShutdownPrepared
  <2>1. CASE /\ scsm.phase = "QUERY_END_SESSION"
             /\ Handled([scsm EXCEPT !.preparing = FALSE, !.phase = "END_SESSION"])
    <3> DEFINE r == [scsm EXCEPT !.preparing = FALSE, !.phase = "END_SESSION"]
    <3>1. r \in Manager /\ Still(scsm, r) /\ ~AsksToOpen(r)
      BY <1>0 DEF Manager, Phases, Still, AsksToOpen
    <3>2. Handled(r)
      BY <2>1
    <3> HIDE DEF r
    <3> QED
      BY <1>2, <3>1, <3>2
  <2>2. CASE Handled(CancelEndSession(Close([scsm EXCEPT !.preparing = FALSE,
                                                         !.handlers = FALSE])))
    <3> DEFINE p == [scsm EXCEPT !.preparing = FALSE, !.handlers = FALSE]
               q == Close(p)
               r == CancelEndSession(q)
    <3>1. Quiet(p) /\ ~p.handlers /\ Still(scsm, p)
      BY <1>0 DEF Quiet, Manager, Still
    <3>2. Handled(r)
      BY <2>2
    <3> HIDE DEF p
    <3>3. q \in Manager
      BY <3>1, CloseLeads DEF Leads
    <3>4. Still(p, q) /\ ~AsksToOpen(q)
      <4>1. CASE ~p.proxy
        BY <3>1, <4>1 DEF Close, Still, Quiet, AsksToOpen
      <4>2. CASE p.proxy
        <5>1. q = [p EXCEPT !.dialog_is_open = FALSE, !.out = <<[method |-> "Close"]>>]
          BY <3>1, <4>2 DEF Close, Quiet
        <5>2. /\ q.update = p.update /\ q.watching = p.watching /\ q.inhibitors = p.inhibitors
              /\ q.out = <<[method |-> "Close"]>>
          BY <3>1, <5>1 DEF Quiet, Manager
        <5> HIDE DEF q
        <5> QED
          BY <5>2 DEF Still, AsksToOpen
      <4> QED
        BY <4>1, <4>2
    <3> HIDE DEF q
    <3>5. Still(q, r) /\ r \in Manager /\ r.out = q.out
      BY <3>3, CancelEndSessionStill, CancelEndSessionCalm DEF Calm
    <3> HIDE DEF r
    <3>6. Still(scsm, r) /\ ~AsksToOpen(r)
      BY <3>1, <3>4, <3>5, StillIsTransitive DEF AsksToOpen
    <3> QED
      BY <1>2, <3>2, <3>5, <3>6
  <2> QED
    BY <1>6, <2>1, <2>2 DEF ShutdownPrepared
<1>7. ASSUME NEW i \in AllInhibitors, InhibitorAdded(i)
      PROVE  ShownInv'
  <2>1. Added(scsm, i) \in Manager /\ Added(scsm, i).out = <<>>
    BY <1>0, AddedCalm DEF Calm
  <2> QED
    BY <1>0, <1>2, <1>7, <2>1, AddedStill DEF InhibitorAdded, AsksToOpen
<1>8. ASSUME NEW i \in AllInhibitors, InhibitorRemoved(i)
      PROVE  ShownInv'
  BY <1>0, <1>1, <1>8, RemovedLeads, RemovedShows, HandledShown DEF InhibitorRemoved, Leads
<1>9. CASE NeedUpdate
  <2> DEFINE p == [scsm EXCEPT !.update = FALSE]
             r == Open(p, scsm.type)
  <2>1. Quiet(p) /\ scsm.type \in LogoutTypes
    BY <1>0 DEF Quiet, Manager
  <2>2. Handled(r) /\ scsm.update
    BY <1>9 DEF NeedUpdate
  <2> HIDE DEF p
  <2>3. r \in Manager /\ Shows(p, r)
    BY <2>1, OpenLeads, OpenShows DEF Leads
  <2> HIDE DEF r
  <2>4. Shows(scsm, r)
    BY <2>2, <2>3 DEF Shows
  <2> QED
    BY <1>1, <2>2, <2>3, <2>4, HandledShown
<1>10. CASE OnDialogSignal
  <2>1. Head(signals) \in Signals
    BY <1>0, <1>10, RangeOfTail DEF OnDialogSignal
  <2> QED
    BY <1>0, <1>1, <1>10, <2>1, DialogSignalLeads, DialogSignalShows, HandledShown
    DEF OnDialogSignal, Leads
<1> QED
  BY <1>3, <1>4, <1>5, <1>6, <1>7, <1>8, <1>9, <1>10

\* An answer to Open drops an update that was queued meanwhile.
LEMMA AnswerShown == IInv /\ ShownInv /\ OnOpenFinished => ShownInv'
<1> SUFFICES ASSUME IInv, ShownInv, OnOpenFinished PROVE ShownInv'
  OBVIOUS
<1> DEFINE p == [scsm EXCEPT !.update = FALSE, !.dialog_is_open = FALSE]
           r == OpenFinished(scsm, Head(replies) = "ok")
<1>1. scsm \in Manager
  BY Types DEF IInv, Quiet
<1>2. p \in Manager /\ p.watching = scsm.watching /\ ~p.update /\ p.inhibitors = scsm.inhibitors
  BY <1>1 DEF Manager
<1>3. r \in {p, DialogCanceled(p)}
  BY DEF OpenFinished
<1>4. /\ scsm' = r /\ missed' = (missed \/ (scsm.update /\ ~r.update))
      /\ UNCHANGED <<calls, dialog, alive>>
  BY DEF OnOpenFinished, ShellUnchanged
<1> HIDE DEF p, r
<1>5. Still(p, r)
  BY <1>2, <1>3, DialogCanceledStill DEF Still
<1>6. r.watching /\ ~r.update /\ ~missed' =>
        scsm.watching /\ ~scsm.update /\ ~missed /\ r.inhibitors = scsm.inhibitors
  BY <1>2, <1>4, <1>5 DEF Still
<1>7. Latest'
  BY <1>4, <1>6 DEF ShownInv, Latest, LastOpens
<1> QED
  BY <1>4, <1>7 DEF ShownInv, DeadIsBlank

\* The shell's: it shows what the last call it has taken names, or nothing.
LEMMA ShellShown ==
  ASSUME IInv, ShownInv,
         \/ OnShellName \/ OnNameOwnerLost \/ ShellOpens \/ ShellAnswers \/ ShellCloses
         \/ UserDecides \/ ShellDies \/ ShellStarts
  PROVE  ShownInv'
<1>0. scsm \in SessionManager /\ calls \in Seq(Calls) /\ alive \in BOOLEAN
  BY DEF IInv, TypeOK
<1>1. /\ scsm'.watching = scsm.watching /\ scsm'.update = scsm.update
      /\ scsm'.inhibitors = scsm.inhibitors /\ missed' = missed
  <2>1. \/ scsm' = scsm \/ scsm' = [scsm EXCEPT !.is_running = alive]
        \/ scsm' = [scsm EXCEPT !.proxy = FALSE]
    BY DEF OnShellName, OnNameOwnerLost, ShellOpens, ShellAnswers, ShellCloses,
       UserDecides, ShellDies, ShellStarts
  <2>2. missed' = missed
    BY DEF OnShellName, OnNameOwnerLost, ShellOpens, ShellAnswers, ShellCloses,
       UserDecides, ShellDies, ShellStarts
  <2> QED
    BY <1>0, <2>1, <2>2 DEF SessionManager
<1>2. CASE OnShellName \/ OnNameOwnerLost \/ ShellAnswers \/ ShellStarts
  <2>1. UNCHANGED <<calls, dialog>> /\ (alive' \/ alive' = alive)
    BY <1>2 DEF OnShellName, OnNameOwnerLost, ShellAnswers, ShellStarts
  <2> QED
    BY <1>1, <2>1 DEF ShownInv, Latest, LastOpens, DeadIsBlank
<1>3. CASE ShellDies \/ UserDecides
  <2>1. /\ dialog'.shown = FALSE
        /\ calls' = <<>> \/ (calls' = calls /\ alive' = alive)
    BY <1>3 DEF ShellDies, UserDecides, NoDialog
  <2> QED
    BY <1>1, <2>1 DEF ShownInv, Latest, LastOpens, DeadIsBlank
<1>4. CASE ShellOpens \/ ShellCloses
  <2>1. calls # <<>> /\ calls' = Tail(calls) /\ alive' = alive
    BY <1>4 DEF ShellOpens, ShellCloses
  <2>2. alive
    BY <2>1 DEF ShownInv, DeadIsBlank
  <2>3. /\ LastOpens(calls') => LastOpens(calls) /\ calls'[Len(calls')] = calls[Len(calls)]
        /\ calls' = <<>> => calls[Len(calls)] = Head(calls)
    BY <1>0, <2>1, LastOfTail DEF LastOpens
  <2>4. calls' = <<>> /\ dialog'.shown =>
          LastOpens(calls) /\ dialog'.inhibitors = calls[Len(calls)].inhibitors
    BY <1>4, <2>1, <2>3 DEF ShellOpens, ShellCloses, NoDialog, LastOpens
  <2>5. Latest'
    BY <1>1, <2>3, <2>4 DEF ShownInv, Latest
  <2> QED
    BY <2>1, <2>2, <2>5 DEF ShownInv, DeadIsBlank
<1> QED
  BY <1>2, <1>3, <1>4

LEMMA ShownInit == Init => ShownInv
  BY DEF Init, NoDialog, ShownInv, Latest, LastOpens, DeadIsBlank

LEMMA ShownNext == IInv /\ ShownInv /\ [Next]_vars => ShownInv'
<1> SUFFICES ASSUME IInv, ShownInv, [Next]_vars PROVE ShownInv'
  OBVIOUS
<1>1. CASE UNCHANGED vars
  BY <1>1 DEF vars, ShownInv, Latest, LastOpens, DeadIsBlank
<1> QED
  BY <1>1, ManagerShown, AnswerShown, ShellShown DEF Next, AllInhibitors

\* The dialog names those who inhibit the logout, whoever comes or goes while it is
\* open, once every queued update has been made and reached the shell
\* (queue_end_session_dialog_update, on_need_end_session_dialog_update).
THEOREM InhibitorsAlwaysShown == Spec => []InhibitorsShown
<1>1. ShownInv => InhibitorsShown
  BY DEF ShownInv, Latest, InhibitorsShown
<1> QED
  BY <1>1, ShownInit, ShownNext, Inductive, PTL DEF Spec
=============================================================================
