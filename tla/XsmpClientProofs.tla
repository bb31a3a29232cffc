--------------------------- MODULE XsmpClientProofs ---------------------------
(***************************************************************************)
(* Theorems about XsmpClient, for any number of messages under way.        *)
(*                                                                         *)
(* The invariant follows the one save that the client may be busy with: a  *)
(* request that the session manager counts as current is under way, is     *)
(* worked on, or has its answer under way, and never two of them.  The     *)
(* exception is phase 2, which the manager does not count and in which it  *)
(* must not be asked for anything else.  A cancelled logout may overtake   *)
(* all this: then the manager counts on nothing, and the news follow what  *)
(* they have overtaken, until it asks for the next save.  Of a client that *)
(* is confused by that, nothing is said.                                   *)
(*                                                                         *)
(* Everything is said about what will be under way when the callback that  *)
(* runs has returned, so that the callbacks' parts can be taken one by one.*)
(***************************************************************************)
EXTENDS XsmpClient, SequenceTheorems, TLAPS

Done == "SaveYourselfDone"
Phase2 == "SaveYourselfPhase2Request"
Request == "SaveYourselfRequest"

IsSave(m) == m.type = "SaveYourself" /\ m.save # None

\* What must not follow a SaveYourself.
Disturbs(m) == IsSave(m) \/ m.type \in {"ShutdownCancelled", "SaveYourselfPhase2"}

\* Messages to the client.
Carries(T, type) == \E i \in DOMAIN T : T[i].type = type
HasSave(T) == \E i \in DOMAIN T : IsSave(T[i])
AllowsInteract(T) == \E i \in DOMAIN T : IsSave(T[i]) /\ T[i].interact
Ordered(T) == \A i, k \in DOMAIN T : IsSave(T[i]) /\ i < k => ~Disturbs(T[k])

\* Messages to the session manager.
Has(Q, x) == \E i \in DOMAIN Q : Q[i] = x
Answered(Q) == Has(Q, Done) \/ Has(Q, Phase2)
OnceAnswered(Q) ==
  \A i, k \in DOMAIN Q : Q[i] \in {Done, Phase2} /\ Q[k] \in {Done, Phase2} => i = k
Phase2Last(Q) == \A i \in DOMAIN Q : Q[i] = Phase2 => i = Len(Q)
DoneFirst(Q) == \A i, k \in DOMAIN Q : Q[i] = Request /\ Q[k] = Done => k < i

Saving(c) == c.state \in {"saving", "waits", "interacting"}
Ending == {"END_SESSION", "EXIT"}

\* A save is asked for, worked on, or its answer is on the way.
Owed(T, Q, c) == HasSave(T) \/ Saving(c) \/ Answered(Q)

\* There is one at most.
OneOwed(T, Q, c) ==
  /\ Ordered(T) /\ OnceAnswered(Q)
  /\ Saving(c) => ~HasSave(T) /\ ~Answered(Q)
  /\ HasSave(T) => ~Answered(Q)
  /\ c.state = "waits2" => ~Has(Q, Done)
  /\ Has(Q, Phase2) => c.state = "waits2" /\ Phase2Last(Q)
  /\ Carries(T, "ShutdownCancelled") => c.state \in {"idle", "frozen"}

\* Phase 2 begins when the end of the session has begun, and the client that waits
\* for it is asked for nothing else.
InPhase2(s, T, Q, c) ==
  /\ Carries(T, "SaveYourselfPhase2") =>
       \/ c.state \in {"idle", "frozen"}
       \/ Saving(c) /\ c.phase2
       \/ c.state = "waits2" /\ s.current_save_yourself = None /\ s.phase \in Ending
  /\ s.last => /\ c.state = "waits2" /\ s.current_save_yourself = None
               /\ s.phase = "END_SESSION" /\ ~Carries(T, "SaveYourselfPhase2")

\* What the manager counts as current is owed, and the reverse but for phase 2.
CurrentIsOwed(s, T, Q, c) ==
  /\ s.current_save_yourself # None => Owed(T, Q, c)
  /\ s.current_save_yourself = None =>
       /\ ~HasSave(T) /\ ~Has(Q, Phase2)
       /\ Saving(c) => c.phase2 /\ s.phase \in Ending /\ ~Has(Q, Request)
       /\ c.state = "waits2" => Q = <<>>
       /\ Has(Q, Done) => s.phase \in Ending /\ DoneFirst(Q)

\* libSM takes the answers, and gives leave to interact.
Expects(s, T, Q, c) ==
  /\ Owed(T, Q, c) \/ c.state = "waits2" => s.saving
  /\ AllowsInteract(T) => s.may_interact
  /\ (Saving(c) \/ c.state = "waits2") /\ c.may_interact /\ ~HasSave(T) => s.may_interact
  /\ c.state = "waits" =>
       \/ s.may_interact /\ Has(Q, "InteractRequest")
       \/ Carries(T, "Interact")

Core(s, T, Q, c) ==
  OneOwed(T, Q, c) /\ InPhase2(s, T, Q, c) /\ CurrentIsOwed(s, T, Q, c) /\ Expects(s, T, Q, c)

\* Whom the manager waits for, and whom it has frozen.
Waiting(s, T, Q, c) ==
  /\ s.phase = "QUERY_END_SESSION" /\ s.asked => Owed(T, Q, c) \/ c.state = "waits2"
  /\ s.phase = "RUNNING" /\ s.next_save_yourself # None =>
       /\ s.next_save_yourself = SmSaveLocal
       /\ Owed(T, Q, c) \/ c.state = "waits2"
  /\ s.phase = "RUNNING" /\ c.state = "frozen" =>
       \/ Has(Q, Done) \/ HasSave(T)
       \/ Carries(T, "SaveComplete") \/ Carries(T, "ShutdownCancelled")

\* A client that is told to die is not heard any more.
GoneIsOut ==
  /\ client.state = "gone" \/ ~srv.conn => client.state = "gone" /\ ~Connected
  /\ Carries(toClient, "Die") => srv.phase = "EXIT"

\* A cancelling has overtaken what is owed: the manager counts on nothing, the one
\* save that may be on its way is followed by the news, and a client that has them
\* already stops saving.
CancelFollows(T) ==
  \A i \in DOMAIN T : IsSave(T[i]) =>
    \E k \in DOMAIN T : i < k /\ T[k].type = "ShutdownCancelled"
OneSave(T) == \A i, k \in DOMAIN T : IsSave(T[i]) /\ IsSave(T[k]) => i = k
SaveFirst(T) == \A i, k \in DOMAIN T : i < k /\ IsSave(T[k]) =>
                  T[i].type \notin {"ShutdownCancelled", "SaveYourselfPhase2"}

Crossed(s, T, Q, c) ==
  /\ s.phase = "RUNNING" /\ ~s.last
  /\ s.current_save_yourself = None /\ s.next_save_yourself = None
  /\ CancelFollows(T) /\ OneSave(T)
  /\ Saving(c) => ~HasSave(T)
  /\ HasSave(T) \/ Saving(c) \/ c.state = "waits2" => ~Has(Q, Done)
  /\ c.state \in {"frozen", "waits2"} \/ (Saving(c) /\ ~c.cancelled) =>
       Carries(T, "ShutdownCancelled")
  /\ c.state = "waits2" => SaveFirst(T)
  /\ AllowsInteract(T) => s.may_interact
  /\ (Saving(c) \/ c.state = "waits2") /\ c.may_interact /\ ~HasSave(T) => s.may_interact
  /\ c.state = "waits" =>
       \/ s.may_interact /\ Has(Q, "InteractRequest")
       \/ Carries(T, "Interact")

IInv ==
  /\ TypeOK
  /\ GoneIsOut
  /\ late = "nothing" =>
       /\ Ordered(toClient)
       /\ client.state # "gone" => /\ Core(srv, toClient, toServer, client)
                                   /\ Waiting(srv, toClient, toServer, client)
  /\ late = "answer" =>
       /\ OneSave(toClient) /\ srv.phase = "RUNNING"
       /\ client.state # "gone" => Crossed(srv, toClient, toServer, client)

-----------------------------------------------------------------------------
(* Sequences of messages.                                                   *)

\* A message is added to those on the way to the client.
LEMMA ToClientAdded ==
  ASSUME NEW T \in Seq(ToClient), NEW m \in ToClient, NEW V, V = Append(T, m)
  PROVE  /\ V \in Seq(ToClient)
         /\ \A type : Carries(V, type) <=> Carries(T, type) \/ m.type = type
         /\ HasSave(V) <=> HasSave(T) \/ IsSave(m)
         /\ AllowsInteract(V) <=> AllowsInteract(T) \/ (IsSave(m) /\ m.interact)
         /\ Ordered(T) /\ (~HasSave(T) \/ ~Disturbs(m)) => Ordered(V)
<1>1. /\ V \in Seq(ToClient) /\ Len(T) \in Nat /\ Len(V) = Len(T) + 1
      /\ DOMAIN T = 1..Len(T) /\ DOMAIN V = 1..Len(V)
      /\ \A i \in 1..Len(T) : V[i] = T[i]
      /\ V[Len(T) + 1] = m
  BY AppendProperties, LenProperties
<1>2. /\ \A i \in DOMAIN T : i \in DOMAIN V /\ V[i] = T[i] /\ i < Len(V)
      /\ Len(V) \in DOMAIN V /\ V[Len(V)] = m
      /\ \A i \in DOMAIN V : i = Len(V) \/ i \in DOMAIN T
  BY <1>1
<1>3. \A type : Carries(V, type) <=> Carries(T, type) \/ m.type = type
  BY <1>2 DEF Carries
<1>4. HasSave(V) <=> HasSave(T) \/ IsSave(m)
  BY <1>2 DEF HasSave
<1>5. AllowsInteract(V) <=> AllowsInteract(T) \/ (IsSave(m) /\ m.interact)
  BY <1>2 DEF AllowsInteract
<1>6. ASSUME Ordered(T), ~HasSave(T) \/ ~Disturbs(m) PROVE Ordered(V)
  <2> SUFFICES ASSUME NEW i \in DOMAIN V, NEW k \in DOMAIN V, IsSave(V[i]), i < k
               PROVE  ~Disturbs(V[k])
    BY DEF Ordered
  <2>1. i \in DOMAIN T
    BY <1>1, <1>2
  <2>2. CASE k \in DOMAIN T
    BY <1>2, <1>6, <2>1, <2>2 DEF Ordered
  <2>3. CASE k = Len(V)
    BY <1>2, <1>6, <2>1, <2>3 DEF HasSave
  <2> QED
    BY <1>2, <2>2, <2>3
<1> QED
  BY <1>1, <1>3, <1>4, <1>5, <1>6

\* The client takes the first message.
LEMMA ToClientTaken ==
  ASSUME NEW T \in Seq(ToClient), T # <<>>, NEW V, V = Tail(T), NEW m, m = Head(T)
  PROVE  /\ V \in Seq(ToClient) /\ m \in ToClient /\ Len(V) <= Len(T)
         /\ \A type : Carries(T, type) <=> Carries(V, type) \/ m.type = type
         /\ HasSave(T) <=> HasSave(V) \/ IsSave(m)
         /\ AllowsInteract(T) <=> AllowsInteract(V) \/ (IsSave(m) /\ m.interact)
         /\ Ordered(T) => Ordered(V)
         /\ Ordered(T) /\ IsSave(m) =>
              /\ ~HasSave(V) /\ ~Carries(V, "ShutdownCancelled")
              /\ ~Carries(V, "SaveYourselfPhase2")
<1>1. /\ V \in Seq(ToClient) /\ Len(T) \in Nat /\ Len(V) = Len(T) - 1
      /\ DOMAIN T = 1..Len(T) /\ DOMAIN V = 1..Len(V)
      /\ \A i \in 1..Len(V) : V[i] = T[i + 1]
      /\ m \in ToClient
  BY HeadTailProperties, LenProperties
<1>2. Len(T) # 0
  BY EmptySeq
<1>3. m = T[1]
  OBVIOUS
<1>4. /\ \A i \in DOMAIN V : i + 1 \in DOMAIN T /\ V[i] = T[i + 1] /\ 1 < i + 1
      /\ 1 \in DOMAIN T
      /\ \A i \in DOMAIN T : i = 1 \/ (i - 1 \in DOMAIN V /\ V[i - 1] = T[i])
  BY <1>1, <1>2
<1>0. /\ \A i \in DOMAIN V : \E k \in DOMAIN T : T[k] = V[i]
      /\ \A i \in DOMAIN T : T[i] = m \/ \E k \in DOMAIN V : V[k] = T[i]
      /\ \E k \in DOMAIN T : T[k] = m
  BY <1>3, <1>4
<1>5. ASSUME NEW type PROVE Carries(T, type) <=> Carries(V, type) \/ m.type = type
  <2>1. ASSUME Carries(T, type) PROVE Carries(V, type) \/ m.type = type
    <3>1. PICK i \in DOMAIN T : T[i].type = type
      BY <2>1 DEF Carries
    <3>2. T[i] = m \/ \E k \in DOMAIN V : V[k] = T[i]
      BY <1>0
    <3> QED
      BY <3>1, <3>2, Zenon DEF Carries
  <2>2. ASSUME Carries(V, type) PROVE Carries(T, type)
    <3>1. PICK i \in DOMAIN V : V[i].type = type
      BY <2>2 DEF Carries
    <3>2. \E k \in DOMAIN T : T[k] = V[i]
      BY <1>0
    <3> QED
      BY <3>1, <3>2, Zenon DEF Carries
  <2>3. m.type = type => Carries(T, type)
    BY <1>0, Zenon DEF Carries
  <2> QED
    BY <2>1, <2>2, <2>3
<1>6. HasSave(T) <=> HasSave(V) \/ IsSave(m)
  BY <1>0, Zenon DEF HasSave
<1>7. AllowsInteract(T) <=> AllowsInteract(V) \/ (IsSave(m) /\ m.interact)
  BY <1>0, Zenon DEF AllowsInteract
<1>8. Ordered(T) => Ordered(V)
  <2>1. \A i, k \in DOMAIN V : i < k => i + 1 < k + 1
    BY <1>1
  <2> QED
    BY <1>4, <2>1 DEF Ordered
<1>9. ASSUME Ordered(T), IsSave(m)
      PROVE  /\ ~HasSave(V) /\ ~Carries(V, "ShutdownCancelled")
             /\ ~Carries(V, "SaveYourselfPhase2")
  <2>1. ASSUME NEW i \in DOMAIN V PROVE ~Disturbs(V[i])
    <3>1. i + 1 \in DOMAIN T /\ 1 \in DOMAIN T /\ 1 < i + 1 /\ V[i] = T[i + 1]
      BY <1>4
    <3>2. IsSave(T[1])
      BY <1>3, <1>9
    <3>3. ~Disturbs(T[i + 1])
      BY <1>9, <3>1, <3>2, Zenon DEF Ordered
    <3> QED
      BY <3>1, <3>3
  <2> QED
    BY <2>1 DEF Carries, HasSave, Disturbs
<1>10. Len(V) <= Len(T)
  BY <1>1
<1> QED
  BY <1>1, <1>5, <1>6, <1>7, <1>8, <1>9, <1>10

\* What a cancelling has overtaken stays so, when another message follows.
LEMMA FollowsAdded ==
  ASSUME NEW T \in Seq(ToClient), NEW m \in ToClient, NEW V, V = Append(T, m)
  PROVE  /\ m.type = "ShutdownCancelled" => CancelFollows(V)
         /\ ~IsSave(m) /\ CancelFollows(T) => CancelFollows(V)
         /\ ~IsSave(m) /\ OneSave(T) => OneSave(V)
         /\ ~IsSave(m) /\ SaveFirst(T) => SaveFirst(V)
         /\ Ordered(T) => OneSave(T)
<1>1. /\ V \in Seq(ToClient) /\ Len(T) \in Nat /\ Len(V) = Len(T) + 1
      /\ DOMAIN T = 1..Len(T) /\ DOMAIN V = 1..Len(V)
      /\ \A i \in 1..Len(T) : V[i] = T[i]
      /\ V[Len(T) + 1] = m
  BY AppendProperties, LenProperties
<1>2. /\ \A i \in DOMAIN T : i \in DOMAIN V /\ V[i] = T[i] /\ i < Len(V)
      /\ Len(V) \in DOMAIN V /\ V[Len(V)] = m
      /\ \A i \in DOMAIN V : i = Len(V) \/ i \in DOMAIN T
  BY <1>1
<1>3. ASSUME m.type = "ShutdownCancelled" PROVE CancelFollows(V)
  <2>1. ~IsSave(m)
    BY <1>3 DEF IsSave
  <2> QED
    BY <1>2, <1>3, <2>1 DEF CancelFollows
<1>4. ASSUME ~IsSave(m), CancelFollows(T) PROVE CancelFollows(V)
  BY <1>2, <1>4 DEF CancelFollows
<1>5. ASSUME ~IsSave(m), OneSave(T) PROVE OneSave(V)
  BY <1>2, <1>5 DEF OneSave
<1>6. ASSUME ~IsSave(m), SaveFirst(T) PROVE SaveFirst(V)
  <2>1. \A i \in DOMAIN V, k \in DOMAIN T : i < k => i \in DOMAIN T
    BY <1>1
  <2> QED
    BY <1>2, <1>6, <2>1 DEF SaveFirst
<1>7. ASSUME Ordered(T) PROVE OneSave(T)
  <2>1. \A i, k \in DOMAIN T : i = k \/ i < k \/ k < i
    BY <1>1
  <2> QED
    BY <1>7, <2>1 DEF Ordered, OneSave, Disturbs
<1> QED
  BY <1>3, <1>4, <1>5, <1>6, <1>7

\* The client reads one of them.
LEMMA FollowsTaken ==
  ASSUME NEW T \in Seq(ToClient), T # <<>>, NEW V, V = Tail(T), NEW m, m = Head(T)
  PROVE  /\ CancelFollows(T) => CancelFollows(V)
         /\ CancelFollows(T) /\ IsSave(m) => Carries(V, "ShutdownCancelled")
         /\ OneSave(T) => OneSave(V)
         /\ OneSave(T) /\ IsSave(m) => ~HasSave(V)
         /\ SaveFirst(T) => SaveFirst(V)
         /\ SaveFirst(T) /\ m.type \in {"ShutdownCancelled", "SaveYourselfPhase2"} =>
              ~HasSave(V)
<1>1. /\ V \in Seq(ToClient) /\ Len(T) \in Nat /\ Len(V) = Len(T) - 1
      /\ DOMAIN T = 1..Len(T) /\ DOMAIN V = 1..Len(V)
      /\ \A i \in 1..Len(V) : V[i] = T[i + 1]
      /\ m \in ToClient
  BY HeadTailProperties, LenProperties
<1>2. Len(T) # 0
  BY EmptySeq
<1>3. m = T[1]
  OBVIOUS
<1>4. /\ \A i \in DOMAIN V : i + 1 \in DOMAIN T /\ V[i] = T[i + 1] /\ 1 < i + 1
      /\ 1 \in DOMAIN T
  BY <1>1, <1>2
<1>5. \A k \in DOMAIN T : 1 < k => k - 1 \in DOMAIN V /\ V[k - 1] = T[k]
  BY <1>1
<1>6. /\ \A i \in DOMAIN V, k \in DOMAIN T : i + 1 < k => i < k - 1 /\ 1 < k
      /\ \A i, k \in DOMAIN V : i < k => i + 1 < k + 1
      /\ \A i, k \in DOMAIN V : i + 1 = k + 1 => i = k
      /\ \A i \in DOMAIN V : 1 # i + 1
  BY <1>1
<1>7. ASSUME CancelFollows(T) PROVE CancelFollows(V)
  <2> SUFFICES ASSUME NEW i \in DOMAIN V, IsSave(V[i])
               PROVE  \E k \in DOMAIN V : i < k /\ V[k].type = "ShutdownCancelled"
    BY DEF CancelFollows
  <2>1. PICK k \in DOMAIN T : i + 1 < k /\ T[k].type = "ShutdownCancelled"
    BY <1>4, <1>7 DEF CancelFollows
  <2> QED
    BY <1>5, <1>6, <2>1
<1>8. ASSUME CancelFollows(T), IsSave(m) PROVE Carries(V, "ShutdownCancelled")
  <2>1. PICK k \in DOMAIN T : 1 < k /\ T[k].type = "ShutdownCancelled"
    BY <1>3, <1>4, <1>8 DEF CancelFollows
  <2> QED
    BY <1>5, <2>1 DEF Carries
<1>9. ASSUME OneSave(T) PROVE OneSave(V)
  BY <1>4, <1>6, <1>9 DEF OneSave
<1>10. ASSUME OneSave(T), IsSave(m) PROVE ~HasSave(V)
  BY <1>3, <1>4, <1>6, <1>10 DEF OneSave, HasSave
<1>11. ASSUME SaveFirst(T) PROVE SaveFirst(V)
  BY <1>4, <1>6, <1>11 DEF SaveFirst
<1>12. ASSUME SaveFirst(T), m.type \in {"ShutdownCancelled", "SaveYourselfPhase2"}
       PROVE  ~HasSave(V)
  BY <1>3, <1>4, <1>12 DEF SaveFirst, HasSave
<1> QED
  BY <1>7, <1>8, <1>9, <1>10, <1>11, <1>12

\* A message is added to those on the way to the session manager.
LEMMA ToServerAdded ==
  ASSUME NEW Q \in Seq(ToServer), NEW m \in ToServer, NEW V, V = Append(Q, m)
  PROVE  /\ V \in Seq(ToServer)
         /\ \A x : Has(V, x) <=> Has(Q, x) \/ m = x
         /\ OnceAnswered(Q) /\ (~Answered(Q) \/ m \notin {Done, Phase2}) => OnceAnswered(V)
         /\ ~Has(Q, Phase2) => Phase2Last(V)
         /\ DoneFirst(Q) /\ (m # Done \/ ~Has(Q, Request)) => DoneFirst(V)
<1>1. /\ V \in Seq(ToServer) /\ Len(Q) \in Nat /\ Len(V) = Len(Q) + 1
      /\ DOMAIN Q = 1..Len(Q) /\ DOMAIN V = 1..Len(V)
      /\ \A i \in 1..Len(Q) : V[i] = Q[i]
      /\ V[Len(Q) + 1] = m
  BY AppendProperties, LenProperties
<1>2. /\ \A i \in DOMAIN Q : i \in DOMAIN V /\ V[i] = Q[i] /\ i < Len(V)
      /\ Len(V) \in DOMAIN V /\ V[Len(V)] = m
      /\ \A i \in DOMAIN V : i = Len(V) \/ i \in DOMAIN Q
  BY <1>1
<1>3. \A x : Has(V, x) <=> Has(Q, x) \/ m = x
  BY <1>2 DEF Has
<1>4. ASSUME OnceAnswered(Q), ~Answered(Q) \/ m \notin {Done, Phase2}
      PROVE  OnceAnswered(V)
  BY <1>2, <1>4 DEF OnceAnswered, Answered, Has
<1>5. ~Has(Q, Phase2) => Phase2Last(V)
  BY <1>2 DEF Has, Phase2Last
<1>6. ASSUME DoneFirst(Q), m # Done \/ ~Has(Q, Request) PROVE DoneFirst(V)
  <2> SUFFICES ASSUME NEW i \in DOMAIN V, NEW k \in DOMAIN V, V[i] = Request, V[k] = Done
               PROVE  k < i
    BY DEF DoneFirst
  <2>1. Request # Done
    BY DEF Request, Done
  <2>2. i # Len(V) => k # Len(V)
    BY <1>2, <1>6 DEF Has
  <2>3. i = Len(V) => k \in DOMAIN Q
    BY <1>2, <2>1
  <2> QED
    BY <1>2, <1>6, <2>2, <2>3 DEF DoneFirst
<1> QED
  BY <1>1, <1>3, <1>4, <1>5, <1>6

\* The session manager takes the first message.
LEMMA ToServerTaken ==
  ASSUME NEW Q \in Seq(ToServer), Q # <<>>, NEW V, V = Tail(Q), NEW m, m = Head(Q)
  PROVE  /\ V \in Seq(ToServer) /\ m \in ToServer /\ Len(V) <= Len(Q)
         /\ \A x : Has(Q, x) <=> Has(V, x) \/ m = x
         /\ OnceAnswered(Q) => OnceAnswered(V)
         /\ OnceAnswered(Q) /\ m \in {Done, Phase2} => ~Answered(V)
         /\ Phase2Last(Q) => Phase2Last(V)
         /\ Phase2Last(Q) /\ m = Phase2 => V = <<>>
         /\ DoneFirst(Q) => DoneFirst(V)
         /\ DoneFirst(Q) /\ m = Request => ~Has(Q, Done)
<1>1. /\ V \in Seq(ToServer) /\ Len(Q) \in Nat /\ Len(V) \in Nat /\ Len(V) = Len(Q) - 1
      /\ DOMAIN Q = 1..Len(Q) /\ DOMAIN V = 1..Len(V)
      /\ \A i \in 1..Len(V) : V[i] = Q[i + 1]
      /\ m \in ToServer
  BY HeadTailProperties, LenProperties
<1>2. Len(Q) # 0
  BY EmptySeq
<1>3. m = Q[1]
  OBVIOUS
<1>4. /\ \A i \in DOMAIN V : i + 1 \in DOMAIN Q /\ V[i] = Q[i + 1] /\ 1 # i + 1
      /\ 1 \in DOMAIN Q
      /\ \A i \in DOMAIN Q : i = 1 \/ (i - 1 \in DOMAIN V /\ V[i - 1] = Q[i])
  BY <1>1, <1>2
<1>5. \A x : Has(Q, x) <=> Has(V, x) \/ m = x
  BY <1>3, <1>4 DEF Has
<1>6. \A i, k \in DOMAIN V : i + 1 = k + 1 => i = k
  BY <1>1
<1>7. OnceAnswered(Q) => OnceAnswered(V)
  BY <1>4, <1>6 DEF OnceAnswered
<1>8. ASSUME OnceAnswered(Q), m \in {Done, Phase2} PROVE ~Answered(V)
  BY <1>3, <1>4, <1>8 DEF OnceAnswered, Answered, Has
<1>9. \A i \in DOMAIN V : i + 1 = Len(Q) => i = Len(V)
  BY <1>1
<1>10. Phase2Last(Q) => Phase2Last(V)
  BY <1>4, <1>9 DEF Phase2Last
<1>11. ASSUME Phase2Last(Q), m = Phase2 PROVE V = <<>>
  <2>1. Len(Q) = 1
    BY <1>3, <1>4, <1>11 DEF Phase2Last
  <2> QED
    BY <1>1, <2>1, EmptySeq
<1>12. \A i, k \in DOMAIN V : k + 1 < i + 1 => k < i
  BY <1>1
<1>13. DoneFirst(Q) => DoneFirst(V)
  BY <1>4, <1>12 DEF DoneFirst
<1>14. ASSUME DoneFirst(Q), m = Request PROVE ~Has(Q, Done)
  <2>1. \A k \in DOMAIN Q : ~(k < 1)
    BY <1>1
  <2> QED
    BY <1>3, <1>4, <1>14, <2>1 DEF DoneFirst, Has
<1>15. Len(V) <= Len(Q)
  BY <1>1
<1> QED
  BY <1>1, <1>5, <1>7, <1>8, <1>10, <1>11, <1>13, <1>14, <1>15

-----------------------------------------------------------------------------
(* The session manager's end: types, and nobody is told to die too early.   *)

\* The session manager's end while a callback runs.
Pending ==
  [conn : BOOLEAN, current_save_yourself : SaveTypes \cup {None},
   next_save_yourself : SaveTypes \cup {None}, next_allow_interact : BOOLEAN,
   saving : BOOLEAN, may_interact : BOOLEAN, interacting : BOOLEAN,
   can_cancel : BOOLEAN,
   phase : {"RUNNING", "QUERY_END_SESSION", "END_SESSION", "EXIT"},
   forced : BOOLEAN, asked : BOOLEAN, last : BOOLEAN, out : Seq(ToClient)]

\* What will be under way to the client when the callback returns.
Line(T, s) == T \o s.out

Sound(T, s) == s \in Pending /\ s.conn /\ (Carries(Line(T, s), "Die") => s.phase = "EXIT")

\* One message at most is sent, which is not that the shutdown is cancelled.
SendsOne(s, r) ==
  \/ r.out = s.out
  \/ \E m \in ToClient : r.out = Append(s.out, m) /\ m.type # "ShutdownCancelled"

SaveMessage(type, interact) == [type |-> "SaveYourself", save |-> type, interact |-> interact]

LEMMA ServerIsPending ==
  ASSUME NEW s
  PROVE  s \in Server <=> s \in Pending /\ s.out = <<>>
<1>1. s \in Server => s \in Pending /\ s.out = <<>>
  <2>1. <<>> \in Seq(ToClient)
    OBVIOUS
  <2> QED
    BY <2>1 DEF Server, Pending
<1>2. s \in Pending /\ s.out = <<>> => s \in Server
  BY DEF Server, Pending
<1> QED
  BY <1>1, <1>2

LEMMA Messages ==
  /\ \A type \in {"SaveYourselfPhase2", "Interact", "SaveComplete", "ShutdownCancelled", "Die"} :
       Message(type) \in ToClient /\ Message(type).type = type
  /\ \A type \in SaveTypes \cup {None} : \A interact \in BOOLEAN :
       /\ SaveMessage(type, interact) \in ToClient
       /\ SaveMessage(type, interact).type = "SaveYourself"
       /\ SaveMessage(type, interact).save = type
       /\ SaveMessage(type, interact).interact = interact
  BY DEF Message, SaveMessage, ToClient

\* A message that is sent goes to the end of the line.
LEMMA Sends ==
  ASSUME NEW T \in Seq(ToClient), NEW s \in Pending, NEW m \in ToClient,
         NEW r, r.out = Append(s.out, m)
  PROVE  /\ Line(T, s) \in Seq(ToClient)
         /\ Line(T, r) = Append(Line(T, s), m)
         /\ Append(s.out, m) \in Seq(ToClient)
<1>1. s.out \in Seq(ToClient)
  BY DEF Pending
<1> DEFINE o == s.out
<1>2. o \in Seq(ToClient)
  BY <1>1
<1>3. r.out = Append(o, m)
  OBVIOUS
<1> HIDE DEF o
<1>4. <<m>> \in Seq(ToClient)
  OBVIOUS
<1>5. Append(o, m) = o \o <<m>> /\ Append(o, m) \in Seq(ToClient)
  BY <1>2, AppendIsConcat, AppendProperties
<1>6. T \o o \in Seq(ToClient)
  BY <1>2, ConcatProperties
<1>7. Append(T \o o, m) = (T \o o) \o <<m>>
  BY <1>6, AppendIsConcat
<1>8. (T \o o) \o <<m>> = T \o (o \o <<m>>)
  BY <1>2, <1>4, ConcatAssociative
<1> QED
  BY <1>3, <1>5, <1>6, <1>7, <1>8 DEF Line, o

LEMMA SendsSoundly ==
  ASSUME NEW T \in Seq(ToClient), NEW s, Sound(T, s), NEW m \in ToClient,
         NEW r \in Pending, r.conn, r.out = Append(s.out, m),
         s.phase = "EXIT" \/ m.type = "Die" => r.phase = "EXIT"
  PROVE  Sound(T, r)
<1> DEFINE U == Line(T, s)
           V == Line(T, r)
<1>1. U \in Seq(ToClient) /\ V = Append(U, m)
  BY Sends DEF Sound
<1>2. Carries(U, "Die") => s.phase = "EXIT"
  BY DEF Sound
<1> HIDE DEF U, V
<1>3. Carries(V, "Die") <=> Carries(U, "Die") \/ m.type = "Die"
  BY <1>1, ToClientAdded
<1> QED
  BY <1>2, <1>3 DEF Sound, V

LEMMA SendsNothing ==
  ASSUME NEW T \in Seq(ToClient), NEW s, Sound(T, s),
         NEW r \in Pending, r.conn, r.out = s.out, s.phase = "EXIT" => r.phase = "EXIT"
  PROVE  Sound(T, r) /\ Line(T, r) = Line(T, s)
  BY DEF Sound, Line

\* The three ways of do_save_yourself().
Saves(s, type, r) ==
  /\ r \in Pending /\ r.conn = s.conn
  /\ r.phase = s.phase /\ r.asked = s.asked /\ r.last = s.last
  /\ \/ s.next_save_yourself # None /\ r = s
     \/ /\ s.next_save_yourself = None /\ s.current_save_yourself # None
        /\ r.next_save_yourself = type
        /\ r.current_save_yourself = s.current_save_yourself
        /\ r.saving = s.saving /\ r.may_interact = s.may_interact /\ r.out = s.out
     \/ /\ s.next_save_yourself = None /\ s.current_save_yourself = None
        /\ r.next_save_yourself = None /\ r.current_save_yourself = type
        /\ r.saving
        /\ r.may_interact \in BOOLEAN
        /\ r.out = Append(s.out, SaveMessage(type, r.may_interact))

LEMMA DoSaveYourselfDoes ==
  ASSUME NEW s \in Pending, NEW type \in SaveTypes \cup {None}, NEW allow \in BOOLEAN,
         NEW r, r = DoSaveYourself(s, type, allow)
  PROVE  Saves(s, type, r)
<1>1. CASE s.next_save_yourself # None
  BY <1>1 DEF DoSaveYourself, Saves
<1>2. CASE s.next_save_yourself = None /\ s.current_save_yourself # None
  <2>1. r = [s EXCEPT !.next_save_yourself = type, !.next_allow_interact = allow]
    BY <1>2 DEF DoSaveYourself
  <2> QED
    BY <1>2, <2>1 DEF Pending, Saves
<1>3. CASE s.next_save_yourself = None /\ s.current_save_yourself = None
  <2> DEFINE interact == allow /\ type # SmSaveLocal
             m == SaveMessage(type, interact)
             o == Append(s.out, m)
  <2>1. interact \in BOOLEAN
    OBVIOUS
  <2>2. s.out \in Seq(ToClient)
    BY DEF Pending
  <2> HIDE DEF interact
  <2>3. m \in ToClient
    BY <2>1, Messages
  <2>4. o \in Seq(ToClient)
    BY <2>2, <2>3
  <2>5. r = [s EXCEPT !.current_save_yourself = type, !.next_allow_interact = FALSE,
                      !.saving = TRUE, !.may_interact = interact, !.can_cancel = interact,
                      !.out = o]
    BY <1>3 DEF DoSaveYourself, SmsSaveYourself, Send, SaveMessage, Pending, interact
  <2> HIDE DEF o
  <2>6. r \in Pending
    BY <2>1, <2>4, <2>5 DEF Pending
  <2>7. /\ r.conn = s.conn /\ r.phase = s.phase /\ r.asked = s.asked /\ r.last = s.last
        /\ r.next_save_yourself = s.next_save_yourself /\ r.current_save_yourself = type
    BY <2>5 DEF Pending
  <2>8. r.saving = TRUE /\ r.may_interact = interact /\ r.out = o
    BY <2>5 DEF Pending
  <2> QED
    BY <1>3, <2>1, <2>6, <2>7, <2>8 DEF o, Saves
<1> QED
  BY <1>1, <1>2, <1>3

LEMMA DoSaveYourselfSound ==
  ASSUME NEW T \in Seq(ToClient), NEW s, Sound(T, s),
         NEW type \in SaveTypes \cup {None}, NEW allow \in BOOLEAN,
         NEW r, r = DoSaveYourself(s, type, allow)
  PROVE  Sound(T, r) /\ r.phase = s.phase /\ SendsOne(s, r)
<1>1. s \in Pending /\ s.conn
  BY DEF Sound
<1>2. /\ r \in Pending /\ r.conn /\ r.phase = s.phase
      /\ \/ r.out = s.out
         \/ /\ r.may_interact \in BOOLEAN
            /\ r.out = Append(s.out, SaveMessage(type, r.may_interact))
  <2>1. Saves(s, type, r)
    BY <1>1, DoSaveYourselfDoes
  <2> QED
    BY <1>1, <2>1 DEF Saves
<1>3. CASE r.out = s.out
  BY <1>1, <1>2, <1>3, SendsNothing DEF SendsOne
<1>4. CASE r.may_interact \in BOOLEAN /\ r.out = Append(s.out, SaveMessage(type, r.may_interact))
  <2> DEFINE m == SaveMessage(type, r.may_interact)
  <2>1. m \in ToClient /\ m.type = "SaveYourself"
    BY <1>4, Messages
  <2>2. r.out = Append(s.out, m)
    BY <1>4
  <2> HIDE DEF m
  <2> QED
    BY <1>2, <2>1, <2>2, SendsSoundly DEF SendsOne
<1> QED
  BY <1>2, <1>3, <1>4

\* The session manager goes on.
LEMMA GoOnDoes ==
  ASSUME NEW s \in Pending, s.phase # "RUNNING", NEW r \in GoOn(s) \cup EndPhase(s)
  PROVE  \/ /\ s.phase = "QUERY_END_SESSION"
            /\ \E type \in {SmSaveBoth, SmSaveGlobal} : \E q \in Pending :
                 /\ q = [s EXCEPT !.phase = "END_SESSION", !.asked = TRUE, !.last = FALSE]
                 /\ r = DoSaveYourself(q, type, FALSE)
         \/ /\ s.phase = "END_SESSION" /\ s.last
            /\ r = [s EXCEPT !.asked = TRUE, !.last = FALSE,
                             !.out = Append(s.out, Message("SaveYourselfPhase2"))]
         \/ r = [s EXCEPT !.phase = "EXIT", !.asked = FALSE, !.last = FALSE,
                          !.out = Append(s.out, Message("Die"))]
<1>1. CASE s.phase = "QUERY_END_SESSION"
  <2>1. r \in EndSession(s)
    BY <1>1 DEF GoOn, EndPhase
  <2> DEFINE q == [s EXCEPT !.phase = "END_SESSION", !.asked = TRUE, !.last = FALSE]
  <2>2. q \in Pending
    BY DEF Pending
  <2>3. PICK type \in {SmSaveBoth, SmSaveGlobal} : r = DoSaveYourself(q, type, FALSE)
    BY <2>1 DEF EndSession
  <2> HIDE DEF q
  <2>4. \E type2 \in {SmSaveBoth, SmSaveGlobal} : \E q2 \in Pending :
          q2 = q /\ r = DoSaveYourself(q2, type2, FALSE)
    BY <2>2, <2>3
  <2> QED
    BY <1>1, <2>4 DEF q
<1>2. CASE s.phase = "END_SESSION" /\ s.last /\ r = EndSessionLast(s)
  BY <1>2 DEF EndSessionLast, Send, Pending
<1>3. CASE s.phase # "QUERY_END_SESSION" /\ ~(s.phase = "END_SESSION" /\ s.last /\ r = EndSessionLast(s))
  <2>1. r = Stop(s)
    BY <1>3 DEF GoOn, EndPhase
  <2> QED
    BY <2>1 DEF Stop, Send, Pending
<1> QED
  BY <1>1, <1>2, <1>3

\* It may go on to the end only, and sends one message at most, which is not that
\* the shutdown is cancelled.
LEMMA GoOnSound ==
  ASSUME NEW T \in Seq(ToClient), NEW s, Sound(T, s), s.phase # "RUNNING",
         NEW r \in GoOn(s) \cup EndPhase(s)
  PROVE  Sound(T, r) /\ r.phase \in Ending /\ SendsOne(s, r)
<1>1. s \in Pending /\ s.conn
  BY DEF Sound
<1>2. CASE /\ s.phase = "QUERY_END_SESSION"
           /\ \E type \in {SmSaveBoth, SmSaveGlobal} : \E q \in Pending :
                /\ q = [s EXCEPT !.phase = "END_SESSION", !.asked = TRUE, !.last = FALSE]
                /\ r = DoSaveYourself(q, type, FALSE)
  <2>1. PICK type \in {SmSaveBoth, SmSaveGlobal} : \E q \in Pending :
                /\ q = [s EXCEPT !.phase = "END_SESSION", !.asked = TRUE, !.last = FALSE]
                /\ r = DoSaveYourself(q, type, FALSE)
    BY <1>2
  <2>2. PICK q \in Pending :
                /\ q = [s EXCEPT !.phase = "END_SESSION", !.asked = TRUE, !.last = FALSE]
                /\ r = DoSaveYourself(q, type, FALSE)
    BY <2>1
  <2>3. q.conn /\ q.phase = "END_SESSION" /\ q.out = s.out
    BY <1>1, <2>2 DEF Pending
  <2>4. Sound(T, q)
    BY <1>2, <2>3, SendsNothing
  <2>5. type \in SaveTypes \cup {None} /\ FALSE \in BOOLEAN
    BY DEF SaveTypes
  <2>6. Sound(T, r) /\ r.phase = q.phase /\ SendsOne(q, r)
    <3>1. r = DoSaveYourself(q, type, FALSE)
      BY <2>2
    <3> QED
      BY <2>4, <2>5, <3>1, DoSaveYourselfSound
  <2> QED
    BY <2>3, <2>6 DEF Ending, SendsOne
<1>3. CASE \/ s.phase = "END_SESSION"
              /\ r = [s EXCEPT !.asked = TRUE, !.last = FALSE,
                               !.out = Append(s.out, Message("SaveYourselfPhase2"))]
           \/ r = [s EXCEPT !.phase = "EXIT", !.asked = FALSE, !.last = FALSE,
                            !.out = Append(s.out, Message("Die"))]
  <2>1. PICK m \in ToClient :
          \/ /\ m.type = "SaveYourselfPhase2" /\ s.phase = "END_SESSION"
             /\ r = [s EXCEPT !.asked = TRUE, !.last = FALSE, !.out = Append(s.out, m)]
          \/ /\ m.type = "Die"
             /\ r = [s EXCEPT !.phase = "EXIT", !.asked = FALSE, !.last = FALSE,
                              !.out = Append(s.out, m)]
    BY <1>3, Messages
  <2>2. s.out \in Seq(ToClient) /\ Append(s.out, m) \in Seq(ToClient)
    BY <1>1 DEF Pending
  <2> DEFINE o == Append(s.out, m)
  <2>3. o \in Seq(ToClient)
    BY <2>2
  <2>4. /\ r \in Pending /\ r.conn /\ r.out = o /\ r.phase \in {"END_SESSION", "EXIT"}
        /\ s.phase = "EXIT" \/ m.type = "Die" => r.phase = "EXIT"
    <3> HIDE DEF o
    <3>1. \/ /\ m.type = "SaveYourselfPhase2" /\ s.phase = "END_SESSION"
             /\ r = [s EXCEPT !.asked = TRUE, !.last = FALSE, !.out = o]
          \/ /\ m.type = "Die"
             /\ r = [s EXCEPT !.phase = "EXIT", !.asked = FALSE, !.last = FALSE, !.out = o]
      BY <2>1 DEF o
    <3> QED
      BY <1>1, <2>3, <3>1 DEF Pending
  <2>5. Sound(T, r)
    BY <2>4, SendsSoundly
  <2> QED
    BY <2>1, <2>4, <2>5 DEF Ending, SendsOne
<1> QED
  BY <1>1, <1>2, <1>3, GoOnDoes

-----------------------------------------------------------------------------
(* The session manager's end: what is owed.                                 *)

\* A change of what the invariant does not look at.
LEMMA CoreKept ==
  ASSUME NEW s, NEW U, NEW Q, NEW c, Core(s, U, Q, c),
         NEW r,
         r.current_save_yourself = s.current_save_yourself,
         r.saving = s.saving, r.may_interact = s.may_interact,
         s.phase \in Ending => r.phase \in Ending,
         r.last => /\ r.phase = "END_SESSION"
                   /\ \/ s.last
                      \/ /\ c.state = "waits2" /\ s.current_save_yourself = None
                         /\ ~Carries(U, "SaveYourselfPhase2")
  PROVE  Core(r, U, Q, c)
<1>1. OneOwed(U, Q, c)
  BY DEF Core
<1>2. InPhase2(r, U, Q, c)
  BY DEF Core, InPhase2
<1>3. CurrentIsOwed(r, U, Q, c)
  BY DEF Core, CurrentIsOwed
<1>4. Expects(r, U, Q, c)
  BY DEF Core, Expects
<1> QED
  BY <1>1, <1>2, <1>3, <1>4 DEF Core

\* A message is sent that asks for nothing and takes nothing back.
LEMMA CoreSaid ==
  ASSUME NEW s, NEW U \in Seq(ToClient), NEW Q, NEW c, Core(s, U, Q, c),
         NEW m \in ToClient, m.type \in {"SaveComplete", "Interact", "Die"},
         NEW V, V = Append(U, m)
  PROVE  Core(s, V, Q, c)
<1>1. /\ ~IsSave(m) /\ ~Disturbs(m)
      /\ m.type \notin {"ShutdownCancelled", "SaveYourselfPhase2"}
  BY DEF IsSave, Disturbs
<1>2. /\ \A type : Carries(V, type) <=> Carries(U, type) \/ m.type = type
      /\ HasSave(V) <=> HasSave(U)
      /\ AllowsInteract(V) <=> AllowsInteract(U)
      /\ Ordered(U) => Ordered(V)
  BY <1>1, ToClientAdded
<1>3. /\ Carries(V, "ShutdownCancelled") <=> Carries(U, "ShutdownCancelled")
      /\ Carries(V, "SaveYourselfPhase2") <=> Carries(U, "SaveYourselfPhase2")
      /\ Carries(U, "Interact") => Carries(V, "Interact")
  BY <1>1, <1>2
<1>4. OneOwed(V, Q, c)
  BY <1>2, <1>3 DEF Core, OneOwed
<1>5. InPhase2(s, V, Q, c)
  BY <1>3 DEF Core, InPhase2
<1>6. CurrentIsOwed(s, V, Q, c)
  BY <1>2 DEF Core, CurrentIsOwed, Owed
<1>7. Expects(s, V, Q, c)
  BY <1>2, <1>3 DEF Core, Expects, Owed
<1> QED
  BY <1>4, <1>5, <1>6, <1>7 DEF Core

\* Nothing is owed, and no client is let into phase 2: a save may be asked for.
Free(s, U, Q, c) ==
  /\ ~Owed(U, Q, c) /\ ~s.last
  /\ ~(c.state = "waits2" /\ Carries(U, "SaveYourselfPhase2"))

\* A SaveYourself is sent, or, when nothing was queued, one without a type.
LEMMA CoreAsked ==
  ASSUME NEW s, NEW U \in Seq(ToClient), NEW Q, NEW c, Core(s, U, Q, c), Free(s, U, Q, c),
         s.current_save_yourself = None,
         NEW type \in SaveTypes \cup {None}, type = None => c.state # "waits2",
         NEW r, r.current_save_yourself = type, r.saving, r.may_interact \in BOOLEAN,
         r.phase = s.phase, r.last = s.last,
         NEW V, V = Append(U, SaveMessage(type, r.may_interact))
  PROVE  Core(r, V, Q, c)
<1> DEFINE m == SaveMessage(type, r.may_interact)
<1>1. /\ m \in ToClient /\ m.type = "SaveYourself" /\ m.save = type
      /\ m.interact = r.may_interact
  BY Messages
<1>2. V = Append(U, m)
  OBVIOUS
<1> HIDE DEF m
<1>3. IsSave(m) <=> type # None
  BY <1>1 DEF IsSave
<1>4. /\ \A t : Carries(V, t) <=> Carries(U, t) \/ m.type = t
      /\ HasSave(V) <=> HasSave(U) \/ IsSave(m)
      /\ AllowsInteract(V) <=> AllowsInteract(U) \/ (IsSave(m) /\ m.interact)
      /\ Ordered(U) /\ ~HasSave(U) => Ordered(V)
  BY <1>1, <1>2, ToClientAdded
<1>5. /\ Carries(V, "ShutdownCancelled") <=> Carries(U, "ShutdownCancelled")
      /\ Carries(V, "SaveYourselfPhase2") <=> Carries(U, "SaveYourselfPhase2")
  BY <1>1, <1>4
<1>6. ~HasSave(U) /\ ~Saving(c) /\ ~Answered(Q)
  BY DEF Free, Owed
<1>7. ~AllowsInteract(U)
  BY <1>6 DEF AllowsInteract, HasSave
<1>8. c.state # "waits"
  BY <1>6 DEF Saving
<1>9. OneOwed(V, Q, c)
  BY <1>4, <1>5, <1>6 DEF Core, OneOwed
<1>10. InPhase2(r, V, Q, c)
  BY <1>5, <1>6 DEF Core, InPhase2, Free
<1>11. CurrentIsOwed(r, V, Q, c)
  <2>1. CASE type # None
    BY <1>3, <1>4, <2>1 DEF CurrentIsOwed, Owed
  <2>2. CASE type = None
    BY <1>3, <1>4, <1>6, <2>2 DEF Core, CurrentIsOwed, Owed, Answered
  <2> QED
    BY <2>1, <2>2
<1>12. Expects(r, V, Q, c)
  BY <1>1, <1>3, <1>4, <1>6, <1>7, <1>8 DEF Expects
<1> QED
  BY <1>9, <1>10, <1>11, <1>12 DEF Core

LEMMA DoSaveYourselfCore ==
  ASSUME NEW T \in Seq(ToClient), NEW s, Sound(T, s), NEW Q, NEW c,
         Core(s, Line(T, s), Q, c),
         NEW type \in SaveTypes \cup {None}, NEW allow \in BOOLEAN,
         s.current_save_yourself = None =>
           Free(s, Line(T, s), Q, c) /\ (type = None => c.state # "waits2"),
         NEW r, r = DoSaveYourself(s, type, allow)
  PROVE  Core(r, Line(T, r), Q, c)
<1> DEFINE U == Line(T, s)
           V == Line(T, r)
<1>1. s \in Pending
  BY DEF Sound
<1>2. /\ r \in Pending /\ r.phase = s.phase /\ r.last = s.last
      /\ \/ r = s
         \/ /\ r.current_save_yourself = s.current_save_yourself
            /\ r.saving = s.saving /\ r.may_interact = s.may_interact /\ r.out = s.out
         \/ /\ s.current_save_yourself = None
            /\ r.current_save_yourself = type
            /\ r.saving
            /\ r.may_interact \in BOOLEAN
            /\ r.out = Append(s.out, SaveMessage(type, r.may_interact))
  <2>1. Saves(s, type, r)
    BY <1>1, DoSaveYourselfDoes
  <2> QED
    BY <1>1, <2>1 DEF Saves
<1>3. CASE r = s
  BY <1>3
<1>4. CASE /\ r.current_save_yourself = s.current_save_yourself
           /\ r.saving = s.saving /\ r.may_interact = s.may_interact /\ r.out = s.out
  <2>1. Line(T, r) = Line(T, s)
    BY <1>4 DEF Line
  <2>2. s.last => s.phase = "END_SESSION"
    BY DEF Core, InPhase2
  <2> QED
    BY <1>2, <1>4, <2>1, <2>2, CoreKept
<1>5. CASE /\ s.current_save_yourself = None
           /\ r.current_save_yourself = type
           /\ r.saving
           /\ r.may_interact \in BOOLEAN
           /\ r.out = Append(s.out, SaveMessage(type, r.may_interact))
  <2>1. SaveMessage(type, r.may_interact) \in ToClient
    BY <1>5, Messages
  <2>2. U \in Seq(ToClient) /\ V = Append(U, SaveMessage(type, r.may_interact))
    BY <1>1, <1>5, <2>1, Sends
  <2>3. Core(s, U, Q, c) /\ Free(s, U, Q, c) /\ (type = None => c.state # "waits2")
    BY <1>5
  <2> HIDE DEF U, V
  <2>4. Core(r, V, Q, c)
    BY <1>2, <1>5, <2>2, <2>3, CoreAsked
  <2> QED
    BY <2>4 DEF V
<1> QED
  BY <1>2, <1>3, <1>4, <1>5

\* While the session runs or asks, what is not counted is not owed.
LEMMA FreeBefore ==
  ASSUME NEW s, NEW U, NEW Q, NEW c, Core(s, U, Q, c),
         s.current_save_yourself = None, s.phase \notin Ending
  PROVE  Free(s, U, Q, c)
<1>1. ~Owed(U, Q, c)
  BY DEF Core, CurrentIsOwed, Owed, Answered
<1>2. ~s.last /\ ~(c.state = "waits2" /\ Carries(U, "SaveYourselfPhase2"))
  BY DEF Core, InPhase2, Ending, Saving
<1> QED
  BY <1>1, <1>2 DEF Free

LEMMA GoOnCore ==
  ASSUME NEW T \in Seq(ToClient), NEW s, Sound(T, s), NEW Q, NEW c,
         Core(s, Line(T, s), Q, c), s.phase # "RUNNING",
         NEW r \in GoOn(s) \cup EndPhase(s)
  PROVE  Core(r, Line(T, r), Q, c)
<1> DEFINE U == Line(T, s)
           V == Line(T, r)
<1>1. s \in Pending /\ s.conn
  BY DEF Sound
<1>2. CASE /\ s.phase = "QUERY_END_SESSION"
           /\ \E type \in {SmSaveBoth, SmSaveGlobal} : \E q \in Pending :
                /\ q = [s EXCEPT !.phase = "END_SESSION", !.asked = TRUE, !.last = FALSE]
                /\ r = DoSaveYourself(q, type, FALSE)
  <2>1. PICK type \in {SmSaveBoth, SmSaveGlobal} : \E q \in Pending :
                /\ q = [s EXCEPT !.phase = "END_SESSION", !.asked = TRUE, !.last = FALSE]
                /\ r = DoSaveYourself(q, type, FALSE)
    BY <1>2
  <2>2. PICK q \in Pending :
                /\ q = [s EXCEPT !.phase = "END_SESSION", !.asked = TRUE, !.last = FALSE]
                /\ r = DoSaveYourself(q, type, FALSE)
    BY <2>1
  <2>3. /\ q.conn /\ q.phase = "END_SESSION" /\ q.out = s.out /\ q.last = FALSE
        /\ q.current_save_yourself = s.current_save_yourself
        /\ q.saving = s.saving /\ q.may_interact = s.may_interact
    BY <1>1, <2>2 DEF Pending
  <2>4. Sound(T, q) /\ Line(T, q) = U
    BY <1>2, <2>3, SendsNothing
  <2>5. type \in SaveTypes \cup {None} /\ FALSE \in BOOLEAN /\ type # None
    BY DEF SaveTypes, SmSaveBoth, SmSaveGlobal, None
  <2>6. Core(q, U, Q, c)
    BY <1>2, <2>3, CoreKept DEF Ending
  <2>7. q.current_save_yourself = None => Free(q, U, Q, c)
    <3>1. s.current_save_yourself = None => Free(s, U, Q, c)
      BY <1>2, FreeBefore DEF Ending
    <3> QED
      BY <2>3, <3>1 DEF Free
  <2>8. r = DoSaveYourself(q, type, FALSE)
    BY <2>2
  <2> HIDE DEF U
  <2> QED
    BY <2>4, <2>5, <2>6, <2>7, <2>8, DoSaveYourselfCore
<1>3. CASE /\ s.phase = "END_SESSION" /\ s.last
           /\ r = [s EXCEPT !.asked = TRUE, !.last = FALSE,
                            !.out = Append(s.out, Message("SaveYourselfPhase2"))]
  <2>1. PICK m \in ToClient :
          /\ m.type = "SaveYourselfPhase2"
          /\ r = [s EXCEPT !.asked = TRUE, !.last = FALSE, !.out = Append(s.out, m)]
    BY <1>3, Messages
  <2>2. /\ r.out = Append(s.out, m) /\ r.phase = s.phase /\ r.last = FALSE
        /\ r.current_save_yourself = s.current_save_yourself
        /\ r.saving = s.saving /\ r.may_interact = s.may_interact
    BY <1>1, <2>1 DEF Pending
  <2>3. U \in Seq(ToClient) /\ V = Append(U, m)
    BY <1>1, <2>2, Sends
  <2>4. c.state = "waits2" /\ s.current_save_yourself = None /\ ~HasSave(U)
    BY <1>3 DEF Core, InPhase2, CurrentIsOwed
  <2>5. Core(s, U, Q, c)
    OBVIOUS
  <2> HIDE DEF U, V
  <2>6. ~IsSave(m)
    BY <2>1 DEF IsSave
  <2>7. /\ \A t : Carries(V, t) <=> Carries(U, t) \/ m.type = t
        /\ HasSave(V) <=> HasSave(U)
        /\ AllowsInteract(V) <=> AllowsInteract(U)
        /\ Ordered(U) => Ordered(V)
    BY <2>3, <2>4, <2>6, ToClientAdded
  <2>8. Carries(V, "ShutdownCancelled") <=> Carries(U, "ShutdownCancelled")
    BY <2>1, <2>7
  <2>9. OneOwed(V, Q, c)
    BY <2>5, <2>7, <2>8 DEF Core, OneOwed
  <2>10. InPhase2(r, V, Q, c)
    BY <1>3, <2>2, <2>4 DEF InPhase2, Ending
  <2>11. CurrentIsOwed(r, V, Q, c)
    BY <2>2, <2>5, <2>7 DEF Core, CurrentIsOwed, Owed
  <2>12. Expects(r, V, Q, c)
    BY <2>2, <2>4, <2>5, <2>7 DEF Core, Expects, Owed
  <2> QED
    BY <2>9, <2>10, <2>11, <2>12 DEF Core, V
<1>4. CASE r = [s EXCEPT !.phase = "EXIT", !.asked = FALSE, !.last = FALSE,
                         !.out = Append(s.out, Message("Die"))]
  <2>1. PICK m \in ToClient :
          /\ m.type = "Die"
          /\ r = [s EXCEPT !.phase = "EXIT", !.asked = FALSE, !.last = FALSE,
                           !.out = Append(s.out, m)]
    BY <1>4, Messages
  <2>2. /\ r.out = Append(s.out, m) /\ r.phase = "EXIT" /\ r.last = FALSE
        /\ r.current_save_yourself = s.current_save_yourself
        /\ r.saving = s.saving /\ r.may_interact = s.may_interact
    BY <1>1, <2>1 DEF Pending
  <2>3. U \in Seq(ToClient) /\ V = Append(U, m)
    BY <1>1, <2>2, Sends
  <2>4. Core(r, U, Q, c)
    BY <2>2, CoreKept DEF Ending
  <2> HIDE DEF U, V
  <2>5. Core(r, V, Q, c)
    BY <2>1, <2>3, <2>4, CoreSaid
  <2> QED
    BY <2>5 DEF V
<1> QED
  BY <1>1, <1>2, <1>3, <1>4, GoOnDoes

-----------------------------------------------------------------------------
(* Answers to the session manager's questions.                              *)

LEMMA CancelSound ==
  ASSUME NEW T \in Seq(ToClient), NEW s, Sound(T, s), s.phase # "EXIT"
  PROVE  LET r == CancelEndSession(s) IN
           /\ Sound(T, r)
           /\ Line(T, r) = Append(Line(T, s), Message("ShutdownCancelled"))
           /\ r.out = Append(s.out, Message("ShutdownCancelled"))
           /\ r.current_save_yourself = None /\ r.next_save_yourself = None
           /\ r.phase = "RUNNING" /\ ~r.last /\ r.may_interact = s.may_interact
<1> DEFINE m == Message("ShutdownCancelled")
           o == Append(s.out, m)
           r == CancelEndSession(s)
<1>1. m \in ToClient /\ m.type = "ShutdownCancelled"
  BY Messages
<1>2. s \in Pending /\ s.conn /\ o \in Seq(ToClient)
  BY <1>1 DEF Sound, Pending
<1>3. r = [s EXCEPT !.can_cancel = FALSE, !.phase = "RUNNING", !.forced = FALSE,
                    !.asked = FALSE, !.last = FALSE, !.current_save_yourself = None,
                    !.next_save_yourself = None, !.next_allow_interact = FALSE, !.out = o]
  BY <1>2 DEF CancelEndSession, Send, Pending
<1> HIDE DEF r, o
<1>4. r \in Pending
  BY <1>2, <1>3 DEF Pending
<1>5. r.conn = s.conn /\ r.phase = "RUNNING" /\ r.last = FALSE /\ r.out = o
  BY <1>2, <1>3 DEF Pending
<1>6. /\ r.current_save_yourself = None /\ r.next_save_yourself = None
      /\ r.may_interact = s.may_interact
  BY <1>2, <1>3 DEF Pending
<1> HIDE DEF m
<1>7. r.out = Append(s.out, m)
  BY <1>5 DEF o
<1>8. Sound(T, r)
  BY <1>1, <1>2, <1>4, <1>5, <1>7, SendsSoundly
<1>9. Line(T, r) = Append(Line(T, s), m)
  BY <1>1, <1>2, <1>7, Sends
<1> QED
  BY <1>5, <1>6, <1>7, <1>8, <1>9 DEF r, m

\* The callback says that the shutdown is cancelled.
Tells(r) == Message("ShutdownCancelled") \in Range(r.out)

LEMMA CancelTells ==
  ASSUME NEW T \in Seq(ToClient), NEW s, Sound(T, s), s.phase # "EXIT",
         NEW r, r = CancelEndSession(s)
  PROVE  Tells(r)
<1> DEFINE m == Message("ShutdownCancelled")
           o == s.out
<1>1. r.out = Append(o, m)
  BY CancelSound
<1>2. m \in ToClient /\ o \in Seq(ToClient)
  BY Messages DEF Sound, Pending
<1> HIDE DEF m, o
<1>3. Len(r.out) \in DOMAIN r.out /\ r.out[Len(r.out)] = m
  BY <1>1, <1>2, AppendProperties, LenProperties
<1> QED
  BY <1>3 DEF Tells, Range, m

\* The answer is noted.
Noted(s, do_last, q) ==
  q = [s EXCEPT !.asked = FALSE, !.last = @ \/ (do_last /\ s.phase = "END_SESSION")]

LEMMA ResponseDoes ==
  ASSUME NEW s \in Pending, NEW is_ok \in BOOLEAN, NEW do_last \in BOOLEAN,
         NEW r \in EndSessionResponse(s, is_ok, do_last, FALSE)
  PROVE  \/ s.phase \in {"RUNNING", "EXIT"} /\ r = s
         \/ /\ s.phase \in {"QUERY_END_SESSION", "END_SESSION"}
            /\ \E q \in Pending : Noted(s, do_last, q) /\ (r = q \/ r \in GoOn(q))
<1>1. CASE s.phase \in {"RUNNING", "EXIT"}
  BY <1>1 DEF EndSessionResponse
<1>2. CASE s.phase \notin {"RUNNING", "EXIT"}
  <2> DEFINE last == s.last \/ (do_last /\ s.phase = "END_SESSION")
             q == [s EXCEPT !.asked = FALSE, !.last = last]
  <2>1. last \in BOOLEAN
    BY DEF Pending
  <2>2. q \in Pending
    <3> HIDE DEF last
    <3> QED
      BY <2>1 DEF Pending
  <2>3. Noted(s, do_last, q)
    BY DEF Noted
  <2>4. r = q \/ r \in GoOn(q)
    BY <1>2 DEF EndSessionResponse
  <2>5. s.phase \in {"QUERY_END_SESSION", "END_SESSION"}
    BY <1>2 DEF Pending
  <2> HIDE DEF q
  <2> QED
    BY <2>2, <2>3, <2>4, <2>5
<1> QED
  BY <1>1, <1>2

LEMMA NotedSound ==
  ASSUME NEW T \in Seq(ToClient), NEW s, Sound(T, s), NEW do_last \in BOOLEAN,
         s.phase \in {"QUERY_END_SESSION", "END_SESSION"},
         NEW q \in Pending, Noted(s, do_last, q)
  PROVE  /\ Sound(T, q) /\ Line(T, q) = Line(T, s)
         /\ q.phase = s.phase /\ ~q.asked /\ q.out = s.out
         /\ q.current_save_yourself = s.current_save_yourself
         /\ q.saving = s.saving /\ q.may_interact = s.may_interact
         /\ q.last <=> s.last \/ (do_last /\ s.phase = "END_SESSION")
<1>1. s \in Pending /\ s.conn
  BY DEF Sound
<1>2. /\ q.phase = s.phase /\ q.asked = FALSE
      /\ q.current_save_yourself = s.current_save_yourself
      /\ q.saving = s.saving /\ q.may_interact = s.may_interact
      /\ q.conn = s.conn /\ q.out = s.out
  BY <1>1 DEF Noted, Pending
<1>3. q.last <=> s.last \/ (do_last /\ s.phase = "END_SESSION")
  BY <1>1 DEF Noted, Pending
<1>4. Sound(T, q) /\ Line(T, q) = Line(T, s)
  BY <1>1, <1>2, SendsNothing
<1> QED
  BY <1>2, <1>3, <1>4

\* In a running session an answer changes nothing; otherwise the client has
\* answered, or is asked again for the end.
After(s, r) ==
  /\ s.phase = "RUNNING" => r = s
  /\ s.phase # "RUNNING" =>
       r.phase # "RUNNING" /\ (r.phase = "QUERY_END_SESSION" => ~r.asked)

LEMMA ResponseSound ==
  ASSUME NEW T \in Seq(ToClient), NEW s, Sound(T, s), s.phase # "EXIT",
         NEW is_ok \in BOOLEAN, NEW do_last \in BOOLEAN,
         NEW r \in EndSessionResponse(s, is_ok, do_last, FALSE)
  PROVE  Sound(T, r) /\ After(s, r) /\ SendsOne(s, r)
<1>1. s \in Pending
  BY DEF Sound
<1>2. CASE s.phase \in {"RUNNING", "EXIT"} /\ r = s
  BY <1>2 DEF After, SendsOne
<1>3. CASE /\ s.phase \in {"QUERY_END_SESSION", "END_SESSION"}
           /\ \E q \in Pending : Noted(s, do_last, q) /\ (r = q \/ r \in GoOn(q))
  <2>1. PICK q \in Pending : Noted(s, do_last, q) /\ (r = q \/ r \in GoOn(q))
    BY <1>3
  <2>2. Sound(T, q) /\ q.phase = s.phase /\ ~q.asked /\ q.out = s.out
    BY <1>3, <2>1, NotedSound
  <2>3. CASE r = q
    BY <1>3, <2>2, <2>3 DEF After, SendsOne
  <2>4. CASE r \in GoOn(q)
    <3>1. q.phase # "RUNNING"
      BY <1>3, <2>2
    <3>2. Sound(T, r) /\ r.phase \in Ending /\ SendsOne(q, r)
      BY <2>2, <2>4, <3>1, GoOnSound
    <3> QED
      BY <1>3, <2>2, <3>2 DEF After, Ending, SendsOne
  <2> QED
    BY <2>1, <2>3, <2>4
<1> QED
  BY <1>1, <1>2, <1>3, ResponseDoes

LEMMA ResponseCore ==
  ASSUME NEW T \in Seq(ToClient), NEW s, Sound(T, s), NEW Q, NEW c,
         Core(s, Line(T, s), Q, c),
         NEW is_ok \in BOOLEAN, NEW do_last \in BOOLEAN,
         do_last => /\ c.state = "waits2" /\ s.current_save_yourself = None
                    /\ ~Carries(Line(T, s), "SaveYourselfPhase2"),
         NEW r \in EndSessionResponse(s, is_ok, do_last, FALSE)
  PROVE  Core(r, Line(T, r), Q, c)
<1>1. s \in Pending
  BY DEF Sound
<1>2. CASE s.phase \in {"RUNNING", "EXIT"} /\ r = s
  BY <1>2
<1>3. CASE /\ s.phase \in {"QUERY_END_SESSION", "END_SESSION"}
           /\ \E q \in Pending : Noted(s, do_last, q) /\ (r = q \/ r \in GoOn(q))
  <2>1. PICK q \in Pending : Noted(s, do_last, q) /\ (r = q \/ r \in GoOn(q))
    BY <1>3
  <2>2. /\ Sound(T, q) /\ Line(T, q) = Line(T, s) /\ q.phase = s.phase
        /\ q.current_save_yourself = s.current_save_yourself
        /\ q.saving = s.saving /\ q.may_interact = s.may_interact
        /\ q.last <=> s.last \/ (do_last /\ s.phase = "END_SESSION")
    BY <1>3, <2>1, NotedSound
  <2>3. s.last => s.phase = "END_SESSION"
    BY DEF Core, InPhase2
  <2>4. Core(q, Line(T, q), Q, c)
    BY <2>2, <2>3, CoreKept
  <2>5. q.phase # "RUNNING"
    BY <1>3, <2>2
  <2> QED
    BY <2>1, <2>2, <2>4, <2>5, GoOnCore
<1> QED
  BY <1>1, <1>2, <1>3, ResponseDoes

-----------------------------------------------------------------------------
(* A message of the client is handled.                                      *)

Good(s, T, Q, c) == Core(s, Line(T, s), Q, c) /\ Waiting(s, Line(T, s), Q, c)

\* A message that is no answer is taken.
LEMMA CoreTaken ==
  ASSUME NEW s, NEW U, NEW Q \in Seq(ToServer), Q # <<>>, NEW c, Core(s, U, Q, c),
         Head(Q) \notin {Done, Phase2},
         Head(Q) = "InteractRequest" /\ c.state = "waits" => Carries(U, "Interact"),
         NEW P, P = Tail(Q)
  PROVE  /\ Core(s, U, P, c)
         /\ Owed(U, P, c) <=> Owed(U, Q, c)
         /\ Has(P, Done) <=> Has(Q, Done)
<1> DEFINE m == Head(Q)
<1>0. m = Head(Q)
  OBVIOUS
<1>2. m \notin {Done, Phase2}
  OBVIOUS
<1>3. m = "InteractRequest" /\ c.state = "waits" => Carries(U, "Interact")
  OBVIOUS
<1> HIDE DEF m
<1>1. /\ \A x : Has(Q, x) <=> Has(P, x) \/ m = x
      /\ OnceAnswered(Q) => OnceAnswered(P)
      /\ Phase2Last(Q) => Phase2Last(P)
      /\ DoneFirst(Q) => DoneFirst(P)
  BY <1>0, ToServerTaken
<1>4. /\ Has(P, Done) <=> Has(Q, Done)
      /\ Has(P, Phase2) <=> Has(Q, Phase2)
      /\ Has(P, Request) => Has(Q, Request)
      /\ Has(Q, "InteractRequest") => Has(P, "InteractRequest") \/ m = "InteractRequest"
  BY <1>1, <1>2
<1>5. Answered(P) <=> Answered(Q)
  BY <1>4 DEF Answered
<1>6. Owed(U, P, c) <=> Owed(U, Q, c)
  BY <1>5 DEF Owed
<1>7. OneOwed(U, P, c)
  BY <1>1, <1>4, <1>5 DEF Core, OneOwed
<1>8. InPhase2(s, U, P, c)
  BY DEF Core, InPhase2
<1>9. CurrentIsOwed(s, U, P, c)
  BY <1>1, <1>4, <1>6 DEF Core, CurrentIsOwed
<1>10. Expects(s, U, P, c)
  <2>1. c.state = "waits" => (s.may_interact /\ Has(P, "InteractRequest")) \/ Carries(U, "Interact")
    BY <1>3, <1>4 DEF Core, Expects
  <2> QED
    BY <1>6, <2>1 DEF Core, Expects
<1> QED
  BY <1>4, <1>6, <1>7, <1>8, <1>9, <1>10 DEF Core

\* What was waited for still is, unless it has been answered.
LEMMA WaitingKept ==
  ASSUME NEW s, NEW U, NEW Q, NEW c, Waiting(s, U, Q, c),
         NEW r, NEW V, NEW P,
         Owed(U, Q, c) => Owed(V, P, c), Has(Q, Done) => Has(P, Done),
         HasSave(U) => HasSave(V), \A t : Carries(U, t) => Carries(V, t),
         r.phase = "QUERY_END_SESSION" /\ r.asked => s.phase = "QUERY_END_SESSION" /\ s.asked,
         r.phase = "RUNNING" =>
           /\ s.phase = "RUNNING"
           /\ \/ r.next_save_yourself \in {None, s.next_save_yourself}
              \/ r.next_save_yourself = SmSaveLocal /\ Owed(V, P, c)
  PROVE  Waiting(r, V, P, c)
<1>1. r.phase = "QUERY_END_SESSION" /\ r.asked => Owed(V, P, c) \/ c.state = "waits2"
  BY DEF Waiting
<1>2. r.phase = "RUNNING" /\ r.next_save_yourself # None =>
        /\ r.next_save_yourself = SmSaveLocal
        /\ Owed(V, P, c) \/ c.state = "waits2"
  BY DEF Waiting
<1>3. r.phase = "RUNNING" /\ c.state = "frozen" =>
        \/ Has(P, Done) \/ HasSave(V)
        \/ Carries(V, "SaveComplete") \/ Carries(V, "ShutdownCancelled")
  BY DEF Waiting
<1> QED
  BY <1>1, <1>2, <1>3 DEF Waiting

LEMMA SavesLine ==
  ASSUME NEW T \in Seq(ToClient), NEW s \in Pending, NEW type \in SaveTypes \cup {None},
         NEW r, Saves(s, type, r)
  PROVE  /\ \A t : Carries(Line(T, s), t) => Carries(Line(T, r), t)
         /\ HasSave(Line(T, s)) => HasSave(Line(T, r))
         /\ s.next_save_yourself = None /\ s.current_save_yourself = None /\ type # None =>
              HasSave(Line(T, r))
<1> DEFINE U == Line(T, s)
           V == Line(T, r)
<1>1. CASE r.out = s.out /\ ~(s.next_save_yourself = None /\ s.current_save_yourself = None)
  BY <1>1 DEF Line
<1>2. CASE r.may_interact \in BOOLEAN /\ r.out = Append(s.out, SaveMessage(type, r.may_interact))
  <2> DEFINE m == SaveMessage(type, r.may_interact)
  <2>1. m \in ToClient /\ m.type = "SaveYourself" /\ m.save = type
    BY <1>2, Messages
  <2>2. r.out = Append(s.out, m)
    BY <1>2
  <2> HIDE DEF m
  <2>3. U \in Seq(ToClient) /\ V = Append(U, m)
    BY <2>1, <2>2, Sends
  <2>4. type # None => IsSave(m)
    BY <2>1 DEF IsSave
  <2> HIDE DEF U, V
  <2>5. /\ \A t : Carries(U, t) => Carries(V, t)
        /\ HasSave(V) <=> HasSave(U) \/ IsSave(m)
    BY <2>1, <2>3, ToClientAdded
  <2> QED
    BY <2>4, <2>5 DEF U, V
<1> QED
  BY <1>1, <1>2 DEF Saves

\* A checkpoint of the client's own.
LEMMA SaveYourselfRequestHandled ==
  ASSUME NEW T \in Seq(ToClient), NEW s, Sound(T, s),
         NEW Q \in Seq(ToServer), Q # <<>>, Head(Q) = Request, NEW P, P = Tail(Q), NEW c,
         NEW r \in SaveYourselfRequest(s)
  PROVE  Sound(T, r) /\ (Good(s, T, Q, c) => Good(r, T, P, c))
<1> DEFINE U == Line(T, s)
           V == Line(T, r)
<1>1. /\ s \in Pending /\ r = DoSaveYourself(s, SmSaveLocal, TRUE)
      /\ SmSaveLocal \in SaveTypes \cup {None} /\ TRUE \in BOOLEAN /\ SmSaveLocal # None
  BY DEF Sound, SaveYourselfRequest, SaveTypes, SmSaveLocal, None
<1>2. Sound(T, r)
  BY <1>1, DoSaveYourselfSound
<1>3. ASSUME Good(s, T, Q, c) PROVE Good(r, T, P, c)
  <2>1. Core(s, U, Q, c) /\ Waiting(s, U, Q, c)
    BY <1>3 DEF Good
  <2>2. Head(Q) \notin {Done, Phase2} /\ Head(Q) # "InteractRequest"
    BY DEF Request, Done, Phase2
  <2>3. /\ Core(s, U, P, c)
        /\ Owed(U, P, c) <=> Owed(U, Q, c)
        /\ Has(P, Done) <=> Has(Q, Done)
    <3> HIDE DEF U
    <3> QED
      BY <2>1, <2>2, CoreTaken
  <2>4. Has(Q, Request) /\ (DoneFirst(Q) => ~Has(Q, Done))
    BY ToServerTaken
  <2>5. s.current_save_yourself = None => Free(s, U, P, c) /\ c.state # "waits2"
    <3> HIDE DEF U
    <3> SUFFICES ASSUME s.current_save_yourself = None
                 PROVE  Free(s, U, P, c) /\ c.state # "waits2"
      OBVIOUS
    <3>1. ~HasSave(U) /\ ~Has(Q, Phase2) /\ ~Saving(c) /\ ~Has(Q, Done) /\ c.state # "waits2"
      BY <2>1, <2>4 DEF Core, CurrentIsOwed
    <3>2. ~Owed(U, P, c)
      BY <2>3, <3>1 DEF Owed, Answered
    <3>3. ~s.last
      BY <2>1, <3>1 DEF Core, InPhase2
    <3> QED
      BY <3>1, <3>2, <3>3 DEF Free
  <2>6. Core(r, V, P, c)
    BY <1>1, <2>3, <2>5, DoSaveYourselfCore
  <2>7. Saves(s, SmSaveLocal, r)
    BY <1>1, DoSaveYourselfDoes
  <2>8. (\A t : Carries(U, t) => Carries(V, t)) /\ (HasSave(U) => HasSave(V))
    BY <1>1, <2>7, SavesLine
  <2> HIDE DEF U, V
  <2>9. /\ r.phase = s.phase /\ r.asked = s.asked
        /\ \/ r.next_save_yourself \in {None, s.next_save_yourself}
           \/ r.next_save_yourself = SmSaveLocal /\ s.current_save_yourself # None
    BY <2>7 DEF Saves
  <2>10. Owed(U, Q, c) => Owed(V, P, c)
    BY <2>3, <2>8 DEF Owed
  <2>11. s.current_save_yourself # None => Owed(V, P, c)
    BY <2>1, <2>10 DEF Core, CurrentIsOwed
  <2>12. Waiting(r, V, P, c)
    BY <2>1, <2>3, <2>8, <2>9, <2>10, <2>11, WaitingKept
  <2> QED
    BY <2>6, <2>12 DEF Good, V
<1> QED
  BY <1>2, <1>3

\* The client wants phase 2.
LEMMA SaveYourselfPhase2RequestHandled ==
  ASSUME NEW T \in Seq(ToClient), NEW s, Sound(T, s), s.phase # "EXIT",
         NEW Q \in Seq(ToServer), Q # <<>>, Head(Q) = Phase2, NEW P, P = Tail(Q), NEW c,
         NEW r \in SaveYourselfPhase2Request(s)
  PROVE  Sound(T, r) /\ (Good(s, T, Q, c) => Good(r, T, P, c))
<1> DEFINE q == [s EXCEPT !.current_save_yourself = None]
           U == Line(T, s)
<1>1. s \in Pending /\ s.conn
  BY DEF Sound
<1>2. /\ q \in Pending /\ q.conn = s.conn /\ q.current_save_yourself = None
      /\ q.phase = s.phase /\ q.out = s.out /\ q.saving = s.saving
      /\ q.may_interact = s.may_interact /\ q.last = s.last
      /\ q.next_save_yourself = s.next_save_yourself
  BY <1>1 DEF Pending
<1>3. s.saving => r \in EndSessionResponse(q, TRUE, TRUE, FALSE)
  BY DEF SaveYourselfPhase2Request
<1>4. ~s.saving => r = s
  BY DEF SaveYourselfPhase2Request
<1> HIDE DEF q
<1>5. Sound(T, q) /\ Line(T, q) = U
  BY <1>1, <1>2, SendsNothing
<1>6. TRUE \in BOOLEAN
  OBVIOUS
<1>7. s.saving => Sound(T, r) /\ After(q, r)
  BY <1>2, <1>3, <1>5, <1>6, ResponseSound
<1>8. ASSUME Good(s, T, Q, c) PROVE Good(r, T, P, c)
  <2>1. Core(s, U, Q, c) /\ Waiting(s, U, Q, c)
    BY <1>8 DEF Good
  <2>2. Has(Q, Phase2) /\ (Phase2Last(Q) => P = <<>>)
    BY ToServerTaken
  <2> HIDE DEF U
  <2>3. c.state = "waits2" /\ P = <<>>
    BY <2>1, <2>2 DEF Core, OneOwed
  <2>4. s.saving
    BY <2>1, <2>3 DEF Core, Expects
  <2>5. s.current_save_yourself # None
    BY <2>1, <2>2 DEF Core, CurrentIsOwed
  <2>6. ~Carries(U, "SaveYourselfPhase2") /\ ~s.last
    BY <2>1, <2>3, <2>5 DEF Core, InPhase2, Saving
  <2>7. ~Has(P, Done) /\ ~Has(P, Phase2) /\ ~Answered(P) /\ OnceAnswered(P)
    BY <2>3 DEF Has, Answered, OnceAnswered
  <2>8. ~HasSave(U) /\ ~Saving(c)
    BY <2>1, <2>2, <2>3 DEF Core, OneOwed, Answered, Saving
  <2>9. OneOwed(U, P, c)
    BY <2>1, <2>7, <2>8 DEF Core, OneOwed
  <2>10. InPhase2(q, U, P, c)
    BY <1>2, <2>6 DEF InPhase2
  <2>11. CurrentIsOwed(q, U, P, c)
    BY <1>2, <2>3, <2>7, <2>8 DEF CurrentIsOwed
  <2>12. Expects(q, U, P, c)
    BY <1>2, <2>1, <2>3, <2>4 DEF Core, Expects
  <2>13. Core(q, U, P, c)
    BY <2>9, <2>10, <2>11, <2>12 DEF Core
  <2>14. Core(r, Line(T, r), P, c)
    BY <1>2, <1>3, <1>5, <1>6, <2>3, <2>4, <2>6, <2>13, ResponseCore
  <2>15. Waiting(r, Line(T, r), P, c)
    BY <1>2, <1>7, <2>1, <2>3, <2>4 DEF Waiting, After
  <2> QED
    BY <2>14, <2>15 DEF Good
<1> QED
  BY <1>4, <1>7, <1>8

\* The client asks for leave to interact.
LEMMA InteractRequestHandled ==
  ASSUME NEW T \in Seq(ToClient), NEW s, Sound(T, s), s.phase # "EXIT",
         NEW Q \in Seq(ToServer), Q # <<>>, Head(Q) = "InteractRequest",
         NEW P, P = Tail(Q), NEW c,
         NEW r \in InteractRequest(s)
  PROVE  Sound(T, r) /\ (Good(s, T, Q, c) => Good(r, T, P, c))
<1>1. s \in Pending /\ s.conn
  BY DEF Sound
<1>2. Head(Q) \notin {Done, Phase2}
  BY DEF Done, Phase2
<1>3. CASE ~s.may_interact
  <2>1. r = s
    BY <1>3 DEF InteractRequest
  <2>2. ASSUME Good(s, T, Q, c) PROVE Good(s, T, P, c)
    <3> DEFINE U == Line(T, s)
    <3>1. Core(s, U, Q, c) /\ Waiting(s, U, Q, c)
      BY <2>2 DEF Good
    <3> HIDE DEF U
    <3>2. c.state = "waits" => Carries(U, "Interact")
      BY <1>3, <3>1 DEF Core, Expects
    <3>3. /\ Core(s, U, P, c)
          /\ Owed(U, P, c) <=> Owed(U, Q, c)
          /\ Has(P, Done) <=> Has(Q, Done)
      BY <1>2, <3>1, <3>2, CoreTaken
    <3>4. Waiting(s, U, P, c)
      BY <3>1, <3>3 DEF Waiting
    <3> QED
      BY <3>3, <3>4 DEF Good, U
  <2> QED
    BY <2>1, <2>2
<1>4. CASE s.may_interact
  <2> DEFINE m == Message("Interact")
  <2>1. PICK q \in EndSessionResponse(s, FALSE, FALSE, FALSE) :
          r = Send([q EXCEPT !.interacting = TRUE], m)
    BY <1>4 DEF InteractRequest
  <2>2. m \in ToClient /\ m.type = "Interact"
    BY Messages
  <2> HIDE DEF m
  <2>3. FALSE \in BOOLEAN
    OBVIOUS
  <2>4. Sound(T, q) /\ After(s, q)
    BY <2>1, <2>3, ResponseSound
  <2>5. q \in Pending /\ q.conn
    BY <2>4 DEF Sound
  <2> DEFINE o == Append(q.out, m)
  <2>6. o \in Seq(ToClient)
    BY <2>2, <2>5 DEF Pending
  <2>7. r = [q EXCEPT !.interacting = TRUE, !.out = o]
    BY <2>1, <2>5 DEF Send, Pending
  <2>8. /\ r \in Pending /\ r.conn /\ r.out = o /\ r.phase = q.phase /\ r.asked = q.asked
        /\ r.current_save_yourself = q.current_save_yourself
        /\ r.next_save_yourself = q.next_save_yourself
        /\ r.saving = q.saving /\ r.may_interact = q.may_interact /\ r.last = q.last
    <3> HIDE DEF o
    <3> QED
      BY <2>5, <2>6, <2>7 DEF Pending
  <2>9. Sound(T, r)
    BY <2>2, <2>4, <2>8, SendsSoundly
  <2>10. ASSUME Good(s, T, Q, c) PROVE Good(r, T, P, c)
    <3> DEFINE U == Line(T, q)
               V == Line(T, r)
    <3>1. U \in Seq(ToClient) /\ V = Append(U, m)
      BY <2>2, <2>5, <2>8, Sends
    <3>2. Core(q, U, Q, c)
      BY <2>1, <2>3, <2>10, ResponseCore DEF Good
    <3> HIDE DEF U, V
    <3>3. Core(q, V, Q, c)
      BY <2>2, <3>1, <3>2, CoreSaid
    <3>4. q.last => q.phase = "END_SESSION"
      BY <3>2 DEF Core, InPhase2
    <3>5. Core(r, V, Q, c)
      BY <2>8, <3>3, <3>4, CoreKept
    <3>6. /\ \A t : Carries(U, t) => Carries(V, t)
          /\ Carries(V, "Interact")
          /\ HasSave(U) => HasSave(V)
      BY <2>2, <3>1, ToClientAdded
    <3>7. /\ Core(r, V, P, c)
          /\ Owed(V, P, c) <=> Owed(V, Q, c)
          /\ Has(P, Done) <=> Has(Q, Done)
      BY <1>2, <3>5, <3>6, CoreTaken
    <3>8. Waiting(r, V, P, c)
      <4>1. CASE s.phase = "RUNNING"
        <5>1. q = s
          BY <2>4, <4>1 DEF After
        <5>2. Waiting(q, U, Q, c)
          BY <2>10, <5>1 DEF Good, U
        <5>3. Owed(U, Q, c) => Owed(V, P, c)
          BY <3>6, <3>7 DEF Owed
        <5> QED
          BY <2>8, <3>6, <3>7, <5>1, <5>2, <5>3 DEF Waiting
      <4>2. CASE s.phase # "RUNNING"
        BY <2>4, <2>8, <4>2 DEF After, Waiting
      <4> QED
        BY <4>1, <4>2
    <3> QED
      BY <3>7, <3>8 DEF Good, V
  <2> QED
    BY <2>9, <2>10
<1> QED
  BY <1>3, <1>4

\* The callback cancels the logout.
Cancels(T, s, Q, P, c, r) ==
  \E q : /\ Sound(T, q) /\ Line(T, q) = Line(T, s) /\ q.phase = s.phase
         /\ s.phase \notin {"RUNNING", "EXIT"}
         /\ r = CancelEndSession(q)
         /\ Good(s, T, Q, c) => Good(q, T, P, c)

\* The client is done with its interaction, and may cancel the logout.
LEMMA InteractDoneHandled ==
  ASSUME NEW T \in Seq(ToClient), NEW s, Sound(T, s), s.phase # "EXIT",
         NEW Q \in Seq(ToServer), Q # <<>>, NEW cancel \in BOOLEAN,
         Head(Q) \in {"InteractDone", "InteractDoneCancel"}, NEW P, P = Tail(Q), NEW c,
         NEW r \in InteractDone(s, cancel)
  PROVE  /\ Sound(T, r)
         /\ \/ Cancels(T, s, Q, P, c, r)
            \/ (Good(s, T, Q, c) => Good(r, T, P, c)) /\ SendsOne(s, r)
<1> DEFINE q == [s EXCEPT !.interacting = FALSE]
<1>1. s \in Pending /\ s.conn
  BY DEF Sound
<1>2. Head(Q) \notin {Done, Phase2} /\ Head(Q) # "InteractRequest"
  BY DEF Done, Phase2
<1>3. ASSUME Good(s, T, Q, c) PROVE Good(s, T, P, c)
  <2> DEFINE U == Line(T, s)
  <2>1. Core(s, U, Q, c) /\ Waiting(s, U, Q, c)
    BY <1>3 DEF Good
  <2> HIDE DEF U
  <2>2. /\ Core(s, U, P, c)
        /\ Owed(U, P, c) <=> Owed(U, Q, c)
        /\ Has(P, Done) <=> Has(Q, Done)
    BY <1>2, <2>1, CoreTaken
  <2>3. Waiting(s, U, P, c)
    BY <2>1, <2>2 DEF Waiting
  <2> QED
    BY <2>2, <2>3 DEF Good, U
<1>4. /\ q \in Pending /\ q.conn = s.conn /\ q.out = s.out /\ q.phase = s.phase
      /\ q.current_save_yourself = s.current_save_yourself
      /\ q.next_save_yourself = s.next_save_yourself
      /\ q.saving = s.saving /\ q.may_interact = s.may_interact
      /\ q.last = s.last /\ q.asked = s.asked
  BY <1>1 DEF Pending
<1>5. r = s \/ r \in EndSessionResponse(q, TRUE, FALSE, cancel)
  BY DEF InteractDone
<1> HIDE DEF q
<1>6. Sound(T, q) /\ Line(T, q) = Line(T, s)
  BY <1>1, <1>4, SendsNothing
<1>7. ASSUME Good(s, T, P, c) PROVE Good(q, T, P, c)
  <2> DEFINE U == Line(T, s)
  <2>1. Core(s, U, P, c) /\ Waiting(s, U, P, c)
    BY <1>7 DEF Good
  <2> HIDE DEF U
  <2>2. s.last => s.phase = "END_SESSION"
    BY <2>1 DEF Core, InPhase2
  <2>3. Core(q, U, P, c)
    BY <1>4, <2>1, <2>2, CoreKept
  <2>4. Waiting(q, U, P, c)
    BY <1>4, <2>1 DEF Waiting
  <2> QED
    BY <1>6, <2>3, <2>4 DEF Good, U
<1>8. CASE r = s
  BY <1>3, <1>8 DEF SendsOne
<1>9. CASE r \in EndSessionResponse(q, TRUE, FALSE, FALSE)
  <2>1. TRUE \in BOOLEAN /\ FALSE \in BOOLEAN
    OBVIOUS
  <2>2. Sound(T, r) /\ After(q, r) /\ SendsOne(q, r)
    BY <1>4, <1>6, <1>9, <2>1, ResponseSound
  <2>3. ASSUME Good(q, T, P, c) PROVE Good(r, T, P, c)
    <3>1. Core(r, Line(T, r), P, c)
      BY <1>6, <1>9, <2>1, <2>3, ResponseCore DEF Good
    <3>2. Waiting(r, Line(T, r), P, c)
      BY <2>2, <2>3 DEF Good, Waiting, After
    <3> QED
      BY <3>1, <3>2 DEF Good
  <2> QED
    BY <1>3, <1>4, <1>7, <2>2, <2>3 DEF SendsOne
<1>10. CASE r \in EndSessionResponse(q, TRUE, FALSE, TRUE)
  <2>1. CASE q.phase \in {"RUNNING", "EXIT"}
    <3>1. r = q
      BY <1>10, <2>1 DEF EndSessionResponse
    <3> QED
      BY <1>3, <1>4, <1>6, <1>7, <3>1 DEF SendsOne
  <2>2. CASE q.phase \notin {"RUNNING", "EXIT"}
    <3>1. r = CancelEndSession(q)
      BY <1>10, <2>2 DEF EndSessionResponse
    <3>2. Sound(T, r)
      BY <1>4, <1>6, <2>2, <3>1, CancelSound
    <3> QED
      BY <1>3, <1>4, <1>6, <1>7, <2>2, <3>1, <3>2 DEF Cancels
  <2> QED
    BY <2>1, <2>2
<1> QED
  BY <1>5, <1>8, <1>9, <1>10

\* What the session manager makes of SaveYourselfDone before it looks at who waits
\* for it: nothing is current any more, and the client is told so.
Completed(s, q) ==
  /\ q \in Pending /\ q.conn = s.conn
  /\ q.phase = s.phase /\ q.asked = s.asked /\ q.last = s.last
  /\ q.next_save_yourself = s.next_save_yourself
  /\ q.current_save_yourself = None
  /\ q.saving = FALSE /\ q.may_interact = FALSE
  /\ q.out = IF s.current_save_yourself = None THEN s.out
             ELSE Append(s.out, Message("SaveComplete"))

\* What it makes of what is queued.
Queued(q, r) ==
  \/ q.next_save_yourself = SmSaveGlobal /\ r = q
  \/ /\ q.next_save_yourself # SmSaveGlobal
     /\ \E p \in Pending :
          /\ p = [q EXCEPT !.next_save_yourself = None, !.next_allow_interact = TRUE]
          /\ r = DoSaveYourself(p, q.next_save_yourself, q.next_allow_interact)

LEMMA SaveYourselfDoneDoes ==
  ASSUME NEW s \in Pending, NEW r \in SaveYourselfDone(s)
  PROVE  \/ ~s.saving /\ r = s
         \/ /\ s.saving
            /\ \E q : /\ Completed(s, q)
                      /\ \E p \in EndSessionResponse(q, TRUE, FALSE, FALSE) :
                           p \in Pending => Queued(p, r)
<1>1. CASE ~s.saving
  BY <1>1 DEF SaveYourselfDone
<1>2. CASE s.saving
  <2> DEFINE saved == [s EXCEPT !.saving = FALSE, !.may_interact = FALSE]
             q == IF s.current_save_yourself = None THEN saved
                  ELSE Send([saved EXCEPT !.current_save_yourself = None],
                            Message("SaveComplete"))
             queued(x) ==
               IF x.next_save_yourself = SmSaveGlobal THEN x
               ELSE DoSaveYourself([x EXCEPT !.next_save_yourself = None,
                                             !.next_allow_interact = TRUE],
                                   x.next_save_yourself, x.next_allow_interact)
             m == Message("SaveComplete")
             o == Append(s.out, m)
  <2>1. saved.current_save_yourself = s.current_save_yourself
    BY DEF Pending
  <2>2. PICK p \in EndSessionResponse(q, TRUE, FALSE, FALSE) : r = queued(p)
    BY <1>2, <2>1, Zenon DEF SaveYourselfDone
  <2>3. m \in ToClient
    BY Messages
  <2> HIDE DEF m
  <2>4. o \in Seq(ToClient)
    BY <2>3 DEF Pending
  <2>5. Completed(s, q)
    <3>1. CASE s.current_save_yourself = None
      BY <3>1 DEF Completed, Pending
    <3>2. CASE s.current_save_yourself # None
      <4>1. q = [s EXCEPT !.saving = FALSE, !.may_interact = FALSE,
                          !.current_save_yourself = None, !.out = o]
        BY <3>2 DEF Send, Pending, m
      <4> HIDE DEF q, o
      <4>2. q \in Pending
        BY <2>4, <4>1 DEF Pending
      <4>3. /\ q.conn = s.conn /\ q.phase = s.phase /\ q.asked = s.asked /\ q.last = s.last
            /\ q.next_save_yourself = s.next_save_yourself
            /\ q.current_save_yourself = None
            /\ q.saving = FALSE /\ q.may_interact = FALSE /\ q.out = o
        BY <4>1 DEF Pending
      <4> QED
        BY <3>2, <4>2, <4>3 DEF Completed, o, m
    <3> QED
      BY <3>1, <3>2
  <2> HIDE DEF q, saved
  <2>6. p \in Pending => Queued(p, r)
    <3> SUFFICES ASSUME p \in Pending PROVE Queued(p, r)
      OBVIOUS
    <3>1. CASE p.next_save_yourself = SmSaveGlobal
      BY <2>2, <3>1 DEF Queued
    <3>2. CASE p.next_save_yourself # SmSaveGlobal
      <4> DEFINE n == [p EXCEPT !.next_save_yourself = None, !.next_allow_interact = TRUE]
      <4>1. n \in Pending
        BY DEF Pending
      <4>2. r = DoSaveYourself(n, p.next_save_yourself, p.next_allow_interact)
        BY <2>2, <3>2
      <4>3. n = [p EXCEPT !.next_save_yourself = None, !.next_allow_interact = TRUE]
        OBVIOUS
      <4> HIDE DEF n
      <4> QED
        BY <3>2, <4>1, <4>2, <4>3, Zenon DEF Queued
    <3> QED
      BY <3>1, <3>2
  <2> QED
    BY <1>2, <2>2, <2>5, <2>6
<1> QED
  BY <1>1, <1>2

LEMMA CompletedSound ==
  ASSUME NEW T \in Seq(ToClient), NEW s, Sound(T, s), NEW q, Completed(s, q)
  PROVE  Sound(T, q)
<1>1. s \in Pending /\ s.conn
  BY DEF Sound
<1>2. CASE s.current_save_yourself = None
  <2>1. q.out = s.out
    BY <1>2 DEF Completed
  <2> QED
    BY <1>1, <2>1, SendsNothing DEF Completed
<1>3. CASE s.current_save_yourself # None
  <2>1. PICK m \in ToClient : m.type = "SaveComplete" /\ q.out = Append(s.out, m)
    BY <1>3, Messages DEF Completed
  <2> QED
    BY <1>1, <2>1, SendsSoundly DEF Completed
<1> QED
  BY <1>2, <1>3

\* The answer ends what is owed.
LEMMA CompletedCore ==
  ASSUME NEW T \in Seq(ToClient), NEW s, Sound(T, s),
         NEW Q \in Seq(ToServer), Q # <<>>, Head(Q) = Done, NEW P, P = Tail(Q), NEW c,
         Core(s, Line(T, s), Q, c), NEW q, Completed(s, q)
  PROVE  /\ Core(q, Line(T, q), P, c)
         /\ c.state # "waits2" /\ ~Saving(c) /\ ~Answered(P)
         /\ \A t : Carries(Line(T, s), t) => Carries(Line(T, q), t)
         /\ s.phase = "RUNNING" => Carries(Line(T, q), "SaveComplete")
<1> DEFINE U == Line(T, s)
           V == Line(T, q)
<1>1. s \in Pending /\ Core(s, U, Q, c)
  BY DEF Sound
<1>2. /\ \A t : Carries(U, t) => Carries(V, t)
      /\ Carries(V, "ShutdownCancelled") => Carries(U, "ShutdownCancelled")
      /\ Carries(V, "SaveYourselfPhase2") => Carries(U, "SaveYourselfPhase2")
      /\ HasSave(V) => HasSave(U)
      /\ AllowsInteract(V) => AllowsInteract(U)
      /\ Ordered(U) => Ordered(V)
      /\ s.current_save_yourself # None => Carries(V, "SaveComplete")
  <2>1. CASE s.current_save_yourself = None
    BY <2>1 DEF Completed, Line
  <2>2. CASE s.current_save_yourself # None
    <3>1. PICK m \in ToClient : m.type = "SaveComplete" /\ q.out = Append(s.out, m)
      BY <2>2, Messages DEF Completed
    <3>2. U \in Seq(ToClient) /\ V = Append(U, m)
      BY <1>1, <3>1, Sends
    <3>3. ~IsSave(m)
      BY <3>1 DEF IsSave
    <3> HIDE DEF U, V
    <3>4. ~Disturbs(m)
      BY <3>1, <3>3 DEF Disturbs
    <3> QED
      BY <3>1, <3>2, <3>3, <3>4, ToClientAdded
  <2> QED
    BY <2>1, <2>2
<1> HIDE DEF U, V
<1>3. /\ Has(Q, Done)
      /\ OnceAnswered(Q) => OnceAnswered(P) /\ ~Answered(P)
  BY ToServerTaken
<1>4. /\ ~Saving(c) /\ ~HasSave(U) /\ c.state # "waits2" /\ ~Answered(P)
      /\ OnceAnswered(P) /\ Ordered(U)
      /\ Carries(U, "ShutdownCancelled") => c.state \in {"idle", "frozen"}
  BY <1>1, <1>3 DEF Core, OneOwed, Answered
<1>5. ~Has(P, Done) /\ ~Has(P, Phase2)
  BY <1>4 DEF Answered
<1>6. ~AllowsInteract(U) /\ c.state # "waits"
  BY <1>4 DEF AllowsInteract, HasSave, Saving
<1>7. ~s.last /\ (Carries(U, "SaveYourselfPhase2") => c.state \in {"idle", "frozen"})
  BY <1>1, <1>4 DEF Core, InPhase2
<1>8. s.phase = "RUNNING" => s.current_save_yourself # None
  BY <1>1, <1>3 DEF Core, CurrentIsOwed, Ending
<1>9. OneOwed(V, P, c)
  BY <1>2, <1>4, <1>5 DEF OneOwed
<1>10. InPhase2(q, V, P, c)
  BY <1>2, <1>7 DEF InPhase2, Completed
<1>11. CurrentIsOwed(q, V, P, c)
  BY <1>2, <1>4, <1>5 DEF CurrentIsOwed, Completed
<1>12. Expects(q, V, P, c)
  BY <1>2, <1>4, <1>6 DEF Expects, Owed
<1> QED
  BY <1>2, <1>4, <1>8, <1>9, <1>10, <1>11, <1>12 DEF Core, U, V

\* What is queued is sent, when nothing is owed.
LEMMA QueuedSound ==
  ASSUME NEW T \in Seq(ToClient), NEW q, Sound(T, q), NEW r, Queued(q, r)
  PROVE  Sound(T, r) /\ r.phase = q.phase /\ r.asked = q.asked /\ SendsOne(q, r)
<1>1. CASE r = q
  BY <1>1 DEF SendsOne
<1>2. CASE \E p \in Pending :
             /\ p = [q EXCEPT !.next_save_yourself = None, !.next_allow_interact = TRUE]
             /\ r = DoSaveYourself(p, q.next_save_yourself, q.next_allow_interact)
  <2>1. PICK p \in Pending :
             /\ p = [q EXCEPT !.next_save_yourself = None, !.next_allow_interact = TRUE]
             /\ r = DoSaveYourself(p, q.next_save_yourself, q.next_allow_interact)
    BY <1>2
  <2>2. /\ q \in Pending /\ q.conn /\ q.next_save_yourself \in SaveTypes \cup {None}
        /\ q.next_allow_interact \in BOOLEAN
    BY DEF Sound, Pending
  <2>3. p.conn = q.conn /\ p.out = q.out /\ p.phase = q.phase /\ p.asked = q.asked
    BY <2>1, <2>2 DEF Pending
  <2>4. Sound(T, p)
    BY <2>2, <2>3, SendsNothing
  <2>5. Sound(T, r) /\ SendsOne(p, r)
    BY <2>1, <2>2, <2>4, DoSaveYourselfSound
  <2>6. Saves(p, q.next_save_yourself, r)
    BY <2>1, <2>2, DoSaveYourselfDoes
  <2> QED
    BY <2>3, <2>5, <2>6 DEF Saves, SendsOne
<1> QED
  BY <1>1, <1>2 DEF Queued

LEMMA QueuedCore ==
  ASSUME NEW T \in Seq(ToClient), NEW q, Sound(T, q), NEW P, NEW c,
         Core(q, Line(T, q), P, c),
         c.state # "waits2", ~Saving(c), ~Answered(P), NEW r, Queued(q, r)
  PROVE  /\ Core(r, Line(T, r), P, c)
         /\ \A t : Carries(Line(T, q), t) => Carries(Line(T, r), t)
         /\ q.current_save_yourself = None /\ q.next_save_yourself # SmSaveGlobal =>
              r.next_save_yourself = None
<1>1. CASE q.next_save_yourself = SmSaveGlobal /\ r = q
  BY <1>1
<1>2. CASE \E p \in Pending :
             /\ p = [q EXCEPT !.next_save_yourself = None, !.next_allow_interact = TRUE]
             /\ r = DoSaveYourself(p, q.next_save_yourself, q.next_allow_interact)
  <2>1. PICK p \in Pending :
             /\ p = [q EXCEPT !.next_save_yourself = None, !.next_allow_interact = TRUE]
             /\ r = DoSaveYourself(p, q.next_save_yourself, q.next_allow_interact)
    BY <1>2
  <2> DEFINE type == q.next_save_yourself
             allow == q.next_allow_interact
  <2>2. /\ q \in Pending /\ q.conn /\ type \in SaveTypes \cup {None} /\ allow \in BOOLEAN
    BY DEF Sound, Pending
  <2>3. /\ p.conn = q.conn /\ p.out = q.out /\ p.phase = q.phase /\ p.last = q.last
        /\ p.current_save_yourself = q.current_save_yourself
        /\ p.saving = q.saving /\ p.may_interact = q.may_interact
        /\ p.next_save_yourself = None
    BY <2>1, <2>2 DEF Pending
  <2>4. r = DoSaveYourself(p, type, allow)
    BY <2>1
  <2> HIDE DEF type, allow
  <2>5. Sound(T, p) /\ Line(T, p) = Line(T, q)
    BY <2>2, <2>3, SendsNothing
  <2> DEFINE U == Line(T, q)
  <2>6. Core(q, U, P, c) /\ Line(T, p) = U
    BY <2>5
  <2> HIDE DEF U
  <2>7. ~q.last /\ (q.current_save_yourself = None => ~HasSave(U))
    BY <2>6 DEF Core, InPhase2, CurrentIsOwed
  <2>8. Core(p, Line(T, p), P, c)
    BY <2>3, <2>6, <2>7, CoreKept
  <2>9. p.current_save_yourself = None => Free(p, Line(T, p), P, c)
    BY <2>3, <2>6, <2>7 DEF Free, Owed
  <2>10. Core(r, Line(T, r), P, c)
    BY <2>2, <2>4, <2>5, <2>8, <2>9, DoSaveYourselfCore
  <2>11. Saves(p, type, r)
    BY <2>2, <2>4, DoSaveYourselfDoes
  <2>12. \A t : Carries(Line(T, p), t) => Carries(Line(T, r), t)
    BY <2>2, <2>11, SavesLine
  <2>13. q.current_save_yourself = None => r.next_save_yourself = None
    BY <2>3, <2>11 DEF Saves
  <2> QED
    BY <2>5, <2>10, <2>12, <2>13
<1> QED
  BY <1>1, <1>2 DEF Queued

\* The client has saved.
LEMMA SaveYourselfDoneHandled ==
  ASSUME NEW T \in Seq(ToClient), NEW s, Sound(T, s), s.phase # "EXIT",
         NEW Q \in Seq(ToServer), Q # <<>>, Head(Q) = Done, NEW P, P = Tail(Q), NEW c,
         NEW r \in SaveYourselfDone(s)
  PROVE  Sound(T, r) /\ (Good(s, T, Q, c) => Good(r, T, P, c))
<1>1. s \in Pending
  BY DEF Sound
<1>2. CASE ~s.saving /\ r = s
  <2>1. ASSUME Good(s, T, Q, c) PROVE FALSE
    <3> DEFINE U == Line(T, s)
    <3>1. Core(s, U, Q, c)
      BY <2>1 DEF Good
    <3> HIDE DEF U
    <3>2. Has(Q, Done)
      BY ToServerTaken
    <3> QED
      BY <1>2, <3>1, <3>2 DEF Core, Expects, Owed, Answered
  <2> QED
    BY <1>2, <2>1
<1>3. CASE /\ s.saving
           /\ \E q : /\ Completed(s, q)
                     /\ \E p \in EndSessionResponse(q, TRUE, FALSE, FALSE) :
                          p \in Pending => Queued(p, r)
  <2>1. PICK q : /\ Completed(s, q)
                 /\ \E p \in EndSessionResponse(q, TRUE, FALSE, FALSE) :
                      p \in Pending => Queued(p, r)
    BY <1>3
  <2>2. PICK p \in EndSessionResponse(q, TRUE, FALSE, FALSE) : p \in Pending => Queued(p, r)
    BY <2>1
  <2>3. Sound(T, q) /\ q.phase = s.phase
    BY <2>1, CompletedSound DEF Completed
  <2>4. TRUE \in BOOLEAN /\ FALSE \in BOOLEAN
    OBVIOUS
  <2>5. Sound(T, p) /\ After(q, p)
    BY <2>2, <2>3, <2>4, ResponseSound
  <2>6. Queued(p, r)
    BY <2>2, <2>5 DEF Sound
  <2>7. Sound(T, r) /\ r.phase = p.phase /\ r.asked = p.asked
    BY <2>5, <2>6, QueuedSound
  <2>8. ASSUME Good(s, T, Q, c) PROVE Good(r, T, P, c)
    <3>1. Core(s, Line(T, s), Q, c) /\ Waiting(s, Line(T, s), Q, c)
      BY <2>8 DEF Good
    <3>2. /\ Core(q, Line(T, q), P, c)
          /\ c.state # "waits2" /\ ~Saving(c) /\ ~Answered(P)
          /\ s.phase = "RUNNING" => Carries(Line(T, q), "SaveComplete")
      BY <2>1, <3>1, CompletedCore
    <3>3. Core(p, Line(T, p), P, c)
      BY <2>2, <2>3, <2>4, <3>2, ResponseCore
    <3>4. /\ Core(r, Line(T, r), P, c)
          /\ \A t : Carries(Line(T, p), t) => Carries(Line(T, r), t)
          /\ p.current_save_yourself = None /\ p.next_save_yourself # SmSaveGlobal =>
               r.next_save_yourself = None
      BY <2>5, <2>6, <3>2, <3>3, QueuedCore
    <3>5. Waiting(r, Line(T, r), P, c)
      <4>1. CASE s.phase = "RUNNING"
        <5>1. p = q
          BY <2>3, <2>5, <4>1 DEF After
        <5>2. p.next_save_yourself # SmSaveGlobal /\ p.current_save_yourself = None
          BY <2>1, <3>1, <4>1, <5>1 DEF Completed, Waiting, SmSaveLocal, SmSaveGlobal, None
        <5>3. Carries(Line(T, r), "SaveComplete") /\ r.next_save_yourself = None
          BY <3>2, <3>4, <4>1, <5>1, <5>2
        <5>4. r.phase = "RUNNING"
          BY <2>3, <2>7, <4>1, <5>1
        <5> QED
          BY <5>3, <5>4 DEF Waiting
      <4>2. CASE s.phase # "RUNNING"
        <5>1. r.phase # "RUNNING" /\ (r.phase = "QUERY_END_SESSION" => ~r.asked)
          BY <2>3, <2>5, <2>7, <4>2 DEF After
        <5> QED
          BY <5>1 DEF Waiting
      <4> QED
        BY <4>1, <4>2
    <3> QED
      BY <3>4, <3>5 DEF Good
  <2> QED
    BY <2>7, <2>8
<1> QED
  BY <1>1, <1>2, <1>3, SaveYourselfDoneDoes

\* Any message.
LEMMA DispatchedHandled ==
  ASSUME NEW T \in Seq(ToClient), NEW s, Sound(T, s), s.phase # "EXIT",
         NEW Q \in Seq(ToServer), Q # <<>>, NEW P, P = Tail(Q), NEW c,
         NEW r \in Dispatched(s, Head(Q))
  PROVE  /\ Sound(T, r)
         /\ Cancels(T, s, Q, P, c, r) \/ (Good(s, T, Q, c) => Good(r, T, P, c))
<1> DEFINE m == Head(Q)
<1>1. m \in ToServer
  BY ToServerTaken
<1>2. CASE m = "SaveYourselfRequest"
  <2>1. r \in SaveYourselfRequest(s) /\ Head(Q) = Request
    BY <1>2 DEF Dispatched, Request
  <2> QED
    BY <2>1, SaveYourselfRequestHandled
<1>3. CASE m = "SaveYourselfPhase2Request"
  <2>1. r \in SaveYourselfPhase2Request(s) /\ Head(Q) = Phase2
    BY <1>3 DEF Dispatched, Phase2
  <2> QED
    BY <2>1, SaveYourselfPhase2RequestHandled
<1>4. CASE m = "InteractRequest"
  <2>1. r \in InteractRequest(s) /\ Head(Q) = "InteractRequest"
    BY <1>4 DEF Dispatched
  <2> QED
    BY <2>1, InteractRequestHandled
<1>5. CASE m \in {"InteractDone", "InteractDoneCancel"}
  <2>1. PICK cancel \in BOOLEAN : r \in InteractDone(s, cancel)
    BY <1>5 DEF Dispatched
  <2> QED
    BY <1>5, <2>1, InteractDoneHandled
<1>6. CASE m = "SaveYourselfDone"
  <2>1. r \in SaveYourselfDone(s) /\ Head(Q) = Done
    BY <1>6 DEF Dispatched, Done
  <2> QED
    BY <2>1, SaveYourselfDoneHandled
<1> QED
  BY <1>1, <1>2, <1>3, <1>4, <1>5, <1>6 DEF ToServer

\* Nothing is pending that says that the shutdown is cancelled.
Quiet(s) == ~Carries(s.out, "ShutdownCancelled")

LEMMA QuietKept ==
  ASSUME NEW s \in Pending, Quiet(s), NEW r, SendsOne(s, r)
  PROVE  Quiet(r) /\ ~Tells(r)
<1> DEFINE o == s.out
           u == r.out
<1>1. o \in Seq(ToClient) /\ ~Carries(o, "ShutdownCancelled")
  BY DEF Pending, Quiet
<1>2. u = o \/ \E m \in ToClient : u = Append(o, m) /\ m.type # "ShutdownCancelled"
  BY DEF SendsOne
<1> HIDE DEF o, u
<1>3. ~Carries(u, "ShutdownCancelled")
  BY <1>1, <1>2, ToClientAdded
<1>4. Message("ShutdownCancelled").type = "ShutdownCancelled"
  BY DEF Message
<1>5. Message("ShutdownCancelled") \notin Range(u)
  BY <1>3, <1>4 DEF Carries, Range
<1> QED
  BY <1>3, <1>5 DEF Quiet, Tells, u

\* No callback says so, unless it cancels the logout.
LEMMA DispatchedQuiet ==
  ASSUME NEW T \in Seq(ToClient), NEW s, Sound(T, s), s.phase # "EXIT", Quiet(s),
         NEW Q \in Seq(ToServer), Q # <<>>, NEW P, P = Tail(Q), NEW c,
         NEW r \in Dispatched(s, Head(Q))
  PROVE  Cancels(T, s, Q, P, c, r) \/ (Quiet(r) /\ ~Tells(r))
<1> DEFINE m == Head(Q)
<1>1. m \in ToServer
  BY ToServerTaken
<1>2. s \in Pending /\ s.conn /\ TRUE \in BOOLEAN /\ FALSE \in BOOLEAN
  BY DEF Sound
<1>3. CASE m = "SaveYourselfRequest"
  <2>1. r = DoSaveYourself(s, SmSaveLocal, TRUE) /\ SmSaveLocal \in SaveTypes \cup {None}
    BY <1>3 DEF Dispatched, SaveYourselfRequest, SaveTypes
  <2>2. SendsOne(s, r)
    BY <1>2, <2>1, DoSaveYourselfSound
  <2> QED
    BY <1>2, <2>2, QuietKept
<1>4. CASE m = "SaveYourselfPhase2Request"
  <2> DEFINE q == [s EXCEPT !.current_save_yourself = None]
  <2>1. /\ q \in Pending /\ q.conn /\ q.phase = s.phase /\ q.out = s.out
    BY <1>2 DEF Pending
  <2>2. r = s \/ r \in EndSessionResponse(q, TRUE, TRUE, FALSE)
    BY <1>4 DEF Dispatched, SaveYourselfPhase2Request
  <2> HIDE DEF q
  <2>3. Sound(T, q)
    BY <1>2, <2>1, SendsNothing
  <2>4. r # s => SendsOne(q, r)
    BY <1>2, <2>1, <2>2, <2>3, ResponseSound
  <2>5. SendsOne(s, r)
    BY <2>1, <2>4 DEF SendsOne
  <2> QED
    BY <1>2, <2>5, QuietKept
<1>5. CASE m = "InteractRequest"
  <2>1. \/ r = s
        \/ \E q \in EndSessionResponse(s, FALSE, FALSE, FALSE) :
             r = Send([q EXCEPT !.interacting = TRUE], Message("Interact"))
    BY <1>5 DEF Dispatched, InteractRequest
  <2>2. CASE r = s
    BY <1>2, <2>2, QuietKept DEF SendsOne
  <2>3. CASE \E q \in EndSessionResponse(s, FALSE, FALSE, FALSE) :
               r = Send([q EXCEPT !.interacting = TRUE], Message("Interact"))
    <3>1. PICK q \in EndSessionResponse(s, FALSE, FALSE, FALSE) :
            r = Send([q EXCEPT !.interacting = TRUE], Message("Interact"))
      BY <2>3
    <3>2. Sound(T, q) /\ SendsOne(s, q)
      BY <1>2, ResponseSound
    <3>3. q \in Pending /\ Quiet(q)
      BY <1>2, <3>2, QuietKept DEF Sound
    <3>4. r.out = Append(q.out, Message("Interact"))
      BY <3>1, <3>3 DEF Send, Pending
    <3>5. SendsOne(q, r)
      BY <3>4, Messages DEF SendsOne
    <3> QED
      BY <3>3, <3>5, QuietKept
  <2> QED
    BY <2>1, <2>2, <2>3
<1>6. CASE m \in {"InteractDone", "InteractDoneCancel"}
  <2>1. PICK cancel \in BOOLEAN : r \in InteractDone(s, cancel)
    BY <1>6 DEF Dispatched
  <2>2. Cancels(T, s, Q, P, c, r) \/ SendsOne(s, r)
    BY <1>6, <2>1, InteractDoneHandled
  <2> QED
    BY <1>2, <2>2, QuietKept
<1>7. CASE m = "SaveYourselfDone"
  <2>1. r \in SaveYourselfDone(s)
    BY <1>7 DEF Dispatched
  <2>2. CASE r = s
    BY <1>2, <2>2, QuietKept DEF SendsOne
  <2>3. CASE \E q : /\ Completed(s, q)
                    /\ \E p \in EndSessionResponse(q, TRUE, FALSE, FALSE) :
                         p \in Pending => Queued(p, r)
    <3>1. PICK q : /\ Completed(s, q)
                   /\ \E p \in EndSessionResponse(q, TRUE, FALSE, FALSE) :
                        p \in Pending => Queued(p, r)
      BY <2>3
    <3>2. PICK p \in EndSessionResponse(q, TRUE, FALSE, FALSE) : p \in Pending => Queued(p, r)
      BY <3>1
    <3>3. Sound(T, q) /\ q.phase # "EXIT"
      BY <3>1, CompletedSound DEF Completed
    <3>4. SendsOne(s, q)
      BY <3>1, Messages DEF Completed, SendsOne
    <3>5. Quiet(q) /\ q \in Pending
      BY <1>2, <3>3, <3>4, QuietKept DEF Sound
    <3>6. Sound(T, p) /\ SendsOne(q, p)
      BY <1>2, <3>3, ResponseSound
    <3>7. Quiet(p) /\ p \in Pending
      BY <3>5, <3>6, QuietKept DEF Sound
    <3>8. SendsOne(p, r)
      BY <3>2, <3>6, <3>7, QueuedSound
    <3> QED
      BY <3>7, <3>8, QuietKept
  <2> QED
    BY <1>2, <2>1, <2>2, <2>3, SaveYourselfDoneDoes
<1> QED
  BY <1>1, <1>3, <1>4, <1>5, <1>6, <1>7 DEF ToServer

-----------------------------------------------------------------------------
(* A cancelled logout has overtaken what is owed.                           *)

\* When the logout is cancelled, whatever is owed.
LEMMA CancelCrosses ==
  ASSUME NEW T \in Seq(ToClient), NEW s, Sound(T, s), s.phase # "EXIT",
         NEW Q, NEW c, Core(s, Line(T, s), Q, c), NEW r, r = CancelEndSession(s)
  PROVE  Crossed(r, Line(T, r), Q, c)
<1> DEFINE U == Line(T, s)
           V == Line(T, r)
           m == Message("ShutdownCancelled")
<1>1. /\ V = Append(U, m) /\ r.phase = "RUNNING" /\ ~r.last
      /\ r.current_save_yourself = None /\ r.next_save_yourself = None
      /\ r.may_interact = s.may_interact
  BY CancelSound
<1>2. m \in ToClient /\ m.type = "ShutdownCancelled" /\ ~IsSave(m)
  BY Messages DEF IsSave
<1>3. U \in Seq(ToClient)
  BY <1>2, Sends, CancelSound DEF Sound
<1>4. Core(s, U, Q, c)
  OBVIOUS
<1> HIDE DEF U, V, m
<1>5. /\ Carries(V, "ShutdownCancelled")
      /\ Carries(U, "Interact") => Carries(V, "Interact")
      /\ HasSave(V) <=> HasSave(U)
      /\ AllowsInteract(V) => AllowsInteract(U)
  BY <1>1, <1>2, <1>3, ToClientAdded
<1>6. Ordered(U)
  BY <1>4 DEF Core, OneOwed
<1>7. CancelFollows(V) /\ OneSave(V) /\ (SaveFirst(U) => SaveFirst(V))
  BY <1>1, <1>2, <1>3, <1>6, FollowsAdded
<1>8. Saving(c) => ~HasSave(V)
  BY <1>4, <1>5 DEF Core, OneOwed
<1>9. HasSave(V) \/ Saving(c) \/ c.state = "waits2" => ~Has(Q, Done)
  BY <1>4, <1>5 DEF Core, OneOwed, Answered
<1>10. c.state = "waits2" => SaveFirst(V)
  <2> SUFFICES ASSUME c.state = "waits2" PROVE SaveFirst(U)
    BY <1>7
  <2>1. ~Carries(U, "ShutdownCancelled")
    BY <1>4 DEF Core, OneOwed
  <2>2. Carries(U, "SaveYourselfPhase2") => ~HasSave(U)
    BY <1>4 DEF Core, InPhase2, CurrentIsOwed, Saving
  <2> QED
    BY <2>1, <2>2 DEF SaveFirst, Carries, HasSave
<1>11. /\ AllowsInteract(V) => r.may_interact
       /\ (Saving(c) \/ c.state = "waits2") /\ c.may_interact /\ ~HasSave(V) => r.may_interact
       /\ c.state = "waits" =>
            (r.may_interact /\ Has(Q, "InteractRequest")) \/ Carries(V, "Interact")
  BY <1>1, <1>4, <1>5 DEF Core, Expects
<1> QED
  BY <1>1, <1>5, <1>7, <1>8, <1>9, <1>10, <1>11 DEF Crossed, V

\* A client that is not busy owes nothing.
LEMMA IdleCore ==
  ASSUME NEW s, NEW U, NEW Q, NEW c, ~HasSave(U), Q = <<>>, c.state \in {"idle", "frozen"},
         s.current_save_yourself = None, ~s.last
  PROVE  Core(s, U, Q, c)
<1>1. Ordered(U) /\ ~AllowsInteract(U)
  BY DEF Ordered, AllowsInteract, HasSave
<1>2. ~Has(Q, Done) /\ ~Has(Q, Phase2) /\ ~Answered(Q) /\ OnceAnswered(Q)
  BY DEF Has, Answered, OnceAnswered
<1>3. ~Saving(c) /\ c.state \notin {"waits", "waits2"}
  BY DEF Saving
<1>4. OneOwed(U, Q, c)
  BY <1>1, <1>2, <1>3 DEF OneOwed
<1>5. InPhase2(s, U, Q, c)
  BY DEF InPhase2
<1>6. CurrentIsOwed(s, U, Q, c)
  BY <1>2, <1>3 DEF CurrentIsOwed
<1>7. Expects(s, U, Q, c)
  BY <1>1, <1>2, <1>3 DEF Expects, Owed
<1> QED
  BY <1>4, <1>5, <1>6, <1>7 DEF Core

\* Asked to save, when the manager counts on nothing: the request goes out, and all
\* is as it should be, provided that the client is not busy.
LEMMA AskedAfresh ==
  ASSUME NEW T \in Seq(ToClient), NEW s, Sound(T, s), s.phase \notin Ending, ~s.last,
         s.current_save_yourself = None, s.next_save_yourself = None,
         NEW type \in SaveTypes, NEW allow \in BOOLEAN,
         NEW r, r = DoSaveYourself(s, type, allow)
  PROVE  /\ HasSave(r.out)
         /\ \A Q, c : ~HasSave(Line(T, s)) /\ Q = <<>> /\ c.state \in {"idle", "frozen"} =>
              Good(r, T, Q, c)
<1>1. s \in Pending /\ type \in SaveTypes \cup {None} /\ type # None
  BY DEF Sound, SaveTypes, SmSaveGlobal, SmSaveLocal, SmSaveBoth, None
<1>2. Saves(s, type, r)
  BY <1>1, DoSaveYourselfDoes
<1>3. /\ r.phase = s.phase /\ r.next_save_yourself = None /\ r.may_interact \in BOOLEAN
      /\ r.out = Append(s.out, SaveMessage(type, r.may_interact))
  BY <1>2 DEF Saves
<1>4. HasSave(r.out)
  <2> DEFINE m == SaveMessage(type, r.may_interact)
             o == s.out
             u == r.out
  <2>1. m \in ToClient /\ IsSave(m) /\ o \in Seq(ToClient) /\ u = Append(o, m)
    BY <1>1, <1>3, Messages DEF IsSave, Pending
  <2> HIDE DEF m, o, u
  <2>2. HasSave(u)
    BY <2>1, ToClientAdded
  <2> QED
    BY <2>2 DEF u
<1>5. ASSUME NEW Q, NEW c, ~HasSave(Line(T, s)), Q = <<>>, c.state \in {"idle", "frozen"}
      PROVE  Good(r, T, Q, c)
  <2>1. Core(s, Line(T, s), Q, c)
    BY <1>5, IdleCore
  <2>2. Free(s, Line(T, s), Q, c)
    BY <2>1, FreeBefore
  <2>3. Core(r, Line(T, r), Q, c)
    BY <1>1, <2>1, <2>2, DoSaveYourselfCore
  <2>4. HasSave(Line(T, r))
    BY <1>1, <1>2, SavesLine
  <2>5. Waiting(r, Line(T, r), Q, c)
    BY <1>3, <2>4 DEF Waiting, Owed
  <2> QED
    BY <2>3, <2>5 DEF Good
<1> QED
  BY <1>4, <1>5

\* A message that is not a save follows, and the client's message has been taken.
LEMMA CrossedSaid ==
  ASSUME NEW s, NEW U \in Seq(ToClient), NEW Q \in Seq(ToServer), Q # <<>>, NEW c,
         Crossed(s, U, Q, c),
         NEW P, P = Tail(Q),
         NEW r, r.phase = "RUNNING", ~r.last,
         r.current_save_yourself = None, r.next_save_yourself = None,
         Head(Q) # Done => (s.may_interact => r.may_interact),
         NEW V, V = U \/ \E m \in ToClient : ~IsSave(m) /\ V = Append(U, m),
         Head(Q) = "InteractRequest" /\ c.state = "waits" => Carries(V, "Interact")
  PROVE  Crossed(r, V, P, c)
<1> DEFINE h == Head(Q)
<1>0. h = Head(Q)
  OBVIOUS
<1> HIDE DEF h
<1>1. \A x : Has(Q, x) <=> Has(P, x) \/ Head(Q) = x
  <2>1. \A x : Has(Q, x) <=> Has(P, x) \/ h = x
    BY <1>0, ToServerTaken
  <2> QED
    BY <1>0, <2>1
<1>2. /\ \A t : Carries(U, t) => Carries(V, t)
      /\ HasSave(V) <=> HasSave(U)
      /\ AllowsInteract(V) => AllowsInteract(U)
      /\ CancelFollows(V) /\ OneSave(V) /\ (SaveFirst(U) => SaveFirst(V))
  <2>1. CancelFollows(U) /\ OneSave(U)
    BY DEF Crossed
  <2>2. CASE V = U
    BY <2>1, <2>2
  <2>3. CASE \E m \in ToClient : ~IsSave(m) /\ V = Append(U, m)
    <3>1. PICK m \in ToClient : ~IsSave(m) /\ V = Append(U, m)
      BY <2>3
    <3>2. /\ \A t : Carries(V, t) <=> Carries(U, t) \/ m.type = t
          /\ HasSave(V) <=> HasSave(U) \/ IsSave(m)
          /\ AllowsInteract(V) <=> AllowsInteract(U) \/ (IsSave(m) /\ m.interact)
      BY <3>1, ToClientAdded
    <3>3. CancelFollows(V) /\ OneSave(V) /\ (SaveFirst(U) => SaveFirst(V))
      BY <2>1, <3>1, FollowsAdded
    <3> QED
      BY <3>1, <3>2, <3>3
  <2> QED
    BY <2>2, <2>3
<1>3. CASE Head(Q) = Done
  <2>1. ~HasSave(V) /\ ~Saving(c) /\ c.state \notin {"waits2", "waits"}
    BY <1>1, <1>2, <1>3 DEF Crossed, Saving
  <2>2. ~AllowsInteract(V)
    BY <2>1 DEF AllowsInteract, HasSave
  <2> QED
    BY <1>2, <2>1, <2>2 DEF Crossed
<1>4. CASE Head(Q) # Done
  <2>1. /\ AllowsInteract(V) => r.may_interact
        /\ (Saving(c) \/ c.state = "waits2") /\ c.may_interact /\ ~HasSave(V) => r.may_interact
    BY <1>2, <1>4 DEF Crossed
  <2>2. c.state = "waits" =>
          (r.may_interact /\ Has(P, "InteractRequest")) \/ Carries(V, "Interact")
    BY <1>1, <1>2, <1>4 DEF Crossed
  <2>3. HasSave(V) \/ Saving(c) \/ c.state = "waits2" => ~Has(P, Done)
    BY <1>1, <1>2 DEF Crossed
  <2> QED
    BY <1>2, <2>1, <2>2, <2>3 DEF Crossed
<1> QED
  BY <1>3, <1>4

-----------------------------------------------------------------------------
(* The client's end.                                                        *)

\* A message that leaves the client's state as it is, or releases it.
LEMMA HeardCore ==
  ASSUME NEW T \in Seq(ToClient), T # <<>>, NEW m, m = Head(T), NEW V, V = Tail(T),
         NEW s, NEW Q, NEW c, Core(s, T, Q, c), Waiting(s, T, Q, c), ~IsSave(m),
         NEW d, d.phase2 = c.phase2, d.may_interact = c.may_interact,
         \/ /\ d.state = c.state
            /\ c.state = "waits" => m.type # "Interact"
            /\ c.state = "frozen" => m.type \notin {"SaveComplete", "ShutdownCancelled"}
         \/ c.state = "waits" /\ d.state = "interacting"
         \/ c.state = "frozen" /\ d.state = "idle"
  PROVE  Core(s, V, Q, d) /\ Waiting(s, V, Q, d)
<1>1. /\ \A type : Carries(T, type) <=> Carries(V, type) \/ m.type = type
      /\ HasSave(T) <=> HasSave(V)
      /\ AllowsInteract(T) <=> AllowsInteract(V)
      /\ Ordered(T) => Ordered(V)
  BY ToClientTaken
<1>2. Saving(d) <=> Saving(c)
  BY DEF Saving
<1>3. /\ d.state = "waits2" <=> c.state = "waits2"
      /\ d.state \in {"idle", "frozen"} <=> c.state \in {"idle", "frozen"}
      /\ d.state = "waits" => c.state = "waits" /\ m.type # "Interact"
      /\ d.state = "frozen" =>
           c.state = "frozen" /\ m.type \notin {"SaveComplete", "ShutdownCancelled"}
  OBVIOUS
<1>4. Owed(V, Q, d) <=> Owed(T, Q, c)
  BY <1>1, <1>2 DEF Owed
<1>5. OneOwed(V, Q, d)
  BY <1>1, <1>2, <1>3 DEF Core, OneOwed
<1>6. InPhase2(s, V, Q, d)
  BY <1>1, <1>2, <1>3 DEF Core, InPhase2
<1>7. CurrentIsOwed(s, V, Q, d)
  BY <1>1, <1>2, <1>3, <1>4 DEF Core, CurrentIsOwed
<1>8. Expects(s, V, Q, d)
  BY <1>1, <1>2, <1>3, <1>4 DEF Core, Expects
<1>9. Waiting(s, V, Q, d)
  BY <1>1, <1>3, <1>4 DEF Waiting
<1> QED
  BY <1>5, <1>6, <1>7, <1>8, <1>9 DEF Core

LEMMA ReceivedCore ==
  ASSUME NEW T \in Seq(ToClient), T # <<>>, NEW m, m = Head(T), NEW V, V = Tail(T),
         NEW s, NEW Q, NEW c \in Client, Core(s, T, Q, c), Waiting(s, T, Q, c),
         NEW d, d = Received(c, m), d.state # "gone"
  PROVE  Core(s, V, Q, d) /\ Waiting(s, V, Q, d)
<1>1. /\ m \in ToClient
      /\ \A type : Carries(T, type) <=> Carries(V, type) \/ m.type = type
      /\ HasSave(T) <=> HasSave(V) \/ IsSave(m)
      /\ AllowsInteract(T) <=> AllowsInteract(V) \/ (IsSave(m) /\ m.interact)
      /\ Ordered(T) => Ordered(V)
      /\ Ordered(T) /\ IsSave(m) =>
           /\ ~HasSave(V) /\ ~Carries(V, "ShutdownCancelled")
           /\ ~Carries(V, "SaveYourselfPhase2")
  BY ToClientTaken
<1>2. Ordered(T) /\ (Carries(T, "ShutdownCancelled") => c.state \in {"idle", "frozen"})
  BY DEF Core, OneOwed
<1>3. CASE IsSave(m)
  <2>1. d = [state |-> "saving", may_interact |-> m.interact, phase2 |-> FALSE,
             cancelled |-> FALSE]
    BY <1>3 DEF Received, IsSave
  <2>2. d.state = "saving" /\ d.may_interact = m.interact
    BY <2>1
  <2>3. Saving(d) /\ d.state \notin {"waits", "waits2", "frozen"}
    BY <2>2 DEF Saving
  <2>4. /\ HasSave(T) /\ ~HasSave(V) /\ ~Carries(V, "ShutdownCancelled")
        /\ ~Carries(V, "SaveYourselfPhase2") /\ Ordered(V)
    BY <1>1, <1>2, <1>3
  <2>5. ~Answered(Q) /\ OnceAnswered(Q) /\ ~Has(Q, Phase2)
    BY <2>4 DEF Core, OneOwed, Answered
  <2>6. s.current_save_yourself # None
    BY <2>4 DEF Core, CurrentIsOwed
  <2>7. ~s.last
    BY <2>6 DEF Core, InPhase2
  <2>8. s.saving /\ (m.interact => s.may_interact)
    BY <1>1, <1>3, <2>4 DEF Core, Expects, Owed
  <2>9. ~AllowsInteract(V)
    BY <2>4 DEF AllowsInteract, HasSave
  <2>10. Owed(V, Q, d)
    BY <2>3 DEF Owed
  <2>11. OneOwed(V, Q, d)
    BY <2>3, <2>4, <2>5 DEF OneOwed
  <2>12. InPhase2(s, V, Q, d)
    BY <2>4, <2>7 DEF InPhase2
  <2>13. CurrentIsOwed(s, V, Q, d)
    BY <2>6, <2>10 DEF CurrentIsOwed
  <2>14. Expects(s, V, Q, d)
    BY <2>2, <2>3, <2>8, <2>9 DEF Expects
  <2>15. Waiting(s, V, Q, d)
    BY <2>3, <2>10 DEF Waiting
  <2> QED
    BY <2>11, <2>12, <2>13, <2>14, <2>15 DEF Core
<1>4. CASE m.type = "SaveYourselfPhase2" /\ c.state = "waits2"
  <2>1. d = [c EXCEPT !.state = "saving", !.phase2 = TRUE]
    BY <1>4 DEF Received
  <2>2. d.state = "saving" /\ d.phase2 /\ d.may_interact = c.may_interact
    BY <2>1 DEF Client
  <2>3. Saving(d) /\ ~Saving(c) /\ d.state \notin {"waits", "waits2", "frozen"}
    BY <1>4, <2>2 DEF Saving
  <2>4. /\ Carries(T, "SaveYourselfPhase2") /\ ~Carries(T, "ShutdownCancelled")
        /\ ~Carries(V, "ShutdownCancelled") /\ Ordered(V)
    BY <1>1, <1>2, <1>4
  <2>5. s.current_save_yourself = None /\ s.phase \in Ending /\ ~s.last
    BY <1>4, <2>3, <2>4 DEF Core, InPhase2
  <2>6. Q = <<>> /\ ~HasSave(T) /\ ~HasSave(V)
    BY <1>1, <1>4, <2>5 DEF Core, CurrentIsOwed
  <2>7. ~Answered(Q) /\ ~Has(Q, Phase2) /\ ~Has(Q, Done) /\ ~Has(Q, Request)
        /\ OnceAnswered(Q)
    BY <2>6 DEF Answered, Has, OnceAnswered
  <2>8. s.saving /\ (c.may_interact => s.may_interact)
    BY <1>4, <2>6 DEF Core, Expects
  <2>9. ~AllowsInteract(V)
    BY <2>6 DEF AllowsInteract, HasSave
  <2>10. OneOwed(V, Q, d)
    BY <2>3, <2>4, <2>6, <2>7 DEF OneOwed
  <2>11. InPhase2(s, V, Q, d)
    BY <2>2, <2>3, <2>5 DEF InPhase2
  <2>12. CurrentIsOwed(s, V, Q, d)
    BY <2>2, <2>3, <2>5, <2>6, <2>7 DEF CurrentIsOwed
  <2>13. Expects(s, V, Q, d)
    BY <2>2, <2>3, <2>8, <2>9 DEF Expects
  <2>14. Waiting(s, V, Q, d)
    BY <2>3, <2>5 DEF Waiting, Ending
  <2> QED
    BY <2>10, <2>11, <2>12, <2>13, <2>14 DEF Core
<1>5. CASE m.type = "Interact" /\ c.state = "waits"
  <2>1. d = [c EXCEPT !.state = "interacting"] /\ ~IsSave(m)
    BY <1>5 DEF Received, IsSave
  <2>2. d.state = "interacting" /\ d.phase2 = c.phase2 /\ d.may_interact = c.may_interact
    BY <2>1 DEF Client
  <2> QED
    BY <1>5, <2>1, <2>2, HeardCore
<1>6. CASE m.type \in {"SaveComplete", "ShutdownCancelled"} /\ c.state = "frozen"
  <2>1. d = [c EXCEPT !.state = "idle"] /\ ~IsSave(m)
    BY <1>6 DEF Received, IsSave
  <2>2. d.state = "idle" /\ d.phase2 = c.phase2 /\ d.may_interact = c.may_interact
    BY <2>1 DEF Client
  <2> QED
    BY <1>6, <2>1, <2>2, HeardCore
<1>7. CASE m.type = "ShutdownCancelled" /\ c.state # "frozen"
  <2>1. Carries(T, "ShutdownCancelled")
    BY <1>1, <1>7
  <2>2. c.state = "idle"
    BY <1>2, <1>7, <2>1
  <2>3. d = [c EXCEPT !.cancelled = TRUE] /\ ~IsSave(m)
    BY <1>7, <2>2 DEF Received, IsSave
  <2>4. d.state = c.state /\ d.phase2 = c.phase2 /\ d.may_interact = c.may_interact
    BY <2>3 DEF Client
  <2> QED
    BY <2>2, <2>3, <2>4, HeardCore
<1>8. CASE m.type = "Die"
  <2>1. d = [c EXCEPT !.state = "gone"]
    BY <1>8 DEF Received
  <2> QED
    BY <2>1 DEF Client
<1>9. CASE /\ ~IsSave(m) /\ m.type \notin {"ShutdownCancelled", "Die"}
           /\ c.state = "waits2" => m.type # "SaveYourselfPhase2"
           /\ c.state = "waits" => m.type # "Interact"
           /\ c.state = "frozen" => m.type # "SaveComplete"
  <2>1. d = c
    BY <1>9 DEF Received, IsSave
  <2> QED
    BY <1>9, <2>1, HeardCore
<1> QED
  BY <1>3, <1>4, <1>5, <1>6, <1>7, <1>8, <1>9

\* What the client does of its own: it answers, it asks, or it says that it is done
\* with an interaction.
ClientSays(m, c, d) ==
  \/ /\ m = Done /\ c.state = "saving" /\ d.state \in {"idle", "frozen"}
     /\ d.state = "frozen" => ~c.cancelled
  \/ /\ m \in {"InteractDone", "InteractDoneCancel"}
     /\ c.state = "interacting" /\ d.state = "saving"
     /\ d.may_interact = c.may_interact /\ d.phase2 = c.phase2 /\ d.cancelled = c.cancelled
  \/ /\ m = "InteractRequest" /\ c.may_interact
     /\ c.state = "saving" /\ d.state = "waits" /\ d.may_interact = FALSE
     /\ d.phase2 = c.phase2 /\ d.cancelled = c.cancelled
  \/ /\ m = Phase2 /\ ~c.phase2 /\ ~c.cancelled
     /\ c.state = "saving" /\ d.state = "waits2" /\ d.may_interact = c.may_interact
  \/ m = Request /\ c.state = "idle" /\ d = c

LEMMA SaidCore ==
  ASSUME NEW T, NEW s, NEW Q \in Seq(ToServer), NEW c, Core(s, T, Q, c), Waiting(s, T, Q, c),
         NEW m \in ToServer, NEW d, ClientSays(m, c, d), NEW P, P = Append(Q, m)
  PROVE  Core(s, T, P, d) /\ Waiting(s, T, P, d)
<1>1. /\ \A x : Has(P, x) <=> Has(Q, x) \/ m = x
      /\ OnceAnswered(Q) /\ (~Answered(Q) \/ m \notin {Done, Phase2}) => OnceAnswered(P)
      /\ ~Has(Q, Phase2) => Phase2Last(P)
      /\ DoneFirst(Q) /\ (m # Done \/ ~Has(Q, Request)) => DoneFirst(P)
  BY ToServerAdded
<1>2. Saving(c) => ~HasSave(T) /\ ~Answered(Q) /\ ~Carries(T, "ShutdownCancelled")
  BY DEF Core, OneOwed, Saving
<1>3. OnceAnswered(Q) /\ Ordered(T)
  BY DEF Core, OneOwed
<1>4. CASE m = Done /\ c.state = "saving" /\ d.state \in {"idle", "frozen"}
  <2>1. Saving(c) /\ ~Saving(d) /\ d.state \notin {"waits", "waits2"}
    BY <1>4 DEF Saving
  <2>2. Has(P, Done) /\ Answered(P) /\ ~Has(P, Phase2) /\ OnceAnswered(P)
    BY <1>1, <1>2, <1>3, <1>4, <2>1 DEF Answered, Done, Phase2
  <2>3. OneOwed(T, P, d)
    BY <1>2, <1>3, <1>4, <2>1, <2>2 DEF OneOwed
  <2>4. InPhase2(s, T, P, d)
    BY <1>4 DEF Core, InPhase2
  <2>5. s.current_save_yourself = None => s.phase \in Ending /\ ~Has(Q, Request)
    BY <2>1 DEF Core, CurrentIsOwed
  <2>6. s.current_save_yourself = None => DoneFirst(P)
    BY <1>1, <2>5 DEF Core, CurrentIsOwed, DoneFirst, Has
  <2>7. CurrentIsOwed(s, T, P, d)
    BY <1>2, <2>1, <2>2, <2>5, <2>6 DEF CurrentIsOwed, Owed
  <2>8. Expects(s, T, P, d)
    BY <2>1 DEF Core, Expects, Owed
  <2>9. Waiting(s, T, P, d)
    BY <2>2 DEF Waiting, Owed
  <2> QED
    BY <2>3, <2>4, <2>7, <2>8, <2>9 DEF Core
<1>5. CASE /\ m \in {"InteractDone", "InteractDoneCancel", "InteractRequest"}
           /\ c.state \in {"saving", "interacting"} /\ d.state \in {"saving", "waits"}
           /\ d.phase2 = c.phase2 /\ (d.may_interact => c.may_interact)
           /\ d.state = "waits" => m = "InteractRequest" /\ c.may_interact
  <2>1. Saving(c) /\ Saving(d) /\ c.state # "waits2" /\ d.state \notin {"waits2", "frozen"}
    BY <1>5 DEF Saving
  <2>2. m \notin {Done, Phase2, Request}
    BY <1>5 DEF Done, Phase2, Request
  <2>3. /\ Has(P, Done) <=> Has(Q, Done)
        /\ Has(P, Phase2) <=> Has(Q, Phase2)
        /\ Has(P, Request) <=> Has(Q, Request)
    BY <1>1, <2>2
  <2>4. ~Answered(P) /\ ~Has(P, Phase2) /\ OnceAnswered(P)
    BY <1>1, <1>2, <1>3, <2>1, <2>2, <2>3 DEF Answered
  <2>5. OneOwed(T, P, d)
    BY <1>2, <1>3, <2>1, <2>4 DEF OneOwed
  <2>6. InPhase2(s, T, P, d)
    BY <1>5, <2>1 DEF Core, InPhase2
  <2>7. CurrentIsOwed(s, T, P, d)
    BY <1>5, <2>1, <2>3, <2>4 DEF Core, CurrentIsOwed, Owed, Answered
  <2>8. d.state = "waits" => s.may_interact /\ Has(P, "InteractRequest")
    BY <1>1, <1>2, <1>5, <2>1 DEF Core, Expects
  <2>9. Expects(s, T, P, d)
    BY <1>5, <2>1, <2>8 DEF Core, Expects, Owed
  <2>10. Waiting(s, T, P, d)
    BY <2>1 DEF Waiting, Owed
  <2> QED
    BY <2>5, <2>6, <2>7, <2>9, <2>10 DEF Core
<1>6. CASE /\ m = Phase2 /\ ~c.phase2
           /\ c.state = "saving" /\ d.state = "waits2" /\ d.may_interact = c.may_interact
  <2>1. Saving(c) /\ ~Saving(d)
    BY <1>6 DEF Saving
  <2>2. Has(P, Phase2) /\ ~Has(P, Done) /\ OnceAnswered(P) /\ Phase2Last(P)
    BY <1>1, <1>2, <1>3, <1>6, <2>1 DEF Answered, Done, Phase2
  <2>3. s.current_save_yourself # None
    BY <1>6, <2>1 DEF Core, CurrentIsOwed
  <2>4. ~Carries(T, "SaveYourselfPhase2") /\ ~s.last
    BY <1>6 DEF Core, InPhase2, Saving
  <2>5. OneOwed(T, P, d)
    BY <1>2, <1>3, <1>6, <2>1, <2>2 DEF OneOwed
  <2>6. InPhase2(s, T, P, d)
    BY <2>4 DEF InPhase2
  <2>7. Owed(T, P, d)
    BY <2>2 DEF Owed, Answered
  <2>8. CurrentIsOwed(s, T, P, d)
    BY <2>3, <2>7 DEF CurrentIsOwed
  <2>9. Expects(s, T, P, d)
    BY <1>6, <2>1 DEF Core, Expects, Owed
  <2>10. Waiting(s, T, P, d)
    BY <1>6, <2>7 DEF Waiting
  <2> QED
    BY <2>5, <2>6, <2>8, <2>9, <2>10 DEF Core
<1>7. CASE m = Request /\ c.state = "idle" /\ d = c
  <2>1. /\ Has(P, Done) <=> Has(Q, Done)
        /\ Has(P, Phase2) <=> Has(Q, Phase2)
        /\ m \notin {Done, Phase2}
    BY <1>1, <1>7 DEF Done, Phase2, Request
  <2>2. Answered(P) <=> Answered(Q)
    BY <2>1 DEF Answered
  <2>3. ~Saving(c) /\ c.state \notin {"waits", "waits2", "frozen"} /\ OnceAnswered(P)
    BY <1>1, <1>3, <1>7, <2>1 DEF Saving
  <2>4. OneOwed(T, P, d)
    BY <1>7, <2>1, <2>2, <2>3 DEF Core, OneOwed
  <2>5. InPhase2(s, T, P, d)
    BY <1>7 DEF Core, InPhase2
  <2>6. CurrentIsOwed(s, T, P, d)
    BY <1>1, <1>7, <2>1, <2>2, <2>3 DEF Core, CurrentIsOwed, Owed
  <2>7. Expects(s, T, P, d)
    BY <1>7, <2>2, <2>3 DEF Core, Expects, Owed
  <2>8. Waiting(s, T, P, d)
    BY <1>7, <2>1, <2>2, <2>3 DEF Waiting, Owed
  <2> QED
    BY <2>4, <2>5, <2>6, <2>7, <2>8 DEF Core
<1> QED
  BY <1>4, <1>5, <1>6, <1>7 DEF ClientSays

\* Any message, when a cancelling has overtaken what is owed.
LEMMA DispatchedCrossed ==
  ASSUME NEW T \in Seq(ToClient), NEW s, Sound(T, s), s.out = <<>>,
         NEW Q \in Seq(ToServer), Q # <<>>, NEW P, P = Tail(Q), NEW c, Crossed(s, T, Q, c),
         NEW r \in Dispatched(s, Head(Q))
  PROVE  \/ Crossed(r, Line(T, r), P, c) /\ ~HasSave(r.out)
         \/ r = DoSaveYourself(s, SmSaveLocal, TRUE)
<1> DEFINE h == Head(Q)
<1>1. h \in ToServer /\ h = Head(Q)
  BY ToServerTaken
<1>2. s \in Pending /\ s.conn /\ TRUE \in BOOLEAN /\ FALSE \in BOOLEAN
  BY DEF Sound
<1>3. /\ s.phase = "RUNNING" /\ ~s.last
      /\ s.current_save_yourself = None /\ s.next_save_yourself = None
  BY DEF Crossed
<1>4. Line(T, s) = T
  BY ConcatEmptySeq DEF Line
<1>5. \A q \in Pending : q.phase = "RUNNING" =>
        \A is_ok, do_last, cancel \in BOOLEAN :
          EndSessionResponse(q, is_ok, do_last, cancel) = {q}
  BY DEF EndSessionResponse
<1>6. ASSUME NEW q, q.out = <<>> PROVE Line(T, q) = T /\ ~HasSave(q.out)
  BY <1>6, ConcatEmptySeq DEF Line, HasSave
<1> HIDE DEF h
<1>7. CASE h = "SaveYourselfRequest"
  BY <1>1, <1>7 DEF Dispatched, SaveYourselfRequest
<1>8. ASSUME r = s, h = "InteractRequest" => ~s.may_interact
      PROVE  Crossed(r, Line(T, r), P, c) /\ ~HasSave(r.out)
  <2>1. h = "InteractRequest" /\ c.state = "waits" => Carries(T, "Interact")
    BY <1>8 DEF Crossed
  <2>2. Crossed(r, T, P, c)
    BY <1>1, <1>3, <1>8, <2>1, CrossedSaid
  <2> QED
    BY <1>4, <1>6, <1>8, <2>2
<1>9. CASE h = "SaveYourselfPhase2Request"
  <2> DEFINE q == [s EXCEPT !.current_save_yourself = None]
  <2>1. q = s
    BY <1>2, <1>3 DEF Pending
  <2>2. r = s \/ r \in EndSessionResponse(q, TRUE, TRUE, FALSE)
    BY <1>1, <1>9 DEF Dispatched, SaveYourselfPhase2Request
  <2> HIDE DEF q
  <2>3. EndSessionResponse(s, TRUE, TRUE, FALSE) = {s}
    BY <1>2, <1>3, <1>5
  <2>4. r = s
    BY <2>1, <2>2, <2>3
  <2> QED
    BY <1>8, <1>9, <2>4
<1>10. CASE h = "InteractRequest" /\ s.may_interact
  <2> DEFINE m == Message("Interact")
  <2>1. r = Send([s EXCEPT !.interacting = TRUE], m)
    BY <1>1, <1>2, <1>3, <1>5, <1>10 DEF Dispatched, InteractRequest
  <2>2. /\ r.phase = s.phase /\ r.last = s.last /\ r.may_interact = s.may_interact
        /\ r.current_save_yourself = s.current_save_yourself
        /\ r.next_save_yourself = s.next_save_yourself
        /\ r.out = Append(s.out, m)
    BY <1>2, <2>1 DEF Send, Pending
  <2>3. m \in ToClient /\ m.type = "Interact" /\ ~IsSave(m)
    BY Messages DEF IsSave
  <2> HIDE DEF m
  <2>4. Line(T, r) = Append(T, m)
    <3>1. Line(T, r) = Append(Line(T, s), m)
      BY <1>2, <2>2, <2>3, Sends, Zenon
    <3> QED
      BY <1>4, <3>1
  <2>5. Carries(Line(T, r), "Interact")
    BY <2>3, <2>4, ToClientAdded
  <2>6. Crossed(r, Line(T, r), P, c)
    BY <1>1, <1>3, <2>2, <2>3, <2>4, <2>5, CrossedSaid
  <2>7. ~HasSave(<<>>)
    BY DEF HasSave
  <2>8. ~HasSave(r.out)
    <3> DEFINE u == r.out
               o == s.out
    <3>1. o \in Seq(ToClient) /\ u = Append(o, m) /\ ~HasSave(o)
      BY <1>2, <2>2, <2>7 DEF Pending
    <3> HIDE DEF u, o
    <3>2. ~HasSave(u)
      BY <2>3, <3>1, ToClientAdded
    <3> QED
      BY <3>2 DEF u
  <2> QED
    BY <2>6, <2>8
<1>11. CASE h = "InteractRequest" /\ ~s.may_interact
  <2>1. r = s
    BY <1>1, <1>11 DEF Dispatched, InteractRequest
  <2> QED
    BY <1>8, <1>11, <2>1
<1>12. CASE h \in {"InteractDone", "InteractDoneCancel"}
  <2> DEFINE q == [s EXCEPT !.interacting = FALSE]
  <2>1. /\ q \in Pending /\ q.out = <<>> /\ q.phase = s.phase /\ q.last = s.last
        /\ q.may_interact = s.may_interact
        /\ q.current_save_yourself = s.current_save_yourself
        /\ q.next_save_yourself = s.next_save_yourself
    BY <1>2 DEF Pending
  <2>2. r = s \/ r = q
    BY <1>1, <1>2, <1>3, <1>5, <1>12, <2>1 DEF Dispatched, InteractDone
  <2> HIDE DEF q
  <2>3. Crossed(q, T, P, c)
    BY <1>1, <1>3, <1>12, <2>1, CrossedSaid
  <2> QED
    BY <1>6, <1>8, <1>12, <2>1, <2>2, <2>3
<1>13. CASE h = "SaveYourselfDone"
  <2>1. r \in SaveYourselfDone(s)
    BY <1>1, <1>13 DEF Dispatched
  <2>2. CASE r = s
    BY <1>8, <1>13, <2>2
  <2>3. CASE \E q : /\ Completed(s, q)
                    /\ \E p \in EndSessionResponse(q, TRUE, FALSE, FALSE) :
                         p \in Pending => Queued(p, r)
    <3>1. PICK q : /\ Completed(s, q)
                   /\ \E p \in EndSessionResponse(q, TRUE, FALSE, FALSE) :
                        p \in Pending => Queued(p, r)
      BY <2>3
    <3>2. /\ q \in Pending /\ q.phase = "RUNNING" /\ q.next_save_yourself = None
          /\ q.current_save_yourself = None /\ q.out = <<>> /\ q.last = s.last
      BY <1>3, <3>1 DEF Completed
    <3>3. Queued(q, r)
      <4>1. EndSessionResponse(q, TRUE, FALSE, FALSE) = {q}
        BY <1>2, <1>5, <3>2
      <4> QED
        BY <3>1, <3>2, <4>1
    <3>4. PICK p \in Pending :
            /\ p = [q EXCEPT !.next_save_yourself = None, !.next_allow_interact = TRUE]
            /\ r = DoSaveYourself(p, None, q.next_allow_interact)
      BY <3>2, <3>3 DEF Queued, None, SmSaveGlobal
    <3>5. /\ p.phase = "RUNNING" /\ p.next_save_yourself = None
          /\ p.current_save_yourself = None /\ p.out = <<>> /\ p.last = s.last
          /\ q.next_allow_interact \in BOOLEAN
      BY <3>2, <3>4 DEF Pending
    <3>6. Saves(p, None, r)
      BY <3>4, <3>5, DoSaveYourselfDoes
    <3>7. /\ r.phase = "RUNNING" /\ r.last = s.last
          /\ r.next_save_yourself = None /\ r.current_save_yourself = None
          /\ r.may_interact \in BOOLEAN
          /\ r.out = Append(<<>>, SaveMessage(None, r.may_interact))
      BY <3>5, <3>6 DEF Saves
    <3> DEFINE m == SaveMessage(None, r.may_interact)
    <3>8. m \in ToClient /\ ~IsSave(m)
      BY <3>7, Messages DEF IsSave
    <3>9. r.out = Append(s.out, m)
      BY <3>7
    <3> HIDE DEF m
    <3>10. Line(T, r) = Append(T, m)
      <4>1. Line(T, r) = Append(Line(T, s), m)
        BY <1>2, <3>8, <3>9, Sends, Zenon
      <4> QED
        BY <1>4, <4>1
    <3>11. h = Done
      BY <1>13 DEF Done
    <3>12. Crossed(r, Line(T, r), P, c)
      BY <1>1, <1>3, <1>13, <3>7, <3>8, <3>10, <3>11, CrossedSaid
    <3>13. ~HasSave(r.out)
      <4> DEFINE u == r.out
                 o == s.out
      <4>1. o \in Seq(ToClient) /\ u = Append(o, m) /\ ~HasSave(o)
        BY <1>2, <3>9 DEF Pending, HasSave
      <4> HIDE DEF u, o
      <4>2. ~HasSave(u)
        BY <3>8, <4>1, ToClientAdded
      <4> QED
        BY <4>2 DEF u
    <3> QED
      BY <3>12, <3>13
  <2> QED
    BY <1>2, <2>1, <2>2, <2>3, SaveYourselfDoneDoes
<1> QED
  BY <1>1, <1>7, <1>9, <1>10, <1>11, <1>12, <1>13 DEF ToServer

\* The client reads a message.
LEMMA ReceivedCrossed ==
  ASSUME NEW T \in Seq(ToClient), T # <<>>, NEW m, m = Head(T), NEW V, V = Tail(T),
         NEW s, NEW Q, NEW c \in Client, Crossed(s, T, Q, c),
         NEW d, d = Received(c, m), d.state # "gone"
  PROVE  Crossed(s, V, Q, d)
<1>1. /\ m \in ToClient
      /\ \A type : Carries(T, type) <=> Carries(V, type) \/ m.type = type
      /\ HasSave(T) <=> HasSave(V) \/ IsSave(m)
      /\ AllowsInteract(T) <=> AllowsInteract(V) \/ (IsSave(m) /\ m.interact)
  BY ToClientTaken
<1>2. /\ CancelFollows(V) /\ OneSave(V)
      /\ IsSave(m) => ~HasSave(V) /\ Carries(V, "ShutdownCancelled")
      /\ SaveFirst(T) => SaveFirst(V)
      /\ SaveFirst(T) /\ m.type \in {"ShutdownCancelled", "SaveYourselfPhase2"} => ~HasSave(V)
  BY FollowsTaken DEF Crossed
<1>3. CASE IsSave(m)
  <2>1. d = [state |-> "saving", may_interact |-> m.interact, phase2 |-> FALSE,
             cancelled |-> FALSE]
    BY <1>3 DEF Received, IsSave
  <2>2. Saving(d) /\ d.state = "saving" /\ d.may_interact = m.interact
    BY <2>1 DEF Saving
  <2>3. ~HasSave(V) /\ Carries(V, "ShutdownCancelled") /\ ~Has(Q, Done)
    BY <1>1, <1>2, <1>3 DEF Crossed
  <2>4. (AllowsInteract(V) \/ d.may_interact) => s.may_interact
    BY <1>1, <1>3, <2>2 DEF Crossed
  <2> QED
    BY <1>2, <2>2, <2>3, <2>4 DEF Crossed
<1>4. CASE m.type = "SaveYourselfPhase2" /\ c.state = "waits2"
  <2>1. d = [c EXCEPT !.state = "saving", !.phase2 = TRUE]
    BY <1>4 DEF Received
  <2>2. d.state = "saving" /\ d.may_interact = c.may_interact /\ Saving(d)
    BY <2>1 DEF Client, Saving
  <2>3. ~HasSave(V) /\ ~HasSave(T)
    BY <1>1, <1>2, <1>4 DEF Crossed, IsSave
  <2>4. Carries(V, "ShutdownCancelled") /\ ~Has(Q, Done)
    BY <1>1, <1>4 DEF Crossed
  <2>5. ~AllowsInteract(V) /\ (d.may_interact => s.may_interact)
    BY <1>4, <2>2, <2>3 DEF Crossed, AllowsInteract, HasSave
  <2> QED
    BY <1>2, <2>2, <2>3, <2>4, <2>5 DEF Crossed
<1>5. CASE m.type = "Interact" /\ c.state = "waits"
  <2>1. d = [c EXCEPT !.state = "interacting"] /\ ~IsSave(m)
    BY <1>5 DEF Received, IsSave
  <2>2. /\ d.state = "interacting" /\ d.may_interact = c.may_interact
        /\ d.cancelled = c.cancelled /\ Saving(d) /\ Saving(c)
    BY <1>5, <2>1 DEF Client, Saving
  <2> QED
    BY <1>1, <1>2, <1>5, <2>1, <2>2 DEF Crossed
<1>6. CASE m.type \in {"SaveComplete", "ShutdownCancelled"} /\ c.state = "frozen"
  <2>1. d = [c EXCEPT !.state = "idle"] /\ ~IsSave(m)
    BY <1>6 DEF Received, IsSave
  <2>2. d.state = "idle" /\ ~Saving(d)
    BY <2>1 DEF Client, Saving
  <2> QED
    BY <1>1, <1>2, <1>6, <2>1, <2>2 DEF Crossed
<1>7. CASE m.type = "ShutdownCancelled" /\ c.state \in {"saving", "waits2"}
  <2>1. d = [c EXCEPT !.state = "saving", !.may_interact = FALSE, !.cancelled = TRUE]
    BY <1>7 DEF Received, IsSave
  <2>2. d.state = "saving" /\ d.may_interact = FALSE /\ d.cancelled /\ Saving(d)
    BY <2>1 DEF Client, Saving
  <2>3. ~HasSave(V) /\ ~Has(Q, Done)
    BY <1>1, <1>2, <1>7 DEF Crossed, Saving
  <2>4. ~AllowsInteract(V)
    BY <2>3 DEF AllowsInteract, HasSave
  <2> QED
    BY <1>2, <2>2, <2>3, <2>4 DEF Crossed
<1>8. CASE m.type = "ShutdownCancelled" /\ c.state \notin {"frozen", "saving", "waits2"}
  <2>1. d = [c EXCEPT !.cancelled = TRUE] /\ ~IsSave(m)
    BY <1>8 DEF Received, IsSave
  <2>2. /\ d.state = c.state /\ d.cancelled /\ d.may_interact = c.may_interact
        /\ Saving(d) <=> Saving(c)
    BY <2>1 DEF Client, Saving
  <2> QED
    BY <1>1, <1>2, <1>8, <2>1, <2>2 DEF Crossed
<1>9. CASE m.type = "Die"
  <2>1. d = [c EXCEPT !.state = "gone"]
    BY <1>9 DEF Received
  <2> QED
    BY <2>1 DEF Client
<1>10. CASE /\ ~IsSave(m) /\ m.type \notin {"ShutdownCancelled", "Die"}
            /\ c.state = "waits2" => m.type # "SaveYourselfPhase2"
            /\ c.state = "waits" => m.type # "Interact"
            /\ c.state = "frozen" => m.type # "SaveComplete"
  <2>1. d = c
    BY <1>10 DEF Received, IsSave
  <2> QED
    BY <1>1, <1>2, <1>10, <2>1 DEF Crossed
<1> QED
  BY <1>3, <1>4, <1>5, <1>6, <1>7, <1>8, <1>9, <1>10

\* The client says something.
LEMMA SaidCrossed ==
  ASSUME NEW T, NEW s, NEW Q \in Seq(ToServer), NEW c, Crossed(s, T, Q, c),
         NEW m \in ToServer, NEW d, ClientSays(m, c, d), NEW P, P = Append(Q, m)
  PROVE  Crossed(s, T, P, d)
<1>1. \A x : Has(P, x) <=> Has(Q, x) \/ m = x
  BY ToServerAdded
<1>2. CASE m = Done
  <2>1. Saving(c) /\ ~Saving(d) /\ d.state \notin {"waits", "waits2"}
        /\ (d.state = "frozen" => c.state = "saving" /\ ~c.cancelled)
    BY <1>2 DEF ClientSays, Saving, Done, Phase2, Request
  <2>2. ~HasSave(T) /\ (d.state = "frozen" => Carries(T, "ShutdownCancelled"))
    BY <2>1 DEF Crossed, Saving
  <2> QED
    BY <2>1, <2>2 DEF Crossed
<1>3. CASE m # Done
  <2>1. Has(P, Done) <=> Has(Q, Done)
    BY <1>1, <1>3
  <2>2. CASE d = c
    BY <1>1, <2>1, <2>2 DEF Crossed
  <2>3. CASE /\ c.state = "interacting" /\ d.state = "saving"
             /\ d.may_interact = c.may_interact /\ d.cancelled = c.cancelled
    BY <2>1, <2>3 DEF Crossed, Saving
  <2>4. CASE /\ m = "InteractRequest" /\ c.may_interact /\ c.state = "saving"
             /\ d.state = "waits" /\ d.may_interact = FALSE /\ d.cancelled = c.cancelled
    <3>1. s.may_interact /\ Has(P, "InteractRequest")
      BY <1>1, <2>4 DEF Crossed, Saving
    <3> QED
      BY <2>1, <2>4, <3>1 DEF Crossed, Saving
  <2>5. CASE /\ c.state = "saving" /\ ~c.cancelled
             /\ d.state = "waits2" /\ d.may_interact = c.may_interact
    <3>1. ~HasSave(T) /\ Carries(T, "ShutdownCancelled")
      BY <2>5 DEF Crossed, Saving
    <3>2. SaveFirst(T)
      BY <3>1 DEF SaveFirst, HasSave
    <3> QED
      BY <2>1, <2>5, <3>1, <3>2 DEF Crossed, Saving
  <2> QED
    BY <1>3, <2>2, <2>3, <2>4, <2>5 DEF ClientSays
<1> QED
  BY <1>2, <1>3

-----------------------------------------------------------------------------
(* The steps.                                                               *)

\* Between the callbacks nothing is pending.
LEMMA Settled ==
  ASSUME IInv, Connected
  PROVE  /\ toClient \in Seq(ToClient) /\ Sound(toClient, srv)
         /\ Line(toClient, srv) = toClient /\ srv.out = <<>> /\ Quiet(srv)
         /\ srv.phase # "EXIT" /\ client.state # "gone"
         /\ late = "nothing" => Good(srv, toClient, toServer, client)
         /\ late = "answer" => Crossed(srv, toClient, toServer, client)
<1>1. srv \in Pending /\ srv.out = <<>> /\ toClient \in Seq(ToClient)
  BY ServerIsPending DEF IInv, TypeOK
<1>2. Line(toClient, srv) = toClient
  BY <1>1, ConcatEmptySeq DEF Line
<1>3. srv.conn /\ srv.phase # "EXIT" /\ client.state # "gone"
  BY DEF IInv, GoneIsOut, Connected
<1>4. ~Carries(toClient, "Die")
  BY <1>3 DEF IInv, GoneIsOut
<1>5. Quiet(srv)
  BY <1>1 DEF Quiet, Carries
<1> QED
  BY <1>1, <1>2, <1>3, <1>4, <1>5 DEF IInv, Sound, Good

\* What the callback makes of late.
LEMMA OvertakesNothing ==
  ASSUME NEW r, NEW Q, ~Tells(r), late' = Overtaken(r.out, Q), late # "answer"
  PROVE  late' = late
BY DEF Overtaken, Tells

LEMMA OvertakenAgain ==
  ASSUME NEW r, NEW Q, ~Tells(r), late' = Overtaken(r.out, Q), late = "answer"
  PROVE  late' = "answer" <=> ~HasSave(r.out)
<1>1. HasSave(r.out) <=> \E m \in Range(r.out) : IsSave(m)
  BY DEF HasSave, Range
<1> QED
  BY <1>1 DEF Overtaken, Tells, IsSave

LEMMA NotOvertaken ==
  ASSUME NEW r, NEW Q, Tells(r) \/ late = "answer", late' = Overtaken(r.out, Q),
         late' = "nothing"
  PROVE  ~BusyWith(Q)
BY DEF Overtaken, Tells

LEMMA OvertakesAnswer ==
  ASSUME NEW r, NEW Q, Tells(r), late' = Overtaken(r.out, Q), late' = "answer"
  PROVE  late # "request"
BY DEF Overtaken, Tells

LEMMA NotBusy ==
  ASSUME NEW Q, ~BusyWith(Q)
  PROVE  Q = <<>> /\ client.state \in {"idle", "frozen"} /\ ~HasSave(toClient)
  BY DEF BusyWith, SavesUnderWay, HasSave, IsSave

\* Cancelled, when the client is not busy: all is as in the beginning.
LEMMA CancelClean ==
  ASSUME NEW T \in Seq(ToClient), NEW s, Sound(T, s), s.phase # "EXIT",
         NEW r, r = CancelEndSession(s),
         NEW Q, NEW c, ~HasSave(Line(T, s)), Q = <<>>, c.state \in {"idle", "frozen"}
  PROVE  Good(r, T, Q, c)
<1> DEFINE U == Line(T, s)
           V == Line(T, r)
           m == Message("ShutdownCancelled")
<1>1. /\ V = Append(U, m) /\ r.phase = "RUNNING" /\ ~r.last
      /\ r.current_save_yourself = None /\ r.next_save_yourself = None
  BY CancelSound
<1>2. m \in ToClient /\ m.type = "ShutdownCancelled" /\ ~IsSave(m)
  BY Messages DEF IsSave
<1>3. U \in Seq(ToClient) /\ ~HasSave(U)
  BY <1>2, Sends, CancelSound DEF Sound
<1> HIDE DEF U, V, m
<1>4. ~HasSave(V) /\ Carries(V, "ShutdownCancelled")
  BY <1>1, <1>2, <1>3, ToClientAdded
<1>5. Core(r, V, Q, c)
  BY <1>1, <1>4, IdleCore
<1>6. Waiting(r, V, Q, c)
  BY <1>1, <1>4 DEF Waiting
<1> QED
  BY <1>5, <1>6 DEF Good, V

\* The session manager's callback has run.
LEMMA HandledKeepsIInv ==
  ASSUME IInv, Connected, NEW r, NEW Q, Sound(toClient, r), Handled(r, Q), UNCHANGED client,
         Q \in Seq(ToServer) /\ Len(Q) <= MaxMessages,
         late' = "nothing" => Good(r, toClient, Q, client),
         late' = "answer" => Crossed(r, Line(toClient, r), Q, client)
  PROVE  IInv'
<1>1. /\ r \in Pending /\ r.conn
      /\ toClient' = Line(toClient, r) /\ Len(toClient') <= MaxMessages
      /\ srv' = [r EXCEPT !.out = <<>>] /\ toServer' = Q
  BY DEF Sound, Handled, Line
<1>2. toClient' \in Seq(ToClient)
  <2> DEFINE o == r.out
  <2>1. o \in Seq(ToClient) /\ toClient \in Seq(ToClient)
    BY <1>1 DEF Pending, IInv, TypeOK
  <2>2. toClient' = toClient \o o
    BY <1>1 DEF Line
  <2> HIDE DEF o
  <2> QED
    BY <2>1, <2>2, ConcatProperties
<1>3. srv' \in Pending /\ srv'.out = <<>>
  BY <1>1, EmptySeq DEF Pending
<1>4. /\ srv'.conn = r.conn /\ srv'.phase = r.phase /\ srv'.asked = r.asked
      /\ srv'.last = r.last /\ srv'.saving = r.saving
      /\ srv'.may_interact = r.may_interact
      /\ srv'.current_save_yourself = r.current_save_yourself
      /\ srv'.next_save_yourself = r.next_save_yourself
  BY <1>1 DEF Pending
<1>5. srv' \in Server
  BY <1>3, ServerIsPending
<1>6. late' \in {"nothing", "answer", "request"}
  <2>1. late' = Overtaken(r.out, Q) /\ late \in {"nothing", "answer", "request"}
    BY DEF Handled, IInv, TypeOK
  <2> QED
    BY <2>1 DEF Overtaken
<1>7. TypeOK'
  BY <1>1, <1>2, <1>5, <1>6 DEF IInv, TypeOK
<1>8. client.state # "gone"
  BY Settled
<1>9. GoneIsOut'
  BY <1>1, <1>4, <1>8 DEF GoneIsOut, Sound
<1> DEFINE s == srv'
           T == toClient'
           P == toServer'
           c == client'
<1>10. /\ s.phase = r.phase /\ s.asked = r.asked
       /\ s.last = r.last /\ s.saving = r.saving
       /\ s.may_interact = r.may_interact
       /\ s.current_save_yourself = r.current_save_yourself
       /\ s.next_save_yourself = r.next_save_yourself
  BY <1>4
<1>11. T = Line(toClient, r) /\ P = Q /\ c = client
  BY <1>1
<1> HIDE DEF s, T, P, c
<1>12. ASSUME late' = "nothing"
       PROVE  Ordered(T) /\ Core(s, T, P, c) /\ Waiting(s, T, P, c)
  <2>1. Core(r, T, P, c) /\ Waiting(r, T, P, c)
    BY <1>11, <1>12 DEF Good
  <2>2. r.last => r.phase = "END_SESSION"
    BY <2>1 DEF Core, InPhase2
  <2>3. Core(s, T, P, c)
    BY <1>10, <2>1, <2>2, CoreKept
  <2>4. Waiting(s, T, P, c)
    BY <1>10, <2>1 DEF Waiting
  <2>5. Ordered(T)
    BY <2>3 DEF Core, OneOwed
  <2> QED
    BY <2>3, <2>4, <2>5
<1>13. ASSUME late' = "answer"
       PROVE  OneSave(T) /\ s.phase = "RUNNING" /\ Crossed(s, T, P, c)
  <2>1. Crossed(r, T, P, c)
    BY <1>11, <1>13
  <2> QED
    BY <1>10, <2>1 DEF Crossed
<1> QED
  BY <1>7, <1>9, <1>12, <1>13 DEF IInv, s, T, P, c

\* The manager starts to log out.
LEMMA QueryKeepsIInv ==
  ASSUME IInv, NEW forced \in BOOLEAN, Query(forced)
  PROVE  IInv'
<1> DEFINE q == [srv EXCEPT !.phase = "QUERY_END_SESSION", !.forced = forced, !.asked = TRUE]
           r == DoSaveYourself(q, SmSaveGlobal, ~forced)
           U == toClient
           V == Line(toClient, r)
<1>1. Connected /\ srv.phase = "RUNNING"
  BY DEF Query
<1>2. srv \in Pending /\ srv.conn /\ srv.out = <<>>
  BY <1>1, Settled DEF Sound
<1>3. QueryEndSession([srv EXCEPT !.phase = "QUERY_END_SESSION", !.forced = forced]) = r
  BY <1>2 DEF QueryEndSession, Pending
<1>4. Handled(r, toServer) /\ UNCHANGED client
  BY <1>3 DEF Query
<1>5. /\ q \in Pending /\ q.conn /\ q.out = srv.out /\ q.phase = "QUERY_END_SESSION"
      /\ q.last = srv.last /\ q.saving = srv.saving /\ q.may_interact = srv.may_interact
      /\ q.current_save_yourself = srv.current_save_yourself
      /\ q.next_save_yourself = srv.next_save_yourself
  BY <1>2 DEF Pending
<1>6. /\ SmSaveGlobal \in SaveTypes \cup {None} /\ (~forced) \in BOOLEAN
      /\ SmSaveGlobal # None /\ SmSaveGlobal \in SaveTypes
  BY DEF SaveTypes, SmSaveGlobal, None
<1>7. r = DoSaveYourself(q, SmSaveGlobal, ~forced)
  OBVIOUS
<1> HIDE DEF q, r
<1>8. Sound(toClient, q) /\ Line(toClient, q) = U /\ toClient \in Seq(ToClient)
  <2>1. toClient \in Seq(ToClient)
    BY DEF IInv, TypeOK
  <2> QED
    BY <1>1, <1>5, <2>1, Settled, SendsNothing
<1>9. Sound(toClient, r) /\ SendsOne(q, r)
  BY <1>6, <1>7, <1>8, DoSaveYourselfSound
<1>10. ~Tells(r)
  BY <1>1, <1>5, <1>9, Settled, QuietKept DEF Quiet
<1>11. /\ late' = Overtaken(r.out, toServer)
       /\ late \in {"nothing", "answer", "request"}
  BY <1>4 DEF Handled, IInv, TypeOK
<1>12. ASSUME late = "answer"
       PROVE  /\ late' # "answer"
              /\ late' = "nothing" => Good(r, toClient, toServer, client)
  <2>1. Crossed(srv, toClient, toServer, client)
    BY <1>1, <1>12, Settled
  <2>2. /\ q.current_save_yourself = None /\ q.next_save_yourself = None /\ ~q.last
        /\ q.phase \notin Ending
    BY <1>5, <2>1 DEF Crossed, Ending
  <2>3. /\ HasSave(r.out)
        /\ \A P, c : ~HasSave(Line(toClient, q)) /\ P = <<>>
                    /\ c.state \in {"idle", "frozen"} => Good(r, toClient, P, c)
    BY <1>6, <1>7, <1>8, <2>2, AskedAfresh
  <2>4. late' = "nothing" => ~BusyWith(toServer)
    BY <1>11, <1>12, NotOvertaken
  <2>5. late' # "answer"
    BY <1>10, <1>11, <1>12, <2>3, OvertakenAgain
  <2> QED
    BY <1>8, <2>3, <2>4, <2>5, NotBusy
<1>13. ASSUME late = "nothing" PROVE Good(r, toClient, toServer, client)
  <2>2. Core(srv, U, toServer, client) /\ Waiting(srv, U, toServer, client)
    BY <1>1, <1>13, Settled DEF Good
  <2>3. ~srv.last
    BY <1>1, <2>2 DEF Core, InPhase2
  <2>4. Core(q, U, toServer, client)
    BY <1>1, <1>5, <2>2, <2>3, CoreKept DEF Ending
  <2>5. q.current_save_yourself = None => Free(q, U, toServer, client)
    BY <1>5, <2>4, FreeBefore DEF Ending
  <2>6. Core(r, V, toServer, client)
    BY <1>6, <1>7, <1>8, <2>4, <2>5, DoSaveYourselfCore
  <2>7. Saves(q, SmSaveGlobal, r)
    BY <1>5, <1>6, <1>7, DoSaveYourselfDoes
  <2>8. r.phase = "QUERY_END_SESSION"
    BY <1>5, <2>7 DEF Saves
  <2>9. Owed(V, toServer, client) \/ client.state = "waits2"
    <3>1. CASE q.next_save_yourself # None /\ r = q
      <4>1. V = U
        BY <1>8, <3>1
      <4> QED
        BY <1>1, <1>5, <2>2, <3>1, <4>1 DEF Waiting
    <3>2. CASE r.current_save_yourself # None
      BY <2>6, <3>2 DEF Core, CurrentIsOwed
    <3> QED
      BY <1>6, <2>7, <3>1, <3>2 DEF Saves
  <2>10. Waiting(r, V, toServer, client)
    BY <2>8, <2>9 DEF Waiting
  <2> QED
    BY <2>6, <2>10 DEF Good
<1>14. late # "answer" => late' = late
  BY <1>10, <1>11, OvertakesNothing
<1>15. toServer \in Seq(ToServer) /\ Len(toServer) <= MaxMessages
  BY DEF IInv, TypeOK
<1> QED
  BY <1>1, <1>4, <1>9, <1>12, <1>13, <1>14, <1>15, HandledKeepsIInv

\* A callback outside of the running session that does not cancel the logout.
LEMMA EndingKeepsIInv ==
  ASSUME IInv, Connected, srv.phase # "RUNNING", UNCHANGED client,
         NEW r, Handled(r, toServer), Sound(toClient, r), SendsOne(srv, r),
         Good(srv, toClient, toServer, client) => Good(r, toClient, toServer, client)
  PROVE  IInv'
<1>1. ~Tells(r)
  <2>1. Sound(toClient, srv) /\ Quiet(srv)
    BY Settled
  <2>2. srv \in Pending
    BY <2>1 DEF Sound
  <2> QED
    BY <2>1, <2>2, QuietKept
<1>2. late # "answer"
  BY DEF IInv
<1>3. late' = late
  <2>1. /\ late' = Overtaken(r.out, toServer)
        /\ late \in {"nothing", "answer", "request"}
    BY DEF Handled, IInv, TypeOK
  <2> QED
    BY <1>1, <1>2, <2>1, OvertakesNothing
<1>4. toServer \in Seq(ToServer) /\ Len(toServer) <= MaxMessages
  BY DEF IInv, TypeOK
<1> QED
  BY <1>2, <1>3, <1>4, Settled, HandledKeepsIInv

\* The manager goes on.
LEMMA GoesOnKeepsIInv ==
  ASSUME IInv, GoesOn
  PROVE  IInv'
<1>1. Connected /\ srv.phase # "RUNNING" /\ UNCHANGED client
  BY DEF GoesOn
<1>2. PICK r \in GoOn(srv) \cup EndPhase(srv) : Handled(r, toServer)
  BY DEF GoesOn
<1>3. toClient \in Seq(ToClient) /\ Sound(toClient, srv)
  BY <1>1, Settled
<1>4. Sound(toClient, r) /\ r.phase \in Ending /\ SendsOne(srv, r)
  BY <1>1, <1>2, <1>3, GoOnSound
<1>5. ASSUME Good(srv, toClient, toServer, client)
      PROVE  Good(r, toClient, toServer, client)
  <2>1. Core(r, Line(toClient, r), toServer, client)
    BY <1>1, <1>2, <1>3, <1>5, GoOnCore DEF Good
  <2> QED
    BY <1>4, <2>1 DEF Good, Waiting, Ending
<1> QED
  BY <1>1, <1>2, <1>4, <1>5, EndingKeepsIInv

\* Somebody logs out again, which changes the mode and may make the manager go on.
LEMMA LogoutAgainKeepsIInv ==
  ASSUME IInv, NEW forced \in BOOLEAN, LogoutAgain(forced)
  PROVE  IInv'
<1> DEFINE q == [srv EXCEPT !.forced = forced]
<1>1. Connected /\ srv.phase # "RUNNING" /\ UNCHANGED client
  BY DEF LogoutAgain
<1>2. PICK r \in EndPhase(q) \cup {q} : Handled(r, toServer)
  BY DEF LogoutAgain
<1>3. /\ toClient \in Seq(ToClient) /\ Sound(toClient, srv)
      /\ srv \in Pending /\ srv.conn
  BY <1>1, Settled DEF Sound
<1>4. /\ q \in Pending /\ q.conn = srv.conn /\ q.out = srv.out /\ q.phase = srv.phase
      /\ q.asked = srv.asked
      /\ q.last = srv.last /\ q.saving = srv.saving /\ q.may_interact = srv.may_interact
      /\ q.current_save_yourself = srv.current_save_yourself
      /\ q.next_save_yourself = srv.next_save_yourself
  BY <1>3 DEF Pending
<1> HIDE DEF q
<1>5. Sound(toClient, q) /\ Line(toClient, q) = Line(toClient, srv)
  BY <1>3, <1>4, SendsNothing
<1>6. ASSUME Good(srv, toClient, toServer, client)
      PROVE  Good(q, toClient, toServer, client)
  <2> DEFINE U == Line(toClient, srv)
  <2>1. Core(srv, U, toServer, client) /\ Waiting(srv, U, toServer, client)
    BY <1>6 DEF Good
  <2> HIDE DEF U
  <2>2. srv.last => srv.phase = "END_SESSION"
    BY <2>1 DEF Core, InPhase2
  <2>3. Core(q, U, toServer, client)
    BY <1>4, <2>1, <2>2, CoreKept
  <2>4. Waiting(q, U, toServer, client)
    BY <1>4, <2>1 DEF Waiting
  <2> QED
    BY <1>5, <2>3, <2>4 DEF Good, U
<1>7. CASE r = q
  <2>1. SendsOne(srv, r)
    BY <1>4, <1>7 DEF SendsOne
  <2> QED
    BY <1>1, <1>2, <1>5, <1>6, <1>7, <2>1, EndingKeepsIInv
<1>8. CASE r \in EndPhase(q)
  <2>1. Sound(toClient, r) /\ r.phase \in Ending /\ SendsOne(q, r)
    BY <1>1, <1>3, <1>4, <1>5, <1>8, GoOnSound
  <2>2. SendsOne(srv, r)
    BY <1>4, <2>1 DEF SendsOne
  <2>3. ASSUME Good(q, toClient, toServer, client)
        PROVE  Good(r, toClient, toServer, client)
    <3>1. Core(r, Line(toClient, r), toServer, client)
      BY <1>1, <1>3, <1>4, <1>5, <1>8, <2>3, GoOnCore DEF Good
    <3> QED
      BY <2>1, <3>1 DEF Good, Waiting, Ending
  <2> QED
    BY <1>1, <1>2, <1>6, <2>1, <2>2, <2>3, EndingKeepsIInv
<1> QED
  BY <1>2, <1>7, <1>8

\* The manager gives up waiting.
LEMMA GivesUpKeepsIInv ==
  ASSUME IInv, GivesUp
  PROVE  IInv'
<1>1. /\ Connected /\ srv' = [srv EXCEPT !.asked = FALSE]
      /\ UNCHANGED <<toClient, toServer, client, late>>
  BY DEF GivesUp
<1>2. srv \in Server
  BY DEF IInv, TypeOK
<1>3. /\ srv' \in Server /\ srv'.conn = srv.conn /\ srv'.phase = srv.phase
      /\ srv'.asked = FALSE /\ srv'.last = srv.last /\ srv'.saving = srv.saving
      /\ srv'.may_interact = srv.may_interact
      /\ srv'.current_save_yourself = srv.current_save_yourself
      /\ srv'.next_save_yourself = srv.next_save_yourself
  BY <1>1, <1>2 DEF Server
<1>4. TypeOK' /\ GoneIsOut'
  BY <1>1, <1>3 DEF IInv, TypeOK, GoneIsOut, Connected
<1> DEFINE s == srv'
<1>5. ASSUME Core(srv, toClient, toServer, client), Waiting(srv, toClient, toServer, client)
      PROVE  Core(s, toClient, toServer, client) /\ Waiting(s, toClient, toServer, client)
  <2> HIDE DEF s
  <2>1. srv.last => srv.phase = "END_SESSION"
    BY <1>5 DEF Core, InPhase2
  <2>2. Core(s, toClient, toServer, client)
    BY <1>3, <1>5, <2>1, CoreKept DEF s
  <2>3. Waiting(s, toClient, toServer, client)
    BY <1>3, <1>5 DEF Waiting, s
  <2> QED
    BY <2>2, <2>3
<1>6. late # "answer"
  BY DEF IInv, GivesUp
<1> QED
  BY <1>1, <1>4, <1>5, <1>6 DEF IInv

\* The logout is cancelled by somebody else.
LEMMA CancelKeepsIInv ==
  ASSUME IInv, Cancel
  PROVE  IInv'
<1> DEFINE r == CancelEndSession(srv)
<1>1. Connected /\ srv.phase # "RUNNING" /\ Handled(r, toServer) /\ UNCHANGED client
  BY DEF Cancel
<1>2. /\ toClient \in Seq(ToClient) /\ Sound(toClient, srv) /\ srv.phase # "EXIT"
      /\ Line(toClient, srv) = toClient
  BY <1>1, Settled
<1>3. r = CancelEndSession(srv)
  OBVIOUS
<1> HIDE DEF r
<1>4. Sound(toClient, r) /\ Tells(r)
  BY <1>2, <1>3, CancelSound, CancelTells
<1>5. /\ late' = Overtaken(r.out, toServer)
      /\ late \in {"nothing", "answer", "request"} /\ late # "answer"
  <2>1. late' = Overtaken(r.out, toServer)
    BY <1>1 DEF Handled
  <2> QED
    BY <1>1, <2>1 DEF IInv, TypeOK
<1>6. late' = "nothing" => Good(r, toClient, toServer, client)
  <2>1. late' = "nothing" => ~BusyWith(toServer)
    BY <1>4, <1>5, NotOvertaken
  <2> QED
    BY <1>2, <1>3, <2>1, NotBusy, CancelClean
<1>7. late' = "answer" => Crossed(r, Line(toClient, r), toServer, client)
  <2>1. late' = "answer" => late = "nothing"
    BY <1>4, <1>5, OvertakesAnswer
  <2> QED
    BY <1>1, <1>2, <1>3, <2>1, Settled, CancelCrosses DEF Good
<1>8. toServer \in Seq(ToServer) /\ Len(toServer) <= MaxMessages
  BY DEF IInv, TypeOK
<1> QED
  BY <1>1, <1>4, <1>6, <1>7, <1>8, HandledKeepsIInv

\* A message of the client is handled.
LEMMA DispatchKeepsIInv ==
  ASSUME IInv, Dispatch
  PROVE  IInv'
<1> DEFINE P == Tail(toServer)
<1>1. Connected /\ toServer # <<>> /\ UNCHANGED client
  BY DEF Dispatch
<1>2. PICK r \in Dispatched(srv, Head(toServer)) : Handled(r, P)
  BY DEF Dispatch
<1>3. /\ toClient \in Seq(ToClient) /\ toServer \in Seq(ToServer)
      /\ Len(toServer) <= MaxMessages /\ MaxMessages \in Nat
  BY MessagesAssumption DEF IInv, TypeOK
<1>4. /\ Sound(toClient, srv) /\ srv.phase # "EXIT" /\ srv.out = <<>> /\ Quiet(srv)
      /\ Line(toClient, srv) = toClient
  BY <1>1, Settled
<1>5. P = Tail(toServer)
  OBVIOUS
<1> HIDE DEF P
<1>6. P \in Seq(ToServer) /\ Len(P) <= Len(toServer)
  BY <1>1, <1>3, <1>5, ToServerTaken
<1>7. Len(P) <= MaxMessages
  BY <1>3, <1>6, LenProperties
<1>8. /\ late' = Overtaken(r.out, P) /\ late \in {"nothing", "answer", "request"}
  BY <1>2 DEF Handled, IInv, TypeOK
<1>9. /\ Sound(toClient, r)
      /\ \/ Cancels(toClient, srv, toServer, P, client, r)
         \/ Good(srv, toClient, toServer, client) => Good(r, toClient, P, client)
  BY <1>1, <1>2, <1>3, <1>4, <1>5, DispatchedHandled
<1>10. Cancels(toClient, srv, toServer, P, client, r) \/ ~Tells(r)
  BY <1>1, <1>2, <1>3, <1>4, <1>5, DispatchedQuiet
<1>11. ASSUME Cancels(toClient, srv, toServer, P, client, r)
       PROVE  /\ late' = "nothing" => Good(r, toClient, P, client)
              /\ late' = "answer" => Crossed(r, Line(toClient, r), P, client)
  <2>1. PICK q : /\ Sound(toClient, q) /\ Line(toClient, q) = Line(toClient, srv)
                 /\ q.phase = srv.phase /\ srv.phase \notin {"RUNNING", "EXIT"}
                 /\ r = CancelEndSession(q)
                 /\ Good(srv, toClient, toServer, client) => Good(q, toClient, P, client)
    BY <1>11 DEF Cancels
  <2>2. Tells(r)
    BY <1>3, <2>1, CancelTells
  <2>3. late # "answer"
    BY <2>1 DEF IInv
  <2>4. ASSUME late' = "nothing" PROVE Good(r, toClient, P, client)
    <3>1. ~BusyWith(P)
      BY <1>8, <2>2, <2>4, NotOvertaken
    <3>2. P = <<>> /\ client.state \in {"idle", "frozen"} /\ ~HasSave(toClient)
      BY <3>1, NotBusy
    <3> QED
      BY <1>3, <1>4, <2>1, <3>2, CancelClean
  <2>5. ASSUME late' = "answer" PROVE Crossed(r, Line(toClient, r), P, client)
    <3>1. late = "nothing"
      BY <1>8, <2>2, <2>3, <2>5, OvertakesAnswer
    <3>2. Core(q, Line(toClient, q), P, client)
      BY <1>1, <2>1, <3>1, Settled DEF Good
    <3> QED
      BY <1>3, <2>1, <3>2, CancelCrosses
  <2> QED
    BY <2>4, <2>5
<1>12. ASSUME ~Cancels(toClient, srv, toServer, P, client, r)
       PROVE  /\ late' = "nothing" => Good(r, toClient, P, client)
              /\ late' = "answer" => Crossed(r, Line(toClient, r), P, client)
  <2>1. ~Tells(r)
    BY <1>10, <1>12
  <2>2. CASE late # "answer"
    <3>1. late' = late
      BY <1>8, <2>1, <2>2, OvertakesNothing
    <3> QED
      BY <1>1, <1>9, <1>12, <2>2, <3>1, Settled
  <2>3. CASE late = "answer"
    <3>1. Crossed(srv, toClient, toServer, client)
      BY <1>1, <2>3, Settled
    <3>2. \/ Crossed(r, Line(toClient, r), P, client) /\ ~HasSave(r.out)
          \/ r = DoSaveYourself(srv, SmSaveLocal, TRUE)
      BY <1>1, <1>2, <1>3, <1>4, <1>5, <3>1, DispatchedCrossed
    <3>3. CASE Crossed(r, Line(toClient, r), P, client) /\ ~HasSave(r.out)
      <4>1. late' = "answer"
        BY <1>8, <2>1, <2>3, <3>3, OvertakenAgain
      <4> QED
        BY <3>3, <4>1
    <3>4. CASE r = DoSaveYourself(srv, SmSaveLocal, TRUE)
      <4>1. /\ srv.phase \notin Ending /\ ~srv.last
            /\ srv.current_save_yourself = None /\ srv.next_save_yourself = None
            /\ SmSaveLocal \in SaveTypes /\ TRUE \in BOOLEAN
        BY <3>1 DEF Crossed, Ending, SaveTypes
      <4>2. /\ HasSave(r.out)
            /\ \A Q, c : ~HasSave(Line(toClient, srv)) /\ Q = <<>>
                        /\ c.state \in {"idle", "frozen"} => Good(r, toClient, Q, c)
        BY <1>3, <1>4, <3>4, <4>1, AskedAfresh
      <4>3. late' # "answer" /\ (late' = "nothing" => ~BusyWith(P))
        BY <1>8, <2>1, <2>3, <4>2, OvertakenAgain, NotOvertaken
      <4> QED
        BY <1>4, <4>2, <4>3, NotBusy
    <3> QED
      BY <3>2, <3>3, <3>4
  <2> QED
    BY <2>2, <2>3
<1> QED
  BY <1>1, <1>2, <1>6, <1>7, <1>9, <1>11, <1>12, HandledKeepsIInv

\* The connection is closed.
LEMMA DisconnectKeepsIInv ==
  ASSUME IInv, Disconnect
  PROVE  IInv'
<1>1. /\ srv' = [srv EXCEPT !.conn = FALSE, !.asked = FALSE]
      /\ client' = [client EXCEPT !.state = "gone"]
      /\ toClient' = <<>> /\ toServer' = <<>> /\ late' = late
  BY DEF Disconnect
<1>2. /\ srv \in Server /\ client \in Client
      /\ late \in {"nothing", "answer", "request"}
  BY DEF IInv, TypeOK
<1>3. srv' \in Server /\ srv'.conn = FALSE /\ srv'.phase = srv.phase
  BY <1>1, <1>2 DEF Server
<1>4. client' \in Client /\ client'.state = "gone"
  BY <1>1, <1>2 DEF Client
<1>5. toClient' \in Seq(ToClient) /\ Len(toClient') <= MaxMessages
  BY <1>1, EmptySeq, MessagesAssumption
<1>6. toServer' \in Seq(ToServer) /\ Len(toServer') <= MaxMessages
  BY <1>1, EmptySeq, MessagesAssumption
<1>7. TypeOK'
  BY <1>1, <1>2, <1>3, <1>4, <1>5, <1>6 DEF TypeOK
<1>8. GoneIsOut'
  BY <1>1, <1>3, <1>4 DEF GoneIsOut, Connected, Carries
<1>9. Ordered(toClient)' /\ OneSave(toClient)'
  BY <1>1 DEF Ordered, OneSave
<1> QED
  BY <1>1, <1>3, <1>4, <1>7, <1>8, <1>9 DEF IInv

\* The client reads a message.
LEMMA ClientReceivesKeepsIInv ==
  ASSUME IInv, ClientReceives
  PROVE  IInv'
<1> DEFINE T == toClient
           m == Head(toClient)
           V == toClient'
           d == client'
<1>1. /\ T # <<>> /\ client.state # "gone" /\ V = Tail(T) /\ d = Received(client, m)
      /\ srv' = srv /\ toServer' = toServer /\ late' = late
  BY DEF ClientReceives
<1>2. m = Head(T)
  OBVIOUS
<1>3. /\ srv \in Server /\ client \in Client /\ toServer \in Seq(ToServer)
      /\ Len(toServer) <= MaxMessages /\ late \in {"nothing", "answer", "request"}
      /\ T \in Seq(ToClient) /\ Len(T) <= MaxMessages /\ MaxMessages \in Nat
  BY MessagesAssumption DEF IInv, TypeOK
<1> HIDE DEF T, m, V, d
<1>4. /\ V \in Seq(ToClient) /\ m \in ToClient /\ Len(V) <= Len(T)
      /\ \A type : Carries(T, type) <=> Carries(V, type) \/ m.type = type
      /\ Ordered(T) => Ordered(V)
      /\ OneSave(T) => OneSave(V)
  BY <1>1, <1>2, <1>3, ToClientTaken, FollowsTaken
<1>5. Len(V) <= MaxMessages
  BY <1>3, <1>4, LenProperties
<1>6. d \in Client
  BY <1>1, <1>3, <1>4 DEF Received, Client, ToClient
<1>7. TypeOK'
  BY <1>1, <1>3, <1>4, <1>5, <1>6 DEF TypeOK, V, d
<1>8. d.state = "gone" => m.type = "Die"
  BY <1>1, <1>3 DEF Received, Client
<1>9. srv.conn /\ (Carries(T, "Die") => srv.phase = "EXIT")
  BY <1>1 DEF IInv, GoneIsOut, T
<1>10. d.state = "gone" => srv.phase = "EXIT"
  BY <1>4, <1>8, <1>9
<1>11. Carries(V, "Die") => srv.phase = "EXIT"
  BY <1>4, <1>9
<1>12. GoneIsOut'
  BY <1>1, <1>9, <1>10, <1>11 DEF GoneIsOut, Connected, V, d
<1>13. ASSUME late = "nothing", d.state # "gone"
       PROVE  Core(srv, V, toServer, d) /\ Waiting(srv, V, toServer, d)
  <2>1. Core(srv, T, toServer, client) /\ Waiting(srv, T, toServer, client)
    BY <1>1, <1>13 DEF IInv, T
  <2> QED
    BY <1>1, <1>2, <1>3, <1>13, <2>1, ReceivedCore
<1>14. ASSUME late = "answer", d.state # "gone" PROVE Crossed(srv, V, toServer, d)
  <2>1. Crossed(srv, T, toServer, client)
    BY <1>1, <1>14 DEF IInv, T
  <2> QED
    BY <1>1, <1>2, <1>3, <1>14, <2>1, ReceivedCrossed
<1>15. /\ late = "nothing" => Ordered(V)
       /\ late = "answer" => OneSave(V) /\ srv.phase = "RUNNING"
  BY <1>4 DEF IInv, T
<1> QED
  BY <1>1, <1>7, <1>12, <1>13, <1>14, <1>15 DEF IInv, V, d

\* The client answers or asks.
LEMMA ClientSpeaks ==
  ASSUME ClientSaves \/ ClientAsks, client \in Client
  PROVE  /\ \E m \in ToServer : /\ ClientSays(m, client, client')
                                /\ toServer' = Append(toServer, m)
         /\ Len(toServer') <= MaxMessages
         /\ client' \in Client /\ client.state # "gone" /\ client'.state # "gone"
         /\ UNCHANGED <<srv, toClient, late>>
<1> DEFINE c == client
           d == client'
<1>1. PICK m \in ToServer :
        /\ ClientSends(m, d)
        /\ \/ /\ m = Done /\ c.state = "saving"
              /\ d = [c EXCEPT !.state = IF c.cancelled THEN "idle" ELSE "frozen"]
           \/ /\ m \in {"InteractDone", "InteractDoneCancel"} /\ c.state = "interacting"
              /\ d = [c EXCEPT !.state = "saving"]
           \/ /\ m = "InteractRequest" /\ c.may_interact /\ c.state = "saving"
              /\ d = [c EXCEPT !.state = "waits", !.may_interact = FALSE]
           \/ /\ m = Phase2 /\ ~c.phase2 /\ ~c.cancelled /\ c.state = "saving"
              /\ d = [c EXCEPT !.state = "waits2"]
           \/ m = Request /\ c.state = "idle" /\ d = c
  BY DEF ClientSaves, ClientAsks, ClientSends, ToServer, Done, Phase2, Request
<1>2. c \in Client
  OBVIOUS
<1>3. /\ toServer' = Append(toServer, m) /\ Len(toServer') <= MaxMessages
      /\ UNCHANGED <<srv, toClient, late>>
  BY <1>1 DEF ClientSends
<1> HIDE DEF c, d
<1>4. d \in Client /\ c.state # "gone" /\ d.state # "gone"
  BY <1>1, <1>2 DEF Client
<1>5. ClientSays(m, c, d)
  BY <1>1, <1>2 DEF Client, ClientSays
<1> QED
  BY <1>3, <1>4, <1>5 DEF c, d

LEMMA ClientSpeaksKeepsIInv ==
  ASSUME IInv, ClientSaves \/ ClientAsks
  PROVE  IInv'
<1> DEFINE Q == toServer
           P == toServer'
           d == client'
<1>1. /\ srv \in Server /\ client \in Client /\ Q \in Seq(ToServer)
      /\ late \in {"nothing", "answer", "request"}
      /\ toClient \in Seq(ToClient) /\ Len(toClient) <= MaxMessages
  BY DEF IInv, TypeOK
<1>2. /\ Len(P) <= MaxMessages /\ d \in Client
      /\ client.state # "gone" /\ d.state # "gone"
      /\ srv' = srv /\ toClient' = toClient /\ late' = late
  BY <1>1, ClientSpeaks
<1>3. PICK m \in ToServer : ClientSays(m, client, d) /\ P = Append(Q, m)
  BY <1>1, ClientSpeaks
<1> HIDE DEF Q, P, d
<1>4. P \in Seq(ToServer)
  BY <1>1, <1>3, ToServerAdded
<1>5. TypeOK'
  BY <1>1, <1>2, <1>4 DEF TypeOK, P, d
<1>6. GoneIsOut'
  BY <1>2 DEF IInv, GoneIsOut, Connected, d
<1>7. ASSUME late = "nothing"
      PROVE  Core(srv, toClient, P, d) /\ Waiting(srv, toClient, P, d)
  <2>1. Core(srv, toClient, Q, client) /\ Waiting(srv, toClient, Q, client)
    BY <1>2, <1>7 DEF IInv, Q
  <2> QED
    BY <1>1, <1>3, <2>1, SaidCore
<1>8. ASSUME late = "answer" PROVE Crossed(srv, toClient, P, d)
  <2>1. Crossed(srv, toClient, Q, client)
    BY <1>2, <1>8 DEF IInv, Q
  <2> QED
    BY <1>1, <1>3, <2>1, SaidCrossed
<1> QED
  BY <1>2, <1>5, <1>6, <1>7, <1>8 DEF IInv, P, d

\* A client that has registered is idle, or told to save.
LEMMA InitIInv ==
  Init => IInv
<1> SUFFICES ASSUME Init PROVE IInv
  OBVIOUS
<1>1. PICK previous_id \in BOOLEAN :
        srv = [Registered(previous_id) EXCEPT !.out = <<>>] /\ toClient = Registered(previous_id).out
  BY DEF Init
<1>2. /\ toServer = <<>> /\ late = "nothing" /\ client \in Client
      /\ client.state = "idle"
  BY DEF Init, Client
<1>3. ~Saving(client) /\ client.state \notin {"waits", "waits2", "frozen", "gone"}
  BY <1>2 DEF Saving
<1>4. /\ toServer \in Seq(ToServer) /\ Len(toServer) <= MaxMessages
      /\ MaxMessages \in Nat /\ 1 <= MaxMessages
  BY <1>2, MessagesAssumption, EmptySeq
<1>5. OnceAnswered(toServer) /\ \A x : ~Has(toServer, x)
  BY <1>2 DEF OnceAnswered, Has
<1>6. ~Answered(toServer)
  BY <1>5 DEF Answered
<1> DEFINE m == SaveMessage(SmSaveLocal, FALSE)
<1>7. m \in ToClient /\ m.type = "SaveYourself" /\ m.save = SmSaveLocal /\ m.interact = FALSE
  <2>1. SmSaveLocal \in SaveTypes \cup {None} /\ FALSE \in BOOLEAN
    BY DEF SaveTypes
  <2> QED
    BY <2>1, Messages
<1>8. /\ srv.conn = TRUE /\ srv.phase = "RUNNING" /\ srv.asked = FALSE /\ srv.last = FALSE
      /\ srv.may_interact = FALSE /\ srv.next_save_yourself = None
      /\ \/ srv.current_save_yourself = None /\ toClient = <<>>
         \/ /\ srv.current_save_yourself = SmSaveLocal /\ srv.saving = TRUE
            /\ toClient = Append(<<>>, m)
  BY <1>1 DEF Registered, SmsSaveYourself, Send, SaveMessage
<1>9. srv \in Server
  BY <1>1 DEF Registered, SmsSaveYourself, Send, Server, SaveTypes
<1> HIDE DEF m
<1>10. CASE srv.current_save_yourself = None /\ toClient = <<>>
  <2>1. toClient \in Seq(ToClient) /\ Len(toClient) <= MaxMessages
    BY <1>4, <1>10, EmptySeq
  <2>2. ~HasSave(toClient) /\ ~AllowsInteract(toClient) /\ Ordered(toClient)
        /\ \A t : ~Carries(toClient, t)
    BY <1>10 DEF HasSave, AllowsInteract, Ordered, Carries
  <2>3. OneOwed(toClient, toServer, client)
    BY <1>3, <1>5, <1>6, <2>2 DEF OneOwed
  <2>4. InPhase2(srv, toClient, toServer, client)
    BY <1>8, <2>2 DEF InPhase2
  <2>5. CurrentIsOwed(srv, toClient, toServer, client)
    BY <1>3, <1>5, <1>10, <2>2 DEF CurrentIsOwed
  <2>6. Expects(srv, toClient, toServer, client)
    BY <1>3, <1>6, <2>2 DEF Expects, Owed
  <2>7. Waiting(srv, toClient, toServer, client)
    BY <1>3, <1>8 DEF Waiting
  <2>8. TypeOK
    BY <1>2, <1>4, <1>9, <2>1 DEF TypeOK
  <2>9. GoneIsOut
    BY <1>3, <1>8, <2>2 DEF GoneIsOut
  <2> QED
    BY <1>2, <2>2, <2>3, <2>4, <2>5, <2>6, <2>7, <2>8, <2>9 DEF IInv, Core
<1>11. CASE /\ srv.current_save_yourself = SmSaveLocal /\ srv.saving = TRUE
            /\ toClient = Append(<<>>, m)
  <2>1. toClient = <<m>>
    BY <1>11
  <2>2. /\ toClient \in Seq(ToClient) /\ Len(toClient) <= MaxMessages
        /\ DOMAIN toClient = {1} /\ toClient[1] = m
    BY <1>4, <1>7, <2>1
  <2>3. IsSave(m) /\ SmSaveLocal # None
    BY <1>7 DEF IsSave, SmSaveLocal, None
  <2>4. HasSave(toClient) /\ ~AllowsInteract(toClient) /\ Ordered(toClient)
        /\ \A t : Carries(toClient, t) <=> m.type = t
    BY <1>7, <2>2, <2>3 DEF HasSave, AllowsInteract, Ordered, Carries
  <2>5. OneOwed(toClient, toServer, client)
    BY <1>2, <1>3, <1>5, <1>6, <2>4 DEF OneOwed
  <2>6. InPhase2(srv, toClient, toServer, client)
    BY <1>2, <1>8 DEF InPhase2
  <2>7. CurrentIsOwed(srv, toClient, toServer, client)
    BY <1>11, <2>3, <2>4 DEF CurrentIsOwed, Owed
  <2>8. Expects(srv, toClient, toServer, client)
    BY <1>3, <1>11, <2>4 DEF Expects
  <2>9. Waiting(srv, toClient, toServer, client)
    BY <1>3, <1>8 DEF Waiting
  <2>10. TypeOK
    BY <1>2, <1>4, <1>9, <2>2 DEF TypeOK
  <2>11. ~Carries(toClient, "Die")
    BY <1>7, <2>4
  <2>12. GoneIsOut
    BY <1>3, <1>8, <2>11 DEF GoneIsOut
  <2> QED
    BY <1>2, <2>4, <2>5, <2>6, <2>7, <2>8, <2>9, <2>10, <2>12 DEF IInv, Core
<1> QED
  BY <1>8, <1>10, <1>11

LEMMA NextIInv ==
  IInv /\ [Next]_vars => IInv'
<1> SUFFICES ASSUME IInv, [Next]_vars PROVE IInv'
  OBVIOUS
<1>1. CASE \E forced \in BOOLEAN : Query(forced) \/ LogoutAgain(forced)
  BY <1>1, QueryKeepsIInv, LogoutAgainKeepsIInv
<1>2. CASE GoesOn
  BY <1>2, GoesOnKeepsIInv
<1>3. CASE GivesUp
  BY <1>3, GivesUpKeepsIInv
<1>4. CASE Cancel
  BY <1>4, CancelKeepsIInv
<1>5. CASE Dispatch
  BY <1>5, DispatchKeepsIInv
<1>6. CASE Disconnect
  BY <1>6, DisconnectKeepsIInv
<1>7. CASE ClientReceives
  BY <1>7, ClientReceivesKeepsIInv
<1>8. CASE ClientSaves \/ ClientAsks
  BY <1>8, ClientSpeaksKeepsIInv
<1>9. CASE UNCHANGED vars
  BY <1>9 DEF vars, IInv, TypeOK, GoneIsOut, Connected
<1> QED
  BY <1>1, <1>2, <1>3, <1>4, <1>5, <1>6, <1>7, <1>8, <1>9 DEF Next

-----------------------------------------------------------------------------
(* The theorems.                                                            *)

LEMMA Invariant == Spec => []IInv
  BY InitIInv, NextIInv, PTL DEF Spec

\* A client that is not confused is as it should be, or a cancelling has crossed
\* what it owes.
LEMMA GoodOrCrossed ==
  ASSUME IInv, ~Confused
  PROVE  \/ /\ late = "nothing"
            /\ Ordered(toClient)
            /\ client.state # "gone" => /\ Core(srv, toClient, toServer, client)
                                        /\ Waiting(srv, toClient, toServer, client)
         \/ /\ late = "answer"
            /\ OneSave(toClient) /\ srv.phase = "RUNNING"
            /\ client.state # "gone" => Crossed(srv, toClient, toServer, client)
BY DEF IInv, TypeOK, Confused

\* The records and messages keep their types, and the bound is kept: no callback
\* (scsm-xsmp-client.c) leaves the client's record in a shape the others do not expect.
THEOREM TypeCorrect == Spec => []TypeOK
<1>1. IInv => TypeOK
  BY DEF IInv
<1> QED
  BY <1>1, Invariant, PTL

\* A client that answered SaveYourselfDone is told, by SaveComplete or by
\* ShutdownCancelled, that it may go on, unless a logout is under way; also when the
\* logout was cancelled before its answer was read.  Excepted is a client that was
\* asked for something else before it had finished with a cancelled logout.
THEOREM FrozenClientsReleased == Spec => []FrozenOnlyInLogout
<1>1. IInv => FrozenOnlyInLogout
  <2> SUFFICES ASSUME IInv, ~Confused, client.state = "frozen", toClient = <<>>, toServer = <<>>
               PROVE  srv.phase # "RUNNING"
    BY DEF FrozenOnlyInLogout
  <2>1. \/ Waiting(srv, toClient, toServer, client)
        \/ Crossed(srv, toClient, toServer, client)
    BY GoodOrCrossed
  <2>2. ~HasSave(toClient) /\ (\A t : ~Carries(toClient, t)) /\ ~Has(toServer, Done)
    BY DEF HasSave, Carries, Has
  <2> QED
    BY <2>1, <2>2 DEF Waiting, Crossed
<1> QED
  BY <1>1, Invariant, PTL

\* do_save_yourself() and its queue never ask a client to save while it is asked
\* already, but for a client that has not finished with a cancelled logout.
THEOREM SavesOneAtATime == Spec => []OneSaveAtATime
<1>1. IInv => OneSaveAtATime
  <2> SUFFICES ASSUME IInv, ~Confused
               PROVE  /\ \A i, j \in SavesUnderWay : i = j
                      /\ client.state \in {"saving", "waits", "interacting"} =>
                           SavesUnderWay = {}
    BY DEF OneSaveAtATime
  <2>1. /\ Ordered(toClient) \/ OneSave(toClient)
        /\ toClient \in Seq(ToClient)
    BY GoodOrCrossed DEF IInv, TypeOK
  <2>2. ASSUME NEW i \in SavesUnderWay, NEW j \in SavesUnderWay PROVE i = j
    <3>1. /\ i \in DOMAIN toClient /\ j \in DOMAIN toClient
          /\ IsSave(toClient[i]) /\ IsSave(toClient[j])
      BY DEF SavesUnderWay, IsSave
    <3>2. ~(i < j) /\ ~(j < i)
      BY <2>1, <3>1 DEF Ordered, Disturbs, OneSave
    <3>3. i \in Nat /\ j \in Nat
      BY <2>1, <3>1
    <3> QED
      BY <3>2, <3>3
  <2>3. ASSUME Saving(client) PROVE SavesUnderWay = {}
    <3>1. \/ Core(srv, toClient, toServer, client)
          \/ Crossed(srv, toClient, toServer, client)
      BY <2>3, GoodOrCrossed DEF Saving
    <3>2. ~HasSave(toClient)
      BY <2>3, <3>1 DEF Core, OneOwed, Crossed
    <3> QED
      BY <3>2 DEF HasSave, IsSave, SavesUnderWay
  <2> QED
    BY <2>2, <2>3 DEF Saving
<1> QED
  BY <1>1, Invariant, PTL

\* interact_request_callback() gives leave to a client that waits for it, and the
\* client that the query phase waits for has something to answer; excepted is a
\* client that was asked before it had finished with a cancelled logout.
THEOREM WaitersAreServed == Spec => []NobodyWaitsInVain
<1>1. IInv => NobodyWaitsInVain
  <2> SUFFICES ASSUME IInv, ~Confused
               PROVE  /\ client.state = "waits" => toServer # <<>> \/ toClient # <<>>
                      /\ srv.phase = "QUERY_END_SESSION" /\ srv.asked /\ srv.conn => Busy
    BY DEF NobodyWaitsInVain
  <2>1. ASSUME client.state = "waits" PROVE toServer # <<>> \/ toClient # <<>>
    <3>1. \/ Core(srv, toClient, toServer, client)
          \/ Crossed(srv, toClient, toServer, client)
      BY <2>1, GoodOrCrossed
    <3>2. Has(toServer, "InteractRequest") \/ Carries(toClient, "Interact")
      BY <2>1, <3>1 DEF Core, Expects, Crossed
    <3> QED
      BY <3>2 DEF Has, Carries
  <2>2. ASSUME srv.phase = "QUERY_END_SESSION", srv.asked, srv.conn PROVE Busy
    <3>1. client.state # "gone"
      BY <2>2 DEF IInv, GoneIsOut, Connected
    <3>2. Owed(toClient, toServer, client) \/ client.state = "waits2"
      BY <2>2, <3>1, GoodOrCrossed DEF Waiting
    <3>3. HasSave(toClient) => SavesUnderWay # {}
      BY DEF HasSave, IsSave, SavesUnderWay
    <3>4. Answered(toServer) => toServer # <<>>
      BY DEF Answered, Has
    <3>5. Saving(client) => client.state \notin {"idle", "frozen"}
      BY DEF Saving
    <3> QED
      BY <3>2, <3>3, <3>4, <3>5 DEF Owed, Busy, BusyWith
  <2> QED
    BY <2>1, <2>2
<1> QED
  BY <1>1, Invariant, PTL

===============================================================================
