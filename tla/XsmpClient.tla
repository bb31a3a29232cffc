------------------------------ MODULE XsmpClient ------------------------------
(***************************************************************************)
(* One XSMP client as the session manager sees it (scsm-xsmp-client.c):    *)
(* the SaveYourself requests that go to it, at most one at a time and one  *)
(* more in a queue, its answers, and what the manager makes of them.       *)
(*                                                                         *)
(* The two ends talk over a connection that keeps the order of messages    *)
(* but takes its time, so that cancelling a logout, asking again and a     *)
(* late answer cross each other.  The manager (module EndSession) appears  *)
(* with its phases only: other clients, timers and callers may make it go  *)
(* on at any time.  libSM and the client are external and behave as the    *)
(* protocol asks them to.                                                  *)
(***************************************************************************)
EXTENDS Integers, Sequences, SequencesExt

CONSTANT MaxMessages  \* bound: messages under way in one direction

ASSUME MessagesAssumption == MaxMessages \in Nat \ {0}

VARIABLES
  srv,       \* the session manager's end, see Server
  toClient,  \* messages to the client
  toServer,  \* messages to the session manager
  client,    \* the client, see Client
  late       \* history: what the last cancelling has overtaken, see Overtaken

vars == <<srv, toClient, toServer, client, late>>

\* The types of SaveYourself, and -1 for no request.
SmSaveGlobal == 0
SmSaveLocal  == 1
SmSaveBoth   == 2
None         == -1
SaveTypes    == {SmSaveGlobal, SmSaveLocal, SmSaveBoth}

ToClient ==
  [type : {"SaveYourself", "SaveYourselfPhase2", "Interact", "SaveComplete",
           "ShutdownCancelled", "Die"},
   save : SaveTypes \cup {None}, interact : BOOLEAN]

ToServer == {"SaveYourselfRequest", "SaveYourselfPhase2Request", "InteractRequest",
             "InteractDone", "InteractDoneCancel", "SaveYourselfDone"}

Server ==
  [conn : BOOLEAN,                       \* the client is connected
   current_save_yourself : SaveTypes \cup {None},
   next_save_yourself : SaveTypes \cup {None},
   next_allow_interact : BOOLEAN,
   \* libSM: a SaveYourself without SaveYourselfDone, the client may interact,
   \* it interacts, it may cancel the logout
   saving : BOOLEAN, may_interact : BOOLEAN, interacting : BOOLEAN,
   can_cancel : BOOLEAN,
   \* the manager: its phase, the logout is forced, the client is in
   \* query_clients, and in next_query_clients
   phase : {"RUNNING", "QUERY_END_SESSION", "END_SESSION", "EXIT"},
   forced : BOOLEAN, asked : BOOLEAN, last : BOOLEAN,
   out : {<<>>}]                         \* what a callback sends, see Handled

\* The client saves, waits for leave to interact or for phase 2, interacts, is
\* frozen after SaveYourselfDone, or is gone.
Client ==
  [state : {"idle", "saving", "waits", "interacting", "waits2", "frozen", "gone"},
   may_interact : BOOLEAN,  \* and has not done so yet
   phase2 : BOOLEAN,        \* in phase 2 already
   cancelled : BOOLEAN]     \* the save it is busy with has been cancelled

----------------------------------------------------------------------------
(* The session manager's end.  An operator takes the server's record and    *)
(* returns it changed; what it sends is collected in out.                   *)

Message(type) == [type |-> type, save |-> None, interact |-> FALSE]
Send(s, m) == [s EXCEPT !.out = Append(@, m)]

\* SmsSaveYourself(): any type but SmSaveLocal is for a shutdown.
SmsSaveYourself(s, save_type, interact) ==
  Send([s EXCEPT !.saving = TRUE, !.may_interact = interact, !.can_cancel = interact],
       [type |-> "SaveYourself", save |-> save_type, interact |-> interact])

\* Definitions named Mutant... are the neighbouring definition with a plausible
\* bug; no behaviour uses them, the runs are shown to notice them.
MutantDoSaveYourselfUnqueued(s, save_type, allow_interact) ==
  IF s.next_save_yourself # None THEN s
  ELSE SmsSaveYourself([s EXCEPT !.current_save_yourself = save_type],
                       save_type, allow_interact /\ save_type # SmSaveLocal)

\* do_save_yourself()
DoSaveYourself(s, save_type, allow_interact) ==
  IF s.next_save_yourself # None THEN s
  ELSE IF s.current_save_yourself # None
       THEN [s EXCEPT !.next_save_yourself = save_type,
                      !.next_allow_interact = allow_interact]
       ELSE SmsSaveYourself([s EXCEPT !.current_save_yourself = save_type,
                                      !.next_allow_interact = FALSE],
                            save_type, allow_interact /\ save_type # SmSaveLocal)

\* xsmp_query_end_session(), for a client that the query phase asks.
QueryEndSession(s) ==
  DoSaveYourself([s EXCEPT !.asked = TRUE], SmSaveGlobal, ~s.forced)

\* xsmp_end_session() of the first part: with auto-save or without.
EndSession(s) ==
  {DoSaveYourself([s EXCEPT !.phase = "END_SESSION", !.asked = TRUE, !.last = FALSE],
                  save_type, FALSE) : save_type \in {SmSaveBoth, SmSaveGlobal}}

\* xsmp_end_session() with the flag LAST, and xsmp_save_yourself_phase2().
EndSessionLast(s) ==
  Send([s EXCEPT !.asked = TRUE, !.last = FALSE], Message("SaveYourselfPhase2"))

\* xsmp_stop(), in phase EXIT.
Stop(s) == Send([s EXCEPT !.phase = "EXIT", !.asked = FALSE, !.last = FALSE],
                Message("Die"))

MutantCancelEndSessionSilent(s) ==
  [s EXCEPT !.phase = "RUNNING", !.forced = FALSE, !.asked = FALSE, !.last = FALSE,
            !.current_save_yourself = None, !.next_save_yourself = None,
            !.next_allow_interact = FALSE]

\* xsmp_cancel_end_session(), called by the manager's cancel_end_session().
CancelEndSession(s) ==
  Send([s EXCEPT !.can_cancel = FALSE,
                 !.phase = "RUNNING", !.forced = FALSE, !.asked = FALSE, !.last = FALSE,
                 !.current_save_yourself = None, !.next_save_yourself = None,
                 !.next_allow_interact = FALSE],
       Message("ShutdownCancelled"))

\* end_phase() of the manager.
EndPhase(s) == IF s.phase = "QUERY_END_SESSION" THEN EndSession(s) ELSE {Stop(s)}

\* The manager goes on once everybody has answered.
GoOn(s) == IF s.phase = "END_SESSION" /\ s.last THEN {EndSessionLast(s)} ELSE EndPhase(s)

\* scsm_client_end_session_response(), handled by the manager: it goes on if
\* this was the last answer and nobody objects.
EndSessionResponse(s, is_ok, do_last, cancel) ==
  LET objects == ~is_ok /\ ~s.forced
      r == [s EXCEPT !.asked = FALSE,
                     !.last = @ \/ (do_last /\ s.phase = "END_SESSION")]
  IN CASE s.phase \in {"RUNNING", "EXIT"} -> {s}
       [] s.phase \notin {"RUNNING", "EXIT"} /\ cancel -> {CancelEndSession(s)}
       [] OTHER -> {r} \cup (IF objects THEN {} ELSE GoOn(r))

----------------------------------------------------------------------------
(* The callbacks of libSM, which drops messages that do not fit its state.  *)

\* save_yourself_request_callback(), for a checkpoint of the client itself.
\* (A request to log out everybody is Query below; the rest is ignored.)
SaveYourselfRequest(s) == {DoSaveYourself(s, SmSaveLocal, TRUE)}

\* save_yourself_phase2_request_callback()
SaveYourselfPhase2Request(s) ==
  IF s.saving
  THEN EndSessionResponse([s EXCEPT !.current_save_yourself = None], TRUE, TRUE, FALSE)
  ELSE {s}

MutantInteractRequestRefused(s) ==
  IF s.may_interact THEN EndSessionResponse(s, FALSE, FALSE, FALSE) ELSE {s}

\* interact_request_callback(), xsmp_interact()
InteractRequest(s) ==
  IF s.may_interact
  THEN {Send([r EXCEPT !.interacting = TRUE], Message("Interact")) :
          r \in EndSessionResponse(s, FALSE, FALSE, FALSE)}
  ELSE {s}

\* interact_done_callback()
InteractDone(s, cancel_shutdown) ==
  IF s.interacting /\ (cancel_shutdown => s.can_cancel)
  THEN EndSessionResponse([s EXCEPT !.interacting = FALSE], TRUE, FALSE, cancel_shutdown)
  ELSE {s}

\* save_yourself_done_callback(): what is queued is sent, unless its type is
\* SmSaveGlobal, that is 0; nothing queued, that is -1, is sent as well.
SaveYourselfDone(s) ==
  LET saved == [s EXCEPT !.saving = FALSE, !.may_interact = FALSE]
      complete == IF s.current_save_yourself = None THEN saved
                  ELSE Send([saved EXCEPT !.current_save_yourself = None],
                            Message("SaveComplete"))
      queued(r) ==
        IF r.next_save_yourself = SmSaveGlobal THEN r
        ELSE DoSaveYourself([r EXCEPT !.next_save_yourself = None,
                                      !.next_allow_interact = TRUE],
                            r.next_save_yourself, r.next_allow_interact)
  IN IF s.saving
     THEN {queued(r) : r \in EndSessionResponse(complete, TRUE, FALSE, FALSE)}
     ELSE {s}

\* IceProcessMessages() with one message from the client.
Dispatched(s, m) ==
  CASE m = "SaveYourselfRequest"       -> SaveYourselfRequest(s)
    [] m = "SaveYourselfPhase2Request" -> SaveYourselfPhase2Request(s)
    [] m = "InteractRequest"           -> InteractRequest(s)
    [] m = "InteractDone"              -> InteractDone(s, FALSE)
    [] m = "InteractDoneCancel"        -> InteractDone(s, TRUE)
    [] m = "SaveYourselfDone"          -> SaveYourselfDone(s)

----------------------------------------------------------------------------
(* The steps.                                                               *)

\* The places of the SaveYourself messages on the way to the client; it ignores
\* one without a type.
SavesUnderWay ==
  {i \in DOMAIN toClient : toClient[i].type = "SaveYourself" /\ toClient[i].save # None}

\* The client has not finished with what it was asked; Q is under way from it.
BusyWith(Q) ==
  \/ client.state \notin {"idle", "frozen"}
  \/ SavesUnderWay # {}
  \/ Q # <<>>
Busy == BusyWith(toServer)

\* What a callback that sends out makes of late, when Q is still to be read: a
\* cancelling may overtake a request that the client has not finished ("answer"),
\* and so may the next SaveYourself after that ("request").
Overtaken(out, Q) ==
  LET told  == Message("ShutdownCancelled") \in Range(out)
      asked == \E m \in Range(out) : m.type = "SaveYourself" /\ m.save # None
  IN IF ~told /\ ~(late = "answer" /\ asked) THEN late
     ELSE IF ~BusyWith(Q) THEN "nothing"
     ELSE IF told /\ late # "request" THEN "answer"
     ELSE "request"

\* The session manager's callback has run, which leaves it as s, and Q to be read.
Handled(s, Q) ==
  /\ toClient' = toClient \o s.out
  /\ Len(toClient') <= MaxMessages
  /\ srv' = [s EXCEPT !.out = <<>>]
  /\ toServer' = Q
  /\ late' = Overtaken(s.out, Q)

Connected == srv.conn /\ srv.phase # "EXIT"

\* register_client_callback(): a client that is new, not one that has been
\* restarted with its previous id, is told to save its state at once.
Registered(previous_id) ==
  LET s == [conn |-> TRUE, current_save_yourself |-> None,
            next_save_yourself |-> None, next_allow_interact |-> FALSE,
            saving |-> FALSE, may_interact |-> FALSE, interacting |-> FALSE,
            can_cancel |-> FALSE, phase |-> "RUNNING", forced |-> FALSE,
            asked |-> FALSE, last |-> FALSE, out |-> <<>>]
  IN IF previous_id THEN s
     ELSE SmsSaveYourself([s EXCEPT !.current_save_yourself = SmSaveLocal],
                          SmSaveLocal, FALSE)

Init ==
  /\ \E previous_id \in BOOLEAN :
       /\ srv = [Registered(previous_id) EXCEPT !.out = <<>>]
       /\ toClient = Registered(previous_id).out
  /\ toServer = <<>>
  /\ client = [state |-> "idle", may_interact |-> FALSE, phase2 |-> FALSE,
               cancelled |-> FALSE]
  /\ late = "nothing"

\* The manager starts to log out: Logout(), or a client's SaveYourselfRequest.
Query(forced) ==
  /\ Connected
  /\ srv.phase = "RUNNING"
  /\ Handled(QueryEndSession([srv EXCEPT !.phase = "QUERY_END_SESSION", !.forced = forced]),
             toServer)
  /\ UNCHANGED client

\* Another Logout() meanwhile: it changes the mode, and goes on unless a dialog
\* is to be shown, which a forced one does without.
LogoutAgain(forced) ==
  LET r == [srv EXCEPT !.forced = forced]
  IN /\ Connected
     /\ srv.phase # "RUNNING"
     /\ \E s \in EndPhase(r) \cup (IF forced THEN {} ELSE {r}) : Handled(s, toServer)
     /\ UNCHANGED client

\* The manager goes on without an answer of this client, when another one answers,
\* or without anybody's: Shutdown(), a confirmed dialog or a timer.
GoesOn ==
  /\ Connected
  /\ srv.phase # "RUNNING"
  /\ \E s \in GoOn(srv) \cup EndPhase(srv) : Handled(s, toServer)
  /\ UNCHANGED client

\* The manager waits no longer for this client to answer the query.
GivesUp ==
  /\ Connected
  /\ srv.phase = "QUERY_END_SESSION" /\ srv.asked
  /\ srv' = [srv EXCEPT !.asked = FALSE]
  /\ UNCHANGED <<toClient, toServer, client, late>>

\* The logout is cancelled by somebody else.
Cancel ==
  /\ Connected
  /\ srv.phase # "RUNNING"
  /\ Handled(CancelEndSession(srv), toServer)
  /\ UNCHANGED client

\* client_iochannel_watch() with a message.
Dispatch ==
  /\ Connected
  /\ toServer # <<>>
  /\ \E s \in Dispatched(srv, Head(toServer)) : Handled(s, Tail(toServer))
  /\ UNCHANGED client

\* close_connection_callback(), or the watch finds the connection closed or broken:
\* "disconnected" makes the manager forget the client, whose last reference
\* closes the connection.
Disconnect ==
  /\ Connected
  /\ srv' = [srv EXCEPT !.conn = FALSE, !.asked = FALSE]
  /\ client' = [client EXCEPT !.state = "gone"]
  /\ toClient' = <<>> /\ toServer' = <<>>
  /\ UNCHANGED late

\* What the client does with a message; libSM drops those that do not fit.
Received(c, m) ==
  CASE m.type = "SaveYourself" /\ m.save # None ->
         [state |-> "saving", may_interact |-> m.interact, phase2 |-> FALSE,
          cancelled |-> FALSE]
    [] m.type = "SaveYourselfPhase2" /\ c.state = "waits2" ->
         [c EXCEPT !.state = "saving", !.phase2 = TRUE]
    [] m.type = "Interact" /\ c.state = "waits" -> [c EXCEPT !.state = "interacting"]
    [] m.type = "SaveComplete" /\ c.state = "frozen" -> [c EXCEPT !.state = "idle"]
    [] m.type = "ShutdownCancelled" ->
         CASE c.state = "frozen" -> [c EXCEPT !.state = "idle"]
           [] c.state \in {"saving", "waits2"} ->
                [c EXCEPT !.state = "saving", !.may_interact = FALSE, !.cancelled = TRUE]
           [] OTHER -> [c EXCEPT !.cancelled = TRUE]
    [] m.type = "Die" -> [c EXCEPT !.state = "gone"]
    [] OTHER -> c

ClientReceives ==
  /\ toClient # <<>> /\ client.state # "gone"
  /\ client' = Received(client, Head(toClient))
  /\ toClient' = Tail(toClient)
  /\ UNCHANGED <<srv, toServer, late>>

\* The client sends a message and is in another state then.
ClientSends(m, c) ==
  /\ toServer' = Append(toServer, m)
  /\ Len(toServer') <= MaxMessages
  /\ client' = c
  /\ UNCHANGED <<srv, toClient, late>>

ClientSaves ==
  \/ /\ client.state = "saving"
     /\ ClientSends("SaveYourselfDone",
                    [client EXCEPT !.state = IF client.cancelled THEN "idle" ELSE "frozen"])
  \/ /\ client.state = "interacting"
     /\ \E m \in {"InteractDone", "InteractDoneCancel"} :
          ClientSends(m, [client EXCEPT !.state = "saving"])

ClientAsks ==
  \/ /\ client.state = "saving" /\ ~client.cancelled
     /\ \/ /\ client.may_interact
           /\ ClientSends("InteractRequest",
                          [client EXCEPT !.state = "waits", !.may_interact = FALSE])
        \/ /\ ~client.phase2
           /\ ClientSends("SaveYourselfPhase2Request", [client EXCEPT !.state = "waits2"])
  \/ /\ client.state = "idle"
     /\ ClientSends("SaveYourselfRequest", client)

Next ==
  \/ \E forced \in BOOLEAN : Query(forced) \/ LogoutAgain(forced)
  \/ GoesOn
  \/ GivesUp
  \/ Cancel
  \/ Dispatch
  \/ Disconnect
  \/ ClientReceives
  \/ ClientSaves
  \/ ClientAsks

Spec == Init /\ [][Next]_vars

----------------------------------------------------------------------------
(* Properties                                                               *)

\* Types, and the bound on messages.
TypeOK ==
  /\ srv \in Server
  /\ client \in Client
  /\ toClient \in Seq(ToClient) /\ Len(toClient) <= MaxMessages
  /\ toServer \in Seq(ToServer) /\ Len(toServer) <= MaxMessages
  /\ late \in {"nothing", "answer", "request"}

\* The manager has cancelled a logout before the client had finished with it, and
\* asked the client for something else before it then had.  The protocol does
\* not tell the answers of the two requests apart, and nothing is claimed of such
\* a client until the next cancelling finds it idle.
Confused == late = "request"

\* A client that is frozen after SaveYourselfDone is released as soon as it has
\* read what was sent to it, unless a logout is asked about or under way, also
\* when a cancelling has crossed its answer.  A confused client may stay frozen.
FrozenOnlyInLogout ==
  client.state = "frozen" /\ toClient = <<>> /\ toServer = <<>> /\ ~Confused
    => srv.phase # "RUNNING"

\* A client that is busy saving is not sent another SaveYourself, and never two
\* at once, unless it is confused.
OneSaveAtATime ==
  ~Confused => /\ \A i, j \in SavesUnderWay : i = j
               /\ client.state \in {"saving", "waits", "interacting"} => SavesUnderWay = {}

\* Nobody waits in vain: a client that waits for leave to interact is given it, so
\* that a message is under way in either direction, also when the logout has been
\* cancelled meanwhile; and a client that the query waits for owes an answer, or the
\* answer to an older request, which is taken for it.  The client is not confused.
NobodyWaitsInVain ==
  ~Confused =>
    /\ client.state = "waits" => toServer # <<>> \/ toClient # <<>>
    /\ srv.phase = "QUERY_END_SESSION" /\ srv.asked /\ srv.conn => Busy

=============================================================================
