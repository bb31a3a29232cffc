----------------------------- MODULE ShellDialog -----------------------------
(***************************************************************************)
(* The confirmation dialog of a logout: the shell process shows it, the    *)
(* proxy of scsm-shell.c asks for it and keeps it up to date, and the      *)
(* manager (scsm-manager.c) waits for what the user decides.               *)
(*                                                                         *)
(* Calls to the shell keep their order.  Its signals do too, but they may  *)
(* overtake an answer to Open, which takes more turns of the main loop.    *)
(* The shell may die and come back; its name's watch and the proxy learn   *)
(* of that separately.  The query phase itself is module EndSession.       *)
(***************************************************************************)
EXTENDS Integers, Sequences, FiniteSets, Functions

CONSTANTS
  Inhibitors,    \* logout inhibitors of applications
  Jit,           \* just-in-time inhibitors, made for clients in a logout
  DialogTypes,   \* what may be asked for, of LOGOUT and SHUTDOWN
  LogoutPrompt,  \* GSettings key logout-prompt
  MaxOpen,       \* bound: calls of Open that have not been answered
  MaxSignals     \* bound: signals of the shell under way

LogoutTypes == {"LOGOUT", "SHUTDOWN"}

ASSUME JitAssumption == Inhibitors \cap Jit = {}
\* Restart is handled as shutdown is.
ASSUME TypesAssumption == DialogTypes \subseteq LogoutTypes /\ DialogTypes # {}
ASSUME PromptAssumption == LogoutPrompt \in BOOLEAN
ASSUME BoundsAssumption == MaxOpen \in Nat \ {0} /\ MaxSignals \in Nat \ {0, 1}

VARIABLES
  scsm,     \* the session manager, see SessionManager
  calls,    \* calls on the way to the shell
  pending,  \* calls of Open the shell has taken and not answered
  replies,  \* its answers on the way back
  signals,  \* its signals on the way back
  dialog,   \* the dialog in the shell, see Dialog
  alive,    \* the shell owns its name
  lost,     \* the proxy has yet to learn that the name's owner has gone
  missed,   \* history: an update of the dialog has been dropped
  died      \* history: a shell that was waited for has died, and none called since

vars == <<scsm, calls, pending, replies, signals, dialog, alive, lost, missed, died>>

AnyType == CHOOSE type \in DialogTypes : TRUE
NoDialog == [shown |-> FALSE, type |-> AnyType, inhibitors |-> {}]
Dialog == [shown : BOOLEAN, type : LogoutTypes, inhibitors : SUBSET (Inhibitors \cup Jit)]

Calls == [method : {"Open"}, type : LogoutTypes, inhibitors : SUBSET (Inhibitors \cup Jit)]
         \cup [method : {"Close"}]
Signals == {"Closed", "Canceled", "ConfirmedLogout", "ConfirmedShutdown"}

SessionManager ==
  [\* ScsmShellPrivate: dialog_is_open tells that Open is unanswered, update that
   \* the idle source is queued, watching that the store's signals queue it
   is_running : BOOLEAN, proxy : BOOLEAN, dialog_is_open : BOOLEAN,
   type : LogoutTypes, update : BOOLEAN, watching : BOOLEAN,
   \* ScsmManagerPrivate; preparing: the shutdown-prepared handler is connected
   phase : {"RUNNING", "QUERY_END_SESSION", "END_SESSION", "EXIT"},
   mode : {"NORMAL", "FORCE"}, logout_type : LogoutTypes \cup {"NONE"},
   preparing : BOOLEAN, handlers : BOOLEAN,
   inhibitors : SUBSET (Inhibitors \cup Jit),
   out : {<<>>}]  \* calls a callback makes, see Handled

-----------------------------------------------------------------------------
(* The functions of scsm-shell.c and scsm-manager.c, from the state before  *)
(* the call to the state after it.                                          *)

\* Definitions named Mutant... are the neighbouring definition with a plausible
\* bug; no behaviour uses them, the runs are shown to notice them.

\* scsm_shell_open_end_session_dialog(): an unanswered Open is not repeated,
\* whether its type is the same or not.
Open(s, type) ==
  IF s.dialog_is_open THEN s
  ELSE [s EXCEPT !.proxy = TRUE, !.watching = TRUE, !.dialog_is_open = TRUE,
                 !.type = type,
                 !.out = Append(@, [method |-> "Open", type |-> type,
                                    inhibitors |-> s.inhibitors])]

\* scsm_shell_close_end_session_dialog()
Close(s) ==
  IF ~s.proxy THEN s
  ELSE [s EXCEPT !.dialog_is_open = FALSE, !.out = Append(@, [method |-> "Close"])]

MutantShowUnlessRunning(s) ==
  IF ~s.is_running THEN [s EXCEPT !.handlers = TRUE]
  ELSE [Open(s, s.logout_type) EXCEPT !.handlers = TRUE]

\* show_shell_end_session_dialog(), connect_shell_dialog_signals()
Show(s) ==
  IF ~s.is_running THEN s
  ELSE [Open(s, s.logout_type) EXCEPT !.handlers = TRUE]

\* end_phase() of the last phases: a shutdown is prepared by logind first.
EndPhase(s) ==
  CASE s.phase = "RUNNING" -> [s EXCEPT !.phase = "QUERY_END_SESSION"]
    [] s.phase = "QUERY_END_SESSION" ->
         IF s.logout_type = "SHUTDOWN" THEN [s EXCEPT !.preparing = TRUE]
         ELSE [s EXCEPT !.phase = "END_SESSION"]
    [] OTHER -> [s EXCEPT !.phase = "EXIT"]

\* end_session_or_show_shell_dialog()
EndSessionOrShowDialog(s) ==
  IF s.mode = "NORMAL" /\ (LogoutPrompt \/ s.inhibitors # {})
  THEN Show(s) ELSE EndPhase(s)

\* queue_end_session_dialog_update(), a handler of the store's signals.
QueueUpdate(s) == [s EXCEPT !.update = @ \/ s.watching]

MutantAddedUnseen(s, i) == [s EXCEPT !.inhibitors = @ \cup {i}]

Added(s, i) == QueueUpdate([s EXCEPT !.inhibitors = @ \cup {i}])

\* The manager's handler of "removed" runs before that of the shell's proxy.
\* If it opens the dialog it connects the latter anew, which is not called then.
Removed(s, i) ==
  LET r == [s EXCEPT !.inhibitors = @ \ {i}]
      m == IF s.phase \in {"QUERY_END_SESSION", "END_SESSION"}
           THEN EndSessionOrShowDialog(r) ELSE r
  IN IF m.out # s.out THEN m ELSE QueueUpdate(m)

\* cancel_end_session(); the just-in-time inhibitors are removed in RUNNING.
CancelEndSession(s) ==
  LET r == [s EXCEPT !.phase = "RUNNING", !.mode = "NORMAL",
                     !.logout_type = "NONE", !.inhibitors = @ \ Jit]
  IN IF s.phase = "RUNNING" THEN s
     ELSE IF s.inhibitors \cap Jit = {} THEN r ELSE QueueUpdate(r)

\* on_shell_end_session_dialog_canceled(), of "canceled" and "open-failed".
DialogCanceled(s) ==
  IF ~s.handlers THEN s ELSE [CancelEndSession(s) EXCEPT !.handlers = FALSE]

\* _handle_end_session_dialog_response() and the handlers that call it.
DialogConfirmed(s, type) ==
  CASE ~s.handlers -> s
    [] s.handlers /\ s.phase \in {"RUNNING", "QUERY_END_SESSION"} ->
         [EndPhase([s EXCEPT !.mode = "FORCE", !.logout_type = type])
            EXCEPT !.handlers = FALSE]
    [] OTHER -> [s EXCEPT !.handlers = FALSE]

MutantOpenFinishedKeepsOpen(s, ok) ==
  LET r == [s EXCEPT !.update = FALSE]
  IN IF ok THEN [r EXCEPT !.dialog_is_open = FALSE] ELSE DialogCanceled(r)

\* on_open_finished()
OpenFinished(s, ok) ==
  LET r == [s EXCEPT !.update = FALSE, !.dialog_is_open = FALSE]
  IN IF ok THEN r ELSE DialogCanceled(r)

\* on_end_session_dialog_dbus_signal(); nobody is connected to "closed".
DialogSignal(s, signal) ==
  LET r == [s EXCEPT !.dialog_is_open = FALSE, !.update = FALSE, !.watching = FALSE]
  IN CASE signal = "Closed" -> r
       [] signal = "Canceled" -> DialogCanceled(r)
       [] signal = "ConfirmedLogout" -> DialogConfirmed(r, "LOGOUT")
       [] signal = "ConfirmedShutdown" -> DialogConfirmed(r, "SHUTDOWN")

-----------------------------------------------------------------------------
(* The session manager's steps.                                             *)

Opens(out) == {i \in 1 .. Len(out) : out[i].method = "Open"}
Errors(n) == [i \in 1 .. n |-> "error"]

\* A callback has run, which leaves the session manager as s.  Calls to a name
\* nobody owns are answered with an error.
Handled(s) ==
  /\ scsm' = [s EXCEPT !.out = <<>>]
  /\ IF alive THEN calls' = calls \o s.out /\ UNCHANGED replies
     ELSE /\ replies' = replies \o Errors(Cardinality(Opens(s.out)))
          /\ UNCHANGED calls
  /\ Len(calls') + pending + Len(replies') <= MaxOpen
  /\ missed' = CASE Opens(s.out) # {} -> FALSE
                 [] scsm.update /\ ~s.update -> TRUE
                 [] OTHER -> missed
  /\ died' = (died /\ ~(alive /\ Opens(s.out) # {}))

InSession == scsm.phase # "EXIT"
ShellUnchanged == UNCHANGED <<pending, dialog, alive, lost>>

Init ==
  /\ scsm = [is_running |-> TRUE, proxy |-> FALSE, dialog_is_open |-> FALSE,
             type |-> AnyType, update |-> FALSE, watching |-> FALSE,
             phase |-> "RUNNING", mode |-> "NORMAL", logout_type |-> "NONE",
             preparing |-> FALSE, handlers |-> FALSE, inhibitors |-> {}, out |-> <<>>]
  /\ calls = <<>> /\ pending = 0 /\ replies = <<>> /\ signals = <<>>
  /\ dialog = NoDialog
  /\ alive = TRUE /\ lost = FALSE /\ missed = FALSE /\ died = FALSE

\* Logout() or Shutdown() in a running session.
Logout(type) ==
  /\ InSession /\ scsm.phase = "RUNNING"
  /\ Handled(EndPhase([scsm EXCEPT !.mode = "NORMAL", !.logout_type = type]))
  /\ ShellUnchanged /\ UNCHANGED signals

\* query_end_session_complete(): everybody has answered or the timer has fired;
\* or Logout() again.
QueryEndSessionComplete ==
  /\ scsm.phase = "QUERY_END_SESSION"
  /\ Handled(EndSessionOrShowDialog(scsm))
  /\ ShellUnchanged /\ UNCHANGED signals

\* A client cancels the logout.
Cancel ==
  /\ InSession /\ scsm.phase # "RUNNING"
  /\ Handled(CancelEndSession(scsm))
  /\ ShellUnchanged /\ UNCHANGED signals

\* on_shutdown_prepared(); success in another phase is an assertion that fails,
\* see EndSession.
ShutdownPrepared ==
  /\ InSession /\ scsm.preparing
  /\ \/ /\ scsm.phase = "QUERY_END_SESSION"
        /\ Handled([scsm EXCEPT !.preparing = FALSE, !.phase = "END_SESSION"])
     \/ Handled(CancelEndSession(Close([scsm EXCEPT !.preparing = FALSE,
                                                    !.handlers = FALSE])))
  /\ ShellUnchanged /\ UNCHANGED signals

InhibitorAdded(i) ==
  /\ InSession /\ i \notin scsm.inhibitors
  /\ i \in Jit => scsm.phase = "QUERY_END_SESSION"
  /\ Handled(Added(scsm, i))
  /\ ShellUnchanged /\ UNCHANGED signals

InhibitorRemoved(i) ==
  /\ InSession /\ i \in scsm.inhibitors
  /\ Handled(Removed(scsm, i))
  /\ ShellUnchanged /\ UNCHANGED signals

\* on_need_end_session_dialog_update()
NeedUpdate ==
  /\ InSession /\ scsm.update
  /\ Handled(Open([scsm EXCEPT !.update = FALSE], scsm.type))
  /\ ShellUnchanged /\ UNCHANGED signals

OnOpenFinished ==
  /\ InSession /\ replies # <<>>
  /\ LET s == OpenFinished(scsm, Head(replies) = "ok")
     IN /\ scsm' = s
        /\ missed' = (missed \/ (scsm.update /\ ~s.update))
  /\ replies' = Tail(replies)
  /\ ShellUnchanged /\ UNCHANGED <<calls, signals, died>>

OnDialogSignal ==
  /\ InSession /\ signals # <<>>
  /\ Handled(DialogSignal(scsm, Head(signals)))
  /\ signals' = Tail(signals)
  /\ ShellUnchanged

\* on_shell_name_appeared(), on_shell_name_vanished()
OnShellName ==
  /\ InSession /\ scsm.is_running # alive
  /\ scsm' = [scsm EXCEPT !.is_running = alive]
  /\ UNCHANGED <<calls, pending, replies, signals, dialog, alive, lost, missed, died>>

\* on_end_session_dialog_name_owner_changed(), no owner.
OnNameOwnerLost ==
  /\ InSession /\ lost
  /\ scsm' = [scsm EXCEPT !.proxy = FALSE]
  /\ lost' = FALSE
  /\ UNCHANGED <<calls, pending, replies, signals, dialog, alive, missed, died>>

-----------------------------------------------------------------------------
(* The shell's steps, external.                                             *)

\* It shows or updates the dialog, or refuses to.
ShellOpens ==
  /\ calls # <<>> /\ Head(calls).method = "Open"
  /\ \/ /\ dialog' = [shown |-> TRUE, type |-> Head(calls).type,
                      inhibitors |-> Head(calls).inhibitors]
        /\ pending' = pending + 1
        /\ UNCHANGED replies
     \/ /\ ~dialog.shown
        /\ replies' = Append(replies, "error")
        /\ UNCHANGED <<dialog, pending>>
  /\ calls' = Tail(calls)
  /\ UNCHANGED <<scsm, signals, alive, lost, missed, died>>

ShellAnswers ==
  /\ pending > 0
  /\ replies' = Append(replies, "ok")
  /\ pending' = pending - 1
  /\ UNCHANGED <<scsm, calls, signals, dialog, alive, lost, missed, died>>

ShellCloses ==
  /\ calls # <<>> /\ Head(calls).method = "Close"
  /\ calls' = Tail(calls)
  /\ dialog' = NoDialog
  /\ signals' = IF dialog.shown THEN Append(signals, "Closed") ELSE signals
  /\ Len(signals') <= MaxSignals
  /\ UNCHANGED <<scsm, pending, replies, alive, lost, missed, died>>

\* The user decides, or the dialog does after AUTOMATIC_ACTION_TIMEOUT.
UserDecides ==
  /\ dialog.shown
  /\ \E decision \in {"Canceled", IF dialog.type = "LOGOUT" THEN "ConfirmedLogout"
                                  ELSE "ConfirmedShutdown"} :
       signals' = signals \o <<decision, "Closed">>
  /\ Len(signals') <= MaxSignals
  /\ dialog' = NoDialog
  /\ UNCHANGED <<scsm, calls, pending, replies, alive, lost, missed, died>>

\* The shell dies: whatever has not been answered fails.
ShellDies ==
  /\ alive /\ InSession
  /\ alive' = FALSE
  /\ died' = (died \/ scsm.handlers \/ scsm.dialog_is_open)
  /\ lost' = (lost \/ scsm.proxy)
  /\ dialog' = NoDialog
  /\ pending' = 0 /\ calls' = <<>>
  /\ replies' = replies \o Errors(pending + Cardinality(Opens(calls)))
  /\ UNCHANGED <<scsm, signals, missed>>

ShellStarts ==
  /\ ~alive /\ InSession
  /\ alive' = TRUE
  /\ UNCHANGED <<scsm, calls, pending, replies, signals, dialog, lost, missed, died>>

Next ==
  \/ \E type \in DialogTypes : Logout(type)
  \/ QueryEndSessionComplete
  \/ Cancel
  \/ ShutdownPrepared
  \/ \E i \in Inhibitors \cup Jit : InhibitorAdded(i) \/ InhibitorRemoved(i)
  \/ NeedUpdate
  \/ OnOpenFinished
  \/ OnDialogSignal
  \/ OnShellName
  \/ OnNameOwnerLost
  \/ ShellOpens
  \/ ShellAnswers
  \/ ShellCloses
  \/ UserDecides
  \/ ShellDies
  \/ ShellStarts

Spec == Init /\ [][Next]_vars

\* Sources of the main loop that are ready are dispatched; a living shell
\* answers, and its dialog decides after AUTOMATIC_ACTION_TIMEOUT at the latest.
Fairness ==
  /\ WF_vars(OnOpenFinished) /\ WF_vars(OnDialogSignal)
  /\ WF_vars(ShutdownPrepared) /\ WF_vars(NeedUpdate)
  /\ WF_vars(ShellOpens) /\ WF_vars(ShellCloses) /\ WF_vars(ShellAnswers)
  /\ WF_vars(UserDecides)

FairSpec == Spec /\ Fairness

-----------------------------------------------------------------------------
(* Properties                                                               *)

\* Types, and the bounds on calls and signals; a logout has a type, even one that
\* a dialog left over from an earlier one has started.
TypeOK ==
  /\ scsm \in SessionManager
  /\ scsm.phase # "RUNNING" => scsm.logout_type # "NONE"
  /\ calls \in Seq(Calls) /\ replies \in Seq({"ok", "error"})
  /\ pending \in 0 .. MaxOpen
  /\ Len(calls) + pending + Len(replies) <= MaxOpen
  /\ signals \in Seq(Signals) /\ Len(signals) <= MaxSignals
  /\ dialog \in Dialog
  /\ alive \in BOOLEAN /\ lost \in BOOLEAN /\ missed \in BOOLEAN /\ died \in BOOLEAN

OpenUnderWay == pending > 0 \/ Opens(calls) # {}

\* dialog_is_open, which makes every further Open a no-op, is left behind by
\* nothing: an answer that resets it is due.
OpenWillFinish == scsm.dialog_is_open => OpenUnderWay \/ replies # <<>>

\* The dialog names those who inhibit, once updates have been made, unless one
\* has been dropped because Open was unanswered.
InhibitorsShown ==
  dialog.shown /\ scsm.watching /\ ~scsm.update /\ ~missed /\ calls = <<>>
    => dialog.inhibitors = scsm.inhibitors

\* While the manager waits for the dialog there is one, or it is about to be
\* shown, or the decision or failure is on its way; unless the shell has died.
DecisionIsDue ==
  scsm.phase = "QUERY_END_SESSION" /\ scsm.handlers /\ ~died
    => \/ dialog.shown \/ OpenUnderWay \/ "error" \in Range(replies)
       \/ Range(signals) \ {"Closed"} # {}

\* A query that waits for the dialog is decided, unless the shell dies.
QueryIsDecided ==
  scsm.phase = "QUERY_END_SESSION" /\ scsm.handlers
    ~> scsm.phase # "QUERY_END_SESSION" \/ died

=============================================================================
