-------------------------- MODULE SessionLifecycle --------------------------
(***************************************************************************)
(* What the session manager promises about the life of a session, whatever *)
(* its queues, timers, inhibitors and dialogs do: clients join a running   *)
(* session only; before a session ends its clients are asked; every caller *)
(* that waits for a shutdown to be accepted has its answer when the        *)
(* session starts to end or goes on; an ended session stays ended.         *)
(***************************************************************************)
EXTENDS Naturals

CONSTANT Clients

VARIABLES stage,    \* running, asking, ending, over
          members,  \* the clients of the session
          waiting   \* callers of Shutdown() and Reboot() without an answer

lvars == <<stage, members, waiting>>

Init == stage = "running" /\ members = {} /\ waiting = 0

\* A request to leave: by Logout(), or by a caller that waits.
Ask ==
  /\ stage = "running"
  /\ stage' = "asking"
  /\ waiting' \in {waiting, waiting + 1}

\* One more caller waits for the answer of a session that is being asked.
AskAgain ==
  /\ stage = "asking"
  /\ stage' = "asking"
  /\ waiting' = waiting + 1

\* The session starts to end.  It may be over in the same step.
End ==
  /\ stage = "asking"
  /\ stage' \in {"ending", "over"}
  /\ waiting' = 0

\* The session is over.  Whoever asked for it only now gets no answer.
Over ==
  /\ stage = "ending"
  /\ stage' = "over"
  /\ waiting' \in {waiting, waiting + 1}

\* Somebody cancels; every waiting caller hears of it.
Cancel ==
  /\ stage \in {"asking", "ending"}
  /\ stage' = "running"
  /\ waiting' = 0

Move == Ask \/ AskAgain \/ End \/ Over \/ Cancel

Join(c) ==
  /\ stage = "running"
  /\ members' = members \cup {c}
  /\ UNCHANGED <<stage, waiting>>

\* A client leaves, which may be what the session was waiting for.
Leave(c) ==
  /\ members' = members \ {c}
  /\ Move \/ UNCHANGED <<stage, waiting>>

Next == \/ Move /\ UNCHANGED members
        \/ \E c \in Clients : Join(c)
        \/ \E c \in members : Leave(c)

Spec == Init /\ [][Next]_lvars
=============================================================================
