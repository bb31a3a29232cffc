------------------------------ MODULE XsmpServer ------------------------------
(* The server side of XSMP (scsm-xsmp-server.c): how a session manager enters  *)
(* its cookies into the user's ICE authority file, which the managers of all   *)
(* of the user's sessions rewrite one after another, and what becomes of a     *)
(* connection until it is an XSMP client in the manager's store.  What a       *)
(* client does then is in XsmpClient.                                          *)
(* Definitions named Mutant... are plausible bugs that no behaviour uses.      *)
EXTENDS Naturals, Sequences, FiniteSets, SequencesExt

CONSTANTS
  Managers,      \* the session managers that are started, each once
  Ids,           \* network ids: a socket named after a process id, used again
  Connections,   \* the connections that XSMP clients open
  None           \* no manager

ASSUME NoneAssumption == None \notin Managers
ASSUME IdsAssumption == Ids # {}

VARIABLES
  manager,   \* each manager's progress, network id, entries to write, and stopping
  lock,      \* who made the lock file of the authority file, and whether it is old
  file,      \* the authority file's entries, in order
  torn,      \* a manager has died while it was writing the file
  conn       \* each connection: its state, its manager, the cookie the client
             \* found, and the auth watch and protocol timer of the server

vars == <<manager, lock, file, torn, conn>>

Entry(protocol, m) == [protocol |-> protocol, id |-> manager[m].id, cookie |-> m]

Alive(m) == manager[m].stage \in {"locking", "reading", "writing", "listening"}

\* What a client finds for a protocol and a network id: the first entry counts.
Lookup(protocol, id) ==
  LET found == {i \in DOMAIN file : file[i].protocol = protocol /\ file[i].id = id}
  IN IF found = {} THEN None ELSE file[Min(found)].cookie

NoConnection == [state |-> "none", server |-> None, known |-> FALSE,
                 watch |-> FALSE, timer |-> FALSE]

Init ==
  /\ manager = [m \in Managers |-> [stage |-> "unborn", id |-> CHOOSE i \in Ids : TRUE,
                                    entries |-> <<>>, stopping |-> FALSE]]
  /\ lock = [holder |-> None, old |-> FALSE]
  /\ file = <<>>
  /\ torn = FALSE
  /\ conn = [c \in Connections |-> NoConnection]

-----------------------------------------------------------------------------
\* setup_listener(): the sockets are made; no living process has the same id.
SetupListener(m, id) ==
  /\ manager[m].stage = "unborn"
  /\ \A other \in Managers : Alive(other) => manager[other].id # id
  /\ manager' = [manager EXCEPT ![m].stage = "locking", ![m].id = id]
  /\ UNCHANGED <<lock, file, torn, conn>>

\* IceLockAuthFile() in update_iceauthority(): a lock that is older than ten
\* minutes is broken.
LockAuthFile(m) ==
  /\ manager[m].stage = "locking"
  /\ lock.holder = None \/ lock.old
  /\ lock' = [holder |-> m, old |-> FALSE]
  /\ manager' = [manager EXCEPT ![m].stage = "reading"]
  /\ UNCHANGED <<file, torn, conn>>

\* Ten attempts in twenty seconds have failed: scsm_util_init_error() is fatal.
LockAuthFileFails(m) ==
  /\ manager[m].stage = "locking"
  /\ lock.holder # None
  /\ manager' = [manager EXCEPT ![m].stage = "gone"]
  /\ UNCHANGED <<lock, file, torn, conn>>

MutantReadEntries(m) ==
  /\ manager[m].stage = "reading"
  /\ manager' = [manager EXCEPT ![m].stage = "writing",
       ![m].entries = Append(Reverse(file), Entry("ICE", m)) \o <<Entry("XSMP", m)>>]
  /\ UNCHANGED <<lock, file, torn, conn>>

\* The positions of the entries that are not of a process with this id.
Others(id) == {i \in DOMAIN file : file[i].id # id}

\* These entries, the last one first.
Kept(id) ==
  [k \in 1..Cardinality(Others(id)) |->
     file[CHOOSE i \in Others(id) : Cardinality({j \in Others(id) : i <= j}) = k]]

\* Entries of an older process with this id are dropped, the others are kept in
\* reverse order between the new ones.
ReadEntries(m) ==
  /\ manager[m].stage = "reading"
  /\ manager' = [manager EXCEPT ![m].stage = "writing",
       ![m].entries = <<Entry("XSMP", m)>> \o Kept(manager[m].id) \o <<Entry("ICE", m)>>]
  /\ UNCHANGED <<lock, file, torn, conn>>

\* The file can neither be opened nor be made: the lock is given back, nothing has
\* been read, and setup_listener() ends the manager.
CannotOpenEntries(m) ==
  /\ manager[m].stage = "reading"
  /\ manager' = [manager EXCEPT ![m].stage = "gone"]
  /\ lock' = [holder |-> None, old |-> FALSE]
  /\ UNCHANGED <<file, torn, conn>>

\* Writing over the file from its start, without truncating it: what has been
\* written replaces as many old entries.
WriteEntries(m) ==
  /\ manager[m].stage = "writing"
  /\ \E n \in 1..Len(manager[m].entries) :
       /\ file' = SubSeq(manager[m].entries, 1, n) \o SubSeq(file, n + 1, Len(file))
       /\ IF n = Len(manager[m].entries)
          THEN /\ lock' = [holder |-> None, old |-> FALSE]
               /\ manager' = [manager EXCEPT ![m].stage = "listening", ![m].entries = <<>>]
               /\ UNCHANGED torn
          ELSE \* the process dies before the rest is written
               /\ torn' = TRUE
               /\ manager' = [manager EXCEPT ![m].stage = "gone", ![m].entries = <<>>]
               /\ UNCHANGED lock
  /\ UNCHANGED conn

\* The lock of a process that has died with it gets old.
LockAges ==
  /\ lock.holder # None /\ ~lock.old
  /\ ~Alive(lock.holder)
  /\ lock' = [lock EXCEPT !.old = TRUE]
  /\ UNCHANGED <<manager, file, torn, conn>>

\* The session ends or the process crashes, at any point: its connections end,
\* its lock file and its entries stay.
ManagerEnds(m) ==
  /\ Alive(m)
  /\ manager' = [manager EXCEPT ![m].stage = "gone", ![m].entries = <<>>]
  /\ conn' = [c \in Connections |->
       IF conn[c].server = m THEN [NoConnection EXCEPT !.state = "closed"] ELSE conn[c]]
  /\ UNCHANGED <<lock, file, torn>>

\* scsm_xsmp_server_stop_accepting_new_clients() when a logout begins,
\* scsm_xsmp_server_start_accepting_new_clients() when it is cancelled.
StopOrStartAccepting(m) ==
  /\ manager[m].stage = "listening"
  /\ manager' = [manager EXCEPT ![m].stopping = ~@]
  /\ UNCHANGED <<lock, file, torn, conn>>

-----------------------------------------------------------------------------
MutantAcceptIceConnection(c, m) ==
  /\ manager[m].stage = "listening"
  /\ conn[c].state = "none"
  /\ conn' = [conn EXCEPT ![c] = [state |-> "pending", server |-> m,
                known |-> Lookup("ICE", manager[m].id) = m, watch |-> TRUE, timer |-> FALSE]]
  /\ UNCHANGED <<manager, lock, file, torn>>

\* A client that SESSION_MANAGER sends to this manager looks for its cookie and
\* connects: accept_ice_connection(), auth_ice_connection().
AcceptIceConnection(c, m) ==
  /\ manager[m].stage = "listening"
  /\ conn[c].state = "none"
  /\ conn' = [conn EXCEPT ![c] = [state |-> "pending", server |-> m,
                known |-> Lookup("ICE", manager[m].id) = m, watch |-> TRUE, timer |-> TRUE]]
  /\ UNCHANGED <<manager, lock, file, torn>>

\* free_ice_connection_watch(), and the connection is closed or found closed.
Closed(c) ==
  conn' = [conn EXCEPT ![c].state = "closed", ![c].watch = FALSE, ![c].timer = FALSE]

\* auth_iochannel_watch() when the cookie is wrong, or the client has gone.
AuthFailsOrClientCloses(c) ==
  /\ conn[c].state = "pending" /\ conn[c].watch
  /\ Closed(c)
  /\ UNCHANGED <<manager, lock, file, torn>>

\* The client has proved its cookie and asks for XSMP: accept_xsmp_connection().
\* The auth watch gives way to that of the client.
AcceptXsmpConnection(c) ==
  /\ conn[c].state = "pending" /\ conn[c].watch
  /\ conn[c].known
  /\ ~manager[conn[c].server].stopping
  /\ conn' = [conn EXCEPT ![c].state = "client", ![c].watch = FALSE, ![c].timer = FALSE]
  /\ UNCHANGED <<manager, lock, file, torn>>

\* accept_xsmp_connection() refuses while the session ends: the connection stays
\* as it is, and the client may ask again or go.
RefuseXsmpConnection(c) ==
  /\ conn[c].state = "pending" /\ conn[c].watch
  /\ conn[c].known
  /\ manager[conn[c].server].stopping
  /\ UNCHANGED vars

\* ice_protocol_timeout(), five seconds after the connection was made.
IceProtocolTimeout(c) ==
  /\ conn[c].timer
  /\ Closed(c)
  /\ UNCHANGED <<manager, lock, file, torn>>

\* The client's own watch sees it leave (XsmpClient).
ClientCloses(c) ==
  /\ conn[c].state = "client"
  /\ Closed(c)
  /\ UNCHANGED <<manager, lock, file, torn>>

AllGone == (\A m \in Managers : manager[m].stage = "gone") /\ UNCHANGED vars

Next ==
  \/ \E m \in Managers :
       \/ \E id \in Ids : SetupListener(m, id)
       \/ LockAuthFile(m) \/ LockAuthFileFails(m)
       \/ ReadEntries(m) \/ CannotOpenEntries(m) \/ WriteEntries(m)
       \/ ManagerEnds(m) \/ StopOrStartAccepting(m)
       \/ \E c \in Connections : AcceptIceConnection(c, m)
  \/ LockAges
  \/ \E c \in Connections :
       \/ AuthFailsOrClientCloses(c) \/ AcceptXsmpConnection(c) \/ RefuseXsmpConnection(c)
       \/ IceProtocolTimeout(c) \/ ClientCloses(c)
  \/ AllGone

Spec == Init /\ [][Next]_vars

\* The main loop fires a timer that is due.
Fairness == \A c \in Connections : WF_vars(IceProtocolTimeout(c))

FairSpec == Spec /\ Fairness

-----------------------------------------------------------------------------
\* The locks and connections stay within their types.
TypeOK ==
  /\ lock.holder \in Managers \cup {None} /\ lock.old \in BOOLEAN
  /\ torn \in BOOLEAN
  /\ conn \in [Connections ->
       [state : {"none", "pending", "client", "closed"}, server : Managers \cup {None},
        known : BOOLEAN, watch : BOOLEAN, timer : BOOLEAN]]

\* Whichever sessions come, go or die, unless one died while it was writing: the
\* clients of every running session find its cookies, although an older process
\* had the same network id and left its entries, and the file names no id twice
\* (update_iceauthority never removes a session's own entries when it ends).
CookiesAreFound ==
  ~torn =>
    \A m \in Managers : manager[m].stage = "listening" =>
      \A protocol \in {"ICE", "XSMP"} :
        LET found == {i \in DOMAIN file :
                        file[i].protocol = protocol /\ file[i].id = manager[m].id}
        IN \E i \in DOMAIN file : found = {i} /\ file[i] = Entry(protocol, m)

\* Two managers never read or write the file at once, although the lock of a dead
\* one is broken (update_iceauthority, IceLockAuthFile).
OneWriter ==
  \A m, n \in Managers :
    {manager[m].stage, manager[n].stage} \subseteq {"reading", "writing"} => m = n

\* A connection is looked after by exactly one watch: that of the server while
\* it is pending, with the timer, and the client's afterwards.  The timer never
\* closes the connection of an established client (accept_xsmp_connection).
WatchedOnce ==
  \A c \in Connections :
    /\ conn[c].watch <=> conn[c].state = "pending"
    /\ conn[c].timer <=> conn[c].state = "pending"

\* A connection does not stay pending, whatever the client does or leaves.
PendingIsDecided ==
  \A c \in Connections : conn[c].state = "pending" ~> conn[c].state # "pending"
=============================================================================
