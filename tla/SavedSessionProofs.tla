------------------------- MODULE SavedSessionProofs -------------------------
(* Proofs about SavedSession: what the selector shows as selected is what   *)
(* the next login uses, and an ordinary login restores what it finds saved. *)
(* IInv holds the types and, beyond the invariants of the run, what each    *)
(* phase of the session manager leaves to the next one.  That a program is  *)
(* started once rests on the names, ids and programs of what was saved      *)
(* being told apart, in each directory and by all that fill the store.      *)
EXTENDS SavedSession, TLAPS

DirsInv ==
  /\ dirs \in [Sessions -> SUBSET File]
  /\ Sessions \subseteq Names \cup {Plain} /\ link \in Names \cup {Plain, None}
  /\ link = Plain <=> Plain \in Sessions
  /\ marked \subseteq Names \cap Sessions

\* Every saved file has a startup id, and a name of its own in its directory.
FilesInv ==
  \A n \in Sessions : \A f \in dirs[n] :
    f.startup \in Ids /\ \A g \in dirs[n] : f.name = g.name => f = g

\* Only the selector has a selected row.
SelectorInv ==
  selected # None =>
    selected \in Names \cap Sessions /\ mgr.phase = "SELECTOR"
    /\ (link # Plain => link = selected)

\* What is still to be cleared and to be saved, which is nothing before a logout.
LogoutInv ==
  /\ mgr.phase \in {"CLEARING", "SAVING"} => link \in Sessions
  /\ mgr.phase # "CLEARING" => mgr.files = {}
  /\ mgr.phase \notin {"CLEARING", "SAVING"} => mgr.unsaved = {}
  /\ mgr.files \subseteq Current /\ mgr.unsaved \subseteq clients

LoginInv ==
  /\ mgr.phase = "FINDING" => mgr.session # None
  /\ mgr.phase \in {"IDLE", "SELECTOR", "FINDING"} => mgr.apps = {}
  /\ \A a \in mgr.apps : a.startup \in Ids

Filling == mgr.phase \in {"FILLING", "RUNNING"} /\ mgr.kind = "normal" /\ mgr.session # None

Restored(f) == \E a \in mgr.apps : a.startup = f.startup \/ SameService(a, f)

\* A saved application is waiting to be added or restored. Until they all have
\* been, an application with the name of a saved one was itself saved.
FillInv ==
  Filling =>
    /\ \A f \in Current : f \in mgr.todo[2] \/ Restored(f)
    /\ mgr.phase = "RUNNING" => mgr.todo[2] = {}
    /\ mgr.todo[2] \subseteq Current
    /\ \A f \in Current : \A g \in mgr.todo[1] : g.name = f.name => g.startup = f.startup
    /\ mgr.todo[2] # {} =>
         \A f \in Current : \A a \in mgr.apps : a.name = f.name => a.startup = f.startup

TypeInv ==
  /\ mgr \in Manager /\ clients \subseteq Client /\ one_shot \in BOOLEAN
  /\ selected \in Names \cup {None}

IInv == TypeInv /\ DirsInv /\ FilesInv /\ SelectorInv /\ LogoutInv /\ LoginInv /\ FillInv

-----------------------------------------------------------------------------
LEMMA IdleOK == Idle \in Manager
BY SavedSessionAssumption DEF Idle, Manager

LEMMA InitOK == Init => IInv
<1> SUFFICES ASSUME Init PROVE IInv
  OBVIOUS
<1>1. TypeInv
  BY IdleOK DEF Init, TypeInv
<1>2. DirsInv /\ FilesInv
  BY SavedSessionAssumption DEF Init, DirsInv, FilesInv, Sessions
<1>3. SelectorInv /\ LogoutInv /\ LoginInv /\ FillInv
  BY DEF Init, SelectorInv, LogoutInv, LoginInv, FillInv, Filling, Idle
<1> QED
  BY <1>1, <1>2, <1>3 DEF IInv

\* A step that changes nothing that is remembered keeps the files.
LEMMA DirsKept ==
  ASSUME DirsInv, FilesInv, UNCHANGED <<dirs, link>>, marked' \subseteq marked
  PROVE  DirsInv' /\ FilesInv' /\ Sessions' = Sessions /\ Current' = Current
BY DEF DirsInv, FilesInv, Sessions, Current

-----------------------------------------------------------------------------
(* The selector: the manager does not run.                                   *)

LEMMA ManagerRests ==
  ASSUME IInv, mgr.phase \in {"IDLE", "SELECTOR"},
         mgr' = Idle \/ mgr' = [mgr EXCEPT !.phase = "SELECTOR"] \/ mgr' = mgr,
         UNCHANGED clients
  PROVE  mgr' \in Manager /\ LogoutInv' /\ LoginInv' /\ FillInv'
<1>1. mgr' \in Manager /\ mgr'.phase \in {"IDLE", "SELECTOR"}
  BY IdleOK DEF IInv, TypeInv, Manager, Idle
<1>2. mgr'.files = {} /\ mgr'.unsaved = {} /\ mgr'.apps = {}
  BY DEF IInv, TypeInv, Manager, Idle, LogoutInv, LoginInv
<1>3. LogoutInv' /\ LoginInv' /\ FillInv'
  BY <1>1, <1>2 DEF LogoutInv, LoginInv, FillInv, Filling
<1> QED
  BY <1>1, <1>3

LEMMA MoveOK ==
  ASSUME DirsInv, FilesInv, NEW old \in Sessions, NEW new \in NewNames, dirs' = Move(dirs, old, new)
  PROVE  /\ Sessions' = (Sessions \ {old}) \cup {new}
         /\ dirs' \in [Sessions' -> SUBSET File]
         /\ FilesInv'
<1>1. Sessions' = (Sessions \ {old}) \cup {new}
  BY DEF Move, Sessions
<1>2. \A n \in Sessions' : dirs'[n] = IF n = new THEN dirs[old] ELSE dirs[n]
  BY DEF Move, Sessions
<1>3. dirs' \in [Sessions' -> SUBSET File]
  BY <1>1 DEF Move, Sessions, DirsInv
<1>4. FilesInv'
  BY <1>1, <1>2 DEF FilesInv
<1> QED
  BY <1>1, <1>3, <1>4

LEMMA CreatedOK ==
  ASSUME DirsInv, FilesInv, NEW n \in Names, dirs' = Created(n)
  PROVE  /\ Sessions' = Sessions \cup {n}
         /\ dirs' \in [Sessions' -> SUBSET File]
         /\ FilesInv'
<1>1. Sessions' = Sessions \cup {n}
  BY DEF Created, Sessions
<1>2. \A m \in Sessions' : dirs'[m] = IF m \in Sessions THEN dirs[m] ELSE {}
  BY DEF Created, Sessions
<1>3. dirs' \in [Sessions' -> SUBSET File]
  BY <1>1 DEF Created, Sessions, DirsInv
<1>4. FilesInv'
  BY <1>1, <1>2 DEF FilesInv
<1> QED
  BY <1>1, <1>3, <1>4

LEMMA SelectorStartsOK == IInv /\ SelectorStarts => IInv'
<1> SUFFICES ASSUME IInv, SelectorStarts PROVE IInv'
  OBVIOUS
<1>1. mgr' \in Manager /\ LogoutInv' /\ LoginInv' /\ FillInv'
  BY ManagerRests DEF SelectorStarts
<1>2. mgr'.phase = "SELECTOR"
  BY DEF SelectorStarts, IInv, TypeInv, Manager
<1>3. CASE UNCHANGED <<dirs, link>> /\ (selected' = None \/ (link \in Sessions \cap Names /\ selected' = link))
  <2>1. DirsInv' /\ FilesInv' /\ Sessions' = Sessions
    BY <1>3, DirsKept DEF IInv, SelectorStarts
  <2>2. SelectorInv' /\ selected' \in Names \cup {None}
    BY <1>2, <1>3, <2>1 DEF SelectorInv
  <2> QED
    BY <1>1, <2>1, <2>2 DEF IInv, TypeInv, SelectorStarts
<1>4. ASSUME NEW n \in NewNames, link \in {None, Plain}, link' = n,
             dirs' = IF link = Plain THEN Move(dirs, Plain, n) ELSE dirs,
             selected' = IF link = Plain THEN n ELSE None
      PROVE  IInv'
  <2>1. /\ Sessions' = IF link = Plain THEN (Sessions \ {Plain}) \cup {n} ELSE Sessions
        /\ dirs' \in [Sessions' -> SUBSET File] /\ FilesInv'
    <3>1. CASE link = Plain
      BY <1>4, <3>1, MoveOK DEF IInv, DirsInv
    <3>2. CASE link # Plain
      BY <1>4, <3>2 DEF IInv, DirsInv, FilesInv, Sessions
    <3> QED
      BY <3>1, <3>2
  <2>2. n \in Names /\ n # Plain /\ n # None
    BY SavedSessionAssumption DEF NewNames
  <2>3. DirsInv'
    <3>1. marked' = marked /\ marked \subseteq Names \cap Sessions /\ Plain \notin Names
      BY SavedSessionAssumption DEF IInv, DirsInv, SelectorStarts
    <3>2. Sessions' \subseteq Names \cup {Plain} /\ Plain \notin Sessions'
      BY <1>4, <2>1, <2>2 DEF IInv, DirsInv
    <3>3. marked' \subseteq Names \cap Sessions'
      BY <2>1, <3>1
    <3> QED
      BY <1>4, <2>1, <2>2, <3>2, <3>3 DEF DirsInv
  <2>4. SelectorInv' /\ selected' \in Names \cup {None}
    BY <1>2, <1>4, <2>1, <2>2 DEF SelectorInv
  <2> QED
    BY <1>1, <2>1, <2>3, <2>4 DEF IInv, TypeInv, SelectorStarts
<1> QED
  BY <1>3, <1>4 DEF SelectorStarts

LEMMA MadeCurrentOK ==
  ASSUME DirsInv, NEW n \in Names \cup {None}, link' = MadeCurrent(n),
         Plain \in Sessions' <=> Plain \in Sessions
  PROVE  /\ link' \in Names \cup {Plain, None} /\ (link' = Plain <=> Plain \in Sessions')
         /\ link' # Plain => link' = n
BY SavedSessionAssumption DEF DirsInv, MadeCurrent

LEMMA SelectOK == ASSUME NEW n, IInv, Select(n) PROVE IInv'
<1>1. mgr' \in Manager /\ LogoutInv' /\ LoginInv' /\ FillInv'
  BY ManagerRests DEF Select, Selecting
<1>2. n \in Names /\ Sessions' = Sessions /\ n \in Sessions
  BY DEF Select, IInv, DirsInv, Sessions
<1>3. DirsInv' /\ FilesInv' /\ (link' # Plain => link' = n)
  BY <1>2, MadeCurrentOK DEF IInv, DirsInv, FilesInv, Select
<1>4. SelectorInv' /\ selected' \in Names \cup {None}
  BY <1>2, <1>3 DEF SelectorInv, Select, Selecting
<1> QED
  BY <1>1, <1>3, <1>4 DEF IInv, TypeInv, Select

LEMMA NewSessionOK == ASSUME IInv, NewSession PROVE IInv'
<1>1. mgr' \in Manager /\ LogoutInv' /\ LoginInv' /\ FillInv'
  BY ManagerRests DEF NewSession, Selecting
<1>2. ASSUME NEW n \in NewNames, dirs' = Created(n), marked' = marked \cup {n},
             link' = MadeCurrent(n), selected' = n, UNCHANGED mgr
      PROVE  IInv'
  <2>1. n \in Names /\ n # Plain
    BY SavedSessionAssumption DEF NewNames
  <2>2. Sessions' = Sessions \cup {n} /\ dirs' \in [Sessions' -> SUBSET File] /\ FilesInv'
    BY <1>2, <2>1, CreatedOK DEF IInv
  <2>3. /\ link' \in Names \cup {Plain, None} /\ (link' = Plain <=> Plain \in Sessions')
        /\ link' # Plain => link' = n
    BY <1>2, <2>1, <2>2, MadeCurrentOK DEF IInv
  <2>4. DirsInv'
    BY <1>2, <2>1, <2>2, <2>3 DEF IInv, DirsInv
  <2>5. SelectorInv'
    BY <1>2, <2>1, <2>2, <2>3 DEF SelectorInv, NewSession, Selecting
  <2> QED
    BY <1>1, <1>2, <2>1, <2>2, <2>4, <2>5 DEF IInv, TypeInv, NewSession
<1>3. CASE link' = MadeCurrent(None) /\ selected' = None /\ UNCHANGED <<dirs, marked>>
  <2>1. Sessions' = Sessions
    BY <1>3 DEF Sessions
  <2>2. DirsInv' /\ FilesInv'
    BY <1>3, <2>1, MadeCurrentOK DEF IInv, DirsInv, FilesInv
  <2> QED
    BY <1>1, <1>3, <2>2 DEF IInv, TypeInv, SelectorInv, NewSession
<1> QED
  BY <1>2, <1>3 DEF NewSession

LEMMA RemoveSessionOK == ASSUME IInv, RemoveSession PROVE IInv'
<1>1. mgr' \in Manager /\ LogoutInv' /\ LoginInv' /\ FillInv'
  BY ManagerRests DEF RemoveSession, Selecting
<1>2. PICK n \in Sessions \ {selected, Plain} :
        /\ dirs' = [m \in Sessions \ {selected} |-> dirs[m]]
        /\ marked' = marked \ {selected}
        /\ selected' = n /\ link' = MadeCurrent(n)
  BY DEF RemoveSession
<1>3. n \in Names /\ n # selected /\ selected # Plain
  BY SavedSessionAssumption DEF IInv, DirsInv, TypeInv, RemoveSession
<1>4. Sessions' = Sessions \ {selected} /\ \A m \in Sessions' : dirs'[m] = dirs[m]
  BY <1>2 DEF Sessions
<1>5. dirs' \in [Sessions' -> SUBSET File]
  BY <1>2, <1>4 DEF IInv, DirsInv, Sessions
<1>6. FilesInv'
  BY <1>4 DEF IInv, FilesInv
<1>7. /\ link' \in Names \cup {Plain, None} /\ (link' = Plain <=> Plain \in Sessions')
      /\ link' # Plain => link' = n
  BY <1>2, <1>3, <1>4, MadeCurrentOK DEF IInv
<1>8. DirsInv'
  BY <1>2, <1>4, <1>5, <1>7 DEF IInv, DirsInv
<1>9. SelectorInv'
  BY <1>2, <1>3, <1>4, <1>7 DEF SelectorInv, RemoveSession, Selecting
<1> QED
  BY <1>1, <1>2, <1>3, <1>6, <1>8, <1>9 DEF IInv, TypeInv, RemoveSession

LEMMA RenameSessionOK == ASSUME NEW new, IInv, RenameSession(new) PROVE IInv'
<1>1. mgr' \in Manager /\ LogoutInv' /\ LoginInv' /\ FillInv'
  BY ManagerRests DEF RenameSession, Selecting
<1>2. /\ new \in NewNames /\ new \in Names /\ new # Plain
      /\ selected \in Names \cap Sessions /\ selected # Plain
  BY SavedSessionAssumption DEF RenameSession, NewNames, IInv, SelectorInv
<1>3. Sessions' = (Sessions \ {selected}) \cup {new} /\ dirs' \in [Sessions' -> SUBSET File] /\ FilesInv'
  BY <1>2, MoveOK DEF IInv, RenameSession
<1>4. /\ link' \in Names \cup {Plain, None} /\ (link' = Plain <=> Plain \in Sessions')
      /\ link' # Plain => link' = new
  BY <1>2, <1>3, MadeCurrentOK DEF IInv, RenameSession
<1>5. marked' \subseteq Names \cap Sessions'
  BY <1>2, <1>3 DEF IInv, DirsInv, RenameSession
<1>6. DirsInv'
  BY <1>2, <1>3, <1>4, <1>5 DEF IInv, DirsInv
<1>7. SelectorInv'
  BY <1>2, <1>3, <1>4 DEF SelectorInv, RenameSession, Selecting
<1> QED
  BY <1>1, <1>2, <1>3, <1>6, <1>7 DEF IInv, TypeInv, RenameSession

LEMMA SelectorEndsOK == ASSUME IInv, SelectorEnds PROVE IInv'
<1>1. mgr' \in Manager /\ LogoutInv' /\ LoginInv' /\ FillInv'
  BY ManagerRests DEF SelectorEnds, Selecting
<1>2. DirsInv' /\ FilesInv'
  BY DirsKept DEF IInv, SelectorEnds
<1>3. one_shot' \in BOOLEAN
  BY DEF SelectorEnds, IInv, TypeInv
<1> QED
  BY <1>1, <1>2, <1>3 DEF IInv, TypeInv, SelectorInv, SelectorEnds

LEMMA CreateAndSelectOK == ASSUME NEW n \in Names, IInv, CreateAndSelect(n) PROVE IInv'
<1>1. mgr' \in Manager /\ LogoutInv' /\ LoginInv' /\ FillInv'
  BY ManagerRests DEF CreateAndSelect
<1>2. n # Plain /\ selected = None
  BY SavedSessionAssumption DEF CreateAndSelect, IInv, SelectorInv
<1>3. Sessions' = Sessions \cup {n} /\ dirs' \in [Sessions' -> SUBSET File] /\ FilesInv'
  BY CreatedOK DEF IInv, CreateAndSelect
<1>4. link' \in Names \cup {Plain, None} /\ (link' = Plain <=> Plain \in Sessions')
  BY <1>2, <1>3, MadeCurrentOK DEF IInv, CreateAndSelect
<1>5. DirsInv'
  BY <1>3, <1>4 DEF IInv, DirsInv, CreateAndSelect
<1> QED
  BY <1>1, <1>2, <1>3, <1>5 DEF IInv, TypeInv, SelectorInv, CreateAndSelect

-----------------------------------------------------------------------------
(* Login.                                                                    *)

LEMMA LoginOK ==
  ASSUME NEW kind \in {"normal", "failsafe", "systemd"}, IInv, Login(kind)
  PROVE  IInv'
<1>1. DirsInv' /\ FilesInv' /\ Current' = Current
  BY DirsKept DEF IInv, Login
<1>2. mgr' \in Manager
  BY SavedSessionAssumption DEF IInv, TypeInv, Manager, Login
<1>3. /\ mgr'.phase = "FINDING" /\ mgr'.session = Default /\ Default # None
      /\ mgr'.files = mgr.files /\ mgr'.unsaved = mgr.unsaved /\ mgr'.apps = mgr.apps
  BY SavedSessionAssumption DEF IInv, TypeInv, Manager, Login
<1>4. selected = None
  BY DEF IInv, SelectorInv, Login
<1>5. LogoutInv' /\ LoginInv' /\ FillInv'
  BY <1>1, <1>3 DEF IInv, LogoutInv, LoginInv, FillInv, Filling, Login
<1> QED
  BY <1>1, <1>2, <1>4, <1>5 DEF IInv, TypeInv, SelectorInv, Login

\* scsm_util_get_saved_session_dir() adds at most an empty directory.
LEMMA SavedSessionDirOK ==
  ASSUME DirsInv, FilesInv, dirs' = WithSavedSessionDir, link' = LinkOfSavedSessionDir,
         marked' = marked
  PROVE  DirsInv' /\ FilesInv' /\ Current' = Current
         /\ (link = None \/ link \in Sessions => link' \in Sessions')
<1>1. None \notin Names \cup {Plain}
  BY SavedSessionAssumption
<1>2. CASE link = None
  <2>1. dirs' = [n \in Sessions \cup {Plain} |-> IF n = Plain THEN {} ELSE dirs[n]] /\ link' = Plain
    BY <1>2 DEF WithSavedSessionDir, LinkOfSavedSessionDir
  <2>2. Sessions' = Sessions \cup {Plain}
    BY <2>1 DEF Sessions
  <2>3. \A n \in Sessions' : dirs'[n] = IF n = Plain THEN {} ELSE dirs[n]
    BY <2>1, <2>2
  <2>4. dirs' \in [Sessions' -> SUBSET File]
    BY <2>1, <2>2 DEF DirsInv
  <2>5. DirsInv'
    BY <2>1, <2>2, <2>4 DEF DirsInv
  <2>6. FilesInv'
    BY <2>2, <2>3 DEF FilesInv
  <2>7. Current = {} /\ Current' = {}
    BY <1>1, <1>2, <2>1, <2>2, <2>3 DEF Current, DirsInv
  <2> QED
    BY <2>1, <2>2, <2>5, <2>6, <2>7
<1>3. CASE link # None
  <2>1. UNCHANGED <<dirs, link>>
    BY <1>3 DEF WithSavedSessionDir, LinkOfSavedSessionDir
  <2> QED
    BY <1>3, <2>1, DirsKept
<1> QED
  BY <1>2, <1>3

LEMMA CurrentTyped ==
  ASSUME DirsInv, FilesInv
  PROVE  /\ Current \subseteq File
         /\ \A f \in Current : f.startup \in Ids /\ \A g \in Current : f.name = g.name => f = g
BY DEF DirsInv, FilesInv, Current

LEMMA InstalledOK ==
  ASSUME NEW a \in Apps
  PROVE  Installed(a) \in File /\ Installed(a).name = a
BY SavedSessionAssumption DEF Installed, File

LEMMA SourcesOK ==
  ASSUME DirsInv, FilesInv, mgr \in Manager, mgr.session # None
  PROVE  /\ Sources \in [1..3 -> SUBSET File]
         /\ mgr.kind = "normal" =>
              /\ Sources[2] = Current
              /\ \A f \in Current : \A g \in Sources[1] : g.name = f.name => g.startup = f.startup
<1>1. mgr.session \in Definitions /\ Components[mgr.session] \subseteq Apps
  BY SavedSessionAssumption DEF Manager
<1>2. ComponentFiles \subseteq File
  BY <1>1, CurrentTyped, InstalledOK DEF ComponentFiles
<1>3. Autostarted \subseteq File
  BY InstalledOK DEF Autostarted
<1>4. Sources \in [1..3 -> SUBSET File]
  BY <1>2, <1>3, CurrentTyped DEF Sources
<1>5. /\ Sources[1] = ComponentFiles
      /\ mgr.kind = "normal" => Sources[2] = Current
  BY DEF Sources
<1>6. ASSUME mgr.kind = "normal", NEW f \in Current, NEW g \in ComponentFiles, g.name = f.name
      PROVE  g.startup = f.startup
  <2>1. CASE g \in Current
    BY <1>6, <2>1, CurrentTyped
  <2>2. CASE \E a \in Components[mgr.session] :
               g = Installed(a) /\ ~ \E h \in Current : h.name = a
    BY <1>1, <1>6, <2>2, InstalledOK
  <2> QED
    BY <1>6, <2>1, <2>2 DEF ComponentFiles
<1> QED
  BY <1>4, <1>5, <1>6

LEMMA FindSessionOK == ASSUME IInv, FindSession PROVE IInv'
<1>1. /\ mgr.phase = "FINDING" /\ mgr.session # None /\ selected = None
      /\ mgr.files = {} /\ mgr.unsaved = {} /\ mgr \in Manager
      /\ mgr.session \in Definitions
  BY DEF IInv, TypeInv, SelectorInv, LoginInv, LogoutInv, FindSession, Manager
<1>2. DirsInv' /\ FilesInv' /\ Current' = Current
  <2>1. CASE UNCHANGED <<dirs, link>>
    BY <2>1, DirsKept DEF IInv, FindSession
  <2>2. CASE dirs' = WithSavedSessionDir /\ link' = LinkOfSavedSessionDir
    BY <2>2, SavedSessionDirOK DEF IInv, FindSession
  <2> QED
    BY <2>1, <2>2 DEF FindSession
<1>3. SelectorInv' /\ clients' \subseteq Client /\ one_shot' \in BOOLEAN /\ selected' = None
  BY <1>1 DEF IInv, TypeInv, SelectorInv, FindSession
<1>4. CASE mgr' = [mgr EXCEPT !.phase = "FILLING", !.todo = Sources]
  <2>1. mgr' \in Manager
    BY <1>1, <1>4, SourcesOK DEF IInv, Manager
  <2>2. /\ mgr'.phase = "FILLING" /\ mgr'.todo = Sources /\ mgr'.apps = mgr.apps
        /\ mgr'.files = {} /\ mgr'.unsaved = {} /\ mgr'.kind = mgr.kind
    BY <1>1, <1>4 DEF Manager
  <2>3. LogoutInv' /\ LoginInv'
    BY <2>2 DEF IInv, LogoutInv, LoginInv
  <2>4. mgr.apps = {}
    BY <1>1 DEF IInv, LoginInv
  <2>5. FillInv'
    BY <1>1, <1>2, <2>2, <2>4, SourcesOK DEF IInv, FillInv, Filling
  <2> QED
    BY <1>2, <1>3, <2>1, <2>3, <2>5 DEF IInv, TypeInv
<1>5. CASE /\ Fallback[mgr.session] # None
           /\ mgr' = [mgr EXCEPT !.session = Fallback[mgr.session]]
  <2>1. mgr' \in Manager
    BY <1>1, <1>5, SavedSessionAssumption DEF Manager
  <2>2. /\ mgr'.phase = "FINDING" /\ mgr'.session # None /\ mgr'.apps = mgr.apps
        /\ mgr'.files = {} /\ mgr'.unsaved = {}
    BY <1>1, <1>5 DEF Manager
  <2>3. LogoutInv' /\ LoginInv' /\ FillInv'
    BY <1>1, <2>2 DEF IInv, LogoutInv, LoginInv, FillInv, Filling
  <2> QED
    BY <1>2, <1>3, <2>1, <2>3 DEF IInv, TypeInv
<1>6. CASE mgr' = [mgr EXCEPT !.phase = "RUNNING", !.session = None]
  <2>1. mgr' \in Manager
    BY <1>1, <1>6 DEF Manager
  <2>2. /\ mgr'.phase = "RUNNING" /\ mgr'.session = None /\ mgr'.apps = mgr.apps
        /\ mgr'.files = {} /\ mgr'.unsaved = {}
    BY <1>1, <1>6 DEF Manager
  <2>3. LogoutInv' /\ LoginInv' /\ FillInv'
    BY <2>2 DEF IInv, LogoutInv, LoginInv, FillInv, Filling
  <2> QED
    BY <1>2, <1>3, <2>1, <2>3 DEF IInv, TypeInv
<1> QED
  BY <1>4, <1>5, <1>6 DEF FindSession

LEMMA StartOK == ASSUME IInv, Start PROVE IInv'
<1>1. DirsInv' /\ FilesInv' /\ Sessions' = Sessions /\ Current' = Current
  BY DirsKept DEF IInv, Start
<1>2. mgr' \in Manager
  BY DEF IInv, TypeInv, Manager, Start
<1>3. /\ mgr.phase = "FILLING" /\ mgr'.phase = "RUNNING" /\ mgr'.todo = mgr.todo
      /\ mgr'.apps = mgr.apps /\ mgr'.kind = mgr.kind /\ mgr'.session = mgr.session
      /\ mgr'.files = mgr.files /\ mgr'.unsaved = mgr.unsaved /\ mgr.todo[2] = {}
  BY DEF IInv, TypeInv, Manager, Start
<1>4. selected = None /\ LogoutInv' /\ LoginInv'
  BY <1>1, <1>3 DEF IInv, SelectorInv, LogoutInv, LoginInv, Start
<1>5. FillInv'
  BY <1>1, <1>3 DEF IInv, FillInv, Filling, Restored
<1> QED
  BY <1>1, <1>2, <1>4, <1>5 DEF IInv, TypeInv, SelectorInv, Start

LEMMA AddAppOK == ASSUME IInv, AddApp PROVE IInv'
<1>1. DirsInv' /\ FilesInv' /\ Sessions' = Sessions /\ Current' = Current
  BY DirsKept DEF IInv, AddApp
<1>2. /\ mgr \in Manager /\ mgr.phase = "FILLING" /\ selected = None
      /\ mgr.files = {} /\ mgr.unsaved = {} /\ FillInv
  BY DEF IInv, TypeInv, SelectorInv, LogoutInv, AddApp
<1>0. PICK i \in 1..3 :
        /\ \A j \in 1..3 : j < i => mgr.todo[j] = {}
        /\ \E f \in mgr.todo[i] :
             LET provided == {a \in mgr.apps : SameService(a, f)}
                 dups == IF provided # {} THEN provided ELSE {a \in mgr.apps : a.name = f.name}
                 todo == [mgr.todo EXCEPT ![i] = @ \ {f}]
                 required(a) == IF i = 1 THEN mgr.required \cup {a.name} ELSE mgr.required
             IN \/ \E a \in dups : mgr' = [mgr EXCEPT !.todo = todo, !.required = required(a)]
                \/ /\ dups = {}
                   /\ \E id \in IF f.startup = None THEN Fresh ELSE {f.startup} :
                        mgr' = [mgr EXCEPT !.todo = todo, !.required = required(f),
                                           !.apps = @ \cup {[f EXCEPT !.startup = id]}]
  BY Zenon DEF AddApp
<1>3. PICK f \in mgr.todo[i] :
        LET provided == {a \in mgr.apps : SameService(a, f)}
            dups == IF provided # {} THEN provided ELSE {a \in mgr.apps : a.name = f.name}
            todo == [mgr.todo EXCEPT ![i] = @ \ {f}]
            required(a) == IF i = 1 THEN mgr.required \cup {a.name} ELSE mgr.required
        IN \/ \E a \in dups : mgr' = [mgr EXCEPT !.todo = todo, !.required = required(a)]
           \/ /\ dups = {}
              /\ \E id \in IF f.startup = None THEN Fresh ELSE {f.startup} :
                   mgr' = [mgr EXCEPT !.todo = todo, !.required = required(f),
                                      !.apps = @ \cup {[f EXCEPT !.startup = id]}]
  BY <1>0, Zenon
<1> DEFINE todo == [mgr.todo EXCEPT ![i] = @ \ {f}]
<1>4. f \in File /\ todo \in [1..3 -> SUBSET File]
  BY <1>2 DEF Manager
<1>5. \A h : h \in mgr.todo[2] => h \in todo[2] \/ (i = 2 /\ h = f)
  BY <1>2 DEF Manager
<1>6. /\ todo[1] \subseteq mgr.todo[1] /\ todo[2] \subseteq mgr.todo[2]
      /\ todo[2] # {} => i \in {1, 2}
  <2>1. todo[1] \subseteq mgr.todo[1] /\ todo[2] \subseteq mgr.todo[2]
    BY <1>2 DEF Manager
  <2>2. i = 3 => mgr.todo[2] = {}
    <3>1. \A j \in 1..3 : j < i => mgr.todo[j] = {}
      BY <1>0, Zenon
    <3>2. 2 \in 1..3 /\ (i = 3 => 2 < i)
      OBVIOUS
    <3> QED
      BY <3>1, <3>2, Zenon
  <2> HIDE DEF todo
  <2> QED
    BY <2>1, <2>2
<1>7. \A a \in File : a.name \in Apps \cup Ids
  BY DEF File
<1> HIDE DEF todo
<1>8. ASSUME NEW apps \in SUBSET File, mgr.apps \subseteq apps, mgr'.apps = apps,
             mgr'.todo = todo, mgr' \in Manager,
             /\ mgr'.phase = "FILLING" /\ mgr'.kind = mgr.kind /\ mgr'.session = mgr.session
             /\ mgr'.files = {} /\ mgr'.unsaved = {},
             \A a \in apps : a.startup \in Ids,
             Filling /\ i = 2 => Restored(f)',
             Filling /\ todo[2] # {} =>
               \A h \in Current : \A a \in apps : a.name = h.name => a.startup = h.startup
      PROVE  IInv'
  <2>1. LogoutInv' /\ LoginInv'
    BY <1>8 DEF LogoutInv, LoginInv
  <2>2. \A h : Restored(h) => Restored(h)'
    BY <1>8 DEF Restored, SameService
  <2>3. Filling' = Filling
    BY <1>2, <1>8 DEF Filling
  <2>4. ASSUME Filling
        PROVE  /\ \A h \in Current' : h \in mgr'.todo[2] \/ Restored(h)'
               /\ mgr'.todo[2] \subseteq Current'
               /\ \A h \in Current' : \A g \in mgr'.todo[1] : g.name = h.name => g.startup = h.startup
               /\ mgr'.todo[2] # {} =>
                    \A h \in Current' : \A a \in mgr'.apps : a.name = h.name => a.startup = h.startup
    BY <1>1, <1>2, <1>5, <1>6, <1>8, <2>2, <2>4 DEF FillInv
  <2>5. FillInv'
    BY <1>8, <2>3, <2>4 DEF FillInv
  <2> QED
    BY <1>1, <1>2, <1>8, <2>1, <2>5 DEF IInv, TypeInv, SelectorInv, AddApp
<1>9. ASSUME NEW a \in mgr.apps, SameService(a, f) \/ a.name = f.name,
             mgr' = [mgr EXCEPT !.todo = todo,
                                !.required = IF i = 1 THEN @ \cup {a.name} ELSE @]
      PROVE  IInv'
  <2>1. mgr' \in Manager
    BY <1>2, <1>4, <1>7, <1>9 DEF Manager
  <2>2. /\ mgr'.apps = mgr.apps /\ mgr'.todo = todo /\ mgr'.phase = "FILLING" /\ mgr'.kind = mgr.kind
        /\ mgr'.session = mgr.session /\ mgr'.files = {} /\ mgr'.unsaved = {}
    BY <1>2, <1>9 DEF Manager
  <2>3. Filling /\ i = 2 => Restored(f)'
    BY <1>2, <1>3, <1>9, <2>2 DEF FillInv, Restored, SameService
  <2>4. mgr.apps \in SUBSET File /\ \A b \in mgr.apps : b.startup \in Ids
    BY <1>2 DEF Manager, IInv, LoginInv
  <2>5. Filling /\ todo[2] # {} =>
          \A h \in Current : \A b \in mgr.apps : b.name = h.name => b.startup = h.startup
    BY <1>2, <1>6 DEF FillInv
  <2> QED
    BY <1>8, <2>1, <2>2, <2>3, <2>4, <2>5
<1>10. ASSUME NEW id \in IF f.startup = None THEN Fresh ELSE {f.startup},
              mgr' = [mgr EXCEPT !.todo = todo,
                                 !.required = IF i = 1 THEN @ \cup {f.name} ELSE @,
                                 !.apps = @ \cup {[f EXCEPT !.startup = id]}]
       PROVE  IInv'
  <2> DEFINE b == [f EXCEPT !.startup = id]
             apps == mgr.apps \cup {b}
  <2>1. id \in Ids /\ (f.startup # None => id = f.startup)
    BY <1>4 DEF Fresh, File
  <2>2. b \in File /\ b.startup = id /\ b.name = f.name /\ b.provides = f.provides
    BY <1>4, <2>1 DEF File
  <2> HIDE DEF b
  <2>3. mgr.apps \in SUBSET File /\ \A a \in mgr.apps : a.startup \in Ids
    BY <1>2 DEF Manager, IInv, LoginInv
  <2>4. apps \in SUBSET File /\ mgr.apps \subseteq apps /\ \A a \in apps : a.startup \in Ids
    BY <2>1, <2>2, <2>3
  <2>5. mgr' = [mgr EXCEPT !.todo = todo,
                           !.required = IF i = 1 THEN @ \cup {f.name} ELSE @, !.apps = apps]
    BY <1>2, <1>10 DEF b
  <2> HIDE DEF apps
  <2>6. mgr' \in Manager
    BY <1>2, <1>4, <1>7, <2>4, <2>5 DEF Manager
  <2>7. /\ mgr'.apps = apps /\ mgr'.todo = todo /\ mgr'.phase = "FILLING" /\ mgr'.kind = mgr.kind
        /\ mgr'.session = mgr.session /\ mgr'.files = {} /\ mgr'.unsaved = {}
    BY <1>2, <2>5 DEF Manager
  <2>8. None \notin Ids /\ (\A h \in Current : h.startup \in Ids
                              /\ \A g \in Current : g.name = h.name => g = h)
    BY SavedSessionAssumption, CurrentTyped DEF IInv
  <2>9. b \in mgr'.apps
    BY <2>7 DEF apps
  <2>10. Filling /\ i = 2 => f \in Current
    BY <1>2, <1>3 DEF FillInv
  <2>11. Filling /\ i = 2 => Restored(f)'
    BY <2>1, <2>2, <2>8, <2>9, <2>10 DEF Restored
  <2>12. ASSUME Filling, todo[2] # {}, NEW h \in Current, NEW a \in apps, a.name = h.name
         PROVE  a.startup = h.startup
    <3>1. CASE a \in mgr.apps
      BY <1>2, <1>6, <2>12, <3>1 DEF FillInv
    <3>2. CASE a = b /\ i = 1
      <4>1. f.startup = h.startup
        <5>1. f \in mgr.todo[1] /\ f.name = h.name
          BY <1>3, <2>2, <2>12, <3>2
        <5>2. \A g \in mgr.todo[1] : g.name = h.name => g.startup = h.startup
          BY <1>2, <2>12 DEF FillInv
        <5> QED
          BY <5>1, <5>2
      <4> QED
        BY <2>1, <2>2, <2>8, <2>12, <3>2, <4>1
    <3>3. CASE a = b /\ i = 2
      BY <2>1, <2>2, <2>8, <2>10, <2>12, <3>3
    <3> QED
      BY <1>6, <2>12, <3>1, <3>2, <3>3 DEF apps
  <2> QED
    BY <1>8, <2>4, <2>6, <2>7, <2>11, <2>12
<1> QED
  BY <1>3, <1>9, <1>10 DEF todo

-----------------------------------------------------------------------------
(* The session's clients.                                                    *)

LEMMA ClientsChangeOK ==
  ASSUME IInv, Running, clients' \subseteq Client,
         UNCHANGED <<dirs, link, marked, one_shot, selected, mgr>>
  PROVE  IInv'
<1>1. DirsInv' /\ FilesInv' /\ Sessions' = Sessions /\ Current' = Current
  BY DirsKept DEF IInv
<1>2. mgr.phase = "RUNNING" /\ mgr' = mgr
  BY DEF Running
<1>3. selected = None /\ LogoutInv' /\ LoginInv'
  BY <1>1, <1>2 DEF IInv, SelectorInv, LogoutInv, LoginInv
<1>4. FillInv'
  BY <1>1, <1>2 DEF IInv, FillInv, Filling, Restored
<1> QED
  BY <1>1, <1>2, <1>3, <1>4 DEF IInv, TypeInv, SelectorInv

LEMMA AppRegistersOK ==
  ASSUME NEW a \in mgr.apps, NEW saves \in BOOLEAN, IInv, AppRegisters(a, saves)
  PROVE  IInv'
<1>1. a \in File /\ a.startup \in Ids
  BY DEF IInv, TypeInv, LoginInv, Manager
<1>2. [startup |-> a.startup, app_id |-> AppIdOf(a), program |-> a.program, saves |-> saves] \in Client
  BY <1>1 DEF File, Client, AppIdOf
<1> QED
  BY <1>2, ClientsChangeOK DEF AppRegisters, Registers, IInv, TypeInv

LEMMA ProgramRegistersOK ==
  ASSUME NEW program \in Apps \cup {None}, NEW saves \in BOOLEAN, IInv,
         ProgramRegisters(program, saves)
  PROVE  IInv'
<1>1. PICK i \in Fresh :
        Registers([startup |-> i, app_id |-> None, program |-> program, saves |-> saves])
  BY DEF ProgramRegisters
<1>2. [startup |-> i, app_id |-> None, program |-> program, saves |-> saves] \in Client
  BY DEF Fresh, Client
<1> QED
  BY <1>1, <1>2, ClientsChangeOK DEF Registers, IInv, TypeInv

LEMMA ClientLeavesOK == ASSUME NEW c, IInv, ClientLeaves(c) PROVE IInv'
BY ClientsChangeOK DEF ClientLeaves, IInv, TypeInv

-----------------------------------------------------------------------------
(* Logout.                                                                   *)

LEMMA EndSessionOK == ASSUME IInv, EndSession PROVE IInv'
<1>1. PICK auto_save \in AutoSave :
        LET saving == mgr.kind # "systemd" /\ (one_shot \/ auto_save)
        IN /\ one_shot' = (one_shot /\ ~saving)
           /\ dirs' = WithSavedSessionDir /\ link' = LinkOfSavedSessionDir
           /\ IF link = None \/ link \in Sessions
              THEN mgr' = [mgr EXCEPT !.phase = "CLEARING", !.files = Current,
                                      !.unsaved = IF saving THEN clients ELSE {}]
                   /\ UNCHANGED clients
              ELSE mgr' = Idle /\ clients' = {}
  BY Zenon DEF EndSession
<1>2. one_shot' \in BOOLEAN
  BY <1>1 DEF IInv, TypeInv
<1>3. dirs' = WithSavedSessionDir /\ link' = LinkOfSavedSessionDir /\ marked' = marked /\ selected' = selected
  BY <1>1, Zenon DEF EndSession
<1>4. /\ DirsInv' /\ FilesInv' /\ Current' = Current
      /\ (link = None \/ link \in Sessions => link' \in Sessions')
  BY <1>3, SavedSessionDirOK DEF IInv
<1>5. mgr.phase = "RUNNING" /\ mgr \in Manager /\ clients \subseteq Client /\ selected = None
  BY DEF EndSession, Running, IInv, TypeInv, SelectorInv
<1>6. CASE link = None \/ link \in Sessions
  <2>1. PICK unsaved \in SUBSET clients :
          mgr' = [mgr EXCEPT !.phase = "CLEARING", !.files = Current, !.unsaved = unsaved]
    BY <1>1, <1>6
  <2>2. clients' = clients
    BY <1>1, <1>6
  <2>3. mgr' \in Manager
    BY <1>5, <2>1, CurrentTyped DEF IInv, Manager
  <2>4. /\ mgr'.phase = "CLEARING" /\ mgr'.files = Current /\ mgr'.unsaved = unsaved
        /\ mgr'.apps = mgr.apps
    BY <1>5, <2>1 DEF Manager
  <2>5. LogoutInv' /\ LoginInv' /\ FillInv'
    BY <1>4, <1>6, <2>2, <2>4 DEF IInv, LogoutInv, LoginInv, FillInv, Filling
  <2> QED
    BY <1>2, <1>3, <1>4, <1>5, <2>2, <2>3, <2>5 DEF IInv, TypeInv, SelectorInv
<1>7. CASE ~ (link = None \/ link \in Sessions)
  <2>1. mgr' = Idle /\ clients' = {}
    BY <1>1, <1>7
  <2>2. LogoutInv' /\ LoginInv' /\ FillInv' /\ mgr' \in Manager
    BY <2>1, IdleOK DEF LogoutInv, LoginInv, FillInv, Filling, Idle
  <2> QED
    BY <1>2, <1>3, <1>4, <1>5, <2>1, <2>2 DEF IInv, TypeInv, SelectorInv
<1> QED
  BY <1>6, <1>7

\* The directory in use loses or gains files, which have a name of their own.
LEMMA FilesChangeOK ==
  ASSUME DirsInv, FilesInv, link \in Sessions, NEW files \in SUBSET File,
         \A f \in files : f.startup \in Ids /\ \A g \in files : f.name = g.name => f = g,
         dirs' = [dirs EXCEPT ![link] = files], UNCHANGED <<link, marked>>
  PROVE  DirsInv' /\ FilesInv' /\ Sessions' = Sessions /\ Current' = files
<1>1. Sessions' = Sessions /\ dirs' \in [Sessions -> SUBSET File]
  BY DEF DirsInv, Sessions
<1>2. \A n \in Sessions : dirs'[n] = IF n = link THEN files ELSE dirs[n]
  BY DEF DirsInv
<1>3. FilesInv'
  BY <1>1, <1>2 DEF FilesInv
<1>4. DirsInv' /\ Current' = files
  BY <1>1, <1>2 DEF DirsInv, Current
<1> QED
  BY <1>1, <1>3, <1>4

LEMMA ClearOneClientOK == ASSUME IInv, ClearOneClient PROVE IInv'
<1>1. PICK f \in mgr.files :
        /\ dirs' = [dirs EXCEPT ![link] = @ \ {f}]
        /\ mgr' = [mgr EXCEPT !.files = @ \ {f}]
  BY DEF ClearOneClient
<1>2. /\ mgr.phase = "CLEARING" /\ mgr \in Manager /\ link \in Sessions /\ selected = None
      /\ dirs[link] = Current /\ dirs \in [Sessions -> SUBSET File]
  BY DEF ClearOneClient, IInv, TypeInv, LogoutInv, SelectorInv, Current, DirsInv
<1>3. DirsInv' /\ FilesInv' /\ Sessions' = Sessions /\ Current' = Current \ {f}
  <2> DEFINE files == Current \ {f}
  <2>1. files \in SUBSET File /\ dirs' = [dirs EXCEPT ![link] = files]
    BY <1>1, <1>2, CurrentTyped DEF IInv
  <2>2. \A h \in files : h.startup \in Ids /\ \A g \in files : h.name = g.name => h = g
    BY CurrentTyped DEF IInv
  <2> HIDE DEF files
  <2>3. DirsInv' /\ FilesInv' /\ Sessions' = Sessions /\ Current' = files
    BY <1>2, <2>1, <2>2, FilesChangeOK DEF IInv, ClearOneClient
  <2> QED
    BY <2>3 DEF files
<1>4. mgr' \in Manager
  BY <1>1, <1>2 DEF Manager
<1>5. /\ mgr'.phase = "CLEARING" /\ mgr'.files = mgr.files \ {f} /\ mgr'.unsaved = mgr.unsaved
      /\ mgr'.apps = mgr.apps
  BY <1>1, <1>2 DEF Manager
<1>6. LogoutInv' /\ LoginInv' /\ FillInv'
  BY <1>2, <1>3, <1>5 DEF IInv, LogoutInv, LoginInv, FillInv, Filling, ClearOneClient
<1> QED
  BY <1>2, <1>3, <1>4, <1>6 DEF IInv, TypeInv, SelectorInv, ClearOneClient

LEMMA ClearedOK == ASSUME IInv, Cleared PROVE IInv'
<1>1. /\ mgr.phase = "CLEARING" /\ mgr.files = {} /\ mgr \in Manager /\ selected = None
      /\ link \in Sessions
  BY DEF Cleared, IInv, TypeInv, SelectorInv, LogoutInv
<1>2. DirsInv' /\ FilesInv' /\ Sessions' = Sessions /\ Current' = Current
  BY DirsKept DEF IInv, Cleared
<1>3. mgr' \in Manager
  BY <1>1 DEF Manager, Cleared
<1>4. /\ mgr'.phase = "SAVING" /\ mgr'.files = {} /\ mgr'.unsaved = mgr.unsaved
      /\ mgr'.apps = mgr.apps
  BY <1>1 DEF Manager, Cleared
<1>5. LogoutInv' /\ LoginInv' /\ FillInv'
  BY <1>1, <1>2, <1>4 DEF IInv, LogoutInv, LoginInv, FillInv, Filling, Cleared
<1> QED
  BY <1>1, <1>2, <1>3, <1>5 DEF IInv, TypeInv, SelectorInv, Cleared

LEMMA FileOfOK ==
  ASSUME mgr \in Manager, NEW c \in Client
  PROVE  FileOf(c) \in File /\ FileOf(c).startup \in Ids
<1>1. c.startup \in Ids /\ c.app_id \in Apps \cup Ids \cup {None} /\ c.program \in Apps \cup {None}
  BY DEF Client
<1>2. NameOf(c) \in Apps \cup Ids
  BY <1>1 DEF NameOf
<1>3. SavedProvides(c) \subseteq Services
  BY DEF SavedProvides, Manager, File
<1> QED
  BY <1>1, <1>2, <1>3 DEF FileOf, File

LEMMA SaveOneClientOK == ASSUME IInv, SaveOneClient PROVE IInv'
<1>1. PICK c \in mgr.unsaved :
        /\ dirs' = IF c.saves THEN [dirs EXCEPT ![link] =
                       {f \in @ : f.name # FileOf(c).name} \cup {FileOf(c)}] ELSE dirs
        /\ mgr' = [mgr EXCEPT !.unsaved = @ \ {c}]
  BY DEF SaveOneClient
<1>2. /\ mgr.phase = "SAVING" /\ mgr \in Manager /\ link \in Sessions /\ selected = None
      /\ dirs[link] = Current /\ dirs \in [Sessions -> SUBSET File] /\ mgr.files = {}
      /\ c \in Client
  BY DEF SaveOneClient, IInv, TypeInv, LogoutInv, SelectorInv, Current, DirsInv
<1>3. DirsInv' /\ FilesInv' /\ Sessions' = Sessions
  <2>1. CASE ~c.saves
    BY <1>1, <2>1, DirsKept DEF IInv, SaveOneClient
  <2>2. CASE c.saves
    <3> DEFINE saved == FileOf(c)
               files == {f \in Current : f.name # saved.name} \cup {saved}
    <3>1. saved \in File /\ saved.startup \in Ids
      BY <1>2, FileOfOK
    <3>2. dirs' = [dirs EXCEPT ![link] = files]
      BY <1>1, <1>2, <2>2
    <3> HIDE DEF saved
    <3>3. files \in SUBSET File
      BY <3>1, CurrentTyped DEF IInv
    <3>4. \A h \in files : h.startup \in Ids /\ \A g \in files : h.name = g.name => h = g
      BY <3>1, CurrentTyped DEF IInv
    <3> HIDE DEF files
    <3> QED
      BY <1>2, <3>2, <3>3, <3>4, FilesChangeOK DEF IInv, SaveOneClient
  <2> QED
    BY <2>1, <2>2
<1>4. mgr' \in Manager
  BY <1>1, <1>2 DEF Manager
<1>5. /\ mgr'.phase = "SAVING" /\ mgr'.files = {} /\ mgr'.unsaved = mgr.unsaved \ {c}
      /\ mgr'.apps = mgr.apps
  BY <1>1, <1>2 DEF Manager
<1>6. LogoutInv' /\ LoginInv' /\ FillInv'
  BY <1>2, <1>3, <1>5 DEF IInv, LogoutInv, LoginInv, FillInv, Filling, SaveOneClient
<1> QED
  BY <1>2, <1>3, <1>4, <1>6 DEF IInv, TypeInv, SelectorInv, SaveOneClient

LEMMA SaveFailsOK == ASSUME IInv, SaveFails PROVE IInv'
<1>1. mgr.phase = "SAVING" /\ mgr.files = {} /\ mgr \in Manager /\ selected = None
  BY DEF SaveFails, IInv, TypeInv, SelectorInv, LogoutInv
<1>2. DirsInv' /\ FilesInv' /\ Sessions' = Sessions /\ Current' = Current
  BY DirsKept DEF IInv, SaveFails
<1>3. mgr' \in Manager
  BY <1>1 DEF Manager, SaveFails
<1>4. mgr'.phase = "SAVING" /\ mgr'.files = {} /\ mgr'.unsaved = {} /\ mgr'.apps = mgr.apps
  BY <1>1 DEF Manager, SaveFails
<1>5. LogoutInv' /\ LoginInv' /\ FillInv'
  BY <1>1, <1>2, <1>4 DEF IInv, LogoutInv, LoginInv, FillInv, Filling, SaveFails
<1> QED
  BY <1>1, <1>2, <1>3, <1>5 DEF IInv, TypeInv, SelectorInv, SaveFails

LEMMA ExitOK == ASSUME IInv, Exit PROVE IInv'
<1>1. DirsInv' /\ FilesInv'
  BY DirsKept DEF IInv, Exit
<1>2. selected = None
  BY DEF IInv, SelectorInv, Exit
<1>3. mgr' \in Manager /\ LogoutInv' /\ LoginInv' /\ FillInv'
  BY IdleOK DEF Exit, LogoutInv, LoginInv, FillInv, Filling, Idle
<1> QED
  BY <1>1, <1>2, <1>3 DEF IInv, TypeInv, SelectorInv, Exit

-----------------------------------------------------------------------------
(* The theorems.                                                             *)

LEMMA StutterOK == ASSUME IInv, UNCHANGED vars PROVE IInv'
BY DEF vars, IInv, TypeInv, DirsInv, FilesInv, SelectorInv, LogoutInv, LoginInv, FillInv,
       Filling, Restored, SameService, Sessions, Current

LEMMA StepOK == ASSUME IInv, [Next]_vars PROVE IInv'
<1>1. CASE UNCHANGED vars
  BY <1>1, StutterOK
<1>2. ASSUME NEW n \in Names, Select(n) \/ RenameSession(n) \/ CreateAndSelect(n) PROVE IInv'
  BY <1>2, SelectOK, RenameSessionOK, CreateAndSelectOK
<1>3. ASSUME NEW kind \in {"normal", "failsafe", "systemd"}, Login(kind) PROVE IInv'
  BY <1>3, LoginOK
<1>4. ASSUME NEW saves \in BOOLEAN, NEW a \in mgr.apps,
             \/ AppRegisters(a, saves)
             \/ a.program \in Rude /\ ProgramRegisters(a.program, saves)
      PROVE  IInv'
  BY <1>4, AppRegistersOK, ProgramRegistersOK, SavedSessionAssumption
<1>5. ASSUME NEW saves \in BOOLEAN, ProgramRegisters(None, saves) PROVE IInv'
  BY <1>5, ProgramRegistersOK
<1>6. ASSUME NEW c \in clients, ClientLeaves(c) PROVE IInv'
  BY <1>6, ClientLeavesOK
<1> QED
  BY <1>1, <1>2, <1>3, <1>4, <1>5, <1>6, SelectorStartsOK, NewSessionOK, RemoveSessionOK,
     SelectorEndsOK, FindSessionOK, AddAppOK, StartOK, EndSessionOK, ClearOneClientOK,
     ClearedOK, SaveOneClientOK, SaveFailsOK, ExitOK DEF Next

\* The inductive invariant holds in every reachable state.
THEOREM Invariant == Spec => []IInv
BY InitOK, StepOK, PTL DEF Spec

\* The directories, the link and the markers of saved sessions, the manager and its
\* clients have their types, and what a logout has still to clear and to save is
\* there.
THEOREM TypeCorrect == Spec => []TypeOK
<1>1. IInv => TypeOK
  BY DEF IInv, TypeInv, DirsInv, LogoutInv, TypeOK
<1> QED
  BY <1>1, Invariant, PTL

\* There is no link only before there is a session, or when every name is taken; and
\* it points nowhere only while there is no session at all.
LinkInv ==
  /\ link = None => Sessions = {} \/ Names \subseteq Sessions
  /\ link \in Names => link \in Sessions \/ Sessions = {}

LEMMA LinkStep == IInv /\ LinkInv /\ [Next]_vars => LinkInv'
<1> SUFFICES ASSUME IInv, LinkInv, [Next]_vars PROVE LinkInv'
  OBVIOUS
<1>0. /\ Plain \notin Names /\ Plain # None /\ None \notin Names
      /\ DirsInv /\ FilesInv /\ SelectorInv
  BY SavedSessionAssumption DEF IInv
<1>1. ASSUME Sessions' = Sessions, link' = link
      PROVE  LinkInv'
  BY <1>1 DEF LinkInv
<1>2. ASSUME NEW n \in Names, n \in Sessions', link' = MadeCurrent(n)
      PROVE  LinkInv'
  BY <1>0, <1>2 DEF MadeCurrent, LinkInv
<1>3. CASE SelectorStarts
  <2>1. ASSUME NEW n \in NewNames, link \in {None, Plain}, link' = n,
               dirs' = IF link = Plain THEN Move(dirs, Plain, n) ELSE dirs
        PROVE  LinkInv'
    <3>1. n \in Names /\ n \notin Sessions /\ n # None
      BY <1>0 DEF NewNames
    <3>2. CASE link = Plain
      BY <1>0, <2>1, <3>1, <3>2, MoveOK DEF DirsInv, LinkInv
    <3>3. CASE link = None
      <4>1. Sessions' = Sessions /\ Sessions = {}
        BY <1>0, <2>1, <3>1, <3>3 DEF LinkInv, Sessions
      <4> QED
        BY <2>1, <3>1, <4>1 DEF LinkInv
    <3> QED
      BY <2>1, <3>2, <3>3
  <2>2. CASE UNCHANGED <<dirs, link>>
    BY <1>1, <2>2 DEF Sessions
  <2> QED
    BY <1>3, <2>1, <2>2 DEF SelectorStarts
<1>4. ASSUME NEW n \in Names, Select(n)
      PROVE  LinkInv'
  BY <1>2, <1>4 DEF Select, Sessions
<1>5. CASE NewSession
  <2>1. ASSUME NEW n \in NewNames, dirs' = Created(n), link' = MadeCurrent(n)
        PROVE  LinkInv'
    BY <1>0, <1>2, <2>1, CreatedOK DEF NewNames
  <2>2. ASSUME NewNames = {}, link' = MadeCurrent(None), UNCHANGED dirs
        PROVE  LinkInv'
    BY <1>0, <2>2 DEF NewNames, MadeCurrent, LinkInv, Sessions
  <2> QED
    BY <1>5, <2>1, <2>2 DEF NewSession
<1>6. CASE RemoveSession
  <2>1. PICK n \in Sessions \ {selected, Plain} :
          dirs' = [m \in Sessions \ {selected} |-> dirs[m]] /\ link' = MadeCurrent(n)
    BY <1>6 DEF RemoveSession
  <2>2. n \in Names /\ n \in Sessions'
    BY <1>0, <2>1 DEF DirsInv, Sessions
  <2> QED
    BY <1>2, <2>1, <2>2
<1>7. ASSUME NEW n \in Names, RenameSession(n)
      PROVE  LinkInv'
  BY <1>0, <1>2, <1>7, MoveOK DEF RenameSession, SelectorInv
<1>8. ASSUME NEW n \in Names, CreateAndSelect(n)
      PROVE  LinkInv'
  BY <1>0, <1>2, <1>8, CreatedOK DEF CreateAndSelect
<1>9. CASE FindSession \/ EndSession
  <2>1. CASE UNCHANGED <<dirs, link>>
    BY <1>1, <2>1 DEF Sessions
  <2>2. CASE dirs' = WithSavedSessionDir /\ link' = LinkOfSavedSessionDir
    BY <1>0, <2>2 DEF WithSavedSessionDir, LinkOfSavedSessionDir, LinkInv, Sessions
  <2> QED
    BY <1>9, <2>1, <2>2 DEF FindSession, EndSession
<1>10. CASE ClearOneClient \/ SaveOneClient
  <2>1. Sessions' = Sessions /\ link' = link
    BY <1>10 DEF ClearOneClient, SaveOneClient, Sessions
  <2> QED
    BY <1>1, <2>1
<1>11. CASE UNCHANGED <<dirs, link>>
  BY <1>1, <1>11 DEF Sessions
<1> QED
  BY <1>3, <1>4, <1>5, <1>6, <1>7, <1>8, <1>9, <1>10, <1>11
  DEF Next, SelectorEnds, Login, AddApp, Start, AppRegisters, ProgramRegisters, Registers,
      ClientLeaves, Cleared, SaveFails, Exit, vars

\* The selected row of the selector exists and is the session that the next login
\* uses, unless saved-session is a directory; and a link that points nowhere is left
\* only where there is no session (make_session_current, populate_session_list).
THEOREM SelectedDoesExist == Spec => []SelectedIsCurrent
<1>1. Init => LinkInv
  BY SavedSessionAssumption DEF Init, LinkInv, Sessions
<1>2. IInv /\ LinkInv => SelectedIsCurrent
  BY DEF IInv, SelectorInv, LinkInv, SelectedIsCurrent
<1> QED
  BY <1>1, <1>2, LinkStep, Invariant, PTL DEF Spec

\* An ordinary login restores every application it finds saved.
THEOREM SavedAreRestored == Spec => []SavedIsRestored
<1>1. IInv => SavedIsRestored
  BY DEF IInv, FillInv, Filling, Restored, Running, SavedIsRestored
<1> QED
  BY <1>1, Invariant, PTL

-----------------------------------------------------------------------------
(* Started once: a second invariant, which follows an application's name,    *)
(* startup id and program from the login that starts it to the logout that   *)
(* saves it and the next login.                                              *)

\* A program that uses the id it is given is saved under its own name.
Regular(program) == program \in Apps \ Rude
Proper(f) == Regular(f.program) => f.name = f.program

FilesStart ==
  \A n \in Sessions : \A f \in dirs[n] :
    Proper(f) /\ \A g \in dirs[n] : f.startup = g.startup => f = g

\* An application with the startup id of a saved one is that one.
TodoStart ==
  mgr.phase = "FILLING" =>
    /\ \A i \in 1..3 : \A f \in mgr.todo[i] :
         Proper(f) /\ (f.startup # None => f \in Current)
    /\ \A a \in mgr.apps : \A f \in Current : a.startup = f.startup => a = f

AppsStart ==
  \A a \in mgr.apps :
    /\ Proper(a)
    /\ \A b \in mgr.apps : a.startup = b.startup \/ SameService(a, b) \/ a.name = b.name => a = b

\* A client belongs to the application it was started for, which gave it its id.
ClientsStart ==
  /\ mgr.phase \in {"IDLE", "SELECTOR", "FINDING", "FILLING"} => clients = {}
  /\ \A c \in clients :
       /\ Regular(c.program) => c.app_id = c.program
       /\ c.app_id # None => \E a \in mgr.apps : a.name = c.app_id /\ a.startup = c.startup
       /\ \A d \in clients : c.startup = d.startup => c = d

\* What is in the directory was saved in this logout.
Origin(f, c) == f.startup = c.startup /\ f.name \in {c.app_id, c.startup}

SavedStart ==
  /\ mgr.phase = "CLEARING" => mgr.files = Current
  /\ mgr.phase = "SAVING" => \A f \in Current : \E c \in clients \ mgr.unsaved : Origin(f, c)

StartInv == FilesStart /\ TodoStart /\ AppsStart /\ ClientsStart /\ SavedStart

\* The directories are moved, made empty or removed.
LEMMA FilesArranged ==
  ASSUME FilesStart, \A n \in Sessions' : dirs'[n] = {} \/ \E k \in Sessions : dirs'[n] = dirs[k]
  PROVE  FilesStart'
<1>1. \A n \in Sessions' : \A f \in dirs'[n] :
        Proper(f) /\ \A g \in dirs'[n] : f.startup = g.startup => f = g
  <2> TAKE n \in Sessions'
  <2>1. CASE dirs'[n] = {}
    BY <2>1
  <2>2. CASE \E k \in Sessions : dirs'[n] = dirs[k]
    <3>1. PICK k \in Sessions : dirs'[n] = dirs[k]
      BY <2>2
    <3> QED
      BY <3>1 DEF FilesStart
  <2> QED
    BY <2>1, <2>2
<1> QED
  BY <1>1 DEF FilesStart

\* Before a login has found its session nothing runs.
LEMMA QuietStart ==
  ASSUME IInv', FilesStart', clients' = {},
         mgr'.phase \in {"IDLE", "SELECTOR", "FINDING"}
  PROVE  StartInv'
<1>1. mgr'.apps = {}
  BY DEF IInv, LoginInv
<1>2. TodoStart' /\ AppsStart' /\ ClientsStart' /\ SavedStart'
  BY <1>1 DEF TodoStart, AppsStart, ClientsStart, SavedStart
<1> QED
  BY <1>2 DEF StartInv

\* The selector.
LEMMA SelectorStart ==
  ASSUME IInv, IInv', StartInv,
         \/ SelectorStarts \/ NewSession \/ RemoveSession \/ SelectorEnds
         \/ \E n \in Names : Select(n) \/ RenameSession(n) \/ CreateAndSelect(n)
  PROVE  StartInv'
<1>1. /\ mgr.phase \in {"IDLE", "SELECTOR"} /\ clients' = clients
      /\ mgr' = Idle \/ mgr' = [mgr EXCEPT !.phase = "SELECTOR"] \/ mgr' = mgr
  BY DEF SelectorStarts, NewSession, RemoveSession, SelectorEnds, Select, RenameSession,
         CreateAndSelect, Selecting
<1>2. mgr'.phase \in {"IDLE", "SELECTOR"}
  BY <1>1 DEF IInv, TypeInv, Manager, Idle
<1>3. clients' = {}
  BY <1>1 DEF StartInv, ClientsStart
<1>4. \/ UNCHANGED dirs
      \/ \E old \in Sessions : \E new \in NewNames : dirs' = Move(dirs, old, new)
      \/ \E n \in Names : dirs' = Created(n)
      \/ \E k \in Sessions : dirs' = [m \in Sessions \ {k} |-> dirs[m]]
  <2>1. CASE SelectorStarts
    BY <2>1 DEF SelectorStarts, IInv, DirsInv
  <2>2. CASE NewSession
    BY <2>2 DEF NewSession, NewNames
  <2>3. CASE RemoveSession
    BY <2>3 DEF RemoveSession, IInv, SelectorInv
  <2>4. CASE SelectorEnds
    BY <2>4 DEF SelectorEnds
  <2>5. CASE \E n \in Names : Select(n) \/ CreateAndSelect(n)
    BY <2>5 DEF Select, CreateAndSelect
  <2>6. CASE \E n \in Names : RenameSession(n)
    BY <2>6 DEF RenameSession, IInv, SelectorInv
  <2> QED
    BY <2>1, <2>2, <2>3, <2>4, <2>5, <2>6
<1>5. \A n \in Sessions' : dirs'[n] = {} \/ \E k \in Sessions : dirs'[n] = dirs[k]
  <2>1. CASE UNCHANGED dirs
    BY <2>1 DEF Sessions
  <2>2. ASSUME NEW old \in Sessions, NEW new \in NewNames, dirs' = Move(dirs, old, new)
        PROVE  \A n \in Sessions' : dirs'[n] = {} \/ \E k \in Sessions : dirs'[n] = dirs[k]
    BY <2>2 DEF Move, Sessions
  <2>3. ASSUME NEW n \in Names, dirs' = Created(n)
        PROVE  \A m \in Sessions' : dirs'[m] = {} \/ \E k \in Sessions : dirs'[m] = dirs[k]
    BY <2>3 DEF Created, Sessions
  <2>4. ASSUME NEW k \in Sessions, dirs' = [m \in Sessions \ {k} |-> dirs[m]]
        PROVE  \A n \in Sessions' : dirs'[n] = {} \/ \E j \in Sessions : dirs'[n] = dirs[j]
    BY <2>4 DEF Sessions
  <2> QED
    BY <1>4, <2>1, <2>2, <2>3, <2>4
<1>6. FilesStart'
  BY <1>5, FilesArranged DEF StartInv
<1> QED
  BY <1>2, <1>3, <1>6, QuietStart

LEMMA WithSavedSessionDirStart ==
  ASSUME FilesStart, dirs' = WithSavedSessionDir
  PROVE  FilesStart'
<1>1. \A n \in Sessions' : dirs'[n] = {} \/ \E k \in Sessions : dirs'[n] = dirs[k]
  BY DEF WithSavedSessionDir, Sessions
<1> QED
  BY <1>1, FilesArranged

LEMMA FilesStartKept ==
  ASSUME FilesStart, dirs' = dirs
  PROVE  FilesStart'
BY DEF FilesStart, Sessions

\* The ids that are in use.
LEMMA UsedIds ==
  /\ \A a \in mgr.apps : a.startup \in Used
  /\ \A c \in clients : c.startup \in Used
  /\ \A f \in Current : f.startup \in Used
<1>1. ASSUME NEW f \in Current PROVE f.startup \in Used
  <2>1. link \in Sessions /\ f \in dirs[link]
    BY DEF Current
  <2>2. f.startup \in {g.startup : g \in dirs[link]}
    BY <2>1
  <2> QED
    BY <2>1, <2>2 DEF Used
<1>2. ASSUME NEW a \in mgr.apps PROVE a.startup \in Used
  <2>1. a.startup \in {b.startup : b \in mgr.apps}
    OBVIOUS
  <2> QED
    BY <2>1, Zenon DEF Used
<1>3. ASSUME NEW c \in clients PROVE c.startup \in Used
  <2>1. c.startup \in {d.startup : d \in clients}
    OBVIOUS
  <2> QED
    BY <2>1, Zenon DEF Used
<1> QED
  BY <1>1, <1>2, <1>3

\* What a login reads has a name and an id of its own.
LEMMA SourcesStart ==
  ASSUME DirsInv, FilesInv, FilesStart, mgr \in Manager, mgr.session # None,
         NEW i \in 1..3, NEW f \in Sources[i]
  PROVE  Proper(f) /\ (f.startup # None => f \in Current)
<1>1. \A a : Proper(Installed(a)) /\ Installed(a).startup = None
  BY DEF Proper, Installed
<1>2. \A g \in Current : Proper(g)
  BY DEF FilesStart, Current
<1>3. f \in Current \/ \E a : f = Installed(a)
  <2>1. \A g \in ComponentFiles : g \in Current \/ \E a : g = Installed(a)
    BY DEF ComponentFiles
  <2>2. \A g \in Autostarted : \E a : g = Installed(a)
    BY DEF Autostarted
  <2>3. i = 1 \/ i = 2 \/ i = 3
    OBVIOUS
  <2> QED
    BY <2>1, <2>2, <2>3 DEF Sources
<1> QED
  BY <1>1, <1>2, <1>3

LEMMA FindSessionStart ==
  ASSUME IInv, IInv', StartInv, FindSession
  PROVE  StartInv'
<1>1. /\ mgr \in Manager /\ mgr.phase = "FINDING" /\ mgr.apps = {} /\ clients' = {}
      /\ mgr.session # None /\ mgr.files = {}
  BY DEF IInv, TypeInv, LoginInv, LogoutInv, StartInv, ClientsStart, FindSession
<1>2. FilesStart' /\ Current' = Current
  <2>1. CASE UNCHANGED <<dirs, link>>
    BY <2>1, DirsKept, FilesStartKept DEF IInv, StartInv, FindSession
  <2>2. CASE dirs' = WithSavedSessionDir /\ link' = LinkOfSavedSessionDir
    BY <2>2, SavedSessionDirOK, WithSavedSessionDirStart DEF IInv, StartInv, FindSession
  <2> QED
    BY <2>1, <2>2 DEF FindSession
<1>3. CASE mgr' = [mgr EXCEPT !.phase = "FILLING", !.todo = Sources]
  <2>1. mgr'.phase = "FILLING" /\ mgr'.todo = Sources /\ mgr'.apps = {}
    BY <1>1, <1>3 DEF Manager
  <2>2. TodoStart'
    BY <1>1, <1>2, <2>1, SourcesStart DEF TodoStart, IInv, StartInv
  <2>3. AppsStart' /\ ClientsStart' /\ SavedStart'
    BY <1>1, <2>1 DEF AppsStart, ClientsStart, SavedStart
  <2> QED
    BY <1>2, <2>2, <2>3 DEF StartInv
<1>4. CASE mgr' = [mgr EXCEPT !.session = Fallback[mgr.session]]
  BY <1>1, <1>2, <1>4, QuietStart DEF Manager
<1>5. CASE mgr' = [mgr EXCEPT !.phase = "RUNNING", !.session = None]
  <2>1. mgr'.phase = "RUNNING" /\ mgr'.apps = {}
    BY <1>1, <1>5 DEF Manager
  <2> QED
    BY <1>1, <1>2, <2>1 DEF StartInv, TodoStart, AppsStart, ClientsStart, SavedStart
<1> QED
  BY <1>3, <1>4, <1>5 DEF FindSession

\* The manager goes on to a later phase, with the same files, applications and clients.
LEMMA GoOnStart ==
  ASSUME StartInv, Current' = Current, FilesStart', clients' = clients,
         mgr'.apps = mgr.apps, mgr'.phase = "RUNNING" \/ (mgr'.phase = "CLEARING" /\ mgr'.files = Current)
  PROVE  StartInv'
<1>1. TodoStart' /\ SavedStart'
  BY DEF TodoStart, SavedStart
<1>2. AppsStart' /\ ClientsStart'
  BY DEF StartInv, AppsStart, ClientsStart
<1> QED
  BY <1>1, <1>2 DEF StartInv

LEMMA StartStart ==
  ASSUME IInv, StartInv, Start
  PROVE  StartInv'
<1>1. Current' = Current /\ FilesStart'
  BY DirsKept, FilesStartKept DEF IInv, StartInv, Start
<1>2. mgr'.phase = "RUNNING" /\ mgr'.apps = mgr.apps
  BY DEF IInv, TypeInv, Manager, Start
<1> QED
  BY <1>1, <1>2, GoOnStart DEF Start

\* An application is added under an id and a name that no other one has.
LEMMA AddAppStart ==
  ASSUME IInv, StartInv, AddApp
  PROVE  StartInv'
<1>1. mgr \in Manager /\ mgr.phase = "FILLING" /\ clients' = clients /\ UNCHANGED <<dirs, link>>
  BY DEF IInv, TypeInv, AddApp
<1>2. Current' = Current /\ FilesStart'
  BY DirsKept, FilesStartKept DEF IInv, StartInv, AddApp
<1>3. clients = {}
  BY <1>1 DEF StartInv, ClientsStart
<1>4. PICK i \in 1..3 : \E f \in mgr.todo[i] :
        LET provided == {a \in mgr.apps : SameService(a, f)}
            dups == IF provided # {} THEN provided ELSE {a \in mgr.apps : a.name = f.name}
            todo == [mgr.todo EXCEPT ![i] = @ \ {f}]
            required(a) == IF i = 1 THEN mgr.required \cup {a.name} ELSE mgr.required
        IN \/ \E a \in dups : mgr' = [mgr EXCEPT !.todo = todo, !.required = required(a)]
           \/ /\ dups = {}
              /\ \E id \in IF f.startup = None THEN Fresh ELSE {f.startup} :
                   mgr' = [mgr EXCEPT !.todo = todo, !.required = required(f),
                                      !.apps = @ \cup {[f EXCEPT !.startup = id]}]
  BY Zenon DEF AddApp
<1>5. PICK f \in mgr.todo[i] :
        LET provided == {a \in mgr.apps : SameService(a, f)}
            dups == IF provided # {} THEN provided ELSE {a \in mgr.apps : a.name = f.name}
            todo == [mgr.todo EXCEPT ![i] = @ \ {f}]
            required(a) == IF i = 1 THEN mgr.required \cup {a.name} ELSE mgr.required
        IN \/ \E a \in dups : mgr' = [mgr EXCEPT !.todo = todo, !.required = required(a)]
           \/ /\ dups = {}
              /\ \E id \in IF f.startup = None THEN Fresh ELSE {f.startup} :
                   mgr' = [mgr EXCEPT !.todo = todo, !.required = required(f),
                                      !.apps = @ \cup {[f EXCEPT !.startup = id]}]
  BY <1>4, Zenon
<1> DEFINE todo == [mgr.todo EXCEPT ![i] = @ \ {f}]
           added == {a \in mgr'.apps : a \notin mgr.apps}
<1>6. /\ mgr'.phase = "FILLING" /\ mgr'.todo = todo
      /\ \/ mgr'.apps = mgr.apps
         \/ /\ \A a \in mgr.apps : ~SameService(a, f) /\ a.name # f.name
            /\ \E id \in IF f.startup = None THEN Fresh ELSE {f.startup} :
                 mgr'.apps = mgr.apps \cup {[f EXCEPT !.startup = id]}
  BY <1>1, <1>5 DEF Manager
<1>7. /\ f \in File /\ Proper(f) /\ (f.startup # None => f \in Current)
      /\ \A a \in mgr.apps : \A g \in Current : a.startup = g.startup => a = g
  BY <1>1 DEF Manager, StartInv, TodoStart
<1>8. \A j \in 1..3 : todo[j] \subseteq mgr.todo[j]
  BY <1>1 DEF Manager
<1> HIDE DEF todo
<1>9. \A j \in 1..3 : \A g \in mgr'.todo[j] : Proper(g) /\ (g.startup # None => g \in Current')
  BY <1>1, <1>2, <1>6, <1>8 DEF StartInv, TodoStart
<1>10. CASE mgr'.apps = mgr.apps
  <2>1. TodoStart'
    BY <1>2, <1>7, <1>9, <1>10 DEF TodoStart
  <2> QED
    BY <1>1, <1>2, <1>3, <1>6, <1>10, <2>1 DEF StartInv, AppsStart, ClientsStart, SavedStart
<1>11. CASE /\ \A a \in mgr.apps : ~SameService(a, f) /\ a.name # f.name
            /\ \E id \in IF f.startup = None THEN Fresh ELSE {f.startup} :
                 mgr'.apps = mgr.apps \cup {[f EXCEPT !.startup = id]}
  <2>1. PICK id \in IF f.startup = None THEN Fresh ELSE {f.startup} :
          mgr'.apps = mgr.apps \cup {[f EXCEPT !.startup = id]}
    BY <1>11
  <2> DEFINE b == [f EXCEPT !.startup = id]
  <2>2. /\ b.startup = id /\ b.name = f.name /\ b.program = f.program
        /\ b.provides = f.provides
    BY <1>7 DEF File
  <2>3. f.startup # None => b = f
    BY <1>7, <2>1 DEF File
  <2>4. mgr'.apps = mgr.apps \cup {b}
    BY <2>1
  <2> HIDE DEF b
  <2>5. \A a \in mgr.apps : ~SameService(a, b) /\ ~SameService(b, a) /\ a.name # b.name
    BY <1>11, <2>2 DEF SameService
  <2>6. f.startup = None =>
          /\ \A a \in mgr.apps : a.startup # id
          /\ \A g \in Current : g.startup # id
    BY <2>1, UsedIds DEF Fresh
  <2>7. \A a \in mgr.apps : a.startup # b.startup
    <3>1. CASE f.startup = None
      BY <2>2, <2>6, <3>1
    <3>2. CASE f.startup # None
      BY <1>7, <1>11, <2>3, <3>2
    <3> QED
      BY <3>1, <3>2
  <2>8. \A g \in Current : b.startup = g.startup => b = g
    <3>1. CASE f.startup = None
      BY <2>2, <2>6, <3>1
    <3>2. CASE f.startup # None
      BY <1>7, <2>3, <3>2 DEF StartInv, FilesStart, Current
    <3> QED
      BY <3>1, <3>2
  <2>9. Proper(b)
    BY <1>7, <2>2 DEF Proper
  <2>10. AppsStart'
    BY <2>4, <2>5, <2>7, <2>9 DEF StartInv, AppsStart
  <2>11. TodoStart'
    BY <1>2, <1>7, <1>9, <2>4, <2>8 DEF TodoStart
  <2>12. ClientsStart' /\ SavedStart'
    BY <1>1, <1>3, <1>6 DEF ClientsStart, SavedStart
  <2> QED
    BY <1>2, <2>10, <2>11, <2>12 DEF StartInv
<1> QED
  BY <1>6, <1>10, <1>11

\* A client that registers has an id of its own.
LEMMA RegistersStart ==
  ASSUME IInv, StartInv, NEW c, Registers(c),
         \A d \in clients : d.startup # c.startup,
         Regular(c.program) => c.app_id = c.program,
         c.app_id # None => \E a \in mgr.apps : a.name = c.app_id /\ a.startup = c.startup
  PROVE  StartInv'
<1>1. /\ clients' = clients \cup {c} /\ mgr' = mgr /\ mgr.phase = "RUNNING"
      /\ UNCHANGED <<dirs, link>>
  BY DEF Registers, Running
<1>2. FilesStart' /\ AppsStart'
  BY <1>1, FilesStartKept DEF StartInv, AppsStart
<1>3. ClientsStart'
  BY <1>1 DEF StartInv, ClientsStart
<1> QED
  BY <1>1, <1>2, <1>3 DEF StartInv, TodoStart, SavedStart

LEMMA AppRegistersStart ==
  ASSUME IInv, StartInv, NEW a \in mgr.apps, NEW saves \in BOOLEAN, AppRegisters(a, saves)
  PROVE  StartInv'
<1> DEFINE c == [startup |-> a.startup, app_id |-> AppIdOf(a), program |-> a.program,
                 saves |-> saves]
<1>1. Registers(c) /\ \A d \in clients : d.startup # c.startup
  BY DEF AppRegisters
<1>2. c.app_id = a.name /\ c.program = a.program /\ c.startup = a.startup
  BY DEF AppIdOf
<1> HIDE DEF c
<1>3. Regular(c.program) => c.app_id = c.program
  BY <1>2 DEF StartInv, AppsStart, Proper
<1> QED
  BY <1>1, <1>2, <1>3, RegistersStart

LEMMA ProgramRegistersStart ==
  ASSUME IInv, StartInv, NEW program, ~Regular(program), NEW saves \in BOOLEAN,
         ProgramRegisters(program, saves)
  PROVE  StartInv'
<1>1. PICK i \in Fresh :
        Registers([startup |-> i, app_id |-> None, program |-> program, saves |-> saves])
  BY DEF ProgramRegisters
<1> DEFINE c == [startup |-> i, app_id |-> None, program |-> program, saves |-> saves]
<1>2. Registers(c) /\ c.startup = i /\ c.app_id = None /\ c.program = program
  BY <1>1
<1> HIDE DEF c
<1>3. \A d \in clients : d.startup # i
  BY UsedIds DEF Fresh
<1> QED
  BY <1>2, <1>3, RegistersStart

LEMMA ClientLeavesStart ==
  ASSUME IInv, StartInv, NEW c, ClientLeaves(c)
  PROVE  StartInv'
<1>1. /\ clients' = clients \ {c} /\ mgr' = mgr /\ mgr.phase = "RUNNING"
      /\ UNCHANGED <<dirs, link>>
  BY DEF ClientLeaves, Running
<1>2. FilesStart' /\ AppsStart'
  BY <1>1, FilesStartKept DEF StartInv, AppsStart
<1>3. ClientsStart'
  BY <1>1 DEF StartInv, ClientsStart
<1> QED
  BY <1>1, <1>2, <1>3 DEF StartInv, TodoStart, SavedStart

LEMMA EndSessionStart ==
  ASSUME IInv, IInv', StartInv, EndSession
  PROVE  StartInv'
<1>1. PICK auto_save \in AutoSave :
        LET saving == mgr.kind # "systemd" /\ (one_shot \/ auto_save)
        IN /\ one_shot' = (one_shot /\ ~saving)
           /\ dirs' = WithSavedSessionDir /\ link' = LinkOfSavedSessionDir
           /\ IF link = None \/ link \in Sessions
              THEN mgr' = [mgr EXCEPT !.phase = "CLEARING", !.files = Current,
                                      !.unsaved = IF saving THEN clients ELSE {}]
                   /\ UNCHANGED clients
              ELSE mgr' = Idle /\ clients' = {}
  BY Zenon DEF EndSession
<1>2. dirs' = WithSavedSessionDir /\ link' = LinkOfSavedSessionDir /\ marked' = marked
  BY <1>1, Zenon DEF EndSession
<1>3. Current' = Current /\ FilesStart'
  BY <1>2, SavedSessionDirOK, WithSavedSessionDirStart DEF IInv, StartInv
<1>4. CASE link = None \/ link \in Sessions
  <2>1. PICK unsaved \in SUBSET clients :
          mgr' = [mgr EXCEPT !.phase = "CLEARING", !.files = Current, !.unsaved = unsaved]
    BY <1>1, <1>4
  <2>2. mgr'.phase = "CLEARING" /\ mgr'.files = Current /\ mgr'.apps = mgr.apps
    BY <2>1 DEF IInv, TypeInv, Manager
  <2>3. clients' = clients
    BY <1>1, <1>4
  <2> QED
    BY <1>3, <2>2, <2>3, GoOnStart
<1>5. CASE ~ (link = None \/ link \in Sessions)
  <2>1. mgr' = Idle /\ clients' = {}
    BY <1>1, <1>5
  <2> QED
    BY <1>3, <2>1, QuietStart DEF Idle
<1> QED
  BY <1>4, <1>5

\* A step of the logout, which leaves applications and clients alone.
LEMMA LogoutStart ==
  ASSUME StartInv, clients' = clients, mgr'.apps = mgr.apps,
         mgr'.phase \in {"CLEARING", "SAVING"}, FilesStart', SavedStart'
  PROVE  StartInv'
<1>1. AppsStart' /\ ClientsStart' /\ TodoStart'
  BY DEF StartInv, AppsStart, ClientsStart, TodoStart
<1> QED
  BY <1>1 DEF StartInv

LEMMA ClearOneClientStart ==
  ASSUME IInv, StartInv, ClearOneClient
  PROVE  StartInv'
<1>1. PICK f \in mgr.files :
        /\ dirs' = [dirs EXCEPT ![link] = @ \ {f}]
        /\ mgr' = [mgr EXCEPT !.files = @ \ {f}]
  BY DEF ClearOneClient
<1>2. /\ mgr.phase = "CLEARING" /\ mgr \in Manager /\ link \in Sessions /\ link' = link
      /\ dirs[link] = Current /\ dirs \in [Sessions -> SUBSET File]
  BY DEF ClearOneClient, IInv, TypeInv, LogoutInv, Current, DirsInv
<1>3. mgr'.phase = "CLEARING" /\ mgr'.files = mgr.files \ {f} /\ mgr'.apps = mgr.apps
  BY <1>1, <1>2 DEF Manager
<1>4. /\ Sessions' = Sessions
      /\ \A n \in Sessions : dirs'[n] = IF n = link THEN Current \ {f} ELSE dirs[n]
  BY <1>1, <1>2 DEF Sessions
<1>5. Current' = Current \ {f}
  BY <1>2, <1>4 DEF Current
<1>6. FilesStart'
  BY <1>2, <1>4 DEF StartInv, FilesStart, Current
<1>7. SavedStart'
  BY <1>2, <1>3, <1>5 DEF StartInv, SavedStart
<1> QED
  BY <1>3, <1>6, <1>7, LogoutStart DEF ClearOneClient

LEMMA ClearedStart ==
  ASSUME IInv, StartInv, Cleared
  PROVE  StartInv'
<1>1. mgr.phase = "CLEARING" /\ mgr.files = {} /\ UNCHANGED <<dirs, link, clients>>
  BY DEF Cleared
<1>2. mgr'.phase = "SAVING" /\ mgr'.apps = mgr.apps
  BY DEF Cleared, IInv, TypeInv, Manager
<1>3. Current' = {}
  BY <1>1 DEF StartInv, SavedStart, Current, Sessions
<1>4. SavedStart'
  BY <1>2, <1>3 DEF SavedStart
<1> QED
  BY <1>1, <1>2, <1>4, FilesStartKept, LogoutStart DEF StartInv

\* A client's file keeps the client's id, and its application's name.
LEMMA SaveOneClientStart ==
  ASSUME IInv, StartInv, SaveOneClient
  PROVE  StartInv'
<1>1. PICK c \in mgr.unsaved :
        /\ dirs' = IF c.saves THEN [dirs EXCEPT ![link] =
                       {f \in @ : f.name # FileOf(c).name} \cup {FileOf(c)}] ELSE dirs
        /\ mgr' = [mgr EXCEPT !.unsaved = @ \ {c}]
  BY DEF SaveOneClient
<1>2. /\ mgr.phase = "SAVING" /\ mgr \in Manager /\ link \in Sessions /\ link' = link
      /\ dirs[link] = Current /\ dirs \in [Sessions -> SUBSET File]
      /\ c \in clients /\ clients \subseteq Client /\ clients' = clients
  BY DEF SaveOneClient, IInv, TypeInv, LogoutInv, Current, DirsInv
<1>3. mgr'.phase = "SAVING" /\ mgr'.unsaved = mgr.unsaved \ {c} /\ mgr'.apps = mgr.apps
  BY <1>1, <1>2 DEF Manager
<1>4. \A f \in Current : \E d \in clients \ mgr.unsaved : Origin(f, d)
  BY <1>2 DEF StartInv, SavedStart
<1>5. CASE ~c.saves
  <2>1. dirs' = dirs /\ Current' = Current
    BY <1>1, <1>2, <1>5 DEF Current, Sessions
  <2>2. SavedStart'
    BY <1>2, <1>3, <1>4, <2>1 DEF SavedStart
  <2> QED
    BY <1>2, <1>3, <2>1, <2>2, FilesStartKept, LogoutStart DEF StartInv
<1>6. CASE c.saves
  <2> DEFINE saved == FileOf(c)
             files == {f \in Current : f.name # saved.name} \cup {saved}
  <2>1. dirs' = [dirs EXCEPT ![link] = files]
    BY <1>1, <1>2, <1>6
  <2>2. /\ saved.startup = c.startup /\ saved.program = c.program
        /\ saved.name = NameOf(c)
    BY DEF FileOf
  <2>3. NameOf(c) \in {c.app_id, c.startup}
    BY DEF NameOf
  <2> HIDE DEF saved
  <2>4. ASSUME NEW f \in Current PROVE f.startup # saved.startup
    BY <1>1, <1>2, <1>4, <2>2 DEF Origin, StartInv, ClientsStart
  <2>5. Regular(c.program) => NameOf(c) = c.app_id
    <3> SUFFICES ASSUME Regular(c.program), NEW f \in Current, f.name = c.app_id PROVE FALSE
      BY <1>2, SavedSessionAssumption DEF NameOf, Regular, StartInv, ClientsStart
    <3>1. c.app_id \in Apps /\ c.app_id # None
      BY <1>2, SavedSessionAssumption DEF Regular, StartInv, ClientsStart
    <3>2. PICK d \in clients \ mgr.unsaved : Origin(f, d)
      BY <1>4
    <3>3. d.startup \in Ids /\ d.app_id = c.app_id
      BY <1>2, <3>1, <3>2, SavedSessionAssumption DEF Origin, Client
    <3>4. PICK a \in mgr.apps : a.name = c.app_id /\ a.startup = c.startup
      BY <1>2, <3>1 DEF StartInv, ClientsStart
    <3>5. PICK b \in mgr.apps : b.name = d.app_id /\ b.startup = d.startup
      BY <1>2, <3>1, <3>3 DEF StartInv, ClientsStart
    <3>6. a = b
      BY <3>3, <3>4, <3>5 DEF StartInv, AppsStart
    <3>7. c = d
      BY <1>2, <3>4, <3>5, <3>6 DEF StartInv, ClientsStart
    <3> QED
      BY <1>1, <3>7
  <2>6. Proper(saved)
    BY <1>2, <2>2, <2>5 DEF Proper, StartInv, ClientsStart
  <2>7. \A f \in Current : Proper(f) /\ \A g \in Current : f.startup = g.startup => f = g
    BY <1>2 DEF StartInv, FilesStart
  <2>8. \A f \in files : Proper(f) /\ \A g \in files : f.startup = g.startup => f = g
    BY <2>4, <2>6, <2>7
  <2>9. \A f \in files : f \in Current \/ f = saved
    OBVIOUS
  <2> HIDE DEF files
  <2>10. /\ Sessions' = Sessions
         /\ \A n \in Sessions : dirs'[n] = IF n = link THEN files ELSE dirs[n]
    BY <1>2, <2>1 DEF Sessions
  <2>11. Current' = files
    BY <1>2, <2>10 DEF Current
  <2>12. FilesStart'
    BY <2>8, <2>10 DEF StartInv, FilesStart
  <2>13. Origin(saved, c) /\ c \in clients \ mgr'.unsaved
    BY <1>2, <1>3, <2>2, <2>3 DEF Origin
  <2>14. \A f \in files : \E d \in clients \ mgr'.unsaved : Origin(f, d)
    BY <1>3, <1>4, <2>9, <2>13
  <2>15. SavedStart'
    BY <1>2, <1>3, <2>11, <2>14 DEF SavedStart
  <2> QED
    BY <1>2, <1>3, <2>12, <2>15, LogoutStart
<1> QED
  BY <1>5, <1>6

LEMMA SaveFailsStart ==
  ASSUME IInv, StartInv, SaveFails
  PROVE  StartInv'
<1>1. mgr.phase = "SAVING" /\ UNCHANGED <<dirs, link, clients>>
  BY DEF SaveFails
<1>2. mgr'.phase = "SAVING" /\ mgr'.apps = mgr.apps /\ mgr'.unsaved = {}
  BY <1>1 DEF SaveFails, IInv, TypeInv, Manager
<1>3. Current' = Current
  BY <1>1 DEF Current, Sessions
<1>4. SavedStart'
  BY <1>1, <1>2, <1>3 DEF StartInv, SavedStart
<1> QED
  BY <1>1, <1>2, <1>4, FilesStartKept, LogoutStart DEF StartInv

LEMMA ExitStart ==
  ASSUME IInv, IInv', StartInv, Exit
  PROVE  StartInv'
BY FilesStartKept, QuietStart DEF Exit, Idle, StartInv

LEMMA InitStart == ASSUME Init PROVE StartInv
<1>1. FilesStart
  BY DEF Init, FilesStart, Sessions
<1>2. mgr.phase = "IDLE" /\ mgr.apps = {} /\ clients = {}
  BY DEF Init, Idle
<1> QED
  BY <1>1, <1>2 DEF StartInv, TodoStart, AppsStart, ClientsStart, SavedStart

LEMMA StepStart == ASSUME IInv, IInv', StartInv, [Next]_vars PROVE StartInv'
<1>1. CASE UNCHANGED vars
  BY <1>1 DEF vars, StartInv, FilesStart, TodoStart, AppsStart, ClientsStart, SavedStart,
              Sessions, Current, Origin, Proper
<1>2. CASE \/ SelectorStarts \/ NewSession \/ RemoveSession \/ SelectorEnds
           \/ \E n \in Names : Select(n) \/ RenameSession(n) \/ CreateAndSelect(n)
  BY <1>2, SelectorStart
<1>3. ASSUME NEW kind \in {"normal", "failsafe", "systemd"}, Login(kind) PROVE StartInv'
  <2>1. mgr.phase = "IDLE" /\ mgr'.phase = "FINDING" /\ clients' = clients /\ dirs' = dirs
    BY <1>3 DEF Login, IInv, TypeInv, Manager
  <2> QED
    BY <2>1, FilesStartKept, QuietStart DEF StartInv, ClientsStart
<1>4. ASSUME NEW saves \in BOOLEAN, NEW a \in mgr.apps,
             \/ AppRegisters(a, saves)
             \/ a.program \in Rude /\ ProgramRegisters(a.program, saves)
      PROVE  StartInv'
  BY <1>4, AppRegistersStart, ProgramRegistersStart DEF Regular
<1>5. ASSUME NEW saves \in BOOLEAN, ProgramRegisters(None, saves) PROVE StartInv'
  BY <1>5, ProgramRegistersStart, SavedSessionAssumption DEF Regular
<1>6. ASSUME NEW c \in clients, ClientLeaves(c) PROVE StartInv'
  BY <1>6, ClientLeavesStart
<1> QED
  BY <1>1, <1>2, <1>3, <1>4, <1>5, <1>6, FindSessionStart, AddAppStart, StartStart,
     EndSessionStart, ClearOneClientStart, ClearedStart, SaveOneClientStart, SaveFailsStart,
     ExitStart DEF Next

\* A program that uses its startup id is started once per login, however often it
\* was saved (save_one_client, on_xsmp_client_register_request, append_app).
THEOREM ProgramsStartOnce == Spec => []StartedOnce
<1>1. Init => IInv /\ StartInv
  BY InitOK, InitStart
<1>2. IInv /\ StartInv /\ [Next]_vars => IInv' /\ StartInv'
  BY StepOK, StepStart
<1>3. StartInv => StartedOnce
  BY DEF StartInv, AppsStart, Proper, Regular, StartedOnce
<1> QED
  BY <1>1, <1>2, <1>3, PTL DEF Spec
=============================================================================
