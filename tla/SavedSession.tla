---------------------------- MODULE SavedSession ----------------------------
(***************************************************************************)
(* What is remembered from one login to the next: the directories of saved *)
(* applications, the symbolic link "saved-session" that says which one is  *)
(* in use, the session selector that arranges them before a login          *)
(* (scarecrow-session-selector.c), the applications a login puts in the    *)
(* manager's store (scsm-session-fill.c and scsm_manager_add_...), the     *)
(* XSMP clients that register for them, and what is written when the       *)
(* session ends (scsm-session-save.c).                                     *)
(*                                                                         *)
(* A desktop file is what a login needs of it: its name, which is the      *)
(* application id, the startup id saved in it, the program it runs and the *)
(* services it provides.                                                   *)
(* Definitions named Mutant... are plausible bugs; no behaviour uses them. *)
(***************************************************************************)
EXTENDS Naturals

CONSTANTS
  Apps,        \* desktop files installed in the autostart directories
  Services,    \* what X-GNOME-Provides may name
  Provides,    \* the services of each of Apps
  Definitions, \* .session files
  Default,     \* the one that is asked for
  Fallback,    \* their FallbackSession keys
  Components,  \* their RequiredComponents keys
  Names,       \* names of saved sessions; bounds find_new_session_name()
  Ids,         \* startup ids; bounds how many are generated
  Rude,        \* applications that ignore DESKTOP_AUTOSTART_ID
  AutoSave,    \* values the user gives to the setting auto-save-session
  None, Plain  \* no value; a saved-session that is no symbolic link

ASSUME SavedSessionAssumption ==
  /\ Provides \in [Apps -> SUBSET Services]
  /\ Default \in Definitions /\ Fallback \in [Definitions -> Definitions \cup {None}]
  /\ Components \in [Definitions -> SUBSET Apps]
  /\ None \notin Definitions \cup Apps \cup Ids \cup Names /\ Plain \notin Names \cup {None}
  /\ Rude \subseteq Apps /\ AutoSave \subseteq BOOLEAN
  /\ Apps \cap Ids = {} \* a desktop file is not named like a startup id

VARIABLES
  dirs,     \* the saved sessions' directories, and the files in each
  link,     \* where saved-session points
  marked,   \* sessions with a .new-session marker
  one_shot, \* the setting auto-save-session-one-shot
  selected, \* the row that is selected in the selector
  mgr,      \* the session manager
  clients   \* the XSMP clients in its store
vars == <<dirs, link, marked, one_shot, selected, mgr, clients>>

\* A desktop file; program is None when the user started it by hand.
File == [name : Apps \cup Ids, startup : Ids \cup {None}, program : Apps \cup {None},
         provides : SUBSET Services]
Client == [startup : Ids, app_id : Apps \cup Ids \cup {None},
           program : Apps \cup {None}, saves : BOOLEAN]
Manager ==
  [phase : {"IDLE", "SELECTOR", "FINDING", "FILLING", "RUNNING", "CLEARING", "SAVING"},
   kind : {"normal", "failsafe", "systemd"}, session : Definitions \cup {None},
   todo : [1..3 -> SUBSET File], apps : SUBSET File, required : SUBSET (Apps \cup Ids),
   files : SUBSET File, unsaved : SUBSET Client]

\* scsm_autostart_app_provides(), for some of the services of another one.
SameService(f, g) == f.provides \cap g.provides # {}

Idle == [phase |-> "IDLE", kind |-> "normal", session |-> None, todo |-> [i \in 1..3 |-> {}],
         apps |-> {}, required |-> {}, files |-> {}, unsaved |-> {}]

Init ==
  /\ \/ dirs = [n \in {Plain} |-> {}] /\ link = Plain
     \/ dirs = [n \in {} |-> {}] /\ link = None
  /\ marked = {} /\ one_shot \in BOOLEAN /\ selected = None
  /\ mgr = Idle /\ clients = {}

Sessions == DOMAIN dirs
Current == IF link \in Sessions THEN dirs[link] ELSE {}
\* scsm_util_get_saved_session_dir() makes a directory if there is nothing, and
\* fails if the link points nowhere.
WithSavedSessionDir ==
  IF link = None THEN [n \in Sessions \cup {Plain} |-> IF n = Plain THEN {} ELSE dirs[n]]
  ELSE dirs
LinkOfSavedSessionDir == IF link = None THEN Plain ELSE link

(***************************************************************************)
(* The selector, which refuses to run inside a session.                    *)
(***************************************************************************)
Move(d, old, new) == [n \in (DOMAIN d \ {old}) \cup {new} |-> IF n = new THEN d[old] ELSE d[n]]
NewNames == Names \ Sessions

\* populate_session_list(): what is no link becomes a link to a first session.
SelectorStarts ==
  /\ mgr.phase = "IDLE" /\ mgr' = [mgr EXCEPT !.phase = "SELECTOR"]
  /\ \/ /\ link \in Names
        /\ selected' = IF link \in Sessions THEN link ELSE None
        /\ UNCHANGED <<dirs, link>>
     \/ \E n \in NewNames :
          /\ link \in {None, Plain} /\ link' = n
          /\ dirs' = IF link = Plain THEN Move(dirs, Plain, n) ELSE dirs
          /\ selected' = IF link = Plain THEN n ELSE None
     \/ /\ link \in {None, Plain} /\ NewNames = {}
        /\ selected' = None /\ UNCHANGED <<dirs, link>>
  /\ UNCHANGED <<marked, one_shot, clients>>

Selecting == mgr.phase = "SELECTOR"

\* A bug: a directory of that name is replaced by the link.
MutantMadeCurrent(n) == n
\* make_session_current(): a directory is neither unlinked nor replaced.
MadeCurrent(n) == IF link = Plain THEN Plain ELSE n

\* on_selection_changed().
Select(n) ==
  /\ Selecting /\ n \in Sessions \ {Plain}
  /\ selected' = n /\ link' = MadeCurrent(n)
  /\ UNCHANGED <<dirs, marked, one_shot, mgr, clients>>

\* create_session(): a directory that is there already is left alone.
Created(n) == [m \in Sessions \cup {n} |-> IF m \in Sessions THEN dirs[m] ELSE {}]

\* on_new_session_clicked(): create_session(), select_session(). When every
\* name is taken the link is removed and the selector dies of a null string.
NewSession ==
  /\ Selecting
  /\ \/ \E n \in NewNames :
          /\ dirs' = Created(n)
          /\ marked' = marked \cup {n} /\ link' = MadeCurrent(n)
          /\ selected' = n /\ UNCHANGED mgr
     \/ /\ NewNames = {} /\ link' = MadeCurrent(None)
        /\ selected' = None /\ mgr' = Idle
        /\ UNCHANGED <<dirs, marked>>
  /\ UNCHANGED <<one_shot, clients>>

\* on_remove_session_clicked(), remove_session(): another row is selected. The
\* button is insensitive while there is one row.
RemoveSession ==
  /\ Selecting /\ selected # None
  /\ \E n \in Sessions \ {selected, Plain} :
       /\ dirs' = [m \in Sessions \ {selected} |-> dirs[m]]
       /\ marked' = marked \ {selected}
       /\ selected' = n /\ link' = MadeCurrent(n)
  /\ UNCHANGED <<one_shot, mgr, clients>>

\* A bug: the link still has the session's old name.
MutantRenameSession(new) ==
  /\ Selecting /\ selected # None /\ new \in NewNames
  /\ dirs' = Move(dirs, selected, new)
  /\ marked' = IF selected \in marked THEN (marked \ {selected}) \cup {new} ELSE marked
  /\ selected' = new
  /\ UNCHANGED <<link, one_shot, mgr, clients>>
\* on_row_edited(), rename_session(), make_session_current().
RenameSession(new) ==
  /\ Selecting /\ selected # None /\ new \in NewNames
  /\ dirs' = Move(dirs, selected, new)
  /\ marked' = IF selected \in marked THEN (marked \ {selected}) \cup {new} ELSE marked
  /\ selected' = new /\ link' = MadeCurrent(new)
  /\ UNCHANGED <<one_shot, mgr, clients>>

\* on_continue_clicked(), auto_save_next_session_if_needed().
SelectorEnds ==
  /\ Selecting /\ mgr' = Idle
  /\ one_shot' = (one_shot \/ link \in marked)
  /\ marked' = marked \ {link} /\ selected' = None
  /\ UNCHANGED <<dirs, link, clients>>

\* main() of the selector with an argument: create_and_select_session().
CreateAndSelect(n) ==
  /\ mgr.phase = "IDLE"
  /\ dirs' = Created(n)
  /\ link' = MadeCurrent(n)
  /\ UNCHANGED <<marked, one_shot, selected, mgr, clients>>

(***************************************************************************)
(* Login: scsm_session_fill().                                             *)
(***************************************************************************)
Used == (UNION {{f.startup : f \in dirs[n]} : n \in Sessions})
        \cup {a.startup : a \in mgr.apps} \cup {c.startup : c \in clients}
\* scsm_util_generate_startup_id()
Fresh == Ids \ Used

Login(kind) ==
  /\ mgr.phase = "IDLE"
  /\ mgr' = [mgr EXCEPT !.phase = "FINDING", !.kind = kind, !.session = Default]
  /\ UNCHANGED <<dirs, link, marked, one_shot, selected, clients>>

Installed(a) == [name |-> a, startup |-> None, program |-> a, provides |-> Provides[a]]

\* scsm_util_find_desktop_file_for_app_name(), the saved session first.
ComponentFiles ==
  {f \in Current : mgr.kind = "normal" /\ f.name \in Components[mgr.session]}
  \cup {Installed(a) : a \in {x \in Components[mgr.session] :
           ~(mgr.kind = "normal" /\ \E f \in Current : f.name = x)}}

Autostarted == {Installed(a) : a \in Apps}

\* A bug: the autostart directories come before the saved session.
MutantSources ==
  <<ComponentFiles,
    IF mgr.kind = "failsafe" THEN {} ELSE Autostarted,
    IF mgr.kind = "normal" THEN Current ELSE {}>>
\* load_standard_apps(), maybe_load_saved_session_apps(): what is read, in order:
\* the required components, the saved session, the autostart directories.
Sources ==
  <<ComponentFiles,
    IF mgr.kind = "normal" THEN Current ELSE {},
    IF mgr.kind = "failsafe" THEN {} ELSE Autostarted>>

\* get_session_keyfile(): a session whose helper fails, or that lacks a
\* component, is replaced by its fallback. Without one the fail whale is shown
\* and the manager runs with nothing in it.
FindSession ==
  /\ mgr.phase = "FINDING"
  /\ \/ /\ mgr' = [mgr EXCEPT !.phase = "FILLING", !.todo = Sources]
        /\ \/ mgr.kind = "normal" /\ dirs' = WithSavedSessionDir /\ link' = LinkOfSavedSessionDir
           \/ mgr.kind # "normal" /\ UNCHANGED <<dirs, link>>
     \/ /\ Fallback[mgr.session] # None
        /\ mgr' = [mgr EXCEPT !.session = Fallback[mgr.session]]
        /\ UNCHANGED <<dirs, link>>
     \/ /\ Fallback[mgr.session] = None
        /\ mgr' = [mgr EXCEPT !.phase = "RUNNING", !.session = None]
        /\ UNCHANGED <<dirs, link>>
  /\ UNCHANGED <<marked, one_shot, selected, clients>>

\* add_autostart_app_internal(), append_app(): an application whose service or
\* name is taken is dropped, and the one that took it may become required.
AddApp ==
  /\ mgr.phase = "FILLING"
  /\ \E i \in 1..3 :
       /\ \A j \in 1..3 : j < i => mgr.todo[j] = {}
       /\ \E f \in mgr.todo[i] :
            LET provided == {a \in mgr.apps : SameService(a, f)}
                dups == IF provided # {} THEN provided ELSE {a \in mgr.apps : a.name = f.name}
                todo == [mgr.todo EXCEPT ![i] = @ \ {f}]
                required(a) == IF i = 1 THEN mgr.required \cup {a.name} ELSE mgr.required
            IN \/ \E a \in dups : mgr' = [mgr EXCEPT !.todo = todo, !.required = required(a)]
               \/ /\ dups = {}
                  /\ \E id \in IF f.startup = None THEN Fresh ELSE {f.startup} :
                       mgr' = [mgr EXCEPT !.todo = todo, !.required = required(f),
                                          !.apps = @ \cup {[f EXCEPT !.startup = id]}]
  /\ UNCHANGED <<dirs, link, marked, one_shot, selected, clients>>

Start ==
  /\ mgr.phase = "FILLING" /\ \A i \in 1..3 : mgr.todo[i] = {}
  /\ mgr' = [mgr EXCEPT !.phase = "RUNNING"]
  /\ UNCHANGED <<dirs, link, marked, one_shot, selected, clients>>

(***************************************************************************)
(* The session's clients.                                                  *)
(***************************************************************************)
Running == mgr.phase = "RUNNING"

\* A bug: the client is not told which application it belongs to.
MutantAppIdOf(a) == None
\* on_xsmp_client_register_request(): the application with the client's id.
AppIdOf(a) == a.name

Registers(c) ==
  /\ Running /\ clients' = clients \cup {c}
  /\ UNCHANGED <<dirs, link, marked, one_shot, selected, mgr>>

\* An application's client uses the id it was given, or asks for a new one; so
\* does a program the user starts.
AppRegisters(a, saves) ==
  /\ a.program \notin Rude /\ a.startup \notin {c.startup : c \in clients}
  /\ Registers([startup |-> a.startup, app_id |-> AppIdOf(a), program |-> a.program, saves |-> saves])
ProgramRegisters(program, saves) == \E i \in Fresh :
  Registers([startup |-> i, app_id |-> None, program |-> program, saves |-> saves])

\* on_client_disconnected().
ClientLeaves(c) ==
  /\ Running /\ clients' = clients \ {c}
  /\ UNCHANGED <<dirs, link, marked, one_shot, selected, mgr>>

(***************************************************************************)
(* Logout: maybe_save_session(), at the end of END_SESSION.                *)
(***************************************************************************)
EndSession ==
  /\ Running
  /\ \E auto_save \in AutoSave :
     LET saving == mgr.kind # "systemd" /\ (one_shot \/ auto_save)
     IN /\ one_shot' = (one_shot /\ ~saving)
        /\ dirs' = WithSavedSessionDir /\ link' = LinkOfSavedSessionDir
        /\ IF link = None \/ link \in Sessions
           THEN mgr' = [mgr EXCEPT !.phase = "CLEARING", !.files = Current,
                                   !.unsaved = IF saving THEN clients ELSE {}]
                /\ UNCHANGED clients
           ELSE mgr' = Idle /\ clients' = {}
  /\ UNCHANGED <<marked, selected>>

\* scsm_session_clear_one_client()
ClearOneClient ==
  /\ mgr.phase = "CLEARING"
  /\ \E f \in mgr.files :
       /\ dirs' = [dirs EXCEPT ![link] = @ \ {f}]
       /\ mgr' = [mgr EXCEPT !.files = @ \ {f}]
  /\ UNCHANGED <<link, marked, one_shot, selected, clients>>

\* scsm_session_clear_saved_session() has also removed the marker.
Cleared ==
  /\ mgr.phase = "CLEARING" /\ mgr.files = {}
  /\ mgr' = [mgr EXCEPT !.phase = "SAVING"] /\ marked' = marked \ {link}
  /\ UNCHANGED <<dirs, link, one_shot, selected, clients>>

\* save_one_client(): the file of its application, unless that is taken.
NameOf(c) ==
  IF c.app_id = None \/ \E f \in Current : f.name = c.app_id
  THEN c.startup ELSE c.app_id

\* scsm_autostart_app_save_to_keyfile(), for the client's application.
SavedProvides(c) == UNION {a.provides : a \in {x \in mgr.apps : x.name = c.app_id}}

\* xsmp_save()
FileOf(c) == [name |-> NameOf(c), startup |-> c.startup, program |-> c.program,
              provides |-> SavedProvides(c)]

\* scsm_session_save(), one step of its loop: a client that never restarts, or
\* has no restart command, is not saved.
SaveOneClient ==
  /\ mgr.phase = "SAVING"
  /\ \E c \in mgr.unsaved :
       /\ dirs' = IF c.saves THEN [dirs EXCEPT ![link] =
                      {f \in @ : f.name # FileOf(c).name} \cup {FileOf(c)}] ELSE dirs
       /\ mgr' = [mgr EXCEPT !.unsaved = @ \ {c}]
  /\ UNCHANGED <<link, marked, one_shot, selected, clients>>

\* An error stops the saving.
SaveFails ==
  /\ mgr.phase = "SAVING" /\ \E c \in mgr.unsaved : c.saves
  /\ mgr' = [mgr EXCEPT !.unsaved = {}]
  /\ UNCHANGED <<dirs, link, marked, one_shot, selected, clients>>

Exit ==
  /\ \/ mgr.phase = "SAVING" /\ mgr.unsaved = {}
     \/ mgr.phase \notin {"IDLE", "SELECTOR"} \* killed
  /\ mgr' = Idle /\ clients' = {}
  /\ UNCHANGED <<dirs, link, marked, one_shot, selected>>

Next ==
  \/ SelectorStarts \/ NewSession \/ RemoveSession \/ SelectorEnds
  \/ \E n \in Names : Select(n) \/ RenameSession(n) \/ CreateAndSelect(n)
  \/ \E kind \in {"normal", "failsafe", "systemd"} : Login(kind)
  \/ FindSession \/ AddApp \/ Start
  \/ \E saves \in BOOLEAN :
       \/ \E a \in mgr.apps : AppRegisters(a, saves)
       \/ \E a \in mgr.apps : a.program \in Rude /\ ProgramRegisters(a.program, saves)
       \/ ProgramRegisters(None, saves)
  \/ \E c \in clients : ClientLeaves(c)
  \/ EndSession \/ ClearOneClient \/ Cleared \/ SaveOneClient \/ SaveFails \/ Exit
Spec == Init /\ [][Next]_vars

(***************************************************************************)
(* Properties                                                              *)
(***************************************************************************)
\* The directories, the link, the settings, the manager and its clients have
\* their types; a plain directory is there exactly when saved-session is one, and
\* what a logout has still to clear and to save is there.
TypeOK ==
  /\ dirs \in [Sessions -> SUBSET File] /\ Sessions \subseteq Names \cup {Plain}
  /\ link \in Names \cup {Plain, None} /\ (link = Plain <=> Plain \in Sessions)
  /\ marked \subseteq Names \cap Sessions /\ one_shot \in BOOLEAN
  /\ selected \in Names \cup {None} /\ mgr \in Manager /\ clients \subseteq Client
  /\ mgr.files \subseteq Current /\ mgr.unsaved \subseteq clients

\* What an ordinary login finds saved is in its store under the startup id its
\* client had, unless a service it provides is another application's
\* (load_standard_apps, append_app, save_one_client).
SavedIsRestored ==
  Running /\ mgr.kind = "normal" /\ mgr.session # None =>
    \A f \in Current : \E a \in mgr.apps : a.startup = f.startup \/ SameService(a, f)

\* However often it was saved, an autostarted program whose client uses its
\* startup id is started once per login; no two applications have one startup
\* id or provide one service (on_xsmp_client_register_request, save_one_client,
\* add_autostart_app_internal).
StartedOnce ==
  Running => \A a, b \in mgr.apps :
    \/ a.program = b.program /\ a.program \in Apps \ Rude
    \/ a.startup = b.startup \/ SameService(a, b)
    => a = b

\* The row the selector shows as selected exists and is the session the next
\* login uses, whatever was renamed, removed or created (make_session_current).
\* Except when saved-session is a directory, as it stays when every name was taken
\* before the selector could rename it: then the login uses that directory.  A link
\* that points nowhere, which no login can save to, is left by a selector that found
\* nothing at all (populate_session_list), and by nothing else.
SelectedIsCurrent ==
  /\ selected # None => selected \in Sessions /\ link \in {selected, Plain}
  /\ link \in Names => link \in Sessions \/ Sessions = {}
=============================================================================
