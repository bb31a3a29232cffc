------------------------------ MODULE MCStartup ------------------------------
(* Startup for TLC: a compositor, a settings daemon that is restarted        *)
(* automatically and has an autostart condition, and a panel that is         *)
(* activated over D-Bus.                                                     *)
EXTENDS Startup

CONSTANTS compositor, settings, panel

Phases == [a \in Apps |->
  CASE a = compositor -> DISPLAY_SERVER
    [] a = settings   -> INITIALIZATION
    [] OTHER          -> PANEL]
==============================================================================
