--------------------------- MODULE MoonrakerParts ---------------------------
(***************************************************************************)
(* Three parts of the Moonraker bridge that are driven from outside only:  *)
(* the printer objects, the temperature store and the G-code scripts.      *)
(* They share no variable, so a behaviour exercises the one that its first *)
(* state names.                                                            *)
(***************************************************************************)
EXTENDS MoonrakerState, GcodeLines

CONSTANTS
  MaxLen,       \* MAXLEN of the temperature store, 1200 in the code
  MaxReadings,  \* bound: readings of the temperatures
  MaxLines      \* bound: lines of a script

ASSUME SizesAssumption == MaxLen \in Nat \ {0} /\ MaxReadings \in Nat /\ MaxLines \in Nat

VARIABLES
  part,
  store, at, stamp, readings, refresh, reply, loop, missed, raced,
  kobra, pc, lines, updates, printer, meant, lost, before, raised

Store == INSTANCE TemperatureStore WITH Off <- NoValue
Gcode == INSTANCE GcodeScript

storeVars == <<store, at, stamp, readings, refresh, reply, loop, missed, raced>>
gcodeVars == <<kobra, pc, lines, updates, printer, meant, lost, before, raised>>
allVars   == <<part, vars, storeVars, gcodeVars>>

PartsInit == Init /\ Store!Init /\ Gcode!Init /\ part \in {"objects", "store", "gcode"}

PartsNext ==
  \/ part = "objects" /\ Next       /\ UNCHANGED <<part, storeVars, gcodeVars>>
  \/ part = "store"   /\ Store!Next /\ UNCHANGED <<part, vars, gcodeVars>>
  \/ part = "gcode"   /\ Gcode!Next /\ UNCHANGED <<part, vars, storeVars>>

PartsSpec == PartsInit /\ [][PartsNext]_allVars

(* Between two appends the four temperature series tell of the same readings. *)
SeriesAligned == Store!SeriesAligned

(* A reader gets series that differ by the appends it overlapped with at most. *)
ReadsAligned == Store!ReadsAligned

(* After each script the printer has the settings its lines called for, but   *)
(* for what failed; a script that raises changes none.                        *)
SettingsAsScripted == Gcode!SettingsAsScripted
=============================================================================
