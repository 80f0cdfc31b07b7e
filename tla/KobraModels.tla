---------------------------- MODULE KobraModels ----------------------------
(***************************************************************************)
(* The printer's data as the library parses it (models.py).  A report is  *)
(* a dictionary in which any key may be missing; the from_dict class       *)
(* methods give most keys a default, and raise KeyError for a missing      *)
(* temperature.  Names, layers and firmware details are left out.          *)
(***************************************************************************)
EXTENDS Naturals

CONSTANTS
  None,       \* Python's None: no value, no project, a missing key
  FileNames,  \* the G-code files a job can name
  Temps       \* temperature readings


(* PauseState: the values of project.pause *)
PRINTING == 0
PAUSED   == 1
PAUSING  == 2
RESUMING == 3
STOPPING == 4
PauseStates == PRINTING .. STOPPING

Empty == "empty"  \* stands for the empty string

ASSUME NoneAssumption == None \notin FileNames /\ None \notin Temps /\ None # Empty

(* what the printer writes in "state", at the top and in the project; one   *)
(* with a capital, that stands for any                                      *)
KobraStates == {Empty, "Printing", "printing", "paused", "preparing", "heating", "leveling",
                "finish", "idle", "error", "cancelled"}

Temperature == [curr_nozzle : Temps, target_nozzle : Temps,
                curr_bed : Temps, target_bed : Temps]

PrintProject == [state : KobraStates, filename : FileNames \cup {Empty}, pause : PauseStates,
                 progress : 0 .. 100, print_time : Nat, remain_time : Nat]

PrinterInfo == [state : KobraStates, temperature : Temperature,
                project : PrintProject \cup {None}]

(* The "data" of an info report: PrinterInfo.from_dict raises KeyError when *)
(* "temp" or one of its four readings is missing; an absent or empty        *)
(* "project" is None.                                                       *)
RawInfo == [state : KobraStates, temp : Temperature \cup {None},
            project : PrintProject \cup {None}]

Parses(raw) == raw.temp # None

InfoFromDict(raw) ==
  [state |-> raw.state, temperature |-> raw.temp, project |-> raw.project]

=============================================================================
