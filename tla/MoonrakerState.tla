--------------------------- MODULE MoonrakerState ---------------------------
(***************************************************************************)
(* The printer objects of the Moonraker bridge (moonraker_bridge/state.py) *)
(* as a function of the reports applied to them.  The objects are the      *)
(* fields of one record m; times in reports are minutes, times in m are    *)
(* seconds; a progress is a fraction <<numerator, denominator>>.           *)
(***************************************************************************)
EXTENDS KobraModels

CONSTANTS Infos   \* the parsed info reports that may arrive

ASSUME InfosAssumption == Infos \subseteq PrinterInfo

VARIABLES
  m,      \* the MoonrakerState object
  last    \* history: the last info applied

vars == <<m, last>>

PrintStates == {"standby", "printing", "paused", "complete", "error", "cancelled"}
HookStates  == {"ready", "printing", "paused", "error"}

-----------------------------------------------------------------------------
Lower(s) == IF s = "Printing" THEN "printing" ELSE s

(* the state a report stands for: a project's own, with pause overriding it; *)
(* capitals are ignored here, and nowhere else                               *)
KobraState(info) ==
  LET p == info.project IN
  IF p = None THEN Lower(info.state)
  ELSE LET s == Lower(p.state) IN
       CASE s = "printing" /\ p.pause \in {PAUSED, PAUSING} -> "paused"
         [] s = "printing" /\ p.pause = STOPPING -> "cancelled"
         [] OTHER -> s

(* mutant: a state without an entry is passed on *)
StateMapRaw(s) ==
  CASE s \in {"idle", Empty} -> "standby"
    [] s = "finish" -> "complete"
    [] OTHER -> s

(* state_map.get(kobra_state, "standby") *)
StateMap(s) ==
  CASE s \in {"printing", "paused", "error", "cancelled"} -> s
    [] s = "finish" -> "complete"
    [] OTHER -> "standby"

IsProject(info) == info # None /\ info.project # None
IsPrinting(info) == IsProject(info) /\ info.project.state = "printing"

Seconds(minutes) == 60 * minutes
Elapsed(p)  == Seconds(p.print_time)
Remains(p)  == Seconds(p.remain_time)
Computed(p) == Elapsed(p) + Remains(p)

(* the time ratio, or the printer's integer progress when there is no time *)
Progress(p) ==
  IF p.print_time + p.remain_time > 0
  THEN <<p.print_time, p.print_time + p.remain_time>>
  ELSE <<p.progress, 100>>

(* mutant: the total follows every report *)
FreezeNever(s, p) ==
  [s EXCEPT !.frozen_total = Computed(p), !.frozen_filename = p.filename]

(* mutant: a total of zero is frozen like any other *)
FreezeZero(s, p) ==
  IF s.frozen_filename = p.filename THEN s
  ELSE [s EXCEPT !.frozen_total = Computed(p), !.frozen_filename = p.filename]

(* the total is frozen on a new file, or while it still is zero *)
Freeze(s, p) ==
  IF s.frozen_filename = p.filename /\ s.frozen_total > 0 THEN s
  ELSE [s EXCEPT !.frozen_total = Computed(p), !.frozen_filename = p.filename]

(* mutant: the frozen total survives the end of the print *)
ThawNot(s) == s

(* a project that is not printing resets the frozen total *)
Thaw(s) == [s EXCEPT !.frozen_total = 0, !.frozen_filename = Empty]

SetState(s, info) == [s EXCEPT !.state = StateMap(KobraState(info))]

(* the project part of the update; without a project nothing changes *)
SetProject(s, info) ==
  IF ~IsProject(info) THEN s
  ELSE LET p == info.project
           f == IF IsPrinting(info) THEN Freeze(s, p) ELSE Thaw(s)
       IN [f EXCEPT !.filename = p.filename,
                    !.progress = Progress(p),
                    !.print_duration = Elapsed(p),
                    !.total_duration = IF IsPrinting(info) THEN f.frozen_total
                                       ELSE Computed(p),
                    !.print_time_left = Remains(p),
                    !.sd_progress = Progress(p),
                    !.is_active = IsPrinting(info)]

SetTemperature(s, temp) == [s EXCEPT !.temperature = temp]

(* webhooks follow the print state just stored *)
SetWebhooks(s) ==
  [s EXCEPT !.webhooks = IF s.state \in {"printing", "paused", "error"} THEN s.state
                         ELSE "ready"]

UpdateFromKobraInfo(s, info) ==
  SetWebhooks(SetTemperature(SetProject(SetState(s, info), info), info.temperature))

-----------------------------------------------------------------------------
Init ==
  /\ m = [state |-> "standby", filename |-> Empty, progress |-> <<0, 100>>,
          print_duration |-> 0, total_duration |-> 0, print_time_left |-> 0,
          sd_progress |-> <<0, 100>>, is_active |-> FALSE,
          temperature |-> None, webhooks |-> "ready",
          frozen_total |-> 0, frozen_filename |-> Empty]
  /\ last = None

UpdateInfo ==
  \E info \in Infos :
    /\ m' = UpdateFromKobraInfo(m, info)
    /\ last' = info

UpdateTemperature ==
  \E temp \in Temperature :
    /\ m' = SetTemperature(m, temp)
    /\ UNCHANGED last

Next == UpdateInfo \/ UpdateTemperature

Spec == Init /\ [][Next]_vars

-----------------------------------------------------------------------------
Fractions == {f \in Nat \X (Nat \ {0}) : f[1] <= f[2]}

TypeOK ==
  /\ m \in [state : PrintStates, filename : FileNames \cup {Empty},
            progress : Fractions, print_duration : Nat, total_duration : Nat,
            print_time_left : Nat, sd_progress : Fractions, is_active : BOOLEAN,
            temperature : Temperature \cup {None}, webhooks : HookStates,
            frozen_total : Nat, frozen_filename : FileNames \cup {Empty}]
  /\ last \in Infos \cup {None}

(* A positive estimate is taken as soon as the printer reports one, even if *)
(* the print began with reports whose times are still zero.                 *)
EstimateTaken ==
  IsPrinting(last) /\ Computed(last.project) > 0 => m.total_duration > 0

(* A print that follows a project that was not printing starts with its own *)
(* estimate, whatever was frozen before, also when the file is the same.    *)
FreshAfterProject ==
  [][ /\ IsProject(last) /\ ~IsPrinting(last) /\ IsPrinting(last')
      => m'.total_duration = Computed(last'.project) ]_last

(* "Not printing - reset so next print gets a fresh freeze": any report     *)
(* that is not of a printing project resets the total.                      *)
FreshFreeze ==
  [][ /\ ~IsPrinting(last) /\ IsPrinting(last')
      => m'.total_duration = Computed(last'.project) ]_last

(* What clients rely on: a job is a file with a positive frozen total.      *)
Estimate == INSTANCE FrozenEstimate WITH
  Jobs  <- FileNames \cup {Empty},
  job   <- IF m.frozen_total > 0 THEN m.frozen_filename ELSE None,
  total <- m.total_duration

(* MoonrakerState implements FrozenEstimate.                                *)
EstimateFrozen == Estimate!Spec
=============================================================================
