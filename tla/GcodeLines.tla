----------------------------- MODULE GcodeLines -----------------------------
(***************************************************************************)
(* The lines of a G-code script as the Moonraker bridge understands them   *)
(* (_parse_gcode_to_kobra of bridge.py) and the limits of the fan          *)
(* (command_set_fan of client.py).                                         *)
(***************************************************************************)
EXTENDS Integers

CONSTANTS
  Values,  \* the values of an S parameter, whole numbers here
  NoValue  \* a line without an S

ASSUME ValuesAssumption == Values \subseteq Int /\ NoValue \notin Int

(* M104 and M109, M140 and M190, M106, M107, and what is skipped: a comment, *)
(* another command, no command                                               *)
Line == [cmd : {"nozzle", "bed", "fan", "off", "other"}, s : Values \cup {NoValue}]

Settings == {"nozzle", "bed", "fan"}

(* int(), towards zero *)
Whole(a, b) == IF a >= 0 THEN a \div b ELSE -((-a) \div b)

Percent(s) == Whole(100 * s, 255)

Default(s, default) == IF s = NoValue THEN default ELSE s

(* command_set_fan *)
Clamp(pct) == IF pct < 0 THEN 0 ELSE IF pct > 100 THEN 100 ELSE pct

(* the setting a line is about, and what it sets, before the clamp *)
KeyOf(line) == IF line.cmd = "off" THEN "fan" ELSE line.cmd

ValueOf(line) ==
  CASE line.cmd \in {"nozzle", "bed"} -> Default(line.s, 0)
    [] line.cmd = "fan"               -> Percent(Default(line.s, 255))
    [] OTHER                          -> 0

(* what the printer has once it got value v for setting k *)
Applied(k, v) == IF k = "fan" THEN Clamp(v) ELSE v
=============================================================================
