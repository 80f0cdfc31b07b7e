---------------------------- MODULE GcodeScript ----------------------------
(***************************************************************************)
(* printer.gcode.script of the Moonraker bridge: _parse_gcode_to_kobra     *)
(* folds the lines of a script into one set of settings, which             *)
(* _rpc_gcode_script publishes in two updates, the temperatures and then   *)
(* the fan (bridge.py, client.py).  The printer, which is external, applies*)
(* what it receives.  An RPC never suspends, so scripts do not interleave. *)
(***************************************************************************)
EXTENDS GcodeLines

CONSTANT MaxLines   \* bound: lines of a script

VARIABLES
  kobra,     \* the bridge has its KobraClient
  pc,        \* "idle", "parse", "temps", "fan"
  lines,     \* lines of the present script so far
  updates,   \* the settings of the script: a function on some of Settings
  printer,   \* the settings of the printer
  meant,     \* history: the settings if each line acted by itself
  lost,      \* history: settings whose last update did not reach the printer
  before,    \* history: the printer's settings before the present script
  raised     \* history: the present script has raised

vars == <<kobra, pc, lines, updates, printer, meant, lost, before, raised>>

NoUpdates == [k \in {} |-> 0]

Init ==
  /\ kobra = TRUE
  /\ pc = "idle" /\ lines = 0
  /\ updates = NoUpdates
  /\ printer = [k \in Settings |-> 0] /\ meant = printer
  /\ lost = {}
  /\ before = printer /\ raised = FALSE

-----------------------------------------------------------------------------
(* stop() disconnects the client and forgets it, whatever a script is doing *)
Stop ==
  /\ kobra
  /\ kobra' = FALSE
  /\ UNCHANGED <<pc, lines, updates, printer, meant, lost, before, raised>>

(* a script that comes later is answered "ok" and not read *)
Ignore ==
  /\ pc = "idle" /\ ~kobra
  /\ UNCHANGED vars

Begin ==
  /\ pc = "idle" /\ kobra
  /\ pc' = "parse" /\ lines' = 0 /\ updates' = NoUpdates
  /\ before' = printer /\ raised' = FALSE
  /\ UNCHANGED <<kobra, printer, meant, lost>>

(* mutant: the first line that sets something wins *)
ParseFirst(line) ==
  /\ pc = "parse" /\ lines < MaxLines
  /\ lines' = lines + 1
  /\ line.cmd # "other"
  /\ updates' = [k \in DOMAIN updates \cup {KeyOf(line)} |->
                   IF k \in DOMAIN updates THEN updates[k] ELSE ValueOf(line)]
  /\ meant' = [meant EXCEPT ![KeyOf(line)] = Applied(KeyOf(line), ValueOf(line))]
  /\ UNCHANGED <<kobra, pc, printer, lost, before, raised>>

(* a line that is understood: a later one for the same setting wins *)
Parse(line) ==
  /\ pc = "parse" /\ lines < MaxLines
  /\ lines' = lines + 1
  /\ line.cmd # "other"
  /\ updates' = [k \in DOMAIN updates \cup {KeyOf(line)} |->
                   IF k = KeyOf(line) THEN ValueOf(line) ELSE updates[k]]
  /\ meant' = [meant EXCEPT ![KeyOf(line)] = Applied(KeyOf(line), ValueOf(line))]
  /\ UNCHANGED <<kobra, pc, printer, lost, before, raised>>

(* one that is not *)
Skip(line) ==
  /\ pc = "parse" /\ lines < MaxLines
  /\ lines' = lines + 1
  /\ line.cmd = "other"
  /\ UNCHANGED <<kobra, pc, updates, printer, meant, lost, before, raised>>

(* float() raises on a parameter as 1.2.3: the script has no effect *)
Raise ==
  /\ pc = "parse" /\ lines < MaxLines
  /\ pc' = "idle"
  /\ lost' = {k \in Settings : printer[k] # meant[k]}
  /\ raised' = TRUE
  /\ UNCHANGED <<kobra, printer, updates, lines, meant, before>>

(* the script ends: without settings nothing is published *)
End ==
  /\ pc = "parse"
  /\ pc' = IF DOMAIN updates = {} THEN "idle" ELSE "temps"
  /\ UNCHANGED <<kobra, lines, updates, printer, meant, lost, before, raised>>

(* An update with value(s) for ks reaches the printer, or its error is logged, *)
(* as that of an RPC whose client was stopped meanwhile.                       *)
Publish(ks, value) ==
  \/ /\ kobra
     /\ printer' = [k \in Settings |-> IF k \in ks THEN value[k] ELSE printer[k]]
     /\ lost' = lost \ ks
  \/ /\ lost' = lost \cup ks
     /\ UNCHANGED printer

(* command_set_temperature, with no settings at all if only the fan is set *)
PublishTemps ==
  /\ pc = "temps"
  /\ pc' = "fan"
  /\ Publish(DOMAIN updates \ {"fan"}, updates)
  /\ UNCHANGED <<kobra, lines, updates, meant, before, raised>>

(* command_set_fan, also when the temperatures could not be published *)
PublishFan ==
  /\ pc = "fan"
  /\ pc' = "idle"
  /\ Publish(DOMAIN updates \cap {"fan"}, [k \in DOMAIN updates |-> Clamp(updates[k])])
  /\ UNCHANGED <<kobra, lines, updates, meant, before, raised>>

Next ==
  \/ Stop \/ Ignore \/ Begin \/ Raise \/ End \/ PublishTemps \/ PublishFan
  \/ \E l \in Line : Parse(l) \/ Skip(l)

Spec == Init /\ [][Next]_vars

-----------------------------------------------------------------------------
(* Types; the fan of the printer never gets a speed it does not have. *)
TypeOK ==
  /\ kobra \in BOOLEAN /\ pc \in {"idle", "parse", "temps", "fan"}
  /\ lines \in Nat
  /\ DOMAIN updates \subseteq Settings /\ \A k \in DOMAIN updates : updates[k] \in Int
  /\ printer \in [Settings -> Int] /\ meant \in [Settings -> Int]
  /\ printer["fan"] \in 0..100
  /\ lost \subseteq Settings /\ raised \in BOOLEAN
  /\ before \in [Settings -> Int]

(* Folding a script into two updates is as good as acting on each line: when  *)
(* no script is under way the printer has the settings the lines called for,  *)
(* but for those of an update that failed or of a script that raised; the     *)
(* lines of a script that the stopped bridge ignores call for nothing.  And a *)
(* script that raises has no effect on the printer, however many of its lines *)
(* had been understood.                                                       *)
SettingsAsScripted ==
  /\ pc = "idle" => \A k \in Settings \ lost : printer[k] = meant[k]
  /\ raised => printer = before
=============================================================================
