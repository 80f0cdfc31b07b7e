----------------------------- MODULE OeModels ------------------------------
(***************************************************************************)
(* The OctoEverywhere job states and the map from a PrinterInfo to them    *)
(* (octoeverywhere/models.py).                                             *)
(***************************************************************************)
EXTENDS KobraModels

JobStates == {"idle", "printing", "paused", "complete", "cancelled", "error",
              "warmingup"}

(* _map_state of a job the printer reports as "printing" *)
PausedOr(pause) ==
  CASE pause \in {PAUSED, PAUSING} -> "paused"
    [] pause = STOPPING            -> "cancelled"
    [] OTHER                       -> "printing"

(* _map_state: note that project.state "paused" has no entry and reads idle *)
MapState(info) ==
  IF info.project = None THEN "idle"
  ELSE LET s == info.project.state IN
       CASE s = "printing"                              -> PausedOr(info.project.pause)
         [] s \in {"preparing", "heating", "leveling"}  -> "warmingup"
         [] s = "finish"                                -> "complete"
         [] s \in {"error", "cancelled"}                -> s
         [] OTHER                                       -> "idle"

(* no larger number of seconds is sent to the cloud *)
OE_INT_MAX == 2147483600

(* get_job_status: a JobStatus() is idle until the first report is parsed *)
JobState(info) == IF info = None THEN "idle" ELSE MapState(info)
=============================================================================
