--------------------------- MODULE MCCompanionApi ---------------------------
(* Reports with a job, without one, of readings, and one that does not parse; *)
(* every state and pause of a job for the views; a path of each kind.         *)
EXTENDS CompanionApi

MCTemps == {20, 200}

Reading(t) == [curr_nozzle |-> 20, target_nozzle |-> t, curr_bed |-> 20, target_bed |-> 20]

Job(state, pause) == [state |-> state, filename |-> CHOOSE f \in FileNames : TRUE,
                      pause |-> pause, progress |-> 0, print_time |-> 1, remain_time |-> 1]

Endless(job) == [job EXCEPT !.remain_time = OE_INT_MAX + 1]

InfoReport(project) ==
  [kind |-> "info", body |-> [state |-> Empty, temp |-> Reading(20), project |-> project]]

MCReports ==
  {InfoReport(p) : p \in {None, Job("printing", PAUSING)}}
  \cup {[kind |-> "info", body |-> [state |-> Empty, temp |-> None, project |-> None]],
        [kind |-> "temp", body |-> Reading(200)]}

(* jobs that the views tell apart: heating, with more time left than the   *)
(* cloud takes, and the states and pauses that are mapped to something else *)
MCJobs ==
  {[kind |-> "info", body |-> [state |-> Empty, temp |-> Reading(200),
                               project |-> Endless(Job("printing", PRINTING))]]}
  \cup {InfoReport(Job("printing", p)) : p \in {PRINTING, RESUMING, STOPPING}}
  \cup {InfoReport(Job(s, PRINTING)) : s \in {"heating", "finish"}}

MCAllReports == MCReports \cup MCJobs

Status == <<"octoeverywhere-command-api", "status">>
MCPaths == {Status, <<"api", "job">>, <<"favicon.ico">>}
=============================================================================
