--------------------------- MODULE MCStatusPusher ---------------------------
(***************************************************************************)
(* Instances of StatusPusher for TLC: reports of a job that heats, prints, *)
(* is paused, stopped and gone, and one that does not parse.               *)
(***************************************************************************)
EXTENDS StatusPusher

MCTemp == CHOOSE t \in Temperature : TRUE

Job(state, pause) == [state |-> state, filename |-> CHOOSE f \in FileNames : TRUE,
                      pause |-> pause, progress |-> 0,
                      print_time |-> 1, remain_time |-> 1]

InfoReport(project) == [state |-> Empty, temp |-> MCTemp, project |-> project]

MCReports ==
  {InfoReport(p) : p \in {None, Job("heating", PRINTING), Job("printing", PRINTING),
                          Job("printing", PAUSED), Job("printing", STOPPING)}}
  \cup {[state |-> Empty, temp |-> None, project |-> None]}

(* for liveness: a job prints and finishes *)
MCFewReports ==
  {InfoReport(p) : p \in {Job("printing", PRINTING), Job("finish", PRINTING)}}

(* raced never turns false again and every invariant of the safety run       *)
(* assumes ~raced: states past an overlap need no successors there.  The     *)
(* liveness run has them.                                                    *)
NotRaced == ~raced
=============================================================================
