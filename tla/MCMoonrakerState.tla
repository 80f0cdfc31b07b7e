-------------------------- MODULE MCMoonrakerState --------------------------
(***************************************************************************)
(* An instance of MoonrakerState for TLC: two files and no file name,      *)
(* prints of up to two minutes, one job state for each branch of the       *)
(* update.                                                                 *)
(***************************************************************************)
EXTENDS MoonrakerState

MCTemp == CHOOSE t \in Temperature : TRUE

MCJobs ==
  {j \in [state : {"printing", "Printing", "finish", "heating"}, filename : FileNames \cup {Empty},
          pause : {PRINTING, PAUSING, STOPPING}, progress : {50},
          print_time : 0 .. 2, remain_time : 0 .. 1] :
     j.state \notin {"printing", "Printing"} => j.pause = PRINTING}

MCInfos == [state : {"idle"}, temperature : {MCTemp}, project : MCJobs \cup {None}]
=============================================================================
