---------------------------- MODULE StatusPusher ----------------------------
(***************************************************************************)
(* The OctoEverywhere status pusher (octoeverywhere/status_pusher.py) with *)
(* the translator snapshot it reads (state_translator.py).                 *)
(*                                                                         *)
(* start() creates the thread "run", which pushes at every interval, and   *)
(* the thread "init", which pushes once.  Both run the same _push() on the *)
(* same two unlocked fields, _last_state and _current_print_id, so _push   *)
(* is one action per access to shared state.  The cloud keeps the last     *)
(* event it received; a POST may fail, and is never repeated.              *)
(*                                                                         *)
(* PrintIds are numbered in the order they are drawn, 0 is the empty one.  *)
(***************************************************************************)
EXTENDS OeModels

CONSTANTS
  Reports,    \* the info reports the printer may send
  MaxPrints   \* bound: prints the printer starts

ASSUME ReportsAssumption == Reports \subseteq RawInfo
ASSUME MaxPrintsAssumption == MaxPrints \in Nat

VARIABLES
  info,              \* translator._info
  pc,                \* next line of each pusher thread
  loc,               \* locals of _push in each thread
  last_state,        \* pusher._last_state
  current_print_id,  \* pusher._current_print_id
  stopped,           \* pusher._stop.is_set()
  cloud,             \* the last event the cloud received
  \* history variables
  prints,            \* prints the reports have announced
  ids,               \* PrintIds drawn
  ends,              \* end events resolved
  raced,             \* two pushes have overlapped on the shared fields
  reordered,         \* a push ended before an earlier one did
  lost               \* the last POST failed

shared  == <<last_state, current_print_id>>
counts  == <<prints, ids, ends>>
flags   == <<raced, reordered, lost>>
vars == <<info, pc, loc, shared, stopped, cloud, counts, flags>>

Threads == {"run", "init"}
Labels  == {"off", "check", "info", "job", "prev", "capture", "id", "last",
            "post", "done"}

PrintingStates == {"printing", "paused", "warmingup"}
EndEvents      == {"done", "error", "failed"}
Events         == EndEvents \cup {"started", "progress", "paused", "resume",
                                  "timerprogress"}

(* a thread is between its first read in _push and its last write ... *)
InSection(t) == pc[t] \in {"job", "prev", "capture", "id", "last"}
(* ... or still to return from _push *)
InPush(t) == InSection(t) \/ pc[t] = "post"

(* "behind" is history: the other thread has an earlier POST still to send *)
NoLocals == [state |-> Empty, prev |-> Empty, print_id |-> 0, behind |-> FALSE]

-----------------------------------------------------------------------------
(* the events of a print that goes on, and of anything else *)
ResolveOther(prev, state) ==
  CASE prev \in PrintingStates /\ state = "paused"  -> "paused"
    [] prev = "printing" /\ state = "printing"      -> "progress"
    [] prev = "paused" /\ state = "printing"        -> "resume"
    [] OTHER                                        -> "timerprogress"

(* mutant: a print that goes straight to idle is no end *)
ResolveEventNoStop(prev, state) ==
  CASE prev \notin PrintingStates /\ state \in PrintingStates     -> "started"
    [] prev \in PrintingStates /\ state = "complete"              -> "done"
    [] prev \in PrintingStates /\ state = "error"                 -> "error"
    [] prev \in PrintingStates /\ state = "cancelled"             -> "failed"
    [] OTHER -> ResolveOther(prev, state)

(* mutant: any change to printing starts a print *)
ResolveEventRestart(prev, state) ==
  CASE state = "printing" /\ prev # "printing"                    -> "started"
    [] prev \notin PrintingStates /\ state \in PrintingStates     -> "started"
    [] prev \in PrintingStates /\ state \in {"complete", "idle"}  -> "done"
    [] prev \in PrintingStates /\ state = "error"                 -> "error"
    [] prev \in PrintingStates /\ state = "cancelled"             -> "failed"
    [] OTHER -> ResolveOther(prev, state)

(* _resolve_event: the event for the step from prev (Empty before the first push) *)
ResolveEvent(prev, state) ==
  CASE prev \notin PrintingStates /\ state \in PrintingStates     -> "started"
    [] prev \in PrintingStates /\ state \in {"complete", "idle"}  -> "done"
    [] prev \in PrintingStates /\ state = "error"                 -> "error"
    [] prev \in PrintingStates /\ state = "cancelled"             -> "failed"
    [] OTHER -> ResolveOther(prev, state)

IsTransition(prev, state) == prev # state

Event(t) == ResolveEvent(loc[t].prev, loc[t].state)

-----------------------------------------------------------------------------
Init ==
  /\ info = None
  /\ pc = [t \in Threads |-> "off"]
  /\ loc = [t \in Threads |-> NoLocals]
  /\ last_state = Empty /\ current_print_id = 0
  /\ stopped = FALSE
  /\ cloud = [event |-> "none", print_id |-> 0]
  /\ prints = 0 /\ ids = 0 /\ ends = 0
  /\ raced = FALSE /\ reordered = FALSE /\ lost = FALSE

(* _on_report on the MQTT thread: a report that does not parse is dropped *)
Report ==
  \E raw \in Reports :
    /\ Parses(raw)
    /\ info' = InfoFromDict(raw)
    /\ prints' = IF /\ JobState(info) \notin PrintingStates
                    /\ JobState(info') \in PrintingStates
                 THEN prints + 1 ELSE prints
    /\ prints' <= MaxPrints
    /\ UNCHANGED <<pc, loc, shared, stopped, cloud, ids, ends, flags>>

Goto(t, from, to) == pc[t] = from /\ pc' = [pc EXCEPT ![t] = to]

(* start() *)
Start ==
  /\ \A t \in Threads : pc[t] = "off"
  /\ stopped' = FALSE
  /\ pc' = [t \in Threads |-> IF t = "run" THEN "check" ELSE "info"]
  /\ UNCHANGED <<info, loc, shared, cloud, counts, flags>>

(* stop(): the join gives up after five seconds, so it waits for nothing *)
Stop ==
  /\ pc["run"] # "off"
  /\ stopped' = TRUE
  /\ UNCHANGED <<info, pc, loc, shared, cloud, counts, flags>>

(* mutant: the loop of _run does not test the stop event *)
CheckForever ==
  /\ Goto("run", "check", "info")
  /\ UNCHANGED <<info, loc, shared, stopped, cloud, counts, flags>>

(* _run: the test of the while loop; the wait of the interval is untimed *)
Check ==
  /\ Goto("run", "check", IF stopped THEN "done" ELSE "info")
  /\ UNCHANGED <<info, loc, shared, stopped, cloud, counts, flags>>

(* _push, first read: get_info *)
ReadInfo(t) ==
  /\ Goto(t, "info", "job")
  /\ raced' = (raced \/ \E u \in Threads \ {t} : InSection(u))
  /\ UNCHANGED <<info, loc, shared, stopped, cloud, counts, reordered, lost>>

(* second read, of a snapshot that may be newer: get_job_status *)
ReadJob(t) ==
  /\ Goto(t, "job", "prev")
  /\ loc' = [loc EXCEPT ![t].state = JobState(info)]
  /\ UNCHANGED <<info, shared, stopped, cloud, counts, flags>>

ReadPrev(t) ==
  /\ Goto(t, "prev", "capture")
  /\ loc' = [loc EXCEPT ![t].prev = last_state]
  /\ UNCHANGED <<info, shared, stopped, cloud, counts, flags>>

(* mutant: the PrintId is read after the end of the print has cleared it *)
CaptureIdCleared(t) ==
  /\ Goto(t, "capture", "id")
  /\ loc' = [loc EXCEPT ![t].print_id = IF Event(t) \in EndEvents
                                        THEN 0 ELSE current_print_id]
  /\ UNCHANGED <<info, shared, stopped, cloud, counts, flags>>

(* print_id = self._current_print_id *)
CaptureId(t) ==
  /\ Goto(t, "capture", "id")
  /\ loc' = [loc EXCEPT ![t].print_id = current_print_id]
  /\ UNCHANGED <<info, shared, stopped, cloud, counts, flags>>

(* mutant: the id of a finished print is kept *)
UpdateIdKept(t) ==
  /\ Goto(t, "id", "last")
  /\ IF Event(t) = "started"
     THEN /\ ids' = ids + 1
          /\ current_print_id' = ids'
          /\ loc' = [loc EXCEPT ![t].print_id = ids']
     ELSE UNCHANGED <<ids, current_print_id, loc>>
  /\ ends' = IF Event(t) \in EndEvents THEN ends + 1 ELSE ends
  /\ UNCHANGED <<info, last_state, stopped, cloud, prints, flags>>

(* a started print draws a PrintId, an ended one clears it *)
UpdateId(t) ==
  /\ Goto(t, "id", "last")
  /\ IF Event(t) = "started"
     THEN /\ ids' = ids + 1
          /\ current_print_id' = ids'
          /\ loc' = [loc EXCEPT ![t].print_id = ids']
     ELSE /\ current_print_id' = IF Event(t) \in EndEvents THEN 0
                                 ELSE current_print_id
          /\ UNCHANGED <<ids, loc>>
  /\ ends' = IF Event(t) \in EndEvents THEN ends + 1 ELSE ends
  /\ UNCHANGED <<info, last_state, stopped, cloud, prints, flags>>

AfterPush(t) == IF t = "run" THEN "check" ELSE "done"

OtherPosting(t) == \E u \in Threads \ {t} : pc[u] = "post"

(* mutant: an idle push returns even if it ends a print *)
SetLastSilent(t) ==
  /\ pc[t] = "last"
  /\ last_state' = loc[t].state
  /\ IF loc[t].state \notin PrintingStates
     THEN /\ pc' = [pc EXCEPT ![t] = AfterPush(t)]
          /\ loc' = [loc EXCEPT ![t] = NoLocals]
     ELSE /\ pc' = [pc EXCEPT ![t] = "post"]
          /\ loc' = [loc EXCEPT ![t].behind = OtherPosting(t)]
  /\ UNCHANGED <<info, current_print_id, stopped, cloud, counts, flags>>

(* self._last_state = state, and the early return of an idle push *)
SetLast(t) ==
  /\ pc[t] = "last"
  /\ last_state' = loc[t].state
  /\ IF /\ loc[t].state \notin PrintingStates
        /\ ~IsTransition(loc[t].prev, loc[t].state)
     THEN /\ pc' = [pc EXCEPT ![t] = AfterPush(t)]
          /\ loc' = [loc EXCEPT ![t] = NoLocals]
     ELSE /\ pc' = [pc EXCEPT ![t] = "post"]
          /\ loc' = [loc EXCEPT ![t].behind = OtherPosting(t)]
  /\ UNCHANGED <<info, current_print_id, stopped, cloud, counts, flags>>

(* _push returns: its locals are gone, and nobody is behind it any more *)
Return(t) ==
  /\ pc' = [pc EXCEPT ![t] = AfterPush(t)]
  /\ loc' = [u \in Threads |-> IF u = t THEN NoLocals
                               ELSE [loc[u] EXCEPT !.behind = FALSE]]

(* mutant: the push sends nothing while the state stays the same *)
PostTransition(t) ==
  /\ pc[t] = "post"
  /\ IF IsTransition(loc[t].prev, loc[t].state)
     THEN /\ cloud' = [event |-> Event(t), print_id |-> loc[t].print_id]
          /\ lost' = FALSE
          /\ reordered' = (reordered \/ loc[t].behind)
     ELSE UNCHANGED <<cloud, lost, reordered>>
  /\ Return(t)
  /\ UNCHANGED <<info, shared, stopped, counts, raced>>

(* session.post, answered by the cloud *)
Post(t) ==
  /\ pc[t] = "post"
  /\ cloud' = [event |-> Event(t), print_id |-> loc[t].print_id]
  /\ lost' = FALSE
  /\ reordered' = (reordered \/ loc[t].behind)
  /\ Return(t)
  /\ UNCHANGED <<info, shared, stopped, counts, raced>>

(* mutant: a push that failed is to be made again, as if it were the first *)
PostFailsRetried(t) ==
  /\ pc[t] = "post"
  /\ lost' = TRUE
  /\ reordered' = (reordered \/ loc[t].behind)
  /\ last_state' = loc[t].prev
  /\ Return(t)
  /\ UNCHANGED <<info, current_print_id, stopped, cloud, counts, raced>>

(* a refused or failed POST is logged and forgotten *)
PostFails(t) ==
  /\ pc[t] = "post"
  /\ lost' = TRUE
  /\ reordered' = (reordered \/ loc[t].behind)
  /\ Return(t)
  /\ UNCHANGED <<info, shared, stopped, cloud, counts, raced>>

Push(t) == ReadInfo(t) \/ ReadJob(t) \/ ReadPrev(t) \/ CaptureId(t)
           \/ UpdateId(t) \/ SetLast(t) \/ Post(t) \/ PostFails(t)

Next == Report \/ Start \/ Stop \/ Check \/ \E t \in Threads : Push(t)

Spec == Init /\ [][Next]_vars

(* The threads run, and a network that answers again and again lets a POST  *)
(* of the periodic thread through again and again.                          *)
Fairness == /\ WF_vars(Check)
            /\ \A t \in Threads : WF_vars(Push(t))
            /\ SF_vars(Post("run"))

FairSpec == Spec /\ Fairness

-----------------------------------------------------------------------------
TypeOK ==
  /\ info \in PrinterInfo \cup {None}
  /\ pc \in [Threads -> Labels]
  /\ loc \in [Threads -> [state : JobStates \cup {Empty}, prev : JobStates \cup {Empty},
                          print_id : Nat, behind : BOOLEAN]]
  /\ last_state \in JobStates \cup {Empty}
  /\ current_print_id \in Nat
  /\ stopped \in BOOLEAN
  /\ cloud \in [event : Events \cup {"none"}, print_id : Nat]
  /\ prints \in Nat /\ ids \in Nat /\ ends \in Nat
  /\ raced \in BOOLEAN /\ reordered \in BOOLEAN /\ lost \in BOOLEAN

Settled == \A t \in Threads : ~InSection(t)
Quiet   == \A t \in Threads : ~InPush(t)

(* Between pushes there is a PrintId exactly while the last state pushed is *)
(* a printing one: no id outlives its print and no print lacks one.  True   *)
(* of _push as long as the two threads never interleave on the two fields.  *)
PrintIdLifecycle ==
  ~raced /\ Settled => (current_print_id # 0 <=> last_state \in PrintingStates)

(* An end-of-print event about to be posted carries the id of a print that  *)
(* is over, although _push clears the field before it builds the payload:   *)
(* neither no id nor that of a print the other thread has seen start since. *)
EndEventsNameTheirPrint ==
  ~raced => \A t \in Threads :
    pc[t] = "post" /\ Event(t) \in EndEvents
      => loc[t].print_id \in (1 .. ids) \ {current_print_id}

(* The pusher invents no print: it draws no more PrintIds than the printer  *)
(* has announced prints, although it samples the snapshot and compares it   *)
(* with a state it stored an interval ago.                                  *)
NoPhantomPrint == ~raced => ids <= prints

(* When the first push of start() overlaps a periodic one, on fields that no *)
(* lock guards, both may draw a PrintId for one print; but that is all: also *)
(* with what the overlap leaves in the fields, the pushes after it draw no   *)
(* more than one PrintId that is not for a print the printer announced.      *)
OverlapDrawsOneMore == ids <= prints + 1

(* Every PrintId drawn but the current one was ended by exactly one event.  *)
EveryPrintEndsOnce ==
  ~raced /\ Settled => ids = ends + IF current_print_id = 0 THEN 0 ELSE 1

CloudShowsPrint == cloud.print_id # 0 /\ cloud.event \notin EndEvents

(* Between pushes the cloud shows a running print exactly while the last    *)
(* state is a printing one, and the right print, unless the last POST       *)
(* failed or the POSTs of the two threads overtook each other.  Idle pushes *)
(* are suppressed, so nothing would correct the cloud after a print.        *)
CloudTracksPrint ==
  ~raced /\ ~reordered /\ ~lost /\ Quiet =>
    /\ CloudShowsPrint <=> last_state \in PrintingStates
    /\ CloudShowsPrint => cloud.print_id = current_print_id

(* While the printer prints on, the heartbeat brings the cloud up to date   *)
(* however many POSTs failed before.                                        *)
CloudCatchesUp ==
  <>[](JobState(info) \in PrintingStates /\ ~stopped /\ ~raced /\ pc["run"] # "off")
    => <>[]CloudShowsPrint

(* Once stopped, both threads leave their loops.                            *)
StopEnds == stopped ~> \A t \in Threads : pc[t] = "done"
=============================================================================
