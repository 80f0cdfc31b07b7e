---------------------------- MODULE CompanionApi ----------------------------
(***************************************************************************)
(* What the OctoEverywhere companion answers.  Requests arrive from the    *)
(* cloud as web stream messages on the thread of OeClient.run, are routed  *)
(* by CommandRouter to a handler of octoeverywhere/__main__.py, and the    *)
(* handler reads the snapshots that KobraStateTranslator keeps, which the  *)
(* MQTT thread replaces meanwhile.  The OctoEverywhere core may also call  *)
(* KobraCommandHandler and KobraStateReporter.  The cloud, the WebSocket   *)
(* and the printer are external.                                           *)
(***************************************************************************)
EXTENDS OeModels, Sequences, SequencesExt

CONSTANTS
  Reports,      \* what the printer may send: see RawReport
  Paths,        \* request paths, as sequences of their parts
  MaxReports,   \* bound: reports
  MaxRequests   \* bound: streams the cloud begins and commands of the core, together

RawReport == [kind : {"info"}, body : RawInfo]
             \cup [kind : {"temp"}, body : Temperature \cup {None}]
             \cup [kind : {"fan"}, body : {None}]

ASSUME ReportsAssumption == Reports \subseteq RawReport /\ Temps \subseteq Nat
ASSUME BoundsAssumption  == {MaxReports, MaxRequests} \subseteq Nat

VARIABLES
  info, temp,   \* the translator's snapshots, or None
  infoAt,       \* history: number of the report each snapshot is from
  tempAt,
  reports,      \* reports so far
  link,         \* the WebSocket is connected
  queue,        \* messages of the cloud that run()'s thread has not taken
  pc,           \* run()'s thread: "idle", "handle", "send"
  req,          \* the message it handles
  reply,        \* the response it will send
  since,        \* history: infoAt when the message was taken
  out,          \* the responses on this connection
  streams,      \* streams so far
  begun,        \* history: the streams of this connection that want a response
  told          \* history: what the core's commands published and were answered

snapshots == <<info, temp, infoAt, tempAt, reports>>
wire      == <<link, queue, out, streams, begun>>
handling  == <<pc, req, reply, since>>
vars == <<snapshots, wire, handling, told>>

-----------------------------------------------------------------------------
(* CommandRouter: the default handlers, then what cmd_run registers *)
Defaults ==
  << <<<<"ping">>, "pong">>, <<<<"status">>, "idle">>,
     <<<<"api", "printer", "status">>, "idle">>,
     <<<<"api", "printer", "snapshot">>, "placeholder">>,
     <<<<"api", "printer">>, "idle">>, <<<<"api", "job">>, "no job">>,
     <<<<"webcam">>, "placeholder">>, <<<<"api", "live", "status">>, "idle">> >>

Wiring ==
  << <<<<"status">>, "status">>, <<<<"api", "printer", "status">>, "status">>,
     <<<<"api", "job">>, "job">>, <<<<"api", "printer">>, "printer">>,
     <<<<"webcam">>, "snapshot">>, <<<<>>, "root">> >>

(* the handler registered last for a path, or "none" *)
HandlerOf(path) ==
  LET found == SelectSeq(Defaults \o Wiring, LAMBDA e : e[1] = path)
  IN  IF found = <<>> THEN "none" ELSE Last(found)[2]

(* route: slashes, case and query are not part of a path here; the prefix of *)
(* the command API is dropped                                                *)
Route(path) ==
  HandlerOf(IF Len(path) > 1 /\ path[1] = "octoeverywhere-command-api"
            THEN Tail(path) ELSE path)

-----------------------------------------------------------------------------
(* _map_sub_state *)
SubState(i) ==
  LET p == i.project
      t == i.temperature
  IN  IF p = None THEN None
      ELSE IF t.curr_nozzle + 5 < t.target_nozzle THEN "Heating Hotend"
      ELSE IF t.curr_bed + 5 < t.target_bed THEN "Heating Bed"
      ELSE CASE p.state = "printing" /\ p.pause = PAUSING  -> "Pausing"
             [] p.state = "printing" /\ p.pause = RESUMING -> "Resuming"
             [] OTHER                                      -> None

TimeLeftSec(project) ==
  IF project.remain_time <= OE_INT_MAX THEN project.remain_time ELSE OE_INT_MAX

(* map_job_status: the job is shown while it is active *)
JobStatus(i) ==
  IF i = None THEN [state |-> "idle", sub |-> None, left |-> None]
  ELSE [state |-> MapState(i), sub |-> SubState(i),
        left  |-> IF MapState(i) \in {"printing", "paused", "warmingup"}
                  THEN TimeLeftSec(i.project) ELSE None]

(* handle_api_job: `p.pause.value` raises for every pause that is not zero, *)
(* pause being a plain number                                               *)
JobRaises(i) == i # None /\ i.project # None /\ i.project.pause # PRINTING

JobWord(i) ==
  IF i # None /\ i.project # None /\ i.project.state = "printing"
  THEN "Printing" ELSE "Operational"

(* what handler h returns: the code, the job status or the word for the job *)
(* if it shows one, and the number of the report it is made from            *)
Respond(h) ==
  [handler |-> h,
   code    |-> CASE h = "none" -> 404
                 [] h = "job" /\ JobRaises(info) -> 500
                 [] OTHER -> 200,
   job     |-> JobStatus(IF h = "status" THEN info ELSE None),
   word    |-> IF h = "job" /\ ~JobRaises(info) THEN JobWord(info) ELSE "none",
   at      |-> CASE h \in {"status", "job"} -> infoAt
                 [] h = "printer" -> tempAt
                 [] OTHER -> 0]

-----------------------------------------------------------------------------
Init ==
  /\ info = None /\ temp = None /\ infoAt = 0 /\ tempAt = 0 /\ reports = 0
  /\ link = TRUE /\ queue = <<>> /\ out = <<>> /\ streams = 0 /\ begun = <<>>
  /\ pc = "idle" /\ since = 0
  /\ req = [stream |-> 0, open |-> FALSE, close |-> FALSE, path |-> <<>>]
  /\ reply = Respond("none")
  /\ told = <<>>

(* _on_report: a report that does not parse raises, and changes nothing *)
Report(r) ==
  /\ reports < MaxReports
  /\ reports' = reports + 1
  /\ IF r.kind = "info" /\ Parses(r.body)
     THEN info' = InfoFromDict(r.body) /\ infoAt' = reports + 1
     ELSE UNCHANGED <<info, infoAt>>
  /\ IF r.kind = "temp" /\ r.body # None
     THEN temp' = r.body /\ tempAt' = reports + 1
     ELSE UNCHANGED <<temp, tempAt>>
  /\ UNCHANGED <<wire, handling, told>>

(* the cloud opens a stream, or sends more data on one, or closes it *)
CloudOpens(path) ==
  /\ link /\ streams + Len(told) < MaxRequests
  /\ streams' = streams + 1
  /\ queue' = Append(queue, [stream |-> streams + 1, open |-> TRUE, close |-> FALSE,
                             path |-> path])
  /\ begun' = Append(begun, streams + 1)
  /\ UNCHANGED <<link, out, snapshots, handling, told>>

CloudContinues(s, close) ==
  /\ link /\ s \in Range(begun) /\ Len(queue) < MaxRequests
  /\ queue' = Append(queue, [stream |-> s, open |-> FALSE, close |-> close, path |-> <<>>])
  /\ UNCHANGED <<link, out, streams, begun, snapshots, handling, told>>

LinkDrops ==
  /\ link
  /\ link' = FALSE
  /\ UNCHANGED <<queue, out, streams, begun, snapshots, handling, told>>

(* run() connects again, once its thread is back from the handlers *)
Reconnects ==
  /\ ~link /\ pc = "idle"
  /\ link' = TRUE /\ queue' = <<>> /\ out' = <<>> /\ begun' = <<>>
  /\ UNCHANGED <<streams, snapshots, handling, told>>

(* mutant: a message that closes its stream is answered *)
IgnoredOnlyData(m) == ~m.close /\ ~m.open /\ m.path = <<>>

(* _handle_webstream_msg does nothing for a close and for further data *)
Ignored(m) == m.close \/ (~m.open /\ m.path = <<>>)

Take ==
  /\ link /\ pc = "idle" /\ queue # <<>>
  /\ queue' = Tail(queue)
  /\ IF Ignored(Head(queue)) THEN UNCHANGED <<pc, req, since>>
     ELSE pc' = "handle" /\ req' = Head(queue) /\ since' = infoAt
  /\ UNCHANGED <<link, out, streams, begun, reply, snapshots, told>>

(* mutant: an answer of an earlier request is reused *)
HandleCached ==
  /\ pc = "handle"
  /\ pc' = "send"
  /\ reply' = IF reply.handler = "status" /\ Route(req.path) = "status" THEN reply
              ELSE Respond(Route(req.path))
  /\ UNCHANGED <<wire, req, since, snapshots, told>>

(* route calls the handler, which reads its snapshot once *)
Handle ==
  /\ pc = "handle"
  /\ pc' = "send"
  /\ reply' = Respond(Route(req.path))
  /\ UNCHANGED <<wire, req, since, snapshots, told>>

(* _send: nothing is sent, and nothing raised, without a connected socket *)
Send ==
  /\ pc = "send"
  /\ pc' = "idle"
  /\ out' = IF link THEN Append(out, [stream |-> req.stream, reply |-> reply]) ELSE out
  /\ UNCHANGED <<link, queue, streams, begun, req, reply, since, snapshots, told>>

-----------------------------------------------------------------------------
(* KobraCommandHandler: some commands publish, and fail without a client *)
Publishing == {"ExecutePause", "ExecuteResume", "ExecuteCancel", "ExecuteStart",
               "ExecuteSetTemp"}
Refusing   == {"ExecuteSetLight", "ExecuteMoveAxis", "ExecuteHome", "ExecuteExtrude",
               "ExecuteSendCommand", "ExecuteFileUpload", "ExecuteFileDownload",
               "ExecuteGetPluginLogs", "ExecuteFileDelete"}

Tell(published, ok) ==
  /\ streams + Len(told) < MaxRequests
  /\ told' = Append(told, [published |-> published, ok |-> ok])
  /\ UNCHANGED <<snapshots, wire, handling>>

(* the client may be connected or not; a start without a file name is refused *)
Execute(cmd) ==
  \E connected, named \in BOOLEAN :
    LET done == cmd \in Publishing /\ connected /\ (cmd = "ExecuteStart" => named)
    IN  Tell(done, done)

(* ExecuteFileList asks the printer, and publishes no command *)
ExecuteFileList == \E connected \in BOOLEAN : Tell(FALSE, connected)

(* KobraStateReporter *)
RemainingReported ==
  IF info # None /\ info.project # None /\ info.project.remain_time > 0
  THEN info.project.remain_time ELSE 0

(* mutant: a paused job keeps its timers *)
TimersOfJob == info # None /\ info.project # None /\ info.project.state = "printing"

TimersRunning == info # None /\ info.project # None
                 /\ info.project.state = "printing" /\ info.project.pause = PRINTING

WarmingUp == temp # None /\ \/ temp.curr_nozzle + 10 < temp.target_nozzle
                            \/ temp.curr_bed + 10 < temp.target_bed

-----------------------------------------------------------------------------
Run == Take \/ Handle \/ Send

Next ==
  \/ \E r \in Reports : Report(r)
  \/ \E path \in Paths : CloudOpens(path)
  \/ \E s \in 1..MaxRequests, close \in BOOLEAN : CloudContinues(s, close)
  \/ LinkDrops \/ Reconnects \/ Run
  \/ \E cmd \in Publishing \cup Refusing : Execute(cmd)
  \/ ExecuteFileList

Spec == Init /\ [][Next]_vars

-----------------------------------------------------------------------------
Message == [stream : 1..MaxRequests, open : BOOLEAN, close : BOOLEAN, path : Paths \cup {<<>>}]

Response == [handler : {"none"} \cup {Route(p) : p \in Paths \cup {<<>>}}, code : {200, 404, 500},
             job : {JobStatus(i) : i \in PrinterInfo \cup {None}},
             word : {"Printing", "Operational", "none"}, at : 0..MaxReports]

TypeOK ==
  /\ info \in PrinterInfo \cup {None} /\ temp \in Temperature \cup {None}
  /\ reports \in 0..MaxReports /\ infoAt \in 0..reports /\ tempAt \in 0..reports
  /\ since \in 0..infoAt
  /\ link \in BOOLEAN /\ told \in Seq([published : BOOLEAN, ok : BOOLEAN])
  /\ pc \in {"idle", "handle", "send"}
  /\ streams \in Nat /\ streams + Len(told) <= MaxRequests
  /\ queue \in Seq(Message) /\ begun \in Seq(1..MaxRequests)
  /\ req.stream \in 0..MaxRequests /\ req.path \in Paths \cup {<<>>}
  /\ reply \in Response
  /\ out \in Seq([stream : 0..MaxRequests, reply : Response])

(* The responses on a connection are one for each stream the cloud opened on *)
(* it, in that order, also when a handler fails or knows no such path, and   *)
(* never one for a stream of an earlier connection.                          *)
StreamsAnswered ==
  LET answered == [i \in DOMAIN out |-> out[i].stream]
  IN  /\ link => IsPrefix(answered, begun)
      /\ link /\ pc = "idle" /\ queue = <<>> => answered = begun

(* The status a cloud client sees never goes back to an earlier report, and *)
(* is at least as new as the last report before its request was taken.      *)
StatusForward ==
  /\ \A i, j \in DOMAIN out :
       i <= j /\ out[i].reply.handler = "status" /\ out[j].reply.handler = "status"
         => out[i].reply.at <= out[j].reply.at
  /\ pc = "send" /\ Route(req.path) = "status" => since <= reply.at

(* What a client has been told of the present report agrees with what the  *)
(* core is told of it by the reporter.  A status says printing exactly when *)
(* the timers run, except that a job that is resuming is printing and has   *)
(* its timers stopped; api/job says so exactly when they run, since it      *)
(* fails for any job with a pause.  What the reporter calls warming up is   *)
(* shown as heating, and the time left is the reporter's, or the largest    *)
(* the cloud takes if that is more.                                         *)
Resuming == info # None /\ info.project # None
            /\ info.project.state = "printing" /\ info.project.pause = RESUMING

StatusAgrees(job) ==
  /\ job.state = "printing" <=> TimersRunning \/ Resuming
  /\ WarmingUp /\ info # None /\ info.project # None /\ info.temperature = temp
       => job.sub \in {"Heating Hotend", "Heating Bed"}
  /\ job.left # None => \/ job.left = RemainingReported /\ job.left <= OE_INT_MAX
                        \/ job.left = OE_INT_MAX /\ RemainingReported > OE_INT_MAX

ViewsAgree ==
  \A i \in DOMAIN out :
    LET answer == out[i].reply
    IN  answer.at = infoAt =>
          /\ answer.handler = "status" => StatusAgrees(answer.job)
          /\ answer.handler = "job" => (answer.word = "Printing" <=> TimersRunning)
=============================================================================
