---------------------------- MODULE BridgeServer ----------------------------
(***************************************************************************)
(* The Moonraker bridge (moonraker_bridge/bridge.py): the way of a status  *)
(* from the printer to the WebSocket clients.  Three threads share it: the *)
(* main thread starts the bridge and applies the answers of two queries,   *)
(* the MQTT thread applies reports and broadcasts, the event loop of the   *)
(* server answers clients and sends what was queued for them.              *)
(*                                                                         *)
(* A status is reduced to the number of the report behind each of three    *)
(* groups of printer objects: "stats" (print_stats, virtual_sdcard),       *)
(* "temps" (extruder, heater_bed) and "hooks" (webhooks, which are derived *)
(* from print_stats).                                                      *)
(***************************************************************************)
EXTENDS Naturals, Sequences, FiniteSets

CONSTANTS
  Clients,     \* WebSocket clients
  Kinds,       \* the reports the printer sends: "info", "temp", "fan", "bad"
  MaxReports,  \* bound: reports the printer sends
  MaxWire,     \* bound: reports in transit
  None         \* no report, no status

Parts == {"stats", "temps", "hooks"}

ASSUME KindsAssumption  == Kinds \subseteq {"info", "temp", "fan", "bad"}
ASSUME BoundsAssumption == MaxReports \in Nat /\ MaxWire \in Nat
ASSUME NoneAssumption   == /\ None \notin [Parts -> 0 .. MaxReports]
                           /\ None \notin Nat
                           /\ None \notin Clients \cup {"files"} /\ "files" \notin Clients

VARIABLES
  wire,      \* reports on their way to the MQTT thread, in order
  sent,      \* number of reports the printer has sent
  hooked,    \* on_report is installed
  asked,     \* the kind the present blocking call waits for, or None
  answer,    \* the report the call has received, or None
  callers,   \* the threads inside a blocking call of the printer client
  pc,        \* program counters of the two writers of the state
  rep,       \* the report each of them applies
  reg,       \* print_stats.state as each read it to derive webhooks
  obj,       \* MoonrakerState: the report behind each group of objects
  server,    \* the server thread: "down", "starting", "up", "failed", "closed"
  open,      \* _ws_clients
  loop,      \* what the event loop is doing: nothing, a reply, "files"
  part,      \* the reply being built: what has been read so far
  sends,     \* sends[c]: notifications scheduled on the loop for c
  view,      \* view[c]: the last status c has been sent in any way
  published, \* history: statuses broadcast
  noted,     \* history: the last notification sent to c
  raced      \* history: both writers were in an update at once

printer == <<wire, sent>>
call    == <<hooked, asked, answer, callers>>
writers == <<pc, rep, reg, obj, raced>>
clients == <<open, sends, view, noted>>
serving == <<server, loop, part>>
vars == <<printer, call, writers, clients, serving, published>>

Report == [n : 1 .. MaxReports, kind : Kinds]
Status == [Parts -> 0 .. MaxReports]
Unread == [p \in Parts |-> None]

Updating == {"stats", "temps", "read", "hooks"}   \* inside an update

Points ==   \* the labels of the two writers
  Updating \cup {"connect", "hook", "ask_info", "wait_info", "ask_temp", "wait_temp",
                 "serve", "sleep", "running", "stopped", "idle", "cast", "queue"}

Init ==
  /\ wire = <<>> /\ sent = 0
  /\ hooked = FALSE /\ asked = None /\ answer = None /\ callers = {}
  /\ pc = [main |-> "connect", mqtt |-> "idle"]
  /\ rep = [main |-> None, mqtt |-> None]
  /\ reg = [main |-> 0, mqtt |-> 0]
  /\ obj = [p \in Parts |-> 0]
  /\ raced = FALSE
  /\ server = "down" /\ loop = None /\ part = Unread
  /\ open = {}
  /\ sends = [c \in Clients |-> <<>>]
  /\ view = [c \in Clients |-> None]
  /\ noted = [c \in Clients |-> None]
  /\ published = <<>>

Goto(w, from, to) ==
  /\ pc[w] = from
  /\ pc' = [pc EXCEPT ![w] = to]
  /\ raced' = (raced \/ (pc'["main"] \in Updating /\ pc'["mqtt"] \in Updating))

-----------------------------------------------------------------------------
(* The printer sends a report; it is lost unless the bridge is connected.   *)
PrinterReports ==
  /\ sent < MaxReports /\ Len(wire) < MaxWire
  /\ pc["main"] \notin {"connect", "stopped"}
  /\ sent' = sent + 1
  /\ \E k \in Kinds : wire' = Append(wire, [n |-> sent + 1, kind |-> k])
  /\ UNCHANGED <<call, writers, clients, serving, published>>

(* start(): connect() subscribes; the callback is installed after it *)
Connect ==
  /\ Goto("main", "connect", "hook")
  /\ UNCHANGED <<printer, call, rep, reg, obj, clients, serving, published>>

SetOnReport ==
  /\ Goto("main", "hook", "ask_info")
  /\ hooked' = TRUE
  /\ UNCHANGED <<printer, asked, answer, callers, rep, reg, obj, clients, serving,
                 published>>

(* _refresh_state: a query on the main thread, which puts its handler in    *)
(* the place of _on_message and waits                                       *)
Ask(kind, from, to) ==
  /\ Goto("main", from, to)
  /\ asked' = kind /\ answer' = None /\ callers' = callers \cup {"main"}
  /\ UNCHANGED <<printer, hooked, rep, reg, obj, clients, serving, published>>

AskInfo == Ask("info", "ask_info", "wait_info")
AskTemp == Ask("temp", "ask_temp", "wait_temp")

CallOver(w) ==
  /\ asked' = None /\ answer' = None /\ callers' = callers \ {w}

(* the answer is there: it will be applied to the state on this thread *)
Answered(kind, from, first) ==
  /\ asked = kind /\ answer # None
  /\ Goto("main", from, first)
  /\ rep' = [rep EXCEPT !["main"] = answer]
  /\ CallOver("main")
  /\ UNCHANGED <<printer, hooked, reg, obj, clients, serving, published>>

InfoAnswered == Answered("info", "wait_info", "stats")
TempAnswered == Answered("temp", "wait_temp", "temps")

(* no answer in time: from_dict raises on {}, and the refresh is given up *)
Unanswered ==
  /\ answer = None
  /\ \E from \in {"wait_info", "wait_temp"} : Goto("main", from, "serve")
  /\ CallOver("main")
  /\ UNCHANGED <<printer, hooked, rep, reg, obj, clients, serving, published>>

-----------------------------------------------------------------------------
(* The MQTT thread takes the next report off the wire; the installed        *)
(* handler decides what becomes of it.                                      *)
ToCall(r) ==    \* the handler of a blocking call: other topics are dropped
  /\ asked # None
  /\ answer' = IF r.kind = asked THEN r ELSE answer
  /\ UNCHANGED <<pc, rep, raced>>

ToNobody(r) ==  \* no on_report yet, or a report that does not parse
  /\ asked = None
  /\ ~hooked \/ r.kind = "bad"
  /\ UNCHANGED <<answer, pc, rep, raced>>

ToBridge(r) ==  \* _on_kobra_report; a fan report changes nothing
  /\ asked = None /\ hooked /\ r.kind # "bad"
  /\ Goto("mqtt", "idle",
          CASE r.kind = "info" -> "stats" [] r.kind = "temp" -> "temps"
            [] OTHER -> "cast")
  /\ rep' = [rep EXCEPT !["mqtt"] = r]
  /\ UNCHANGED answer

Deliver ==
  /\ wire # <<>> /\ pc["mqtt"] = "idle" /\ pc["main"] # "stopped"
  /\ wire' = Tail(wire)
  /\ ToCall(Head(wire)) \/ ToNobody(Head(wire)) \/ ToBridge(Head(wire))
  /\ UNCHANGED <<sent, hooked, asked, callers, reg, obj, clients, serving, published>>

-----------------------------------------------------------------------------
(* update_from_kobra_info and update_from_kobra_temperature, by either      *)
(* thread w: groups of objects are written one after the other, unlocked.   *)
Write(p, value) == obj' = [obj EXCEPT ![p] = value]

(* where w goes when its update is done: the MQTT thread broadcasts, the    *)
(* main thread asks for temperatures and then starts the server             *)
AfterUpdate(w) ==
  CASE w = "mqtt" -> "cast"
    [] w = "main" /\ rep[w].kind = "info" -> "ask_temp"
    [] OTHER -> "serve"

WriteStats(w) ==
  /\ Goto(w, "stats", "temps")
  /\ Write("stats", rep[w].n)
  /\ UNCHANGED <<printer, call, rep, reg, clients, serving, published>>

WriteTemps(w) ==
  /\ Goto(w, "temps", IF rep[w].kind = "info" THEN "read" ELSE AfterUpdate(w))
  /\ Write("temps", rep[w].n)
  /\ UNCHANGED <<printer, call, rep, reg, clients, serving, published>>

(* webhooks are chosen by the print state read back from print_stats *)
ReadStats(w) ==
  /\ Goto(w, "read", "hooks")
  /\ reg' = [reg EXCEPT ![w] = obj["stats"]]
  /\ UNCHANGED <<printer, call, rep, obj, clients, serving, published>>

(* mutant: webhooks keep the state they had *)
WriteHooksNot(w) ==
  /\ Goto(w, "hooks", AfterUpdate(w))
  /\ UNCHANGED <<printer, call, rep, reg, obj, clients, serving, published>>

WriteHooks(w) ==
  /\ Goto(w, "hooks", AfterUpdate(w))
  /\ Write("hooks", reg[w])
  /\ UNCHANGED <<printer, call, rep, reg, clients, serving, published>>

Update(w) == WriteStats(w) \/ WriteTemps(w) \/ ReadStats(w) \/ WriteHooks(w)

(* _broadcast_status_update: nothing to do without clients or without the loop *)
NobodyToTell ==
  /\ open = {} \/ server = "down"
  /\ Goto("mqtt", "cast", "idle")
  /\ UNCHANGED <<printer, call, rep, reg, obj, clients, serving, published>>

SomebodyToTell ==
  /\ open # {} /\ server # "down"
  /\ Goto("mqtt", "cast", "queue")
  /\ UNCHANGED <<printer, call, rep, reg, obj, clients, serving, published>>

(* mutant: the lock is released, and the loop runs, between two clients *)
QueueSome ==
  /\ Goto("mqtt", "queue", "idle")
  /\ \E told \in SUBSET open :
       sends' = [c \in Clients |-> IF c \in told THEN Append(sends[c], obj) ELSE sends[c]]
  /\ published' = Append(published, obj)
  /\ UNCHANGED <<printer, call, rep, reg, obj, open, view, noted, serving>>

(* the status is built, and under _ws_lock a send is scheduled for each client *)
QueueSends ==
  /\ Goto("mqtt", "queue", "idle")
  /\ sends' = [c \in Clients |-> IF c \in open THEN Append(sends[c], obj) ELSE sends[c]]
  /\ published' = Append(published, obj)
  /\ UNCHANGED <<printer, call, rep, reg, obj, open, view, noted, serving>>

-----------------------------------------------------------------------------
(* mutant: the server is started before the state is refreshed *)
StartServerEarly ==
  /\ pc["main"] = "ask_info" /\ server = "down"
  /\ server' = "starting"
  /\ UNCHANGED <<printer, call, writers, clients, loop, part, published>>

(* _start_server: the thread is started, and start() sleeps half a second *)
StartServer ==
  /\ Goto("main", "serve", "sleep")
  /\ server' = "starting"
  /\ UNCHANGED <<printer, call, rep, reg, obj, clients, loop, part, published>>

(* the server thread binds its port, or dies of the exception *)
Bind ==
  /\ server = "starting"
  /\ server' \in {"up", "failed"}
  /\ UNCHANGED <<printer, call, writers, clients, loop, part, published>>

(* start() returns, whatever became of the server thread *)
StartReturns ==
  /\ Goto("main", "sleep", "running")
  /\ UNCHANGED <<printer, call, rep, reg, obj, clients, serving, published>>

(* stop(): disconnect() waits for the MQTT thread, and then the clean-up it  *)
(* schedules on the loop closes every socket; a second stop() is idle        *)
Stop ==
  /\ pc["mqtt"] = "idle"
  /\ Goto("main", "running", "stopped")
  /\ UNCHANGED <<printer, call, rep, reg, obj, clients, serving, published>>

Gone(cs) ==
  /\ open' = open \ cs
  /\ sends' = [c \in Clients |-> IF c \in cs THEN <<>> ELSE sends[c]]
  /\ view' = [c \in Clients |-> IF c \in cs THEN None ELSE view[c]]
  /\ noted' = [c \in Clients |-> IF c \in cs THEN None ELSE noted[c]]

CleanUp ==
  /\ pc["main"] = "stopped" /\ server = "up" /\ loop = None
  /\ Gone(open)
  /\ server' = "closed"
  /\ UNCHANGED <<printer, call, writers, loop, part, published>>

-----------------------------------------------------------------------------
(* The event loop, one callback at a time.  It is free when loop = None.    *)

(* _handle_websocket: the socket is added under _ws_lock *)
Join(c) ==
  /\ server = "up" /\ loop = None
  /\ c \notin open
  /\ open' = open \cup {c}
  /\ UNCHANGED <<printer, call, writers, sends, view, noted, serving, published>>

Leave(c) ==
  /\ loop = None /\ c \in open
  /\ Gone({c})
  /\ UNCHANGED <<printer, call, writers, serving, published>>

(* _rpc_query, _rpc_subscribe: the objects a client asks for, here all of   *)
(* them, are read in the client's order while the MQTT thread may write     *)
BeginReply(c) ==
  /\ loop = None /\ c \in open
  /\ loop' = c
  /\ UNCHANGED <<printer, call, writers, clients, server, part, published>>

ReadPart(c, p) ==
  /\ loop = c /\ part[p] = None
  /\ part' = [part EXCEPT ![p] = obj[p]]
  /\ UNCHANGED <<printer, call, writers, clients, server, loop, published>>

Reply(c) ==
  /\ loop = c /\ \A p \in Parts : part[p] # None
  /\ view' = [view EXCEPT ![c] = part]
  /\ loop' = None /\ part' = Unread
  /\ UNCHANGED <<printer, call, writers, open, sends, noted, server, published>>

(* mutant: the newest notification is sent first *)
SendNewest(c) ==
  LET last == Len(sends[c]) IN
  /\ loop = None /\ sends[c] # <<>>
  /\ view' = [view EXCEPT ![c] = sends[c][last]]
  /\ noted' = [noted EXCEPT ![c] = sends[c][last]]
  /\ sends' = [sends EXCEPT ![c] = SubSeq(sends[c], 1, last - 1)]
  /\ UNCHANGED <<printer, call, writers, open, serving, published>>

(* a scheduled ws.send_str runs *)
Send(c) ==
  /\ loop = None /\ sends[c] # <<>>
  /\ view' = [view EXCEPT ![c] = Head(sends[c])]
  /\ noted' = [noted EXCEPT ![c] = Head(sends[c])]
  /\ sends' = [sends EXCEPT ![c] = Tail(sends[c])]
  /\ UNCHANGED <<printer, call, writers, open, serving, published>>

(* _get_kobra_files: a blocking call of the printer client on the loop      *)
ListFiles ==
  /\ loop = None /\ server = "up" /\ pc["main"] # "stopped"
  /\ loop' = "files"
  /\ asked' = "file" /\ answer' = None /\ callers' = callers \cup {"loop"}
  /\ UNCHANGED <<printer, hooked, writers, clients, server, part, published>>

FilesListed ==
  /\ loop = "files"
  /\ loop' = None
  /\ CallOver("loop")
  /\ UNCHANGED <<printer, hooked, writers, clients, server, part, published>>

-----------------------------------------------------------------------------
MainStep ==
  \/ Connect \/ SetOnReport \/ AskInfo \/ InfoAnswered \/ AskTemp \/ TempAnswered
  \/ Unanswered \/ StartServer \/ StartReturns \/ Update("main")

MqttStep == Deliver \/ Update("mqtt") \/ NobodyToTell \/ SomebodyToTell \/ QueueSends

ReplyStep == \E c \in Clients : Reply(c) \/ \E p \in Parts : ReadPart(c, p)

LoopStep ==
  \/ ReplyStep \/ ListFiles \/ FilesListed
  \/ \E c \in Clients : Join(c) \/ Leave(c) \/ BeginReply(c) \/ Send(c)

Next == PrinterReports \/ MainStep \/ MqttStep \/ Bind \/ Stop \/ CleanUp \/ LoopStep

Spec == Init /\ [][Next]_vars

(* Every thread runs.  Callbacks of the loop are served in turn, so that a  *)
(* scheduled send is not overtaken for ever by new requests.                *)
Fairness ==
  /\ WF_vars(MainStep) /\ WF_vars(MqttStep)
  /\ WF_vars(ReplyStep) /\ WF_vars(FilesListed)
  /\ \A c \in Clients : SF_vars(Send(c))

FairSpec == Spec /\ Fairness

-----------------------------------------------------------------------------
TypeOK ==
  /\ wire \in Seq(Report) /\ sent \in 0 .. MaxReports
  /\ hooked \in BOOLEAN /\ asked \in {"info", "temp", "file", None}
  /\ answer \in Report \cup {None} /\ callers \subseteq {"main", "loop"}
  /\ pc \in [{"main", "mqtt"} -> Points]
  /\ rep \in [{"main", "mqtt"} -> Report \cup {None}]
  /\ reg \in [{"main", "mqtt"} -> 0 .. MaxReports]
  /\ obj \in Status /\ raced \in BOOLEAN
  /\ server \in {"down", "starting", "up", "failed", "closed"}
  /\ loop \in Clients \cup {None, "files"}
  /\ part \in [Parts -> 0 .. MaxReports \cup {None}]
  /\ open \subseteq Clients
  /\ sends \in [Clients -> Seq(Status)]
  /\ view \in [Clients -> Status \cup {None}]
  /\ noted \in [Clients -> Status \cup {None}]
  /\ published \in Seq(Status)

(* The bridge never has two blocking calls of its printer client under way, *)
(* the case in which that client may be left with a stale handler: start()  *)
(* is done with its queries before the loop can list files.                 *)
OneCall == Cardinality(callers) <= 1

(* Webhooks agree with print_stats whenever nobody is in an update, unless  *)
(* the start-up answer was applied while a report was.                      *)
HooksFollow ==
  (~raced /\ \A w \in {"main", "mqtt"} : pc[w] \notin Updating)
    => obj["hooks"] = obj["stats"]

(* No update is lost on a client: when the MQTT thread is done and nothing  *)
(* is queued for it, a client that has been sent a status has the status of *)
(* the bridge, even if its reply was built in the middle of an update.      *)
InSync ==
  \A c \in open :
    (pc["mqtt"] = "idle" /\ sends[c] = <<>> /\ loop # c /\ view[c] # None)
      => view[c] = obj

(* Once clients can be served, the status of the bridge only moves forward. *)
ServedForward ==
  [][server = "up" => \A p \in {"stats", "temps"} : obj'[p] >= obj[p]]_obj

(* Clients are notified of every status published since they joined, once   *)
(* and in order.                                                            *)
Feed == INSTANCE StatusFeed WITH
  Statuses <- Status,
  pos   <- [c \in Clients |-> IF c \in open THEN Len(published) - Len(sends[c]) ELSE None],
  shown <- noted

FeedInOrder == Feed!Spec

(* A client that has been sent a status and stays gets the status of the    *)
(* bridge in the end, whatever it asks meanwhile.                           *)
GetsCurrent ==
  \A c \in Clients : (view[c] # None) ~> (view[c] = obj \/ c \notin open)

(* "Bridge started successfully": when start() has returned, the server has *)
(* not failed to bind its port.                                             *)
StartedServes == pc["main"] = "running" => server # "failed"
=============================================================================
