# A verification project for kobra-connect

kobra-connect talks to an Anycubic Kobra printer in LAN mode and lends it to two
front ends: a Moonraker-compatible bridge, and a companion of the OctoEverywhere
cloud. These modules model it in TLA+, model-check it with TLC and prove the
invariants that matter with TLAPS. Paths below are relative to the
repository.

## 1. The system

```
            MQTT/TLS                    on_report                 WebSocket, REST
 printer <-----------> KobraClient ----------------> MoonrakerState ----> Moonraker clients
                        |    ^                        (bridge.py)
                        |    | blocking calls
                        |    +---- query(), command_list_files()
                        |  on_report                  samples            POST
                        +----------> translator <------------ pusher ----------> OE cloud
                                     (snapshot)                                    ^
                                         ^------ command router <---- OeClient ----+
                                                                     WebSocket
```

| Component | State | Operations | Hard behaviour |
|---|---|---|---|
| MQTT client, `client.py` | the client object, its installed `on_message`, `on_report`, the connected event, two certificate files | connect, disconnect, `query`, `command_list_files`, fire-and-forget commands, `_on_connect`, `_on_message` | blocking calls swap the client's only handler; two threads; late answers; link drops; a connect that fails half way |
| Data model, `models.py` | none: immutable records | `from_dict` | missing keys, of which only a missing temperature raises |
| State translator, `octoeverywhere/state_translator.py` | the latest info, temperature, fan, under a lock | `_on_report`, getters | reports that do not parse; two getters are two snapshots |
| Status pusher, `octoeverywhere/status_pusher.py` | `_last_state`, `_current_print_id`, the stop event | start, stop, `_push` | two threads in `_push` with no lock; the POST is slow, may fail, may be overtaken |
| OE cloud connection, `oe_client.py`, `oe_credentials.py` | socket, challenge, connected and stop events, octokey, secrets file | run, stop, handshake, web stream messages | reconnects, rejected handshakes, stop racing connect, crash while saving |
| OE wire protocol, `oe_protocol.py` | none | encode and decode FlatBuffers | offsets read from the wire |
| OE commands, `command_router.py`, `command_handler.py`, `state_reporter.py` | a table of handlers | route, pause, resume, cancel | two handlers for one path; guards on a sampled state |
| OE companion, `host.py`, `__main__.py` | the wiring | start, shutdown | octokey handed over once; reports before `on_report` is installed |
| OE images, `webcam_provider.py`, `cdn_uploader.py` | last upload | snapshot, upload loop | I/O only |
| Moonraker state, `moonraker_bridge/state.py` | the printer objects, the frozen total | update from info, from temperature, query | the frozen estimate; one update is many field writes |
| Moonraker bridge, `moonraker_bridge/bridge.py` | WebSocket clients, subscriptions, event loop, server thread | start, stop, JSON-RPC, REST, broadcast | MQTT thread and event loop share the state; old answers against newer reports |
| LAN handshake, `handshake.py` | none | `do_handshake` | its outcome only |

What makes the components correct:

- *MQTT client*: a call returns its own answer and leaves the dispatch as it found
  it; every call returns; a session that comes back is subscribed; no key file is
  left behind; on_report gets the reports.
- *Pusher*: one PrintId per print, drawn at its start and cleared at its end; one
  end event per print, with the id of that print; no print the printer did not
  announce, and one PrintId too many at most when its two threads overlap; the cloud's last event agrees with the printer.
- *Moonraker state*: the total duration shown is that of the present job and does
  not move while the job lasts; the four temperature series stay together, and a client
  that reads them meanwhile misses no more than the appends it met.
- *Bridge*: no update is lost on a client, and none is shown after a newer one once
  clients are served; its one printer client never has two blocking calls; each
  request is answered once, in order, and publishes its command once; the table of
  subscriptions is that of the open connections; a script leaves the printer with
  the settings its lines call for.
- *OE connection*: it ends when stopped, keeps its identity over crashes, is
  "connected" only on a socket whose challenge was answered, and all parts use the
  octokey the cloud last gave.
- *OE wire*: a message is read as it was sent, from an older or a newer peer too.
- *OE commands*: one answer per stream; a status that never goes back; views of a job
  that agree, but for a job that is resuming.

The hazards, each at its line, are in `PROJECT.json`, with the properties that
cover them; three have none, for the reason given there.

## 2. Modules

| Module | Models |
|---|---|
| `KobraModels` | reports and parsed infos: the domains and `from_dict` (`models.py`) |
| `OeModels` | OctoEverywhere job states, `_map_state` |
| `StatusPusher` | translator snapshot and pusher threads |
| `KobraClient` | connection, blocking calls, dispatch; printer and network external |
| `MoonrakerState` | the Moonraker objects as a function of reports |
| `FrozenEstimate` | abstract: what a client may assume of the total duration |
| `TemperatureStore` | the four series of `server.temperature_store`, two writers and a reader |
| `GcodeLines`, `GcodeScript` | `_parse_gcode_to_kobra` on a line; a script folded into two publishes |
| `MoonrakerParts` | the printer objects, the series and the scripts side by side |
| `BridgeServer` | the bridge's three threads: start-up, queries, reports, broadcasts, replies, stop |
| `StatusFeed` | abstract: the notifications a client of the bridge may rely on |
| `BridgeRpc` | WebSocket handlers, JSON-RPC dispatch, subscriptions, commands, REST |
| `OeConnection` | `OeClient`'s loop and handshake, the secrets file, the octokey's hand-over |
| `OeWire` | the FlatBuffers messages and their reader |
| `CompanionApi` | web streams, routing, the handlers of the API, commands, reporter |
| `MC*` | instances for TLC; each `.cfg` is a run |
| `*_proofs` | theorems of the module they are named after |

Operators whose comment begins with "mutant" are plausible wrong forms of the
definition that follows them. No specification uses them; they show that the
property named with them in `PROJECT.json` would notice.

### StatusPusher

`start()` creates a periodic thread ("run") and one that pushes once ("init"); both
run `_push`. Each access of `_push` to the snapshot or to the two shared fields is an
action (`ReadInfo`, `ReadJob`, `ReadPrev`, `CaptureId`, `UpdateId`, `SetLast`, `Post`
or `PostFails`), with the thread's locals in `loc`. `SetLast` contains the early
return of an idle push. `PostFails` stands for a refused or failed POST and for any
exception after `_last_state` is written, which `_run` logs. Reports replace the
snapshot at any time. The payload is reduced to its event and PrintId; the test event
posts a constant and is left out, and so is the octokey.

History variables count the prints announced, ids drawn and ends resolved, and
record whether two pushes have overlapped on the shared fields (`raced`), whether a
POST was overtaken (`reordered`) and whether the last POST failed (`lost`). The
fields are unlocked, and with an overlap two ids may be drawn for one print: the
invariants say what holds until then. An overlap needs a periodic push during the one
initial push, thus in the first moments after start, when the first push is slow
before its POST; both read the shared fields within microseconds, but nothing
excludes it. `OverlapDrawsOneMore` bounds what it does: one PrintId too many, and no more
later on.

### KobraClient

`ConnectBegin`, `TcpConnect`/`TcpFails`, `ConnectReturns`/`ConnectTimesOut` are the
steps of `connect()` between which the environment can act; `Close` is the body of
`disconnect()`. A blocking call of thread `c` is `CallBegin`, `SaveHandler`,
`InstallHandler`, `Publish`, `Wake`/`Timeout`, `Restore` (`CallRaises` when
`disconnect()` has set `_client` to None under it). `on_message` names whose handler is
installed: `Main` is `_on_message`, `c` the handler of c's present call, `Stale` that of
a call which has returned. `Handle` is the network thread; `HandleMalformed` is a
payload on which a call's handler, a stale one too, raises, which ends that thread, and
`DropMalformed` one that `_on_message` drops because it is no JSON. Reports carry the
call they answer, which the code cannot see: it compares topics only.

One thread owns the connection. Calling `connect()` twice without a `disconnect()`,
except after a failure, is outside the model, and so are calls on a client whose
`connect()` raised.

### MoonrakerState and FrozenEstimate

`UpdateFromKobraInfo` composes the code's parts in its order: state, project with
`Freeze` or `Thaw`, temperatures, webhooks. The state is put in lower case for print_stats
(`Lower`), and compared as it is for the estimate. `FrozenEstimate` promises that the total is
taken once for a job and changes only with the job; a job is a file with a positive
frozen total. `EstimateFrozen` is the refinement.

### TemperatureStore, GcodeLines and GcodeScript

A series is the sequence of the numbers of its readings, at most `MaxLen` (the
deque's maxlen). The main thread appends once, when it refreshes the state, and the
MQTT thread for each report; each of the four appends of a reading is a step
(`AppendOne`), and so is each of the four copies of `to_dict` (`Copy`). `missed` counts the
calls of `append` that a reader overlapped with, `raced` records that both threads were in `append` at
once.

`GcodeLines` gives the meaning of one line (temperatures, fan, everything else).
`GcodeScript` is `_rpc_gcode_script`: lines are parsed one by one (`Parse`, `Skip`), a token
without a number raises (`Raise`) and ends the script, and `End` leads to the publishes
of temperatures and fan, each of which may fail. `stop()` takes the client away at any moment
(`Stop`); a script that comes later is ignored (`Ignore`). `meant` is the reference: the settings
if each line had acted by itself. The fan is published on the percent scale of the
client, whose clamp is in the model.

`MoonrakerParts` puts the printer objects, the series and the scripts beside each other. They share no
variable, and are called from different places of the bridge.

### BridgeServer and StatusFeed

A status is reduced to the number of the report behind each of three groups of objects:
`stats`, `temps` and `hooks`, the last derived from the first. Which thread runs:

- *main*: `Connect`, `SetOnReport`, the two queries of `_refresh_state` (`AskInfo`,
  `InfoAnswered`, ...), whose answers it applies itself, `StartServer`, `StartReturns`, `Stop`;
- *MQTT*: `Deliver` hands a report to the blocking call that has its handler installed, to
  nobody, or to `_on_kobra_report`, which updates and broadcasts (`NobodyToTell`, or
  `SomebodyToTell` and `QueueSends`);
- *event loop*, one callback at a time (`loop`): joining and leaving clients, replies read
  object by object while the MQTT thread may write (`ReadPart`), scheduled sends (`Send`), and
  `_get_kobra_files`, a blocking call on the loop.

`Update(w)` is the update by either writer `w`, group by group: `hooks` is computed from a
read of `stats` (`ReadStats`) made before it is written. `published` and `noted` are history.
`StatusFeed` is the abstract specification: from the moment it joins, a client is
notified of every status published, each once and in order. The refinement maps a
client's position to the number of statuses published less those queued for it.

`_broadcast_status_update` tests `_ws_clients` before it builds the status, and again under
the lock; the model has both reads. The status itself is built in the step that queues it,
since nobody else writes once there are clients. A send that fails because its client has just gone is
covered by `Leave`.

### BridgeRpc

One handler per connection on one event loop: handlers interleave at their sends only,
because an RPC never suspends. `Take` is `_handle_ws_message` up to its first send, with the
effects of the RPC; `SendReply`, `SendReady` and `SendFails` are its sends, and `Leave` the
`finally` of `_handle_websocket`. Requests are of every kind the dispatch tells apart:
commands, queries, `identify`, `subscribe`, unknown methods, params the RPC does not expect
(of an `identify` too: it is answered with an error and the two notices still follow),
a method that cannot be looked up, no JSON at all, and JSON that is no object (which ends
the handler, as `msg_id` is not bound). Clients send ahead of replies and may be gone at any time;
`stop()` takes the printer's client away under the handlers.

### OeConnection

The main thread loads or creates the credentials, starts `run()`'s thread, waits for the
handshake or for 30 seconds, and hands the octokey to pusher and uploader. `run()` is
`Clear`, `Test`, `MakeApp`, `RunForever` and what the cloud and the library do inside
`run_forever`: `Opens`, `AckRefused`, `AckNoKey`, `AckKey`, `Ends`, `Raises`. A save is `OpenFile`, which
truncates, and `WriteFile`. `ProcessEnds` may come anywhere, within a save too, and only
the file survives; a truncated file is read as none (`Nothing`), as `configparser` finds no
section in it. `drawn`, `linked`, `torn`, `given`, `rotated`, `trusted`, `asked` and `late` are history.

`AfterStop` states what `stop()` achieves at each moment: one before `run()` has cleared the
stop event is lost, one between the test and `run_forever` lets one connection begin, and
any other begins none.

### OeWire

A buffer is a sequence of cells: a scalar, an offset or a character is one cell,
whatever its width, so that slots, vtables, defaults and offsets are exact and byte
order and alignment are abstracted. Readers return the set of their results, empty
when the code raises. `Table` is the library's builder (external), which writes a table's
vtable in front of it or, for a header after another one, points back to the equal vtable it wrote
first. The builders and readers
of `oe_protocol.py` are translated slot by slot, and `Extra` adds fields a newer peer may
send. Each behaviour is one message, `wire` from its builder to its reader, and a request also
the response that `Respond` builds to it. Vectors hold at most two strings or three tables, as no
message of the code has more of them that is both built and read; headers are a dict, so
their names differ.

### CompanionApi

`CloudOpens` and `CloudContinues` are messages of a web stream, `Take`, `Handle` and `Send` are
`run()`'s thread on one of them: `_handle_webstream_msg` drops a close and further data, `Route`
is the command router with the handlers that `cmd_run` registers over its defaults, and
`Respond` is what the chosen handler answers, made from the snapshot it reads: a status with
its time left (`TimeLeftSec` is the clamp), or api/job's word for the state (`JobWord`). `Report` is
the MQTT thread. The core's commands publish or are refused (`Execute`); the reporter's
answers are operators on the snapshots (`TimersRunning`, `WarmingUp`, `RemainingReported`).

## 3. Runs

| Run | Instance | States | Shows |
|---|---|---|---|
| `pusher_safety` | 6 reports: no job, heating, printing, paused, stopping, unparsable; 2 prints | 1,505,245 | the five invariants over all interleavings |
| `pusher_live` | 2 reports (printing, finished), 2 prints, fairness | 378,379 | `OverlapDrawsOneMore`, `CloudCatchesUp`, `StopEnds` |
| `client_safety` | 1 caller, 2 topics (one also reported unasked), 2 reports in transit, 2 connects, fairness | 170,082 | handler, answers, files; `CallsReturn`, `Resubscribes` |
| `client_dropped` | 1 report in transit, 1 connect | | violation: on_report does not receive every report |
| `client_leak` | 1 report in transit, 2 connects | | violation: a failed connect leaves key files |
| `moonraker_safety` | 2 files and none, times of 0 to 2 minutes, a job state per branch, one of them with a capital; series of 3 and 4 readings; scripts of 2 lines with the values -5 and 128 | 996,659 | estimate and its refinement, `SeriesAligned`, `ReadsAligned`, `SettingsAsScripted` |
| `moonraker_fresh` | the printer objects of the run above | | violation: no fresh estimate after a report without a project |
| `bridge_safety` | 1 client, 3 reports of info and temperatures, 1 in transit, fairness | 405,022 | three invariants, `ServedForward`, `GetsCurrent`, refinement of `StatusFeed` |
| `bridge_start` | 1 report | | violation: start() logs success without a server |
| `rpc_safety` | 2 clients, 2 requests of any kind, 2 connections, fairness | 723,085 | three invariants, `Answered` |
| `oe_safety` | 3 starts, 2 keys, backoff up to 2, fairness; messages with strings of up to 2 cells, 0 to 2 headers, 0 or 2 unknown fields | 466,153 | five invariants and `StopEnds`; `ReadAsSent` |
| `api_safety` | 3 reports out of 10, 2 streams or commands, 3 paths | 3,035,642 | `StreamsAnswered`, `StatusForward`, `ViewsAgree` |

The type invariants are proved (section 5); a run checks one only where a table of the code must be
complete, the states of `moonraker_safety`.

`MoonrakerParts` and `MCOeConnection` hold parts that share no variable; the first state of a
behaviour says which one it exercises, so the runs do not multiply their states.

Bounds and why they are enough.

- *Pusher.* Two prints let an event of the first meet the id of the second; ids are only
  compared, so a third adds nothing. The reports reach every OE job state class: idle,
  warming up, printing, paused, cancelled; "complete" takes the branch of idle and "error" the
  one of cancelled, apart from the name of the event, and `pusher_live` has "finish".
  `MCStatusPusher_safety.cfg` has a CONSTRAINT on `raced`, which never turns false again. The
  invariants of that run assume it is false, so states behind a true one cannot violate them;
  the type invariant is proved without the constraint. `pusher_live` has none, and
  goes on behind an overlap: `OverlapDrawsOneMore` is reached with one PrintId too many.
- *Client.* Two messages in transit put a late answer next to the right one; two connects
  let a file of the first survive the second. Two callers are not in a run: what
  overlapping calls do is covered by the proofs, which hold for any set of callers.
- *Moonraker.* Two files and times that include zero reach each branch of the freeze. A
  series of three overflows with four readings while a reader is between two copies, and a read
  that meets two appends gets series whose lengths differ by two. Two
  lines let a second one override the first or leave it alone; -5 and 128 lie below and
  inside the fan's range, and a line may also be one that raises.
- *Bridge.* Three reports are needed for one that was applied by the start-up query, one that
  is being applied, and one whose notification is queued. A client that leaves and joins again
  stands for a second one. For two clients at once see the proofs; `GetsCurrent` is
  checked with one.
- *RPC.* Two clients, because the table of subscriptions is shared, and two requests, because
  an order needs two. A connection of each client, or two of the same one.
- *OE.* Three starts: one that draws an identity, one that may lose it, and one that finds out.
  Two keys make a rotation; a backoff of 2 is doubled, and capped at the second failure.
- *Wire.* Strings that are empty, of one cell and of two, so that offsets differ; scalars that are
  their default and not; vectors without, with one and with more elements. A second header
  shares the vtable of the first. `WireUnderstood` proves the same without these bounds.
- *API.* Three reports and two streams: a status before, between and after two answers. The
  reports contain every state and pause the views tell apart, a job that is resuming among them,
  and one whose time left is above the largest the cloud is sent.

`CHECK_DEADLOCK FALSE` is said where the system really stops: a pusher that is stopped, a bridge
that is stopped with its clients gone, clients that have made their last request, an OE thread
that has ended, a cloud that has asked its last.

Fairness.

- *Pusher.* Threads run (`WF` of their steps, each of which ends by itself: waits have
  time-outs). Strong fairness of the periodic thread's POST says that a network which lets a
  POST through again and again does so for that thread; without it nothing makes the
  cloud current.
- *Client.* `WF` of the calls, of the network thread, and of the end of a connection attempt,
  which has a time-out. The MQTT library reconnects (`WF` of `OnConnect`).
- *Bridge.* `WF` of main and MQTT thread, of a reply that was begun, and of a listing of files,
  which has a time-out. Strong fairness of `Send(c)` says that the event loop serves its
  callbacks in turn, so new requests cannot overtake a scheduled send for ever.
- *RPC.* `WF` of each handler: the loop runs every handler that can go on.
- *OE.* `WF` of the thread of `run()`, with the end of a socket it was told to close.

Nothing is assumed of the printer, of link drops, of clients, of the cloud, or of the
application.

## 4. What was found

- `src/README.md:117` says on_report receives every incoming report; during a blocking
  call reports of other topics are thrown away (`client_dropped`). The bridge makes
  such calls while its clients wait for notifications.
- `disconnect()` says it cleans up; the certificate and key files of a `connect()` that
  raised at the TCP connection are forgotten by the next one (`client_leak`).
- A comment in `state.py` says that not printing resets the frozen total; a report
  without a project does not, so a reprint of the same file starts with the old
  estimate (`moonraker_fresh`).
- `bridge.py:113` logs "Bridge started successfully" although the server thread may have
  died of a port it could not bind (`bridge_start`).

Facts the models carry as conditions of properties, or simply contain:

- Overlapping blocking calls may leave a stale handler installed for good, and a late
  answer may be taken for the next one on its topic. The bridge does not overlap its
  calls (`OneCall`).
- If the answer of the start-up query is applied while a report is, webhooks may disagree
  with print_stats until the next report of that kind (`raced` in `HooksFollow`).
- A `stop()` of the OE client that comes before its thread has cleared the stop event is
  lost (`asked = "early"`).
- A second octokey does not reach the pusher and the uploader once the first was handed over
  (`rotated` in `KeyCurrent`).
- A crash between truncating and writing the secrets file draws a new identity (`torn`).

Disagreements met while reading that no run is about: `oe_client.py:7` promises a backoff, and
`oe_client.py:114` reconnects at once after a connection that ended without an exception, as
most do; the bridge sends the errors of RPCs as results (`bridge.py:359`, `bridge.py:371`);
`remain_time` is in minutes (`src/README.md:255`) and `state_reporter.py:20` gives it as seconds;
`command_handler.py:3` says "monitoring only" above commands that publish (line 52);
`command_router.py` registers a handler of `api/live/status` that the companion never replaces;
`p.pause.value` (`octoeverywhere/__main__.py:126`) raises for every job whose pause is not zero, since
`pause` is a plain number, so `api/job` answers 500. A job that is resuming is shown as printing by the
status (`octoeverywhere/models.py:36`), has its timers stopped (`octoeverywhere/state_reporter.py:36`), and
gets that 500: `ViewsAgree` says so, and that nothing else makes the views differ.

## 5. Proofs

TLAPS proves the following for all values of the constants. The assumptions are those
the modules name: None is no name, reading or status, the special handlers are no callers,
reports are reports, and bounds are natural numbers.

- `StatusPusher_proofs`: type correctness, and the five safety invariants of
  `pusher_safety`. None of them is inductive: while a thread is inside `_push` the two
  fields disagree. The inductive invariant says, for a thread at each line, how its
  locals relate to the fields (with `~raced`, at most one thread is in the section),
  relates the counts of ids and ends to the current id, and the prints announced to
  the printing states sampled. `CloudTracksPrint` needs a second one about POSTs not
  yet sent: when none was overtaken or lost, the newest pending one carries the state
  of the fields, and with none pending the cloud does.
- `KobraClient_proofs`: `HandlerRestored`, by tracking for each line of a call what
  handler is installed and saved, over reconnects that reset it under a running
  call; `FilesAccounted`; type correctness; and `AnswerIsOwn`. The last needs an
  account of everything in transit: what is for a caller is for its present call, is
  the only one and has not been received; what is for nobody is on a topic that is
  reported unasked or owes an answer to an earlier call.
- `MoonrakerParts_proofs`: of the printer objects, type correctness, `EstimateTaken`,
  `FreshAfterProject`, and the refinement of `FrozenEstimate`; the invariant is that a positive
  frozen total is the total shown, and that a project that does not print leaves it at zero. Of
  the other two parts, `SettingsAsScripted`, for any lines, and `SeriesAligned` and `ReadsAligned`, for
  any lengths of at least one, with type correctness; and that a behaviour of the parts side by
  side is one of each part (`EachPart`), which carries the theorems about a part over to it.
  Inside a script the printer is not what was meant; the invariant says of each setting that it
  is either collected, with the value meant, or untouched, so that the printer already has it
  (but for lost ones), and which of them are still to come after the first publish. For the
  series, it says how long each one is (the readings made, less the appends still under way, up
  to the maxlen), that without an overlap of the two writers the series already appended to are
  one reading ahead of the others and otherwise equal. A copy has at least
  the readings that were in every series when the copying began, and at most those in the first
  one by now; these differ by the calls of `append` that `missed` counts (`Copying`), and when
  nothing is missed the copies are equal to the first series.
- `BridgeServer_proofs`: type correctness, `OneCall`, `HooksFollow`, `InSync`, `ServedForward` and
  the refinement of `StatusFeed`, for any clients. The inductive invariant has five parts:
  where the threads can be together and which of them is in a call (`Places`); that the reports
  applied, held and in transit are numbered in order (`Ordered`); webhooks at each point of an
  update (`Hooks`); that the last notification queued for a client is the status of the
  bridge, and that without one the client has that status already (`Synced`); and that the notifications queued for a client are the last ones
  published (`Queued`), which makes the refinement's position well defined. Each step of
  the bridge is then a step of the feed or a stutter.
- `BridgeRpc_proofs`: type correctness, `SubsLive`, `CommandsOnce` and `RepliesInOrder`. A table entry
  belongs to a handler that has not left, and ids are below the next one (`Live`). For commands: the
  requests that wait are numbered apart from each other and from those published (`Fresh`), and an
  answered one does not wait any more and has been handled (`Handled`). For replies (`Talks`): what
  waits of a client is the end of what it asked, the requests before that are replied to in order
  and without a gap while the client is there, and a notice of readiness follows the reply to
  the identify that caused it, which is its result or the error it raised.
- `OeConnection_proofs`: type correctness and the five safety invariants. The parts of the
  invariant: where the two threads can be together (`Places`); that the process has the first
  identity saved and so has the file, unless it is being written or a save was torn
  (`Identity`); which of the
  keys agree at each point of a handshake and of the hand-over (`KeysKept`); when the
  challenge has been answered (`Trust`); and what the stop event is for each way in which stop()
  can have met run() (`Stopping`).
- `OeWire_proofs`: `ReadAsSent`, for any strings and scalars, up to three headers, and any number of
  unknown fields. Cells are integers; nothing else is assumed of them. The builder only puts
  cells in front, and an offset from the end therefore goes on naming the object it was taken for
  (`StringStays`, `VectorStays`, `FieldStays`); of a table, each slot in use has
  a distance of its own, so the reader finds in the vtable the cell that holds it, and finds none
  for an absent slot or for one beyond the vtable's end; from these follows what every reader
  returns on every message (`AckRead`, `RequestRead`, `ResponseRead`, `SynRead`, `OtherRead`). The
  invariant (`Carried`) is that what is on the wire was built from what was to be said, and that
  off the wire it has been read so.
- `CompanionApi_proofs`: type correctness, `StatusForward` (every answer given or under way is
  from a report no newer than the snapshot, and they are in order), `ViewsAgree` (an answer dated by
  the present report is the one its handler would give now, `OfReport`, and that one agrees with
  the reporter for every report) and `StreamsAnswered`. The last rests on `InTurn`: the streams up to the one last taken have been
  answered, in order and once, and each later one has exactly one opening message queued, in order.

Only model-checked: all liveness properties, because fairness is out of the prover's reach
(`CloudCatchesUp`, both `StopEnds`, `CallsReturn`, `Resubscribes`, `GetsCurrent`, `Answered`), and
`OverlapDrawsOneMore`, whose proof would need the invariant of two pushes interleaved. Every
other invariant and every action property of the passing runs is a theorem. What would need
induction over data is avoided in the models: a script takes a line per step, and a wire message
has a bounded number of headers.

## 6. Not modelled

- *Values copied one to one*: fields of reports that no control depends on, the records of
  `moonraker_bridge/models.py`, static answers (`server.info`, the database stub), wording and layout.
- *Encodings*: base64, RSA and AES of the LAN handshake and of the challenge; only the outcomes
  of both appear.
- *Images* (`webcam_provider.py`, `cdn_uploader.py`) and the proxied webcam stream: HTTP requests with no
  state but a time and the octokey, which `OeConnection` compares with the credentials.
- *Interfaces* (`interfaces.py`): abstract classes; their implementations are modelled.
- *Command line, signals during start(), nginx and container files*, the printer's own behaviour
  beyond what it sends, and contents of a secrets file that were cut in the middle: a torn file
  is an empty one.
- *Reports before `on_report`* in `host.py`: nothing promises them; the next report replaces what
  was lost. The bridge's own start, where the same happens, is in `BridgeServer`.

With a larger budget of states the runs that would gain are `bridge_safety` with two clients and
`rpc_safety` with three requests; the safety properties of both are proved for any number.
