---------------------------- MODULE KobraClient ----------------------------
(***************************************************************************)
(* The MQTT client of the library (client.py): connect and disconnect, the *)
(* blocking calls query() and command_list_files(), and the dispatch of    *)
(* reports on the network thread of the MQTT library.                      *)
(*                                                                         *)
(* A blocking call has no reply queue of its own: it replaces the client's *)
(* on_message handler by one that waits for its report topic, and puts the *)
(* handler it found back when it is done.                                  *)
(*                                                                         *)
(* The printer answers requests and sends reports unasked; the link may    *)
(* drop and is re-established by the MQTT library.                         *)
(***************************************************************************)
EXTENDS Naturals, Sequences, FiniteSets

CONSTANTS
  Callers,      \* application threads that make blocking calls
  Topics,       \* report topics
  Unasked,      \* the topics the printer also reports on unasked
  NoCaller,     \* a report that answers no call
  Main,         \* the handler _on_message
  MaxWire,      \* bound: reports in transit
  MaxAttempts   \* bound: calls of connect()

Stale == "stale"   \* the handler of a call that has returned

ASSUME ConstantsAssumption ==
  /\ Unasked \subseteq Topics
  /\ {Main, NoCaller, Stale} \cap Callers = {} /\ Main # Stale
  /\ MaxWire \in Nat /\ MaxAttempts \in Nat

VARIABLES
  app,         \* where the thread that owns the connection is
  client,      \* self._client is not None
  loop,        \* the network thread: "off", "on", or "dead" of an exception
  link,        \* the broker session is up
  subscribed,  \* the broker has this session's subscription
  connected,   \* self._connected_event.is_set()
  on_message,  \* the installed handler: Main, a caller's, or a "stale" one
  on_report,   \* self.on_report is set
  pc, topic, old, result,  \* the locals of each caller's blocking call
  requests,    \* requests the printer has not answered
  wire,        \* reports on their way to the network thread
  disk, paths, \* certificate files on disk, and those self remembers
  attempts,    \* calls of connect() so far
  \* history variables
  fate,        \* what became of the last report handled
  overlapped,  \* two blocking calls have overlapped
  unanswered,  \* topics on which a call ended without its own answer
  abandoned    \* files of a connect() that raised at the TCP connection

session == <<app, client, loop, link, subscribed, connected>>
calls   == <<pc, topic, old, result>>
files   == <<disk, paths, attempts, abandoned>>
history == <<overlapped, unanswered>>
vars == <<session, on_message, on_report, calls, requests, wire, files, fate, history>>

Messages == [topic : Topics, to : Callers \cup {NoCaller, Stale}]
NoResult == [topic |-> "none", to |-> Stale]

Handlers == Callers \cup {Main, Stale}
InCall(c) == pc[c] # "idle"

Init ==
  /\ app = "off" /\ client = FALSE /\ loop = "off"
  /\ link = FALSE /\ subscribed = FALSE /\ connected = FALSE
  /\ on_message = Main /\ on_report = FALSE
  /\ pc = [c \in Callers |-> "idle"]
  /\ topic = [c \in Callers |-> "none"]
  /\ old = [c \in Callers |-> Main]
  /\ result = [c \in Callers |-> NoResult]
  /\ requests = {} /\ wire = <<>>
  /\ disk = {} /\ paths = 0 /\ attempts = 0 /\ abandoned = {}
  /\ fate = "none" /\ overlapped = FALSE /\ unanswered = {}

-----------------------------------------------------------------------------
(* connect(), up to the TCP connection: the certificate files, the client   *)
(* object with its handlers, the event cleared.  A handshake that raises    *)
(* changes nothing.                                                         *)
ConnectBegin ==
  /\ app \in {"off", "failed"} /\ attempts < MaxAttempts
  /\ app' = "tcp"
  /\ attempts' = attempts + 1
  /\ disk' = disk \cup {attempts'} /\ paths' = attempts'
  /\ client' = TRUE /\ on_message' = Main
  /\ connected' = FALSE
  /\ UNCHANGED <<loop, link, subscribed, on_report, calls, requests, wire,
                 abandoned, fate, history>>

(* client.connect and loop_start *)
TcpConnect ==
  /\ app = "tcp"
  /\ app' = "waiting" /\ loop' = "on"
  /\ UNCHANGED <<client, link, subscribed, connected, on_message, on_report, calls,
                 requests, wire, files, fate, history>>

(* client.connect raises: nothing is undone *)
TcpFails ==
  /\ app = "tcp"
  /\ app' = "failed"
  /\ abandoned' = abandoned \cup {paths}
  /\ UNCHANGED <<client, loop, link, subscribed, connected, on_message, on_report,
                 calls, requests, wire, disk, paths, attempts, fate, history>>

(* mutant: the subscription is made once, by the caller of connect *)
OnConnectOnce ==
  /\ loop = "on" /\ ~link
  /\ link' = TRUE /\ subscribed' = ~connected /\ connected' = TRUE
  /\ UNCHANGED <<app, client, loop, on_message, on_report, calls, requests, wire,
                 files, fate, history>>

(* the session comes up: _on_connect with rc 0 subscribes and sets the event *)
OnConnect ==
  /\ loop = "on" /\ ~link
  /\ link' = TRUE /\ subscribed' = TRUE /\ connected' = TRUE
  /\ UNCHANGED <<app, client, loop, on_message, on_report, calls, requests, wire,
                 files, fate, history>>

(* the link drops: what was in transit is lost, and so is the subscription *)
LinkDown ==
  /\ link
  /\ link' = FALSE /\ subscribed' = FALSE /\ wire' = <<>>
  /\ UNCHANGED <<app, client, loop, connected, on_message, on_report, calls, requests,
                 files, fate, history>>

ConnectReturns ==
  /\ app = "waiting" /\ connected
  /\ app' = "up"
  /\ UNCHANGED <<client, loop, link, subscribed, connected, on_message, on_report,
                 calls, requests, wire, files, fate, history>>

(* mutant: disconnect stops the client and forgets the files *)
CloseKeepsFiles ==
  /\ client' = FALSE /\ loop' = "off"
  /\ link' = FALSE /\ subscribed' = FALSE /\ wire' = <<>>
  /\ paths' = 0 /\ disk' = disk

(* the body of disconnect(): the files self remembers are unlinked *)
Close ==
  /\ client' = FALSE /\ loop' = "off"
  /\ link' = FALSE /\ subscribed' = FALSE /\ wire' = <<>>
  /\ disk' = disk \ {paths} /\ paths' = 0

(* the wait for the event times out: disconnect, then HandshakeError *)
ConnectTimesOut ==
  /\ app = "waiting" /\ ~connected
  /\ app' = "off"
  /\ Close
  /\ UNCHANGED <<connected, on_message, on_report, calls, requests, attempts,
                 abandoned, fate, history>>

Disconnect ==
  /\ app \in {"up", "failed"}
  /\ app' = "off"
  /\ Close
  /\ UNCHANGED <<connected, on_message, on_report, calls, requests, attempts,
                 abandoned, fate, history>>

(* client.on_report = callback *)
SetOnReport ==
  /\ app = "up" /\ ~on_report
  /\ on_report' = TRUE
  /\ UNCHANGED <<session, on_message, calls, requests, wire, files, fate, history>>

-----------------------------------------------------------------------------
(* query() or command_list_files() is entered; without a client it raises *)
CallBegin(c) ==
  /\ app = "up" /\ ~InCall(c)
  /\ \E t \in Topics : topic' = [topic EXCEPT ![c] = t]
  /\ pc' = [pc EXCEPT ![c] = "save"]
  /\ overlapped' = (overlapped \/ \E d \in Callers : InCall(d))
  /\ UNCHANGED <<session, on_message, on_report, old, result, requests, wire, files,
                 fate, unanswered>>

Goto(c, from, to) == pc[c] = from /\ pc' = [pc EXCEPT ![c] = to]

(* old_handler = self._client.on_message *)
SaveHandler(c) ==
  /\ client
  /\ Goto(c, "save", "install")
  /\ old' = [old EXCEPT ![c] = on_message]
  /\ UNCHANGED <<session, on_message, on_report, topic, result, requests, wire, files,
                 fate, history>>

InstallHandler(c) ==
  /\ client
  /\ Goto(c, "install", "publish")
  /\ on_message' = c
  /\ UNCHANGED <<session, on_report, topic, old, result, requests, wire, files, fate,
                 history>>

(* a request published while the link is down is dropped by the library *)
Publish(c) ==
  /\ client
  /\ Goto(c, "publish", "wait")
  /\ requests' = IF link THEN requests \cup {[topic |-> topic[c], to |-> c]}
                 ELSE requests
  /\ UNCHANGED <<session, on_message, on_report, topic, old, result, wire, files, fate,
                 history>>

(* event.wait returns because the handler has run ... *)
Wake(c) ==
  /\ result[c] # NoResult
  /\ Goto(c, "wait", "restore")
  /\ UNCHANGED <<session, on_message, on_report, topic, old, result, requests, wire,
                 files, fate, history>>

(* mutant: the wait has no time limit *)
TimeoutNever(c) == pc[c] = "wait" /\ FALSE

(* ... or because the time is up *)
Timeout(c) ==
  /\ result[c] = NoResult
  /\ Goto(c, "wait", "restore")
  /\ UNCHANGED <<session, on_message, on_report, topic, old, result, requests, wire,
                 files, fate, history>>

(* c's call is over: its handler is a stale one wherever it still is, and   *)
(* what the printer owes it or has sent it is nobody's                      *)
Forget(c, h)    == IF h = c THEN Stale ELSE h
ForgetMsg(c, m) == [m EXCEPT !.to = Forget(c, m.to)]
CallEnds(c, handler) ==
  /\ pc' = [pc EXCEPT ![c] = "idle"]
  /\ topic' = [topic EXCEPT ![c] = "none"]
  /\ result' = [result EXCEPT ![c] = NoResult]
  /\ old' = [d \in Callers |-> IF d = c THEN Main ELSE Forget(c, old[d])]
  /\ on_message' = Forget(c, handler)
  /\ requests' = {ForgetMsg(c, r) : r \in requests}
  /\ wire' = [i \in DOMAIN wire |-> ForgetMsg(c, wire[i])]
  /\ unanswered' = IF result[c].to = c THEN unanswered
                   ELSE unanswered \cup {topic[c]}
  /\ UNCHANGED <<session, on_report, files, fate, overlapped>>

(* mutant: a call that timed out returns at once *)
RestoreAnswered(c) ==
  /\ client /\ pc[c] = "restore"
  /\ CallEnds(c, IF result[c] = NoResult THEN on_message ELSE old[c])

(* self._client.on_message = old_handler, and the call returns *)
Restore(c) ==
  /\ client /\ pc[c] = "restore"
  /\ CallEnds(c, old[c])

(* self._client has become None under the call: AttributeError *)
CallRaises(c) ==
  /\ ~client /\ pc[c] \in {"save", "install", "publish", "restore"}
  /\ CallEnds(c, on_message)

-----------------------------------------------------------------------------
(* The printer (external) reports on a topic; the broker forwards it only   *)
(* to a subscribed session.                                                 *)
Transmit(m) == wire' = IF subscribed THEN Append(wire, m) ELSE wire

ReportUnasked ==
  /\ Len(wire) < MaxWire
  /\ \E t \in Unasked : Transmit([topic |-> t, to |-> NoCaller])
  /\ UNCHANGED <<session, on_message, on_report, calls, requests, files, fate, history>>

Answer ==
  /\ Len(wire) < MaxWire
  /\ \E r \in requests :
       /\ Transmit(r)
       /\ requests' = requests \ {r}
  /\ UNCHANGED <<session, on_message, on_report, calls, files, fate, history>>

(* The network thread takes the next report.  _on_message passes it to      *)
(* on_report; a call's handler keeps what comes on its topic and drops the  *)
(* rest; a stale handler does the same for a call that is gone.             *)
HandleMain ==
  /\ on_message = Main
  /\ fate' = IF on_report THEN "reported" ELSE "unset"
  /\ UNCHANGED result

(* mutant: the handler does not look at the topic *)
HandleForAny(c) ==
  /\ on_message = c
  /\ result' = [result EXCEPT ![c] = Head(wire)]
  /\ fate' = "taken"

HandleFor(c) ==
  /\ on_message = c
  /\ IF Head(wire).topic = topic[c]
     THEN result' = [result EXCEPT ![c] = Head(wire)] /\ fate' = "taken"
     ELSE UNCHANGED result /\ fate' = "dropped"

HandleStale ==
  /\ on_message = Stale
  /\ fate' = "dropped"
  /\ UNCHANGED result

Handle ==
  /\ loop = "on" /\ wire # <<>>
  /\ HandleMain \/ HandleStale \/ \E c \in Callers : HandleFor(c)
  /\ wire' = Tail(wire)
  /\ UNCHANGED <<session, on_message, on_report, pc, topic, old, requests, files, history>>

(* The handler of a call parses what comes on its topic, and updates a      *)
(* dictionary with it: JSON that is no object raises there as no JSON does, *)
(* and the exception ends the network thread.  A stale handler waits for a  *)
(* topic that is not kept here.                                             *)
HandleMalformed ==
  /\ loop = "on" /\ wire # <<>>
  /\ \/ \E c \in Callers : on_message = c /\ Head(wire).topic = topic[c]
     \/ on_message = Stale
  /\ loop' = "dead" /\ link' = FALSE /\ subscribed' = FALSE /\ wire' = <<>>
  /\ fate' = "raised"
  /\ UNCHANGED <<app, client, connected, on_message, on_report, calls, requests, files,
                 history>>

(* _on_message drops what is no JSON; any JSON is a report to it *)
DropMalformed ==
  /\ loop = "on" /\ wire # <<>>
  /\ on_message = Main
  /\ wire' = Tail(wire)
  /\ fate' = "malformed"
  /\ UNCHANGED <<session, on_message, on_report, calls, requests, files, history>>

-----------------------------------------------------------------------------
AppStep  == ConnectBegin \/ TcpConnect \/ TcpFails \/ ConnectReturns
            \/ ConnectTimesOut \/ Disconnect \/ SetOnReport
CallStep(c) == SaveHandler(c) \/ InstallHandler(c) \/ Publish(c) \/ Wake(c)
               \/ Timeout(c) \/ Restore(c) \/ CallRaises(c)
NetStep  == OnConnect \/ Handle \/ HandleMalformed \/ DropMalformed
Printer  == ReportUnasked \/ Answer

Next == AppStep \/ NetStep \/ LinkDown \/ Printer
        \/ \E c \in Callers : CallBegin(c) \/ CallStep(c)

Spec == Init /\ [][Next]_vars

(* The threads run, timers expire, the library reconnects.                  *)
Fairness == /\ \A c \in Callers : WF_vars(CallStep(c))
            /\ WF_vars(OnConnect) /\ WF_vars(Handle)
            /\ WF_vars(TcpConnect) /\ WF_vars(ConnectReturns \/ ConnectTimesOut)

FairSpec == Spec /\ Fairness

-----------------------------------------------------------------------------
TypeOK ==
  /\ app \in {"off", "tcp", "waiting", "up", "failed"}
  /\ client \in BOOLEAN /\ loop \in {"off", "on", "dead"}
  /\ link \in BOOLEAN /\ subscribed \in BOOLEAN /\ connected \in BOOLEAN
  /\ on_message \in Handlers /\ on_report \in BOOLEAN
  /\ pc \in [Callers -> {"idle", "save", "install", "publish", "wait", "restore"}]
  /\ topic \in [Callers -> Topics \cup {"none"}]
  /\ old \in [Callers -> Handlers]
  /\ result \in [Callers -> Messages \cup {NoResult}]
  /\ requests \subseteq Messages /\ wire \in Seq(Messages)
  /\ disk \subseteq 1 .. MaxAttempts /\ paths \in 0 .. MaxAttempts
  /\ attempts \in 0 .. MaxAttempts /\ abandoned \subseteq 0 .. MaxAttempts
  /\ fate \in {"none", "reported", "unset", "taken", "dropped", "raised",
              "malformed"}
  /\ overlapped \in BOOLEAN /\ unanswered \subseteq Topics
  /\ Len(wire) <= MaxWire

(* With no blocking call in progress the client dispatches to _on_message:  *)
(* no call leaves its own handler, or an older one, behind.  True as long   *)
(* as blocking calls do not overlap; two that do may restore each other's.  *)
HandlerRestored ==
  ~overlapped /\ client /\ (\A c \in Callers : ~InCall(c)) => on_message = Main

(* A call returns a report of its topic, and its own answer, unless the     *)
(* printer reports on that topic unasked or an earlier call on it ended     *)
(* without its answer: message ids are not compared, so a late answer is    *)
(* taken for the next one.                                                  *)
AnswerIsOwn ==
  ~overlapped => \A c \in Callers : result[c] # NoResult =>
    /\ result[c].topic = topic[c]
    /\ result[c].to = c \/ topic[c] \in Unasked \cup unanswered

(* Certificate and key files on disk are those of the present connection    *)
(* and those of a connect() that raised at the TCP connection.              *)
FilesAccounted ==
  /\ disk \subseteq {paths} \cup abandoned
  /\ ~client => paths = 0

(* disconnect: "Disconnect from the MQTT broker and clean up": without a    *)
(* client there is no file.                                                 *)
CleanAfterDisconnect == app = "off" => disk = {}

(* "Set client.on_report to a Callable to receive every incoming report":   *)
(* the network thread throws no report away once it is set.                 *)
EveryReportReceived == on_report => fate # "dropped"

(* Every blocking call returns or raises.                                   *)
CallsReturn == \A c \in Callers : InCall(c) ~> ~InCall(c)

(* However often the link drops, the session is subscribed again, because   *)
(* the subscription is made in _on_connect.                                 *)
Resubscribes == loop = "on" ~> subscribed \/ loop # "on"
=============================================================================
