----------------------------- MODULE BridgeRpc -----------------------------
(***************************************************************************)
(* The JSON-RPC side of the Moonraker bridge (moonraker_bridge/bridge.py): *)
(* a handler per WebSocket connection on one event loop, the dispatch of a *)
(* request to its RPC, the REST endpoints that call the same RPCs, and the *)
(* commands an RPC publishes to the printer.  An RPC never suspends, so    *)
(* handlers interleave at their sends only.  The clients are external:     *)
(* they send ahead of the replies, and may be gone at any time.            *)
(***************************************************************************)
EXTENDS Naturals, Sequences, SequencesExt

CONSTANTS
  Clients,      \* WebSocket clients
  Objects,      \* printer objects a client may subscribe to
  MaxRequests,  \* bound: requests of all clients
  MaxConns      \* bound: connections

ASSUME BoundsAssumption == MaxRequests \in Nat \ {0} /\ MaxConns \in Nat

Commands == {"command"}   \* RPCs that publish, as printer.print.start
Reading  == {"query"}     \* RPCs that only answer
Methods  == Commands \cup Reading \cup {"identify", "subscribe"}
Odd == {"unknown",   \* no such method
        "raising",   \* params the RPC does not expect
        "bad_identify",  \* an identify with such params
        "nokey"}     \* a method that cannot be looked up
Broken == {"garbage", "array"}     \* no JSON; JSON that is no object

Request == {r \in [n : 1..MaxRequests, id : BOOLEAN, kind : Methods \cup Odd \cup Broken] :
              r.id => r.kind \notin Broken}
Identifies == {"identify", "bad_identify"}
Replies == {"result", "errorResult", "error"}
Notices == {"klippy_connected", "klippy_ready"}    \* what follows an identify
Message == [to : 1..MaxRequests, as : Replies \cup Notices]

VARIABLES
  inbox,    \* client -> requests sent and not taken yet
  gone,     \* clients whose connection is closed on their side
  conn,     \* client -> id of its connection, 0 without one
  subs,     \* _ws_subscriptions, a function on connection ids
  nextId,   \* _next_conn_id
  pc,       \* client -> where its handler is
  cur,      \* client -> the reply that is being sent
  kobra,    \* the bridge has its KobraClient
  count,    \* requests so far
  asked,    \* history: client -> what it sent on its present connection
  got,      \* history: client -> what it received on it
  told,     \* history: requests whose command was published, in order
  failed    \* history: requests whose command could not be published

client  == <<inbox, gone, asked>>
handler == <<conn, subs, nextId>>
outcome == <<kobra, told, failed>>
vars == <<client, handler, outcome, pc, cur, count, got>>

Init ==
  /\ inbox = [c \in Clients |-> <<>>] /\ gone = {}
  /\ conn = [c \in Clients |-> 0] /\ subs = <<>> /\ nextId = 1
  /\ pc = [c \in Clients |-> "off"]
  /\ cur = [c \in Clients |-> [to |-> 1, as |-> "result"]]
  /\ kobra = TRUE /\ count = 0
  /\ asked = [c \in Clients |-> <<>>] /\ got = [c \in Clients |-> <<>>]
  /\ told = <<>> /\ failed = {}

At(c, from, to) ==
  /\ pc[c] = from
  /\ pc' = [pc EXCEPT ![c] = to]

-----------------------------------------------------------------------------
(* _handle_websocket: the client is registered under a new connection id *)
Open(c) ==
  /\ nextId <= MaxConns
  /\ At(c, "off", "idle")
  /\ conn' = [conn EXCEPT ![c] = nextId]
  /\ subs' = [i \in DOMAIN subs \cup {nextId} |-> IF i = nextId THEN {} ELSE subs[i]]
  /\ nextId' = nextId + 1
  /\ gone' = gone \ {c}
  /\ inbox' = [inbox EXCEPT ![c] = <<>>]
  /\ asked' = [asked EXCEPT ![c] = <<>>]
  /\ got' = [got EXCEPT ![c] = <<>>]
  /\ UNCHANGED <<outcome, cur, count>>

(* the client sends a request, or a notification, which has no id *)
ClientSends(c, kind, id) ==
  /\ pc[c] # "off" /\ c \notin gone /\ count < MaxRequests
  /\ id => kind \notin Broken
  /\ count' = count + 1
  /\ LET r == [n |-> count + 1, id |-> id, kind |-> kind]
     IN  /\ inbox' = [inbox EXCEPT ![c] = Append(@, r)]
         /\ asked' = [asked EXCEPT ![c] = Append(@, r)]
  /\ UNCHANGED <<gone, handler, outcome, pc, cur, got>>

ClientGone(c) ==
  /\ pc[c] # "off"
  /\ gone' = gone \cup {c}
  /\ UNCHANGED <<inbox, asked, handler, outcome, pc, cur, count, got>>

(* stop(): the printer's client first, then every connection is closed *)
StopBridge ==
  /\ kobra
  /\ kobra' = FALSE
  /\ gone' = {c \in Clients : pc[c] # "off"}
  /\ UNCHANGED <<inbox, asked, handler, told, failed, pc, cur, count, got>>

-----------------------------------------------------------------------------
(* The command RPCs, called by request n: nothing without a printer; what  *)
(* the publish raises is swallowed, and the answer is "ok" in every case.  *)
Publish(n) ==
  IF kobra
  THEN \/ told' = Append(told, n) /\ UNCHANGED failed
       \/ failed' = failed \cup {n} /\ UNCHANGED told
  ELSE UNCHANGED <<told, failed>>

(* the effects of the RPCs, for connection i; a REST call has connection 0 *)
Effects(n, kind, i) ==
  /\ IF kind \in Commands THEN Publish(n) ELSE UNCHANGED <<told, failed>>
  /\ IF kind = "subscribe" /\ i # 0
     THEN \E o \in SUBSET Objects : subs' = [subs EXCEPT ![i] = o]
     ELSE UNCHANGED subs

(* _dispatch_jsonrpc returns what an RPC raises, and "method not found", as *)
(* a result; the lookup of a method that cannot be hashed raises            *)
Answer(kind) ==
  CASE kind \in Methods -> "result"
    [] kind = "nokey"   -> "error"
    [] OTHER            -> "errorResult"

(* where _handle_ws_message goes with r: an array fails before msg_id is    *)
(* bound, and the failure of its error path ends the handler; an identify   *)
(* is known by its method, so that one that raised is followed by the       *)
(* notices as well                                                          *)
After(r) ==
  IF r.kind = "array" THEN "leave"
  ELSE IF ~r.id THEN "idle"
  ELSE CASE r.kind \in Identifies -> "reply_id"
         [] r.kind = "nokey"      -> "error"
         [] OTHER                 -> "reply"

(* _handle_ws_message, up to its first send *)
Take(c) ==
  /\ pc[c] = "idle" /\ inbox[c] # <<>>
  /\ LET r == Head(inbox[c])
     IN  /\ Effects(r.n, r.kind, conn[c])
         /\ pc' = [pc EXCEPT ![c] = After(r)]
         /\ cur' = IF r.kind \in Broken THEN cur
                   ELSE [cur EXCEPT ![c] = [to |-> r.n, as |-> Answer(r.kind)]]
  /\ inbox' = [inbox EXCEPT ![c] = Tail(@)]
  /\ UNCHANGED <<gone, asked, conn, nextId, kobra, count, got>>

(* a REST endpoint: the same RPC, answered at once *)
Rest(kind) ==
  /\ count < MaxRequests
  /\ count' = count + 1
  /\ Effects(count + 1, kind, 0)
  /\ UNCHANGED <<client, conn, nextId, kobra, pc, cur, got>>

(* what a client receives, unless it is gone *)
Receive(c, as) ==
  got' = IF c \in gone THEN got
         ELSE [got EXCEPT ![c] = Append(@, [to |-> cur[c].to, as |-> as])]

SendReply(c) ==
  /\ \/ At(c, "reply", "idle")
     \/ At(c, "error", "idle")
     \/ At(c, "reply_id", "connected")
  /\ Receive(c, cur[c].as)
  /\ UNCHANGED <<client, handler, outcome, cur, count>>

(* mutant: ready is sent when the client connects to Klippy *)
SendReadyFirst(c) ==
  /\ \/ At(c, "connected", "ready") /\ Receive(c, "klippy_ready")
     \/ At(c, "ready", "idle")      /\ Receive(c, "klippy_connected")
  /\ UNCHANGED <<client, handler, outcome, cur, count>>

(* mutant: the second notice waits for something that never comes *)
SendReadyHalf(c) ==
  /\ At(c, "connected", "ready")
  /\ Receive(c, "klippy_connected")
  /\ UNCHANGED <<client, handler, outcome, cur, count>>

(* _send_klippy_ready_to *)
SendReady(c) ==
  /\ \/ At(c, "connected", "ready") /\ Receive(c, "klippy_connected")
     \/ At(c, "ready", "idle")      /\ Receive(c, "klippy_ready")
  /\ UNCHANGED <<client, handler, outcome, cur, count>>

(* mutant: the request is put back when its reply fails *)
RetryReply(c) ==
  /\ c \in gone
  /\ pc[c] = "reply"
  /\ pc' = [pc EXCEPT ![c] = "idle"]
  /\ inbox' = [inbox EXCEPT ![c] = SelectSeq(asked[c], LAMBDA r : r.n >= cur[c].to)]
  /\ UNCHANGED <<gone, asked, handler, outcome, cur, count, got>>

(* a send to a closed connection raises: a reply is followed by an error    *)
(* reply, whose failure ends the handler; the notices catch it              *)
SendFails(c) ==
  /\ c \in gone
  /\ \/ At(c, "reply", "error") \/ At(c, "reply_id", "error")
     \/ At(c, "error", "leave")
     \/ At(c, "connected", "idle") \/ At(c, "ready", "idle")
  /\ cur' = [cur EXCEPT ![c].as = "error"]
  /\ UNCHANGED <<client, handler, outcome, count, got>>

(* mutant: a handler that ends by an error leaves its entry *)
LeaveEntry(c) ==
  /\ \/ At(c, "leave", "off")
     \/ c \in gone /\ inbox[c] = <<>> /\ At(c, "idle", "off")
  /\ conn' = [conn EXCEPT ![c] = 0]
  /\ subs' = IF pc[c] = "leave" THEN subs
             ELSE [i \in DOMAIN subs \ {conn[c]} |-> subs[i]]
  /\ UNCHANGED <<client, nextId, outcome, cur, count, got>>

(* the end of the handler: the socket is closed, or an exception escaped *)
Leave(c) ==
  /\ \/ At(c, "leave", "off")
     \/ c \in gone /\ inbox[c] = <<>> /\ At(c, "idle", "off")
  /\ conn' = [conn EXCEPT ![c] = 0]
  /\ subs' = [i \in DOMAIN subs \ {conn[c]} |-> subs[i]]
  /\ UNCHANGED <<client, nextId, outcome, cur, count, got>>

-----------------------------------------------------------------------------
Handle(c) == Take(c) \/ SendReply(c) \/ SendReady(c) \/ SendFails(c) \/ Leave(c)

Next ==
  \/ \E c \in Clients :
       \/ Open(c) \/ ClientGone(c) \/ Handle(c)
       \/ \E kind \in Methods \cup Odd \cup Broken, id \in BOOLEAN : ClientSends(c, kind, id)
  \/ \E kind \in Methods \ {"identify"} : Rest(kind)
  \/ StopBridge

Spec == Init /\ [][Next]_vars

(* the event loop runs every handler that can go on *)
FairSpec == Spec /\ \A c \in Clients : WF_vars(Handle(c))

-----------------------------------------------------------------------------
(* where a handler of a connection can be; "off" is no handler *)
Places == {"off", "idle", "reply", "reply_id", "error", "connected", "ready", "leave"}

TypeOK ==
  /\ inbox \in [Clients -> Seq(Request)] /\ asked \in [Clients -> Seq(Request)]
  /\ gone \subseteq Clients
  /\ nextId \in 1 .. MaxConns + 1 /\ conn \in [Clients -> 0 .. nextId - 1]
  /\ DOMAIN subs \subseteq 1 .. nextId - 1 /\ \A i \in DOMAIN subs : subs[i] \subseteq Objects
  /\ pc \in [Clients -> Places]
  /\ cur \in [Clients -> Message]
  /\ kobra \in BOOLEAN /\ count \in 0..MaxRequests
  /\ got \in [Clients -> Seq(Message)]
  /\ told \in Seq(1..count) /\ failed \subseteq 1..count

(* requests of c with an id, and requests that c has a reply to, by number *)
Asks(c, n)    == \E j \in DOMAIN asked[c] : asked[c][j].n = n /\ asked[c][j].id
Replied(c, n) == \E k \in DOMAIN got[c] : got[c][k].to = n /\ got[c][k].as \in Replies

(* However requests are pipelined, what a client gets on a connection is one  *)
(* reply for each request that has an id, in their order and none for a       *)
(* notification; none is left out before a later one, and none is missing     *)
(* when the handler waits for the next message.  It is told that Klippy is    *)
(* ready only after it was told that Klippy is connected, and of this right    *)
(* after the reply to an identify: its result, or the error of its RPC.       *)
RepliesInOrder ==
  \A c \in Clients : pc[c] # "off" =>
    /\ \A k \in DOMAIN got[c] : got[c][k].as \in Replies =>
         /\ Asks(c, got[c][k].to)
         /\ \A n \in 1 .. got[c][k].to - 1 : Asks(c, n) => Replied(c, n)
    /\ \A k, l \in DOMAIN got[c] :
         k < l /\ got[c][k].as \in Replies /\ got[c][l].as \in Replies
           => got[c][k].to < got[c][l].to
    /\ pc[c] = "idle" /\ inbox[c] = <<>> /\ c \notin gone =>
         \A n \in 1 .. count : Asks(c, n) => Replied(c, n)
    /\ \A i \in DOMAIN got[c] :
         /\ got[c][i].as = "klippy_connected" =>
              /\ i > 1
              /\ \E kind \in Identifies :
                   /\ [n |-> got[c][i].to, id |-> TRUE, kind |-> kind] \in Range(asked[c])
                   /\ got[c][i-1] = [to |-> got[c][i].to, as |-> Answer(kind)]
         /\ got[c][i].as = "klippy_ready" =>
              i > 1 /\ got[c][i-1] = [to |-> got[c][i].to, as |-> "klippy_connected"]

(* The table of subscriptions has an entry for each connection that is open, *)
(* under an id no other connection has, and none for any other.              *)
SubsLive ==
  /\ DOMAIN subs = {conn[c] : c \in {d \in Clients : pc[d] # "off"}}
  /\ \A c, d \in Clients : conn[c] = conn[d] /\ conn[c] # 0 => c = d

(* No command is published twice, whatever fails after it; and a client that *)
(* got an answer to a command knows that it was published, unless publishing *)
(* failed or the bridge had been stopped.                                    *)
CommandsOnce ==
  /\ IsInjective(told)
  /\ kobra =>
       \A c \in Clients : \A j \in DOMAIN asked[c], k \in DOMAIN got[c] :
         /\ asked[c][j].kind \in Commands
         /\ got[c][k].to = asked[c][j].n /\ got[c][k].as \in Replies
         => asked[c][j].n \in Range(told) \cup failed

(* Each request is answered, unless its connection ends. *)
Answered ==
  \A c \in Clients :
    [](inbox[c] # <<>> => <>(pc[c] = "off" \/ (inbox[c] = <<>> /\ pc[c] = "idle")))
=============================================================================
