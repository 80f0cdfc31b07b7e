---------------------------- MODULE OeConnection ----------------------------
(***************************************************************************)
(* The connection of the companion to the OctoEverywhere cloud: OeClient's *)
(* loop and handshake (oe_client.py), the secrets file (oe_credentials.py) *)
(* and the main thread that wires them (octoeverywhere/__main__.py).  The  *)
(* process may be killed at any moment and started again; the secrets file *)
(* is all that survives.  The WebSocket library is external: it calls the  *)
(* handlers on the thread of run(), and reports most errors to on_error    *)
(* and then returns from run_forever as if the connection had been closed. *)
(***************************************************************************)
EXTENDS Naturals

CONSTANTS
  Keys,        \* the octokeys the cloud may give
  NoKey,       \* no octokey: the empty string
  Unset,       \* not handed over
  MaxStarts,   \* bound: starts of the process
  MaxBackoff   \* the cap of the backoff, 180 s in the code

ASSUME KeysAssumption   == NoKey \notin Keys /\ Unset \notin Keys \cup {NoKey}
ASSUME BoundsAssumption == {MaxStarts, MaxBackoff} \subseteq Nat \ {0}

VARIABLES
  file,       \* the credentials in the secrets file, or Nothing
  creds,      \* the OeCredentials object, or Nothing
  okey,       \* OeClient._octokey
  handed,     \* the octokey handed to the pusher and to the uploader
  pc,         \* program counters of the main thread and of run()'s thread
  stop,       \* the stop event
  closing,    \* close() was called on the running WebSocketApp
  connected,  \* the connected event
  backoff,    \* seconds
  starts,     \* starts of the process so far
  drawn,      \* history: printer ids drawn so far, each is a new one
  linked,     \* history: the first printer id that was saved, or 0
  torn,       \* history: a save ended with the file truncated
  unsaved,    \* history: the last save of this process failed
  given,      \* history: the last octokey the cloud gave this process
  rotated,    \* history: the key given last had been handed over when it changed
  trusted,    \* history: the cloud answered the challenge of this connection
  asked,      \* history: who has called stop() effectively: "nobody", "early",
              \* "missed", "main", "self"
  late        \* history: connections begun after a stop()

disk    == <<file, starts, drawn, linked, torn>>
keys    == <<creds, okey, handed, given, rotated, unsaved>>
session == <<stop, closing, connected, backoff, trusted, asked, late>>
vars == <<disk, keys, session, pc>>

Credentials == [id : Nat, key : Keys \cup {NoKey}]
Nothing == [id |-> 0, key |-> NoKey]     \* no file, or one without its section
Users == {"pusher", "cdn"}

Goto(t, from, to) ==
  /\ pc[t] = from
  /\ pc' = [pc EXCEPT ![t] = to]

(* a process that begins: nothing but the file is left of the last one *)
Fresh ==
  /\ creds' = Nothing /\ okey' = NoKey /\ handed' = [u \in Users |-> Unset]
  /\ given' = NoKey /\ rotated' = FALSE /\ unsaved' = FALSE
  /\ stop' = FALSE /\ closing' = FALSE /\ connected' = FALSE /\ backoff' = 1
  /\ trusted' = FALSE /\ asked' = "nobody" /\ late' = 0

Init ==
  /\ file = Nothing /\ starts = 1 /\ drawn = 0 /\ linked = 0 /\ torn = FALSE
  /\ creds = Nothing /\ okey = NoKey /\ handed = [u \in Users |-> Unset]
  /\ given = NoKey /\ rotated = FALSE /\ unsaved = FALSE
  /\ stop = FALSE /\ closing = FALSE /\ connected = FALSE /\ backoff = 1
  /\ trusted = FALSE /\ asked = "nobody" /\ late = 0
  /\ pc = [main |-> "load", oe |-> "off"]

-----------------------------------------------------------------------------
(* load_or_create: a file that holds credentials is used as it is *)
Load ==
  /\ file # Nothing
  /\ Goto("main", "load", "host")
  /\ creds' = file
  /\ UNCHANGED <<disk, session, okey, handed, given, rotated, unsaved>>

(* mutant: a file without an octokey counts as corrupt *)
CreateUnlessKey ==
  /\ file.key = NoKey
  /\ Goto("main", "load", "open")
  /\ drawn' = drawn + 1
  /\ creds' = [id |-> drawn + 1, key |-> NoKey]
  /\ UNCHANGED <<file, starts, linked, torn, session, okey, handed, given, rotated, unsaved>>

(* no file, or one without the section: a new identity, to be saved *)
Create ==
  /\ file = Nothing
  /\ Goto("main", "load", "open")
  /\ drawn' = drawn + 1
  /\ creds' = [id |-> drawn + 1, key |-> NoKey]
  /\ UNCHANGED <<file, starts, linked, torn, session, okey, handed, given, rotated, unsaved>>

(* save, by the main thread or by the thread of run(): open() truncates *)
OpenFile(t) ==
  /\ Goto(t, "open", "write")
  /\ file' = Nothing
  /\ UNCHANGED <<starts, drawn, linked, torn, keys, session>>

(* what follows a save: the companion's start, or the end of the handshake *)
Saved(t) ==
  /\ pc' = [pc EXCEPT ![t] = IF t = "main" THEN "host" ELSE "up"]
  /\ connected' = (connected \/ t = "oe")
  /\ UNCHANGED <<starts, drawn, stop, closing, backoff, trusted, asked, late>>

WriteFile(t) ==
  /\ pc[t] = "write"
  /\ file' = creds
  /\ linked' = IF linked = 0 THEN creds.id ELSE linked
  /\ unsaved' = FALSE
  /\ Saved(t)
  /\ UNCHANGED <<torn, creds, okey, handed, given, rotated>>

(* the handler of the handshake catches the error of its save *)
SaveFails ==
  /\ pc["oe"] \in {"open", "write"}
  /\ unsaved' = TRUE
  /\ torn' = (torn \/ pc["oe"] = "write")
  /\ Saved("oe")
  /\ UNCHANGED <<file, linked, creds, okey, handed, given, rotated>>

(* The process ends, killed or by an exception or by sys.exit: threads are  *)
(* daemons and stop wherever they are.  It may be started again.            *)
ProcessEnds ==
  /\ starts < MaxStarts
  /\ pc' = [main |-> "load", oe |-> "off"]
  /\ starts' = starts + 1
  /\ torn' = (torn \/ \E t \in {"main", "oe"} : pc[t] = "write")
  /\ Fresh
  /\ UNCHANGED <<file, drawn, linked>>

-----------------------------------------------------------------------------
(* cmd_run: the printer is connected and run() is started on its thread *)
StartThread ==
  /\ pc["main"] = "host" /\ pc["oe"] = "off"
  /\ pc' = [main |-> "wait", oe |-> "clear"]
  /\ UNCHANGED <<disk, keys, session>>

(* the handshake has come, or 30 seconds are over *)
Waited ==
  /\ Goto("main", "wait", "pusher")
  /\ UNCHANGED <<disk, keys, session>>

(* mutant: the key of the secrets file is handed over *)
HandOverSaved(u, to) ==
  /\ Goto("main", u, to)
  /\ handed' = [handed EXCEPT ![u] = creds.key]
  /\ UNCHANGED <<disk, creds, okey, given, rotated, unsaved, session>>

(* set_octokey of the pusher, and then of the uploader *)
HandOver(u, to) ==
  /\ Goto("main", u, to)
  /\ handed' = [handed EXCEPT ![u] = okey]
  /\ UNCHANGED <<disk, creds, okey, given, rotated, unsaved, session>>

HandOvers == HandOver("pusher", "cdn") \/ HandOver("cdn", "running")

InForever == {"connecting", "up", "open", "write"}  \* inside run_forever

(* stop(): a WebSocketApp that is not running yet ignores close() *)
StopBy(who) ==
  /\ stop' = TRUE
  /\ closing' = (pc["oe"] \in InForever)
  /\ asked' = IF asked # "nobody" THEN asked
              ELSE IF who = "self" THEN "self"
              ELSE CASE pc["oe"] = "clear"           -> "early"
                     [] pc["oe"] \in {"make", "run"} -> "missed"
                     [] OTHER                        -> "main"

(* a signal, while run() may be anywhere *)
Shutdown ==
  /\ Goto("main", "running", "stopping")
  /\ StopBy("main")
  /\ UNCHANGED <<disk, keys, connected, backoff, trusted, late>>

(* the main thread also leaves when run() has returned *)
ThreadGone ==
  /\ pc["oe"] = "ended"
  /\ Goto("main", "running", "stopping")
  /\ UNCHANGED <<disk, keys, session>>

-----------------------------------------------------------------------------
(* run(): a stop() that came before this is forgotten *)
Clear ==
  /\ Goto("oe", "clear", "test")
  /\ stop' = FALSE
  /\ UNCHANGED <<disk, keys, closing, connected, backoff, trusted, asked, late>>

(* mutant: the loop does not look at the stop event *)
TestNever ==
  /\ pc["oe"] = "test"
  /\ pc' = [pc EXCEPT !["oe"] = "make"]
  /\ UNCHANGED <<disk, keys, session>>

Test ==
  /\ pc["oe"] = "test"
  /\ pc' = [pc EXCEPT !["oe"] = IF stop THEN "ended" ELSE "make"]
  /\ UNCHANGED <<disk, keys, session>>

MakeApp ==
  /\ Goto("oe", "make", "run")
  /\ UNCHANGED <<disk, keys, session>>

RunForever ==
  /\ Goto("oe", "run", "connecting")
  /\ late' = IF asked # "nobody" /\ late < 2 THEN late + 1 ELSE late
  /\ closing' = FALSE
  /\ UNCHANGED <<disk, keys, stop, connected, backoff, trusted, asked>>

(* on_open draws a challenge and sends the handshake *)
Opens ==
  /\ ~closing
  /\ Goto("oe", "connecting", "up")
  /\ trusted' = FALSE
  /\ UNCHANGED <<disk, keys, stop, closing, connected, backoff, asked, late>>

(* the cloud rejects the handshake, or its answer to the challenge is wrong *)
AckRefused ==
  /\ pc["oe"] = "up" /\ ~closing
  /\ StopBy("self")
  /\ UNCHANGED <<disk, keys, pc, connected, backoff, trusted, late>>

AckNoKey ==
  /\ pc["oe"] = "up" /\ ~closing
  /\ okey' = NoKey
  /\ trusted' = TRUE
  /\ connected' = TRUE
  /\ UNCHANGED <<disk, pc, creds, handed, given, rotated, unsaved,
                 stop, closing, backoff, asked, late>>

(* mutant: the key is not put into the credentials that are saved *)
AckKeyOnly(k) ==
  /\ ~closing
  /\ Goto("oe", "up", "open")
  /\ okey' = k
  /\ given' = k
  /\ rotated' = (rotated \/ given \in {handed[u] : u \in Users} \ {NoKey, k})
  /\ trusted' = TRUE
  /\ UNCHANGED <<disk, creds, handed, unsaved,
                 stop, closing, connected, backoff, asked, late>>

(* the accepted answer brings a key: it is remembered, and then saved *)
AckKey(k) ==
  /\ ~closing
  /\ Goto("oe", "up", "open")
  /\ okey' = k
  /\ creds' = [creds EXCEPT !.key = k]
  /\ given' = k
  /\ rotated' = (rotated \/ given \in {handed[u] : u \in Users} \ {NoKey, k})
  /\ trusted' = TRUE
  /\ UNCHANGED <<disk, handed, unsaved,
                 stop, closing, connected, backoff, asked, late>>

(* mutant: on_close forgets the connected event *)
EndsConnected ==
  /\ pc["oe"] \in {"connecting", "up"}
  /\ pc' = [pc EXCEPT !["oe"] = "test"]
  /\ closing' = FALSE
  /\ backoff' = 1
  /\ UNCHANGED <<disk, keys, stop, connected, trusted, asked, late>>

(* run_forever returns, after a close or after on_error and on_close alike *)
Ends ==
  /\ pc["oe"] \in {"connecting", "up"}
  /\ pc' = [pc EXCEPT !["oe"] = "test"]
  /\ closing' = FALSE
  /\ connected' = FALSE
  /\ backoff' = 1
  /\ UNCHANGED <<disk, keys, stop, trusted, asked, late>>

(* run_forever or the constructor raises: the loop ends, or waits *)
Raises ==
  /\ pc["oe"] \in {"make", "run", "connecting"}
  /\ pc' = [pc EXCEPT !["oe"] = IF stop THEN "ended" ELSE "sleep"]
  /\ closing' = FALSE
  /\ UNCHANGED <<disk, keys, stop, connected, backoff, trusted, asked, late>>

Slept ==
  /\ Goto("oe", "sleep", "test")
  /\ backoff' = IF 2 * backoff <= MaxBackoff THEN 2 * backoff ELSE MaxBackoff
  /\ UNCHANGED <<disk, keys, stop, closing, connected, trusted, asked, late>>

-----------------------------------------------------------------------------
Main ==
  \/ Load \/ Create \/ OpenFile("main") \/ WriteFile("main")
  \/ StartThread \/ Waited \/ HandOvers \/ ThreadGone

(* what run()'s thread does by itself, the end of a closed socket included *)
RunThread ==
  \/ Clear \/ Test \/ MakeApp \/ RunForever \/ Slept
  \/ OpenFile("oe") \/ WriteFile("oe")
  \/ closing /\ Ends

Cloud ==
  \/ Opens \/ AckRefused \/ AckNoKey
  \/ \E k \in Keys : AckKey(k)
  \/ Ends \/ Raises

Next == Main \/ RunThread \/ Cloud \/ SaveFails \/ Shutdown \/ ProcessEnds

Spec == Init /\ [][Next]_vars

(* the thread of run() is scheduled; nothing is promised of the cloud *)
FairSpec == Spec /\ WF_vars(RunThread)

-----------------------------------------------------------------------------
TypeOK ==
  /\ file \in Credentials /\ creds \in Credentials
  /\ okey \in Keys \cup {NoKey}
  /\ handed \in [Users -> Keys \cup {NoKey, Unset}]
  /\ pc["main"] \in {"load", "open", "write", "host", "wait", "pusher", "cdn",
                     "running", "stopping"}
  /\ pc["oe"] \in {"off", "clear", "test", "make", "run", "sleep", "ended"} \cup InForever
  /\ DOMAIN pc = {"main", "oe"}
  /\ stop \in BOOLEAN /\ closing \in BOOLEAN /\ connected \in BOOLEAN
  /\ torn \in BOOLEAN /\ unsaved \in BOOLEAN /\ rotated \in BOOLEAN /\ trusted \in BOOLEAN
  /\ backoff \in 1..MaxBackoff
  /\ starts \in 1..MaxStarts /\ drawn \in 0..starts /\ linked \in 0..drawn
  /\ given \in Keys \cup {NoKey}
  /\ asked \in {"nobody", "early", "missed", "main", "self"}
  /\ late \in 0..2

(* A printer keeps its identity over every restart: once an id was saved,  *)
(* another one is used only if a save has ended with the file truncated.   *)
IdentityKept == creds # Nothing /\ linked # 0 /\ ~torn => creds.id = linked

(* the octokey a status push or an upload sends: `_octokey or creds.octokey` *)
Sent(u) == IF handed[u] \in {Unset, NoKey} THEN creds.key ELSE handed[u]

(* However the handshake and its 30 seconds fall, what the pusher and the     *)
(* uploader send once they run is the key the cloud gave last, unless it gave *)
(* another one after it had been handed over.                                 *)
KeyCurrent ==
  pc["main"] = "running" /\ given # NoKey /\ ~rotated => \A u \in Users : Sent(u) = given

(* After a handshake whose save worked, the next start will know the key. *)
Persisted ==
  connected /\ pc["oe"] = "up" /\ given # NoKey /\ ~unsaved
    => file = [creds EXCEPT !.key = given]

(* `connected` is never left over from an earlier connection: the cloud has *)
(* answered the challenge of the one that is open.                          *)
ConnectedTrusted ==
  connected => trusted /\ pc["oe"] \in {"up", "open", "write"}

(* After stop() no connection is begun; one may be if the stop met run()    *)
(* between its test and run_forever, and a stop before run() is lost.       *)
AfterStop ==
  /\ asked \in {"main", "self"} => late = 0
  /\ asked = "missed" => late <= 1

(* A stop that was not lost ends run(), or the process is gone. *)
StopEnds == asked \in {"main", "self"} ~> pc["oe"] \in {"ended", "off"}
=============================================================================
