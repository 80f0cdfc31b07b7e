-------------------------- MODULE TemperatureStore --------------------------
(***************************************************************************)
(* The temperature store of the Moonraker state (state.py): four series,   *)
(* appended to in turn and unlocked by the main thread, while it refreshes *)
(* the state, and by the MQTT thread, and read by the event loop.          *)
(* A series is the sequence of the numbers of its readings.                *)
(***************************************************************************)
EXTENDS Naturals, Sequences, SequencesExt

CONSTANTS
  MaxLen,       \* MAXLEN, 1200 in the code
  MaxReadings,  \* bound: readings of the printer
  Off           \* no series: no sequence of numbers

Threads == {"main", "mqtt"}
Series  == 1..4    \* extruder temperatures and targets, bed temperatures and targets

VARIABLES
  store,     \* the series
  at,        \* at[t]: the series that t appends to next, 0 outside of append
  stamp,     \* stamp[t]: the reading t appends
  readings,  \* readings so far
  refresh,   \* what the main thread has left to do: 1 or 0 updates
  reply,     \* the series a reader has copied so far
  loop,      \* the series the reader copies next, 0 without a reader
  missed,    \* history: calls of append() that the reader's copies overlap with
  raced      \* history: both threads were in append at once

writers == <<store, at, stamp, readings, refresh, raced>>
reader  == <<reply, loop>>
vars == <<writers, reader, missed>>

Init ==
  /\ store = [s \in Series |-> <<>>]
  /\ at = [t \in Threads |-> 0] /\ stamp = [t \in Threads |-> 0]
  /\ readings = 0 /\ refresh = 1
  /\ reply = [s \in Series |-> Off] /\ loop = 0 /\ missed = 0
  /\ raced = FALSE

(* a deque with maxlen: the oldest is dropped *)
Push(q, r) == IF Len(q) < MaxLen THEN Append(q, r) ELSE Append(Tail(q), r)

(* append() is called and takes the time *)
Begin(t) ==
  /\ at[t] = 0 /\ readings < MaxReadings
  /\ t = "main" => refresh = 1
  /\ refresh' = IF t = "main" THEN 0 ELSE refresh
  /\ readings' = readings + 1
  /\ stamp' = [stamp EXCEPT ![t] = readings + 1]
  /\ at' = [at EXCEPT ![t] = 1]
  /\ raced' = (raced \/ \E u \in Threads \ {t} : at[u] # 0)
  /\ UNCHANGED <<store, reader, missed>>

(* mutant: the targets of the extruder are forgotten *)
AppendTemps(t) ==
  /\ at[t] # 0
  /\ store' = IF at[t] = 2 THEN store
              ELSE [store EXCEPT ![at[t]] = Push(@, stamp[t])]
  /\ at' = [at EXCEPT ![t] = (@ + 1) % 5]
  /\ missed' = IF loop > 1 /\ at[t] = 1 THEN missed + 1 ELSE missed
  /\ UNCHANGED <<stamp, readings, refresh, raced, reader>>

AppendOne(t) ==
  /\ at[t] # 0
  /\ store' = [store EXCEPT ![at[t]] = Push(@, stamp[t])]
  /\ at' = [at EXCEPT ![t] = (@ + 1) % 5]
  /\ missed' = IF loop > 1 /\ at[t] = 1 THEN missed + 1 ELSE missed
  /\ UNCHANGED <<stamp, readings, refresh, raced, reader>>

(* to_dict copies one series after the other *)
BeginRead ==
  /\ loop = 0
  /\ loop' = 1 /\ missed' = 0
  /\ reply' = [s \in Series |-> Off]
  /\ UNCHANGED writers

(* calls of append() that have appended to some of the series only *)
Begun(t) == IF at[t] > 1 THEN 1 ELSE 0
Halfway  == Begun("main") + Begun("mqtt")

(* mutant: a slice [:-1] leaves out the newest target of the bed *)
CopyShort ==
  /\ loop # 0
  /\ reply' = [reply EXCEPT ![loop] =
                 IF loop = 4 /\ store[4] # <<>> THEN Front(store[4]) ELSE store[loop]]
  /\ loop' = (loop + 1) % 5
  /\ missed' = IF loop = 1 THEN Halfway ELSE missed
  /\ UNCHANGED writers

Copy ==
  /\ loop # 0
  /\ reply' = [reply EXCEPT ![loop] = store[loop]]
  /\ loop' = (loop + 1) % 5
  /\ missed' = IF loop = 1 THEN Halfway ELSE missed
  /\ UNCHANGED writers

Next == (\E t \in Threads : Begin(t) \/ AppendOne(t)) \/ BeginRead \/ Copy

Spec == Init /\ [][Next]_vars

-----------------------------------------------------------------------------
AtRest == \A t \in Threads : at[t] = 0

(* A temperature and its target have the same place in their series: between  *)
(* two appends the four series, none of them longer than MAXLEN, tell of the  *)
(* same readings, in the same order unless both threads were in append() at   *)
(* once.                                                                      *)
SeriesAligned ==
  AtRest => \A s \in Series : /\ Len(store[s]) = Len(store[1])
                              /\ Len(store[s]) <= MaxLen
                              /\ ~raced => store[s] = store[1]

(* the last reading of a series *)
Newest(q) == IF q = <<>> THEN 0 ELSE q[Len(q)]

(* A reader that copies the series while readings arrive gets torn ones: for  *)
(* each call of append() that its copies overlapped with, one series may have *)
(* a reading that another has not, and no more.  Without such a call all of   *)
(* them are as long; and they are the same, unless both threads were in       *)
(* append() at once.                                                          *)
ReadsAligned ==
  loop = 0 /\ reply[1] # Off =>
    \A s, u \in Series :
      /\ Len(reply[s]) <= Len(reply[u]) + missed
      /\ ~raced => Newest(reply[s]) <= Newest(reply[u]) + missed
      /\ ~raced /\ missed = 0 => reply[s] = reply[u]
=============================================================================
