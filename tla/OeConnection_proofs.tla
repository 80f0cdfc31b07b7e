------------------------ MODULE OeConnection_proofs ------------------------
(***************************************************************************)
(* Safety of OeConnection for any keys and any number of starts.  The      *)
(* inductive invariant has a part per promise: where the two threads can   *)
(* be at once, what the file and the credentials say of the identity, how  *)
(* the copies of the octokey relate, what `connected` rests on, and where  *)
(* run() can be after a stop().                                            *)
(***************************************************************************)
EXTENDS OeConnection, TLAPS

(* The thread of run() exists once the main thread has started it; the     *)
(* credentials exist once the main thread has left load_or_create.         *)
Places ==
  /\ pc["oe"] = "off" <=> pc["main"] \in {"load", "open", "write", "host"}
  /\ pc["main"] = "load" => creds.id = 0 /\ drawn < starts
  /\ pc["main"] # "load" => creds.id # 0
  /\ creds.id <= drawn /\ file.id <= drawn
  /\ file.id = 0 => file.key = NoKey
  /\ creds.id = 0 => creds.key = NoKey

(* Unless a save was torn, the file holds the first saved identity whenever *)
(* nobody is writing it, and so does the process.                           *)
Identity ==
  /\ linked # 0 /\ ~torn =>
       /\ pc["main"] \notin {"open", "write"}
       /\ pc["oe"] # "write" => file.id = linked
       /\ creds.id # 0 => creds.id = linked

(* The key given last is in the credentials, in okey unless a later         *)
(* handshake brought none, and in whatever was handed over.                 *)
KeysKept ==
  /\ pc["oe"] = "off" => given = NoKey
  /\ given # NoKey => creds.key = given
  /\ okey \in {NoKey, given}
  /\ given = NoKey => \A u \in Users : handed[u] \in {Unset, NoKey}
  /\ ~rotated => \A u \in Users : handed[u] \in {Unset, NoKey, given}
  /\ given # NoKey /\ ~unsaved /\ pc["oe"] \notin {"open", "write"} => file = creds

Trust ==
  /\ connected => trusted /\ pc["oe"] \in {"up", "open", "write"}
  /\ pc["oe"] \in {"open", "write"} => trusted

(* A stop() that was not lost leaves the event set, and run() where its next *)
(* test ends it; a missed one lets one connection begin.                     *)
Stopping ==
  /\ asked = "nobody" => late = 0
  /\ asked \in {"main", "self"} =>
       stop /\ late = 0 /\ pc["oe"] \notin {"off", "clear", "make", "run"}
  /\ asked = "missed" =>
       stop /\ late <= 1 /\ pc["oe"] \notin {"off", "clear"}
            /\ (pc["oe"] \in {"make", "run"} => late = 0)

IInv == TypeOK /\ Places /\ Identity /\ KeysKept /\ Trust /\ Stopping

-----------------------------------------------------------------------------
LEMMA InitInv == Init => IInv
<1> SUFFICES ASSUME Init PROVE IInv
  OBVIOUS
<1>1. TypeOK
  <2>1. /\ file \in Credentials /\ creds \in Credentials
        /\ okey \in Keys \cup {NoKey} /\ given \in Keys \cup {NoKey}
        /\ handed \in [Users -> Keys \cup {NoKey, Unset}]
    BY DEF Init, Nothing, Credentials
  <2>2. /\ DOMAIN pc = {"main", "oe"} /\ pc["main"] = "load" /\ pc["oe"] = "off"
    BY DEF Init
  <2>3. /\ backoff \in 1..MaxBackoff /\ starts \in 1..MaxStarts
        /\ drawn \in 0..starts /\ linked \in 0..drawn /\ late \in 0..2
    BY BoundsAssumption DEF Init
  <2>4. /\ stop \in BOOLEAN /\ closing \in BOOLEAN /\ connected \in BOOLEAN
        /\ torn \in BOOLEAN /\ unsaved \in BOOLEAN /\ rotated \in BOOLEAN /\ trusted \in BOOLEAN
        /\ asked = "nobody"
    BY DEF Init
  <2> QED BY <2>1, <2>2, <2>3, <2>4 DEF TypeOK
<1>2. Places
  BY DEF Init, Places, Nothing
<1>3. Identity /\ KeysKept /\ Trust /\ Stopping
  BY DEF Init, Identity, KeysKept, Trust, Stopping, Users
<1> QED BY <1>1, <1>2, <1>3 DEF IInv

LEMMA LoadInv == IInv /\ Load => IInv'
<1> SUFFICES ASSUME IInv, Load PROVE IInv'
  OBVIOUS
<1>1. TypeOK'
  BY DEF IInv, TypeOK, Load, disk, session, Goto, Nothing
<1>2. Places'
  BY KeysAssumption, BoundsAssumption DEF IInv, TypeOK, Places, Identity, KeysKept,
     Trust, Stopping, Load, Goto, disk, keys, session, Credentials, Nothing, Users,
     InForever
<1>3. Identity'
  BY DEF IInv, Identity, Places, Load, disk, session, Goto, Nothing
<1>4. KeysKept'
  BY DEF IInv, KeysKept, Places, Load, disk, session, Goto, Nothing
<1>5. Trust'
  BY DEF IInv, Trust, Load, disk, session, Goto, Nothing
<1>6. Stopping'
  BY DEF IInv, Stopping, Load, disk, session, Goto, Nothing
<1> QED BY <1>1, <1>2, <1>3, <1>4, <1>5, <1>6 DEF IInv

LEMMA CreateInv == IInv /\ Create => IInv'
<1> SUFFICES ASSUME IInv, Create PROVE IInv'
  OBVIOUS
<1>1. TypeOK'
  BY KeysAssumption, BoundsAssumption DEF IInv, TypeOK, Places, Identity, KeysKept,
     Trust, Stopping, Create, session, Goto, Nothing, Credentials, Users, InForever
<1>2. Places'
  BY DEF IInv, Places, TypeOK, Create, session, Goto, Nothing
<1>3. Identity'
  BY DEF IInv, Identity, Places, Create, session, Goto, Nothing
<1>4. KeysKept'
  BY DEF IInv, KeysKept, Places, Create, session, Goto, Nothing
<1>5. Trust'
  BY DEF IInv, Trust, Create, session, Goto, Nothing
<1>6. Stopping'
  BY DEF IInv, Stopping, Create, session, Goto, Nothing
<1> QED BY <1>1, <1>2, <1>3, <1>4, <1>5, <1>6 DEF IInv

LEMMA StartThreadInv == IInv /\ StartThread => IInv'
<1> SUFFICES ASSUME IInv, StartThread PROVE IInv'
  OBVIOUS
<1>1. TypeOK'
  BY DEF IInv, TypeOK, StartThread, disk, keys, session
<1>2. Places'
  BY DEF IInv, Places, StartThread, disk, keys, session
<1>3. Identity'
  BY DEF IInv, Identity, StartThread, disk, keys, session
<1>4. KeysKept'
  BY DEF IInv, KeysKept, StartThread, disk, keys, session
<1>5. Trust'
  BY DEF IInv, Trust, StartThread, disk, keys, session
<1>6. Stopping'
  BY DEF IInv, Stopping, StartThread, disk, keys, session
<1> QED BY <1>1, <1>2, <1>3, <1>4, <1>5, <1>6 DEF IInv

LEMMA WaitedInv == IInv /\ Waited => IInv'
<1> SUFFICES ASSUME IInv, Waited PROVE IInv'
  OBVIOUS
<1>1. TypeOK'
  BY DEF IInv, TypeOK, Waited, disk, keys, session, Goto
<1>2. Places'
  BY DEF IInv, Places, Waited, disk, keys, session, Goto
<1>3. Identity'
  BY DEF IInv, Identity, Waited, disk, keys, session, Goto
<1>4. KeysKept'
  BY DEF IInv, KeysKept, Waited, disk, keys, session, Goto
<1>5. Trust'
  BY DEF IInv, Trust, Waited, disk, keys, session, Goto
<1>6. Stopping'
  BY DEF IInv, Stopping, Waited, disk, keys, session, Goto
<1> QED BY <1>1, <1>2, <1>3, <1>4, <1>5, <1>6 DEF IInv

LEMMA ThreadGoneInv == IInv /\ ThreadGone => IInv'
<1> SUFFICES ASSUME IInv, ThreadGone PROVE IInv'
  OBVIOUS
<1>1. TypeOK'
  BY DEF IInv, TypeOK, ThreadGone, disk, keys, session, Goto
<1>2. Places'
  BY DEF IInv, Places, ThreadGone, disk, keys, session, Goto
<1>3. Identity'
  BY DEF IInv, Identity, ThreadGone, disk, keys, session, Goto
<1>4. KeysKept'
  BY DEF IInv, KeysKept, ThreadGone, disk, keys, session, Goto
<1>5. Trust'
  BY DEF IInv, Trust, ThreadGone, disk, keys, session, Goto
<1>6. Stopping'
  BY DEF IInv, Stopping, ThreadGone, disk, keys, session, Goto
<1> QED BY <1>1, <1>2, <1>3, <1>4, <1>5, <1>6 DEF IInv

LEMMA ShutdownInv == IInv /\ Shutdown => IInv'
<1> SUFFICES ASSUME IInv, Shutdown PROVE IInv'
  OBVIOUS
<1>1. TypeOK'
  BY DEF IInv, TypeOK, Shutdown, StopBy, disk, keys, Goto, InForever
<1>2. Places'
  BY DEF IInv, Places, Shutdown, StopBy, disk, keys, Goto, InForever
<1>3. Identity'
  BY DEF IInv, Identity, Shutdown, StopBy, disk, keys, Goto, InForever
<1>4. KeysKept'
  BY DEF IInv, KeysKept, Shutdown, StopBy, disk, keys, Goto, InForever
<1>5. Trust'
  BY DEF IInv, Trust, Shutdown, StopBy, disk, keys, Goto, InForever
<1>6. Stopping'
  BY DEF IInv, Stopping, Places, Shutdown, StopBy, disk, keys, Goto, InForever
<1> QED BY <1>1, <1>2, <1>3, <1>4, <1>5, <1>6 DEF IInv

LEMMA ClearInv == IInv /\ Clear => IInv'
<1> SUFFICES ASSUME IInv, Clear PROVE IInv'
  OBVIOUS
<1>1. TypeOK'
  <2>1. /\ file' \in Credentials /\ creds' \in Credentials
        /\ okey' \in Keys \cup {NoKey} /\ given' \in Keys \cup {NoKey}
        /\ handed' \in [Users -> Keys \cup {NoKey, Unset}]
    BY DEF IInv, TypeOK, Clear, disk, keys
  <2>2. /\ DOMAIN pc' = {"main", "oe"}
        /\ pc'["main"] \in {"load", "open", "write", "host", "wait", "pusher", "cdn",
                          "running", "stopping"}
        /\ pc'["oe"] \in {"off", "clear", "test", "make", "run", "sleep", "ended"}
                           \cup InForever
    BY DEF IInv, TypeOK, Clear, InForever, Goto
  <2>3. /\ stop' \in BOOLEAN /\ closing' \in BOOLEAN /\ connected' \in BOOLEAN
        /\ torn' \in BOOLEAN /\ unsaved' \in BOOLEAN /\ rotated' \in BOOLEAN /\ trusted' \in BOOLEAN
    BY DEF IInv, TypeOK, Clear, disk, keys, session
  <2>4. /\ backoff' \in 1..MaxBackoff /\ starts' \in 1..MaxStarts
        /\ drawn' \in 0..starts' /\ linked' \in 0..drawn' /\ late' \in 0..2
        /\ asked' \in {"nobody", "early", "missed", "main", "self"}
    BY BoundsAssumption DEF IInv, TypeOK, Clear, disk, keys, session
  <2> QED BY <2>1, <2>2, <2>3, <2>4 DEF TypeOK
<1>2. Places'
  BY DEF IInv, Places, Clear, disk, keys, Goto
<1>3. Identity'
  BY DEF IInv, Identity, Clear, disk, keys, Goto
<1>4. KeysKept'
  BY DEF IInv, KeysKept, Clear, disk, keys, Goto
<1>5. Trust'
  BY DEF IInv, Trust, Clear, disk, keys, Goto
<1>6. Stopping'
  BY DEF IInv, Stopping, Clear, disk, keys, Goto
<1> QED BY <1>1, <1>2, <1>3, <1>4, <1>5, <1>6 DEF IInv

LEMMA TestInv == IInv /\ Test => IInv'
<1> SUFFICES ASSUME IInv, Test PROVE IInv'
  OBVIOUS
<1>1. TypeOK'
  BY DEF IInv, TypeOK, Test, disk, keys, session
<1>2. Places'
  BY DEF IInv, Places, Test, disk, keys, session
<1>3. Identity'
  BY DEF IInv, Identity, Test, disk, keys, session
<1>4. KeysKept'
  BY DEF IInv, KeysKept, Test, disk, keys, session
<1>5. Trust'
  BY DEF IInv, Trust, Test, disk, keys, session
<1>6. Stopping'
  BY DEF IInv, Stopping, Test, disk, keys, session
<1> QED BY <1>1, <1>2, <1>3, <1>4, <1>5, <1>6 DEF IInv

LEMMA MakeAppInv == IInv /\ MakeApp => IInv'
<1> SUFFICES ASSUME IInv, MakeApp PROVE IInv'
  OBVIOUS
<1>1. TypeOK'
  BY DEF IInv, TypeOK, MakeApp, disk, keys, session, Goto
<1>2. Places'
  BY DEF IInv, Places, MakeApp, disk, keys, session, Goto
<1>3. Identity'
  BY DEF IInv, Identity, MakeApp, disk, keys, session, Goto
<1>4. KeysKept'
  BY DEF IInv, KeysKept, MakeApp, disk, keys, session, Goto
<1>5. Trust'
  BY DEF IInv, Trust, MakeApp, disk, keys, session, Goto
<1>6. Stopping'
  BY DEF IInv, Stopping, MakeApp, disk, keys, session, Goto
<1> QED BY <1>1, <1>2, <1>3, <1>4, <1>5, <1>6 DEF IInv

LEMMA RunForeverInv == IInv /\ RunForever => IInv'
<1> SUFFICES ASSUME IInv, RunForever PROVE IInv'
  OBVIOUS
<1>1. TypeOK'
  <2>1. /\ file' \in Credentials /\ creds' \in Credentials
        /\ okey' \in Keys \cup {NoKey} /\ given' \in Keys \cup {NoKey}
        /\ handed' \in [Users -> Keys \cup {NoKey, Unset}]
    BY DEF IInv, TypeOK, RunForever, disk, keys
  <2>2. /\ DOMAIN pc' = {"main", "oe"}
        /\ pc'["main"] \in {"load", "open", "write", "host", "wait", "pusher", "cdn",
                          "running", "stopping"}
        /\ pc'["oe"] \in {"off", "clear", "test", "make", "run", "sleep", "ended"}
                           \cup InForever
    BY DEF IInv, TypeOK, RunForever, InForever, Goto
  <2>3. /\ stop' \in BOOLEAN /\ closing' \in BOOLEAN /\ connected' \in BOOLEAN
        /\ torn' \in BOOLEAN /\ unsaved' \in BOOLEAN /\ rotated' \in BOOLEAN /\ trusted' \in BOOLEAN
    BY DEF IInv, TypeOK, RunForever, disk, keys, session
  <2>4. /\ backoff' \in 1..MaxBackoff /\ starts' \in 1..MaxStarts
        /\ drawn' \in 0..starts' /\ linked' \in 0..drawn' /\ late' \in 0..2
        /\ asked' \in {"nobody", "early", "missed", "main", "self"}
    BY BoundsAssumption DEF IInv, TypeOK, RunForever, disk, keys, session
  <2> QED BY <2>1, <2>2, <2>3, <2>4 DEF TypeOK
<1>2. Places'
  BY DEF IInv, Places, RunForever, disk, keys, Goto
<1>3. Identity'
  BY DEF IInv, Identity, RunForever, disk, keys, Goto
<1>4. KeysKept'
  BY DEF IInv, KeysKept, RunForever, disk, keys, Goto
<1>5. Trust'
  BY DEF IInv, Trust, RunForever, disk, keys, Goto
<1>6. Stopping'
  BY DEF IInv, Stopping, TypeOK, RunForever, disk, keys, Goto
<1> QED BY <1>1, <1>2, <1>3, <1>4, <1>5, <1>6 DEF IInv

LEMMA OpensInv == IInv /\ Opens => IInv'
<1> SUFFICES ASSUME IInv, Opens PROVE IInv'
  OBVIOUS
<1>1. TypeOK'
  <2>1. /\ file' \in Credentials /\ creds' \in Credentials
        /\ okey' \in Keys \cup {NoKey} /\ given' \in Keys \cup {NoKey}
        /\ handed' \in [Users -> Keys \cup {NoKey, Unset}]
    BY DEF IInv, TypeOK, Opens, disk, keys
  <2>2. /\ DOMAIN pc' = {"main", "oe"}
        /\ pc'["main"] \in {"load", "open", "write", "host", "wait", "pusher", "cdn",
                          "running", "stopping"}
        /\ pc'["oe"] \in {"off", "clear", "test", "make", "run", "sleep", "ended"}
                           \cup InForever
    BY DEF IInv, TypeOK, Opens, InForever, Goto
  <2>3. /\ stop' \in BOOLEAN /\ closing' \in BOOLEAN /\ connected' \in BOOLEAN
        /\ torn' \in BOOLEAN /\ unsaved' \in BOOLEAN /\ rotated' \in BOOLEAN /\ trusted' \in BOOLEAN
    BY DEF IInv, TypeOK, Opens, disk, keys, session
  <2>4. /\ backoff' \in 1..MaxBackoff /\ starts' \in 1..MaxStarts
        /\ drawn' \in 0..starts' /\ linked' \in 0..drawn' /\ late' \in 0..2
        /\ asked' \in {"nobody", "early", "missed", "main", "self"}
    BY BoundsAssumption DEF IInv, TypeOK, Opens, disk, keys, session
  <2> QED BY <2>1, <2>2, <2>3, <2>4 DEF TypeOK
<1>2. Places'
  BY DEF IInv, Places, Opens, disk, keys, Goto
<1>3. Identity'
  BY DEF IInv, Identity, Opens, disk, keys, Goto
<1>4. KeysKept'
  BY DEF IInv, KeysKept, Opens, disk, keys, Goto
<1>5. Trust'
  BY DEF IInv, Trust, Opens, disk, keys, Goto
<1>6. Stopping'
  BY DEF IInv, Stopping, Opens, disk, keys, Goto
<1> QED BY <1>1, <1>2, <1>3, <1>4, <1>5, <1>6 DEF IInv

LEMMA AckRefusedInv == IInv /\ AckRefused => IInv'
<1> SUFFICES ASSUME IInv, AckRefused PROVE IInv'
  OBVIOUS
<1>1. TypeOK'
  BY DEF IInv, TypeOK, AckRefused, StopBy, disk, keys, InForever
<1>2. Places'
  BY DEF IInv, Places, AckRefused, StopBy, disk, keys, InForever
<1>3. Identity'
  BY DEF IInv, Identity, AckRefused, StopBy, disk, keys, InForever
<1>4. KeysKept'
  BY DEF IInv, KeysKept, AckRefused, StopBy, disk, keys, InForever
<1>5. Trust'
  BY DEF IInv, Trust, AckRefused, StopBy, disk, keys, InForever
<1>6. Stopping'
  BY DEF IInv, Stopping, AckRefused, StopBy, disk, keys, InForever
<1> QED BY <1>1, <1>2, <1>3, <1>4, <1>5, <1>6 DEF IInv

LEMMA AckNoKeyInv == IInv /\ AckNoKey => IInv'
<1> SUFFICES ASSUME IInv, AckNoKey PROVE IInv'
  OBVIOUS
<1>1. TypeOK'
  BY DEF IInv, TypeOK, AckNoKey, disk
<1>2. Places'
  BY DEF IInv, Places, AckNoKey, disk
<1>3. Identity'
  BY DEF IInv, Identity, AckNoKey, disk
<1>4. KeysKept'
  BY DEF IInv, KeysKept, AckNoKey, disk
<1>5. Trust'
  BY DEF IInv, Trust, AckNoKey, disk
<1>6. Stopping'
  BY DEF IInv, Stopping, AckNoKey, disk
<1> QED BY <1>1, <1>2, <1>3, <1>4, <1>5, <1>6 DEF IInv

LEMMA EndsInv == IInv /\ Ends => IInv'
<1> SUFFICES ASSUME IInv, Ends PROVE IInv'
  OBVIOUS
<1>1. TypeOK'
  <2>1. /\ file' \in Credentials /\ creds' \in Credentials
        /\ okey' \in Keys \cup {NoKey} /\ given' \in Keys \cup {NoKey}
        /\ handed' \in [Users -> Keys \cup {NoKey, Unset}]
    BY DEF IInv, TypeOK, Ends, disk, keys
  <2>2. /\ DOMAIN pc' = {"main", "oe"}
        /\ pc'["main"] \in {"load", "open", "write", "host", "wait", "pusher", "cdn",
                          "running", "stopping"}
        /\ pc'["oe"] \in {"off", "clear", "test", "make", "run", "sleep", "ended"}
                           \cup InForever
    BY DEF IInv, TypeOK, Ends, InForever
  <2>3. /\ stop' \in BOOLEAN /\ closing' \in BOOLEAN /\ connected' \in BOOLEAN
        /\ torn' \in BOOLEAN /\ unsaved' \in BOOLEAN /\ rotated' \in BOOLEAN /\ trusted' \in BOOLEAN
    BY DEF IInv, TypeOK, Ends, disk, keys, session
  <2>4. /\ backoff' \in 1..MaxBackoff /\ starts' \in 1..MaxStarts
        /\ drawn' \in 0..starts' /\ linked' \in 0..drawn' /\ late' \in 0..2
        /\ asked' \in {"nobody", "early", "missed", "main", "self"}
    BY BoundsAssumption DEF IInv, TypeOK, Ends, disk, keys, session
  <2> QED BY <2>1, <2>2, <2>3, <2>4 DEF TypeOK
<1>2. Places'
  BY DEF IInv, Places, Ends, disk, keys
<1>3. Identity'
  BY DEF IInv, Identity, Ends, disk, keys
<1>4. KeysKept'
  BY DEF IInv, KeysKept, Ends, disk, keys
<1>5. Trust'
  BY DEF IInv, Trust, Ends, disk, keys
<1>6. Stopping'
  BY DEF IInv, Stopping, Ends, disk, keys
<1> QED BY <1>1, <1>2, <1>3, <1>4, <1>5, <1>6 DEF IInv

LEMMA RaisesInv == IInv /\ Raises => IInv'
<1> SUFFICES ASSUME IInv, Raises PROVE IInv'
  OBVIOUS
<1>1. TypeOK'
  <2>1. /\ file' \in Credentials /\ creds' \in Credentials
        /\ okey' \in Keys \cup {NoKey} /\ given' \in Keys \cup {NoKey}
        /\ handed' \in [Users -> Keys \cup {NoKey, Unset}]
    BY DEF IInv, TypeOK, Raises, disk, keys
  <2>2. /\ DOMAIN pc' = {"main", "oe"}
        /\ pc'["main"] \in {"load", "open", "write", "host", "wait", "pusher", "cdn",
                          "running", "stopping"}
        /\ pc'["oe"] \in {"off", "clear", "test", "make", "run", "sleep", "ended"}
                           \cup InForever
    BY DEF IInv, TypeOK, Raises, InForever
  <2>3. /\ stop' \in BOOLEAN /\ closing' \in BOOLEAN /\ connected' \in BOOLEAN
        /\ torn' \in BOOLEAN /\ unsaved' \in BOOLEAN /\ rotated' \in BOOLEAN /\ trusted' \in BOOLEAN
    BY DEF IInv, TypeOK, Raises, disk, keys, session
  <2>4. /\ backoff' \in 1..MaxBackoff /\ starts' \in 1..MaxStarts
        /\ drawn' \in 0..starts' /\ linked' \in 0..drawn' /\ late' \in 0..2
        /\ asked' \in {"nobody", "early", "missed", "main", "self"}
    BY BoundsAssumption DEF IInv, TypeOK, Raises, disk, keys, session
  <2> QED BY <2>1, <2>2, <2>3, <2>4 DEF TypeOK
<1>2. Places'
  BY DEF IInv, Places, Raises, disk, keys
<1>3. Identity'
  BY DEF IInv, Identity, Raises, disk, keys
<1>4. KeysKept'
  BY DEF IInv, KeysKept, Raises, disk, keys
<1>5. Trust'
  BY DEF IInv, Trust, Raises, disk, keys
<1>6. Stopping'
  BY DEF IInv, Stopping, Raises, disk, keys
<1> QED BY <1>1, <1>2, <1>3, <1>4, <1>5, <1>6 DEF IInv

LEMMA SleptInv == IInv /\ Slept => IInv'
<1> SUFFICES ASSUME IInv, Slept PROVE IInv'
  OBVIOUS
<1>1. TypeOK'
  <2>1. /\ file' \in Credentials /\ creds' \in Credentials
        /\ okey' \in Keys \cup {NoKey} /\ given' \in Keys \cup {NoKey}
        /\ handed' \in [Users -> Keys \cup {NoKey, Unset}]
    BY DEF IInv, TypeOK, Slept, disk, keys
  <2>2. /\ DOMAIN pc' = {"main", "oe"}
        /\ pc'["main"] \in {"load", "open", "write", "host", "wait", "pusher", "cdn",
                          "running", "stopping"}
        /\ pc'["oe"] \in {"off", "clear", "test", "make", "run", "sleep", "ended"}
                           \cup InForever
    BY DEF IInv, TypeOK, Slept, InForever, Goto
  <2>3. /\ stop' \in BOOLEAN /\ closing' \in BOOLEAN /\ connected' \in BOOLEAN
        /\ torn' \in BOOLEAN /\ unsaved' \in BOOLEAN /\ rotated' \in BOOLEAN /\ trusted' \in BOOLEAN
    BY DEF IInv, TypeOK, Slept, disk, keys, session
  <2>4. /\ backoff' \in 1..MaxBackoff /\ starts' \in 1..MaxStarts
        /\ drawn' \in 0..starts' /\ linked' \in 0..drawn' /\ late' \in 0..2
        /\ asked' \in {"nobody", "early", "missed", "main", "self"}
    BY BoundsAssumption DEF IInv, TypeOK, Slept, disk, keys, session
  <2> QED BY <2>1, <2>2, <2>3, <2>4 DEF TypeOK
<1>2. Places'
  BY DEF IInv, Places, Slept, disk, keys, Goto
<1>3. Identity'
  BY DEF IInv, Identity, Slept, disk, keys, Goto
<1>4. KeysKept'
  BY DEF IInv, KeysKept, Slept, disk, keys, Goto
<1>5. Trust'
  BY DEF IInv, Trust, Slept, disk, keys, Goto
<1>6. Stopping'
  BY DEF IInv, Stopping, Slept, disk, keys, Goto
<1> QED BY <1>1, <1>2, <1>3, <1>4, <1>5, <1>6 DEF IInv

LEMMA SaveFailsInv == IInv /\ SaveFails => IInv'
<1> SUFFICES ASSUME IInv, SaveFails PROVE IInv'
  OBVIOUS
<1>1. TypeOK'
  BY KeysAssumption, BoundsAssumption DEF IInv, TypeOK, SaveFails, Saved, Credentials,
     Nothing, Users, InForever
<1>2. Places'
  BY DEF IInv, Places, SaveFails, Saved
<1>3. Identity'
  BY DEF IInv, Identity, TypeOK, SaveFails, Saved
<1>4. KeysKept'
  BY DEF IInv, KeysKept, SaveFails, Saved
<1>5. Trust'
  BY DEF IInv, Trust, SaveFails, Saved
<1>6. Stopping'
  BY DEF IInv, Stopping, SaveFails, Saved
<1> QED BY <1>1, <1>2, <1>3, <1>4, <1>5, <1>6 DEF IInv

LEMMA ProcessEndsInv == IInv /\ ProcessEnds => IInv'
<1> SUFFICES ASSUME IInv, ProcessEnds PROVE IInv'
  OBVIOUS
<1>1. TypeOK'
  <2>1. /\ file' \in Credentials /\ creds' \in Credentials
        /\ okey' \in Keys \cup {NoKey} /\ given' \in Keys \cup {NoKey}
        /\ handed' \in [Users -> Keys \cup {NoKey, Unset}]
    BY DEF IInv, TypeOK, ProcessEnds, Fresh, disk, keys, Credentials, Nothing, Users
  <2>2. /\ DOMAIN pc' = {"main", "oe"}
        /\ pc'["main"] \in {"load", "open", "write", "host", "wait", "pusher", "cdn",
                          "running", "stopping"}
        /\ pc'["oe"] \in {"off", "clear", "test", "make", "run", "sleep", "ended"}
                           \cup InForever
    BY DEF IInv, TypeOK, ProcessEnds, Fresh, InForever
  <2>3. /\ stop' \in BOOLEAN /\ closing' \in BOOLEAN /\ connected' \in BOOLEAN
        /\ torn' \in BOOLEAN /\ unsaved' \in BOOLEAN /\ rotated' \in BOOLEAN /\ trusted' \in BOOLEAN
    BY DEF IInv, TypeOK, ProcessEnds, Fresh, disk, keys, session
  <2>4. /\ backoff' \in 1..MaxBackoff /\ starts' \in 1..MaxStarts
        /\ drawn' \in 0..starts' /\ linked' \in 0..drawn' /\ late' \in 0..2
        /\ asked' \in {"nobody", "early", "missed", "main", "self"}
    BY BoundsAssumption DEF IInv, TypeOK, ProcessEnds, Fresh, disk, keys, session
  <2> QED BY <2>1, <2>2, <2>3, <2>4 DEF TypeOK
<1>2. Places'
  BY DEF IInv, Places, TypeOK, ProcessEnds, Fresh, Nothing, Users
<1>3. Identity'
  BY DEF IInv, Identity, ProcessEnds, Fresh, Nothing, Users
<1>4. KeysKept'
  BY DEF IInv, KeysKept, ProcessEnds, Fresh, Nothing, Users
<1>5. Trust'
  BY DEF IInv, Trust, ProcessEnds, Fresh, Nothing, Users
<1>6. Stopping'
  BY DEF IInv, Stopping, ProcessEnds, Fresh, Nothing, Users
<1> QED BY <1>1, <1>2, <1>3, <1>4, <1>5, <1>6 DEF IInv

LEMMA OpenMainInv == IInv /\ OpenFile("main") => IInv'
<1> SUFFICES ASSUME IInv, OpenFile("main") PROVE IInv'
  OBVIOUS
<1>1. TypeOK'
  BY KeysAssumption, BoundsAssumption DEF IInv, TypeOK, OpenFile, keys, session, Goto,
     Nothing, Credentials, Users, InForever
<1>2. Places'
  BY DEF IInv, Places, TypeOK, OpenFile, keys, session, Goto, Nothing
<1>3. Identity'
  BY DEF IInv, Identity, OpenFile, keys, session, Goto, Nothing
<1>4. KeysKept'
  BY DEF IInv, KeysKept, Places, OpenFile, keys, session, Goto, Nothing
<1>5. Trust'
  BY DEF IInv, Trust, OpenFile, keys, session, Goto, Nothing
<1>6. Stopping'
  BY DEF IInv, Stopping, OpenFile, keys, session, Goto, Nothing
<1> QED BY <1>1, <1>2, <1>3, <1>4, <1>5, <1>6 DEF IInv

LEMMA OpenOeInv == IInv /\ OpenFile("oe") => IInv'
<1> SUFFICES ASSUME IInv, OpenFile("oe") PROVE IInv'
  OBVIOUS
<1>1. TypeOK'
  BY KeysAssumption, BoundsAssumption DEF IInv, TypeOK, OpenFile, keys, session, Goto,
     Nothing, Credentials, Users, InForever
<1>2. Places'
  BY DEF IInv, Places, TypeOK, OpenFile, keys, session, Goto, Nothing
<1>3. Identity'
  BY DEF IInv, Identity, TypeOK, OpenFile, keys, session, Goto, Nothing
<1>4. KeysKept'
  BY DEF IInv, KeysKept, OpenFile, keys, session, Goto, Nothing
<1>5. Trust'
  BY DEF IInv, Trust, OpenFile, keys, session, Goto, Nothing
<1>6. Stopping'
  BY DEF IInv, Stopping, OpenFile, keys, session, Goto, Nothing
<1> QED BY <1>1, <1>2, <1>3, <1>4, <1>5, <1>6 DEF IInv

LEMMA WriteMainInv == IInv /\ WriteFile("main") => IInv'
<1> SUFFICES ASSUME IInv, WriteFile("main") PROVE IInv'
  OBVIOUS
<1>1. TypeOK'
  <2>1. /\ file' \in Credentials /\ creds' \in Credentials
        /\ okey' \in Keys \cup {NoKey} /\ given' \in Keys \cup {NoKey}
        /\ handed' \in [Users -> Keys \cup {NoKey, Unset}]
    BY DEF IInv, TypeOK, WriteFile, Saved, disk, keys
  <2>2. /\ DOMAIN pc' = {"main", "oe"}
        /\ pc'["main"] \in {"load", "open", "write", "host", "wait", "pusher", "cdn",
                          "running", "stopping"}
        /\ pc'["oe"] \in {"off", "clear", "test", "make", "run", "sleep", "ended"}
                           \cup InForever
    BY DEF IInv, TypeOK, WriteFile, Saved, InForever
  <2>3. /\ stop' \in BOOLEAN /\ closing' \in BOOLEAN /\ connected' \in BOOLEAN
        /\ torn' \in BOOLEAN /\ unsaved' \in BOOLEAN /\ rotated' \in BOOLEAN /\ trusted' \in BOOLEAN
    BY DEF IInv, TypeOK, WriteFile, Saved, disk, keys, session
  <2>4. /\ backoff' \in 1..MaxBackoff /\ starts' \in 1..MaxStarts
        /\ drawn' \in 0..starts' /\ linked' \in 0..drawn' /\ late' \in 0..2
        /\ asked' \in {"nobody", "early", "missed", "main", "self"}
    BY BoundsAssumption DEF IInv, TypeOK, WriteFile, Saved, disk, keys, session, Places, Credentials
  <2> QED BY <2>1, <2>2, <2>3, <2>4 DEF TypeOK
<1>2. Places'
  BY DEF IInv, Places, WriteFile, Saved
<1>3. Identity'
  BY DEF IInv, Identity, TypeOK, WriteFile, Saved
<1>4. KeysKept'
  BY DEF IInv, KeysKept, WriteFile, Saved
<1>5. Trust'
  BY DEF IInv, Trust, TypeOK, WriteFile, Saved
<1>6. Stopping'
  BY DEF IInv, Stopping, WriteFile, Saved
<1> QED BY <1>1, <1>2, <1>3, <1>4, <1>5, <1>6 DEF IInv

LEMMA WriteOeInv == IInv /\ WriteFile("oe") => IInv'
<1> SUFFICES ASSUME IInv, WriteFile("oe") PROVE IInv'
  OBVIOUS
<1>1. TypeOK'
  <2>1. /\ file' \in Credentials /\ creds' \in Credentials
        /\ okey' \in Keys \cup {NoKey} /\ given' \in Keys \cup {NoKey}
        /\ handed' \in [Users -> Keys \cup {NoKey, Unset}]
    BY DEF IInv, TypeOK, WriteFile, Saved, disk, keys
  <2>2. /\ DOMAIN pc' = {"main", "oe"}
        /\ pc'["main"] \in {"load", "open", "write", "host", "wait", "pusher", "cdn",
                          "running", "stopping"}
        /\ pc'["oe"] \in {"off", "clear", "test", "make", "run", "sleep", "ended"}
                           \cup InForever
    BY DEF IInv, TypeOK, WriteFile, Saved, InForever
  <2>3. /\ stop' \in BOOLEAN /\ closing' \in BOOLEAN /\ connected' \in BOOLEAN
        /\ torn' \in BOOLEAN /\ unsaved' \in BOOLEAN /\ rotated' \in BOOLEAN /\ trusted' \in BOOLEAN
    BY DEF IInv, TypeOK, WriteFile, Saved, disk, keys, session
  <2>4. /\ backoff' \in 1..MaxBackoff /\ starts' \in 1..MaxStarts
        /\ drawn' \in 0..starts' /\ linked' \in 0..drawn' /\ late' \in 0..2
        /\ asked' \in {"nobody", "early", "missed", "main", "self"}
    BY BoundsAssumption DEF IInv, TypeOK, WriteFile, Saved, disk, keys, session, Places, Credentials
  <2> QED BY <2>1, <2>2, <2>3, <2>4 DEF TypeOK
<1>2. Places'
  BY DEF IInv, Places, WriteFile, Saved
<1>3. Identity'
  BY DEF IInv, Identity, Places, WriteFile, Saved
<1>4. KeysKept'
  BY DEF IInv, KeysKept, WriteFile, Saved
<1>5. Trust'
  BY DEF IInv, Trust, WriteFile, Saved
<1>6. Stopping'
  BY DEF IInv, Stopping, WriteFile, Saved
<1> QED BY <1>1, <1>2, <1>3, <1>4, <1>5, <1>6 DEF IInv

LEMMA HandPusherInv == IInv /\ HandOver("pusher", "cdn") => IInv'
<1> SUFFICES ASSUME IInv, HandOver("pusher", "cdn") PROVE IInv'
  OBVIOUS
<1>1. TypeOK'
  BY KeysAssumption, BoundsAssumption DEF IInv, TypeOK, HandOver, disk, session, Goto,
     Credentials, Nothing, Users, InForever
<1>2. Places'
  BY DEF IInv, Places, HandOver, disk, session, Goto
<1>3. Identity'
  BY DEF IInv, Identity, HandOver, disk, session, Goto
<1>4. KeysKept'
  BY DEF IInv, KeysKept, HandOver, disk, session, Goto
<1>5. Trust'
  BY DEF IInv, Trust, HandOver, disk, session, Goto
<1>6. Stopping'
  BY DEF IInv, Stopping, HandOver, disk, session, Goto
<1> QED BY <1>1, <1>2, <1>3, <1>4, <1>5, <1>6 DEF IInv

LEMMA HandCdnInv == IInv /\ HandOver("cdn", "running") => IInv'
<1> SUFFICES ASSUME IInv, HandOver("cdn", "running") PROVE IInv'
  OBVIOUS
<1>1. TypeOK'
  BY KeysAssumption, BoundsAssumption DEF IInv, TypeOK, HandOver, disk, session, Goto,
     Credentials, Nothing, Users, InForever
<1>2. Places'
  BY DEF IInv, Places, HandOver, disk, session, Goto
<1>3. Identity'
  BY DEF IInv, Identity, HandOver, disk, session, Goto
<1>4. KeysKept'
  BY DEF IInv, KeysKept, HandOver, disk, session, Goto
<1>5. Trust'
  BY DEF IInv, Trust, HandOver, disk, session, Goto
<1>6. Stopping'
  BY DEF IInv, Stopping, HandOver, disk, session, Goto
<1> QED BY <1>1, <1>2, <1>3, <1>4, <1>5, <1>6 DEF IInv

LEMMA AckKeyInv == ASSUME NEW k \in Keys PROVE IInv /\ AckKey(k) => IInv'
<1> SUFFICES ASSUME IInv, AckKey(k) PROVE IInv'
  OBVIOUS
<1>1. TypeOK'
  BY KeysAssumption, BoundsAssumption DEF IInv, TypeOK, AckKey, disk, Goto, Users,
     Credentials, Nothing, InForever
<1>2. Places'
  BY DEF IInv, Places, AckKey, disk, Goto, Users
<1>3. Identity'
  BY DEF IInv, Identity, AckKey, disk, Goto, Users
<1>4. KeysKept'
  BY KeysAssumption, BoundsAssumption DEF IInv, TypeOK, Places, Identity, KeysKept,
     Trust, Stopping, AckKey, Goto, disk, keys, session, Credentials, Nothing, Users,
     InForever
<1>5. Trust'
  BY DEF IInv, Trust, AckKey, disk, Goto, Users
<1>6. Stopping'
  BY DEF IInv, Stopping, AckKey, disk, Goto, Users
<1> QED BY <1>1, <1>2, <1>3, <1>4, <1>5, <1>6 DEF IInv

LEMMA IdleInv == IInv /\ UNCHANGED vars => IInv'
<1> SUFFICES ASSUME IInv, UNCHANGED vars PROVE IInv'
  OBVIOUS
<1>1. TypeOK'
  BY DEF IInv, TypeOK, vars, disk, keys, session
<1>2. Places'
  BY DEF IInv, Places, vars, disk, keys, session
<1>3. Identity'
  BY DEF IInv, Identity, vars, disk, keys, session
<1>4. KeysKept'
  BY DEF IInv, KeysKept, vars, disk, keys, session
<1>5. Trust'
  BY DEF IInv, Trust, vars, disk, keys, session
<1>6. Stopping'
  BY DEF IInv, Stopping, vars, disk, keys, session
<1> QED BY <1>1, <1>2, <1>3, <1>4, <1>5, <1>6 DEF IInv

LEMMA StepInv == IInv /\ [Next]_vars => IInv'
<1> SUFFICES ASSUME IInv, [Next]_vars PROVE IInv'
  OBVIOUS
<1>1. CASE UNCHANGED vars
  BY <1>1, IdleInv
<1>2. CASE Main
  BY <1>2, LoadInv, CreateInv, OpenMainInv, WriteMainInv, StartThreadInv, WaitedInv,
     HandPusherInv, HandCdnInv, ThreadGoneInv DEF Main, HandOvers
<1>3. CASE RunThread
  BY <1>3, ClearInv, TestInv, MakeAppInv, RunForeverInv, SleptInv, OpenOeInv, WriteOeInv,
     EndsInv DEF RunThread
<1>4. CASE Cloud
  BY <1>4, OpensInv, AckRefusedInv, AckNoKeyInv, AckKeyInv, EndsInv, RaisesInv DEF Cloud
<1> QED BY <1>1, <1>2, <1>3, <1>4, SaveFailsInv, ShutdownInv, ProcessEndsInv DEF Next

LEMMA Invariant == Spec => []IInv
BY InitInv, StepInv, PTL DEF Spec

-----------------------------------------------------------------------------
(* Types, the cap of the backoff among them. *)
THEOREM TypeCorrect == Spec => []TypeOK
<1>1. IInv => TypeOK
  BY DEF IInv
<1> QED BY <1>1, Invariant, PTL

(* A printer keeps its identity over any number of starts and kills, unless *)
(* a save was torn.                                                         *)
THEOREM IdentitySurvives == Spec => []IdentityKept
<1>1. IInv => IdentityKept
  <2> SUFFICES ASSUME IInv, creds # Nothing, linked # 0, ~torn PROVE creds.id = linked
    BY DEF IdentityKept
  <2>1. creds.id # 0
    <3> SUFFICES ASSUME creds.id = 0 PROVE FALSE
      OBVIOUS
    <3>1. creds \in Credentials /\ creds.key = NoKey
      BY DEF IInv, TypeOK, Places
    <3> QED BY <3>1 DEF Credentials, Nothing
  <2> QED BY <2>1 DEF IInv, Identity
<1> QED BY <1>1, Invariant, PTL

(* The pusher and the uploader send the key the cloud gave last, however    *)
(* the handshake and the wait of the main thread fall.                      *)
THEOREM KeyIsCurrent == Spec => []KeyCurrent
<1>1. IInv => KeyCurrent
  BY DEF IInv, KeysKept, KeyCurrent, Sent
<1> QED BY <1>1, Invariant, PTL

(* A key whose save worked is in the file. *)
THEOREM KeyPersists == Spec => []Persisted
<1>1. IInv => Persisted
  <2> SUFFICES ASSUME IInv, connected, pc["oe"] = "up", given # NoKey, ~unsaved
               PROVE  file = [creds EXCEPT !.key = given]
    BY DEF Persisted
  <2>1. file = creds /\ creds.key = given /\ creds \in Credentials
    BY DEF IInv, KeysKept, TypeOK
  <2> QED BY <2>1 DEF Credentials
<1> QED BY <1>1, Invariant, PTL

(* `connected` means that the present connection's challenge was answered. *)
THEOREM ConnectedIsTrusted == Spec => []ConnectedTrusted
<1>1. IInv => ConnectedTrusted
  BY DEF IInv, Trust, ConnectedTrusted
<1> QED BY <1>1, Invariant, PTL

(* After a stop() that was not lost no connection begins, after a missed    *)
(* one at most one does.                                                    *)
THEOREM StopIsFinal == Spec => []AfterStop
<1>1. IInv => AfterStop
  BY DEF IInv, Stopping, AfterStop
<1> QED BY <1>1, Invariant, PTL
=============================================================================
