------------------------ MODULE BridgeServer_proofs ------------------------
(***************************************************************************)
(* Safety of BridgeServer for any clients and any number of reports, and   *)
(* its refinement of StatusFeed.  The inductive invariant says where the   *)
(* three threads can be at once (Places), that what is applied never lies  *)
(* behind what was applied (Ordered), who may still have to derive the     *)
(* webhooks (Hooks), that the last thing queued for a client is the status *)
(* of the bridge (Synced), and that a client's queue is the end of the     *)
(* published statuses (Queued).                                            *)
(***************************************************************************)
EXTENDS BridgeServer, FiniteSetTheorems, TLAPS

Serving  == {"sleep", "running", "stopped"}
Starting == Updating \cup {"connect", "hook", "ask_info", "wait_info", "ask_temp",
                           "wait_temp", "serve"}

Places ==
  /\ pc["mqtt"] \in Updating \cup {"idle", "cast", "queue"}
  /\ pc["main"] \in Starting \cup Serving
  /\ server = "down" <=> pc["main"] \in Starting
  /\ "main" \in callers <=> pc["main"] \in {"wait_info", "wait_temp"}
  /\ "loop" \in callers <=> loop = "files"
  /\ open # {} \/ loop # None => server = "up"
  /\ loop \in Clients => loop \in open
  /\ loop \notin Clients => part = Unread
  /\ answer # None => answer.kind = asked
  /\ \A w \in {"main", "mqtt"} :
       /\ pc[w] \in Updating => rep[w] \in Report
       /\ pc[w] \in {"stats", "read", "hooks"} => rep[w].kind = "info"

Delivered == sent - Len(wire)   \* number of the report delivered last

Ordered ==
  /\ Len(wire) <= sent
  /\ \A i \in 1 .. Len(wire) : wire[i].n = Delivered + i
  /\ answer # None => answer.n <= Delivered
  /\ \A w \in {"main", "mqtt"} :
       /\ pc[w] \in Updating => rep[w].n <= Delivered
       /\ reg[w] <= Delivered
  /\ pc["mqtt"] \in Updating => rep["mqtt"].n = Delivered
  /\ \A p \in Parts : obj[p] <= Delivered

Agree == obj["hooks"] = obj["stats"]

Hooks ==
  ~raced =>
    /\ ~(pc["main"] \in Updating /\ pc["mqtt"] \in Updating)
    /\ pc["main"] \notin Updating /\ pc["mqtt"] \notin Updating => Agree
    /\ \A w \in {"main", "mqtt"} :
         /\ pc[w] = "temps" /\ rep[w].kind # "info" => Agree
         /\ pc[w] = "hooks" => reg[w] = obj["stats"]

Synced ==
  \A c \in open : pc["mqtt"] = "idle" =>
    /\ sends[c] # <<>> => sends[c][Len(sends[c])] = obj
    /\ sends[c] = <<>> /\ view[c] # None => view[c] = obj
    /\ sends[c] = <<>> /\ loop = c => \A p \in Parts : part[p] \in {None, obj[p]}

Queued ==
  /\ \A c \in Clients : c \notin open => sends[c] = <<>> /\ view[c] = None /\ noted[c] = None
  /\ \A c \in Clients :
       /\ Len(sends[c]) <= Len(published)
       /\ \A i \in 1 .. Len(sends[c]) :
            sends[c][i] = published[Len(published) - Len(sends[c]) + i]

IInv == TypeOK /\ Places /\ Ordered /\ Hooks /\ Synced /\ Queued

-----------------------------------------------------------------------------
(* What taking the head of a sequence, or appending to it, leaves. *)
LEMMA TailFacts ==
  ASSUME NEW S, NEW s \in Seq(S), s # <<>>
  PROVE  /\ Head(s) \in S /\ Head(s) = s[1]
         /\ Tail(s) \in Seq(S) /\ Len(s) \in Nat \ {0} /\ Len(Tail(s)) = Len(s) - 1
         /\ \A i \in 1 .. Len(Tail(s)) : Tail(s)[i] = s[i + 1]
OBVIOUS

LEMMA AppendFacts ==
  ASSUME NEW S, NEW s \in Seq(S), NEW e \in S
  PROVE  /\ Append(s, e) \in Seq(S) /\ Len(Append(s, e)) = Len(s) + 1 /\ Len(s) \in Nat
         /\ \A i \in 1 .. Len(s) : Append(s, e)[i] = s[i]
         /\ Append(s, e)[Len(s) + 1] = e
OBVIOUS

(* Where an item of a queue is among the published statuses, after one more. *)
LEMMA Shift ==
  ASSUME NEW p \in Nat, NEW s \in Nat, s <= p, NEW i \in 1 .. s + 1
  PROVE  /\ (p + 1) - (s + 1) + i = p - s + i
         /\ i \in 1 .. s => p - s + i \in 1 .. p
         /\ i \notin 1 .. s => i = s + 1 /\ p - s + i = p + 1
OBVIOUS

(* Clients that are gone leave nothing behind. *)
LEMMA GoneQueued ==
  ASSUME IInv, NEW cs, Gone(cs), UNCHANGED published
  PROVE  Queued'
<1> SUFFICES ASSUME NEW d \in Clients
             PROVE  /\ d \notin open' => sends'[d] = <<>> /\ view'[d] = None /\ noted'[d] = None
                    /\ Len(sends'[d]) <= Len(published')
                    /\ \A i \in 1 .. Len(sends'[d]) :
                         sends'[d][i] = published'[Len(published') - Len(sends'[d]) + i]
  BY DEF Queued
<1>1. CASE d \in cs
  <2>1. sends'[d] = <<>> /\ view'[d] = None /\ noted'[d] = None
    BY <1>1 DEF Gone
  <2>2. Len(sends'[d]) = 0 /\ Len(published') \in Nat
    BY <2>1 DEF IInv, TypeOK
  <2> QED BY <2>1, <2>2
<1>2. CASE d \notin cs
  BY <1>2 DEF IInv, Queued, Gone
<1> QED BY <1>1, <1>2

LEMMA PrinterReportsInv == IInv /\ PrinterReports => IInv'
<1> SUFFICES ASSUME IInv, PrinterReports PROVE IInv'
  OBVIOUS
<1>1. TypeOK'
  BY AppendFacts, NoneAssumption, BoundsAssumption DEF IInv, TypeOK, Places,
     PrinterReports, call, writers, clients, serving, Report, Status, Unread, Updating,
     Points, Starting, Serving
<1>2. Places'
  BY DEF IInv, Places, PrinterReports, call, writers, clients, serving
<1>3. Ordered'
  BY AppendFacts, NoneAssumption DEF IInv, Ordered, TypeOK, PrinterReports, call,
     writers, clients, serving, Delivered, Updating, Report, Status, Unread, Points
<1>4. Hooks'
  BY AppendFacts, NoneAssumption DEF IInv, Hooks, PrinterReports, call, writers,
     clients, serving, Agree, Updating
<1>5. Synced'
  BY DEF IInv, Synced, PrinterReports, call, writers, clients, serving
<1>6. Queued'
  BY DEF IInv, Queued, PrinterReports, call, writers, clients, serving
<1> QED BY <1>1, <1>2, <1>3, <1>4, <1>5, <1>6 DEF IInv

LEMMA ConnectInv == IInv /\ Connect => IInv'
<1> SUFFICES ASSUME IInv, Connect PROVE IInv'
  OBVIOUS
<1>1. TypeOK'
  BY NoneAssumption, BoundsAssumption DEF IInv, TypeOK, Connect, printer, call, clients,
     serving, Goto, Report, Status, Unread, Updating, Points
<1>2. Places'
  BY NoneAssumption DEF IInv, Places, Connect, printer, call, clients, serving, Goto,
     Updating, Starting, Serving, Report, Unread
<1>3. Ordered'
  BY NoneAssumption DEF IInv, Ordered, Connect, printer, call, clients, serving, Goto,
     Delivered, Updating, Report
<1>4. Hooks'
  BY NoneAssumption DEF IInv, Hooks, TypeOK, Places, Connect, printer, call, clients,
     serving, Goto, Agree, Updating, Report, Status, Unread, Points, Starting, Serving
<1>5. Synced'
  BY DEF IInv, Synced, Connect, printer, call, clients, serving, Goto
<1>6. Queued'
  BY DEF IInv, Queued, Connect, printer, call, clients, serving, Goto
<1> QED BY <1>1, <1>2, <1>3, <1>4, <1>5, <1>6 DEF IInv

LEMMA SetOnReportInv == IInv /\ SetOnReport => IInv'
<1> SUFFICES ASSUME IInv, SetOnReport PROVE IInv'
  OBVIOUS
<1>1. TypeOK'
  BY NoneAssumption, BoundsAssumption DEF IInv, TypeOK, SetOnReport, printer, clients,
     serving, Goto, Report, Status, Unread, Updating, Points
<1>2. Places'
  BY NoneAssumption DEF IInv, Places, SetOnReport, printer, clients, serving, Goto,
     Updating, Starting, Serving, Report, Unread
<1>3. Ordered'
  BY NoneAssumption DEF IInv, Ordered, SetOnReport, printer, clients, serving, Goto,
     Delivered, Updating, Report
<1>4. Hooks'
  BY NoneAssumption DEF IInv, Hooks, TypeOK, Places, SetOnReport, printer, clients,
     serving, Goto, Agree, Updating, Report, Status, Unread, Points, Starting, Serving
<1>5. Synced'
  BY DEF IInv, Synced, SetOnReport, printer, clients, serving, Goto
<1>6. Queued'
  BY DEF IInv, Queued, SetOnReport, printer, clients, serving, Goto
<1> QED BY <1>1, <1>2, <1>3, <1>4, <1>5, <1>6 DEF IInv

LEMMA AskInfoInv == IInv /\ AskInfo => IInv'
<1> SUFFICES ASSUME IInv, AskInfo PROVE IInv'
  OBVIOUS
<1>1. TypeOK'
  BY NoneAssumption, BoundsAssumption DEF IInv, TypeOK, AskInfo, Ask, printer, clients,
     serving, Goto, Report, Status, Unread, Updating, Points
<1>2. Places'
  BY NoneAssumption DEF IInv, Places, TypeOK, AskInfo, Ask, printer, clients, serving,
     Goto, Updating, Starting, Serving, Report, Unread, Status, Points
<1>3. Ordered'
  BY NoneAssumption DEF IInv, Ordered, AskInfo, Ask, printer, clients, serving, Goto,
     Delivered, Updating, Report
<1>4. Hooks'
  BY NoneAssumption DEF IInv, Hooks, TypeOK, Places, AskInfo, Ask, printer, clients,
     serving, Goto, Agree, Updating, Report, Status, Unread, Points, Starting, Serving
<1>5. Synced'
  BY DEF IInv, Synced, AskInfo, Ask, printer, clients, serving, Goto
<1>6. Queued'
  BY DEF IInv, Queued, AskInfo, Ask, printer, clients, serving, Goto
<1> QED BY <1>1, <1>2, <1>3, <1>4, <1>5, <1>6 DEF IInv

LEMMA InfoAnsweredInv == IInv /\ InfoAnswered => IInv'
<1> SUFFICES ASSUME IInv, InfoAnswered PROVE IInv'
  OBVIOUS
<1>1. TypeOK'
  BY NoneAssumption, BoundsAssumption DEF IInv, TypeOK, InfoAnswered, Answered,
     CallOver, printer, clients, serving, Goto, Report, Status, Unread, Updating, Points
<1>2. Places'
  BY NoneAssumption DEF IInv, Places, TypeOK, InfoAnswered, Answered, CallOver, printer,
     clients, serving, Goto, Updating, Starting, Serving, Report, Unread, Status, Points
<1>3. Ordered'
  BY NoneAssumption DEF IInv, Ordered, TypeOK, InfoAnswered, Answered, CallOver,
     printer, clients, serving, Goto, Delivered, Updating, Report, Status, Unread,
     Points
<1>4. Hooks'
  BY NoneAssumption DEF IInv, Hooks, TypeOK, Places, InfoAnswered, Answered, CallOver,
     printer, clients, serving, Goto, Agree, Updating, Report, Status, Unread, Points,
     Starting, Serving
<1>5. Synced'
  BY DEF IInv, Synced, InfoAnswered, Answered, CallOver, printer, clients, serving, Goto
<1>6. Queued'
  BY DEF IInv, Queued, InfoAnswered, Answered, CallOver, printer, clients, serving, Goto
<1> QED BY <1>1, <1>2, <1>3, <1>4, <1>5, <1>6 DEF IInv

LEMMA AskTempInv == IInv /\ AskTemp => IInv'
<1> SUFFICES ASSUME IInv, AskTemp PROVE IInv'
  OBVIOUS
<1>1. TypeOK'
  BY NoneAssumption, BoundsAssumption DEF IInv, TypeOK, AskTemp, Ask, printer, clients,
     serving, Goto, Report, Status, Unread, Updating, Points
<1>2. Places'
  BY NoneAssumption DEF IInv, Places, TypeOK, AskTemp, Ask, printer, clients, serving,
     Goto, Updating, Starting, Serving, Report, Unread, Status, Points
<1>3. Ordered'
  BY NoneAssumption DEF IInv, Ordered, AskTemp, Ask, printer, clients, serving, Goto,
     Delivered, Updating, Report
<1>4. Hooks'
  BY NoneAssumption DEF IInv, Hooks, TypeOK, Places, AskTemp, Ask, printer, clients,
     serving, Goto, Agree, Updating, Report, Status, Unread, Points, Starting, Serving
<1>5. Synced'
  BY DEF IInv, Synced, AskTemp, Ask, printer, clients, serving, Goto
<1>6. Queued'
  BY DEF IInv, Queued, AskTemp, Ask, printer, clients, serving, Goto
<1> QED BY <1>1, <1>2, <1>3, <1>4, <1>5, <1>6 DEF IInv

LEMMA TempAnsweredInv == IInv /\ TempAnswered => IInv'
<1> SUFFICES ASSUME IInv, TempAnswered PROVE IInv'
  OBVIOUS
<1>1. TypeOK'
  BY NoneAssumption, BoundsAssumption DEF IInv, TypeOK, TempAnswered, Answered,
     CallOver, printer, clients, serving, Goto, Report, Status, Unread, Updating, Points
<1>2. Places'
  BY NoneAssumption DEF IInv, Places, TypeOK, TempAnswered, Answered, CallOver, printer,
     clients, serving, Goto, Updating, Starting, Serving, Report, Unread, Status, Points
<1>3. Ordered'
  BY NoneAssumption DEF IInv, Ordered, TypeOK, TempAnswered, Answered, CallOver,
     printer, clients, serving, Goto, Delivered, Updating, Report, Status, Unread,
     Points
<1>4. Hooks'
  BY NoneAssumption DEF IInv, Hooks, TypeOK, Places, TempAnswered, Answered, CallOver,
     printer, clients, serving, Goto, Agree, Updating, Report, Status, Unread, Points,
     Starting, Serving
<1>5. Synced'
  BY DEF IInv, Synced, TempAnswered, Answered, CallOver, printer, clients, serving, Goto
<1>6. Queued'
  BY DEF IInv, Queued, TempAnswered, Answered, CallOver, printer, clients, serving, Goto
<1> QED BY <1>1, <1>2, <1>3, <1>4, <1>5, <1>6 DEF IInv

LEMMA UnansweredInv == IInv /\ Unanswered => IInv'
<1> SUFFICES ASSUME IInv, Unanswered PROVE IInv'
  OBVIOUS
<1>1. TypeOK'
  BY NoneAssumption, BoundsAssumption DEF IInv, TypeOK, Unanswered, CallOver, printer,
     clients, serving, Goto, Report, Status, Unread, Updating, Points
<1>2. Places'
  BY NoneAssumption DEF IInv, Places, TypeOK, Unanswered, CallOver, printer, clients,
     serving, Goto, Updating, Starting, Serving, Report, Unread, Status, Points
<1>3. Ordered'
  BY NoneAssumption DEF IInv, Ordered, Unanswered, CallOver, printer, clients, serving,
     Goto, Delivered, Updating, Report
<1>4. Hooks'
  BY NoneAssumption DEF IInv, Hooks, TypeOK, Places, Unanswered, CallOver, printer,
     clients, serving, Goto, Agree, Updating, Report, Status, Unread, Points, Starting,
     Serving
<1>5. Synced'
  BY DEF IInv, Synced, Unanswered, CallOver, printer, clients, serving, Goto
<1>6. Queued'
  BY DEF IInv, Queued, Unanswered, CallOver, printer, clients, serving, Goto
<1> QED BY <1>1, <1>2, <1>3, <1>4, <1>5, <1>6 DEF IInv

LEMMA WriteStatsInv == ASSUME NEW w \in {"main", "mqtt"} PROVE IInv /\ WriteStats(w) => IInv'
<1> SUFFICES ASSUME IInv, WriteStats(w) PROVE IInv'
  OBVIOUS
<1>1. TypeOK'
  <2>1. rep[w].n \in 1 .. MaxReports /\ UNCHANGED <<printer, call, rep, reg, clients, serving>>
        /\ UNCHANGED published
    BY DEF IInv, Places, WriteStats, Goto, Updating, Report
  <2>2. obj' \in Status
    <3>1. obj \in Status /\ obj' = [obj EXCEPT !["stats"] = rep[w].n]
      BY DEF IInv, TypeOK, WriteStats, Write
    <3>2. rep[w].n \in 0 .. MaxReports
      BY <2>1
    <3> QED BY <3>1, <3>2 DEF Status
  <2>3. pc' \in [{"main", "mqtt"} -> Points] /\ raced' \in BOOLEAN
    BY DEF IInv, TypeOK, WriteStats, Goto, Points, Updating
  <2> QED BY <2>1, <2>2, <2>3 DEF IInv, TypeOK, printer, call, clients, serving
<1>2. Places'
  BY NoneAssumption DEF IInv, Places, WriteStats, Write, printer, call, clients,
     serving, Goto, Updating, Starting, Serving, Report, Unread
<1>3. Ordered'
  BY NoneAssumption DEF IInv, Ordered, WriteStats, Write, printer, call, clients,
     serving, Goto, Delivered, Updating, Report
<1>4. Hooks'
  BY NoneAssumption DEF IInv, Hooks, TypeOK, Places, WriteStats, Write, printer, call,
     clients, serving, Goto, Agree, Updating, Report, Status, Unread, Points, Starting,
     Serving
<1>5. Synced'
  BY NoneAssumption DEF IInv, Synced, Places, WriteStats, Write, printer, call, clients,
     serving, Goto, Unread, Updating, Starting, Serving, Report
<1>6. Queued'
  BY DEF IInv, Queued, WriteStats, Write, printer, call, clients, serving, Goto
<1> QED BY <1>1, <1>2, <1>3, <1>4, <1>5, <1>6 DEF IInv

LEMMA WriteTempsInv == ASSUME NEW w \in {"main", "mqtt"} PROVE IInv /\ WriteTemps(w) => IInv'
<1> SUFFICES ASSUME IInv, WriteTemps(w) PROVE IInv'
  OBVIOUS
<1>1. TypeOK'
  <2>1. rep[w].n \in 1 .. MaxReports /\ UNCHANGED <<printer, call, rep, reg, clients, serving>>
        /\ UNCHANGED published
    BY DEF IInv, Places, WriteTemps, Goto, Updating, Report
  <2>2. obj' \in Status
    <3>1. obj \in Status /\ obj' = [obj EXCEPT !["temps"] = rep[w].n]
      BY DEF IInv, TypeOK, WriteTemps, Write
    <3>2. rep[w].n \in 0 .. MaxReports
      BY <2>1
    <3> QED BY <3>1, <3>2 DEF Status
  <2>3. pc' \in [{"main", "mqtt"} -> Points] /\ raced' \in BOOLEAN
    <3>1. raced' \in BOOLEAN /\ \E to \in Points : pc' = [pc EXCEPT ![w] = to]
      BY DEF IInv, TypeOK, WriteTemps, AfterUpdate, Goto, Points, Updating
    <3> QED BY <3>1 DEF IInv, TypeOK
  <2> QED BY <2>1, <2>2, <2>3 DEF IInv, TypeOK, printer, call, clients, serving
<1>2. Places'
  BY NoneAssumption DEF IInv, Places, WriteTemps, Write, AfterUpdate, printer, call,
     clients, serving, Goto, Updating, Starting, Serving, Report, Unread
<1>3. Ordered'
  BY NoneAssumption DEF IInv, Ordered, WriteTemps, Write, AfterUpdate, printer, call,
     clients, serving, Goto, Delivered, Updating, Report
<1>4. Hooks'
  BY NoneAssumption DEF IInv, Hooks, TypeOK, Places, WriteTemps, Write, AfterUpdate,
     printer, call, clients, serving, Goto, Agree, Updating, Report, Status, Unread,
     Points, Starting, Serving
<1>5. Synced'
  BY NoneAssumption DEF IInv, Synced, Places, WriteTemps, Write, AfterUpdate, printer,
     call, clients, serving, Goto, Unread, Updating, Starting, Serving, Report
<1>6. Queued'
  BY DEF IInv, Queued, WriteTemps, Write, AfterUpdate, printer, call, clients, serving,
     Goto
<1> QED BY <1>1, <1>2, <1>3, <1>4, <1>5, <1>6 DEF IInv

LEMMA ReadStatsInv == ASSUME NEW w \in {"main", "mqtt"} PROVE IInv /\ ReadStats(w) => IInv'
<1> SUFFICES ASSUME IInv, ReadStats(w) PROVE IInv'
  OBVIOUS
<1>1. TypeOK'
  <2>1. obj["stats"] \in 0 .. MaxReports
    BY DEF IInv, TypeOK, Status, Parts
  <2>2. reg' \in [{"main", "mqtt"} -> 0 .. MaxReports]
    BY <2>1 DEF IInv, TypeOK, ReadStats
  <2>3. pc' \in [{"main", "mqtt"} -> Points] /\ raced' \in BOOLEAN
    BY DEF IInv, TypeOK, ReadStats, Goto, Points, Updating
  <2> QED BY <2>2, <2>3 DEF IInv, TypeOK, ReadStats, printer, call, clients, serving
<1>2. Places'
  BY NoneAssumption DEF IInv, Places, ReadStats, printer, call, clients, serving, Goto,
     Updating, Starting, Serving, Report, Unread
<1>3. Ordered'
  <2>1. obj["stats"] <= Delivered /\ reg' = [reg EXCEPT ![w] = obj["stats"]]
    BY DEF IInv, Ordered, ReadStats, Parts
  <2>2. \A v \in {"main", "mqtt"} : reg'[v] <= Delivered
    BY <2>1 DEF IInv, TypeOK, Ordered
  <2>3. \A v \in {"main", "mqtt"} : pc'[v] \in Updating => pc[v] \in Updating
    BY DEF IInv, TypeOK, ReadStats, Goto, Updating
  <2> QED BY <2>2, <2>3 DEF IInv, Ordered, ReadStats, Delivered, printer, call
<1>4. Hooks'
  BY NoneAssumption DEF IInv, Hooks, TypeOK, Places, ReadStats, printer, call, clients,
     serving, Goto, Agree, Updating, Report, Status, Unread, Points, Starting, Serving
<1>5. Synced'
  BY DEF IInv, Synced, ReadStats, printer, call, clients, serving, Goto
<1>6. Queued'
  BY DEF IInv, Queued, ReadStats, printer, call, clients, serving, Goto
<1> QED BY <1>1, <1>2, <1>3, <1>4, <1>5, <1>6 DEF IInv

LEMMA WriteHooksInv == ASSUME NEW w \in {"main", "mqtt"} PROVE IInv /\ WriteHooks(w) => IInv'
<1> SUFFICES ASSUME IInv, WriteHooks(w) PROVE IInv'
  OBVIOUS
<1>1. TypeOK'
  <2>1. reg[w] \in 0 .. MaxReports /\ UNCHANGED <<printer, call, rep, reg, clients, serving>>
        /\ UNCHANGED published
    BY DEF IInv, TypeOK, WriteHooks
  <2>2. obj' \in Status
    <3>1. obj \in Status /\ obj' = [obj EXCEPT !["hooks"] = reg[w]]
      BY DEF IInv, TypeOK, WriteHooks, Write
    <3> QED BY <2>1, <3>1 DEF Status
  <2>3. pc' \in [{"main", "mqtt"} -> Points] /\ raced' \in BOOLEAN
    <3>1. raced' \in BOOLEAN /\ \E to \in Points : pc' = [pc EXCEPT ![w] = to]
      BY DEF IInv, TypeOK, WriteHooks, AfterUpdate, Goto, Points, Updating
    <3> QED BY <3>1 DEF IInv, TypeOK
  <2> QED BY <2>1, <2>2, <2>3 DEF IInv, TypeOK, printer, call, clients, serving
<1>2. Places'
  BY NoneAssumption DEF IInv, Places, WriteHooks, Write, AfterUpdate, printer, call,
     clients, serving, Goto, Updating, Starting, Serving, Report, Unread
<1>3. Ordered'
  BY NoneAssumption DEF IInv, Ordered, WriteHooks, Write, AfterUpdate, printer, call,
     clients, serving, Goto, Delivered, Updating, Report
<1>4. Hooks'
  <2> SUFFICES ASSUME ~raced' PROVE Hooks'
    BY DEF Hooks
  <2>1. ~raced /\ pc[w] = "hooks" /\ reg[w] = obj["stats"] /\ UNCHANGED <<rep, reg>>
    BY DEF IInv, Hooks, WriteHooks, Goto
  <2>2. obj' = [obj EXCEPT !["hooks"] = reg[w]] /\ obj \in Status
    BY DEF IInv, TypeOK, WriteHooks, Write
  <2>3. Agree' /\ obj'["stats"] = obj["stats"]
    BY <2>1, <2>2 DEF Agree, Status, Parts
  <2>4. \A v \in {"main", "mqtt"} : pc'[v] = IF v = w THEN AfterUpdate(w) ELSE pc[v]
    BY DEF IInv, TypeOK, WriteHooks, Goto
  <2>5. AfterUpdate(w) \notin Updating
    BY DEF AfterUpdate, Updating
  <2> QED BY <2>1, <2>3, <2>4, <2>5 DEF IInv, Hooks, Updating
<1>5. Synced'
  BY NoneAssumption DEF IInv, Synced, Places, WriteHooks, Write, AfterUpdate, printer,
     call, clients, serving, Goto, Unread, Updating, Starting, Serving, Report
<1>6. Queued'
  BY DEF IInv, Queued, WriteHooks, Write, AfterUpdate, printer, call, clients, serving,
     Goto
<1> QED BY <1>1, <1>2, <1>3, <1>4, <1>5, <1>6 DEF IInv

LEMMA StartServerInv == IInv /\ StartServer => IInv'
<1> SUFFICES ASSUME IInv, StartServer PROVE IInv'
  OBVIOUS
<1>1. TypeOK'
  BY NoneAssumption, BoundsAssumption DEF IInv, TypeOK, StartServer, printer, call,
     clients, Goto, Report, Status, Unread, Updating, Points
<1>2. Places'
  BY NoneAssumption DEF IInv, Places, TypeOK, StartServer, printer, call, clients, Goto,
     Updating, Starting, Serving, Report, Unread, Status, Points
<1>3. Ordered'
  BY NoneAssumption DEF IInv, Ordered, StartServer, printer, call, clients, Goto,
     Delivered, Updating, Report
<1>4. Hooks'
  BY NoneAssumption DEF IInv, Hooks, TypeOK, Places, StartServer, printer, call,
     clients, Goto, Agree, Updating, Report, Status, Unread, Points, Starting, Serving
<1>5. Synced'
  BY DEF IInv, Synced, StartServer, printer, call, clients, Goto
<1>6. Queued'
  BY DEF IInv, Queued, StartServer, printer, call, clients, Goto
<1> QED BY <1>1, <1>2, <1>3, <1>4, <1>5, <1>6 DEF IInv

LEMMA StartReturnsInv == IInv /\ StartReturns => IInv'
<1> SUFFICES ASSUME IInv, StartReturns PROVE IInv'
  OBVIOUS
<1>1. TypeOK'
  BY NoneAssumption, BoundsAssumption DEF IInv, TypeOK, StartReturns, printer, call,
     clients, serving, Goto, Report, Status, Unread, Updating, Points
<1>2. Places'
  BY NoneAssumption DEF IInv, Places, StartReturns, printer, call, clients, serving,
     Goto, Updating, Starting, Serving, Report, Unread
<1>3. Ordered'
  BY NoneAssumption DEF IInv, Ordered, StartReturns, printer, call, clients, serving,
     Goto, Delivered, Updating, Report
<1>4. Hooks'
  BY NoneAssumption DEF IInv, Hooks, TypeOK, Places, StartReturns, printer, call,
     clients, serving, Goto, Agree, Updating, Report, Status, Unread, Points, Starting,
     Serving
<1>5. Synced'
  BY DEF IInv, Synced, StartReturns, printer, call, clients, serving, Goto
<1>6. Queued'
  BY DEF IInv, Queued, StartReturns, printer, call, clients, serving, Goto
<1> QED BY <1>1, <1>2, <1>3, <1>4, <1>5, <1>6 DEF IInv

LEMMA StopInv == IInv /\ Stop => IInv'
<1> SUFFICES ASSUME IInv, Stop PROVE IInv'
  OBVIOUS
<1>1. TypeOK'
  BY NoneAssumption, BoundsAssumption DEF IInv, TypeOK, Stop, printer, call, clients,
     serving, Goto, Report, Status, Unread, Updating, Points
<1>2. Places'
  BY NoneAssumption DEF IInv, Places, Stop, printer, call, clients, serving, Goto,
     Updating, Starting, Serving, Report, Unread
<1>3. Ordered'
  BY NoneAssumption DEF IInv, Ordered, Stop, printer, call, clients, serving, Goto,
     Delivered, Updating, Report
<1>4. Hooks'
  BY NoneAssumption DEF IInv, Hooks, TypeOK, Places, Stop, printer, call, clients,
     serving, Goto, Agree, Updating, Report, Status, Unread, Points, Starting, Serving
<1>5. Synced'
  BY DEF IInv, Synced, Stop, printer, call, clients, serving, Goto
<1>6. Queued'
  BY DEF IInv, Queued, Stop, printer, call, clients, serving, Goto
<1> QED BY <1>1, <1>2, <1>3, <1>4, <1>5, <1>6 DEF IInv

LEMMA BindInv == IInv /\ Bind => IInv'
<1> SUFFICES ASSUME IInv, Bind PROVE IInv'
  OBVIOUS
<1>1. TypeOK'
  BY DEF IInv, TypeOK, Bind, printer, call, writers, clients
<1>2. Places'
  BY DEF IInv, Places, Bind, printer, call, writers, clients
<1>3. Ordered'
  BY NoneAssumption DEF IInv, Ordered, Bind, printer, call, writers, clients, Delivered,
     Updating, Report
<1>4. Hooks'
  BY NoneAssumption DEF IInv, Hooks, Bind, printer, call, writers, clients, Agree,
     Updating
<1>5. Synced'
  BY DEF IInv, Synced, Bind, printer, call, writers, clients
<1>6. Queued'
  BY DEF IInv, Queued, Bind, printer, call, writers, clients
<1> QED BY <1>1, <1>2, <1>3, <1>4, <1>5, <1>6 DEF IInv

LEMMA CleanUpInv == IInv /\ CleanUp => IInv'
<1> SUFFICES ASSUME IInv, CleanUp PROVE IInv'
  OBVIOUS
<1>1. TypeOK'
  BY DEF IInv, TypeOK, CleanUp, Gone, printer, call, writers
<1>2. Places'
  BY NoneAssumption DEF IInv, Places, CleanUp, Gone, printer, call, writers, Updating,
     Starting, Serving, Report, Unread
<1>3. Ordered'
  BY NoneAssumption DEF IInv, Ordered, CleanUp, Gone, printer, call, writers, Delivered,
     Updating, Report
<1>4. Hooks'
  BY NoneAssumption DEF IInv, Hooks, CleanUp, Gone, printer, call, writers, Agree,
     Updating
<1>5. Synced'
  BY DEF IInv, Synced, CleanUp, Gone, printer, call, writers
<1>6. Queued'
  BY GoneQueued DEF CleanUp
<1> QED BY <1>1, <1>2, <1>3, <1>4, <1>5, <1>6 DEF IInv

LEMMA DeliverInv == IInv /\ Deliver => IInv'
<1> SUFFICES ASSUME IInv, Deliver PROVE IInv'
  OBVIOUS
<1>1. TypeOK'
  <2>1. Head(wire) \in Report /\ wire' \in Seq(Report)
    BY TailFacts DEF IInv, TypeOK, Deliver
  <2>2. /\ answer' \in Report \cup {None}
        /\ rep' \in [{"main", "mqtt"} -> Report \cup {None}]
        /\ pc' \in [{"main", "mqtt"} -> Points] /\ raced' \in BOOLEAN
    <3>1. CASE ToCall(Head(wire))
      BY <2>1, <3>1 DEF IInv, TypeOK, Deliver, ToCall
    <3>2. CASE ToNobody(Head(wire))
      BY <3>2 DEF IInv, TypeOK, Deliver, ToNobody
    <3>3. CASE ToBridge(Head(wire))
      <4>1. /\ rep' = [rep EXCEPT !["mqtt"] = Head(wire)] /\ answer' = answer
            /\ \E to \in {"stats", "temps", "cast"} : pc' = [pc EXCEPT !["mqtt"] = to]
            /\ raced' \in BOOLEAN
        BY <3>3 DEF IInv, TypeOK, ToBridge, Goto
      <4> QED BY <4>1, <2>1 DEF IInv, TypeOK, Points, Updating
    <3> QED BY <3>1, <3>2, <3>3 DEF Deliver
  <2> QED BY <2>1, <2>2 DEF IInv, TypeOK, Deliver, clients, serving
<1>2. Places'
  <2>1. Head(wire) \in Report
    BY TailFacts DEF IInv, TypeOK, Deliver
  <2>2. CASE ToCall(Head(wire))
    BY <2>2 DEF IInv, Places, Deliver, ToCall, clients, serving
  <2>3. CASE ToNobody(Head(wire))
    BY <2>3 DEF IInv, Places, Deliver, ToNobody, clients, serving
  <2>4. CASE ToBridge(Head(wire))
    <3>1. /\ rep' = [rep EXCEPT !["mqtt"] = Head(wire)] /\ UNCHANGED <<answer, asked>>
          /\ \/ Head(wire).kind = "info" /\ pc' = [pc EXCEPT !["mqtt"] = "stats"]
             \/ pc' = [pc EXCEPT !["mqtt"] = "temps"]
             \/ pc' = [pc EXCEPT !["mqtt"] = "cast"]
      BY <2>4 DEF Deliver, ToBridge, Goto
    <3> QED BY <3>1, <2>1 DEF IInv, TypeOK, Places, Deliver, Updating, clients, serving
  <2> QED BY <2>2, <2>3, <2>4 DEF Deliver
<1>3. Ordered'
  <2>1. /\ Head(wire) \in Report /\ Head(wire) = wire[1] /\ Len(wire) \in Nat \ {0}
        /\ Len(wire') = Len(wire) - 1 /\ \A i \in 1 .. Len(wire') : wire'[i] = wire[i + 1]
    BY TailFacts DEF IInv, TypeOK, Deliver
  <2>2. sent \in Nat /\ sent' = sent /\ Delivered \in Nat
    <3>1. sent \in Nat /\ sent' = sent
      BY BoundsAssumption DEF IInv, TypeOK, Deliver
    <3> QED BY <2>1, <3>1 DEF IInv, Ordered, Delivered
  <2>3. Delivered' = Delivered + 1 /\ Head(wire).n = Delivered + 1
    BY <2>1, <2>2 DEF IInv, Ordered, Delivered
  <2>4. Len(wire') <= sent'
    BY <2>1, <2>2 DEF IInv, Ordered
  <2>5. \A i \in 1 .. Len(wire') : wire'[i].n = Delivered' + i
    BY <2>1, <2>2, <2>3 DEF IInv, Ordered
  <2>6. /\ answer' # None => answer'.n <= Delivered'
        /\ \A w \in {"main", "mqtt"} : pc'[w] \in Updating => rep'[w].n <= Delivered'
        /\ pc'["mqtt"] \in Updating => rep'["mqtt"].n = Delivered'
    <3>1. /\ answer # None => answer.n \in Nat
          /\ \A w \in {"main", "mqtt"} : pc[w] \in Updating => rep[w].n \in Nat
          /\ pc["mqtt"] \notin Updating
      BY DEF IInv, TypeOK, Places, Report, Deliver, Updating
    <3>2. CASE ToCall(Head(wire))
      BY <2>2, <2>3, <3>1, <3>2 DEF IInv, Ordered, ToCall
    <3>3. CASE ToNobody(Head(wire))
      BY <2>2, <2>3, <3>1, <3>3 DEF IInv, Ordered, ToNobody
    <3>4. CASE ToBridge(Head(wire))
      <4>1. /\ rep' = [rep EXCEPT !["mqtt"] = Head(wire)] /\ answer' = answer
            /\ pc'["main"] = pc["main"]
        BY <3>4 DEF IInv, TypeOK, ToBridge, Goto
      <4>2. rep'["mqtt"] = Head(wire) /\ rep'["main"] = rep["main"]
        BY <4>1 DEF IInv, TypeOK
      <4> QED BY <2>2, <2>3, <3>1, <4>1, <4>2 DEF IInv, Ordered
    <3> QED BY <3>2, <3>3, <3>4 DEF Deliver
  <2>7. /\ \A w \in {"main", "mqtt"} : reg'[w] <= Delivered'
        /\ \A p \in Parts : obj'[p] <= Delivered'
    BY <2>2, <2>3 DEF IInv, TypeOK, Ordered, Deliver, Status
  <2> QED BY <2>4, <2>5, <2>6, <2>7 DEF Ordered
<1>4. Hooks'
  BY TailFacts, NoneAssumption DEF IInv, Hooks, TypeOK, Places, Deliver, ToCall,
     ToNobody, ToBridge, call, clients, serving, Goto, Agree, Updating, Report, Status,
     Unread, Points, Starting, Serving
<1>5. Synced'
  BY DEF IInv, Synced, Deliver, ToCall, ToNobody, ToBridge, call, clients, serving, Goto
<1>6. Queued'
  BY DEF IInv, Queued, Deliver, ToCall, ToNobody, ToBridge, call, clients, serving, Goto
<1> QED BY <1>1, <1>2, <1>3, <1>4, <1>5, <1>6 DEF IInv

LEMMA NobodyToTellInv == IInv /\ NobodyToTell => IInv'
<1> SUFFICES ASSUME IInv, NobodyToTell PROVE IInv'
  OBVIOUS
<1>1. TypeOK'
  BY NoneAssumption, BoundsAssumption DEF IInv, TypeOK, NobodyToTell, printer, call,
     clients, serving, Goto, Report, Status, Unread, Updating, Points
<1>2. Places'
  BY NoneAssumption DEF IInv, Places, NobodyToTell, printer, call, clients, serving,
     Goto, Updating, Starting, Serving, Report, Unread
<1>3. Ordered'
  BY NoneAssumption DEF IInv, Ordered, NobodyToTell, printer, call, clients, serving,
     Goto, Delivered, Updating, Report
<1>4. Hooks'
  BY NoneAssumption DEF IInv, Hooks, TypeOK, Places, NobodyToTell, printer, call,
     clients, serving, Goto, Agree, Updating, Report, Status, Unread, Points, Starting,
     Serving
<1>5. Synced'
  BY DEF IInv, Synced, Places, NobodyToTell, printer, call, clients, serving, Goto
<1>6. Queued'
  BY DEF IInv, Queued, NobodyToTell, printer, call, clients, serving, Goto
<1> QED BY <1>1, <1>2, <1>3, <1>4, <1>5, <1>6 DEF IInv

LEMMA SomebodyToTellInv == IInv /\ SomebodyToTell => IInv'
<1> SUFFICES ASSUME IInv, SomebodyToTell PROVE IInv'
  OBVIOUS
<1>1. TypeOK'
  BY NoneAssumption, BoundsAssumption DEF IInv, TypeOK, SomebodyToTell, printer, call,
     clients, serving, Goto, Report, Status, Unread, Updating, Points
<1>2. Places'
  BY NoneAssumption DEF IInv, Places, SomebodyToTell, printer, call, clients, serving,
     Goto, Updating, Starting, Serving, Report, Unread
<1>3. Ordered'
  BY NoneAssumption DEF IInv, Ordered, SomebodyToTell, printer, call, clients, serving,
     Goto, Delivered, Updating, Report
<1>4. Hooks'
  BY NoneAssumption DEF IInv, Hooks, TypeOK, Places, SomebodyToTell, printer, call,
     clients, serving, Goto, Agree, Updating, Report, Status, Unread, Points, Starting,
     Serving
<1>5. Synced'
  BY DEF IInv, Synced, SomebodyToTell, printer, call, clients, serving, Goto
<1>6. Queued'
  BY DEF IInv, Queued, SomebodyToTell, printer, call, clients, serving, Goto
<1> QED BY <1>1, <1>2, <1>3, <1>4, <1>5, <1>6 DEF IInv

LEMMA QueueSendsInv == IInv /\ QueueSends => IInv'
<1> SUFFICES ASSUME IInv, QueueSends PROVE IInv'
  OBVIOUS
<1>1. TypeOK'
  BY AppendFacts, NoneAssumption, BoundsAssumption DEF IInv, TypeOK, QueueSends,
     printer, call, serving, Goto, Report, Status, Unread, Updating, Points
<1>2. Places'
  BY AppendFacts, NoneAssumption DEF IInv, Places, QueueSends, printer, call, serving,
     Goto, Updating, Starting, Serving, Report, Unread
<1>3. Ordered'
  BY AppendFacts, NoneAssumption DEF IInv, Ordered, QueueSends, printer, call, serving,
     Goto, Delivered, Updating, Report
<1>4. Hooks'
  BY AppendFacts, NoneAssumption DEF IInv, Hooks, TypeOK, Places, QueueSends, printer,
     call, serving, Goto, Agree, Updating, Report, Status, Unread, Points, Starting,
     Serving
<1>5. Synced'
  BY DEF IInv, Synced, TypeOK, Places, Queued, QueueSends, printer, call, serving, Goto
<1>6. Queued'
  <2>1. /\ Len(published) \in Nat /\ Len(published') = Len(published) + 1
        /\ published'[Len(published) + 1] = obj
        /\ \A i \in 1 .. Len(published) : published'[i] = published[i]
    BY AppendFacts DEF IInv, TypeOK, QueueSends
  <2>2. \A c \in Clients : c \notin open' =>
          sends'[c] = <<>> /\ view'[c] = None /\ noted'[c] = None
    BY DEF IInv, Queued, QueueSends
  <2>3. ASSUME NEW c \in Clients
        PROVE  /\ Len(sends'[c]) <= Len(published')
               /\ \A i \in 1 .. Len(sends'[c]) :
                    sends'[c][i] = published'[Len(published') - Len(sends'[c]) + i]
    <3>1. CASE c \in open
      <4>1. /\ Len(sends[c]) \in Nat /\ Len(sends'[c]) = Len(sends[c]) + 1
            /\ sends'[c][Len(sends[c]) + 1] = obj
            /\ \A i \in 1 .. Len(sends[c]) : sends'[c][i] = sends[c][i]
        BY <3>1, AppendFacts DEF IInv, TypeOK, QueueSends
      <4>2. /\ Len(sends[c]) <= Len(published)
            /\ \A i \in 1 .. Len(sends[c]) :
                 sends[c][i] = published[Len(published) - Len(sends[c]) + i]
        BY DEF IInv, Queued
      <4>3. ASSUME NEW i \in 1 .. Len(sends'[c])
            PROVE  sends'[c][i] = published'[Len(published') - Len(sends'[c]) + i]
        <5> DEFINE k == Len(published) - Len(sends[c]) + i
        <5>1. /\ Len(published') - Len(sends'[c]) + i = k
              /\ i \in 1 .. Len(sends[c]) => k \in 1 .. Len(published)
              /\ i \notin 1 .. Len(sends[c]) => i = Len(sends[c]) + 1 /\ k = Len(published) + 1
          <6>1. /\ Len(published) \in Nat /\ Len(sends[c]) \in Nat
                /\ Len(sends[c]) <= Len(published) /\ i \in 1 .. Len(sends[c]) + 1
            BY <2>1, <4>1, <4>2
          <6>2. Len(published') - Len(sends'[c]) + i
                  = (Len(published) + 1) - (Len(sends[c]) + 1) + i
            BY <2>1, <4>1
          <6> DEFINE p == Len(published)
                     s == Len(sends[c])
          <6>3. p \in Nat /\ s \in Nat /\ s <= p /\ i \in 1 .. s + 1
            BY <6>1
          <6>4. Len(published') - Len(sends'[c]) + i = (p + 1) - (s + 1) + i
            BY <6>2
          <6>5. k = p - s + i
            OBVIOUS
          <6> HIDE DEF p, s, k
          <6>6. /\ (p + 1) - (s + 1) + i = p - s + i
                /\ i \in 1 .. s => p - s + i \in 1 .. p
                /\ i \notin 1 .. s => i = s + 1 /\ p - s + i = p + 1
            BY <6>3, Shift
          <6>7. Len(published') - Len(sends'[c]) + i = k
            BY <6>4, <6>5, <6>6
          <6> QED BY <6>5, <6>6, <6>7 DEF p, s
        <5> HIDE DEF k
        <5>2. i \in 1 .. Len(sends[c]) => sends[c][i] = published[k]
          BY <4>2 DEF k
        <5> QED BY <2>1, <4>1, <5>1, <5>2
      <4>4. Len(sends'[c]) <= Len(published')
        BY <2>1, <4>1, <4>2
      <4> QED BY <4>3, <4>4
    <3>2. CASE c \notin open
      <4>1. sends'[c] = <<>>
        BY <3>2 DEF IInv, Queued, QueueSends
      <4>2. Len(sends'[c]) = 0
        BY <4>1
      <4> QED BY <2>1, <4>2
    <3> QED BY <3>1, <3>2
  <2> QED BY <2>2, <2>3 DEF Queued
<1> QED BY <1>1, <1>2, <1>3, <1>4, <1>5, <1>6 DEF IInv

LEMMA JoinInv == ASSUME NEW c \in Clients PROVE IInv /\ Join(c) => IInv'
<1> SUFFICES ASSUME IInv, Join(c) PROVE IInv'
  OBVIOUS
<1>1. TypeOK'
  BY DEF IInv, TypeOK, Join, printer, call, writers, serving
<1>2. Places'
  BY DEF IInv, Places, Join, printer, call, writers, serving
<1>3. Ordered'
  BY NoneAssumption DEF IInv, Ordered, Join, printer, call, writers, serving, Delivered,
     Updating, Report
<1>4. Hooks'
  BY NoneAssumption DEF IInv, Hooks, Join, printer, call, writers, serving, Agree,
     Updating
<1>5. Synced'
  BY DEF IInv, Synced, TypeOK, Places, Queued, Join, printer, call, writers, serving
<1>6. Queued'
  BY DEF IInv, Queued, Join, printer, call, writers, serving
<1> QED BY <1>1, <1>2, <1>3, <1>4, <1>5, <1>6 DEF IInv

LEMMA LeaveInv == ASSUME NEW c \in Clients PROVE IInv /\ Leave(c) => IInv'
<1> SUFFICES ASSUME IInv, Leave(c) PROVE IInv'
  OBVIOUS
<1>1. TypeOK'
  BY DEF IInv, TypeOK, Leave, Gone, printer, call, writers, serving
<1>2. Places'
  BY NoneAssumption DEF IInv, Places, Leave, Gone, printer, call, writers, serving,
     Updating, Starting, Serving, Report, Unread
<1>3. Ordered'
  BY NoneAssumption DEF IInv, Ordered, Leave, Gone, printer, call, writers, serving,
     Delivered, Updating, Report
<1>4. Hooks'
  BY NoneAssumption DEF IInv, Hooks, Leave, Gone, printer, call, writers, serving,
     Agree, Updating
<1>5. Synced'
  BY DEF IInv, Synced, TypeOK, Places, Leave, Gone, printer, call, writers, serving
<1>6. Queued'
  BY GoneQueued DEF Leave
<1> QED BY <1>1, <1>2, <1>3, <1>4, <1>5, <1>6 DEF IInv

LEMMA BeginReplyInv == ASSUME NEW c \in Clients PROVE IInv /\ BeginReply(c) => IInv'
<1> SUFFICES ASSUME IInv, BeginReply(c) PROVE IInv'
  OBVIOUS
<1>1. TypeOK'
  BY DEF IInv, TypeOK, BeginReply, printer, call, writers, clients
<1>2. Places'
  BY NoneAssumption DEF IInv, Places, BeginReply, printer, call, writers, clients,
     Updating, Starting, Serving, Report, Unread
<1>3. Ordered'
  BY NoneAssumption DEF IInv, Ordered, BeginReply, printer, call, writers, clients,
     Delivered, Updating, Report
<1>4. Hooks'
  BY NoneAssumption DEF IInv, Hooks, BeginReply, printer, call, writers, clients, Agree,
     Updating
<1>5. Synced'
  BY NoneAssumption DEF IInv, Synced, Places, BeginReply, printer, call, writers,
     clients, Unread, Updating, Starting, Serving, Report
<1>6. Queued'
  BY DEF IInv, Queued, BeginReply, printer, call, writers, clients
<1> QED BY <1>1, <1>2, <1>3, <1>4, <1>5, <1>6 DEF IInv

LEMMA ReadPartInv == ASSUME NEW c \in Clients, NEW p \in Parts PROVE IInv /\ ReadPart(c, p) => IInv'
<1> SUFFICES ASSUME IInv, ReadPart(c, p) PROVE IInv'
  OBVIOUS
<1>1. TypeOK'
  BY NoneAssumption, BoundsAssumption DEF IInv, TypeOK, ReadPart, printer, call,
     writers, clients, Report, Status, Unread, Updating, Points
<1>2. Places'
  BY DEF IInv, Places, ReadPart, printer, call, writers, clients
<1>3. Ordered'
  BY NoneAssumption DEF IInv, Ordered, ReadPart, printer, call, writers, clients,
     Delivered, Updating, Report
<1>4. Hooks'
  BY NoneAssumption DEF IInv, Hooks, ReadPart, printer, call, writers, clients, Agree,
     Updating
<1>5. Synced'
  BY DEF IInv, Synced, ReadPart, printer, call, writers, clients
<1>6. Queued'
  BY DEF IInv, Queued, ReadPart, printer, call, writers, clients
<1> QED BY <1>1, <1>2, <1>3, <1>4, <1>5, <1>6 DEF IInv

LEMMA ReplyInv == ASSUME NEW c \in Clients PROVE IInv /\ Reply(c) => IInv'
<1> SUFFICES ASSUME IInv, Reply(c) PROVE IInv'
  OBVIOUS
<1>1. TypeOK'
  BY NoneAssumption, BoundsAssumption DEF IInv, TypeOK, Reply, printer, call, writers,
     Report, Status, Unread, Updating, Points
<1>2. Places'
  BY NoneAssumption DEF IInv, Places, Reply, printer, call, writers, Updating, Starting,
     Serving, Report, Unread
<1>3. Ordered'
  BY NoneAssumption DEF IInv, Ordered, Reply, printer, call, writers, Delivered,
     Updating, Report
<1>4. Hooks'
  BY NoneAssumption DEF IInv, Hooks, Reply, printer, call, writers, Agree, Updating
<1>5. Synced'
  BY NoneAssumption DEF IInv, Synced, TypeOK, Places, Reply, printer, call, writers,
     Unread, Updating, Report, Status, Points, Starting, Serving
<1>6. Queued'
  BY NoneAssumption DEF IInv, Queued, TypeOK, Places, Reply, printer, call, writers,
     Status, Report, Unread, Updating, Points, Starting, Serving
<1> QED BY <1>1, <1>2, <1>3, <1>4, <1>5, <1>6 DEF IInv

LEMMA SendInv == ASSUME NEW c \in Clients PROVE IInv /\ Send(c) => IInv'
<1> SUFFICES ASSUME IInv, Send(c) PROVE IInv'
  OBVIOUS
<1>1. TypeOK'
  BY DEF IInv, TypeOK, Send, printer, call, writers, serving
<1>2. Places'
  BY DEF IInv, Places, Send, printer, call, writers, serving
<1>3. Ordered'
  BY TailFacts, NoneAssumption DEF IInv, Ordered, Send, printer, call, writers, serving,
     Delivered, Updating, Report
<1>4. Hooks'
  BY TailFacts, NoneAssumption DEF IInv, Hooks, Send, printer, call, writers, serving,
     Agree, Updating
<1>5. Synced'
  <2>1. /\ Len(sends[c]) \in Nat \ {0} /\ Len(sends'[c]) = Len(sends[c]) - 1
        /\ sends'[c] \in Seq(Status) /\ Head(sends[c]) = sends[c][1]
        /\ \A i \in 1 .. Len(sends'[c]) : sends'[c][i] = sends[c][i + 1]
        /\ view'[c] = Head(sends[c])
        /\ \A d \in Clients : d # c => sends'[d] = sends[d] /\ view'[d] = view[d]
        /\ UNCHANGED <<open, pc, obj, loop, part>>
    BY TailFacts DEF IInv, TypeOK, Send, writers, serving
  <2>2. c \in open /\ open \subseteq Clients /\ \A d \in Clients : loop # d
    BY NoneAssumption DEF IInv, TypeOK, Queued, Send
  <2>3. ASSUME pc["mqtt"] = "idle"
        PROVE  /\ sends'[c] # <<>> => sends'[c][Len(sends'[c])] = obj
               /\ sends'[c] = <<>> => view'[c] = obj
    <3>1. sends[c][Len(sends[c])] = obj
      BY <2>1, <2>2, <2>3 DEF IInv, Synced, Send
    <3>2. sends'[c] # <<>> => Len(sends'[c]) \in Nat \ {0}
      BY <2>1, TailFacts
    <3>3. sends'[c] = <<>> => Len(sends'[c]) = 0
      OBVIOUS
    <3> QED BY <2>1, <3>1, <3>2, <3>3
  <2> QED BY <2>1, <2>2, <2>3 DEF IInv, Synced
<1>6. Queued'
  <2>1. /\ Len(sends[c]) \in Nat \ {0} /\ Len(sends'[c]) = Len(sends[c]) - 1
        /\ \A i \in 1 .. Len(sends'[c]) : sends'[c][i] = sends[c][i + 1]
        /\ \A d \in Clients : d # c => sends'[d] = sends[d] /\ view'[d] = view[d] /\ noted'[d] = noted[d]
        /\ UNCHANGED <<published, open>> /\ Len(published) \in Nat
    BY TailFacts DEF IInv, TypeOK, Send
  <2>2. c \in open
    BY DEF IInv, Queued, Send
  <2>3. /\ Len(sends[c]) <= Len(published)
        /\ \A i \in 1 .. Len(sends[c]) :
             sends[c][i] = published[Len(published) - Len(sends[c]) + i]
    BY DEF IInv, Queued
  <2>4. /\ Len(sends'[c]) <= Len(published)
        /\ \A i \in 1 .. Len(sends'[c]) :
             sends'[c][i] = published[Len(published) - Len(sends'[c]) + i]
    <3>1. Len(sends'[c]) <= Len(published)
      BY <2>1, <2>3
    <3>2. ASSUME NEW i \in 1 .. Len(sends'[c])
          PROVE  sends'[c][i] = published[Len(published) - Len(sends'[c]) + i]
      <4>1. /\ i + 1 \in 1 .. Len(sends[c])
            /\ Len(published) - Len(sends[c]) + (i + 1) = Len(published) - Len(sends'[c]) + i
        BY <2>1
      <4> QED BY <2>1, <2>3, <4>1
    <3> QED BY <3>1, <3>2
  <2>5. ASSUME NEW d \in Clients, d # c
        PROVE  /\ d \notin open' => sends'[d] = <<>> /\ view'[d] = None /\ noted'[d] = None
               /\ Len(sends'[d]) <= Len(published)
               /\ \A i \in 1 .. Len(sends'[d]) :
                    sends'[d][i] = published[Len(published) - Len(sends'[d]) + i]
    <3>1. sends'[d] = sends[d] /\ view'[d] = view[d] /\ noted'[d] = noted[d] /\ open' = open
      BY <2>1, <2>5
    <3>2. /\ d \notin open => sends[d] = <<>> /\ view[d] = None /\ noted[d] = None
          /\ Len(sends[d]) <= Len(published)
          /\ \A i \in 1 .. Len(sends[d]) :
               sends[d][i] = published[Len(published) - Len(sends[d]) + i]
      BY DEF IInv, Queued
    <3> QED BY <3>1, <3>2
  <2> QED BY <2>1, <2>2, <2>4, <2>5 DEF Queued
<1> QED BY <1>1, <1>2, <1>3, <1>4, <1>5, <1>6 DEF IInv

LEMMA ListFilesInv == IInv /\ ListFiles => IInv'
<1> SUFFICES ASSUME IInv, ListFiles PROVE IInv'
  OBVIOUS
<1>1. TypeOK'
  BY DEF IInv, TypeOK, ListFiles, printer, writers, clients
<1>2. Places'
  BY NoneAssumption DEF IInv, Places, ListFiles, printer, writers, clients, Updating,
     Starting, Serving, Report, Unread
<1>3. Ordered'
  BY NoneAssumption DEF IInv, Ordered, ListFiles, printer, writers, clients, Delivered,
     Updating, Report
<1>4. Hooks'
  BY NoneAssumption DEF IInv, Hooks, ListFiles, printer, writers, clients, Agree,
     Updating
<1>5. Synced'
  BY NoneAssumption DEF IInv, Synced, Places, ListFiles, printer, writers, clients,
     Unread, Updating, Starting, Serving, Report
<1>6. Queued'
  BY DEF IInv, Queued, ListFiles, printer, writers, clients
<1> QED BY <1>1, <1>2, <1>3, <1>4, <1>5, <1>6 DEF IInv

LEMMA FilesListedInv == IInv /\ FilesListed => IInv'
<1> SUFFICES ASSUME IInv, FilesListed PROVE IInv'
  OBVIOUS
<1>1. TypeOK'
  BY DEF IInv, TypeOK, FilesListed, CallOver, printer, writers, clients
<1>2. Places'
  BY NoneAssumption DEF IInv, Places, FilesListed, CallOver, printer, writers, clients,
     Updating, Starting, Serving, Report, Unread
<1>3. Ordered'
  BY NoneAssumption DEF IInv, Ordered, FilesListed, CallOver, printer, writers, clients,
     Delivered, Updating, Report
<1>4. Hooks'
  BY NoneAssumption DEF IInv, Hooks, FilesListed, CallOver, printer, writers, clients,
     Agree, Updating
<1>5. Synced'
  BY NoneAssumption DEF IInv, Synced, Places, FilesListed, CallOver, printer, writers,
     clients, Unread, Updating, Starting, Serving, Report
<1>6. Queued'
  BY DEF IInv, Queued, FilesListed, CallOver, printer, writers, clients
<1> QED BY <1>1, <1>2, <1>3, <1>4, <1>5, <1>6 DEF IInv

LEMMA IdleInv == IInv /\ UNCHANGED vars => IInv'
<1> SUFFICES ASSUME IInv, UNCHANGED vars PROVE IInv'
  OBVIOUS
<1>1. TypeOK'
  BY DEF IInv, TypeOK, vars, printer, call, writers, clients, serving
<1>2. Places'
  BY DEF IInv, Places, vars, printer, call, writers, clients, serving
<1>3. Ordered'
  BY NoneAssumption DEF IInv, Ordered, vars, printer, call, writers, clients, serving,
     Delivered, Updating, Report
<1>4. Hooks'
  BY NoneAssumption DEF IInv, Hooks, vars, printer, call, writers, clients, serving,
     Agree, Updating
<1>5. Synced'
  BY DEF IInv, Synced, vars, printer, call, writers, clients, serving
<1>6. Queued'
  BY DEF IInv, Queued, vars, printer, call, writers, clients, serving
<1> QED BY <1>1, <1>2, <1>3, <1>4, <1>5, <1>6 DEF IInv

LEMMA InitInv == Init => IInv
<1> SUFFICES ASSUME Init PROVE IInv
  OBVIOUS
<1>1. TypeOK
  <2>1. /\ wire \in Seq(Report) /\ published \in Seq(Status) /\ Len(wire) = 0
        /\ sends \in [Clients -> Seq(Status)] /\ \A c \in Clients : Len(sends[c]) = 0
    BY DEF Init
  <2>2. pc \in [{"main", "mqtt"} -> Points]
    BY DEF Init, Points
  <2>3. sent \in 0 .. MaxReports /\ obj \in Status /\ reg \in [{"main", "mqtt"} -> 0 .. MaxReports]
    BY BoundsAssumption DEF Init, Status
  <2>4. /\ rep \in [{"main", "mqtt"} -> Report \cup {None}]
        /\ part \in [Parts -> 0 .. MaxReports \cup {None}]
        /\ view \in [Clients -> Status \cup {None}] /\ noted \in [Clients -> Status \cup {None}]
    BY DEF Init, Unread
  <2> QED BY <2>1, <2>2, <2>3, <2>4 DEF Init, TypeOK
<1>2. Places
  <2>1. pc["main"] = "connect" /\ pc["mqtt"] = "idle"
    BY DEF Init
  <2> QED BY <2>1, NoneAssumption DEF Init, Places, Starting, Serving, Updating
<1>3. Ordered
  <2>1. Len(wire) = 0 /\ sent = 0
    BY DEF Init
  <2> QED BY <2>1 DEF Init, Ordered, Delivered, Updating
<1>4. Hooks /\ Synced
  BY DEF Init, Hooks, Agree, Updating, Parts, Synced
<1>5. Queued
  <2>1. Len(published) = 0 /\ \A c \in Clients : sends[c] = <<>> /\ Len(sends[c]) = 0
    BY DEF Init
  <2> QED BY <2>1 DEF Init, Queued
<1> QED BY <1>1, <1>2, <1>3, <1>4, <1>5 DEF IInv

LEMMA StepInv == IInv /\ [Next]_vars => IInv'
<1> SUFFICES ASSUME IInv, [Next]_vars PROVE IInv'
  OBVIOUS
<1>1. CASE UNCHANGED vars
  BY <1>1, IdleInv
<1>2. \A w \in {"main", "mqtt"} : Update(w) => IInv'
  BY WriteStatsInv, WriteTempsInv, ReadStatsInv, WriteHooksInv DEF Update
<1>3. CASE MainStep
  BY <1>2, <1>3, ConnectInv, SetOnReportInv, AskInfoInv, InfoAnsweredInv, AskTempInv,
     TempAnsweredInv, UnansweredInv, StartServerInv, StartReturnsInv DEF MainStep
<1>4. CASE MqttStep
  BY <1>2, <1>4, DeliverInv, NobodyToTellInv, SomebodyToTellInv, QueueSendsInv DEF MqttStep
<1>5. CASE LoopStep
  BY <1>5, ReplyInv, ReadPartInv, ListFilesInv, FilesListedInv, JoinInv, LeaveInv,
     BeginReplyInv, SendInv DEF LoopStep, ReplyStep
<1> QED BY <1>1, <1>3, <1>4, <1>5, PrinterReportsInv, BindInv, StopInv, CleanUpInv DEF Next

LEMMA Invariant == Spec => []IInv
BY InitInv, StepInv, PTL DEF Spec

-----------------------------------------------------------------------------
(* Types, for any number of clients and reports. *)
THEOREM TypeCorrect == Spec => []TypeOK
<1>1. IInv => TypeOK
  BY DEF IInv
<1> QED BY <1>1, Invariant, PTL

(* start() and the event loop never block in the printer client at once:   *)
(* the loop serves nobody before start() is done with its queries.          *)
THEOREM OneBlockingCall == Spec => []OneCall
<1>1. IInv => OneCall
  <2> SUFFICES ASSUME IInv PROVE Cardinality(callers) <= 1
    BY DEF OneCall
  <2>1. callers \subseteq {"main", "loop"}
    BY DEF IInv, TypeOK
  <2>2. ~("main" \in callers /\ "loop" \in callers)
    BY NoneAssumption DEF IInv, Places, Starting
  <2>3. CASE callers = {}
    BY <2>3, FS_EmptySet
  <2>4. CASE callers = {"main"} \/ callers = {"loop"}
    <3>1. Cardinality(callers) = 1
      BY <2>4, FS_Singleton
    <3> QED BY <3>1
  <2> QED BY <2>1, <2>2, <2>3, <2>4
<1> QED BY <1>1, Invariant, PTL

(* Webhooks agree with print_stats between updates, unless the answer of   *)
(* the start-up query was applied while a report was.                      *)
THEOREM HooksAgree == Spec => []HooksFollow
<1>1. IInv => HooksFollow
  BY DEF IInv, Hooks, HooksFollow, Agree
<1> QED BY <1>1, Invariant, PTL

(* No update is lost on a client, whatever reply it was built into. *)
THEOREM NoUpdateLost == Spec => []InSync
<1>1. IInv => InSync
  BY DEF IInv, Synced, InSync
<1> QED BY <1>1, Invariant, PTL

-----------------------------------------------------------------------------
(* Only updates write the objects, and the main thread's are over when      *)
(* clients are served.                                                      *)
LEMMA WhoWrites ==
  ASSUME IInv, Next, server = "up"
  PROVE  UNCHANGED obj \/ Update("mqtt")
<1>1. ~Update("main")
  BY DEF IInv, Places, Starting, Updating, Update, WriteStats, WriteTemps, ReadStats,
     WriteHooks, Goto
<1>2. CASE MainStep
  BY <1>1, <1>2 DEF MainStep, Connect, SetOnReport, AskInfo, AskTemp, Ask, InfoAnswered,
     TempAnswered, Answered, Unanswered, StartServer, StartReturns, writers
<1>3. CASE MqttStep
  BY <1>3 DEF MqttStep, Deliver, NobodyToTell, SomebodyToTell, QueueSends
<1>4. CASE LoopStep
  BY <1>4 DEF LoopStep, ReplyStep, Reply, ReadPart, ListFiles, FilesListed, Join, Leave,
     BeginReply, Send, writers
<1>5. CASE PrinterReports \/ Bind \/ Stop \/ CleanUp
  BY <1>5 DEF PrinterReports, Bind, Stop, CleanUp, writers
<1> QED BY <1>2, <1>3, <1>4, <1>5 DEF Next

(* Once clients can be served, the status of the bridge only moves forward: *)
(* the answers of the start-up queries have been applied by then.           *)
THEOREM StatusMovesForward == Spec => ServedForward
<1> DEFINE Forward == server = "up" => \A p \in {"stats", "temps"} : obj'[p] >= obj[p]
<1>1. IInv /\ [Next]_vars => [Forward]_obj
  <2> SUFFICES ASSUME IInv, [Next]_vars, server = "up", obj' # obj,
                      NEW p \in {"stats", "temps"}
               PROVE  obj'[p] >= obj[p]
    OBVIOUS
  <2>1. Update("mqtt")
    BY WhoWrites DEF vars, writers
  <2>2. /\ obj \in Status /\ obj[p] \in Nat /\ p \in Parts
        /\ \A q \in Parts : obj[q] <= Delivered
    BY DEF IInv, TypeOK, Ordered, Status, Parts
  <2>3. CASE WriteStats("mqtt")
    <3>1. rep["mqtt"].n = Delivered /\ obj' = [obj EXCEPT !["stats"] = rep["mqtt"].n]
      BY <2>3 DEF IInv, Ordered, WriteStats, Write, Goto, Updating
    <3> QED BY <2>2, <3>1 DEF Status
  <2>4. CASE WriteTemps("mqtt")
    <3>1. rep["mqtt"].n = Delivered /\ obj' = [obj EXCEPT !["temps"] = rep["mqtt"].n]
      BY <2>4 DEF IInv, Ordered, WriteTemps, Write, Goto, Updating
    <3> QED BY <2>2, <3>1 DEF Status
  <2>5. CASE ReadStats("mqtt") \/ WriteHooks("mqtt")
    <3>1. obj'[p] = obj[p]
      BY <2>2, <2>5 DEF ReadStats, WriteHooks, Write, Status
    <3> QED BY <2>2, <3>1
  <2> QED BY <2>1, <2>3, <2>4, <2>5 DEF Update
<1> QED BY <1>1, Invariant, PTL DEF Spec, ServedForward

-----------------------------------------------------------------------------
(* The refinement of StatusFeed: pos is where a client is in the published  *)
(* statuses, all but its queue.                                             *)
Pos == [c \in Clients |-> IF c \in open THEN Len(published) - Len(sends[c]) ELSE None]

LEMMA PosOf ==
  ASSUME IInv, NEW c \in Clients
  PROVE  /\ Len(published) \in Nat /\ Len(sends[c]) \in Nat
         /\ c \in open => Pos[c] = Len(published) - Len(sends[c]) /\ Pos[c] \in Nat /\ Pos[c] # None
         /\ c \notin open => Pos[c] = None
<1>1. /\ Len(published) \in Nat /\ Len(sends[c]) \in Nat /\ Len(sends[c]) <= Len(published)
  BY DEF IInv, TypeOK, Queued
<1> QED BY <1>1, NoneAssumption DEF Pos

(* The actions that touch neither the queues nor what was published. *)
LEMMA FeedStutters ==
  ASSUME Next
  PROVE  \/ UNCHANGED <<open, sends, noted, published>>
         \/ QueueSends \/ CleanUp
         \/ \E c \in Clients : Join(c) \/ Leave(c) \/ Send(c)
<1>1. CASE MainStep
  BY <1>1 DEF MainStep, Connect, SetOnReport, AskInfo, AskTemp, Ask, InfoAnswered,
     TempAnswered, Answered, Unanswered, StartServer, StartReturns, clients, Update,
     WriteStats, WriteTemps, ReadStats, WriteHooks
<1>2. CASE MqttStep
  BY <1>2 DEF MqttStep, Deliver, NobodyToTell, SomebodyToTell, clients, Update,
     WriteStats, WriteTemps, ReadStats, WriteHooks
<1>3. CASE LoopStep
  BY <1>3 DEF LoopStep, ReplyStep, Reply, ReadPart, ListFiles, FilesListed, BeginReply,
     clients
<1>4. CASE PrinterReports \/ Bind \/ Stop \/ CleanUp
  BY <1>4 DEF PrinterReports, Bind, Stop, clients
<1> QED BY <1>1, <1>2, <1>3, <1>4 DEF Next

LEMMA PublishMaps ==
  ASSUME IInv, IInv', QueueSends
  PROVE  published' = Append(published, obj) /\ obj \in Status /\ Pos' = Pos /\ noted' = noted
<1>1. published' = Append(published, obj) /\ obj \in Status /\ noted' = noted /\ open' = open
  BY DEF IInv, TypeOK, QueueSends
<1>2. ASSUME NEW c \in Clients, c \in open
      PROVE  Len(published') - Len(sends'[c]) = Len(published) - Len(sends[c])
  <2>1. /\ Len(sends'[c]) = Len(sends[c]) + 1 /\ Len(published') = Len(published) + 1
        /\ Len(published) \in Nat /\ Len(sends[c]) \in Nat
    BY <1>2, AppendFacts DEF IInv, TypeOK, QueueSends
  <2> QED BY <2>1
<1> QED BY <1>1, <1>2 DEF Pos

LEMMA JoinMaps ==
  ASSUME IInv, NEW c \in Clients, Join(c)
  PROVE  Pos[c] = None /\ Pos' = [Pos EXCEPT ![c] = Len(published)] /\ UNCHANGED <<published, noted>>
<1>1. c \notin open /\ open' = open \cup {c} /\ UNCHANGED <<published, noted, sends>>
  BY DEF Join
<1>2. sends[c] = <<>> /\ Len(published) \in Nat
  BY <1>1 DEF IInv, TypeOK, Queued
<1>3. Len(sends[c]) = 0
  BY <1>2
<1>4. Len(published) - Len(sends[c]) = Len(published)
  BY <1>2, <1>3
<1> QED BY <1>1, <1>4 DEF Pos

LEMMA SendMaps ==
  ASSUME IInv, NEW c \in Clients, Send(c)
  PROVE  /\ Pos[c] # None /\ Pos[c] < Len(published)
         /\ Pos' = [Pos EXCEPT ![c] = Pos[c] + 1]
         /\ noted' = [noted EXCEPT ![c] = published[Pos[c] + 1]]
         /\ published' = published
<1>1. /\ Len(sends[c]) \in Nat \ {0} /\ Len(sends'[c]) = Len(sends[c]) - 1
      /\ Head(sends[c]) = sends[c][1]
      /\ sends' = [sends EXCEPT ![c] = Tail(sends[c])]
      /\ UNCHANGED <<published, open>> /\ Len(published) \in Nat
      /\ noted' = [noted EXCEPT ![c] = Head(sends[c])]
  BY TailFacts DEF IInv, TypeOK, Send
<1>2. c \in open
  BY DEF IInv, Queued, Send
<1>3. Len(sends[c]) <= Len(published)
  BY DEF IInv, Queued
<1>4. sends[c][1] = published[Len(published) - Len(sends[c]) + 1]
  <2>1. 1 \in 1 .. Len(sends[c])
    BY <1>1
  <2>2. \A i \in 1 .. Len(sends[c]) :
          sends[c][i] = published[Len(published) - Len(sends[c]) + i]
    BY DEF IInv, Queued
  <2> QED BY <2>1, <2>2
<1>5. Pos[c] = Len(published) - Len(sends[c]) /\ Pos[c] # None
  BY <1>2, PosOf
<1>6. Len(published') - Len(sends'[c]) = Pos[c] + 1 /\ Pos[c] < Len(published)
  BY <1>1, <1>3, <1>5
<1>7. \A d \in Clients : d # c => sends'[d] = sends[d]
  BY <1>1 DEF IInv, TypeOK
<1>8. Pos' = [Pos EXCEPT ![c] = Pos[c] + 1]
  <2>1. Pos'[c] = Pos[c] + 1
    BY <1>1, <1>2, <1>6 DEF Pos
  <2>2. \A d \in Clients : d # c => Pos'[d] = Pos[d]
    BY <1>1, <1>7 DEF Pos
  <2>3. /\ DOMAIN Pos = Clients /\ Pos = [d \in Clients |-> Pos[d]]
        /\ Pos' = [d \in Clients |-> Pos'[d]]
    BY DEF Pos
  <2> HIDE DEF Pos
  <2> QED BY <2>1, <2>2, <2>3
<1> QED BY <1>1, <1>4, <1>5, <1>6, <1>8

LEMMA GoneMaps ==
  ASSUME IInv, NEW cs, Gone(cs), UNCHANGED published
  PROVE  /\ Pos' = [c \in Clients |-> IF c \in cs THEN None ELSE Pos[c]]
         /\ noted' = [c \in Clients |-> IF c \in cs THEN None ELSE noted[c]]
BY DEF Gone, Pos

(* Clients are notified of every status published since they joined, once   *)
(* and in order: BridgeServer implements StatusFeed.                        *)
THEOREM FeedIsRefined == Spec => FeedInOrder
<1> USE DEF Pos
<1>1. Init => Feed!Init
  BY DEF Init, Feed!Init
<1>2. ASSUME IInv, IInv', [Next]_vars
      PROVE  [Feed!Next]_<<published, Pos, noted>>
  <2>1. CASE UNCHANGED <<open, sends, noted, published>>
    BY <2>1
  <2>2. CASE QueueSends
    BY <1>2, <2>2, PublishMaps DEF Feed!Next, Feed!Publish
  <2>3. ASSUME NEW c \in Clients, Join(c) PROVE Feed!Next
    BY <1>2, <2>3, JoinMaps DEF Feed!Next, Feed!Join
  <2>4. ASSUME NEW c \in Clients, Send(c) PROVE Feed!Next
    BY <1>2, <2>4, SendMaps DEF Feed!Next, Feed!Notify
  <2>5. ASSUME NEW cs \in SUBSET Clients, Gone(cs), UNCHANGED published PROVE Feed!Next
    BY <1>2, <2>5, GoneMaps DEF Feed!Next, Feed!Leave
  <2>6. ASSUME NEW c \in Clients, Leave(c) PROVE Feed!Next
    <3>1. {c} \in SUBSET Clients /\ Gone({c}) /\ UNCHANGED published
      BY <2>6 DEF Leave
    <3> QED BY <3>1, <2>5
  <2>7. CASE CleanUp
    <3>1. open \in SUBSET Clients /\ Gone(open) /\ UNCHANGED published
      BY <1>2, <2>7 DEF CleanUp, IInv, TypeOK
    <3> QED BY <3>1, <2>5
  <2>8. CASE UNCHANGED vars
    BY <2>8 DEF vars, clients
  <2> QED BY <1>2, <2>1, <2>2, <2>3, <2>4, <2>6, <2>7, <2>8, FeedStutters
<1> QED BY <1>1, <1>2, Invariant, PTL DEF Spec, FeedInOrder, Feed!Spec
=============================================================================
