------------------------ MODULE StatusPusher_proofs ------------------------
(***************************************************************************)
(* Proofs about StatusPusher, for every set of reports and every number of *)
(* prints.  The checked invariants speak of states between two pushes; the *)
(* inductive invariant says what holds at each line inside one.            *)
(***************************************************************************)
EXTENDS StatusPusher, TLAPS

Printing(s) == s \in PrintingStates

(* the state a thread resolves an event for has been read before *)
LocalsRead ==
  \A t \in Threads : pc[t] \in {"prev", "capture", "id", "last", "post"}
                       => loc[t].state \in JobStates

(* at most one thread is between its first read and its last write *)
OneInSection ==
  \A t, u \in Threads : InSection(t) /\ InSection(u) => t = u

(* what a thread in _push has read of the two fields still is in them *)
LocalsCurrent ==
  \A t \in Threads :
    /\ pc[t] \in {"capture", "id", "last"} => loc[t].prev = last_state
    /\ pc[t] = "id" => loc[t].print_id = current_print_id

NoneAtLast == \A t \in Threads : pc[t] # "last"

(* the PrintId belongs to the stored state, or to the one about to be stored *)
IdFollowsState ==
  /\ NoneAtLast => (current_print_id # 0 <=> Printing(last_state))
  /\ \A t \in Threads :
       pc[t] = "last" => (current_print_id # 0 <=> Printing(loc[t].state))
  /\ current_print_id \in {0, ids}
  /\ ids = ends + IF current_print_id = 0 THEN 0 ELSE 1

(* an end event resolved but not yet posted names a print that is over *)
EndNamesItsPrint ==
  \A t \in Threads :
    pc[t] \in {"last", "post"} /\ Event(t) \in EndEvents
      => loc[t].print_id \in (1 .. ids) \ {current_print_id}

(* the prints announced cover the ids drawn and the id that the present    *)
(* snapshot, or a state read and not yet acted upon, may still draw        *)
Announced == IF Printing(JobState(info)) THEN 1 ELSE 0
PrintsCoverIds ==
  /\ ids <= prints
  /\ NoneAtLast /\ ~Printing(last_state) => ids + Announced <= prints
  /\ \A t \in Threads :
       /\ /\ pc[t] \in {"prev", "capture", "id"}
          /\ Printing(loc[t].state) /\ ~Printing(last_state)
          => ids + 1 <= prints
       /\ pc[t] \in {"prev", "capture", "id", "last"} /\ ~Printing(loc[t].state)
          => ids + Announced <= prints

Lifecycle == OneInSection /\ LocalsCurrent /\ IdFollowsState /\ EndNamesItsPrint
             /\ PrintsCoverIds

IInv == TypeOK /\ LocalsRead /\ (~raced => Lifecycle)

-----------------------------------------------------------------------------
(* _map_state yields a job state for every snapshot the translator can hold *)
LEMMA JobStateType ==
  ASSUME NEW i \in PrinterInfo \cup {None} PROVE JobState(i) \in JobStates
BY DEF JobState, MapState, PausedOr, JobStates, PrinterInfo, PrintProject,
       KobraStates, Empty, PauseStates, PRINTING, PAUSED, PAUSING, RESUMING, STOPPING

(* a report that parses is a snapshot *)
LEMMA ParsedInfo ==
  ASSUME NEW raw \in Reports, Parses(raw)
  PROVE  InfoFromDict(raw) \in PrinterInfo
BY ReportsAssumption DEF Parses, InfoFromDict, RawInfo, PrinterInfo

(* _resolve_event: a print starts exactly on a step into the printing       *)
(* states, and ends exactly on a step out of them                           *)
LEMMA ResolveFacts ==
  ASSUME NEW prev \in JobStates \cup {Empty}, NEW state \in JobStates
  PROVE  /\ ResolveEvent(prev, state) \in Events
         /\ ResolveEvent(prev, state) = "started"
              <=> ~Printing(prev) /\ Printing(state)
         /\ ResolveEvent(prev, state) \in EndEvents
              <=> Printing(prev) /\ ~Printing(state)
BY DEF ResolveEvent, ResolveOther, Printing, PrintingStates, JobStates,
       Events, EndEvents, Empty

-----------------------------------------------------------------------------
(* every variable and every local keeps its type *)
LEMMA TypeStep == TypeOK /\ LocalsRead /\ [Next]_vars => TypeOK' /\ LocalsRead'
<1> SUFFICES ASSUME TypeOK, LocalsRead, [Next]_vars PROVE TypeOK' /\ LocalsRead'
  OBVIOUS
<1> USE DEF TypeOK, LocalsRead, Threads, Labels
<1>1. CASE Report
  <2>1. PICK raw \in Reports : Parses(raw) /\ info' = InfoFromDict(raw)
    BY <1>1 DEF Report
  <2>2. info' \in PrinterInfo
    BY <2>1, ParsedInfo
  <2>3. prints' \in Nat
    BY <1>1 DEF Report
  <2>4. QED
    BY <1>1, <2>2, <2>3 DEF Report, shared, flags
<1>2. CASE Start
  BY <1>2 DEF Start, counts, shared, flags
<1>3. CASE Stop
  BY <1>3 DEF Stop, counts, shared, flags
<1>4. CASE Check
  BY <1>4 DEF Check, Goto, counts, shared, flags
<1>5. ASSUME NEW t \in Threads, Push(t) PROVE TypeOK' /\ LocalsRead'
  <2>1. CASE ReadInfo(t)
    BY <2>1 DEF ReadInfo, Goto, counts, shared, flags
  <2>2. CASE ReadJob(t)
    BY <2>2, JobStateType DEF ReadJob, Goto, counts, shared, flags
  <2>3. CASE ReadPrev(t)
    BY <2>3 DEF ReadPrev, Goto, counts, shared, flags
  <2>4. CASE CaptureId(t)
    BY <2>4 DEF CaptureId, Goto, counts, shared, flags
  <2>5. CASE UpdateId(t)
    BY <2>5 DEF UpdateId, Goto, counts, shared, flags
  <2>6. CASE SetLast(t)
    <3>1. loc[t].state \in JobStates
      BY <2>6 DEF SetLast
    <3>2. loc' \in [Threads -> [state : JobStates \cup {Empty}, prev : JobStates \cup {Empty},
                               print_id : Nat, behind : BOOLEAN]]
      <4>1. OtherPosting(t) \in BOOLEAN
        BY DEF OtherPosting
      <4>2. CASE loc' = [loc EXCEPT ![t] = NoLocals]
        BY <4>2 DEF NoLocals
      <4>3. CASE loc' = [loc EXCEPT ![t].behind = OtherPosting(t)]
        BY <4>1, <4>3
      <4>4. QED
        BY <2>6, <4>2, <4>3 DEF SetLast
    <3>3. LocalsRead'
      BY <2>6, <3>1 DEF SetLast, AfterPush, NoLocals
    <3>4. QED
      BY <2>6, <3>1, <3>2, <3>3 DEF SetLast, AfterPush, counts, shared, flags
  <2>7. CASE Post(t)
    <3>1. Event(t) \in Events
      BY <2>7, ResolveFacts DEF Post, Event
    <3>2. QED
      BY <2>7, <3>1, ZenonT(60) DEF Post, Return, AfterPush, NoLocals, counts, shared, flags
  <2>8. CASE PostFails(t)
    BY <2>8, ZenonT(60) DEF PostFails, Return, AfterPush, NoLocals, counts, shared, flags
  <2>9. QED
    BY <1>5, <2>1, <2>2, <2>3, <2>4, <2>5, <2>6, <2>7, <2>8 DEF Push
<1>6. CASE UNCHANGED vars
  BY <1>6 DEF vars, counts, shared, flags
<1>7. QED
  BY <1>1, <1>2, <1>3, <1>4, <1>5, <1>6 DEF Next

LEMMA InitTypes == ASSUME Init PROVE TypeOK /\ LocalsRead
<1>1. loc \in [Threads -> [state : JobStates \cup {Empty}, prev : JobStates \cup {Empty},
                          print_id : Nat, behind : BOOLEAN]]
  BY DEF Init, NoLocals
<1>2. QED
  BY <1>1 DEF Init, TypeOK, LocalsRead, Threads, Labels

(* Every variable and every local keeps its type: in particular what _push  *)
(* resolves is always one of the cloud's events.                            *)
THEOREM TypeCorrect == Spec => []TypeOK
<1>1. Init => TypeOK /\ LocalsRead
  BY InitTypes
<1>2. QED
  BY <1>1, TypeStep, PTL DEF Spec

-----------------------------------------------------------------------------
Outside == {"off", "check", "info", "done"}

(* A step that changes neither field nor count, and moves threads only from *)
(* outside the section to outside of _push, keeps the lifecycle.            *)
LEMMA FrameStep ==
  ASSUME IInv, Lifecycle,
         UNCHANGED <<info, last_state, current_print_id, prints, ids, ends>>,
         \A t \in Threads :
           \/ pc'[t] \in Outside /\ ~InSection(t)
           \/ /\ pc'[t] = pc[t]
              /\ loc'[t].state = loc[t].state
              /\ loc'[t].prev = loc[t].prev
              /\ loc'[t].print_id = loc[t].print_id
  PROVE  Lifecycle'
<1>1. /\ \A t \in Threads : InSection(t)' => InSection(t)
      /\ NoneAtLast' => NoneAtLast
      /\ Announced' = Announced
  BY DEF InSection, NoneAtLast, Outside, Announced
<1>2. OneInSection'
  BY <1>1 DEF Lifecycle, OneInSection
<1>3. LocalsCurrent'
  BY DEF Lifecycle, LocalsCurrent, Outside
<1>4. IdFollowsState'
  BY <1>1 DEF Lifecycle, IdFollowsState, Outside
<1>5. EndNamesItsPrint'
  BY DEF Lifecycle, EndNamesItsPrint, Event, Outside
<1>6. PrintsCoverIds'
  BY <1>1 DEF Lifecycle, PrintsCoverIds, Outside
<1>7. QED
  BY <1>2, <1>3, <1>4, <1>5, <1>6 DEF Lifecycle

(* A report changes only what the snapshot and the count of prints say.     *)
LEMMA ReportStep ==
  ASSUME IInv, Lifecycle, Report PROVE Lifecycle'
<1> USE DEF Report, shared, flags
<1>1. /\ OneInSection' /\ LocalsCurrent' /\ IdFollowsState' /\ EndNamesItsPrint'
  <2>1. OneInSection' /\ LocalsCurrent'
    BY DEF Lifecycle, OneInSection, InSection, LocalsCurrent
  <2>2. IdFollowsState'
    BY DEF Lifecycle, IdFollowsState, NoneAtLast
  <2>3. EndNamesItsPrint'
    BY DEF Lifecycle, EndNamesItsPrint, Event
  <2>4. QED
    BY <2>1, <2>2, <2>3
<1>2. /\ prints <= prints'
      /\ \A n \in Nat : n <= prints /\ n + Announced <= prints
                        => n + Announced' <= prints'
  BY DEF IInv, TypeOK, Announced, Printing
<1>3. PrintsCoverIds'
  <2>1. /\ ids \in Nat /\ prints \in Nat /\ prints' \in Nat
        /\ Announced \in {0, 1}
    BY DEF IInv, TypeOK, Announced
  <2>2. /\ ids + 1 <= prints => ids + 1 <= prints'
        /\ ids <= prints => ids <= prints'
        /\ ids + Announced <= prints => ids + Announced' <= prints'
    BY <1>2, <2>1
  <2>3. PrintsCoverIds
    BY DEF Lifecycle
  <2> HIDE DEF Report
  <2>4. UNCHANGED <<pc, loc, last_state, ids>>
    BY DEF Report
  <2>5. QED
    BY <2>2, <2>3, <2>4 DEF PrintsCoverIds, NoneAtLast, Printing
<1>4. QED
  BY <1>1, <1>3 DEF Lifecycle

(* Entering _push while the other thread is in the section sets raced.      *)
LEMMA ReadInfoStep ==
  ASSUME IInv, Lifecycle, NEW t \in Threads, ReadInfo(t), ~raced' PROVE Lifecycle'
<1> USE DEF ReadInfo, Goto, shared, counts, IInv, TypeOK
<1>1. /\ \A u \in Threads \ {t} : ~InSection(u)
      /\ pc' = [pc EXCEPT ![t] = "job"]
  OBVIOUS
<1>2. OneInSection'
  BY <1>1 DEF OneInSection, InSection
<1>3. LocalsCurrent' /\ IdFollowsState' /\ EndNamesItsPrint' /\ PrintsCoverIds'
  BY <1>1 DEF Lifecycle, LocalsCurrent, IdFollowsState, NoneAtLast,
     EndNamesItsPrint, Event, PrintsCoverIds, Announced
<1>4. QED
  BY <1>2, <1>3 DEF Lifecycle

(* The state read now is covered by the prints announced so far.            *)
LEMMA ReadJobStep ==
  ASSUME IInv, Lifecycle, NEW t \in Threads, ReadJob(t) PROVE Lifecycle'
<1> USE DEF ReadJob, Goto, shared, counts, flags, IInv, TypeOK
<1>1. /\ pc[t] = "job" /\ pc' = [pc EXCEPT ![t] = "prev"]
      /\ loc' = [loc EXCEPT ![t].state = JobState(info)]
      /\ \A u \in Threads \ {t} : ~InSection(u)
  BY DEF Lifecycle, OneInSection, InSection
<1>2. OneInSection'
  BY <1>1 DEF Lifecycle, OneInSection, InSection
<1>3. LocalsCurrent' /\ IdFollowsState' /\ EndNamesItsPrint'
  BY <1>1 DEF Lifecycle, LocalsCurrent, IdFollowsState, NoneAtLast,
     EndNamesItsPrint, Event
<1>4. PrintsCoverIds'
  BY <1>1 DEF Lifecycle, PrintsCoverIds, NoneAtLast, InSection, Announced
<1>5. QED
  BY <1>2, <1>3, <1>4 DEF Lifecycle

LEMMA ReadPrevStep ==
  ASSUME IInv, Lifecycle, NEW t \in Threads, ReadPrev(t) PROVE Lifecycle'
<1> USE DEF ReadPrev, Goto, shared, counts, flags, IInv, TypeOK
<1>1. /\ pc[t] = "prev" /\ pc' = [pc EXCEPT ![t] = "capture"]
      /\ loc' = [loc EXCEPT ![t].prev = last_state]
      /\ \A u \in Threads \ {t} : ~InSection(u)
  BY DEF Lifecycle, OneInSection, InSection
<1>2. OneInSection'
  BY <1>1 DEF Lifecycle, OneInSection, InSection
<1>3. LocalsCurrent' /\ IdFollowsState' /\ EndNamesItsPrint'
  BY <1>1 DEF Lifecycle, LocalsCurrent, IdFollowsState, NoneAtLast,
     EndNamesItsPrint, Event
<1>4. PrintsCoverIds'
  BY <1>1 DEF Lifecycle, PrintsCoverIds, NoneAtLast, InSection, Announced
<1>5. QED
  BY <1>2, <1>3, <1>4 DEF Lifecycle

LEMMA CaptureIdStep ==
  ASSUME IInv, Lifecycle, NEW t \in Threads, CaptureId(t) PROVE Lifecycle'
<1> USE DEF CaptureId, Goto, shared, counts, flags, IInv, TypeOK
<1>1. /\ pc[t] = "capture" /\ pc' = [pc EXCEPT ![t] = "id"]
      /\ loc' = [loc EXCEPT ![t].print_id = current_print_id]
      /\ \A u \in Threads \ {t} : ~InSection(u)
  BY DEF Lifecycle, OneInSection, InSection
<1>2. OneInSection'
  BY <1>1 DEF Lifecycle, OneInSection, InSection
<1>3. LocalsCurrent' /\ IdFollowsState' /\ EndNamesItsPrint'
  BY <1>1 DEF Lifecycle, LocalsCurrent, IdFollowsState, NoneAtLast,
     EndNamesItsPrint, Event
<1>4. PrintsCoverIds'
  BY <1>1 DEF Lifecycle, PrintsCoverIds, NoneAtLast, InSection, Announced
<1>5. QED
  BY <1>2, <1>3, <1>4 DEF Lifecycle

(* The id is drawn on a step into the printing states, cleared on a step    *)
(* out of them, and kept by any other step.                                 *)
LEMMA UpdateIdStep ==
  ASSUME IInv, Lifecycle, NEW t \in Threads, UpdateId(t) PROVE Lifecycle'
<1> USE DEF UpdateId, Goto, counts, flags, IInv, TypeOK
<1>1. /\ pc[t] = "id" /\ pc' = [pc EXCEPT ![t] = "last"]
      /\ UNCHANGED <<info, last_state, prints>>
      /\ \A u \in Threads \ {t} : ~InSection(u)
  BY DEF Lifecycle, OneInSection, InSection
<1>2. /\ loc[t].prev = last_state /\ loc[t].print_id = current_print_id
      /\ loc[t].state \in JobStates
  BY <1>1 DEF Lifecycle, LocalsCurrent, LocalsRead
<1>3. /\ Event(t) = "started" <=> ~Printing(last_state) /\ Printing(loc[t].state)
      /\ Event(t) \in EndEvents <=> Printing(last_state) /\ ~Printing(loc[t].state)
  BY <1>2, ResolveFacts DEF Event
<1>4. current_print_id # 0 <=> Printing(last_state)
  BY <1>1 DEF Lifecycle, IdFollowsState, NoneAtLast, InSection
<1>5. /\ loc'[t].state = loc[t].state /\ loc'[t].prev = loc[t].prev
      /\ \A u \in Threads \ {t} : loc'[u] = loc[u]
  OBVIOUS
<1>6. OneInSection' /\ LocalsCurrent'
  BY <1>1, <1>2, <1>5 DEF Lifecycle, OneInSection, InSection, LocalsCurrent
<1>7. CASE Event(t) = "started"
  <2>1. /\ current_print_id = 0 /\ ids = ends /\ ends' = ends
        /\ ids' = ids + 1 /\ current_print_id' = ids + 1
    BY <1>3, <1>4, <1>7 DEF Lifecycle, IdFollowsState
  <2>2. IdFollowsState'
    BY <1>1, <1>3, <1>5, <1>7, <2>1 DEF IdFollowsState, NoneAtLast, InSection
  <2>3. EndNamesItsPrint'
    BY <1>1, <1>3, <1>5, <1>7, <2>1 DEF Lifecycle, EndNamesItsPrint, Event
  <2>4. PrintsCoverIds'
    BY <1>1, <1>3, <1>5, <1>7, <2>1 DEF Lifecycle, PrintsCoverIds, NoneAtLast, InSection
  <2>5. QED
    BY <1>6, <2>2, <2>3, <2>4 DEF Lifecycle
<1>8. CASE Event(t) \in EndEvents
  <2>1. /\ current_print_id = ids /\ ids = ends + 1 /\ ends' = ends + 1
        /\ ids' = ids /\ current_print_id' = 0 /\ loc' = loc
    BY <1>3, <1>4, <1>8 DEF Lifecycle, IdFollowsState
  <2>2. IdFollowsState'
    BY <1>1, <1>3, <1>8, <2>1 DEF IdFollowsState, NoneAtLast, InSection
  <2>3. EndNamesItsPrint'
    BY <1>1, <1>2, <2>1 DEF Lifecycle, EndNamesItsPrint, Event
  <2>4. PrintsCoverIds'
    BY <1>1, <1>3, <1>8, <2>1 DEF Lifecycle, PrintsCoverIds, NoneAtLast, InSection, Announced
  <2>5. QED
    BY <1>6, <2>2, <2>3, <2>4 DEF Lifecycle
<1>9. CASE Event(t) # "started" /\ Event(t) \notin EndEvents
  <2>1. UNCHANGED <<loc, ids, ends, current_print_id>>
    BY <1>9
  <2>2. IdFollowsState'
    BY <1>1, <1>3, <1>4, <1>9, <2>1 DEF Lifecycle, IdFollowsState, NoneAtLast, InSection
  <2>3. EndNamesItsPrint'
    BY <1>1, <1>9, <2>1 DEF Lifecycle, EndNamesItsPrint, Event
  <2>4. PrintsCoverIds'
    BY <1>1, <1>3, <1>9, <2>1 DEF Lifecycle, PrintsCoverIds, NoneAtLast, InSection, Announced
  <2>5. QED
    BY <1>6, <2>2, <2>3, <2>4 DEF Lifecycle
<1>10. QED
  BY <1>7, <1>8, <1>9

(* The state stored is the one the id was updated for.                      *)
LEMMA SetLastStep ==
  ASSUME IInv, Lifecycle, NEW t \in Threads, SetLast(t) PROVE Lifecycle'
<1> USE DEF IInv, TypeOK
<1>1. /\ pc[t] = "last" /\ last_state' = loc[t].state
      /\ UNCHANGED <<info, current_print_id, prints, ids, ends>>
      /\ pc'[t] \in {"check", "done", "post"}
      /\ \A u \in Threads \ {t} : ~InSection(u) /\ pc'[u] = pc[u] /\ loc'[u] = loc[u]
  BY DEF SetLast, AfterPush, counts, Lifecycle, OneInSection, InSection
<1>2. pc'[t] = "post" => /\ loc'[t].state = loc[t].state
                         /\ loc'[t].prev = loc[t].prev
                         /\ loc'[t].print_id = loc[t].print_id
  BY DEF SetLast, AfterPush
<1>3. \A u \in Threads : ~InSection(u)'
  BY <1>1 DEF InSection
<1>4. OneInSection' /\ LocalsCurrent'
  BY <1>3 DEF OneInSection, LocalsCurrent, InSection
<1>5. IdFollowsState'
  BY <1>1, <1>3 DEF Lifecycle, IdFollowsState, InSection
<1>6. EndNamesItsPrint'
  BY <1>1, <1>2, <1>3 DEF Lifecycle, EndNamesItsPrint, Event, InSection
<1>7. PrintsCoverIds'
  BY <1>1, <1>3 DEF Lifecycle, PrintsCoverIds, InSection, Announced
<1>8. QED
  BY <1>4, <1>5, <1>6, <1>7 DEF Lifecycle

LEMMA LifecycleStep ==
  ASSUME IInv, TypeOK', [Next]_vars, ~raced' PROVE Lifecycle'
<1>1. ~raced /\ Lifecycle
  BY DEF IInv, TypeOK, Next, Report, Start, Stop, Check, Push, ReadInfo, ReadJob,
     ReadPrev, CaptureId, UpdateId, SetLast, Post, PostFails, flags, vars
<1>2. CASE Report
  BY <1>1, <1>2, ReportStep
<1>3. CASE Start \/ Stop \/ Check \/ UNCHANGED vars
  BY <1>1, <1>3, FrameStep
     DEF Start, Stop, Check, Goto, vars, shared, counts, IInv, TypeOK, Threads,
         Outside, InSection
<1>4. ASSUME NEW t \in Threads, Push(t) PROVE Lifecycle'
  <2>1. CASE Post(t) \/ PostFails(t)
    BY <1>1, <2>1, FrameStep
       DEF Post, PostFails, Return, AfterPush, shared, counts, IInv, TypeOK,
           Outside, InSection
  <2>2. QED
    BY <1>1, <1>4, <2>1, ReadInfoStep, ReadJobStep, ReadPrevStep, CaptureIdStep,
       UpdateIdStep, SetLastStep DEF Push
<1>5. QED
  BY <1>2, <1>3, <1>4 DEF Next

LEMMA IInvInit == Init => IInv
<1> SUFFICES ASSUME Init PROVE IInv
  OBVIOUS
<1>1. JobState(info) = "idle"
  BY DEF Init, JobState
<1>2. Lifecycle
  BY <1>1 DEF Init, Lifecycle, OneInSection, InSection, LocalsCurrent, NoneAtLast,
     IdFollowsState, EndNamesItsPrint, PrintsCoverIds, Announced, Printing,
     PrintingStates, Empty, NoLocals
<1>3. QED
  BY <1>2, InitTypes DEF IInv

LEMMA IInvInvariant == Spec => []IInv
<1>1. Init => IInv
  BY IInvInit
<1>2. IInv /\ [Next]_vars => IInv'
  BY TypeStep, LifecycleStep DEF IInv
<1>3. QED
  BY <1>1, <1>2, PTL DEF Spec

-----------------------------------------------------------------------------
(* For every set of reports: while the two threads have not interleaved on  *)
(* the two fields there is a PrintId exactly while the state is a printing  *)
(* one.                                                                     *)
THEOREM PrintIdLifecycleHolds == Spec => []PrintIdLifecycle
<1>1. IInv => PrintIdLifecycle
  BY DEF IInv, Lifecycle, IdFollowsState, PrintIdLifecycle, Settled, NoneAtLast,
     InSection, Printing
<1>2. QED
  BY <1>1, IInvInvariant, PTL

(* An end event is posted with the id of a print that is over.              *)
THEOREM EndEventsHold == Spec => []EndEventsNameTheirPrint
<1>1. IInv => EndEventsNameTheirPrint
  BY DEF IInv, Lifecycle, EndNamesItsPrint, EndEventsNameTheirPrint
<1>2. QED
  BY <1>1, IInvInvariant, PTL

(* The pusher draws no more PrintIds than the printer announced prints.     *)
THEOREM NoPhantomPrintHolds == Spec => []NoPhantomPrint
<1>1. IInv => NoPhantomPrint
  BY DEF IInv, Lifecycle, PrintsCoverIds, NoPhantomPrint
<1>2. QED
  BY <1>1, IInvInvariant, PTL

(* Every PrintId but the current one has been ended exactly once.           *)
THEOREM EveryPrintEndsOnceHolds == Spec => []EveryPrintEndsOnce
<1>1. IInv => EveryPrintEndsOnce
  BY DEF IInv, Lifecycle, IdFollowsState, EveryPrintEndsOnce
<1>2. QED
  BY <1>1, IInvInvariant, PTL

-----------------------------------------------------------------------------
(* What the cloud shows.  A push is delivered once the cloud has its event; *)
(* the event of the newest push must fit the two fields it was made from.   *)
Delivers(event, print_id) ==
  /\ (print_id # 0 /\ event \notin EndEvents) <=> Printing(last_state)
  /\ print_id # 0 /\ event \notin EndEvents => print_id = current_print_id

Posting(t) == pc[t] = "post"

(* of two threads in their POST the later one is marked, and only then *)
PostOrder ==
  /\ \A t, u \in Threads : t # u /\ Posting(t) /\ Posting(u)
                           => loc[t].behind \/ loc[u].behind
  /\ \A t \in Threads : Posting(t) /\ loc[t].behind
                        => \E u \in Threads \ {t} : Posting(u)

(* the event about to be committed fits the state about to be stored *)
LastDelivers ==
  \A t \in Threads : pc[t] = "last" =>
    /\ (loc[t].print_id # 0 /\ Event(t) \notin EndEvents) <=> Printing(loc[t].state)
    /\ Printing(loc[t].state) => loc[t].print_id = current_print_id

(* no thread is about to replace the state by another one *)
Steady == \A t \in Threads : pc[t] = "last" => loc[t].state = loc[t].prev

Newest(t) == Posting(t) /\ (loc[t].behind \/ \A u \in Threads \ {t} : ~Posting(u))

NewestDelivers ==
  Steady =>
    /\ \A t \in Threads : Newest(t) => Delivers(Event(t), loc[t].print_id)
    /\ ~lost /\ (\A t \in Threads : ~Posting(t))
         => Delivers(cloud.event, cloud.print_id)

CloudInv == PostOrder /\ LastDelivers /\ NewestDelivers

CInv == IInv /\ (~raced /\ ~reordered => CloudInv)

(* A step that leaves the fields and the cloud alone and moves only threads *)
(* that are neither about to commit nor posting.                            *)
LEMMA CloudFrameStep ==
  ASSUME IInv, CloudInv,
         UNCHANGED <<last_state, current_print_id, cloud, lost>>,
         \A t \in Threads :
           \/ pc'[t] = pc[t] /\ loc'[t] = loc[t]
           \/ pc[t] \notin {"last", "post"} /\ pc'[t] \notin {"last", "post"}
  PROVE  CloudInv'
<1>1. PostOrder'
  BY DEF CloudInv, PostOrder, Posting
<1>2. LastDelivers'
  BY DEF CloudInv, LastDelivers, Event
<1>3. NewestDelivers'
  BY DEF CloudInv, NewestDelivers, Steady, Newest, Posting, Delivers, Event
<1>4. QED
  BY <1>1, <1>2, <1>3 DEF CloudInv

(* The id is updated together with the event that will tell the cloud.      *)
LEMMA CloudUpdateIdStep ==
  ASSUME IInv, Lifecycle, CloudInv, NEW t \in Threads, UpdateId(t) PROVE CloudInv'
<1> USE DEF UpdateId, Goto, flags, IInv, TypeOK
<1>1. /\ pc[t] = "id" /\ pc' = [pc EXCEPT ![t] = "last"]
      /\ UNCHANGED <<last_state, cloud, lost>>
      /\ \A u \in Threads \ {t} : ~InSection(u) /\ loc'[u] = loc[u]
      /\ loc'[t].state = loc[t].state /\ loc'[t].prev = loc[t].prev
  BY DEF Lifecycle, OneInSection, InSection
<1>2. /\ loc[t].prev = last_state /\ loc[t].print_id = current_print_id
      /\ loc[t].state \in JobStates
  BY <1>1 DEF Lifecycle, LocalsCurrent, LocalsRead
<1>3. /\ Event(t) = "started" <=> ~Printing(last_state) /\ Printing(loc[t].state)
      /\ Event(t) \in EndEvents <=> Printing(last_state) /\ ~Printing(loc[t].state)
  BY <1>2, ResolveFacts DEF Event
<1>4. current_print_id # 0 <=> Printing(last_state)
  BY <1>1 DEF Lifecycle, IdFollowsState, NoneAtLast, InSection
<1>5. PostOrder'
  BY <1>1 DEF CloudInv, PostOrder, Posting
<1>6. LastDelivers'
  <2>1. Event(t)' = Event(t)
    BY <1>1 DEF Event
  <2>2. CASE Event(t) = "started"
    BY <1>1, <1>3, <2>1, <2>2 DEF LastDelivers, EndEvents, InSection
  <2>3. CASE Event(t) # "started"
    BY <1>1, <1>2, <1>3, <1>4, <2>1, <2>3 DEF LastDelivers, InSection
  <2>4. QED
    BY <2>2, <2>3
<1>7. NewestDelivers'
  <2> SUFFICES ASSUME Steady' PROVE NewestDelivers'
    BY DEF NewestDelivers
  <2>1. loc[t].state = last_state
    BY <1>1, <1>2 DEF Steady
  <2>2. UNCHANGED <<current_print_id, loc>>
    BY <1>3, <2>1
  <2>3. Steady
    BY <1>1 DEF Steady, InSection
  <2>4. QED
    BY <1>1, <2>2, <2>3 DEF CloudInv, NewestDelivers, Newest, Posting, Delivers, Event
<1>8. QED
  BY <1>5, <1>6, <1>7 DEF CloudInv

(* The thread that commits becomes the newest, or had nothing to say.       *)
LEMMA CloudSetLastStep ==
  ASSUME IInv, Lifecycle, CloudInv, NEW t \in Threads, SetLast(t) PROVE CloudInv'
<1> USE DEF IInv, TypeOK
<1>1. /\ pc[t] = "last" /\ last_state' = loc[t].state
      /\ UNCHANGED <<current_print_id, cloud, lost>>
      /\ \A u \in Threads \ {t} : ~InSection(u) /\ pc'[u] = pc[u] /\ loc'[u] = loc[u]
  BY DEF SetLast, AfterPush, flags, Lifecycle, OneInSection, InSection
<1>2. loc[t].prev = last_state
  BY <1>1 DEF Lifecycle, LocalsCurrent
<1>3. Steady'
  <2>1. pc'[t] # "last"
    BY DEF SetLast, AfterPush
  <2>2. QED
    BY <1>1, <2>1 DEF Steady, InSection
<1>4. LastDelivers'
  <2>1. pc'[t] # "last"
    BY DEF SetLast, AfterPush
  <2>2. QED
    BY <1>1, <2>1 DEF LastDelivers, InSection
<1>5. CASE pc' = [pc EXCEPT ![t] = AfterPush(t)]
  <2>1. pc'[t] # "post" /\ loc[t].state = last_state
    BY <1>1, <1>2, <1>5 DEF SetLast, AfterPush, IsTransition
  <2>2. Steady
    BY <1>1, <1>2, <2>1 DEF Steady, InSection
  <2>3. PostOrder'
    BY <1>1, <2>1 DEF CloudInv, PostOrder, Posting
  <2>4. NewestDelivers'
    BY <1>1, <2>1, <2>2 DEF CloudInv, NewestDelivers, Newest, Posting, Delivers, Event
  <2>5. QED
    BY <1>4, <2>3, <2>4 DEF CloudInv
<1>6. CASE pc' = [pc EXCEPT ![t] = "post"]
  <2>1. /\ pc'[t] = "post"
        /\ loc'[t].state = loc[t].state /\ loc'[t].prev = loc[t].prev
        /\ loc'[t].print_id = loc[t].print_id
        /\ loc'[t].behind <=> OtherPosting(t)
    BY <1>1, <1>6 DEF SetLast, AfterPush
  <2>2. PostOrder'
    <3>1. \A u \in Threads \ {t} : Posting(u)' <=> Posting(u)
      BY <1>1 DEF Posting
    <3>2. OtherPosting(t) <=> \E u \in Threads \ {t} : Posting(u)
      BY DEF OtherPosting, Posting
    <3>3. QED
      BY <1>1, <2>1, <3>1, <3>2 DEF CloudInv, PostOrder, Posting, Threads
  <2>3. \A u \in Threads \ {t} : ~Newest(u)'
    BY <1>1, <2>1 DEF CloudInv, PostOrder, Newest, Posting, Threads
  <2>4. Delivers(Event(t), loc[t].print_id)'
    BY <1>1, <2>1 DEF CloudInv, LastDelivers, Delivers, Event
  <2>5. NewestDelivers'
    BY <2>1, <2>3, <2>4 DEF NewestDelivers, Posting
  <2>6. QED
    BY <1>4, <2>2, <2>5 DEF CloudInv
<1>7. QED
  BY <1>5, <1>6 DEF SetLast

(* A POST that ends, one way or the other, ends in the order of the commits *)
(* or sets reordered.                                                       *)
LEMMA CloudPostStep ==
  ASSUME IInv, CloudInv, NEW t \in Threads, Post(t) \/ PostFails(t), ~reordered'
  PROVE  CloudInv'
<1> USE DEF IInv, TypeOK
<1>1. /\ Posting(t) /\ ~loc[t].behind
      /\ UNCHANGED <<last_state, current_print_id>>
      /\ pc'[t] \notin {"last", "post"}
      /\ \A u \in Threads \ {t} : /\ pc'[u] = pc[u] /\ loc'[u].state = loc[u].state
                                 /\ loc'[u].prev = loc[u].prev
                                 /\ loc'[u].print_id = loc[u].print_id
                                 /\ ~loc'[u].behind
  BY DEF Post, PostFails, Return, AfterPush, shared, Posting
<1>2. Threads \ {t} = {IF t = "run" THEN "init" ELSE "run"}
  BY DEF Threads
<1>3. PostOrder'
  BY <1>1, <1>2 DEF PostOrder, Posting
<1>4. LastDelivers'
  BY <1>1 DEF CloudInv, LastDelivers, Event
<1>5. NewestDelivers'
  <2> SUFFICES ASSUME Steady' PROVE NewestDelivers'
    BY DEF NewestDelivers
  <2>1. Steady
    BY <1>1 DEF Steady, Posting
  <2>2. CASE \E u \in Threads \ {t} : Posting(u)
    <3>1. PICK u \in Threads \ {t} : Posting(u)
      BY <2>2
    <3>2. Delivers(Event(u), loc[u].print_id)
      BY <1>1, <2>1, <3>1 DEF CloudInv, PostOrder, NewestDelivers, Newest
    <3>3. Delivers(Event(u), loc[u].print_id)'
      BY <1>1, <3>1, <3>2 DEF Delivers, Event
    <3>4. Posting(u)'
      BY <1>1, <3>1 DEF Posting
    <3>5. QED
      BY <1>1, <1>2, <3>1, <3>3, <3>4 DEF NewestDelivers, Newest, Posting
  <2>3. CASE \A u \in Threads \ {t} : ~Posting(u)
    <3>1. Delivers(Event(t), loc[t].print_id)
      BY <1>1, <2>1, <2>3 DEF CloudInv, NewestDelivers, Newest
    <3>2. ~lost' => Delivers(cloud.event, cloud.print_id)'
      BY <1>1, <3>1 DEF Post, PostFails, Delivers
    <3>3. \A u \in Threads : ~Posting(u)'
      BY <1>1, <2>3 DEF Posting
    <3>4. QED
      BY <3>2, <3>3 DEF NewestDelivers, Newest
  <2>4. QED
    BY <2>2, <2>3
<1>6. QED
  BY <1>3, <1>4, <1>5 DEF CloudInv

LEMMA CInvInvariant == Spec => []CInv
<1>1. Init => CloudInv
  BY DEF Init, CloudInv, PostOrder, LastDelivers, NewestDelivers, Newest, Posting,
     Delivers, Printing, PrintingStates, Empty, Threads
<1>2. ASSUME CInv, IInv', [Next]_vars, ~raced', ~reordered' PROVE CloudInv'
  <2>1. Lifecycle /\ CloudInv
    BY <1>2 DEF CInv, IInv, TypeOK, Next, Report, Start, Stop, Check, Push, ReadInfo,
       ReadJob, ReadPrev, CaptureId, UpdateId, SetLast, Post, PostFails, flags, vars
  <2>2. IInv
    BY <1>2 DEF CInv
  <2>3. CASE Report \/ Start \/ Stop \/ Check \/ UNCHANGED vars
    BY <2>1, <2>2, <2>3, CloudFrameStep
       DEF Report, Start, Stop, Check, Goto, vars, shared, flags, IInv, TypeOK, Threads
  <2>4. ASSUME NEW t \in Threads, Push(t) PROVE CloudInv'
    <3>1. CASE ReadInfo(t) \/ ReadJob(t) \/ ReadPrev(t) \/ CaptureId(t)
      BY <2>1, <2>2, <3>1, CloudFrameStep
         DEF ReadInfo, ReadJob, ReadPrev, CaptureId, Goto, shared, flags, IInv, TypeOK
    <3>2. QED
      BY <1>2, <2>1, <2>2, <2>4, <3>1, CloudUpdateIdStep, CloudSetLastStep, CloudPostStep
         DEF Push
  <2>5. QED
    BY <1>2, <2>3, <2>4 DEF Next
<1>3. Init => CInv
  BY <1>1, InitTypes, IInvInit DEF CInv
<1>4. IInv /\ CInv /\ [Next]_vars /\ IInv' => CInv'
  BY <1>2 DEF CInv
<1>5. QED
  BY <1>3, <1>4, IInvInvariant, PTL DEF Spec

(* Between pushes the cloud shows the print that the pusher holds an id     *)
(* for, unless the last POST failed or two POSTs overtook each other.       *)
THEOREM CloudTracksPrintHolds == Spec => []CloudTracksPrint
<1>1. CInv => CloudTracksPrint
  BY DEF CInv, CloudInv, NewestDelivers, Steady, Posting, Delivers, CloudTracksPrint,
     CloudShowsPrint, Quiet, InPush, InSection, Printing
<1>2. QED
  BY <1>1, CInvInvariant, PTL
=============================================================================
