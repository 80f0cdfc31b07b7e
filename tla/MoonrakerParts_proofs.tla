------------------------ MODULE MoonrakerParts_proofs ------------------------
(***************************************************************************)
(* Theorems about the parts of the Moonraker bridge that MoonrakerParts    *)
(* puts side by side: the printer objects, for any set of reports, the     *)
(* G-code scripts, for any values and any number of lines, and the         *)
(* temperature store, for any size and number of readings.                 *)
(***************************************************************************)
EXTENDS MoonrakerParts, Sequences, TLAPS

(* The run's behaviours are behaviours of each part. *)
THEOREM EachPart == PartsSpec => Spec /\ Store!Spec /\ Gcode!Spec
<1>1. PartsInit => Init /\ Store!Init /\ Gcode!Init
  BY DEF PartsInit
<1>2. [PartsNext]_allVars => [Next]_vars /\ [Store!Next]_Store!vars /\ [Gcode!Next]_Gcode!vars
  BY DEF PartsNext, allVars, storeVars, gcodeVars,
         Store!vars, Store!writers, Store!reader, Gcode!vars
<1> QED BY <1>1, <1>2, PTL DEF PartsSpec, Spec, Store!Spec, Gcode!Spec

-----------------------------------------------------------------------------
(* The printer objects.  The invariants rest on two facts about the frozen *)
(* total: while it is positive it is the total shown, and a project that   *)
(* does not print leaves it at zero.                                       *)
Objects == [state : PrintStates, filename : FileNames \cup {Empty},
            progress : Fractions, print_duration : Nat, total_duration : Nat,
            print_time_left : Nat, sd_progress : Fractions, is_active : BOOLEAN,
            temperature : Temperature \cup {None}, webhooks : HookStates,
            frozen_total : Nat, frozen_filename : FileNames \cup {Empty}]

-----------------------------------------------------------------------------
(* The progress of a job is a fraction, also when no time is known.         *)
LEMMA ProgressType ==
  ASSUME NEW p \in PrintProject
  PROVE  Progress(p) \in Fractions
<1>1. p.print_time \in Nat /\ p.remain_time \in Nat /\ p.progress \in 0 .. 100
  BY DEF PrintProject
<1>2. CASE p.print_time + p.remain_time > 0
  BY <1>1, <1>2 DEF Progress, Fractions
<1>3. CASE ~(p.print_time + p.remain_time > 0)
  BY <1>1, <1>3 DEF Progress, Fractions
<1> QED BY <1>2, <1>3

(* Times in seconds are naturals, and their sum is the computed total.      *)
LEMMA TimesType ==
  ASSUME NEW p \in PrintProject
  PROVE  /\ Elapsed(p) \in Nat /\ Remains(p) \in Nat /\ Computed(p) \in Nat
         /\ p.filename \in FileNames \cup {Empty}
BY DEF PrintProject, Elapsed, Remains, Computed, Seconds

(* Whatever the printer calls its state, Moonraker's is a known one.        *)
LEMMA StateMapType ==
  ASSUME NEW s
  PROVE  StateMap(s) \in PrintStates
<1>1. CASE s \in {"printing", "paused", "error", "cancelled"}
  BY <1>1 DEF StateMap, PrintStates
<1>2. CASE s = "finish"
  BY <1>2 DEF StateMap, PrintStates
<1>3. CASE s \notin {"printing", "paused", "error", "cancelled", "finish"}
  BY <1>3 DEF StateMap, PrintStates
<1> QED BY <1>1, <1>2, <1>3

(* Freezing and thawing touch the two frozen fields only.                   *)
LEMMA FreezeType ==
  ASSUME NEW s \in Objects, NEW p \in PrintProject
  PROVE  Freeze(s, p) \in Objects /\ Thaw(s) \in Objects
BY TimesType DEF Freeze, Thaw, Objects

(* The whole update yields printer objects again.                           *)
LEMMA UpdateType ==
  ASSUME NEW s \in Objects, NEW info \in PrinterInfo
  PROVE  UpdateFromKobraInfo(s, info) \in Objects
<1> DEFINE a == SetState(s, info)
           b == SetProject(a, info)
           c == SetTemperature(b, info.temperature)
<1>1. a \in Objects
  BY StateMapType DEF SetState, Objects
<1>2. b \in Objects
  <2>1. CASE ~IsProject(info)
    BY <1>1, <2>1 DEF SetProject
  <2>2. CASE IsProject(info)
    <3> DEFINE p == info.project
               f == IF IsPrinting(info) THEN Freeze(a, p) ELSE Thaw(a)
    <3>1. p \in PrintProject
      BY <2>2 DEF IsProject, PrinterInfo
    <3>2. f \in Objects
      BY <1>1, <3>1, FreezeType
    <3>3. IsPrinting(info) \in BOOLEAN
      BY DEF IsPrinting, IsProject
    <3>4. f.frozen_total \in Nat
      BY <3>2 DEF Objects
    <3> DEFINE t == IF IsPrinting(info) THEN f.frozen_total ELSE Computed(p)
    <3>5. t \in Nat
      BY <3>1, <3>4, TimesType
    <3>6. b = [f EXCEPT !.filename = p.filename,
                        !.progress = Progress(p),
                        !.print_duration = Elapsed(p),
                        !.total_duration = t,
                        !.print_time_left = Remains(p),
                        !.sd_progress = Progress(p),
                        !.is_active = IsPrinting(info)]
      BY <2>2 DEF SetProject
    <3>7. /\ Progress(p) \in Fractions /\ Elapsed(p) \in Nat
          /\ Remains(p) \in Nat /\ p.filename \in FileNames \cup {Empty}
      BY <3>1, ProgressType, TimesType
    <3> HIDE DEF f, t, p, b
    <3> QED BY <3>2, <3>3, <3>5, <3>6, <3>7 DEF Objects
  <2> QED BY <2>1, <2>2
<1>3. c \in Objects
  <2>1. info.temperature \in Temperature
    BY DEF PrinterInfo
  <2> HIDE DEF b
  <2> QED BY <1>2, <2>1 DEF SetTemperature, Objects
<1>4. UpdateFromKobraInfo(s, info) = SetWebhooks(c)
  BY DEF UpdateFromKobraInfo
<1> HIDE DEF c
<1>5. c.state \in PrintStates
  BY <1>3 DEF Objects
<1>6. (IF c.state \in {"printing", "paused", "error"} THEN c.state ELSE "ready")
        \in HookStates
  BY DEF HookStates
<1>7. SetWebhooks(c) \in Objects
  BY <1>3, <1>6 DEF SetWebhooks, Objects
<1> QED BY <1>4, <1>7

(* MoonrakerState.update_from_kobra_info and update_from_kobra_temperature  *)
(* keep every object well typed, for any reports the printer may send.      *)
THEOREM TypeCorrect == Spec => []TypeOK
<1>1. Init => TypeOK
  BY DEF Init, TypeOK, PrintStates, HookStates, Fractions
<1>2. TypeOK /\ [Next]_vars => TypeOK'
  <2> SUFFICES ASSUME TypeOK, [Next]_vars PROVE TypeOK'
    OBVIOUS
  <2>0. m \in Objects /\ last \in Infos \cup {None}
    BY DEF TypeOK, Objects
  <2>1. CASE UpdateInfo
    <3>1. PICK info \in Infos : m' = UpdateFromKobraInfo(m, info) /\ last' = info
      BY <2>1 DEF UpdateInfo
    <3>2. info \in PrinterInfo
      BY InfosAssumption
    <3>3. m' \in Objects
      BY <2>0, <3>1, <3>2, UpdateType
    <3> QED BY <3>1, <3>3 DEF TypeOK, Objects
  <2>2. CASE UpdateTemperature
    <3>1. PICK t \in Temperature : m' = SetTemperature(m, t)
      BY <2>2 DEF UpdateTemperature
    <3>2. m' \in Objects
      BY <2>0, <3>1 DEF SetTemperature, Objects
    <3>3. last' = last
      BY <2>2 DEF UpdateTemperature
    <3> QED BY <2>0, <3>2, <3>3 DEF TypeOK, Objects
  <2>3. CASE UNCHANGED vars
    BY <2>0, <2>3 DEF vars, TypeOK, Objects
  <2> QED BY <2>1, <2>2, <2>3 DEF Next
<1> QED BY <1>1, <1>2, PTL DEF Spec
-----------------------------------------------------------------------------
(* What a report without a project leaves alone: everything but the state,  *)
(* the temperature and the webhooks.                                        *)
LEMMA UpdateWithoutProject ==
  ASSUME NEW s \in Objects, NEW info \in PrinterInfo, ~IsProject(info)
  PROVE  LET u == UpdateFromKobraInfo(s, info) IN
         /\ u.frozen_total = s.frozen_total
         /\ u.frozen_filename = s.frozen_filename
         /\ u.total_duration = s.total_duration
BY DEF UpdateFromKobraInfo, SetState, SetProject, SetTemperature, SetWebhooks, Objects

(* A project that does not print thaws the total and shows its own times.   *)
LEMMA UpdateNotPrinting ==
  ASSUME NEW s \in Objects, NEW info \in PrinterInfo,
         IsProject(info), ~IsPrinting(info)
  PROVE  LET u == UpdateFromKobraInfo(s, info) IN
         /\ u.frozen_total = 0
         /\ u.frozen_filename = Empty
         /\ u.total_duration = Computed(info.project)
BY DEF UpdateFromKobraInfo, SetState, SetProject, SetTemperature, SetWebhooks,
       Thaw, Objects

(* A project that prints shows the frozen total, which is the one it found  *)
(* when that is positive and of its file, and its own otherwise.            *)
LEMMA UpdatePrinting ==
  ASSUME NEW s \in Objects, NEW info \in PrinterInfo, IsPrinting(info)
  PROVE  LET u == UpdateFromKobraInfo(s, info)
             p == info.project
             keeps == s.frozen_filename = p.filename /\ s.frozen_total > 0
         IN /\ u.frozen_filename = p.filename
            /\ u.frozen_total = IF keeps THEN s.frozen_total ELSE Computed(p)
            /\ u.total_duration = u.frozen_total
<1> DEFINE p == info.project
           a == SetState(s, info)
           f == Freeze(a, p)
           keeps == s.frozen_filename = p.filename /\ s.frozen_total > 0
<1>1. IsProject(info) /\ p \in PrintProject
  BY DEF IsPrinting, IsProject, PrinterInfo
<1>2. /\ a \in Objects
      /\ a.frozen_filename = s.frozen_filename /\ a.frozen_total = s.frozen_total
  BY StateMapType DEF SetState, Objects
<1>3. /\ f \in Objects
      /\ f.frozen_filename = p.filename
      /\ f.frozen_total = IF keeps THEN s.frozen_total ELSE Computed(p)
  BY <1>1, <1>2, FreezeType, ZenonT(60) DEF Freeze, Objects
<1> DEFINE b == SetProject(a, info)
<1>4. b = [f EXCEPT !.filename = p.filename,
                    !.progress = Progress(p),
                    !.print_duration = Elapsed(p),
                    !.total_duration = f.frozen_total,
                    !.print_time_left = Remains(p),
                    !.sd_progress = Progress(p),
                    !.is_active = IsPrinting(info)]
  BY <1>1 DEF SetProject
<1> HIDE DEF f
<1>5. /\ b.frozen_filename = f.frozen_filename
      /\ b.frozen_total = f.frozen_total
      /\ b.total_duration = f.frozen_total
      /\ DOMAIN b = DOMAIN f
  BY <1>3, <1>4 DEF Objects
<1> HIDE DEF b
<1>6. UpdateFromKobraInfo(s, info) = SetWebhooks(SetTemperature(b, info.temperature))
  BY DEF UpdateFromKobraInfo, b, a
<1>7. {"frozen_filename", "frozen_total", "total_duration"} \subseteq DOMAIN b
  BY <1>3, <1>5 DEF Objects
<1> QED BY <1>3, <1>5, <1>6, <1>7 DEF SetTemperature, SetWebhooks

(* A temperature report changes the temperature only.                       *)
LEMMA UpdateOfTemperature ==
  ASSUME NEW s \in Objects, NEW t
  PROVE  LET u == SetTemperature(s, t) IN
         /\ u.frozen_total = s.frozen_total
         /\ u.frozen_filename = s.frozen_filename
         /\ u.total_duration = s.total_duration
BY DEF SetTemperature, Objects

-----------------------------------------------------------------------------
FrozenShown == m.frozen_total > 0 => m.total_duration = m.frozen_total

ThawedUnlessPrinting ==
  IsProject(last) /\ ~IsPrinting(last) => m.frozen_total = 0

EstimateInv == TypeOK /\ FrozenShown /\ ThawedUnlessPrinting /\ EstimateTaken

(* The steps of the model, and what each does to the estimate.              *)
LEMMA StepCases ==
  ASSUME TypeOK, [Next]_vars
  PROVE  \/ /\ last' \in PrinterInfo
            /\ m' = UpdateFromKobraInfo(m, last')
         \/ /\ last' = last
            /\ m'.frozen_total = m.frozen_total
            /\ m'.frozen_filename = m.frozen_filename
            /\ m'.total_duration = m.total_duration
<1>0. m \in Objects
  BY DEF TypeOK, Objects
<1>1. CASE UpdateInfo
  BY <1>1, InfosAssumption DEF UpdateInfo
<1>2. CASE UpdateTemperature
  BY <1>0, <1>2, UpdateOfTemperature DEF UpdateTemperature
<1>3. CASE UNCHANGED vars
  BY <1>3 DEF vars
<1> QED BY <1>1, <1>2, <1>3 DEF Next

LEMMA EstimateStep == EstimateInv /\ TypeOK' /\ [Next]_vars => EstimateInv'
<1> SUFFICES ASSUME EstimateInv, TypeOK', [Next]_vars PROVE EstimateInv'
  OBVIOUS
<1>0. m \in Objects /\ TypeOK
  BY DEF EstimateInv, TypeOK, Objects
<1>a. m.frozen_total \in Nat
  BY <1>0 DEF Objects
<1>1. CASE last' \in PrinterInfo /\ m' = UpdateFromKobraInfo(m, last')
  <2>1. CASE ~IsProject(last')
    <3>1. ~IsPrinting(last')
      BY <2>1 DEF IsPrinting
    <3>2. m'.frozen_total = m.frozen_total /\ m'.total_duration = m.total_duration
      BY <1>0, <1>1, <2>1, UpdateWithoutProject
    <3> QED BY <2>1, <3>1, <3>2
        DEF EstimateInv, FrozenShown, ThawedUnlessPrinting, EstimateTaken
  <2>2. CASE IsProject(last') /\ ~IsPrinting(last')
    <3>1. m'.frozen_total = 0
      BY <1>0, <1>1, <2>2, UpdateNotPrinting
    <3> QED BY <2>2, <3>1
        DEF EstimateInv, FrozenShown, ThawedUnlessPrinting, EstimateTaken
  <2>3. CASE IsPrinting(last')
    <3>1. /\ m'.frozen_total \in {m.frozen_total, Computed((last').project)}
          /\ m'.total_duration = m'.frozen_total
          /\ Computed((last').project) > 0 => m'.frozen_total > 0
      BY <1>0, <1>1, <2>3, UpdatePrinting
    <3>2. Computed(last.project)' = Computed((last').project)
      BY DEF Computed, Elapsed, Remains, Seconds
    <3>3. IsPrinting(last)'
      BY <2>3 DEF IsPrinting, IsProject
    <3> QED BY <3>1, <3>2, <3>3
        DEF EstimateInv, FrozenShown, ThawedUnlessPrinting, EstimateTaken
  <2> QED BY <2>1, <2>2, <2>3
<1>2. CASE /\ last' = last
           /\ m'.frozen_total = m.frozen_total
           /\ m'.total_duration = m.total_duration
  BY <1>2 DEF EstimateInv, FrozenShown, ThawedUnlessPrinting, EstimateTaken,
              IsPrinting, IsProject, Computed, Elapsed, Remains, Seconds
<1> QED BY <1>0, <1>1, <1>2, StepCases

LEMMA EstimateInvariant == Spec => []EstimateInv
<1>1. Init => EstimateInv
  <2> SUFFICES ASSUME Init PROVE EstimateInv
    OBVIOUS
  <2>1. TypeOK
    BY DEF Init, TypeOK, PrintStates, HookStates, Fractions
  <2>2. m.frozen_total = 0 /\ last = None
    BY DEF Init
  <2> QED BY <2>1, <2>2 DEF EstimateInv, FrozenShown, ThawedUnlessPrinting,
                            EstimateTaken, IsPrinting, IsProject
<1>2. EstimateInv /\ TypeOK' /\ [Next]_vars => EstimateInv'
  BY EstimateStep
<1> QED BY <1>1, <1>2, TypeCorrect, PTL DEF Spec

(* A positive estimate is shown as soon as a print reports one, although    *)
(* the first reports of a print may carry zero times.                       *)
THEOREM EstimateTakenHolds == Spec => []EstimateTaken
<1>1. EstimateInv => EstimateTaken
  BY DEF EstimateInv
<1> QED BY <1>1, EstimateInvariant, PTL

(* A print that follows a project that was not printing starts with its own *)
(* estimate, because that project has thawed the total.                     *)
THEOREM FreshAfterProjectHolds == Spec => FreshAfterProject
<1> DEFINE Fresh == IsProject(last) /\ ~IsPrinting(last) /\ IsPrinting(last')
                      => m'.total_duration = Computed((last').project)
<1>1. EstimateInv /\ [Next]_vars => [Fresh]_last
  <2> SUFFICES ASSUME EstimateInv, [Next]_vars, last' # last,
                      IsProject(last), ~IsPrinting(last), IsPrinting(last')
               PROVE  m'.total_duration = Computed((last').project)
    OBVIOUS
  <2>1. m \in Objects /\ TypeOK
    BY DEF EstimateInv, TypeOK, Objects
  <2>2. last' \in PrinterInfo /\ m' = UpdateFromKobraInfo(m, last')
    BY <2>1, StepCases
  <2>3. ~(m.frozen_total > 0)
    BY DEF EstimateInv, ThawedUnlessPrinting
  <2> QED BY <2>1, <2>2, <2>3, UpdatePrinting
<1>2. Spec => [][Fresh]_last
  BY <1>1, EstimateInvariant, PTL DEF Spec
<1> QED BY <1>2, PTL DEF FreshAfterProject

-----------------------------------------------------------------------------
(* MoonrakerState implements FrozenEstimate: a client that subtracts the    *)
(* print duration from the total never sees the total of a job change.      *)
THEOREM EstimateFrozenHolds == Spec => EstimateFrozen
<1> DEFINE job == IF m.frozen_total > 0 THEN m.frozen_filename ELSE None
<1>1. Init => Estimate!Init
  BY DEF Init, Estimate!Init
<1>2. EstimateInv /\ TypeOK' /\ [Next]_vars
        => [Estimate!Next]_<<job, m.total_duration>>
  <2> SUFFICES ASSUME EstimateInv, TypeOK', [Next]_vars
               PROVE  [Estimate!Next]_<<job, m.total_duration>>
    OBVIOUS
  <2>1. m \in Objects /\ TypeOK /\ FrozenShown
    BY DEF EstimateInv, TypeOK, Objects
  <2>2. /\ m.frozen_total \in Nat /\ m'.frozen_total \in Nat
        /\ m'.total_duration \in Nat
        /\ m'.frozen_filename \in FileNames \cup {Empty}
    BY <2>1 DEF TypeOK, Objects
  <2>3. CASE last' \in PrinterInfo /\ m' = UpdateFromKobraInfo(m, last')
    <3>1. CASE ~IsProject(last')
      BY <2>1, <2>3, <3>1, UpdateWithoutProject
    <3>2. CASE IsProject(last') /\ ~IsPrinting(last')
      <4>1. m'.frozen_total = 0
        BY <2>1, <2>3, <3>2, UpdateNotPrinting
      <4> QED BY <2>2, <4>1 DEF Estimate!Next, Estimate!Drop
    <3>3. CASE IsPrinting(last')
      <4> DEFINE p == (last').project
                 keeps == m.frozen_filename = p.filename /\ m.frozen_total > 0
      <4>1. /\ m'.frozen_filename = p.filename
            /\ m'.frozen_total = IF keeps THEN m.frozen_total ELSE Computed(p)
            /\ m'.total_duration = m'.frozen_total
        BY <2>1, <2>3, <3>3, UpdatePrinting
      <4> HIDE DEF p
      <4>2. CASE keeps
        BY <2>1, <4>1, <4>2 DEF FrozenShown
      <4>3. CASE ~keeps /\ m'.frozen_total = 0
        BY <2>2, <4>3 DEF Estimate!Next, Estimate!Drop
      <4>4. CASE ~keeps /\ m'.frozen_total > 0
        <5>1. job' = p.filename /\ p.filename \in FileNames \cup {Empty}
          BY <2>2, <4>1, <4>4
        <5>2. job # p.filename
          BY <4>4, <5>1, NoneAssumption
        <5>3. m'.total_duration \in Nat \ {0}
          BY <2>2, <4>1, <4>4
        <5> QED BY <5>1, <5>2, <5>3 DEF Estimate!Next, Estimate!Take
      <4> QED BY <2>2, <4>2, <4>3, <4>4
    <3> QED BY <3>1, <3>2, <3>3
  <2>4. CASE /\ m'.frozen_total = m.frozen_total
             /\ m'.frozen_filename = m.frozen_filename
             /\ m'.total_duration = m.total_duration
    BY <2>4
  <2> QED BY <2>1, <2>3, <2>4, StepCases
<1>3. Spec => Estimate!Spec
  BY <1>1, <1>2, EstimateInvariant, TypeCorrect, PTL DEF Spec, Estimate!Spec
<1> QED BY <1>3 DEF EstimateFrozen

-----------------------------------------------------------------------------
(* The G-code scripts.  The strengthening says for each setting which half  *)
(* of a script it is in: not touched, so the printer already has what is    *)
(* meant, or in the updates, which then hold what is meant.                 *)
Done(k)    == k \notin lost => printer[k] = meant[k]
Pending(k) == IF k \in DOMAIN updates THEN meant[k] = Gcode!Applied(k, updates[k]) ELSE Done(k)

GcodeInv ==
  /\ Gcode!TypeOK
  /\ pc = "idle" => \A k \in Gcode!Settings : Done(k)
  /\ pc \in {"parse", "temps"} => \A k \in Gcode!Settings : Pending(k)
  /\ pc = "fan" => Done("nozzle") /\ Done("bed") /\ Pending("fan")
  /\ pc = "parse" => printer = before
  /\ raised => pc = "idle" /\ printer = before

-----------------------------------------------------------------------------
(* int() of a quotient is a whole number. *)
LEMMA PercentInt == ASSUME NEW s \in Int PROVE Gcode!Percent(s) \in Int
BY DEF Gcode!Percent, Gcode!Whole

(* The clamp gives a speed of the fan. *)
LEMMA ClampRange == ASSUME NEW x \in Int PROVE Gcode!Clamp(x) \in 0..100
BY DEF Gcode!Clamp

(* Every setting a line can make is a whole number. *)
LEMMA ValueInt == ASSUME NEW l \in Gcode!Line PROVE Gcode!ValueOf(l) \in Int
<1>1. l.s \in Int \cup {NoValue} /\ l.cmd \in {"nozzle", "bed", "fan", "off", "other"}
  BY ValuesAssumption DEF Gcode!Line
<1>2. Gcode!Default(l.s, 0) \in Int /\ Gcode!Default(l.s, 255) \in Int
  BY <1>1 DEF Gcode!Default
<1>3. Gcode!Percent(Gcode!Default(l.s, 255)) \in Int
  BY <1>2, PercentInt
<1> QED BY <1>1, <1>2, <1>3 DEF Gcode!ValueOf

(* A line that is understood is about a setting of the printer. *)
LEMMA KeyOfLine ==
  ASSUME NEW l \in Gcode!Line, l.cmd # "other" PROVE Gcode!KeyOf(l) \in Gcode!Settings
BY DEF Gcode!Line, Gcode!KeyOf, Gcode!Settings

-----------------------------------------------------------------------------
LEMMA GcodeInitInv == Gcode!Init => GcodeInv
<1> SUFFICES ASSUME Gcode!Init PROVE GcodeInv
  OBVIOUS
<1>1. /\ DOMAIN updates = {}
      /\ printer \in [Gcode!Settings -> Int] /\ meant = printer /\ before = printer
  BY DEF Gcode!Init, Gcode!NoUpdates
<1>2. printer["fan"] = 0
  BY DEF Gcode!Init, Gcode!Settings
<1>3. Gcode!TypeOK
  <2>1. pc \in {"idle", "parse", "temps", "fan"} /\ raised \in BOOLEAN /\ kobra \in BOOLEAN
    BY DEF Gcode!Init
  <2>2. lines \in Nat /\ printer["fan"] \in 0..100
    BY <1>2 DEF Gcode!Init
  <2>3. lost \subseteq Gcode!Settings
    BY DEF Gcode!Init
  <2>4. DOMAIN updates \subseteq Gcode!Settings /\ \A k \in DOMAIN updates : updates[k] \in Int
    BY <1>1
  <2> QED BY <1>1, <2>1, <2>2, <2>3, <2>4 DEF Gcode!TypeOK
<1> QED BY <1>1, <1>3 DEF Gcode!Init, GcodeInv, Done

LEMMA GcodeStopInv == GcodeInv /\ Gcode!Stop => GcodeInv'
<1> SUFFICES ASSUME GcodeInv, Gcode!Stop PROVE GcodeInv'
  OBVIOUS
<1>1. /\ kobra' = FALSE
      /\ UNCHANGED <<pc, lines, updates, printer, meant, lost, before, raised>>
  BY DEF Gcode!Stop
<1>2. Gcode!TypeOK'
  BY <1>1 DEF GcodeInv, Gcode!TypeOK
<1> QED BY <1>1, <1>2 DEF GcodeInv, Done, Pending

LEMMA GcodeIgnoreInv == GcodeInv /\ Gcode!Ignore => GcodeInv'
BY DEF GcodeInv, Gcode!Ignore, Gcode!vars, Gcode!TypeOK, Done, Pending

LEMMA GcodeBeginInv == GcodeInv /\ Gcode!Begin => GcodeInv'
<1> SUFFICES ASSUME GcodeInv, Gcode!Begin PROVE GcodeInv'
  OBVIOUS
<1>1. DOMAIN updates' = {}
  BY DEF Gcode!Begin, Gcode!NoUpdates
<1>2. Gcode!TypeOK'
  BY <1>1 DEF GcodeInv, Gcode!TypeOK, Gcode!Begin
<1>3. (\A k \in Gcode!Settings : Pending(k))'
  BY <1>1 DEF GcodeInv, Gcode!Begin, Pending, Done
<1> QED BY <1>2, <1>3 DEF GcodeInv, Gcode!Begin

LEMMA ParseInv == ASSUME NEW l \in Gcode!Line PROVE GcodeInv /\ Gcode!Parse(l) => GcodeInv'
<1> SUFFICES ASSUME GcodeInv, Gcode!Parse(l) PROVE GcodeInv'
  OBVIOUS
<1> DEFINE K == Gcode!KeyOf(l)
           V == Gcode!ValueOf(l)
           W == Gcode!Applied(K, V)
<1>1. K \in Gcode!Settings /\ V \in Int /\ W \in Int
  BY KeyOfLine, ValueInt, ClampRange DEF Gcode!Parse, Gcode!Applied
<1>2. /\ updates' = [k \in DOMAIN updates \cup {K} |-> IF k = K THEN V ELSE updates[k]]
      /\ meant' = [meant EXCEPT ![K] = W]
      /\ lines' = lines + 1
      /\ pc = "parse" /\ UNCHANGED <<kobra, pc, printer, lost, before, raised>>
  BY DEF Gcode!Parse
<1>3. W = Gcode!Applied(K, V)
  OBVIOUS
<1> HIDE DEF K, V, W
<1>4. Gcode!TypeOK'
  BY <1>1, <1>2 DEF GcodeInv, Gcode!TypeOK
<1>5. ASSUME NEW k \in Gcode!Settings PROVE Pending(k)'
  <2>1. CASE k = K
    <3>1. k \in DOMAIN updates' /\ updates'[k] = V /\ meant'[k] = W
      BY <2>1, <1>1, <1>2 DEF GcodeInv, Gcode!TypeOK
    <3> QED BY <3>1, <2>1, <1>3 DEF Pending
  <2>2. CASE k # K
    <3>1. /\ k \in DOMAIN updates' <=> k \in DOMAIN updates
          /\ k \in DOMAIN updates => updates'[k] = updates[k]
          /\ meant'[k] = meant[k]
      BY <2>2, <1>1, <1>2 DEF GcodeInv, Gcode!TypeOK
    <3>2. Pending(k)
      BY <1>2 DEF GcodeInv
    <3> QED BY <3>1, <3>2, <1>2 DEF Pending, Done
  <2> QED BY <2>1, <2>2
<1> QED BY <1>2, <1>4, <1>5 DEF GcodeInv

LEMMA SkipInv == ASSUME NEW l \in Gcode!Line PROVE GcodeInv /\ Gcode!Skip(l) => GcodeInv'
BY DEF GcodeInv, Gcode!Skip, Gcode!TypeOK, Done, Pending

LEMMA RaiseInv == GcodeInv /\ Gcode!Raise => GcodeInv'
<1> SUFFICES ASSUME GcodeInv, Gcode!Raise PROVE GcodeInv'
  OBVIOUS
<1>1. Gcode!TypeOK'
  BY DEF GcodeInv, Gcode!TypeOK, Gcode!Raise
<1>2. (\A k \in Gcode!Settings : Done(k))'
  BY DEF Gcode!Raise, Done
<1> QED BY <1>1, <1>2 DEF GcodeInv, Gcode!Raise

LEMMA EndInv == GcodeInv /\ Gcode!End => GcodeInv'
<1> SUFFICES ASSUME GcodeInv, Gcode!End PROVE GcodeInv'
  OBVIOUS
<1>1. Gcode!TypeOK'
  BY DEF GcodeInv, Gcode!TypeOK, Gcode!End
<1>2. (\A k \in Gcode!Settings : Pending(k))'
  BY DEF GcodeInv, Gcode!End, Pending, Done
<1>3. DOMAIN updates = {} => \A k \in Gcode!Settings : Done(k)'
  BY <1>2 DEF Pending, Done, Gcode!End
<1> QED BY <1>1, <1>2, <1>3 DEF GcodeInv, Gcode!End

(* An update makes the settings it holds those of the printer, or loses them. *)
LEMMA PublishEffect ==
  ASSUME Gcode!TypeOK, NEW ks \in SUBSET Gcode!Settings, NEW value, Gcode!Publish(ks, value),
         \A k \in ks : value[k] \in Int
  PROVE  /\ printer' \in [Gcode!Settings -> Int] /\ lost' \subseteq Gcode!Settings
         /\ \A k \in ks : k \notin lost' => printer'[k] = value[k]
         /\ \A k \in Gcode!Settings \ ks : printer'[k] = printer[k] /\ (k \in lost' <=> k \in lost)
BY DEF Gcode!TypeOK, Gcode!Publish

LEMMA PublishTempsInv == GcodeInv /\ Gcode!PublishTemps => GcodeInv'
<1> SUFFICES ASSUME GcodeInv, Gcode!PublishTemps PROVE GcodeInv'
  OBVIOUS
<1> DEFINE ks == DOMAIN updates \ {"fan"}
<1>1. ks \in SUBSET Gcode!Settings /\ \A k \in ks : updates[k] \in Int
  BY DEF GcodeInv, Gcode!TypeOK
<1>2. pc = "temps" /\ pc' = "fan" /\ UNCHANGED <<kobra, lines, updates, meant, before, raised>>
  BY DEF Gcode!PublishTemps
<1>3. /\ printer' \in [Gcode!Settings -> Int] /\ lost' \subseteq Gcode!Settings
      /\ \A k \in ks : k \notin lost' => printer'[k] = updates[k]
      /\ \A k \in Gcode!Settings \ ks : printer'[k] = printer[k] /\ (k \in lost' <=> k \in lost)
  BY <1>1, PublishEffect DEF Gcode!PublishTemps, GcodeInv
<1>4. Gcode!TypeOK'
  <2>1. printer'["fan"] = printer["fan"]
    BY <1>3 DEF Gcode!Settings
  <2> QED BY <1>2, <1>3, <2>1 DEF GcodeInv, Gcode!TypeOK
<1>5. ASSUME NEW k \in {"nozzle", "bed"} PROVE Done(k)'
  <2>1. Pending(k) /\ k \in Gcode!Settings
    BY <1>2 DEF GcodeInv, Gcode!Settings
  <2>2. k \in ks => meant[k] = updates[k]
    BY <2>1 DEF Pending, Gcode!Applied
  <2>3. k \notin ks => Done(k)
    BY <2>1 DEF Pending
  <2> QED BY <1>2, <1>3, <2>1, <2>2, <2>3 DEF Done
<1>6. Pending("fan")'
  BY <1>2, <1>3 DEF GcodeInv, Pending, Done, Gcode!Settings
<1> QED BY <1>2, <1>4, <1>5, <1>6 DEF GcodeInv

LEMMA PublishFanInv == GcodeInv /\ Gcode!PublishFan => GcodeInv'
<1> SUFFICES ASSUME GcodeInv, Gcode!PublishFan PROVE GcodeInv'
  OBVIOUS
<1> DEFINE ks == DOMAIN updates \cap {"fan"}
           sent == [k \in DOMAIN updates |-> Gcode!Clamp(updates[k])]
<1>1. ks \in SUBSET Gcode!Settings
  BY DEF GcodeInv, Gcode!TypeOK
<1>2. pc = "fan" /\ pc' = "idle" /\ UNCHANGED <<kobra, lines, updates, meant, before, raised>>
  BY DEF Gcode!PublishFan
<1>3. \A k \in ks : k = "fan" /\ sent[k] = Gcode!Clamp(updates[k]) /\ sent[k] \in 0..100
  BY ClampRange DEF GcodeInv, Gcode!TypeOK
<1>4. Gcode!Publish(ks, sent)
  BY DEF Gcode!PublishFan
<1> HIDE DEF sent
<1>5. /\ printer' \in [Gcode!Settings -> Int] /\ lost' \subseteq Gcode!Settings
      /\ \A k \in ks : k \notin lost' => printer'[k] = sent[k]
      /\ \A k \in Gcode!Settings \ ks : printer'[k] = printer[k] /\ (k \in lost' <=> k \in lost)
  <2>1. \A k \in ks : sent[k] \in Int
    BY <1>3
  <2> QED BY <1>1, <1>4, <2>1, PublishEffect DEF GcodeInv
<1>6. Gcode!TypeOK'
  <2>1. printer'["fan"] \in 0..100
    BY <1>3, <1>4 DEF Gcode!Publish, GcodeInv, Gcode!TypeOK, Gcode!Settings
  <2> QED BY <1>2, <1>5, <2>1 DEF GcodeInv, Gcode!TypeOK
<1>7. ASSUME NEW k \in Gcode!Settings PROVE Done(k)'
  <2>1. CASE k \in ks
    <3>1. meant[k] = sent[k]
      BY <2>1, <1>2, <1>3 DEF GcodeInv, Pending, Gcode!Applied
    <3> QED BY <2>1, <3>1, <1>2, <1>5 DEF Done
  <2>2. CASE k \notin ks
    <3>1. Done(k)
      BY <2>2, <1>2 DEF GcodeInv, Pending, Gcode!Settings
    <3> QED BY <2>2, <3>1, <1>2, <1>5 DEF Done
  <2> QED BY <2>1, <2>2
<1> QED BY <1>2, <1>6, <1>7 DEF GcodeInv


LEMMA GcodeIdle == GcodeInv /\ UNCHANGED Gcode!vars => GcodeInv'
BY DEF GcodeInv, Gcode!TypeOK, Done, Pending, Gcode!vars

LEMMA GcodeStep == GcodeInv /\ Gcode!Next => GcodeInv'
BY GcodeStopInv, GcodeIgnoreInv, GcodeBeginInv, ParseInv, SkipInv, RaiseInv, EndInv, PublishTempsInv, PublishFanInv DEF Gcode!Next

LEMMA GcodeInvariant == Gcode!Spec => []GcodeInv
<1>1. GcodeInv /\ [Gcode!Next]_Gcode!vars => GcodeInv'
  BY GcodeStep, GcodeIdle
<1> QED BY GcodeInitInv, <1>1, PTL DEF Gcode!Spec

(* Types for every script: whatever its numbers, the fan gets 0 to 100. *)
THEOREM ScriptTypes == Gcode!Spec => []Gcode!TypeOK
<1>1. GcodeInv => Gcode!TypeOK
  BY DEF GcodeInv
<1> QED BY <1>1, GcodeInvariant, PTL

(* Folding the lines of a script into two updates is as good as acting on   *)
(* each of them, and a script that raises leaves the printer as it was.     *)
THEOREM SettingsArrive == Gcode!Spec => []SettingsAsScripted
<1>1. GcodeInv => SettingsAsScripted
  BY DEF GcodeInv, SettingsAsScripted, Gcode!SettingsAsScripted, Done
<1> QED BY <1>1, GcodeInvariant, PTL

-----------------------------------------------------------------------------
(* The temperature store.  A thread in append() has still to append to the  *)
(* series from at[t] on; the length of a series counts the readings but     *)
(* for those, as far as the store keeps them.                               *)
Threads == Store!Threads
Series  == Store!Series

Pend(t, s) == IF at[t] # 0 /\ at[t] <= s THEN 1 ELSE 0
Behind(s)  == Pend("main", s) + Pend("mqtt", s)
Kept(n)    == IF n <= MaxLen THEN n ELSE MaxLen

StoreTypes ==
  /\ store \in [Series -> Seq(Nat)] /\ at \in [Threads -> 0..4] /\ stamp \in [Threads -> Nat]
  /\ readings \in Nat /\ raced \in BOOLEAN
  /\ loop \in 0..4 /\ missed \in Nat /\ reply = [s \in Series |-> reply[s]]
  /\ \A s \in Series : s < loop => reply[s] \in Seq(Nat)

Counted ==
  /\ Behind(4) <= readings
  /\ \A s \in Series : Len(store[s]) = Kept(readings - Behind(s))

(* As long as no two threads were in append() at once, the series that the  *)
(* one in append() has passed are one reading ahead of the others.          *)
Together ==
  ~raced =>
    /\ Store!AtRest => \A s \in Series : store[s] = store[1]
    /\ \A t, u \in Threads : at[t] # 0 /\ at[u] # 0 => t = u
    /\ \A t \in Threads : at[t] # 0 => \A s \in Series :
         store[s] = IF s < at[t] THEN Store!Push(store[4], stamp[t]) ELSE store[4]

(* The newest reading of a series is the number of those appended to it.    *)
Pushed(s) == readings - Behind(s)

Ordered ==
  ~raced => /\ \A t \in Threads : at[t] # 0 => stamp[t] = readings
            /\ \A s \in Series : Store!Newest(store[s]) = Pushed(s)

(* What is in every series when the copying begins is in every copy; what   *)
(* was appended to the first series since then, or to it only so far, are   *)
(* the readings that are missed in some.                                    *)
Copied == {s \in Series : s < loop}
Base   == Pushed(1) - missed

Copying ==
  loop > 1 =>
    /\ Base \in Nat /\ Base <= Pushed(4)
    /\ \A s \in Copied :
         /\ Kept(Base) <= Len(reply[s]) /\ Len(reply[s]) <= Kept(Pushed(1))
         /\ ~raced => Base <= Store!Newest(reply[s]) /\ Store!Newest(reply[s]) <= Pushed(1)
    /\ missed = 0 => /\ \A t \in Threads : at[t] <= 1
                     /\ ~raced => \A s \in Copied : reply[s] = store[1]

Overlap ==
  loop = 0 => \/ \A s \in Series : reply[s] = NoValue
              \/ \A s, u \in Series :
                   /\ Len(reply[s]) <= Len(reply[u]) + missed
                   /\ ~raced => Store!Newest(reply[s]) <= Store!Newest(reply[u]) + missed
                   /\ ~raced /\ missed = 0 => reply[s] = reply[u]

StoreInv == StoreTypes /\ Counted /\ Together /\ Ordered /\ Copying /\ Overlap

-----------------------------------------------------------------------------
(* A deque with maxlen has one reading more, or as many as it had. *)
LEMMA PushFacts ==
  ASSUME NEW q \in Seq(Nat), NEW r \in Nat
  PROVE  /\ Store!Push(q, r) \in Seq(Nat) /\ Len(q) \in Nat
         /\ Len(Store!Push(q, r)) = IF Len(q) < MaxLen THEN Len(q) + 1 ELSE Len(q)
<1>1. CASE Len(q) < MaxLen
  <2>1. Store!Push(q, r) = Append(q, r)
    BY <1>1 DEF Store!Push
  <2> QED BY <1>1, <2>1
<1>2. CASE ~(Len(q) < MaxLen)
  <2>1. Store!Push(q, r) = Append(Tail(q), r)
    BY <1>2 DEF Store!Push
  <2>2. q # <<>> /\ Len(q) \in Nat
    BY <1>2, SizesAssumption
  <2>3. Tail(q) \in Seq(Nat) /\ Len(Tail(q)) = Len(q) - 1
    BY <2>2
  <2> QED BY <1>2, <2>1, <2>2, <2>3
<1> QED BY <1>1, <1>2

(* The next series, and 0 after the last. *)
LEMMA NextSeries == \A k \in 0..4 : (k + 1) % 5 = IF k = 4 THEN 0 ELSE k + 1
<1> SUFFICES ASSUME NEW k \in 0..4 PROVE (k + 1) % 5 = IF k = 4 THEN 0 ELSE k + 1
  OBVIOUS
<1>1. k = 0 \/ k = 1 \/ k = 2 \/ k = 3 \/ k = 4
  OBVIOUS
<1>2. 1 % 5 = 1 /\ 2 % 5 = 2 /\ 3 % 5 = 3 /\ 4 % 5 = 4 /\ 5 % 5 = 0
  OBVIOUS
<1> QED BY <1>1, <1>2

LEMMA BehindFacts ==
  ASSUME StoreTypes
  PROVE  \A s \in Series : Behind(s) \in 0..2 /\ Behind(s) <= Behind(4)
BY DEF StoreTypes, Behind, Pend, Series, Store!Series, Threads, Store!Threads

(* The series differ by the appends under way at most. *)
LEMMA LengthsClose ==
  ASSUME StoreTypes, Counted
  PROVE  \A s, u \in Series : /\ Len(store[s]) \in Nat /\ Len(store[s]) <= MaxLen
                              /\ Len(store[s]) <= Len(store[u]) + 2
<1> SUFFICES ASSUME NEW s \in Series, NEW u \in Series
             PROVE  /\ Len(store[s]) \in Nat /\ Len(store[s]) <= MaxLen
                    /\ Len(store[s]) <= Len(store[u]) + 2
  OBVIOUS
<1>1. /\ Behind(s) \in 0..2 /\ Behind(u) \in 0..2 /\ Behind(4) \in 0..2
      /\ Behind(s) <= Behind(4) /\ Behind(u) <= Behind(4)
  BY BehindFacts DEF Series, Store!Series
<1>2. readings \in Nat /\ Behind(4) <= readings /\ MaxLen \in Nat
  BY SizesAssumption DEF StoreTypes, Counted
<1>3. Len(store[s]) = Kept(readings - Behind(s)) /\ Len(store[u]) = Kept(readings - Behind(u))
  BY DEF Counted
<1> HIDE DEF Behind
<1> QED BY <1>1, <1>2, <1>3 DEF Kept

LEMMA KeptFacts ==
  \A a, b \in Nat : a <= b => /\ Kept(a) \in Nat /\ Kept(b) \in Nat
                              /\ Kept(a) <= Kept(b) /\ Kept(b) <= Kept(a) + (b - a)
BY SizesAssumption DEF Kept

(* A series is never ahead of those that come before it. *)
LEMMA PushedFacts ==
  ASSUME StoreTypes, Counted
  PROVE  \A s \in Series : /\ Pushed(s) \in Nat /\ Pushed(4) <= Pushed(s) /\ Pushed(s) <= Pushed(1)
                           /\ Len(store[s]) = Kept(Pushed(s))
<1> SUFFICES ASSUME NEW s \in Series
             PROVE  /\ Pushed(s) \in Nat /\ Pushed(4) <= Pushed(s) /\ Pushed(s) <= Pushed(1)
                    /\ Len(store[s]) = Kept(Pushed(s))
  OBVIOUS
<1>1. 1 \in Series /\ 4 \in Series /\ s \in 1..4
  BY DEF Series, Store!Series
<1>2. \A u \in Series : Behind(u) \in 0..2 /\ Behind(u) <= Behind(4)
  BY BehindFacts
<1>3. Behind(1) <= Behind(s)
  BY <1>1 DEF StoreTypes, Behind, Pend, Threads, Store!Threads
<1>4. readings \in Nat /\ Behind(4) <= readings
  BY DEF StoreTypes, Counted
<1> HIDE DEF Behind
<1>5. /\ Behind(1) \in 0..2 /\ Behind(4) \in 0..2 /\ Behind(s) \in 0..2 /\ Behind(s) <= Behind(4)
  BY <1>1, <1>2
<1>6. Pushed(s) \in Nat /\ Pushed(4) <= Pushed(s) /\ Pushed(s) <= Pushed(1)
  BY <1>3, <1>4, <1>5 DEF Pushed
<1> QED BY <1>6 DEF Counted, Pushed

(* Half-way through append() are as many as the first series is ahead by. *)
LEMMA HalfwayCount ==
  ASSUME StoreTypes
  PROVE  /\ Store!Halfway \in Nat
         /\ Pushed(1) - Store!Halfway = Pushed(4)
         /\ Store!Halfway = 0 => \A t \in Threads : at[t] <= 1
<1>1. /\ Threads = {"main", "mqtt"} /\ readings \in Nat
      /\ at["main"] \in 0..4 /\ at["mqtt"] \in 0..4
  BY DEF StoreTypes, Threads, Store!Threads
<1>2. /\ Pend("main", 4) = Pend("main", 1) + Store!Begun("main")
      /\ Pend("mqtt", 4) = Pend("mqtt", 1) + Store!Begun("mqtt")
      /\ Pend("main", 1) \in 0..1 /\ Pend("mqtt", 1) \in 0..1
      /\ Store!Begun("main") \in 0..1 /\ Store!Begun("mqtt") \in 0..1
  BY <1>1 DEF Pend, Store!Begun
<1>3. Behind(4) = Behind(1) + Store!Halfway /\ Behind(1) \in 0..2 /\ Store!Halfway \in 0..2
  BY <1>2 DEF Behind, Store!Halfway
<1>4. Store!Halfway = 0 => \A t \in Threads : at[t] <= 1
  BY <1>1 DEF Store!Halfway, Store!Begun
<1>5. Pushed(1) - Store!Halfway = Pushed(4)
  BY <1>1, <1>3 DEF Pushed
<1> QED BY <1>3, <1>4, <1>5

LEMMA NewestType == ASSUME NEW q \in Seq(Nat) PROVE Store!Newest(q) \in Nat
<1>1. CASE q = <<>>
  BY <1>1 DEF Store!Newest
<1>2. CASE q # <<>>
  <2>1. Len(q) \in DOMAIN q
    BY <1>2
  <2>2. q[Len(q)] \in Nat
    BY <2>1
  <2> QED BY <1>2, <2>2 DEF Store!Newest
<1> QED BY <1>1, <1>2

LEMMA AppendLast ==
  ASSUME NEW q \in Seq(Nat), NEW r \in Nat
  PROVE  Append(q, r) # <<>> /\ Append(q, r)[Len(Append(q, r))] = r
OBVIOUS

LEMMA NewestPush ==
  ASSUME NEW q \in Seq(Nat), NEW r \in Nat PROVE Store!Newest(Store!Push(q, r)) = r
<1>1. Append(q, r) # <<>> /\ Append(q, r)[Len(Append(q, r))] = r
  BY AppendLast
<1>2. CASE Len(q) < MaxLen
  BY <1>1, <1>2 DEF Store!Push, Store!Newest
<1>3. CASE ~(Len(q) < MaxLen)
  <2>1. q # <<>>
    BY <1>3, SizesAssumption
  <2>2. Tail(q) \in Seq(Nat)
    BY <2>1
  <2>3. Append(Tail(q), r) # <<>> /\ Append(Tail(q), r)[Len(Append(Tail(q), r))] = r
    BY <2>2, AppendLast
  <2> QED BY <1>3, <2>3 DEF Store!Push, Store!Newest
<1> QED BY <1>2, <1>3

(* As long as nothing of a reading is appended, the series are the same. *)
LEMMA NobodyHalfway ==
  ASSUME StoreTypes, Together, ~raced, \A t \in Threads : at[t] <= 1
  PROVE  \A s \in Series : store[s] = store[1]
<1>1. \A t \in Threads : at[t] = 0 \/ at[t] = 1
  BY DEF StoreTypes
<1>2. CASE \A t \in Threads : at[t] = 0
  BY <1>2 DEF Together, Store!AtRest, Threads
<1>3. ASSUME NEW t \in Threads, at[t] = 1
      PROVE  \A s \in Series : store[s] = store[1]
  <2>1. \A s \in Series : store[s] = IF s < 1 THEN Store!Push(store[4], stamp[t]) ELSE store[4]
    BY <1>3 DEF Together
  <2> QED BY <2>1 DEF Series, Store!Series
<1> QED BY <1>1, <1>2, <1>3

-----------------------------------------------------------------------------
LEMMA StoreInit == Store!Init => StoreInv
<1> SUFFICES ASSUME Store!Init PROVE StoreInv
  OBVIOUS
<1>1. /\ store = [s \in Series |-> <<>>] /\ at = [t \in Threads |-> 0]
      /\ stamp = [t \in Threads |-> 0] /\ readings = 0 /\ raced = FALSE
      /\ reply = [s \in Series |-> NoValue] /\ loop = 0 /\ missed = 0
  BY DEF Store!Init, Series, Threads
<1>2. \A s \in Series : store[s] = <<>> /\ s \in 1..4
  BY <1>1 DEF Series, Store!Series
<1>3. 1 \in Series /\ 4 \in Series /\ "main" \in Threads /\ "mqtt" \in Threads
  BY DEF Series, Store!Series, Threads, Store!Threads
<1>4. StoreTypes
  <2>1. \A s \in Series : ~(s < loop)
    BY <1>1, <1>2
  <2>2. store \in [Series -> Seq(Nat)] /\ reply = [s \in Series |-> reply[s]]
    BY <1>1
  <2>3. at \in [Threads -> 0..4] /\ stamp \in [Threads -> Nat]
    BY <1>1
  <2>4. readings = 0 /\ loop = 0 /\ missed = 0
    BY <1>1
  <2>5. readings \in Nat /\ loop \in 0..4 /\ missed \in Nat
    BY <2>4
  <2>6. raced \in BOOLEAN
    BY <1>1
  <2> QED BY <2>1, <2>2, <2>3, <2>5, <2>6 DEF StoreTypes
<1>5. Counted
  <2>1. \A s \in Series : Behind(s) = 0
    BY <1>1, <1>3 DEF Behind, Pend
  <2>2. Kept(0) = 0
    BY SizesAssumption DEF Kept
  <2> QED BY <1>1, <1>2, <1>3, <2>1, <2>2 DEF Counted
<1>6. Together
  BY <1>1, <1>2, <1>3 DEF Together
<1>7. Ordered
  <2>1. \A s \in Series : Behind(s) = 0
    BY <1>1, <1>3 DEF Behind, Pend
  <2> QED BY <1>1, <1>2, <2>1 DEF Ordered, Pushed, Store!Newest
<1>8. Copying /\ Overlap
  BY <1>1 DEF Copying, Overlap
<1> QED BY <1>4, <1>5, <1>6, <1>7, <1>8 DEF StoreInv

LEMMA StoreBegin == ASSUME NEW t \in Threads PROVE StoreInv /\ Store!Begin(t) => StoreInv'
<1> SUFFICES ASSUME StoreInv, Store!Begin(t) PROVE StoreInv'
  OBVIOUS
<1>1. /\ at[t] = 0 /\ at' = [at EXCEPT ![t] = 1]
      /\ readings' = readings + 1 /\ stamp' = [stamp EXCEPT ![t] = readings + 1]
      /\ raced' = (raced \/ \E u \in Threads \ {t} : at[u] # 0)
      /\ UNCHANGED <<store, reply, loop, missed>>
  BY DEF Store!Begin, Store!reader, Threads
<1>2. /\ store \in [Series -> Seq(Nat)] /\ at \in [Threads -> 0..4]
      /\ stamp \in [Threads -> Nat] /\ readings \in Nat
  BY DEF StoreInv, StoreTypes
<1>3. at'[t] = 1 /\ \A u \in Threads : u # t => at'[u] = at[u]
  BY <1>1, <1>2
<1>4. StoreTypes'
  BY <1>1, <1>2 DEF StoreInv, StoreTypes
<1>5. Counted'
  <2>1. \A s \in Series : Behind(s)' = Behind(s) + 1
    BY <1>1, <1>2, <1>3 DEF Behind, Pend, Series, Store!Series, Threads, Store!Threads
  <2>2. \A s \in Series : Behind(s) \in 0..2
    BY BehindFacts DEF StoreInv
  <2>3. 4 \in Series
    BY DEF Series, Store!Series
  <2> HIDE DEF Behind
  <2>4. \A s \in Series : readings' - Behind(s)' = readings - Behind(s)
    <3> SUFFICES ASSUME NEW s \in Series PROVE readings' - Behind(s)' = readings - Behind(s)
      OBVIOUS
    <3>1. Behind(s)' = Behind(s) + 1 /\ Behind(s) \in Int
      BY <2>1, <2>2
    <3> QED BY <1>1, <1>2, <3>1
  <2>5. Behind(4)' <= readings'
    <3>1. Behind(4)' = Behind(4) + 1 /\ Behind(4) \in Int
      BY <2>1, <2>2, <2>3
    <3>2. Behind(4) <= readings /\ readings' = readings + 1 /\ readings \in Nat
      BY <1>1, <1>2 DEF StoreInv, Counted
    <3> QED BY <3>1, <3>2
  <2>6. ASSUME NEW s \in Series PROVE Len(store'[s]) = Kept(readings' - Behind(s)')
    BY <1>1, <2>4 DEF StoreInv, Counted
  <2> QED BY <2>5, <2>6 DEF Counted, Kept
<1>6. Together'
  <2> SUFFICES ASSUME ~raced' PROVE Together'
    BY DEF Together
  <2>1. ~raced /\ \A u \in Threads : at[u] = 0
    BY <1>1
  <2>2. \A s \in Series : store[s] = store[1]
    BY <2>1 DEF StoreInv, Together, Store!AtRest, Threads
  <2>3. \A u \in Threads : at'[u] # 0 => u = t
    BY <1>3, <2>1
  <2>4. \A s \in Series : ~(s < 1) /\ store[s] = store[4]
    BY <2>2 DEF Series, Store!Series
  <2>5. ~Store!AtRest'
    BY <1>3 DEF Store!AtRest, Threads
  <2> QED BY <1>1, <1>3, <2>3, <2>4, <2>5 DEF Together
<1>7. \A s \in Series : Pushed(s)' = Pushed(s)
  <2>1. \A s \in Series : Behind(s)' = Behind(s) + 1
    BY <1>1, <1>2, <1>3 DEF Behind, Pend, Series, Store!Series, Threads, Store!Threads
  <2>2. \A s \in Series : Behind(s) \in 0..2
    BY BehindFacts DEF StoreInv
  <2> HIDE DEF Behind
  <2> SUFFICES ASSUME NEW s \in Series PROVE readings' - Behind(s)' = readings - Behind(s)
    BY DEF Pushed
  <2>3. Behind(s)' = Behind(s) + 1 /\ Behind(s) \in Int
    BY <2>1, <2>2
  <2> QED BY <1>1, <1>2, <2>3
<1>8. Ordered'
  <2> SUFFICES ASSUME ~raced'
               PROVE  /\ \A u \in Threads : at'[u] # 0 => stamp'[u] = readings'
                      /\ \A s \in Series : Store!Newest(store'[s]) = Pushed(s)'
    BY DEF Ordered, Store!Newest
  <2>1. ~raced /\ \A u \in Threads : u # t => at'[u] = 0
    BY <1>1, <1>3
  <2>2. stamp'[t] = readings'
    BY <1>1, <1>2
  <2> QED BY <1>1, <1>7, <2>1, <2>2 DEF StoreInv, Ordered
<1>9. Copying'
  <2>1. 1 \in Series /\ 4 \in Series
    BY DEF Series, Store!Series
  <2>2. Base' = Base /\ Pushed(1)' = Pushed(1) /\ Pushed(4)' = Pushed(4) /\ Copied' = Copied
    BY <1>1, <1>7, <2>1 DEF Base, Copied
  <2>3. \A u \in Threads : at[u] <= 1 => at'[u] <= 1
    BY <1>3
  <2>4. ~raced' => ~raced
    BY <1>1
  <2> HIDE DEF Base, Pushed, Copied
  <2> QED BY <1>1, <2>2, <2>3, <2>4 DEF StoreInv, Copying, Store!Newest
<1>10. Overlap'
  BY <1>1 DEF StoreInv, Overlap, Store!Newest
<1> QED BY <1>4, <1>5, <1>6, <1>8, <1>9, <1>10 DEF StoreInv

LEMMA StoreAppend == ASSUME NEW t \in Threads PROVE StoreInv /\ Store!AppendOne(t) => StoreInv'
<1> SUFFICES ASSUME StoreInv, Store!AppendOne(t) PROVE StoreInv'
  OBVIOUS
<1>0. PICK k \in 1..4 : k = at[t]
  BY DEF Store!AppendOne, StoreInv, StoreTypes
<1> DEFINE P == Store!Push(store[k], stamp[t])
<1>1. /\ k = at[t] /\ k # 0 /\ store' = [store EXCEPT ![k] = P]
      /\ at' = [at EXCEPT ![t] = (k + 1) % 5]
      /\ missed' = IF loop > 1 /\ k = 1 THEN missed + 1 ELSE missed
      /\ UNCHANGED <<stamp, readings, raced, reply, loop>>
  BY <1>0 DEF Store!AppendOne, Store!reader
<1>2. /\ store \in [Series -> Seq(Nat)] /\ at \in [Threads -> 0..4]
      /\ stamp \in [Threads -> Nat] /\ readings \in Nat /\ loop \in 0..4 /\ missed \in Nat
  BY DEF StoreInv, StoreTypes
<1>3. k \in Series /\ k \in 1..4 /\ Series = 1..4 /\ 4 \in Series
  BY <1>1, <1>2 DEF Series, Store!Series
<1>4. /\ at'[t] = IF k = 4 THEN 0 ELSE k + 1
      /\ \A u \in Threads : u # t => at'[u] = at[u]
  BY <1>1, <1>2, <1>3, NextSeries
<1>5. /\ P \in Seq(Nat) /\ Len(store[k]) \in Nat
      /\ Len(P) = IF Len(store[k]) < MaxLen THEN Len(store[k]) + 1 ELSE Len(store[k])
  BY <1>2, <1>3, PushFacts
<1>6. store'[k] = P /\ \A s \in Series : s # k => store'[s] = store[s]
  BY <1>1, <1>2, <1>3
<1> HIDE DEF P
<1>7. StoreTypes'
  <2>1. store' \in [Series -> Seq(Nat)]
    BY <1>1, <1>2, <1>5
  <2>2. (k + 1) % 5 \in 0..4
    BY <1>3, NextSeries
  <2>3. at' \in [Threads -> 0..4]
    BY <1>1, <1>2, <2>2
  <2>4. missed' \in Nat
    BY <1>1, <1>2
  <2> QED BY <1>1, <2>1, <2>3, <2>4 DEF StoreInv, StoreTypes
<1>8. /\ Behind(k)' = Behind(k) - 1
      /\ \A s \in Series : s # k => Behind(s)' = Behind(s)
  <2>1. Pend(t, k) = 1 /\ Pend(t, k)' = 0
    BY <1>1, <1>3, <1>4 DEF Pend
  <2>2. \A s \in Series : s # k => Pend(t, s)' = Pend(t, s)
    BY <1>1, <1>3, <1>4 DEF Pend
  <2>3. \A u \in Threads, s \in Series : u # t => Pend(u, s)' = Pend(u, s)
    BY <1>4 DEF Pend
  <2>4. \A u \in Threads, s \in Series : Pend(u, s) \in {0, 1}
    BY DEF Pend
  <2>5. "main" \in Threads /\ "mqtt" \in Threads /\ (t = "main" \/ t = "mqtt")
    BY DEF Threads, Store!Threads
  <2> HIDE DEF Pend
  <2> QED BY <1>3, <2>1, <2>2, <2>3, <2>4, <2>5 DEF Behind
<1>9. \A s \in Series : Len(store[s]) <= Len(store'[s]) /\ Len(store'[s]) <= Len(store[s]) + 1
                        /\ Len(store[s]) \in Nat /\ Len(store'[s]) \in Nat
  <2>1. \A s \in Series : Len(store[s]) \in Nat
    BY <1>2
  <2>2. /\ Len(store[k]) <= Len(P) /\ Len(P) <= Len(store[k]) + 1 /\ Len(P) \in Nat
    BY <1>5
  <2> SUFFICES ASSUME NEW s \in Series
               PROVE  /\ Len(store[s]) <= Len(store'[s]) /\ Len(store'[s]) <= Len(store[s]) + 1
                      /\ Len(store[s]) \in Nat /\ Len(store'[s]) \in Nat
    OBVIOUS
  <2>3. CASE s = k
    BY <1>6, <2>1, <2>2, <2>3
  <2>4. CASE s # k
    <3>1. store'[s] = store[s] /\ Len(store[s]) \in Nat
      BY <1>6, <2>1, <2>4
    <3> QED BY <3>1
  <2> QED BY <2>3, <2>4
<1>10. Counted'
  <2>1. \A s \in Series : Behind(s) \in 0..2 /\ Behind(s) <= Behind(4)
    BY BehindFacts DEF StoreInv
  <2>2. Behind(4) <= readings /\ \A s \in Series : Len(store[s]) = Kept(readings - Behind(s))
    BY DEF StoreInv, Counted
  <2>3. MaxLen \in Nat
    BY SizesAssumption
  <2> HIDE DEF Behind
  <2>4. Len(P) = Kept(readings - Behind(k)')
    <3>1. /\ readings - Behind(k) \in Nat /\ readings - Behind(k)' = (readings - Behind(k)) + 1
          /\ Len(store[k]) = Kept(readings - Behind(k))
      <4>1. Behind(k) \in 0..2 /\ Behind(4) \in 0..2 /\ Behind(k) <= Behind(4)
        BY <1>3, <2>1
      <4>2. Behind(4) <= readings /\ Len(store[k]) = Kept(readings - Behind(k))
        BY <1>3, <2>2
      <4>3. Behind(k)' = Behind(k) - 1 /\ readings \in Nat
        BY <1>2, <1>8
      <4> QED BY <4>1, <4>2, <4>3
    <3> QED BY <1>5, <2>3, <3>1 DEF Kept
  <2>5. Behind(4)' <= readings
    <3>1. Behind(4) \in 0..2 /\ Behind(4) <= readings
      BY <1>3, <2>1, <2>2
    <3>2. CASE k = 4
      <4>1. Behind(4)' = Behind(4) - 1
        BY <1>8, <3>2
      <4> QED BY <1>2, <3>1, <4>1
    <3>3. CASE k # 4
      <4>1. Behind(4)' = Behind(4)
        BY <1>3, <1>8, <3>3
      <4> QED BY <3>1, <4>1
    <3> QED BY <3>2, <3>3
  <2>6. ASSUME NEW s \in Series PROVE Len(store'[s]) = Kept(readings - Behind(s)')
    <3>1. CASE s = k
      BY <1>6, <2>4, <3>1
    <3>2. CASE s # k
      BY <1>6, <1>8, <2>2, <3>2
    <3> QED BY <3>1, <3>2
  <2> QED BY <1>1, <2>5, <2>6 DEF Counted, Kept
<1>11. Together'
  <2> SUFFICES ASSUME ~raced PROVE Together'
    BY <1>1 DEF Together
  <2>1. \A u \in Threads : u # t => at[u] = 0
    BY <1>1 DEF StoreInv, Together
  <2>2. \A s \in Series : store[s] = IF s < k THEN Store!Push(store[4], stamp[t]) ELSE store[4]
    BY <1>1 DEF StoreInv, Together
  <2>3. store[k] = store[4] /\ P = Store!Push(store[4], stamp[t])
    BY <1>3, <2>2 DEF P
  <2>4. \A s \in Series : store'[s] = IF s <= k THEN P ELSE store[4]
    BY <1>3, <1>6, <2>2, <2>3
  <2>5. \A u \in Threads : at'[u] # 0 => u = t
    BY <1>4, <2>1
  <2>6. CASE k = 4
    <3>1. \A s \in Series : store'[s] = P
      BY <1>3, <2>4, <2>6
    <3>2. \A u \in Threads : at'[u] = 0
      BY <1>4, <2>5, <2>6
    <3> QED BY <1>3, <3>1, <3>2 DEF Together
  <2>7. CASE k # 4
    <3>1. at'[t] = k + 1 /\ at'[t] # 0
      BY <1>3, <1>4, <2>7
    <3>2. store'[4] = store[4]
      BY <1>3, <1>6, <2>7
    <3>3. \A s \in Series : store'[s] = IF s < k + 1 THEN P ELSE store[4]
      BY <1>3, <2>4
    <3>4. stamp'[t] = stamp[t]
      BY <1>1
    <3>5. ~Store!AtRest'
      BY <3>1 DEF Store!AtRest, Threads
    <3>6. \A u \in Threads : at'[u] # 0 => \A s \in Series :
            store'[s] = IF s < at'[u] THEN Store!Push(store'[4], stamp'[u]) ELSE store'[4]
      BY <2>3, <2>5, <3>1, <3>2, <3>3, <3>4
    <3> QED BY <2>5, <3>5, <3>6 DEF Together
  <2> QED BY <2>6, <2>7
<1>12. Pushed(k)' = Pushed(k) + 1 /\ \A s \in Series : s # k => Pushed(s)' = Pushed(s)
  <2>1. Behind(k) \in 0..2
    BY <1>3, BehindFacts DEF StoreInv
  <2>2. Behind(k)' = Behind(k) - 1 /\ \A s \in Series : s # k => Behind(s)' = Behind(s)
    BY <1>8
  <2> HIDE DEF Behind
  <2>3. readings - Behind(k)' = (readings - Behind(k)) + 1
    BY <1>2, <2>1, <2>2
  <2> QED BY <1>1, <2>2, <2>3 DEF Pushed
<1>13. Ordered'
  <2> SUFFICES ASSUME ~raced
               PROVE  /\ \A u \in Threads : at'[u] # 0 => stamp'[u] = readings'
                      /\ \A s \in Series : Store!Newest(store'[s]) = Pushed(s)'
    BY <1>1 DEF Ordered, Store!Newest
  <2>1. /\ \A u \in Threads : at[u] # 0 => stamp[u] = readings
        /\ \A s \in Series : Store!Newest(store[s]) = Pushed(s)
        /\ \A u \in Threads : u # t => at[u] = 0
    BY <1>1 DEF StoreInv, Ordered, Together
  <2>2. \A u \in Threads : at'[u] # 0 => stamp'[u] = readings'
    BY <1>1, <1>4, <2>1
  <2>3. Pushed(k)' = readings
    <3>1. Pend(t, k) = 1 /\ \A u \in Threads : u # t => Pend(u, k) = 0
      BY <1>1, <1>3, <2>1 DEF Pend
    <3>2. Behind(k) = 1
      BY <3>1 DEF Behind, Threads, Store!Threads
    <3> QED BY <1>2, <1>12, <3>2 DEF Pushed
  <2>4. Store!Newest(P) = readings
    BY <1>1, <1>2, <1>3, <2>1, NewestPush DEF P
  <2>5. ASSUME NEW s \in Series PROVE Store!Newest(store'[s]) = Pushed(s)'
    <3>1. CASE s = k
      BY <1>6, <2>3, <2>4, <3>1
    <3>2. CASE s # k
      BY <1>6, <1>12, <2>1, <3>2
    <3> QED BY <3>1, <3>2
  <2> QED BY <2>2, <2>5
<1>14. Copying'
  <2> SUFFICES ASSUME loop > 1 PROVE Copying'
    BY <1>1 DEF Copying
  <2>1. Copied' = Copied /\ missed' = IF k = 1 THEN missed + 1 ELSE missed
    BY <1>1 DEF Copied
  <2>2. /\ Pushed(1) \in Nat /\ Pushed(4) \in Nat /\ 1 \in Series
    BY <1>3, PushedFacts DEF StoreInv
  <2>3. /\ Pushed(1)' = IF k = 1 THEN Pushed(1) + 1 ELSE Pushed(1)
        /\ Pushed(4)' = IF k = 4 THEN Pushed(4) + 1 ELSE Pushed(4)
    BY <1>3, <1>12, <2>2
  <2> HIDE DEF Pushed
  <2>4. Base' = Base /\ Pushed(4) <= Pushed(4)' /\ Pushed(1) <= Pushed(1)' /\ Pushed(1)' \in Nat
    BY <1>2, <2>1, <2>2, <2>3 DEF Base
  <2>5. Kept(Pushed(1)) \in Nat /\ Kept(Pushed(1)') \in Nat /\ Kept(Pushed(1)) <= Kept(Pushed(1)')
    BY <2>2, <2>4, KeptFacts
  <2>6. /\ Base \in Nat /\ Base <= Pushed(4)
        /\ \A s \in Copied :
             /\ Kept(Base) <= Len(reply[s]) /\ Len(reply[s]) <= Kept(Pushed(1))
             /\ ~raced => Base <= Store!Newest(reply[s]) /\ Store!Newest(reply[s]) <= Pushed(1)
        /\ missed = 0 => \A u \in Threads : at[u] <= 1
    BY DEF StoreInv, Copying
  <2>7. missed' # 0
    <3>1. CASE k = 1
      BY <1>2, <2>1, <3>1
    <3>2. CASE k # 1
      <4>1. ~(at[t] <= 1)
        BY <1>1, <1>3, <3>2
      <4> QED BY <2>1, <2>6, <3>2, <4>1
    <3> QED BY <3>1, <3>2
  <2>8. Base' \in Nat /\ Base' <= Pushed(4)'
    <3>1. Pushed(4)' \in Nat
      BY <2>2, <2>3
    <3> QED BY <2>2, <2>4, <2>6, <3>1
  <2>9. ASSUME NEW s \in Copied
        PROVE  /\ Kept(Base) <= Len(reply[s]) /\ Len(reply[s]) <= Kept(Pushed(1)')
               /\ ~raced => Base <= Store!Newest(reply[s]) /\ Store!Newest(reply[s]) <= Pushed(1)'
    <3>1. /\ Kept(Base) <= Len(reply[s]) /\ Len(reply[s]) <= Kept(Pushed(1))
          /\ ~raced => Base <= Store!Newest(reply[s]) /\ Store!Newest(reply[s]) <= Pushed(1)
      BY <2>6
    <3>2. reply[s] \in Seq(Nat)
      BY DEF StoreInv, StoreTypes, Copied
    <3>3. Len(reply[s]) \in Nat /\ Store!Newest(reply[s]) \in Nat
      BY <3>2, NewestType
    <3> QED BY <2>2, <2>4, <2>5, <3>1, <3>3
  <2> HIDE DEF Base, Copied
  <2> QED BY <1>1, <2>1, <2>4, <2>7, <2>8, <2>9 DEF Copying, Store!Newest
<1>15. Overlap'
  BY <1>1 DEF StoreInv, Overlap, Store!Newest
<1> QED BY <1>7, <1>10, <1>11, <1>13, <1>14, <1>15 DEF StoreInv

LEMMA StoreBeginRead == StoreInv /\ Store!BeginRead => StoreInv'
<1> SUFFICES ASSUME StoreInv, Store!BeginRead PROVE StoreInv'
  OBVIOUS
<1>1. /\ loop' = 1 /\ missed' = 0 /\ reply' = [s \in Series |-> NoValue]
      /\ UNCHANGED <<store, at, stamp, readings, raced>>
  BY DEF Store!BeginRead, Store!writers, Series
<1>3. \A s \in Series : ~(s < 1)
  BY DEF Series, Store!Series
<1>4. StoreTypes'
  BY <1>1, <1>3 DEF StoreInv, StoreTypes
<1>5. Counted' /\ Together' /\ Ordered'
  BY <1>1 DEF StoreInv, Counted, Behind, Pend, Together, Store!AtRest, Ordered, Pushed, Store!Newest
<1>6. Copying' /\ Overlap'
  BY <1>1 DEF Copying, Overlap
<1> QED BY <1>4, <1>5, <1>6 DEF StoreInv

LEMMA StoreCopy == StoreInv /\ Store!Copy => StoreInv'
<1> SUFFICES ASSUME StoreInv, Store!Copy PROVE StoreInv'
  OBVIOUS
<1>1. /\ loop # 0 /\ reply' = [reply EXCEPT ![loop] = store[loop]]
      /\ loop' = (loop + 1) % 5
      /\ missed' = IF loop = 1 THEN Store!Halfway ELSE missed
      /\ UNCHANGED <<store, at, stamp, readings, raced>>
  BY DEF Store!Copy, Store!writers
<1>2. /\ store \in [Series -> Seq(Nat)] /\ loop \in 0..4 /\ missed \in Nat
      /\ reply = [s \in Series |-> reply[s]]
      /\ \A s \in Series : s < loop => reply[s] \in Seq(Nat)
  BY DEF StoreInv, StoreTypes
<1>3. loop \in Series /\ loop \in 1..4 /\ Series = 1..4
  BY <1>1, <1>2 DEF Series, Store!Series
<1>4. loop' = IF loop = 4 THEN 0 ELSE loop + 1
  BY <1>1, <1>2, NextSeries
<1>5. /\ reply' = [s \in Series |-> reply'[s]] /\ reply'[loop] = store[loop]
      /\ \A s \in Series : s # loop => reply'[s] = reply[s]
  BY <1>1, <1>2, <1>3
<1>6. /\ Store!Halfway \in Nat
      /\ Pushed(1) - Store!Halfway = Pushed(4)
      /\ Store!Halfway = 0 => \A t \in Threads : at[t] <= 1
  BY HalfwayCount DEF StoreInv
<1>7. StoreTypes'
  <2>1. \A s \in Series : s < loop' => reply'[s] \in Seq(Nat)
    BY <1>2, <1>3, <1>4, <1>5
  <2>2. missed' \in Nat
    BY <1>1, <1>2, <1>6
  <2> QED BY <1>1, <1>2, <1>3, <1>4, <1>5, <2>1, <2>2 DEF StoreInv, StoreTypes
<1>8. Counted' /\ Together' /\ Ordered'
  BY <1>1 DEF StoreInv, Counted, Behind, Pend, Together, Store!AtRest, Ordered, Pushed, Store!Newest
<1>9. \A s \in Series : Pushed(s)' = Pushed(s)
  BY <1>1 DEF Pushed, Behind, Pend
<1>10. \A s \in Series : /\ Pushed(s) \in Nat /\ Pushed(4) <= Pushed(s) /\ Pushed(s) <= Pushed(1)
                         /\ Len(store[s]) = Kept(Pushed(s))
  BY PushedFacts DEF StoreInv
<1>11. Pushed(1) \in Nat /\ Pushed(4) \in Nat /\ Pushed(1)' = Pushed(1) /\ Pushed(4)' = Pushed(4)
  BY <1>3, <1>9, <1>10
<1> HIDE DEF Pushed
<1> DEFINE B == Pushed(1) - missed'
<1>12. /\ B \in Nat /\ B <= Pushed(4) /\ missed' \in Nat
       /\ missed' = 0 => \A t \in Threads : at[t] <= 1
  <2>1. CASE loop = 1
    BY <1>1, <1>6, <1>11, <2>1
  <2>2. CASE loop # 1
    <3>1. loop > 1 /\ missed' = missed /\ B = Base
      BY <1>1, <1>3, <2>2 DEF Base
    <3> QED BY <1>2, <3>1 DEF StoreInv, Copying
  <2> QED BY <2>1, <2>2
<1>13. ASSUME NEW s \in Series, s <= loop
       PROVE  /\ Kept(B) <= Len(reply'[s]) /\ Len(reply'[s]) <= Kept(Pushed(1))
              /\ ~raced => B <= Store!Newest(reply'[s]) /\ Store!Newest(reply'[s]) <= Pushed(1)
              /\ ~raced /\ missed' = 0 => reply'[s] = store[1]
              /\ Len(reply'[s]) \in Nat /\ Store!Newest(reply'[s]) \in Nat
  <2>1. CASE s = loop
    <3>1. reply'[s] = store[s] /\ store[s] \in Seq(Nat)
      BY <1>2, <1>5, <2>1
    <3>2. /\ Pushed(s) \in Nat /\ B <= Pushed(s) /\ Pushed(s) <= Pushed(1)
          /\ Len(store[s]) = Kept(Pushed(s))
      <4>1. /\ Pushed(s) \in Nat /\ Pushed(4) <= Pushed(s) /\ Pushed(s) <= Pushed(1)
            /\ Len(store[s]) = Kept(Pushed(s))
        BY <1>10
      <4>2. B <= Pushed(s)
        BY <1>11, <1>12, <4>1
      <4> QED BY <4>1, <4>2
    <3>3. Kept(B) <= Kept(Pushed(s)) /\ Kept(Pushed(s)) <= Kept(Pushed(1))
      BY <1>11, <1>12, <3>2, KeptFacts
    <3>4. ~raced => Store!Newest(store[s]) = Pushed(s)
      BY DEF StoreInv, Ordered
    <3>5. ~raced /\ missed' = 0 => store[s] = store[1]
      BY <1>12, NobodyHalfway DEF StoreInv
    <3>6. Len(store[s]) \in Nat /\ Store!Newest(store[s]) \in Nat
      BY <3>1, NewestType
    <3> QED BY <3>1, <3>2, <3>3, <3>4, <3>5, <3>6
  <2>2. CASE s # loop
    <3>1. s \in Copied /\ reply'[s] = reply[s] /\ reply[s] \in Seq(Nat) /\ loop > 1
      BY <1>2, <1>3, <1>5, <1>13, <2>2 DEF Copied
    <3>2. missed' = missed /\ B = Base
      BY <1>1, <3>1 DEF Base
    <3>3. /\ Kept(B) <= Len(reply[s]) /\ Len(reply[s]) <= Kept(Pushed(1))
          /\ ~raced => B <= Store!Newest(reply[s]) /\ Store!Newest(reply[s]) <= Pushed(1)
          /\ ~raced /\ missed' = 0 => reply[s] = store[1]
      BY <3>1, <3>2 DEF StoreInv, Copying
    <3>4. Len(reply[s]) \in Nat /\ Store!Newest(reply[s]) \in Nat
      BY <3>1, NewestType
    <3> QED BY <3>1, <3>3, <3>4
  <2> QED BY <2>1, <2>2
<1>14. Copying'
  <2>1. \A s \in Copied' : s \in Series /\ s <= loop
    BY <1>3, <1>4 DEF Copied
  <2>2. Base' = B
    BY <1>11 DEF Base
  <2> HIDE DEF Base, B, Copied
  <2> QED BY <1>1, <1>11, <1>12, <1>13, <2>1, <2>2 DEF Copying, Store!Newest
<1>15. Overlap'
  <2> SUFFICES ASSUME loop' = 0, NEW s \in Series, NEW u \in Series
               PROVE  /\ Len(reply'[s]) <= Len(reply'[u]) + missed'
                      /\ ~raced => Store!Newest(reply'[s]) <= Store!Newest(reply'[u]) + missed'
                      /\ ~raced /\ missed' = 0 => reply'[s] = reply'[u]
    BY <1>1 DEF Overlap, Store!Newest
  <2>1. s <= loop /\ u <= loop
    BY <1>3, <1>4
  <2>2. Kept(B) \in Nat /\ Kept(Pushed(1)) \in Nat /\ Kept(Pushed(1)) <= Kept(B) + missed'
    <3>1. B <= Pushed(1) /\ Pushed(1) - B = missed'
      BY <1>11, <1>12
    <3> HIDE DEF B
    <3> QED BY <1>11, <1>12, <3>1, KeptFacts
  <2>3. Pushed(1) = B + missed'
    BY <1>11, <1>12
  <2>4. /\ Len(reply'[s]) <= Kept(Pushed(1)) /\ Kept(B) <= Len(reply'[u])
        /\ ~raced => Store!Newest(reply'[s]) <= Pushed(1) /\ B <= Store!Newest(reply'[u])
        /\ ~raced /\ missed' = 0 => reply'[s] = store[1] /\ reply'[u] = store[1]
        /\ Len(reply'[s]) \in Nat /\ Store!Newest(reply'[s]) \in Nat
        /\ Len(reply'[u]) \in Nat /\ Store!Newest(reply'[u]) \in Nat
    BY <1>13, <2>1
  <2> HIDE DEF B
  <2>5. Len(reply'[s]) <= Len(reply'[u]) + missed'
    BY <1>12, <2>2, <2>4
  <2>6. ~raced => Store!Newest(reply'[s]) <= Store!Newest(reply'[u]) + missed'
    BY <1>11, <1>12, <2>3, <2>4
  <2> QED BY <2>4, <2>5, <2>6
<1> QED BY <1>7, <1>8, <1>14, <1>15 DEF StoreInv

LEMMA StoreStep == StoreInv /\ Store!Next => StoreInv'
BY StoreBegin, StoreAppend, StoreBeginRead, StoreCopy DEF Store!Next, Threads

LEMMA StoreIdle == StoreInv /\ UNCHANGED Store!vars => StoreInv'
BY DEF StoreInv, StoreTypes, Counted, Behind, Pend, Together, Store!AtRest, Ordered, Pushed,
       Store!Newest, Copying, Copied, Base, Overlap, Store!vars, Store!writers, Store!reader

LEMMA StoreInvariant == Store!Spec => []StoreInv
<1>1. StoreInv /\ [Store!Next]_Store!vars => StoreInv'
  BY StoreStep, StoreIdle
<1> QED BY StoreInit, <1>1, PTL DEF Store!Spec

(* Between two appends the four series tell of the same readings, whichever *)
(* threads appended.                                                        *)
THEOREM StoreAligned == Store!Spec => []SeriesAligned
<1>1. StoreInv => SeriesAligned
  <2> SUFFICES ASSUME StoreInv, Store!AtRest, NEW s \in Series
               PROVE  Len(store[s]) = Len(store[1]) /\ Len(store[s]) <= MaxLen
                      /\ (~raced => store[s] = store[1])
    BY DEF SeriesAligned, Store!SeriesAligned, Series
  <2>1. Behind(s) = 0 /\ Behind(1) = 0 /\ 1 \in Series
    BY DEF Behind, Pend, Store!AtRest, Store!Threads, Series, Store!Series
  <2>2. Len(store[s]) = Len(store[1])
    BY <2>1 DEF StoreInv, Counted
  <2>3. Len(store[s]) <= MaxLen
    BY LengthsClose DEF StoreInv
  <2> QED BY <2>2, <2>3 DEF StoreInv, Together
<1> QED BY <1>1, StoreInvariant, PTL

(* What a reader copies while readings arrive differs from one series to    *)
(* another by the calls of append() it overlapped with at most.             *)
THEOREM ReadsStayAligned == Store!Spec => []ReadsAligned
<1>1. StoreInv => ReadsAligned
  <2>1. 1 \in Series
    BY DEF Series, Store!Series
  <2> QED BY <2>1 DEF StoreInv, Overlap, ReadsAligned, Store!ReadsAligned, Series
<1> QED BY <1>1, StoreInvariant, PTL
=============================================================================
