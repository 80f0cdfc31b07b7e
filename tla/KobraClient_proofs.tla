------------------------- MODULE KobraClient_proofs -------------------------
(***************************************************************************)
(* Proofs about KobraClient, for any number of callers, topics, reports in *)
(* transit and connections: the handler put back, the certificate files,   *)
(* the types, and whose answer a call returns.                             *)
(***************************************************************************)
EXTENDS KobraClient, SequenceTheorems, TLAPS

CallLabels == {"idle", "save", "install", "publish", "wait", "restore"}

HandlerTypes ==
  /\ pc \in [Callers -> CallLabels]
  /\ old \in [Callers -> Handlers]
  /\ on_message \in Handlers
  /\ overlapped \in BOOLEAN

(* While calls have not overlapped at most one is in progress; it has found *)
(* Main, and only its own handler can stand in for Main.                    *)
OneCall == \A c, d \in Callers : InCall(c) /\ InCall(d) => c = d

HandlerInv ==
  /\ OneCall
  /\ \A c \in Callers :
       pc[c] \in {"install", "publish", "wait", "restore"} => old[c] = Main
  /\ client => \/ on_message = Main
               \/ /\ on_message \in Callers
                  /\ pc[on_message] \in {"publish", "wait", "restore"}

HInv == HandlerTypes /\ (~overlapped => HandlerInv)

-----------------------------------------------------------------------------
(* Steps of the connection, the network thread and the printer leave the    *)
(* calls and the handler alone; connecting installs Main.                   *)
LEMMA HandlerFrame ==
  ASSUME HInv, UNCHANGED <<pc, old, overlapped>>,
         \/ on_message' = on_message /\ (client' => client)
         \/ on_message' = Main
  PROVE  HInv'
BY DEF HInv, HandlerTypes, HandlerInv, OneCall, InCall, Handlers

(* A call that begins while another is in progress sets overlapped.         *)
LEMMA CallBeginStep ==
  ASSUME HInv, NEW c \in Callers, CallBegin(c) PROVE HInv'
<1> USE DEF HInv, HandlerTypes
<1>1. /\ pc' = [pc EXCEPT ![c] = "save"] /\ pc[c] = "idle"
      /\ UNCHANGED <<old, on_message, client>>
      /\ ~overlapped' => ~overlapped /\ \A d \in Callers : ~InCall(d)
  BY DEF CallBegin, InCall, session
<1>2. HandlerTypes'
  <2>1. overlapped' \in BOOLEAN
    BY DEF CallBegin
  <2>2. QED
    BY <1>1, <2>1 DEF CallLabels
<1>3. ~overlapped' => HandlerInv'
  BY <1>1, ConstantsAssumption DEF HandlerInv, OneCall, InCall
<1>4. QED
  BY <1>2, <1>3

(* The steps inside a call up to the wait.                                  *)
LEMMA CallGoesOnStep ==
  ASSUME HInv, NEW c \in Callers,
         SaveHandler(c) \/ InstallHandler(c) \/ Publish(c) \/ Wake(c) \/ Timeout(c)
  PROVE  HInv'
<1> USE DEF HInv, HandlerTypes, Goto, session, history, calls, Handlers, CallLabels
<1>1. CASE SaveHandler(c)
  BY <1>1, ConstantsAssumption DEF SaveHandler, HandlerInv, OneCall, InCall
<1>2. CASE InstallHandler(c)
  BY <1>2, ConstantsAssumption DEF InstallHandler, HandlerInv, OneCall, InCall
<1>3. CASE Publish(c)
  BY <1>3 DEF Publish, HandlerInv, OneCall, InCall
<1>4. CASE Wake(c)
  BY <1>4 DEF Wake, HandlerInv, OneCall, InCall
<1>5. CASE Timeout(c)
  BY <1>5 DEF Timeout, HandlerInv, OneCall, InCall
<1>6. QED
  BY <1>1, <1>2, <1>3, <1>4, <1>5

(* The call that ends puts Main back; without a client its handler becomes  *)
(* a stale one of a client object that is gone.                             *)
LEMMA CallEndsStep ==
  ASSUME HInv, NEW c \in Callers, Restore(c) \/ CallRaises(c) PROVE HInv'
<1> USE DEF HInv, HandlerTypes, session, Handlers, CallLabels
<1>1. PICK h \in {old[c], on_message} :
        /\ CallEnds(c, h) /\ InCall(c)
        /\ client => h = old[c] /\ pc[c] = "restore"
  BY DEF Restore, CallRaises, InCall
<1>2. /\ pc' = [pc EXCEPT ![c] = "idle"]
      /\ old' = [d \in Callers |-> IF d = c THEN Main ELSE Forget(c, old[d])]
      /\ on_message' = Forget(c, h)
      /\ UNCHANGED <<client, overlapped>>
  BY <1>1 DEF CallEnds
<1>3. HandlerTypes'
  BY <1>1, <1>2 DEF Forget
<1>4. ASSUME ~overlapped' PROVE HandlerInv'
  <2>1. HandlerInv
    BY <1>2, <1>4
  <2>2. \A d \in Callers : ~InCall(d)'
    BY <1>1, <1>2, <2>1 DEF HandlerInv, OneCall, InCall
  <2>3. client => h = Main
    BY <1>1, <2>1 DEF HandlerInv
  <2>4. client' => on_message' = Main
    BY <1>2, <2>3, ConstantsAssumption DEF Forget
  <2>5. QED
    BY <2>2, <2>4 DEF HandlerInv, OneCall, InCall
<1>5. QED
  BY <1>3, <1>4

LEMMA HInvInvariant == Spec => []HInv
<1>1. Init => HInv
  BY DEF Init, HInv, HandlerTypes, HandlerInv, OneCall, InCall, Handlers, CallLabels
<1>2. HInv /\ [Next]_vars => HInv'
  <2> SUFFICES ASSUME HInv, [Next]_vars PROVE HInv'
    OBVIOUS
  <2>1. CASE AppStep
    BY <2>1, HandlerFrame
       DEF AppStep, ConnectBegin, TcpConnect, TcpFails, ConnectReturns,
           ConnectTimesOut, Disconnect, SetOnReport, Close, session, calls, history
  <2>2. CASE NetStep \/ LinkDown \/ Printer \/ UNCHANGED vars
    BY <2>2, HandlerFrame
       DEF NetStep, OnConnect, Handle, HandleMalformed, DropMalformed, LinkDown, Printer,
           ReportUnasked, Answer, session, calls, history, vars
  <2>3. ASSUME NEW c \in Callers, CallBegin(c) \/ CallStep(c) PROVE HInv'
    BY <2>3, CallBeginStep, CallGoesOnStep, CallEndsStep DEF CallStep
  <2>4. QED
    BY <2>1, <2>2, <2>3 DEF Next
<1>3. QED
  BY <1>1, <1>2, PTL DEF Spec

(* As long as blocking calls do not overlap, none leaves another handler    *)
(* than _on_message behind, however it ends and whatever the link does.     *)
THEOREM HandlerRestoredHolds == Spec => []HandlerRestored
<1>1. HInv => HandlerRestored
  BY DEF HInv, HandlerInv, HandlerRestored, InCall
<1>2. QED
  BY <1>1, HInvInvariant, PTL

-----------------------------------------------------------------------------
(* The certificate files: only a connect() that raised leaves any behind.   *)
FilesInv ==
  /\ FilesAccounted
  /\ app = "off" => ~client
  /\ app = "failed" => paths \in abandoned
  /\ attempts \in Nat /\ 0 \notin disk

THEOREM FilesAccountedHolds == Spec => []FilesAccounted
<1>1. Init => FilesInv
  BY DEF Init, FilesInv, FilesAccounted
<1>2. FilesInv /\ [Next]_vars => FilesInv'
  <2> SUFFICES ASSUME FilesInv, [Next]_vars PROVE FilesInv'
    OBVIOUS
  <2> USE DEF FilesInv, FilesAccounted
  <2>1. CASE AppStep
    <3>1. CASE ConnectBegin
      BY <3>1 DEF ConnectBegin
    <3>2. CASE TcpConnect \/ TcpFails \/ ConnectReturns \/ SetOnReport
      BY <3>2 DEF TcpConnect, TcpFails, ConnectReturns, SetOnReport, session, files
    <3>3. CASE ConnectTimesOut \/ Disconnect
      BY <3>3 DEF ConnectTimesOut, Disconnect, Close
    <3>4. QED
      BY <2>1, <3>1, <3>2, <3>3 DEF AppStep
  <2>2. CASE NetStep \/ LinkDown \/ Printer \/ UNCHANGED vars
    BY <2>2
       DEF NetStep, OnConnect, Handle, HandleMalformed, DropMalformed, LinkDown, Printer,
           ReportUnasked, Answer, session, files, vars
  <2>3. ASSUME NEW c \in Callers, CallBegin(c) \/ CallStep(c) PROVE FilesInv'
    BY <2>3
       DEF CallBegin, CallStep, SaveHandler, InstallHandler, Publish, Wake, Timeout,
           Restore, CallRaises, CallEnds, session, files
  <2>4. QED
    BY <2>1, <2>2, <2>3 DEF Next
<1>3. FilesInv => FilesAccounted
  BY DEF FilesInv
<1>4. QED
  BY <1>1, <1>2, <1>3, PTL DEF Spec
-----------------------------------------------------------------------------
(* Types: what is in transit stays in transit, at the same length, when a   *)
(* call ends and its messages become nobody's.                              *)
LEMMA ForgetMsgType ==
  ASSUME NEW c \in Callers, NEW m \in Messages
  PROVE  ForgetMsg(c, m) \in Messages
BY DEF ForgetMsg, Forget, Messages

LEMMA ForgetWire ==
  ASSUME NEW c \in Callers, wire \in Seq(Messages),
         wire' = [i \in DOMAIN wire |-> ForgetMsg(c, wire[i])]
  PROVE  /\ wire' \in Seq(Messages)
         /\ Len(wire') = Len(wire)
         /\ \A i \in 1 .. Len(wire) : wire'[i] = ForgetMsg(c, wire[i])
<1>1. DOMAIN wire = 1 .. Len(wire) /\ Len(wire) \in Nat
  OBVIOUS
<1>2. \A i \in 1 .. Len(wire) : ForgetMsg(c, wire[i]) \in Messages
  BY ForgetMsgType
<1>3. wire' \in [1 .. Len(wire) -> Messages]
  BY <1>1, <1>2
<1>4. wire' \in Seq(Messages)
  BY <1>1, <1>3, SeqDef
<1>5. Len(wire') = Len(wire)
  BY <1>1, <1>3, <1>4, LenProperties
<1> QED BY <1>1, <1>4, <1>5

LEMMA EmptyWire ==
  ASSUME NEW w, w = <<>> PROVE w \in Seq(Messages) /\ Len(w) <= MaxWire
BY ConstantsAssumption

LEMMA TypeConnection ==
  ASSUME TypeOK, AppStep PROVE TypeOK'
<1> USE ConstantsAssumption DEF TypeOK
<1>1. CASE ConnectBegin
  <2>1. attempts' \in 1 .. MaxAttempts
    BY <1>1 DEF ConnectBegin
  <2>2. disk' \subseteq 1 .. MaxAttempts /\ paths' \in 0 .. MaxAttempts
    BY <1>1, <2>1 DEF ConnectBegin
  <2> QED BY <1>1, <2>1, <2>2, ZenonT(60) DEF ConnectBegin, calls, history, Handlers
<1>2. CASE TcpConnect
  BY <1>2 DEF TcpConnect, calls, history, files
<1>3. CASE TcpFails
  BY <1>3 DEF TcpFails, calls, history
<1>4. CASE ConnectReturns
  BY <1>4 DEF ConnectReturns, calls, history, files
<1>5. CASE ConnectTimesOut
  <2>1. wire' \in Seq(Messages) /\ Len(wire') <= MaxWire
    BY <1>5, EmptyWire DEF ConnectTimesOut, Close
  <2>2. disk' \subseteq 1 .. MaxAttempts /\ paths' \in 0 .. MaxAttempts
    BY <1>5 DEF ConnectTimesOut, Close
  <2> QED BY <1>5, <2>1, <2>2 DEF ConnectTimesOut, Close, calls, history
<1>6. CASE Disconnect
  <2>1. wire' \in Seq(Messages) /\ Len(wire') <= MaxWire
    BY <1>6, EmptyWire DEF Disconnect, Close
  <2>2. disk' \subseteq 1 .. MaxAttempts /\ paths' \in 0 .. MaxAttempts
    BY <1>6 DEF Disconnect, Close
  <2> QED BY <1>6, <2>1, <2>2 DEF Disconnect, Close, calls, history
<1>7. CASE SetOnReport
  BY <1>7 DEF SetOnReport, session, calls, history, files
<1> QED BY <1>1, <1>2, <1>3, <1>4, <1>5, <1>6, <1>7 DEF AppStep

LEMMA TypeNetwork ==
  ASSUME TypeOK, NetStep \/ LinkDown \/ Printer PROVE TypeOK'
<1> USE ConstantsAssumption DEF TypeOK
<1>1. CASE OnConnect
  BY <1>1 DEF OnConnect, calls, history, files
<1>2. CASE Handle
  <2>1. /\ wire # <<>> /\ wire' = Tail(wire)
        /\ UNCHANGED <<session, on_message, on_report, pc, topic, old, requests,
                       files, history>>
    BY <1>2 DEF Handle
  <2>2. Head(wire) \in Messages /\ wire' \in Seq(Messages) /\ Len(wire') <= MaxWire
    BY <2>1
  <2>3. /\ result' \in [Callers -> Messages \cup {NoResult}]
        /\ fate' \in {"none", "reported", "unset", "taken", "dropped", "raised"}
    BY <1>2, <2>2 DEF Handle, HandleMain, HandleStale, HandleFor
  <2> QED BY <2>1, <2>2, <2>3 DEF session, files, history
<1>3. CASE HandleMalformed
  <2>1. wire' \in Seq(Messages) /\ Len(wire') <= MaxWire
    BY <1>3, EmptyWire DEF HandleMalformed
  <2> QED BY <1>3, <2>1 DEF HandleMalformed, calls, history, files
<1>8. CASE DropMalformed
  <2>1. /\ wire # <<>> /\ wire' = Tail(wire) /\ fate' = "malformed"
        /\ UNCHANGED <<session, on_message, on_report, calls, requests, files, history>>
    BY <1>8 DEF DropMalformed
  <2>2. wire' \in Seq(Messages) /\ Len(wire') <= MaxWire
    BY <2>1
  <2> QED BY <2>1, <2>2 DEF session, calls, files, history
<1>4. CASE LinkDown
  <2>1. wire' \in Seq(Messages) /\ Len(wire') <= MaxWire
    BY <1>4, EmptyWire DEF LinkDown
  <2> QED BY <1>4, <2>1, ZenonT(60) DEF LinkDown, calls, history, files
<1>5. ASSUME NEW m \in Messages, Transmit(m), Len(wire) < MaxWire
      PROVE  wire' \in Seq(Messages) /\ Len(wire') <= MaxWire
  BY <1>5 DEF Transmit
<1>6. CASE ReportUnasked
  <2>1. PICK t \in Unasked : Transmit([topic |-> t, to |-> NoCaller])
    BY <1>6 DEF ReportUnasked
  <2>2. [topic |-> t, to |-> NoCaller] \in Messages
    BY DEF Messages
  <2> QED BY <1>5, <1>6, <2>1, <2>2
      DEF ReportUnasked, session, calls, files, history
<1>7. CASE Answer
  BY <1>5, <1>7 DEF Answer, session, calls, files, history
<1> QED BY <1>1, <1>2, <1>3, <1>4, <1>6, <1>7, <1>8 DEF NetStep, Printer

(* a call has a topic *)
TopicSet == \A c \in Callers : InCall(c) => topic[c] \in Topics

LEMMA TypeCalls ==
  ASSUME TypeOK, TopicSet, NEW c \in Callers, CallBegin(c) \/ CallStep(c)
  PROVE  TypeOK'
<1> USE ConstantsAssumption DEF TypeOK
<1>1. CASE CallBegin(c)
  <2>1. overlapped' \in BOOLEAN
    BY <1>1 DEF CallBegin
  <2> QED BY <1>1, <2>1 DEF CallBegin, session, files
<1>2. CASE SaveHandler(c)
  BY <1>2 DEF SaveHandler, Goto, session, files, history
<1>3. CASE InstallHandler(c)
  BY <1>3 DEF InstallHandler, Goto, Handlers, session, files, history
<1>4. CASE Publish(c)
  <2>1. [topic |-> topic[c], to |-> c] \in Messages
    BY <1>4 DEF Publish, Goto, TopicSet, InCall, Messages
  <2>2. requests' \subseteq Messages
    BY <1>4, <2>1 DEF Publish
  <2> QED BY <1>4, <2>2 DEF Publish, Goto, session, files, history
<1>5. CASE Wake(c)
  BY <1>5 DEF Wake, Goto, session, files, history
<1>6. CASE Timeout(c)
  BY <1>6 DEF Timeout, Goto, session, files, history
<1>7. CASE Restore(c) \/ CallRaises(c)
  <2>1. PICK h \in Handlers : CallEnds(c, h) /\ topic[c] \in Topics
    BY <1>7 DEF Restore, CallRaises, TopicSet, InCall
  <2>2. /\ wire' = [i \in DOMAIN wire |-> ForgetMsg(c, wire[i])]
        /\ requests' = {ForgetMsg(c, r) : r \in requests}
        /\ pc' = [pc EXCEPT ![c] = "idle"]
        /\ topic' = [topic EXCEPT ![c] = "none"]
        /\ result' = [result EXCEPT ![c] = NoResult]
        /\ old' = [d \in Callers |-> IF d = c THEN Main ELSE Forget(c, old[d])]
        /\ on_message' = Forget(c, h)
        /\ unanswered' \in {unanswered, unanswered \cup {topic[c]}}
        /\ UNCHANGED <<session, on_report, files, fate, overlapped>>
    BY <2>1 DEF CallEnds
  <2>3. wire' \in Seq(Messages) /\ Len(wire') <= MaxWire
    BY <2>2, ForgetWire
  <2>4. requests' \subseteq Messages
    BY <2>2, ForgetMsgType
  <2>5. on_message' \in Handlers /\ old' \in [Callers -> Handlers]
    BY <2>2 DEF Forget, Handlers
  <2> HIDE DEF NoResult
  <2> QED BY <2>1, <2>2, <2>3, <2>4, <2>5 DEF session, files
<1> QED BY <1>1, <1>2, <1>3, <1>4, <1>5, <1>6, <1>7 DEF CallStep

(* connect, disconnect, blocking calls and reports keep every variable of   *)
(* its type, and no more reports in transit than the bound.                 *)
THEOREM TypeCorrect == Spec => []TypeOK
<1>1. Init => TypeOK /\ TopicSet
  <2> SUFFICES ASSUME Init PROVE TypeOK /\ TopicSet
    OBVIOUS
  <2>1. wire \in Seq(Messages) /\ Len(wire) <= MaxWire
    BY EmptyWire DEF Init
  <2>2. /\ disk \subseteq 1 .. MaxAttempts /\ paths \in 0 .. MaxAttempts
        /\ attempts \in 0 .. MaxAttempts /\ abandoned \subseteq 0 .. MaxAttempts
    BY ConstantsAssumption DEF Init
  <2>3. /\ pc \in [Callers -> {"idle", "save", "install", "publish", "wait", "restore"}]
        /\ topic \in [Callers -> Topics \cup {"none"}]
        /\ old \in [Callers -> Handlers] /\ on_message \in Handlers
        /\ result \in [Callers -> Messages \cup {NoResult}]
    BY DEF Init, Handlers
  <2>4. TopicSet
    BY DEF Init, TopicSet, InCall
  <2> QED BY <2>1, <2>2, <2>3, <2>4 DEF Init, TypeOK
<1>2. TypeOK /\ TopicSet /\ [Next]_vars => TypeOK' /\ TopicSet'
  <2> SUFFICES ASSUME TypeOK, TopicSet, [Next]_vars PROVE TypeOK' /\ TopicSet'
    OBVIOUS
  <2>1. TypeOK'
    <3>1. CASE UNCHANGED vars
      BY <3>1 DEF vars, session, calls, files, history, TypeOK
    <3> QED BY <3>1, TypeConnection, TypeNetwork, TypeCalls DEF Next
  <2>2. TopicSet'
    <3>1. CASE AppStep \/ NetStep \/ LinkDown \/ Printer \/ UNCHANGED vars
      <4>1. UNCHANGED <<pc, topic>>
        BY <3>1 DEF AppStep, ConnectBegin, TcpConnect, TcpFails, ConnectReturns,
           ConnectTimesOut, Disconnect, SetOnReport, NetStep, OnConnect, Handle,
           HandleMalformed, DropMalformed, LinkDown, Printer, ReportUnasked, Answer, calls, vars
      <4> QED BY <4>1 DEF TopicSet, InCall
    <3>2. ASSUME NEW c \in Callers, CallBegin(c) \/ CallStep(c) PROVE TopicSet'
      BY <3>2 DEF TypeOK, TopicSet, InCall, CallBegin, CallStep, SaveHandler,
         InstallHandler, Publish, Wake, Timeout, Restore, CallRaises, CallEnds, Goto
    <3> QED BY <3>1, <3>2 DEF Next
  <2> QED BY <2>1, <2>2
<1> QED BY <1>1, <1>2, PTL DEF Spec
-----------------------------------------------------------------------------
(* The answer to a call.  A report or request that is for nobody who waits  *)
(* is on a topic where that must be expected; one that is for a caller is   *)
(* for its present call, is the only one, and has not been received yet.    *)
Sound(m) ==
  /\ m.to \notin Callers => m.topic \in Unasked \cup unanswered
  /\ m.to \in Callers => /\ pc[m.to] \in {"wait", "restore"}
                         /\ m.topic = topic[m.to]
                         /\ result[m.to].to # m.to

OneAnswer ==
  /\ \A r \in requests, i \in 1 .. Len(wire) : r.to \in Callers => wire[i].to # r.to
  /\ \A i, j \in 1 .. Len(wire) :
       wire[i].to \in Callers /\ wire[i].to = wire[j].to => i = j

(* a call's result is empty before it, and its own answer is never early    *)
ResultInTime ==
  \A c \in Callers : /\ pc[c] = "idle" => result[c] = NoResult
                     /\ pc[c] \notin {"wait", "restore"} => result[c].to # c

(* a handler that is installed or saved is Main, a stale one, or a call's   *)
HandlersLive ==
  /\ on_message \in Callers => InCall(on_message)
  /\ \A c \in Callers : old[c] \in Callers => InCall(old[c])

InTransitSound ==
  /\ \A r \in requests : Sound(r)
  /\ \A i \in 1 .. Len(wire) : Sound(wire[i])

AnswerInv == InTransitSound /\ OneAnswer /\ ResultInTime /\ HandlersLive /\ AnswerIsOwn

(* what every lemma below may use *)
Known == TypeOK /\ HInv /\ AnswerInv

LEMMA KnownTypes ==
  ASSUME Known
  PROVE  /\ wire \in Seq(Messages) /\ requests \subseteq Messages
         /\ pc \in [Callers -> CallLabels]
         /\ topic \in [Callers -> Topics \cup {"none"}]
         /\ old \in [Callers -> Handlers] /\ on_message \in Handlers
         /\ result \in [Callers -> Messages \cup {NoResult}]
         /\ overlapped \in BOOLEAN
         /\ {Main, NoCaller, Stale} \cap Callers = {}
         /\ NoResult.to \notin Callers
BY ConstantsAssumption DEF Known, TypeOK, CallLabels, NoResult

(* Steps that touch no call and at most empty the wire or install Main.     *)
LEMMA AnswerFrame ==
  ASSUME Known, UNCHANGED <<pc, topic, old, result, requests, overlapped, unanswered>>,
         wire' = wire \/ wire' = <<>>, on_message' = on_message \/ on_message' = Main
  PROVE  AnswerInv'
<1> USE KnownTypes
<1>1. /\ Len(wire') = Len(wire) /\ wire' = wire
      \/ Len(wire') = 0
  OBVIOUS
<1>2. InTransitSound' /\ OneAnswer'
  BY <1>1 DEF Known, AnswerInv, InTransitSound, Sound, OneAnswer
<1>3. ResultInTime' /\ HandlersLive' /\ AnswerIsOwn'
  BY DEF Known, AnswerInv, ResultInTime, HandlersLive, AnswerIsOwn, InCall
<1> QED BY <1>2, <1>3 DEF AnswerInv

(* A call that begins finds nothing that is for its caller.                 *)
LEMMA AnswerCallBegin ==
  ASSUME Known, NEW c \in Callers, CallBegin(c) PROVE AnswerInv'
<1> USE KnownTypes
<1>1. /\ pc' = [pc EXCEPT ![c] = "save"] /\ pc[c] = "idle"
      /\ topic' \in [Callers -> Topics \cup {"none"}]
      /\ \A d \in Callers \ {c} : topic'[d] = topic[d]
      /\ UNCHANGED <<old, result, requests, wire, unanswered, on_message>>
      /\ ~overlapped' => ~overlapped
  BY DEF CallBegin, InCall
<1>2. \A d \in Callers : InCall(d) => InCall(d)'
  BY <1>1 DEF InCall
<1>3. InTransitSound'
  <2>1. ASSUME NEW m, Sound(m) PROVE Sound(m)'
    <3>1. CASE m.to \in Callers
      <4>1. m.to # c
        BY <1>1, <2>1, <3>1 DEF Sound
      <4>2. pc'[m.to] = pc[m.to] /\ topic'[m.to] = topic[m.to]
        BY <1>1, <3>1, <4>1
      <4> QED BY <1>1, <2>1, <3>1, <4>2 DEF Sound
    <3>2. CASE m.to \notin Callers
      BY <1>1, <2>1, <3>2 DEF Sound
    <3> QED BY <3>1, <3>2
  <2>2. InTransitSound
    BY DEF Known, AnswerInv
  <2>3. ASSUME NEW n \in requests' PROVE Sound(n)'
    BY <1>1, <2>1, <2>2 DEF InTransitSound
  <2>4. ASSUME NEW i \in 1 .. Len(wire), NEW n, n = wire[i] PROVE Sound(n)'
    BY <2>1, <2>2, <2>4 DEF InTransitSound
  <2>5. (\A i \in 1 .. Len(wire) : Sound(wire[i]))'
    BY <1>1, <2>4 DEF Sound
  <2> QED BY <2>3, <2>5 DEF InTransitSound
<1>4. OneAnswer'
  BY <1>1 DEF Known, AnswerInv, OneAnswer
<1>5. ResultInTime'
  BY <1>1 DEF Known, AnswerInv, ResultInTime
<1>6. HandlersLive'
  BY <1>1, <1>2 DEF Known, AnswerInv, HandlersLive, Handlers, InCall
<1>7. AnswerIsOwn'
  BY <1>1 DEF Known, AnswerInv, AnswerIsOwn, ResultInTime
<1> QED BY <1>3, <1>4, <1>5, <1>6, <1>7 DEF AnswerInv

(* The steps of a call that neither send nor end it.                        *)
LEMMA AnswerCallGoesOn ==
  ASSUME Known, NEW c \in Callers,
         SaveHandler(c) \/ InstallHandler(c) \/ Wake(c) \/ Timeout(c)
  PROVE  AnswerInv'
<1> USE KnownTypes
<1>1. /\ UNCHANGED <<topic, result, requests, wire, unanswered, overlapped>>
      /\ \/ /\ pc[c] \in {"save", "install"}
            /\ pc' \in {[pc EXCEPT ![c] = l] : l \in {"install", "publish"}}
         \/ pc[c] = "wait" /\ pc' = [pc EXCEPT ![c] = "restore"]
  BY DEF SaveHandler, InstallHandler, Wake, Timeout, Goto, history
<1>2. /\ on_message' \in {on_message, c}
      /\ old' \in {old, [old EXCEPT ![c] = on_message]}
  BY DEF SaveHandler, InstallHandler, Wake, Timeout
<1>3. \A d \in Callers : (InCall(d) => InCall(d)') /\ InCall(c)'
  BY <1>1 DEF InCall
<1>4. \A d \in Callers : /\ pc[d] \in {"wait", "restore"} <=> pc'[d] \in {"wait", "restore"}
                         /\ pc[d] = "idle" <=> pc'[d] = "idle"
  BY <1>1
<1>5. InTransitSound' /\ OneAnswer' /\ ResultInTime'
  BY <1>1, <1>4 DEF Known, AnswerInv, InTransitSound, Sound, OneAnswer, ResultInTime
<1>6. HandlersLive'
  <2>1. on_message' \in Callers => InCall(on_message)'
    BY <1>2, <1>3 DEF Known, AnswerInv, HandlersLive, InCall
  <2>2. ASSUME NEW d \in Callers, old'[d] \in Callers PROVE InCall(old[d])'
    <3>1. old'[d] \in {old[d], on_message}
      BY <1>2
    <3>2. InCall(old'[d])
      BY <2>2, <3>1 DEF Known, AnswerInv, HandlersLive, InCall
    <3> QED BY <1>3, <2>2, <3>2 DEF InCall
  <2> QED BY <2>1, <2>2 DEF HandlersLive
<1>7. AnswerIsOwn'
  BY <1>1 DEF Known, AnswerInv, AnswerIsOwn
<1> QED BY <1>5, <1>6, <1>7 DEF AnswerInv

(* A published request is the only thing that is for its caller.            *)
LEMMA AnswerPublish ==
  ASSUME Known, NEW c \in Callers, Publish(c) PROVE AnswerInv'
<1> USE KnownTypes
<1> DEFINE q == [topic |-> topic[c], to |-> c]
<1>1. /\ UNCHANGED <<topic, result, wire, unanswered, overlapped, old, on_message>>
      /\ pc[c] = "publish" /\ pc' = [pc EXCEPT ![c] = "wait"]
      /\ requests' \subseteq requests \cup {q}
  BY DEF Publish, Goto, history
<1>2. /\ \A r \in requests : r.to # c
      /\ \A i \in 1 .. Len(wire) : wire[i].to # c
  BY <1>1 DEF Known, AnswerInv, InTransitSound, Sound
<1>3. result[c].to # c
  BY <1>1 DEF Known, AnswerInv, ResultInTime
<1>4. \A d \in Callers : pc[d] \in {"wait", "restore"} => pc'[d] \in {"wait", "restore"}
  BY <1>1
<1>5. InTransitSound'
  <2>1. \A r \in requests : Sound(r)'
    BY <1>1, <1>4 DEF Known, AnswerInv, InTransitSound, Sound
  <2>2. q.to = c /\ q.topic = topic[c] /\ pc'[c] = "wait"
    BY <1>1
  <2>3. \A r \in requests' : Sound(r)'
    BY <1>1, <1>3, <2>1, <2>2 DEF Sound
  <2>4. \A i \in 1 .. Len(wire) : Sound(wire[i])'
    BY <1>1, <1>4 DEF Known, AnswerInv, InTransitSound, Sound
  <2> QED BY <1>1, <2>3, <2>4 DEF InTransitSound, Sound
<1>6. OneAnswer'
  BY <1>1, <1>2 DEF Known, AnswerInv, OneAnswer
<1>7. ResultInTime' /\ HandlersLive' /\ AnswerIsOwn'
  BY <1>1 DEF Known, AnswerInv, ResultInTime, HandlersLive, AnswerIsOwn, InCall, Handlers
<1> QED BY <1>5, <1>6, <1>7 DEF AnswerInv
(* A call that ends without its own answer marks its topic; one that has    *)
(* its answer leaves nothing behind.                                        *)
LEMMA AnswerCallEnds ==
  ASSUME Known, NEW c \in Callers, Restore(c) \/ CallRaises(c) PROVE AnswerInv'
<1> USE KnownTypes
<1>1. PICK h \in {old[c], on_message} : CallEnds(c, h)
  BY DEF Restore, CallRaises
<1>2. /\ pc' = [pc EXCEPT ![c] = "idle"]
      /\ topic' = [topic EXCEPT ![c] = "none"]
      /\ result' = [result EXCEPT ![c] = NoResult]
      /\ old' = [d \in Callers |-> IF d = c THEN Main ELSE Forget(c, old[d])]
      /\ on_message' = Forget(c, h)
      /\ requests' = {ForgetMsg(c, r) : r \in requests}
      /\ wire' = [i \in DOMAIN wire |-> ForgetMsg(c, wire[i])]
      /\ unanswered' = IF result[c].to = c THEN unanswered
                       ELSE unanswered \cup {topic[c]}
      /\ UNCHANGED overlapped
  BY <1>1 DEF CallEnds
<1>3. /\ Len(wire') = Len(wire)
      /\ \A i \in 1 .. Len(wire) : wire'[i] = ForgetMsg(c, wire[i])
  BY <1>2, ForgetWire
<1>4. Stale \notin Callers /\ Main \notin Callers
  OBVIOUS
<1>5. \A m \in Messages : /\ ForgetMsg(c, m).topic = m.topic
                          /\ ForgetMsg(c, m).to = Forget(c, m.to)
  BY DEF ForgetMsg, Messages
<1>6. ASSUME NEW m \in Messages, NEW n \in Messages, Sound(m),
             n.topic = m.topic, n.to = Forget(c, m.to)
      PROVE  Sound(n)'
  <2>1. CASE m.to = c
    BY <1>2, <1>4, <1>6, <2>1 DEF Sound, Forget
  <2>2. CASE m.to # c
    BY <1>2, <1>6, <2>2 DEF Sound, Forget
  <2> QED BY <2>1, <2>2
<1>7. InTransitSound'
  <2>1. ASSUME NEW n \in requests' PROVE Sound(n)'
    <3>1. PICK m \in requests : n = ForgetMsg(c, m)
      BY <1>2
    <3>2. m \in Messages /\ n \in Messages /\ Sound(m)
      BY <3>1, ForgetMsgType DEF Known, AnswerInv, InTransitSound
    <3> QED BY <1>5, <1>6, <3>1, <3>2
  <2>2. \A i \in 1 .. Len(wire) : wire[i] \in Messages /\ Sound(wire[i])
    BY DEF Known, AnswerInv, InTransitSound
  <2>3. ASSUME NEW i \in 1 .. Len(wire), NEW n, n = wire'[i] PROVE Sound(n)'
    <3>1. n = ForgetMsg(c, wire[i]) /\ n \in Messages
      BY <1>3, <2>2, <2>3, ForgetMsgType
    <3> QED BY <1>5, <1>6, <2>2, <3>1
  <2>4. (\A i \in 1 .. Len(wire) : Sound(wire[i]))'
    BY <1>3, <2>3 DEF Sound
  <2> QED BY <2>1, <2>4 DEF InTransitSound
<1>8. OneAnswer'
  <2>1. \A i \in 1 .. Len(wire) : wire'[i].to = Forget(c, wire[i].to)
    BY <1>3, <1>5
  <2>2. ASSUME NEW n \in requests', NEW i \in 1 .. Len(wire), n.to \in Callers
        PROVE  wire'[i].to # n.to
    <3>1. PICK r \in requests : n = ForgetMsg(c, r)
      BY <1>2
    <3>2. n.to = Forget(c, r.to)
      BY <1>5, <3>1
    <3> QED BY <1>4, <2>1, <2>2, <3>2 DEF Known, AnswerInv, OneAnswer, Forget
  <2>3. ASSUME NEW i \in 1 .. Len(wire), NEW j \in 1 .. Len(wire),
               wire'[i].to \in Callers, wire'[i].to = wire'[j].to
        PROVE  i = j
    BY <1>4, <2>1, <2>3 DEF Known, AnswerInv, OneAnswer, Forget
  <2> QED BY <1>3, <2>2, <2>3 DEF OneAnswer
<1>9. ResultInTime'
  BY <1>2 DEF Known, AnswerInv, ResultInTime
<1>10. HandlersLive'
  <2>1. \A g \in Handlers : (g \in Callers => InCall(g)) =>
          (Forget(c, g) \in Callers => pc'[Forget(c, g)] # "idle")
    BY <1>2, <1>4 DEF Forget, InCall
  <2>2. (h \in Callers => InCall(h)) /\ h \in Handlers
    BY DEF Known, AnswerInv, HandlersLive
  <2>3. on_message' \in Callers => pc'[on_message'] # "idle"
    BY <1>2, <2>1, <2>2
  <2>4. ASSUME NEW d \in Callers, old'[d] \in Callers PROVE pc'[old'[d]] # "idle"
    <3>1. d # c /\ old'[d] = Forget(c, old[d])
      BY <1>2, <1>4, <2>4
    <3>2. old[d] \in Callers => InCall(old[d])
      BY DEF Known, AnswerInv, HandlersLive
    <3> QED BY <2>1, <2>4, <3>1, <3>2
  <2> QED BY <2>3, <2>4 DEF HandlersLive, InCall
<1>11. AnswerIsOwn'
  BY <1>2 DEF Known, AnswerInv, AnswerIsOwn
<1> QED BY <1>7, <1>8, <1>9, <1>10, <1>11 DEF AnswerInv

(* The printer moves a request to the wire, or adds a report for nobody.    *)
LEMMA AnswerPrinter ==
  ASSUME Known, Printer PROVE AnswerInv'
<1> USE KnownTypes
<1>1. UNCHANGED <<pc, topic, old, result, unanswered, overlapped, on_message>>
  BY DEF Printer, ReportUnasked, Answer, calls, history
<1>2. ResultInTime' /\ HandlersLive' /\ AnswerIsOwn'
  BY <1>1 DEF Known, AnswerInv, ResultInTime, HandlersLive, AnswerIsOwn, InCall
<1>3. PICK m \in Messages :
        /\ Transmit(m)
        /\ \/ m.to \notin Callers /\ m.topic \in Unasked /\ requests' = requests
           \/ m \in requests /\ requests' = requests \ {m}
  <2>1. CASE ReportUnasked
    <3>1. PICK t \in Unasked : Transmit([topic |-> t, to |-> NoCaller])
      BY <2>1 DEF ReportUnasked
    <3>2. [topic |-> t, to |-> NoCaller] \in Messages /\ NoCaller \notin Callers
      BY ConstantsAssumption DEF Messages
    <3> QED BY <2>1, <3>1, <3>2 DEF ReportUnasked
  <2>2. CASE Answer
    BY <2>2 DEF Answer
  <2> QED BY <2>1, <2>2 DEF Printer
<1>4. Sound(m)
  BY <1>3 DEF Known, AnswerInv, InTransitSound, Sound
<1>5. m.to \in Callers => /\ \A r \in requests' : r.to # m.to
                          /\ \A i \in 1 .. Len(wire) : wire[i].to # m.to
  <2>1. SUFFICES ASSUME m.to \in Callers
                 PROVE  /\ \A r \in requests' : r.to # m.to
                        /\ \A i \in 1 .. Len(wire) : wire[i].to # m.to
    OBVIOUS
  <2>2. m \in requests /\ requests' = requests \ {m}
    BY <1>3, <2>1
  <2>3. ASSUME NEW r \in requests, r.to = m.to PROVE r = m
    <3>1. r.topic = m.topic
      BY <2>1, <2>2, <2>3 DEF Known, AnswerInv, InTransitSound, Sound
    <3>2. r \in Messages /\ m \in Messages
      OBVIOUS
    <3> QED BY <2>3, <3>1, <3>2 DEF Messages
  <2> QED BY <2>1, <2>2, <2>3 DEF Known, AnswerInv, OneAnswer
<1>6. requests' \subseteq requests
  BY <1>3
<1>7. CASE wire' = wire
  <2>1. InTransitSound' /\ OneAnswer'
    BY <1>1, <1>6, <1>7 DEF Known, AnswerInv, InTransitSound, Sound, OneAnswer
  <2> QED BY <1>2, <2>1 DEF AnswerInv
<1>8. CASE wire' = Append(wire, m)
  <2>1. /\ Len(wire') = Len(wire) + 1 /\ Len(wire) \in Nat
        /\ \A i \in 1 .. Len(wire) : wire'[i] = wire[i]
        /\ wire'[Len(wire) + 1] = m
    BY <1>8
  <2>2. \A i \in 1 .. Len(wire') : i \in 1 .. Len(wire) \/ i = Len(wire) + 1
    BY <2>1
  <2>3. InTransitSound'
    BY <1>1, <1>4, <1>6, <2>1, <2>2 DEF Known, AnswerInv, InTransitSound, Sound
  <2>4. OneAnswer'
    <3>1. OneAnswer
      BY DEF Known, AnswerInv
    <3>2. ASSUME NEW r \in requests', NEW i \in 1 .. Len(wire'), r.to \in Callers
          PROVE  wire'[i].to # r.to
      BY <1>5, <1>6, <2>1, <2>2, <3>1, <3>2 DEF OneAnswer
    <3>3. ASSUME NEW i \in 1 .. Len(wire'), NEW j \in 1 .. Len(wire'),
                 wire'[i].to \in Callers, wire'[i].to = wire'[j].to
          PROVE  i = j
      <4>1. CASE i \in 1 .. Len(wire) /\ j \in 1 .. Len(wire)
        BY <2>1, <3>1, <3>3, <4>1 DEF OneAnswer
      <4>2. CASE i = Len(wire) + 1 \/ j = Len(wire) + 1
        BY <1>5, <2>1, <2>2, <3>3, <4>2
      <4> QED BY <2>2, <4>1, <4>2
    <3> QED BY <3>2, <3>3 DEF OneAnswer
  <2> QED BY <1>2, <2>3, <2>4 DEF AnswerInv
<1> QED BY <1>3, <1>7, <1>8 DEF Transmit
(* The network thread: what is left on the wire stays sound, and a call     *)
(* that takes a report takes one that it may.                               *)
LEMMA AnswerHandle ==
  ASSUME Known, Handle \/ DropMalformed PROVE AnswerInv'
<1> USE KnownTypes
<1> DEFINE m == Head(wire)
<1>1. /\ wire # <<>> /\ wire' = Tail(wire)
      /\ UNCHANGED <<pc, topic, old, requests, unanswered, overlapped, on_message>>
  BY DEF Handle, DropMalformed, calls, history
<1>2. /\ Len(wire) \in Nat /\ Len(wire) > 0 /\ m \in Messages /\ m = wire[1]
      /\ Len(wire') = Len(wire) - 1
      /\ \A i \in 1 .. Len(wire') : i + 1 \in 1 .. Len(wire) /\ wire'[i] = wire[i + 1]
  BY <1>1
<1>3. Sound(m)
  BY <1>2 DEF Known, AnswerInv, InTransitSound
<1>4. m.to \in Callers => /\ \A r \in requests : r.to # m.to
                          /\ \A i \in 1 .. Len(wire') : wire'[i].to # m.to
  <2> HIDE DEF m
  <2>1. ASSUME m.to \in Callers, NEW r \in requests PROVE r.to # m.to
    BY <1>2, <2>1 DEF Known, AnswerInv, OneAnswer
  <2>2. ASSUME m.to \in Callers, NEW i \in 1 .. Len(wire') PROVE wire'[i].to # m.to
    <3>1. wire'[i] = wire[i + 1] /\ i + 1 \in 1 .. Len(wire) /\ 1 \in 1 .. Len(wire)
      BY <1>2
    <3>2. i + 1 # 1
      OBVIOUS
    <3>3. OneAnswer
      BY DEF Known, AnswerInv
    <3> QED BY <1>2, <2>2, <3>1, <3>2, <3>3 DEF OneAnswer
  <2> QED BY <2>1, <2>2
<1>5. OneAnswer'
  <2>1. \A r \in requests, i \in 1 .. Len(wire') :
          r.to \in Callers => wire'[i].to # r.to
    <3> HIDE DEF m
    <3>1. OneAnswer
      BY DEF Known, AnswerInv
    <3>2. \A r \in requests, i \in 1 .. Len(wire) :
            r.to \in Callers => wire[i].to # r.to
      BY <3>1 DEF OneAnswer
    <3> QED BY <1>2, <3>2
  <2>2. ASSUME NEW i \in 1 .. Len(wire'), NEW j \in 1 .. Len(wire'),
               wire'[i].to \in Callers, wire'[i].to = wire'[j].to
        PROVE  i = j
    <3> HIDE DEF m
    <3>1. /\ i + 1 \in 1 .. Len(wire) /\ wire'[i] = wire[i + 1]
          /\ j + 1 \in 1 .. Len(wire) /\ wire'[j] = wire[j + 1]
      BY <1>2
    <3>2. OneAnswer
      BY DEF Known, AnswerInv
    <3>3. i + 1 = j + 1
      BY <2>2, <3>1, <3>2 DEF OneAnswer
    <3> QED BY <3>3
  <2> QED BY <1>1, <2>1, <2>2 DEF OneAnswer
<1>6. HandlersLive'
  BY <1>1 DEF Known, AnswerInv, HandlersLive, InCall
<1> HIDE DEF m
<1>7. \/ result' = result
      \/ /\ on_message \in Callers /\ m.topic = topic[on_message]
         /\ result' = [result EXCEPT ![on_message] = m]
  BY DEF Handle, HandleMain, HandleStale, HandleFor, DropMalformed, calls, m
<1>8. CASE result' = result
  <2>1. InTransitSound' /\ ResultInTime' /\ AnswerIsOwn'
    BY <1>1, <1>2, <1>8
       DEF Known, AnswerInv, InTransitSound, Sound, ResultInTime, AnswerIsOwn
  <2> QED BY <1>5, <1>6, <2>1 DEF AnswerInv
<1>9. ASSUME NEW c \in Callers, on_message = c, m.topic = topic[c],
             result' = [result EXCEPT ![c] = m]
      PROVE  AnswerInv'
  <2>1. InCall(c)
    BY <1>9 DEF Known, AnswerInv, HandlersLive
  <2>2. ASSUME NEW n \in Messages, Sound(n), n.to \in Callers => n.to # m.to
        PROVE  Sound(n)'
    BY <1>1, <1>9, <2>2 DEF Sound
  <2>3. InTransitSound'
    <3>1. ASSUME NEW n \in requests' PROVE Sound(n)'
      BY <1>1, <1>4, <2>2 DEF Known, AnswerInv, InTransitSound
    <3>2. ASSUME NEW i \in 1 .. Len(wire'), NEW n, n = wire'[i] PROVE Sound(n)'
      <4>1. n \in Messages /\ Sound(n)
        <5>1. n = wire[i + 1] /\ i + 1 \in 1 .. Len(wire)
          BY <1>2, <3>2
        <5> QED BY <5>1 DEF Known, AnswerInv, InTransitSound
      <4> QED BY <1>4, <2>2, <3>2, <4>1
    <3>3. (\A i \in 1 .. Len(wire) : Sound(wire[i]))'
      BY <3>2 DEF Sound
    <3> QED BY <3>1, <3>3 DEF InTransitSound
  <2>4. ResultInTime'
    <3>1. m.to = c => pc[c] \in {"wait", "restore"}
      BY <1>3, <1>9 DEF Sound
    <3> QED BY <1>1, <1>9, <2>1, <3>1
        DEF Known, AnswerInv, ResultInTime, InCall
  <2>5. ~overlapped => m.to = c \/ m.topic \in Unasked \cup unanswered
    <3>1. m.to \in Callers => InCall(m.to)
      BY <1>3 DEF Sound, InCall
    <3>2. ~overlapped /\ m.to \in Callers => m.to = c
      BY <2>1, <3>1 DEF Known, HInv, HandlerInv, OneCall
    <3> QED BY <1>3, <3>2 DEF Sound
  <2>6. AnswerIsOwn'
    BY <1>1, <1>9, <2>5 DEF Known, AnswerInv, AnswerIsOwn
  <2> QED BY <1>5, <1>6, <2>3, <2>4, <2>6 DEF AnswerInv
<1> QED BY <1>7, <1>8, <1>9

LEMMA AnswerInvariant == Spec => []AnswerInv
<1>1. Init => AnswerInv
  <2> SUFFICES ASSUME Init PROVE AnswerInv
    OBVIOUS
  <2>1. Len(wire) = 0 /\ requests = {}
    BY DEF Init
  <2>2. NoResult.to \notin Callers /\ Main \notin Callers
    BY ConstantsAssumption DEF NoResult
  <2>3. /\ on_message = Main /\ \A c \in Callers : old[c] = Main
        /\ \A c \in Callers : result[c] = NoResult
    BY DEF Init
  <2>4. InTransitSound /\ OneAnswer
    BY <2>1 DEF InTransitSound, OneAnswer
  <2> QED BY <2>2, <2>3, <2>4
      DEF AnswerInv, ResultInTime, HandlersLive, AnswerIsOwn
<1>2. Known /\ [Next]_vars => AnswerInv'
  <2> SUFFICES ASSUME Known, [Next]_vars PROVE AnswerInv'
    OBVIOUS
  <2>1. CASE AppStep \/ OnConnect \/ HandleMalformed \/ LinkDown \/ UNCHANGED vars
    <3>1. /\ UNCHANGED <<pc, topic, old, result, requests, overlapped, unanswered>>
          /\ wire' = wire \/ wire' = <<>>
          /\ on_message' = on_message \/ on_message' = Main
      BY <2>1 DEF AppStep, ConnectBegin, TcpConnect, TcpFails, ConnectReturns,
         ConnectTimesOut, Disconnect, SetOnReport, Close, OnConnect,
         HandleMalformed, LinkDown, calls, history, vars
    <3> QED BY <3>1, AnswerFrame
  <2>2. CASE Handle \/ DropMalformed
    BY <2>2, AnswerHandle
  <2>3. CASE Printer
    BY <2>3, AnswerPrinter
  <2>4. ASSUME NEW c \in Callers, CallBegin(c) \/ CallStep(c) PROVE AnswerInv'
    BY <2>4, AnswerCallBegin, AnswerCallGoesOn, AnswerPublish, AnswerCallEnds
       DEF CallStep
  <2> QED BY <2>1, <2>2, <2>3, <2>4 DEF Next, NetStep
<1> QED BY <1>1, <1>2, TypeCorrect, HInvInvariant, PTL DEF Spec, Known

(* A call that does not overlap another returns a report of its topic, and  *)
(* its own answer unless that topic is reported unasked or still owes one   *)
(* to an earlier call: topics are all the handler compares.                 *)
THEOREM AnswerIsOwnHolds == Spec => []AnswerIsOwn
<1>1. AnswerInv => AnswerIsOwn
  BY DEF AnswerInv
<1> QED BY <1>1, AnswerInvariant, PTL
=============================================================================
