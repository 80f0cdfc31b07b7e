------------------------ MODULE CompanionApi_proofs ------------------------
(***************************************************************************)
(* Safety of CompanionApi for any reports, paths and numbers of requests:  *)
(* types, a status that never goes back, views of a job that agree, and an *)
(* answer for each stream.                                                 *)
(***************************************************************************)
EXTENDS CompanionApi, TLAPS

(* Responses are made from the snapshot of their moment: what is being sent *)
(* is as new as anything sent before and as what its request met, and the   *)
(* snapshot is as new as all of them.                                       *)
Forward ==
  /\ \A i \in DOMAIN out : out[i].reply.handler = "status" => out[i].reply.at <= infoAt
  /\ \A i, j \in DOMAIN out :
       i <= j /\ out[i].reply.handler = "status" /\ out[j].reply.handler = "status"
         => out[i].reply.at <= out[j].reply.at
  /\ pc = "send" => reply.handler = Route(req.path)
  /\ pc = "send" /\ reply.handler = "status" =>
       /\ since <= reply.at /\ reply.at <= infoAt
       /\ \A i \in DOMAIN out :
            out[i].reply.handler = "status" => out[i].reply.at <= reply.at

IInv == TypeOK /\ Forward

-----------------------------------------------------------------------------
(* What taking the head of a sequence, or appending to it, leaves. *)
LEMMA TailFacts ==
  ASSUME NEW S, NEW s \in Seq(S), s # <<>>
  PROVE  Head(s) \in S /\ Tail(s) \in Seq(S)
OBVIOUS

LEMMA AppendFacts ==
  ASSUME NEW S, NEW s \in Seq(S), NEW e \in S
  PROVE  /\ Append(s, e) \in Seq(S) /\ Len(Append(s, e)) = Len(s) + 1 /\ Len(s) \in Nat
         /\ DOMAIN s = 1 .. Len(s) /\ DOMAIN Append(s, e) = 1 .. Len(s) + 1
         /\ \A i \in 1 .. Len(s) : Append(s, e)[i] = s[i]
         /\ Append(s, e)[Len(s) + 1] = e
OBVIOUS

LEMMA ElementFacts ==
  ASSUME NEW S, NEW s \in Seq(S), NEW i \in DOMAIN s
  PROVE  s[i] \in S
OBVIOUS

(* Every response a handler makes is a Response. *)
LEMMA RespondType ==
  ASSUME TypeOK, NEW h \in {"none"} \cup {Route(p) : p \in Paths \cup {<<>>}}
  PROVE  Respond(h) \in Response
<1> DEFINE code == CASE h = "none" -> 404
                     [] h = "job" /\ JobRaises(info) -> 500
                     [] OTHER -> 200
           job  == JobStatus(IF h = "status" THEN info ELSE None)
           word == IF h = "job" /\ ~JobRaises(info) THEN JobWord(info) ELSE "none"
           at   == CASE h \in {"status", "job"} -> infoAt
                     [] h = "printer" -> tempAt
                     [] OTHER -> 0
<1>2. code \in {200, 404, 500}
  OBVIOUS
<1>3. job \in {JobStatus(i) : i \in PrinterInfo \cup {None}}
  BY DEF TypeOK
<1>4. at \in 0 .. MaxReports
  <2>1. infoAt \in 0 .. MaxReports /\ tempAt \in 0 .. MaxReports /\ 0 \in 0 .. MaxReports
    BY BoundsAssumption DEF TypeOK
  <2> QED BY <2>1
<1>5. Respond(h) = [handler |-> h, code |-> code, job |-> job, word |-> word, at |-> at]
  BY DEF Respond
<1>6. word \in {"Printing", "Operational", "none"}
  BY DEF JobWord
<1> HIDE DEF code, job, at, word
<1> QED BY <1>2, <1>3, <1>4, <1>5, <1>6 DEF Response

(* Every response made is dated by the number of a report, or by zero. *)
LEMMA RepliesAreDated ==
  ASSUME TypeOK
  PROVE  reply.at \in Nat /\ \A i \in DOMAIN out : out[i].reply.at \in Nat
<1>1. \A a \in Response : a.at \in Nat
  BY BoundsAssumption DEF Response
<1>2. reply \in Response
  BY DEF TypeOK
<1>3. \A i \in DOMAIN out : out[i].reply \in Response
  <2>1. out \in Seq([stream : 0..MaxRequests, reply : Response])
    BY DEF TypeOK
  <2> DEFINE S == [stream : 0..MaxRequests, reply : Response]
  <2>2. \A a \in S : a.reply \in Response
    OBVIOUS
  <2> HIDE DEF S
  <2>3. \A i \in DOMAIN out : out[i] \in S
    BY <2>1, ElementFacts DEF S
  <2> QED BY <2>2, <2>3
<1> QED BY <1>1, <1>2, <1>3

LEMMA ReportInv == ASSUME NEW r \in Reports PROVE IInv /\ Report(r) => IInv'
<1> SUFFICES ASSUME IInv, Report(r) PROVE IInv'
  OBVIOUS
<1>1. TypeOK'
  <2>1. /\ reports \in Nat /\ reports < MaxReports /\ reports' = reports + 1
        /\ infoAt \in 0 .. reports /\ tempAt \in 0 .. reports /\ since \in 0 .. infoAt
        /\ MaxReports \in Nat
    BY BoundsAssumption DEF IInv, TypeOK, Report
  <2>2. info' \in PrinterInfo \cup {None} /\ infoAt' \in {infoAt, reports + 1}
    <3>1. CASE r.kind = "info" /\ Parses(r.body)
      <4>1. r.body \in RawInfo
        BY <3>1, ReportsAssumption DEF RawReport
      <4>2. r.body.temp \in Temperature
        BY <3>1, <4>1 DEF RawInfo, Parses
      <4>3. InfoFromDict(r.body) \in PrinterInfo
        BY <4>1, <4>2 DEF RawInfo, InfoFromDict, PrinterInfo
      <4>4. info' = InfoFromDict(r.body) /\ infoAt' = reports + 1
        BY <3>1 DEF Report
      <4> QED BY <4>3, <4>4
    <3>2. CASE ~(r.kind = "info" /\ Parses(r.body))
      BY <3>2 DEF IInv, TypeOK, Report
    <3> QED BY <3>1, <3>2
  <2>3. temp' \in Temperature \cup {None} /\ tempAt' \in {tempAt, reports + 1}
    <3>1. CASE r.kind = "temp" /\ r.body # None
      <4>1. r.body \in Temperature
        BY <3>1, ReportsAssumption DEF RawReport
      <4>2. temp' = r.body /\ tempAt' = reports + 1
        BY <3>1 DEF Report
      <4> QED BY <4>1, <4>2
    <3>2. CASE ~(r.kind = "temp" /\ r.body # None)
      BY <3>2 DEF IInv, TypeOK, Report
    <3> QED BY <3>1, <3>2
  <2>4. UNCHANGED <<link, queue, out, streams, begun, pc, req, reply, since, told>>
    BY DEF Report, wire, handling
  <2>5. /\ reports' \in 0 .. MaxReports /\ infoAt' \in 0 .. reports'
        /\ tempAt' \in 0 .. reports' /\ since' \in 0 .. infoAt'
    BY <2>1, <2>2, <2>3, <2>4
  <2> QED BY <2>2, <2>3, <2>4, <2>5 DEF IInv, TypeOK
<1>2. Forward'
  <2>1. UNCHANGED <<out, pc, req, reply, since>>
    BY DEF Report, wire, handling
  <2>2. infoAt \in Nat /\ infoAt' \in Nat /\ infoAt <= infoAt'
    <3>1. /\ reports \in Nat /\ infoAt \in 0 .. reports /\ reports' = reports + 1
      BY DEF IInv, TypeOK, Report
    <3>2. infoAt' = infoAt \/ infoAt' = reports + 1
      BY DEF Report
    <3> QED BY <3>1, <3>2
  <2>3. reply.at \in Nat /\ \A i \in DOMAIN out : out[i].reply.at \in Nat
    BY RepliesAreDated DEF IInv
  <2> QED BY <2>1, <2>2, <2>3 DEF IInv, Forward
<1> QED BY <1>1, <1>2 DEF IInv

LEMMA CloudOpensInv == ASSUME NEW path \in Paths PROVE IInv /\ CloudOpens(path) => IInv'
<1> SUFFICES ASSUME IInv, CloudOpens(path) PROVE IInv'
  OBVIOUS
<1>1. TypeOK'
  BY AppendFacts, BoundsAssumption DEF IInv, TypeOK, CloudOpens, snapshots, handling,
     Message, Response
<1>2. Forward'
  BY DEF IInv, Forward, CloudOpens, snapshots, handling
<1> QED BY <1>1, <1>2 DEF IInv

LEMMA CloudContinuesInv ==
  ASSUME NEW s \in 1..MaxRequests, NEW close \in BOOLEAN
  PROVE IInv /\ CloudContinues(s, close) => IInv'
<1> SUFFICES ASSUME IInv, CloudContinues(s, close) PROVE IInv'
  OBVIOUS
<1>1. TypeOK'
  BY AppendFacts, BoundsAssumption DEF IInv, TypeOK, CloudContinues, snapshots,
     handling, Message, Response
<1>2. Forward'
  BY DEF IInv, Forward, CloudContinues, snapshots, handling
<1> QED BY <1>1, <1>2 DEF IInv

LEMMA LinkDropsInv == IInv /\ LinkDrops => IInv'
<1> SUFFICES ASSUME IInv, LinkDrops PROVE IInv'
  OBVIOUS
<1>1. TypeOK'
  BY DEF IInv, TypeOK, LinkDrops, snapshots, handling
<1>2. Forward'
  BY DEF IInv, Forward, LinkDrops, snapshots, handling
<1> QED BY <1>1, <1>2 DEF IInv

LEMMA ReconnectsInv == IInv /\ Reconnects => IInv'
<1> SUFFICES ASSUME IInv, Reconnects PROVE IInv'
  OBVIOUS
<1>1. TypeOK'
  BY DEF IInv, TypeOK, Reconnects, snapshots, handling
<1>2. Forward'
  BY DEF IInv, Forward, Reconnects, snapshots, handling
<1> QED BY <1>1, <1>2 DEF IInv

LEMMA TakeInv == IInv /\ Take => IInv'
<1> SUFFICES ASSUME IInv, Take PROVE IInv'
  OBVIOUS
<1>1. TypeOK'
  <2>1. queue \in Seq(Message) /\ queue # <<>> /\ queue' = Tail(queue)
    BY DEF IInv, TypeOK, Take
  <2>2. Head(queue) \in Message /\ queue' \in Seq(Message)
    BY <2>1, TailFacts
  <2>3. UNCHANGED <<info, temp, infoAt, tempAt, reports, link, out, streams, begun, reply, told>>
    BY DEF Take, snapshots
  <2>4. /\ req'.stream \in 0..MaxRequests /\ req'.path \in Paths \cup {<<>>}
        /\ since' \in 0..infoAt /\ pc' \in {"idle", "handle", "send"}
    <3>1. CASE Ignored(Head(queue))
      BY <3>1 DEF IInv, TypeOK, Take
    <3>2. CASE ~Ignored(Head(queue))
      <4>1. req' = Head(queue) /\ since' = infoAt /\ pc' = "handle"
        BY <3>2 DEF Take
      <4>2. infoAt \in 0..infoAt
        BY DEF IInv, TypeOK
      <4>3. Head(queue).stream \in 0..MaxRequests /\ Head(queue).path \in Paths \cup {<<>>}
        BY <2>2, BoundsAssumption DEF Message
      <4> QED BY <4>1, <4>2, <4>3
    <3> QED BY <3>1, <3>2
  <2> QED BY <2>2, <2>3, <2>4 DEF IInv, TypeOK
<1>2. Forward'
  BY DEF IInv, Forward, Take, snapshots
<1> QED BY <1>1, <1>2 DEF IInv

LEMMA HandleInv == IInv /\ Handle => IInv'
<1> SUFFICES ASSUME IInv, Handle PROVE IInv'
  OBVIOUS
<1>1. TypeOK'
  <2>1. reply' \in Response /\ pc' = "send"
    <3>1. Route(req.path) \in {"none"} \cup {Route(p) : p \in Paths \cup {<<>>}}
      BY DEF IInv, TypeOK
    <3>2. reply' = Respond(Route(req.path)) /\ pc' = "send"
      BY DEF Handle
    <3> QED BY <3>1, <3>2, RespondType DEF IInv
  <2> QED BY <2>1 DEF IInv, TypeOK, Handle, wire, snapshots
<1>2. Forward'
  <2>1. /\ reply' = Respond(Route(req.path)) /\ pc' = "send"
        /\ UNCHANGED <<out, infoAt, since, req>>
    BY DEF Handle, wire, snapshots
  <2>2. reply'.handler = Route(req.path)
    BY <2>1 DEF Respond
  <2>3. reply'.handler = "status" => reply'.at = infoAt
    BY <2>1, <2>2 DEF Respond
  <2>4. since <= infoAt /\ infoAt <= infoAt
    BY DEF IInv, TypeOK
  <2> QED BY <2>1, <2>2, <2>3, <2>4 DEF IInv, Forward
<1> QED BY <1>1, <1>2 DEF IInv

LEMMA SendInv == IInv /\ Send => IInv'
<1> SUFFICES ASSUME IInv, Send PROVE IInv'
  OBVIOUS
<1>1. TypeOK'
  <2>1. /\ pc' = "idle"
        /\ UNCHANGED <<info, temp, infoAt, tempAt, reports, link, queue, streams, begun, req,
                       reply, since, told>>
    BY DEF Send, snapshots
  <2>2. out' \in Seq([stream : 0..MaxRequests, reply : Response])
    <3>1. out \in Seq([stream : 0..MaxRequests, reply : Response])
      BY DEF IInv, TypeOK
    <3>2. [stream |-> req.stream, reply |-> reply] \in [stream : 0..MaxRequests, reply : Response]
      BY DEF IInv, TypeOK
    <3>3. out' = out \/ out' = Append(out, [stream |-> req.stream, reply |-> reply])
      BY DEF Send
    <3> DEFINE S == [stream : 0..MaxRequests, reply : Response]
               e == [stream |-> req.stream, reply |-> reply]
    <3> HIDE DEF S, e
    <3>4. Append(out, e) \in Seq(S)
      BY <3>1, <3>2, AppendFacts DEF S, e
    <3> QED BY <3>1, <3>3, <3>4 DEF S, e
  <2> QED BY <2>1, <2>2 DEF IInv, TypeOK
<1>2. Forward'
  <2> DEFINE e == [stream |-> req.stream, reply |-> reply]
  <2>1. /\ pc' = "idle" /\ UNCHANGED <<infoAt, reply, req, since>>
        /\ out' = out \/ out' = Append(out, e)
    BY DEF Send, snapshots
  <2>2. pc = "send"
    BY DEF Send
  <2>3. CASE out' = out
    BY <2>1, <2>3 DEF IInv, Forward
  <2>4. CASE out' = Append(out, e)
    <3>1. out \in Seq([stream : 0..MaxRequests, reply : Response]) /\ infoAt \in Nat
      BY DEF IInv, TypeOK
    <3>2. e \in [stream : 0..MaxRequests, reply : Response] /\ e.reply = reply
      BY DEF IInv, TypeOK
    <3> DEFINE n == Len(out)
    <3> HIDE DEF e
    <3>3. /\ n \in Nat /\ DOMAIN out = 1 .. n /\ DOMAIN out' = 1 .. n + 1
          /\ \A i \in 1 .. n : out'[i] = out[i]
          /\ out'[n + 1] = e
      BY <2>4, <3>1, <3>2, AppendFacts
    <3> HIDE DEF n
    <3>4. \A i \in 1 .. n + 1 : i \in 1 .. n \/ i = n + 1
      BY <3>3
    <3>5. reply.at \in Nat
      BY RepliesAreDated DEF IInv
    <3>6. \A i \in DOMAIN out' :
            out'[i].reply.handler = "status" => out'[i].reply.at <= infoAt
      BY <2>2, <3>2, <3>3, <3>4 DEF IInv, Forward
    <3>7. ASSUME NEW i \in DOMAIN out', NEW j \in DOMAIN out', i <= j,
                 out'[i].reply.handler = "status", out'[j].reply.handler = "status"
          PROVE  out'[i].reply.at <= out'[j].reply.at
      <4>1. CASE j \in 1 .. n
        <5>1. i \in 1 .. n
          BY <3>3, <3>7, <4>1
        <5> QED BY <3>3, <3>7, <4>1, <5>1 DEF IInv, Forward
      <4>2. CASE j = n + 1 /\ i \in 1 .. n
        BY <2>2, <3>2, <3>3, <3>7, <4>2 DEF IInv, Forward
      <4>3. CASE j = n + 1 /\ i = n + 1
        BY <3>2, <3>3, <3>5, <4>3
      <4> QED BY <3>3, <3>4, <3>7, <4>1, <4>2, <4>3
    <3> QED BY <2>1, <3>6, <3>7 DEF Forward
  <2> QED BY <2>1, <2>3, <2>4
<1> QED BY <1>1, <1>2 DEF IInv

LEMMA ExecuteInv ==
  ASSUME NEW cmd \in Publishing \cup Refusing
  PROVE IInv /\ Execute(cmd) => IInv'
<1> SUFFICES ASSUME IInv, Execute(cmd) PROVE IInv'
  OBVIOUS
<1>1. TypeOK'
  BY BoundsAssumption, ReportsAssumption, NoneAssumption, AppendFacts, TailFacts DEF
     IInv, TypeOK, Forward, Execute, snapshots, wire, handling, Tell, Respond, Message,
     Response
<1>2. Forward'
  BY BoundsAssumption, ReportsAssumption, NoneAssumption, AppendFacts, TailFacts DEF
     IInv, TypeOK, Forward, Execute, snapshots, wire, handling, Tell, Respond, Message,
     Response
<1> QED BY <1>1, <1>2 DEF IInv

LEMMA ExecuteFileListInv == IInv /\ ExecuteFileList => IInv'
<1> SUFFICES ASSUME IInv, ExecuteFileList PROVE IInv'
  OBVIOUS
<1>1. TypeOK'
  BY BoundsAssumption, ReportsAssumption, NoneAssumption, AppendFacts, TailFacts DEF
     IInv, TypeOK, Forward, ExecuteFileList, snapshots, wire, handling, Tell, Respond,
     Message, Response
<1>2. Forward'
  BY BoundsAssumption, ReportsAssumption, NoneAssumption, AppendFacts, TailFacts DEF
     IInv, TypeOK, Forward, ExecuteFileList, snapshots, wire, handling, Tell, Respond,
     Message, Response
<1> QED BY <1>1, <1>2 DEF IInv

LEMMA IdleInv == IInv /\ UNCHANGED vars => IInv'
<1> SUFFICES ASSUME IInv, UNCHANGED vars PROVE IInv'
  OBVIOUS
<1>1. TypeOK'
  BY DEF IInv, TypeOK, vars, snapshots, wire, handling
<1>2. Forward'
  BY DEF IInv, Forward, vars, snapshots, wire, handling
<1> QED BY <1>1, <1>2 DEF IInv

LEMMA InitInv == Init => IInv
<1> SUFFICES ASSUME Init PROVE IInv
  OBVIOUS
<1>1. TypeOK
  <2>1. /\ reports = 0 /\ infoAt = 0 /\ tempAt = 0 /\ since = 0 /\ streams = 0
        /\ Len(told) = 0 /\ reports \in 0 .. MaxReports /\ req.stream \in 0 .. MaxRequests
    BY BoundsAssumption DEF Init
  <2>2. /\ queue \in Seq(Message) /\ begun \in Seq(1..MaxRequests)
        /\ out \in Seq([stream : 0..MaxRequests, reply : Response])
        /\ told \in Seq([published : BOOLEAN, ok : BOOLEAN])
    BY DEF Init
  <2>3. reply \in Response
    <3>1. JobStatus(None) \in {JobStatus(i) : i \in PrinterInfo \cup {None}}
      OBVIOUS
    <3>2. Respond("none") = [handler |-> "none", code |-> 404, job |-> JobStatus(None),
                            word |-> "none", at |-> 0]
      BY DEF Respond
    <3>3. 0 \in 0 .. MaxReports
      BY BoundsAssumption
    <3> HIDE DEF JobStatus
    <3> QED BY <3>1, <3>2, <3>3 DEF Init, Response
  <2>4. /\ info = None /\ temp = None /\ link \in BOOLEAN /\ pc = "idle"
        /\ req.path \in Paths \cup {<<>>}
    BY DEF Init
  <2> QED BY <2>1, <2>2, <2>3, <2>4, BoundsAssumption DEF TypeOK
<1>2. Forward
  BY DEF Init, Forward
<1> QED BY <1>1, <1>2 DEF IInv

LEMMA StepInv == IInv /\ [Next]_vars => IInv'
<1> SUFFICES ASSUME IInv, [Next]_vars PROVE IInv'
  OBVIOUS
<1>1. CASE UNCHANGED vars
  BY <1>1, IdleInv
<1>2. CASE Next
  BY <1>2, ReportInv, CloudOpensInv, CloudContinuesInv, LinkDropsInv, ReconnectsInv, TakeInv,
     HandleInv, SendInv, ExecuteInv, ExecuteFileListInv DEF Next, Run
<1> QED BY <1>1, <1>2

LEMMA Invariant == Spec => []IInv
BY InitInv, StepInv, PTL DEF Spec

-----------------------------------------------------------------------------
(* Types, for any reports and requests. *)
THEOREM TypeCorrect == Spec => []TypeOK
<1>1. IInv => TypeOK
  BY DEF IInv
<1> QED BY <1>1, Invariant, PTL

(* However reports and requests interleave, the status a client is shown   *)
(* never goes back, and is as new as what its request met.                  *)
THEOREM StatusNeverBack == Spec => []StatusForward
<1>1. IInv => StatusForward
  BY DEF IInv, Forward, StatusForward
<1> QED BY <1>1, Invariant, PTL

(* An answer that shows the job was made from the report it is dated by,   *)
(* and reports are dated in their order: one that is dated by the present  *)
(* report is the answer the handler would give now.                        *)
OfReport(answer) ==
  answer.handler \in {"status", "job"} =>
    /\ answer.at <= infoAt
    /\ answer.at = infoAt =>
         /\ answer.handler = "status" => answer.job = JobStatus(info)
         /\ answer.handler = "job" =>
              answer.word = IF JobRaises(info) THEN "none" ELSE JobWord(info)

AllOfReport ==
  /\ pc = "send" => OfReport(reply)
  /\ \A i \in DOMAIN out : OfReport(out[i].reply)

LEMMA QuietReport ==
  ASSUME AllOfReport, UNCHANGED <<info, infoAt, pc, reply, out>>
  PROVE  AllOfReport'
BY DEF AllOfReport, OfReport

LEMMA ReportOfReport ==
  ASSUME NEW r \in Reports PROVE IInv /\ AllOfReport /\ Report(r) => AllOfReport'
<1> SUFFICES ASSUME IInv, AllOfReport, Report(r) PROVE AllOfReport'
  OBVIOUS
<1>1. UNCHANGED <<out, pc, reply>>
  BY DEF Report, wire, handling
<1>2. CASE UNCHANGED <<info, infoAt>>
  BY <1>1, <1>2, QuietReport
<1>3. CASE infoAt' = reports + 1
  <2>1. reports \in Nat /\ infoAt \in Nat /\ infoAt < infoAt'
    BY <1>3 DEF IInv, TypeOK
  <2>2. reply.at \in Nat /\ \A i \in DOMAIN out : out[i].reply.at \in Nat
    BY RepliesAreDated DEF IInv
  <2>3. pc' = "send" => OfReport(reply)'
    BY <1>1, <1>3, <2>1, <2>2 DEF AllOfReport, OfReport
  <2>4. ASSUME NEW i \in DOMAIN out PROVE OfReport(out[i].reply)'
    BY <1>1, <1>3, <2>1, <2>2, <2>4 DEF AllOfReport, OfReport
  <2> QED BY <1>1, <2>3, <2>4 DEF AllOfReport
<1> QED BY <1>2, <1>3 DEF Report

LEMMA HandleOfReport == IInv /\ AllOfReport /\ Handle => AllOfReport'
<1> SUFFICES ASSUME IInv, AllOfReport, Handle PROVE AllOfReport'
  OBVIOUS
<1> DEFINE h == Route(req.path)
<1>1. reply' = Respond(h) /\ UNCHANGED <<info, infoAt, out>>
  BY DEF Handle, wire, snapshots
<1> HIDE DEF h
<1>2. reply'.handler = h
  BY <1>1 DEF Respond
<1>3. h \in {"status", "job"} => reply'.at = infoAt
  BY <1>1 DEF Respond
<1>4. h = "status" => reply'.job = JobStatus(info)
  BY <1>1 DEF Respond
<1>5. h = "job" => reply'.word = IF JobRaises(info) THEN "none" ELSE JobWord(info)
  BY <1>1 DEF Respond
<1>6. infoAt <= infoAt
  BY DEF IInv, TypeOK
<1>7. OfReport(reply)'
  BY <1>1, <1>2, <1>3, <1>4, <1>5, <1>6 DEF OfReport
<1>8. \A i \in DOMAIN out' : OfReport(out[i].reply)'
  BY <1>1 DEF AllOfReport, OfReport
<1> QED BY <1>7, <1>8 DEF AllOfReport

LEMMA SendOfReport == IInv /\ AllOfReport /\ Send => AllOfReport'
<1> SUFFICES ASSUME IInv, AllOfReport, Send PROVE AllOfReport'
  OBVIOUS
<1> DEFINE e == [stream |-> req.stream, reply |-> reply]
<1>1. /\ pc = "send" /\ pc' = "idle" /\ UNCHANGED <<info, infoAt, reply>>
      /\ out' = out \/ out' = Append(out, e)
  BY DEF Send, snapshots
<1>2. CASE out' = out
  BY <1>1, <1>2 DEF AllOfReport, OfReport
<1>3. CASE out' = Append(out, e)
  <2> DEFINE S == [stream : 0..MaxRequests, reply : Response]
  <2>1. out \in Seq(S) /\ e \in S /\ e.reply = reply
    BY DEF IInv, TypeOK
  <2> HIDE DEF S, e
  <2>2. /\ Len(out) \in Nat /\ DOMAIN out = 1 .. Len(out) /\ DOMAIN out' = 1 .. Len(out) + 1
        /\ \A i \in 1 .. Len(out) : out'[i] = out[i]
        /\ out'[Len(out) + 1] = e
    BY <1>3, <2>1, AppendFacts
  <2>3. \A i \in DOMAIN out' : i \in DOMAIN out \/ i = Len(out) + 1
    BY <2>2
  <2>4. \A i \in DOMAIN out' : OfReport(out'[i].reply)
    BY <1>1, <2>1, <2>2, <2>3 DEF AllOfReport
  <2>5. \A i \in DOMAIN out' : OfReport(out[i].reply)'
    BY <1>1, <2>4 DEF OfReport
  <2> QED BY <1>1, <2>5 DEF AllOfReport
<1> QED BY <1>1, <1>2, <1>3

LEMMA StepOfReport == IInv /\ AllOfReport /\ [Next]_vars => AllOfReport'
<1> SUFFICES ASSUME IInv, AllOfReport, [Next]_vars PROVE AllOfReport'
  OBVIOUS
<1>1. CASE UNCHANGED vars
  BY <1>1, QuietReport DEF vars, snapshots, wire, handling
<1>2. ASSUME NEW path \in Paths, CloudOpens(path) PROVE AllOfReport'
  BY <1>2, QuietReport DEF CloudOpens, snapshots, handling
<1>3. ASSUME NEW s \in 1..MaxRequests, NEW close \in BOOLEAN, CloudContinues(s, close)
      PROVE  AllOfReport'
  BY <1>3, QuietReport DEF CloudContinues, snapshots, handling
<1>4. CASE LinkDrops
  BY <1>4, QuietReport DEF LinkDrops, snapshots, handling
<1>5. CASE Reconnects
  BY <1>5 DEF Reconnects, snapshots, handling, AllOfReport, OfReport
<1>6. CASE Take
  <2>1. UNCHANGED <<info, infoAt, out, reply>> /\ pc' # "send"
    BY <1>6 DEF Take, snapshots
  <2> QED BY <2>1 DEF AllOfReport, OfReport
<1>7. ASSUME NEW cmd \in Publishing \cup Refusing, Execute(cmd) PROVE AllOfReport'
  BY <1>7, QuietReport DEF Execute, Tell, snapshots, wire, handling
<1>8. CASE ExecuteFileList
  BY <1>8, QuietReport DEF ExecuteFileList, Tell, snapshots, wire, handling
<1>9. CASE Next
  BY <1>2, <1>3, <1>4, <1>5, <1>6, <1>7, <1>8, <1>9, ReportOfReport, HandleOfReport,
     SendOfReport DEF Next, Run
<1> QED BY <1>1, <1>9

(* What the status made from a report says agrees with the reporter, for    *)
(* every report, a job that is resuming or has no end included.             *)
LEMMA StatusOfReport == ASSUME TypeOK PROVE StatusAgrees(JobStatus(info))
<1> DEFINE job == JobStatus(info)
<1>1. job.state = JobState(info)
  BY DEF JobStatus, JobState
<1>2. job.state = "printing" <=> TimersRunning \/ Resuming
  <2>1. TimersRunning \/ Resuming => JobState(info) = "printing"
    BY DEF TimersRunning, Resuming, JobState, MapState, PausedOr, PRINTING, PAUSED, PAUSING,
       RESUMING, STOPPING
  <2>2. ASSUME JobState(info) = "printing" PROVE TimersRunning \/ Resuming
    <3>1. info # None /\ info.project # None /\ info.project.state \in KobraStates
      BY <2>2 DEF JobState, MapState, TypeOK, PrinterInfo, PrintProject
    <3>2. info.project.state = "printing"
      BY <2>2, <3>1 DEF JobState, MapState, KobraStates
    <3>3. PausedOr(info.project.pause) = "printing" /\ info.project.pause \in PauseStates
      BY <2>2, <3>1, <3>2 DEF JobState, MapState, TypeOK, PrinterInfo, PrintProject
    <3>4. info.project.pause \in {PRINTING, RESUMING}
      BY <3>3 DEF PausedOr, PauseStates, PRINTING, PAUSED, PAUSING, RESUMING, STOPPING
    <3> QED BY <3>1, <3>2, <3>4 DEF TimersRunning, Resuming
  <2> QED BY <1>1, <2>1, <2>2
<1>3. ASSUME WarmingUp, info # None, info.project # None, info.temperature = temp
      PROVE  job.sub \in {"Heating Hotend", "Heating Bed"}
  <2>1. /\ temp.curr_nozzle \in Nat /\ temp.target_nozzle \in Nat
        /\ temp.curr_bed \in Nat /\ temp.target_bed \in Nat
    BY <1>3, ReportsAssumption DEF TypeOK, WarmingUp, Temperature
  <2>2. \/ temp.curr_nozzle + 5 < temp.target_nozzle
        \/ temp.curr_bed + 5 < temp.target_bed
    BY <1>3, <2>1 DEF WarmingUp
  <2>3. SubState(info) \in {"Heating Hotend", "Heating Bed"}
    BY <1>3, <2>2 DEF SubState
  <2> QED BY <1>3, <2>3 DEF JobStatus
<1>4. ASSUME job.left # None
      PROVE  \/ job.left = RemainingReported /\ job.left <= OE_INT_MAX
             \/ job.left = OE_INT_MAX /\ RemainingReported > OE_INT_MAX
  <2>1. info # None
    BY <1>4 DEF JobStatus
  <2>2. MapState(info) \in {"printing", "paused", "warmingup"}
    BY <1>4, <2>1 DEF JobStatus
  <2>3. info.project # None
    BY <2>2 DEF MapState
  <2>4. job.left = TimeLeftSec(info.project) /\ info.project.remain_time \in Nat
    BY <2>1, <2>2, <2>3 DEF JobStatus, TypeOK, PrinterInfo, PrintProject
  <2>5. RemainingReported = info.project.remain_time
    BY <2>1, <2>3, <2>4 DEF RemainingReported
  <2> QED BY <2>4, <2>5 DEF TimeLeftSec, OE_INT_MAX
<1> HIDE DEF job
<1>5. StatusAgrees(job)
  BY <1>2, <1>3, <1>4 DEF StatusAgrees
<1> QED BY <1>5 DEF job

(* However reports and requests interleave, what a client was told of the   *)
(* present report agrees with the reporter: the status with the timers, the *)
(* warming up and the time left, and api/job with the timers.               *)
THEOREM ViewsAlwaysAgree == Spec => []ViewsAgree
<1>1. Init => AllOfReport
  BY DEF Init, AllOfReport
<1>2. IInv /\ AllOfReport => ViewsAgree
  <2> SUFFICES ASSUME IInv, AllOfReport, NEW i \in DOMAIN out, out[i].reply.at = infoAt
               PROVE  /\ out[i].reply.handler = "status" => StatusAgrees(out[i].reply.job)
                      /\ out[i].reply.handler = "job" =>
                           (out[i].reply.word = "Printing" <=> TimersRunning)
    BY DEF ViewsAgree
  <2>1. OfReport(out[i].reply)
    BY DEF AllOfReport
  <2>2. out[i].reply.handler = "status" => out[i].reply.job = JobStatus(info)
    BY <2>1 DEF OfReport
  <2>3. out[i].reply.handler = "job" =>
          out[i].reply.word = IF JobRaises(info) THEN "none" ELSE JobWord(info)
    BY <2>1 DEF OfReport
  <2>4. (IF JobRaises(info) THEN "none" ELSE JobWord(info)) = "Printing" <=> TimersRunning
    BY DEF JobRaises, JobWord, TimersRunning
  <2> QED BY <2>2, <2>3, <2>4, StatusOfReport DEF IInv
<1> QED BY <1>1, <1>2, Invariant, StepOfReport, PTL DEF Spec

-----------------------------------------------------------------------------
(* The streams of a connection are numbered in a row, after those of the    *)
(* connections before it.                                                   *)
Before == streams - Len(begun)
Busy   == IF pc = "idle" THEN 0 ELSE 1
Taken  == Before + Len(out) + Busy

(* While the link lasts, the streams up to Taken are answered or being      *)
(* handled, in their order, and each later one has one opening message in   *)
(* the queue, again in their order.  A message that opens no stream carries *)
(* nothing to answer.                                                       *)
InTurn ==
  /\ Len(begun) <= streams
  /\ \A i \in DOMAIN begun : begun[i] = Before + i
  /\ \A i \in DOMAIN queue : IF queue[i].open THEN ~queue[i].close ELSE queue[i].path = <<>>
  /\ link =>
       /\ Taken <= streams
       /\ \A i \in DOMAIN out : out[i].stream = Before + i
       /\ pc # "idle" => req.stream = Taken
       /\ \A i \in DOMAIN queue :
            queue[i].open => Taken < queue[i].stream /\ queue[i].stream <= streams
       /\ \A i, j \in DOMAIN queue :
            i < j /\ queue[i].open /\ queue[j].open => queue[i].stream < queue[j].stream
       /\ \A s \in Taken + 1 .. streams :
            \E i \in DOMAIN queue : queue[i].open /\ queue[i].stream = s

(* The lengths that InTurn counts with. *)
LEMMA Counts ==
  ASSUME TypeOK
  PROVE  /\ streams \in Nat /\ Len(begun) \in Nat /\ Len(out) \in Nat /\ Len(queue) \in Nat
         /\ DOMAIN begun = 1 .. Len(begun) /\ DOMAIN out = 1 .. Len(out)
         /\ DOMAIN queue = 1 .. Len(queue)
         /\ Busy \in {0, 1} /\ Before \in Int /\ Taken \in Int
         /\ \A i \in DOMAIN queue : queue[i].stream \in Nat
<1>1. /\ streams \in Nat /\ begun \in Seq(1..MaxRequests) /\ queue \in Seq(Message)
      /\ out \in Seq([stream : 0..MaxRequests, reply : Response])
  BY DEF TypeOK
<1>2. /\ Len(begun) \in Nat /\ Len(queue) \in Nat
      /\ DOMAIN begun = 1 .. Len(begun) /\ DOMAIN queue = 1 .. Len(queue)
  BY <1>1
<1>3. Len(out) \in Nat /\ DOMAIN out = 1 .. Len(out)
  BY <1>1
<1>4. Busy \in {0, 1} /\ Before \in Int /\ Taken \in Int
  BY <1>1, <1>2, <1>3 DEF Busy, Before, Taken
<1>5. \A i \in DOMAIN queue : queue[i] \in Message
  BY <1>1, ElementFacts
<1>6. \A m \in Message : m.stream \in Nat
  BY BoundsAssumption DEF Message
<1> QED BY <1>1, <1>2, <1>3, <1>4, <1>5, <1>6

(* A step that touches neither messages nor streams keeps the turn. *)
LEMMA QuietTurn ==
  ASSUME InTurn, UNCHANGED <<streams, begun, queue, out, link, req>>, pc = "idle" <=> pc' = "idle"
  PROVE  InTurn'
<1>1. Busy' = Busy /\ Before' = Before
  BY DEF Busy, Before
<1>2. Taken' = Taken
  BY <1>1 DEF Taken
<1> QED BY <1>1, <1>2 DEF InTurn

(* A message appended to the queue. *)
LEMMA QueueAppend ==
  ASSUME TypeOK, NEW m, queue' = Append(queue, m)
  PROVE  /\ DOMAIN queue' = 1 .. Len(queue) + 1
         /\ \A i \in 1 .. Len(queue) : queue'[i] = queue[i]
         /\ queue'[Len(queue) + 1] = m
<1>1. queue \in Seq(Message \cup {m}) /\ m \in Message \cup {m}
  BY DEF TypeOK
<1> QED BY <1>1, AppendFacts

LEMMA CloudOpensTurn ==
  ASSUME NEW path \in Paths PROVE IInv /\ InTurn /\ CloudOpens(path) => InTurn'
<1> SUFFICES ASSUME IInv, InTurn, CloudOpens(path) PROVE InTurn'
  OBVIOUS
<1> DEFINE m == [stream |-> streams + 1, open |-> TRUE, close |-> FALSE, path |-> path]
<1>1. /\ link /\ streams' = streams + 1 /\ queue' = Append(queue, m)
      /\ begun' = Append(begun, streams + 1) /\ UNCHANGED <<link, out, pc, req>>
  BY DEF CloudOpens, handling
<1>2. m.open /\ ~m.close /\ m.stream = streams + 1
  OBVIOUS
<1> HIDE DEF m
<1>3. /\ streams \in Nat /\ Len(begun) \in Nat /\ Len(out) \in Nat /\ Len(queue) \in Nat
      /\ DOMAIN begun = 1 .. Len(begun) /\ DOMAIN queue = 1 .. Len(queue)
      /\ Before \in Int /\ Taken \in Int /\ \A i \in DOMAIN queue : queue[i].stream \in Nat
  BY Counts DEF IInv
<1>4. /\ DOMAIN begun' = 1 .. Len(begun) + 1 /\ Len(begun') = Len(begun) + 1
      /\ \A i \in 1 .. Len(begun) : begun'[i] = begun[i]
      /\ begun'[Len(begun) + 1] = streams + 1
  <2>1. begun \in Seq(Nat) /\ streams + 1 \in Nat
    BY <1>3, BoundsAssumption DEF IInv, TypeOK
  <2> QED BY <1>1, <2>1, AppendFacts
<1>5. /\ DOMAIN queue' = 1 .. Len(queue) + 1
      /\ \A i \in 1 .. Len(queue) : queue'[i] = queue[i]
      /\ queue'[Len(queue) + 1] = m
  BY <1>1, QueueAppend DEF IInv
<1>6. Before' = Before /\ Busy' = Busy
  BY <1>1, <1>3, <1>4 DEF Before, Busy
<1>7. Taken' = Taken /\ Taken <= streams /\ Before = streams - Len(begun)
  BY <1>1, <1>6 DEF Taken, Before, InTurn
<1>8. \A i \in DOMAIN begun' : begun'[i] = Before + i
  BY <1>3, <1>4, <1>7 DEF InTurn
<1>9. \A i \in DOMAIN queue' : IF queue'[i].open THEN ~queue'[i].close ELSE queue'[i].path = <<>>
  BY <1>2, <1>3, <1>5 DEF InTurn
<1>10. \A i \in DOMAIN queue' :
         queue'[i].open => Taken < queue'[i].stream /\ queue'[i].stream <= streams + 1
  BY <1>1, <1>2, <1>3, <1>5, <1>7 DEF InTurn
<1>11. ASSUME NEW i \in DOMAIN queue', NEW j \in DOMAIN queue',
              i < j, queue'[i].open, queue'[j].open
       PROVE  queue'[i].stream < queue'[j].stream
  <2>1. i \in 1 .. Len(queue)
    BY <1>3, <1>5, <1>11
  <2>2. CASE j \in 1 .. Len(queue)
    BY <1>1, <1>3, <1>5, <1>11, <2>1, <2>2 DEF InTurn
  <2>3. CASE j = Len(queue) + 1
    BY <1>1, <1>2, <1>3, <1>5, <1>11, <2>1, <2>3 DEF InTurn
  <2> QED BY <1>3, <1>5, <2>2, <2>3
<1>12. ASSUME NEW s \in Taken + 1 .. streams + 1
       PROVE  \E i \in DOMAIN queue' : queue'[i].open /\ queue'[i].stream = s
  <2>1. CASE s \in Taken + 1 .. streams
    <3>1. PICK i \in DOMAIN queue : queue[i].open /\ queue[i].stream = s
      BY <1>1, <2>1 DEF InTurn
    <3>2. i \in DOMAIN queue' /\ queue'[i] = queue[i]
      BY <1>3, <1>5
    <3> QED BY <3>1, <3>2
  <2>2. CASE s = streams + 1
    <3>1. Len(queue) + 1 \in DOMAIN queue'
      BY <1>3, <1>5
    <3> QED BY <1>2, <1>5, <2>2, <3>1
  <2> QED BY <1>3, <1>12, <2>1, <2>2
<1>13. Len(begun') <= streams' /\ Taken <= streams'
  BY <1>1, <1>3, <1>4, <1>7 DEF InTurn
<1> QED BY <1>1, <1>6, <1>7, <1>8, <1>9, <1>10, <1>11, <1>12, <1>13 DEF InTurn

LEMMA CloudContinuesTurn ==
  ASSUME NEW s \in 1..MaxRequests, NEW close \in BOOLEAN
  PROVE IInv /\ InTurn /\ CloudContinues(s, close) => InTurn'
<1> SUFFICES ASSUME IInv, InTurn, CloudContinues(s, close) PROVE InTurn'
  OBVIOUS
<1> DEFINE m == [stream |-> s, open |-> FALSE, close |-> close, path |-> <<>>]
<1>1. /\ queue' = Append(queue, m) /\ UNCHANGED <<streams, begun, link, out, pc, req>>
  BY DEF CloudContinues, handling
<1>2. ~m.open /\ m.path = <<>>
  OBVIOUS
<1> HIDE DEF m
<1>3. Len(queue) \in Nat /\ DOMAIN queue = 1 .. Len(queue)
  BY Counts DEF IInv
<1>4. /\ DOMAIN queue' = 1 .. Len(queue) + 1
      /\ \A i \in 1 .. Len(queue) : queue'[i] = queue[i]
      /\ queue'[Len(queue) + 1] = m
  BY <1>1, QueueAppend DEF IInv
<1>5. Before' = Before /\ Busy' = Busy
  BY <1>1 DEF Before, Busy
<1>6. Taken' = Taken
  BY <1>1, <1>5 DEF Taken
<1>7. \A i \in DOMAIN queue : i \in DOMAIN queue' /\ queue'[i] = queue[i]
  BY <1>3, <1>4
<1>8. \A i \in DOMAIN queue' : i \in DOMAIN queue \/ (~queue'[i].open /\ queue'[i].path = <<>>)
  BY <1>2, <1>3, <1>4
<1> QED BY <1>1, <1>5, <1>6, <1>7, <1>8 DEF InTurn

LEMMA LinkDropsTurn == InTurn /\ LinkDrops => InTurn'
BY DEF InTurn, LinkDrops, Before, snapshots, handling

LEMMA ReconnectsTurn == IInv /\ InTurn /\ Reconnects => InTurn'
<1> SUFFICES ASSUME IInv, Reconnects PROVE InTurn'
  OBVIOUS
<1>1. /\ pc' = "idle" /\ streams' = streams /\ streams \in Nat
      /\ queue' = <<>> /\ out' = <<>> /\ begun' = <<>>
  BY DEF Reconnects, handling, IInv, TypeOK
<1>2. Before' = streams' /\ Busy' = 0 /\ Taken' = streams'
  BY <1>1 DEF Before, Busy, Taken
<1>3. Len(begun') <= streams'
  BY <1>1
<1> QED BY <1>1, <1>2, <1>3 DEF InTurn

LEMMA TakeTurn == IInv /\ InTurn /\ Take => InTurn'
<1> SUFFICES ASSUME IInv, InTurn, Take PROVE InTurn'
  OBVIOUS
<1> DEFINE m == Head(queue)
<1>1. /\ link /\ pc = "idle" /\ queue # <<>> /\ queue' = Tail(queue)
      /\ UNCHANGED <<streams, begun, link, out>>
      /\ IF Ignored(m) THEN UNCHANGED <<pc, req>> ELSE pc' = "handle" /\ req' = m
  BY DEF Take, snapshots
<1>2. /\ streams \in Nat /\ Len(out) \in Nat /\ Len(queue) \in Nat
      /\ DOMAIN queue = 1 .. Len(queue) /\ Before \in Int
      /\ \A i \in DOMAIN queue : queue[i].stream \in Nat
  BY Counts DEF IInv
<1>3. /\ m = queue[1] /\ 1 \in DOMAIN queue /\ DOMAIN queue' = 1 .. Len(queue) - 1
      /\ \A i \in DOMAIN queue' : i + 1 \in DOMAIN queue /\ queue'[i] = queue[i + 1]
      /\ \A i \in DOMAIN queue : i # 1 => i - 1 \in DOMAIN queue' /\ queue'[i - 1] = queue[i]
  <2>1. queue \in Seq(Message)
    BY DEF IInv, TypeOK
  <2> QED BY <1>1, <2>1
<1> HIDE DEF m
<1>4. Before' = Before /\ Busy = 0 /\ Taken = Before + Len(out)
  BY <1>1, <1>2 DEF Before, Busy, Taken
<1>5. /\ Taken <= streams
      /\ \A i \in DOMAIN queue : IF queue[i].open THEN ~queue[i].close ELSE queue[i].path = <<>>
      /\ \A i \in DOMAIN queue :
           queue[i].open => Taken < queue[i].stream /\ queue[i].stream <= streams
      /\ \A i, j \in DOMAIN queue :
           i < j /\ queue[i].open /\ queue[j].open => queue[i].stream < queue[j].stream
      /\ \A s \in Taken + 1 .. streams :
           \E i \in DOMAIN queue : queue[i].open /\ queue[i].stream = s
  BY <1>1 DEF InTurn
<1>6. \A i, j \in DOMAIN queue' :
        i < j /\ queue'[i].open /\ queue'[j].open => queue'[i].stream < queue'[j].stream
  <2> SUFFICES ASSUME NEW i \in DOMAIN queue', NEW j \in DOMAIN queue',
                      i < j, queue'[i].open, queue'[j].open
               PROVE  queue'[i].stream < queue'[j].stream
    OBVIOUS
  <2>1. /\ i + 1 \in DOMAIN queue /\ queue'[i] = queue[i + 1]
        /\ j + 1 \in DOMAIN queue /\ queue'[j] = queue[j + 1]
    BY <1>3
  <2>2. i + 1 < j + 1
    BY <1>2, <1>3
  <2>3. queue[i + 1].stream < queue[j + 1].stream
    BY <1>5, <2>1, <2>2
  <2> QED BY <2>1, <2>3
<1>7. CASE ~m.open
  <2>1. Ignored(m)
    BY <1>3, <1>5, <1>7 DEF Ignored
  <2>2. Taken' = Taken
    BY <1>1, <1>4, <2>1 DEF Taken, Busy
  <2>3. \A s \in Taken + 1 .. streams : \E i \in DOMAIN queue' : queue'[i].open /\ queue'[i].stream = s
    BY <1>3, <1>5, <1>7
  <2> QED BY <1>1, <1>3, <1>4, <1>6, <2>1, <2>2, <2>3 DEF InTurn
<1>8. CASE m.open
  <2>1. ~Ignored(m)
    BY <1>3, <1>5, <1>8 DEF Ignored
  <2>2. Taken' = Taken + 1
    BY <1>1, <1>2, <1>4, <2>1 DEF Taken, Busy
  <2>3. m.stream = Taken + 1
    <3>1. Taken + 1 \in Taken + 1 .. streams
      BY <1>2, <1>3, <1>4, <1>5, <1>8
    <3>2. PICK i \in DOMAIN queue : queue[i].open /\ queue[i].stream = Taken + 1
      BY <1>5, <3>1
    <3>3. CASE i = 1
      BY <1>3, <3>2, <3>3
    <3>4. CASE i # 1
      <4>1. 1 < i /\ queue[1].open
        BY <1>2, <1>3, <1>8, <3>4
      <4>2. queue[1].stream < Taken + 1 /\ Taken < queue[1].stream
        BY <1>3, <1>5, <3>2, <4>1
      <4>3. queue[1].stream \in Nat
        BY <1>2, <1>3
      <4> QED BY <1>2, <1>4, <4>2, <4>3
    <3> QED BY <3>3, <3>4
  <2>4. Taken + 1 <= streams
    BY <1>3, <1>5, <1>8, <2>3
  <2>5. \A i \in DOMAIN queue' :
          queue'[i].open => Taken + 1 < queue'[i].stream /\ queue'[i].stream <= streams
    <3> SUFFICES ASSUME NEW i \in DOMAIN queue', queue'[i].open
                 PROVE  Taken + 1 < queue'[i].stream /\ queue'[i].stream <= streams
      OBVIOUS
    <3>1. i + 1 \in DOMAIN queue /\ queue'[i] = queue[i + 1] /\ 1 < i + 1 /\ queue[1].open
      BY <1>2, <1>3, <1>8
    <3> QED BY <1>3, <1>5, <2>3, <3>1
  <2>6. ASSUME NEW s \in Taken + 2 .. streams
        PROVE  \E i \in DOMAIN queue' : queue'[i].open /\ queue'[i].stream = s
    <3>1. s \in Taken + 1 .. streams /\ s # Taken + 1
      BY <1>2, <1>4, <2>6
    <3>2. PICK i \in DOMAIN queue : queue[i].open /\ queue[i].stream = s
      BY <1>5, <3>1
    <3>3. i # 1
      BY <1>3, <2>3, <3>1, <3>2
    <3> QED BY <1>3, <3>2, <3>3
  <2>7. Taken' + 1 = Taken + 2
    BY <1>2, <1>4, <2>2
  <2> QED BY <1>1, <1>3, <1>4, <1>6, <2>1, <2>2, <2>3, <2>4, <2>5, <2>6, <2>7 DEF InTurn
<1> QED BY <1>7, <1>8

LEMMA SendTurn == IInv /\ InTurn /\ Send => InTurn'
<1> SUFFICES ASSUME IInv, InTurn, Send PROVE InTurn'
  OBVIOUS
<1> DEFINE e == [stream |-> req.stream, reply |-> reply]
<1>1. /\ pc = "send" /\ pc' = "idle" /\ out' = IF link THEN Append(out, e) ELSE out
      /\ UNCHANGED <<link, queue, streams, begun, req>>
  BY DEF Send
<1>2. Before' = Before
  BY <1>1 DEF Before
<1>3. CASE ~link
  BY <1>1, <1>2, <1>3 DEF InTurn
<1>4. CASE link
  <2>1. Len(out) \in Nat /\ DOMAIN out = 1 .. Len(out) /\ Before \in Int
    BY Counts DEF IInv
  <2>2. e.stream = Taken /\ Taken = Before + Len(out) + 1
    BY <1>1, <1>4 DEF InTurn, Taken, Busy
  <2> HIDE DEF e
  <2>3. /\ Len(out') = Len(out) + 1 /\ DOMAIN out' = 1 .. Len(out) + 1
        /\ \A i \in 1 .. Len(out) : out'[i] = out[i]
        /\ out'[Len(out) + 1] = e
    <3> DEFINE S == [stream : 0..MaxRequests, reply : Response]
    <3>1. out \in Seq(S)
      BY DEF IInv, TypeOK
    <3>2. out \in Seq(S \cup {e}) /\ e \in S \cup {e}
      <4> HIDE DEF S
      <4> QED BY <3>1
    <3> HIDE DEF S
    <3> QED BY <1>1, <1>4, <3>2, AppendFacts
  <2>4. Taken' = Taken
    BY <1>1, <1>2, <2>1, <2>2, <2>3 DEF Taken, Busy
  <2>5. \A i \in DOMAIN out' : out'[i].stream = Before + i
    BY <1>4, <2>1, <2>2, <2>3 DEF InTurn
  <2> QED BY <1>1, <1>2, <1>4, <2>4, <2>5 DEF InTurn
<1> QED BY <1>3, <1>4

LEMMA StepTurn == IInv /\ InTurn /\ [Next]_vars => InTurn'
<1> SUFFICES ASSUME IInv, InTurn, [Next]_vars PROVE InTurn'
  OBVIOUS
<1>1. CASE UNCHANGED vars
  BY <1>1, QuietTurn DEF vars, wire, handling
<1>2. ASSUME NEW r \in Reports, Report(r) PROVE InTurn'
  BY <1>2, QuietTurn DEF Report, wire, handling
<1>3. ASSUME NEW cmd \in Publishing \cup Refusing, Execute(cmd) PROVE InTurn'
  BY <1>3, QuietTurn DEF Execute, Tell, wire, handling
<1>4. CASE ExecuteFileList
  BY <1>4, QuietTurn DEF ExecuteFileList, Tell, wire, handling
<1>5. CASE Handle
  BY <1>5, QuietTurn DEF Handle, wire
<1>6. CASE Next
  BY <1>2, <1>3, <1>4, <1>5, <1>6, CloudOpensTurn, CloudContinuesTurn, LinkDropsTurn,
     ReconnectsTurn, TakeTurn, SendTurn DEF Next, Run
<1> QED BY <1>1, <1>6

(* The cloud gets one response for each stream it opened on a connection, in *)
(* the order of the streams, for any reports, paths and drops of the link.   *)
THEOREM EveryStreamAnswered == Spec => []StreamsAnswered
<1>1. Init => InTurn
  <2> SUFFICES ASSUME Init PROVE InTurn
    OBVIOUS
  <2>1. streams = 0 /\ begun = <<>> /\ queue = <<>> /\ out = <<>> /\ pc = "idle"
    BY DEF Init
  <2>2. Before = 0 /\ Busy = 0
    <3>1. streams = 0 /\ Len(begun) = 0
      BY <2>1
    <3>2. Before = 0
      BY <3>1 DEF Before
    <3> QED BY <2>1, <3>2 DEF Busy
  <2>3. Taken = 0 /\ Len(begun) = 0
    BY <2>1, <2>2 DEF Taken
  <2> QED BY <2>1, <2>2, <2>3 DEF InTurn
<1>2. IInv /\ InTurn => StreamsAnswered
  <2> SUFFICES ASSUME IInv, InTurn, link PROVE StreamsAnswered
    BY DEF StreamsAnswered
  <2> DEFINE answered == [i \in DOMAIN out |-> out[i].stream]
  <2>1. /\ streams \in Nat /\ Len(begun) \in Nat /\ Len(out) \in Nat
        /\ DOMAIN begun = 1 .. Len(begun) /\ DOMAIN out = 1 .. Len(out)
        /\ Busy \in {0, 1}
    BY Counts DEF IInv
  <2>2. Before = streams - Len(begun) /\ Taken = Before + Len(out) + Busy /\ Taken <= streams
    BY DEF InTurn, Before, Taken
  <2>3. Len(out) + Busy <= Len(begun)
    BY <2>1, <2>2
  <2>4. \A i \in 1 .. Len(out) : i \in 1 .. Len(begun) /\ answered[i] = begun[i]
    BY <2>1, <2>3 DEF InTurn
  <2>5. begun \in Seq(1..MaxRequests) /\ answered \in Seq(0..MaxRequests) /\ Len(answered) = Len(out)
    <3> DEFINE S == [stream : 0..MaxRequests, reply : Response]
    <3>1. \A i \in DOMAIN out : out[i] \in S
      BY ElementFacts DEF IInv, TypeOK
    <3>2. \A a \in S : a.stream \in 0..MaxRequests
      OBVIOUS
    <3> HIDE DEF S
    <3>3. \A i \in 1 .. Len(out) : answered[i] \in 0..MaxRequests
      BY <2>1, <3>1, <3>2
    <3> QED BY <2>1, <3>3 DEF IInv, TypeOK
  <2>6. IsPrefix(answered, begun)
    <3> HIDE DEF answered
    <3>1. SubSeq(answered, 1, Len(out)) = SubSeq(begun, 1, Len(out))
      BY <2>1, <2>3, <2>4, <2>5
    <3> QED BY <2>1, <2>3, <2>5, <3>1 DEF IsPrefix
  <2>7. ASSUME pc = "idle", queue = <<>> PROVE answered = begun
    <3>1. Taken = streams
      <4>1. ~ \E s \in Taken + 1 .. streams : TRUE
        BY <2>7 DEF InTurn
      <4> QED BY <2>1, <2>2, <4>1
    <3>2. Len(out) = Len(begun)
      <4>1. Busy = 0
        BY <2>7 DEF Busy
      <4> HIDE DEF answered
      <4>2. Len(out) \in Nat /\ Len(begun) \in Nat /\ streams \in Nat
        BY <2>1
      <4>3. streams = streams - Len(begun) + Len(out) + 0
        BY <2>2, <3>1, <4>1
      <4> QED BY <4>2, <4>3
    <3> QED BY <2>1, <2>4, <2>5, <3>2
  <2> QED BY <2>6, <2>7 DEF StreamsAnswered
<1> QED BY <1>1, <1>2, Invariant, StepTurn, PTL DEF Spec
=============================================================================
