------------------------------- MODULE OeWire -------------------------------
(***************************************************************************)
(* The FlatBuffers encoding of the OctoEverywhere protocol                 *)
(* (oe_protocol.py) and what OeClient does with a message it receives.     *)
(* A buffer is a sequence of cells: every scalar, offset and character is  *)
(* one cell, whatever its width.  A read beyond the end raises, so a       *)
(* reader returns the set of its results: one, or none if it raises.       *)
(* The library's builder, which the cloud uses too, is external.           *)
(***************************************************************************)
EXTENDS Integers, Sequences, FiniteSets

CONSTANTS
  Strings,      \* strings a message may hold, as sequences of cells (numbers)
  Fewer,        \* those of the fields that need no long ones, with the empty one
  Numbers,      \* scalars a message may hold
  Extra,        \* how many fields a newer cloud may add to a message
  WebcamUrl, ContentType, ContentLength, Connection,    \* names of properties and headers
  Json, Close   \* and values

ASSUME CellsAssumption ==
  /\ Strings \in SUBSET Seq(Int) /\ Fewer \in SUBSET Seq(Int)
  /\ Numbers \in SUBSET Int /\ Extra \in SUBSET Nat
  /\ {WebcamUrl, ContentType, ContentLength, Connection, Json, Close} \in SUBSET Seq(Int)

(* MessageContext *)
HandshakeSyn == 1
HandshakeAck == 2
WebStreamMsg == 3

-----------------------------------------------------------------------------
(* The builder works backwards: it puts cells in front of those it has, and *)
(* an object is named by its distance from the end.                         *)
Absent == [is |-> "absent", n |-> 0]
Slot(n, default) == IF n = default THEN Absent ELSE [is |-> "scalar", n |-> n]
Ref(offset)      == IF offset = 0 THEN Absent ELSE [is |-> "ref", n |-> offset]
Bit(b)           == Slot(IF b THEN 1 ELSE 0, 0)

(* what the cell at offset o holds for the slot c: a reference counts from it *)
Entry(c, o) == IF c.is = "ref" THEN o - c.n ELSE c.n

(* CreateString, and a vector of bytes *)
String(buf, s) == <<Len(s)>> \o s \o buf

(* a string that is left out when it is empty *)
Optional(buf, s) == IF s = <<>> THEN buf ELSE String(buf, s)
OptionalRef(buf, s) == Ref(IF s = <<>> THEN 0 ELSE Len(String(buf, s)))

(* a vector of objects *)
Vector(buf, offsets) ==
  LET n == Len(offsets)
  IN  <<n>> \o [i \in 1..n |-> Len(buf) + n + 1 - i - offsets[i]] \o buf

(* A table is written by StartObject, one Prepend...Slot per slot, EndObject. *)
(* Its vtable says how long it is, how long the table is, and how far from    *)
(* the table's start the field of each slot is; the fields of later slots are *)
(* nearer, and absent slots at the end are left out.                          *)
Used(slots) == {s \in DOMAIN slots : slots[s] # Absent}
Distance(slots, s) == 1 + Cardinality({u \in Used(slots) : u > s})
Vtable(slots) ==
  LET used == Used(slots)
      n    == IF used = {} THEN 0 ELSE CHOOSE s \in used : \A u \in used : u <= s
  IN  <<n + 2, Cardinality(used) + 1>>
        \o [s \in 1..n |-> IF s \in used THEN Distance(slots, s) ELSE 0]

(* the fields themselves, in front of what the buffer has *)
Fields(buf, slots) ==
  LET m        == Cardinality(Used(slots))
      Field(d) == CHOOSE s \in Used(slots) : Distance(slots, s) = d
  IN  [d \in 1..m |-> Entry(slots[Field(d)], Len(buf) + m + 1 - d)] \o buf

(* The table begins with the signed distance to its vtable, which is in front *)
(* of it, or behind it if the builder has written an equal one before, there. *)
Table(buf, slots, there) ==
  LET fields == Fields(buf, slots)
      T      == Len(fields) + 1
  IN  [ref |-> T,
       buf |-> IF there # 0 THEN <<there - T>> \o fields
               ELSE Vtable(slots) \o <<Len(Vtable(slots))>> \o fields]

(* the OctoStreamMessage around a message, and the prefix with the size *)
Finish(context, inner) ==
  LET root == Table(inner.buf, <<Slot(context, 0), Ref(inner.ref)>>, 0)
      buf  == <<Len(root.buf) + 1 - root.ref>> \o root.buf
  IN  <<Len(buf)>> \o buf

-----------------------------------------------------------------------------
(* the readers, on positions from the start of the buffer *)
Cell(buf, p) == IF p \in 0 .. Len(buf) - 1 THEN {buf[p + 1]} ELSE {}

(* Python's slice buf[p:p+n]: what there is of it *)
Slice(buf, p, n) == SubSeq(buf, p + 1, IF p + n <= Len(buf) THEN p + n ELSE Len(buf))

(* mutant: the vtable's size is not looked at *)
VtableOffsetUnchecked(buf, table, slot) ==
  UNION {UNION {UNION {{IF f = 0 THEN 0 ELSE table + f : f \in Cell(buf, v + 2 + slot)} :
     size \in Cell(buf, v)} : data \in Cell(buf, v + 1)} : v \in {table - d : d \in Cell(buf, table)}}

(* _vtable_offset: the position of a slot's field, 0 without one *)
VtableOffset(buf, table, slot) ==
  UNION {UNION {UNION {
      IF 2 + slot + 1 > size THEN {0}
      ELSE {IF f = 0 THEN 0 ELSE table + f : f \in Cell(buf, v + 2 + slot)} :
     size \in Cell(buf, v)} : data \in Cell(buf, v + 1)} : v \in {table - d : d \in Cell(buf, table)}}

ReadOr(buf, table, slot, default) ==
  UNION {IF p = 0 THEN {default} ELSE Cell(buf, p) : p \in VtableOffset(buf, table, slot)}

ReadNumber(buf, table, slot) == ReadOr(buf, table, slot, 0)
ReadSize(buf, table, slot)   == ReadOr(buf, table, slot, -1)
ReadBool(buf, table, slot)   == {n # 0 : n \in ReadNumber(buf, table, slot)}

(* where the object begins that the field at p refers to *)
Target(buf, p) == {p + d : d \in Cell(buf, p)}

(* _read_table_offset and _read_vector_offset: 0 without the field *)
ReadOffset(buf, table, slot) ==
  UNION {IF p = 0 THEN {0} ELSE Target(buf, p) : p \in VtableOffset(buf, table, slot)}

StringAt(buf, p) == {Slice(buf, p + 1, n) : n \in Cell(buf, p)}

(* a string, or a vector of bytes *)
ReadString(buf, table, slot) ==
  UNION {IF p = 0 THEN {<<>>} ELSE StringAt(buf, p) : p \in ReadOffset(buf, table, slot)}

(* the elements of the vector at p, read one after the other *)
Elements(buf, p, Read(_, _)) ==
  LET Element(i) == UNION {Read(buf, q) : q \in Target(buf, p + i)}
  IN  UNION {IF \E i \in 1..n : Element(i) = {} THEN {}
             ELSE {[i \in 1..n |-> CHOOSE e \in Element(i) : TRUE]} : n \in Cell(buf, p)}

ReadStrings(buf, table, slot) ==
  UNION {IF p = 0 THEN {<<>>} ELSE Elements(buf, p, StringAt) : p \in ReadOffset(buf, table, slot)}

HeaderAt(buf, t) ==
  {<<k, v>> : k \in ReadString(buf, t, 0), v \in ReadString(buf, t, 1)}

ReadHeaders(buf, table, slot) ==
  UNION {IF p = 0 THEN {<<>>} ELSE Elements(buf, p, HeaderAt) : p \in ReadOffset(buf, table, slot)}

(* _find_root: None when the table would begin beyond the end *)
None == -1
FindRoot(buf) == {IF r + 1 > Len(buf) THEN None ELSE r : r \in Cell(buf, 0)}

(* _find_inner_table *)
FindInner(buf, root, context) ==
  UNION {IF c # context THEN {None} ELSE ReadOffset(buf, root, 1) : c \in ReadNumber(buf, root, 0)}

(* strip_size_prefix *)
StripPrefix(data) == IF data = <<>> THEN data ELSE Slice(data, 1, data[1])

-----------------------------------------------------------------------------
(* the messages, without the fields that neither side looks at *)
Ack == [accepted : BOOLEAN, accounts : {<<>>} \cup {<<s, t>> : s, t \in Fewer},
        error : Fewer, backoff : Numbers, update : BOOLEAN, octokey : Strings,
        rsa : Strings, rekey : BOOLEAN]

(* headers are a dict in the code: their names differ *)
Pairs == {<<s, t>> : s, t \in Fewer}
Lists == {<<>>} \cup {<<p>> : p \in Pairs} \cup {h \in Pairs \X Pairs : h[1][1] # h[2][1]}

Request == {m \in [stream : Numbers, open : BOOLEAN, close : BOOLEAN, done : BOOLEAN,
                   size : Numbers \cup {-1}, data : Fewer, status : {0}, path : Strings,
                   method : Fewer, auth : BOOLEAN, headers : Lists] :
              m.close => ~m.open}

Set == Fewer \ {<<>>}
Syn == [printer : Set, key : Set, challenge : Set, version : Set, ip : Strings,
        octokey : Strings, host : Numbers, webcam : Strings]

(* a table of two strings *)
Header(buf, h, there) ==
  LET k == String(buf, h[1])
      v == String(k, h[2])
  IN  Table(v, <<Ref(Len(k)), Ref(Len(v))>>, there)

(* a vector of such tables, which share the vtable of the first: headers, or *)
(* properties; no message has more than three of them                        *)
Headers(buf, hs) ==
  LET h1 == IF Len(hs) < 1 THEN [ref |-> 0, buf |-> buf] ELSE Header(buf, hs[1], 0)
      h2 == IF Len(hs) < 2 THEN h1 ELSE Header(h1.buf, hs[2], Len(h1.buf))
      h3 == IF Len(hs) < 3 THEN h2 ELSE Header(h2.buf, hs[3], Len(h1.buf))
  IN  Vector(h3.buf, [i \in 1..Len(hs) |-> <<h1.ref, h2.ref, h3.ref>>[i]])

(* the cloud's messages, with e fields that this client does not know *)
Newer(e) == [i \in 1..e |-> Slot(7, 0)]

BuildAck(m, e) ==
  LET first  == IF m.accounts = <<>> THEN <<>> ELSE String(<<>>, m.accounts[1])
      second == IF m.accounts = <<>> THEN <<>> ELSE String(first, m.accounts[2])
      list   == IF m.accounts = <<>> THEN <<>> ELSE Vector(second, <<Len(first), Len(second)>>)
      error  == Optional(list, m.error)
      key    == Optional(error, m.octokey)
      rsa    == Optional(key, m.rsa)
  IN  Finish(HandshakeAck, Table(rsa,
        <<Bit(m.accepted), Ref(Len(list)), OptionalRef(list, m.error), Slot(m.backoff, 0),
          Bit(m.update), OptionalRef(error, m.octokey), OptionalRef(key, m.rsa),
          Bit(m.rekey)>> \o Newer(e), 0))

BuildRequest(m, e) ==
  LET data   == String(<<>>, m.data)
      path   == String(data, m.path)
      method == String(path, m.method)
      hs     == Headers(method, m.headers)
      http   == Table(hs, <<Ref(Len(path)), Absent, Ref(Len(method)), Absent, Ref(Len(hs)),
                            Bit(m.auth), Absent>>, 0)
  IN  Finish(WebStreamMsg, Table(http.buf,
        <<Slot(m.stream, 0), Bit(m.open), Bit(m.close), Bit(m.done), Absent,
          Slot(m.size, -1), Ref(Len(data)), Absent, Absent, Ref(http.ref)>>
        \o [i \in 1..8 |-> Absent] \o Newer(e), 0))

(* build_handshake_syn *)
BuildSyn(m) ==
  LET printer   == String(<<>>, m.printer)
      key       == String(printer, m.key)
      challenge == String(key, m.challenge)
      version   == String(challenge, m.version)
      ip        == Optional(version, m.ip)
      octokey   == Optional(ip, m.octokey)
      webcam    == Headers(octokey, << <<WebcamUrl, m.webcam>> >>)
      last      == IF m.webcam = <<>> THEN octokey ELSE webcam
  IN  Finish(HandshakeSyn, Table(last,
        <<Ref(Len(printer)), Bit(TRUE), Ref(Len(version)), OptionalRef(version, m.ip), Absent,
          OptionalRef(ip, m.octokey), Ref(Len(challenge)), Slot(1, 0), Absent, Absent,
          Absent, Ref(Len(key)), Slot(1, 0), Slot(m.host, 0), Absent, Absent, Slot(2, 0), Absent,
          Absent, Ref(IF m.webcam = <<>> THEN 0 ELSE Len(webcam))>>, 0))

(* the response to stream st; a number in a header is one cell *)
Response(st, status, body) ==
  [stream |-> st, open |-> FALSE, close |-> TRUE, done |-> TRUE, size |-> Len(body),
   data |-> body, status |-> status, path |-> <<>>, method |-> <<>>, auth |-> FALSE,
   headers |-> << <<ContentType, Json>>, <<ContentLength, <<Len(body)>>>>,
                  <<Connection, Close>> >>]

(* build_webstream_response *)
BuildResponse(m) ==
  LET body == Optional(<<>>, m.data)
      hs   == Headers(body, m.headers)
      http == Table(hs, <<Absent, Absent, Absent, Absent, Ref(Len(hs)), Absent, Absent>>, 0)
  IN  Finish(WebStreamMsg, Table(http.buf,
        <<Slot(m.stream, 0), Absent, Bit(m.close), Bit(m.done), Absent, Slot(m.size, -1),
          Ref(Len(body)), Absent, Absent, Ref(http.ref), Absent, Slot(m.status, 0)>>, 0))

(* parse_handshake_ack, of the table at t *)
ParseAck(buf, t) ==
  {[accepted |-> a, accounts |-> ac, error |-> er, backoff |-> b, update |-> u,
    octokey |-> k, rsa |-> rs, rekey |-> rk] :
     a \in ReadBool(buf, t, 0), ac \in ReadStrings(buf, t, 1), er \in ReadString(buf, t, 2),
     b \in ReadNumber(buf, t, 3), u \in ReadBool(buf, t, 4), k \in ReadString(buf, t, 5),
     rs \in ReadString(buf, t, 6), rk \in ReadBool(buf, t, 7)}

(* parse_webstream_msg *)
ParseStream(buf, t) ==
  UNION {{[stream |-> st, open |-> o, close |-> c, done |-> d, size |-> sz, data |-> da,
           status |-> code, path |-> p, method |-> m, auth |-> au, headers |-> hs] :
     st \in ReadNumber(buf, t, 0), o \in ReadBool(buf, t, 1), c \in ReadBool(buf, t, 2),
     d \in ReadBool(buf, t, 3), sz \in ReadSize(buf, t, 5), da \in ReadString(buf, t, 6),
     code \in ReadNumber(buf, t, 11),
     p \in IF h = 0 THEN {<<>>} ELSE ReadString(buf, h, 0),
     m \in IF h = 0 THEN {<<>>} ELSE ReadString(buf, h, 2),
     au \in IF h = 0 THEN {FALSE} ELSE ReadBool(buf, h, 5),
     hs \in IF h = 0 THEN {<<>>} ELSE ReadHeaders(buf, h, 4)} :
   h \in ReadOffset(buf, t, 9)}

(* how the cloud reads the greeting *)
ParseSyn(buf, t) ==
  {[printer |-> p, key |-> k, challenge |-> c, version |-> v, ip |-> i, octokey |-> o,
    host |-> h, webcam |-> IF w = <<>> THEN <<>> ELSE w[1][2]] :
     p \in ReadString(buf, t, 0), k \in ReadString(buf, t, 11), c \in ReadString(buf, t, 6),
     v \in ReadString(buf, t, 2), i \in ReadString(buf, t, 3), o \in ReadString(buf, t, 5),
     h \in ReadNumber(buf, t, 13), w \in ReadHeaders(buf, t, 19)}

(* what is in a message of the context, nothing if it is of another one *)
In(buf, context, Parse(_, _), as) ==
  UNION {IF r = None THEN {} ELSE
    UNION {IF t = None THEN {} ELSE {[as |-> as, msg |-> m] : m \in Parse(buf, t)} :
      t \in FindInner(buf, r, context)} : r \in FindRoot(buf)}

(* _handle_message: what a raw message is taken for; nothing if it raises *)
Handle(raw) ==
  LET buf == StripPrefix(raw)
  IN  IF Len(buf) < 2 THEN {}
      ELSE In(buf, HandshakeAck, ParseAck, "ack") \cup In(buf, WebStreamMsg, ParseStream, "stream")

-----------------------------------------------------------------------------
VARIABLES
  wire,     \* the message in transit, <<>> without one
  sent,     \* what was to be said with the last message
  got       \* how it was taken: a set of at most one reading

wireVars == <<wire, sent, got>>

Silence == [as |-> "nothing", msg |-> 0]
Silent == sent.as = "nothing"

WireInit == wire = <<>> /\ sent = Silence /\ got = {}

Says(as, m, buf) ==
  /\ wire = <<>> /\ wire' = buf
  /\ sent' = [as |-> as, msg |-> m] /\ got' = {}

(* _send_handshake_syn, once the socket is open *)
SendSyn == Silent /\ \E m \in Syn : Says("syn", m, BuildSyn(m))

(* the cloud's turn; an OctoNotification or an OctoSummon has a body of its own *)
CloudAcks == Silent /\ \E m \in Ack, e \in Extra : Says("ack", m, BuildAck(m, e))
CloudAsks == Silent /\ \E m \in Request, e \in Extra : Says("stream", m, BuildRequest(m, e))
CloudTells ==
  /\ Silent
  /\ \E c \in {4, 5}, m \in Ack : Says("other", m, Finish(c, Table(<<>>, <<Bit(m.accepted)>>, 0)))

(* _on_message *)
Receive ==
  /\ wire # <<>> /\ sent.as \in {"ack", "stream", "other"}
  /\ got' = Handle(wire) /\ wire' = <<>> /\ UNCHANGED sent

(* _handle_webstream_msg answers the stream it has just read *)
Answers(m) == ~m.close /\ (m.open \/ m.path # <<>>)
Respond ==
  /\ wire = <<>>
  /\ \E g \in got : /\ g.as = "stream" /\ Answers(g.msg)
                    /\ \E body \in Strings, status \in {200, 404} :
                         LET r == Response(g.msg.stream, status, body)
                         IN  Says("answer", r, BuildResponse(r))

CloudReads ==
  /\ wire # <<>> /\ sent.as \in {"syn", "answer"}
  /\ got' = IF sent.as = "syn" THEN In(StripPrefix(wire), HandshakeSyn, ParseSyn, "syn")
                               ELSE In(StripPrefix(wire), WebStreamMsg, ParseStream, "answer")
  /\ wire' = <<>> /\ UNCHANGED sent

WireNext == SendSyn \/ CloudAcks \/ CloudAsks \/ CloudTells \/ Receive \/ Respond \/ CloudReads

WireSpec == WireInit /\ [][WireNext]_wireVars
-----------------------------------------------------------------------------
(* Both sides read every message as it was meant, also one with fields they   *)
(* do not know and one whose defaults were left out.  The cloud finds in the  *)
(* greeting of build_handshake_syn who is calling, whichever of the optional  *)
(* strings are set, and in a response of build_webstream_response the stream, *)
(* the status and the body with its size, also if that is 0.  The client      *)
(* understands acks and requests, and ignores a message of another context.   *)
ReadAsSent ==
  wire = <<>> =>
    /\ sent.as \in {"syn", "ack", "stream", "answer"} => got = {sent}
    /\ sent.as = "other" => got = {}
=============================================================================
