-------------------------- MODULE BridgeRpc_proofs --------------------------
(***************************************************************************)
(* Safety of BridgeRpc for any clients and numbers of requests and of      *)
(* connections: types, the table of subscriptions, that no command is      *)
(* published twice, or answered without having been published, and that    *)
(* replies and notices come in the order of the requests.                  *)
(***************************************************************************)
EXTENDS BridgeRpc, TLAPS

(* A client has a connection id exactly while its handler runs, and the ids *)
(* of two clients differ: the table has an entry for each of them.          *)
Live ==
  /\ \A c \in Clients : conn[c] = 0 <=> pc[c] = "off"
  /\ \A c \in Clients : pc[c] # "off" => conn[c] \in DOMAIN subs
  /\ \A i \in DOMAIN subs : \E c \in Clients : pc[c] # "off" /\ conn[c] = i
  /\ \A c, d \in Clients : conn[c] = conn[d] /\ conn[c] # 0 => c = d

(* A request that waits is one request, and no command was published for it. *)
Fresh ==
  /\ IsInjective(told)
  /\ \A c \in Clients : \A i \in DOMAIN inbox[c] :
       inbox[c][i].n <= count /\ inbox[c][i].n \notin Range(told)
  /\ \A c, d \in Clients : \A i \in DOMAIN inbox[c], j \in DOMAIN inbox[d] :
       inbox[c][i].n = inbox[d][j].n => c = d /\ i = j

(* A request is the one its client sent, and is answered only when it does  *)
(* not wait any more; by then its command was published, or could not be.   *)
Replying == {"reply", "reply_id", "error", "connected", "ready"}

Handled ==
  /\ \A c \in Clients : \A j \in DOMAIN asked[c] : asked[c][j].n <= count
  /\ \A c \in Clients : \A i \in DOMAIN inbox[c], j \in DOMAIN asked[c] :
       inbox[c][i].n = asked[c][j].n => inbox[c][i].kind = asked[c][j].kind
  /\ \A c \in Clients : \A k \in DOMAIN got[c] :
       /\ got[c][k].to <= count
       /\ \A i \in DOMAIN inbox[c] : got[c][k].to # inbox[c][i].n
  /\ \A c \in Clients : pc[c] \in Replying =>
       /\ cur[c].to <= count
       /\ \A i \in DOMAIN inbox[c] : cur[c].to # inbox[c][i].n
  /\ kobra => \A c \in Clients : \A j \in DOMAIN asked[c] :
       asked[c][j].kind \in Commands =>
         \/ asked[c][j].n \in Range(told) \cup failed
         \/ \E i \in DOMAIN inbox[c] : inbox[c][i].n = asked[c][j].n

IInv == TypeOK /\ Live /\ Fresh /\ Handled

-----------------------------------------------------------------------------
(* What taking the head of a sequence, or appending to it, leaves. *)
LEMMA TailFacts ==
  ASSUME NEW S, NEW s \in Seq(S), s # <<>>
  PROVE  /\ Head(s) \in S /\ Head(s) = s[1] /\ Tail(s) \in Seq(S)
         /\ 1 \in DOMAIN s /\ DOMAIN s \subseteq Nat
         /\ \A i \in DOMAIN Tail(s) : i + 1 \in DOMAIN s /\ Tail(s)[i] = s[i + 1]
OBVIOUS

LEMMA AppendFacts ==
  ASSUME NEW S, NEW s \in Seq(S), NEW e \in S
  PROVE  /\ Append(s, e) \in Seq(S) /\ Len(s) \in Nat
         /\ DOMAIN s = 1 .. Len(s) /\ DOMAIN Append(s, e) = 1 .. Len(s) + 1
         /\ \A i \in 1 .. Len(s) : Append(s, e)[i] = s[i]
         /\ Append(s, e)[Len(s) + 1] = e
OBVIOUS

LEMMA ElementFacts ==
  ASSUME NEW S, NEW s \in Seq(S), NEW i \in DOMAIN s
  PROVE  s[i] \in S /\ i \in Nat
OBVIOUS

(* The elements of a longer and of a shorter sequence. *)
LEMMA AppendElement ==
  ASSUME NEW S, NEW s \in Seq(S), NEW e \in S
  PROVE  /\ \A i \in DOMAIN Append(s, e) :
              (i \in DOMAIN s /\ Append(s, e)[i] = s[i]) \/ Append(s, e)[i] = e
         /\ \A i \in DOMAIN s : i \in DOMAIN Append(s, e) /\ Append(s, e)[i] = s[i]
         /\ \E i \in DOMAIN Append(s, e) : Append(s, e)[i] = e
<1> DEFINE n == Len(s)
           t == Append(s, e)
<1>1. /\ n \in Nat /\ DOMAIN s = 1 .. n /\ DOMAIN t = 1 .. n + 1
      /\ \A i \in 1 .. n : t[i] = s[i]
      /\ t[n + 1] = e
  BY AppendFacts
<1> HIDE DEF n, t
<1>2. /\ \A i \in 1 .. n + 1 : i \in 1 .. n \/ i = n + 1
      /\ \A i \in 1 .. n : i \in 1 .. n + 1
      /\ n + 1 \in 1 .. n + 1
  BY <1>1
<1>3. /\ \A i \in DOMAIN t : (i \in DOMAIN s /\ t[i] = s[i]) \/ t[i] = e
      /\ \A i \in DOMAIN s : i \in DOMAIN t /\ t[i] = s[i]
      /\ \E i \in DOMAIN t : t[i] = e
  BY <1>1, <1>2
<1> QED BY <1>3 DEF t

LEMMA TailElement ==
  ASSUME NEW S, NEW s \in Seq(S), s # <<>>
  PROVE  /\ \A i \in DOMAIN s : i # 1 => \E j \in DOMAIN Tail(s) : Tail(s)[j] = s[i]
         /\ \A i \in DOMAIN Tail(s) : \E j \in DOMAIN s : j # 1 /\ Tail(s)[i] = s[j]
<1>1. ASSUME NEW i \in DOMAIN s, i # 1
      PROVE  \E j \in DOMAIN Tail(s) : Tail(s)[j] = s[i]
  <2>1. i - 1 \in DOMAIN Tail(s) /\ Tail(s)[i - 1] = s[i]
    BY <1>1
  <2> QED BY <2>1
<1>2. ASSUME NEW i \in DOMAIN Tail(s)
      PROVE  \E j \in DOMAIN s : j # 1 /\ Tail(s)[i] = s[j]
  <2>1. i + 1 \in DOMAIN s /\ Tail(s)[i] = s[i + 1] /\ i + 1 # 1
    BY <1>2
  <2> QED BY <2>1
<1> QED BY <1>1, <1>2

(* A sequence without repetitions takes one more element that is not in it. *)
LEMMA InjectiveAppend ==
  ASSUME NEW S, NEW s \in Seq(S), NEW e \in S, IsInjective(s), e \notin Range(s)
  PROVE  IsInjective(Append(s, e)) /\ Range(Append(s, e)) = Range(s) \cup {e}
<1> DEFINE n == Len(s)
           t == Append(s, e)
<1>1. /\ n \in Nat /\ DOMAIN s = 1 .. n /\ DOMAIN t = 1 .. n + 1
      /\ \A i \in 1 .. n : t[i] = s[i]
      /\ t[n + 1] = e
  BY AppendFacts
<1> HIDE DEF n, t
<1>2. \A i \in 1 .. n + 1 : i \in 1 .. n \/ i = n + 1
  BY <1>1
<1>3. \A i \in 1 .. n : s[i] # e /\ i # n + 1 /\ i \in 1 .. n + 1
  BY <1>1 DEF Range
<1>4. n + 1 \in 1 .. n + 1
  BY <1>1
<1>5. IsInjective(t)
  BY <1>1, <1>2, <1>3 DEF IsInjective
<1>6. Range(t) = Range(s) \cup {e}
  BY <1>1, <1>2, <1>3, <1>4 DEF Range
<1> QED BY <1>5, <1>6 DEF t

LEMMA AppendRange ==
  ASSUME NEW S, NEW s \in Seq(S), NEW e
  PROVE  Range(s) \subseteq Range(Append(s, e)) /\ e \in Range(Append(s, e))
<1> DEFINE T == S \cup {e}
<1>1. s \in Seq(T) /\ e \in T
  OBVIOUS
<1> HIDE DEF T
<1> DEFINE n == Len(s)
           t == Append(s, e)
<1>2. /\ n \in Nat /\ DOMAIN s = 1 .. n /\ DOMAIN t = 1 .. n + 1
      /\ \A i \in 1 .. n : t[i] = s[i]
      /\ t[n + 1] = e
  BY <1>1, AppendFacts
<1> HIDE DEF n, t
<1>3. \A i \in 1 .. n : i \in 1 .. n + 1
  BY <1>2
<1>4. n + 1 \in 1 .. n + 1
  BY <1>2
<1>5. Range(s) \subseteq Range(t)
  BY <1>2, <1>3 DEF Range
<1>6. e \in Range(t)
  BY <1>2, <1>4 DEF Range
<1> QED BY <1>5, <1>6 DEF t

LEMMA WiderSeq ==
  ASSUME NEW S, NEW T, S \subseteq T, NEW s \in Seq(S)
  PROVE  s \in Seq(T)
OBVIOUS

-----------------------------------------------------------------------------
(* A handler that moves to another place. *)
LEMMA SetPc ==
  ASSUME TypeOK, NEW c \in Clients, NEW to \in Places, pc' = [pc EXCEPT ![c] = to]
  PROVE  /\ pc' \in [Clients -> Places] /\ pc'[c] = to
         /\ \A d \in Clients : d # c => pc'[d] = pc[d]
BY DEF TypeOK

(* A handler that stays keeps its connection. *)
LEMMA MoveLive ==
  ASSUME TypeOK, Live, NEW c \in Clients, NEW to \in Places, pc[c] # "off", to # "off",
         pc' = [pc EXCEPT ![c] = to], conn' = conn, DOMAIN subs' = DOMAIN subs
  PROVE  Live'
<1>1. \A d \in Clients : pc'[d] = "off" <=> pc[d] = "off"
  BY SetPc
<1> QED BY <1>1 DEF Live

(* What a client receives. *)
LEMMA ReceiveType ==
  ASSUME TypeOK, NEW c \in Clients, NEW as \in Replies \cup Notices, Receive(c, as)
  PROVE  got' \in [Clients -> Seq(Message)]
<1>1. got \in [Clients -> Seq(Message)] /\ [to |-> cur[c].to, as |-> as] \in Message
  BY DEF TypeOK, Message
<1>2. Append(got[c], [to |-> cur[c].to, as |-> as]) \in Seq(Message)
  BY <1>1, AppendFacts
<1> QED BY <1>1, <1>2 DEF Receive

LEMMA NumbersAreNat ==
  ASSUME TypeOK
  PROVE  /\ \A d \in Clients : \A j \in DOMAIN asked[d] : asked[d][j].n \in Nat
         /\ \A d \in Clients : \A k \in DOMAIN got[d] : got[d][k].to \in Nat
         /\ \A d \in Clients : cur[d].to \in Nat
<1>1. (\A x \in Request : x.n \in Nat) /\ (\A x \in Message : x.to \in Nat)
  BY BoundsAssumption DEF Request, Message
<1>2. /\ asked \in [Clients -> Seq(Request)] /\ got \in [Clients -> Seq(Message)]
      /\ cur \in [Clients -> Message]
  BY DEF TypeOK
<1>3. /\ \A d \in Clients : \A j \in DOMAIN asked[d] : asked[d][j] \in Request
      /\ \A d \in Clients : \A k \in DOMAIN got[d] : got[d][k] \in Message
  BY <1>2, ElementFacts
<1> QED BY <1>1, <1>2, <1>3

(* A client that receives what its handler sends, and nothing else happens. *)
LEMMA ReceiveHandled ==
  ASSUME TypeOK, Handled, NEW c \in Clients, NEW as \in Replies \cup Notices, Receive(c, as),
         UNCHANGED <<inbox, asked, told, failed, kobra, cur, count>>, pc[c] \in Replying,
         \A d \in Clients : pc'[d] \in Replying => pc[d] \in Replying
  PROVE  Handled'
<1> DEFINE m == [to |-> cur[c].to, as |-> as]
<1>1. got \in [Clients -> Seq(Message)] /\ m \in Message
  BY DEF TypeOK, Message
<1>2. got' = got \/ got' = [got EXCEPT ![c] = Append(got[c], m)]
  BY DEF Receive
<1>3. m.to = cur[c].to
  OBVIOUS
<1> HIDE DEF m
<1>4. ASSUME NEW d \in Clients, NEW k \in DOMAIN got'[d]
      PROVE  \/ k \in DOMAIN got[d] /\ got'[d][k] = got[d][k]
             \/ got'[d][k] = m /\ d = c
  <2>1. CASE got'[d] = got[d]
    BY <1>4, <2>1
  <2>2. CASE d = c /\ got'[d] = Append(got[d], m)
    <3>1. got[d] \in Seq(Message)
      BY <1>1
    <3> QED BY <1>1, <1>4, <2>2, <3>1, AppendElement
  <2> QED BY <1>1, <1>2, <2>1, <2>2
<1>5. \A d \in Clients : \A k \in DOMAIN got'[d] :
        /\ got'[d][k].to <= count
        /\ \A i \in DOMAIN inbox[d] : got'[d][k].to # inbox[d][i].n
  BY <1>3, <1>4 DEF Handled
<1> QED BY <1>5 DEF Handled

(* What an RPC changes: at most the command of its request is published, or *)
(* fails, and the subscriptions of its connection are replaced.              *)
LEMMA EffectsFacts ==
  ASSUME IInv, NEW n, NEW kind, NEW i, Effects(n, kind, i)
  PROVE  /\ told' = told \/ told' = Append(told, n)
         /\ failed' = failed \/ failed' = failed \cup {n}
         /\ DOMAIN subs' = DOMAIN subs
         /\ \A j \in DOMAIN subs : subs'[j] \subseteq Objects
<1>1. \A j \in DOMAIN subs : subs[j] \subseteq Objects
  BY DEF IInv, TypeOK
<1>2. /\ told' = told \/ told' = Append(told, n)
      /\ failed' = failed \/ failed' = failed \cup {n}
  BY DEF Effects, Publish
<1>3. subs' = subs \/ \E o \in SUBSET Objects : subs' = [subs EXCEPT ![i] = o]
  BY DEF Effects
<1>4. CASE subs' = subs
  BY <1>1, <1>2, <1>4
<1>5. ASSUME NEW o \in SUBSET Objects, subs' = [subs EXCEPT ![i] = o]
      PROVE  /\ DOMAIN subs' = DOMAIN subs
             /\ \A j \in DOMAIN subs : subs'[j] \subseteq Objects
  BY <1>1, <1>5
<1> QED BY <1>2, <1>3, <1>4, <1>5

(* What was published or failed stays so, and a command adds its request. *)
LEMMA EffectsGrow ==
  ASSUME IInv, NEW n, NEW kind, NEW i, Effects(n, kind, i)
  PROVE  /\ Range(told) \subseteq Range(told') /\ failed \subseteq failed'
         /\ kobra /\ kind \in Commands => n \in Range(told') \cup failed'
<1>1. told \in Seq(1..count)
  BY DEF IInv, TypeOK
<1>2. Range(told) \subseteq Range(Append(told, n)) /\ n \in Range(Append(told, n))
  BY <1>1, AppendRange
<1>3. /\ told' = told \/ told' = Append(told, n)
      /\ failed' = failed \/ failed' = failed \cup {n}
  BY EffectsFacts
<1>4. kobra /\ kind \in Commands => told' = Append(told, n) \/ failed' = failed \cup {n}
  BY DEF Effects, Publish
<1> QED BY <1>2, <1>3, <1>4

(* The commands that are published stay different ones, of requests so far. *)
LEMMA PublishFacts ==
  ASSUME IInv, NEW n, NEW kind, NEW i, Effects(n, kind, i),
         n \in 1..count', count' \in Nat, count <= count', n \notin Range(told)
  PROVE  /\ told' \in Seq(1..count') /\ failed' \subseteq 1..count' /\ IsInjective(told')
         /\ Range(told') \subseteq Range(told) \cup {n}
<1>1. 1..count \subseteq 1..count' /\ told \in Seq(1..count) /\ failed \subseteq 1..count
  BY DEF IInv, TypeOK
<1>2. told \in Seq(1..count')
  BY <1>1, WiderSeq
<1>3. IsInjective(told)
  BY DEF IInv, Fresh
<1>4. Append(told, n) \in Seq(1..count')
  BY <1>2, AppendFacts
<1>5. IsInjective(Append(told, n)) /\ Range(Append(told, n)) = Range(told) \cup {n}
  BY <1>2, <1>3, InjectiveAppend
<1>6. /\ told' = told \/ told' = Append(told, n)
      /\ failed' = failed \/ failed' = failed \cup {n}
  BY EffectsFacts
<1>7. failed' \subseteq 1..count'
  BY <1>1, <1>6
<1>8. CASE told' = told
  BY <1>2, <1>3, <1>7, <1>8
<1>9. CASE told' = Append(told, n)
  BY <1>4, <1>5, <1>7, <1>9
<1> QED BY <1>6, <1>8, <1>9

(* Both kinds of requests are new ones when they are handled. *)
LEMMA HeadFresh ==
  ASSUME IInv, NEW c \in Clients, inbox[c] # <<>>
  PROVE  Head(inbox[c]).n \in 1..count /\ Head(inbox[c]).n \notin Range(told) /\ count \in Nat
<1>1. inbox[c] \in Seq(Request) /\ count \in Nat
  BY DEF IInv, TypeOK
<1>2. Head(inbox[c]) \in Request /\ Head(inbox[c]) = inbox[c][1] /\ 1 \in DOMAIN inbox[c]
  BY <1>1, TailFacts
<1>3. inbox[c][1].n <= count /\ inbox[c][1].n \notin Range(told)
  BY <1>2 DEF IInv, Fresh
<1>4. Head(inbox[c]).n \in Nat \ {0}
  BY <1>2, BoundsAssumption DEF Request
<1> QED BY <1>1, <1>2, <1>3, <1>4

LEMMA NextFresh ==
  ASSUME IInv
  PROVE  count + 1 \notin Range(told) /\ count \in Nat
<1>1. told \in Seq(1..count) /\ count \in Nat
  BY DEF IInv, TypeOK
<1>2. \A k \in Range(told) : k \in 1..count
  BY <1>1, ElementFacts DEF Range
<1> QED BY <1>1, <1>2

(* Where the handler of a request goes, and what it will answer. *)
LEMMA AfterFacts ==
  ASSUME NEW r \in Request
  PROVE  /\ After(r) \in Places /\ After(r) # "off"
         /\ r.kind \notin Broken => Answer(r.kind) \in Replies
         /\ r.kind \in Broken => After(r) \notin Replying
BY DEF After, Answer, Places, Request, Broken, Odd, Replies, Replying

LEMMA OpenInv == ASSUME NEW c \in Clients PROVE IInv /\ Open(c) => IInv'
<1> SUFFICES ASSUME IInv, Open(c) PROVE IInv'
  OBVIOUS
<1>1. TypeOK'
  <2>1. /\ nextId \in 1 .. MaxConns /\ nextId' = nextId + 1 /\ MaxConns \in Nat
        /\ conn \in [Clients -> 0 .. nextId - 1] /\ conn' = [conn EXCEPT ![c] = nextId]
    BY BoundsAssumption DEF IInv, TypeOK, Open
  <2>2. nextId' \in 1 .. MaxConns + 1 /\ conn' \in [Clients -> 0 .. nextId' - 1]
    <3>1. 0 .. nextId - 1 \subseteq 0 .. nextId' - 1 /\ nextId \in 0 .. nextId' - 1
      BY <2>1
    <3>2. conn \in [Clients -> 0 .. nextId' - 1]
      BY <2>1, <3>1
    <3> QED BY <2>1, <3>1, <3>2
  <2>3. /\ DOMAIN subs' \subseteq 1 .. nextId' - 1
        /\ \A i \in DOMAIN subs' : subs'[i] \subseteq Objects
    <3>1. /\ DOMAIN subs \subseteq 1 .. nextId - 1
          /\ \A i \in DOMAIN subs : subs[i] \subseteq Objects
          /\ subs' = [i \in DOMAIN subs \cup {nextId} |-> IF i = nextId THEN {} ELSE subs[i]]
      BY DEF IInv, TypeOK, Open
    <3>2. 1 .. nextId - 1 \subseteq 1 .. nextId' - 1 /\ nextId \in 1 .. nextId' - 1
      BY <2>1
    <3> QED BY <3>1, <3>2
  <2>4. pc' \in [Clients -> Places]
    BY SetPc DEF IInv, Open, At, Places
  <2>5. /\ inbox' \in [Clients -> Seq(Request)] /\ asked' \in [Clients -> Seq(Request)]
        /\ got' \in [Clients -> Seq(Message)] /\ gone' \subseteq Clients
    <3>1. <<>> \in Seq(Request) /\ <<>> \in Seq(Message)
      OBVIOUS
    <3> QED BY <3>1 DEF IInv, TypeOK, Open
  <2>6. UNCHANGED <<kobra, told, failed, cur, count>>
    BY DEF Open, outcome
  <2> QED BY <2>2, <2>3, <2>4, <2>5, <2>6 DEF IInv, TypeOK
<1>2. Live'
  <2>1. /\ pc[c] = "off" /\ pc'[c] = "idle" /\ \A d \in Clients : d # c => pc'[d] = pc[d]
    BY SetPc DEF IInv, Open, At, Places
  <2>2. /\ nextId \in Nat \ {0} /\ conn'[c] = nextId
        /\ \A d \in Clients : d # c => conn'[d] = conn[d]
        /\ \A d \in Clients : conn[d] \in 0 .. nextId - 1
    BY DEF IInv, TypeOK, Open
  <2>3. \A d \in Clients : conn[d] # nextId
    BY <2>2
  <2>4. DOMAIN subs' = DOMAIN subs \cup {nextId}
    BY DEF Open
  <2> QED BY <2>1, <2>2, <2>3, <2>4 DEF IInv, Live
<1>3. Fresh'
  <2>1. /\ UNCHANGED <<count, told>>
        /\ \A d \in Clients : inbox'[d] = IF d = c THEN <<>> ELSE inbox[d]
    BY DEF IInv, TypeOK, Open, outcome
  <2>2. \A d \in Clients : \A i \in DOMAIN inbox'[d] :
          i \in DOMAIN inbox[d] /\ inbox'[d][i] = inbox[d][i]
    BY <2>1
  <2> QED BY <2>1, <2>2 DEF IInv, Fresh
<1>4. Handled'
  <2>1. UNCHANGED <<count, told, failed, kobra, cur>>
    BY DEF Open, outcome
  <2>2. /\ \A d \in Clients : inbox'[d] = IF d = c THEN <<>> ELSE inbox[d]
        /\ \A d \in Clients : asked'[d] = IF d = c THEN <<>> ELSE asked[d]
        /\ \A d \in Clients : got'[d] = IF d = c THEN <<>> ELSE got[d]
    BY DEF IInv, TypeOK, Open
  <2>3. pc'[c] = "idle" /\ \A d \in Clients : d # c => pc'[d] = pc[d]
    BY SetPc DEF IInv, Open, At, Places
  <2>4. /\ \A d \in Clients : \A i \in DOMAIN inbox'[d] :
             d # c /\ i \in DOMAIN inbox[d] /\ inbox'[d][i] = inbox[d][i]
        /\ \A d \in Clients : \A i \in DOMAIN asked'[d] :
             d # c /\ i \in DOMAIN asked[d] /\ asked'[d][i] = asked[d][i]
        /\ \A d \in Clients : \A i \in DOMAIN got'[d] :
             d # c /\ i \in DOMAIN got[d] /\ got'[d][i] = got[d][i]
    BY <2>2
  <2>5. \A d \in Clients : d # c => inbox'[d] = inbox[d]
    BY <2>2
  <2>6. \A d \in Clients : pc'[d] \in Replying => d # c /\ pc[d] \in Replying
    BY <2>3 DEF Replying
  <2>7. \A d \in Clients : \A j \in DOMAIN asked'[d] : asked'[d][j].n <= count'
    BY <2>1, <2>4 DEF IInv, Handled
  <2>8. \A d \in Clients : \A i \in DOMAIN inbox'[d], j \in DOMAIN asked'[d] :
          inbox'[d][i].n = asked'[d][j].n => inbox'[d][i].kind = asked'[d][j].kind
    BY <2>4 DEF IInv, Handled
  <2>9. \A d \in Clients : \A k \in DOMAIN got'[d] :
          /\ got'[d][k].to <= count'
          /\ \A i \in DOMAIN inbox'[d] : got'[d][k].to # inbox'[d][i].n
    BY <2>1, <2>4 DEF IInv, Handled
  <2>10. \A d \in Clients : pc'[d] \in Replying =>
           /\ cur'[d].to <= count'
           /\ \A i \in DOMAIN inbox'[d] : cur'[d].to # inbox'[d][i].n
    BY <2>1, <2>4, <2>6 DEF IInv, Handled
  <2>11. kobra' => \A d \in Clients : \A j \in DOMAIN asked'[d] :
           asked'[d][j].kind \in Commands =>
             \/ asked'[d][j].n \in Range(told') \cup failed'
             \/ \E i \in DOMAIN inbox'[d] : inbox'[d][i].n = asked'[d][j].n
    BY <2>1, <2>4, <2>5 DEF IInv, Handled
  <2> QED BY <2>7, <2>8, <2>9, <2>10, <2>11 DEF Handled
<1> QED BY <1>1, <1>2, <1>3, <1>4 DEF IInv

LEMMA ClientSendsInv ==
  ASSUME NEW c \in Clients, NEW kind \in Methods \cup Odd \cup Broken, NEW id \in BOOLEAN
  PROVE IInv /\ ClientSends(c, kind, id) => IInv'
<1> SUFFICES ASSUME IInv, ClientSends(c, kind, id) PROVE IInv'
  OBVIOUS
<1>1. TypeOK'
  <2> DEFINE r == [n |-> count + 1, id |-> id, kind |-> kind]
  <2>1. count \in Nat /\ count < MaxRequests /\ count' = count + 1 /\ MaxRequests \in Nat
    BY BoundsAssumption DEF IInv, TypeOK, ClientSends
  <2>2. r \in Request /\ count' \in 0..MaxRequests
    BY <2>1 DEF Request, ClientSends
  <2>3. /\ inbox' = [inbox EXCEPT ![c] = Append(inbox[c], r)]
        /\ asked' = [asked EXCEPT ![c] = Append(asked[c], r)]
    BY DEF ClientSends
  <2>4. inbox \in [Clients -> Seq(Request)] /\ asked \in [Clients -> Seq(Request)]
    BY DEF IInv, TypeOK
  <2> HIDE DEF r
  <2>5. Append(inbox[c], r) \in Seq(Request) /\ Append(asked[c], r) \in Seq(Request)
    BY <2>2, <2>4, AppendFacts
  <2>6. inbox' \in [Clients -> Seq(Request)] /\ asked' \in [Clients -> Seq(Request)]
    BY <2>3, <2>4, <2>5
  <2>7. told' \in Seq(1..count') /\ failed' \subseteq 1..count'
    <3>1. told \in Seq(1..count) /\ failed \subseteq 1..count /\ told' = told /\ failed' = failed
      BY DEF IInv, TypeOK, ClientSends, outcome
    <3>2. 1..count \subseteq 1..count'
      BY <2>1
    <3> QED BY <3>1, <3>2, WiderSeq
  <2>8. UNCHANGED <<gone, conn, subs, nextId, kobra, pc, cur, got>>
    BY DEF ClientSends, handler, outcome
  <2> QED BY <2>2, <2>6, <2>7, <2>8 DEF IInv, TypeOK
<1>2. Live'
  BY DEF IInv, Live, ClientSends, handler, outcome
<1>3. Fresh'
  <2> DEFINE r == [n |-> count + 1, id |-> id, kind |-> kind]
  <2>1. count \in Nat /\ count' = count + 1 /\ told' = told
    BY DEF IInv, TypeOK, ClientSends, outcome
  <2>2. r.n = count + 1
    OBVIOUS
  <2>3. inbox' = [inbox EXCEPT ![c] = Append(inbox[c], r)] /\ inbox \in [Clients -> Seq(Request)]
    BY DEF ClientSends, IInv, TypeOK
  <2>4. r \in Request
    BY BoundsAssumption, <2>1 DEF ClientSends, IInv, TypeOK, Request
  <2>5. \A k \in Range(told) : k \in 1..count
    <3>1. told \in Seq(1..count)
      BY DEF IInv, TypeOK
    <3> QED BY <3>1, ElementFacts DEF Range
  <2> DEFINE n == Len(inbox[c])
  <2> HIDE DEF r
  <2>6. inbox'[c] = Append(inbox[c], r) /\ \A d \in Clients : d # c => inbox'[d] = inbox[d]
    BY <2>3
  <2>7. /\ n \in Nat /\ DOMAIN inbox[c] = 1 .. n /\ DOMAIN inbox'[c] = 1 .. n + 1
        /\ \A i \in 1 .. n : inbox'[c][i] = inbox[c][i]
        /\ inbox'[c][n + 1] = r
    BY <2>3, <2>4, <2>6, AppendFacts
  <2> HIDE DEF n
  <2>8. \A i \in 1 .. n + 1 : i \in 1 .. n \/ i = n + 1
    BY <2>7
  <2>9. \A d \in Clients : \A i \in DOMAIN inbox'[d] :
          \/ i \in DOMAIN inbox[d] /\ inbox'[d][i] = inbox[d][i]
          \/ d = c /\ i = n + 1 /\ inbox'[d][i] = r
    BY <2>6, <2>7, <2>8
  <2>10. \A d \in Clients : \A i \in DOMAIN inbox[d] :
           inbox[d][i].n \in Nat /\ inbox[d][i].n <= count /\ inbox[d][i].n \notin Range(told)
    <3> SUFFICES ASSUME NEW d \in Clients, NEW i \in DOMAIN inbox[d]
                 PROVE  /\ inbox[d][i].n \in Nat /\ inbox[d][i].n <= count
                        /\ inbox[d][i].n \notin Range(told)
      OBVIOUS
    <3>1. inbox[d] \in Seq(Request)
      BY <2>3
    <3>2. inbox[d][i] \in Request
      BY <3>1, ElementFacts
    <3>3. inbox[d][i].n \in Nat
      BY <3>2, BoundsAssumption DEF Request
    <3> QED BY <3>3 DEF IInv, Fresh
  <2>11. count + 1 \notin Range(told) /\ \A k \in Nat : k <= count => k # count + 1
    BY <2>1, <2>5
  <2>12. IsInjective(told')
    BY <2>1 DEF IInv, Fresh
  <2>13. \A d \in Clients : \A i \in DOMAIN inbox'[d] :
           inbox'[d][i].n <= count' /\ inbox'[d][i].n \notin Range(told')
    BY <2>1, <2>2, <2>9, <2>10, <2>11
  <2>14. \A d, e \in Clients : \A i \in DOMAIN inbox'[d], j \in DOMAIN inbox'[e] :
           inbox'[d][i].n = inbox'[e][j].n => d = e /\ i = j
    BY <2>2, <2>9, <2>10, <2>11 DEF IInv, Fresh
  <2> QED BY <2>12, <2>13, <2>14 DEF Fresh
<1>4. Handled'
  <2> DEFINE r == [n |-> count + 1, id |-> id, kind |-> kind]
  <2>1. /\ count \in Nat /\ count' = count + 1
        /\ UNCHANGED <<told, failed, kobra, pc, cur, got>>
    BY DEF IInv, TypeOK, ClientSends, outcome
  <2>2. r.n = count + 1 /\ r.kind = kind
    OBVIOUS
  <2>3. /\ inbox' = [inbox EXCEPT ![c] = Append(inbox[c], r)]
        /\ asked' = [asked EXCEPT ![c] = Append(asked[c], r)]
        /\ inbox \in [Clients -> Seq(Request)] /\ asked \in [Clients -> Seq(Request)]
        /\ got \in [Clients -> Seq(Message)] /\ cur \in [Clients -> Message]
    BY DEF ClientSends, IInv, TypeOK
  <2>4. r \in Request
    BY BoundsAssumption, <2>1 DEF ClientSends, IInv, TypeOK, Request
  <2> HIDE DEF r
  <2>5. /\ inbox'[c] = Append(inbox[c], r) /\ asked'[c] = Append(asked[c], r)
        /\ \A d \in Clients : d # c => inbox'[d] = inbox[d]
        /\ \A d \in Clients : d # c => asked'[d] = asked[d]
    BY <2>3
  <2>6. ASSUME NEW d \in Clients, NEW i \in DOMAIN inbox'[d]
        PROVE  (i \in DOMAIN inbox[d] /\ inbox'[d][i] = inbox[d][i]) \/ inbox'[d][i] = r
    <3>1. inbox[d] \in Seq(Request)
      BY <2>3
    <3>2. CASE d = c
      <4>1. inbox'[d] = Append(inbox[d], r)
        BY <2>5, <3>2
      <4> QED BY <2>4, <2>6, <3>1, <4>1, AppendElement
    <3>3. CASE d # c
      BY <2>5, <2>6, <3>3
    <3> QED BY <3>2, <3>3
  <2>7. ASSUME NEW d \in Clients, NEW j \in DOMAIN asked'[d]
        PROVE  \/ j \in DOMAIN asked[d] /\ asked'[d][j] = asked[d][j]
               \/ asked'[d][j] = r /\ d = c
    <3>1. asked[d] \in Seq(Request)
      BY <2>3
    <3>2. CASE d = c
      <4>1. asked'[d] = Append(asked[d], r)
        BY <2>5, <3>2
      <4> QED BY <2>4, <2>7, <3>1, <3>2, <4>1, AppendElement
    <3>3. CASE d # c
      <4>1. asked'[d] = asked[d]
        BY <2>5, <3>3
      <4> QED BY <2>7, <4>1
    <3> QED BY <3>2, <3>3
  <2>8. /\ \A d \in Clients : \A i \in DOMAIN inbox[d] :
             i \in DOMAIN inbox'[d] /\ inbox'[d][i] = inbox[d][i]
        /\ \E i \in DOMAIN inbox'[c] : inbox'[c][i] = r
    <3>1. inbox[c] \in Seq(Request) /\ inbox'[c] = Append(inbox[c], r)
      BY <2>3, <2>5
    <3>2. /\ \A i \in DOMAIN inbox[c] : i \in DOMAIN inbox'[c] /\ inbox'[c][i] = inbox[c][i]
          /\ \E i \in DOMAIN inbox'[c] : inbox'[c][i] = r
      BY <2>4, <3>1, AppendElement
    <3> QED BY <2>5, <3>2
  <2>9. /\ \A d \in Clients : \A i \in DOMAIN inbox[d] :
             inbox[d][i].n \in Nat /\ inbox[d][i].n <= count
        /\ \A d \in Clients : \A j \in DOMAIN asked[d] : asked[d][j].n \in Nat
        /\ \A d \in Clients : \A k \in DOMAIN got[d] : got[d][k].to \in Nat
        /\ \A d \in Clients : cur[d].to \in Nat
    <3>1. /\ \A x \in Request : x.n \in Nat
          /\ \A x \in Message : x.to \in Nat
      BY BoundsAssumption DEF Request, Message
    <3>2. /\ \A d \in Clients : \A i \in DOMAIN inbox[d] : inbox[d][i] \in Request
          /\ \A d \in Clients : \A j \in DOMAIN asked[d] : asked[d][j] \in Request
          /\ \A d \in Clients : \A k \in DOMAIN got[d] : got[d][k] \in Message
      BY <2>3, ElementFacts
    <3> QED BY <2>3, <3>1, <3>2 DEF IInv, Fresh
  <2>10. \A k \in Nat : k <= count => k <= count' /\ k # count + 1
    BY <2>1
  <2>11. \A d \in Clients : \A j \in DOMAIN asked'[d] : asked'[d][j].n <= count'
    <3>1. count + 1 <= count'
      BY <2>1
    <3> QED BY <2>2, <2>7, <2>9, <2>10, <3>1 DEF IInv, Handled
  <2>12. \A d \in Clients : \A i \in DOMAIN inbox'[d], j \in DOMAIN asked'[d] :
           inbox'[d][i].n = asked'[d][j].n => inbox'[d][i].kind = asked'[d][j].kind
    BY <2>2, <2>6, <2>7, <2>9, <2>10 DEF IInv, Handled
  <2>13. /\ \A d \in Clients : \A k \in DOMAIN got'[d] :
              /\ got'[d][k].to <= count'
              /\ \A i \in DOMAIN inbox'[d] : got'[d][k].to # inbox'[d][i].n
         /\ \A d \in Clients : pc'[d] \in Replying =>
              /\ cur'[d].to <= count'
              /\ \A i \in DOMAIN inbox'[d] : cur'[d].to # inbox'[d][i].n
    BY <2>1, <2>2, <2>6, <2>9, <2>10 DEF IInv, Handled
  <2>14. kobra' => \A d \in Clients : \A j \in DOMAIN asked'[d] :
           asked'[d][j].kind \in Commands =>
             \/ asked'[d][j].n \in Range(told') \cup failed'
             \/ \E i \in DOMAIN inbox'[d] : inbox'[d][i].n = asked'[d][j].n
    <3> SUFFICES ASSUME kobra, NEW d \in Clients, NEW j \in DOMAIN asked'[d],
                        asked'[d][j].kind \in Commands,
                        asked'[d][j].n \notin Range(told) \cup failed
                 PROVE  \E i \in DOMAIN inbox'[d] : inbox'[d][i].n = asked'[d][j].n
      BY <2>1
    <3>1. CASE asked'[d][j] = r /\ d = c
      BY <2>8, <3>1
    <3>2. CASE j \in DOMAIN asked[d] /\ asked'[d][j] = asked[d][j]
      <4>1. \E i \in DOMAIN inbox[d] : inbox[d][i].n = asked[d][j].n
        BY <3>2 DEF IInv, Handled
      <4> QED BY <2>8, <3>2, <4>1
    <3> QED BY <2>7, <3>1, <3>2
  <2> QED BY <2>11, <2>12, <2>13, <2>14 DEF Handled
<1> QED BY <1>1, <1>2, <1>3, <1>4 DEF IInv

LEMMA ClientGoneInv == ASSUME NEW c \in Clients PROVE IInv /\ ClientGone(c) => IInv'
<1> SUFFICES ASSUME IInv, ClientGone(c) PROVE IInv'
  OBVIOUS
<1>1. TypeOK'
  BY DEF IInv, TypeOK, ClientGone, handler, outcome
<1>2. Live'
  BY DEF IInv, Live, ClientGone, handler, outcome
<1>3. Fresh'
  BY DEF IInv, Fresh, ClientGone, handler, outcome
<1>4. Handled'
  BY DEF IInv, Handled, ClientGone, handler, outcome
<1> QED BY <1>1, <1>2, <1>3, <1>4 DEF IInv

LEMMA StopBridgeInv == IInv /\ StopBridge => IInv'
<1> SUFFICES ASSUME IInv, StopBridge PROVE IInv'
  OBVIOUS
<1>1. TypeOK'
  BY DEF IInv, TypeOK, StopBridge, handler
<1>2. Live'
  BY DEF IInv, Live, StopBridge, handler
<1>3. Fresh'
  BY DEF IInv, Fresh, StopBridge, handler
<1>4. Handled'
  BY DEF IInv, Handled, StopBridge, handler
<1> QED BY <1>1, <1>2, <1>3, <1>4 DEF IInv

LEMMA TakeInv == ASSUME NEW c \in Clients PROVE IInv /\ Take(c) => IInv'
<1> SUFFICES ASSUME IInv, Take(c) PROVE IInv'
  OBVIOUS
<1>1. TypeOK'
  <2> DEFINE r == Head(inbox[c])
  <2>1. /\ inbox \in [Clients -> Seq(Request)] /\ inbox[c] # <<>>
        /\ inbox' = [inbox EXCEPT ![c] = Tail(inbox[c])]
    BY DEF IInv, TypeOK, Take
  <2>2. r \in Request /\ Tail(inbox[c]) \in Seq(Request)
    BY <2>1, TailFacts
  <2>3. Effects(r.n, r.kind, conn[c]) /\ pc' = [pc EXCEPT ![c] = After(r)]
    BY DEF Take
  <2>4. cur' \in [Clients -> Message]
    <3>1. cur' = cur \/ (/\ r.kind \notin Broken
                         /\ cur' = [cur EXCEPT ![c] = [to |-> r.n, as |-> Answer(r.kind)]])
      BY DEF Take
    <3>2. r.n \in 1..MaxRequests
      BY <2>2 DEF Request
    <3>3. r.kind \notin Broken => [to |-> r.n, as |-> Answer(r.kind)] \in Message
      BY <2>2, <3>2, AfterFacts DEF Message
    <3> QED BY <3>1, <3>3 DEF IInv, TypeOK
  <2>5. inbox' \in [Clients -> Seq(Request)]
    BY <2>1, <2>2
  <2>6. pc' \in [Clients -> Places]
    BY <2>2, <2>3, AfterFacts, SetPc DEF IInv
  <2>7. UNCHANGED <<gone, asked, conn, nextId, kobra, count, got>>
    BY DEF Take
  <2>8. DOMAIN subs' = DOMAIN subs /\ \A j \in DOMAIN subs : subs'[j] \subseteq Objects
    BY <2>3, EffectsFacts
  <2>9. told' \in Seq(1..count') /\ failed' \subseteq 1..count'
    BY <2>3, <2>7, HeadFresh, PublishFacts DEF Take
  <2> QED BY <2>4, <2>5, <2>6, <2>7, <2>8, <2>9 DEF IInv, TypeOK
<1>2. Live'
  <2> DEFINE r == Head(inbox[c])
  <2>1. r \in Request
    BY TailFacts DEF IInv, TypeOK, Take
  <2>2. Effects(r.n, r.kind, conn[c]) /\ pc' = [pc EXCEPT ![c] = After(r)] /\ conn' = conn
    BY DEF Take
  <2>3. DOMAIN subs' = DOMAIN subs
    BY <2>2, EffectsFacts
  <2>4. After(r) \in Places /\ After(r) # "off" /\ pc[c] # "off"
    BY <2>1, AfterFacts DEF Take
  <2> QED BY <2>2, <2>3, <2>4, MoveLive DEF IInv
<1>3. Fresh'
  <2> DEFINE r == Head(inbox[c])
  <2>1. /\ inbox[c] \in Seq(Request) /\ inbox[c] # <<>> /\ count' = count
        /\ inbox'[c] = Tail(inbox[c]) /\ \A d \in Clients : d # c => inbox'[d] = inbox[d]
    BY DEF IInv, TypeOK, Take
  <2>2. /\ r = inbox[c][1] /\ 1 \in DOMAIN inbox[c] /\ DOMAIN inbox[c] \subseteq Nat
        /\ \A i \in DOMAIN inbox'[c] :
             i + 1 \in DOMAIN inbox[c] /\ inbox'[c][i] = inbox[c][i + 1]
        /\ DOMAIN inbox'[c] \subseteq Nat \ {0}
    <3>1. DOMAIN Tail(inbox[c]) \subseteq Nat \ {0}
      BY <2>1
    <3> QED BY <2>1, <3>1, TailFacts
  <2>3. IsInjective(told') /\ Range(told') \subseteq Range(told) \cup {r.n}
    <3>1. Effects(r.n, r.kind, conn[c])
      BY DEF Take
    <3> QED BY <2>1, <3>1, HeadFresh, PublishFacts DEF Take
  <2>4. \A i \in DOMAIN inbox'[c] : i + 1 # 1
    BY <2>2
  <2>5. \A i, j \in DOMAIN inbox'[c] : i + 1 = j + 1 => i = j
    BY <2>2
  <2>6. ASSUME NEW i \in DOMAIN inbox'[c]
        PROVE  /\ inbox'[c][i].n <= count /\ inbox'[c][i].n \notin Range(told)
               /\ inbox'[c][i].n # r.n
               /\ \A d \in Clients : \A j \in DOMAIN inbox[d] :
                    d # c => inbox'[c][i].n # inbox[d][j].n
    <3>1. i + 1 \in DOMAIN inbox[c] /\ inbox'[c][i] = inbox[c][i + 1] /\ i + 1 # 1
      BY <2>2, <2>4, <2>6
    <3> DEFINE k == i + 1
    <3> HIDE DEF k
    <3>2. k \in DOMAIN inbox[c] /\ inbox'[c][i] = inbox[c][k] /\ k # 1
      BY <3>1 DEF k
    <3> QED BY <2>2, <3>2 DEF IInv, Fresh
  <2>7. ASSUME NEW d \in Clients, NEW i \in DOMAIN inbox'[d]
        PROVE  inbox'[d][i].n <= count' /\ inbox'[d][i].n \notin Range(told')
    <3>1. CASE d # c
      BY <2>1, <2>2, <2>3, <2>7, <3>1 DEF IInv, Fresh
    <3>2. CASE d = c
      BY <2>1, <2>3, <2>6, <2>7, <3>2
    <3> QED BY <3>1, <3>2
  <2>8. ASSUME NEW d \in Clients, NEW e \in Clients,
               NEW i \in DOMAIN inbox'[d], NEW j \in DOMAIN inbox'[e],
               inbox'[d][i].n = inbox'[e][j].n
        PROVE  d = e /\ i = j
    <3>1. CASE d # c /\ e # c
      BY <2>1, <2>8, <3>1 DEF IInv, Fresh
    <3>2. CASE d = c /\ e # c
      <4>1. i \in DOMAIN inbox'[c] /\ j \in DOMAIN inbox[e] /\ inbox'[c][i].n = inbox[e][j].n
        BY <2>1, <2>8, <3>2
      <4> QED BY <2>6, <3>2, <4>1
    <3>3. CASE d # c /\ e = c
      <4>1. j \in DOMAIN inbox'[c] /\ i \in DOMAIN inbox[d] /\ inbox'[c][j].n = inbox[d][i].n
        BY <2>1, <2>8, <3>3
      <4> QED BY <2>6, <3>3, <4>1
    <3>4. CASE d = c /\ e = c
      BY <2>2, <2>5, <2>8, <3>4 DEF IInv, Fresh
    <3> QED BY <3>1, <3>2, <3>3, <3>4
  <2> QED BY <2>3, <2>7, <2>8 DEF Fresh
<1>4. Handled'
  <2> DEFINE r == Head(inbox[c])
  <2>1. /\ inbox[c] \in Seq(Request) /\ inbox[c] # <<>>
        /\ UNCHANGED <<count, asked, got, kobra>>
        /\ inbox'[c] = Tail(inbox[c]) /\ \A d \in Clients : d # c => inbox'[d] = inbox[d]
    BY DEF IInv, TypeOK, Take
  <2>2. /\ r = inbox[c][1] /\ r \in Request /\ 1 \in DOMAIN inbox[c]
        /\ \A i \in DOMAIN inbox[c] : i # 1 =>
             \E j \in DOMAIN inbox'[c] : inbox'[c][j] = inbox[c][i]
        /\ \A i \in DOMAIN inbox'[c] :
             \E j \in DOMAIN inbox[c] : j # 1 /\ inbox'[c][i] = inbox[c][j]
    BY <2>1, TailFacts, TailElement
  <2>3. \A d \in Clients : \A i \in DOMAIN inbox'[d] :
          \E j \in DOMAIN inbox[d] : inbox'[d][i] = inbox[d][j] /\ (d = c => j # 1)
    <3> SUFFICES ASSUME NEW d \in Clients, NEW i \in DOMAIN inbox'[d]
                 PROVE  \E j \in DOMAIN inbox[d] : inbox'[d][i] = inbox[d][j] /\ (d = c => j # 1)
      OBVIOUS
    <3>1. CASE d = c
      BY <2>2, <3>1
    <3>2. CASE d # c
      BY <2>1, <3>2
    <3> QED BY <3>1, <3>2
  <2>4. Effects(r.n, r.kind, conn[c])
    BY DEF Take
  <2>5. /\ Range(told) \subseteq Range(told') /\ failed \subseteq failed'
        /\ kobra /\ r.kind \in Commands => r.n \in Range(told') \cup failed'
    BY <2>4, EffectsGrow
  <2>6. \A d \in Clients : \A i \in DOMAIN inbox'[d], j \in DOMAIN asked'[d] :
          inbox'[d][i].n = asked'[d][j].n => inbox'[d][i].kind = asked'[d][j].kind
    BY <2>1, <2>3 DEF IInv, Handled
  <2>7. \A d \in Clients : \A k \in DOMAIN got'[d] :
          /\ got'[d][k].to <= count'
          /\ \A i \in DOMAIN inbox'[d] : got'[d][k].to # inbox'[d][i].n
    BY <2>1, <2>3 DEF IInv, Handled
  <2>8. ASSUME NEW d \in Clients, pc'[d] \in Replying
        PROVE  /\ cur'[d].to <= count'
               /\ \A i \in DOMAIN inbox'[d] : cur'[d].to # inbox'[d][i].n
    <3>1. pc' = [pc EXCEPT ![c] = After(r)]
      BY DEF Take
    <3>2. pc'[c] = After(r) /\ \A e \in Clients : e # c => pc'[e] = pc[e]
      BY <2>2, <3>1, AfterFacts, SetPc DEF IInv
    <3>3. CASE d # c
      <4>1. cur'[d] = cur[d] /\ pc[d] \in Replying /\ inbox'[d] = inbox[d]
        BY <2>1, <2>8, <3>2, <3>3 DEF Take, IInv, TypeOK
      <4> QED BY <2>1, <3>3, <4>1 DEF IInv, Handled
    <3>4. CASE d = c
      <4>1. r.kind \notin Broken
        BY <2>2, <2>8, <3>2, <3>4, AfterFacts
      <4>2. cur'[c] = [to |-> r.n, as |-> Answer(r.kind)]
        BY <4>1 DEF Take, IInv, TypeOK
      <4>3. cur'[c].to = r.n
        BY <4>2
      <4>4. r.n <= count
        BY <2>2 DEF IInv, Fresh
      <4>5. \A i \in DOMAIN inbox'[c] : inbox'[c][i].n # r.n
        BY <2>2 DEF IInv, Fresh
      <4> QED BY <2>1, <3>4, <4>3, <4>4, <4>5
    <3> QED BY <3>3, <3>4
  <2>9. ASSUME kobra, NEW d \in Clients, NEW j \in DOMAIN asked[d],
               asked[d][j].kind \in Commands
        PROVE  \/ asked[d][j].n \in Range(told') \cup failed'
               \/ \E i \in DOMAIN inbox'[d] : inbox'[d][i].n = asked[d][j].n
    <3>1. CASE asked[d][j].n \in Range(told) \cup failed
      BY <2>5, <3>1
    <3>2. ASSUME NEW i \in DOMAIN inbox[d], inbox[d][i].n = asked[d][j].n
          PROVE  \/ asked[d][j].n \in Range(told') \cup failed'
                 \/ \E k \in DOMAIN inbox'[d] : inbox'[d][k].n = asked[d][j].n
      <4>1. CASE d # c
        BY <2>1, <3>2, <4>1
      <4>2. CASE d = c /\ i # 1
        BY <2>2, <3>2, <4>2
      <4>3. CASE d = c /\ i = 1
        <5>1. r.n = asked[d][j].n /\ r.kind = asked[d][j].kind
          BY <2>2, <3>2, <4>3 DEF IInv, Handled
        <5> QED BY <2>5, <2>9, <5>1
      <4> QED BY <4>1, <4>2, <4>3
    <3> QED BY <2>9, <3>1, <3>2 DEF IInv, Handled
  <2>10. \A d \in Clients : \A j \in DOMAIN asked'[d] : asked'[d][j].n <= count'
    BY <2>1 DEF IInv, Handled
  <2> QED BY <2>1, <2>6, <2>7, <2>8, <2>9, <2>10 DEF Handled
<1> QED BY <1>1, <1>2, <1>3, <1>4 DEF IInv

LEMMA RestInv == ASSUME NEW kind \in Methods PROVE IInv /\ Rest(kind) => IInv'
<1> SUFFICES ASSUME IInv, Rest(kind) PROVE IInv'
  OBVIOUS
<1>1. TypeOK'
  <2>1. /\ count \in Nat /\ count' = count + 1 /\ count' \in 0..MaxRequests
        /\ Effects(count + 1, kind, 0)
    BY BoundsAssumption DEF IInv, TypeOK, Rest
  <2>2. UNCHANGED <<inbox, gone, asked, conn, nextId, kobra, pc, cur, got>>
    BY DEF Rest, client
  <2>3. DOMAIN subs' = DOMAIN subs /\ \A j \in DOMAIN subs : subs'[j] \subseteq Objects
    BY <2>1, EffectsFacts
  <2>4. told' \in Seq(1..count') /\ failed' \subseteq 1..count'
    BY <2>1, NextFresh, PublishFacts
  <2> QED BY <2>1, <2>2, <2>3, <2>4 DEF IInv, TypeOK
<1>2. Live'
  <2>1. DOMAIN subs' = DOMAIN subs /\ UNCHANGED <<pc, conn>>
    BY EffectsFacts DEF Rest
  <2> QED BY <2>1 DEF IInv, Live
<1>3. Fresh'
  <2>1. /\ count \in Nat /\ count' = count + 1 /\ Effects(count + 1, kind, 0) /\ inbox' = inbox
    BY DEF IInv, TypeOK, Rest, client
  <2>2. IsInjective(told') /\ Range(told') \subseteq Range(told) \cup {count + 1}
    BY <2>1, NextFresh, PublishFacts
  <2>3. ASSUME NEW d \in Clients, NEW i \in DOMAIN inbox[d]
        PROVE  inbox[d][i].n <= count + 1 /\ inbox[d][i].n \notin Range(told')
    <3>1. inbox[d] \in Seq(Request)
      BY DEF IInv, TypeOK
    <3>2. inbox[d][i] \in Request
      BY <3>1, <2>3, ElementFacts
    <3>3. inbox[d][i].n \in Nat
      BY <3>2, BoundsAssumption DEF Request
    <3>4. inbox[d][i].n <= count /\ inbox[d][i].n \notin Range(told)
      BY <2>3 DEF IInv, Fresh
    <3>5. inbox[d][i].n # count + 1 /\ inbox[d][i].n <= count + 1
      BY <2>1, <3>3, <3>4
    <3> QED BY <2>2, <3>4, <3>5
  <2> QED BY <2>1, <2>2, <2>3 DEF IInv, Fresh
<1>4. Handled'
  <2>1. /\ count \in Nat /\ count' = count + 1 /\ Effects(count + 1, kind, 0)
        /\ UNCHANGED <<inbox, asked, got, kobra, pc, cur>>
    BY DEF IInv, TypeOK, Rest, client
  <2>2. Range(told) \subseteq Range(told') /\ failed \subseteq failed'
    BY <2>1, EffectsGrow
  <2>3. /\ \A d \in Clients : \A j \in DOMAIN asked[d] : asked[d][j].n \in Nat
        /\ \A d \in Clients : \A k \in DOMAIN got[d] : got[d][k].to \in Nat
        /\ \A d \in Clients : cur[d].to \in Nat
    BY NumbersAreNat DEF IInv
  <2>4. \A k \in Nat : k <= count => k <= count'
    BY <2>1
  <2> QED BY <2>1, <2>2, <2>3, <2>4 DEF IInv, Handled
<1> QED BY <1>1, <1>2, <1>3, <1>4 DEF IInv

LEMMA SendReplyInv == ASSUME NEW c \in Clients PROVE IInv /\ SendReply(c) => IInv'
<1> SUFFICES ASSUME IInv, SendReply(c) PROVE IInv'
  OBVIOUS
<1>1. TypeOK'
  <2>1. PICK to \in Places : to # "off" /\ pc[c] # "off" /\ pc' = [pc EXCEPT ![c] = to]
    BY DEF SendReply, At, Places
  <2>2. pc' \in [Clients -> Places]
    BY <2>1, SetPc DEF IInv
  <2>3. got' \in [Clients -> Seq(Message)]
    <3>1. cur[c].as \in Replies \cup Notices
      BY DEF IInv, TypeOK, Message
    <3> QED BY <3>1, ReceiveType DEF IInv, SendReply
  <2> QED BY <2>2, <2>3 DEF IInv, TypeOK, SendReply, client, handler, outcome
<1>2. Live'
  <2>1. PICK to \in Places : to # "off" /\ pc[c] # "off" /\ pc' = [pc EXCEPT ![c] = to]
    BY DEF SendReply, At, Places
  <2>2. conn' = conn /\ subs' = subs
    BY DEF SendReply, handler
  <2> QED BY <2>1, <2>2, MoveLive DEF IInv
<1>3. Fresh'
  BY DEF IInv, Fresh, SendReply, client, handler, outcome, At, Receive
<1>4. Handled'
  <2>1. PICK as \in Replies \cup Notices : Receive(c, as)
    BY DEF IInv, TypeOK, Message, SendReply
  <2>2. UNCHANGED <<inbox, asked, told, failed, kobra, cur, count>>
    BY DEF SendReply, client, outcome
  <2>3. pc[c] \in Replying /\ \A d \in Clients : pc'[d] \in Replying => pc[d] \in Replying
    BY SetPc DEF IInv, SendReply, At, Replying, Places
  <2> QED BY <2>1, <2>2, <2>3, ReceiveHandled DEF IInv
<1> QED BY <1>1, <1>2, <1>3, <1>4 DEF IInv

LEMMA SendReadyInv == ASSUME NEW c \in Clients PROVE IInv /\ SendReady(c) => IInv'
<1> SUFFICES ASSUME IInv, SendReady(c) PROVE IInv'
  OBVIOUS
<1>1. TypeOK'
  <2>1. PICK to \in Places : to # "off" /\ pc[c] # "off" /\ pc' = [pc EXCEPT ![c] = to]
    BY DEF SendReady, At, Places
  <2>2. pc' \in [Clients -> Places]
    BY <2>1, SetPc DEF IInv
  <2>3. got' \in [Clients -> Seq(Message)]
    BY ReceiveType DEF IInv, SendReady, Notices
  <2> QED BY <2>2, <2>3 DEF IInv, TypeOK, SendReady, client, handler, outcome
<1>2. Live'
  <2>1. PICK to \in Places : to # "off" /\ pc[c] # "off" /\ pc' = [pc EXCEPT ![c] = to]
    BY DEF SendReady, At, Places
  <2>2. conn' = conn /\ subs' = subs
    BY DEF SendReady, handler
  <2> QED BY <2>1, <2>2, MoveLive DEF IInv
<1>3. Fresh'
  BY DEF IInv, Fresh, SendReady, client, handler, outcome, At, Receive
<1>4. Handled'
  <2>1. PICK as \in Replies \cup Notices : Receive(c, as)
    BY DEF SendReady, Notices
  <2>2. UNCHANGED <<inbox, asked, told, failed, kobra, cur, count>>
    BY DEF SendReady, client, outcome
  <2>3. pc[c] \in Replying /\ \A d \in Clients : pc'[d] \in Replying => pc[d] \in Replying
    BY SetPc DEF IInv, SendReady, At, Replying, Places
  <2> QED BY <2>1, <2>2, <2>3, ReceiveHandled DEF IInv
<1> QED BY <1>1, <1>2, <1>3, <1>4 DEF IInv

LEMMA SendFailsInv == ASSUME NEW c \in Clients PROVE IInv /\ SendFails(c) => IInv'
<1> SUFFICES ASSUME IInv, SendFails(c) PROVE IInv'
  OBVIOUS
<1>1. TypeOK'
  <2>1. PICK to \in Places : to # "off" /\ pc[c] # "off" /\ pc' = [pc EXCEPT ![c] = to]
    BY DEF SendFails, At, Places
  <2>2. pc' \in [Clients -> Places]
    BY <2>1, SetPc DEF IInv
  <2>3. cur' \in [Clients -> Message]
    <3>1. cur \in [Clients -> Message] /\ cur' = [cur EXCEPT ![c] = [cur[c] EXCEPT !.as = "error"]]
      BY DEF IInv, TypeOK, SendFails
    <3>2. [cur[c] EXCEPT !.as = "error"] \in Message
      BY <3>1 DEF Message, Replies
    <3> QED BY <3>1, <3>2
  <2> QED BY <2>2, <2>3 DEF IInv, TypeOK, SendFails, client, handler, outcome
<1>2. Live'
  <2>1. PICK to \in Places : to # "off" /\ pc[c] # "off" /\ pc' = [pc EXCEPT ![c] = to]
    BY DEF SendFails, At, Places
  <2>2. conn' = conn /\ subs' = subs
    BY DEF SendFails, handler
  <2> QED BY <2>1, <2>2, MoveLive DEF IInv
<1>3. Fresh'
  BY DEF IInv, Fresh, SendFails, client, handler, outcome, At
<1>4. Handled'
  <2>1. UNCHANGED <<inbox, asked, told, failed, kobra, count, got>>
    BY DEF SendFails, client, outcome
  <2>2. \A d \in Clients : cur'[d].to = cur[d].to
    <3>1. cur' = [cur EXCEPT ![c] = [cur[c] EXCEPT !.as = "error"]] /\ cur \in [Clients -> Message]
      BY DEF IInv, TypeOK, SendFails
    <3>2. [cur[c] EXCEPT !.as = "error"].to = cur[c].to
      BY <3>1 DEF Message
    <3> QED BY <3>1, <3>2
  <2>3. \A d \in Clients : pc'[d] \in Replying => pc[d] \in Replying
    BY SetPc DEF IInv, SendFails, At, Replying, Places
  <2> QED BY <2>1, <2>2, <2>3 DEF IInv, Handled
<1> QED BY <1>1, <1>2, <1>3, <1>4 DEF IInv

LEMMA LeaveInv == ASSUME NEW c \in Clients PROVE IInv /\ Leave(c) => IInv'
<1> SUFFICES ASSUME IInv, Leave(c) PROVE IInv'
  OBVIOUS
<1>1. TypeOK'
  <2>1. pc' \in [Clients -> Places]
    <3>1. pc' = [pc EXCEPT ![c] = "off"]
      BY DEF Leave, At
    <3> QED BY <3>1, SetPc DEF IInv, Places
  <2>2. conn' \in [Clients -> 0 .. nextId - 1]
    <3>1. 0 \in 0 .. nextId - 1
      BY BoundsAssumption DEF IInv, TypeOK
    <3> QED BY <3>1 DEF IInv, TypeOK, Leave
  <2>3. /\ DOMAIN subs' \subseteq DOMAIN subs
        /\ \A i \in DOMAIN subs' : subs'[i] = subs[i]
    BY DEF Leave
  <2>4. UNCHANGED <<inbox, gone, asked, nextId, kobra, told, failed, cur, count, got>>
    BY DEF Leave, client, outcome
  <2> QED BY <2>1, <2>2, <2>3, <2>4 DEF IInv, TypeOK
<1>2. Live'
  <2>1. pc' = [pc EXCEPT ![c] = "off"] /\ pc[c] # "off"
    BY DEF Leave, At
  <2>2. pc'[c] = "off" /\ \A d \in Clients : d # c => pc'[d] = pc[d]
    BY <2>1, SetPc DEF IInv, Places
  <2>3. /\ conn'[c] = 0 /\ \A d \in Clients : d # c => conn'[d] = conn[d]
        /\ DOMAIN subs' = DOMAIN subs \ {conn[c]}
    BY DEF IInv, TypeOK, Leave
  <2> QED BY <2>1, <2>2, <2>3 DEF IInv, Live
<1>3. Fresh'
  BY DEF IInv, Fresh, Leave, client, outcome, At
<1>4. Handled'
  <2>1. UNCHANGED <<inbox, asked, told, failed, kobra, cur, count, got>>
    BY DEF Leave, client, outcome
  <2>2. \A d \in Clients : pc'[d] \in Replying => pc[d] \in Replying
    BY SetPc DEF IInv, Leave, At, Replying, Places
  <2> QED BY <2>1, <2>2 DEF IInv, Handled
<1> QED BY <1>1, <1>2, <1>3, <1>4 DEF IInv

LEMMA IdleInv == IInv /\ UNCHANGED vars => IInv'
<1> SUFFICES ASSUME IInv, UNCHANGED vars PROVE IInv'
  OBVIOUS
<1>1. TypeOK'
  BY DEF IInv, TypeOK, vars, client, handler, outcome
<1>2. Live'
  BY DEF IInv, Live, vars, client, handler, outcome
<1>3. Fresh'
  BY DEF IInv, Fresh, vars, client, handler, outcome
<1>4. Handled'
  BY DEF IInv, Handled, vars, client, handler, outcome
<1> QED BY <1>1, <1>2, <1>3, <1>4 DEF IInv

LEMMA InitInv == Init => IInv
<1> SUFFICES ASSUME Init PROVE IInv
  OBVIOUS
<1>1. TypeOK
  <2>1. /\ nextId \in 1 .. MaxConns + 1 /\ conn \in [Clients -> 0 .. nextId - 1]
        /\ count \in 0..MaxRequests
    BY BoundsAssumption DEF Init
  <2>2. cur \in [Clients -> Message]
    BY BoundsAssumption DEF Init, Message, Replies
  <2>3. /\ inbox \in [Clients -> Seq(Request)] /\ asked \in [Clients -> Seq(Request)]
        /\ got \in [Clients -> Seq(Message)] /\ told \in Seq(1..count)
    BY DEF Init
  <2> QED BY <2>1, <2>2, <2>3 DEF Init, TypeOK, Places
<1>2. Live
  BY DEF Init, Live
<1>3. Fresh
  BY DEF Init, Fresh, IsInjective, Range
<1>4. Handled
  BY DEF Init, Handled, Replying
<1> QED BY <1>1, <1>2, <1>3, <1>4 DEF IInv

LEMMA StepInv == IInv /\ [Next]_vars => IInv'
<1> SUFFICES ASSUME IInv, [Next]_vars PROVE IInv'
  OBVIOUS
<1>1. CASE UNCHANGED vars
  BY <1>1, IdleInv
<1>2. CASE Next
  BY <1>2, OpenInv, ClientSendsInv, ClientGoneInv, StopBridgeInv, TakeInv, RestInv,
     SendReplyInv, SendReadyInv, SendFailsInv, LeaveInv DEF Next, Handle
<1> QED BY <1>1, <1>2

LEMMA Invariant == Spec => []IInv
BY InitInv, StepInv, PTL DEF Spec

-----------------------------------------------------------------------------
(* Types, for any clients and requests. *)
THEOREM TypeCorrect == Spec => []TypeOK
<1>1. IInv => TypeOK
  BY DEF IInv
<1> QED BY <1>1, Invariant, PTL

(* However connections open, fail and close, the table of subscriptions has *)
(* one entry for each open connection and none for any other.               *)
THEOREM TableIsLive == Spec => []SubsLive
<1>1. IInv => SubsLive
  <2> SUFFICES ASSUME IInv PROVE SubsLive
    OBVIOUS
  <2>1. DOMAIN subs = {conn[c] : c \in {d \in Clients : pc[d] # "off"}}
    BY DEF IInv, Live
  <2> QED BY <2>1 DEF IInv, Live, SubsLive
<1> QED BY <1>1, Invariant, PTL

(* No request publishes its command twice, whatever fails after it, and a  *)
(* client that has an answer knows that its command was published, unless  *)
(* that failed or the bridge was stopped.                                  *)
THEOREM PublishedOnce == Spec => []CommandsOnce
<1>1. IInv => CommandsOnce
  BY DEF IInv, Fresh, Handled, CommandsOnce
<1> QED BY <1>1, Invariant, PTL

-----------------------------------------------------------------------------
(* What one client asked (a), what of it waits (b), what it got (g), where  *)
(* its handler is (p), with which reply (m), and whether it is still there. *)
Answering == {"reply", "reply_id", "error"}
Has(g, n) == \E k \in DOMAIN g : g[k].to = n /\ g[k].as \in Replies

(* The requests that were taken are all but those that wait, the last ones; *)
(* the handler is busy with the last that was taken.                        *)
TakenUp(a, b) == Len(a) - Len(b)

TakesTurns(a, b, p, m) ==
  /\ Len(b) <= Len(a)
  /\ \A i \in DOMAIN b : b[i] = a[TakenUp(a, b) + i]
  /\ \A i, j \in DOMAIN a : i < j => a[i].n < a[j].n
  /\ p \in Answering \cup {"connected"} =>
       TakenUp(a, b) > 0 /\ a[TakenUp(a, b)].id /\ a[TakenUp(a, b)].n = m.to
  /\ p \in Answering => m.as \in Replies
  /\ p \in {"reply_id", "connected"} =>
       a[TakenUp(a, b)].kind \in Identifies /\ m.as = Answer(a[TakenUp(a, b)].kind)

(* The first d requests are done: replies are to them, in their order and   *)
(* with no gap, and while the client is there none of them is missing.      *)
InOrder(a, g, d, here) ==
  /\ \A k \in DOMAIN g : g[k].as \in Replies =>
       \E j \in 1 .. d : a[j].id /\ a[j].n = g[k].to
  /\ \A k \in DOMAIN g, j \in DOMAIN a :
       g[k].as \in Replies /\ a[j].id /\ a[j].n < g[k].to => Has(g, a[j].n)
  /\ \A k, l \in DOMAIN g :
       k < l /\ g[k].as \in Replies /\ g[l].as \in Replies => g[k].to < g[l].to
  /\ here => \A j \in 1 .. d : a[j].id => Has(g, a[j].n)

(* A notice follows the reply to an identify, or the notice before it; the  *)
(* handler that sends the next one has just sent that.                      *)
Introduced(a, x, y) ==
  \E kind \in Identifies : /\ [n |-> y.to, id |-> TRUE, kind |-> kind] \in Range(a)
                           /\ x = [to |-> y.to, as |-> Answer(kind)]

Noticed(a, g, p, m, here) ==
  /\ \A i \in DOMAIN g : g[i].as = "klippy_connected" =>
       i > 1 /\ Introduced(a, g[i-1], g[i])
  /\ \A i \in DOMAIN g : g[i].as = "klippy_ready" =>
       i > 1 /\ g[i-1] = [to |-> g[i].to, as |-> "klippy_connected"]
  /\ here /\ p = "connected" => g # <<>> /\ g[Len(g)] = [to |-> m.to, as |-> m.as]
  /\ here /\ p = "ready" => g # <<>> /\ g[Len(g)] = [to |-> m.to, as |-> "klippy_connected"]

Done(a, b, p) == TakenUp(a, b) - (IF p \in Answering THEN 1 ELSE 0)

Talk(a, b, g, p, m, here) ==
  p # "off" => /\ TakesTurns(a, b, p, m)
               /\ InOrder(a, g, Done(a, b, p), here)
               /\ Noticed(a, g, p, m, here)

Talks == \A c \in Clients : Talk(asked[c], inbox[c], got[c], pc[c], cur[c], c \notin gone)

-----------------------------------------------------------------------------
(* How many requests were taken, and how many are done. *)
LEMMA DoneFacts ==
  ASSUME NEW a \in Seq(Request), NEW b \in Seq(Request), NEW p, NEW m,
         p # "off", TakesTurns(a, b, p, m)
  PROVE  /\ TakenUp(a, b) \in 0 .. Len(a) /\ Len(a) \in Nat /\ DOMAIN a = 1 .. Len(a)
         /\ Done(a, b, p) \in 0 .. Len(a)
         /\ Done(a, b, p) = IF p \in Answering THEN TakenUp(a, b) - 1 ELSE TakenUp(a, b)
<1>1. Len(a) \in Nat /\ Len(b) \in Nat /\ DOMAIN a = 1 .. Len(a)
  OBVIOUS
<1>2. Len(b) <= Len(a) /\ (p \in Answering => TakenUp(a, b) > 0)
  BY DEF TakesTurns
<1>3. TakenUp(a, b) \in 0 .. Len(a)
  BY <1>1, <1>2 DEF TakenUp
<1> QED BY <1>1, <1>2, <1>3 DEF Done

(* A client that goes, while its handler stays. *)
LEMMA TalkGone ==
  ASSUME NEW a, NEW b, NEW g, NEW p, NEW m, NEW here, Talk(a, b, g, p, m, here)
  PROVE  Talk(a, b, g, p, m, FALSE)
BY DEF Talk, InOrder, Noticed

(* A request that is sent is later than all before it. *)
LEMMA TalkAsks ==
  ASSUME NEW a \in Seq(Request), NEW b \in Seq(Request), NEW g \in Seq(Message),
         NEW p \in Places, p # "off",
         NEW m \in Message, NEW here \in BOOLEAN, NEW r \in Request, Talk(a, b, g, p, m, here),
         \A j \in DOMAIN a : a[j].n < r.n
  PROVE  Talk(Append(a, r), Append(b, r), g, p, m, here)
<1> DEFINE x == Append(a, r)
           y == Append(b, r)
<1>1. /\ Len(a) \in Nat /\ DOMAIN a = 1 .. Len(a) /\ Len(x) = Len(a) + 1
      /\ DOMAIN x = 1 .. Len(a) + 1 /\ x \in Seq(Request)
      /\ \A i \in 1 .. Len(a) : x[i] = a[i]
      /\ x[Len(a) + 1] = r
  OBVIOUS
<1>2. /\ Len(b) \in Nat /\ DOMAIN b = 1 .. Len(b) /\ Len(y) = Len(b) + 1
      /\ DOMAIN y = 1 .. Len(b) + 1
      /\ \A i \in 1 .. Len(b) : y[i] = b[i]
      /\ y[Len(b) + 1] = r
  OBVIOUS
<1> HIDE DEF x, y
<1>3. TakesTurns(a, b, p, m) /\ InOrder(a, g, Done(a, b, p), here) /\ Noticed(a, g, p, m, here)
  BY DEF Talk
<1>4. TakenUp(x, y) = TakenUp(a, b) /\ Done(x, y, p) = Done(a, b, p)
  BY <1>1, <1>2 DEF TakenUp, Done
<1>5. TakenUp(a, b) \in 0 .. Len(a) /\ Done(a, b, p) \in 0 .. Len(a)
  BY <1>3, DoneFacts
<1>6. \A i \in 1 .. Len(a) : i \in DOMAIN x
  BY <1>1
<1>7. TakesTurns(x, y, p, m)
  <2>1. Len(y) <= Len(x)
    BY <1>1, <1>2, <1>3 DEF TakesTurns
  <2>2. ASSUME NEW i \in DOMAIN y PROVE y[i] = x[TakenUp(a, b) + i]
    <3>1. CASE i \in 1 .. Len(b)
      <4>1. TakenUp(a, b) + i \in 1 .. Len(a)
        BY <1>1, <1>2, <1>5, <3>1 DEF TakenUp
      <4> QED BY <1>1, <1>2, <1>3, <3>1, <4>1 DEF TakesTurns
    <3>2. CASE i = Len(b) + 1
      <4>1. TakenUp(a, b) + i = Len(a) + 1
        BY <1>1, <1>2, <3>2 DEF TakenUp
      <4> QED BY <1>1, <1>2, <3>2, <4>1
    <3> QED BY <1>2, <2>2, <3>1, <3>2
  <2>3. ASSUME NEW i \in DOMAIN x, NEW j \in DOMAIN x, i < j PROVE x[i].n < x[j].n
    <3>1. i \in 1 .. Len(a) /\ (j \in 1 .. Len(a) \/ j = Len(a) + 1)
      BY <1>1, <2>3
    <3>2. CASE j \in 1 .. Len(a)
      BY <1>1, <1>3, <2>3, <3>1, <3>2 DEF TakesTurns
    <3>3. CASE j = Len(a) + 1
      BY <1>1, <3>1, <3>3
    <3> QED BY <3>1, <3>2, <3>3
  <2>4. TakenUp(a, b) > 0 => x[TakenUp(a, b)] = a[TakenUp(a, b)]
    BY <1>1, <1>5
  <2>5. p \in Answering \cup {"connected"} => TakenUp(a, b) > 0
    BY <1>3 DEF TakesTurns
  <2>6. /\ p \in Answering \cup {"connected"} =>
             TakenUp(x, y) > 0 /\ x[TakenUp(x, y)].id /\ x[TakenUp(x, y)].n = m.to
        /\ p \in {"reply_id", "connected"} =>
             x[TakenUp(x, y)].kind \in Identifies /\ m.as = Answer(x[TakenUp(x, y)].kind)
    BY <1>3, <1>4, <2>4, <2>5 DEF TakesTurns, Answering
  <2> QED BY <1>3, <1>4, <2>1, <2>2, <2>3, <2>6 DEF TakesTurns
<1>8. InOrder(x, g, Done(a, b, p), here)
  <2> DEFINE d == Done(a, b, p)
  <2>1. \A j \in 1 .. d : j \in DOMAIN a /\ x[j] = a[j]
    BY <1>1, <1>5
  <2> HIDE DEF d
  <2>2. \A k \in DOMAIN g : g[k].as \in Replies => g[k].to < r.n
    BY <1>3, <2>1 DEF InOrder, d
  <2>3. ASSUME NEW k \in DOMAIN g, NEW j \in DOMAIN x,
               g[k].as \in Replies, x[j].id, x[j].n < g[k].to
        PROVE  Has(g, x[j].n)
    <3>1. CASE j \in 1 .. Len(a)
      BY <1>1, <1>3, <2>3, <3>1 DEF InOrder
    <3>2. CASE j = Len(a) + 1
      <4>1. r.n < g[k].to /\ g[k].to < r.n
        BY <1>1, <2>2, <2>3, <3>2
      <4>2. r.n \in Nat /\ g[k].to \in Nat
        <5>1. g[k] \in Message
          BY <2>3, ElementFacts
        <5> QED BY <5>1, BoundsAssumption DEF Request, Message
      <4> QED BY <4>1, <4>2
    <3> QED BY <1>1, <2>3, <3>1, <3>2
  <2> QED BY <1>3, <2>1, <2>3 DEF InOrder, d
<1>9. Noticed(x, g, p, m, here)
  <2>1. \A j \in DOMAIN a : j \in DOMAIN x /\ x[j] = a[j]
    BY <1>1, <1>6
  <2>2. Range(a) \subseteq Range(x)
    BY <2>1 DEF Range
  <2> QED BY <1>3, <2>2 DEF Noticed, Introduced
<1> QED BY <1>4, <1>7, <1>8, <1>9 DEF Talk, x, y

(* The handler takes the request that waits longest. *)
LEMMA TalkTakes ==
  ASSUME NEW a \in Seq(Request), NEW b \in Seq(Request), NEW g \in Seq(Message),
         NEW m \in Message, NEW here \in BOOLEAN, Talk(a, b, g, "idle", m, here), b # <<>>,
         NEW z \in Message,
         Head(b).kind \notin Broken => z = [to |-> Head(b).n, as |-> Answer(Head(b).kind)]
  PROVE  Talk(a, Tail(b), g, After(Head(b)), z, here)
<1> DEFINE r == Head(b)
           y == Tail(b)
           k == TakenUp(a, b)
           p == After(r)
<1>1. /\ Len(a) \in Nat /\ DOMAIN a = 1 .. Len(a)
      /\ Len(b) \in Nat /\ DOMAIN b = 1 .. Len(b) /\ Len(b) > 0
      /\ y \in Seq(Request) /\ Len(y) = Len(b) - 1 /\ DOMAIN y = 1 .. Len(y)
      /\ \A i \in DOMAIN y : i + 1 \in DOMAIN b /\ y[i] = b[i + 1]
      /\ r = b[1] /\ r \in Request
  OBVIOUS
<1>2. /\ p \in {"leave", "idle", "reply_id", "error", "reply"}
      /\ p \in Answering => r.id /\ r.kind \notin Broken
      /\ p \notin Answering => ~r.id
      /\ p = "reply_id" => r.kind \in Identifies
      /\ r.kind \notin Broken => Answer(r.kind) \in Replies
  BY <1>1 DEF After, Answer, Answering, Request, Broken, Odd, Methods, Reading, Commands, Replies
<1>3. TakesTurns(a, b, "idle", m) /\ InOrder(a, g, Done(a, b, "idle"), here)
      /\ Noticed(a, g, "idle", m, here)
  BY DEF Talk
<1>4. k \in 0 .. Len(a) /\ Done(a, b, "idle") = k
  BY <1>3, DoneFacts DEF Answering
<1>5. TakenUp(a, y) = k + 1 /\ k + 1 \in 1 .. Len(a)
  BY <1>1, <1>3 DEF TakenUp, TakesTurns
<1>6. a[k + 1] = r
  BY <1>1, <1>3, <1>4 DEF TakesTurns
<1>10. p \in Answering => z.to = r.n /\ z.as = Answer(r.kind)
  BY <1>2
<1> HIDE DEF r, p, k, y
<1>7. TakesTurns(a, y, p, z)
  <2>1. Len(y) <= Len(a)
    BY <1>1, <1>3 DEF TakesTurns
  <2>2. ASSUME NEW i \in DOMAIN y PROVE y[i] = a[k + 1 + i]
    <3>1. i + 1 \in DOMAIN b /\ y[i] = b[i + 1] /\ b[i + 1] = a[k + (i + 1)]
      BY <1>1, <1>3 DEF TakesTurns, k
    <3>2. k + (i + 1) = k + 1 + i
      BY <1>1, <1>4
    <3> QED BY <3>1, <3>2
  <2>3. p \in Answering => z.as \in Replies
    BY <1>2, <1>10
  <2>4. p = "reply_id" => z.as = Answer(a[k + 1].kind) /\ a[k + 1].kind \in Identifies
    BY <1>2, <1>6, <1>10 DEF Answering
  <2>5. p # "connected" /\ k + 1 > 0
    BY <1>2, <1>4
  <2> QED BY <1>2, <1>3, <1>5, <1>6, <1>10, <2>1, <2>2, <2>3, <2>4, <2>5 DEF TakesTurns
<1>8. InOrder(a, g, Done(a, y, p), here)
  <2>1. CASE p \in Answering
    <3>1. Done(a, y, p) = k
      BY <1>4, <1>5, <2>1 DEF Done
    <3> QED BY <1>3, <1>4, <3>1
  <2>2. CASE p \notin Answering
    <3>1. Done(a, y, p) = k + 1
      BY <1>4, <1>5, <2>2 DEF Done
    <3>2. /\ \A j \in 1 .. k : j \in 1 .. k + 1
          /\ \A j \in 1 .. k + 1 : j \in 1 .. k \/ j = k + 1
      BY <1>4
    <3>3. ~a[k + 1].id
      BY <1>2, <1>6, <2>2
    <3>4. InOrder(a, g, k, here)
      BY <1>3, <1>4
    <3>5. InOrder(a, g, k + 1, here)
      BY <3>2, <3>3, <3>4 DEF InOrder
    <3> QED BY <3>1, <3>5
  <2> QED BY <2>1, <2>2
<1>9. Noticed(a, g, p, z, here)
  BY <1>2, <1>3 DEF Noticed
<1> QED BY <1>7, <1>8, <1>9 DEF Talk, r, p, k, y

(* What is appended to a sequence is its last element. *)
LEMMA LongerFacts ==
  ASSUME NEW S, NEW s \in Seq(S), NEW e \in S
  PROVE  /\ Len(s) \in Nat /\ Len(Append(s, e)) = Len(s) + 1 /\ Append(s, e) # <<>>
         /\ DOMAIN s = 1 .. Len(s) /\ DOMAIN Append(s, e) = 1 .. Len(s) + 1
         /\ \A i \in DOMAIN s :
              i \in DOMAIN Append(s, e) /\ Append(s, e)[i] = s[i] /\ i < Len(s) + 1
         /\ \A i \in DOMAIN Append(s, e) :
              (i \in DOMAIN s /\ Append(s, e)[i] = s[i]) \/ i = Len(s) + 1
         /\ Append(s, e)[Len(s) + 1] = e
OBVIOUS

(* A message that is sent comes after all that the client got, if at all. *)
LEMMA TalkReplies ==
  ASSUME NEW a \in Seq(Request), NEW b \in Seq(Request), NEW g \in Seq(Message),
         NEW m \in Message, NEW here \in BOOLEAN, NEW h, NEW p, NEW q,
         Talk(a, b, g, p, m, here),
         \/ p \in {"reply", "error"} /\ q = "idle"
         \/ p = "reply_id" /\ q = "connected",
         here => h = Append(g, [to |-> m.to, as |-> m.as]), ~here => h = g
  PROVE  Talk(a, b, h, q, m, here)
<1> DEFINE k == TakenUp(a, b)
           e == [to |-> m.to, as |-> m.as]
<1>1. p \in Answering /\ q \notin Answering /\ p # "off" /\ (q = "connected" => p = "reply_id")
      /\ q # "ready"
  BY DEF Answering
<1>2. TakesTurns(a, b, p, m) /\ InOrder(a, g, Done(a, b, p), here) /\ Noticed(a, g, p, m, here)
  BY <1>1 DEF Talk
<1>3. /\ k \in 1 .. Len(a) /\ Len(a) \in Nat /\ DOMAIN a = 1 .. Len(a)
      /\ Done(a, b, p) = k - 1 /\ Done(a, b, q) = k
      /\ a[k].id /\ a[k].n = m.to /\ m.as \in Replies
  <2>1. k > 0 /\ a[k].id /\ a[k].n = m.to /\ m.as \in Replies
    BY <1>1, <1>2 DEF TakesTurns
  <2>2. /\ k \in 0 .. Len(a) /\ Len(a) \in Nat /\ DOMAIN a = 1 .. Len(a)
        /\ Done(a, b, p) = k - 1
    BY <1>1, <1>2, DoneFacts
  <2>3. Done(a, b, q) = k
    BY <1>1, <2>2 DEF Done
  <2> QED BY <2>1, <2>2, <2>3
<1>4. e \in Message /\ e.to = m.to /\ e.as = m.as
  BY DEF Message
<1> HIDE DEF e, k
<1>5. TakesTurns(a, b, q, m)
  BY <1>1, <1>2, <1>3 DEF TakesTurns, k, Answering
<1>6. InOrder(a, h, k, here) /\ Noticed(a, h, q, m, here)
  <2>1. \A j \in 1 .. k : (j \in 1 .. k - 1 \/ j = k) /\ j \in DOMAIN a
    BY <1>3
  <2>2. \A j \in 1 .. k - 1 : j \in 1 .. k /\ j \in DOMAIN a /\ a[j].n < a[k].n
    <3>1. \A j \in 1 .. k - 1 : j \in 1 .. k /\ j \in DOMAIN a /\ j < k /\ k \in DOMAIN a
      BY <1>3
    <3> QED BY <1>2, <3>1 DEF TakesTurns
  <2>3. InOrder(a, g, k - 1, here)
    BY <1>2, <1>3
  <2>4. CASE ~here
    <3>1. h = g
      BY <2>4, <1>4
    <3>2. InOrder(a, g, k, here)
      BY <2>2, <2>3, <2>4 DEF InOrder
    <3> QED BY <1>2, <2>4, <3>1, <3>2 DEF Noticed
  <2>5. CASE here
    <3>1. h = Append(g, e)
      BY <2>5 DEF e
    <3>2. /\ Len(g) \in Nat /\ DOMAIN g = 1 .. Len(g) /\ DOMAIN h = 1 .. Len(g) + 1
          /\ \A i \in 1 .. Len(g) : h[i] = g[i]
          /\ h[Len(g) + 1] = e /\ Len(h) = Len(g) + 1 /\ h # <<>>
      BY <1>4, <3>1
    <3>3. /\ \A i \in DOMAIN g : i \in DOMAIN h /\ h[i] = g[i] /\ i < Len(g) + 1
          /\ \A i \in DOMAIN h : (i \in DOMAIN g /\ h[i] = g[i]) \/ (i = Len(g) + 1 /\ h[i] = e)
          /\ Len(g) + 1 \in DOMAIN h
      BY <3>2
    <3>4. \A n : Has(g, n) => Has(h, n)
      BY <3>3 DEF Has
    <3>5. Has(h, a[k].n)
      BY <1>3, <1>4, <3>2, <3>3 DEF Has
    <3>6. \A x \in DOMAIN h : h[x].as \in Replies =>
            \E j \in 1 .. k : a[j].id /\ a[j].n = h[x].to
      <4>1. k \in 1 .. k
        BY <1>3
      <4>2. \A x \in DOMAIN g : g[x].as \in Replies =>
              \E j \in 1 .. k - 1 : a[j].id /\ a[j].n = g[x].to
        BY <2>3 DEF InOrder
      <4>3. \A x \in DOMAIN g : g[x].as \in Replies =>
              \E j \in 1 .. k : a[j].id /\ a[j].n = g[x].to
        BY <2>2, <4>2
      <4>4. a[k].id /\ a[k].n = e.to
        BY <1>3, <1>4
      <4> QED BY <3>3, <4>1, <4>3, <4>4
    <3>7. ASSUME NEW x \in DOMAIN h, NEW j \in DOMAIN a,
                 h[x].as \in Replies, a[j].id, a[j].n < h[x].to
          PROVE  Has(h, a[j].n)
      <4>1. CASE x \in DOMAIN g
        BY <2>3, <3>3, <3>4, <3>7, <4>1 DEF InOrder
      <4>2. CASE h[x] = e
        <5>1. a[j].n < a[k].n /\ a[j] \in Request /\ a[k] \in Request
          BY <1>3, <1>4, <3>7, <4>2
        <5>2. a[j].n \in Nat /\ a[k].n \in Nat
          BY <5>1, BoundsAssumption DEF Request
        <5>3. ~(k < j) /\ k # j
          <6>1. k \in DOMAIN a /\ k < j => a[k].n < a[j].n
            BY <1>2, <3>7 DEF TakesTurns
          <6>2. k \in DOMAIN a
            BY <1>3
          <6>3. ~(a[k].n < a[j].n) /\ a[k].n # a[j].n
            BY <5>1, <5>2
          <6> QED BY <6>1, <6>2, <6>3
        <5>4. j \in 1 .. k - 1
          BY <1>3, <5>3
        <5>5. Has(g, a[j].n)
          BY <2>3, <2>5, <3>7, <5>4 DEF InOrder
        <5> QED BY <3>4, <5>5
      <4> QED BY <3>3, <3>7, <4>1, <4>2
    <3>8. ASSUME NEW x \in DOMAIN h, NEW y \in DOMAIN h,
                 x < y, h[x].as \in Replies, h[y].as \in Replies
          PROVE  h[x].to < h[y].to
      <4>1. x \in DOMAIN g /\ h[x] = g[x]
        BY <3>2, <3>3, <3>8
      <4>2. CASE y \in DOMAIN g
        BY <2>3, <3>3, <3>8, <4>1, <4>2 DEF InOrder
      <4>3. CASE h[y] = e
        <5>1. PICK j \in 1 .. k - 1 : a[j].n = g[x].to
          BY <2>3, <3>8, <4>1 DEF InOrder
        <5> QED BY <1>3, <1>4, <2>2, <4>1, <4>3, <5>1
      <4> QED BY <3>3, <3>8, <4>2, <4>3
    <3>9. \A j \in 1 .. k : a[j].id => Has(h, a[j].n)
      BY <2>1, <2>3, <2>5, <3>4, <3>5 DEF InOrder
    <3>10. InOrder(a, h, k, here)
      BY <3>6, <3>7, <3>8, <3>9 DEF InOrder
    <3>11. Noticed(a, h, q, m, here)
      <4>1. e.as \notin Notices
        BY <1>3, <1>4 DEF Replies, Notices
      <4>2. \A i \in DOMAIN h : h[i].as \in Notices => i \in DOMAIN g /\ h[i] = g[i]
        BY <3>3, <4>1
      <4>3. \A i \in DOMAIN g : i > 1 => h[i - 1] = g[i - 1]
        BY <3>2
      <4>4. e = [to |-> m.to, as |-> m.as]
        BY DEF e
      <4> QED BY <1>1, <1>2, <3>2, <4>2, <4>3, <4>4 DEF Noticed, Notices
    <3> QED BY <3>10, <3>11
  <2> QED BY <2>4, <2>5
<1> QED BY <1>3, <1>5, <1>6 DEF Talk

(* A notice is not a reply. *)
LEMMA TalkNotifies ==
  ASSUME NEW a \in Seq(Request), NEW b \in Seq(Request), NEW g \in Seq(Message),
         NEW m \in Message, NEW here \in BOOLEAN, NEW h, NEW p, NEW q, NEW as,
         Talk(a, b, g, p, m, here),
         \/ p = "connected" /\ q = "ready" /\ as = "klippy_connected"
         \/ p = "ready" /\ q = "idle" /\ as = "klippy_ready",
         here => h = Append(g, [to |-> m.to, as |-> as]), ~here => h = g
  PROVE  Talk(a, b, h, q, m, here)
<1> DEFINE k == TakenUp(a, b)
           e == [to |-> m.to, as |-> as]
<1>1. p \notin Answering /\ q \notin Answering /\ p # "off" /\ q # "connected"
  BY DEF Answering
<1>2. TakesTurns(a, b, p, m) /\ InOrder(a, g, Done(a, b, p), here) /\ Noticed(a, g, p, m, here)
  BY <1>1 DEF Talk
<1>3. Done(a, b, p) = k /\ Done(a, b, q) = k
  BY <1>1, <1>2, DoneFacts DEF Done
<1>4. e \in Message /\ e.to = m.to /\ e.as = as /\ as \notin Replies
  BY DEF Message, Notices, Replies
<1> HIDE DEF e, k
<1>5. TakesTurns(a, b, q, m)
  BY <1>1, <1>2 DEF TakesTurns, Answering
<1>6. InOrder(a, h, k, here) /\ Noticed(a, h, q, m, here)
  <2>1. CASE ~here
    <3>1. h = g
      BY <2>1, <1>4
    <3> QED BY <1>2, <1>3, <2>1, <3>1 DEF Noticed
  <2>2. CASE here
    <3>1. h = Append(g, e)
      BY <2>2 DEF e
    <3>2. /\ Len(g) \in Nat /\ DOMAIN g = 1 .. Len(g) /\ DOMAIN h = 1 .. Len(g) + 1
          /\ h[Len(g) + 1] = e /\ Len(h) = Len(g) + 1 /\ h # <<>>
      BY <1>4, <3>1, LongerFacts
    <3>3. /\ \A i \in DOMAIN g : i \in DOMAIN h /\ h[i] = g[i]
          /\ \A i \in DOMAIN h : (i \in DOMAIN g /\ h[i] = g[i]) \/ (i = Len(g) + 1 /\ h[i] = e)
      BY <1>4, <3>1, LongerFacts
    <3>4. \A n : Has(g, n) => Has(h, n)
      BY <3>3 DEF Has
    <3>5. \A i \in DOMAIN h : h[i].as \in Replies => i \in DOMAIN g /\ h[i] = g[i]
      BY <1>4, <3>3
    <3>6. InOrder(a, h, k, here)
      BY <1>2, <1>3, <3>4, <3>5 DEF InOrder
    <3>7. \A i \in DOMAIN g : i > 1 => h[i - 1] = g[i - 1]
      <4>1. \A i \in DOMAIN g : i > 1 => i - 1 \in DOMAIN g
        BY <3>2
      <4> QED BY <3>3, <4>1
    <3>8. ASSUME p = "connected"
          PROVE  /\ a[k].kind \in Identifies /\ m.as = Answer(a[k].kind)
                 /\ [n |-> m.to, id |-> TRUE, kind |-> a[k].kind] \in Range(a)
      <4>1. /\ k > 0 /\ a[k].id /\ a[k].n = m.to
            /\ a[k].kind \in Identifies /\ m.as = Answer(a[k].kind)
        BY <1>2, <3>8 DEF TakesTurns, k
      <4>2. k \in DOMAIN a /\ a[k] \in Request
        BY <1>1, <1>2, <4>1, DoneFacts DEF k
      <4>3. a[k] = [n |-> m.to, id |-> TRUE, kind |-> a[k].kind]
        BY <4>1, <4>2 DEF Request
      <4> QED BY <4>1, <4>2, <4>3 DEF Range
    <3>9. /\ g # <<>> /\ Len(g) > 0 /\ h[Len(g)] = g[Len(g)]
          /\ p = "connected" => g[Len(g)] = [to |-> m.to, as |-> m.as]
          /\ p = "ready" => g[Len(g)] = [to |-> m.to, as |-> "klippy_connected"]
      <4>1. /\ g # <<>>
            /\ p = "connected" => g[Len(g)] = [to |-> m.to, as |-> m.as]
            /\ p = "ready" => g[Len(g)] = [to |-> m.to, as |-> "klippy_connected"]
        BY <1>2, <2>2 DEF Noticed
      <4>2. Len(g) > 0 /\ Len(g) \in DOMAIN g
        BY <4>1, <3>2
      <4> QED BY <3>3, <4>1, <4>2
    <3>10. \A i \in DOMAIN h : h[i].as = "klippy_connected" =>
             i > 1 /\ Introduced(a, h[i-1], h[i])
      <4> SUFFICES ASSUME NEW i \in DOMAIN h, h[i].as = "klippy_connected"
                   PROVE  i > 1 /\ Introduced(a, h[i-1], h[i])
        OBVIOUS
      <4>1. CASE i \in DOMAIN g /\ h[i] = g[i]
        BY <1>2, <3>7, <4>1 DEF Noticed
      <4>2. CASE i = Len(g) + 1 /\ h[i] = e
        <5>1. p = "connected" /\ h[i].to = m.to
          BY <1>4, <4>2
        <5>2. i > 1 /\ i - 1 = Len(g)
          <6>1. Len(g) \in Nat /\ Len(g) > 0 /\ i = Len(g) + 1
            BY <3>2, <3>9, <4>2
          <6> QED BY <6>1
        <5>3. h[i-1] = [to |-> m.to, as |-> m.as]
          BY <3>9, <5>1, <5>2
        <5> QED BY <3>8, <5>1, <5>2, <5>3 DEF Introduced
      <4> QED BY <3>3, <4>1, <4>2
    <3>11. \A i \in DOMAIN h : h[i].as = "klippy_ready" =>
             i > 1 /\ h[i-1] = [to |-> h[i].to, as |-> "klippy_connected"]
      <4> SUFFICES ASSUME NEW i \in DOMAIN h, h[i].as = "klippy_ready"
                   PROVE  i > 1 /\ h[i-1] = [to |-> h[i].to, as |-> "klippy_connected"]
        OBVIOUS
      <4>1. CASE i \in DOMAIN g /\ h[i] = g[i]
        BY <1>2, <3>7, <4>1 DEF Noticed
      <4>2. CASE i = Len(g) + 1 /\ h[i] = e
        <5>1. p = "ready" /\ h[i].to = m.to
          BY <1>4, <4>2
        <5>2. i > 1 /\ i - 1 = Len(g)
          <6>1. Len(g) \in Nat /\ Len(g) > 0 /\ i = Len(g) + 1
            BY <3>2, <3>9, <4>2
          <6> QED BY <6>1
        <5> QED BY <3>9, <5>1, <5>2
      <4> QED BY <3>3, <4>1, <4>2
    <3>12. q = "ready" => h # <<>> /\ h[Len(h)] = [to |-> m.to, as |-> "klippy_connected"]
      BY <3>2 DEF e
    <3> QED BY <1>1, <3>6, <3>10, <3>11, <3>12 DEF Noticed
  <2> QED BY <2>1, <2>2
<1> QED BY <1>3, <1>5, <1>6 DEF Talk

(* A send that fails ends with no reply: the client is not there. *)
LEMMA TalkFails ==
  ASSUME NEW a \in Seq(Request), NEW b \in Seq(Request), NEW g \in Seq(Message),
         NEW m \in Message, NEW z \in Message, NEW p, NEW q, Talk(a, b, g, p, m, FALSE),
         \/ p \in {"reply", "reply_id"} /\ q = "error"
         \/ p = "error" /\ q = "leave"
         \/ p \in {"connected", "ready"} /\ q = "idle",
         z.to = m.to, z.as = "error"
  PROVE  Talk(a, b, g, q, z, FALSE)
<1>1. p # "off" /\ q \notin {"off", "connected", "reply_id"} /\ (q \in Answering => p \in Answering)
  BY DEF Answering
<1>2. TakesTurns(a, b, p, m) /\ InOrder(a, g, Done(a, b, p), FALSE) /\ Noticed(a, g, p, m, FALSE)
  BY <1>1 DEF Talk
<1>3. TakesTurns(a, b, q, z)
  BY <1>1, <1>2 DEF TakesTurns, Answering, Replies
<1>4. /\ Done(a, b, p) \in Nat /\ Done(a, b, q) \in Nat /\ Done(a, b, p) <= Done(a, b, q)
  BY <1>1, <1>2, <1>3, DoneFacts
<1>5. InOrder(a, g, Done(a, b, q), FALSE)
  <2>1. \A j \in 1 .. Done(a, b, p) : j \in 1 .. Done(a, b, q)
    BY <1>4
  <2> QED BY <1>2, <2>1 DEF InOrder
<1>6. Noticed(a, g, q, z, FALSE)
  BY <1>2 DEF Noticed
<1> QED BY <1>3, <1>5, <1>6 DEF Talk

-----------------------------------------------------------------------------
LEMMA TalkTypes ==
  ASSUME TypeOK, NEW d \in Clients
  PROVE  /\ asked[d] \in Seq(Request) /\ inbox[d] \in Seq(Request) /\ got[d] \in Seq(Message)
         /\ cur[d] \in Message /\ pc[d] \in Places /\ (d \notin gone) \in BOOLEAN
BY DEF TypeOK

(* A client that nothing happens to, or that goes at most. *)
LEMMA OtherTalk ==
  ASSUME Talks, NEW d \in Clients,
         asked'[d] = asked[d], inbox'[d] = inbox[d], got'[d] = got[d], pc'[d] = pc[d],
         cur'[d] = cur[d], d \in gone => d \in gone'
  PROVE  Talk(asked'[d], inbox'[d], got'[d], pc'[d], cur'[d], d \notin gone')
<1>1. Talk(asked[d], inbox[d], got[d], pc[d], cur[d], d \notin gone)
  BY DEF Talks
<1>2. CASE d \in gone'
  <2>1. Talk(asked[d], inbox[d], got[d], pc[d], cur[d], FALSE)
    BY <1>1, TalkGone
  <2>2. (d \notin gone') = FALSE
    BY <1>2
  <2> QED BY <2>1, <2>2
<1>3. CASE d \notin gone /\ d \notin gone'
  <2>1. (d \notin gone') = (d \notin gone)
    BY <1>3
  <2> QED BY <1>1, <2>1
<1> QED BY <1>2, <1>3

LEMMA OpenTalks == ASSUME NEW c \in Clients PROVE IInv /\ Talks /\ Open(c) => Talks'
<1> SUFFICES ASSUME IInv, Talks, Open(c), NEW d \in Clients
             PROVE  Talk(asked'[d], inbox'[d], got'[d], pc'[d], cur'[d], d \notin gone')
  BY DEF Talks
<1>1. CASE d = c
  <2>1. asked'[d] = <<>> /\ inbox'[d] = <<>> /\ got'[d] = <<>> /\ pc'[d] = "idle"
    BY <1>1 DEF IInv, TypeOK, Open, At
  <2>2. TakenUp(<<>>, <<>>) = 0 /\ Done(<<>>, <<>>, "idle") = 0
    <3>1. Len(<<>>) = 0 /\ "idle" \notin Answering
      BY DEF Answering
    <3>2. TakenUp(<<>>, <<>>) = 0
      BY <3>1 DEF TakenUp
    <3>3. Done(<<>>, <<>>, "idle") = TakenUp(<<>>, <<>>) - 0
      BY <3>1 DEF Done
    <3> QED BY <3>2, <3>3
  <2>3. TakesTurns(<<>>, <<>>, "idle", cur'[d])
    BY DEF TakesTurns, Answering
  <2>4. InOrder(<<>>, <<>>, 0, d \notin gone')
    BY DEF InOrder
  <2>5. Noticed(<<>>, <<>>, "idle", cur'[d], d \notin gone')
    BY DEF Noticed
  <2> QED BY <2>1, <2>2, <2>3, <2>4, <2>5 DEF Talk
<1>2. CASE d # c
  <2>1. asked'[d] = asked[d] /\ inbox'[d] = inbox[d] /\ got'[d] = got[d] /\ pc'[d] = pc[d]
        /\ cur'[d] = cur[d] /\ (d \in gone => d \in gone')
    BY <1>2 DEF IInv, TypeOK, Open, At
  <2> QED BY <2>1, OtherTalk
<1> QED BY <1>1, <1>2

LEMMA ClientSendsTalks ==
  ASSUME NEW c \in Clients, NEW kind \in Methods \cup Odd \cup Broken, NEW id \in BOOLEAN
  PROVE  IInv /\ Talks /\ ClientSends(c, kind, id) => Talks'
<1> SUFFICES ASSUME IInv, Talks, ClientSends(c, kind, id), NEW d \in Clients
             PROVE  Talk(asked'[d], inbox'[d], got'[d], pc'[d], cur'[d], d \notin gone')
  BY DEF Talks
<1> DEFINE r == [n |-> count + 1, id |-> id, kind |-> kind]
<1>1. r \in Request /\ r.n = count + 1
  <2>1. count \in 0..MaxRequests /\ count < MaxRequests /\ (id => kind \notin Broken)
    BY DEF IInv, TypeOK, ClientSends
  <2>2. count + 1 \in 1..MaxRequests
    BY <2>1, BoundsAssumption
  <2>3. r \in [n : 1..MaxRequests, id : BOOLEAN, kind : Methods \cup Odd \cup Broken]
    BY <2>2
  <2> QED BY <2>1, <2>3 DEF Request
<1>2. /\ asked' = [asked EXCEPT ![c] = Append(asked[c], r)]
      /\ inbox' = [inbox EXCEPT ![c] = Append(inbox[c], r)]
      /\ pc[c] # "off" /\ UNCHANGED <<got, pc, cur, gone>>
  BY DEF ClientSends
<1> HIDE DEF r
<1>3. CASE d = c
  <2>1. asked'[d] = Append(asked[d], r) /\ inbox'[d] = Append(inbox[d], r)
    BY <1>2, <1>3 DEF IInv, TypeOK
  <2>2. \A j \in DOMAIN asked[d] : asked[d][j].n < r.n
    <3>1. \A j \in DOMAIN asked[d] : asked[d][j].n <= count /\ asked[d][j].n \in Nat
      BY NumbersAreNat DEF IInv, Handled
    <3>2. count \in Nat
      BY DEF IInv, TypeOK
    <3> QED BY <1>1, <3>1, <3>2
  <2>3. Talk(asked[d], inbox[d], got[d], pc[d], cur[d], d \notin gone)
    BY DEF Talks
  <2>4. Talk(Append(asked[d], r), Append(inbox[d], r), got[d], pc[d], cur[d], d \notin gone)
    BY <1>1, <1>2, <1>3, <2>2, <2>3, TalkTypes, TalkAsks DEF IInv
  <2> QED BY <1>2, <2>1, <2>4
<1>4. CASE d # c
  <2>1. asked'[d] = asked[d] /\ inbox'[d] = inbox[d]
    BY <1>2, <1>4 DEF IInv, TypeOK
  <2> QED BY <1>2, <2>1, OtherTalk
<1> QED BY <1>3, <1>4

LEMMA ClientGoneTalks == ASSUME NEW c \in Clients PROVE IInv /\ Talks /\ ClientGone(c) => Talks'
<1> SUFFICES ASSUME Talks, ClientGone(c), NEW d \in Clients
             PROVE  Talk(asked'[d], inbox'[d], got'[d], pc'[d], cur'[d], d \notin gone')
  BY DEF Talks
<1>1. UNCHANGED <<asked, inbox, got, pc, cur>> /\ (d \in gone => d \in gone')
  BY DEF ClientGone
<1> QED BY <1>1, OtherTalk

LEMMA StopBridgeTalks == IInv /\ Talks /\ StopBridge => Talks'
<1> SUFFICES ASSUME Talks, StopBridge, NEW d \in Clients
             PROVE  Talk(asked'[d], inbox'[d], got'[d], pc'[d], cur'[d], d \notin gone')
  BY DEF Talks
<1>1. UNCHANGED <<asked, inbox, got, pc, cur>> /\ (pc[d] # "off" => d \in gone')
  BY DEF StopBridge
<1>2. CASE pc[d] = "off"
  BY <1>1, <1>2 DEF Talk
<1>3. CASE pc[d] # "off"
  BY <1>1, <1>3, OtherTalk
<1> QED BY <1>2, <1>3

LEMMA TakeTalks == ASSUME NEW c \in Clients PROVE IInv /\ Talks /\ Take(c) => Talks'
<1> SUFFICES ASSUME IInv, Talks, Take(c), NEW d \in Clients
             PROVE  Talk(asked'[d], inbox'[d], got'[d], pc'[d], cur'[d], d \notin gone')
  BY DEF Talks
<1>1. UNCHANGED <<asked, got, gone>> /\ cur' \in [Clients -> Message]
  <2>1. TypeOK'
    BY TakeInv DEF IInv
  <2> QED BY <2>1 DEF Take, TypeOK
<1>2. /\ pc[c] = "idle" /\ inbox[c] # <<>>
      /\ pc' = [pc EXCEPT ![c] = After(Head(inbox[c]))]
      /\ inbox' = [inbox EXCEPT ![c] = Tail(inbox[c])]
      /\ cur' = IF Head(inbox[c]).kind \in Broken THEN cur
                ELSE [cur EXCEPT ![c] = [to |-> Head(inbox[c]).n, as |-> Answer(Head(inbox[c]).kind)]]
  BY DEF Take
<1>3. CASE d = c
  <2>1. /\ pc'[d] = After(Head(inbox[d])) /\ inbox'[d] = Tail(inbox[d])
        /\ Head(inbox[d]).kind \notin Broken =>
             cur'[d] = [to |-> Head(inbox[d]).n, as |-> Answer(Head(inbox[d]).kind)]
    BY <1>2, <1>3 DEF IInv, TypeOK
  <2>2. Talk(asked[d], inbox[d], got[d], pc[d], cur[d], d \notin gone)
    BY DEF Talks
  <2>3. Talk(asked[d], inbox[d], got[d], "idle", cur[d], d \notin gone)
    BY <1>2, <1>3, <2>2
  <2>4. cur'[d] \in Message /\ inbox[d] # <<>>
    BY <1>1, <1>2, <1>3
  <2>5. Talk(asked[d], Tail(inbox[d]), got[d], After(Head(inbox[d])), cur'[d], d \notin gone)
    BY <2>1, <2>3, <2>4, TalkTypes, TalkTakes DEF IInv
  <2> QED BY <1>1, <2>1, <2>5
<1>4. CASE d # c
  <2>1. inbox'[d] = inbox[d] /\ pc'[d] = pc[d] /\ cur'[d] = cur[d]
    BY <1>2, <1>4 DEF IInv, TypeOK
  <2> QED BY <1>1, <2>1, OtherTalk
<1> QED BY <1>3, <1>4

LEMMA SendReplyTalks == ASSUME NEW c \in Clients PROVE IInv /\ Talks /\ SendReply(c) => Talks'
<1> SUFFICES ASSUME IInv, Talks, SendReply(c), NEW d \in Clients
             PROVE  Talk(asked'[d], inbox'[d], got'[d], pc'[d], cur'[d], d \notin gone')
  BY DEF Talks
<1>1. UNCHANGED <<asked, inbox, cur, gone>>
  BY DEF SendReply, client
<1>2. CASE d = c
  <2>1. /\ \/ pc[d] \in {"reply", "error"} /\ pc'[d] = "idle"
           \/ pc[d] = "reply_id" /\ pc'[d] = "connected"
        /\ got'[d] = IF d \notin gone 
                     THEN Append(got[d], [to |-> cur[d].to, as |-> cur[d].as]) ELSE got[d]
    BY <1>2 DEF IInv, TypeOK, SendReply, At, Receive
  <2>2. Talk(asked[d], inbox[d], got[d], pc[d], cur[d], d \notin gone)
    BY DEF Talks
  <2>3. Talk(asked[d], inbox[d], got'[d], pc'[d], cur[d], d \notin gone)
    BY <2>1, <2>2, TalkTypes, TalkReplies DEF IInv
  <2> QED BY <1>1, <2>3
<1>3. CASE d # c
  <2>1. got'[d] = got[d] /\ pc'[d] = pc[d]
    BY <1>3 DEF IInv, TypeOK, SendReply, At, Receive
  <2> QED BY <1>1, <2>1, OtherTalk
<1> QED BY <1>2, <1>3

LEMMA SendReadyTalks == ASSUME NEW c \in Clients PROVE IInv /\ Talks /\ SendReady(c) => Talks'
<1> SUFFICES ASSUME IInv, Talks, SendReady(c), NEW d \in Clients
             PROVE  Talk(asked'[d], inbox'[d], got'[d], pc'[d], cur'[d], d \notin gone')
  BY DEF Talks
<1>1. UNCHANGED <<asked, inbox, cur, gone>>
  BY DEF SendReady, client
<1>2. CASE d = c
  <2>1. PICK as \in Notices :
          /\ \/ pc[d] = "connected" /\ pc'[d] = "ready" /\ as = "klippy_connected"
             \/ pc[d] = "ready" /\ pc'[d] = "idle" /\ as = "klippy_ready"
          /\ got'[d] = IF d \notin gone THEN Append(got[d], [to |-> cur[d].to, as |-> as])
                       ELSE got[d]
    BY <1>2 DEF IInv, TypeOK, SendReady, At, Receive, Notices
  <2>2. Talk(asked[d], inbox[d], got[d], pc[d], cur[d], d \notin gone)
    BY DEF Talks
  <2>3. Talk(asked[d], inbox[d], got'[d], pc'[d], cur[d], d \notin gone)
    BY <2>1, <2>2, TalkTypes, TalkNotifies DEF IInv
  <2> QED BY <1>1, <2>3
<1>3. CASE d # c
  <2>1. got'[d] = got[d] /\ pc'[d] = pc[d]
    BY <1>3 DEF IInv, TypeOK, SendReady, At, Receive
  <2> QED BY <1>1, <2>1, OtherTalk
<1> QED BY <1>2, <1>3

LEMMA SendFailsTalks == ASSUME NEW c \in Clients PROVE IInv /\ Talks /\ SendFails(c) => Talks'
<1> SUFFICES ASSUME IInv, Talks, SendFails(c), NEW d \in Clients
             PROVE  Talk(asked'[d], inbox'[d], got'[d], pc'[d], cur'[d], d \notin gone')
  BY DEF Talks
<1>1. UNCHANGED <<asked, inbox, got, gone>> /\ c \in gone
  BY DEF SendFails, client
<1>2. cur' = [cur EXCEPT ![c] = [cur[c] EXCEPT !.as = "error"]] /\ cur \in [Clients -> Message]
  BY DEF IInv, TypeOK, SendFails
<1>3. CASE d = c
  <2>1. \/ pc[d] \in {"reply", "reply_id"} /\ pc'[d] = "error"
        \/ pc[d] = "error" /\ pc'[d] = "leave"
        \/ pc[d] \in {"connected", "ready"} /\ pc'[d] = "idle"
    BY <1>3 DEF IInv, TypeOK, SendFails, At
  <2>2. cur'[d] \in Message /\ cur'[d].to = cur[d].to /\ cur'[d].as = "error"
    <3>1. cur'[d] = [cur[d] EXCEPT !.as = "error"] /\ cur[d] \in Message
      BY <1>2, <1>3
    <3> QED BY <3>1 DEF Message, Replies
  <2>3. Talk(asked[d], inbox[d], got[d], pc[d], cur[d], d \notin gone)
    BY DEF Talks
  <2>4. (d \notin gone) = FALSE
    BY <1>1, <1>3
  <2>5. Talk(asked[d], inbox[d], got[d], pc[d], cur[d], FALSE)
    BY <2>3, TalkGone
  <2>6. Talk(asked[d], inbox[d], got[d], pc'[d], cur'[d], FALSE)
    BY <2>1, <2>2, <2>5, TalkTypes, TalkFails DEF IInv
  <2> QED BY <1>1, <2>4, <2>6
<1>4. CASE d # c
  <2>1. cur'[d] = cur[d] /\ pc'[d] = pc[d]
    BY <1>2, <1>4 DEF IInv, TypeOK, SendFails, At
  <2> QED BY <1>1, <2>1, OtherTalk
<1> QED BY <1>3, <1>4

LEMMA LeaveTalks == ASSUME NEW c \in Clients PROVE IInv /\ Talks /\ Leave(c) => Talks'
<1> SUFFICES ASSUME IInv, Talks, Leave(c), NEW d \in Clients
             PROVE  Talk(asked'[d], inbox'[d], got'[d], pc'[d], cur'[d], d \notin gone')
  BY DEF Talks
<1>1. UNCHANGED <<asked, inbox, cur, got, gone>>
  BY DEF Leave, client
<1>2. CASE d = c
  <2>1. pc'[d] = "off"
    BY <1>2 DEF IInv, TypeOK, Leave, At
  <2> QED BY <2>1 DEF Talk
<1>3. CASE d # c
  <2>1. pc'[d] = pc[d]
    BY <1>3 DEF IInv, TypeOK, Leave, At
  <2> QED BY <1>1, <2>1, OtherTalk
<1> QED BY <1>2, <1>3

LEMMA InitTalks == Init => Talks
BY DEF Init, Talks, Talk

LEMMA StepTalks == IInv /\ Talks /\ [Next]_vars => Talks'
<1> SUFFICES ASSUME IInv, Talks, [Next]_vars PROVE Talks'
  OBVIOUS
<1>1. CASE UNCHANGED vars
  BY <1>1 DEF Talks, vars, client, handler
<1>2. ASSUME NEW kind, Rest(kind) PROVE Talks'
  BY <1>2 DEF Talks, Rest, client
<1>3. CASE Next
  BY <1>2, <1>3, OpenTalks, ClientSendsTalks, ClientGoneTalks, StopBridgeTalks, TakeTalks,
     SendReplyTalks, SendReadyTalks, SendFailsTalks, LeaveTalks DEF Next, Handle
<1> QED BY <1>1, <1>3

LEMMA TalkInvariant == Spec => [](IInv /\ Talks)
<1>1. Init => IInv /\ Talks
  BY InitInv, InitTalks
<1>2. IInv /\ Talks /\ [Next]_vars => IInv' /\ Talks'
  BY StepInv, StepTalks
<1> QED BY <1>1, <1>2, PTL DEF Spec

(* However requests are pipelined, a client gets one reply for each request  *)
(* with an id, in their order and with no gap, all of them while it is there *)
(* and its handler waits; and the notices of an identify right after it.     *)
THEOREM RepliesComeInOrder == Spec => []RepliesInOrder
<1>1. IInv /\ Talks => RepliesInOrder
  <2> SUFFICES ASSUME IInv, Talks, NEW c \in Clients, pc[c] # "off"
               PROVE  /\ \A k \in DOMAIN got[c] : got[c][k].as \in Replies =>
                           /\ Asks(c, got[c][k].to)
                           /\ \A n \in 1 .. got[c][k].to - 1 : Asks(c, n) => Replied(c, n)
                      /\ \A k, l \in DOMAIN got[c] :
                           k < l /\ got[c][k].as \in Replies /\ got[c][l].as \in Replies
                             => got[c][k].to < got[c][l].to
                      /\ pc[c] = "idle" /\ inbox[c] = <<>> /\ c \notin gone =>
                           \A n \in 1 .. count : Asks(c, n) => Replied(c, n)
                      /\ \A i \in DOMAIN got[c] :
                           /\ got[c][i].as = "klippy_connected" =>
                                /\ i > 1
                                /\ \E kind \in Identifies :
                                     /\ [n |-> got[c][i].to, id |-> TRUE, kind |-> kind] \in Range(asked[c])
                                     /\ got[c][i-1] = [to |-> got[c][i].to, as |-> Answer(kind)]
                           /\ got[c][i].as = "klippy_ready" =>
                                i > 1 /\ got[c][i-1] = [to |-> got[c][i].to, as |-> "klippy_connected"]
    BY DEF RepliesInOrder
  <2> DEFINE d == Done(asked[c], inbox[c], pc[c])
  <2>1. /\ asked[c] \in Seq(Request) /\ inbox[c] \in Seq(Request) /\ got[c] \in Seq(Message)
    BY TalkTypes DEF IInv
  <2>2. /\ TakesTurns(asked[c], inbox[c], pc[c], cur[c])
        /\ InOrder(asked[c], got[c], d, c \notin gone)
        /\ Noticed(asked[c], got[c], pc[c], cur[c], c \notin gone)
    BY DEF Talks, Talk
  <2>3. /\ d \in 0 .. Len(asked[c]) /\ DOMAIN asked[c] = 1 .. Len(asked[c])
        /\ Len(asked[c]) \in Nat
        /\ d = IF pc[c] \in Answering THEN TakenUp(asked[c], inbox[c]) - 1
               ELSE TakenUp(asked[c], inbox[c])
    BY <2>1, <2>2, DoneFacts
  <2>4. \A n : Has(got[c], n) <=> Replied(c, n)
    BY DEF Has, Replied
  <2>5. \A k \in DOMAIN got[c] : got[c][k].as \in Replies => Asks(c, got[c][k].to)
    <3>1. \A j \in 1 .. d : j \in DOMAIN asked[c]
      BY <2>3
    <3> QED BY <2>2, <3>1 DEF InOrder, Asks
  <2>6. ASSUME NEW k \in DOMAIN got[c], got[c][k].as \in Replies,
               NEW n \in 1 .. got[c][k].to - 1, Asks(c, n)
        PROVE  Replied(c, n)
    <3>1. PICK j \in DOMAIN asked[c] : asked[c][j].n = n /\ asked[c][j].id
      BY <2>6 DEF Asks
    <3>2. n < got[c][k].to
      BY <2>6, NumbersAreNat DEF IInv
    <3> QED BY <2>2, <2>4, <2>6, <3>1, <3>2 DEF InOrder
  <2>7. ASSUME pc[c] = "idle", inbox[c] = <<>>, c \notin gone, NEW n, Asks(c, n)
        PROVE  Replied(c, n)
    <3>1. PICK j \in DOMAIN asked[c] : asked[c][j].n = n /\ asked[c][j].id
      BY <2>7 DEF Asks
    <3>2. d = Len(asked[c])
      BY <2>3, <2>7 DEF Answering, TakenUp
    <3>3. j \in 1 .. d
      BY <2>3, <3>2
    <3> QED BY <2>2, <2>4, <2>7, <3>1, <3>3 DEF InOrder
  <2>8. \A k, l \in DOMAIN got[c] :
          k < l /\ got[c][k].as \in Replies /\ got[c][l].as \in Replies
            => got[c][k].to < got[c][l].to
    BY <2>2 DEF InOrder
  <2> QED BY <2>2, <2>5, <2>6, <2>7, <2>8 DEF Noticed, Introduced
<1> QED BY <1>1, TalkInvariant, PTL
=============================================================================
