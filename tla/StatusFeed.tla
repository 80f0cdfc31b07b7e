----------------------------- MODULE StatusFeed -----------------------------
(***************************************************************************)
(* What a client of the bridge may rely on: from the moment it joins it is *)
(* notified of every status the bridge publishes, each once and in the     *)
(* order of publication.                                                   *)
(***************************************************************************)
EXTENDS Naturals, Sequences

CONSTANTS Clients, Statuses, None

VARIABLES
  published,  \* the statuses published, oldest first
  pos,        \* pos[c]: how many of them c is past; None while c is away
  shown       \* shown[c]: the status c was notified of last, if any

Init ==
  /\ published = <<>>
  /\ pos = [c \in Clients |-> None]
  /\ shown = [c \in Clients |-> None]

Publish ==
  /\ \E s \in Statuses : published' = Append(published, s)
  /\ UNCHANGED <<pos, shown>>

Join(c) ==
  /\ pos[c] = None
  /\ pos' = [pos EXCEPT ![c] = Len(published)]
  /\ UNCHANGED <<published, shown>>

Notify(c) ==
  /\ pos[c] # None
  /\ pos[c] < Len(published)
  /\ pos' = [pos EXCEPT ![c] = pos[c] + 1]
  /\ shown' = [shown EXCEPT ![c] = published[pos[c] + 1]]
  /\ UNCHANGED published

(* any number of clients leave: one closes its socket, or the bridge stops *)
Leave ==
  \E gone \in SUBSET Clients :
    /\ pos' = [c \in Clients |-> IF c \in gone THEN None ELSE pos[c]]
    /\ shown' = [c \in Clients |-> IF c \in gone THEN None ELSE shown[c]]
    /\ UNCHANGED published

Next == Publish \/ Leave \/ \E c \in Clients : Join(c) \/ Notify(c)

Spec == Init /\ [][Next]_<<published, pos, shown>>
=============================================================================
