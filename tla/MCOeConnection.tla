--------------------------- MODULE MCOeConnection ---------------------------
(***************************************************************************)
(* An instance of OeConnection, with two keys the cloud may give, and one  *)
(* of OeWire on strings of up to two cells.  They share no variable, so a  *)
(* behaviour exercises the one or the other, as its first state says.      *)
(***************************************************************************)
EXTENDS OeConnection, OeWire

MCKeys == {"k1", "k2"}

MCStrings == {<<>>, <<5>>, <<3, 0>>}
MCFewer == {<<>>, <<3, 0>>}
MCNumbers == {0, 1}
MCExtra == {0, 2}
MCWebcamUrl == <<11>>
MCContentType == <<12>>
MCContentLength == <<13>>
MCConnection == <<14>>
MCJson == <<11>>
MCClose == <<12>>

VARIABLE part

MCInit == Init /\ WireInit /\ part \in {"session", "wire"}

SessionStep == part = "session" /\ Next /\ UNCHANGED <<part, wireVars>>
WireStep    == part = "wire" /\ WireNext /\ UNCHANGED <<part, vars>>

MCSpec ==
  /\ MCInit /\ [][SessionStep \/ WireStep]_<<part, vars, wireVars>>
  /\ WF_vars(part = "session" /\ RunThread)
=============================================================================
