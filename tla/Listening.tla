------------------------------- MODULE Listening -------------------------------
(***************************************************************************)
(* What a phone's processor (internal/station) promises to the network: it *)
(* says whether its phone is an eligible sensor, announces numbered picks  *)
(* one at a time, and ends each of them.  A pick that is under way belongs *)
(* to a phone that is said to be eligible.                                 *)
(***************************************************************************)
EXTENDS Naturals

VARIABLES
  eligible, \* what the last status said
  open,     \* the pick that was announced and has not ended, or 0
  seq       \* the number of the last pick

vars == <<eligible, open, seq>>

Init == eligible = FALSE /\ open = 0 /\ seq = 0

\* Between picks the phone becomes a sensor, or stops being one.
Turn ==
  /\ open = 0
  /\ eligible' = ~eligible
  /\ UNCHANGED <<open, seq>>

Announce ==
  /\ eligible /\ open = 0
  /\ seq' = seq + 1 /\ open' = seq'
  /\ UNCHANGED eligible

\* A pick of a phone that was moved is announced and ended at once.
AnnounceMoved ==
  /\ eligible /\ open = 0
  /\ seq' = seq + 1
  /\ eligible' = FALSE
  /\ UNCHANGED open

\* The motion is over, or the stream broke, or the phone was moved meanwhile.
End ==
  /\ open # 0 /\ open' = 0
  /\ eligible' \in BOOLEAN
  /\ UNCHANGED seq

Next == Turn \/ Announce \/ AnnounceMoved \/ End

Spec == Init /\ [][Next]_vars
===============================================================================
