-------------------------------- MODULE Credit --------------------------------
(***************************************************************************)
(* The card of /device with the name a phone is credited under             *)
(* (web/components/device/CreditCard.tsx): it is loaded every two minutes, *)
(* saved and removed, while the operator may hide it, and every answer is  *)
(* shown when it comes.                                                    *)
(***************************************************************************)
EXTENDS Naturals

CONSTANTS
  Names,  \* names that are typed
  Asks,   \* bound: requests under way at once
  Edits   \* bound: what the user and the operator do, and faults

\* Assumed of the constants by whoever instantiates the module.
CreditAssumption == {Asks, Edits} \subseteq Nat

VARIABLES
  card,    \* the component; its name is "unknown" until it is loaded
  asked,   \* the requests: for what, and what the server answered
  credit,  \* the server: the name, and is it hidden
  edits    \* what is left of Edits

vars == <<card, asked, credit, edits>>

Slots    == 1..Asks
NoAsk    == [kind |-> "free", name |-> "none", hidden |-> FALSE, served |-> FALSE]
NoCredit == [name |-> "none", hidden |-> FALSE]
Edit     == edits > 0 /\ edits' = edits - 1
Loaded   == card.name # "unknown"

\* The form is shown for who edits, has no name, or has one that is hidden.
ShowForm == Loaded /\ (card.editing \/ card.name = "none" \/ card.hidden)

\* The certificate bears the name that is shown; it is offered unless that is hidden.
DrawCertificate(c) == c.name
Certificate == IF card.name \in Names /\ ~card.hidden THEN DrawCertificate(card) ELSE "none"

Send(i, kind, n) ==
  /\ asked[i] = NoAsk /\ \A j \in Slots : asked[j] = NoAsk => i <= j
  /\ asked' = [asked EXCEPT ![i].kind = kind, ![i].name = n]

MutantLoad(i) ==
  /\ card.name = "unknown"
  /\ Send(i, "load", "none")
  /\ UNCHANGED <<card, credit, edits>>

\* load, on arrival and every two minutes, whatever else is under way.
Load(i) ==
  /\ Send(i, "load", "none")
  /\ UNCHANGED <<card, credit, edits>>

StartEdit ==
  /\ Loaded /\ ~ShowForm
  /\ card' = [card EXCEPT !.editing = TRUE]
  /\ Edit
  /\ UNCHANGED <<asked, credit>>

\* save, by the form, which waits for the last, or by the button that removes the name.
Save(i, n) ==
  /\ \/ n # "none" /\ ShowForm /\ ~card.busy
     \/ n = "none" /\ card.editing /\ card.name \notin {"none", "unknown"}
  /\ Edit
  /\ Send(i, "save", n)
  /\ card' = [card EXCEPT !.busy = TRUE, !.err = FALSE]
  /\ UNCHANGED credit

\* handleMyCredit of the server: it saves what is to be saved, then reads what there is.  The
\* name of a row is replaced and stays hidden; to remove the name is to remove the row.
Saved(i) ==
  /\ asked[i].kind = "save"
  /\ asked' = [asked EXCEPT ![i].kind = "saved"]
  /\ credit' = IF asked[i].name = "none" THEN NoCredit ELSE [credit EXCEPT !.name = asked[i].name]
  /\ UNCHANGED <<card, edits>>

Read(i) ==
  /\ asked[i].kind \in {"load", "saved"} /\ ~asked[i].served
  /\ asked' = [asked EXCEPT ![i].name = credit.name, ![i].hidden = credit.hidden, ![i].served = TRUE]
  /\ UNCHANGED <<card, credit, edits>>

Answered(i) ==
  /\ asked[i].served
  /\ asked' = [asked EXCEPT ![i] = NoAsk]
  /\ card' = IF asked[i].kind = "load"
             THEN [card EXCEPT !.name = asked[i].name, !.hidden = asked[i].hidden]
             ELSE [card EXCEPT !.name = asked[i].name, !.hidden = asked[i].hidden,
                               !.editing = FALSE, !.busy = FALSE]
  /\ UNCHANGED <<credit, edits>>

\* A load that fails is not noticed; a save that fails, or is refused, shows its error.
Fails(i) ==
  /\ asked[i].kind # "free"
  /\ Edit
  /\ asked' = [asked EXCEPT ![i] = NoAsk]
  /\ card' = IF asked[i].kind = "load" THEN card ELSE [card EXCEPT !.err = TRUE, !.busy = FALSE]
  /\ UNCHANGED credit

\* The operator hides the name, or shows it again (/admin/research).
Hide ==
  /\ Edit
  /\ credit.name # "none"
  /\ credit' = [credit EXCEPT !.hidden = ~@]
  /\ UNCHANGED <<card, asked>>

Init ==
  /\ card = [name |-> "unknown", hidden |-> FALSE, editing |-> FALSE, busy |-> FALSE, err |-> FALSE]
  /\ asked = [i \in Slots |-> NoAsk] /\ edits = Edits
  /\ credit = NoCredit

Next ==
  \/ \E i \in Slots : Load(i) \/ Saved(i) \/ Read(i) \/ Answered(i) \/ Fails(i)
  \/ \E i \in Slots, n \in Names \cup {"none"} : Save(i, n)
  \/ StartEdit \/ Hide

Spec == Init /\ [][Next]_vars

TypeOK ==
  /\ card \in [name : Names \cup {"none", "unknown"}, hidden : BOOLEAN, editing : BOOLEAN,
               busy : BOOLEAN, err : BOOLEAN]
  /\ asked \in [Slots -> [kind : {"free", "load", "save", "saved"}, name : Names \cup {"none"},
                          hidden : BOOLEAN, served : BOOLEAN]]
  /\ credit \in [name : Names \cup {"none"}, hidden : BOOLEAN] /\ edits \in 0..Edits

\* The card shows the name the server has, and that it is hidden, and offers no certificate
\* for a hidden one: whatever order answers come in, also those of a load that was under way
\* when the name was saved, it comes to this (load, save).
Shows ==
  /\ card.name = credit.name /\ card.hidden = credit.hidden
  /\ Certificate = IF credit.hidden THEN "none" ELSE credit.name
===============================================================================
