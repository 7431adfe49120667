---------------------------------- MODULE How ----------------------------------
(***************************************************************************)
(* The page that explains how the network works (web/app/how/page.tsx):    *)
(* one stage on which its three scenes follow each other.  The step that   *)
(* is selected and the one on the stage differ while the stage fades out.  *)
(*                                                                         *)
(* React runs an effect after the event that changed what it depends on,   *)
(* before the next event: both are one action.                             *)
(***************************************************************************)
EXTENDS Integers

CONSTANTS
  Steps,     \* STEPS.length
  Opened,    \* what ?s= may say when the page is opened, 0 if nothing
  Selections \* bound: how often the reader selects a step

\* Assumed of the constants by whoever instantiates the module.
HowAssumption == Steps \in Nat \ {0} /\ Opened \subseteq Nat /\ Selections \in Nat

VARIABLES
  s,        \* the selected step
  dir,      \* the direction it slides in from
  view,     \* the step on the stage
  leaving,  \* the stage is faded out: data-out
  timer,    \* is the timeout that changes the stage pending
  url,      \* ?s= of the address
  left      \* what is left of Selections

vars == <<s, dir, view, leaving, timer, url, left>>

MutantStepOf(u) == IF u >= 1 THEN u - 1 ELSE 0

\* The step that an address opens.
StepOf(u) == IF u \in 1..Steps THEN u - 1 ELSE 0

MutantFade(to) ==
  /\ timer' = (to # view /\ ~leaving)
  /\ leaving' = (leaving \/ to # view)

\* The effect of [s, view]: the pending timeout is cleared, and a new one set if the stage
\* shows another step than the selected one.
Fade(to) ==
  /\ timer' = (to # view)
  /\ leaving' = (leaving \/ to # view)

MutantGo(to) ==
  LET n == to % Steps
  IN  /\ n # s
      /\ dir' = IF to > s THEN 1 ELSE -1
      /\ s' = n /\ url' = to + 1
      /\ Fade(n)

\* go.
Go(to) ==
  LET n == to % Steps
  IN  /\ n # s
      /\ dir' = IF to > s THEN 1 ELSE -1
      /\ s' = n /\ url' = n + 1
      /\ Fade(n)

\* A tab, the buttons beside the stage, and the arrow keys.
Select ==
  /\ left > 0 /\ left' = left - 1
  /\ \E to \in (0..Steps - 1) \cup {s - 1, s + 1} : Go(to)
  /\ UNCHANGED view

\* The timeout: the stage takes the selected step and comes back.
Swap ==
  /\ timer
  /\ timer' = FALSE
  /\ view' = s /\ leaving' = FALSE
  /\ UNCHANGED <<s, dir, url, left>>

Init ==
  /\ url \in Opened
  /\ s = StepOf(url) /\ view = 0 /\ dir = 1
  /\ leaving = (s # view) /\ timer = (s # view)
  /\ left = Selections

Next == Select \/ Swap

Spec == Init /\ [][Next]_vars /\ WF_vars(Swap)

(***************************************************************************)
(* Properties.                                                             *)
(***************************************************************************)
TypeOK ==
  /\ s \in 0..Steps - 1 /\ view \in 0..Steps - 1 /\ dir \in {-1, 1}
  /\ leaving \in BOOLEAN /\ timer \in BOOLEAN /\ url \in Nat /\ left \in 0..Selections

\* A page that is loaded again, or whose address is passed on, opens the step that was
\* selected (go, and the effect that reads ?s=).
AddressOpensStep == StepOf(url) = s

\* The stage comes to show the selection, however fast the reader goes on (the effect of
\* [s, view] and its clean-up).
StageShown == view = s

\* The comment on view: "Switching again mid-fade just retargets."  A stage that is faded out
\* is about to come back.
ComesBack == leaving => timer
===============================================================================
