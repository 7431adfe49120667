------------------------------- MODULE Research -------------------------------
(***************************************************************************)
(* The organiser's view of the study, web/app/admin/research/page.tsx, and *)
(* the routes it asks: those of the website, which keep the survey         *)
(* (web/app/api/admin, web/lib/research/store.ts), and those of the server *)
(* of the network, which has a copy of the survey, the nights and the      *)
(* names.                                                                  *)
(***************************************************************************)
EXTENDS Naturals

CONSTANTS
  Codes,  \* class codes that are typed
  Loads,  \* bound: loads under way at once
  Moves   \* bound: what the organiser does, and how often a server goes or comes

\* Assumed of the constants by whoever instantiates the module.
ResearchAssumption == {Loads, Moves} \subseteq Nat

VARIABLES
  token,  \* the one in use: "none", "good" or "bad"
  code,   \* the class that is typed
  shown,  \* what was loaded: survey and volunteers, nights and names, an error
  loads,  \* the loads under way: the token and class they are for, the next request
  up,     \* are the website's storage and the server up
  names,  \* the server: is the name hidden
  moves   \* what is left of Moves

vars == <<token, code, shown, loads, up, names, moves>>

Slots  == 1..Loads
NoLoad == [stage |-> "none", token |-> "none", code |-> "none"]
Move   == moves > 0 /\ moves' = moves - 1
Blank  == [survey |-> "none", vols |-> "none", nights |-> "none", people |-> "none", err |-> FALSE]

\* isAdmin of the website, and the same check of the server.
IsAdmin(t) == t = "good"

\* The survey is asked for first: "it loads even when the network server is off".
MutantFirst == "nights"
First       == "survey"

Begin(ls, t, c) ==
  IF t = "none" THEN loads' = ls
  ELSE \E i \in Slots : /\ ls[i] = NoLoad /\ \A j \in Slots : ls[j] = NoLoad => i <= j
                        /\ loads' = [ls EXCEPT ![i] = [stage |-> First, token |-> t, code |-> c]]

\* The form of who has no token, and the tab's storage.
SignIn(t) ==
  /\ token = "none" /\ Move
  /\ token' = t
  /\ Begin(loads, t, code)
  /\ UNCHANGED <<code, shown, up, names>>

TypeClass(c) ==
  /\ token # "none" /\ c # code /\ Move
  /\ code' = c
  /\ Begin(loads, token, c)
  /\ UNCHANGED <<token, shown, up, names>>

\* Every five minutes.
Poll ==
  /\ token # "none"
  /\ Begin(loads, token, code)
  /\ UNCHANGED <<token, code, shown, up, names, moves>>

Loading == UNCHANGED <<code, up, names, moves>>

To(i, stage) == loads' = [loads EXCEPT ![i].stage = stage]
End(i)       == loads' = [loads EXCEPT ![i] = NoLoad]

\* The website's storage gives all its rows or, when it or the website is down, an error.
AllSurveys    == IF up.site THEN "rows" ELSE "error"
AllVolunteers == IF up.site THEN "rows" ELSE "error"

\* Its routes ask for the token first, if they are reached.
SurveyRoute(t)     == IF IsAdmin(t) THEN {AllSurveys} ELSE {"refused"} \cup ({AllSurveys} \ {"rows"})
VolunteersRoute(t) == IF IsAdmin(t) THEN {AllVolunteers} ELSE {"refused"} \cup ({AllVolunteers} \ {"rows"})

\* The website's answer to a load's request; what it cannot give is asked of the server.
Surveys(i) ==
  /\ loads[i].stage = "survey" /\ Loading
  /\ \E answer \in SurveyRoute(loads[i].token) :
       \/ answer = "error" /\ To(i, "copied survey") /\ UNCHANGED <<token, shown>>
       \/ /\ answer = "rows"
          /\ shown' = [shown EXCEPT !.survey = "site"]
          /\ To(i, "volunteers") /\ UNCHANGED token
       \/ /\ answer = "refused"
          /\ token' = "none" /\ shown' = [shown EXCEPT !.err = TRUE]
          /\ End(i)

Volunteers(i) ==
  /\ loads[i].stage = "volunteers" /\ Loading /\ UNCHANGED token
  /\ \E answer \in VolunteersRoute(loads[i].token) :
       /\ shown' = IF answer = "rows" THEN [shown EXCEPT !.vols = "site"] ELSE shown
       /\ To(i, IF answer = "rows" THEN "nights" ELSE "copied survey")

CopiedSurvey(i) ==
  /\ loads[i].stage = "copied survey" /\ Loading /\ UNCHANGED token
  /\ shown' = IF up.server /\ IsAdmin(loads[i].token) THEN [shown EXCEPT !.survey = "server"] ELSE shown
  /\ To(i, IF up.server THEN "copied volunteers" ELSE "nights")

CopiedVolunteers(i) ==
  /\ loads[i].stage = "copied volunteers" /\ Loading /\ UNCHANGED token
  /\ shown' = IF up.server /\ IsAdmin(loads[i].token) THEN [shown EXCEPT !.vols = "server"] ELSE shown
  /\ To(i, "nights")

Nights(i) ==
  /\ loads[i].stage = "nights" /\ Loading
  /\ \/ /\ up.server /\ IsAdmin(loads[i].token)
        /\ shown' = [shown EXCEPT !.nights = loads[i].code]
        /\ To(i, "people") /\ UNCHANGED token
     \/ /\ ~(up.server /\ IsAdmin(loads[i].token))
        /\ shown' = [shown EXCEPT !.err = TRUE]
        /\ token' = IF up.server THEN "none" ELSE token
        /\ End(i)

People(i) ==
  /\ loads[i].stage = "people" /\ Loading /\ UNCHANGED token
  /\ shown' = IF up.server THEN [shown EXCEPT !.people = names, !.err = FALSE]
              ELSE [shown EXCEPT !.err = TRUE]
  /\ End(i)

\* The names, with a button each, are shown below the nights, once these are loaded.
PeopleBlock == IF token = "none" \/ shown.nights = "none" THEN "none" ELSE shown.people

\* The sentence to be copied thanks those who are listed by name.
Acknowledged == IF PeopleBlock = "listed" THEN "by name" ELSE "anonymously"

\* hide, or show again, a name; then all is loaded anew.
HideName ==
  /\ PeopleBlock # "none" /\ Move
  /\ names' = IF up.server /\ IsAdmin(token)
              THEN IF shown.people = "hidden" THEN "listed" ELSE "hidden"
              ELSE names
  /\ IF up.server THEN Begin(loads, token, code) ELSE UNCHANGED loads
  /\ UNCHANGED <<token, code, shown, up>>

GoesOrComes ==
  /\ Move
  /\ \/ up' = [up EXCEPT !.site = ~@]
     \/ up' = [up EXCEPT !.server = ~@]
  /\ UNCHANGED <<token, code, shown, loads, names>>

(***************************************************************************)
(* The screen.                                                             *)
(***************************************************************************)
\* The responses, and their CSV, and the volunteers.
SurveyBlock == [responses |-> shown.survey, volunteers |-> shown.vols]

\* The phone-nights that were loaded; their file is named after the class that is typed.  The
\* choice of one night is left out.
CsvRows   == shown.nights
RowsBlock == [rows |-> CsvRows, file |-> code]

NoSurvey == [responses |-> "none", volunteers |-> "none"]

\* The nights and names are there when they were loaded, the survey always, and the heading
\* has the class that was loaded, or that is to be.
Screen ==
  [survey |-> IF token = "none" THEN NoSurvey ELSE SurveyBlock,
   class  |-> IF token = "none" THEN "none" ELSE IF shown.nights = "none" THEN code ELSE shown.nights]

(***************************************************************************)
(* The specification.                                                      *)
(***************************************************************************)
Init ==
  /\ token = "none" /\ code \in Codes /\ shown = Blank /\ loads = [i \in Slots |-> NoLoad]
  /\ up \in [site : BOOLEAN, server : BOOLEAN] /\ names = "listed" /\ moves = Moves

Answer(i) == Surveys(i) \/ Volunteers(i) \/ CopiedSurvey(i) \/ CopiedVolunteers(i)
             \/ Nights(i) \/ People(i)

Next ==
  \/ \E t \in {"good", "bad"} : SignIn(t)
  \/ \E c \in Codes : TypeClass(c)
  \/ \E i \in Slots : Answer(i)
  \/ Poll \/ HideName \/ GoesOrComes

Spec == Init /\ [][Next]_vars

TypeOK ==
  /\ token \in {"none", "good", "bad"} /\ code \in Codes /\ moves \in 0..Moves
  /\ shown \in [survey : {"none", "site", "server"}, vols : {"none", "site", "server"},
                nights : Codes \cup {"none"}, people : {"none", "listed", "hidden"}, err : BOOLEAN]
  /\ loads \in [Slots -> [stage : {"none", "survey", "volunteers", "copied survey",
                                   "copied volunteers", "nights", "people"},
                          token : {"none", "good", "bad"}, code : Codes \cup {"none"}]]
  /\ up \in [site : BOOLEAN, server : BOOLEAN] /\ names \in {"listed", "hidden"}

\* "The survey lives on the website itself, so it loads even when the network server (the
\* laptop) is off": who is signed in, while the website answers, comes to see its survey.
SurveyLoaded == up.site /\ token = "good" => Screen.survey.responses = "site"

\* The nights come to be those of the class that is typed, and so does their file; the names
\* come to be thanked as they are listed, if the server answers.
ClassShown ==
  up.server /\ token = "good" =>
    /\ Screen.class = code /\ RowsBlock.rows = RowsBlock.file
    /\ Acknowledged = IF names = "listed" THEN "by name" ELSE "anonymously"
===============================================================================
