-------------------------------- MODULE Network --------------------------------
(***************************************************************************)
(* The drawing of the network (web/components/NetworkGraph.tsx) on its     *)
(* page: a loop of frames that reads the newest areas, runs only while the *)
(* canvas is on the screen, and lets packets travel from the areas to the  *)
(* server.  Live has how the areas come to the page.                       *)
(***************************************************************************)
EXTENDS Naturals

CONSTANTS
  Most,    \* how many areas there may be
  Motion,  \* what prefers-reduced-motion may say
  Changes, \* bound: how often the areas change
  Moves    \* bound: what the reader does

\* Assumed of the constants by whoever instantiates the module.
NetworkAssumption == Most \in Nat /\ Motion \subseteq BOOLEAN /\ Changes \in Nat /\ Moves \in Nat

VARIABLES
  tab,      \* view: field, graph or map
  reduce,   \* prefers-reduced-motion
  data,     \* the areas of the snapshot: how many, and of which version
  drawn,    \* the areas on the canvas
  raf,      \* is a frame requested
  onScreen, \* is the canvas on the screen
  observer, \* visible: what the observer said of that, and has it spoken yet
  packets,  \* the areas from which a packet is under way
  moves     \* what is left of Moves

vars == <<tab, reduce, data, drawn, raf, onScreen, observer, packets, moves>>

Nothing == [version |-> 0, areas |-> 0]
Move    == moves > 0 /\ moves' = moves - 1

\* The effect of the component, on a canvas that shows what it showed.
Mount ==
  /\ raf' = TRUE /\ packets' = {}
  /\ observer' = [visible |-> TRUE, spoke |-> FALSE]

\* Its clean-up.
Unmount ==
  /\ raf' = FALSE /\ packets' = {}
  /\ observer' = [visible |-> FALSE, spoke |-> TRUE]

Tab(v) ==
  /\ Move /\ v # tab
  /\ tab' = v /\ drawn' = Nothing
  /\ IF v = "graph" THEN Mount ELSE Unmount
  /\ UNCHANGED <<reduce, data, onScreen>>

\* The language is changed: the effect of [label, emptyText] runs again.
Language ==
  /\ Move /\ tab = "graph"
  /\ Mount
  /\ UNCHANGED <<tab, reduce, data, drawn, onScreen>>

Scroll ==
  /\ Move
  /\ onScreen' = ~onScreen
  /\ UNCHANGED <<tab, reduce, data, drawn, raf, observer, packets>>

MutantObserve ==
  /\ tab = "graph"
  /\ onScreen # observer.visible \/ ~observer.spoke
  /\ observer' = [visible |-> onScreen, spoke |-> TRUE]
  /\ UNCHANGED <<tab, reduce, data, drawn, onScreen, packets, moves, raf>>

\* The callback of the IntersectionObserver: at first, and when what it said is no longer so.
Observe ==
  /\ tab = "graph"
  /\ onScreen # observer.visible \/ ~observer.spoke
  /\ observer' = [visible |-> onScreen, spoke |-> TRUE]
  /\ raf' = (raf \/ onScreen)
  /\ UNCHANGED <<tab, reduce, data, drawn, onScreen, packets, moves>>

MutantLaunched(n) == SUBSET (0..n)

\* From which areas packets may start in a frame.
Launched(n) == SUBSET (1..n)

MutantFlying(all, n) == SUBSET all

\* What the packets under way may become: some arrive, and those of an area that is gone go.
Flying(all, n) == SUBSET {a \in all : a <= n}

\* frame.
Frame ==
  /\ raf
  /\ drawn' = data
  /\ IF reduce THEN packets' = packets
     ELSE \E new \in Launched(data.areas) : packets' \in Flying(packets \cup new, data.areas)
  /\ raf' = (observer.visible /\ ~reduce)
  /\ UNCHANGED <<tab, reduce, data, onScreen, observer, moves>>

\* A snapshot arrives: data.current.
Arrives(n) ==
  /\ data.version < Changes
  /\ data' = [version |-> data.version + 1, areas |-> n]
  /\ UNCHANGED <<tab, reduce, drawn, raf, onScreen, observer, packets, moves>>

Init ==
  /\ tab = "field" /\ reduce \in Motion
  /\ data = Nothing /\ drawn = Nothing
  /\ raf = FALSE /\ onScreen = TRUE
  /\ observer = [visible |-> FALSE, spoke |-> TRUE]
  /\ packets = {} /\ moves = Moves

Next ==
  \/ \E v \in {"field", "graph", "map"} : Tab(v)
  \/ Language \/ Scroll \/ Observe \/ Frame
  \/ \E n \in 0..Most : Arrives(n)

Spec == Init /\ [][Next]_vars /\ WF_vars(Observe) /\ WF_vars(Frame)

(***************************************************************************)
(* Properties.                                                             *)
(***************************************************************************)
TypeOK ==
  /\ tab \in {"field", "graph", "map"} /\ reduce \in BOOLEAN
  /\ {data, drawn} \subseteq [version : 0..Changes, areas : 0..Most]
  /\ raf \in BOOLEAN /\ onScreen \in BOOLEAN
  /\ observer \in [visible : BOOLEAN, spoke : BOOLEAN]
  /\ packets \subseteq 1..Most /\ moves \in 0..Moves

\* A packet is drawn on the way from an area of the picture, also when areas went while it was
\* under way: nodes[pk.node] is there (the filter of packets in frame).
PacketsHaveAreas == packets \subseteq 1..drawn.areas

\* "Live network view": what is on the screen comes to be what the snapshot says, whatever is
\* scrolled away and back in between, in whatever language (frame, the observer's callback).
GraphIsLive == tab = "graph" /\ onScreen => drawn = data
===============================================================================
