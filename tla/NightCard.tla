------------------------------- MODULE NightCard -------------------------------
(***************************************************************************)
(* The card "Your night" of /device (web/components/device/NightCard.tsx): *)
(* a chart of the night log, a few numbers, a file to download.  The log   *)
(* is that of Sensor, with what a row says: its second, how strong the     *)
(* motion was, and the state of the station.                               *)
(***************************************************************************)
EXTENDS Naturals, Sequences, FiniteSets

CONSTANTS
  MaxRows,  \* MAX_ROWS of the log
  Enough,   \* rows from which on the card is shown
  NightGap, \* NEW_NIGHT_GAP_S: after such a pause there is a new log
  Apart,    \* bumps less than this after one another are one
  Columns,  \* pixels of the chart
  Narrow,   \* seconds the chart has at least
  Rests,    \* for so many seconds the card is not drawn again for a row
  Readings, \* how strong a second may be and the state then; the quietest is 1
  Seconds,  \* bound: when the night is over
  Moves     \* bound: what the user does

\* Assumed of the constants by whoever instantiates the module.
NightCardAssumption ==
  /\ {MaxRows, Columns, Narrow} \subseteq Nat \ {0} /\ {NightGap, Apart, Seconds, Moves} \subseteq Nat
  /\ Rests \in 0..Seconds
  /\ \A r \in Readings : r.level \in Nat \ {0}

VARIABLES
  log,    \* the log, or when there is none, the one the card was drawn for
  now,    \* seconds
  last,   \* when the card was last drawn for a row
  card,   \* what it shows: the rows of the chart, and the numbers, which are remembered
  file,   \* what was downloaded
  moves   \* what is left of Moves

vars == <<log, now, last, card, file, moves>>

Levels  == {r.level : r \in Readings}
NoStats == [listened |-> 0, bumps |-> 0, biggest |-> 0]
Rows    == IF log.none THEN <<>> ELSE log.rows
Move    == moves > 0 /\ moves' = moves - 1

(***************************************************************************)
(* The numbers.  Of a log, sets of rows are sets of their places.          *)
(***************************************************************************)
Quiet(rows) == {i \in DOMAIN rows : rows[i].state \in {"quiet", "triggered"}}

\* The one in the middle of the sorted levels; of an even number the upper one.
Median(rows) ==
  LET q == Quiet(rows)
  IN  IF q = {} THEN 0
      ELSE CHOOSE v \in Levels :
             /\ Cardinality({i \in q : rows[i].level < v}) <= Cardinality(q) \div 2
             /\ Cardinality({i \in q : rows[i].level <= v}) > Cardinality(q) \div 2

\* The still seconds at least 5 times the median.
Loud(rows) == {i \in Quiet(rows) : Median(rows) > 0 /\ rows[i].level > 5 * Median(rows)}

\* A bump is such a second when the one before it is more than Apart before it, or there is none.
Bumps(rows) ==
  {i \in Loud(rows) :
     \A j \in Loud(rows) : j < i /\ (\A k \in Loud(rows) : k < i => k <= j) => rows[i].sec - rows[j].sec > Apart}

\* Of some rows the one of the strongest motion, the first of several.
Strongest(rows, I) ==
  CHOOSE i \in I : \A j \in I : rows[j].level < rows[i].level \/ (rows[j].level = rows[i].level /\ i <= j)

Biggest(rows) == IF Quiet(rows) = {} THEN 0 ELSE rows[Strongest(rows, Quiet(rows))].sec

Stats(rows) ==
  [listened |-> Cardinality(Quiet(rows)), bumps |-> Cardinality(Bumps(rows)), biggest |-> Biggest(rows)]

(***************************************************************************)
(* Drawing.                                                                *)
(***************************************************************************)
\* The numbers are counted again when the number of rows is another.
Numbers(rows) == IF Len(rows) = Len(card.rows) THEN card.numbers ELSE Stats(rows)

Shown(rows) == [rows |-> rows, numbers |-> Numbers(rows)]

\* One column per pixel: the loudest second in it, the first of several.
Span(rows)      == LET s == rows[Len(rows)].sec - rows[1].sec IN IF s < Narrow THEN Narrow ELSE s
Column(rows, r) == (2 * (r.sec - rows[1].sec) * (Columns - 1) + Span(rows)) \div (2 * Span(rows))
Chart(rows) ==
  [x \in {Column(rows, rows[i]) : i \in DOMAIN rows} |->
     rows[Strongest(rows, {i \in DOMAIN rows : Column(rows, rows[i]) = x})]]

Visible == Len(card.rows) >= Enough

\* What is said below the chart.
Said == IF Visible THEN card.numbers ELSE NoStats

\* The log has another row, and tells the card, which was drawn lately or is drawn now.
Row(reading) ==
  /\ now < Seconds /\ now' = now + 1
  /\ IF log.none THEN UNCHANGED <<log, last, card>>
     ELSE LET rows == Append(log.rows, [sec |-> now', level |-> reading.level, state |-> reading.state])
              kept == IF Len(rows) > MaxRows THEN Tail(rows) ELSE rows
          IN  /\ log' = [log EXCEPT !.rows = kept]
              /\ IF now' - last > Rests THEN last' = now' /\ card' = Shown(kept)
                 ELSE UNCHANGED <<last, card>>
  /\ UNCHANGED <<file, moves>>

\* The page around the card is drawn, and the card with it.
Drawn ==
  /\ card' = Shown(Rows)
  /\ log' = [log EXCEPT !.rows = Rows]
  /\ UNCHANGED <<now, last, file, moves>>

\* A second without readings.
Pause == now < Seconds /\ now' = now + 1 /\ UNCHANGED <<log, last, card, file, moves>>

\* Listening starts after the log was cleared, or late: there is a new log, and the page is drawn.
NewNight ==
  /\ Move
  /\ Rows # <<>> => now - Rows[Len(Rows)].sec > NightGap
  /\ log' = [none |-> FALSE, rows |-> <<>>]
  /\ card' = Shown(<<>>)
  /\ UNCHANGED <<now, last, file>>

\* clearNightLog: the card is told, as for a row.
Clear ==
  /\ Visible /\ Move
  /\ IF now - last > Rests
     THEN last' = now /\ card' = Shown(<<>>) /\ log' = [none |-> TRUE, rows |-> <<>>]
     ELSE log' = [log EXCEPT !.none = TRUE] /\ UNCHANGED <<last, card>>
  /\ UNCHANGED <<now, file>>

\* A row of the file; a state without a name is unknown.
Line(r) == [sec |-> r.sec, level |-> r.level, state |-> IF r.state = "none" THEN "unknown" ELSE r.state]

\* The file has the rows of the log the card was drawn for, also those that came since.
Csv ==
  /\ Visible /\ Move
  /\ file' = [i \in DOMAIN log.rows |-> Line(log.rows[i])]
  /\ UNCHANGED <<log, now, last, card>>

Init ==
  /\ log = [none |-> FALSE, rows |-> <<>>] /\ now = Rests /\ last = 0 /\ file = <<>>
  /\ card = [rows |-> <<>>, numbers |-> NoStats] /\ moves = Moves

Next ==
  \/ \E r \in Readings : Row(r)
  \/ Drawn \/ Pause \/ NewNight \/ Clear \/ Csv

Spec == Init /\ [][Next]_vars

TypeOK ==
  /\ log.none \in BOOLEAN /\ Len(log.rows) <= MaxRows /\ now \in 0..Seconds /\ last \in 0..Seconds
  /\ card.numbers \in [listened : 0..MaxRows, bumps : 0..MaxRows, biggest : 0..Seconds]
  /\ Len(file) <= MaxRows /\ moves \in 0..Moves

\* A bump begins with a loud second that no loud one comes before by less than Apart.
Beginnings(rows) ==
  {i \in Loud(rows) : \A j \in Loud(rows) : j < i => rows[i].sec - rows[j].sec > Apart}

\* The numbers of the card are those of its chart, though they are remembered from one
\* drawing to the next, until the log is full (stats, useMemo); every bump is in the chart,
\* whose columns have many seconds each.
NightShown ==
  Visible =>
    /\ Len(card.rows) < MaxRows => Said.bumps = Cardinality(Beginnings(card.rows))
    /\ \A i \in Beginnings(card.rows) :
         LET r == card.rows[i] IN Chart(card.rows)[Column(card.rows, r)].level >= r.level
===============================================================================
