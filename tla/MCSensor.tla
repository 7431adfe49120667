------------------------------- MODULE MCSensor -------------------------------
(* One tab.  A run is one of these stories; each bounds what comes from      *)
(* outside so that what it is about happens, in every order.                 *)
EXTENDS Sensor

None == [w \in Outside |-> 0]

MCBudgets ==
  {\* A client loses its connection, and the server moves.
   [None EXCEPT !.start = 1, !.second = 2, !.fault = 2, !.move = 1],
   \* The page is hidden and shown.
   [None EXCEPT !.start = 1, !.second = 1, !.hide = 2, !.fault = 1],
   \* Clients follow each other, over a change of the location and a reload.
   [None EXCEPT !.start = 2, !.fault = 1],
   [None EXCEPT !.start = 2, !.area = 1, !.reload = 1],
   \* Enrolment and deletion.
   [None EXCEPT !.start = 1, !.request = 2],
   \* The night log, of two clients and over its limit.
   [None EXCEPT !.start = 2, !.second = 2, !.night = 1],
   [None EXCEPT !.start = 1, !.second = 3, !.night = 1]}

\* A phone is served over one connection, again after any failure, and not any more once it was
\* stopped (OneConnection, Reconnects, StoppedStays).
ServedOnce == []OneConnection /\ StoppedStays /\ Reconnects
===============================================================================
