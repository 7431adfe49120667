-------------------------------- MODULE MCLive ---------------------------------
(* The server publishes an event that is withdrawn in the store.              *)
EXTENDS Live

MCStories == {[fault |-> 1, store |-> 0], [fault |-> 0, store |-> 2]}
===============================================================================
