-------------------------------- MODULE MCPhone --------------------------------
(* A phone that may have joined before, and whose user may come by a link     *)
(* with a class code.                                                         *)
EXTENDS Phone

MCTyped == {"", "A"}
===============================================================================
