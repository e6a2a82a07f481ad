----------------------------- MODULE MCStation -----------------------------
(* Instance of Station with one helper below the key thread, the shell, or  *)
(* none.                                                                    *)
EXTENDS Station, TLC

MCHelpers == {"tshell"}
MCHelperPriority == [t \in MCHelpers |-> 20]

MCNoHelpers == {}
MCNoPriority == [t \in MCNoHelpers |-> 0]
=============================================================================
