----------------------------- MODULE Exclusive -----------------------------
(***************************************************************************)
(* What a lock promises, whatever it is made of: the resource is used by   *)
(* nobody, or by one user, who is the one to give it back before another   *)
(* can have it.                                                            *)
(***************************************************************************)
CONSTANT Users

VARIABLE users  \* those who use the resource now

Init == users = {}

Acquire(u) == users = {} /\ users' = {u}
Release(u) == users = {u} /\ users' = {}

Next == \E u \in Users : Acquire(u) \/ Release(u)

Spec == Init /\ [][Next]_users
=============================================================================
