----------------------------- MODULE MCLiveClass -----------------------------
(* Two moderators, two server processes, one student's URL. *)
EXTENDS LiveClass

CONSTANTS alice, bob, p1, p2, t1, t2, u1, v1, v2
=============================================================================
