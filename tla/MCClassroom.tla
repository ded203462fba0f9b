----------------------------- MODULE MCClassroom -----------------------------
(* Two students, two curriculums with a subject each, any four requests. *)
EXTENDS Classroom, TLC

CONSTANTS r1, r2, r3, r4, u1, u2, c1, c2, s1, s2

MCInitially == {[id |-> s1, cur |-> c1], [id |-> s2, cur |-> c2]}
Symmetry == Permutations(Request) \cup Permutations(Student)
=============================================================================
