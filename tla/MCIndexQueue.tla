----------------------------- MODULE MCIndexQueue -----------------------------
(* A repository with three index jobs and one scan, or with one job, a       *)
(* command and two scans; the lists hold two jobs and one scan, so one more  *)
(* drops the oldest, active or not.                                          *)
EXTENDS IndexQueue

CONSTANTS repo, j1, j2, j3, m1, s1, s2

MCRepoOf == [x \in Asker |-> repo]
=============================================================================
