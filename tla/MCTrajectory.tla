---------------------------- MODULE MCTrajectory ----------------------------
(* Values of the constants of Trajectory for model checking.               *)
EXTENDS Trajectory, TLC

CONSTANTS c1, c2, c3, r1, r2

\* The trajectories are interchangeable, and so are the threads.
Interchangeable == Permutations(Traj) \cup Permutations(Main)
=============================================================================
