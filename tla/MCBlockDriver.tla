---------------------------- MODULE MCBlockDriver ----------------------------
(* The cache has room for the block of the inode and one more, so that a    *)
(* write of two blocks evicts a block it has just modified.                 *)
EXTENDS BlockDriver

MCDataBlocks == 1..3
MCCalls == {[op |-> "write", blocks |-> <<1, 2>>], [op |-> "read", blocks |-> <<3>>],
            [op |-> "read", blocks |-> <<2>>]}

Sent(u, k, m) == [uart |-> u, keyboard |-> k, mouse |-> m]

\* Two readers; two pollers; one of each; files and a reader; files and a poller.
MCScenarios ==
  {[tasks |-> {"r1", "r2"}, sent |-> Sent(3, 0, 0)],
   [tasks |-> {"g1", "g2"}, sent |-> Sent(0, 2, 1)],
   [tasks |-> {"r1", "g1"}, sent |-> Sent(1, 1, 1)],
   [tasks |-> {"r1", "fs"}, sent |-> Sent(1, 0, 0)],
   [tasks |-> {"g1", "fs"}, sent |-> Sent(0, 1, 0)]}
TwoFsUsers == {[tasks |-> {"fs1", "fs2"}, sent |-> Sent(0, 0, 0)]}
=============================================================================
