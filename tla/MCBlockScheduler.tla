-------------------------- MODULE MCBlockScheduler --------------------------
(* Model of BlockScheduler: three blocks, pending counts up to 2 (enough   *)
(* for two blocks to tie and a third to differ), every scheduler build.   *)
EXTENDS BlockScheduler

MCBlocks == {1, 2, 3}

=============================================================================
