--------------------------- MODULE MCWaitableEvent ---------------------------
(* Instances of WaitableEvent for TLC: an auto-reset event at the lower      *)
(* address and a manual-reset event at the higher one.                       *)
EXTENDS WaitableEvent, TLC

CONSTANTS t1, t2, t3

MCThreads == {t1, t2, t3}
MCTwoThreads == {t1, t2}
MCThreadSymmetry == Permutations(MCThreads)
MCEvents == {1, 2}
MCManualReset == {2}
==============================================================================
