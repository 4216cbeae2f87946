------------------------------ MODULE MCCowFork ------------------------------
EXTENDS CowFork, TLC

MCVaSeq == <<"text", "data", "xstk">>
MCReadOnly == {"text"}
MCOthers == Permutations(Envs \ {First})
=============================================================================
