------------------------------ MODULE MCShell ------------------------------
(* Instance of Shell: a command behind; one with every kind of token, before *)
(* a | with nothing after it; and a pipeline of three, two of them           *)
(* redirected and the last with & and what follows it.                       *)
EXTENDS Shell

MCLines == {<<<<"word", "amp">>>>,
            <<<<"var", "word", "opt", "code", "gap", "both", "in", "unset">>, <<>>>>,
            <<<<"word", "out", "known">>, <<"gap", "word", "odd">>, <<"gap", "word", "amp", "word">>>>}
=============================================================================
