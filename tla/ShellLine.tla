----------------------------- MODULE ShellLine -----------------------------
(* From a line to the tree of commands that run_cmd() gives to exec_cmd(),   *)
(* and the blocks of memory that the tree holds.  A line is a sequence of    *)
(* parts, those between '|', and a part a sequence of tokens.  A tree of     *)
(* pipes hangs to the right: it is the sequence of its commands.             *)
EXTENDS Integers, Sequences, FiniteSets

(* The tokens that the parser tells apart:                                   *)
(*   word   anything else           opt   -k=v, and K=a-b                    *)
(*   out in err   >f <f 2>f         both  2>&1                               *)
(*   odd    a>b: a redirection of nothing                                    *)
(*   var    K=v                     amp   &                                  *)
(*   known unset code   $X with and without a value, and $?                  *)
(*   gap    what two spaces in a row make                                    *)
Tokens == {"word", "opt", "out", "in", "err", "both", "odd", "var", "amp",
           "known", "unset", "code", "gap"}

NULL == <<>>

Count(part, kinds) == Cardinality({i \in DOMAIN part : part[i] \in kinds})
Has(part, t) == \E i \in DOMAIN part : part[i] = t

(* parse_redir_flow(): the token is freed, for whatever has a > or a <. *)
Redirections == {"out", "in", "err", "both", "odd"}
(* expand_environ_var(): these become empty, and nobody keeps them. *)
Empty == {"unset", "gap"}
Arguments == Tokens \ (Redirections \union Empty \union {"var"})

(* parse_exec() *)
ParseExec(part) ==
    [type  |-> IF Count(part, Redirections) > 0 THEN "REDIR" ELSE "EXEC",
     argc  |-> Count(part, Arguments),
     eargc |-> Count(part, {"var"}),
     out   |-> Has(part, "out"), in |-> Has(part, "in"),
     err   |-> Has(part, "err")]

(* parse_cmd(): the first & is the one that counts, and that of 2>&1 means   *)
(* that the part has no other; parse_back() forgets what follows it.         *)
Ampersand(part) == {i \in DOMAIN part : /\ part[i] = "amp"
                                        /\ \A j \in 1..(i - 1) : part[j] \notin {"amp", "both"}}
IsBack(part) == Ampersand(part) # {}
Parsed(part) == IF IsBack(part) THEN SubSeq(part, 1, (CHOOSE i \in Ampersand(part) : TRUE) - 1)
                ELSE part
ParseBack(part) == [type |-> "BACK", c |-> ParseExec(Parsed(part))]
ParseCmd(part) == IF IsBack(part) THEN ParseBack(part) ELSE ParseExec(part)

(* pipe_cmd_create(): a line that ends in | is the commands before it. *)
Commands(line) == IF line[Len(line)] = <<>> THEN Len(line) - 1 ELSE Len(line)

ParseLine(line) == [i \in 1..Commands(line) |-> ParseCmd(line[i])]
TypeOf(tree) == IF Len(tree) > 1 THEN "PIPE" ELSE tree[1].type

(* The lines that run_cmd() survives: it dereferences the NULL that          *)
(* parse_cmd() returns for an empty part that is not the last.               *)
IsLine(line) ==
    /\ line \in Seq(Seq(Tokens)) /\ Commands(line) > 0
    /\ \A i \in 1..Commands(line) : line[i] # <<>>

----------------------------------------------------------------------------
(* Memory. *)

Sum(s) == LET sum[n \in 0..Len(s)] == IF n = 0 THEN 0 ELSE sum[n - 1] + s[n]
          IN  sum[Len(s)]

(* Tokens that are neither freed nor kept. *)
Lost(line) == Sum([i \in 1..Commands(line) |-> Count(Parsed(line[i]), Empty)])

(* What parse_line() has allocated when it returns: a struct for each        *)
(* command, one more for & and for |, and the tokens that are not freed.     *)
Allocated(line) ==
    Sum([i \in 1..Commands(line) |->
            1 + (IF IsBack(line[i]) THEN 1 ELSE 0)
              + Count(Parsed(line[i]), Arguments \union Empty \union {"var"})])
    + Commands(line) - 1

(* free_command(): the blocks of a command of the tree. *)
Blocks(c) == IF c.type = "BACK" THEN c.c.argc + c.c.eargc + 2 ELSE c.argc + c.eargc + 1

(* Mutant: free_command() forgets the variables. *)
FreedButVars(tree) ==
    Sum([i \in 1..Len(tree) |-> IF tree[i].type = "BACK" THEN tree[i].c.argc + 2
                                ELSE tree[i].argc + 1]) + Len(tree) - 1

Freed(tree) == Sum([i \in 1..Len(tree) |-> Blocks(tree[i])]) + Len(tree) - 1
=============================================================================
