------------------------------- MODULE Shell -------------------------------
(* The shell and the processes it makes: run_cmd(), exec_cmd(), the handler  *)
(* of SIGCHLD, and of the system fork, pipes, process groups and waitpid().  *)
EXTENDS ShellLine

CONSTANTS Lines,       \* the lines to run that the user may type
          Pids,        \* bound: pids of the machine
          MaxLines     \* bound: lines typed

ASSUME ShellAssumption ==
    /\ Pids \subseteq Nat \ {0} /\ MaxLines \in Nat
    /\ \A l \in Lines : IsLine(l)

VARIABLES pc,          \* of the shell: "prompt", "fork", "wait", "exited"
          tree,        \* the command it runs
          child,       \* its process, -1 if fork() failed
          status,      \* the global of runcmd.c
          heap,        \* blocks of the shell that commands hold
          procs,       \* pid -> process, for those that exist
          pending,     \* who has a SIGCHLD to handle
          typed,       \* lines typed
          lost,        \* history: tokens that nobody kept or freed
          expected     \* history: {} or what status should be, for the last
                       \*          command in the foreground

vars == <<pc, tree, child, status, heap, procs, pending, typed, lost, expected>>
shell == <<pc, tree, child, status, heap, typed, lost>>

Sh == 0                \* the shell, and its process group
Nobody == -1           \* the parent of orphans

At(p, where) == p \in DOMAIN procs /\ procs[p].pc = where
Zombie(p) == At(p, "zombie")
ChildOf(q, p) == q \in DOMAIN procs /\ procs[q].parent = p
Pipes == UNION {{procs[p].in, procs[p].out} \union {e[1] : e \in procs[p].ends} : p \in DOMAIN procs}
NewPids == Pids \ (DOMAIN procs \union Pipes)
NewPid == CHOOSE p \in NewPids : TRUE
Without(f, ps) == [p \in (DOMAIN f) \ ps |-> f[p]]
Update(p, r) == procs' = [q \in (DOMAIN procs) \union {p} |-> IF q = p THEN r ELSE procs[q]]

Readers(x) == {p \in DOMAIN procs : procs[p].in = x \/ <<x, "r">> \in procs[p].ends}
Writers(x) == {p \in DOMAIN procs : procs[p].out = x \/ <<x, "w">> \in procs[p].ends}

----------------------------------------------------------------------------
(* How a process ends: the raw status is 256 * code, or the signal. *)
Exited(code) == 256 * code
KilledBy(signal) == signal

(* print_status_info(): WIFEXITED, WIFSIGNALED, or stopped; not of a PIPE. *)
Reported(c, s) == IF TypeOf(c) = "PIPE" THEN s
                  ELSE IF s % 128 = 0 THEN (s \div 256) % 256
                  ELSE IF s % 128 # 127 THEN -(s % 128) ELSE -((s \div 256) % 256)

(* Its pipes are closed, its parent gets SIGCHLD, its children are orphans,  *)
(* and an orphan is reaped at once.                                          *)
Ends(p, raw) ==
    LET adopted == [q \in DOMAIN procs |->
                      IF q = p THEN [procs[q] EXCEPT !.pc = "zombie", !.in = 0, !.out = 0,
                                                     !.ends = {}, !.kids = <<>>, !.raw = raw]
                      ELSE IF procs[q].parent = p THEN [procs[q] EXCEPT !.parent = Nobody]
                      ELSE procs[q]]
    IN  /\ procs' = Without(adopted, {q \in DOMAIN adopted : /\ adopted[q].parent = Nobody
                                                             /\ adopted[q].pc = "zombie"})
        /\ pending' = (pending \ {p}) \union ({procs[p].parent} \ {Nobody})
        /\ expected' = IF p # child \/ procs[p].parent # Sh THEN expected
                       ELSE IF procs[p].pc = "born" THEN {} ELSE {Reported(tree, raw)}
        /\ UNCHANGED shell

Steps(p, r) == Update(p, r) /\ UNCHANGED <<shell, pending, expected>>

----------------------------------------------------------------------------
(* run_cmd() *)

(* cd, pwd and an empty line fork nothing. *)
TypeBuiltIn ==
    /\ pc = "prompt" /\ typed < MaxLines
    /\ typed' = typed + 1
    /\ UNCHANGED <<pc, tree, child, status, heap, procs, pending, lost, expected>>

TypeExit ==
    /\ pc = "prompt"
    /\ pc' = "exited"
    /\ procs' = [p \in {q \in DOMAIN procs : ~(ChildOf(q, Sh) /\ Zombie(q))} |->
                   IF ChildOf(p, Sh) THEN [procs[p] EXCEPT !.parent = Nobody] ELSE procs[p]]
    /\ pending' = pending \ {Sh}
    /\ UNCHANGED <<tree, child, status, heap, typed, lost, expected>>

TypeLine ==
    /\ pc = "prompt" /\ typed < MaxLines
    /\ \E l \in Lines :
          /\ tree' = ParseLine(l)
          /\ heap' = heap + Allocated(l) /\ lost' = lost + Lost(l)
    /\ pc' = "fork" /\ typed' = typed + 1
    /\ UNCHANGED <<child, status, procs, pending, expected>>

FinishLine ==
    /\ pc' = "prompt" /\ tree' = NULL /\ child' = 0
    /\ heap' = heap - Freed(tree)
    /\ UNCHANGED <<typed, lost>>

Process(parent, group, where, cmd, flow, ends) ==
    [pc |-> where, parent |-> parent, group |-> group, cmd |-> cmd, flow |-> flow,
     in |-> 0, out |-> 0, ends |-> ends, kids |-> <<>>, raw |-> 0]

(* What the programs of a pipeline are like: those after the first read to   *)
(* the end, or those before the last write until nobody reads.               *)
Flows == IF TypeOf(tree) = "PIPE" THEN {"forward", "backward"} ELSE {"forward"}

ForkCommand ==
    /\ pc = "fork" /\ NewPids # {}
    /\ \E flow \in Flows : Update(NewPid, Process(Sh, Sh, "born", tree, flow, {}))
    /\ UNCHANGED <<status, pending, expected>>
    /\ IF TypeOf(tree) = "BACK" THEN FinishLine
       ELSE pc' = "wait" /\ child' = NewPid /\ UNCHANGED <<tree, heap, typed, lost>>

(* Nobody looks whether fork() has failed. *)
ForkFails ==
    /\ pc = "fork" /\ UNCHANGED <<status, procs, pending>>
    /\ IF TypeOf(tree) = "BACK" THEN FinishLine /\ UNCHANGED expected
       ELSE /\ pc' = "wait" /\ child' = -1 /\ expected' = {}
            /\ UNCHANGED <<tree, heap, typed, lost>>

(* waitpid(p) of the command, of any child if p is -1. *)
Waited == IF child = -1 THEN {q \in DOMAIN procs : ChildOf(q, Sh)}
          ELSE {child} \cap {q \in DOMAIN procs : ChildOf(q, Sh)}
WaitCommand ==
    /\ pc = "wait"
    /\ \E p \in Waited : /\ Zombie(p)
                         /\ status' = Reported(tree, procs[p].raw)
                         /\ procs' = Without(procs, {p})
    /\ FinishLine /\ UNCHANGED <<pending, expected>>

(* ECHILD: what status was is reported once more. *)
WaitNobody ==
    /\ pc = "wait" /\ Waited = {}
    /\ status' = Reported(tree, status)
    /\ FinishLine /\ UNCHANGED <<procs, pending, expected>>

(* sigchild_handler(), in the shell and in whoever runs a PIPE: all that     *)
(* have ended of the children in its process group.                          *)
GroupOf(p) == IF p = Sh THEN Sh ELSE procs[p].group
Handler(p) ==
    /\ p \in pending /\ pending' = pending \ {p}
    /\ procs' = Without(procs, {q \in DOMAIN procs : ChildOf(q, p) /\ Zombie(q)
                                                       /\ procs[q].group = GroupOf(p)})
    /\ UNCHANGED <<shell, expected>>

Shell == ForkCommand \/ ForkFails \/ WaitCommand \/ WaitNobody \/ Handler(Sh)

----------------------------------------------------------------------------
(* The child: setpgid() and exec_cmd(). *)

(* Mutant: the child stays in the group of the shell. *)
OwnGroupNever(p) == procs[p].group

(* A command in the foreground has a process group of its own. *)
OwnGroup(p) == IF TypeOf(procs[p].cmd) = "BACK" THEN procs[p].group ELSE p

Born(p) ==
    /\ At(p, "born")
    /\ Steps(p, [procs[p] EXCEPT !.pc = "exec", !.group = OwnGroup(p)])

KilledEarly(p) == At(p, "born") /\ Ends(p, KilledBy(9))

(* A side of a pipe has it as its standard output, or input, and closes what *)
(* it inherited.                                                             *)
Pipe(p) == (CHOOSE e \in procs[p].ends : TRUE)[1]
Ready(p) == CASE procs[p].pc = "exec"  -> procs[p]
              [] procs[p].pc = "left"  -> [procs[p] EXCEPT !.out = Pipe(p), !.ends = {}]
              [] procs[p].pc = "right" -> [procs[p] EXCEPT !.in = Pipe(p), !.ends = {}]
Command(p) == LET cmd == procs[p].cmd IN IF TypeOf(cmd) = "BACK" THEN cmd[1].c ELSE cmd[1]
Execs(p, types) == p \in DOMAIN procs /\ procs[p].pc \in {"exec", "left", "right"}
                                       /\ TypeOf(procs[p].cmd) \in types

(* Files that cannot be opened, a program that is not there or has no name,  *)
(* pipe(), and fork().                                                       *)
ExecFails(p) ==
    /\ Execs(p, {"EXEC", "REDIR", "BACK", "PIPE"}) \/ At(p, "fork1") \/ At(p, "fork2")
    /\ Ends(p, Exited(255))

(* A file takes the place of a pipe. *)
ExecProgram(p) ==
    /\ Execs(p, {"EXEC", "REDIR", "BACK"}) /\ Command(p).argc > 0
    /\ Steps(p, [Ready(p) EXCEPT !.pc = "running", !.cmd = NULL,
                                 !.out = IF Command(p).out THEN 0 ELSE @,
                                 !.in = IF Command(p).in THEN 0 ELSE @])

ExecPipe(p) ==
    /\ Execs(p, {"PIPE"}) /\ p \notin Pipes
    /\ Steps(p, [Ready(p) EXCEPT !.pc = "fork1", !.ends = {<<p, "r">>, <<p, "w">>}])

(* A child inherits the pipes of its parent. *)
ForkSide(p, here, where, side, next) ==
    /\ At(p, here) /\ NewPids # {}
    /\ LET kid == [Process(p, procs[p].group, where, side, procs[p].flow, procs[p].ends)
                     EXCEPT !.in = procs[p].in, !.out = procs[p].out]
           me == [procs[p] EXCEPT !.pc = next, !.kids = Append(@, NewPid)]
       IN  procs' = [q \in (DOMAIN procs) \union {NewPid} |->
                        CASE q = NewPid -> kid [] q = p -> me [] OTHER -> procs[q]]
    /\ UNCHANGED <<shell, pending, expected>>
ForkLeft(p) == ForkSide(p, "fork1", "left", <<Head(procs[p].cmd)>>, "fork2")
ForkRight(p) == ForkSide(p, "fork2", "right", Tail(procs[p].cmd), "close")

(* Mutant: only the end that reads is closed. *)
StillOpenWriter(p) == {<<p, "w">>}

StillOpen(p) == {}

ClosePipe(p) ==
    /\ At(p, "close")
    /\ Steps(p, [procs[p] EXCEPT !.pc = "wait1", !.ends = StillOpen(p)])

(* waitpid() of each side; it may have been reaped by the handler. *)
WaitSide(p, here, i) ==
    /\ At(p, here) /\ LET kid == procs[p].kids[i] IN ChildOf(kid, p) => Zombie(kid)
Reaped(p, i) == {q \in {procs[p].kids[i]} : ChildOf(q, p)}
WaitLeft(p) ==
    /\ WaitSide(p, "wait1", 1)
    /\ procs' = Without([procs EXCEPT ![p].pc = "wait2"], Reaped(p, 1))
    /\ UNCHANGED <<shell, pending, expected>>
WaitRight(p) ==
    /\ WaitSide(p, "wait2", 2)
    /\ Ends(p, Exited(0))

Helps(p) == p \in DOMAIN procs /\ procs[p].pc \in {"fork1", "fork2", "close", "wait1", "wait2"}

(* Programs. *)
Raws(p) == IF p = child THEN {Exited(1), KilledBy(9)} ELSE {Exited(0)}
ProgramEnds(p) == At(p, "running") /\ \E raw \in Raws(p) : Ends(p, raw)
Finishes(p) == IF procs[p].flow = "forward" THEN procs[p].in = 0 \/ Writers(procs[p].in) = {}
               ELSE procs[p].out = 0 \/ Readers(procs[p].out) = {}

ExecCmd(p) == \/ Born(p) \/ ExecFails(p) \/ ExecProgram(p)
              \/ ExecPipe(p) \/ ForkLeft(p) \/ ForkRight(p)
              \/ ClosePipe(p) \/ WaitLeft(p) \/ WaitRight(p)
              \/ (Helps(p) /\ Handler(p))

Init ==
    /\ pc = "prompt" /\ tree = NULL /\ child = 0 /\ status = 0 /\ heap = 0
    /\ procs = [p \in {} |-> NULL] /\ pending = {} /\ typed = 0 /\ lost = 0
    /\ expected = {0}

Next == \/ TypeBuiltIn \/ TypeExit \/ TypeLine \/ Shell
        \/ \E p \in Pids : ExecCmd(p) \/ KilledEarly(p) \/ ProgramEnds(p)

(* The system does not stop while somebody can run, or a signal waits; and   *)
(* programs end when they have nothing to do.  No behaviour is infinite, so  *)
(* that one fair action stands for all.                                      *)
Runs == Shell \/ \E p \in Pids : ExecCmd(p) \/ (p \in DOMAIN procs /\ Finishes(p) /\ ProgramEnds(p))
Spec == Init /\ [][Next]_vars /\ WF_vars(Runs)

----------------------------------------------------------------------------
(* Properties. *)

(* The types of the variables; whoever has ended holds no pipe, and every    *)
(* other process has a parent that runs.                                     *)
TypeOK ==
    /\ pc \in {"prompt", "fork", "wait", "exited"}
    /\ tree = NULL <=> pc \notin {"fork", "wait"}
    /\ DOMAIN procs \subseteq Pids /\ child \in Pids \union {0, -1}
    /\ status \in Int /\ -255 <= status /\ status <= 65535
    /\ heap \in Nat /\ lost \in Nat /\ typed \in 0..MaxLines
    /\ pending \subseteq DOMAIN procs \union {Sh}
    /\ \A p \in DOMAIN procs :
          /\ Zombie(p) => procs[p].in = 0 /\ procs[p].out = 0 /\ procs[p].ends = {}
          /\ procs[p].parent \in Pids => Helps(procs[p].parent)
          /\ procs[p].ends # {} => procs[p].pc \in {"left", "right", "fork1", "fork2", "close"}

(* At the prompt $? tells how the last command in the foreground ended: the  *)
(* handler of SIGCHLD, that runs at any time, never takes it before run_cmd()*)
(* does; unless it was killed before it had its group, or not even forked.   *)
StatusIsLast == pc = "prompt" => expected \subseteq {status}

(* Between lines the memory of the last command has been freed, except for   *)
(* the tokens that parse_exec() drops because they are empty.                *)
HeapExact == pc = "prompt" => heap = lost

(* Once the user types no more the last line is over, and no process, not    *)
(* even a zombie, remains: the ends of the pipes are closed so that readers  *)
(* see the end and writers SIGPIPE, and one SIGCHLD may stand for several.   *)
NothingLingers == <>[](pc \in {"prompt", "exited"} /\ DOMAIN procs = {})
=============================================================================
