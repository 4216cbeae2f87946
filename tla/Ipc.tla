-------------------------------- MODULE Ipc --------------------------------
(* ipc_send() and ipc_recv() of lib/ipc.c over the two system calls, between *)
(* environments that call them as they please.  The kernel holds its lock    *)
(* during a call, so each call is a step; ipc_send() polls, ipc_recv()       *)
(* sleeps, and reads the fields of its environment when it is woken.         *)
EXTENDS Integers

CONSTANTS Envs, Values,
          None,
          Zero,        \* a page of zeros
          MaxCalls     \* bound: calls of ipc_send() and ipc_recv(), of all programs

ASSUME IpcAssumption == None \notin Envs \union Values /\ Zero \notin Envs \union {None}

VARIABLES pc,          \* env -> "run", "try", "yield", "recv", "woken", "gone", "panicked"
          call,        \* env -> the arguments of the ipc_send() it is in
          recving,     \* env -> env_ipc_recving
          dstva,       \* env -> is env_ipc_dstva an address?  0 means no page
          value,       \* env -> env_ipc_value
          from,        \* env -> env_ipc_from
          perm,        \* env -> is env_ipc_perm nonzero?
          source,      \* env -> is its page, the one it sends, mapped?
          window,      \* env -> the page where it receives: that of an
                       \*        environment, Zero, or None
          calls        \* calls made

vars == <<pc, call, recving, dstva, value, from, perm, source, window, calls>>

NoCall == [to |-> None, value |-> None, page |-> FALSE]

Init ==
    /\ pc = [e \in Envs |-> "run"] /\ call = [e \in Envs |-> NoCall]
    /\ recving = [e \in Envs |-> FALSE] /\ dstva = [e \in Envs |-> FALSE]
    /\ value = [e \in Envs |-> None] /\ from = [e \in Envs |-> None]
    /\ perm = [e \in Envs |-> FALSE]
    /\ source \in [Envs -> BOOLEAN] /\ window = [e \in Envs |-> None]
    /\ calls = 0

Goto(e, to) == pc' = [pc EXCEPT ![e] = to]
Calls(e) == pc[e] = "run" /\ calls < MaxCalls /\ calls' = calls + 1
Exists(e) == pc[e] # "gone"

----------------------------------------------------------------------------
(* ipc_recv(), with an address or 0. *)
IpcRecv(e) ==
    /\ Calls(e)
    /\ \E pg \in BOOLEAN : dstva' = [dstva EXCEPT ![e] = pg]
    /\ recving' = [recving EXCEPT ![e] = TRUE]
    /\ Goto(e, "recv")
    /\ UNCHANGED <<call, value, from, perm, source, window>>

(* Back from the call, ipc_recv() has read all it was given. *)
IpcReceived(e) ==
    /\ pc[e] = "woken" /\ Goto(e, "run")
    /\ UNCHANGED <<call, recving, dstva, value, from, perm, source, window, calls>>

----------------------------------------------------------------------------
(* ipc_send() *)

IpcSend(e) ==
    /\ Calls(e)
    /\ \E to \in Envs \ {e}, v \in Values, pg \in BOOLEAN :
          call' = [call EXCEPT ![e] = [to |-> to, value |-> v, page |-> pg]]
    /\ Goto(e, "try")
    /\ UNCHANGED <<recving, dstva, value, from, perm, source, window>>

To(e) == call[e].to
Takes(e) == call[e].page /\ dstva[To(e)]
Tries(e) == pc[e] = "try"
Meets(e) == Tries(e) /\ Exists(To(e)) /\ recving[To(e)]

(* Any error but E_IPC_NOT_RECV is the end of the sender. *)
Panics(e) == /\ Goto(e, "panicked") /\ call' = [call EXCEPT ![e] = NoCall]
             /\ UNCHANGED <<recving, dstva, value, from, perm, source, calls>>

(* E_BAD_ENV; E_NO_MEM, for memory may run out at any time; and E_INVAL when *)
(* the page is not mapped, if what the uninitialised pointer shows says so.  *)
SendFails(e) ==
    /\ \/ Tries(e) /\ ~Exists(To(e))
       \/ Meets(e) /\ Takes(e)
       \/ Meets(e) /\ call[e].page /\ ~source[e]
    /\ Panics(e) /\ UNCHANGED window

(* Else env_page_alloc() puts a page of zeros in the window of the target,   *)
(* and only then env_page_map() finds that there is nothing to send.         *)
SendWipes(e) ==
    /\ Meets(e) /\ Takes(e) /\ ~source[e]
    /\ window' = [window EXCEPT ![To(e)] = Zero]
    /\ Panics(e)

(* Or the processor faults on it and the kernel panics. *)
SendHalts(e) ==
    /\ Meets(e) /\ call[e].page /\ ~source[e]
    /\ pc' = [f \in Envs |-> "gone"] /\ call' = [f \in Envs |-> NoCall]
    /\ UNCHANGED <<recving, dstva, value, from, perm, source, window, calls>>

(* Mutant: a target that is not receiving is not tried again. *)
GivesUp(e) == "run"

(* E_IPC_NOT_RECV: sys_yield(), and again. *)
Retries(e) == "yield"
SendLater(e) ==
    /\ Tries(e) /\ Exists(To(e)) /\ ~recving[To(e)]
    /\ Goto(e, Retries(e))
    /\ UNCHANGED <<call, recving, dstva, value, from, perm, source, window, calls>>
Yield(e) ==
    /\ pc[e] = "yield" /\ Goto(e, "try")
    /\ UNCHANGED <<call, recving, dstva, value, from, perm, source, window, calls>>

(* Mutant: the target stays ENV_NOT_RUNNABLE. *)
Asleep(r) == "recv"

(* env_status = ENV_RUNNABLE *)
Awake(r) == "woken"

(* Mutant: env_ipc_recving is not reset. *)
StillReceiving(r) == TRUE

Receiving(r) == FALSE

(* The message is in the fields of the target; a page it did not ask for is  *)
(* not sent, and leaves env_ipc_perm as it was.                              *)
SendDelivers(e) ==
    LET r == To(e)
    IN  /\ Meets(e) /\ (Takes(e) => source[e])
        /\ recving' = [recving EXCEPT ![r] = Receiving(r)]
        /\ value' = [value EXCEPT ![r] = call[e].value]
        /\ from' = [from EXCEPT ![r] = e]
        /\ perm' = IF call[e].page /\ ~dstva[r] THEN perm ELSE [perm EXCEPT ![r] = call[e].page]
        /\ window' = IF Takes(e) THEN [window EXCEPT ![r] = e] ELSE window
        /\ pc' = [pc EXCEPT ![r] = Awake(r), ![e] = "run"]
        /\ call' = [call EXCEPT ![e] = NoCall]
        /\ UNCHANGED <<dstva, source, calls>>

(* exit(), or its parent destroys it. *)
Destroy(e) ==
    /\ Exists(e) /\ Goto(e, "gone") /\ call' = [call EXCEPT ![e] = NoCall]
    /\ UNCHANGED <<recving, dstva, value, from, perm, source, window, calls>>

TrySend(e) == SendFails(e) \/ SendWipes(e) \/ SendHalts(e) \/ SendLater(e) \/ SendDelivers(e)
InCall(e) == TrySend(e) \/ Yield(e) \/ IpcReceived(e)
Next == \E e \in Envs : InCall(e) \/ IpcRecv(e) \/ IpcSend(e) \/ Destroy(e)

(* A scheduler that runs everybody; nobody has to make calls, or to leave. *)
Spec == Init /\ [][Next]_vars /\ \A e \in Envs : WF_vars(InCall(e))

----------------------------------------------------------------------------
(* Properties. *)

(* The types of the variables; an environment receives exactly when it       *)
(* sleeps in ipc_recv(), so nothing is written to the fields of another.     *)
TypeOK ==
    /\ pc \in [Envs -> {"run", "try", "yield", "recv", "woken", "gone", "panicked"}]
    /\ recving \in [Envs -> BOOLEAN] /\ dstva \in [Envs -> BOOLEAN]
    /\ perm \in [Envs -> BOOLEAN] /\ source \in [Envs -> BOOLEAN]
    /\ value \in [Envs -> Values \union {None}] /\ from \in [Envs -> Envs \union {None}]
    /\ window \in [Envs -> Envs \union {Zero, None}]
    /\ \A e \in Envs : /\ pc[e] \in {"try", "yield"} <=> call[e] # NoCall
                       /\ Exists(e) => (recving[e] <=> pc[e] = "recv")

(* Nobody sleeps in ipc_recv() for ever while somebody tries to send to it:  *)
(* it is woken, unless the sender fails or is destroyed.                     *)
SendersAreHeard ==
    \A e, r \in Envs : (pc[e] \in {"try", "yield"} /\ To(e) = r /\ pc[r] = "recv")
                          ~> (pc[r] # "recv" \/ pc[e] \in {"gone", "panicked"})

(* None is told from whatever is sent, asked for or given. *)
Message == [to : Envs, value : Values, page : Envs \union {None}]
Request == [wants : BOOLEAN]
Given == [from : Envs, value : Values, page : Envs \union {None}]
ASSUME NoneAssumption == None \notin Message \union Request \union Given

(* What each environment is sending, and what it waits for or has been given *)
(* and not yet read.                                                         *)
Sending == [e \in Envs |-> IF call[e] = NoCall THEN None
                           ELSE [call[e] EXCEPT !.page = IF @ THEN e ELSE None]]
Inbox == [e \in Envs |->
            CASE pc[e] = "recv" -> [wants |-> dstva[e]]
              [] pc[e] = "woken" -> [from |-> from[e], value |-> value[e],
                                     page |-> IF perm[e] /\ dstva[e] THEN window[e] ELSE None]
              [] OTHER -> None]
R == INSTANCE Rendezvous WITH sending <- Sending, inbox <- Inbox, Pages <- Envs

(* ipc_send() and ipc_recv() implement Rendezvous: each message is read once *)
(* by its target as it was sent, with its page if it was asked for, and      *)
(* ipc_send() returns only when that is certain.                             *)
Messages == R!Spec
=============================================================================
