----------------------------- MODULE Rendezvous -----------------------------
(* What the IPC library promises: a message passes from one sender to one    *)
(* receiver, once, when both are there; ipc_send() is over no sooner.        *)
CONSTANTS Envs, Values, Pages, None

VARIABLES sending,     \* env -> the message it is sending, or None
          inbox        \* env -> None, what it waits for, or what it was given

vars == <<sending, inbox>>

Message == [to : Envs, value : Values, page : Pages \union {None}]
Waiting == [wants : BOOLEAN]
Waits(r) == inbox[r] \in Waiting

Init == sending = [e \in Envs |-> None] /\ inbox = [e \in Envs |-> None]

Send(e) == /\ sending[e] = None /\ inbox[e] = None
           /\ \E m \in Message : sending' = [sending EXCEPT ![e] = m]
           /\ UNCHANGED inbox

Receive(e) == /\ sending[e] = None /\ inbox[e] = None
              /\ \E w \in Waiting : inbox' = [inbox EXCEPT ![e] = w]
              /\ UNCHANGED sending

Meet(e, r) ==
    /\ sending[e] # None /\ sending[e].to = r /\ Waits(r)
    /\ inbox' = [inbox EXCEPT ![r] = [from |-> e, value |-> sending[e].value,
                                      page |-> IF inbox[r].wants THEN sending[e].page ELSE None]]
    /\ sending' = [sending EXCEPT ![e] = None]

Take(r) == /\ inbox[r] # None /\ ~Waits(r)
           /\ inbox' = [inbox EXCEPT ![r] = None]
           /\ UNCHANGED sending

(* Exit, or a panic for an error: the message was never delivered. *)
Leave(e) == /\ sending' = [sending EXCEPT ![e] = None]
            /\ inbox' = [inbox EXCEPT ![e] = None]

(* The machine stops. *)
Halt == sending' = [e \in Envs |-> None] /\ inbox' = [e \in Envs |-> None]

Next == \/ Halt
        \/ \E e \in Envs : \/ Send(e) \/ Receive(e) \/ Take(e) \/ Leave(e)
                         \/ \E r \in Envs : Meet(e, r)

Spec == Init /\ [][Next]_vars
=============================================================================
