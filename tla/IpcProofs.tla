----------------------------- MODULE IpcProofs ------------------------------
(* Proofs about Ipc, for any number of environments, values and calls: its   *)
(* types, and that ipc_send() and ipc_recv() implement Rendezvous.           *)
EXTENDS Ipc, TLAPS

(* What an environment that sends has in hand. *)
Calling == [to : Envs \union {None}, value : Values \union {None}, page : BOOLEAN]
CallOK ==
    /\ call \in [Envs -> Calling]
    /\ \A e \in Envs : pc[e] \in {"try", "yield"} =>
                          call[e].to \in Envs /\ call[e].value \in Values

(* Whoever has been woken has a message to read. *)
WokenOK ==
    \A e \in Envs : pc[e] = "woken" =>
        /\ from[e] \in Envs /\ value[e] \in Values
        /\ perm[e] /\ dstva[e] => window[e] \in Envs

IpcInv == TypeOK /\ CallOK /\ WokenOK

USE IpcAssumption

LEMMA InitInv == Init => IpcInv
BY DEF Init, IpcInv, TypeOK, CallOK, WokenOK, NoCall, Exists, Calling

----------------------------------------------------------------------------
(* The invariant, action by action. *)

LEMMA RecvInv ==
    ASSUME IpcInv, NEW e \in Envs, IpcRecv(e) PROVE IpcInv'
BY DEF IpcInv, TypeOK, CallOK, WokenOK, NoCall, Exists, Calling, IpcRecv, Calls, Goto

LEMMA ReceivedInv ==
    ASSUME IpcInv, NEW e \in Envs, IpcReceived(e) PROVE IpcInv'
BY DEF IpcInv, TypeOK, CallOK, WokenOK, NoCall, Exists, Calling, IpcReceived, Goto

LEMMA SendInv ==
    ASSUME IpcInv, NEW e \in Envs, IpcSend(e) PROVE IpcInv'
BY DEF IpcInv, TypeOK, CallOK, WokenOK, NoCall, Exists, Calling, IpcSend, Calls, Goto

LEMMA YieldInv ==
    ASSUME IpcInv, NEW e \in Envs, SendLater(e) \/ Yield(e) PROVE IpcInv'
<1>1. \E to \in {"try", "yield"} : pc' = [pc EXCEPT ![e] = to]
  BY DEF SendLater, Yield, Goto, Retries
<1>2. pc[e] \in {"try", "yield"} /\ UNCHANGED <<call, recving, dstva, value, from, perm, source, window>>
  BY DEF SendLater, Yield, Tries
<1> QED
  BY <1>1, <1>2 DEF IpcInv, TypeOK, CallOK, WokenOK, NoCall, Exists, Calling

LEMMA DestroyInv ==
    ASSUME IpcInv, NEW e \in Envs, Destroy(e) PROVE IpcInv'
BY DEF IpcInv, TypeOK, CallOK, WokenOK, NoCall, Exists, Calling, Destroy, Goto

LEMMA HaltsInv ==
    ASSUME IpcInv, NEW e \in Envs, SendHalts(e) PROVE IpcInv'
BY DEF IpcInv, TypeOK, CallOK, WokenOK, NoCall, Exists, Calling, SendHalts

LEMMA FailsInv ==
    ASSUME IpcInv, NEW e \in Envs, SendFails(e) PROVE IpcInv'
BY DEF IpcInv, TypeOK, CallOK, WokenOK, NoCall, Exists, Calling, SendFails, Panics, Goto,
       Tries, Meets

(* A target that receives is no other than one that sleeps in ipc_recv().    *)
LEMMA TargetSleeps ==
    ASSUME IpcInv, NEW e \in Envs, Meets(e)
    PROVE  To(e) \in Envs /\ To(e) # e /\ pc[To(e)] = "recv" /\ pc[e] = "try"
BY DEF IpcInv, TypeOK, CallOK, Meets, Tries, Exists, To

LEMMA WipesInv ==
    ASSUME IpcInv, NEW e \in Envs, SendWipes(e) PROVE IpcInv'
<1>1. To(e) \in Envs /\ To(e) # e /\ pc[To(e)] = "recv" /\ pc[e] = "try"
  BY TargetSleeps DEF SendWipes
<1> QED
  BY <1>1 DEF IpcInv, TypeOK, CallOK, WokenOK, NoCall, Exists, Calling, SendWipes, Panics, Goto

LEMMA DeliversInv ==
    ASSUME IpcInv, NEW e \in Envs, SendDelivers(e) PROVE IpcInv'
<1> DEFINE r == To(e)
<1>1. r \in Envs /\ r # e /\ pc[r] = "recv" /\ pc[e] = "try"
  BY TargetSleeps DEF SendDelivers
<1>2. r = call[e].to /\ call[e].value \in Values /\ call[e].page \in BOOLEAN
  BY <1>1 DEF IpcInv, CallOK, Calling, To
<1> HIDE DEF r
<1>3. /\ recving' = [recving EXCEPT ![r] = FALSE]
      /\ value' = [value EXCEPT ![r] = call[e].value]
      /\ from' = [from EXCEPT ![r] = e]
      /\ perm' = IF call[e].page /\ ~dstva[r] THEN perm ELSE [perm EXCEPT ![r] = call[e].page]
      /\ window' = IF call[e].page /\ dstva[r] THEN [window EXCEPT ![r] = e] ELSE window
      /\ pc' = [pc EXCEPT ![r] = "woken", ![e] = "run"]
      /\ call' = [call EXCEPT ![e] = NoCall]
      /\ UNCHANGED <<dstva, source, calls>>
  BY DEF SendDelivers, Receiving, Awake, Takes, r
<1>4. TypeOK'
  <2>1. call'[e] = NoCall /\ \A f \in Envs \ {e} : call'[f] = call[f]
    BY <1>3 DEF IpcInv, CallOK
  <2>2. /\ pc' \in [Envs -> {"run", "try", "yield", "recv", "woken", "gone", "panicked"}]
        /\ pc'[e] = "run" /\ pc'[r] = "woken" /\ \A f \in Envs \ {e, r} : pc'[f] = pc[f]
    BY <1>1, <1>3 DEF IpcInv, TypeOK
  <2>3. /\ recving' \in [Envs -> BOOLEAN]
        /\ ~recving'[r] /\ \A f \in Envs \ {r} : recving'[f] = recving[f]
    BY <1>1, <1>3 DEF IpcInv, TypeOK
  <2>4. perm' \in [Envs -> BOOLEAN]
    BY <1>2, <1>3 DEF IpcInv, TypeOK
  <2>5. /\ value' \in [Envs -> Values \union {None}] /\ from' \in [Envs -> Envs \union {None}]
        /\ window' \in [Envs -> Envs \union {Zero, None}]
    BY <1>1, <1>2, <1>3 DEF IpcInv, TypeOK
  <2>6. \A f \in Envs : pc'[f] \in {"try", "yield"} <=> call'[f] # NoCall
    BY <1>1, <2>1, <2>2 DEF IpcInv, TypeOK
  <2>7. \A f \in Envs : Exists(f)' => (recving'[f] <=> pc'[f] = "recv")
    BY <1>1, <2>2, <2>3 DEF IpcInv, TypeOK, Exists
  <2> QED
    BY <1>3, <2>2, <2>3, <2>4, <2>5, <2>6, <2>7 DEF IpcInv, TypeOK
<1>5. CallOK'
  BY <1>1, <1>3 DEF IpcInv, TypeOK, CallOK, Calling, NoCall
<1>6. WokenOK'
  BY <1>1, <1>2, <1>3 DEF IpcInv, TypeOK, WokenOK
<1> QED
  BY <1>4, <1>5, <1>6 DEF IpcInv

LEMMA StepInv == IpcInv /\ [Next]_vars => IpcInv'
<1> SUFFICES ASSUME IpcInv, [Next]_vars PROVE IpcInv'
  OBVIOUS
<1>1. CASE UNCHANGED vars
  BY <1>1 DEF vars, IpcInv, TypeOK, CallOK, WokenOK, Exists
<1>2. ASSUME NEW e \in Envs, InCall(e) \/ IpcRecv(e) \/ IpcSend(e) \/ Destroy(e)
      PROVE  IpcInv'
  BY <1>2, RecvInv, ReceivedInv, SendInv, YieldInv, DestroyInv, HaltsInv, FailsInv, WipesInv,
     DeliversInv DEF InCall, TrySend
<1> QED
  BY <1>1, <1>2 DEF Next

THEOREM IpcInvariant == Spec => []IpcInv
BY InitInv, StepInv, PTL DEF Spec

(* Whatever programs send to each other, whoever fails or is destroyed, the  *)
(* fields of each environment have their types, one receives exactly while   *)
(* it sleeps in ipc_recv(), and one sends exactly while it has a call.       *)
THEOREM TypeCorrect == Spec => []TypeOK
<1>1. IpcInv => TypeOK
  BY DEF IpcInv
<1> QED
  BY <1>1, IpcInvariant, PTL

----------------------------------------------------------------------------
(* The refinement.  First, the mapping at one environment. *)

LEMMA Idle ==
    ASSUME IpcInv, NEW e \in Envs, pc[e] \in {"run", "gone", "panicked"}
    PROVE  Sending[e] = None /\ Inbox[e] = None
<1>1. call[e] = NoCall
  BY DEF IpcInv, TypeOK
<1> QED
  BY <1>1 DEF Sending, Inbox

LEMMA Asks ==
    ASSUME IpcInv, NEW e \in Envs, pc[e] = "recv"
    PROVE  Sending[e] = None /\ Inbox[e] = [wants |-> dstva[e]] /\ Inbox[e] \in Request
<1>1. call[e] = NoCall
  BY DEF IpcInv, TypeOK
<1>2. dstva[e] \in BOOLEAN
  BY DEF IpcInv, TypeOK
<1> QED
  BY <1>1, <1>2 DEF Sending, Inbox, Request

LEMMA HasMessage ==
    ASSUME IpcInv, NEW e \in Envs, pc[e] = "woken"
    PROVE  /\ Sending[e] = None
           /\ Inbox[e] = [from |-> from[e], value |-> value[e],
                          page |-> IF perm[e] /\ dstva[e] THEN window[e] ELSE None]
           /\ Inbox[e] \in Given
<1>1. call[e] = NoCall
  BY DEF IpcInv, TypeOK
<1>2. from[e] \in Envs /\ value[e] \in Values
      /\ (IF perm[e] /\ dstva[e] THEN window[e] ELSE None) \in Envs \union {None}
  BY DEF IpcInv, WokenOK
<1> QED
  BY <1>1, <1>2 DEF Sending, Inbox, Given

LEMMA Sends ==
    ASSUME IpcInv, NEW e \in Envs, pc[e] \in {"try", "yield"}
    PROVE  /\ Inbox[e] = None
           /\ Sending[e] = [to |-> call[e].to, value |-> call[e].value,
                            page |-> IF call[e].page THEN e ELSE None]
           /\ Sending[e] \in Message
<1>1. call[e] # NoCall
  BY DEF IpcInv, TypeOK
<1>2. call[e] \in Calling /\ call[e].to \in Envs /\ call[e].value \in Values
  BY DEF IpcInv, CallOK
<1>3. [call[e] EXCEPT !.page = IF @ THEN e ELSE None]
        = [to |-> call[e].to, value |-> call[e].value, page |-> IF call[e].page THEN e ELSE None]
  BY <1>2 DEF Calling
<1>4. Inbox[e] = None
  BY DEF Inbox
<1> QED
  BY <1>1, <1>2, <1>3, <1>4 DEF Sending, Message

(* What somebody else's step leaves alone. *)
LEMMA Unmoved ==
    ASSUME NEW f \in Envs, pc'[f] = pc[f], call'[f] = call[f], dstva'[f] = dstva[f],
           pc[f] = "woken" => /\ from'[f] = from[f] /\ value'[f] = value[f]
                              /\ perm'[f] = perm[f] /\ window'[f] = window[f]
    PROVE  Sending'[f] = Sending[f] /\ Inbox'[f] = Inbox[f]
BY DEF Sending, Inbox

LEMMA Moved ==
    ASSUME NEW e \in Envs, NEW x, NEW y, Sending'[e] = x, Inbox'[e] = y,
           \A f \in Envs \ {e} : Sending'[f] = Sending[f] /\ Inbox'[f] = Inbox[f]
    PROVE  /\ Sending' = [Sending EXCEPT ![e] = x] /\ (x = Sending[e] => Sending' = Sending)
           /\ Inbox' = [Inbox EXCEPT ![e] = y] /\ (y = Inbox[e] => Inbox' = Inbox)
<1>1. /\ Sending = [f \in Envs |-> Sending[f]] /\ Sending' = [f \in Envs |-> Sending'[f]]
      /\ Inbox = [f \in Envs |-> Inbox[f]] /\ Inbox' = [f \in Envs |-> Inbox'[f]]
  BY DEF Sending, Inbox
<1> QED
  BY <1>1

LEMMA InitMaps == Init => R!Init
BY DEF Init, R!Init, Sending, Inbox

LEMMA RecvMaps ==
    ASSUME IpcInv, NEW e \in Envs, IpcRecv(e) PROVE R!Receive(e)
<1>1. pc[e] = "run" /\ pc'[e] = "recv" /\ call' = call /\ dstva'[e] \in BOOLEAN
  BY DEF IpcRecv, Calls, Goto, IpcInv, TypeOK
<1>2. Sending[e] = None /\ Inbox[e] = None /\ call[e] = NoCall
  BY <1>1, Idle DEF IpcInv, TypeOK
<1>3. Sending'[e] = None /\ Inbox'[e] = [wants |-> dstva'[e]]
  BY <1>1, <1>2 DEF Sending, Inbox
<1>4. \A f \in Envs \ {e} : Sending'[f] = Sending[f] /\ Inbox'[f] = Inbox[f]
  BY Unmoved DEF IpcRecv, Goto, IpcInv, TypeOK
<1>5. Sending' = Sending /\ Inbox' = [Inbox EXCEPT ![e] = [wants |-> dstva'[e]]]
  BY <1>2, <1>3, <1>4, Moved
<1> QED
  BY <1>1, <1>2, <1>5 DEF R!Receive, R!Waiting

LEMMA SendMaps ==
    ASSUME IpcInv, NEW e \in Envs, IpcSend(e) PROVE R!Send(e)
<1>1. Sending[e] = None /\ Inbox[e] = None
  BY Idle DEF IpcSend, Calls
<1>2. PICK to \in Envs, v \in Values, pg \in BOOLEAN :
          call' = [call EXCEPT ![e] = [to |-> to, value |-> v, page |-> pg]]
  BY DEF IpcSend
<1>3. call'[e] = [to |-> to, value |-> v, page |-> pg] /\ pc'[e] = "try"
  BY <1>2 DEF IpcSend, Goto, IpcInv, TypeOK, CallOK
<1> DEFINE m == [to |-> to, value |-> v, page |-> IF pg THEN e ELSE None]
<1>4. Sending'[e] = m /\ Inbox'[e] = None
  BY <1>3 DEF Sending, Inbox, NoCall
<1>5. \A f \in Envs \ {e} : Sending'[f] = Sending[f] /\ Inbox'[f] = Inbox[f]
  BY <1>2, Unmoved DEF IpcSend, Goto, IpcInv, TypeOK, CallOK
<1>6. m \in R!Message
  BY DEF R!Message
<1> HIDE DEF m
<1>7. Sending' = [Sending EXCEPT ![e] = m] /\ Inbox' = Inbox
  BY <1>1, <1>4, <1>5, Moved
<1> QED
  BY <1>1, <1>6, <1>7 DEF R!Send

LEMMA ReceivedMaps ==
    ASSUME IpcInv, NEW e \in Envs, IpcReceived(e) PROVE R!Take(e)
<1>1. pc[e] = "woken" /\ pc'[e] = "run" /\ call' = call
  BY DEF IpcReceived, Goto, IpcInv, TypeOK
<1>2. Sending[e] = None /\ Inbox[e] \in Given /\ call[e] = NoCall
  BY <1>1, HasMessage DEF IpcInv, TypeOK
<1>3. Inbox[e] # None /\ ~R!Waits(e)
  BY <1>2, NoneAssumption DEF Given, R!Waits, R!Waiting
<1>4. Sending'[e] = None /\ Inbox'[e] = None
  BY <1>1, <1>2 DEF Sending, Inbox
<1>5. \A f \in Envs \ {e} : Sending'[f] = Sending[f] /\ Inbox'[f] = Inbox[f]
  BY Unmoved DEF IpcReceived, Goto, IpcInv, TypeOK
<1>6. Sending' = Sending /\ Inbox' = [Inbox EXCEPT ![e] = None]
  BY <1>2, <1>4, <1>5, Moved
<1> QED
  BY <1>3, <1>6 DEF R!Take

LEMMA LaterMaps ==
    ASSUME IpcInv, NEW e \in Envs, SendLater(e) \/ Yield(e)
    PROVE  UNCHANGED <<Sending, Inbox>>
<1>1. \E to \in {"try", "yield"} : pc' = [pc EXCEPT ![e] = to]
  BY DEF SendLater, Yield, Goto, Retries
<1>2. pc[e] \in {"try", "yield"} /\ UNCHANGED <<call, dstva, value, from, perm, window>>
  BY DEF SendLater, Yield, Tries
<1>3. Sending' = Sending
  BY <1>2 DEF Sending
<1>4. \A f \in Envs : Inbox'[f] = Inbox[f]
  BY <1>1, <1>2 DEF Inbox, IpcInv, TypeOK
<1>5. Inbox = [f \in Envs |-> Inbox[f]] /\ Inbox' = [f \in Envs |-> Inbox'[f]]
  BY DEF Inbox
<1> QED
  BY <1>3, <1>4, <1>5

(* A sender that is gone, or panicked, leaves its message. *)
LEMMA LeaveMaps ==
    ASSUME IpcInv, NEW e \in Envs, NEW to \in {"gone", "panicked"}, Goto(e, to),
           call' = [call EXCEPT ![e] = NoCall],
           UNCHANGED <<dstva, value, from, perm>>,
           \A f \in Envs : pc[f] = "woken" => window'[f] = window[f]
    PROVE  R!Leave(e)
<1>1. pc'[e] = to /\ call'[e] = NoCall
  BY DEF Goto, IpcInv, TypeOK, CallOK
<1>2. Sending'[e] = None /\ Inbox'[e] = None
  BY <1>1 DEF Sending, Inbox
<1>3. \A f \in Envs \ {e} : Sending'[f] = Sending[f] /\ Inbox'[f] = Inbox[f]
  BY Unmoved DEF Goto, IpcInv, TypeOK, CallOK
<1> QED
  BY <1>2, <1>3, Moved DEF R!Leave

LEMMA FailsMaps ==
    ASSUME IpcInv, NEW e \in Envs, SendFails(e) \/ Destroy(e) PROVE R!Leave(e)
BY LeaveMaps DEF SendFails, Panics, Destroy

LEMMA WipesMaps ==
    ASSUME IpcInv, NEW e \in Envs, SendWipes(e) PROVE R!Leave(e)
<1>1. To(e) \in Envs /\ pc[To(e)] = "recv"
  BY TargetSleeps DEF SendWipes
<1>2. \A f \in Envs : pc[f] = "woken" => window'[f] = window[f]
  BY <1>1 DEF SendWipes, IpcInv, TypeOK
<1> QED
  BY <1>2, LeaveMaps DEF SendWipes, Panics

LEMMA HaltsMaps ==
    ASSUME NEW e \in Envs, SendHalts(e) PROVE R!Halt
BY DEF SendHalts, R!Halt, Sending, Inbox

LEMMA DeliversMaps ==
    ASSUME IpcInv, NEW e \in Envs, SendDelivers(e) PROVE R!Meet(e, To(e))
<1> DEFINE r == To(e)
           given == [from |-> e, value |-> call[e].value,
                     page |-> IF call[e].page /\ dstva[r] THEN e ELSE None]
<1>1. r \in Envs /\ r # e /\ pc[r] = "recv" /\ pc[e] = "try" /\ call[r] = NoCall
  BY TargetSleeps DEF SendDelivers, IpcInv, TypeOK
<1>2. r = call[e].to /\ call[e].page \in BOOLEAN /\ dstva[r] \in BOOLEAN
  BY <1>1 DEF IpcInv, TypeOK, CallOK, Calling, To
<1> HIDE DEF r
<1>3. /\ value' = [value EXCEPT ![r] = call[e].value]
      /\ from' = [from EXCEPT ![r] = e]
      /\ perm' = IF call[e].page /\ ~dstva[r] THEN perm ELSE [perm EXCEPT ![r] = call[e].page]
      /\ window' = IF call[e].page /\ dstva[r] THEN [window EXCEPT ![r] = e] ELSE window
      /\ pc' = [pc EXCEPT ![r] = "woken", ![e] = "run"]
      /\ call' = [call EXCEPT ![e] = NoCall]
      /\ dstva' = dstva
  BY DEF SendDelivers, Awake, Takes, r
<1>4. /\ Sending[e] = [to |-> r, value |-> call[e].value,
                       page |-> IF call[e].page THEN e ELSE None]
      /\ Sending[e] \in Message /\ Inbox[e] = None
  BY <1>1, <1>2, Sends
<1>5. Sending[r] = None /\ Inbox[r] = [wants |-> dstva[r]] /\ Inbox[r] \in Request
  BY <1>1, Asks
<1>6. pc'[r] = "woken" /\ pc'[e] = "run" /\ call'[e] = NoCall /\ call'[r] = NoCall
  BY <1>1, <1>3 DEF IpcInv, TypeOK, CallOK
<1>7. Inbox'[r] = given
  <2>1. from'[r] = e /\ value'[r] = call[e].value
    BY <1>1, <1>3 DEF IpcInv, TypeOK
  <2>2. (IF perm'[r] /\ dstva'[r] THEN window'[r] ELSE None)
          = (IF call[e].page /\ dstva[r] THEN e ELSE None)
    BY <1>1, <1>2, <1>3 DEF IpcInv, TypeOK
  <2>3. Inbox'[r] = [from |-> from'[r], value |-> value'[r],
                     page |-> IF perm'[r] /\ dstva'[r] THEN window'[r] ELSE None]
    BY <1>1, <1>6 DEF Inbox
  <2> QED
    BY <2>1, <2>2, <2>3
<1>8. Inbox'[e] = None /\ Sending'[e] = None /\ Sending'[r] = None
  BY <1>1, <1>6 DEF Inbox, Sending
<1>9. \A f \in Envs \ {e, r} : Sending'[f] = Sending[f] /\ Inbox'[f] = Inbox[f]
  BY <1>1, <1>3, Unmoved DEF IpcInv, TypeOK, CallOK
<1> HIDE DEF given
<1>10. Sending' = [Sending EXCEPT ![e] = None] /\ Inbox' = [Inbox EXCEPT ![r] = given]
  <2>1. /\ Sending = [f \in Envs |-> Sending[f]] /\ Sending' = [f \in Envs |-> Sending'[f]]
        /\ Inbox = [f \in Envs |-> Inbox[f]] /\ Inbox' = [f \in Envs |-> Inbox'[f]]
    BY DEF Sending, Inbox
  <2> QED
    BY <1>1, <1>4, <1>5, <1>7, <1>8, <1>9, <2>1
<1>11. given = [from |-> e, value |-> Sending[e].value,
                page |-> IF Inbox[r].wants THEN Sending[e].page ELSE None]
  BY <1>2, <1>4, <1>5 DEF given
<1>12. Sending[e] # None /\ Sending[e].to = r /\ R!Waits(r)
  BY <1>4, <1>5, NoneAssumption DEF R!Waits, R!Waiting, Request
<1>13. R!Meet(e, r)
  BY <1>10, <1>11, <1>12 DEF R!Meet
<1> QED
  BY <1>13 DEF r

LEMMA StepMaps == IpcInv /\ [Next]_vars => [R!Next]_(R!vars)
<1> SUFFICES ASSUME IpcInv, [Next]_vars PROVE [R!Next]_(R!vars)
  OBVIOUS
<1>1. CASE UNCHANGED vars
  BY <1>1 DEF vars, R!vars, Sending, Inbox
<1>2. ASSUME NEW e \in Envs, InCall(e) \/ IpcRecv(e) \/ IpcSend(e) \/ Destroy(e)
      PROVE  [R!Next]_(R!vars)
  <2>1. CASE IpcRecv(e)
    BY <2>1, RecvMaps DEF R!Next
  <2>2. CASE IpcSend(e)
    BY <2>2, SendMaps DEF R!Next
  <2>3. CASE IpcReceived(e)
    BY <2>3, ReceivedMaps DEF R!Next
  <2>4. CASE SendLater(e) \/ Yield(e)
    BY <2>4, LaterMaps DEF R!vars
  <2>5. CASE SendFails(e) \/ Destroy(e)
    BY <2>5, FailsMaps DEF R!Next
  <2>6. CASE SendWipes(e)
    BY <2>6, WipesMaps DEF R!Next
  <2>7. CASE SendHalts(e)
    BY <2>7, HaltsMaps DEF R!Next
  <2>8. CASE SendDelivers(e)
    <3>1. To(e) \in Envs
      BY <2>8, TargetSleeps DEF SendDelivers
    <3> QED
      BY <2>8, <3>1, DeliversMaps DEF R!Next
  <2> QED
    BY <1>2, <2>1, <2>2, <2>3, <2>4, <2>5, <2>6, <2>7, <2>8 DEF InCall, TrySend
<1> QED
  BY <1>1, <1>2 DEF Next

(* ipc_send() and ipc_recv(), with senders that poll and are woken, fail or  *)
(* die at any point, implement the rendezvous: each message is read once by  *)
(* its target as it was sent.                                                *)
THEOREM ImplementsRendezvous == Spec => Messages
<1>1. Spec => R!Init /\ [][R!Next]_(R!vars)
  BY IpcInvariant, InitMaps, StepMaps, PTL DEF Spec
<1> QED
  BY <1>1 DEF Messages, R!Spec
=============================================================================
