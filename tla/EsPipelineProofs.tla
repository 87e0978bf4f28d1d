-------------------------- MODULE EsPipelineProofs --------------------------
(***************************************************************************)
(* Proofs about EsPipeline for every number of slots, callers, requests    *)
(* and faults, with es_server_destroy at any moment.                       *)
(***************************************************************************)
EXTENDS EsPipeline, FiniteSetTheorems, SequenceTheorems, TLAPS

LEMMA AdvanceInSlot == \A i \in -1 .. NSlots - 1 : Advance(i) \in Slot
BY NSlotsAssumption DEF Slot, Advance

(* The control state keeps its types.                                      *)
LEMMA InitControlType == Init => ControlTypeOK
<1> SUFFICES ASSUME Init PROVE ControlTypeOK
  OBVIOUS
<1>1. 0 \in Slot /\ 0 \in -1 .. NSlots - 1 /\ 0 \in AllSlots /\ NSlots \in Nat
  BY NSlotsAssumption DEF Slot, AllSlots
<1>2. 0 \in 0 .. MaxWaits /\ 0 \in 0 .. MaxLinkFaults /\ 0 \in 0 .. MaxGarbled /\ 0 \in 0 .. MaxMallocFails
  BY BoundsAssumption
<1>3. aidx \in [Callers -> Slot]
  BY <1>1 DEF Init
<1>4. is_run \in BOOLEAN /\ is_over \in BOOLEAN
  BY DEF Init
<1> QED
  BY <1>1, <1>2, <1>3, <1>4 DEF Init, ControlTypeOK

(* What a caller with a slot in hand and a service without faults rely on. *)
Support ==
  /\ Filling # {} => insert_index >= 0
  /\ mallocFails = 0 => insert_index >= 0
  /\ linkFaults = 0 /\ ~is_over => link /\ es_fd

IInv == ControlTypeOK /\ OneCaller /\ Support /\ RingOrder /\ Accounting

(* The control state keeps its types; FillFails steps insert_index back    *)
(* from a slot, never from -1.                                             *)
LEMMA NextControlType == ControlTypeOK /\ Support /\ [Next]_vars => ControlTypeOK'
<1> SUFFICES ASSUME ControlTypeOK, Support, [Next]_vars PROVE ControlTypeOK'
  OBVIOUS
<1> USE DEF ControlTypeOK
<1>1. ASSUME NEW a \in Callers, NEW r \in Requests, Query(a, r) PROVE ControlTypeOK'
  <2> USE DEF Query, idx, sems, sender, receiver, caller, destroyer, net
  <2>1. CASE apc' = [apc EXCEPT ![a] = "lock"] /\ areq' = [areq EXCEPT ![a] = r] /\ UNCHANGED aret
    BY <1>1, <2>1
  <2>2. ASSUME NEW c \in {-2, -3}, aret' = [aret EXCEPT ![a] = c], UNCHANGED <<apc, areq>>
        PROVE  ControlTypeOK'
    BY <1>1, <2>2
  <2> QED
    BY <1>1, <2>1, <2>2
<1>2. ASSUME NEW a \in Callers, LockAsyn(a) PROVE ControlTypeOK'
  BY <1>2 DEF LockAsyn, idx, sems, sender, receiver, caller, destroyer, net
<1>3. ASSUME NEW a \in Callers, InsertIndex(a) PROVE ControlTypeOK'
  <2> USE DEF InsertIndex, sender, receiver, caller, destroyer, net
  <2>1. insert_index' \in Slot /\ insert_index' \in -1 .. NSlots - 1
    BY <1>3, AdvanceInSlot, NSlotsAssumption DEF Slot
  <2>2. free_num' \in Nat
    BY <1>3
  <2>3. CASE insert_index < 0
    BY <1>3, <2>1, <2>2, <2>3
  <2>4. CASE ~(insert_index < 0)
    <3>1. insert_index \in Slot
      BY <2>4, NSlotsAssumption DEF Slot
    <3> QED
      BY <1>3, <2>1, <2>2, <2>4, <3>1
  <2> QED
    BY <2>3, <2>4
<1>4. ASSUME NEW a \in Callers, FillSlot(a) PROVE ControlTypeOK'
  BY <1>4 DEF FillSlot, idx, sender, receiver, caller, destroyer, net
<1>5. ASSUME NEW a \in Callers, FillFails(a) PROVE ControlTypeOK'
  <2>1. insert_index >= 0
    BY <1>5 DEF FillFails, Filling, Support
  <2>2. insert_index' \in -1 .. NSlots - 1
    BY <1>5, <2>1, NSlotsAssumption DEF FillFails
  <2>3. mallocFails' \in 0 .. MaxMallocFails /\ free_num' \in Nat
    BY <1>5, BoundsAssumption DEF FillFails
  <2> QED
    BY <1>5, <2>2, <2>3 DEF FillFails, sender, receiver, caller, destroyer, net
<1>6. CASE SendIndex
  <2>1. Advance(send_index) \in Slot
    BY AdvanceInSlot, NSlotsAssumption DEF Slot
  <2>2. sidx' \in Slot /\ send_index' \in Slot
    BY <1>6, <2>1 DEF SendIndex
  <2>3. send_num' \in Nat /\ spc' \in {"exit", "send"}
    BY <1>6 DEF SendIndex
  <2> QED
    BY <1>6, <2>2, <2>3 DEF SendIndex, callers, receiver, caller, destroyer, net
<1>7. CASE SendRequest \/ SendPost \/ SendMark
  <2>1. CASE SendRequest
    BY <2>1 DEF SendRequest, idx, sems, callers, receiver, caller, destroyer, net
  <2>2. CASE SendPost
    BY <2>2 DEF SendPost, idx, sems, callers, receiver, caller, destroyer, net
  <2>3. CASE SendMark
    BY <2>3 DEF SendMark, idx, sems, callers, receiver, caller, destroyer, net
  <2> QED
    BY <1>7, <2>1, <2>2, <2>3
<1>8. CASE RecvIndex
  <2>1. recv_num' \in Nat
    BY <1>8 DEF RecvIndex
  <2>2. rpc' \in {"exit", "analyse", "recv"}
    BY <1>8 DEF RecvIndex
  <2>3. ridx' \in Slot /\ recv_index' \in Slot
    <3>1. Advance(recv_index) \in Slot
      BY AdvanceInSlot, NSlotsAssumption DEF Slot
    <3> QED
      BY <1>8, <3>1 DEF RecvIndex
  <2> QED
    BY <1>8, <2>1, <2>2, <2>3 DEF RecvIndex, callers, sender, caller, destroyer, net
<1>9. CASE RecvBytes \/ RecvReconnect
  <2>1. CASE RecvBytes
    BY <2>1 DEF RecvBytes, idx, sems, callers, sender, caller, destroyer, net
  <2>2. CASE RecvReconnect
    BY <2>2 DEF RecvReconnect, idx, sems, callers, sender, caller, destroyer, net
  <2> QED
    BY <1>9, <2>1, <2>2
<1>25. CASE RecvCut
  <2>1. garbled' \in 0 .. MaxGarbled /\ rpc' = "analyse"
    BY <1>25, BoundsAssumption DEF RecvCut
  <2> QED
    BY <1>25, <2>1 DEF RecvCut, idx, sems, callers, sender, caller, destroyer
<1>24. CASE AnalyseBad
  <2>1. garbled' \in 0 .. MaxGarbled /\ rpc' = "done"
    BY <1>24, BoundsAssumption DEF AnalyseBad
  <2> QED
    BY <1>24, <2>1 DEF AnalyseBad, idx, sems, callers, sender, caller, destroyer
<1>20. CASE Analyse
  <2>1. rpc' \in {"done", "recv"}
    BY <1>20 DEF Analyse
  <2> QED
    BY <1>20, <2>1 DEF Analyse, idx, sems, callers, sender, caller, destroyer, net
<1>21. CASE RecvDone
  BY <1>21 DEF RecvDone, idx, sems, callers, sender, caller, destroyer, net
<1>10. CASE AnalyseFails
  <2>1. mallocFails' \in 0 .. MaxMallocFails
    BY <1>10, BoundsAssumption DEF AnalyseFails
  <2>2. is_run' \in BOOLEAN /\ is_over' \in BOOLEAN
    BY <1>10 DEF AnalyseFails, AnalyseBad, RecvCut
  <2> QED
    BY <1>10, <2>1, <2>2 DEF AnalyseFails, AnalyseBad, RecvCut, idx, sems, callers, sender, caller, destroyer, net
<1>11. CASE CallIndex
  BY <1>11, AdvanceInSlot, NSlotsAssumption
  DEF CallIndex, Slot, callers, sender, receiver, destroyer
<1>12. CASE CallBack \/ ReleaseSlot
  BY <1>12 DEF CallBack, ReleaseSlot, idx, sems, callers, sender, receiver, destroyer, net
<1>22. CASE ReleasePool \/ ReleaseUnset
  BY <1>22 DEF ReleasePool, ReleaseUnset, idx, sems, callers, sender, receiver, destroyer, net
<1>13. CASE ReleaseFree
  BY <1>13 DEF ReleaseFree, idx, callers, sender, receiver, destroyer, net
<1>14. CASE ServerReply
  BY <1>14 DEF ServerReply, idx, sems, callers, sender, receiver, caller, destroyer
<1>15. CASE LoseLink
  BY <1>15, BoundsAssumption DEF LoseLink, idx, sems, callers, sender, receiver, caller,
     destroyer
<1>16. CASE StopRun
  <2>1. is_run' \in BOOLEAN /\ is_over' \in BOOLEAN
    BY <1>16 DEF StopRun
  <2> QED
    BY <1>16, <2>1 DEF StopRun, idx, sems, callers, sender, receiver, caller, net
<1>23. CASE FreeSlot
  BY <1>23 DEF FreeSlot, idx, sems, callers, sender, receiver, caller, net
<1>17. CASE WaitSlot \/ UnsetSlot
  BY <1>17, BoundsAssumption, NSlotsAssumption
  DEF WaitSlot, UnsetSlot, AllSlots, idx, sems, callers, sender, receiver, caller, net
<1>18. CASE SetOver
  BY <1>18 DEF SetOver, idx, callers, sender, receiver, caller
<1>19. CASE UNCHANGED vars
  BY <1>19 DEF vars, idx, sems, callers, sender, receiver, caller, destroyer, net
<1> QED
  BY <1>1, <1>2, <1>3, <1>4, <1>5, <1>6, <1>7, <1>8, <1>9, <1>10, <1>11, <1>12, <1>13,
     <1>14, <1>15, <1>16, <1>17, <1>18, <1>19, <1>20, <1>21, <1>22, <1>23, <1>24, <1>25
  DEF Next, Caller, Sender, Receiver, CallbackThread, Destroyer

-----------------------------------------------------------------------------
(* At most one caller fills a slot, so the ring counts at most one.        *)
LEMMA FillingCard ==
  OneCaller => /\ Cardinality(Filling) \in {0, 1}
               /\ Cardinality(Filling) = 0 <=> Filling = {}
               /\ \A a, b \in Filling : a = b
<1> SUFFICES ASSUME OneCaller
             PROVE  /\ Cardinality(Filling) \in {0, 1}
                    /\ Cardinality(Filling) = 0 <=> Filling = {}
                    /\ \A a, b \in Filling : a = b
  OBVIOUS
<1>1. \A a, b \in Filling : a = b
  BY DEF OneCaller, Filling
<1>2. CASE Filling = {}
  BY <1>2, FS_EmptySet
<1>3. CASE Filling # {}
  <2>1. PICK a : Filling = {a}
    BY <1>1, <1>3
  <2>2. Cardinality(Filling) = 1
    BY <2>1, FS_Singleton
  <2> QED
    BY <1>1, <1>3, <2>2
<1> QED
  BY <1>2, <1>3

(* Going round the ring.                                                   *)
LEMMA PlusType == \A i \in Slot, k \in 0 .. NSlots : Plus(i, k) \in Slot
BY NSlotsAssumption DEF Plus, Slot

LEMMA PlusAdvance ==
  \A i \in Slot, k \in 0 .. NSlots - 1 : /\ Advance(Plus(i, k)) = Plus(i, k + 1)
                                        /\ Plus(Advance(i), k) = Plus(i, k + 1)
                                        /\ Advance(i) = Plus(i, 1)
BY NSlotsAssumption DEF Plus, Slot, Advance

LEMMA PlusZero == \A i \in Slot : Plus(i, 0) = i
BY NSlotsAssumption DEF Plus, Slot

-----------------------------------------------------------------------------
LEMMA NextOneCaller == ControlTypeOK /\ OneCaller /\ [Next]_vars => OneCaller'
<1> SUFFICES ASSUME ControlTypeOK, OneCaller, [Next]_vars PROVE OneCaller'
  OBVIOUS
<1>0. apc \in [Callers -> {"idle", "lock", "insert", "fill"}]
  BY DEF ControlTypeOK
<1>1. ASSUME NEW a \in Callers, NEW r \in Requests, Query(a, r) PROVE OneCaller'
  BY <1>0, <1>1 DEF Query, OneCaller
<1>2. ASSUME NEW a \in Callers, LockAsyn(a) PROVE OneCaller'
  BY <1>0, <1>2, CallersAssumption DEF LockAsyn, OneCaller
<1>3. ASSUME NEW a \in Callers, InsertIndex(a) PROVE OneCaller'
  BY <1>0, <1>3 DEF InsertIndex, OneCaller
<1>4. ASSUME NEW a \in Callers, FillSlot(a) \/ FillFails(a) PROVE OneCaller'
  BY <1>0, <1>4 DEF FillSlot, FillFails, OneCaller
<1>5. CASE UNCHANGED callers
  BY <1>5 DEF callers, OneCaller
<1>6. CASE Sender \/ Receiver \/ RecvCut \/ AnalyseBad \/ AnalyseFails
  BY <1>5, <1>6 DEF Sender, SendIndex, SendRequest, SendPost, SendMark, Receiver, RecvIndex,
     RecvBytes, RecvReconnect, Analyse, RecvDone, AnalyseFails, AnalyseBad, RecvCut
<1>7. CASE CallbackThread
  BY <1>5, <1>7 DEF CallbackThread, CallIndex, CallBack, ReleaseSlot, ReleasePool, ReleaseUnset,
     ReleaseFree
<1>8. CASE ServerReply \/ LoseLink \/ StopRun \/ Destroyer
  BY <1>5, <1>8 DEF ServerReply, LoseLink, StopRun, Destroyer, WaitSlot, FreeSlot, UnsetSlot,
     SetOver
<1>9. CASE UNCHANGED vars
  BY <1>5, <1>9 DEF vars
<1> QED
  BY <1>1, <1>2, <1>3, <1>4, <1>6, <1>7, <1>8, <1>9 DEF Next, Caller

-----------------------------------------------------------------------------
LEMMA NextSupport == ControlTypeOK /\ OneCaller /\ Support /\ [Next]_vars => Support'
<1> SUFFICES ASSUME ControlTypeOK, OneCaller, Support, [Next]_vars PROVE Support'
  OBVIOUS
<1>0. /\ apc \in [Callers -> {"idle", "lock", "insert", "fill"}]
      /\ insert_index \in -1 .. NSlots - 1
      /\ linkFaults \in Nat /\ mallocFails \in Nat
  BY BoundsAssumption DEF ControlTypeOK
<1>1. ASSUME NEW a \in Callers, NEW r \in Requests, Query(a, r) PROVE Support'
  <2>1. Filling' = Filling
    BY <1>0, <1>1 DEF Query, Filling
  <2> QED
    BY <1>1, <2>1 DEF Query, Support, idx, net
<1>2. ASSUME NEW a \in Callers, LockAsyn(a) PROVE Support'
  <2>1. Filling' = Filling
    BY <1>0, <1>2 DEF LockAsyn, Filling
  <2> QED
    BY <1>2, <2>1 DEF LockAsyn, Support, idx, net
<1>3. ASSUME NEW a \in Callers, InsertIndex(a) PROVE Support'
  <2>1. insert_index' >= 0
    BY <1>0, <1>3, AdvanceInSlot, NSlotsAssumption DEF InsertIndex, Slot
  <2> QED
    BY <1>3, <2>1 DEF InsertIndex, Support, net
<1>4. ASSUME NEW a \in Callers, FillSlot(a) PROVE Support'
  <2>1. Filling' \subseteq Filling
    BY <1>0, <1>4 DEF FillSlot, Filling
  <2> QED
    BY <1>4, <2>1 DEF FillSlot, Support, idx, net
<1>5. ASSUME NEW a \in Callers, FillFails(a) PROVE Support'
  <2>1. Filling' = {}
    BY <1>0, <1>5 DEF FillFails, Filling, OneCaller
  <2>2. mallocFails' # 0
    BY <1>0, <1>5 DEF FillFails
  <2> QED
    BY <1>5, <2>1, <2>2 DEF FillFails, Support, net
<1>6. CASE UNCHANGED <<insert_index, apc, mallocFails, linkFaults, is_over, link, es_fd>>
  BY <1>6 DEF Support, Filling
<1>7. CASE Sender
  BY <1>6, <1>7 DEF Sender, SendIndex, SendRequest, SendPost, SendMark, idx, callers, net
<1>8. CASE RecvIndex \/ RecvBytes \/ Analyse \/ RecvDone
  BY <1>6, <1>8 DEF RecvIndex, RecvBytes, Analyse, RecvDone, idx, callers, net
<1>18. CASE RecvCut \/ AnalyseBad
  BY <1>6, <1>18 DEF RecvCut, AnalyseBad, idx, callers
<1>9. CASE RecvReconnect
  BY <1>9 DEF RecvReconnect, Support, Filling, idx, callers
<1>10. CASE AnalyseFails
  <2>1. mallocFails' # 0
    BY <1>0, <1>10 DEF AnalyseFails, AnalyseBad, RecvCut
  <2> QED
    BY <1>10, <2>1 DEF AnalyseFails, AnalyseBad, RecvCut, Support, Filling, idx, callers, net
<1>11. CASE CallIndex
  BY <1>11 DEF CallIndex, Support, Filling, callers
<1>12. CASE CallBack \/ ReleaseSlot \/ ReleasePool \/ ReleaseUnset \/ ReleaseFree
  BY <1>6, <1>12 DEF CallBack, ReleaseSlot, ReleasePool, ReleaseUnset, ReleaseFree, idx, callers,
     net
<1>13. CASE ServerReply
  BY <1>6, <1>13 DEF ServerReply, idx, callers
<1>14. CASE LoseLink
  <2>1. linkFaults' # 0
    BY <1>0, <1>14 DEF LoseLink
  <2> QED
    BY <1>14, <2>1 DEF LoseLink, Support, Filling, idx, callers
<1>15. CASE StopRun \/ WaitSlot \/ FreeSlot \/ UnsetSlot
  BY <1>6, <1>15 DEF StopRun, WaitSlot, FreeSlot, UnsetSlot, idx, callers, net
<1>16. CASE SetOver
  BY <1>16 DEF SetOver, Support, Filling, idx, callers
<1>17. CASE UNCHANGED vars
  BY <1>6, <1>17 DEF vars, idx, callers, net
<1> QED
  BY <1>1, <1>2, <1>3, <1>4, <1>5, <1>7, <1>8, <1>9, <1>10, <1>11, <1>12, <1>13, <1>14,
     <1>15, <1>16, <1>17, <1>18
  DEF Next, Caller, Receiver, CallbackThread, Destroyer

-----------------------------------------------------------------------------
(* Everything RingOrder looks at, apart from who holds asyn_mutex.         *)
ringview == <<is_over, idx, sems, aidx, sidx, ridx, cidx, Sending, Receiving, Received, Calling>>

LEMMA RingSame ==
  ASSUME RingOrder, UNCHANGED ringview, UNCHANGED <<Filling, Held>> PROVE RingOrder'
BY DEF RingOrder, InRing, ringview, idx, sems, Plus

(* The ring's order is kept: one step per action that moves a slot from    *)
(* one stage to the next.                                                  *)
LEMMA NextRingOrder ==
  ControlTypeOK /\ OneCaller /\ RingOrder /\ [Next]_vars => RingOrder'
<1> SUFFICES ASSUME ControlTypeOK, OneCaller, RingOrder, [Next]_vars PROVE RingOrder'
  OBVIOUS
<1> DEFINE c == Cardinality(Filling)
<1>0. /\ apc \in [Callers -> {"idle", "lock", "insert", "fill"}]
      /\ asyn_mutex \in Callers \cup {NULL}
      /\ insert_index \in -1 .. NSlots - 1
      /\ send_index \in Slot /\ recv_index \in Slot /\ call_index \in Slot
      /\ free_num \in Nat /\ send_num \in Nat /\ recv_num \in Nat /\ call_num \in Nat
      /\ aidx \in [Callers -> Slot] /\ sidx \in Slot /\ ridx \in Slot /\ cidx \in Slot
      /\ NSlots \in Nat \ {0}
  BY NSlotsAssumption DEF ControlTypeOK
<1>c. c \in {0, 1} /\ (c = 0 <=> Filling = {})
  BY FillingCard
<1>e. Cardinality({}) = 0 /\ \A a : Cardinality({a}) = 1
  BY FS_EmptySet, FS_Singleton
<1>t. Sending \in {0, 1} /\ Receiving \in {0, 1} /\ Calling \in {0, 1} /\ Received \in {0, 1}
  BY DEF Sending, Receiving, Calling, Received
<1>v. ASSUME UNCHANGED callers PROVE UNCHANGED <<Filling, Held>>
  BY <1>v DEF callers, Filling, Held
<1>s. ASSUME UNCHANGED sender PROVE UNCHANGED <<sidx, Sending>>
  BY <1>s DEF sender, Sending
<1>r. ASSUME UNCHANGED <<rpc, ridx>> PROVE UNCHANGED <<ridx, Receiving, Received>>
  BY <1>r DEF Receiving, Received
<1>k. ASSUME UNCHANGED caller PROVE UNCHANGED <<cidx, Calling>>
  BY <1>k DEF caller, Calling
<1>1. ASSUME NEW a \in Callers, NEW r \in Requests, Query(a, r) PROVE RingOrder'
  <2>1. Filling' = Filling
    BY <1>0, <1>1 DEF Query, Filling
  <2>2. Held' <=> Held
    BY <1>0, <1>1 DEF Query, Held
  <2> QED
    BY <1>1, <2>1, <2>2, <1>s, <1>r, <1>k, RingSame DEF Query, ringview, receiver
<1>2. ASSUME NEW a \in Callers, LockAsyn(a) PROVE RingOrder'
  <2>1. UNCHANGED <<Filling, Held>>
    BY <1>0, <1>2, CallersAssumption DEF LockAsyn, Filling, Held
  <2> QED
    BY <1>2, <2>1, <1>s, <1>r, <1>k, RingSame DEF LockAsyn, ringview, receiver
<1>3. ASSUME NEW a \in Callers, InsertIndex(a) PROVE RingOrder'
  <2>1. Filling = {} /\ ~Held
    BY <1>3 DEF InsertIndex, Filling, Held, OneCaller
  <2>2. CASE insert_index < 0
    <3>1. Filling' = {} /\ Held'
      BY <1>0, <1>3, <2>1, <2>2, CallersAssumption DEF InsertIndex, Filling, Held, OneCaller
    <3> QED
      BY <1>0, <1>t, <1>e, <1>3, <2>1, <2>2, <3>1, <1>s, <1>r, <1>k
      DEF InsertIndex, RingOrder, InRing, receiver
  <2>3. CASE ~(insert_index < 0)
    <3>1. Filling' = {a} /\ Cardinality(Filling') = 1 /\ c = 0
      <4>1. Filling' = {a}
        BY <1>0, <1>3, <2>1, <2>3 DEF InsertIndex, Filling
      <4> QED
        BY <4>1, <2>1, <1>e
    <3>2. ~is_over => insert_index = Plus(send_index, send_num)
      BY <1>0, <1>e, <2>1, <2>3 DEF RingOrder
    <3>3. ~is_over => send_num < NSlots
      BY <1>0, <1>t, <1>3, <3>1 DEF InsertIndex, RingOrder, InRing
    <3>4. ~is_over => insert_index' = Plus(send_index, send_num + 1)
      BY <1>0, <1>3, <3>2, <3>3, PlusAdvance DEF InsertIndex
    <3>5. aidx'[a] = insert_index
      BY <1>0, <1>3, <2>3 DEF InsertIndex
    <3> QED
      BY <1>0, <1>t, <1>3, <3>1, <3>2, <3>4, <3>5, <1>s, <1>r, <1>k
      DEF InsertIndex, RingOrder, InRing, receiver
  <2> QED
    BY <2>2, <2>3
<1>4. ASSUME NEW a \in Callers, FillSlot(a) \/ FillFails(a) PROVE RingOrder'
  <2>1. Filling = {a} /\ ~Held
    BY <1>4 DEF FillSlot, FillFails, Filling, Held, OneCaller
  <2>2. Filling' = {}
    BY <1>0, <1>4, <2>1 DEF FillSlot, FillFails, Filling
  <2>c. c = 1 /\ Cardinality(Filling') = 0
    BY <1>e, <2>1, <2>2
  <2>3. ~is_over => insert_index = Plus(send_index, send_num + 1)
    BY <1>0, <2>c, <2>1 DEF RingOrder
  <2>4. CASE FillSlot(a)
    BY <1>0, <1>t, <2>c, <2>2, <2>3, <2>4, <1>s, <1>r, <1>k
    DEF FillSlot, RingOrder, InRing, receiver, idx
  <2>5. CASE FillFails(a)
    <3>1. ASSUME ~is_over
          PROVE  \/ insert_index - 1 = Plus(send_index, send_num)
                 \/ insert_index - 1 = -1 /\ Plus(send_index, send_num) = NSlots - 1
      <4>1. send_num + 1 <= NSlots
        BY <1>0, <1>t, <2>c, <3>1 DEF RingOrder, InRing
      <4> QED
        BY <1>0, <2>3, <3>1, <4>1 DEF Plus, Slot
    <3> QED
      BY <1>0, <1>t, <2>c, <2>2, <2>5, <3>1, <1>s, <1>r, <1>k
      DEF FillFails, RingOrder, InRing, receiver
  <2> QED
    BY <1>4, <2>4, <2>5
<1>5. CASE SendIndex
  <2>1. UNCHANGED <<Filling, Held>>
    BY <1>5, <1>v DEF SendIndex
  <2>2. CASE is_over
    BY <1>5, <2>2 DEF SendIndex, RingOrder
  <2>3. CASE ~is_over
    <3>1. Sending = 0 /\ Sending' = 1
      BY <1>5, <2>3 DEF SendIndex, Sending
    <3>2. send_num + recv_num + c <= NSlots
      BY <1>0, <1>t, <1>c, <2>3 DEF RingOrder, InRing
    <3>3. Plus(send_index', send_num') = Plus(send_index, send_num)
      BY <1>0, <1>c, <1>5, <2>3, <3>2, PlusAdvance DEF SendIndex
    <3>4. Plus(send_index', send_num' + c) = Plus(send_index, send_num + c)
      BY <1>0, <1>c, <1>5, <2>3, <3>2, PlusAdvance DEF SendIndex
    <3>5. send_index = Plus(recv_index, recv_num) /\ send_index' = Plus(recv_index, recv_num + 1)
      BY <1>0, <1>c, <1>5, <2>3, <3>1, <3>2, PlusAdvance DEF SendIndex, RingOrder
    <3> QED
      BY <1>0, <1>t, <1>c, <1>5, <2>1, <2>3, <3>1, <3>3, <3>4, <3>5, <1>r, <1>k
      DEF SendIndex, RingOrder, InRing, receiver, callers
  <2> QED
    BY <2>2, <2>3
<1>6. CASE SendRequest \/ SendMark
  <2>1. UNCHANGED <<sidx, Sending>>
    BY <1>6 DEF SendRequest, SendMark, Sending
  <2> QED
    BY <1>6, <2>1, <1>v, <1>r, <1>k, RingSame
    DEF SendRequest, SendMark, ringview, receiver, callers
<1>7. CASE SendPost
  <2>1. Sending = 1 /\ Sending' = 0
    BY <1>7 DEF SendPost, Sending
  <2> QED
    BY <1>0, <1>t, <1>c, <1>7, <2>1, <1>v, <1>r, <1>k
    DEF SendPost, RingOrder, InRing, receiver, callers, idx
<1>8. CASE RecvIndex
  <2>1. UNCHANGED <<Filling, Held>>
    BY <1>8, <1>v DEF RecvIndex
  <2>2. CASE is_over
    BY <1>8, <2>2 DEF RecvIndex, RingOrder
  <2>3. CASE ~is_over
    <3>1. Receiving = 0 /\ Received = 0 /\ Receiving' = 1 /\ Received' = 1
      BY <1>8, <2>3 DEF RecvIndex, Receiving, Received
    <3>2. recv_num + Sending + call_num <= NSlots
      BY <1>0, <1>t, <1>c, <2>3, <3>1 DEF RingOrder, InRing
    <3>3. Plus(recv_index', recv_num') = Plus(recv_index, recv_num)
      BY <1>0, <1>t, <1>8, <2>3, <3>2, PlusAdvance DEF RecvIndex
    <3>4. Plus(recv_index', recv_num' + Sending) = Plus(recv_index, recv_num + Sending)
      BY <1>0, <1>t, <1>8, <2>3, <3>2, PlusAdvance DEF RecvIndex
    <3>5. recv_index = Plus(call_index, call_num) /\ recv_index' = Plus(call_index, call_num + 1)
      BY <1>0, <1>t, <1>8, <2>3, <3>1, <3>2, PlusAdvance DEF RecvIndex, RingOrder
    <3> QED
      BY <1>0, <1>t, <1>c, <1>8, <2>1, <2>3, <3>1, <3>3, <3>4, <3>5, <1>s, <1>k, SMTT(40)
      DEF RecvIndex, RingOrder, InRing, callers
  <2> QED
    BY <2>2, <2>3
<1>9. CASE RecvBytes \/ Analyse \/ RecvCut \/ AnalyseBad
  <2>1. UNCHANGED <<ridx, Receiving, Received>>
    BY <1>9 DEF RecvBytes, Analyse, RecvCut, AnalyseBad, Receiving, Received
  <2>2. UNCHANGED <<is_over, idx, sems, callers, sender, caller>>
    BY <1>9 DEF RecvBytes, Analyse, RecvCut, AnalyseBad
  <2> QED
    BY <2>1, <2>2, <1>v, <1>s, <1>k, RingSame DEF ringview, callers
<1>10. CASE RecvReconnect \/ AnalyseFails
  <2>1. Receiving = 1 /\ Received = 1 /\ Received' = 1 /\ Receiving' \in {0, 1}
    BY <1>10 DEF RecvReconnect, AnalyseFails, AnalyseBad, RecvCut, Receiving, Received
  <2>2. UNCHANGED <<is_over, idx, sems, aidx, sidx, ridx, cidx, Sending, Calling>>
    BY <1>10, <1>s, <1>k DEF RecvReconnect, AnalyseFails, AnalyseBad, RecvCut, callers
  <2>3. UNCHANGED <<Filling, Held>>
    BY <1>10, <1>v DEF RecvReconnect, AnalyseFails, AnalyseBad, RecvCut
  <2> QED
    BY <1>0, <1>t, <1>c, <2>1, <2>2, <2>3 DEF RingOrder, InRing, idx, sems
<1>11. CASE RecvDone
  <2>1. Receiving = 1 /\ Received = 1 /\ Received' = 0 /\ Receiving' = 0
    BY <1>11 DEF RecvDone, Receiving, Received
  <2> QED
    BY <1>0, <1>t, <1>c, <1>11, <2>1, <1>v, <1>s, <1>k
    DEF RecvDone, RingOrder, InRing, callers, idx
<1>12. CASE CallIndex
  <2>1. UNCHANGED <<Filling, Held>>
    BY <1>12, <1>v DEF CallIndex
  <2>2. CASE is_over
    BY <1>12, <2>2 DEF CallIndex, RingOrder
  <2>3. CASE ~is_over
    <3>1. Calling = 0 /\ Calling' = 1
      BY <1>12, <2>3 DEF CallIndex, Calling
    <3>2. call_num + Received <= NSlots
      BY <1>0, <1>t, <1>c, <2>3 DEF RingOrder, InRing
    <3>3. Plus(call_index', call_num') = Plus(call_index, call_num)
      BY <1>0, <1>t, <1>12, <2>3, <3>2, PlusAdvance DEF CallIndex
    <3>4. Plus(call_index', call_num' + Received) = Plus(call_index, call_num + Received)
      BY <1>0, <1>t, <1>12, <2>3, <3>2, PlusAdvance DEF CallIndex
    <3>5. call_index' = Plus(cidx', 1)
      BY <1>0, <1>12, <2>3, PlusAdvance DEF CallIndex
    <3> QED
      BY <1>0, <1>t, <1>c, <1>12, <2>1, <2>3, <3>1, <3>3, <3>4, <3>5, <1>r, <1>s
      DEF CallIndex, RingOrder, InRing, receiver, callers
  <2> QED
    BY <2>2, <2>3
<1>13. CASE CallBack \/ ReleaseSlot \/ ReleasePool \/ ReleaseUnset
  <2>1. UNCHANGED <<cidx, Calling>>
    BY <1>13 DEF CallBack, ReleaseSlot, ReleasePool, ReleaseUnset, Calling
  <2> QED
    BY <1>13, <2>1, <1>v, <1>s, <1>r, RingSame
    DEF CallBack, ReleaseSlot, ReleasePool, ReleaseUnset, ringview, receiver, callers
<1>14. CASE ReleaseFree
  <2>1. Calling = 1 /\ Calling' = 0
    BY <1>14 DEF ReleaseFree, Calling
  <2> QED
    BY <1>0, <1>t, <1>c, <1>14, <2>1, <1>v, <1>s, <1>r
    DEF ReleaseFree, RingOrder, InRing, receiver, callers, idx
<1>15. CASE ServerReply \/ LoseLink
  BY <1>15, <1>v, <1>s, <1>r, <1>k, RingSame
  DEF ServerReply, LoseLink, ringview, receiver, callers
<1>16. CASE StopRun \/ WaitSlot \/ FreeSlot \/ UnsetSlot
  BY <1>16, <1>v, <1>s, <1>r, <1>k, RingSame
  DEF StopRun, WaitSlot, FreeSlot, UnsetSlot, ringview, receiver, callers
<1>17. CASE SetOver
  BY <1>17 DEF SetOver, RingOrder
<1>18. CASE UNCHANGED vars
  BY <1>18, <1>v, <1>s, <1>r, <1>k, RingSame DEF vars, ringview, receiver, callers
<1> QED
  BY <1>1, <1>2, <1>3, <1>4, <1>5, <1>6, <1>7, <1>8, <1>9, <1>10, <1>11, <1>12, <1>13,
     <1>14, <1>15, <1>16, <1>17, <1>18
  DEF Next, Caller, Sender, Receiver, CallbackThread, Destroyer

-----------------------------------------------------------------------------
(* No step of a service that runs without faults loses a slot.             *)
LEMMA NextInRing ==
  ASSUME ControlTypeOK, OneCaller, Support, [Next]_vars,
         ~is_over', is_run', linkFaults' = 0, mallocFails' = 0
  PROVE  /\ InRing' = InRing
         /\ ~is_over /\ is_run /\ linkFaults = 0 /\ mallocFails = 0
<1> DEFINE Goal == /\ InRing' = InRing
                   /\ ~is_over /\ is_run /\ linkFaults = 0 /\ mallocFails = 0
<1>0. /\ apc \in [Callers -> {"idle", "lock", "insert", "fill"}]
      /\ insert_index \in -1 .. NSlots - 1
      /\ free_num \in Nat /\ send_num \in Nat /\ recv_num \in Nat /\ call_num \in Nat
      /\ linkFaults \in Nat /\ mallocFails \in Nat
  BY BoundsAssumption DEF ControlTypeOK
<1>c. Cardinality(Filling) \in {0, 1}
  BY FillingCard
<1>e. Cardinality({}) = 0 /\ \A a : Cardinality({a}) = 1
  BY FS_EmptySet, FS_Singleton
<1>t. Sending \in {0, 1} /\ Receiving \in {0, 1} /\ Calling \in {0, 1}
  BY DEF Sending, Receiving, Calling
<1>v. ASSUME UNCHANGED callers PROVE Filling' = Filling
  BY <1>v DEF callers, Filling
<1>s. ASSUME UNCHANGED sender PROVE Sending' = Sending
  BY <1>s DEF sender, Sending
<1>r. ASSUME UNCHANGED rpc PROVE Receiving' = Receiving
  BY <1>r DEF Receiving
<1>k. ASSUME UNCHANGED caller PROVE Calling' = Calling
  BY <1>k DEF caller, Calling
<1>u. ASSUME UNCHANGED <<sems, Filling, Sending, Receiving, Calling>> PROVE InRing' = InRing
  BY <1>u DEF InRing, sems
<1>1. ASSUME NEW a \in Callers, NEW r \in Requests, Query(a, r) PROVE Goal
  <2>1. Filling' = Filling
    BY <1>0, <1>1 DEF Query, Filling
  <2> QED
    BY <1>1, <2>1, <1>s, <1>r, <1>k, <1>u DEF Query, receiver, net
<1>2. ASSUME NEW a \in Callers, LockAsyn(a) PROVE Goal
  <2>1. Filling' = Filling
    BY <1>0, <1>2 DEF LockAsyn, Filling
  <2> QED
    BY <1>2, <2>1, <1>s, <1>r, <1>k, <1>u DEF LockAsyn, receiver, net
<1>3. ASSUME NEW a \in Callers, InsertIndex(a) PROVE Goal
  <2>1. ~(insert_index < 0) /\ is_run /\ ~is_over /\ linkFaults = 0 /\ mallocFails = 0
    BY <1>0, <1>3 DEF InsertIndex, Support, net
  <2>2. Filling = {} /\ Filling' = {a}
    BY <1>0, <1>3, <2>1 DEF InsertIndex, Filling, OneCaller
  <2>3. Cardinality(Filling) = 0 /\ Cardinality(Filling') = 1
    BY <1>e, <2>2
  <2> QED
    BY <1>0, <1>t, <1>3, <2>1, <2>3, <1>s, <1>r, <1>k DEF InsertIndex, InRing, receiver
<1>4. ASSUME NEW a \in Callers, FillSlot(a) PROVE Goal
  <2>1. Filling = {a} /\ Filling' = {}
    BY <1>0, <1>4 DEF FillSlot, Filling, OneCaller
  <2>2. Cardinality(Filling) = 1 /\ Cardinality(Filling') = 0
    BY <1>e, <2>1
  <2> QED
    BY <1>0, <1>t, <1>4, <2>2, <1>s, <1>r, <1>k DEF FillSlot, InRing, receiver, net
<1>5. ASSUME NEW a \in Callers, FillFails(a) PROVE Goal
  BY <1>0, <1>5 DEF FillFails
<1>6. CASE SendIndex
  <2>1. ~is_over /\ is_run /\ linkFaults = 0 /\ mallocFails = 0
    BY <1>6 DEF SendIndex, net
  <2>2. Sending = 0 /\ Sending' = 1
    BY <1>6, <2>1 DEF SendIndex, Sending
  <2> QED
    BY <1>0, <1>c, <1>t, <1>6, <2>1, <2>2, <1>v, <1>r, <1>k DEF SendIndex, InRing, receiver
<1>7. CASE SendRequest \/ SendMark
  <2>1. Sending' = Sending
    BY <1>7 DEF SendRequest, SendMark, Sending
  <2>2. UNCHANGED <<is_over, is_run, linkFaults, mallocFails, sems, callers, rpc, caller>>
    BY <1>7 DEF SendRequest, SendMark, receiver, net
  <2> QED
    BY <2>1, <2>2, <1>v, <1>r, <1>k, <1>u
<1>8. CASE SendPost
  <2>1. Sending = 1 /\ Sending' = 0
    BY <1>8 DEF SendPost, Sending
  <2> QED
    BY <1>0, <1>c, <1>t, <1>8, <2>1, <1>v, <1>r, <1>k DEF SendPost, InRing, receiver, net
<1>9. CASE RecvIndex
  <2>1. ~is_over /\ is_run /\ linkFaults = 0 /\ mallocFails = 0
    BY <1>9 DEF RecvIndex, net
  <2>2. Receiving = 0 /\ Receiving' = 1
    BY <1>9, <2>1 DEF RecvIndex, Receiving
  <2> QED
    BY <1>0, <1>c, <1>t, <1>9, <2>1, <2>2, <1>v, <1>s, <1>k DEF RecvIndex, InRing
<1>10. CASE RecvBytes \/ Analyse \/ RecvCut \/ AnalyseBad
  <2>1. Receiving' = Receiving
    BY <1>10 DEF RecvBytes, Analyse, RecvCut, AnalyseBad, Receiving
  <2>2. UNCHANGED <<is_over, is_run, linkFaults, mallocFails, sems, callers, sender, caller>>
    BY <1>10 DEF RecvBytes, Analyse, RecvCut, AnalyseBad, net
  <2> QED
    BY <2>1, <2>2, <1>v, <1>s, <1>k, <1>u
<1>11. CASE RecvReconnect
  BY <1>11 DEF RecvReconnect, Support
<1>12. CASE AnalyseFails
  BY <1>0, <1>12 DEF AnalyseFails, AnalyseBad, RecvCut
<1>13. CASE RecvDone
  <2>1. Receiving = 1 /\ Receiving' = 0
    BY <1>13 DEF RecvDone, Receiving
  <2> QED
    BY <1>0, <1>c, <1>t, <1>13, <2>1, <1>v, <1>s, <1>k DEF RecvDone, InRing, net
<1>14. CASE CallIndex
  <2>1. ~is_over /\ is_run /\ linkFaults = 0 /\ mallocFails = 0
    BY <1>14 DEF CallIndex
  <2>2. Calling = 0 /\ Calling' = 1
    BY <1>14, <2>1 DEF CallIndex, Calling
  <2> QED
    BY <1>0, <1>c, <1>t, <1>14, <2>1, <2>2, <1>v, <1>s, <1>r DEF CallIndex, InRing, receiver
<1>15. CASE CallBack \/ ReleaseSlot \/ ReleasePool \/ ReleaseUnset
  <2>1. Calling' = Calling
    BY <1>15 DEF CallBack, ReleaseSlot, ReleasePool, ReleaseUnset, Calling
  <2>2. UNCHANGED <<is_over, is_run, linkFaults, mallocFails, sems, callers, sender, rpc>>
    BY <1>15 DEF CallBack, ReleaseSlot, ReleasePool, ReleaseUnset, receiver, net
  <2> QED
    BY <2>1, <2>2, <1>v, <1>s, <1>r, <1>u
<1>16. CASE ReleaseFree
  <2>1. Calling = 1 /\ Calling' = 0
    BY <1>16 DEF ReleaseFree, Calling
  <2> QED
    BY <1>0, <1>c, <1>t, <1>16, <2>1, <1>v, <1>s, <1>r DEF ReleaseFree, InRing, receiver, net
<1>17. CASE ServerReply
  BY <1>17, <1>v, <1>s, <1>r, <1>k, <1>u DEF ServerReply, receiver
<1>18. CASE LoseLink
  BY <1>0, <1>18 DEF LoseLink
<1>19. CASE StopRun \/ SetOver
  BY <1>19 DEF StopRun, SetOver
<1>20. CASE WaitSlot \/ FreeSlot \/ UnsetSlot
  <2>1. UNCHANGED <<is_over, is_run, linkFaults, mallocFails, sems, callers, sender, rpc, caller>>
    BY <1>20 DEF WaitSlot, FreeSlot, UnsetSlot, receiver, net
  <2> QED
    BY <2>1, <1>v, <1>s, <1>r, <1>k, <1>u
<1>21. CASE UNCHANGED vars
  BY <1>21, <1>v, <1>s, <1>r, <1>k, <1>u DEF vars, receiver, net
<1> QED
  BY <1>1, <1>2, <1>3, <1>4, <1>5, <1>6, <1>7, <1>8, <1>9, <1>10, <1>11, <1>12, <1>13,
     <1>14, <1>15, <1>16, <1>17, <1>18, <1>19, <1>20, <1>21
  DEF Next, Caller, Sender, Receiver, CallbackThread, Destroyer

LEMMA NextAccounting ==
  ControlTypeOK /\ OneCaller /\ Support /\ RingOrder' /\ Accounting /\ [Next]_vars
    /\ ControlTypeOK' => Accounting'
<1> SUFFICES ASSUME ControlTypeOK, OneCaller, Support, RingOrder', Accounting, [Next]_vars,
                    ControlTypeOK', ~is_over'
             PROVE  /\ InRing' <= NSlots
                    /\ is_run' /\ linkFaults' = 0 /\ mallocFails' = 0 => InRing' = NSlots
  BY DEF Accounting
<1>1. OneCaller'
  BY NextOneCaller
<1>2. Cardinality(Filling') \in {0, 1}
  <2>1. CASE Filling' = {}
    BY <2>1, FS_EmptySet
  <2>2. CASE Filling' # {}
    <3>1. PICK a : Filling' = {a}
      BY <1>1, <2>2 DEF Filling, OneCaller
    <3> QED
      BY <3>1, FS_Singleton
  <2> QED
    BY <2>1, <2>2
<1>3. Received' - Receiving' >= 0 /\ Received' \in Nat /\ Receiving' \in Nat
      /\ Sending' \in Nat /\ Calling' \in Nat
  BY DEF Received, Receiving, Sending, Calling
<1>4. free_num' \in Nat /\ send_num' \in Nat /\ recv_num' \in Nat /\ call_num' \in Nat
  BY DEF ControlTypeOK
<1>5. InRing' <= NSlots
  <2>1. InRing' + Received' - Receiving' <= NSlots
    BY DEF RingOrder
  <2>2. InRing' \in Nat
    BY <1>2, <1>3, <1>4 DEF InRing
  <2>3. \A x, r, s, n \in Nat : x + r - s <= n /\ r - s >= 0 => x <= n
    OBVIOUS
  <2>4. NSlots \in Nat
    BY NSlotsAssumption
  <2> QED
    BY <1>3, <2>1, <2>2, <2>3, <2>4
<1>6. ASSUME is_run', linkFaults' = 0, mallocFails' = 0 PROVE InRing' = NSlots
  <2>1. InRing' = InRing /\ ~is_over /\ is_run /\ linkFaults = 0 /\ mallocFails = 0
    BY <1>6, NextInRing
  <2> QED
    BY <2>1 DEF Accounting
<1> QED
  BY <1>5, <1>6

(* The stages are apart wherever the ring is in order: read from the       *)
(* callback's slot, or from the receiver's when there is none, the slots   *)
(* in hand lie at increasing distances below NSlots.                       *)
LEMMA OrderedStagesApart == ControlTypeOK /\ OneCaller /\ RingOrder => MeetOnlyAtMark
<1> SUFFICES ASSUME ControlTypeOK, OneCaller, RingOrder, ~is_over
             PROVE  MeetOnlyAtMark
  BY DEF MeetOnlyAtMark
<1>0. /\ send_index \in Slot /\ recv_index \in Slot /\ call_index \in Slot
      /\ free_num \in Nat /\ send_num \in Nat /\ recv_num \in Nat /\ call_num \in Nat
      /\ sidx \in Slot /\ ridx \in Slot /\ cidx \in Slot
      /\ NSlots \in Nat \ {0}
  BY NSlotsAssumption DEF ControlTypeOK
<1>1. \A a, b \in Filling : a = b
  BY FillingCard
<1>2. Receiving \in {0, 1} /\ Sending \in {0, 1} /\ Calling \in {0, 1}
      /\ Received \in {0, 1} /\ (Receiving = 1 => Received = 1) /\ Received - Receiving >= 0
  BY DEF Receiving, Received, Sending, Calling
<1>3. Cardinality(Filling) \in {0, 1} /\ (Cardinality(Filling) = 0 <=> Filling = {})
  BY FillingCard
<1>4. free_num + send_num + recv_num + call_num + Cardinality(Filling) + Sending + Received
        + Calling <= NSlots
  BY <1>0, <1>2, <1>3 DEF RingOrder, InRing
<1>5. Sending = 1 /\ Receiving = 1 => sidx # ridx
  BY <1>0, <1>2, <1>3, <1>4 DEF RingOrder, Plus, Slot
<1>6. Receiving = 1 /\ Calling = 1 => ridx # cidx
  BY <1>0, <1>2, <1>3, <1>4 DEF RingOrder, Plus, Slot
<1>7. Sending = 1 /\ Calling = 1 => sidx # cidx
  BY <1>0, <1>2, <1>3, <1>4 DEF RingOrder, Plus, Slot
<1>8. ASSUME NEW a \in Filling
      PROVE  /\ Sending = 1 => aidx[a] # sidx
             /\ Receiving = 1 => aidx[a] # ridx
             /\ Calling = 1 => aidx[a] # cidx
  <2>1. Cardinality(Filling) = 1 /\ aidx[a] = Plus(send_index, send_num)
    BY <1>3, <1>8 DEF RingOrder
  <2>2. Sending = 1 => aidx[a] # sidx
    BY <1>0, <1>2, <1>4, <2>1 DEF RingOrder, Plus, Slot
  <2>3. Receiving = 1 => aidx[a] # ridx
    BY <1>0, <1>2, <1>4, <2>1 DEF RingOrder, Plus, Slot
  <2>4. Calling = 1 => aidx[a] # cidx
    BY <1>0, <1>2, <1>4, <2>1 DEF RingOrder, Plus, Slot
  <2> QED
    BY <2>2, <2>3, <2>4
<1>9. spc \in {"send", "post", "mark"} => spc = "mark" \/ Sending = 1
  BY DEF Sending
<1> QED
  BY <1>1, <1>5, <1>6, <1>7, <1>8, <1>9 DEF MeetOnlyAtMark

-----------------------------------------------------------------------------
LEMMA InitIInv == Init => IInv
<1> SUFFICES ASSUME Init PROVE IInv
  OBVIOUS
<1>1. Filling = {} /\ Cardinality(Filling) = 0
  BY FS_EmptySet DEF Init, Filling
<1>2. Sending = 0 /\ Receiving = 0 /\ Received = 0 /\ Calling = 0
  BY DEF Init, Sending, Receiving, Received, Calling
<1>3. InRing = NSlots
  BY <1>1, <1>2, NSlotsAssumption DEF Init, InRing
<1>4. RingOrder
  BY <1>1, <1>2, <1>3, NSlotsAssumption DEF Init, RingOrder, Plus
<1>5. Accounting
  BY <1>3, NSlotsAssumption DEF Accounting
<1>6. OneCaller /\ Support
  BY <1>1 DEF Init, OneCaller, Support
<1> QED
  BY <1>4, <1>5, <1>6, InitControlType DEF IInv

LEMMA NextIInv == IInv /\ [Next]_vars => IInv'
BY NextControlType, NextOneCaller, NextSupport, NextRingOrder, NextAccounting DEF IInv

LEMMA Invariance == Spec => []IInv
BY InitIInv, NextIInv, PTL DEF Spec

(* However callers, threads, faults and es_server_destroy interleave, the  *)
(* four semaphores of es_http_api.c never stand for more slots than there  *)
(* are, and a service that runs without faults loses none.                 *)
THEOREM SlotsAccounted == Spec => []Accounting
<1>1. IInv => Accounting
  BY DEF IInv
<1> QED
  BY <1>1, Invariance, PTL

(* The unlocked indices of the four stages stay in order round the ring.   *)
THEOREM RingOrdered == Spec => []RingOrder
<1>1. IInv => RingOrder
  BY DEF IInv
<1> QED
  BY <1>1, Invariance, PTL

(* No two stages work on the same slot of the ring, but for the sender's   *)
(* sta_ = 2 (line 1510), which it writes to a slot it has already passed   *)
(* on; whatever the number of slots, callers, requests and faults.         *)
THEOREM OnlyTheMarkMeets == Spec => []MeetOnlyAtMark
<1>1. IInv => MeetOnlyAtMark
  BY OrderedStagesApart DEF IInv
<1> QED
  BY <1>1, Invariance, PTL

-----------------------------------------------------------------------------
(* The slots under way, read round the ring from call_index: those to call *)
(* back, the receiver's, those to receive, the sender's, those to send.    *)
InFlight == call_num + Received + recv_num + Sending + send_num

(* A request is known wherever one is needed: to a caller, and in every    *)
(* slot under way.  Nothing is written to a socket that has been closed.   *)
Carried ==
  /\ \A a \in Callers : apc[a] # "idle" => areq[a] \in Requests
  /\ is_over => ~es_fd
  /\ ~is_over => \A j \in 0 .. InFlight - 1 : req[Plus(call_index, j)] \in Requests

(* The slots in the ring: the ones under way, the caller's, the free ones. *)
InUse == InFlight + Cardinality(Filling) + free_num

(* Which pools may be used: all of them while the service runs, and after  *)
(* a failed allocation stopped it those of the slots still in the ring.    *)
PoolsUp ==
  dpc = "none" =>
    /\ quiet /\ ~crash /\ ~is_over
    /\ is_run => \A i \in AllSlots : mem[i] = "live"
    /\ \A j \in 0 .. InUse - 1 : mem[Plus(call_index, j)] = "live"
    /\ cpc \in {"call", "release", "pool"} => mem[cidx] = "live"
    /\ cpc = "unset" => ~is_run
    /\ \A i \in AllSlots : mem[i] = "freed" => cpc = "unset" /\ i = cidx

(* A service destroyed while nothing was under way has nothing under way   *)
(* after it, and only the destroyer touches a pool.                        *)
PoolsDown ==
  quiet /\ dpc # "none" =>
    /\ ~crash
    /\ \A a \in Callers : apc[a] = "idle"
    /\ spc \in {"wait", "exit"} /\ rpc \in {"wait", "exit"} /\ cpc \in {"wait", "exit"}
    /\ ~is_over => send_num = 0 /\ recv_num = 0 /\ call_num = 0
    /\ \A i \in AllSlots : mem[i] = "freed" => dpc = "unset" /\ i = didx

Pools == PoolsUp /\ PoolsDown /\ (dpc # "none" => ~is_run)

(* What each slot under way carries, and where the stream of pieces that   *)
(* the server has sent stands, while no connection has been lost.  The     *)
(* pieces are numbered from 1 as the server sends them, three for each     *)
(* request; Sent requests were written, Taken pieces left an_buf.          *)
InCall == IF cpc = "call" THEN 1 ELSE 0
Begun == Len(answered) + InCall
Sent == Begun + call_num + Received + recv_num + (IF spc = "post" THEN 1 ELSE 0)
Replied == Sent - Len(inbox)
Taken == 3 * Replied - Len(an_buf) - Len(wire)
IsPiece(acc, x, g) ==
  \A q \in DOMAIN acc :
    /\ g = 3 * q - 2 => x = [req |-> acc[q], kind |-> "head"]
    /\ g = 3 * q - 1 => x = [req |-> acc[q], kind |-> "end"]
    /\ g = 3 * q => x = [req |-> acc[q], kind |-> "tail"]

(* The slots carry the accepted requests in order, and their answers.      *)
SlotsInOrder ==
  /\ Begun + InFlight = Len(accepted)
  /\ \A j \in 0 .. InFlight - 1 : req[Plus(call_index, j)] = accepted[Begun + 1 + j]
  /\ \A j \in 0 .. call_num - 1 : http[Plus(call_index, j)] = accepted[Begun + 1 + j]
  /\ \A j \in call_num + Received .. NSlots - 1 :
        (j < NSlots - 1 \/ cpc \notin {"call", "release"}) => http[Plus(call_index, j)] = NULL

(* inbox, wire and an_buf hold the rest of the stream in its order.        *)
InStream(acc, rep, tak, inb, buf, wir) ==
  /\ rep >= 0 /\ tak >= 0
  /\ \A i \in 1 .. Len(inb) : inb[i] = acc[rep + i]
  /\ \A i \in 1 .. Len(buf) : IsPiece(acc, buf[i], tak + i)
  /\ \A i \in 1 .. Len(wir) : IsPiece(acc, wir[i], tak + Len(buf) + i)
Streamed == InStream(accepted, Replied, Taken, inbox, an_buf, wire)

(* How far the receiver is: before the next head, with at most the last    *)
(* answer's tail in between, or just behind the head of its slot's answer. *)
Between(p) == Taken \in {3 * p - 1, 3 * p}
Reading ==
  LET p == Begun + call_num IN
    CASE rpc = "wait" -> Between(p)
      [] rpc = "done" -> http[ridx] = accepted[p + 1] /\ Between(p + 1)
      [] rpc \in {"recv", "analyse"} ->
           \/ http[ridx] = NULL /\ Between(p)
           \/ http[ridx] = accepted[p + 1] /\ Taken = 3 * p + 1
      [] OTHER -> TRUE

(* The callback about to be made is the next one; es_server_destroy at     *)
(* this moment leaves room between the caller that fills and the callback. *)
CallRight ==
  cpc = "call" => /\ Begun <= Len(accepted)
                  /\ req[cidx] = accepted[Begun] /\ http[cidx] = accepted[Begun]

Gap(i, j) == IF j >= i THEN j - i ELSE j - i + NSlots
OverRoom ==
  is_over /\ cpc = "call" =>
    /\ rpc \in {"recv", "analyse", "done"} => ridx # cidx
    /\ \/ Filling = {} /\ (Held \/ insert_index = -1)
       \/ /\ insert_index >= 0 /\ free_num <= Gap(insert_index, cidx)
          /\ \A a \in Filling : insert_index = Advance(aidx[a]) /\ aidx[a] # cidx

Flow ==
  /\ OverRoom
  /\ StreamWhole => /\ InOrderUntilLoss /\ CallRight
                    /\ ~is_over => SlotsInOrder /\ Streamed /\ Reading

-----------------------------------------------------------------------------
LEMMA PlusInjective ==
  \A i \in Slot, j, k \in 0 .. NSlots - 1 : Plus(i, j) = Plus(i, k) => j = k
BY NSlotsAssumption DEF Plus, Slot

LEMMA PlusPlus ==
  \A i \in Slot, j, k \in 0 .. NSlots : j + k <= NSlots => Plus(Plus(i, j), k) = Plus(i, j + k)
BY NSlotsAssumption DEF Plus, Slot

(* Where the stages stand, counted from call_index.                        *)
RingView ==
  /\ InFlight \in Nat
  /\ InFlight + Cardinality(Filling) + free_num + Calling <= NSlots
  /\ call_num + Received + recv_num + Sending <= InFlight
  /\ Received = 1 => ridx = Plus(call_index, call_num)
  /\ recv_index = Plus(call_index, call_num + Received)
  /\ Sending = 1 => sidx = Plus(call_index, call_num + Received + recv_num)
  /\ send_index = Plus(call_index, call_num + Received + recv_num + Sending)
  /\ \A a \in Filling : aidx[a] = Plus(call_index, InFlight)
  /\ Calling = 1 => cidx = Plus(call_index, NSlots - 1)

LEMMA Counts ==
  /\ Sending \in {0, 1} /\ Receiving \in {0, 1} /\ Calling \in {0, 1} /\ Received \in {0, 1}
  /\ Receiving <= Received
BY DEF Sending, Receiving, Calling, Received

LEMMA RingViewed == ControlTypeOK /\ OneCaller /\ RingOrder /\ ~is_over => RingView
<1> SUFFICES ASSUME ControlTypeOK, OneCaller, RingOrder, ~is_over PROVE RingView
  OBVIOUS
<1>0. /\ send_index \in Slot /\ recv_index \in Slot /\ call_index \in Slot
      /\ free_num \in Nat /\ send_num \in Nat /\ recv_num \in Nat /\ call_num \in Nat
      /\ sidx \in Slot /\ ridx \in Slot /\ cidx \in Slot
      /\ NSlots \in Nat \ {0}
  BY NSlotsAssumption DEF ControlTypeOK
<1>1. Cardinality(Filling) \in {0, 1} /\ (Cardinality(Filling) = 0 <=> Filling = {})
  BY FillingCard
<1>2. InFlight \in Nat /\ call_num + Received + recv_num + Sending <= InFlight
  BY <1>0, Counts DEF InFlight
<1>3. InFlight + Cardinality(Filling) + free_num + Calling <= NSlots
  BY <1>0, <1>1, Counts DEF RingOrder, InRing, InFlight
<1>4. recv_index = Plus(call_index, call_num + Received)
  BY DEF RingOrder
<1>5. Sending = 1 => sidx = Plus(call_index, call_num + Received + recv_num)
  BY <1>0, <1>1, <1>3, <1>4, PlusPlus, Counts DEF RingOrder, InFlight
<1>6. send_index = Plus(call_index, call_num + Received + recv_num + Sending)
  BY <1>0, <1>1, <1>3, <1>4, PlusPlus, Counts DEF RingOrder, InFlight
<1>7. \A a \in Filling : aidx[a] = Plus(call_index, InFlight)
  BY <1>0, <1>1, <1>3, <1>6, PlusPlus, Counts DEF RingOrder, InFlight
<1>8. Calling = 1 => cidx = Plus(call_index, NSlots - 1)
  BY <1>0 DEF RingOrder, Plus, Slot
<1> QED
  BY <1>2, <1>3, <1>4, <1>5, <1>6, <1>7, <1>8 DEF RingOrder, RingView

(* What the steps of a running service do to the slots under way: a caller *)
(* adds one at the end, the callback thread takes one at the front.        *)
LEMMA FlightStep ==
  ASSUME ControlTypeOK, Next, ~is_over'
  PROVE  /\ (\E a \in Callers : FillSlot(a)) => UNCHANGED call_index /\ InFlight' = InFlight + 1
         /\ CallIndex => call_index' = Advance(call_index) /\ InFlight' = InFlight - 1
         /\ ~(\E a \in Callers : FillSlot(a)) /\ ~CallIndex => UNCHANGED <<call_index, InFlight>>
<1>0. /\ send_num \in Nat /\ recv_num \in Nat /\ call_num \in Nat
  BY DEF ControlTypeOK
<1>1. ASSUME NEW a \in Callers, FillSlot(a)
      PROVE  UNCHANGED call_index /\ InFlight' = InFlight + 1
  BY <1>0, <1>1 DEF FillSlot, InFlight, Received, Sending, idx, sender, receiver
<1>2. ASSUME CallIndex PROVE call_index' = Advance(call_index) /\ InFlight' = InFlight - 1
  <2>1. ~is_over
    BY <1>2 DEF CallIndex
  <2> QED
    BY <1>0, <1>2, <2>1 DEF CallIndex, InFlight, Received, Sending, sender, receiver
<1>3. ASSUME ~(\E a \in Callers : FillSlot(a)), ~CallIndex PROVE UNCHANGED <<call_index, InFlight>>
  <2> USE DEF InFlight, idx, sems, sender, receiver
  <2>1. ASSUME UNCHANGED <<call_index, call_num, rpc, recv_num, spc, send_num>>
        PROVE  UNCHANGED <<call_index, InFlight>>
    BY <2>1 DEF Received, Sending
  <2>2. ASSUME NEW a \in Callers, NEW r \in Requests, Query(a, r)
        PROVE  UNCHANGED <<call_index, InFlight>>
    BY <2>1, <2>2 DEF Query
  <2>3. ASSUME NEW a \in Callers, LockAsyn(a) \/ InsertIndex(a) \/ FillFails(a)
        PROVE  UNCHANGED <<call_index, InFlight>>
    BY <2>1, <2>3 DEF LockAsyn, InsertIndex, FillFails
  <2>4. CASE SendIndex
    <3>1. ~is_over
      BY <2>4 DEF SendIndex
    <3> QED BY <1>0, <2>4, <3>1 DEF SendIndex, Received, Sending
  <2>5. CASE SendRequest \/ SendPost \/ SendMark
    <3>1. CASE SendRequest
      BY <1>0, <3>1 DEF SendRequest, Received, Sending
    <3>2. CASE SendPost
      BY <1>0, <3>2 DEF SendPost, Received, Sending
    <3>3. CASE SendMark
      BY <1>0, <3>3 DEF SendMark, Received, Sending
    <3> QED BY <2>5, <3>1, <3>2, <3>3
  <2>6. CASE RecvIndex
    <3>1. ~is_over
      BY <2>6 DEF RecvIndex
    <3> QED BY <1>0, <2>6, <3>1 DEF RecvIndex, Received, Sending
  <2>7. CASE RecvBytes \/ RecvReconnect
    BY <1>0, <2>7 DEF RecvBytes, RecvReconnect, Received, Sending
  <2>8. CASE Analyse \/ AnalyseFails \/ AnalyseBad \/ RecvCut
    <3>1. Received' = Received
      BY <2>8 DEF Analyse, AnalyseFails, AnalyseBad, RecvCut, Received
    <3> QED BY <1>0, <2>8, <3>1 DEF Analyse, AnalyseFails, AnalyseBad, RecvCut, Sending
  <2>9. CASE RecvDone
    BY <1>0, <2>9 DEF RecvDone, Received, Sending
  <2>10. CASE CallBack \/ ReleaseSlot \/ ReleasePool \/ ReleaseUnset \/ ReleaseFree
    BY <2>1, <2>10 DEF CallBack, ReleaseSlot, ReleasePool, ReleaseUnset, ReleaseFree
  <2>11. CASE ServerReply \/ LoseLink \/ StopRun \/ WaitSlot \/ FreeSlot \/ UnsetSlot
    BY <2>1, <2>11 DEF ServerReply, LoseLink, StopRun, WaitSlot, FreeSlot, UnsetSlot
  <2>12. ~SetOver
    BY DEF SetOver
  <2> QED
    BY <1>3, <2>2, <2>3, <2>4, <2>5, <2>6, <2>7, <2>8, <2>9, <2>10, <2>11, <2>12
    DEF Next, Caller, Sender, Receiver, CallbackThread, Destroyer
<1> QED
  BY <1>1, <1>2, <1>3

(* is_over is set once, by es_server_destroy.                              *)
LEMMA OverStays == ASSUME Next PROVE is_over => is_over'
BY DEF Next, Query, Caller, LockAsyn, InsertIndex, FillSlot, FillFails, Sender, SendIndex,
   SendRequest, SendPost, SendMark, Receiver, RecvIndex, RecvBytes, RecvReconnect, Analyse,
   RecvDone, AnalyseFails, AnalyseBad, RecvCut, CallbackThread, CallIndex, CallBack, ReleaseSlot, ReleasePool,
   ReleaseUnset, ReleaseFree, ServerReply, LoseLink, StopRun, Destroyer, WaitSlot, FreeSlot,
   UnsetSlot, SetOver

-----------------------------------------------------------------------------
(* Every operator of the receiver on sequences keeps their types.          *)
LEMMA FromType ==
  ASSUME NEW buf \in Seq(Piece), NEW i \in Nat \ {0} PROVE From(buf, i) \in Seq(Piece)
<1>1. CASE i > Len(buf)
  BY <1>1 DEF From
<1>2. CASE i <= Len(buf)
  BY <1>2 DEF From
<1> QED BY <1>1, <1>2

(* A set of positions that is not empty has a least one.                   *)
LEMMA LeastIn ==
  ASSUME NEW S \in SUBSET Nat, S # {} PROVE Least(S) \in S /\ \A j \in S : Least(S) <= j
<1>1. \E i \in S : \A j \in S : i <= j
  <2>1. PICK m \in S : \A y \in S : <<y, m>> \notin OpToRel(<, Nat)
    BY WFMin, NatLessThanWellFounded, Zenon
  <2>2. \A y \in S : ~(y < m)
    BY <2>1, Zenon DEF OpToRel
  <2> QED
    BY <2>2
<1> QED BY <1>1 DEF Least

LEMMA AtIn ==
  ASSUME NEW buf \in Seq(Piece), NEW kind
  PROVE  /\ At(buf, kind) \in SUBSET Nat
         /\ \A i \in At(buf, kind) : /\ i \in 1 .. Len(buf) /\ buf[i] \in Piece
                                     /\ buf[i].kind = kind /\ buf[i].req \in Requests
<1>1. At(buf, kind) \in SUBSET Nat
  BY DEF At
<1>2. ASSUME NEW i \in At(buf, kind) PROVE i \in 1 .. Len(buf) /\ buf[i].kind = kind
  BY <1>2 DEF At
<1>3. \A x \in Piece : x.req \in Requests
  BY DEF Piece
<1> QED BY <1>1, <1>2, <1>3

LEMMA NextHeadType == ASSUME NEW buf \in Seq(Piece) PROVE NextHead(buf) \in Seq(Piece)
<1>1. CASE At(buf, "head") = {}
  BY <1>1 DEF NextHead
<1>2. CASE At(buf, "head") # {}
  <2>1. Least(At(buf, "head")) \in Nat \ {0}
    BY <1>2, AtIn, LeastIn
  <2> QED BY <1>2, <2>1, FromType DEF NextHead
<1> QED BY <1>1, <1>2

LEMMA AnalysisType ==
  ASSUME NEW buf \in Seq(Piece), NEW h \in Requests \cup {NULL}
  PROVE  /\ Analysis(buf, h).http \in Requests \cup {NULL}
         /\ Analysis(buf, h).left \in Seq(Piece)
<1>1. CASE h = NULL /\ At(buf, "head") = {}
  BY <1>1 DEF Analysis
<1>2. CASE ~(h = NULL /\ At(buf, "head") = {})
  <2> DEFINE head == IF h = NULL THEN buf[Least(At(buf, "head"))].req ELSE h
             body == IF h = NULL THEN From(buf, Least(At(buf, "head")) + 1) ELSE buf
  <2>1. h = NULL => /\ Least(At(buf, "head")) \in Nat
                    /\ buf[Least(At(buf, "head"))].req \in Requests
    BY <1>2, AtIn, LeastIn
  <2>2. head \in Requests \cup {NULL}
    BY <2>1
  <2>5. body \in Seq(Piece)
    <3>1. ASSUME h = NULL PROVE From(buf, Least(At(buf, "head")) + 1) \in Seq(Piece)
      <4>1. Least(At(buf, "head")) + 1 \in Nat \ {0}
        BY <2>1, <3>1
      <4> QED BY <4>1, FromType
    <3> QED BY <3>1
  <2>3. Analysis(buf, h) = IF At(body, "end") = {}
                           THEN [http |-> head, ret |-> 1, left |-> body]
                           ELSE [http |-> head, ret |-> 0, left |-> NextHead(body)]
    BY <1>2 DEF Analysis
  <2> HIDE DEF head, body
  <2>4. NextHead(body) \in Seq(Piece)
    BY <2>5, NextHeadType
  <2> QED BY <2>2, <2>3, <2>4, <2>5
<1> QED BY <1>1, <1>2

(* What is received behind a left over is a buffer of pieces.              *)
LEMMA JoinedType ==
  ASSUME NEW buf \in Seq(Piece), NEW new \in Seq(Piece) PROVE Joined(buf, new) \in Seq(Piece)
<1>1. CASE Len(buf) \in At(buf, "part") /\ 1 \in At(new, "rest")
  <2> DEFINE n == Len(buf)
  <2>1. n \in 1 .. Len(buf) /\ buf[n] \in Piece
    BY <1>1 DEF At
  <2>2. [buf[n] EXCEPT !.kind = "head"] \in Piece
    BY <2>1 DEF Piece
  <2>3. [buf EXCEPT ![n].kind = "head"] \in Seq(Piece)
    BY <2>1, <2>2
  <2>4. From(new, 2) \in Seq(Piece)
    BY FromType
  <2> QED BY <1>1, <2>3, <2>4 DEF Joined
<1>2. CASE ~(Len(buf) \in At(buf, "part") /\ 1 \in At(new, "rest"))
  BY <1>2 DEF Joined
<1> QED BY <1>1, <1>2

LEMMA InitData == Init => DataTypeOK /\ Carried
<1> SUFFICES ASSUME Init PROVE DataTypeOK /\ Carried
  OBVIOUS
<1>1. InFlight = 0
  BY DEF Init, InFlight, Received, Sending
<1>2. Carried
  BY <1>1 DEF Init, Carried
<1>3. /\ inbox \in Seq(Requests) /\ wire \in Seq(Piece) /\ an_buf \in Seq(Piece)
      /\ accepted \in Seq(Requests)
      /\ answered \in Seq([req : Requests, http : Requests \cup {NULL}])
  BY DEF Init
<1>4. quiet \in BOOLEAN /\ es_fd \in BOOLEAN /\ link \in BOOLEAN /\ crash \in BOOLEAN
  BY DEF Init
<1>5. /\ sta \in [Slot -> 0 .. 3] /\ mem \in [AllSlots -> {"live", "freed", "null"}]
      /\ req \in [Slot -> Requests \cup {NULL}] /\ http \in [Slot -> Requests \cup {NULL}]
      /\ never \in SUBSET {"insert", "send", "recv", "call", "release"}
  BY DEF Init
<1> QED BY <1>2, <1>3, <1>4, <1>5 DEF DataTypeOK

-----------------------------------------------------------------------------
(* A request is only written to the socket while a slot carries it.        *)
LEMMA SenderHasRequest ==
  ControlTypeOK /\ OneCaller /\ RingOrder /\ Carried /\ es_fd /\ spc = "send"
    => req[sidx] \in Requests
<1> SUFFICES ASSUME ControlTypeOK, OneCaller, RingOrder, Carried, es_fd, spc = "send"
             PROVE  req[sidx] \in Requests
  OBVIOUS
<1>1. ~is_over
  BY DEF Carried
<1>2. RingView
  BY <1>1, RingViewed
<1>3. Sending = 1
  BY DEF Sending
<1>4. call_num + Received + recv_num \in 0 .. InFlight - 1
  BY <1>2, <1>3, Counts DEF RingView, ControlTypeOK
<1> QED BY <1>1, <1>2, <1>3, <1>4 DEF RingView, Carried

LEMMA NextDataType ==
  ControlTypeOK /\ OneCaller /\ RingOrder /\ Carried /\ DataTypeOK /\ [Next]_vars => DataTypeOK'
<1> SUFFICES ASSUME ControlTypeOK, OneCaller, RingOrder, Carried, DataTypeOK, [Next]_vars
             PROVE  DataTypeOK'
  OBVIOUS
<1>t. /\ aidx \in [Callers -> Slot] /\ areq \in [Callers -> Requests \cup {NULL}]
      /\ sidx \in Slot /\ ridx \in Slot /\ cidx \in Slot /\ didx \in AllSlots
  BY DEF ControlTypeOK
<1> USE DEF DataTypeOK, idx, sems, slots, callers, sender, receiver, caller, destroyer, net, hist
<1>1. ASSUME NEW a \in Callers, NEW r \in Requests, Query(a, r) PROVE DataTypeOK'
  BY <1>1 DEF Query
<1>2. ASSUME NEW a \in Callers, LockAsyn(a) PROVE DataTypeOK'
  BY <1>2 DEF LockAsyn
<1>3. ASSUME NEW a \in Callers, InsertIndex(a) PROVE DataTypeOK'
  <2>1. never' \in SUBSET {"insert", "send", "recv", "call", "release"}
    BY <1>3 DEF InsertIndex, Expect
  <2> QED BY <1>3, <2>1 DEF InsertIndex
<1>4. ASSUME NEW a \in Callers, FillSlot(a) PROVE DataTypeOK'
  <2>1. areq[a] \in Requests
    BY <1>4 DEF FillSlot, Carried
  <2>2. accepted' \in Seq(Requests)
    BY <1>4, <2>1 DEF FillSlot
  <2>3. sta' \in [Slot -> 0 .. 3] /\ req' \in [Slot -> Requests \cup {NULL}]
    BY <1>4, <1>t, <2>1 DEF FillSlot
  <2>4. crash' \in BOOLEAN
    BY <1>4 DEF FillSlot
  <2> QED BY <1>4, <2>2, <2>3, <2>4 DEF FillSlot
<1>5. ASSUME NEW a \in Callers, FillFails(a) PROVE DataTypeOK'
  <2>1. /\ sta' \in [Slot -> 0 .. 3] /\ req' \in [Slot -> Requests \cup {NULL}]
        /\ http' \in [Slot -> Requests \cup {NULL}]
    BY <1>5, <1>t DEF FillFails
  <2>2. crash' \in BOOLEAN
    BY <1>5 DEF FillFails
  <2> QED BY <1>5, <2>1, <2>2 DEF FillFails
<1>6. CASE SendIndex
  <2>1. never' \in SUBSET {"insert", "send", "recv", "call", "release"}
    BY <1>6 DEF SendIndex, Expect
  <2> QED BY <1>6, <2>1 DEF SendIndex
<1>7. CASE SendRequest
  <2>1. link /\ es_fd => req[sidx] \in Requests
    BY <1>7, SenderHasRequest DEF SendRequest
  <2>2. inbox' \in Seq(Requests)
    <3>1. CASE link /\ es_fd
      <4>1. inbox' = Append(inbox, req[sidx])
        BY <1>7, <3>1 DEF SendRequest
      <4>2. req[sidx] \in Requests
        BY <3>1, <2>1
      <4> QED BY <4>1, <4>2
    <3>2. CASE ~(link /\ es_fd)
      BY <1>7, <3>2 DEF SendRequest
    <3> QED BY <3>1, <3>2
  <2>3. crash' \in BOOLEAN
    BY <1>7 DEF SendRequest
  <2> QED BY <1>7, <2>2, <2>3 DEF SendRequest
<1>8. CASE SendPost
  BY <1>8 DEF SendPost
<1>9. CASE SendMark
  <2>1. sta' \in [Slot -> 0 .. 3]
    BY <1>9, <1>t DEF SendMark
  <2> QED BY <1>9, <2>1 DEF SendMark
<1>10. CASE RecvIndex
  <2>1. never' \in SUBSET {"insert", "send", "recv", "call", "release"}
    BY <1>10 DEF RecvIndex, Expect
  <2> QED BY <1>10, <2>1 DEF RecvIndex
<1>11. CASE RecvBytes
  <2>1. PICK n \in 1 .. Len(wire) : /\ an_buf' = Joined(an_buf, SubSeq(wire, 1, n))
                                     /\ wire' = From(wire, n + 1)
    BY <1>11 DEF RecvBytes
  <2>2. wire' \in Seq(Piece)
    <3>1. n + 1 \in Nat \ {0}
      OBVIOUS
    <3> QED BY <2>1, <3>1, FromType
  <2>3. an_buf' \in Seq(Piece)
    <3>1. SubSeq(wire, 1, n) \in Seq(Piece)
      BY SubSeqProperties
    <3> QED BY <2>1, <3>1, JoinedType
  <2> QED BY <1>11, <2>2, <2>3 DEF RecvBytes
<1>12. CASE RecvReconnect
  <2>1. link' \in BOOLEAN
    BY <1>12 DEF RecvReconnect
  <2> QED BY <1>12, <2>1 DEF RecvReconnect
<1>13. CASE Analyse
  <2>1. http[ridx] \in Requests \cup {NULL}
    BY <1>t
  <2>2. /\ Analysis(an_buf, http[ridx]).http \in Requests \cup {NULL}
        /\ Analysis(an_buf, http[ridx]).left \in Seq(Piece)
    BY <2>1, AnalysisType
  <2>3. /\ an_buf' = Analysis(an_buf, http[ridx]).left
        /\ http' = [http EXCEPT ![ridx] = Analysis(an_buf, http[ridx]).http]
    BY <1>13 DEF Analyse
  <2>4. crash' \in BOOLEAN
    BY <1>13 DEF Analyse
  <2>5. an_buf' \in Seq(Piece) /\ http' \in [Slot -> Requests \cup {NULL}]
    BY <2>2, <2>3, <1>t
  <2> QED BY <1>13, <2>4, <2>5 DEF Analyse
<1>14. CASE AnalyseFails
  BY <1>14 DEF AnalyseFails
<1>27. CASE RecvCut
  <2>1. PICK n \in At(wire, "head") :
          /\ an_buf' = Joined(an_buf, SubSeq(wire, 1, n - 1) \o <<[wire[n] EXCEPT !.kind = "part"]>>)
          /\ wire' = <<[wire[n] EXCEPT !.kind = "rest"]>> \o From(wire, n + 1)
    BY <1>27 DEF RecvCut
  <2> DEFINE part == [wire[n] EXCEPT !.kind = "part"]
             rest == [wire[n] EXCEPT !.kind = "rest"]
  <2>2. n \in 1 .. Len(wire) /\ wire[n] \in Piece
    BY DEF At
  <2>3. part \in Piece /\ rest \in Piece
    BY <2>2 DEF Piece
  <2> HIDE DEF part, rest
  <2>4. SubSeq(wire, 1, n - 1) \in Seq(Piece) /\ From(wire, n + 1) \in Seq(Piece)
    <3>1. n + 1 \in Nat \ {0} /\ n - 1 \in 0 .. Len(wire)
      BY <2>2
    <3>2. From(wire, n + 1) \in Seq(Piece)
      BY <3>1, FromType
    <3>3. SubSeq(wire, 1, n - 1) \in Seq(Piece)
      BY <3>1
    <3> QED BY <3>2, <3>3
  <2>5. SubSeq(wire, 1, n - 1) \o <<part>> \in Seq(Piece) /\ <<rest>> \o From(wire, n + 1) \in Seq(Piece)
    BY <2>3, <2>4
  <2>6. an_buf' \in Seq(Piece) /\ wire' \in Seq(Piece)
    BY <2>1, <2>5, JoinedType DEF part, rest
  <2> QED BY <1>27, <2>6 DEF RecvCut
<1>28. CASE AnalyseBad
  <2> DEFINE r == Analysis(an_buf, http[ridx])
  <2>1. http[ridx] \in Requests \cup {NULL}
    BY <1>t
  <2>2. r.http \in Requests \cup {NULL} /\ r.left \in Seq(Piece)
    BY <2>1, AnalysisType
  <2>3. /\ an_buf' = IF r.ret = 0 THEN r.left ELSE NextHead(r.left)
        /\ http' = [http EXCEPT ![ridx] = r.http]
    BY <1>28 DEF AnalyseBad
  <2>4. crash' \in BOOLEAN
    BY <1>28 DEF AnalyseBad
  <2> HIDE DEF r
  <2>5. an_buf' \in Seq(Piece) /\ http' \in [Slot -> Requests \cup {NULL}]
    BY <2>2, <2>3, <1>t, NextHeadType
  <2> QED BY <1>28, <2>4, <2>5 DEF AnalyseBad
<1>15. CASE RecvDone
  <2>1. sta' \in [Slot -> 0 .. 3]
    BY <1>15, <1>t DEF RecvDone
  <2> QED BY <1>15, <2>1 DEF RecvDone
<1>16. CASE CallIndex
  <2>1. never' \in SUBSET {"insert", "send", "recv", "call", "release"}
    BY <1>16 DEF CallIndex, Expect
  <2>2. es_fd' \in BOOLEAN
    BY <1>16 DEF CallIndex
  <2> QED BY <1>16, <2>1, <2>2 DEF CallIndex
<1>17. CASE CallBack
  <2>1. answered' \in Seq([req : Requests, http : Requests \cup {NULL}])
    <3>1. CASE req[cidx] = NULL
      BY <1>17, <3>1 DEF CallBack
    <3>2. CASE req[cidx] # NULL
      <4>1. [req |-> req[cidx], http |-> http[cidx]] \in [req : Requests, http : Requests \cup {NULL}]
        BY <1>t, <3>2
      <4>2. answered' = Append(answered, [req |-> req[cidx], http |-> http[cidx]])
        BY <1>17, <3>2 DEF CallBack
      <4> QED BY <4>1, <4>2
    <3> QED BY <3>1, <3>2
  <2>2. crash' \in BOOLEAN
    BY <1>17 DEF CallBack
  <2> QED BY <1>17, <2>1, <2>2 DEF CallBack
<1>18. CASE ReleaseSlot
  <2>1. never' \in SUBSET {"insert", "send", "recv", "call", "release"}
    BY <1>18 DEF ReleaseSlot, Expect
  <2>2. /\ sta' \in [Slot -> 0 .. 3] /\ req' \in [Slot -> Requests \cup {NULL}]
        /\ http' \in [Slot -> Requests \cup {NULL}]
    BY <1>18, <1>t DEF ReleaseSlot
  <2> QED BY <1>18, <2>1, <2>2 DEF ReleaseSlot
<1>19. CASE ReleasePool \/ ReleaseUnset \/ ReleaseFree
  <2>1. mem' \in [AllSlots -> {"live", "freed", "null"}]
    BY <1>19, <1>t DEF ReleasePool, ReleaseUnset, ReleaseFree
  <2>2. crash' \in BOOLEAN
    BY <1>19 DEF ReleasePool, ReleaseUnset, ReleaseFree
  <2> QED BY <1>19, <2>1, <2>2 DEF ReleasePool, ReleaseUnset, ReleaseFree
<1>20. CASE ServerReply
  <2> DEFINE answer == [k \in 1 .. 3 |-> [req |-> Head(inbox), kind |-> <<"head", "end", "tail">>[k]]]
  <2>1. Head(inbox) \in Requests /\ Tail(inbox) \in Seq(Requests)
    BY <1>20 DEF ServerReply
  <2>2. \A k \in 1 .. 3 : <<"head", "end", "tail">>[k] \in {"head", "end", "tail"}
    OBVIOUS
  <2>3. \A k \in 1 .. 3 : answer[k] \in Piece
    BY <2>1, <2>2 DEF Piece
  <2>4. answer \in Seq(Piece)
    BY <2>3
  <2>5. wire' = wire \o answer
    BY <1>20 DEF ServerReply
  <2> HIDE DEF answer
  <2>6. wire' \in Seq(Piece)
    BY <2>4, <2>5
  <2> QED BY <1>20, <2>1, <2>6 DEF ServerReply
<1>21. CASE LoseLink
  <2>1. <<>> \in Seq(Requests) /\ <<>> \in Seq(Piece)
    BY EmptySeq
  <2>2. inbox' \in Seq(Requests) /\ wire' \in Seq(Piece) /\ link' \in BOOLEAN
    BY <1>21, <2>1 DEF LoseLink
  <2> QED BY <1>21, <2>2 DEF LoseLink
<1>22. CASE StopRun
  <2>1. quiet' \in BOOLEAN
    BY <1>22 DEF StopRun, Idle
  <2> QED BY <1>22, <2>1 DEF StopRun
<1>23. CASE WaitSlot
  BY <1>23 DEF WaitSlot
<1>24. CASE FreeSlot \/ UnsetSlot
  <2>1. mem' \in [AllSlots -> {"live", "freed", "null"}]
    BY <1>24, <1>t DEF FreeSlot, UnsetSlot
  <2>2. crash' \in BOOLEAN
    BY <1>24 DEF FreeSlot, UnsetSlot
  <2> QED BY <1>24, <2>1, <2>2 DEF FreeSlot, UnsetSlot
<1>25. CASE SetOver
  BY <1>25 DEF SetOver
<1>26. CASE UNCHANGED vars
  BY <1>26 DEF vars
<1> QED
  BY <1>1, <1>2, <1>3, <1>4, <1>5, <1>6, <1>7, <1>8, <1>9, <1>10, <1>11, <1>12, <1>13,
     <1>14, <1>15, <1>16, <1>17, <1>18, <1>19, <1>20, <1>21, <1>22, <1>23, <1>24, <1>25, <1>26,
     <1>27, <1>28
  DEF Next, Caller, Sender, Receiver, CallbackThread, Destroyer

-----------------------------------------------------------------------------
(* The slots under way are not touched by a caller that fills one, nor by  *)
(* a callback that empties one.                                            *)
LEMMA CarriedRing ==
  ASSUME ControlTypeOK, OneCaller, RingOrder, DataTypeOK, Carried, Next, ~is_over'
  PROVE  (\A j \in 0 .. InFlight - 1 : req[Plus(call_index, j)] \in Requests)'
<1>0. ~is_over
  BY OverStays
<1>1. RingView
  BY <1>0, RingViewed
<1>2. \A j \in 0 .. InFlight - 1 : req[Plus(call_index, j)] \in Requests
  BY <1>0 DEF Carried
<1>t. /\ aidx \in [Callers -> Slot] /\ cidx \in Slot /\ call_index \in Slot
      /\ free_num \in Nat /\ NSlots \in Nat \ {0}
      /\ req \in [Slot -> Requests \cup {NULL}]
  BY NSlotsAssumption DEF ControlTypeOK, DataTypeOK
<1>c. Cardinality(Filling) \in {0, 1} /\ (Cardinality(Filling) = 0 <=> Filling = {})
  BY FillingCard
<1>b. InFlight \in Nat /\ InFlight <= NSlots
  BY <1>1, <1>t, <1>c, Counts DEF RingView
<1>n. send_num \in Nat /\ call_num \in Nat /\ send_num # send_num + 1 /\ call_num # call_num - 1
  BY DEF ControlTypeOK
<1>p. \A j \in 0 .. NSlots - 1 : Plus(call_index, j) \in Slot
  BY <1>t, PlusType
<1>3. ASSUME NEW a \in Callers, FillSlot(a)
      PROVE  (\A j \in 0 .. InFlight - 1 : req[Plus(call_index, j)] \in Requests)'
  <2>1. a \in Filling /\ areq[a] \in Requests
    BY <1>3 DEF FillSlot, Filling, Carried
  <2>2. aidx[a] = Plus(call_index, InFlight) /\ InFlight <= NSlots - 1
    BY <2>1, <1>1, <1>c, <1>t, Counts DEF RingView
  <2>3. req' = [req EXCEPT ![Plus(call_index, InFlight)] = areq[a]]
    BY <1>3, <2>2 DEF FillSlot
  <2>4. call_index' = call_index /\ InFlight' = InFlight + 1
    BY <1>3, FlightStep
  <2>5. ASSUME NEW j \in 0 .. InFlight PROVE req'[Plus(call_index, j)] \in Requests
    <3>1. Plus(call_index, j) \in Slot
      BY <1>p, <1>b, <1>t, <2>2
    <3>2. CASE j = InFlight
      BY <2>1, <2>3, <3>1, <3>2, <1>t
    <3>3. CASE j \in 0 .. InFlight - 1
      <4>1. Plus(call_index, j) # Plus(call_index, InFlight)
        BY <3>3, <1>b, <2>2, <1>t, PlusInjective
      <4> QED BY <1>2, <3>1, <3>3, <4>1, <2>3, <1>t
    <3> QED BY <3>2, <3>3, <1>b
  <2>6. ASSUME NEW j \in 0 .. InFlight' - 1 PROVE req'[Plus(call_index, j)] \in Requests
    BY <2>4, <2>5, <1>b
  <2> QED BY <2>4, <2>6 DEF Plus
<1>4. ASSUME UNCHANGED req, CallIndex
      PROVE  (\A j \in 0 .. InFlight - 1 : req[Plus(call_index, j)] \in Requests)'
  <2>1. call_index' = Advance(call_index) /\ InFlight' = InFlight - 1
    BY <1>4, FlightStep
  <2>2. ASSUME NEW j \in 0 .. InFlight - 2 PROVE req'[Plus(call_index', j)] \in Requests
    <3>1. Plus(Advance(call_index), j) = Plus(call_index, j + 1)
      BY <1>t, <1>b, PlusAdvance
    <3>2. j + 1 \in 0 .. InFlight - 1
      BY <1>b
    <3> QED BY <1>2, <1>4, <2>1, <3>1, <3>2
  <2>3. ASSUME NEW j \in 0 .. InFlight' - 1 PROVE req'[Plus(call_index', j)] \in Requests
    BY <2>1, <2>2, <1>b
  <2> QED BY <2>3 DEF Plus
<1>5. ASSUME NEW s \in Slot, req' = [req EXCEPT ![s] = NULL], UNCHANGED <<call_index, InFlight>>,
             \A j \in 0 .. InFlight - 1 : Plus(call_index, j) # s
      PROVE  (\A j \in 0 .. InFlight - 1 : req[Plus(call_index, j)] \in Requests)'
  <2>1. ASSUME NEW j \in 0 .. InFlight - 1 PROVE req'[Plus(call_index, j)] \in Requests
    <3>1. Plus(call_index, j) \in Slot
      BY <1>p, <1>b, <1>t
    <3> QED BY <1>2, <1>5, <3>1, <1>t
  <2> QED BY <1>5, <2>1 DEF Plus
<1>6. ASSUME NEW a \in Callers, FillFails(a)
      PROVE  (\A j \in 0 .. InFlight - 1 : req[Plus(call_index, j)] \in Requests)'
  <2>1. a \in Filling
    BY <1>6 DEF FillFails, Filling
  <2>2. aidx[a] = Plus(call_index, InFlight) /\ InFlight <= NSlots - 1
    BY <2>1, <1>1, <1>c, <1>t, Counts DEF RingView
  <2>3. ~(\E b \in Callers : FillSlot(b)) /\ ~CallIndex
    BY <1>6, <1>n DEF FillSlot, FillFails, CallIndex
  <2>4. UNCHANGED <<call_index, InFlight>>
    BY <2>3, FlightStep
  <2>5. \A j \in 0 .. InFlight - 1 : Plus(call_index, j) # aidx[a]
    BY <2>2, <1>b, <1>t, PlusInjective
  <2>6. req' = [req EXCEPT ![aidx[a]] = NULL] /\ aidx[a] \in Slot
    BY <1>6, <1>t DEF FillFails
  <2> QED BY <2>4, <2>5, <2>6, <1>5
<1>7. ASSUME ReleaseSlot
      PROVE  (\A j \in 0 .. InFlight - 1 : req[Plus(call_index, j)] \in Requests)'
  <2>1. Calling = 1
    BY <1>7 DEF ReleaseSlot, Calling
  <2>2. cidx = Plus(call_index, NSlots - 1) /\ InFlight <= NSlots - 1
    BY <2>1, <1>1, <1>c, <1>t DEF RingView
  <2>3. ~(\E b \in Callers : FillSlot(b)) /\ ~CallIndex
    BY <1>7, <1>n DEF FillSlot, ReleaseSlot, CallIndex, sems
  <2>4. UNCHANGED <<call_index, InFlight>>
    BY <2>3, FlightStep
  <2>5. \A j \in 0 .. InFlight - 1 : Plus(call_index, j) # cidx
    BY <2>2, <1>b, <1>t, PlusInjective
  <2>6. req' = [req EXCEPT ![cidx] = NULL]
    BY <1>7 DEF ReleaseSlot
  <2> QED BY <2>4, <2>5, <2>6, <1>5, <1>t
<1>8. ASSUME UNCHANGED req, ~(\E a \in Callers : FillSlot(a)), ~CallIndex
      PROVE  (\A j \in 0 .. InFlight - 1 : req[Plus(call_index, j)] \in Requests)'
  <2>1. UNCHANGED <<call_index, InFlight>>
    BY <1>8, FlightStep
  <2> QED BY <1>2, <1>8, <2>1 DEF Plus
<1>9. \/ UNCHANGED req \/ ReleaseSlot
      \/ \E a \in Callers : FillSlot(a) \/ FillFails(a)
  BY DEF Next, Query, Caller, LockAsyn, InsertIndex, Sender, SendIndex, SendRequest, SendPost,
     SendMark, Receiver, RecvIndex, RecvBytes, RecvReconnect, Analyse, RecvDone, AnalyseFails, AnalyseBad, RecvCut,
     CallbackThread, CallIndex, CallBack, ReleasePool, ReleaseUnset, ReleaseFree, ServerReply,
     LoseLink, StopRun, Destroyer, WaitSlot, FreeSlot, UnsetSlot, SetOver, slots
<1> QED BY <1>3, <1>4, <1>6, <1>7, <1>8, <1>9

LEMMA NextCarried ==
  ControlTypeOK /\ OneCaller /\ RingOrder /\ DataTypeOK /\ Carried /\ [Next]_vars => Carried'
<1> SUFFICES ASSUME ControlTypeOK, OneCaller, RingOrder, DataTypeOK, Carried, [Next]_vars
             PROVE  Carried'
  OBVIOUS
<1>1. CASE UNCHANGED vars
  <2>1. UNCHANGED <<InFlight, call_index, req, apc, areq, is_over, es_fd>>
    BY <1>1 DEF vars, InFlight, Received, Sending, idx, sems, slots, callers, sender, receiver, net
  <2> QED BY <2>1 DEF Carried, Plus
<1>2. CASE Next
  <2>1. (~is_over => \A j \in 0 .. InFlight - 1 : req[Plus(call_index, j)] \in Requests)'
    BY <1>2, CarriedRing
  <2>2. is_over' => ~es_fd'
    BY <1>2 DEF Carried, Next, Query, Caller, LockAsyn, InsertIndex, FillSlot, FillFails, Sender,
       SendIndex, SendRequest, SendPost, SendMark, Receiver, RecvIndex, RecvBytes, RecvReconnect,
       Analyse, RecvDone, AnalyseFails, AnalyseBad, RecvCut, CallbackThread, CallIndex, CallBack, ReleaseSlot,
       ReleasePool, ReleaseUnset, ReleaseFree, ServerReply, LoseLink, StopRun, Destroyer,
       WaitSlot, FreeSlot, UnsetSlot, SetOver, net
  <2>3. ASSUME NEW b \in Callers, apc'[b] # "idle" PROVE areq'[b] \in Requests
    <3>0. \A c \in Callers : apc[c] # "idle" => areq[c] \in Requests
      BY DEF Carried
    <3>t. /\ apc \in [Callers -> {"idle", "lock", "insert", "fill"}]
          /\ areq \in [Callers -> Requests \cup {NULL}]
      BY DEF ControlTypeOK
    <3>1. ASSUME NEW a \in Callers, NEW r \in Requests, Query(a, r) PROVE areq'[b] \in Requests
      BY <2>3, <3>0, <3>t, <3>1 DEF Query
    <3>2. ASSUME NEW a \in Callers, Caller(a) \/ FillFails(a) PROVE areq'[b] \in Requests
      BY <2>3, <3>0, <3>t, <3>2 DEF Caller, LockAsyn, InsertIndex, FillSlot, FillFails
    <3>3. CASE UNCHANGED <<apc, areq>>
      BY <2>3, <3>0, <3>3
    <3>4. CASE Sender \/ Receiver \/ RecvCut \/ AnalyseBad \/ AnalyseFails
      BY <3>3, <3>4 DEF Sender, SendIndex, SendRequest, SendPost, SendMark, Receiver, RecvIndex,
         RecvBytes, RecvReconnect, Analyse, RecvDone, AnalyseFails, AnalyseBad, RecvCut, callers
    <3>5. CASE CallbackThread \/ ServerReply \/ LoseLink \/ StopRun \/ Destroyer
      BY <3>3, <3>5 DEF CallbackThread, CallIndex, CallBack, ReleaseSlot, ReleasePool,
         ReleaseUnset, ReleaseFree, ServerReply, LoseLink, StopRun, Destroyer, WaitSlot,
         FreeSlot, UnsetSlot, SetOver, callers
    <3> QED BY <1>2, <3>1, <3>2, <3>4, <3>5 DEF Next
  <2> QED BY <2>1, <2>2, <2>3 DEF Carried
<1> QED BY <1>1, <1>2

DInv == IInv /\ DataTypeOK /\ Carried

LEMMA DataInvariance == Spec => []DInv
<1>1. Init => DInv
  BY InitIInv, InitData DEF DInv
<1>2. DInv /\ [Next]_vars => DInv'
  BY NextIInv, NextDataType, NextCarried DEF DInv, IInv
<1> QED BY <1>1, <1>2, PTL DEF Spec

(* The shared state of the service, every thread's locals, what is on the  *)
(* connection and what the callers are told keep their types; the request  *)
(* that is written to the socket is always one a caller made.              *)
THEOREM TypeCorrect == Spec => []TypeOK
<1>1. DInv => TypeOK
  BY DEF DInv, IInv, TypeOK
<1> QED BY <1>1, DataInvariance, PTL

-----------------------------------------------------------------------------
(* What a step of a stopped service does to the slots in the ring: it adds *)
(* none, since ReleaseFree no longer posts free_num.                       *)
LEMMA UseStep ==
  ASSUME ControlTypeOK, OneCaller, Next, ~is_over', ~is_run'
  PROVE  /\ CallIndex => call_index' = Advance(call_index) /\ InUse' = InUse - 1
         /\ ~CallIndex => UNCHANGED call_index /\ InUse' <= InUse
<1>t. /\ apc \in [Callers -> {"idle", "lock", "insert", "fill"}]
      /\ send_num \in Nat /\ recv_num \in Nat /\ call_num \in Nat /\ free_num \in Nat
      /\ send_num # send_num + 1 /\ call_num # call_num - 1
  BY DEF ControlTypeOK
<1>c. Cardinality(Filling) \in {0, 1}
  BY FillingCard
<1>b. InFlight \in Int
  BY <1>t, Counts DEF InFlight
<1>e. Cardinality({}) = 0 /\ \A a : Cardinality({a}) = 1
  BY FS_EmptySet, FS_Singleton
<1>1. ASSUME NEW a \in Callers, FillSlot(a) PROVE UNCHANGED call_index /\ InUse' <= InUse
  <2>1. Filling = {a} /\ Filling' = {}
    BY <1>1, <1>t DEF FillSlot, Filling, OneCaller
  <2>2. Cardinality(Filling) = 1 /\ Cardinality(Filling') = 0
    BY <2>1, <1>e
  <2>3. UNCHANGED call_index /\ InFlight' = InFlight + 1 /\ free_num' = free_num
    BY <1>1, FlightStep DEF FillSlot
  <2> QED BY <2>2, <2>3, <1>b, <1>t DEF InUse
<1>2. ASSUME CallIndex PROVE call_index' = Advance(call_index) /\ InUse' = InUse - 1
  <2>1. call_index' = Advance(call_index) /\ InFlight' = InFlight - 1
    BY <1>2, FlightStep
  <2>2. free_num' = free_num /\ Filling' = Filling
    BY <1>2 DEF CallIndex, Filling, callers
  <2> QED BY <2>1, <2>2, <1>b, <1>c, <1>t DEF InUse
<1>3. ASSUME ~CallIndex, ~\E a \in Callers : FillSlot(a)
      PROVE  UNCHANGED call_index /\ InUse' <= InUse
  <2>1. UNCHANGED <<call_index, InFlight>>
    BY <1>3, FlightStep
  <2>2. Cardinality(Filling') + free_num' <= Cardinality(Filling) + free_num
    <3>1. CASE UNCHANGED <<Filling, free_num>>
      BY <3>1, <1>c, <1>t
    <3>2. ASSUME NEW a \in Callers, NEW r \in Requests, Query(a, r)
          PROVE  UNCHANGED <<Filling, free_num>>
      BY <3>2, <1>t DEF Query, Filling, sems
    <3>3. ASSUME NEW a \in Callers, LockAsyn(a) PROVE UNCHANGED <<Filling, free_num>>
      BY <3>3, <1>t DEF LockAsyn, Filling, sems
    <3>4. ASSUME NEW a \in Callers, InsertIndex(a)
          PROVE  Cardinality(Filling') + free_num' <= Cardinality(Filling) + free_num
      <4>1. Filling = {} /\ (Filling' = {} \/ Filling' = {a})
        BY <3>4, <1>t DEF InsertIndex, Filling, OneCaller
      <4>2. Cardinality(Filling) = 0 /\ Cardinality(Filling') \in {0, 1} /\ free_num' = free_num - 1
        BY <3>4, <4>1, <1>e DEF InsertIndex
      <4> QED BY <4>2, <1>t
    <3>5. ASSUME NEW a \in Callers, FillFails(a)
          PROVE  Cardinality(Filling') + free_num' <= Cardinality(Filling) + free_num
      <4>1. Filling = {a} /\ Filling' = {}
        BY <3>5, <1>t DEF FillFails, Filling, OneCaller
      <4>2. Cardinality(Filling) = 1 /\ Cardinality(Filling') = 0 /\ free_num' = free_num + 1
        BY <3>5, <4>1, <1>e DEF FillFails
      <4> QED BY <4>2, <1>t
    <3>6. CASE Sender \/ Receiver \/ RecvCut \/ AnalyseBad \/ AnalyseFails
      BY <3>1, <3>6 DEF Sender, SendIndex, SendRequest, SendPost, SendMark, Receiver, RecvIndex,
         RecvBytes, RecvReconnect, Analyse, RecvDone, AnalyseFails, AnalyseBad, RecvCut, Filling, callers, sems
    <3>7. CASE CallBack \/ ReleaseSlot \/ ReleasePool \/ ReleaseUnset
      BY <3>1, <3>7 DEF CallBack, ReleaseSlot, ReleasePool, ReleaseUnset, Filling, callers, sems
    <3>8. CASE ReleaseFree
      BY <3>1, <3>8 DEF ReleaseFree, Filling, callers
    <3>9. CASE ServerReply \/ LoseLink \/ StopRun \/ WaitSlot \/ FreeSlot \/ UnsetSlot
      BY <3>1, <3>9 DEF ServerReply, LoseLink, StopRun, WaitSlot, FreeSlot, UnsetSlot, Filling,
         callers, sems
    <3>10. ~SetOver
      BY DEF SetOver
    <3> QED
      BY <1>3, <3>1, <3>2, <3>3, <3>4, <3>5, <3>6, <3>7, <3>8, <3>9, <3>10
      DEF Next, Caller, CallbackThread, Destroyer
  <2>3. Cardinality(Filling') \in Int /\ free_num' \in Int
    <3>1. IsFiniteSet(Filling')
      <4>1. Filling' \subseteq Callers
        BY DEF Filling
      <4> QED BY <4>1, CallersAssumption, FS_Subset
    <3>2. free_num' \in Int
      BY <1>t DEF Next, Query, Caller, LockAsyn, InsertIndex, FillSlot, FillFails, Sender,
       SendIndex, SendRequest, SendPost, SendMark, Receiver, RecvIndex, RecvBytes, RecvReconnect,
       Analyse, RecvDone, AnalyseFails, AnalyseBad, RecvCut, CallbackThread, CallIndex, CallBack, ReleaseSlot,
       ReleasePool, ReleaseUnset, ReleaseFree, ServerReply, LoseLink, StopRun, Destroyer,
       WaitSlot, FreeSlot, UnsetSlot, SetOver, sems
    <3> QED BY <3>1, <3>2, FS_CardinalityType
  <2> QED BY <2>1, <2>2, <2>3, <1>b, <1>c, <1>t DEF InUse
<1> QED BY <1>1, <1>2, <1>3

LEMMA FillingCount == OneCaller => Cardinality(Filling) \in {0, 1}
BY FillingCard

(* Every stage works on a slot whose pool is up.                           *)
LEMMA LiveInHand ==
  ASSUME ControlTypeOK, OneCaller, RingOrder, PoolsUp, dpc = "none"
  PROVE  /\ \A a \in Filling : mem[aidx[a]] = "live"
         /\ Sending = 1 => mem[sidx] = "live"
         /\ Receiving = 1 => mem[ridx] = "live"
         /\ call_num > 0 => mem[call_index] = "live"
<1>1. ~is_over /\ \A j \in 0 .. InUse - 1 : mem[Plus(call_index, j)] = "live"
  BY DEF PoolsUp
<1>2. RingView
  BY <1>1, RingViewed
<1>t. /\ call_index \in Slot /\ recv_num \in Nat /\ call_num \in Nat /\ free_num \in Nat
  BY DEF ControlTypeOK
<1>c. Cardinality(Filling) \in {0, 1} /\ (Cardinality(Filling) = 0 <=> Filling = {})
  BY FillingCard
<1>3. InFlight \in Nat /\ InFlight <= InUse
  BY <1>2, <1>c, <1>t DEF RingView, InUse
<1>4. ASSUME NEW a \in Filling PROVE mem[aidx[a]] = "live"
  <2>1. InFlight \in 0 .. InUse - 1
    BY <1>3, <1>c, <1>t, <1>4 DEF InUse
  <2> QED BY <1>1, <1>2, <1>4, <2>1 DEF RingView
<1>5. ASSUME Sending = 1 PROVE mem[sidx] = "live"
  <2>1. call_num + Received + recv_num \in 0 .. InUse - 1
    BY <1>2, <1>3, <1>5, <1>c, <1>t, Counts DEF RingView, InUse
  <2> QED BY <1>1, <1>2, <1>5, <2>1 DEF RingView
<1>6. ASSUME Receiving = 1 PROVE mem[ridx] = "live"
  <2>0. Received = 1
    BY <1>6 DEF Receiving, Received
  <2>1. call_num \in 0 .. InUse - 1
    BY <1>2, <1>3, <2>0, <1>c, <1>t, Counts DEF RingView, InUse
  <2> QED BY <1>1, <1>2, <2>0, <2>1 DEF RingView
<1>7. ASSUME call_num > 0 PROVE mem[call_index] = "live"
  <2>1. 0 \in 0 .. InUse - 1
    BY <1>2, <1>3, <1>7, <1>c, <1>t, Counts DEF RingView, InUse
  <2> QED BY <1>1, <1>t, <2>1, PlusZero
<1> QED BY <1>4, <1>5, <1>6, <1>7

(* As long as es_server_destroy is not called no pool is used after its    *)
(* end, although a failed allocation may have stopped the service.         *)
LEMMA NextPoolsUp ==
  ASSUME ControlTypeOK, OneCaller, RingOrder, DataTypeOK, PoolsUp, Next, dpc' = "none",
         ControlTypeOK', OneCaller', RingOrder'
  PROVE  PoolsUp'
<1>0. dpc = "none" /\ UNCHANGED quiet /\ ~StopRun /\ ~Destroyer
  BY DEF Next, Query, Caller, LockAsyn, InsertIndex, FillSlot, FillFails, Sender,
     SendIndex, SendRequest, SendPost, SendMark, Receiver, RecvIndex, RecvBytes, RecvReconnect,
     Analyse, RecvDone, AnalyseFails, AnalyseBad, RecvCut, CallbackThread, CallIndex, CallBack, ReleaseSlot,
     ReleasePool, ReleaseUnset, ReleaseFree, ServerReply, LoseLink, StopRun, Destroyer,
     WaitSlot, FreeSlot, UnsetSlot, SetOver, destroyer
<1>1. /\ quiet /\ ~crash /\ ~is_over
      /\ is_run => \A i \in AllSlots : mem[i] = "live"
      /\ \A j \in 0 .. InUse - 1 : mem[Plus(call_index, j)] = "live"
      /\ cpc \in {"call", "release", "pool"} => mem[cidx] = "live"
      /\ cpc = "unset" => ~is_run
      /\ \A i \in AllSlots : mem[i] = "freed" => cpc = "unset" /\ i = cidx
  BY <1>0 DEF PoolsUp
<1>t. /\ cidx \in Slot /\ call_index \in Slot /\ NSlots \in Nat \ {0} /\ free_num \in Nat
      /\ mem \in [AllSlots -> {"live", "freed", "null"}] /\ \A i \in Slot : i \in AllSlots
  <2>1. \A i \in Slot : i \in AllSlots
    BY NSlotsAssumption DEF Slot, AllSlots
  <2> QED BY <2>1, NSlotsAssumption DEF ControlTypeOK, DataTypeOK
<1>2. ~is_over'
  BY <1>0, <1>1 DEF Next, Query, Caller, LockAsyn, InsertIndex, FillSlot, FillFails, Sender,
     SendIndex, SendRequest, SendPost, SendMark, Receiver, RecvIndex, RecvBytes, RecvReconnect,
     Analyse, RecvDone, AnalyseFails, AnalyseBad, RecvCut, CallbackThread, CallIndex, CallBack, ReleaseSlot,
     ReleasePool, ReleaseUnset, ReleaseFree, ServerReply, LoseLink
<1>3. RingView /\ RingView'
  <2>1. RingView
    BY <1>1, RingViewed
  <2>2. RingView'
    BY <1>2, RingViewed, PTL
  <2> QED BY <2>1, <2>2
<1>4. ~crash'
  <2>1. ASSUME NEW a \in Callers, Caller(a) \/ FillFails(a) PROVE ~crash'
    <3>1. apc[a] = "fill" => mem[aidx[a]] = "live"
      BY <1>0, LiveInHand DEF Filling
    <3> QED BY <1>1, <2>1, <3>1 DEF Caller, LockAsyn, InsertIndex, FillSlot, FillFails, hist
  <2>2. CASE Sender
    <3>1. spc = "send" => mem[sidx] = "live"
      BY <1>0, LiveInHand DEF Sending
    <3> QED BY <1>1, <2>2, <3>1 DEF Sender, SendIndex, SendRequest, SendPost, SendMark, hist
  <2>3. CASE Receiver \/ RecvCut \/ AnalyseBad \/ AnalyseFails
    <3>1. rpc = "analyse" => mem[ridx] = "live"
      BY <1>0, LiveInHand DEF Receiving
    <3> QED BY <1>1, <2>3, <3>1 DEF Receiver, RecvIndex, RecvBytes, RecvReconnect, Analyse,
               RecvDone, AnalyseFails, AnalyseBad, RecvCut, hist
  <2>4. CASE CallbackThread
    BY <1>1, <2>4 DEF CallbackThread, CallIndex, CallBack, ReleaseSlot, ReleasePool,
       ReleaseUnset, ReleaseFree, hist
  <2> QED BY <1>0, <1>1, <2>1, <2>2, <2>3, <2>4 DEF Next, Query, ServerReply, LoseLink, hist
<1>5. is_run' => is_run
  BY DEF Next, Query, Caller, LockAsyn, InsertIndex, FillSlot, FillFails, Sender,
     SendIndex, SendRequest, SendPost, SendMark, Receiver, RecvIndex, RecvBytes, RecvReconnect,
     Analyse, RecvDone, AnalyseFails, AnalyseBad, RecvCut, CallbackThread, CallIndex, CallBack, ReleaseSlot,
     ReleasePool, ReleaseUnset, ReleaseFree, ServerReply, LoseLink, StopRun, Destroyer,
     WaitSlot, FreeSlot, UnsetSlot, SetOver
<1>6. \/ UNCHANGED mem /\ ~ReleasePool /\ ~ReleaseUnset
      \/ ReleasePool
      \/ ReleaseUnset
  BY <1>0 DEF Next, Query, Caller, LockAsyn, InsertIndex, FillSlot, FillFails, Sender,
     SendIndex, SendRequest, SendPost, SendMark, Receiver, RecvIndex, RecvBytes, RecvReconnect,
     Analyse, RecvDone, AnalyseFails, AnalyseBad, RecvCut, CallbackThread, CallIndex, CallBack, ReleaseSlot,
     ReleaseFree, ServerReply, LoseLink, slots
<1>7. \/ UNCHANGED mem
      \/ /\ ~is_run /\ Calling = 1 /\ ~CallIndex
         /\ \E v \in {"freed", "null"} : mem' = [mem EXCEPT ![cidx] = v]
  BY <1>1, <1>6 DEF ReleasePool, ReleaseUnset, Calling, CallIndex
<1>8. is_run' => \A i \in AllSlots : mem'[i] = "live"
  BY <1>1, <1>5, <1>7
<1>9. ASSUME ~is_run' PROVE (\A j \in 0 .. InUse - 1 : mem[Plus(call_index, j)] = "live")'
  <2>0. Cardinality(Filling) \in {0, 1} /\ InFlight \in Nat
    BY FillingCard, <1>3 DEF RingView
  <2>n. InUse \in Nat /\ InUse <= NSlots
    BY <1>3, <1>t, <2>0, Counts DEF RingView, InUse
  <2>m. InUse' \in Nat
    <3>1. (Cardinality(Filling) \in {0, 1})'
      BY FillingCount, PTL
    <3>2. InFlight' \in Nat /\ free_num' \in Nat
      BY <1>3 DEF RingView, ControlTypeOK
    <3> QED BY <3>1, <3>2 DEF InUse
  <2>1. ASSUME CallIndex, NEW j \in 0 .. InUse' - 1 PROVE mem'[Plus(call_index', j)] = "live"
    <3>1. call_index' = Advance(call_index) /\ InUse' = InUse - 1 /\ UNCHANGED mem
      BY <1>2, <1>7, <1>9, <2>1, UseStep
    <3>2. Plus(Advance(call_index), j) = Plus(call_index, j + 1)
      BY <1>t, <2>n, <3>1, PlusAdvance
    <3>3. j + 1 \in 0 .. InUse - 1
      BY <2>n, <3>1
    <3> QED BY <1>1, <3>1, <3>2, <3>3
  <2>2. ASSUME ~CallIndex, NEW j \in 0 .. InUse' - 1 PROVE mem'[Plus(call_index', j)] = "live"
    <3>1. UNCHANGED call_index /\ InUse' <= InUse
      BY <1>2, <1>9, <2>2, UseStep
    <3>2. j \in 0 .. InUse - 1
      <4>1. \A m, n \in Nat : m <= n => \A i \in 0 .. m - 1 : i \in 0 .. n - 1
        OBVIOUS
      <4> QED BY <2>n, <2>m, <2>2, <3>1, <4>1
    <3>3. CASE UNCHANGED mem
      BY <1>1, <3>1, <3>2, <3>3
    <3>4. CASE Calling = 1 /\ \E v \in {"freed", "null"} : mem' = [mem EXCEPT ![cidx] = v]
      <4>1. cidx = Plus(call_index, NSlots - 1) /\ InUse <= NSlots - 1
        BY <1>3, <3>4, <1>t, <2>0 DEF RingView, InUse
      <4>2. Plus(call_index, j) # cidx
        BY <4>1, <3>2, <2>n, <1>t, PlusInjective
      <4> QED BY <1>1, <1>t, <3>1, <3>2, <3>4, <4>2
    <3> QED BY <1>7, <3>3, <3>4
  <2>3. ASSUME NEW j \in 0 .. InUse' - 1 PROVE mem'[Plus(call_index', j)] = "live"
    BY <2>1, <2>2
  <2> QED BY <2>3 DEF Plus
<1>10. ASSUME is_run' PROVE (\A j \in 0 .. InUse - 1 : mem[Plus(call_index, j)] = "live")'
  <2>1. InUse' <= NSlots /\ InUse' \in Int /\ call_index' \in Slot
    <3>1. (Cardinality(Filling) \in {0, 1})'
      BY FillingCount, PTL
    <3>2. Calling' \in {0, 1} /\ InFlight' \in Nat /\ free_num' \in Nat
      BY <1>3 DEF Calling, RingView, ControlTypeOK
    <3> QED BY <1>3, <3>1, <3>2, <1>t DEF RingView, ControlTypeOK, InUse
  <2>2. ASSUME NEW j \in 0 .. InUse' - 1 PROVE mem'[Plus(call_index', j)] = "live"
    <3>0. j \in 0 .. NSlots
      <4>1. \A m \in Int, n \in Nat : m <= n => \A i \in 0 .. m - 1 : i \in 0 .. n
        OBVIOUS
      <4> QED BY <2>1, <2>2, <1>t, <4>1
    <3>1. Plus(call_index', j) \in Slot
      BY <2>1, <3>0, PlusType
    <3> QED BY <1>8, <1>10, <1>t, <3>1
  <2> QED BY <2>2 DEF Plus
<1>11. cpc' \in {"call", "release", "pool"} => mem'[cidx'] = "live"
  <2>1. CASE CallIndex
    <3>1. cidx' = call_index /\ mem[call_index] = "live" /\ UNCHANGED mem
      BY <1>0, <1>1, <2>1, LiveInHand DEF CallIndex, slots
    <3> QED BY <3>1
  <2>2. CASE CallBack \/ ReleaseSlot \/ ReleasePool \/ ReleaseUnset \/ ReleaseFree
    BY <1>1, <2>2 DEF CallBack, ReleaseSlot, ReleasePool, ReleaseUnset, ReleaseFree, slots
  <2>3. CASE UNCHANGED <<caller, mem>>
    BY <1>1, <2>3 DEF caller
  <2>4. CASE Sender \/ Receiver \/ RecvCut \/ AnalyseBad \/ AnalyseFails \/ ServerReply \/ LoseLink
    BY <2>3, <2>4 DEF Sender, SendIndex, SendRequest, SendPost, SendMark, Receiver, RecvIndex,
       RecvBytes, RecvReconnect, Analyse, RecvDone, AnalyseFails, AnalyseBad, RecvCut, ServerReply, LoseLink, slots
  <2>5. ASSUME NEW a \in Callers, Caller(a) \/ FillFails(a) \/ \E r \in Requests : Query(a, r)
        PROVE  UNCHANGED <<caller, mem>>
    BY <2>5 DEF Caller, LockAsyn, InsertIndex, FillSlot, FillFails, Query, slots
  <2> QED BY <1>0, <2>1, <2>2, <2>3, <2>4, <2>5 DEF Next, CallbackThread
<1>12. /\ cpc' = "unset" => ~is_run'
       /\ \A i \in AllSlots : mem'[i] = "freed" => cpc' = "unset" /\ i = cidx'
  <2>1. CASE ReleasePool \/ ReleaseUnset
    BY <1>1, <1>t, <2>1 DEF ReleasePool, ReleaseUnset
  <2>2. CASE UNCHANGED mem /\ CallbackThread /\ ~ReleasePool /\ ~ReleaseUnset
    BY <1>1, <2>2 DEF CallbackThread, CallIndex, CallBack, ReleaseSlot, ReleaseFree
  <2>3. CASE UNCHANGED <<caller, mem>>
    BY <1>1, <1>5, <2>3 DEF caller
  <2>4. CASE Sender \/ Receiver \/ RecvCut \/ AnalyseBad \/ AnalyseFails \/ ServerReply \/ LoseLink
    BY <2>3, <2>4 DEF Sender, SendIndex, SendRequest, SendPost, SendMark, Receiver, RecvIndex,
       RecvBytes, RecvReconnect, Analyse, RecvDone, AnalyseFails, AnalyseBad, RecvCut, ServerReply, LoseLink, slots
  <2>5. ASSUME NEW a \in Callers, Caller(a) \/ FillFails(a) \/ \E r \in Requests : Query(a, r)
        PROVE  UNCHANGED <<caller, mem>>
    BY <2>5 DEF Caller, LockAsyn, InsertIndex, FillSlot, FillFails, Query, slots
  <2> QED BY <1>0, <1>6, <2>1, <2>2, <2>3, <2>4, <2>5 DEF Next
<1> QED
  BY <1>0, <1>1, <1>2, <1>4, <1>8, <1>9, <1>10, <1>11, <1>12 DEF PoolsUp

(* A service that was destroyed while nothing was under way.               *)
LEMMA NextPoolsDown ==
  ASSUME ControlTypeOK, DataTypeOK, Pools, Next, quiet', dpc' # "none"
  PROVE  PoolsDown'
<1>t. /\ didx \in AllSlots /\ mem \in [AllSlots -> {"live", "freed", "null"}]
      /\ send_num \in Nat /\ recv_num \in Nat /\ call_num \in Nat
  BY DEF ControlTypeOK, DataTypeOK
<1>1. CASE StopRun
  <2>1. Idle /\ dpc = "none"
    BY <1>1 DEF StopRun
  <2>2. ~crash /\ \A i \in AllSlots : mem[i] # "freed"
    BY <2>1 DEF Pools, PoolsUp, Idle
  <2>3. UNCHANGED <<crash, apc, spc, rpc, cpc, is_over, send_num, recv_num, call_num, mem>>
    BY <1>1 DEF StopRun, hist, callers, sender, receiver, caller, sems, slots
  <2> QED BY <2>1, <2>2, <2>3 DEF Idle, PoolsDown
<1>2. CASE ~StopRun
  <2>0. quiet /\ dpc # "none"
    BY <1>2 DEF Next, Query, Caller, LockAsyn, InsertIndex, FillSlot, FillFails, Sender,
     SendIndex, SendRequest, SendPost, SendMark, Receiver, RecvIndex, RecvBytes, RecvReconnect,
     Analyse, RecvDone, AnalyseFails, AnalyseBad, RecvCut, CallbackThread, CallIndex, CallBack, ReleaseSlot,
     ReleasePool, ReleaseUnset, ReleaseFree, ServerReply, LoseLink, Destroyer,
     WaitSlot, FreeSlot, UnsetSlot, SetOver, destroyer
  <2>1. /\ ~is_run /\ ~crash
        /\ \A a \in Callers : apc[a] = "idle"
        /\ spc \in {"wait", "exit"} /\ rpc \in {"wait", "exit"} /\ cpc \in {"wait", "exit"}
        /\ ~is_over => send_num = 0 /\ recv_num = 0 /\ call_num = 0
        /\ \A i \in AllSlots : mem[i] = "freed" => dpc = "unset" /\ i = didx
    BY <2>0 DEF Pools, PoolsDown
  <2>2. ASSUME NEW a \in Callers, NEW r \in Requests, Query(a, r) PROVE PoolsDown'
    BY <2>1, <2>2 DEF Query, PoolsDown, hist, sender, receiver, caller, sems, slots, destroyer
  <2>3. ~\E a \in Callers : Caller(a) \/ FillFails(a)
    BY <2>1 DEF Caller, LockAsyn, InsertIndex, FillSlot, FillFails
  <2>4. ASSUME SendIndex PROVE PoolsDown'
    BY <2>1, <2>4, <1>t DEF SendIndex, PoolsDown, callers, receiver, caller, slots, destroyer
  <2>5. ASSUME RecvIndex PROVE PoolsDown'
    BY <2>1, <2>5, <1>t DEF RecvIndex, PoolsDown, callers, sender, caller, slots, destroyer
  <2>6. ASSUME CallIndex PROVE PoolsDown'
    BY <2>1, <2>6, <1>t DEF CallIndex, PoolsDown, callers, sender, receiver, slots, destroyer
  <2>7. /\ ~SendRequest /\ ~SendPost /\ ~SendMark
        /\ ~RecvBytes /\ ~RecvReconnect /\ ~Analyse /\ ~AnalyseFails /\ ~RecvDone
        /\ ~RecvCut /\ ~AnalyseBad
        /\ ~CallBack /\ ~ReleaseSlot /\ ~ReleasePool /\ ~ReleaseUnset /\ ~ReleaseFree
    BY <2>1 DEF SendRequest, SendPost, SendMark, RecvBytes, RecvReconnect, Analyse,
       AnalyseFails, AnalyseBad, RecvCut, RecvDone, CallBack, ReleaseSlot, ReleasePool, ReleaseUnset, ReleaseFree
  <2>8. ASSUME ServerReply \/ LoseLink \/ WaitSlot PROVE PoolsDown'
    BY <2>1, <2>8 DEF ServerReply, LoseLink, WaitSlot, PoolsDown, callers, sender, receiver,
       caller, slots, sems, destroyer, hist
  <2>9. ASSUME FreeSlot PROVE PoolsDown'
    <3>1. mem[didx] # "freed" /\ dpc' = "unset" /\ UNCHANGED didx
      BY <2>1, <2>9, <1>t DEF FreeSlot
    <3>2. ~crash'
      BY <2>1, <2>9, <3>1 DEF FreeSlot
    <3>3. \A i \in AllSlots : mem'[i] = "freed" => i = didx
      BY <2>1, <2>9, <1>t DEF FreeSlot
    <3> QED BY <2>1, <2>9, <3>1, <3>2, <3>3 DEF FreeSlot, PoolsDown, callers, sender, receiver,
                                               caller, sems
  <2>10. ASSUME UnsetSlot PROVE PoolsDown'
    <3>1. \A i \in AllSlots : mem'[i] # "freed"
      BY <2>1, <2>10, <1>t DEF UnsetSlot
    <3> QED BY <2>1, <2>10, <3>1 DEF UnsetSlot, PoolsDown, callers, sender, receiver,
                                     caller, sems, hist
  <2>11. ASSUME SetOver PROVE PoolsDown'
    BY <2>1, <2>11 DEF SetOver, PoolsDown, callers, sender, receiver, caller, slots, hist
  <2> QED
    BY <1>2, <2>2, <2>3, <2>4, <2>5, <2>6, <2>7, <2>8, <2>9, <2>10, <2>11
    DEF Next, Sender, Receiver, CallbackThread, Destroyer
<1> QED BY <1>1, <1>2

PInv == DInv /\ Pools

LEMMA InitPools == Init => Pools
<1> SUFFICES ASSUME Init PROVE Pools
  OBVIOUS
<1>1. Filling = {} /\ Cardinality(Filling) = 0
  BY FS_EmptySet DEF Init, Filling
<1>2. InUse = NSlots
  BY <1>1, NSlotsAssumption DEF Init, InUse, InFlight, Received, Sending
<1>3. \A j \in 0 .. NSlots - 1 : Plus(call_index, j) \in AllSlots
  BY NSlotsAssumption DEF Init, Plus, AllSlots
<1> QED BY <1>2, <1>3 DEF Init, Pools, PoolsUp, PoolsDown

LEMMA NextPools == PInv /\ [Next]_vars => Pools'
<1> SUFFICES ASSUME PInv, [Next]_vars PROVE Pools'
  OBVIOUS
<1>0. /\ ControlTypeOK /\ OneCaller /\ RingOrder /\ DataTypeOK /\ Pools
      /\ ControlTypeOK' /\ OneCaller' /\ RingOrder'
  BY NextIInv DEF PInv, DInv, IInv
<1>1. CASE Next
  <2>1. PoolsUp'
    <3>1. CASE dpc' = "none"
      BY <1>0, <1>1, <3>1, NextPoolsUp DEF Pools
    <3>2. CASE dpc' # "none"
      BY <3>2 DEF PoolsUp
    <3> QED BY <3>1, <3>2
  <2>2. PoolsDown'
    <3>1. CASE quiet' /\ dpc' # "none"
      BY <1>0, <1>1, <3>1, NextPoolsDown
    <3>2. CASE ~(quiet' /\ dpc' # "none")
      BY <3>2 DEF PoolsDown
    <3> QED BY <3>1, <3>2
  <2>3. dpc' # "none" => ~is_run'
    BY <1>0, <1>1 DEF Pools, Next, Query, Caller, LockAsyn, InsertIndex, FillSlot, FillFails,
     Sender, SendIndex, SendRequest, SendPost, SendMark, Receiver, RecvIndex, RecvBytes,
     RecvReconnect, Analyse, RecvDone, AnalyseFails, AnalyseBad, RecvCut, CallbackThread, CallIndex, CallBack,
     ReleaseSlot, ReleasePool, ReleaseUnset, ReleaseFree, ServerReply, LoseLink, StopRun,
     Destroyer, WaitSlot, FreeSlot, UnsetSlot, SetOver, destroyer
  <2> QED BY <2>1, <2>2, <2>3 DEF Pools
<1>2. CASE UNCHANGED vars
  <2>1. UNCHANGED <<InUse, call_index, mem, quiet, crash, is_over, is_run, dpc, didx, cpc, cidx,
                    spc, rpc, apc, send_num, recv_num, call_num>>
    BY <1>2 DEF vars, InUse, InFlight, Received, Sending, Filling, idx, sems, slots, callers,
       sender, receiver, caller, destroyer, hist
  <2> QED BY <1>0, <2>1 DEF Pools, PoolsUp, PoolsDown, Plus
<1> QED BY <1>1, <1>2

(* However requests, callbacks, lost connections and failed allocations    *)
(* interleave, no thread uses or frees a slot's pool after its end before  *)
(* es_server_destroy is called, nor after it if nothing was under way when *)
(* it was called.                                                          *)
THEOREM QuietlyShutDown == Spec => []QuietShutdown
<1>1. Init => PInv
  BY InitIInv, InitData, InitPools DEF PInv, DInv
<1>2. PInv /\ [Next]_vars => PInv'
  BY NextIInv, NextDataType, NextCarried, NextPools DEF PInv, DInv, IInv
<1>3. PInv => QuietShutdown
  BY DEF PInv, Pools, PoolsUp, PoolsDown, QuietShutdown
<1> QED BY <1>1, <1>2, <1>3, PTL DEF Spec

-----------------------------------------------------------------------------
(* Room between the caller that fills a slot and the callback, once the    *)
(* service is over: the count of the free slots still keeps them apart.    *)
LEMMA GapFacts ==
  \A i, c \in Slot : /\ Gap(i, c) \in 0 .. NSlots - 1
                     /\ Gap(i, c) = 0 <=> i = c
                     /\ Gap(i, c) > 0 => Gap(Advance(i), c) = Gap(i, c) - 1
                     /\ i # c => Gap(i, c) = Gap(Advance(i), c) + 1
BY NSlotsAssumption DEF Gap, Slot, Advance

LEMMA OverRoomBegins ==
  ASSUME ControlTypeOK, OneCaller, RingOrder, SetOver, ~is_over PROVE OverRoom'
<1>1. UNCHANGED <<cpc, cidx, rpc, ridx, apc, aidx, asyn_mutex, insert_index, free_num>>
  BY DEF SetOver, idx, callers, receiver, caller
<1>2. UNCHANGED <<Filling, Held>>
  BY <1>1 DEF Filling, Held
<1> SUFFICES ASSUME cpc = "call"
             PROVE  /\ rpc \in {"recv", "analyse", "done"} => ridx # cidx
                    /\ \/ Filling = {} /\ (Held \/ insert_index = -1)
                       \/ /\ insert_index >= 0 /\ free_num <= Gap(insert_index, cidx)
                          /\ \A a \in Filling : insert_index = Advance(aidx[a]) /\ aidx[a] # cidx
  BY <1>1, <1>2 DEF OverRoom, Gap, Advance
<1>3. Calling = 1
  BY DEF Calling
<1>4. MeetOnlyAtMark
  BY OrderedStagesApart
<1>5. rpc \in {"recv", "analyse", "done"} => ridx # cidx
  BY <1>3, <1>4 DEF MeetOnlyAtMark, Receiving
<1>6. RingView
  BY RingViewed
<1>t. /\ send_index \in Slot /\ recv_index \in Slot /\ call_index \in Slot
      /\ free_num \in Nat /\ send_num \in Nat /\ recv_num \in Nat /\ call_num \in Nat
      /\ insert_index \in -1 .. NSlots - 1 /\ cidx \in Slot /\ NSlots \in Nat \ {0}
  BY NSlotsAssumption DEF ControlTypeOK
<1>c. Cardinality(Filling) \in {0, 1} /\ (Cardinality(Filling) = 0 <=> Filling = {})
  BY FillingCard
<1>7. CASE ~(Filling = {} /\ (Held \/ insert_index = -1))
  <2> DEFINE c == Cardinality(Filling)
  <2>1. insert_index = Plus(send_index, send_num + c)
    BY <1>7, <1>c DEF RingOrder
  <2>2. send_index = Plus(call_index, call_num + Received + recv_num + Sending)
    BY <1>6 DEF RingView
  <2>3. insert_index = Plus(call_index, InFlight + c)
    BY <2>1, <2>2, <1>6, <1>c, <1>t, PlusPlus, Counts DEF RingView, InFlight
  <2>4. cidx = Plus(call_index, NSlots - 1) /\ InFlight \in Nat /\ InFlight + c + free_num <= NSlots - 1
    BY <1>3, <1>6, <1>c, <1>t DEF RingView
  <2>5. insert_index >= 0 /\ free_num <= Gap(insert_index, cidx)
    BY <2>3, <2>4, <1>c, <1>t DEF Plus, Gap, Slot
  <2>6. ASSUME NEW a \in Filling PROVE insert_index = Advance(aidx[a]) /\ aidx[a] # cidx
    <3>1. aidx[a] = Plus(call_index, InFlight) /\ c = 1
      BY <1>6, <1>c, <2>6 DEF RingView
    <3>2. Advance(Plus(call_index, InFlight)) = Plus(call_index, InFlight + 1)
      BY <2>4, <3>1, <1>t, PlusAdvance
    <3> QED BY <1>3, <1>4, <2>3, <2>6, <3>1, <3>2 DEF MeetOnlyAtMark
  <2> QED BY <1>5, <2>5, <2>6
<1> QED BY <1>5, <1>7

LEMMA NextOverRoom ==
  ControlTypeOK /\ OneCaller /\ RingOrder /\ OverRoom /\ [Next]_vars => OverRoom'
<1> SUFFICES ASSUME ControlTypeOK, OneCaller, RingOrder, OverRoom, [Next]_vars, is_over', cpc' = "call"
             PROVE  OverRoom'
  BY DEF OverRoom
<1>t. /\ apc \in [Callers -> {"idle", "lock", "insert", "fill"}]
      /\ aidx \in [Callers -> Slot] /\ asyn_mutex \in Callers \cup {NULL}
      /\ free_num \in Nat /\ insert_index \in -1 .. NSlots - 1
      /\ cidx \in Slot /\ NSlots \in Nat \ {0}
  BY NSlotsAssumption DEF ControlTypeOK
<1>1. CASE SetOver /\ ~is_over
  BY <1>1, OverRoomBegins
<1>2. CASE is_over /\ cpc = "call" /\ UNCHANGED <<cpc, cidx>>
  <2> DEFINE Apart == /\ insert_index >= 0 /\ free_num <= Gap(insert_index, cidx)
                      /\ \A a \in Filling : insert_index = Advance(aidx[a]) /\ aidx[a] # cidx
             Stuck == Filling = {} /\ (Held \/ insert_index = -1)
  <2>0. (rpc \in {"recv", "analyse", "done"} => ridx # cidx) /\ (Stuck \/ Apart)
    BY <1>2 DEF OverRoom
  <2>g. insert_index >= 0 => insert_index \in Slot
    BY <1>t DEF Slot
  <2>1. rpc' \in {"recv", "analyse", "done"} => ridx' # cidx
    <3>1. CASE UNCHANGED <<rpc, ridx>>
      BY <2>0, <3>1
    <3>2. CASE Receiver \/ RecvCut \/ AnalyseBad \/ AnalyseFails
      BY <1>2, <2>0, <3>2 DEF Receiver, RecvIndex, RecvBytes, RecvReconnect, Analyse, RecvDone,
         AnalyseFails, AnalyseBad, RecvCut
    <3>3. CASE Sender \/ CallbackThread \/ ServerReply \/ LoseLink \/ StopRun \/ Destroyer
      BY <3>1, <3>3 DEF Sender, SendIndex, SendRequest, SendPost, SendMark, CallbackThread,
         CallIndex, CallBack, ReleaseSlot, ReleasePool, ReleaseUnset, ReleaseFree, ServerReply,
         LoseLink, StopRun, Destroyer, WaitSlot, FreeSlot, UnsetSlot, SetOver, receiver
    <3>4. ASSUME NEW a \in Callers, Caller(a) \/ FillFails(a) \/ \E r \in Requests : Query(a, r)
          PROVE  UNCHANGED <<rpc, ridx>>
      BY <3>4 DEF Caller, LockAsyn, InsertIndex, FillSlot, FillFails, Query, receiver
    <3>5. CASE UNCHANGED vars
      BY <3>1, <3>5 DEF vars, receiver
    <3> QED BY <3>1, <3>2, <3>3, <3>4, <3>5 DEF Next
  <2>2. ASSUME NEW a \in Callers, NEW r \in Requests, Query(a, r) PROVE Stuck' \/ Apart'
    <3>1. UNCHANGED <<Filling, insert_index, free_num, aidx>>
      BY <2>2, <1>t DEF Query, Filling, idx, sems
    <3>2. Held' <=> Held
      BY <2>2, <1>t DEF Query, Held
    <3> QED BY <1>2, <2>0, <3>1, <3>2 DEF Gap, Advance
  <2>3. ASSUME NEW a \in Callers, LockAsyn(a) PROVE Stuck' \/ Apart'
    <3>1. UNCHANGED <<Filling, insert_index, free_num, aidx>>
      BY <2>3, <1>t DEF LockAsyn, Filling, idx, sems
    <3>2. ~Held
      BY <2>3 DEF LockAsyn, Held
    <3> QED BY <1>2, <2>0, <3>1, <3>2 DEF Gap, Advance
  <2>4. ASSUME NEW a \in Callers, InsertIndex(a) PROVE Stuck' \/ Apart'
    <3>1. asyn_mutex = a /\ ~Held /\ Filling = {} /\ asyn_mutex' = a /\ free_num > 0
      BY <2>4, <1>t DEF InsertIndex, OneCaller, Held, Filling
    <3>2. CASE insert_index = -1
      <4>1. apc' = [apc EXCEPT ![a] = "idle"]
        BY <2>4, <3>2 DEF InsertIndex
      <4>2. Filling' = {} /\ Held'
        BY <4>1, <3>1, <1>t, CallersAssumption DEF Filling, Held
      <4> QED BY <4>2
    <3>3. CASE insert_index # -1
      <4>1. insert_index \in Slot /\ free_num <= Gap(insert_index, cidx) /\ ~(insert_index < 0)
        BY <2>0, <2>g, <3>1, <3>3, <1>t
      <4>2. /\ insert_index' = Advance(insert_index) /\ free_num' = free_num - 1
            /\ apc' = [apc EXCEPT ![a] = "fill"] /\ aidx' = [aidx EXCEPT ![a] = insert_index]
        BY <2>4, <4>1 DEF InsertIndex
      <4>3. Filling' = {a} /\ aidx'[a] = insert_index
        BY <4>2, <3>1, <1>t DEF Filling
      <4>4. Gap(insert_index, cidx) \in 0 .. NSlots - 1
        BY <4>1, <1>t, GapFacts
      <4>5. Gap(insert_index, cidx) > 0
        BY <4>1, <4>4, <3>1, <1>t
      <4>6. Gap(Advance(insert_index), cidx) = Gap(insert_index, cidx) - 1 /\ insert_index # cidx
        BY <4>1, <4>4, <4>5, <1>t, GapFacts
      <4>7. Advance(insert_index) >= 0
        BY <1>t, AdvanceInSlot, NSlotsAssumption DEF Slot
      <4>8. free_num - 1 <= Gap(insert_index, cidx) - 1
        BY <4>1, <4>4, <1>t
      <4> QED BY <1>2, <4>2, <4>3, <4>6, <4>7, <4>8 DEF Gap, Advance
    <3> QED BY <3>2, <3>3
  <2>5. ASSUME NEW a \in Callers, FillSlot(a) PROVE Stuck' \/ Apart'
    <3>1. Filling = {a} /\ Filling' = {}
      BY <2>5, <1>t DEF FillSlot, Filling, OneCaller
    <3>2. Apart /\ UNCHANGED <<insert_index, free_num>>
      BY <2>0, <2>5, <3>1 DEF FillSlot, idx
    <3> QED BY <1>2, <3>1, <3>2 DEF Gap
  <2>6. ASSUME NEW a \in Callers, FillFails(a) PROVE Stuck' \/ Apart'
    <3>1. Filling = {a} /\ Filling' = {}
      BY <2>6, <1>t DEF FillFails, Filling, OneCaller
    <3>2. /\ insert_index = Advance(aidx[a]) /\ aidx[a] # cidx /\ aidx[a] \in Slot
          /\ free_num <= Gap(insert_index, cidx)
      BY <2>0, <3>1, <1>t
    <3>3. insert_index' = insert_index - 1 /\ free_num' = free_num + 1
      BY <2>6 DEF FillFails
    <3>4. CASE insert_index = 0
      BY <3>1, <3>3, <3>4
    <3>5. CASE insert_index # 0
      <4>1. insert_index - 1 = aidx[a]
        BY <3>2, <3>5, NSlotsAssumption DEF Advance, Slot
      <4>2. Gap(aidx[a], cidx) = Gap(insert_index, cidx) + 1 /\ Gap(insert_index, cidx) \in Int
        <5>1. insert_index \in Slot
          BY <3>2, <1>t, AdvanceInSlot DEF Slot
        <5>2. Gap(insert_index, cidx) \in 0 .. NSlots - 1
          BY <5>1, <1>t, GapFacts
        <5>3. Gap(aidx[a], cidx) = Gap(Advance(aidx[a]), cidx) + 1
          BY <3>2, <1>t, GapFacts
        <5> QED BY <3>2, <5>2, <5>3
      <4>3. insert_index' >= 0 /\ free_num' <= Gap(aidx[a], cidx)
        BY <3>2, <3>3, <4>1, <4>2, <1>t DEF Slot
      <4> QED BY <1>2, <3>1, <3>3, <4>1, <4>3 DEF Gap
    <3> QED BY <3>4, <3>5
  <2>7. ASSUME UNCHANGED <<insert_index, free_num, callers>>
        PROVE  Stuck' \/ Apart'
    <3>1. UNCHANGED <<Filling, aidx>> /\ (Held' <=> Held)
      BY <2>7 DEF callers, Filling, Held
    <3> QED BY <1>2, <2>0, <2>7, <3>1 DEF Gap, Advance
  <2>8. ASSUME Sender \/ Receiver \/ RecvCut \/ AnalyseBad \/ AnalyseFails
        PROVE  Stuck' \/ Apart'
    BY <2>7, <2>8 DEF Sender, SendIndex, SendRequest, SendPost, SendMark, Receiver, RecvIndex,
       RecvBytes, RecvReconnect, Analyse, RecvDone, AnalyseFails, AnalyseBad, RecvCut, idx, sems
  <2>9. ASSUME CallbackThread
        PROVE  Stuck' \/ Apart'
    BY <1>2, <2>9 DEF CallbackThread, CallIndex, CallBack, ReleaseSlot, ReleasePool, ReleaseUnset,
       ReleaseFree
  <2>10. ASSUME ServerReply \/ LoseLink \/ StopRun \/ Destroyer
        PROVE  Stuck' \/ Apart'
    BY <2>7, <2>10 DEF ServerReply, LoseLink, StopRun, Destroyer, WaitSlot, FreeSlot, UnsetSlot,
       SetOver, idx, sems
  <2>11. ASSUME UNCHANGED vars
        PROVE  Stuck' \/ Apart'
    BY <2>7, <2>11 DEF vars, idx, sems
  <2> HIDE DEF Stuck, Apart
  <2>12. Stuck' \/ Apart'
    BY <2>2, <2>3, <2>4, <2>5, <2>6, <2>8, <2>9, <2>10, <2>11 DEF Next, Caller
  <2> QED BY <1>2, <2>1, <2>12 DEF OverRoom, Stuck, Apart
<1>3. is_over \/ SetOver
  BY DEF Next, Query, Caller, LockAsyn, InsertIndex, FillSlot, FillFails, Sender,
     SendIndex, SendRequest, SendPost, SendMark, Receiver, RecvIndex, RecvBytes, RecvReconnect,
     Analyse, RecvDone, AnalyseFails, AnalyseBad, RecvCut, CallbackThread, CallIndex, CallBack, ReleaseSlot,
     ReleasePool, ReleaseUnset, ReleaseFree, ServerReply, LoseLink, StopRun, Destroyer,
     WaitSlot, FreeSlot, UnsetSlot, SetOver, vars
<1>4. is_over => cpc = "call" /\ UNCHANGED <<cpc, cidx>>
  BY DEF Next, Query, Caller, LockAsyn, InsertIndex, FillSlot, FillFails, Sender,
     SendIndex, SendRequest, SendPost, SendMark, Receiver, RecvIndex, RecvBytes, RecvReconnect,
     Analyse, RecvDone, AnalyseFails, AnalyseBad, RecvCut, CallbackThread, CallIndex, CallBack, ReleaseSlot,
     ReleasePool, ReleaseUnset, ReleaseFree, ServerReply, LoseLink, StopRun, Destroyer,
     WaitSlot, FreeSlot, UnsetSlot, SetOver, vars, caller
<1> QED BY <1>1, <1>2, <1>3, <1>4

-----------------------------------------------------------------------------
(* Requests are only added to the accepted ones, at the end.               *)
LEMMA AcceptedGrows ==
  ASSUME DataTypeOK, Next
  PROVE  /\ \A k \in 1 .. Len(accepted) : accepted'[k] = accepted[k]
         /\ Len(accepted') \in Nat /\ Len(accepted) \in Nat /\ Len(accepted) <= Len(accepted')
         /\ (\E a \in Callers : FillSlot(a)) => Len(accepted') = Len(accepted) + 1
         /\ ~(\E a \in Callers : FillSlot(a)) => UNCHANGED accepted
<1>0. accepted \in Seq(Requests)
  BY DEF DataTypeOK
<1>1. ASSUME NEW a \in Callers, FillSlot(a)
      PROVE  /\ \A k \in 1 .. Len(accepted) : accepted'[k] = accepted[k]
             /\ Len(accepted') = Len(accepted) + 1 /\ Len(accepted) \in Nat
  <2>1. accepted' = Append(accepted, areq[a])
    BY <1>1 DEF FillSlot
  <2> QED BY <1>0, <2>1
<1>2. ASSUME ~(\E a \in Callers : FillSlot(a)) PROVE UNCHANGED accepted
  BY <1>2 DEF Next, Query, Caller, LockAsyn, InsertIndex, FillFails, Sender,
     SendIndex, SendRequest, SendPost, SendMark, Receiver, RecvIndex, RecvBytes, RecvReconnect,
     Analyse, RecvDone, AnalyseFails, AnalyseBad, RecvCut, CallbackThread, CallIndex, CallBack, ReleaseSlot,
     ReleasePool, ReleaseUnset, ReleaseFree, ServerReply, LoseLink, StopRun, Destroyer,
     WaitSlot, FreeSlot, UnsetSlot, SetOver, hist
<1> QED BY <1>0, <1>1, <1>2

(* The steps that change what a slot carries.                              *)
LEMMA SlotStep ==
  ASSUME Next
  PROVE  \/ UNCHANGED <<req, http>>
         \/ \E a \in Callers :
              /\ FillSlot(a) /\ UNCHANGED http
              /\ req' = [req EXCEPT ![aidx[a]] = areq[a]]
         \/ \E a \in Callers :
              /\ FillFails(a)
              /\ req' = [req EXCEPT ![aidx[a]] = NULL] /\ http' = [http EXCEPT ![aidx[a]] = NULL]
         \/ ReleaseSlot /\ req' = [req EXCEPT ![cidx] = NULL] /\ http' = [http EXCEPT ![cidx] = NULL]
         \/ /\ Analyse \/ AnalyseBad
            /\ UNCHANGED req
            /\ http' = [http EXCEPT ![ridx] = Analysis(an_buf, http[ridx]).http]
<1>1. ASSUME NEW a \in Callers, NEW r \in Requests, Query(a, r) PROVE UNCHANGED <<req, http>>
  BY <1>1 DEF Query, slots
<1>2. ASSUME NEW a \in Callers, LockAsyn(a) \/ InsertIndex(a) PROVE UNCHANGED <<req, http>>
  BY <1>2 DEF LockAsyn, InsertIndex, slots
<1>3. ASSUME NEW a \in Callers, FillSlot(a)
      PROVE  UNCHANGED http /\ req' = [req EXCEPT ![aidx[a]] = areq[a]]
  BY <1>3 DEF FillSlot
<1>4. ASSUME NEW a \in Callers, FillFails(a)
      PROVE  /\ req' = [req EXCEPT ![aidx[a]] = NULL]
             /\ http' = [http EXCEPT ![aidx[a]] = NULL]
  BY <1>4 DEF FillFails
<1>5. ASSUME Sender PROVE UNCHANGED <<req, http>>
  BY <1>5 DEF Sender, SendIndex, SendRequest, SendPost, SendMark, slots
<1>6. ASSUME RecvIndex \/ RecvBytes \/ RecvReconnect \/ RecvDone \/ AnalyseFails \/ RecvCut
      PROVE  UNCHANGED <<req, http>>
  BY <1>6 DEF RecvIndex, RecvBytes, RecvReconnect, RecvDone, AnalyseFails, RecvCut, slots
<1>7. ASSUME Analyse \/ AnalyseBad
      PROVE  UNCHANGED req /\ http' = [http EXCEPT ![ridx] = Analysis(an_buf, http[ridx]).http]
  BY <1>7 DEF Analyse, AnalyseBad
<1>8. ASSUME CallIndex \/ CallBack \/ ReleasePool \/ ReleaseUnset \/ ReleaseFree
      PROVE  UNCHANGED <<req, http>>
  BY <1>8 DEF CallIndex, CallBack, ReleasePool, ReleaseUnset, ReleaseFree, slots
<1>9. ASSUME ReleaseSlot
      PROVE  req' = [req EXCEPT ![cidx] = NULL] /\ http' = [http EXCEPT ![cidx] = NULL]
  BY <1>9 DEF ReleaseSlot
<1>10. ASSUME ServerReply \/ LoseLink \/ StopRun \/ Destroyer PROVE UNCHANGED <<req, http>>
  BY <1>10 DEF ServerReply, LoseLink, StopRun, Destroyer, WaitSlot, FreeSlot, UnsetSlot, SetOver,
               slots
<1> QED
  BY <1>1, <1>2, <1>3, <1>4, <1>5, <1>6, <1>7, <1>8, <1>9, <1>10
  DEF Next, Caller, Receiver, CallbackThread

(* The steps of the callback thread.                                       *)
LEMMA CallbackStep ==
  ASSUME Next
  PROVE  \/ CallIndex /\ UNCHANGED answered
         \/ CallBack
         \/ cpc' # "call" /\ cpc # "call" /\ UNCHANGED answered
         \/ UNCHANGED <<cpc, cidx, answered>>
BY DEF Next, Query, Caller, LockAsyn, InsertIndex, FillSlot, FillFails, Sender,
   SendIndex, SendRequest, SendPost, SendMark, Receiver, RecvIndex, RecvBytes, RecvReconnect,
   Analyse, RecvDone, AnalyseFails, AnalyseBad, RecvCut, CallbackThread, CallIndex, CallBack, ReleaseSlot,
   ReleasePool, ReleaseUnset, ReleaseFree, ServerReply, LoseLink, StopRun, Destroyer,
   WaitSlot, FreeSlot, UnsetSlot, SetOver, hist, caller

(* A connection that is lost stays counted.                                *)
LEMMA FaultsStay ==
  ASSUME ControlTypeOK, Next, StreamWhole'
  PROVE  StreamWhole /\ linkFaults = 0 /\ ~LoseLink /\ ~RecvCut /\ ~AnalyseBad
<1> USE DEF StreamWhole
<1>1. linkFaults \in Nat /\ garbled \in Nat
  BY BoundsAssumption DEF ControlTypeOK
<1> QED
  BY <1>1 DEF Next, Query, Caller, LockAsyn, InsertIndex, FillSlot, FillFails, Sender,
   SendIndex, SendRequest, SendPost, SendMark, Receiver, RecvIndex, RecvBytes, RecvReconnect,
   Analyse, RecvDone, AnalyseFails, AnalyseBad, RecvCut, CallbackThread, CallIndex, CallBack, ReleaseSlot,
   ReleasePool, ReleaseUnset, ReleaseFree, ServerReply, LoseLink, StopRun, Destroyer,
   WaitSlot, FreeSlot, UnsetSlot, SetOver, net

(* Nobody else touches the slot of a callback that is about to be made.    *)
LEMMA CallUntouched ==
  ASSUME ControlTypeOK, OneCaller, RingOrder, DataTypeOK, OverRoom, Next, cpc = "call"
  PROVE  req'[cidx] = req[cidx] /\ http'[cidx] = http[cidx]
<1>t. /\ aidx \in [Callers -> Slot] /\ ridx \in Slot /\ cidx \in Slot
      /\ req \in [Slot -> Requests \cup {NULL}] /\ http \in [Slot -> Requests \cup {NULL}]
  BY DEF ControlTypeOK, DataTypeOK
<1>1. ASSUME NEW a \in Filling PROVE aidx[a] # cidx
  <2>1. CASE is_over
    BY <1>1, <2>1 DEF OverRoom
  <2>2. CASE ~is_over
    BY <1>1, <2>2, OrderedStagesApart DEF MeetOnlyAtMark, Calling
  <2> QED BY <2>1, <2>2
<1>2. ASSUME rpc = "analyse" PROVE ridx # cidx
  <2>1. CASE is_over
    BY <1>2, <2>1 DEF OverRoom
  <2>2. CASE ~is_over
    BY <1>2, <2>2, OrderedStagesApart DEF MeetOnlyAtMark, Calling, Receiving
  <2> QED BY <2>1, <2>2
<1>3. \A a \in Callers : FillSlot(a) \/ FillFails(a) => a \in Filling
  BY DEF FillSlot, FillFails, Filling
<1>4. ~ReleaseSlot /\ (Analyse \/ AnalyseBad => rpc = "analyse")
  BY DEF ReleaseSlot, Analyse, AnalyseBad
<1> QED BY <1>1, <1>2, <1>3, <1>4, <1>t, SlotStep

(* The next callback is given the next accepted request and its answer.    *)
LEMMA NextCallRight ==
  ASSUME ControlTypeOK, OneCaller, RingOrder, DataTypeOK, Flow, Next, StreamWhole'
  PROVE  CallRight' /\ InOrderUntilLoss'
<1>0. StreamWhole /\ linkFaults = 0 /\ InOrderUntilLoss /\ CallRight /\ OverRoom
  BY FaultsStay DEF Flow
<1>t. /\ answered \in Seq([req : Requests, http : Requests \cup {NULL}])
      /\ accepted \in Seq(Requests) /\ cidx \in Slot /\ call_index \in Slot /\ call_num \in Nat
  BY DEF DataTypeOK, ControlTypeOK
<1>g. /\ \A k \in 1 .. Len(accepted) : accepted'[k] = accepted[k]
      /\ Len(accepted') \in Nat /\ Len(accepted) \in Nat /\ Len(accepted) <= Len(accepted')
  BY AcceptedGrows
<1>1. CASE CallIndex /\ UNCHANGED answered
  <2>1. CASE is_over
    BY <1>0, <1>1, <2>1 DEF CallIndex, CallRight, InOrderUntilLoss
  <2>2. CASE ~is_over
    <3>1. SlotsInOrder /\ RingView
      BY <1>0, <2>2, RingViewed DEF Flow
    <3>2. UNCHANGED <<accepted, req, http>> /\ cidx' = call_index /\ cpc' = "call" /\ cpc = "wait"
          /\ call_num > 0
      BY <1>1, <2>2 DEF CallIndex, slots
    <3>3. Begun = Len(answered) /\ Begun' = Len(answered) + 1 /\ Len(answered) \in Nat
      BY <1>1, <1>t, <3>2 DEF Begun, InCall
    <3>4. InFlight \in Nat /\ call_num <= InFlight
      BY <3>1, <1>t, Counts DEF RingView, ControlTypeOK
    <3>5. Plus(call_index, 0) = call_index
      BY <1>t, PlusZero
    <3>6. Begun + 1 <= Len(accepted)
      BY <3>1, <3>2, <3>3, <3>4, <1>t DEF SlotsInOrder
    <3>7. req[call_index] = accepted[Begun + 1] /\ http[call_index] = accepted[Begun + 1]
      <4>1. 0 \in 0 .. InFlight - 1 /\ 0 \in 0 .. call_num - 1 /\ Begun + 1 + 0 = Begun + 1
        BY <3>2, <3>3, <3>4, <1>t
      <4> QED BY <3>1, <3>5, <4>1 DEF SlotsInOrder
    <3>8. CallRight'
      BY <3>2, <3>3, <3>6, <3>7 DEF CallRight
    <3>9. InOrderUntilLoss'
      BY <1>0, <1>1, <3>2 DEF InOrderUntilLoss
    <3> QED BY <3>8, <3>9
  <2> QED BY <2>1, <2>2
<1>2. CASE CallBack
  <2>1. /\ cpc = "call" /\ cpc' = "release" /\ UNCHANGED accepted
        /\ answered' = IF req[cidx] = NULL THEN answered
                       ELSE Append(answered, [req |-> req[cidx], http |-> http[cidx]])
    BY <1>2 DEF CallBack
  <2>2. Begun = Len(answered) + 1 /\ Len(answered) \in Nat
    BY <2>1, <1>t DEF Begun, InCall
  <2>3. /\ Begun <= Len(accepted) /\ req[cidx] = accepted[Begun] /\ http[cidx] = accepted[Begun]
    BY <1>0, <2>1 DEF CallRight
  <2>4. accepted[Begun] \in Requests
    BY <2>2, <2>3, <1>t
  <2>5. answered' = Append(answered, [req |-> accepted[Begun], http |-> accepted[Begun]])
    BY <2>1, <2>3, <2>4, RequestsAssumption
  <2>6. /\ Len(answered') = Begun /\ DOMAIN answered' = 1 .. Begun
        /\ answered'[Begun] = [req |-> accepted[Begun], http |-> accepted[Begun]]
        /\ \A k \in 1 .. Len(answered) : answered'[k] = answered[k]
    BY <2>2, <2>5, <1>t
  <2>7. \A k \in 1 .. Len(answered) : answered[k] = [req |-> accepted[k], http |-> accepted[k]]
    BY <1>0, <1>t DEF InOrderUntilLoss
  <2>8. \A k \in 1 .. Begun : answered'[k] = [req |-> accepted[k], http |-> accepted[k]]
    <3>1. ASSUME NEW k \in 1 .. Begun PROVE k = Begun \/ k \in 1 .. Len(answered)
      BY <2>2
    <3> QED BY <2>6, <2>7, <3>1
  <2> QED BY <2>1, <2>3, <2>6, <2>8 DEF CallRight, InOrderUntilLoss
<1>3. CASE UNCHANGED answered /\ (cpc' # "call" \/ UNCHANGED <<cpc, cidx>>)
  <2>1. InOrderUntilLoss'
    <3>1. Len(answered) <= Len(accepted) /\ Len(answered) \in Nat /\ DOMAIN answered = 1 .. Len(answered)
      BY <1>0, <1>t DEF InOrderUntilLoss
    <3>2. \A k \in DOMAIN answered : accepted'[k] = accepted[k]
      BY <3>1, <1>g
    <3>3. Len(answered) <= Len(accepted')
      BY <3>1, <1>g
    <3>4. \A k \in DOMAIN answered : answered[k] = [req |-> accepted'[k], http |-> accepted'[k]]
      BY <1>0, <3>2 DEF InOrderUntilLoss
    <3> QED BY <1>3, <3>3, <3>4 DEF InOrderUntilLoss
  <2>2. ASSUME cpc' = "call" PROVE CallRight'
    <3>1. cpc = "call" /\ cidx' = cidx /\ Begun' = Begun
      BY <1>3, <2>2 DEF Begun, InCall
    <3>2. Begun \in 1 .. Len(accepted) /\ req[cidx] = accepted[Begun] /\ http[cidx] = accepted[Begun]
      <4>1. Begun = Len(answered) + 1 /\ Len(answered) \in Nat
        BY <3>1, <1>t DEF Begun, InCall
      <4> QED BY <1>0, <1>g, <3>1, <4>1 DEF CallRight
    <3>3. req'[cidx] = req[cidx] /\ http'[cidx] = http[cidx]
      BY <1>0, <3>1, CallUntouched
    <3>4. accepted'[Begun] = accepted[Begun] /\ Begun <= Len(accepted')
      BY <1>g, <3>2
    <3> QED BY <3>1, <3>2, <3>3, <3>4 DEF CallRight
  <2>3. ASSUME cpc' # "call" PROVE CallRight'
    BY <2>3 DEF CallRight
  <2> QED BY <2>1, <2>2, <2>3
<1> QED BY <1>1, <1>2, <1>3, CallbackStep

-----------------------------------------------------------------------------
(* The counts behind the order: callbacks begun, answers completed and     *)
(* requests written to the socket.                                         *)
Complete == Begun + call_num

LEMMA Tally ==
  ASSUME ControlTypeOK, DataTypeOK, Next, ~is_over', CallRight
  PROVE  /\ CallIndex => Begun' = Begun + 1
         /\ ~CallIndex => Begun' = Begun
         /\ RecvDone => Complete' = Complete + 1 /\ Received = 1 /\ Received' = 0
         /\ RecvIndex => Received = 0 /\ Received' = 1
         /\ ~RecvDone => Complete' = Complete
         /\ ~RecvDone /\ ~RecvIndex => Received' = Received
         /\ SendRequest => Sent' = Sent + 1
         /\ ~SendRequest => Sent' = Sent
<1>t. /\ answered \in Seq([req : Requests, http : Requests \cup {NULL}])
      /\ accepted \in Seq(Requests)
      /\ send_num \in Nat /\ recv_num \in Nat /\ call_num \in Nat
      /\ Len(answered) \in Nat /\ Received \in {0, 1} /\ InCall \in {0, 1}
  BY DEF DataTypeOK, ControlTypeOK, Received, InCall
<1>0. ~is_over
  BY OverStays
<1>w. /\ CallIndex => cpc = "wait" /\ cpc' = "call"
      /\ CallBack => cpc = "call" /\ cpc' = "release"
  BY <1>0 DEF CallIndex, CallBack
<1>1. /\ CallIndex => Begun' = Begun + 1
      /\ ~CallIndex => Begun' = Begun
  <2>1. CASE CallIndex
    BY <1>t, <1>w, <2>1, CallbackStep DEF Begun, InCall, CallIndex
  <2>2. CASE CallBack
    <3>1. req[cidx] # NULL
      <4>1. Begun = Len(answered) + 1
        BY <1>w, <1>t, <2>2 DEF Begun, InCall
      <4>2. Begun <= Len(accepted) /\ req[cidx] = accepted[Begun]
        BY <1>w, <2>2 DEF CallRight
      <4>3. accepted[Begun] \in Requests
        BY <1>t, <4>1, <4>2
      <4> QED BY <4>2, <4>3, RequestsAssumption
    <3>2. answered' = Append(answered, [req |-> req[cidx], http |-> http[cidx]])
      BY <2>2, <3>1 DEF CallBack
    <3>3. Len(answered') = Len(answered) + 1
      BY <1>t, <3>2
    <3> QED BY <1>w, <1>t, <2>2, <3>3 DEF Begun, InCall
  <2>3. CASE ~CallIndex /\ ~CallBack
    BY <1>t, <2>3, CallbackStep DEF Begun, InCall
  <2> QED BY <2>1, <2>2, <2>3
<1>n. Begun \in Nat
  BY <1>t DEF Begun
<1> HIDE DEF Begun
<1>2. /\ CallIndex => call_num' = call_num - 1 /\ ~RecvDone /\ ~RecvIndex
      /\ RecvDone => call_num' = call_num + 1 /\ ~CallIndex /\ Received = 1 /\ Received' = 0
      /\ ~CallIndex /\ ~RecvDone => call_num' = call_num
  <2>1. call_num # call_num - 1 /\ call_num # call_num + 1 /\ call_num - 1 # call_num + 1
    BY <1>t
  <2>2. CASE CallIndex \/ RecvDone \/ RecvIndex
    BY <1>0, <2>1, <2>2 DEF CallIndex, RecvDone, RecvIndex, Received, receiver, sems
  <2>3. CASE ~(CallIndex \/ RecvDone \/ RecvIndex)
    BY <2>3 DEF Next, Query, Caller, LockAsyn, InsertIndex, FillSlot, FillFails, Sender,
     SendIndex, SendRequest, SendPost, SendMark, Receiver, RecvBytes, RecvReconnect,
     Analyse, AnalyseFails, AnalyseBad, RecvCut, CallbackThread, CallBack, ReleaseSlot,
     ReleasePool, ReleaseUnset, ReleaseFree, ServerReply, LoseLink, StopRun, Destroyer,
     WaitSlot, FreeSlot, UnsetSlot, SetOver, sems
  <2> QED BY <2>2, <2>3
<1>3. /\ RecvIndex => Received = 0 /\ Received' = 1 /\ recv_num' = recv_num - 1 /\ UNCHANGED spc
      /\ ~RecvDone /\ ~RecvIndex => Received' = Received
  <2>1. CASE RecvIndex
    BY <1>0, <2>1 DEF RecvIndex, Received, sender
  <2>2. ASSUME ~RecvDone, ~RecvIndex PROVE Received' = Received
    <3>1. CASE UNCHANGED rpc
      BY <3>1 DEF Received
    <3>2. CASE Receiver \/ RecvCut \/ AnalyseBad \/ AnalyseFails
      BY <2>2, <3>2 DEF Receiver, RecvBytes, RecvReconnect, Analyse, AnalyseFails, AnalyseBad, RecvCut, Received
    <3>3. CASE ~(Receiver \/ RecvCut \/ AnalyseBad \/ AnalyseFails)
      BY <3>1, <3>3 DEF Next, Query, Caller, LockAsyn, InsertIndex, FillSlot, FillFails, Sender,
       SendIndex, SendRequest, SendPost, SendMark, CallbackThread, CallIndex, CallBack, ReleaseSlot,
       ReleasePool, ReleaseUnset, ReleaseFree, ServerReply, LoseLink, StopRun, Destroyer,
       WaitSlot, FreeSlot, UnsetSlot, SetOver, receiver
    <3> QED BY <3>2, <3>3
  <2> QED BY <2>1, <2>2
<1>4. /\ RecvDone => Complete' = Complete + 1
      /\ ~RecvDone => Complete' = Complete
  BY <1>1, <1>2, <1>n, <1>t DEF Complete
<1>5. /\ SendRequest => Sent' = Sent + 1
      /\ ~SendRequest => Sent' = Sent
  <2>d. /\ Sent = Complete + Received + recv_num + (IF spc = "post" THEN 1 ELSE 0)
        /\ Sent' = Complete' + Received' + recv_num' + (IF spc' = "post" THEN 1 ELSE 0)
        /\ Complete \in Nat
    BY <1>n, <1>t DEF Sent, Complete
  <2>1. CASE RecvIndex
    <3>1. ~RecvDone /\ ~SendRequest
      BY <1>t, <2>1 DEF RecvIndex, RecvDone, SendRequest, sender
    <3>2. spc' = spc
      BY <2>1 DEF RecvIndex, sender
    <3> QED BY <1>3, <1>4, <1>t, <2>d, <2>1, <3>1, <3>2 DEF RecvIndex
  <2>2. CASE RecvDone
    BY <1>2, <1>4, <1>t, <2>d, <2>2 DEF RecvDone, SendRequest, sender
  <2>3. CASE SendRequest \/ SendPost
    <3>1. ~RecvDone /\ ~RecvIndex
      BY <1>t, <2>3 DEF SendRequest, SendPost, RecvDone, RecvIndex, sender
    <3>2. Received' = Received /\ Complete' = Complete
      BY <1>3, <1>4, <3>1
    <3>3. CASE SendRequest
      <4>1. spc = "send" /\ spc' = "post" /\ recv_num' = recv_num
        BY <3>3 DEF SendRequest, sems
      <4> QED BY <1>t, <2>d, <3>2, <3>3, <4>1
    <3>4. CASE SendPost
      <4>1. spc = "post" /\ spc' = "mark" /\ recv_num' = recv_num + 1 /\ ~SendRequest
        BY <3>4 DEF SendPost, SendRequest
      <4> QED BY <1>t, <2>d, <3>2, <4>1
    <3> QED BY <2>3, <3>3, <3>4
  <2>4. CASE ~(RecvIndex \/ RecvDone \/ SendRequest \/ SendPost)
    <3>1. UNCHANGED recv_num /\ (spc' = "post" <=> spc = "post")
      BY <1>0, <2>4 DEF Next, Query, Caller, LockAsyn, InsertIndex, FillSlot, FillFails, Sender,
       SendIndex, SendMark, Receiver, RecvBytes, RecvReconnect,
       Analyse, AnalyseFails, AnalyseBad, RecvCut, CallbackThread, CallIndex, CallBack, ReleaseSlot,
       ReleasePool, ReleaseUnset, ReleaseFree, ServerReply, LoseLink, StopRun, Destroyer,
       WaitSlot, FreeSlot, UnsetSlot, SetOver, sems, sender
    <3> QED BY <1>3, <1>4, <1>t, <2>d, <2>4, <3>1
  <2> QED BY <2>1, <2>2, <2>3, <2>4
<1> QED BY <1>1, <1>2, <1>3, <1>4, <1>5

-----------------------------------------------------------------------------
(* The slots under way keep the order of the accepted requests.            *)
LEMMA NextReqInOrder ==
  ASSUME ControlTypeOK, OneCaller, RingOrder, DataTypeOK, Next, ~is_over', CallRight, SlotsInOrder
  PROVE  /\ (Begun + InFlight = Len(accepted))'
         /\ (\A j \in 0 .. InFlight - 1 : req[Plus(call_index, j)] = accepted[Begun + 1 + j])'
<1>0. ~is_over
  BY OverStays
<1>1. RingView
  BY <1>0, RingViewed
<1>t. /\ aidx \in [Callers -> Slot] /\ cidx \in Slot /\ call_index \in Slot /\ free_num \in Nat
      /\ NSlots \in Nat \ {0} /\ call_num \in Nat
      /\ req \in [Slot -> Requests \cup {NULL}] /\ accepted \in Seq(Requests)
      /\ answered \in Seq([req : Requests, http : Requests \cup {NULL}])
  BY NSlotsAssumption DEF ControlTypeOK, DataTypeOK
<1>n. send_num \in Nat /\ call_num \in Nat /\ send_num # send_num + 1 /\ call_num # call_num - 1
  BY DEF ControlTypeOK
<1>c. Cardinality(Filling) \in {0, 1} /\ (Cardinality(Filling) = 0 <=> Filling = {})
  BY FillingCard
<1>b. InFlight \in Nat /\ InFlight <= NSlots /\ Begun \in Nat /\ Begun + InFlight = Len(accepted)
  <2>1. InFlight \in Nat /\ InFlight <= NSlots
    BY <1>1, <1>t, <1>c, Counts DEF RingView
  <2>2. Begun \in Nat
    BY <1>t DEF Begun, InCall
  <2> QED BY <2>1, <2>2 DEF SlotsInOrder
<1>p. \A j \in 0 .. NSlots - 1 : Plus(call_index, j) \in Slot
  BY <1>t, PlusType
<1>r. \A j \in 0 .. InFlight - 1 : req[Plus(call_index, j)] = accepted[Begun + 1 + j]
  BY DEF SlotsInOrder
<1>g. /\ \A k \in 1 .. Len(accepted) : accepted'[k] = accepted[k]
      /\ Len(accepted') \in Nat /\ Len(accepted) \in Nat
  BY AcceptedGrows
<1> HIDE DEF Begun, InFlight
<1>3. ASSUME NEW a \in Callers, FillSlot(a)
      PROVE  /\ (Begun + InFlight = Len(accepted))'
             /\ (\A j \in 0 .. InFlight - 1 : req[Plus(call_index, j)] = accepted[Begun + 1 + j])'
  <2>1. a \in Filling
    BY <1>3 DEF FillSlot, Filling
  <2>2. aidx[a] = Plus(call_index, InFlight) /\ InFlight <= NSlots - 1
    BY <2>1, <1>1, <1>c, <1>t, <1>b, Counts DEF RingView
  <2>3. req' = [req EXCEPT ![Plus(call_index, InFlight)] = areq[a]] /\ accepted' = Append(accepted, areq[a])
    BY <1>3, <2>2 DEF FillSlot
  <2>4. call_index' = call_index /\ InFlight' = InFlight + 1 /\ Len(accepted') = Len(accepted) + 1
    BY <1>3, FlightStep, AcceptedGrows
  <2>5. Begun' = Begun
    <3>1. ~CallIndex
      BY <1>3, <1>n DEF FillSlot, CallIndex
    <3> QED BY <3>1, Tally
  <2>6. ASSUME NEW j \in 0 .. InFlight PROVE req'[Plus(call_index, j)] = accepted'[Begun + 1 + j]
    <3>1. Plus(call_index, j) \in Slot
      BY <1>p, <1>b, <1>t, <2>2
    <3>2. CASE j = InFlight
      <4>1. accepted'[Len(accepted) + 1] = areq[a] /\ Begun + 1 + j = Len(accepted) + 1
        BY <2>3, <3>2, <1>b, <1>t
      <4>2. req'[Plus(call_index, j)] = areq[a]
        BY <2>3, <3>1, <3>2, <1>t
      <4> QED BY <4>1, <4>2
    <3>3. CASE j \in 0 .. InFlight - 1
      <4>1. Plus(call_index, j) # Plus(call_index, InFlight)
        BY <3>3, <1>b, <2>2, <1>t, PlusInjective
      <4>2. req'[Plus(call_index, j)] = req[Plus(call_index, j)]
        BY <3>1, <4>1, <2>3, <1>t
      <4>3. Begun + 1 + j \in 1 .. Len(accepted)
        BY <3>3, <1>b, <1>g
      <4> QED BY <1>r, <1>g, <3>3, <4>2, <4>3
    <3> QED BY <3>2, <3>3, <1>b
  <2>7. ASSUME NEW j \in 0 .. InFlight' - 1
        PROVE  req'[Plus(call_index', j)] = accepted'[Begun' + 1 + j]
    BY <2>4, <2>5, <2>6, <1>b
  <2>8. Begun' + InFlight' = Len(accepted')
    BY <2>4, <2>5, <1>b
  <2> QED BY <2>7, <2>8 DEF Plus
<1>4. ASSUME CallIndex
      PROVE  /\ (Begun + InFlight = Len(accepted))'
             /\ (\A j \in 0 .. InFlight - 1 : req[Plus(call_index, j)] = accepted[Begun + 1 + j])'
  <2>1. call_index' = Advance(call_index) /\ InFlight' = InFlight - 1 /\ Begun' = Begun + 1
    BY <1>4, FlightStep, Tally
  <2>2. UNCHANGED <<req, accepted>>
    BY <1>4 DEF CallIndex, slots
  <2>3. ASSUME NEW j \in 0 .. InFlight - 2 PROVE req[Plus(call_index', j)] = accepted[Begun + 1 + 1 + j]
    <3>1. Plus(Advance(call_index), j) = Plus(call_index, j + 1)
      BY <1>t, <1>b, PlusAdvance
    <3>2. j + 1 \in 0 .. InFlight - 1 /\ Begun + 1 + 1 + j = Begun + 1 + (j + 1)
      BY <1>b
    <3> QED BY <1>r, <2>1, <3>1, <3>2
  <2>4. ASSUME NEW j \in 0 .. InFlight' - 1
        PROVE  req'[Plus(call_index', j)] = accepted'[Begun' + 1 + j]
    <3>1. j \in 0 .. InFlight - 2
      BY <2>1, <1>b
    <3>2. req[Plus(call_index', j)] = accepted[Begun + 1 + 1 + j]
      BY <2>3, <3>1
    <3> QED BY <2>1, <2>2, <3>2
  <2>5. Begun' + InFlight' = Len(accepted')
    BY <2>1, <2>2, <1>b
  <2> QED BY <2>4, <2>5 DEF Plus
<1>5. ASSUME ~CallIndex, ~(\E a \in Callers : FillSlot(a))
      PROVE  /\ (Begun + InFlight = Len(accepted))'
             /\ (\A j \in 0 .. InFlight - 1 : req[Plus(call_index, j)] = accepted[Begun + 1 + j])'
  <2>1. UNCHANGED <<call_index, InFlight, Begun, accepted>>
    BY <1>5, FlightStep, Tally, AcceptedGrows
  <2>2. ASSUME NEW j \in 0 .. InFlight - 1 PROVE req'[Plus(call_index, j)] = req[Plus(call_index, j)]
    <3>1. Plus(call_index, j) \in Slot /\ j \in 0 .. NSlots - 1
      BY <1>p, <1>b, <1>t
    <3>2. ASSUME NEW a \in Callers, FillFails(a) PROVE Plus(call_index, j) # aidx[a]
      <4>1. a \in Filling
        BY <3>2 DEF FillFails, Filling
      <4>2. aidx[a] = Plus(call_index, InFlight) /\ InFlight <= NSlots - 1
        BY <4>1, <1>1, <1>c, <1>t, <1>b, Counts DEF RingView
      <4> QED BY <4>2, <3>1, <1>b, <1>t, PlusInjective
    <3>3. ASSUME ReleaseSlot PROVE Plus(call_index, j) # cidx
      <4>1. Calling = 1
        BY <3>3 DEF ReleaseSlot, Calling
      <4>2. cidx = Plus(call_index, NSlots - 1) /\ InFlight <= NSlots - 1
        BY <4>1, <1>1, <1>c, <1>t, <1>b DEF RingView
      <4> QED BY <4>2, <3>1, <1>b, <1>t, PlusInjective
    <3> QED BY <1>5, <3>1, <3>2, <3>3, <1>t, SlotStep
  <2>3. ASSUME NEW j \in 0 .. InFlight - 1 PROVE req'[Plus(call_index, j)] = accepted[Begun + 1 + j]
    BY <2>2, <1>r
  <2> QED BY <2>1, <2>3, <1>b DEF Plus
<1> QED BY <1>3, <1>4, <1>5

(* The slots whose answers are complete have them, and a slot that is not  *)
(* being received or called back has none.                                 *)
Answers ==
  /\ \A j \in 0 .. call_num - 1 : http[Plus(call_index, j)] = accepted[Begun + 1 + j]
  /\ \A j \in call_num + Received .. NSlots - 1 :
        (j < NSlots - 1 \/ cpc \notin {"call", "release"}) => http[Plus(call_index, j)] = NULL

LEMMA NextAnswers ==
  ASSUME ControlTypeOK, OneCaller, RingOrder, DataTypeOK, Next, ~is_over', CallRight, SlotsInOrder,
         Reading
  PROVE  Answers'
<1>0. ~is_over
  BY OverStays
<1>1. RingView
  BY <1>0, RingViewed
<1>t. /\ aidx \in [Callers -> Slot] /\ cidx \in Slot /\ call_index \in Slot /\ free_num \in Nat
      /\ ridx \in Slot /\ recv_num \in Nat /\ NSlots \in Nat \ {0} /\ call_num \in Nat
      /\ http \in [Slot -> Requests \cup {NULL}] /\ accepted \in Seq(Requests)
      /\ answered \in Seq([req : Requests, http : Requests \cup {NULL}])
      /\ Received \in {0, 1}
  BY NSlotsAssumption, Counts DEF ControlTypeOK, DataTypeOK
<1>n. call_num # call_num - 1 /\ call_num # call_num + 1
  BY DEF ControlTypeOK
<1>c. Cardinality(Filling) \in {0, 1} /\ (Cardinality(Filling) = 0 <=> Filling = {})
  BY FillingCard
<1>b. /\ InFlight \in Nat /\ InFlight <= NSlots /\ Begun \in Nat /\ Begun + InFlight = Len(accepted)
      /\ call_num + Received <= InFlight
  <2>1. InFlight \in Nat /\ InFlight <= NSlots /\ call_num + Received <= InFlight
    BY <1>1, <1>t, <1>c, Counts DEF RingView
  <2>2. Begun \in Nat
    BY <1>t DEF Begun, InCall
  <2> QED BY <2>1, <2>2 DEF SlotsInOrder
<1>p. \A j \in 0 .. NSlots - 1 : Plus(call_index, j) \in Slot
  BY <1>t, PlusType
<1>g. /\ \A k \in 1 .. Len(accepted) : accepted'[k] = accepted[k]
      /\ Len(accepted') \in Nat /\ Len(accepted) \in Nat
  BY AcceptedGrows
<1>d. \A j \in 0 .. call_num - 1 : http[Plus(call_index, j)] = accepted[Begun + 1 + j]
  BY DEF SlotsInOrder
<1>z. \A j \in call_num + Received .. NSlots - 1 :
        (j < NSlots - 1 \/ cpc \notin {"call", "release"}) => http[Plus(call_index, j)] = NULL
  BY DEF SlotsInOrder
<1> HIDE DEF Begun, InFlight, Received
<1>2. CASE CallIndex
  <2>1. call_index' = Advance(call_index) /\ Begun' = Begun + 1 /\ UNCHANGED <<http, accepted>>
        /\ call_num' = call_num - 1 /\ call_num > 0 /\ cpc = "wait" /\ cpc' = "call"
    BY <1>0, <1>2, FlightStep, Tally DEF CallIndex, slots
  <2>2. Received' = Received
    <3>1. ~RecvDone /\ ~RecvIndex
      BY <1>0, <1>2, <1>t DEF CallIndex, RecvDone, RecvIndex, receiver
    <3> QED BY <3>1, Tally
  <2>3. \A j \in 0 .. NSlots - 2 : Plus(call_index', j) = Plus(call_index, j + 1)
    BY <1>t, <2>1, PlusAdvance
  <2>4. ASSUME NEW j \in 0 .. call_num - 2 PROVE http[Plus(call_index', j)] = accepted[Begun + 1 + 1 + j]
    <3>1. j + 1 \in 0 .. call_num - 1 /\ j \in 0 .. NSlots - 2 /\ Begun + 1 + 1 + j = Begun + 1 + (j + 1)
      BY <1>b, <1>t
    <3> QED BY <1>d, <2>3, <3>1
  <2>5. ASSUME NEW j \in call_num - 1 + Received .. NSlots - 1, j < NSlots - 1
        PROVE  http[Plus(call_index', j)] = NULL
    <3>1. j + 1 \in call_num + Received .. NSlots - 1 /\ j \in 0 .. NSlots - 2
      BY <1>b, <1>t, <2>1, <2>5
    <3> QED BY <1>z, <2>1, <2>3, <3>1
  <2>6. ASSUME NEW j \in 0 .. call_num' - 1 PROVE http'[Plus(call_index', j)] = accepted'[Begun' + 1 + j]
    BY <2>1, <2>4, <1>t
  <2>7. ASSUME NEW j \in call_num' + Received' .. NSlots - 1, j < NSlots - 1
        PROVE  http'[Plus(call_index', j)] = NULL
    BY <2>1, <2>2, <2>5, <2>7, <1>t
  <2> QED BY <2>1, <2>6, <2>7 DEF Answers, Plus
<1>3. CASE ~CallIndex
  <2>1. UNCHANGED <<call_index, Begun>>
    <3>1. Begun' = Begun
      BY <1>3, Tally
    <3>2. call_index' = call_index
      BY <1>3, FlightStep
    <3> QED BY <3>1, <3>2
  <2>3. ASSUME NEW j \in 0 .. call_num - 1 PROVE accepted'[Begun + 1 + j] = accepted[Begun + 1 + j]
    <3>1. Begun + 1 + j \in 1 .. Len(accepted)
      BY <1>b, <1>g, <1>t
    <3> QED BY <3>1, <1>g
  <2>4. CASE RecvDone
    <3>1. /\ rpc = "done" /\ call_num' = call_num + 1 /\ Received = 1 /\ Received' = 0
          /\ UNCHANGED <<http, accepted, cpc>>
      BY <2>4, Tally DEF RecvDone, caller, hist
    <3>2. http[ridx] = accepted[Begun + call_num + 1] /\ ridx = Plus(call_index, call_num)
      BY <1>1, <3>1 DEF Reading, RingView
    <3>3. ASSUME NEW j \in 0 .. call_num PROVE http[Plus(call_index, j)] = accepted[Begun + 1 + j]
      <4>1. CASE j = call_num
        <5>1. Begun + 1 + j = Begun + call_num + 1
          BY <4>1, <1>b, <1>t
        <5> QED BY <3>2, <4>1, <5>1
      <4>2. CASE j # call_num
        <5>1. j \in 0 .. call_num - 1
          BY <4>2, <1>t
        <5> QED BY <1>d, <5>1
      <4> QED BY <4>1, <4>2
    <3>4. ASSUME NEW j \in 0 .. call_num' - 1 PROVE http'[Plus(call_index, j)] = accepted'[Begun + 1 + j]
      BY <3>1, <3>3, <1>t
    <3>5. call_num' + Received' = call_num + Received
      BY <3>1, <1>t
    <3> QED BY <1>z, <2>1, <3>1, <3>4, <3>5 DEF Answers, Plus
  <2>5. CASE RecvIndex
    <3>1. /\ Received = 0 /\ Received' = 1 /\ UNCHANGED <<http, accepted, cpc, call_num>>
      BY <2>5, Tally DEF RecvIndex, slots, caller
    <3>2. \A j \in call_num' + Received' .. NSlots - 1 : j \in call_num + Received .. NSlots - 1
      BY <3>1, <1>t
    <3> QED BY <1>d, <1>z, <2>1, <3>1, <3>2 DEF Answers, Plus
  <2>6. CASE ~RecvDone /\ ~RecvIndex
    <3>1. Received' = Received /\ call_num' = call_num
      <4>1. Complete' = Complete /\ Received' = Received
        BY <2>6, Tally
      <4>2. call_num' \in Int
        BY <1>3, <1>t DEF Next, Query, Caller, LockAsyn, InsertIndex, FillSlot, FillFails, Sender,
         SendIndex, SendRequest, SendPost, SendMark, Receiver, RecvIndex, RecvBytes, RecvReconnect,
         Analyse, RecvDone, AnalyseFails, AnalyseBad, RecvCut, CallbackThread, CallBack, ReleaseSlot,
         ReleasePool, ReleaseUnset, ReleaseFree, ServerReply, LoseLink, StopRun, Destroyer,
         WaitSlot, FreeSlot, UnsetSlot, SetOver, sems
      <4>3. Begun' + call_num' = Begun + call_num
        BY <4>1 DEF Complete
      <4>4. Begun' = Begun
        BY <2>1
      <4>5. Begun + call_num' = Begun + call_num /\ Begun \in Int /\ call_num \in Int
        BY <4>3, <4>4, <1>t, <1>b
      <4>6. \A x, y, z \in Int : x + y = x + z => y = z
        OBVIOUS
      <4>7. call_num' = call_num
        BY <4>2, <4>5, <4>6
      <4> QED BY <4>1, <4>7
    <3>2. ASSUME NEW j \in 0 .. NSlots - 1
          PROVE  \/ http'[Plus(call_index, j)] = http[Plus(call_index, j)]
                 \/ http'[Plus(call_index, j)] = NULL /\ j >= InFlight
                 \/ j = call_num /\ Received = 1
      <4>1. Plus(call_index, j) \in Slot
        BY <1>p
      <4>2. ASSUME NEW a \in Callers, FillFails(a), Plus(call_index, j) = aidx[a] PROVE j >= InFlight
        <5>1. a \in Filling
          BY <4>2 DEF FillFails, Filling
        <5>2. aidx[a] = Plus(call_index, InFlight) /\ InFlight <= NSlots - 1
          BY <5>1, <1>1, <1>c, <1>t, <1>b, Counts DEF RingView
        <5>3. j = InFlight
          BY <4>2, <5>2, <1>b, <1>t, PlusInjective
        <5> QED BY <5>3, <1>b
      <4>3. ASSUME ReleaseSlot, Plus(call_index, j) = cidx PROVE j >= InFlight
        <5>1. Calling = 1
          BY <4>3 DEF ReleaseSlot, Calling
        <5>2. cidx = Plus(call_index, NSlots - 1) /\ InFlight <= NSlots - 1
          BY <5>1, <1>1, <1>c, <1>t, <1>b DEF RingView
        <5>3. NSlots - 1 \in 0 .. NSlots - 1
          BY <1>t
        <5>4. j = NSlots - 1
          BY <4>3, <5>2, <5>3, <1>b, <1>t, PlusInjective
        <5> QED BY <5>2, <5>4, <1>b, <1>t
      <4>4. ASSUME Analyse \/ AnalyseBad, Plus(call_index, j) = ridx
            PROVE  j = call_num /\ Received = 1
        <5>1. Received = 1
          BY <4>4 DEF Analyse, AnalyseBad, Received
        <5>2. ridx = Plus(call_index, call_num) /\ call_num \in 0 .. NSlots - 1
          BY <5>1, <1>1, <1>t, <1>b DEF RingView
        <5> QED BY <4>4, <5>1, <5>2, <1>t, PlusInjective
      <4> QED BY <4>1, <4>2, <4>3, <4>4, <1>t, SlotStep
    <3>3. ASSUME NEW j \in 0 .. call_num - 1 PROVE http'[Plus(call_index, j)] = accepted'[Begun + 1 + j]
      <4>1. j \in 0 .. NSlots - 1 /\ ~(j >= InFlight) /\ j # call_num
        BY <1>b, <1>t
      <4> QED BY <1>d, <2>3, <3>2, <4>1
    <3>4. ASSUME NEW j \in call_num + Received .. NSlots - 1,
                 j < NSlots - 1 \/ cpc' \notin {"call", "release"}
          PROVE  http'[Plus(call_index, j)] = NULL
      <4>1. j \in 0 .. NSlots - 1 /\ ~(j = call_num /\ Received = 1)
        BY <1>b, <1>t
      <4>2. CASE j < NSlots - 1 \/ cpc \notin {"call", "release"}
        BY <1>z, <3>2, <4>1, <4>2
      <4>3. CASE j = NSlots - 1 /\ cpc \in {"call", "release"}
        <5>1. ReleaseSlot
          BY <3>4, <4>3, <1>t DEF Next, Query, Caller, LockAsyn, InsertIndex, FillSlot, FillFails,
           Sender, SendIndex, SendRequest, SendPost, SendMark, Receiver, RecvIndex, RecvBytes,
           RecvReconnect, Analyse, RecvDone, AnalyseFails, AnalyseBad, RecvCut, CallbackThread, CallIndex, CallBack,
           ReleasePool, ReleaseUnset, ReleaseFree, ServerReply, LoseLink, StopRun, Destroyer,
           WaitSlot, FreeSlot, UnsetSlot, SetOver, caller
        <5>2. Calling = 1
          BY <5>1 DEF ReleaseSlot, Calling
        <5>3. cidx = Plus(call_index, j)
          BY <5>2, <1>1, <4>3 DEF RingView
        <5>4. http' = [http EXCEPT ![cidx] = NULL]
          BY <5>1 DEF ReleaseSlot
        <5> QED BY <5>3, <5>4, <1>t
      <4> QED BY <4>1, <4>2, <4>3, <1>t
    <3> QED BY <2>1, <3>1, <3>3, <3>4 DEF Answers, Plus
  <2> QED BY <2>4, <2>5, <2>6
<1> QED BY <1>2, <1>3

LEMMA NextSlotsInOrder ==
  ASSUME ControlTypeOK, OneCaller, RingOrder, DataTypeOK, Next, ~is_over', CallRight, SlotsInOrder,
         Reading
  PROVE  SlotsInOrder'
BY NextReqInOrder, NextAnswers DEF SlotsInOrder, Answers

-----------------------------------------------------------------------------
(* analysis_es_recv_str on the stream.  What it leaves in the buffer is    *)
(* the buffer without its first d pieces.                                  *)
IsSuffix(left, buf, d) ==
  /\ left \in Seq(Piece) /\ Len(left) = Len(buf) - d
  /\ \A i \in 1 .. Len(buf) - d : left[i] = buf[d + i]

LEMMA FromSuffix ==
  ASSUME NEW buf \in Seq(Piece), NEW d \in 0 .. Len(buf)
  PROVE  IsSuffix(From(buf, d + 1), buf, d)
<1>1. From(buf, d + 1) \in Seq(Piece)
  BY FromType
<1>2. CASE d < Len(buf)
  BY <1>1, <1>2 DEF From, IsSuffix
<1>3. CASE d = Len(buf)
  BY <1>1, <1>3 DEF From, IsSuffix
<1> QED BY <1>2, <1>3

LEMMA EmptySuffix == ASSUME NEW buf \in Seq(Piece) PROVE IsSuffix(<<>>, buf, Len(buf))
BY EmptySeq DEF IsSuffix

LEMMA SuffixSuffix ==
  ASSUME NEW buf \in Seq(Piece), NEW d \in 0 .. Len(buf), NEW body, IsSuffix(body, buf, d),
         NEW e \in 0 .. Len(body), NEW left, IsSuffix(left, body, e)
  PROVE  IsSuffix(left, buf, d + e) /\ d + e \in 0 .. Len(buf)
<1>1. left \in Seq(Piece) /\ Len(left) = Len(buf) - (d + e) /\ d + e \in 0 .. Len(buf)
  BY DEF IsSuffix
<1>2. ASSUME NEW i \in 1 .. Len(buf) - (d + e) PROVE left[i] = buf[d + e + i]
  <2>1. Len(body) = Len(buf) - d /\ Len(buf) \in Nat
    BY DEF IsSuffix
  <2>2. i \in 1 .. Len(body) - e /\ e + i \in 1 .. Len(buf) - d /\ d + (e + i) = d + e + i
    BY <2>1
  <2>3. left[i] = body[e + i] /\ body[e + i] = buf[d + (e + i)]
    BY <2>2 DEF IsSuffix
  <2> QED BY <2>2, <2>3
<1> QED BY <1>1, <1>2 DEF IsSuffix

(* The kinds of the pieces round the answer to the request numbered p + 1. *)
Kinds(buf, t, p) ==
  \A i \in 1 .. Len(buf) :
    /\ t + i = 3 * p => buf[i].kind = "tail"
    /\ t + i = 3 * p + 1 => buf[i].kind = "head"
    /\ t + i = 3 * p + 2 => buf[i].kind = "end"
    /\ t + i = 3 * p + 3 => buf[i].kind = "tail"
    /\ t + i = 3 * p + 4 => buf[i].kind = "head"

LEMMA LeastIs ==
  ASSUME NEW S \in SUBSET Nat, NEW x \in S, \A y \in S : x <= y PROVE Least(S) = x
<1>1. Least(S) \in S /\ Least(S) <= x /\ x <= Least(S)
  BY LeastIn
<1>2. Least(S) \in Nat /\ x \in Nat
  BY <1>1
<1> QED BY <1>1, <1>2

(* Behind the head: an end is needed, and the rest goes on at a head.      *)
LEMMA BodyReads ==
  ASSUME NEW buf \in Seq(Piece), NEW p \in Nat, Kinds(buf, 3 * p + 1, p)
  PROVE  /\ At(buf, "end") = {} => buf = <<>>
         /\ At(buf, "end") # {} => \E d \in 0 .. Len(buf) :
                                     /\ IsSuffix(NextHead(buf), buf, d)
                                     /\ 3 * p + 1 + d \in {3 * p + 2, 3 * p + 3}
<1>0. Len(buf) \in Nat /\ DOMAIN buf = 1 .. Len(buf)
  OBVIOUS
<1>1. /\ Len(buf) >= 1 => buf[1].kind = "end"
      /\ Len(buf) >= 2 => buf[2].kind = "tail"
      /\ Len(buf) >= 3 => buf[3].kind = "head"
  BY <1>0 DEF Kinds
<1>2. ASSUME At(buf, "end") = {} PROVE buf = <<>>
  <2>1. ~(Len(buf) >= 1)
    BY <1>0, <1>1, <1>2 DEF At
  <2>2. Len(buf) = 0
    BY <1>0, <2>1
  <2> QED BY <2>2, EmptySeq
<1>3. ASSUME At(buf, "end") # {}
      PROVE  \E d \in 0 .. Len(buf) : /\ IsSuffix(NextHead(buf), buf, d)
                                      /\ 3 * p + 1 + d \in {3 * p + 2, 3 * p + 3}
  <2>1. Len(buf) >= 1
    BY <1>0, <1>3 DEF At
  <2>2. CASE At(buf, "head") = {}
    <3>1. ~(Len(buf) >= 3)
      BY <1>0, <1>1, <2>2 DEF At
    <3>2. NextHead(buf) = <<>>
      BY <2>2 DEF NextHead
    <3>3. IsSuffix(NextHead(buf), buf, Len(buf))
      BY <3>2, EmptySuffix
    <3>4. Len(buf) \in 0 .. Len(buf) /\ 3 * p + 1 + Len(buf) \in {3 * p + 2, 3 * p + 3}
      BY <1>0, <2>1, <3>1
    <3> QED BY <3>3, <3>4
  <2>3. CASE At(buf, "head") # {}
    <3>1. \A i \in At(buf, "head") : i \in 1 .. Len(buf) /\ buf[i].kind = "head"
      BY AtIn
    <3>2. \A i \in At(buf, "head") : i >= 3
      <4>1. ASSUME NEW i \in At(buf, "head"), i < 3 PROVE FALSE
        <5>1. i = 1 \/ i = 2
          BY <3>1, <4>1, <1>0
        <5> QED BY <1>1, <3>1, <4>1, <5>1
      <4> QED BY <3>1, <4>1
    <3>3. Len(buf) >= 3
      BY <2>3, <3>1, <3>2, <1>0
    <3>4. 3 \in At(buf, "head")
      BY <1>0, <1>1, <3>3 DEF At
    <3>5. Least(At(buf, "head")) = 3
      BY <3>2, <3>4, AtIn, LeastIs
    <3>6. NextHead(buf) = From(buf, 2 + 1)
      BY <2>3, <3>5 DEF NextHead
    <3>7. 2 \in 0 .. Len(buf) /\ 3 * p + 1 + 2 \in {3 * p + 2, 3 * p + 3}
      BY <3>3, <1>0
    <3> QED BY <3>6, <3>7, FromSuffix
  <2> QED BY <2>2, <2>3
<1> QED BY <1>2, <1>3

(* An answer is complete exactly when its end has been received; the slot  *)
(* then has the head of its own answer, however the pieces were cut up.    *)
Reads(a, buf, t, p, r, d) ==
  /\ d \in 0 .. Len(buf) /\ IsSuffix(a.left, buf, d)
  /\ a.ret = 0 => a.http = r /\ t + d \in {3 * p + 2, 3 * p + 3}
  /\ a.ret # 0 => \/ a.http = NULL /\ t + d \in {3 * p - 1, 3 * p}
                  \/ a.http = r /\ t + d = 3 * p + 1

LEMMA AnalysisReads ==
  ASSUME NEW buf \in Seq(Piece), NEW p \in Nat, NEW t \in Nat, NEW r \in Requests, NEW h,
         Kinds(buf, t, p),
         \A i \in 1 .. Len(buf) : t + i = 3 * p + 1 => buf[i].req = r,
         \/ h = NULL /\ t \in {3 * p - 1, 3 * p}
         \/ h = r /\ t = 3 * p + 1
  PROVE  \E d : Reads(Analysis(buf, h), buf, t, p, r, d)
<1>0. Len(buf) \in Nat /\ DOMAIN buf = 1 .. Len(buf) /\ r # NULL
  BY RequestsAssumption
<1>1. CASE h = NULL /\ At(buf, "head") = {}
  <2>1. Analysis(buf, h) = [http |-> NULL, ret |-> -4, left |-> <<>>]
    BY <1>1 DEF Analysis
  <2>2. \A i \in 1 .. Len(buf) : t + i # 3 * p + 1
    BY <1>0, <1>1 DEF At, Kinds
  <2>3. t + Len(buf) \in {3 * p - 1, 3 * p}
    <3>1. t \in {3 * p - 1, 3 * p}
      BY <1>0, <1>1
    <3>2. CASE t = 3 * p
      <4>1. ~(1 \in 1 .. Len(buf))
        BY <2>2, <3>2
      <4> QED BY <4>1, <3>2, <1>0
    <3>3. CASE t = 3 * p - 1
      <4>1. ~(2 \in 1 .. Len(buf))
        BY <2>2, <3>3
      <4> QED BY <4>1, <3>3, <1>0
    <3> QED BY <3>1, <3>2, <3>3
  <2>4. Len(buf) \in 0 .. Len(buf) /\ IsSuffix(<<>>, buf, Len(buf))
    BY <1>0, EmptySuffix
  <2>5. Reads(Analysis(buf, h), buf, t, p, r, Len(buf))
    BY <2>1, <2>3, <2>4 DEF Reads
  <2> QED BY <2>5
<1>2. ASSUME NEW d \in 0 .. Len(buf), NEW body, IsSuffix(body, buf, d), t + d = 3 * p + 1,
             Analysis(buf, h) = IF At(body, "end") = {}
                                THEN [http |-> r, ret |-> 1, left |-> body]
                                ELSE [http |-> r, ret |-> 0, left |-> NextHead(body)]
      PROVE  \E e : Reads(Analysis(buf, h), buf, t, p, r, e)
  <2>1. body \in Seq(Piece) /\ Len(body) = Len(buf) - d
    BY <1>2 DEF IsSuffix
  <2>2. Kinds(body, 3 * p + 1, p)
    <3>1. ASSUME NEW i \in 1 .. Len(body)
          PROVE  d + i \in 1 .. Len(buf) /\ body[i] = buf[d + i] /\ t + (d + i) = 3 * p + 1 + i
      <4>1. i \in 1 .. Len(buf) - d /\ d + i \in 1 .. Len(buf)
        BY <1>0, <2>1
      <4>2. body[i] = buf[d + i]
        BY <1>2, <4>1 DEF IsSuffix
      <4>3. t + (d + i) = 3 * p + 1 + i
        BY <1>2, <1>0, <4>1
      <4> QED BY <4>1, <4>2, <4>3
    <3> QED BY <3>1 DEF Kinds
  <2>3. CASE At(body, "end") = {}
    <3>1. Reads(Analysis(buf, h), buf, t, p, r, d)
      BY <1>2, <2>3 DEF Reads
    <3> QED BY <3>1
  <2>4. CASE At(body, "end") # {}
    <3>1. PICK e \in 0 .. Len(body) : /\ IsSuffix(NextHead(body), body, e)
                                      /\ 3 * p + 1 + e \in {3 * p + 2, 3 * p + 3}
      BY <2>1, <2>2, <2>4, BodyReads
    <3>2. IsSuffix(NextHead(body), buf, d + e) /\ d + e \in 0 .. Len(buf)
      BY <1>2, <3>1, SuffixSuffix
    <3>3. t + (d + e) = 3 * p + 1 + e
      BY <1>2, <3>1
    <3>4. Reads(Analysis(buf, h), buf, t, p, r, d + e)
      BY <1>2, <2>4, <3>1, <3>2, <3>3 DEF Reads
    <3> QED BY <3>4
  <2> QED BY <2>3, <2>4
<1>3. CASE h = NULL /\ At(buf, "head") # {}
  <2> DEFINE m == 3 * p + 1 - t
  <2>1. m \in {1, 2} /\ t + m = 3 * p + 1 /\ (m = 2 => t + 1 = 3 * p)
    BY <1>0, <1>3
  <2>2. \A i \in At(buf, "head") : i \in 1 .. Len(buf) /\ buf[i].kind = "head"
    BY AtIn
  <2>3. \A i \in At(buf, "head") : i >= m
    <3>1. ASSUME NEW i \in At(buf, "head"), i < m PROVE FALSE
      <4>1. i = 1 /\ m = 2
        BY <2>1, <2>2, <3>1, <1>0
      <4>2. buf[1].kind = "tail"
        BY <2>1, <2>2, <4>1 DEF Kinds
      <4> QED BY <2>2, <4>1, <4>2, <3>1
    <3> QED BY <2>1, <2>2, <3>1
  <2>4. m \in 1 .. Len(buf)
    <3>1. PICK i : i \in At(buf, "head")
      BY <1>3
    <3>2. i \in 1 .. Len(buf) /\ i >= m
      BY <2>2, <2>3, <3>1
    <3> QED BY <1>0, <2>1, <3>2
  <2>5. m \in At(buf, "head") /\ buf[m].req = r
    BY <1>0, <2>1, <2>4 DEF At, Kinds
  <2>6. Least(At(buf, "head")) = m
    BY <2>3, <2>5, AtIn, LeastIs
  <2> HIDE DEF m
  <2>7. Analysis(buf, h) = IF At(From(buf, m + 1), "end") = {}
                           THEN [http |-> r, ret |-> 1, left |-> From(buf, m + 1)]
                           ELSE [http |-> r, ret |-> 0, left |-> NextHead(From(buf, m + 1))]
    BY <1>3, <2>5, <2>6 DEF Analysis
  <2>8. m \in 0 .. Len(buf) /\ IsSuffix(From(buf, m + 1), buf, m)
    BY <2>4, FromSuffix, <1>0
  <2> QED BY <1>2, <2>1, <2>7, <2>8
<1>4. CASE h # NULL
  <2>1. h = r /\ t = 3 * p + 1
    BY <1>4
  <2>2. Analysis(buf, h) = IF At(buf, "end") = {}
                           THEN [http |-> r, ret |-> 1, left |-> buf]
                           ELSE [http |-> r, ret |-> 0, left |-> NextHead(buf)]
    BY <1>4, <2>1 DEF Analysis
  <2>3. 0 \in 0 .. Len(buf) /\ IsSuffix(buf, buf, 0) /\ t + 0 = 3 * p + 1
    BY <1>0, <2>1 DEF IsSuffix
  <2> QED BY <1>2, <2>2, <2>3
<1> QED BY <1>1, <1>3, <1>4


-----------------------------------------------------------------------------
(* The stream through inbox, wire and an_buf: requests are written at one  *)
(* end and pieces taken at the other, and the numbering moves with them.   *)
LEMMA PieceStays ==
  ASSUME NEW acc \in Seq(Requests), NEW new \in Seq(Requests), Len(acc) <= Len(new),
         \A k \in 1 .. Len(acc) : new[k] = acc[k],
         NEW x, NEW g \in Int, g <= 3 * Len(acc), IsPiece(acc, x, g)
  PROVE  IsPiece(new, x, g)
<1> SUFFICES ASSUME NEW q \in DOMAIN new
             PROVE  /\ g = 3 * q - 2 => x = [req |-> new[q], kind |-> "head"]
                    /\ g = 3 * q - 1 => x = [req |-> new[q], kind |-> "end"]
                    /\ g = 3 * q => x = [req |-> new[q], kind |-> "tail"]
  BY DEF IsPiece
<1>1. q \in 1 .. Len(new) /\ Len(new) \in Nat /\ Len(acc) \in Nat /\ DOMAIN acc = 1 .. Len(acc)
  OBVIOUS
<1>2. CASE q <= Len(acc)
  <2>1. q \in DOMAIN acc /\ new[q] = acc[q]
    BY <1>1, <1>2
  <2> QED BY <2>1 DEF IsPiece
<1>3. CASE q > Len(acc)
  <2>1. g # 3 * q - 2 /\ g # 3 * q - 1 /\ g # 3 * q
    BY <1>1, <1>3
  <2> QED BY <2>1
<1> QED BY <1>1, <1>2, <1>3

LEMMA StreamGrows ==
  ASSUME NEW acc \in Seq(Requests), NEW new \in Seq(Requests), Len(acc) <= Len(new),
         \A k \in 1 .. Len(acc) : new[k] = acc[k],
         NEW rep \in Int, NEW tak \in Int, NEW inb \in Seq(Requests), NEW buf \in Seq(Piece),
         NEW wir \in Seq(Piece), InStream(acc, rep, tak, inb, buf, wir),
         rep + Len(inb) <= Len(acc), tak + Len(buf) + Len(wir) = 3 * rep
  PROVE  InStream(new, rep, tak, inb, buf, wir)
<1>0. /\ Len(inb) \in Nat /\ Len(buf) \in Nat /\ Len(wir) \in Nat /\ Len(acc) \in Nat
      /\ rep >= 0 /\ tak >= 0 /\ rep <= Len(acc)
  BY DEF InStream
<1>1. ASSUME NEW i \in 1 .. Len(inb) PROVE inb[i] = new[rep + i]
  <2>1. rep + i \in 1 .. Len(acc)
    BY <1>0
  <2> QED BY <2>1 DEF InStream
<1>2. ASSUME NEW i \in 1 .. Len(buf) PROVE IsPiece(new, buf[i], tak + i)
  <2>1. tak + i \in Int /\ tak + i <= 3 * Len(acc) /\ IsPiece(acc, buf[i], tak + i)
    BY <1>0 DEF InStream
  <2> QED BY <2>1, PieceStays
<1>3. ASSUME NEW i \in 1 .. Len(wir) PROVE IsPiece(new, wir[i], tak + Len(buf) + i)
  <2>1. /\ tak + Len(buf) + i \in Int /\ tak + Len(buf) + i <= 3 * Len(acc)
        /\ IsPiece(acc, wir[i], tak + Len(buf) + i)
    BY <1>0 DEF InStream
  <2> QED BY <2>1, PieceStays
<1> QED BY <1>0, <1>1, <1>2, <1>3 DEF InStream

LEMMA StreamSends ==
  ASSUME NEW acc, NEW rep \in Int, NEW tak \in Int, NEW inb \in Seq(Requests), NEW buf, NEW wir,
         InStream(acc, rep, tak, inb, buf, wir), NEW x \in Requests, x = acc[rep + Len(inb) + 1]
  PROVE  InStream(acc, rep, tak, Append(inb, x), buf, wir)
<1>1. ASSUME NEW i \in 1 .. Len(Append(inb, x)) PROVE Append(inb, x)[i] = acc[rep + i]
  <2>0. Len(inb) \in Nat /\ Len(Append(inb, x)) = Len(inb) + 1
    OBVIOUS
  <2>1. CASE i = Len(inb) + 1
    <3>1. rep + i = rep + Len(inb) + 1
      BY <2>0, <2>1
    <3> QED BY <2>1, <3>1
  <2>2. CASE i \in 1 .. Len(inb)
    BY <2>2 DEF InStream
  <2> QED BY <2>0, <2>1, <2>2
<1> QED BY <1>1 DEF InStream

LEMMA Threes ==
  \A a, b \in Int, e \in 1 .. 3 :
    /\ 3 * a + e = 3 * b - 2 => e = 1 /\ b = a + 1
    /\ 3 * a + e = 3 * b - 1 => e = 2 /\ b = a + 1
    /\ 3 * a + e = 3 * b => e = 3 /\ b = a + 1
OBVIOUS

LEMMA AnswerPieces ==
  ASSUME NEW acc \in Seq(Requests), NEW rep \in Nat, NEW k \in 1 .. 3, NEW x, NEW y, x = acc[rep + 1],
         y = [req |-> x, kind |-> <<"head", "end", "tail">>[k]]
  PROVE  IsPiece(acc, y, 3 * rep + k)
<1> SUFFICES ASSUME NEW q \in DOMAIN acc
             PROVE  /\ 3 * rep + k = 3 * q - 2 => y = [req |-> acc[q], kind |-> "head"]
                    /\ 3 * rep + k = 3 * q - 1 => y = [req |-> acc[q], kind |-> "end"]
                    /\ 3 * rep + k = 3 * q => y = [req |-> acc[q], kind |-> "tail"]
  BY DEF IsPiece
<1>1. q \in Int /\ rep \in Int
  OBVIOUS
<1>2. /\ 3 * rep + k = 3 * q - 2 => k = 1 /\ q = rep + 1
      /\ 3 * rep + k = 3 * q - 1 => k = 2 /\ q = rep + 1
      /\ 3 * rep + k = 3 * q => k = 3 /\ q = rep + 1
  BY <1>1, Threes
<1>3. /\ k = 1 => y = [req |-> x, kind |-> "head"]
      /\ k = 2 => y = [req |-> x, kind |-> "end"]
      /\ k = 3 => y = [req |-> x, kind |-> "tail"]
  OBVIOUS
<1> QED BY <1>2, <1>3

(* The three pieces that follow the first g.                               *)
IsAnswer(acc, more, g) == \A k \in 1 .. 3 : IsPiece(acc, more[k], g + k)

LEMMA StreamReplies ==
  ASSUME NEW acc, NEW rep \in Int, NEW tak \in Int, NEW inb \in Seq(Requests),
         NEW buf \in Seq(Piece), NEW wir \in Seq(Piece), InStream(acc, rep, tak, inb, buf, wir),
         Len(inb) > 0, NEW more \in Seq(Piece), Len(more) = 3,
         IsAnswer(acc, more, tak + Len(buf) + Len(wir))
  PROVE  InStream(acc, rep + 1, tak, Tail(inb), buf, wir \o more)
<1>0. /\ Len(inb) \in Nat \ {0} /\ Len(buf) \in Nat /\ Len(wir) \in Nat /\ rep >= 0 /\ tak >= 0
      /\ Len(Tail(inb)) = Len(inb) - 1 /\ Len(wir \o more) = Len(wir) + 3
  <2>1. rep >= 0 /\ tak >= 0
    BY DEF InStream
  <2>2. Len(inb) \in Nat \ {0} /\ Len(buf) \in Nat /\ Len(wir) \in Nat
    OBVIOUS
  <2>3. Len(Tail(inb)) = Len(inb) - 1
    BY <2>2
  <2>4. Len(wir \o more) = Len(wir) + 3
    <3>1. Len(wir \o more) = Len(wir) + Len(more)
      BY ConcatProperties
    <3> QED BY <2>2, <3>1
  <2> QED BY <2>1, <2>2, <2>3, <2>4
<1>1. ASSUME NEW i \in 1 .. Len(Tail(inb)) PROVE Tail(inb)[i] = acc[rep + 1 + i]
  <2>1. i + 1 \in 1 .. Len(inb) /\ rep + (i + 1) = rep + 1 + i /\ Tail(inb)[i] = inb[i + 1]
    BY <1>0
  <2>2. inb[i + 1] = acc[rep + (i + 1)]
    BY <2>1 DEF InStream
  <2> QED BY <2>1, <2>2
<1>2. ASSUME NEW i \in 1 .. Len(wir \o more) PROVE IsPiece(acc, (wir \o more)[i], tak + Len(buf) + i)
  <2>1. CASE i \in 1 .. Len(wir)
    <3>1. (wir \o more)[i] = wir[i]
      BY <2>1, <1>0
    <3> QED BY <2>1, <3>1 DEF InStream
  <2>2. CASE i \notin 1 .. Len(wir)
    <3>1. i - Len(wir) \in 1 .. 3 /\ (wir \o more)[i] = more[i - Len(wir)]
      BY <1>0, <2>2
    <3>2. tak + Len(buf) + i = tak + Len(buf) + Len(wir) + (i - Len(wir))
      BY <1>0
    <3>3. IsPiece(acc, more[i - Len(wir)], tak + Len(buf) + Len(wir) + (i - Len(wir)))
      BY <3>1 DEF IsAnswer
    <3> QED BY <3>1, <3>2, <3>3
  <2> QED BY <2>1, <2>2
<1> QED BY <1>0, <1>1, <1>2 DEF InStream

(* tcp_client_recv returns the first n pieces of wir.                      *)
Arrives(all, rest, buf, wir, n) == all = buf \o SubSeq(wir, 1, n) /\ rest = From(wir, n + 1)

SameTotal(all, rest, buf, wir) == Len(all) + Len(rest) = Len(buf) + Len(wir)

LEMMA StreamArrives ==
  ASSUME NEW acc, NEW rep \in Int, NEW tak \in Int, NEW inb, NEW buf \in Seq(Piece),
         NEW wir \in Seq(Piece), InStream(acc, rep, tak, inb, buf, wir), NEW n \in 1 .. Len(wir),
         NEW all, NEW rest, Arrives(all, rest, buf, wir, n)
  PROVE  /\ InStream(acc, rep, tak, inb, all, rest)
         /\ SameTotal(all, rest, buf, wir)
<1> DEFINE got == SubSeq(wir, 1, n)
           new == From(wir, n + 1)
<1>0. /\ Len(buf) \in Nat /\ Len(wir) \in Nat /\ got \in Seq(Piece) /\ Len(got) = n
      /\ \A i \in 1 .. n : got[i] = wir[i]
  OBVIOUS
<1>1. IsSuffix(new, wir, n)
  BY <1>0, FromSuffix
<1>2. Len(new) = Len(wir) - n
  BY <1>1 DEF IsSuffix
<1> HIDE DEF got, new
<1>3. Len(buf \o got) = Len(buf) + n
  BY <1>0
<1>4. ASSUME NEW i \in 1 .. Len(buf \o got) PROVE IsPiece(acc, (buf \o got)[i], tak + i)
  <2>1. CASE i \in 1 .. Len(buf)
    <3>1. (buf \o got)[i] = buf[i]
      BY <2>1, <1>0
    <3> QED BY <2>1, <3>1 DEF InStream
  <2>2. CASE i \notin 1 .. Len(buf)
    <3>1. /\ i - Len(buf) \in 1 .. n /\ i - Len(buf) \in 1 .. Len(wir)
          /\ tak + Len(buf) + (i - Len(buf)) = tak + i
      BY <1>0, <1>3, <2>2
    <3>2. (buf \o got)[i] = wir[i - Len(buf)]
      BY <1>0, <1>3, <2>2, <3>1
    <3>3. IsPiece(acc, wir[i - Len(buf)], tak + Len(buf) + (i - Len(buf)))
      BY <3>1 DEF InStream
    <3> QED BY <3>1, <3>2, <3>3
  <2> QED BY <2>1, <2>2
<1>5. ASSUME NEW i \in 1 .. Len(new) PROVE IsPiece(acc, new[i], tak + Len(buf \o got) + i)
  <2>1. /\ i \in 1 .. Len(wir) - n /\ n + i \in 1 .. Len(wir)
        /\ tak + Len(buf \o got) + i = tak + Len(buf) + (n + i)
    BY <1>0, <1>2, <1>3
  <2>2. new[i] = wir[n + i] /\ IsPiece(acc, wir[n + i], tak + Len(buf) + (n + i))
    BY <1>1, <2>1 DEF IsSuffix, InStream
  <2> QED BY <2>1, <2>2
<1>6. SameTotal(buf \o got, new, buf, wir)
  BY <1>0, <1>2, <1>3 DEF SameTotal
<1>7. InStream(acc, rep, tak, inb, buf \o got, new)
  BY <1>4, <1>5 DEF InStream
<1> QED BY <1>6, <1>7 DEF got, new, Arrives

LEMMA StreamTaken ==
  ASSUME NEW acc, NEW rep \in Int, NEW tak \in Int, NEW inb, NEW buf \in Seq(Piece), NEW wir,
         InStream(acc, rep, tak, inb, buf, wir), NEW d \in 0 .. Len(buf), NEW left,
         IsSuffix(left, buf, d), NEW new \in Int, new = tak + d
  PROVE  InStream(acc, rep, new, inb, left, wir)
<1>0. Len(buf) \in Nat /\ Len(left) = Len(buf) - d /\ new >= 0
  BY DEF IsSuffix, InStream
<1>1. ASSUME NEW i \in 1 .. Len(left) PROVE IsPiece(acc, left[i], new + i)
  <2>1. i \in 1 .. Len(buf) - d /\ d + i \in 1 .. Len(buf) /\ new + i = tak + (d + i)
    BY <1>0
  <2>2. left[i] = buf[d + i] /\ IsPiece(acc, buf[d + i], tak + (d + i))
    BY <2>1 DEF IsSuffix, InStream
  <2> QED BY <2>1, <2>2
<1>2. new + Len(left) = tak + Len(buf)
  BY <1>0
<1> QED BY <1>0, <1>1, <1>2 DEF InStream


(* The steps that move requests and pieces while the connection is up.     *)
LEMMA NetStep ==
  ASSUME Next, ~LoseLink, ~RecvCut, ~AnalyseBad
  PROVE  \/ SendRequest /\ UNCHANGED <<wire, an_buf>>
         \/ ServerReply /\ UNCHANGED an_buf
         \/ RecvBytes /\ UNCHANGED inbox
         \/ Analyse /\ UNCHANGED <<inbox, wire>>
         \/ ~SendRequest /\ UNCHANGED <<inbox, wire, an_buf>>
<1> DEFINE Still == UNCHANGED <<inbox, wire, an_buf>>
<1>1. ASSUME NEW a \in Callers, NEW r \in Requests, Query(a, r) PROVE Still
  BY <1>1 DEF Query, net, receiver
<1>2. ASSUME NEW a \in Callers, Caller(a) \/ FillFails(a) PROVE Still
  BY <1>2 DEF Caller, LockAsyn, InsertIndex, FillSlot, FillFails, net, receiver
<1>3. ASSUME SendIndex \/ SendPost \/ SendMark PROVE Still
  BY <1>3 DEF SendIndex, SendPost, SendMark, net, receiver
<1>4. ASSUME SendRequest PROVE UNCHANGED <<wire, an_buf>>
  BY <1>4 DEF SendRequest, receiver
<1>5. ASSUME RecvIndex \/ RecvReconnect \/ RecvDone \/ AnalyseFails PROVE Still
  BY <1>5 DEF RecvIndex, RecvReconnect, RecvDone, AnalyseFails, net, receiver
<1>6. ASSUME RecvBytes PROVE UNCHANGED inbox
  BY <1>6 DEF RecvBytes, net
<1>7. ASSUME Analyse PROVE UNCHANGED <<inbox, wire>>
  BY <1>7 DEF Analyse, net
<1>8. ASSUME CallbackThread PROVE Still
  BY <1>8 DEF CallbackThread, CallIndex, CallBack, ReleaseSlot, ReleasePool, ReleaseUnset,
              ReleaseFree, net, receiver
<1>9. ASSUME ServerReply PROVE UNCHANGED an_buf
  BY <1>9 DEF ServerReply, receiver
<1>10. ASSUME StopRun \/ Destroyer PROVE Still
  BY <1>10 DEF StopRun, Destroyer, WaitSlot, FreeSlot, UnsetSlot, SetOver, net, receiver
<1> QED
  BY <1>1, <1>2, <1>3, <1>4, <1>5, <1>6, <1>7, <1>8, <1>9, <1>10
  DEF Next, Sender, Receiver

(* The sender writes the requests to the socket in the order in which they *)
(* were accepted.                                                          *)
LEMMA SendsNext ==
  ASSUME ControlTypeOK, OneCaller, RingOrder, DataTypeOK, ~is_over, SlotsInOrder
  PROVE  /\ Sent \in Nat /\ Len(accepted) \in Nat /\ Sent <= Len(accepted)
         /\ spc = "send" => Sent + 1 <= Len(accepted) /\ req[sidx] = accepted[Sent + 1]
<1>1. RingView
  BY RingViewed
<1>t. /\ recv_num \in Nat /\ call_num \in Nat /\ send_num \in Nat /\ Len(accepted) \in Nat
      /\ Len(answered) \in Nat /\ Received \in {0, 1} /\ InCall \in {0, 1}
  BY Counts DEF ControlTypeOK, DataTypeOK, InCall
<1>b. Begun \in Nat
  BY <1>t DEF Begun
<1>2. /\ InFlight \in Nat /\ Begun + InFlight = Len(accepted)
      /\ call_num + Received + recv_num + Sending <= InFlight
  BY <1>1 DEF RingView, SlotsInOrder
<1>3. CASE spc = "send"
  <2>1. Sending = 1 /\ Sent = Begun + call_num + Received + recv_num
    BY <1>3, <1>t, <1>b DEF Sending, Sent
  <2>2. sidx = Plus(call_index, call_num + Received + recv_num)
    BY <1>1, <2>1 DEF RingView
  <2>3. /\ call_num + Received + recv_num \in 0 .. InFlight - 1
        /\ Begun + 1 + (call_num + Received + recv_num) = Sent + 1
    BY <1>t, <1>b, <1>2, <2>1
  <2>4. req[sidx] = accepted[Sent + 1]
    BY <2>2, <2>3 DEF SlotsInOrder
  <2>5. Sent \in Nat /\ Sent + 1 <= Len(accepted)
    BY <1>t, <1>b, <1>2, <2>1
  <2> QED BY <1>t, <2>4, <2>5
<1>4. CASE spc # "send"
  <2>1. /\ Sending = (IF spc = "post" THEN 1 ELSE 0)
        /\ Sent = Begun + call_num + Received + recv_num + Sending
    BY <1>4 DEF Sending, Sent
  <2> QED BY <1>4, <1>t, <1>b, <1>2, <2>1, Counts
<1> QED BY <1>3, <1>4


LEMMA PieceAt ==
  ASSUME NEW acc, NEW x, NEW g, IsPiece(acc, x, g), NEW q \in DOMAIN acc
  PROVE  /\ g = 3 * q - 2 => x.kind = "head" /\ x.req = acc[q]
         /\ g = 3 * q - 1 => x.kind = "end"
         /\ g = 3 * q => x.kind = "tail"
BY DEF IsPiece

(* No piece of the stream is half a head.                                  *)
LEMMA WholePiece ==
  ASSUME NEW acc \in Seq(Requests), NEW x, NEW g \in 1 .. 3 * Len(acc), IsPiece(acc, x, g)
  PROVE  x.kind # "part"
<1>1. PICK q \in 1 .. Len(acc) : g = 3 * q - 2 \/ g = 3 * q - 1 \/ g = 3 * q
  <2> DEFINE q == (g + 2) \div 3
  <2>1. Len(acc) \in Nat
    OBVIOUS
  <2>2. q \in 1 .. Len(acc) /\ (g = 3 * q - 2 \/ g = 3 * q - 1 \/ g = 3 * q)
    BY <2>1
  <2> HIDE DEF q
  <2> QED BY <2>2
<1>2. q \in DOMAIN acc
  OBVIOUS
<1> QED BY <1>1, <1>2, PieceAt

(* The receiver's answer is the one to the request numbered Complete + 1.  *)
LEMMA ReadsNext ==
  ASSUME ControlTypeOK, OneCaller, RingOrder, DataTypeOK, ~is_over, SlotsInOrder, Streamed, Reading,
         rpc = "analyse"
  PROVE  /\ Complete \in Nat /\ Complete + 1 <= Len(accepted)
         /\ \E d : Reads(Analysis(an_buf, http[ridx]), an_buf, Taken, Complete,
                         accepted[Complete + 1], d)
<1>1. RingView
  BY RingViewed
<1>t. /\ recv_num \in Nat /\ call_num \in Nat /\ accepted \in Seq(Requests) /\ Len(accepted) \in Nat
      /\ Len(answered) \in Nat /\ InCall \in {0, 1} /\ an_buf \in Seq(Piece)
      /\ Len(an_buf) \in Nat /\ Len(wire) \in Nat /\ Len(inbox) \in Nat
  BY DEF ControlTypeOK, DataTypeOK, InCall
<1>b. Begun \in Nat /\ Complete \in Nat /\ Complete = Begun + call_num
  BY <1>t DEF Begun, Complete
<1>2. Complete + 1 <= Len(accepted)
  <2>1. Received = 1
    BY DEF Received
  <2>2. call_num + Received + recv_num + Sending <= InFlight /\ InFlight \in Nat
    BY <1>1 DEF RingView
  <2>3. Begun + InFlight = Len(accepted)
    BY DEF SlotsInOrder
  <2> QED BY <1>t, <1>b, <2>1, <2>2, <2>3, Counts
<1>3. /\ Replied \in Nat /\ Taken \in Nat /\ Taken + Len(an_buf) <= 3 * Len(accepted)
  <2>1. Sent \in Nat /\ Sent <= Len(accepted)
    BY SendsNext
  <2>2. Replied \in Int /\ Replied >= 0 /\ Replied <= Sent
    BY <1>t, <2>1 DEF Replied, Streamed, InStream
  <2>3. Taken \in Int /\ Taken >= 0 /\ Taken + Len(an_buf) <= 3 * Replied
    BY <1>t, <2>2 DEF Taken, Streamed, InStream
  <2> QED BY <1>t, <2>1, <2>2, <2>3
<1> DEFINE p == Complete
<1>4. p \in Nat /\ p + 1 <= Len(accepted)
  BY <1>b, <1>2
<1>5. \/ http[ridx] = NULL /\ Taken \in {3 * p - 1, 3 * p}
      \/ http[ridx] = accepted[p + 1] /\ Taken = 3 * p + 1
  BY <1>b DEF Reading, Between
<1>6. accepted[p + 1] \in Requests
  BY <1>4, <1>t
<1>7. \A i \in 1 .. Len(an_buf) : IsPiece(accepted, an_buf[i], Taken + i)
  BY DEF Streamed, InStream
<1> HIDE DEF p
<1>8. Kinds(an_buf, Taken, p)
  <2> SUFFICES ASSUME NEW i \in 1 .. Len(an_buf)
               PROVE  /\ Taken + i = 3 * p => an_buf[i].kind = "tail"
                      /\ Taken + i = 3 * p + 1 => an_buf[i].kind = "head"
                      /\ Taken + i = 3 * p + 2 => an_buf[i].kind = "end"
                      /\ Taken + i = 3 * p + 3 => an_buf[i].kind = "tail"
                      /\ Taken + i = 3 * p + 4 => an_buf[i].kind = "head"
    BY DEF Kinds
  <2>0. DOMAIN accepted = 1 .. Len(accepted)
    BY <1>t
  <2>1. ASSUME Taken + i = 3 * p PROVE an_buf[i].kind = "tail"
    <3>1. p \in DOMAIN accepted
      BY <1>t, <1>3, <1>4, <2>0, <2>1
    <3> QED BY <1>7, <2>1, <3>1, PieceAt
  <2>2. p + 1 \in DOMAIN accepted
    BY <1>t, <1>4, <2>0
  <2>3. /\ 3 * p + 1 = 3 * (p + 1) - 2 /\ 3 * p + 2 = 3 * (p + 1) - 1 /\ 3 * p + 3 = 3 * (p + 1)
    BY <1>4
  <2>4. /\ Taken + i = 3 * p + 1 => an_buf[i].kind = "head"
        /\ Taken + i = 3 * p + 2 => an_buf[i].kind = "end"
        /\ Taken + i = 3 * p + 3 => an_buf[i].kind = "tail"
    BY <1>7, <2>2, <2>3, PieceAt
  <2>5. ASSUME Taken + i = 3 * p + 4 PROVE an_buf[i].kind = "head"
    <3>1. p + 2 \in DOMAIN accepted /\ 3 * p + 4 = 3 * (p + 2) - 2
      BY <1>t, <1>3, <1>4, <2>0, <2>5
    <3> QED BY <1>7, <2>5, <3>1, PieceAt
  <2> QED BY <2>1, <2>4, <2>5
<1>9. \A i \in 1 .. Len(an_buf) : Taken + i = 3 * p + 1 => an_buf[i].req = accepted[p + 1]
  <2>1. p + 1 \in DOMAIN accepted /\ 3 * p + 1 = 3 * (p + 1) - 2
    BY <1>t, <1>4
  <2> QED BY <1>7, <2>1, PieceAt
<1>10. \E d : Reads(Analysis(an_buf, http[ridx]), an_buf, Taken, p, accepted[p + 1], d)
  BY <1>t, <1>3, <1>4, <1>5, <1>6, <1>8, <1>9, AnalysisReads
<1> QED BY <1>4, <1>10 DEF p

LEMMA NextStreamed ==
  ASSUME ControlTypeOK, OneCaller, RingOrder, Support, DataTypeOK, DataTypeOK', Next, ~is_over',
         StreamWhole', CallRight, SlotsInOrder, Streamed, Reading
  PROVE  /\ Streamed'
         /\ ~Analyse => Taken' = Taken
         /\ Analyse => \E d : /\ Reads(Analysis(an_buf, http[ridx]), an_buf, Taken, Complete,
                                       accepted[Complete + 1], d)
                              /\ Taken' = Taken + d
<1>0. ~is_over /\ StreamWhole /\ linkFaults = 0 /\ ~LoseLink /\ ~RecvCut /\ ~AnalyseBad /\ link /\ es_fd
  BY OverStays, FaultsStay DEF Support
<1>t. /\ accepted \in Seq(Requests) /\ accepted' \in Seq(Requests)
      /\ inbox \in Seq(Requests) /\ inbox' \in Seq(Requests)
      /\ wire \in Seq(Piece) /\ wire' \in Seq(Piece)
      /\ an_buf \in Seq(Piece) /\ an_buf' \in Seq(Piece)
  BY DEF DataTypeOK
<1>n. /\ Len(inbox) \in Nat /\ Len(wire) \in Nat /\ Len(an_buf) \in Nat /\ Len(accepted) \in Nat
      /\ Len(inbox') \in Nat /\ Len(wire') \in Nat /\ Len(an_buf') \in Nat
  BY <1>t
<1>s. Sent \in Nat /\ Sent <= Len(accepted)
  BY <1>0, SendsNext
<1>r. /\ Replied \in Int /\ Replied + Len(inbox) = Sent
      /\ Taken \in Int /\ Taken + Len(an_buf) + Len(wire) = 3 * Replied
  <2>1. Replied \in Int /\ Replied + Len(inbox) = Sent
    BY <1>n, <1>s DEF Replied
  <2> QED BY <1>n, <2>1 DEF Taken
<1>i. InStream(accepted, Replied, Taken, inbox, an_buf, wire)
  BY DEF Streamed
<1>p. /\ Replied' = Sent' - Len(inbox')
      /\ Taken' = 3 * Replied' - Len(an_buf') - Len(wire')
  BY DEF Replied, Taken
<1>q. ASSUME InStream(accepted', Replied', Taken', inbox', an_buf', wire') PROVE Streamed'
  BY <1>q DEF Streamed
<1>g. /\ \A k \in 1 .. Len(accepted) : accepted'[k] = accepted[k]
      /\ Len(accepted) <= Len(accepted')
      /\ (\E a \in Callers : FillSlot(a)) \/ accepted' = accepted
  BY AcceptedGrows
<1> HIDE DEF Replied, Taken, Sent
<1>1. CASE SendRequest /\ UNCHANGED <<wire, an_buf>>
  <2>1. /\ spc = "send" /\ inbox' = Append(inbox, req[sidx]) /\ accepted' = accepted
    BY <1>0, <1>1 DEF SendRequest
  <2>2. req[sidx] = accepted[Sent + 1] /\ Sent + 1 <= Len(accepted)
    BY <1>0, <2>1, SendsNext
  <2>3. req[sidx] \in Requests /\ Replied + Len(inbox) + 1 = Sent + 1
    BY <1>t, <1>r, <1>n, <1>s, <2>2
  <2>4. InStream(accepted, Replied, Taken, inbox', an_buf, wire)
    BY <1>t, <1>r, <1>i, <2>1, <2>2, <2>3, StreamSends
  <2>5. Sent' = Sent + 1 /\ Len(inbox') = Len(inbox) + 1
    BY <1>1, <1>t, <2>1, <2>3, Tally
  <2>6. Replied' = Replied
    BY <1>p, <1>r, <1>n, <1>s, <2>5, SMTT(40)
  <2>7. Taken' = Taken
    BY <1>p, <1>r, <1>n, <1>1, <2>6
  <2>8. ~Analyse
    BY <1>1 DEF SendRequest, Analyse, receiver
  <2> QED BY <1>1, <1>q, <2>1, <2>4, <2>6, <2>7, <2>8
<1>2. CASE ServerReply /\ UNCHANGED an_buf
  <2> DEFINE more == [k \in 1 .. 3 |-> [req |-> Head(inbox), kind |-> <<"head", "end", "tail">>[k]]]
  <2>1. inbox # <<>> /\ inbox' = Tail(inbox) /\ wire' = wire \o more /\ accepted' = accepted
    BY <1>2 DEF ServerReply, hist
  <2>2. Len(inbox) > 0 /\ Head(inbox) = inbox[1]
    <3>1. Len(inbox) > 0
      BY <1>t, <2>1, EmptySeq
    <3> QED BY <1>t, <3>1
  <2>3. inbox[1] = accepted[Replied + 1] /\ Head(inbox) \in Requests /\ Replied \in Nat
    BY <1>t, <1>i, <1>n, <1>r, <2>2 DEF InStream
  <2>4. /\ more \in Seq(Piece) /\ Len(more) = 3
        /\ \A k \in 1 .. 3 : more[k] = [req |-> Head(inbox), kind |-> <<"head", "end", "tail">>[k]]
    <3>1. ASSUME NEW k \in 1 .. 3
          PROVE  [req |-> Head(inbox), kind |-> <<"head", "end", "tail">>[k]] \in Piece
      BY <2>3 DEF Piece
    <3>2. more \in [1 .. 3 -> Piece]
      BY <3>1
    <3>3. more \in Seq(Piece) /\ Len(more) = 3
      BY <3>2
    <3> QED BY <3>3
  <2> HIDE DEF more
  <2>5. IsAnswer(accepted, more, 3 * Replied)
    BY <1>t, <2>2, <2>3, <2>4, AnswerPieces DEF IsAnswer
  <2>6. InStream(accepted, Replied + 1, Taken, inbox', an_buf, wire')
    BY <1>t, <1>r, <1>i, <2>1, <2>2, <2>4, <2>5, StreamReplies
  <2>7. ~SendRequest /\ Len(inbox') = Len(inbox) - 1 /\ Len(wire') = Len(wire) + 3 /\ ~Analyse
    <3>1. ~SendRequest /\ ~Analyse
      BY <1>2 DEF ServerReply, SendRequest, Analyse, sender, receiver
    <3>2. Len(inbox') = Len(inbox) - 1
      BY <1>t, <2>1, <2>2
    <3>3. Len(wire') = Len(wire) + 3
      <4>1. Len(wire \o more) = Len(wire) + Len(more)
        BY <1>t, <2>4, ConcatProperties
      <4> QED BY <1>n, <2>1, <2>4, <4>1
    <3> QED BY <3>1, <3>2, <3>3
  <2>8. Sent' = Sent
    BY <2>7, Tally
  <2>9. Replied' = Replied + 1
    BY <1>p, <1>r, <1>n, <1>s, <2>7, <2>8, SMTT(40)
  <2>10. Taken' = Taken
    BY <1>p, <1>r, <1>n, <1>2, <2>7, <2>9, SMTT(40)
  <2> QED BY <1>2, <1>q, <2>1, <2>6, <2>7, <2>9, <2>10
<1>3. CASE RecvBytes /\ UNCHANGED inbox
  <2>1. /\ accepted' = accepted /\ ~SendRequest /\ ~Analyse
    BY <1>3 DEF RecvBytes, SendRequest, Analyse, sender, hist
  <2>2. PICK k \in 1 .. Len(wire) : /\ an_buf' = an_buf \o SubSeq(wire, 1, k)
                                    /\ wire' = From(wire, k + 1)
    <3>1. ASSUME NEW i \in 1 .. Len(an_buf) PROVE an_buf[i].kind # "part"
      <4>1. Taken >= 0 /\ IsPiece(accepted, an_buf[i], Taken + i)
        BY <1>i DEF InStream
      <4>2. Taken + i \in 1 .. 3 * Len(accepted)
        BY <1>n, <1>r, <1>s, <4>1
      <4> QED BY <1>t, <4>1, <4>2, WholePiece
    <3>2. At(an_buf, "part") = {}
      BY <1>t, <3>1 DEF At
    <3>3. \A new : Joined(an_buf, new) = an_buf \o new
      BY <3>2 DEF Joined
    <3> QED BY <1>3, <3>3 DEF RecvBytes
  <2>3. /\ InStream(accepted, Replied, Taken, inbox, an_buf', wire')
        /\ Len(an_buf') + Len(wire') = Len(an_buf) + Len(wire)
    <3>0. k \in 1 .. Len(wire)
      BY <2>2
    <3>1. Arrives(an_buf', wire', an_buf, wire, k)
      BY <2>2 DEF Arrives
    <3>2. Replied \in Int /\ Taken \in Int /\ an_buf \in Seq(Piece) /\ wire \in Seq(Piece)
      BY <1>t, <1>r
    <3>3. InStream(accepted, Replied, Taken, inbox, an_buf', wire')
      BY <1>i, <1>t, <3>0, <3>1, <3>2, StreamArrives
    <3>4. SameTotal(an_buf', wire', an_buf, wire)
      BY <1>i, <3>0, <3>1, <3>2, StreamArrives
    <3> QED BY <3>3, <3>4 DEF SameTotal
  <2>4. Sent' = Sent
    BY <2>1, Tally
  <2>5. Replied' = Replied
    BY <1>p, <1>r, <1>n, <1>s, <1>3, <2>4
  <2>6. Taken' = Taken
    <3>1. Taken' = 3 * Replied - Len(an_buf') - Len(wire') /\ 3 * Replied \in Int
      BY <1>p, <1>r, <2>5
    <3>2. Taken = 3 * Replied - Len(an_buf) - Len(wire)
      BY <1>r, <1>n
    <3>3. \A a, b, c, e, t \in Int : a + b = c + e => t - a - b = t - c - e
      OBVIOUS
    <3> QED BY <1>n, <2>3, <3>1, <3>2, <3>3, SMTT(40)
  <2> QED BY <1>3, <1>q, <2>1, <2>3, <2>5, <2>6
<1>4. CASE Analyse /\ UNCHANGED <<inbox, wire>>
  <2> DEFINE a == Analysis(an_buf, http[ridx])
  <2>1. rpc = "analyse" /\ an_buf' = a.left /\ accepted' = accepted /\ ~SendRequest
    BY <1>4 DEF Analyse, SendRequest, sender
  <2>2. PICK d : Reads(a, an_buf, Taken, Complete, accepted[Complete + 1], d)
    BY <1>0, <2>1, ReadsNext
  <2> HIDE DEF a
  <2>3. d \in 0 .. Len(an_buf) /\ IsSuffix(an_buf', an_buf, d) /\ Len(an_buf') = Len(an_buf) - d
    BY <2>1, <2>2 DEF Reads, IsSuffix
  <2>4. Sent' = Sent
    BY <2>1, Tally
  <2>5. Replied' = Replied
    BY <1>p, <1>r, <1>n, <1>s, <1>4, <2>4
  <2>6. Taken' = Taken + d /\ Taken' \in Int
    BY <1>p, <1>r, <1>n, <1>4, <2>3, <2>5, SMTT(40)
  <2>7. InStream(accepted, Replied, Taken', inbox, an_buf', wire)
    BY <1>t, <1>r, <1>i, <2>3, <2>6, StreamTaken
  <2>8. Streamed'
    BY <1>4, <1>q, <2>1, <2>5, <2>7
  <2> QED BY <1>4, <2>2, <2>6, <2>8 DEF a
<1>5. CASE ~SendRequest /\ UNCHANGED <<inbox, wire, an_buf>> /\ ~Analyse
  <2>1. Sent' = Sent
    BY <1>5, Tally
  <2>2. Replied' = Replied
    BY <1>p, <1>r, <1>n, <1>s, <1>5, <2>1
  <2>3. Taken' = Taken
    BY <1>p, <1>r, <1>n, <1>5, <2>2
  <2>4. Replied + Len(inbox) <= Len(accepted)
    BY <1>r, <1>s
  <2>5. InStream(accepted', Replied, Taken, inbox, an_buf, wire)
    BY <1>t, <1>r, <1>i, <1>g, <2>4, StreamGrows
  <2> QED BY <1>5, <1>q, <2>2, <2>3, <2>5
<1> QED BY <1>0, <1>1, <1>2, <1>3, <1>4, <1>5, NetStep DEF Analyse, net


-----------------------------------------------------------------------------
(* The steps that change where the receiver is.                            *)
LEMMA ReceiverStep ==
  ASSUME Next, ~is_over, link, es_fd, ~RecvCut, ~AnalyseBad
  PROVE  \/ RecvIndex /\ UNCHANGED <<http, accepted>>
         \/ RecvBytes /\ UNCHANGED <<http, ridx, accepted>>
         \/ Analyse /\ UNCHANGED <<ridx, accepted>>
         \/ AnalyseFails /\ rpc' = "exit"
         \/ RecvDone /\ UNCHANGED <<http, ridx, accepted>>
         \/ UNCHANGED <<rpc, ridx>> /\ ~Analyse /\ ~RecvDone /\ ~RecvIndex
<1>2. ~RecvReconnect
  BY DEF RecvReconnect
<1>3. CASE RecvIndex \/ RecvBytes \/ Analyse \/ RecvDone \/ AnalyseFails
  <2>1. RecvIndex => UNCHANGED <<http, accepted>>
    BY DEF RecvIndex, slots
  <2>2. RecvBytes => UNCHANGED <<http, ridx, accepted>>
    BY DEF RecvBytes, slots, hist
  <2>3. Analyse => UNCHANGED <<ridx, accepted>>
    BY DEF Analyse
  <2>4. RecvDone => UNCHANGED <<http, ridx, accepted>>
    BY DEF RecvDone, hist
  <2>5. AnalyseFails => rpc' = "exit"
    BY DEF AnalyseFails, AnalyseBad, RecvCut
  <2> QED BY <1>3, <2>1, <2>2, <2>3, <2>4, <2>5
<1>4. CASE ~(RecvIndex \/ RecvBytes \/ Analyse \/ RecvDone \/ AnalyseFails)
  BY <1>2, <1>4 DEF Next, Query, Caller, LockAsyn, InsertIndex, FillSlot, FillFails, Sender,
   SendIndex, SendRequest, SendPost, SendMark, Receiver, CallbackThread, CallIndex, CallBack,
   ReleaseSlot, ReleasePool, ReleaseUnset, ReleaseFree, ServerReply, LoseLink, StopRun, Destroyer,
   WaitSlot, FreeSlot, UnsetSlot, SetOver, receiver
<1> QED BY <1>3, <1>4

(* Where the receiver is in the stream, whatever the cuts.                 *)
LEMMA NextReading ==
  ASSUME ControlTypeOK, OneCaller, RingOrder, Support, DataTypeOK, DataTypeOK', Next, ~is_over',
         StreamWhole', CallRight, SlotsInOrder, Streamed, Reading
  PROVE  Reading'
<1>0. ~is_over /\ StreamWhole /\ linkFaults = 0 /\ ~LoseLink /\ ~RecvCut /\ ~AnalyseBad /\ link /\ es_fd
  BY OverStays, FaultsStay DEF Support
<1>1. RingView
  BY <1>0, RingViewed
<1>t. /\ recv_num \in Nat /\ call_num \in Nat /\ accepted \in Seq(Requests) /\ Len(accepted) \in Nat
      /\ Len(answered) \in Nat /\ InCall \in {0, 1} /\ NSlots \in Nat \ {0}
      /\ aidx \in [Callers -> Slot] /\ ridx \in Slot /\ cidx \in Slot
      /\ http \in [Slot -> Requests \cup {NULL}]
      /\ rpc \in {"wait", "recv", "analyse", "done", "exit"}
      /\ call_index \in Slot
  BY NSlotsAssumption DEF ControlTypeOK, DataTypeOK, InCall
<1>b. Begun \in Nat /\ Complete \in Nat
  BY <1>t DEF Begun, Complete
<1>f. /\ Begun + InFlight = Len(accepted) /\ InFlight \in Nat
      /\ call_num + Received + recv_num + Sending <= InFlight /\ InFlight <= NSlots
  <2>1. Cardinality(Filling) \in {0, 1}
    BY FillingCard
  <2>2. free_num \in Nat
    BY DEF ControlTypeOK
  <2> QED BY <1>1, <1>t, <2>1, <2>2, Counts, SMTT(40) DEF RingView, SlotsInOrder
<1>g. \A k \in 1 .. Len(accepted) : accepted'[k] = accepted[k]
  BY AcceptedGrows
<1>d. Reading = CASE rpc = "wait" -> Taken \in {3 * Complete - 1, 3 * Complete}
                  [] rpc = "done" -> /\ http[ridx] = accepted[Complete + 1]
                                     /\ Taken \in {3 * (Complete + 1) - 1, 3 * (Complete + 1)}
                  [] rpc \in {"recv", "analyse"} ->
                       \/ http[ridx] = NULL /\ Taken \in {3 * Complete - 1, 3 * Complete}
                       \/ http[ridx] = accepted[Complete + 1] /\ Taken = 3 * Complete + 1
                  [] OTHER -> TRUE
  BY DEF Reading, Between, Complete
<1>e. Reading' = CASE rpc' = "wait" -> Taken' \in {3 * Complete' - 1, 3 * Complete'}
                  [] rpc' = "done" -> /\ http'[ridx'] = accepted'[Complete' + 1]
                                      /\ Taken' \in {3 * (Complete' + 1) - 1, 3 * (Complete' + 1)}
                  [] rpc' \in {"recv", "analyse"} ->
                       \/ http'[ridx'] = NULL /\ Taken' \in {3 * Complete' - 1, 3 * Complete'}
                       \/ http'[ridx'] = accepted'[Complete' + 1] /\ Taken' = 3 * Complete' + 1
                  [] OTHER -> TRUE
  BY DEF Reading, Between, Complete
<1> HIDE DEF Complete, Taken, Begun
<1>2. CASE RecvIndex /\ UNCHANGED <<http, accepted>>
  <2>1. rpc = "wait" /\ recv_num > 0 /\ ridx' = recv_index /\ rpc' \in {"recv", "analyse"}
    BY <1>0, <1>2 DEF RecvIndex
  <2>2. Received = 0 /\ Complete' = Complete /\ Taken' = Taken
    BY <1>2, <2>1, Tally, NextStreamed DEF RecvDone, Analyse
  <2>3. recv_index = Plus(call_index, call_num)
    BY <1>1, <1>t, <2>2 DEF RingView
  <2>4. cpc \in {"call", "release"} => call_num < NSlots - 1
    <3>1. ASSUME cpc \in {"call", "release"} PROVE call_num < NSlots - 1
      <4>1. Calling = 1
        BY <3>1 DEF Calling
      <4>2. InFlight + Cardinality(Filling) + free_num + Calling <= NSlots
        BY <1>1 DEF RingView
      <4>3. Cardinality(Filling) \in {0, 1} /\ free_num \in Nat
        BY FillingCard DEF ControlTypeOK
      <4> QED BY <4>1, <4>2, <4>3, <1>f, <1>t, <2>1, <2>2, Counts
    <3> QED BY <3>1
  <2>5. call_num \in call_num + Received .. NSlots - 1
    BY <1>f, <1>t, <2>1, <2>2, Counts
  <2>6. http[ridx'] = NULL
    BY <2>1, <2>3, <2>4, <2>5 DEF SlotsInOrder
  <2>7. Taken \in {3 * Complete - 1, 3 * Complete}
    BY <1>d, <2>1
  <2> QED BY <1>2, <1>e, <2>1, <2>2, <2>6, <2>7
<1>3. CASE RecvBytes /\ UNCHANGED <<http, ridx, accepted>>
  <2>1. rpc = "recv" /\ rpc' = "analyse" /\ ~Analyse /\ ~RecvDone
    BY <1>3 DEF RecvBytes, Analyse, RecvDone
  <2>2. Complete' = Complete /\ Taken' = Taken
    BY <2>1, Tally, NextStreamed
  <2> QED BY <1>3, <1>d, <1>e, <2>1, <2>2
<1>4. CASE Analyse /\ UNCHANGED <<ridx, accepted>>
  <2> DEFINE a == Analysis(an_buf, http[ridx])
             r == accepted[Complete + 1]
  <2>1. /\ rpc = "analyse" /\ http' = [http EXCEPT ![ridx] = a.http]
        /\ rpc' = (IF a.ret = 0 THEN "done" ELSE "recv")
    BY <1>4 DEF Analyse
  <2>2. PICK d : Reads(a, an_buf, Taken, Complete, r, d) /\ Taken' = Taken + d
    BY <1>4, NextStreamed
  <2>3. Complete' = Complete
    BY <2>1, Tally DEF RecvDone
  <2>4. http'[ridx'] = a.http
    BY <1>4, <1>t, <2>1
  <2>5. accepted'[Complete' + 1] = r
    BY <1>4, <2>3
  <2> HIDE DEF a, r
  <2>6. CASE a.ret = 0
    <3>1. a.http = r /\ Taken' \in {3 * Complete + 2, 3 * Complete + 3}
      BY <2>2, <2>6 DEF Reads
    <3>2. 3 * Complete + 2 = 3 * (Complete + 1) - 1 /\ 3 * Complete + 3 = 3 * (Complete + 1)
      BY <1>b
    <3> QED BY <1>e, <2>1, <2>3, <2>4, <2>5, <2>6, <3>1, <3>2
  <2>7. CASE a.ret # 0
    <3>1. \/ a.http = NULL /\ Taken' \in {3 * Complete - 1, 3 * Complete}
          \/ a.http = r /\ Taken' = 3 * Complete + 1
      BY <2>2, <2>7 DEF Reads
    <3> QED BY <1>e, <2>1, <2>3, <2>4, <2>5, <2>7, <3>1
  <2> QED BY <2>6, <2>7
<1>5. CASE AnalyseFails /\ rpc' = "exit"
  BY <1>5, <1>e
<1>6. CASE RecvDone /\ UNCHANGED <<http, ridx, accepted>>
  <2>1. rpc = "done" /\ rpc' = "wait" /\ ~Analyse
    BY <1>6 DEF RecvDone, Analyse
  <2>2. Complete' = Complete + 1 /\ Taken' = Taken
    BY <1>6, <2>1, Tally, NextStreamed
  <2>3. Taken \in {3 * (Complete + 1) - 1, 3 * (Complete + 1)}
    BY <1>d, <2>1
  <2> QED BY <1>e, <2>1, <2>2, <2>3
<1>7. CASE UNCHANGED <<rpc, ridx>> /\ ~Analyse /\ ~RecvDone /\ ~RecvIndex
  <2>1. Complete' = Complete /\ Taken' = Taken
    BY <1>7, Tally, NextStreamed
  <2>2. CASE rpc \in {"wait", "exit"}
    BY <1>7, <1>d, <1>e, <2>1, <2>2
  <2>3. CASE rpc \in {"recv", "analyse", "done"}
    <3>1. Received = 1 /\ Receiving = 1
      BY <2>3 DEF Received, Receiving
    <3>2. Complete + 1 \in 1 .. Len(accepted)
      BY <1>f, <1>t, <1>b, <3>1, Counts DEF Complete
    <3>3. accepted'[Complete' + 1] = accepted[Complete + 1]
      BY <1>g, <2>1, <3>2
    <3>4. http'[ridx'] = http[ridx]
      <4>1. MeetOnlyAtMark
        BY OrderedStagesApart
      <4>2. ASSUME NEW a \in Callers, FillFails(a) PROVE aidx[a] # ridx
        <5>1. a \in Filling
          BY <4>2 DEF FillFails, Filling
        <5> QED BY <1>0, <3>1, <4>1, <5>1 DEF MeetOnlyAtMark
      <4>3. ReleaseSlot => cidx # ridx
        BY <1>0, <3>1, <4>1 DEF MeetOnlyAtMark, ReleaseSlot, Calling
      <4>4. http'[ridx] = http[ridx]
        BY <1>0, <1>7, <1>t, <4>2, <4>3, SlotStep
      <4> QED BY <1>7, <4>4
    <3> QED BY <1>7, <1>d, <1>e, <2>1, <2>3, <3>3, <3>4
  <2> QED BY <1>t, <2>2, <2>3
<1> QED BY <1>0, <1>2, <1>3, <1>4, <1>5, <1>6, <1>7, ReceiverStep

-----------------------------------------------------------------------------
FInv == DInv /\ Flow

LEMMA InitFlow == Init => Flow
<1> SUFFICES ASSUME Init PROVE Flow
  OBVIOUS
<1>1. /\ call_num = 0 /\ recv_num = 0 /\ send_num = 0 /\ Received = 0 /\ Sending = 0 /\ InCall = 0
      /\ rpc = "wait" /\ spc = "wait" /\ cpc = "wait"
      /\ accepted = <<>> /\ answered = <<>> /\ inbox = <<>> /\ wire = <<>> /\ an_buf = <<>>
  BY DEF Init, Received, Sending, InCall
<1>2. /\ Len(accepted) = 0 /\ Len(answered) = 0 /\ Len(inbox) = 0 /\ Len(wire) = 0 /\ Len(an_buf) = 0
      /\ DOMAIN answered = {}
  BY <1>1, EmptySeq
<1>3. Begun = 0 /\ InFlight = 0 /\ Sent = 0 /\ Replied = 0 /\ Taken = 0
  <2>1. Begun = 0 /\ InFlight = 0
    BY <1>1, <1>2 DEF Begun, InFlight
  <2>2. Sent = 0
    BY <1>1, <2>1 DEF Sent
  <2>3. Replied = 0
    BY <1>2, <2>2 DEF Replied
  <2>4. Taken = 0
    BY <1>2, <2>3 DEF Taken
  <2> QED BY <2>1, <2>2, <2>3, <2>4
<1>4. OverRoom /\ InOrderUntilLoss /\ CallRight
  BY <1>1, <1>2 DEF OverRoom, InOrderUntilLoss, CallRight
<1>5. Streamed
  BY <1>2, <1>3 DEF Streamed, InStream
<1>6. Reading
  BY <1>1, <1>3 DEF Reading, Between
<1>7. SlotsInOrder
  <2>1. \A j \in 0 .. NSlots - 1 : http[Plus(call_index, j)] = NULL
    <3>1. call_index \in Slot /\ http = [i \in Slot |-> NULL]
      BY NSlotsAssumption DEF Init, Slot
    <3> QED BY <3>1, PlusType, NSlotsAssumption
  <2> QED BY <1>1, <1>2, <1>3, <2>1 DEF SlotsInOrder
<1> QED BY <1>4, <1>5, <1>6, <1>7 DEF Flow

LEMMA NextFlow == FInv /\ DInv' /\ [Next]_vars => Flow'
<1> SUFFICES ASSUME FInv, DInv', [Next]_vars PROVE Flow'
  OBVIOUS
<1>0. /\ ControlTypeOK /\ OneCaller /\ RingOrder /\ Support /\ DataTypeOK /\ Flow /\ DataTypeOK'
  BY DEF FInv, DInv, IInv
<1>1. CASE Next
  <2>1. OverRoom'
    BY <1>0, <1>1, NextOverRoom DEF Flow
  <2>2. ASSUME StreamWhole' PROVE InOrderUntilLoss' /\ CallRight'
    BY <1>0, <1>1, <2>2, NextCallRight
  <2>3. ASSUME StreamWhole', ~is_over' PROVE SlotsInOrder' /\ Streamed' /\ Reading'
    <3>1. CallRight /\ SlotsInOrder /\ Streamed /\ Reading
      BY <1>0, <1>1, <2>3, FaultsStay, OverStays DEF Flow
    <3> QED BY <1>0, <1>1, <2>3, <3>1, NextSlotsInOrder, NextStreamed, NextReading
  <2> QED BY <2>1, <2>2, <2>3 DEF Flow
<1>2. CASE UNCHANGED vars
  BY <1>0, <1>2 DEF Flow, OverRoom, InOrderUntilLoss, CallRight, SlotsInOrder, Streamed, Reading,
     InStream, IsPiece, Between, Taken, Replied, Sent, Begun, InCall, InFlight, Received, Sending,
     Filling, Held, Gap, Plus, Advance, vars, idx, sems, slots, callers, sender, receiver, caller,
     destroyer, net, hist, StreamWhole
<1> QED BY <1>1, <1>2

LEMMA FlowInvariance == Spec => []FInv
<1>1. Spec => []DInv
  BY DataInvariance
<1>2. Init => Flow
  BY InitFlow
<1>3. FInv /\ DInv' /\ [Next]_vars => Flow'
  BY NextFlow
<1> QED BY <1>1, <1>2, <1>3, PTL DEF Spec, FInv

(* Until a connection is lost, a recv stops inside the word HTTP or a body *)
(* is refused, callbacks are made in the order in which                    *)
(* es_query_asynchronous accepted the requests, and each is given the      *)
(* answer to its own request, whatever part of the answers a recv brings   *)
(* and whatever analysis_es_recv_str leaves in its buffer; also while      *)
(* es_server_destroy runs.                                                 *)
THEOREM AnsweredInOrder == Spec => []InOrderUntilLoss
<1>1. FInv => InOrderUntilLoss
  BY DEF FInv, Flow, InOrderUntilLoss
<1> QED BY <1>1, FlowInvariance, PTL

(* Every step of the pipeline is a step of EsService or invisible there:   *)
(* FillSlot accepts, CallBack answers the oldest accepted request that has *)
(* not been answered.                                                      *)
LEMMA StepServes ==
  FInv /\ StreamWhole /\ [Next]_vars => [Service!Next]_(Service!esvars)
<1> SUFFICES ASSUME FInv, StreamWhole, [Next]_vars PROVE [Service!Next]_(Service!esvars)
  OBVIOUS
<1> USE DEF Service!esvars
<1>0. DataTypeOK /\ Carried /\ CallRight
  BY DEF FInv, DInv, Flow
<1>1. ASSUME Next, NEW a \in Callers, FillSlot(a) PROVE Service!Next
  <2>1. areq[a] \in Requests
    BY <1>0, <1>1 DEF FillSlot, Carried
  <2>2. accepted' = Append(accepted, areq[a]) /\ UNCHANGED answered
    BY <1>1 DEF FillSlot
  <2> QED BY <2>1, <2>2 DEF Service!Next, Service!Accept
<1>2. ASSUME Next, CallBack PROVE Service!Next
  <2>1. /\ cpc = "call" /\ UNCHANGED accepted
        /\ answered' = IF req[cidx] = NULL THEN answered
                       ELSE Append(answered, [req |-> req[cidx], http |-> http[cidx]])
    BY <1>2 DEF CallBack
  <2>2. /\ Begun = Len(answered) + 1 /\ Len(answered) \in Nat
        /\ accepted \in Seq(Requests) /\ Len(accepted) \in Nat
    BY <1>0, <2>1 DEF Begun, InCall, DataTypeOK
  <2>3. Begun <= Len(accepted) /\ req[cidx] = accepted[Begun] /\ http[cidx] = accepted[Begun]
    BY <1>0, <2>1 DEF CallRight
  <2>4. accepted[Begun] \in Requests
    BY <2>2, <2>3
  <2>5. answered' = Append(answered, [req |-> accepted[Len(answered) + 1],
                                      http |-> accepted[Len(answered) + 1]])
    BY <2>1, <2>2, <2>3, <2>4, RequestsAssumption
  <2>6. Len(answered) < Len(accepted)
    BY <2>2, <2>3
  <2> QED BY <2>1, <2>5, <2>6 DEF Service!Next, Service!Answer
<1>3. ASSUME Next, ~(\E a \in Callers : FillSlot(a)), ~CallBack
      PROVE  UNCHANGED <<accepted, answered>>
  BY <1>0, <1>3, AcceptedGrows, CallbackStep
<1>4. CASE UNCHANGED vars
  BY <1>4 DEF vars, hist
<1> QED BY <1>1, <1>2, <1>3, <1>4

(* With a connection that is never lost, no head cut in two and no body    *)
(* refused the pipeline implements the safety part of EsService, also when allocations fail and es_server_destroy is  *)
(* called at any moment: it accepts and answers, in order, and does        *)
(* nothing else to a request.                                              *)
THEOREM ServesSafely ==
  ASSUME MaxLinkFaults = 0, MaxGarbled = 0
  PROVE  Spec => Service!Init /\ [][Service!Next]_(Service!esvars)
<1>1. Init => Service!Init
  BY DEF Init, Service!Init
<1>2. FInv => StreamWhole
  <2>1. MaxLinkFaults = 0 /\ MaxGarbled = 0
    OBVIOUS
  <2> QED BY <2>1 DEF FInv, DInv, IInv, ControlTypeOK, StreamWhole
<1>3. FInv /\ [Next]_vars => [Service!Next]_(Service!esvars)
  BY <1>2, StepServes
<1> QED BY <1>1, <1>3, FlowInvariance, PTL DEF Spec
=============================================================================
