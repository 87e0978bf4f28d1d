--------------------------- MODULE EsBlockProofs ---------------------------
(***************************************************************************)
(* Proofs about EsBlock for any number of callers, of pieces an answer is  *)
(* read in and of faults: who holds the slot is alone in it and reads its  *)
(* own answer until a call leaves bytes behind, and a destroy between      *)
(* calls uses nothing it has freed.                                        *)
(***************************************************************************)
EXTENDS EsBlock, SequenceTheorems, TLAPS

Labels == {"idle", "lock", "make", "send", "recv", "hold", "unlock"}

Typed ==
    /\ is_run \in BOOLEAN /\ quiet \in BOOLEAN /\ crash \in BOOLEAN
    /\ bloc_mutex \in Callers \cup {NULL}
    /\ mem \in {"live", "freed", "null"} /\ link \in {"up", "down"}
    /\ pc \in [Callers -> Labels]
    /\ dpc \in {"none", "stop", "freed", "unlink", "done"}
    /\ faults \in Nat /\ behind \in Nat

(* bloc_mutex is held from the lock in es_query_block to the unlock in     *)
(* release_es_respond.                                                     *)
Holder == \A c \in Callers : Inside(c) => bloc_mutex = c

(* What follows the first n pieces of an answer.                           *)
Rest(c, n) == [i \in 1 .. Pieces - n |-> [of |-> c, no |-> n + i]]

(* Nothing of an answer is in the slot, under way or owed.                 *)
Clear == resp = <<>> /\ wire = <<>> /\ server = <<>>

(* Where the bytes of the answer are while c waits for it: with the        *)
(* server, or the first n pieces here and the others under way, or lost    *)
(* with the connection that es_server_destroy closed.                      *)
Awaited(c) ==
    \/ server = <<c>> /\ wire = <<>> /\ resp = <<>>
    \/ /\ server = <<>>
       /\ \E n \in 0 .. EndPiece - 1 : resp = Answer(c, n) /\ wire \in {Rest(c, n), <<>>}

(* As long as nothing has failed and nothing was left behind, the          *)
(* connection and the slot are clean whenever the lock changes hands.      *)
Exchange ==
    faults = 0 /\ behind = 0 =>
        /\ bloc_mutex = NULL => Clear
        /\ \A c \in Callers :
             /\ bloc_mutex = c => Inside(c)
             /\ pc[c] \in {"make", "send", "unlock"} => Clear
             /\ pc[c] = "recv" => Awaited(c)
             /\ pc[c] = "hold" => resp = Answer(c, EndPiece)

(* What is_run and the pool of the slot are at each step of destroy, when  *)
(* it was called between two calls.                                        *)
Shutdown ==
    /\ dpc = "none" => is_run /\ mem = "live" /\ ~crash
    /\ dpc # "none" => ~is_run
    /\ (quiet /\ dpc # "none") => \A c \in Callers : pc[c] = "idle"
    /\ (quiet /\ dpc = "stop") => mem = "live"
    /\ quiet => ~crash

IInv == Typed /\ Holder /\ Exchange /\ Shutdown
-----------------------------------------------------------------------------
LEMMA InitInv == Init => IInv
<1> SUFFICES ASSUME Init PROVE IInv
  OBVIOUS
<1>1. Typed
  BY EmptySeq DEF Init, Typed, Labels
<1>2. Holder /\ Exchange /\ Shutdown
  BY BlockAssumption DEF Init, Holder, Inside, Exchange, Clear, Awaited, Shutdown
<1> QED
  BY <1>1, <1>2 DEF IInv

(* An answer begins empty, and its first pieces followed by the rest are   *)
(* the whole.                                                              *)
LEMMA AnswerFacts ==
  ASSUME NEW c \in Callers
  PROVE  /\ Answer(c, 0) = <<>> /\ Rest(c, 0) = Answer(c, Pieces)
         /\ \A n \in Nat : Len(Answer(c, n)) = n /\ (n > 0 => Answer(c, n) # <<>>)
         /\ \A n \in 0 .. Pieces : Len(Rest(c, n)) = Pieces - n
<1> USE BlockAssumption
<1>1. Answer(c, 0) = <<>>
  BY DEF Answer
<1>2. Rest(c, 0) = Answer(c, Pieces)
  BY DEF Answer, Rest
<1>3. ASSUME NEW n \in Nat PROVE Len(Answer(c, n)) = n /\ (n > 0 => Answer(c, n) # <<>>)
  BY DEF Answer
<1>4. ASSUME NEW n \in 0 .. Pieces PROVE Len(Rest(c, n)) = Pieces - n
  BY DEF Rest
<1> QED
  BY <1>1, <1>2, <1>3, <1>4

(* The first k pieces of the rest, received behind the first n pieces.     *)
LEMMA Receive ==
  ASSUME NEW c \in Callers, NEW n \in 0 .. Pieces, NEW k \in 1 .. Pieces - n
  PROVE  /\ Found(Answer(c, n), SubSeq(Rest(c, n), 1, k)) = Answer(c, n + k)
         /\ SubSeq(Rest(c, n), k + 1, Pieces - n) = Rest(c, n + k)
<1> USE BlockAssumption
<1> DEFINE got == [i \in 1 .. k |-> [of |-> c, no |-> n + i]]
<1>1. SubSeq(Rest(c, n), 1, k) = got
  BY DEF Rest
<1>2. SubSeq(Rest(c, n), k + 1, Pieces - n) = Rest(c, n + k)
  BY DEF Rest
<1>3. CASE n > 0
  <2>1. Answer(c, n) # <<>>
    BY <1>3, AnswerFacts
  <2>2. Answer(c, n) \o got = Answer(c, n + k)
    BY DEF Answer
  <2> QED
    BY <1>1, <1>2, <2>1, <2>2 DEF Found
<1>4. CASE n = 0
  <2>1. Answer(c, n) = <<>> /\ got = Answer(c, n + k) /\ Len(got) = k
    BY <1>4 DEF Answer
  <2>2. PiecesNo(got, 1) = {1}
    BY <1>4 DEF PiecesNo
  <2>3. Least({1}) = 1
    BY DEF Least
  <2>4. SubSeq(got, 1, Len(got)) = got
    BY <2>1
  <2> HIDE DEF got
  <2> QED
    BY <1>1, <1>2, <2>1, <2>2, <2>3, <2>4 DEF Found
<1> QED
  BY <1>3, <1>4

(* The parser stops at the end piece.                                      *)
LEMMA ParseEnd ==
  ASSUME NEW c \in Callers, NEW m \in 1 .. Pieces
  PROVE  /\ Ended(Answer(c, m)) <=> m >= EndPiece
         /\ m >= EndPiece =>
              SubSeq(Answer(c, m), 1, Least(PiecesNo(Answer(c, m), EndPiece))) = Answer(c, EndPiece)
<1> USE BlockAssumption
<1>0. DOMAIN Answer(c, m) = 1 .. m /\ \A i \in 1 .. m : Answer(c, m)[i].no = i
  BY DEF Answer
<1>1. Ended(Answer(c, m)) <=> m >= EndPiece
  <2>1. ASSUME m >= EndPiece PROVE EndPiece \in PiecesNo(Answer(c, m), EndPiece)
    BY <1>0, <2>1 DEF PiecesNo
  <2>2. ASSUME ~(m >= EndPiece) PROVE PiecesNo(Answer(c, m), EndPiece) = {}
    BY <1>0, <2>2 DEF PiecesNo
  <2> QED
    BY <2>1, <2>2 DEF Ended
<1>2. ASSUME m >= EndPiece PROVE PiecesNo(Answer(c, m), EndPiece) = {EndPiece}
  BY <1>2 DEF PiecesNo, Answer
<1>3. Least({EndPiece}) = EndPiece
  BY DEF Least
<1>4. ASSUME m >= EndPiece PROVE SubSeq(Answer(c, m), 1, EndPiece) = Answer(c, EndPiece)
  BY <1>4 DEF Answer
<1> QED
  BY <1>1, <1>2, <1>3, <1>4

-----------------------------------------------------------------------------
LEMMA TypedStep == IInv /\ Next => Typed'
<1> SUFFICES ASSUME IInv, Next PROVE Typed'
  OBVIOUS
<1> USE EmptySeq DEF Typed, Labels, At, Goto, Fault, UsesPool, net, service, ErrorOut
<1>1. Typed
  BY DEF IInv
<1>2. ASSUME NEW c \in Callers, Query(c) \/ LockBloc(c) \/ MakeRequest(c) PROVE Typed'
  BY <1>1, <1>2 DEF Query, LockBloc, MakeRequest
<1>3. ASSUME NEW c \in Callers, SendRequest(c) \/ Reconnect(c) PROVE Typed'
  BY <1>1, <1>3 DEF SendRequest, Reconnect
<1>4. ASSUME NEW c \in Callers, RecvBytes(c) PROVE Typed'
  <2>1. pc' \in [Callers -> Labels]
    BY <1>1, <1>4 DEF RecvBytes
  <2>2. crash' \in BOOLEAN
    BY <1>4 DEF RecvBytes
  <2> QED
    BY <1>1, <1>4, <2>1, <2>2 DEF RecvBytes
<1>5. ASSUME NEW c \in Callers, ReleasePool(c) PROVE Typed'
  <2>1. behind' \in Nat
    BY <1>1, <1>5 DEF ReleasePool
  <2> QED
    BY <1>1, <1>5, <2>1 DEF ReleasePool
<1>10. ASSUME NEW c \in Callers, ReleaseUnlock(c) PROVE Typed'
  BY <1>1, <1>10 DEF ReleaseUnlock
<1>6. ASSUME NEW c \in Callers, Fails(c) PROVE Typed'
  <2>1. ASSUME MakeFails(c) PROVE Typed'
    BY <1>1, <2>1 DEF MakeFails
  <2>2. ASSUME RecvBad(c) PROVE Typed'
    BY <1>1, <2>2 DEF RecvBad
  <2>3. ASSUME ReconnectFails(c) PROVE Typed'
    BY <1>1, <2>3 DEF ReconnectFails
  <2> QED
    BY <1>6, <2>1, <2>2, <2>3 DEF Fails
<1>7. ASSUME Destroy PROVE Typed'
  <2>1. ASSUME SetStop PROVE Typed'
    <3>1. quiet' \in BOOLEAN
      BY <2>1 DEF SetStop
    <3> QED
      BY <1>1, <2>1, <3>1 DEF SetStop
  <2>2. ASSUME DestroyPool \/ ClearPool \/ DestroyLocks PROVE Typed'
    BY <1>1, <2>2 DEF DestroyPool, ClearPool, DestroyLocks
  <2> QED
    BY <1>7, <2>1, <2>2 DEF Destroy
<1>8. ASSUME ServerReply PROVE Typed'
  BY <1>1, <1>8 DEF ServerReply
<1>9. ASSUME LoseLink PROVE Typed'
  BY <1>1, <1>9 DEF LoseLink
<1> QED
  BY <1>2, <1>3, <1>4, <1>5, <1>6, <1>7, <1>8, <1>9, <1>10 DEF Next, Step

(* Only LockBloc lets a caller in, and it needs the lock to be free; only  *)
(* ReleaseUnlock frees it.                                                 *)
LEMMA HolderStep == IInv /\ Next => Holder'
<1> SUFFICES ASSUME IInv, Next PROVE Holder'
  OBVIOUS
<1> USE BlockAssumption DEF Typed, Labels, Holder, Inside, At, Goto, ErrorOut
<1>1. Typed /\ Holder
  BY DEF IInv
<1>2. ASSUME NEW c \in Callers, Query(c) \/ LockBloc(c) \/ MakeRequest(c) PROVE Holder'
  BY <1>1, <1>2 DEF Query, LockBloc, MakeRequest
<1>3. ASSUME NEW c \in Callers, SendRequest(c) \/ RecvBytes(c) \/ Reconnect(c) PROVE Holder'
  BY <1>1, <1>3 DEF SendRequest, RecvBytes, Reconnect
<1>4. ASSUME NEW c \in Callers, ReleasePool(c) \/ ReleaseUnlock(c) PROVE Holder'
  BY <1>1, <1>4 DEF ReleasePool, ReleaseUnlock
<1>5. ASSUME NEW c \in Callers, Fails(c) PROVE Holder'
  BY <1>1, <1>5 DEF Fails, MakeFails, RecvBad, ReconnectFails
<1>6. ASSUME Destroy \/ ServerReply \/ LoseLink PROVE Holder'
  BY <1>1, <1>6 DEF Destroy, SetStop, DestroyPool, ClearPool, DestroyLocks, ServerReply, LoseLink
<1> QED
  BY <1>2, <1>3, <1>4, <1>5, <1>6 DEF Next, Step

LEMMA ShutdownStep == IInv /\ Next => Shutdown'
<1> SUFFICES ASSUME IInv, Next PROVE Shutdown'
  OBVIOUS
<1> USE DEF Typed, Labels, Shutdown, At, Goto, UsesPool, ErrorOut, service
<1>1. Typed /\ Shutdown
  BY DEF IInv
<1>2. ASSUME NEW c \in Callers, Query(c) \/ LockBloc(c) \/ MakeRequest(c) PROVE Shutdown'
  BY <1>1, <1>2 DEF Query, LockBloc, MakeRequest
<1>3. ASSUME NEW c \in Callers, SendRequest(c) \/ RecvBytes(c) \/ Reconnect(c) PROVE Shutdown'
  BY <1>1, <1>3 DEF SendRequest, RecvBytes, Reconnect
<1>4. ASSUME NEW c \in Callers, ReleasePool(c) \/ ReleaseUnlock(c) PROVE Shutdown'
  BY <1>1, <1>4 DEF ReleasePool, ReleaseUnlock
<1>5. ASSUME NEW c \in Callers, Fails(c) PROVE Shutdown'
  BY <1>1, <1>5 DEF Fails, MakeFails, RecvBad, ReconnectFails
<1>6. ASSUME Destroy PROVE Shutdown'
  <2>1. ASSUME SetStop PROVE Shutdown'
    <3>1. quiet' => \A c \in Callers : pc[c] = "idle"
      BY <2>1 DEF SetStop
    <3> QED
      BY <1>1, <2>1, <3>1 DEF SetStop
  <2>2. ASSUME DestroyPool \/ ClearPool \/ DestroyLocks PROVE Shutdown'
    BY <1>1, <2>2 DEF DestroyPool, ClearPool, DestroyLocks
  <2> QED
    BY <1>6, <2>1, <2>2 DEF Destroy
<1>7. ASSUME ServerReply \/ LoseLink PROVE Shutdown'
  BY <1>1, <1>7 DEF ServerReply, LoseLink
<1> QED
  BY <1>2, <1>3, <1>4, <1>5, <1>6, <1>7 DEF Next, Step

-----------------------------------------------------------------------------
(* The caller that takes a step inside is the holder, so that what is said *)
(* of the others is not touched.                                           *)
LEMMA ExchangeStep == IInv /\ Next => Exchange'
<1> SUFFICES ASSUME IInv, Next, faults' = 0, behind' = 0 PROVE Exchange'
  BY DEF Exchange
<1> USE BlockAssumption
<1> USE DEF Typed, Labels, Holder, Inside, Clear, At, Goto, Fault
<1>1. Typed /\ Holder /\ Exchange
  BY DEF IInv
<1>2. faults = 0 /\ behind = 0
  <2>1. ASSUME NEW c \in Callers, Query(c) \/ Step(c)
        PROVE  faults' = faults /\ (behind' = behind \/ behind' = behind + 1)
    BY <2>1 DEF Step, Query, LockBloc, MakeRequest, SendRequest, RecvBytes, Reconnect,
       ReleasePool, ReleaseUnlock
  <2>2. ASSUME NEW c \in Callers, Fails(c) PROVE Fault
    BY <2>2 DEF Fails, MakeFails, RecvBad, ReconnectFails
  <2>3. ASSUME Destroy \/ ServerReply PROVE faults' = faults /\ behind' = behind
    BY <2>3 DEF Destroy, SetStop, DestroyPool, ClearPool, DestroyLocks, ServerReply
  <2>4. ASSUME LoseLink PROVE Fault
    BY <2>4 DEF LoseLink
  <2> QED
    BY <1>1, <2>1, <2>2, <2>3, <2>4 DEF Next
<1>3. ASSUME NEW c \in Callers, Query(c) \/ LockBloc(c) \/ MakeRequest(c) PROVE Exchange'
  BY <1>1, <1>2, <1>3 DEF Query, LockBloc, MakeRequest, Exchange, Awaited, net
<1>4. ASSUME NEW c \in Callers, SendRequest(c) PROVE Exchange'
  <2>1. /\ pc[c] = "send" /\ bloc_mutex = c /\ UNCHANGED <<bloc_mutex, resp, wire>>
        /\ pc' = [pc EXCEPT ![c] = "recv"] /\ Clear
    BY <1>1, <1>2, <1>4 DEF SendRequest, Exchange
  <2>2. Awaited(c)'
    <3>1. CASE link = "up"
      BY <1>4, <2>1, <3>1 DEF SendRequest, Awaited
    <3>2. CASE link # "up"
      <4>1. resp' = Answer(c, 0) /\ 0 \in 0 .. EndPiece - 1 /\ wire' = <<>> /\ server' = <<>>
        BY <1>4, <2>1, <3>2, AnswerFacts DEF SendRequest
      <4> QED
        BY <4>1 DEF Awaited
    <3> QED
      BY <3>1, <3>2
  <2>3. \A d \in Callers : d # c => pc'[d] \in {"idle", "lock"}
    BY <1>1, <2>1
  <2> QED
    BY <1>1, <2>1, <2>2, <2>3 DEF Exchange
<1>5. ASSUME NEW c \in Callers, RecvBytes(c) PROVE Exchange'
  <2>1. PICK k \in 1 .. Len(wire) : /\ resp' = Parsed(resp, SubSeq(wire, 1, k))
                                    /\ wire' = SubSeq(wire, k + 1, Len(wire))
    BY <1>5 DEF RecvBytes
  <2>2. /\ pc[c] = "recv" /\ server' = server /\ bloc_mutex' = bloc_mutex /\ bloc_mutex = c
        /\ \/ pc' = [pc EXCEPT ![c] = "recv"] /\ ~Ended(resp')
           \/ pc' = [pc EXCEPT ![c] = "hold"] /\ (Ended(resp') \/ resp' = <<>>)
    BY <1>1, <1>5 DEF RecvBytes
  <2>3. wire # <<>> /\ Awaited(c)
    BY <1>1, <1>2, <2>1, <2>2 DEF Exchange
  <2>4. PICK n \in 0 .. EndPiece - 1 : server = <<>> /\ resp = Answer(c, n) /\ wire = Rest(c, n)
    BY <2>3 DEF Awaited
  <2>5. n \in 0 .. Pieces /\ Len(wire) = Pieces - n /\ k \in 1 .. Pieces - n
        /\ n + k \in 1 .. Pieces
    <3>1. n \in 0 .. Pieces
      OBVIOUS
    <3>2. Len(wire) = Pieces - n
      BY <2>4, <3>1, AnswerFacts
    <3> QED
      BY <2>1, <3>1, <3>2
  <2>6. /\ Found(resp, SubSeq(wire, 1, k)) = Answer(c, n + k)
        /\ wire' = Rest(c, n + k)
    BY <2>1, <2>4, <2>5, Receive
  <2>7. CASE n + k >= EndPiece
    <3>1. resp' = Answer(c, EndPiece)
      BY <2>1, <2>5, <2>6, <2>7, ParseEnd DEF Parsed
    <3>2. Ended(resp')
      BY <3>1, ParseEnd
    <3>3. pc' = [pc EXCEPT ![c] = "hold"]
      BY <2>2, <3>2
    <3> QED
      BY <1>1, <2>2, <3>1, <3>3 DEF Exchange
  <2>8. CASE n + k < EndPiece
    <3>1. resp' = Answer(c, n + k) /\ ~Ended(Answer(c, n + k)) /\ Answer(c, n + k) # <<>>
      BY <2>1, <2>5, <2>6, <2>8, ParseEnd, AnswerFacts DEF Parsed
    <3>2. pc' = [pc EXCEPT ![c] = "recv"]
      BY <2>2, <3>1
    <3>3. n + k \in 0 .. EndPiece - 1
      BY <2>5, <2>8
    <3>4. Awaited(c)'
      BY <2>2, <2>4, <2>6, <3>1, <3>3 DEF Awaited
    <3> QED
      BY <1>1, <2>2, <3>2, <3>4 DEF Exchange
  <2> QED
    BY <2>5, <2>7, <2>8
<1>6. ASSUME NEW c \in Callers, Reconnect(c) PROVE Exchange'
  BY <1>1, <1>2, <1>6 DEF Reconnect, Exchange, Awaited
<1>7. ASSUME NEW c \in Callers, ReleasePool(c) PROVE Exchange'
  <2>1. wire = <<>> /\ server = <<>>
    BY <1>2, <1>7 DEF ReleasePool, Owed
  <2>2. /\ pc[c] = "hold" /\ bloc_mutex = c /\ UNCHANGED <<bloc_mutex, wire, server>>
        /\ pc' = [pc EXCEPT ![c] = "unlock"] /\ resp' = <<>>
    BY <1>1, <1>7 DEF ReleasePool, net
  <2> QED
    BY <1>1, <1>2, <2>1, <2>2 DEF Exchange
<1>8. ASSUME NEW c \in Callers, ReleaseUnlock(c) PROVE Exchange'
  BY <1>1, <1>2, <1>8 DEF ReleaseUnlock, Exchange, Awaited, net
<1>9. ASSUME NEW c \in Callers, Fails(c) PROVE Exchange'
  BY <1>1, <1>2, <1>9 DEF Fails, MakeFails, RecvBad, ReconnectFails
<1>10. ASSUME SetStop \/ DestroyPool \/ ClearPool PROVE Exchange'
  BY <1>1, <1>2, <1>10 DEF SetStop, DestroyPool, ClearPool, Exchange, Awaited, net
<1>11. ASSUME DestroyLocks PROVE Exchange'
  <2>1. server' = <<>> /\ wire' = <<>> /\ UNCHANGED <<resp, pc, bloc_mutex>>
    BY <1>11 DEF DestroyLocks
  <2>2. ASSUME NEW c \in Callers, pc[c] = "recv" PROVE Awaited(c)'
    <3>1. \E n \in 0 .. EndPiece - 1 : resp = Answer(c, n)
      <4>1. CASE resp = <<>>
        BY <4>1, AnswerFacts
      <4>2. CASE resp # <<>>
        BY <1>1, <1>2, <2>2, <4>2 DEF Exchange, Awaited
      <4> QED
        BY <4>1, <4>2
    <3> QED
      BY <2>1, <3>1 DEF Awaited
  <2> QED
    BY <1>1, <1>2, <2>1, <2>2 DEF Exchange
<1>12. ASSUME ServerReply PROVE Exchange'
  <2>1. /\ server # <<>> /\ server' = Tail(server) /\ wire' = wire \o Answer(Head(server), Pieces)
        /\ UNCHANGED <<resp, pc, bloc_mutex>>
    BY <1>12 DEF ServerReply
  <2>2. bloc_mutex # NULL /\ bloc_mutex \in Callers /\ Inside(bloc_mutex)
    BY <1>1, <1>2, <2>1 DEF Exchange
  <2>3. pc[bloc_mutex] \in {"recv", "hold"}
    BY <1>1, <1>2, <2>1, <2>2 DEF Exchange
  <2>4. \A d \in Callers : d # bloc_mutex => pc[d] \in {"idle", "lock"}
    BY <1>1
  <2>5. ASSUME pc[bloc_mutex] = "recv" PROVE Awaited(bloc_mutex)'
    <3>1. server = <<bloc_mutex>> /\ wire = <<>> /\ resp = <<>>
      BY <1>1, <1>2, <2>1, <2>2, <2>5 DEF Exchange, Awaited
    <3>2. server' = <<>> /\ wire' = Answer(bloc_mutex, Pieces)
      <4>1. Head(server) = bloc_mutex /\ Tail(server) = <<>>
        BY <3>1
      <4>2. Answer(bloc_mutex, Pieces) \in Seq([of : Callers, no : 0 .. Pieces])
        BY <2>2 DEF Answer
      <4> QED
        BY <2>1, <3>1, <4>1, <4>2
    <3>3. resp' = Answer(bloc_mutex, 0) /\ wire' = Rest(bloc_mutex, 0) /\ 0 \in 0 .. EndPiece - 1
      BY <2>1, <2>2, <3>1, <3>2, AnswerFacts
    <3> QED
      BY <2>1, <3>2, <3>3 DEF Awaited
  <2> QED
    BY <1>1, <1>2, <2>1, <2>2, <2>3, <2>4, <2>5 DEF Exchange
<1>13. ASSUME LoseLink PROVE Exchange'
  BY <1>1, <1>2, <1>13 DEF LoseLink
<1> QED
  BY <1>3, <1>4, <1>5, <1>6, <1>7, <1>8, <1>9, <1>10, <1>11, <1>12, <1>13 DEF Next, Step, Destroy

LEMMA Inductive == IInv /\ [Next]_vars => IInv'
<1>1. ASSUME IInv, UNCHANGED vars PROVE IInv'
  BY <1>1 DEF vars, IInv, Typed, Holder, Inside, Exchange, Clear, Awaited, Shutdown
<1> QED
  BY <1>1, TypedStep, HolderStep, ExchangeStep, ShutdownStep DEF IInv

-----------------------------------------------------------------------------
(* es_query_block and release_es_respond (lines 1698 to 1788 and 1664 to   *)
(* 1696): between its lock and its unlock a caller is alone with the slot, *)
(* and what it finds there is the answer to its own request up to the end  *)
(* and nothing else, as long as no call has failed and none ended before   *)
(* its answer was read off the connection; for any number of callers and   *)
(* pieces, wherever the end is, and with a destroy at any moment.          *)
THEOREM AnswersOwned == Spec => []OwnAnswer
<1>1. IInv => OwnAnswer
  BY DEF IInv, Holder, Exchange, OwnAnswer
<1> QED
  BY <1>1, InitInv, Inductive, PTL DEF Spec

(* es_server_destroy (lines 1926 to 1974) called while no call is under    *)
(* way frees the pool of the slot once, and no later call reaches the pool *)
(* or the locks.                                                           *)
THEOREM CleanDestroy == Spec => []QuietDestroy
<1>1. IInv => QuietDestroy
  BY DEF IInv, Shutdown, QuietDestroy
<1> QED
  BY <1>1, InitInv, Inductive, PTL DEF Spec
=============================================================================
