----------------------------- MODULE EsPipeline -----------------------------
(***************************************************************************)
(* module_function/es_http_api.c, the asynchronous half: callers of        *)
(* es_query_asynchronous fill the slots of a ring, es_server_send writes   *)
(* them to one TCP connection, es_server_recv reads the answers back in    *)
(* order, es_asynchronous_callback hands each answer to its caller and     *)
(* frees the slot.  Four semaphores pass the slots from stage to stage and *)
(* each stage keeps its own index into the ring; sta_ is a status word     *)
(* that the stages write and check without a lock.                         *)
(*                                                                         *)
(* A request is a model value.  An answer is a head, a piece that ends the *)
(* body and a tail of bytes after the end; the connection may deliver any  *)
(* number of pieces at once, and may cut the word HTTP that begins a head  *)
(* in two (a part and the rest), which the search for it does not see      *)
(* until the two are side by side again.  The pool of a slot               *)
(* (memory_pool.c) is only live, freed or null here.  tcp_client_send      *)
(* never returns 0 for a request that is not empty (its length is          *)
(* unsigned, so an error counts as bytes sent), hence the reconnect of     *)
(* es_server_send is never reached.                                        *)
(***************************************************************************)
EXTENDS Integers, Sequences, FiniteSets, Functions

CONSTANTS
  Callers,        \* threads that call es_query_asynchronous
  Requests,       \* the requests, each one made once
  NSlots,         \* ES_RESPOND_ARRAY_LEN
  NULL,
  MaxLinkFaults,  \* bound on connection losses
  MaxGarbled,     \* bound on heads cut in two and on answers the parser refuses
  MaxMallocFails, \* bound on failing allocations
  MaxWaits,       \* how often es_server_destroy waits for one slot
  MayDestroy      \* whether es_server_destroy may be called, at any moment

ASSUME NSlotsAssumption == NSlots \in Nat \ {0}
ASSUME CallersAssumption == IsFiniteSet(Callers) /\ NULL \notin Callers
ASSUME RequestsAssumption == NULL \notin Requests
ASSUME BoundsAssumption == MaxLinkFaults \in Nat /\ MaxGarbled \in Nat /\ MaxMallocFails \in Nat
                             /\ MaxWaits \in Nat
ASSUME MayDestroyAssumption == MayDestroy \in BOOLEAN

Slot == 0 .. NSlots - 1
AllSlots == 0 .. NSlots        \* the last one belongs to es_query_block
Piece == [req : Requests, kind : {"head", "end", "tail", "part", "rest"}]

VARIABLES
  is_run, is_over,
  insert_index, send_index, recv_index, call_index,
  free_num, send_num, recv_num, call_num,
  sta,              \* sta_ of every ring slot: 0 init, 1 send, 2 recv, 3 call back
  req,              \* request stored in a slot
  http,             \* request whose answer's head a slot has received
  mem,              \* pool of a slot: "live", "freed" (pointer kept), "null"
  asyn_mutex,       \* NULL or the caller that holds it
  apc, areq, aidx, aret,  \* callers: step, request, slot, last return value
  spc, sidx,        \* es_server_send
  rpc, ridx,        \* es_server_recv
  cpc, cidx,        \* es_asynchronous_callback
  dpc, didx, waits, \* es_server_destroy
  quiet,            \* history: not destroyed, or destroyed while nothing was under way
  es_fd,            \* FALSE once es_fd_ has been closed and set to 0
  link,             \* the connection is up
  inbox,            \* requests the server has not answered yet
  wire,             \* pieces sent by the server and not yet received
  an_buf,           \* pieces received and not yet analysed
  linkFaults, garbled, mallocFails,
  never,            \* history: stages that printed "never been here"
  crash,            \* history: a pool was used or freed after its end
  accepted,         \* history: requests for which 0 was returned, in order
  answered          \* history: the callbacks made, with what they were given

idx == <<insert_index, send_index, recv_index, call_index>>
sems == <<free_num, send_num, recv_num, call_num>>
slots == <<sta, req, http, mem>>
callers == <<asyn_mutex, apc, areq, aidx, aret>>
sender == <<spc, sidx>>
receiver == <<rpc, ridx, an_buf>>
caller == <<cpc, cidx>>
destroyer == <<dpc, didx, waits, quiet>>
net == <<es_fd, link, inbox, wire, linkFaults, garbled>>
hist == <<never, crash, accepted, answered>>
vars == <<is_run, is_over, idx, sems, slots, callers, sender, receiver, caller,
          destroyer, net, mallocFails, hist>>

(* Mutant: the wrap is tested one step too late.                           *)
AdvanceLate(i) == IF i + 1 > NSlots THEN 0 ELSE i + 1

(* Mutant: the index is never advanced.                                    *)
AdvanceStuck(i) == i

(* An index of the ring is advanced and wrapped.                           *)
Advance(i) == IF i + 1 >= NSlots THEN 0 ELSE i + 1

(* PERROR("never been here\n") of a stage that finds another status.       *)
Expect(stage, i, s) == never' = IF sta[i] = s THEN never ELSE never \cup {stage}

-----------------------------------------------------------------------------
(* es_query_asynchronous *)

(* A request without a path is refused with -3; is_run is looked at before *)
(* the mutex is taken.                                                     *)
Query(a, r) ==
  /\ apc[a] = "idle"
  /\ \A b \in Callers : areq[b] # r
  /\ r \notin Range(accepted)
  /\ \/ /\ is_run
        /\ apc' = [apc EXCEPT ![a] = "lock"]
        /\ areq' = [areq EXCEPT ![a] = r]
        /\ UNCHANGED aret
     \/ /\ \E c \in IF is_run THEN {-3} ELSE {-2, -3} : aret' = [aret EXCEPT ![a] = c]
        /\ UNCHANGED <<apc, areq>>
  /\ UNCHANGED <<is_run, is_over, idx, sems, slots, asyn_mutex, aidx, sender,
                 receiver, caller, destroyer, net, mallocFails, hist>>

LockAsyn(a) ==
  /\ apc[a] = "lock"
  /\ asyn_mutex = NULL
  /\ asyn_mutex' = a
  /\ apc' = [apc EXCEPT ![a] = "insert"]
  /\ UNCHANGED <<is_run, is_over, idx, sems, slots, areq, aidx, aret, sender,
                 receiver, caller, destroyer, net, mallocFails, hist>>

(* get_insert_index, waiting with the mutex held; a negative index returns *)
(* -2 and leaves the mutex locked.                                         *)
InsertIndex(a) ==
  /\ apc[a] = "insert"
  /\ free_num > 0
  /\ free_num' = free_num - 1
  /\ insert_index' = Advance(insert_index)
  /\ IF insert_index < 0
     THEN /\ apc' = [apc EXCEPT ![a] = "idle"]
          /\ areq' = [areq EXCEPT ![a] = NULL]
          /\ aret' = [aret EXCEPT ![a] = -2]
          /\ UNCHANGED <<aidx, never>>
     ELSE /\ apc' = [apc EXCEPT ![a] = "fill"]
          /\ aidx' = [aidx EXCEPT ![a] = insert_index]
          /\ Expect("insert", insert_index, 0)
          /\ UNCHANGED <<areq, aret>>
  /\ UNCHANGED <<is_run, is_over, send_index, recv_index, call_index, send_num,
                 recv_num, call_num, slots, asyn_mutex, sender, receiver, caller,
                 destroyer, net, mallocFails, crash, accepted, answered>>

(* The slot is filled from its pool, marked 1 and passed to the sender.    *)
FillSlot(a) ==
  /\ apc[a] = "fill"
  /\ req' = [req EXCEPT ![aidx[a]] = areq[a]]
  /\ sta' = [sta EXCEPT ![aidx[a]] = 1]
  /\ crash' = (crash \/ mem[aidx[a]] # "live")
  /\ send_num' = send_num + 1
  /\ asyn_mutex' = NULL
  /\ accepted' = Append(accepted, areq[a])
  /\ apc' = [apc EXCEPT ![a] = "idle"]
  /\ areq' = [areq EXCEPT ![a] = NULL]
  /\ aret' = [aret EXCEPT ![a] = 0]
  /\ UNCHANGED <<is_run, is_over, idx, free_num, recv_num, call_num, http, mem, aidx,
                 sender, receiver, caller, destroyer, net, mallocFails, never, answered>>

(* Mutant: insert_index is not stepped back.                               *)
FillFailsForward(a) ==
  /\ apc[a] = "fill"
  /\ mallocFails < MaxMallocFails
  /\ mallocFails' = mallocFails + 1
  /\ req' = [req EXCEPT ![aidx[a]] = NULL]
  /\ http' = [http EXCEPT ![aidx[a]] = NULL]
  /\ sta' = [sta EXCEPT ![aidx[a]] = 0]
  /\ crash' = (crash \/ mem[aidx[a]] # "live")
  /\ insert_index' = insert_index
  /\ free_num' = free_num + 1
  /\ asyn_mutex' = NULL
  /\ apc' = [apc EXCEPT ![a] = "idle"]
  /\ areq' = [areq EXCEPT ![a] = NULL]
  /\ aret' = [aret EXCEPT ![a] = -1]
  /\ UNCHANGED <<is_run, is_over, send_index, recv_index, call_index, send_num, recv_num,
                 call_num, mem, aidx, sender, receiver, caller, destroyer, net, never,
                 accepted, answered>>

(* error_out: an allocation failed; the slot is emptied, its pool reset,   *)
(* insert_index stepped back and the slot given back.                      *)
FillFails(a) ==
  /\ apc[a] = "fill"
  /\ mallocFails < MaxMallocFails
  /\ mallocFails' = mallocFails + 1
  /\ req' = [req EXCEPT ![aidx[a]] = NULL]
  /\ http' = [http EXCEPT ![aidx[a]] = NULL]
  /\ sta' = [sta EXCEPT ![aidx[a]] = 0]
  /\ crash' = (crash \/ mem[aidx[a]] # "live")
  /\ insert_index' = insert_index - 1
  /\ free_num' = free_num + 1
  /\ asyn_mutex' = NULL
  /\ apc' = [apc EXCEPT ![a] = "idle"]
  /\ areq' = [areq EXCEPT ![a] = NULL]
  /\ aret' = [aret EXCEPT ![a] = -1]
  /\ UNCHANGED <<is_run, is_over, send_index, recv_index, call_index, send_num, recv_num,
                 call_num, mem, aidx, sender, receiver, caller, destroyer, net, never,
                 accepted, answered>>

-----------------------------------------------------------------------------
(* es_server_send *)

(* get_send_index and the check of sta_                                    *)
SendIndex ==
  /\ spc = "wait"
  /\ send_num > 0
  /\ send_num' = send_num - 1
  /\ IF is_over
     THEN /\ spc' = "exit"
          /\ UNCHANGED <<sidx, send_index, never>>
     ELSE /\ spc' = "send"
          /\ sidx' = send_index
          /\ send_index' = Advance(send_index)
          /\ Expect("send", send_index, 1)
  /\ UNCHANGED <<is_run, is_over, insert_index, recv_index, call_index, free_num,
                 recv_num, call_num, slots, callers, receiver, caller, destroyer, net,
                 mallocFails, crash, accepted, answered>>

(* tcp_client_send: on a dead connection, or on descriptor 0, the error     *)
(* passes for a success.                                                   *)
SendRequest ==
  /\ spc = "send"
  /\ spc' = "post"
  /\ inbox' = IF link /\ es_fd THEN Append(inbox, req[sidx]) ELSE inbox
  /\ crash' = (crash \/ mem[sidx] # "live")
  /\ UNCHANGED <<is_run, is_over, idx, sems, slots, callers, sidx, receiver, caller,
                 destroyer, es_fd, link, wire, linkFaults, garbled, mallocFails, never, accepted, answered>>

(* sem_post(&recv_num) comes first ...                                     *)
SendPost ==
  /\ spc = "post"
  /\ spc' = "mark"
  /\ recv_num' = recv_num + 1
  /\ UNCHANGED <<is_run, is_over, idx, free_num, send_num, call_num, slots, callers,
                 sidx, receiver, caller, destroyer, net, mallocFails, hist>>

(* ... and p_res->sta_ = 2 after it.                                       *)
SendMark ==
  /\ spc = "mark"
  /\ spc' = "wait"
  /\ sta' = [sta EXCEPT ![sidx] = 2]
  /\ UNCHANGED <<is_run, is_over, idx, sems, req, http, mem, callers, sidx, receiver,
                 caller, destroyer, net, mallocFails, hist>>

-----------------------------------------------------------------------------
(* The server and the connection (external)                                *)

(* The server answers the oldest request it has.                           *)
ServerReply ==
  /\ link /\ inbox # <<>>
  /\ inbox' = Tail(inbox)
  /\ wire' = wire \o [k \in 1 .. 3 |-> [req |-> Head(inbox),
                                        kind |-> <<"head", "end", "tail">>[k]]]
  /\ UNCHANGED <<is_run, is_over, idx, sems, slots, callers, sender, receiver, caller,
                 destroyer, es_fd, link, linkFaults, garbled, mallocFails, hist>>

(* The connection is lost, with or without the answers under way.           *)
LoseLink ==
  /\ link
  /\ linkFaults < MaxLinkFaults
  /\ linkFaults' = linkFaults + 1
  /\ link' = FALSE
  /\ inbox' = <<>>
  /\ wire' \in {wire, <<>>}
  /\ UNCHANGED <<is_run, is_over, idx, sems, slots, callers, sender, receiver, caller,
                 destroyer, es_fd, garbled, mallocFails, hist>>

-----------------------------------------------------------------------------
(* es_server_recv *)

(* Positions of the pieces of a kind in a buffer.                          *)
At(buf, kind) == {i \in DOMAIN buf : buf[i].kind = kind}
Least(S) == CHOOSE i \in S : \A j \in S : i <= j
From(buf, i) == SubSeq(buf, i, Len(buf))

(* get_recv_index and the check of sta_; pieces left over are analysed at  *)
(* once when they are more than 85 bytes, which any complete answer is.    *)
(* Bytes are not counted: without an end they may be more or fewer.        *)
RecvIndex ==
  /\ rpc = "wait"
  /\ recv_num > 0
  /\ recv_num' = recv_num - 1
  /\ IF is_over
     THEN /\ rpc' = "exit"
          /\ UNCHANGED <<ridx, recv_index, never>>
     ELSE /\ ridx' = recv_index
          /\ recv_index' = Advance(recv_index)
          /\ Expect("recv", recv_index, 2)
          /\ \/ an_buf # <<>> /\ rpc' = "analyse"
             \/ At(an_buf, "end") = {} /\ rpc' = "recv"
  /\ UNCHANGED <<is_run, is_over, insert_index, send_index, call_index, free_num,
                 send_num, call_num, slots, callers, sender, an_buf, caller, destroyer,
                 net, mallocFails, crash, accepted, answered>>

(* What has been received behind what was left: a head that was cut in two *)
(* is a head again.                                                        *)
Joined(buf, new) ==
  IF Len(buf) \in At(buf, "part") /\ 1 \in At(new, "rest")
  THEN [buf EXCEPT ![Len(buf)].kind = "head"] \o From(new, 2)
  ELSE buf \o new

(* tcp_client_recv returns some of the bytes that have arrived ...         *)
RecvBytes ==
  /\ rpc = "recv"
  /\ es_fd
  /\ \E n \in 1 .. Len(wire) :
       /\ an_buf' = Joined(an_buf, SubSeq(wire, 1, n))
       /\ wire' = From(wire, n + 1)
  /\ rpc' = "analyse"
  /\ UNCHANGED <<is_run, is_over, idx, sems, slots, callers, sender, ridx, caller,
                 destroyer, es_fd, link, inbox, linkFaults, garbled, mallocFails, hist>>

(* ... and may stop inside the word HTTP of a head.                         *)
RecvCut ==
  /\ rpc = "recv"
  /\ es_fd
  /\ garbled < MaxGarbled
  /\ garbled' = garbled + 1
  /\ \E n \in At(wire, "head") :
       /\ an_buf' = Joined(an_buf, SubSeq(wire, 1, n - 1) \o <<[wire[n] EXCEPT !.kind = "part"]>>)
       /\ wire' = <<[wire[n] EXCEPT !.kind = "rest"]>> \o From(wire, n + 1)
  /\ rpc' = "analyse"
  /\ UNCHANGED <<is_run, is_over, idx, sems, slots, callers, sender, ridx, caller,
                 destroyer, es_fd, link, inbox, linkFaults, mallocFails, hist>>

(* The peer closed the connection: reconnect; ret is 0 then, so the slot   *)
(* goes to its callback with what it has.  Without a connection the thread *)
(* ends.                                                                   *)
RecvReconnect ==
  /\ rpc = "recv"
  /\ ~es_fd \/ (~link /\ wire = <<>>)
  /\ \/ es_fd /\ link' = TRUE /\ rpc' = "done"
     \/ link' = FALSE /\ rpc' = "exit"
  /\ UNCHANGED <<is_run, is_over, idx, sems, slots, callers, sender, ridx, an_buf,
                 caller, destroyer, es_fd, inbox, wire, linkFaults, garbled, mallocFails, hist>>

NextHeadPast(buf) == IF At(buf, "head") = {} THEN <<>> ELSE From(buf, Least(At(buf, "head")) + 1)

(* memory_char_move_bit after a complete answer: from the next head on.    *)
NextHead(buf) == IF At(buf, "head") = {} THEN <<>> ELSE From(buf, Least(At(buf, "head")))

(* analysis_es_recv_str on a buffer for a slot that has (h # NULL) or has  *)
(* not (h = NULL) its head: the slot's head afterwards, the return value   *)
(* and what is left in the buffer.                                         *)
Analysis(buf, h) ==
  IF h = NULL /\ At(buf, "head") = {}
  THEN [http |-> NULL, ret |-> -4, left |-> <<>>]
  ELSE LET head == IF h = NULL THEN buf[Least(At(buf, "head"))].req ELSE h
           body == IF h = NULL THEN From(buf, Least(At(buf, "head")) + 1) ELSE buf
       IN IF At(body, "end") = {}
          THEN [http |-> head, ret |-> 1, left |-> body]
          ELSE [http |-> head, ret |-> 0, left |-> NextHead(body)]

(* ret = 0: the answer is complete; 1 and -4: receive more for this slot.  *)
Analyse ==
  /\ rpc = "analyse"
  /\ LET r == Analysis(an_buf, http[ridx])
     IN /\ http' = [http EXCEPT ![ridx] = r.http]
        /\ an_buf' = r.left
        /\ rpc' = IF r.ret = 0 THEN "done" ELSE "recv"
        /\ crash' = (crash \/ (r.ret # -4 /\ mem[ridx] # "live"))
  /\ UNCHANGED <<is_run, is_over, idx, sems, sta, req, mem, callers, sender, ridx,
                 caller, destroyer, net, mallocFails, never, accepted, answered>>

(* ret = -1, an allocation failed: the service stops and the thread ends.  *)
AnalyseFails ==
  /\ rpc = "analyse"
  /\ mallocFails < MaxMallocFails
  /\ mallocFails' = mallocFails + 1
  /\ is_run' = FALSE
  /\ rpc' = "exit"
  /\ UNCHANGED <<is_over, idx, sems, slots, callers, sender, ridx, an_buf, caller,
                 destroyer, net, hist>>

(* ret = -2, the body is not what the parser expects: the slot goes to its *)
(* callback with what it has, and the buffer moves on to the next head.    *)
AnalyseBad ==
  /\ rpc = "analyse"
  /\ LET r == Analysis(an_buf, http[ridx])
     IN /\ r.ret # -4
        /\ http' = [http EXCEPT ![ridx] = r.http]
        /\ an_buf' = IF r.ret = 0 THEN r.left ELSE NextHead(r.left)
  /\ garbled < MaxGarbled
  /\ garbled' = garbled + 1
  /\ rpc' = "done"
  /\ crash' = (crash \/ mem[ridx] # "live")
  /\ UNCHANGED <<is_run, is_over, idx, sems, sta, req, mem, callers, sender, ridx, caller,
                 destroyer, es_fd, link, inbox, wire, linkFaults, mallocFails, never,
                 accepted, answered>>

(* The top of the loop with ret = 0: sta_ = 3, sem_post(&call_num).        *)
RecvDone ==
  /\ rpc = "done"
  /\ rpc' = "wait"
  /\ sta' = [sta EXCEPT ![ridx] = 3]
  /\ call_num' = call_num + 1
  /\ UNCHANGED <<is_run, is_over, idx, free_num, send_num, recv_num, req, http, mem,
                 callers, sender, ridx, an_buf, caller, destroyer, net, mallocFails, hist>>

-----------------------------------------------------------------------------
(* es_asynchronous_callback and inside_release_es_respond *)

CallIndex ==
  /\ cpc = "wait"
  /\ call_num > 0
  /\ call_num' = call_num - 1
  /\ IF is_over
     THEN /\ cpc' = "exit"
          /\ es_fd' = FALSE
          /\ UNCHANGED <<cidx, call_index, never>>
     ELSE /\ cpc' = "call"
          /\ cidx' = call_index
          /\ call_index' = Advance(call_index)
          /\ Expect("call", call_index, 3)
          /\ UNCHANGED es_fd
  /\ UNCHANGED <<is_run, is_over, insert_index, send_index, recv_index, free_num,
                 send_num, recv_num, slots, callers, sender, receiver, destroyer, link,
                 inbox, wire, linkFaults, garbled, mallocFails, crash, accepted, answered>>

(* p_res->call_(p_res), if there is a call_: it sees the slot's answer.    *)
CallBack ==
  /\ cpc = "call"
  /\ cpc' = "release"
  /\ answered' = IF req[cidx] = NULL THEN answered
                 ELSE Append(answered, [req |-> req[cidx], http |-> http[cidx]])
  /\ crash' = (crash \/ mem[cidx] # "live")
  /\ UNCHANGED <<is_run, is_over, idx, sems, slots, callers, sender, receiver, cidx,
                 destroyer, net, mallocFails, never, accepted>>

(* The slot is emptied and marked 0.                                       *)
ReleaseSlot ==
  /\ cpc = "release"
  /\ cpc' = "pool"
  /\ Expect("release", cidx, 3)
  /\ sta' = [sta EXCEPT ![cidx] = 0]
  /\ req' = [req EXCEPT ![cidx] = NULL]
  /\ http' = [http EXCEPT ![cidx] = NULL]
  /\ UNCHANGED <<is_run, is_over, idx, sems, mem, callers, sender, receiver, cidx,
                 destroyer, net, mallocFails, crash, accepted, answered>>

(* Its pool is reset, or freed when the service has stopped ...            *)
ReleasePool ==
  /\ cpc = "pool"
  /\ cpc' = IF is_run THEN "free" ELSE "unset"
  /\ crash' = (crash \/ mem[cidx] # "live")
  /\ mem' = IF is_run THEN mem ELSE [mem EXCEPT ![cidx] = "freed"]
  /\ UNCHANGED <<is_run, is_over, idx, sems, sta, req, http, callers, sender, receiver,
                 cidx, destroyer, net, mallocFails, never, accepted, answered>>

(* ... and the pointer cleared.                                            *)
ReleaseUnset ==
  /\ cpc = "unset"
  /\ cpc' = "free"
  /\ mem' = [mem EXCEPT ![cidx] = "null"]
  /\ UNCHANGED <<is_run, is_over, idx, sems, sta, req, http, callers, sender, receiver,
                 cidx, destroyer, net, mallocFails, hist>>

(* Mutant: the slot is not given back.                                     *)
ReleaseFreeNever ==
  /\ cpc = "free"
  /\ cpc' = "wait"
  /\ free_num' = free_num
  /\ UNCHANGED <<is_run, is_over, idx, send_num, recv_num, call_num, slots, callers,
                 sender, receiver, cidx, destroyer, net, mallocFails, hist>>

(* sem_post(&free_num), unless the service has stopped.                    *)
ReleaseFree ==
  /\ cpc = "free"
  /\ cpc' = "wait"
  /\ free_num' = IF is_run THEN free_num + 1 ELSE free_num
  /\ UNCHANGED <<is_run, is_over, idx, send_num, recv_num, call_num, slots, callers,
                 sender, receiver, cidx, destroyer, net, mallocFails, hist>>

-----------------------------------------------------------------------------
(* es_server_destroy *)

Idle == /\ \A a \in Callers : apc[a] = "idle"
        /\ send_num = 0 /\ recv_num = 0 /\ call_num = 0
        /\ spc \in {"wait", "exit"} /\ rpc \in {"wait", "exit"} /\ cpc \in {"wait", "exit"}

(* Mutant: is_run stays set.                                               *)
StopRunKeepsRunning ==
  /\ MayDestroy
  /\ dpc = "none"
  /\ dpc' = "slot"
  /\ quiet' = Idle
  /\ is_run' = is_run
  /\ UNCHANGED <<is_over, idx, sems, slots, callers, sender, receiver, caller, didx,
                 waits, net, mallocFails, hist>>

StopRun ==
  /\ MayDestroy
  /\ dpc = "none"
  /\ dpc' = "slot"
  /\ quiet' = Idle
  /\ is_run' = FALSE
  /\ UNCHANGED <<is_over, idx, sems, slots, callers, sender, receiver, caller, didx,
                 waits, net, mallocFails, hist>>

(* A slot that is not 0 is given a second, error_time times at most.       *)
WaitSlot ==
  /\ dpc = "slot" /\ didx < NSlots
  /\ sta[didx] # 0
  /\ waits < MaxWaits
  /\ waits' = waits + 1
  /\ UNCHANGED <<is_run, is_over, idx, sems, slots, callers, sender, receiver, caller,
                 dpc, didx, quiet, net, mallocFails, hist>>

(* Mutant: a slot is waited for without end.                               *)
FreeSlotWaits ==
  /\ dpc = "slot"
  /\ didx < NSlots => sta[didx] = 0
  /\ IF mem[didx] = "null"
     THEN UNCHANGED <<mem, crash>>
     ELSE /\ crash' = (crash \/ mem[didx] = "freed")
          /\ mem' = [mem EXCEPT ![didx] = "freed"]
  /\ dpc' = "unset"
  /\ UNCHANGED <<is_run, is_over, idx, sems, sta, req, http, callers, sender, receiver,
                 caller, didx, waits, quiet, net, mallocFails, never, accepted, answered>>

(* Then its pool is freed if there is one ...                              *)
FreeSlot ==
  /\ dpc = "slot"
  /\ didx < NSlots => sta[didx] = 0 \/ waits = MaxWaits
  /\ IF mem[didx] = "null"
     THEN UNCHANGED <<mem, crash>>
     ELSE /\ crash' = (crash \/ mem[didx] = "freed")
          /\ mem' = [mem EXCEPT ![didx] = "freed"]
  /\ dpc' = "unset"
  /\ UNCHANGED <<is_run, is_over, idx, sems, sta, req, http, callers, sender, receiver,
                 caller, didx, waits, quiet, net, mallocFails, never, accepted, answered>>

(* ... and the pointer cleared; es_query_block's slot is the last.         *)
UnsetSlot ==
  /\ dpc = "unset"
  /\ mem' = [mem EXCEPT ![didx] = "null"]
  /\ waits' = 0
  /\ didx' = IF didx < NSlots THEN didx + 1 ELSE didx
  /\ dpc' = IF didx < NSlots THEN "slot" ELSE "over"
  /\ UNCHANGED <<is_run, is_over, idx, sems, sta, req, http, callers, sender, receiver,
                 caller, quiet, net, mallocFails, hist>>

(* Mutant: es_server_send gets no post.                                    *)
SetOverNoSend ==
  /\ dpc = "over"
  /\ dpc' = "done"
  /\ is_over' = TRUE
  /\ send_num' = send_num
  /\ recv_num' = recv_num + 1
  /\ call_num' = call_num + 1
  /\ es_fd' = FALSE
  /\ UNCHANGED <<is_run, idx, free_num, slots, callers, sender, receiver, caller, didx,
                 waits, quiet, link, inbox, wire, linkFaults, garbled, mallocFails, hist>>

(* is_over, one post for each of the three stages, and the socket closed   *)
SetOver ==
  /\ dpc = "over"
  /\ dpc' = "done"
  /\ is_over' = TRUE
  /\ send_num' = send_num + 1
  /\ recv_num' = recv_num + 1
  /\ call_num' = call_num + 1
  /\ es_fd' = FALSE
  /\ UNCHANGED <<is_run, idx, free_num, slots, callers, sender, receiver, caller, didx,
                 waits, quiet, link, inbox, wire, linkFaults, garbled, mallocFails, hist>>

-----------------------------------------------------------------------------
(* The state after es_server_init succeeded and the three stages started.  *)
Init ==
  /\ is_run = TRUE /\ is_over = FALSE
  /\ insert_index = 0 /\ send_index = 0 /\ recv_index = 0 /\ call_index = 0
  /\ free_num = NSlots /\ send_num = 0 /\ recv_num = 0 /\ call_num = 0
  /\ sta = [i \in Slot |-> 0]
  /\ req = [i \in Slot |-> NULL] /\ http = [i \in Slot |-> NULL]
  /\ mem = [i \in AllSlots |-> "live"]
  /\ asyn_mutex = NULL
  /\ apc = [a \in Callers |-> "idle"]
  /\ areq = [a \in Callers |-> NULL]
  /\ aidx = [a \in Callers |-> 0]
  /\ aret = [a \in Callers |-> 0]
  /\ spc = "wait" /\ sidx = 0
  /\ rpc = "wait" /\ ridx = 0 /\ an_buf = <<>>
  /\ cpc = "wait" /\ cidx = 0
  /\ dpc = "none" /\ didx = 0 /\ waits = 0 /\ quiet = TRUE
  /\ es_fd = TRUE /\ link = TRUE /\ inbox = <<>> /\ wire = <<>> /\ linkFaults = 0 /\ garbled = 0
  /\ mallocFails = 0
  /\ never = {} /\ crash = FALSE /\ accepted = <<>>
  /\ answered = <<>>

Caller(a) == LockAsyn(a) \/ InsertIndex(a) \/ FillSlot(a)
Sender == SendIndex \/ SendRequest \/ SendPost \/ SendMark
Receiver == RecvIndex \/ RecvBytes \/ RecvReconnect \/ Analyse \/ RecvDone
CallbackThread == CallIndex \/ CallBack \/ ReleaseSlot \/ ReleasePool \/ ReleaseUnset \/ ReleaseFree
Destroyer == WaitSlot \/ FreeSlot \/ UnsetSlot \/ SetOver

Next == /\ ~crash
        /\ \/ \E a \in Callers, r \in Requests : Query(a, r)
           \/ \E a \in Callers : Caller(a) \/ FillFails(a)
           \/ Sender \/ Receiver \/ RecvCut \/ AnalyseBad \/ AnalyseFails \/ CallbackThread
           \/ ServerReply \/ LoseLink
           \/ StopRun \/ Destroyer

(* Every thread that can run does, the server answers, and callbacks       *)
(* return.  Nothing is assumed of who queries, of faults or of destroy.    *)
Fairness == /\ \A a \in Callers : WF_vars(~crash /\ Caller(a))
            /\ WF_vars(~crash /\ Sender)
            /\ WF_vars(~crash /\ Receiver)
            /\ WF_vars(~crash /\ CallbackThread)
            /\ WF_vars(~crash /\ ServerReply)
            /\ WF_vars(~crash /\ Destroyer)

Spec == Init /\ [][Next]_vars
FairSpec == Spec /\ Fairness
-----------------------------------------------------------------------------
(* Type correctness of es_info and of every thread's locals, and of the    *)
(* slots, the connection and the histories.                                *)
ControlTypeOK ==
  /\ is_run \in BOOLEAN /\ is_over \in BOOLEAN
  /\ insert_index \in -1 .. NSlots - 1
  /\ send_index \in Slot /\ recv_index \in Slot /\ call_index \in Slot
  /\ free_num \in Nat /\ send_num \in Nat /\ recv_num \in Nat /\ call_num \in Nat
  /\ asyn_mutex \in Callers \cup {NULL}
  /\ apc \in [Callers -> {"idle", "lock", "insert", "fill"}]
  /\ areq \in [Callers -> Requests \cup {NULL}]
  /\ aidx \in [Callers -> Slot]
  /\ aret \in [Callers -> {0, -1, -2, -3}]
  /\ spc \in {"wait", "send", "post", "mark", "exit"} /\ sidx \in Slot
  /\ rpc \in {"wait", "recv", "analyse", "done", "exit"} /\ ridx \in Slot
  /\ cpc \in {"wait", "call", "release", "pool", "unset", "free", "exit"} /\ cidx \in Slot
  /\ dpc \in {"none", "slot", "unset", "over", "done"} /\ didx \in AllSlots
  /\ waits \in 0 .. MaxWaits
  /\ linkFaults \in 0 .. MaxLinkFaults /\ mallocFails \in 0 .. MaxMallocFails
  /\ garbled \in 0 .. MaxGarbled

DataTypeOK ==
  /\ sta \in [Slot -> 0 .. 3]
  /\ req \in [Slot -> Requests \cup {NULL}] /\ http \in [Slot -> Requests \cup {NULL}]
  /\ mem \in [AllSlots -> {"live", "freed", "null"}]
  /\ quiet \in BOOLEAN /\ es_fd \in BOOLEAN /\ link \in BOOLEAN
  /\ inbox \in Seq(Requests) /\ wire \in Seq(Piece) /\ an_buf \in Seq(Piece)
  /\ never \in SUBSET {"insert", "send", "recv", "call", "release"}
  /\ crash \in BOOLEAN
  /\ accepted \in Seq(Requests)
  /\ answered \in Seq([req : Requests, http : Requests \cup {NULL}])

TypeOK == ControlTypeOK /\ DataTypeOK

(* The stages that have a slot in their hands.  The sender passes its slot *)
(* on with its post and yet writes to it once more, at "mark".             *)
Filling == {a \in Callers : apc[a] = "fill"}
Sending == IF spc \in {"send", "post"} THEN 1 ELSE 0
Receiving == IF rpc \in {"recv", "analyse", "done"} THEN 1 ELSE 0
Calling == IF cpc \in {"call", "release", "pool", "unset", "free"} THEN 1 ELSE 0
InRing == free_num + send_num + recv_num + call_num
          + Cardinality(Filling) + Sending + Receiving + Calling

(* The four semaphores never hand out a slot twice, and as long as nothing *)
(* failed and the service runs none is lost either (get_*_index, sem_post).*)
Accounting ==
  ~is_over => /\ InRing <= NSlots
              /\ is_run /\ linkFaults = 0 /\ mallocFails = 0 => InRing = NSlots

(* Callers, receiver and callback thread never work on the same slot, and  *)
(* the sender shares its slot with one of them only for its last write,    *)
(* sta_ = 2 after the post (line 1510): the indices, which each stage      *)
(* advances without a lock, stay behind each other all round the ring,     *)
(* also after failed allocations, lost connections and cut answers.        *)
MeetOnlyAtMark ==
  ~is_over =>
    /\ \A a, b \in Filling : a = b
    /\ \A a \in Filling : /\ Receiving = 1 => aidx[a] # ridx
                          /\ Calling = 1 => aidx[a] # cidx
    /\ Receiving = 1 /\ Calling = 1 => ridx # cidx
    /\ spc \in {"send", "post", "mark"} =>
         \/ spc = "mark"
         \/ /\ \A a \in Filling : aidx[a] # sidx
            /\ Receiving = 1 => ridx # sidx
            /\ Calling = 1 => cidx # sidx

(* The order behind it, read round the ring from call_index: the           *)
(* slots to call back, the receiver's, those to receive, the sender's,     *)
(* those to send, the caller's, the free ones, the callback's.             *)
Plus(i, k) == IF i + k >= NSlots THEN i + k - NSlots ELSE i + k
Received == IF rpc \in {"recv", "analyse", "done", "exit"} THEN 1 ELSE 0
Held == asyn_mutex # NULL /\ apc[asyn_mutex] \in {"idle", "lock"}

RingOrder ==
  ~is_over =>
    /\ InRing + Received - Receiving <= NSlots
    /\ Calling = 1 => call_index = Plus(cidx, 1)
    /\ Received = 1 => ridx = Plus(call_index, call_num)
    /\ recv_index = Plus(call_index, call_num + Received)
    /\ Sending = 1 => sidx = Plus(recv_index, recv_num)
    /\ send_index = Plus(recv_index, recv_num + Sending)
    /\ \A a \in Filling : aidx[a] = Plus(send_index, send_num)
    /\ \/ Held /\ Filling = {}
       \/ insert_index = Plus(send_index, send_num + Cardinality(Filling))
       \/ insert_index = -1 /\ Filling = {} /\ Plus(send_index, send_num) = NSlots - 1

(* Only the holder of asyn_mutex is between its lock and its unlock.       *)
OneCaller == \A a \in Callers : apc[a] \in {"insert", "fill"} => asyn_mutex = a

(* Nothing has happened that can take bytes of an answer away.             *)
StreamWhole == linkFaults = 0 /\ garbled = 0

(* Until a connection is lost, a recv stops inside the word HTTP or a body *)
(* is refused, callbacks are made in the order of the requests and each is *)
(* given the answer to its own request, however many answers or parts of   *)
(* one a recv brings and whatever is left over in an_buf.  The premise is  *)
(* needed: the first letters of a head behind the end of an answer are     *)
(* thrown away (lines 1400-1404), its answer is never found, and all later *)
(* answers go to the request before theirs.                                *)
InOrderUntilLoss ==
  StreamWhole =>
    /\ Len(answered) <= Len(accepted)
    /\ \A k \in DOMAIN answered : answered[k] = [req |-> accepted[k], http |-> accepted[k]]

(* No slot is analysed without a head: -4 "res head is null but must no    *)
(* null" (line 1416).  It is not an invariant: the tail of an answer that  *)
(* arrives after its end was read, and the rest of a cut head, come alone. *)
HeadNotNull == rpc = "analyse" => Analysis(an_buf, http[ridx]).ret # -4

(* A stage never finds a slot in another state than the one it expects:    *)
(* the PERROR("never been here") of lines 1452, 1494, 1537, 1600 and 1813. *)
(* It is not an invariant: the sender posts recv_num before it sets sta_,  *)
(* and the receiver may take the slot between the two.  ServesInOrder      *)
(* holds all the same: while the service runs nothing but the message      *)
(* depends on sta_.                                                        *)
NeverBeenHere == never = {}

(* es_query_asynchronous returns -2 only when the server is stopped        *)
(* (its comment, line 1792).  It is not an invariant: an allocation that   *)
(* fails in the last slot takes the index from 0 to -1, and the next call  *)
(* returns -2.                                                             *)
StopMeansStopped == \A a \in Callers : aret[a] = -2 => ~is_run

(* Without destroy no pool is used after its end, and destroying the       *)
(* service while nothing is under way frees every pool once.               *)
QuietShutdown == quiet => ~crash

(* es_server_destroy does not wait for ever for a slot ...                 *)
DestroyReturns == dpc # "none" ~> (crash \/ dpc = "done")

(* ... and after it the send and callback threads end.                     *)
StagesEnd == is_over ~> (crash \/ (spc = "exit" /\ cpc = "exit"))

Service == INSTANCE EsService

=============================================================================
