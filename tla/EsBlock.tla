------------------------------- MODULE EsBlock -------------------------------
(* The synchronous half of src/module_function/es_http_api.c: callers of    *)
(* es_query_block share one connection and the last slot of es_res_array.   *)
(* A call that answers leaves bloc_mutex locked, until the caller has read  *)
(* the slot and calls release_es_respond.  A call reads the connection only *)
(* up to the "]" that ends its answer (line 1351) into a buffer of its own: *)
(* bytes behind it that have come already are thrown away with the buffer,  *)
(* and those that come later are left to the next call.                     *)
EXTENDS Integers, Sequences, FiniteSets

CONSTANTS
    Callers,    \* threads that call es_query_block
    NULL,
    Pieces,     \* pieces the bytes of an answer come in; the first one has the head
    EndPiece,   \* the piece with the "]" that ends the answer for the parser
    MaxBehind,  \* bound: calls that end before their answer has been read off
    MaxFaults,  \* bound: failed allocations, lost connections, bad answers
    MayDestroy  \* es_server_destroy is called

ASSUME BlockAssumption ==
    /\ NULL \notin Callers /\ Pieces \in Nat \ {0} /\ EndPiece \in 1 .. Pieces
    /\ MaxBehind \in Nat /\ MaxFaults \in Nat /\ MayDestroy \in BOOLEAN

(* The first n pieces of the answer to a caller's request; number 0 is      *)
(* kept for what is left of a piece that a recv has cut.                    *)
Answer(c, n) == [i \in 1 .. n |-> [of |-> c, no |-> i]]

VARIABLES
    is_run,      \* es_info.is_run
    bloc_mutex,  \* its holder, NULL when free
    mem,         \* pool of the slot: "live", "freed", "null"
    resp,        \* the pieces that have been parsed into the slot
    pc,          \* per caller: where it is
    link,        \* the connection es_fd_b
    server,      \* requests the server has not answered yet
    wire,        \* pieces on their way to the client
    dpc,         \* es_server_destroy: "none", "stop", "freed", "unlink", "done"
    faults,      \* number of faults so far
    behind,      \* history: calls that ended before their answer was read off
    quiet,       \* history: no call was under way when destroy was called
    crash        \* history: freed or null memory, or a destroyed lock was used

vars == <<is_run, bloc_mutex, mem, resp, pc, link, server, wire, dpc, faults, behind, quiet,
          crash>>

net     == <<link, server, wire>>
service == <<is_run, dpc, quiet>>

Init ==
    /\ is_run = TRUE /\ bloc_mutex = NULL
    /\ mem = "live" /\ resp = <<>>
    /\ pc = [c \in Callers |-> "idle"]
    /\ link = "up" /\ server = <<>> /\ wire = <<>>
    /\ dpc = "none" /\ faults = 0 /\ behind = 0
    /\ quiet = TRUE /\ crash = FALSE

At(c, l)   == pc[c] = l /\ ~crash
Goto(c, l) == pc' = [pc EXCEPT ![c] = l]
Fault      == faults < MaxFaults /\ faults' = faults + 1

(* The step works on the pool of the slot; without one it is the last.      *)
UsesPool == crash' = (mem # "live")

-----------------------------------------------------------------------------
(* es_query_block *)

(* is_run is tested before the lock is taken; a stopped service answers     *)
(* NULL at once.                                                            *)
Query(c) ==
    /\ At(c, "idle") /\ is_run
    /\ Goto(c, "lock")
    /\ UNCHANGED <<bloc_mutex, mem, resp, net, service, faults, behind, crash>>

LockBloc(c) ==
    /\ At(c, "lock") /\ bloc_mutex = NULL
    /\ bloc_mutex' = c
    /\ Goto(c, "make")
    /\ crash' = (dpc = "done")
    /\ UNCHANGED <<mem, resp, net, service, faults, behind>>

(* The request is built in memory of the slot's pool.                       *)
MakeRequest(c) ==
    /\ At(c, "make")
    /\ UsesPool
    /\ Goto(c, "send")
    /\ UNCHANGED <<bloc_mutex, mem, resp, net, service, faults, behind>>

(* error_out: the caller is answered NULL, and bloc_mutex stays locked.     *)
ErrorOut(c) ==
    /\ Goto(c, "idle")
    /\ UNCHANGED <<bloc_mutex, mem, resp, service, behind, crash>>

MakeFails(c) ==
    /\ At(c, "make") /\ mem = "live"
    /\ Fault /\ ErrorOut(c)
    /\ UNCHANGED net

(* tcp_client_send never returns 0: a request that cannot be sent is lost.  *)
SendRequest(c) ==
    /\ At(c, "send")
    /\ server' = IF link = "up" THEN Append(server, c) ELSE server
    /\ Goto(c, "recv")
    /\ UNCHANGED <<bloc_mutex, mem, resp, link, wire, service, faults, behind, crash>>

(* analysis_es_recv_str on what has come, for a slot that has parsed r: the *)
(* pieces before a head are skipped, those behind the end are not looked    *)
(* at.  Without any head nothing is parsed (-4).                            *)
PiecesNo(s, n) == {i \in DOMAIN s : s[i].no = n}
Least(S) == CHOOSE i \in S : \A j \in S : i <= j

Found(r, got) ==
    IF r # <<>> THEN r \o got
    ELSE IF PiecesNo(got, 1) = {} THEN <<>> ELSE SubSeq(got, Least(PiecesNo(got, 1)), Len(got))

Ended(s) == PiecesNo(s, EndPiece) # {}

Parsed(r, got) ==
    LET s == Found(r, got)
    IN IF Ended(s) THEN SubSeq(s, 1, Least(PiecesNo(s, EndPiece))) ELSE s

(* Bytes of an answer are still to come off the connection.                 *)
Owed(w) == w # <<>> \/ server # <<>>

(* Some of the pieces have come: the call goes on (ret = 1) until it has    *)
(* met the end of the answer (ret = 0); pieces without a head are handed    *)
(* to the caller as an empty answer (-4).                                   *)
RecvBytes(c) ==
    /\ At(c, "recv") /\ link = "up"
    /\ \E k \in 1 .. Len(wire) :
         /\ resp' = Parsed(resp, SubSeq(wire, 1, k))
         /\ wire' = SubSeq(wire, k + 1, Len(wire))
    /\ crash' = (resp' # <<>> /\ mem # "live")
    /\ \/ ~Ended(resp') /\ resp' # <<>> /\ Goto(c, "recv")
       \/ /\ Ended(resp') \/ resp' = <<>>
          /\ Goto(c, "hold")
          /\ Owed(wire') => behind < MaxBehind
    /\ UNCHANGED <<bloc_mutex, mem, link, server, service, faults, behind>>

(* An answer that cannot be parsed, or whose first letters come alone, is   *)
(* handed to the caller as it is; the rest of it stays on the connection.   *)
RecvBad(c) ==
    /\ At(c, "recv") /\ link = "up"
    /\ Fault
    /\ \E k \in 1 .. Len(wire) :
         LET rest == SubSeq(wire, k, Len(wire))
         IN wire' \in {Tail(rest), [rest EXCEPT ![1].no = 0]}
    /\ UsesPool
    /\ Goto(c, "hold")
    /\ UNCHANGED <<bloc_mutex, mem, resp, link, server, service, behind>>

(* recv fails: the connection is made again and the call waits on, without  *)
(* sending its request a second time ...                                    *)
Reconnect(c) ==
    /\ At(c, "recv") /\ link = "down"
    /\ link' = "up"
    /\ UNCHANGED <<bloc_mutex, mem, resp, pc, server, wire, service, faults, behind, crash>>

(* ... or it cannot be made.                                                *)
ReconnectFails(c) ==
    /\ At(c, "recv") /\ link = "down"
    /\ Fault /\ ErrorOut(c)
    /\ UNCHANGED net

-----------------------------------------------------------------------------
(* release_es_respond *)

(* Mutant: the slot is not emptied.                                         *)
ReleasePoolKeeps(c) ==
    /\ At(c, "hold")
    /\ behind' = IF Owed(wire) THEN behind + 1 ELSE behind
    /\ Goto(c, "unlock")
    /\ UNCHANGED <<bloc_mutex, mem, resp, net, service, faults, crash>>

(* The slot is emptied and its pool reset, or destroyed when the service    *)
(* has been stopped meanwhile.                                              *)
ReleasePool(c) ==
    /\ At(c, "hold")
    /\ resp' = <<>>
    /\ UsesPool
    /\ mem' = IF is_run \/ mem # "live" THEN mem ELSE "freed"
    /\ behind' = IF Owed(wire) THEN behind + 1 ELSE behind
    /\ Goto(c, "unlock")
    /\ UNCHANGED <<bloc_mutex, net, service, faults>>


ReleaseUnlock(c) ==
    /\ At(c, "unlock")
    /\ mem' = IF mem = "freed" THEN "null" ELSE mem
    /\ bloc_mutex' = NULL
    /\ crash' = (dpc = "done")
    /\ Goto(c, "idle")
    /\ UNCHANGED <<resp, net, service, faults, behind>>

-----------------------------------------------------------------------------
(* es_server_destroy: es_query_block never sets sta_ of its slot, so that   *)
(* destroy takes it for free and does not wait.                             *)

(* Mutant: the service is not marked as stopped.                            *)
SetStopRunning ==
    /\ MayDestroy /\ dpc = "none" /\ ~crash
    /\ quiet' = \A c \in Callers : pc[c] = "idle"
    /\ dpc' = "stop"
    /\ UNCHANGED <<is_run, bloc_mutex, mem, resp, pc, net, faults, behind, crash>>

SetStop ==
    /\ MayDestroy /\ dpc = "none" /\ ~crash
    /\ is_run' = FALSE
    /\ quiet' = \A c \in Callers : pc[c] = "idle"
    /\ dpc' = "stop"
    /\ UNCHANGED <<bloc_mutex, mem, resp, pc, net, faults, behind, crash>>

DestroyPool ==
    /\ dpc = "stop" /\ ~crash
    /\ crash' = (mem = "freed")
    /\ mem' = IF mem = "live" THEN "freed" ELSE mem
    /\ dpc' = "freed"
    /\ UNCHANGED <<is_run, bloc_mutex, resp, pc, net, faults, behind, quiet>>

ClearPool ==
    /\ dpc = "freed" /\ ~crash
    /\ mem' = "null"
    /\ dpc' = "unlink"
    /\ UNCHANGED <<is_run, bloc_mutex, resp, pc, net, faults, behind, quiet, crash>>

(* The locks are destroyed and the connections closed.                      *)
DestroyLocks ==
    /\ dpc = "unlink" /\ ~crash
    /\ dpc' = "done"
    /\ link' = "down" /\ wire' = <<>> /\ server' = <<>>
    /\ UNCHANGED <<is_run, bloc_mutex, mem, resp, pc, faults, behind, quiet, crash>>

-----------------------------------------------------------------------------
(* The server at the other end and the connection to it (external).         *)

ServerReply ==
    /\ server # <<>> /\ link = "up" /\ ~crash
    /\ wire' = wire \o Answer(Head(server), Pieces)
    /\ server' = Tail(server)
    /\ UNCHANGED <<bloc_mutex, mem, resp, pc, link, service, faults, behind, crash>>

LoseLink ==
    /\ link = "up" /\ ~crash /\ Fault
    /\ link' = "down" /\ server' = <<>> /\ wire' = <<>>
    /\ UNCHANGED <<bloc_mutex, mem, resp, pc, service, behind, crash>>

-----------------------------------------------------------------------------
Step(c) ==
    \/ LockBloc(c) \/ MakeRequest(c) \/ SendRequest(c) \/ RecvBytes(c) \/ Reconnect(c)
    \/ ReleasePool(c) \/ ReleaseUnlock(c)

Fails(c) == MakeFails(c) \/ RecvBad(c) \/ ReconnectFails(c)

Destroy == SetStop \/ DestroyPool \/ ClearPool \/ DestroyLocks

Next ==
    \/ \E c \in Callers : Query(c) \/ Step(c) \/ Fails(c)
    \/ Destroy \/ ServerReply \/ LoseLink

(* Threads run, a caller gives the answer back, and a connected server      *)
(* answers.  Nobody is forced to ask or to call destroy, and the lock may   *)
(* go to the same caller again and again.                                   *)
Fairness == WF_vars(ServerReply) /\ \A c \in Callers : WF_vars(Step(c))

Spec == Init /\ [][Next]_vars /\ Fairness

-----------------------------------------------------------------------------
(* Properties *)

Inside(c) == pc[c] \in {"make", "send", "recv", "hold", "unlock"}

(* A caller that has been given the slot keeps it to itself until it        *)
(* releases it (lines 1709 to 1695), and finds its own answer in it, from   *)
(* the head to the end and nothing else, as long as no connection was lost, *)
(* no answer was bad and no earlier call ended before its answer had been   *)
(* read off the connection.  The premise is needed: the "}}" behind    *)
(* the "]" may come with a later recv, the next call takes it for its       *)
(* answer (-4) and returns, and every call after it is given the answer to  *)
(* an earlier request.                                                      *)
OwnAnswer ==
    /\ \A c, d \in Callers : Inside(c) /\ Inside(d) => c = d
    /\ faults = 0 /\ behind = 0 =>
         \A c \in Callers : pc[c] = "hold" => resp = Answer(c, EndPiece)

(* Destroying the service while no call is under way uses nothing it has    *)
(* freed, whatever calls come later.                                        *)
QuietDestroy == quiet => ~crash

(* As long as nothing fails and nobody destroys the service, callers that   *)
(* wait for the lock do not wait in vain: one of them gets an answer.       *)
(* After one failed call the lock is never free again (error_out, line      *)
(* 1785).                                                                   *)
Undisturbed == faults = 0 /\ dpc = "none"

=============================================================================
