------------------------------ MODULE PortScan ------------------------------
(* The scanning part of src/portscan: the job queue, the threads that probe *)
(* (ps_threaded) or the single loop on a capture session (ps_default), and  *)
(* the two lists every thread adds to without a lock, the results           *)
(* (push_result) and the service versions (push_servver_result).            *)
(*                                                                          *)
(* The network is external: a target answers a probe by its state, the      *)
(* answer may come in time, after the prober has given up, or never, and    *)
(* other traffic of the machine reaches the raw sockets as well.            *)
EXTENDS ScanSetup, TLC

CONSTANTS
    Threads,         \* thread numbers of the pool, 0 .. no_of_threads - 1
    Modes,           \* subset of {"default", "threaded"}: no_of_threads = 0 or not
    Setups,          \* the command lines: ips, prefix, ports and scans
    PortArgs,        \* the range of ports when --ports is not given: 1-1024
    Truth(_, _),     \* state of a port: "open", "closed", "silent", "filtered"
                     \* (its ICMP message has a code that is known) or "cut" (one that is not)
    VersionPorts,    \* the ports with version detection, serv_ports
    MAX_RETRY_COUNT, \* ps_scan.c: 3
    TIME_OUT,        \* seconds poll waits at first: 4
    MaxStray         \* bound: packets and poll errors that are not an answer

ASSUME RetryAssumption == MAX_RETRY_COUNT \in Nat /\ TIME_OUT \in Nat \ {0} /\ MaxStray \in Nat
ASSUME ModesAssumption == Modes \subseteq {"default", "threaded"}
ASSUME ThreadsAssumption == IsFiniteSet(Threads) /\ 0 \in Threads

VARIABLES
    mode,      \* no_of_threads = 0 ("default") or not ("threaded")
    setup,     \* the command line
    main,      \* "setup", "scan", "print", "done", "usage", "killed"
    asked,     \* the lists of addresses and of ports
    jobs,      \* job_masterlist, top first
    net,       \* answers on their way
    strays,    \* number of strays so far
    pc,        \* per thread: where it is
    job,       \* per thread: currentjob
    retry,     \* per thread: probes that timed out (retry, count)
    clock,     \* per thread: seconds since the probe was sent
    wait,      \* per thread: ms_timeout in seconds
    brk,       \* the capture session has been told to break (pcap_breakloop)
    hand,      \* per thread: the record being pushed
    node,      \* per thread: the list node it works on
    round,     \* per thread: i of the loop that concludes
    read,      \* per thread: the conclusion it has computed in this round
    heap,      \* the nodes of both lists, in the order they were allocated
    top,       \* per list: its top node, 0 for NULL
    said,      \* history: the results handed to push_result
    report     \* what print_results has printed

config == <<mode, setup, asked>>
local  == <<job, retry, clock, wait, hand, node, round, read>>
lists  == <<heap, top, said, report>>
vars   == <<config, main, jobs, net, strays, pc, brk, local, lists>>

-----------------------------------------------------------------------------
(* Results: ps_setup.h *)
R_OPEN       == 0
R_CLOSED     == 1
R_FILTERED   == 2
R_OPN_FIL    == 3
R_UNFILTERED == 4
NONE         == -2
Unknown      == 10   \* conclusion of a record without a result

NoJob == [ip |-> <<>>, portno |-> 0, scan_type |-> 0]

(* What is handed to a push: for the results the slot is the scan type, for *)
(* the versions it is the place of the port in serv_ports.                  *)
Record(list, ip, port, slot, val) ==
    [list |-> list, ip |-> ip, portno |-> port, slot |-> slot, val |-> val]

NoRecord == Record("none", <<>>, 0, 0, NONE)

Workers == IF mode = "default" THEN {0} ELSE Threads

Init ==
    /\ mode \in Modes
    /\ setup \in Setups
    /\ main = "setup"
    /\ asked = [ips |-> <<>>, ports |-> <<>>]
    /\ jobs = <<>>
    /\ net = {}
    /\ strays = 0
    /\ pc = [t \in Threads |-> "get"]
    /\ job = [t \in Threads |-> NoJob]
    /\ retry = [t \in Threads |-> 0]
    /\ clock = [t \in Threads |-> 0]
    /\ wait = [t \in Threads |-> 0]
    /\ brk = FALSE
    /\ hand = [t \in Threads |-> NoRecord]
    /\ node = [t \in Threads |-> 0]
    /\ round = [t \in Threads |-> 0]
    /\ read = [t \in Threads |-> 0]
    /\ heap = <<>>
    /\ top = [result |-> 0, version |-> 0]
    /\ said = {}
    /\ report = {}

-----------------------------------------------------------------------------
(* The main thread *)

(* What strtok has left of port_args: its first word.                       *)
port_args(words) == IF words = <<>> THEN PortArgs ELSE Head(words)

(* With no port from --ports, port_args is read once more, as a range.      *)
Ports(words) ==
    LET l == get_ports(words)
    IN  IF l = <<>> THEN get_ports_range(l, port_args(words)) ELSE l

(* Then a word without a dash is read past a null pointer.                  *)
NoDash(words) == get_ports(words) = <<>> /\ ~port_args(words).dash

Lists ==
    [ips |-> get_ipAdresses(setup.ips, setup.prefix.ip, setup.prefix.len),
     ports |-> Ports(setup.ports)]

(* The jobs are made before the first thread starts; without one, as        *)
(* without an address, the program prints its usage and ends.               *)
CreateJobs ==
    /\ main = "setup"
    /\ IF NoDash(setup.ports)
       THEN main' = "killed" /\ UNCHANGED <<asked, jobs>>
       ELSE /\ asked' = Lists
            /\ jobs' = create_jobs(asked'.ips, asked'.ports, scan_flags(setup.scans))
            /\ main' = IF jobs' = <<>> THEN "usage" ELSE "scan"
    /\ UNCHANGED <<mode, setup, net, strays, pc, brk, local, lists>>

(* ps_default has returned, or the last thread has been joined; then        *)
(* destroy_joblist.                                                         *)
JoinThreads ==
    /\ main = "scan" /\ \A t \in Workers : pc[t] = "exit"
    /\ main' = "print"
    /\ UNCHANGED <<config, jobs, net, strays, pc, brk, local, lists>>

(* The nodes met in k steps from a node on, first to last.                  *)
Walk[k \in 0 .. Len(heap)] ==
    [m \in 0 .. Len(heap) |->
        IF k = 0 \/ m = 0 THEN <<>> ELSE <<m>> \o Walk[k - 1][heap[m].next]]

(* As many steps as there are nodes.                                        *)
Chain(n) == Walk[Len(heap)][n]

(* A row for every record of an address and port that were asked for, and   *)
(* whose conclusion is one of the five.                                     *)
Rows ==
    {<<r.ip, r.portno, r.conclusion>> :
        r \in {heap[n] : n \in {x \in ToSet(Chain(top.result)) :
                                  /\ heap[x].ip \in ToSet(asked.ips)
                                  /\ heap[x].portno \in ToSet(asked.ports)
                                  /\ heap[x].conclusion \in 0 .. 5}}}

(* print_results, print_servver_result, and the lists are destroyed.        *)
PrintResults ==
    /\ main = "print"
    /\ main' = "done"
    /\ report' = Rows
    /\ heap' = <<>> /\ top' = [result |-> 0, version |-> 0]
    /\ UNCHANGED <<config, jobs, net, strays, pc, brk, local, said>>

-----------------------------------------------------------------------------
(* Taking a job.  In the pool the queue is under threadlock.                *)

Goto(t, l) == pc' = [pc EXCEPT ![t] = l]

(* The job is done: its socket, packet and record are given back.           *)
Finished(t) ==
    /\ Goto(t, "get")
    /\ job' = [job EXCEPT ![t] = NoJob]
    /\ retry' = [retry EXCEPT ![t] = 0]
    /\ hand' = [hand EXCEPT ![t] = NoRecord]
    /\ node' = [node EXCEPT ![t] = 0]

(* Mutant: the job is read and left at the top of the queue.                *)
get_next_jobPeek(t) ==
    /\ main = "scan" /\ pc[t] = "get"
    /\ jobs # <<>>
    /\ job' = [job EXCEPT ![t] = Head(jobs)]
    /\ Goto(t, "send")
    /\ UNCHANGED <<config, main, jobs, net, strays, brk, retry, clock, wait, hand, node, round, read, lists>>

get_next_job(t) ==
    /\ main = "scan" /\ pc[t] = "get"
    /\ IF jobs = <<>> THEN Goto(t, "exit") /\ UNCHANGED <<jobs, job>>
       ELSE /\ job' = [job EXCEPT ![t] = Head(jobs)]
            /\ jobs' = Tail(jobs)
            /\ Goto(t, "send")
    /\ UNCHANGED <<config, main, net, strays, brk, retry, clock, wait, hand, node, round, read, lists>>

-----------------------------------------------------------------------------
(* The network (external).  A packet names its sender, the thread whose     *)
(* source port it is addressed to, and what it says; an ICMP message is     *)
(* addressed to the machine, and to a thread once it waits at the socket    *)
(* of that thread.  A UDP probe leaves through a socket that is not bound   *)
(* to the port of the thread, and so does its answer come back.             *)

Unbound     == -1
Machine     == -2
ForeignPort == MAX_PORTS + 1   \* a port no job has

Packet(proto, ip, port, t, says) ==
    [proto |-> proto, ip |-> ip, portno |-> port, to |-> t, says |-> says]

TcpAnswer(flags, state) ==
    CASE state = "open" /\ flags = {"syn"}  -> "synack"
      [] state = "open" /\ flags = {"ack"}  -> "rst"
      [] state = "closed"                   -> "rst"
      [] OTHER                              -> "nothing"

(* What a target may send for the probe of job j from thread t.             *)
Answers(t, j) ==
    LET state == Truth(j.ip, j.portno)
        tcp == TcpAnswer(prepare_tcp_pkt(j.scan_type), state)
    IN  CASE state = "filtered" -> {Packet("icmp", j.ip, j.portno, Machine, "unreachable")}
          [] state = "cut" -> {Packet("icmp", j.ip, j.portno, Machine, "network")}
          [] state \notin {"filtered", "cut"} /\ j.scan_type # UDP_SCAN ->
                {Packet("tcp", j.ip, j.portno, t, tcp)} \ {Packet("tcp", j.ip, j.portno, t, "nothing")}
          [] state = "open" /\ j.scan_type = UDP_SCAN -> {Packet("udp", j.ip, j.portno, Unbound, "data")}
          [] state = "closed" /\ j.scan_type = UDP_SCAN -> {Packet("icmp", j.ip, j.portno, Machine, "port")}
          [] OTHER -> {}

(* What else may reach the port of t while it waits for j: from the target  *)
(* a packet that says nothing of the port, without one of the flags or with *)
(* a header that is too short, and packets of other hosts, whatever port    *)
(* they come from.                                                          *)
Useless(t, j) == {Packet("tcp", j.ip, j.portno, t, says) : says \in {"plain", "short"}}

Foreign(t, j) ==
    {Packet("tcp", <<>>, p, t, says) :
        p \in {ForeignPort} \cup ToSet(asked.ports), says \in {"synack", "rst", "plain"}}
      \cup {Packet("udp", <<>>, p, t, "data") : p \in {ForeignPort, j.portno}}
      \cup {Packet("icmp", <<>>, 0, Machine, "echo")}

(* The probe is sent and answered, or it or its answer is lost, or sendto   *)
(* fails: a thread of the pool goes on to poll all the same, ps_default     *)
(* gives the job up.                                                        *)
SendProbe(t) ==
    /\ pc[t] = "send"
    /\ \/ net' = net \cup Answers(t, job[t]) /\ Goto(t, "poll")
       \/ UNCHANGED net /\ Goto(t, "poll")
       \/ mode = "default" /\ UNCHANGED net /\ Goto(t, "version")
    /\ wait' = [wait EXCEPT ![t] = IF pc'[t] = "poll" THEN TIME_OUT ELSE 0]
    /\ UNCHANGED <<config, main, jobs, strays, brk, clock, job, retry, hand, node, round, read, lists>>

-----------------------------------------------------------------------------
(* Reading an answer *)

(* got_packet: what a packet says of the current job, NONE for a TCP packet *)
(* without the flags it looks for.  The address is the one of the job, the  *)
(* port of a TCP answer the one it came from.                               *)
Verdict(p, j) ==
    CASE p.proto = "icmp" /\ p.says = "unreachable" -> R_FILTERED
      [] p.proto = "icmp" /\ p.says = "port" ->
            IF j.scan_type = UDP_SCAN THEN R_CLOSED ELSE R_OPN_FIL
      [] p.proto = "tcp" /\ p.says = "synack" -> R_OPEN
      [] p.proto = "tcp" /\ p.says = "rst" ->
            IF j.scan_type = ACK_SCAN THEN R_UNFILTERED ELSE R_CLOSED
      [] p.proto = "udp" -> R_OPEN
      [] OTHER -> NONE

(* A header that is too short, a datagram from another port, and an ICMP    *)
(* message of another type or with another code, end the job without a      *)
(* result.                                                                  *)
Silent(p, j) ==
    \/ p.says = "short"
    \/ p.proto = "udp" /\ p.portno # j.portno
    \/ p.proto = "icmp" /\ p.says \in {"network", "echo"}

Say(t, port, val) ==
    LET r == Record("result", job[t].ip, port, job[t].scan_type, val)
    IN  /\ hand' = [hand EXCEPT ![t] = r]
        /\ said' = said \cup {r}
        /\ Goto(t, "search")

got_packet(t, p) ==
    IF Silent(p, job[t])
    THEN Goto(t, "version") /\ UNCHANGED <<hand, said>>
    ELSE Say(t, IF p.proto = "tcp" THEN p.portno ELSE job[t].portno, Verdict(p, job[t]))

(* No answer after the last probe.                                          *)
TimeoutVerdict(scan) == IF scan \in {SYN_SCAN, ACK_SCAN} THEN R_FILTERED ELSE R_OPN_FIL

(* Mutant: the probes are not counted.                                      *)
RetryForever(t) == Goto(t, "send") /\ UNCHANGED <<retry, hand, said>>

(* ps_threaded probes once more than MAX_RETRY_COUNT, ps_default not.       *)
GiveUpOrRetry(t) ==
    LET last == IF mode = "default" THEN retry[t] + 1 = MAX_RETRY_COUNT
                                    ELSE retry[t] = MAX_RETRY_COUNT
    IN  IF last
        THEN Say(t, job[t].portno, TimeoutVerdict(job[t].scan_type)) /\ UNCHANGED retry
        ELSE /\ retry' = [retry EXCEPT ![t] = @ + 1]
             /\ Goto(t, "send")
             /\ UNCHANGED <<hand, said>>

(* Mutant: a packet is taken for the answer whatever port it comes from and *)
(* goes to.                                                                 *)
MatchesAny(t, p) == TRUE

(* The packet ps_threaded waits for: from the address and port of the job   *)
(* to the port of the thread; an ICMP message from the address alone.       *)
Matches(t, p) ==
    /\ p.ip = job[t].ip
    /\ IF p.proto = "icmp" THEN p.to \in {Machine, t} ELSE p.portno = job[t].portno /\ p.to = t

Polling(t) ==
    /\ pc[t] = "poll"
    /\ UNCHANGED <<config, main, jobs, job, node, round, read, heap, top, report>>

EndWait(t) ==
    /\ clock' = [clock EXCEPT ![t] = 0]
    /\ wait' = [wait EXCEPT ![t] = 0]

(* Every raw socket gets its own copy of an ICMP message: when it comes, it *)
(* comes to all the threads that wait and look for its sender.              *)
Copies(t, p) ==
    IF p.proto = "icmp" /\ p.to = Machine
    THEN {Packet("icmp", p.ip, p.portno, u, p.says) :
            u \in {w \in Workers \ {t} : pc[w] = "poll" /\ Matches(w, p)}}
    ELSE {}

(* What waits at the sockets of t is lost when t closes them.               *)
Closed(t, packets) == {p \in packets : p.proto # "icmp" \/ p.to # t}

(* ps_threaded: poll and recvfrom.                                          *)
GotPacket(t) ==
    /\ mode = "threaded" /\ Polling(t)
    /\ \E p \in net :
         /\ Matches(t, p)
         /\ net' = Closed(t, net \ {p}) \cup Copies(t, p)
         /\ got_packet(t, p)
    /\ EndWait(t)
    /\ UNCHANGED <<strays, brk, retry>>

(* The same for one that passes for an answer.                              *)
GotUseless(t) ==
    /\ mode = "threaded" /\ Polling(t)
    /\ strays < MaxStray /\ strays' = strays + 1
    /\ \E p \in Useless(t, job[t]) : got_packet(t, p)
    /\ net' = Closed(t, net)
    /\ EndWait(t)
    /\ UNCHANGED <<brk, retry>>

(* poll returns 0.  With a negative time it does not.                       *)
PollTimeout(t) ==
    /\ mode = "threaded" /\ Polling(t)
    /\ wait[t] >= 0
    /\ GiveUpOrRetry(t)
    /\ net' = Closed(t, net)
    /\ EndWait(t)
    /\ UNCHANGED <<strays, brk>>

(* poll returns -1, as when the alarm of the progress dots interrupts it.   *)
PollError(t) ==
    /\ mode = "threaded" /\ Polling(t)
    /\ strays < MaxStray /\ strays' = strays + 1
    /\ GiveUpOrRetry(t)
    /\ net' = Closed(t, net)
    /\ EndWait(t)
    /\ UNCHANGED brk

(* What is left of the time when a wrong packet has come at second now.     *)
TimeLeft(t, now) == wait[t] - now

(* A packet that is not the one: in the first second the probe is repeated, *)
(* later the poll goes on with the time that is left; a packet of a third   *)
(* protocol leaves the time as it is.                                       *)
StrayPacket(t) ==
    /\ mode = "threaded" /\ Polling(t)
    /\ strays < MaxStray /\ strays' = strays + 1
    /\ \/ UNCHANGED <<net, clock, wait, pc, retry, hand, said>>
       \/ \E now \in clock[t] .. (IF wait[t] < 0 THEN TIME_OUT ELSE clock[t] + wait[t]) :
            IF TimeLeft(t, now) < TIME_OUT
            THEN /\ clock' = [clock EXCEPT ![t] = now]
                 /\ wait' = [wait EXCEPT ![t] = TimeLeft(t, now)]
                 /\ UNCHANGED <<net, pc, retry, hand, said>>
            ELSE GiveUpOrRetry(t) /\ net' = Closed(t, net) /\ EndWait(t)
    /\ UNCHANGED brk

(* The filter of prepare_sniffing_session.                                  *)
Captured(t, p) == p.proto = "icmp" \/ p.to = t

(* ps_default: the first packet to the port of the scanner, or the first    *)
(* ICMP message, ends the wait, whoever sent it and whenever.  The alarm    *)
(* may still go off before it is switched off.                              *)
DispatchPacket(t) ==
    /\ mode = "default" /\ Polling(t)
    /\ ~brk
    /\ \E p \in net : Captured(t, p) /\ net' = net \ {p} /\ got_packet(t, p)
    /\ brk' \in BOOLEAN
    /\ EndWait(t)
    /\ UNCHANGED <<strays, retry>>

DispatchForeign(t) ==
    /\ mode = "default" /\ Polling(t)
    /\ ~brk /\ strays < MaxStray /\ strays' = strays + 1
    /\ \E p \in Useless(t, job[t]) \cup Foreign(t, job[t]) : got_packet(t, p)
    /\ brk' \in BOOLEAN
    /\ EndWait(t)
    /\ UNCHANGED <<net, retry>>

(* pcap_dispatch returns -2: the alarm went off during this wait, or after  *)
(* the packet of the one before.                                            *)
DispatchBreak(t) ==
    /\ mode = "default" /\ Polling(t)
    /\ GiveUpOrRetry(t)
    /\ brk' = FALSE
    /\ EndWait(t)
    /\ UNCHANGED <<net, strays>>

(* It returns 0 or -1: the job ends without a result.                       *)
DispatchNothing(t) ==
    /\ mode = "default" /\ Polling(t)
    /\ ~brk
    /\ Goto(t, "version")
    /\ brk' \in BOOLEAN
    /\ EndWait(t)
    /\ UNCHANGED <<net, strays, retry, hand, said>>

-----------------------------------------------------------------------------
(* Pushing a record: search, allocate, link, update, and for a result the   *)
(* conclusion.  Nothing of it is under a lock.                              *)

(* Mutant: the records are told apart by their address alone.               *)
SameAddress(n, r) == heap[n].ip = r.ip

Same(n, r) == heap[n].ip = r.ip /\ (r.list = "result" => heap[n].portno = r.portno)

Empty(list) == IF list = "result" THEN NONE ELSE ""

Pushing(t, l) ==
    /\ pc[t] = l
    /\ UNCHANGED <<config, main, jobs, net, strays, brk, clock, wait, said, report>>

(* Nodes are only added at the top, so the walk from one top is one step.   *)
PushSearch(t) ==
    /\ Pushing(t, "search")
    /\ LET c == Chain(top[hand[t].list])
           hits == {i \in DOMAIN c : Same(c[i], hand[t])}
       IN  IF hits = {} THEN Goto(t, "new") /\ UNCHANGED node
           ELSE node' = [node EXCEPT ![t] = c[Min(hits)]] /\ Goto(t, "update")
    /\ UNCHANGED <<job, retry, hand, round, read, heap, top>>

PushNew(t) ==
    LET r == hand[t] IN
    /\ Pushing(t, "new")
    /\ heap' = Append(heap, [list |-> r.list, ip |-> r.ip, portno |-> r.portno,
                             vals |-> [s \in ScanTypes |-> Empty(r.list)],
                             conclusion |-> Unknown, next |-> top[r.list]])
    /\ node' = [node EXCEPT ![t] = Len(heap')]
    /\ Goto(t, "link")
    /\ UNCHANGED <<job, retry, hand, round, read, top>>

(* Mutant: the two assignments of the insertion in the other order.         *)
PushLinkFirst(t) ==
    /\ Pushing(t, "link")
    /\ top' = [top EXCEPT ![hand[t].list] = node[t]]
    /\ heap' = [heap EXCEPT ![node[t]].next = top'[hand[t].list]]
    /\ Goto(t, "update")
    /\ UNCHANGED <<job, retry, hand, node, round, read>>

PushLink(t) ==
    /\ Pushing(t, "link")
    /\ top' = [top EXCEPT ![hand[t].list] = node[t]]
    /\ Goto(t, "update")
    /\ UNCHANGED <<job, retry, hand, node, round, read, heap>>

PushUpdate(t) ==
    LET r == hand[t] IN
    /\ Pushing(t, "update")
    /\ heap' = [heap EXCEPT ![node[t]].vals[r.slot] = r.val]
    /\ IF r.list = "result"
       THEN Goto(t, "conclude") /\ UNCHANGED <<job, retry, hand, node>>
       ELSE Finished(t)
    /\ UNCHANGED <<round, read, top>>

(* The loop that concludes: each of its six rounds reads a result and, if   *)
(* there is one, the conclusion, and writes the lesser of the two.          *)
NextRound(t) ==
    IF round[t] = UDP_SCAN
    THEN round' = [round EXCEPT ![t] = 0] /\ Goto(t, "version")
    ELSE round' = [round EXCEPT ![t] = @ + 1] /\ Goto(t, "conclude")

ConcludeRead(t) ==
    LET n == node[t]
        val == heap[n].vals[round[t]]
    IN  /\ Pushing(t, "conclude")
        /\ IF val = NONE
           THEN NextRound(t) /\ UNCHANGED read
           ELSE /\ read' = [read EXCEPT ![t] = Min({heap[n].conclusion, val})]
                /\ Goto(t, "write")
                /\ UNCHANGED round
        /\ UNCHANGED <<job, retry, hand, node, heap, top>>

ConcludeWrite(t) ==
    /\ Pushing(t, "write")
    /\ heap' = [heap EXCEPT ![node[t]].conclusion = read[t]]
    /\ NextRound(t)
    /\ read' = [read EXCEPT ![t] = 0]
    /\ UNCHANGED <<job, retry, hand, node, top>>

-----------------------------------------------------------------------------
(* Service versions *)

Service(port) == CHOOSE i \in 1 .. Len(VersionPorts) : VersionPorts[i] = port

(* A record of the address that has a version for the port.                 *)
isversion_needed(ip, port) ==
    ~\E i \in DOMAIN Chain(top.version) :
        LET n == Chain(top.version)[i]
        IN  heap[n].ip = ip /\ heap[n].vals[Service(port) - 1] # ""

VersionCheck(t) ==
    LET j == job[t] IN
    /\ pc[t] = "version"
    /\ IF /\ \E i \in DOMAIN VersionPorts : VersionPorts[i] = j.portno
          /\ isversion_needed(j.ip, j.portno)
       THEN Goto(t, "detect") /\ UNCHANGED <<job, retry, hand, node>>
       ELSE Finished(t)
    /\ UNCHANGED <<config, main, jobs, net, strays, brk, clock, wait, round, read, lists>>

(* What is read of the service: its version, or what an uninitialised       *)
(* buffer holds when the answer does not name one; "UNKNOWN" when the       *)
(* connection is refused.                                                   *)
Versions(state) == IF state = "open" THEN {"1.0", ""} ELSE {"UNKNOWN"}

(* Without a record when the socket, the request or the answer fails.  The  *)
(* answer is read without a time limit: a service that accepts and says     *)
(* nothing holds the thread, so nothing makes this step happen.             *)
version_detection(t) ==
    LET j == job[t] IN
    /\ pc[t] = "detect"
    /\ \/ Finished(t)
       \/ \E v \in Versions(Truth(j.ip, j.portno)) :
            /\ hand' = [hand EXCEPT ![t] =
                           Record("version", j.ip, j.portno, Service(j.portno) - 1, v)]
            /\ Goto(t, "search")
            /\ UNCHANGED <<job, retry, node>>
    /\ UNCHANGED <<config, main, jobs, net, strays, brk, clock, wait, round, read, lists>>

-----------------------------------------------------------------------------
Receive(t) ==
    \/ GotPacket(t) \/ PollTimeout(t)
    \/ DispatchPacket(t) \/ DispatchBreak(t) \/ DispatchNothing(t)

Push_(t) ==
    \/ PushSearch(t) \/ PushNew(t) \/ PushLink(t) \/ PushUpdate(t)
    \/ ConcludeRead(t) \/ ConcludeWrite(t)

Run(t) ==
    get_next_job(t) \/ SendProbe(t) \/ Receive(t) \/ Push_(t) \/ VersionCheck(t)

Disturb(t) == StrayPacket(t) \/ PollError(t) \/ GotUseless(t) \/ DispatchForeign(t)

MainStep == CreateJobs \/ JoinThreads \/ PrintResults

Over == main \in {"done", "usage", "killed"} /\ UNCHANGED vars

Next == MainStep \/ (\E t \in Workers : Run(t) \/ version_detection(t) \/ Disturb(t)) \/ Over

(* While some thread can go on, one does; poll and the alarm end a wait     *)
(* that has an end.  Nothing is assumed of strays and errors, nor of a      *)
(* service whose version is asked for.                                      *)
Fairness == WF_vars(MainStep \/ \E t \in Workers : Run(t))

Spec == Init /\ [][Next]_vars /\ Fairness

-----------------------------------------------------------------------------
(* Properties *)

(* No job is done twice: no two threads ever have the same one, and what    *)
(* the threads hold and what the queue holds never meets.                   *)
Held(t) == pc[t] \notin {"get", "exit"}

JobsOnce ==
    main = "scan" =>
        /\ \A t1, t2 \in Workers : (t1 # t2 /\ Held(t1) /\ Held(t2)) => job[t1] # job[t2]
        /\ \A t \in Workers : Held(t) => job[t] \notin {jobs[i] : i \in DOMAIN jobs}
        /\ \A i, k \in DOMAIN jobs : i # k => jobs[i] # jobs[k]

(* Both lists stay lists under every interleaving of the unlocked pushes:   *)
(* the walk from a top ends, and the nodes are those of that list.          *)
ListsLinked ==
    \A l \in {"result", "version"} :
        LET c == Chain(top[l]) IN
        /\ \A i \in DOMAIN c : heap[c[i]].list = l
        /\ c # <<>> => heap[Last(c)].next = 0

(* They stay lists, and a conclusion that is drawn is a result that was     *)
(* pushed for this address and port, not one of another record and not the  *)
(* mark of a missing one.  It need not be a result the record still has: in *)
(* ps_default the late answer of one port, read during the job of another,  *)
(* overwrites the slot of that other job's scan in the record of the first. *)
Told(ip, port, val) == \E r \in said : r.ip = ip /\ r.portno = port /\ r.val = val

ListsSound ==
    /\ ListsLinked
    /\ \A n \in DOMAIN heap : heap[n].list = "result" =>
         \/ heap[n].conclusion = Unknown
         \/ /\ heap[n].conclusion # NONE
            /\ Told(heap[n].ip, heap[n].portno, heap[n].conclusion)

(* The pool calls a port open only when it is: an answer is matched by      *)
(* address, port and thread, and neither a late answer, nor the answer to   *)
(* another thread, nor a race on the record turns a port open.              *)
OpenIsOpen ==
    mode = "threaded" =>
        \A n \in DOMAIN heap :
            (heap[n].list = "result" /\ heap[n].conclusion = R_OPEN) =>
                Truth(heap[n].ip, heap[n].portno) = "open"

(* With one thread at work no result is lost: between two jobs every result *)
(* pushed so far has one record of its address and port, whose conclusion   *)
(* is the least of all the results pushed for them, and in the end each     *)
(* that was asked for is printed with this conclusion.  It is not always    *)
(* the least of what the record holds, as the comment at the loop says ("its*)
(* the min value in the results array"): a slot may be overwritten, in      *)
(* ps_default even with NONE, by a packet that is not the answer, and the   *)
(* conclusion remembers.                                                    *)
Alone == mode = "default" \/ Cardinality(Threads) = 1

Pushed(ip, port) == {r.val : r \in {x \in said : x.ip = ip /\ x.portno = port}} \ {NONE}

Least(ip, port) == Min({Unknown} \cup Pushed(ip, port))

AllRecorded ==
    /\ (Alone /\ main = "scan" /\ pc[0] \in {"get", "exit"}) =>
         \A r \in said : \E n \in ToSet(Chain(top.result)) :
            /\ heap[n].conclusion = Least(r.ip, r.portno)
            /\ \A m \in ToSet(Chain(top.result)) :
                 (heap[m].ip = r.ip /\ heap[m].portno = r.portno) <=> m = n
    /\ (Alone /\ main = "done") =>
         \A r \in said :
           (r.val # NONE /\ r.ip \in ToSet(asked.ips) /\ r.portno \in ToSet(asked.ports)) =>
              <<r.ip, r.portno, Least(r.ip, r.portno)>> \in report

(* The addresses made from a prefix: for every length from 16 on the mask   *)
(* has its leading ones (a bit of the first two bytes is cleared in another *)
(* byte), and the hosts are the addresses of the network without the first  *)
(* and the last one.                                                        *)
RefMask(p) == [n \in 1 .. 4 |-> LET k == Max({0, Min({8, p - 8 * (n - 1)})}) IN 256 - 2^(8 - k)]

PrefixHosts ==
    main = "setup" =>
        /\ \A p \in 16 .. 32 : netmask(p) = RefMask(p)
        /\ \A p \in 26 .. 32 :
             LET l == get_ipAdresses(<<>>, <<192, 168, 3, 77>>, p)
                 base == Host(<<192, 168, 3, 77>>, RefMask(p))
             IN  {l[i] : i \in DOMAIN l} =
                   {[base EXCEPT ![4] = @ + k] : k \in 1 .. (2^(32 - p) - 2)}

(* The scan ends and the results are printed, or the usage is, or the       *)
(* program is killed at its command line: unless some thread's time has     *)
(* gone below zero, when its poll waits for ever, or some service whose     *)
(* version is asked for neither answers nor closes, when recv does.         *)
ScanEnds ==
    (/\ [](\A t \in Threads : wait[t] >= 0)
     /\ \A t \in Threads : []<>(pc[t] # "detect")) => <>(main \in {"done", "usage", "killed"})

(* The comment at the poll says "wait for events on the sockets, 4 second   *)
(* timeout": no poll is made with a negative time, which has no timeout.    *)
(* It is not an invariant with two strays or more: each takes the whole     *)
(* time since the probe from what was left after the one before.            *)
PollIsBounded == \A t \in Threads : pc[t] = "poll" => wait[t] >= 0
=============================================================================
