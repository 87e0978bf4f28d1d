----------------------------- MODULE MCPortScan -----------------------------
(* Instances of PortScan: one or two addresses of a /30 network, a port     *)
(* with version detection, and targets in each state.                       *)
EXTENDS PortScan

Net == <<10, 0, 0, 4>>

(* No address from --prefix: a /31 has no hosts.                            *)
Nothing == [ip |-> Net, len |-> 31]

Port(p) == [lo |-> p, hi |-> p, dash |-> FALSE]
Range_(lo, hi) == [lo |-> lo, hi |-> hi, dash |-> TRUE]

MCPortArgs == Range_(1024, 1025)

Only(words) == [given |-> TRUE, words |-> words]
AllSix == [given |-> FALSE, words |-> {}]

A == <<10, 0, 0, 5>>
B == <<10, 0, 0, 6>>

(* One address with two scans of an open port; the two hosts of a prefix,   *)
(* one open and one closed; two ports of a host for which ICMP messages     *)
(* come back, so that each thread may take the one for the other; a UDP     *)
(* probe that is answered; a closed port with version detection; the ports  *)
(* by default, in a range that leaves the limit; and what ends at once: no  *)
(* address, no scan that is known, no port in a range, no port without one. *)
MCSetups ==
    { [ips |-> <<A>>, prefix |-> Nothing, ports |-> <<Port(22)>>,
       scans |-> Only({SYN_SCAN, ACK_SCAN})],
      [ips |-> <<>>, prefix |-> [ip |-> Net, len |-> 30], ports |-> <<Port(21)>>,
       scans |-> Only({SYN_SCAN})],
      [ips |-> <<B>>, prefix |-> Nothing, ports |-> <<Port(79), Port(21)>>,
       scans |-> Only({UDP_SCAN})],
      [ips |-> <<A>>, prefix |-> Nothing, ports |-> <<Port(22)>>, scans |-> Only({UDP_SCAN})],
      [ips |-> <<B>>, prefix |-> Nothing, ports |-> <<Port(22)>>, scans |-> Only({FIN_SCAN})],
      [ips |-> <<B>>, prefix |-> Nothing, ports |-> <<>>, scans |-> Only({NULL_SCAN})],
      [ips |-> <<>>, prefix |-> Nothing, ports |-> <<Port(22)>>, scans |-> AllSix],
      [ips |-> <<A>>, prefix |-> Nothing, ports |-> <<Port(22)>>, scans |-> Only({})],
      [ips |-> <<A>>, prefix |-> Nothing, ports |-> <<Range_(2000, 2001)>>, scans |-> AllSix],
      [ips |-> <<A>>, prefix |-> Nothing, ports |-> <<Port(2000), Port(0)>>, scans |-> AllSix] }

MCTruth(ip, port) ==
    CASE ip = A -> "open"
      [] ip = B /\ port \in {21, 22} -> "closed"
      [] ip = B /\ port = 79 -> "filtered"
      [] ip = B /\ port = 1024 -> "cut"
      [] OTHER -> "silent"

MCVersionPorts == <<22, 24, 43, 80, 110, 143>>

(* What the theorems ask of a command line holds of these: no job is made   *)
(* twice, and each is of one of the six scans.                              *)
ASSUME SetupsAssumption ==
    \A s \in MCSetups :
        LET js == create_jobs(get_ipAdresses(s.ips, s.prefix.ip, s.prefix.len),
                              Ports(s.ports), scan_flags(s.scans))
        IN  \A i, k \in DOMAIN js : js[i].scan_type \in ScanTypes /\ (i # k => js[i] # js[k])
=============================================================================
