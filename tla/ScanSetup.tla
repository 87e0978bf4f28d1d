----------------------------- MODULE ScanSetup -----------------------------
(* The part of the port scanner that is computed before the first probe:    *)
(* the lists of ports, of addresses and of jobs (src/portscan/ps_setup.c)   *)
(* and the probe of each scan type (src/portscan/ps_prepare.c).             *)
(*                                                                          *)
(* The lists of the program grow at their top; a list is a sequence with    *)
(* its top first.  An address is its four bytes.                            *)
EXTENDS Integers, Sequences, FiniteSets, FiniteSetsExt, SequencesExt

(* Scan types and conclusions: ps_setup.h. *)
SYN_SCAN  == 0
NULL_SCAN == 1
FIN_SCAN  == 2
XMAS_SCAN == 3
ACK_SCAN  == 4
UDP_SCAN  == 5
ScanTypes == 0 .. 5

MAX_PORTS == 1024

Push(list, x) == <<x>> \o list

-----------------------------------------------------------------------------
(* Ports: anything outside 1 .. 1024 is dropped.                            *)

push_port(list, p) == IF p > MAX_PORTS \/ p < 1 THEN list ELSE Push(list, p)

get_ports_range(list, w) ==
    FoldLeft(push_port, list, [i \in 1 .. (w.hi - w.lo + 1) |-> w.lo + i - 1])

(* The comma separated words of --ports, each a range, with a dash, or a    *)
(* port.                                                                    *)
get_ports(words) ==
    LET Word(list, w) == IF w.dash THEN get_ports_range(list, w) ELSE push_port(list, w.lo)
    IN  FoldLeft(Word, <<>>, words)

-----------------------------------------------------------------------------
(* Addresses of a prefix.                                                   *)

Bits(b)     == {k \in 0 .. 7 : (b \div 2^k) % 2 = 1}
FromBits(S) == MapThenSumSet(LAMBDA k : 2^k, S)
And(a, b)   == FromBits(Bits(a) \cap Bits(b))
Or(a, b)    == FromBits(Bits(a) \cup Bits(b))

get_hostcount(prefix) == 2^(32 - prefix) - 2

(* Mutant: the byte of a bit is not corrected where the division is exact.  *)
MaskByteUncorrected(i) == (32 - i) \div 8

(* The byte of the mask, from 0, that bit i of the host number falls in.    *)
MaskByte(i) ==
    LET byte == (32 - i) \div 8
    IN  CASE i = 0                -> byte - 1
          [] i > 0 /\ i % 8 = 0   -> byte - i \div 8
          [] OTHER                -> byte

netmask(prefix) ==
    LET Clear(mask, i) == [mask EXCEPT ![MaskByte(i) + 1] = FromBits(Bits(@) \ {i % 8})]
    IN  FoldLeft(Clear, <<255, 255, 255, 255>>, [n \in 1 .. (32 - prefix) |-> 32 - prefix - n])

Host(ip, mask) == [n \in 1 .. 4 |-> And(ip[n], mask[n])]

(* Host number i in network byte order, laid over the network part.         *)
HostNumber(i) == <<i \div 2^24, (i \div 2^16) % 256, (i \div 2^8) % 256, i % 256>>

get_ipAdresses(list, ip, prefix) ==
    LET host == Host(ip, netmask(prefix))
        Add(l, i) == Push(l, [n \in 1 .. 4 |-> Or(host[n], HostNumber(i)[n])])
    IN  FoldLeft(Add, list, [i \in 1 .. get_hostcount(prefix) |-> i])

-----------------------------------------------------------------------------
(* Jobs: one for each scan type that is set, address and port.  Each is     *)
(* pushed on the top, so the last one made is the first one done.           *)

Job(ip, port, scan) == [ip |-> ip, portno |-> port, scan_type |-> scan]

create_jobs(ips, ports, scans) ==
    LET Port(ip, s, acc, p) == Push(acc, Job(ip, p, s))
        Addr(s, acc, ip) == FoldLeft(LAMBDA a, p : Port(ip, s, a, p), acc, ports)
        Scan(acc, s) == FoldLeft(LAMBDA a, ip : Addr(s, a, ip), acc, ips)
    IN  FoldLeft(Scan, <<>>, scans)

(* All six types are set without --scan; with it those its words name, none *)
(* for a word that is not the name of one.                                  *)
scan_flags(scans) ==
    SelectSeq(<<SYN_SCAN, NULL_SCAN, FIN_SCAN, XMAS_SCAN, ACK_SCAN, UDP_SCAN>>,
              LAMBDA s : scans.given => s \in scans.words)

-----------------------------------------------------------------------------
(* The probe of a TCP scan is told apart by the flags in its header.        *)
prepare_tcp_pkt(scan) ==
    CASE scan = SYN_SCAN  -> {"syn"}
      [] scan = NULL_SCAN -> {}
      [] scan = FIN_SCAN  -> {"fin"}
      [] scan = XMAS_SCAN -> {"fin", "psh", "urg"}
      [] scan = ACK_SCAN  -> {"ack"}
============================================================================
