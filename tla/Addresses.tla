------------------------------ MODULE Addresses ------------------------------
(***************************************************************************)
(* The addresses that fixtures carry: each task of a RunConcurrent makes   *)
(* the one of its object out of its index, with divisions by 256 and the   *)
(* conversions of Go, byte and uint16, that drop what does not fit.        *)
(*                                                                         *)
(* An address is a sequence: four numbers, or "fd00::" and two bytes.      *)
(***************************************************************************)
EXTENDS Integers, Sequences

\* What addresses are for.
Uses == {"ingress", "node", "svcpod", "target"}

Byte(n)   == n % 256
Uint16(n) == n % 65536

IngressIP(i) ==
  IF i % 2 = 0 THEN <<10, Byte((i \div 2) \div 256), Byte((i \div 2) % 256), 1>>
  ELSE <<"fd00::", Uint16(i \div 2 + 1) \div 256, Byte(Uint16(i \div 2 + 1))>>

NodeExternalIP(i) == <<100, 64, i \div 256, i % 256>>

PodSvcIP(i) == <<10, i \div 65536, (i \div 256) % 256, i % 256>>

\* The target of a pod's annotation and of a DNSEndpoint.
Target(i) == <<192, 168, (i \div 256) % 256, (i % 256) + 1>>

Address(u, i) ==
  CASE u = "ingress" -> IngressIP(i)
    [] u = "node"    -> NodeExternalIP(i)
    [] u = "svcpod"  -> PodSvcIP(i)
    [] u = "target"  -> Target(i)

-----------------------------------------------------------------------------
\* INDEX.md:102-104: "~130k", "~65k" and "~16M unique" addresses; targets: as many as fit.
Supported(u) ==
  CASE u = "ingress" -> 131072
    [] u = "node"    -> 65536
    [] u = "svcpod"  -> 16777216
    [] u = "target"  -> 65536

\* The index that an address was made of.
IngressIndex(a) ==
  IF Len(a) = 4 THEN 2 * (256 * a[2] + a[3]) ELSE 2 * Uint16(256 * a[2] + a[3] + 65535) + 1
NodeIndex(a)   == 256 * a[3] + a[4]
SvcPodIndex(a) == 65536 * a[2] + 256 * a[3] + a[4]
TargetIndex(a) == 256 * a[3] + a[4] - 1

IndexOf(u, a) ==
  CASE u = "ingress" -> IngressIndex(a)
    [] u = "node"    -> NodeIndex(a)
    [] u = "svcpod"  -> SvcPodIndex(a)
    [] u = "target"  -> TargetIndex(a)

IsAddress(a) ==
  IF Len(a) = 4 THEN \A i \in 1 .. 4 : a[i] \in 0 .. 255
  ELSE a[1] = "fd00::" /\ a[2] \in 0 .. 255 /\ a[3] \in 0 .. 255

\* helpers.go:49-51: "a unique, valid IP ... without collision": up to the count that
\* is supported an address tells the index it was made of.
UniqueAddress(u, i) == i < Supported(u) => IndexOf(u, Address(u, i)) = i

\* Up to that count each address is one, but for every 256th target, which ends in
\* 256.
ValidAddress(u, i) ==
  i < Supported(u) => (IsAddress(Address(u, i)) <=> u # "target" \/ i % 256 # 255)
=============================================================================
