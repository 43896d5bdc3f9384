----------------------------- MODULE Rebinding -----------------------------
(***************************************************************************)
(* Address classes of the DNS rebinding filter (dns/rebinding.rs), also    *)
(* used by the ICE candidate filter (webrtc.rs).  An IPv4 address is the   *)
(* tuple of its 4 octets, an IPv6 address that of its 8 segments.          *)
(***************************************************************************)
EXTENDS Integers, Sequences

Octet == 0..255
Segment == 0..(2 ^ 16 - 1)
Address == [1..4 -> Octet] \cup [1..8 -> Segment]
IsV4(a) == Len(a) = 4

\* std::net's predicates and the filter's own, asked in this order.
ClassifyV4(a) ==
  CASE a = <<0, 0, 0, 0>> -> "Unspecified"
    [] a[1] = 127 -> "Loopback"
    [] a[1] = 169 /\ a[2] = 254 -> "LinkLocal"
    [] \/ a[1] = 10
       \/ a[1] = 172 /\ a[2] \in 16..31
       \/ a[1] = 192 /\ a[2] = 168 -> "Private"
    [] a[1] \in 224..239 -> "Multicast"
    [] a = <<255, 255, 255, 255>> -> "Reserved"
    [] SubSeq(a, 1, 3) \in {<<192, 0, 2>>, <<198, 51, 100>>, <<203, 0, 113>>} ->
         "Documentation"
    [] a[1] = 100 /\ a[2] \in 64..127 -> "Private"
    [] a[1] = 0 /\ a # <<0, 0, 0, 0>> -> "Reserved"
    [] OTHER -> "Public"

ClassifyV6(a) ==
  LET Zero == \A i \in 1..7 : a[i] = 0
  IN  CASE Zero /\ a[8] = 0 -> "Unspecified"
        [] Zero /\ a[8] = 1 -> "Loopback"
        [] a[1] \div 256 = 255 -> "Multicast"
        [] a[1] \div 64 = 1018 -> "LinkLocal"      \* & 0xFFC0 = 0xFE80
        [] a[1] \div 512 = 126 -> "Private"        \* & 0xFE00 = 0xFC00
        [] a[1] = 8193 /\ a[2] = 3512 -> "Documentation"  \* 2001:db8
        [] OTHER -> "Public"

Classify(a) == IF IsV4(a) THEN ClassifyV4(a) ELSE ClassifyV6(a)
IsPublic(a) == Classify(a) = "Public"

-----------------------------------------------------------------------------
(* The blocks of the RFCs, as first and last address.                      *)

V4Blocks ==
  {<<<<0, 0, 0, 0>>, <<0, 255, 255, 255>>>>,
   <<<<10, 0, 0, 0>>, <<10, 255, 255, 255>>>>,
   <<<<100, 64, 0, 0>>, <<100, 127, 255, 255>>>>,
   <<<<127, 0, 0, 0>>, <<127, 255, 255, 255>>>>,
   <<<<169, 254, 0, 0>>, <<169, 254, 255, 255>>>>,
   <<<<172, 16, 0, 0>>, <<172, 31, 255, 255>>>>,
   <<<<192, 0, 2, 0>>, <<192, 0, 2, 255>>>>,
   <<<<192, 168, 0, 0>>, <<192, 168, 255, 255>>>>,
   <<<<198, 51, 100, 0>>, <<198, 51, 100, 255>>>>,
   <<<<203, 0, 113, 0>>, <<203, 0, 113, 255>>>>,
   <<<<224, 0, 0, 0>>, <<239, 255, 255, 255>>>>,
   <<<<255, 255, 255, 255>>, <<255, 255, 255, 255>>>>}

V6Blocks ==
  {<<<<0, 0, 0, 0, 0, 0, 0, 0>>, <<0, 0, 0, 0, 0, 0, 0, 1>>>>,
   <<<<64512, 0, 0, 0, 0, 0, 0, 0>>,
     <<65023, 65535, 65535, 65535, 65535, 65535, 65535, 65535>>>>,
   <<<<65152, 0, 0, 0, 0, 0, 0, 0>>,
     <<65215, 65535, 65535, 65535, 65535, 65535, 65535, 65535>>>>,
   <<<<65280, 0, 0, 0, 0, 0, 0, 0>>,
     <<65535, 65535, 65535, 65535, 65535, 65535, 65535, 65535>>>>,
   <<<<8193, 3512, 0, 0, 0, 0, 0, 0>>,
     <<8193, 3512, 65535, 65535, 65535, 65535, 65535, 65535>>>>}

NonPublicBlocks == V4Blocks \cup V6Blocks

\* a is at most b, compared from the left.
AtMost(a, b) ==
  a = b \/ \E i \in DOMAIN a : a[i] < b[i] /\ \A j \in 1..(i - 1) : a[j] = b[j]

InBlock(a, block) ==
  Len(a) = Len(block[1]) /\ AtMost(block[1], a) /\ AtMost(a, block[2])
=============================================================================
