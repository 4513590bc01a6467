------------------------------ MODULE ThinAddr ------------------------------
(***************************************************************************)
(* The addresses that name connections (src/thin_addr.rs) and the          *)
(* big-endian numbers in them (src/integers.rs).                           *)
(*                                                                         *)
(* A standard address is a number with its version, a port and, for IPv6,  *)
(* a scope; std's own conversions are external.  A thin one is a sequence  *)
(* of bytes, compared and hashed byte by byte.  Digits are PacketBuffer's; *)
(* the layout of an IPv4-mapped address is a parameter.                    *)
(***************************************************************************)
EXTENDS PacketBuffer

CONSTANTS ZeroLen,   \* leading zero bytes of an IPv4-mapped address (10 in std)
          MarkLen,   \* 0xff bytes behind them (2 in std)
          V4Len,     \* bytes of an IPv4 address (4)
          Scopes     \* IPv6 scope ids and flow labels

IpLen == ZeroLen + MarkLen + V4Len

ASSUME LayoutAssumption == {ZeroLen, MarkLen, V4Len} \subseteq Nat \ {0}
ASSUME SizeAssumption == AddrSize = IpLen + 2
ASSUME ScopeAssumption == 0 \in Scopes /\ Scopes \subseteq Nat

-----------------------------------------------------------------------------
(* std *)

V4 == [v : {4}, host : 0 .. Radix ^ V4Len - 1, port : 0 .. PACKET_SIZE, scope : {0}]
V6 == [v : {6}, host : 0 .. Radix ^ IpLen - 1, port : 0 .. PACKET_SIZE, scope : Scopes]

to_be_bytes(n, len) == [i \in 1 .. len |-> (n \div Radix ^ (len - i)) % Radix]
from_be_bytes(bytes) ==
    LET read[i \in 0 .. Len(bytes)] == IF i = 0 THEN 0 ELSE read[i - 1] * Radix + bytes[i]
    IN  read[Len(bytes)]

\* Ipv4Addr::to_ipv6_mapped, as octets.
to_ipv6_mapped(host) ==
       [i \in 1 .. ZeroLen |-> 0] \o [i \in 1 .. MarkLen |-> Radix - 1]
    \o to_be_bytes(host, V4Len)

\* Ipv6Addr::to_canonical: the version and the number of what is left.
to_canonical(bits) ==
    LET octets == to_be_bytes(bits, IpLen)
        host == bits % Radix ^ V4Len
    IN  IF octets = to_ipv6_mapped(host) THEN <<4, host>> ELSE <<6, bits>>

-----------------------------------------------------------------------------
(* NetworkOrderU16 *)

new(x) == <<HighDigit(x), LowDigit(x)>>
get(n) == FromDigits(n[1], n[2])

-----------------------------------------------------------------------------
(* IpAddr and SocketAddr *)

\* MUTANT: an IPv4 address is put behind zeros (IPv4-compatible).
IpFromStdCompatible(z) == to_be_bytes(z.host, IpLen)

IpFromStd(z) ==
    IF z.v = 4 THEN to_ipv6_mapped(z.host) ELSE to_be_bytes(z.host, IpLen)

\* MUTANT: no to_canonical.
IpToStdPlain(ip) == <<6, from_be_bytes(ip)>>

IpToStd(ip) == to_canonical(from_be_bytes(ip))

from_std(z) == [ip |-> IpFromStd(z), port |-> new(z.port)]

\* SocketAddr::to_std, whose text Display prints.
to_std(sock) ==
    [v |-> IpToStd(sock.ip)[1], host |-> IpToStd(sock.ip)[2], port |-> get(sock.port), scope |-> 0]

-----------------------------------------------------------------------------

\* The IPv6 number an address stands for.
Number(z) == IF z.v = 6 THEN z.host
             ELSE z.host + (Radix ^ MarkLen - 1) * Radix ^ V4Len
=============================================================================
