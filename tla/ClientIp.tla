------------------------------ MODULE ClientIp ------------------------------
(***************************************************************************)
(* Which client a request is charged to (src/client): the peer of the      *)
(* connection, or the address a trusted proxy reports in its headers.      *)
(*                                                                         *)
(* An address is a family and its bits, the most significant first.  The   *)
(* text of an address in a header is what the parsers tell apart: the      *)
(* brackets around it and what follows it.                                 *)
(***************************************************************************)
EXTENDS Integers, Sequences

CONSTANTS V4Bits, V6Bits   \* the widths of the families, 32 and 128

ASSUME AddressAssumption == V4Bits \in Nat \ {0} /\ V6Bits \in Nat \ {0}

Families == {"v4", "v6"}
Width(family) == IF family = "v4" THEN V4Bits ELSE V6Bits

\* No address: the None of the parsers.
NoAddr == [family |-> "none", bits |-> <<>>]

\* IpAddr
IsAddr(a) ==
    /\ a = [family |-> a.family, bits |-> a.bits]
    /\ a.family \in Families /\ a.bits \in Seq({0, 1}) /\ Len(a.bits) = Width(a.family)

-----------------------------------------------------------------------------
(* Trusted networks.                                                       *)

\* x << n.  The build for release takes the shift modulo the width.
Shl(x, n, w) ==
    LET m == n % w
    IN  [k \in 1 .. w |-> IF k + m <= w THEN x[k + m] ELSE 0]

BitAnd(x, y, w) == [k \in 1 .. w |-> IF x[k] = 1 THEN y[k] ELSE 0]

AllOnes(w) == [k \in 1 .. w |-> 1]

\* Mutant: prefix 0 is shifted like the others.
MutPrefixMask(prefix, w) == Shl(AllOnes(w), w - prefix, w)

\* prefix_mask_v4, prefix_mask_v6
PrefixMask(prefix, w) ==
    IF prefix = 0 THEN [k \in 1 .. w |-> 0] ELSE Shl(AllOnes(w), w - prefix, w)

\* TrustedProxy::contains
Contains(proxy, ip) ==
    /\ proxy.network.family = ip.family
    /\ LET w == Width(ip.family)
           mask == PrefixMask(proxy.prefix, w)
       IN  BitAnd(proxy.network.bits, mask, w) = BitAnd(ip.bits, mask, w)

\* An entry of RRB_TRUSTED_PROXIES: an address, alone or with a prefix; a
\* prefix that is no number is -1.
EntryOk(entry) ==
    /\ entry.network # NoAddr
    /\ entry.slash => entry.prefix \in 0 .. Width(entry.network.family)

\* TrustedProxy::parse
ParseProxy(entry) ==
    [network |-> entry.network,
     prefix |-> IF entry.slash THEN entry.prefix ELSE Width(entry.network.family)]

IsTrusted(proxies, ip) == \E p \in proxies : Contains(p, ip)

-----------------------------------------------------------------------------
(* Headers.                                                                *)

\* The text of an address: [open, close: brackets, addr, tail], where tail is
\* what follows: "none", ":80" ("port"), ":x" ("colon") or other text ("junk").
\* The number of colons is 1 for an IPv4 address with a port or ":x".
OneColon(text) == text.addr.family = "v4" /\ text.tail \in {"port", "colon"}

\* An IPv6 address with a port and no brackets reads as another IPv6 address.
IsText(text) ==
    /\ text.open \in BOOLEAN /\ text.close \in BOOLEAN
    /\ text.tail \in {"none", "port", "colon", "junk"}
    /\ text.addr = NoAddr \/ IsAddr(text.addr)
    /\ ~(text.addr.family = "v6" /\ ~text.open /\ text.tail \in {"port", "colon"})

IsIpAddr(text) == ~text.open /\ ~text.close /\ text.tail = "none"
IsSocketAddr(text) ==
    /\ text.tail = "port"
    /\ text.open = text.close
    /\ text.open = (text.addr.family = "v6")

\* parse_ip_candidate.  Empty text, "unknown" and the like have no address.
ParseIpCandidate(text) ==
    IF \/ IsIpAddr(text) \/ IsSocketAddr(text)
       \/ text.open /\ text.close
       \/ ~text.open /\ ~text.close /\ OneColon(text)
      THEN text.addr ELSE NoAddr

\* find_map, or_else: the first of a sequence that is an address.
FirstAddr(addrs) ==
    IF \A k \in 1 .. Len(addrs) : addrs[k] = NoAddr THEN NoAddr
    ELSE addrs[CHOOSE k \in 1 .. Len(addrs) :
                  addrs[k] # NoAddr /\ \A j \in 1 .. k - 1 : addrs[j] = NoAddr]

\* header_ip: the one value of a header, none when it is absent.
HeaderIp(values) == IF values = <<>> THEN NoAddr ELSE ParseIpCandidate(values[1])

\* x_forwarded_for_ip: a list of values, between commas.
ListIp(values) == FirstAddr([k \in 1 .. Len(values) |-> ParseIpCandidate(values[k])])

\* forwarded_header_ip: entries of parts, each a key (in lower case; "" for a
\* part without "=") and a value.
ForwardedHeaderIp(entries) ==
    FirstAddr([e \in 1 .. Len(entries) |->
        LET parts == entries[e]
        IN  FirstAddr([p \in 1 .. Len(parts) |->
                IF parts[p].key = "for" THEN ParseIpCandidate(parts[p].value) ELSE NoAddr])])

\* Mutant: the header every proxy appends to comes first.
MutForwardedIp(headers) ==
    FirstAddr(<<ListIp(headers.x_forwarded_for), HeaderIp(headers.cf_connecting_ip),
                HeaderIp(headers.true_client_ip), HeaderIp(headers.x_real_ip),
                ForwardedHeaderIp(headers.forwarded)>>)

\* forwarded_ip
ForwardedIp(headers) ==
    FirstAddr(<<HeaderIp(headers.cf_connecting_ip), HeaderIp(headers.true_client_ip),
                ListIp(headers.x_forwarded_for), HeaderIp(headers.x_real_ip),
                ForwardedHeaderIp(headers.forwarded)>>)

\* Mutant: the headers of every peer are believed.
MutResolve(proxies, headers, peer) ==
    IF ForwardedIp(headers) = NoAddr THEN peer ELSE ForwardedIp(headers)

\* TrustedProxies::resolve; without RRB_TRUST_PROXY_HEADERS there are no proxies.
Resolve(proxies, headers, peer) ==
    IF ~IsTrusted(proxies, peer) \/ ForwardedIp(headers) = NoAddr
      THEN peer ELSE ForwardedIp(headers)
=============================================================================
