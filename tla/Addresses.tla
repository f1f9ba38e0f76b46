----------------------------- MODULE Addresses ------------------------------
(***************************************************************************)
(* network::address (common/network/address.cpp): what the clients of the  *)
(* server are found by, and what the client knows the server's packets by. *)
(*                                                                         *)
(* A text is the sequence of what stands between its colons.  Host names   *)
(* and numbers are strings; what getaddrinfo knows of a host is Known.  An *)
(* IPv4 address is its four bytes.                                         *)
(***************************************************************************)
EXTENDS Naturals, Sequences, SequencesExt

CONSTANTS
    Words,      \* what stands between the colons of a host
    Known,      \* host -> the addresses getaddrinfo lists for it
    Numbers,    \* the numbers that stand in texts
    Decimal,    \* number -> its text
    Ipv4Text    \* IPv4 address -> what inet_ntop makes of it

Unspecified == [family |-> "unspec", ip |-> <<>>, port |-> 0, scope |-> 0]

GetPort(a) == IF a.family = "unspec" THEN 0 ELSE a.port

\* An empty set: the operation throws.
SetPort(a, port) ==
    IF a.family = "unspec" THEN {} ELSE {[a EXCEPT !.port = port % 65536]}

SetIpv4(ip) == [family |-> "v4", ip |-> ip, port |-> 0, scope |-> 0]

SetIpv6(ip) == [family |-> "v6", ip |-> ip, port |-> 0, scope |-> 0]

GetSize(a) == CASE a.family = "v4" -> 16 [] a.family = "v6" -> 28 [] OTHER -> 16

\* From a sockaddr of the given length.
SetAddress(addr, length) ==
    IF \/ addr.family = "v4" /\ length >= 16
       \/ addr.family = "v6" /\ length = 28
    THEN {addr}
    ELSE {}

IsSupported(a) == a.family \in {"v4", "v6"}

\* mutation: all that the structure holds is compared
EqualAll(a, b) == a = b /\ IsSupported(a)

Equal(a, b) ==
    /\ a.family = b.family
    /\ GetPort(a) = GetPort(b)
    /\ IsSupported(a)
    /\ a.ip = b.ip

\* What std::hash combines.
HashOf(a) == <<a.family, GetPort(a), IF IsSupported(a) THEN a.ip ELSE <<>>>>

IsLocal(a) ==
    /\ a.family = "v4"
    /\ \/ a.ip[1] = 10
       \/ a.ip[1] = 192 /\ a.ip[2] = 168
       \/ a.ip[1] = 172 /\ 16 <= a.ip[2] /\ a.ip[2] < 32
       \/ a.ip = <<127, 0, 0, 1>>

-----------------------------------------------------------------------------
(* Texts *)

\* to_string; an IPv6 address has colons of its own, so it stands in brackets.
TextOf(a) ==
    CASE a.family = "v4" -> <<Ipv4Text[a.ip], Decimal[GetPort(a)]>>
      [] a.family = "v6" -> <<"[">> \o a.ip \o <<"]", Decimal[GetPort(a)]>>
      [] OTHER -> <<"?", Decimal[GetPort(a)]>>

Atoi(text) ==
    IF \E n \in Numbers : Decimal[n] = text
    THEN CHOOSE n \in Numbers : Decimal[n] = text
    ELSE 0

ResolveMultiple(host) == IF host \in DOMAIN Known THEN Known[host] ELSE <<>>

\* The first address of the family, if there is one.
FirstOf(list, families) ==
    {list[i] : i \in {j \in DOMAIN list :
                         /\ list[j].family \in families
                         /\ \A k \in 1 .. j - 1 : list[k].family \notin families}}

\* With the port that stood there before.
Resolve(a, host, families) ==
    UNION {SetPort(f, GetPort(a)) :
              f \in UNION {SetAddress(r, GetSize(r)) :
                              r \in FirstOf(ResolveMultiple(host), families)}}

\* The last colon divides the host from the port.
Parse(text, families) ==
    IF Len(text) = 1
    THEN Resolve(Unspecified, text, families)
    ELSE UNION {SetPort(a, Atoi(Last(text))) :
                   a \in Resolve(Unspecified, Front(text), families)}

-----------------------------------------------------------------------------
(* What addresses there are: recvfrom gives an IPv4 address no scope. *)

LastPort == 65535

Ports == 0 .. LastPort

IsAddress(a) ==
    \/ a = Unspecified
    \/ a \in [family : {"v4"}, ip : [1 .. 4 -> 0 .. 255], port : Ports, scope : {0}]
    \/ a \in [family : {"v6"}, ip : Seq(Words), port : Ports, scope : Nat]

\* getaddrinfo and inet_ntop: a host has addresses and no ports, no host has brackets,
\* and an IPv4 address as a text is a host that has this one address.
HostsAssumption ==
    /\ Numbers \subseteq Nat
    /\ "[" \notin Words
    /\ \A m, n \in Numbers : Decimal[m] = Decimal[n] => m = n
    /\ \A host \in DOMAIN Known :
          /\ host \in Seq(Words) /\ host # <<>>
          /\ \A i \in DOMAIN Known[host] :
                LET r == Known[host][i] IN IsAddress(r) /\ IsSupported(r) /\ r.port = 0
    /\ \A ip \in DOMAIN Ipv4Text :
          /\ <<Ipv4Text[ip]>> \in DOMAIN Known
          /\ FirstOf(Known[<<Ipv4Text[ip]>>], {"v4"}) = {SetIpv4(ip)}

-----------------------------------------------------------------------------
(* Properties of some addresses *)

\* The client map finds a sender again whatever link it is heard on: == is an
\* equivalence on what recvfrom can fill in, the hash agrees with it, and an
\* address that was never filled in is found by nobody, itself included
\* (address.cpp:77-99, 356-375).
SendersAreKeys(a, b, c) ==
    /\ IsSupported(a) => Equal(a, a)
    /\ Equal(a, b) => Equal(b, a) /\ HashOf(a) = HashOf(b)
    /\ Equal(a, b) /\ Equal(b, c) => Equal(a, c)
    /\ Equal(a, [a EXCEPT !.scope = b.scope]) <=> IsSupported(a)
    /\ ~IsSupported(a) => ~Equal(a, b) /\ ~Equal(b, a)

\* A text names an address: what is printed of an IPv4 address is parsed as the
\* same one, a name gives the first address of the family that is asked for at
\* the port behind the last colon.  What is printed of an IPv6 address is not a
\* host (address.cpp:159-182, 293-330).
TextsName(a, families) ==
    /\ a.family = "v4" => Parse(TextOf(a), {"v4"}) = {a}
    /\ a.family = "v6" => Parse(TextOf(a), {"v4", "v6"}) = {}
    /\ \A host \in DOMAIN Known, n \in Numbers :
          Parse(host \o <<Decimal[n]>>, families) =
             {[r EXCEPT !.port = n % 65536] : r \in FirstOf(Known[host], families)}

\* The first three bytes, as one number.
Net(x, y, z) == (x * 256 + y) * 256 + z

\* The private networks and the one loopback address, as the intervals the code's
\* comments name (address.cpp:191-218).
LocalIsPrivate(a) ==
    LET n == Net(a.ip[1], a.ip[2], a.ip[3])
    IN  a.family = "v4" =>
          (IsLocal(a) <=>
              \/ Net(10, 0, 0) <= n /\ n <= Net(10, 255, 255)
              \/ Net(172, 16, 0) <= n /\ n <= Net(172, 31, 255)
              \/ Net(192, 168, 0) <= n /\ n <= Net(192, 168, 255)
              \/ n = Net(127, 0, 0) /\ a.ip[4] = 1)
=============================================================================
