--------------------------- MODULE AddressPolicy ----------------------------
(* Which addresses a command may be sent to: isPublicAddress and             *)
(* resolvePublicRconHost of the hosted route (src/lib/server/security.ts)    *)
(* and allowedAddress and resolveTarget of the helper (src/helper/rcon.go),  *)
(* two implementations of one policy, in two languages.  The helper may also *)
(* reach the local network.                                                  *)
(*                                                                           *)
(* An address is a family, its four octets or its eight 16-bit groups (what  *)
(* expandIpv6 and netip.ParseAddr make of its text), and whether it carries  *)
(* a zone ("%eth0").                                                         *)
EXTENDS Naturals, Sequences

Below(n) == 0..(n - 1)
Address4 == [family : {4}, parts : [1..4 -> Below(256)], zone : {FALSE}]
Address6 == [family : {6}, parts : [1..8 -> Below(65536)], zone : BOOLEAN]
Addresses == Address4 \cup Address6

(* ::ffff:a.b.c.d, and the IPv4 address in it.                               *)
IsMapped(address) ==
  /\ address.family = 6
  /\ \A i \in 1..5 : address.parts[i] = 0
  /\ address.parts[6] = 65535

Unmapped(address) ==
  [family |-> 4,
   parts |-> <<address.parts[7] \div 256, address.parts[7] % 256,
               address.parts[8] \div 256, address.parts[8] % 256>>,
   zone |-> FALSE]

-----------------------------------------------------------------------------
(* The hosted route.                                                         *)

(* isPublicIpv4                                                              *)
PublicOctets(a, b, c) ==
  /\ a \notin {0, 10, 127} /\ a < 224
  /\ ~(a = 100 /\ b \in 64..127)
  /\ ~(a = 169 /\ b = 254)
  /\ ~(a = 172 /\ b \in 16..31)
  /\ ~(a = 192 /\ (b = 168 \/ (b = 0 /\ c \in {0, 2}) \/ (b = 88 /\ c = 99)))
  /\ ~(a = 198 /\ (b \in {18, 19} \/ (b = 51 /\ c = 100)))
  /\ ~(a = 203 /\ b = 0 /\ c = 113)

(* 2000::/3 without 2001::/23, 2001:db8::/32, 2002::/16 and 3fff::/20.       *)
PublicGroups(g, h) ==
  /\ g \in 8192..16383
  /\ ~(g = 8193 /\ (h <= 511 \/ h = 3512))
  /\ g # 8194
  /\ ~(g = 16383 /\ h <= 4095)

IsPublicIpv4(address) == PublicOctets(address.parts[1], address.parts[2], address.parts[3])

IsPublicAddress(address) ==
  IF address.family = 4 THEN IsPublicIpv4(address)
  ELSE IF IsMapped(address) THEN IsPublicIpv4(Unmapped(address))
  ELSE PublicGroups(address.parts[1], address.parts[2])

LocalOctets(a, b) ==
  a \in {10, 127} \/ (a = 172 /\ b \in 16..31) \/ (a = 192 /\ b = 168)

IsLoopback6(address) == (\A i \in 1..7 : address.parts[i] = 0) /\ address.parts[8] = 1

(* fc00::/7 and ::1.                                                         *)
IsLocalAddress(address) ==
  IF address.family = 4 THEN LocalOctets(address.parts[1], address.parts[2])
  ELSE IF IsMapped(address)
    THEN LocalOctets(Unmapped(address).parts[1], Unmapped(address).parts[2])
  ELSE address.parts[1] \in 64512..65023 \/ IsLoopback6(address)

(* What RCON_ALLOW_PRIVATE_DEV outside production, or RCON_ALLOW_PRIVATE     *)
(* with the host in RCON_ALLOWED_HOSTS, add.                                 *)
HostedAllows(address, local) ==
  IsPublicAddress(address) \/ (local /\ IsLocalAddress(address))

(* resolvePublicRconHost: one bad answer blocks the host, the first answer   *)
(* is connected to.  The error is "DNS_FAILED" or "HOST_BLOCKED".            *)
HostedResolve(answers, local) ==
  IF answers = <<>> THEN [error |-> "DNS_FAILED"]
  ELSE IF \E i \in DOMAIN answers : ~HostedAllows(answers[i], local)
    THEN [error |-> "HOST_BLOCKED"]
  ELSE [address |-> answers[1]]

-----------------------------------------------------------------------------
(* The helper.                                                               *)

(* blockedNetworks: the values each leading part of a prefix may have.       *)
BlockedNetworks4 ==
  {<<{0}>>, <<{169}, {254}>>, <<{192}, {0}, {0}>>, <<{192}, {0}, {2}>>,
   <<{192}, {88}, {99}>>, <<{198}, 18..19>>, <<{198}, {51}, {100}>>,
   <<{203}, {0}, {113}>>, <<224..239>>, <<240..255>>}
BlockedNetworks6 ==
  {<<{8193}, Below(512)>>, <<{8193}, {3512}>>, <<{8194}>>, <<{16383}, Below(4096)>>,
   <<{100}, {65435}, {0}, {0}, {0}, {0}>>, <<{100}, {65435}, {1}>>}

InNetwork(network, address) == \A i \in DOMAIN network : address.parts[i] \in network[i]

(* IsUnspecified, IsMulticast, IsLinkLocalUnicast, IsLinkLocalMulticast; all *)
(* other addresses are loopback or global unicast for netip, save            *)
(* 255.255.255.255, which a blocked network contains.                        *)
IsSpecial(address) ==
  IF address.family = 4
    THEN \/ \A i \in 1..4 : address.parts[i] = 0
         \/ address.parts[1] \in 224..239
         \/ address.parts[1] = 169 /\ address.parts[2] = 254
    ELSE \/ \A i \in 1..8 : address.parts[i] = 0
         \/ address.parts[1] \in 65280..65535
         \/ address.parts[1] \in 65152..65215

(* Bug: a mapped address is judged as the IPv6 address it looks like.        *)
BugUnmap(address) == address
Unmap(address) == IF IsMapped(address) THEN Unmapped(address) ELSE address

AllowedAddress(address) ==
  LET bare == Unmap(address) IN
  /\ ~bare.zone /\ ~IsSpecial(bare)
  /\ \A network \in IF bare.family = 4 THEN BlockedNetworks4 ELSE BlockedNetworks6 :
       ~InNetwork(network, bare)

IPv4Answers(answers) == {i \in DOMAIN answers : Unmap(answers[i]).family = 4}

(* Bug: only the address that is connected to is looked at.                  *)
BugAnyBlocked(answers) == ~AllowedAddress(answers[1])
AnyBlocked(answers) == \E i \in DOMAIN answers : ~AllowedAddress(answers[i])

(* resolveTarget of a hostname: every answer is judged, IPv4 is preferred.   *)
HelperResolve(answers) ==
  IF answers = <<>> THEN [error |-> "unresolved"]
  ELSE IF AnyBlocked(answers) THEN [error |-> "restricted"]
  ELSE [address |->
          IF IPv4Answers(answers) = {} THEN answers[1]
          ELSE Unmap(answers[CHOOSE i \in IPv4Answers(answers) :
                               \A j \in IPv4Answers(answers) : i <= j])]

-----------------------------------------------------------------------------
(* The two policies fit: the helper reaches every address the hosted route   *)
(* may reach, public or, where it is configured to, local, and no local      *)
(* address passes for public.  (An address with a zone is a matter of the    *)
(* helper alone: expandIpv6 drops zones.)                                    *)
HostedWithinHelper(address) ==
  ~address.zone =>
    /\ HostedAllows(address, TRUE) => AllowedAddress(address)
    /\ ~(IsPublicAddress(address) /\ IsLocalAddress(address))

(* An IPv4 address is judged alike in its IPv4-mapped form, everywhere.      *)
MappedJudgedAsIPv4(address) ==
  IsMapped(address) =>
    /\ IsPublicAddress(address) <=> IsPublicAddress(Unmapped(address))
    /\ IsLocalAddress(address) <=> IsLocalAddress(Unmapped(address))
    /\ AllowedAddress(address) <=> AllowedAddress(Unmapped(address))

(* Both connect only to an answer that was judged, and what the hosted route *)
(* resolves the helper resolves too.                                         *)
PinnedIsPermitted(answers, local) ==
  LET hosted == HostedResolve(answers, local)
      helper == HelperResolve(answers)
      bare == {Unmap(answers[i]) : i \in DOMAIN answers}
  IN /\ "address" \in DOMAIN hosted =>
          hosted.address = answers[1] /\ HostedAllows(hosted.address, local)
     /\ "address" \in DOMAIN helper =>
          Unmap(helper.address) \in bare /\ AllowedAddress(helper.address)
     /\ "address" \in DOMAIN hosted /\ (\A i \in DOMAIN answers : ~answers[i].zone) =>
          "address" \in DOMAIN helper
=============================================================================
