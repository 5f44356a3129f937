------------------------------- MODULE Access -------------------------------
(***************************************************************************)
(* Who may come from where: addresses and ranges (lib/netip.js), the rules *)
(* and country lists (lib/access.js), and where an address is             *)
(* (lib/geo.js).                                                           *)
(*                                                                         *)
(* An address as written is a form and a number of the width of its        *)
(* family; "mapped" is an IPv4 address in IPv6 clothes.  Case, ports,      *)
(* brackets and zero compression, which canonicalizeIp also folds, do not  *)
(* exist here.                                                             *)
(***************************************************************************)
EXTENDS Integers, FiniteSets

CONSTANTS
    Width4, Width6,  \* bits of an address: 32 and 128
    Private,         \* the canonical addresses of PRIVATE_CIDRS
    CountryOf        \* a function: what a working provider answers

ASSUME WidthAssumption == Width4 \in Nat \ {0} /\ Width6 \in Nat \ {0}

NoAddress == [form |-> "none", n |-> 0]   \* '' and whatever is no address
IsIp(ip) == DOMAIN ip = DOMAIN NoAddress /\ ip.n \in Int
NoCountry == "no country"
HostRoute == -1                           \* a range written without a prefix

----------------------------------------------------------------------------
(* netip.js *)

CanonicalizeIp(ip) == IF ip.form = "mapped" THEN [ip EXCEPT !.form = "v4"] ELSE ip

Bits(form) == IF form = "v4" THEN Width4 ELSE Width6

IsAddress(ip) == ip.form \in {"v4", "v6"}

\* The address is canonicalized, its prefix is not: a mapped range keeps a
\* prefix that counts 128 bits.
Prefix(cidr) ==
    IF cidr.prefix = HostRoute THEN Bits(CanonicalizeIp(cidr.ip).form) ELSE cidr.prefix

IsValidCidr(cidr) ==
    LET canon == CanonicalizeIp(cidr.ip)
    IN  IsAddress(canon) /\ Prefix(cidr) \in 0..Bits(canon.form)

\* What the mask leaves of a number.
Masked(n, bits, prefix) == n \div 2^(bits - prefix)

\* Mutant: the range is compared as it was written.
InCidrAsWritten(ip, cidr) ==
    /\ IsValidCidr(cidr)
    /\ ip.form = cidr.ip.form
    /\ LET bits == Bits(ip.form)
       IN  Masked(ip.n, bits, Prefix(cidr)) = Masked(cidr.ip.n, bits, Prefix(cidr))

IpInCidr(ip, cidr) ==
    LET canon == CanonicalizeIp(ip)
        rule == CanonicalizeIp(cidr.ip)
        bits == Bits(rule.form)
    IN  /\ IsValidCidr(cidr)
        /\ canon.form = rule.form
        /\ Masked(canon.n, bits, Prefix(cidr)) = Masked(rule.n, bits, Prefix(cidr))

----------------------------------------------------------------------------
(* access.js: the decisions *)

Blocked(rules, ip) == \E r \in rules : r.type = "block" /\ IpInCidr(ip, r.cidr)

DeniedByAllowlist(rules, ip) ==
    /\ \E r \in rules : r.type = "allow"
    /\ \A r \in rules : r.type = "allow" => ~IpInCidr(ip, r.cidr)

EvalScope(rules, ip) ==
    IF Blocked(rules, ip) THEN "ip_blocked"
    ELSE IF DeniedByAllowlist(rules, ip) THEN "ip_not_allowlisted"
    ELSE "ok"

\* A deny-list denies only a country it is sure of ...
EnforceCountryBlock(user, country) ==
    IF country \in user.blockedCountries THEN "geo_blocked" ELSE "ok"

\* ... a fence also what it does not know.
EnforceGeoFence(user, country) ==
    IF user.geoFence = {} THEN "ok"
    ELSE IF country = NoCountry THEN "geo_unknown_under_fence"
    ELSE IF country \notin user.geoFence THEN "geo_fenced"
    ELSE "ok"

\* enforceUserIp after its find: the first of the three that objects.
EnforceUserIp(user, rules, ip, country) ==
    LET byIp == EvalScope(rules, ip)
        byBlock == EnforceCountryBlock(user, country)
    IN  IF byIp # "ok" THEN byIp
        ELSE IF byBlock # "ok" THEN byBlock
        ELSE EnforceGeoFence(user, country)

----------------------------------------------------------------------------
(* geo.js *)

\* The lookup is made only for a user with a list.
NeedsGeo(user) == user.geoFence # {} \/ user.blockedCountries # {}

\* What ip-api or GeoLite2 may answer: the country, or null for any failure.
Provided(ip) == {CountryOf[ip], NoCountry}

\* resolveGeoProvider: no provider, or a broken one, answers null for ever.
Answers(provider, ip) ==
    IF provider \in {"none", "broken"} THEN {NoCountry} ELSE Provided(ip)

\* createGeoResolver, with its timeout, and the lookup in routes.js.
Lookup(provider, user, ip) ==
    LET canon == CanonicalizeIp(ip)
    IN  IF ~NeedsGeo(user) \/ ~IsAddress(canon) \/ canon \in Private
        THEN {NoCountry}
        ELSE Answers(provider, canon)
============================================================================
