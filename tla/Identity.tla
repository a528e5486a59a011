------------------------------ MODULE Identity ------------------------------
(***************************************************************************)
(* Whose window a request is counted in (apps/server/src/middleware/       *)
(* rate-limit.ts, resolveRateLimitIdentity).  An address is what its class *)
(* is and which one of it; a header's entry that is no address is "junk".  *)
(***************************************************************************)
EXTENDS Integers, Sequences, FiniteSets

Loopback == {"127.0.0.1"}
Private  == {"10.0.0.1", "10.0.0.2"}
Public   == {"203.0.113.1", "203.0.113.2"}
Addresses == Loopback \cup Private \cup Public

\* normalizeIp: the address an entry is, in any of its spellings, or none.
NormalizeIp(entry) == IF entry \in Addresses THEN entry ELSE "none"

\* A matcher is a class, every address, or one address.
Matches(matcher, address) ==
  \/ matcher = "*"
  \/ matcher = "loopback" /\ address \in Loopback
  \/ matcher = "private" /\ address \in Private
  \/ matcher = address
IsTrustedProxyAddress(address, config) ==
  \E matcher \in config.matchers : Matches(matcher, address)

\* parseForwardedHeader drops what is no address.
ParseForwardedHeader(header) ==
  LET IsAddress(entry) == NormalizeIp(entry) # "none" IN SelectSeq(header, IsAddress)

\* The entry that the outermost of the trusted hops added.
SelectFromChain(ips, hops) ==
  LET index == Len(ips) + 1 - hops IN
  IF index \in DOMAIN ips THEN ips[index] ELSE "none"

OrElse(a, b) == IF a # "none" THEN a ELSE b
FirstOf(ips) == IF ips = <<>> THEN "none" ELSE Head(ips)

ResolveRateLimitIdentity(input, config) ==
  LET remote    == NormalizeIp(input.remote)
      forwarded == ParseForwardedHeader(input.forwarded)
      real      == NormalizeIp(input.real)
  IN CASE ~config.trustProxy -> OrElse(remote, "unknown")
       [] config.trustProxy /\ remote = "none" ->
            OrElse(real, OrElse(FirstOf(forwarded), "unknown"))
       [] config.trustProxy /\ remote # "none" /\ ~IsTrustedProxyAddress(remote, config) -> remote
       [] OTHER -> OrElse(SelectFromChain(forwarded, config.trustedHops), OrElse(real, remote))

\* The configuration comes from three environment variables, each of which may
\* be missing or make no sense: "unset" and "junk", or -1 for the number.
ParseBoolean(value, fallback) ==
  CASE value \in {"1", "true", "yes", "on"} -> TRUE
    [] value \in {"0", "false", "no", "off"} -> FALSE
    [] OTHER -> fallback
ParseTrustedHops(value, fallback) == IF value < 0 THEN fallback ELSE value

BuildTrustedProxyConfig(env) ==
  [trustProxy  |-> ParseBoolean(env.trust, TRUE),
   trustedHops |-> ParseTrustedHops(env.hops, 1),
   matchers    |-> IF env.proxies = {"unset"} THEN {"loopback", "private"} ELSE env.proxies]

Environments ==
  [trust : {"unset", "junk", "off"}, hops : -1..2,
   proxies : {{"unset"}, {}, {"10.0.0.1"}, {"*"}}]
Configs == {BuildTrustedProxyConfig(env) : env \in Environments}
DefaultConfig == BuildTrustedProxyConfig([trust |-> "unset", hops |-> -1, proxies |-> {"unset"}])

Entries == Addresses \cup {"junk"}
ForwardedHeaders == UNION {[1..n -> Entries] : n \in 0..2}
IdentityInputs == [remote : Addresses, forwarded : ForwardedHeaders, real : {"none", "203.0.113.2"}]

(* A caller that does not come through a trusted proxy is counted as the   *)
(* address of its connection, whatever its headers say.  One that comes    *)
(* through the trusted hops is counted as the address they saw, whatever   *)
(* it wrote in front of what they added.                                   *)
ASSUME IdentityStands ==
  \A config \in Configs, input \in IdentityInputs :
    LET key == ResolveRateLimitIdentity(input, config) IN
    /\ key \in Addresses
    /\ ~config.trustProxy \/ ~IsTrustedProxyAddress(input.remote, config) => key = input.remote
    /\ config = DefaultConfig /\ IsTrustedProxyAddress(input.remote, config) =>
         \A seen \in Public :
           ResolveRateLimitIdentity([input EXCEPT !.forwarded = Append(@, seen)], config) = seen
=============================================================================
