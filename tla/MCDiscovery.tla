----------------------------- MODULE MCDiscovery ----------------------------
(***************************************************************************)
(* Two storage contracts, a proxy, and an unverified copy of the first      *)
(* storage contract; the proxy may point to any of them, or to itself.     *)
(***************************************************************************)
EXTENDS Discovery

CONSTANTS first, second, proxy, other

CodeOf == [c \in {first, second, proxy, other, ZeroAddress} |->
              IF c = other THEN first ELSE c]
=============================================================================
