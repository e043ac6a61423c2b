----------------------------- MODULE MCGatewayProxy -----------------------------
(* GatewayProxy on small instances, with the limiter it shares.              *)
EXTENDS GatewayProxy, Functions

KeysOfUsers ==
  {KeyOf(class, u) : u \in Accounts,
     class \in UNION {Range(SessionClasses(x)) \cup Range(BodyClasses(x)) : x \in Routes}}

SmallLimit == [k \in KeysOfUsers |-> IF k.class = "mutation" THEN 2 ELSE 1]
=============================================================================
