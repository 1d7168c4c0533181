------------------------------- MODULE Routes -------------------------------
(***************************************************************************)
(* The routing table of the intent layer (wallet-engine/convert/routes.ts): *)
(* which chains of provider legs take an asset from where it is to where   *)
(* it is wanted.  Pure operators, no state.  A leg is the record of its     *)
(* provider method and its two ends; whether it is custodial, and which    *)
(* provider runs it, follow from the method.  The code sorts the routes it  *)
(* returns; here they are a set.                                           *)
(***************************************************************************)
EXTENDS Naturals, FiniteSets, Sequences

UNSET == "unset"  \* no fromNetwork in the intent

LiquidAssets == {"DEPIX", "USDT", "LBTC"}
IntentAssets == LiquidAssets \cup {"BTC", "USDC"}
ShiftNetworks == {"ethereum", "tron", "bsc", "polygon", "solana"}
UsdcNetworks == {"arbitrum", "polygon", "ethereum", "optimism", "base"}
Usdt0Networks == {"arbitrum", "polygon", "ethereum", "optimism", "tron"}
IntentNetworks == {"liquid", "bitcoin", "lightning"} \cup ShiftNetworks
                    \cup UsdcNetworks \cup Usdt0Networks

Selectors == [from : IntentAssets, to : IntentAssets,
              network : IntentNetworks, fromNetwork : IntentNetworks \cup {UNSET}]

Leg(method, from, fromNetwork, to, network) ==
  [method |-> method, from |-> from, fromNetwork |-> fromNetwork,
   to |-> to, network |-> network]

MarketLeg(from, to) == Leg("swap", from, "liquid", to, "liquid")
PegInLeg == Leg("pegIn", "BTC", "bitcoin", "LBTC", "liquid")
ReceiveLightningLeg == Leg("receiveLightning", "BTC", "lightning", "LBTC", "liquid")
ShiftReceiveLeg(n) == Leg("receive", "USDT", n, "USDT", "liquid")
PegOutLeg == Leg("pegOut", "LBTC", "liquid", "BTC", "bitcoin")
PayLightningLeg == Leg("payLightningInvoice", "LBTC", "liquid", "BTC", "lightning")
ToStablecoinLeg(to, n) == Leg("toStablecoin", "LBTC", "liquid", to, n)
ShiftSendLeg(n) == Leg("send", "USDT", "liquid", "USDT", n)

BoltzVariant(asset, n) == \/ asset = "USDC" /\ n \in UsdcNetworks
                          \/ asset = "USDT" /\ n \in Usdt0Networks

OnLiquid(from, fromNetwork) == from \in LiquidAssets /\ fromNetwork \in {UNSET, "liquid"}

(* Legs that bring an asset onto Liquid. *)
EntryLegs(from, fromNetwork) ==
  CASE from = "BTC"  -> {l \in {PegInLeg, ReceiveLightningLeg} :
                           fromNetwork \in {UNSET, l.fromNetwork}}
    [] from = "USDT" -> {ShiftReceiveLeg(n) :
                           n \in {m \in ShiftNetworks : fromNetwork \in {UNSET, m}}}
    [] OTHER         -> {}

(* Legs that leave Liquid for an asset on another network. *)
ExitLegs(to, n) ==
     {l \in {PegOutLeg, PayLightningLeg} : l.to = to /\ l.network = n}
  \cup {ToStablecoinLeg(to, m) : m \in {x \in {n} : BoltzVariant(to, x)}}
  \cup {ShiftSendLeg(m) : m \in {x \in {n} : to = "USDT" /\ x \in ShiftNetworks}}

(* An entry leg, with a market hop behind it when it lands on another asset. *)
LandOn(entry, asset) ==
  IF entry.to = asset THEN <<entry>> ELSE <<entry, MarketLeg(entry.to, asset)>>

(* What it takes to hold `pivot` on Liquid, starting from `from`. *)
ReachPivot(from, fromNetwork, pivot) ==
  IF OnLiquid(from, fromNetwork)
  THEN {IF from = pivot THEN <<>> ELSE <<MarketLeg(from, pivot)>>}
  ELSE {LandOn(e, pivot) : e \in EntryLegs(from, fromNetwork)}

RoundTrip(route) == /\ Head(route).from = route[Len(route)].to
                    /\ Head(route).fromNetwork = route[Len(route)].network

(* enumerateRoutes: every candidate route for an intent. *)
EnumerateRoutes(sel) ==
  IF sel.network = "liquid" /\ sel.to \in LiquidAssets
  THEN IF OnLiquid(sel.from, sel.fromNetwork)
       THEN IF sel.from # sel.to
            THEN {<<MarketLeg(sel.from, sel.to)>>}
            ELSE {<<e>> : e \in {l \in EntryLegs("USDT", UNSET) :
                                   sel.from = "USDT" /\ sel.fromNetwork = UNSET}}
       ELSE {LandOn(e, sel.to) : e \in EntryLegs(sel.from, sel.fromNetwork)}
  ELSE {r \in UNION {{Append(p, x) : p \in ReachPivot(sel.from, sel.fromNetwork, x.from)} :
                       x \in ExitLegs(sel.to, sel.network)} : ~RoundTrip(r)}

-----------------------------------------------------------------------------
(* The reference: what the header of routes.ts says a route is, stated       *)
(* without the enumeration.  A chain of an entry, a market and an exit leg,  *)
(* each optional, in that order and joined end to end, which starts where    *)
(* the intent starts, ends where it ends, and is never twice at one place.   *)

AllEntries == EntryLegs("BTC", UNSET) \cup EntryLegs("USDT", UNSET)
AllMarkets == {MarketLeg(p[1], p[2]) : p \in {q \in LiquidAssets \X LiquidAssets : q[1] # q[2]}}
AllExits == UNION {ExitLegs(p[1], p[2]) : p \in IntentAssets \X IntentNetworks}

Start(l) == <<l.from, l.fromNetwork>>
Destination(l) == <<l.to, l.network>>

Starts(sel) ==
  IF OnLiquid(sel.from, sel.fromNetwork) /\ ~(sel = [from |-> "USDT", to |-> "USDT",
                                     network |-> "liquid", fromNetwork |-> UNSET])
  THEN {<<sel.from, "liquid">>}
  ELSE {<<sel.from, n>> : n \in {m \in IntentNetworks \ {"liquid"} :
                                   sel.fromNetwork \in {UNSET, m}}}

Optional(legs) == {<<>>} \cup {<<l>> : l \in legs}

Chains(sel) ==
  LET goal == <<sel.to, sel.network>>
      entries == {l \in AllEntries : Start(l) \in Starts(sel)}
      exits == {l \in AllExits : Destination(l) = goal}
      joined(r) == \A i \in 1 .. Len(r) - 1 : Destination(r[i]) = Start(r[i + 1])
      places(r) == {Start(Head(r))} \cup {Destination(r[i]) : i \in DOMAIN r}
  IN  {r \in {e \o m \o x : e \in Optional(entries), m \in Optional(AllMarkets), x \in Optional(exits)} :
         /\ r # <<>>
         /\ Start(Head(r)) \in Starts(sel)
         /\ Destination(r[Len(r)]) = goal
         /\ joined(r)
         /\ Cardinality(places(r)) = Len(r) + 1}

\* The enumeration offers exactly these, whatever is asked (TLC evaluates it).
ASSUME RoutesAreComplete == \A sel \in Selectors : EnumerateRoutes(sel) = Chains(sel)
=============================================================================
