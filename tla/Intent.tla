------------------------------- MODULE Intent -------------------------------
(***************************************************************************)
(* wallet.convert() and wallet.quote() (wallet-engine/convert/intent.ts):   *)
(* an intent is resolved to one route of the table, refused before anything *)
(* moves when a backend of it is not creating swaps, and executed: a single *)
(* leg here, several legs by the plans of ConversionPlans.  The result of a *)
(* leg is waited for, up to a timeout, by asking the provider or by its     *)
(* `completion` promise.                                                    *)
(*                                                                          *)
(* The conversions of one process share the provider answers of Providers.  *)
(* What the providers do with the money is their choice; what the wallet    *)
(* says of it is the code's.                                                *)
(***************************************************************************)
EXTENDS Providers, Routes

CONSTANTS Workloads, \* who asks what: [op, sel, route (<<>> for any), wait]
          MaxFlips   \* times a backend is switched on or off

ASSUME IntentAssumption ==
  /\ \A w \in Workloads : \A c \in Callers : w[c].op \in {"convert", "quote", "pin", "none"}
  /\ MaxFlips \in Nat

VARIABLES
  intent,   \* what each conversion was asked
  pc, awaits, route,
  rails,    \* the rails it found open
  offers,   \* the providers its swap is still to be offered to
  funds,    \* where the value of its leg is
  result,   \* its ConvertStatus, or "error", or "quoted"
  quotes,   \* the quotes it got: [route, received, available, feeTotal]
  flips     \* flips so far

intentVars == <<intent, pc, awaits, route, rails, offers, funds, result, quotes, flips>>
vars == <<providerVars, intentVars>>

Inflows == {"pegIn", "receive", "receiveLightning"}
Polled == {"pegOut", "send"}
Statuses == {"settled", "pending", "awaiting_funding", "refunded", "refund_pending", "failed", "error",
             "quoted", "pinned"}

\* boltzRailOf
RailOf(leg) ==
  CASE leg.method = "toStablecoin" -> {"stablecoin"}
    [] leg.method \in {"payLightningInvoice", "receiveLightning"} -> {"lightning"}
    [] OTHER -> {}
RailsOf(r) == UNION {RailOf(r[i]) : i \in DOMAIN r}

Method(c) == route[c][1].method

TypeOK ==
  /\ ProvidersTypeOK
  /\ \A c \in Callers :
       /\ intent[c].op \in {"convert", "quote", "pin", "none"}
       /\ pc[c] \in {"asked", "checkLightning", "checkStablecoin", "leg", "openStream",
                     "selectProvider", "assertLive", "offering", "fund", "polling",
                     "completing", "refunding", "quoting", "multihop", "done"}
       /\ (pc[c] = "done") = (result[c] # "none" \/ intent[c].op = "none")
       /\ result[c] \in Statuses \cup {"none"}
       /\ funds[c] \in {"home", "flying", "delivered", "returned", "stuck"}
       /\ rails[c] \subseteq {"lightning", "stablecoin"}
       /\ funds[c] # "home" => Len(route[c]) = 1
  /\ flips \in 0 .. MaxFlips

Init ==
  /\ \E on \in SUBSET ProviderIds : ProvidersInit(on)
  /\ intent \in Workloads
  /\ pc = [c \in Callers |-> IF intent[c].op = "none" THEN "done" ELSE "asked"]
  /\ quotes = [c \in Callers |-> {}]
  /\ awaits = [c \in Callers |-> NoPromise]
  /\ route = [c \in Callers |-> <<>>]
  /\ rails = [c \in Callers |-> {}]
  /\ offers = [c \in Callers |-> <<>>]
  /\ funds = [c \in Callers |-> "home"]
  /\ result = [c \in Callers |-> "none"]
  /\ flips = 0

Goto(c, l) == pc' = [pc EXCEPT ![c] = l] /\ UNCHANGED result
Ends(c, status) == pc' = [pc EXCEPT ![c] = "done"] /\ result' = [result EXCEPT ![c] = status]
Fails(c) == Ends(c, "error")

----------------------------------------------------------------------------
\* convertIntent

\* resolveSingleRoute: the route asked for; else the only single-hop one; else the
\* only one there is; else the caller has to choose.
ResolveSingleRoute(sel, wanted) ==
  LET routes == EnumerateRoutes(sel)
      singleHop == {r \in routes : Len(r) = 1}
  IN  CASE wanted # <<>> -> routes \cap {wanted}
        [] wanted = <<>> /\ Cardinality(singleHop) = 1 -> singleHop
        [] wanted = <<>> /\ Cardinality(routes) = 1 -> routes
        [] OTHER -> {}

\* A route of several legs is executed behind a plan (ConversionPlans).
Begin(c, r) == Goto(c, IF Len(r) > 1 THEN "multihop" ELSE "leg")

Convert(c) ==
  /\ pc[c] = "asked" /\ intent[c].op = "convert"
  /\ LET found == ResolveSingleRoute(intent[c].sel, intent[c].route)
     IN  /\ found = {} => Fails(c) /\ UNCHANGED <<route, lightningVars, awaits>>
         /\ \A r \in found :
              /\ route' = [route EXCEPT ![c] = r]
              /\ IF RailsOf(r) = {}
                 THEN Begin(c, r) /\ UNCHANGED <<lightningVars, awaits>>
                 ELSE /\ SelectSwapProvider(<<c, "check">>)
                      /\ awaits' = [awaits EXCEPT ![c] = selection']
                      /\ Goto(c, "checkLightning")
  /\ UNCHANGED <<creating, flipped, stablecoinVars, overdue, intent, rails, offers, funds, quotes, flips>>

\* boltzRouteAvailability asks for both rails, one after the other.
PromiseSettled(c) == awaits[c] # NoPromise /\ ~Walking(awaits[c])
Outcome(c) == walk[awaits[c]].outcome

\* The word of the operator, which is no walk, is not timed.
Heard(c) == IF walk[awaits[c]].at = 0 THEN UNCHANGED overdue ELSE HearWalk(Outcome(c))

\* The stablecoin rail is answered at once, or by the kept probe.
AwaitStablecoin(c, stage) ==
  /\ AskStablecoin(<<c, stage>>)
  /\ awaits' = [awaits EXCEPT ![c] = IF StablecoinAnswered THEN NoPromise ELSE liveness']

CheckedLightning(c) ==
  /\ pc[c] = "checkLightning" /\ PromiseSettled(c)
  /\ rails' = [rails EXCEPT ![c] = IF Outcome(c) \in ProviderIds THEN {"lightning"} ELSE {}]
  /\ Heard(c)
  /\ AwaitStablecoin(c, "check")
  /\ Goto(c, "checkStablecoin")
  /\ UNCHANGED <<creating, flipped, lightningVars, intent, route, offers, funds, quotes, flips>>

StablecoinSettled(c) == awaits[c] # NoPromise => probe[awaits[c]] \in {"live", "dead"}
StablecoinLive(c) == awaits[c] # NoPromise => probe[awaits[c]] = "live"

HeardStablecoin(c) ==
  IF pinned # "none" /\ StablecoinLive(c) THEN UNCHANGED overdue ELSE HearStablecoin(StablecoinLive(c))

\* assertRouteCreatable: every leg's rail has to be open.
AssertRouteCreatable(c) == RailsOf(route[c]) \subseteq rails'[c]

CheckedStablecoin(c) ==
  /\ pc[c] = "checkStablecoin" /\ StablecoinSettled(c)
  /\ rails' = [rails EXCEPT ![c] = IF StablecoinLive(c) THEN @ \cup {"stablecoin"} ELSE @]
  /\ HeardStablecoin(c)
  /\ IF intent[c].op = "quote" THEN Goto(c, "quoting")
     ELSE IF AssertRouteCreatable(c) THEN Begin(c, route[c]) ELSE Fails(c)
  /\ UNCHANGED <<creating, flipped, lightningVars, stablecoinVars, intent, awaits, route,
                 offers, funds, quotes, flips>>

----------------------------------------------------------------------------
\* quoteRoutes: every candidate route, its legs estimated one after the other. The
\* providers are asked once, and only if a route transits one.

AskForQuotes(c) ==
  /\ pc[c] = "asked" /\ intent[c].op = "quote"
  /\ LET routes == EnumerateRoutes(intent[c].sel)
     IN  IF \A r \in routes : RailsOf(r) = {}
         THEN /\ IF routes = {} THEN Fails(c) ELSE Goto(c, "quoting")
              /\ UNCHANGED <<lightningVars, awaits>>
         ELSE /\ SelectSwapProvider(<<c, "check">>)
              /\ awaits' = [awaits EXCEPT ![c] = selection']
              /\ Goto(c, "checkLightning")
  /\ UNCHANGED <<creating, flipped, stablecoinVars, overdue, intent, route, rails, offers, funds,
                 quotes, flips>>

\* estimateLeg: the assets its fee may be in when it is estimated; a peg and a
\* SideShift receive have no estimator, and any other estimate may fail.
FeeAssets(leg) ==
  CASE leg.method = "swap" -> {leg.from, leg.to, "unknown"}
    [] leg.method \in {"receiveLightning", "toStablecoin"} -> {"LBTC"}
    [] leg.method = "send" -> {"USDT"}
    [] OTHER -> {}

\* Mutant: a closed rail does not stop the estimates.
EstimatesWhenClosed(r, open) == {i \in DOMAIN r : FeeAssets(r[i]) # {}}

\* The legs of a route that can be estimated: its rail is open, it has an estimator.
Estimable(r, open) == {i \in DOMAIN r : RailOf(r[i]) \subseteq open /\ FeeAssets(r[i]) # {}}

\* quoteRoute: a leg is estimated from the receipt of the one before, so the first n
\* legs are, n at most the first that cannot be. Fees in one asset are added up.
RouteQuotes(r, open) ==
  LET reachable == {n \in 0 .. Len(r) : 1 .. n \subseteq Estimable(r, open)}
      fees(n) == {f \in [1 .. n -> UNION {FeeAssets(r[i]) : i \in DOMAIN r}] :
                    \A i \in 1 .. n : f[i] \in FeeAssets(r[i])}
      total(f) == IF DOMAIN f = DOMAIN r /\ "unknown" \notin {f[i] : i \in DOMAIN f}
                       /\ Cardinality({f[i] : i \in DOMAIN f}) = 1
                  THEN f[1] ELSE "none"
  IN  UNION {{[route |-> r, received |-> n = Len(r), available |-> RailsOf(r) \subseteq open,
               feeTotal |-> total(f)] : f \in fees(n)} : n \in reachable}

\* Each route gets one quote; the results are collected here for all outcomes.
QuoteRoutes(c) ==
  /\ pc[c] = "quoting"
  /\ quotes' = [quotes EXCEPT ![c] =
                  UNION {RouteQuotes(r, rails[c]) : r \in EnumerateRoutes(intent[c].sel)}]
  /\ Ends(c, "quoted")
  /\ UNCHANGED <<providerVars, intent, awaits, route, rails, offers, funds, flips>>

----------------------------------------------------------------------------
\* executeLeg

\* executePegIn, executeSideshiftReceive: an address to fund, or an error.
ExecutePegIn(c) == Method(c) = "pegIn" /\ (Ends(c, "awaiting_funding") \/ Fails(c))
ExecuteShiftReceive(c) == Method(c) = "receive" /\ (Ends(c, "awaiting_funding") \/ Fails(c))

ExecuteInflow(c) ==
  /\ pc[c] = "leg"
  /\ ExecutePegIn(c) \/ ExecuteShiftReceive(c)
  /\ UNCHANGED <<providerVars, intent, awaits, route, rails, offers, funds, quotes, flips>>

\* executeMarketSwap: a quote stream, one quote, its execution. SideSwap broadcasts,
\* so the execution can fail for the wallet after the swap happened.
ExecuteMarketSwap(c) ==
  /\ pc[c] = "leg" /\ Method(c) = "swap"
  /\ \/ funds' = [funds EXCEPT ![c] = "delivered"] /\ (Ends(c, "settled") \/ Fails(c))
     \/ UNCHANGED funds /\ Fails(c)
  /\ UNCHANGED <<providerVars, intent, awaits, route, rails, offers, quotes, flips>>

\* executePayLightning, executeReceiveLightning: the swap is offered to the selected
\* backend, then to the rest.
ExecuteLightning(c) ==
  /\ pc[c] = "leg" /\ Method(c) \in {"payLightningInvoice", "receiveLightning"}
  /\ SelectSwapProvider(<<c, "create">>)
  /\ awaits' = [awaits EXCEPT ![c] = selection']
  /\ Goto(c, "selectProvider")
  /\ UNCHANGED <<creating, flipped, stablecoinVars, overdue, intent, route, rails, offers, funds,
                 quotes, flips>>

LightningProvider(c) ==
  /\ pc[c] = "selectProvider" /\ PromiseSettled(c)
  /\ Heard(c)
  /\ IF Outcome(c) \in ProviderIds
     THEN Goto(c, "offering") /\ offers' = [offers EXCEPT ![c] = ProvidersFrom(Outcome(c))]
     ELSE Fails(c) /\ UNCHANGED offers
  /\ UNCHANGED <<creating, flipped, lightningVars, stablecoinVars, intent, awaits, route, rails,
                 funds, quotes, flips>>

\* executeToStablecoin: toStablecoin asks again before it creates its swap on Boltz.
ExecuteToStablecoin(c) ==
  /\ pc[c] = "leg" /\ Method(c) = "toStablecoin"
  /\ AwaitStablecoin(c, "create")
  /\ Goto(c, "assertLive")
  /\ UNCHANGED <<creating, flipped, lightningVars, overdue, intent, route, rails, offers, funds,
                 quotes, flips>>

StablecoinProviderLive(c) ==
  /\ pc[c] = "assertLive" /\ StablecoinSettled(c)
  /\ HeardStablecoin(c)
  /\ IF StablecoinLive(c)
     THEN Goto(c, "offering") /\ offers' = [offers EXCEPT ![c] = <<StablecoinProvider>>]
     ELSE Fails(c) /\ UNCHANGED offers
  /\ UNCHANGED <<creating, flipped, lightningVars, stablecoinVars, intent, awaits, route, rails,
                 funds, quotes, flips>>

\* A created swap: an invoice to be paid to the wallet, or a lockup to be funded.
Created(c) ==
  IF Method(c) = "receiveLightning" THEN Ends(c, "awaiting_funding") ELSE Goto(c, "fund")

\* createOnFirstWillingProvider, and prepareStablecoinRoute on the pinned backend:
\* a backend that does not create swaps refuses, and the next one is asked; one of
\* the wallet's own guards ends it.
OfferSwap(c) ==
  /\ pc[c] = "offering"
  /\ \/ /\ Head(offers[c]) \in creating
        /\ Created(c)
        /\ UNCHANGED <<offers, selection>>
     \/ /\ Head(offers[c]) \notin creating
        /\ offers' = [offers EXCEPT ![c] = Tail(@)]
        /\ IF Method(c) = "toStablecoin" THEN UNCHANGED selection ELSE InvalidateSelection
        /\ IF offers'[c] = <<>> THEN Fails(c) ELSE Goto(c, "offering")
     \/ Fails(c) /\ UNCHANGED <<offers, selection>>
  /\ UNCHANGED <<creating, flipped, walk, selectionAge, pinned, selected, stablecoinVars, overdue,
                 intent, awaits, route, rails, funds, quotes, flips>>

\* The transaction that funds the leg. It can fail before anything moved, or when
\* it may have been broadcast already (or its record not written): the leg throws.
\* The result is waited for, or not.
FundOut(c) ==
  /\ \/ pc[c] = "leg" /\ Method(c) \in Polled
     \/ pc[c] = "fund"
  /\ \/ Fails(c) /\ UNCHANGED funds
     \/ /\ funds' = [funds EXCEPT ![c] = "flying"]
        /\ \/ Fails(c)
           \/ IF ~intent[c].wait THEN Ends(c, "pending")
              ELSE Goto(c, IF Method(c) \in Polled THEN "polling" ELSE "completing")
  /\ UNCHANGED <<providerVars, intent, awaits, route, rails, offers, quotes, flips>>

\* What becomes of the money outside this call, before it answers or after: the
\* provider delivers it, sends it back or gives up on it ("stuck", where only a refund
\* of the wallet's or a word to the provider frees it, here or in a recovery beside).
Fate(c) ==
  /\ \/ /\ funds[c] = "flying"
        /\ \E fate \in {"delivered", "returned", "stuck"} : funds' = [funds EXCEPT ![c] = fate]
     \/ funds[c] = "stuck" /\ funds' = [funds EXCEPT ![c] = "returned"]
  /\ UNCHANGED <<providerVars, intent, pc, awaits, route, rails, offers, result, quotes, flips>>

\* executePegOut: an order is over only when it is done.
PegOutTells(c) == IF funds[c] = "delivered" THEN {"settled"} ELSE {}

\* executeSideshiftSend: a shift is over when settled, refunded or expired.
ShiftTells(c) ==
  CASE funds[c] = "delivered" -> {"settled"}
    [] funds[c] = "returned" -> {"refunded"}
    [] funds[c] = "stuck" -> {"failed"}
    [] OTHER -> {}

PollTells(c) == IF Method(c) = "send" THEN ShiftTells(c) ELSE PegOutTells(c)

\* Mutant: the deadline is not looked at.
NeverTimesOut(c) == FALSE /\ Ends(c, "pending")

\* Past the timeout the result is pending, with how to follow it up.
TimesOut(c) == Ends(c, "pending")

\* pollUntil: a status that is not terminal (or no longer, when its answer took long)
\* is asked for again, until the timeout; a request that fails is the caller's failure.
PollUntil(c) ==
  /\ pc[c] = "polling"
  /\ (\E status \in PollTells(c) : Ends(c, status)) \/ TimesOut(c)
  /\ UNCHANGED <<providerVars, intent, awaits, route, rails, offers, funds, quotes, flips>>

PollThrows(c) ==
  /\ pc[c] = "polling"
  /\ Fails(c)
  /\ UNCHANGED <<providerVars, intent, awaits, route, rails, offers, funds, quotes, flips>>

\* watchSubmarine: Boltz says the swap is paid or refunded, and the completion ends;
\* or that it gave up, and the wallet's own refund begins unless one is running.
SubmarineStatus(c) ==
  /\ pc[c] \in {"completing", "refunding"} /\ Method(c) = "payLightningInvoice"
  /\ \/ funds[c] = "delivered" /\ Ends(c, "settled")
     \/ funds[c] = "returned" /\ Ends(c, "refunded")
     \/ funds[c] = "stuck" /\ pc[c] = "completing" /\ Goto(c, "refunding")
  /\ UNCHANGED <<providerVars, intent, awaits, route, rails, offers, funds, quotes, flips>>

\* The watch could not be started: the swap, already funded, is called failed.
SubscribeThrows(c) ==
  /\ pc[c] = "completing" /\ Method(c) = "payLightningInvoice"
  /\ Ends(c, "failed")
  /\ UNCHANGED <<providerVars, intent, awaits, route, rails, offers, funds, quotes, flips>>

\* Mutant: a refund that did not throw is taken for one that was broadcast.
RefundTaken(c) ==
  /\ pc[c] = "refunding"
  /\ Ends(c, "refunded") /\ UNCHANGED funds
  /\ UNCHANGED <<providerVars, intent, awaits, route, rails, offers, quotes, flips>>

\* refundOne: too early, or without a record that can be read, the refund is pending;
\* without refund keys it is parked. Broadcast, the money is back, whether the call
\* learns of it or throws; after a throw the next status tries again.
RefundOne(c) ==
  /\ pc[c] = "refunding"
  /\ \/ /\ UNCHANGED funds
        /\ Ends(c, "refund_pending") \/ Ends(c, "failed") \/ Goto(c, "completing")
     \/ /\ funds' = [funds EXCEPT ![c] = "returned"]
        /\ Ends(c, "refunded") \/ Goto(c, "completing")
  /\ UNCHANGED <<providerVars, intent, awaits, route, rails, offers, quotes, flips>>

\* executeStablecoin: a record that is gone is a failure; one that cannot be read, and
\* any failure on the way (its claim may have gone out), is left to a recovery.
ExecuteStablecoin(c) ==
  /\ pc[c] = "completing" /\ Method(c) = "toStablecoin"
  /\ \/ /\ UNCHANGED funds
        /\ Ends(c, "failed") \/ Ends(c, "pending")
     \/ /\ funds[c] = "flying" /\ funds' = [funds EXCEPT ![c] = "delivered"]
        /\ Ends(c, "settled") \/ Ends(c, "pending")
  /\ UNCHANGED <<providerVars, intent, awaits, route, rails, offers, quotes, flips>>

\* awaitCompletion: the timer wins the race against the completion.
CompletionTimesOut(c) ==
  /\ pc[c] \in {"completing", "refunding"}
  /\ TimesOut(c)
  /\ UNCHANGED <<providerVars, intent, awaits, route, rails, offers, funds, quotes, flips>>

\* forceSwapProvider, called by the operator's own program.
Pin(c) ==
  /\ pc[c] = "asked" /\ intent[c].op = "pin"
  /\ \E p \in ProviderIds : ForceSwapProvider(<<c, "create">>, p)
  /\ Ends(c, "pinned")
  /\ UNCHANGED <<creating, flipped, stablecoinVars, overdue, intent, awaits, route, rails, offers,
                 funds, quotes, flips>>

----------------------------------------------------------------------------
Steps(c) ==
  \/ Convert(c) \/ CheckedLightning(c) \/ CheckedStablecoin(c) \/ ExecuteInflow(c)
  \/ ExecuteMarketSwap(c) \/ ExecuteLightning(c) \/ LightningProvider(c)
  \/ ExecuteToStablecoin(c) \/ StablecoinProviderLive(c) \/ OfferSwap(c) \/ FundOut(c)
  \/ PollUntil(c) \/ SubmarineStatus(c) \/ RefundOne(c) \/ ExecuteStablecoin(c)
  \/ AskForQuotes(c) \/ QuoteRoutes(c) \/ Pin(c)

\* What may happen to a call that awaits somebody else.
Meanwhile(c) == PollThrows(c) \/ SubscribeThrows(c) \/ CompletionTimesOut(c) \/ Fate(c)

\* A continuation runs as soon as its promise is settled: no tick comes between.
Prompt ==
  \A c \in Callers :
    /\ pc[c] \in {"checkLightning", "selectProvider"} => ~PromiseSettled(c)
    /\ pc[c] \in {"checkStablecoin", "assertLive"} => ~StablecoinSettled(c)

\* A bound: backends and clock stand still when no conversion can ask them any more.
Conversing ==
  \E c \in Callers :
    intent[c].op = "convert" /\ pc[c] \notin {"fund", "polling", "completing", "refunding",
                                                     "multihop", "done"}

Backends ==
  /\ Conversing
  /\ \/ flips < MaxFlips /\ flips' = flips + 1 /\ \E p \in ProviderIds : Flip(p)
     \/ UNCHANGED flips /\ Prompt /\ Clock

Next ==
  \/ \E c \in Callers : Steps(c) \/ Meanwhile(c)
  \/ (\E w \in Promises : WalkProbed(w) \/ StablecoinProbed(w)) /\ UNCHANGED intentVars
  \/ Backends /\ UNCHANGED <<intent, pc, awaits, route, rails, offers, funds, result,
                           quotes>>

\* Probes end by their answer or their deadline, timers go off, and the event loop
\* carries on what was started; nothing makes a backend switch, or a provider keep
\* its promise.
Fairness ==
  /\ \A c \in Callers : WF_vars(Steps(c)) /\ WF_vars(CompletionTimesOut(c))
  /\ \A w \in Promises : WF_vars((WalkProbed(w) \/ StablecoinProbed(w)) /\ UNCHANGED intentVars)

Spec == Init /\ [][Next]_vars /\ Fairness

----------------------------------------------------------------------------
\* "Estimating a route the backend will refuse would advertise a receipt nobody can
\* deliver" (intent.ts): a quote that names a receipt is of a route convert() would
\* not refuse on the same answers, and so is one that adds up its fees.
QuotesAreDeliverable ==
  \A c \in Callers : \A q \in quotes[c] :
    /\ q.received => q.available
    /\ q.feeTotal # "none" => q.received

\* "A non-terminal result must never read as delivered" (intent.ts): settled means
\* that the money arrived and refunded that it came back, now and ever after, however
\* the provider's word, the wallet's own refund and the timeout crossed; a pending
\* refund is of money the provider gave up on, and so is a leg the wallet polled and
\* called failed. (A failed submarine or stablecoin swap may still be under way.)
\* Pending is said of money that left, and of an inflow that none did.
ResultsAreTrue ==
  \A c \in Callers :
    /\ result[c] = "settled" => funds[c] = "delivered"
    /\ result[c] = "refunded" => funds[c] = "returned"
    /\ result[c] = "refund_pending" => funds[c] \in {"stuck", "returned"}
    /\ result[c] = "failed" =>
         /\ funds[c] # "home"
         /\ Method(c) \in Polled => funds[c] \in {"stuck", "returned"}
    /\ result[c] \in {"pending", "awaiting_funding"} =>
         (funds[c] = "home") = (Method(c) \in Inflows)

\* Every conversion and every quote answers its caller, whatever the provider does.
EveryConvertAnswers == \A c \in Callers : <>(pc[c] \in {"done", "multihop"})

=============================================================================
