------------------------------ MODULE MCIntent ------------------------------
(* Every quote alone, and conversions of every leg, two at a time.          *)
EXTENDS Intent

CONSTANTS c1, c2

Sel(from, to, network) == [from |-> from, to |-> to, network |-> network, fromNetwork |-> UNSET]

Ask(sel, r, wait) == [op |-> "convert", sel |-> sel, route |-> r, wait |-> wait]
Quote(sel) == [op |-> "quote", sel |-> sel, route |-> <<>>, wait |-> FALSE]
Idle == [op |-> "none"]

PayInvoice == Ask(Sel("LBTC", "BTC", "lightning"), <<>>, FALSE)
ReceiveInvoice == Ask(Sel("BTC", "LBTC", "liquid"), <<ReceiveLightningLeg>>, TRUE)
ToUsdc == Ask(Sel("LBTC", "USDC", "arbitrum"), <<>>, FALSE)
ToUsdcByPlan == Ask(Sel("DEPIX", "USDC", "base"), <<>>, TRUE)

\* Conversions that meet no other by the providers' answers.
Alone ==
  {Ask(Sel("LBTC", "BTC", "bitcoin"), <<>>, w) : w \in BOOLEAN}
  \cup {Ask(Sel("USDT", "USDT", "tron"), <<>>, w) : w \in BOOLEAN}
  \cup {[PayInvoice EXCEPT !.wait = TRUE], [ToUsdc EXCEPT !.wait = TRUE]}
  \cup {Ask(Sel("BTC", "LBTC", "liquid"), r, TRUE) : r \in {<<>>, <<PegInLeg>>}}
  \cup {Ask(Sel("DEPIX", "USDT", "liquid"), <<>>, TRUE),
        Ask(Sel("USDT", "USDT", "liquid"), <<ShiftReceiveLeg("tron")>>, TRUE)}

Pair(a, b) == [c \in Callers |-> IF c = c1 THEN a ELSE b]

MCWorkloads ==
  {Pair(Quote(sel), Idle) : sel \in Selectors}
  \cup {Pair(a, Idle) : a \in Alone}
  \cup {Pair(PayInvoice, ToUsdc), Pair(ReceiveInvoice, ToUsdcByPlan),
        Pair(PayInvoice, [op |-> "pin"]), Pair(ToUsdc, [op |-> "pin"])}
=============================================================================
