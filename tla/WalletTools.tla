---------------------------- MODULE WalletTools ----------------------------
(***************************************************************************)
(* The catalogue of the wallet's MCP tools: how each one is wrapped        *)
(* (mcp/server.ts) and which operation of the wallet it calls              *)
(* (mcp/tools.ts).  The wrapper decides when the chain is scanned, the     *)
(* operation what the call may do to the wallet.  Schemas, descriptions    *)
(* and the shape of the answers are left out.                              *)
(***************************************************************************)
EXTENDS TLC

Tools ==
  {"wallet_status", "wallet_get_address", "wallet_get_balances", "wallet_list_transactions",
   "wallet_send", "wallet_create_deposit", "wallet_wait_deposit", "wallet_create_withdrawal",
   "wallet_wait_withdrawal", "wallet_get_guardrails", "wallet_quote", "wallet_convert",
   "wallet_swap_quote", "wallet_swap_execute", "wallet_pay_lightning_invoice",
   "wallet_receive_lightning", "wallet_to_stablecoin", "wallet_list_giftcards",
   "wallet_list_giftcard_products", "wallet_giftcard_price", "wallet_buy_giftcard",
   "wallet_list_giftcard_orders", "wallet_get_giftcard_order_status", "wallet_shift_usdt",
   "wallet_recover", "wallet_pending", "wallet_diagnostics", "wallet_sync", "wallet_list_utxos"}

(* The wrappers: "wallet" needs an open wallet, "keyed" an API key as well; *)
(* "read" scans before, "spend" before and after, "inflow" after a deposit  *)
(* that has settled.                                                        *)

BaseTools ==
  [wallet_status |-> "wallet", wallet_get_address |-> "wallet", wallet_get_balances |-> "read",
   wallet_list_transactions |-> "read", wallet_send |-> "spend"]

PixTools ==
  [wallet_create_deposit |-> "keyed", wallet_wait_deposit |-> "inflow",
   wallet_create_withdrawal |-> "spend", wallet_wait_withdrawal |-> "keyed",
   wallet_get_guardrails |-> "wallet"]

IntentTools == [wallet_quote |-> "wallet", wallet_convert |-> "spend"]

SwapTools ==
  [wallet_swap_quote |-> "wallet", wallet_swap_execute |-> "spend",
   wallet_pay_lightning_invoice |-> "spend", wallet_receive_lightning |-> "wallet",
   wallet_to_stablecoin |-> "spend"]

GiftcardTools ==
  [wallet_list_giftcards |-> "wallet", wallet_list_giftcard_products |-> "wallet",
   wallet_giftcard_price |-> "wallet", wallet_buy_giftcard |-> "spend",
   wallet_list_giftcard_orders |-> "wallet", wallet_get_giftcard_order_status |-> "wallet"]

OtherTools ==
  [wallet_shift_usdt |-> "spend", wallet_recover |-> "wallet", wallet_pending |-> "wallet",
   wallet_diagnostics |-> "wallet", wallet_sync |-> "wallet", wallet_list_utxos |-> "read"]

Wrapper == BaseTools @@ PixTools @@ IntentTools @@ SwapTools @@ GiftcardTools @@ OtherTools

(* The operations of the wallet.                                           *)

BaseOperations ==
  [wallet_status |-> "getGuardrails", wallet_get_address |-> "getReceiveAddress",
   wallet_get_balances |-> "getBalances", wallet_list_transactions |-> "listTransactions",
   wallet_send |-> "send", wallet_create_deposit |-> "deposit",
   wallet_create_withdrawal |-> "withdraw", wallet_wait_deposit |-> "waitForDeposit",
   wallet_wait_withdrawal |-> "waitForWithdrawal", wallet_get_guardrails |-> "getGuardrails"]

SwapOperations ==
  [wallet_swap_quote |-> "sideswap.quote", wallet_swap_execute |-> "sideswap.execute",
   wallet_pay_lightning_invoice |-> "boltz.payLightningInvoice",
   wallet_receive_lightning |-> "boltz.receiveLightning",
   wallet_to_stablecoin |-> "boltz.toStablecoin"]

GiftcardOperations ==
  [wallet_buy_giftcard |-> "giftcards.buy", wallet_list_giftcard_orders |-> "giftcards.listOrders",
   wallet_list_giftcards |-> "giftcards.list",
   wallet_list_giftcard_products |-> "giftcards.listProducts",
   wallet_giftcard_price |-> "giftcards.price",
   wallet_get_giftcard_order_status |-> "giftcards.getOrderStatus"]

RecoveryOperations ==
  [wallet_recover |-> "recover", wallet_pending |-> "getPending",
   wallet_diagnostics |-> "diagnostics"]

IntentOperations == [wallet_quote |-> "quote", wallet_convert |-> "convert"]

SyncOperations ==
  [wallet_sync |-> "sync", wallet_list_utxos |-> "listUtxos", wallet_shift_usdt |-> "sideshift.send"]

Operation ==
  BaseOperations @@ SwapOperations @@ GiftcardOperations
    @@ RecoveryOperations @@ IntentOperations @@ SyncOperations

\* Every tool of the list is mounted once, and calls something.
ASSUME CatalogueIsComplete == DOMAIN Wrapper = Tools /\ DOMAIN Operation = Tools

\* What a call may make the sync engine and the addresses do, beyond its
\* wrapper.  (What recover() signs is in Withdraw and BoltzSwaps.)
OwnJobs(operation) ==
  CASE operation = "getReceiveAddress" -> {"address"}
    [] operation = "sync" -> {"sync", "rescan"}
    [] OTHER -> {}

\* The kinds of call there are.
CallKinds == UNION {{Wrapper[t]} \union OwnJobs(Operation[t]) : t \in Tools}
=============================================================================
