----------------------------- MODULE ShopConfig -----------------------------
(***************************************************************************)
(* The gift-card kill switch: /api/config of the DePix backend, fetched    *)
(* with a timeout, cached for CacheTtl, and one fetch shared by everyone   *)
(* who asks meanwhile.  A config that cannot be confirmed is off.          *)
(***************************************************************************)
EXTENDS Naturals

CONSTANTS
  CacheTtl,       \* CACHE_TTL_MS
  FetchTimeout,   \* DEFAULT_TIMEOUT_MS
  MaxTime         \* bound on the clock

ASSUME ShopAssumption == CacheTtl \in Nat /\ MaxTime \in Nat

VARIABLES
  now,      \* Date.now()
  shopOn,   \* giftcardEnabled, with a split address, at the backend
  config,   \* cached, and cachedAt
  fetch     \* inflight: when it was asked, and what the backend answered

shopVars == <<now, shopOn, config, fetch>>

NoFetch == [asked |-> 0, answer |-> "none"]
Answers == {"none", "waiting", "on", "off"}

ShopTypeOK ==
  /\ now \in 0 .. MaxTime
  /\ shopOn \in BOOLEAN
  /\ config \in [value : {"none", "on", "off"}, at : 0 .. MaxTime]
  /\ fetch \in [asked : 0 .. MaxTime, answer : Answers]

ShopInit ==
  /\ now = 0
  /\ shopOn = TRUE
  /\ config = [value |-> "none", at |-> 0]
  /\ fetch = NoFetch

\* A fetch without an answer is aborted once it has run for FetchTimeout; the
\* timer is cleared when the answer begins, and its body may take any time.
Tick1 ==
  /\ now < MaxTime
  /\ fetch.answer = "waiting" => now < fetch.asked + FetchTimeout
  /\ now' = now + 1
  /\ UNCHANGED <<shopOn, config, fetch>>

\* The operator switches the shop off.
SwitchOff ==
  /\ shopOn
  /\ shopOn' = FALSE
  /\ UNCHANGED <<now, config, fetch>>

\* The backend answers with what it knows at that moment.
Serve ==
  /\ fetch.answer = "waiting"
  /\ fetch' = [fetch EXCEPT !.answer = IF shopOn THEN "on" ELSE "off"]
  /\ UNCHANGED <<now, shopOn, config>>

\* The cached config answers while its TTL has not passed.
CacheIsFresh == config.value # "none" /\ now < config.at + CacheTtl

\* getGiftcardConfig() without a fresh cache: join the fetch or start one.
JoinFetch ==
  /\ fetch' = IF fetch.answer = "none" THEN [asked |-> now, answer |-> "waiting"] ELSE fetch
  /\ UNCHANGED <<now, shopOn, config>>

\* The answer arrives: cached from now on.
Fetched ==
  /\ fetch.answer \in {"on", "off"}
  /\ config' = [value |-> fetch.answer, at |-> now]
  /\ fetch' = NoFetch
  /\ UNCHANGED <<now, shopOn>>

\* Unreachable, timed out or malformed: nothing is cached.
FetchFails ==
  /\ fetch.answer # "none"
  /\ fetch' = NoFetch
  /\ UNCHANGED <<now, shopOn, config>>
=============================================================================
