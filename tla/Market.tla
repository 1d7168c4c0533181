------------------------------- MODULE Market -------------------------------
(***************************************************************************)
(* SideSwap market swaps: wallet_swap_quote, wallet_swap_execute, the      *)
(* registry that keeps a quote's socket open between the two, and the      *)
(* JSON-RPC client that owns that socket.                                  *)
(*                                                                         *)
(* A quote is bound to the socket it came over, so a quote call leaves a   *)
(* live client behind for the execute call to use.  The socket may drop at *)
(* any moment; the client reconnects by itself and subscribes again, but   *)
(* an answer that was in flight is lost, and so is every quote of the old  *)
(* socket.  The server decides what a PSET pays and whether it broadcasts; *)
(* an answer to taker_sign can be lost after the broadcast.                *)
(***************************************************************************)
EXTENDS OpChain, Naturals

CONSTANTS
  Calls,          \* wallet_swap_quote calls, each with its client and stream
  Execs,          \* wallet_swap_execute calls
  MaxReconnects,  \* MAX_RECONNECT_ATTEMPTS
  MaxDrops        \* bound on the sockets that drop

ASSUME MarketAssumption == MaxReconnects \in Nat /\ MaxDrops \in Nat

VARIABLES
  quoting,   \* where each quote call stands
  sock,      \* its client's socket and reconnect timer
  tries,     \* reconnectAttempt
  promise,   \* connectingPromise, and the socket it listens to is the current one
  markets,   \* the market list of the client
  sub,       \* its start_quotes subscription
  quote,     \* the quote the call returned: its TTL, or that its socket is gone
  held,      \* the calls whose stream the registry holds
  disposed,  \* SwapStreamRegistry.disposed
  running,   \* where each execute call stands
  target,    \* the quote it took
  counted,   \* quotes whose spend was recorded
  signings,  \* per quote, the taker_sign requests that left
  swapped,   \* quotes the server broadcast a swap of
  drops      \* sockets dropped so far

clients == <<sock, tries, promise, markets, sub>>
money == <<counted, signings, swapped>>
marketVars == <<quoting, clients, quote, held, disposed, running, target, money, drops>>

\* The steps of quote() that precede the stream, and of execute() in its section.
Quoting == {"coins", "receive", "receiving", "change", "changing", "connect",
            "connecting", "markets", "waiting"}
Executing == {"queued", "enforce", "getQuote", "fetching", "sign", "record", "takerSign", "sending"}

\* A socket, or a timer that will open one.
Live(c) == sock[c] \in {"opening", "open", "lost"}
Connected(c) == sock[c] = "open"

MarketTypeOK ==
  /\ quoting \in [Calls -> Quoting \cup {"idle", "held", "failed"}]
  /\ sock \in [Calls -> {"none", "opening", "open", "lost", "gaveUp", "destroyed"}]
  /\ tries \in [Calls -> 0 .. MaxReconnects]
  /\ promise \in [Calls -> {"none", "pending", "deaf", "resolved", "rejected"}]
  /\ markets \in [Calls -> {"unknown", "asked", "list", "empty"}]
  /\ sub \in [Calls -> {"none", "asked", "bound", "askedAgain", "dead"}]
  /\ quote \in [Calls -> {"none", "fresh", "lapsed"}]
  /\ held \subseteq Calls
  /\ disposed \in BOOLEAN
  /\ running \in [Execs -> Executing \cup {"idle", "done"}]
  /\ target \in [Execs -> Calls \cup {"none"}]
  /\ counted \subseteq Calls /\ swapped \subseteq Calls
  /\ signings \in [Calls -> 0 .. 2]
  /\ drops \in 0 .. MaxDrops
  \* A subscription needs a client, and a registered stream a quote.
  /\ \A c \in Calls : /\ sock[c] = "none" => sub[c] = "none"
                      /\ c \in held => quote[c] # "none" /\ sub[c] # "none"

MarketInit ==
  /\ quoting = [c \in Calls |-> "idle"]
  /\ sock = [c \in Calls |-> "none"]
  /\ tries = [c \in Calls |-> 0]
  /\ promise = [c \in Calls |-> "none"]
  /\ markets = [c \in Calls |-> "unknown"]
  /\ sub = [c \in Calls |-> "none"]
  /\ quote = [c \in Calls |-> "none"]
  /\ held = {}
  /\ disposed = FALSE
  /\ running = [e \in Execs |-> "idle"]
  /\ target = [e \in Execs |-> "none"]
  /\ counted = {} /\ swapped = {}
  /\ signings = [c \in Calls |-> 0]
  /\ drops = 0

Move(c, step) == quoting' = [quoting EXCEPT ![c] = step]
Step(e, step) == running' = [running EXCEPT ![e] = step]

-----------------------------------------------------------------------------
(* The client: createSideSwapClient                                        *)

\* disconnect(): timers and subscriptions go, the socket is closed.
Disconnect(c) ==
  /\ sock' = [sock EXCEPT ![c] = "destroyed"]
  /\ sub' = [sub EXCEPT ![c] = "dead"]
  /\ markets' = [markets EXCEPT ![c] = "unknown"]
  /\ UNCHANGED <<tries, promise>>

\* onopen: the attempt counter starts again and list_markets is asked for.
\* connect() listens to the socket it found, not to one that replaced it.
HandleOpen(c) ==
  /\ sock[c] = "opening"
  /\ sock' = [sock EXCEPT ![c] = "open"]
  /\ tries' = [tries EXCEPT ![c] = 0]
  /\ promise' = [promise EXCEPT ![c] = IF @ = "pending" THEN "resolved" ELSE @]
  /\ markets' = [markets EXCEPT ![c] = "asked"]
  /\ UNCHANGED <<quoting, sub, quote, held, disposed, running, target, money, drops, chain>>

\* resubscribeAll: the quotes of the old subscription are rejected from now on.
Resubscribed(c) == [sub EXCEPT ![c] = IF @ = "bound" THEN "askedAgain" ELSE @]

\* list_markets answers, or its failure leaves an empty list.
MarketsAnswer(c) ==
  /\ markets[c] = "asked"
  /\ Connected(c)
  /\ \E list \in {"list", "empty"} : markets' = [markets EXCEPT ![c] = list]
  /\ sub' = Resubscribed(c)
  /\ UNCHANGED <<quoting, sock, tries, promise, quote, held, disposed, running, target, money,
                 drops, chain>>

\* scheduleReconnect, or onFatal when it was tried often enough.
Backoff(c) ==
  IF tries[c] >= MaxReconnects
  THEN sock' = [sock EXCEPT ![c] = "gaveUp"] /\ UNCHANGED tries
  ELSE sock' = [sock EXCEPT ![c] = "lost"] /\ tries' = [tries EXCEPT ![c] = @ + 1]

ReconnectTimer(c) ==
  /\ sock[c] = "lost"
  /\ sock' = [sock EXCEPT ![c] = "opening"]
  /\ UNCHANGED <<quoting, tries, promise, markets, sub, quote, held, disposed, running, target,
                 money, drops, chain>>

-----------------------------------------------------------------------------
(* wallet_swap_quote: SideSwapMarket.quote and SwapQuoteStream.next        *)

Ask(c) ==
  /\ quoting[c] = "idle"
  /\ ~disposed
  /\ Move(c, "coins")
  /\ UNCHANGED <<clients, quote, held, disposed, running, target, money, drops, chain>>

\* Confirmed coins of the asset must cover the amount before an address is used.
SelectCoins(c) ==
  /\ quoting[c] = "coins"
  /\ \/ Move(c, "receive")
     \/ Move(c, "failed")
  /\ UNCHANGED <<clients, quote, held, disposed, running, target, money, drops, chain>>

\* getReceiveAddress() twice, each a section of opMutex.
AskAddress(c) ==
  /\ \/ quoting[c] = "receive" /\ Move(c, "receiving")
     \/ quoting[c] = "change" /\ Move(c, "changing")
  /\ Join(c)
  /\ UNCHANGED <<clients, quote, held, disposed, running, target, money, drops>>

GetAddress(c) ==
  /\ Turn(c)
  /\ \/ quoting[c] = "receiving" /\ Move(c, "change")
     \/ quoting[c] = "changing" /\ Move(c, "connect")
     \/ quoting[c] \in {"receiving", "changing"} /\ Move(c, "failed")
  /\ Settled
  /\ UNCHANGED <<clients, quote, held, disposed, running, target, money, drops>>

Connect(c) ==
  /\ quoting[c] = "connect"
  /\ Move(c, "connecting")
  /\ sock' = [sock EXCEPT ![c] = "opening"]
  /\ promise' = [promise EXCEPT ![c] = "pending"]
  /\ UNCHANGED <<tries, markets, sub, quote, held, disposed, running, target, money, drops, chain>>

\* connect() resolves.
ConnectResolves(c) ==
  /\ quoting[c] = "connecting" /\ promise[c] = "resolved"
  /\ Move(c, "markets")
  /\ UNCHANGED <<clients, quote, held, disposed, running, target, money, drops, chain>>

\* The connection timeout rejects connect() and with it quote(); the client is
\* left as it is, and goes on connecting.
ConnectTimesOut(c) ==
  /\ quoting[c] = "connecting" /\ promise[c] \in {"pending", "deaf"}
  /\ Move(c, "failed")
  /\ promise' = [promise EXCEPT ![c] = "rejected"]
  /\ UNCHANGED <<sock, tries, markets, sub, quote, held, disposed, running, target, money, drops,
                 chain>>

\* waitForMarkets returns, with a list or after its deadline, and startQuotes
\* subscribes: without a market the error reaches nobody (the stream does not
\* exist yet), and without a socket the request fails before anyone waits.
StartQuotes(c) ==
  /\ quoting[c] = "markets"
  /\ Move(c, "waiting")
  /\ sub' = [sub EXCEPT ![c] = IF markets[c] = "list" /\ Connected(c) THEN "asked" ELSE "dead"]
  /\ UNCHANGED <<sock, tries, promise, markets, quote, held, disposed, running, target, money,
                 drops, chain>>

\* start_quotes answers.
SubscriptionAnswers(c) ==
  /\ sub[c] \in {"asked", "askedAgain"} /\ Connected(c)
  /\ sub' = [sub EXCEPT ![c] = "bound"]
  /\ UNCHANGED <<quoting, sock, tries, promise, markets, quote, held, disposed, running, target,
                 money, drops, chain>>

\* Faulty variant: the stream of a failed quote is left open.
DoomedWithoutClose(c) ==
  /\ quoting[c] = "waiting"
  /\ Move(c, "failed")
  /\ UNCHANGED <<clients, quote, held, disposed, running, target, money, drops, chain>>

\* next() rejects and the tool closes the stream before it reports the error.
Doomed(c) ==
  /\ quoting[c] = "waiting"
  /\ Move(c, "failed")
  /\ Disconnect(c)
  /\ UNCHANGED <<quote, held, disposed, running, target, money, drops, chain>>

\* A failing subscription, an error tick, LowBalance, or no tick in time.
\* Without a waiter the error is dropped.
StreamFails(c) ==
  \/ Doomed(c)
  \/ /\ quoting[c] # "waiting" /\ sub[c] \in {"asked", "askedAgain"} /\ Connected(c)
     /\ sub' = [sub EXCEPT ![c] = "dead"]
     /\ UNCHANGED <<quoting, sock, tries, promise, markets, quote, held, disposed, running, target,
                    money, drops, chain>>

\* registry.register(): a registry that was disposed closes the stream.
Register(c) ==
  IF disposed
  THEN Move(c, "failed") /\ Disconnect(c) /\ UNCHANGED held
  ELSE Move(c, "held") /\ held' = held \cup {c} /\ UNCHANGED clients

\* A tick of the subscription whose id is bound reaches the waiter.
Tick(c) ==
  /\ quoting[c] = "waiting"
  /\ sub[c] = "bound" /\ Connected(c)
  /\ quote' = [quote EXCEPT ![c] = "fresh"]
  /\ Register(c)
  /\ UNCHANGED <<disposed, running, target, money, drops, chain>>

\* The TTL of a returned quote lapses.
Lapse(c) ==
  /\ quote[c] = "fresh"
  /\ quote' = [quote EXCEPT ![c] = "lapsed"]
  /\ UNCHANGED <<quoting, clients, held, disposed, running, target, money, drops, chain>>

\* Faulty variant: the abandon timer was cleared and nobody armed it again.
EvictNever(c) ==
  /\ FALSE
  /\ UNCHANGED <<marketVars, chain>>

\* The abandon timer: TTL and grace are over and nobody executed the quote.
Evict(c) ==
  /\ c \in held /\ quote[c] = "lapsed"
  /\ held' = held \ {c}
  /\ Disconnect(c)
  /\ UNCHANGED <<quoting, quote, disposed, running, target, money, drops, chain>>

\* server.close(): disposeAll closes every held stream.
DisposeAll ==
  /\ ~disposed
  /\ disposed' = TRUE
  /\ held' = {}
  /\ sock' = [c \in Calls |-> IF c \in held THEN "destroyed" ELSE sock[c]]
  /\ sub' = [c \in Calls |-> IF c \in held THEN "dead" ELSE sub[c]]
  /\ markets' = [c \in Calls |-> IF c \in held THEN "unknown" ELSE markets[c]]
  /\ UNCHANGED <<quoting, tries, promise, quote, running, target, money, drops, chain>>

-----------------------------------------------------------------------------
(* wallet_swap_execute: SwapStreamRegistry.take, SwapQuoteStream.execute   *)

\* registry.take(): single use, and out of reach of the timer and of shutdown.
Take(c) == held' = held \ {c}

\* execute() refuses a quote whose TTL is about to lapse; its stream is closed.
\* Otherwise the operation queues on opMutex.
Execute(e, c) ==
  /\ running[e] = "idle"
  /\ quote[c] # "none" /\ c \in held
  /\ target' = [target EXCEPT ![e] = c]
  /\ Take(c)
  /\ \/ quote[c] = "fresh" /\ Step(e, "queued") /\ Join(e) /\ UNCHANGED clients
     \/ quote[c] = "lapsed" /\ Step(e, "done") /\ Disconnect(c) /\ UNCHANGED chain
  /\ UNCHANGED <<quoting, quote, disposed, money, drops>>

\* "Unknown or already-used swap_quote_id".
ExecuteUnknown(e) ==
  /\ running[e] = "idle"
  /\ \E c \in Calls : quote[c] # "none" /\ c \notin held
  /\ Step(e, "done")
  /\ UNCHANGED <<quoting, clients, quote, held, disposed, target, money, drops, chain>>

StartSwap(e) ==
  /\ running[e] = "queued" /\ Turn(e)
  /\ Step(e, "enforce")
  /\ UNCHANGED <<quoting, clients, quote, held, disposed, target, money, drops, chain>>

\* Faulty variant: a section that throws does not let the next one start.
FinishKeepsTurn(e) ==
  /\ Step(e, "done")
  /\ Disconnect(target[e])
  /\ UNCHANGED <<quoting, quote, held, disposed, target, chain>>

\* The section throws or returns, and the stream is closed either way.
Finish(e) ==
  /\ Step(e, "done")
  /\ Settled
  /\ Disconnect(target[e])
  /\ UNCHANGED <<quoting, quote, held, disposed, target>>

\* Valued and within the limits, or refused.
EnforceSwap(e) ==
  /\ running[e] = "enforce"
  /\ Step(e, "getQuote")
  /\ UNCHANGED <<quoting, clients, quote, held, disposed, target, money, drops, chain>>

\* get_quote goes out over the quote's socket.
GetQuote(e) ==
  /\ running[e] = "getQuote" /\ Connected(target[e])
  /\ Step(e, "fetching")
  /\ UNCHANGED <<quoting, clients, quote, held, disposed, target, money, drops, chain>>

QuoteArrives(e) ==
  /\ running[e] = "fetching" /\ Connected(target[e])
  /\ Step(e, "sign")
  /\ UNCHANGED <<quoting, clients, quote, held, disposed, target, money, drops, chain>>

\* What the PSET the server built does to the wallet, as read from it before
\* signing: an output pays the pinned address, the balances could be read, what
\* is received is within the quote (less the fees of that leg) and its
\* tolerance, and no more is spent than the quote plus the fee slack.
Inspection == [paysUs : BOOLEAN, read : BOOLEAN, received : {"short", "inBand", "over"},
               spent : {"quoted", "more"}]
Valid(i) == i.paysUs /\ i.read /\ i.received = "inBand" /\ i.spent = "quoted"

\* Validated before the signer sees it.
SignSwap(e) ==
  /\ running[e] = "sign"
  /\ \E i \in Inspection : Valid(i)
  /\ Step(e, "record")
  /\ UNCHANGED <<quoting, clients, quote, held, disposed, target, money, drops, chain>>

\* Faulty variant: the spend is counted once the swap has answered.
RecordNothingYet(e) ==
  /\ running[e] = "record"
  /\ Step(e, "takerSign")
  /\ UNCHANGED <<quoting, clients, quote, held, disposed, target, money, drops, chain>>

\* recordSpend, before anybody is asked to broadcast.
RecordSwap(e) ==
  /\ running[e] = "record"
  /\ Step(e, "takerSign")
  /\ counted' = counted \cup {target[e]}
  /\ UNCHANGED <<quoting, clients, quote, held, disposed, target, signings, swapped, drops, chain>>

\* Refused by a guardrail, by the server, by the validation, by the state file
\* that cannot be written, or for want of a socket.
SwapFails(e) ==
  /\ \/ running[e] \in {"enforce", "getQuote", "fetching", "sign", "record", "sending"}
     \/ running[e] = "takerSign" /\ ~Connected(target[e])
  /\ Finish(e)
  /\ UNCHANGED <<money, drops>>

TakerSign(e) ==
  /\ running[e] = "takerSign" /\ Connected(target[e])
  /\ Step(e, "sending")
  /\ signings' = [signings EXCEPT ![target[e]] = @ + 1]
  /\ UNCHANGED <<quoting, clients, quote, held, disposed, target, counted, swapped, drops, chain>>

\* The server broadcasts a swap it was given the signatures of, whether or not
\* its answer arrives.
ServerBroadcasts(c) ==
  /\ signings[c] > 0 /\ c \notin swapped
  /\ swapped' = swapped \cup {c}
  /\ UNCHANGED <<quoting, clients, quote, held, disposed, running, target, counted, signings,
                 drops, chain>>

SwapDone(e) ==
  /\ running[e] = "sending" /\ target[e] \in swapped /\ Connected(target[e])
  /\ Finish(e)
  /\ UNCHANGED <<money, drops>>

-----------------------------------------------------------------------------
(* The socket drops                                                        *)

\* The request of an execution that is in flight over c's socket is rejected.
Interrupted(c) == {e \in Execs : target[e] = c /\ running[e] \in {"fetching", "sending"}}

\* handleClose: every answer in flight is rejected.  A start_quotes in flight
\* takes its subscription with it; one that was bound waits for the next
\* socket.  A list_markets in flight leaves an empty list behind, and the
\* resubscription it tries on the closed socket loses the subscription.
HandleClose(c) ==
  /\ drops < MaxDrops
  /\ sock[c] \in {"opening", "open"}
  /\ drops' = drops + 1
  /\ LET lost == sub[c] \in {"asked", "askedAgain"} \/ (sub[c] = "bound" /\ markets[c] = "asked")
     IN  \/ /\ Interrupted(c) # {}
            /\ \E e \in Interrupted(c) : Finish(e)
            /\ UNCHANGED money
         \/ /\ Interrupted(c) = {} /\ lost /\ quoting[c] = "waiting"
            /\ Move(c, "failed")
            /\ Disconnect(c)
            /\ UNCHANGED <<quote, held, disposed, running, target, money, chain>>
         \/ /\ Interrupted(c) = {} /\ ~(lost /\ quoting[c] = "waiting")
            /\ Backoff(c)
            /\ promise' = [promise EXCEPT ![c] = IF @ = "pending" THEN "deaf" ELSE @]
            /\ markets' = [markets EXCEPT ![c] = IF @ = "asked" THEN "empty" ELSE "unknown"]
            /\ sub' = [sub EXCEPT ![c] = IF lost THEN "dead" ELSE @]
            /\ UNCHANGED <<quoting, quote, held, disposed, running, target, money, chain>>

-----------------------------------------------------------------------------
MarketNext ==
  \/ DisposeAll
  \/ \E c \in Calls :
       \/ Ask(c) \/ SelectCoins(c) \/ AskAddress(c) \/ GetAddress(c)
       \/ Connect(c) \/ ConnectResolves(c) \/ ConnectTimesOut(c)
       \/ HandleOpen(c) \/ MarketsAnswer(c) \/ StartQuotes(c) \/ SubscriptionAnswers(c)
       \/ StreamFails(c) \/ Tick(c) \/ Lapse(c) \/ Evict(c)
       \/ HandleClose(c) \/ ReconnectTimer(c) \/ ServerBroadcasts(c)
  \/ \E e \in Execs :
       \/ \E c \in Calls : Execute(e, c)
       \/ ExecuteUnknown(e) \/ StartSwap(e) \/ EnforceSwap(e) \/ GetQuote(e) \/ QuoteArrives(e)
       \/ SignSwap(e) \/ RecordSwap(e) \/ TakerSign(e) \/ SwapFails(e) \/ SwapDone(e)

\* Timers fire, a section that may start does, and a request that gets no
\* answer is given up by its timeout.  Sockets and the server owe nothing.
MarketFairness ==
  /\ \A c \in Calls :
       /\ WF_marketVars(SelectCoins(c)) /\ WF_marketVars(AskAddress(c)) /\ WF_marketVars(GetAddress(c))
       /\ WF_marketVars(Connect(c)) /\ WF_marketVars(ConnectResolves(c)) /\ WF_marketVars(ConnectTimesOut(c))
       /\ WF_marketVars(StartQuotes(c)) /\ WF_marketVars(Doomed(c)) /\ WF_marketVars(Lapse(c)) /\ WF_marketVars(Evict(c))
  /\ \A e \in Execs :
       /\ WF_marketVars(StartSwap(e)) /\ WF_marketVars(EnforceSwap(e)) /\ WF_marketVars(GetQuote(e))
       /\ WF_marketVars(SignSwap(e)) /\ WF_marketVars(RecordSwap(e)) /\ WF_marketVars(TakerSign(e))
       /\ WF_marketVars(SwapFails(e))

-----------------------------------------------------------------------------
(* Properties                                                              *)

\* A quote call that has not answered, the registry, or an execution answers
\* for every socket that is connected or will reconnect, so that somebody is
\* going to close it: no failed quote, no eviction and no shutdown leaves one
\* behind.  A call whose connect() timed out is the exception (see README).
SocketsAreOwned ==
  \A c \in Calls :
    Live(c) =>
      \/ quoting[c] \in Quoting
      \/ c \in held
      \/ \E e \in Execs : target[e] = c /\ running[e] \in Executing
      \/ promise[c] = "rejected"

\* However many executions of a quote are asked for, and whatever answer is
\* lost, its swap is handed to the server at most once, and never before its
\* value was counted against the spending limits (execute).
OneCountedSwapPerQuote ==
  \A c \in Calls : /\ signings[c] <= 1
                   /\ signings[c] > 0 => c \in counted

\* Whatever becomes of a quote (executed, refused, abandoned, server closed),
\* its socket is closed in the end: no stream survives its purpose.
EveryStreamIsReleased ==
  \A c \in Calls : Live(c) ~> (~Live(c) \/ promise[c] = "rejected")
=============================================================================
