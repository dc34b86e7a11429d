----------------------------- MODULE PriceCache -----------------------------
(***************************************************************************)
(* The AP3X price of spo-dashboard: every request for the overview asks    *)
(* for it, and price() holds a mutex from the look at the cache to the     *)
(* answer, the call to LBank included.  A price of 0 is "unavailable".     *)
(***************************************************************************)
EXTENDS Integers

CONSTANTS
    Requests,       \* the requests that may be under way at one time
    PriceTTL,       \* priceTTL, in ticks
    CallLimit,      \* the LBank client's time limit, in ticks
    Quotes          \* the prices LBank may quote

\* The time limit, ten seconds, is well below the TTL, five minutes.
ASSUME TTLAssumption    == PriceTTL \in Nat \ {0} /\ CallLimit \in 0..(PriceTTL - 1)
ASSUME QuotesAssumption == Quotes \subseteq Nat \ {0}

NoOne == "no one"

ASSUME RequestsAssumption == NoOne \notin Requests

VARIABLES
    want,       \* want[r]: the request is idle, waiting for the mutex, or answered
    holder,     \* who holds priceMu, which is who is calling LBank
    calling,    \* how long that call has taken
    price,      \* priceUSDT
    stampAge,   \* time since priceAt, up to PriceTTL
    answer,     \* answer[r]: the price the request was given
    callAge,    \* time since LBank was last asked, up to PriceTTL
    quoteAge,   \* time since the price kept was quoted, up to TooOld
    failing     \* the last call to LBank brought no price

priceVars == <<want, holder, calling, price, stampAge, answer, callAge, quoteAge, failing>>

TooOld == PriceTTL + CallLimit + 1

Capped(age, limit) == IF age < limit THEN age + 1 ELSE limit

\* The answer leaves, and the mutex with it.
Answer(r, value) ==
    /\ want' = [want EXCEPT ![r] = "answered"]
    /\ answer' = [answer EXCEPT ![r] = value]
    /\ holder' = NoOne /\ calling' = 0

Arrive(r) ==
    /\ want[r] = "idle"
    /\ want' = [want EXCEPT ![r] = "waiting"]
    /\ UNCHANGED <<holder, calling, price, stampAge, answer, callAge, quoteAge, failing>>

\* The mutex is free and the stamp fresh: the cached price, whatever it is.
AnswerCached(r) ==
    /\ want[r] = "waiting" /\ holder = NoOne
    /\ stampAge < PriceTTL
    /\ Answer(r, price)
    /\ UNCHANGED <<price, stampAge, callAge, quoteAge, failing>>

\* Faulty variant: the cache is stamped by a success only.
StampLate == UNCHANGED stampAge

\* The cache is stamped before the call, "also on failure".
Stamp == stampAge' = 0

\* The stamp is old: LBank is asked with the mutex held.
AskLBank(r) ==
    /\ want[r] = "waiting" /\ holder = NoOne
    /\ stampAge >= PriceTTL
    /\ holder' = r /\ calling' = 0 /\ callAge' = 0
    /\ Stamp
    /\ UNCHANGED <<want, price, answer, quoteAge, failing>>

Quoted(r, q) ==
    /\ holder = r
    /\ price' = q /\ quoteAge' = 0 /\ failing' = FALSE
    /\ Answer(r, q)
    /\ UNCHANGED <<stampAge, callAge>>

\* Faulty variants: a failed call forgets the price; it keeps the mutex.
NoQuoteForgetting(r) ==
    /\ holder = r
    /\ price' = 0 /\ failing' = TRUE
    /\ Answer(r, 0)
    /\ UNCHANGED <<stampAge, callAge, quoteAge>>

NoQuoteLocked(r) ==
    /\ holder = r
    /\ failing' = TRUE
    /\ want' = [want EXCEPT ![r] = "answered"]
    /\ answer' = [answer EXCEPT ![r] = price]
    /\ UNCHANGED <<price, holder, calling, stampAge, callAge, quoteAge>>

\* The call fails or times out, or brings no positive price.
NoQuote(r) ==
    /\ holder = r
    /\ failing' = TRUE
    /\ Answer(r, price)
    /\ UNCHANGED <<price, stampAge, callAge, quoteAge>>

\* The response is rendered, and the browser asks again later.
Leave(r) ==
    /\ want[r] = "answered"
    /\ want' = [want EXCEPT ![r] = "idle"] /\ answer' = [answer EXCEPT ![r] = 0]
    /\ UNCHANGED <<holder, calling, price, stampAge, callAge, quoteAge, failing>>

\* A call is over when its time limit is; an answer is read at once.
PriceTick ==
    /\ holder # NoOne => calling < CallLimit
    /\ \A r \in Requests : want[r] # "answered"
    /\ calling' = IF holder = NoOne THEN 0 ELSE calling + 1
    /\ stampAge' = Capped(stampAge, PriceTTL)
    /\ callAge' = Capped(callAge, PriceTTL)
    /\ quoteAge' = IF price = 0 THEN 0 ELSE Capped(quoteAge, TooOld)
    /\ UNCHANGED <<want, holder, price, answer, failing>>

PriceInit ==
    /\ want = [r \in Requests |-> "idle"] /\ answer = [r \in Requests |-> 0]
    /\ holder = NoOne /\ calling = 0
    /\ price = 0 /\ stampAge = PriceTTL
    /\ callAge = PriceTTL /\ quoteAge = 0 /\ failing = FALSE

Serve(r) == AnswerCached(r) \/ AskLBank(r)

LBankReturns(r) == NoQuote(r) \/ \E q \in Quotes : Quoted(r, q)

PriceNext ==
    \/ PriceTick
    \/ \E r \in Requests :
         Arrive(r) \/ Serve(r) \/ LBankReturns(r) \/ Leave(r)

PriceSpec == PriceInit /\ [][PriceNext]_priceVars

\* ----------------------------------------------------------------- properties

\* However many requests there are, and whether or not LBank answers, it is
\* asked at most once in a PriceTTL.
AskedOncePerTTL == [][\A r \in Requests : AskLBank(r) => callAge >= PriceTTL]_priceVars

\* A price once quoted is never lost to a failure, and what is served is older
\* than PriceTTL only while LBank's last answer was a failure or a call is on.
PriceKept ==
    \A r \in Requests : want[r] = "answered" =>
        /\ answer[r] = price
        /\ quoteAge > 0 => price # 0
        /\ quoteAge > PriceTTL + CallLimit => failing

\* The mutex held over the network call delays the requests, and blocks none.
EveryRequestAnswered ==
    \A r \in Requests : want[r] = "waiting" ~> want[r] = "answered"
=============================================================================
