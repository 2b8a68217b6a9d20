----------------------------- MODULE RateLimiter ----------------------------
(***************************************************************************)
(* The token bucket of the telegram queue (transport/rate_limit.rs), which *)
(* the sending task asks for a token before each telegram.  A token counts *)
(* Second, so that what comes in during one step of the clock is whole.    *)
(***************************************************************************)
EXTENDS ReceiveLimiter

VARIABLES
    tokens, last_refill,
    wake,       \* when the call of acquire that sleeps looks again
    acquired,   \* tokens acquired so far
    granted     \* history: number and time of each of them

rateVars == <<tokens, last_refill, wake, acquired, granted>>

MaxTokens == (setting.max_per_second + setting.burst) * Second

RateInit ==
    /\ tokens = setting.burst * Second /\ last_refill = 0 /\ wake = 0
    /\ acquired = 0 /\ granted = {}

(* refill. *)
Refilled ==
    LET more == tokens + (now - last_refill) * setting.max_per_second
    IN  IF more > MaxTokens THEN MaxTokens ELSE more

(* acquire, from one sleep to the next; it holds the mutex throughout. *)
Acquire ==
    /\ acquired < setting.sends /\ now >= wake
    /\ last_refill' = now
    /\ \/ /\ Refilled >= Second
          /\ tokens' = Refilled - Second
          /\ acquired' = acquired + 1
          /\ granted' = granted \cup {[number |-> acquired + 1, at |-> now]}
          /\ UNCHANGED wake
       \/ /\ Refilled < Second
          /\ tokens' = Refilled
          /\ wake' = now + (Second - Refilled) \div setting.max_per_second
          /\ UNCHANGED <<acquired, granted>>

-----------------------------------------------------------------------------
(* Between any two telegrams, however they are spaced, no more are sent than
   a full bucket and what comes in meanwhile allow.  A full bucket holds a
   second's worth and the burst, so that a second may see twice the rate. *)
SendsBounded ==
    \A g, h \in granted :
       g.number <= h.number =>
          (h.number - g.number + 1) * Second
             <= MaxTokens + (h.at - g.at) * setting.max_per_second

(* What the bound rests on: for every telegram sent, what was sent since, and
   what could be sent now, come out of a bucket that was full then. *)
BucketInv ==
    /\ tokens \in 0 .. MaxTokens
    /\ last_refill \in 0 .. now /\ acquired \in Nat
    /\ \A g \in granted :
          /\ g.number \in 1 .. acquired /\ g.at \in 0 .. last_refill
          /\ tokens + (acquired - g.number + 1) * Second
               <= MaxTokens + (last_refill - g.at) * setting.max_per_second
=============================================================================
