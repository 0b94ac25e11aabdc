---------------------------- MODULE RateLimiter ----------------------------
(***************************************************************************)
(* The pacing of model calls (council/ratelimit.py): one token bucket per  *)
(* api_key_env in a process-wide limiter, used by the threads of a         *)
(* fan-out, one call each.                                                 *)
(*                                                                         *)
(* A lock's critical section is one step; what a thread reads or does      *)
(* outside one is a step of its own.  Time is counted in ticks, Minute of  *)
(* them to a minute, and tokens in Minute-ths of a token, so that a bucket *)
(* of rpm r gains exactly r of them per tick.                              *)
(***************************************************************************)
EXTENDS Integers, Sequences

CONSTANTS Models,      \* the registry
          Keys,        \* the api_key_env names
          KeyOf,       \* the key of each model
          HintOf,      \* rate_limit_rpm of each model; 0 is "not given" too
          Calls,       \* the calls of the fan-outs
          ModelOf,     \* the model each call is for
          DefaultRpm,  \* DEFAULT_RPM_FALLBACK
          Minute,      \* ticks in a minute
          MaxArrival,  \* no worker takes up a call after this time
          Lateness,    \* a ready thread is at most this many ticks late
          MaxClock     \* where the clock stops

ASSUME ModelsAssumption == KeyOf \in [Models -> Keys] /\ HintOf \in [Models -> Int]
ASSUME CallsAssumption == ModelOf \in [Calls -> Models]
ASSUME RatesAssumption == DefaultRpm \in Nat \ {0} /\ Minute \in Nat \ {0}
ASSUME TimesAssumption == MaxArrival \in Nat /\ Lateness \in Nat /\ MaxClock \in Nat

VARIABLES
    clock,      \* time.monotonic()
    singleton,  \* the limiter _singleton names, NoLimiter before the first
    limiters,   \* the bucket table of every RateLimiter made
    pc,         \* where each call's thread is
    mine,       \* the limiter get_limiter() returned to it
    due,        \* when it is to start, or its sleep to end
    grants      \* per key, when calls were let through

vars == <<clock, singleton, limiters, pc, mine, due, grants>>

NoLimiter == 0
NoBucket == [rpm |-> 0, tokens |-> 0, refilled |-> 0]
Key(c) == KeyOf[ModelOf[c]]

AtLeast(n, floor) == IF n < floor THEN floor ELSE n
AtMost(n, cap) == IF n < cap THEN n ELSE cap

\* rpm_hint or default_rpm, then max(1, rpm).
Rpm(hint) == AtLeast(IF hint # 0 THEN hint ELSE DefaultRpm, 1)

NewBucket(hint) ==
    [rpm |-> Rpm(hint), tokens |-> Rpm(hint) * Minute, refilled |-> clock]

Holds(b, tokens) == [rpm |-> b.rpm, tokens |-> tokens, refilled |-> clock]
Accrued(b) == (clock - b.refilled) * b.rpm
Capacity(b) == b.rpm * Minute

\* Defects to be caught: what accrued is not capped, or does not accrue.
RefillUncapped(b) == Holds(b, b.tokens + Accrued(b))
RefillNever(b) == Holds(b, b.tokens)

Refill(b) == Holds(b, AtMost(b.tokens + Accrued(b), Capacity(b)))

Spend(b) == Holds(b, b.tokens - Minute)

\* A defect to be caught: the sleep is rounded down.
WaitShort(b) == (Minute - b.tokens) \div b.rpm

\* How long until the bucket holds a token, to the tick above; the 0.05 s the
\* sleep takes at least is less than a tick.
Wait(b) == (Minute - b.tokens + b.rpm - 1) \div b.rpm

Init == /\ clock = 0
        /\ singleton = NoLimiter
        /\ limiters = <<>>
        /\ pc = [c \in Calls |-> "start"]
        /\ mine = [c \in Calls |-> NoLimiter]
        /\ due \in [Calls -> 0 .. MaxArrival]
        /\ grants = [k \in Keys |-> <<>>]

-----------------------------------------------------------------------------
(* A thread of a fan-out: get_limiter().acquire(model).                    *)

GoTo(c, next) == pc' = [pc EXCEPT ![c] = next]
Use(c, limiter) == mine' = [mine EXCEPT ![c] = limiter] /\ GoTo(c, "bucket")

\* get_limiter's first look at _singleton, without its lock.
LookForLimiter(c) ==
    /\ pc[c] = "start"
    /\ due[c] <= clock
    /\ IF singleton = NoLimiter THEN GoTo(c, "create") /\ UNCHANGED mine
       ELSE Use(c, singleton)
    /\ UNCHANGED <<clock, singleton, limiters, due, grants>>

\* A defect to be caught: the second look, under the lock, is left out.
MissingUnchecked == TRUE

Missing == singleton = NoLimiter

\* Its second look, under the lock; _singleton is read again on return.
CreateLimiter(c) ==
    /\ pc[c] = "create"
    /\ IF Missing
         THEN /\ limiters' = Append(limiters, [k \in Keys |-> NoBucket])
              /\ singleton' = Len(limiters')
         ELSE UNCHANGED <<limiters, singleton>>
    /\ Use(c, singleton')
    /\ UNCHANGED <<clock, due, grants>>

Bucket(c) == limiters[mine[c]][Key(c)]
PutBucket(c, b) == limiters' = [limiters EXCEPT ![mine[c]] = [@ EXCEPT ![Key(c)] = b]]

\* _bucket_for: the hint of the first model that comes with the key decides.
FindBucket(c) ==
    /\ pc[c] = "bucket"
    /\ IF Bucket(c) = NoBucket THEN PutBucket(c, NewBucket(HintOf[ModelOf[c]]))
       ELSE UNCHANGED limiters
    /\ GoTo(c, "acquire")
    /\ UNCHANGED <<clock, singleton, mine, due, grants>>

\* One round of the bucket's loop: let through, or put to sleep outside the
\* lock.  Sleepers are not queued: whoever asks first after a refill is served.
Acquire(c) ==
    LET b == Refill(Bucket(c)) IN
    /\ pc[c] = "acquire"
    /\ due[c] <= clock
    /\ IF b.tokens >= Minute
         THEN /\ PutBucket(c, Spend(b))
              /\ grants' = [grants EXCEPT ![Key(c)] = Append(@, clock)]
              /\ GoTo(c, "granted")
              /\ UNCHANGED due
         ELSE /\ PutBucket(c, b)
              /\ due' = [due EXCEPT ![c] = clock + Wait(b)]
              /\ UNCHANGED <<grants, pc>>
    /\ UNCHANGED <<clock, singleton, mine>>

Step(c) == LookForLimiter(c) \/ CreateLimiter(c) \/ FindBucket(c) \/ Acquire(c)

AllGranted == \A c \in Calls : pc[c] = "granted"

Tick ==
    /\ clock < MaxClock
    /\ \A c \in Calls : pc[c] # "granted" => clock < due[c] + Lateness
    /\ ~AllGranted
    /\ clock' = clock + 1
    /\ UNCHANGED <<singleton, limiters, pc, mine, due, grants>>

Done == AllGranted /\ UNCHANGED vars

Next == (\E c \in Calls : Step(c)) \/ Tick \/ Done

Spec == Init /\ [][Next]_vars

\* Time passes, and the scheduler runs every thread that is ready.
FairSpec == Spec /\ WF_vars(Tick) /\ \A c \in Calls : WF_vars(Step(c))

-----------------------------------------------------------------------------
(* Properties.                                                             *)

BucketType == [rpm : Nat, tokens : Nat, refilled : Nat]

\* Types of the limiter's state; a bucket never holds more than a minute's
\* worth of tokens, and was refilled in the past.
TypeOK ==
    /\ clock \in Nat
    /\ singleton \in 0 .. Len(limiters)
    /\ limiters \in Seq([Keys -> BucketType])
    /\ pc \in [Calls -> {"start", "create", "bucket", "acquire", "granted"}]
    /\ mine \in [Calls -> 0 .. Len(limiters)]
    /\ due \in [Calls -> Nat]
    /\ grants \in [Keys -> Seq(Nat)]
    /\ \A i \in DOMAIN limiters, k \in Keys :
         LET b == limiters[i][k] IN b.tokens <= Capacity(b) /\ b.refilled <= clock

\* Every thread of every fan-out is paced by the same limiter, however their
\* first calls of get_limiter interleave.
OneLimiter ==
    \A c, d \in Calls : mine[c] # NoLimiter /\ mine[d] # NoLimiter => mine[c] = mine[d]

Rate(k) == limiters[singleton][k].rpm

\* The pacing, per key and not per model: between the i-th and the j-th call
\* let through on a key, at most a burst of one minute's worth and what accrued
\* since were, so that the window of any length sees a bounded number of calls.
WindowBound ==
    \A k \in Keys : \A i, j \in DOMAIN grants[k] :
        i <= j =>
            (j - i + 1) * Minute <= Rate(k) * (Minute + grants[k][j] - grants[k][i])

\* One more call at time t would keep to that bound over every window there is.
Fits(k, t) ==
    \A i \in DOMAIN grants[k] :
        (Len(grants[k]) - i + 2) * Minute <= Rate(k) * (Minute + t - grants[k][i])

\* The limiter holds nobody up for nothing: a call is put to sleep only when
\* letting it through would break the bound, and it is to wake up at the first
\* tick at which, if nobody on its key comes before it, it no longer would.
SleepsUntilItFits ==
    [][\A c \in Calls :
         due'[c] # due[c] =>
             /\ Fits(Key(c), due'[c])
             /\ clock < due'[c] /\ ~Fits(Key(c), due'[c] - 1)]_vars

\* "It never drops a call and never queues silently forever": every call that
\* asks is let through, though sleepers are not queued and race for the tokens.
EveryCallGranted == <>AllGranted
=============================================================================
