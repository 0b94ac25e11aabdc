------------------------------- MODULE FanOut -------------------------------
(***************************************************************************)
(* A fan-out (council/compare.py, run_compare and run_create; _fan_out of  *)
(* council/collab.py is the same): one call per model of the pool, made by *)
(* the workers of a ThreadPoolExecutor, their results taken in the order   *)
(* of the pool whatever the order they come in.                            *)
(*                                                                         *)
(* A pool is a sequence: `--models a,b,a` names a model twice.  The queue  *)
(* of the executor, the cancelling of what has not started when a result   *)
(* is an exception, and the wait on leaving its `with` are the library's.  *)
(***************************************************************************)
EXTENDS Integers, Sequences, FiniteSets

CONSTANTS Models,       \* model ids
          Pools,        \* the pools that may be asked for
          MaxWorkers,   \* max_workers
          LongestPool,  \* the length of the longest
          Agents        \* the models whose backend is opencode

ASSUME PoolsAssumption == /\ LongestPool \in Nat
                          /\ Pools \subseteq Seq(Models)
                          /\ \A p \in Pools : Len(p) <= LongestPool
ASSUME WorkersAssumption == MaxWorkers \in Nat \ {0}
ASSUME AgentsAssumption == Agents \subseteq Models

VARIABLES
    pool,       \* the models called
    phase,      \* what the main thread is at
    call,       \* where each call of the pool is, or what it came to
    taken,      \* results the main thread has taken
    calls,      \* the dictionary `calls`: the call a model's result is from
    tree        \* the calls that have written in the project's directory

fanVars == <<pool, phase, call, taken, calls, tree>>

NoCall == 0
Places == DOMAIN pool

AtLeast(n, floor) == IF n < floor THEN floor ELSE n
AtMost(n, cap) == IF n < cap THEN n ELSE cap

\* Defects to be caught: a worker less than there are models, or one per model.
WorkersOneShort == AtMost(Len(pool) - 1, MaxWorkers)
WorkersUnlimited == Len(pool)

Workers == AtLeast(AtMost(Len(pool), MaxWorkers), 1)

Are(state) == {i \in Places : call[i] = state}

\* What a mind may answer, as far as judging it is concerned: no diff and no
\* code, a diff that does not apply to the project, something to verify.
Answers == {"prose", "misfit", "patch"}
Results == Answers \cup {"failed"}

FanInit == /\ pool \in Pools
           /\ phase = "calling"
           /\ call = [i \in Places |-> "queued"]
           /\ taken = 0
           /\ calls = [m \in Models |-> NoCall]
           /\ tree = {}

\* An idle worker takes up the call submitted first.
Start(i) ==
    /\ call[i] = "queued"
    /\ \A j \in Are("queued") : i <= j
    /\ Cardinality(Are("running")) < Workers
    /\ call' = [call EXCEPT ![i] = "running"]
    /\ UNCHANGED <<pool, phase, taken, calls, tree>>

\* An opencode session has the project's directory for its own.
WriteTree(i) ==
    /\ call[i] = "running"
    /\ pool[i] \in Agents
    /\ tree' = tree \cup {i}
    /\ UNCHANGED <<pool, phase, call, taken, calls>>

\* safe_call returns an answer or a failed result, or lets an exception out.
Finish(i) ==
    /\ call[i] = "running"
    /\ \E how \in Results \cup {"raised"} : call' = [call EXCEPT ![i] = how]
    /\ UNCHANGED <<pool, phase, taken, calls, tree>>

\* A defect to be caught: the first result of a model is the one kept.
KeepFirst(i) == [calls EXCEPT ![pool[i]] = IF @ = NoCall THEN i ELSE @]

Keep(i) == [calls EXCEPT ![pool[i]] = i]

\* A defect to be caught: a call that is still running is taken as it stands.
ArrivedOnceStarted(i) == call[i] \in Results \cup {"running"}

Arrived(i) == call[i] \in Results

TakeResult ==
    LET i == taken + 1 IN
    /\ phase = "calling"
    /\ taken < Len(pool)
    /\ Arrived(i)
    /\ calls' = Keep(i)
    /\ taken' = i
    /\ UNCHANGED <<pool, phase, call, tree>>

\* The exception is raised again where its result is taken: calls that have
\* not started are cancelled.
TakeException ==
    /\ phase = "calling"
    /\ taken < Len(pool)
    /\ call[taken + 1] = "raised"
    /\ call' = [i \in Places |-> IF call[i] = "queued" THEN "cancelled" ELSE call[i]]
    /\ phase' = "leaving"
    /\ UNCHANGED <<pool, taken, calls, tree>>

\* A defect to be caught: the last result is not waited for.
AllButTheLastTaken == taken + 1 >= Len(pool)

AllTaken == taken = Len(pool)
Quiet == Are("running") = {}

\* The end of the `with`.
Leave ==
    /\ \/ phase = "calling" /\ AllTaken /\ phase' = "judging"
       \/ phase = "leaving" /\ Quiet /\ phase' = "aborted"
    /\ UNCHANGED <<pool, call, taken, calls, tree>>

Worker(i) == Start(i) \/ Finish(i) \/ WriteTree(i)
Collect == TakeResult \/ TakeException \/ Leave

\* What a fan-out is to its caller.  The exception that is raised is that of a
\* result not taken; what is raised later is not the fan-out's.
State == IF phase \in {"calling", "leaving"} THEN "calling"
         ELSE IF AllTaken THEN "returned" ELSE "raised"

OneRound == INSTANCE Round WITH Limit <- MaxWorkers, state <- State,
                                busy <- Are("running"),
                                result <- IF State = "returned" THEN call ELSE <<>>
=============================================================================
